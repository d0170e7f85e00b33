------------------------------- MODULE Outbox -------------------------------
(***************************************************************************)
(* Delivery of committed edits.  Each server process runs handlers, which  *)
(* commit an edit with its outbox row and then enqueue a delivery job per  *)
(* row, and one worker of the outbox queue, which publishes the row's      *)
(* update to the document's channel and deletes the row.  A process may    *)
(* die between any two calls; when it starts again it enqueues the rows it *)
(* finds.  Rows are named by their operation's sequence number.            *)
(***************************************************************************)
EXTENDS Naturals, FiniteSets

CONSTANTS
  Docs,         \* documents
  Servers,      \* server processes
  MaxSequence,  \* bound of the model: sequence numbers used
  MaxAttempts,  \* OUTBOX_MAX_ATTEMPTS
  MaxCrashes,   \* bound of the model: crashes of server processes
  MaxFaults,    \* bound of the model: failed calls and stalls of live workers
  MaxFailures,  \* bound of the model: the two together
  MaxStalls,    \* see JobQueue
  NoWorker

Rows == 1..MaxSequence

ASSUME MaxSequenceAssumption == MaxSequence \in Nat
ASSUME MaxAttemptsAssumption == MaxAttempts \in Nat \ {0}
ASSUME MaxCrashesAssumption == MaxCrashes \in Nat
ASSUME MaxFaultsAssumption == MaxFaults \in Nat
ASSUME MaxFailuresAssumption == MaxFailures \in Nat
ASSUME MaxStallsAssumption == MaxStalls \in Nat \ {0}
\* A job is handed out MaxStalls + 1 times; .env.example allows 10 attempts.
ASSUME StallsAssumption == MaxStalls <= MaxAttempts
ASSUME NoWorkerAssumption == NoWorker \notin Servers

VARIABLES
  log, outbox,  \* see DocumentLog; outbox also loses rows here
  attempts,     \* attempts[j]: column attempts of row j
  jobs,         \* the outbox queue, whose job ids are the row ids
  published,    \* rows whose update reached their document's channel
  handler,      \* handler[s]: an edit in progress on server s
  answer,       \* answer[j]: what the author of operation j was told
  worker,       \* worker[s]: progress of OutboxProcessor.process on server s
  boot,         \* boot[s]: progress of the start of server s
  crashes,      \* crashes so far
  faults        \* failed calls and stalls of live workers so far

deliveryVars == <<attempts, jobs, published, worker>>
requestVars == <<handler, answer>>
processVars == <<boot, crashes>>
vars == <<log, outbox, deliveryVars, requestVars, processVars, faults>>

Log == INSTANCE DocumentLog
Queue == INSTANCE JobQueue WITH JobIds <- Rows

Committed == {op.seq : op \in UNION {log[d] : d \in Docs}}

Idle == [at |-> "idle", ai |-> FALSE, todo |-> {}, edits |-> {}]
NoJob == [at |-> "idle", row |-> 0, attempts |-> 0, outcome |-> "completed"]
Up == [at |-> "up", pending |-> {}]

Init ==
  /\ Log!Init
  /\ Queue!Init
  /\ attempts = [j \in Rows |-> 0]
  /\ published = {}
  /\ handler = [s \in Servers |-> Idle]
  /\ answer = [j \in Rows |-> "none"]
  /\ worker = [s \in Servers |-> NoJob]
  /\ boot = [s \in Servers |-> Up]
  /\ crashes = 0
  /\ faults = 0

MayFail == faults < MaxFaults /\ crashes + faults < MaxFailures

-----------------------------------------------------------------------------

(* Fault to be caught: the outbox row is inserted outside the transaction,  *)
(* which then rolls back.                                                   *)
OutboxOutsideTransaction(s, ai) ==
  /\ boot[s].at = "up"
  /\ handler[s].at = "idle"
  /\ \E j \in Rows \ outbox : outbox' = outbox \cup {j}
  /\ UNCHANGED <<log, deliveryVars, requestVars, processVars, faults>>

(* The edit transaction: one operation of a client, or the accepted         *)
(* operations of an AI proposal.  Rows are numbered without gaps: nothing   *)
(* here depends on the numbers.                                             *)
CommitEdit(s, ai) ==
  /\ boot[s].at = "up"
  /\ handler[s].at = "idle"
  /\ \E d \in Docs, last \in Rows \ Committed :
       LET batch == (Cardinality(Committed) + 1)..last IN
       /\ ai \/ Cardinality(batch) = 1
       /\ Log!Commit(d, {[seq |-> j, clock |-> j] : j \in batch})
       /\ handler' = [handler EXCEPT ![s] =
                        [at |-> "enqueue", ai |-> ai, todo |-> batch, edits |-> batch]]
  /\ UNCHANGED <<deliveryVars, answer, processVars, faults>>

(* enqueueDelivery for the next row of the edit, in order.                  *)
EnqueueDelivery(s) ==
  /\ handler[s].at = "enqueue"
  /\ \E j \in handler[s].todo :
       /\ \A i \in handler[s].todo : j <= i
       /\ Queue!Add({j})
       /\ handler' = [handler EXCEPT
            ![s].todo = IF @ = {j} /\ handler[s].ai THEN handler[s].edits ELSE @ \ {j},
            ![s].at = IF handler[s].todo # {j} THEN "enqueue"
                      ELSE IF handler[s].ai THEN "publish" ELSE "answer"]
  /\ UNCHANGED <<log, outbox, attempts, published, worker, answer, processVars, faults>>

(* applyOps then publishes each update once itself; a failure is only       *)
(* logged.                                                                  *)
PublishDirectly(s) ==
  /\ handler[s].at = "publish"
  /\ \E j \in handler[s].todo, reached \in BOOLEAN :
       /\ \A i \in handler[s].todo : j <= i
       /\ reached \/ MayFail
       /\ published' = IF reached THEN published \cup {j} ELSE published
       /\ faults' = IF reached THEN faults ELSE faults + 1
       /\ handler' = [handler EXCEPT
            ![s].todo = @ \ {j},
            ![s].at = IF handler[s].todo = {j} THEN "answer" ELSE "publish"]
  /\ UNCHANGED <<log, outbox, attempts, jobs, worker, answer, processVars>>

Answered(s, what) ==
  [j \in Rows |-> IF j \in handler[s].edits THEN what ELSE answer[j]]

(* Fault to be caught: a failed enqueue is taken for a finished one.        *)
EnqueueErrorIgnored(s) ==
  /\ MayFail
  /\ handler[s].at = "enqueue"
  /\ answer' = Answered(s, "ok")
  /\ handler' = [handler EXCEPT ![s] = Idle]
  /\ faults' = faults + 1
  /\ UNCHANGED <<log, outbox, deliveryVars, processVars>>

(* The queue cannot be reached: the error ack, or the failed request.       *)
EnqueueError(s) ==
  /\ MayFail
  /\ handler[s].at = "enqueue"
  /\ answer' = Answered(s, "error")
  /\ handler' = [handler EXCEPT ![s] = Idle]
  /\ faults' = faults + 1
  /\ UNCHANGED <<log, outbox, deliveryVars, processVars>>

(* The ack, or the answer of the accept request.                            *)
AnswerOk(s) ==
  /\ handler[s].at = "answer"
  /\ answer' = Answered(s, "ok")
  /\ handler' = [handler EXCEPT ![s] = Idle]
  /\ UNCHANGED <<log, outbox, deliveryVars, processVars, faults>>

-----------------------------------------------------------------------------

(* What a step of the worker leaves alone unless it says otherwise.         *)
WorkerUnchanged == UNCHANGED <<log, requestVars, processVars>>

Goto(s, at) == worker' = [worker EXCEPT ![s].at = at]

TakeJob(s, j) ==
  /\ boot[s].at = "up"
  /\ worker[s].at = "idle"
  /\ Queue!Take(j, s)
  /\ worker' = [worker EXCEPT ![s] = [NoJob EXCEPT !.at = "row", !.row = j]]
  /\ UNCHANGED <<outbox, attempts, published, faults>> /\ WorkerUnchanged

(* getOutboxById: a row that is gone was delivered by an earlier run of the *)
(* job; one with no attempts left is given up.                              *)
ReadRow(s) ==
  /\ worker[s].at = "row"
  /\ LET j == worker[s].row IN
     worker' = [worker EXCEPT
       ![s].attempts = attempts[j],
       ![s].at = IF j \notin outbox THEN "return"
                 ELSE IF attempts[j] >= MaxAttempts THEN "dead" ELSE "publish"]
  /\ UNCHANGED <<outbox, attempts, jobs, published, faults>> /\ WorkerUnchanged

(* Fault to be caught: the row goes before its update is out.               *)
PublishAfterDelete(s) ==
  /\ worker[s].at = "publish"
  /\ outbox' = outbox \ {worker[s].row}
  /\ Goto(s, "delete")
  /\ UNCHANGED <<attempts, jobs, published, faults>> /\ WorkerUnchanged

Publish(s) ==
  /\ worker[s].at = "publish"
  /\ published' = published \cup {worker[s].row}
  /\ Goto(s, "delete")
  /\ UNCHANGED <<outbox, attempts, jobs, faults>> /\ WorkerUnchanged

(* deleteRow, after delivery or as dead letter.                             *)
DeleteRow(s) ==
  /\ worker[s].at \in {"delete", "dead"}
  /\ outbox' = outbox \ {worker[s].row}
  /\ Goto(s, "return")
  /\ UNCHANGED <<attempts, jobs, published, faults>> /\ WorkerUnchanged

(* A failure in the try block goes on with the retry ...                    *)
DeliveryError(s) ==
  /\ MayFail
  /\ worker[s].at \in {"publish", "delete", "dead"}
  /\ Goto(s, "count")
  /\ faults' = faults + 1
  /\ UNCHANGED <<outbox, attempts, jobs, published>> /\ WorkerUnchanged

(* ... which counts from the row as it was read; a row deleted meanwhile is *)
(* not updated ...                                                          *)
UpdateAttempts(s) ==
  /\ worker[s].at = "count"
  /\ attempts' = IF worker[s].row \in outbox
                   THEN [attempts EXCEPT ![worker[s].row] = worker[s].attempts + 1]
                   ELSE attempts
  /\ Goto(s, "requeue")
  /\ UNCHANGED <<outbox, jobs, published, faults>> /\ WorkerUnchanged

(* ... and adds a delayed job, under the id of the job still being run.     *)
Requeue(s) ==
  /\ worker[s].at = "requeue"
  /\ Queue!Add({worker[s].row})
  /\ Goto(s, "return")
  /\ UNCHANGED <<outbox, attempts, published, faults>> /\ WorkerUnchanged

(* An error outside the try block, or in its handler, fails the job.        *)
JobError(s) ==
  /\ MayFail
  /\ worker[s].at \in {"row", "count", "requeue"}
  /\ worker' = [worker EXCEPT ![s].at = "return", ![s].outcome = "failed"]
  /\ faults' = faults + 1
  /\ UNCHANGED <<outbox, attempts, jobs, published>> /\ WorkerUnchanged

ReturnJob(s) ==
  /\ worker[s].at = "return"
  /\ Queue!Finish(worker[s].row, s, worker[s].outcome)
  /\ worker' = [worker EXCEPT ![s] = NoJob]
  /\ UNCHANGED <<outbox, attempts, published, faults>> /\ WorkerUnchanged

(* Whether a live worker is at job j and BullMQ knows it.                   *)
InHands(j) == \E s \in Servers :
                jobs[j].owner = s /\ worker[s].at # "idle" /\ worker[s].row = j

(* The stalled-job check takes back a job whose worker died.                *)
RecoverJob(j) ==
  /\ ~InHands(j)
  /\ Queue!Stall(j)
  /\ UNCHANGED <<outbox, attempts, published, worker, faults>> /\ WorkerUnchanged

(* It also takes a job from a live worker that was too busy to renew.       *)
StallJob(j) ==
  /\ MayFail
  /\ InHands(j)
  /\ Queue!Stall(j)
  /\ faults' = faults + 1
  /\ UNCHANGED <<outbox, attempts, published, worker>> /\ WorkerUnchanged

-----------------------------------------------------------------------------

(* The process dies with whatever it was doing.                             *)
Crash(s) ==
  /\ crashes < MaxCrashes /\ crashes + faults < MaxFailures
  /\ boot[s].at # "down"
  /\ crashes' = crashes + 1
  /\ boot' = [boot EXCEPT ![s] = [at |-> "down", pending |-> {}]]
  /\ handler' = [handler EXCEPT ![s] = Idle]
  /\ worker' = [worker EXCEPT ![s] = NoJob]
  /\ UNCHANGED <<log, outbox, attempts, jobs, published, answer, faults>>

(* Fault to be caught: a starting process leaves old rows to others.        *)
GetNoPendingRows(s) ==
  /\ boot[s].at = "down"
  /\ boot' = [boot EXCEPT ![s] = [at |-> "start", pending |-> {}]]
  /\ UNCHANGED <<log, outbox, deliveryVars, requestVars, crashes, faults>>

(* onModuleInit reads the rows with attempts left ...                       *)
GetPendingRows(s) ==
  /\ boot[s].at = "down"
  /\ boot' = [boot EXCEPT ![s] =
                [at |-> "start", pending |-> {j \in outbox : attempts[j] < MaxAttempts}]]
  /\ UNCHANGED <<log, outbox, deliveryVars, requestVars, crashes, faults>>

(* ... and adds a job for each.                                             *)
AddPendingJobs(s) ==
  /\ boot[s].at = "start"
  /\ Queue!Add(boot[s].pending)
  /\ boot' = [boot EXCEPT ![s] = Up]
  /\ UNCHANGED <<log, outbox, attempts, published, worker, requestVars, crashes, faults>>

-----------------------------------------------------------------------------

Handle(s) == EnqueueDelivery(s) \/ PublishDirectly(s) \/ AnswerOk(s)

Work(s) ==
  \/ \E j \in Rows : TakeJob(s, j)
  \/ ReadRow(s)
  \/ Publish(s)
  \/ DeleteRow(s)
  \/ UpdateAttempts(s)
  \/ Requeue(s)
  \/ ReturnJob(s)

Start(s) == GetPendingRows(s) \/ AddPendingJobs(s)

Next ==
  \/ \E s \in Servers :
       \/ \E ai \in BOOLEAN : CommitEdit(s, ai)
       \/ Handle(s) \/ EnqueueError(s)
       \/ Work(s) \/ DeliveryError(s) \/ JobError(s)
       \/ Crash(s) \/ Start(s)
  \/ \E j \in Rows : RecoverJob(j) \/ StallJob(j)

Spec == Init /\ [][Next]_vars

(* A process that is up goes on with its work, one that died is started     *)
(* again, and BullMQ's stalled-job check keeps running.                     *)
FairSpec ==
  /\ Spec
  /\ \A s \in Servers : WF_vars(Handle(s)) /\ WF_vars(Work(s)) /\ WF_vars(Start(s))
  /\ \A j \in Rows : WF_vars(RecoverJob(j))

-----------------------------------------------------------------------------

TypeOK ==
  /\ log \in [Docs -> SUBSET Log!Ops]
  /\ outbox \subseteq Committed
  /\ attempts \in [Rows -> Nat]
  /\ Queue!TypeOK(Servers)
  /\ published \subseteq Committed
  /\ handler \in [Servers -> [at : {"idle", "enqueue", "publish", "answer"}, ai : BOOLEAN,
                              todo : SUBSET Rows, edits : SUBSET Rows]]
  /\ answer \in [Rows -> {"none", "ok", "error"}]
  /\ worker \in [Servers -> [at : {"idle", "row", "publish", "delete", "dead", "count",
                                   "requeue", "return"},
                             row : Rows \cup {0}, attempts : Nat,
                             outcome : {"completed", "failed"}]]
  /\ boot \in [Servers -> [at : {"up", "down", "start"}, pending : SUBSET Rows]]
  /\ crashes \in 0..MaxCrashes
  /\ faults \in 0..MaxFaults

(* A committed edit whose row is gone was published, or used up its         *)
(* attempts: no interleaving of two workers, crash or restart drops one.    *)
RowUntilPublished ==
  \A j \in Committed : j \in outbox \/ j \in published \/ attempts[j] >= MaxAttempts

(* Whoever was told "ok" has every operation of the edit committed and its  *)
(* delivery in the queue, also when its process died right after.           *)
AnsweredIsQueued ==
  \A j \in Rows : answer[j] = "ok" => j \in Committed /\ jobs[j].state # "absent"

(* BullMQ gave up on a job whose workers died once more than it tolerates.  *)
GivenUp(j) ==
  jobs[j].state = "failed" /\ jobs[j].stalls = MaxStalls /\ crashes > MaxStalls

(* docs/websocket.md: delivery "survives a worker crash mid-broadcast".  A  *)
(* crash of a process, at whatever step of handler or worker, delays the    *)
(* publication of a committed edit, as long as no call to Redis or Postgres *)
(* fails as well, and cancels it only when more than MaxStalls crashes hit  *)
(* one job in the hands of its workers: that job stays failed, and a        *)
(* restart adds the row under an id the queue knows.                        *)
DeliveredDespiteCrash ==
  \A j \in Rows : j \in Committed ~> j \in published \/ faults > 0 \/ GivenUp(j)

(* collaboration.gateway.ts: "the outbox retries until delivered".  A row   *)
(* whose publication failed, with attempts left, is in the end delivered    *)
(* and deleted, or out of attempts.                                         *)
RetriedUntilDelivered ==
  \A j \in Rows : j \in outbox /\ attempts[j] > 0 ~> j \notin outbox

=============================================================================
