------------------------------ MODULE JobQueue ------------------------------
(***************************************************************************)
(* A BullMQ queue as the backend uses it (external: only its calls are     *)
(* under src/).  Every job the backend adds carries a jobId of its own     *)
(* making, and adding an id the queue knows in any state, completed and    *)
(* failed included, does nothing; jobs are never removed, since the        *)
(* backend sets neither removeOnComplete nor removeOnFail.  A delayed job  *)
(* is a waiting one here: any time may pass before a worker takes it.      *)
(***************************************************************************)
EXTENDS Naturals

CONSTANTS
  JobIds,     \* the job ids the backend uses in this queue
  MaxStalls,  \* stalls after which BullMQ gives up on a job (maxStalledCount)
  NoWorker    \* nobody holds the job

VARIABLE jobs  \* jobs[j]: state, lock owner and stall count of job j

States == {"absent", "waiting", "active", "completed", "failed"}

TypeOK(workers) ==
  jobs \in [JobIds -> [state  : States,
                       owner  : workers \cup {NoWorker},
                       stalls : 0..MaxStalls]]

Init == jobs = [j \in JobIds |-> [state |-> "absent", owner |-> NoWorker, stalls |-> 0]]

(* Fault to be caught: the queue does not deduplicate.                      *)
AddEvenIfKnown(ids) ==
  jobs' = [j \in JobIds |->
             IF j \in ids THEN [jobs[j] EXCEPT !.state = "waiting", !.owner = NoWorker]
                          ELSE jobs[j]]

(* queue.add, queue.addBulk.                                                *)
Add(ids) ==
  jobs' = [j \in JobIds |->
             IF j \in ids /\ jobs[j].state = "absent"
               THEN [jobs[j] EXCEPT !.state = "waiting"]
               ELSE jobs[j]]

(* A worker is handed a waiting job and holds its lock.                     *)
Take(j, k) ==
  /\ jobs[j].state = "waiting"
  /\ jobs' = [jobs EXCEPT ![j].state = "active", ![j].owner = k]

(* The processor function of k returned ("completed") or threw ("failed").  *)
(* BullMQ ignores the report of a worker that has lost the job's lock.      *)
Finish(j, k, outcome) ==
  jobs' = [jobs EXCEPT ![j] =
             IF @.state = "active" /\ @.owner = k
               THEN [@ EXCEPT !.state = outcome, !.owner = NoWorker]
               ELSE @]

(* The lock of an active job was not renewed in time: its worker died or    *)
(* its event loop was busy.  The job is handed out again, or given up.      *)
Stall(j) ==
  /\ jobs[j].state = "active"
  /\ jobs' = [jobs EXCEPT ![j] =
                IF @.stalls < MaxStalls
                  THEN [state |-> "waiting", owner |-> NoWorker, stalls |-> @.stalls + 1]
                  ELSE [@ EXCEPT !.state = "failed", !.owner = NoWorker]]

=============================================================================
