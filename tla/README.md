# A TLA+ verification of the Meridian backend

Meridian is the backend of a collaborative document editor: a NestJS application
(`src/src/`) that may run as several server processes over one Postgres database
and one Redis. Clients edit a document over WebSockets by sending Yjs updates. The
backend records them in a log, delivers them to everybody else, compacts them into
snapshots, and lets an AI service propose edits which go through the same log.

This directory holds TLA+ models of that system, the configurations that
model-check them with TLC, and theorems about them that the TLA+ proof system
(TLAPS) checks. Paths below are relative to the backend's `src/` directory
(`src/src/…` from the root of the checkout).

## 1. Inventory

### 1.1 Components, state, operations

| Component (code) | State | Operations | What makes it correct |
|---|---|---|---|
| Operation log (`operations/`) | table `operations` (identity column `operation_sequence`, `clock_value`, one row per edit) and the row lock of `documents` | `acquireDocumentWriteLock`, `getMaxClockValue`, `insertOperation`, `getOperationsSinceSequence` | edits of one document are totally ordered, Lamport clocks follow the sequence numbers, a reader of "everything after *s*" never misses an operation at or below *s* |
| Snapshots (`snapshots/`) | table `snapshots`, pointer `documents.latest_snapshot_id`, BullMQ queue, lock key `snapshot:lock:<id>` | sweep job `ALL`, per-document job, `createSnapshot`, `getLatestSnapshot` | snapshot + later operations = the document, whatever commits or is compacted between the two reads; operations do get compacted |
| Outbox (`outbox/`) | table `outbox` with `attempts`, BullMQ queue | `insertOutboxEntry`, `enqueueDelivery`, `process`, `retryOrGiveUp`, `onModuleInit` | a committed edit is published at least once, across crashes and failing calls |
| Collaboration gateway (`collaboration/`) | per process: `roomsMap`, `subscribedChannels`; per socket: `user` (with the role read at join), `presenceCounted`, `messageCount` | `handleConnection`, `handleJoin`, `handleUpdate`, `handleDisconnect`, health check | nobody who joined misses an edit; rooms and subscriptions exist exactly while somebody needs them; presence follows the connections |
| Redis service (`redis/`) | pub/sub callbacks, presence hashes, proposals, token blacklist, throttle counters, locks | `publish`, `subscribe`, `unsubscribe`, `presenceJoin`, `setPresenceIdentity`, `presenceLeave`, `consumeProposal`, `blacklistToken`, `tryAcquireLock` | counts match open connections; a proposal is consumed once; an entry outlives its token |
| AI service (`ai/`) | proposals in Redis | `chat`, `proposeChat`, `acceptProposal`, `declineProposal`, `checkContentExistence`, `orderOpsForApplication`, `applyOps`, `reconstructDocument` | a proposal is applied at most once; its operations land where their text was found |
| Documents (`documents/`) | table `documents` with `status`, soft delete | CRUD, status updates, guards | what a guard found still protects the row when the handler acts |
| Memberships (`memberships/`) | table `memberships` | add, change role, remove | one author, always; one membership per user and document |
| Share links (`share_links/`) | table `share_links` | create, claim under `FOR UPDATE`, revoke | a single-use link is claimed once, a revoked one never |
| Auth (`auth/`, sessions) | JWT blacklist in Redis | login, guard, refresh, logout | a token that was given up is refused until it expires |
| Auth and reset tokens (`auth/`, `password_reset_tokens/`, `users/`) | tables `users`, `password_reset_tokens` | signup, verify, resend, forgot, reset | a used, superseded or expired secret is not accepted again |
| Yjs service (`yjs/`) | none (pure) | `extractText`, `insertText`, `deleteText`, `formatText` on text in blocks | the operation changes exactly the range asked for |
| Throttling (`common/guards`, `redis-throttler.storage.ts`) | counters in Redis | increment | one atomic script per request |
| Mail, health, DTOs, filters, configuration, migrations, seed | – | formatting, wiring | nothing beyond the framework |

### 1.2 How they interact

```
client --update--> gateway --tx--> operations + outbox     (one Postgres transaction)
                      |---add job---> outbox queue --> outbox worker --publish--> Redis doc:<id>
                      `---send------> other sockets of the same room                 |
AI service --tx--> operations + outbox, add jobs, publish directly                   |
every subscribed gateway process <------------------------frame----------------------'
                      `--send-> sockets of its room
sweep / disconnect --add job--> snapshot queue --> snapshot worker --> snapshots, pointer
join, AI service: read latest snapshot, then the operations after it

HTTP request --> JwtAuthGuard --> DocumentExistsGuard --> DocumentMembershipGuard --> handler
                 (blacklist in Redis)  (documents)            (memberships)   (documents, memberships,
                                                                               share_links, AI service)
```

The server processes share only Postgres and Redis. Within a process everything runs
on one thread, but every `await` lets other handlers run, so a handler is atomic only
from one `await` to the next.

### 1.3 What is hard about it

- **Interleaving**: transactions of several processes on one document; `handleJoin`
  and `handleDisconnect` of one process between each other's awaits.
- **Ordering**: an identity column hands out numbers before the commit, so without
  further care a lower number may become visible after a higher one; a join reads
  its state while edits commit, are published and relayed.
- **Crash and partial failure**: between commit and enqueue, between publish and delete,
  between the two subscriptions of a join, in the middle of a disconnect.
- **Timeout and retry**: BullMQ hands a stalled job to a second worker while the first
  still runs it; job ids are deduplicated against *completed and running* jobs.
- **Stale state**: the snapshot read before the operations; the room object
  looked up before the await; the role cached at join; what a guard read before the handler
  runs; offsets computed in a text that has changed since.
- **Numeric edges**: token lifetimes in whole seconds against a clock that does not tick in
  them; offsets at the border of two paragraphs.
- **Liveness**: writers queue on a row lock; edits have to be delivered and compacted.

`PROJECT.json` lists each hazard at the line where it bites, with the properties
that cover it, or with a note why none does.

## 2. Modules

| Module | Kind | Models |
|---|---|---|
| `DocumentLog` | abstract specification | what everybody else may assume of the log: edits appear whole, on top, in Lamport order, with their outbox rows |
| `OperationLog` | detailed specification | the edit transactions, statement by statement |
| `JobQueue` | component library | a BullMQ queue as the backend uses it (external) |
| `Snapshots` | composes `DocumentLog`, `JobQueue` | sweep, snapshot workers, loads, disconnect bookkeeping |
| `Outbox` | composes `DocumentLog`, `JobQueue` | handlers after their commit, delivery workers, crashes, restarts |
| `Gateway` | detailed specification | rooms, subscriptions, updates and presence of one document over several processes |
| `ProposalLife` | abstract specification | what the author of an AI proposal is promised: opened once, ended once |
| `Proposals` | detailed specification | chat, propose, accept and decline of the AI service, on one document |
| `Text` | algorithms and their use | content check, relocation, order and effect of AI operations on paragraphs |
| `Access` | detailed specification | documents, memberships and share links behind their guards |
| `Sessions` | detailed specification | JSON web tokens, the clock and the blacklist |
| `Accounts` | detailed specification | sign-up, verification and password reset of one address |
| `EditingProofs` (of `OperationLog` and `Text`), `SnapshotsProofs`, `OutboxProofs`, `GatewayProofs`, `ProposalsProofs`, `AccessProofs`, `SessionsProofs`, `AccountsProofs` | proofs | theorems of the nine modules |
| `MCOperationLog`, `MCSnapshots`, `MCOutbox`, `MCGateway`, `MCProposals`, `MCText`, `MCAccess`, `MCSessions`, `MCAccounts` | instances | values for TLC |

`OperationLog` is shown to implement `DocumentLog` (run `operation_log`, theorem
`Implements`), and `Snapshots` and `Outbox` use `DocumentLog!Commit` as their
commit. That is how the modules are composed: what they assume of the log is what
the transactions are proved to provide. `Gateway` in turn assumes what
`Snapshots!LoadsEverything` (a load yields all that is committed) and
`Outbox` (a committed update stays pending until it is published) show. The HTTP modules
meet at their guards: `Access` starts where `Sessions` has let a request in, and what its
AI endpoints do behind the guards is in `Proposals` (who may apply what, and when) and `Text`
(what comes out). `Sessions!Login` is the login that `Accounts` finds in order.

Operators whose comment starts with "Fault to be caught" are not part of any
specification. Each is a variant of the operator below it, with a plausible bug;
replacing the operator with it makes some property of the run fail, which shows that
the property depends on that piece of code.

### 2.1 OperationLog

One *writer* is one running call of `handleUpdate` (`collaboration.gateway.ts`) or
`applyOps` (`ai.service.ts`). `pc[w]` names the next statement of its transaction.

| Model | Code |
|---|---|
| `BeginUpdate`, `BeginApplyOps` | the transaction of a client's update (one operation, with the clock found in it) and of an accepted AI proposal (a batch) |
| `AcquireDocumentWriteLock` | `SELECT … FOR UPDATE` on the `documents` row; blocked while `rowLock` is held |
| `GetMaxClockValue` | `max(clock_value)` over the committed rows, then the larger of it and the received clock |
| `InsertOperation`, `InsertOutboxEntry` | the two inserts; `sequence` is the identity column, shared by all documents and never handed back |
| `Commit`, `Fail`, `SequenceExhausted` | the end: rows become visible at once or vanish; either way the lock goes |

A client's binary update is reduced to the clock `classifyUpdate` finds in it. `Fail`
is a failing statement, a lost connection or a dead process: Postgres treats
them alike.

### 2.2 Snapshots

Every database call is its own step, so edits, other workers and readers run
between any two. A snapshot is a mark `seq` and a `content`: the set of operations
replayed into it. The content of a Yjs state is exactly the set of updates it has seen
(merging is commutative, associative and idempotent, which is what the external library
promises), so "the reader gets the whole document" is an equality of sets.

| Model | Code |
|---|---|
| `Sweep`, `TakeJob`, `ReadSnapshot`, `ReadOperations`, `CreateSnapshot`, `ReturnJob`, `JobError` | `SnapshotProcessor.process`, `SnapshotsService.createSnapshot` (one transaction: insert and move the pointer) |
| `CrashWorker`, `StallJob` | death of a process; BullMQ's stalled-job check, which may also hit a live worker |
| `LoadSnapshot`, `LoadOperations` | the two reads of `handleJoin` and of `reconstructDocument` |
| `CloseReadSnapshot`, `CloseCount`, `CloseAddJob`, `CloseError`, `ExpireLock` | the bookkeeping at the end of `handleDisconnect`, and the key `snapshot:lock:<id>` |

### 2.3 Outbox and JobQueue

`handler[s]` is the request in progress on process `s` after its edit's transaction
has committed, `worker[s]` the delivery worker, `boot[s]` the start of the process.

| Model | Code |
|---|---|
| `CommitEdit`, `EnqueueDelivery`, `PublishDirectly`, `AnswerOk`, `EnqueueError` | `handleUpdate`, `applyOps` and `OutboxService.enqueueDelivery` |
| `TakeJob`, `ReadRow`, `Publish`, `DeleteRow`, `ReturnJob` | `OutboxProcessor.process` |
| `DeliveryError`, `UpdateAttempts`, `Requeue`, `JobError` | `retryOrGiveUp` and errors outside the `try` |
| `GetPendingRows`, `AddPendingJobs` | `onModuleInit` |
| `Crash`, `RecoverJob`, `StallJob` | the process dies; BullMQ takes the job back |

`JobQueue` is the external library as seen through the calls in the code. The rule
that matters is its deduplication: `add` with a `jobId` that the queue knows, in *any*
state, does nothing, and the backend sets neither `removeOnComplete` nor
`removeOnFail`. Delays (the retry's back-off) are not measured: a waiting job is taken
at any time. A job whose workers die more than `MaxStalls` times (`maxStalledCount`, 1 unless set, and the
backend does not set it) fails for good: `GivenUp`.

### 2.4 Gateway

One document. A socket's `join[c]` and `leave[c]` name the await at which its
`handleJoin` and `handleDisconnect` stand; each action is the code between two awaits.

| Model | Code |
|---|---|
| `RefuseJoin`, `EnterRoom` | the membership query's answer; the room is created when missing |
| `SubscribeDoc`, `SubscribePresence`, `SubscribeError` | the two subscriptions, skipped when `subscribedChannels` has the document; a failing call closes the socket, and if it is the second one the join is `stranded`: the callback of the first stays |
| `CountPresence`, `SetPresenceIdentity` | `presenceJoin` (HINCRBY), and for a first connection the name in the roster |
| `Load`, `JoinError` | the load that becomes `initial_state`; a failing call of either kind |
| `PresenceLeave` (in `LeaveCounted`) | the Lua script: decrement, and at zero both fields go |
| `CommitUpdate`, `SendToPeers` | `handleUpdate` up to the enqueue, and its local broadcast |
| `PublishUpdate`, `MoveToDeadLetter`, `Relay` | the outbox worker's publish, or its dead letter (any pending row, at any time: `Outbox` has the attempts), and the callback that relays the frame |
| `Close`, `LeaveNothing`, `LeaveCounted`, `LeaveUncounted`, `DropRoom`, `UnsubscribeDoc`, `UnsubscribePresence`, `LeaveError` | `handleDisconnect` |

A *room object* is named by the socket that created it (`members[r]`), because the
code holds on to the object across an await while `roomsMap` may have moved on to another:
`leaving[c]` is the object a disconnect looked up, `room[i]` what the map holds.
`listeners[i]` counts callbacks, since node-redis keeps each one that is registered
and `unsubscribe` removes them all. `have[c]` is the set of updates a client
holds: its own, those of its `initial_state` and those sent to it.

Presence is kept in two hashes of Redis: `count[u]` connections of a user, and the name shown
in the roster, which only the first connection sets (`named`). The handler that counts
and the handler that names are the same, but the two calls are apart, and the socket may close before,
between or after them: `client.presenceCounted` decides whether the disconnect takes the
count back.

Two history variables mark where the code gives up its promises. `disturbed` holds the
processes on which a join and a disconnect of this document ran at the same time, or on which
a disconnect was cut short by a failing call: there a joined socket may be left without a
subscription, as the run `gateway_reached` shows. `strayed` holds the users one of whose
connections was counted or named after its own disconnect had passed that point, or lost its count to a
failing call: their count may stay too high until the keys expire (12 hours, not
modelled). The invariants say that everything holds in all other cases, and
`PresentWhileConnected` holds without exception.

### 2.5 Proposals

One document and the requests to the AI service about it. `request[r].at` names what a
request does next; other users edit in between (`Edit`), and so do the requests
themselves. `staged` is the set of keys `proposal:<id>` in Redis.

| Model | Code |
|---|---|
| `Generate` | `reconstructDocument`, `generateValidatedOps`: what the model answers, compared with the text it was given |
| `Chat`, `StageProposal` | `chat` and `proposeChat` after their content check (`resolveContentCheck`) and scope check |
| `PeekProposal`, `Reconfirm`, `CheckContent`, `ConsumeProposal`, `ApplyOps` | `acceptProposal`: GET, content check against the live text, 409 with the new diff, GETDEL, transaction |
| `DeclineProposal`, `ExpireProposal` | `declineProposal`; the key's time to live |
| `Abandon` | format, content or scope check refuses; a call fails; the process dies |

Text is reduced to how each operation of a proposal compares with it: `"exact"`
(found in its place or, by `findNearestExactText`, elsewhere), `"similar"` (the fuzzy
match) or `"gone"`. That is all `checkContentExistence` lets its callers see. Any commit may
change every comparison (`TextChanges`). `shown` and `declined` are history variables:
what the author has seen, and which proposals a decline found.

### 2.6 Text

The pure part of AI edits, with just enough of a request around it. A document is a sequence of
paragraphs of one text node each; a node is a sequence of cells, a character that is bold or
not; `Render` writes the tags that `Y.XmlText.toString` writes (of one character each here). The
flat text that the AI works on joins the paragraphs with a blank line.

| Model | Code |
|---|---|
| `ExtractText`, `LinearizeXmlText`, `Overlaps`, `InsertText`, `InsertBlocks`, `DeleteText`, `PruneEmptyBlocks`, `FormatText` | the methods of those names of `YjsService` (`Overlaps` is `forEachXmlTextRange`) |
| `YInsert`, `YDelete`, `YFormat`, `Render` | `Y.XmlText` (`YInsert` and the others are external) |
| `Versions`, `Classified`, `ApplyOps` | `applyOps`: each operation becomes one update, and `classifyUpdate` throws for one that carries nothing, which rolls the transaction back |
| `Erases`, `ErasedBy` | the delete set of the document, which Yjs sends along with every update (external) |
| `Similar`, `Levenshtein`, `FindNearestExactText`, `CheckContentExistence` | check 2 of `AiService`: exact, relocated, fuzzy or gone, operation by operation |
| `OrderOpsForApplication`, `ComputeAfter` | the order of application |
| `Generate`, `Chat`, `StageProposal`, `AcceptProposal`, `AcceptConfirmed`, `Refuse` | one answer of the language model on its way into the document |
| `Edit` | what others type between staging and acceptance |
| `TextDocs`, `TextOps` (`RangeEdits`, `Insertions`) | the documents and the `AiOp`s these work on |

Its specification is `TextSpec`, with `TextInit`, `TextNext` and `TextTypeOK`: `EditingProofs` speaks of this
module and of `OperationLog`.

The answer of the language model is any list of operations that quote the text as it is or with
spaces for the breaks. As `validateOperations` asks of a range no more than that it ends after it starts, each of
its ends may be anywhere: `Shifts` is the set of pairs by which they are off, beyond the end of the text and before its
start included (a negative offset counts from the end in `String.slice`, not in Yjs: `JsSlice`). A range whose slice is
what it quotes is applied as it was sent, however far beyond the text it reaches; only one that had to be looked for gets the
length of its quote. Offsets are whole numbers, although `validateOperations` lets fractions pass. An operation
that quotes something the text never had is rejected by the check (or stops it, when it is similar) and is left out; edits by others
bring such operations about between staging and acceptance.

Whether an operation without effect is refused depends on the history of the document: an update that adds nothing
still carries the delete set, if anything was ever deleted. `erased` keeps that.

### 2.7 Access

One document, three kinds of member, share links. `request[r].at` names the guard or the statement
that a request runs next; the guards are steps apart from the handler, as each of them
awaits the database.

| Model | Code |
|---|---|
| `Endpoint` | the routes of `DocumentsController`: the memberships their guards let through and the answers they document |
| `DocumentExistsGuard`, `DocumentMembershipGuard` | `documents.guards.ts` (the guards of the roles decide on what the second one has read) |
| `CreateDocument`, `ReadDocument`, `UpdateDocumentTitle`, `UpdateDocumentStatus`, `SoftDeleteDocument` | `DocumentsService` |
| `AddMember`, `FindMember`, `UpdateMemberRole`, `RemoveMember` | invitations, changes of a role (look-up, then `UPDATE … RETURNING`), removals |
| `CreateShareLink`, `RevokeShareLink`, `ExpireLink` | `ShareLinksService` |
| `FindAndValidateLink`, `AddMemberViaLink`, `MarkLinkAsClaimed` | the claim transaction; its `SELECT … FOR UPDATE` keeps the row (`Locked`), its insert holds the unique key of the membership (`Inserting`) |
| `AskAi`, `AiAnswers` | how the exception filter answers the errors of the AI service, that of an operation without effect among them (`Rejected`, a 500) |
| `RefuseBody` | the `ValidationPipe`'s 400, after the guards, wherever there is a body (`WithBody`) |
| `RejectValue` | a token or user id that is no uuid, a title that is null or holds a zero character: nothing checks them before Postgres does (`Unchecked`), and the filter has only 500 for its error |
| `Fail` | a failing call or a dying process; the transaction is rolled back |

`admitted[l]` is a history variable (whose claims of a link have committed), and so is
`overtaken` (requests that were past `DocumentExistsGuard` when the document was deleted).

### 2.8 Sessions

A JWT expires on a whole second; an entry of the blacklist lives a number of whole seconds from
whenever Redis sets it. The clock therefore ticks `TicksPerSecond` times a second and the
code sees `NowInSeconds`, rounded down.

| Model | Code |
|---|---|
| `Login`, `Sign` | `AuthService.login` and `JwtService.signAsync` |
| `CanActivate`, `CheckBlacklist` | `JwtAuthGuard`, and the handshake in `handleConnection` |
| `Logout`, `IssueNewJwt`, `SignNewJwt`, `BlacklistToken` | `logout` and `issueNewJwt` between their awaits; `RedisService.blacklistToken` |
| `Fail` | a call to Redis fails, perhaps after it has taken effect |
| `Tick` | time passes, between any two steps |

`spent` is a history variable: the tokens whose logout or refresh was answered.

### 2.9 Accounts

One email address. Hashing and mail are left out: a code or token that was stored may be sent back
by anybody at any time, also one that was superseded.

| Model | Code |
|---|---|
| `Signup`, `InsertUser` | look-up, and the insert that the unique index may refuse |
| `UniqueEmailViolation` | the loser of two sign-ups. `isUniqueEmailViolation` looks for `code` on the error it catches, but drizzle-orm (0.45.2 in `package-lock.json`) throws a `DrizzleQueryError` that has the error of Postgres as its `cause`: the answer is the 500 below the branch (`Lost`) |
| `RejectName` | a name with a zero character passes the DTO and fails in the insert, with the same 500 |
| `VerifyEmail`, `MarkVerified` | the check of the code, then the update by id |
| `ResendVerificationEmail`, `StoreNewCode`, `Login`, `ResendDuringLogin` | a new code, also as a side effect of a login |
| `ForgotPassword`, `RevokeActiveTokensForUser`, `CreateToken` | two statements without a transaction |
| `ResetPassword`, `GetActiveTokensByUserId`, `SetPassword` | the list of active tokens, then one transaction; `dead` keeps whether the token was used, revoked or expired when the request arrived |
| `Lapse` | a code or token expires |

## 3. Runs

| Run | Expectation | Bounds | Size |
|---|---|---|---|
| `operation_log` | pass | 2 writers, 2 documents, 4 sequence numbers, batches ≤ 2, received clock 0 or 2 | 238,656 states |
| `snapshots` | pass | 2 workers, 1 document, 1 reader, 1 disconnect, 3 sequence numbers, threshold 2, 1 stall, all failures | 104,394 states |
| `snapshot_sweep` | violation | 1 worker, no failures, 2 sequence numbers | small |
| `outbox` | pass | 2 processes, 2 rows, 2 crashes or 1 crash and 1 failed call or stall of a live worker, 1 attempt, 1 tolerated stall | 581,822 states |
| `outbox_retry` | violation | 2 processes, 1 row, 2 attempts, 2 failures | small |
| `gateway` | pass | 2 processes; 2 sockets of one reader on the first, whose calls may fail, 1 lasting author on the second; 1 update | 1,478,355 states |
| `gateway_reached` | violation | 2 processes, 2 + 1 sockets, the third a viewer, no failing call | – |
| `proposals` | pass | 2 requests, 2 proposals of a deletion and an insertion, 1 edit by others | 276,994 states |
| `text` | pass | 4 documents of ≤ 2 paragraphs, 2 texts to insert, answers of ≤ 2 operations, 3 shifts of a range, 1 edit by others | 251,171 states |
| `access` | pass | 3 users, 1 link, 2 requests at a time, any number of them | 1,464,175 states |
| `sessions` | pass | 3 tokens of 1 second, 2 ticks a second, 4 ticks, 2 requests at a time | 706,173 states |
| `accounts` | pass | 2 codes, 3 reset tokens, 2 requests at a time | 315,169 states |

**operation_log.** Two transactions are enough for every conflict over one row: a third
could only wait as well, and what the waiting depends on is one lock. Four numbers allow
two edits of one document with a batch of another in between, rollbacks that leave
gaps, and the exhausted column (the real one has 2³¹ − 1 values; the run checks that
the transaction that finds none ends cleanly). A received clock of 2 is ahead of, equal
to or behind what is in the log. The run checks `TypeOK`, `LamportOrder`, that the
transactions implement `DocumentLog` (`ImplementsDocumentLog`), that nothing commits below what is visible (`NoLateCommit`),
and that every transaction ends (`EveryTransactionEnds`).

**snapshots.** One stall puts both workers on one document, the only way they can
meet; three numbers let a snapshot, a later edit and one during the replay
coexist; a threshold of two tells "enough" from "too few". Documents share nothing
here but the counter, which the choice of any fresh number stands for, so one
document is enough. `SnapshotsExact` and `LoadsEverything` say that
snapshot plus later operations is the document; `OneWorkerPerDocument` and `NoRegress`
say what the deduplicated job id buys (and that a stall voids it: then the latest
pointer may really move back, harmlessly for loads by `SnapshotsExact`).

**snapshot_sweep.** A violation. The completed job keeps the id
`snapshot-<document>`, so later sweeps and disconnects add nothing: an edit after the
first job is never compacted, although the README of the backend says that replay time stays
bounded. No failure is involved.

**outbox.** Crashes at any step of the handler or the worker of either process, two of them or one
with a failing call or stall at any step as well (`MaxFailures`), deliveries one by one or in a batch.
`RowUntilPublished`: a row goes only when its update was published or its attempts were
used up. With one attempt, the dead letter and the second worker meet at once.
`AnsweredIsQueued`: "ok" means committed and queued. `DeliveredDespiteCrash`
(liveness): while no call fails, a committed edit is published in spite of crashes, with one exception, which two
crashes reach: the second worker of one job dies as well, BullMQ fails the job (`GivenUp`), and the restart adds the row
under an id the queue knows. A failed call may cost a delivery too, which
is why the property says `faults > 0`; see the next run.

**outbox_retry.** A violation. `retryOrGiveUp` adds the retry under the id of the job
that is still running it; the add is ignored, the job completes, and the row stays
with attempts left. A restart adds it under the same id, in vain.

**gateway.** Two sockets of one user on one process and an author on another: joins that share a
room and a subscription, joins that both subscribe, joins whose socket closes at any await, disconnects of
both at once, an update that is committed, published and relayed at any moment of these. Every
call of the two sockets' handlers may fail (`Flaky`). `NoMissedUpdate`: after
`initial_state`, every committed update is with the client, in the outbox, on its
way, or was given up as a dead letter. It covers the window between the load and the subscription, the reason why the
code subscribes first. `SubscribedIsListening` and `NothingLeftBehind` are about the
bookkeeping a later join relies on. When all sockets of a process are gone, `NothingLeftBehind` finds neither room nor
mark, whatever joins failed, and no callback either, with one exception that the formula names: a join whose second
subscription failed (`stranded`) leaves the callback of the first for good. `PresentWhileConnected`: nobody is taken for absent while one of
their sockets is connected, whatever happens to the others. `RosterExact`: counts and names follow
the connections of everybody outside `strayed`. One update is enough since updates do not
interact: each is committed, published and relayed for itself. The author's socket, once open, stays (`Lasting`): its
process does in its memory what the first one does, with nobody to interfere, and what the
readers see of it is the frame. Two sockets of one user are what it takes
for a last leave to meet a first join. An author who shares a process with the readers, or leaves after
an edit, is in the run `gateway_reached`.

**gateway_reached.** A violation without failures: while the last disconnect
awaits its two unsubscribe calls the document is still in `subscribedChannels`; a join at
that moment does not subscribe, and is left without a channel.

**proposals.** Two requests race for a proposal, with a decline and an expiry at any moment,
while the other proposal (or a chat) changes the text as well. A third accept could
only lose the same race. `AppliedOnce` and `DeclinedStaysOut`: accepts that
have already read and checked the proposal lose it to whoever took the key;
`ImplementsProposalLife`: opened once, ended once.

**text.** The documents are a paragraph, two equal ones (an ambiguous quote), a bold run, and none at all;
one inserted text continues a paragraph, one ends it and starts another. Ranges are as they should be, one character
too long (past the end of the text when they are its last), or start two places early, also in front of the text. Two operations are the least that can shift each other, one edit by others
the least that makes a staged range stale. `EditsLandInPlace` compares what the service does, one operation
after the other through offsets and nodes, with the operations as simultaneous edits of the flat text. Its first part, that a
range edit works on what it quotes, is about every answer and every document, and about ranges past the end too; only a range
that starts in front of the text is excepted, since there the check and Yjs count differently.
`ParagraphsKept` adds the breaks. The comparisons speak of *orderly* answers to unformatted text, with ranges within it. Each part of
that restriction is needed, and section 5 says what goes wrong without it. For all but one part TLC
shows it within two operations; `ApartAtBreaks` takes three, and was found by the proof of `EditsLand`
(section 4).

**access.** Three users are the author, a second member and somebody who joins meanwhile; two
requests at a time, as many as they like one after the other, and each guard, statement and failure in
any order. Two claims race for one link, or a claim and its revocation, or a change of a role
and a removal of the same member, or anything and the deletion of the document. A third request could
only wait for the same row. `listMembers`, `proposeChat` and `declineProposal` are not called
(`Served`): in what they do to this state they equal `getDocument` and `chat`.
`SingleUse`, `RevokedAdmitsNobody`: the claim decides on the row it has locked.
`AuthorRemains`: no sequence of requests leaves the document without its one author. `DeletedIsClosed`: only
a request that had passed its first guard before can change a deleted document. (One that
updates the status brings it back; the code has no check against that.)
`AnsweredAsDocumented`: a request that was overtaken is answered with a status of its
endpoint's documentation all the same, or with one of those that `Undocumented` lists for it: the 500 of a failing call, of a
rejected value or of an operation of the AI without effect, and the 400 of `acceptProposal`'s body. The property says that none
of these, and nothing else, comes of overtaking.

**sessions.** Half seconds are the coarsest clock in which an entry can be set between two seconds; three tokens are a token, its successor and that one's
successor. `SpentIsRefused`: entry and token, both rounded, do not leave a gap at the end.
`NothingAfterSpent`: a request that arrives after the token was given up gets no new one and is served only
in one case, which TLC found: the token was valid when the guard verified it and has expired, with its entry, by the time
the guard asks for the blacklist.

**accounts.** Two codes are one and its replacement; three reset tokens are what two overlapping
requests and an earlier one can store. `DeadSecretsStayDead`: a token that was dead when its
request arrived never reaches the transaction. `ActiveOnlyByOverlap` counts: more than one active token takes
requests that overlapped. `AnsweredAsDocumented`: whatever changes between the look-up of a request and its action, its answer is
one that the endpoint documents; only a sign-up may get a 500 without a failing call, for its name or
because it lost to another one, and then there is an account.

Symmetry is declared only where no liveness property is checked and only for
values that the definitions treat alike (`Permutations({c1, c2})`: two sockets of one
process and user; workers of the snapshot queue; requests, proposals, users, tokens and codes). `CHECK_DEADLOCK FALSE`
stands where the system may really come to rest: in `Outbox` the bounded edits are
all delivered and crashes used up, in `Gateway` all sockets have left, in `Text` the answer was applied
or refused. Everywhere else something can always be done, and TLC checks it.

### Fairness

- `OperationLog!Fairness`: weak fairness of a writer's statements (Postgres answers) and
  strong fairness of getting the row lock: Postgres queues waiting transactions, so a
  waiter gets a lock that is released again and again. Starting an edit is never fair.
- `Snapshots!FairSpec`: the repeated sweep is scheduled for ever, an idle worker takes
  a waiting job and goes on with it.
- `Outbox!FairSpec`: a process that is up goes on with handler and worker, one that
  died is started again, the stalled-job check keeps running. Edits, crashes and
  failures are not fair.
- `Gateway`, `Proposals`, `Text`, `Access`, `Sessions` and `Accounts` state safety only: what they promise does not
  depend on anybody going on.

## 4. Theorems

`EditingProofs`, about `OperationLog` (any documents, writers, batch size, clocks, last sequence number):

| Theorem | States |
|---|---|
| `TypeCorrect` | `Spec => []TypeOK` |
| `Inductive` | `Spec => []IInv` |
| `ClocksFollowSequence` | `Spec => []LamportOrder` |
| `Implements` | `Spec => ImplementsDocumentLog` |
| `NothingCommitsLate` | `Spec => NoLateCommit` |

`EditingProofs`, about `Text` (any documents, of any number and length of paragraphs, any texts to insert, any number
of operations in an answer, any ranges and places, any threshold, any edits by others):

| Theorem | States |
|---|---|
| `TextTypeCorrect` | `TextSpec => []TextTypeOK` |
| `EditsLand` | `TextSpec => []EditsLandInPlace` |
| `ParagraphsStay` | `TextSpec => []ParagraphsKept` |

`SnapshotsProofs` (any documents, workers, readers, closers, threshold, number of stalls):

| Theorem | States |
|---|---|
| `TypeCorrect` | `Spec => []TypeOK` |
| `Inductive` | `Spec => []IInv` |
| `Exactness` | `Spec => []SnapshotsExact` |
| `OneWorker` | `Spec => []OneWorkerPerDocument` |
| `NothingSkipped` | `Spec => LoadsEverything` |
| `PointerAdvances` | `Spec => NoRegress` |

`OutboxProofs` (any documents, processes, rows, crashes, failing calls and stalls):

| Theorem | States |
|---|---|
| `TypeCorrect` | `Spec => []TypeOK` |
| `Inductive` | `Spec => []IInv` |
| `NoRowDropped` | `Spec => []RowUntilPublished` |
| `OkIsQueued` | `Spec => []AnsweredIsQueued` |

`GatewayProofs` (any processes, sockets, users and updates, any distribution of the sockets):

| Theorem | States |
|---|---|
| `TypeCorrect` | `Spec => []TypeOK` |
| `Inductive` | `Spec => []IInv` |
| `NeverAbsent` | `Spec => []PresentWhileConnected` |
| `RosterIsExact` | `Spec => []RosterExact` |
| `SubscriptionListens` | `Spec => []SubscribedIsListening` |
| `NothingLeft` | `Spec => []NothingLeftBehind` |
| `NoneIsMissed` | `Spec => []NoMissedUpdate` |

`ProposalsProofs` (any proposals, requests and operations, any number of edits):

| Theorem | States |
|---|---|
| `TypeCorrect` | `Spec => []TypeOK` |
| `Inductive` | `Spec => []IInv` |
| `NeverTwice` | `Spec => []AppliedOnce` |
| `DeclineWins` | `Spec => []DeclinedStaysOut` |
| `Implements` | `Spec => ImplementsProposalLife` |

`AccessProofs` (any users, links, requests and endpoints served):

| Theorem | States |
|---|---|
| `TypeCorrect` | `Spec => []TypeOK` |
| `Inductive` | `Spec => []IInv` |
| `OneClaimWins` | `Spec => []SingleUse` |
| `AuthorStays` | `Spec => []AuthorRemains` |
| `RevocationWins` | `Spec => RevokedAdmitsNobody` |
| `ClosedOnceDeleted` | `Spec => DeletedIsClosed` |
| `AnswersDocumented` | `Spec => AnsweredAsDocumented` |

`SessionsProofs` (any tokens, requests, lifetime, resolution and length of the clock):

| Theorem | States |
|---|---|
| `TypeCorrect` | `Spec => []TypeOK` |
| `Inductive` | `Spec => []IInv` |
| `BlacklistOutlives` | `Spec => []SpentIsRefused` |
| `SpentStaysSpent` | `Spec => NothingAfterSpent` |

`AccountsProofs` (any codes, reset tokens and requests):

| Theorem | States |
|---|---|
| `TypeCorrect` | `Spec => []TypeOK` |
| `Inductive` | `Spec => []IInv` |
| `DeadForGood` | `Spec => []DeadSecretsStayDead` |
| `AnswersDocumented` | `Spec => []AnsweredAsDocumented` |
| `ActiveByOverlap` | `Spec => []ActiveOnlyByOverlap` |

The assumptions are the named `ASSUME`s of the modules: bounds are naturals, the
"nobody" value is not a user, worker or writer, clocks are naturals, `MaxStalls` is at
least 1 (BullMQ's default), sockets and requests at a time are finitely many where they are counted, codes and reset
tokens are different things, the documents and texts of `Text` are sequences of paragraphs over a set of characters that
has the tags, the line break and the blank in it, an inserted text has a first paragraph, and in `Outbox`, `MaxStalls` is at most `MaxAttempts` (`OUTBOX_MAX_ATTEMPTS`, 10 in `.env.example`).

**Why `OperationLog!IInv` is needed.** `LamportOrder` is not inductive: that a commit
keeps it depends on what the transaction knows. `LockHeld` says that exactly the
transactions past `SELECT … FOR UPDATE` hold the row; `AboveCommitted` that what a
holder has read is still current and what it has inserted lies above all that is
visible in its document. It is preserved by others' commits because they hold
another row. `SequencesDistinct` keeps private rows apart from everything else,
`OpenTodo` and `OutboxComplete` give the abstract commit its non-empty batch and its
outbox rows. `Implements` maps a commit to `DocumentLog!Commit` and every
other step to a stutter; `NothingCommitsLate` follows from `AboveCommitted` alone.

**How `EditsLand` is proved.** The inductive invariant is short (`TextIInv`): types, and after an applied answer
the document is `ComputeAfter` of the one before, with each range that does not start in front of the text where the check
found its text. As an exact match keeps its range as sent, that does not bound the ranges, and the rest is
stated for operations whose ranges and places lie in the text (`Placed`), which is what `Orderly` asks. That no
run of the checker can settle in general is the rest: that applying the operations one after the other, through
the offsets of a document that changes under them, gives the text of the simultaneous edits. It is an induction over the operations in the
order of application, whose existence (`OrderFacts`: any strict order of finitely many things enumerates them)
is proved first. Its invariant is `Frontier(D, d, p, R)`: the document *d* reached so far is the original *D* up to the
place *p* of the flat text, and what stands behind that place is *R*, the edited rest. `Lands` says what
an operation has to do to it: `InsertLands`, `DeleteLands` and `FormatLands` show that each does, on the level of
paragraphs and offsets (which paragraph owns a place, what a range covers in each, what pruning takes
away); `RestInsert`, `RestDelete`, `RestFormat` and `RestLower` that the edited text on the other side changes in the same way; `LaterIsBefore`
and `PastTheEnd` that an operation applied later reaches no further than the frontier. The order matters only there. One case
breaks the picture: a delete may prune the paragraph at the frontier when it is the last, and an insert at its start then falls back to
the end of the paragraph before. `FallbackClear` shows that nothing else is applied between the two places; for
this the answer has to keep `ApartAtBreaks`. What folds and recursive functions compute is proved from their
defining equations by well-founded induction on naturals (`Induction`, `Recursion`, `FoldApply`).

**How `ParagraphsStay` is proved.** The same `TextIInv`, and a second induction over the order of application with a
stronger invariant for fewer answers: `EditsLand` compares texts without their breaks, here every break counts.
`Exact(D, d, O, K, t, o)` says of the document *d* reached by the operations *K* of the answer *O* that it is still the
original *D* up to character *o* of paragraph *t*, that this paragraph is still there, and that what stands behind
the place is, breaks included, what *K* leaves there when made at once (`Remains`). It holds for any place further to the front
as well (`ExactTo`). An operation within a paragraph replaces that paragraph and no other
(`InsideOverlap`, `Replaced`; `ExactFormat`, `ExactDelete`), and an insert replaces it by as many as its text has segments
(`ExactInsert`). Why nothing is pruned: a paragraph without a character left would have lost all it had (`Lost`,
`LostDelete`), and then the answer would empty it (`NoneLost`), which `Emptied` excludes. So there is no
counterpart of the fallback above. `AppliedWithin` puts the induction together, `ExactLast` draws the conclusion.

**Why `Snapshots!IInv` is needed.** A snapshot is exact when it is written because
the delta was complete up to its highest number (`DeltaComplete`) although
edits have committed since; that those lie above is `DocumentLog!Commit`. `NoRegress`
needs that the pointer has not moved under a worker (`PointerHeld`), which needs that
the job was its own all the time (`JobHeld`).

**Why `OutboxProofs!IInv` is needed.** A worker whose job stalled may still be at it while another one runs the
same job, and it writes the attempts it read plus one, over whatever the column holds by then. If that took back
attempts that the other has just judged to be used up, the other would delete a row that looks as if it had
attempts left. `AttemptsCounted` excludes it: each attempt in the column, and each worker that may still count
one, stands for one of the `MaxStalls + 1` times a job is handed out, so with `MaxAttempts` counted there is no
room for a second worker. This is the one place where `MaxStalls <= MaxAttempts` is used; with 2 attempts and
3 stalls TLC finds the late write and the lost row. `WorkerFine` says what a worker past `ReadRow` knows of its row,
`HandlerFine` that the edits a handler has been through have their jobs.

**Why `GatewayProofs!IInv` is needed.** No invariant of the gateway's run is inductive. A client misses nothing
because its process relays every frame to its room: so `RoomExact` says which sockets are in the room that the map
holds now (those that have entered and not looked it up to leave), and `SubscriptionExact` at which awaits
the callback is there, at which the process believes so, and that both go after the room. A handler
that holds on to a room object across an await may drop another one: that it does not is `RoomExact` again
(whoever may still drop a room holds the one in the map, or there is none), and it is preserved because on an undisturbed
process joins and disconnects keep apart (`Apart`). `LiveIsReached` draws the conclusion for a
joined client; the run `gateway_reached` shows that it fails on a disturbed process. For the presence the counts are
compared with two sets: `Connections`, which `PresentWhileConnected` is about, from below, and the calls that may have counted
(`Tried`) from above. A disconnect takes the count back only if its own join has counted (`SocketsFine`),
and only users outside `strayed` have the two sides meet.

**Why `Proposals!IInv` is needed.** That an application is the first needs that its request
alone may write and that the key is gone (`ClaimHeld`); that a claim is alone needs
that what is in Redis was neither applied nor declined (`StagedOpen`); that a
chat or a staging is alone needs that its id is fresh (`FreshHeld`). In `Implements` a proposal counts
as open while Redis or a claim holds it, so a claim that fails is a drop.

**Why `Access!IInv` is needed.** `SingleUse` is not inductive: that a claim may mark its link
needs that the link is still unclaimed, which holds because nobody else can have locked the row since
(`ClaimHeld`). For `AuthorRemains` the removal and the update of a role must not hit the author, long after the
guard and the look-up: they are sent by the author at somebody else (`ActsAsAuthor`), and the
author stays the author because of the invariant itself, so the two need each other. A claim's
membership is new at its commit because of the unique key (`ClaimHeld` again). `UnderWay` ties the
requests at a deleted document to `overtaken`.

**Why `SessionsProofs!IInv` is needed.** The time to live is computed at one moment and used at a later
one; between the two the clock may only advance, so an entry ends no earlier than
`now + TicksPerSecond * ttl`, and the rounding of `NowInSeconds` errs to the
long side. The invariant keeps for each request in progress that its `ttl` reaches the token's deadline, and
for each spent token that its entry does; no entry is ever shortened below that.

**Why `AccountsProofs!IInv` is needed.** A reset acts on a token that it looked up in an earlier step. That the token was
alive when the request arrived needs what a request in progress has seen to be kept (`Fine`), and it can be
kept because nothing in the code undoes a consumption, a revocation, an expiry or an account (`Onward`).
`ActiveOnlyByOverlap` is inductive together with the finiteness of the active tokens (`Few`): a revocation empties the
one side of the scales before its request goes to the other, and a token is created by a request that leaves it.

**Only model-checked.** `EveryTransactionEnds`, `DeliveredDespiteCrash` and the
violated liveness properties: liveness under fairness is out of the prover's reach. Every safety
property of the passing runs, the action properties and refinements among them, is a theorem.

## 5. Findings

1. `snapshots/snapshot.processor.ts:61`: each document is compacted by at most one
   completed job (`snapshot_sweep`). The jobs would need `removeOnComplete` or ids of their own.
2. `outbox/outbox.processor.ts:97`: the retry is ignored (`outbox_retry`). It would need an
   id of its own, or to throw and leave the retry to BullMQ.
3. `collaboration/collaboration.gateway.ts:606`: a join during the last disconnect ends up
   without a subscription (`gateway_reached`). The mark would have to go before the awaits, and the
   room be looked up again after them.

The models also show limits of the code that no document promises to be otherwise. They are
excluded, by name, from the properties above.

- `yjs/yjs.service.ts:526`: the length of a node counts the tags of its marks, the operations of Yjs do not. Behind
  formatted text every edit of the AI lands too far to the right, or nowhere (`Text!Unformatted`).
- `yjs/yjs.service.ts:184`: `insertBlocks` moves the rest of a paragraph as rendered: its tags become
  text and its marks are lost. It takes one answer that formats and splits a paragraph (last part of `Text!Orderly`).
- `ai/ai.service.ts:763`: an answer of inserts only is applied in the order the model lists it, although all positions count
  in the original text: an earlier insert shifts a later one (fifth part of `Text!Orderly`).
- Two operations whose text was found in the same place are both applied there (`Text!Apart`). Two inserts
  without an anchor beyond the end go to the same place, the end, in the order of their positions reversed; so `Apart`
  compares where they go.
- `yjs/yjs.service.ts:246`: when an answer empties the last paragraph and inserts at its start, the paragraph is pruned before the insert,
  which therefore goes to the end of the paragraph before. Another operation that ends within the break between
  the two is applied after it, at places counted in the original text: a delete takes away what was just
  inserted, a second insert stands behind it (`Text!ApartAtBreaks`). It takes three operations.
- `yjs/yjs.service.ts:152`: a text that starts with a blank line has an empty first segment, which continues the paragraph it is
  inserted to. If what is in front of it in that paragraph is deleted by the same answer, the paragraph is pruned and with it
  the break (`Text!BreaksFirst`).
- `ai/ai.service.ts:226`: an exact match keeps the range as sent. When it ends past the text, `slice` stops at the end, and so does
  the deletion; but an operation that is applied before it and appends text brings that text within its reach: of `ab`,
  a deletion of 0 to 5 that quotes `ab`, with an insert at 7, leaves nothing. A range that starts in front of the
  text is compared from the end (`slice`) and applied from the start: it deletes other text than it quotes (second
  part of `Text!Orderly`).
- `yjs/yjs.service.ts:428`: an operation of the AI without effect, on a document from which nothing was ever deleted, cannot
  be classified. The transaction is rolled back, `chat` and `acceptProposal` answer 500, and an accepted proposal is gone.
- A paragraph that is deleted as a whole is pruned, and the insert that was to replace it joins
  a neighbour; a deletion across a break does not join the two paragraphs (`ParagraphsKept`).
- `ai/ai.service.ts:589`: `confirm` is not tied to the diff that the 409 has shown; after a further drift it
  applies the operations as staged all the same.
- `documents/documents.service.ts:136`: an update of the status that was past its guards when the document was deleted brings it back.
- `collaboration/collaboration.gateway.ts:429`: the role is read at the join. A member who is demoted or removed, and the
  members of a document that is deleted, go on editing over an open socket, although
  the documentation of `deleteMember` says that access is lost immediately.
- `collaboration/collaboration.gateway.ts:354`: a socket that closes while its join awaits the count leaves a count behind.
- `collaboration/collaboration.gateway.ts:308`: when the second subscription of a join fails, the callback of the first stays:
  nobody unsubscribes a document that is not in `subscribedChannels`, and a later join of the process registers
  another one, so that frames are relayed twice. The comment at line 264 means to exclude such a duplicate listener.
- `outbox/outbox.processor.ts:19` leaves BullMQ's `maxStalledCount` at 1: a job whose worker dies and whose second worker dies as well is failed, and
  as failed jobs keep their id, the restart's `addBulk` skips its row. It stays in the outbox, never published
  (`Outbox!GivenUp`).
- `outbox/outbox.processor.ts:60`: a row out of attempts is deleted unpublished. Clients that are connected get the update
  only when they load the document again.
- `auth/auth.service.ts:177`: the loser of two sign-ups of one address gets a 500 where a 409 is documented, since drizzle-orm
  wraps the error whose `code` is looked at; the unit test mocks an error without the wrapper. In the same way
  `isPgConstraintError` of the exception filter (`global-exception.filter.ts:46`) never sees the code of an error that
  comes through drizzle-orm. (That drizzle-orm wraps errors since 0.44 is known of the library; its source is not
  part of the repository.)
- A token or user id that is no uuid, and a title that is null or holds a zero character, is answered by a 500
  (`Access!RejectValue`), and so is a name with a zero character (`Accounts!RejectName`).
- A process of the gateway that dies with open sockets leaves their presence counts behind until the keys expire.
- Two overlapping refreshes of one token both succeed, and so do two overlapping resets with one token; a token
  that is revoked while a reset is under way still resets. Two overlapping requests for a reset leave
  two active tokens, and one that fails between its two statements leaves none.
- A code that is sent again while the address is being verified is stored on the verified account.
- `acceptProposal` does not document the 400 of its body (a `confirm` that is no boolean);
  `acceptProposal` and `declineProposal` do not document the 404 of `DocumentExistsGuard`, nor `verifyEmail` its 404;
  the `POST` endpoints of `auth` answer 201 where a 200 is documented (the models count any status 2xx as success).

## 6. What is left out, and why

- The content of documents, outside `Text`: a state is the set of updates it has seen; merging is Yjs itself. `Text` in turn
  leaves out documents of plain `Y.Text`, nested blocks, several text nodes in a paragraph, and
  the description of binary updates for the log.
- Redis pub/sub is taken to hand a frame to whoever is subscribed at that moment; a lost
  connection between a process and Redis (and its reconnection) is not modelled, nor the order
  of frames, which updates do not depend on.
- The relay of the author's own process: the frame of the outbox carries a zero header and
  is therefore relayed there too, although `docs/websocket.md` says otherwise. Receiving an update twice changes no
  `have`, so the model shows it as one relay.
- The death of a gateway process: what it has in memory goes with it and its sockets close, so that only the presence counts in
  Redis outlive it, as listed above. `Outbox` and `Snapshots` have the crashes of their workers and handlers.
- One socket joins one document once. A second join on a socket is listed as a hazard.
- Authentication of the connection precedes every handler (`await client.authReady`),
  so sockets start authenticated in `Gateway`; the handshake itself is in `Sessions`.
- The expiry of the presence keys, the rate limits of connections and messages, and the HTTP throttle: counters with a time to live,
  incremented in one atomic script.
- The call of the language model, its retries and the truncation of long texts: any answer is possible.
- Titles, names, listings, mail: nothing else depends on them. An invitation's mail is sent without waiting for it.
- Health, DTOs, configuration, migrations, seed: no state that takes several steps.

## 7. Plan

Everything with state that takes several steps is modelled, and every safety property of a passing run is
proved; the rest is about size.

1. **Gateway**: a second join on one socket, a lost connection between a process and Redis, and the counts that a dead
   process leaves.
2. **Text**: several text nodes in a paragraph.
