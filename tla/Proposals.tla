------------------------------ MODULE Proposals ------------------------------
(***************************************************************************)
(* Edits made by the AI service on one document: chat applies what the     *)
(* model suggests, propose stages it in Redis, and the author accepts or   *)
(* declines it later.  Requests of several processes run at the same time, *)
(* other users edit meanwhile, and a request gives way to all of them at   *)
(* every await.  The edit transaction is one step (module OperationLog),   *)
(* so is reading the document (module Snapshots).                          *)
(*                                                                         *)
(* Of a text only this is kept: how it compares now, at the place of each  *)
(* operation of a proposal, with the text that operation expects.  An      *)
(* operation whose text is found elsewhere is moved there and counts as    *)
(* exact.                                                                  *)
(***************************************************************************)
EXTENDS Naturals

CONSTANTS
  Proposals,  \* ids of proposals; a chat uses one for its edit as well
  Requests,   \* concurrent chat, propose and accept requests
  Ops,        \* operations the model answers with; with none a request ends
  Inserts,    \* those of them that insert at an anchor
  MaxEdits    \* bound of the model: edits by others

ASSUME OpsAssumption == Ops # {}
ASSUME InsertsAssumption == Inserts \subseteq Ops
ASSUME MaxEditsAssumption == MaxEdits \in Nat

VARIABLES
  staged,    \* proposals whose key proposal:<id> is in Redis
  used,      \* ids handed out
  match,     \* match[q][o]: the text at operation o of q, against its expected_text
  request,   \* request[r]: progress of request r
  applied,   \* applied[q]: transactions that wrote operations of q
  shown,     \* shown[q]: comparisons whose diff q's author was shown
  declined,  \* proposals that a decline found in Redis
  edits      \* edits by others so far

vars == <<staged, used, match, request, applied, shown, declined, edits>>

(* An anchor is found or not; only an expected_text can be similar.         *)
Comparisons ==
  {m \in [Ops -> {"exact", "similar", "gone"}] : \A o \in Inserts : m[o] # "similar"}

AllExact == [o \in Ops |-> "exact"]
Drifted(m) == \E o \in Ops : m[o] = "similar"
Found(m) == {o \in Ops : m[o] = "exact"}

Idle(q) == [at |-> "idle", proposal |-> q, confirm |-> FALSE, seen |-> AllExact, ops |-> {}]

Init ==
  /\ staged = {}
  /\ used = {}
  /\ match = [q \in Proposals |-> AllExact]
  /\ \E q \in Proposals : request = [r \in Requests |-> Idle(q)]
  /\ applied = [q \in Proposals |-> 0]
  /\ shown = [q \in Proposals |-> {}]
  /\ declined = {}
  /\ edits = 0

End(r) == request' = [request EXCEPT ![r] = Idle(request[r].proposal)]

(* The text of the document changes: every known operation may compare      *)
(* differently with it from now on.                                         *)
TextChanges == \E m \in [used -> Comparisons] :
                 match' = [q \in Proposals |-> IF q \in used THEN m[q] ELSE match[q]]

-----------------------------------------------------------------------------

(* Another user's edit commits.                                             *)
Edit ==
  /\ edits < MaxEdits
  /\ edits' = edits + 1
  /\ TextChanges
  /\ UNCHANGED <<staged, used, request, applied, shown, declined>>

(* Fault to be caught: the id is not marked as handed out.                  *)
GenerateReused(r, q, kind) ==
  /\ request[r].at = "idle"
  /\ q \notin used
  /\ request' = [request EXCEPT ![r] = [Idle(q) EXCEPT !.at = kind]]
  /\ UNCHANGED <<staged, used, match, applied, shown, declined, edits>>

(* chat and propose read the document and ask the model, whose answer may   *)
(* or may not fit the text it was given.                                    *)
Generate(r, q, kind) ==
  /\ request[r].at = "idle"
  /\ q \notin used
  /\ used' = used \cup {q}
  /\ \E m \in Comparisons :
       /\ match' = [match EXCEPT ![q] = m]
       /\ request' = [request EXCEPT ![r] =
                        [Idle(q) EXCEPT !.at = kind, !.seen = m]]
  /\ UNCHANGED <<staged, applied, shown, declined, edits>>

(* A chat applies the operations that were found, unless one is similar;    *)
(* the scope check has passed, or could not be made.                        *)
Chat(r) ==
  /\ request[r].at = "chat"
  /\ ~Drifted(request[r].seen)
  /\ Found(request[r].seen) # {}
  /\ request' = [request EXCEPT ![r].at = "apply", ![r].ops = Found(request[r].seen)]
  /\ UNCHANGED <<staged, used, match, applied, shown, declined, edits>>

(* Only a proposal all of whose operations were found is staged; its diff   *)
(* is the answer.                                                           *)
StageProposal(r) ==
  LET q == request[r].proposal IN
  /\ request[r].at = "propose"
  /\ request[r].seen = AllExact
  /\ staged' = staged \cup {q}
  /\ shown' = [shown EXCEPT ![q] = {AllExact}]
  /\ End(r)
  /\ UNCHANGED <<used, match, applied, declined, edits>>

-----------------------------------------------------------------------------

(* An accept finds the proposal, which stays where it is.  One that is not  *)
(* there, or belongs to another document or author, is answered as gone.    *)
PeekProposal(r, q, confirm) ==
  /\ request[r].at = "idle"
  /\ q \in staged
  /\ request' = [request EXCEPT ![r] =
                   [Idle(q) EXCEPT !.at = "check", !.confirm = confirm]]
  /\ UNCHANGED <<staged, used, match, applied, shown, declined, edits>>

(* Check 2 against the live text: after a drift the author is shown the new *)
(* diff and has to confirm.                                                 *)
Reconfirm(r) ==
  LET q == request[r].proposal IN
  /\ request[r].at = "check"
  /\ Drifted(match[q])
  /\ ~request[r].confirm
  /\ shown' = [shown EXCEPT ![q] = @ \cup {match[q]}]
  /\ End(r)
  /\ UNCHANGED <<staged, used, match, applied, declined, edits>>

(* Otherwise the operations found are to be applied; after a confirmed      *)
(* drift, all of them as they were staged.                                  *)
CheckContent(r) ==
  LET m == match[request[r].proposal] IN
  /\ request[r].at = "check"
  /\ ~Drifted(m) \/ request[r].confirm
  /\ request' = [request EXCEPT
       ![r].at = "consume",
       ![r].seen = m,
       ![r].ops = IF Drifted(m) THEN Ops ELSE Found(m)]
  /\ UNCHANGED <<staged, used, match, applied, shown, declined, edits>>

(* Fault to be caught: the operations are applied whoever took the key.     *)
ConsumeUnchecked(r) ==
  /\ request[r].at = "consume"
  /\ staged' = staged \ {request[r].proposal}
  /\ request' = [request EXCEPT ![r].at = "apply"]
  /\ UNCHANGED <<used, match, applied, shown, declined, edits>>

(* GETDEL: only the accept that gets the value goes on to apply it.         *)
ConsumeProposal(r) ==
  /\ request[r].at = "consume"
  /\ staged' = staged \ {request[r].proposal}
  /\ IF request[r].proposal \in staged /\ request[r].ops # {}
       THEN request' = [request EXCEPT ![r].at = "apply"]
       ELSE End(r)
  /\ UNCHANGED <<used, match, applied, shown, declined, edits>>

(* The transaction of applyOps commits.                                     *)
ApplyOps(r) ==
  /\ request[r].at = "apply"
  /\ applied' = [applied EXCEPT ![request[r].proposal] = @ + 1]
  /\ TextChanges
  /\ End(r)
  /\ UNCHANGED <<staged, used, shown, declined, edits>>

(* The request ends without (further) effect: the model's answer has no     *)
(* valid format, does not fit the text or exceeds the scope; a call fails;  *)
(* the process dies.  A proposal that was claimed is lost.                  *)
Abandon(r) ==
  /\ request[r].at # "idle"
  /\ End(r)
  /\ UNCHANGED <<staged, used, match, applied, shown, declined, edits>>

-----------------------------------------------------------------------------

(* Fault to be caught: the decline is answered before the key is deleted.   *)
DeclineUndeleted(q) ==
  /\ declined' = IF q \in staged THEN declined \cup {q} ELSE declined
  /\ UNCHANGED <<staged, used, match, request, applied, shown, edits>>

(* A decline deletes the key, if it is there.                               *)
DeclineProposal(q) ==
  /\ staged' = staged \ {q}
  /\ declined' = IF q \in staged THEN declined \cup {q} ELSE declined
  /\ UNCHANGED <<used, match, request, applied, shown, edits>>

(* The key's time to live ends; a peek may have put that off.               *)
ExpireProposal(q) ==
  /\ q \in staged
  /\ staged' = staged \ {q}
  /\ UNCHANGED <<used, match, request, applied, shown, declined, edits>>

-----------------------------------------------------------------------------

Next ==
  \/ Edit
  \/ \E r \in Requests :
       \/ \E q \in Proposals, kind \in {"chat", "propose"} : Generate(r, q, kind)
       \/ Chat(r) \/ StageProposal(r)
       \/ \E q \in Proposals, confirm \in BOOLEAN : PeekProposal(r, q, confirm)
       \/ Reconfirm(r) \/ CheckContent(r) \/ ConsumeProposal(r)
       \/ ApplyOps(r) \/ Abandon(r)
  \/ \E q \in Proposals : DeclineProposal(q) \/ ExpireProposal(q)

Spec == Init /\ [][Next]_vars

-----------------------------------------------------------------------------

Request == [at : {"idle", "chat", "propose", "check", "consume", "apply"},
            proposal : Proposals, confirm : BOOLEAN, seen : Comparisons, ops : SUBSET Ops]

TypeOK ==
  /\ staged \subseteq used
  /\ used \subseteq Proposals
  /\ match \in [Proposals -> Comparisons]
  /\ request \in [Requests -> Request]
  /\ applied \in [Proposals -> Nat]
  /\ shown \in [Proposals -> SUBSET Comparisons]
  /\ declined \subseteq used
  /\ edits \in Nat

(* redis.service.ts: "two racing accepts can never double-apply the staged  *)
(* operations", whatever declines, expiries and failures come between.      *)
AppliedOnce == \A q \in Proposals : applied[q] <= 1

(* A proposal that a decline found is not applied, not even by an accept    *)
(* that had read it, and checked it, before the decline.                    *)
DeclinedStaysOut ==
  \A q \in declined :
    applied[q] = 0 /\ \A r \in Requests : request[r].at = "apply" => request[r].proposal # q

(* A request that may write the operations of its proposal is the only one, *)
(* and finds them unwritten and the key gone.                               *)
ClaimHeld ==
  \A r \in Requests : request[r].at = "apply" =>
    /\ request[r].proposal \notin staged
    /\ applied[request[r].proposal] = 0
    /\ \A s \in Requests : s # r /\ request[s].at = "apply" =>
         request[s].proposal # request[r].proposal

(* An id under way to its proposal or chat is nobody else's.                *)
Generating(r) == request[r].at \in {"chat", "propose"}
FreshHeld ==
  \A r \in Requests : Generating(r) =>
    /\ request[r].proposal \in used \ staged
    /\ applied[request[r].proposal] = 0
    /\ shown[request[r].proposal] = {}
    /\ \A s \in Requests : s # r /\ request[s].at # "idle" =>
         request[s].proposal # request[r].proposal

(* What Redis holds and what an accept works on was shown; what is staged   *)
(* is neither applied nor declined.                                         *)
StagedOpen ==
  /\ \A q \in staged : applied[q] = 0 /\ shown[q] # {} /\ q \notin declined
  /\ \A q \in declined : shown[q] # {}
  /\ \A q \in Proposals \ used : applied[q] = 0 /\ shown[q] = {}
  /\ \A r \in Requests :
       /\ request[r].at # "idle" => request[r].proposal \in used
       /\ request[r].at \in {"check", "consume"} => shown[request[r].proposal] # {}

(* The conjunction that is preserved by every step.                         *)
IInv ==
  /\ TypeOK
  /\ AppliedOnce
  /\ DeclinedStaysOut
  /\ ClaimHeld
  /\ FreshHeld
  /\ StagedOpen

Held(q) == \E r \in Requests : request[r].at = "apply" /\ request[r].proposal = q

(* A proposal that was shown is open while Redis or an accept holds it.     *)
Status(q) ==
  IF applied[q] > 0 THEN "applied"
  ELSE IF shown[q] = {} THEN "none"
  ELSE IF q \in staged \/ Held(q) THEN "open"
  ELSE "dropped"

Life == INSTANCE ProposalLife WITH status <- [q \in Proposals |-> Status(q)]

(* Through all interleavings of requests, a proposal is opened once and     *)
(* ends once.                                                               *)
ImplementsProposalLife == Life!Spec

=============================================================================
