--------------------------- MODULE ProposalsProofs ---------------------------
(***************************************************************************)
(* Proofs about Proposals, for any proposals, requests and operations.     *)
(* What makes a proposal end once is that its key in Redis is deleted by   *)
(* the step that claims it, and never set again.                           *)
(***************************************************************************)
EXTENDS Proposals, TLAPS

LEMMA ExactIsComparison == AllExact \in Comparisons
  BY InsertsAssumption DEF AllExact, Comparisons

LEMMA IdleIsRequest ==
  ASSUME NEW q \in Proposals
  PROVE  Idle(q) \in Request
  BY ExactIsComparison DEF Idle, Request

(* A step of request r replaces its record and no other one.                *)
LEMMA RequestStep ==
  ASSUME request \in [Requests -> Request], NEW r \in Requests, NEW v \in Request,
         request' = [request EXCEPT ![r] = v]
  PROVE  /\ request' \in [Requests -> Request]
         /\ request'[r] = v
         /\ \A s \in Requests \ {r} : request'[s] = request[s]
  OBVIOUS

(* A changed text still compares in one of the possible ways.               *)
LEMMA TextType ==
  ASSUME TypeOK, TextChanges
  PROVE  match' \in [Proposals -> Comparisons]
  BY DEF TypeOK, TextChanges

(* What each step of request r leaves in its record.                        *)
LEMMA EndStep ==
  ASSUME TypeOK, NEW r \in Requests, End(r)
  PROVE  /\ request' \in [Requests -> Request]
         /\ request'[r].at = "idle"
         /\ \A s \in Requests \ {r} : request'[s] = request[s]
<1>1. request[r].proposal \in Proposals
  BY DEF TypeOK, Request
<1>2. Idle(request[r].proposal) \in Request
  BY <1>1, IdleIsRequest
<1>3. Idle(request[r].proposal).at = "idle"
  BY DEF Idle
<1> QED BY <1>2, <1>3, RequestStep DEF End, TypeOK

LEMMA GenerateStep ==
  ASSUME TypeOK, NEW r \in Requests, NEW q \in Proposals, NEW kind \in {"chat", "propose"},
         Generate(r, q, kind)
  PROVE  /\ request' \in [Requests -> Request]
         /\ request'[r].at = kind /\ request'[r].proposal = q
         /\ match' \in [Proposals -> Comparisons]
         /\ \A s \in Requests \ {r} : request'[s] = request[s]
<1>1. PICK m \in Comparisons :
        /\ match' = [match EXCEPT ![q] = m]
        /\ request' = [request EXCEPT ![r] = [Idle(q) EXCEPT !.at = kind, !.seen = m]]
  BY DEF Generate
<1> DEFINE v == [Idle(q) EXCEPT !.at = kind, !.seen = m]
<1>2. v \in Request /\ v.at = kind /\ v.proposal = q
  BY DEF Idle, Request
<1>3. match' \in [Proposals -> Comparisons]
  BY <1>1 DEF TypeOK
<1> HIDE DEF v
<1>4. request' = [request EXCEPT ![r] = v]
  BY <1>1 DEF v
<1> QED BY <1>2, <1>3, <1>4, RequestStep DEF TypeOK

LEMMA ChatStep ==
  ASSUME TypeOK, NEW r \in Requests, Chat(r)
  PROVE  /\ request' \in [Requests -> Request]
         /\ request'[r].at = "apply" /\ request'[r].proposal = request[r].proposal
         /\ \A s \in Requests \ {r} : request'[s] = request[s]
<1> DEFINE v == [request[r] EXCEPT !.at = "apply", !.ops = Found(request[r].seen)]
<1>1. v \in Request /\ v.at = "apply" /\ v.proposal = request[r].proposal
  BY DEF TypeOK, Request, Found
<1>2. request' = [request EXCEPT ![r] = v]
  BY DEF Chat, TypeOK
<1> HIDE DEF v
<1> QED BY <1>1, <1>2, RequestStep DEF TypeOK

LEMMA PeekStep ==
  ASSUME TypeOK, NEW r \in Requests, NEW q \in Proposals, NEW confirm \in BOOLEAN,
         PeekProposal(r, q, confirm)
  PROVE  /\ request' \in [Requests -> Request]
         /\ request'[r].at = "check" /\ request'[r].proposal = q
         /\ \A s \in Requests \ {r} : request'[s] = request[s]
<1> DEFINE v == [Idle(q) EXCEPT !.at = "check", !.confirm = confirm]
<1>1. v \in Request /\ v.at = "check" /\ v.proposal = q
  BY ExactIsComparison DEF Request, Idle
<1>2. request' = [request EXCEPT ![r] = v]
  BY DEF PeekProposal
<1> HIDE DEF v
<1> QED BY <1>1, <1>2, RequestStep DEF TypeOK

LEMMA CheckStep ==
  ASSUME TypeOK, NEW r \in Requests, CheckContent(r)
  PROVE  /\ request' \in [Requests -> Request]
         /\ request'[r].at = "consume" /\ request'[r].proposal = request[r].proposal
         /\ \A s \in Requests \ {r} : request'[s] = request[s]
<1> DEFINE m == match[request[r].proposal]
           ops == IF Drifted(m) THEN Ops ELSE Found(m)
           v == [request[r] EXCEPT !.at = "consume", !.seen = m, !.ops = ops]
<1>1. m \in Comparisons
  BY DEF TypeOK, Request
<1>2. ops \in SUBSET Ops
  BY DEF Found
<1>3. request' = [request EXCEPT ![r] = v]
  BY DEF CheckContent, TypeOK
<1> HIDE DEF m, ops
<1>4. v \in Request /\ v.at = "consume" /\ v.proposal = request[r].proposal
  BY <1>1, <1>2 DEF TypeOK, Request
<1> HIDE DEF v
<1> QED BY <1>3, <1>4, RequestStep DEF TypeOK

(* The accept that gets the key goes on, every other one ends.              *)
LEMMA ConsumeStep ==
  ASSUME TypeOK, NEW r \in Requests, ConsumeProposal(r)
  PROVE  /\ request' \in [Requests -> Request]
         /\ \/ request'[r].at = "idle"
            \/ /\ request[r].proposal \in staged
               /\ request'[r].at = "apply" /\ request'[r].proposal = request[r].proposal
         /\ \A s \in Requests \ {r} : request'[s] = request[s]
<1>1. CASE End(r)
  BY <1>1, EndStep
<1>2. CASE request[r].proposal \in staged /\ request' = [request EXCEPT ![r].at = "apply"]
  <2> DEFINE v == [request[r] EXCEPT !.at = "apply"]
  <2>1. v \in Request /\ v.at = "apply" /\ v.proposal = request[r].proposal
    BY DEF TypeOK, Request
  <2>2. request' = [request EXCEPT ![r] = v]
    BY <1>2 DEF TypeOK
  <2> HIDE DEF v
  <2> QED BY <1>2, <2>1, <2>2, RequestStep DEF TypeOK
<1> QED BY <1>1, <1>2 DEF ConsumeProposal

-----------------------------------------------------------------------------

LEMMA InitIInv == Init => IInv
<1> SUFFICES ASSUME Init PROVE IInv
  OBVIOUS
<1>1. PICK q \in Proposals : request = [r \in Requests |-> Idle(q)]
  BY DEF Init
<1>2. request \in [Requests -> Request] /\ \A r \in Requests : request[r].at = "idle"
  BY <1>1, IdleIsRequest DEF Idle
<1>3. TypeOK
  BY <1>2, ExactIsComparison DEF Init, TypeOK
<1> QED BY <1>2, <1>3 DEF Init, IInv, AppliedOnce, DeclinedStaysOut, ClaimHeld,
    FreshHeld, Generating, StagedOpen

(* The conjuncts of IInv other than the types.                              *)
Claims == AppliedOnce /\ DeclinedStaysOut /\ ClaimHeld /\ FreshHeld /\ StagedOpen

LEMMA EditKeeps == ASSUME IInv, Edit PROVE IInv'
<1>1. TypeOK'
  BY TextType DEF IInv, Edit, TypeOK
<1>2. Claims'
  BY DEF IInv, Edit, Claims, AppliedOnce, DeclinedStaysOut, ClaimHeld, FreshHeld,
         Generating, StagedOpen
<1> QED BY <1>1, <1>2 DEF IInv, Claims

LEMMA GenerateKeeps ==
  ASSUME IInv, NEW r \in Requests, NEW q \in Proposals, NEW kind \in {"chat", "propose"},
         Generate(r, q, kind)
  PROVE  IInv'
<1> USE DEF IInv
<1>1. /\ request[r].at = "idle" /\ q \notin used /\ used' = used \cup {q}
      /\ UNCHANGED <<staged, applied, shown, declined, edits>>
  BY DEF Generate
<1>2. TypeOK'
  BY <1>1, GenerateStep DEF TypeOK
<1>3. \A s \in Requests : request[s].at # "idle" => request[s].proposal # q
  BY <1>1 DEF StagedOpen
<1>4. applied[q] = 0 /\ shown[q] = {} /\ q \notin staged /\ q \notin declined
  BY <1>1 DEF StagedOpen, TypeOK
<1>5. /\ request'[r].at = kind /\ request'[r].proposal = q
      /\ \A s \in Requests \ {r} : request'[s] = request[s]
  BY GenerateStep
<1>6. AppliedOnce' /\ DeclinedStaysOut' /\ ClaimHeld'
  BY <1>1, <1>3, <1>5 DEF AppliedOnce, DeclinedStaysOut, ClaimHeld
<1>7. FreshHeld'
  BY <1>1, <1>3, <1>4, <1>5 DEF FreshHeld, Generating
<1>8. StagedOpen'
  BY <1>1, <1>4, <1>5 DEF StagedOpen
<1> QED BY <1>2, <1>6, <1>7, <1>8

(* A chat goes on to write the operations of an id nobody else knows.       *)
LEMMA ChatKeeps ==
  ASSUME IInv, NEW r \in Requests, Chat(r)
  PROVE  IInv'
<1> USE DEF IInv
<1>1. /\ request[r].at = "chat"
      /\ UNCHANGED <<staged, used, match, applied, shown, declined, edits>>
  BY DEF Chat
<1>2. TypeOK'
  BY <1>1, ChatStep DEF TypeOK
<1> DEFINE q == request[r].proposal
<1>3. /\ q \in used \ staged /\ applied[q] = 0 /\ shown[q] = {}
      /\ \A s \in Requests : s # r /\ request[s].at # "idle" => request[s].proposal # q
  BY <1>1 DEF FreshHeld, Generating
<1>4. q \notin declined
  BY <1>3 DEF StagedOpen
<1>5. /\ request'[r].at = "apply" /\ request'[r].proposal = q
      /\ \A s \in Requests \ {r} : request'[s] = request[s]
  BY ChatStep
<1> HIDE DEF q
<1>6. AppliedOnce' /\ DeclinedStaysOut'
  BY <1>1, <1>4, <1>5 DEF AppliedOnce, DeclinedStaysOut
<1>7. ClaimHeld'
  BY <1>1, <1>3, <1>5 DEF ClaimHeld
<1>8. FreshHeld'
  BY <1>1, <1>3, <1>5 DEF FreshHeld, Generating
<1>9. StagedOpen'
  BY <1>1, <1>3, <1>5 DEF StagedOpen
<1> QED BY <1>2, <1>6, <1>7, <1>8, <1>9

LEMMA StageKeeps ==
  ASSUME IInv, NEW r \in Requests, StageProposal(r)
  PROVE  IInv'
<1> USE DEF IInv
<1> DEFINE q == request[r].proposal
<1>1. /\ request[r].at = "propose" /\ End(r)
      /\ staged' = staged \cup {q} /\ shown' = [shown EXCEPT ![q] = {AllExact}]
      /\ UNCHANGED <<used, match, applied, declined, edits>>
  BY DEF StageProposal
<1>2. /\ q \in used \ staged /\ applied[q] = 0 /\ shown[q] = {} /\ q \in Proposals
      /\ \A s \in Requests : s # r /\ request[s].at # "idle" => request[s].proposal # q
  BY <1>1 DEF FreshHeld, Generating, TypeOK, Request
<1>3. q \notin declined
  BY <1>2 DEF StagedOpen
<1>4. request' \in [Requests -> Request] /\ request'[r].at = "idle"
      /\ \A s \in Requests \ {r} : request'[s] = request[s]
  BY <1>1, EndStep
<1> HIDE DEF q
<1>5. shown'[q] # {} /\ \A p \in Proposals \ {q} : shown'[p] = shown[p]
  BY <1>1, <1>2 DEF TypeOK
<1>6. TypeOK'
  BY <1>1, <1>2, <1>4, ExactIsComparison DEF TypeOK
<1>7. AppliedOnce' /\ DeclinedStaysOut'
  BY <1>1, <1>4 DEF AppliedOnce, DeclinedStaysOut
<1>8. ClaimHeld'
  BY <1>1, <1>2, <1>4 DEF ClaimHeld
<1>9. FreshHeld'
  BY <1>1, <1>2, <1>4, <1>5 DEF FreshHeld, Generating, TypeOK
<1>10. StagedOpen'
  <2>1. \A p \in staged' : applied'[p] = 0 /\ shown'[p] # {} /\ p \notin declined'
    BY <1>1, <1>2, <1>3, <1>5 DEF StagedOpen, TypeOK
  <2>2. \A p \in declined' : shown'[p] # {}
    BY <1>1, <1>5 DEF StagedOpen, TypeOK
  <2>3. \A p \in Proposals \ used' : applied'[p] = 0 /\ shown'[p] = {}
    BY <1>1, <1>2, <1>5 DEF StagedOpen
  <2>4. \A s \in Requests :
          /\ request'[s].at # "idle" => request'[s].proposal \in used'
          /\ request'[s].at \in {"check", "consume"} => shown'[request'[s].proposal] # {}
    BY <1>1, <1>2, <1>4 DEF StagedOpen
  <2> QED BY <2>1, <2>2, <2>3, <2>4 DEF StagedOpen
<1> QED BY <1>6, <1>7, <1>8, <1>9, <1>10

LEMMA PeekKeeps ==
  ASSUME IInv, NEW r \in Requests, NEW q \in Proposals, NEW confirm \in BOOLEAN,
         PeekProposal(r, q, confirm)
  PROVE  IInv'
<1> USE DEF IInv
<1>1. /\ q \in staged
      /\ UNCHANGED <<staged, used, match, applied, shown, declined, edits>>
  BY DEF PeekProposal
<1>2. /\ request'[r].at = "check" /\ request'[r].proposal = q
      /\ \A s \in Requests \ {r} : request'[s] = request[s]
  BY PeekStep
<1>3. TypeOK'
  BY <1>1, PeekStep DEF TypeOK
<1>4. AppliedOnce' /\ DeclinedStaysOut' /\ ClaimHeld'
  BY <1>1, <1>2 DEF AppliedOnce, DeclinedStaysOut, ClaimHeld
<1>5. FreshHeld'
  BY <1>1, <1>2 DEF FreshHeld, Generating
<1>6. StagedOpen'
  BY <1>1, <1>2 DEF StagedOpen, TypeOK
<1> QED BY <1>3, <1>4, <1>5, <1>6

LEMMA ReconfirmKeeps ==
  ASSUME IInv, NEW r \in Requests, Reconfirm(r)
  PROVE  IInv'
<1> USE DEF IInv
<1> DEFINE q == request[r].proposal
<1>1. /\ request[r].at = "check" /\ End(r)
      /\ shown' = [shown EXCEPT ![q] = @ \cup {match[q]}]
      /\ UNCHANGED <<staged, used, match, applied, declined, edits>>
  BY DEF Reconfirm
<1>2. q \in used /\ q \in Proposals /\ shown[q] # {}
  BY <1>1 DEF StagedOpen, TypeOK, Request
<1>3. /\ request' \in [Requests -> Request] /\ request'[r].at = "idle"
      /\ \A s \in Requests \ {r} : request'[s] = request[s]
  BY <1>1, EndStep
<1> HIDE DEF q
<1>4. shown'[q] # {} /\ \A p \in Proposals \ {q} : shown'[p] = shown[p]
  BY <1>1, <1>2 DEF TypeOK
<1>5. TypeOK'
  BY <1>1, <1>2, <1>3 DEF TypeOK
<1>6. AppliedOnce' /\ DeclinedStaysOut' /\ ClaimHeld'
  BY <1>1, <1>3 DEF AppliedOnce, DeclinedStaysOut, ClaimHeld
<1>7. FreshHeld'
  BY <1>1, <1>2, <1>3, <1>4 DEF FreshHeld, Generating, TypeOK
<1>8. StagedOpen'
  BY <1>1, <1>2, <1>3, <1>4 DEF StagedOpen, TypeOK, Request
<1> QED BY <1>5, <1>6, <1>7, <1>8

LEMMA CheckKeeps ==
  ASSUME IInv, NEW r \in Requests, CheckContent(r)
  PROVE  IInv'
<1> USE DEF IInv
<1>1. /\ request[r].at = "check"
      /\ UNCHANGED <<staged, used, match, applied, shown, declined, edits>>
  BY DEF CheckContent
<1>2. /\ request'[r].at = "consume" /\ request'[r].proposal = request[r].proposal
      /\ \A s \in Requests \ {r} : request'[s] = request[s]
  BY CheckStep
<1>3. TypeOK'
  BY <1>1, CheckStep DEF TypeOK
<1>4. AppliedOnce' /\ DeclinedStaysOut' /\ ClaimHeld'
  BY <1>1, <1>2 DEF AppliedOnce, DeclinedStaysOut, ClaimHeld
<1>5. FreshHeld'
  BY <1>1, <1>2 DEF FreshHeld, Generating
<1>6. StagedOpen'
  BY <1>1, <1>2 DEF StagedOpen
<1> QED BY <1>3, <1>4, <1>5, <1>6

LEMMA ConsumeKeeps ==
  ASSUME IInv, NEW r \in Requests, ConsumeProposal(r)
  PROVE  IInv'
<1> USE DEF IInv
<1> DEFINE q == request[r].proposal
<1>1. /\ request[r].at = "consume" /\ staged' = staged \ {q}
      /\ UNCHANGED <<used, match, applied, shown, declined, edits>>
  BY DEF ConsumeProposal
<1>2. /\ \/ request'[r].at = "idle"
         \/ q \in staged /\ request'[r].at = "apply" /\ request'[r].proposal = q
      /\ \A s \in Requests \ {r} : request'[s] = request[s]
  BY ConsumeStep
<1>3. q \in staged => applied[q] = 0 /\ q \notin declined /\ q \in used
  BY DEF StagedOpen, TypeOK
<1>4. \A s \in Requests : request[s].at = "apply" => request[s].proposal \notin staged
  BY DEF ClaimHeld
<1>5. \A s \in Requests : Generating(s) => request[s].proposal # q
  BY <1>1 DEF StagedOpen, FreshHeld
<1>6. TypeOK'
  BY <1>1, ConsumeStep DEF TypeOK
<1> HIDE DEF q
<1>7. AppliedOnce' /\ DeclinedStaysOut'
  BY <1>1, <1>2, <1>3 DEF AppliedOnce, DeclinedStaysOut
<1>8. ClaimHeld'
  BY <1>1, <1>2, <1>3, <1>4 DEF ClaimHeld
<1>9. FreshHeld'
  BY <1>1, <1>2, <1>5 DEF FreshHeld, Generating
<1>10. StagedOpen'
  BY <1>1, <1>2, <1>3 DEF StagedOpen
<1> QED BY <1>6, <1>7, <1>8, <1>9, <1>10

LEMMA ApplyKeeps ==
  ASSUME IInv, NEW r \in Requests, ApplyOps(r)
  PROVE  IInv'
<1> USE DEF IInv
<1> DEFINE q == request[r].proposal
<1>1. /\ request[r].at = "apply" /\ End(r) /\ TextChanges
      /\ applied' = [applied EXCEPT ![q] = @ + 1]
      /\ UNCHANGED <<staged, used, shown, declined, edits>>
  BY DEF ApplyOps
<1>2. /\ q \in Proposals /\ q \in used /\ q \notin staged /\ applied[q] = 0
      /\ q \notin declined
      /\ \A s \in Requests : s # r /\ request[s].at = "apply" => request[s].proposal # q
  BY <1>1 DEF ClaimHeld, DeclinedStaysOut, StagedOpen, TypeOK, Request
<1>3. \A s \in Requests : s # r /\ Generating(s) => request[s].proposal # q
  BY <1>1 DEF FreshHeld
<1>4. /\ request' \in [Requests -> Request] /\ request'[r].at = "idle"
      /\ \A s \in Requests \ {r} : request'[s] = request[s]
  BY <1>1, EndStep
<1>5. match' \in [Proposals -> Comparisons]
  BY <1>1, TextType
<1> HIDE DEF q
<1>6. applied'[q] = 1 /\ \A p \in Proposals \ {q} : applied'[p] = applied[p]
  BY <1>1, <1>2 DEF TypeOK
<1>7. TypeOK'
  <2>1. applied' \in [Proposals -> Nat]
    BY <1>1, <1>2 DEF TypeOK
  <2> QED BY <1>1, <1>4, <1>5, <2>1 DEF TypeOK
<1>8. AppliedOnce' /\ DeclinedStaysOut'
  BY <1>1, <1>2, <1>4, <1>6 DEF AppliedOnce, DeclinedStaysOut, TypeOK
<1>9. ClaimHeld'
  BY <1>1, <1>2, <1>4, <1>6 DEF ClaimHeld, TypeOK, Request
<1>10. FreshHeld'
  BY <1>1, <1>3, <1>4, <1>6 DEF FreshHeld, Generating, TypeOK, Request
<1>11. StagedOpen'
  BY <1>1, <1>2, <1>4, <1>6 DEF StagedOpen, TypeOK
<1> QED BY <1>7, <1>8, <1>9, <1>10, <1>11

LEMMA AbandonKeeps ==
  ASSUME IInv, NEW r \in Requests, Abandon(r)
  PROVE  IInv'
<1> USE DEF IInv
<1>1. End(r) /\ UNCHANGED <<staged, used, match, applied, shown, declined, edits>>
  BY DEF Abandon
<1>2. /\ request' \in [Requests -> Request] /\ request'[r].at = "idle"
      /\ \A s \in Requests \ {r} : request'[s] = request[s]
  BY <1>1, EndStep
<1>3. TypeOK'
  BY <1>1, <1>2 DEF TypeOK
<1>4. Claims'
  BY <1>1, <1>2 DEF Claims, AppliedOnce, DeclinedStaysOut, ClaimHeld, FreshHeld,
     Generating, StagedOpen
<1> QED BY <1>3, <1>4 DEF Claims

(* A key that is deleted without a claim, by a decline or by time.          *)
LEMMA DeleteKeeps ==
  ASSUME IInv, NEW q \in Proposals, DeclineProposal(q) \/ ExpireProposal(q)
  PROVE  IInv'
<1> USE DEF IInv
<1>1. /\ staged' = staged \ {q}
      /\ declined' = declined \/ (q \in staged /\ declined' = declined \cup {q})
      /\ UNCHANGED <<used, match, request, applied, shown, edits>>
  BY DEF DeclineProposal, ExpireProposal
<1>2. q \in staged => /\ applied[q] = 0 /\ shown[q] # {}
                      /\ \A r \in Requests : request[r].at = "apply" =>
                           request[r].proposal # q
  BY DEF StagedOpen, ClaimHeld
<1>3. TypeOK'
  BY <1>1 DEF TypeOK
<1>4. Claims'
  BY <1>1, <1>2 DEF Claims, AppliedOnce, DeclinedStaysOut, ClaimHeld, FreshHeld,
     Generating, StagedOpen
<1> QED BY <1>3, <1>4 DEF Claims

LEMMA StutterKeeps == ASSUME IInv, UNCHANGED vars PROVE IInv'
  BY DEF IInv, vars, TypeOK, AppliedOnce, DeclinedStaysOut, ClaimHeld, FreshHeld,
     Generating, StagedOpen

LEMMA NextIInv == IInv /\ [Next]_vars => IInv'
  BY EditKeeps, GenerateKeeps, ChatKeeps, StageKeeps, PeekKeeps, ReconfirmKeeps,
     CheckKeeps, ConsumeKeeps, ApplyKeeps, AbandonKeeps, DeleteKeeps, StutterKeeps
     DEF Next

-----------------------------------------------------------------------------

(* A step that disturbs none of these leaves the status of q.               *)
LEMMA SameStatus ==
  ASSUME NEW q, applied'[q] = applied[q],
         shown'[q] = {} <=> shown[q] = {},
         q \in staged' \/ Held(q)' <=> q \in staged \/ Held(q)
  PROVE  Status(q)' = Status(q)
  BY DEF Status

(* Records of requests decide who holds what.                               *)
LEMMA HeldSame ==
  ASSUME NEW r \in Requests, NEW q, request[r].at # "apply", request'[r].at # "apply",
         \A s \in Requests \ {r} : request'[s] = request[s]
  PROVE  Held(q)' <=> Held(q)
  BY DEF Held

(* Stutter of the abstract specification.                                   *)
LEMMA StatusStutter ==
  ASSUME \A q \in Proposals : Status(q)' = Status(q), applied' = applied
  PROVE  [Life!Next]_<<[q \in Proposals |-> Status(q)], applied>>
  OBVIOUS

(* One proposal moves to a new status.                                      *)
LEMMA StatusMoves ==
  ASSUME NEW q \in Proposals, \A p \in Proposals \ {q} : Status(p)' = Status(p)
  PROVE  [p \in Proposals |-> Status(p)]' =
           [[p \in Proposals |-> Status(p)] EXCEPT ![q] = Status(q)']
  OBVIOUS

(* An open proposal that nobody applied and nobody holds any more.          *)
LEMMA StatusDrops ==
  ASSUME IInv, NEW q \in Proposals, applied' = applied, shown' = shown,
         applied[q] = 0, shown[q] # {},
         q \in staged \/ Held(q), ~(q \in staged' \/ Held(q)'),
         \A p \in Proposals \ {q} :
           p \in staged' \/ Held(p)' <=> p \in staged \/ Held(p)
  PROVE  Life!Next
<1>1. \A p \in Proposals \ {q} : Status(p)' = Status(p)
  BY SameStatus
<1>2. Status(q) = "open" /\ Status(q)' = "dropped"
  BY DEF Status
<1>3. [p \in Proposals |-> Status(p)][q] = "open"
  BY <1>2
<1>4. Life!Drop(q)
  BY <1>1, <1>2, <1>3, StatusMoves DEF Life!Drop
<1> QED BY <1>4 DEF Life!Next

LEMMA StageImplements ==
  ASSUME IInv, NEW r \in Requests, StageProposal(r)
  PROVE  Life!Next
<1>0. PICK q \in Proposals : q = request[r].proposal
  BY DEF IInv, TypeOK, Request
<1>1. /\ request[r].at = "propose" /\ End(r)
      /\ staged' = staged \cup {q} /\ shown' = [shown EXCEPT ![q] = {AllExact}]
      /\ applied' = applied
  BY <1>0 DEF StageProposal
<1>2. /\ applied[q] = 0 /\ shown[q] = {} /\ q \in Proposals
  BY <1>0, <1>1 DEF IInv, FreshHeld, Generating, TypeOK, Request
<1>3. \A p : Held(p)' <=> Held(p)
  BY <1>0, <1>1, EndStep, HeldSame DEF IInv
<1>4. shown'[q] # {} /\ \A p \in Proposals \ {q} : shown'[p] = shown[p]
  BY <1>0, <1>1, <1>2 DEF IInv, TypeOK
<1>5. \A p \in Proposals \ {q} : Status(p)' = Status(p)
  BY <1>0, <1>1, <1>3, <1>4, SameStatus
<1>6. Status(q) = "none" /\ Status(q)' = "open"
  BY <1>0, <1>1, <1>2, <1>4 DEF Status
<1>7. Life!Open(q)
  BY <1>0, <1>1, <1>2, <1>5, <1>6, StatusMoves DEF Life!Open
<1> QED BY <1>0, <1>2, <1>7 DEF Life!Next

LEMMA ApplyImplements ==
  ASSUME IInv, NEW r \in Requests, ApplyOps(r)
  PROVE  Life!Next
<1>0. PICK q \in Proposals : q = request[r].proposal
  BY DEF IInv, TypeOK, Request
<1>1. /\ request[r].at = "apply" /\ End(r)
      /\ applied' = [applied EXCEPT ![q] = @ + 1]
      /\ UNCHANGED <<staged, shown>>
  BY <1>0 DEF ApplyOps
<1>2. q \in Proposals /\ applied[q] = 0 /\ Held(q)
  BY <1>0, <1>1 DEF IInv, ClaimHeld, TypeOK, Request, Held
<1>3. /\ request'[r].at = "idle"
      /\ \A s \in Requests \ {r} : request'[s] = request[s]
  BY <1>0, <1>1, EndStep DEF IInv
<1>4. \A p \in Proposals \ {q} : Held(p)' <=> Held(p)
  BY <1>0, <1>1, <1>3 DEF Held
<1>5. applied'[q] = 1 /\ \A p \in Proposals \ {q} : applied'[p] = applied[p]
  BY <1>0, <1>1, <1>2 DEF IInv, TypeOK
<1>6. \A p \in Proposals \ {q} : Status(p)' = Status(p)
  BY <1>0, <1>1, <1>4, <1>5, SameStatus
<1>7. Status(q) \in {"none", "open"} /\ Status(q)' = "applied"
  BY <1>0, <1>2, <1>5 DEF Status
<1>8. Life!Apply(q)
  BY <1>0, <1>1, <1>2, <1>6, <1>7, StatusMoves DEF Life!Apply
<1> QED BY <1>0, <1>2, <1>8 DEF Life!Next

(* A request that ends drops its proposal only when it had claimed it.      *)
LEMMA AbandonImplements ==
  ASSUME IInv, NEW r \in Requests, Abandon(r)
  PROVE  [Life!Next]_<<[q \in Proposals |-> Status(q)], applied>>
<1>0. PICK q \in Proposals : q = request[r].proposal
  BY DEF IInv, TypeOK, Request
<1>1. End(r) /\ UNCHANGED <<staged, shown, applied>>
  BY <1>0 DEF Abandon
<1>2. /\ request'[r].at = "idle"
      /\ \A s \in Requests \ {r} : request'[s] = request[s]
  BY <1>0, <1>1, EndStep DEF IInv
<1>3. \A p \in Proposals \ {q} : Held(p)' <=> Held(p)
  BY <1>0, <1>2 DEF Held
<1>4. CASE request[r].at # "apply"
  <2>1. \A p : Held(p)' <=> Held(p)
    BY <1>0, <1>2, <1>4, HeldSame
  <2> QED BY <1>0, <1>1, <2>1, SameStatus, StatusStutter
<1>5. CASE request[r].at = "apply"
  <2>1. q \in Proposals /\ applied[q] = 0 /\ q \notin staged /\ Held(q) /\ ~Held(q)'
    BY <1>0, <1>2, <1>5 DEF IInv, ClaimHeld, TypeOK, Request, Held
  <2>2. CASE shown[q] # {}
    BY <1>0, <1>1, <1>3, <2>1, <2>2, StatusDrops
  <2>3. CASE shown[q] = {}
    <3>1. Status(q)' = Status(q)
      BY <1>0, <1>1, <2>1, <2>3 DEF Status
    <3> QED BY <1>0, <1>1, <1>3, <3>1, SameStatus, StatusStutter
  <2> QED BY <2>2, <2>3
<1> QED BY <1>4, <1>5

(* The key passes to the accept that holds the claim, or is dropped.        *)
LEMMA ConsumeImplements ==
  ASSUME IInv, NEW r \in Requests, ConsumeProposal(r)
  PROVE  [Life!Next]_<<[q \in Proposals |-> Status(q)], applied>>
<1>0. PICK q \in Proposals : q = request[r].proposal
  BY DEF IInv, TypeOK, Request
<1>1. /\ request[r].at = "consume" /\ staged' = staged \ {q}
      /\ UNCHANGED <<shown, applied>>
  BY <1>0 DEF ConsumeProposal
<1>2. /\ \/ request'[r].at = "idle"
         \/ q \in staged /\ request'[r].at = "apply" /\ request'[r].proposal = q
      /\ \A s \in Requests \ {r} : request'[s] = request[s]
  BY <1>0, ConsumeStep DEF IInv
<1>4. \A p \in Proposals \ {q} : Held(p)' <=> Held(p)
  BY <1>0, <1>1, <1>2 DEF Held
<1>5. CASE request'[r].at = "apply" \/ q \notin staged
  <2>1. q \in staged' \/ Held(q)' <=> q \in staged \/ Held(q)
    BY <1>0, <1>1, <1>2, <1>5 DEF Held
  <2>2. \A p \in Proposals : Status(p)' = Status(p)
    BY <1>0, <1>1, <1>4, <2>1, SameStatus
  <2> QED BY <1>0, <1>1, <2>2, StatusStutter
<1>6. CASE request'[r].at = "idle" /\ q \in staged
  <2>1. ~Held(q)'
    BY <1>0, <1>2, <1>6 DEF IInv, ClaimHeld, Held
  <2>2. applied[q] = 0 /\ shown[q] # {}
    BY <1>6 DEF IInv, StagedOpen
  <2> QED BY <1>0, <1>1, <1>4, <1>6, <2>1, <2>2, StatusDrops
<1> QED BY <1>0, <1>2, <1>5, <1>6

(* The key is deleted while nobody holds the claim.                         *)
LEMMA DeleteImplements ==
  ASSUME IInv, NEW q \in Proposals, DeclineProposal(q) \/ ExpireProposal(q)
  PROVE  [Life!Next]_<<[p \in Proposals |-> Status(p)], applied>>
<1>1. staged' = staged \ {q} /\ UNCHANGED <<request, applied, shown>>
  BY DEF DeclineProposal, ExpireProposal
<1>2. \A p : Held(p)' <=> Held(p)
  BY <1>1 DEF Held
<1>3. CASE q \in staged
  <2>1. applied[q] = 0 /\ shown[q] # {} /\ ~Held(q)
    BY <1>3 DEF IInv, StagedOpen, ClaimHeld, Held
  <2> QED BY <1>1, <1>2, <1>3, <2>1, StatusDrops
<1>4. CASE q \notin staged
  BY <1>1, <1>2, <1>4, SameStatus, StatusStutter
<1> QED BY <1>3, <1>4

(* The remaining steps change nobody's status.                              *)
LEMMA OthersImplement ==
  ASSUME IInv, NEW r \in Requests,
         \/ \E q \in Proposals, kind \in {"chat", "propose"} : Generate(r, q, kind)
         \/ \E q \in Proposals, confirm \in BOOLEAN : PeekProposal(r, q, confirm)
         \/ Chat(r) \/ Reconfirm(r) \/ CheckContent(r)
  PROVE  \A p \in Proposals : Status(p)' = Status(p) /\ applied' = applied
<1>1. ASSUME NEW q \in Proposals, NEW kind \in {"chat", "propose"}, Generate(r, q, kind)
      PROVE  \A p \in Proposals : Status(p)' = Status(p) /\ applied' = applied
  <2>1. request[r].at = "idle" /\ UNCHANGED <<staged, applied, shown>>
    BY <1>1 DEF Generate
  <2>2. \A p : Held(p)' <=> Held(p)
    BY <1>1, <2>1, GenerateStep, HeldSame DEF IInv
  <2> QED BY <2>1, <2>2, SameStatus
<1>2. ASSUME NEW q \in Proposals, NEW confirm \in BOOLEAN, PeekProposal(r, q, confirm)
      PROVE  \A p \in Proposals : Status(p)' = Status(p) /\ applied' = applied
  <2>1. request[r].at = "idle" /\ UNCHANGED <<staged, applied, shown>>
    BY <1>2 DEF PeekProposal
  <2>2. \A p : Held(p)' <=> Held(p)
    BY <1>2, <2>1, PeekStep, HeldSame DEF IInv
  <2> QED BY <2>1, <2>2, SameStatus
<1>3. CASE Chat(r)
  <2>0. PICK q \in Proposals : q = request[r].proposal
    BY DEF IInv, TypeOK, Request
  <2>1. request[r].at = "chat" /\ UNCHANGED <<staged, applied, shown>>
    BY <1>3 DEF Chat
  <2>2. shown[q] = {} /\ applied[q] = 0
    BY <2>0, <2>1 DEF IInv, FreshHeld, Generating
  <2>3. \A p \in Proposals \ {q} : Held(p)' <=> Held(p)
    BY <1>3, <2>0, <2>1, ChatStep DEF IInv, Held
  <2>4. Status(q)' = Status(q)
    BY <2>1, <2>2 DEF Status
  <2> QED BY <2>1, <2>3, <2>4, SameStatus
<1>4. CASE Reconfirm(r)
  <2>0. PICK q \in Proposals : q = request[r].proposal
    BY DEF IInv, TypeOK, Request
  <2>1. /\ request[r].at = "check" /\ End(r) /\ UNCHANGED <<staged, applied>>
        /\ shown' = [shown EXCEPT ![q] = @ \cup {match[q]}]
    BY <1>4, <2>0 DEF Reconfirm
  <2>2. shown[q] # {}
    BY <2>0, <2>1 DEF IInv, StagedOpen
  <2>3. \A p : Held(p)' <=> Held(p)
    BY <2>1, EndStep, HeldSame DEF IInv
  <2>4. shown'[q] # {} /\ \A p \in Proposals \ {q} : shown'[p] = shown[p]
    BY <2>1, <2>2 DEF IInv, TypeOK
  <2>5. \A p \in Proposals : shown'[p] = {} <=> shown[p] = {}
    BY <2>2, <2>4
  <2> QED BY <2>1, <2>3, <2>5, SameStatus
<1>5. CASE CheckContent(r)
  <2>1. request[r].at = "check" /\ UNCHANGED <<staged, applied, shown>>
    BY <1>5 DEF CheckContent
  <2>2. \A p : Held(p)' <=> Held(p)
    BY <1>5, <2>1, CheckStep, HeldSame DEF IInv
  <2> QED BY <2>1, <2>2, SameStatus
<1> QED BY <1>1, <1>2, <1>3, <1>4, <1>5

LEMMA StepImplements ==
  IInv /\ [Next]_vars => [Life!Next]_<<[q \in Proposals |-> Status(q)], applied>>
<1> SUFFICES ASSUME IInv, [Next]_vars
             PROVE  [Life!Next]_<<[q \in Proposals |-> Status(q)], applied>>
  OBVIOUS
<1>1. CASE Edit \/ UNCHANGED vars
  <2>1. UNCHANGED <<staged, request, applied, shown>>
    BY <1>1 DEF Edit, vars
  <2>2. \A q \in Proposals : Status(q)' = Status(q)
    BY <2>1 DEF Status, Held
  <2> QED BY <2>1, <2>2, StatusStutter
<1>2. ASSUME NEW r \in Requests,
             \/ \E q \in Proposals, kind \in {"chat", "propose"} : Generate(r, q, kind)
             \/ \E q \in Proposals, confirm \in BOOLEAN : PeekProposal(r, q, confirm)
             \/ Chat(r) \/ Reconfirm(r) \/ CheckContent(r)
      PROVE  [Life!Next]_<<[q \in Proposals |-> Status(q)], applied>>
  <2>1. \A q \in Proposals : Status(q)' = Status(q)
    BY <1>2, OthersImplement
  <2>2. applied' = applied
    BY <1>2 DEF Generate, PeekProposal, Chat, Reconfirm, CheckContent
  <2> QED BY <2>1, <2>2, StatusStutter
<1> QED BY <1>1, <1>2, StageImplements, ApplyImplements, AbandonImplements,
    ConsumeImplements, DeleteImplements DEF Next

-----------------------------------------------------------------------------

(* Whoever may write a proposal's operations is alone and found the key.    *)
THEOREM Inductive == Spec => []IInv
  BY InitIInv, NextIInv, PTL DEF Spec

(* Every variable keeps its type, for any number of requests.               *)
THEOREM TypeCorrect == Spec => []TypeOK
<1>1. IInv => TypeOK
  BY DEF IInv
<1> QED BY <1>1, Inductive, PTL

(* Racing accepts never apply the operations of a proposal twice.           *)
THEOREM NeverTwice == Spec => []AppliedOnce
<1>1. IInv => AppliedOnce
  BY DEF IInv
<1> QED BY <1>1, Inductive, PTL

(* A proposal that a decline found is not applied by an accept under way.   *)
THEOREM DeclineWins == Spec => []DeclinedStaysOut
<1>1. IInv => DeclinedStaysOut
  BY DEF IInv
<1> QED BY <1>1, Inductive, PTL

(* A proposal is opened once, and ends once: applied, or dropped for good.  *)
THEOREM Implements == Spec => ImplementsProposalLife
<1>1. Init => Life!Init
  BY DEF Init, Life!Init, Status
<1> QED BY <1>1, Inductive, StepImplements, PTL DEF Spec, ImplementsProposalLife, Life!Spec

=============================================================================
