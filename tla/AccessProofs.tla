---------------------------- MODULE AccessProofs ----------------------------
(***************************************************************************)
(* Proofs about Access, for any users, links and requests.  What was read   *)
(* by a guard may be out of date when the handler acts, so the argument     *)
(* rests on what cannot go out of date: the author stays the author, and a  *)
(* row of share_links stays as it was validated while a claim locks it.     *)
(***************************************************************************)
EXTENDS Access, TLAPS

LEMMA KindsAre ==
  Kinds = {"getDocument", "listMembers", "claimShareLink", "addMember", "createLink",
           "revokeLink", "updateDocumentMemberRole", "updateDocumentStatus",
           "updateDocument", "deleteMember", "deleteDocument", "chat", "proposeChat",
           "acceptProposal", "declineProposal"}
  BY DEF Kinds, Endpoint

LEMMA AuthorsOnly ==
  /\ Endpoint["updateDocumentMemberRole"].access = {"author"}
  /\ Endpoint["deleteMember"].access = {"author"}
  BY DEF Endpoint, updateDocumentMemberRole, deleteMember

LEMMA IdleIsRequest ==
  ASSUME NEW answer \in Answers
  PROVE  Idle(answer) \in Request /\ Idle(answer).at = "idle" /\ Idle(answer).answer = answer
  BY KindsAre DEF Idle, Request

(* A step of request r replaces its record and no other one.                *)
LEMMA RequestStep ==
  ASSUME request \in [Requests -> Request], NEW r \in Requests, NEW v \in Request,
         request' = [request EXCEPT ![r] = v]
  PROVE  /\ request' \in [Requests -> Request]
         /\ request'[r] = v
         /\ \A s \in Requests \ {r} : request'[s] = request[s]
  OBVIOUS

LEMMA EndStep ==
  ASSUME TypeOK, NEW r \in Requests, NEW answer \in Answers,
         request' = [request EXCEPT ![r] = Idle(answer)]
  PROVE  /\ request' \in [Requests -> Request]
         /\ request'[r].at = "idle" /\ request'[r].answer = answer
         /\ \A s \in Requests \ {r} : request'[s] = request[s]
<1> DEFINE v == Idle(answer)
<1>1. v \in Request /\ v.at = "idle" /\ v.answer = answer
  BY IdleIsRequest
<1> HIDE DEF v
<1> QED BY <1>1, RequestStep DEF TypeOK, v

LEMMA GoesStep ==
  ASSUME TypeOK, NEW r \in Requests,
         NEW at \in {"member", "handle", "update", "remove", "admit", "mark"}, Goes(r, at)
  PROVE  /\ request' \in [Requests -> Request]
         /\ request'[r].at = at /\ request'[r].kind = request[r].kind
         /\ request'[r].user = request[r].user /\ request'[r].link = request[r].link
         /\ \A s \in Requests \ {r} : request'[s] = request[s]
<1> DEFINE v == [request[r] EXCEPT !.at = at]
<1>1. /\ v \in Request /\ v.at = at /\ v.kind = request[r].kind
      /\ v.user = request[r].user /\ v.link = request[r].link
  BY DEF TypeOK, Request
<1>2. request' = [request EXCEPT ![r] = v]
  BY DEF Goes, TypeOK
<1> HIDE DEF v
<1> QED BY <1>1, <1>2, RequestStep DEF TypeOK

LEMMA ArriveStep ==
  ASSUME TypeOK, NEW r \in Requests, NEW u \in Users, NEW kind \in Kinds,
         NEW at \in {"handle", "member"},
         request' = [request EXCEPT ![r] = [Idle(Nothing) EXCEPT
                       !.at = at, !.kind = kind, !.user = u]]
  PROVE  /\ request' \in [Requests -> Request]
         /\ request'[r].at = at /\ request'[r].kind = kind /\ request'[r].user = u
         /\ \A s \in Requests \ {r} : request'[s] = request[s]
<1> DEFINE v == [Idle(Nothing) EXCEPT !.at = at, !.kind = kind, !.user = u]
<1>1. Idle(Nothing) \in Request
  BY IdleIsRequest DEF Answers
<1>2. v \in Request /\ v.at = at /\ v.kind = kind /\ v.user = u
  BY <1>1 DEF Request, Idle
<1> HIDE DEF v
<1> QED BY <1>2, RequestStep DEF TypeOK, v

LEMMA FindMemberStep ==
  ASSUME TypeOK, NEW r \in Requests, NEW target \in Users, NEW next \in {"update", "remove"},
         request' = [request EXCEPT ![r].at = next, ![r].target = target]
  PROVE  /\ request' \in [Requests -> Request]
         /\ request'[r].at = next /\ request'[r].kind = request[r].kind
         /\ request'[r].user = request[r].user /\ request'[r].target = target
         /\ \A s \in Requests \ {r} : request'[s] = request[s]
<1> DEFINE v == [request[r] EXCEPT !.at = next, !.target = target]
<1>1. /\ v \in Request /\ v.at = next /\ v.kind = request[r].kind
      /\ v.user = request[r].user /\ v.target = target
  BY DEF TypeOK, Request
<1>2. request' = [request EXCEPT ![r] = v]
  BY DEF TypeOK
<1> HIDE DEF v
<1> QED BY <1>1, <1>2, RequestStep DEF TypeOK

LEMMA ValidateStep ==
  ASSUME TypeOK, NEW r \in Requests, NEW l \in Links,
         request' = [request EXCEPT ![r].at = "admit", ![r].link = l]
  PROVE  /\ request' \in [Requests -> Request]
         /\ request'[r].at = "admit" /\ request'[r].kind = request[r].kind
         /\ request'[r].user = request[r].user /\ request'[r].link = l
         /\ \A s \in Requests \ {r} : request'[s] = request[s]
<1> DEFINE v == [request[r] EXCEPT !.at = "admit", !.link = l]
<1>1. /\ v \in Request /\ v.at = "admit" /\ v.kind = request[r].kind
      /\ v.user = request[r].user /\ v.link = l
  BY DEF TypeOK, Request
<1>2. request' = [request EXCEPT ![r] = v]
  BY DEF TypeOK
<1> HIDE DEF v
<1> QED BY <1>1, <1>2, RequestStep DEF TypeOK

-----------------------------------------------------------------------------

LEMMA InitIInv == Init => IInv
<1> SUFFICES ASSUME Init PROVE IInv
  OBVIOUS
<1>1. \A r \in Requests : request[r] = Idle(Nothing)
  BY DEF Init
<1>2. \A r \in Requests : request[r] \in Request /\ request[r].at = "idle"
  BY <1>1, IdleIsRequest DEF Answers
<1>3. TypeOK
  BY <1>2 DEF Init, TypeOK, Statuses, Roles, MemberRoles, NotMember, Link
<1>4. SingleUse /\ AuthorRemains /\ ActsAsAuthor /\ ClaimHeld /\ UnderWay
  BY <1>2 DEF Init, SingleUse, AuthorRemains, ActsAsAuthor, ClaimHeld, UnderWay, Handles
<1> QED BY <1>3, <1>4 DEF IInv

(* Ending a request, with the document, the members and the links as they   *)
(* were, disturbs nothing.                                                  *)
LEMMA EndKeeps ==
  ASSUME IInv, NEW r \in Requests, NEW answer \in Answers, End(r, answer),
         UNCHANGED <<status, role, link, admitted>>
  PROVE  IInv'
<1>1. /\ request' \in [Requests -> Request]
      /\ request'[r].at = "idle"
      /\ \A s \in Requests \ {r} : request'[s] = request[s]
      /\ overtaken' = overtaken \ {r}
  BY EndStep DEF End, IInv
<1>2. TypeOK'
  BY <1>1 DEF IInv, TypeOK
<1>3. SingleUse' /\ AuthorRemains'
  BY DEF IInv, SingleUse, AuthorRemains
<1>4. ActsAsAuthor'
  BY <1>1 DEF IInv, ActsAsAuthor, Handles
<1>5. ClaimHeld'
  BY <1>1 DEF IInv, ClaimHeld
<1>6. UnderWay'
  BY <1>1 DEF IInv, UnderWay
<1> QED BY <1>2, <1>3, <1>4, <1>5, <1>6 DEF IInv

(* Neither does moving it on.                                               *)
LEMMA ArriveKeeps ==
  ASSUME IInv, NEW r \in Requests, NEW u \in Users, NEW kind \in Kinds,
         DocumentExistsGuard(r, u, kind)
  PROVE  IInv'
<1>1. CASE status \in {"none", "deleted"}
  BY <1>1, EndKeeps DEF DocumentExistsGuard, Answers
<1>2. CASE status \notin {"none", "deleted"}
  <2> DEFINE to == IF kind = "claimShareLink" THEN "handle" ELSE "member"
  <2>1. to \in {"handle", "member"} /\ (to = "handle" => kind = "claimShareLink")
    OBVIOUS
  <2>2. request' = [request EXCEPT ![r] = [Idle(Nothing) EXCEPT
                      !.at = to, !.kind = kind, !.user = u]]
    BY <1>2 DEF DocumentExistsGuard
  <2> HIDE DEF to
  <2>3. /\ request' \in [Requests -> Request]
        /\ request'[r].at = to /\ request'[r].kind = kind /\ request'[r].user = u
        /\ \A s \in Requests \ {r} : request'[s] = request[s]
    BY <2>1, <2>2, ArriveStep DEF IInv
  <2>4. UNCHANGED <<status, role, link, admitted, overtaken>>
    BY <1>2 DEF DocumentExistsGuard
  <2>5. TypeOK' /\ SingleUse' /\ AuthorRemains'
    BY <2>3, <2>4 DEF IInv, TypeOK, SingleUse, AuthorRemains
  <2>6. ActsAsAuthor'
    BY <2>1, <2>3, <2>4 DEF IInv, ActsAsAuthor, Handles
  <2>7. ClaimHeld'
    BY <2>1, <2>3, <2>4 DEF IInv, ClaimHeld
  <2>8. UnderWay'
    BY <1>2, <2>3, <2>4 DEF IInv, UnderWay
  <2> QED BY <2>5, <2>6, <2>7, <2>8 DEF IInv
<1> QED BY <1>1, <1>2

LEMMA MembershipKeeps ==
  ASSUME IInv, NEW r \in Requests, DocumentMembershipGuard(r)
  PROVE  IInv'
<1>1. CASE End(r, 403)
  BY <1>1, EndKeeps DEF DocumentMembershipGuard, Answers
<1>2. CASE Goes(r, "handle") /\ role[request[r].user] \in Endpoint[request[r].kind].access
  <2>1. /\ request' \in [Requests -> Request]
        /\ request'[r].at = "handle" /\ request'[r].kind = request[r].kind
        /\ request'[r].user = request[r].user
        /\ \A s \in Requests \ {r} : request'[s] = request[s]
    BY <1>2, GoesStep DEF IInv
  <2>2. UNCHANGED <<status, role, link, admitted, overtaken>>
    BY <1>2 DEF DocumentMembershipGuard, Goes
  <2>3. TypeOK' /\ SingleUse' /\ AuthorRemains'
    BY <2>1, <2>2 DEF IInv, TypeOK, SingleUse, AuthorRemains
  <2>4. request[r].kind \in {"updateDocumentMemberRole", "deleteMember"} =>
          role[request[r].user] = "author"
    BY <1>2, AuthorsOnly
  <2>5. ActsAsAuthor'
    BY <2>1, <2>2, <2>4 DEF IInv, ActsAsAuthor, Handles
  <2>6. ClaimHeld'
    BY <2>1, <2>2 DEF IInv, ClaimHeld
  <2>7. UnderWay'
    BY <2>1, <2>2 DEF IInv, UnderWay, DocumentMembershipGuard
  <2> QED BY <2>3, <2>5, <2>6, <2>7 DEF IInv
<1> QED BY <1>1, <1>2 DEF DocumentMembershipGuard

(* What the document goes through; it exists from now on.                   *)
LEMMA CreateDocumentKeeps ==
  ASSUME IInv, NEW u \in Users, CreateDocument(u)
  PROVE  IInv'
<1>1. \A r \in Requests : request[r].at = "idle"
  BY DEF IInv, UnderWay, CreateDocument
<1>2. \A v \in Users : role'[v] = IF v = u THEN "author" ELSE NotMember
  BY DEF IInv, TypeOK, UnderWay, CreateDocument
<1>3. TypeOK'
  BY DEF IInv, TypeOK, CreateDocument, Statuses, Roles
<1>4. SingleUse'
  BY DEF IInv, SingleUse, CreateDocument
<1>5. AuthorRemains'
  BY <1>2 DEF AuthorRemains, NotMember
<1>6. ActsAsAuthor' /\ ClaimHeld'
  BY <1>1 DEF ActsAsAuthor, ClaimHeld, Handles, CreateDocument
<1>7. UnderWay'
  BY <1>1 DEF IInv, UnderWay, CreateDocument
<1> QED BY <1>3, <1>4, <1>5, <1>6, <1>7 DEF IInv

LEMMA StatusKeeps ==
  ASSUME IInv, NEW r \in Requests, UpdateDocumentStatus(r) \/ SoftDeleteDocument(r)
  PROVE  IInv'
<1>1. /\ request' \in [Requests -> Request]
      /\ request'[r].at = "idle"
      /\ \A s \in Requests \ {r} : request'[s] = request[s]
  BY EndStep DEF IInv, UpdateDocumentStatus, SoftDeleteDocument, Answers
<1>2. /\ UNCHANGED <<role, link, admitted>>
      /\ status # "none"
      /\ status' \in {"active", "inactive", "deleted"}
      /\ overtaken' \subseteq Requests
      /\ status' = "deleted" => overtaken' = {s \in Requests \ {r} : request[s].at # "idle"}
  BY DEF IInv, UnderWay, UpdateDocumentStatus, SoftDeleteDocument, Handles
<1>3. TypeOK'
  BY <1>1, <1>2 DEF IInv, TypeOK, Statuses
<1>4. SingleUse' /\ AuthorRemains'
  BY <1>2 DEF IInv, SingleUse, AuthorRemains
<1>5. ActsAsAuthor'
  BY <1>1, <1>2 DEF IInv, ActsAsAuthor, Handles
<1>6. ClaimHeld'
  BY <1>1, <1>2 DEF IInv, ClaimHeld
<1>7. UnderWay'
  BY <1>1, <1>2 DEF IInv, UnderWay
<1> QED BY <1>3, <1>4, <1>5, <1>6, <1>7 DEF IInv

-----------------------------------------------------------------------------

(* A request ends with the role of one user changed from or to a member's:  *)
(* that user is not the author, and no claim is about to insert it.         *)
LEMMA RoleKeeps ==
  ASSUME IInv, NEW r \in Requests, NEW answer \in Answers, End(r, answer),
         NEW u \in Users, NEW as \in MemberRoles \cup {NotMember},
         role' = [role EXCEPT ![u] = as],
         request[r].at # "idle",
         role[u] # "author",
         as = NotMember \/ role[u] # NotMember \/ ~Inserting(u),
         UNCHANGED <<status, link, admitted>>
  PROVE  IInv'
<1>1. /\ request' \in [Requests -> Request]
      /\ request'[r].at = "idle"
      /\ \A s \in Requests \ {r} : request'[s] = request[s]
      /\ overtaken' = overtaken \ {r}
  BY EndStep DEF End, IInv
<1>2. /\ role' \in [Users -> Roles \cup {NotMember}]
      /\ role'[u] = as /\ as # "author"
      /\ \A v \in Users \ {u} : role'[v] = role[v]
  BY DEF IInv, TypeOK, Roles, MemberRoles, NotMember
<1>3. TypeOK'
  BY <1>1, <1>2 DEF IInv, TypeOK
<1>4. SingleUse'
  BY DEF IInv, SingleUse
<1>5. \A v \in Users : role'[v] = "author" <=> role[v] = "author"
  BY <1>2
<1>6. AuthorRemains'
  BY <1>5 DEF IInv, AuthorRemains
<1>7. \A s \in Requests : request[s].at # "idle" => request[s].user \in Users
  BY DEF IInv, UnderWay
<1>8. ActsAsAuthor'
  <2> SUFFICES ASSUME NEW s \in Requests, s # r
               PROVE  /\ Handles(s, "updateDocumentMemberRole") \/ Handles(s, "deleteMember")
                           \/ request[s].at \in {"update", "remove"} =>
                             role'[request[s].user] = "author"
    BY <1>1 DEF IInv, ActsAsAuthor, Handles
  <2> QED BY <1>5, <1>7 DEF IInv, ActsAsAuthor, Handles
<1>9. \A s \in Requests : request[s].at = "mark" => role'[request[s].user] = NotMember
  BY <1>2, <1>7 DEF IInv, ClaimHeld, Inserting
<1>10. ClaimHeld'
  <2>1. ClaimHeld /\ link' = link
    BY DEF IInv
  <2>2. \A s \in Requests : request'[s].at \in {"admit", "mark"} =>
          s # r /\ request'[s] = request[s]
    BY <1>1
  <2>3. ASSUME NEW s \in Requests, request'[s].at \in {"admit", "mark"}
        PROVE  /\ request'[s].kind = "claimShareLink"
               /\ request'[s].link \in Links
               /\ link'[request'[s].link].state \in {"live", "expired"}
               /\ link'[request'[s].link].single => link'[request'[s].link].claimedBy = NoUser
               /\ \A t \in Requests : t # s /\ request'[t].at \in {"admit", "mark"} =>
                    request'[t].link # request'[s].link
    BY <2>1, <2>2, <2>3 DEF ClaimHeld
  <2>4. ASSUME NEW s \in Requests, request'[s].at = "mark"
        PROVE  /\ role'[request'[s].user] = NotMember
               /\ \A t \in Requests : t # s /\ request'[t].at = "mark" =>
                    request'[t].user # request'[s].user
    <3>1. request'[s] = request[s] /\ request[s].at = "mark"
      BY <2>2, <2>4
    <3>2. role'[request'[s].user] = NotMember
      BY <1>9, <3>1
    <3>3. ASSUME NEW t \in Requests, t # s, request'[t].at = "mark"
          PROVE  request'[t].user # request'[s].user
      BY <2>1, <2>2, <3>1, <3>3 DEF ClaimHeld
    <3> QED BY <3>2, <3>3
  <2> QED BY <2>3, <2>4 DEF ClaimHeld
<1>11. UnderWay'
  BY <1>1 DEF IInv, UnderWay
<1> QED BY <1>3, <1>4, <1>6, <1>8, <1>10, <1>11 DEF IInv

LEMMA AddMemberKeeps ==
  ASSUME IInv, NEW r \in Requests, NEW target \in Users \cup {NoUser},
         NEW as \in MemberRoles, AddMember(r, target, as)
  PROVE  IInv'
<1>1. CASE role' = role
  <2>1. UNCHANGED <<status, role, link, admitted>>
    BY <1>1 DEF AddMember
  <2>2. PICK answer \in {201, 404, 409} : End(r, answer)
    BY DEF AddMember
  <2> QED BY <2>1, <2>2, EndKeeps DEF Answers
<1>2. CASE role' # role
  <2>1. /\ target \in Users /\ role[target] = NotMember /\ ~Inserting(target)
        /\ End(r, 201) /\ role' = [role EXCEPT ![target] = as]
        /\ UNCHANGED <<status, link, admitted>> /\ request[r].at # "idle"
    BY <1>2 DEF AddMember, Handles
  <2>2. role[target] # "author" /\ as \in MemberRoles \cup {NotMember} /\ 201 \in Answers
    BY <2>1 DEF Answers, NotMember
  <2> QED BY <2>1, <2>2, RoleKeeps
<1> QED BY <1>1, <1>2

LEMMA FindMemberKeeps ==
  ASSUME IInv, NEW r \in Requests, NEW target \in Users,
         \/ FindMember(r, "updateDocumentMemberRole", "update", target)
         \/ FindMember(r, "deleteMember", "remove", target)
  PROVE  IInv'
<1>1. CASE \E answer \in {400, 404} : End(r, answer)
  BY <1>1, EndKeeps DEF FindMember, Answers
<1>2. ASSUME NEW next \in {"update", "remove"},
             request' = [request EXCEPT ![r].at = next, ![r].target = target],
             UNCHANGED overtaken, target # request[r].user, request[r].at = "handle",
             request[r].kind = IF next = "update" THEN "updateDocumentMemberRole"
                                                  ELSE "deleteMember"
      PROVE  IInv'
  <2>1. /\ request' \in [Requests -> Request]
        /\ request'[r].at = next /\ request'[r].kind = request[r].kind
        /\ request'[r].user = request[r].user /\ request'[r].target = target
        /\ \A s \in Requests \ {r} : request'[s] = request[s]
    BY <1>2, FindMemberStep DEF IInv
  <2>2. UNCHANGED <<status, role, link, admitted, overtaken>>
    BY <1>2 DEF FindMember
  <2>3. TypeOK' /\ SingleUse' /\ AuthorRemains'
    BY <2>1, <2>2 DEF IInv, TypeOK, SingleUse, AuthorRemains
  <2>4. role[request[r].user] = "author"
    BY <1>2 DEF IInv, ActsAsAuthor, Handles
  <2>5. ActsAsAuthor'
    BY <1>2, <2>1, <2>2, <2>4 DEF IInv, ActsAsAuthor, Handles
  <2>6. ClaimHeld'
    BY <1>2, <2>1, <2>2 DEF IInv, ClaimHeld
  <2>7. UnderWay'
    BY <1>2, <2>1, <2>2 DEF IInv, UnderWay
  <2> QED BY <2>3, <2>5, <2>6, <2>7 DEF IInv
<1> QED BY <1>1, <1>2 DEF FindMember, Handles

(* The target of an author is another member, so not the author.            *)
LEMMA TargetIsNotAuthor ==
  ASSUME IInv, NEW r \in Requests, request[r].at \in {"update", "remove"}
  PROVE  request[r].target \in Users /\ role[request[r].target] # "author"
<1>1. request[r].user \in Users /\ status # "none"
  BY DEF IInv, UnderWay
<1>2. role[request[r].user] = "author" /\ request[r].target \in Users \ {request[r].user}
  BY DEF IInv, ActsAsAuthor
<1> QED BY <1>1, <1>2 DEF IInv, AuthorRemains

LEMMA UpdateMemberRoleKeeps ==
  ASSUME IInv, NEW r \in Requests, NEW as \in MemberRoles, UpdateMemberRole(r, as)
  PROVE  IInv'
<1>1. CASE role[request[r].target] = NotMember
  BY <1>1, EndKeeps DEF UpdateMemberRole, Answers
<1>2. CASE role[request[r].target] # NotMember
  <2>1. /\ request[r].at = "update" /\ role' = [role EXCEPT ![request[r].target] = as]
        /\ UNCHANGED <<status, link, admitted>>
    BY <1>2 DEF UpdateMemberRole
  <2>2. PICK answer \in {200, Failed} : End(r, answer)
    BY <1>2 DEF UpdateMemberRole
  <2>3. request[r].target \in Users /\ role[request[r].target] # "author"
    BY <2>1, TargetIsNotAuthor
  <2>4. answer \in Answers
    BY <2>2 DEF Answers
  <2>5. as \in MemberRoles \cup {NotMember}
    OBVIOUS
  <2> QED BY <1>2, <2>1, <2>2, <2>3, <2>4, <2>5, RoleKeeps
<1> QED BY <1>1, <1>2

LEMMA RemoveMemberKeeps ==
  ASSUME IInv, NEW r \in Requests, RemoveMember(r)
  PROVE  IInv'
<1>1. /\ request[r].at = "remove" /\ role' = [role EXCEPT ![request[r].target] = NotMember]
      /\ UNCHANGED <<status, link, admitted>> /\ End(r, 204)
  BY DEF RemoveMember
<1>2. request[r].target \in Users /\ role[request[r].target] # "author"
  BY <1>1, TargetIsNotAuthor
<1>3. 204 \in Answers /\ NotMember \in MemberRoles \cup {NotMember}
  BY DEF Answers
<1> QED BY <1>1, <1>2, <1>3, RoleKeeps

-----------------------------------------------------------------------------

(* The row of a link that no claim holds is replaced by one that no member  *)
(* has come through, or with another state.                                 *)
LEMMA LinkKeeps ==
  ASSUME IInv, UNCHANGED <<status, role, admitted>>, overtaken' \subseteq overtaken,
         NEW l \in Links, NEW v \in Link,
         link' = [link EXCEPT ![l] = v],
         request' \in [Requests -> Request],
         \A s \in Requests : request'[s].at = "idle" \/ request'[s] = request[s],
         \A s \in Requests : request'[s].at # "idle" /\ s \in overtaken => s \in overtaken',
         v.state # "none",
         \/ link[l].state = "none" /\ v.claimedBy = NoUser
         \/ v.claimedBy = link[l].claimedBy /\ v.single = link[l].single,
         Locked(l) => v.state \in {"live", "expired"} /\ v.claimedBy = link[l].claimedBy
                      /\ v.single = link[l].single
  PROVE  IInv'
<1>1. link' \in [Links -> Link] /\ link'[l] = v /\ \A k \in Links \ {l} : link'[k] = link[k]
  BY DEF IInv, TypeOK
<1>2. TypeOK'
  BY <1>1 DEF IInv, TypeOK
<1>3. SingleUse'
  <2> SUFFICES ASSUME NEW k \in Links, link'[k].single
               PROVE  admitted[k] = IF link'[k].claimedBy = NoUser THEN {}
                                    ELSE {link'[k].claimedBy}
    BY DEF SingleUse
  <2>1. CASE k # l
    BY <1>1, <2>1 DEF IInv, SingleUse
  <2>2. CASE k = l /\ link[l].state = "none" /\ v.claimedBy = NoUser
    BY <1>1, <2>2 DEF IInv, UnderWay
  <2>3. CASE k = l /\ v.claimedBy = link[l].claimedBy /\ v.single = link[l].single
    BY <1>1, <2>3 DEF IInv, SingleUse
  <2> QED BY <2>1, <2>2, <2>3
<1>4. AuthorRemains'
  BY DEF IInv, AuthorRemains
<1>5. ActsAsAuthor'
  BY DEF IInv, ActsAsAuthor, Handles
<1>6. ClaimHeld'
  <2>1. \A s \in Requests : request'[s].at \in {"admit", "mark"} => request'[s] = request[s]
    OBVIOUS
  <2>2. ASSUME NEW s \in Requests, request'[s].at \in {"admit", "mark"}
        PROVE  /\ request'[s].kind = "claimShareLink"
               /\ request'[s].link \in Links
               /\ link'[request'[s].link].state \in {"live", "expired"}
               /\ link'[request'[s].link].single => link'[request'[s].link].claimedBy = NoUser
               /\ \A t \in Requests : t # s /\ request'[t].at \in {"admit", "mark"} =>
                    request'[t].link # request'[s].link
    <3>1. request'[s] = request[s] /\ request[s].at \in {"admit", "mark"}
      BY <2>1, <2>2
    <3>2. /\ request[s].kind = "claimShareLink"
          /\ request[s].link \in Links
          /\ link[request[s].link].state \in {"live", "expired"}
          /\ link[request[s].link].single => link[request[s].link].claimedBy = NoUser
      BY <3>1 DEF IInv, ClaimHeld
    <3>3. CASE request[s].link = l
      <4>1. Locked(l)
        BY <3>1, <3>3 DEF Locked
      <4> QED BY <1>1, <2>1, <3>1, <3>2, <3>3, <4>1 DEF IInv, ClaimHeld
    <3>4. CASE request[s].link # l
      BY <1>1, <2>1, <3>1, <3>2, <3>4 DEF IInv, ClaimHeld
    <3> QED BY <3>3, <3>4
  <2>3. ASSUME NEW s \in Requests, request'[s].at = "mark"
        PROVE  /\ role'[request'[s].user] = NotMember
               /\ \A t \in Requests : t # s /\ request'[t].at = "mark" =>
                    request'[t].user # request'[s].user
    BY <2>1, <2>3 DEF IInv, ClaimHeld
  <2> QED BY <2>2, <2>3 DEF ClaimHeld
<1>7. UnderWay'
  BY <1>1 DEF IInv, UnderWay
<1> QED BY <1>2, <1>3, <1>4, <1>5, <1>6, <1>7 DEF IInv

LEMMA CreateShareLinkKeeps ==
  ASSUME IInv, NEW r \in Requests, NEW l \in Links, NEW as \in MemberRoles,
         NEW single \in BOOLEAN, CreateShareLink(r, l, as, single)
  PROVE  IInv'
<1> DEFINE v == [state |-> "live", role |-> as, single |-> single, claimedBy |-> NoUser]
<1>1. v \in Link /\ v.state = "live" /\ v.claimedBy = NoUser
  BY DEF Link
<1>2. /\ UNCHANGED <<status, role, admitted>> /\ link' = [link EXCEPT ![l] = v]
      /\ link[l].state = "none" /\ End(r, 201)
  BY DEF CreateShareLink
<1> HIDE DEF v
<1>3. /\ request' \in [Requests -> Request]
      /\ request'[r].at = "idle"
      /\ \A s \in Requests \ {r} : request'[s] = request[s]
      /\ overtaken' = overtaken \ {r}
  <2>1. 201 \in Answers
    BY DEF Answers
  <2> QED BY <1>2, <2>1, EndStep DEF End, IInv
<1>4. ~Locked(l)
  BY <1>2 DEF Locked, IInv, ClaimHeld
<1> QED BY <1>1, <1>2, <1>3, <1>4, LinkKeeps

LEMMA RevokeShareLinkKeeps ==
  ASSUME IInv, NEW r \in Requests, NEW l \in Links, RevokeShareLink(r, l)
  PROVE  IInv'
<1>1. CASE link[l].state \in {"none", "revoked"}
  <2>1. PICK answer \in {400, 404} : End(r, answer)
    BY <1>1 DEF RevokeShareLink
  <2>2. UNCHANGED <<status, role, link, admitted>>
    BY <1>1 DEF RevokeShareLink
  <2> QED BY <2>1, <2>2, EndKeeps DEF Answers
<1>2. CASE link[l].state \notin {"none", "revoked"}
  <2> DEFINE v == [link[l] EXCEPT !.state = "revoked"]
  <2>1. /\ v \in Link /\ v.state = "revoked"
        /\ v.claimedBy = link[l].claimedBy /\ v.single = link[l].single
    BY DEF IInv, TypeOK, Link
  <2>2. /\ UNCHANGED <<status, role, admitted>> /\ End(r, 200) /\ ~Locked(l)
        /\ link' = [link EXCEPT ![l] = v]
    BY <1>2 DEF RevokeShareLink, IInv, TypeOK
  <2> HIDE DEF v
  <2>3. /\ request' \in [Requests -> Request]
        /\ request'[r].at = "idle"
        /\ \A s \in Requests \ {r} : request'[s] = request[s]
        /\ overtaken' = overtaken \ {r}
    <3>1. 200 \in Answers
      BY DEF Answers
    <3> QED BY <2>2, <3>1, EndStep DEF End, IInv
  <2> QED BY <2>1, <2>2, <2>3, LinkKeeps
<1> QED BY <1>1, <1>2

LEMMA ExpireLinkKeeps ==
  ASSUME IInv, NEW l \in Links, ExpireLink(l)
  PROVE  IInv'
<1> DEFINE v == [link[l] EXCEPT !.state = "expired"]
<1>1. /\ v \in Link /\ v.state = "expired"
      /\ v.claimedBy = link[l].claimedBy /\ v.single = link[l].single
  BY DEF IInv, TypeOK, Link
<1>2. /\ UNCHANGED <<status, role, admitted, request, overtaken>>
      /\ link' = [link EXCEPT ![l] = v]
  BY DEF ExpireLink, IInv, TypeOK
<1>3. request' \in [Requests -> Request]
  BY <1>2 DEF IInv, TypeOK
<1> HIDE DEF v
<1> QED BY <1>1, <1>2, <1>3, LinkKeeps

(* A claim locks the row that it has found claimable.                       *)
LEMMA FindAndValidateKeeps ==
  ASSUME IInv, NEW r \in Requests, NEW l \in Links, FindAndValidateLink(r, l)
  PROVE  IInv'
<1>1. CASE \E answer \in {403, 404} : End(r, answer)
  BY <1>1, EndKeeps DEF FindAndValidateLink, Answers
<1>2. CASE /\ request' = [request EXCEPT ![r].at = "admit", ![r].link = l]
           /\ UNCHANGED overtaken
           /\ link[l].state = "live"
           /\ link[l].single => link[l].claimedBy = NoUser
  <2>1. /\ request' \in [Requests -> Request]
        /\ request'[r].at = "admit" /\ request'[r].kind = request[r].kind
        /\ request'[r].user = request[r].user /\ request'[r].link = l
        /\ \A s \in Requests \ {r} : request'[s] = request[s]
    BY <1>2, ValidateStep DEF IInv
  <2>2. UNCHANGED <<status, role, link, admitted, overtaken>>
    BY <1>2 DEF FindAndValidateLink
  <2>3. request[r].at = "handle" /\ request[r].kind = "claimShareLink" /\ ~Locked(l)
    BY DEF FindAndValidateLink, Handles
  <2>4. TypeOK' /\ SingleUse' /\ AuthorRemains'
    BY <2>1, <2>2 DEF IInv, TypeOK, SingleUse, AuthorRemains
  <2>5. ActsAsAuthor'
    BY <2>1, <2>2 DEF IInv, ActsAsAuthor, Handles
  <2>6. ClaimHeld'
    BY <1>2, <2>1, <2>2, <2>3 DEF IInv, ClaimHeld, Locked
  <2>7. UnderWay'
    BY <2>1, <2>2, <2>3 DEF IInv, UnderWay
  <2> QED BY <2>4, <2>5, <2>6, <2>7 DEF IInv
<1> QED BY <1>1, <1>2 DEF FindAndValidateLink

LEMMA AddMemberViaLinkKeeps ==
  ASSUME IInv, NEW r \in Requests, AddMemberViaLink(r)
  PROVE  IInv'
<1>1. CASE End(r, 409)
  BY <1>1, EndKeeps DEF AddMemberViaLink, Answers
<1>2. CASE role[request[r].user] = NotMember /\ Goes(r, "mark")
  <2>1. /\ request' \in [Requests -> Request]
        /\ request'[r].at = "mark" /\ request'[r].kind = request[r].kind
        /\ request'[r].user = request[r].user /\ request'[r].link = request[r].link
        /\ \A s \in Requests \ {r} : request'[s] = request[s]
    BY <1>2, GoesStep DEF IInv
  <2>2. UNCHANGED <<status, role, link, admitted, overtaken>>
    BY <1>2 DEF AddMemberViaLink, Goes
  <2>3. request[r].at = "admit" /\ ~Inserting(request[r].user)
    BY DEF AddMemberViaLink
  <2>4. TypeOK' /\ SingleUse' /\ AuthorRemains'
    BY <2>1, <2>2 DEF IInv, TypeOK, SingleUse, AuthorRemains
  <2>5. ActsAsAuthor'
    BY <2>1, <2>2 DEF IInv, ActsAsAuthor, Handles
  <2>6. ClaimHeld'
    BY <1>2, <2>1, <2>2, <2>3 DEF IInv, ClaimHeld, Inserting
  <2>7. UnderWay'
    BY <2>1, <2>2, <2>3 DEF IInv, UnderWay
  <2> QED BY <2>4, <2>5, <2>6, <2>7 DEF IInv
<1> QED BY <1>1, <1>2 DEF AddMemberViaLink

(* A claim commits on the row that it has locked since it validated it.     *)
LEMMA MarkLinkKeeps ==
  ASSUME IInv, NEW r \in Requests, MarkLinkAsClaimed(r)
  PROVE  IInv'
<1> DEFINE l == request[r].link
           u == request[r].user
<1>1. PICK answer \in {200, Failed} : End(r, answer)
  BY DEF MarkLinkAsClaimed
<1>2. answer \in Answers
  BY DEF Answers
<1>3. /\ request' \in [Requests -> Request]
      /\ request'[r].at = "idle"
      /\ \A s \in Requests \ {r} : request'[s] = request[s]
      /\ overtaken' = overtaken \ {r}
  BY <1>1, <1>2, EndStep DEF End, IInv
<1>4. /\ request[r].at = "mark" /\ status' = status
      /\ role' = [role EXCEPT ![u] = link[l].role]
      /\ link' = IF link[l].single THEN [link EXCEPT ![l].claimedBy = u] ELSE link
      /\ admitted' = [admitted EXCEPT ![l] = @ \cup {u}]
  BY DEF MarkLinkAsClaimed
<1>5. /\ l \in Links /\ u \in Users
      /\ link[l].state \in {"live", "expired"}
      /\ link[l].single => link[l].claimedBy = NoUser
      /\ role[u] = NotMember
      /\ link[l].role \in MemberRoles
  BY <1>4 DEF IInv, ClaimHeld, UnderWay, TypeOK, Link
<1>6. \A s \in Requests : request'[s].at # "idle" =>
        /\ s # r /\ request'[s] = request[s]
        /\ request[s].at \in {"admit", "mark"} => request[s].link # l
        /\ request[s].at = "mark" => request[s].user # u
  BY <1>3, <1>4 DEF IInv, ClaimHeld
<1> HIDE DEF l, u
<1>7. /\ role' \in [Users -> Roles \cup {NotMember}]
      /\ \A v \in Users \ {u} : role'[v] = role[v]
      /\ role'[u] \in MemberRoles
  BY <1>4, <1>5 DEF IInv, TypeOK, Roles
<1>8. /\ link' \in [Links -> Link]
      /\ link'[l].state = link[l].state /\ link'[l].single = link[l].single
      /\ link[l].single => link'[l].claimedBy = u
      /\ \A k \in Links \ {l} : link'[k] = link[k]
  BY <1>4, <1>5 DEF IInv, TypeOK, Link
<1>9. /\ admitted' \in [Links -> SUBSET Users]
      /\ admitted'[l] = admitted[l] \cup {u}
      /\ \A k \in Links \ {l} : admitted'[k] = admitted[k]
  BY <1>4, <1>5 DEF IInv, TypeOK
<1>10. TypeOK'
  BY <1>3, <1>4, <1>7, <1>8, <1>9 DEF IInv, TypeOK
<1>11. SingleUse'
  <2> SUFFICES ASSUME NEW k \in Links, link'[k].single
               PROVE  admitted'[k] = IF link'[k].claimedBy = NoUser THEN {}
                                     ELSE {link'[k].claimedBy}
    BY DEF SingleUse
  <2>1. CASE k # l
    BY <1>8, <1>9, <2>1 DEF IInv, SingleUse
  <2>2. CASE k = l
    <3>1. link[l].single /\ admitted[l] = {} /\ link'[l].claimedBy = u
      BY <1>5, <1>8, <2>2 DEF IInv, SingleUse
    <3>2. u # NoUser
      BY <1>5, UsersAssumption
    <3> QED BY <1>9, <2>2, <3>1, <3>2
  <2> QED BY <2>1, <2>2
<1>12. \A v \in Users : role'[v] = "author" <=> role[v] = "author"
  BY <1>5, <1>7 DEF MemberRoles, NotMember
<1>13. AuthorRemains'
  BY <1>4, <1>12 DEF IInv, AuthorRemains
<1>14. \A s \in Requests : request[s].at # "idle" => request[s].user \in Users
  BY DEF IInv, UnderWay
<1>15. ActsAsAuthor'
  BY <1>3, <1>6, <1>12, <1>14 DEF IInv, ActsAsAuthor, Handles
<1>16. ClaimHeld'
  BY <1>3, <1>6, <1>7, <1>8, <1>14 DEF IInv, ClaimHeld
<1>17. UnderWay'
  BY <1>3, <1>4, <1>5, <1>8, <1>9 DEF IInv, UnderWay
<1> QED BY <1>10, <1>11, <1>13, <1>15, <1>16, <1>17 DEF IInv

-----------------------------------------------------------------------------

LEMMA ReplyKeeps ==
  ASSUME IInv, NEW r \in Requests,
         \/ ReadDocument(r) \/ UpdateDocumentTitle(r) \/ AskAi(r)
         \/ RefuseBody(r) \/ RejectValue(r) \/ Fail(r)
  PROVE  IInv'
<1>1. UNCHANGED <<status, role, link, admitted>>
  BY DEF ReadDocument, UpdateDocumentTitle, AskAi, RefuseBody, RejectValue, Fail
<1>2. \E answer \in {200, 204, 400, 409, 410, 422, Failed, Rejected} : End(r, answer)
  <2>1. CASE AskAi(r)
    <3>1. DOMAIN AiAnswers = {"chat", "proposeChat", "acceptProposal", "declineProposal"}
      BY DEF AiAnswers
    <3>2. \A k \in DOMAIN AiAnswers :
            AiAnswers[k] \subseteq {200, 204, 400, 409, 410, 422, Rejected}
      BY <3>1 DEF AiAnswers
    <3> QED BY <2>1, <3>2 DEF AskAi
  <2> QED BY <2>1 DEF ReadDocument, UpdateDocumentTitle, RefuseBody, RejectValue, Fail
<1>3. PICK answer \in {200, 204, 400, 409, 410, 422, Failed, Rejected} : End(r, answer)
  BY <1>2
<1>4. answer \in Answers
  BY DEF Answers
<1> QED BY <1>1, <1>3, <1>4, EndKeeps

LEMMA NextIInv == IInv /\ [Next]_vars => IInv'
<1> SUFFICES ASSUME IInv, [Next]_vars PROVE IInv'
  OBVIOUS
<1>1. CASE UNCHANGED vars
  BY <1>1 DEF vars, IInv, TypeOK, SingleUse, AuthorRemains, ActsAsAuthor, ClaimHeld, UnderWay,
              Handles
<1>2. CASE \E u \in Users : CreateDocument(u)
  BY <1>2, CreateDocumentKeeps
<1>3. CASE \E l \in Links : ExpireLink(l)
  BY <1>3, ExpireLinkKeeps
<1>4. ASSUME NEW r \in Requests, Arrive(r) PROVE IInv'
  BY <1>4, ArriveKeeps, ServedAssumption DEF Arrive
<1>5. ASSUME NEW r \in Requests, DocumentMembershipGuard(r) PROVE IInv'
  BY <1>5, MembershipKeeps
<1>6. ASSUME NEW r \in Requests, HandleDocument(r) \/ Fail(r) PROVE IInv'
  BY <1>6, ReplyKeeps, StatusKeeps DEF HandleDocument
<1>7. ASSUME NEW r \in Requests, HandleMember(r) PROVE IInv'
  BY <1>7, AddMemberKeeps, FindMemberKeeps, UpdateMemberRoleKeeps, RemoveMemberKeeps
     DEF HandleMember
<1>8. ASSUME NEW r \in Requests, HandleLink(r) PROVE IInv'
  BY <1>8, CreateShareLinkKeeps, RevokeShareLinkKeeps, FindAndValidateKeeps,
     AddMemberViaLinkKeeps, MarkLinkKeeps DEF HandleLink
<1> QED BY <1>1, <1>2, <1>3, <1>4, <1>5, <1>6, <1>7, <1>8 DEF Next

(* The invariant that carries the argument: whoever acts as the author is   *)
(* the author still, and a claim holds its link as it was validated.        *)
THEOREM Inductive == Spec => []IInv
<1>1. Init => IInv
  BY InitIInv
<1>2. IInv /\ [Next]_vars => IInv'
  BY NextIInv
<1> QED BY <1>1, <1>2, PTL DEF Spec

(* Every variable keeps its type, for any users, links and requests.        *)
THEOREM TypeCorrect == Spec => []TypeOK
<1>1. IInv => TypeOK
  BY DEF IInv
<1> QED BY <1>1, Inductive, PTL

(* Racing claims: a single-use link admits one user, who is its claimer.    *)
THEOREM OneClaimWins == Spec => []SingleUse
<1>1. IInv => SingleUse
  BY DEF IInv
<1> QED BY <1>1, Inductive, PTL

(* Nothing the author's own requests do leaves the document without its     *)
(* author, or with two.                                                     *)
THEOREM AuthorStays == Spec => []AuthorRemains
<1>1. IInv => AuthorRemains
  BY DEF IInv
<1> QED BY <1>1, Inductive, PTL

-----------------------------------------------------------------------------

(* Members come through a link only by the commit of a claim, and that      *)
(* finds the link as it was when the claim locked it.                       *)
LEMMA AdmittedByClaim ==
  ASSUME IInv, Next, NEW l \in Links, admitted'[l] # admitted[l]
  PROVE  link[l].state # "revoked"
<1>1. PICK r \in Requests : MarkLinkAsClaimed(r)
  <2>1. ASSUME NEW r \in Requests, HandleDocument(r) \/ HandleMember(r)
        PROVE  UNCHANGED admitted
    BY <2>1 DEF HandleDocument, ReadDocument, UpdateDocumentTitle, AskAi, RefuseBody,
       RejectValue, UpdateDocumentStatus, SoftDeleteDocument, HandleMember, AddMember, FindMember,
       UpdateMemberRole, RemoveMember
  <2>2. ASSUME NEW r \in Requests, HandleLink(r), ~MarkLinkAsClaimed(r)
        PROVE  UNCHANGED admitted
    BY <2>2 DEF HandleLink, CreateShareLink, RevokeShareLink, FindAndValidateLink,
       AddMemberViaLink
  <2>3. ASSUME NEW r \in Requests, Arrive(r) \/ DocumentMembershipGuard(r) \/ Fail(r)
        PROVE  UNCHANGED admitted
    BY <2>3 DEF Arrive, DocumentExistsGuard, DocumentMembershipGuard, Fail
  <2> QED BY <2>1, <2>2, <2>3 DEF Next, CreateDocument, ExpireLink
<1>2. request[r].at = "mark" /\ request[r].link = l
  BY <1>1 DEF MarkLinkAsClaimed, IInv, TypeOK
<1> QED BY <1>2 DEF IInv, ClaimHeld

(* No claim commits on a revoked link, whatever it read before.             *)
THEOREM RevocationWins == Spec => RevokedAdmitsNobody
<1>1. IInv /\ [Next]_vars =>
        [\A l \in Links : link[l].state = "revoked" => admitted'[l] = admitted[l]]_vars
  BY AdmittedByClaim
<1> QED BY <1>1, Inductive, PTL DEF Spec, RevokedAdmitsNobody

(* What changes document, members and links is a request, which ends with   *)
(* that step, the creation of the document, or time.                        *)
LEMMA ChangedByRequest ==
  ASSUME IInv, Next, <<status, role, link>>' # <<status, role, link>>
  PROVE  \/ \E u \in Users : CreateDocument(u)
         \/ \E l \in Links : ExpireLink(l)
         \/ \E r \in Requests : request[r].at # "idle" /\ request'[r].at = "idle"
<1>1. ASSUME NEW r \in Requests, request[r].at # "idle",
             NEW answer \in Answers, request' = [request EXCEPT ![r] = Idle(answer)]
      PROVE  request'[r].at = "idle"
  BY <1>1, EndStep DEF IInv
<1>2. {200, 201, 204, 404, 409, Failed} \subseteq Answers
  BY DEF Answers
<1>3. ASSUME NEW r \in Requests, HandleDocument(r)
      PROVE  request[r].at # "idle" /\ request'[r].at = "idle"
  BY <1>1, <1>2, <1>3 DEF HandleDocument, UpdateDocumentStatus, SoftDeleteDocument, Handles,
     ReadDocument, UpdateDocumentTitle, AskAi, RefuseBody, RejectValue
<1>4. ASSUME NEW r \in Requests, HandleMember(r)
      PROVE  request[r].at # "idle" /\ request'[r].at = "idle"
  <2>1. PICK target \in Users \cup {NoUser}, as \in MemberRoles :
          AddMember(r, target, as) \/ UpdateMemberRole(r, as) \/ RemoveMember(r)
    BY <1>4 DEF HandleMember, FindMember, MemberRoles
  <2>2. CASE AddMember(r, target, as)
    BY <1>1, <1>2, <2>2 DEF AddMember, Handles, End
  <2>3. CASE UpdateMemberRole(r, as)
    <3>1. \/ End(r, 404)
          \/ \E answer \in {200, Failed} : End(r, answer)
      BY <2>3 DEF UpdateMemberRole
    <3>2. PICK answer \in {200, 404, Failed} : End(r, answer)
      BY <3>1
    <3>3. request[r].at # "idle" /\ answer \in Answers
      BY <1>2, <2>3 DEF UpdateMemberRole
    <3> QED BY <1>1, <3>2, <3>3 DEF End
  <2>4. CASE RemoveMember(r)
    BY <1>1, <1>2, <2>4 DEF RemoveMember, End
  <2> QED BY <2>1, <2>2, <2>3, <2>4
<1>5. ASSUME NEW r \in Requests, HandleLink(r)
      PROVE  request[r].at # "idle" /\ request'[r].at = "idle"
  <2>1. CASE MarkLinkAsClaimed(r)
    <3>1. PICK answer \in {200, Failed} : End(r, answer)
      BY <2>1 DEF MarkLinkAsClaimed
    <3>2. request[r].at # "idle" /\ answer \in Answers
      BY <1>2, <2>1 DEF MarkLinkAsClaimed
    <3> QED BY <1>1, <3>1, <3>2 DEF End
  <2>2. ASSUME NEW l \in Links, RevokeShareLink(r, l)
        PROVE  request[r].at # "idle" /\ request'[r].at = "idle"
    BY <1>1, <1>2, <2>2 DEF RevokeShareLink, Handles, End
  <2>3. ASSUME NEW l \in Links, NEW as \in MemberRoles, NEW single \in BOOLEAN,
               CreateShareLink(r, l, as, single)
        PROVE  request[r].at # "idle" /\ request'[r].at = "idle"
    BY <1>1, <1>2, <2>3 DEF CreateShareLink, Handles, End
  <2>4. ASSUME NEW l \in Links, FindAndValidateLink(r, l) \/ AddMemberViaLink(r)
        PROVE  UNCHANGED <<status, role, link>>
    BY <2>4 DEF FindAndValidateLink, AddMemberViaLink
  <2>5. ~AddMemberViaLink(r)
    BY DEF AddMemberViaLink
  <2> QED BY <1>5, <2>1, <2>2, <2>3, <2>4, <2>5 DEF HandleLink
<1>6. ASSUME NEW r \in Requests, Arrive(r) \/ DocumentMembershipGuard(r) \/ Fail(r)
      PROVE  UNCHANGED <<status, role, link>>
  BY <1>6 DEF Arrive, DocumentExistsGuard, DocumentMembershipGuard, Fail
<1> QED BY <1>3, <1>4, <1>5, <1>6 DEF Next

(* A deleted document is closed to every request that comes after.          *)
THEOREM ClosedOnceDeleted == Spec => DeletedIsClosed
<1>1. ASSUME IInv, [Next]_vars, status = "deleted",
             <<status, role, link>>' # <<status, role, link>>
      PROVE  \/ \E l \in Links : ExpireLink(l)
             \/ \E r \in overtaken : request'[r] # request[r]
  <2>1. Next
    BY <1>1 DEF vars
  <2>2. ~\E u \in Users : CreateDocument(u)
    BY <1>1 DEF CreateDocument
  <2>3. \A r \in Requests : request[r].at # "idle" => r \in overtaken
    BY <1>1 DEF IInv, UnderWay
  <2> QED BY <1>1, <2>1, <2>2, <2>3, ChangedByRequest
<1>2. IInv /\ [Next]_vars =>
        [status = "deleted" /\ <<status, role, link>>' # <<status, role, link>> =>
           \/ \E l \in Links : ExpireLink(l)
           \/ \E r \in overtaken : request'[r] # request[r]]_vars
  BY <1>1
<1> QED BY <1>2, Inductive, PTL DEF Spec, DeletedIsClosed

-----------------------------------------------------------------------------

(* The statuses a kind of request may be answered with.                     *)
Allowed(kind) == Endpoint[kind].answers \cup Undocumented(kind)

LEMMA AllowedFacts ==
  ASSUME NEW kind
  PROVE  /\ Failed \in Allowed(kind)
         /\ Endpoint[kind].answers \subseteq Allowed(kind)
         /\ kind \in Unchecked \cup {"chat", "acceptProposal"} => Rejected \in Allowed(kind)
         /\ kind = "acceptProposal" => 400 \in Allowed(kind)
BY DEF Allowed, Undocumented

(* What the step answers to r, if it answers at all, is documented.         *)
Documented(r) ==
  request[r].at # "idle" /\ request'[r].at = "idle" =>
    request'[r].answer \in Allowed(request[r].kind)

LEMMA AnswerDocumented ==
  ASSUME TypeOK, NEW r \in Requests,
         NEW answer \in Allowed(request[r].kind),
         request' = [request EXCEPT ![r] = Idle(answer)]
  PROVE  \A s \in Requests : Documented(s)
<1> DEFINE v == Idle(answer)
<1>1. v.answer = answer
  BY DEF Idle
<1> HIDE DEF v
<1>2. request'[r] = v /\ \A s \in Requests \ {r} : request'[s] = request[s]
  BY DEF TypeOK, v
<1> QED BY <1>1, <1>2 DEF Documented

LEMMA EndDocumented ==
  ASSUME TypeOK, NEW r \in Requests,
         NEW answer \in Allowed(request[r].kind), End(r, answer)
  PROVE  \A s \in Requests : Documented(s)
<1>1. request' = [request EXCEPT ![r] = Idle(answer)]
  BY DEF End
<1> QED BY <1>1, AnswerDocumented

(* A request that goes on, or only arrives now, is not answered.            *)
LEMMA NotAnswered ==
  ASSUME TypeOK, NEW r \in Requests, NEW v, request' = [request EXCEPT ![r] = v],
         v.at # "idle" \/ request[r].at = "idle"
  PROVE  \A s \in Requests : Documented(s)
<1>1. request'[r] = v /\ \A s \in Requests \ {r} : request'[s] = request[s]
  BY DEF TypeOK
<1> QED BY <1>1 DEF Documented

LEMMA GoesOn ==
  ASSUME TypeOK, NEW r \in Requests,
         NEW at \in {"member", "handle", "update", "remove", "admit", "mark"}, Goes(r, at)
  PROVE  \A s \in Requests : Documented(s)
BY GoesStep DEF Documented

LEMMA ArriveDocumented ==
  ASSUME TypeOK, NEW r \in Requests, Arrive(r)
  PROVE  \A s \in Requests : Documented(s)
<1>1. PICK v : request' = [request EXCEPT ![r] = v]
  BY DEF Arrive, DocumentExistsGuard, End
<1>2. request[r].at = "idle"
  BY DEF Arrive, DocumentExistsGuard
<1> QED BY <1>1, <1>2, NotAnswered

(* Every endpoint documents that it may be forbidden.                       *)
LEMMA ForbiddenDocumented == \A kind \in Kinds : 403 \in Endpoint[kind].answers
  BY DEF Kinds, Endpoint, getDocument, listMembers, claimShareLink, addMember, createLink,
     revokeLink, updateDocumentMemberRole, updateDocumentStatus, updateDocument,
     deleteMember, deleteDocument, chat, proposeChat, acceptProposal, declineProposal

LEMMA MembershipDocumented ==
  ASSUME TypeOK, NEW r \in Requests, DocumentMembershipGuard(r)
  PROVE  \A s \in Requests : Documented(s)
<1>1. CASE Goes(r, "handle")
  BY <1>1, GoesOn
<1>2. CASE End(r, 403)
  <2>1. request[r].kind \in Kinds
    BY DEF TypeOK, Request
  <2> QED BY <1>2, <2>1, ForbiddenDocumented, EndDocumented, AllowedFacts
<1> QED BY <1>1, <1>2 DEF DocumentMembershipGuard

LEMMA DocumentDocumented ==
  ASSUME TypeOK, NEW r \in Requests, HandleDocument(r)
  PROVE  \A s \in Requests : Documented(s)
<1>1. CASE ReadDocument(r)
  <2>1. request[r].kind \in {"getDocument", "listMembers"}
    BY <1>1 DEF ReadDocument, Handles
  <2>2. 200 \in Endpoint[request[r].kind].answers
    BY <2>1 DEF Endpoint, getDocument, listMembers
  <2> QED BY <1>1, <2>2, EndDocumented, AllowedFacts DEF ReadDocument
<1>2. CASE UpdateDocumentTitle(r)
  <2>1. 200 \in Endpoint[request[r].kind].answers
    BY <1>2 DEF UpdateDocumentTitle, Handles, Endpoint, updateDocument
  <2> QED BY <1>2, <2>1, EndDocumented, AllowedFacts DEF UpdateDocumentTitle
<1>3. CASE UpdateDocumentStatus(r)
  <2>1. 200 \in Endpoint[request[r].kind].answers
    BY <1>3 DEF UpdateDocumentStatus, Handles, Endpoint, updateDocumentStatus
  <2>2. 200 \in Allowed(request[r].kind)
    BY <2>1, AllowedFacts
  <2> QED BY <1>3, <2>2, AnswerDocumented DEF UpdateDocumentStatus
<1>4. CASE SoftDeleteDocument(r)
  <2>1. 204 \in Endpoint[request[r].kind].answers
    BY <1>4 DEF SoftDeleteDocument, Handles, Endpoint, deleteDocument
  <2>2. 204 \in Allowed(request[r].kind)
    BY <2>1, AllowedFacts
  <2> QED BY <1>4, <2>2, AnswerDocumented DEF SoftDeleteDocument
<1>5. CASE AskAi(r)
  <2>1. PICK answer \in AiAnswers[request[r].kind] : End(r, answer)
    BY <1>5 DEF AskAi
  <2>2. request[r].kind \in {"chat", "proposeChat", "acceptProposal", "declineProposal"}
    BY <1>5 DEF AskAi, AiAnswers
  <2>3. AiAnswers[request[r].kind] \subseteq Endpoint[request[r].kind].answers \cup {Rejected}
    BY <2>2 DEF AiAnswers, Endpoint, chat, proposeChat, acceptProposal, declineProposal
  <2>4. Rejected \in AiAnswers[request[r].kind] => request[r].kind \in {"chat", "acceptProposal"}
    BY <2>2 DEF AiAnswers, Rejected
  <2>5. answer \in Allowed(request[r].kind)
    BY <2>1, <2>3, <2>4, AllowedFacts
  <2> QED BY <2>1, <2>5, EndDocumented
<1>6. CASE RefuseBody(r)
  <2>1. \/ request[r].kind = "acceptProposal"
        \/ 400 \in Endpoint[request[r].kind].answers
    BY <1>6 DEF RefuseBody, WithBody, Endpoint, addMember, createLink, updateDocumentMemberRole,
       updateDocumentStatus, updateDocument, chat, proposeChat
  <2>2. 400 \in Allowed(request[r].kind)
    BY <2>1, AllowedFacts
  <2> QED BY <1>6, <2>2, EndDocumented DEF RefuseBody
<1>7. CASE RejectValue(r)
  <2>1. Rejected \in Allowed(request[r].kind)
    BY <1>7, AllowedFacts DEF RejectValue
  <2> QED BY <1>7, <2>1, EndDocumented DEF RejectValue
<1> QED BY <1>1, <1>2, <1>3, <1>4, <1>5, <1>6, <1>7 DEF HandleDocument

(* Where a row may be gone that a request has looked up, the code answers   *)
(* with a status its endpoint documents.                                    *)
LEMMA MemberDocumented ==
  ASSUME IInv, NEW r \in Requests, HandleMember(r)
  PROVE  \A s \in Requests : Documented(s)
<1>1. TypeOK
  BY DEF IInv
<1>2. ASSUME NEW target, NEW as, AddMember(r, target, as)
      PROVE  \A s \in Requests : Documented(s)
  <2>1. {201, 404, 409} \subseteq Endpoint[request[r].kind].answers
    BY <1>2 DEF AddMember, Handles, Endpoint, addMember
  <2>2. PICK answer \in {201, 404, 409} : End(r, answer)
    BY <1>2 DEF AddMember
  <2>3. answer \in Allowed(request[r].kind)
    BY <2>1, AllowedFacts
  <2> QED BY <1>1, <2>2, <2>3, EndDocumented
<1>3. ASSUME NEW kind \in {"updateDocumentMemberRole", "deleteMember"},
             NEW next \in {"update", "remove"}, NEW target, FindMember(r, kind, next, target)
      PROVE  \A s \in Requests : Documented(s)
  <2>1. {400, 404} \subseteq Endpoint[request[r].kind].answers
    BY <1>3 DEF FindMember, Handles, Endpoint, updateDocumentMemberRole, deleteMember
  <2>2. CASE \E answer \in {400, 404} : End(r, answer)
    <3>1. PICK answer \in {400, 404} : End(r, answer)
      BY <2>2
    <3>2. answer \in Allowed(request[r].kind)
      BY <2>1, AllowedFacts
    <3> QED BY <1>1, <3>1, <3>2, EndDocumented
  <2>3. CASE request' = [request EXCEPT ![r].at = next, ![r].target = target]
    <3> DEFINE v == [request[r] EXCEPT !.at = next, !.target = target]
    <3>1. v.at # "idle"
      BY <1>1 DEF TypeOK, Request
    <3>2. request' = [request EXCEPT ![r] = v]
      BY <1>1, <2>3 DEF TypeOK
    <3> HIDE DEF v
    <3> QED BY <1>1, <3>1, <3>2, NotAnswered
  <2> QED BY <1>3, <2>2, <2>3 DEF FindMember
<1>4. ASSUME NEW as, UpdateMemberRole(r, as)
      PROVE  \A s \in Requests : Documented(s)
  <2>1. request[r].kind = "updateDocumentMemberRole"
    BY <1>4 DEF UpdateMemberRole, IInv, ActsAsAuthor
  <2>2. {200, 404} \subseteq Endpoint[request[r].kind].answers
    BY <2>1 DEF Endpoint, updateDocumentMemberRole
  <2>3. End(r, 404) \/ \E answer \in {200, Failed} : End(r, answer)
    BY <1>4 DEF UpdateMemberRole
  <2>4. PICK answer \in {200, 404, Failed} : End(r, answer)
    BY <2>3
  <2>5. answer \in Allowed(request[r].kind)
    BY <2>2, AllowedFacts
  <2> QED BY <1>1, <2>4, <2>5, EndDocumented
<1>5. CASE RemoveMember(r)
  <2>1. request[r].kind = "deleteMember"
    BY <1>5 DEF RemoveMember, IInv, ActsAsAuthor
  <2>2. 204 \in Endpoint[request[r].kind].answers
    BY <2>1 DEF Endpoint, deleteMember
  <2> QED BY <1>1, <1>5, <2>2, EndDocumented, AllowedFacts DEF RemoveMember
<1> QED BY <1>2, <1>3, <1>4, <1>5 DEF HandleMember

LEMMA LinkDocumented ==
  ASSUME IInv, NEW r \in Requests, HandleLink(r)
  PROVE  \A s \in Requests : Documented(s)
<1>1. TypeOK
  BY DEF IInv
<1>2. ASSUME NEW l, NEW as, NEW single, CreateShareLink(r, l, as, single)
      PROVE  \A s \in Requests : Documented(s)
  <2>1. 201 \in Endpoint[request[r].kind].answers
    BY <1>2 DEF CreateShareLink, Handles, Endpoint, createLink
  <2> QED BY <1>1, <1>2, <2>1, EndDocumented, AllowedFacts DEF CreateShareLink
<1>3. ASSUME NEW l, RevokeShareLink(r, l)
      PROVE  \A s \in Requests : Documented(s)
  <2>1. {200, 400, 404} \subseteq Endpoint[request[r].kind].answers
    BY <1>3 DEF RevokeShareLink, Handles, Endpoint, revokeLink
  <2>2. PICK answer \in {200, 400, 404} : End(r, answer)
    BY <1>3 DEF RevokeShareLink
  <2>3. answer \in Allowed(request[r].kind)
    BY <2>1, AllowedFacts
  <2> QED BY <1>1, <2>2, <2>3, EndDocumented
<1>4. {200, 403, 404, 409} \subseteq claimShareLink.answers
  BY DEF claimShareLink
<1>5. ASSUME NEW l, FindAndValidateLink(r, l)
      PROVE  \A s \in Requests : Documented(s)
  <2>1. Endpoint[request[r].kind] = claimShareLink
    BY <1>5 DEF FindAndValidateLink, Handles, Endpoint
  <2>2. CASE \E answer \in {403, 404} : End(r, answer)
    <3>1. PICK answer \in {403, 404} : End(r, answer)
      BY <2>2
    <3>2. answer \in Allowed(request[r].kind)
      BY <1>4, <2>1, AllowedFacts
    <3> QED BY <1>1, <3>1, <3>2, EndDocumented
  <2>3. CASE request' = [request EXCEPT ![r].at = "admit", ![r].link = l]
    <3> DEFINE v == [request[r] EXCEPT !.at = "admit", !.link = l]
    <3>1. v.at # "idle"
      BY <1>1 DEF TypeOK, Request
    <3>2. request' = [request EXCEPT ![r] = v]
      BY <1>1, <2>3 DEF TypeOK
    <3> HIDE DEF v
    <3> QED BY <1>1, <3>1, <3>2, NotAnswered
  <2> QED BY <1>5, <2>2, <2>3 DEF FindAndValidateLink
<1>6. CASE AddMemberViaLink(r)
  <2>1. Endpoint[request[r].kind] = claimShareLink
    BY <1>6 DEF AddMemberViaLink, IInv, ClaimHeld, Endpoint
  <2>2. CASE Goes(r, "mark")
    BY <1>1, <2>2, GoesOn
  <2>3. CASE End(r, 409)
    <3>1. 409 \in Allowed(request[r].kind)
      BY <1>4, <2>1, AllowedFacts
    <3> QED BY <1>1, <2>3, <3>1, EndDocumented, AllowedFacts
  <2> QED BY <1>6, <2>2, <2>3 DEF AddMemberViaLink
<1>7. CASE MarkLinkAsClaimed(r)
  <2>1. Endpoint[request[r].kind] = claimShareLink
    BY <1>7 DEF MarkLinkAsClaimed, IInv, ClaimHeld, Endpoint
  <2>2. PICK answer \in {200, Failed} : End(r, answer)
    BY <1>7 DEF MarkLinkAsClaimed
  <2>3. answer \in Allowed(request[r].kind)
    BY <1>4, <2>1, AllowedFacts
  <2> QED BY <1>1, <2>2, <2>3, EndDocumented
<1> QED BY <1>2, <1>3, <1>5, <1>6, <1>7 DEF HandleLink

(* However requests overtake each other, each is answered with a status its *)
(* endpoint documents, or one of those that Undocumented lists, which no    *)
(* overtaking brings about.                                                 *)
THEOREM AnswersDocumented == Spec => AnsweredAsDocumented
<1>1. ASSUME IInv, Next
      PROVE  \A r \in Requests : Documented(r)
  <2>1. TypeOK
    BY <1>1 DEF IInv
  <2>2. CASE request' = request
    BY <2>2 DEF Documented
  <2>3. ASSUME NEW r \in Requests, Fail(r)
        PROVE  \A s \in Requests : Documented(s)
    BY <2>1, <2>3, EndDocumented, AllowedFacts DEF Fail
  <2> QED BY <1>1, <2>1, <2>2, <2>3, ArriveDocumented, MembershipDocumented,
             DocumentDocumented, MemberDocumented, LinkDocumented
          DEF Next, CreateDocument, ExpireLink
<1>2. IInv /\ [Next]_vars =>
        [\A r \in Requests :
           request[r].at # "idle" /\ request'[r].at = "idle" =>
             request'[r].answer \in
               Endpoint[request[r].kind].answers \cup Undocumented(request[r].kind)]_vars
  BY <1>1 DEF Documented, Allowed
<1> QED BY <1>2, Inductive, PTL DEF Spec, AnsweredAsDocumented

=============================================================================
