-------------------------------- MODULE Access --------------------------------
(***************************************************************************)
(* One document, its members and its share links, under concurrent HTTP     *)
(* requests.  A request runs its guards and then its handler, and gives way *)
(* to the others at every await between two statements: what a guard found  *)
(* may be out of date when the handler acts on it.  A row of share_links    *)
(* that a claim has selected FOR UPDATE stays locked until its transaction  *)
(* ends; an insert waits for an uncommitted insert of the same membership.  *)
(*                                                                         *)
(* JwtAuthGuard (module Sessions) has let the user in.  What the AI service *)
(* does is in module Proposals: here its endpoints are their guards and the *)
(* answers that the service's errors are turned into.                       *)
(***************************************************************************)
EXTENDS Naturals, FiniteSets

CONSTANTS
  Users,      \* accounts
  Links,      \* tokens of share links
  Requests,   \* concurrent requests
  Served      \* endpoints that are called; an instance may do without those
              \* that differ from another in nothing that is kept here

NoUser == "nobody"
NoLink == "nothing"

ASSUME UsersAssumption == NoUser \notin Users
ASSUME LinksAssumption == NoLink \notin Links

MemberRoles == {"editor", "viewer"}
Roles == MemberRoles \cup {"author"}
NotMember == "none"

VARIABLES
  status,     \* of the document; "none" before it is created
  role,       \* role[u]: the committed membership of u
  link,       \* link[l]: the row of token l
  admitted,   \* admitted[l]: users whose claim of l has committed
  request,    \* request[r]: progress of request r
  overtaken   \* requests past DocumentExistsGuard when the document was deleted

vars == <<status, role, link, admitted, request, overtaken>>

Statuses == {"none", "draft", "active", "inactive", "deleted"}

(* A link is live until it expires or is revoked.                           *)
Link == [state : {"none", "live", "expired", "revoked"}, role : MemberRoles,
         single : BOOLEAN, claimedBy : Users \cup {NoUser}]

-----------------------------------------------------------------------------

(* The endpoints: the memberships their guards let through, and the answers *)
(* they document (all of them 401 as well, which JwtAuthGuard gives).       *)
Anyone == Roles \cup {NotMember}

getDocument == [access |-> Roles, answers |-> {200, 403, 404}]
listMembers == [access |-> Roles, answers |-> {200, 403, 404}]
claimShareLink == [access |-> Anyone, answers |-> {200, 403, 404, 409}]
addMember == [access |-> {"author"}, answers |-> {201, 400, 403, 404, 409}]
createLink == [access |-> {"author"}, answers |-> {201, 400, 403, 404}]
revokeLink == [access |-> {"author"}, answers |-> {200, 400, 403, 404}]
updateDocumentMemberRole == [access |-> {"author"}, answers |-> {200, 400, 403, 404}]
updateDocumentStatus == [access |-> {"author"}, answers |-> {200, 400, 403, 404}]
updateDocument == [access |-> {"author", "editor"}, answers |-> {200, 400, 403, 404}]
deleteMember == [access |-> {"author"}, answers |-> {204, 400, 403, 404}]
deleteDocument == [access |-> {"author"}, answers |-> {204, 403, 404}]
chat == [access |-> {"author"}, answers |-> {200, 400, 403, 404, 409, 422}]
proposeChat == [access |-> {"author"}, answers |-> {200, 400, 403, 404, 409, 422}]
acceptProposal == [access |-> {"author"}, answers |-> {200, 403, 409, 410}]
declineProposal == [access |-> {"author"}, answers |-> {204, 403}]

Endpoint ==
  [getDocument |-> getDocument, listMembers |-> listMembers,
   claimShareLink |-> claimShareLink, addMember |-> addMember,
   createLink |-> createLink, revokeLink |-> revokeLink,
   updateDocumentMemberRole |-> updateDocumentMemberRole,
   updateDocumentStatus |-> updateDocumentStatus, updateDocument |-> updateDocument,
   deleteMember |-> deleteMember, deleteDocument |-> deleteDocument,
   chat |-> chat, proposeChat |-> proposeChat,
   acceptProposal |-> acceptProposal, declineProposal |-> declineProposal]

Kinds == DOMAIN Endpoint

ASSUME ServedAssumption == Served \subseteq Kinds

Nothing == 0    \* no answer yet
Failed == 1     \* a 500 because a call failed, not because the code broke
Rejected == 2   \* a 500 although no call was lost: Postgres refused a value of
                \* the request, or an operation of the AI has no effect

(* The endpoints whose body the ValidationPipe checks, after the guards.    *)
WithBody == {"addMember", "createLink", "updateDocumentMemberRole", "updateDocumentStatus",
             "updateDocument", "chat", "proposeChat", "acceptProposal"}

(* The endpoints that hand Postgres a token, a user id or a title unchecked:*)
(* an id that is no uuid, a title that is null or holds a zero character.   *)
Unchecked == {"claimShareLink", "revokeLink", "updateDocumentMemberRole", "deleteMember",
              "updateDocument"}

Idle(answer) == [at |-> "idle", kind |-> "getDocument", user |-> NoUser,
                 target |-> NoUser, link |-> NoLink, answer |-> answer]

Init ==
  /\ status = "none"
  /\ role = [u \in Users |-> NotMember]
  /\ link = [l \in Links |-> [state |-> "none", role |-> "viewer", single |-> FALSE,
                              claimedBy |-> NoUser]]
  /\ admitted = [l \in Links |-> {}]
  /\ request = [r \in Requests |-> Idle(Nothing)]
  /\ overtaken = {}

End(r, answer) ==
  /\ request' = [request EXCEPT ![r] = Idle(answer)]
  /\ overtaken' = overtaken \ {r}

Goes(r, at) == request' = [request EXCEPT ![r].at = at] /\ UNCHANGED overtaken

Handles(r, kind) == request[r].at = "handle" /\ request[r].kind = kind

(* Fault to be caught: the SELECT of a claim takes no lock.                 *)
NeverLocked(l) == FALSE

(* Rows of share_links are locked by claims, from their first statement on. *)
Locked(l) == \E r \in Requests : request[r].at \in {"admit", "mark"} /\ request[r].link = l

(* A claim has inserted a membership of u and not committed yet.            *)
Inserting(u) == \E r \in Requests : request[r].at = "mark" /\ request[r].user = u

-----------------------------------------------------------------------------

(* The document and the membership of its author are one transaction.       *)
CreateDocument(u) ==
  /\ status = "none"
  /\ status' = "draft"
  /\ role' = [role EXCEPT ![u] = "author"]
  /\ UNCHANGED <<link, admitted, request, overtaken>>

(* Fault to be caught: the guard looks for the row only.                    *)
DocumentExistsAtAll(r, u, kind) ==
  /\ request[r].at = "idle"
  /\ IF status = "none"
       THEN End(r, 404)
       ELSE /\ request' = [request EXCEPT ![r] = [Idle(Nothing) EXCEPT
                 !.at = IF kind = "claimShareLink" THEN "handle" ELSE "member",
                 !.kind = kind, !.user = u]]
            /\ UNCHANGED overtaken
  /\ UNCHANGED <<status, role, link, admitted>>

(* A request arrives and DocumentExistsGuard reads the document.  A claim   *)
(* has no other guard.                                                      *)
DocumentExistsGuard(r, u, kind) ==
  /\ request[r].at = "idle"
  /\ IF status \in {"none", "deleted"}
       THEN End(r, 404)
       ELSE /\ request' = [request EXCEPT ![r] = [Idle(Nothing) EXCEPT
                 !.at = IF kind = "claimShareLink" THEN "handle" ELSE "member",
                 !.kind = kind, !.user = u]]
            /\ UNCHANGED overtaken
  /\ UNCHANGED <<status, role, link, admitted>>

(* DocumentMembershipGuard reads the membership; the guard of the role      *)
(* decides on what it found, without a further read.                        *)
DocumentMembershipGuard(r) ==
  /\ request[r].at = "member"
  /\ IF role[request[r].user] \in Endpoint[request[r].kind].access
       THEN Goes(r, "handle")
       ELSE End(r, 403)
  /\ UNCHANGED <<status, role, link, admitted>>

-----------------------------------------------------------------------------

(* A member reads the document or its members.                              *)
ReadDocument(r) ==
  /\ Handles(r, "getDocument") \/ Handles(r, "listMembers")
  /\ End(r, 200)
  /\ UNCHANGED <<status, role, link, admitted>>

(* The title, which is not kept here, is updated whatever the status.       *)
UpdateDocumentTitle(r) ==
  /\ Handles(r, "updateDocument")
  /\ End(r, 200)
  /\ UNCHANGED <<status, role, link, admitted>>

(* The ValidationPipe refuses the body.                                     *)
RefuseBody(r) ==
  /\ request[r].at = "handle"
  /\ request[r].kind \in WithBody
  /\ End(r, 400)
  /\ UNCHANGED <<status, role, link, admitted>>

(* The statement the value is first used in fails; the filter maps no error *)
(* of that class.                                                           *)
RejectValue(r) ==
  /\ request[r].at = "handle"
  /\ request[r].kind \in Unchecked
  /\ End(r, Rejected)
  /\ UNCHANGED <<status, role, link, admitted>>

(* How the errors of the AI service are answered: what it writes for an     *)
(* operation without effect cannot be classified, which is none of them.    *)
AiAnswers ==
  [chat |-> {200, 400, 409, 422, Rejected}, proposeChat |-> {200, 400, 409, 422},
   acceptProposal |-> {200, 409, 410, Rejected}, declineProposal |-> {204}]
AskAi(r) ==
  /\ request[r].at = "handle"
  /\ request[r].kind \in DOMAIN AiAnswers
  /\ \E answer \in AiAnswers[request[r].kind] : End(r, answer)
  /\ UNCHANGED <<status, role, link, admitted>>

(* The body may only ask for active or inactive.                            *)
UpdateDocumentStatus(r) ==
  /\ Handles(r, "updateDocumentStatus")
  /\ status' \in {"active", "inactive"}
  /\ request' = [request EXCEPT ![r] = Idle(200)]
  /\ overtaken' = {}
  /\ UNCHANGED <<role, link, admitted>>

(* Whoever is past the guards by now goes on all the same.                  *)
SoftDeleteDocument(r) ==
  /\ Handles(r, "deleteDocument")
  /\ status' = "deleted"
  /\ request' = [request EXCEPT ![r] = Idle(204)]
  /\ overtaken' = {s \in Requests \ {r} : request[s].at # "idle"}
  /\ UNCHANGED <<role, link, admitted>>

-----------------------------------------------------------------------------

(* The invited account is read by its email and inserted, unless it is a    *)
(* member already.                                                          *)
AddMember(r, target, as) ==
  /\ Handles(r, "addMember")
  /\ ~Inserting(target)
  /\ IF target = NoUser THEN End(r, 404) /\ UNCHANGED role
     ELSE IF role[target] # NotMember THEN End(r, 409) /\ UNCHANGED role
     ELSE End(r, 201) /\ role' = [role EXCEPT ![target] = as]
  /\ UNCHANGED <<status, link, admitted>>

(* Fault to be caught: the author may be the target.                        *)
FindAnyMember(r, kind, next, target) ==
  /\ Handles(r, kind)
  /\ IF role[target] = NotMember THEN End(r, 404)
     ELSE /\ request' = [request EXCEPT ![r].at = next, ![r].target = target]
          /\ UNCHANGED overtaken
  /\ UNCHANGED <<status, role, link, admitted>>

(* updateDocumentMemberRole and removeDocumentMember first refuse the       *)
(* caller as target and look the member up.                                 *)
FindMember(r, kind, next, target) ==
  /\ Handles(r, kind)
  /\ IF target = request[r].user THEN End(r, 400)
     ELSE IF role[target] = NotMember THEN End(r, 404)
     ELSE /\ request' = [request EXCEPT ![r].at = next, ![r].target = target]
          /\ UNCHANGED overtaken
  /\ UNCHANGED <<status, role, link, admitted>>

(* Fault to be caught: the row that UPDATE did not find is read from.       *)
UpdateFoundRole(r, as) ==
  /\ request[r].at = "update"
  /\ IF role[request[r].target] = NotMember
       THEN End(r, 500) /\ UNCHANGED role
       ELSE End(r, 200) /\ role' = [role EXCEPT ![request[r].target] = as]
  /\ UNCHANGED <<status, link, admitted>>

(* The member may be gone by now; the name is read after the update.        *)
UpdateMemberRole(r, as) ==
  /\ request[r].at = "update"
  /\ IF role[request[r].target] = NotMember
       THEN End(r, 404) /\ UNCHANGED role
       ELSE /\ \E answer \in {200, Failed} : End(r, answer)
            /\ role' = [role EXCEPT ![request[r].target] = as]
  /\ UNCHANGED <<status, link, admitted>>

RemoveMember(r) ==
  /\ request[r].at = "remove"
  /\ role' = [role EXCEPT ![request[r].target] = NotMember]
  /\ End(r, 204)
  /\ UNCHANGED <<status, link, admitted>>

-----------------------------------------------------------------------------

(* Fault to be caught: the role of the body is not checked.                 *)
CreateLinkOfAnyRole(r, l, as, single) ==
  /\ Handles(r, "createLink")
  /\ link[l].state = "none"
  /\ link' = [link EXCEPT ![l] = [state |-> "live", single |-> single, claimedBy |-> NoUser,
                                  role |-> IF single THEN "author" ELSE as]]
  /\ End(r, 201)
  /\ UNCHANGED <<status, role, admitted>>

CreateShareLink(r, l, as, single) ==
  /\ Handles(r, "createLink")
  /\ link[l].state = "none"
  /\ link' = [link EXCEPT ![l] = [state |-> "live", role |-> as, single |-> single,
                                  claimedBy |-> NoUser]]
  /\ End(r, 201)
  /\ UNCHANGED <<status, role, admitted>>

(* The UPDATE waits for a claim that has locked the row.  Whether a link it *)
(* did not change is missing or revoked never changes before the read that  *)
(* tells them apart: a token is known once its row exists.                  *)
RevokeShareLink(r, l) ==
  /\ Handles(r, "revokeLink")
  /\ ~Locked(l)
  /\ CASE link[l].state = "none" -> End(r, 404) /\ UNCHANGED link
       [] link[l].state = "revoked" -> End(r, 400) /\ UNCHANGED link
       [] OTHER -> End(r, 200) /\ link' = [link EXCEPT ![l].state = "revoked"]
  /\ UNCHANGED <<status, role, admitted>>

(* Time passes; what expires after it was revoked makes no difference.      *)
ExpireLink(l) ==
  /\ link[l].state = "live"
  /\ link' = [link EXCEPT ![l].state = "expired"]
  /\ UNCHANGED <<status, role, admitted, request, overtaken>>

(* The first statement of a claim's transaction locks the row and decides   *)
(* on what it finds there.                                                  *)
FindAndValidateLink(r, l) ==
  /\ Handles(r, "claimShareLink")
  /\ ~Locked(l)
  /\ IF link[l].state = "none" THEN End(r, 404)
     ELSE IF link[l].state # "live" \/ (link[l].single /\ link[l].claimedBy # NoUser)
       THEN End(r, 403)
     ELSE /\ request' = [request EXCEPT ![r].at = "admit", ![r].link = l]
          /\ UNCHANGED overtaken
  /\ UNCHANGED <<status, role, link, admitted>>

(* The membership is inserted, or the conflict rolls the claim back.        *)
AddMemberViaLink(r) ==
  /\ request[r].at = "admit"
  /\ ~Inserting(request[r].user)
  /\ IF role[request[r].user] = NotMember THEN Goes(r, "mark") ELSE End(r, 409)
  /\ UNCHANGED <<status, role, link, admitted>>

(* A single-use link is marked and the transaction commits; the document is *)
(* read after it.                                                           *)
MarkLinkAsClaimed(r) ==
  LET l == request[r].link
      u == request[r].user
  IN /\ request[r].at = "mark"
     /\ role' = [role EXCEPT ![u] = link[l].role]
     /\ link' = IF link[l].single THEN [link EXCEPT ![l].claimedBy = u] ELSE link
     /\ admitted' = [admitted EXCEPT ![l] = @ \cup {u}]
     /\ \E answer \in {200, Failed} : End(r, answer)
     /\ UNCHANGED status

(* A call fails or the process dies; an open transaction is rolled back.    *)
Fail(r) ==
  /\ request[r].at # "idle"
  /\ End(r, Failed)
  /\ UNCHANGED <<status, role, link, admitted>>

-----------------------------------------------------------------------------

Arrive(r) == \E u \in Users, kind \in Served : DocumentExistsGuard(r, u, kind)

HandleDocument(r) ==
  \/ ReadDocument(r) \/ UpdateDocumentTitle(r) \/ UpdateDocumentStatus(r)
  \/ SoftDeleteDocument(r) \/ AskAi(r) \/ RefuseBody(r) \/ RejectValue(r)

HandleMember(r) ==
  \/ \E target \in Users \cup {NoUser}, as \in MemberRoles : AddMember(r, target, as)
  \/ \E target \in Users :
       \/ FindMember(r, "updateDocumentMemberRole", "update", target)
       \/ FindMember(r, "deleteMember", "remove", target)
  \/ \E as \in MemberRoles : UpdateMemberRole(r, as)
  \/ RemoveMember(r)

HandleLink(r) ==
  \/ \E l \in Links :
       \/ \E as \in MemberRoles, single \in BOOLEAN : CreateShareLink(r, l, as, single)
       \/ RevokeShareLink(r, l) \/ FindAndValidateLink(r, l)
  \/ AddMemberViaLink(r) \/ MarkLinkAsClaimed(r)

Next ==
  \/ \E u \in Users : CreateDocument(u)
  \/ \E l \in Links : ExpireLink(l)
  \/ \E r \in Requests :
       \/ Arrive(r) \/ DocumentMembershipGuard(r)
       \/ HandleDocument(r) \/ HandleMember(r) \/ HandleLink(r) \/ Fail(r)

Spec == Init /\ [][Next]_vars

-----------------------------------------------------------------------------

Answers == {Nothing, Failed, Rejected, 200, 201, 204, 400, 403, 404, 409, 410, 422}

Request ==
  [at : {"idle", "member", "handle", "update", "remove", "admit", "mark"},
   kind : Kinds, user : Users \cup {NoUser}, target : Users \cup {NoUser},
   link : Links \cup {NoLink}, answer : Answers]

TypeOK ==
  /\ status \in Statuses
  /\ role \in [Users -> Roles \cup {NotMember}]
  /\ link \in [Links -> Link]
  /\ admitted \in [Links -> SUBSET Users]
  /\ request \in [Requests -> Request]
  /\ overtaken \subseteq Requests

(* documents.service.ts: "two simultaneous claims of the same single-use    *)
(* link serialize and the loser is rejected".  A single-use link has        *)
(* admitted the one user it is marked as claimed by, or nobody: no claim    *)
(* slips through, and none that was rolled back uses the link up.           *)
SingleUse ==
  \A l \in Links : link[l].single =>
    admitted[l] = IF link[l].claimedBy = NoUser THEN {} ELSE {link[l].claimedBy}

(* "Revokes a share link so it can no longer be used to join": not even by  *)
(* a claim that found it live before it was revoked.                        *)
RevokedAdmitsNobody ==
  [][\A l \in Links : link[l].state = "revoked" => admitted'[l] = admitted[l]]_vars

(* The document has one author from its creation on, whatever the author's  *)
(* own requests are overtaken by: nobody can remove or demote the author or *)
(* join as one.                                                             *)
AuthorRemains ==
  status # "none" => \E a \in Users : \A u \in Users : role[u] = "author" <=> u = a

(* A deleted document is changed only by requests that had passed           *)
(* DocumentExistsGuard before it was deleted (one that updates the status   *)
(* brings it back); everybody else finds it closed.                         *)
DeletedIsClosed ==
  [][status = "deleted" /\ <<status, role, link>>' # <<status, role, link>> =>
       \/ \E l \in Links : ExpireLink(l)
       \/ \E r \in overtaken : request'[r] # request[r]]_vars

(* Who acts as the author is the author still, and not the target.          *)
ActsAsAuthor ==
  \A r \in Requests :
    /\ Handles(r, "updateDocumentMemberRole") \/ Handles(r, "deleteMember") =>
         role[request[r].user] = "author"
    /\ request[r].at = "update" => request[r].kind = "updateDocumentMemberRole"
    /\ request[r].at = "remove" => request[r].kind = "deleteMember"
    /\ request[r].at \in {"update", "remove"} =>
         /\ role[request[r].user] = "author"
         /\ request[r].target \in Users \ {request[r].user}

(* A claim under way holds the row of its link alone, which is as it was    *)
(* validated; at its last statement its user is not a member, and nobody    *)
(* else is about to make one of the user.                                   *)
ClaimHeld ==
  \A r \in Requests :
    /\ request[r].at \in {"admit", "mark"} =>
         /\ request[r].kind = "claimShareLink"
         /\ request[r].link \in Links
         /\ link[request[r].link].state \in {"live", "expired"}
         /\ link[request[r].link].single => link[request[r].link].claimedBy = NoUser
         /\ \A s \in Requests : s # r /\ request[s].at \in {"admit", "mark"} =>
              request[s].link # request[r].link
    /\ request[r].at = "mark" =>
         /\ role[request[r].user] = NotMember
         /\ \A s \in Requests : s # r /\ request[s].at = "mark" =>
              request[s].user # request[r].user

(* Requests are under way at a document that exists, and at a deleted one   *)
(* only if they were overtaken.                                             *)
UnderWay ==
  /\ \A r \in Requests : request[r].at # "idle" =>
       /\ request[r].user \in Users
       /\ status # "none"
       /\ status = "deleted" => r \in overtaken
  /\ status = "none" => \A u \in Users : role[u] = NotMember
  /\ \A l \in Links : link[l].state = "none" => admitted[l] = {}

(* The conjunction that is preserved by every step.                         *)
IInv == TypeOK /\ SingleUse /\ AuthorRemains /\ ActsAsAuthor /\ ClaimHeld /\ UnderWay

(* What an endpoint may answer besides: a lost call and a rejected value    *)
(* are a 500, and acceptProposal leaves the 400 of its body out.            *)
Undocumented(kind) ==
  {Failed} \cup {answer \in {Rejected} : kind \in Unchecked \cup {"chat", "acceptProposal"}}
           \cup {answer \in {400} : kind = "acceptProposal"}

(* Requests overtake each other between any two statements, and what a      *)
(* guard found may be gone: that alone never makes a request past           *)
(* DocumentExistsGuard fail.  It is answered with a status its endpoint     *)
(* documents, or with one of the few above, which do not come of it.        *)
AnsweredAsDocumented ==
  [][\A r \in Requests :
       request[r].at # "idle" /\ request'[r].at = "idle" =>
         request'[r].answer \in
           Endpoint[request[r].kind].answers \cup Undocumented(request[r].kind)]_vars

=============================================================================
