------------------------------- MODULE Accounts -------------------------------
(***************************************************************************)
(* The account of one email address: signing up, proving the address with a *)
(* mailed code, logging in, and resetting the password with a mailed token. *)
(* Requests give way at every await between two statements.  The mails are  *)
(* sent without waiting for them: a code or token that was stored may or    *)
(* may not reach its reader.                                                *)
(***************************************************************************)
EXTENDS Naturals, FiniteSets

CONSTANTS
  Codes,        \* verification tokens to be generated
  ResetTokens,  \* password reset tokens to be generated
  Requests      \* concurrent requests

NoCode == "no code"
ASSUME CodesAssumption == NoCode \notin Codes \cup ResetTokens
ASSUME SecretsAssumption == Codes \cap ResetTokens = {}
ASSUME RequestsAssumption == IsFiniteSet(Requests)

VARIABLES
  account,   \* the row of users; exists is FALSE while there is none
  stored,    \* codes and reset tokens stored so far
  consumed,  \* reset tokens with consumedAt
  revoked,   \* reset tokens with revokedAt
  lapsed,    \* codes and reset tokens whose expiresAt has come
  request    \* request[r]: progress of request r

vars == <<account, stored, consumed, revoked, lapsed, request>>

Account == [exists : BOOLEAN, verified : BOOLEAN, code : Codes \cup {NoCode}]

Nothing == 0
Done == 2      \* a status 2xx
Failed == 1    \* a 500 because a call failed, not because the code broke
Rejected == 3  \* a 500 because Postgres takes no zero character in a name
Lost == 4      \* a 500 because the address was taken after it was looked up

(* The endpoints and the answers they document, with one correction: that   *)
(* of verifyEmail does not mention the 404 of an unknown address.           *)
signup == {Done, 400, 409}
verifyEmail == {Done, 400, 401, 404}
resendVerificationEmail == {Done, 400, 429}
login == {Done, 400, 401, 403, 429}
forgotPassword == {Done, 400, 429}
resetPassword == {Done, 400, 429}

Answers == [signup |-> signup, verifyEmail |-> verifyEmail,
            resendVerificationEmail |-> resendVerificationEmail, login |-> login,
            forgotPassword |-> forgotPassword, resetPassword |-> resetPassword]

Kinds == DOMAIN Answers

(* secret is the reset token in the body, dead tells whether it was used,   *)
(* revoked or expired when the request arrived.                             *)
Idle(kind, answer) == [at |-> "idle", kind |-> kind, secret |-> NoCode,
                       dead |-> FALSE, answer |-> answer]

Init ==
  /\ account = [exists |-> FALSE, verified |-> FALSE, code |-> NoCode]
  /\ stored = {} /\ consumed = {} /\ revoked = {} /\ lapsed = {}
  /\ request = [r \in Requests |-> Idle("signup", Nothing)]

End(r, answer) ==
  request' = [request EXCEPT ![r] = Idle(request[r].kind, answer)]

(* A statement that takes effect; its answer may be lost.                   *)
EndWith(r, answer) == \E a \in {answer, Failed} : End(r, a)

Goes(r, at) == request' = [request EXCEPT ![r].at = at]

Arrives(r, kind, at, secret, dead) ==
  /\ request[r].at = "idle"
  /\ request' = [request EXCEPT ![r] =
       [at |-> at, kind |-> kind, secret |-> secret, dead |-> dead, answer |-> Nothing]]

Refused(r, kind, answer) ==
  /\ request[r].at = "idle"
  /\ request' = [request EXCEPT ![r] = Idle(kind, answer)]

Unused(c) == c \notin stored

(* A verification code is the one of the account and has not expired.       *)
LiveCode(c) == c = account.code /\ c \notin lapsed

ActiveTokens == (stored \cap ResetTokens) \ (consumed \cup revoked \cup lapsed)

rows == <<account, stored, consumed, revoked, lapsed>>

-----------------------------------------------------------------------------

Signup(r) ==
  /\ IF account.exists THEN Refused(r, "signup", 409)
     ELSE Arrives(r, "signup", "insert", NoCode, FALSE)
  /\ UNCHANGED rows

(* isUniqueEmailViolation looks for the code of Postgres in the error that  *)
(* it is given, but the query builder has wrapped that error and kept it as *)
(* the cause: the conflict is not recognised, and the registration failed.  *)
UniqueEmailViolation(r) == End(r, Lost)

(* The email may have been inserted since it was looked up.                 *)
InsertUser(r, c) ==
  /\ request[r].at = "insert"
  /\ Unused(c)
  /\ IF account.exists
       THEN UniqueEmailViolation(r) /\ UNCHANGED <<account, stored>>
       ELSE /\ EndWith(r, Done)
            /\ account' = [exists |-> TRUE, verified |-> FALSE, code |-> c]
            /\ stored' = stored \cup {c}
  /\ UNCHANGED <<consumed, revoked, lapsed>>

(* The names are not looked at before they are inserted.                    *)
RejectName(r) ==
  /\ request[r].at = "insert"
  /\ End(r, Rejected)
  /\ UNCHANGED rows

(* An account verified before is told so whatever code is sent.             *)
VerifyEmail(r, c) ==
  /\ IF ~account.exists THEN Refused(r, "verifyEmail", 404)
     ELSE IF account.verified THEN Refused(r, "verifyEmail", Done)
     ELSE IF LiveCode(c)
            THEN Arrives(r, "verifyEmail", "verify", NoCode, FALSE)
            ELSE Refused(r, "verifyEmail", 400)
  /\ UNCHANGED rows

(* By id, whatever has happened to the code meanwhile.                      *)
MarkVerified(r) ==
  /\ request[r].at = "verify"
  /\ EndWith(r, Done)
  /\ account' = [account EXCEPT !.verified = TRUE, !.code = NoCode]
  /\ UNCHANGED <<stored, consumed, revoked, lapsed>>

-----------------------------------------------------------------------------

(* Fault to be caught: the account is not looked up.                        *)
ResendToAnyone(r) ==
  /\ IF ~account.verified
       THEN Arrives(r, "resendVerificationEmail", "newCode", NoCode, FALSE)
       ELSE Refused(r, "resendVerificationEmail", Done)
  /\ UNCHANGED rows

(* Nobody learns whether the account exists or is verified.                 *)
ResendVerificationEmail(r) ==
  /\ IF account.exists /\ ~account.verified
       THEN Arrives(r, "resendVerificationEmail", "newCode", NoCode, FALSE)
       ELSE Refused(r, "resendVerificationEmail", Done)
  /\ UNCHANGED rows

(* By email, whether or not the account was verified meanwhile.             *)
StoreNewCode(r, c) ==
  /\ request[r].at = "newCode"
  /\ Unused(c)
  /\ EndWith(r, IF request[r].kind = "login" THEN 403 ELSE Done)
  /\ account' = [account EXCEPT !.code = c]
  /\ stored' = stored \cup {c}
  /\ UNCHANGED <<consumed, revoked, lapsed>>

(* An unverified account whose code is no good any more gets a new one: the *)
(* login calls resendVerificationEmail, which reads the account again.      *)
Login(r, rightPassword) ==
  /\ IF ~account.exists \/ ~rightPassword THEN Refused(r, "login", 401)
     ELSE IF account.verified THEN Refused(r, "login", Done)
     ELSE IF LiveCode(account.code) THEN Refused(r, "login", 403)
     ELSE Arrives(r, "login", "resend", NoCode, FALSE)
  /\ UNCHANGED rows

(* Fault to be caught: an account that was verified meanwhile is refused.   *)
RefuseDuringLogin(r) ==
  /\ request[r].at = "resend"
  /\ IF account.verified THEN End(r, 409) ELSE Goes(r, "newCode")
  /\ UNCHANGED rows

ResendDuringLogin(r) ==
  /\ request[r].at = "resend"
  /\ IF account.verified THEN End(r, 403) ELSE Goes(r, "newCode")
  /\ UNCHANGED rows

-----------------------------------------------------------------------------

ForgotPassword(r) ==
  /\ IF account.verified THEN Arrives(r, "forgotPassword", "revoke", NoCode, FALSE)
     ELSE Refused(r, "forgotPassword", Done)
  /\ UNCHANGED rows

(* Fault to be caught: a new token does not replace the earlier ones.       *)
RevokeNoTokens(r) ==
  /\ request[r].at = "revoke"
  /\ Goes(r, "create")
  /\ UNCHANGED rows

RevokeActiveTokensForUser(r) ==
  /\ request[r].at = "revoke"
  /\ Goes(r, "create")
  /\ revoked' = revoked \cup ActiveTokens
  /\ UNCHANGED <<account, stored, consumed, lapsed>>

CreateToken(r, t) ==
  /\ request[r].at = "create"
  /\ Unused(t)
  /\ EndWith(r, Done)
  /\ stored' = stored \cup {t}
  /\ UNCHANGED <<account, consumed, revoked, lapsed>>

(* The account is read first, its active tokens next.                       *)
ResetPassword(r, t) ==
  /\ IF account.exists
       THEN Arrives(r, "resetPassword", "match", t, t \in consumed \cup revoked \cup lapsed)
       ELSE Refused(r, "resetPassword", 400)
  /\ UNCHANGED rows

(* Fault to be caught: the SELECT asks for nothing but the account.         *)
GetAllTokensByUserId(r) ==
  /\ request[r].at = "match"
  /\ IF request[r].secret \in stored THEN Goes(r, "reset") ELSE End(r, 400)
  /\ UNCHANGED rows

GetActiveTokensByUserId(r) ==
  /\ request[r].at = "match"
  /\ IF request[r].secret \in ActiveTokens THEN Goes(r, "reset") ELSE End(r, 400)
  /\ UNCHANGED rows

(* One transaction: the password, the token by its id, the other tokens.    *)
(* The row of the account keeps two of them apart.                          *)
SetPassword(r) ==
  /\ request[r].at = "reset"
  /\ EndWith(r, Done)
  /\ consumed' = consumed \cup {request[r].secret}
  /\ revoked' = revoked \cup (ActiveTokens \ {request[r].secret})
  /\ UNCHANGED <<account, stored, lapsed>>

-----------------------------------------------------------------------------

(* The time of a code or token is over.                                     *)
Lapse(c) ==
  /\ c \in stored \ lapsed
  /\ lapsed' = lapsed \cup {c}
  /\ UNCHANGED <<account, stored, consumed, revoked, request>>

(* A statement fails without effect.                                        *)
Fail(r) ==
  /\ request[r].at # "idle"
  /\ End(r, Failed)
  /\ UNCHANGED rows

(* The steps that make or unmake an account, and those that reset its       *)
(* password.                                                                *)
Enrol(r) ==
  \/ Signup(r) \/ RejectName(r)
  \/ \E c \in Codes : InsertUser(r, c) \/ VerifyEmail(r, c) \/ StoreNewCode(r, c)
  \/ MarkVerified(r)
  \/ ResendVerificationEmail(r)
  \/ \E rightPassword \in BOOLEAN : Login(r, rightPassword)
  \/ ResendDuringLogin(r)

Reset(r) ==
  \/ ForgotPassword(r)
  \/ RevokeActiveTokensForUser(r)
  \/ \E t \in ResetTokens : CreateToken(r, t) \/ ResetPassword(r, t)
  \/ GetActiveTokensByUserId(r)
  \/ SetPassword(r)

Next ==
  \/ \E r \in Requests : Enrol(r) \/ Reset(r) \/ Fail(r)
  \/ \E c \in Codes \cup ResetTokens : Lapse(c)

Spec == Init /\ [][Next]_vars

-----------------------------------------------------------------------------

TypeOK ==
  /\ account \in Account
  /\ account.code # NoCode \/ account.verified => account.exists
  /\ stored \subseteq Codes \cup ResetTokens
  /\ consumed \subseteq stored \cap ResetTokens
  /\ revoked \subseteq stored \cap ResetTokens
  /\ lapsed \subseteq stored
  /\ request \in [Requests ->
       [at : {"idle", "insert", "verify", "newCode", "resend", "revoke", "create",
              "match", "reset"},
        kind : Kinds, secret : Codes \cup ResetTokens \cup {NoCode}, dead : BOOLEAN,
        answer : {Nothing, Done, Failed, Rejected, Lost} \cup UNION {Answers[k] : k \in Kinds}]]

(* A request whose reset token was used, revoked or expired before it       *)
(* arrived never gets as far as the UPDATE: it sets no password, whatever   *)
(* runs between its reads.  (A token that dies later, between the list of   *)
(* active tokens and the transaction, is accepted all the same.)            *)
DeadSecretsStayDead ==
  \A r \in Requests : request[r].at = "reset" => ~request[r].dead

(* Each forgot-password request revokes the tokens before it creates its    *)
(* own, in two statements: more than one token is active only if their      *)
(* requests overlapped, so there are never more of them than requests that  *)
(* run at a time.                                                           *)
ActiveOnlyByOverlap ==
  Cardinality(ActiveTokens) +
    Cardinality({r \in Requests : request[r].at = "create"}) <= Cardinality(Requests)

(* However requests interleave, what one has read of the account may change *)
(* before it acts on it: it is answered with a status that its endpoint     *)
(* documents all the same, and with a 500 only because a call failed.  Sign- *)
(* ups are the exception: a name may be rejected, and the loser of two that *)
(* overlap gets a 500 where the endpoint documents a 409; nobody else does, *)
(* and the loser only once there is an account.  (Any 2xx is a success.)    *)
AnsweredAsDocumented ==
  \A r \in Requests :
    \/ request[r].answer \in Answers[request[r].kind] \cup {Nothing, Failed}
    \/ request[r].kind = "signup" /\ request[r].answer = Rejected
    \/ request[r].kind = "signup" /\ request[r].answer = Lost /\ account.exists

=============================================================================
