---------------------------- MODULE AccountsProofs ----------------------------
(***************************************************************************)
(* For every number of codes, reset tokens and requests: a reset token that *)
(* is dead when its request arrives has no effect, and every request but    *)
(* some sign-ups is answered as its endpoint documents.                     *)
(***************************************************************************)
EXTENDS Accounts, FiniteSetTheorems, TLAPS

-----------------------------------------------------------------------------

(* The strengthening.  Dead secrets stay dead and stored ones stored, and   *)
(* an account is never removed: so whatever a request in progress relied on *)
(* at its last statement (x: there is an account, st: secrets stored, d:    *)
(* dead ones) still holds at the next one.                                  *)
Dead == consumed \cup revoked \cup lapsed

AnswersOf(k) ==
  Answers[k] \cup {Nothing, Failed} \cup {a \in {Rejected} : k = "signup"}

KindsAt ==
  [idle |-> Kinds, insert |-> {"signup"}, verify |-> {"verifyEmail"},
   newCode |-> {"resendVerificationEmail", "login"}, resend |-> {"login"},
   revoke |-> {"forgotPassword"}, create |-> {"forgotPassword"},
   match |-> {"resetPassword"}, reset |-> {"resetPassword"}]

Fine(q, x, st, d) ==
  /\ q.kind \in KindsAt[q.at]
  /\ \/ q.answer \in AnswersOf(q.kind)
     \/ q.kind = "signup" /\ q.answer = Lost /\ x
  /\ q.at \in {"verify", "newCode", "resend"} => x
  /\ q.at = "match" => q.secret \in ResetTokens /\ (q.dead => q.secret \in d)
  /\ q.at = "reset" => q.secret \in st \cap ResetTokens
  /\ q.at = "reset" => ~q.dead

(* The records that TypeOK allows.                                          *)
Request ==
  [at : {"idle", "insert", "verify", "newCode", "resend", "revoke", "create",
         "match", "reset"},
   kind : Kinds, secret : Codes \cup ResetTokens \cup {NoCode}, dead : BOOLEAN,
   answer : {Nothing, Done, Failed, Rejected, Lost} \cup UNION {Answers[k] : k \in Kinds}]

RowsOK ==
  /\ account \in Account
  /\ account.code # NoCode \/ account.verified => account.exists
  /\ stored \subseteq Codes \cup ResetTokens
  /\ consumed \subseteq stored \cap ResetTokens
  /\ revoked \subseteq stored \cap ResetTokens
  /\ lapsed \subseteq stored

RequestsOK ==
  /\ request \in [Requests -> Request]
  /\ \A r \in Requests : Fine(request[r], account.exists, stored, Dead)

IInv == RowsOK /\ RequestsOK

(* What no step undoes.                                                     *)
Onward ==
  /\ account.exists => account'.exists
  /\ stored \subseteq stored'
  /\ Dead \subseteq Dead'

-----------------------------------------------------------------------------

LEMMA FineStays ==
  ASSUME NEW q, NEW x \in BOOLEAN, NEW y \in BOOLEAN, NEW st, NEW su, NEW d, NEW e,
         Fine(q, x, st, d), x => y, st \subseteq su, d \subseteq e
  PROVE  Fine(q, y, su, e)
BY DEF Fine

(* One request changes, and what the others relied on stays.                *)
LEMMA OneRequest ==
  ASSUME IInv, RowsOK', Onward, NEW r \in Requests, NEW v \in Request,
         request' = [request EXCEPT ![r] = v],
         Fine(v, account'.exists, stored', Dead')
  PROVE  RequestsOK'
<1>1. request' \in [Requests -> Request]
  BY DEF IInv, RequestsOK
<1>2. account.exists \in BOOLEAN /\ account'.exists \in BOOLEAN
  BY DEF IInv, RowsOK, Account
<1>3. ASSUME NEW s \in Requests
      PROVE  Fine(request'[s], account'.exists, stored', Dead')
  <2>1. CASE s = r
    <3>1. request'[s] = v
      BY <2>1 DEF IInv, RequestsOK
    <3> QED
      BY <3>1
  <2>2. CASE s # r
    <3>1. request'[s] = request[s] /\ Fine(request[s], account.exists, stored, Dead)
      BY <2>2 DEF IInv, RequestsOK
    <3> QED
      BY <3>1, <1>2, FineStays DEF Onward
  <2> QED
    BY <2>1, <2>2
<1> QED
  BY <1>1, <1>3 DEF RequestsOK

LEMMA KnownAnswer ==
  ASSUME NEW k \in Kinds, NEW a \in AnswersOf(k)
  PROVE  a \in {Nothing, Done, Failed, Rejected, Lost} \cup UNION {Answers[j] : j \in Kinds}
BY DEF AnswersOf

LEMMA KindsAtKnown ==
  ASSUME NEW at \in DOMAIN KindsAt
  PROVE  KindsAt[at] \subseteq Kinds
BY DEF KindsAt, Kinds, Answers

(* A request that has ended with an answer its endpoint documents.          *)
LEMMA IdleFine ==
  ASSUME NEW k \in Kinds, NEW a \in AnswersOf(k), NEW x, NEW st, NEW d
  PROVE  Idle(k, a) \in Request /\ Fine(Idle(k, a), x, st, d)
<1>1. a \in {Nothing, Done, Failed, Rejected, Lost} \cup UNION {Answers[j] : j \in Kinds}
  BY KnownAnswer
<1>2. Idle(k, a) \in Request
  BY <1>1 DEF Idle, Request
<1>3. Fine(Idle(k, a), x, st, d)
  BY DEF Idle, Fine, KindsAt
<1> QED
  BY <1>2, <1>3

LEMMA Ended ==
  ASSUME IInv, RowsOK', Onward, NEW r \in Requests,
         NEW a \in AnswersOf(request[r].kind), End(r, a)
  PROVE  RequestsOK'
<1>1. request[r].kind \in Kinds
  BY DEF IInv, RequestsOK, Request
<1>2. Idle(request[r].kind, a) \in Request
      /\ Fine(Idle(request[r].kind, a), account'.exists, stored', Dead')
  BY <1>1, IdleFine
<1> QED
  BY <1>2, OneRequest DEF End

LEMMA WasRefused ==
  ASSUME IInv, RowsOK', Onward, NEW r \in Requests, NEW k \in Kinds,
         NEW a \in AnswersOf(k), Refused(r, k, a)
  PROVE  RequestsOK'
<1>1. Idle(k, a) \in Request /\ Fine(Idle(k, a), account'.exists, stored', Dead')
  BY IdleFine
<1> QED
  BY <1>1, OneRequest DEF Refused

LEMMA HasArrived ==
  ASSUME IInv, RowsOK', Onward, NEW r \in Requests,
         NEW at \in DOMAIN KindsAt, NEW k \in KindsAt[at],
         NEW c \in Codes \cup ResetTokens \cup {NoCode}, NEW b \in BOOLEAN,
         Arrives(r, k, at, c, b),
         Fine([at |-> at, kind |-> k, secret |-> c, dead |-> b, answer |-> Nothing],
              account'.exists, stored', Dead')
  PROVE  RequestsOK'
<1> DEFINE v == [at |-> at, kind |-> k, secret |-> c, dead |-> b, answer |-> Nothing]
<1>1. k \in Kinds
  BY KindsAtKnown
<1>2. v \in Request
  BY <1>1 DEF Request, KindsAt
<1>3. request' = [request EXCEPT ![r] = v]
  BY DEF Arrives
<1> HIDE DEF v
<1> QED
  BY <1>2, <1>3, OneRequest DEF v

(* A request goes on to its next statement.                                 *)
LEMMA HasGone ==
  ASSUME IInv, RowsOK', Onward, NEW r \in Requests, NEW at \in DOMAIN KindsAt,
         Goes(r, at),
         Fine([request[r] EXCEPT !.at = at], account'.exists, stored', Dead')
  PROVE  RequestsOK'
<1>1. request[r] \in Request
  BY DEF IInv, RequestsOK
<1>2. [request[r] EXCEPT !.at = at] \in Request
  BY <1>1 DEF Request, KindsAt
<1>3. request' = [request EXCEPT ![r] = [request[r] EXCEPT !.at = at]]
  BY DEF Goes, IInv, RequestsOK
<1> QED
  BY <1>2, <1>3, OneRequest

(* Statements that only read leave the rows as they were.                   *)
LEMMA RowsStay ==
  ASSUME IInv, UNCHANGED rows
  PROVE  RowsOK' /\ Onward
<1>1. account' = account /\ stored' = stored /\ consumed' = consumed
      /\ revoked' = revoked /\ lapsed' = lapsed
  BY DEF rows
<1> QED
  BY <1>1 DEF IInv, RowsOK, Onward, Dead

(* What a request in progress has to rely on.                               *)
LEMMA FineAt ==
  ASSUME IInv, NEW r \in Requests
  PROVE  /\ Fine(request[r], account.exists, stored, Dead)
         /\ request[r] \in Request
BY DEF IInv, RequestsOK

-----------------------------------------------------------------------------

LEMMA SignupStep ==
  ASSUME IInv, NEW r \in Requests, Signup(r)
  PROVE  IInv'
<1>1. RowsOK' /\ Onward
  BY RowsStay DEF Signup
<1>2. CASE account.exists
  <2>1. Refused(r, "signup", 409)
    BY <1>2 DEF Signup
  <2>2. "signup" \in Kinds /\ 409 \in AnswersOf("signup")
    BY DEF Kinds, Answers, AnswersOf, signup
  <2> QED
    BY <1>1, <2>1, <2>2, WasRefused DEF IInv
<1>3. CASE ~account.exists
  <2>1. Arrives(r, "signup", "insert", NoCode, FALSE)
    BY <1>3 DEF Signup
  <2>2. Fine([at |-> "insert", kind |-> "signup", secret |-> NoCode, dead |-> FALSE,
              answer |-> Nothing], account'.exists, stored', Dead')
    BY DEF Fine, KindsAt, AnswersOf
  <2>3. "insert" \in DOMAIN KindsAt /\ "signup" \in KindsAt["insert"]
    BY DEF KindsAt
  <2> QED
    BY <1>1, <2>1, <2>2, <2>3, HasArrived DEF IInv
<1> QED
  BY <1>2, <1>3

LEMMA InsertUserStep ==
  ASSUME IInv, NEW r \in Requests, NEW c \in Codes, InsertUser(r, c)
  PROVE  IInv'
<1>1. request[r].kind = "signup"
  BY FineAt DEF InsertUser, Fine, KindsAt
<1>2. RowsOK' /\ Onward
  <2>1. CASE account.exists
    BY <2>1, RowsStay DEF InsertUser, rows
  <2>2. CASE ~account.exists
    <3>1. /\ account' = [exists |-> TRUE, verified |-> FALSE, code |-> c]
          /\ stored' = stored \cup {c}
          /\ consumed' = consumed /\ revoked' = revoked /\ lapsed' = lapsed
      BY <2>2 DEF InsertUser
    <3> QED
      BY <2>2, <3>1 DEF IInv, RowsOK, Onward, Dead, Account
  <2> QED
    BY <2>1, <2>2
<1>3. CASE ~account.exists
  <2>1. PICK a \in {Done, Failed} : End(r, a)
    BY <1>3 DEF InsertUser, EndWith
  <2>2. a \in AnswersOf(request[r].kind)
    BY <1>1 DEF AnswersOf, Answers, signup
  <2> QED
    BY <1>2, <2>1, <2>2, Ended DEF IInv
<1>4. CASE account.exists
  <2>1. End(r, Lost) /\ account'.exists
    BY <1>2, <1>4 DEF InsertUser, UniqueEmailViolation, Onward
  <2>2. Idle("signup", Lost) \in Request
    BY DEF Idle, Request, Kinds, Answers
  <2>3. Fine(Idle("signup", Lost), account'.exists, stored', Dead')
    BY <2>1 DEF Idle, Fine, KindsAt, Kinds, Answers
  <2>4. request' = [request EXCEPT ![r] = Idle("signup", Lost)]
    BY <1>1, <2>1 DEF End
  <2> QED
    BY <1>2, <2>2, <2>3, <2>4, OneRequest DEF IInv
<1> QED
  BY <1>3, <1>4

LEMMA RejectNameStep ==
  ASSUME IInv, NEW r \in Requests, RejectName(r)
  PROVE  IInv'
<1>1. RowsOK' /\ Onward
  BY RowsStay DEF RejectName
<1>2. request[r].kind = "signup"
  BY FineAt DEF RejectName, Fine, KindsAt
<1>3. Rejected \in AnswersOf(request[r].kind) /\ End(r, Rejected)
  BY <1>2 DEF RejectName, AnswersOf
<1> QED
  BY <1>1, <1>3, Ended DEF IInv

LEMMA VerifyEmailStep ==
  ASSUME IInv, NEW r \in Requests, NEW c \in Codes, VerifyEmail(r, c)
  PROVE  IInv'
<1>1. RowsOK' /\ Onward
  BY RowsStay DEF VerifyEmail
<1>2. CASE account.exists /\ ~account.verified /\ LiveCode(c)
  <2>1. Arrives(r, "verifyEmail", "verify", NoCode, FALSE)
    BY <1>2 DEF VerifyEmail
  <2>2. account'.exists
    BY <1>1, <1>2 DEF Onward
  <2>3. Fine([at |-> "verify", kind |-> "verifyEmail", secret |-> NoCode, dead |-> FALSE,
              answer |-> Nothing], account'.exists, stored', Dead')
    BY <2>2 DEF Fine, KindsAt, AnswersOf
  <2>4. "verify" \in DOMAIN KindsAt /\ "verifyEmail" \in KindsAt["verify"]
    BY DEF KindsAt
  <2> QED
    BY <1>1, <2>1, <2>3, <2>4, HasArrived DEF IInv
<1>3. CASE ~(account.exists /\ ~account.verified /\ LiveCode(c))
  <2>1. \/ Refused(r, "verifyEmail", 404)
        \/ Refused(r, "verifyEmail", Done)
        \/ Refused(r, "verifyEmail", 400)
    BY <1>3 DEF VerifyEmail
  <2>2. PICK a \in {404, Done, 400} : Refused(r, "verifyEmail", a)
    BY <2>1
  <2>3. "verifyEmail" \in Kinds /\ a \in AnswersOf("verifyEmail")
    BY DEF Kinds, Answers, AnswersOf, verifyEmail
  <2> QED
    BY <1>1, <2>2, <2>3, WasRefused DEF IInv
<1> QED
  BY <1>2, <1>3

LEMMA MarkVerifiedStep ==
  ASSUME IInv, NEW r \in Requests, MarkVerified(r)
  PROVE  IInv'
<1>1. request[r].kind = "verifyEmail" /\ account.exists
  BY FineAt DEF MarkVerified, Fine, KindsAt
<1>2. RowsOK' /\ Onward
  <2>1. /\ account' = [account EXCEPT !.verified = TRUE, !.code = NoCode]
        /\ stored' = stored /\ consumed' = consumed /\ revoked' = revoked
        /\ lapsed' = lapsed
    BY DEF MarkVerified
  <2> QED
    BY <1>1, <2>1 DEF IInv, RowsOK, Onward, Dead, Account
<1>3. PICK a \in {Done, Failed} : End(r, a)
  BY DEF MarkVerified, EndWith
<1>4. a \in AnswersOf(request[r].kind)
  BY <1>1 DEF AnswersOf, Answers, verifyEmail
<1> QED
  BY <1>2, <1>3, <1>4, Ended DEF IInv

LEMMA ResendStep ==
  ASSUME IInv, NEW r \in Requests, ResendVerificationEmail(r)
  PROVE  IInv'
<1>1. RowsOK' /\ Onward
  BY RowsStay DEF ResendVerificationEmail
<1>2. CASE account.exists /\ ~account.verified
  <2>1. Arrives(r, "resendVerificationEmail", "newCode", NoCode, FALSE)
    BY <1>2 DEF ResendVerificationEmail
  <2>2. account'.exists
    BY <1>1, <1>2 DEF Onward
  <2>3. Fine([at |-> "newCode", kind |-> "resendVerificationEmail", secret |-> NoCode,
              dead |-> FALSE, answer |-> Nothing], account'.exists, stored', Dead')
    BY <2>2 DEF Fine, KindsAt, AnswersOf
  <2>4. "newCode" \in DOMAIN KindsAt
        /\ "resendVerificationEmail" \in KindsAt["newCode"]
    BY DEF KindsAt
  <2> QED
    BY <1>1, <2>1, <2>3, <2>4, HasArrived DEF IInv
<1>3. CASE ~(account.exists /\ ~account.verified)
  <2>1. Refused(r, "resendVerificationEmail", Done)
    BY <1>3 DEF ResendVerificationEmail
  <2>2. "resendVerificationEmail" \in Kinds
        /\ Done \in AnswersOf("resendVerificationEmail")
    BY DEF Kinds, Answers, AnswersOf, resendVerificationEmail
  <2> QED
    BY <1>1, <2>1, <2>2, WasRefused DEF IInv
<1> QED
  BY <1>2, <1>3

LEMMA StoreNewCodeStep ==
  ASSUME IInv, NEW r \in Requests, NEW c \in Codes, StoreNewCode(r, c)
  PROVE  IInv'
<1>1. request[r].kind \in {"resendVerificationEmail", "login"} /\ account.exists
  BY FineAt DEF StoreNewCode, Fine, KindsAt
<1>2. RowsOK' /\ Onward
  <2>1. /\ account' = [account EXCEPT !.code = c]
        /\ stored' = stored \cup {c}
        /\ consumed' = consumed /\ revoked' = revoked /\ lapsed' = lapsed
    BY DEF StoreNewCode
  <2> QED
    BY <1>1, <2>1 DEF IInv, RowsOK, Onward, Dead, Account
<1>3. PICK a \in {IF request[r].kind = "login" THEN 403 ELSE Done, Failed} : End(r, a)
  BY DEF StoreNewCode, EndWith
<1>4. a \in AnswersOf(request[r].kind)
  BY <1>1 DEF AnswersOf, Answers, login, resendVerificationEmail
<1> QED
  BY <1>2, <1>3, <1>4, Ended DEF IInv

LEMMA LoginStep ==
  ASSUME IInv, NEW r \in Requests, NEW rightPassword \in BOOLEAN, Login(r, rightPassword)
  PROVE  IInv'
<1>1. RowsOK' /\ Onward
  BY RowsStay DEF Login
<1> DEFINE Resends == /\ account.exists /\ rightPassword /\ ~account.verified
                      /\ ~LiveCode(account.code)
<1>2. CASE Resends
  <2>1. Arrives(r, "login", "resend", NoCode, FALSE)
    BY <1>2 DEF Login
  <2>2. account'.exists
    BY <1>1, <1>2 DEF Onward
  <2>3. Fine([at |-> "resend", kind |-> "login", secret |-> NoCode,
              dead |-> FALSE, answer |-> Nothing], account'.exists, stored', Dead')
    BY <2>2 DEF Fine, KindsAt, AnswersOf
  <2>4. "resend" \in DOMAIN KindsAt /\ "login" \in KindsAt["resend"]
    BY DEF KindsAt
  <2> QED
    BY <1>1, <2>1, <2>3, <2>4, HasArrived DEF IInv
<1>3. CASE ~Resends
  <2>1. \/ Refused(r, "login", 401) \/ Refused(r, "login", Done)
        \/ Refused(r, "login", 403)
    BY <1>3 DEF Login
  <2>2. PICK a \in {401, Done, 403} : Refused(r, "login", a)
    BY <2>1
  <2>3. "login" \in Kinds /\ a \in AnswersOf("login")
    BY DEF Kinds, Answers, AnswersOf, login
  <2> QED
    BY <1>1, <2>2, <2>3, WasRefused DEF IInv
<1> QED
  BY <1>2, <1>3

LEMMA ResendDuringLoginStep ==
  ASSUME IInv, NEW r \in Requests, ResendDuringLogin(r)
  PROVE  IInv'
<1>1. RowsOK' /\ Onward
  BY RowsStay DEF ResendDuringLogin
<1>2. request[r].at = "resend" /\ request[r].kind = "login" /\ account.exists
  BY FineAt DEF ResendDuringLogin, Fine, KindsAt
<1>3. CASE account.verified
  <2>1. End(r, 403) /\ 403 \in AnswersOf(request[r].kind)
    BY <1>2, <1>3 DEF ResendDuringLogin, AnswersOf, Answers, login
  <2> QED
    BY <1>1, <2>1, Ended DEF IInv
<1>4. CASE ~account.verified
  <2>1. Goes(r, "newCode") /\ "newCode" \in DOMAIN KindsAt
    BY <1>4 DEF ResendDuringLogin, KindsAt
  <2>2. Fine([request[r] EXCEPT !.at = "newCode"], account'.exists, stored', Dead')
    BY <1>1, <1>2, FineAt DEF Fine, KindsAt, Onward, Request
  <2> QED
    BY <1>1, <2>1, <2>2, HasGone DEF IInv
<1> QED
  BY <1>3, <1>4

-----------------------------------------------------------------------------

LEMMA ForgotPasswordStep ==
  ASSUME IInv, NEW r \in Requests, ForgotPassword(r)
  PROVE  IInv'
<1>1. RowsOK' /\ Onward
  BY RowsStay DEF ForgotPassword
<1>2. CASE account.verified
  <2>1. Arrives(r, "forgotPassword", "revoke", NoCode, FALSE)
    BY <1>2 DEF ForgotPassword
  <2>2. Fine([at |-> "revoke", kind |-> "forgotPassword", secret |-> NoCode,
              dead |-> FALSE, answer |-> Nothing], account'.exists, stored', Dead')
    BY DEF Fine, KindsAt, AnswersOf
  <2>3. "revoke" \in DOMAIN KindsAt /\ "forgotPassword" \in KindsAt["revoke"]
    BY DEF KindsAt
  <2> QED
    BY <1>1, <2>1, <2>2, <2>3, HasArrived DEF IInv
<1>3. CASE ~account.verified
  <2>1. Refused(r, "forgotPassword", Done)
    BY <1>3 DEF ForgotPassword
  <2>2. "forgotPassword" \in Kinds /\ Done \in AnswersOf("forgotPassword")
    BY DEF Kinds, Answers, AnswersOf, forgotPassword
  <2> QED
    BY <1>1, <2>1, <2>2, WasRefused DEF IInv
<1> QED
  BY <1>2, <1>3

LEMMA RevokeStep ==
  ASSUME IInv, NEW r \in Requests, RevokeActiveTokensForUser(r)
  PROVE  IInv'
<1>1. /\ account' = account /\ stored' = stored /\ consumed' = consumed
      /\ lapsed' = lapsed /\ revoked' = revoked \cup ActiveTokens
  BY DEF RevokeActiveTokensForUser
<1>2. RowsOK' /\ Onward
  BY <1>1 DEF IInv, RowsOK, Onward, Dead, ActiveTokens
<1>3. Goes(r, "create") /\ "create" \in DOMAIN KindsAt
  BY DEF RevokeActiveTokensForUser, KindsAt
<1>4. Fine([request[r] EXCEPT !.at = "create"], account'.exists, stored', Dead')
  BY FineAt DEF RevokeActiveTokensForUser, Fine, KindsAt, Request
<1> QED
  BY <1>2, <1>3, <1>4, HasGone DEF IInv

LEMMA CreateTokenStep ==
  ASSUME IInv, NEW r \in Requests, NEW t \in ResetTokens, CreateToken(r, t)
  PROVE  IInv'
<1>1. /\ account' = account /\ stored' = stored \cup {t} /\ consumed' = consumed
      /\ lapsed' = lapsed /\ revoked' = revoked
  BY DEF CreateToken
<1>2. RowsOK' /\ Onward
  BY <1>1 DEF IInv, RowsOK, Onward, Dead
<1>3. request[r].kind = "forgotPassword"
  BY FineAt DEF CreateToken, Fine, KindsAt
<1>4. PICK a \in {Done, Failed} : End(r, a)
  BY DEF CreateToken, EndWith
<1>5. a \in AnswersOf(request[r].kind)
  BY <1>3 DEF AnswersOf, Answers, forgotPassword
<1> QED
  BY <1>2, <1>4, <1>5, Ended DEF IInv

LEMMA ResetPasswordStep ==
  ASSUME IInv, NEW r \in Requests, NEW t \in ResetTokens, ResetPassword(r, t)
  PROVE  IInv'
<1>1. RowsOK' /\ Onward
  BY RowsStay DEF ResetPassword
<1>2. CASE account.exists
  <2> DEFINE d == t \in consumed \cup revoked \cup lapsed
  <2>1. Arrives(r, "resetPassword", "match", t, d)
    BY <1>2 DEF ResetPassword
  <2>2. d => t \in Dead'
    BY <1>1 DEF Onward, Dead
  <2>3. Fine([at |-> "match", kind |-> "resetPassword", secret |-> t,
              dead |-> d, answer |-> Nothing], account'.exists, stored', Dead')
    BY <2>2 DEF Fine, KindsAt, AnswersOf
  <2>4. "match" \in DOMAIN KindsAt /\ "resetPassword" \in KindsAt["match"]
    BY DEF KindsAt
  <2>5. d \in BOOLEAN
    OBVIOUS
  <2> QED
    BY <1>1, <2>1, <2>3, <2>4, <2>5, HasArrived DEF IInv
<1>3. CASE ~account.exists
  <2>1. Refused(r, "resetPassword", 400)
    BY <1>3 DEF ResetPassword
  <2>2. "resetPassword" \in Kinds /\ 400 \in AnswersOf("resetPassword")
    BY DEF Kinds, Answers, AnswersOf, resetPassword
  <2> QED
    BY <1>1, <2>1, <2>2, WasRefused DEF IInv
<1> QED
  BY <1>2, <1>3

(* The heart of it: what the SELECT finds active was not dead before.       *)
LEMMA GetActiveStep ==
  ASSUME IInv, NEW r \in Requests, GetActiveTokensByUserId(r)
  PROVE  IInv'
<1>1. RowsOK' /\ Onward
  BY RowsStay DEF GetActiveTokensByUserId
<1>2. /\ request[r].at = "match" /\ request[r].kind = "resetPassword"
      /\ request[r].dead => request[r].secret \in Dead
  BY FineAt DEF GetActiveTokensByUserId, Fine, KindsAt
<1>3. CASE request[r].secret \in ActiveTokens
  <2>1. Goes(r, "reset") /\ "reset" \in DOMAIN KindsAt
    BY <1>3 DEF GetActiveTokensByUserId, KindsAt
  <2>2. ~request[r].dead
    BY <1>2, <1>3 DEF ActiveTokens, Dead
  <2>3. request[r].secret \in stored' \cap ResetTokens
    BY <1>1, <1>3 DEF ActiveTokens, Onward
  <2>4. Fine([request[r] EXCEPT !.at = "reset"], account'.exists, stored', Dead')
    BY <1>2, <2>2, <2>3, FineAt DEF Fine, KindsAt, Request
  <2> QED
    BY <1>1, <2>1, <2>4, HasGone DEF IInv
<1>4. CASE request[r].secret \notin ActiveTokens
  <2>1. End(r, 400) /\ 400 \in AnswersOf(request[r].kind)
    BY <1>2, <1>4 DEF GetActiveTokensByUserId, AnswersOf, Answers, resetPassword
  <2> QED
    BY <1>1, <2>1, Ended DEF IInv
<1> QED
  BY <1>3, <1>4

LEMMA SetPasswordStep ==
  ASSUME IInv, NEW r \in Requests, SetPassword(r)
  PROVE  IInv'
<1>1. /\ account' = account /\ stored' = stored /\ lapsed' = lapsed
      /\ consumed' = consumed \cup {request[r].secret}
      /\ revoked' = revoked \cup (ActiveTokens \ {request[r].secret})
  BY DEF SetPassword
<1>2. request[r].kind = "resetPassword" /\ request[r].secret \in stored \cap ResetTokens
  BY FineAt DEF SetPassword, Fine, KindsAt
<1>3. RowsOK' /\ Onward
  BY <1>1, <1>2 DEF IInv, RowsOK, Onward, Dead, ActiveTokens
<1>4. PICK a \in {Done, Failed} : End(r, a)
  BY DEF SetPassword, EndWith
<1>5. a \in AnswersOf(request[r].kind)
  BY <1>2 DEF AnswersOf, Answers, resetPassword
<1> QED
  BY <1>3, <1>4, <1>5, Ended DEF IInv

LEMMA FailStep ==
  ASSUME IInv, NEW r \in Requests, Fail(r)
  PROVE  IInv'
<1>1. RowsOK' /\ Onward
  BY RowsStay DEF Fail
<1>2. End(r, Failed) /\ Failed \in AnswersOf(request[r].kind)
  BY DEF Fail, AnswersOf
<1> QED
  BY <1>1, <1>2, Ended DEF IInv

LEMMA LapseStep ==
  ASSUME IInv, NEW c \in Codes \cup ResetTokens, Lapse(c)
  PROVE  IInv'
<1>1. /\ account' = account /\ stored' = stored /\ consumed' = consumed
      /\ revoked' = revoked /\ lapsed' = lapsed \cup {c} /\ request' = request
      /\ c \in stored
  BY DEF Lapse
<1>2. RowsOK' /\ Dead \subseteq Dead'
  BY <1>1 DEF IInv, RowsOK, Dead
<1>3. account.exists \in BOOLEAN
  BY DEF IInv, RowsOK, Account
<1>4. ASSUME NEW r \in Requests
      PROVE  Fine(request[r], account.exists, stored, Dead')
  BY <1>2, <1>3, FineAt, FineStays
<1> QED
  BY <1>1, <1>2, <1>4 DEF IInv, RequestsOK

LEMMA StutterStep ==
  ASSUME IInv, UNCHANGED vars
  PROVE  IInv'
BY DEF IInv, RowsOK, RequestsOK, Dead, vars

(* The invariant of the proofs.                                             *)
THEOREM Inductive == Spec => []IInv
<1>1. Init => IInv
  <2> SUFFICES ASSUME Init PROVE IInv
    OBVIOUS
  <2>1. RowsOK
    BY CodesAssumption DEF Init, RowsOK, Account
  <2>2. "signup" \in Kinds /\ Nothing \in AnswersOf("signup")
    BY DEF Kinds, Answers, AnswersOf
  <2>3. /\ Idle("signup", Nothing) \in Request
        /\ Fine(Idle("signup", Nothing), account.exists, stored, Dead)
    BY <2>2, IdleFine
  <2> QED
    BY <2>1, <2>3 DEF Init, IInv, RequestsOK
<1>2. IInv /\ [Next]_vars => IInv'
  <2> SUFFICES ASSUME IInv, [Next]_vars PROVE IInv'
    OBVIOUS
  <2>1. ASSUME NEW r \in Requests, Enrol(r)
        PROVE  IInv'
    BY <2>1, SignupStep, RejectNameStep, InsertUserStep, VerifyEmailStep, MarkVerifiedStep, ResendStep,
       StoreNewCodeStep, LoginStep, ResendDuringLoginStep DEF Enrol
  <2>2. ASSUME NEW r \in Requests, Reset(r)
        PROVE  IInv'
    BY <2>2, ForgotPasswordStep, RevokeStep, CreateTokenStep, ResetPasswordStep,
       GetActiveStep, SetPasswordStep DEF Reset
  <2>3. ASSUME NEW r \in Requests, Fail(r)
        PROVE  IInv'
    BY <2>3, FailStep
  <2>4. ASSUME NEW c \in Codes \cup ResetTokens, Lapse(c)
        PROVE  IInv'
    BY <2>4, LapseStep
  <2>5. CASE UNCHANGED vars
    BY <2>5, StutterStep
  <2> QED
    BY <2>1, <2>2, <2>3, <2>4, <2>5 DEF Next
<1> QED
  BY <1>1, <1>2, PTL DEF Spec

(* Every variable of the account, its secrets and its requests keeps its    *)
(* type.                                                                    *)
THEOREM TypeCorrect == Spec => []TypeOK
<1>1. IInv => TypeOK
  BY DEF IInv, RowsOK, RequestsOK, Request, TypeOK
<1> QED
  BY <1>1, Inductive, PTL

(* No reset token that was used, revoked or expired when its request        *)
(* arrived sets a password.                                                 *)
THEOREM DeadForGood == Spec => []DeadSecretsStayDead
<1>1. IInv => DeadSecretsStayDead
  BY DEF IInv, RequestsOK, Fine, DeadSecretsStayDead
<1> QED
  BY <1>1, Inductive, PTL

(* Every answer of auth.controller.ts is one that its endpoint documents,   *)
(* but for a rejected name and the loser of two sign-ups.                   *)
THEOREM AnswersDocumented == Spec => []AnsweredAsDocumented
<1>1. IInv => AnsweredAsDocumented
  BY DEF IInv, RequestsOK, Fine, AnswersOf, AnsweredAsDocumented
<1> QED
  BY <1>1, Inductive, PTL

-----------------------------------------------------------------------------

(* The active tokens.  Only a request that has revoked them all makes       *)
(* another one, so a count of the two together is never above the requests. *)
Creating == {r \in Requests : request[r].at = "create"}

Few == IsFiniteSet(ActiveTokens) /\ ActiveOnlyByOverlap

LEMMA CreatingFinite ==
  /\ IsFiniteSet(Creating) /\ Cardinality(Creating) \in Nat
  /\ Cardinality(Creating) <= Cardinality(Requests) /\ Cardinality(Requests) \in Nat
<1>1. Creating \subseteq Requests
  BY DEF Creating
<1> QED
  BY <1>1, RequestsAssumption, FS_Subset, FS_CardinalityType

LEMMA CreatingFiniteNext ==
  /\ Cardinality(Creating)' \in Nat
  /\ Cardinality(Creating)' <= Cardinality(Requests)
<1>1. Creating' \subseteq Requests
  BY DEF Creating
<1> QED
  BY <1>1, RequestsAssumption, FS_Subset, FS_CardinalityType

(* Most steps put neither tokens nor requests on the scales.                *)
LEMMA FewKept ==
  ASSUME Few, ActiveTokens' \subseteq ActiveTokens, Creating' \subseteq Creating
  PROVE  Few'
<1> DEFINE before == ActiveTokens
           after == ActiveTokens'
           were == Creating
           are == Creating'
<1>1. /\ IsFiniteSet(after) /\ Cardinality(after) <= Cardinality(before)
      /\ Cardinality(after) \in Nat /\ Cardinality(before) \in Nat
  BY FS_Subset, FS_CardinalityType DEF Few
<1>2. /\ Cardinality(are) <= Cardinality(were)
      /\ Cardinality(are) \in Nat /\ Cardinality(were) \in Nat
      /\ Cardinality(Requests) \in Nat
  BY CreatingFinite, CreatingFiniteNext, FS_Subset
<1>3. Cardinality(before) + Cardinality(were) <= Cardinality(Requests)
  BY DEF Few, ActiveOnlyByOverlap, Creating
<1>4. Cardinality(after) + Cardinality(are) <= Cardinality(Requests)
  BY <1>1, <1>2, <1>3
<1> QED
  BY <1>1, <1>4 DEF Few, ActiveOnlyByOverlap, Creating

(* The ways on for a request that does not create a token.                  *)
LEMMA NotCreating ==
  ASSUME IInv, NEW r \in Requests,
         \/ \E k, c : End(r, c) \/ Refused(r, k, c)
         \/ \E k, at, c, d : at # "create" /\ Arrives(r, k, at, c, d)
         \/ \E at : at # "create" /\ Goes(r, at)
  PROVE  Creating' \subseteq Creating
<1>1. request \in [Requests -> Request]
  BY DEF IInv, RequestsOK
<1>2. ASSUME NEW k, NEW c, End(r, c) \/ Refused(r, k, c)
      PROVE  request'[r].at # "create" /\ \A s \in Requests \ {r} : request'[s] = request[s]
  BY <1>1, <1>2 DEF End, Refused, Idle
<1>3. ASSUME NEW k, NEW at, NEW c, NEW d, at # "create", Arrives(r, k, at, c, d)
      PROVE  request'[r].at # "create" /\ \A s \in Requests \ {r} : request'[s] = request[s]
  BY <1>1, <1>3 DEF Arrives
<1>4. ASSUME NEW at, at # "create", Goes(r, at)
      PROVE  request'[r].at # "create" /\ \A s \in Requests \ {r} : request'[s] = request[s]
  BY <1>1, <1>4 DEF Goes, Request
<1>5. request'[r].at # "create" /\ \A s \in Requests \ {r} : request'[s] = request[s]
  BY <1>2, <1>3, <1>4
<1> QED
  BY <1>5 DEF Creating

LEMMA RevokeFew ==
  ASSUME IInv, Few, NEW r \in Requests, RevokeActiveTokensForUser(r)
  PROVE  Few'
<1>1. ActiveTokens' = {}
  BY DEF RevokeActiveTokensForUser, ActiveTokens
<1>2. IsFiniteSet(ActiveTokens') /\ Cardinality(ActiveTokens') = 0
  BY <1>1, FS_EmptySet
<1>3. Cardinality(ActiveTokens') + Cardinality(Creating') <= Cardinality(Requests)
  BY <1>2, CreatingFiniteNext
<1> QED
  BY <1>2, <1>3 DEF Few, ActiveOnlyByOverlap, Creating

LEMMA CreateFew ==
  ASSUME IInv, Few, NEW r \in Requests, NEW t \in ResetTokens, CreateToken(r, t)
  PROVE  Few'
<1> DEFINE before == ActiveTokens
           after == ActiveTokens'
           were == Creating
           are == Creating'
<1>1. PICK a : request' = [request EXCEPT ![r] = Idle(request[r].kind, a)]
  BY DEF CreateToken, EndWith, End
<1>2. r \in were /\ are = were \ {r}
  BY <1>1 DEF CreateToken, Creating, IInv, RequestsOK, Idle
<1>3. after \subseteq before \cup {t}
  BY DEF CreateToken, ActiveTokens
<1>4. /\ IsFiniteSet(before) /\ Cardinality(before) \in Nat
      /\ IsFiniteSet(before \cup {t}) /\ Cardinality(before \cup {t}) \in Nat
      /\ Cardinality(before \cup {t}) <= Cardinality(before) + 1
  <2>1. IsFiniteSet(before)
    BY DEF Few
  <2> HIDE DEF before
  <2>2. /\ IsFiniteSet(before \cup {t})
        /\ \/ Cardinality(before \cup {t}) = Cardinality(before)
           \/ Cardinality(before \cup {t}) = Cardinality(before) + 1
    BY <2>1, FS_AddElement
  <2>3. Cardinality(before) \in Nat
    BY <2>1, FS_CardinalityType
  <2> QED
    BY <2>1, <2>2, <2>3
<1>5. /\ IsFiniteSet(after) /\ Cardinality(after) \in Nat
      /\ Cardinality(after) <= Cardinality(before \cup {t})
  BY <1>3, <1>4, FS_Subset, FS_CardinalityType
<1>6. /\ Cardinality(are) = Cardinality(were) - 1
      /\ Cardinality(were) \in Nat /\ Cardinality(are) \in Nat
      /\ Cardinality(Requests) \in Nat
  BY <1>2, CreatingFinite, CreatingFiniteNext, FS_RemoveElement
<1>7. Cardinality(before) + Cardinality(were) <= Cardinality(Requests)
  BY DEF Few, ActiveOnlyByOverlap, Creating
<1>8. Cardinality(after) + Cardinality(are) <= Cardinality(Requests)
  BY <1>4, <1>5, <1>6, <1>7
<1> QED
  BY <1>5, <1>8 DEF Few, ActiveOnlyByOverlap, Creating

(* Codes of sign-ups and replacements are no reset tokens.                  *)
LEMMA EnrolFew ==
  ASSUME IInv, Few, NEW r \in Requests, Enrol(r)
  PROVE  Few'
<1>1. ActiveTokens' \subseteq ActiveTokens
  BY SecretsAssumption
     DEF Enrol, Signup, RejectName, InsertUser, VerifyEmail, StoreNewCode, MarkVerified,
         ResendVerificationEmail, Login, ResendDuringLogin, rows, ActiveTokens
<1>2. Creating' \subseteq Creating
  <2>1. CASE Signup(r)
    BY <2>1, NotCreating DEF Signup
  <2>2. CASE \E c \in Codes : InsertUser(r, c) \/ VerifyEmail(r, c) \/ StoreNewCode(r, c)
    <3>1. CASE \E c \in Codes : InsertUser(r, c) \/ StoreNewCode(r, c)
      <4>1. \E a : End(r, a)
        BY <3>1 DEF InsertUser, UniqueEmailViolation, StoreNewCode, EndWith
      <4> QED
        BY <4>1, NotCreating
    <3>2. CASE \E c \in Codes : VerifyEmail(r, c)
      BY <3>2, NotCreating DEF VerifyEmail
    <3> QED
      BY <2>2, <3>1, <3>2
  <2>3. CASE MarkVerified(r)
    BY <2>3, NotCreating DEF MarkVerified, EndWith
  <2>4. CASE ResendVerificationEmail(r)
    BY <2>4, NotCreating DEF ResendVerificationEmail
  <2>5. CASE \E rightPassword \in BOOLEAN : Login(r, rightPassword)
    BY <2>5, NotCreating DEF Login
  <2>6. CASE ResendDuringLogin(r)
    BY <2>6, NotCreating DEF ResendDuringLogin
  <2>7. CASE RejectName(r)
    BY <2>7, NotCreating DEF RejectName
  <2> QED
    BY <2>1, <2>2, <2>3, <2>4, <2>5, <2>6, <2>7 DEF Enrol
<1> QED
  BY <1>1, <1>2, FewKept

LEMMA OthersFew ==
  ASSUME IInv, Few, NEW r \in Requests,
         \/ ForgotPassword(r) \/ GetActiveTokensByUserId(r) \/ SetPassword(r) \/ Fail(r)
         \/ \E t \in ResetTokens : ResetPassword(r, t)
  PROVE  Few'
<1>1. ActiveTokens' \subseteq ActiveTokens
  BY DEF ForgotPassword, GetActiveTokensByUserId, SetPassword, Fail, ResetPassword, rows,
         ActiveTokens
<1>2. Creating' \subseteq Creating
  <2>1. CASE ForgotPassword(r)
    BY <2>1, NotCreating DEF ForgotPassword
  <2>2. CASE GetActiveTokensByUserId(r)
    BY <2>2, NotCreating DEF GetActiveTokensByUserId
  <2>3. CASE SetPassword(r) \/ Fail(r)
    BY <2>3, NotCreating DEF SetPassword, Fail, EndWith
  <2>4. CASE \E t \in ResetTokens : ResetPassword(r, t)
    BY <2>4, NotCreating DEF ResetPassword
  <2> QED
    BY <2>1, <2>2, <2>3, <2>4
<1> QED
  BY <1>1, <1>2, FewKept

(* Two forgot-password requests may leave two active tokens, but never more *)
(* than the requests that have overlapped.                                  *)
THEOREM ActiveByOverlap == Spec => []ActiveOnlyByOverlap
<1>1. Init => Few
  <2> SUFFICES ASSUME Init PROVE Few
    OBVIOUS
  <2>1. ActiveTokens = {} /\ Creating = {}
    BY DEF Init, ActiveTokens, Creating, Idle
  <2>2. /\ IsFiniteSet(ActiveTokens) /\ Cardinality(ActiveTokens) = 0
        /\ Cardinality(Creating) = 0
    BY <2>1, FS_EmptySet
  <2> QED
    BY <2>2, CreatingFinite DEF Few, ActiveOnlyByOverlap, Creating
<1>2. IInv /\ Few /\ [Next]_vars => Few'
  <2> SUFFICES ASSUME IInv, Few, [Next]_vars PROVE Few'
    OBVIOUS
  <2>1. ASSUME NEW r \in Requests, Enrol(r) \/ Reset(r) \/ Fail(r)
        PROVE  Few'
    BY <2>1, EnrolFew, RevokeFew, CreateFew, OthersFew DEF Reset
  <2>2. CASE (\E c \in Codes \cup ResetTokens : Lapse(c)) \/ UNCHANGED vars
    <3>1. ActiveTokens' \subseteq ActiveTokens /\ Creating' \subseteq Creating
      BY <2>2 DEF Lapse, vars, ActiveTokens, Creating
    <3> QED
      BY <3>1, FewKept
  <2> QED
    BY <2>1, <2>2 DEF Next
<1>3. Few => ActiveOnlyByOverlap
  BY DEF Few
<1> QED
  BY <1>1, <1>2, <1>3, Inductive, PTL DEF Spec

=============================================================================
