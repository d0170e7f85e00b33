---------------------------- MODULE SessionsProofs ----------------------------
(***************************************************************************)
(* For every number of tokens and requests, every lifetime and every        *)
(* resolution of the clock: a token that was logged out or rotated is       *)
(* refused until it expires.                                                *)
(***************************************************************************)
EXTENDS Sessions, TLAPS

-----------------------------------------------------------------------------

(* The strengthening.  Deadline(t) is the tick at which t expires; an entry *)
(* of the blacklist that is still to be written will live at least as long, *)
(* since the time left was rounded up and the clock only advances.          *)
Deadline(t) == TicksPerSecond * expires[t]

IssuedForLifetime == \A t \in Tokens : expires[t] <= NowInSeconds + Lifetime

SpentOutlived ==
  \A t \in spent : expires[t] # 0 /\ (Deadline(t) <= blacklist[t] \/ Deadline(t) <= now)

(* A request q under way has a token that was issued (e[t] is its second);  *)
(* the entry it is about to write at tick n will live long enough; and if   *)
(* its token was spent (one of s) before it arrived, it has passed the      *)
(* check of the blacklist only after the token had expired, and has no      *)
(* answer yet.                                                              *)
Fine(q, n, e, s) ==
  /\ q.at # "idle" => q.token \in Tokens /\ e[q.token] # 0
  /\ q.at \in {"sign", "blacklist"} =>
       TicksPerSecond * e[q.token] <= n + TicksPerSecond * q.ttl
  /\ q.stale => /\ q.token \in s /\ q.answer # Served
                /\ q.at \in {"check", "handle"}
                /\ q.at = "handle" => TicksPerSecond * e[q.token] <= n

IInv ==
  /\ TypeOK
  /\ IssuedForLifetime
  /\ SpentOutlived
  /\ \A r \in Requests : Fine(request[r], now, expires, spent)

(* The records that TypeOK allows.                                          *)
Request ==
  [at : {"idle", "check", "handle", "sign", "blacklist"}, kind : Kinds,
   token : Tokens \cup {NoToken}, stale : BOOLEAN, ttl : 0..Lifetime,
   answer : {Nothing, Served, 401, 500, Revoked}]

-----------------------------------------------------------------------------

(* A second has come as soon as its first tick has.                         *)
LEMMA SecondReached ==
  ASSUME NEW n \in Nat, NEW k \in Nat \ {0}, NEW s \in Nat
  PROVE  /\ n \div k \in Nat
         /\ n \div k < s <=> n < k * s
         /\ k * (n \div k) <= n
         /\ n \div k <= (n + 1) \div k
<1> DEFINE q == n \div k
           p == (n + 1) \div k
<1>1. q \in Nat /\ p \in Nat
  OBVIOUS
<1>2. k * q <= n /\ n < k * q + k
  OBVIOUS
<1>3. k * p <= n + 1 /\ n + 1 < k * p + k
  OBVIOUS
<1>4. q < s => n < k * s
  <2>1. SUFFICES ASSUME q < s PROVE n < k * s
    OBVIOUS
  <2>2. PICK d \in Nat : s = q + 1 + d
    <3>1. s - q - 1 \in Nat /\ s = q + 1 + (s - q - 1)
      BY <1>1, <2>1
    <3> QED
      BY <3>1
  <2>3. k * s = k * q + k + k * d
    BY <1>1, <2>2
  <2> QED
    BY <1>1, <1>2, <2>3
<1>5. n < k * s => q < s
  OBVIOUS
<1>6. q <= p
  OBVIOUS
<1> QED
  BY <1>1, <1>2, <1>4, <1>5, <1>6

(* What the clock says of tokens, in ticks.                                 *)
LEMMA VerifiedByDeadline ==
  ASSUME TypeOK, NEW t \in Tokens
  PROVE  /\ NowInSeconds \in Nat
         /\ Deadline(t) \in Nat
         /\ Verified(t) <=> now < Deadline(t)
         /\ TicksPerSecond * NowInSeconds <= now
<1>1. now \in Nat /\ expires[t] \in Nat /\ TicksPerSecond \in Nat \ {0}
  BY TimeAssumption DEF TypeOK
<1>2. Deadline(t) \in Nat
  BY <1>1 DEF Deadline
<1> QED
  BY <1>1, <1>2, SecondReached DEF Verified, NowInSeconds, Deadline

(* The time left is rounded up: an entry set for TtlSeconds lives long      *)
(* enough.                                                                  *)
LEMMA TtlCovers ==
  ASSUME TypeOK, IssuedForLifetime, NEW t \in Tokens
  PROVE  /\ TtlSeconds(t) \in 0..Lifetime
         /\ Deadline(t) <= now + TicksPerSecond * TtlSeconds(t)
<1>1. /\ now \in Nat /\ expires[t] \in Nat /\ TicksPerSecond \in Nat \ {0}
      /\ Lifetime \in Nat /\ NowInSeconds \in Nat
  BY TimeAssumption, VerifiedByDeadline DEF TypeOK
<1>2. CASE Verified(t)
  <2>1. NowInSeconds < expires[t] /\ expires[t] <= NowInSeconds + Lifetime
    BY <1>2 DEF Verified, IssuedForLifetime
  <2>2. PICK d \in Nat : expires[t] = NowInSeconds + d /\ d <= Lifetime
    <3>1. expires[t] - NowInSeconds \in Nat
      BY <1>1, <2>1
    <3> QED
      BY <1>1, <2>1, <3>1
  <2>3. TtlSeconds(t) = d
    BY <1>1, <1>2, <2>2 DEF TtlSeconds
  <2>4. Deadline(t) = TicksPerSecond * NowInSeconds + TicksPerSecond * d
    BY <1>1, <2>2 DEF Deadline
  <2>5. TicksPerSecond * NowInSeconds <= now
    BY VerifiedByDeadline
  <2>6. TicksPerSecond * d \in Nat /\ TicksPerSecond * NowInSeconds \in Nat
    BY <1>1
  <2> QED
    BY <1>1, <2>2, <2>3, <2>4, <2>5, <2>6
<1>3. CASE ~Verified(t)
  <2>1. TtlSeconds(t) = 0
    BY <1>3 DEF TtlSeconds
  <2>2. Deadline(t) <= now
    BY <1>1, <1>3, VerifiedByDeadline
  <2> QED
    BY <1>1, <2>1, <2>2
<1> QED
  BY <1>2, <1>3

-----------------------------------------------------------------------------

(* A request stays fine while time passes, tokens are issued and tokens are *)
(* spent.                                                                   *)
LEMMA FineStays ==
  ASSUME NEW q \in Request, NEW n \in Nat, NEW m \in Nat, n <= m,
         NEW e \in [Tokens -> Nat], NEW f \in [Tokens -> Nat],
         \A t \in Tokens : e[t] # 0 => f[t] = e[t],
         NEW s, NEW u, s \subseteq u,
         Fine(q, n, e, s)
  PROVE  Fine(q, m, f, u)
<1>1. q.at # "idle" => q.token \in Tokens /\ e[q.token] # 0 /\ f[q.token] = e[q.token]
  BY DEF Fine
<1>2. q.stale => q.token \in u /\ q.answer # Served /\ q.at \in {"check", "handle"}
  BY DEF Fine
<1> DEFINE d == TicksPerSecond * e[q.token]
           w == TicksPerSecond * q.ttl
<1>3. q.at # "idle" => d \in Nat
  BY <1>1, TimeAssumption
<1>4. w \in Nat
  BY TimeAssumption DEF Request
<1>5. q.at \in {"sign", "blacklist"} => d <= n + w
  BY DEF Fine
<1>6. q.stale /\ q.at = "handle" => d <= n
  BY DEF Fine
<1> HIDE DEF d, w
<1>7. q.at \in {"sign", "blacklist"} => d <= m + w
  BY <1>3, <1>4, <1>5
<1>8. q.stale /\ q.at = "handle" => d <= m
  BY <1>3, <1>6
<1>9. q.at # "idle" => TicksPerSecond * f[q.token] = d
  BY <1>1 DEF d
<1> QED
  BY <1>1, <1>2, <1>7, <1>8, <1>9 DEF Fine, w

(* The step of one request: what it becomes is all there is to show.        *)
LEMMA RequestStep ==
  ASSUME IInv, NEW r \in Requests, NEW v \in Request,
         request' = [request EXCEPT ![r] = v],
         now' = now, expires' \in [Tokens -> Nat], spent \subseteq spent',
         \A t \in Tokens : expires[t] # 0 => expires'[t] = expires[t],
         Fine(v, now, expires', spent')
  PROVE  /\ request' \in [Requests -> Request]
         /\ \A s \in Requests : Fine(request'[s], now', expires', spent')
<1>1. request \in [Requests -> Request] /\ now \in Nat /\ expires \in [Tokens -> Nat]
  BY TimeAssumption DEF IInv, TypeOK, Request
<1>2. request' \in [Requests -> Request]
  BY <1>1
<1>3. ASSUME NEW s \in Requests PROVE Fine(request'[s], now', expires', spent')
  <2>1. CASE s = r
    <3>1. request'[s] = v
      BY <1>1, <2>1
    <3> QED
      BY <3>1
  <2>2. CASE s # r
    <3>1. request'[s] = request[s] /\ request[s] \in Request
      BY <1>1, <2>2
    <3>2. Fine(request[s], now, expires, spent)
      BY DEF IInv
    <3>3. Fine(request[s], now, expires', spent')
      BY <1>1, <3>1, <3>2, FineStays
    <3> QED
      BY <3>1, <3>3
  <2> QED
    BY <2>1, <2>2
<1> QED
  BY <1>2, <1>3

(* A finished request is fine whatever it found.                            *)
LEMMA IdleIsFine ==
  ASSUME NEW answer \in {Nothing, Served, 401, 500, Revoked}, NEW n, NEW e, NEW s
  PROVE  Idle(answer) \in Request /\ Fine(Idle(answer), n, e, s)
BY TimeAssumption DEF Idle, Request, Kinds, Fine

LEMMA OnlyRequest ==
  ASSUME IInv, NEW r \in Requests, NEW v \in Request,
         request' = [request EXCEPT ![r] = v],
         UNCHANGED <<now, expires, blacklist, spent>>,
         Fine(v, now, expires, spent)
  PROVE  IInv'
<1>1. expires \in [Tokens -> Nat]
  BY DEF IInv, TypeOK
<1>2. Fine(v, now, expires', spent')
  OBVIOUS
<1>3. /\ request' \in [Requests -> Request]
      /\ \A s \in Requests : Fine(request'[s], now', expires', spent')
  BY <1>1, <1>2, RequestStep
<1>4. TypeOK'
  BY <1>3 DEF IInv, TypeOK, Request
<1>5. IssuedForLifetime' /\ SpentOutlived'
  BY DEF IInv, IssuedForLifetime, SpentOutlived, NowInSeconds, Deadline
<1> QED
  BY <1>3, <1>4, <1>5 DEF IInv

LEMMA Ended ==
  ASSUME IInv, NEW r \in Requests, NEW answer \in {Nothing, Served, 401, 500, Revoked},
         End(r, answer), UNCHANGED <<now, expires, blacklist, spent>>
  PROVE  IInv'
<1>1. Idle(answer) \in Request /\ Fine(Idle(answer), now, expires, spent)
  BY IdleIsFine
<1> QED
  BY <1>1, OnlyRequest DEF End

LEMMA RequestTypes ==
  ASSUME IInv, NEW r \in Requests
  PROVE  /\ request \in [Requests -> Request]
         /\ request[r] \in Request
         /\ Fine(request[r], now, expires, spent)
         /\ request[r].at # "idle" =>
              request[r].token \in Tokens /\ expires[request[r].token] # 0
<1>1. request \in [Requests -> Request]
  BY DEF IInv, TypeOK, Request
<1>2. Fine(request[r], now, expires, spent)
  BY DEF IInv
<1> QED
  BY <1>1, <1>2 DEF Fine

-----------------------------------------------------------------------------

LEMMA TickStep == ASSUME IInv, Tick PROVE IInv'
<1>1. now \in Nat /\ now' = now + 1 /\ now' \in 0..MaxTime
  BY TimeAssumption DEF IInv, TypeOK, Tick
<1>2. NowInSeconds \in Nat /\ NowInSeconds' \in Nat /\ NowInSeconds <= NowInSeconds'
  BY <1>1, TimeAssumption, SecondReached DEF NowInSeconds
<1>3. UNCHANGED <<expires, blacklist, request, spent>>
  BY DEF Tick
<1>4. TypeOK'
  BY <1>1, <1>3 DEF IInv, TypeOK
<1>5. IssuedForLifetime'
  <2>1. ASSUME NEW t \in Tokens PROVE expires[t] <= NowInSeconds' + Lifetime
    BY <1>2, TimeAssumption DEF IInv, TypeOK, IssuedForLifetime
  <2> QED
    BY <1>3, <2>1 DEF IssuedForLifetime
<1>6. SpentOutlived'
  <2>1. ASSUME NEW t \in spent
        PROVE  expires[t] # 0 /\ (Deadline(t) <= blacklist[t] \/ Deadline(t) <= now')
    <3>1. t \in Tokens /\ Deadline(t) \in Nat
      BY VerifiedByDeadline DEF IInv, TypeOK
    <3> QED
      BY <1>1, <3>1 DEF IInv, SpentOutlived
  <2> QED
    BY <1>3, <2>1 DEF SpentOutlived, Deadline
<1>7. ASSUME NEW r \in Requests PROVE Fine(request[r], now', expires, spent)
  <2>1. request[r] \in Request /\ Fine(request[r], now, expires, spent)
    BY RequestTypes
  <2> QED
    BY <1>1, <2>1, FineStays DEF IInv, TypeOK
<1> QED
  BY <1>3, <1>4, <1>5, <1>6, <1>7 DEF IInv

(* Issuing a token changes nothing that concerns another one.               *)
LEMMA SignStep ==
  ASSUME IInv, NEW t \in Tokens, Sign(t), UNCHANGED <<now, blacklist, spent>>
  PROVE  /\ expires' \in [Tokens -> Nat]
         /\ \A x \in Tokens : expires[x] # 0 => expires'[x] = expires[x]
         /\ IssuedForLifetime'
         /\ SpentOutlived'
<1>1. /\ expires \in [Tokens -> Nat] /\ now \in Nat /\ NowInSeconds \in Nat
      /\ Lifetime \in Nat /\ spent \subseteq Tokens
  BY TimeAssumption, VerifiedByDeadline DEF IInv, TypeOK
<1>2. NowInSeconds' = NowInSeconds
  BY DEF NowInSeconds
<1>3. expires' = [expires EXCEPT ![t] = NowInSeconds + Lifetime] /\ expires[t] = 0
  BY DEF Sign
<1>4. expires' \in [Tokens -> Nat]
  BY <1>1, <1>3
<1>5. \A x \in Tokens : expires[x] # 0 => expires'[x] = expires[x]
  BY <1>1, <1>3
<1>6. ASSUME NEW x \in Tokens PROVE expires'[x] <= NowInSeconds + Lifetime
  BY <1>1, <1>3 DEF IInv, IssuedForLifetime
<1>7. SpentOutlived'
  <2>1. ASSUME NEW x \in spent
        PROVE  /\ expires'[x] # 0
               /\ \/ TicksPerSecond * expires'[x] <= blacklist[x]
                  \/ TicksPerSecond * expires'[x] <= now
    BY <1>1, <1>5 DEF IInv, SpentOutlived, Deadline
  <2> QED
    BY <2>1 DEF SpentOutlived, Deadline
<1> QED
  BY <1>2, <1>4, <1>5, <1>6, <1>7 DEF IssuedForLifetime

LEMMA LoginStep == ASSUME IInv, NEW t \in Tokens, Login(t) PROVE IInv'
<1>1. Sign(t) /\ UNCHANGED <<now, blacklist, request, spent>>
  BY DEF Login
<1>2. /\ expires' \in [Tokens -> Nat]
      /\ \A x \in Tokens : expires[x] # 0 => expires'[x] = expires[x]
      /\ IssuedForLifetime' /\ SpentOutlived'
  BY <1>1, SignStep
<1>3. TypeOK'
  BY <1>1, <1>2 DEF IInv, TypeOK
<1>4. ASSUME NEW r \in Requests PROVE Fine(request[r], now, expires', spent)
  <2>1. request[r] \in Request /\ Fine(request[r], now, expires, spent)
    BY RequestTypes
  <2>2. now \in Nat /\ expires \in [Tokens -> Nat]
    BY TimeAssumption DEF IInv, TypeOK
  <2> QED
    BY <1>2, <2>1, <2>2, FineStays
<1> QED
  BY <1>1, <1>2, <1>3, <1>4 DEF IInv

-----------------------------------------------------------------------------

LEMMA CanActivateStep ==
  ASSUME IInv, NEW r \in Requests, NEW t \in Tokens, NEW kind \in Kinds,
         CanActivate(r, t, kind)
  PROVE  IInv'
<1>1. expires[t] # 0 /\ UNCHANGED <<now, expires, blacklist, spent>>
  BY DEF CanActivate
<1>2. CASE Verified(t)
  <2> DEFINE v == [at |-> "check", kind |-> kind, token |-> t, stale |-> t \in spent,
                   ttl |-> 0, answer |-> Nothing]
  <2>1. request' = [request EXCEPT ![r] = v]
    BY <1>2 DEF CanActivate
  <2>2. v \in Request
    <3>1. (t \in spent) \in BOOLEAN /\ 0 \in 0..Lifetime
      BY TimeAssumption
    <3> QED
      BY <3>1 DEF Request
  <2>3. Fine(v, now, expires, spent)
    <3>1. v.at = "check" /\ v.token = t /\ v.answer # Served
      BY DEF Nothing, Served
    <3>2. v.stale => t \in spent
      OBVIOUS
    <3> HIDE DEF v
    <3> QED
      BY <1>1, <3>1, <3>2 DEF Fine
  <2> QED
    BY <1>1, <2>1, <2>2, <2>3, OnlyRequest
<1>3. CASE ~Verified(t)
  <2>1. PICK answer \in {401, Revoked} : End(r, answer)
    BY <1>3 DEF CanActivate
  <2> QED
    BY <1>1, <2>1, Ended
<1> QED
  BY <1>2, <1>3

LEMMA CheckBlacklistStep ==
  ASSUME IInv, NEW r \in Requests, CheckBlacklist(r) PROVE IInv'
<1> DEFINE q == request[r]
<1>1. /\ q.at = "check" /\ q \in Request /\ q.token \in Tokens
      /\ Fine(q, now, expires, spent)
  BY RequestTypes DEF CheckBlacklist
<1>2. UNCHANGED <<now, expires, blacklist, spent>>
  BY DEF CheckBlacklist
<1>3. CASE \E answer \in {Served, 401, Revoked} : End(r, answer)
  BY <1>2, <1>3, Ended
<1>4. CASE /\ ~IsTokenBlacklisted(q.token)
           /\ request' = [request EXCEPT ![r].at = "handle"]
  <2> DEFINE v == [q EXCEPT !.at = "handle"]
  <2>1. request' = [request EXCEPT ![r] = v]
    BY <1>4, RequestTypes
  <2>2. v \in Request
    BY <1>1 DEF Request
  <2>3. q.stale => q.token \in spent /\ Deadline(q.token) <= now
    <3>1. SUFFICES ASSUME q.stale PROVE q.token \in spent /\ Deadline(q.token) <= now
      OBVIOUS
    <3>2. q.token \in spent
      BY <1>1, <3>1 DEF Fine
    <3>3. Deadline(q.token) <= blacklist[q.token] \/ Deadline(q.token) <= now
      BY <3>2 DEF IInv, SpentOutlived
    <3>4. /\ ~(now < blacklist[q.token]) /\ now \in Nat /\ blacklist[q.token] \in Nat
          /\ Deadline(q.token) \in Nat
      BY <1>1, <1>4, TimeAssumption, VerifiedByDeadline
      DEF IInv, TypeOK, IsTokenBlacklisted
    <3> QED
      BY <3>2, <3>3, <3>4
  <2>4. Fine(v, now, expires, spent)
    BY <1>1, <2>3 DEF Fine, Request, Deadline
  <2> QED
    BY <1>2, <2>1, <2>2, <2>4, OnlyRequest
<1> QED
  BY <1>3, <1>4 DEF CheckBlacklist, Refuse

LEMMA EndedRequest ==
  ASSUME IInv, NEW r \in Requests, End(r, Served) \/ End(r, 500),
         UNCHANGED <<now, expires>>, spent \subseteq spent'
  PROVE  /\ request' \in [Requests -> Request]
         /\ \A s \in Requests : Fine(request'[s], now', expires', spent')
<1>1. expires' \in [Tokens -> Nat] /\ expires \in [Tokens -> Nat]
  BY DEF IInv, TypeOK
<1>2. PICK answer \in {Served, 500} : request' = [request EXCEPT ![r] = Idle(answer)]
  BY DEF End
<1>3. Idle(answer) \in Request /\ Fine(Idle(answer), now, expires', spent')
  BY IdleIsFine
<1>4. PICK v \in Request :
        request' = [request EXCEPT ![r] = v] /\ Fine(v, now, expires', spent')
  BY <1>2, <1>3
<1> QED
  BY <1>1, <1>4, RequestStep

(* The end of a request that has just spent its token t.                    *)
LEMMA SpentStep ==
  ASSUME IInv, NEW r \in Requests, NEW t \in Tokens, expires[t] # 0,
         End(r, Served) \/ End(r, 500), UNCHANGED <<now, expires>>,
         spent' = spent \/ spent' = spent \cup {t},
         blacklist' \in [Tokens -> Nat],
         \A x \in Tokens \ {t} : blacklist'[x] = blacklist[x],
         Deadline(t) <= blacklist'[t] \/ Deadline(t) <= now
  PROVE  IInv'
<1>1. expires \in [Tokens -> Nat] /\ spent' \subseteq Tokens /\ spent \subseteq spent'
  BY DEF IInv, TypeOK
<1>4. /\ request' \in [Requests -> Request]
      /\ \A s \in Requests : Fine(request'[s], now', expires', spent')
  BY <1>1, EndedRequest
<1>5. TypeOK'
  BY <1>1, <1>4 DEF IInv, TypeOK, Request
<1>6. IssuedForLifetime'
  BY DEF IInv, IssuedForLifetime, NowInSeconds
<1>7. SpentOutlived'
  <2>1. ASSUME NEW x \in spent'
        PROVE  expires[x] # 0 /\ (Deadline(x) <= blacklist'[x] \/ Deadline(x) <= now)
    <3>1. CASE x = t
      BY <3>1
    <3>2. CASE x # t
      BY <1>1, <3>2 DEF IInv, SpentOutlived
    <3> QED
      BY <3>1, <3>2
  <2> QED
    BY <2>1 DEF SpentOutlived, Deadline
<1> QED
  BY <1>4, <1>5, <1>6, <1>7 DEF IInv

-----------------------------------------------------------------------------

LEMMA LogoutStep == ASSUME IInv, NEW r \in Requests, Logout(r) PROVE IInv'
<1> DEFINE q == request[r]
           t == q.token
<1>1. /\ q.at = "handle" /\ q \in Request /\ t \in Tokens /\ expires[t] # 0
      /\ Fine(q, now, expires, spent)
  BY RequestTypes DEF Logout
<1>2. UNCHANGED <<now, expires, blacklist>>
  BY DEF Logout
<1>3. /\ TtlSeconds(t) \in 0..Lifetime /\ Deadline(t) \in Nat /\ now \in Nat
      /\ TicksPerSecond \in Nat /\ Deadline(t) <= now + TicksPerSecond * TtlSeconds(t)
  BY <1>1, TtlCovers, VerifiedByDeadline, TimeAssumption DEF IInv, TypeOK
<1>4. CASE TtlSeconds(t) = 0
  <2>1. Deadline(t) <= now
    BY <1>3, <1>4
  <2>2. End(r, Served) /\ spent' = spent \cup {t}
    BY <1>4 DEF Logout
  <2>3. blacklist' \in [Tokens -> Nat] /\ \A x \in Tokens \ {t} : blacklist'[x] = blacklist[x]
    BY <1>2 DEF IInv, TypeOK
  <2> HIDE DEF t
  <2> QED
    BY <1>1, <1>2, <2>1, <2>2, <2>3, SpentStep
<1>5. CASE TtlSeconds(t) # 0
  <2> DEFINE v == [q EXCEPT !.at = "blacklist", !.ttl = TtlSeconds(t)]
  <2>1. request' = [request EXCEPT ![r] = v] /\ spent' = spent
    BY <1>5, RequestTypes DEF Logout
  <2>2. v \in Request
    BY <1>1, <1>3 DEF Request
  <2>3. ~q.stale
    <3>1. ~Verified(t) => TtlSeconds(t) = 0
      BY DEF TtlSeconds
    <3>2. now < Deadline(t)
      BY <1>1, <1>5, <3>1, VerifiedByDeadline DEF IInv
    <3> QED
      BY <1>1, <1>3, <3>2 DEF Fine, Deadline
  <2>4. Fine(v, now, expires, spent)
    BY <1>1, <1>3, <2>3 DEF Fine, Request, Deadline
  <2> QED
    BY <1>2, <2>1, <2>2, <2>4, OnlyRequest
<1> QED
  BY <1>4, <1>5

LEMMA IssueNewJwtStep ==
  ASSUME IInv, NEW r \in Requests, IssueNewJwt(r) PROVE IInv'
<1> DEFINE q == request[r]
           t == q.token
<1>1. /\ q.at = "handle" /\ q \in Request /\ t \in Tokens /\ expires[t] # 0
      /\ Fine(q, now, expires, spent)
  BY RequestTypes DEF IssueNewJwt
<1>2. UNCHANGED <<now, expires, blacklist, spent>>
  BY DEF IssueNewJwt
<1>3. /\ TtlSeconds(t) \in 0..Lifetime /\ Deadline(t) \in Nat /\ now \in Nat
      /\ TicksPerSecond \in Nat /\ Deadline(t) <= now + TicksPerSecond * TtlSeconds(t)
  BY <1>1, TtlCovers, VerifiedByDeadline, TimeAssumption DEF IInv, TypeOK
<1>4. CASE Verified(t)
  <2> DEFINE v == [q EXCEPT !.at = "sign", !.ttl = TtlSeconds(t)]
  <2>1. request' = [request EXCEPT ![r] = v]
    BY <1>4, RequestTypes DEF IssueNewJwt
  <2>2. v \in Request
    BY <1>1, <1>3 DEF Request
  <2>3. ~q.stale
    <3>1. now < Deadline(t)
      BY <1>1, <1>4, VerifiedByDeadline DEF IInv
    <3> QED
      BY <1>1, <1>3, <3>1 DEF Fine, Deadline
  <2>4. Fine(v, now, expires, spent)
    BY <1>1, <1>3, <2>3 DEF Fine, Request, Deadline
  <2> QED
    BY <1>2, <2>1, <2>2, <2>4, OnlyRequest
<1>5. CASE ~Verified(t)
  <2>1. End(r, 401)
    BY <1>5 DEF IssueNewJwt
  <2> QED
    BY <1>2, <2>1, Ended
<1> QED
  BY <1>4, <1>5

LEMMA SignNewJwtStep ==
  ASSUME IInv, NEW r \in Requests, NEW n \in Tokens, SignNewJwt(r, n) PROVE IInv'
<1> DEFINE q == request[r]
<1>1. /\ q.at = "sign" /\ q \in Request /\ q.token \in Tokens /\ expires[q.token] # 0
      /\ Fine(q, now, expires, spent)
  BY RequestTypes DEF SignNewJwt
<1>2. UNCHANGED <<now, blacklist, spent>>
  BY DEF SignNewJwt
<1>3. CASE End(r, 401) /\ UNCHANGED expires
  BY <1>2, <1>3, Ended
<1>4. CASE Sign(n) /\ request' = [request EXCEPT ![r].at = "blacklist"]
  <2> DEFINE v == [q EXCEPT !.at = "blacklist"]
  <2>1. request' = [request EXCEPT ![r] = v]
    BY <1>4, RequestTypes
  <2>2. v \in Request
    BY <1>1 DEF Request
  <2>3. /\ expires' \in [Tokens -> Nat]
        /\ \A x \in Tokens : expires[x] # 0 => expires'[x] = expires[x]
        /\ IssuedForLifetime' /\ SpentOutlived'
    BY <1>2, <1>4, SignStep
  <2>4. Fine(v, now, expires', spent')
    <3>1. expires'[q.token] = expires[q.token]
      BY <1>1, <2>3
    <3> QED
      BY <1>1, <1>2, <3>1 DEF Fine, Request
  <2>5. /\ request' \in [Requests -> Request]
        /\ \A s \in Requests : Fine(request'[s], now', expires', spent')
    <3>1. PICK w \in Request :
            request' = [request EXCEPT ![r] = w] /\ Fine(w, now, expires', spent')
      BY <2>1, <2>2, <2>4
    <3> QED
      BY <1>2, <2>3, <3>1, RequestStep
  <2>6. TypeOK'
    BY <1>2, <2>3, <2>5 DEF IInv, TypeOK, Request
  <2> QED
    BY <2>3, <2>5, <2>6 DEF IInv
<1> QED
  BY <1>3, <1>4 DEF SignNewJwt

(* The entry that a request is about to write.                              *)
LEMMA EntryLives ==
  ASSUME IInv, NEW r \in Requests, request[r].at = "blacklist",
         blacklist' = [blacklist EXCEPT ![request[r].token] =
                         now + TicksPerSecond * request[r].ttl]
  PROVE  /\ request[r].token \in Tokens /\ expires[request[r].token] # 0
         /\ blacklist' \in [Tokens -> Nat]
         /\ \A x \in Tokens \ {request[r].token} : blacklist'[x] = blacklist[x]
         /\ Deadline(request[r].token) <= blacklist'[request[r].token]
<1> DEFINE q == request[r]
           end == now + TicksPerSecond * q.ttl
<1>1. /\ q \in Request /\ q.token \in Tokens /\ expires[q.token] # 0
      /\ Fine(q, now, expires, spent)
  BY RequestTypes
<1>2. end \in Nat
  <2>1. q.ttl \in Nat
    BY <1>1, TimeAssumption DEF Request
  <2>2. now \in Nat /\ TicksPerSecond \in Nat
    BY TimeAssumption DEF IInv, TypeOK
  <2> HIDE DEF q
  <2> QED
    BY <2>1, <2>2
<1>3. Deadline(q.token) <= end
  BY <1>1 DEF Fine, Deadline
<1>4. blacklist \in [Tokens -> Nat] /\ blacklist' = [blacklist EXCEPT ![q.token] = end]
  BY DEF IInv, TypeOK
<1> HIDE DEF end, q
<1>5. /\ blacklist' \in [Tokens -> Nat] /\ blacklist'[q.token] = end
      /\ \A x \in Tokens \ {q.token} : blacklist'[x] = blacklist[x]
  BY <1>1, <1>2, <1>4
<1> QED
  BY <1>1, <1>3, <1>5 DEF q

LEMMA BlacklistTokenStep ==
  ASSUME IInv, NEW r \in Requests, BlacklistToken(r) PROVE IInv'
<1>1. /\ request[r].at = "blacklist"
      /\ blacklist' = [blacklist EXCEPT ![request[r].token] =
                         now + TicksPerSecond * request[r].ttl]
      /\ spent' = spent \cup {request[r].token}
      /\ End(r, Served) /\ UNCHANGED <<now, expires>>
  BY DEF BlacklistToken
<1>2. PICK t \in Tokens :
        /\ expires[t] # 0 /\ spent' = spent \cup {t}
        /\ blacklist' \in [Tokens -> Nat]
        /\ \A x \in Tokens \ {t} : blacklist'[x] = blacklist[x]
        /\ Deadline(t) <= blacklist'[t]
  BY <1>1, EntryLives
<1> QED
  BY <1>1, <1>2, SpentStep

LEMMA FailStep == ASSUME IInv, NEW r \in Requests, Fail(r) PROVE IInv'
<1>1. End(r, 500) /\ UNCHANGED <<now, expires, spent>>
  BY DEF Fail
<1>2. CASE UNCHANGED blacklist
  BY <1>1, <1>2, Ended
<1>3. CASE /\ request[r].at = "blacklist"
           /\ blacklist' = [blacklist EXCEPT ![request[r].token] =
                              now + TicksPerSecond * request[r].ttl]
  <2>1. PICK t \in Tokens :
          /\ expires[t] # 0
          /\ blacklist' \in [Tokens -> Nat]
          /\ \A x \in Tokens \ {t} : blacklist'[x] = blacklist[x]
          /\ Deadline(t) <= blacklist'[t]
    BY <1>3, EntryLives
  <2> QED
    BY <1>1, <2>1, SpentStep
<1> QED
  BY <1>2, <1>3 DEF Fail

-----------------------------------------------------------------------------

LEMMA Initially == Init => IInv
<1> SUFFICES ASSUME Init PROVE IInv
  OBVIOUS
<1>1. \A r \in Requests : request[r] = Idle(Nothing)
  BY DEF Init
<1>2. Idle(Nothing) \in Request /\ Fine(Idle(Nothing), now, expires, spent)
  BY IdleIsFine
<1>3. request \in [Requests -> Request]
  BY <1>2 DEF Init
<1>4. TypeOK
  BY <1>3, TimeAssumption DEF Init, TypeOK, Request
<1>5. NowInSeconds \in Nat
  BY TimeAssumption, SecondReached DEF Init, NowInSeconds
<1>6. IssuedForLifetime
  <2>1. ASSUME NEW t \in Tokens PROVE expires[t] <= NowInSeconds + Lifetime
    <3>1. expires[t] = 0 /\ Lifetime \in Nat
      BY TimeAssumption DEF Init
    <3> QED
      BY <1>5, <3>1
  <2> QED
    BY <2>1 DEF IssuedForLifetime
<1>7. SpentOutlived
  BY DEF Init, SpentOutlived
<1> QED
  BY <1>1, <1>2, <1>4, <1>6, <1>7 DEF IInv

LEMMA Preserved == IInv /\ [Next]_vars => IInv'
<1> SUFFICES ASSUME IInv, [Next]_vars PROVE IInv'
  OBVIOUS
<1>1. CASE Tick
  BY <1>1, TickStep
<1>2. CASE \E t \in Tokens : Login(t)
  BY <1>2, LoginStep
<1>3. CASE \E r \in Requests, t \in Tokens, kind \in Kinds : CanActivate(r, t, kind)
  BY <1>3, CanActivateStep
<1>4. ASSUME NEW r \in Requests, CheckBlacklist(r) PROVE IInv'
  BY <1>4, CheckBlacklistStep
<1>5. ASSUME NEW r \in Requests, Logout(r) PROVE IInv'
  BY <1>5, LogoutStep
<1>6. ASSUME NEW r \in Requests, IssueNewJwt(r) PROVE IInv'
  BY <1>6, IssueNewJwtStep
<1>7. ASSUME NEW r \in Requests, NEW n \in Tokens, SignNewJwt(r, n) PROVE IInv'
  BY <1>7, SignNewJwtStep
<1>8. ASSUME NEW r \in Requests, BlacklistToken(r) PROVE IInv'
  BY <1>8, BlacklistTokenStep
<1>9. ASSUME NEW r \in Requests, Fail(r) PROVE IInv'
  BY <1>9, FailStep
<1>10. CASE UNCHANGED vars
  BY <1>10 DEF vars, IInv, TypeOK, IssuedForLifetime, SpentOutlived, Fine,
               NowInSeconds, Deadline
<1> QED
  BY <1>1, <1>2, <1>3, <1>4, <1>5, <1>6, <1>7, <1>8, <1>9, <1>10 DEF Next

(* The strengthening holds in every behaviour of tokens, requests and clock *)
(* that the auth service, the guard and the handshake allow.                *)
THEOREM Inductive == Spec => []IInv
BY Initially, Preserved, PTL DEF Spec

(* Every request of the auth service keeps its fields within their types,   *)
(* and no time left to a token exceeds the lifetime of tokens.              *)
THEOREM TypeCorrect == Spec => []TypeOK
<1>1. IInv => TypeOK
  BY DEF IInv
<1> QED
  BY <1>1, Inductive, PTL

(* However late logout and refresh write their entry to the blacklist, it   *)
(* outlives the token, at any resolution of the clock.                      *)
THEOREM BlacklistOutlives == Spec => []SpentIsRefused
<1>1. IInv => SpentIsRefused
  <2> SUFFICES ASSUME IInv, NEW t \in spent, Verified(t) PROVE IsTokenBlacklisted(t)
    BY DEF SpentIsRefused
  <2>1. t \in Tokens /\ now \in Nat /\ blacklist[t] \in Nat
    BY TimeAssumption DEF IInv, TypeOK
  <2>2. Deadline(t) \in Nat /\ now < Deadline(t)
    BY <2>1, VerifiedByDeadline DEF IInv
  <2> QED
    BY <2>1, <2>2 DEF IInv, SpentOutlived, IsTokenBlacklisted
<1> QED
  BY <1>1, Inductive, PTL

(* What one step does to a request that is stale.                           *)
LEMMA StaleStep ==
  ASSUME IInv, [Next]_vars, NEW r \in Requests, request[r].stale, Verified(request[r].token)
  PROVE  request'[r] = request[r] \/ request'[r].answer \in {401, 500, Revoked}
<1> DEFINE q == request[r]
           Refused == request'[r] = q \/ request'[r].answer \in {401, 500, Revoked}
<1>1. /\ request \in [Requests -> Request] /\ q.token \in Tokens
      /\ q.token \in spent /\ q.at \in {"check", "handle"}
      /\ q.at = "handle" => Deadline(q.token) <= now
  BY RequestTypes DEF IInv, TypeOK, Fine, Deadline
<1>2. q.at = "check"
  <2>1. /\ Deadline(q.token) \in Nat /\ now \in Nat /\ now < Deadline(q.token)
    BY <1>1, TimeAssumption, VerifiedByDeadline DEF IInv, TypeOK
  <2> QED
    BY <1>1, <2>1
<1>3. IsTokenBlacklisted(q.token)
  <2>1. /\ Deadline(q.token) \in Nat /\ now \in Nat /\ now < Deadline(q.token)
        /\ blacklist[q.token] \in Nat
    BY <1>1, TimeAssumption, VerifiedByDeadline DEF IInv, TypeOK
  <2> QED
    BY <1>1, <2>1 DEF IInv, SpentOutlived, IsTokenBlacklisted
<1>4. ASSUME NEW answer, End(r, answer) PROVE request'[r].answer = answer
  BY <1>1, <1>4 DEF End, Idle
<1>5. ASSUME NEW s \in Requests \ {r}, NEW v, request' = [request EXCEPT ![s] = v]
      PROVE  Refused
  BY <1>1, <1>5
<1>6. ASSUME NEW s \in Requests, request[s].at # "check",
             \E v : request' = [request EXCEPT ![s] = v]
      PROVE  Refused
  BY <1>2, <1>5, <1>6
<1>7. ASSUME NEW s \in Requests, NEW t \in Tokens, NEW kind \in Kinds,
             CanActivate(s, t, kind)
      PROVE  Refused
  BY <1>6, <1>7 DEF CanActivate, End
<1>8. ASSUME NEW s \in Requests, CheckBlacklist(s) PROVE Refused
  <2>1. CASE s = r
    BY <1>3, <1>4, <1>8, <2>1 DEF CheckBlacklist, Refuse
  <2>2. CASE s # r
    BY <1>5, <1>8, <2>2 DEF CheckBlacklist, Refuse, End
  <2> QED
    BY <2>1, <2>2
<1>9. ASSUME NEW s \in Requests, Logout(s) PROVE Refused
  BY <1>6, <1>9 DEF Logout, End
<1>10. ASSUME NEW s \in Requests, IssueNewJwt(s) PROVE Refused
  BY <1>6, <1>10 DEF IssueNewJwt, End
<1>11. ASSUME NEW s \in Requests, NEW n \in Tokens, SignNewJwt(s, n) PROVE Refused
  BY <1>6, <1>11 DEF SignNewJwt, End
<1>12. ASSUME NEW s \in Requests, BlacklistToken(s) PROVE Refused
  BY <1>6, <1>12 DEF BlacklistToken, End
<1>13. ASSUME NEW s \in Requests, Fail(s) PROVE Refused
  <2>1. End(s, 500)
    BY <1>13 DEF Fail
  <2>2. CASE s = r
    BY <1>4, <2>1, <2>2
  <2>3. CASE s # r
    BY <1>5, <2>1, <2>3 DEF End
  <2> QED
    BY <2>2, <2>3
<1>14. CASE Tick \/ (\E t \in Tokens : Login(t)) \/ UNCHANGED vars
  BY <1>14 DEF Tick, Login, vars
<1> QED
  BY <1>7, <1>8, <1>9, <1>10, <1>11, <1>12, <1>13, <1>14 DEF Next

LEMMA StaleNotRotated ==
  ASSUME IInv, [Next]_vars, NEW r \in Requests, request[r].stale
  PROVE  request'[r].at # "blacklist"
<1> DEFINE q == request[r]
           Kept == request'[r].at \in {"idle", "check", "handle"}
<1>1. /\ request \in [Requests -> Request] /\ q.token \in Tokens
      /\ q.at \in {"check", "handle"}
      /\ q.at = "handle" => ~Verified(q.token)
  <2>1. /\ request \in [Requests -> Request] /\ q.token \in Tokens
        /\ q.at \in {"check", "handle"}
        /\ q.at = "handle" => Deadline(q.token) <= now
    BY RequestTypes DEF IInv, TypeOK, Fine, Deadline
  <2>2. /\ Deadline(q.token) \in Nat /\ now \in Nat
        /\ Verified(q.token) <=> now < Deadline(q.token)
    BY <2>1, TimeAssumption, VerifiedByDeadline DEF IInv, TypeOK
  <2> QED
    BY <2>1, <2>2
<1>2. ASSUME NEW s \in Requests, NEW answer, End(s, answer) PROVE Kept
  BY <1>1, <1>2 DEF End, Idle
<1>3. ASSUME NEW s \in Requests \ {r}, NEW v, request' = [request EXCEPT ![s] = v]
      PROVE  Kept
  BY <1>1, <1>3
<1>4. ASSUME NEW s \in Requests, request[s].at \notin {"check", "handle"},
             \E v : request' = [request EXCEPT ![s] = v]
      PROVE  Kept
  BY <1>1, <1>3, <1>4
<1>5. ASSUME NEW s \in Requests, NEW t \in Tokens, NEW kind \in Kinds,
             CanActivate(s, t, kind)
      PROVE  Kept
  BY <1>4, <1>5 DEF CanActivate, End
<1>6. ASSUME NEW s \in Requests, CheckBlacklist(s) PROVE Kept
  <2>1. CASE request' = [request EXCEPT ![s].at = "handle"]
    <3>1. CASE s = r
      BY <1>1, <2>1, <3>1
    <3>2. CASE s # r
      BY <1>3, <2>1, <3>2
    <3> QED
      BY <3>1, <3>2
  <2>2. CASE \E answer : End(s, answer)
    BY <1>2, <2>2
  <2> QED
    BY <1>6, <2>1, <2>2 DEF CheckBlacklist, Refuse
<1>7. ASSUME NEW s \in Requests, Logout(s) PROVE Kept
  <2>1. CASE s = r
    <3>1. TtlSeconds(q.token) = 0
      BY <1>1, <1>7, <2>1 DEF Logout, TtlSeconds
    <3>2. End(s, Served)
      BY <1>7, <2>1, <3>1 DEF Logout
    <3> QED
      BY <1>2, <3>2
  <2>2. CASE s # r
    BY <1>3, <1>7, <2>2 DEF Logout, End
  <2> QED
    BY <2>1, <2>2
<1>8. ASSUME NEW s \in Requests, IssueNewJwt(s) PROVE Kept
  <2>1. CASE s = r
    BY <1>1, <1>2, <1>8, <2>1 DEF IssueNewJwt
  <2>2. CASE s # r
    BY <1>3, <1>8, <2>2 DEF IssueNewJwt, End
  <2> QED
    BY <2>1, <2>2
<1>9. ASSUME NEW s \in Requests, NEW n \in Tokens, SignNewJwt(s, n) PROVE Kept
  BY <1>4, <1>9 DEF SignNewJwt, End
<1>10. ASSUME NEW s \in Requests, BlacklistToken(s) PROVE Kept
  BY <1>2, <1>10 DEF BlacklistToken
<1>11. ASSUME NEW s \in Requests, Fail(s) PROVE Kept
  BY <1>2, <1>11 DEF Fail
<1>12. CASE Tick \/ (\E t \in Tokens : Login(t)) \/ UNCHANGED vars
  BY <1>1, <1>12 DEF Tick, Login, vars
<1> QED
  BY <1>5, <1>6, <1>7, <1>8, <1>9, <1>10, <1>11, <1>12 DEF Next

(* A request of a token that had been logged out or rotated is never served *)
(* while the token has not expired, and never given a successor.            *)
THEOREM SpentStaysSpent == Spec => NothingAfterSpent
<1>1. ASSUME IInv, [Next]_vars, IInv', NEW r \in Requests, request[r].stale
      PROVE  /\ request'[r].at # "blacklist"
             /\ Verified(request[r].token) => request'[r].answer # Served
  <2>1. request[r].answer # Served
    BY <1>1 DEF IInv, Fine
  <2>2. Verified(request[r].token) => request'[r].answer # Served
    BY <1>1, <2>1, StaleStep DEF Revoked, Served
  <2>3. request'[r].at # "blacklist"
    BY <1>1, StaleNotRotated
  <2> QED
    BY <2>2, <2>3
<1>2. IInv /\ IInv' /\ [Next]_vars =>
        [\A r \in Requests : request[r].stale =>
           /\ request'[r].at # "blacklist"
           /\ Verified(request[r].token) => request'[r].answer # Served]_vars
  BY <1>1
<1> QED
  BY <1>2, Inductive, PTL DEF Spec, NothingAfterSpent

=============================================================================
