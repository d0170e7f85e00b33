------------------------------- MODULE Sessions -------------------------------
(***************************************************************************)
(* The life of JSON web tokens: issued by login and refresh, checked by the *)
(* HTTP guard and by the handshake of the gateway, and put on the blacklist *)
(* in Redis by logout and refresh.  A request gives way at every await.     *)
(*                                                                         *)
(* A JWT expires on a whole second of the server's clock; an entry of the   *)
(* blacklist lives for a number of seconds from the moment it is set, which *)
(* may be between two seconds.  Time is therefore counted in ticks.         *)
(***************************************************************************)
EXTENDS Naturals

CONSTANTS
  Tokens,          \* identifiers (jti) to be issued
  Requests,        \* concurrent requests
  Lifetime,        \* JWT_EXPIRY in seconds
  TicksPerSecond,
  MaxTime          \* bound on the clock, in ticks

ASSUME TimeAssumption ==
  /\ Lifetime \in Nat \ {0}
  /\ TicksPerSecond \in Nat \ {0}
  /\ MaxTime \in Nat

NoToken == "none"
ASSUME TokensAssumption == NoToken \notin Tokens

VARIABLES
  now,         \* the clock, in ticks
  expires,     \* expires[t]: second at which t expires, 0 before it is issued
  blacklist,   \* blacklist[t]: tick until which the entry of t lives
  request,     \* request[r]: progress of request r
  spent        \* tokens whose logout or refresh has been answered

vars == <<now, expires, blacklist, request, spent>>

(* A call of a protected route that only reads, the handshake of a socket,  *)
(* and the two routes that end a token.                                     *)
Kinds == {"read", "connect", "logout", "refresh"}

Idle(answer) == [at |-> "idle", kind |-> "read", token |-> NoToken,
                 stale |-> FALSE, ttl |-> 0, answer |-> answer]

Nothing == 0
Served == 2        \* a status 2xx, or the handshake is over
Revoked == 4001    \* close code of a socket; the routes answer 401

Init ==
  /\ now = 0
  /\ expires = [t \in Tokens |-> 0]
  /\ blacklist = [t \in Tokens |-> 0]
  /\ request = [r \in Requests |-> Idle(Nothing)]
  /\ spent = {}

-----------------------------------------------------------------------------

(* Math.floor(Date.now() / 1000)                                            *)
NowInSeconds == now \div TicksPerSecond

(* jsonwebtoken: a token is valid as long as its second has not come.       *)
Verified(t) == NowInSeconds < expires[t]

(* Fault to be caught: nothing is ever found on the blacklist.              *)
NeverBlacklisted(t) == FALSE

(* EXISTS of the key, which Redis drops when its time is over.              *)
IsTokenBlacklisted(t) == now < blacklist[t]

End(r, answer) == request' = [request EXCEPT ![r] = Idle(answer)]

Refuse(r) == End(r, IF request[r].kind = "connect" THEN Revoked ELSE 401)

(* jsonwebtoken: sign a token that was not issued before.                   *)
Sign(t) ==
  /\ expires[t] = 0
  /\ expires' = [expires EXCEPT ![t] = NowInSeconds + Lifetime]

Tick ==
  /\ now < MaxTime
  /\ now' = now + 1
  /\ UNCHANGED <<expires, blacklist, request, spent>>

-----------------------------------------------------------------------------

(* A login whose password and account are in order (module Accounts).       *)
Login(t) ==
  /\ Sign(t)
  /\ UNCHANGED <<now, blacklist, request, spent>>

(* A request arrives with token t; its signature and expiry are verified    *)
(* first, without a call.                                                   *)
CanActivate(r, t, kind) ==
  /\ request[r].at = "idle"
  /\ expires[t] # 0
  /\ IF Verified(t)
       THEN request' = [request EXCEPT ![r] =
              [at |-> "check", kind |-> kind, token |-> t, stale |-> t \in spent,
               ttl |-> 0, answer |-> Nothing]]
       ELSE End(r, IF kind = "connect" THEN Revoked ELSE 401)
  /\ UNCHANGED <<now, expires, blacklist, spent>>

(* The guard, or the handshake, asks Redis for the blacklist.               *)
CheckBlacklist(r) ==
  /\ request[r].at = "check"
  /\ IF IsTokenBlacklisted(request[r].token) THEN Refuse(r)
     ELSE IF request[r].kind \in {"read", "connect"} THEN End(r, Served)
     ELSE request' = [request EXCEPT ![r].at = "handle"]
  /\ UNCHANGED <<now, expires, blacklist, spent>>

-----------------------------------------------------------------------------

(* Fault to be caught: the time left is rounded down, not up.               *)
TtlRoundedDown(t) == (TicksPerSecond * expires[t] - now) \div TicksPerSecond

(* Fault to be caught: an expired token is not told apart.                  *)
TtlUnchecked(t) == expires[t] - NowInSeconds

(* The seconds left to a token: none when it has expired meanwhile.         *)
TtlSeconds(t) == IF Verified(t) THEN expires[t] - NowInSeconds ELSE 0

(* An expired token is not stored: nobody accepts it any more.              *)
Logout(r) ==
  /\ request[r].at = "handle"
  /\ request[r].kind = "logout"
  /\ LET t == request[r].token
         ttl == TtlSeconds(t)
     IN  IF ttl = 0
           THEN /\ End(r, Served)
                /\ spent' = spent \cup {t}
           ELSE /\ request' = [request EXCEPT ![r].at = "blacklist", ![r].ttl = ttl]
                /\ UNCHANGED spent
  /\ UNCHANGED <<now, expires, blacklist>>

(* issueNewJwt reads the clock before the user and the blacklist are read.  *)
IssueNewJwt(r) ==
  /\ request[r].at = "handle"
  /\ request[r].kind = "refresh"
  /\ LET t == request[r].token
     IN  IF Verified(t)
           THEN request' = [request EXCEPT ![r].at = "sign", ![r].ttl = TtlSeconds(t)]
           ELSE End(r, 401)
  /\ UNCHANGED <<now, expires, blacklist, spent>>

(* The blacklist is asked a second time, and the successor n signed.        *)
SignNewJwt(r, n) ==
  /\ request[r].at = "sign"
  /\ IF IsTokenBlacklisted(request[r].token)
       THEN End(r, 401) /\ UNCHANGED expires
       ELSE Sign(n) /\ request' = [request EXCEPT ![r].at = "blacklist"]
  /\ UNCHANGED <<now, blacklist, spent>>

(* SET with EX, however late it is; the answer follows.                     *)
BlacklistToken(r) ==
  /\ request[r].at = "blacklist"
  /\ LET t == request[r].token
     IN  /\ blacklist' = [blacklist EXCEPT ![t] = now + TicksPerSecond * request[r].ttl]
         /\ spent' = spent \cup {t}
  /\ End(r, Served)
  /\ UNCHANGED <<now, expires>>

(* A call fails, before or after Redis has acted on it.                     *)
Fail(r) ==
  /\ request[r].at \in {"check", "sign", "blacklist"}
  /\ End(r, 500)
  /\ \/ UNCHANGED blacklist
     \/ /\ request[r].at = "blacklist"
        /\ blacklist' = [blacklist EXCEPT ![request[r].token] =
                           now + TicksPerSecond * request[r].ttl]
  /\ UNCHANGED <<now, expires, spent>>

Next ==
  \/ Tick
  \/ \E t \in Tokens : Login(t)
  \/ \E r \in Requests, t \in Tokens, kind \in Kinds : CanActivate(r, t, kind)
  \/ \E r \in Requests :
       \/ CheckBlacklist(r)
       \/ Logout(r)
       \/ IssueNewJwt(r)
       \/ \E n \in Tokens : SignNewJwt(r, n)
       \/ BlacklistToken(r)
       \/ Fail(r)

Spec == Init /\ [][Next]_vars

-----------------------------------------------------------------------------

TypeOK ==
  /\ now \in 0..MaxTime
  /\ expires \in [Tokens -> Nat]
  /\ blacklist \in [Tokens -> Nat]
  /\ request \in [Requests ->
       [at : {"idle", "check", "handle", "sign", "blacklist"}, kind : Kinds,
        token : Tokens \cup {NoToken}, stale : BOOLEAN, ttl : 0..Lifetime,
        answer : {Nothing, Served, 401, 500, Revoked}]]
  /\ spent \subseteq Tokens

(* A token that was logged out or rotated stays on the blacklist for as     *)
(* long as its own expiry would still let it in.                            *)
SpentIsRefused ==
  \A t \in spent : Verified(t) => IsTokenBlacklisted(t)

(* A request that arrived after the logout or the refresh of its token was  *)
(* answered (auth.controller.ts: "so it can no longer be used on protected  *)
(* routes") gets no successor to the token, and is served only if its check *)
(* of the blacklist is so late that the token, still valid when the request *)
(* arrived, has expired and its entry is gone.                              *)
NothingAfterSpent ==
  [][\A r \in Requests : request[r].stale =>
       /\ request'[r].at # "blacklist"
       /\ Verified(request[r].token) => request'[r].answer # Served]_vars

=============================================================================
