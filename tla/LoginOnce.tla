------------------------------ MODULE LoginOnce -----------------------------
(***************************************************************************)
(* POST /auth/login up to the new session (api/v1/auth.py,                 *)
(* security/telegram.py): initData is accepted while it is fresh, and      *)
(* remembered in Redis so that it logs in once.  What the login does to    *)
(* the tables is in Sessions.  Times are in seconds, or any coarser unit.  *)
(***************************************************************************)
EXTENDS Integers

CONSTANTS
  Logins,    \* bound: login requests under way at a time
  InitData,  \* bound: initData that Telegram ever signs
  NoData,    \* none
  Skews,     \* how far Telegram's clock may be ahead of the server's
  MaxAge,    \* initdata_max_age_seconds
  Ahead,     \* seconds that auth_date may lie ahead
  NonceTtl,  \* seconds that initData stays remembered
  Delay,     \* bound: seconds from the verification to the call of Redis
  MaxTime    \* bound

ASSUME LoginAssumption ==
  /\ NoData \notin InitData
  /\ Skews \subseteq Int
  /\ MaxAge \in Nat /\ Ahead \in Nat /\ NonceTtl \in Nat \ {0} /\ Delay \in Nat
  /\ MaxTime \in Nat

VARIABLES
  clock,
  signed,    \* initData that Telegram has signed
  authDate,  \* its auth_date
  used,      \* when Redis forgets it
  lost,      \* history: Redis has lost its data
  pc,        \* where each request stands
  data,      \* its initData
  checked,   \* when it was verified
  passes,    \* history: requests that each initData has let pass
  lastPass   \* history: when it last did

redisVars == <<used, lost, passes, lastPass>>
loginVars == <<clock, signed, authDate, redisVars, pc, data, checked>>

Pcs == {"idle", "verify", "nonce", "user"}

LoginInit ==
  /\ clock = 0
  /\ signed = {}
  /\ authDate = [d \in InitData |-> 0]
  /\ used = [d \in InitData |-> 0] /\ lost = FALSE
  /\ pc = [h \in Logins |-> "idle"]
  /\ data = [h \in Logins |-> NoData]
  /\ checked = [h \in Logins |-> 0]
  /\ passes = [d \in InitData |-> 0]
  /\ lastPass = [d \in InitData |-> 0]

Goto(h, label) == pc' = [pc EXCEPT ![h] = label]

\* When a request ends, nothing is left of it.
End(h) ==
  /\ Goto(h, "idle")
  /\ data' = [data EXCEPT ![h] = NoData]
  /\ checked' = [checked EXCEPT ![h] = 0]

-----------------------------------------------------------------------------
(* Telegram, time and Redis.                                               *)

Sign(d) ==
  /\ d \notin signed
  /\ signed' = signed \cup {d}
  /\ \E s \in Skews : authDate' = [authDate EXCEPT ![d] = clock + s]
  /\ UNCHANGED <<clock, redisVars, pc, data, checked>>

Tick ==
  /\ clock < MaxTime
  /\ \A h \in Logins : pc[h] = "nonce" => clock < checked[h] + Delay
  /\ clock' = clock + 1
  /\ UNCHANGED <<signed, authDate, redisVars, pc, data, checked>>

RedisLoses ==
  /\ ~lost
  /\ used' = [d \in InitData |-> 0] /\ lost' = TRUE
  /\ UNCHANGED <<clock, signed, authDate, pc, data, checked, passes, lastPass>>

-----------------------------------------------------------------------------
(* A request.                                                              *)

Start(h, d) ==
  /\ pc[h] = "idle" /\ d \in signed
  /\ data' = [data EXCEPT ![h] = d]
  /\ Goto(h, "verify")
  /\ UNCHANGED <<clock, signed, authDate, redisVars, checked>>

\* Mutant of IsFresh: only the future is looked at.
IsNotAhead(d) == authDate[d] - clock <= Ahead

IsFresh(d) == clock - authDate[d] <= MaxAge /\ authDate[d] - clock <= Ahead

\* The IP's limiter has let it pass; the hash is Telegram's.
Verify(h) ==
  /\ pc[h] = "verify" /\ IsFresh(data[h])
  /\ checked' = [checked EXCEPT ![h] = clock]
  /\ Goto(h, "nonce")
  /\ UNCHANGED <<clock, signed, authDate, redisVars, data>>

\* Mutant of Forgotten: off by one.
ForgottenEarly(d) == used[d] <= clock + 1

Forgotten(d) == used[d] <= clock

\* SET NX EX.
SetNonce(h) ==
  /\ pc[h] = "nonce" /\ Forgotten(data[h])
  /\ used' = [used EXCEPT ![data[h]] = clock + NonceTtl]
  /\ UNCHANGED lost

Pass(h) ==
  /\ SetNonce(h)
  /\ passes' = [passes EXCEPT ![data[h]] = @ + 1]
  /\ lastPass' = [lastPass EXCEPT ![data[h]] = clock]
  /\ checked' = [checked EXCEPT ![h] = 0]
  /\ Goto(h, "user")
  /\ UNCHANGED <<clock, signed, authDate, data>>

\* The user's limiter has let it pass; the user and the session are stored.
Create(h) ==
  /\ pc[h] = "user"
  /\ End(h)
  /\ UNCHANGED <<clock, signed, authDate, redisVars>>

\* initData that is not fresh, or that was used.
Refused(h) ==
  /\ \/ pc[h] = "verify" /\ ~IsFresh(data[h])
     \/ pc[h] = "nonce" /\ ~Forgotten(data[h])
  /\ End(h)
  /\ UNCHANGED <<clock, signed, authDate, redisVars>>

\* Redis fails, perhaps after the SET; a limiter, a query or the process does: what
\* was remembered stays.
Fail(h) ==
  /\ pc[h] # "idle"
  /\ End(h)
  /\ SetNonce(h) \/ UNCHANGED <<used, lost>>
  /\ UNCHANGED <<clock, signed, authDate, passes, lastPass>>

-----------------------------------------------------------------------------
(* Properties.                                                             *)

\* Every variable has its type.
LoginTypeOK ==
  /\ clock \in Nat
  /\ signed \subseteq InitData
  /\ authDate \in [InitData -> Int]
  /\ used \in [InitData -> Nat] /\ lost \in BOOLEAN
  /\ pc \in [Logins -> Pcs]
  /\ data \in [Logins -> InitData \cup {NoData}]
  /\ \A h \in Logins : pc[h] # "idle" => data[h] \in signed
  /\ checked \in [Logins -> Nat]
  /\ passes \in [InitData -> Nat] /\ lastPass \in [InitData -> Nat]

\* While Redis keeps its data, initData that has let a request pass lets none pass
\* until it is forgotten, whatever became of the request, and whoever asks at once.
PassesApart ==
  [][\A d \in InitData :
       passes'[d] > passes[d] /\ passes[d] > 0 /\ ~lost => clock >= lastPass[d] + NonceTtl]_loginVars

\* initData lets no more requests pass than the times that it is remembered fit into the
\* time that it is taken for fresh: two, of 300 s and 360 s.
PassesBounded ==
  ~lost => \A d \in InitData : (passes[d] - 1) * NonceTtl <= MaxAge + Ahead + Delay

\* README.md:80: replay is blocked.  initData lets one request pass altogether, while Redis keeps its data.
ReplayBlocked == ~lost => \A d \in InitData : passes[d] <= 1
=============================================================================
