-------------------------- MODULE WebClientProofs ---------------------------
(***************************************************************************)
(* Proofs about LoginOnce and WebClient, for any number of requests, any   *)
(* initData and all durations; and about ClientIp, for any addresses and   *)
(* any number of entries in the header.                                    *)
(*                                                                         *)
(* What bounds the passes of initData is a chain of inequations: a request *)
(* that comes to Redis was verified at most Delay ago, with initData then  *)
(* at most MaxAge old and at most Ahead too new (Dated), so nothing passes *)
(* later (Passed); each pass is remembered for NonceTtl (Remembered); so   *)
(* the last one comes as many times NonceTtl after the first (Paced).      *)
(***************************************************************************)
EXTENDS WebClient, ClientIp, TLAPS

\* A request on its way to Redis was verified when its initData was fresh.
Dated ==
  \A h \in Logins : pc[h] = "nonce" =>
    /\ checked[h] <= clock /\ clock <= checked[h] + Delay
    /\ checked[h] - authDate[data[h]] <= MaxAge
    /\ authDate[data[h]] - checked[h] <= Ahead

\* What has let a request pass was signed, and not too old.
Passed ==
  \A d \in InitData : passes[d] > 0 =>
    d \in signed /\ lastPass[d] <= clock /\ lastPass[d] - authDate[d] <= MaxAge + Delay

\* While Redis keeps its data, it remembers what has let a request pass.
Remembered == ~lost => \A d \in InitData : passes[d] > 0 => used[d] >= lastPass[d] + NonceTtl

\* The first pass was not too far ahead, and every other one a NonceTtl after one.
Paced ==
  ~lost => \A d \in InitData :
    passes[d] > 0 => authDate[d] + (passes[d] - 1) * NonceTtl <= lastPass[d] + Ahead

IInv == TypeOK /\ Dated /\ Passed /\ Remembered /\ Paced

-----------------------------------------------------------------------------
(* The steps.                                                              *)

LEMMA ConstantsAreNumbers ==
  /\ MaxAge \in Nat /\ Ahead \in Nat /\ NonceTtl \in Nat /\ Delay \in Nat
  /\ Skews \subseteq Int /\ NoData \notin InitData
BY LoginAssumption

\* A launch signs initData that nobody has used yet.
LEMMA LaunchKeeps ==
  ASSUME IInv, NEW d \in InitData, Launch(d)
  PROVE  IInv'
<1> USE ConstantsAreNumbers DEF IInv
<1>1. PICK s \in Skews : authDate' = [authDate EXCEPT ![d] = clock + s]
  BY DEF Launch, Sign
<1>2. /\ d \notin signed /\ signed' = signed \cup {d}
      /\ UNCHANGED <<clock, used, lost, passes, lastPass, pc, data, checked>>
      /\ launch' = d /\ asked' = {} /\ token' = FALSE /\ live' = FALSE /\ UNCHANGED bypass
  BY DEF Launch, Sign, redisVars
<1>3. authDate' \in [InitData -> Int] /\ \A e \in signed : authDate'[e] = authDate[e]
  BY <1>1, <1>2 DEF TypeOK, LoginTypeOK
<1>4. TypeOK'
  BY <1>2, <1>3 DEF TypeOK, LoginTypeOK
<1>5. Dated'
  <2>1. \A h \in Logins : pc[h] = "nonce" => authDate'[data[h]] = authDate[data[h]]
    BY <1>3 DEF TypeOK, LoginTypeOK
  <2> QED
    BY <1>2, <2>1 DEF Dated
<1>6. Passed' /\ Remembered' /\ Paced'
  BY <1>2, <1>3 DEF Passed, Remembered, Paced, TypeOK, LoginTypeOK
<1> QED
  BY <1>4, <1>5, <1>6

\* A request begins.
LEMMA LoginKeeps ==
  ASSUME IInv, NEW h \in Logins, Login(h)
  PROVE  IInv'
<1> USE DEF IInv
<1>1. /\ launch \in signed
      /\ pc' = [pc EXCEPT ![h] = "verify"] /\ data' = [data EXCEPT ![h] = launch]
      /\ UNCHANGED <<clock, signed, authDate, used, lost, passes, lastPass, checked>>
      /\ asked' = asked \cup {h} /\ UNCHANGED <<bypass, launch, token, live>>
  BY DEF Login, Start, Goto, redisVars
<1>2. TypeOK'
  <2>1. LoginTypeOK'
    BY <1>1 DEF TypeOK, LoginTypeOK, Pcs
  <2>2. asked' \subseteq {g \in Logins : pc'[g] # "idle" /\ data'[g] = launch}
    BY <1>1 DEF TypeOK, LoginTypeOK
  <2> QED
    BY <1>1, <2>1, <2>2 DEF TypeOK
<1>3. Dated'
  BY <1>1 DEF Dated, TypeOK, LoginTypeOK
<1>4. Passed' /\ Remembered' /\ Paced'
  BY <1>1 DEF Passed, Remembered, Paced
<1> QED
  BY <1>2, <1>3, <1>4

\* A request is verified.
LEMMA VerifyKeeps ==
  ASSUME IInv, NEW h \in Logins, Verify(h), UNCHANGED clientVars
  PROVE  IInv'
<1> USE ConstantsAreNumbers DEF IInv
<1>1. /\ pc[h] = "verify" /\ IsFresh(data[h])
      /\ pc' = [pc EXCEPT ![h] = "nonce"] /\ checked' = [checked EXCEPT ![h] = clock]
      /\ UNCHANGED <<clock, signed, authDate, used, lost, passes, lastPass, data>>
      /\ UNCHANGED <<bypass, launch, asked, token, live>>
  BY DEF Verify, Goto, redisVars, clientVars
<1>2. TypeOK'
  <2>1. LoginTypeOK'
    BY <1>1 DEF TypeOK, LoginTypeOK, Pcs
  <2>2. asked' \subseteq {g \in Logins : pc'[g] # "idle" /\ data'[g] = launch}
    BY <1>1 DEF TypeOK, LoginTypeOK
  <2> QED
    BY <1>1, <2>1, <2>2 DEF TypeOK
<1>3. Dated'
  BY <1>1 DEF Dated, IsFresh, TypeOK, LoginTypeOK
<1>4. Passed' /\ Remembered' /\ Paced'
  BY <1>1 DEF Passed, Remembered, Paced
<1> QED
  BY <1>2, <1>3, <1>4

\* What Redis has forgotten has let no request pass for a NonceTtl.
LEMMA PassIsApart ==
  ASSUME IInv, NEW h \in Logins, Forgotten(data[h]), data[h] \in InitData, ~lost,
         passes[data[h]] > 0
  PROVE  clock >= lastPass[data[h]] + NonceTtl
<1> DEFINE d == data[h]
<1>1. used[d] <= clock /\ used[d] >= lastPass[d] + NonceTtl
  BY DEF IInv, Forgotten, Remembered
<1>2. used[d] \in Nat /\ lastPass[d] \in Nat /\ clock \in Nat
  BY DEF IInv, TypeOK, LoginTypeOK
<1> QED
  BY <1>1, <1>2, ConstantsAreNumbers

\* One time more.
LEMMA OnceMore ==
  ASSUME NEW n \in Nat, NEW k \in Nat
  PROVE  (n + 1 - 1) * k = (n - 1) * k + k /\ (n - 1) * k \in Int
OBVIOUS

\* A request passes.
LEMMA PassKeeps ==
  ASSUME IInv, NEW h \in Logins, Pass(h), UNCHANGED clientVars
  PROVE  IInv'
<1> USE ConstantsAreNumbers DEF IInv
<1> DEFINE d == data[h]
<1>1. /\ pc[h] = "nonce" /\ Forgotten(d) /\ d \in InitData
      /\ used' = [used EXCEPT ![d] = clock + NonceTtl]
      /\ passes' = [passes EXCEPT ![d] = @ + 1] /\ lastPass' = [lastPass EXCEPT ![d] = clock]
      /\ checked' = [checked EXCEPT ![h] = 0] /\ pc' = [pc EXCEPT ![h] = "user"]
      /\ UNCHANGED <<clock, signed, authDate, data, lost>>
      /\ UNCHANGED <<bypass, launch, asked, token, live>>
  BY DEF Pass, SetNonce, Goto, clientVars, TypeOK, LoginTypeOK
<1>2. TypeOK'
  <2>1. LoginTypeOK'
    BY <1>1 DEF TypeOK, LoginTypeOK, Pcs
  <2>2. asked' \subseteq {g \in Logins : pc'[g] # "idle" /\ data'[g] = launch}
    BY <1>1 DEF TypeOK, LoginTypeOK
  <2> QED
    BY <1>1, <2>1, <2>2 DEF TypeOK
<1>3. Dated'
  BY <1>1 DEF Dated, TypeOK, LoginTypeOK
<1>4. Passed'
  <2>1. d \in signed /\ clock - authDate[d] <= MaxAge + Delay
    BY <1>1 DEF TypeOK, LoginTypeOK, Dated
  <2> QED
    BY <1>1, <2>1 DEF Passed, TypeOK, LoginTypeOK
<1>5. Remembered'
  BY <1>1 DEF Remembered, TypeOK, LoginTypeOK
<1>6. Paced'
  <2> SUFFICES ASSUME ~lost, NEW e \in InitData, passes'[e] > 0
               PROVE  authDate[e] + (passes'[e] - 1) * NonceTtl <= lastPass'[e] + Ahead
    BY <1>1 DEF Paced
  <2>1. CASE e = d
    <3>1. passes[d] \in Nat /\ passes'[d] = passes[d] + 1 /\ lastPass'[d] = clock
      BY <1>1 DEF TypeOK, LoginTypeOK
    <3>2. authDate[d] \in Int /\ clock \in Nat /\ lastPass[d] \in Nat
      BY <1>1 DEF TypeOK, LoginTypeOK
    <3>3. CASE passes[d] = 0
      <4>1. (passes'[d] - 1) * NonceTtl = 0
        BY <3>1, <3>3
      <4>2. authDate[d] <= clock + Ahead
        BY <1>1, <3>2 DEF Dated, TypeOK, LoginTypeOK
      <4> QED
        BY <2>1, <3>1, <3>2, <4>1, <4>2
    <3>4. CASE passes[d] > 0
      <4>1. clock >= lastPass[d] + NonceTtl
        BY <1>1, <3>4, PassIsApart
      <4>2. /\ (passes[d] + 1 - 1) * NonceTtl = (passes[d] - 1) * NonceTtl + NonceTtl
            /\ (passes[d] - 1) * NonceTtl \in Int
        BY <3>1, OnceMore
      <4>3. authDate[d] + (passes[d] - 1) * NonceTtl <= lastPass[d] + Ahead
        BY <1>1, <3>4 DEF Paced
      <4> DEFINE before == (passes[d] - 1) * NonceTtl
                 now == (passes'[d] - 1) * NonceTtl
      <4>4. now = before + NonceTtl /\ before \in Int
        BY <3>1, <4>2
      <4>5. authDate[d] + before <= lastPass[d] + Ahead
        BY <4>3
      <4> HIDE DEF before, now
      <4>6. authDate[d] + now <= clock + Ahead
        BY <3>2, <4>1, <4>4, <4>5
      <4> QED
        BY <2>1, <3>1, <4>6 DEF now
    <3> QED
      BY <3>1, <3>3, <3>4
  <2>2. CASE e # d
    BY <1>1, <2>2 DEF Paced, TypeOK, LoginTypeOK
  <2> QED
    BY <2>1, <2>2
<1> QED
  BY <1>2, <1>3, <1>4, <1>5, <1>6

\* A request ends; it may have been remembered on its way.
LEMMA EndKeeps ==
  ASSUME IInv, NEW h \in Logins, pc[h] # "idle", End(h),
         UNCHANGED <<clock, signed, authDate, lost, passes, lastPass>>,
         \/ UNCHANGED used
         \/ /\ Forgotten(data[h])
            /\ used' = [used EXCEPT ![data[h]] = clock + NonceTtl],
         asked' = asked \ {h}, UNCHANGED <<bypass, launch>>,
         token' \in BOOLEAN, live' \in BOOLEAN
  PROVE  IInv'
<1> USE ConstantsAreNumbers DEF IInv
<1>1. /\ pc' = [pc EXCEPT ![h] = "idle"] /\ data' = [data EXCEPT ![h] = NoData]
      /\ checked' = [checked EXCEPT ![h] = 0] /\ data[h] \in InitData
  BY DEF End, Goto, TypeOK, LoginTypeOK
<1>2. used' \in [InitData -> Nat]
  BY <1>1 DEF TypeOK, LoginTypeOK
<1>3. TypeOK'
  <2>1. LoginTypeOK'
    BY <1>1, <1>2 DEF TypeOK, LoginTypeOK, Pcs
  <2>2. asked' \subseteq {g \in Logins : pc'[g] # "idle" /\ data'[g] = launch}
    BY <1>1 DEF TypeOK, LoginTypeOK
  <2> QED
    BY <2>1, <2>2 DEF TypeOK
<1>4. Dated'
  BY <1>1 DEF Dated, TypeOK, LoginTypeOK
<1>5. Passed' /\ Paced'
  BY DEF Passed, Paced
<1>6. Remembered'
  BY <1>1 DEF Remembered, Passed, TypeOK, LoginTypeOK
<1> QED
  BY <1>3, <1>4, <1>5, <1>6

\* Time passes; Redis loses its data; the client moves by itself.
LEMMA OthersKeep ==
  ASSUME IInv,
         \/ (Tick \/ RedisLoses) /\ UNCHANGED clientVars
         \/ Request \/ SessionEnds \/ UNCHANGED vars
  PROVE  IInv'
<1> USE ConstantsAreNumbers DEF IInv
<1>1. CASE Tick /\ UNCHANGED clientVars
  <2>1. TypeOK'
    BY <1>1 DEF Tick, redisVars, clientVars, TypeOK, LoginTypeOK
  <2>2. Dated'
    BY <1>1 DEF Tick, Dated, TypeOK, LoginTypeOK
  <2>3. Passed' /\ Remembered' /\ Paced'
    BY <1>1 DEF Tick, redisVars, Passed, Remembered, Paced, TypeOK, LoginTypeOK
  <2> QED
    BY <2>1, <2>2, <2>3
<1>2. CASE RedisLoses /\ UNCHANGED clientVars
  <2>1. TypeOK'
    BY <1>2 DEF RedisLoses, clientVars, TypeOK, LoginTypeOK
  <2>2. Dated' /\ Passed' /\ Remembered' /\ Paced'
    BY <1>2 DEF RedisLoses, Dated, Passed, Remembered, Paced
  <2> QED
    BY <2>1, <2>2
<1>3. CASE Request \/ SessionEnds \/ UNCHANGED vars
  <2>1. UNCHANGED loginVars /\ UNCHANGED <<bypass, launch, asked>>
    BY <1>3 DEF Request, SessionEnds, vars, clientVars
  <2>2. token' \in BOOLEAN /\ live' \in BOOLEAN
    BY <1>3 DEF Request, SessionEnds, vars, clientVars, TypeOK, KnowsUser, SendsToken, StartsWithBase
  <2>3. TypeOK'
    BY <2>1, <2>2 DEF TypeOK, LoginTypeOK, loginVars, redisVars
  <2>4. Dated' /\ Passed' /\ Remembered' /\ Paced'
    BY <2>1 DEF Dated, Passed, Remembered, Paced, loginVars, redisVars
  <2> QED
    BY <2>3, <2>4
<1> QED
  BY <1>1, <1>2, <1>3

-----------------------------------------------------------------------------
(* The theorems.                                                           *)

\* The invariant holds at first, and every step keeps it.
LEMMA Inductive == Spec => []IInv
<1>1. Init => IInv
  <2> SUFFICES ASSUME Init
               PROVE  IInv
    OBVIOUS
  <2>1. TypeOK
    <3>1. LoginTypeOK
      <4>1. \A h \in Logins : pc[h] = "idle"
        BY DEF Init, LoginInit
      <4>2. /\ authDate \in [InitData -> Int] /\ used \in [InitData -> Nat]
            /\ passes \in [InitData -> Nat] /\ lastPass \in [InitData -> Nat]
        BY DEF Init, LoginInit
      <4>3. /\ pc \in [Logins -> Pcs] /\ data \in [Logins -> InitData \cup {NoData}]
            /\ checked \in [Logins -> Nat]
        BY DEF Init, LoginInit, Pcs
      <4> QED
        BY <4>1, <4>2, <4>3 DEF Init, LoginInit, LoginTypeOK
    <3>2. token = FALSE /\ live = FALSE /\ bypass \in BOOLEAN /\ launch = NoData /\ asked = {}
      BY DEF Init
    <3> QED
      BY <3>1, <3>2 DEF TypeOK
  <2>2. Dated
    BY DEF Init, LoginInit, Dated
  <2>3. \A d \in InitData : passes[d] = 0
    BY DEF Init, LoginInit
  <2>4. Passed /\ Remembered /\ Paced
    BY <2>3 DEF Passed, Remembered, Paced
  <2> QED
    BY <2>1, <2>2, <2>4 DEF IInv
<1>2. IInv /\ [Next]_vars => IInv'
  <2> SUFFICES ASSUME IInv, [Next]_vars
               PROVE  IInv'
    OBVIOUS
  <2>1. CASE \E d \in InitData : Launch(d)
    BY <2>1, LaunchKeeps
  <2>2. CASE \E h \in Logins : Login(h)
    BY <2>2, LoginKeeps
  <2>3. CASE \E h \in Logins : LoginStep(h)
    BY <2>3, VerifyKeeps, PassKeeps DEF LoginStep
  <2>4. CASE \E h \in Logins : LoggedIn(h)
    BY <2>4, EndKeeps DEF LoggedIn, Create, Arrives, redisVars, IInv, TypeOK
  <2>5. CASE \E h \in Logins : LoginRefused(h)
    BY <2>5, EndKeeps DEF LoginRefused, Refused, Arrives, redisVars, IInv, TypeOK
  <2>6. CASE \E h \in Logins : LoginFails(h)
    BY <2>6, EndKeeps DEF LoginFails, Fail, SetNonce, IInv, TypeOK
  <2>7. CASE Request \/ SessionEnds \/ ((Tick \/ RedisLoses) /\ UNCHANGED clientVars) \/ UNCHANGED vars
    BY <2>7, OthersKeep
  <2> QED
    BY <2>1, <2>2, <2>3, <2>4, <2>5, <2>6, <2>7 DEF Next
<1> QED
  BY <1>1, <1>2, PTL DEF Spec

\* TypeOK, with the requests whose answers the client waits for.
THEOREM TypeCorrect == Spec => []TypeOK
<1>1. IInv => TypeOK
  BY DEF IInv
<1> QED
  BY <1>1, Inductive, PTL

\* PassesBounded, for every freshness window, memory, clock skew and delay: no premise
\* relates them to each other.
THEOREM PassesBoundedAlways == Spec => []PassesBounded
<1>1. ASSUME IInv, ~lost, NEW d \in InitData
      PROVE  (passes[d] - 1) * NonceTtl <= MaxAge + Ahead + Delay
  <2> DEFINE span == (passes[d] - 1) * NonceTtl
  <2>1. /\ passes[d] \in Nat /\ lastPass[d] \in Nat /\ authDate[d] \in Int
        /\ MaxAge \in Nat /\ Ahead \in Nat /\ Delay \in Nat /\ NonceTtl \in Nat
    BY <1>1, ConstantsAreNumbers DEF IInv, TypeOK, LoginTypeOK
  <2>2. CASE passes[d] = 0
    <3>1. span = -NonceTtl
      BY <2>1, <2>2
    <3> QED
      BY <2>1, <3>1
  <2>3. CASE passes[d] > 0
    <3>1. span \in Int
      BY <2>1, OnceMore
    <3>2. authDate[d] + span <= lastPass[d] + Ahead /\ lastPass[d] - authDate[d] <= MaxAge + Delay
      BY <1>1, <2>3 DEF IInv, Paced, Passed
    <3> HIDE DEF span
    <3>3. span <= MaxAge + Ahead + Delay
      BY <2>1, <3>1, <3>2
    <3> QED
      BY <3>3 DEF span
  <2> QED
    BY <2>1, <2>2, <2>3
<1>2. IInv => PassesBounded
  BY <1>1 DEF PassesBounded
<1> QED
  BY <1>2, Inductive, PTL

\* PassesApart, for every time that initData is remembered.
THEOREM PassesApartAlways == Spec => PassesApart
<1> DEFINE Apart(d) == passes'[d] > passes[d] /\ passes[d] > 0 /\ ~lost => clock >= lastPass[d] + NonceTtl
<1>1. ASSUME IInv, [Next]_vars, NEW d \in InitData
      PROVE  Apart(d)
  <2> SUFFICES ASSUME passes'[d] > passes[d], passes[d] > 0, ~lost
               PROVE  clock >= lastPass[d] + NonceTtl
    OBVIOUS
  <2>1. passes[d] \in Nat
    BY <1>1 DEF IInv, TypeOK, LoginTypeOK
  <2>2. CASE \E h \in Logins : Pass(h)
    <3>1. PICK h \in Logins : Pass(h)
      BY <2>2
    <3>2. data[h] = d
      BY <1>1, <2>1, <3>1 DEF Pass, IInv, TypeOK, LoginTypeOK
    <3> QED
      BY <1>1, <3>1, <3>2, PassIsApart DEF Pass, SetNonce
  <2>3. CASE UNCHANGED passes
    BY <2>1, <2>3
  <2> QED
    BY <1>1, <2>2, <2>3 DEF Next, vars, loginVars, redisVars, Launch, Sign, Login, Start, LoginStep,
       Verify, LoggedIn, Create, LoginRefused, Refused, LoginFails, Fail, Request, SessionEnds, Tick,
       RedisLoses
<1>2. IInv /\ [Next]_vars => [\A d \in InitData : Apart(d)]_loginVars
  BY <1>1
<1> QED
  BY <1>2, Inductive, PTL DEF Spec, PassesApart

-----------------------------------------------------------------------------
(* ClientIp: the walk back ends where the request came in.                 *)

\* Where the walk back over a path may stop.
Stop(path, i) ==
  /\ i \in DOMAIN path
  /\ \A j \in i + 1..Len(path) : path[j] \in Proxies
  /\ i = 1 \/ path[i] \notin Proxies

\* It stops at one place only.
LEMMA OneStop ==
  ASSUME NEW S, NEW path \in Seq(S), NEW i, NEW k, Stop(path, i), Stop(path, k)
  PROVE  i = k
<1>1. i \in 1..Len(path) /\ k \in 1..Len(path) /\ Len(path) \in Nat
  BY DEF Stop
<1> QED
  BY <1>1 DEF Stop

\* So the walk finds what is there.
LEMMA WalkFinds ==
  ASSUME NEW S, NEW entries \in Seq(S), NEW direct \in S, NEW i, Stop(Append(entries, direct), i)
  PROVE  Walk(direct, entries) = Append(entries, direct)[i]
<1> DEFINE path == Append(entries, direct)
           Here(n) == /\ \A j \in n + 1..Len(path) : path[j] \in Proxies
                      /\ n = 1 \/ path[n] \notin Proxies
           k == CHOOSE n \in DOMAIN path : Here(n)
<1>1. path \in Seq(S)
  OBVIOUS
<1>2. \A n : Stop(path, n) <=> n \in DOMAIN path /\ Here(n)
  BY DEF Stop
<1>3. Walk(direct, entries) = path[k]
  BY DEF Walk
<1>4. k \in DOMAIN path /\ Here(k)
  <2> HIDE DEF Here, path
  <2> QED
    BY <1>2, Zenon DEF path
<1>5. i = k
  <2> HIDE DEF Here, k, path
  <2> QED
    BY <1>1, <1>2, <1>4, OneStop DEF path
<1> QED
  BY <1>3, <1>5

\* What the walk comes to.
Goal == IF legible THEN outside ELSE "unknown"

\* Where the walk from here would stop is the sender outside, or what hides it.
HopInv ==
  /\ header \in Seq(Clients \cup Proxies \cup {"unknown"})
  /\ sender \in Clients \cup Proxies /\ outside \in Clients \cup Proxies /\ legible \in BOOLEAN
  /\ \E i \in Nat : Stop(Append(header, sender), i) /\ Append(header, sender)[i] = Goal

\* What a client has sent is behind the client itself; an inside sender is alone.
LEMMA HopInitInv == HopInit => HopInv
<1> SUFFICES ASSUME HopInit
             PROVE  HopInv
  OBVIOUS
<1> DEFINE S == Clients \cup Proxies \cup {"unknown"}
           path == Append(header, sender)
           n == Len(header) + 1
<1>1. sender \in Clients \cup Proxies /\ outside = sender /\ legible = TRUE
  BY DEF HopInit
<1>2. header \in Seq(S) /\ (sender \in Proxies => header = <<>>)
  <2>1. CASE sender \in Clients /\ header \in SeqOf(S, MaxHops)
    BY <2>1, ClientIpAssumption DEF SeqOf
  <2>2. CASE sender \in Proxies /\ header = <<>>
    BY <2>2
  <2> QED
    BY <2>1, <2>2 DEF HopInit
<1>3. path \in Seq(S) /\ n \in Nat /\ Len(path) = n /\ n \in DOMAIN path /\ path[n] = sender
  BY <1>1, <1>2
<1>4. n = 1 \/ sender \notin Proxies
  BY <1>2
<1>5. Stop(path, n)
  BY <1>3, <1>4 DEF Stop
<1> QED
  BY <1>1, <1>2, <1>3, <1>5 DEF HopInv, Goal

\* A client is a new stop, and so is an entry that is no address; behind a proxy that
\* names its sender the old stop is found again.
LEMMA HopKeeps == HopInv /\ [Hop]_hopVars => HopInv'
<1> SUFFICES ASSUME HopInv, [Hop]_hopVars
             PROVE  HopInv'
  OBVIOUS
<1>1. CASE UNCHANGED hopVars
  BY <1>1 DEF HopInv, Goal, hopVars, Stop
<1>2. CASE Hop
  <2> DEFINE S == Clients \cup Proxies \cup {"unknown"}
             path == Append(header, sender)
  <2>1. PICK p \in Clients \cup Proxies, entry \in {sender, "unknown"} : Forward(p, entry)
    BY <1>2 DEF Hop
  <2> DEFINE short == Append(header, entry)
             longer == Append(short, p)
             n == Len(header) + 2
  <2>2. /\ header' = short /\ sender' = p /\ outside' = IF p \in Clients THEN p ELSE outside
        /\ legible' = (p \in Clients \/ (legible /\ entry = sender))
    BY <2>1 DEF Forward
  <2>3. /\ header \in Seq(S) /\ entry \in S /\ p \in S /\ sender \in S
        /\ sender \in Clients \cup Proxies /\ outside \in Clients \cup Proxies /\ legible \in BOOLEAN
    BY <2>1 DEF HopInv
  <2>4. /\ longer \in Seq(S) /\ short \in Seq(S) /\ n \in Nat /\ Len(longer) = n
        /\ DOMAIN longer = 1..n
        /\ longer[n] = p /\ longer[n - 1] = entry
        /\ path \in Seq(S) /\ DOMAIN path = 1..n - 1 /\ Len(path) = n - 1
        /\ entry = sender => \A i \in 1..n - 1 : longer[i] = path[i]
    <3>1. Len(header) \in Nat
      BY <2>3
    <3> QED
      BY <2>3, <3>1
  <2>5. \E i \in Nat : Stop(longer, i) /\ longer[i] = Goal'
    <3> HIDE DEF path, short, longer, n
    <3>1. CASE p \in Clients
      <4>1. Stop(longer, n)
        BY <2>4, <3>1, ClientIpAssumption DEF Stop
      <4>2. longer[n] = Goal'
        BY <2>2, <2>4, <3>1 DEF Goal
      <4> QED
        BY <2>4, <4>1, <4>2
    <3>2. CASE p \notin Clients /\ entry = sender
      <4>1. PICK i \in Nat : Stop(path, i) /\ path[i] = Goal
        BY DEF HopInv, path
      <4>2. i \in 1..n - 1
        BY <2>4, <4>1 DEF Stop
      <4>3. Stop(longer, i)
        BY <2>1, <2>4, <3>2, <4>1, <4>2 DEF Stop
      <4>4. Goal' = Goal
        BY <2>2, <2>3, <3>2 DEF Goal
      <4> QED
        BY <2>4, <3>2, <4>1, <4>2, <4>3, <4>4
    <3>3. CASE p \notin Clients /\ entry # sender
      <4>1. entry = "unknown" /\ legible' = FALSE
        BY <2>1, <2>2, <3>3
      <4>2. n - 1 \in Nat /\ n - 1 \in 1..n
        BY <2>3, <2>4 DEF n
      <4>3. Stop(longer, n - 1)
        <5>1. longer[n - 1] \notin Proxies
          BY <2>4, <4>1, ClientIpAssumption
        <5>2. \A j \in (n - 1) + 1..Len(longer) : longer[j] \in Proxies
          BY <2>1, <2>4, <3>3
        <5> QED
          BY <2>4, <4>2, <5>1, <5>2 DEF Stop
      <4> QED
        BY <2>4, <4>1, <4>2, <4>3 DEF Goal
    <3> QED
      BY <3>1, <3>2, <3>3
  <2>6. Append(header, sender)' = longer
    BY <2>2
  <2>7. /\ header' \in Seq(S) /\ sender' \in Clients \cup Proxies /\ outside' \in Clients \cup Proxies
        /\ legible' \in BOOLEAN
    BY <2>1, <2>2, <2>3, <2>4
  <2>8. \E i \in Nat : Stop(Append(header, sender), i)' /\ Append(header, sender)'[i] = Goal'
    BY <2>5, <2>6 DEF Stop
  <2> QED
    BY <2>7, <2>8 DEF HopInv
<1> QED
  BY <1>1, <1>2

\* KeyIsOutside, for any trusted networks, header and way.
THEOREM KeyIsOutsideAlways == HopSpec => []KeyIsOutside
<1>1. HopInv => KeyIsOutside
  <2> SUFFICES ASSUME HopInv, Trusting
               PROVE  trusted_client_ip = IF legible THEN outside ELSE sender
    BY DEF KeyIsOutside, trusted_client_ip
  <2>1. Walk(sender, header) = Goal
    <3>1. PICK i \in Nat : Stop(Append(header, sender), i) /\ Append(header, sender)[i] = Goal
      BY DEF HopInv
    <3>2. sender \in Clients \cup Proxies \cup {"unknown"}
      BY DEF HopInv
    <3> QED
      BY <3>1, <3>2, WalkFinds DEF HopInv
  <2>2. header = <<>> => sender = Goal
    BY DEF HopInv, Stop
  <2>3. "unknown" \notin Clients \cup Proxies
    BY ClientIpAssumption
  <2> QED
    BY <2>1, <2>2, <2>3 DEF trusted_client_ip, HopInv, Goal
<1> QED
  BY <1>1, HopInitInv, HopKeeps, PTL DEF HopSpec

-----------------------------------------------------------------------------
(* Work.  No login request waits for another, so each comes to its end.    *)

\* How many steps a login request may still take itself.
Work(h) ==
  CASE pc[h] = "idle"   -> 0
    [] pc[h] = "user"   -> 1
    [] pc[h] = "nonce"  -> 2
    [] pc[h] = "verify" -> 3

\* Every step of its own takes it nearer to its end, and no other one takes it back.
WorkShrinks ==
  [][\A h \in Logins :
       /\ Answer(h) => Work(h)' < Work(h)
       /\ pc[h] # "idle" => Work(h)' <= Work(h)]_vars

\* A login request (api/v1/auth.py) takes at most three steps, whatever is launched,
\* forgotten or lost meanwhile.
THEOREM WorkShrinksAlways == Spec => WorkShrinks
<1> DEFINE Shrinks == \A h \in Logins : /\ Answer(h) => Work(h)' < Work(h)
                                        /\ pc[h] # "idle" => Work(h)' <= Work(h)
<1>1. TypeOK /\ [Next]_vars => [Shrinks]_vars
  <2> SUFFICES ASSUME TypeOK, [Next]_vars, NEW h \in Logins
               PROVE  /\ Answer(h) => Work(h)' < Work(h)
                      /\ pc[h] # "idle" => Work(h)' <= Work(h)
    OBVIOUS
  <2> USE DEF TypeOK, LoginTypeOK, Goto
  <2>1. pc[h] \in Pcs
    OBVIOUS
  <2>2. ASSUME Answer(h) \/ LoginFails(h)
        PROVE  Work(h)' < Work(h) /\ Work(h)' \in Nat /\ Work(h) \in Nat
    <3>1. \/ pc[h] # "idle" /\ pc'[h] = "idle"
          \/ pc[h] = "verify" /\ pc'[h] = "nonce"
          \/ pc[h] = "nonce" /\ pc'[h] = "user"
      <4>1. Verify(h) => pc[h] = "verify" /\ pc'[h] = "nonce"
        BY DEF Verify
      <4>2. Pass(h) => pc[h] = "nonce" /\ pc'[h] = "user"
        BY DEF Pass, SetNonce
      <4>3. LoggedIn(h) \/ LoginRefused(h) \/ LoginFails(h) => pc[h] # "idle" /\ pc'[h] = "idle"
        BY DEF LoggedIn, Create, LoginRefused, Refused, LoginFails, Fail, End
      <4> QED
        BY <2>2, <4>1, <4>2, <4>3 DEF Answer, LoginStep
    <3> QED
      BY <2>1, <3>1 DEF Work, Pcs
  <2>3. ASSUME pc[h] # "idle", ~Answer(h), ~LoginFails(h)
        PROVE  pc'[h] = pc[h]
    <3>1. ASSUME NEW g \in Logins \ {h}, Login(g) \/ Answer(g) \/ LoginFails(g)
          PROVE  pc'[h] = pc[h]
      BY <3>1 DEF Login, Start, Answer, LoginStep, Verify, Pass, LoggedIn, Create, LoginRefused, Refused,
                  LoginFails, Fail, End
    <3>2. ~Login(h)
      BY <2>3 DEF Login, Start
    <3>3. CASE (\E d \in InitData : Launch(d)) \/ Request \/ SessionEnds \/ Tick \/ RedisLoses \/ UNCHANGED vars
      BY <3>3 DEF Launch, Sign, Request, SessionEnds, Tick, RedisLoses, vars, loginVars
    <3> HIDE DEF TypeOK, LoginTypeOK, Goto
    <3> QED
      BY <2>3, <3>1, <3>2, <3>3 DEF Next, Answer
  <2>4. ASSUME pc'[h] = pc[h]
        PROVE  Work(h)' = Work(h) /\ Work(h) \in Nat
    BY <2>1, <2>4 DEF Work, Pcs
  <2> HIDE DEF TypeOK, LoginTypeOK, Goto
  <2>5. CASE Answer(h) \/ LoginFails(h)
    BY <2>2, <2>5
  <2>6. CASE ~Answer(h) /\ ~LoginFails(h)
    BY <2>3, <2>4, <2>6
  <2> QED
    BY <2>5, <2>6
<1> QED
  BY <1>1, TypeCorrect, PTL DEF Spec, WorkShrinks
=============================================================================
