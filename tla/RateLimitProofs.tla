-------------------------- MODULE RateLimitProofs --------------------------
(***************************************************************************)
(* Proofs about RateLimit, for any number of requests, any capacity and    *)
(* window, any delay of the script and any number of restarts.             *)
(***************************************************************************)
EXTENDS RateLimit, FiniteSetTheorems, WellFoundedInduction, TLAPS

\* What the bound on the window rests on: scores lie in the past, a waiting
\* request's by CallDelay at most; the sorted set outlives its members' windows;
\* a request that was let through leaves it only when its window is over.
Remembers ==
  /\ \A r \in Requests : now[r] <= tick
  /\ \A r \in Requests : stage[r] \in Waiting => tick <= now[r] + CallDelay
  /\ \A r \in log : stage[r] \in {"passed", "unavailable"} /\ now[r] + Ttl <= expires
  /\ \A r \in late : stage[r] = "unavailable"
  /\ \A r \in passed : stage[r] = "passed"
  /\ production => \A r \in passed \ log : now[r] + Window <= tick

Inv == LimiterTypeOK /\ Remembers /\ WindowBound

-----------------------------------------------------------------------------
(* Finite sets of requests.                                                *)

LEMMA Counts ==
  ASSUME NEW S \in SUBSET Requests, NEW T \in SUBSET S
  PROVE  /\ IsFiniteSet(S) /\ Cardinality(S) \in Nat
         /\ IsFiniteSet(T) /\ Cardinality(T) \in Nat
         /\ Cardinality(T) <= Cardinality(S)
<1>1. IsFiniteSet(Requests)
  BY LimitAssumption DEF LimitAssumption
<1>2. IsFiniteSet(S) /\ IsFiniteSet(T)
  BY <1>1, FS_Subset
<1> QED  BY <1>2, FS_Subset, FS_CardinalityType

\* One more request than a set that is not full does not exceed the capacity.
LEMMA RoomForOne ==
  ASSUME NEW S \in SUBSET Requests, NEW r \in Requests, ~Full(S),
         NEW T \in SUBSET (S \cup {r})
  PROVE  Cardinality(T) <= Capacity
<1>1. IsFiniteSet(S) /\ Cardinality(S) \in Nat
  BY Counts
<1>2. Cardinality(S) < Capacity
  BY <1>1, LimitAssumption DEF Full, LimitAssumption
<1>3. Cardinality(S \cup {r}) <= Cardinality(S) + 1
  BY <1>1, FS_AddElement
<1>4. Cardinality(T) <= Cardinality(S \cup {r}) /\ Cardinality(T) \in Nat /\ Cardinality(S \cup {r}) \in Nat
  BY Counts
<1> QED  BY <1>1, <1>2, <1>3, <1>4, LimitAssumption DEF LimitAssumption

\* A non-empty set of requests has an oldest one.
LEMMA OldestInSet ==
  ASSUME LimiterTypeOK, NEW S \in SUBSET Requests, S # {}
  PROVE  Oldest(S) \in S /\ \A p \in S : now[Oldest(S)] <= now[p]
<1> DEFINE T == {now[q] : q \in S}
           R == OpToRel(<, Nat)
<1>1. \A q \in S : now[q] \in Nat
  BY LimitAssumption DEF LimiterTypeOK, Time, LimitAssumption
<1>2. T \subseteq Nat /\ T # {}
  BY <1>1
<1>3. IsWellFoundedOn(R, Nat)
  BY NatLessThanWellFounded
<1>4. PICK x \in T : \A y \in T : ~ (<<y, x>> \in R)
  <2> HIDE DEF T, R
  <2> QED  BY <1>2, <1>3, WFMin
<1>5. PICK q \in S : x = now[q]
  OBVIOUS
<1>6. ASSUME NEW p \in S PROVE now[q] <= now[p]
  <2>1. now[p] \in T /\ now[p] \in Nat /\ x \in Nat
    BY <1>1, <1>2
  <2>2. ~ (now[p] < x)
    BY <2>1, <1>4 DEF OpToRel
  <2> QED  BY <1>5, <2>1, <2>2
<1> QED  BY <1>6 DEF Oldest

\* Retry-After covers the ticks it was computed from.
LEMMA SecondsSuffice ==
  ASSUME NEW x \in Int
  PROVE  Seconds(x) \in Nat /\ x <= Second * Seconds(x)
<1>1. Second \in Nat \ {0}
  BY LimitAssumption DEF LimitAssumption
<1>2. CASE x < 1
  BY <1>1, <1>2 DEF Seconds
<1>3. CASE ~ (x < 1)
  <2> DEFINE y == x + Second - 1
             d == y \div Second
  <2>1. y \in Nat /\ y >= Second
    BY <1>1, <1>3
  <2>2. d \in Int /\ y % Second \in 0..(Second - 1)
    BY <1>1, <2>1
  <2>3. y = Second * d + (y % Second)
    BY <1>1, <2>1
  <2>4. d \in Nat
    BY <1>1, <2>1
  <2>5. x <= Second * d
    <3> HIDE DEF d
    <3>1. Second * d \in Int
      BY <1>1, <2>2
    <3> QED  BY <1>1, <2>1, <2>2, <2>3, <3>1
  <2> QED  BY <1>3, <2>4, <2>5 DEF Seconds
<1> QED  BY <1>2, <1>3

LEMMA Bounds ==
  /\ Capacity \in Nat \ {0} /\ Second \in Nat \ {0} /\ Window \in Nat \ {0}
  /\ CallDelay \in Nat /\ LastTick \in Nat /\ MaxRestarts \in Nat
  /\ Ttl \in Nat /\ Window <= Ttl
BY LimitAssumption DEF LimitAssumption, Ttl

\* The script never makes the sorted set larger than it may be.
LEMMA KeptInside ==
  ASSUME LimiterTypeOK, NEW r \in Requests
  PROVE  /\ Kept(r) \subseteq log
         /\ Cardinality(Kept(r)) \in Nat /\ Cardinality(Kept(r)) <= Capacity
<1>1. Kept(r) \in SUBSET log /\ log \in SUBSET Requests
  BY DEF Kept, LimiterTypeOK
<1>2. Cardinality(Kept(r)) \in Nat /\ Cardinality(log) \in Nat
      /\ Cardinality(Kept(r)) <= Cardinality(log)
  BY <1>1, Counts
<1> QED  BY <1>1, <1>2, Bounds DEF LimiterTypeOK

-----------------------------------------------------------------------------
(* Types.                                                                  *)

LEMMA TypeInit == LimiterInit => LimiterTypeOK
<1>1. Cardinality({}) = 0
  BY FS_EmptySet
<1> SUFFICES ASSUME LimiterInit PROVE LimiterTypeOK
  OBVIOUS
<1>2. production \in BOOLEAN /\ known \in BOOLEAN /\ cached \in BOOLEAN
  BY DEF LimiterInit
<1>3. tick \in Time /\ expires \in Nat /\ restarts \in 0..MaxRestarts
  BY Bounds DEF LimiterInit, Time
<1>4. /\ stage \in [Requests -> {"new"} \cup Waiting \cup Answers]
      /\ now \in [Requests -> Time] /\ retryAfter \in [Requests -> Nat]
  BY Bounds DEF LimiterInit, Time
<1>5. log \subseteq Requests /\ late \subseteq Requests /\ passed \subseteq Requests
  BY DEF LimiterInit
<1>6. Cardinality(log) <= Capacity
  BY <1>1, Bounds DEF LimiterInit
<1> QED  BY <1>2, <1>3, <1>4, <1>5, <1>6 DEF LimiterTypeOK

LEMMA RecordType ==
  ASSUME LimiterTypeOK, NEW r \in Requests, ~Full(Kept(r)), Record(r)
  PROVE  /\ log' \subseteq Requests /\ Cardinality(log') <= Capacity
         /\ expires' \in Nat
<1>1. Kept(r) \in SUBSET Requests
  BY KeptInside DEF LimiterTypeOK
<1>2. Cardinality(log') <= Capacity
  BY <1>1, RoomForOne DEF Record
<1> QED  BY <1>1, <1>2, Bounds DEF Record, LimiterTypeOK, Time

LEMMA TypeStep == LimiterTypeOK /\ [LimiterNext]_limiterVars => LimiterTypeOK'
<1> SUFFICES ASSUME LimiterTypeOK, [LimiterNext]_limiterVars PROVE LimiterTypeOK'
  OBVIOUS
<1> USE Bounds
<1>1. ASSUME NEW r \in Requests, Check(r) PROVE LimiterTypeOK'
  BY <1>1 DEF Check, Begin, LimiterTypeOK, Time, Waiting, storeVars
<1>2. ASSUME NEW r \in Requests, LoadScript(r) PROVE LimiterTypeOK'
  BY <1>2 DEF LoadScript, LimiterTypeOK, Waiting
<1>3. ASSUME NEW r \in Requests, NoScript(r) PROVE LimiterTypeOK'
  BY <1>3 DEF NoScript, Begin, LimiterTypeOK, Time, Waiting, storeVars
<1>4. ASSUME NEW r \in Requests, Unavailable(r) PROVE LimiterTypeOK'
  BY <1>4 DEF Unavailable, LimiterTypeOK, Answers
<1>5. ASSUME NEW r \in Requests, Allow(r) PROVE LimiterTypeOK'
  <2>1. log' \subseteq Requests /\ Cardinality(log') <= Capacity /\ expires' \in Nat
    BY <1>5, RecordType DEF Allow
  <2> QED  BY <1>5, <2>1 DEF Allow, LimiterTypeOK, Answers
<1>6. ASSUME NEW r \in Requests, Limit(r) PROVE LimiterTypeOK'
  <2>1. log' \subseteq Requests /\ Cardinality(log') <= Capacity
    BY <1>6, KeptInside DEF Limit, LimiterTypeOK
  <2>2. Kept(r) \in SUBSET Requests /\ Kept(r) # {}
    <3>1. Cardinality({}) = 0
      BY FS_EmptySet
    <3>2. Kept(r) \in SUBSET Requests
      BY KeptInside DEF LimiterTypeOK
    <3>3. Cardinality(Kept(r)) >= Capacity
      BY <1>6 DEF Limit, Full
    <3> QED  BY <3>1, <3>2, <3>3
  <2>3. now[Oldest(Kept(r))] + Window - now[r] \in Int
    BY <2>2, OldestInSet DEF LimiterTypeOK, Time
  <2>4. retryAfter' \in [Requests -> Nat]
    BY <1>6, <2>3, SecondsSuffice DEF Limit, LimiterTypeOK
  <2> QED  BY <1>6, <2>1, <2>4 DEF Limit, LimiterTypeOK, Answers
<1>7. ASSUME NEW r \in Requests, RunLate(r) PROVE LimiterTypeOK'
  <2>1. log' \subseteq Requests /\ Cardinality(log') <= Capacity /\ expires' \in Nat
    <3>1. CASE ~Full(Kept(r)) /\ Record(r)
      BY <3>1, RecordType
    <3>2. CASE log' = Kept(r) /\ UNCHANGED expires
      BY <3>2, KeptInside DEF LimiterTypeOK
    <3>3. CASE UNCHANGED <<log, expires>>
      BY <3>3 DEF LimiterTypeOK
    <3> QED  BY <1>7, <3>1, <3>2, <3>3 DEF RunLate
  <2> QED  BY <1>7, <2>1 DEF RunLate, LimiterTypeOK
<1>8. ASSUME NEW r \in Requests, CheckInMemory(r) PROVE LimiterTypeOK'
  BY <1>8 DEF CheckInMemory, LimiterTypeOK, Time, Answers, storeVars
<1>9. CASE LimiterTick
  <2>1. log' \subseteq Requests /\ Cardinality(log') <= Capacity
    BY <1>9, FS_EmptySet DEF LimiterTick, LimiterTypeOK
  <2> QED  BY <1>9, <2>1 DEF LimiterTick, LimiterTypeOK, Time
<1>10. CASE Restart
  <2>1. log' \subseteq Requests /\ Cardinality(log') <= Capacity
    <3>1. log' \in SUBSET log /\ log \in SUBSET Requests
      BY <1>10 DEF Restart, LimiterTypeOK
    <3> QED  BY <3>1, Counts DEF LimiterTypeOK
  <2>2. passed' \subseteq Requests /\ restarts' \in 0..MaxRestarts
    BY <1>10 DEF Restart, LimiterTypeOK
  <2>3. cached' \in BOOLEAN
    BY <1>10 DEF Restart, LimiterTypeOK
  <2>4. UNCHANGED <<production, tick, stage, now, retryAfter, known, expires, late>>
    BY <1>10 DEF Restart
  <2> HIDE <1>10
  <2> QED  BY <2>1, <2>2, <2>3, <2>4 DEF LimiterTypeOK, Time
<1>11. CASE UNCHANGED limiterVars
  BY <1>11 DEF limiterVars, storeVars, LimiterTypeOK
<1> QED  BY <1>1, <1>2, <1>3, <1>4, <1>5, <1>6, <1>7, <1>8, <1>9, <1>10, <1>11 DEF LimiterNext, Serve

\* Every variable keeps its type; the sorted set never exceeds the capacity.
THEOREM TypeCorrect == LimiterSpec => []LimiterTypeOK
BY TypeInit, TypeStep, PTL DEF LimiterSpec

-----------------------------------------------------------------------------
(* What the sorted set remembers.                                          *)

LEMMA RememberInit == LimiterInit => Remembers
BY DEF LimiterInit, Remembers, Waiting

\* A call that is counted, whether or not its answer is still awaited.
LEMMA RecordRemembers ==
  ASSUME LimiterTypeOK, Remembers, NEW r \in Requests, Record(r)
  PROVE  /\ \A q \in log' : now[q] + Ttl <= expires' /\ (q = r \/ q \in log)
         /\ \A q \in log \ log' : now[q] + Window <= tick
<1>1. tick \in Nat /\ \A q \in Requests : now[q] \in Nat /\ now[q] <= tick
  BY Bounds DEF LimiterTypeOK, Time, Remembers
<1>2. log \subseteq Requests /\ Kept(r) \subseteq log
  BY DEF LimiterTypeOK, Kept
<1>3. \A q \in log' : q = r \/ q \in log
  BY <1>2 DEF Record
<1>4. \A q \in log' : now[q] + Ttl <= expires'
  BY <1>1, <1>2, <1>3, Bounds DEF Record
<1>5. ASSUME NEW q \in log \ log' PROVE now[q] + Window <= tick
  <2>1. q \in Requests /\ ~ (now[q] > now[r] - Window)
    BY <1>2, <1>5 DEF Record, Kept
  <2> QED  BY <1>1, <2>1, Bounds
<1> QED  BY <1>3, <1>4, <1>5

LEMMA LimitRemembers ==
  ASSUME LimiterTypeOK, Remembers, NEW r \in Requests
  PROVE  /\ Kept(r) \subseteq log
         /\ \A q \in log \ Kept(r) : now[q] + Window <= tick
<1>1. tick \in Nat /\ \A q \in Requests : now[q] \in Nat /\ now[q] <= tick
  BY Bounds DEF LimiterTypeOK, Time, Remembers
<1> QED  BY <1>1, Bounds DEF Kept, LimiterTypeOK

LEMMA RememberStep == LimiterTypeOK /\ Remembers /\ [LimiterNext]_limiterVars => Remembers'
<1> SUFFICES ASSUME LimiterTypeOK, Remembers, [LimiterNext]_limiterVars PROVE Remembers'
  OBVIOUS
<1> USE Bounds
<1>1. ASSUME NEW r \in Requests, Check(r) PROVE Remembers'
  BY <1>1 DEF Check, Begin, LimiterTypeOK, Time, Waiting, storeVars, Remembers
<1>2. ASSUME NEW r \in Requests, LoadScript(r) PROVE Remembers'
  BY <1>2 DEF LoadScript, LimiterTypeOK, Waiting, Remembers
<1>3. ASSUME NEW r \in Requests, NoScript(r) PROVE Remembers'
  BY <1>3 DEF NoScript, Begin, LimiterTypeOK, Time, Waiting, storeVars, Remembers
<1>4. ASSUME NEW r \in Requests, Unavailable(r) PROVE Remembers'
  BY <1>4 DEF Unavailable, LimiterTypeOK, Waiting, Remembers
<1>5. ASSUME NEW r \in Requests, Allow(r) PROVE Remembers'
  <2>1. /\ \A q \in log' : now[q] + Ttl <= expires' /\ (q = r \/ q \in log)
        /\ \A q \in log \ log' : now[q] + Window <= tick
    BY <1>5, RecordRemembers DEF Allow
  <2>2. r \in log'
    BY <1>5 DEF Allow, Record
  <2>3. /\ stage[r] = "eval" /\ stage' = [stage EXCEPT ![r] = "passed"] /\ passed' = passed \cup {r}
        /\ UNCHANGED <<production, tick, now, late>>
    BY <1>5 DEF Allow
  <2> HIDE <1>5
  <2> QED  BY <2>1, <2>2, <2>3 DEF LimiterTypeOK, Waiting, Remembers
<1>6. ASSUME NEW r \in Requests, Limit(r) PROVE Remembers'
  <2>1. /\ log' \subseteq log
        /\ \A q \in log \ log' : now[q] + Window <= tick
    BY <1>6, LimitRemembers DEF Limit
  <2>2. /\ stage[r] = "eval" /\ stage' = [stage EXCEPT ![r] = "limited"]
        /\ UNCHANGED <<production, tick, now, expires, late, passed>>
    BY <1>6 DEF Limit
  <2> HIDE <1>6
  <2> QED  BY <2>1, <2>2 DEF LimiterTypeOK, Waiting, Remembers
<1>7. ASSUME NEW r \in Requests, RunLate(r) PROVE Remembers'
  <2>1. /\ \A q \in log' : now[q] + Ttl <= expires' /\ (q = r \/ q \in log)
        /\ \A q \in log \ log' : now[q] + Window <= tick
    <3>1. CASE Record(r)
      BY <3>1, RecordRemembers
    <3>2. CASE log' = Kept(r) /\ UNCHANGED expires
      BY <3>2, LimitRemembers DEF Remembers
    <3>3. CASE UNCHANGED <<log, expires>>
      BY <3>3 DEF Remembers
    <3> QED  BY <1>7, <3>1, <3>2, <3>3 DEF RunLate
  <2>2. /\ r \in late /\ late' \subseteq late
        /\ UNCHANGED <<production, tick, stage, now, passed>>
    BY <1>7 DEF RunLate
  <2> HIDE <1>7
  <2> QED  BY <2>1, <2>2 DEF LimiterTypeOK, Waiting, Remembers
<1>8. ASSUME NEW r \in Requests, CheckInMemory(r) PROVE Remembers'
  BY <1>8 DEF CheckInMemory, LimiterTypeOK, Time, Waiting, storeVars, Remembers
<1>9. CASE LimiterTick
  <2>1. /\ log' \subseteq log
        /\ \A q \in log \ log' : now[q] + Window <= tick'
    BY <1>9 DEF LimiterTick, LimiterTypeOK, Time, Remembers
  <2>2. \A r \in Requests : stage[r] \in Waiting => tick' <= now[r] + CallDelay
    BY <1>9 DEF LimiterTick, LimiterTypeOK, Time
  <2>3. tick' = tick + 1 /\ UNCHANGED <<production, stage, now, expires, late, passed>>
    BY <1>9 DEF LimiterTick
  <2>4. tick \in Nat /\ \A r \in Requests : now[r] \in Nat
    BY DEF LimiterTypeOK, Time
  <2> HIDE <1>9
  <2> QED  BY <2>1, <2>2, <2>3, <2>4 DEF LimiterTypeOK, Remembers
<1>10. CASE Restart
  <2>1. log' \subseteq log /\ passed' = {} /\ UNCHANGED <<production, tick, stage, now, expires, late>>
    BY <1>10 DEF Restart
  <2> HIDE <1>10
  <2> QED  BY <2>1 DEF Remembers
<1>11. CASE UNCHANGED limiterVars
  BY <1>11 DEF limiterVars, storeVars, Remembers
<1> QED  BY <1>1, <1>2, <1>3, <1>4, <1>5, <1>6, <1>7, <1>8, <1>9, <1>10, <1>11 DEF LimiterNext, Serve

-----------------------------------------------------------------------------
(* The bound on the window.                                                *)

LEMMA WindowInit == LimiterInit => WindowBound
<1> SUFFICES ASSUME LimiterInit, NEW t \in Time PROVE Cardinality(Burst(t)) <= Capacity
  BY DEF WindowBound
<1>1. Burst(t) = {} /\ Cardinality({}) = 0
  BY FS_EmptySet DEF LimiterInit, Burst
<1> QED  BY <1>1, Bounds

\* A burst that the step adds nothing to keeps to the capacity.
LEMMA SmallerBurst ==
  ASSUME LimiterTypeOK, WindowBound, production, NEW t \in Time, Burst(t)' \subseteq Burst(t)
  PROVE  Cardinality(Burst(t)') <= Capacity
<1>1. Burst(t) \in SUBSET Requests /\ Burst(t)' \in SUBSET Burst(t)
  BY DEF Burst, LimiterTypeOK
<1>2. Cardinality(Burst(t)') <= Cardinality(Burst(t))
      /\ Cardinality(Burst(t)') \in Nat /\ Cardinality(Burst(t)) \in Nat
  BY <1>1, Counts
<1> QED  BY <1>2, Bounds DEF WindowBound

\* The request that a step lets through finds the others of its burst in the
\* sorted set.
LEMMA AllowBound ==
  ASSUME LimiterTypeOK, Remembers, WindowBound, production, NEW r \in Requests, Allow(r),
         NEW t \in Time
  PROVE  Cardinality(Burst(t)') <= Capacity
<1>1. now' = now /\ passed' = passed \cup {r} /\ passed \subseteq Requests /\ stage[r] \in Waiting
  BY DEF Allow, LimiterTypeOK, Waiting
<1>2. tick \in Nat /\ t \in Nat /\ \A q \in Requests : now[q] \in Nat /\ now[q] <= tick
  BY Bounds DEF LimiterTypeOK, Time, Remembers
<1>3. CASE ~ (r \in Burst(t)')
  <2>1. Burst(t)' \subseteq Burst(t)
    BY <1>1, <1>3 DEF Burst
  <2> QED  BY <2>1, SmallerBurst
<1>4. CASE r \in Burst(t)'
  <2>1. tick <= now[r] + CallDelay /\ now[r] < t + Window - CallDelay
    BY <1>1, <1>4 DEF Remembers, Burst
  <2>2. tick < t + Window
    BY <1>2, <2>1, Bounds
  <2>3. ASSUME NEW q \in Burst(t)', q # r PROVE q \in Kept(r)
    <3>1. q \in passed /\ q \in Requests /\ t <= now[q]
      BY <1>1, <2>3 DEF Burst
    <3>2. ~ (now[q] + Window <= tick)
      BY <1>2, <2>2, <3>1, Bounds
    <3>3. q \in log
      BY <3>1, <3>2 DEF Remembers
    <3>4. now[q] > now[r] - Window
      BY <1>2, <3>1, <3>2, Bounds
    <3> QED  BY <3>3, <3>4 DEF Kept
  <2>4. Burst(t)' \in SUBSET (Kept(r) \cup {r})
    BY <2>3
  <2>5. Kept(r) \in SUBSET Requests /\ ~Full(Kept(r))
    BY KeptInside DEF Allow, LimiterTypeOK
  <2> QED  BY <2>4, <2>5, RoomForOne
<1> QED  BY <1>3, <1>4

LEMMA WindowStep == LimiterTypeOK /\ Remembers /\ WindowBound /\ [LimiterNext]_limiterVars => WindowBound'
<1> SUFFICES ASSUME LimiterTypeOK, Remembers, WindowBound, [LimiterNext]_limiterVars PROVE WindowBound'
  OBVIOUS
<1>0. production' = production
  <2>1. ASSUME NEW r \in Requests, Serve(r) PROVE production' = production
    BY <2>1 DEF Serve, Check, LoadScript, NoScript, Unavailable, Allow, Limit, RunLate, CheckInMemory
  <2> QED  BY <2>1 DEF LimiterNext, LimiterTick, Restart, limiterVars
<1> SUFFICES ASSUME production, NEW t \in Time PROVE Cardinality(Burst(t)') <= Capacity
  BY <1>0 DEF WindowBound, Time, Burst
<1>1. ASSUME NEW r \in Requests, Allow(r) PROVE Cardinality(Burst(t)') <= Capacity
  BY <1>1, AllowBound
<1>2. ASSUME passed' \subseteq passed, \A q \in passed : now'[q] = now[q]
      PROVE  Cardinality(Burst(t)') <= Capacity
  <2>1. Burst(t)' \subseteq Burst(t)
    BY <1>2 DEF Burst
  <2> QED  BY <2>1, SmallerBurst
<1>3. CASE \E r \in Requests : Check(r) \/ NoScript(r)
  BY <1>2, <1>3 DEF Check, NoScript, Begin, storeVars, Remembers, LimiterTypeOK
<1>4. CASE \/ \E r \in Requests : LoadScript(r) \/ Unavailable(r) \/ Limit(r) \/ RunLate(r)
           \/ LimiterTick \/ Restart \/ UNCHANGED limiterVars
  <2>1. now' = now /\ passed' \subseteq passed
    BY <1>4 DEF LoadScript, Unavailable, Limit, RunLate, LimiterTick, Restart, limiterVars
  <2> QED  BY <1>2, <2>1
<1>5. ASSUME NEW r \in Requests, CheckInMemory(r) PROVE FALSE
  BY <1>5 DEF CheckInMemory
<1> QED  BY <1>1, <1>3, <1>4, <1>5 DEF LimiterNext, Serve

LEMMA InvAlways == LimiterSpec => []Inv
<1>1. LimiterInit => Inv
  BY TypeInit, RememberInit, WindowInit DEF Inv
<1>2. Inv /\ [LimiterNext]_limiterVars => Inv'
  BY TypeStep, RememberStep, WindowStep DEF Inv
<1> QED  BY <1>1, <1>2, PTL DEF LimiterSpec

\* However the script's calls are delayed, reordered, abandoned or lose the
\* script, at most Capacity requests get through within a window less CallDelay.
THEOREM WindowBoundAlways == LimiterSpec => []WindowBound
<1>1. Inv => WindowBound
  BY DEF Inv
<1> QED  BY <1>1, InvAlways, PTL

-----------------------------------------------------------------------------
(* Retry-After.                                                            *)

\* A full set without one of its members is not full, if the set is no larger
\* than the capacity.
LEMMA RoomWithoutOne ==
  ASSUME NEW S \in SUBSET Requests, Cardinality(S) <= Capacity, NEW p \in S,
         NEW T \in SUBSET (S \ {p})
  PROVE  ~Full(T)
<1>1. IsFiniteSet(S) /\ Cardinality(S) \in Nat
  BY Counts
<1>2. Cardinality(S \ {p}) = Cardinality(S) - 1
  BY <1>1, FS_RemoveElement
<1>3. S \ {p} \in SUBSET Requests /\ T \in SUBSET Requests
  OBVIOUS
<1>4. Cardinality(T) <= Cardinality(S \ {p}) /\ Cardinality(T) \in Nat
  BY <1>3, Counts
<1> QED  BY <1>1, <1>2, <1>4, Bounds DEF Full

LEMMA LimitSuffices ==
  ASSUME LimiterTypeOK, NEW r \in Requests, Limit(r)
  PROVE  ~Full({q \in log' : now[q] > now[r] + Second * retryAfter'[r] - Window})
<1> DEFINE o == Oldest(Kept(r))
           left == {q \in log' : now[q] > now[r] + Second * retryAfter'[r] - Window}
<1>1. Kept(r) \in SUBSET Requests /\ Cardinality(Kept(r)) <= Capacity /\ log' = Kept(r)
  BY KeptInside DEF Limit, LimiterTypeOK
<1>2. Kept(r) # {}
  <2>1. Cardinality(Kept(r)) >= Capacity /\ Cardinality({}) = 0
    BY FS_EmptySet DEF Limit, Full
  <2> QED  BY <2>1, Bounds
<1>3. o \in Kept(r) /\ o \in Requests
  BY <1>1, <1>2, OldestInSet
<1>4. now[o] \in Nat /\ now[r] \in Nat
  BY <1>3 DEF LimiterTypeOK, Time
<1>5. retryAfter'[r] = Seconds(now[o] + Window - now[r])
  BY DEF Limit, LimiterTypeOK
<1>6. now[o] + Window - now[r] <= Second * retryAfter'[r] /\ retryAfter'[r] \in Nat
  <2>1. now[o] + Window - now[r] \in Int
    BY <1>4, Bounds
  <2> HIDE DEF o
  <2> QED  BY <2>1, <1>5, SecondsSuffice
<1>7. ~ (now[o] > now[r] + Second * retryAfter'[r] - Window)
  <2>1. Second * retryAfter'[r] \in Int
    BY <1>6, Bounds
  <2> HIDE DEF o
  <2> QED  BY <1>4, <1>6, <2>1, Bounds
<1>8. left \in SUBSET (Kept(r) \ {o})
  <2> HIDE DEF o
  <2> QED  BY <1>1, <1>7
<1> QED  BY <1>1, <1>3, <1>8, RoomWithoutOne

\* Retry-After is long enough for every limited request.
THEOREM RetryAlwaysSuffices == LimiterSpec => RetryAfterSuffices
<1>1. ASSUME LimiterTypeOK, [LimiterNext]_limiterVars, NEW r \in Requests, stage[r] = "eval", stage'[r] = "limited"
      PROVE  Limit(r)
  <2> SUFFICES ASSUME ~Limit(r), stage'[r] # stage[r] PROVE FALSE
    BY <1>1
  <2>1. ASSUME NEW s \in Requests, Serve(s) PROVE FALSE
    BY <1>1, <2>1 DEF Serve, Check, LoadScript, NoScript, Begin, Allow, Limit, Unavailable,
                      RunLate, CheckInMemory, LimiterTypeOK
  <2>2. CASE LimiterTick \/ Restart \/ UNCHANGED limiterVars
    BY <2>2 DEF LimiterTick, Restart, limiterVars
  <2> QED  BY <1>1, <2>1, <2>2 DEF LimiterNext
<1>2. LimiterTypeOK /\ [LimiterNext]_limiterVars =>
        [\A r \in Requests : stage[r] = "eval" /\ stage'[r] = "limited" =>
           ~Full({q \in log' : now[q] > now[r] + Second * retryAfter'[r] - Window})]_limiterVars
  BY <1>1, LimitSuffices
<1> QED  BY <1>2, TypeCorrect, PTL DEF LimiterSpec, RetryAfterSuffices
=============================================================================
