----------------------------- MODULE RateLimit -----------------------------
(***************************************************************************)
(* The rate limiters of the API (utils/rate_limit.py), for the requests    *)
(* that share ONE key: in production RedisRateLimiter, a sliding log kept  *)
(* in a sorted set by an atomic Lua script; elsewhere InMemoryRateLimiter. *)
(*                                                                         *)
(* A request reads the clock in the API process and the script runs with   *)
(* that time later, so the script's calls may come out of order.  A unit   *)
(* of time is a tick, Second of them a second.                             *)
(***************************************************************************)
EXTENDS Integers, FiniteSets

CONSTANTS
  Requests,
  Capacity,     \* LimitSpec.capacity
  Second,       \* ticks per second
  Window,       \* LimitSpec.window_seconds, in ticks
  CallDelay,    \* bound: ticks from reading the clock to running the script
  LastTick,     \* bound: the clock stops here
  MaxRestarts   \* bound: restarts of Redis

ASSUME LimitAssumption ==
  /\ IsFiniteSet(Requests)
  /\ Capacity \in Nat \ {0}
  /\ Second \in Nat \ {0}
  /\ Window \in Nat \ {0}
  /\ CallDelay \in Nat /\ LastTick \in Nat /\ MaxRestarts \in Nat

Time == 0..LastTick

VARIABLES
  production,  \* settings.is_production, read once
  tick,        \* the clock
  stage,       \* where each request stands, or how it was answered
  now,         \* the time each request has read: its score in the sorted set
  retryAfter,  \* seconds a limited request was told to wait
  known,       \* the process believes that Redis has the script: _LUA_SHA
  cached,      \* Redis has the script
  log,         \* the sorted set: requests, scored by now
  expires,     \* when Redis drops the sorted set
  late,        \* given up by the process, and still to run in Redis
  restarts,
  \* History, read by properties only:
  passed       \* requests let through since Redis last lost the sorted set

storeVars == <<cached, log, expires, late, restarts>>
limiterVars == <<production, tick, stage, now, retryAfter, known, storeVars, passed>>

Answers == {"passed", "limited", "unavailable"}
Waiting == {"load", "eval"}

LimiterInit ==
  /\ production \in BOOLEAN
  /\ tick = 0
  /\ stage = [r \in Requests |-> "new"]
  /\ now = [r \in Requests |-> 0]
  /\ retryAfter = [r \in Requests |-> 0]
  /\ known = FALSE /\ cached = FALSE
  /\ log = {} /\ expires = 0 /\ late = {}
  /\ restarts = 0
  /\ passed = {}

-----------------------------------------------------------------------------
(* The process: read the clock, load the script unless it is known.        *)

Begin(r, sha) ==
  /\ now' = [now EXCEPT ![r] = tick]
  /\ stage' = [stage EXCEPT ![r] = IF sha THEN "eval" ELSE "load"]

Check(r) ==
  /\ production
  /\ stage[r] = "new"
  /\ Begin(r, known)
  /\ UNCHANGED <<production, tick, retryAfter, known, storeVars, passed>>

LoadScript(r) ==
  /\ stage[r] = "load"
  /\ known' = TRUE /\ cached' = TRUE
  /\ stage' = [stage EXCEPT ![r] = "eval"]
  /\ UNCHANGED <<production, tick, now, retryAfter, log, expires, late, restarts, passed>>

\* Redis has lost the script: check again from the start.
NoScript(r) ==
  /\ stage[r] = "eval"
  /\ ~cached
  /\ known' = FALSE
  /\ Begin(r, FALSE)
  /\ UNCHANGED <<production, tick, retryAfter, storeVars, passed>>

\* Any other exception refuses the request.  A call that timed out may all the
\* same have loaded the script, or still be run by Redis.
Unavailable(r) ==
  /\ stage[r] \in Waiting
  /\ stage' = [stage EXCEPT ![r] = "unavailable"]
  /\ \/ UNCHANGED <<cached, late>>
     \/ stage[r] = "load" /\ cached' = TRUE /\ UNCHANGED late
     \/ stage[r] = "eval" /\ late' = late \cup {r} /\ UNCHANGED cached
  /\ UNCHANGED <<production, tick, now, retryAfter, known, log, expires, restarts, passed>>

-----------------------------------------------------------------------------
(* The script.                                                             *)

\* What ZREMRANGEBYSCORE leaves.
Kept(r) == {q \in log : now[q] > now[r] - Window}

Full(S) == Cardinality(S) >= Capacity

\* Mutant of Ttl: seconds given to PEXPIRE.
TtlOfOneSecond == Second

Ttl == Window + Second

Record(r) ==
  /\ log' = Kept(r) \cup {r}
  /\ expires' = tick + Ttl

\* Mutant of Seconds: rounded down.
WholeSeconds(ticks) == IF ticks < Second THEN 1 ELSE ticks \div Second

\* Rounded up, and at least 1.
Seconds(ticks) == IF ticks < 1 THEN 1 ELSE (ticks + Second - 1) \div Second

Oldest(S) == CHOOSE q \in S : \A p \in S : now[q] <= now[p]

Allow(r) ==
  /\ stage[r] = "eval"
  /\ cached /\ ~Full(Kept(r))
  /\ Record(r)
  /\ stage' = [stage EXCEPT ![r] = "passed"]
  /\ passed' = passed \cup {r}
  /\ UNCHANGED <<production, tick, now, retryAfter, known, cached, late, restarts>>

Limit(r) ==
  /\ stage[r] = "eval"
  /\ cached /\ Full(Kept(r))
  /\ log' = Kept(r)
  /\ stage' = [stage EXCEPT ![r] = "limited"]
  /\ retryAfter' = [retryAfter EXCEPT ![r] = Seconds(now[Oldest(Kept(r))] + Window - now[r])]
  /\ UNCHANGED <<production, tick, now, known, cached, expires, late, restarts, passed>>

\* The script runs, or no longer exists, and nobody reads its answer.
RunLate(r) ==
  /\ r \in late
  /\ late' = late \ {r}
  /\ \/ cached /\ ~Full(Kept(r)) /\ Record(r)
     \/ cached /\ Full(Kept(r)) /\ log' = Kept(r) /\ UNCHANGED expires
     \/ ~cached /\ UNCHANGED <<log, expires>>
  /\ UNCHANGED <<production, tick, stage, now, retryAfter, known, cached, restarts, passed>>

-----------------------------------------------------------------------------
(* InMemoryRateLimiter.  Every handler makes a limiter of its own for each *)
(* request it serves, so the dictionary it looks into is always empty.     *)

Remembered == {}

CheckInMemory(r) ==
  /\ ~production
  /\ stage[r] = "new"
  /\ now' = [now EXCEPT ![r] = tick]
  /\ ~Full({q \in Remembered : now[q] > tick - Window})
  /\ stage' = [stage EXCEPT ![r] = "passed"]
  /\ passed' = passed \cup {r}
  /\ UNCHANGED <<production, tick, retryAfter, known, storeVars>>

-----------------------------------------------------------------------------
(* Time, and Redis.                                                        *)

\* A waiting request is answered before CallDelay is over.
LimiterTick ==
  /\ tick < LastTick
  /\ \A r \in Requests : stage[r] \in Waiting => tick - now[r] < CallDelay
  /\ tick' = tick + 1
  /\ log' = IF tick' >= expires THEN {} ELSE log
  /\ UNCHANGED <<production, stage, now, retryAfter, known, cached, expires, late>>
  /\ UNCHANGED <<restarts, passed>>

\* A restart loses the script and what was recorded since the last snapshot,
\* an eviction (allkeys-lru) the sorted set.
Restart ==
  /\ restarts < MaxRestarts
  /\ restarts' = restarts + 1
  /\ cached' \in {cached, FALSE}
  /\ log' \in SUBSET log
  /\ passed' = {}
  /\ UNCHANGED <<production, tick, stage, now, retryAfter, known, expires, late>>

Serve(r) ==
  \/ Check(r) \/ LoadScript(r) \/ NoScript(r) \/ Allow(r) \/ Limit(r) \/ Unavailable(r)
  \/ RunLate(r) \/ CheckInMemory(r)

LimiterNext == (\E r \in Requests : Serve(r)) \/ LimiterTick \/ Restart

LimiterSpec == LimiterInit /\ [][LimiterNext]_limiterVars

-----------------------------------------------------------------------------
(* Properties.                                                             *)

\* Every variable has its type, and the sorted set never holds more than the
\* capacity, whatever late calls and restarts do to it.
LimiterTypeOK ==
  /\ production \in BOOLEAN
  /\ tick \in Time
  /\ stage \in [Requests -> {"new"} \cup Waiting \cup Answers]
  /\ now \in [Requests -> Time]
  /\ retryAfter \in [Requests -> Nat]
  /\ known \in BOOLEAN /\ cached \in BOOLEAN
  /\ log \subseteq Requests /\ Cardinality(log) <= Capacity
  /\ expires \in Nat
  /\ late \subseteq Requests
  /\ restarts \in 0..MaxRestarts
  /\ passed \subseteq Requests

\* Requests let through within a span of time that begins at t.  The span is
\* shorter than the window by what the script's calls may be late.
Burst(t) == {q \in passed : t <= now[q] /\ now[q] < t + Window - CallDelay}

\* However the calls of the script are delayed, reordered, abandoned or lose
\* the script, at most Capacity requests get through in any window.
WindowBound == production => \A t \in Time : Cardinality(Burst(t)) <= Capacity

\* Retry-After is long enough: when it is over, fewer than Capacity of the
\* requests that filled the window are left in it.
RetryAfterSuffices ==
  [][\A r \in Requests : stage[r] = "eval" /\ stage'[r] = "limited" =>
       ~Full({q \in log' : now[q] > now[r] + Second * retryAfter'[r] - Window})]_limiterVars
=============================================================================
