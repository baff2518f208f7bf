------------------------------- MODULE MCLogin ------------------------------
(***************************************************************************)
(* What stands before a new session: initData that is used up, the address *)
(* that a login counts for, and the limiter of one such key.               *)
(***************************************************************************)
EXTENDS WebClient, ClientIp, RateLimit, TLC

CONSTANTS l1, l2, d1, c1, c2, p1, p2, r1, r2, r3, r4

RequestSymmetry == Permutations(Requests)

\* One of the parts that has not moved yet, in one of its initial states.
ClientRests  == signed = {} /\ clock = 0 /\ ~lost /\ ~bypass
HopRests     == header = <<>> /\ sender = c1
LimiterRests == production /\ tick = 0 /\ restarts = 0 /\ \A r \in Requests : stage[r] = "new"

MCInit == Init /\ HopInit /\ LimiterInit

\* The parts know nothing of each other: in a behaviour one of them moves.
MCNext ==
  \/ Next /\ HopRests /\ LimiterRests /\ UNCHANGED <<hopVars, limiterVars>>
  \/ Hop /\ ClientRests /\ LimiterRests /\ UNCHANGED <<vars, limiterVars>>
  \/ LimiterNext /\ ClientRests /\ HopRests /\ UNCHANGED <<vars, hopVars>>

MCSpec == MCInit /\ [][MCNext]_<<vars, hopVars, limiterVars>>
=============================================================================
