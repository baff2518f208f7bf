---------------------------- MODULE MCSnapshots -----------------------------
(***************************************************************************)
(* The coins leave and come back: a writer may fetch again what it loaded. *)
(* Apart from the writers, the history that the holdings are made of.      *)
(***************************************************************************)
EXTENDS Snapshots, Holdings, TLC

CONSTANTS v1, v2, k1, k2

MCNative == (0 :> 0) @@ (1 :> 1) @@ (2 :> 0)
MCTokens == (0 :> 0) @@ (1 :> 0) @@ (2 :> 3)

Untouched ==
  /\ block = 0 /\ clock = 0
  /\ wallet = "active" /\ snapshots = {}
  /\ \A w \in Writers : pc[w] = "idle" /\ ~overtaken[w]

MCInit == Init /\ HoldingsInit

\* The two parts know nothing of each other: in a behaviour one of them moves.
MCNext ==
  \/ Next /\ history = <<>> /\ UNCHANGED history
  \/ HoldingsNext /\ Untouched /\ UNCHANGED vars

MCSpec == MCInit /\ [][MCNext]_<<vars, history>> /\ \A w \in Writers : SF_vars(Step(w))
=============================================================================
