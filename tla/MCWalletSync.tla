---------------------------- MODULE MCWalletSync ----------------------------
(***************************************************************************)
(* Values for the constants of WalletSync: two alerts, one that every      *)
(* transaction fires and one with a threshold that the first transaction   *)
(* alone reaches.                                                          *)
(***************************************************************************)
EXTENDS WalletSync, TLC

CONSTANTS w1, w2, a1, a2

MCKind      == [a \in Alerts |-> IF a = a1 THEN "activity" ELSE "incoming_above"]
MCThreshold == [a \in Alerts |-> IF a = a1 THEN NoThreshold ELSE 2]

Move(dir, amount) == [direction |-> dir, amount |-> amount, token |-> FALSE]

\* Every transaction moves value ...
MCTx == [h \in Hash |-> <<Move("in", 2), Move("in", 1), Move("out", 2)>>[h]]
\* ... or the second one does not.
TxWithApproval == [h \in Hash |-> IF h = 2 THEN Move("out", 0) ELSE MCTx[h]]

WorkerSymmetry == Permutations(Workers)
=============================================================================
