----------------------------- MODULE AlertRules -----------------------------
(***************************************************************************)
(* The transactions of one wallet, as its chain produces them, and the     *)
(* rule by which an alert fires for a transaction (apps/worker/worker/     *)
(* tasks.py, _try_fire_alert).  A transaction is named by its position on  *)
(* the chain, 1 the oldest; an alert's kind and threshold and a            *)
(* transaction's fields never change.                                      *)
(***************************************************************************)
EXTENDS Integers

CONSTANTS
  Alerts,       \* the alerts a user may create on the wallet
  MaxTx,        \* bound: transactions the chain ever holds
  Limit,        \* page size of one fetch: limit=50 in the worker
  NoThreshold,  \* threshold_amount IS NULL
  Kind,         \* [Alerts -> kinds of models/alert.py]
  Threshold,    \* [Alerts -> threshold_amount]
  Tx            \* [1..MaxTx -> what the provider parses of the transaction]

Kinds == {"incoming_above", "outgoing_above", "activity", "balance_above", "token_transfer"}

Height == 0..MaxTx
Hash   == 1..MaxTx

TxFields == [direction : {"in", "out", "self"}, amount : Nat, token : BOOLEAN]

ASSUME RulesAssumption ==
  /\ MaxTx \in Nat
  /\ Limit \in Nat \ {0}
  /\ Kind \in [Alerts -> Kinds]
  /\ NoThreshold \notin Nat
  /\ Threshold \in [Alerts -> Nat \cup {NoThreshold}]
  /\ Tx \in [Hash -> TxFields]

Fires(a, h) ==
  LET t == Tx[h]
  IN  \/ /\ \/ Kind[a] = "incoming_above" /\ t.direction = "in"
            \/ Kind[a] = "outgoing_above" /\ t.direction = "out"
         /\ Threshold[a] # NoThreshold
         /\ t.amount >= Threshold[a]
      \/ Kind[a] = "activity"
      \/ Kind[a] = "token_transfer" /\ t.token

\* Only transactions that move value are parsed; the page is cut before that
\* filter, so a transaction of value 0 uses up a place of the page.
MovesValue(h) == Tx[h].amount > 0

\* Mutant of Recent: the newest block is left out of the page.
RecentButNewest(top) == {h \in Hash : top - Limit <= h /\ h < top /\ MovesValue(h)}

\* What fetch_recent_transactions returns when the chain stands at height top.
Recent(top) == {h \in Hash : top - Limit < h /\ h <= top /\ MovesValue(h)}

\* The page is processed newest first.
Newest(S) == CHOOSE h \in S : \A k \in S : k <= h
=============================================================================
