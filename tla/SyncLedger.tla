----------------------------- MODULE SyncLedger -----------------------------
(***************************************************************************)
(* What the tables of one wallet promise their readers, without workers,   *)
(* locks or transactions: the stored transactions grow by whole batches,   *)
(* and a batch brings the deliveries of its transactions with it.          *)
(* WalletSync implements this specification.                               *)
(***************************************************************************)
EXTENDS AlertRules

VARIABLES
  wallet,      \* "active", "inactive" or "deleted"
  alerts,      \* [Alerts -> "none", "active", "paused" or "deleted"]
  txs,         \* stored transactions
  deliveries,  \* stored alert_deliveries, <<alert, transaction>>
  watched      \* alerts active ever since the batch under way began

tables == <<wallet, alerts, txs, deliveries, watched>>

Delivery == Alerts \X Hash
Active   == {a \in Alerts : alerts[a] = "active"}
Existing == {a \in Alerts : alerts[a] \in {"active", "paused"}}

LedgerInit ==
  /\ wallet = "active"
  /\ alerts = [a \in Alerts |-> "none"]
  /\ txs = {} /\ deliveries = {} /\ watched = {}

-----------------------------------------------------------------------------
(* API requests.                                                           *)

AddAlert(a) ==
  /\ wallet # "deleted"
  /\ alerts[a] = "none"
  /\ alerts' = [alerts EXCEPT ![a] = "active"]
  /\ UNCHANGED <<wallet, txs, deliveries, watched>>

\* PATCH of is_active.
ToggleAlert(a) ==
  /\ a \in Existing
  /\ alerts' = [alerts EXCEPT ![a] = IF @ = "active" THEN "paused" ELSE "active"]
  /\ watched' = watched \ {a}
  /\ UNCHANGED <<wallet, txs, deliveries>>

\* The alert's deliveries go with it, by the ORM's cascade and the foreign key's.
RemoveAlert(a) ==
  /\ a \in Existing
  /\ alerts' = [alerts EXCEPT ![a] = "deleted"]
  /\ deliveries' = {d \in deliveries : d[1] # a}
  /\ watched' = watched \ {a}
  /\ UNCHANGED <<wallet, txs>>

\* PATCH of is_active.
ToggleWallet ==
  /\ wallet # "deleted"
  /\ wallet' = IF wallet = "active" THEN "inactive" ELSE "active"
  /\ UNCHANGED <<alerts, txs, deliveries, watched>>

\* Everything of the wallet goes with it.
RemoveWallet ==
  /\ wallet # "deleted"
  /\ wallet' = "deleted"
  /\ alerts' = [a \in Alerts |-> "deleted"]
  /\ txs' = {} /\ deliveries' = {} /\ watched' = {}

-----------------------------------------------------------------------------
(* Syncs.                                                                  *)

BeginBatch == watched' = Active /\ UNCHANGED <<wallet, alerts, txs, deliveries>>

\* New transactions, with the deliveries of every alert that stayed active
\* and fires for them, and of no alert that is gone or does not fire.
RecordBatch(new, fired) ==
  /\ wallet # "deleted"
  /\ new \cap txs = {}
  /\ {d \in watched \X new : Fires(d[1], d[2])} \subseteq fired
  /\ fired \subseteq {d \in Existing \X new : Fires(d[1], d[2])}
  /\ txs' = txs \cup new
  /\ deliveries' = deliveries \cup fired
  /\ UNCHANGED <<wallet, alerts, watched>>

LedgerNext ==
  \/ \E a \in Alerts : AddAlert(a) \/ ToggleAlert(a) \/ RemoveAlert(a)
  \/ ToggleWallet \/ RemoveWallet
  \/ BeginBatch
  \/ \E new \in SUBSET Hash, fired \in SUBSET Delivery : RecordBatch(new, fired)

LedgerSpec == LedgerInit /\ [][LedgerNext]_tables
=============================================================================
