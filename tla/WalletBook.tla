----------------------------- MODULE WalletBook -----------------------------
(***************************************************************************)
(* What the API promises of one user's wallets and alerts: each is added   *)
(* and removed at once, an address is there at most once, an alert belongs *)
(* to a wallet that is there, and both stay below their limits.            *)
(* WalletApi implements this specification.                                *)
(***************************************************************************)
EXTENDS Integers, FiniteSets

CONSTANTS
  Wallets, Address,         \* wallets, and [Wallets -> the address of each]
  Alerts, WalletOf,         \* alerts, and [Alerts -> the wallet of each]
  WalletLimit, AlertLimit   \* never so many are there

VARIABLES wallets, alerts

book == <<wallets, alerts>>

BookInit == wallets = {} /\ alerts = {}

AddWallet(w) ==
  /\ \A v \in wallets : Address[v] # Address[w]
  /\ Cardinality(wallets) + 1 < WalletLimit
  /\ wallets' = wallets \cup {w}
  /\ UNCHANGED alerts

\* Its alerts go with it.
RemoveWallet(w) ==
  /\ wallets' = wallets \ {w}
  /\ alerts' = {a \in alerts : WalletOf[a] # w}

AddAlert(a) ==
  /\ WalletOf[a] \in wallets
  /\ Cardinality(alerts) + 1 < AlertLimit
  /\ alerts' = alerts \cup {a}
  /\ UNCHANGED wallets

RemoveAlert(a) ==
  /\ alerts' = alerts \ {a}
  /\ UNCHANGED wallets

BookNext ==
  \/ \E w \in Wallets : AddWallet(w) \/ RemoveWallet(w)
  \/ \E a \in Alerts : AddAlert(a) \/ RemoveAlert(a)

BookSpec == BookInit /\ [][BookNext]_book
=============================================================================
