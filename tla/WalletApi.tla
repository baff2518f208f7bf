----------------------------- MODULE WalletApi ------------------------------
(***************************************************************************)
(* Concurrent requests of ONE user that add, change and remove wallets and *)
(* alerts (api/v1/wallets.py, api/v1/alerts.py) over PostgreSQL, READ      *)
(* COMMITTED.                                                              *)
(*                                                                         *)
(* wallets and alerts are the committed rows.  A request writes once, at   *)
(* its flush, and commits right after: the request h with pc[h] = "commit" *)
(* has inserted, updated or deleted about[h] in a transaction that is      *)
(* still open; with pc[h] = "empty" its flush had nothing to write.        *)
(* Ids are never used twice.                                               *)
(***************************************************************************)
EXTENDS Integers, FiniteSets

CONSTANTS
  Handlers,           \* bound: requests under way at a time
  Wallets, Address,   \* bound: wallets ever added; [Wallets -> chain and address]
  Alerts, WalletOf,   \* bound: alerts ever added; [Alerts -> Wallets]
  WalletQuota,        \* max_wallets_per_user
  AlertQuota,         \* max_alerts_per_user
  Nothing             \* what an idle request is about

ASSUME ApiAssumption ==
  /\ IsFiniteSet(Handlers) /\ Handlers # {}
  /\ IsFiniteSet(Wallets) /\ IsFiniteSet(Alerts)
  /\ Wallets \cap Alerts = {} /\ Nothing \notin Wallets \cup Alerts
  /\ WalletOf \in [Alerts -> Wallets]
  /\ WalletQuota \in Nat /\ AlertQuota \in Nat

VARIABLES
  wallets,  \* stored wallets
  alerts,   \* stored alerts
  retired,  \* wallets and alerts that were deleted
  pc,       \* where each request stands
  kind,     \* what each request is
  about     \* the wallet or alert it adds, changes or removes

tables == <<wallets, alerts, retired>>
vars   == <<tables, pc, kind, about>>

Kinds == {"add_wallet", "change_wallet", "remove_wallet",
          "add_alert", "change_alert", "remove_alert"}
Pcs   == {"idle", "load", "count", "duplicate", "provider", "write", "commit", "empty"}

\* The book that the tables implement: its limits are the quotas plus the requests.
Book == INSTANCE WalletBook WITH
          WalletLimit <- WalletQuota + Cardinality(Handlers),
          AlertLimit <- AlertQuota + Cardinality(Handlers),
          wallets <- wallets,
          alerts <- alerts

Init ==
  /\ wallets = {} /\ alerts = {} /\ retired = {}
  /\ pc = [h \in Handlers |-> "idle"]
  /\ kind = [h \in Handlers |-> "add_wallet"]
  /\ about = [h \in Handlers |-> Nothing]

Goto(h, label) == pc' = [pc EXCEPT ![h] = label]

Close(h) ==
  /\ Goto(h, "idle")
  /\ kind' = [kind EXCEPT ![h] = "add_wallet"]
  /\ about' = [about EXCEPT ![h] = Nothing]

-----------------------------------------------------------------------------
(* The requests, and what they read before they write.                     *)

Fresh(x) == x \notin wallets \cup alerts \cup retired /\ \A h \in Handlers : about[h] # x

Start(h, k, x, label) ==
  /\ pc[h] = "idle"
  /\ kind' = [kind EXCEPT ![h] = k]
  /\ about' = [about EXCEPT ![h] = x]
  /\ Goto(h, label)
  /\ UNCHANGED tables

\* The limiter has let the request pass.
PostWallet(h, w)   == Fresh(w) /\ Start(h, "add_wallet", w, "count")
PostAlert(h, a)    == Fresh(a) /\ Start(h, "add_alert", a, "load")
DeleteWallet(h, w) == w \in wallets /\ Start(h, "remove_wallet", w, "load")
DeleteAlert(h, a)  == a \in alerts /\ Start(h, "remove_alert", a, "load")
PatchWallet(h, w)  == w \in wallets /\ Start(h, "change_wallet", w, "load")
PatchAlert(h, a)   == a \in alerts /\ Start(h, "change_alert", a, "load")

\* Whom the request loads first: the wallet of a new alert, or its own row.
Subject(h) == IF kind[h] = "add_alert" THEN WalletOf[about[h]] ELSE about[h]

Load(h) ==
  /\ pc[h] = "load"
  /\ Subject(h) \in wallets \cup alerts
  /\ Goto(h, IF kind[h] = "add_alert" THEN "count" ELSE "write")
  /\ UNCHANGED <<tables, kind, about>>

\* A PATCH that names no field, or the values that the row has already: the flush will
\* issue no UPDATE, which would wait for the row and notice that it is gone.
NothingToWrite(h) ==
  /\ pc[h] = "load" /\ kind[h] \in {"change_wallet", "change_alert"}
  /\ Subject(h) \in wallets \cup alerts
  /\ Goto(h, "empty")
  /\ UNCHANGED <<tables, kind, about>>

QuotaFull(h) ==
  IF kind[h] = "add_wallet" THEN Cardinality(wallets) >= WalletQuota
                            ELSE Cardinality(alerts) >= AlertQuota

Count(h) ==
  /\ pc[h] = "count"
  /\ ~QuotaFull(h)
  /\ Goto(h, IF kind[h] = "add_wallet" THEN "duplicate" ELSE "write")
  /\ UNCHANGED <<tables, kind, about>>

Exists(h) == \E w \in wallets : Address[w] = Address[about[h]]

CheckDuplicate(h) ==
  /\ pc[h] = "duplicate"
  /\ ~Exists(h)
  /\ Goto(h, "provider")
  /\ UNCHANGED <<tables, kind, about>>

\* Whatever the provider answers, the wallet is inserted, perhaps without a balance.
AskProvider(h) ==
  /\ pc[h] = "provider"
  /\ Goto(h, "write")
  /\ UNCHANGED <<tables, kind, about>>

-----------------------------------------------------------------------------
(* The write.                                                              *)

\* g has written x in a transaction that is still open.
Uncommitted(g, k, x) == pc[g] = "commit" /\ kind[g] = k /\ about[g] = x

\* Mutant of KeyFree: no unique constraint.
KeyUnchecked(h) == TRUE

\* Mutant of KeyFree: each claims the address before it waits for the others.
KeyClaimed(h) ==
  \A g \in Handlers \ {h}, w \in Wallets :
    Address[w] = Address[about[h]] =>
      /\ ~ (pc[g] \in {"write", "commit"} /\ kind[g] = "add_wallet" /\ about[g] = w)
      /\ ~Uncommitted(g, "remove_wallet", w)

\* The unique index makes an insert wait for whoever has inserted or deleted its key.
KeyFree(h) ==
  \A g \in Handlers, w \in Wallets :
    Address[w] = Address[about[h]] =>
      ~Uncommitted(g, "add_wallet", w) /\ ~Uncommitted(g, "remove_wallet", w)

InsertWallet(h) ==
  /\ pc[h] = "write" /\ kind[h] = "add_wallet"
  /\ KeyFree(h) /\ ~Exists(h)
  /\ Goto(h, "commit")
  /\ UNCHANGED <<tables, kind, about>>

\* Mutant of Referenced: the insert takes no lock on the wallet.
NeverReferenced(w) == FALSE

\* Someone has inserted an alert of w: its foreign key holds the wallet's row.
Referenced(w) == \E g \in Handlers, a \in Alerts : WalletOf[a] = w /\ Uncommitted(g, "add_alert", a)

\* Deleted, or an alert whose wallet is: the cascade has deleted it too.
BeingDeleted(x) ==
  \E g \in Handlers :
    \/ Uncommitted(g, "remove_wallet", x) \/ Uncommitted(g, "remove_alert", x)
    \/ x \in Alerts /\ Uncommitted(g, "remove_wallet", WalletOf[x])

BeingChanged(x) == \E g \in Handlers, k \in {"change_wallet", "change_alert"} : Uncommitted(g, k, x)

\* Mutant of RowFree: rows are not locked.
RowNotLocked(x) == TRUE

RowFree(x) == ~BeingDeleted(x) /\ ~BeingChanged(x)

\* A DELETE waits for the rows that it and its cascade need; that one of them is
\* gone by then does not matter to it.
DeleteRow(h) ==
  /\ pc[h] = "write" /\ kind[h] \in {"remove_wallet", "remove_alert"}
  /\ RowFree(about[h])
  /\ kind[h] = "remove_wallet" =>
       /\ ~Referenced(about[h])
       /\ \A a \in alerts : WalletOf[a] = about[h] => RowFree(a)
  /\ Goto(h, "commit")
  /\ UNCHANGED <<tables, kind, about>>

\* The UPDATE of a row that is gone matches nothing, which raises (Refused).
UpdateRow(h) ==
  /\ pc[h] = "write" /\ kind[h] \in {"change_wallet", "change_alert"}
  /\ RowFree(about[h]) /\ about[h] \in wallets \cup alerts
  /\ Goto(h, "commit")
  /\ UNCHANGED <<tables, kind, about>>

InsertAlert(h) ==
  /\ pc[h] = "write" /\ kind[h] = "add_alert"
  /\ ~BeingDeleted(WalletOf[about[h]])
  /\ WalletOf[about[h]] \in wallets
  /\ Goto(h, "commit")
  /\ UNCHANGED <<tables, kind, about>>

-----------------------------------------------------------------------------
(* The end of a request.                                                   *)

\* Alerts that go with a wallet.
Cascade(w) == {a \in alerts : WalletOf[a] = w}

Commit(h) ==
  /\ pc[h] = "commit"
  /\ \/ /\ kind[h] = "add_wallet"
        /\ wallets' = wallets \cup {about[h]}
        /\ UNCHANGED <<alerts, retired>>
     \/ /\ kind[h] = "add_alert"
        /\ alerts' = alerts \cup {about[h]}
        /\ UNCHANGED <<wallets, retired>>
     \/ /\ kind[h] = "remove_wallet"
        /\ wallets' = wallets \ {about[h]}
        /\ alerts' = alerts \ Cascade(about[h])
        /\ retired' = retired \cup {about[h]} \cup Cascade(about[h])
     \/ /\ kind[h] = "remove_alert"
        /\ alerts' = alerts \ {about[h]}
        /\ retired' = retired \cup {about[h]}
        /\ UNCHANGED wallets
     \/ /\ kind[h] \in {"change_wallet", "change_alert"}
        /\ UNCHANGED tables
  /\ Close(h)

CommitNothing(h) == pc[h] = "empty" /\ Close(h) /\ UNCHANGED tables

\* 404, 409, a violated constraint: the answer that ends each read or write.
Refused(h) ==
  /\ \/ pc[h] = "load" /\ Subject(h) \notin wallets \cup alerts
     \/ pc[h] = "count" /\ QuotaFull(h)
     \/ pc[h] = "duplicate" /\ Exists(h)
     \/ pc[h] = "write" /\ kind[h] = "add_wallet" /\ KeyFree(h) /\ Exists(h)
     \/ /\ pc[h] = "write" /\ kind[h] = "add_alert"
        /\ ~BeingDeleted(WalletOf[about[h]]) /\ WalletOf[about[h]] \notin wallets
     \/ /\ pc[h] = "write" /\ kind[h] \in {"change_wallet", "change_alert"}
        /\ RowFree(about[h]) /\ about[h] \notin wallets \cup alerts
  /\ Close(h)
  /\ UNCHANGED tables

\* An address that is none, a query that fails, a client that goes away.
Fail(h) == pc[h] # "idle" /\ Close(h) /\ UNCHANGED tables

Step(h) ==
  \/ Load(h) \/ NothingToWrite(h) \/ Count(h) \/ CheckDuplicate(h) \/ AskProvider(h)
  \/ InsertWallet(h) \/ DeleteRow(h) \/ UpdateRow(h) \/ InsertAlert(h)
  \/ Commit(h) \/ CommitNothing(h) \/ Refused(h)

Request(h) ==
  \/ \E w \in Wallets : PostWallet(h, w) \/ PatchWallet(h, w) \/ DeleteWallet(h, w)
  \/ \E a \in Alerts : PostAlert(h, a) \/ PatchAlert(h, a) \/ DeleteAlert(h, a)

Next == \E h \in Handlers : Request(h) \/ Step(h) \/ Fail(h)

Spec == Init /\ [][Next]_vars

\* PostgreSQL queues those who wait for a row or a key; no client has to send a request.
FairSpec == Spec /\ \A h \in Handlers : SF_vars(Step(h))

-----------------------------------------------------------------------------
(* Properties.                                                             *)

\* Every variable has its type: a request is about something of its kind, and what
\* it is about to add is nowhere yet.
TypeOK ==
  /\ wallets \subseteq Wallets /\ alerts \subseteq Alerts
  /\ retired \subseteq Wallets \cup Alerts /\ retired \cap (wallets \cup alerts) = {}
  /\ pc \in [Handlers -> Pcs]
  /\ kind \in [Handlers -> Kinds]
  /\ about \in [Handlers -> Wallets \cup Alerts \cup {Nothing}]
  /\ \A h \in Handlers :
       /\ pc[h] # "idle" => about[h] \in IF kind[h] \in {"add_wallet", "change_wallet", "remove_wallet"}
                                         THEN Wallets ELSE Alerts
       /\ pc[h] # "idle" /\ kind[h] \in {"add_wallet", "add_alert"} =>
            /\ about[h] \notin wallets \cup alerts \cup retired
            /\ \A g \in Handlers : about[g] = about[h] => g = h
       /\ pc[h] \in {"duplicate", "provider"} => kind[h] = "add_wallet"
       /\ pc[h] = "load" => kind[h] # "add_wallet"
       /\ pc[h] = "count" => kind[h] \in {"add_wallet", "add_alert"}
       /\ pc[h] = "empty" => kind[h] \in {"change_wallet", "change_alert"}

\* Adding the same address twice at once, or while it is being deleted, never leaves
\* two rows of it, not even uncommitted ones.
OneRowPerAddress ==
  /\ \A v, w \in wallets : Address[v] = Address[w] => v = w
  /\ \A g, h \in Handlers :
       pc[h] = "commit" /\ kind[h] = "add_wallet" =>
         /\ ~Exists(h)
         /\ pc[g] = "commit" /\ kind[g] = "add_wallet" /\ Address[about[g]] = Address[about[h]] => g = h

\* An alert has its wallet: when stored, and as soon as it is inserted, with nobody
\* about to delete the wallet from under it.
AlertsHaveWallets ==
  /\ \A a \in alerts : WalletOf[a] \in wallets
  /\ \A h \in Handlers :
       pc[h] = "commit" /\ kind[h] = "add_alert" =>
         /\ WalletOf[about[h]] \in wallets
         /\ \A g \in Handlers : ~Uncommitted(g, "remove_wallet", WalletOf[about[h]])

\* A PATCH that has written a change and comes to commit has changed a row that is
\* there and stays there until then, whoever deletes it or its wallet meanwhile.  (One
\* without a net change, at "empty", holds no row: its own may be gone.)
ChangesHit ==
  \A h \in Handlers :
    pc[h] = "commit" /\ kind[h] \in {"change_wallet", "change_alert"} => about[h] \in wallets \cup alerts

\* Requests that count before any of them inserts pass the quotas together, but by
\* no more than all of them but one.
QuotasBounded ==
  /\ Cardinality(wallets) < WalletQuota + Cardinality(Handlers)
  /\ Cardinality(alerts) < AlertQuota + Cardinality(Handlers)

\* The tables behave like a book in which everything is added and removed at once.
ImplementsBook == Book!BookSpec

\* Every request ends, however many wait for the same wallet or address.
RequestEnds == \A h \in Handlers : pc[h] # "idle" ~> pc[h] = "idle"
=============================================================================
