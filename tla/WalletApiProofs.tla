-------------------------- MODULE WalletApiProofs ---------------------------
(***************************************************************************)
(* Proofs about WalletApi, for any number of requests, wallets and alerts  *)
(* and any quotas.                                                         *)
(***************************************************************************)
EXTENDS WalletApi, FiniteSetTheorems, TLAPS

\* Requests that found room and have yet to store what they add.
AddingWallets ==
  {h \in Handlers : kind[h] = "add_wallet" /\ pc[h] \in {"duplicate", "provider", "write", "commit"}}
AddingAlerts ==
  {h \in Handlers : kind[h] = "add_alert" /\ pc[h] \in {"write", "commit"}}

\* What is stored and what was let in stay below the quota plus the requests.
Room ==
  /\ Cardinality(wallets) + Cardinality(AddingWallets) < WalletQuota + Cardinality(Handlers)
  /\ Cardinality(alerts) + Cardinality(AddingAlerts) < AlertQuota + Cardinality(Handlers)

\* A step that moves one request on and writes nothing ...
Moves(h, from, to) ==
  /\ pc[h] = from /\ Goto(h, to)
  /\ UNCHANGED <<tables, kind, about>>

\* ... or ends it so.
Ends(h) == pc[h] # "idle" /\ Close(h) /\ UNCHANGED tables

-----------------------------------------------------------------------------
(* Types.                                                                  *)

LEMMA TypeInit == Init => TypeOK
BY DEF Init, TypeOK, Pcs, Kinds

LEMMA TypeEnds ==
  ASSUME TypeOK, NEW h \in Handlers, Ends(h)
  PROVE  TypeOK'
BY ApiAssumption DEF ApiAssumption, TypeOK, Ends, Close, Goto, tables, Pcs, Kinds

LEMMA TypeMoves ==
  ASSUME TypeOK, NEW h \in Handlers, NEW from \in Pcs \ {"idle"}, NEW to \in Pcs \ {"idle"},
         Moves(h, from, to),
         to \in {"duplicate", "provider"} => kind[h] = "add_wallet",
         to = "load" => kind[h] # "add_wallet",
         to = "count" => kind[h] \in {"add_wallet", "add_alert"},
         to = "empty" => kind[h] \in {"change_wallet", "change_alert"}
  PROVE  TypeOK'
BY DEF TypeOK, Moves, Goto, tables, Pcs

LEMMA TypeStart ==
  ASSUME TypeOK, NEW h \in Handlers, NEW k \in Kinds, NEW x, NEW label \in {"count", "load"},
         Start(h, k, x, label),
         x \in IF k \in {"add_wallet", "change_wallet", "remove_wallet"} THEN Wallets ELSE Alerts,
         k \in {"add_wallet", "add_alert"} => Fresh(x),
         k \notin {"add_wallet", "add_alert"} => x \in wallets \cup alerts,
         label = IF k = "add_wallet" THEN "count" ELSE "load"
  PROVE  TypeOK'
<1> USE DEF TypeOK, Start, Goto, tables
<1>1. /\ pc' = [pc EXCEPT ![h] = label] /\ kind' = [kind EXCEPT ![h] = k]
      /\ about' = [about EXCEPT ![h] = x] /\ UNCHANGED <<wallets, alerts, retired>>
      /\ pc[h] = "idle"
  OBVIOUS
<1>2. /\ pc' \in [Handlers -> Pcs] /\ kind' \in [Handlers -> Kinds]
      /\ about' \in [Handlers -> Wallets \cup Alerts \cup {Nothing}]
  BY <1>1 DEF Pcs
<1>3. ASSUME NEW i \in Handlers, pc'[i] # "idle", kind'[i] \in {"add_wallet", "add_alert"}
      PROVE  /\ about'[i] \notin wallets \cup alerts \cup retired
             /\ \A g \in Handlers : about'[g] = about'[i] => g = i
  <2>1. CASE i = h
    BY <1>1, <1>3, <2>1 DEF Fresh
  <2>2. CASE i # h
    <3>1. pc[i] # "idle" /\ kind[i] \in {"add_wallet", "add_alert"} /\ about'[i] = about[i]
      BY <1>1, <1>3, <2>2
    <3>2. x # about[i]
      BY <3>1 DEF Fresh
    <3> QED  BY <1>1, <3>1, <3>2
  <2> QED  BY <2>1, <2>2
<1>4. ASSUME NEW i \in Handlers
      PROVE  /\ pc'[i] # "idle" => about'[i] \in IF kind'[i] \in {"add_wallet", "change_wallet", "remove_wallet"}
                                                 THEN Wallets ELSE Alerts
             /\ pc'[i] \in {"duplicate", "provider"} => kind'[i] = "add_wallet"
             /\ pc'[i] = "load" => kind'[i] # "add_wallet"
             /\ pc'[i] = "count" => kind'[i] \in {"add_wallet", "add_alert"}
             /\ pc'[i] = "empty" => kind'[i] \in {"change_wallet", "change_alert"}
  BY <1>1
<1> QED  BY <1>1, <1>2, <1>3, <1>4

LEMMA TypeCommit ==
  ASSUME TypeOK, NEW h \in Handlers, Commit(h)
  PROVE  TypeOK'
<1> USE DEF TypeOK
<1>1. /\ pc' = [pc EXCEPT ![h] = "idle"] /\ kind' = [kind EXCEPT ![h] = "add_wallet"]
      /\ about' = [about EXCEPT ![h] = Nothing] /\ pc[h] = "commit"
  BY DEF Commit, Close, Goto
<1>2. /\ pc' \in [Handlers -> Pcs] /\ kind' \in [Handlers -> Kinds]
      /\ about' \in [Handlers -> Wallets \cup Alerts \cup {Nothing}]
  BY <1>1 DEF Pcs, Kinds
<1>3. /\ wallets' \subseteq Wallets /\ alerts' \subseteq Alerts
      /\ retired' \subseteq Wallets \cup Alerts /\ retired' \cap (wallets' \cup alerts') = {}
      /\ wallets' \cup alerts' \cup retired' \subseteq wallets \cup alerts \cup retired \cup {about[h]}
  BY <1>1, ApiAssumption DEF ApiAssumption, Commit, Cascade, tables
<1>4. ASSUME NEW i \in Handlers, pc'[i] # "idle", kind'[i] \in {"add_wallet", "add_alert"}
      PROVE  /\ about'[i] \notin wallets' \cup alerts' \cup retired'
             /\ \A g \in Handlers : about'[g] = about'[i] => g = i
  <2>1. i # h /\ pc[i] # "idle" /\ kind[i] \in {"add_wallet", "add_alert"} /\ about'[i] = about[i]
    BY <1>1, <1>4
  <2>2. about[i] # about[h] /\ about[i] # Nothing
    BY <2>1, ApiAssumption DEF ApiAssumption
  <2> QED  BY <1>1, <1>3, <2>1, <2>2
<1>5. ASSUME NEW i \in Handlers
      PROVE  /\ pc'[i] # "idle" => about'[i] \in IF kind'[i] \in {"add_wallet", "change_wallet", "remove_wallet"}
                                                 THEN Wallets ELSE Alerts
             /\ pc'[i] \in {"duplicate", "provider"} => kind'[i] = "add_wallet"
             /\ pc'[i] = "load" => kind'[i] # "add_wallet"
             /\ pc'[i] = "count" => kind'[i] \in {"add_wallet", "add_alert"}
             /\ pc'[i] = "empty" => kind'[i] \in {"change_wallet", "change_alert"}
  BY <1>1
<1> QED  BY <1>2, <1>3, <1>4, <1>5

\* Every step is a request that comes in, one that moves on, one that commits or
\* one that ends.
LEMMA Shapes ==
  ASSUME TypeOK, NEW h \in Handlers, Step(h) \/ Fail(h)
  PROVE  \/ Commit(h) \/ Ends(h)
         \/ \E to \in {"count", "write"} : Moves(h, "load", to) /\ (to = "count") = (kind[h] = "add_alert")
         \/ Count(h) \/ CheckDuplicate(h) \/ AskProvider(h) \/ NothingToWrite(h)
         \/ InsertWallet(h) \/ DeleteRow(h) \/ UpdateRow(h) \/ InsertAlert(h)
BY DEF Step, Load, CommitNothing, Refused, Fail, Ends, Moves

LEMMA TypeStep == TypeOK /\ [Next]_vars => TypeOK'
<1> SUFFICES ASSUME TypeOK, [Next]_vars PROVE TypeOK'
  OBVIOUS
<1>1. ASSUME NEW h \in Handlers, Request(h) PROVE TypeOK'
  <2>1. ASSUME NEW w \in Wallets, PostWallet(h, w) PROVE TypeOK'
    BY <2>1, TypeStart DEF PostWallet, Kinds
  <2>2. ASSUME NEW w \in Wallets, PatchWallet(h, w) \/ DeleteWallet(h, w) PROVE TypeOK'
    BY <2>2, TypeStart DEF PatchWallet, DeleteWallet, Kinds
  <2>3. ASSUME NEW a \in Alerts, PostAlert(h, a) PROVE TypeOK'
    BY <2>3, TypeStart DEF PostAlert, Kinds
  <2>4. ASSUME NEW a \in Alerts, PatchAlert(h, a) \/ DeleteAlert(h, a) PROVE TypeOK'
    BY <2>4, TypeStart DEF PatchAlert, DeleteAlert, Kinds
  <2> QED  BY <1>1, <2>1, <2>2, <2>3, <2>4 DEF Request
<1>2. ASSUME NEW h \in Handlers, Step(h) \/ Fail(h) PROVE TypeOK'
  <2>1. ASSUME NEW to \in {"count", "write"}, Moves(h, "load", to), (to = "count") = (kind[h] = "add_alert")
        PROVE  TypeOK'
    BY <2>1, TypeMoves DEF Pcs
  <2>2. CASE Count(h)
    BY <2>2, TypeMoves DEF Count, Moves, Pcs
  <2>3. CASE CheckDuplicate(h)
    BY <2>3, TypeMoves DEF CheckDuplicate, Moves, Pcs, TypeOK
  <2>4. CASE AskProvider(h)
    BY <2>4, TypeMoves DEF AskProvider, Moves, Pcs
  <2>6. CASE NothingToWrite(h)
    BY <2>6, TypeMoves DEF NothingToWrite, Moves, Pcs
  <2>5. CASE InsertWallet(h) \/ DeleteRow(h) \/ UpdateRow(h) \/ InsertAlert(h)
    BY <2>5, TypeMoves DEF InsertWallet, DeleteRow, UpdateRow, InsertAlert, Moves, Pcs
  <2> QED  BY <1>2, <2>1, <2>2, <2>3, <2>4, <2>5, <2>6, Shapes, TypeCommit, TypeEnds
<1>3. CASE UNCHANGED vars
  BY <1>3 DEF vars, tables, TypeOK
<1> QED  BY <1>1, <1>2, <1>3 DEF Next

-----------------------------------------------------------------------------
(* The tables.                                                             *)

\* A row that a PATCH has changed is not deleted at the same time.
Exclusive ==
  \A h \in Handlers :
    pc[h] = "commit" /\ kind[h] \in {"change_wallet", "change_alert"} => ~BeingDeleted(about[h])

Tables == OneRowPerAddress /\ AlertsHaveWallets /\ ChangesHit /\ Exclusive

\* A step that leaves the tables alone and after which nobody has written more.
Quiet ==
  /\ UNCHANGED tables
  /\ \A g \in Handlers : pc'[g] = "commit" =>
       pc[g] = "commit" /\ kind'[g] = kind[g] /\ about'[g] = about[g]

LEMMA TablesInit == Init => Tables
BY DEF Init, Tables, OneRowPerAddress, AlertsHaveWallets, ChangesHit, Exclusive

LEMMA TablesQuiet ==
  ASSUME TypeOK, Tables, Quiet
  PROVE  Tables'
<1> USE DEF Quiet, tables, Uncommitted, Exists
<1>1. OneRowPerAddress'
  BY DEF Tables, OneRowPerAddress
<1>2. AlertsHaveWallets'
  BY DEF Tables, AlertsHaveWallets
<1>3. ChangesHit'
  BY DEF Tables, ChangesHit
<1>4. Exclusive'
  BY DEF Tables, Exclusive, BeingDeleted
<1> QED  BY <1>1, <1>2, <1>3, <1>4 DEF Tables

LEMMA WritesKeepAddresses ==
  ASSUME TypeOK, Tables, NEW h \in Handlers,
         InsertWallet(h) \/ DeleteRow(h) \/ UpdateRow(h) \/ InsertAlert(h)
  PROVE  OneRowPerAddress'
<1> USE DEF TypeOK, Tables, OneRowPerAddress, Goto, tables, Exists
<1>1. CASE InsertWallet(h)
  BY <1>1 DEF InsertWallet, KeyFree, Uncommitted
<1>2. CASE DeleteRow(h) \/ UpdateRow(h) \/ InsertAlert(h)
  BY <1>2 DEF DeleteRow, UpdateRow, InsertAlert
<1> QED  BY <1>1, <1>2

LEMMA WritesKeepAlerts ==
  ASSUME TypeOK, Tables, NEW h \in Handlers,
         InsertWallet(h) \/ DeleteRow(h) \/ UpdateRow(h) \/ InsertAlert(h)
  PROVE  AlertsHaveWallets'
<1> USE DEF TypeOK, Tables, AlertsHaveWallets, Goto, tables, Uncommitted
<1>1. CASE InsertAlert(h)
  BY <1>1 DEF InsertAlert, BeingDeleted
<1>2. CASE DeleteRow(h)
  BY <1>2 DEF DeleteRow, Referenced
<1>3. CASE InsertWallet(h) \/ UpdateRow(h)
  BY <1>3 DEF InsertWallet, UpdateRow
<1> QED  BY <1>1, <1>2, <1>3

LEMMA WritesKeepChanges ==
  ASSUME TypeOK, Tables, NEW h \in Handlers,
         InsertWallet(h) \/ DeleteRow(h) \/ UpdateRow(h) \/ InsertAlert(h)
  PROVE  ChangesHit'
BY DEF TypeOK, Tables, ChangesHit, Goto, tables, InsertWallet, DeleteRow, UpdateRow, InsertAlert

LEMMA WritesKeepExclusive ==
  ASSUME TypeOK, Tables, NEW h \in Handlers,
         InsertWallet(h) \/ DeleteRow(h) \/ UpdateRow(h) \/ InsertAlert(h)
  PROVE  Exclusive'
<1> USE DEF TypeOK, Tables, Exclusive, BeingDeleted, Uncommitted, Goto, tables
<1>1. CASE UpdateRow(h)
  BY <1>1 DEF UpdateRow, RowFree
<1>2. CASE DeleteRow(h)
  <2>1. ASSUME NEW g \in Handlers, pc'[g] = "commit", kind'[g] \in {"change_wallet", "change_alert"}
        PROVE  ~BeingDeleted(about[g])'
    <3>1. g # h /\ pc[g] = "commit" /\ about'[g] = about[g] /\ kind[g] = kind'[g]
      BY <1>2, <2>1 DEF DeleteRow
    <3>2. about[g] \in wallets \cup alerts
      BY <2>1, <3>1 DEF ChangesHit
    <3>3. BeingChanged(about[g])
      BY <2>1, <3>1 DEF BeingChanged
    <3>4. about[g] # about[h]
      BY <1>2, <3>3 DEF DeleteRow, RowFree
    <3>5. ~(about[g] \in Alerts /\ kind[h] = "remove_wallet" /\ WalletOf[about[g]] = about[h])
      BY <1>2, <3>2, <3>3, ApiAssumption DEF DeleteRow, RowFree, ApiAssumption
    <3> QED  BY <1>2, <2>1, <3>1, <3>4, <3>5 DEF DeleteRow
  <2> QED  BY <2>1
<1>3. CASE InsertWallet(h) \/ InsertAlert(h)
  BY <1>3 DEF InsertWallet, InsertAlert
<1> QED  BY <1>1, <1>2, <1>3

LEMMA CommitKeepsAddresses ==
  ASSUME TypeOK, Tables, NEW h \in Handlers, Commit(h)
  PROVE  OneRowPerAddress'
<1>1. /\ pc[h] = "commit" /\ pc' = [pc EXCEPT ![h] = "idle"]
      /\ kind' = [kind EXCEPT ![h] = "add_wallet"] /\ about' = [about EXCEPT ![h] = Nothing]
  BY DEF Commit, Close, Goto
<1>2. \/ wallets' = wallets \/ wallets' = wallets \ {about[h]}
      \/ kind[h] = "add_wallet" /\ wallets' = wallets \cup {about[h]}
  BY DEF Commit, tables
<1> QED  BY <1>1, <1>2 DEF TypeOK, Tables, OneRowPerAddress, Exists

LEMMA CommitKeepsAlerts ==
  ASSUME TypeOK, Tables, NEW h \in Handlers, Commit(h)
  PROVE  AlertsHaveWallets'
<1>1. /\ pc[h] = "commit" /\ pc' = [pc EXCEPT ![h] = "idle"]
      /\ kind' = [kind EXCEPT ![h] = "add_wallet"] /\ about' = [about EXCEPT ![h] = Nothing]
  BY DEF Commit, Close, Goto
<1> USE DEF TypeOK, Tables, AlertsHaveWallets, Uncommitted
<1>2. CASE kind[h] = "add_wallet" /\ wallets' = wallets \cup {about[h]} /\ alerts' = alerts
  BY <1>1, <1>2
<1>3. CASE kind[h] = "add_alert" /\ alerts' = alerts \cup {about[h]} /\ wallets' = wallets
  BY <1>1, <1>3
<1>4. CASE /\ kind[h] = "remove_wallet" /\ wallets' = wallets \ {about[h]}
           /\ alerts' = alerts \ Cascade(about[h])
  BY <1>1, <1>4 DEF Cascade
<1>5. CASE alerts' \subseteq alerts /\ wallets' = wallets
  BY <1>1, <1>5
<1> QED  BY <1>2, <1>3, <1>4, <1>5 DEF Commit, tables

LEMMA CommitKeepsChanges ==
  ASSUME TypeOK, Tables, NEW h \in Handlers, Commit(h)
  PROVE  ChangesHit' /\ Exclusive'
<1>1. /\ pc[h] = "commit" /\ pc' = [pc EXCEPT ![h] = "idle"]
      /\ kind' = [kind EXCEPT ![h] = "add_wallet"] /\ about' = [about EXCEPT ![h] = Nothing]
  BY DEF Commit, Close, Goto
<1> USE DEF TypeOK
<1>2. ASSUME NEW g \in Handlers, pc'[g] = "commit", kind'[g] \in {"change_wallet", "change_alert"}
      PROVE  about'[g] \in wallets' \cup alerts' /\ ~BeingDeleted(about[g])'
  <2>1. g # h /\ pc[g] = "commit" /\ kind[g] = kind'[g] /\ about'[g] = about[g]
    BY <1>1, <1>2
  <2>2. about[g] \in wallets \cup alerts /\ ~BeingDeleted(about[g])
    BY <1>2, <2>1 DEF Tables, ChangesHit, Exclusive
  <2>3. kind[h] \in {"remove_wallet", "remove_alert"} => about[g] # about[h]
    BY <1>1, <2>2 DEF BeingDeleted, Uncommitted, Kinds
  <2>4. kind[h] = "remove_wallet" => about[g] \notin Cascade(about[h])
    BY <1>1, <2>2 DEF BeingDeleted, Uncommitted, Cascade
  <2>5. about'[g] \in wallets' \cup alerts'
    BY <2>1, <2>2, <2>3, <2>4 DEF Commit, tables
  <2>6. ~BeingDeleted(about[g])'
    BY <1>1, <2>1, <2>2 DEF BeingDeleted, Uncommitted
  <2> QED  BY <2>5, <2>6
<1> QED  BY <1>2 DEF ChangesHit, Exclusive

LEMMA QuietSteps ==
  ASSUME TypeOK, NEW h \in Handlers,
         \/ Request(h) \/ Ends(h) \/ Count(h) \/ CheckDuplicate(h) \/ AskProvider(h) \/ NothingToWrite(h)
         \/ \E to \in {"count", "write"} : Moves(h, "load", to)
  PROVE  Quiet
<1> USE DEF Quiet, TypeOK, Goto
<1>1. CASE Request(h)
  <2> QED  BY <1>1 DEF Start, Request, PostWallet, PatchWallet, DeleteWallet, PostAlert, PatchAlert,
                       DeleteAlert
<1>2. CASE Ends(h)
  BY <1>2 DEF Ends, Close
<1>3. CASE Count(h) \/ CheckDuplicate(h) \/ AskProvider(h) \/ NothingToWrite(h)
  BY <1>3 DEF Count, CheckDuplicate, AskProvider, NothingToWrite
<1>4. CASE \E to \in {"count", "write"} : Moves(h, "load", to)
  BY <1>4 DEF Moves
<1> QED  BY <1>1, <1>2, <1>3, <1>4

LEMMA TablesStep == TypeOK /\ Tables /\ [Next]_vars => Tables'
<1> SUFFICES ASSUME TypeOK, Tables, [Next]_vars PROVE Tables'
  OBVIOUS
<1>1. ASSUME NEW h \in Handlers, Commit(h) PROVE Tables'
  BY <1>1, CommitKeepsAddresses, CommitKeepsAlerts, CommitKeepsChanges DEF Tables
<1>2. ASSUME NEW h \in Handlers, InsertWallet(h) \/ DeleteRow(h) \/ UpdateRow(h) \/ InsertAlert(h)
      PROVE  Tables'
  BY <1>2, WritesKeepAddresses, WritesKeepAlerts, WritesKeepChanges, WritesKeepExclusive DEF Tables
<1>3. CASE UNCHANGED vars
  <2>1. Quiet
    BY <1>3 DEF Quiet, vars
  <2> QED  BY <2>1, TablesQuiet
<1>4. ASSUME NEW h \in Handlers, Request(h) PROVE Tables'
  BY <1>4, QuietSteps, TablesQuiet
<1>5. ASSUME NEW h \in Handlers, Step(h) \/ Fail(h) PROVE Tables'
  <2>1. ASSUME \/ Ends(h) \/ Count(h) \/ CheckDuplicate(h) \/ AskProvider(h) \/ NothingToWrite(h)
               \/ \E to \in {"count", "write"} : Moves(h, "load", to)
        PROVE  Tables'
    BY <2>1, QuietSteps, TablesQuiet
  <2> QED  BY <1>1, <1>2, <1>5, <2>1, Shapes
<1> QED  BY <1>3, <1>4, <1>5 DEF Next

-----------------------------------------------------------------------------
(* The quotas.                                                             *)

LEMMA Counted ==
  ASSUME TypeOK
  PROVE  /\ IsFiniteSet(wallets) /\ IsFiniteSet(alerts)
         /\ IsFiniteSet(AddingWallets) /\ IsFiniteSet(AddingAlerts)
         /\ Cardinality(wallets) \in Nat /\ Cardinality(alerts) \in Nat
         /\ Cardinality(AddingWallets) \in 0..Cardinality(Handlers)
         /\ Cardinality(AddingAlerts) \in 0..Cardinality(Handlers)
         /\ Cardinality(Handlers) \in Nat \ {0} /\ WalletQuota \in Nat /\ AlertQuota \in Nat
<1>1. /\ AddingWallets \subseteq Handlers /\ AddingAlerts \subseteq Handlers
      /\ wallets \subseteq Wallets /\ alerts \subseteq Alerts
  BY DEF AddingWallets, AddingAlerts, TypeOK
<1>2. Cardinality(Handlers) # 0
  BY ApiAssumption, FS_EmptySet DEF ApiAssumption
<1> QED  BY <1>1, <1>2, ApiAssumption, FS_Subset, FS_CardinalityType DEF ApiAssumption

LEMMA RoomInit == Init => Room
<1> SUFFICES ASSUME Init PROVE Room
  OBVIOUS
<1>1. AddingWallets = {} /\ AddingAlerts = {} /\ wallets = {} /\ alerts = {}
  BY DEF Init, AddingWallets, AddingAlerts
<1>2. TypeOK
  BY TypeInit
<1> QED  BY <1>1, <1>2, Counted, FS_EmptySet DEF Room

\* Room is lost neither when less is stored or under way ...
LEMMA RoomShrinks ==
  ASSUME TypeOK, TypeOK', Room,
         wallets' \subseteq wallets, AddingWallets' \subseteq AddingWallets,
         alerts' \subseteq alerts, AddingAlerts' \subseteq AddingAlerts
  PROVE  Room'
<1>1. /\ Cardinality(wallets') <= Cardinality(wallets) /\ Cardinality(alerts') <= Cardinality(alerts)
      /\ Cardinality(AddingWallets') <= Cardinality(AddingWallets)
      /\ Cardinality(AddingAlerts') <= Cardinality(AddingAlerts)
  BY Counted, FS_Subset
<1>2. /\ Cardinality(wallets') \in Nat /\ Cardinality(alerts') \in Nat
      /\ Cardinality(AddingWallets') \in Nat /\ Cardinality(AddingAlerts') \in Nat
  BY Counted, FS_Subset, FS_CardinalityType
<1> QED  BY <1>1, <1>2, Counted DEF Room

\* ... nor when a request is let in, for it has seen room itself ...
LEMMA RoomCount ==
  ASSUME TypeOK, TypeOK', Room, NEW h \in Handlers, Count(h)
  PROVE  Room'
<1>1. wallets' = wallets /\ alerts' = alerts /\ kind' = kind
  BY DEF Count, tables
<1>2. /\ Cardinality(AddingWallets)' \in 0..Cardinality(Handlers)
      /\ Cardinality(AddingAlerts)' \in 0..Cardinality(Handlers)
  <2>1. /\ AddingWallets' \subseteq Handlers /\ AddingAlerts' \subseteq Handlers
    BY DEF AddingWallets, AddingAlerts
  <2> QED  BY <2>1, ApiAssumption, FS_Subset, FS_CardinalityType DEF ApiAssumption
<1>3. CASE kind[h] = "add_wallet"
  <2>1. AddingAlerts' = AddingAlerts
    BY <1>1, <1>3 DEF AddingAlerts, Count, Goto, TypeOK
  <2>2. Cardinality(wallets) < WalletQuota
    BY <1>3, Counted DEF Count, QuotaFull
  <2> QED  BY <1>1, <1>2, <2>1, <2>2, Counted DEF Room
<1>4. CASE kind[h] = "add_alert"
  <2>1. AddingWallets' = AddingWallets
    BY <1>1, <1>4 DEF AddingWallets, Count, Goto, TypeOK
  <2>2. Cardinality(alerts) < AlertQuota
    BY <1>4, Counted DEF Count, QuotaFull
  <2> QED  BY <1>1, <1>2, <2>1, <2>2, Counted DEF Room
<1> QED  BY <1>3, <1>4 DEF Count, TypeOK

\* ... nor when it commits, for it trades its place for its row.
LEMMA RoomCommit ==
  ASSUME TypeOK, TypeOK', Room, NEW h \in Handlers, Commit(h)
  PROVE  Room'
<1>1. /\ pc[h] = "commit" /\ pc' = [pc EXCEPT ![h] = "idle"]
      /\ kind' = [kind EXCEPT ![h] = "add_wallet"]
  BY DEF Commit, Close, Goto
<1>2. /\ AddingWallets' = AddingWallets \ {h} /\ AddingAlerts' = AddingAlerts \ {h}
  BY <1>1 DEF AddingWallets, AddingAlerts, TypeOK
<1>3. CASE kind[h] = "add_wallet"
  <2>1. wallets' = wallets \cup {about[h]} /\ alerts' = alerts /\ h \in AddingWallets
    BY <1>1, <1>3 DEF Commit, AddingWallets
  <2>2. Cardinality(wallets') <= Cardinality(wallets) + 1 /\ Cardinality(wallets') \in Nat
    <3>1. /\ IsFiniteSet(wallets \cup {about[h]})
          /\ Cardinality(wallets \cup {about[h]}) = IF about[h] \in wallets THEN Cardinality(wallets)
                                                    ELSE Cardinality(wallets) + 1
      BY Counted, FS_AddElement
    <3> QED  BY <2>1, <3>1, Counted
  <2>3. /\ Cardinality(AddingWallets') = Cardinality(AddingWallets) - 1
        /\ Cardinality(AddingAlerts') <= Cardinality(AddingAlerts)
        /\ Cardinality(AddingAlerts') \in Nat
    BY <1>2, <2>1, Counted, FS_RemoveElement, FS_Subset, FS_CardinalityType
  <2> QED  BY <2>1, <2>2, <2>3, Counted DEF Room
<1>4. CASE kind[h] = "add_alert"
  <2>1. alerts' = alerts \cup {about[h]} /\ wallets' = wallets /\ h \in AddingAlerts
    BY <1>1, <1>4 DEF Commit, AddingAlerts
  <2>2. Cardinality(alerts') <= Cardinality(alerts) + 1 /\ Cardinality(alerts') \in Nat
    <3>1. /\ IsFiniteSet(alerts \cup {about[h]})
          /\ Cardinality(alerts \cup {about[h]}) = IF about[h] \in alerts THEN Cardinality(alerts)
                                                   ELSE Cardinality(alerts) + 1
      BY Counted, FS_AddElement
    <3> QED  BY <2>1, <3>1, Counted
  <2>3. /\ Cardinality(AddingAlerts') = Cardinality(AddingAlerts) - 1
        /\ Cardinality(AddingWallets') <= Cardinality(AddingWallets)
        /\ Cardinality(AddingWallets') \in Nat
    BY <1>2, <2>1, Counted, FS_RemoveElement, FS_Subset, FS_CardinalityType
  <2> QED  BY <2>1, <2>2, <2>3, Counted DEF Room
<1>5. CASE kind[h] \notin {"add_wallet", "add_alert"}
  <2>1. wallets' \subseteq wallets /\ alerts' \subseteq alerts
    BY <1>5 DEF Commit, tables
  <2> QED  BY <1>2, <2>1, RoomShrinks
<1> QED  BY <1>3, <1>4, <1>5

LEMMA RoomStep == TypeOK /\ TypeOK' /\ Room /\ [Next]_vars => Room'
<1> SUFFICES ASSUME TypeOK, TypeOK', Room, [Next]_vars PROVE Room'
  OBVIOUS
<1> DEFINE Fewer == /\ wallets' \subseteq wallets /\ AddingWallets' \subseteq AddingWallets
                    /\ alerts' \subseteq alerts /\ AddingAlerts' \subseteq AddingAlerts
<1>1. ASSUME NEW h \in Handlers, Request(h) PROVE Fewer
  BY <1>1 DEF Start, Request, PostWallet, PatchWallet, DeleteWallet, PostAlert, PatchAlert, DeleteAlert,
              Goto, tables, TypeOK, AddingWallets, AddingAlerts
<1>2. ASSUME NEW h \in Handlers, Ends(h) PROVE Fewer
  BY <1>2 DEF Ends, Close, Goto, tables, TypeOK, AddingWallets, AddingAlerts
<1>3. ASSUME NEW h \in Handlers, NEW to \in {"count", "write"}, Moves(h, "load", to),
             (to = "count") = (kind[h] = "add_alert")
      PROVE  Fewer
  <2>1. CASE to = "count"
    BY <1>3, <2>1 DEF Moves, Goto, tables, TypeOK, AddingWallets, AddingAlerts
  <2>2. CASE to = "write"
    <3>1. kind[h] \notin {"add_wallet", "add_alert"}
      BY <1>3, <2>2 DEF Moves, TypeOK
    <3> QED  BY <1>3, <2>2, <3>1 DEF Moves, Goto, tables, TypeOK, AddingWallets, AddingAlerts
  <2> QED  BY <2>1, <2>2
<1>4. ASSUME NEW h \in Handlers,
             \/ CheckDuplicate(h) \/ AskProvider(h) \/ NothingToWrite(h) \/ InsertWallet(h) \/ DeleteRow(h)
             \/ UpdateRow(h) \/ InsertAlert(h)
      PROVE  Fewer
  BY <1>4 DEF CheckDuplicate, AskProvider, NothingToWrite, InsertWallet, DeleteRow, UpdateRow, InsertAlert,
              Goto, tables, TypeOK, AddingWallets, AddingAlerts
<1>5. ASSUME UNCHANGED vars PROVE Fewer
  <2>1. wallets' = wallets /\ alerts' = alerts /\ pc' = pc /\ kind' = kind
    BY <1>5 DEF vars, tables
  <2>2. AddingWallets' = AddingWallets
    BY <2>1 DEF AddingWallets
  <2>3. AddingAlerts' = AddingAlerts
    BY <2>1 DEF AddingAlerts
  <2> QED  BY <2>1, <2>2, <2>3
<1>6. Fewer => Room'
  BY RoomShrinks
<1>7. ASSUME NEW h \in Handlers, Step(h) \/ Fail(h) PROVE Room'
  <2> HIDE DEF Fewer
  <2> QED  BY <1>2, <1>3, <1>4, <1>6, <1>7, Shapes, RoomCount, RoomCommit
<1> HIDE DEF Fewer
<1> QED  BY <1>1, <1>5, <1>6, <1>7 DEF Next

LEMMA RoomBounds == TypeOK /\ Room => QuotasBounded
BY Counted DEF Room, QuotasBounded

-----------------------------------------------------------------------------
(* The refinement.                                                         *)

LEMMA BookCounts == ASSUME NEW S PROVE Book!Cardinality(S) = Cardinality(S)
BY DEF Book!Cardinality, Cardinality

LEMMA BookInit == Init => Book!BookInit
BY DEF Init, Book!BookInit

\* The commit of a request is its step of the book ...
LEMMA CommitImplements ==
  ASSUME TypeOK, Tables, Room, NEW h \in Handlers, Commit(h)
  PROVE  [Book!BookNext]_(Book!book)
<1>1. pc[h] = "commit"
  BY DEF Commit
<1>2. CASE kind[h] = "add_wallet"
  <2>1. about[h] \in Wallets /\ \A v \in wallets : Address[v] # Address[about[h]]
    BY <1>1, <1>2 DEF TypeOK, Tables, OneRowPerAddress, Exists
  <2>2. h \in AddingWallets
    BY <1>1, <1>2 DEF AddingWallets
  <2>3. /\ Cardinality(wallets) \in Nat /\ Cardinality(AddingWallets) \in Nat
        /\ Cardinality(Handlers) \in Nat /\ WalletQuota \in Nat
    BY Counted
  <2>4. Cardinality(AddingWallets) # 0
    BY <2>2, Counted, FS_EmptySet
  <2>5. Cardinality(wallets) + 1 < WalletQuota + Cardinality(Handlers)
    BY <2>3, <2>4 DEF Room
  <2>6. wallets' = wallets \cup {about[h]} /\ alerts' = alerts
    BY <1>2 DEF Commit
  <2>7. Book!AddWallet(about[h])
    BY <2>1, <2>5, <2>6, BookCounts DEF Book!AddWallet
  <2> QED  BY <2>1, <2>7 DEF Book!BookNext
<1>3. CASE kind[h] = "add_alert"
  <2>1. about[h] \in Alerts /\ WalletOf[about[h]] \in wallets
    BY <1>1, <1>3 DEF TypeOK, Tables, AlertsHaveWallets
  <2>2. h \in AddingAlerts
    BY <1>1, <1>3 DEF AddingAlerts
  <2>3. /\ Cardinality(alerts) \in Nat /\ Cardinality(AddingAlerts) \in Nat
        /\ Cardinality(Handlers) \in Nat /\ AlertQuota \in Nat
    BY Counted
  <2>4. Cardinality(AddingAlerts) # 0
    BY <2>2, Counted, FS_EmptySet
  <2>5. Cardinality(alerts) + 1 < AlertQuota + Cardinality(Handlers)
    BY <2>3, <2>4 DEF Room
  <2>6. alerts' = alerts \cup {about[h]} /\ wallets' = wallets
    BY <1>3 DEF Commit
  <2>7. Book!AddAlert(about[h])
    BY <2>1, <2>5, <2>6, BookCounts DEF Book!AddAlert
  <2> QED  BY <2>1, <2>7 DEF Book!BookNext
<1>4. CASE kind[h] = "remove_wallet"
  <2>1. about[h] \in Wallets
    BY <1>1, <1>4 DEF TypeOK
  <2>2. alerts \ Cascade(about[h]) = {a \in alerts : WalletOf[a] # about[h]}
    BY DEF Cascade
  <2>3. wallets' = wallets \ {about[h]} /\ alerts' = alerts \ Cascade(about[h])
    BY <1>4 DEF Commit
  <2> QED  BY <2>1, <2>2, <2>3 DEF Book!RemoveWallet, Book!BookNext
<1>5. CASE kind[h] = "remove_alert"
  <2>1. about[h] \in Alerts
    BY <1>1, <1>5 DEF TypeOK
  <2> QED  BY <1>5, <2>1 DEF Commit, Book!RemoveAlert, Book!BookNext
<1>6. CASE kind[h] \in {"change_wallet", "change_alert"}
  BY <1>6 DEF Commit, tables, Book!book
<1> QED  BY <1>2, <1>3, <1>4, <1>5, <1>6 DEF TypeOK, Kinds

\* ... and nothing else touches it.
LEMMA BookStep == TypeOK /\ Tables /\ Room /\ [Next]_vars => [Book!BookNext]_(Book!book)
<1> SUFFICES ASSUME TypeOK, Tables, Room, [Next]_vars PROVE [Book!BookNext]_(Book!book)
  OBVIOUS
<1>1. ASSUME NEW h \in Handlers, Request(h) PROVE UNCHANGED <<wallets, alerts>>
  BY <1>1 DEF Start, Request, PostWallet, PatchWallet, DeleteWallet, PostAlert, PatchAlert, DeleteAlert, tables
<1>2. ASSUME NEW h \in Handlers, Ends(h) PROVE UNCHANGED <<wallets, alerts>>
  BY <1>2 DEF Ends, tables
<1>3. ASSUME NEW h \in Handlers, \E to \in {"count", "write"} : Moves(h, "load", to)
      PROVE  UNCHANGED <<wallets, alerts>>
  BY <1>3 DEF Moves, tables
<1>4. ASSUME NEW h \in Handlers,
             \/ Count(h) \/ CheckDuplicate(h) \/ AskProvider(h) \/ NothingToWrite(h) \/ InsertWallet(h) \/ DeleteRow(h)
             \/ UpdateRow(h) \/ InsertAlert(h)
      PROVE  UNCHANGED <<wallets, alerts>>
  BY <1>4 DEF Count, CheckDuplicate, AskProvider, NothingToWrite, InsertWallet, DeleteRow, UpdateRow, InsertAlert, tables
<1>5. CASE UNCHANGED vars
  BY <1>5 DEF vars, tables, Book!book
<1>6. ASSUME NEW h \in Handlers, Step(h) \/ Fail(h) PROVE Commit(h) \/ UNCHANGED <<wallets, alerts>>
  BY <1>2, <1>3, <1>4, <1>6, Shapes
<1> QED  BY <1>1, <1>5, <1>6, CommitImplements DEF Next, Book!book

-----------------------------------------------------------------------------
(* The theorems.                                                           *)

LEMMA InvAlways == Spec => [](TypeOK /\ Tables /\ Room)
<1>1. Init => TypeOK /\ Tables /\ Room
  BY TypeInit, TablesInit, RoomInit
<1>2. TypeOK /\ Tables /\ Room /\ [Next]_vars => (TypeOK /\ Tables /\ Room)'
  BY TypeStep, TablesStep, RoomStep
<1> QED  BY <1>1, <1>2, PTL DEF Spec

\* Every variable keeps its type, and an id is never stored twice.
THEOREM TypeCorrect == Spec => []TypeOK
BY InvAlways, PTL

\* post_wallet (api/v1/wallets.py:58-88): whatever the check of duplicates saw before
\* the provider was asked, an address is stored once.
THEOREM OneRowPerAddressAlways == Spec => []OneRowPerAddress
<1>1. Tables => OneRowPerAddress
  BY DEF Tables
<1> QED  BY <1>1, InvAlways, PTL

\* post_alert (api/v1/alerts.py:41-60) and delete_wallet_route: no alert outlives its
\* wallet, however far its request is.
THEOREM AlertsHaveWalletsAlways == Spec => []AlertsHaveWallets
<1>1. Tables => AlertsHaveWallets
  BY DEF Tables
<1> QED  BY <1>1, InvAlways, PTL

\* patch_wallet and patch_alert, when they change something: their UPDATE holds the row
\* that it has found until they commit, so a change is never lost to a deletion unnoticed.
THEOREM ChangesHitAlways == Spec => []ChangesHit
<1>1. Tables => ChangesHit
  BY DEF Tables
<1> QED  BY <1>1, InvAlways, PTL

\* Count and insert without a lock: the quotas are passed by less than the number of
\* requests that run at a time.
THEOREM QuotasBoundedAlways == Spec => []QuotasBounded
<1>1. TypeOK /\ Room => QuotasBounded
  BY RoomBounds
<1> QED  BY <1>1, InvAlways, PTL

\* The API's requests, interleaved in any way, are steps of WalletBook or leave the
\* tables alone.
THEOREM ApiImplementsBook == Spec => ImplementsBook
<1>1. TypeOK /\ Tables /\ Room /\ [Next]_vars => [Book!BookNext]_(Book!book)
  BY BookStep
<1> QED  BY <1>1, BookInit, InvAlways, PTL DEF Spec, ImplementsBook, Book!BookSpec

-----------------------------------------------------------------------------
(* Waiting.  RequestEnds rests on this.                                    *)

\* The statement of a request waits for a key or for rows.
Waits(h) ==
  /\ pc[h] = "write"
  /\ CASE kind[h] = "add_wallet" -> ~KeyFree(h)
       [] kind[h] = "add_alert"  -> BeingDeleted(WalletOf[about[h]])
       [] kind[h] \in {"change_wallet", "change_alert", "remove_alert"} -> ~RowFree(about[h])
       [] kind[h] = "remove_wallet" ->
            \/ ~RowFree(about[h]) \/ Referenced(about[h])
            \/ \E a \in Cascade(about[h]) : ~RowFree(a)

\* When Step(h) is enabled.
CanStep(h) == pc[h] # "idle" /\ ~Waits(h)

\* Who waits is waiting for requests that have written and only commit.
NobodyStuck ==
  \A h \in Handlers : Waits(h) => \E g \in Handlers \ {h} : pc[g] = "commit" /\ CanStep(g)

\* Requests on the same wallets, alerts and addresses (api/v1/wallets.py, api/v1/alerts.py),
\* cascades of DELETE included, never wait in a circle: each writes in one flush, and who
\* has written waits for nobody.
THEOREM NobodyStuckEver == Spec => []NobodyStuck
<1>1. TypeOK => NobodyStuck
  <2> SUFFICES ASSUME TypeOK, NEW h \in Handlers, Waits(h)
               PROVE  \E g \in Handlers \ {h} : pc[g] = "commit" /\ CanStep(g)
    BY DEF NobodyStuck
  <2>1. pc[h] = "write" /\ kind[h] \in Kinds
    BY DEF Waits, TypeOK
  <2>2. PICK g \in Handlers : pc[g] = "commit"
    <3>1. CASE kind[h] = "add_wallet"
      BY <3>1 DEF Waits, KeyFree, Uncommitted
    <3>2. CASE kind[h] = "add_alert"
      BY <3>2 DEF Waits, BeingDeleted, Uncommitted
    <3>3. ASSUME NEW x, ~RowFree(x)
          PROVE  \E g \in Handlers : pc[g] = "commit"
      BY <3>3 DEF RowFree, BeingDeleted, BeingChanged, Uncommitted
    <3>4. CASE kind[h] \in {"change_wallet", "change_alert", "remove_alert"}
      BY <3>3, <3>4 DEF Waits
    <3>5. CASE kind[h] = "remove_wallet"
      <4>1. Referenced(about[h]) => \E g \in Handlers : pc[g] = "commit"
        BY DEF Referenced, Uncommitted
      <4> QED
        BY <3>3, <3>5, <4>1 DEF Waits
    <3> QED
      BY <2>1, <3>1, <3>2, <3>4, <3>5 DEF Kinds
  <2> QED
    BY <2>1, <2>2 DEF CanStep, Waits
<1> QED
  BY <1>1, InvAlways, PTL

\* How many steps a request may still take itself.
Work(h) ==
  CASE pc[h] = "idle"      -> 0
    [] pc[h] = "commit"    -> 1
    [] pc[h] = "empty"     -> 1
    [] pc[h] = "write"     -> 2
    [] pc[h] = "provider"  -> 3
    [] pc[h] = "duplicate" -> 4
    [] pc[h] = "count"     -> 5
    [] pc[h] = "load"      -> 6

\* Every step of its own takes it nearer to its end, and no other one takes it back.
WorkShrinks ==
  [][\A h \in Handlers :
       /\ Step(h) => Work(h)' < Work(h)
       /\ pc[h] # "idle" => Work(h)' <= Work(h)]_vars

\* A request that takes a step, or fails, goes on or ends; others leave it where it is.
LEMMA PcMoves ==
  ASSUME TypeOK, NEW h \in Handlers, [Next]_vars, pc[h] # "idle"
  PROVE  /\ pc'[h] \in Pcs /\ Work(h)' <= Work(h)
         /\ Step(h) => Work(h)' < Work(h)
<1>1. ASSUME NEW g \in Handlers \ {h}, Request(g)
      PROVE  pc'[h] = pc[h]
  BY <1>1 DEF Request, PostWallet, PatchWallet, DeleteWallet, PostAlert, PatchAlert, DeleteAlert,
              Start, Goto, TypeOK
<1>2. ASSUME NEW g \in Handlers \ {h}, Step(g) \/ Fail(g)
      PROVE  pc'[h] = pc[h]
  <2> HIDE DEF TypeOK
  <2>1. ASSUME NEW to, Moves(g, "load", to)
        PROVE  pc'[h] = pc[h]
    BY <2>1 DEF Moves, Goto, TypeOK
  <2>2. CASE \/ Commit(g) \/ Ends(g) \/ Count(g) \/ CheckDuplicate(g) \/ AskProvider(g) \/ NothingToWrite(g)
             \/ InsertWallet(g) \/ DeleteRow(g) \/ UpdateRow(g) \/ InsertAlert(g)
    BY <2>2 DEF Commit, Ends, Close, Count, CheckDuplicate, AskProvider, NothingToWrite, InsertWallet, DeleteRow,
                UpdateRow, InsertAlert, Goto, TypeOK
  <2> QED
    BY <1>2, <2>1, <2>2, Shapes
<1>3. ~Request(h)
  BY DEF Request, PostWallet, PatchWallet, DeleteWallet, PostAlert, PatchAlert, DeleteAlert, Start
<1>4. ASSUME Step(h) \/ Fail(h)
      PROVE  /\ pc'[h] \in Pcs
             /\ \/ pc'[h] = "idle"
                \/ pc[h] = "load" /\ pc'[h] \in {"count", "write", "empty"}
                \/ pc[h] = "count" /\ pc'[h] \in {"duplicate", "write"}
                \/ pc[h] = "duplicate" /\ pc'[h] = "provider"
                \/ pc[h] = "provider" /\ pc'[h] = "write"
                \/ pc[h] = "write" /\ pc'[h] = "commit"
  <2>1. ASSUME NEW to \in {"count", "write"}, Moves(h, "load", to)
        PROVE  pc[h] = "load" /\ pc'[h] = to
    BY <2>1 DEF Moves, Goto, TypeOK
  <2>2. Commit(h) \/ Ends(h) => pc'[h] = "idle"
    BY DEF Commit, Ends, Close, Goto, TypeOK
  <2>3. Count(h) => pc[h] = "count" /\ pc'[h] \in {"duplicate", "write"}
    BY DEF Count, Goto, TypeOK
  <2>4. CheckDuplicate(h) => pc[h] = "duplicate" /\ pc'[h] = "provider"
    BY DEF CheckDuplicate, Goto, TypeOK
  <2>5. AskProvider(h) => pc[h] = "provider" /\ pc'[h] = "write"
    BY DEF AskProvider, Goto, TypeOK
  <2>6. InsertWallet(h) \/ DeleteRow(h) \/ UpdateRow(h) \/ InsertAlert(h)
           => pc[h] = "write" /\ pc'[h] = "commit"
    BY DEF InsertWallet, DeleteRow, UpdateRow, InsertAlert, Goto, TypeOK
  <2>7. NothingToWrite(h) => pc[h] = "load" /\ pc'[h] = "empty"
    BY DEF NothingToWrite, Goto, TypeOK
  <2> QED
    BY <1>4, <2>1, <2>2, <2>3, <2>4, <2>5, <2>6, <2>7, Shapes DEF Pcs
<1>5. ASSUME pc'[h] = pc[h]
      PROVE  Work(h)' = Work(h) /\ Work(h) \in Nat /\ pc'[h] \in Pcs
  BY <1>5 DEF Work, TypeOK, Pcs
<1>6. ASSUME Step(h) \/ Fail(h)
      PROVE  Work(h)' < Work(h) /\ Work(h)' \in Nat /\ Work(h) \in Nat
  <2>1. pc[h] \in Pcs
    BY DEF TypeOK
  <2> QED
    BY <1>4, <1>6, <2>1 DEF Work, Pcs
<1>7. pc'[h] = pc[h] \/ Step(h) \/ Fail(h)
  BY <1>1, <1>2, <1>3 DEF Next, vars
<1>8. CASE Step(h) \/ Fail(h)
  BY <1>4, <1>6, <1>8
<1>9. CASE ~Step(h) /\ pc'[h] = pc[h]
  BY <1>5, <1>9
<1> QED
  BY <1>7, <1>8, <1>9

\* RequestEnds rests on it: a request takes at most six steps, none of them twice, whatever
\* others store or delete between them.
THEOREM WorkShrinksAlways == Spec => WorkShrinks
<1> DEFINE Shrinks == \A h \in Handlers : /\ Step(h) => Work(h)' < Work(h)
                                          /\ pc[h] # "idle" => Work(h)' <= Work(h)
<1>1. TypeOK /\ [Next]_vars => [Shrinks]_vars
  <2> SUFFICES ASSUME TypeOK, [Next]_vars, NEW h \in Handlers
               PROVE  /\ Step(h) => Work(h)' < Work(h)
                      /\ pc[h] # "idle" => Work(h)' <= Work(h)
    OBVIOUS
  <2>1. Step(h) => pc[h] # "idle"
    BY DEF Step, Load, Count, CheckDuplicate, AskProvider, NothingToWrite, InsertWallet, DeleteRow, UpdateRow,
           InsertAlert, Commit, CommitNothing, Refused
  <2> QED
    BY <2>1, PcMoves
<1> QED
  BY <1>1, TypeCorrect, PTL DEF Spec, WorkShrinks
=============================================================================
