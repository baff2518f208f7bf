---------------------------- MODULE SchemaProofs ----------------------------
(***************************************************************************)
(* Proofs about Schema, for any number of rows and deletions.              *)
(*                                                                         *)
(* A deletion that has come to its commit holds every row that refers to   *)
(* what it holds (Settled), since nothing new can: that keeps references   *)
(* whole.  That it has then deleted what it was asked to, or nothing,      *)
(* takes more: whatever it holds leads to its row (Chained), and as long   *)
(* as it holds anything nobody else can delete that row (Rooted).          *)
(***************************************************************************)
EXTENDS Schema, FiniteSetTheorems, TLAPS

\* Keys tell rows apart.
Keyed == \A p, q \in Known : p.id = q.id => p = q

\* Rows are there only while all tables are.
Filled ==
  rows # {} => \/ migration = "downgrade"
               \/ migration = "none" /\ made = Len(Order)

\* Nobody deletes during a migration.
Quiet == migration # "none" => \A x \in Deleters : pc[x] = "idle"

\* A deletion has one row to delete.
Single == \A x \in Deleters : \A p, q \in target[x] : p = q

Idle == \A x \in Deleters : pc[x] = "idle" => held[x] = {}

\* The children that a deletion has loaded refer to its row.
Direct == \A x \in Deleters : \A r \in loaded[x] : r.refs \cap KeysOf(target[x]) # {}

Settled ==
  \A x \in Deleters : pc[x] = "commit" =>
    Below(held[x]) \subseteq held[x] /\ target[x] \cap rows \subseteq held[x]

Chained ==
  \A x \in Deleters : \A r \in held[x] \ target[x] : r.refs \cap KeysOf(held[x] \cup target[x]) # {}

Rooted ==
  \A x \in Deleters : held[x] # {} =>
    /\ target[x] \subseteq rows
    /\ target[x] \subseteq held[x] \/ \E r \in held[x] : r.refs \cap KeysOf(target[x]) # {}

IInv ==
  /\ TypeOK /\ NoDanglingRow
  /\ Keyed /\ Filled /\ Quiet /\ Idle /\ Single
  /\ Direct /\ Settled /\ Chained /\ Rooted

-----------------------------------------------------------------------------
(* What the steps have in common.                                          *)

\* There are tables to make.
LEMMA OrderLength == Len(Order) \in Nat \ {0}
BY DEF Order

\* A key of rows belongs to one of them.
LEMMA KeyOf ==
  ASSUME NEW s, NEW i \in KeysOf(s)
  PROVE  \E q \in s : q.id = i
BY DEF KeysOf

\* More rows, more keys.
LEMMA KeysGrow ==
  ASSUME NEW s, NEW t, s \subseteq t
  PROVE  KeysOf(s) \subseteq KeysOf(t)
BY DEF KeysOf

\* What a deletion has still to delete is in the tables.
LEMMA WantedInRows ==
  ASSUME NEW x \in Deleters
  PROVE  Wanted(x) \subseteq rows \ held[x]
BY DEF Wanted, Below

\* The end of a deletion, while the rows stay, disturbs nothing.
LEMMA EndKeeps ==
  ASSUME IInv, NEW x \in Deleters, pc[x] # "idle", End(x), UNCHANGED rows
  PROVE  IInv'
<1> USE DEF IInv
<1>1. /\ \A y \in Deleters : held'[y] = IF y = x THEN {} ELSE held[y]
      /\ \A y \in Deleters : loaded'[y] = IF y = x THEN {} ELSE loaded[y]
      /\ \A y \in Deleters : target'[y] = IF y = x THEN {} ELSE target[y]
      /\ \A y \in Deleters : pc'[y] = IF y = x THEN "idle" ELSE pc[y]
  BY DEF End, TypeOK
<1>2. TypeOK'
  BY <1>1 DEF TypeOK, End, tableVars
<1>3. NoDanglingRow'
  BY DEF NoDanglingRow
<1>4. Keyed'
  <2>1. Known' \subseteq Known
    BY <1>1 DEF Known
  <2> QED
    BY <2>1 DEF Keyed
<1>5. Filled' /\ Quiet' /\ Idle' /\ Single'
  BY <1>1 DEF Filled, Quiet, Idle, Single, End, tableVars
<1>6. Direct'
  BY <1>1 DEF Direct
<1>7. Settled'
  BY <1>1 DEF Settled, Below
<1>8. Chained'
  BY <1>1 DEF Chained
<1>9. Rooted'
  BY <1>1 DEF Rooted
<1> QED
  BY <1>2, <1>3, <1>4, <1>5, <1>6, <1>7, <1>8, <1>9

-----------------------------------------------------------------------------
(* The migration.                                                          *)

\* On its way the migration touches no row.
LEMMA MigrationKeeps ==
  ASSUME IInv, Migrate \/ CreateTable \/ DropTable \/ AbortMigration
  PROVE  IInv'
<1> USE DEF IInv
<1>0. rows' = rows /\ UNCHANGED deleteVars
  BY DEF Migrate, CreateTable, DropTable, AbortMigration
<1>1. TypeOK'
  <2>1. made' \in 0..Len(Order) /\ migration' \in {"none", "upgrade", "downgrade"}
    BY OrderLength DEF TypeOK, Migrate, CreateTable, DropTable, AbortMigration
  <2> QED
    BY <1>0, <2>1 DEF TypeOK, deleteVars
<1>2. NoDanglingRow' /\ Keyed' /\ Idle' /\ Single' /\ Direct' /\ Settled' /\ Chained' /\ Rooted'
  BY <1>0 DEF NoDanglingRow, Keyed, Known, Idle, Single, Direct, Settled, Below, Chained, Rooted, deleteVars
<1>3. Filled'
  BY <1>0, OrderLength DEF TypeOK, Filled, Migrate, CreateTable, DropTable, AbortMigration
<1>4. Quiet'
  BY <1>0 DEF Quiet, Migrate, CreateTable, DropTable, AbortMigration, deleteVars
<1> QED
  BY <1>1, <1>2, <1>3, <1>4

\* When it commits, it leaves no row: there was none, or the tables are gone.
LEMMA CommitMigrationKeeps ==
  ASSUME IInv, CommitMigration
  PROVE  IInv'
<1> USE DEF IInv
<1>1. rows' = {}
  BY DEF CommitMigration, Filled, Made
<1>2. \A x \in Deleters : held[x] = {}
  BY DEF CommitMigration, Quiet, Idle
<1>3. Known' \subseteq Known /\ UNCHANGED deleteVars
  BY <1>1 DEF CommitMigration, Known, deleteVars
<1>4. TypeOK'
  BY <1>1, <1>2, <1>3 DEF TypeOK, CommitMigration, deleteVars
<1>5. NoDanglingRow' /\ Filled' /\ Quiet' /\ Idle' /\ Single' /\ Direct'
  BY <1>1, <1>2, <1>3 DEF NoDanglingRow, Filled, Quiet, Idle, Single, Direct, CommitMigration, deleteVars
<1>6. Keyed'
  BY <1>3 DEF Keyed
<1>7. Settled' /\ Chained' /\ Rooted'
  BY <1>1, <1>2, <1>3 DEF Settled, Below, Chained, Rooted, deleteVars
<1> QED
  BY <1>4, <1>5, <1>6, <1>7

-----------------------------------------------------------------------------
(* Inserts.                                                                *)

\* A new row refers to rows that are there and that nobody deletes.
LEMMA InsertKeeps ==
  ASSUME IInv, NEW t \in Tables, NEW id \in Ids, Insert(t, id)
  PROVE  IInv'
<1> USE DEF IInv
<1>1. PICK s \in Parents(t) : rows' = rows \cup {[id |-> id, table |-> t, refs |-> KeysOf(s)]}
  BY DEF Insert
<1> DEFINE r == [id |-> id, table |-> t, refs |-> KeysOf(s)]
<1>2. s \subseteq rows \ Held /\ UNCHANGED <<tableVars, deleteVars>> /\ Ready
  BY DEF Parents, Insert
<1>3. r \in Rows
  BY <1>2 DEF TypeOK, Rows, KeysOf
<1>4. id \notin KeysOf(Known)
  BY DEF Insert
<1>5. TypeOK'
  BY <1>1, <1>2, <1>3 DEF TypeOK, tableVars, deleteVars
<1>6. NoDanglingRow'
  <2>1. KeysOf(rows) \subseteq KeysOf(rows') /\ KeysOf(s) \subseteq KeysOf(rows')
    BY <1>1, <1>2, KeysGrow
  <2> QED
    BY <1>1, <2>1 DEF NoDanglingRow
<1>7. Keyed'
  <2>1. Known' = Known \cup {r}
    BY <1>1, <1>2 DEF Known, deleteVars
  <2>2. \A q \in Known : q.id # r.id
    BY <1>4 DEF KeysOf
  <2> HIDE DEF r
  <2> QED
    BY <2>1, <2>2 DEF Keyed
<1>8. Filled' /\ Quiet' /\ Idle' /\ Single' /\ Direct' /\ Chained' /\ Rooted'
  BY <1>1, <1>2 DEF Filled, Ready, Quiet, Idle, Single, Direct, Chained, Rooted, tableVars, deleteVars
<1>9. Settled'
  <2> SUFFICES ASSUME NEW x \in Deleters, pc[x] = "commit"
               PROVE  (Below(held[x]) \subseteq held[x] /\ target[x] \cap rows \subseteq held[x])'
    BY <1>2 DEF Settled, deleteVars
  <2>1. r.refs \cap KeysOf(held[x]) = {}
    <3> SUFFICES ASSUME NEW q \in s, NEW p \in held[x], q.id = p.id
                 PROVE  FALSE
      BY DEF KeysOf
    <3>1. q \in Known /\ p \in Known /\ q # p
      BY <1>2 DEF Known, Held, TypeOK
    <3> QED
      BY <3>1 DEF Keyed
  <2>2. r \notin target[x]
    BY <1>4 DEF Known, KeysOf
  <2> QED
    BY <1>1, <1>2, <2>1, <2>2 DEF Settled, Below, deleteVars
<1> QED
  BY <1>5, <1>6, <1>7, <1>8, <1>9

-----------------------------------------------------------------------------
(* A deletion.                                                             *)

\* It loads its row and the children that refer to it.
LEMMA LoadKeeps ==
  ASSUME IInv, NEW x \in Deleters, NEW r \in rows, Load(x, r)
  PROVE  IInv'
<1> USE DEF IInv
<1>1. /\ \A y \in Deleters : loaded'[y] =
                IF y = x THEN {q \in Below({r}) : q.table \in OrmChildren(r.table)} ELSE loaded[y]
      /\ \A y \in Deleters : target'[y] = IF y = x THEN {r} ELSE target[y]
      /\ \A y \in Deleters : pc'[y] = IF y = x THEN "children" ELSE pc[y]
      /\ pc[x] = "idle" /\ held[x] = {} /\ UNCHANGED <<tableVars, rows, held>> /\ Ready
  BY DEF Load, TypeOK, Idle
<1>2. TypeOK'
  <2>1. {r} \subseteq Rows /\ {q \in Below({r}) : q.table \in OrmChildren(r.table)} \subseteq Rows
    BY DEF TypeOK, Below
  <2>2. target' \in [Deleters -> SUBSET Rows] /\ loaded' \in [Deleters -> SUBSET Rows]
    BY <2>1 DEF TypeOK, Load
  <2>3. pc' \in [Deleters -> {"idle", "children", "row", "commit"}]
    BY DEF TypeOK, Load
  <2> QED
    BY <1>1, <2>2, <2>3 DEF TypeOK, tableVars
<1>3. NoDanglingRow' /\ Filled' /\ Quiet' /\ Idle' /\ Single'
  BY <1>1 DEF NoDanglingRow, Filled, Quiet, Idle, Single, Ready, tableVars
<1>4. Keyed'
  <2>1. \A y \in Deleters : target'[y] \cup loaded'[y] \subseteq rows \cup target[y] \cup loaded[y]
    BY <1>1 DEF Below
  <2>2. Known' \subseteq Known
    BY <1>1, <2>1 DEF Known
  <2> QED
    BY <2>2 DEF Keyed
<1>5. Direct'
  BY <1>1 DEF Direct, Below
<1>6. Settled' /\ Chained' /\ Rooted'
  BY <1>1 DEF Settled, Below, Chained, Rooted
<1> QED
  BY <1>2, <1>3, <1>4, <1>5, <1>6

\* It takes its row, a child that it has loaded, or what refers to what it holds.
LEMMA TakeKeeps ==
  ASSUME IInv, NEW x \in Deleters, NEW r \in rows, Take(x, r)
  PROVE  IInv'
<1> USE DEF IInv
<1>1. /\ \A y \in Deleters : held'[y] = IF y = x THEN held[x] \cup {r} ELSE held[y]
      /\ pc[x] \in {"children", "row"} /\ r \notin Held
      /\ UNCHANGED <<tableVars, rows, pc, target, loaded>>
  BY DEF Take, Free, TypeOK
<1>2. \/ r \in target[x]
      \/ r.refs \cap KeysOf(target[x]) # {}
      \/ r.refs \cap KeysOf(held[x]) # {}
  BY DEF Take, Wanted, Listed, Below, Direct
<1>3. TypeOK'
  <2>1. held' \in [Deleters -> SUBSET rows]
    BY DEF Take, TypeOK
  <2>2. \A y, z \in Deleters : y # z => held'[y] \cap held'[z] = {}
    BY <1>1 DEF TypeOK, Held
  <2> QED
    BY <1>1, <2>1, <2>2 DEF TypeOK, tableVars
<1>4. NoDanglingRow' /\ Keyed' /\ Filled' /\ Quiet' /\ Idle' /\ Single' /\ Direct' /\ Settled'
  BY <1>1 DEF NoDanglingRow, Keyed, Known, Filled, Quiet, Idle, Single, Direct, Settled, Below, tableVars
<1>5. Chained'
  <2>1. KeysOf(held[x] \cup target[x]) \subseteq KeysOf(held'[x] \cup target'[x])
    BY <1>1, KeysGrow
  <2>2. KeysOf(held[x]) \subseteq KeysOf(held[x] \cup target[x])
    BY KeysGrow
  <2>3. KeysOf(target[x]) \subseteq KeysOf(held[x] \cup target[x])
    BY KeysGrow
  <2>4. r \in target[x] \/ r.refs \cap KeysOf(held[x] \cup target[x]) # {}
    BY <1>2, <2>2, <2>3
  <2>5. \A q \in held[x] \ target[x] : q.refs \cap KeysOf(held[x] \cup target[x]) # {}
    BY DEF Chained
  <2>6. \A q \in held'[x] \ target'[x] : q.refs \cap KeysOf(held'[x] \cup target'[x]) # {}
    BY <1>1, <2>1, <2>4, <2>5
  <2>7. \A y \in Deleters \ {x} : held'[y] = held[y] /\ target'[y] = target[y]
    BY <1>1
  <2> QED
    BY <2>6, <2>7 DEF Chained
<1>6. Rooted'
  <2>1. CASE held[x] # {}
    BY <1>1, <2>1 DEF Rooted
  <2>2. CASE held[x] = {}
    <3>1. r \in target[x] \/ r.refs \cap KeysOf(target[x]) # {}
      BY <1>2, <2>2 DEF KeysOf
    <3>2. target[x] \subseteq rows
      <4> SUFFICES ASSUME NEW p \in target[x]
                   PROVE  p \in rows
        OBVIOUS
      <4>1. CASE r \in target[x]
        BY <4>1 DEF Single
      <4>2. CASE r.refs \cap KeysOf(target[x]) # {}
        <5>1. KeysOf(target[x]) = {p.id}
          BY DEF Single, KeysOf
        <5>2. p.id \in KeysOf(rows)
          BY <4>2, <5>1 DEF NoDanglingRow
        <5>3. PICK q \in rows : q.id = p.id
          BY <5>2, KeyOf
        <5> QED
          BY <5>3 DEF Keyed, Known
      <4> QED
        BY <3>1, <4>1, <4>2
    <3>3. target[x] \subseteq held'[x] \/ \E q \in held'[x] : q.refs \cap KeysOf(target[x]) # {}
      BY <1>1, <3>1 DEF Single
    <3>4. \A y \in Deleters : y # x => held'[y] = held[y]
      BY <1>1
    <3> QED
      BY <1>1, <3>2, <3>3, <3>4 DEF Rooted
  <2> QED
    BY <2>1, <2>2
<1> QED
  BY <1>3, <1>4, <1>5, <1>6

\* It proceeds when there is nothing left to take.
LEMMA ProceedKeeps ==
  ASSUME IInv, NEW x \in Deleters, Proceed(x)
  PROVE  IInv'
<1> USE DEF IInv
<1>1. /\ \A y \in Deleters :
           pc'[y] = IF y = x THEN IF pc[x] = "children" THEN "row" ELSE "commit" ELSE pc[y]
      /\ pc[x] \in {"children", "row"} /\ Wanted(x) = {}
      /\ UNCHANGED <<tableVars, rows, target, loaded, held>>
  BY DEF Proceed, TypeOK
<1>2. TypeOK'
  <2>1. pc' \in [Deleters -> {"idle", "children", "row", "commit"}]
    BY DEF Proceed, TypeOK
  <2> QED
    BY <1>1, <2>1 DEF TypeOK, tableVars
<1>3. NoDanglingRow' /\ Keyed' /\ Filled' /\ Single' /\ Direct' /\ Chained' /\ Rooted'
  BY <1>1 DEF NoDanglingRow, Keyed, Known, Filled, Single, Direct, Chained, Rooted, tableVars
<1>4. Quiet' /\ Idle'
  BY <1>1 DEF Quiet, Idle, tableVars
<1>5. Settled'
  <2>1. pc[x] = "row" => Below(held[x]) \subseteq held[x] /\ target[x] \cap rows \subseteq held[x]
    BY <1>1 DEF Wanted, Listed
  <2> QED
    BY <1>1, <2>1 DEF Settled, Below
<1> QED
  BY <1>2, <1>3, <1>4, <1>5

\* When it commits, nothing is left that refers to what it held, and whoever holds
\* something else still has its row.
LEMMA CommitKeeps ==
  ASSUME IInv, NEW x \in Deleters, Commit(x)
  PROVE  IInv'
<1> USE DEF IInv
<1>1. /\ \A y \in Deleters : held'[y] = IF y = x THEN {} ELSE held[y]
      /\ \A y \in Deleters : loaded'[y] = IF y = x THEN {} ELSE loaded[y]
      /\ \A y \in Deleters : target'[y] = IF y = x THEN {} ELSE target[y]
      /\ \A y \in Deleters : pc'[y] = IF y = x THEN "idle" ELSE pc[y]
      /\ pc[x] = "commit" /\ rows' = rows \ held[x] /\ UNCHANGED tableVars
  BY DEF Commit, End, TypeOK
<1>2. Below(held[x]) \subseteq held[x]
  BY <1>1 DEF Settled
<1>3. \A y \in Deleters \ {x} : held[y] \cap held[x] = {}
  BY DEF TypeOK
<1>4. TypeOK'
  <2>1. held' \in [Deleters -> SUBSET rows']
    <3>1. \A y \in Deleters : held'[y] \subseteq rows'
      BY <1>1, <1>3 DEF TypeOK
    <3> QED
      BY <3>1 DEF Commit, End, TypeOK
  <2>2. /\ target' \in [Deleters -> SUBSET Rows] /\ loaded' \in [Deleters -> SUBSET Rows]
        /\ pc' \in [Deleters -> {"idle", "children", "row", "commit"}]
    BY DEF Commit, End, TypeOK
  <2>3. \A y, z \in Deleters : y # z => held'[y] \cap held'[z] = {}
    BY <1>1 DEF TypeOK
  <2> QED
    BY <1>1, <2>1, <2>2, <2>3 DEF TypeOK, tableVars
<1>5. NoDanglingRow'
  <2> SUFFICES ASSUME NEW r \in rows', NEW i \in r.refs
               PROVE  i \in KeysOf(rows')
    BY DEF NoDanglingRow
  <2>1. r \in rows \ held[x]
    BY <1>1
  <2>2. PICK q \in rows : q.id = i
    BY <2>1, KeyOf DEF NoDanglingRow
  <2>3. q \notin held[x]
    BY <1>2, <2>1, <2>2 DEF Below, KeysOf
  <2> QED
    BY <1>1, <2>2, <2>3 DEF KeysOf
<1>6. Keyed'
  <2>1. Known' \subseteq Known
    BY <1>1 DEF Known
  <2> QED
    BY <2>1 DEF Keyed
<1>7. Filled' /\ Quiet' /\ Idle' /\ Single' /\ Direct'
  BY <1>1 DEF Filled, Quiet, Idle, Single, Direct, tableVars
<1>8. Settled' /\ Chained'
  BY <1>1 DEF Settled, Below, Chained
<1>9. Rooted'
  <2> SUFFICES ASSUME NEW y \in Deleters \ {x}, held[y] # {}
               PROVE  target[y] \cap held[x] = {}
    BY <1>1 DEF Rooted
  <2>1. CASE target[y] \subseteq held[y]
    BY <2>1, <1>3
  <2>2. CASE \E r \in held[y] : r.refs \cap KeysOf(target[y]) # {}
    <3> SUFFICES ASSUME NEW q \in target[y], q \in held[x]
                 PROVE  FALSE
      OBVIOUS
    <3>1. PICK r \in held[y] : r.refs \cap KeysOf(target[y]) # {}
      BY <2>2
    <3>2. KeysOf(target[y]) = {q.id} /\ q.id \in KeysOf(held[x])
      BY DEF Single, KeysOf
    <3>3. r \in rows
      BY DEF TypeOK
    <3>4. r \in Below(held[x])
      BY <3>1, <3>2, <3>3 DEF Below
    <3> QED
      BY <1>2, <1>3, <3>4
  <2> QED
    BY <2>1, <2>2 DEF Rooted
<1> QED
  BY <1>4, <1>5, <1>6, <1>7, <1>8, <1>9

-----------------------------------------------------------------------------
(* The theorems.                                                           *)

\* The invariant holds at first, and every step keeps it.
LEMMA Inductive == Spec => []IInv
<1>1. Init => IInv
  BY OrderLength DEF Init, IInv, TypeOK, NoDanglingRow, Keyed, Known, Filled, Quiet, Idle, Single,
                     Direct, Settled, Below, Chained, Rooted
<1>2. IInv /\ [Next]_vars => IInv'
  <2> SUFFICES ASSUME IInv, [Next]_vars
               PROVE  IInv'
    OBVIOUS
  <2>1. CASE Migrate \/ CreateTable \/ DropTable \/ AbortMigration
    BY <2>1, MigrationKeeps
  <2>2. CASE CommitMigration
    BY <2>2, CommitMigrationKeeps
  <2>3. CASE \E t \in Tables, id \in Ids : Insert(t, id)
    BY <2>3, InsertKeeps
  <2>4. CASE \E x \in Deleters, r \in rows : Load(x, r)
    BY <2>4, LoadKeeps
  <2>5. CASE \E x \in Deleters, r \in rows : Take(x, r)
    BY <2>5, TakeKeeps
  <2>6. CASE \E x \in Deleters : Proceed(x)
    BY <2>6, ProceedKeeps
  <2>7. CASE \E x \in Deleters : Commit(x)
    BY <2>7, CommitKeeps
  <2>8. CASE \E x \in Deleters : Abort(x) \/ Fail(x)
    BY <2>8, EndKeeps DEF Abort, Fail
  <2>9. CASE UNCHANGED vars
    BY <2>9 DEF vars, tableVars, deleteVars, IInv, TypeOK, NoDanglingRow, Keyed, Known, Filled, Quiet,
                Idle, Single, Direct, Settled, Below, Chained, Rooted
  <2> QED
    BY <2>1, <2>2, <2>3, <2>4, <2>5, <2>6, <2>7, <2>8, <2>9 DEF Next, MigrationStep, Step
<1> QED
  BY <1>1, <1>2, PTL DEF Spec

\* TypeOK, with what is held in the tables and by one deletion, for any number of rows
\* and deletions.
THEOREM TypeCorrect == Spec => []TypeOK
<1>1. IInv => TypeOK
  BY DEF IInv
<1> QED
  BY <1>1, Inductive, PTL

\* No row refers to a row that is gone (NoDanglingRow), whatever is inserted beside the
\* deletions and whatever else is deleted.
THEOREM NoDanglingRowAlways == Spec => []NoDanglingRow
<1>1. IInv => NoDanglingRow
  BY DEF IInv
<1> QED
  BY <1>1, Inductive, PTL

\* A commit that removes anything removes what was asked for, and only what hangs on it
\* (DeletesWhole).
THEOREM DeletesWholeAlways == Spec => DeletesWhole
<1> DEFINE Whole(x) ==
             pc[x] = "commit" /\ pc'[x] = "idle" /\ rows' # rows =>
               LET gone == rows \ rows'
               IN  /\ target[x] \subseteq gone
                   /\ \A r \in gone \ target[x] : r.refs \cap KeysOf(gone) # {}
<1>1. ASSUME IInv, [Next]_vars, NEW x \in Deleters
      PROVE  Whole(x)
  <2> USE <1>1 DEF IInv
  <2> SUFFICES ASSUME pc[x] = "commit", pc'[x] = "idle", rows' # rows
               PROVE  LET gone == rows \ rows'
                      IN  /\ target[x] \subseteq gone
                          /\ \A r \in gone \ target[x] : r.refs \cap KeysOf(gone) # {}
    OBVIOUS
  <2>1. rows' = rows \ held[x] /\ held[x] # {}
    <3>1. CASE \E y \in Deleters : Commit(y)
      <4>1. PICK y \in Deleters : Commit(y)
        BY <3>1
      <4>2. y = x
        BY <4>1 DEF Commit, End, TypeOK
      <4> QED
        BY <4>1, <4>2 DEF Commit
    <3>2. CASE UNCHANGED rows
      BY <3>2
    <3>3. CASE CommitMigration
      BY <3>3 DEF CommitMigration, Quiet
    <3>4. CASE \E t \in Tables, id \in Ids : Insert(t, id)
      BY <3>4 DEF Insert, deleteVars
    <3> QED
      BY <3>1, <3>2, <3>3, <3>4 DEF Next, vars, MigrationStep, Step, Migrate, CreateTable, DropTable,
                                   AbortMigration, Load, Take, Proceed, Abort, Fail
  <2>2. rows \ rows' = held[x]
    BY <2>1 DEF TypeOK
  <2>3. target[x] \subseteq held[x]
    BY <2>1 DEF Rooted, Settled
  <2>4. held[x] \cup target[x] = held[x]
    BY <2>3
  <2> QED
    BY <2>2, <2>3, <2>4 DEF Chained
<1>2. IInv /\ [Next]_vars => [\A x \in Deleters : Whole(x)]_vars
  BY <1>1
<1> QED
  BY <1>2, Inductive, PTL DEF Spec, DeletesWhole

-----------------------------------------------------------------------------
(* Waiting.  MigrationEnds and DeletionEnds rest on this: no table is made *)
(* or dropped out of turn, a deletion has only so many steps of its own,   *)
(* and deletions that wait for each other have a victim.                   *)

\* The next table may be made, or dropped.
InTurn ==
  /\ migration = "upgrade" /\ made < Len(Order) => References(Order[made + 1]) \subseteq Made
  /\ migration = "downgrade" /\ made > 0 =>
       \A t \in Made \ {Order[made]} : Order[made] \notin References(t)

\* The eleven tables in their order, one by one.
LEMMA OrderIs ==
  /\ Len(Order) = 11
  /\ Order[1] = "users" /\ Order[2] = "wallets" /\ Order[3] = "wallet_snapshots"
  /\ Order[4] = "transactions" /\ Order[5] = "token_holdings" /\ Order[6] = "alerts"
  /\ Order[7] = "alert_deliveries" /\ Order[8] = "provider_sync_state" /\ Order[9] = "ai_analyses"
  /\ Order[10] = "audit_events" /\ Order[11] = "wallet_sessions"
BY DEF Order

\* What each of them refers to.
LEMMA ReferencesAre ==
  /\ References("users") = {} /\ References("wallets") = {"users"}
  /\ References("wallet_snapshots") = {"wallets"} /\ References("transactions") = {"wallets"}
  /\ References("token_holdings") = {"wallets"} /\ References("alerts") = {"users", "wallets"}
  /\ References("alert_deliveries") = {"alerts"} /\ References("provider_sync_state") = {"wallets"}
  /\ References("ai_analyses") = {"wallets", "transactions"}
  /\ References("audit_events") = {"users"} /\ References("wallet_sessions") = {"users"}
BY DEF References, Owner, Subject

\* A table refers only to tables that upgrade() has created before it.
LEMMA EarlierOnly ==
  ASSUME NEW n \in 1..11
  PROVE  References(Order[n]) \subseteq {Order[i] : i \in 1..n - 1}
<1>1. \A t : t \in References(Order[n]) => \E i \in 1..n - 1 : Order[i] = t
  <2>1. n = 1 \/ n = 2 \/ n = 3 \/ n = 4 \/ n = 5 \/ n = 6 \/ n = 7 \/ n = 8 \/ n = 9 \/ n = 10 \/ n = 11
    OBVIOUS
  <2>2. CASE n = 1
    BY <2>2, OrderIs, ReferencesAre
  <2>3. CASE n \in {2, 10, 11}
    <3>1. References(Order[n]) = {Order[1]} /\ 1 \in 1..n - 1
      BY <2>3, OrderIs, ReferencesAre
    <3> QED
      BY <3>1
  <2>4. CASE n \in {3, 4, 5, 8}
    <3>1. References(Order[n]) = {Order[2]} /\ 2 \in 1..n - 1
      BY <2>4, OrderIs, ReferencesAre
    <3> QED
      BY <3>1
  <2>5. CASE n = 6
    <3>1. References(Order[n]) = {Order[1], Order[2]} /\ 1 \in 1..n - 1 /\ 2 \in 1..n - 1
      BY <2>5, OrderIs, ReferencesAre
    <3> QED
      BY <3>1
  <2>6. CASE n = 7
    <3>1. References(Order[n]) = {Order[6]} /\ 6 \in 1..n - 1
      BY <2>6, OrderIs, ReferencesAre
    <3> QED
      BY <3>1
  <2>7. CASE n = 9
    <3>1. References(Order[n]) = {Order[2], Order[4]} /\ 2 \in 1..n - 1 /\ 4 \in 1..n - 1
      BY <2>7, OrderIs, ReferencesAre
    <3> QED
      BY <3>1
  <2> QED
    BY <2>1, <2>2, <2>3, <2>4, <2>5, <2>6, <2>7
<1> QED
  BY <1>1

\* No table is created twice.
LEMMA OrderApart ==
  ASSUME NEW m \in 1..11, NEW n \in 1..11, Order[m] = Order[n]
  PROVE  m = n
BY OrderIs

\* upgrade() creates no table before those that it refers to, and downgrade() drops none
\* that another still refers to (001_initial_schema.py): the guards of CreateTable and
\* DropTable never keep a migration from going on.
THEOREM InTurnAlways == Spec => []InTurn
<1>1. TypeOK => InTurn
  <2> SUFFICES ASSUME TypeOK
               PROVE  InTurn
    OBVIOUS
  <2>1. made \in 0..11
    BY OrderIs DEF TypeOK
  <2>2. ASSUME made < 11
        PROVE  References(Order[made + 1]) \subseteq Made
    <3>1. made + 1 \in 1..11 /\ (made + 1) - 1 = made
      BY <2>1, <2>2
    <3> QED
      BY <3>1, EarlierOnly DEF Made
  <2>3. ASSUME made > 0, NEW t \in Made \ {Order[made]}, Order[made] \in References(t)
        PROVE  FALSE
    <3>1. PICK n \in 1..made : t = Order[n]
      BY <2>3 DEF Made
    <3>2. n \in 1..11 /\ made \in 1..11
      BY <2>1, <2>3, <3>1
    <3>3. PICK i \in 1..n - 1 : Order[made] = Order[i]
      BY <2>3, <3>1, <3>2, EarlierOnly
    <3>4. made = i
      BY <3>2, <3>3, OrderApart
    <3> QED
      BY <3>1, <3>2, <3>3, <3>4
  <2> QED
    BY <2>2, <2>3, OrderIs DEF InTurn
<1> QED
  BY <1>1, TypeCorrect, PTL

\* When Step(x) is enabled.
CanStep(x) ==
  \/ pc[x] = "commit"
  \/ pc[x] \in {"children", "row"} /\ (Wanted(x) = {} \/ \E r \in Wanted(x) : Free(r))
  \/ Victim(x)

\* Deletions that wait, if at all, for each other.
Group(S) ==
  /\ S # {} /\ \A x \in S : pc[x] # "idle"
  /\ \A x \in S, y \in Deleters : Waits(x, y) => y \in S

\* One of them can go on, or is ended.
NobodyStuck == \A S \in SUBSET Deleters : Group(S) => \E x \in S : CanStep(x)

\* Deletions that wait for rows which others of them hold (wallets.py and alerts.py with
\* the cascades): one of them can take its next row, or all of them are in a deadlock
\* that PostgreSQL ends.
THEOREM NobodyStuckEver == Spec => []NobodyStuck
<1>1. TypeOK => NobodyStuck
  <2> SUFFICES ASSUME TypeOK, NEW S \in SUBSET Deleters, Group(S), \A x \in S : ~CanStep(x)
               PROVE  FALSE
    BY DEF NobodyStuck
  <2>1. \A x \in S : \E y \in S : Waits(x, y)
    <3> SUFFICES ASSUME NEW x \in S
                 PROVE  \E y \in S : Waits(x, y)
      OBVIOUS
    <3>1. PICK r \in Wanted(x) : ~Free(r)
      BY DEF CanStep, Group, TypeOK
    <3>2. PICK y \in Deleters : r \in held[y]
      BY <3>1 DEF Free, Held
    <3>3. r \notin held[x]
      BY <3>1 DEF Wanted
    <3>4. Waits(x, y)
      BY <3>1, <3>2, <3>3 DEF Waits
    <3> QED
      BY <3>4 DEF Group
  <2>2. \A x \in S : Victim(x)
    BY <2>1 DEF Victim
  <2> QED
    BY <2>2 DEF CanStep, Group
<1> QED
  BY <1>1, TypeCorrect, PTL

\* Keys of the rows that a deletion does not hold yet.
Left(x) == Ids \ KeysOf(held[x])

\* How many steps a deletion may still take itself: it takes no row twice.
Work(x) ==
  CASE pc[x] = "idle"     -> 0
    [] pc[x] = "commit"   -> 1
    [] pc[x] = "row"      -> 2 + Cardinality(Left(x))
    [] pc[x] = "children" -> 3 + Cardinality(Left(x))

\* Every step of its own takes it nearer to its end, and no other one takes it back.
WorkShrinks ==
  [][\A x \in Deleters :
       /\ Step(x) => Work(x)' < Work(x)
       /\ pc[x] # "idle" => Work(x)' <= Work(x)]_vars

\* The work of a deletion is a number.
LEMMA WorkCounted ==
  ASSUME IsFiniteSet(Ids), TypeOK, NEW x \in Deleters
  PROVE  Work(x) \in Nat /\ IsFiniteSet(Left(x)) /\ Cardinality(Left(x)) \in Nat
<1>1. Left(x) \in SUBSET Ids
  BY DEF Left
<1>2. IsFiniteSet(Left(x)) /\ Cardinality(Left(x)) \in Nat
  BY <1>1, FS_Subset, FS_CardinalityType
<1>3. pc[x] \in {"idle", "children", "row", "commit"}
  BY DEF TypeOK
<1> QED
  BY <1>2, <1>3 DEF Work

\* A row that is taken is one row less.
LEMMA TakeWorks ==
  ASSUME IsFiniteSet(Ids), IInv, NEW x \in Deleters, NEW r \in rows, Take(x, r)
  PROVE  Work(x)' < Work(x)
<1>1. /\ pc'[x] = pc[x] /\ pc[x] \in {"children", "row"}
      /\ held'[x] = held[x] \cup {r} /\ r \notin held[x] /\ held[x] \subseteq rows
  BY DEF Take, Wanted, IInv, TypeOK
<1>2. r.id \in Left(x)
  <2>1. \A q \in held[x] : q.id # r.id
    BY <1>1 DEF IInv, Keyed, Known
  <2>2. r.id \in Ids
    BY DEF IInv, TypeOK, Rows
  <2> QED
    BY <2>1, <2>2 DEF Left, KeysOf
<1>3. Left(x)' = Left(x) \ {r.id}
  BY <1>1 DEF Left, KeysOf
<1>4. Cardinality(Left(x)') = Cardinality(Left(x)) - 1 /\ Cardinality(Left(x)) \in Nat
  <2>1. IsFiniteSet(Left(x)) /\ Cardinality(Left(x)) \in Nat
    BY WorkCounted DEF IInv
  <2> QED
    BY <1>2, <1>3, <2>1, FS_RemoveElement
<1>5. Cardinality(Left(x))' = Cardinality(Left(x)) - 1
  BY <1>4
<1> QED
  BY <1>1, <1>4, <1>5 DEF Work

\* A step of a deletion leaves it with less work.
LEMMA StepWorks ==
  ASSUME IsFiniteSet(Ids), IInv, NEW x \in Deleters, Step(x)
  PROVE  Work(x)' < Work(x)
<1>1. Work(x) \in Nat /\ Cardinality(Left(x)) \in Nat
  BY WorkCounted DEF IInv
<1>2. CASE Proceed(x)
  <2>1. /\ held' = held /\ pc[x] \in {"children", "row"}
        /\ pc'[x] = IF pc[x] = "children" THEN "row" ELSE "commit"
    BY <1>2 DEF Proceed, IInv, TypeOK
  <2>2. Cardinality(Left(x))' = Cardinality(Left(x))
    BY <2>1 DEF Left
  <2> QED
    BY <1>1, <2>1, <2>2 DEF Work
<1>3. CASE Commit(x) \/ Abort(x)
  <2>1. pc[x] # "idle" /\ pc'[x] = "idle" /\ pc[x] \in {"idle", "children", "row", "commit"}
    BY <1>3 DEF Commit, Abort, End, IInv, TypeOK
  <2> QED
    BY <1>1, <2>1 DEF Work
<1> QED
  BY <1>2, <1>3, TakeWorks DEF Step

\* DeletionEnds rests on it: whatever is inserted or deleted by others meanwhile, a deletion
\* has at most as many steps before it as there are keys, and three.
THEOREM WorkShrinksAlways == ASSUME IsFiniteSet(Ids) PROVE Spec => WorkShrinks
<1>1. ASSUME IInv, [Next]_vars, NEW x \in Deleters
      PROVE  /\ Step(x) => Work(x)' < Work(x)
             /\ pc[x] # "idle" => Work(x)' <= Work(x)
  <2>1. Work(x) \in Nat
    BY <1>1, WorkCounted DEF IInv
  <2>2. CASE Step(x)
    <3>1. Work(x)' < Work(x)
      BY <1>1, <2>2, StepWorks
    <3>2. Work(x)' \in Int
      <4>1. Cardinality(Left(x)') \in Nat
        <5>1. Left(x)' \in SUBSET Ids
          BY DEF Left
        <5> QED
          BY <5>1, FS_Subset, FS_CardinalityType
      <4>2. pc'[x] \in {"idle", "children", "row", "commit"}
        BY <1>1, <2>2 DEF Step, Take, Proceed, Commit, Abort, End, IInv, TypeOK
      <4>3. Cardinality(Left(x))' \in Nat
        BY <4>1
      <4> QED
        BY <4>2, <4>3 DEF Work
    <3> QED
      BY <2>1, <3>1, <3>2
  <2>3. CASE ~Step(x) /\ pc[x] # "idle"
    <3>1. pc'[x] = "idle" \/ (pc'[x] = pc[x] /\ held'[x] = held[x])
      <4>1. CASE Fail(x)
        BY <1>1, <4>1 DEF Fail, End, IInv, TypeOK
      <4>2. ASSUME NEW y \in Deleters \ {x}, Step(y) \/ Fail(y) \/ \E r \in rows : Load(y, r)
            PROVE  pc'[x] = pc[x] /\ held'[x] = held[x]
        BY <1>1, <4>2 DEF Step, Take, Proceed, Commit, Abort, Fail, End, Load, IInv, TypeOK
      <4>3. ~ \E r \in rows : Load(x, r)
        BY <2>3 DEF Load
      <4>4. CASE Migrate \/ MigrationStep \/ AbortMigration \/ UNCHANGED vars
                 \/ \E t \in Tables, id \in Ids : Insert(t, id)
        BY <4>4 DEF Migrate, MigrationStep, CreateTable, DropTable, CommitMigration, AbortMigration, Insert,
                    vars, deleteVars
      <4> QED
        BY <1>1, <2>3, <4>1, <4>2, <4>3, <4>4 DEF Next
    <3>2. CASE pc'[x] = "idle"
      <4>1. Work(x)' = 0
        BY <3>2 DEF Work
      <4> QED
        BY <2>1, <2>3, <4>1
    <3>3. CASE pc'[x] = pc[x] /\ held'[x] = held[x]
      <4>1. Work(x)' = Work(x)
        BY <3>3 DEF Work, Left
      <4> QED
        BY <2>1, <2>3, <4>1
    <3> QED
      BY <3>1, <3>2, <3>3
  <2> QED
    BY <2>2, <2>3
<1>2. IInv /\ [Next]_vars => [\A x \in Deleters : /\ Step(x) => Work(x)' < Work(x)
                                                  /\ pc[x] # "idle" => Work(x)' <= Work(x)]_vars
  BY <1>1
<1> QED
  BY <1>2, Inductive, PTL DEF Spec, WorkShrinks
=============================================================================
