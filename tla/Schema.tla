------------------------------- MODULE Schema -------------------------------
(***************************************************************************)
(* The tables (alembic/versions/20260709_1200_001_initial_schema.py), the  *)
(* migration that makes and drops them, and the rows that refer to each    *)
(* other: what deletes a wallet or an alert (api/v1/wallets.py,            *)
(* api/v1/alerts.py) removes by the ORM's cascade and by the database's,   *)
(* lock by lock, beside inserts and other deletions.                       *)
(***************************************************************************)
EXTENDS Integers, Sequences

CONSTANTS
  Ids,       \* bound: primary keys
  Deleters   \* bound: deletions under way at a time

ASSUME SchemaAssumption == Ids \subseteq Nat

VARIABLES
  made,        \* tables that there are, in the transaction under way
  migration,   \* "none", "upgrade" or "downgrade"
  rows,        \* committed rows
  pc,          \* where each deletion stands
  target,      \* the row that it deletes: {} or one row
  loaded,      \* children that the ORM has loaded
  held         \* rows that it has deleted, locked until it commits

tableVars  == <<made, migration>>
deleteVars == <<pc, target, loaded, held>>
vars       == <<tableVars, rows, deleteVars>>

-----------------------------------------------------------------------------
(* The tables.                                                             *)

\* References to rows that must be there.
Owner ==
  [users               |-> {},
   wallets             |-> {"users"},
   wallet_snapshots    |-> {"wallets"},
   transactions        |-> {"wallets"},
   token_holdings      |-> {"wallets"},
   alerts              |-> {"users", "wallets"},
   alert_deliveries    |-> {"alerts"},
   provider_sync_state |-> {"wallets"},
   ai_analyses         |-> {},
   audit_events        |-> {},
   wallet_sessions     |-> {"users"}]

\* References that may be NULL.
Subject ==
  [t \in DOMAIN Owner |->
     CASE t = "ai_analyses"  -> {"wallets", "transactions"}
       [] t = "audit_events" -> {"users"}
       [] OTHER              -> {}]

Tables == DOMAIN Owner

References(t) == Owner[t] \cup Subject[t]

\* Mutant of Order: the analyses before what they are about.
OrderByTopic ==
  <<"users", "wallets", "ai_analyses", "wallet_snapshots", "transactions", "token_holdings",
    "alerts", "alert_deliveries", "provider_sync_state", "audit_events", "wallet_sessions">>

\* upgrade() creates them in this order, downgrade() drops them in the reverse.
Order ==
  <<"users", "wallets", "wallet_snapshots", "transactions", "token_holdings", "alerts",
    "alert_deliveries", "provider_sync_state", "ai_analyses", "audit_events", "wallet_sessions">>

\* A row refers to at most one row of each table; its references never change.
Rows == [id : Ids, table : Tables, refs : SUBSET Ids]

KeysOf(s) == {q.id : q \in s}

-----------------------------------------------------------------------------
(* The migration: one transaction.                                         *)

Init ==
  /\ made = 0 /\ migration = "none" /\ rows = {}
  /\ pc = [x \in Deleters |-> "idle"]
  /\ target = [x \in Deleters |-> {}]
  /\ loaded = [x \in Deleters |-> {}]
  /\ held = [x \in Deleters |-> {}]

Ready == migration = "none" /\ made = Len(Order)

\* Its first statement locks `users`, and what hangs on `users` waits.
Migrate ==
  /\ migration = "none" /\ \A x \in Deleters : pc[x] = "idle"
  /\ migration' = IF made = 0 THEN "upgrade" ELSE "downgrade"
  /\ UNCHANGED <<made, rows, deleteVars>>

Made == {Order[i] : i \in 1..made}

\* CREATE TABLE needs the tables that the new one refers to.
CreateTable ==
  /\ migration = "upgrade" /\ made < Len(Order)
  /\ References(Order[made + 1]) \subseteq Made
  /\ made' = made + 1
  /\ UNCHANGED <<migration, rows, deleteVars>>

\* DROP TABLE needs that no other table refers to it.
DropTable ==
  /\ migration = "downgrade" /\ made > 0
  /\ \A t \in Made \ {Order[made]} : Order[made] \notin References(t)
  /\ made' = made - 1
  /\ UNCHANGED <<migration, rows, deleteVars>>

CommitMigration ==
  /\ \/ migration = "upgrade" /\ made = Len(Order)
     \/ migration = "downgrade" /\ made = 0
  /\ migration' = "none"
  /\ rows' = {r \in rows : r.table \in Made}
  /\ UNCHANGED <<made, deleteVars>>

\* It fails on its way, and all of it is undone.
AbortMigration ==
  /\ migration # "none"
  /\ made' = IF migration = "upgrade" THEN 0 ELSE Len(Order)
  /\ migration' = "none"
  /\ UNCHANGED <<rows, deleteVars>>

-----------------------------------------------------------------------------
(* Rows.                                                                   *)

Held == UNION {held[x] : x \in Deleters}

Known == rows \cup UNION {target[x] \cup loaded[x] : x \in Deleters}

\* Mutant of Parents: a row on its way out is referred to.
ParentsUnlocked(t) == {s \in SUBSET rows : \A q \in s : q.table \in References(t)}

\* Rows that a new row of table t may refer to: their deletion would be waited for.
Parents(t) == {s \in SUBSET (rows \ Held) : \A q \in s : q.table \in References(t)}

\* Some handler or task inserts a row, with a new key.
Insert(t, id) ==
  /\ Ready
  /\ id \notin KeysOf(Known) /\ \A i \in Ids : i < id => i \in KeysOf(Known)
  /\ \E s \in Parents(t) :
       /\ \A u \in References(t) : \A q, p \in s : q.table = u /\ p.table = u => q = p
       /\ Owner[t] \subseteq {q.table : q \in s}
       /\ rows' = rows \cup {[id |-> id, table |-> t, refs |-> KeysOf(s)]}
  /\ UNCHANGED <<tableVars, deleteVars>>

-----------------------------------------------------------------------------
(* Deletion of a wallet or an alert.                                       *)

\* Relationships with cascade "all, delete-orphan".
OrmChildren(t) ==
  CASE t = "wallets" -> {"transactions", "token_holdings", "wallet_snapshots"}
    [] t = "alerts"  -> {"alert_deliveries"}
    [] OTHER         -> {}

\* Rows that refer to one of s.
Below(s) == {r \in rows : r.refs \cap KeysOf(s) # {}}

\* db.delete() loads the children.
Load(x, r) ==
  /\ Ready /\ pc[x] = "idle" /\ r.table \in {"wallets", "alerts"}
  /\ pc' = [pc EXCEPT ![x] = "children"]
  /\ target' = [target EXCEPT ![x] = {r}]
  /\ loaded' = [loaded EXCEPT ![x] = {q \in Below({r}) : q.table \in OrmChildren(r.table)}]
  /\ UNCHANGED <<tableVars, rows, held>>

\* Mutant of Listed: the row itself is left.
ListedChildren(x) == loaded[x]

\* The flush deletes the children first, then the row.
Listed(x) == IF pc[x] = "children" THEN loaded[x] ELSE loaded[x] \cup target[x]

\* What a deletion has still to delete: what it has listed, if it is there, and by
\* ON DELETE CASCADE whatever refers to what it has deleted.
Wanted(x) == ((Listed(x) \cap rows) \cup Below(held[x])) \ held[x]

\* A row that another deletion holds is waited for.
Free(r) == r \notin Held

Take(x, r) ==
  /\ pc[x] \in {"children", "row"} /\ r \in Wanted(x) /\ Free(r)
  /\ held' = [held EXCEPT ![x] = @ \cup {r}]
  /\ UNCHANGED <<tableVars, rows, pc, target, loaded>>

\* After the children the row, and when that is gone, too, the flush is done.
Proceed(x) ==
  /\ pc[x] \in {"children", "row"} /\ Wanted(x) = {}
  /\ pc' = [pc EXCEPT ![x] = IF @ = "children" THEN "row" ELSE "commit"]
  /\ UNCHANGED <<tableVars, rows, target, loaded, held>>

End(x) ==
  /\ pc' = [pc EXCEPT ![x] = "idle"]
  /\ target' = [target EXCEPT ![x] = {}]
  /\ loaded' = [loaded EXCEPT ![x] = {}]
  /\ held' = [held EXCEPT ![x] = {}]
  /\ UNCHANGED tableVars

\* Rows that were gone when their turn came are only warned of.
Commit(x) ==
  /\ pc[x] = "commit"
  /\ rows' = rows \ held[x]
  /\ End(x)

\* x waits for y, or would.
Waits(x, y) == x # y /\ Wanted(x) \cap held[y] # {}

\* Mutant of Victim: nobody looks for deadlocks.
VictimNever(x) == FALSE

\* PostgreSQL ends a deletion when several wait for each other.
Victim(x) ==
  \E s \in SUBSET Deleters : x \in s /\ \A y \in s : \E z \in s : Waits(y, z)

Abort(x) == pc[x] # "idle" /\ Victim(x) /\ End(x) /\ UNCHANGED rows

\* Whatever else fails: the transaction is undone.
Fail(x) == pc[x] # "idle" /\ End(x) /\ UNCHANGED rows

Step(x) == (\E r \in rows : Take(x, r)) \/ Proceed(x) \/ Commit(x) \/ Abort(x)

MigrationStep == CreateTable \/ DropTable \/ CommitMigration

Next ==
  \/ Migrate \/ MigrationStep \/ AbortMigration
  \/ \E t \in Tables, id \in Ids : Insert(t, id)
  \/ \E x \in Deleters : (\E r \in rows : Load(x, r)) \/ Step(x) \/ Fail(x)

Spec == Init /\ [][Next]_vars

\* The API and the migration run on, and PostgreSQL lets whoever waits for a lock have
\* it some time.
FairSpec == Spec /\ WF_vars(MigrationStep) /\ \A x \in Deleters : SF_vars(Step(x))

-----------------------------------------------------------------------------
(* Properties.                                                             *)

\* Every variable has its type; what is held is in a table, and by one deletion.
TypeOK ==
  /\ made \in 0..Len(Order) /\ migration \in {"none", "upgrade", "downgrade"}
  /\ rows \subseteq Rows
  /\ pc \in [Deleters -> {"idle", "children", "row", "commit"}]
  /\ target \in [Deleters -> SUBSET Rows] /\ loaded \in [Deleters -> SUBSET Rows]
  /\ held \in [Deleters -> SUBSET rows]
  /\ \A x, y \in Deleters : x # y => held[x] \cap held[y] = {}

\* No row refers to a row that is gone, whatever was inserted while a wallet or an
\* alert was being deleted, and whichever cascade met it.
NoDanglingRow == \A r \in rows : r.refs \subseteq KeysOf(rows)

\* A deletion that commits removes its row, unless it is gone, and of the others only
\* rows that refer to what goes with it.
DeletesWhole ==
  [][\A x \in Deleters : pc[x] = "commit" /\ pc'[x] = "idle" /\ rows' # rows =>
       LET gone == rows \ rows'
       IN  /\ target[x] \subseteq gone
           /\ \A r \in gone \ target[x] : r.refs \cap KeysOf(gone) # {}]_vars

\* Every migration ends: no table is created or dropped out of turn.
MigrationEnds == migration # "none" ~> migration = "none"

\* Every deletion ends, though two of them may wait for each other's rows.
DeletionEnds == \A x \in Deleters : pc[x] # "idle" ~> pc[x] = "idle"
=============================================================================
