------------------------------ MODULE Snapshots -----------------------------
(***************************************************************************)
(* The writers of one wallet's row: POST /wallets/{id}/snapshot            *)
(* (api/v1/wallets.py), the task snapshot_wallet and the task sync_wallet  *)
(* (worker/tasks.py), which take no lock against each other, over          *)
(* PostgreSQL, READ COMMITTED.                                             *)
(*                                                                         *)
(* Each loads the row, asks the provider while the wallet changes on the   *)
(* chain, and writes those of its columns whose values differ from the     *)
(* row it loaded, the snapshots with a new row of wallet_snapshots.        *)
(***************************************************************************)
EXTENDS Integers, FiniteSets

CONSTANTS
  Writers,         \* bound: requests and tasks under way at a time
  MaxBlock,        \* bound: changes on the chain
  Native, Tokens,  \* [0..MaxBlock -> amount of coins, and worth of the tokens]
  Price,           \* of a coin; 0 where the provider knows none
  MaxClock,        \* bound: writers that come to be done with the provider
  NoOne

ASSUME SnapshotsAssumption ==
  /\ MaxBlock \in Nat /\ MaxClock \in Nat /\ Price \in Nat
  /\ Native \in [0..MaxBlock -> Nat] /\ Tokens \in [0..MaxBlock -> Nat]
  /\ NoOne \notin Writers

VARIABLES
  block,      \* state of the chain
  clock,      \* wall-clock time
  wallet,     \* "active", "inactive" or "deleted"
  row,        \* columns of the wallet's row
  snapshots,  \* rows of wallet_snapshots
  rowLock,    \* whose uncommitted UPDATE holds the row
  pc,         \* where each writer stands
  kind,       \* "post", "task" or "sync"
  loaded,     \* the row as the writer has loaded it
  got,        \* the row as it should be by what it fetched
  overtaken   \* history: someone has written the row since the writer loaded it

dbVars     == <<wallet, row, snapshots, rowLock>>
writerVars == <<pc, kind, loaded, got, overtaken>>
vars       == <<block, clock, dbVars, writerVars>>

Kinds == {"post", "task", "sync"}
Pcs   == {"idle", "balance", "holdings", "done", "write", "commit"}
\* A total may be NULL, last_synced_at as well: 0, a time before all that are taken.
Null   == -1
Totals == Nat \cup {Null}
Rows   == [native : Nat, total : Totals, syncedAt : 0..MaxClock]

\* A wallet that was just added has its balance, but no total.
FirstRow == [native |-> Native[0], total |-> Null, syncedAt |-> 0]

Init ==
  /\ block = 0 /\ clock = 0
  /\ wallet = "active" /\ row = FirstRow /\ snapshots = {} /\ rowLock = NoOne
  /\ pc = [w \in Writers |-> "idle"]
  /\ kind = [w \in Writers |-> "post"]
  /\ loaded = [w \in Writers |-> FirstRow]
  /\ got = [w \in Writers |-> FirstRow]
  /\ overtaken = [w \in Writers |-> FALSE]

Goto(w, label) == pc' = [pc EXCEPT ![w] = label]

Close(w) ==
  /\ Goto(w, "idle")
  /\ kind' = [kind EXCEPT ![w] = "post"]
  /\ loaded' = [loaded EXCEPT ![w] = FirstRow]
  /\ got' = [got EXCEPT ![w] = FirstRow]

-----------------------------------------------------------------------------
(* Up to the write.                                                        *)

\* Mutant of Selected: a copy that an earlier session has left behind.
SelectedBefore == FirstRow

\* What the SELECT of a new session returns.
Selected == row

\* The bound is one on beginning: who has begun finds a time to write at.
TimeLeft == clock + Cardinality({v \in Writers : pc[v] \in {"balance", "holdings", "done"}}) < MaxClock

\* The tasks leave out an inactive wallet.
Load(w, k) ==
  /\ pc[w] = "idle" /\ TimeLeft
  /\ wallet # "deleted" /\ (wallet = "inactive" => k = "post")
  /\ kind' = [kind EXCEPT ![w] = k]
  /\ loaded' = [loaded EXCEPT ![w] = Selected]
  /\ got' = [got EXCEPT ![w] = Selected]
  /\ overtaken' = [overtaken EXCEPT ![w] = FALSE]
  /\ Goto(w, "balance")
  /\ UNCHANGED <<block, clock, dbVars>>

FetchBalance(w) ==
  /\ pc[w] = "balance"
  /\ got' = [got EXCEPT ![w].native = Native[block]]
  /\ Goto(w, IF kind[w] = "sync" THEN "done" ELSE "holdings")
  /\ UNCHANGED <<block, clock, dbVars, kind, loaded, overtaken>>

\* A second call, which may see a later state of the chain.
FetchHoldings(w) ==
  /\ pc[w] = "holdings"
  /\ got' = [got EXCEPT ![w].total = Price * got[w].native + Tokens[block]]
  /\ Goto(w, "done")
  /\ UNCHANGED <<block, clock, dbVars, kind, loaded, overtaken>>

\* The time of the write is taken before the row is waited for; see TimeLeft.
Stamp(w) ==
  /\ pc[w] = "done" /\ clock < MaxClock
  /\ clock' = clock + 1
  /\ got' = [got EXCEPT ![w].syncedAt = clock + 1]
  /\ Goto(w, "write")
  /\ UNCHANGED <<block, dbVars, kind, loaded, overtaken>>

-----------------------------------------------------------------------------
(* The write.                                                              *)

\* Columns that a writer sets.
Columns(w) == CASE kind[w] = "post" -> {"native", "total", "syncedAt"}
                [] kind[w] = "task" -> {"total"}
                [] kind[w] = "sync" -> {"native", "syncedAt"}

\* Of these, an UPDATE holds those that differ from the loaded row.
Changed(w) == {c \in Columns(w) : got[w][c] # loaded[w][c]}

\* Mutant of RowFree: nobody waits.
RowNotLocked(w) == TRUE

\* The UPDATE waits for the row; without one, the snapshot's insert waits for nobody.
RowFree(w) == Changed(w) = {} \/ rowLock = NoOne

Flush(w) ==
  /\ pc[w] = "write" /\ wallet # "deleted" /\ RowFree(w)
  /\ rowLock' = IF Changed(w) = {} THEN rowLock ELSE w
  /\ Goto(w, "commit")
  /\ UNCHANGED <<block, clock, wallet, row, snapshots, kind, loaded, got, overtaken>>

\* The row after the writer's UPDATE: other columns are as they are by now.
Written(w) == [c \in DOMAIN row |-> IF c \in Changed(w) THEN got[w][c] ELSE row[c]]

\* Mutant of Snapshot: total of the loaded row, not of what was fetched.
SnapshotOfLoaded(w) == {[native |-> got[w].native, total |-> loaded[w].total, at |-> got[w].syncedAt]}

\* What the writer inserts: a sync, nothing.
Snapshot(w) == IF kind[w] = "sync" THEN {}
               ELSE {[native |-> got[w].native, total |-> got[w].total, at |-> got[w].syncedAt]}

\* Mutant of FreeRow: the transaction ends and its row stays locked.
KeepRow(w) == rowLock' = rowLock

\* With its transaction a writer gives up the row.
FreeRow(w) == rowLock' = IF rowLock = w THEN NoOne ELSE rowLock

Commit(w) ==
  /\ pc[w] = "commit"
  /\ row' = Written(w)
  /\ snapshots' = snapshots \cup Snapshot(w)
  /\ FreeRow(w)
  /\ overtaken' = [v \in Writers |-> v # w /\ (overtaken[v] \/ Changed(w) # {})]
  /\ Close(w)
  /\ UNCHANGED <<block, clock, wallet>>

\* The UPDATE hits no row, or the snapshot's foreign key finds none.
Refused(w) ==
  /\ pc[w] = "write" /\ wallet = "deleted"
  /\ Close(w)
  /\ UNCHANGED <<block, clock, dbVars, overtaken>>

\* The provider or a query fails, the client or the process goes away: rolled back.
Fail(w) ==
  /\ pc[w] # "idle"
  /\ FreeRow(w)
  /\ Close(w)
  /\ UNCHANGED <<block, clock, wallet, row, snapshots, overtaken>>

-----------------------------------------------------------------------------
(* The chain and the owner.                                                *)

NewBlock == block < MaxBlock /\ block' = block + 1 /\ UNCHANGED <<clock, dbVars, writerVars>>

PatchWallet ==
  /\ wallet # "deleted" /\ rowLock = NoOne
  /\ wallet' = IF wallet = "active" THEN "inactive" ELSE "active"
  /\ UNCHANGED <<block, clock, row, snapshots, rowLock, writerVars>>

\* A snapshot that is inserted but not committed holds the wallet's row.
Referenced == \E w \in Writers : pc[w] = "commit" /\ kind[w] # "sync"

DeleteWallet ==
  /\ wallet # "deleted" /\ rowLock = NoOne /\ ~Referenced
  /\ wallet' = "deleted"
  /\ snapshots' = {}
  /\ UNCHANGED <<block, clock, row, rowLock, writerVars>>

Step(w) ==
  \/ FetchBalance(w) \/ FetchHoldings(w) \/ Stamp(w) \/ Flush(w) \/ Commit(w) \/ Refused(w)

Next ==
  \/ \E w \in Writers : (\E k \in Kinds : Load(w, k)) \/ Step(w) \/ Fail(w)
  \/ NewBlock \/ PatchWallet \/ DeleteWallet

Spec == Init /\ [][Next]_vars

\* The clock does not stop; those who wait for the row queue.
FairSpec == Spec /\ \A w \in Writers : SF_vars(Step(w))

-----------------------------------------------------------------------------
(* Properties.                                                             *)

\* Every variable has its type; who has updated the row has not ended.
TypeOK ==
  /\ block \in 0..MaxBlock /\ clock \in 0..MaxClock
  /\ wallet \in {"active", "inactive", "deleted"}
  /\ row \in Rows
  /\ snapshots \subseteq [native : Nat, total : Totals, at : 0..MaxClock]
  /\ rowLock \in Writers \cup {NoOne}
  /\ pc \in [Writers -> Pcs]
  /\ kind \in [Writers -> Kinds]
  /\ loaded \in [Writers -> Rows] /\ got \in [Writers -> Rows]
  /\ overtaken \in [Writers -> BOOLEAN]
  /\ \A w \in Writers :
       /\ rowLock = w => pc[w] = "commit"
       /\ pc[w] = "commit" /\ Changed(w) # {} => rowLock = w

\* Until it commits, a writer has the row that it updates for itself, and the wallet
\* of the snapshot that it inserts does not go.
RowHeld ==
  \A w \in Writers :
    pc[w] = "commit" =>
      /\ wallet # "deleted"
      /\ \A v \in Writers : pc[v] = "commit" /\ Changed(v) # {} /\ Changed(w) # {} => v = w

\* The total of the row is always one that a stored snapshot shows: no writer, however
\* late, brings the row to a total of which there is no snapshot.
TotalHasSnapshot ==
  wallet = "deleted" \/ row.total \in {FirstRow.total} \cup {s.total : s \in snapshots}

\* A writer that nobody overtook leaves the row with all that it fetched, although it
\* writes only what differs from the row it loaded.
AloneWritesAll ==
  [][\A w \in Writers :
       pc[w] = "commit" /\ pc'[w] = "idle" /\ row' # row /\ ~overtaken[w] /\ rowLock = w =>
         \A c \in Columns(w) : row'[c] = got[w][c]]_vars

\* last_synced_at goes back only when a writer was overtaken after it took its time.
SyncedAtForward ==
  [][row'.syncedAt < row.syncedAt => \E w \in Writers : rowLock = w /\ overtaken[w]]_vars

\* Every writer ends, though others hold the row when it comes to write.
WriterEnds == \A w \in Writers : pc[w] # "idle" ~> pc[w] = "idle"
=============================================================================
