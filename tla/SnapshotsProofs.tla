-------------------------- MODULE SnapshotsProofs ---------------------------
(***************************************************************************)
(* Proofs about Snapshots, for any number of writers and any history of    *)
(* the chain; and about Holdings, for any page, tokens and amounts.        *)
(***************************************************************************)
EXTENDS Snapshots, Holdings, TLAPS

\* The clock is ahead of every time that is stored or about to be.
ClockInv ==
  /\ row.syncedAt <= clock
  /\ \A w \in Writers :
       /\ loaded[w].syncedAt <= clock /\ got[w].syncedAt <= clock
       /\ pc[w] \in {"write", "commit"} => loaded[w].syncedAt < got[w].syncedAt

\* A writer that was not overtaken has loaded the row as it is.
CopyInv == \A w \in Writers : pc[w] # "idle" /\ ~overtaken[w] => loaded[w] = row

Inv == TypeOK /\ ClockInv /\ CopyInv

LEMMA Constants ==
  /\ FirstRow \in Rows /\ FirstRow.syncedAt = 0 /\ MaxClock \in Nat /\ MaxBlock \in Nat
  /\ NoOne \notin Writers
BY SnapshotsAssumption DEF SnapshotsAssumption, FirstRow, Rows, Totals, Null

\* Only the writer that commits changes the row, by what it has fetched.
LEMMA WrittenRow ==
  ASSUME TypeOK, NEW w \in Writers
  PROVE  /\ Written(w) \in Rows
         /\ \A c \in {"native", "total", "syncedAt"} :
              Written(w)[c] = IF c \in Changed(w) THEN got[w][c] ELSE row[c]
         /\ Changed(w) = {} => Written(w) = row
         /\ Changed(w) \subseteq Columns(w)
         /\ Columns(w) \subseteq {"native", "total", "syncedAt"}
<1>1. /\ row \in Rows /\ got[w] \in Rows
      /\ DOMAIN row = {"native", "total", "syncedAt"}
  BY DEF TypeOK, Rows
<1>2. Columns(w) \subseteq {"native", "total", "syncedAt"} /\ Changed(w) \subseteq Columns(w)
  BY DEF Columns, Changed, TypeOK, Kinds
<1>3. \A c \in {"native", "total", "syncedAt"} :
         Written(w)[c] = IF c \in Changed(w) THEN got[w][c] ELSE row[c]
  BY <1>1 DEF Written
<1>4. Written(w) \in Rows
  BY <1>1 DEF Written, Rows
<1>5. Changed(w) = {} => Written(w) = row
  BY <1>1 DEF Written, Rows
<1> QED  BY <1>2, <1>3, <1>4, <1>5

-----------------------------------------------------------------------------
(* The invariant.                                                          *)

LEMMA InvInit == Init => Inv
BY Constants DEF Init, Inv, TypeOK, ClockInv, CopyInv, Kinds, Pcs, Changed

\* What an end of a writer leaves of the types.
LEMMA EndsTyped ==
  ASSUME TypeOK, NEW w \in Writers, Close(w), row' \in Rows
  PROVE  /\ pc' \in [Writers -> Pcs] /\ kind' \in [Writers -> Kinds]
         /\ loaded' \in [Writers -> Rows] /\ got' \in [Writers -> Rows]
         /\ pc'[w] = "idle" /\ loaded'[w].syncedAt = 0 /\ got'[w].syncedAt = 0
         /\ \A v \in Writers \ {w} :
              /\ pc'[v] = pc[v] /\ kind'[v] = kind[v] /\ loaded'[v] = loaded[v] /\ got'[v] = got[v]
              /\ Changed(v)' = Changed(v)
BY Constants DEF TypeOK, Close, Goto, Pcs, Kinds, Changed, Columns

\* A writer moves on before its write: the others and the tables stay as they are.
Advances(w, to) ==
  /\ pc[w] # "commit" /\ pc' = [pc EXCEPT ![w] = to] /\ UNCHANGED <<block, dbVars>>
  /\ kind' \in [Writers -> Kinds] /\ overtaken' \in [Writers -> BOOLEAN]
  /\ loaded' \in [Writers -> Rows] /\ got' \in [Writers -> Rows]
  /\ clock' \in Nat /\ clock <= clock' /\ clock' <= MaxClock
  /\ \A v \in Writers \ {w} :
       /\ kind'[v] = kind[v] /\ overtaken'[v] = overtaken[v]
       /\ loaded'[v] = loaded[v] /\ got'[v] = got[v]
  /\ loaded'[w].syncedAt <= clock' /\ got'[w].syncedAt <= clock'
  /\ to = "write" => loaded'[w].syncedAt < got'[w].syncedAt
  /\ ~overtaken'[w] => loaded'[w] = row

LEMMA AdvancesInv ==
  ASSUME Inv, NEW w \in Writers, NEW to \in Pcs \ {"commit"}, Advances(w, to)
  PROVE  Inv'
<1> USE DEF Inv, Advances, dbVars
<1>1. ASSUME NEW v \in Writers \ {w} PROVE Changed(v)' = Changed(v) /\ pc'[v] = pc[v]
  <2>1. pc'[v] = pc[v]
    BY DEF TypeOK
  <2>2. kind'[v] = kind[v] /\ loaded'[v] = loaded[v] /\ got'[v] = got[v]
    OBVIOUS
  <2>3. Columns(v)' = Columns(v)
    BY <2>2, Zenon DEF Columns
  <2>4. Changed(v)' = Changed(v)
    BY <2>2, <2>3 DEF Changed
  <2> QED  BY <2>1, <2>4
<1>2. pc' \in [Writers -> Pcs] /\ pc'[w] = to
  BY DEF TypeOK
<1>3. TypeOK'
  BY <1>1, <1>2, Constants DEF TypeOK
<1>4. /\ row.syncedAt \in Nat
      /\ \A v \in Writers : loaded[v].syncedAt \in Nat /\ got[v].syncedAt \in Nat
      /\ clock \in Nat
  BY Constants DEF TypeOK, Rows
<1>5. ClockInv'
  BY <1>1, <1>2, <1>4 DEF ClockInv
<1>6. CopyInv'
  BY <1>1, <1>2 DEF CopyInv
<1> QED  BY <1>3, <1>5, <1>6

LEMMA InvStep == Inv /\ [Next]_vars => Inv'
<1> SUFFICES ASSUME Inv, [Next]_vars PROVE Inv'
  OBVIOUS
<1> USE DEF Inv
<1>1. ASSUME NEW w \in Writers, NEW k \in Kinds, Load(w, k) PROVE Inv'
  <2>1. Advances(w, "balance")
    BY <1>1, Constants DEF Load, Selected, Goto, Advances, TypeOK, ClockInv
  <2> QED  BY <2>1, AdvancesInv DEF Pcs
<1>2. ASSUME NEW w \in Writers, Step(w) \/ Fail(w) PROVE Inv'
  <2>1. CASE FetchBalance(w)
    <3>1. Native[block] \in Nat
      BY SnapshotsAssumption DEF SnapshotsAssumption, TypeOK
    <3>2. [got[w] EXCEPT !.native = Native[block]] \in Rows
      BY <3>1 DEF TypeOK, Rows
    <3>3. got' \in [Writers -> Rows] /\ got'[w].syncedAt = got[w].syncedAt
      BY <2>1, <3>2 DEF FetchBalance, TypeOK, Rows
    <3>4. Advances(w, IF kind[w] = "sync" THEN "done" ELSE "holdings")
      BY <2>1, <3>3, Constants DEF FetchBalance, Goto, Advances, TypeOK, ClockInv, CopyInv
    <3> QED  BY <3>4, AdvancesInv DEF Pcs
  <2>2. CASE FetchHoldings(w)
    <3>1. Price * got[w].native + Tokens[block] \in Nat
      <4>1. Price \in Nat /\ Tokens[block] \in Nat /\ got[w].native \in Nat
        BY SnapshotsAssumption DEF SnapshotsAssumption, TypeOK, Rows
      <4> QED  BY <4>1
    <3>2. [got[w] EXCEPT !.total = Price * got[w].native + Tokens[block]] \in Rows
      BY <3>1 DEF TypeOK, Rows, Totals
    <3>3. got' \in [Writers -> Rows] /\ got'[w].syncedAt = got[w].syncedAt
      BY <2>2, <3>2 DEF FetchHoldings, TypeOK, Rows
    <3>4. Advances(w, "done")
      BY <2>2, <3>3, Constants DEF FetchHoldings, Goto, Advances, TypeOK, ClockInv, CopyInv
    <3> QED  BY <3>4, AdvancesInv DEF Pcs
  <2>3. CASE Stamp(w)
    <3>1. clock + 1 \in 0..MaxClock /\ clock \in Nat
      BY <2>3, Constants DEF Stamp, TypeOK
    <3>2. [got[w] EXCEPT !.syncedAt = clock + 1] \in Rows
      BY <3>1 DEF TypeOK, Rows
    <3>3. got' \in [Writers -> Rows] /\ got'[w].syncedAt = clock + 1
      BY <2>3, <3>2 DEF Stamp, TypeOK, Rows
    <3>4. loaded[w].syncedAt \in Nat /\ loaded[w].syncedAt < clock + 1
      BY <3>1, Constants DEF TypeOK, Rows, ClockInv
    <3>5. Advances(w, "write")
      BY <2>3, <3>1, <3>3, <3>4, Constants DEF Stamp, Goto, Advances, TypeOK, CopyInv
    <3> QED  BY <3>5, AdvancesInv DEF Pcs
  <2>4. CASE Flush(w)
    <3>1. /\ rowLock' = IF Changed(w) = {} THEN rowLock ELSE w
          /\ pc[w] = "write" /\ pc' = [pc EXCEPT ![w] = "commit"]
          /\ RowFree(w)
          /\ UNCHANGED <<block, clock, wallet, row, snapshots, kind, loaded, got, overtaken>>
      BY <2>4 DEF Flush, Goto
    <3>2. \A v \in Writers : Changed(v)' = Changed(v)
      BY <3>1, Zenon DEF Changed, Columns
    <3>3. TypeOK'
      BY <3>1, <3>2, Constants DEF TypeOK, RowFree, Pcs
    <3>4. ClockInv' /\ CopyInv'
      BY <3>1 DEF TypeOK, ClockInv, CopyInv
    <3> QED  BY <3>3, <3>4
  <2>5. CASE Commit(w)
    <3>1. /\ row' = Written(w) /\ snapshots' = snapshots \cup Snapshot(w)
          /\ rowLock' = IF rowLock = w THEN NoOne ELSE rowLock
          /\ overtaken' = [v \in Writers |-> v # w /\ (overtaken[v] \/ Changed(w) # {})]
          /\ Close(w) /\ UNCHANGED <<block, clock, wallet>> /\ pc[w] = "commit"
      BY <2>5 DEF Commit, FreeRow
    <3>2. row' \in Rows
      BY <3>1, WrittenRow
    <3>3. Snapshot(w) \subseteq [native : Nat, total : Totals, at : 0..MaxClock]
      BY DEF Snapshot, TypeOK, Rows
    <3>4. overtaken' \in [Writers -> BOOLEAN]
      <4>1. \A v \in Writers : (v # w /\ (overtaken[v] \/ Changed(w) # {})) \in BOOLEAN
        OBVIOUS
      <4> QED  BY <3>1, <4>1
    <3>5. TypeOK'
      BY <3>1, <3>2, <3>3, <3>4, EndsTyped, Constants DEF TypeOK
    <3>6. ClockInv'
      <4>1. row'.syncedAt <= clock
        BY <3>1, WrittenRow DEF ClockInv
      <4>2. \A v \in Writers : loaded'[v].syncedAt <= clock /\ got'[v].syncedAt <= clock
        BY <3>1, <3>2, EndsTyped DEF ClockInv, TypeOK
      <4> QED  BY <3>1, <3>2, <4>1, <4>2, EndsTyped DEF ClockInv
    <3>7. CopyInv'
      <4> SUFFICES ASSUME NEW v \in Writers, pc'[v] # "idle", ~overtaken'[v]
                   PROVE  loaded'[v] = row'
        BY DEF CopyInv
      <4>1. v # w /\ ~overtaken[v] /\ Changed(w) = {}
        BY <3>1, <3>2, EndsTyped
      <4> QED  BY <3>1, <3>2, <4>1, EndsTyped, WrittenRow DEF CopyInv
    <3> QED  BY <3>5, <3>6, <3>7
  <2>6. CASE Refused(w)
    BY <2>6, EndsTyped, Constants DEF Refused, dbVars, TypeOK, ClockInv, CopyInv
  <2>7. CASE Fail(w)
    BY <2>7, EndsTyped, Constants DEF Fail, FreeRow, dbVars, TypeOK, ClockInv, CopyInv
  <2> QED  BY <1>2, <2>1, <2>2, <2>3, <2>4, <2>5, <2>6, <2>7 DEF Step
<1>3. ASSUME UNCHANGED <<clock, row, rowLock, writerVars>>,
             block' \in 0..MaxBlock, wallet' \in {"active", "inactive", "deleted"},
             snapshots' \subseteq snapshots
      PROVE  Inv'
  BY <1>3 DEF writerVars, TypeOK, ClockInv, CopyInv, Changed, Columns
<1>4. CASE NewBlock
  BY <1>3, <1>4, Constants DEF NewBlock, dbVars, TypeOK
<1>5. CASE PatchWallet \/ DeleteWallet
  BY <1>3, <1>5 DEF PatchWallet, DeleteWallet, TypeOK
<1>6. CASE UNCHANGED vars
  BY <1>3, <1>6 DEF vars, dbVars, TypeOK
<1> QED  BY <1>1, <1>2, <1>4, <1>5, <1>6 DEF Next

LEMMA InvHolds == Spec => []Inv
BY InvInit, InvStep, PTL DEF Spec

\* Every variable has its type.
THEOREM TypeCorrect == Spec => []TypeOK
BY InvHolds, PTL DEF Inv

-----------------------------------------------------------------------------
(* Properties.                                                             *)

LEMMA HeldStep == Inv /\ RowHeld /\ [Next]_vars => RowHeld'
<1> SUFFICES ASSUME Inv, RowHeld, [Next]_vars PROVE RowHeld'
  OBVIOUS
<1>0. Inv'
  BY InvStep
<1> SUFFICES ASSUME NEW w \in Writers, pc'[w] = "commit" PROVE wallet' # "deleted"
  BY <1>0 DEF RowHeld, Inv, TypeOK
<1> USE DEF Inv
<1>1. ASSUME NEW v \in Writers, (\E k \in Kinds : Load(v, k)) \/ Step(v) \/ Fail(v)
      PROVE  wallet' # "deleted"
  <2>1. CASE Flush(v)
    BY <2>1 DEF Flush
  <2>2. CASE Commit(v)
    BY <2>2 DEF Commit, RowHeld
  <2>3. CASE (\E k \in Kinds : Load(v, k)) \/ FetchBalance(v) \/ FetchHoldings(v) \/ Stamp(v)
    BY <2>3 DEF Load, FetchBalance, FetchHoldings, Stamp, Goto, dbVars, RowHeld, TypeOK
  <2>4. CASE Refused(v) \/ Fail(v)
    BY <2>4 DEF Refused, Fail, Close, Goto, dbVars, RowHeld, TypeOK
  <2> QED  BY <1>1, <2>1, <2>2, <2>3, <2>4 DEF Step
<1>2. CASE NewBlock \/ PatchWallet
  BY <1>2 DEF NewBlock, PatchWallet, dbVars, writerVars, RowHeld
<1>3. CASE DeleteWallet
  <2>1. pc[w] = "commit" /\ kind[w] = "sync" /\ rowLock = NoOne
    BY <1>3 DEF DeleteWallet, Referenced, writerVars, TypeOK
  <2>2. "syncedAt" \in Changed(w)
    BY <2>1, Constants DEF Changed, Columns, ClockInv, TypeOK, Rows
  <2>3. rowLock = w
    BY <2>1, <2>2 DEF TypeOK
  <2> QED  BY <2>1, <2>3, Constants
<1>4. CASE UNCHANGED vars
  BY <1>4 DEF vars, dbVars, writerVars, RowHeld
<1> QED  BY <1>1, <1>2, <1>3, <1>4 DEF Next

\* Until it commits, a writer has its row for itself, and its wallet does not go.
THEOREM RowHeldAlways == Spec => []RowHeld
<1>1. Init => RowHeld
  BY DEF Init, RowHeld
<1> QED  BY <1>1, HeldStep, InvHolds, PTL DEF Spec

LEMMA TotalStep == Inv /\ TotalHasSnapshot /\ [Next]_vars => TotalHasSnapshot'
<1> SUFFICES ASSUME Inv, TotalHasSnapshot, [Next]_vars PROVE TotalHasSnapshot'
  OBVIOUS
<1> USE DEF Inv, TotalHasSnapshot
<1>1. CASE wallet' = "deleted" \/ UNCHANGED <<wallet, row, snapshots>>
  BY <1>1
<1>2. ASSUME NEW w \in Writers, Commit(w) PROVE TotalHasSnapshot'
  <2>1. /\ row' = Written(w) /\ snapshots' = snapshots \cup Snapshot(w) /\ wallet' = wallet
    BY <1>2 DEF Commit
  <2>2. CASE "total" \in Changed(w)
    <3>1. kind[w] # "sync" /\ row'.total = got[w].total
      BY <2>1, <2>2, WrittenRow DEF Columns
    <3>2. [native |-> got[w].native, total |-> got[w].total, at |-> got[w].syncedAt] \in snapshots'
      BY <2>1, <3>1 DEF Snapshot
    <3> QED  BY <3>1, <3>2
  <2>3. CASE "total" \notin Changed(w)
    BY <2>1, <2>3, WrittenRow
  <2> QED  BY <2>2, <2>3
<1>3. CASE PatchWallet
  BY <1>3 DEF PatchWallet
<1> QED
  BY <1>1, <1>2, <1>3
  DEF Next, Load, Step, FetchBalance, FetchHoldings, Stamp, Flush, Refused, Fail, NewBlock,
      DeleteWallet, vars, dbVars

\* The row never shows a total of which there is no snapshot.
THEOREM TotalHasSnapshotAlways == Spec => []TotalHasSnapshot
<1>1. Init => TotalHasSnapshot
  BY DEF Init, TotalHasSnapshot
<1> QED  BY <1>1, TotalStep, InvHolds, PTL DEF Spec

\* The row changes only when someone who has updated it commits.
LEMMA RowWriter ==
  ASSUME Inv, [Next]_vars, row' # row
  PROVE  \E w \in Writers : Commit(w) /\ rowLock = w
<1>1. PICK w \in Writers : Commit(w)
  BY DEF Next, Load, Step, FetchBalance, FetchHoldings, Stamp, Flush, Refused, Fail, NewBlock,
         PatchWallet, DeleteWallet, vars, dbVars
<1>2. Changed(w) # {}
  BY <1>1, WrittenRow DEF Commit, Inv
<1> QED  BY <1>1, <1>2 DEF Commit, Inv, TypeOK

\* A writer that was not overtaken leaves all its columns as it has fetched them.
THEOREM AloneWritesAllAlways == Spec => AloneWritesAll
<1>1. ASSUME Inv, [Next]_vars, row' # row,
             NEW w \in Writers, pc[w] = "commit", ~overtaken[w], rowLock = w, NEW c \in Columns(w)
      PROVE  row'[c] = got[w][c]
  <2>1. Commit(w)
    BY <1>1, RowWriter
  <2>2. row = loaded[w]
    BY <1>1 DEF Inv, CopyInv
  <2>3. row'[c] = IF c \in Changed(w) THEN got[w][c] ELSE row[c]
    BY <2>1, <1>1, WrittenRow DEF Commit, Inv
  <2> QED  BY <1>1, <2>2, <2>3 DEF Changed
<1>2. Inv /\ [Next]_vars =>
        [\A w \in Writers :
           pc[w] = "commit" /\ pc'[w] = "idle" /\ row' # row /\ ~overtaken[w] /\ rowLock = w =>
             \A c \in Columns(w) : row'[c] = got[w][c]]_vars
  BY <1>1
<1> QED  BY <1>2, InvHolds, PTL DEF Spec, AloneWritesAll

\* last_synced_at goes back only when its writer was overtaken.
THEOREM SyncedAtForwardAlways == Spec => SyncedAtForward
<1>1. ASSUME Inv, [Next]_vars, row'.syncedAt < row.syncedAt
      PROVE  \E w \in Writers : rowLock = w /\ overtaken[w]
  <2>1. row' # row
    BY <1>1, Constants DEF Inv, TypeOK, Rows
  <2>2. PICK w \in Writers : Commit(w) /\ rowLock = w
    BY <1>1, <2>1, RowWriter
  <2>3. CASE ~overtaken[w]
    <3>1. row = loaded[w] /\ loaded[w].syncedAt < got[w].syncedAt
      BY <1>1, <2>2, <2>3 DEF Inv, CopyInv, ClockInv, Commit
    <3>2. row'.syncedAt = got[w].syncedAt \/ row'.syncedAt = row.syncedAt
      BY <1>1, <2>2, WrittenRow DEF Commit, Inv
    <3>3. row.syncedAt \in Nat /\ got[w].syncedAt \in Nat
      BY <1>1, Constants DEF Inv, TypeOK, Rows
    <3> QED  BY <1>1, <3>1, <3>2, <3>3
  <2> QED  BY <2>2, <2>3
<1>2. Inv /\ [Next]_vars =>
        [row'.syncedAt < row.syncedAt => \E w \in Writers : rowLock = w /\ overtaken[w]]_vars
  BY <1>1
<1> QED  BY <1>2, InvHolds, PTL DEF Spec, SyncedAtForward

-----------------------------------------------------------------------------
(* Holdings.  Sums are compared by what they add up: two sums of the same  *)
(* function are the same.                                                  *)

\* The history consists of transfers.
HistoryOK == history \in Seq(Transfers)

\* The page is the beginning of the history.
LEMMA NewestIsPrefix ==
  ASSUME HistoryOK
  PROVE  /\ DOMAIN Newest = {i \in DOMAIN history : i <= Page}
         /\ \A i \in DOMAIN Newest : Newest[i] = history[i]
<1> DEFINE n == Min({Page, Len(history)})
<1>1. Page \in Nat /\ Len(history) \in Nat /\ DOMAIN history = 1..Len(history)
  BY HoldingsAssumption DEF HistoryOK
<1>2. n = IF Page <= Len(history) THEN Page ELSE Len(history)
  <2>1. /\ n \in {Page, Len(history)} /\ \A y \in {Page, Len(history)} : n <= y
    <3> DEFINE Least(x) == \A y \in {Page, Len(history)} : x <= y
    <3>1. \E x \in {Page, Len(history)} : Least(x)
      BY <1>1
    <3>2. n = CHOOSE x \in {Page, Len(history)} : Least(x)
      BY DEF Min
    <3> HIDE DEF Least, n
    <3>3. n \in {Page, Len(history)} /\ Least(n)
      BY <3>1, <3>2, Zenon
    <3> QED
      BY <3>3 DEF Least
  <2> QED
    BY <1>1, <2>1
<1>3. n \in Nat /\ n <= Len(history) /\ n <= Page
      /\ \A i \in Nat : i <= Page /\ i <= Len(history) => i <= n
  BY <1>1, <1>2
<1>4. Newest = SubSeq(history, 1, n)
  BY DEF Newest
<1> HIDE DEF n
<1>5. DOMAIN Newest = 1..n /\ \A i \in 1..n : Newest[i] = history[i]
  BY <1>1, <1>3, <1>4 DEF HistoryOK
<1> QED
  BY <1>1, <1>3, <1>5

\* What the page adds up is what the chain adds up, where the page shows everything
\* and nothing was sent to oneself.
LEMMA CoveredAmount ==
  ASSUME HistoryOK, NEW c \in Contracts, Covered(c)
  PROVE  PerToken[c] = Balance(c)
<1> DEFINE page == [i \in Of(c, Newest) |-> Credit(Newest[i])]
           chain == [i \in Of(c, history) |-> Change(history[i])]
<1>1. Of(c, Newest) = Of(c, history)
  BY NewestIsPrefix DEF Covered, Of
<1>2. \A i \in Of(c, history) : Newest[i] = history[i] /\ history[i] \in Transfers /\ history[i].dir # "self"
  BY <1>1, NewestIsPrefix DEF Covered, Of, HistoryOK
<1>3. \A t \in Transfers : t.dir # "self" => Credit(t) = Change(t)
  BY DEF Transfers, Credit, Change
<1>4. page = chain
  BY <1>1, <1>2, <1>3
<1>5. PerToken[c] = SumFunction(page) /\ Balance(c) = SumFunction(chain)
  BY DEF PerToken, Balance
<1> HIDE DEF page, chain
<1> QED
  BY <1>4, <1>5

\* HoldingsShown, for every history of transfers and every page.
THEOREM HoldingsShownAlways == HoldingsSpec => []HoldingsShown
<1>1. HoldingsInit => HistoryOK
  BY DEF HoldingsInit, HistoryOK
<1>2. HistoryOK /\ [HoldingsNext]_history => HistoryOK'
  <2> SUFFICES ASSUME HistoryOK, NEW t \in Transfers, history' = <<t>> \o history
               PROVE  HistoryOK'
    BY DEF HistoryOK, HoldingsNext, Transfer
  <2>1. <<t>> \in Seq(Transfers)
    OBVIOUS
  <2> QED
    BY <2>1 DEF HistoryOK
<1>3. HistoryOK => HoldingsShown
  <2> SUFFICES ASSUME HistoryOK, NEW c \in Contracts, Covered(c)
               PROVE  /\ c \in fetch_token_holdings <=> Balance(c) > 0
                      /\ c \in fetch_token_holdings => PerToken[c] = Balance(c)
    BY DEF HoldingsShown
  <2>1. PerToken[c] = Balance(c)
    BY CoveredAmount
  <2> QED
    BY <2>1 DEF fetch_token_holdings
<1> QED
  BY <1>1, <1>2, <1>3, PTL DEF HoldingsSpec

-----------------------------------------------------------------------------
(* Waiting.  WriterEnds rests on this.                                     *)

\* The UPDATE of a writer waits for the row.
Waits(w) == pc[w] = "write" /\ wallet # "deleted" /\ ~RowFree(w)

\* When Step(w) is enabled.
CanStep(w) == pc[w] # "idle" /\ ~Waits(w) /\ (pc[w] = "done" => clock < MaxClock)

\* Who waits is waiting for a writer that has written and only commits.
NobodyStuck ==
  \A w \in Writers : Waits(w) => rowLock \in Writers \ {w} /\ pc[rowLock] = "commit" /\ CanStep(rowLock)

\* post_snapshot (api/v1/wallets.py) and the tasks (worker/tasks.py): who waits for the
\* wallet's row waits for one that holds it and goes on, never in a circle.
THEOREM NobodyStuckEver == Spec => []NobodyStuck
<1>1. TypeOK => NobodyStuck
  <2> SUFFICES ASSUME TypeOK, NEW w \in Writers, Waits(w)
               PROVE  rowLock \in Writers \ {w} /\ pc[rowLock] = "commit" /\ CanStep(rowLock)
    BY DEF NobodyStuck
  <2>1. rowLock \in Writers /\ pc[w] = "write"
    BY DEF Waits, RowFree, TypeOK
  <2>2. pc[rowLock] = "commit"
    BY <2>1 DEF TypeOK
  <2> QED
    BY <2>1, <2>2 DEF CanStep, Waits
<1> QED
  BY <1>1, TypeCorrect, PTL

\* How many steps a writer may still take itself.
Work(w) ==
  CASE pc[w] = "idle"     -> 0
    [] pc[w] = "commit"   -> 1
    [] pc[w] = "write"    -> 2
    [] pc[w] = "done"     -> 3
    [] pc[w] = "holdings" -> 4
    [] pc[w] = "balance"  -> 5

\* Every step of its own takes it nearer to its end, and no other one takes it back.
WorkShrinks ==
  [][\A w \in Writers :
       /\ Step(w) => Work(w)' < Work(w)
       /\ pc[w] # "idle" => Work(w)' <= Work(w)]_vars

\* A writer that takes a step, or fails, goes on or ends; others leave it where it is.
LEMMA PcMoves ==
  ASSUME TypeOK, NEW w \in Writers, [Next]_vars, pc[w] # "idle"
  PROVE  /\ Work(w)' <= Work(w)
         /\ Step(w) => Work(w)' < Work(w)
<1> USE DEF TypeOK, Goto
<1>1. ASSUME NEW v \in Writers \ {w}, (\E k \in Kinds : Load(v, k)) \/ Step(v) \/ Fail(v)
      PROVE  pc'[w] = pc[w]
  BY <1>1 DEF Load, Step, FetchBalance, FetchHoldings, Stamp, Flush, Commit, Refused, Fail, Close
<1>2. CASE NewBlock \/ PatchWallet \/ DeleteWallet \/ UNCHANGED vars
  <2>1. pc' = pc
    BY <1>2 DEF NewBlock, PatchWallet, DeleteWallet, vars, writerVars
  <2>2. ~Step(w)
    <3>1. Step(w) => pc'[w] # pc[w]
      BY DEF Step, FetchBalance, FetchHoldings, Stamp, Flush, Commit, Refused, Close
    <3> QED
      BY <2>1, <3>1
  <2>3. Work(w)' = Work(w) /\ Work(w) \in Nat
    BY <2>1 DEF Work, Pcs
  <2> QED
    BY <2>2, <2>3
<1>3. ASSUME Step(w) \/ Fail(w)
      PROVE  Work(w)' < Work(w) /\ Work(w)' \in Nat /\ Work(w) \in Nat
  <2>1. \/ pc'[w] = "idle"
        \/ pc[w] = "balance" /\ pc'[w] \in {"done", "holdings"}
        \/ pc[w] = "holdings" /\ pc'[w] = "done"
        \/ pc[w] = "done" /\ pc'[w] = "write"
        \/ pc[w] = "write" /\ pc'[w] = "commit"
    BY <1>3 DEF Step, FetchBalance, FetchHoldings, Stamp, Flush, Commit, Refused, Fail, Close
  <2>2. pc[w] \in Pcs
    OBVIOUS
  <2> QED
    BY <2>1, <2>2 DEF Work, Pcs
<1>4. ASSUME pc'[w] = pc[w], ~Step(w)
      PROVE  Work(w)' = Work(w) /\ Work(w) \in Nat
  BY <1>4 DEF Work, Pcs
<1> HIDE DEF TypeOK
<1>5. CASE Step(w) \/ Fail(w)
  BY <1>3, <1>5
<1>6. ~ \E k \in Kinds : Load(w, k)
  BY DEF Load
<1>7. CASE \E v \in Writers : (\E k \in Kinds : Load(v, k)) \/ Step(v) \/ Fail(v)
  BY <1>1, <1>4, <1>5, <1>6, <1>7
<1> QED
  BY <1>2, <1>7 DEF Next

\* WriterEnds rests on it: a writer takes at most five steps, and the others' writes and
\* the chain send it back to none of them.
THEOREM WorkShrinksAlways == Spec => WorkShrinks
<1> DEFINE Shrinks == \A w \in Writers : /\ Step(w) => Work(w)' < Work(w)
                                         /\ pc[w] # "idle" => Work(w)' <= Work(w)
<1>1. TypeOK /\ [Next]_vars => [Shrinks]_vars
  <2> SUFFICES ASSUME TypeOK, [Next]_vars, NEW w \in Writers
               PROVE  /\ Step(w) => Work(w)' < Work(w)
                      /\ pc[w] # "idle" => Work(w)' <= Work(w)
    OBVIOUS
  <2>1. Step(w) => pc[w] # "idle"
    BY DEF Step, FetchBalance, FetchHoldings, Stamp, Flush, Commit, Refused
  <2> QED
    BY <2>1, PcMoves
<1> QED
  BY <1>1, TypeCorrect, PTL DEF Spec, WorkShrinks
=============================================================================
