----------------------------- MODULE WalletSync -----------------------------
(***************************************************************************)
(* sync_wallet_task (apps/worker/worker/tasks.py), run by several workers  *)
(* at once on ONE wallet, beside the requests and the task that take its   *)
(* snapshots and the API requests that change the wallet and its alerts    *)
(* (api/v1/wallets.py, api/v1/alerts.py), over the two stores they share:  *)
(*                                                                         *)
(*   - PostgreSQL, READ COMMITTED.  The variables wallet, alerts, txs and  *)
(*     deliveries are the committed rows; newTx[w] and newDel[w] are what  *)
(*     the open transaction of w has flushed, invisible to the others.     *)
(*     Every sync assigns last_synced_at, so the autoflush at its first    *)
(*     query is an UPDATE of the wallet: rowLock is the row lock that      *)
(*     UPDATE takes and the end of the transaction frees.  What the        *)
(*     columns of the row hold, which syncs and snapshots both write, is   *)
(*     in Snapshots.                                                       *)
(*   - Redis.  lock says whether the key wallet_lock:<id> exists.  Its     *)
(*     value is the same for every worker, so nothing tells who set it.    *)
(*                                                                         *)
(* Every query of the task filters by wallet_id: wallets do not interact.  *)
(* A worker stands for one running task or snapshot request, in any        *)
(* process.                                                                *)
(***************************************************************************)
EXTENDS AlertRules

CONSTANTS
  Workers,
  NoOne,     \* nobody holds the row lock
  MaxSent,   \* bound: sends of one notification are counted up to here
  Faults     \* the faults the environment may inject

FaultKinds == {"crash", "db_error", "redis_error", "slow_sync", "send_fails",
               "delete_alert", "delete_wallet"}

ASSUME SyncAssumption ==
  /\ NoOne \notin Workers
  /\ MaxSent \in Nat
  /\ Faults \subseteq FaultKinds

VARIABLES
  chain,       \* height of the chain
  wallet,      \* "active", "inactive" or "deleted"
  alerts,      \* [Alerts -> "none", "active", "paused" or "deleted"]
  txs,         \* committed transactions
  deliveries,  \* committed alert_deliveries, <<alert, transaction>>
  lock,        \* the Redis key exists
  rowLock,     \* the worker whose transaction has updated the wallet
  pc,          \* where each worker stands
  seen,        \* height of the balance each sync fetched
  page,        \* height of the page each sync fetched
  todo,        \* transactions of the page still to be processed
  pending,     \* alerts still to fire for the newest one of todo
  newTx,       \* uncommitted transactions
  newDel,      \* uncommitted deliveries
  \* History, read by properties only:
  sent,        \* how often each notification was sent
  undone,      \* sent deliveries that a rollback or a crash has discarded
  refused,     \* notifications that Telegram did not take
  watched,     \* alerts active ever since the row lock was taken
  lastSync     \* heights of balance and page of the sync that committed last

dbVars      == <<wallet, alerts, txs, deliveries, lastSync>>
sessionVars == <<seen, page, todo, pending>>
writeVars   == <<rowLock, newTx, newDel, undone>>
msgVars     == <<sent, refused, watched>>
vars == <<chain, dbVars, lock, pc, sessionVars, writeVars, msgVars>>

Pcs == {"idle", "lock", "balance", "transactions", "update", "next", "evaluate",
        "fire", "release", "commit", "unwind", "rollback", "snapshot", "snapped"}

\* The tables that this module implements, read as the ledger's.
Ledger == INSTANCE SyncLedger WITH
            wallet <- wallet, alerts <- alerts, txs <- txs,
            deliveries <- deliveries, watched <- watched

Delivery == Alerts \X Hash
Active   == {a \in Alerts : alerts[a] = "active"}

Goto(w, label) == pc' = [pc EXCEPT ![w] = label]

Init ==
  /\ chain = 0
  /\ wallet = "active"
  /\ alerts = [a \in Alerts |-> "none"]
  /\ txs = {} /\ deliveries = {}
  /\ lock = FALSE /\ rowLock = NoOne
  /\ pc = [w \in Workers |-> "idle"]
  /\ seen = [w \in Workers |-> 0]
  /\ page = [w \in Workers |-> 0]
  /\ todo = [w \in Workers |-> {}]
  /\ pending = [w \in Workers |-> {}]
  /\ newTx = [w \in Workers |-> {}]
  /\ newDel = [w \in Workers |-> {}]
  /\ sent = [d \in Delivery |-> 0]
  /\ undone = {} /\ refused = {} /\ watched = {}
  /\ lastSync = [balance |-> 0, page |-> 0]

-----------------------------------------------------------------------------
(* The task: load the wallet, take the Redis lock, ask the provider.       *)

\* A wallet that is missing or inactive is skipped, and nothing changes.
Start(w) ==
  /\ pc[w] = "idle"
  /\ wallet = "active"
  /\ Goto(w, "lock")
  /\ UNCHANGED <<chain, dbVars, lock, sessionVars, writeVars, msgVars>>

\* Mutant of FreeRow: the connection goes back with its row lock.
KeepRow(w) == rowLock' = rowLock

FreeRow(w) == rowLock' = IF rowLock = w THEN NoOne ELSE rowLock

\* The session of w is closed: what it held in memory and in its open
\* transaction is gone.
CloseSession(w) ==
  /\ Goto(w, "idle")
  /\ seen' = [seen EXCEPT ![w] = 0]
  /\ page' = [page EXCEPT ![w] = 0]
  /\ todo' = [todo EXCEPT ![w] = {}]
  /\ pending' = [pending EXCEPT ![w] = {}]
  /\ newTx' = [newTx EXCEPT ![w] = {}]
  /\ newDel' = [newDel EXCEPT ![w] = {}]
  /\ FreeRow(w)

\* Mutant of SetNx: SET without NX.
SetAnyway == TRUE

SetNx == ~lock

AcquireLock(w) ==
  /\ pc[w] = "lock"
  /\ SetNx
  /\ lock' = TRUE
  /\ Goto(w, "balance")
  /\ UNCHANGED <<chain, dbVars, sessionVars, writeVars, msgVars>>

LockedOut(w) ==
  /\ pc[w] = "lock"
  /\ ~SetNx
  /\ CloseSession(w)
  /\ UNCHANGED <<chain, dbVars, lock, undone, msgVars>>

\* Redis raises, whether or not it applied the SET: the task goes on.
LockUnavailable(w) ==
  /\ "redis_error" \in Faults
  /\ pc[w] = "lock"
  /\ lock' \in {lock, TRUE}
  /\ Goto(w, "balance")
  /\ UNCHANGED <<chain, dbVars, sessionVars, writeVars, msgVars>>

FetchBalance(w) ==
  /\ pc[w] = "balance"
  /\ seen' = [seen EXCEPT ![w] = chain]
  /\ Goto(w, "transactions")
  /\ UNCHANGED <<chain, dbVars, lock, page, todo, pending, writeVars, msgVars>>

FetchTransactions(w) ==
  /\ pc[w] = "transactions"
  /\ page' = [page EXCEPT ![w] = chain]
  /\ todo' = [todo EXCEPT ![w] = Recent(chain)]
  /\ Goto(w, "update")
  /\ UNCHANGED <<chain, dbVars, lock, seen, pending, writeVars, msgVars>>

\* Permanent and retryable provider errors alike: the task returns early, and
\* nothing retries it.
FetchFails(w) ==
  /\ pc[w] \in {"balance", "transactions"}
  /\ Goto(w, "release")
  /\ UNCHANGED <<chain, dbVars, lock, sessionVars, writeVars, msgVars>>

-----------------------------------------------------------------------------
(* The database transaction.                                               *)

\* Mutant of RowFree: nobody waits for the row, as if the UPDATE came last.
RowNotLocked == TRUE

\* An UPDATE or DELETE of the wallet need not wait for another transaction.
RowFree == rowLock = NoOne

\* The autoflush of last_native_amount and last_synced_at before the first
\* query.
UpdateWallet(w) ==
  /\ pc[w] = "update"
  /\ RowFree
  /\ wallet # "deleted"
  /\ rowLock' = w
  /\ watched' = Active
  /\ Goto(w, "next")
  /\ UNCHANGED <<chain, dbVars, lock, sessionVars, newTx, newDel, undone, sent, refused>>

\* The UPDATE matches no row: StaleDataError.
WalletGone(w) ==
  /\ pc[w] = "update"
  /\ wallet = "deleted"
  /\ Goto(w, "unwind")
  /\ UNCHANGED <<chain, dbVars, lock, sessionVars, writeVars, msgVars>>

\* Mutant of Known: no SELECT before the INSERT.
NeverKnown(w, h) == FALSE

Known(w, h) == h \in txs \cup newTx[w]

SkipKnown(w) ==
  /\ pc[w] = "next"
  /\ todo[w] # {} /\ Known(w, Newest(todo[w]))
  /\ todo' = [todo EXCEPT ![w] = @ \ {Newest(@)}]
  /\ UNCHANGED <<chain, dbVars, lock, pc, seen, page, pending, writeVars, msgVars>>

InsertTransaction(w) ==
  /\ pc[w] = "next"
  /\ todo[w] # {} /\ ~Known(w, Newest(todo[w]))
  /\ newTx' = [newTx EXCEPT ![w] = @ \cup {Newest(todo[w])}]
  /\ Goto(w, "evaluate")
  /\ UNCHANGED <<chain, dbVars, lock, sessionVars, rowLock, newDel, undone, msgVars>>

\* The alerts that are active now, of which only those that fire do anything.
SelectAlerts(w) ==
  /\ pc[w] = "evaluate"
  /\ pending' = [pending EXCEPT ![w] = {a \in Active : Fires(a, Newest(todo[w]))}]
  /\ Goto(w, "fire")
  /\ UNCHANGED <<chain, dbVars, lock, seen, page, todo, writeVars, msgVars>>

Inserted(w) == {a \in pending[w] : <<a, Newest(todo[w])>> \in newDel[w]}

\* The signature holds the id of the transaction row just inserted, so the
\* SELECT before this INSERT never finds one.
InsertDelivery(w, a) ==
  /\ pc[w] = "fire"
  /\ a \in pending[w] /\ Inserted(w) = {}
  /\ alerts[a] # "deleted"
  /\ newDel' = [newDel EXCEPT ![w] = @ \cup {<<a, Newest(todo[w])>>}]
  /\ UNCHANGED <<chain, dbVars, lock, pc, sessionVars, rowLock, newTx, undone, msgVars>>

\* The alert was deleted after it was selected: foreign key violation.
AlertGone(w, a) ==
  /\ pc[w] = "fire"
  /\ a \in pending[w] /\ Inserted(w) = {}
  /\ alerts[a] = "deleted"
  /\ Goto(w, "unwind")
  /\ UNCHANGED <<chain, dbVars, lock, sessionVars, writeVars, msgVars>>

\* The message leaves while the delivery is still uncommitted.
Send(w, a) ==
  /\ pc[w] = "fire"
  /\ a \in Inserted(w)
  /\ sent' = [sent EXCEPT ![<<a, Newest(todo[w])>>] = IF @ < MaxSent THEN @ + 1 ELSE @]
  /\ pending' = [pending EXCEPT ![w] = @ \ {a}]
  /\ UNCHANGED <<chain, dbVars, lock, pc, seen, page, todo, writeVars, refused, watched>>

\* Telegram refuses or cannot be reached, which is logged, or no bot is configured, which
\* is not: the delivery stays.
SendFails(w, a) ==
  /\ "send_fails" \in Faults
  /\ pc[w] = "fire"
  /\ a \in Inserted(w)
  /\ refused' = refused \cup {<<a, Newest(todo[w])>>}
  /\ pending' = [pending EXCEPT ![w] = @ \ {a}]
  /\ UNCHANGED <<chain, dbVars, lock, pc, seen, page, todo, writeVars, sent, watched>>

\* Mutant of AlertsDone: the loop leaves out its last alert.
AlertsAlmostDone(w) == \A a, b \in pending[w] : a = b

AlertsDone(w) == pending[w] = {}

TransactionDone(w) ==
  /\ pc[w] = "fire"
  /\ AlertsDone(w)
  /\ todo' = [todo EXCEPT ![w] = @ \ {Newest(@)}]
  /\ Goto(w, "next")
  /\ UNCHANGED <<chain, dbVars, lock, seen, page, pending, writeVars, msgVars>>

PageDone(w) ==
  /\ pc[w] = "next"
  /\ todo[w] = {}
  /\ Goto(w, "release")
  /\ UNCHANGED <<chain, dbVars, lock, sessionVars, writeVars, msgVars>>

\* The connection fails in one of the queries.
QueryFails(w) ==
  /\ "db_error" \in Faults
  /\ pc[w] \in {"update", "next", "evaluate", "fire"}
  /\ Goto(w, "unwind")
  /\ UNCHANGED <<chain, dbVars, lock, sessionVars, writeVars, msgVars>>

-----------------------------------------------------------------------------
(* The end of the task.  The finally clause frees the Redis lock before    *)
(* session_scope commits or rolls back.                                    *)

\* Mutant of AfterRelease: the task returns and leaves its session open.
NeitherCommitsNorRollsBack(label) == "idle"

AfterRelease(label) == IF label = "release" THEN "commit" ELSE "rollback"

\* DEL, whoever set the key.
ReleaseLock(w) ==
  /\ pc[w] \in {"release", "unwind"}
  /\ lock' = FALSE
  /\ Goto(w, AfterRelease(pc[w]))
  /\ UNCHANGED <<chain, dbVars, sessionVars, writeVars, msgVars>>

ReleaseUnavailable(w) ==
  /\ "redis_error" \in Faults
  /\ pc[w] \in {"release", "unwind"}
  /\ Goto(w, AfterRelease(pc[w]))
  /\ UNCHANGED <<chain, dbVars, lock, sessionVars, writeVars, msgVars>>

Commit(w) ==
  /\ pc[w] = "commit"
  /\ IF rowLock = w
       THEN /\ txs' = txs \cup newTx[w]
            /\ deliveries' = deliveries \cup newDel[w]
            /\ lastSync' = [balance |-> seen[w], page |-> page[w]]
       ELSE UNCHANGED <<txs, deliveries, lastSync>>
  /\ CloseSession(w)
  /\ UNCHANGED <<chain, wallet, alerts, lock, undone, msgVars>>

Discard(w) ==
  /\ undone' = undone \cup {d \in newDel[w] : sent[d] > 0}
  /\ CloseSession(w)
  /\ UNCHANGED <<chain, dbVars, lock, msgVars>>

Rollback(w) == pc[w] = "rollback" /\ Discard(w)

CommitFails(w) == "db_error" \in Faults /\ pc[w] = "commit" /\ Discard(w)

\* The process dies: PostgreSQL drops its transaction, Redis keeps the key.
Crash(w) == "crash" \in Faults /\ pc[w] # "idle" /\ Discard(w)

-----------------------------------------------------------------------------
(* Snapshots: POST /wallets/{id}/snapshot and the task snapshot_wallet,    *)
(* which leaves out an inactive wallet.  They ask the provider and write   *)
(* the wallet's row without the Redis lock.  One whose provider fails, or  *)
(* which finds no column to change, meets none of the others.              *)

StartSnapshot(w) ==
  /\ pc[w] = "idle"
  /\ wallet # "deleted"
  /\ Goto(w, "snapshot")
  /\ UNCHANGED <<chain, dbVars, lock, sessionVars, writeVars, msgVars>>

WriteSnapshot(w) ==
  /\ pc[w] = "snapshot"
  /\ RowFree
  /\ wallet # "deleted"
  /\ rowLock' = w
  /\ Goto(w, "snapped")
  /\ UNCHANGED <<chain, dbVars, lock, sessionVars, newTx, newDel, undone, msgVars>>

\* The commit; or the rollback, when the wallet is gone or the connection fails.
EndSnapshot(w) ==
  /\ \/ pc[w] = "snapped"
     \/ pc[w] = "snapshot" /\ (wallet = "deleted" \/ "db_error" \in Faults)
  /\ CloseSession(w)
  /\ UNCHANGED <<chain, dbVars, lock, undone, msgVars>>

-----------------------------------------------------------------------------
(* The environment: the chain, the time to live of the Redis key and the   *)
(* API requests.                                                           *)

NewTransaction ==
  /\ chain < MaxTx
  /\ chain' = chain + 1
  /\ UNCHANGED <<dbVars, lock, pc, sessionVars, writeVars, msgVars>>

InTransaction == {"next", "evaluate", "fire", "release", "commit", "unwind", "rollback"}

InTask == {"balance", "transactions", "update", "next", "evaluate", "fire", "release", "unwind"}

\* Mutants of TimeIsUp: SET without EX, and a time to live that is too short.
NeverUp  == FALSE
AlwaysUp == TRUE

\* 120 seconds are over.  Unless a sync may take longer, no task runs under
\* the key any more: whoever set it has crashed or could not delete it.
TimeIsUp == "slow_sync" \in Faults \/ \A w \in Workers : pc[w] \notin InTask

LockExpires ==
  /\ lock
  /\ TimeIsUp
  /\ lock' = FALSE
  /\ UNCHANGED <<chain, dbVars, pc, sessionVars, writeVars, msgVars>>

apiUnchanged == <<chain, lastSync, lock, pc, sessionVars, writeVars, sent, refused>>

CreateAlert(a) == Ledger!AddAlert(a) /\ UNCHANGED apiUnchanged

\* It takes no lock that a sync waits for.
PatchAlert(a) == Ledger!ToggleAlert(a) /\ UNCHANGED apiUnchanged

\* Mutant of Unreferenced: no foreign key.
NoReference(a) == TRUE

\* An uncommitted delivery shares a lock on its alert's row.
Unreferenced(a) == \A w \in Workers : \A d \in newDel[w] : d[1] # a

DeleteAlert(a) ==
  /\ "delete_alert" \in Faults
  /\ Unreferenced(a)
  /\ Ledger!RemoveAlert(a)
  /\ UNCHANGED apiUnchanged

PatchWallet == RowFree /\ Ledger!ToggleWallet /\ UNCHANGED apiUnchanged

DeleteWallet ==
  /\ "delete_wallet" \in Faults
  /\ RowFree
  /\ Ledger!RemoveWallet
  /\ UNCHANGED apiUnchanged

-----------------------------------------------------------------------------
FetchStep(w) ==
  \/ AcquireLock(w) \/ LockedOut(w) \/ LockUnavailable(w)
  \/ FetchBalance(w) \/ FetchTransactions(w) \/ FetchFails(w)

DatabaseStep(w) ==
  \/ UpdateWallet(w) \/ WalletGone(w) \/ SkipKnown(w) \/ InsertTransaction(w)
  \/ SelectAlerts(w) \/ TransactionDone(w) \/ PageDone(w) \/ QueryFails(w)
  \/ \E a \in Alerts : \/ InsertDelivery(w, a) \/ AlertGone(w, a)
                       \/ Send(w, a) \/ SendFails(w, a)

EndStep(w) ==
  \/ ReleaseLock(w) \/ ReleaseUnavailable(w)
  \/ Commit(w) \/ CommitFails(w) \/ Rollback(w)

SnapshotStep(w) == WriteSnapshot(w) \/ EndSnapshot(w)

TaskStep(w) == FetchStep(w) \/ DatabaseStep(w) \/ EndStep(w) \/ SnapshotStep(w)

ApiStep ==
  \/ PatchWallet \/ DeleteWallet
  \/ \E a \in Alerts : CreateAlert(a) \/ PatchAlert(a) \/ DeleteAlert(a)

Next ==
  \/ \E w \in Workers : Start(w) \/ StartSnapshot(w) \/ TaskStep(w) \/ Crash(w)
  \/ NewTransaction \/ LockExpires \/ ApiStep

Spec == Init /\ [][Next]_vars

\* A started task or request runs on: the event loop serves it, every call it awaits has
\* a timeout, PostgreSQL queues those who wait for a row (strong fairness), and time
\* passes for the Redis key.  Nothing starts a task.
Fairness == WF_vars(LockExpires) /\ \A w \in Workers : SF_vars(TaskStep(w))

FairSpec == Spec /\ Fairness

-----------------------------------------------------------------------------
(* Properties.                                                             *)

\* Every variable has its type; a transaction is being recorded only while the
\* page is not done, and outside its transaction a worker has written nothing.
TypeOK ==
  /\ chain \in Height
  /\ wallet \in {"active", "inactive", "deleted"}
  /\ alerts \in [Alerts -> {"none", "active", "paused", "deleted"}]
  /\ txs \subseteq Hash /\ deliveries \subseteq Delivery
  /\ lock \in BOOLEAN /\ rowLock \in Workers \cup {NoOne}
  /\ pc \in [Workers -> Pcs]
  /\ seen \in [Workers -> Height] /\ page \in [Workers -> Height]
  /\ todo \in [Workers -> SUBSET Hash]
  /\ pending \in [Workers -> SUBSET Alerts]
  /\ newTx \in [Workers -> SUBSET Hash]
  /\ newDel \in [Workers -> SUBSET Delivery]
  /\ sent \in [Delivery -> 0..MaxSent]
  /\ undone \subseteq Delivery /\ refused \subseteq Delivery /\ watched \subseteq Alerts
  /\ lastSync \in [balance : Height, page : Height]
  /\ \A w \in Workers :
       /\ pc[w] \in {"evaluate", "fire"} => todo[w] # {}
       /\ pc[w] \notin InTransaction => newTx[w] = {} /\ newDel[w] = {}

\* With the Redis lock unreliable or not, one transaction at a time writes
\* for the wallet, and never a row that uq_tx_wallet_hash would reject: the
\* UPDATE of last_synced_at comes before every SELECT and INSERT.
OneWriter ==
  \A w \in Workers :
    /\ newTx[w] # {} \/ newDel[w] # {} => rowLock = w
    /\ newTx[w] \cap txs = {}

\* To a reader of the tables all of it looks like SyncLedger: whole batches,
\* complete deliveries, nothing stored twice or brought back.
ImplementsLedger == Ledger!LedgerSpec

\* What is committed hangs together: a delivery names a stored transaction
\* and an alert that exists and fires for it, and a sync that overlaps the
\* deletion of its wallet or alert leaves no row behind.
NoOrphans ==
  /\ \A d \in deliveries :
       d[2] \in txs /\ alerts[d[1]] \in {"active", "paused"} /\ Fires(d[1], d[2])
  /\ wallet = "deleted" => txs = {} /\ deliveries = {}

\* a fires for h, and the loop has yet to come to it.
Outstanding(w, a, h) ==
  /\ h = Newest(todo[w])
  /\ \/ pc[w] = "evaluate"
     \/ pc[w] = "fire" /\ a \in pending[w]

\* An open transaction stays in step with the tables others change: its
\* wallet cannot be deleted under it, its deliveries name alerts that still
\* exist, and of the watched alerts that fire none has been passed over.
SessionInv ==
  /\ rowLock # NoOne => wallet # "deleted"
  /\ watched \subseteq Active
  /\ \A w \in Workers :
       /\ pc[w] \in {"next", "evaluate", "fire"} => rowLock = w
       /\ rowLock = w => pc[w] \in InTransaction \cup {"snapped"}
       /\ pc[w] \in {"evaluate", "fire"} => Newest(todo[w]) \in newTx[w]
       /\ pc[w] = "fire" => \A a \in pending[w] :
            alerts[a] # "none" /\ Fires(a, Newest(todo[w]))
       /\ \A d \in newDel[w] :
            d[2] \in newTx[w] /\ Fires(d[1], d[2]) /\ alerts[d[1]] \in {"active", "paused"}
       /\ rowLock = w /\ pc[w] \notin {"unwind", "rollback"} =>
            \A h \in newTx[w], a \in watched :
              Fires(a, h) => <<a, h>> \in newDel[w] \/ Outstanding(w, a, h)

\* An alert that stays active while a sync writes is not missed: when the
\* sync commits a transaction, it commits the delivery of that alert too.
AlertComplete ==
  [][\A h \in txs' \ txs, a \in watched : Fires(a, h) => <<a, h>> \in deliveries']_vars

\* A notification goes out again only after a transaction that held its
\* delivery was thrown away: neither overlapping syncs nor the loss of the
\* Redis lock repeat it.
RepeatOnlyIfUndone == \A d \in Delivery : sent[d] > 1 => d \in undone

\* No transaction is sent twice to the user, whatever fails.
SentAtMostOnce == \A d \in Delivery : sent[d] <= 1

\* A delivery that is stored, with status "sent", was sent, or Telegram did not take it:
\* nothing else that fails leaves one that never arrived.
DeliveredWasTried == \A d \in deliveries : sent[d] > 0 \/ d \in refused

\* Of what the balance of the last sync reflects, no transaction is missing from the
\* list but what had Limit newer ones before it when the sync asked for its page: the
\* balance is not ahead of the page, and the page was stored whole.
NoGap ==
  /\ lastSync.balance <= lastSync.page
  /\ wallet # "deleted" =>
       \A h \in lastSync.page - Limit + 1..lastSync.page : h \in Hash /\ MovesValue(h) => h \in txs

\* The Redis lock keeps the tasks of a wallet apart, from the fetch to the
\* end of the task's body.
MutualExclusion == \A v, w \in Workers : pc[v] \in InTask /\ pc[w] \in InTask => v = w

\* Among syncs, none replaces a balance by one fetched earlier, although the Redis lock
\* is freed before the commit.  (A snapshot writes the column too: SyncedAtForward.)
BalanceMonotone == [][lastSync'.balance >= lastSync.balance]_lastSync

\* A task or snapshot request that has started ends.
TaskEnds == \A w \in Workers : pc[w] # "idle" ~> pc[w] = "idle"

\* The Redis lock is freed again, after a crash too.
LockFreed == lock ~> ~lock
=============================================================================
