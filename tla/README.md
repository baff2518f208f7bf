# Formal models of the crypto intelligence platform

TLA+ specifications of the platform's backend (`src/apps`), the TLC runs that
check them on small instances, and TLAPS proofs for every value of the
constants. Paths below are relative to `src/`.

    tlc -workers 2 -config sync_tables.cfg MCWalletSync.tla   # one run; all of them are in PROJECT.json
    tlapm WalletSyncProofs.tla                                # one proof module

## 1. The system

A user adds public wallet addresses and alerts through a web client; an API
(FastAPI) keeps them in PostgreSQL; a worker (taskiq) asks a blockchain provider
for each wallet's balance and newest transactions, stores them, evaluates the
alerts and has the Telegram bot send a message. Redis holds the locks of the
workers, the API's rate limits and the login nonces.

| Component | State | Operations | Hard about it | What makes it correct |
|---|---|---|---|---|
| Wallet sync worker (`apps/worker/worker/tasks.py`) | one session and open transaction per task; the Redis key `wallet_lock:<id>` | `sync_wallet`, `snapshot_wallet`, `send_telegram_notification` | tasks overlap (TTL, Redis down, lock freed before the commit); a crash or error at any step; a message sent inside a transaction | nothing stored twice, no alert missed, no gap on a page, every task ends, the lock is freed |
| Ledger tables (`models/`, `db/session.py`) | wallets, transactions, alerts, deliveries; row locks, foreign keys, cascades | commit, rollback, cascade | deletion while a sync writes | no row outlives what it refers to |
| Alert rules (`_try_fire_alert`) | none | which alert fires for which transaction | kinds that never fire | an alert fires exactly by its rule |
| Rate limiters (`utils/rate_limit.py`) | a sorted set per key in Redis, the script's hash in the process | `check` | clock read before the script runs, lost scripts, timeouts, restarts | at most `capacity` in a window; Retry-After long enough |
| Wallet and alert API (`api/v1`, `services`) | the tables | create, patch, delete, snapshot | quotas and duplicates checked before a wait; requests during a sync | quotas, uniqueness, no lost update |
| Login and sessions (`api/v1/auth.py`, `services/users.py`) | nonces in Redis, `wallet_sessions` | login, logout, revoke-all, token check | concurrent logins, a nonce used by a login that fails or forgotten too early | initData logs in no oftener than its validity allows; sessions stay near the quota; a revoked one is dead |
| Portfolio snapshots (`post_snapshot`, `snapshot_wallet`) | the wallet's row, `wallet_snapshots` | fetch, total, insert, update | writers without a lock against each other or the sync; columns left out that did not change | the row's total has its snapshot; an undisturbed writer leaves what it fetched |
| AI explanations (`services/ai_explain.py`, `ai/`) | `ai_analyses` as a cache | explain wallet or transaction | concurrent misses, retries on top of retries, deletion during a call | only requests at a time store two answers, a bounded number of calls |
| HTTP retries (`utils/http_retry.py`) | attempt counter | `request` | failures that pass and failures that do not | a bounded number of requests |
| Providers (`providers/`) | none | balance, transactions, holdings | pages, dropped entries | the page shows what the worker and the API think it shows |
| Migrations (`alembic/`) | the tables | upgrade, downgrade | order of tables under foreign keys | each ends, whole or not at all |
| Web client (`apps/web`) | token of its tab | login, request helper, views | answers that arrive late or twice | a signed-in client stays so |
| Client address (`trusted_client_ip`) | none | walk over `X-Forwarded-For` | who wrote which entry | the key is the last address outside the trusted networks |
| Bot (`apps/bot`), URL safety, addresses, configuration, logging, deployment | none | two commands, pure checks, wiring | | |

How they interact: the API and the workers share only PostgreSQL and Redis. A
task is one session (`session_scope`): it commits when the task's body returns
and rolls back when it raises. Notifications are sent by a call from inside the
sync, before that commit.

The hazards, line by line, are in `PROJECT.json`.

## 2. Modules

| Module | What it is |
|---|---|
| `AlertRules` | transactions of one wallet, the page a fetch returns, the rule by which an alert fires |
| `SyncLedger` | abstract: what the tables of a wallet promise, without workers, locks or transactions |
| `WalletSync` | `sync_wallet_task` step by step, several workers, the API requests that meet it, Redis and the row lock; implements `SyncLedger` |
| `RateLimit` | both rate limiters for one key |
| `Sessions` | login, logout and revoke-all of one user over `users` and `wallet_sessions`, with row locks and deadlocks |
| `WalletBook` | abstract: one user's wallets and alerts, added and removed at once |
| `WalletApi` | create, patch and delete of wallets and alerts by concurrent requests, with quotas, duplicates, keys and row locks; implements `WalletBook` |
| `Snapshots` | snapshot request, snapshot task and sync as writers of one wallet's row |
| `Holdings` | the token holdings as sums over a page of transfers, against what the chain says |
| `HttpRetry` | `HttpRetry.request` for several callers; a part of `AiExplain` |
| `AiExplain` | explanations of one wallet and its transactions: cache, provider, retries |
| `LoginOnce` | a login up to its session: freshness and memory of initData, with a clock |
| `WebClient` | the Mini App around `LoginOnce`: launch, token, requests |
| `ClientIp` | `trusted_client_ip` as the entry at which its walk stops, against the way that the request took |
| `Schema` | the eleven tables, their migration, and deletions row by row |
| `MC...` | values of the constants for TLC; `MCSnapshots` puts `Snapshots` and `Holdings` side by side, `MCLogin` puts `WebClient`, `ClientIp` and `RateLimit`; one of them moves in a behaviour |
| `...Proofs` | theorems and proofs |

`WalletSync`, `WalletApi`, `Snapshots`, `AiExplain` and `Schema` look at the same tables in
different detail: each has the writers that can meet in it, and what others do
to its tables as actions of their own. `WalletSync` and `WalletApi` take a deletion as one statement,
`Schema` takes it apart.

### WalletSync

One wallet: every query of the task filters by `wallet_id`. A worker stands for
a running task, in whatever process. The program counter follows the awaits:

| `pc` | Code | Actions out of it |
|---|---|---|
| `idle` | no task | `Start` (load the wallet, tasks.py:58-61), `StartSnapshot` |
| `lock` | `SET NX EX 120` | `AcquireLock`, `LockedOut`, `LockUnavailable` (an exception counts as acquired) |
| `balance`, `transactions` | provider calls | `FetchBalance`, `FetchTransactions`, `FetchFails` |
| `update` | first query, whose autoflush updates the wallet | `UpdateWallet` (waits for the row lock), `WalletGone` |
| `next` | loop over the page, newest first | `SkipKnown`, `InsertTransaction`, `PageDone` |
| `evaluate` | select the active alerts | `SelectAlerts` |
| `fire` | per alert: insert the delivery, send | `InsertDelivery`, `AlertGone`, `Send`, `SendFails`, `AlertsDone` |
| `release`, `unwind` | `finally`: DEL of the lock | `ReleaseLock`, `ReleaseUnavailable` |
| `commit`, `rollback` | end of `session_scope` | `Commit`, `CommitFails`, `Rollback` |
| `snapshot`, `snapped` | a snapshot request or task before and after its flush | `WriteSnapshot` (waits for the row lock), `EndSnapshot` |

`QueryFails` raises at any query, `Crash` ends the process anywhere, `LockExpires`
is the TTL. `CreateAlert`, `PatchAlert`, `DeleteAlert`, `PatchWallet` and
`DeleteWallet` are the API's requests, each a transaction of its own;
`NewTransaction` is the chain.

Details that the correctness hangs on, all from the code:

- `last_synced_at` changes in every sync, so the first flush always writes the
  wallet's row: its row lock, held to the end of the transaction, keeps the
  writes of two syncs apart when Redis does not.
- A snapshot, by request (wallets.py:254-257) or by task (tasks.py:135-136), updates the same row
  and knows nothing of the Redis lock: it takes part in the row lock only. What the columns then hold
  is the subject of `Snapshots`; `WalletSync` keeps no column, and what it says of a balance it
  says of what the syncs fetch (`lastSync`).
- The lock's value is the same for everyone: any task deletes it.
- The Redis lock is freed before the commit.
- A deletion of an alert or wallet waits for rows that refer to it and are not
  yet committed (`Unreferenced`); the ORM deletes the children first, but in the
  same transaction, so a deletion is one step.

Abstractions: a transaction is its position on the chain; an alert's kind and
threshold do not change (the PATCH of a threshold is left out, and so is a
wallet whose first balance could not be fetched); the user's row exists;
the Redis TTL is the guard `TimeIsUp` of `LockExpires` and not a clock: the lock
expires once the task that holds it is gone, or at any time with the fault
`slow_sync`, which also stands for a Redis that loses the key.

### RateLimit

Requests of one key, one API process. Variables `log`, `expires`, `cached` and
`late` are Redis; `known` and `stage` the process; `tick` is the time; `production` is the setting that
`make_limiter` reads. The script is atomic in Redis and is one action (`Allow`
or `Limit`), with the time `now[r]` that the process read before (`Check`).
`Unavailable` is any other exception, after which the script may still run
(`RunLate`); `NoScript` the reload; `Restart` loses the script and any part of the
set (a restart with the periodic snapshot, or an eviction). `CheckInMemory` is the
other limiter, whose dictionary is always empty because every handler makes its own
limiter for each request. A tick is half a second in the runs, so that rounding to
seconds shows.

### Sessions

One user, because every query filters by `user_id`, `telegram_id` or the token. A handler
stands for a request under way; its transaction runs from its first query to its commit.

| `pc` | Code | Actions out of it |
|---|---|---|
| `idle` | no request | `StartLogin` (initData verified and marked, limits passed), `StartLogout`, `StartRevokeAll` (`get_current_user` has found an active session) |
| `user` | SELECT of the user | `SelectUser` |
| `insert_user`, `update_user` | flush of a new or changed user | `WriteUser` (waits for the row), `UserExists` (unique violation) |
| `count` | count of the active sessions, comparison with the quota | `Count` |
| `revoke` | the UPDATE starts and sees the rows of that moment | `StartUpdate` |
| `locking` | it locks them one by one and looks at each again | `LockRow`, `UpdateDone`, `DeadlockDetected` |
| `insert` | flush of the new session | `InsertSession` |
| `commit` | `db.commit()` | `Commit` |

`stored` and `revoked` are committed; `marked[h]` and `mine[h]` are what an open transaction has
written, so that nobody else sees it. `Fail` rolls a request back anywhere: an error, a client that
goes away, a dead process. `Expire` is `expires_at` passing; an expired session is not active but is
still updated by revoke-all, as in the query. Left out: signatures, the development bypass
(`deps.py:38`), `is_active`, which nothing ever clears, and `rotate_session`, which nothing calls.

### WalletApi

One user, because quotas, duplicates and ownership all filter by `user_id`. `wallets` and `alerts` are the
committed rows; a request writes once, at its flush, so its open transaction is `pc`, `kind` and `about`.

| `pc` | Code | Actions out of it |
|---|---|---|
| `idle` | no request | `PostWallet`, `PostAlert`, `DeleteWallet`, `DeleteAlert`, `PatchWallet`, `PatchAlert` |
| `load` | SELECT of the row, or of a new alert's wallet | `Load`, or 404 (`Refused`) |
| `count` | count and quota | `Count`, or 409 |
| `duplicate` | SELECT by address | `CheckDuplicate`, or 409 |
| `provider` | `fetch_balance`, whose failure is swallowed | `AskProvider` |
| `write` | flush | `InsertWallet`, `InsertAlert`, `UpdateRow`, `DeleteRow`, or a violated constraint |
| `commit` | `db.commit()` | `Commit` |
| `empty` | `db.commit()` of a PATCH that changes no column | `CommitNothing` |

A PATCH without a net change (`NothingToWrite`) has no UPDATE: it takes no lock, and commits nothing, on a row that may be gone. An insert waits for whoever has written its unique key (`KeyFree`), an update or delete for the row
(`RowFree`), the delete of a wallet for inserts that refer to it (`Referenced`) and for its alerts.
The UPDATE of a row that is gone makes SQLAlchemy raise; a DELETE that finds nothing only warns. Ids are UUIDs: `Fresh`.

### Snapshots and Holdings

`kind` says which of the three writers a writer is, `Columns` what it sets; a snapshot request accepts an
inactive wallet, the tasks do not. The row's total and time begin as NULL (`Null`; time 0). `loaded` is the row it has read, `got` the row as it should be by
what it fetched, `Changed` the columns that the UPDATE will name, none if nothing differs. The time is taken
(`Stamp`) before the row is waited for. Every read of the clock in a behaviour is later than the one before;
`TimeLeft`, the guard that bounds the clock, lets a writer begin only if it and those under way will find a time to write at.
The price of a coin is a constant: the Etherscan provider knows none (etherscan.py:119-125), the mock does.

`Holdings`: a history of transfers from the newest on; `fetch_token_holdings` adds up the first page of it token by token (`PerToken`),
`Balance` all of it. A transfer of a wallet to itself counts as received (etherscan.py:161), and what is older than the page
is missing, so that a sum is too low, or too high if what is missing was sent: `HoldingsShown` asks only for tokens without either (`Covered`).

### HttpRetry and AiExplain

`http[h]` is where the HTTP request of caller `h` stands: `send`, `sleep` between attempts, `raised`, or the body that
came back. Which failures are repeated is a choice of `Send`; a permanent status and a body that is too large are not.
Durations are left out.

In `AiExplain` a prompt is what it depends on: the subject, the content of the wallet's row, its stored
transactions (of a transaction's prompt, none). Equal prompts have equal signatures; that different
ones have different signatures is assumed of SHA-256. Which of the transactions the prompt shows (the newest 20, ties in any order, cut to 5 if
the text is too long: ai_explain.py:31-37, prompt.py:87-92) is left out: the same tables could give different prompts. `rows` counts the
stored answers of each prompt: `Miss` is none, `Hit` one, and `Ambiguous` more, which raises. `raced` remembers the prompts that were missed while
another request had missed them and not yet stored. `load`, `read`, `lookup`, `call`, `insert`,
`commit` are the awaits of `explain_wallet`; `explain_transaction` has no `read`. Every failure of `complete`
is an `AiProviderError`, a permanent one included, and is tried again (`TryAgain`); only the content type is judged
outside that handler (providers.py:106) and ends the request at once (`GiveUp`). The mock provider is one that always answers.

### LoginOnce, WebClient, ClientIp

`used[d]` is when Redis forgets initData `d` (`SET NX EX`); `Delay` bounds the time from the verification to that call.
`Skews` are clock differences of Telegram and server. A failure of Redis may come after the SET took effect (`Fail`).
`passes` and `lastPass` are history: how often and when initData has let a request pass.

`WebClient` adds the tab that was launched with one initData, its token, and the login requests whose answers it waits for.
It logs in by itself when it has no token, or by the button. Two logins at a time are not far-fetched: in
development React's StrictMode runs the effect twice (main.tsx). `live` says that the token's session still is. Any 401 drops the token; a 403 does so too, and no request of the model meets one.

`ClientIp`: a client sends a request with any header; proxies, or further clients, append their sender and send it on.
A request may begin outside or inside the trusted networks, and a proxy may write "unknown", which is no address, in place of its sender (`legible` is
the history of that). `Walk` is the loop over the reversed header, by where it stops, its end included. nginx.conf:50 replaces the header by the peer's
address, which is the path of one hop.

### Schema

`Owner` and `Subject` are the foreign keys, those that must be set and those that may be NULL; `Order` is the order of upgrade() and
downgrade(). `made` counts the tables there are. A deletion loads the children of its ORM relationships, deletes them, then its row; the database
cascades below each row it has deleted (`Wanted`). `held` is what it has deleted and not yet committed.
`Victim` finds a circle of waits. A migration starts when no deletion is under way: its first statement locks `users`, which every request has read.

## 3. Runs

| Run | Question | Instance |
|---|---|---|
| `sync_tables` | Do the tables stay consistent and behave like `SyncLedger` when the Redis lock is of no help, snapshots write the row too, and alerts and the wallet are deleted at any time? | 2 tasks, 2 alerts, 2 transactions, page 2 |
| `sync_repeat` | Is a notification repeated only after its transaction was thrown away? | 2 tasks, 1 alert, 2 transactions, database and Redis errors |
| `sync_lock` | Does the lock keep tasks apart, is a stored delivery always one that was tried, is only that lost which left the page, does every task end and every lock get freed, under crashes and refused sends? | 2 tasks, 1 alert, 2 transactions, one of them of value 0, page 1 |
| `sync_sent_twice` | README.md:22 "idempotent tasks": violated by one crash between send and commit | 1 crash fault |
| `sessions` | How far can concurrent logins pass the quota, does a revocation leave a session out, does every request end? | 2 requests, 3 sessions, quota 1, 1 expiry |
| `wallet_api` | Do concurrent requests leave the tables as if each had been alone? | 2 requests, 3 wallets, two of them of one address, 3 alerts, quotas of 1 |
| `snapshots` | What do writers that know nothing of each other do to the wallet's row? What do the holdings show? | 2 writers, 2 changes of the chain, 3 ticks of the clock; 2 tokens, page of 3, histories of up to 4 |
| `ai_explain` | Are calls and answers bounded, what makes a prompt ambiguous? | 2 requests, 1 transaction, one retry at either level |
| `login` | How often does initData log in; whose key does the login count for; does that key's window keep its capacity and is Retry-After enough? | 2 logins, 1 initData, clock differences 0 and 1, memory and validity of 3 ticks each and 1 ahead; headers of up to 4 entries, which the client has sent or its way has added; 4 requests, capacity 2, 1 restart |
| `schema` | Do foreign keys survive deletions row by row; do migration and deletions end? | 4 rows over 11 tables, 2 deletions |
| `web_token` | api.ts:43: the token that a login stores is sent with no request | 2 logins |
| `replay` | README.md:80 "replay is blocked": violated by initData that is forgotten while it is fresh | one login at a time; minutes: memory 5, validity 5 and 1 ahead |

What the properties say:

- `OneWriter`: uncommitted writes belong to the holder of the row lock and never
  repeat a stored transaction.
- `NoOrphans`: a stored delivery names a stored transaction and an existing alert
  that fires for it; a deleted wallet leaves nothing.
- `AlertComplete`: an alert that stays active while a sync writes gets the delivery
  of every transaction the sync commits that it fires for.
- `ImplementsLedger`: the refinement; the tables change by whole batches.
- `NoGap`: the balance that the sync committed last has fetched is not ahead of its page, and of that page
  every transaction that moved value is stored. What has left the page before a sync asked for it is lost, and that only.
- `RepeatOnlyIfUndone`, `SentAtMostOnce`, `DeliveredWasTried`: messages against rows. The last: a stored delivery was sent, or
  refused; no other failure leaves one that nobody has seen.
- `MutualExclusion`, `BalanceMonotone`: the Redis lock, when no sync outlives it, and what it protects among syncs.
- `TaskEnds`, `LockFreed`: liveness.
- `WindowBound`: at most `Capacity` requests whose times lie in a span of
  `Window - Delay` get through between two losses of the set. The whole window is too
  much to ask: with scripts out of order, `Capacity + 1` fit in it, so the bound is tight.
- `RetryAfterSuffices`: when Retry-After is over, fewer than `Capacity` of the
  requests that filled the window are left in it.

- `SessionsBounded`: a user's active sessions stay below the quota plus the number of requests under way.
- `RevokesAll`: when logout, revoke-all or a login over the quota comes to commit, each session that was active
  when it decided to revoke is revoked, by itself or by someone who has committed.
- `RequestEnds`, `WriterEnds`, `DeletionEnds`, `MigrationEnds`: liveness of requests, tasks and the migration.
- `OneRowPerAddress`: an address is stored once, and inserted by one open transaction, also while its old row is being deleted.
- `ChangesHit`: a PATCH that has written a change and is about to commit has changed a row that is there. One without a change is at `empty`, and
  nothing is said of its row.
- `ImplementsBook`: the refinement; its limits are the quotas plus the requests under way, which bounds how far
  requests that count before any of them inserts pass a quota together.
- `TotalHasSnapshot`: the row's total is one that a stored snapshot shows, or the first.
- `AloneWritesAll`: a writer that nobody overtook leaves all it fetched, although it writes only what differs.
- `SyncedAtForward`: `last_synced_at` goes back only by a writer that was overtaken. It does go back: nothing prevents it.
- `HoldingsShown`: a token whose transfers are all on the page, none to oneself, is shown with its balance, or not at all when that is nothing.
- `PostsBounded`: (AI retries + 1) times (HTTP retries + 1) HTTP requests at most, 9 with the code's numbers.
- `AnswersBounded`: a prompt never has more answers, stored or on their way, than requests at a time.
- `AmbiguousOnlyByRace`: two stored answers, with which `scalar_one_or_none` raises for that prompt from then on (ai_explain.py:57), come of requests
  at the same time and of nothing else: not of retries, failures, or requests one after another.
- `StaysSettled`: one stored answer and nobody asking: so it stays.
- `NoAnalysisWithoutWallet`: the foreign key against a deletion during the call.
- `PassesApart`, `PassesBounded`: two passes of one initData are the memory's duration apart, so there are no more of them than durations of the memory
  fit into the validity: two, with 300 s of memory (auth.py:48) and 300 + 60 s of validity (config.py:31, telegram.py:103). Both while Redis keeps its data.
- `ReplayBlocked`: one pass altogether. Violated, see section 6.
- `KeyIsOutside`: the login's limit counts for the last address outside the trusted networks, or the inside one where the request began; for the peer's
  when a proxy hid its sender or no network is trusted.
- `NoDanglingRow`, `DeletesWhole`: foreign keys under two cascades, the ORM's and the database's.
- `StaysSignedIn`: violated, see section 6. Even with the token sent, two logins at a time would violate it: the second is
  refused with 401 (initData used), which drops the token of the first.

Type invariants: `TypeOK` of `WalletSync` is checked by `sync_tables`; those of the other modules are proved.

**Bounds.** Two tasks suffice for every overlap the code distinguishes: the row lock and
the Redis lock know holder and waiter. Two transactions give a page with a known and a
new one and a commit between two inserts. Two alerts:
one that every transaction fires, one with a threshold. `MaxSent` = 2 tells "once" from "more
often" (0 switches that history off). Four requests fill a window of two, exceed it and
have one late; `LastTick` covers a window and what expires after it. Two requests of `Sessions`
are enough to deadlock and to pass the quota together; three sessions are one more than `SessionsBounded` allows.
In `WalletApi` two requests meet in every pair of operations, and two wallets of one address collide. Ids and sessions are never reused:
when they have run out nothing starts, and the runs may stop there. In `Snapshots` the chain leaves a value and returns to it,
so that a writer may fetch what it had loaded, and both writers of a pair find a time to write at, so that one waits for the other's row. `sync_lock` has a
page of one, which two transactions outgrow. In `login` the clock passes the end of the memory and of the validity. Four rows in `Schema` are a user, a wallet, an alert
and its delivery, which two deletions reach from both ends. The invariants that are
proved hold without these bounds.

**Fairness.** In `WalletSync`, `Sessions`, `WalletApi`, `Snapshots` and `Schema`, `FairSpec` asks strong fairness of the step of each task or
request while it runs: an event loop resumes a task whose await is done, provider and Redis calls have timeouts, and PostgreSQL queues those who wait for a row, so
that one whose wait is over again and again gets the row; its deadlock detector runs. Weak fairness of the Redis key's expiry. `AiExplain` and
`WebClient` wait for no lock: weak fairness of each request's step, whose calls have timeouts. None on `Start`: nothing in the repository schedules syncs
(`run_worker.py` only waits for a signal). None on faults or API requests.

**Deadlock** is checked where the system may not stop. `sync_tables`, `wallet_api`, `snapshots` may stop when
what they are about is deleted or used up, `login`, `replay` and `web_token` when the bounded clock does, `sessions` when the
sessions have run out.

## 4. Proofs

Assumptions: the `ASSUME`s of the modules and nothing else, all evaluated in every run that uses them. They say that
constants have their types, that requests, sessions, wallets and alerts are finite sets wherever they are counted, and that what is
no member of a set (`NoOne`, `Nothing`, `NoData`) is not one. Positive are only quota and window of `Sessions` and `RateLimit`, the page of
`AlertRules` and the memory of `LoginOnce`.

Every invariant and every action property that a passing run checks is stated by a theorem. Few of them are inductive alone: what follows is what had to be added, and why.

`WalletSyncProofs`, for any number of tasks, alerts and transactions:

- For any faults: `TypeCorrect`, `OneWriterAlways`, `SessionAgrees`, `NoOrphansAlways`,
  `AlertsComplete`, `SyncImplementsLedger`, `RepeatsAreUndone`, `NothingMissing` (for any page), and, if sends are counted at all, `DeliveriesWereTried`.
- From a premise, which is what the run of the property has too: `TasksApart`, `BalanceGoesForward` (Redis answers and no sync outlives its key: `Patient`).
  Without it the row lock has to do: `OneWriterAlways`.
- `OneWriter` and `NoOrphans`: a commit may copy uncommitted
  rows into the tables, so what is said of the tables must already hold of the open transactions.
  That is `SessionInv`: the row-lock holder is the one inside its transaction,
  its rows fire and name existing alerts, and a watched alert's delivery is either written or
  still to come (`Outstanding`). The conjunction is inductive; one lemma per conjunct, one step per
  action.
- The refinement maps `wallet`, `alerts`, `txs`, `deliveries` and `watched` to themselves.
  `Commit` of a new batch is `RecordBatch`, `UpdateWallet` is `BeginBatch`, API requests are
  themselves, everything else stutters.
- `NoGap` comes from `Complete`, which says the same of the open transactions: a sync's balance is not ahead of its page, and what the page has brought
  is stored, inserted or still to come (`HoldsPage`).
- Messages: `SentOnce` says where a delivery is whose message has left. With the row lock it follows that a message that is `Due` was not sent
  before (`DueIsNew`). `Attempted`: what an open transaction has inserted was sent, is due or will be rolled back.
- `Locked` makes mutual exclusion inductive: whoever is in the task's body has set the key. `Ordered` then has the syncs write in the order in which
  they have fetched, past the end of the mutual exclusion, by the row lock.
- Waiting: `NobodyStuckEver` and, for finitely many alerts, `WorkShrinksAlways`. The steps before a task are counted by its page and, for the
  transaction in hand, by the alerts still to insert and to send for.

`RateLimitProofs`, for any number of requests and restarts and any capacity, window and delay:

- `TypeCorrect` (with the bound on the size of the sorted set), `WindowBoundAlways`,
  `RetryAlwaysSuffices`.
- `WindowBound` needs `Remembers`: times lie in the past, a waiting one's by `Delay` at most; the
  set's expiry outlives each member's window; a request that got through leaves the set only
  when its window is over. Then, if `r` gets through inside a span shorter than the window by
  `Delay`, the window of every other request of the span is not over, so it is among those the script counts.

`SessionsProofs`, for any number of requests and sessions and any quota:

- `TypeCorrect`, `RevokesAllAlways`, `SessionsBoundedAlways`, `NobodyStuckEver`, `WorkShrinksAlways`.
- `RevokesAll` needs `Covered`: what a request set out to revoke is revoked, marked by it or still to be locked.
- `SessionsBounded`: a login that revokes adds a session before or after others commit theirs.
  `Room` counts for every set `G` of revoking logins: the active sessions that `G` will leave, plus the logins that were
  let in (`Permitted`), plus `G` itself, stay below quota plus requests. A count below the quota establishes it
  outright, since permitted and revoking logins are distinct requests; a permitted login trades its place for
  its session; a revoking one takes what it has seen with it (`RevokesAll`) and moves from `G` into the tables.
- `NobodyStuck` takes any set of requests that wait only for each other. Whoever holds the user's row is past it (`Ordered`), so of such a set some
  lock sessions, and these are in the deadlock that PostgreSQL looks for. `Spare` gives every login the session it will insert, so the
  bound on sessions stops nobody on the way.

`WalletApiProofs`, for any number of requests, wallets and alerts, any quotas and any sharing of addresses:

- `TypeCorrect`, `OneRowPerAddressAlways`, `AlertsHaveWalletsAlways`, `ChangesHitAlways`, `QuotasBoundedAlways`, `ApiImplementsBook`,
  `NobodyStuckEver`, `WorkShrinksAlways`.
- The four statements about the tables carry each other (`Tables`), with `Exclusive`: what a PATCH has changed nobody deletes at the same time (one that is `empty` has changed nothing and holds nothing).
  A step that writes nothing keeps them at once (`Quiet`), which leaves a case for each kind of write and for `Commit`.
- The quotas need `Room`: what is stored, plus the requests that were let in and have not stored, stay below the quota plus
  the requests. A count establishes it, an insert trades one for the other. Once it holds, the insert of `WalletBook` is
  enabled at every commit, which is the only interesting step of the refinement.

`AiExplainProofs`, for any number of requests, transactions and retries:

- `TypeCorrect`, `PostsBoundedAlways`, `NoAnalysisAlways`, `AnswersBoundedAlways`, `AmbiguousOnlyByRaceAlways`, `SettledStays`, `WorkShrinksAlways` (the steps of the present
  try, `InTry`, and of the tries that may follow, `Later`).
- `PostsBounded` needs `PostsInv`, which counts the HTTP requests by the tries and attempts so far; a product of two retries
  becomes linear in each step by the lemma `Products`. `SleepInv` says that who sleeps has an attempt left.
- `AnswersBounded`, `AmbiguousOnlyByRace` and `StaysSettled` follow from one lemma, `Effects`: for each prompt a step begins to ask,
  which it does only if there is no answer, or trades an asking request for an answer, or leaves both as they are, or fewer. `RaceInv`: of a prompt that was not raced for, answers and asking requests are one together, or none.

`SnapshotsProofs`, for any number of writers and any course of the chain; of `Holdings`, for any tokens, amounts, page and history:

- `TypeCorrect`, `RowHeldAlways`, `TotalHasSnapshotAlways`, `AloneWritesAllAlways`, `SyncedAtForwardAlways`, `NobodyStuckEver`,
  `WorkShrinksAlways`; `HoldingsShownAlways`.
- `CopyInv`: a writer that was not overtaken has loaded the row as it is; so what it does not write, because it does not differ, is
  there already. `ClockInv`: every time that is stored or about to be lies behind the clock, and a writer's is later than the one it loaded.
- `HoldingsShown`: the newest transfers, one page of them, are the first of the history (`NewestIsPrefix`), so what a covered token has is on the page. Its
  sums over the page and over the history are then sums of one function, what they leave out being no transfer of the token (`CoveredAmount`): no induction over the
  history is needed.

`WebClientProofs`, for any number of logins and initData and any durations; of `ClientIp`, for any addresses, header and proxies:

- `TypeCorrect`, `PassesBoundedAlways`, `PassesApartAlways`, `WorkShrinksAlways`, of a specification that contains all of `LoginOnce`;
  `KeyIsOutsideAlways`.
- `Dated` says when a request on its way to Redis was verified, `Passed` when one has passed, `Remembered` that Redis keeps the initData for
  `NonceTtl` from then on. From the three, a pass comes when the last one is forgotten (`PassIsApart`). `Paced` adds up from the first: the `n`th pass is at least
  `n - 1` times `NonceTtl` after a moment when initData was at most `Ahead` ahead, and at most `MaxAge + Delay` after it was signed.
- `KeyIsOutside` needs `HopInv`: what the walk should come to (`Goal`) is the sender, or the entry at which the walk back stops (`OneStop`: there is one such entry at
  most), which appending the sender to the header either keeps or moves to the end.

`SchemaProofs`, for any rows and any number of deletions:

- `TypeCorrect`, `NoDanglingRowAlways`, `DeletesWholeAlways`, `InTurnAlways`, `NobodyStuckEver`, `WorkShrinksAlways` (for finitely many keys).
- A deletion commits what it holds, so what it holds must be closed by then (`Settled`: all that refers to it is held too), hang together
  (`Chained`) and contain what was asked for (`Rooted`). An insert refers to no row that anyone holds; `Filled` and
  `Quiet` keep migrations and rows apart; `Keyed` and `Single` make "the row with this id" one row.
- `InTurn`: the guards of `CreateTable` and `DropTable` are never what a migration waits for, since every table refers only to earlier ones of `Order`
  (`EarlierOnly`).

**Waiting.** Liveness itself is only model-checked: `TaskEnds`, `LockFreed`, `RequestEnds` (three modules), `WriterEnds`, `DeletionEnds` and
`MigrationEnds` need fairness and `ENABLED`, which the prover does not reach. What they rest on is proved, as two theorems that say for any
number of participants what a small instance cannot:

- `NobodyStuck`: who waits for a lock is waiting for someone who can take a step, or is in a deadlock that PostgreSQL ends. `CanStep` says
  without `ENABLED` when that is; on the instances of the runs TLC finds the two the same in every state.
- `WorkShrinks`: a step of its own takes a task, request, writer or deletion nearer to its end, by a number with a bound, and no step of anybody else,
  whether it stores, deletes, fails or restarts, takes it back.

Of `LockFreed` nothing of the kind is said: it is the fairness of the TTL and no more. That from the two theorems and fairness the end follows is
left to TLC. `AiExplain` and `WebClient` have no `NobodyStuck`, as nobody waits there; nor has `HttpRetry` a proof module: `AiExplain` contains it.

No module uses a recursive operator.

## 5. Not modelled

- Signatures and hashes (HMAC of initData, tokens, EIP-55), URL safety and DNS answers, the prompts' wording and its
  cleaning, parsing of HTTP answers, `schemas/models.py`, formatting: no
  protocol state, and characters are not what a model checker is for. Configuration enters as constants.
- The GET handlers and their pages: each is one query of committed rows.
- The bot's two commands, which keep no state; the web client's pages, which are views over the API.
- `services/wallets.py` and `services/alerts.py`, which repeat the handlers, `with_retry`, `rotate_session` and
  `fetch_portfolio_summary`: nothing calls them.
- The mock provider's data: the models let balances and transactions be anything.
- The durations of the retries: a request that waits for a provider may take any time.
- The generator of `get_db`, which is closed when Python gets to it (deps.py:17). Safety does not depend on it: `Fail` may come at any later time.

## 6. Where code, documents and intentions differ

Shown by a run of their own:

- `sync_sent_twice`: README.md:22 promises idempotent tasks. A message leaves before the transaction that records it commits
  (tasks.py:227); if that fails, the transaction gets a new id in the next sync, and the delivery's signature is a hash of the id
  (tasks.py:252), so the same message is sent again.
- `web_token`: api.ts:43 compares the path with a prefix that is only put in front of it at api.ts:46. No request carries the token, the API
  answers 401, and api.ts:48-50 drops the token.
- `replay`: README.md:80 says that replay is blocked with a TTL "matching the freshness window". The nonce lives 300 s from its use (auth.py:48). initData
  is fresh until 300 s after its date (config.py:31), and its date may be 60 s ahead of the API's clock (telegram.py:103). Used at once with a clock that is
  ahead, it is forgotten before it is stale, and passes again; `PassesBounded` says how often. With a longer `initdata_max_age_seconds`, which
  may be up to 3600 (config.py:89), no difference of clocks is needed; `initdata_replay_window_seconds` (config.py:32) is read by nothing.

Met while modelling, and visible in how the properties are stated:

- A page is all that a sync reads (tasks.py:74): with more new transactions than that, the oldest are lost for good. `NoGap` is stated for what is
  on the page. Transactions of value 0, as token transfers are, take places of the page and are then dropped (etherscan.py:204), and
  `token_transfer` alerts have nothing to fire for with that provider. `balance_above` alerts fire for nothing at all (tasks.py:248).
- The wallet is loaded before the lock is taken (tasks.py:59, :63), and a column is not written if it equals what was loaded. If the balance returns to
  that value while another task has written a different one, the row keeps the other: `AloneWritesAll` is stated for writers that were not overtaken.
  `last_synced_at` may go back for the same reason.
- A snapshot writes the balance without storing transactions (wallets.py:254), and may replace a newer one: the balance in the row may be ahead of
  the stored transactions, and may go back, when snapshots are taken. `NoGap` and `BalanceMonotone` speak of what the syncs fetch.
- A message that Telegram refused, or that was never tried because no bot token is set (notifications.py:10-11), is stored as sent and not tried
  again (tasks.py:149-151): `DeliveredWasTried` allows for it.
- A PATCH that changes no column commits nothing; if its row was deleted meanwhile, only the refresh after the commit fails (wallets.py:145, alerts.py:108).
- Outside production each request gets a limiter with an empty memory (rate_limit.py:243-246), which limits nothing.
- Quotas are counted before the insert and without a lock: requests at a time pass the quotas of sessions (users.py:51-71), wallets and alerts
  together by less than their number. `SessionsBounded` and `WalletBook` say so.
- Two answers stored for one prompt make `scalar_one_or_none` raise for every later request for it (ai_explain.py:57, :107), until the wallet is deleted.
- A permanent error of the AI provider is wrapped in `AiProviderError` and tried three times like a passing one.
- A transfer of a wallet to itself counts as received, and what is older than the page is missing, in the holdings (etherscan.py:135-161).
- The deletion of an alert and of its wallet take their rows in opposite orders; PostgreSQL ends one of the two with an error.
- A login that fails after its initData was marked as used cannot be repeated with it (auth.py:48, :57).
- No sync starts by itself: the worker does not read its broker, and nothing schedules it (run_worker.py:27).

## 7. What is left

1. Waiting times: the sum of retries and Retry-After of a fetch against the 120 s of the lock, which would replace the fault `slow_sync`.
2. Pages of lists against inserts and deletions between two of them.
3. One composition of `Snapshots` with all of `WalletSync` instead of the sync as a writer of one row.
