------------------------------ MODULE Sessions ------------------------------
(***************************************************************************)
(* Login, logout and revoke-all (api/v1/auth.py, services/users.py) of ONE *)
(* user: concurrent requests over the tables users and wallet_sessions in  *)
(* PostgreSQL, READ COMMITTED.                                             *)
(*                                                                         *)
(* user, stored and revoked are the committed rows; marked[h] and mine[h]  *)
(* are what the open transaction of request h has written: sessions it has *)
(* revoked, whose rows it holds locked, and the one it has inserted.       *)
(* An UPDATE sees the rows of its own start, locks them one by one and     *)
(* waits for those that another transaction holds.                         *)
(*                                                                         *)
(* A login starts here when its initData is verified and marked as used    *)
(* and the limits have let it pass.                                        *)
(***************************************************************************)
EXTENDS Integers, FiniteSets

CONSTANTS
  Handlers,   \* bound: requests under way at a time
  Sessions,   \* bound: sessions ever stored
  Quota,      \* min(max_sessions_per_user, MAX_ACTIVE_SESSIONS_HARD_CAP)
  MaxExpired, \* bound: sessions that expire
  NoOne       \* nobody holds the row lock of the user

ASSUME SessionsAssumption ==
  /\ IsFiniteSet(Handlers) /\ IsFiniteSet(Sessions)
  /\ NoOne \notin Handlers
  /\ Quota \in Nat \ {0} /\ MaxExpired \in Nat

VARIABLES
  user,      \* the row of the user is stored
  stored,    \* sessions stored
  revoked,   \* revoked_at is set
  expired,   \* expires_at has passed
  userLock,  \* the request that has inserted or updated the user's row
  pc,        \* where each request stands
  kind,      \* what each request is
  target,    \* rows that the UPDATE of a request has yet to lock
  marked,    \* rows it has locked and updated
  mine,      \* the session it has inserted, if any
  \* History, read by properties only:
  before     \* sessions that were active when the request decided to revoke

tableVars   == <<user, stored, revoked>>
requestVars == <<userLock, target, marked, mine>>
vars == <<tableVars, expired, pc, kind, requestVars, before>>

Kinds == {"login", "logout", "revoke_all"}
Pcs   == {"idle", "user", "insert_user", "update_user", "count", "revoke", "locking",
          "insert", "commit"}

Active == stored \ (revoked \cup expired)

Init ==
  /\ user = FALSE
  /\ stored = {} /\ revoked = {} /\ expired = {}
  /\ userLock = NoOne
  /\ pc = [h \in Handlers |-> "idle"]
  /\ kind = [h \in Handlers |-> "login"]
  /\ target = [h \in Handlers |-> {}]
  /\ marked = [h \in Handlers |-> {}]
  /\ mine = [h \in Handlers |-> {}]
  /\ before = [h \in Handlers |-> {}]

Goto(h, label) == pc' = [pc EXCEPT ![h] = label]

-----------------------------------------------------------------------------
(* The requests.                                                           *)

Unused == Sessions \ (stored \cup UNION {mine[h] : h \in Handlers})

Entitled == {h \in Handlers : pc[h] # "idle" /\ kind[h] = "login" /\ mine[h] = {}}

StartLogin(h) ==
  /\ pc[h] = "idle"
  /\ Cardinality(Entitled) < Cardinality(Unused)
  /\ kind' = [kind EXCEPT ![h] = "login"]
  /\ Goto(h, "user")
  /\ UNCHANGED <<tableVars, expired, requestVars, before>>

\* get_current_user finds the session of the token active.
StartLogout(h, s) ==
  /\ pc[h] = "idle"
  /\ s \in Active
  /\ kind' = [kind EXCEPT ![h] = "logout"]
  /\ before' = [before EXCEPT ![h] = {s}]
  /\ Goto(h, "revoke")
  /\ UNCHANGED <<tableVars, expired, requestVars>>

StartRevokeAll(h) ==
  /\ pc[h] = "idle"
  /\ Active # {}
  /\ kind' = [kind EXCEPT ![h] = "revoke_all"]
  /\ before' = [before EXCEPT ![h] = Active]
  /\ Goto(h, "revoke")
  /\ UNCHANGED <<tableVars, expired, requestVars>>

-----------------------------------------------------------------------------
(* upsert_user_by_telegram.                                                *)

\* Whether a profile has changed is up to Telegram.
SelectUser(h) ==
  /\ pc[h] = "user"
  /\ \/ ~user /\ Goto(h, "insert_user")
     \/ user /\ (Goto(h, "update_user") \/ Goto(h, "count"))
  /\ UNCHANGED <<tableVars, expired, kind, requestVars, before>>

WriteUser(h) ==
  /\ \/ pc[h] = "insert_user" /\ ~user
     \/ pc[h] = "update_user"
  /\ userLock = NoOne
  /\ userLock' = h
  /\ Goto(h, "count")
  /\ UNCHANGED <<tableVars, expired, kind, target, marked, mine, before>>

-----------------------------------------------------------------------------
(* create_session, revoke_session and revoke_all_sessions.                 *)

\* Mutant of QuotaFull: > for >=.
QuotaOverfull == Cardinality(Active) > Quota

QuotaFull == Cardinality(Active) >= Quota

Count(h) ==
  /\ pc[h] = "count"
  /\ Goto(h, IF QuotaFull THEN "revoke" ELSE "insert")
  /\ before' = [before EXCEPT ![h] = IF QuotaFull THEN Active ELSE {}]
  /\ UNCHANGED <<tableVars, expired, kind, requestVars>>

Locked(s) == \E h \in Handlers : s \in marked[h]

\* Mutant of Found: rows that are locked are skipped.
FoundUnlocked(h) == {s \in stored \ revoked : ~Locked(s)}

\* The rows the UPDATE starts with: expired sessions are among them.
Found(h) == (IF kind[h] = "logout" THEN before[h] ELSE stored) \ revoked

StartUpdate(h) ==
  /\ pc[h] = "revoke"
  /\ target' = [target EXCEPT ![h] = Found(h)]
  /\ Goto(h, "locking")
  /\ UNCHANGED <<tableVars, expired, kind, userLock, marked, mine, before>>

\* A row that was revoked while the UPDATE waited for it no longer matches.
LockRow(h, s) ==
  /\ pc[h] = "locking"
  /\ s \in target[h] /\ ~Locked(s)
  /\ target' = [target EXCEPT ![h] = @ \ {s}]
  /\ marked' = [marked EXCEPT ![h] = IF s \in revoked THEN @ ELSE @ \cup {s}]
  /\ UNCHANGED <<tableVars, expired, pc, kind, userLock, mine, before>>

UpdateDone(h) ==
  /\ pc[h] = "locking"
  /\ target[h] = {}
  /\ Goto(h, IF kind[h] = "login" THEN "insert" ELSE "commit")
  /\ UNCHANGED <<tableVars, expired, kind, requestVars, before>>

InsertSession(h) ==
  /\ pc[h] = "insert"
  /\ \E s \in Unused : mine' = [mine EXCEPT ![h] = {s}]
  /\ Goto(h, "commit")
  /\ UNCHANGED <<tableVars, expired, kind, userLock, target, marked, before>>

-----------------------------------------------------------------------------
(* The end of a request.                                                   *)

\* Mutant of FreeUser: the connection goes back with its row lock.
KeepUser(h) == userLock' = userLock

FreeUser(h) == userLock' = IF userLock = h THEN NoOne ELSE userLock

Close(h) ==
  /\ Goto(h, "idle")
  /\ kind' = [kind EXCEPT ![h] = "login"]
  /\ target' = [target EXCEPT ![h] = {}]
  /\ marked' = [marked EXCEPT ![h] = {}]
  /\ mine' = [mine EXCEPT ![h] = {}]
  /\ before' = [before EXCEPT ![h] = {}]
  /\ FreeUser(h)

Commit(h) ==
  /\ pc[h] = "commit"
  /\ user' = (user \/ userLock = h)
  /\ stored' = stored \cup mine[h]
  /\ revoked' = revoked \cup marked[h]
  /\ Close(h)
  /\ UNCHANGED expired

Discard(h) == Close(h) /\ UNCHANGED <<tableVars, expired>>

\* Another first login has committed: unique violation of telegram_id.
UserExists(h) ==
  /\ pc[h] = "insert_user"
  /\ userLock = NoOne /\ user
  /\ Discard(h)

\* Requests that wait for each other's rows, each for one of another in S.
Deadlocked(S) ==
  \A h \in S : /\ pc[h] = "locking" /\ target[h] # {}
               /\ \A s \in target[h] : \E g \in S \ {h} : s \in marked[g]

\* PostgreSQL ends the wait of one of them with an error.
DeadlockDetected(h) ==
  /\ \E S \in SUBSET Handlers : h \in S /\ Deadlocked(S)
  /\ Discard(h)

\* A query or the commit fails, the client goes away or the process dies.
Fail(h) == pc[h] # "idle" /\ Discard(h)

-----------------------------------------------------------------------------
Expire(s) ==
  /\ s \in stored \ expired
  /\ Cardinality(expired) < MaxExpired
  /\ expired' = expired \cup {s}
  /\ UNCHANGED <<tableVars, pc, kind, requestVars, before>>

Step(h) ==
  \/ SelectUser(h) \/ WriteUser(h) \/ UserExists(h) \/ Count(h) \/ StartUpdate(h)
  \/ (\E s \in Sessions : LockRow(h, s)) \/ UpdateDone(h) \/ InsertSession(h)
  \/ Commit(h) \/ DeadlockDetected(h)

Start(h) == StartLogin(h) \/ StartRevokeAll(h) \/ \E s \in Sessions : StartLogout(h, s)

Next ==
  \/ \E h \in Handlers : Start(h) \/ Step(h) \/ Fail(h)
  \/ \E s \in Sessions : Expire(s)

Spec == Init /\ [][Next]_vars

\* The event loop goes on with a request whose query has answered; PostgreSQL
\* queues those who wait for a row, so that none is overtaken for ever, and
\* finds deadlocks.  No client has to send a request.
FairSpec == Spec /\ \A h \in Handlers : SF_vars(Step(h))

-----------------------------------------------------------------------------
(* Properties.                                                             *)

\* Every variable has its type; requests revoke sessions that are stored; a request
\* holds no rows and has written nothing before it comes to write, and holds
\* nothing when it has ended.
TypeOK ==
  /\ user \in BOOLEAN
  /\ stored \subseteq Sessions /\ revoked \subseteq stored /\ expired \subseteq stored
  /\ userLock \in Handlers \cup {NoOne}
  /\ pc \in [Handlers -> Pcs]
  /\ kind \in [Handlers -> Kinds]
  /\ target \in [Handlers -> SUBSET Sessions]
  /\ marked \in [Handlers -> SUBSET Sessions]
  /\ mine \in [Handlers -> SUBSET Sessions]
  /\ before \in [Handlers -> SUBSET Sessions]
  /\ \A h \in Handlers :
       /\ before[h] \subseteq stored /\ target[h] \subseteq stored /\ marked[h] \subseteq stored
       /\ pc[h] = "idle" => userLock # h
       /\ pc[h] # "locking" => target[h] = {}
       /\ pc[h] \notin {"locking", "insert", "commit"} => marked[h] = {}
       /\ pc[h] # "commit" => mine[h] = {}
       /\ pc[h] \in {"idle", "user", "insert_user", "update_user", "count"} => before[h] = {}

\* Concurrent logins pass the quota together, but by no more than they are:
\* the last of them may find one session less than the quota.
SessionsBounded == Cardinality(Active) < Quota + Cardinality(Handlers)

\* A request that revokes leaves no session out: when it comes to commit, each
\* one that was active when logout or revoke-all came in, or when a login found
\* the quota full, is revoked by it or by someone who has committed, however
\* the rows were locked in between.
RevokesAll ==
  \A h \in Handlers : pc[h] \in {"insert", "commit"} => before[h] \subseteq revoked \cup marked[h]

\* A request that has started ends, however many wait for the same rows.
RequestEnds == \A h \in Handlers : pc[h] # "idle" ~> pc[h] = "idle"
=============================================================================
