-------------------------- MODULE WalletSyncProofs --------------------------
(***************************************************************************)
(* Proofs about WalletSync, for any number of workers, alerts and          *)
(* transactions and any page size.  The faults are any, too, unless a      *)
(* theorem names what it needs of them.                                    *)
(***************************************************************************)
EXTENDS WalletSync, FiniteSetTheorems, WellFoundedInduction, TLAPS

\* A non-empty page has a newest transaction: the loop of sync_wallet_task
\* always takes an element of what is left of the page.
LEMMA NewestInPage ==
  ASSUME NEW S \in SUBSET Hash, S # {}
  PROVE  Newest(S) \in S
<1> DEFINE T == {MaxTx - h : h \in S}
           R == OpToRel(<, Nat)
<1>1. MaxTx \in Nat
  BY RulesAssumption DEF RulesAssumption
<1>2. T \subseteq Nat /\ T # {}
  BY <1>1 DEF Hash
<1>3. IsWellFoundedOn(R, Nat)
  BY NatLessThanWellFounded
<1>4. PICK x \in T : \A y \in T : ~ (<<y, x>> \in R)
  <2> HIDE DEF T, R
  <2> QED  BY <1>2, <1>3, WFMin
<1>5. PICK h \in S : x = MaxTx - h
  OBVIOUS
<1>6. ASSUME NEW k \in S PROVE k <= h
  <2>1. MaxTx - k \in T /\ MaxTx - k \in Nat /\ x \in Nat
    BY <1>2
  <2>2. ~ (MaxTx - k < x)
    BY <2>1, <1>4 DEF OpToRel
  <2>3. h \in Nat /\ k \in Nat
    BY DEF Hash
  <2> QED  BY <1>1, <1>5, <2>2, <2>3
<1> QED  BY <1>6 DEF Newest

-----------------------------------------------------------------------------
(* Types.                                                                  *)

LEMMA Bounds ==
  /\ MaxTx \in Nat /\ MaxSent \in Nat
  /\ NoOne \notin Workers
BY RulesAssumption, SyncAssumption DEF RulesAssumption, SyncAssumption, Height

\* The count of sent messages stays within its bound.
LEMMA CountSaturates ==
  ASSUME NEW x \in 0..MaxSent
  PROVE  (IF x < MaxSent THEN x + 1 ELSE x) \in 0..MaxSent
BY Bounds

LEMMA TypeInit == Init => TypeOK
<1> USE DEF Init, TypeOK
<1> SUFFICES ASSUME Init PROVE TypeOK
  OBVIOUS
<1>1. chain \in Height /\ lastSync \in [balance : Height, page : Height]
  BY Bounds DEF Height
<1>2. /\ seen \in [Workers -> Height] /\ page \in [Workers -> Height]
      /\ sent \in [Delivery -> 0..MaxSent]
  BY Bounds DEF Height
<1>3. pc \in [Workers -> Pcs]
  BY DEF Pcs
<1>4. newTx \in [Workers -> SUBSET Hash] /\ newDel \in [Workers -> SUBSET Delivery]
  OBVIOUS
<1> QED  BY <1>1, <1>2, <1>3, <1>4 DEF InTransaction

\* Whatever it did to the tables, a task that closes its session leaves its
\* own variables well-typed and empty.
LEMMA SessionCloses ==
  ASSUME TypeOK, NEW w \in Workers, CloseSession(w)
  PROVE  /\ rowLock' \in Workers \cup {NoOne}
         /\ pc' \in [Workers -> Pcs]
         /\ seen' \in [Workers -> Height] /\ page' \in [Workers -> Height]
         /\ todo' \in [Workers -> SUBSET Hash] /\ pending' \in [Workers -> SUBSET Alerts]
         /\ newTx' \in [Workers -> SUBSET Hash] /\ newDel' \in [Workers -> SUBSET Delivery]
         /\ pc'[w] = "idle" /\ newTx'[w] = {} /\ newDel'[w] = {}
         /\ \A v \in Workers \ {w} : /\ pc'[v] = pc[v] /\ todo'[v] = todo[v]
                                   /\ newTx'[v] = newTx[v] /\ newDel'[v] = newDel[v]
<1> USE DEF TypeOK, CloseSession, FreeRow, Goto
<1>1. rowLock' \in Workers \cup {NoOne} /\ pc' \in [Workers -> Pcs]
  BY DEF Pcs
<1>2. seen' \in [Workers -> Height] /\ page' \in [Workers -> Height]
  BY Bounds DEF Height
<1>3. todo' \in [Workers -> SUBSET Hash] /\ pending' \in [Workers -> SUBSET Alerts]
  OBVIOUS
<1>4. newTx' \in [Workers -> SUBSET Hash] /\ newDel' \in [Workers -> SUBSET Delivery]
  OBVIOUS
<1>5. pc'[w] = "idle" /\ newTx'[w] = {} /\ newDel'[w] = {}
  OBVIOUS
<1> QED  BY <1>1, <1>2, <1>3, <1>4, <1>5

\* A task that closes its session without a commit.
LEMMA TypeClosed ==
  ASSUME TypeOK, NEW w \in Workers, CloseSession(w), UNCHANGED <<chain, dbVars, lock, msgVars>>,
         undone' \subseteq Delivery
  PROVE  TypeOK'
<1>1. /\ rowLock' \in Workers \cup {NoOne} /\ pc' \in [Workers -> Pcs]
      /\ seen' \in [Workers -> Height] /\ page' \in [Workers -> Height]
      /\ todo' \in [Workers -> SUBSET Hash] /\ pending' \in [Workers -> SUBSET Alerts]
      /\ newTx' \in [Workers -> SUBSET Hash] /\ newDel' \in [Workers -> SUBSET Delivery]
  BY SessionCloses
<1>2. \A v \in Workers : /\ pc'[v] \in {"evaluate", "fire"} => todo'[v] # {}
                         /\ pc'[v] \notin InTransaction => newTx'[v] = {} /\ newDel'[v] = {}
  BY SessionCloses DEF TypeOK, InTransaction
<1>3. /\ chain' \in Height /\ wallet' \in {"active", "inactive", "deleted"}
      /\ alerts' \in [Alerts -> {"none", "active", "paused", "deleted"}]
      /\ txs' \subseteq Hash /\ deliveries' \subseteq Delivery
      /\ lock' \in BOOLEAN /\ sent' \in [Delivery -> 0..MaxSent]
      /\ refused' \subseteq Delivery /\ watched' \subseteq Alerts
      /\ lastSync' \in [balance : Height, page : Height]
  BY DEF TypeOK, dbVars, msgVars
<1> QED  BY <1>1, <1>2, <1>3 DEF TypeOK

LEMMA TypeStep == TypeOK /\ [Next]_vars => TypeOK'
<1> SUFFICES ASSUME TypeOK, [Next]_vars PROVE TypeOK'
  OBVIOUS
<1> USE DEF TypeOK, Pcs, Delivery, Height, Hash, InTransaction, Goto,
            dbVars, sessionVars, writeVars, msgVars, apiUnchanged, FreeRow
<1>1. ASSUME NEW w \in Workers, Start(w) PROVE TypeOK'
  BY <1>1, Bounds, NewestInPage DEF Start
<1>2. ASSUME NEW w \in Workers, AcquireLock(w) PROVE TypeOK'
  BY <1>2, Bounds, NewestInPage DEF AcquireLock
<1>3. ASSUME NEW w \in Workers, LockedOut(w) PROVE TypeOK'
  <2>1. CloseSession(w) /\ UNCHANGED <<chain, dbVars, lock, msgVars>> /\ undone' \subseteq Delivery
    BY <1>3 DEF LockedOut
  <2> HIDE DEF TypeOK, dbVars, msgVars
  <2> QED  BY <2>1, TypeClosed
<1>4. ASSUME NEW w \in Workers, LockUnavailable(w) PROVE TypeOK'
  BY <1>4, Bounds, NewestInPage DEF LockUnavailable
<1>5. ASSUME NEW w \in Workers, FetchBalance(w) PROVE TypeOK'
  BY <1>5, Bounds, NewestInPage DEF FetchBalance
<1>6. ASSUME NEW w \in Workers, FetchTransactions(w) PROVE TypeOK'
  BY <1>6, Bounds, NewestInPage DEF FetchTransactions, Recent
<1>7. ASSUME NEW w \in Workers, FetchFails(w) PROVE TypeOK'
  BY <1>7, Bounds, NewestInPage DEF FetchFails
<1>8. ASSUME NEW w \in Workers, UpdateWallet(w) PROVE TypeOK'
  BY <1>8, Bounds, NewestInPage DEF UpdateWallet, Active
<1>9. ASSUME NEW w \in Workers, WalletGone(w) PROVE TypeOK'
  BY <1>9, Bounds, NewestInPage DEF WalletGone
<1>10. ASSUME NEW w \in Workers, SkipKnown(w) PROVE TypeOK'
  BY <1>10, Bounds, NewestInPage DEF SkipKnown
<1>11. ASSUME NEW w \in Workers, InsertTransaction(w) PROVE TypeOK'
  <2>1. newTx' = [newTx EXCEPT ![w] = @ \cup {Newest(todo[w])}] /\ Newest(todo[w]) \in Hash
    BY <1>11, NewestInPage DEF InsertTransaction
  <2>2. newTx' \in [Workers -> SUBSET Hash]
    BY <2>1
  <2>3. pc' = [pc EXCEPT ![w] = "evaluate"] /\ pc' \in [Workers -> Pcs] /\ todo[w] # {}
    BY <1>11 DEF InsertTransaction
  <2>4. UNCHANGED <<chain, dbVars, lock, sessionVars, rowLock, watched, newDel, undone, msgVars>>
    BY <1>11 DEF InsertTransaction
  <2> QED  BY <2>1, <2>2, <2>3, <2>4
<1>12. ASSUME NEW w \in Workers, SelectAlerts(w) PROVE TypeOK'
  BY <1>12, Bounds, NewestInPage DEF SelectAlerts, Active
<1>13. ASSUME NEW w \in Workers, TransactionDone(w) PROVE TypeOK'
  BY <1>13, Bounds, NewestInPage DEF TransactionDone
<1>14. ASSUME NEW w \in Workers, PageDone(w) PROVE TypeOK'
  BY <1>14, Bounds, NewestInPage DEF PageDone
<1>15. ASSUME NEW w \in Workers, QueryFails(w) PROVE TypeOK'
  BY <1>15, Bounds, NewestInPage DEF QueryFails
<1>16. ASSUME NEW w \in Workers, ReleaseLock(w) PROVE TypeOK'
  BY <1>16, Bounds, NewestInPage DEF ReleaseLock, AfterRelease
<1>17. ASSUME NEW w \in Workers, ReleaseUnavailable(w) PROVE TypeOK'
  BY <1>17, Bounds, NewestInPage DEF ReleaseUnavailable, AfterRelease
<1>18. ASSUME NEW w \in Workers, Commit(w) PROVE TypeOK'
  <2>1. CloseSession(w) /\ UNCHANGED <<chain, wallet, alerts, lock, undone, msgVars>>
    BY <1>18 DEF Commit
  <2>2. txs' \subseteq Hash /\ deliveries' \subseteq Delivery
    BY <1>18 DEF Commit
  <2>3. lastSync' \in [balance : Height, page : Height]
    BY <1>18 DEF Commit
  <2> HIDE DEF FreeRow, Delivery, Height, Hash, Pcs
  <2>4. /\ rowLock' \in Workers \cup {NoOne} /\ pc' \in [Workers -> Pcs]
        /\ seen' \in [Workers -> Height] /\ page' \in [Workers -> Height]
        /\ todo' \in [Workers -> SUBSET Hash] /\ pending' \in [Workers -> SUBSET Alerts]
        /\ newTx' \in [Workers -> SUBSET Hash] /\ newDel' \in [Workers -> SUBSET Delivery]
    BY <2>1, SessionCloses
  <2>5. \A v \in Workers : /\ pc'[v] \in {"evaluate", "fire"} => todo'[v] # {}
                           /\ pc'[v] \notin InTransaction => newTx'[v] = {} /\ newDel'[v] = {}
    BY <2>1, SessionCloses
  <2>6. /\ chain' \in Height /\ wallet' \in {"active", "inactive", "deleted"}
        /\ alerts' \in [Alerts -> {"none", "active", "paused", "deleted"}]
        /\ lock' \in BOOLEAN /\ sent' \in [Delivery -> 0..MaxSent]
        /\ undone' \subseteq Delivery /\ refused' \subseteq Delivery /\ watched' \subseteq Alerts
    BY <2>1
  <2> QED  BY <2>2, <2>3, <2>4, <2>5, <2>6
<1>19. ASSUME NEW w \in Workers, CommitFails(w) PROVE TypeOK'
  <2>1. CloseSession(w) /\ UNCHANGED <<chain, dbVars, lock, msgVars>> /\ undone' \subseteq Delivery
    BY <1>19 DEF CommitFails, Discard
  <2> HIDE DEF TypeOK, dbVars, msgVars
  <2> QED  BY <2>1, TypeClosed
<1>20. ASSUME NEW w \in Workers, Rollback(w) PROVE TypeOK'
  <2>1. CloseSession(w) /\ UNCHANGED <<chain, dbVars, lock, msgVars>> /\ undone' \subseteq Delivery
    BY <1>20 DEF Rollback, Discard
  <2> HIDE DEF TypeOK, dbVars, msgVars
  <2> QED  BY <2>1, TypeClosed
<1>21. ASSUME NEW w \in Workers, Crash(w) PROVE TypeOK'
  <2>1. CloseSession(w) /\ UNCHANGED <<chain, dbVars, lock, msgVars>> /\ undone' \subseteq Delivery
    BY <1>21 DEF Crash, Discard
  <2> HIDE DEF TypeOK, dbVars, msgVars
  <2> QED  BY <2>1, TypeClosed
<1>22. ASSUME NEW w \in Workers, NEW a \in Alerts, InsertDelivery(w, a) PROVE TypeOK'
  <2>1. Newest(todo[w]) \in Hash
    BY <1>22, NewestInPage DEF InsertDelivery
  <2>2. newDel' \in [Workers -> SUBSET Delivery]
    BY <1>22, <2>1 DEF InsertDelivery
  <2>3. ASSUME NEW v \in Workers, pc'[v] \notin InTransaction
        PROVE  newTx'[v] = {} /\ newDel'[v] = {}
    BY <1>22, <2>3 DEF InsertDelivery
  <2> QED  BY <1>22, <2>2, <2>3 DEF InsertDelivery
<1>23. ASSUME NEW w \in Workers, NEW a \in Alerts, AlertGone(w, a) PROVE TypeOK'
  BY <1>23, Bounds, NewestInPage DEF AlertGone
<1>24. ASSUME NEW w \in Workers, NEW a \in Alerts, Send(w, a) PROVE TypeOK'
  <2> DEFINE d == <<a, Newest(todo[w])>>
             n == IF sent[d] < MaxSent THEN sent[d] + 1 ELSE sent[d]
  <2>0. d \in Delivery
    BY <1>24 DEF Send, Inserted
  <2>1. sent' \in [Delivery -> 0..MaxSent]
    <3>1. sent' = [sent EXCEPT ![d] = n]
      BY <1>24 DEF Send
    <3> HIDE DEF d
    <3>2. sent[d] \in 0..MaxSent
      BY <2>0
    <3>3. n \in 0..MaxSent
      BY <3>2, CountSaturates
    <3> HIDE DEF n
    <3> QED  BY <3>1, <3>3
  <2>2. pending' \in [Workers -> SUBSET Alerts]
    BY <1>24 DEF Send
  <2> QED  BY <2>1, <2>2, <1>24 DEF Send
<1>25. ASSUME NEW w \in Workers, NEW a \in Alerts, SendFails(w, a) PROVE TypeOK'
  <2>1. <<a, Newest(todo[w])>> \in Delivery
    BY <1>25 DEF SendFails, Inserted
  <2>2. refused' \subseteq Delivery
    BY <1>25, <2>1 DEF SendFails
  <2>3. pending' \in [Workers -> SUBSET Alerts]
    BY <1>25 DEF SendFails
  <2> QED  BY <2>2, <2>3, <1>25 DEF SendFails
<1>26. ASSUME NewTransaction PROVE TypeOK'
  <2>1. chain + 1 \in Height
    BY <1>26, Bounds DEF NewTransaction
  <2> QED  BY <2>1, <1>26 DEF NewTransaction
<1>27. ASSUME LockExpires PROVE TypeOK'
  BY <1>27, Bounds, NewestInPage DEF LockExpires
<1>28. ASSUME PatchWallet PROVE TypeOK'
  BY <1>28, Bounds, NewestInPage DEF PatchWallet, Ledger!ToggleWallet
<1>29. ASSUME DeleteWallet PROVE TypeOK'
  BY <1>29, Bounds, NewestInPage DEF DeleteWallet, Ledger!RemoveWallet
<1>30. ASSUME NEW a \in Alerts, CreateAlert(a) PROVE TypeOK'
  BY <1>30, Bounds, NewestInPage DEF CreateAlert, Ledger!AddAlert
<1>31. ASSUME NEW a \in Alerts, PatchAlert(a) PROVE TypeOK'
  BY <1>31, Bounds, NewestInPage DEF PatchAlert, Ledger!ToggleAlert
<1>32. ASSUME NEW a \in Alerts, DeleteAlert(a) PROVE TypeOK'
  BY <1>32, Bounds, NewestInPage DEF DeleteAlert, Ledger!RemoveAlert
<1>33. ASSUME NEW w \in Workers, StartSnapshot(w) PROVE TypeOK'
  BY <1>33, Bounds DEF StartSnapshot
<1>34. ASSUME NEW w \in Workers, WriteSnapshot(w) PROVE TypeOK'
  BY <1>34, Bounds DEF WriteSnapshot
<1>35. ASSUME NEW w \in Workers, EndSnapshot(w) PROVE TypeOK'
  <2>1. CloseSession(w) /\ UNCHANGED <<chain, dbVars, lock, msgVars>> /\ undone' \subseteq Delivery
    BY <1>35 DEF EndSnapshot
  <2> HIDE DEF TypeOK, dbVars, msgVars
  <2> QED  BY <2>1, TypeClosed
<1>36. CASE UNCHANGED vars
  BY <1>36 DEF vars
<1> QED
  BY <1>1, <1>2, <1>3, <1>4, <1>5, <1>6, <1>7, <1>8, <1>9, <1>10, <1>11, <1>12, <1>13, <1>14, <1>15, <1>16, <1>17, <1>18, <1>19, <1>20, <1>21, <1>22, <1>23, <1>24, <1>25, <1>26, <1>27, <1>28, <1>29, <1>30, <1>31, <1>32, <1>33, <1>34, <1>35, <1>36
     DEF Next, TaskStep, FetchStep, DatabaseStep, EndStep, SnapshotStep, ApiStep

\* Every reachable state is well-typed, and a worker that is not inside its
\* database transaction has written nothing.
THEOREM TypeCorrect == Spec => []TypeOK
<1>1. Init => TypeOK
  BY TypeInit
<1>2. TypeOK /\ [Next]_vars => TypeOK'
  BY TypeStep
<1> QED  BY <1>1, <1>2, PTL DEF Spec

-----------------------------------------------------------------------------
(* The tables and the open transactions.                                   *)

\* What relates the variables to one another: with TypeOK it is inductive.
Related == SessionInv /\ OneWriter /\ NoOrphans

LEMMA RelatedInit == Init => Related
BY Bounds DEF Init, Related, SessionInv, OneWriter, NoOrphans, Active, InTransaction

\* Taking an alert whose delivery is inserted off the pending ones, whether
\* its message left or not, passes over no alert.
LEMMA PendingShrinks ==
  ASSUME TypeOK, Related, NEW w \in Workers, NEW a \in Inserted(w),
         pending' = [pending EXCEPT ![w] = @ \ {a}],
         UNCHANGED <<dbVars, pc, todo, writeVars, watched>>
  PROVE  Related'
<1> USE DEF TypeOK, dbVars, writeVars, Related
<1>1. OneWriter' /\ NoOrphans'
  BY DEF OneWriter, NoOrphans
<1>2. \A v \in Workers : pending'[v] \subseteq pending[v]
  OBVIOUS
<1>3. ASSUME NEW v \in Workers, NEW h \in newTx[v], NEW b \in watched, Fires(b, h),
             rowLock = v, pc[v] \notin {"unwind", "rollback"}
      PROVE  <<b, h>> \in newDel[v] \/ Outstanding(v, b, h)'
  <2>1. <<b, h>> \in newDel[v] \/ Outstanding(v, b, h)
    BY <1>3 DEF SessionInv
  <2>2. CASE v = w /\ b = a /\ h = Newest(todo[w])
    BY <2>2 DEF Inserted
  <2>3. CASE ~ (v = w /\ b = a /\ h = Newest(todo[w]))
    BY <2>1, <2>3 DEF Outstanding
  <2> QED  BY <2>2, <2>3
<1>4. SessionInv'
  BY <1>2, <1>3 DEF SessionInv, Active
<1> QED  BY <1>1, <1>4

\* While nobody has the wallet's row, no transaction holds anything back.
LEMMA NothingWritten ==
  ASSUME OneWriter, rowLock = NoOne
  PROVE  \A v \in Workers : newTx[v] = {} /\ newDel[v] = {}
BY Bounds DEF OneWriter

LEMMA RelatedStep == TypeOK /\ Related /\ [Next]_vars => Related'
<1> SUFFICES ASSUME TypeOK, Related, [Next]_vars PROVE Related'
  OBVIOUS
<1> USE DEF TypeOK, Delivery, InTransaction, Goto, dbVars, sessionVars, writeVars, msgVars,
            apiUnchanged, Related,
            SetNx, RowFree, FreeRow, AlertsDone, Unreferenced, SessionInv, OneWriter, NoOrphans, Outstanding, Active
<1>1. ASSUME NEW w \in Workers, Start(w) PROVE Related'
  BY <1>1, Bounds DEF Start
<1>2. ASSUME NEW w \in Workers, AcquireLock(w) PROVE Related'
  BY <1>2, Bounds DEF AcquireLock
<1>3. ASSUME NEW w \in Workers, LockedOut(w) PROVE Related'
  BY <1>3, Bounds DEF LockedOut, CloseSession
<1>4. ASSUME NEW w \in Workers, LockUnavailable(w) PROVE Related'
  BY <1>4, Bounds DEF LockUnavailable
<1>5. ASSUME NEW w \in Workers, FetchBalance(w) PROVE Related'
  BY <1>5, Bounds DEF FetchBalance
<1>6. ASSUME NEW w \in Workers, FetchTransactions(w) PROVE Related'
  BY <1>6, Bounds DEF FetchTransactions
<1>7. ASSUME NEW w \in Workers, FetchFails(w) PROVE Related'
  BY <1>7, Bounds DEF FetchFails
<1>8. ASSUME NEW w \in Workers, UpdateWallet(w) PROVE Related'
  <2>1. \A v \in Workers : newTx[v] = {} /\ newDel[v] = {}
    <3>1. rowLock = NoOne
      BY <1>8 DEF UpdateWallet, RowFree
    <3> QED  BY <3>1, NothingWritten
  <2>2. OneWriter' /\ NoOrphans'
    BY <1>8, <2>1 DEF UpdateWallet
  <2>3. SessionInv'
    BY <1>8, <2>1, Bounds DEF UpdateWallet
  <2> QED  BY <2>2, <2>3
<1>9. ASSUME NEW w \in Workers, WalletGone(w) PROVE Related'
  BY <1>9, Bounds DEF WalletGone
<1>10. ASSUME NEW w \in Workers, SkipKnown(w) PROVE Related'
  BY <1>10, Bounds DEF SkipKnown
<1>11. ASSUME NEW w \in Workers, InsertTransaction(w) PROVE Related'
  BY <1>11, Bounds DEF InsertTransaction, Known
<1>12. ASSUME NEW w \in Workers, SelectAlerts(w) PROVE Related'
  BY <1>12, Bounds DEF SelectAlerts
<1>13. ASSUME NEW w \in Workers, TransactionDone(w) PROVE Related'
  BY <1>13, Bounds DEF TransactionDone
<1>14. ASSUME NEW w \in Workers, PageDone(w) PROVE Related'
  BY <1>14, Bounds DEF PageDone
<1>15. ASSUME NEW w \in Workers, QueryFails(w) PROVE Related'
  BY <1>15, Bounds DEF QueryFails
<1>16. ASSUME NEW w \in Workers, ReleaseLock(w) PROVE Related'
  BY <1>16, Bounds DEF ReleaseLock, AfterRelease
<1>17. ASSUME NEW w \in Workers, ReleaseUnavailable(w) PROVE Related'
  BY <1>17, Bounds DEF ReleaseUnavailable, AfterRelease
<1>18. ASSUME NEW w \in Workers, Commit(w) PROVE Related'
  BY <1>18, Bounds DEF Commit, CloseSession
<1>19. ASSUME NEW w \in Workers, CommitFails(w) PROVE Related'
  BY <1>19, Bounds DEF CommitFails, Discard, CloseSession
<1>20. ASSUME NEW w \in Workers, Rollback(w) PROVE Related'
  BY <1>20, Bounds DEF Rollback, Discard, CloseSession
<1>21. ASSUME NEW w \in Workers, Crash(w) PROVE Related'
  BY <1>21, Bounds DEF Crash, Discard, CloseSession
<1>22. ASSUME NEW w \in Workers, NEW a \in Alerts, InsertDelivery(w, a) PROVE Related'
  <2> DEFINE h == Newest(todo[w])
  <2>1. /\ h \in newTx[w] /\ Fires(a, h) /\ alerts[a] \in {"active", "paused"}
        /\ rowLock = w
    BY <1>22 DEF InsertDelivery
  <2>2. newDel'[w] = newDel[w] \cup {<<a, h>>}
    BY <1>22 DEF InsertDelivery
  <2>3. \A v \in Workers \ {w} : newDel'[v] = newDel[v]
    BY <1>22 DEF InsertDelivery
  <2> HIDE DEF h
  <2>4. \A d \in newDel'[w] :
          d[2] \in newTx[w] /\ Fires(d[1], d[2]) /\ alerts[d[1]] \in {"active", "paused"}
    BY <2>1, <2>2
  <2>5. OneWriter' /\ NoOrphans'
    BY <1>22, <2>1, <2>3 DEF InsertDelivery
  <2>6. SessionInv'
    BY <1>22, <2>2, <2>3, <2>4 DEF InsertDelivery
  <2> QED  BY <2>5, <2>6
<1>23. ASSUME NEW w \in Workers, NEW a \in Alerts, AlertGone(w, a) PROVE Related'
  BY <1>23, Bounds DEF AlertGone
<1>24. ASSUME NEW w \in Workers, NEW a \in Alerts, Send(w, a) PROVE Related'
  <2>1. pending' = [pending EXCEPT ![w] = @ \ {a}] /\ a \in Inserted(w)
    BY <1>24 DEF Send
  <2>2. UNCHANGED <<dbVars, pc, todo, writeVars, watched>>
    BY <1>24 DEF Send
  <2> QED  BY <2>1, <2>2, PendingShrinks
<1>25. ASSUME NEW w \in Workers, NEW a \in Alerts, SendFails(w, a) PROVE Related'
  <2>1. pending' = [pending EXCEPT ![w] = @ \ {a}] /\ a \in Inserted(w)
    BY <1>25 DEF SendFails
  <2>2. UNCHANGED <<dbVars, pc, todo, writeVars, watched>>
    BY <1>25 DEF SendFails
  <2> QED  BY <2>1, <2>2, PendingShrinks
<1>26. ASSUME NewTransaction PROVE Related'
  BY <1>26, Bounds DEF NewTransaction
<1>27. ASSUME LockExpires PROVE Related'
  BY <1>27, Bounds DEF LockExpires
<1>28. ASSUME PatchWallet PROVE Related'
  BY <1>28, Bounds DEF PatchWallet, Ledger!ToggleWallet
<1>29. ASSUME DeleteWallet PROVE Related'
  BY <1>29, Bounds DEF DeleteWallet, Ledger!RemoveWallet
<1>30. ASSUME NEW a \in Alerts, CreateAlert(a) PROVE Related'
  BY <1>30, Bounds DEF CreateAlert, Ledger!AddAlert
<1>31. ASSUME NEW a \in Alerts, PatchAlert(a) PROVE Related'
  BY <1>31, Bounds DEF PatchAlert, Ledger!ToggleAlert, Ledger!Existing
<1>32. ASSUME NEW a \in Alerts, DeleteAlert(a) PROVE Related'
  BY <1>32, Bounds DEF DeleteAlert, Ledger!RemoveAlert, Ledger!Existing
<1>33. ASSUME NEW w \in Workers, StartSnapshot(w) PROVE Related'
  BY <1>33, Bounds DEF StartSnapshot
<1>34. ASSUME NEW w \in Workers, WriteSnapshot(w) PROVE Related'
  <2>1. \A v \in Workers : newTx[v] = {} /\ newDel[v] = {}
    <3>1. rowLock = NoOne
      BY <1>34 DEF WriteSnapshot, RowFree
    <3> QED  BY <3>1, NothingWritten
  <2>2. OneWriter' /\ NoOrphans'
    BY <1>34, <2>1 DEF WriteSnapshot
  <2>3. SessionInv'
    BY <1>34, <2>1, Bounds DEF WriteSnapshot
  <2> QED  BY <2>2, <2>3
<1>35. ASSUME NEW w \in Workers, EndSnapshot(w) PROVE Related'
  BY <1>35, Bounds DEF EndSnapshot, CloseSession
<1>36. CASE UNCHANGED vars
  BY <1>36 DEF vars
<1> QED
  BY <1>1, <1>2, <1>3, <1>4, <1>5, <1>6, <1>7, <1>8, <1>9, <1>10, <1>11, <1>12, <1>13, <1>14, <1>15, <1>16, <1>17, <1>18, <1>19, <1>20, <1>21, <1>22, <1>23, <1>24, <1>25, <1>26, <1>27, <1>28, <1>29, <1>30, <1>31, <1>32, <1>33, <1>34, <1>35, <1>36
     DEF Next, TaskStep, FetchStep, DatabaseStep, EndStep, SnapshotStep, ApiStep

\* Every reachable state satisfies the inductive invariant.
LEMMA Invariance == Spec => [](TypeOK /\ Related)
<1>1. Init => TypeOK /\ Related
  BY TypeInit, RelatedInit
<1>2. (TypeOK /\ Related) /\ [Next]_vars => (TypeOK /\ Related)'
  BY TypeStep, RelatedStep
<1> QED  BY <1>1, <1>2, PTL DEF Spec

\* One transaction at a time writes for the wallet, and it inserts no row
\* that is stored already, however unreliable the Redis lock is.
THEOREM OneWriterAlways == Spec => []OneWriter
<1>1. Related => OneWriter
  BY DEF Related
<1> QED  BY <1>1, Invariance, PTL

\* An open transaction agrees at all times with the tables that the API
\* changes under it.
THEOREM SessionAgrees == Spec => []SessionInv
<1>1. Related => SessionInv
  BY DEF Related
<1> QED  BY <1>1, Invariance, PTL

\* Every stored delivery names a stored transaction and an alert that exists
\* and fires for it, and a deleted wallet has neither.
THEOREM NoOrphansAlways == Spec => []NoOrphans
<1>1. Related => NoOrphans
  BY DEF Related
<1> QED  BY <1>1, Invariance, PTL

-----------------------------------------------------------------------------
(* SyncLedger.                                                             *)

LEMMA LedgerInitially == Init => Ledger!LedgerInit
BY DEF Init, Ledger!LedgerInit

\* A commit records a batch: the transactions are new, and the deliveries are
\* those the ledger asks for.
LEMMA CommitRecords ==
  ASSUME TypeOK, Related, NEW w \in Workers, Commit(w), rowLock = w
  PROVE  Ledger!RecordBatch(newTx[w], newDel[w])
<1> USE DEF Related
<1>1. /\ pc[w] = "commit"
      /\ txs' = txs \cup newTx[w] /\ deliveries' = deliveries \cup newDel[w]
      /\ UNCHANGED <<wallet, alerts, watched>>
  BY DEF Commit, msgVars
<1>2. wallet # "deleted" /\ newTx[w] \cap txs = {}
  BY Bounds DEF SessionInv, OneWriter
<1>3. newDel[w] \subseteq {d \in Ledger!Existing \X newTx[w] : Fires(d[1], d[2])}
  BY DEF SessionInv, TypeOK, Delivery, Ledger!Existing
<1>4. \A h \in newTx[w], a \in watched : Fires(a, h) => <<a, h>> \in newDel[w]
  BY <1>1 DEF SessionInv, Outstanding
<1>5. {d \in watched \X newTx[w] : Ledger!Fires(d[1], d[2])} \subseteq newDel[w]
  BY <1>4 DEF Fires, Ledger!Fires
<1>6. newDel[w] \subseteq {d \in Ledger!Existing \X newTx[w] : Ledger!Fires(d[1], d[2])}
  BY <1>3 DEF Fires, Ledger!Fires
<1> QED  BY <1>1, <1>2, <1>5, <1>6 DEF Ledger!RecordBatch

\* Every other step of a task leaves the tables alone, or begins a batch.
LEMMA TaskStepRecords ==
  ASSUME TypeOK, Related, NEW w \in Workers,
         Start(w) \/ StartSnapshot(w) \/ TaskStep(w) \/ Crash(w)
  PROVE  [Ledger!LedgerNext]_(Ledger!tables)
<1> USE DEF Ledger!tables
<1>1. CASE Commit(w)
  <2>1. CASE rowLock = w
    <3>1. Ledger!RecordBatch(newTx[w], newDel[w])
      BY <1>1, <2>1, CommitRecords
    <3>2. newTx[w] \in SUBSET Ledger!Hash /\ newDel[w] \in SUBSET Ledger!Delivery
      BY DEF TypeOK, Delivery, Ledger!Delivery, Hash, Ledger!Hash
    <3> QED  BY <3>1, <3>2 DEF Ledger!LedgerNext
  <2>2. CASE rowLock # w
    BY <1>1, <2>2 DEF Commit, msgVars
  <2> QED  BY <2>1, <2>2
<1>2. CASE UpdateWallet(w)
  BY <1>2 DEF UpdateWallet, dbVars, Active, Ledger!LedgerNext, Ledger!BeginBatch, Ledger!Active
<1>3. CASE ~ Commit(w) /\ ~ UpdateWallet(w)
  BY <1>3 DEF Start, StartSnapshot, TaskStep, FetchStep, DatabaseStep, EndStep, SnapshotStep,
       WriteSnapshot, EndSnapshot, dbVars, msgVars, Discard,
       Crash, AcquireLock, LockedOut, LockUnavailable, FetchBalance, FetchTransactions,
       FetchFails, WalletGone, SkipKnown, InsertTransaction, SelectAlerts, TransactionDone,
       PageDone, QueryFails, InsertDelivery, AlertGone, Send, SendFails, ReleaseLock,
       ReleaseUnavailable, CommitFails, Rollback
<1> QED  BY <1>1, <1>2, <1>3

LEMMA StepRecords == TypeOK /\ Related /\ [Next]_vars => [Ledger!LedgerNext]_(Ledger!tables)
<1> SUFFICES ASSUME TypeOK, Related, [Next]_vars
             PROVE  [Ledger!LedgerNext]_(Ledger!tables)
  OBVIOUS
<1>1. CASE \E w \in Workers : Start(w) \/ StartSnapshot(w) \/ TaskStep(w) \/ Crash(w)
  BY <1>1, TaskStepRecords
<1>2. CASE NewTransaction \/ LockExpires \/ UNCHANGED vars
  BY <1>2 DEF NewTransaction, LockExpires, vars, dbVars, msgVars, Ledger!tables
<1>3. CASE ApiStep
  BY <1>3 DEF ApiStep, PatchWallet, DeleteWallet, CreateAlert, PatchAlert, DeleteAlert,
              Ledger!LedgerNext
<1> QED  BY <1>1, <1>2, <1>3 DEF Next

\* Concurrent syncs, their failures and the API requests between them show the
\* readers of the tables nothing but the steps of SyncLedger.
THEOREM SyncImplementsLedger == Spec => ImplementsLedger
<1>1. Init => Ledger!LedgerInit
  BY LedgerInitially
<1>2. TypeOK /\ Related /\ [Next]_vars => [Ledger!LedgerNext]_(Ledger!tables)
  BY StepRecords
<1> QED  BY <1>1, <1>2, Invariance, PTL DEF Spec, ImplementsLedger, Ledger!LedgerSpec

\* No commit misses an alert that was active from the first write of the sync
\* to its last.
THEOREM AlertsComplete == Spec => AlertComplete
<1>1. TypeOK /\ Related /\ [Next]_vars =>
        [\A h \in txs' \ txs, a \in watched : Fires(a, h) => <<a, h>> \in deliveries']_vars
  <2> SUFFICES ASSUME TypeOK, Related, [Next]_vars,
                      NEW h \in txs' \ txs, NEW a \in watched, Fires(a, h)
               PROVE  <<a, h>> \in deliveries'
    OBVIOUS
  <2>1. [Ledger!LedgerNext]_(Ledger!tables)
    BY StepRecords
  <2>2. PICK new \in SUBSET Ledger!Hash, fired \in SUBSET Ledger!Delivery :
          Ledger!RecordBatch(new, fired)
    BY <2>1 DEF Ledger!LedgerNext, Ledger!tables, Ledger!AddAlert, Ledger!ToggleAlert,
         Ledger!RemoveAlert, Ledger!ToggleWallet, Ledger!RemoveWallet, Ledger!BeginBatch
  <2>3. <<a, h>> \in fired
    BY <2>2 DEF Ledger!RecordBatch, Ledger!Fires, Fires
  <2> QED  BY <2>2, <2>3 DEF Ledger!RecordBatch
<1> QED  BY <1>1, Invariance, PTL DEF Spec, AlertComplete

-----------------------------------------------------------------------------
(* Gaps.                                                                   *)

\* What moved value in the Limit places of the page that ends at height n is in S.
HoldsPage(S, n) == \A h \in n - Limit + 1..n : h \in Hash /\ MovesValue(h) => h \in S

\* The page is fetched after the balance; what it has brought is stored, inserted or
\* still to come, and the page is done before its sync commits.
Complete ==
  /\ lastSync.balance <= lastSync.page
  /\ wallet = "deleted" \/ HoldsPage(txs, lastSync.page)
  /\ \A w \in Workers :
       /\ seen[w] <= chain
       /\ pc[w] = "update" => seen[w] <= page[w] /\ HoldsPage(todo[w], page[w])
       /\ rowLock = w /\ pc[w] \notin {"unwind", "rollback", "snapped"} =>
            /\ seen[w] <= page[w]
            /\ HoldsPage(txs \cup newTx[w] \cup todo[w], page[w])
            /\ pc[w] \in {"release", "commit"} => todo[w] = {}

LEMMA CompleteInit == Init => Complete
<1> SUFFICES ASSUME Init PROVE Complete
  OBVIOUS
<1>1. HoldsPage({}, 0)
  BY Bounds, RulesAssumption DEF RulesAssumption, HoldsPage, Hash
<1>2. lastSync = [balance |-> 0, page |-> 0] /\ txs = {} /\ chain = 0 /\ rowLock = NoOne
      /\ \A w \in Workers : seen[w] = 0 /\ pc[w] = "idle"
  BY DEF Init
<1> QED  BY <1>1, <1>2, Bounds DEF Complete

LEMMA HeightsAreNumbers ==
  ASSUME TypeOK
  PROVE  chain \in Nat /\ \A w \in Workers : seen[w] \in Nat /\ page[w] \in Nat
BY Bounds DEF TypeOK, Height

\* fetch_recent_transactions leaves out nothing of its page that moved value.
LEMMA RecentIsPage ==
  ASSUME NEW top \in Height
  PROVE  HoldsPage(Recent(top), top)
BY Bounds, RulesAssumption DEF RulesAssumption, HoldsPage, Recent, Height, Hash

\* The step of w takes nothing from what the page has brought.
LEMMA CompleteKept ==
  ASSUME TypeOK, Complete, NEW w \in Workers,
         UNCHANGED <<chain, wallet, lastSync, txs, seen, page, rowLock>>,
         \A v \in Workers \ {w} : pc'[v] = pc[v] /\ todo'[v] = todo[v] /\ newTx'[v] = newTx[v],
         pc'[w] = "update" => pc[w] = "update" /\ todo'[w] = todo[w],
         rowLock = w /\ pc'[w] \notin {"unwind", "rollback", "snapped"} =>
           /\ pc[w] \notin {"unwind", "rollback", "snapped"}
           /\ txs \cup newTx[w] \cup todo[w] \subseteq txs \cup newTx'[w] \cup todo'[w]
           /\ pc'[w] \in {"release", "commit"} => todo'[w] = {}
  PROVE  Complete'
BY DEF Complete, HoldsPage

LEMMA CompleteStep == TypeOK /\ Related /\ Complete /\ [Next]_vars => Complete'
<1> SUFFICES ASSUME TypeOK, Related, Complete, [Next]_vars PROVE Complete'
  OBVIOUS
<1>0. chain \in Nat /\ \A w \in Workers : seen[w] \in Nat /\ seen[w] <= chain
  BY HeightsAreNumbers DEF Complete
<1> USE DEF TypeOK, Goto, dbVars, sessionVars, writeVars, msgVars, apiUnchanged
<1>1. ASSUME NEW w \in Workers,
             \/ Start(w) \/ AcquireLock(w) \/ LockUnavailable(w) \/ FetchFails(w) \/ WalletGone(w)
             \/ QueryFails(w) \/ ReleaseLock(w) \/ ReleaseUnavailable(w) \/ InsertTransaction(w)
             \/ SelectAlerts(w) \/ StartSnapshot(w)
      PROVE  Complete'
  <2>1. UNCHANGED <<chain, wallet, lastSync, txs, seen, page, todo, rowLock>>
    BY <1>1 DEF Start, AcquireLock, LockUnavailable, FetchFails, WalletGone, QueryFails, ReleaseLock,
         ReleaseUnavailable, InsertTransaction, SelectAlerts, StartSnapshot
  <2>2. (\A v \in Workers \ {w} : pc'[v] = pc[v]) /\ pc'[w] # "update"
    BY <1>1 DEF Start, AcquireLock, LockUnavailable, FetchFails, WalletGone, QueryFails, ReleaseLock,
         ReleaseUnavailable, InsertTransaction, SelectAlerts, StartSnapshot, AfterRelease
  <2>3. (\A v \in Workers \ {w} : newTx'[v] = newTx[v]) /\ newTx[w] \subseteq newTx'[w]
    <3>1. newTx' = newTx \/ newTx' = [newTx EXCEPT ![w] = @ \cup {Newest(todo[w])}]
      BY <1>1 DEF Start, AcquireLock, LockUnavailable, FetchFails, WalletGone, QueryFails, ReleaseLock,
           ReleaseUnavailable, InsertTransaction, SelectAlerts, StartSnapshot
    <3> QED  BY <3>1
  <2>4. rowLock = w /\ pc'[w] \notin {"unwind", "rollback", "snapped"} =>
          /\ pc[w] \notin {"unwind", "rollback", "snapped"}
          /\ pc'[w] \in {"release", "commit"} => todo[w] = {}
    <3>1. rowLock = w => pc[w] \in InTransaction \cup {"snapped"}
      BY DEF Related, SessionInv
    <3>2. rowLock = w /\ pc[w] = "release" => todo[w] = {}
      BY DEF Complete
    <3>3. CASE \/ Start(w) \/ AcquireLock(w) \/ LockUnavailable(w) \/ FetchFails(w) \/ WalletGone(w)
               \/ QueryFails(w) \/ StartSnapshot(w)
      BY <3>1, <3>3 DEF Start, AcquireLock, LockUnavailable, FetchFails, WalletGone, QueryFails,
           StartSnapshot, InTransaction
    <3>4. CASE ReleaseLock(w) \/ ReleaseUnavailable(w)
      BY <3>2, <3>4 DEF ReleaseLock, ReleaseUnavailable, AfterRelease
    <3>5. CASE InsertTransaction(w) \/ SelectAlerts(w)
      BY <3>5 DEF InsertTransaction, SelectAlerts
    <3> QED  BY <1>1, <3>3, <3>4, <3>5
  <2> QED  BY <2>1, <2>2, <2>3, <2>4, CompleteKept
<1>2. ASSUME NEW w \in Workers, NEW a \in Alerts,
             InsertDelivery(w, a) \/ AlertGone(w, a) \/ Send(w, a) \/ SendFails(w, a)
      PROVE  Complete'
  <2>1. UNCHANGED <<chain, wallet, lastSync, txs, seen, page, todo, newTx, rowLock>>
    BY <1>2 DEF InsertDelivery, AlertGone, Send, SendFails
  <2>2. pc[w] = "fire"
    BY <1>2 DEF InsertDelivery, AlertGone, Send, SendFails
  <2>3. pc' = pc \/ pc' = [pc EXCEPT ![w] = "unwind"]
    BY <1>2 DEF InsertDelivery, AlertGone, Send, SendFails
  <2> QED  BY <2>1, <2>2, <2>3, CompleteKept
<1>3. ASSUME NEW w \in Workers, SkipKnown(w) \/ TransactionDone(w) PROVE Complete'
  <2> USE <1>3 DEF SkipKnown, TransactionDone
  <2>1. UNCHANGED <<chain, wallet, lastSync, txs, seen, page, newTx, rowLock>> /\ pc'[w] = "next"
        /\ \A v \in Workers \ {w} : pc'[v] = pc[v] /\ todo'[v] = todo[v]
        /\ todo'[w] = todo[w] \ {Newest(todo[w])} /\ pc[w] \in {"next", "fire"}
    OBVIOUS
  <2>2. Newest(todo[w]) \in txs \cup newTx[w]
    BY DEF Known, Related, SessionInv
  <2> QED  BY <2>1, <2>2, CompleteKept
<1>4. ASSUME NEW w \in Workers, PageDone(w) PROVE Complete'
  BY <1>4, CompleteKept DEF PageDone
<1>5. ASSUME NEW w \in Workers, FetchBalance(w) PROVE Complete'
  <2>1. seen' = [seen EXCEPT ![w] = chain] /\ pc' = [pc EXCEPT ![w] = "transactions"] /\ rowLock # w
        /\ UNCHANGED <<chain, wallet, lastSync, txs, page, todo, newTx, rowLock>>
    BY <1>5 DEF FetchBalance, Related, SessionInv, InTransaction
  <2>2. \A v \in Workers : seen'[v] <= chain
    BY <1>0, <2>1
  <2>3. \A v \in Workers \ {w} : seen'[v] = seen[v] /\ pc'[v] = pc[v]
    BY <2>1
  <2> QED  BY <2>1, <2>2, <2>3 DEF Complete
<1>6. ASSUME NEW w \in Workers, FetchTransactions(w) PROVE Complete'
  <2>1. todo' = [todo EXCEPT ![w] = Recent(chain)] /\ page' = [page EXCEPT ![w] = chain]
        /\ pc' = [pc EXCEPT ![w] = "update"] /\ rowLock # w
        /\ UNCHANGED <<chain, wallet, lastSync, txs, seen, newTx, rowLock>>
    BY <1>6 DEF FetchTransactions, Related, SessionInv, InTransaction
  <2>2. HoldsPage(Recent(chain), chain) /\ seen[w] <= chain
    BY <1>0, RecentIsPage
  <2>3. \A v \in Workers \ {w} : page'[v] = page[v] /\ pc'[v] = pc[v] /\ todo'[v] = todo[v]
    BY <2>1
  <2>4. page'[w] = chain /\ todo'[w] = Recent(chain)
    BY <2>1
  <2> QED  BY <2>1, <2>2, <2>3, <2>4 DEF Complete
<1>7. ASSUME NEW w \in Workers, UpdateWallet(w) PROVE Complete'
  <2>1. rowLock' = w /\ pc' = [pc EXCEPT ![w] = "next"]
        /\ seen[w] <= page[w] /\ HoldsPage(todo[w], page[w])
        /\ UNCHANGED <<chain, wallet, lastSync, txs, seen, page, todo, newTx>>
    BY <1>7 DEF UpdateWallet, Complete
  <2>2. HoldsPage(txs \cup newTx[w] \cup todo[w], page[w])
    BY <2>1 DEF HoldsPage
  <2> QED  BY <2>1, <2>2, Bounds DEF Complete
<1>8. ASSUME NEW w \in Workers, \/ LockedOut(w) \/ Commit(w) \/ CommitFails(w) \/ Rollback(w)
                                \/ EndSnapshot(w) \/ Crash(w)
      PROVE  Complete'
  <2>1. CloseSession(w) /\ UNCHANGED <<chain, wallet>>
    BY <1>8 DEF LockedOut, Commit, CommitFails, Rollback, EndSnapshot, Crash, Discard
  <2>2. /\ pc'[w] = "idle" /\ seen'[w] = 0 /\ rowLock' # w
        /\ \A v \in Workers \ {w} :
             /\ pc'[v] = pc[v] /\ seen'[v] = seen[v] /\ page'[v] = page[v] /\ todo'[v] = todo[v]
             /\ newTx'[v] = newTx[v] /\ (rowLock' = v <=> rowLock = v)
    BY <2>1, Bounds DEF CloseSession, FreeRow
  <2>3. \A v \in Workers : seen'[v] <= chain
    BY <1>0, <2>2
  <2>4. CASE Commit(w) /\ rowLock = w
    <3>1. /\ txs' = txs \cup newTx[w] /\ lastSync' = [balance |-> seen[w], page |-> page[w]]
          /\ pc[w] = "commit"
      BY <2>4 DEF Commit
    <3>2. seen[w] <= page[w] /\ HoldsPage(txs \cup newTx[w], page[w])
      BY <2>4, <3>1 DEF Complete, HoldsPage
    <3>3. \A v \in Workers \ {w} : rowLock # v
      BY <2>4
    <3>4. lastSync'.balance <= lastSync'.page /\ HoldsPage(txs', lastSync'.page)
      BY <3>1, <3>2
    <3>5. \A v \in Workers : rowLock' # v
      BY <2>2, <3>3
    <3>6. \A v \in Workers : pc'[v] = "update" => seen'[v] <= page'[v] /\ HoldsPage(todo'[v], page'[v])
      BY <2>2 DEF Complete
    <3>7. \A v \in Workers : seen'[v] <= chain'
      BY <2>1, <2>3
    <3> QED  BY <3>4, <3>5, <3>6, <3>7 DEF Complete
  <2>5. CASE ~ (Commit(w) /\ rowLock = w)
    <3>1. UNCHANGED <<lastSync, txs>>
      BY <1>8, <2>5 DEF LockedOut, Commit, CommitFails, Rollback, EndSnapshot, Crash, Discard
    <3> QED  BY <2>1, <2>2, <2>3, <3>1 DEF Complete
  <2> QED  BY <2>4, <2>5
<1>9. CASE NewTransaction
  <2>1. UNCHANGED <<dbVars, pc, seen, page, todo, newTx, rowLock>> /\ chain' = chain + 1
    BY <1>9 DEF NewTransaction
  <2>2. \A v \in Workers : seen[v] <= chain'
    BY <1>0, <2>1
  <2> QED  BY <2>1, <2>2 DEF Complete
<1>10. CASE DeleteWallet
  BY <1>10, Bounds DEF DeleteWallet, RowFree, Ledger!RemoveWallet, Complete
<1>11. ASSUME NEW a \in Alerts, CreateAlert(a) \/ PatchAlert(a) \/ DeleteAlert(a) PROVE Complete'
  <2>1. UNCHANGED <<chain, lastSync, wallet, txs, pc, seen, page, todo, newTx, rowLock>>
    BY <1>11 DEF CreateAlert, PatchAlert, DeleteAlert, Ledger!AddAlert, Ledger!ToggleAlert,
         Ledger!RemoveAlert
  <2> QED  BY <2>1 DEF Complete
<1>12. CASE LockExpires \/ PatchWallet \/ UNCHANGED vars
  BY <1>12 DEF LockExpires, PatchWallet, Ledger!ToggleWallet, vars, Complete
<1>13. ASSUME NEW w \in Workers, WriteSnapshot(w) PROVE Complete'
  <2>1. rowLock' = w /\ pc' = [pc EXCEPT ![w] = "snapped"]
        /\ UNCHANGED <<chain, wallet, lastSync, txs, seen, page, todo, newTx>>
    BY <1>13 DEF WriteSnapshot
  <2> QED  BY <2>1 DEF Complete
<1> QED
  BY <1>1, <1>2, <1>3, <1>4, <1>5, <1>6, <1>7, <1>8, <1>9, <1>10, <1>11, <1>12, <1>13
     DEF Next, TaskStep, FetchStep, DatabaseStep, EndStep, SnapshotStep, ApiStep

\* Whatever fails and overlaps, and however far the chain has run ahead: of the
\* transactions that had fewer than Limit newer ones when the last sync asked for its
\* page, the tables miss none, and its balance reflects no later ones.
THEOREM NothingMissing == Spec => []NoGap
<1>1. TypeOK /\ Related /\ Complete /\ [Next]_vars => Complete'
  BY CompleteStep
<1>2. Complete => NoGap
  BY DEF Complete, HoldsPage, NoGap
<1> QED  BY <1>1, <1>2, CompleteInit, Invariance, PTL DEF Spec

-----------------------------------------------------------------------------
(* Messages.                                                               *)

\* w has inserted the delivery d and is about to send its message.
Due(w, d) == pc[w] = "fire" /\ d[1] \in pending[w] /\ d[2] = Newest(todo[w])

\* A delivery whose message left, and which nothing has thrown away, is in the open
\* transaction of the one who sent it, or its transaction is stored; and a transaction
\* that was just inserted has no delivery yet.
SentOnce ==
  /\ \A d \in Delivery : sent[d] > 0 /\ d \notin undone =>
       \/ d[2] \in txs \/ wallet = "deleted"
       \/ \E w \in Workers : d \in newDel[w] /\ ~Due(w, d)
  /\ \A w \in Workers : pc[w] = "evaluate" => \A d \in newDel[w] : d[2] # Newest(todo[w])

LEMMA SentInit == Init => SentOnce /\ RepeatOnlyIfUndone
BY DEF Init, SentOnce, RepeatOnlyIfUndone, Delivery

\* A message that is due was not sent before, or its delivery was thrown away.
LEMMA DueIsNew ==
  ASSUME TypeOK, Related, SentOnce, NEW w \in Workers, NEW a \in Inserted(w), pc[w] = "fire"
  PROVE  LET d == <<a, Newest(todo[w])>>
         IN  d \in Delivery /\ d \in newDel[w] /\ (sent[d] = 0 \/ d \in undone)
<1> DEFINE d == <<a, Newest(todo[w])>>
<1>1. d \in Delivery /\ d \in newDel[w] /\ a \in pending[w]
  BY DEF Inserted, TypeOK
<1>2. rowLock = w /\ wallet # "deleted" /\ d[2] \notin txs
  BY <1>1, Bounds DEF Related, SessionInv, OneWriter
<1>3. \A v \in Workers : d \in newDel[v] => v = w /\ Due(v, d)
  BY <1>1, <1>2 DEF Related, OneWriter, Due
<1>4. sent[d] > 0 => d \in undone
  BY <1>1, <1>2, <1>3 DEF SentOnce
<1>5. sent[d] \in 0..MaxSent
  BY <1>1 DEF TypeOK
<1> QED  BY <1>1, <1>4, <1>5, Bounds

\* A worker whose deliveries become no fewer, nor due again, and that has none at "evaluate".
LEMMA NothingSent ==
  ASSUME SentOnce, UNCHANGED <<wallet, sent, undone>>, txs \subseteq txs',
         \A v \in Workers : newDel[v] \subseteq newDel'[v]
                            /\ \A d \in newDel[v] : Due(v, d)' => Due(v, d),
         \A v \in Workers : pc'[v] = "evaluate" => \A d \in newDel'[v] : d[2] # Newest(todo'[v])
  PROVE  SentOnce'
BY DEF SentOnce

LEMMA SentStep == TypeOK /\ Related /\ SentOnce /\ [Next]_vars => SentOnce'
<1> SUFFICES ASSUME TypeOK, Related, SentOnce, [Next]_vars PROVE SentOnce'
  OBVIOUS
<1> USE DEF TypeOK, InTransaction, Goto, dbVars, sessionVars, writeVars, msgVars, apiUnchanged
<1>1. ASSUME NEW w \in Workers, Start(w) \/ StartSnapshot(w) \/ FetchStep(w) \/ SnapshotStep(w)
      PROVE  SentOnce'
  <2>1. newDel[w] = {} /\ newDel' = newDel
    BY <1>1 DEF Start, FetchStep, AcquireLock, LockedOut, LockUnavailable, FetchBalance,
         FetchTransactions, FetchFails, StartSnapshot, SnapshotStep, WriteSnapshot, EndSnapshot,
         CloseSession
  <2>2. UNCHANGED <<wallet, txs, sent, undone>> /\ pc'[w] # "evaluate"
        /\ \A v \in Workers \ {w} : pc'[v] = pc[v] /\ todo'[v] = todo[v] /\ pending'[v] = pending[v]
    BY <1>1 DEF Start, FetchStep, AcquireLock, LockedOut, LockUnavailable, FetchBalance,
         FetchTransactions, FetchFails, StartSnapshot, SnapshotStep, WriteSnapshot, EndSnapshot,
         CloseSession
  <2> QED  BY <2>1, <2>2, NothingSent DEF Due, SentOnce
<1>2. ASSUME NEW w \in Workers, UpdateWallet(w) \/ WalletGone(w) \/ SkipKnown(w) \/ TransactionDone(w)
                               \/ PageDone(w) \/ QueryFails(w)
                               \/ (\E a \in Alerts : AlertGone(w, a))
      PROVE  SentOnce'
  <2>1. UNCHANGED <<wallet, txs, sent, undone, newDel>> /\ pc'[w] \notin {"fire", "evaluate"}
        /\ \A v \in Workers \ {w} : pc'[v] = pc[v] /\ todo'[v] = todo[v] /\ pending'[v] = pending[v]
    BY <1>2 DEF UpdateWallet, WalletGone, SkipKnown, TransactionDone, PageDone, QueryFails, AlertGone
  <2> QED  BY <2>1, NothingSent DEF Due, SentOnce
<1>3. ASSUME NEW w \in Workers, InsertTransaction(w) PROVE SentOnce'
  <2>1. \A d \in newDel[w] : d[2] # Newest(todo[w])
    BY <1>3 DEF InsertTransaction, Known, Related, SessionInv
  <2> QED  BY <1>3, <2>1, NothingSent DEF InsertTransaction, Due, SentOnce
<1>4. ASSUME NEW w \in Workers, SelectAlerts(w) PROVE SentOnce'
  BY <1>4, NothingSent DEF SelectAlerts, Due, SentOnce
<1>5. ASSUME NEW w \in Workers, NEW a \in Alerts, InsertDelivery(w, a) PROVE SentOnce'
  BY <1>5, NothingSent DEF InsertDelivery, Due, SentOnce
<1>6. ASSUME NEW w \in Workers, NEW a \in Alerts, Send(w, a) PROVE SentOnce'
  <2> DEFINE h == Newest(todo[w])
  <2>1. <<a, h>> \in newDel[w] /\ UNCHANGED <<wallet, txs, undone, newDel, pc, todo>>
    BY <1>6 DEF Send, Inserted
  <2>2. pending' = [pending EXCEPT ![w] = @ \ {a}]
    BY <1>6 DEF Send
  <2>3. \A v \in Workers : \A d \in newDel[v] : Due(v, d)' => Due(v, d)
    BY <2>1, <2>2 DEF Due
  <2>4. ASSUME NEW d \in Delivery, sent'[d] > 0, d # <<a, h>> PROVE sent[d] > 0
    BY <1>6, <2>4 DEF Send
  <2>5. ~Due(w, <<a, h>>)'
    BY <2>2 DEF Due
  <2> QED  BY <2>1, <2>3, <2>4, <2>5 DEF SentOnce
<1>7. ASSUME NEW w \in Workers, NEW a \in Alerts, SendFails(w, a) PROVE SentOnce'
  BY <1>7, NothingSent DEF SendFails, Due, SentOnce
<1>8. ASSUME NEW w \in Workers, ReleaseLock(w) \/ ReleaseUnavailable(w) PROVE SentOnce'
  BY <1>8, NothingSent DEF ReleaseLock, ReleaseUnavailable, AfterRelease, Due, SentOnce
<1>9. ASSUME NEW w \in Workers, Commit(w) PROVE SentOnce'
  <2>1. \A v \in Workers \ {w} : newDel'[v] = newDel[v] /\ (\A d : Due(v, d)' <=> Due(v, d))
                                 /\ pc'[v] = pc[v] /\ todo'[v] = todo[v]
    BY <1>9 DEF Commit, CloseSession, Due
  <2>2. txs \subseteq txs' /\ UNCHANGED <<wallet, sent, undone>> /\ pc'[w] = "idle"
    BY <1>9 DEF Commit, CloseSession
  <2>3. \A d \in newDel[w] : d[2] \in txs'
    BY <1>9 DEF Commit, Related, OneWriter, SessionInv
  <2> QED  BY <2>1, <2>2, <2>3 DEF SentOnce
<1>10. ASSUME NEW w \in Workers, CommitFails(w) \/ Rollback(w) \/ Crash(w) PROVE SentOnce'
  <2> USE <1>10 DEF CommitFails, Rollback, Crash, Discard
  <2>1. \A v \in Workers \ {w} : newDel'[v] = newDel[v] /\ (\A d : Due(v, d)' <=> Due(v, d))
                                 /\ pc'[v] = pc[v] /\ todo'[v] = todo[v]
    BY DEF CloseSession, Due
  <2>2. UNCHANGED <<wallet, txs, sent>> /\ pc'[w] = "idle"
    BY DEF CloseSession
  <2>3. undone \subseteq undone' /\ \A d \in newDel[w] : sent[d] > 0 => d \in undone'
    OBVIOUS
  <2> QED  BY <2>1, <2>2, <2>3 DEF SentOnce
<1>11. CASE NewTransaction \/ LockExpires \/ UNCHANGED vars
  BY <1>11 DEF NewTransaction, LockExpires, vars, SentOnce, Due
<1>12. CASE ApiStep
  BY <1>12 DEF ApiStep, PatchWallet, DeleteWallet, CreateAlert, PatchAlert, DeleteAlert, SentOnce, Due,
       Ledger!ToggleWallet, Ledger!RemoveWallet, Ledger!AddAlert, Ledger!ToggleAlert, Ledger!RemoveAlert
<1> QED
  BY <1>1, <1>2, <1>3, <1>4, <1>5, <1>6, <1>7, <1>8, <1>9, <1>10, <1>11, <1>12
     DEF Next, TaskStep, DatabaseStep, EndStep

\* Only Send counts a message, and a rollback only adds to what was thrown away.
LEMMA CountsOnSend ==
  ASSUME [Next]_vars, \A w \in Workers, a \in Alerts : ~Send(w, a)
  PROVE  sent' = sent /\ undone \subseteq undone'
<1> DEFINE Kept == sent' = sent /\ undone \subseteq undone'
<1> USE DEF msgVars, writeVars
<1>1. ASSUME NEW w \in Workers, Start(w) \/ StartSnapshot(w) \/ FetchStep(w) \/ SnapshotStep(w)
      PROVE  Kept
  BY <1>1 DEF FetchStep, Start, StartSnapshot, SnapshotStep, WriteSnapshot, EndSnapshot, AcquireLock, LockedOut, LockUnavailable, FetchBalance, FetchTransactions,
              FetchFails
<1>2. ASSUME NEW w \in Workers, DatabaseStep(w) PROVE Kept
  BY <1>2 DEF DatabaseStep, UpdateWallet, WalletGone, SkipKnown, InsertTransaction, SelectAlerts,
              TransactionDone, PageDone, QueryFails, InsertDelivery, AlertGone, SendFails
<1>3. ASSUME NEW w \in Workers, EndStep(w) \/ Crash(w) PROVE Kept
  BY <1>3 DEF EndStep, ReleaseLock, ReleaseUnavailable, Commit, CommitFails, Rollback, Crash, Discard
<1>4. CASE NewTransaction \/ LockExpires \/ UNCHANGED vars
  BY <1>4 DEF NewTransaction, LockExpires, vars
<1>5. CASE ApiStep
  BY <1>5 DEF ApiStep, PatchWallet, DeleteWallet, CreateAlert, PatchAlert, DeleteAlert, apiUnchanged
<1> QED
  BY <1>1, <1>2, <1>3, <1>4, <1>5 DEF Next, TaskStep

\* _try_fire_alert: whatever fails, and however many syncs overlap, a message goes out
\* again only after the transaction that recorded it was thrown away.
THEOREM RepeatsAreUndone == Spec => []RepeatOnlyIfUndone
<1>1. TypeOK /\ Related /\ SentOnce /\ RepeatOnlyIfUndone /\ [Next]_vars => RepeatOnlyIfUndone'
  <2> SUFFICES ASSUME TypeOK, Related, SentOnce, RepeatOnlyIfUndone, [Next]_vars
               PROVE  RepeatOnlyIfUndone'
    OBVIOUS
  <2>1. ASSUME NEW w \in Workers, NEW a \in Alerts, Send(w, a) PROVE RepeatOnlyIfUndone'
    <3> DEFINE d == <<a, Newest(todo[w])>>
    <3>1. d \in Delivery /\ (sent[d] = 0 \/ d \in undone)
      BY <2>1, DueIsNew DEF Send
    <3>2. sent' = [sent EXCEPT ![d] = IF @ < MaxSent THEN @ + 1 ELSE @] /\ undone' = undone
      BY <2>1 DEF Send, writeVars
    <3> HIDE DEF d
    <3>3. sent \in [Delivery -> 0..MaxSent]
      BY DEF TypeOK
    <3>4. sent'[d] <= 1 \/ d \in undone
      BY <3>1, <3>2, <3>3, Bounds
    <3> QED  BY <3>2, <3>3, <3>4, Bounds DEF RepeatOnlyIfUndone
  <2>2. CASE \A w \in Workers, a \in Alerts : ~Send(w, a)
    BY <2>2, CountsOnSend DEF RepeatOnlyIfUndone
  <2> QED  BY <2>1, <2>2
<1> QED  BY <1>1, SentInit, SentStep, Invariance, PTL DEF Spec

\* What an open transaction records was sent or refused, or is due, or will be rolled back.
Attempted ==
  /\ DeliveredWasTried
  /\ \A w \in Workers : pc[w] \notin {"unwind", "rollback"} =>
       \A d \in newDel[w] : sent[d] > 0 \/ d \in refused \/ Due(w, d)

LEMMA AttemptedStep ==
  ASSUME MaxSent > 0
  PROVE  TypeOK /\ Related /\ Attempted /\ [Next]_vars => Attempted'
<1> SUFFICES ASSUME TypeOK, Related, Attempted, [Next]_vars PROVE Attempted'
  OBVIOUS
<1> USE DEF TypeOK, InTransaction, Goto, dbVars, sessionVars, writeVars, msgVars, apiUnchanged, Attempted,
            DeliveredWasTried
<1>1. ASSUME NEW w \in Workers, Start(w) \/ StartSnapshot(w) \/ FetchStep(w) \/ SnapshotStep(w)
      PROVE  Attempted'
  <2>1. newDel[w] = {} /\ newDel' = newDel
    BY <1>1 DEF Start, FetchStep, AcquireLock, LockedOut, LockUnavailable, FetchBalance,
         FetchTransactions, FetchFails, StartSnapshot, SnapshotStep, WriteSnapshot, EndSnapshot,
         CloseSession
  <2>2. UNCHANGED <<deliveries, sent, refused>>
        /\ \A v \in Workers \ {w} : pc'[v] = pc[v] /\ todo'[v] = todo[v] /\ pending'[v] = pending[v]
    BY <1>1 DEF Start, FetchStep, AcquireLock, LockedOut, LockUnavailable, FetchBalance,
         FetchTransactions, FetchFails, StartSnapshot, SnapshotStep, WriteSnapshot, EndSnapshot,
         CloseSession
  <2> QED  BY <2>1, <2>2 DEF Due
<1>2. ASSUME NEW w \in Workers, UpdateWallet(w) \/ WalletGone(w) \/ SkipKnown(w) \/ TransactionDone(w)
                               \/ PageDone(w) \/ QueryFails(w) \/ InsertTransaction(w) \/ SelectAlerts(w)
                               \/ (\E a \in Alerts : AlertGone(w, a))
      PROVE  Attempted'
  <2>1. UNCHANGED <<deliveries, sent, refused, newDel>>
        /\ \A v \in Workers \ {w} : pc'[v] = pc[v] /\ todo'[v] = todo[v] /\ pending'[v] = pending[v]
    BY <1>2 DEF UpdateWallet, WalletGone, SkipKnown, TransactionDone, PageDone, QueryFails, AlertGone,
         InsertTransaction, SelectAlerts
  <2>2. pc'[w] \notin {"unwind", "rollback"} =>
          pc[w] \notin {"unwind", "rollback"} /\ \A d \in newDel[w] : ~Due(w, d)
    BY <1>2 DEF UpdateWallet, WalletGone, SkipKnown, TransactionDone, PageDone, QueryFails, AlertGone,
         InsertTransaction, SelectAlerts, Due, AlertsDone
  <2> QED  BY <2>1, <2>2 DEF Due
<1>3. ASSUME NEW w \in Workers, NEW a \in Alerts, InsertDelivery(w, a) PROVE Attempted'
  <2>1. newDel' = [newDel EXCEPT ![w] = @ \cup {<<a, Newest(todo[w])>>}]
        /\ UNCHANGED <<deliveries, sent, refused, pc, todo, pending>> /\ pc[w] = "fire" /\ a \in pending[w]
    BY <1>3 DEF InsertDelivery
  <2> QED  BY <2>1 DEF Due
<1>4. ASSUME NEW w \in Workers, NEW a \in Alerts, Send(w, a) PROVE Attempted'
  <2> DEFINE d == <<a, Newest(todo[w])>>
  <2>1. d \in Delivery
    BY <1>4 DEF Send, Inserted
  <2>2. sent' = [sent EXCEPT ![d] = IF @ < MaxSent THEN @ + 1 ELSE @]
    BY <1>4 DEF Send
  <2>3. pending' = [pending EXCEPT ![w] = @ \ {a}] /\ UNCHANGED <<deliveries, refused, newDel, pc, todo>>
    BY <1>4 DEF Send
  <2>4. \A e \in Delivery : sent[e] > 0 \/ e = d => sent'[e] > 0
    <3> HIDE DEF d
    <3> QED  BY <2>1, <2>2, Bounds
  <2>5. ASSUME NEW v \in Workers, NEW e \in newDel[v], Due(v, e), ~Due(v, e)' PROVE e = d
    BY <2>3, <2>5 DEF Due, Delivery
  <2> QED  BY <2>3, <2>4, <2>5
<1>5. ASSUME NEW w \in Workers, NEW a \in Alerts, SendFails(w, a) PROVE Attempted'
  <2> DEFINE d == <<a, Newest(todo[w])>>
  <2>1. refused' = refused \cup {d} /\ pending' = [pending EXCEPT ![w] = @ \ {a}]
        /\ UNCHANGED <<deliveries, sent, newDel, pc, todo>>
    BY <1>5 DEF SendFails
  <2>2. ASSUME NEW v \in Workers, NEW e \in newDel[v], Due(v, e), ~Due(v, e)' PROVE e = d
    BY <2>1, <2>2 DEF Due, Delivery
  <2> QED  BY <2>1, <2>2
<1>6. ASSUME NEW w \in Workers, ReleaseLock(w) \/ ReleaseUnavailable(w) PROVE Attempted'
  BY <1>6 DEF ReleaseLock, ReleaseUnavailable, AfterRelease, Due
<1>7. ASSUME NEW w \in Workers, Commit(w) PROVE Attempted'
  <2>1. \A v \in Workers \ {w} : newDel'[v] = newDel[v] /\ (\A d : Due(v, d)' <=> Due(v, d)) /\ pc'[v] = pc[v]
    BY <1>7 DEF Commit, CloseSession, Due
  <2>2. deliveries' \subseteq deliveries \cup newDel[w] /\ UNCHANGED <<sent, refused>>
        /\ newDel'[w] = {}
    BY <1>7 DEF Commit, CloseSession
  <2>3. \A d \in newDel[w] : sent[d] > 0 \/ d \in refused
    BY <1>7 DEF Commit, Due
  <2> QED  BY <2>1, <2>2, <2>3
<1>8. ASSUME NEW w \in Workers, CommitFails(w) \/ Rollback(w) \/ Crash(w) PROVE Attempted'
  <2> USE <1>8 DEF CommitFails, Rollback, Crash, Discard
  <2>1. \A v \in Workers \ {w} : newDel'[v] = newDel[v] /\ (\A d : Due(v, d)' <=> Due(v, d)) /\ pc'[v] = pc[v]
    BY DEF CloseSession, Due
  <2>2. UNCHANGED <<deliveries, sent, refused>> /\ newDel'[w] = {}
    BY DEF CloseSession
  <2> QED  BY <2>1, <2>2
<1>9. CASE NewTransaction \/ LockExpires \/ UNCHANGED vars
  BY <1>9 DEF NewTransaction, LockExpires, vars, Due
<1>10. CASE ApiStep
  BY <1>10 DEF ApiStep, PatchWallet, DeleteWallet, CreateAlert, PatchAlert, DeleteAlert, Due,
       Ledger!ToggleWallet, Ledger!RemoveWallet, Ledger!AddAlert, Ledger!ToggleAlert, Ledger!RemoveAlert
<1> QED
  BY <1>1, <1>2, <1>3, <1>4, <1>5, <1>6, <1>7, <1>8, <1>9, <1>10
     DEF Next, TaskStep, DatabaseStep, EndStep

\* A stored delivery was sent, or Telegram did not take it: the loop passes over no alert
\* whose delivery it has inserted, and commits only after the last one, whatever fails.
THEOREM DeliveriesWereTried == ASSUME MaxSent > 0 PROVE Spec => []DeliveredWasTried
<1>1. Init => Attempted
  BY DEF Init, Attempted, DeliveredWasTried
<1>2. TypeOK /\ Related /\ Attempted /\ [Next]_vars => Attempted'
  BY AttemptedStep
<1>3. Attempted => DeliveredWasTried
  BY DEF Attempted
<1> QED  BY <1>1, <1>2, <1>3, Invariance, PTL DEF Spec

-----------------------------------------------------------------------------
(* The Redis lock, as long as it is there and no sync outlives it.         *)

Patient == "redis_error" \notin Faults /\ "slow_sync" \notin Faults

\* Whoever is in the task's body has set the key.
Locked == MutualExclusion /\ \A w \in Workers : pc[w] \in InTask => lock

LEMMA LockedInit == Init => Locked
BY DEF Init, Locked, MutualExclusion, InTask

\* A step that leaves the key and leads nobody into the task's body.
LEMMA StaysOutside ==
  ASSUME Locked, lock' = lock,
         \A v \in Workers : pc'[v] \in InTask => pc[v] \in InTask
  PROVE  Locked'
BY DEF Locked, MutualExclusion

\* No step but these three touches the key or leads into the task's body.
LEMMA KeyIsKept ==
  ASSUME TypeOK, [Next]_vars, Patient,
         \A w \in Workers : ~AcquireLock(w) /\ ~ReleaseLock(w),
         ~LockExpires
  PROVE  lock' = lock /\ \A v \in Workers : pc'[v] \in InTask => pc[v] \in InTask
<1> USE DEF TypeOK, Goto, InTask, CloseSession, Patient
<1>1. ASSUME NEW w \in Workers, \/ Start(w) \/ FetchStep(w) \/ Crash(w) \/ EndStep(w)
                               \/ StartSnapshot(w) \/ SnapshotStep(w)
      PROVE  lock' = lock /\ \A v \in Workers : pc'[v] \in InTask => pc[v] \in InTask
  <2>1. CASE Start(w) \/ FetchStep(w)
    BY <2>1 DEF Start, FetchStep, LockedOut, LockUnavailable, FetchBalance, FetchTransactions, FetchFails
  <2>2. CASE Crash(w) \/ EndStep(w)
    BY <2>2 DEF Crash, Discard, EndStep, ReleaseUnavailable, Commit, CommitFails, Rollback
  <2>3. CASE StartSnapshot(w) \/ SnapshotStep(w)
    BY <2>3 DEF StartSnapshot, SnapshotStep, WriteSnapshot, EndSnapshot
  <2> QED  BY <1>1, <2>1, <2>2, <2>3
<1>2. ASSUME NEW w \in Workers, DatabaseStep(w)
      PROVE  lock' = lock /\ \A v \in Workers : pc'[v] \in InTask => pc[v] \in InTask
  BY <1>2 DEF DatabaseStep, UpdateWallet, WalletGone, SkipKnown, InsertTransaction, SelectAlerts,
       TransactionDone, PageDone, QueryFails, InsertDelivery, AlertGone, Send, SendFails
<1>3. CASE NewTransaction \/ ApiStep \/ UNCHANGED vars
  BY <1>3 DEF NewTransaction, ApiStep, PatchWallet, DeleteWallet, CreateAlert, PatchAlert, DeleteAlert,
       apiUnchanged, vars
<1> QED  BY <1>1, <1>2, <1>3 DEF Next, TaskStep

LEMMA LockedStep ==
  ASSUME Patient
  PROVE  TypeOK /\ Locked /\ [Next]_vars => Locked'
<1> SUFFICES ASSUME TypeOK, Locked, [Next]_vars PROVE Locked'
  OBVIOUS
<1> USE DEF TypeOK, Locked, MutualExclusion, Goto, InTask
<1>1. ASSUME NEW w \in Workers, AcquireLock(w) PROVE Locked'
  BY <1>1 DEF AcquireLock, SetNx
<1>2. ASSUME NEW w \in Workers, ReleaseLock(w) PROVE Locked'
  BY <1>2 DEF ReleaseLock, AfterRelease
<1>3. CASE LockExpires
  BY <1>3 DEF LockExpires, TimeIsUp, Patient
<1>4. CASE ~LockExpires /\ \A w \in Workers : ~AcquireLock(w) /\ ~ReleaseLock(w)
  BY <1>4, KeyIsKept, StaysOutside
<1> QED  BY <1>1, <1>2, <1>3, <1>4

\* sync_wallet_task takes the key before it asks the provider and frees it at its end:
\* no two tasks of a wallet are in between, if Redis answers and keeps the key.
THEOREM TasksApart == ASSUME Patient PROVE Spec => []MutualExclusion
<1>1. TypeOK /\ Locked /\ [Next]_vars => Locked'
  BY LockedStep
<1>2. Locked => MutualExclusion
  BY DEF Locked
<1> QED  BY <1>1, <1>2, LockedInit, TypeCorrect, PTL DEF Spec

-----------------------------------------------------------------------------
(* The balance.                                                            *)

\* The row is locked by a sync, not by a snapshot.
Syncs(w) == rowLock = w /\ pc[w] # "snapped"

\* What the syncs store follows the chain in the order in which they have asked for it.
Ordered ==
  /\ lastSync.balance <= chain
  /\ \A w \in Workers :
       /\ seen[w] <= chain
       /\ pc[w] \in {"transactions", "update"} \/ Syncs(w) => lastSync.balance <= seen[w]
       /\ \A v \in Workers :
            Syncs(v) /\ pc[w] \in {"transactions", "update"} => seen[v] <= seen[w]

LEMMA OrderedInit == Init => Ordered
BY Bounds DEF Init, Ordered, Height

\* A step after which nobody has more of a say than before.
LEMMA OrderKept ==
  ASSUME TypeOK, Ordered, UNCHANGED <<chain, lastSync>>,
         \A v \in Workers : seen'[v] \in {0, seen[v]},
         \A v \in Workers : pc'[v] \in {"transactions", "update"} =>
           pc[v] \in {"transactions", "update"} /\ seen'[v] = seen[v],
         \A v \in Workers : Syncs(v)' => Syncs(v) /\ seen'[v] = seen[v]
  PROVE  Ordered'
<1>1. ASSUME NEW w \in Workers
      PROVE  /\ seen'[w] <= chain
             /\ pc'[w] \in {"transactions", "update"} \/ Syncs(w)' => lastSync.balance <= seen'[w]
  <2>1. chain \in Nat /\ seen'[w] \in {0, seen[w]} /\ seen[w] <= chain
    BY Bounds DEF TypeOK, Ordered, Height
  <2>2. pc'[w] \in {"transactions", "update"} \/ Syncs(w)' => lastSync.balance <= seen'[w]
    BY DEF Ordered
  <2> QED  BY <2>1, <2>2
<1>2. ASSUME NEW v \in Workers, NEW w \in Workers, Syncs(v)', pc'[w] \in {"transactions", "update"}
      PROVE  seen'[v] <= seen'[w]
  BY <1>2 DEF Ordered
<1> QED  BY <1>1, <1>2 DEF Ordered

LEMMA OrderedStep == TypeOK /\ Related /\ Locked /\ Ordered /\ [Next]_vars => Ordered'
<1> SUFFICES ASSUME TypeOK, Related, Locked, Ordered, [Next]_vars PROVE Ordered'
  OBVIOUS
<1> USE DEF Goto, dbVars, sessionVars, writeVars, msgVars, apiUnchanged
<1>1. ASSUME NEW w \in Workers, FetchBalance(w) PROVE Ordered'
  <2>1. seen' = [seen EXCEPT ![w] = chain] /\ pc' = [pc EXCEPT ![w] = "transactions"]
        /\ UNCHANGED <<chain, lastSync, rowLock>> /\ rowLock # w
    BY <1>1 DEF FetchBalance, Related, SessionInv, InTransaction
  <2>2. /\ chain \in Nat /\ lastSync.balance \in Nat
        /\ \A v \in Workers : seen[v] \in Nat
    BY Bounds DEF TypeOK, Height
  <2>3. \A v \in Workers : seen'[v] = IF v = w THEN chain ELSE seen[v]
    BY <2>1 DEF TypeOK
  <2>4. \A v \in Workers : pc'[v] = IF v = w THEN "transactions" ELSE pc[v]
    BY <2>1 DEF TypeOK
  <2> QED  BY <2>1, <2>2, <2>3, <2>4 DEF Ordered, Syncs
<1>2. ASSUME NEW w \in Workers, UpdateWallet(w) PROVE Ordered'
  <2>1. \A v \in Workers \ {w} : pc[v] \notin {"transactions", "update"}
    BY <1>2 DEF UpdateWallet, Locked, MutualExclusion, InTask
  <2> QED  BY <1>2, <2>1, Bounds DEF UpdateWallet, Ordered, Syncs, TypeOK, Height
<1>3. ASSUME NEW w \in Workers, Commit(w) PROVE Ordered'
  <2>1. CASE rowLock = w
    BY <1>3, <2>1, Bounds DEF Commit, CloseSession, FreeRow, Ordered, Syncs, TypeOK, Height
  <2>2. CASE rowLock # w
    BY <1>3, <2>2, OrderKept DEF Commit, CloseSession, FreeRow, Goto, Syncs, TypeOK
  <2> QED  BY <2>1, <2>2
<1>4. CASE NewTransaction
  BY <1>4, Bounds DEF NewTransaction, Ordered, Syncs, TypeOK, Height
<1>5. ASSUME NEW w \in Workers,
             \/ Start(w) \/ AcquireLock(w) \/ LockUnavailable(w) \/ FetchTransactions(w) \/ FetchFails(w)
             \/ WalletGone(w) \/ SkipKnown(w) \/ InsertTransaction(w) \/ SelectAlerts(w)
             \/ TransactionDone(w) \/ PageDone(w) \/ QueryFails(w)
             \/ ReleaseLock(w) \/ ReleaseUnavailable(w) \/ StartSnapshot(w)
             \/ (\E a \in Alerts : \/ InsertDelivery(w, a) \/ AlertGone(w, a)
                                   \/ Send(w, a) \/ SendFails(w, a))
      PROVE  Ordered'
  <2>1. UNCHANGED <<chain, lastSync, seen, rowLock>>
    BY <1>5 DEF Start, AcquireLock, LockUnavailable, FetchTransactions, FetchFails, WalletGone, SkipKnown,
         InsertTransaction, SelectAlerts, TransactionDone, PageDone, QueryFails, ReleaseLock,
         ReleaseUnavailable, InsertDelivery, AlertGone, Send, SendFails, StartSnapshot
  <2>2. \A v \in Workers : pc'[v] \in {"transactions", "update"} => pc[v] \in {"transactions", "update"}
    <3>1. CASE \/ Start(w) \/ AcquireLock(w) \/ LockUnavailable(w) \/ FetchTransactions(w)
               \/ FetchFails(w) \/ WalletGone(w)
      BY <3>1 DEF Start, AcquireLock, LockUnavailable, FetchTransactions, FetchFails, WalletGone, TypeOK
    <3>2. CASE \/ SkipKnown(w) \/ InsertTransaction(w) \/ SelectAlerts(w) \/ TransactionDone(w)
               \/ PageDone(w) \/ QueryFails(w)
      BY <3>2 DEF SkipKnown, InsertTransaction, SelectAlerts, TransactionDone, PageDone, QueryFails, TypeOK
    <3>3. CASE ReleaseLock(w) \/ ReleaseUnavailable(w) \/ StartSnapshot(w)
      BY <3>3 DEF ReleaseLock, ReleaseUnavailable, AfterRelease, StartSnapshot, TypeOK
    <3>4. ASSUME NEW a \in Alerts,
                 InsertDelivery(w, a) \/ AlertGone(w, a) \/ Send(w, a) \/ SendFails(w, a)
          PROVE  \A v \in Workers :
                    pc'[v] \in {"transactions", "update"} => pc[v] \in {"transactions", "update"}
      BY <3>4 DEF InsertDelivery, AlertGone, Send, SendFails, TypeOK
    <3> QED  BY <1>5, <3>1, <3>2, <3>3, <3>4
  <2>3. \A v \in Workers : Syncs(v)' => Syncs(v)
    <3>1. pc[w] # "snapped" /\ \A v \in Workers \ {w} : pc'[v] = pc[v]
      BY <1>5 DEF Start, AcquireLock, LockUnavailable, FetchTransactions, FetchFails, WalletGone,
           SkipKnown, InsertTransaction, SelectAlerts, TransactionDone, PageDone, QueryFails,
           ReleaseLock, ReleaseUnavailable, InsertDelivery, AlertGone, Send, SendFails, StartSnapshot,
           TypeOK
    <3> QED  BY <2>1, <3>1 DEF Syncs
  <2> QED  BY <2>1, <2>2, <2>3, OrderKept
<1>6. ASSUME NEW w \in Workers, \/ LockedOut(w) \/ CommitFails(w) \/ Rollback(w) \/ Crash(w)
                                \/ EndSnapshot(w)
      PROVE  Ordered'
  <2>1. CloseSession(w) /\ UNCHANGED <<chain, lastSync>>
    BY <1>6 DEF LockedOut, CommitFails, Rollback, Crash, EndSnapshot, Discard
  <2> QED  BY <2>1, Bounds, OrderKept DEF CloseSession, FreeRow, Goto, Syncs, TypeOK
<1>7. CASE LockExpires \/ ApiStep \/ UNCHANGED vars
  <2>1. UNCHANGED <<chain, lastSync, seen, pc, rowLock>>
    BY <1>7 DEF LockExpires, ApiStep, PatchWallet, DeleteWallet, CreateAlert, PatchAlert, DeleteAlert, vars
  <2> QED  BY <2>1, OrderKept DEF Syncs
<1>8. ASSUME NEW w \in Workers, WriteSnapshot(w) PROVE Ordered'
  <2>1. /\ pc[w] = "snapshot" /\ pc' = [pc EXCEPT ![w] = "snapped"] /\ rowLock' = w
        /\ UNCHANGED <<chain, lastSync, seen>>
    BY <1>8 DEF WriteSnapshot
  <2>2. \A v \in Workers : ~Syncs(v)'
    BY <2>1 DEF Syncs, TypeOK
  <2> QED  BY <2>1, <2>2, OrderKept DEF TypeOK
<1> QED
  BY <1>1, <1>2, <1>3, <1>4, <1>5, <1>6, <1>7, <1>8
     DEF Next, TaskStep, FetchStep, DatabaseStep, EndStep, SnapshotStep

LEMMA OrderHolds ==
  ASSUME Patient
  PROVE  Spec => [](TypeOK /\ Related /\ Locked /\ Ordered)
<1>1. TypeOK /\ Locked /\ [Next]_vars => Locked'
  BY LockedStep
<1> QED  BY <1>1, LockedInit, OrderedInit, OrderedStep, Invariance, PTL DEF Spec

\* Only the commit of a sync counts as one.
LEMMA LastSyncChanges ==
  ASSUME [Next]_vars, lastSync' # lastSync
  PROVE  \E w \in Workers : Commit(w) /\ rowLock = w
<1> USE DEF dbVars, apiUnchanged
<1>1. ASSUME NEW w \in Workers, \/ Start(w) \/ FetchStep(w) \/ Crash(w)
                               \/ StartSnapshot(w) \/ SnapshotStep(w)
      PROVE  FALSE
  BY <1>1 DEF Start, StartSnapshot, SnapshotStep, WriteSnapshot, EndSnapshot, FetchStep, AcquireLock, LockedOut, LockUnavailable, FetchBalance, FetchTransactions,
       FetchFails, Crash, Discard
<1>2. ASSUME NEW w \in Workers, DatabaseStep(w) PROVE FALSE
  BY <1>2 DEF DatabaseStep, UpdateWallet, WalletGone, SkipKnown, InsertTransaction, SelectAlerts,
       TransactionDone, PageDone, QueryFails, InsertDelivery, AlertGone, Send, SendFails
<1>3. ASSUME NEW w \in Workers, EndStep(w) PROVE Commit(w) /\ rowLock = w
  BY <1>3 DEF EndStep, ReleaseLock, ReleaseUnavailable, Commit, CommitFails, Rollback, Discard
<1>4. CASE NewTransaction \/ LockExpires \/ ApiStep \/ UNCHANGED vars
  BY <1>4 DEF NewTransaction, LockExpires, ApiStep, PatchWallet, DeleteWallet, CreateAlert, PatchAlert,
       DeleteAlert, vars
<1> QED  BY <1>1, <1>2, <1>3, <1>4 DEF Next, TaskStep

\* The key is freed before the commit; the row lock, held until then, keeps the order.
THEOREM BalanceGoesForward == ASSUME Patient PROVE Spec => BalanceMonotone
<1>1. TypeOK /\ Ordered /\ [Next]_vars => [lastSync'.balance >= lastSync.balance]_lastSync
  <2> SUFFICES ASSUME TypeOK, Ordered, [Next]_vars, lastSync' # lastSync
               PROVE  lastSync'.balance >= lastSync.balance
    OBVIOUS
  <2>1. PICK w \in Workers : Commit(w) /\ rowLock = w
    BY LastSyncChanges
  <2> QED  BY <2>1 DEF Commit, Ordered, Syncs, TypeOK, Height
<1> QED  BY <1>1, OrderHolds, PTL DEF Spec, BalanceMonotone

-----------------------------------------------------------------------------
(* Waiting.  TaskEnds rests on this.                                       *)

\* When TaskStep(w) is enabled.
CanStep(w) ==
  /\ pc[w] # "idle"
  /\ pc[w] \in {"update", "snapshot"} => RowFree \/ wallet = "deleted"

\* A task that waits for the row of the wallet waits for a task that does not wait.
NobodyStuck ==
  \A w \in Workers : pc[w] # "idle" /\ ~CanStep(w) => rowLock \in Workers /\ CanStep(rowLock)

\* The one thing a task waits for without a time limit is the row lock that the UPDATE of
\* last_synced_at takes (tasks.py): whoever holds it is past that UPDATE and waits for
\* nothing, whatever became of the Redis key.
THEOREM NobodyStuckEver == Spec => []NobodyStuck
<1>1. TypeOK /\ Related => NobodyStuck
  <2> SUFFICES ASSUME TypeOK, Related, NEW w \in Workers, pc[w] # "idle", ~CanStep(w)
               PROVE  rowLock \in Workers /\ CanStep(rowLock)
    BY DEF NobodyStuck
  <2>1. rowLock \in Workers
    BY DEF CanStep, RowFree, TypeOK
  <2>2. pc[rowLock] \in InTransaction \cup {"snapped"}
    BY <2>1 DEF Related, SessionInv
  <2> QED
    BY <2>1, <2>2 DEF CanStep, InTransaction
<1> QED
  BY <1>1, Invariance, PTL

\* A transaction of the page takes two steps, and every alert two.
PerTx == 2 * Cardinality(Alerts) + 3

OnPage(w) == Cardinality(todo[w]) * PerTx

ToSend(w) == 2 * Cardinality(pending[w]) - (IF Inserted(w) = {} THEN 0 ELSE 1)

\* How many steps a task may still take itself.
Work(w) ==
  CASE pc[w] = "idle"                   -> 0
    [] pc[w] \in {"commit", "rollback", "snapped"} -> 1
    [] pc[w] \in {"release", "unwind", "snapshot"} -> 2
    [] pc[w] = "next"                   -> 3 + OnPage(w)
    [] pc[w] = "evaluate"               -> 2 + OnPage(w)
    [] pc[w] = "fire"                   -> 4 + OnPage(w) - PerTx + ToSend(w)
    [] pc[w] = "update"                 -> 4 + OnPage(w)
    [] pc[w] = "transactions"           -> 5 + Limit * PerTx
    [] pc[w] = "balance"                -> 6 + Limit * PerTx
    [] pc[w] = "lock"                   -> 7 + Limit * PerTx

\* Every step of its own takes it nearer to its end, and no other one takes it back.
WorkShrinks ==
  [][\A w \in Workers :
       /\ TaskStep(w) => Work(w)' < Work(w)
       /\ pc[w] # "idle" => Work(w)' <= Work(w)]_vars

\* What the work is made of are numbers.
LEMMA PageCounted ==
  ASSUME IsFiniteSet(Alerts), TypeOK, NEW w \in Workers
  PROVE  /\ IsFiniteSet(todo[w]) /\ Cardinality(todo[w]) \in Nat
         /\ IsFiniteSet(pending[w]) /\ Cardinality(pending[w]) \in Nat
         /\ Cardinality(pending[w]) <= Cardinality(Alerts)
         /\ PerTx \in Nat /\ PerTx = 2 * Cardinality(Alerts) + 3 /\ Cardinality(Alerts) \in Nat
         /\ OnPage(w) \in Nat
         /\ todo[w] # {} => OnPage(w) >= PerTx
         /\ ToSend(w) \in Nat
         /\ Limit * PerTx \in Nat
<1>1. todo[w] \in SUBSET (1..MaxTx) /\ pending[w] \in SUBSET Alerts /\ pc[w] \in Pcs
  BY DEF TypeOK, Hash
<1>2. IsFiniteSet(1..MaxTx)
  BY Bounds, FS_Interval
<1>3. IsFiniteSet(todo[w]) /\ Cardinality(todo[w]) \in Nat
  BY <1>1, <1>2, FS_Subset, FS_CardinalityType
<1>4. /\ IsFiniteSet(pending[w]) /\ Cardinality(pending[w]) \in Nat
      /\ Cardinality(pending[w]) <= Cardinality(Alerts) /\ Cardinality(Alerts) \in Nat
  BY <1>1, FS_Subset, FS_CardinalityType
<1>5. PerTx \in Nat /\ PerTx = 2 * Cardinality(Alerts) + 3
  BY <1>4 DEF PerTx
<1>6. OnPage(w) \in Nat
  BY <1>3, <1>5 DEF OnPage
<1>7. todo[w] # {} => OnPage(w) >= PerTx
  <2>1. todo[w] # {} => Cardinality(todo[w]) >= 1
    BY <1>3, FS_EmptySet
  <2>2. \A n, c \in Nat : n >= 1 => n * c >= c
    OBVIOUS
  <2> QED
    BY <1>3, <1>5, <2>1, <2>2 DEF OnPage
<1>8. ToSend(w) \in Nat
  <2>1. Inserted(w) # {} => Cardinality(pending[w]) # 0
    BY <1>4, FS_EmptySet DEF Inserted
  <2> QED
    BY <1>4, <2>1 DEF ToSend
<1>9. Limit * PerTx \in Nat
  BY <1>5, RulesAssumption DEF RulesAssumption
<1> QED
  BY <1>3, <1>4, <1>5, <1>6, <1>7, <1>8, <1>9

\* The work of a task is a number.
LEMMA WorkCounted ==
  ASSUME IsFiniteSet(Alerts), TypeOK, NEW w \in Workers
  PROVE  Work(w) \in Nat
<1>1. pc[w] \in Pcs
  BY DEF TypeOK
<1>2. pc[w] = "fire" => todo[w] # {}
  BY DEF TypeOK
<1>3. /\ OnPage(w) \in Nat /\ PerTx \in Nat /\ ToSend(w) \in Nat /\ Limit * PerTx \in Nat
      /\ todo[w] # {} => OnPage(w) >= PerTx
  BY PageCounted
<1> QED
  BY <1>1, <1>2, <1>3 DEF Work, Pcs

\* A page has at most Limit transactions.
LEMMA PageIsShort ==
  ASSUME TypeOK
  PROVE  Cardinality(Recent(chain)) \in Nat /\ Cardinality(Recent(chain)) <= Limit
<1>1. chain \in Nat /\ Limit \in Nat \ {0} /\ MaxTx \in Nat
  BY RulesAssumption DEF RulesAssumption, TypeOK, Height
<1>2. Recent(chain) \in SUBSET (chain - Limit + 1 .. chain)
  BY <1>1 DEF Recent, Hash
<1>3. /\ IsFiniteSet(chain - Limit + 1 .. chain)
      /\ Cardinality(chain - Limit + 1 .. chain) = Limit
  <2>1. chain - Limit + 1 \in Int /\ chain \in Int /\ ~ (chain - Limit + 1 > chain)
        /\ chain - (chain - Limit + 1) + 1 = Limit
    BY <1>1
  <2> HIDE <1>1
  <2> QED
    BY <2>1, FS_Interval
<1>4. /\ IsFiniteSet(Recent(chain))
      /\ Cardinality(Recent(chain)) <= Cardinality(chain - Limit + 1 .. chain)
  BY <1>2, <1>3, FS_Subset, Zenon
<1>5. Cardinality(Recent(chain)) \in Nat
  BY <1>4, FS_CardinalityType
<1> QED
  BY <1>3, <1>4, <1>5

\* A transaction less on the page.
LEMMA OneLess ==
  ASSUME IsFiniteSet(Alerts), TypeOK, NEW w \in Workers, todo[w] # {},
         todo'[w] = todo[w] \ {Newest(todo[w])}
  PROVE  OnPage(w)' = OnPage(w) - PerTx
<1> DEFINE n == Cardinality(todo[w])
<1>1. Newest(todo[w]) \in todo[w]
  BY NewestInPage DEF TypeOK
<1>2. IsFiniteSet(todo[w]) /\ n \in Nat /\ PerTx \in Nat
  BY PageCounted
<1>3. Cardinality(todo'[w]) = n - 1
  BY <1>1, <1>2, FS_RemoveElement
<1>4. \A m, c \in Nat : (m - 1) * c = m * c - c
  OBVIOUS
<1>5. OnPage(w)' = (n - 1) * PerTx /\ OnPage(w) = n * PerTx
  BY <1>3 DEF OnPage, PerTx
<1> HIDE DEF n
<1> QED
  BY <1>2, <1>4, <1>5

\* A step of a task leaves it with less work.
LEMMA StepWorks ==
  ASSUME IsFiniteSet(Alerts), TypeOK, TypeOK', NEW w \in Workers, TaskStep(w)
  PROVE  Work(w)' < Work(w)
<1>1. /\ PerTx \in Nat /\ PerTx' = PerTx /\ PerTx = 2 * Cardinality(Alerts) + 3
      /\ Cardinality(Alerts) \in Nat /\ Limit * PerTx \in Nat
      /\ OnPage(w) \in Nat /\ ToSend(w) \in Nat
      /\ todo[w] # {} => OnPage(w) >= PerTx
  BY PageCounted DEF PerTx
<1>2. /\ pc[w] \in Pcs
      /\ pc[w] \in {"evaluate", "fire"} => todo[w] # {}
  BY DEF TypeOK
<1>3. CASE AcquireLock(w) \/ LockUnavailable(w) \/ FetchBalance(w)
  <2>1. \/ pc[w] = "lock" /\ pc'[w] = "balance"
        \/ pc[w] = "balance" /\ pc'[w] = "transactions"
    BY <1>3 DEF AcquireLock, LockUnavailable, FetchBalance, Goto, TypeOK
  <2> QED
    BY <1>1, <2>1 DEF Work
<1>4. CASE FetchTransactions(w)
  <2>1. pc[w] = "transactions" /\ pc'[w] = "update" /\ todo'[w] = Recent(chain)
    BY <1>4 DEF FetchTransactions, Goto, TypeOK
  <2>2. OnPage(w)' = Cardinality(Recent(chain)) * PerTx
    BY <1>1, <2>1 DEF OnPage
  <2>3. \A m, n, c \in Nat : m <= n => m * c <= n * c
    OBVIOUS
  <2>4. OnPage(w)' <= Limit * PerTx /\ OnPage(w)' \in Nat
    BY <1>1, <2>2, <2>3, PageIsShort, RulesAssumption DEF RulesAssumption
  <2> QED
    BY <1>1, <2>1, <2>4 DEF Work
<1>5. CASE UpdateWallet(w) \/ InsertTransaction(w)
  <2>1. /\ todo' = todo
        /\ \/ pc[w] = "update" /\ pc'[w] = "next"
           \/ pc[w] = "next" /\ pc'[w] = "evaluate"
    BY <1>5 DEF UpdateWallet, InsertTransaction, Goto, sessionVars, TypeOK
  <2>2. OnPage(w)' = OnPage(w)
    BY <1>1, <2>1 DEF OnPage
  <2> QED
    BY <1>1, <2>1, <2>2 DEF Work
<1>6. CASE SkipKnown(w) \/ TransactionDone(w)
  <2>1. /\ todo'[w] = todo[w] \ {Newest(todo[w])} /\ todo[w] # {}
        /\ pc[w] \in {"next", "fire"} /\ pc'[w] = "next"
    BY <1>6, <1>2 DEF SkipKnown, TransactionDone, Goto, TypeOK
  <2>2. OnPage(w)' = OnPage(w) - PerTx
    BY <2>1, OneLess
  <2> QED
    BY <1>1, <2>1, <2>2 DEF Work
<1>7. CASE SelectAlerts(w)
  <2>1. /\ pc[w] = "evaluate" /\ pc'[w] = "fire" /\ todo' = todo /\ newDel' = newDel
        /\ pending'[w] \in SUBSET Alerts
    BY <1>7 DEF SelectAlerts, Goto, writeVars, TypeOK
  <2>2. Cardinality(pending'[w]) \in Nat /\ Cardinality(pending'[w]) <= Cardinality(Alerts)
    BY <2>1, FS_Subset, FS_CardinalityType
  <2>3. OnPage(w)' = OnPage(w)
    BY <1>1, <2>1 DEF OnPage
  <2>4. ToSend(w)' <= 2 * Cardinality(Alerts) /\ ToSend(w)' \in Int
    BY <1>1, <2>2 DEF ToSend
  <2> QED
    BY <1>1, <1>2, <2>1, <2>3, <2>4 DEF Work
<1>8. ASSUME NEW a \in Alerts, InsertDelivery(w, a)
      PROVE  Work(w)' < Work(w)
  <2>1. /\ pc[w] = "fire" /\ pc' = pc /\ todo' = todo /\ pending' = pending
        /\ Inserted(w) = {} /\ a \in pending[w]
        /\ <<a, Newest(todo[w])>> \in newDel'[w]
    BY <1>8 DEF InsertDelivery, sessionVars, TypeOK
  <2>2. Inserted(w)' # {}
    BY <2>1 DEF Inserted
  <2>3. OnPage(w)' = OnPage(w)
    BY <1>1, <2>1 DEF OnPage
  <2>4. ToSend(w)' = ToSend(w) - 1
    <3>1. Cardinality(pending[w]) \in Nat
      BY PageCounted
    <3> QED
      BY <2>1, <2>2, <3>1 DEF ToSend
  <2> QED
    BY <1>1, <2>1, <2>3, <2>4 DEF Work
<1>9. ASSUME NEW a \in Alerts, Send(w, a) \/ SendFails(w, a)
      PROVE  Work(w)' < Work(w)
  <2>1. /\ pc[w] = "fire" /\ pc' = pc /\ todo' = todo /\ newDel' = newDel
        /\ a \in Inserted(w) /\ pending'[w] = pending[w] \ {a}
    BY <1>9 DEF Send, SendFails, writeVars, TypeOK
  <2>2. a \in pending[w]
    BY <2>1 DEF Inserted
  <2>3. OnPage(w)' = OnPage(w)
    BY <1>1, <2>1 DEF OnPage
  <2>4. ToSend(w)' < ToSend(w) /\ ToSend(w)' \in Int
    <3>1. Cardinality(pending[w]) \in Nat /\ IsFiniteSet(pending[w])
      BY PageCounted
    <3>2. Cardinality(pending'[w]) = Cardinality(pending[w]) - 1
      BY <2>1, <2>2, <3>1, FS_RemoveElement
    <3>3. Inserted(w) # {}
      BY <2>1
    <3> QED
      BY <3>1, <3>2, <3>3 DEF ToSend
  <2> QED
    BY <1>1, <2>1, <2>3, <2>4 DEF Work
<1>10. CASE \/ FetchFails(w) \/ WalletGone(w) \/ PageDone(w) \/ QueryFails(w)
            \/ \E a \in Alerts : AlertGone(w, a)
  <2>1. /\ pc'[w] \in {"release", "unwind"}
        /\ pc[w] \in {"balance", "transactions", "update", "next", "evaluate", "fire"}
    BY <1>10 DEF FetchFails, WalletGone, PageDone, QueryFails, AlertGone, Goto, TypeOK
  <2>2. Work(w)' = 2
    BY <2>1 DEF Work
  <2>3. pc[w] = "evaluate" => OnPage(w) >= 3
    BY <1>1, <1>2
  <2> QED
    BY <1>1, <1>2, <2>1, <2>2, <2>3 DEF Work
<1>11. CASE ReleaseLock(w) \/ ReleaseUnavailable(w)
  <2>1. pc[w] \in {"release", "unwind"} /\ pc'[w] \in {"commit", "rollback"}
    BY <1>11 DEF ReleaseLock, ReleaseUnavailable, AfterRelease, Goto, TypeOK
  <2> QED
    BY <2>1 DEF Work
<1>12. CASE LockedOut(w) \/ Commit(w) \/ CommitFails(w) \/ Rollback(w) \/ EndSnapshot(w)
  <2>1. pc[w] \in {"lock", "commit", "rollback", "snapped", "snapshot"} /\ pc'[w] = "idle"
    BY <1>12 DEF EndSnapshot, LockedOut, Commit, CommitFails, Rollback, Discard, CloseSession, Goto, TypeOK
  <2>2. Work(w)' = 0
    BY <2>1 DEF Work
  <2> QED
    BY <1>1, <2>1, <2>2 DEF Work
<1>13. CASE WriteSnapshot(w)
  <2>1. pc[w] = "snapshot" /\ pc'[w] = "snapped"
    BY <1>13 DEF WriteSnapshot, Goto, TypeOK
  <2> QED
    BY <2>1 DEF Work
<1> QED
  BY <1>3, <1>4, <1>5, <1>6, <1>7, <1>8, <1>9, <1>10, <1>11, <1>12, <1>13
     DEF TaskStep, FetchStep, DatabaseStep, EndStep, SnapshotStep

\* Others leave a task where it is; a crash ends it.
LEMMA OthersLeave ==
  ASSUME TypeOK, NEW w \in Workers, pc[w] # "idle", [Next]_vars, ~TaskStep(w)
  PROVE  \/ pc'[w] = "idle"
         \/ /\ pc'[w] = pc[w] /\ todo'[w] = todo[w]
            /\ pending'[w] = pending[w] /\ newDel'[w] = newDel[w]
<1> DEFINE Left == /\ pc'[w] = pc[w] /\ todo'[w] = todo[w]
                   /\ pending'[w] = pending[w] /\ newDel'[w] = newDel[w]
<1> USE DEF TypeOK, Goto, sessionVars, writeVars
<1>1. ASSUME NEW v \in Workers, Start(v) \/ StartSnapshot(v)
      PROVE  Left
  BY <1>1 DEF Start, StartSnapshot
<1>2. ASSUME NEW v \in Workers \ {w}, CloseSession(v)
      PROVE  Left
  BY <1>2 DEF CloseSession
<1>3. ASSUME NEW v \in Workers \ {w},
             \/ AcquireLock(v) \/ LockUnavailable(v) \/ FetchBalance(v) \/ FetchTransactions(v)
             \/ FetchFails(v) \/ UpdateWallet(v) \/ WalletGone(v) \/ PageDone(v) \/ QueryFails(v)
             \/ ReleaseLock(v) \/ ReleaseUnavailable(v) \/ WriteSnapshot(v)
      PROVE  Left
  BY <1>3 DEF WriteSnapshot, AcquireLock, LockUnavailable, FetchBalance, FetchTransactions, FetchFails, UpdateWallet,
              WalletGone, PageDone, QueryFails, ReleaseLock, ReleaseUnavailable
<1>4. ASSUME NEW v \in Workers \ {w},
             \/ SkipKnown(v) \/ InsertTransaction(v) \/ SelectAlerts(v) \/ TransactionDone(v)
             \/ \E a \in Alerts : \/ InsertDelivery(v, a) \/ AlertGone(v, a)
                                  \/ Send(v, a) \/ SendFails(v, a)
      PROVE  Left
  <2>1. CASE SkipKnown(v) \/ InsertTransaction(v) \/ SelectAlerts(v) \/ TransactionDone(v)
    BY <2>1 DEF SkipKnown, InsertTransaction, SelectAlerts, TransactionDone
  <2>2. ASSUME NEW a \in Alerts,
               InsertDelivery(v, a) \/ AlertGone(v, a) \/ Send(v, a) \/ SendFails(v, a)
        PROVE  Left
    BY <2>2 DEF InsertDelivery, AlertGone, Send, SendFails
  <2> QED  BY <1>4, <2>1, <2>2
<1>5. Crash(w) => pc'[w] = "idle"
  BY DEF Crash, Discard, CloseSession
<1>6. ASSUME NewTransaction \/ LockExpires \/ UNCHANGED vars
      PROVE  Left
  BY <1>6 DEF NewTransaction, LockExpires, vars
<1>7. ASSUME ApiStep
      PROVE  Left
  BY <1>7 DEF ApiStep, PatchWallet, DeleteWallet, CreateAlert, PatchAlert, DeleteAlert, apiUnchanged
<1> HIDE DEF Left, TypeOK, Goto, sessionVars, writeVars
<1>8. ASSUME NEW v \in Workers, TaskStep(v) PROVE Left
  <2>1. v \in Workers \ {w}
    BY <1>8
  <2>2. CASE LockedOut(v) \/ Commit(v) \/ CommitFails(v) \/ Rollback(v) \/ EndSnapshot(v)
    BY <1>2, <2>1, <2>2 DEF LockedOut, Commit, CommitFails, Rollback, EndSnapshot, Discard
  <2> QED
    BY <1>3, <1>4, <1>8, <2>1, <2>2 DEF TaskStep, FetchStep, DatabaseStep, EndStep, SnapshotStep
<1>9. ASSUME NEW v \in Workers \ {w}, Crash(v) PROVE Left
  BY <1>2, <1>9 DEF Crash, Discard
<1>10. Left \/ pc'[w] = "idle"
  <2>1. CASE \E v \in Workers : Start(v) \/ StartSnapshot(v) \/ TaskStep(v) \/ Crash(v)
    BY <1>1, <1>5, <1>8, <1>9, <2>1
  <2> QED
    BY <1>6, <1>7, <2>1 DEF Next
<1> QED
  BY <1>10 DEF Left

\* TaskEnds rests on it: however the chain grows and whatever the API changes meanwhile, a
\* task has a bounded number of steps before it, by its page and the user's alerts; an
\* alert created while it runs lengthens no loop but the next one (tasks.py).
THEOREM WorkShrinksAlways == ASSUME IsFiniteSet(Alerts) PROVE Spec => WorkShrinks
<1> DEFINE Counted == \A w \in Workers : Work(w) \in Nat
           Shrinks == \A w \in Workers : /\ TaskStep(w) => Work(w)' < Work(w)
                                         /\ pc[w] # "idle" => Work(w)' <= Work(w)
<1>1. TypeOK => Counted
  BY WorkCounted
<1>2. TypeOK /\ TypeOK' /\ Counted /\ Counted' /\ [Next]_vars => [Shrinks]_vars
  <2> SUFFICES ASSUME TypeOK, TypeOK', Counted, Counted', [Next]_vars, NEW w \in Workers
               PROVE  /\ TaskStep(w) => Work(w)' < Work(w)
                      /\ pc[w] # "idle" => Work(w)' <= Work(w)
    OBVIOUS
  <2>1. Work(w) \in Nat /\ Work(w)' \in Nat
    OBVIOUS
  <2> HIDE DEF Counted
  <2>2. CASE TaskStep(w)
    BY <2>1, <2>2, StepWorks
  <2>3. CASE ~TaskStep(w) /\ pc[w] # "idle"
    <3>1. CASE pc'[w] = "idle"
      <4>1. Work(w)' = 0
        BY <3>1 DEF Work
      <4> QED
        BY <2>1, <2>3, <4>1
    <3>2. CASE /\ pc'[w] = pc[w] /\ todo'[w] = todo[w]
               /\ pending'[w] = pending[w] /\ newDel'[w] = newDel[w]
      <4>1. Work(w)' = Work(w)
        BY <3>2 DEF Work, OnPage, ToSend, Inserted, PerTx
      <4> QED
        BY <2>1, <2>3, <4>1
    <3> QED
      BY <2>3, <3>1, <3>2, OthersLeave
  <2> QED
    BY <2>2, <2>3
<1> HIDE DEF Counted
<1> QED
  BY <1>1, <1>2, TypeCorrect, PTL DEF Spec, WorkShrinks
=============================================================================
