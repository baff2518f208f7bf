--------------------------- MODULE SessionsProofs ---------------------------
(***************************************************************************)
(* Proofs about Sessions, for any number of requests and sessions and any  *)
(* quota.                                                                  *)
(***************************************************************************)
EXTENDS Sessions, FiniteSetTheorems, TLAPS

\* Only logins insert, and one session each; a login that revokes has seen
\* active sessions.
Orderly ==
  \A h \in Handlers :
    /\ pc[h] \in {"user", "insert_user", "update_user", "count", "insert"} => kind[h] = "login"
    /\ mine[h] # {} => kind[h] = "login"
    /\ \A s, t \in mine[h] : s = t
    /\ kind[h] = "login" /\ pc[h] \in {"revoke", "locking"} => before[h] # {}

\* The UPDATE of a request loses no session on the way: what it set out to
\* revoke is revoked, marked or still to be locked.
Covered ==
  \A h \in Handlers :
    pc[h] \in {"locking", "insert", "commit"} =>
      before[h] \subseteq revoked \cup marked[h] \cup target[h]

\* Logins that found room and have yet to store their session ...
Permitted ==
  {h \in Handlers : kind[h] = "login" /\ pc[h] \in {"insert", "commit"} /\ before[h] = {}}

\* ... and logins that found none, with the sessions they will have revoked.
Revoking == {h \in Handlers : kind[h] = "login" /\ before[h] # {}}

Doomed(G) == {s \in Sessions : \E g \in G : s \in before[g]}

\* Whichever of the revoking logins G are the first to commit, the sessions
\* that survive them leave room for the logins that are under way.
Room ==
  \A G \in SUBSET Revoking :
    Cardinality(Active \ Doomed(G)) + Cardinality(Permitted) + Cardinality(G)
      < Quota + Cardinality(Handlers)

Inv == TypeOK /\ Orderly /\ Covered /\ Room

-----------------------------------------------------------------------------
(* Types.                                                                  *)

LEMMA ActiveInSessions == TypeOK => Active \in SUBSET Sessions /\ Active \subseteq stored
BY DEF TypeOK, Active

LEMMA TypeInit == Init => TypeOK
<1> SUFFICES ASSUME Init PROVE TypeOK
  OBVIOUS
<1>1. user \in BOOLEAN
  BY DEF Init
<1>2. \A h \in Handlers : userLock # h
  BY SessionsAssumption DEF Init, SessionsAssumption
<1>3. userLock \in Handlers \cup {NoOne}
  BY DEF Init
<1> QED  BY <1>1, <1>2, <1>3 DEF Init, TypeOK, Pcs, Kinds

\* A request that ends keeps the types, whatever it leaves in the tables.
LEMMA CloseType ==
  ASSUME TypeOK, NEW h \in Handlers, Close(h), user' \in BOOLEAN,
         stored' \subseteq Sessions, stored \subseteq stored', revoked' \subseteq stored',
         expired' \subseteq stored'
  PROVE  TypeOK'
<1> USE DEF TypeOK, Close, Goto, FreeUser
<1>1. pc' \in [Handlers -> Pcs] /\ kind' \in [Handlers -> Kinds]
  BY DEF Pcs, Kinds
<1>2. userLock' \in Handlers \cup {NoOne} /\ userLock' # h
  BY SessionsAssumption DEF SessionsAssumption
<1>3. /\ target' \in [Handlers -> SUBSET Sessions] /\ marked' \in [Handlers -> SUBSET Sessions]
      /\ mine' \in [Handlers -> SUBSET Sessions] /\ before' \in [Handlers -> SUBSET Sessions]
  OBVIOUS
<1>4. ASSUME NEW g \in Handlers
      PROVE  /\ before'[g] \subseteq stored' /\ target'[g] \subseteq stored'
             /\ marked'[g] \subseteq stored'
             /\ pc'[g] = "idle" => userLock' # g
             /\ pc'[g] # "locking" => target'[g] = {}
             /\ pc'[g] \notin {"locking", "insert", "commit"} => marked'[g] = {}
             /\ pc'[g] # "commit" => mine'[g] = {}
             /\ pc'[g] \in {"idle", "user", "insert_user", "update_user", "count"} =>
                  before'[g] = {}
  <2>1. CASE g = h
    BY <1>2, <2>1
  <2>2. CASE g # h
    <3>1. /\ pc'[g] = pc[g] /\ target'[g] = target[g] /\ marked'[g] = marked[g]
          /\ mine'[g] = mine[g] /\ before'[g] = before[g]
      BY <2>2
    <3>2. userLock = g => userLock' = g
      BY <2>2
    <3>3. userLock' = g => userLock = g
      BY SessionsAssumption DEF SessionsAssumption
    <3> QED  BY <3>1, <3>2, <3>3
  <2> QED  BY <2>1, <2>2
<1> QED  BY <1>1, <1>2, <1>3, <1>4

LEMMA TypeStep == TypeOK /\ [Next]_vars => TypeOK'
<1> SUFFICES ASSUME TypeOK, [Next]_vars PROVE TypeOK'
  OBVIOUS
<1> USE DEF TypeOK, Pcs, Kinds, Goto, tableVars, requestVars
<1>1. ASSUME NEW h \in Handlers, StartLogin(h) PROVE TypeOK'
  BY <1>1 DEF StartLogin
<1>2. ASSUME NEW h \in Handlers, NEW s \in Sessions, StartLogout(h, s) PROVE TypeOK'
  <2>1. s \in stored
    BY <1>2, ActiveInSessions DEF StartLogout
  <2> QED  BY <1>2, <2>1 DEF StartLogout
<1>3. ASSUME NEW h \in Handlers, StartRevokeAll(h) PROVE TypeOK'
  BY <1>3, ActiveInSessions DEF StartRevokeAll
<1>4. ASSUME NEW h \in Handlers, SelectUser(h) PROVE TypeOK'
  BY <1>4 DEF SelectUser
<1>5. ASSUME NEW h \in Handlers, WriteUser(h) PROVE TypeOK'
  BY <1>5 DEF WriteUser
<1>6. ASSUME NEW h \in Handlers, Count(h) PROVE TypeOK'
  <2>1. /\ before' \in [Handlers -> SUBSET Sessions] /\ before'[h] \subseteq stored
        /\ \A g \in Handlers \ {h} : before'[g] = before[g] /\ pc'[g] = pc[g]
        /\ pc'[h] \in {"revoke", "insert"} /\ pc' \in [Handlers -> Pcs]
    BY <1>6, ActiveInSessions DEF Count
  <2>2. pc[h] = "count" /\ UNCHANGED <<user, stored, revoked, expired, kind, userLock, target, marked, mine>>
    BY <1>6 DEF Count
  <2> HIDE <1>6
  <2> QED  BY <2>1, <2>2
<1>7. ASSUME NEW h \in Handlers, StartUpdate(h) PROVE TypeOK'
  BY <1>7 DEF StartUpdate, Found
<1>8. ASSUME NEW h \in Handlers, NEW s \in Sessions, LockRow(h, s) PROVE TypeOK'
  BY <1>8 DEF LockRow
<1>9. ASSUME NEW h \in Handlers, UpdateDone(h) PROVE TypeOK'
  BY <1>9 DEF UpdateDone
<1>10. ASSUME NEW h \in Handlers, InsertSession(h) PROVE TypeOK'
  BY <1>10 DEF InsertSession, Unused
<1>11. ASSUME NEW h \in Handlers, Commit(h) PROVE TypeOK'
  <2>1. marked[h] \subseteq stored
    OBVIOUS
  <2> QED  BY <1>11, <2>1, CloseType DEF Commit
<1>12. ASSUME NEW h \in Handlers, Discard(h) PROVE TypeOK'
  BY <1>12, CloseType DEF Discard
<1>13. ASSUME NEW s \in Sessions, Expire(s) PROVE TypeOK'
  BY <1>13 DEF Expire
<1>14. CASE UNCHANGED vars
  BY <1>14 DEF vars
<1> QED  BY <1>1, <1>2, <1>3, <1>4, <1>5, <1>6, <1>7, <1>8, <1>9, <1>10, <1>11, <1>12, <1>13, <1>14
         DEF Next, Start, Step, UserExists, DeadlockDetected, Fail

-----------------------------------------------------------------------------
(* Who inserts and who revokes.                                            *)

LEMMA OrderlyInit == Init => Orderly
BY DEF Init, Orderly

\* A request that ends has nothing left to say.
LEMMA OrderlyClose ==
  ASSUME TypeOK, Orderly, NEW h \in Handlers, Close(h)
  PROVE  Orderly'
<1>1. ASSUME NEW g \in Handlers
      PROVE  IF g = h THEN pc'[g] = "idle" /\ mine'[g] = {}
             ELSE /\ pc'[g] = pc[g] /\ kind'[g] = kind[g]
                  /\ mine'[g] = mine[g] /\ before'[g] = before[g]
  BY DEF Close, Goto, TypeOK
<1> QED  BY <1>1 DEF Orderly

LEMMA OrderlyStep == TypeOK /\ Orderly /\ [Next]_vars => Orderly'
<1> SUFFICES ASSUME TypeOK, Orderly, [Next]_vars PROVE Orderly'
  OBVIOUS
<1> USE DEF TypeOK, Orderly, Goto, tableVars, requestVars
<1>1. ASSUME NEW h \in Handlers, Start(h) PROVE Orderly'
  <2>1. CASE StartLogin(h)
    BY <2>1 DEF StartLogin
  <2>2. CASE StartRevokeAll(h)
    BY <2>2 DEF StartRevokeAll
  <2>3. ASSUME NEW s \in Sessions, StartLogout(h, s) PROVE Orderly'
    BY <2>3 DEF StartLogout
  <2> QED  BY <1>1, <2>1, <2>2, <2>3 DEF Start
<1>2. ASSUME NEW h \in Handlers, SelectUser(h) \/ WriteUser(h) PROVE Orderly'
  BY <1>2 DEF SelectUser, WriteUser
<1>3. ASSUME NEW h \in Handlers, Count(h) PROVE Orderly'
  <2>1. QuotaFull => Active # {}
    <3>1. Cardinality({}) = 0 /\ ~(0 >= Quota)
      BY FS_EmptySet, SessionsAssumption DEF SessionsAssumption
    <3> QED  BY <3>1 DEF QuotaFull
  <2>2. /\ \A g \in Handlers \ {h} : before'[g] = before[g] /\ pc'[g] = pc[g]
        /\ pc'[h] = "revoke" => before'[h] # {}
        /\ pc'[h] \in {"revoke", "insert"}
    BY <1>3, <2>1 DEF Count
  <2>3. pc[h] = "count" /\ UNCHANGED <<kind, mine>>
    BY <1>3 DEF Count
  <2> QED  BY <2>2, <2>3
<1>4. ASSUME NEW h \in Handlers, StartUpdate(h) \/ UpdateDone(h) PROVE Orderly'
  BY <1>4 DEF StartUpdate, UpdateDone
<1>5. ASSUME NEW h \in Handlers, NEW s \in Sessions, LockRow(h, s) PROVE Orderly'
  BY <1>5 DEF LockRow
<1>6. ASSUME NEW h \in Handlers, InsertSession(h) PROVE Orderly'
  BY <1>6 DEF InsertSession
<1>7. ASSUME NEW h \in Handlers, Commit(h) \/ Discard(h) PROVE Orderly'
  BY <1>7, OrderlyClose DEF Commit, Discard
<1>8. ASSUME NEW s \in Sessions, Expire(s) PROVE Orderly'
  BY <1>8 DEF Expire
<1>9. CASE UNCHANGED vars
  BY <1>9 DEF vars
<1> QED  BY <1>1, <1>2, <1>3, <1>4, <1>5, <1>6, <1>7, <1>8, <1>9
         DEF Next, Step, UserExists, DeadlockDetected, Fail

-----------------------------------------------------------------------------
(* The UPDATE.                                                             *)

LEMMA CoveredInit == Init => Covered
BY DEF Init, Covered

LEMMA CoveredClose ==
  ASSUME TypeOK, Covered, NEW h \in Handlers, Close(h), revoked \subseteq revoked'
  PROVE  Covered'
<1>1. ASSUME NEW g \in Handlers
      PROVE  IF g = h THEN before'[g] = {}
             ELSE /\ pc'[g] = pc[g] /\ before'[g] = before[g]
                  /\ target'[g] = target[g] /\ marked'[g] = marked[g]
  BY DEF Close, Goto, TypeOK
<1> QED  BY <1>1 DEF Covered

LEMMA CoveredStep == TypeOK /\ Covered /\ [Next]_vars => Covered'
<1> SUFFICES ASSUME TypeOK, Covered, [Next]_vars PROVE Covered'
  OBVIOUS
<1> USE DEF TypeOK, Covered, Goto, tableVars, requestVars
<1>1. ASSUME NEW h \in Handlers, Start(h) PROVE Covered'
  <2>1. CASE StartLogin(h)
    BY <2>1 DEF StartLogin
  <2>2. CASE StartRevokeAll(h)
    BY <2>2 DEF StartRevokeAll
  <2>3. ASSUME NEW s \in Sessions, StartLogout(h, s) PROVE Covered'
    BY <2>3 DEF StartLogout
  <2> QED  BY <1>1, <2>1, <2>2, <2>3 DEF Start
<1>2. ASSUME NEW h \in Handlers, SelectUser(h) \/ WriteUser(h) PROVE Covered'
  BY <1>2 DEF SelectUser, WriteUser
<1>3. ASSUME NEW h \in Handlers, Count(h) PROVE Covered'
  <2>1. /\ \A g \in Handlers \ {h} : before'[g] = before[g] /\ pc'[g] = pc[g]
        /\ pc'[h] = "revoke" \/ before'[h] = {}
        /\ pc'[h] \in {"revoke", "insert"}
        /\ UNCHANGED <<revoked, target, marked>>
    BY <1>3 DEF Count
  <2> QED  BY <2>1
\* What is active, or has been, and is not revoked, the UPDATE finds.
<1>4. ASSUME NEW h \in Handlers, StartUpdate(h) PROVE Covered'
  <2>1. before[h] \subseteq revoked \cup Found(h)
    BY DEF Found
  <2>2. /\ target'[h] = Found(h)
        /\ \A g \in Handlers \ {h} : target'[g] = target[g] /\ pc'[g] = pc[g]
        /\ UNCHANGED <<revoked, marked, before>>
    BY <1>4 DEF StartUpdate
  <2> QED  BY <2>1, <2>2
<1>5. ASSUME NEW h \in Handlers, NEW s \in Sessions, LockRow(h, s) PROVE Covered'
  <2>1. /\ target'[h] = target[h] \ {s} /\ marked[h] \subseteq marked'[h]
        /\ s \in revoked \/ s \in marked'[h]
        /\ \A g \in Handlers \ {h} : target'[g] = target[g] /\ marked'[g] = marked[g]
        /\ UNCHANGED <<revoked, pc, before>>
    BY <1>5 DEF LockRow
  <2> QED  BY <2>1
<1>6. ASSUME NEW h \in Handlers, UpdateDone(h) PROVE Covered'
  BY <1>6 DEF UpdateDone
<1>7. ASSUME NEW h \in Handlers, InsertSession(h) PROVE Covered'
  BY <1>7 DEF InsertSession
<1>8. ASSUME NEW h \in Handlers, Commit(h) \/ Discard(h) PROVE Covered'
  BY <1>8, CoveredClose DEF Commit, Discard
<1>9. ASSUME NEW s \in Sessions, Expire(s) PROVE Covered'
  BY <1>9 DEF Expire
<1>10. CASE UNCHANGED vars
  BY <1>10 DEF vars
<1> QED  BY <1>1, <1>2, <1>3, <1>4, <1>5, <1>6, <1>7, <1>8, <1>9, <1>10
         DEF Next, Step, UserExists, DeadlockDetected, Fail

LEMMA CoveredRevokes == TypeOK /\ Covered => RevokesAll
BY DEF TypeOK, Covered, RevokesAll

-----------------------------------------------------------------------------
(* The quota.                                                              *)

\* Requests of two kinds are no more than there are requests.
LEMMA Apart ==
  ASSUME NEW P \in SUBSET Handlers, NEW G \in SUBSET Handlers, P \cap G = {}
  PROVE  /\ Cardinality(P) \in Nat /\ Cardinality(G) \in Nat /\ Cardinality(Handlers) \in Nat
         /\ Cardinality(P) + Cardinality(G) <= Cardinality(Handlers)
<1>1. IsFiniteSet(Handlers) /\ IsFiniteSet(P) /\ IsFiniteSet(G)
  BY SessionsAssumption, FS_Subset DEF SessionsAssumption
<1>2. Cardinality(P \cup G) = Cardinality(P) + Cardinality(G) - Cardinality(P \cap G)
  BY <1>1, FS_Union
<1>3. Cardinality(P \cap G) = 0
  BY FS_EmptySet
<1>4. Cardinality(P \cup G) <= Cardinality(Handlers)
  BY <1>1, FS_Subset
<1>5. Cardinality(P) \in Nat /\ Cardinality(G) \in Nat /\ Cardinality(Handlers) \in Nat
  BY <1>1, FS_CardinalityType
<1> QED  BY <1>2, <1>3, <1>4, <1>5

LEMMA SessionsCounted ==
  ASSUME NEW S \in SUBSET Sessions, NEW U \in SUBSET S
  PROVE  /\ Cardinality(S) \in Nat /\ Cardinality(U) \in Nat
         /\ Cardinality(U) <= Cardinality(S)
<1>1. IsFiniteSet(S)
  BY SessionsAssumption, FS_Subset DEF SessionsAssumption
<1> QED  BY <1>1, FS_Subset, FS_CardinalityType

\* One session more is one more at most.
LEMMA OneMore ==
  ASSUME NEW S \in SUBSET Sessions, NEW M \in SUBSET Sessions, \A s, t \in M : s = t,
         NEW U \in SUBSET (S \cup M)
  PROVE  Cardinality(U) <= Cardinality(S) + 1
<1>1. IsFiniteSet(S) /\ Cardinality(S) \in Nat
  BY SessionsAssumption, FS_Subset, FS_CardinalityType DEF SessionsAssumption
<1>2. CASE M = {}
  <2>1. U \in SUBSET S
    BY <1>2
  <2> QED  BY <1>1, <2>1, SessionsCounted
<1>3. ASSUME NEW s \in M PROVE Cardinality(U) <= Cardinality(S) + 1
  <2>1. U \in SUBSET (S \cup {s}) /\ S \cup {s} \in SUBSET Sessions
    BY <1>3
  <2>2. Cardinality(U) <= Cardinality(S \cup {s}) /\ Cardinality(U) \in Nat
    BY <2>1, SessionsCounted
  <2>3. Cardinality(S \cup {s}) <= Cardinality(S) + 1
    <3>1. Cardinality(S \cup {s}) = IF s \in S THEN Cardinality(S) ELSE Cardinality(S) + 1
      BY <1>1, FS_AddElement, Zenon
    <3> QED  BY <1>1, <3>1
  <2>4. Cardinality(S \cup {s}) \in Nat
    BY <2>1, SessionsCounted
  <2> QED  BY <1>1, <2>2, <2>3, <2>4
<1> QED  BY <1>2, <1>3

LEMMA RoomInit == Init => Room
<1> SUFFICES ASSUME Init, NEW G \in SUBSET Revoking
             PROVE  Cardinality(Active \ Doomed(G)) + Cardinality(Permitted) + Cardinality(G)
                      < Quota + Cardinality(Handlers)
  BY DEF Room
<1>1. Active \ Doomed(G) = {} /\ Permitted = {} /\ G = {}
  BY DEF Init, Active, Permitted, Revoking
<1>2. Cardinality({}) = 0
  BY FS_EmptySet
<1>3. Cardinality(Handlers) \in Nat
  BY SessionsAssumption, FS_CardinalityType DEF SessionsAssumption
<1> QED  BY <1>1, <1>2, <1>3, SessionsAssumption DEF SessionsAssumption

\* Most steps give nobody a new right to a session.
LEMMA Shrinks ==
  ASSUME TypeOK, Room, Active' \subseteq Active,
         Permitted' \subseteq Permitted, Revoking' \subseteq Revoking,
         \A g \in Revoking' : before'[g] = before[g]
  PROVE  Room'
<1> SUFFICES ASSUME NEW G \in SUBSET Revoking'
             PROVE  Cardinality(Active' \ Doomed(G)') + Cardinality(Permitted') + Cardinality(G)
                      < Quota + Cardinality(Handlers)
  BY DEF Room
<1>1. G \in SUBSET Revoking /\ Doomed(G)' = Doomed(G)
  BY DEF Doomed
<1>2. /\ Active \ Doomed(G) \in SUBSET Sessions
      /\ Active' \ Doomed(G)' \in SUBSET (Active \ Doomed(G))
  BY <1>1, ActiveInSessions
<1>3. /\ Cardinality(Active' \ Doomed(G)') <= Cardinality(Active \ Doomed(G))
      /\ Cardinality(Active' \ Doomed(G)') \in Nat /\ Cardinality(Active \ Doomed(G)) \in Nat
  BY <1>2, SessionsCounted
<1>4. Permitted \in SUBSET Handlers /\ IsFiniteSet(Permitted) /\ IsFiniteSet(G)
  BY <1>1, SessionsAssumption, FS_Subset DEF SessionsAssumption, Permitted, Revoking
<1>5. /\ Cardinality(Permitted') <= Cardinality(Permitted)
      /\ Cardinality(Permitted) \in Nat /\ Cardinality(Permitted') \in Nat
  BY <1>4, FS_Subset, FS_CardinalityType
<1>6. Cardinality(G) \in Nat /\ Cardinality(Handlers) \in Nat
  BY <1>4, SessionsAssumption, FS_CardinalityType DEF SessionsAssumption
<1>7. Cardinality(Active \ Doomed(G)) + Cardinality(Permitted) + Cardinality(G)
        < Quota + Cardinality(Handlers)
  BY <1>1 DEF Room
<1> QED  BY <1>3, <1>5, <1>6, <1>7, SessionsAssumption DEF SessionsAssumption

\* A login that finds room may add one session, one that finds none will have
\* revoked all it has seen.
LEMMA RoomCount ==
  ASSUME TypeOK, Orderly, Room, NEW h \in Handlers, Count(h)
  PROVE  Room'
<1> SUFFICES ASSUME NEW G \in SUBSET Revoking'
             PROVE  Cardinality(Active' \ Doomed(G)') + Cardinality(Permitted') + Cardinality(G)
                      < Quota + Cardinality(Handlers)
  BY DEF Room
<1>1. /\ Active' = Active /\ kind' = kind /\ kind[h] = "login" /\ before[h] = {} /\ pc[h] = "count"
      /\ \A g \in Handlers \ {h} : before'[g] = before[g] /\ pc'[g] = pc[g]
      /\ IF QuotaFull THEN pc'[h] = "revoke" /\ before'[h] = Active
                      ELSE pc'[h] = "insert" /\ before'[h] = {}
  BY DEF Count, Goto, TypeOK, Orderly, Active, tableVars
<1>2. Permitted' \in SUBSET Handlers /\ G \in SUBSET Handlers /\ Permitted' \cap G = {}
  BY DEF Permitted, Revoking
<1>3. /\ Cardinality(Permitted') \in Nat /\ Cardinality(G) \in Nat /\ Cardinality(Handlers) \in Nat
      /\ Cardinality(Permitted') + Cardinality(G) <= Cardinality(Handlers)
  BY <1>2, Apart
<1>4. CASE ~QuotaFull
  <2>1. Active \in SUBSET Sessions /\ Active' \ Doomed(G)' \in SUBSET Active
    BY <1>1, ActiveInSessions
  <2>2. /\ Cardinality(Active' \ Doomed(G)') <= Cardinality(Active)
        /\ Cardinality(Active' \ Doomed(G)') \in Nat /\ Cardinality(Active) \in Nat
    BY <2>1, SessionsCounted
  <2> QED  BY <1>3, <1>4, <2>2, SessionsAssumption DEF QuotaFull, SessionsAssumption
<1>5. CASE QuotaFull /\ h \in G
  <2>1. Active' \ Doomed(G)' = {}
    BY <1>1, <1>5, ActiveInSessions DEF Doomed
  <2>2. Cardinality(Active' \ Doomed(G)') = 0
    BY <2>1, FS_EmptySet
  <2> QED  BY <1>3, <2>2, SessionsAssumption DEF SessionsAssumption
<1>6. CASE QuotaFull /\ h \notin G
  <2>1. Permitted' = Permitted
    BY <1>1, <1>6 DEF Permitted
  <2>2. G \in SUBSET Revoking /\ Doomed(G)' = Doomed(G)
    BY <1>1, <1>2, <1>6 DEF Revoking, Doomed
  <2> QED  BY <1>1, <2>1, <2>2 DEF Room
<1> QED  BY <1>4, <1>5, <1>6

\* A login that was let in uses up its own place.
LEMMA RoomCommitPermitted ==
  ASSUME TypeOK, Orderly, Room, NEW h \in Permitted, Commit(h)
  PROVE  Room'
<1> SUFFICES ASSUME NEW G \in SUBSET Revoking'
             PROVE  Cardinality(Active' \ Doomed(G)') + Cardinality(Permitted') + Cardinality(G)
                      < Quota + Cardinality(Handlers)
  BY DEF Room
<1>1. h \in Handlers /\ before[h] = {}
  BY DEF Permitted
<1>2. \A g \in Handlers \ {h} : pc'[g] = pc[g] /\ kind'[g] = kind[g] /\ before'[g] = before[g]
  BY <1>1 DEF Commit, Close, Goto, TypeOK
<1>3. pc'[h] = "idle" /\ before'[h] = {}
  BY <1>1 DEF Commit, Close, Goto, TypeOK
<1>4. Permitted' = Permitted \ {h}
  BY <1>1, <1>2, <1>3 DEF Permitted
<1>5. G \in SUBSET Revoking /\ Doomed(G)' = Doomed(G)
  BY <1>1, <1>2, <1>3 DEF Revoking, Doomed
<1>6. Active' \subseteq Active \cup mine[h]
  BY DEF Commit, Active
<1>7. /\ Active \ Doomed(G) \in SUBSET Sessions /\ mine[h] \in SUBSET Sessions
      /\ Active' \ Doomed(G)' \in SUBSET ((Active \ Doomed(G)) \cup mine[h])
  BY <1>1, <1>5, <1>6, ActiveInSessions DEF TypeOK
<1>8. Cardinality(Active' \ Doomed(G)') <= Cardinality(Active \ Doomed(G)) + 1
  BY <1>1, <1>7, OneMore DEF Orderly
<1>9. /\ Cardinality(Permitted') = Cardinality(Permitted) - 1
      /\ Cardinality(Permitted) \in Nat
  <2>1. Permitted \in SUBSET Handlers
    BY DEF Permitted
  <2>2. IsFiniteSet(Permitted)
    BY <2>1, SessionsAssumption, FS_Subset DEF SessionsAssumption
  <2> QED  BY <1>4, <2>2, FS_RemoveElement, FS_CardinalityType
<1>10. Active' \ Doomed(G)' \in SUBSET Sessions
  BY <1>7
<1>11. Cardinality(Active' \ Doomed(G)') \in Nat /\ Cardinality(Active \ Doomed(G)) \in Nat
  BY <1>7, <1>10, SessionsCounted
<1>12. G \in SUBSET Handlers
  BY <1>5 DEF Revoking
<1>13. Cardinality(G) \in Nat /\ Cardinality(Handlers) \in Nat
  BY <1>12, SessionsAssumption, FS_Subset, FS_CardinalityType DEF SessionsAssumption
<1>14. Cardinality(Active \ Doomed(G)) + Cardinality(Permitted) + Cardinality(G)
         < Quota + Cardinality(Handlers)
  BY <1>5 DEF Room
<1> QED  BY <1>8, <1>9, <1>11, <1>13, <1>14, SessionsAssumption DEF SessionsAssumption

\* A login that revokes takes the sessions it has seen with it.
LEMMA RoomCommitRevoking ==
  ASSUME TypeOK, Orderly, Covered, Room, NEW h \in Revoking, Commit(h)
  PROVE  Room'
<1> SUFFICES ASSUME NEW G \in SUBSET Revoking'
             PROVE  Cardinality(Active' \ Doomed(G)') + Cardinality(Permitted') + Cardinality(G)
                      < Quota + Cardinality(Handlers)
  BY DEF Room
<1> DEFINE F == G \cup {h}
<1>1. h \in Handlers /\ before[h] # {}
  BY DEF Revoking
<1>2. \A g \in Handlers \ {h} : pc'[g] = pc[g] /\ kind'[g] = kind[g] /\ before'[g] = before[g]
  BY <1>1 DEF Commit, Close, Goto, TypeOK
<1>3. pc'[h] = "idle" /\ before'[h] = {}
  BY <1>1 DEF Commit, Close, Goto, TypeOK
<1>4. Permitted' = Permitted
  BY <1>1, <1>2, <1>3 DEF Permitted
<1>5. h \notin G /\ G \in SUBSET Handlers /\ F \in SUBSET Revoking
  BY <1>1, <1>2, <1>3 DEF Revoking
<1>6. Doomed(F) = Doomed(G)' \cup before[h]
  BY <1>1, <1>2, <1>5 DEF Doomed, TypeOK
<1>7. Active' \subseteq (Active \ before[h]) \cup mine[h]
  <2>1. before[h] \subseteq revoked'
    BY <1>1, CoveredRevokes DEF RevokesAll, Commit
  <2> QED  BY <2>1 DEF Commit, Active
<1>8. /\ Active \ Doomed(F) \in SUBSET Sessions /\ mine[h] \in SUBSET Sessions
      /\ Active' \ Doomed(G)' \in SUBSET ((Active \ Doomed(F)) \cup mine[h])
  BY <1>1, <1>6, <1>7, ActiveInSessions DEF TypeOK
<1>9. Cardinality(Active' \ Doomed(G)') <= Cardinality(Active \ Doomed(F)) + 1
  BY <1>1, <1>8, OneMore DEF Orderly
<1>10. IsFiniteSet(G)
  BY <1>5, SessionsAssumption, FS_Subset DEF SessionsAssumption
<1>11. Cardinality(F) = Cardinality(G) + 1 /\ Cardinality(G) \in Nat
  BY <1>5, <1>10, FS_AddElement, FS_CardinalityType
<1>12. Active' \ Doomed(G)' \in SUBSET Sessions /\ Permitted \in SUBSET Handlers
  BY <1>8 DEF Permitted
<1>13. Cardinality(Active' \ Doomed(G)') \in Nat /\ Cardinality(Active \ Doomed(F)) \in Nat
  BY <1>8, <1>12, SessionsCounted
<1>14. Cardinality(Permitted) \in Nat /\ Cardinality(Handlers) \in Nat
  BY <1>12, SessionsAssumption, FS_Subset, FS_CardinalityType DEF SessionsAssumption
<1>15. Cardinality(Active \ Doomed(F)) + Cardinality(Permitted) + Cardinality(F)
         < Quota + Cardinality(Handlers)
  BY <1>5 DEF Room
<1> HIDE DEF F
<1> QED  BY <1>4, <1>9, <1>11, <1>13, <1>14, <1>15, SessionsAssumption DEF SessionsAssumption

\* A request that ends without storing a session gives back what it had.
LEMMA RoomClose ==
  ASSUME TypeOK, Room, NEW h \in Handlers, Close(h), Active' \subseteq Active
  PROVE  Room'
<1>1. \A g \in Handlers \ {h} : pc'[g] = pc[g] /\ kind'[g] = kind[g] /\ before'[g] = before[g]
  BY DEF Close, Goto, TypeOK
<1>2. pc'[h] = "idle" /\ before'[h] = {}
  BY DEF Close, Goto, TypeOK
<1>3. /\ Permitted' \subseteq Permitted /\ Revoking' \subseteq Revoking
      /\ \A g \in Revoking' : before'[g] = before[g]
  BY <1>1, <1>2 DEF Permitted, Revoking
<1> QED  BY <1>3, Shrinks

LEMMA RoomCommit ==
  ASSUME TypeOK, Orderly, Covered, Room, NEW h \in Handlers, Commit(h)
  PROVE  Room'
<1>1. CASE h \in Permitted
  BY <1>1, RoomCommitPermitted
<1>2. CASE h \in Revoking
  BY <1>2, RoomCommitRevoking
<1>3. CASE h \notin Permitted /\ h \notin Revoking
  <2>1. mine[h] = {}
    BY <1>3 DEF Commit, Permitted, Revoking, Orderly
  <2>2. Active' \subseteq Active /\ Close(h)
    BY <2>1 DEF Commit, Active
  <2> QED  BY <2>2, RoomClose
<1> QED  BY <1>1, <1>2, <1>3

LEMMA RoomStep == TypeOK /\ Orderly /\ Covered /\ Room /\ [Next]_vars => Room'
<1> SUFFICES ASSUME TypeOK, Orderly, Covered, Room, [Next]_vars PROVE Room'
  OBVIOUS
<1> DEFINE Fewer == /\ Active' \subseteq Active
                    /\ Permitted' \subseteq Permitted /\ Revoking' \subseteq Revoking
                    /\ \A g \in Revoking' : before'[g] = before[g]
<1> USE DEF TypeOK, Active, Permitted, Revoking, Goto, tableVars, requestVars
<1>1. ASSUME NEW h \in Handlers, Start(h) PROVE Fewer
  <2>1. CASE StartLogin(h)
    BY <2>1 DEF StartLogin
  <2>2. CASE StartRevokeAll(h)
    BY <2>2 DEF StartRevokeAll
  <2>3. ASSUME NEW s \in Sessions, StartLogout(h, s) PROVE Fewer
    BY <2>3 DEF StartLogout
  <2> QED  BY <1>1, <2>1, <2>2, <2>3 DEF Start
<1>2. ASSUME NEW h \in Handlers, SelectUser(h) \/ WriteUser(h) PROVE Fewer
  BY <1>2 DEF SelectUser, WriteUser
<1>3. ASSUME NEW h \in Handlers, StartUpdate(h) PROVE Fewer
  BY <1>3 DEF StartUpdate
<1>4. ASSUME NEW h \in Handlers, NEW s \in Sessions, LockRow(h, s) PROVE Fewer
  BY <1>4 DEF LockRow
\* A login that has revoked has seen something to revoke: it is not let in anew.
<1>5. ASSUME NEW h \in Handlers, UpdateDone(h) PROVE Fewer
  BY <1>5 DEF UpdateDone, Orderly
<1>6. ASSUME NEW h \in Handlers, InsertSession(h) PROVE Fewer
  BY <1>6 DEF InsertSession
<1>7. ASSUME NEW s \in Sessions, Expire(s) PROVE Fewer
  BY <1>7 DEF Expire
<1>8. ASSUME UNCHANGED vars PROVE Fewer
  BY <1>8 DEF vars
<1>9. ASSUME NEW h \in Handlers, Discard(h) PROVE Room'
  <2>1. Close(h) /\ Active' \subseteq Active
    BY <1>9 DEF Discard
  <2> QED  BY <2>1, RoomClose
<1>10. Fewer => Room'
  BY Shrinks
<1> HIDE DEF Fewer
<1> QED  BY <1>1, <1>2, <1>3, <1>4, <1>5, <1>6, <1>7, <1>8, <1>9, <1>10, RoomCount, RoomCommit
         DEF Next, Step, UserExists, DeadlockDetected, Fail

\* With nobody's revocation counted in, Room is the bound.
LEMMA RoomBounds == TypeOK /\ Room => SessionsBounded
<1> SUFFICES ASSUME TypeOK, Room PROVE SessionsBounded
  OBVIOUS
<1>1. {} \in SUBSET Revoking /\ Active \ Doomed({}) = Active
  BY DEF Doomed
<1>2. Cardinality(Active) + Cardinality(Permitted) + Cardinality({})
        < Quota + Cardinality(Handlers)
  BY <1>1 DEF Room
<1>3. Permitted \in SUBSET Handlers /\ Permitted \cap {} = {} /\ {} \in SUBSET Handlers
  BY DEF Permitted
<1>4. /\ Cardinality(Permitted) \in Nat /\ Cardinality({}) = 0
      /\ Cardinality(Handlers) \in Nat /\ Cardinality(Active) \in Nat
  BY <1>3, Apart, FS_EmptySet, ActiveInSessions, SessionsCounted
<1> QED  BY <1>2, <1>4, SessionsAssumption DEF SessionsBounded, SessionsAssumption

-----------------------------------------------------------------------------
(* The theorems.                                                           *)

LEMMA InvAlways == Spec => []Inv
<1>1. Init => Inv
  BY TypeInit, OrderlyInit, CoveredInit, RoomInit DEF Inv
<1>2. Inv /\ [Next]_vars => Inv'
  BY TypeStep, OrderlyStep, CoveredStep, RoomStep DEF Inv
<1> QED  BY <1>1, <1>2, PTL DEF Spec

\* Every variable keeps its type, and a request that has ended holds nothing.
THEOREM TypeCorrect == Spec => []TypeOK
<1>1. Inv => TypeOK
  BY DEF Inv
<1> QED  BY <1>1, InvAlways, PTL

\* logout, revoke-all and a login over the quota (users.py:97-123) leave no session
\* out that was active when they decided to revoke, however many do it at once.
THEOREM RevokesAllAlways == Spec => []RevokesAll
<1>1. Inv => RevokesAll
  BY CoveredRevokes DEF Inv
<1> QED  BY <1>1, InvAlways, PTL

\* Count and insert without a lock (users.py:51-71): the active sessions stay below
\* the quota plus the number of requests that run at a time.
THEOREM SessionsBoundedAlways == Spec => []SessionsBounded
<1>1. Inv => SessionsBounded
  BY RoomBounds DEF Inv
<1> QED  BY <1>1, InvAlways, PTL

-----------------------------------------------------------------------------
(* Waiting.  Liveness rests on this: requests end, because each of them    *)
(* has only so many steps of its own (WorkShrinks), and no group of them   *)
(* waits for each other for ever (NobodyStuck).                            *)

\* The user's row is held by requests that are past it; none waits for a row that it
\* holds itself.
Ordered ==
  \A h \in Handlers :
    /\ userLock = h => pc[h] \in {"count", "revoke", "locking", "insert", "commit"}
    /\ target[h] \cap marked[h] = {}

\* The bound on sessions keeps no login from its insert.
Spare == Cardinality(Entitled) <= Cardinality(Unused)

\* Some step of h is enabled: by the guards of Step, one by one.
CanStep(h) ==
  \/ pc[h] \in {"user", "count", "revoke", "commit"}
  \/ pc[h] \in {"insert_user", "update_user"} /\ userLock = NoOne
  \/ pc[h] = "locking" /\ target[h] = {}
  \/ pc[h] = "locking" /\ \E s \in target[h] : ~Locked(s)
  \/ pc[h] = "insert" /\ Unused # {}
  \/ \E S \in SUBSET Handlers : h \in S /\ Deadlocked(S)

\* h needs a row that g holds.
WaitsFor(h, g) ==
  \/ pc[h] \in {"insert_user", "update_user"} /\ userLock = g
  \/ pc[h] = "locking" /\ target[h] \cap marked[g] # {}

\* Requests that wait, if at all, for each other.
Group(S) ==
  /\ S # {} /\ \A h \in S : pc[h] # "idle"
  /\ \A h \in S, g \in Handlers : WaitsFor(h, g) => g \in S

\* In every such group one can go on.
NobodyStuck == \A S \in SUBSET Handlers : Group(S) => \E h \in S : CanStep(h)

\* At first nobody holds anything.
LEMMA OrderedInit == Init => Ordered
BY SessionsAssumption DEF Init, Ordered

\* A request that ends holds nothing.
LEMMA OrderedClose ==
  ASSUME TypeOK, Ordered, NEW h \in Handlers, Close(h)
  PROVE  Ordered'
<1>1. userLock' # h /\ (userLock' = userLock \/ userLock' = NoOne)
  BY SessionsAssumption DEF Close, FreeUser
<1>2. ASSUME NEW g \in Handlers
      PROVE  IF g = h THEN pc'[g] = "idle" /\ marked'[g] = {} /\ target'[g] = {}
             ELSE pc'[g] = pc[g] /\ marked'[g] = marked[g] /\ target'[g] = target[g]
  BY DEF Close, Goto, TypeOK
<1> QED
  BY <1>1, <1>2, SessionsAssumption DEF Ordered

\* Only the UPDATE of a request takes rows, and takes them off its list.
LEMMA OrderedStep == TypeOK /\ Ordered /\ [Next]_vars => Ordered'
<1> SUFFICES ASSUME TypeOK, Ordered, [Next]_vars
             PROVE  Ordered'
  OBVIOUS
<1> USE DEF Ordered, TypeOK, Goto, tableVars, requestVars
<1>1. ASSUME NEW h \in Handlers, Start(h)
      PROVE  Ordered'
  BY <1>1 DEF Start, StartLogin, StartLogout, StartRevokeAll
<1>2. ASSUME NEW h \in Handlers, SelectUser(h) \/ WriteUser(h) \/ Count(h)
      PROVE  Ordered'
  BY <1>2, SessionsAssumption DEF SelectUser, WriteUser, Count
<1>3. ASSUME NEW h \in Handlers, StartUpdate(h)
      PROVE  Ordered'
  BY <1>3 DEF StartUpdate, Found
<1>4. ASSUME NEW h \in Handlers, NEW s \in Sessions, LockRow(h, s)
      PROVE  Ordered'
  BY <1>4 DEF LockRow
<1>5. ASSUME NEW h \in Handlers, UpdateDone(h) \/ InsertSession(h)
      PROVE  Ordered'
  BY <1>5 DEF UpdateDone, InsertSession
<1>6. ASSUME NEW h \in Handlers, Commit(h) \/ Discard(h)
      PROVE  Ordered'
  BY <1>6, OrderedClose DEF Commit, Discard
<1>7. ASSUME NEW s \in Sessions, Expire(s)
      PROVE  Ordered'
  BY <1>7 DEF Expire
<1>8. CASE UNCHANGED vars
  BY <1>8 DEF vars
<1> QED
  BY <1>1, <1>2, <1>3, <1>4, <1>5, <1>6, <1>7, <1>8
     DEF Next, Step, UserExists, DeadlockDetected, Fail

\* Both are finite.
LEMMA EntitledCounted ==
  /\ IsFiniteSet(Entitled) /\ Cardinality(Entitled) \in Nat
  /\ IsFiniteSet(Unused) /\ Cardinality(Unused) \in Nat
<1>1. Entitled \in SUBSET Handlers /\ Unused \in SUBSET Sessions
  BY DEF Entitled, Unused
<1> QED
  BY <1>1, SessionsAssumption, FS_Subset, FS_CardinalityType

\* At first there is no login.
LEMMA SpareInit == Init => Spare
<1> SUFFICES ASSUME Init
             PROVE  Spare
  OBVIOUS
<1>1. Entitled = {}
  BY DEF Init, Entitled
<1> QED
  BY <1>1, FS_EmptySet, EntitledCounted DEF Spare

\* Nobody new asks for a session, and none of them is used up.
LEMMA SpareStays ==
  ASSUME Spare, Entitled' \subseteq Entitled, Unused \subseteq Unused', Unused' \subseteq Sessions
  PROVE  Spare'
<1>1. Entitled' \in SUBSET Entitled /\ IsFiniteSet(Unused') /\ Unused \in SUBSET Unused'
  BY SessionsAssumption, FS_Subset
<1>2. Cardinality(Entitled') <= Cardinality(Entitled) /\ Cardinality(Unused) <= Cardinality(Unused')
  BY <1>1, EntitledCounted, FS_Subset
<1>3. Cardinality(Entitled') \in Nat /\ Cardinality(Unused') \in Nat
  BY <1>1, EntitledCounted, FS_Subset, FS_CardinalityType
<1> QED
  BY <1>2, <1>3, EntitledCounted DEF Spare

\* A login starts only while there is one more; its insert takes one for itself.
LEMMA SpareStep == TypeOK /\ Orderly /\ Spare /\ [Next]_vars => Spare'
<1> SUFFICES ASSUME TypeOK, Orderly, Spare, [Next]_vars
             PROVE  Spare'
  OBVIOUS
<1>0. Unused' \subseteq Sessions
  BY DEF Unused
<1>1. ASSUME NEW h \in Handlers, StartLogin(h)
      PROVE  Spare'
  <2>1. Entitled' = Entitled \cup {h} /\ h \notin Entitled
    BY <1>1 DEF StartLogin, Entitled, Goto, TypeOK, requestVars
  <2>2. Unused' = Unused
    BY <1>1 DEF StartLogin, Unused, requestVars, tableVars
  <2>3. Cardinality(Entitled') = Cardinality(Entitled) + 1
    BY <2>1, EntitledCounted, FS_AddElement
  <2> QED
    BY <1>1, <2>2, <2>3, EntitledCounted DEF StartLogin, Spare
<1>2. ASSUME NEW h \in Handlers, InsertSession(h)
      PROVE  Spare'
  <2>1. PICK s \in Unused : mine' = [mine EXCEPT ![h] = {s}]
    BY <1>2 DEF InsertSession
  <2>2. h \in Entitled /\ Entitled' = Entitled \ {h}
    BY <1>2, <2>1 DEF InsertSession, Entitled, Goto, TypeOK, Orderly
  <2>3. mine[h] = {}
    BY <1>2 DEF InsertSession, TypeOK
  <2>4. UNION {mine'[g] : g \in Handlers} = (UNION {mine[g] : g \in Handlers}) \cup {s}
    BY <2>1, <2>3 DEF TypeOK
  <2>5. Unused' = Unused \ {s}
    BY <1>2, <2>4 DEF InsertSession, Unused, tableVars
  <2>6. /\ Cardinality(Entitled') = Cardinality(Entitled) - 1
        /\ Cardinality(Unused') = Cardinality(Unused) - 1
    BY <2>1, <2>2, <2>5, EntitledCounted, FS_RemoveElement
  <2> QED
    BY <2>6, EntitledCounted DEF Spare
<1>3. ASSUME NEW h \in Handlers, Commit(h) \/ Discard(h)
      PROVE  Spare'
  <2>1. Entitled' \subseteq Entitled
    BY <1>3 DEF Commit, Discard, Close, Goto, Entitled, TypeOK
  <2>2. mine' = [mine EXCEPT ![h] = {}] /\ stored' \in {stored, stored \cup mine[h]}
    BY <1>3 DEF Commit, Discard, Close, tableVars
  <2>3. stored' \cup UNION {mine'[g] : g \in Handlers} \subseteq stored \cup UNION {mine[g] : g \in Handlers}
    BY <2>2 DEF TypeOK
  <2>4. Unused \subseteq Unused'
    BY <2>3 DEF Unused
  <2> QED
    BY <1>0, <2>1, <2>4, SpareStays
<1>4. ASSUME NEW h \in Handlers, StartRevokeAll(h) \/ \E s \in Sessions : StartLogout(h, s)
      PROVE  Spare'
  <2>1. Entitled' \subseteq Entitled
    BY <1>4 DEF StartRevokeAll, StartLogout, Goto, Entitled, TypeOK, requestVars
  <2>2. Unused \subseteq Unused'
    BY <1>4 DEF StartRevokeAll, StartLogout, Unused, tableVars, requestVars
  <2> QED
    BY <1>0, <2>1, <2>2, SpareStays
<1>5. ASSUME NEW h \in Handlers,
             \/ SelectUser(h) \/ WriteUser(h) \/ Count(h) \/ StartUpdate(h) \/ UpdateDone(h)
             \/ \E s \in Sessions : LockRow(h, s)
      PROVE  Spare'
  <2>1. UNCHANGED <<stored, kind, mine>> /\ \A g \in Handlers : pc'[g] # "idle" => pc[g] # "idle"
    BY <1>5 DEF SelectUser, WriteUser, Count, StartUpdate, UpdateDone, LockRow, Goto, TypeOK,
       tableVars, requestVars
  <2>2. Entitled' \subseteq Entitled /\ Unused \subseteq Unused'
    BY <2>1 DEF Entitled, Unused
  <2> QED
    BY <1>0, <2>2, SpareStays
<1>6. ASSUME (\E s \in Sessions : Expire(s)) \/ UNCHANGED vars
      PROVE  Spare'
  <2>1. UNCHANGED <<stored, kind, mine, pc>>
    BY <1>6 DEF Expire, vars, tableVars, requestVars
  <2>2. Entitled' \subseteq Entitled /\ Unused \subseteq Unused'
    BY <2>1 DEF Entitled, Unused
  <2> QED
    BY <1>0, <2>2, SpareStays
<1> QED
  BY <1>1, <1>2, <1>3, <1>4, <1>5, <1>6
     DEF Next, Start, Step, UserExists, DeadlockDetected, Fail

\* A group of which nobody can go on is a deadlock, whose victim can.
LEMMA GroupMoves ==
  ASSUME TypeOK, Orderly, Ordered, Spare, NEW S \in SUBSET Handlers, Group(S)
  PROVE  \E h \in S : CanStep(h)
<1> SUFFICES ASSUME \A h \in S : ~CanStep(h)
             PROVE  FALSE
  OBVIOUS
<1> DEFINE L == {h \in S : pc[h] = "locking"}
<1>1. Unused # {} \/ \A h \in Handlers : pc[h] # "insert"
  <2> SUFFICES ASSUME NEW h \in Handlers, pc[h] = "insert", Unused = {}
               PROVE  FALSE
    OBVIOUS
  <2>1. h \in Entitled
    BY DEF Entitled, TypeOK, Orderly
  <2>2. Cardinality(Entitled) # 0 /\ Cardinality(Unused) = 0
    BY <2>1, EntitledCounted, FS_EmptySet
  <2> QED
    BY <2>2, EntitledCounted DEF Spare
<1>2. \A h \in S : pc[h] \in {"locking", "insert_user", "update_user"}
  BY <1>1 DEF CanStep, Group, TypeOK, Pcs
<1>3. L # {}
  <2> SUFFICES ASSUME NEW h \in S, pc[h] \in {"insert_user", "update_user"}
               PROVE  L # {}
    BY <1>2 DEF Group
  <2>1. userLock \in Handlers
    BY DEF CanStep, TypeOK
  <2>2. userLock \in S
    BY <2>1 DEF Group, WaitsFor
  <2> QED
    BY <1>2, <2>1, <2>2 DEF Ordered
<1>4. Deadlocked(L)
  <2> SUFFICES ASSUME NEW h \in L, NEW s \in target[h]
               PROVE  \E g \in L \ {h} : s \in marked[g]
    BY DEF Deadlocked, CanStep
  <2>1. PICK g \in Handlers : s \in marked[g]
    BY DEF CanStep, Locked
  <2>2. g \in S
    BY <2>1 DEF Group, WaitsFor
  <2>3. pc[g] = "locking"
    BY <1>2, <2>1, <2>2 DEF TypeOK
  <2>4. g # h
    BY <2>1 DEF Ordered
  <2> QED
    BY <2>1, <2>2, <2>3, <2>4
<1> QED
  BY <1>3, <1>4 DEF CanStep

\* Requests that wait for the user's row or for each other's sessions (users.py:20-123):
\* one of them can go on, or PostgreSQL finds the deadlock that they are in.
THEOREM NobodyStuckEver == Spec => []NobodyStuck
<1>1. Init => Ordered /\ Spare
  BY OrderedInit, SpareInit
<1>2. Inv /\ Ordered /\ Spare /\ [Next]_vars => Ordered' /\ Spare'
  BY OrderedStep, SpareStep DEF Inv
<1>3. Inv /\ Ordered /\ Spare => NobodyStuck
  BY GroupMoves DEF Inv, NobodyStuck
<1> QED
  BY <1>1, <1>2, <1>3, InvAlways, PTL DEF Spec

\* How many steps a request may still take itself.
Work(h) ==
  CASE pc[h] = "idle"    -> 0
    [] pc[h] = "commit"  -> 1
    [] pc[h] = "insert"  -> 2
    [] pc[h] = "locking" -> 3 + Cardinality(target[h])
    [] pc[h] = "revoke"  -> 4 + Cardinality(Sessions)
    [] pc[h] = "count"   -> 5 + Cardinality(Sessions)
    [] pc[h] \in {"insert_user", "update_user"} -> 6 + Cardinality(Sessions)
    [] pc[h] = "user"    -> 7 + Cardinality(Sessions)

\* Every step of its own takes it nearer to its end, and no other one takes it back.
WorkShrinks ==
  [][\A h \in Handlers :
       /\ Step(h) => Work(h)' < Work(h)
       /\ pc[h] # "idle" => Work(h)' <= Work(h)]_vars

\* The work of a request is a number with a bound.
LEMMA WorkCounted ==
  ASSUME TypeOK, NEW h \in Handlers
  PROVE  /\ Work(h) \in 0..7 + Cardinality(Sessions) /\ Cardinality(Sessions) \in Nat
         /\ target[h] \in SUBSET Sessions
         /\ Cardinality(target[h]) \in Nat /\ Cardinality(target[h]) <= Cardinality(Sessions)
<1>1. target[h] \in SUBSET Sessions /\ pc[h] \in Pcs
  BY DEF TypeOK
<1>2. /\ Cardinality(target[h]) \in Nat /\ Cardinality(target[h]) <= Cardinality(Sessions)
      /\ Cardinality(Sessions) \in Nat
  BY <1>1, SessionsCounted
<1> QED
  BY <1>1, <1>2 DEF Work, Pcs

\* A step of a request leaves it with less work.
LEMMA StepWorks ==
  ASSUME TypeOK, TypeOK', NEW h \in Handlers, Step(h)
  PROVE  Work(h)' < Work(h)
<1> DEFINE n == Cardinality(Sessions)
<1>1. /\ n \in Nat /\ Cardinality(target[h]) \in Nat /\ Cardinality(target[h]) <= n
      /\ target'[h] \in SUBSET Sessions
  BY WorkCounted DEF TypeOK
<1>2. Cardinality(target'[h]) \in Nat /\ Cardinality(target'[h]) <= n
  BY <1>1, SessionsCounted
<1> HIDE DEF n
<1>3. CASE SelectUser(h) \/ WriteUser(h) \/ Count(h)
  BY <1>1, <1>3 DEF SelectUser, WriteUser, Count, Goto, Work, TypeOK, n
<1>4. CASE StartUpdate(h)
  BY <1>1, <1>2, <1>4 DEF StartUpdate, Goto, Work, TypeOK, n
<1>5. ASSUME NEW s \in Sessions, LockRow(h, s)
      PROVE  Work(h)' < Work(h)
  <2>1. /\ pc[h] = "locking" /\ pc'[h] = "locking" /\ s \in target[h]
        /\ target'[h] = target[h] \ {s}
    BY <1>5 DEF LockRow, TypeOK
  <2>2. IsFiniteSet(target[h])
    BY SessionsAssumption, FS_Subset DEF TypeOK
  <2>3. Cardinality(target'[h]) = Cardinality(target[h]) - 1
    BY <2>1, <2>2, FS_RemoveElement
  <2> QED
    BY <1>1, <2>1, <2>3 DEF Work
<1>6. CASE UpdateDone(h) \/ InsertSession(h)
  <2>1. \/ pc[h] = "locking" /\ pc'[h] \in {"insert", "commit"}
        \/ pc[h] = "insert" /\ pc'[h] = "commit"
    BY <1>6 DEF UpdateDone, InsertSession, Goto, TypeOK
  <2> QED
    BY <1>1, <2>1 DEF Work
<1>7. CASE Commit(h) \/ UserExists(h) \/ DeadlockDetected(h)
  <2>1. pc'[h] = "idle" /\ pc[h] \in {"commit", "insert_user", "locking"}
    BY <1>7 DEF Commit, UserExists, DeadlockDetected, Deadlocked, Discard, Close, Goto, TypeOK
  <2> QED
    BY <1>1, <2>1 DEF Work, n
<1> QED
  BY <1>3, <1>4, <1>5, <1>6, <1>7 DEF Step

\* Others leave a request where it is; that it fails ends it.
LEMMA OthersLeave ==
  ASSUME TypeOK, NEW h \in Handlers, pc[h] # "idle", [Next]_vars, ~Step(h)
  PROVE  pc'[h] = "idle" \/ (pc'[h] = pc[h] /\ target'[h] = target[h])
<1> USE DEF TypeOK, Goto, tableVars, requestVars
<1>1. ASSUME NEW g \in Handlers, Start(g)
      PROVE  pc'[h] = pc[h] /\ target'[h] = target[h]
  BY <1>1 DEF Start, StartLogin, StartLogout, StartRevokeAll
<1>2. ASSUME NEW g \in Handlers \ {h},
             \/ SelectUser(g) \/ WriteUser(g) \/ Count(g) \/ StartUpdate(g) \/ UpdateDone(g)
             \/ InsertSession(g) \/ \E s \in Sessions : LockRow(g, s)
      PROVE  pc'[h] = pc[h] /\ target'[h] = target[h]
  BY <1>2 DEF SelectUser, WriteUser, Count, StartUpdate, UpdateDone, InsertSession, LockRow
<1>3. ASSUME NEW g \in Handlers \ {h}, Close(g)
      PROVE  pc'[h] = pc[h] /\ target'[h] = target[h]
  BY <1>3 DEF Close
<1>4. Fail(h) => pc'[h] = "idle"
  BY DEF Fail, Discard, Close
<1>5. CASE (\E s \in Sessions : Expire(s)) \/ UNCHANGED vars
  BY <1>5 DEF Expire, vars
<1> QED
  BY <1>1, <1>2, <1>3, <1>4, <1>5 DEF Next, Step, Commit, UserExists, DeadlockDetected, Fail, Discard

\* RequestEnds rests on it: whatever others do, a request has at most as many steps
\* before it as there are sessions, and seven.
THEOREM WorkShrinksAlways == Spec => WorkShrinks
<1>1. Inv /\ Inv' /\ [Next]_vars =>
        [\A h \in Handlers :
           /\ Step(h) => Work(h)' < Work(h)
           /\ pc[h] # "idle" => Work(h)' <= Work(h)]_vars
  <2> SUFFICES ASSUME Inv, Inv', [Next]_vars, NEW h \in Handlers
               PROVE  /\ Step(h) => Work(h)' < Work(h)
                      /\ pc[h] # "idle" => Work(h)' <= Work(h)
    OBVIOUS
  <2>1. TypeOK /\ TypeOK'
    BY DEF Inv
  <2>2. Work(h) \in Nat
    BY <2>1, WorkCounted
  <2>3. Work(h)' \in Nat
    <3>1. target'[h] \in SUBSET Sessions /\ pc'[h] \in Pcs
      BY <2>1 DEF TypeOK
    <3>2. Cardinality(target'[h]) \in Nat /\ Cardinality(Sessions) \in Nat
      BY <3>1, SessionsCounted
    <3> QED
      BY <3>1, <3>2 DEF Work, Pcs
  <2>4. CASE Step(h)
    BY <2>1, <2>2, <2>3, <2>4, StepWorks
  <2>5. CASE ~Step(h) /\ pc[h] # "idle"
    <3>1. pc'[h] = "idle" \/ (pc'[h] = pc[h] /\ target'[h] = target[h])
      BY <2>1, <2>5, OthersLeave
    <3>2. CASE pc'[h] = "idle"
      <4>1. Work(h)' = 0
        BY <3>2 DEF Work
      <4> QED
        BY <2>2, <2>5, <4>1
    <3>3. CASE pc'[h] = pc[h] /\ target'[h] = target[h]
      <4>1. Work(h)' = Work(h)
        BY <3>3 DEF Work
      <4> QED
        BY <2>2, <2>5, <4>1
    <3> QED
      BY <3>1, <3>2, <3>3
  <2> QED
    BY <2>4, <2>5
<1> QED
  BY <1>1, InvAlways, PTL DEF Spec, WorkShrinks
=============================================================================
