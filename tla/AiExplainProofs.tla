-------------------------- MODULE AiExplainProofs ---------------------------
(***************************************************************************)
(* Proofs about AiExplain, for any number of requests, any transactions    *)
(* and any limits of retries.                                              *)
(***************************************************************************)
EXTENDS AiExplain, FiniteSetTheorems, TLAPS

\* A sleeping request has an attempt left.
SleepInv == \A h \in Handlers : http[h] = "sleep" => attempt[h] < HttpRetries

\* What a step of a request does to the requests' own variables: it ends one ...
Ends(h) == pc[h] # "idle" /\ Close(h)

\* ... or moves one on, and leaves its talk with the provider alone.
Moves(h, from, to) ==
  /\ pc[h] = from /\ Goto(h, to)
  /\ \E p \in Prompts : prompt' = [prompt EXCEPT ![h] = p]
  /\ UNCHANGED <<dbVars, tries, httpVars>>

LEMMA Constants ==
  /\ HttpRetries \in Nat /\ AiRetries \in Nat
  /\ Bodies = {"text", "blank", "html"}
  /\ AnyPrompt \in Prompts
<1>1. (CHOOSE v \in Versions : TRUE) \in Versions
  BY AiAssumption DEF AiAssumption
<1> QED  BY <1>1, HttpAssumption, AiAssumption DEF HttpAssumption, AiAssumption, AnyPrompt, Prompts, Subjects

\* Every step of a request is one of these.
LEMMA Shapes ==
  ASSUME TypeOK, NEW h \in Handlers,
         (\E s \in Subjects : Explain(h, s)) \/ Step(h) \/ Fail(h)
  PROVE  \/ Moves(h, "idle", "load") \/ Moves(h, "load", "read") \/ Moves(h, "load", "lookup")
         \/ Moves(h, "read", "lookup")
         \/ Moves(h, "insert", "commit") /\ Insert(h)
         \/ Lookup(h) \/ Call(h) \/ Accept(h) \/ TryAgain(h)
         \/ Ends(h) /\ UNCHANGED dbVars
         \/ Commit(h)
<1>1. ASSUME NEW s \in Subjects, Explain(h, s) PROVE Moves(h, "idle", "load")
  <2>1. [prompt[h] EXCEPT !.of = s] \in Prompts
    BY DEF TypeOK, Prompts
  <2> QED  BY <1>1, <2>1 DEF Explain, Moves
<1>2. ASSUME Load(h) PROVE Moves(h, "load", "read") \/ Moves(h, "load", "lookup")
  <2>1. [prompt[h] EXCEPT !.row = version] \in Prompts
    BY DEF TypeOK, Prompts
  <2> QED  BY <1>2, <2>1 DEF Load, Moves
<1>3. ASSUME Read(h) PROVE Moves(h, "read", "lookup")
  <2>1. [prompt[h] EXCEPT !.txs = txs] \in Prompts
    BY DEF TypeOK, Prompts
  <2> QED  BY <1>3, <2>1 DEF Read, Moves
<1>4. ASSUME Insert(h) PROVE Moves(h, "insert", "commit")
  <2>1. prompt[h] \in Prompts /\ prompt = [prompt EXCEPT ![h] = prompt[h]]
    BY DEF TypeOK
  <2> QED  BY <1>4, <2>1 DEF Insert, Moves
<1>5. Hit(h) \/ Ambiguous(h) \/ GiveUp(h) \/ Refused(h) \/ Fail(h) => Ends(h) /\ UNCHANGED dbVars
  BY DEF Hit, Ambiguous, GiveUp, Refused, Fail, Ends
<1> QED  BY <1>1, <1>2, <1>3, <1>4, <1>5 DEF Step

-----------------------------------------------------------------------------
(* Types.                                                                  *)

LEMMA TypeInit == Init => TypeOK /\ SleepInv
BY Constants DEF Init, HttpInit, TypeOK, HttpTypeOK, Pcs, SleepInv

LEMMA TypeEnds ==
  ASSUME TypeOK, SleepInv, NEW h \in Handlers, Ends(h)
  PROVE  /\ SleepInv'
         /\ pc' \in [Handlers -> Pcs] /\ prompt' \in [Handlers -> Prompts]
         /\ tries' \in [Handlers -> 0..AiRetries] /\ HttpTypeOK'
         /\ \A i \in Handlers : (http'[i] = "idle") = (pc'[i] # "call")
BY Constants DEF TypeOK, HttpTypeOK, SleepInv, Ends, Close, Goto, Forget, HttpIs, Pcs

LEMMA TypeStep == TypeOK /\ SleepInv /\ [Next]_vars => TypeOK' /\ SleepInv'
<1> SUFFICES ASSUME TypeOK, SleepInv, [Next]_vars PROVE TypeOK' /\ SleepInv'
  OBVIOUS
<1> USE DEF TypeOK, HttpTypeOK, SleepInv
<1>1. ASSUME NEW h \in Handlers, (\E s \in Subjects : Explain(h, s)) \/ Step(h) \/ Fail(h)
      PROVE  TypeOK' /\ SleepInv'
  <2>1. ASSUME NEW from \in Pcs \ {"call"}, NEW to \in Pcs \ {"call"}, Moves(h, from, to)
        PROVE  TypeOK' /\ SleepInv'
    BY <2>1 DEF Moves, Goto, dbVars, httpVars
  <2>2. CASE Lookup(h)
    BY <2>2, Constants DEF Lookup, Begin, Goto, HttpIs, dbVars, Pcs
  <2>3. CASE Call(h)
    <3>1. CASE Send(h)
      BY <2>3, <3>1, Constants DEF Call, Send, MayRetry, HttpIs, dbVars, requestVars
    <3>2. CASE Backoff(h)
      BY <2>3, <3>2, Constants DEF Call, Backoff, HttpIs, dbVars, requestVars
    <3> QED  BY <2>3, <3>1, <3>2 DEF Call
  <2>4. CASE Accept(h)
    BY <2>4, Constants DEF Accept, Goto, HttpIs, dbVars, Pcs
  <2>5. CASE TryAgain(h)
    BY <2>5, Constants DEF TryAgain, MayTryAgain, Begin, HttpIs, dbVars
  <2>6. CASE Ends(h) /\ UNCHANGED dbVars
    BY <2>6, TypeEnds DEF dbVars
  <2>7. CASE Commit(h)
    <3>1. rows' \in [Prompts -> Nat] /\ UNCHANGED <<wallet, version, txs, raced>>
      BY <2>7 DEF Commit
    <3>2. Ends(h)
      BY <2>7 DEF Commit, Ends
    <3> QED  BY <3>1, <3>2, TypeEnds
  <2> QED  BY <1>1, <2>1, <2>2, <2>3, <2>4, <2>5, <2>6, <2>7, Shapes DEF Pcs
<1>2. CASE Sync
  BY <1>2 DEF Sync, requestVars, httpVars
<1>3. CASE DeleteWallet
  BY <1>3 DEF DeleteWallet, requestVars, httpVars
<1>4. CASE UNCHANGED vars
  BY <1>4 DEF vars, dbVars, requestVars, httpVars
<1> QED  BY <1>1, <1>2, <1>3, <1>4 DEF Next

\* Every variable has its type, whatever requests, syncs and the provider do.
THEOREM TypeCorrect == Spec => []TypeOK
<1>1. Spec => [](TypeOK /\ SleepInv)
  BY TypeInit, TypeStep, PTL DEF Spec
<1> QED  BY <1>1, PTL

LEMMA TypesHold == Spec => [](TypeOK /\ SleepInv)
BY TypeInit, TypeStep, PTL DEF Spec

-----------------------------------------------------------------------------
(* HTTP requests.                                                          *)

\* What the tries before this one may have sent.
Before(h) == tries[h] * (HttpRetries + 1)

\* Tries and attempts count the HTTP requests of a request.
PostsInv ==
  \A h \in Handlers :
    /\ posts[h] <= Before(h) + attempt[h] + (IF http[h] = "send" THEN 0 ELSE 1)
    /\ pc[h] \in {"idle", "load", "read", "lookup"} => posts[h] = 0

LEMMA Products ==
  ASSUME NEW n \in Nat, NEW m \in Nat, NEW k \in Nat, n <= m
  PROVE  /\ n * k \in Nat /\ (n + 1) * k = n * k + k
         /\ n * k <= m * k
<1>1. n * k \in Nat /\ (n + 1) * k = n * k + k /\ m * k \in Nat
  OBVIOUS
<1>2. (m - n) * k >= 0 /\ m * k = (m - n) * k + n * k
  OBVIOUS
<1> QED  BY <1>1, <1>2

LEMMA BeforeIsNat == ASSUME TypeOK, NEW h \in Handlers PROVE Before(h) \in Nat
BY Products, Constants DEF TypeOK, Before

LEMMA PostsStep ==
  TypeOK /\ SleepInv /\ PostsInv /\ [Next]_vars => PostsInv'
<1> SUFFICES ASSUME TypeOK, SleepInv, PostsInv, [Next]_vars PROVE PostsInv'
  OBVIOUS
<1> USE DEF PostsInv
<1>1. ASSUME UNCHANGED <<tries, httpVars>>,
             \A i \in Handlers : pc'[i] \in {"idle", "load", "read", "lookup"} =>
                                pc[i] \in {"idle", "load", "read", "lookup"}
      PROVE  PostsInv'
  BY <1>1 DEF Before, httpVars
<1>2. ASSUME NEW h \in Handlers, (\E s \in Subjects : Explain(h, s)) \/ Step(h) \/ Fail(h)
      PROVE  PostsInv'
  <2>1. ASSUME NEW from, NEW to, Moves(h, from, to),
               to \in {"idle", "load", "read", "lookup"} => from \in {"idle", "load", "read", "lookup"}
        PROVE  PostsInv'
    BY <1>1, <2>1 DEF Moves, Goto, TypeOK
  <2>2. CASE Lookup(h)
    BY <2>2, BeforeIsNat, Constants DEF Lookup, Begin, Goto, HttpIs, Before, TypeOK, HttpTypeOK
  <2>3. CASE Call(h)
    <3>1. CASE Send(h)
      BY <2>3, <3>1, BeforeIsNat, Constants
      DEF Call, Send, HttpIs, Before, requestVars, TypeOK, HttpTypeOK
    <3>2. CASE Backoff(h)
      BY <2>3, <3>2, BeforeIsNat, Constants
      DEF Call, Backoff, HttpIs, Before, requestVars, TypeOK, HttpTypeOK
    <3> QED  BY <2>3, <3>1, <3>2 DEF Call
  <2>4. CASE Accept(h)
    BY <2>4 DEF Accept, Goto, HttpIs, Before, TypeOK, HttpTypeOK
  <2>5. CASE TryAgain(h)
    <3>1. (tries[h] + 1) * (HttpRetries + 1) = Before(h) + (HttpRetries + 1)
      BY Products, Constants DEF Before, TypeOK
    <3>2. Before(h)' = Before(h) + (HttpRetries + 1)
      BY <2>5, <3>1 DEF TryAgain, Before, TypeOK
    <3>3. \A i \in Handlers \ {h} : Before(i)' = Before(i)
      BY <2>5 DEF TryAgain, Before, TypeOK
    <3> QED  BY <2>5, <3>2, <3>3, BeforeIsNat, Constants
             DEF TryAgain, Begin, HttpIs, TypeOK, HttpTypeOK
  <2>6. CASE Ends(h)
    <3>1. Before(h)' = 0
      BY <2>6, Constants DEF Ends, Close, Before, TypeOK
    <3>2. \A i \in Handlers \ {h} : Before(i)' = Before(i)
      BY <2>6 DEF Ends, Close, Before, TypeOK
    <3> QED  BY <2>6, <3>1, <3>2 DEF Ends, Close, Forget, Goto, HttpIs, TypeOK, HttpTypeOK
  <2> QED  BY <1>2, <2>1, <2>2, <2>3, <2>4, <2>5, <2>6, Shapes DEF Commit, Ends
<1>3. CASE Sync \/ DeleteWallet
  BY <1>1, <1>3 DEF Sync, DeleteWallet, requestVars
<1>4. CASE UNCHANGED vars
  BY <1>1, <1>4 DEF vars, requestVars
<1> QED  BY <1>2, <1>3, <1>4 DEF Next

LEMMA PostsImply == TypeOK /\ PostsInv => PostsBounded
<1> SUFFICES ASSUME TypeOK, PostsInv, NEW h \in Handlers
             PROVE  posts[h] <= (AiRetries + 1) * (HttpRetries + 1)
  BY DEF PostsBounded
<1>1. Before(h) <= AiRetries * (HttpRetries + 1)
  BY Products, Constants DEF Before, TypeOK
<1>2. /\ (AiRetries + 1) * (HttpRetries + 1) = AiRetries * (HttpRetries + 1) + (HttpRetries + 1)
      /\ AiRetries * (HttpRetries + 1) \in Nat
  BY Products, Constants
<1> QED  BY <1>1, <1>2, BeforeIsNat, Constants DEF PostsInv, TypeOK, HttpTypeOK

\* However the tries of the service follow on the failures of HttpRetry, one request
\* sends at most (AiRetries + 1) * (HttpRetries + 1) HTTP requests.
THEOREM PostsBoundedAlways == Spec => []PostsBounded
<1>1. Init => PostsInv
  <2> SUFFICES ASSUME Init, NEW h \in Handlers
               PROVE  /\ posts[h] <= Before(h) + attempt[h] + (IF http[h] = "send" THEN 0 ELSE 1)
                      /\ posts[h] = 0
    BY DEF PostsInv
  <2>1. Before(h) = 0
    BY Constants DEF Init, Before
  <2> QED  BY <2>1 DEF Init, HttpInit
<1>2. Spec => []PostsInv
  BY <1>1, PostsStep, TypesHold, PTL DEF Spec
<1> QED  BY <1>2, TypesHold, PostsImply, PTL

-----------------------------------------------------------------------------
(* Stored analyses.                                                        *)

LEMMA NoAnalysisStep ==
  TypeOK /\ NoAnalysisWithoutWallet /\ [Next]_vars => NoAnalysisWithoutWallet'
<1> SUFFICES ASSUME TypeOK, NoAnalysisWithoutWallet, [Next]_vars PROVE NoAnalysisWithoutWallet'
  OBVIOUS
<1> USE DEF NoAnalysisWithoutWallet
<1>1. ASSUME NEW h \in Handlers, (\E s \in Subjects : Explain(h, s)) \/ Step(h) \/ Fail(h)
      PROVE  NoAnalysisWithoutWallet'
  <2>1. ASSUME NEW from, NEW to, Moves(h, from, to), to # "commit" \/ wallet
        PROVE  NoAnalysisWithoutWallet'
    BY <2>1 DEF Moves, Goto, dbVars, TypeOK
  <2>2. CASE Lookup(h) \/ Call(h) \/ Accept(h) \/ TryAgain(h)
    BY <2>2 DEF Lookup, Call, Accept, TryAgain, Goto, dbVars, requestVars, TypeOK
  <2>3. CASE Ends(h) /\ UNCHANGED dbVars
    BY <2>3 DEF Ends, Close, Goto, dbVars, TypeOK
  <2>4. CASE Commit(h)
    BY <2>4 DEF Commit
  <2> QED  BY <1>1, <2>1, <2>2, <2>3, <2>4, Shapes DEF Insert, Found
<1>2. CASE Sync
  BY <1>2 DEF Sync, requestVars
<1>3. CASE DeleteWallet
  BY <1>3 DEF DeleteWallet, Unreferenced, requestVars
<1>4. CASE UNCHANGED vars
  BY <1>4 DEF vars, dbVars, requestVars
<1> QED  BY <1>1, <1>2, <1>3, <1>4 DEF Next

\* No analysis outlives its wallet, however the insert and the deletion overlap.
THEOREM NoAnalysisAlways == Spec => []NoAnalysisWithoutWallet
<1>1. Init => NoAnalysisWithoutWallet
  BY DEF Init, NoAnalysisWithoutWallet
<1> QED  BY <1>1, NoAnalysisStep, TypesHold, PTL DEF Spec

LEMMA AskingCounts ==
  ASSUME NEW p
  PROVE  /\ IsFiniteSet(Asking(p)) /\ Cardinality(Asking(p)) \in Nat
         /\ Cardinality(Asking(p)) <= Cardinality(Handlers)
         /\ Cardinality(Handlers) \in Nat
<1>1. Asking(p) \subseteq Handlers
  BY DEF Asking
<1> QED  BY <1>1, AiAssumption, FS_Subset, FS_CardinalityType DEF AiAssumption

\* A step either begins to ask, which it does only for want of an answer; or stores
\* one, and asks no more; or leaves rows and those who ask as they are, or fewer.
Effect(p) ==
  \/ /\ rows[p] = 0 /\ rows'[p] = 0
     /\ \E h \in Handlers : Asking(p)' = Asking(p) \cup {h}
     /\ Asking(p) # {} => p \in raced'
  \/ \E h \in Asking(p) : Asking(p)' = Asking(p) \ {h} /\ rows'[p] = rows[p] + 1
  \/ Asking(p)' \subseteq Asking(p) /\ rows'[p] = rows[p]
  \/ ~wallet' /\ Asking(p)' \subseteq Asking(p) /\ rows'[p] = 0

LEMMA Effects ==
  ASSUME TypeOK, [Next]_vars, NEW p \in Prompts
  PROVE  Effect(p)
<1>1. ASSUME NEW h \in Handlers, (\E s \in Subjects : Explain(h, s)) \/ Step(h) \/ Fail(h)
      PROVE  Effect(p)
  <2>1. ASSUME NEW from \in Pcs, NEW to \in {"load", "read", "lookup"}, Moves(h, from, to)
        PROVE  Effect(p)
    BY <2>1 DEF Moves, Goto, dbVars, Effect, Asking, TypeOK
  <2>2. CASE Lookup(h)
    <3>1. CASE prompt[h] = p
      <4>1. rows[p] = 0 /\ rows' = rows /\ (Asking(p) # {} => p \in raced')
        BY <2>2, <3>1 DEF Lookup, Miss
      <4>2. Asking(p)' = Asking(p) \cup {h}
        BY <2>2, <3>1 DEF Lookup, Goto, Asking, TypeOK
      <4> QED  BY <4>1, <4>2 DEF Effect
    <3>2. CASE prompt[h] # p
      BY <2>2, <3>2 DEF Lookup, Goto, dbVars, Effect, Asking, TypeOK
    <3> QED  BY <3>1, <3>2
  <2>3. CASE Call(h) \/ Accept(h) \/ TryAgain(h)
    BY <2>3 DEF Call, Accept, TryAgain, Goto, dbVars, requestVars, Effect, Asking, TypeOK
  <2>4. CASE Ends(h) /\ UNCHANGED dbVars
    BY <2>4 DEF Ends, Close, Goto, dbVars, Effect, Asking, TypeOK
  <2>5. CASE Commit(h)
    <3>1. /\ pc[h] = "commit" /\ pc' = [pc EXCEPT ![h] = "idle"]
          /\ prompt' = [prompt EXCEPT ![h] = AnyPrompt]
          /\ rows' = [rows EXCEPT ![prompt[h]] = @ + 1]
      BY <2>5 DEF Commit, Close, Goto
    <3>2. Asking(p)' = Asking(p) \ {h}
      BY <3>1 DEF Asking, TypeOK
    <3>3. CASE prompt[h] = p
      BY <3>1, <3>2, <3>3 DEF Effect, Asking, TypeOK
    <3>4. CASE prompt[h] # p
      BY <3>1, <3>2, <3>4 DEF Effect, TypeOK
    <3> QED  BY <3>3, <3>4
  <2>6. CASE Insert(h)
    BY <2>6 DEF Insert, Goto, dbVars, Effect, Asking, TypeOK
  <2> QED  BY <1>1, <2>1, <2>2, <2>3, <2>4, <2>5, <2>6, Shapes DEF Pcs
<1>2. CASE Sync
  BY <1>2 DEF Sync, requestVars, Effect, Asking
<1>3. CASE DeleteWallet
  BY <1>3 DEF DeleteWallet, requestVars, Effect, Asking
<1>4. CASE UNCHANGED vars
  BY <1>4 DEF vars, dbVars, requestVars, Effect, Asking
<1> QED  BY <1>1, <1>2, <1>3, <1>4 DEF Next

LEMMA AnswersStep == TypeOK /\ AnswersBounded /\ [Next]_vars /\ TypeOK' => AnswersBounded'
<1> SUFFICES ASSUME TypeOK, AnswersBounded, [Next]_vars, TypeOK', NEW p \in Prompts
             PROVE  rows'[p] + Cardinality(Asking(p)') <= Cardinality(Handlers)
  BY DEF AnswersBounded
<1>1. /\ rows[p] + Cardinality(Asking(p)) <= Cardinality(Handlers)
      /\ rows[p] \in Nat /\ rows'[p] \in Nat
  BY DEF AnswersBounded, TypeOK
<1>2. Asking(p)' \subseteq Handlers
  BY DEF Asking
<1>3. /\ Cardinality(Asking(p)') \in Nat /\ Cardinality(Asking(p)') <= Cardinality(Handlers)
  BY <1>2, AiAssumption, FS_Subset, FS_CardinalityType DEF AiAssumption
<1>4. ASSUME NEW h \in Asking(p), Asking(p)' = Asking(p) \ {h}
      PROVE  Cardinality(Asking(p)') = Cardinality(Asking(p)) - 1
  BY <1>4, AskingCounts, FS_RemoveElement
<1>5. ASSUME Asking(p)' \subseteq Asking(p)
      PROVE  Cardinality(Asking(p)') <= Cardinality(Asking(p))
  BY <1>5, AskingCounts, FS_Subset
<1> QED  BY <1>1, <1>3, <1>4, <1>5, AskingCounts, Effects DEF Effect

\* However many requests miss together, no prompt gets more stored answers than
\* there are requests at a time.
THEOREM AnswersBoundedAlways == Spec => []AnswersBounded
<1>1. Init => AnswersBounded
  <2> SUFFICES ASSUME Init, NEW p \in Prompts
               PROVE  rows[p] + Cardinality(Asking(p)) <= Cardinality(Handlers)
    BY DEF AnswersBounded
  <2>1. rows[p] = 0
    BY DEF Init
  <2> QED  BY <2>1, AskingCounts
<1> QED  BY <1>1, AnswersStep, TypesHold, PTL DEF Spec

\* A prompt that was not raced for has one answer, or one request that asks, or neither.
RaceInv ==
  \A p \in Prompts : p \notin raced =>
    \/ rows[p] = 0 /\ \A g, h \in Asking(p) : g = h
    \/ rows[p] = 1 /\ Asking(p) = {}

LEMMA RaceStep == TypeOK /\ RaceInv /\ [Next]_vars => RaceInv'
<1> SUFFICES ASSUME TypeOK, RaceInv, [Next]_vars, NEW p \in Prompts, p \notin raced'
             PROVE  \/ rows'[p] = 0 /\ \A g, h \in Asking(p)' : g = h
                    \/ rows'[p] = 1 /\ Asking(p)' = {}
  BY DEF RaceInv
<1>1. raced \subseteq raced'
  BY DEF Next, Explain, Step, Load, Read, Lookup, Hit, Ambiguous, Call, Accept, TryAgain, GiveUp,
         Insert, Commit, Refused, Fail, Sync, DeleteWallet, dbVars, vars
<1>2. \/ rows[p] = 0 /\ \A g, h \in Asking(p) : g = h
      \/ rows[p] = 1 /\ Asking(p) = {}
  BY <1>1 DEF RaceInv
<1>3. Effect(p)
  BY Effects
<1> QED  BY <1>2, <1>3 DEF Effect

\* Requests that ask about a prompt one after another leave one answer, and no lookup
\* raises; two answers take two requests at a time.
THEOREM AmbiguousOnlyByRaceAlways == Spec => []AmbiguousOnlyByRace
<1>1. Init => RaceInv
  BY DEF Init, RaceInv, Asking
<1>2. RaceInv /\ TypeOK => AmbiguousOnlyByRace
  BY DEF RaceInv, AmbiguousOnlyByRace, TypeOK
<1> QED  BY <1>1, <1>2, RaceStep, TypesHold, PTL DEF Spec

\* A prompt with one stored answer and nobody asking keeps it, and nobody asks again,
\* until the wallet is deleted.
THEOREM SettledStays == Spec => StaysSettled
<1>1. ASSUME TypeOK, [Next]_vars, NEW p \in Prompts, Settled(p), wallet'
      PROVE  Settled(p)'
  <2>1. Effect(p)
    BY <1>1, Effects
  <2> QED  BY <1>1, <2>1 DEF Settled, Effect
<1>2. TypeOK /\ [Next]_vars => [\A p \in Prompts : Settled(p) /\ wallet' => Settled(p)']_vars
  BY <1>1
<1> QED  BY <1>2, TypesHold, PTL DEF Spec, StaysSettled

-----------------------------------------------------------------------------
(* Work.  RequestEnds rests on this.                                       *)

\* Two steps for each attempt of a try, and one after its answer.
PerTry == 2 * HttpRetries + 3

\* Steps that the present try may still take.
InTry(h) ==
  CASE http[h] = "send"  -> 2 * (HttpRetries - attempt[h]) + 3
    [] http[h] = "sleep" -> 2 * (HttpRetries - attempt[h]) + 2
    [] OTHER             -> 1

\* Steps that the tries after it may take.
Later(h) == (AiRetries - tries[h]) * PerTry

\* How many steps a request may still take itself.
Work(h) ==
  CASE pc[h] = "idle"   -> 0
    [] pc[h] = "commit" -> 1
    [] pc[h] = "insert" -> 2
    [] pc[h] = "call"   -> 2 + Later(h) + InTry(h)
    [] pc[h] = "lookup" -> 3 + (AiRetries + 1) * PerTry
    [] pc[h] = "read"   -> 4 + (AiRetries + 1) * PerTry
    [] pc[h] = "load"   -> 5 + (AiRetries + 1) * PerTry

\* Every step of its own takes it nearer to its end, and no other one takes it back.
WorkShrinks ==
  [][\A h \in Handlers :
       /\ Step(h) => Work(h)' < Work(h)
       /\ pc[h] # "idle" => Work(h)' <= Work(h)]_vars

\* The work of a request is a number.
LEMMA WorkCounted ==
  ASSUME TypeOK, NEW h \in Handlers
  PROVE  /\ Work(h) \in Nat /\ Later(h) \in Nat /\ InTry(h) \in 1..PerTry /\ PerTry \in Nat
         /\ (AiRetries + 1) * PerTry \in Nat
         /\ Later(h) <= AiRetries * PerTry
         /\ (AiRetries + 1) * PerTry = AiRetries * PerTry + PerTry
<1> DEFINE R == HttpRetries
           P == PerTry
           a == AiRetries - tries[h]
<1>1. R \in Nat /\ AiRetries \in Nat /\ a \in Nat /\ a <= AiRetries /\ pc[h] \in Pcs
      /\ attempt[h] \in 0..R
  BY Constants DEF TypeOK, HttpTypeOK
<1>2. P \in Nat /\ InTry(h) \in 1..P
  BY <1>1 DEF PerTry, InTry
<1>3. \A m, n, c \in Nat : m * c \in Nat /\ (m <= n => m * c <= n * c) /\ (n + 1) * c = n * c + c
  OBVIOUS
<1> HIDE DEF P, a
<1>4. /\ a * P \in Nat /\ a * P <= AiRetries * P /\ AiRetries * P \in Nat
      /\ (AiRetries + 1) * P = AiRetries * P + P
  BY <1>1, <1>2, <1>3
<1>5. Later(h) = a * P
  BY DEF Later, a, P
<1>6. Work(h) \in Nat
  BY <1>1, <1>2, <1>4, <1>5 DEF Work, Pcs, P
<1> QED
  BY <1>1, <1>2, <1>4, <1>5, <1>6 DEF P

\* A step of a request leaves it with less work.
LEMMA StepWorks ==
  ASSUME TypeOK, TypeOK', NEW h \in Handlers, Step(h)
  PROVE  Work(h)' < Work(h)
<1>1. /\ Work(h) \in Nat /\ Later(h) \in Nat /\ InTry(h) \in 1..PerTry /\ PerTry \in Nat
      /\ (AiRetries + 1) * PerTry \in Nat
      /\ Later(h) <= AiRetries * PerTry
      /\ (AiRetries + 1) * PerTry = AiRetries * PerTry + PerTry
      /\ AiRetries * PerTry \in Nat
  BY WorkCounted, Constants DEF PerTry
<1>2. CASE Ends(h) \/ Commit(h)
  <2>1. pc[h] # "idle" /\ pc'[h] = "idle"
    BY <1>2 DEF Ends, Commit, Close, Goto, TypeOK
  <2>2. Work(h)' = 0 /\ pc[h] \in Pcs
    BY <2>1 DEF Work, TypeOK
  <2> QED
    BY <1>1, <2>1, <2>2 DEF Work, Pcs
<1>3. CASE \/ Moves(h, "load", "read") \/ Moves(h, "load", "lookup")
           \/ Moves(h, "read", "lookup") \/ Moves(h, "insert", "commit")
  <2>1. \/ pc[h] = "load" /\ pc'[h] \in {"read", "lookup"}
        \/ pc[h] = "read" /\ pc'[h] = "lookup"
        \/ pc[h] = "insert" /\ pc'[h] = "commit"
    BY <1>3 DEF Moves, Goto, TypeOK
  <2>2. PerTry' = PerTry
    BY DEF PerTry
  <2> QED
    BY <1>1, <2>1, <2>2 DEF Work
<1>4. CASE Lookup(h)
  <2>1. /\ pc[h] = "lookup" /\ pc'[h] = "call" /\ tries' = tries
        /\ http'[h] = "send" /\ attempt'[h] = 0
    BY <1>4 DEF Lookup, Begin, Goto, HttpIs, TypeOK, HttpTypeOK
  <2>2. Later(h)' = Later(h) /\ InTry(h)' = PerTry
    BY <2>1, Constants DEF Later, InTry, PerTry
  <2> QED
    BY <1>1, <2>1, <2>2 DEF Work
<1>5. CASE Call(h)
  <2>1. /\ pc[h] = "call" /\ pc' = pc /\ tries' = tries
        /\ attempt[h] \in 0..HttpRetries /\ attempt'[h] \in 0..HttpRetries
    BY <1>5 DEF Call, requestVars, TypeOK, HttpTypeOK
  <2>2. Later(h)' = Later(h)
    BY <2>1 DEF Later, PerTry
  <2>3. InTry(h)' < InTry(h) /\ InTry(h)' \in Int
    <3>1. \/ http[h] = "send" /\ http'[h] \in Bodies \cup {"raised", "sleep"} /\ attempt' = attempt
          \/ http[h] = "sleep" /\ http'[h] = "send" /\ attempt'[h] = attempt[h] + 1
      BY <1>5 DEF Call, Send, Backoff, HttpIs, TypeOK, HttpTypeOK
    <3>2. Bodies = {"text", "blank", "html"} /\ HttpRetries \in Nat
      BY Constants
    <3> QED
      BY <2>1, <3>1, <3>2 DEF InTry
  <2> QED
    BY <1>1, <2>1, <2>2, <2>3 DEF Work
<1>6. CASE Accept(h)
  <2>1. pc[h] = "call" /\ pc'[h] = "insert"
    BY <1>6 DEF Accept, Goto, TypeOK
  <2> QED
    BY <1>1, <2>1 DEF Work
<1>7. CASE TryAgain(h)
  <2>1. /\ pc[h] = "call" /\ pc' = pc /\ tries[h] \in Nat /\ tries'[h] = tries[h] + 1
        /\ http'[h] = "send" /\ attempt'[h] = 0
        /\ http[h] \in {"blank", "raised"}
    BY <1>7, Constants DEF TryAgain, Begin, HttpIs, TypeOK, HttpTypeOK
  <2>2. InTry(h)' = PerTry /\ InTry(h) = 1
    BY <2>1, Constants DEF InTry, PerTry
  <2>3. Later(h)' = Later(h) - PerTry
    <3>1. \A m, c \in Int : (m - 1) * c = m * c - c
      OBVIOUS
    <3>2. AiRetries - (tries[h] + 1) = (AiRetries - tries[h]) - 1 /\ AiRetries - tries[h] \in Int
      BY <2>1, Constants
    <3>3. Later(h)' = (AiRetries - (tries[h] + 1)) * PerTry
      BY <2>1 DEF Later, PerTry
    <3>4. Later(h)' = ((AiRetries - tries[h]) - 1) * PerTry
      BY <3>2, <3>3
    <3> QED
      BY <1>1, <3>1, <3>2, <3>4 DEF Later
  <2> QED
    BY <1>1, <2>1, <2>2, <2>3 DEF Work
<1>9. ~Moves(h, "idle", "load")
  BY DEF Moves, Step, Load, Read, Lookup, Hit, Ambiguous, Call, Accept, TryAgain, GiveUp, Insert, Commit, Refused, TypeOK
<1> QED
  BY <1>2, <1>3, <1>4, <1>5, <1>6, <1>7, <1>9, Shapes

\* Others leave a request where it is; that it fails ends it.
LEMMA OthersLeave ==
  ASSUME TypeOK, NEW h \in Handlers, pc[h] # "idle", [Next]_vars, ~Step(h)
  PROVE  \/ pc'[h] = "idle"
         \/ /\ pc'[h] = pc[h] /\ tries'[h] = tries[h]
            /\ http'[h] = http[h] /\ attempt'[h] = attempt[h]
<1> DEFINE Left == /\ pc'[h] = pc[h] /\ tries'[h] = tries[h]
                   /\ http'[h] = http[h] /\ attempt'[h] = attempt[h]
<1>1. ASSUME NEW g \in Handlers \ {h}, (\E s \in Subjects : Explain(g, s)) \/ Step(g) \/ Fail(g)
      PROVE  Left
  <2> USE DEF TypeOK, HttpTypeOK, Goto, HttpIs, httpVars, requestVars
  <2>1. ASSUME NEW from, NEW to, Moves(g, from, to) PROVE Left
    BY <2>1 DEF Moves
  <2>2. CASE Lookup(g) \/ Call(g) \/ Accept(g) \/ TryAgain(g)
    BY <2>2 DEF Lookup, Call, Accept, TryAgain, Begin, Send, Backoff
  <2>3. CASE Ends(g) \/ Commit(g)
    BY <2>3 DEF Ends, Commit, Close, Forget
  <2> HIDE DEF Left, TypeOK
  <2> QED
    BY <1>1, <2>1, <2>2, <2>3, Shapes
<1>2. ASSUME Sync \/ DeleteWallet \/ UNCHANGED vars
      PROVE  Left
  BY <1>2 DEF Sync, DeleteWallet, vars, requestVars, httpVars
<1>3. ~ \E s \in Subjects : Explain(h, s)
  BY DEF Explain
<1>4. Fail(h) => pc'[h] = "idle"
  BY DEF Fail, Close, Goto, TypeOK
<1> HIDE DEF Left
<1>5. Left \/ pc'[h] = "idle"
  <2>1. CASE \E g \in Handlers : (\E s \in Subjects : Explain(g, s)) \/ Step(g) \/ Fail(g)
    BY <1>1, <1>3, <1>4, <2>1
  <2> QED
    BY <1>2, <2>1 DEF Next
<1> QED
  BY <1>5 DEF Left

\* RequestEnds rests on it: the two loops of retries, one inside the other (ai_explain.py
\* and http_retry.py), leave a request a bounded number of steps, whatever the provider
\* answers and however the wallet changes.
THEOREM WorkShrinksAlways == Spec => WorkShrinks
<1> DEFINE Counted == \A h \in Handlers : Work(h) \in Nat
           Shrinks == \A h \in Handlers : /\ Step(h) => Work(h)' < Work(h)
                                          /\ pc[h] # "idle" => Work(h)' <= Work(h)
<1>1. TypeOK => Counted
  BY WorkCounted
<1>2. TypeOK /\ TypeOK' /\ Counted /\ Counted' /\ [Next]_vars => [Shrinks]_vars
  <2> SUFFICES ASSUME TypeOK, TypeOK', Counted, Counted', [Next]_vars, NEW h \in Handlers
               PROVE  /\ Step(h) => Work(h)' < Work(h)
                      /\ pc[h] # "idle" => Work(h)' <= Work(h)
    OBVIOUS
  <2>1. Work(h) \in Nat /\ Work(h)' \in Nat
    OBVIOUS
  <2> HIDE DEF Counted
  <2>2. CASE Step(h)
    BY <2>1, <2>2, StepWorks
  <2>3. CASE ~Step(h) /\ pc[h] # "idle"
    <3>1. CASE pc'[h] = "idle"
      <4>1. Work(h)' = 0
        BY <3>1 DEF Work
      <4> QED
        BY <2>1, <2>3, <4>1
    <3>2. CASE /\ pc'[h] = pc[h] /\ tries'[h] = tries[h]
               /\ http'[h] = http[h] /\ attempt'[h] = attempt[h]
      <4>1. Work(h)' = Work(h)
        BY <3>2 DEF Work, Later, InTry, PerTry
      <4> QED
        BY <2>1, <2>3, <4>1
    <3> QED
      BY <2>3, <3>1, <3>2, OthersLeave
  <2> QED
    BY <2>2, <2>3
<1> HIDE DEF Counted
<1> QED
  BY <1>1, <1>2, TypeCorrect, PTL DEF Spec, WorkShrinks
=============================================================================
