------------------------------ MODULE AiExplain -----------------------------
(***************************************************************************)
(* POST /ai/explain (api/v1/ai.py, services/ai_explain.py) for one wallet  *)
(* and its transactions, asked by several requests at once, while the      *)
(* wallet is synced and deleted.  The answer of the model is stored in     *)
(* ai_analyses under a signature of the prompt, which is modelled by what  *)
(* the prompt depends on.                                                  *)
(***************************************************************************)
EXTENDS HttpRetry, FiniteSets

CONSTANTS
  Versions,   \* bound: contents that the wallet's row may have
  Txs,        \* bound: transactions that may be stored
  AiRetries   \* _MAX_AI_RETRIES

\* What the provider may send: an explanation, an answer without one, one that is
\* not JSON by its content type.
ASSUME AiAssumption ==
  /\ Bodies = {"text", "blank", "html"}
  /\ AiRetries \in Nat /\ IsFiniteSet(Handlers) /\ Handlers # {}
  /\ Versions # {} /\ "wallet" \notin Txs

VARIABLES
  wallet,    \* is the wallet there?
  version,   \* content of its row
  txs,       \* its stored transactions
  rows,      \* stored analyses, counted by the prompt that they answer
  raced,     \* history: prompts that were missed while another request asked about them
  pc,        \* where each request stands
  prompt,    \* what it asks about, and what its prompt depends on
  tries      \* answers of the provider that the request has refused

dbVars      == <<wallet, version, txs, rows, raced>>
requestVars == <<pc, prompt, tries>>
vars        == <<dbVars, requestVars, httpVars>>

Pcs      == {"idle", "load", "read", "lookup", "call", "insert", "commit"}
Subjects == {"wallet"} \cup Txs

\* A transaction never changes: its prompt has no txs.
Prompts == [of : Subjects, row : Versions, txs : SUBSET Txs]

AnyPrompt == [of |-> "wallet", row |-> CHOOSE v \in Versions : TRUE, txs |-> {}]

Init ==
  /\ wallet = TRUE /\ version \in Versions /\ txs = {}
  /\ rows = [p \in Prompts |-> 0] /\ raced = {}
  /\ pc = [h \in Handlers |-> "idle"]
  /\ prompt = [h \in Handlers |-> AnyPrompt]
  /\ tries = [h \in Handlers |-> 0]
  /\ HttpInit

Goto(h, label) == pc' = [pc EXCEPT ![h] = label]

Close(h) ==
  /\ Goto(h, "idle")
  /\ prompt' = [prompt EXCEPT ![h] = AnyPrompt]
  /\ tries' = [tries EXCEPT ![h] = 0]
  /\ Forget(h)

-----------------------------------------------------------------------------
(* A request up to the provider.                                           *)

\* Both limiters have let the request pass.
Explain(h, s) ==
  /\ pc[h] = "idle"
  /\ Goto(h, "load")
  /\ prompt' = [prompt EXCEPT ![h].of = s]
  /\ UNCHANGED <<dbVars, tries, httpVars>>

Found(h) == wallet /\ prompt[h].of \in {"wallet"} \cup txs

\* The wallet, or the transaction and its wallet.
Load(h) ==
  /\ pc[h] = "load" /\ Found(h)
  /\ prompt' = [prompt EXCEPT ![h].row = version]
  /\ Goto(h, IF prompt[h].of = "wallet" THEN "read" ELSE "lookup")
  /\ UNCHANGED <<dbVars, tries, httpVars>>

\* The wallet's prompt takes its transactions too, by a query of its own.
Read(h) ==
  /\ pc[h] = "read"
  /\ prompt' = [prompt EXCEPT ![h].txs = txs]
  /\ Goto(h, "lookup")
  /\ UNCHANGED <<dbVars, tries, httpVars>>

\* Mutant of Miss: only rows with is_cached are looked for; no row has it.
MissUncached(h) == TRUE

Miss(h) == rows[prompt[h]] = 0

\* Requests that have missed p and may store an answer.
Asking(p) == {h \in Handlers : prompt[h] = p /\ pc[h] \in {"call", "insert", "commit"}}

Lookup(h) ==
  /\ pc[h] = "lookup" /\ Miss(h)
  /\ raced' = raced \cup {p \in Prompts : p = prompt[h] /\ Asking(p) # {}}
  /\ Goto(h, "call")
  /\ Begin(h)
  /\ UNCHANGED <<wallet, version, txs, rows, prompt, tries>>

\* One row is the answer.
Hit(h) == pc[h] = "lookup" /\ ~Miss(h) /\ rows[prompt[h]] = 1 /\ Close(h) /\ UNCHANGED dbVars

\* More than one make scalar_one_or_none raise: the request fails, like all that follow.
Ambiguous(h) == pc[h] = "lookup" /\ ~Miss(h) /\ rows[prompt[h]] > 1 /\ Close(h) /\ UNCHANGED dbVars

-----------------------------------------------------------------------------
(* The call of the provider and the insert of its answer.                  *)

Call(h) == pc[h] = "call" /\ (Send(h) \/ Backoff(h)) /\ UNCHANGED <<dbVars, requestVars>>

\* validate_explanation has cleaned the text, and left some of it.
Accept(h) ==
  /\ pc[h] = "call" /\ http[h] = "text"
  /\ Goto(h, "insert")
  /\ HttpIs(h, "idle")
  /\ UNCHANGED <<dbVars, prompt, tries, attempt, posts>>

MayTryAgain(h) == tries[h] < AiRetries

\* A request that failed, for whatever reason, or an answer without text.
TryAgain(h) ==
  /\ pc[h] = "call" /\ http[h] \in {"blank", "raised"} /\ MayTryAgain(h)
  /\ tries' = [tries EXCEPT ![h] = @ + 1]
  /\ Begin(h)
  /\ UNCHANGED <<dbVars, pc, prompt>>

\* Mutant of GiveUp: the content type's error has no handler.
GiveUpOnFailures(h) ==
  /\ pc[h] = "call" /\ http[h] \in {"blank", "raised"} /\ ~MayTryAgain(h)
  /\ Close(h)
  /\ UNCHANGED dbVars

\* The content type is judged outside the handler of errors: no try follows.
GiveUp(h) ==
  /\ pc[h] = "call"
  /\ \/ http[h] = "html"
     \/ http[h] \in {"blank", "raised"} /\ ~MayTryAgain(h)
  /\ Close(h)
  /\ UNCHANGED dbVars

\* The foreign keys find their rows and hold them until the commit.
Insert(h) ==
  /\ pc[h] = "insert" /\ Found(h)
  /\ Goto(h, "commit")
  /\ UNCHANGED <<dbVars, prompt, tries, httpVars>>

Commit(h) ==
  /\ pc[h] = "commit"
  /\ rows' = [rows EXCEPT ![prompt[h]] = @ + 1]
  /\ Close(h)
  /\ UNCHANGED <<wallet, version, txs, raced>>

\* 404, or a foreign key that finds nothing.
Refused(h) ==
  /\ pc[h] \in {"load", "insert"} /\ ~Found(h)
  /\ Close(h)
  /\ UNCHANGED dbVars

\* A query that fails, a client that goes away, a crash: the insert is rolled back.
Fail(h) == pc[h] # "idle" /\ Close(h) /\ UNCHANGED dbVars

-----------------------------------------------------------------------------
(* Other requests and the worker.                                          *)

\* A sync or a snapshot changes the row; a sync stores transactions.
Sync ==
  /\ wallet
  /\ version' \in Versions
  /\ \E new \in SUBSET Txs : txs' = txs \cup new
  /\ UNCHANGED <<wallet, rows, raced, requestVars, httpVars>>

\* Mutant of Unreferenced: a delete waits for nobody.
UnreferencedOrNot == TRUE

Unreferenced == \A h \in Handlers : pc[h] # "commit"

\* Everything of the wallet goes with it; the DELETE waits for inserts that refer to it.
DeleteWallet ==
  /\ wallet /\ Unreferenced
  /\ wallet' = FALSE
  /\ txs' = {}
  /\ rows' = [p \in Prompts |-> 0]
  /\ UNCHANGED <<version, raced, requestVars, httpVars>>

Step(h) ==
  \/ Load(h) \/ Read(h) \/ Lookup(h) \/ Hit(h) \/ Ambiguous(h) \/ Call(h) \/ Accept(h)
  \/ TryAgain(h) \/ GiveUp(h) \/ Insert(h) \/ Commit(h) \/ Refused(h)

Next ==
  \/ \E h \in Handlers : (\E s \in Subjects : Explain(h, s)) \/ Step(h) \/ Fail(h)
  \/ Sync \/ DeleteWallet

Spec == Init /\ [][Next]_vars

\* A request runs on as soon as its query, its call or its sleep is done.
FairSpec == Spec /\ \A h \in Handlers : WF_vars(Step(h))

-----------------------------------------------------------------------------
(* Properties.                                                             *)

\* Every variable has its type: a request talks to the provider only while it waits
\* for an answer, and no prompt is asked that the request is not about.
TypeOK ==
  /\ wallet \in BOOLEAN /\ version \in Versions /\ txs \subseteq Txs
  /\ rows \in [Prompts -> Nat] /\ raced \subseteq Prompts
  /\ pc \in [Handlers -> Pcs]
  /\ prompt \in [Handlers -> Prompts]
  /\ tries \in [Handlers -> 0..AiRetries]
  /\ HttpTypeOK
  /\ \A h \in Handlers : (http[h] = "idle") = (pc[h] # "call")

\* A request sends no more HTTP requests than the two limits of retries allow
\* together, however the tries of the one follow on the failures of the other.
PostsBounded == \A h \in Handlers : posts[h] <= (AiRetries + 1) * (HttpRetries + 1)

\* Requests that miss together store an answer each, and nobody else adds to them.  This
\* bounds the damage and does not exclude it: two answers make every later lookup raise.
AnswersBounded == \A p \in Prompts : rows[p] + Cardinality(Asking(p)) <= Cardinality(Handlers)

\* A prompt comes to the two answers that break it only if requests asked about it at
\* the same time: those who come one after another never find more than one.
AmbiguousOnlyByRace == \A p \in Prompts : rows[p] > 1 => p \in raced

\* No analysis outlives its wallet, not even one inserted while the wallet goes.
NoAnalysisWithoutWallet ==
  ~wallet => /\ \A p \in Prompts : rows[p] = 0
             /\ \A h \in Handlers : pc[h] # "commit"

Settled(p) == rows[p] = 1 /\ Asking(p) = {}

\* Once a prompt has one stored answer and nobody is asking for another, nobody asks
\* the provider again and the answer stays, until the wallet is deleted.
StaysSettled == [][\A p \in Prompts : Settled(p) /\ wallet' => Settled(p)']_vars

\* Every request ends.
RequestEnds == \A h \in Handlers : pc[h] # "idle" ~> pc[h] = "idle"
=============================================================================
