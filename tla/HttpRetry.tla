------------------------------ MODULE HttpRetry -----------------------------
(***************************************************************************)
(* HttpRetry.request (utils/http_retry.py): one HTTP request at a time for *)
(* each caller, sent again after a failure that may pass.                  *)
(***************************************************************************)
EXTENDS Integers

CONSTANTS
  Handlers,     \* bound: callers at a time
  HttpRetries,  \* max_retries
  Bodies        \* what a 2xx answer may hold

ASSUME HttpAssumption ==
  /\ HttpRetries \in Nat
  /\ Bodies \cap {"idle", "send", "sleep", "raised"} = {}

VARIABLES
  http,     \* where each caller's request stands, or the body it returned
  attempt,  \* its attempts so far
  posts     \* history: HTTP requests a caller has sent in its present task

httpVars == <<http, attempt, posts>>

HttpTypeOK ==
  /\ http \in [Handlers -> {"idle", "send", "sleep", "raised"} \cup Bodies]
  /\ attempt \in [Handlers -> 0..HttpRetries]
  /\ posts \in [Handlers -> Nat]

HttpInit ==
  /\ http = [h \in Handlers |-> "idle"]
  /\ attempt = [h \in Handlers |-> 0]
  /\ posts = [h \in Handlers |-> 0]

HttpIs(h, status) == http' = [http EXCEPT ![h] = status]

\* A caller begins a request.
Begin(h) ==
  /\ HttpIs(h, "send")
  /\ attempt' = [attempt EXCEPT ![h] = 0]
  /\ UNCHANGED posts

\* The caller's task is over: nothing of its requests remains.
Forget(h) ==
  /\ HttpIs(h, "idle")
  /\ attempt' = [attempt EXCEPT ![h] = 0]
  /\ posts' = [posts EXCEPT ![h] = 0]

\* Mutant of MayRetry: <= for <.
MayRetryOnceMore(h) == attempt[h] <= HttpRetries

MayRetry(h) == attempt[h] < HttpRetries

\* A body of bounded size came back; or the status is permanent or the body too
\* large, which no attempt repeats; or a timeout, a transport error or a status
\* that may pass, which the last attempt turns into an error too.
Send(h) ==
  /\ http[h] = "send"
  /\ posts' = [posts EXCEPT ![h] = @ + 1]
  /\ \/ \E b \in Bodies : HttpIs(h, b)
     \/ HttpIs(h, "raised")
     \/ MayRetry(h) /\ HttpIs(h, "sleep")
  /\ UNCHANGED attempt

\* The wait that Retry-After or the exponential backoff asks for is over.
Backoff(h) ==
  /\ http[h] = "sleep"
  /\ HttpIs(h, "send")
  /\ attempt' = [attempt EXCEPT ![h] = @ + 1]
  /\ UNCHANGED posts
=============================================================================
