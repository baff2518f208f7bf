------------------------------ MODULE WebClient -----------------------------
(***************************************************************************)
(* The Mini App (web/src/App.tsx, pages/Login.tsx, lib/api.ts) and the     *)
(* server it logs in to: it sends the initData of its launch, keeps the    *)
(* session's token for its tab and drops it when a request is answered 401.*)
(***************************************************************************)
EXTENDS LoginOnce

VARIABLES
  bypass,  \* dev_bypass_auth, in a development environment
  launch,  \* initData of the launch
  asked,   \* login requests whose answers the client waits for
  token,   \* the client holds a token
  live     \* it holds one, whose session is neither revoked nor expired

clientVars == <<bypass, launch, asked, token, live>>
vars == <<loginVars, clientVars>>

Init ==
  /\ LoginInit
  /\ bypass \in BOOLEAN
  /\ launch = NoData /\ asked = {} /\ token = FALSE /\ live = FALSE

\* A launch is a new tab: no token, and no answer of an earlier one arrives.
Launch(d) ==
  /\ Sign(d)
  /\ launch' = d /\ asked' = {} /\ token' = FALSE /\ live' = FALSE
  /\ UNCHANGED bypass

\* At the start and on each change of page (useBootstrapAuth) while there is no token,
\* or by the button of the page /login.
Login(h) ==
  /\ launch # NoData
  /\ Start(h, launch)
  /\ asked' = asked \cup {h}
  /\ UNCHANGED <<bypass, launch, token, live>>

LoginStep(h) == (Verify(h) \/ Pass(h)) /\ UNCHANGED clientVars

\* The answer arrives, or is lost, or the client has gone.
Arrives(h, holds, lives) ==
  /\ \/ h \in asked /\ token' = holds /\ live' = lives
     \/ UNCHANGED <<token, live>>
  /\ asked' = asked \ {h}
  /\ UNCHANGED <<bypass, launch>>

LoggedIn(h) == Create(h) /\ Arrives(h, TRUE, TRUE)

\* request() drops the token on any 401, that of a login included.
LoginRefused(h) == Refused(h) /\ Arrives(h, FALSE, FALSE)

\* 429 or 5xx: the error is shown, or written to the console.
LoginFails(h) == Fail(h) /\ asked' = asked \ {h} /\ UNCHANGED <<bypass, launch, token, live>>

\* Does path.startsWith(API_BASE)?  The paths of `api` leave out API_BASE, "/api/v1".
StartsWithBase == FALSE

SendsToken == token /\ StartsWithBase

\* Does get_current_user find a user?
KnowsUser == bypass \/ (SendsToken /\ live)

\* Any other request: the token is dropped if the answer is 401, or 403.
Request ==
  /\ token
  /\ token' = KnowsUser
  /\ live' = (live /\ KnowsUser)
  /\ UNCHANGED <<loginVars, bypass, launch, asked>>

\* It expires, or it is revoked.
SessionEnds == live /\ live' = FALSE /\ UNCHANGED <<loginVars, bypass, launch, asked, token>>

Answer(h) == LoginStep(h) \/ LoggedIn(h) \/ LoginRefused(h)

Next ==
  \/ \E d \in InitData : Launch(d)
  \/ \E h \in Logins : Login(h) \/ LoginStep(h) \/ LoggedIn(h) \/ LoginRefused(h) \/ LoginFails(h)
  \/ Request \/ SessionEnds
  \/ (Tick \/ RedisLoses) /\ UNCHANGED clientVars

Spec == Init /\ [][Next]_vars

\* The server runs on with every request.
FairSpec == Spec /\ \A h \in Logins : WF_vars(Answer(h))

-----------------------------------------------------------------------------
(* Properties.                                                             *)

\* Every variable has its type; an answer that the client waits for is under way.
TypeOK ==
  /\ LoginTypeOK
  /\ bypass \in BOOLEAN /\ token \in BOOLEAN /\ live \in BOOLEAN
  /\ launch \in InitData \cup {NoData}
  /\ launch = NoData \/ launch \in signed
  /\ asked \subseteq {h \in Logins : pc[h] # "idle" /\ data[h] = launch}

\* A client that is signed in stays so until it is launched again or its session ends:
\* what it requests carries the token that Login and App store.
StaysSignedIn == [][token /\ live /\ ~token' => launch' # launch]_vars
=============================================================================
