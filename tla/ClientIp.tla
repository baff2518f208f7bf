------------------------------ MODULE ClientIp ------------------------------
(***************************************************************************)
(* trusted_client_ip (utils/rate_limit.py): whose key a login counts for,  *)
(* on the way of one request over proxies to the API.  It comes from a     *)
(* client, or from one of the proxies themselves.                          *)
(***************************************************************************)
EXTENDS Integers, Sequences, SequencesExt

CONSTANTS
  Clients,   \* addresses outside the trusted networks
  Proxies,   \* addresses inside
  Trusting,  \* is rate_limit_trusted_proxies set?
  MaxHops    \* bound: entries of X-Forwarded-For

ASSUME ClientIpAssumption ==
  /\ Clients \cap Proxies = {} /\ "unknown" \notin Clients \cup Proxies
  /\ MaxHops \in Nat

VARIABLES
  header,  \* X-Forwarded-For, from left to right
  sender,  \* who has sent the request last
  outside, \* history: the last sender outside the trusted networks, or where it all began
  legible  \* history: everybody since then has named its sender

hopVars == <<header, sender, outside, legible>>

\* A client sends the request, with whatever it has in the header; or an inside one,
\* which has nothing there.
HopInit ==
  /\ \/ sender \in Clients /\ header \in SeqOf(Clients \cup Proxies \cup {"unknown"}, MaxHops)
     \/ sender \in Proxies /\ header = <<>>
  /\ outside = sender /\ legible = TRUE

\* Whoever gets it appends its sender, or what is no address, and sends it on, inside
\* or outside.
Forward(p, entry) ==
  /\ Len(header) < MaxHops
  /\ header' = Append(header, entry)
  /\ sender' = p
  /\ outside' = IF p \in Clients THEN p ELSE outside
  /\ legible' = (p \in Clients \/ (legible /\ entry = sender))

Hop == \E p \in Clients \cup Proxies : \E entry \in {sender, "unknown"} : Forward(p, entry)

HopSpec == HopInit /\ [][Hop]_hopVars

\* Mutant of Walk: from left to right, as the header is read.
WalkFromLeft(direct, entries) ==
  LET path == <<direct>> \o entries
  IN  path[CHOOSE i \in DOMAIN path :
             /\ \A j \in 1..i - 1 : path[j] \in Proxies
             /\ i = Len(path) \/ path[i] \notin Proxies]

\* From right to left, beginning at the peer, up to what is not trusted or is the last.
Walk(direct, entries) ==
  LET path == Append(entries, direct)
  IN  path[CHOOSE i \in DOMAIN path :
             /\ \A j \in i + 1..Len(path) : path[j] \in Proxies
             /\ i = 1 \/ path[i] \notin Proxies]

\* What is no address yields to the peer's.
trusted_client_ip ==
  IF ~Trusting \/ header = <<>> \/ Walk(sender, header) \notin Clients \cup Proxies
  THEN sender ELSE Walk(sender, header)

\* The key is the last address outside the trusted networks that the request came
\* from, or the inside one where it began, whatever was in the header and over however
\* many proxies; the peer's, where a proxy since then has hidden its sender, or where
\* no network is trusted.
KeyIsOutside == trusted_client_ip = IF Trusting /\ legible THEN outside ELSE sender
=============================================================================
