------------------------------ MODULE Holdings ------------------------------
(***************************************************************************)
(* EtherscanProvider.fetch_token_holdings (providers/etherscan.py): the    *)
(* tokens of a wallet, from the newest page of its token transfers.        *)
(***************************************************************************)
EXTENDS Integers, Sequences, SequencesExt, FiniteSetsExt

CONSTANTS
  Contracts,  \* tokens
  Page,       \* transfers that one call returns ("offset")
  Amounts     \* that are ever transferred

ASSUME HoldingsAssumption == Page \in Nat /\ Amounts \subseteq Nat

VARIABLE history  \* token transfers of the wallet, from the newest on

\* Mutant of Newest: a page of one less.
NewestButOne == SubSeq(history, 1, Min({Page - 1, Len(history)}))

\* sort=desc, page=1
Newest == SubSeq(history, 1, Min({Page, Len(history)}))

\* Who receives it is looked at first: a transfer to oneself counts as received.
Credit(t) == IF t.dir \in {"in", "self"} THEN t.value ELSE -t.value

Of(c, transfers) == {i \in DOMAIN transfers : transfers[i].contract = c}

\* What the page adds to each token.
PerToken == [c \in Contracts |-> SumFunction([i \in Of(c, Newest) |-> Credit(Newest[i])])]

\* Tokens that come out at nothing, or at less, are left out.
fetch_token_holdings == {c \in Contracts : PerToken[c] > 0}

-----------------------------------------------------------------------------
(* What the chain says.                                                    *)

Change(t) == CASE t.dir = "in" -> t.value [] t.dir = "out" -> -t.value [] t.dir = "self" -> 0

Balance(c) == SumFunction([i \in Of(c, history) |-> Change(history[i])])

\* No token is sent that is not there.  One transfer more than a page is enough.
Transfer(t) ==
  /\ Len(history) <= Page
  /\ t.dir # "in" => t.value <= Balance(t.contract)
  /\ history' = <<t>> \o history

HoldingsInit == history = <<>>

Transfers == [contract : Contracts, dir : {"in", "out", "self"}, value : Amounts]

HoldingsNext == \E t \in Transfers : Transfer(t)

HoldingsSpec == HoldingsInit /\ [][HoldingsNext]_history

-----------------------------------------------------------------------------
(* Property.                                                               *)

\* The page shows the whole history of c, and c was never sent from the wallet to itself.
Covered(c) ==
  \A i \in DOMAIN history : history[i].contract = c => i <= Page /\ history[i].dir # "self"

\* A token whose transfers all fit on the page, and which was never sent from the
\* wallet to itself, is shown with what the chain says, or not at all if that is
\* nothing, whatever other tokens crowd the page.
HoldingsShown ==
  \A c \in Contracts : Covered(c) =>
    /\ c \in fetch_token_holdings <=> Balance(c) > 0
    /\ c \in fetch_token_holdings => PerToken[c] = Balance(c)
=============================================================================
