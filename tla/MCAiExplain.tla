---------------------------- MODULE MCAiExplain -----------------------------
(***************************************************************************)
(* Two requests, one transaction, one content of the wallet's row.         *)
(***************************************************************************)
EXTENDS AiExplain

CONSTANTS h1, h2, t1
=============================================================================
