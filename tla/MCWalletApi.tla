---------------------------- MODULE MCWalletApi -----------------------------
(***************************************************************************)
(* Three wallets, two of them of the same address, and alerts of two       *)
(* wallets.                                                                *)
(***************************************************************************)
EXTENDS WalletApi, TLC

CONSTANTS h1, h2, h3, w1, w2, w3, a1, a2, a3

MCAddress  == (w1 :> "x") @@ (w2 :> "x") @@ (w3 :> "y")
MCWalletOf == (a1 :> w1) @@ (a2 :> w1) @@ (a3 :> w3)
=============================================================================
