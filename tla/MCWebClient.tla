---------------------------- MODULE MCWebClient -----------------------------
(***************************************************************************)
(* Names for the login requests and the initData.                          *)
(***************************************************************************)
EXTENDS WebClient

CONSTANTS l1, l2, d1
=============================================================================
