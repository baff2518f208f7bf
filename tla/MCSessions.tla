----------------------------- MODULE MCSessions -----------------------------
(***************************************************************************)
(* Values for the constants of Sessions.                                   *)
(***************************************************************************)
EXTENDS Sessions

CONSTANTS h1, h2, s1, s2, s3
=============================================================================
