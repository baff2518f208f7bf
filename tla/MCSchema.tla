------------------------------ MODULE MCSchema ------------------------------
(***************************************************************************)
(* Four rows: a user, a wallet, an alert and its delivery, or a wallet's   *)
(* transaction and its analysis; two deletions at a time.                  *)
(***************************************************************************)
EXTENDS Schema

CONSTANTS x1, x2
=============================================================================
