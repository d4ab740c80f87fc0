--------------------------- MODULE MCTransactions ---------------------------
(***************************************************************************)
(* Instance of Transactions for TLC.                                       *)
(***************************************************************************)
EXTENDS Transactions
=============================================================================
