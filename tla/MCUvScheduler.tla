--------------------------- MODULE MCUvScheduler ---------------------------
(***************************************************************************)
(* Instance of UvScheduler for TLC.                                        *)
(***************************************************************************)
EXTENDS UvScheduler
=============================================================================
