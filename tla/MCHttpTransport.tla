-------------------------- MODULE MCHttpTransport --------------------------
(***************************************************************************)
(* Instance of HttpTransport for TLC.                                      *)
(***************************************************************************)
EXTENDS HttpTransport
=============================================================================
