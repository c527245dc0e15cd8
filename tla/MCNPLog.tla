------------------------------ MODULE MCNPLog -------------------------------
(***************************************************************************)
(* A small instance of NPLog for TLC.                                      *)
(***************************************************************************)
EXTENDS NPLog, TLC
=============================================================================
