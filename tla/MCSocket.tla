------------------------------ MODULE MCSocket ------------------------------
(***************************************************************************)
(* A small instance of Socket for TLC.                                     *)
(***************************************************************************)
EXTENDS Socket, TLC
=============================================================================
