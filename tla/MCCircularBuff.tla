--------------------------- MODULE MCCircularBuff ---------------------------
(***************************************************************************)
(* CircularBuff on a ring of a few bytes.                                  *)
(***************************************************************************)
EXTENDS CircularBuff

MCNotEnough == -2
=============================================================================
