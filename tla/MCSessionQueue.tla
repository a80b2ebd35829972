--------------------------- MODULE MCSessionQueue ---------------------------
(***************************************************************************)
(* SessionQueue for TLC.                                                   *)
(***************************************************************************)
EXTENDS SessionQueue
=============================================================================
