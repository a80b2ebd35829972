-------------------------- MODULE MCFrameExchange --------------------------
(***************************************************************************)
(* FrameExchange for TLC.                                                  *)
(***************************************************************************)
EXTENDS FrameExchange
=============================================================================
