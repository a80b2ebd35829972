--------------------------- MODULE MCRaidenDriver ---------------------------
(***************************************************************************)
(* Model-checking instance of RaidenDriver, with the stream of PcmStream   *)
(* at the sizes MCRaidenDriver.cfg gives.                                  *)
(***************************************************************************)
EXTENDS RaidenDriver
=============================================================================
