---------------------------- MODULE MCPcmStream -----------------------------
(***************************************************************************)
(* Model-checking instance of PcmStream.  The sizes are in MCPcmStream.cfg *)
(* and are the smallest at which the ring wraps, a batch is larger than    *)
(* the endpoint's buffer and a FIFO can be full.                           *)
(***************************************************************************)
EXTENDS PcmStream
=============================================================================
