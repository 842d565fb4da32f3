--------------------------- MODULE MCWireProtocol ---------------------------
(* WireProtocol for TLC.  A call sends at most four statements, so the number of *)
(* calls bounds every sequence.                                                 *)
EXTENDS WireProtocol
=============================================================================
