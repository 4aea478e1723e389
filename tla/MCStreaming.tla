---------------------------- MODULE MCStreaming ----------------------------
(* Small instances of Streaming and StreamingHost for TLC. *)
EXTENDS StreamingHost
=============================================================================
