--------------------------- MODULE MCSequencePool ---------------------------
(* Instances of SequencePool for TLC.                                      *)
EXTENDS SequencePool
=============================================================================
