---------------------------- MODULE MCPartitions ----------------------------
(* The partition ring for TLC.                                              *)
EXTENDS Partitions
=============================================================================
