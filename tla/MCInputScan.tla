---------------------------- MODULE MCInputScan ----------------------------
(* Instances of InputScan for TLC.                                         *)
EXTENDS InputScan
=============================================================================
