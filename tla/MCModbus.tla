------------------------------ MODULE MCModbus ------------------------------
(* Instances of ModbusMaster for TLC.                                      *)
EXTENDS ModbusMaster
=============================================================================
