-------------------------------- MODULE MCCan --------------------------------
(* A status frame for this device, and a broadcast that the filter of      *)
(* comm_can.c refuses, since its sender has the address of this device.    *)
EXTENDS Can

MCHeaders ==
  {[ide |-> "EXT", sender |-> 2, receiver |-> 1, id |-> "STATUS"],
   [ide |-> "EXT", sender |-> 1, receiver |-> 255, id |-> "STATUS"]}
==============================================================================
