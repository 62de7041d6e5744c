------------------------------ MODULE MCPower ------------------------------
(* Small instance of Power: an output that is shorted (0 V), rising (3 V)  *)
(* or up (12 V), a bus of 12 V or a monitor that reads 0 V, a short test   *)
(* after 1 ms, up to 1 ms between the two clock reads of power_update, and *)
(* precharge timeouts at the least value that is safe against a short, 2,  *)
(* and one below it, 1.                                                    *)
EXTENDS Power

MCConfigs ==
  { [prechargeTimeout |-> 2, shutdownDelay |-> 1,
     chargerDisconnectShutdown |-> TRUE],
    [prechargeTimeout |-> 1, shutdownDelay |-> 2,
     chargerDisconnectShutdown |-> FALSE] }
=============================================================================
