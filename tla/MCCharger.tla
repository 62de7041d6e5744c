----------------------------- MODULE MCCharger -----------------------------
(* Small instance of Charger: two cells with voltages below, at and above  *)
(* the thresholds, and a host that changes the number of cells.            *)
EXTENDS Charger

Conf(n, start, cutoff) ==
  [numCells |-> n, balanceStartVoltage |-> start,
   balanceDifferenceThreshold |-> 0, highVoltageCutoff |-> cutoff]

MCConfigs == {Conf(2, 2, 3), Conf(1, 2, 2), Conf(0, 0, 0)}
=============================================================================
