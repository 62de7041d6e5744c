------------------------------ MODULE MCI2cBus ------------------------------
(* I2cBus with the number of transfers of the code, and the first and the  *)
(* last days of every month of a leap year and of the first months of the  *)
(* next year.                                                              *)
EXTENDS I2cBus

MCTransfers ==
  [s \in Sections |->
     CASE s = "monitor" -> 2
       [] s = "voltage" -> 1
       [] s = "alarm"   -> 2
       [] s = "clock"   -> 6
       [] s = "overcurrent" -> 1]

MCDates ==
  {d \in [day : {1} \union 28..31, month : 1..12, year : {24, 25}] :
     d.day <= DaysOf(d.month, d.year) /\ (d.year = 24 \/ d.month <= 3)}

MCNewYear == {[day |-> 1, month |-> 1, year |-> 24]}
=============================================================================
