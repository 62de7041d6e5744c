------------------------------ MODULE MCConfig ------------------------------
(* Small instances of Config: six bytes.  The two fields of two bytes span  *)
(* two half-words from an odd address, and share each of them with another  *)
(* field.                                                                   *)
EXTENDS Config, TLC

MCFields == {"highVoltageCutoff", "numCells", "maxCurrentCutoff", "chargeVoltage"}

MCaddr == "highVoltageCutoff" :> 0 @@ "maxCurrentCutoff" :> 1
            @@ "chargeVoltage" :> 3 @@ "numCells" :> 5

MCsize == "highVoltageCutoff" :> 1 @@ "numCells" :> 1
            @@ "maxCurrentCutoff" :> 2 @@ "chargeVoltage" :> 2

Send(a, n, v) == [addr |-> a, size |-> n, value |-> v]

\* Whole fields, with values on both sides of their limits; a part of a
\* field; parts of two fields, of which at most the first is clamped.
WholeFields ==
  {Send(0, 1, -1), Send(0, 1, 1), Send(0, 1, 3), Send(1, 2, 0), Send(1, 2, 3),
   Send(3, 2, -1), Send(3, 2, 3), Send(5, 1, 1), Send(5, 1, 3)}

Parts == {Send(1, 1, 3), Send(4, 1, 3)}

TwoFields == {Send(0, 2, -1), Send(0, 2, 3), Send(2, 2, 3), Send(4, 2, 3)}

\* All of them while nothing fails, and a few of them while everything may.
MCSessions ==
  {[requests |-> WholeFields \union Parts \union TwoFields, mayFail |-> FALSE],
   [requests |-> {Send(1, 2, 3), Send(5, 1, 3), Send(1, 1, 3), Send(0, 2, 3),
                  Send(4, 2, 3)},
    mayFail |-> TRUE]}

MCdefaults == [b \in Bytes |-> 1]
=============================================================================
