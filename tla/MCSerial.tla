------------------------------ MODULE MCSerial ------------------------------
(* Serial with bytes of five values: two ordinary ones, the end byte and   *)
(* the two start bytes, which as the high byte of a length exceed the      *)
(* buffer as they do in the code.  One short packet, one long packet, and  *)
(* one that contains an end, a start and, in its CRC, a long start.        *)
EXTENDS Serial, TLC

MCShort  == <<1>>
MCLong   == <<0, 1, 0, 0, 1>>
MCNested == <<2, 4>>
MCPayloads == {MCShort, MCLong, MCNested}

MCCrc == (MCShort :> <<0, 1>>) @@ (MCLong :> <<1, 1>>) @@ (MCNested :> <<3, 0>>)
=============================================================================
