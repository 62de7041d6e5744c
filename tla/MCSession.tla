----------------------------- MODULE MCSession ------------------------------
(* Two pages of two half-words; a file of two chunks, one of which ends in *)
(* a zero half-word, which can be programmed twice, and the other in half  *)
(* a half-word.                                                            *)
EXTENDS Session

MCChunks ==
  << [offset |-> 0, data |-> <<1, 2, 0, 0>>],
     [offset |-> 4, data |-> <<5>>] >>
=============================================================================
