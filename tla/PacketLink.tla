----------------------------- MODULE PacketLink -----------------------------
(***************************************************************************)
(* What packet.c promises about a serial line on which bytes may be lost:  *)
(* packets are handled in the order in which the host sent them, each at   *)
(* most once, and nothing is handled that the host did not send.           *)
(***************************************************************************)
EXTENDS Sequences, Naturals

CONSTANT Payloads

VARIABLES
  pending,  \* packets that were sent and may still be handled
  handled   \* number of packets handled so far, modulo 2

LinkInit == pending = <<>> /\ handled = 0

\* Every packet that leaves the line unhandled is lost: the oldest ones first.
Suffix(s, n) == SubSeq(s, n + 1, Len(s))

Send(p) ==
  /\ \E n \in 0..Len(pending) : pending' = Append(Suffix(pending, n), p)
  /\ UNCHANGED handled

Handle(n) ==
  /\ pending' = Suffix(pending, n)
  /\ handled' = 1 - handled

LinkNext ==
  \/ \E p \in Payloads : Send(p)
  \/ \E n \in 1..Len(pending) : Handle(n)

LinkSpec == LinkInit /\ [][LinkNext]_<<pending, handled>>
=============================================================================
