------------------------------- MODULE Packet -------------------------------
(***************************************************************************)
(* The packet format of packet.c and its byte parser.                      *)
(*                                                                         *)
(* A byte has a value below Radix (256 in the code).  The CRC is ideal: a  *)
(* byte also tells of which payload's CRC it is, and the comparison of     *)
(* packet.c:98 succeeds for the two bytes of the CRC of that very payload  *)
(* only.                                                                   *)
(***************************************************************************)
EXTENDS Integers, Sequences

CONSTANTS
  Radix,          \* values of a byte: 256
  PACKET_START, PACKET_LONG_START, PACKET_END,
  BufferSize,     \* bytes of packet_buffer: 2048
  Payloads,       \* payloads of the packets that the host sends
  Crc             \* the two values of the CRC of each

Values == 0..(Radix - 1)
NoPacket == <<>>

ASSUME PacketAssumption ==
  /\ Radix \in Nat \ {0, 1}
  /\ {PACKET_START, PACKET_LONG_START, PACKET_END} \subseteq Values
  /\ PACKET_START # PACKET_LONG_START
  /\ BufferSize \in Nat \ {0}
  /\ Payloads \subseteq Seq(Values)
  /\ \A p \in Payloads : Len(p) \in 1..BufferSize
  /\ Crc \in [Payloads -> Values \X Values]

VARIABLES
  process_state,
  packet_length,
  packet_buffer,  \* packet_buffer[0 .. packet_index - 1]
  packet_crc,     \* the two CRC bytes read so far
  accepted        \* payload that the last byte passed to process_packet

parser == <<process_state, packet_length, packet_buffer, packet_crc, accepted>>

-----------------------------------------------------------------------------
(* Bytes and packets.                                                       *)

NotCrc == [payload |-> NoPacket, half |-> 0]
Plain(v) == [value |-> v, crc |-> NotCrc]
CrcByte(p, h) == [value |-> Crc[p][h], crc |-> [payload |-> p, half |-> h]]
CrcOf(p) == <<[payload |-> p, half |-> 1], [payload |-> p, half |-> 2]>>

\* packet_send_packet; the host sends its packets in the same form.
Header(n) ==
  IF n > Radix - 1
  THEN <<Plain(PACKET_LONG_START), Plain(n \div Radix), Plain(n % Radix)>>
  ELSE <<Plain(PACKET_START), Plain(n)>>

packet_send_packet(p) ==
  Header(Len(p)) \o [i \in DOMAIN p |-> Plain(p[i])]
    \o <<CrcByte(p, 1), CrcByte(p, 2), Plain(PACKET_END)>>

-----------------------------------------------------------------------------
(* packet_process_byte, one action for each state.                          *)

Await(s) == process_state' = s /\ accepted' = NoPacket

ReadStart(b) ==
  /\ process_state = "START"
  /\ \/ /\ b.value = PACKET_START
        /\ Await("LENGTH_LOW")
        /\ packet_length' = 0
     \/ /\ b.value = PACKET_LONG_START
        /\ Await("LENGTH_HIGH")
        /\ packet_length' = 0
     \/ /\ b.value \notin {PACKET_START, PACKET_LONG_START}
        /\ Await("START")
        /\ UNCHANGED packet_length
  /\ packet_buffer' = <<>>
  /\ UNCHANGED packet_crc

HighByte(v) == v * Radix

ReadLengthHigh(b) ==
  /\ process_state = "LENGTH_HIGH"
  /\ packet_length' = HighByte(b.value)
  /\ Await("LENGTH_LOW")
  /\ UNCHANGED <<packet_buffer, packet_crc>>

\* The test of line 70 has no effect: line 74 overwrites its result.
ReadLengthLow(b) ==
  /\ process_state = "LENGTH_LOW"
  /\ packet_length' = packet_length + b.value
  /\ Await("DATA")
  /\ UNCHANGED <<packet_buffer, packet_crc>>

\* Once a byte is stored behind the end of packet_buffer anything may happen:
\* the model says nothing about the parser from there on and stays in OVERRUN.
EndOfDataLate(n) == n > packet_length
EndOfData(n) == n >= packet_length

ReadData(b) ==
  /\ process_state = "DATA"
  /\ \/ /\ Len(packet_buffer) < BufferSize
        /\ packet_buffer' = Append(packet_buffer, b.value)
        /\ Await(IF EndOfData(Len(packet_buffer')) THEN "CRC_HIGH" ELSE "DATA")
     \/ /\ Len(packet_buffer) = BufferSize
        /\ packet_buffer' = <<>>
        /\ Await("OVERRUN")
  /\ UNCHANGED <<packet_length, packet_crc>>

ReadCrcHigh(b) ==
  /\ process_state = "CRC_HIGH"
  /\ packet_crc' = <<b.crc>>
  /\ Await("CRC_LOW")
  /\ UNCHANGED <<packet_length, packet_buffer>>

ReadCrcLow(b) ==
  /\ process_state = "CRC_LOW"
  /\ packet_crc' = Append(packet_crc, b.crc)
  /\ Await("END")
  /\ UNCHANGED <<packet_length, packet_buffer>>

\* crc16 over packet_length bytes of the buffer.
AnyCrc(payload) == TRUE
CrcMatches(payload) == packet_crc = CrcOf(payload)

StayIfWrong(payload) == IF CrcMatches(payload) THEN "START" ELSE "END"
AfterEnd(payload) == "START"

\* Length and CRC are cleared with the index: START and CRC_HIGH set them
\* before they are read again.
ReadEnd(b) ==
  /\ process_state = "END"
  /\ \/ /\ b.value = PACKET_END
        /\ LET payload == SubSeq(packet_buffer, 1, packet_length)
           IN  /\ process_state' = AfterEnd(payload)
               /\ accepted' = IF CrcMatches(payload) THEN payload ELSE NoPacket
        /\ packet_buffer' = <<>> /\ packet_length' = 0 /\ packet_crc' = <<>>
     \/ /\ b.value # PACKET_END
        /\ Await("END")
        /\ UNCHANGED <<packet_length, packet_buffer, packet_crc>>

Overrun == process_state = "OVERRUN" /\ UNCHANGED parser

packet_process_byte(b) ==
  \/ ReadStart(b) \/ ReadLengthHigh(b) \/ ReadLengthLow(b) \/ ReadData(b)
  \/ ReadCrcHigh(b) \/ ReadCrcLow(b) \/ ReadEnd(b) \/ Overrun

PacketInit ==
  /\ process_state = "START"
  /\ packet_length = 0
  /\ packet_buffer = <<>>
  /\ packet_crc = <<>>
  /\ accepted = NoPacket
=============================================================================
