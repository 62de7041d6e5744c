------------------------------- MODULE Serial -------------------------------
(***************************************************************************)
(* The serial line of comm_usb.c from the host to process_packet: the      *)
(* input queue of the USB driver, serial_read_thread, which moves bytes to *)
(* the ring serial_rx_buffer, and serial_process_thread, which feeds them  *)
(* to the parser of Packet and runs the handler of every packet.           *)
(*                                                                         *)
(* Both threads have the same priority and there is no time slice: the     *)
(* reader runs while the processor waits for a signal, or while a handler  *)
(* blocks in comm_usb_send because the host does not read.  A signal that  *)
(* is pending is served before the reader, which sleeps 1 ms after every   *)
(* byte, runs again.  The ring has no test for full.                       *)
(*                                                                         *)
(* packet_timeout_thread has called packet_timeout once, and ended, before *)
(* the bus is connected: no packet is ever timed out.                      *)
(***************************************************************************)
EXTENDS Packet

CONSTANTS
  SERIAL_RX_BUFFER_SIZE,  \* bytes of the ring: 2048
  QueueSize,              \* bytes of the input queue of the driver: 512
  MaxLosses,              \* disconnections and overwritten rings in a behaviour
  MaxPending              \* packets a behaviour remembers as sent

ASSUME SerialAssumption ==
  /\ SERIAL_RX_BUFFER_SIZE \in Nat \ {0, 1}
  /\ QueueSize \in Nat \ {0}
  /\ MaxLosses \in Nat
  /\ MaxPending \in Nat \ {0}

VARIABLES
  left,      \* bytes of the host's current packet that are not yet sent
  queue,     \* input queue of the driver
  serial_rx_buffer, serial_rx_read_pos, serial_rx_write_pos,
  process,   \* serial_process_thread: "wait", "loop" or "send"
  event,     \* its pending event
  losses,    \* history: disconnections and overwritten rings so far
  pending,   \* history: packets sent and not handled
  handled    \* history: packets handled, modulo 2

ring == <<serial_rx_buffer, serial_rx_read_pos, serial_rx_write_pos>>
history == <<losses, pending, handled>>
vars == <<parser, left, queue, ring, process, event, history>>

-----------------------------------------------------------------------------
(* The host.                                                                *)

\* A packet can be handled once its CRC has been sent: the end byte of the
\* next packet will do for it.
Sent(b) ==
  IF b.crc.half = 2
  THEN LET all == Append(pending, b.crc.payload)
       IN  IF Len(all) > MaxPending THEN Tail(all) ELSE all
  ELSE pending

\* The host sends the next byte of its packet, or the first of another one.
HostSends ==
  /\ Len(queue) < QueueSize
  /\ \E bytes \in IF left # <<>> THEN {left}
                  ELSE {packet_send_packet(p) : p \in Payloads} :
       /\ queue' = Append(queue, Head(bytes))
       /\ left' = Tail(bytes)
       /\ pending' = Sent(Head(bytes))
  /\ UNCHANGED <<parser, ring, process, event, losses, handled>>

Wrap(i) == IF i = SERIAL_RX_BUFFER_SIZE THEN 0 ELSE i

\* comm_usb_send returns and the handler with it.
SendReturns ==
  /\ process' = "loop"
  /\ serial_rx_read_pos' = Wrap(serial_rx_read_pos)

HostReads ==
  /\ process = "send"
  /\ SendReturns
  /\ UNCHANGED <<parser, left, queue, serial_rx_buffer, serial_rx_write_pos,
                 event, history>>

\* USB_EVENT_SUSPEND, and the configuration that follows it, reset both
\* queues of the driver: a write that blocks returns, what was not read from
\* the input queue is gone, and the host starts over with another packet.
usb_event ==
  /\ losses < MaxLosses
  /\ left # <<>> \/ queue # <<>>
  /\ left' = <<>>
  /\ queue' = <<>>
  /\ losses' = losses + 1
  /\ \/ process = "send" /\ SendReturns
     \/ process # "send" /\ UNCHANGED <<process, serial_rx_read_pos>>
  /\ UNCHANGED <<parser, serial_rx_buffer, serial_rx_write_pos, event, pending,
                 handled>>

-----------------------------------------------------------------------------
(* The threads.                                                             *)

ReaderScheduled == process = "send" \/ (process = "wait" /\ ~event)

\* A store that makes the ring look empty loses all that is in it.
Overwritten(w) == w = Wrap(serial_rx_read_pos)

serial_read_thread ==
  /\ ReaderScheduled
  /\ queue # <<>>
  /\ queue' = Tail(queue)
  /\ serial_rx_buffer' = [serial_rx_buffer EXCEPT ![serial_rx_write_pos] = Head(queue)]
  /\ serial_rx_write_pos' = Wrap(serial_rx_write_pos + 1)
  /\ event' = TRUE
  /\ losses' = IF Overwritten(serial_rx_write_pos') THEN losses + 1 ELSE losses
  /\ losses' <= MaxLosses
  /\ UNCHANGED <<parser, left, serial_rx_read_pos, process, pending, handled>>

serial_process_wakes ==
  /\ process = "wait"
  /\ event
  /\ event' = FALSE
  /\ process' = "loop"
  /\ UNCHANGED <<parser, left, queue, ring, history>>

serial_process_waits ==
  /\ process = "loop"
  /\ serial_rx_read_pos = serial_rx_write_pos
  /\ process' = "wait"
  /\ UNCHANGED <<parser, left, queue, ring, event, history>>

\* Packets that were sent after the first one with payload p.
After(p) ==
  LET n == CHOOSE i \in DOMAIN pending :
             pending[i] = p /\ \A j \in 1..(i - 1) : pending[j] # p
  IN  SubSeq(pending, n + 1, Len(pending))

\* process_packet may block in comm_usb_send, with an index that is not yet
\* wrapped, or return at once.
Handled ==
  /\ accepted' # NoPacket
  /\ handled' = 1 - handled
  /\ pending' = IF \E i \in DOMAIN pending : pending[i] = accepted'
                THEN After(accepted') ELSE pending
  /\ \/ process' = "send" /\ serial_rx_read_pos' = serial_rx_read_pos + 1
     \/ process' = "loop" /\ serial_rx_read_pos' = Wrap(serial_rx_read_pos + 1)

serial_process_byte ==
  /\ process = "loop"
  /\ serial_rx_read_pos # serial_rx_write_pos
  /\ packet_process_byte(serial_rx_buffer[serial_rx_read_pos])
  /\ \/ Handled
     \/ /\ accepted' = NoPacket
        /\ serial_rx_read_pos' = Wrap(serial_rx_read_pos + 1)
        /\ UNCHANGED <<process, pending, handled>>
  /\ UNCHANGED <<left, queue, serial_rx_buffer, serial_rx_write_pos, event, losses>>

-----------------------------------------------------------------------------
\* The bus is connected and the threads have been created.
Init ==
  /\ PacketInit
  /\ left = <<>>
  /\ queue = <<>>
  /\ serial_rx_buffer = [i \in 0..(SERIAL_RX_BUFFER_SIZE - 1) |-> Plain(0)]
  /\ serial_rx_read_pos = 0
  /\ serial_rx_write_pos = 0
  /\ process = "wait"
  /\ event = FALSE
  /\ losses = 0
  /\ pending = <<>>
  /\ handled = 0

Processor == serial_process_wakes \/ serial_process_byte \/ serial_process_waits

Next == HostSends \/ HostReads \/ usb_event \/ serial_read_thread \/ Processor

\* Both threads run whenever the main thread blocks, which it does in every
\* pass of its loop.  Nothing is assumed about the host.
Spec ==
  /\ Init /\ [][Next]_vars
  /\ WF_vars(serial_read_thread) /\ WF_vars(Processor)

-----------------------------------------------------------------------------
(* Properties.                                                              *)

Link == INSTANCE PacketLink

\* Bytes, ring and parser implement a link of packets: what is handled was
\* sent, in order and at most once, whatever byte the line breaks off at,
\* however often the ring is overwritten, and although payloads may contain
\* the bytes of a header or of an end (packet.c:47).
ImplementsLink == Link!LinkSpec

Quiet ==
  /\ left = <<>> /\ queue = <<>>
  /\ process = "wait" /\ ~event

\* Without a disconnection or an overwritten ring every packet has been
\* handled when the line is quiet, and the parser expects the next one; and it
\* never leaves its buffer, as the lengths of whole packets are always found
\* where they are (packet.c:70, 78).
NothingLost ==
  losses = 0 =>
    /\ Quiet => pending = <<>> /\ process_state = "START"
    /\ process_state # "OVERRUN"

\* After bytes have been lost the parser finds its way back although no
\* packet is ever timed out: if the host goes on sending packets that
\* contain no end byte but their own, and reads the replies, it is heard
\* again and again, unless a length was put together from two packets and
\* leads out of the buffer (packet.c:96, comm_usb.c:435).
PlainPacket == \A i \in 1..(Len(left) - 1) : left[i].value # PACKET_END

Resynchronises ==
  /\ []<><<pending' # pending /\ handled' = handled>>_vars
  /\ <>[]PlainPacket
  /\ []<>(process # "send")
  => []<><<handled' # handled>>_vars \/ <>(process_state = "OVERRUN")
=============================================================================
