--------------------------------- MODULE Can ---------------------------------
(***************************************************************************)
(* The CAN receive path of comm_can.c: the receive FIFO of the controller  *)
(* and its interrupt, can_read_thread, which moves frames to the ring      *)
(* rx_frames, and can_process_thread, which takes them from there.         *)
(*                                                                         *)
(* can_read_thread has the highest priority: once woken nothing but the    *)
(* interrupt runs until it waits again.  can_process_thread shares its     *)
(* priority with the other threads, without a time slice: it runs only     *)
(* while they are blocked, and then until it waits itself.  The ring has   *)
(* no lock and no test for full.                                           *)
(*                                                                         *)
(* A frame is a header and a payload; the payload is the frame's number.   *)
(* Frames arrive from the time both threads wait: a frame takes 134 us on  *)
(* the bus, longer than main needs from canStart to its first wait.        *)
(***************************************************************************)
EXTENDS Integers, Sequences

CONSTANTS
  RX_FRAMES_SIZE,  \* slots of the ring: 100
  FifoDepth,       \* mailboxes of the receive FIFO: 3
  Headers,         \* headers on the bus: [ide, sender, receiver, id]
  CANDeviceID, CAN_BROADCAST,
  MaxFrames        \* frames in a behaviour

ASSUME CanAssumption ==
  /\ RX_FRAMES_SIZE \in Nat \ {0, 1}
  /\ FifoDepth \in Nat \ {0}
  /\ MaxFrames \in Nat

Slots == 0..(RX_FRAMES_SIZE - 1)
NoHeader == [ide |-> "STD", sender |-> 0, receiver |-> 0, id |-> "none"]
NoFrame == [header |-> NoHeader, data |-> 0]

VARIABLES
  fifo,       \* frames in the controller
  irq,        \* CAN_IER_FMPIE0: the receive interrupt is enabled
  reader,     \* can_read_thread: "wait" or "run"
  evR,        \* its pending event
  rx_frames, rx_frame_write, rx_frame_read,
  process,    \* can_process_thread: "wait", "test" or "copy"
  evP,        \* its pending event
  seen,       \* rx_frame_write as read by the first test of the loop
  hoisted,    \* the build keeps that value for the whole loop
  rxmsg,      \* header of the frame that is being copied
  infinity_current,
  others,     \* the other threads: "run", "blocked", or "spin" after main
  count,      \* history: frames sent so far
  log,        \* history: frames stored in the ring
  taken,      \* history: frames taken from it
  lapped      \* history: a frame that was not yet taken was overwritten

history == <<count, log, taken, lapped>>
ring == <<rx_frames, rx_frame_write, rx_frame_read>>
processor == <<process, seen, rxmsg, infinity_current>>
vars == <<fifo, irq, reader, evR, ring, processor, evP, hoisted, others, history>>

-----------------------------------------------------------------------------
(* The controller.                                                          *)

\* A full FIFO overwrites its newest frame (CAN_MCR_RFLM is not set).
Queued(f) ==
  IF Len(fifo) < FifoDepth THEN Append(fifo, f)
  ELSE [fifo EXCEPT ![FifoDepth] = f]

\* A frame arrives; the interrupt disables itself until the FIFO is empty
\* and signals can_read_thread.
FrameArrives ==
  /\ count < MaxFrames
  /\ count' = count + 1
  /\ \E h \in Headers : fifo' = Queued([header |-> h, data |-> count'])
  /\ evR' = (evR \/ irq)
  /\ irq' = FALSE
  /\ UNCHANGED <<reader, ring, processor, evP, hoisted, others, log, taken, lapped>>

\* The interrupt after canReceive has released a mailbox.
IrqStays == irq
IrqAfterReceive == irq \/ Tail(fifo) = <<>>

-----------------------------------------------------------------------------
(* can_read_thread.                                                         *)

can_read_wakes ==
  /\ reader = "wait"
  /\ evR
  /\ evR' = FALSE
  /\ reader' = "run"
  /\ UNCHANGED <<fifo, irq, ring, processor, evP, hoisted, others, history>>

WrapEarly(i) == IF i = RX_FRAMES_SIZE - 1 THEN 0 ELSE i
Wrap(i) == IF i = RX_FRAMES_SIZE THEN 0 ELSE i

\* chEvtSignal(process_tp, 1).
Signalled == TRUE

\* canReceive, the copy to the ring and the signal.
can_read_frame ==
  /\ reader = "run"
  /\ fifo # <<>>
  /\ fifo' = Tail(fifo)
  /\ irq' = IrqAfterReceive
  /\ rx_frames' = [rx_frames EXCEPT ![rx_frame_write] = Head(fifo)]
  /\ rx_frame_write' = Wrap(rx_frame_write + 1)
  /\ evP' = Signalled
  /\ log' = Append(log, Head(fifo))
  /\ lapped' = (lapped \/ Len(log') - taken >= RX_FRAMES_SIZE)
  /\ UNCHANGED <<reader, evR, rx_frame_read, processor, hoisted, others, count, taken>>

can_read_waits ==
  /\ reader = "run"
  /\ fifo = <<>>
  /\ reader' = "wait"
  /\ UNCHANGED <<fifo, irq, evR, ring, processor, evP, hoisted, others, history>>

-----------------------------------------------------------------------------
(* can_process_thread.                                                      *)

\* A thread of normal priority may run; can_process_thread does so if the
\* others are blocked.
NotPreempted == reader = "wait" /\ ~evR
Scheduled == NotPreempted /\ others = "blocked"

can_process_wakes ==
  /\ Scheduled
  /\ process = "wait"
  /\ evP
  /\ evP' = FALSE
  /\ process' = "test"
  /\ seen' = rx_frame_write
  /\ UNCHANGED <<fifo, irq, reader, evR, ring, rxmsg, infinity_current,
                 hoisted, others, history>>

\* rx_frame_write is not volatile: a build with link time optimisation may
\* read it once before the loop.
AlwaysSeen == seen
LoopEnd == IF hoisted THEN seen ELSE rx_frame_write

can_process_test ==
  /\ Scheduled
  /\ process = "test"
  /\ \/ /\ rx_frame_read = LoopEnd
        /\ process' = "wait"
        /\ UNCHANGED rxmsg
     \/ /\ rx_frame_read # LoopEnd
        /\ process' = "copy"
        /\ rxmsg' = rx_frames[rx_frame_read].header
  /\ UNCHANGED <<fifo, irq, reader, evR, ring, seen, infinity_current, evP,
                 hoisted, others, history>>

\* The filter of lines 85 to 93.
Accepted(h) ==
  /\ h.ide = "EXT"
  /\ h.receiver \in {CAN_BROADCAST, CANDeviceID}
  /\ h.sender # CANDeviceID
  /\ h.id = "STATUS"

\* The rest of the copy, which can_read_thread may have preempted, and the
\* handling of the frame.
can_process_frame ==
  /\ Scheduled
  /\ process = "copy"
  /\ infinity_current' = IF Accepted(rxmsg) THEN rx_frames[rx_frame_read].data
                         ELSE infinity_current
  /\ rx_frame_read' = Wrap(rx_frame_read + 1)
  /\ process' = "test"
  /\ taken' = taken + 1
  /\ UNCHANGED <<fifo, irq, reader, evR, rx_frames, rx_frame_write, rxmsg, seen,
                 evP, hoisted, others, count, log, lapped>>

-----------------------------------------------------------------------------
(* The other threads of normal priority.                                    *)

\* They run, block, and spin once main has left its loop.  The ready list is
\* a queue: a thread that wakes up runs after can_process_thread if that is
\* ready already.
OthersBlock ==
  /\ NotPreempted
  /\ others = "run"
  /\ others' = "blocked"
  /\ UNCHANGED <<fifo, irq, reader, evR, ring, processor, evP, hoisted, history>>

OthersRun ==
  /\ Scheduled
  /\ process = "wait" /\ ~evP
  /\ others' = "run"
  /\ UNCHANGED <<fifo, irq, reader, evR, ring, processor, evP, hoisted, history>>

MainEnds ==
  /\ NotPreempted
  /\ others = "run"
  /\ others' = "spin"
  /\ UNCHANGED <<fifo, irq, reader, evR, ring, processor, evP, hoisted, history>>

-----------------------------------------------------------------------------
\* After comm_can_init and the first wait of main.
Init ==
  /\ fifo = <<>> /\ irq = TRUE
  /\ reader = "wait" /\ evR = FALSE
  /\ rx_frames = [s \in Slots |-> NoFrame]
  /\ rx_frame_write = 0 /\ rx_frame_read = 0
  /\ process = "wait" /\ evP = FALSE
  /\ seen = 0 /\ hoisted \in BOOLEAN
  /\ rxmsg = NoHeader
  /\ infinity_current = 0
  /\ others = "run"
  /\ count = 0 /\ log = <<>> /\ taken = 0 /\ lapped = FALSE

Reader == can_read_wakes \/ can_read_frame \/ can_read_waits
Processor == can_process_wakes \/ can_process_test \/ can_process_frame

Next == FrameArrives \/ Reader \/ Processor \/ OthersBlock \/ OthersRun \/ MainEnds

\* Both threads run when the scheduler picks them; the other threads block
\* in every pass: the main loop converts, and transfers over SPI and I2C.
Spec ==
  /\ Init /\ [][Next]_vars
  /\ WF_vars(Reader) /\ WF_vars(Processor) /\ WF_vars(OthersBlock)

-----------------------------------------------------------------------------
(* Properties.                                                              *)

\* v is the payload that the first n frames of the log leave in
\* infinity_current: that of the last one for this device, if there is one.
LeavesCurrent(n, v) ==
  \/ v = 0 /\ \A k \in 1..n : ~Accepted(log[k].header)
  \/ \E k \in 1..n :
       /\ Accepted(log[k].header) /\ v = log[k].data
       /\ \A j \in (k + 1)..n : ~Accepted(log[j].header)

\* As long as the ring is not lapped every frame stored in it is taken once
\* and in order, whatever can_read_thread preempts: infinity_current is the
\* payload of the last frame for this device, and what is left in the ring
\* are the frames not yet taken (comm_can.c:56, 83).
TakenOnce ==
  ~lapped =>
    /\ taken <= Len(log) /\ LeavesCurrent(taken, infinity_current)
    /\ (rx_frame_read + (Len(log) - taken)) % RX_FRAMES_SIZE = rx_frame_write

\* infinity_current never goes back to an older frame, not even after the
\* ring was lapped, unless the build reads rx_frame_write only once
\* (comm_can.c:82).
NeverBack == [][~hoisted => infinity_current' >= infinity_current]_vars

\* The controller never goes deaf: what it holds is read, although its
\* interrupt stays disabled until it is empty (comm_can.c:49); and what is in
\* the ring is taken: no signal is lost between the test of comm_can.c:82 and
\* the wait of line 79.
FramesDrained ==
  /\ fifo # <<>> ~> fifo = <<>>
  /\ rx_frame_read # rx_frame_write ~>
       rx_frame_read = rx_frame_write \/ others = "spin"
==============================================================================
