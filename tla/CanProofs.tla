----------------------------- MODULE CanProofs ------------------------------
(***************************************************************************)
(* Proofs about the CAN receive path, for a ring and a FIFO of any size,   *)
(* any headers and any number of frames.                                   *)
(***************************************************************************)
EXTENDS Can, TLAPS

Frames == [header : Headers, data : Nat]

\* Indices are the counts of frames, modulo the size of the ring.
Indices ==
  /\ fifo \in Seq(Frames) /\ log \in Seq(Frames) /\ Len(fifo) <= FifoDepth
  /\ count \in Nat /\ taken \in Nat
  /\ process \in {"wait", "test", "copy"}
  /\ DOMAIN rx_frames = Slots
  /\ rx_frame_write = Len(log) % RX_FRAMES_SIZE
  /\ rx_frame_read = taken % RX_FRAMES_SIZE

\* The ring holds the newest frames.
RingHolds ==
  \A j \in Nat : j < Len(log) /\ Len(log) <= j + RX_FRAMES_SIZE =>
    rx_frames[j % RX_FRAMES_SIZE] = log[j + 1]

\* The loop runs to where the ring was written, or, if that is read once, to
\* where it was written when the thread woke up.
LoopBehind ==
  ~lapped =>
    /\ taken <= Len(log) /\ Len(log) < taken + RX_FRAMES_SIZE
    /\ process = "copy" =>
         taken < Len(log) /\ rxmsg = log[taken + 1].header
    /\ hoisted /\ process # "wait" =>
         \E e \in taken..Len(log) :
           seen = e % RX_FRAMES_SIZE /\ (process = "copy" => taken < e)

Current == ~lapped => LeavesCurrent(taken, infinity_current)

\* Frames are numbered in the order they are stored.
Ordered ==
  /\ \A j, k \in 1..Len(log) : j < k => log[j].data <= log[k].data
  /\ \A j, k \in 1..Len(fifo) : j < k => fifo[j].data <= fifo[k].data
  /\ \A j \in 1..Len(log), k \in 1..Len(fifo) : log[j].data <= fifo[k].data
  /\ \A k \in 1..Len(log) : log[k].data <= count
  /\ \A k \in 1..Len(fifo) : fifo[k].data <= count

\* Slots from rx_frame_read to rx_frame_write; all of them, if the frame that
\* is being copied has been overtaken.
Ahead ==
  LET d == (Len(log) - taken) % RX_FRAMES_SIZE
  IN  IF process = "copy" /\ d = 0 THEN RX_FRAMES_SIZE ELSE d

\* Everything between them is newer than infinity_current.
NewerAhead ==
  ~hoisted =>
    /\ infinity_current \in Nat /\ infinity_current <= count
    /\ \A k \in 1..Len(fifo) : infinity_current <= fifo[k].data
    /\ taken <= Len(log)
    /\ process = "copy" => taken < Len(log)
    /\ \A j \in 1..Len(log) :
         j > Len(log) - Ahead => infinity_current <= log[j].data

-----------------------------------------------------------------------------
(* Arithmetic modulo the size of the ring.                                  *)

LEMMA DivMod ==
  ASSUME NEW n \in Nat \ {0}, NEW x \in Nat
  PROVE  /\ x % n \in 0..(n - 1) /\ x \div n \in Nat
         /\ x = n * (x \div n) + (x % n)
OBVIOUS

\* A multiple of n that is smaller than n is zero.
LEMMA SmallMultiple ==
  ASSUME NEW n \in Nat \ {0}, NEW k \in Int, 0 - n < n * k, n * k < n
  PROVE  k = 0
<1>1. k >= 1 => n * k >= n
  OBVIOUS
<1>2. k <= 0 - 1 => n * k <= 0 - n
  OBVIOUS
<1> QED
  BY <1>1, <1>2

LEMMA ModUnique ==
  ASSUME NEW n \in Nat \ {0}, NEW x \in Nat, NEW q \in Int, NEW r \in 0..(n - 1),
         x = n * q + r
  PROVE  x % n = r
<1> DEFINE p == x \div n
           s == x % n
<1>1. s \in 0..(n - 1) /\ p \in Nat /\ x = n * p + s
  BY DivMod
<1> HIDE DEF p, s
<1>2. n * (p - q) = n * p - n * q /\ n * p \in Int /\ n * q \in Int
  BY <1>1
<1>3. n * (p - q) = r - s
  BY <1>1, <1>2
<1>4. 0 - n < r - s /\ r - s < n
  BY <1>1
<1>5. p - q = 0
  BY <1>1, <1>3, <1>4, SmallMultiple
<1>6. r - s = 0
  BY <1>3, <1>5
<1> QED
  BY <1>1, <1>6 DEF s

LEMMA ModNext ==
  ASSUME NEW n \in Nat \ {0}, NEW x \in Nat
  PROVE  (x + 1) % n = IF (x % n) + 1 = n THEN 0 ELSE (x % n) + 1
<1> DEFINE p == x \div n
           s == x % n
<1>1. s \in 0..(n - 1) /\ p \in Nat /\ x = n * p + s
  BY DivMod
<1> HIDE DEF p, s
<1>2. CASE s + 1 = n
  <2>1. /\ x + 1 = n * (p + 1) + 0 /\ 0 \in 0..(n - 1)
        /\ x + 1 \in Nat /\ p + 1 \in Int
    BY <1>1, <1>2
  <2>2. (x + 1) % n = 0
    BY <2>1, ModUnique
  <2> QED
    BY <1>2, <2>2 DEF s
<1>3. CASE s + 1 # n
  <2>1. /\ x + 1 = n * p + (s + 1) /\ s + 1 \in 0..(n - 1)
        /\ x + 1 \in Nat /\ p \in Int
    BY <1>1, <1>3
  <2>2. (x + 1) % n = s + 1
    BY <2>1, ModUnique
  <2> QED
    BY <1>3, <2>2 DEF s
<1> QED
  BY <1>2, <1>3

\* Fewer than n steps further on is another slot.
LEMMA ModDistinct ==
  ASSUME NEW n \in Nat \ {0}, NEW j \in Nat, NEW k \in Nat, j < k, k < j + n
  PROVE  j % n # k % n
<1> SUFFICES ASSUME j % n = k % n PROVE FALSE
  OBVIOUS
<1> DEFINE p == j \div n
           q == k \div n
           s == j % n
<1>1. /\ s \in 0..(n - 1) /\ p \in Nat /\ j = n * p + s
      /\ q \in Nat /\ k = n * q + s
  BY DivMod
<1> HIDE DEF p, q, s
<1>2. n * (q - p) = n * q - n * p /\ n * p \in Int /\ n * q \in Int
  BY <1>1
<1>3. n * (q - p) = k - j
  BY <1>1, <1>2
<1>4. q - p = 0
  BY <1>1, <1>3, SmallMultiple
<1> QED
  BY <1>3, <1>4

\* The distance of two slots.
LEMMA ModDistance ==
  ASSUME NEW n \in Nat \ {0}, NEW t \in Nat, NEW l \in Nat, t <= l
  PROVE  /\ ((t % n) + (l - t)) % n = l % n
         /\ (l - t) % n \in 0..(n - 1)
         /\ (l - t) % n <= l - t
         /\ (l - ((l - t) % n)) % n = t % n
         /\ (l - t) % n = 0 /\ t < l => n <= l - t /\ (l - n) % n = t % n
<1> DEFINE p == t \div n
           s == t % n
           q == (l - t) \div n
           d == (l - t) % n
<1>1. /\ s \in 0..(n - 1) /\ p \in Nat /\ t = n * p + s
  BY DivMod
<1>2. l - t \in Nat
  OBVIOUS
<1>3. d \in 0..(n - 1) /\ q \in Nat /\ l - t = n * q + d
  BY <1>2, DivMod
<1> HIDE DEF p, s, q, d
<1>4. n * p \in Nat /\ n * q \in Nat /\ n * (p + q) = n * p + n * q
  BY <1>1, <1>3
<1>5. d <= l - t
  BY <1>3, <1>4
<1>6. (l - d) % n = s
  <2>1. l - d = n * (p + q) + s /\ l - d \in Nat /\ p + q \in Int
    BY <1>1, <1>3, <1>4, <1>5
  <2> QED
    BY <1>1, <2>1, ModUnique
<1>7. (s + (l - t)) % n = l % n
  <2> DEFINE r == l % n
             m == l \div n
  <2>1. r \in 0..(n - 1) /\ m \in Nat /\ l = n * m + r
    BY DivMod
  <2> HIDE DEF r, m
  <2>2. n * m \in Nat /\ n * (m - p) = n * m - n * p
    BY <1>1, <2>1
  <2>3. s + (l - t) = n * (m - p) + r /\ s + (l - t) \in Nat /\ m - p \in Int
    BY <1>1, <1>2, <1>4, <2>1, <2>2
  <2> QED
    BY <2>1, <2>3, ModUnique DEF r
<1>8. ASSUME d = 0, t < l PROVE n <= l - t /\ (l - n) % n = s
  <2>1. q # 0
    BY <1>3, <1>8
  <2>2. n * q >= n /\ n * (q - 1) = n * q - n
    BY <1>3, <2>1
  <2>3. n <= l - t
    BY <1>3, <1>4, <1>8, <2>2
  <2>4. n * (p + (q - 1)) = n * p + n * (q - 1) /\ n * (q - 1) \in Int
    BY <1>1, <1>3
  <2>5. l - n = n * (p + (q - 1)) + s /\ l - n \in Nat /\ p + (q - 1) \in Int
    BY <1>1, <1>3, <1>4, <1>8, <2>2, <2>3, <2>4
  <2> QED
    BY <1>1, <2>3, <2>5, ModUnique
<1> QED
  BY <1>3, <1>5, <1>6, <1>7, <1>8 DEF d, s

-----------------------------------------------------------------------------
(* The FIFO, the log and the indices.                                       *)

\* A frame that arrives is the newest in the FIFO, or replaces it.
LEMMA Queues ==
  ASSUME Indices, NEW f \in Frames
  PROVE  /\ Queued(f) \in Seq(Frames) /\ Len(Queued(f)) <= FifoDepth
         /\ \A k \in 1..Len(Queued(f)) :
              \/ k = Len(Queued(f)) /\ Queued(f)[k] = f
              \/ k < Len(Queued(f)) /\ k \in 1..Len(fifo) /\ Queued(f)[k] = fifo[k]
<1> DEFINE F == Frames
<1>0. /\ fifo \in Seq(F) /\ Len(fifo) \in Nat /\ Len(fifo) <= FifoDepth
      /\ FifoDepth \in Nat \ {0} /\ f \in F
  BY CanAssumption DEF Indices
<1> HIDE DEF F
<1>1. CASE Len(fifo) < FifoDepth
  <2>1. Queued(f) = Append(fifo, f)
    BY <1>1 DEF Queued
  <2> QED
    BY <1>0, <1>1, <2>1 DEF F
<1>2. CASE ~(Len(fifo) < FifoDepth)
  <2>1. Queued(f) = [fifo EXCEPT ![FifoDepth] = f] /\ Len(fifo) = FifoDepth
    BY <1>0, <1>2 DEF Queued
  <2>2. Queued(f) \in Seq(F) /\ Len(Queued(f)) = Len(fifo)
    BY <1>0, <2>1
  <2>3. \A k \in 1..Len(fifo) :
          Queued(f)[k] = IF k = FifoDepth THEN f ELSE fifo[k]
    BY <1>0, <2>1
  <2> QED
    BY <1>0, <2>1, <2>2, <2>3 DEF F
<1> QED
  BY <1>1, <1>2

\* A frame that is read goes from the FIFO to the log and the ring.
LEMMA Stores ==
  ASSUME Indices, can_read_frame
  PROVE  /\ fifo' \in Seq(Frames) /\ log' \in Seq(Frames)
         /\ Len(fifo) \in Nat /\ Len(fifo) >= 1 /\ Len(fifo') = Len(fifo) - 1
         /\ \A k \in 1..Len(fifo') : fifo'[k] = fifo[k + 1]
         /\ fifo[1] \in Frames
         /\ Len(log) \in Nat /\ Len(log') = Len(log) + 1
         /\ \A k \in 1..Len(log) : log'[k] = log[k]
         /\ log'[Len(log) + 1] = fifo[1]
         /\ rx_frames' = [rx_frames EXCEPT ![rx_frame_write] = fifo[1]]
         /\ rx_frame_write' = Wrap(rx_frame_write + 1)
         /\ ~lapped' => ~lapped /\ Len(log) + 1 < taken + RX_FRAMES_SIZE
<1> DEFINE F == Frames
<1>0. fifo \in Seq(F) /\ log \in Seq(F) /\ fifo # <<>>
  BY DEF Indices, can_read_frame
<1> HIDE DEF F
<1>1. Head(fifo) = fifo[1] /\ fifo' = Tail(fifo) /\ log' = Append(log, fifo[1])
  BY <1>0 DEF can_read_frame
<1>2. /\ fifo' \in Seq(F) /\ Len(fifo) \in Nat /\ Len(fifo) >= 1
      /\ Len(fifo') = Len(fifo) - 1 /\ fifo[1] \in F
      /\ \A k \in 1..Len(fifo') : fifo'[k] = fifo[k + 1]
  BY <1>0, <1>1
<1>3. /\ log' \in Seq(F) /\ Len(log) \in Nat /\ Len(log') = Len(log) + 1
      /\ \A k \in 1..Len(log) : log'[k] = log[k]
      /\ log'[Len(log) + 1] = fifo[1]
  BY <1>0, <1>1, <1>2
<1>4. /\ rx_frames' = [rx_frames EXCEPT ![rx_frame_write] = fifo[1]]
      /\ rx_frame_write' = Wrap(rx_frame_write + 1)
      /\ lapped' = (lapped \/ Len(log') - taken >= RX_FRAMES_SIZE)
  BY <1>1, Zenon DEF can_read_frame
<1>5. ~lapped' => ~lapped /\ ~(Len(log') - taken >= RX_FRAMES_SIZE)
  BY <1>4, Zenon
<1>6. ~(Len(log') - taken >= RX_FRAMES_SIZE) => Len(log) + 1 < taken + RX_FRAMES_SIZE
  BY <1>3, CanAssumption DEF Indices
<1> QED
  BY <1>2, <1>3, <1>4, <1>5, <1>6 DEF F

\* The index after the slot of frame number x is the slot of the next one.
LEMMA WrapNext ==
  ASSUME NEW x \in Nat
  PROVE  /\ Wrap((x % RX_FRAMES_SIZE) + 1) = (x + 1) % RX_FRAMES_SIZE
         /\ x % RX_FRAMES_SIZE \in Slots
<1>1. RX_FRAMES_SIZE \in Nat \ {0}
  BY CanAssumption
<1> QED
  BY <1>1, DivMod, ModNext DEF Wrap, Slots

\* Steps that touch none of this.
Quiet == UNCHANGED <<ring, processor, hoisted, history>>

LEMMA Steps ==
  [Next]_vars =>
    \/ FrameArrives \/ can_read_frame \/ can_process_wakes
    \/ can_process_test \/ can_process_frame
    \/ Quiet /\ fifo' = fifo
BY DEF Next, Reader, Processor, can_read_wakes, can_read_waits, OthersBlock,
       OthersRun, MainEnds, vars, Quiet

LEMMA IndicesKept == Indices /\ [Next]_vars => Indices'
<1> SUFFICES ASSUME Indices, [Next]_vars PROVE Indices'
  OBVIOUS
<1> USE DEF ring, processor, history
<1>1. CASE FrameArrives
  <2>1. PICK h \in Headers : fifo' = Queued([header |-> h, data |-> count'])
    BY <1>1 DEF FrameArrives
  <2>2. count' \in Nat /\ UNCHANGED <<log, taken, process, ring>>
    BY <1>1 DEF FrameArrives, Indices
  <2>3. [header |-> h, data |-> count'] \in Frames
    BY <2>2 DEF Frames
  <2>4. fifo' \in Seq(Frames) /\ Len(fifo') <= FifoDepth
    BY <2>1, <2>3, Queues
  <2> QED
    BY <2>2, <2>4 DEF Indices
<1>2. CASE can_read_frame
  <2>1. /\ fifo' \in Seq(Frames) /\ log' \in Seq(Frames)
        /\ Len(fifo') = Len(fifo) - 1 /\ Len(fifo) \in Nat
        /\ Len(log') = Len(log) + 1 /\ Len(log) \in Nat
        /\ DOMAIN rx_frames' = DOMAIN rx_frames
        /\ rx_frame_write' = Wrap(rx_frame_write + 1)
    BY <1>2, Stores
  <2>2. UNCHANGED <<count, taken, process, rx_frame_read>>
    BY <1>2 DEF can_read_frame
  <2>3. rx_frame_write' = Len(log') % RX_FRAMES_SIZE
    BY <2>1, WrapNext DEF Indices
  <2>4. Len(fifo') <= FifoDepth
    BY <2>1, CanAssumption DEF Indices
  <2> QED
    BY <2>1, <2>2, <2>3, <2>4 DEF Indices
<1>3. CASE can_process_wakes
  BY <1>3 DEF can_process_wakes, Indices
<1>4. CASE can_process_test
  BY <1>4 DEF can_process_test, Indices
<1>5. CASE can_process_frame
  <2>1. /\ UNCHANGED <<fifo, log, count, rx_frames, rx_frame_write>>
        /\ taken' = taken + 1 /\ process' = "test"
        /\ rx_frame_read' = Wrap(rx_frame_read + 1)
    BY <1>5 DEF can_process_frame
  <2>2. rx_frame_read' = taken' % RX_FRAMES_SIZE /\ taken' \in Nat
    BY <2>1, WrapNext DEF Indices
  <2> QED
    BY <2>1, <2>2 DEF Indices
<1>6. CASE Quiet /\ fifo' = fifo
  BY <1>6 DEF Quiet, Indices
<1> QED
  BY <1>1, <1>2, <1>3, <1>4, <1>5, <1>6, Steps

\* A slot that is written does not hold one of the newest frames, so the ring
\* always holds as many of them as it has slots.
LEMMA RingKept == Indices /\ RingHolds /\ [Next]_vars => RingHolds'
<1> SUFFICES ASSUME Indices, RingHolds, [Next]_vars PROVE RingHolds'
  OBVIOUS
<1> USE DEF ring, processor, history
<1> DEFINE N == RX_FRAMES_SIZE
<1>0. N \in Nat \ {0}
  BY CanAssumption
<1>1. CASE can_read_frame
  <2> SUFFICES ASSUME NEW j \in Nat, j < Len(log'), Len(log') <= j + N
               PROVE  rx_frames'[j % N] = log'[j + 1]
    BY DEF RingHolds
  <2>1. /\ Len(log) \in Nat /\ Len(log') = Len(log) + 1
        /\ \A k \in 1..Len(log) : log'[k] = log[k]
        /\ log'[Len(log) + 1] = fifo[1]
        /\ rx_frames' = [rx_frames EXCEPT ![rx_frame_write] = fifo[1]]
    BY <1>1, Stores
  <2>2. /\ rx_frame_write = Len(log) % N /\ rx_frame_write \in Slots
        /\ DOMAIN rx_frames = Slots /\ j % N \in Slots
    BY <2>1, WrapNext DEF Indices
  <2>3. CASE j = Len(log)
    BY <2>1, <2>2, <2>3
  <2>4. CASE j # Len(log)
    <3>1. j < Len(log) /\ Len(log) <= j + N /\ Len(log) < j + N
      BY <1>0, <2>1, <2>4
    <3>2. j % N # rx_frame_write
      BY <1>0, <2>1, <2>2, <3>1, ModDistinct
    <3>3. rx_frames'[j % N] = rx_frames[j % N]
      BY <2>1, <2>2, <3>2
    <3>4. log'[j + 1] = log[j + 1]
      BY <2>1, <3>1
    <3>5. rx_frames[j % N] = log[j + 1]
      BY <3>1 DEF RingHolds
    <3> QED
      BY <3>3, <3>4, <3>5
  <2> QED
    BY <2>3, <2>4
<1>2. CASE UNCHANGED <<rx_frames, log>>
  BY <1>2 DEF RingHolds
<1> QED
  BY <1>1, <1>2, Steps
  DEF FrameArrives, can_process_wakes, can_process_test, can_process_frame, Quiet

-----------------------------------------------------------------------------
(* Frames are taken once.                                                   *)

LEMMA LoopBehindKept ==
  Indices /\ RingHolds /\ LoopBehind /\ [Next]_vars => LoopBehind'
<1> SUFFICES ASSUME Indices, RingHolds, LoopBehind, [Next]_vars, ~lapped'
             PROVE  LoopBehind'
  BY DEF LoopBehind
<1> USE DEF ring, processor, history
<1> DEFINE N == RX_FRAMES_SIZE
<1>0. N \in Nat \ {0, 1} /\ Len(log) \in Nat /\ taken \in Nat
  BY CanAssumption DEF Indices
<1>1. ASSUME UNCHANGED <<log, taken, lapped, rxmsg, process, hoisted, seen>>
      PROVE  LoopBehind'
  BY <1>1 DEF LoopBehind
<1>2. CASE FrameArrives
  BY <1>1, <1>2 DEF FrameArrives
<1>3. CASE can_read_frame
  <2>1. /\ Len(log') = Len(log) + 1 /\ ~lapped
        /\ \A k \in 1..Len(log) : log'[k] = log[k]
        /\ Len(log) + 1 < taken + N
        /\ UNCHANGED <<taken, rxmsg, process, hoisted, seen>>
    BY <1>3, Stores DEF can_read_frame
  <2>2. /\ taken <= Len(log)
        /\ process = "copy" => taken < Len(log) /\ rxmsg = log[taken + 1].header
        /\ hoisted /\ process # "wait" =>
             \E e \in taken..Len(log) :
               seen = e % N /\ (process = "copy" => taken < e)
    BY <2>1 DEF LoopBehind
  <2>3. process = "copy" => rxmsg = log'[taken + 1].header
    BY <1>0, <2>1, <2>2
  <2>4. taken..Len(log) \subseteq taken..Len(log')
    BY <1>0, <2>1
  <2>5. /\ taken' <= Len(log') /\ Len(log') < taken' + N
        /\ process' = "copy" => taken' < Len(log')
    BY <1>0, <2>1, <2>2
  <2>6. hoisted' /\ process' # "wait" =>
          \E e \in taken'..Len(log') :
            seen' = e % N /\ (process' = "copy" => taken' < e)
    BY <2>1, <2>2, <2>4
  <2> QED
    BY <2>1, <2>3, <2>5, <2>6 DEF LoopBehind
<1>4. CASE can_process_wakes
  <2>1. /\ seen' = Len(log) % N /\ process' = "test"
        /\ UNCHANGED <<log, taken, lapped, rxmsg, hoisted>>
    BY <1>4 DEF can_process_wakes, Indices
  <2>2. taken <= Len(log) /\ Len(log) < taken + N
    BY <2>1 DEF LoopBehind
  <2>3. Len(log) \in taken..Len(log)
    BY <1>0, <2>2
  <2> QED
    BY <2>1, <2>2, <2>3 DEF LoopBehind
<1>5. CASE can_process_test
  <2>1. UNCHANGED <<log, taken, lapped, hoisted, seen>> /\ process = "test"
    BY <1>5 DEF can_process_test
  <2>2. /\ taken <= Len(log) /\ Len(log) < taken + N
        /\ hoisted => \E e \in taken..Len(log) : seen = e % N
    BY <2>1 DEF LoopBehind
  <2>3. CASE process' = "wait"
    BY <2>1, <2>2, <2>3 DEF LoopBehind
  <2>4. CASE rx_frame_read # LoopEnd /\ process' = "copy"
    <3>1. rxmsg' = rx_frames[taken % N].header
      BY <1>5, <2>4 DEF can_process_test, Indices
    <3>2. taken < Len(log)
      <4>1. CASE hoisted
        <5>1. PICK e \in taken..Len(log) : seen = e % N
          BY <2>2, <4>1
        <5>2. e # taken
          BY <2>4, <4>1, <5>1 DEF LoopEnd, Indices
        <5> QED
          BY <1>0, <5>1, <5>2
      <4>2. CASE ~hoisted
        <5>1. Len(log) # taken
          BY <2>4, <4>2 DEF LoopEnd, Indices
        <5> QED
          BY <1>0, <2>2, <5>1
      <4> QED
        BY <4>1, <4>2
    <3>3. rxmsg' = log[taken + 1].header
      BY <1>0, <2>2, <3>1, <3>2 DEF RingHolds
    <3>4. hoisted => \E e \in taken..Len(log) : seen = e % N /\ taken < e
      <4> SUFFICES ASSUME hoisted PROVE \E e \in taken..Len(log) : seen = e % N /\ taken < e
        OBVIOUS
      <4>1. PICK e \in taken..Len(log) : seen = e % N
        BY <2>2
      <4>2. e # taken
        BY <2>4, <4>1 DEF LoopEnd, Indices
      <4> QED
        BY <1>0, <4>1, <4>2
    <3> QED
      BY <2>1, <2>2, <2>4, <3>2, <3>3, <3>4 DEF LoopBehind
  <2> QED
    BY <1>5, <2>3, <2>4 DEF can_process_test
<1>6. CASE can_process_frame
  <2>1. /\ UNCHANGED <<log, lapped, hoisted, seen>> /\ process = "copy"
        /\ taken' = taken + 1 /\ process' = "test"
    BY <1>6 DEF can_process_frame
  <2>2. /\ taken < Len(log) /\ Len(log) < taken + N
        /\ hoisted => \E e \in taken..Len(log) : seen = e % N /\ taken < e
    BY <2>1 DEF LoopBehind
  <2>3. \A e \in taken..Len(log) : taken < e => e \in (taken + 1)..Len(log)
    BY <1>0
  <2>4. taken + 1 <= Len(log) /\ Len(log) < (taken + 1) + N
    BY <1>0, <2>2
  <2> QED
    BY <2>1, <2>2, <2>3, <2>4 DEF LoopBehind
<1>7. CASE Quiet
  BY <1>1, <1>7 DEF Quiet
<1> QED
  BY <1>2, <1>3, <1>4, <1>5, <1>6, <1>7, Steps

LEMMA CurrentKept ==
  Indices /\ RingHolds /\ LoopBehind /\ Current /\ [Next]_vars => Current'
<1> SUFFICES ASSUME Indices, RingHolds, LoopBehind, Current, [Next]_vars, ~lapped'
             PROVE  LeavesCurrent(taken, infinity_current)'
  BY DEF Current
<1> USE DEF ring, processor, history
<1> DEFINE N == RX_FRAMES_SIZE
<1>0. N \in Nat \ {0, 1} /\ Len(log) \in Nat /\ taken \in Nat
  BY CanAssumption DEF Indices
<1>1. CASE can_read_frame
  <2>1. /\ ~lapped /\ \A k \in 1..Len(log) : log'[k] = log[k]
        /\ UNCHANGED <<taken, infinity_current>>
    BY <1>1, Stores DEF can_read_frame
  <2>2. LeavesCurrent(taken, infinity_current) /\ taken <= Len(log)
    BY <2>1 DEF Current, LoopBehind
  <2>3. \A k \in 1..taken : log'[k] = log[k]
    BY <1>0, <2>1, <2>2
  <2>4. \A k \in 1..taken : \A j \in (k + 1)..taken : log'[j] = log[j]
    BY <1>0, <2>3
  <2> QED
    BY <2>1, <2>2, <2>3, <2>4 DEF LeavesCurrent, Accepted
<1>2. CASE can_process_frame
  <2>1. /\ UNCHANGED <<log, lapped>> /\ process = "copy" /\ taken' = taken + 1
        /\ infinity_current' = IF Accepted(rxmsg) THEN rx_frames[taken % N].data
                               ELSE infinity_current
    BY <1>2 DEF can_process_frame, Indices
  <2>2. /\ taken < Len(log) /\ Len(log) < taken + N
        /\ rxmsg = log[taken + 1].header
        /\ LeavesCurrent(taken, infinity_current)
    BY <2>1 DEF LoopBehind, Current
  <2>3. rx_frames[taken % N] = log[taken + 1]
    BY <1>0, <2>2 DEF RingHolds
  <2>4. taken + 1 \in 1..(taken + 1) /\ 1..(taken + 1) = (1..taken) \union {taken + 1}
    BY <1>0
  <2>5. CASE Accepted(log[taken + 1].header)
    <3>1. infinity_current' = log[taken + 1].data
      BY <2>1, <2>2, <2>3, <2>5
    <3>2. ((taken + 1) + 1)..(taken + 1) = {}
      BY <1>0
    <3> QED
      BY <2>1, <2>4, <2>5, <3>1, <3>2 DEF LeavesCurrent, Accepted
  <2>6. CASE ~Accepted(log[taken + 1].header)
    <3>1. infinity_current' = infinity_current
      BY <2>1, <2>2, <2>6
    <3>2. \A k \in 1..taken : \A j \in (k + 1)..(taken + 1) :
            j \in (k + 1)..taken \/ j = taken + 1
      BY <1>0
    <3> QED
      BY <2>1, <2>2, <2>4, <2>6, <3>1, <3>2 DEF LeavesCurrent, Accepted
  <2> QED
    BY <2>5, <2>6
<1>3. CASE UNCHANGED <<log, taken, lapped, infinity_current>>
  BY <1>3 DEF Current, LeavesCurrent, Accepted
<1> QED
  BY <1>1, <1>2, <1>3, Steps
  DEF FrameArrives, can_process_wakes, can_process_test, Quiet

\* Indices, the ring and the loop, which hold together.
LEMMA RingInvariant == Spec => [](Indices /\ RingHolds /\ LoopBehind /\ Current)
<1>1. Init => Indices /\ RingHolds /\ LoopBehind /\ Current
  <2> SUFFICES ASSUME Init PROVE Indices /\ RingHolds /\ LoopBehind /\ Current
    OBVIOUS
  <2>0. RX_FRAMES_SIZE \in Nat \ {0, 1} /\ FifoDepth \in Nat
    BY CanAssumption
  <2>1. 0 % RX_FRAMES_SIZE = 0
    BY <2>0, ModUnique
  <2>2. Indices
    BY <2>0, <2>1 DEF Init, Indices
  <2>3. RingHolds
    BY DEF Init, RingHolds
  <2>4. LoopBehind
    BY <2>0 DEF Init, LoopBehind
  <2>5. Current
    BY DEF Init, Current, LeavesCurrent
  <2> QED
    BY <2>2, <2>3, <2>4, <2>5
<1> QED
  BY <1>1, IndicesKept, RingKept, LoopBehindKept, CurrentKept, PTL DEF Spec

\* As long as the ring is not lapped every frame is taken once and in order,
\* from whatever place the reading thread preempts the copy and whether or not
\* the build reads rx_frame_write again (comm_can.c:56, 83).
THEOREM FramesTakenOnce == Spec => []TakenOnce
<1>1. Indices /\ LoopBehind /\ Current => TakenOnce
  <2> SUFFICES ASSUME Indices, LoopBehind, Current, ~lapped
               PROVE  /\ taken <= Len(log) /\ LeavesCurrent(taken, infinity_current)
                      /\ (rx_frame_read + (Len(log) - taken)) % RX_FRAMES_SIZE = rx_frame_write
    BY DEF TakenOnce
  <2>1. taken <= Len(log) /\ LeavesCurrent(taken, infinity_current)
    BY DEF LoopBehind, Current
  <2>2. taken \in Nat /\ Len(log) \in Nat /\ RX_FRAMES_SIZE \in Nat \ {0}
    BY CanAssumption DEF Indices
  <2>3. ((taken % RX_FRAMES_SIZE) + (Len(log) - taken)) % RX_FRAMES_SIZE
          = Len(log) % RX_FRAMES_SIZE
    BY <2>1, <2>2, ModDistance
  <2> QED
    BY <2>1, <2>3 DEF Indices
<1> QED
  BY <1>1, RingInvariant, PTL

-----------------------------------------------------------------------------
(* infinity_current never goes back.                                        *)

\* The payloads are numbers.
LEMMA Numbers ==
  ASSUME Indices
  PROVE  /\ count \in Nat /\ taken \in Nat /\ Len(fifo) \in Nat /\ Len(log) \in Nat
         /\ \A k \in 1..Len(fifo) : fifo[k].data \in Nat
         /\ \A k \in 1..Len(log) : log[k].data \in Nat
<1>1. \A f \in Frames : f.data \in Nat
  BY DEF Frames
<1>2. /\ count \in Nat /\ taken \in Nat /\ Len(fifo) \in Nat /\ Len(log) \in Nat
      /\ \A k \in 1..Len(fifo) : fifo[k] \in Frames
      /\ \A k \in 1..Len(log) : log[k] \in Frames
  BY DEF Indices
<1> QED
  BY <1>1, <1>2

LEMMA OrderedKept == Indices /\ Ordered /\ [Next]_vars => Ordered'
<1> SUFFICES ASSUME Indices, Ordered, [Next]_vars PROVE Ordered'
  OBVIOUS
<1> USE DEF ring, processor, history
<1>0. /\ count \in Nat /\ Len(fifo) \in Nat /\ Len(log) \in Nat
      /\ \A k \in 1..Len(fifo) : fifo[k].data \in Nat
      /\ \A k \in 1..Len(log) : log[k].data \in Nat
  BY Numbers
<1>1. CASE FrameArrives
  <2>1. PICK h \in Headers : fifo' = Queued([header |-> h, data |-> count'])
    BY <1>1 DEF FrameArrives
  <2>2. count' = count + 1 /\ log' = log
    BY <1>1 DEF FrameArrives
  <2> DEFINE f == [header |-> h, data |-> count']
  <2>3. f \in Frames /\ f.data = count + 1
    BY <1>0, <2>2 DEF Frames
  <2> HIDE DEF f
  <2>4. /\ Len(fifo') \in Nat
        /\ \A k \in 1..Len(fifo') :
             \/ k = Len(fifo') /\ fifo'[k] = f
             \/ k < Len(fifo') /\ k \in 1..Len(fifo) /\ fifo'[k] = fifo[k]
    <3>1. fifo' = Queued(f)
      BY <2>1 DEF f
    <3>2. fifo' \in Seq(Frames)
      BY <2>3, <3>1, Queues
    <3>3. Len(fifo') \in Nat
      BY <3>2
    <3> QED
      BY <2>3, <3>1, <3>3, Queues
  <2>5. \A k \in 1..Len(fifo') : fifo'[k].data <= count + 1
    BY <1>0, <2>3, <2>4 DEF Ordered
  <2>6. \A j, k \in 1..Len(fifo') : j < k => fifo'[j].data <= fifo'[k].data
    <3> SUFFICES ASSUME NEW j \in 1..Len(fifo'), NEW k \in 1..Len(fifo'), j < k
                 PROVE  fifo'[j].data <= fifo'[k].data
      OBVIOUS
    <3>1. j # Len(fifo') /\ j \in 1..Len(fifo) /\ fifo'[j] = fifo[j]
      BY <2>4
    <3> QED
      BY <1>0, <2>3, <2>4, <3>1 DEF Ordered
  <2>7. \A j \in 1..Len(log), k \in 1..Len(fifo') : log[j].data <= fifo'[k].data
    BY <1>0, <2>3, <2>4 DEF Ordered
  <2>8. \A k \in 1..Len(log) : log[k].data <= count + 1
    BY <1>0 DEF Ordered
  <2> QED
    BY <2>2, <2>5, <2>6, <2>7, <2>8 DEF Ordered
<1>2. CASE can_read_frame
  <2>1. /\ Len(fifo) >= 1 /\ Len(fifo') = Len(fifo) - 1
        /\ \A k \in 1..Len(fifo') : fifo'[k] = fifo[k + 1]
        /\ Len(log') = Len(log) + 1
        /\ \A k \in 1..Len(log) : log'[k] = log[k]
        /\ log'[Len(log) + 1] = fifo[1]
    BY <1>2, Stores
  <2>2. count' = count
    BY <1>2 DEF can_read_frame
  <2>3. /\ \A k \in 1..Len(log') : k \in 1..Len(log) \/ k = Len(log) + 1
        /\ \A k \in 1..Len(fifo') : k + 1 \in 1..Len(fifo)
        /\ 1 \in 1..Len(fifo)
    BY <1>0, <2>1
  <2>4. \A j, k \in 1..Len(log') : j < k => log'[j].data <= log'[k].data
    <3> SUFFICES ASSUME NEW j \in 1..Len(log'), NEW k \in 1..Len(log'), j < k
                 PROVE  log'[j].data <= log'[k].data
      OBVIOUS
    <3>1. j \in 1..Len(log) /\ log'[j] = log[j]
      BY <1>0, <2>1, <2>3
    <3> QED
      BY <1>0, <2>1, <2>3, <3>1 DEF Ordered
  <2>5. \A j, k \in 1..Len(fifo') : j < k => fifo'[j].data <= fifo'[k].data
    <3> SUFFICES ASSUME NEW j \in 1..Len(fifo'), NEW k \in 1..Len(fifo'), j < k
                 PROVE  fifo'[j].data <= fifo'[k].data
      OBVIOUS
    <3>1. /\ j + 1 \in 1..Len(fifo) /\ k + 1 \in 1..Len(fifo) /\ j + 1 < k + 1
          /\ fifo'[j] = fifo[j + 1] /\ fifo'[k] = fifo[k + 1]
      BY <1>0, <2>1, <2>3
    <3> QED
      BY <3>1 DEF Ordered
  <2>6. \A j \in 1..Len(log'), k \in 1..Len(fifo') : log'[j].data <= fifo'[k].data
    <3> SUFFICES ASSUME NEW j \in 1..Len(log'), NEW k \in 1..Len(fifo')
                 PROVE  log'[j].data <= fifo'[k].data
      OBVIOUS
    <3>1. fifo'[k] = fifo[k + 1] /\ k + 1 \in 1..Len(fifo) /\ 1 < k + 1
      BY <1>0, <2>1, <2>3
    <3> QED
      BY <1>0, <2>1, <2>3, <3>1 DEF Ordered
  <2>7. /\ \A k \in 1..Len(log') : log'[k].data <= count
        /\ \A k \in 1..Len(fifo') : fifo'[k].data <= count
    BY <1>0, <2>1, <2>3 DEF Ordered
  <2> QED
    BY <2>2, <2>4, <2>5, <2>6, <2>7 DEF Ordered
<1>3. CASE UNCHANGED <<fifo, log, count>>
  BY <1>3 DEF Ordered
<1> QED
  BY <1>1, <1>2, <1>3, Steps
  DEF can_process_wakes, can_process_test, can_process_frame, Quiet

\* Number of the frame in the slot that is being copied, and where the copy
\* leaves the distance.
LEMMA CopiedFrame ==
  ASSUME Indices, RingHolds, process = "copy", taken < Len(log)
  PROVE  /\ Ahead \in 1..RX_FRAMES_SIZE /\ Ahead <= Len(log)
         /\ rx_frames[rx_frame_read] = log[Len(log) - Ahead + 1]
         /\ (Len(log) - (taken + 1)) % RX_FRAMES_SIZE = Ahead - 1
<1> DEFINE N == RX_FRAMES_SIZE
           L == Len(log)
           d == (L - taken) % N
<1>0. N \in Nat \ {0} /\ L \in Nat /\ taken \in Nat /\ taken <= L /\ taken < L
  BY CanAssumption DEF Indices
<1>1. /\ d \in 0..(N - 1) /\ d <= L - taken /\ (L - d) % N = taken % N
      /\ d = 0 => N <= L - taken /\ (L - N) % N = taken % N
  BY <1>0, ModDistance
<1>2. Ahead = IF d = 0 THEN N ELSE d
  BY DEF Ahead
<1>3. L - (taken + 1) \in Nat /\ (L - (taken + 1)) + 1 = L - taken
  BY <1>0
<1>4. /\ d = IF ((L - (taken + 1)) % N) + 1 = N THEN 0
             ELSE ((L - (taken + 1)) % N) + 1
      /\ (L - (taken + 1)) % N \in 0..(N - 1)
  BY <1>0, <1>3, ModNext, DivMod
<1> HIDE DEF d
<1>5. Ahead \in 1..N /\ Ahead <= L /\ (L - Ahead) % N = taken % N
  <2>1. CASE d = 0
    BY <1>0, <1>1, <1>2, <2>1
  <2>2. CASE d # 0
    <3>1. Ahead = d
      BY <1>2, <2>2
    <3> QED
      BY <1>0, <1>1, <2>2, <3>1
  <2> QED
    BY <2>1, <2>2
<1>6. (L - (taken + 1)) % N = Ahead - 1
  BY <1>0, <1>1, <1>2, <1>4
<1>7. L - Ahead \in Nat /\ L - Ahead < L /\ L <= (L - Ahead) + N
  BY <1>0, <1>5
<1>8. rx_frames[(L - Ahead) % N] = log[(L - Ahead) + 1]
  BY <1>7 DEF RingHolds
<1> QED
  BY <1>5, <1>6, <1>8 DEF Indices

LEMMA NewerAheadKept ==
  Indices /\ RingHolds /\ Ordered /\ NewerAhead /\ [Next]_vars
    => NewerAhead' /\ (~hoisted => infinity_current' >= infinity_current)
<1>0. [Next]_vars => hoisted' = hoisted
  BY Steps
  DEF FrameArrives, can_read_frame, can_process_wakes, can_process_test,
      can_process_frame, Quiet
<1> SUFFICES ASSUME Indices, RingHolds, Ordered, NewerAhead, [Next]_vars, ~hoisted
             PROVE  NewerAhead' /\ infinity_current' >= infinity_current
  BY <1>0 DEF NewerAhead
<1> USE DEF ring, processor, history
<1> DEFINE N == RX_FRAMES_SIZE
           L == Len(log)
           d == (L - taken) % N
<1>1. /\ N \in Nat \ {0, 1} /\ count \in Nat /\ taken \in Nat
      /\ Len(fifo) \in Nat /\ L \in Nat
      /\ \A k \in 1..Len(fifo) : fifo[k].data \in Nat
      /\ \A k \in 1..L : log[k].data \in Nat
  BY CanAssumption, Numbers
<1>2. /\ infinity_current \in Nat /\ infinity_current <= count
      /\ \A k \in 1..Len(fifo) : infinity_current <= fifo[k].data
      /\ taken <= L
      /\ process = "copy" => taken < L
      /\ \A j \in 1..L : j > L - Ahead => infinity_current <= log[j].data
  BY DEF NewerAhead
<1>3. /\ d \in 0..(N - 1) /\ (L - d) % N = taken % N
      /\ Ahead = IF process = "copy" /\ d = 0 THEN N ELSE d
  BY <1>1, <1>2, ModDistance DEF Ahead
<1> HIDE DEF d
<1>4. CASE FrameArrives
  <2>1. PICK h \in Headers : fifo' = Queued([header |-> h, data |-> count'])
    BY <1>4 DEF FrameArrives
  <2>2. count' = count + 1 /\ UNCHANGED <<log, taken, process, infinity_current>>
    BY <1>4 DEF FrameArrives
  <2> DEFINE f == [header |-> h, data |-> count']
  <2>3. f \in Frames /\ f.data = count + 1
    BY <1>1, <2>2 DEF Frames
  <2> HIDE DEF f
  <2>4. fifo' = Queued(f)
    BY <2>1 DEF f
  <2>5. \A k \in 1..Len(fifo') :
          fifo'[k] = f \/ (k \in 1..Len(fifo) /\ fifo'[k] = fifo[k])
    BY <2>3, <2>4, Queues
  <2>6. \A k \in 1..Len(fifo') : infinity_current <= fifo'[k].data
    BY <1>1, <1>2, <2>3, <2>5
  <2>7. infinity_current <= count' /\ Ahead' = Ahead
    BY <1>1, <1>2, <2>2 DEF Ahead
  <2> QED
    BY <1>2, <2>2, <2>6, <2>7 DEF NewerAhead
<1>5. CASE can_read_frame
  <2>1. /\ Len(fifo) >= 1 /\ Len(fifo') = Len(fifo) - 1
        /\ \A k \in 1..Len(fifo') : fifo'[k] = fifo[k + 1]
        /\ Len(log') = L + 1
        /\ \A k \in 1..L : log'[k] = log[k]
        /\ log'[L + 1] = fifo[1]
        /\ UNCHANGED <<count, taken, process, infinity_current>>
    BY <1>5, Stores DEF can_read_frame
  <2>2. \A k \in 1..Len(fifo') : infinity_current <= fifo'[k].data
    <3>1. \A k \in 1..Len(fifo') : k + 1 \in 1..Len(fifo)
      BY <1>1, <2>1
    <3> QED
      BY <1>2, <2>1, <3>1
  <2>3. Ahead' \in Nat /\ Ahead' <= Ahead + 1
    <3>1. (L + 1) - taken = (L - taken) + 1 /\ L - taken \in Nat
      BY <1>1, <1>2
    <3>2. ((L - taken) + 1) % N = IF d + 1 = N THEN 0 ELSE d + 1
      BY <1>1, <3>1, ModNext DEF d
    <3> DEFINE e == (Len(log') - taken') % N
    <3>3. e = IF d + 1 = N THEN 0 ELSE d + 1
      BY <2>1, <3>1, <3>2
    <3>4. Ahead' = IF process = "copy" /\ e = 0 THEN N ELSE e
      BY <2>1 DEF Ahead
    <3> HIDE DEF e
    <3> QED
      BY <1>1, <1>3, <3>3, <3>4
  <2>4. ASSUME NEW j \in 1..Len(log'), j > Len(log') - Ahead'
        PROVE  infinity_current <= log'[j].data
    <3>1. CASE j = L + 1
      BY <1>1, <1>2, <2>1, <3>1
    <3>2. CASE j # L + 1
      <4>1. Ahead \in Nat
        BY <1>1, <1>3
      <4>2. j \in 1..L /\ j > L - Ahead
        BY <1>1, <2>1, <2>3, <2>4, <3>2, <4>1
      <4> QED
        BY <1>2, <2>1, <4>2
    <3> QED
      BY <3>1, <3>2
  <2>5. taken <= L + 1 /\ (process = "copy" => taken < L + 1)
    BY <1>1, <1>2
  <2> QED
    BY <1>2, <2>1, <2>2, <2>4, <2>5 DEF NewerAhead
<1>6. ASSUME UNCHANGED <<fifo, count, log, taken, infinity_current>>,
             process' # "copy" \/ process = "copy", Ahead' = Ahead
      PROVE  NewerAhead' /\ infinity_current' >= infinity_current
  BY <1>2, <1>6 DEF NewerAhead
<1>7. CASE can_process_wakes
  BY <1>6, <1>7 DEF can_process_wakes, Ahead
<1>8. CASE can_process_test
  <2>1. UNCHANGED <<fifo, count, log, taken, infinity_current>> /\ process = "test"
    BY <1>8 DEF can_process_test
  <2>2. CASE process' = "wait"
    BY <1>6, <2>1, <2>2 DEF Ahead
  <2>3. CASE rx_frame_read # LoopEnd /\ process' = "copy"
    <3>1. taken % N # L % N
      BY <2>3 DEF LoopEnd, Indices
    <3>2. taken < L /\ d # 0
      <4>1. taken # L
        BY <3>1
      <4>2. d # 0
        BY <1>1, <1>3, <3>1
      <4> QED
        BY <1>1, <1>2, <4>1, <4>2
    <3>3. Ahead' = Ahead
      BY <2>1, <2>3, <3>2 DEF Ahead, d
    <3> QED
      BY <1>2, <2>1, <3>2, <3>3 DEF NewerAhead
  <2> QED
    BY <1>8, <2>2, <2>3 DEF can_process_test
<1>9. CASE can_process_frame
  <2>1. /\ UNCHANGED <<fifo, count, log>> /\ process = "copy" /\ process' = "test"
        /\ taken' = taken + 1
        /\ \/ infinity_current' = rx_frames[rx_frame_read].data
           \/ infinity_current' = infinity_current
    BY <1>9 DEF can_process_frame
  <2> DEFINE A == Ahead
             c == L - A + 1
  <2>2. /\ A \in 1..N /\ A <= L /\ rx_frames[rx_frame_read] = log[c]
        /\ (L - (taken + 1)) % N = A - 1
    BY <1>2, <2>1, CopiedFrame
  <2>3. Ahead' = A - 1
    BY <2>1, <2>2 DEF Ahead
  <2> HIDE DEF A
  <2>4. c \in 1..L /\ c > L - A /\ \A j \in 1..L : j > L - (A - 1) => j > c /\ j > L - A
    <3> SUFFICES c \in Int /\ c >= 1 /\ c <= L /\ c > L - A
                 /\ \A j \in 1..L : j > L - (A - 1) => j > c /\ j > L - A
      BY <1>1
    <3>1. A \in Nat /\ 1 <= A
      BY <1>1, <2>2
    <3> QED
      BY <1>1, <2>2, <3>1
  <2> HIDE DEF c
  <2>5. /\ log[c].data \in Nat /\ infinity_current <= log[c].data
        /\ log[c].data <= count
        /\ \A k \in 1..Len(fifo) : log[c].data <= fifo[k].data
        /\ \A j \in 1..L : c < j => log[c].data <= log[j].data
    BY <1>1, <1>2, <2>4 DEF Ordered, A
  <2>6. infinity_current' = log[c].data \/ infinity_current' = infinity_current
    BY <2>1, <2>2
  <2>7. \A j \in 1..L : j > L - Ahead' => infinity_current' <= log[j].data
    <3> SUFFICES ASSUME NEW j \in 1..L, j > L - Ahead'
                 PROVE  infinity_current' <= log[j].data
      OBVIOUS
    <3>1. j > c /\ c < j /\ j > L - Ahead
      <4>1. j > c /\ j > L - A
        BY <2>3, <2>4
      <4>2. c < j
        BY <1>1, <2>4, <4>1
      <4> QED
        BY <4>1, <4>2 DEF A
    <3>2. log[c].data <= log[j].data /\ infinity_current <= log[j].data
      BY <1>2, <2>5, <3>1
    <3> QED
      BY <2>6, <3>2
  <2>8. taken' <= L
    BY <1>1, <1>2, <2>1
  <2> QED
    BY <1>1, <1>2, <2>1, <2>5, <2>6, <2>7, <2>8 DEF NewerAhead
<1>10. CASE Quiet /\ fifo' = fifo
  BY <1>6, <1>10 DEF Quiet, Ahead
<1> QED
  BY <1>4, <1>5, <1>7, <1>8, <1>9, <1>10, Steps

\* A build that reads rx_frame_write in every round never hands on an older
\* current after a newer one, even if the ring is lapped while a frame is being
\* copied from it (comm_can.c:82).
THEOREM CurrentNeverBack == Spec => NeverBack
<1>1. Init => Ordered /\ NewerAhead
  <2> SUFFICES ASSUME Init PROVE Ordered /\ NewerAhead
    OBVIOUS
  <2>1. Len(log) = 0 /\ Len(fifo) = 0 /\ 1..0 = {}
    BY DEF Init
  <2> QED
    BY <2>1 DEF Init, Ordered, NewerAhead
<1>2. Indices /\ RingHolds /\ Ordered /\ NewerAhead /\ [Next]_vars
        => [~hoisted => infinity_current' >= infinity_current]_vars
  BY NewerAheadKept
<1> QED
  BY <1>1, <1>2, RingInvariant, OrderedKept, NewerAheadKept, PTL
  DEF Spec, NeverBack
=============================================================================
