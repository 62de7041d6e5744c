--------------------------- MODULE SessionProofs ---------------------------
(***************************************************************************)
(* Proofs about the packet handlers, the firmware update and the end of    *)
(* the main loop, for every file of chunks that do not overlap, every      *)
(* number of pages and any number of faults.                               *)
(***************************************************************************)
EXTENDS Session, TLAPS

-----------------------------------------------------------------------------
(* The end of the main loop.                                                *)

\* Handlers leave mode alone, but for the jump.
LEMMA PacketsKeepMode == PacketThread => mode' = mode
BY DEF PacketThread, process_packet, PacketConnect,
       fw_updater_erase_new_firmware, fw_updater_write_firmware, FlashFails,
       config_write_field, comm_usb_send, WriteReturns

\* Once the main loop has ended nothing runs that could light the LED, pull
\* ACC1 or start the bus again: the main thread spins (main.c:197).
THEOREM ExitStaysFinal == Spec => []ExitIsFinal
<1>1. Init => ExitIsFinal
  BY DEF Init, HandlersInit, ExitIsFinal
<1>2. ExitIsFinal /\ [Next]_vars => ExitIsFinal'
  <2> SUFFICES ASSUME ExitIsFinal, [Next]_vars PROVE ExitIsFinal'
    OBVIOUS
  <2> USE DEF ExitIsFinal
  <2>1. CASE Jump
    BY <2>1 DEF Jump, fw_updater_jump_bootloader
  <2>2. CASE PacketThread /\ UNCHANGED board
    BY <2>2, PacketsKeepMode DEF board, indicators
  <2>3. CASE power_update
    BY <2>3 DEF power_update, handlerVars, indicators
  <2>4. CASE accessory_update
    BY <2>4 DEF accessory_update, MainContinues, MainExits, Scheduled
  <2>5. CASE led_update
    BY <2>5 DEF led_update, Scheduled
  <2>6. CASE serial_init_thread
    BY <2>6 DEF serial_init_thread, Scheduled, handlerVars
  <2>7. CASE HostConnects
    BY <2>7 DEF HostConnects, Reconnects
  <2>8. ASSUME NEW r, HostRequests(r) PROVE ExitIsFinal'
    BY <2>8 DEF HostRequests, HostSends
  <2>9. CASE UsbBreaks /\ UNCHANGED board
    BY <2>9 DEF UsbBreaks
  <2>10. CASE Restart
    BY <2>10 DEF Restart, PowerLoss
  <2>11. CASE UNCHANGED vars
    BY <2>11 DEF vars, handlerVars, board, indicators
  <2> QED
    BY <2>1, <2>2, <2>3, <2>4, <2>5, <2>6, <2>7, <2>8, <2>9, <2>10, <2>11
    DEF Next, Packets, Main
<1> QED
  BY <1>1, <1>2, PTL DEF Spec

-----------------------------------------------------------------------------
(* The counting lock.                                                       *)

Locked == {"erase", "write", "config"}
Waits == {"idle", "sending"}

\* The main loop ends, and the bootloader is entered, between handlers only.
Threads ==
  /\ pc \in Locked \union Waits \union {"reply"}
  /\ mode # "run" => pc \in Waits

\* A handler at work adds one to what the failed ones have left.
CountLeaks ==
  /\ sys_lock_cnt \in Nat /\ failures \in Nat
  /\ pc \in Locked => sys_lock_cnt = failures + 1
  /\ pc \notin Locked => sys_lock_cnt = failures

\* The first lock masks; every wait unmasks.
MaskLost ==
  /\ masked \in BOOLEAN
  /\ pc \in Locked => (masked <=> failures = 0)
  /\ pc \in Waits /\ mode = "run" => ~masked

LockInv == Threads /\ CountLeaks /\ MaskLost

\* The lock is taken with as many leaked counts as there were failures.
LEMMA TakesLock == LockInv /\ process_packet => LockInv'
<1> SUFFICES ASSUME LockInv, process_packet PROVE LockInv'
  OBVIOUS
<1> USE DEF LockInv, Locked, Waits
<1>1. /\ pc = "idle" /\ mode = "run" /\ mode' = mode
      /\ pc' \in Locked /\ failures' = failures
      /\ sys_lock_cnt' = sys_lock_cnt + 1
      /\ masked' = (masked \/ FirstLock)
  BY DEF process_packet, utils_sys_lock_cnt
<1>2. Threads' /\ CountLeaks'
  BY <1>1 DEF Threads, CountLeaks
<1>3. FirstLock <=> failures' = 0
  BY <1>1 DEF FirstLock, CountLeaks
<1>4. MaskLost'
  BY <1>1, <1>3, Zenon DEF MaskLost
<1> QED
  BY <1>2, <1>4

\* The lock is released, whether that unmasks the interrupts or not.
LEMMA ReleasesLock ==
  LockInv /\ pc \in Locked /\ mode' = mode /\ Completed => LockInv'
<1> SUFFICES ASSUME LockInv, pc \in Locked, mode' = mode, Completed
             PROVE  LockInv'
  OBVIOUS
<1> USE DEF LockInv, Locked, Waits
<1>1. /\ pc' = "reply" /\ failures' = failures
      /\ sys_lock_cnt' = sys_lock_cnt - 1
      /\ masked' = (masked /\ sys_lock_cnt # 1)
  BY DEF Completed, utils_sys_unlock_cnt
<1>2. Threads' /\ CountLeaks'
  BY <1>1 DEF Threads, CountLeaks
<1>3. MaskLost'
  BY <1>1, Zenon DEF MaskLost
<1> QED
  BY <1>2, <1>3

\* A failed call leaves the lock as it is.
LEMMA LeaksLock ==
  LockInv /\ pc \in Locked /\ mode' = mode /\ Failed => LockInv'
<1> SUFFICES ASSUME LockInv, pc \in Locked, mode' = mode, Failed
             PROVE  LockInv'
  OBVIOUS
<1> USE DEF LockInv, Locked, Waits
<1>1. /\ pc' = "reply" /\ failures' = failures + 1
      /\ sys_lock_cnt' = sys_lock_cnt /\ masked' = masked
  BY DEF Failed, lock
<1>2. Threads' /\ CountLeaks'
  BY <1>1 DEF Threads, CountLeaks
<1>3. MaskLost'
  BY <1>1, Zenon DEF MaskLost
<1> QED
  BY <1>2, <1>3

\* A step of a handler that neither ends nor fails, and all other steps that
\* change neither pc nor the lock.
LEMMA KeepsLock ==
  /\ LockInv
  /\ UNCHANGED <<pc, lock, failures>>
  /\ mode' = mode \/ (pc \in Waits /\ mode' # "run")
  => LockInv'
<1> SUFFICES ASSUME LockInv, UNCHANGED <<pc, lock, failures>>,
                    mode' = mode \/ (pc \in Waits /\ mode' # "run")
             PROVE  LockInv'
  OBVIOUS
<1> USE DEF LockInv, Locked, Waits
<1>1. UNCHANGED <<pc, sys_lock_cnt, masked, failures>>
  BY DEF lock
<1>2. Threads' /\ CountLeaks'
  BY <1>1 DEF Threads, CountLeaks
<1>3. MaskLost'
  BY <1>1, Zenon DEF MaskLost
<1> QED
  BY <1>2, <1>3

\* The steps of the packet thread.
LEMMA PacketsKeepLock == LockInv /\ PacketThread => LockInv'
<1> SUFFICES ASSUME LockInv, PacketThread PROVE LockInv'
  OBVIOUS
<1>0. mode' = mode
  BY PacketsKeepMode
<1> USE DEF Locked, Waits
<1>1. CASE process_packet
  BY <1>1, TakesLock
<1>2. CASE PacketConnect
  <2>1. /\ pc = "idle" /\ pc' = "reply" /\ mode = "run"
        /\ UNCHANGED <<sys_lock_cnt, masked, failures>>
    BY <1>2 DEF PacketConnect, lock
  <2>2. Threads' /\ CountLeaks'
    BY <1>0, <2>1 DEF LockInv, Threads, CountLeaks
  <2>3. MaskLost'
    BY <2>1, Zenon DEF LockInv, MaskLost
  <2> QED
    BY <2>2, <2>3 DEF LockInv
<1>3. CASE fw_updater_erase_new_firmware
  <2>1. CASE UNCHANGED <<pc, lock, failures>>
    BY <1>0, <2>1, KeepsLock
  <2>2. CASE Completed
    BY <1>0, <1>3, <2>2, ReleasesLock DEF fw_updater_erase_new_firmware
  <2> QED
    BY <1>3, <2>1, <2>2 DEF fw_updater_erase_new_firmware
<1>4. CASE fw_updater_write_firmware
  <2>1. CASE UNCHANGED <<pc, lock, failures>>
    BY <1>0, <2>1, KeepsLock
  <2>2. CASE Completed
    BY <1>0, <1>4, <2>2, ReleasesLock DEF fw_updater_write_firmware
  <2>3. CASE Failed
    BY <1>0, <1>4, <2>3, LeaksLock DEF fw_updater_write_firmware
  <2> QED
    BY <1>4, <2>1, <2>2, <2>3 DEF fw_updater_write_firmware, Program
<1>5. CASE FlashFails
  BY <1>0, <1>5, LeaksLock DEF FlashFails
<1>6. CASE config_write_field
  BY <1>0, <1>6, ReleasesLock DEF config_write_field
<1>7. CASE comm_usb_send
  <2>1. /\ pc = "reply" /\ pc' = "sending" /\ ~masked' /\ masked' \in BOOLEAN
        /\ UNCHANGED <<sys_lock_cnt, failures>>
    BY <1>7, Zenon DEF comm_usb_send
  <2>2. Threads' /\ CountLeaks'
    BY <1>0, <2>1 DEF LockInv, Threads, CountLeaks
  <2>3. MaskLost'
    BY <2>1 DEF LockInv, MaskLost
  <2> QED
    BY <2>2, <2>3 DEF LockInv
<1>8. CASE WriteReturns
  <2>1. /\ pc = "sending" /\ pc' = "idle" /\ mode = "run"
        /\ UNCHANGED <<sys_lock_cnt, masked, failures>>
    BY <1>8 DEF WriteReturns, lock
  <2>2. Threads' /\ CountLeaks'
    BY <1>0, <2>1 DEF LockInv, Threads, CountLeaks
  <2>3. MaskLost'
    BY <1>0, <2>1, Zenon DEF LockInv, MaskLost
  <2> QED
    BY <2>2, <2>3 DEF LockInv
<1> QED
  BY <1>1, <1>2, <1>3, <1>4, <1>5, <1>6, <1>7, <1>8 DEF PacketThread

\* LockInv is inductive.
LEMMA LockHolds == Spec => []LockInv
<1>1. Init => LockInv
  <2>1. Init => Threads /\ CountLeaks
    BY DEF Init, HandlersInit, Threads, CountLeaks, Locked, Waits
  <2>2. Init => masked \in BOOLEAN /\ ~masked /\ pc = "idle"
    BY Zenon DEF Init, HandlersInit
  <2>3. pc = "idle" => pc \notin Locked
    BY DEF Locked
  <2> QED
    BY <2>1, <2>2, <2>3, Zenon DEF LockInv, MaskLost
<1>2. LockInv /\ [Next]_vars => LockInv'
  <2> SUFFICES ASSUME LockInv, [Next]_vars PROVE LockInv'
    OBVIOUS
  <2>1. CASE Jump
    <3>1. /\ pc = "idle" /\ mode' = "bootloader" /\ masked' = TRUE
          /\ UNCHANGED <<pc, sys_lock_cnt, failures>>
      BY <2>1 DEF Jump, fw_updater_jump_bootloader
    <3>2. Threads' /\ CountLeaks'
      BY <3>1 DEF LockInv, Threads, CountLeaks, Locked, Waits
    <3>3. MaskLost'
      BY <3>1 DEF LockInv, MaskLost, Locked, Waits
    <3> QED
      BY <3>2, <3>3 DEF LockInv
  <2>2. CASE PacketThread
    BY <2>2, PacketsKeepLock
  <2>3. CASE power_update
    BY <2>3, KeepsLock DEF power_update, handlerVars
  <2>4. CASE accessory_update
    BY <2>4, KeepsLock
    DEF accessory_update, MainContinues, MainExits, Scheduled, Waits
  <2>5. CASE led_update
    BY <2>5, KeepsLock DEF led_update
  <2>6. CASE serial_init_thread
    BY <2>6, KeepsLock DEF serial_init_thread, handlerVars
  <2>7. CASE HostConnects
    BY <2>7, KeepsLock DEF HostConnects, Reconnects
  <2>8. ASSUME NEW r, HostRequests(r) PROVE LockInv'
    BY <2>8, KeepsLock DEF HostRequests, HostSends
  <2>9. CASE UsbBreaks
    BY <2>9, KeepsLock DEF UsbBreaks
  <2>10. CASE Restart
    BY <2>10
    DEF Restart, PowerLoss, LockInv, Threads, CountLeaks, MaskLost, Locked, Waits
  <2>11. CASE UNCHANGED vars
    BY <2>11, KeepsLock DEF vars, handlerVars
  <2> QED
    BY <2>1, <2>2, <2>3, <2>4, <2>5, <2>6, <2>7, <2>8, <2>9, <2>10, <2>11
    DEF Next, Packets, Main
<1> QED
  BY <1>1, <1>2, PTL DEF Spec

\* Each failed call of the updater leaks a count, and the first wait after it
\* unmasks the interrupts all the same, so no later section is protected
\* (fw_updater.c:21, 39).
THEOREM FailuresLeak == Spec => []LeakedByFailures
<1>1. LockInv => LeakedByFailures
  <2> SUFFICES ASSUME LockInv PROVE LeakedByFailures
    OBVIOUS
  <2>1. pc \in {"idle", "sending"} => sys_lock_cnt = failures
    BY DEF LockInv, CountLeaks, Locked, Waits
  <2> QED
    BY <2>1, Zenon DEF LockInv, MaskLost, LeakedByFailures, Locked, Waits
<1> QED
  BY <1>1, LockHolds, PTL

-----------------------------------------------------------------------------
(* The firmware image.                                                      *)

\* The host's request is where it should be: it waits for the answer to the
\* request on the way or at work, and a request that no handler has taken is
\* lost with the line.
Protocol ==
  /\ step \in Steps
  /\ inbox \in {NoRequest, Config, Connect, step}
  /\ request \in {NoRequest, Config, Connect, step}
  /\ request # Len(Chunks) + 1
  /\ pc = "idle" <=> request = NoRequest
  /\ mode = "run" /\ ~connected => inbox = NoRequest
  /\ mode = "run" /\ ~awaiting => inbox = NoRequest /\ pc = "idle"
  /\ pc # "idle" => inbox = NoRequest

\* Handlers work on the request they were started for.
AtWork ==
  /\ pc = "erase" => request = 0
  /\ pc = "write" => request \in 1..Len(Chunks)
  /\ pc = "config" => request = Config
  /\ pc = "write" => i \in Nat /\ i % 2 = 0

\* The first m bytes of chunk k are in the image.
WrittenUpTo(k, m) ==
  \A n \in DOMAIN Chunks[k].data :
    n <= m => ByteAt(Chunks[k].offset + n - 1) = Chunks[k].data[n]

Written(k) == WrittenUpTo(k, Len(Chunks[k].data))

\* The chunks before the host's next one are there, the chunk at work as far
\* as the loop has come, and a positive reply follows the whole of it.
ImageHolds ==
  /\ DOMAIN image = Words
  /\ \A k \in DOMAIN Chunks : k < step => Written(k)
  /\ pc = "write" => WrittenUpTo(request, i)
  /\ pc \in {"reply", "sending"} /\ request \in DOMAIN Chunks /\ result
       => Written(request)

ImageInv == Threads /\ Protocol /\ AtWork /\ ImageHolds

\* The bytes of a half-word.
LEMMA HalfWords ==
  /\ \A a \in Nat : a % 2 = 0 =>
       (a + 1) \div 2 = a \div 2 /\ (a + 1) % 2 = 1 /\ a \div 2 \in Nat
  /\ \A a, b \in Nat : b % 2 = 0 /\ a < b => a \div 2 # b \div 2
  /\ \A a, b \in Nat : a % 2 = 0 /\ b % 2 = 0 => (a + b) % 2 = 0
OBVIOUS

\* What the assumption says of one chunk.
LEMMA ChunkFacts ==
  ASSUME NEW k \in DOMAIN Chunks
  PROVE  /\ Chunks[k].offset \in Nat
         /\ Chunks[k].offset % 2 = 0
         /\ Len(Chunks[k].data) \in Nat
         /\ DOMAIN Chunks[k].data = 1..Len(Chunks[k].data)
         /\ \A n \in DOMAIN Chunks[k].data :
              (Chunks[k].offset + n - 1) \div 2 \in WordsOf(k)
         /\ WordsOf(k) \subseteq Words
<1> DEFINE S == [offset : Nat, data : Seq(0..255)]
<1>0. Chunks \in Seq(S)
  BY FwAssumption
<1>1. Chunks[k] \in S
  <2> HIDE DEF S
  <2> QED BY <1>0
<1> QED
  BY <1>1, FwAssumption DEF WordsOf

LEMMA ChunkNumbers ==
  Len(Chunks) \in Nat /\ DOMAIN Chunks = 1..Len(Chunks)
BY FwAssumption

\* A half-word of chunk k holds no byte of another chunk.
LEMMA OthersKept ==
  ASSUME NEW k \in DOMAIN Chunks, NEW j \in DOMAIN Chunks, j # k,
         NEW w \in WordsOf(k), NEW v,
         DOMAIN image = Words, image' = [image EXCEPT ![w] = v], Written(j)
  PROVE  Written(j)'
<1> SUFFICES ASSUME NEW n \in DOMAIN Chunks[j].data,
                    n <= Len(Chunks[j].data)
             PROVE  ByteAt(Chunks[j].offset + n - 1)' = Chunks[j].data[n]
  BY DEF Written, WrittenUpTo
<1> DEFINE a == Chunks[j].offset + n - 1
<1>1. a \div 2 \in WordsOf(j) /\ a \div 2 \in Words
  BY ChunkFacts
<1>2. a \div 2 # w
  BY <1>1, FwAssumption
<1>3. image'[a \div 2] = image[a \div 2]
  BY <1>1, <1>2
<1>4. ByteAt(a) = Chunks[j].data[n]
  BY DEF Written, WrittenUpTo
<1> QED
  BY <1>3, <1>4 DEF ByteAt

\* Programming the half-word at i adds its bytes to those that are there; the
\* byte after the end of the chunk may be anything.
LEMMA WordAdded ==
  ASSUME NEW k \in DOMAIN Chunks, i \in Nat, i % 2 = 0,
         i < Len(Chunks[k].data), NEW b,
         i + 2 <= Len(Chunks[k].data) => b = Chunks[k].data[i + 2],
         DOMAIN image = Words, WrittenUpTo(k, i),
         image' = [image EXCEPT ![(Chunks[k].offset + i) \div 2] =
                                   <<Chunks[k].data[i + 1], b>>]
  PROVE  /\ (Chunks[k].offset + i) \div 2 \in WordsOf(k)
         /\ \A n \in DOMAIN Chunks[k].data : n <= i + 2 =>
              ByteAt(Chunks[k].offset + n - 1)' = Chunks[k].data[n]
<1> DEFINE o == Chunks[k].offset
           d == Chunks[k].data
           w == (o + i) \div 2
<1>1. /\ o \in Nat /\ o % 2 = 0 /\ Len(d) \in Nat /\ DOMAIN d = 1..Len(d)
      /\ \A n \in DOMAIN d : (o + n - 1) \div 2 \in WordsOf(k)
      /\ WordsOf(k) \subseteq Words
  BY ChunkFacts
<1> HIDE DEF o, d
<1>2. i + 1 \in DOMAIN d /\ o + (i + 1) - 1 = o + i
  BY <1>1 DEF d
<1>3. w \in WordsOf(k)
  BY <1>1, <1>2
<1>4. /\ (o + i) % 2 = 0 /\ o + i \in Nat
      /\ (o + i + 1) \div 2 = w /\ (o + i + 1) % 2 = 1
  BY <1>1, HalfWords
<1>5. image'[w] = <<d[i + 1], b>>
  BY <1>1, <1>3 DEF o, d
<1>6. ASSUME NEW n \in DOMAIN d, n <= i + 2
      PROVE  ByteAt(o + n - 1)' = d[n]
  <2>0. n \in 1..Len(d)
    BY <1>1, <1>6
  <2>1. CASE n <= i
    <3>1. o + n - 1 \in Nat /\ o + n - 1 < o + i
      <4>1. \A x, y, z \in Nat : 1 <= y /\ y <= z => x + y - 1 \in Nat /\ x + y - 1 < x + z
        OBVIOUS
      <4>2. n \in Nat /\ 1 <= n
        BY <1>1, <2>0
      <4> QED
        BY <1>1, <2>1, <4>1, <4>2
    <3>2. (o + n - 1) \div 2 # w /\ (o + n - 1) \div 2 \in Words
      BY <1>1, <1>4, <1>6, <3>1, HalfWords
    <3>3. image'[(o + n - 1) \div 2] = image[(o + n - 1) \div 2]
      BY <3>2 DEF o, d
    <3>4. ByteAt(o + n - 1) = d[n]
      BY <1>6, <2>1 DEF WrittenUpTo, o, d
    <3> QED
      BY <3>3, <3>4 DEF ByteAt
  <2>2. CASE n = i + 1
    <3>1. o + n - 1 = o + i
      BY <1>1, <2>2
    <3>2. 1 + ((o + n - 1) % 2) = 1
      BY <1>4, <3>1
    <3> QED
      BY <1>5, <2>2, <3>1, <3>2 DEF ByteAt
  <2>3. CASE n = i + 2
    <3>1. o + n - 1 = o + i + 1
      BY <1>1, <2>3
    <3>2. 1 + ((o + n - 1) % 2) = 2
      BY <1>4, <3>1
    <3>3. b = d[n]
      BY <1>1, <2>3 DEF d
    <3>4. image'[(o + n - 1) \div 2] = <<d[i + 1], b>>
      BY <1>4, <1>5, <3>1
    <3> HIDE DEF w
    <3> QED
      BY <3>2, <3>3, <3>4 DEF ByteAt
  <2> QED
    BY <1>1, <1>6, <2>1, <2>2, <2>3
<1> QED
  BY <1>3, <1>6 DEF o, d

\* The protocol between host and handlers, which does not depend on the image.
LEMMA ProtocolKept ==
  Threads /\ Protocol /\ AtWork /\ [Next]_vars => Protocol' /\ AtWork'
<1> SUFFICES ASSUME Threads, Protocol, AtWork, [Next]_vars
             PROVE  Protocol' /\ AtWork'
  OBVIOUS
<1>0. Len(Chunks) \in Nat
  BY ChunkNumbers
<1> USE <1>0 DEF Protocol, AtWork, Steps, NoRequest, Config, Connect
<1>1. CASE Jump
  BY <1>1 DEF Jump, fw_updater_jump_bootloader
<1>2. CASE process_packet
  BY <1>2 DEF process_packet, Taken, host
<1>3. CASE PacketConnect
  BY <1>3 DEF PacketConnect, Taken, host
<1>4. CASE fw_updater_erase_new_firmware
  BY <1>4 DEF fw_updater_erase_new_firmware, Completed, host, Threads, Waits
<1>5. CASE fw_updater_write_firmware
  <2>1. /\ pc = "write" /\ UNCHANGED <<mode, inbox, request, step, awaiting, connected>>
        /\ pc' = "reply" \/ (pc' = pc /\ i' = i + 2)
    BY <1>5 DEF fw_updater_write_firmware, Program, Completed, Failed, host
  <2>2. pc' = pc => i' \in Nat /\ i' % 2 = 0
    BY <2>1
  <2> QED
    BY <2>1, <2>2 DEF Threads, Waits
<1>6. CASE FlashFails
  BY <1>6 DEF FlashFails, Failed, host, Threads, Waits
<1>7. CASE config_write_field
  BY <1>7 DEF config_write_field, Completed, host, Threads, Waits
<1>8. CASE comm_usb_send
  BY <1>8 DEF comm_usb_send, host, Threads, Waits
<1>9. CASE WriteReturns
  BY <1>9 DEF WriteReturns, Answered
<1>10. CASE power_update
  BY <1>10 DEF power_update, handlerVars, host
<1>11. CASE accessory_update
  BY <1>11 DEF accessory_update, MainContinues, MainExits
<1>12. CASE led_update
  BY <1>12 DEF led_update, host
<1>13. CASE serial_init_thread
  BY <1>13 DEF serial_init_thread, handlerVars, host
<1>14. CASE HostConnects
  BY <1>14 DEF HostConnects, Reconnects
<1>15. ASSUME NEW r \in {step, Config, Connect}, HostRequests(r)
       PROVE  Protocol' /\ AtWork'
  BY <1>15 DEF HostRequests, HostSends
<1>16. CASE UsbBreaks
  BY <1>16 DEF UsbBreaks
<1>17. CASE Restart
  BY <1>17 DEF Restart, PowerLoss
<1>18. CASE UNCHANGED vars
  BY <1>18 DEF vars, handlerVars, host
<1> QED
  BY <1>1, <1>2, <1>3, <1>4, <1>5, <1>6, <1>7, <1>8, <1>9, <1>10, <1>11,
     <1>12, <1>13, <1>14, <1>15, <1>16, <1>17, <1>18
  DEF Next, Packets, PacketThread, Main

\* What is in the image stays there while the image is not touched.
LEMMA ImageUntouched ==
  ASSUME image' = image, NEW k, NEW m, WrittenUpTo(k, m)
  PROVE  \A n \in DOMAIN Chunks[k].data :
           n <= m => ByteAt(Chunks[k].offset + n - 1)' = Chunks[k].data[n]
BY DEF WrittenUpTo, ByteAt

\* The loop of the write, which programs a half-word, fails or ends.
LEMMA WriteKeepsImage ==
  ImageInv /\ fw_updater_write_firmware => ImageHolds'
<1> SUFFICES ASSUME ImageInv, fw_updater_write_firmware PROVE ImageHolds'
  OBVIOUS
<1> DEFINE k == request
           d == Chunks[k].data
           w == (Chunks[k].offset + i) \div 2
<1>1. /\ pc = "write" /\ request' = request /\ step' = step
      /\ k \in DOMAIN Chunks /\ step = k /\ i \in Nat /\ i % 2 = 0
      /\ DOMAIN image = Words
      /\ \A j \in DOMAIN Chunks : j < step => Written(j)
      /\ WrittenUpTo(k, i)
  BY ChunkNumbers
  DEF ImageInv, fw_updater_write_firmware, host, Protocol, AtWork, ImageHolds,
      NoRequest, Config, Connect
<1>2. Len(d) \in Nat /\ DOMAIN d = 1..Len(d)
  BY <1>1, ChunkFacts
<1>3. ASSUME NEW b, i < Len(d), i + 2 <= Len(d) => b = d[i + 2],
             image' = [image EXCEPT ![w] = <<d[i + 1], b>>],
             pc' = pc, i' = i + 2
      PROVE  ImageHolds'
  <2>1. /\ w \in WordsOf(k)
        /\ \A n \in DOMAIN d : n <= i + 2 =>
             ByteAt(Chunks[k].offset + n - 1)' = d[n]
    BY <1>1, <1>3, WordAdded
  <2>2. \A j \in DOMAIN Chunks : j < step => Written(j)'
    <3> SUFFICES ASSUME NEW j \in DOMAIN Chunks, j < step PROVE Written(j)'
      OBVIOUS
    <3>1. j # k /\ Written(j)
      BY <1>1, ChunkNumbers
    <3> QED
      BY <1>1, <1>3, <2>1, <3>1, OthersKept
  <2>3. WrittenUpTo(request, i)'
    BY <1>1, <1>3, <2>1 DEF WrittenUpTo
  <2> QED
    BY <1>1, <1>3, <2>2, <2>3 DEF ImageHolds
<1>4. CASE Failed
  <2>1. \A j \in DOMAIN Chunks : j < step => Written(j)'
    BY <1>1, <1>4, ImageUntouched DEF Failed, Written, WrittenUpTo
  <2> QED
    BY <1>1, <1>4, <2>1 DEF Failed, ImageHolds
<1>5. CASE i >= Len(d) /\ Completed /\ UNCHANGED image
  <2>1. Written(k)
    BY <1>1, <1>2, <1>5 DEF Written, WrittenUpTo
  <2>2. \A j \in DOMAIN Chunks : j < step => Written(j)'
    BY <1>1, <1>5, ImageUntouched DEF Written, WrittenUpTo
  <2>3. Written(k)'
    BY <1>1, <1>5, <2>1, ImageUntouched DEF Written, WrittenUpTo
  <2> QED
    BY <1>1, <1>5, <2>2, <2>3 DEF Completed, ImageHolds
<1>6. CASE i + 1 < Len(d) /\ Program(w, <<d[i + 1], d[i + 2]>>)
  <2>1. i < Len(d)
    BY <1>1, <1>2, <1>6
  <2>2. \/ Failed
        \/ /\ image' = [image EXCEPT ![w] = <<d[i + 1], d[i + 2]>>]
           /\ pc' = pc /\ i' = i + 2
    BY <1>6 DEF Program
  <2> HIDE DEF d, w
  <2> QED
    BY <1>3, <1>4, <2>1, <2>2
<1>7. ASSUME NEW b, i + 1 = Len(d), Program(w, <<d[i + 1], b>>)
      PROVE  ImageHolds'
  <2>1. i < Len(d) /\ ~(i + 2 <= Len(d))
    BY <1>1, <1>2, <1>7
  <2>2. \/ Failed
        \/ /\ image' = [image EXCEPT ![w] = <<d[i + 1], b>>]
           /\ pc' = pc /\ i' = i + 2
    BY <1>7 DEF Program
  <2> HIDE DEF d, w
  <2> QED
    BY <1>3, <1>4, <2>1, <2>2
<1> QED
  BY <1>5, <1>6, <1>7 DEF fw_updater_write_firmware, DataEnd

\* No step of any actor takes an acknowledged chunk from the image.
LEMMA ImageKept == ImageInv /\ [Next]_vars => ImageHolds'
<1> SUFFICES ASSUME ImageInv, [Next]_vars PROVE ImageHolds'
  OBVIOUS
<1>0. /\ Protocol' /\ AtWork' /\ Threads /\ Protocol /\ AtWork /\ ImageHolds
      /\ Len(Chunks) \in Nat /\ DOMAIN Chunks = 1..Len(Chunks)
  BY ProtocolKept, ChunkNumbers DEF ImageInv
<1>1. ASSUME UNCHANGED <<image, pc, i, result, request, step>>
      PROVE  ImageHolds'
  BY <1>0, <1>1 DEF ImageHolds, Written, WrittenUpTo, ByteAt
<1>2. ASSUME image' = image
      PROVE  \A k \in DOMAIN Chunks : Written(k) => Written(k)'
  BY <1>2 DEF Written, WrittenUpTo, ByteAt
<1>3. CASE process_packet
  <2>1. image' = image /\ step' = step /\ i' = 0 /\ pc' \notin {"reply", "sending"}
    BY <1>3 DEF process_packet, host
  <2>2. pc' = "write" => WrittenUpTo(request, i)'
    <3> SUFFICES ASSUME pc' = "write" PROVE WrittenUpTo(request, i)'
      OBVIOUS
    <3>1. request' \in DOMAIN Chunks
      BY <1>0 DEF AtWork
    <3>2. DOMAIN Chunks[request'].data = 1..Len(Chunks[request'].data)
      BY <3>1, ChunkFacts
    <3> QED
      BY <2>1, <3>2 DEF WrittenUpTo
  <2> QED
    BY <1>0, <1>2, <2>1, <2>2 DEF ImageHolds
<1>4. CASE PacketConnect
  BY <1>0, <1>2, <1>4 DEF PacketConnect, Taken, Connect, host, ImageHolds
<1>5. CASE fw_updater_erase_new_firmware
  <2>1. /\ pc' \in {"erase", "reply"} /\ request' = 0 /\ step' = 0
        /\ DOMAIN image' = Words
    BY <1>0, <1>5
    DEF fw_updater_erase_new_firmware, Completed, host, Protocol, AtWork,
        ImageHolds, NoRequest, Config, Connect
  <2> QED
    BY <1>0, <2>1 DEF ImageHolds
<1>6. CASE fw_updater_write_firmware
  BY <1>6, WriteKeepsImage
<1>7. CASE FlashFails
  BY <1>0, <1>2, <1>7 DEF FlashFails, Failed, host, ImageHolds
<1>8. CASE config_write_field
  BY <1>0, <1>2, <1>8
  DEF config_write_field, Completed, host, AtWork, Config, ImageHolds
<1>9. CASE comm_usb_send
  <2>1. /\ pc = "reply" /\ pc' = "sending"
        /\ UNCHANGED <<image, i, result, request, step>>
    BY <1>9 DEF comm_usb_send, host
  <2> QED
    BY <1>0, <1>2, <2>1 DEF ImageHolds
<1>10. CASE WriteReturns
  <2>1. /\ pc = "sending" /\ pc' = "idle" /\ image' = image
        /\ step' = step \/ step' = Answered
    BY <1>10 DEF WriteReturns
  <2>2. \A k \in DOMAIN Chunks : k < step' => Written(k)
    <3> SUFFICES ASSUME NEW k \in DOMAIN Chunks, k < step' PROVE Written(k)
      OBVIOUS
    <3>1. CASE k < step
      BY <1>0, <3>1 DEF ImageHolds
    <3>2. CASE ~(k < step)
      <4>1. request \in Steps /\ result /\ step' = step + 1
        BY <1>0, <2>1, <3>2 DEF Answered, Protocol, Steps
      <4>2. request = step /\ k = step
        BY <1>0, <3>2, <4>1 DEF Protocol, Steps, NoRequest, Config, Connect
      <4> QED
        BY <1>0, <2>1, <4>1, <4>2 DEF ImageHolds
    <3> QED
      BY <3>1, <3>2
  <2> QED
    BY <1>0, <1>2, <2>1, <2>2 DEF ImageHolds
<1>11. CASE Restart
  BY <1>0, <1>2, <1>11 DEF Restart, PowerLoss, ImageHolds
<1>12. CASE Jump
  BY <1>1, <1>12 DEF Jump, fw_updater_jump_bootloader
<1>13. CASE power_update \/ serial_init_thread
  BY <1>1, <1>13 DEF power_update, serial_init_thread, handlerVars, host
<1>14. CASE accessory_update
  BY <1>1, <1>14 DEF accessory_update
<1>15. CASE led_update
  BY <1>1, <1>15 DEF led_update, host
<1>16. CASE HostConnects
  BY <1>1, <1>16 DEF HostConnects, Reconnects
<1>17. ASSUME NEW r, HostRequests(r) PROVE ImageHolds'
  BY <1>1, <1>17 DEF HostRequests, HostSends
<1>18. CASE UsbBreaks
  BY <1>1, <1>18 DEF UsbBreaks
<1>19. CASE UNCHANGED vars
  BY <1>1, <1>19 DEF vars, handlerVars, host
<1> QED
  BY <1>3, <1>4, <1>5, <1>6, <1>7, <1>8, <1>9, <1>10, <1>11, <1>12, <1>13,
     <1>14, <1>15, <1>16, <1>17, <1>18, <1>19
  DEF Next, Packets, PacketThread, Main

\* Every acknowledged chunk is in the image, byte for byte, whatever fails, is
\* lost or is repeated: a write that meets what an earlier one has left behind
\* fails, chunks share no half-word, and nothing but an erase that the host
\* starts over with clears one (fw_updater.c:18, packet.c:175).
THEOREM AcknowledgedStays == Spec => []AcknowledgedInImage
<1>1. Init => ImageInv
  <2> USE ChunkNumbers
  <2>1. Init => Threads /\ Protocol /\ AtWork
    BY DEF Init, HandlersInit, Threads, Protocol, AtWork, Locked, Waits, Steps,
           NoRequest, Config, Connect
  <2>2. Init => ImageHolds
    BY DEF Init, HandlersInit, ImageHolds
  <2> QED
    BY <2>1, <2>2 DEF ImageInv
<1>2. LockInv' /\ ImageInv /\ [Next]_vars => ImageInv'
  BY ProtocolKept, ImageKept DEF ImageInv, LockInv
<1>3. ImageInv => AcknowledgedInImage
  <2> SUFFICES ASSUME ImageInv, NEW k \in 1..(step - 1), k <= Len(Chunks),
                      NEW n \in DOMAIN Chunks[k].data
               PROVE  ByteAt(Chunks[k].offset + n - 1) = Chunks[k].data[n]
    BY DEF AcknowledgedInImage
  <2>1. k \in DOMAIN Chunks /\ k < step
    BY ChunkNumbers DEF ImageInv, Protocol, Steps
  <2>2. Written(k)
    BY <2>1 DEF ImageInv, ImageHolds
  <2>3. n <= Len(Chunks[k].data)
    BY <2>1, ChunkFacts
  <2> QED
    BY <2>2, <2>3 DEF Written, WrittenUpTo
<1> QED
  BY <1>1, <1>2, <1>3, LockHolds, PTL DEF Spec
=============================================================================
