------------------------------ MODULE Handlers ------------------------------
(***************************************************************************)
(* The handlers of process_packet that change state: connect, the fields   *)
(* of the configuration, and the firmware update of fw_updater.c with its  *)
(* counting lock; and a host that sends a new firmware in chunks.          *)
(*                                                                         *)
(* The host waits for the reply to every request.  A lost connection loses *)
(* the request or the reply, and the host repeats the request; on a        *)
(* negative reply it starts over with the erase; it jumps to the           *)
(* bootloader once everything was acknowledged.                            *)
(*                                                                         *)
(* utils_sys_lock_cnt masks the interrupts at the first lock and           *)
(* utils_sys_unlock_cnt unmasks them at the last unlock.  A programming or *)
(* an erase that a power loss interrupts has happened or not.              *)
(***************************************************************************)
EXTENDS Integers, Sequences

CONSTANTS
  FW_NUM_PAGES,   \* 48
  PageWords,      \* half-words of a page: 1024
  Chunks,         \* the file: a sequence of [offset, data]
  Bytes,          \* bytes that may be behind the payload in packet_buffer
  MaxFaults       \* flash errors, lost connections and power losses together

Blank == <<255, 255>>
Zero  == <<0, 0>>
Words == 0..(FW_NUM_PAGES * PageWords - 1)
Steps == 0..(Len(Chunks) + 1)   \* erase, the chunks, jump

\* Half-words that hold a byte of chunk k.
WordsOf(k) ==
  {(Chunks[k].offset + n - 1) \div 2 : n \in DOMAIN Chunks[k].data}

\* Chunks begin at half-words, lie within the pages and do not overlap.
ASSUME FwAssumption ==
  /\ FW_NUM_PAGES \in Nat \ {0} /\ PageWords \in Nat \ {0}
  /\ Chunks \in Seq([offset : Nat, data : Seq(0..255)])
  /\ \A k \in DOMAIN Chunks :
       /\ Chunks[k].offset % 2 = 0
       /\ WordsOf(k) \subseteq Words
  /\ \A j, k \in DOMAIN Chunks : j # k => WordsOf(j) \intersect WordsOf(k) = {}
  /\ MaxFaults \in Nat

VARIABLES
  mode,      \* "run", "exit" after the main loop, "bootloader"
  connect_event,
  image,     \* half-words from NEW_FW_ADDR
  pc,        \* the packet thread: "idle", a handler, "reply" or "sending"
  i,         \* index of the loop over pages or bytes
  result,    \* of the flash operations
  sys_lock_cnt, masked,
  failures,  \* history: calls that failed since the start
  faults,    \* history: faults of all kinds
  step,      \* the host's next request, all earlier ones are acknowledged
  inbox,     \* request on the way to the handler
  request,   \* request of the handler at work
  awaiting,  \* the host waits for a reply
  connected

lock == <<sys_lock_cnt, masked>>
host == <<step, awaiting, connected>>
handlerVars == <<mode, connect_event, image, pc, i, result, lock, failures, faults, inbox, request, host>>

NoRequest == -1
Config == -2
Connect == -3

-----------------------------------------------------------------------------
(* The counting lock.                                                       *)

FirstLock == sys_lock_cnt = 0

utils_sys_lock_cnt ==
  /\ sys_lock_cnt' = sys_lock_cnt + 1
  /\ masked' = (masked \/ FirstLock)

utils_sys_unlock_cnt ==
  /\ sys_lock_cnt' = sys_lock_cnt - 1
  /\ masked' = (masked /\ sys_lock_cnt # 1)

-----------------------------------------------------------------------------
(* The handlers.                                                            *)

Taken == request' = inbox /\ inbox' = NoRequest

\* The packet thread takes the request; updater and configuration begin with
\* the lock.
process_packet ==
  /\ mode = "run"
  /\ pc = "idle"
  /\ inbox \in {Config} \union (Steps \ {Len(Chunks) + 1})
  /\ pc' = CASE inbox = 0 -> "erase" [] inbox = Config -> "config" [] OTHER -> "write"
  /\ i' = 0
  /\ utils_sys_lock_cnt
  /\ Taken
  /\ UNCHANGED <<mode, connect_event, image, result, failures, faults, host>>

PacketConnect ==
  /\ mode = "run"
  /\ pc = "idle"
  /\ inbox = Connect
  /\ connect_event' = TRUE
  /\ pc' = "reply"
  /\ Taken
  /\ UNCHANGED <<mode, image, i, result, lock, failures, faults, host>>

\* The loop has ended.
CompletedSilently ==
  /\ pc' = "idle"
  /\ result' = TRUE
  /\ utils_sys_unlock_cnt
  /\ UNCHANGED <<i, failures>>

CompletedLocked ==
  /\ pc' = "reply"
  /\ result' = TRUE
  /\ UNCHANGED <<i, failures, lock>>

Completed ==
  /\ pc' = "reply"
  /\ result' = TRUE
  /\ utils_sys_unlock_cnt
  /\ UNCHANGED <<i, failures>>

\* An operation failed: both functions return without unlocking.
Failed ==
  /\ pc' = "reply"
  /\ result' = FALSE
  /\ failures' = failures + 1
  /\ UNCHANGED <<image, i, lock>>

Page(n) == n * PageWords .. (n + 1) * PageWords - 1

PagesToErase == FW_NUM_PAGES

fw_updater_erase_new_firmware ==
  /\ pc = "erase"
  /\ \/ /\ i < PagesToErase
        /\ image' = [w \in Words |-> IF w \in Page(i) THEN Blank ELSE image[w]]
        /\ i' = i + 1
        /\ UNCHANGED <<pc, result, lock, failures>>
     \/ i = PagesToErase /\ Completed /\ UNCHANGED image
  /\ UNCHANGED <<mode, connect_event, faults, inbox, request, host>>

\* FLASH_ProgramHalfWord refuses a half-word that is not blank, unless zero
\* is written.
Programmable(w, v) == image[w] = Blank \/ v = Zero

\* The byte after an odd number of bytes is whatever packet_buffer holds.
WholeWords(data) == Len(data) - (Len(data) % 2)
DataEnd(data) == Len(data)

Program(w, v) ==
  \/ /\ Programmable(w, v)
     /\ image' = [image EXCEPT ![w] = v]
     /\ i' = i + 2
     /\ UNCHANGED <<pc, result, lock, failures>>
  \/ ~Programmable(w, v) /\ Failed

fw_updater_write_firmware ==
  /\ pc = "write"
  /\ LET data == Chunks[request].data
         w == (Chunks[request].offset + i) \div 2
     IN  \/ /\ i < DataEnd(data)
            /\ \/ i + 1 < Len(data) /\ Program(w, <<data[i + 1], data[i + 2]>>)
               \/ /\ i + 1 = Len(data)
                  /\ \E b \in Bytes : Program(w, <<data[i + 1], b>>)
         \/ i >= DataEnd(data) /\ Completed /\ UNCHANGED image
  /\ UNCHANGED <<mode, connect_event, faults, inbox, request, host>>

\* The flash reports an error.
FlashFails ==
  /\ pc \in {"erase", "write"}
  /\ faults < MaxFaults
  /\ faults' = faults + 1
  /\ Failed
  /\ UNCHANGED <<mode, connect_event, inbox, request, host>>

\* config_write_field holds the lock while it writes to the EEPROM and
\* releases it whether that fails or not.
config_write_field ==
  /\ pc = "config"
  /\ Completed
  /\ UNCHANGED <<mode, connect_event, image, faults, inbox, request, host>>

\* The mutex of comm_usb_send enters and leaves a critical zone, which
\* unmasks the interrupts even if the count is not zero.
comm_usb_send ==
  /\ pc = "reply"
  /\ pc' = "sending"
  /\ masked' = FALSE
  /\ UNCHANGED <<mode, connect_event, image, i, result, sys_lock_cnt, failures,
                 faults, inbox, request, host>>

\* The host's next step once it has the reply.
Answered ==
  CASE request \in {Config, Connect} -> step
    [] request \in Steps /\ result -> step + 1
    [] OTHER -> 0

\* The write returns, when the host has read the reply or has gone.
WriteReturns ==
  /\ mode = "run"
  /\ pc = "sending"
  /\ pc' = "idle" /\ i' = 0 /\ request' = NoRequest
  /\ \/ connected /\ step' = Answered /\ awaiting' = FALSE
     \/ ~connected /\ UNCHANGED <<step, awaiting>>
  /\ UNCHANGED <<mode, connect_event, image, result, lock, failures, faults, inbox, connected>>

fw_updater_jump_bootloader ==
  /\ mode = "run"
  /\ pc = "idle"
  /\ inbox = Len(Chunks) + 1
  /\ mode' = "bootloader"
  /\ masked' = TRUE
  /\ inbox' = NoRequest
  /\ connected' = FALSE
  /\ UNCHANGED <<connect_event, image, pc, i, result, sys_lock_cnt, failures, faults, request, step, awaiting>>

-----------------------------------------------------------------------------
(* Host, line and supply.                                                   *)

HostSends(r) ==
  /\ mode = "run"
  /\ connected
  /\ ~awaiting
  /\ inbox' = r
  /\ awaiting' = TRUE
  /\ UNCHANGED <<mode, connect_event, image, pc, i, result, lock, failures, faults, request, step, connected>>

\* The line breaks: a request that no handler has taken is lost, and so is
\* the reply of a handler that is at work.
UsbBreaks ==
  /\ mode = "run"
  /\ connected
  /\ faults < MaxFaults
  /\ faults' = faults + 1
  /\ connected' = FALSE
  /\ inbox' = NoRequest
  /\ UNCHANGED <<mode, connect_event, image, pc, i, result, lock, failures, request, step, awaiting>>

\* The host connects again when a late reply can no longer come, and repeats
\* what was not answered.
Reconnects ==
  /\ mode = "run"
  /\ ~connected
  /\ pc = "idle"
  /\ connected' = TRUE
  /\ awaiting' = FALSE
  /\ UNCHANGED <<mode, connect_event, image, pc, i, result, lock, failures, faults, step, inbox, request>>

PowerLoss ==
  /\ mode = "run"
  /\ faults < MaxFaults
  /\ faults' = faults + 1
  /\ pc' = "idle" /\ i' = 0 /\ result' = TRUE /\ connect_event' = FALSE
  /\ sys_lock_cnt' = 0 /\ masked' = FALSE /\ failures' = 0
  /\ inbox' = NoRequest /\ request' = NoRequest /\ connected' = FALSE
  /\ UNCHANGED <<mode, image, step, awaiting>>

-----------------------------------------------------------------------------
HandlersInit ==
  /\ mode = "run" /\ connect_event = FALSE
  /\ image \in [Words -> {Blank, Zero}]
  /\ pc = "idle" /\ i = 0 /\ result = TRUE
  /\ sys_lock_cnt = 0 /\ masked = FALSE
  /\ failures = 0 /\ faults = 0
  /\ step = 0 /\ inbox = NoRequest /\ request = NoRequest /\ awaiting = FALSE /\ connected = FALSE

\* The packet thread, but for the jump.
PacketThread ==
  \/ process_packet
  \/ PacketConnect
  \/ fw_updater_erase_new_firmware
  \/ fw_updater_write_firmware
  \/ FlashFails
  \/ config_write_field
  \/ comm_usb_send
  \/ WriteReturns

-----------------------------------------------------------------------------
(* Properties.                                                              *)

ByteAt(a) == image[a \div 2][1 + (a % 2)]

\* Every chunk that was acknowledged since the last acknowledged erase is in
\* the image, byte for byte, in spite of repeated requests, failed
\* operations and restarts; so the bootloader is entered with the whole file
\* (fw_updater.c:18, packet.c:175).
AcknowledgedInImage ==
  \A k \in 1..(step - 1) : k <= Len(Chunks) =>
    \A n \in DOMAIN Chunks[k].data :
      ByteAt(Chunks[k].offset + n - 1) = Chunks[k].data[n]

\* Whenever other threads run, the lock count is the number of calls that
\* failed since the start, each of which returned from inside the locked
\* section (fw_updater.c:21, 39), and yet the interrupts are not masked.  The
\* locked sections run with interrupts masked as long as no flash operation
\* of the updater has failed; after that no section is protected.
LeakedByFailures ==
  /\ pc \in {"idle", "sending"} /\ mode = "run" => sys_lock_cnt = failures /\ ~masked
  /\ pc \in {"erase", "write", "config"} => (masked <=> failures = 0)
=============================================================================
