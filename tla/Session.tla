------------------------------ MODULE Session -------------------------------
(***************************************************************************)
(* A session of the device: the packet thread of Handlers together with    *)
(* the end of the main loop, the LED thread, the accessory output and the  *)
(* USB bus, which comes up 1.5 s after the start and goes down for good    *)
(* when the main loop ends or the bootloader is entered.                   *)
(*                                                                         *)
(* All threads have the same priority and there is no time slice: a thread *)
(* runs from one wait to the next, and the main thread, which spins after  *)
(* its loop, lets no other thread run again.                               *)
(***************************************************************************)
EXTENDS Handlers

VARIABLES
  shutdown,  \* power_is_shutdown()
  main,      \* the main thread: "loop", or "rtcc" while rtcc_update waits
  led,       \* colour of the RGB LED
  pattern,   \* colours that the LED thread has still to show
  ledThread, \* whether the LED thread has not ended
  acc1,      \* whether ACC1 is pulled low
  usb        \* "off", "up" or "stopped"

indicators == <<led, pattern, ledThread>>
board == <<shutdown, main, indicators, acc1, usb>>
vars == <<handlerVars, board>>

Dark == 0
Cyan == 65535
\* Clock alarm, fault, balancing, charging, none of these.
Colours == {16711765, 16711680, 255, 16720384, 65280}

\* A thread may run: the main thread has not left its loop, and no handler is at
\* work.  None of them waits between its lock and its reply; the transfer of
\* current_monitor_set_overcurrent, for which a write of maxCurrentCutoff waits
\* (config.c:139), comes before and counts as part of the way to the handler.
ScheduledAfterExit == mode # "bootloader" /\ pc \in {"idle", "sending"}
Scheduled == mode = "run" /\ pc \in {"idle", "sending"}

-----------------------------------------------------------------------------
\* One run of the LED thread, from one sleep to the next.
Show(colours) == led' = Head(colours) /\ pattern' = Tail(colours)

\* packet_connect_event is called between patterns only.
ClearedOnWake == FALSE
KeptWhileShowing == connect_event

led_update ==
  /\ Scheduled
  /\ ledThread
  /\ \/ /\ pattern # <<>>
        /\ Show(pattern)
        /\ connect_event' = KeptWhileShowing
        /\ UNCHANGED ledThread
     \/ /\ pattern = <<>> /\ shutdown
        /\ led' = Dark /\ ledThread' = FALSE
        /\ UNCHANGED <<connect_event, pattern>>
     \/ /\ pattern = <<>> /\ ~shutdown /\ connect_event
        /\ Show(<<Cyan, Dark, Cyan, Dark, Cyan, Dark>>)
        /\ connect_event' = FALSE
        /\ UNCHANGED ledThread
     \/ /\ pattern = <<>> /\ ~shutdown /\ ~connect_event
        /\ \E c \in Colours : Show(<<c, Dark>>)
        /\ UNCHANGED <<connect_event, ledThread>>
  /\ UNCHANGED <<mode, image, pc, i, result, lock, failures, faults, inbox, request, host>>
  /\ UNCHANGED <<shutdown, main, acc1, usb>>

serial_init_thread ==
  /\ Scheduled
  /\ usb = "off"
  /\ usb' = "up"
  /\ UNCHANGED <<handlerVars, shutdown, main, indicators, acc1>>

\* The main loop up to the wait in rtcc_update.
power_update ==
  /\ Scheduled
  /\ main = "loop"
  /\ shutdown' \in {shutdown, TRUE}
  /\ main' = "rtcc"
  /\ UNCHANGED <<handlerVars, indicators, acc1, usb>>

\* The rest of the pass: accessory_update, and the end of the loop.
MainContinues ==
  /\ ~shutdown
  /\ acc1' = TRUE
  /\ main' = "loop"
  /\ UNCHANGED <<mode, connected, led, usb>>

MainExits ==
  /\ shutdown
  /\ acc1' = FALSE
  /\ usb' = "stopped" /\ connected' = FALSE
  /\ led' = Dark
  /\ mode' = "exit"
  /\ UNCHANGED main

accessory_update ==
  /\ Scheduled
  /\ main = "rtcc"
  /\ MainContinues \/ MainExits
  /\ UNCHANGED <<connect_event, image, pc, i, result, lock, failures, faults,
                 inbox, request, step, awaiting, shutdown, pattern, ledThread>>

\* comm_usb_deinit before the jump.
Jump ==
  /\ fw_updater_jump_bootloader
  /\ usb' = "stopped"
  /\ UNCHANGED <<shutdown, main, indicators, acc1>>

Restart ==
  /\ PowerLoss
  /\ shutdown' = FALSE /\ main' = "loop"
  /\ led' = Dark /\ pattern' = <<>> /\ ledThread' = TRUE
  /\ acc1' = FALSE /\ usb' = "off"

Packets == Jump \/ (PacketThread /\ UNCHANGED board)

HostConnects == usb = "up" /\ Reconnects /\ UNCHANGED board
HostRequests(r) == HostSends(r) /\ UNCHANGED board

-----------------------------------------------------------------------------
Init ==
  /\ HandlersInit
  /\ shutdown = FALSE /\ main = "loop"
  /\ led = Dark /\ pattern = <<>> /\ ledThread = TRUE
  /\ acc1 = FALSE /\ usb = "off"

Main == power_update \/ accessory_update

Next ==
  \/ Packets \/ Main \/ led_update \/ serial_init_thread
  \/ HostConnects
  \/ \E r \in {step, Config, Connect} : HostRequests(r)
  \/ UsbBreaks /\ UNCHANGED board
  \/ Restart

\* The ready list is first in, first out: a thread whose wait is over gets its
\* turn although handlers, during which it cannot run, come again and again.
\* The host connects again.
Spec ==
  /\ Init /\ [][Next]_vars
  /\ WF_vars(Packets) /\ SF_vars(Main)
  /\ SF_vars(led_update) /\ SF_vars(serial_init_thread)
  /\ WF_vars(HostConnects)

-----------------------------------------------------------------------------
(* Properties.                                                              *)

\* Once the main loop has ended the device is dark, ACC1 is released and the
\* bus is down, and they stay so: the LED thread in the middle of a pattern,
\* the start of the bus in its 1.5 s wait and the packet thread in a reply
\* are cut short (main.c:197).
ExitIsFinal == mode = "exit" => led = Dark /\ ~acc1 /\ usb = "stopped"

\* An update ends in the bootloader in spite of lost requests and replies,
\* failed flash operations and power losses, unless the device is shut down
\* or the host gives up the update for its other requests (packet.c:169).
UpdateCompletes ==
  SF_vars(HostRequests(step)) => <>(mode = "bootloader" \/ shutdown)

\* A connect event is shown, unless the device stops or restarts first, and
\* although the flag is set by one thread while the other one tests and
\* clears it (packet.c:236).
ConnectShown ==
  connect_event ~> led = Cyan \/ shutdown \/ mode # "run" \/ usb = "off"
=============================================================================
