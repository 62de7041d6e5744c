------------------------------- MODULE I2cBus -------------------------------
(***************************************************************************)
(* The I2C bus and its users.  The main thread talks to the INA226         *)
(* (current_monitor_update), the DAC (set_voltage) and the clock           *)
(* (rtcc_update, rtcc_enable_alarm); the packet thread sets the alert      *)
(* limit of the INA226 (current_monitor_set_overcurrent).  All of them     *)
(* bracket their transfers with i2cAcquireBus and i2cReleaseBus, except    *)
(* rtcc_enable_alarm.                                                      *)
(*                                                                         *)
(* Both threads have the same priority and there is no time slice: a       *)
(* thread runs from the end of one wait to the next one.  An action is     *)
(* such a run.  A mutex that is released belongs at once to the thread     *)
(* that waits for it, which runs later.                                    *)
(*                                                                         *)
(* The clock goes on meanwhile: rtcc_update reads its date in a transfer   *)
(* for each register and does not look at their results, and               *)
(* rtcc_enable_alarm uses what it read last.                               *)
(***************************************************************************)
EXTENDS FiniteSets, Rtcc

CONSTANTS
  Transfers,     \* number of transfers of each section
  MayTimeOut,    \* whether a transfer may time out or fail
  Dates,         \* dates of the clock at the start
  Hours,         \* bytes of its hour register
  MaxMidnights   \* midnights in a behaviour

Threads == {"main", "packet"}

\* Sections of transfers, and those that hold the bus.
Sections == {"monitor", "voltage", "alarm", "clock", "overcurrent"}
ClockUnlocked == Sections \ {"alarm", "clock"}
Locked == Sections \ {"alarm"}

ASSUME I2cAssumption ==
  /\ Transfers \in [Sections -> Nat \ {0}]
  /\ Transfers["clock"] >= 4 /\ Transfers["alarm"] = 2
  /\ MayTimeOut \in BOOLEAN
  /\ \A d \in Dates : ValidDate(d)
  /\ Hours \subseteq Byte
  /\ MaxMidnights \in Nat

VARIABLES
  at,       \* section of each thread; "away" outside of all, "exit" at the end
  left,     \* transfers left in it
  waiting,  \* threads that wait for the mutex
  owner,    \* owner of the mutex
  active,   \* threads whose transfer is under way
  state,    \* i2cp->state
  shutdown, \* power_update has called rtcc_enable_alarm
  found,    \* driver state that the last transfer found when it began
  date,     \* of the clock
  midnights,\* history: midnights so far
  rx,       \* byte that rtcc_update received last
  time,     \* day, month and year as rtcc_update read them
  read,     \* history: what time is, see OneDayOlder
  alarm,    \* day register of the alarm
  set       \* history: what time was when the alarm was set

clock == <<date, midnights, rx, time, read, alarm, set>>
vars == <<at, left, waiting, owner, active, state, shutdown, found, clock>>

Other(t) == CHOOSE u \in Threads : u # t

-----------------------------------------------------------------------------
(* The driver and the mutex, as functions of what the run has done so far.  *)

\* i2cMasterTransmitTimeout up to its wait, called in driver state s.
Transmit(t, s, actives) ==
  /\ found' = s
  /\ state' = "ACTIVE_TX"
  /\ active' = actives \union {t}

\* Owner after i2cReleaseBus by t.
FreeAlways(t) == "none"
HandOver(t) == IF waiting = {} THEN "none" ELSE Other(t)

\* t goes on to section s, in driver state d, with the mutex owned by o.
Acquired(t, s, o) == s \in Locked => o = "none"
OwnerAfter(t, s, o) == IF s \in Locked THEN t ELSE o

Enter(t, s, d, o, actives, waits) ==
  /\ at' = [at EXCEPT ![t] = s]
  /\ left' = [left EXCEPT ![t] = Transfers[s]]
  /\ IF Acquired(t, s, o)
     THEN /\ Transmit(t, d, actives)
          /\ owner' = OwnerAfter(t, s, o)
          /\ waiting' = waits
     ELSE /\ waiting' = waits \union {t}
          /\ owner' = o
          /\ state' = d
          /\ active' = actives
          /\ UNCHANGED found

\* t leaves for a wait that is not about the bus.
Leave(t, place, d, o, actives, waits) ==
  /\ at' = [at EXCEPT ![t] = place]
  /\ left' = [left EXCEPT ![t] = 0]
  /\ waiting' = waits
  /\ owner' = o
  /\ state' = d
  /\ active' = actives
  /\ UNCHANGED found

-----------------------------------------------------------------------------
(* The clock.                                                               *)

\* The register that the transfer with n left to go reads, one of them at a
\* time and in this order: hours, days, months, years.
Register(n) ==
  CASE n = 3 -> {HEX_TO_BCD(date.day)}
    [] n = 2 -> {HEX_TO_BCD(date.month)}
    [] n = 1 -> {HEX_TO_BCD(date.year)}
    [] OTHER -> Hours

\* A failed transfer leaves rx as it was, and rtcc_update uses it all the same.
rtcc_update(n, ok) ==
  \E b \in IF ok THEN Register(n) ELSE {rx} :
    /\ rx' = IF n = 1 THEN 0 ELSE b
    /\ time' = CASE n = 3 -> [time EXCEPT !.day = Day(b)]
                 [] n = 2 -> [time EXCEPT !.month = Month(b)]
                 [] n = 1 -> [time EXCEPT !.year = Year(b)]
                 [] OTHER -> time
    /\ read' = CASE n <= 3 /\ ~ok -> "failed"
                 [] n = 3 /\ ok -> "whole"
                 [] OTHER -> read
    /\ UNCHANGED <<date, midnights, alarm, set>>

\* The first transfer sets the day, the second enables the alarm.  One that
\* fails, or overlaps with one of the packet thread, does not do its part.
rtcc_enable_alarm(n, ok) ==
  /\ alarm' = IF n = 2 /\ ok THEN HEX_TO_BCD(AlarmDay(time)) ELSE alarm
  /\ set' = CASE ~ok \/ active # {"main"} \/ set = "overlapped" -> "failed"
              [] ok /\ n = 2 -> read
              [] OTHER -> set
  /\ UNCHANGED <<date, midnights, rx, time, read>>

ClockTransfer(t, ok) ==
  \/ at[t] = "clock" /\ rtcc_update(left[t], ok)
  \/ at[t] = "alarm" /\ rtcc_enable_alarm(left[t], ok)
  \/ /\ at[t] \notin {"clock", "alarm"}
     /\ set' = IF at["main"] = "alarm" THEN "overlapped" ELSE set
     /\ UNCHANGED <<date, midnights, rx, time, read, alarm>>

\* What was read is of today if it is "whole" and nothing if it is "never"
\* or "failed"; "torn" was read on both sides of the last midnight.
OneDayOlder(h) ==
  CASE h = "whole" -> "yesterday"
    [] h \in {"yesterday", "torn"} -> "older"
    [] OTHER -> h

Midnight ==
  /\ at["main"] # "exit"
  /\ midnights < MaxMidnights
  /\ midnights' = midnights + 1
  /\ date' = NextDay(date)
  /\ read' = IF read = "whole" /\ at["main"] = "clock" /\ left["main"] \in {1, 2}
             THEN "torn" ELSE OneDayOlder(read)
  /\ set' = OneDayOlder(set)
  /\ UNCHANGED <<at, left, waiting, owner, active, state, shutdown, found,
                 rx, time, alarm>>

-----------------------------------------------------------------------------
(* The threads.                                                             *)

\* What follows a section of the main thread: charger_update may call
\* set_voltage, power_update may call rtcc_enable_alarm, rtcc_update follows
\* in any case, and the loop ends after it on shutdown.
After(s) ==
  CASE s = "monitor" -> {"voltage", "alarm", "clock"}
    [] s = "voltage" -> {"alarm", "clock"}
    [] s = "alarm"   -> {"clock"}
    [] s = "clock"   -> {IF shutdown THEN "exit" ELSE "away"}
    [] s = "overcurrent" -> {"away"}

\* The main thread has left its loop and spins: the packet thread, of the
\* same priority, never runs again.
Running == at["main"] # "exit"

\* The main thread comes back from the ADC and the SPI transfers.
current_monitor_update ==
  /\ at["main"] = "away"
  /\ Enter("main", "monitor", state, owner, active, waiting)
  /\ UNCHANGED <<shutdown, clock>>

\* The packet thread handles a new maxCurrentCutoff.
current_monitor_set_overcurrent ==
  /\ Running
  /\ at["packet"] = "away"
  /\ Enter("packet", "overcurrent", state, owner, active, waiting)
  /\ UNCHANGED <<shutdown, clock>>

\* A thread that was given the mutex begins its transfers.
Granted(t) ==
  /\ Running
  /\ t \in waiting
  /\ owner = t
  /\ waiting' = waiting \ {t}
  /\ Transmit(t, state, active)
  /\ UNCHANGED <<at, left, owner, shutdown, clock>>

\* A transfer of t ends and t runs on: the next transfer, or the end of the
\* section and what follows it.
TransferEnds(t, outcome, ok) ==
  /\ Running
  /\ t \in active
  /\ ClockTransfer(t, ok)
  /\ LET rest == active \ {t}
         s == at[t]
         o == IF s \in Locked THEN HandOver(t) ELSE owner
     IN  \/ /\ left[t] > 1
            /\ left' = [left EXCEPT ![t] = left[t] - 1]
            /\ Transmit(t, outcome, rest)
            /\ UNCHANGED <<at, waiting, owner, shutdown>>
         \/ /\ left[t] = 1
            /\ \E n \in After(s) :
                 /\ shutdown' = (shutdown \/ n = "alarm")
                 /\ IF n \in Sections
                    THEN Enter(t, n, outcome, o, rest, waiting)
                    ELSE Leave(t, n, outcome, o, rest, waiting)

\* A transfer succeeds, is not acknowledged, or times out.
Thread(t) ==
  \/ Granted(t)
  \/ TransferEnds(t, "READY", TRUE)
  \/ MayTimeOut /\ TransferEnds(t, "READY", FALSE)
  \/ MayTimeOut /\ TransferEnds(t, "LOCKED", FALSE)

Next ==
  \/ current_monitor_update
  \/ current_monitor_set_overcurrent
  \/ \E t \in Threads : Thread(t)
  \/ Midnight

Init ==
  /\ at = [t \in Threads |-> "away"]
  /\ left = [t \in Threads |-> 0]
  /\ waiting = {}
  /\ owner = "none"
  /\ active = {}
  /\ state = "READY"
  /\ shutdown = FALSE
  /\ found = "READY"
  /\ date \in Dates /\ midnights = 0
  /\ rx = 0 /\ time = [day |-> 0, month |-> 0, year |-> 0]
  /\ read = "never" /\ alarm = 0 /\ set = "never"

\* Every transfer ends within its 10 ms and every ready thread gets its turn.
Spec ==
  /\ Init /\ [][Next]_vars
  /\ WF_vars(current_monitor_update)
  /\ \A t \in Threads : WF_vars(Thread(t))

-----------------------------------------------------------------------------
(* Properties.                                                              *)

\* Two transfers are under way at once only while rtcc_enable_alarm, which
\* does not take the bus, is one of them (rtcc.c:80).
OverlapOnlyInAlarm == Cardinality(active) <= 1 \/ at["main"] = "alarm"

\* Every transfer finds the driver ready (i2c.c:180).
FoundReady == found = "READY"

\* A thread that waits for the bus gets it, unless the main loop ends first.
BusGranted ==
  \A t \in Threads : t \in waiting ~> t \notin waiting \/ at["main"] = "exit"

\* When the loop has ended, the alarm that was set comes 26 to 30 days later,
\* at the ends of all months and years and although midnight may have passed
\* since the date was read; midnight in the middle of reading it puts two
\* dates together and may double that.  Nothing is said of a failed or
\* overlapped transfer, of a shutdown before the first rtcc_update, nor of two
\* midnights between that and the end of the loop (rtcc.c:68, 75).
AlarmInAMonth ==
  at["main"] = "exit" /\ set \in {"whole", "yesterday", "torn"} =>
    DaysUntil(date, alarm, 70) \in
      IF set = "torn" THEN 26..58 ELSE 26..30
=============================================================================
