------------------------------- MODULE Power -------------------------------
(***************************************************************************)
(* The discharge path of the battery manager: power.c, faults.c, the       *)
(* samplers that feed it (analog.c, current_monitor.c) and the main loop   *)
(* of main.c, as three actors.                                             *)
(*                                                                         *)
(*   - the main thread runs power_init once and then its loop for ever;    *)
(*   - the over-current interrupt curr_alert may run between any two       *)
(*     instructions of the main thread;                                    *)
(*   - the packet thread has the same priority as the main thread and      *)
(*     CH_CFG_TIME_QUANTUM is 0, so it runs only while the main thread is  *)
(*     blocked in an ADC, SPI or I2C transfer.                             *)
(*                                                                         *)
(* power_update is split where the interrupt makes a difference: after the *)
(* test of line 52, after the switches are driven, and while               *)
(* rtcc_enable_alarm blocks.  faults_set_fault is a load and a store.      *)
(* One behaviour is one power-on session.                                  *)
(*                                                                         *)
(* Voltages are in units of 0.5 V; times are in milliseconds as ST2MS      *)
(* yields them, that is, modulo MsWrap.                                    *)
(***************************************************************************)
EXTENDS Integers

CONSTANTS
  DischargeSamples,  \* values analog_discharge_voltage() may return
  BusSamples,        \* values current_monitor_get_bus_voltage() may return
  Configs,           \* values the host may give the configuration
  ShortCheck,        \* milliseconds before the short test, 8 in the code
  MsWrap,            \* ST2MS computes in 32 bits: 429497 ms, then 0 again
  MaxPass,           \* longest pass of the main loop, in milliseconds
  MaxGap             \* milliseconds between the clock reads of lines 61 and 71

ShortVoltage    == 1    \* 0.5 V
PrechargeMargin == 10   \* 5.0 V

ASSUME ConstantsAssumption ==
  /\ DischargeSamples \subseteq Nat /\ DischargeSamples # {}
  /\ BusSamples \subseteq Nat /\ BusSamples # {}
  /\ ShortCheck \in Nat
  /\ MsWrap \in Nat \ {0}
  /\ MaxPass \in Nat \ {0}
  /\ MaxGap \in Nat
  /\ Configs # {}
  /\ Configs \subseteq [prechargeTimeout : Nat, shutdownDelay : Nat,
                        chargerDisconnectShutdown : BOOLEAN]

VARIABLES
  pc,                     \* location of the main thread
  discharge_enabled, precharged, power_on_event, power_button_released,
  shutdownStarted, shutdown,
  prechargeElapsed,       \* time since prechargeStartTime
  shutdownElapsed,        \* time since shutdownStartTime
  gate,                   \* outcome of the last test of power.c:52
  faults,                 \* the bits of the fault byte, as a set
  rmw,                    \* the main thread's faults |= fault under way
  DSG_SW, PCHG_SW, PWR_SW,                         \* output pads
  charger_in, discharge_voltage, bus_voltage,      \* sampled inputs
  PWR_BTN, USB_DETECT, CURR_ALERT,                 \* input pads, TRUE: active
  config                                           \* live configuration

control == <<discharge_enabled, precharged, power_button_released,
             shutdownStarted, shutdown>>
clocks  == <<prechargeElapsed, shutdownElapsed>>
pads    == <<DSG_SW, PCHG_SW, PWR_SW>>
samples == <<charger_in, discharge_voltage, bus_voltage>>
inputs  == <<PWR_BTN, USB_DETECT, CURR_ALERT>>
vars    == <<pc, control, power_on_event, clocks, gate, faults, rmw, pads,
             samples, inputs, config>>

Events == {"SWITCH", "CHARGER", "USB", "RTCC"}
Faults == {"OVERCURRENT", "BOARD_TEMP", "TURN_ON_SHORT"}
Locations == {"boot", "analog", "store", "monitor", "gate", "drive", "buttons",
              "alarm", "tail", "exit", "bootloader"}

NoStore == [fault |-> "OVERCURRENT", loaded |-> {}, next |-> "boot"]

-----------------------------------------------------------------------------
(* Faults: faults |= fault is a load, an or and a store.                   *)

\* The load half of faults_set_fault(f) in the main thread; it continues
\* at location next once the store is done.
LoadFaults(f, next) ==
  /\ rmw' = [fault |-> f, loaded |-> faults, next |-> next]
  /\ pc' = "store"

StoreLosesOld(r) == {r.fault}
StoredFaults(r) == r.loaded \union {r.fault}

\* The store half.  An interrupt taken since the load is overwritten.
StoreFaults ==
  /\ pc = "store"
  /\ faults' = StoredFaults(rmw)
  /\ pc' = rmw.next
  /\ rmw' = NoStore
  /\ UNCHANGED <<control, power_on_event, clocks, gate, pads, samples, inputs,
                 config>>

-----------------------------------------------------------------------------
(* Time.                                                                    *)

ST2MS_NoWrap(t) == t
ST2MS(t) == t % MsWrap

\* Time between two passes of the loop.  A clock that is not running is 0.
AdvanceClocks(d) ==
  /\ prechargeElapsed' =
       IF precharged THEN ST2MS(prechargeElapsed + d) ELSE prechargeElapsed
  /\ shutdownElapsed' =
       IF shutdownStarted THEN ST2MS(shutdownElapsed + d) ELSE shutdownElapsed

-----------------------------------------------------------------------------
(* Power-on.                                                                *)

\* power_on_event is a zeroed static: EVENT_SWITCH when no test matches.
PowerOnEvent(rtccInt) ==
  CASE PWR_BTN    -> "SWITCH"
    [] ~PWR_BTN /\ charger_in -> "CHARGER"
    [] ~PWR_BTN /\ ~charger_in /\ rtccInt -> "RTCC"
    [] ~PWR_BTN /\ ~charger_in /\ ~rtccInt /\ USB_DETECT -> "USB"
    [] OTHER -> "SWITCH"

power_init ==
  /\ pc = "boot"
  /\ \E rtccInt \in BOOLEAN : power_on_event' = PowerOnEvent(rtccInt)
  /\ discharge_enabled' = (power_on_event' = "SWITCH")
  /\ DSG_SW' = FALSE
  /\ PCHG_SW' = FALSE
  /\ PWR_SW' = (power_on_event' # "USB")
  /\ pc' = "analog"
  /\ UNCHANGED <<precharged, power_button_released, shutdownStarted, shutdown,
                 clocks, gate, faults, rmw, samples, inputs, config>>

-----------------------------------------------------------------------------
(* The samplers of the main loop.                                           *)

analog_update ==
  /\ pc = "analog"
  /\ \E d \in 1..MaxPass : AdvanceClocks(d)
  /\ charger_in' \in BOOLEAN
  /\ discharge_voltage' \in DischargeSamples
  /\ \E overTemperature \in BOOLEAN :
       IF overTemperature
       THEN LoadFaults("BOARD_TEMP", "monitor")
       ELSE pc' = "monitor" /\ UNCHANGED rmw
  /\ UNCHANGED <<control, power_on_event, gate, faults, pads, bus_voltage,
                 inputs, config>>

power_disable_discharge ==
  /\ discharge_enabled' = FALSE
  /\ DSG_SW' = FALSE

current_monitor_update ==
  /\ pc = "monitor"
  /\ bus_voltage' \in BusSamples
  /\ \E overCutoff \in BOOLEAN :
       IF overCutoff \/ CURR_ALERT
       THEN power_disable_discharge /\ LoadFaults("OVERCURRENT", "gate")
       ELSE pc' = "gate" /\ UNCHANGED <<discharge_enabled, DSG_SW, rmw>>
  /\ UNCHANGED <<precharged, power_button_released, shutdownStarted, shutdown,
                 power_on_event, clocks, gate, faults, PCHG_SW, PWR_SW,
                 charger_in, discharge_voltage, inputs, config>>

-----------------------------------------------------------------------------
(* power_update.                                                            *)

\* Lines 50 to 52: keep the board powered, then read the enable and the
\* faults once.
TestGate ==
  /\ pc = "gate"
  /\ PWR_SW' = (PWR_SW \/ (~shutdown /\ power_on_event # "USB"))
  /\ gate' = (discharge_enabled /\ faults = {})
  /\ pc' = "drive"
  /\ UNCHANGED <<control, power_on_event, clocks, faults, rmw, DSG_SW, PCHG_SW,
                 samples, inputs, config>>

\* The time line 61 reads: since the precharge began, which line 56 restarts.
PrechargeRestarts == 0
PrechargeElapsed == IF precharged THEN prechargeElapsed ELSE 0

\* Line 71 reads the clock again, d milliseconds later.
PrechargeElapsedAfter(d) == ST2MS(PrechargeElapsed + d)

\* Line 61 to 63: turned on into a short.
ShortTestedLate ==
  /\ PrechargeElapsed > ShortCheck + config.prechargeTimeout
  /\ discharge_voltage < ShortVoltage
ShortDetected ==
  /\ PrechargeElapsed > ShortCheck
  /\ discharge_voltage < ShortVoltage

\* Line 71: the load has been precharged, or precharging took too long.
PrechargeDone(elapsed) ==
  \/ discharge_voltage >= bus_voltage - PrechargeMargin
  \/ elapsed > config.prechargeTimeout

StartPrecharge(elapsed) ==
  /\ precharged' = TRUE
  /\ prechargeElapsed' = elapsed

\* Lines 65 to 68: the early return skips the shutdown logic of this pass.
DriveShort ==
  /\ gate /\ ShortDetected
  /\ StartPrecharge(PrechargeElapsed)
  /\ DSG_SW' = FALSE
  /\ PCHG_SW' = FALSE
  /\ LoadFaults("TURN_ON_SHORT", "tail")
  /\ UNCHANGED shutdownElapsed

DriveOn(d) ==
  LET done == PrechargeDone(PrechargeElapsedAfter(d)) IN
  /\ gate /\ ~ShortDetected
  /\ StartPrecharge(PrechargeElapsedAfter(d))
  /\ shutdownElapsed' =
       IF shutdownStarted THEN ST2MS(shutdownElapsed + d) ELSE shutdownElapsed
  /\ DSG_SW' = done
  /\ PCHG_SW' = ~done
  /\ pc' = "buttons"
  /\ UNCHANGED rmw

OpenDischargeOnly == DSG_SW' = FALSE /\ UNCHANGED PCHG_SW
OpenPrechargeOnly == PCHG_SW' = FALSE /\ UNCHANGED DSG_SW
OpenSwitches == DSG_SW' = FALSE /\ PCHG_SW' = FALSE

DriveOff ==
  /\ ~gate
  /\ OpenSwitches
  /\ precharged' = FALSE
  /\ prechargeElapsed' = 0
  /\ pc' = "buttons"
  /\ UNCHANGED <<shutdownElapsed, rmw>>

DriveSwitches ==
  /\ pc = "drive"
  /\ \/ DriveShort
     \/ \E d \in 0..MaxGap : DriveOn(d)
     \/ DriveOff
  /\ UNCHANGED <<discharge_enabled, power_button_released, shutdownStarted,
                 shutdown, power_on_event, gate, faults, PWR_SW, samples,
                 inputs, config>>

\* Line 96.
ShutdownNow ==
  \/ shutdown
  \/ /\ config.chargerDisconnectShutdown
     /\ power_on_event = "CHARGER"
     /\ ~charger_in

\* Line 103.
ShutdownAsked ==
  \/ PWR_BTN /\ power_button_released /\ ~charger_in /\ ~USB_DETECT
  \/ power_on_event = "RTCC"

ShutdownRestarts == 0
ShutdownElapsed == IF shutdownStarted THEN shutdownElapsed ELSE 0

\* Lines 94 to 122 up to the call of rtcc_enable_alarm, which blocks.
CheckButtons ==
  /\ pc = "buttons"
  /\ power_button_released' = (power_button_released \/ ~PWR_BTN)
  /\ \/ /\ ShutdownNow
        /\ shutdown' = TRUE
        /\ pc' = "alarm"
        /\ UNCHANGED <<shutdownStarted, shutdownElapsed>>
     \/ /\ ~ShutdownNow /\ ShutdownAsked
        /\ shutdownStarted' = TRUE
        /\ shutdownElapsed' = ShutdownElapsed
        /\ pc' = IF ShutdownElapsed > config.shutdownDelay THEN "alarm" ELSE "tail"
        /\ UNCHANGED shutdown
     \/ /\ ~ShutdownNow /\ ~ShutdownAsked
        /\ shutdown' = FALSE
        /\ shutdownStarted' = FALSE
        /\ shutdownElapsed' = 0
        /\ pc' = "tail"
  /\ UNCHANGED <<discharge_enabled, precharged, power_on_event,
                 prechargeElapsed, gate, faults, rmw, pads, samples, inputs,
                 config>>

\* Lines 99 to 101 and 112 to 115, once the alarm is programmed.
CutPowerOnly == PWR_SW' = FALSE /\ UNCHANGED DSG_SW
CutPower == DSG_SW' = FALSE /\ PWR_SW' = FALSE

EnterShutdown ==
  /\ pc = "alarm"
  /\ CutPower
  /\ shutdown' = TRUE
  /\ pc' = "tail"
  /\ UNCHANGED <<discharge_enabled, precharged, power_button_released,
                 shutdownStarted, power_on_event, clocks, gate, faults, rmw,
                 PCHG_SW, samples, inputs, config>>

\* The rest of the loop: rtcc_update blocks, then the loop ends on shutdown.
EndOfPass ==
  /\ pc = "tail"
  /\ pc' = IF shutdown THEN "exit" ELSE "analog"
  /\ UNCHANGED <<control, power_on_event, clocks, gate, faults, rmw, pads,
                 samples, inputs, config>>

-----------------------------------------------------------------------------
(* The other actors.                                                        *)

\* INA226 alert, falling edge: the interrupt handler.
AlertFaultOnly == UNCHANGED <<discharge_enabled, DSG_SW>>
AlertTrips == power_disable_discharge

curr_alert ==
  /\ pc \notin {"boot", "bootloader"}
  /\ ~CURR_ALERT
  /\ CURR_ALERT' = TRUE
  /\ AlertTrips
  /\ faults' = faults \union {"OVERCURRENT"}
  /\ UNCHANGED <<pc, precharged, power_button_released, shutdownStarted,
                 shutdown, power_on_event, clocks, gate, rmw, PCHG_SW, PWR_SW,
                 samples, PWR_BTN, USB_DETECT, config>>

\* Locations where the main thread may be blocked in a transfer: "monitor"
\* stands for ltc6803_update too, "gate" for the end of
\* current_monitor_update, soc_update and charger_update.
Blocked == pc \in {"analog", "monitor", "gate", "alarm", "tail"}

\* The packet thread stores a configuration field.
SetConfig ==
  /\ Blocked
  /\ config' \in Configs
  /\ UNCHANGED <<pc, control, power_on_event, clocks, gate, faults, rmw, pads,
                 samples, inputs>>

\* The packet thread leaves for the bootloader; nothing runs afterwards.
fw_updater_jump_bootloader ==
  /\ Blocked
  /\ power_disable_discharge
  /\ pc' = "bootloader"
  /\ UNCHANGED <<precharged, power_button_released, shutdownStarted, shutdown,
                 power_on_event, clocks, gate, faults, rmw, PCHG_SW, PWR_SW,
                 samples, inputs, config>>

\* The user and the world.
Environment ==
  /\ \/ PWR_BTN' = ~PWR_BTN /\ UNCHANGED <<USB_DETECT, CURR_ALERT>>
     \/ USB_DETECT' = ~USB_DETECT /\ UNCHANGED <<PWR_BTN, CURR_ALERT>>
     \/ CURR_ALERT /\ CURR_ALERT' = FALSE /\ UNCHANGED <<PWR_BTN, USB_DETECT>>
  /\ UNCHANGED <<pc, control, power_on_event, clocks, gate, faults, rmw, pads,
                 samples, config>>

-----------------------------------------------------------------------------
Init ==
  /\ pc = "boot"
  /\ discharge_enabled = FALSE
  /\ precharged = FALSE
  /\ power_on_event = "SWITCH"
  /\ power_button_released = FALSE
  /\ shutdownStarted = FALSE
  /\ shutdown = FALSE
  /\ prechargeElapsed = 0
  /\ shutdownElapsed = 0
  /\ gate = FALSE
  /\ faults = {}
  /\ rmw = NoStore
  /\ DSG_SW = FALSE
  /\ PCHG_SW = FALSE
  /\ PWR_SW = FALSE
  /\ charger_in \in BOOLEAN
  /\ discharge_voltage \in DischargeSamples
  /\ bus_voltage = 0
  /\ PWR_BTN \in BOOLEAN
  /\ USB_DETECT \in BOOLEAN
  /\ CURR_ALERT = FALSE
  /\ config \in Configs

MainThread ==
  \/ power_init
  \/ analog_update
  \/ StoreFaults
  \/ current_monitor_update
  \/ TestGate
  \/ DriveSwitches
  \/ CheckButtons
  \/ EnterShutdown
  \/ EndOfPass

Next ==
  \/ MainThread
  \/ curr_alert
  \/ SetConfig
  \/ fw_updater_jump_bootloader
  \/ Environment

\* Transfers time out and no thread has a higher priority than the main one
\* for ever: the main thread keeps running.
Spec == Init /\ [][Next]_vars /\ WF_vars(MainThread)

-----------------------------------------------------------------------------
(* Properties.                                                              *)

Millis == 0..(MsWrap - 1)

\* Every variable keeps the type the code gives it; the clocks stay within
\* the 32 bit range of ST2MS (chvt.h:160).
TypeOK ==
  /\ pc \in Locations
  /\ discharge_enabled \in BOOLEAN
  /\ precharged \in BOOLEAN
  /\ power_on_event \in Events
  /\ power_button_released \in BOOLEAN
  /\ shutdownStarted \in BOOLEAN
  /\ shutdown \in BOOLEAN
  /\ prechargeElapsed \in Millis
  /\ shutdownElapsed \in Millis
  /\ gate \in BOOLEAN
  /\ faults \in SUBSET Faults
  /\ rmw \in [fault : Faults, loaded : SUBSET Faults, next : Locations]
  /\ DSG_SW \in BOOLEAN
  /\ PCHG_SW \in BOOLEAN
  /\ PWR_SW \in BOOLEAN
  /\ charger_in \in BOOLEAN
  /\ discharge_voltage \in DischargeSamples
  /\ bus_voltage \in BusSamples \union {0}
  /\ PWR_BTN \in BOOLEAN
  /\ USB_DETECT \in BOOLEAN
  /\ CURR_ALERT \in BOOLEAN
  /\ config \in Configs

\* The discharge switch is closed only if the latest test of power.c:52 found
\* discharge enabled and no fault: an interrupt that races with power_update
\* may see the switch closed again behind its back, but only until the next
\* pass has tested and driven it.
DischargeThroughGate == DSG_SW /\ pc # "drive" => gate

\* Once the main loop has ended, or the bootloader runs, the discharge switch
\* is open, whatever the interrupt and the packet thread did in between; after
\* a shutdown the power latch is released too.
ParkedSafe ==
  /\ pc \in {"exit", "bootloader"} => ~DSG_SW
  /\ pc = "exit" => ~PWR_SW /\ shutdown

\* The over-current fault is never reported while discharge is still enabled,
\* although interrupt and main thread set the two in separate steps.
OvercurrentDisables ==
  "OVERCURRENT" \in faults \/ (pc = "store" /\ rmw.fault = "OVERCURRENT")
    => ~discharge_enabled

\* Of the faults only OVERCURRENT can be lost, to the unprotected
\* faults |= fault of the main thread; and then discharge stays disabled.
FaultsLatch ==
  [][\A f \in faults \ faults' :
       f = "OVERCURRENT" /\ ~discharge_enabled']_vars

\* The switch is never closed onto an output below 0.5 V, provided the bus
\* reads at least 5.5 V and the precharge timeout exceeds the 8 ms of the
\* short test by the time between the two clock reads: power.c:61 may read 8,
\* too early for the short test, and power.c:71 read 9 and close the switch.
\* Both conditions are needed, neither is enforced by the code.
NeverSwitchedIntoShort ==
  [][/\ ~DSG_SW /\ DSG_SW'
     /\ config.prechargeTimeout >= ShortCheck + MaxGap
     /\ bus_voltage >= ShortVoltage + PrechargeMargin
     => discharge_voltage >= ShortVoltage]_vars

\* An over-current trip opens the discharge switch for the rest of the
\* session, even when the interrupt hits between the test and the switch or
\* its fault bit is lost.  The interrupt leaves the precharge switch as it is
\* (power.c:133); the next pass opens that too, unless the bootloader is
\* entered or the loop ends before that.
TripOpensSwitch ==
  "OVERCURRENT" \in faults
    ~> [](~DSG_SW /\ (PCHG_SW => pc = "bootloader" \/ shutdown))

\* With discharge enabled the switch closes within bounded time, unless a
\* fault, a shutdown or the bootloader intervenes: precharging cannot last
\* for ever, in spite of the wrapping clock.
TurnsOn ==
  pc = "analog" /\ discharge_enabled
    ~> \/ DSG_SW \/ ~discharge_enabled \/ faults # {} \/ shutdown
       \/ pc = "bootloader"

\* A button that stays pressed (after having been released once) with neither
\* charger nor USB attached shuts the board down.
HeldButtonShutsDown ==
  <>[](PWR_BTN /\ power_button_released /\ ~charger_in /\ ~USB_DETECT)
    => <>(shutdown \/ pc = "bootloader")

=============================================================================
