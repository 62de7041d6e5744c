---------------------------- MODULE PowerProofs ----------------------------
(***************************************************************************)
(* Proofs about the discharge path, for every set of samples, every set of *)
(* configurations, every wrap of the clock and every short test delay.     *)
(***************************************************************************)
EXTENDS Power, TLAPS

LEMMA ConfigFields ==
  ASSUME NEW c \in Configs
  PROVE  c.prechargeTimeout \in Nat /\ c.shutdownDelay \in Nat
BY ConstantsAssumption

LEMMA ClockRange ==
  /\ 0 \in Millis
  /\ \A t \in Nat : ST2MS(t) \in Millis
BY ConstantsAssumption DEF Millis, ST2MS

LEMMA RemainderIsNotLarger ==
  ASSUME NEW n \in Nat, NEW m \in Nat \ {0}
  PROVE  (n % m) =< n
OBVIOUS

-----------------------------------------------------------------------------
(* The type invariant in two halves: the flags and pads, and the rest.     *)

Flags ==
  /\ discharge_enabled \in BOOLEAN
  /\ precharged \in BOOLEAN
  /\ power_button_released \in BOOLEAN
  /\ shutdownStarted \in BOOLEAN
  /\ shutdown \in BOOLEAN
  /\ gate \in BOOLEAN
  /\ DSG_SW \in BOOLEAN
  /\ PCHG_SW \in BOOLEAN
  /\ PWR_SW \in BOOLEAN
  /\ charger_in \in BOOLEAN
  /\ PWR_BTN \in BOOLEAN
  /\ USB_DETECT \in BOOLEAN
  /\ CURR_ALERT \in BOOLEAN

Store == [fault : Faults, loaded : SUBSET Faults, next : Locations]

Values ==
  /\ pc \in Locations
  /\ power_on_event \in Events
  /\ prechargeElapsed \in Millis
  /\ shutdownElapsed \in Millis
  /\ faults \in SUBSET Faults
  /\ rmw \in Store
  /\ discharge_voltage \in DischargeSamples
  /\ bus_voltage \in BusSamples \union {0}
  /\ config \in Configs

LEMMA TypeHalves == TypeOK <=> Flags /\ Values
BY Zenon DEF TypeOK, Flags, Values, Store

\* Flags and pads are only ever assigned truth values.
LEMMA FlagsStep == Flags /\ [Next]_vars => Flags'
<1> SUFFICES ASSUME Flags, [Next]_vars PROVE Flags'
  OBVIOUS
<1> USE DEF Flags
<1>1. CASE power_init
  BY Zenon, <1>1 DEF power_init, samples, inputs
<1>2. CASE analog_update
  BY Zenon, <1>2 DEF analog_update, control, pads, inputs
<1>3. CASE StoreFaults
  BY Zenon, <1>3 DEF StoreFaults, control, pads, samples, inputs
<1>4. CASE current_monitor_update
  <2>1. discharge_enabled' \in BOOLEAN /\ DSG_SW' \in BOOLEAN
    <3>1. \/ power_disable_discharge
          \/ UNCHANGED <<discharge_enabled, DSG_SW>>
      BY <1>4 DEF current_monitor_update
    <3> QED
      BY Zenon, <3>1 DEF power_disable_discharge
  <2> QED
    BY Zenon, <1>4, <2>1 DEF current_monitor_update, inputs
<1>5. CASE TestGate
  BY Zenon, <1>5 DEF TestGate, control, samples, inputs
<1>6. CASE DriveSwitches
  <2>1. \A t : PrechargeDone(t) \in BOOLEAN
    BY Zenon DEF PrechargeDone
  <2>2. /\ precharged' \in BOOLEAN
        /\ DSG_SW' \in BOOLEAN
        /\ PCHG_SW' \in BOOLEAN
    BY Zenon, <1>6, <2>1
    DEF DriveSwitches, DriveShort, DriveOn, DriveOff, StartPrecharge,
        OpenSwitches
  <2> QED
    BY Zenon, <1>6, <2>2 DEF DriveSwitches, samples, inputs
<1>7. CASE CheckButtons
  BY Zenon, <1>7 DEF CheckButtons, pads, samples, inputs
<1>8. CASE EnterShutdown
  BY Zenon, <1>8 DEF EnterShutdown, CutPower, samples, inputs
<1>9. CASE EndOfPass
  BY Zenon, <1>9 DEF EndOfPass, control, pads, samples, inputs
<1>10. CASE curr_alert
  BY Zenon, <1>10
  DEF curr_alert, AlertTrips, power_disable_discharge, samples
<1>11. CASE SetConfig
  BY Zenon, <1>11 DEF SetConfig, control, pads, samples, inputs
<1>12. CASE fw_updater_jump_bootloader
  BY Zenon, <1>12
  DEF fw_updater_jump_bootloader, power_disable_discharge, samples, inputs
<1>13. CASE Environment
  <2>1. /\ PWR_BTN' \in BOOLEAN
        /\ USB_DETECT' \in BOOLEAN
        /\ CURR_ALERT' \in BOOLEAN
    BY <1>13 DEF Environment
  <2> QED
    BY Zenon, <1>13, <2>1 DEF Environment, control, pads, samples
<1>14. CASE UNCHANGED vars
  <2>1. UNCHANGED <<discharge_enabled, precharged, power_button_released,
                    shutdownStarted, shutdown, gate, DSG_SW, PCHG_SW, PWR_SW,
                    charger_in, PWR_BTN, USB_DETECT, CURR_ALERT>>
    BY <1>14 DEF vars, control, pads, samples, inputs
  <2> QED
    BY Zenon, <2>1
<1> QED
  BY <1>1, <1>2, <1>3, <1>4, <1>5, <1>6, <1>7, <1>8, <1>9, <1>10, <1>11,
     <1>12, <1>13, <1>14 DEF Next, MainThread

\* The load half of faults |= fault keeps location and pending store typed.
LEMMA LoadTypes ==
  ASSUME NEW f \in Faults, NEW next \in Locations, Values,
         LoadFaults(f, next)
  PROVE  pc' \in Locations /\ rmw' \in Store
BY DEF LoadFaults, Values, Store, Locations

\* Locations, faults, clocks and samples keep their ranges.
LEMMA ValuesStep == Values /\ [Next]_vars => Values'
<1> SUFFICES ASSUME Values, [Next]_vars PROVE Values'
  OBVIOUS
<1> USE DEF Values
<1>1. CASE power_init
  <2>1. power_on_event' \in Events
    BY <1>1 DEF power_init, PowerOnEvent, Events
  <2> QED
    BY <1>1, <2>1 DEF power_init, clocks, samples, Locations
<1>2. CASE analog_update
  <2>1. PICK d \in 1..MaxPass : AdvanceClocks(d)
    BY <1>2 DEF analog_update
  <2>2. prechargeElapsed' \in Millis /\ shutdownElapsed' \in Millis
    <3>1. /\ prechargeElapsed + d \in Nat
          /\ shutdownElapsed + d \in Nat
      BY ConstantsAssumption DEF Millis
    <3> QED
      BY <2>1, <3>1, ClockRange DEF AdvanceClocks
  <2>3. pc' \in Locations /\ rmw' \in Store
    <3>1. \/ LoadFaults("BOARD_TEMP", "monitor")
          \/ pc' = "monitor" /\ UNCHANGED rmw
      BY <1>2 DEF analog_update
    <3> QED
      BY <3>1, LoadTypes DEF Faults, Locations
  <2> QED
    BY <1>2, <2>2, <2>3 DEF analog_update
<1>3. CASE StoreFaults
  BY <1>3 DEF StoreFaults, StoredFaults, NoStore, Store, clocks, samples,
              Faults, Locations
<1>4. CASE current_monitor_update
  <2>1. pc' \in Locations /\ rmw' \in Store
    <3>1. \/ LoadFaults("OVERCURRENT", "gate")
          \/ pc' = "gate" /\ UNCHANGED rmw
      BY <1>4 DEF current_monitor_update
    <3> QED
      BY <3>1, LoadTypes DEF Faults, Locations
  <2> QED
    BY <1>4, <2>1 DEF current_monitor_update, clocks
<1>5. CASE TestGate
  BY <1>5 DEF TestGate, clocks, samples, Locations
<1>6. CASE DriveSwitches
  <2>1. prechargeElapsed' \in Millis /\ shutdownElapsed' \in Millis
    <3>1. PrechargeElapsed \in Millis
      BY ClockRange DEF PrechargeElapsed
    <3>2. ASSUME NEW d \in 0..MaxGap
          PROVE  /\ ST2MS(PrechargeElapsed + d) \in Millis
                 /\ ST2MS(shutdownElapsed + d) \in Millis
      <4>1. /\ PrechargeElapsed + d \in Nat
            /\ shutdownElapsed + d \in Nat
        BY <3>1, ConstantsAssumption DEF Millis
      <4> QED
        BY <4>1, ClockRange
    <3>3. CASE \E d \in 0..MaxGap : DriveOn(d)
      BY <3>2, <3>3 DEF DriveOn, StartPrecharge, PrechargeElapsedAfter
    <3>4. CASE DriveShort \/ DriveOff
      BY <3>1, <3>4, ClockRange DEF DriveShort, DriveOff, StartPrecharge
    <3> QED
      BY <1>6, <3>3, <3>4 DEF DriveSwitches
  <2>2. pc' \in Locations /\ rmw' \in Store
    <3>1. \/ LoadFaults("TURN_ON_SHORT", "tail")
          \/ pc' = "buttons" /\ UNCHANGED rmw
      BY <1>6 DEF DriveSwitches, DriveShort, DriveOn, DriveOff
    <3> QED
      BY <3>1, LoadTypes DEF Faults, Locations
  <2> QED
    BY <1>6, <2>1, <2>2 DEF DriveSwitches, samples
<1>7. CASE CheckButtons
  <2>1. shutdownElapsed' \in Millis
    BY <1>7, ClockRange DEF CheckButtons, ShutdownElapsed
  <2> QED
    BY <1>7, <2>1 DEF CheckButtons, samples, Locations
<1>8. CASE EnterShutdown
  BY <1>8 DEF EnterShutdown, clocks, samples, Locations
<1>9. CASE EndOfPass
  BY <1>9 DEF EndOfPass, clocks, samples, Locations
<1>10. CASE curr_alert
  BY <1>10 DEF curr_alert, clocks, samples, Faults
<1>11. CASE SetConfig
  BY <1>11 DEF SetConfig, clocks, samples
<1>12. CASE fw_updater_jump_bootloader
  BY <1>12 DEF fw_updater_jump_bootloader, clocks, samples, Locations
<1>13. CASE Environment
  BY <1>13 DEF Environment, clocks, samples
<1>14. CASE UNCHANGED vars
  BY <1>14 DEF vars, clocks, samples
<1> QED
  BY <1>1, <1>2, <1>3, <1>4, <1>5, <1>6, <1>7, <1>8, <1>9, <1>10, <1>11,
     <1>12, <1>13, <1>14 DEF Next, MainThread

\* Type correctness of the discharge path: in particular the clocks stay in
\* the 32 bit range of ST2MS although every pass adds to them.
THEOREM TypeCorrect == Spec => []TypeOK
<1>1. Init => TypeOK
  <2>1. Init => Flags
    BY Zenon DEF Init, Flags
  <2>2. Init => Values
    BY ClockRange DEF Init, Values, Locations, Events, Faults, NoStore, Store
  <2> QED
    BY <2>1, <2>2, TypeHalves
<1>2. TypeOK /\ [Next]_vars => TypeOK'
  BY FlagsStep, ValuesStep, TypeHalves, PTL
<1> QED
  BY <1>1, <1>2, PTL DEF Spec

-----------------------------------------------------------------------------
(* The inductive invariant behind the safety properties.  Only power_init  *)
(* enables discharge, before any fault can be set; a pass that finds       *)
(* shutdown set ends in exit; and a fault that the store half is about to  *)
(* overwrite can only be the interrupt's.                                  *)

PendingStore ==
  pc = "store" =>
    /\ rmw.next \in {"monitor", "gate", "tail"}
    /\ faults \ rmw.loaded \subseteq {"OVERCURRENT"}
    /\ "OVERCURRENT" \in rmw.loaded => ~discharge_enabled

ShutdownEndsPass ==
  /\ shutdown => pc \in {"alarm", "tail", "exit", "bootloader"}
  /\ pc = "tail" /\ shutdown => ~DSG_SW /\ ~PWR_SW

IInv ==
  /\ Values
  /\ pc = "boot" => faults = {}
  /\ PendingStore
  /\ ShutdownEndsPass
  /\ DischargeThroughGate
  /\ ParkedSafe
  /\ OvercurrentDisables

LEMMA InvInit == Init => IInv
BY ClockRange
DEF Init, IInv, Values, Locations, Events, Faults, NoStore, Store,
    PendingStore, ShutdownEndsPass, DischargeThroughGate, ParkedSafe,
    OvercurrentDisables

LEMMA InvStep == IInv /\ [Next]_vars => IInv'
<1> SUFFICES ASSUME IInv, [Next]_vars PROVE IInv'
  OBVIOUS
<1>0. Values'
  BY ValuesStep DEF IInv
<1> USE <1>0 DEF IInv, PendingStore, ShutdownEndsPass, DischargeThroughGate,
                 ParkedSafe, OvercurrentDisables
<1>1. CASE power_init
  BY <1>1 DEF power_init
<1>2. CASE analog_update
  <2>1. \/ LoadFaults("BOARD_TEMP", "monitor")
        \/ pc' = "monitor" /\ UNCHANGED rmw
    BY <1>2 DEF analog_update
  <2> QED
    BY <1>2, <2>1 DEF analog_update, LoadFaults, control, pads
<1>3. CASE StoreFaults
  BY <1>3 DEF StoreFaults, StoredFaults, NoStore, control, pads
<1>4. CASE current_monitor_update
  <2>1. \/ power_disable_discharge /\ LoadFaults("OVERCURRENT", "gate")
        \/ pc' = "gate" /\ UNCHANGED <<discharge_enabled, DSG_SW, rmw>>
    BY <1>4 DEF current_monitor_update
  <2> QED
    BY <1>4, <2>1
    DEF current_monitor_update, power_disable_discharge, LoadFaults
<1>5. CASE TestGate
  BY <1>5 DEF TestGate, control
<1>6. CASE DriveSwitches
  <2>1. CASE DriveShort
    BY <1>6, <2>1 DEF DriveSwitches, DriveShort, LoadFaults
  <2>2. CASE \E d \in 0..MaxGap : DriveOn(d)
    BY <1>6, <2>2 DEF DriveSwitches, DriveOn
  <2>3. CASE DriveOff
    BY <1>6, <2>3 DEF DriveSwitches, DriveOff, OpenSwitches
  <2> QED
    BY <1>6, <2>1, <2>2, <2>3 DEF DriveSwitches
<1>7. CASE CheckButtons
  BY <1>7 DEF CheckButtons, pads
<1>8. CASE EnterShutdown
  BY <1>8 DEF EnterShutdown, CutPower
<1>9. CASE EndOfPass
  BY <1>9 DEF EndOfPass, control, pads
<1>10. CASE curr_alert
  BY <1>10 DEF curr_alert, AlertTrips, power_disable_discharge
<1>11. CASE SetConfig
  BY <1>11 DEF SetConfig, control, pads
<1>12. CASE fw_updater_jump_bootloader
  BY <1>12 DEF fw_updater_jump_bootloader, power_disable_discharge
<1>13. CASE Environment
  BY <1>13 DEF Environment, control, pads
<1>14. CASE UNCHANGED vars
  BY <1>14 DEF vars, control, pads
<1> QED
  BY <1>1, <1>2, <1>3, <1>4, <1>5, <1>6, <1>7, <1>8, <1>9, <1>10, <1>11,
     <1>12, <1>13, <1>14 DEF Next, MainThread

LEMMA Invariance == Spec => []IInv
BY InvInit, InvStep, PTL DEF Spec

\* The discharge switch is closed only on a test of power.c:52 that passed,
\* wherever the interrupt strikes.
THEOREM SwitchFollowsGate == Spec => []DischargeThroughGate
<1>1. IInv => DischargeThroughGate
  BY DEF IInv
<1> QED
  BY <1>1, Invariance, PTL

\* After the main loop or in the bootloader the discharge switch is open.
THEOREM ParkedStatesAreSafe == Spec => []ParkedSafe
<1>1. IInv => ParkedSafe
  BY DEF IInv
<1> QED
  BY <1>1, Invariance, PTL

\* No reported over-current fault coexists with discharge enabled.
THEOREM OvercurrentMeansDisabled == Spec => []OvercurrentDisables
<1>1. IInv => OvercurrentDisables
  BY DEF IInv
<1> QED
  BY <1>1, Invariance, PTL

-----------------------------------------------------------------------------
(* Action properties.                                                       *)

\* A fault once set stays set; only an OVERCURRENT that the unprotected
\* faults |= fault overwrites is lost, and discharge is then disabled.
THEOREM FaultsStayLatched == Spec => FaultsLatch
<1>1. IInv /\ [Next]_vars
        => [\A f \in faults \ faults' :
              f = "OVERCURRENT" /\ ~discharge_enabled']_vars
  <2> SUFFICES ASSUME IInv, Next, NEW f \in faults \ faults'
               PROVE  f = "OVERCURRENT" /\ ~discharge_enabled'
    OBVIOUS
  <2>1. StoreFaults
    BY DEF Next, MainThread, power_init, analog_update,
           current_monitor_update, TestGate, DriveSwitches, CheckButtons,
           EnterShutdown, EndOfPass, curr_alert, SetConfig,
           fw_updater_jump_bootloader, Environment
  <2>2. f \in faults \ rmw.loaded
    BY <2>1 DEF StoreFaults, StoredFaults
  <2> QED
    BY <2>1, <2>2
    DEF IInv, PendingStore, OvercurrentDisables, StoreFaults, control
<1> QED
  BY <1>1, Invariance, PTL DEF Spec, FaultsLatch

\* The switch is never closed onto an output below 0.5 V, if the precharge
\* timeout exceeds the short test by the gap between the two clock reads of
\* power.c:61 and power.c:71 and the bus reads at least 5.5 V.
THEOREM ShortIsNotSwitchedOn == Spec => NeverSwitchedIntoShort
<1>1. IInv /\ [Next]_vars
        => [/\ ~DSG_SW /\ DSG_SW'
            /\ config.prechargeTimeout >= ShortCheck + MaxGap
            /\ bus_voltage >= ShortVoltage + PrechargeMargin
            => discharge_voltage >= ShortVoltage]_vars
  <2> SUFFICES ASSUME IInv, Next, ~DSG_SW, DSG_SW',
                      config.prechargeTimeout >= ShortCheck + MaxGap,
                      bus_voltage >= ShortVoltage + PrechargeMargin
               PROVE  discharge_voltage >= ShortVoltage
    OBVIOUS
  <2>1. PICK d \in 0..MaxGap :
            ~ShortDetected /\ PrechargeDone(PrechargeElapsedAfter(d))
    <3>1. \E d \in 0..MaxGap : DriveOn(d)
      BY DEF Next, MainThread, power_init, analog_update, StoreFaults,
             current_monitor_update, power_disable_discharge, TestGate,
             DriveSwitches, DriveShort, DriveOff, OpenSwitches,
             CheckButtons, EnterShutdown, CutPower, EndOfPass, curr_alert,
             AlertTrips, SetConfig, fw_updater_jump_bootloader, Environment,
             pads
    <3> QED
      BY <3>1 DEF DriveOn
  <2>2. /\ discharge_voltage \in Nat
        /\ bus_voltage \in Nat
        /\ config.prechargeTimeout \in Nat
        /\ ShortCheck \in Nat /\ MaxGap \in Nat
        /\ PrechargeElapsed \in Nat
    BY ConstantsAssumption, ConfigFields
    DEF IInv, Values, PrechargeElapsed, Millis
  <2>3. PrechargeElapsedAfter(d) =< PrechargeElapsed + d
    BY <2>2, RemainderIsNotLarger, ConstantsAssumption
    DEF PrechargeElapsedAfter, ST2MS
  <2>4. PrechargeElapsedAfter(d) \in Nat
    BY <2>2, ConstantsAssumption DEF PrechargeElapsedAfter, ST2MS
  <2> QED
    BY <2>1, <2>2, <2>3, <2>4
    DEF ShortDetected, PrechargeDone, ShortVoltage, PrechargeMargin
<1> QED
  BY <1>1, Invariance, PTL DEF Spec, NeverSwitchedIntoShort
=============================================================================
