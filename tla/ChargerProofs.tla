--------------------------- MODULE ChargerProofs ---------------------------
(***************************************************************************)
(* Proofs about charging and balancing, for every number of cells, every   *)
(* set of voltages and every set of configurations.                        *)
(***************************************************************************)
EXTENDS Charger, TLAPS

-----------------------------------------------------------------------------
(* The inductive invariant.                                                 *)

\* The type invariant in two halves: the flags, and the rest without the
\* counter.
Flags ==
  /\ lock \in BOOLEAN
  /\ is_charging \in BOOLEAN
  /\ balancing \in BOOLEAN
  /\ chargeComplete \in BOOLEAN
  /\ CHG_SW \in BOOLEAN

Values ==
  /\ pc \in {"ltc", "charge", "voltage", "rest", "exit"}
  /\ cells \in [Cells -> Volts \union {0}]
  /\ configReg \subseteq Cells
  /\ resistors \subseteq Cells
  /\ config \in Configs
  /\ stranded \subseteq Cells

\* The counter passes its limit only together with chargeComplete, and the
\* main thread blocks in set_voltage only before that.
CounterStops ==
  /\ chargeCompleteCounter \in 0..(CompleteCount + 1)
  /\ chargeCompleteCounter > CompleteCount => chargeComplete
  /\ pc = "voltage" => ~chargeComplete

\* A resistor that ltc6803_disable_balance would refuse to switch off was put
\* out of its reach by a smaller numCells.
OutOfReach == configReg \ Used \subseteq stranded

IInv ==
  /\ Flags /\ Values /\ CounterStops /\ OutOfReach
  /\ NoChargeWhileBalancing /\ DrainStops

LEMMA TypeParts == IInv => TypeOK
BY Zenon DEF IInv, TypeOK, Flags, Values, CounterStops

-----------------------------------------------------------------------------
(* Operators.                                                               *)

LEMMA VoltsAreNumbers == Volts \union {0} \subseteq Nat
BY ChargerAssumption

LEMMA UsedCells == ASSUME Values PROVE Used \subseteq Cells
<1>1. config.numCells \in 0..MaxCells
  BY ChargerAssumption DEF Values
<1> QED
  BY <1>1, ChargerAssumption DEF Used, Cells

\* Resistors are switched on only for cells in use, and everything that is
\* not switched off again stays as it was.
LEMMA BalanceBounds ==
  ASSUME NEW on, NEW off, Balance(on, off)
  PROVE  /\ configReg' \subseteq configReg \union Used
         /\ lock => configReg' = configReg
         /\ ~lock => configReg' = (configReg \ (off \intersect Used))
                                    \union (on \intersect Used)
BY DEF Balance

LEMMA InitIInv == Init => IInv
<1> SUFFICES ASSUME Init PROVE IInv
  OBVIOUS
<1>1. Flags
  BY Zenon DEF Init, Flags
<1>2. Values
  BY DEF Init, Values
<1>3. CounterStops
  BY ChargerAssumption DEF Init, CounterStops
<1>4. OutOfReach /\ NoChargeWhileBalancing /\ DrainStops
  BY Zenon DEF Init, OutOfReach, NoChargeWhileBalancing, DrainStops
<1> QED
  BY <1>1, <1>2, <1>3, <1>4 DEF IInv

-----------------------------------------------------------------------------
(* What charger_update can do, branch by branch.                            *)

LEMMA FlagsStep == IInv /\ [Next]_vars => Flags'
<1> SUFFICES ASSUME Flags, [Next]_vars PROVE Flags'
  BY DEF IInv
<1> USE DEF Flags
<1>1. CASE ltc6803_update
  BY Zenon, <1>1 DEF ltc6803_update, ltc
<1>2. CASE charger_update
  <2>1. CASE ActiveCharge
    <3>1. balancing' \in BOOLEAN /\ CHG_SW' \in BOOLEAN
      <4>1. CASE StartBalancing
        BY Zenon, <4>1 DEF StartBalancing, OpenCharge
      <4>2. ASSUME NEW update \in BOOLEAN, NEW ref, ContinueBalancing(update, ref)
            PROVE  balancing' \in BOOLEAN /\ CHG_SW' \in BOOLEAN
        BY Zenon, <4>2 DEF ContinueBalancing, OpenCharge
      <4>3. CASE Charge \/ Overvoltage
        BY Zenon, <4>3 DEF Charge, Overvoltage
      <4> QED
        BY Zenon, <2>1, <4>1, <4>2, <4>3 DEF ActiveCharge
    <3> QED
      BY Zenon, <1>2, <2>1, <3>1 DEF charger_update, ActiveCharge
  <2>2. CASE NoCharge
    BY Zenon, <1>2, <2>2 DEF charger_update, NoCharge, Unplugged
  <2> QED
    BY Zenon, <1>2, <2>1, <2>2 DEF charger_update
<1>3. CASE CheckComplete
  BY Zenon, <1>3 DEF CheckComplete, CountPass, ltc
<1>4. CASE EnableDrain
  BY Zenon, <1>4 DEF EnableDrain
<1>5. CASE DisableDrain
  BY Zenon, <1>5 DEF DisableDrain
<1>6. CASE SetConfig
  BY Zenon, <1>6 DEF SetConfig
<1>7. CASE EndOfPass
  BY Zenon, <1>7 DEF EndOfPass, ltc
<1>8. CASE fw_updater_jump_bootloader
  BY Zenon, <1>8 DEF fw_updater_jump_bootloader, ltc
<1>9. CASE UNCHANGED vars
  BY Zenon, <1>9 DEF vars, ltc
<1> QED
  BY <1>1, <1>2, <1>3, <1>4, <1>5, <1>6, <1>7, <1>8, <1>9
  DEF Next, MainThread, PacketThread

LEMMA ValuesStep == IInv /\ [Next]_vars => Values'
<1> SUFFICES ASSUME Values, [Next]_vars PROVE Values'
  BY DEF IInv
<1>u. Used \subseteq Cells
  BY UsedCells
<1> USE DEF Values
<1>1. CASE ltc6803_update
  BY <1>1 DEF ltc6803_update, ltc6803_wrcfg, ltc
<1>2. CASE charger_update
  <2>1. pc' \in {"rest", "voltage"} /\ configReg' \subseteq Cells
        /\ stranded' \subseteq Cells
    <3>1. CASE ActiveCharge
      <4>1. CASE StartBalancing
        BY <3>1, <4>1 DEF ActiveCharge, StartBalancing
      <4>2. ASSUME NEW update \in BOOLEAN, NEW ref, ContinueBalancing(update, ref)
            PROVE  pc' \in {"rest", "voltage"} /\ configReg' \subseteq Cells
        <5>1. CASE update
          BY <1>u, <4>2, <5>1, BalanceBounds DEF ContinueBalancing
        <5>2. CASE ~update
          BY <4>2, <5>2 DEF ContinueBalancing
        <5> QED
          BY <5>1, <5>2
      <4>3. CASE Charge \/ Overvoltage
        BY <3>1, <4>3 DEF ActiveCharge, Charge, Overvoltage
      <4> QED
        BY <3>1, <4>1, <4>2, <4>3 DEF ActiveCharge
    <3>2. CASE NoCharge
      BY <3>2 DEF NoCharge, ltc6803_disable_balance_all
    <3> QED
      BY <1>2, <3>1, <3>2 DEF charger_update
  <2> QED
    BY <1>2, <2>1 DEF charger_update
<1>3. CASE CheckComplete
  BY <1>3 DEF CheckComplete, ltc
<1>4. CASE EnableDrain
  BY <1>4, <1>u, BalanceBounds DEF EnableDrain
<1>5. CASE DisableDrain
  BY <1>5 DEF DisableDrain
<1>6. CASE SetConfig
  BY <1>6 DEF SetConfig
<1>7. CASE EndOfPass
  BY <1>7 DEF EndOfPass, ltc
<1>8. CASE fw_updater_jump_bootloader
  BY <1>8 DEF fw_updater_jump_bootloader, ltc
<1>9. CASE UNCHANGED vars
  BY <1>9 DEF vars, ltc
<1> QED
  BY <1>1, <1>2, <1>3, <1>4, <1>5, <1>6, <1>7, <1>8, <1>9
  DEF Next, MainThread, PacketThread

\* chargeComplete becomes true when the counter passes its limit, and false
\* again only together with a counter of 0.
LEMMA CounterStep == IInv /\ [Next]_vars => CounterStops'
<1> SUFFICES ASSUME CounterStops, [Next]_vars PROVE CounterStops'
  BY DEF IInv
<1> USE ChargerAssumption DEF CounterStops
<1>1. CASE ltc6803_update
  BY <1>1 DEF ltc6803_update
<1>2. CASE charger_update
  <2>1. CASE ActiveCharge
    BY <2>1 DEF ActiveCharge
  <2>2. CASE NoCharge
    BY <2>2 DEF NoCharge, Unplugged
  <2> QED
    BY <1>2, <2>1, <2>2 DEF charger_update
<1>3. CASE CheckComplete
  <2>1. PICK full \in BOOLEAN : CountPass(full)
    BY <1>3 DEF CheckComplete
  <2>2. chargeCompleteCounter <= CompleteCount
    BY <1>3 DEF CheckComplete
  <2> QED
    BY <1>3, <2>1, <2>2 DEF CheckComplete, CountPass
<1>4. CASE EndOfPass \/ PacketThread
  BY <1>4 DEF EndOfPass, PacketThread, EnableDrain, DisableDrain, SetConfig,
              fw_updater_jump_bootloader
<1>5. CASE UNCHANGED vars
  BY <1>5 DEF vars
<1> QED
  BY <1>1, <1>2, <1>3, <1>4, <1>5 DEF Next, MainThread

\* The switch is closed only in branches that do not balance, and balancing
\* starts and goes on only in branches that open it.
LEMMA ChargeStep == IInv /\ [Next]_vars => NoChargeWhileBalancing'
<1> SUFFICES ASSUME NoChargeWhileBalancing, [Next]_vars
             PROVE  NoChargeWhileBalancing'
  BY DEF IInv
<1> USE DEF NoChargeWhileBalancing
<1>1. CASE ltc6803_update
  BY Zenon, <1>1 DEF ltc6803_update
<1>2. CASE charger_update
  <2>1. CASE ActiveCharge
    <3>1. CASE StartBalancing
      BY Zenon, <3>1 DEF StartBalancing, OpenCharge
    <3>2. ASSUME NEW update \in BOOLEAN, NEW ref, ContinueBalancing(update, ref)
          PROVE  NoChargeWhileBalancing'
      BY Zenon, <3>2 DEF ContinueBalancing, OpenCharge
    <3>3. CASE Charge \/ Overvoltage
      BY Zenon, <3>3 DEF Charge, Overvoltage
    <3> QED
      BY Zenon, <2>1, <3>1, <3>2, <3>3 DEF ActiveCharge
  <2>2. CASE NoCharge
    BY Zenon, <2>2 DEF NoCharge
  <2> QED
    BY Zenon, <1>2, <2>1, <2>2 DEF charger_update
<1>3. CASE CheckComplete
  BY Zenon, <1>3 DEF CheckComplete
<1>4. CASE EndOfPass \/ PacketThread
  BY Zenon, <1>4 DEF EndOfPass, PacketThread, EnableDrain, DisableDrain,
                     SetConfig, fw_updater_jump_bootloader
<1>5. CASE UNCHANGED vars
  BY Zenon, <1>5 DEF vars
<1> QED
  BY <1>1, <1>2, <1>3, <1>4, <1>5 DEF Next, MainThread

\* Balancing ends in a pass that switches off every cell in use, or through
\* ltc6803_disable_balance_all.
LEMMA DrainStep == IInv /\ [Next]_vars => OutOfReach' /\ DrainStops'
<1> SUFFICES ASSUME OutOfReach, DrainStops, [Next]_vars
             PROVE  OutOfReach' /\ DrainStops'
  BY DEF IInv
<1> USE DEF OutOfReach, DrainStops
<1>1. CASE ltc6803_update
  BY <1>1 DEF ltc6803_update, ltc, Used
<1>2. CASE charger_update
  <2>u. Used' = Used /\ lock' = lock
    BY <1>2 DEF charger_update, Used
  <2>1. CASE ActiveCharge
    <3>1. CASE StartBalancing
      BY <2>1, <2>u, <3>1 DEF ActiveCharge, StartBalancing
    <3>2. ASSUME NEW update \in BOOLEAN, NEW ref, ContinueBalancing(update, ref)
          PROVE  OutOfReach' /\ DrainStops'
      <4>1. stranded' = stranded
        BY <2>1 DEF ActiveCharge
      <4>2. CASE ~update
        BY <3>2, <4>1, <4>2, <2>u DEF ContinueBalancing
      <4>3. CASE update
        <5>1. Balance(Higher(ref), Used \ Higher(ref))
              /\ (Higher(ref) = {} \/ balancing')
          BY <3>2, <4>3 DEF ContinueBalancing
        <5>2. OutOfReach'
          BY <5>1, <4>1, <2>u, BalanceBounds
        <5>3. DrainStops'
          BY <5>1, <4>1, <2>u DEF Balance
        <5> QED
          BY <5>2, <5>3
      <4> QED
        BY <4>2, <4>3
    <3>3. CASE Charge \/ Overvoltage
      BY <2>1, <2>u, <3>3 DEF ActiveCharge, Charge, Overvoltage
    <3> QED
      BY <2>1, <3>1, <3>2, <3>3 DEF ActiveCharge
  <2>2. CASE NoCharge
    BY <2>2, <2>u DEF NoCharge, ltc6803_disable_balance_all
  <2> QED
    BY <1>2, <2>1, <2>2 DEF charger_update
<1>3. CASE CheckComplete
  BY <1>3 DEF CheckComplete, ltc, Used
<1>4. CASE EnableDrain
  <2>1. Used' = Used /\ stranded' = stranded /\ lock'
    BY <1>4 DEF EnableDrain, Used
  <2> QED
    BY <1>4, <2>1, BalanceBounds DEF EnableDrain
<1>5. CASE DisableDrain
  BY <1>5 DEF DisableDrain
<1>6. CASE SetConfig
  BY <1>6 DEF SetConfig, Used
<1>7. CASE EndOfPass
  BY <1>7 DEF EndOfPass, ltc, Used
<1>8. CASE fw_updater_jump_bootloader
  BY <1>8 DEF fw_updater_jump_bootloader, ltc, Used
<1>9. CASE UNCHANGED vars
  BY <1>9 DEF vars, ltc, Used
<1> QED
  BY <1>1, <1>2, <1>3, <1>4, <1>5, <1>6, <1>7, <1>8, <1>9
  DEF Next, MainThread, PacketThread

LEMMA Inductive == Spec => []IInv
<1>1. IInv /\ [Next]_vars => IInv'
  BY FlagsStep, ValuesStep, CounterStep, ChargeStep, DrainStep DEF IInv
<1> QED
  BY InitIInv, <1>1, PTL DEF Spec

-----------------------------------------------------------------------------
(* Theorems.                                                                *)

\* Every variable keeps its type, and chargeCompleteCounter, a uint8_t that
\* charger.c:133 increments without a test of its own, stops one above its
\* limit.
THEOREM TypeCorrect == Spec => []TypeOK
BY Inductive, TypeParts, PTL

\* The charge switch is open for as long as cells are balanced
\* (charger.c:81), for any number of cells and any configuration set meanwhile.
THEOREM BalancingOpensSwitch == Spec => []NoChargeWhileBalancing
<1>1. IInv => NoChargeWhileBalancing
  BY DEF IInv
<1> QED
  BY Inductive, <1>1, PTL

\* Outside of balancing and draining only resistors are on that a smaller
\* numCells put out of reach of ltc6803_disable_balance (ltc6803.c:84).
THEOREM ResistorsStop == Spec => []DrainStops
<1>1. IInv => DrainStops
  BY DEF IInv
<1> QED
  BY Inductive, <1>1, PTL

\* With a charger attached no pass of charger_update leaves the charge switch
\* closed while a cell in use is at its cutoff voltage, whichever branch it
\* takes (charger.c:102, 144).
THEOREM CutoffOpensSwitch == Spec => OvervoltageOpens
<1>1. IInv /\ [Next]_vars =>
        [pc = "charge" /\ pc' \in {"voltage", "rest"} /\ is_charging'
           /\ (\E c \in Used : cells[c] >= config.highVoltageCutoff)
           => ~CHG_SW']_vars
  <2> SUFFICES ASSUME IInv, [Next]_vars, pc = "charge",
                      pc' \in {"voltage", "rest"}, is_charging',
                      NEW c \in Used, cells[c] >= config.highVoltageCutoff
               PROVE  ~CHG_SW'
    OBVIOUS
  <2>1. cells[c] \in Nat /\ config.highVoltageCutoff \in Nat
    <3>1. Values
      BY DEF IInv
    <3>2. c \in Cells
      BY <3>1, UsedCells
    <3>3. config.highVoltageCutoff \in Nat
      BY <3>1, ChargerAssumption DEF Values
    <3>4. cells[c] \in Volts \union {0}
      BY <3>1, <3>2 DEF Values
    <3> QED
      BY <3>3, <3>4, VoltsAreNumbers
  <2>2. ~Below(config.highVoltageCutoff)
    BY <2>1 DEF Below
  <2>3. charger_update
    BY DEF Next, MainThread, PacketThread, ltc6803_update, CheckComplete,
           EndOfPass, EnableDrain, DisableDrain, SetConfig,
           fw_updater_jump_bootloader, vars
  <2>4. CASE ActiveCharge
    BY <2>2, <2>4 DEF ActiveCharge, StartBalancing, ContinueBalancing, Charge,
                      Overvoltage, OpenCharge
  <2>5. CASE NoCharge
    BY <2>5 DEF NoCharge
  <2> QED
    BY <2>3, <2>4, <2>5 DEF charger_update
<1> QED
  BY Inductive, <1>1, PTL DEF Spec, OvervoltageOpens
=============================================================================
