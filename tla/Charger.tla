------------------------------ MODULE Charger ------------------------------
(***************************************************************************)
(* Charging and cell balancing: charger.c and ltc6803.c as the main loop   *)
(* runs them, with the console commands that drain cells and the           *)
(* configuration changes that reach them from the packet thread.           *)
(*                                                                         *)
(* The main thread gives way only where it blocks: in the SPI transfers of *)
(* ltc6803_update and the I2C transfer of set_voltage.  What set_voltage   *)
(* writes to the DAC is not tracked.  charge_enabled stays true, nothing   *)
(* calls charger_disable.  lowestCellNum is never assigned in a pass that  *)
(* uses it, so cells[lowestCellNum] may be any value.  Whether power_update *)
(* shuts the board down, which ends the loop, is module Power's question:  *)
(* here any pass may be the last.                                          *)
(***************************************************************************)
EXTENDS Integers

CONSTANTS
  MaxCells,       \* cells of the LTC6803: 12
  Volts,          \* cell voltages, in units of the smallest difference
  Configs,        \* configurations the host may set
  CompleteCount   \* passes of low current before charging ends: 100

Cells == 1..MaxCells

ASSUME ChargerAssumption ==
  /\ MaxCells \in Nat
  /\ Volts \subseteq Nat /\ Volts # {}
  /\ CompleteCount \in Nat
  /\ Configs # {}
  /\ Configs \subseteq [numCells : 0..MaxCells, balanceStartVoltage : Nat,
                        balanceDifferenceThreshold : Nat,
                        highVoltageCutoff : Nat]

VARIABLES
  pc,           \* the next part of the loop, "exit" once it has ended
  cells,        \* voltages read last
  configReg,    \* cells whose resistor is to be on, bytes 1 and 2 of configReg
  resistors,    \* cells whose resistor is on, in the LTC6803
  lock,
  is_charging, balancing, chargeComplete, chargeCompleteCounter,
  CHG_SW,
  config,
  stranded      \* history: cells that numCells excluded while configReg had them

ltc  == <<configReg, lock, stranded>>
vars == <<pc, cells, ltc, resistors, is_charging, balancing, chargeComplete,
          chargeCompleteCounter, CHG_SW, config>>

Used == 1..config.numCells

-----------------------------------------------------------------------------
(* ltc6803.c *)

EnableOnly(on, off) ==
  configReg' = IF lock THEN configReg ELSE configReg \union (on \intersect Used)

\* enable_balance for the cells of on, disable_balance for those of off.  A
\* cell above numCells is left as it is, and all of them while locked.
Balance(on, off) ==
  configReg' = IF lock THEN configReg
               ELSE (configReg \ (off \intersect Used))
                      \union (on \intersect Used)

ltc6803_disable_balance_all ==
  IF lock THEN UNCHANGED <<configReg, stranded>>
  ELSE configReg' = {} /\ stranded' = {}

\* The configuration is written in every pass; the cells are read when a
\* conversion has had its 13 ms.
WriteOnce == IF resistors = {} THEN configReg ELSE resistors
ltc6803_wrcfg == configReg

ltc6803_update ==
  /\ pc = "ltc"
  /\ resistors' = ltc6803_wrcfg
  /\ cells' = cells \/ cells' \in [Cells -> Volts]
  /\ pc' = "charge"
  /\ UNCHANGED <<ltc, is_charging, balancing, chargeComplete,
                 chargeCompleteCounter, CHG_SW, config>>

-----------------------------------------------------------------------------
(* charger.c *)

UpTo(v) == v > 0 /\ \A c \in Used : cells[c] <= v

\* highestCellV < v; it starts at 0.
Below(v) == v > 0 /\ \A c \in Used : cells[c] < v

\* Line 73, without the time.
Unbalanced ==
  /\ ~Below(config.balanceStartVoltage)
  /\ \E c, d \in Used :
       cells[c] - cells[d] > config.balanceDifferenceThreshold

\* Lines 59 to 82.  Balancing starts with a fresh balanceUpdateTime, so the
\* loop of line 86 waits for a later pass.
KeepCharging == UNCHANGED CHG_SW
OpenCharge == CHG_SW' = FALSE

StartBalancing ==
  /\ ~balancing
  /\ Unbalanced
  /\ balancing' = TRUE
  /\ OpenCharge
  /\ pc' = "rest"
  /\ UNCHANGED configReg

\* Lines 83 to 100; update tells whether 500 ms have passed, ref is
\* cells[lowestCellNum].
Higher(ref) == {c \in Used : cells[c] > ref}

ContinueBalancing(update, ref) ==
  /\ balancing
  /\ OpenCharge
  /\ IF update
     THEN /\ Balance(Higher(ref), Used \ Higher(ref))
          /\ balancing' = (Higher(ref) # {})
     ELSE UNCHANGED <<configReg, balancing>>
  /\ pc' = "rest"

\* Line 104; set_voltage blocks.
Charge ==
  /\ ~balancing
  /\ Below(config.highVoltageCutoff)
  /\ CHG_SW' = TRUE
  /\ pc' = "voltage"
  /\ UNCHANGED <<configReg, balancing>>

\* Line 144.
Overvoltage ==
  /\ ~balancing
  /\ ~Below(config.highVoltageCutoff)
  /\ CHG_SW' = FALSE
  /\ pc' = "rest"
  /\ UNCHANGED <<configReg, balancing>>

ActiveCharge ==
  /\ is_charging' /\ ~chargeComplete
  /\ \/ StartBalancing
     \/ \E update \in BOOLEAN, ref \in Volts \union {0} :
          ContinueBalancing(update, ref)
     \/ Charge
     \/ Overvoltage
  /\ UNCHANGED <<chargeComplete, chargeCompleteCounter, stranded>>

\* Lines 149 to 159.
Unplugged ==
  /\ CHG_SW' = TRUE
  /\ chargeComplete' = FALSE
  /\ chargeCompleteCounter' = 0

NoCharge ==
  /\ ~is_charging' \/ chargeComplete
  /\ \/ ~is_charging' /\ Unplugged
     \/ /\ is_charging'
        /\ CHG_SW' = FALSE
        /\ UNCHANGED <<chargeComplete, chargeCompleteCounter>>
  /\ balancing' = FALSE
  /\ ltc6803_disable_balance_all
  /\ pc' = "rest"

charger_update ==
  /\ pc = "charge"
  /\ is_charging' \in BOOLEAN
  /\ ActiveCharge \/ NoCharge
  /\ UNCHANGED <<cells, resistors, lock, config>>

NeverComplete(full) ==
  /\ chargeCompleteCounter' = IF full THEN chargeCompleteCounter + 1 ELSE 0
  /\ UNCHANGED chargeComplete

\* Lines 131 to 140, after set_voltage.
CountPass(full) ==
  /\ chargeCompleteCounter' = IF full THEN chargeCompleteCounter + 1 ELSE 0
  /\ chargeComplete' = (full /\ chargeCompleteCounter' > CompleteCount)

CheckComplete ==
  /\ pc = "voltage"
  /\ \E full \in BOOLEAN : CountPass(full)
  /\ pc' = "rest"
  /\ UNCHANGED <<cells, ltc, resistors, is_charging, balancing, CHG_SW, config>>

-----------------------------------------------------------------------------
(* main.c: power_update, the rest of the pass, and the end of the loop when *)
(* power_update has shut the board down.  ltc6803_update is not called      *)
(* again then, and the LTC6803 keeps the register it was last sent.         *)

EndOfPass ==
  /\ pc = "rest"
  /\ pc' \in {"ltc", "exit"}
  /\ UNCHANGED <<cells, ltc, resistors, is_charging, balancing, chargeComplete,
                 chargeCompleteCounter, CHG_SW, config>>

-----------------------------------------------------------------------------
(* The packet thread.  Each location of the main thread is one where it    *)
(* blocks: analog_update and ltc6803_update at "ltc", the SPI transfers and *)
(* current_monitor_update at "charge", set_voltage at "voltage",           *)
(* rtcc_enable_alarm and rtcc_update at "rest".  No thread is scheduled    *)
(* once main has returned.                                                 *)

Running == pc # "exit"

\* Console command enable_drain.
EnableDrain ==
  /\ Running
  /\ Balance(Used, {})
  /\ lock' = TRUE
  /\ UNCHANGED <<pc, cells, stranded, resistors, is_charging, balancing,
                 chargeComplete, chargeCompleteCounter, CHG_SW, config>>

\* Console command disable_drain.
DisableDrain ==
  /\ Running
  /\ lock' = FALSE
  /\ configReg' = {}
  /\ stranded' = {}
  /\ UNCHANGED <<pc, cells, resistors, is_charging, balancing,
                 chargeComplete, chargeCompleteCounter, CHG_SW, config>>

SetConfig ==
  /\ Running
  /\ config' \in Configs
  /\ stranded' = stranded \union (configReg \ (1..config'.numCells))
  /\ UNCHANGED <<pc, cells, configReg, lock, resistors, is_charging,
                 balancing, chargeComplete, chargeCompleteCounter, CHG_SW>>

\* The bootloader takes over, wherever the main thread is blocked.
fw_updater_jump_bootloader ==
  /\ Running
  /\ pc' = "exit"
  /\ UNCHANGED <<cells, ltc, resistors, is_charging, balancing, chargeComplete,
                 chargeCompleteCounter, CHG_SW, config>>

-----------------------------------------------------------------------------
Init ==
  /\ pc = "ltc"
  /\ cells = [c \in Cells |-> 0]
  /\ configReg = {}
  /\ resistors = {}
  /\ lock = FALSE
  /\ is_charging = FALSE
  /\ balancing = FALSE
  /\ chargeComplete = FALSE
  /\ chargeCompleteCounter = 0
  /\ CHG_SW = TRUE
  /\ config \in Configs
  /\ stranded = {}

MainThread == ltc6803_update \/ charger_update \/ CheckComplete \/ EndOfPass

PacketThread ==
  EnableDrain \/ DisableDrain \/ SetConfig \/ fw_updater_jump_bootloader

Next == MainThread \/ PacketThread

\* The transfers of the main thread time out: it keeps running until its loop
\* ends.
Spec == Init /\ [][Next]_vars /\ WF_vars(MainThread)

-----------------------------------------------------------------------------
(* Properties.                                                              *)

\* Every variable keeps its type; chargeCompleteCounter, a uint8_t, stops one
\* above its limit and never wraps.
TypeOK ==
  /\ pc \in {"ltc", "charge", "voltage", "rest", "exit"}
  /\ cells \in [Cells -> Volts \union {0}]
  /\ configReg \subseteq Cells
  /\ resistors \subseteq Cells
  /\ lock \in BOOLEAN
  /\ is_charging \in BOOLEAN
  /\ balancing \in BOOLEAN
  /\ chargeComplete \in BOOLEAN
  /\ chargeCompleteCounter \in 0..(CompleteCount + 1)
  /\ CHG_SW \in BOOLEAN
  /\ config \in Configs
  /\ stranded \subseteq Cells

\* The charge switch is open for as long as cells are balanced, from the pass
\* that starts it to the pass after it has ended (charger.c:81).
NoChargeWhileBalancing == balancing => ~CHG_SW

\* A resistor is left on only while balancing or while the console has locked
\* the resistors, or on a cell that a smaller numCells has put out of reach
\* of ltc6803_disable_balance (ltc6803.c:84).
DrainStops == balancing \/ lock \/ configReg \subseteq stranded

\* With a charger attached no pass of charger_update leaves the switch closed
\* while a cell is at its cutoff voltage, whichever branch it takes.
OvervoltageOpens ==
  [][pc = "charge" /\ pc' \in {"voltage", "rest"} /\ is_charging'
       /\ (\E c \in Used : cells[c] >= config.highVoltageCutoff)
       => ~CHG_SW']_vars

\* Once balancing and draining have ended for good, the resistors of the chip
\* are switched off, although configReg reaches it only with the next pass.
\* The exception is a loop that ends before that pass: charger.c:159 clears
\* configReg when the charger is unplugged, with chargerDisconnectShutdown
\* power_update shuts down in that very pass (power.c:96, main.c:197), and
\* ltc6803_wrcfg never writes the register.
ResistorsEndOff ==
  <>[](~balancing /\ ~lock) => <>[](resistors \subseteq stranded \/ ~Running)
=============================================================================
