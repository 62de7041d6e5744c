------------------------------- MODULE Eeprom -------------------------------
(***************************************************************************)
(* The EEPROM emulation of eeprom.c on two flash pages.  A page has a      *)
(* header half-word (its status) and slots of two half-words, data and     *)
(* virtual address; a write appends a slot, a full page is compacted into  *)
(* the other one.  Every step is one flash operation, and the power may    *)
(* fail before or after each one; a page erase may also be cut short.      *)
(*                                                                         *)
(* config_write_field and config_write_all call EE_WriteVariable with the  *)
(* system locked and config_init calls EE_Init before any other thread     *)
(* exists, so there is one caller at a time.                               *)
(***************************************************************************)
EXTENDS Integers

CONSTANTS
  NB_OF_VAR,     \* variables in VirtAddVarTab that are ever written
  Slots,         \* slots of a page: 511 of the 2 KB
  Data,          \* half-words that may be written; Blank may be one of them
  MaxCrashes,    \* power losses in a row without a completed EE_Init between;
                 \* one less once a flash operation has failed
  FlashMayFail   \* whether a flash operation may return an error

Blank == 65535   \* an erased half-word
Vars  == 1..NB_OF_VAR
Pages == {0, 1}
Index == 1..Slots

ASSUME EepromAssumption ==
  /\ NB_OF_VAR \in Nat \ {0} /\ NB_OF_VAR < Blank
  /\ Slots \in Nat /\ Slots > NB_OF_VAR
  /\ Data \subseteq 0..Blank /\ Data # {}
  /\ MaxCrashes \in Nat
  /\ FlashMayFail \in BOOLEAN

VARIABLES
  status,    \* page headers
  slots,     \* page contents
  pc,        \* next flash operation, "idle" between calls, "off" without power
  old,       \* page that is erased in the end
  idx,       \* VarIdx of the copy loops
  skip,      \* variable the copy loops leave out
  word,      \* arguments of EE_VerifyPageFullWriteVariable
  ctx,       \* its caller
  at,        \* slot it is writing
  req,       \* the EE_WriteVariable under way
  result,    \* what the last EE_WriteVariable returned
  crashes,
  errors     \* history: 1 once a flash operation has failed

flash == <<status, slots>>
locals == <<old, idx, skip, word, ctx, at>>
vars == <<flash, pc, locals, req, result, crashes, errors>>

EmptySlot == [tag |-> Blank, data |-> Blank]
EmptyPage == [i \in Index |-> EmptySlot]
NoRequest == [var |-> 0, data |-> 0]
Nowhere   == [page |-> 0, slot |-> 1]

Other(p) == 1 - p

-----------------------------------------------------------------------------
(* Flash operations.                                                        *)

FLASH_ErasePage(p) ==
  /\ status' = [status EXCEPT ![p] = "ERASED"]
  /\ slots' = [slots EXCEPT ![p] = EmptyPage]

\* A half-word can be programmed when it is blank; 0x0000, which is
\* VALID_PAGE, can be programmed over anything.
Programmable(p, s) == status[p] = "ERASED" \/ s = "VALID"

MarkPage(p, s) ==
  /\ status' = [status EXCEPT ![p] = s]
  /\ UNCHANGED slots

-----------------------------------------------------------------------------
(* Lookups.                                                                 *)

Free(p) == {i \in Index : slots[p][i] = EmptySlot}
Tagged(p, v) == {i \in Index : slots[p][i].tag = v}

FirstOf(S, i) == i \in S /\ \A j \in S : i <= j
LastOf(S, i) == i \in S /\ \A j \in S : j <= i

\* EE_FindValidPage, as the set of at most one page.
ReadPages ==
  CASE status[0] = "VALID" -> {0}
    [] status[0] # "VALID" /\ status[1] = "VALID" -> {1}
    [] OTHER -> {}

WritePages ==
  CASE status[1] = "VALID" -> {IF status[0] = "RECEIVE" THEN 0 ELSE 1}
    [] status[1] # "VALID" /\ status[0] = "VALID" ->
         {IF status[1] = "RECEIVE" THEN 1 ELSE 0}
    [] OTHER -> {}

\* Slots that EE_ReadVariable(v) returns: the last one tagged v, if any.
Reads(p, v) == {i \in Index : LastOf(Tagged(p, v), i)}

-----------------------------------------------------------------------------
(* Control.                                                                 *)

ClearLocals ==
  /\ old' = 0
  /\ idx' = 1
  /\ skip' = Blank
  /\ word' = NoRequest
  /\ ctx' = "write"
  /\ at' = Nowhere

\* EE_Init or EE_WriteVariable returns.  config_init ignores what EE_Init
\* returns.
ReturnStatus(r) ==
  /\ pc' = "idle"
  /\ result' = IF req = NoRequest THEN "none" ELSE r
  /\ req' = NoRequest
  /\ crashes' = 0
  /\ errors' = IF r = "flash" THEN 1 ELSE errors
  /\ ClearLocals

Keep == UNCHANGED <<req, result, crashes, errors>>

\* An erased page is erased again: its erase may have been cut short.
TrustHeader == "xvalid"
EraseAgain == "xerase"

\* No other branch applies.
FormatUnlessValid ==
  status[0] = status[1] \/ \A p \in Pages : status[p] # "VALID"
FormatCase == status[0] = status[1]

\* EE_Init: the branches on the two page headers.  Every branch goes on with
\* the flash operations of its own.
EE_Init ==
  /\ pc = "off"
  /\ \/ \E p \in Pages :
          /\ status[p] = "VALID" /\ status[Other(p)] = "ERASED"
          /\ old' = Other(p)
          /\ pc' = "clean"
          /\ UNCHANGED <<idx, skip>>
     \/ \E p \in Pages :
          /\ status[p] = "RECEIVE" /\ status[Other(p)] = "ERASED"
          /\ old' = Other(p)
          /\ pc' = EraseAgain
          /\ UNCHANGED <<idx, skip>>
     \/ \E p \in Pages :
          /\ status[p] = "RECEIVE" /\ status[Other(p)] = "VALID"
          /\ old' = Other(p)
          /\ skip' = slots[p][1].tag
          /\ idx' = 1
          /\ pc' = "copy"
     \/ /\ FormatCase
        /\ pc' = "ferase"
        /\ UNCHANGED <<old, idx, skip>>
  /\ UNCHANGED <<flash, word, ctx, at>>
  /\ Keep

EE_WriteVariable ==
  /\ pc = "idle"
  /\ \E v \in Vars, d \in Data :
       /\ req' = [var |-> v, data |-> d]
       /\ word' = req'
  /\ ctx' = "write"
  /\ result' = "none"
  /\ pc' = "put"
  /\ UNCHANGED <<flash, old, idx, skip, at, crashes, errors>>

\* EE_VerifyPageFullWriteVariable up to the first half-word.
PutData ==
  /\ pc = "put"
  /\ \E p \in WritePages : \E i \in Free(p) :
       /\ FirstOf(Free(p), i)
       /\ slots' = [slots EXCEPT ![p][i].data = word.data]
       /\ at' = [page |-> p, slot |-> i]
  /\ pc' = "tag"
  /\ UNCHANGED <<status, old, idx, skip, word, ctx>>
  /\ Keep

\* No valid page: every caller returns the error.
PutNoPage ==
  /\ pc = "put"
  /\ WritePages = {}
  /\ ReturnStatus("error")
  /\ UNCHANGED flash

\* PAGE_FULL: EE_WriteVariable goes on with EE_PageTransfer, the copy loops
\* return it.
PutPageFull ==
  /\ pc = "put"
  /\ \E p \in WritePages : Free(p) = {}
  /\ \/ ctx = "write" /\ pc' = "receive" /\ UNCHANGED locals /\ Keep
     \/ ctx # "write" /\ ReturnStatus("error")
  /\ UNCHANGED flash

SameVar == idx
NextVar == idx + 1

\* The second half-word of the slot, the virtual address.
PutTag ==
  /\ pc = "tag"
  /\ slots' = [slots EXCEPT ![at.page][at.slot].tag = word.var]
  /\ UNCHANGED status
  /\ \/ ctx = "write" /\ ReturnStatus("ok")
     \/ /\ ctx # "write"
        /\ idx' = IF ctx = "copy" THEN NextVar ELSE 1
        /\ skip' = IF ctx = "copy" THEN skip ELSE word.var
        /\ pc' = "copy"
        /\ UNCHANGED <<old, word, ctx, at>>
        /\ Keep

\* EE_PageTransfer marks the new page; PutData, PutTag and CopyNext follow.
\* A page that is already receiving cannot be marked again.
Receive ==
  /\ pc = "receive"
  /\ \E p \in ReadPages :
       IF Programmable(Other(p), "RECEIVE")
       THEN /\ MarkPage(Other(p), "RECEIVE")
            /\ old' = p
            /\ ctx' = "first"
            /\ pc' = "put"
            /\ UNCHANGED <<idx, skip, word, at>>
            /\ Keep
       ELSE ReturnStatus("error") /\ UNCHANGED flash

\* One round of a copy loop, up to the write.
CopyAll == TRUE
ToCopy == idx # skip

OneVarLess == idx < NB_OF_VAR
OneVarMore == idx <= NB_OF_VAR + 1
VarsLeft == idx <= NB_OF_VAR

CopyNext ==
  /\ pc = "copy"
  /\ VarsLeft
  /\ \/ \E p \in ReadPages : \E i \in Reads(p, idx) :
          /\ ToCopy
          /\ word' = [var |-> idx, data |-> slots[p][i].data]
          /\ ctx' = "copy"
          /\ pc' = "put"
          /\ UNCHANGED idx
     \/ /\ ~ToCopy \/ \A p \in ReadPages : Tagged(p, idx) = {}
        /\ idx' = NextVar
        /\ UNCHANGED <<word, ctx, pc>>
  /\ UNCHANGED <<flash, old, skip, at>>
  /\ Keep

\* After the loop EE_PageTransfer erases the old page and then marks the new
\* one, EE_Init marks the new one and then erases the old one.
Recovering == req = NoRequest

CopyEnd ==
  /\ pc = "copy"
  /\ ~VarsLeft
  /\ pc' = IF Recovering THEN "ivalid" ELSE "xerase"
  /\ UNCHANGED <<flash, locals>>
  /\ Keep

\* EE_PageTransfer, and EE_Init for an erased page and a receiving one.
TransferErase ==
  /\ pc = "xerase"
  /\ FLASH_ErasePage(old)
  /\ pc' = "xvalid"
  /\ UNCHANGED locals
  /\ Keep

TransferValid ==
  /\ pc = "xvalid"
  /\ MarkPage(Other(old), "VALID")
  /\ ReturnStatus("ok")

\* EE_Init for a valid page and a receiving one.
RecoverValid ==
  /\ pc = "ivalid"
  /\ MarkPage(Other(old), "VALID")
  /\ pc' = "clean"
  /\ UNCHANGED locals
  /\ Keep

\* The last step of EE_Init in all other branches.
CleanOld ==
  /\ pc = "clean"
  /\ FLASH_ErasePage(old)
  /\ ReturnStatus("ok")

\* EE_Format; its last step is CleanOld.
FormatErase ==
  /\ pc = "ferase"
  /\ FLASH_ErasePage(0)
  /\ pc' = "fvalid"
  /\ UNCHANGED locals
  /\ Keep

FormatValid ==
  /\ pc = "fvalid"
  /\ MarkPage(0, "VALID")
  /\ pc' = "clean"
  /\ old' = 1
  /\ UNCHANGED <<idx, skip, word, ctx, at>>
  /\ Keep

-----------------------------------------------------------------------------
(* The environment.                                                         *)

FlashOps == {"put", "tag", "receive", "xerase", "xvalid", "ivalid", "clean",
             "ferase", "fvalid"}

\* A flash operation returns an error: so does the function it is part of.
FlashFails ==
  /\ FlashMayFail
  /\ pc \in FlashOps
  /\ pc = "put" => \E p \in WritePages : Free(p) # {}
  /\ ReturnStatus("flash")
  /\ UNCHANGED flash

Erasing == IF pc = "ferase" THEN 0 ELSE old

\* The power fails.  An erase that is cut short may have blanked the header
\* and not yet the slots.
PowerLoss ==
  /\ pc # "off"
  /\ crashes + errors < MaxCrashes
  /\ crashes' = crashes + 1
  /\ \/ UNCHANGED flash
     \/ /\ pc \in {"xerase", "clean", "ferase"}
        /\ status' = [status EXCEPT ![Erasing] = "ERASED"]
        /\ UNCHANGED slots
  /\ pc' = "off"
  /\ req' = NoRequest
  /\ result' = "none"
  /\ ClearLocals
  /\ UNCHANGED errors

-----------------------------------------------------------------------------
\* A new chip: both pages are blank.
Init ==
  /\ status = [p \in Pages |-> "ERASED"]
  /\ slots = [p \in Pages |-> EmptyPage]
  /\ pc = "off"
  /\ old = 0
  /\ idx = 1
  /\ skip = Blank
  /\ word = NoRequest
  /\ ctx = "write"
  /\ at = Nowhere
  /\ req = NoRequest
  /\ result = "none"
  /\ crashes = 0
  /\ errors = 0

Step ==
  \/ EE_Init
  \/ PutData \/ PutNoPage \/ PutPageFull \/ PutTag
  \/ Receive \/ CopyNext \/ CopyEnd
  \/ TransferErase \/ TransferValid
  \/ RecoverValid \/ CleanOld
  \/ FormatErase \/ FormatValid

Next == Step \/ EE_WriteVariable \/ FlashFails \/ PowerLoss

\* A call that has started runs on: nothing blocks in eeprom.c.
Spec == Init /\ [][Next]_vars /\ WF_vars(Step)

-----------------------------------------------------------------------------
(* Properties.                                                              *)

Requests == [var : Vars, data : Data] \union {NoRequest}
HalfWords == Data \union {Blank}

\* Every variable keeps its type; in particular no page ever holds a
\* half-word that was not written by a caller.
TypeOK ==
  /\ status \in [Pages -> {"ERASED", "RECEIVE", "VALID"}]
  /\ slots \in [Pages -> [Index -> [tag : Vars \union {Blank}, data : HalfWords]]]
  /\ pc \in {"off", "idle", "copy"} \union FlashOps
  /\ old \in Pages
  /\ idx \in 1..(NB_OF_VAR + 1)
  /\ skip \in Vars \union {Blank}
  /\ word \in [var : Vars, data : HalfWords] \union {NoRequest}
  /\ ctx \in {"write", "first", "copy"}
  /\ at \in [page : Pages, slot : Index]
  /\ req \in Requests
  /\ result \in {"none", "ok", "error", "flash"}
  /\ crashes \in 0..MaxCrashes
  /\ errors \in {0, 1}

\* What EE_ReadVariable finds on page p.
Content(p) ==
  [v \in {w \in Vars : Tagged(p, w) # {}} |->
     slots[p][CHOOSE i \in Reads(p, v) : TRUE].data]

\* What the store holds, seen through a power loss at any moment: the page
\* EE_Init keeps, and for a page transfer the variable that started it.
Stored ==
  IF \E p \in Pages : status[p] = "VALID" /\ status[Other(p)] = "RECEIVE"
  THEN LET p == CHOOSE q \in Pages : status[q] = "VALID"
           first == slots[Other(p)][1]
       IN  [v \in DOMAIN Content(p) \union ({first.tag} \ {Blank}) |->
              IF v = first.tag THEN first.data ELSE Content(p)[v]]
  ELSE CASE status = [p \in Pages |-> "ERASED"] -> <<>>
         [] status = [p \in Pages |-> "VALID"] ->
              Content(IF pc = "clean" THEN Other(old) ELSE 1)
         [] OTHER -> Content(CHOOSE p \in Pages : status[p] # "ERASED")

Store == INSTANCE EepromStore WITH store <- Stored

\* The emulation implements an atomic map: whatever flash operation the
\* power loss hits, a write has happened entirely or not at all, nothing
\* else changes, and FLASH_COMPLETE is returned only for a write that has
\* happened.
ImplementsStore == Store!Spec

\* Between calls one page is valid and the other one is erased and blank, so
\* that the next page transfer finds room (eeprom.c:54, the promise of
\* EE_Init).
KnownGoodState ==
  pc = "idle" =>
    \E p \in Pages : /\ status[p] = "VALID"
                     /\ status[Other(p)] = "ERASED"
                     /\ slots[Other(p)] = EmptyPage

\* When EE_WriteVariable returns FLASH_COMPLETE, EE_ReadVariable finds the
\* value that was written (eeprom.c:266).
WrittenIsRead ==
  [][req # NoRequest /\ result' = "ok"
       => \E p \in ReadPages' : /\ req.var \in DOMAIN Content(p)'
                                /\ Content(p)'[req.var] = req.data]_vars

\* A variable that has been stored stays stored (eeprom.c:54: EE_Init
\* restores the pages to a known good state after a power loss).
StoredSurvives == [][DOMAIN Stored \subseteq DOMAIN Stored']_vars

\* A variable disappears, or changes without having been written, only once
\* there are two valid pages, which EE_Init formats, or after a flash error:
\* a store without flash errors that never has two valid pages never loses
\* anything, however often the power fails and even if recovery itself runs
\* out of slots (eeprom.c:144).
LossNeedsTwoValidPages ==
  [][\/ \A v \in DOMAIN Stored :
          /\ v \in DOMAIN Stored'
          /\ Stored'[v] # Stored[v] => v = req.var /\ Stored'[v] = req.data
     \/ \A p \in Pages : status'[p] = "VALID"
     \/ errors' = 1]_vars

\* No step, and no power loss or flash error in any step, leaves the flash
\* without a page header once there has been one, and the two pages are
\* never both receiving: EE_Init always finds a page to go on from.
HeaderRemains ==
  [][/\ (\E p \in Pages : status[p] # "ERASED")
          => \E p \in Pages : status'[p] # "ERASED"
     /\ \E p \in Pages : status'[p] # "RECEIVE"]_vars

\* A call of EE_Init or EE_WriteVariable returns, unless the power fails.
CallsReturn == pc \notin {"idle", "off"} ~> pc \in {"idle", "off"}
=============================================================================
