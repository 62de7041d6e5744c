---------------------------- MODULE EepromProofs ----------------------------
(***************************************************************************)
(* Proofs about the EEPROM emulation, for every number of variables, page  *)
(* size and set of data.  IInv holds with any number of power losses in a  *)
(* row and any flash errors; SoundUntilError adds what holds until a flash *)
(* operation has failed; Recovers and Room what holds if the power fails   *)
(* at most once before EE_Init completes and the pages are large enough.   *)
(***************************************************************************)
EXTENDS Eeprom, WellFoundedInduction, TLAPS

Status == {"ERASED", "RECEIVE", "VALID"}
Slot   == [tag : Vars \union {Blank}, data : HalfWords]
Word   == [var : Vars, data : HalfWords]

\* Members of the sets in the types.
LEMMA Basics ==
  /\ 1 \in Index
  /\ EmptySlot \in Slot
  /\ EmptyPage \in [Index -> Slot]
  /\ \A p \in Pages : Other(p) \in Pages
  /\ Nowhere \in [page : Pages, slot : Index]
  /\ 1 \in 1..(NB_OF_VAR + 1)
  /\ Data \subseteq HalfWords
  /\ 0 \in 0..MaxCrashes
BY EepromAssumption
DEF Index, EmptySlot, EmptyPage, Slot, Pages, Other, Nowhere, HalfWords

\* Half of the type invariant: what survives a power loss.
FlashTypes ==
  /\ status \in [Pages -> Status]
  /\ slots \in [Pages -> [Index -> Slot]]

\* The other half: what does not.
LocalTypes ==
  /\ pc \in {"off", "idle", "copy"} \union FlashOps
  /\ old \in Pages
  /\ idx \in 1..(NB_OF_VAR + 1)
  /\ skip \in Vars \union {Blank}
  /\ word \in Word \union {NoRequest}
  /\ ctx \in {"write", "first", "copy"}
  /\ at \in [page : Pages, slot : Index]
  /\ req \in Requests
  /\ result \in {"none", "ok", "error", "flash"}
  /\ crashes \in 0..MaxCrashes
  /\ errors \in {0, 1}

\* The two halves are the type invariant.
LEMMA TypeHalves == TypeOK <=> FlashTypes /\ LocalTypes
BY DEF TypeOK, FlashTypes, LocalTypes, Status, Slot, Word

\* What the locations of eeprom.c may rely on.
Located ==
  /\ pc \in {"put", "tag", "receive"} => word \in Word
  /\ pc \in {"put", "tag"} /\ ctx = "copy" => idx <= NB_OF_VAR
  /\ pc \in {"put", "tag"} /\ ctx # "write" => status[Other(old)] = "RECEIVE"
  /\ pc = "receive" => ctx = "write"
  /\ pc \in {"copy", "xerase", "xvalid"} => status[Other(old)] = "RECEIVE"
  /\ pc = "clean" => status[Other(old)] = "VALID"
  /\ pc = "ferase" => status[0] = status[1]

NotBothReceive == \E p \in Pages : status[p] # "RECEIVE"

IInv == FlashTypes /\ LocalTypes /\ Located /\ NotBothReceive

-----------------------------------------------------------------------------
(* A call that returns, and a power loss, leave typed and harmless locals. *)

LEMMA ReturnIsSafe ==
  ASSUME LocalTypes, NEW r \in {"ok", "error", "flash"}, ReturnStatus(r)
  PROVE  LocalTypes' /\ Located'
BY Basics
DEF LocalTypes, ReturnStatus, ClearLocals, Located, Requests, Pages, FlashOps

\* Flash pages stay typed; data and tags are programmed into typed slots.
LEMMA FlashStep == IInv /\ [Next]_vars => FlashTypes'
<1> SUFFICES ASSUME IInv, [Next]_vars PROVE FlashTypes'
  OBVIOUS
<1> USE Basics DEF IInv, FlashTypes
<1>1. ASSUME NEW p \in Pages, FLASH_ErasePage(p) PROVE FlashTypes'
  BY <1>1 DEF FLASH_ErasePage, Status
<1>2. ASSUME NEW p \in Pages, NEW s \in Status, MarkPage(p, s)
      PROVE  FlashTypes'
  BY <1>2 DEF MarkPage
<1>3. CASE PutData
  <2>1. word.data \in HalfWords
    BY <1>3 DEF PutData, Located, Word
  <2>2. PICK p \in WritePages : \E i \in Free(p) :
          slots' = [slots EXCEPT ![p][i].data = word.data]
    BY <1>3 DEF PutData
  <2>3. PICK i \in Free(p) :
          slots' = [slots EXCEPT ![p][i].data = word.data]
    BY <2>2
  <2>4. p \in Pages /\ i \in Index
    BY <2>2 DEF WritePages, Pages, Free
  <2>5. slots[p][i] \in Slot
    BY <2>4
  <2>6. [slots[p][i] EXCEPT !.data = word.data] \in Slot
    BY <2>1, <2>5 DEF Slot
  <2>7. slots' \in [Pages -> [Index -> Slot]]
    BY <2>3, <2>4, <2>6
  <2> QED
    BY <1>3, <2>7 DEF PutData
<1>4. CASE PutTag
  <2>1. word.var \in Vars /\ at.page \in Pages /\ at.slot \in Index
    BY <1>4 DEF PutTag, Located, Word, LocalTypes
  <2>2. PICK p \in Pages, i \in Index : p = at.page /\ i = at.slot
    BY <2>1
  <2>3. slots' = [slots EXCEPT ![p][i].tag = word.var]
    BY <1>4, <2>2 DEF PutTag
  <2>4. slots[p][i] \in Slot
    BY <2>2
  <2>5. [slots[p][i] EXCEPT !.tag = word.var] \in Slot
    BY <2>1, <2>4 DEF Slot
  <2>6. slots' \in [Pages -> [Index -> Slot]]
    BY <2>2, <2>3, <2>5
  <2> QED
    BY <1>4, <2>6 DEF PutTag
<1>5. CASE Receive
  <2>1. PICK p \in ReadPages :
          MarkPage(Other(p), "RECEIVE") \/ UNCHANGED flash
    BY <1>5 DEF Receive
  <2>2. p \in Pages
    BY <2>1 DEF ReadPages, Pages
  <2> QED
    BY <2>1, <2>2, <1>2 DEF Status, flash
<1>6. CASE TransferErase
  BY <1>6, <1>1 DEF TransferErase, LocalTypes
<1>7. CASE TransferValid
  BY <1>7, <1>2 DEF TransferValid, LocalTypes, Status
<1>8. CASE RecoverValid
  BY <1>8, <1>2 DEF RecoverValid, LocalTypes, Status
<1>9. CASE CleanOld
  BY <1>9, <1>1 DEF CleanOld, LocalTypes
<1>10. CASE FormatErase
  BY <1>10, <1>1 DEF FormatErase, Pages
<1>11. CASE FormatValid
  BY <1>11, <1>2 DEF FormatValid, Pages, Status
<1>12. CASE PowerLoss
  <2>1. Erasing \in Pages
    BY DEF Erasing, Pages, LocalTypes
  <2> QED
    BY <1>12, <2>1 DEF PowerLoss, flash, Status
<1>13. CASE UNCHANGED flash
  BY <1>13 DEF flash
<1> QED
  BY <1>3, <1>4, <1>5, <1>6, <1>7, <1>8, <1>9, <1>10, <1>11, <1>12, <1>13
  DEF Next, Step, EE_Init, EE_WriteVariable, PutNoPage, PutPageFull, CopyNext,
      CopyEnd, FlashFails, vars

\* The locals stay typed and every location finds what it relies on.
LEMMA LocalStep == IInv /\ [Next]_vars => LocalTypes' /\ Located'
<1> SUFFICES ASSUME IInv, [Next]_vars PROVE LocalTypes' /\ Located'
  OBVIOUS
<1> USE Basics DEF IInv
<1>r. ASSUME NEW r \in {"ok", "error", "flash"}, ReturnStatus(r)
      PROVE  LocalTypes' /\ Located'
  BY <1>r, ReturnIsSafe
<1>1. CASE EE_Init
  <2>1. \A p \in Pages : slots[p][1].tag \in Vars \union {Blank}
    BY DEF FlashTypes, Slot
  <2>2. \A p \in Pages : Other(Other(p)) = p
    BY DEF Other, Pages
  <2> QED
    BY <1>1, <2>1, <2>2
    DEF EE_Init, Keep, flash, LocalTypes, Located, EraseAgain, FormatCase,
        FlashOps
<1>2. CASE EE_WriteVariable
  <2>1. PICK v \in Vars, d \in Data : req' = [var |-> v, data |-> d] /\ word' = req'
    BY <1>2 DEF EE_WriteVariable
  <2>2. req' \in Requests /\ word' \in Word
    BY <2>1 DEF Requests, Word
  <2> QED
    BY <1>2, <2>2 DEF EE_WriteVariable, LocalTypes, Located, FlashOps, flash
<1>3. CASE PutData
  <2>1. at' \in [page : Pages, slot : Index]
    BY <1>3 DEF PutData, WritePages, Free, Pages
  <2> QED
    BY <1>3, <2>1 DEF PutData, Keep, LocalTypes, Located, FlashOps
<1>4. CASE PutNoPage
  BY <1>4, <1>r DEF PutNoPage
<1>5. CASE PutPageFull
  <2>1. CASE ctx = "write"
    BY <1>5, <2>1 DEF PutPageFull, Keep, locals, flash, LocalTypes, Located,
                      FlashOps
  <2>2. CASE ctx # "write"
    BY <1>5, <2>2, <1>r DEF PutPageFull
  <2> QED
    BY <2>1, <2>2
<1>6. CASE PutTag
  <2>1. CASE ctx = "write"
    BY <1>6, <2>1, <1>r DEF PutTag
  <2>2. CASE ctx # "write"
    <3>1. word.var \in Vars
      BY <1>6 DEF PutTag, Located, Word
    <3>2. idx' \in 1..(NB_OF_VAR + 1)
      BY <1>6, <2>2, EepromAssumption DEF PutTag, LocalTypes, Located, NextVar
    <3> QED
      BY <1>6, <2>2, <3>1, <3>2
      DEF PutTag, Keep, LocalTypes, Located, FlashOps
  <2> QED
    BY <2>1, <2>2
<1>7. CASE Receive
  <2>1. PICK p \in ReadPages :
          IF Programmable(Other(p), "RECEIVE")
          THEN /\ MarkPage(Other(p), "RECEIVE")
               /\ old' = p
               /\ ctx' = "first"
               /\ pc' = "put"
               /\ UNCHANGED <<idx, skip, word, at>>
               /\ Keep
          ELSE ReturnStatus("error") /\ UNCHANGED flash
    BY <1>7 DEF Receive
  <2>2. p \in Pages
    BY <2>1 DEF ReadPages, Pages
  <2>3. CASE Programmable(Other(p), "RECEIVE")
    <3>1. status'[Other(old')] = "RECEIVE"
      BY <2>1, <2>2, <2>3 DEF MarkPage, FlashTypes
    <3> QED
      BY <1>7, <2>1, <2>2, <2>3, <3>1
      DEF Receive, Keep, LocalTypes, Located, FlashOps
  <2>4. CASE ~Programmable(Other(p), "RECEIVE")
    BY <2>1, <2>4, <1>r
  <2> QED
    BY <2>3, <2>4
<1>8. CASE CopyNext
  <2>1. CASE \E p \in ReadPages : \E i \in Reads(p, idx) :
          /\ word' = [var |-> idx, data |-> slots[p][i].data]
          /\ ctx' = "copy"
          /\ pc' = "put"
          /\ UNCHANGED idx
    <3>1. word' \in Word
      <4>1. idx \in Vars
        BY <1>8 DEF CopyNext, VarsLeft, LocalTypes, Vars
      <4>2. \A p \in ReadPages : \A i \in Reads(p, idx) :
              slots[p][i].data \in HalfWords
        BY DEF ReadPages, Reads, Pages, FlashTypes, Slot
      <4> QED
        BY <2>1, <4>1, <4>2 DEF Word
    <3> QED
      BY <1>8, <2>1, <3>1
      DEF CopyNext, VarsLeft, Keep, flash, LocalTypes, Located, FlashOps
  <2>2. CASE idx' = NextVar /\ UNCHANGED <<word, ctx, pc>>
    <3>1. idx' \in 1..(NB_OF_VAR + 1)
      BY <1>8, <2>2, EepromAssumption DEF CopyNext, VarsLeft, NextVar, LocalTypes
    <3> QED
      BY <1>8, <2>2, <3>1 DEF CopyNext, Keep, flash, LocalTypes, Located
  <2> QED
    BY <1>8, <2>1, <2>2 DEF CopyNext
<1>9. CASE CopyEnd
  BY <1>9 DEF CopyEnd, Keep, flash, locals, LocalTypes, Located, FlashOps
<1>10. CASE TransferErase
  BY <1>10 DEF TransferErase, FLASH_ErasePage, Keep, locals, LocalTypes,
               Located, FlashOps, FlashTypes, Pages, Other
<1>11. CASE TransferValid
  BY <1>11, <1>r DEF TransferValid
<1>12. CASE RecoverValid
  BY <1>12 DEF RecoverValid, MarkPage, Keep, locals, LocalTypes, Located,
               FlashOps, FlashTypes
<1>13. CASE CleanOld
  BY <1>13, <1>r DEF CleanOld
<1>14. CASE FormatErase
  BY <1>14 DEF FormatErase, Keep, locals, LocalTypes, Located, FlashOps
<1>15. CASE FormatValid
  BY <1>15 DEF FormatValid, MarkPage, Keep, LocalTypes, Located, FlashOps,
               FlashTypes, Pages, Other
<1>16. CASE FlashFails
  BY <1>16, <1>r DEF FlashFails
<1>17. CASE PowerLoss
  <2>1. crashes' \in 0..MaxCrashes
    BY <1>17, EepromAssumption DEF PowerLoss, LocalTypes
  <2> QED
    BY <1>17, <2>1 DEF PowerLoss, ClearLocals, LocalTypes, Located, Requests,
                       Pages
<1>18. CASE UNCHANGED vars
  BY <1>18 DEF vars, flash, locals, LocalTypes, Located
<1> QED
  BY <1>1, <1>2, <1>3, <1>4, <1>5, <1>6, <1>7, <1>8, <1>9, <1>10, <1>11,
     <1>12, <1>13, <1>14, <1>15, <1>16, <1>17, <1>18 DEF Next, Step

\* The two pages are never both receiving: a page starts to receive only
\* next to a valid one.
LEMMA ReceiveStep == IInv /\ [Next]_vars => NotBothReceive'
<1> SUFFICES ASSUME IInv, [Next]_vars PROVE NotBothReceive'
  OBVIOUS
<1> USE DEF IInv, NotBothReceive
<1>1. CASE Receive
  <2>1. PICK p \in ReadPages :
          MarkPage(Other(p), "RECEIVE") \/ UNCHANGED flash
    BY <1>1 DEF Receive
  <2>2. p \in Pages /\ status[p] = "VALID" /\ Other(p) # p
    BY <2>1 DEF ReadPages, Pages, Other
  <2>3. status'[p] # "RECEIVE"
    BY <2>1, <2>2 DEF MarkPage, FlashTypes, flash
  <2> QED
    BY <2>2, <2>3
<1>2. CASE \A p \in Pages : status'[p] = "RECEIVE" => status[p] = "RECEIVE"
  BY <1>2
<1>3. ASSUME NEW q \in Pages, FLASH_ErasePage(q)
      PROVE  \A p \in Pages : status'[p] = "RECEIVE" => status[p] = "RECEIVE"
  BY <1>3 DEF FLASH_ErasePage, FlashTypes
<1>4. ASSUME NEW q \in Pages, MarkPage(q, "VALID")
      PROVE  \A p \in Pages : status'[p] = "RECEIVE" => status[p] = "RECEIVE"
  BY <1>4 DEF MarkPage, FlashTypes
<1>5. old \in Pages /\ Other(old) \in Pages /\ 0 \in Pages
  BY Basics DEF LocalTypes, Pages
<1>6. CASE TransferErase
  BY <1>2, <1>3, <1>5, <1>6 DEF TransferErase
<1>7. CASE TransferValid
  BY <1>2, <1>4, <1>5, <1>7 DEF TransferValid
<1>8. CASE RecoverValid
  BY <1>2, <1>4, <1>5, <1>8 DEF RecoverValid
<1>9. CASE CleanOld
  BY <1>2, <1>3, <1>5, <1>9 DEF CleanOld
<1>10. CASE FormatErase
  BY <1>2, <1>3, <1>5, <1>10 DEF FormatErase
<1>11. CASE FormatValid
  BY <1>2, <1>4, <1>5, <1>11 DEF FormatValid
<1>12. CASE PowerLoss
  <2>1. Erasing \in Pages
    BY <1>5 DEF Erasing
  <2> QED
    BY <1>12, <2>1 DEF PowerLoss, flash, FlashTypes
<1>13. CASE UNCHANGED status
  BY <1>13
<1> QED
  BY <1>1, <1>6, <1>7, <1>8, <1>9, <1>10, <1>11, <1>12, <1>13
  DEF Next, Step, EE_Init, EE_WriteVariable, PutData, PutNoPage, PutPageFull,
      PutTag, CopyNext, CopyEnd, FlashFails, vars, flash

\* The invariant of the types and locations.
LEMMA Invariance == Spec => []IInv
<1>1. Init => IInv
  BY Basics DEF Init, IInv, FlashTypes, LocalTypes, Located, NotBothReceive,
                Status, Pages, Requests, FlashOps
<1>2. IInv /\ [Next]_vars => IInv'
  BY FlashStep, LocalStep, ReceiveStep DEF IInv
<1> QED
  BY <1>1, <1>2, PTL DEF Spec

\* Type correctness: pages hold only half-words that a caller has written.
THEOREM TypeCorrect == Spec => []TypeOK
<1>1. IInv => TypeOK
  BY TypeHalves DEF IInv
<1> QED
  BY <1>1, Invariance, PTL

\* Once a page has a header, some page always has one, and the pages are
\* never both receiving, whatever the power and the flash do: EE_Init always
\* has a page to go on from.
THEOREM HeaderNeverLost == Spec => HeaderRemains
<1>1. IInv /\ IInv' /\ [Next]_vars
        => [/\ (\E p \in Pages : status[p] # "ERASED")
                 => \E p \in Pages : status'[p] # "ERASED"
            /\ \E p \in Pages : status'[p] # "RECEIVE"]_vars
  <2> SUFFICES ASSUME IInv, IInv', Next,
                      NEW q \in Pages, status[q] # "ERASED"
               PROVE  \E p \in Pages : status'[p] # "ERASED"
    BY DEF IInv, NotBothReceive
  <2>1. old \in Pages /\ Other(old) \in Pages /\ Other(old) # old
    BY DEF IInv, LocalTypes, Pages, Other
  <2>2. ASSUME pc \in {"xerase", "clean"},
               status' = [status EXCEPT ![old] = "ERASED"]
        PROVE  status'[Other(old)] # "ERASED"
    BY <2>1, <2>2 DEF IInv, Located, FlashTypes
  <2>3. ASSUME pc = "ferase", status' = [status EXCEPT ![0] = "ERASED"]
        PROVE  status'[1] # "ERASED"
    BY <2>3 DEF IInv, Located, FlashTypes, Pages
  <2>4. ASSUME NEW p \in Pages, NEW s \in {"VALID", "RECEIVE"},
               MarkPage(p, s)
        PROVE  status'[p] # "ERASED"
    BY <2>4 DEF MarkPage, IInv, FlashTypes
  <2>5. 0 \in Pages /\ 1 \in Pages
    BY DEF Pages
  <2>6. CASE TransferErase \/ CleanOld
    BY <2>1, <2>2, <2>6 DEF TransferErase, CleanOld, FLASH_ErasePage
  <2>7. CASE FormatErase
    BY <2>3, <2>5, <2>7 DEF FormatErase, FLASH_ErasePage
  <2>8. CASE TransferValid \/ RecoverValid \/ FormatValid
    BY <2>1, <2>4, <2>5, <2>8 DEF TransferValid, RecoverValid, FormatValid
  <2>9. CASE Receive
    <3>1. PICK p \in ReadPages :
            MarkPage(Other(p), "RECEIVE") \/ UNCHANGED flash
      BY <2>9 DEF Receive
    <3>2. Other(p) \in Pages
      BY <3>1 DEF ReadPages, Pages, Other
    <3> QED
      BY <3>1, <3>2, <2>4 DEF flash
  <2>10. CASE PowerLoss
    BY <2>1, <2>2, <2>3, <2>5, <2>10 DEF PowerLoss, Erasing, flash
  <2>11. CASE UNCHANGED status
    BY <2>11
  <2> QED
    BY <2>6, <2>7, <2>8, <2>9, <2>10, <2>11
    DEF Next, Step, EE_Init, EE_WriteVariable, PutData, PutNoPage,
        PutPageFull, PutTag, CopyNext, CopyEnd, FlashFails, flash
<1> QED
  BY <1>1, Invariance, PTL DEF Spec, HeaderRemains

-----------------------------------------------------------------------------
(* What a page holds.  The operators of Eeprom speak of the page of the     *)
(* present state; here they take the page, so that a step can be compared   *)
(* with what it started from.                                               *)

TaggedIn(pg, v) == {i \in Index : pg[i].tag = v}
LastIn(pg, v) == {i \in Index : LastOf(TaggedIn(pg, v), i)}
ContentOf(pg) ==
  [v \in {w \in Vars : TaggedIn(pg, w) # {}} |->
     pg[CHOOSE i \in LastIn(pg, v) : TRUE].data]

\* A map with d at v, and a map under the first slot of a receiving page.
With(f, v, d) == [w \in DOMAIN f \union {v} |-> IF w = v THEN d ELSE f[w]]
Over(f, s) == IF s.tag = Blank THEN f ELSE With(f, s.tag, s.data)

\* A set of slots that is not empty has a last one,
LEMMA LastExists ==
  ASSUME NEW S, S \subseteq Index, S # {}
  PROVE  \E i \in S : LastOf(S, i)
<1> DEFINE T == {Slots - i : i \in S}
           R == {ss \in Nat \X Nat : ss[1] < ss[2]}
<1>1. IsWellFoundedOn(R, Nat)
  BY NatLessThanWellFounded DEF OpToRel
<1>2. T \subseteq Nat /\ T # {}
  <2>1. \A i \in S : Slots - i \in Nat
    BY EepromAssumption DEF Index
  <2>2. PICK i : i \in S
    OBVIOUS
  <2>3. Slots - i \in T
    BY <2>2
  <2> QED
    BY <2>1, <2>3
<1> HIDE DEF R
<1>3. PICK x \in T : \A y \in T : <<y, x>> \notin R
  BY <1>1, <1>2, WFMin
<1>4. PICK i \in S : x = Slots - i
  BY <1>3
<1>5. ASSUME NEW j \in S PROVE j <= i
  <2>1. Slots - j \in T /\ Slots - j \in Nat /\ x \in Nat
    BY <1>2, <1>3
  <2>2. ~(Slots - j < x)
    BY <1>3, <2>1 DEF R
  <2> QED
    BY <1>4, <2>1, <2>2, EepromAssumption DEF Index
<1> QED
  BY <1>4, <1>5 DEF LastOf

\* and only one.
LEMMA LastUnique ==
  ASSUME NEW S, S \subseteq Index, NEW i, NEW j, LastOf(S, i), LastOf(S, j)
  PROVE  i = j
<1>1. i \in S /\ j \in S /\ i <= j /\ j <= i
  BY DEF LastOf
<1>2. i \in Nat /\ j \in Nat
  BY <1>1, EepromAssumption DEF Index
<1> QED
  BY <1>1, <1>2

\* No address looks like erased flash.
LEMMA BlankIsNoVar == Blank \notin Vars
BY EepromAssumption DEF Blank, Vars

\* The content of a page at v is that of a slot tagged v, the last one.
LEMMA ContentAt ==
  ASSUME NEW pg, NEW v \in Vars, TaggedIn(pg, v) # {}
  PROVE  /\ v \in DOMAIN ContentOf(pg)
         /\ \E i \in Index : /\ LastOf(TaggedIn(pg, v), i)
                             /\ pg[i].tag = v
                             /\ ContentOf(pg)[v] = pg[i].data
<1>1. TaggedIn(pg, v) \subseteq Index
  BY DEF TaggedIn
<1>2. PICK j \in TaggedIn(pg, v) : LastOf(TaggedIn(pg, v), j)
  BY <1>1, LastExists
<1>3. j \in LastIn(pg, v)
  BY <1>1, <1>2 DEF LastIn
<1> DEFINE i == CHOOSE k \in LastIn(pg, v) : TRUE
<1>4. i \in LastIn(pg, v)
  BY <1>3
<1>5. v \in DOMAIN ContentOf(pg) /\ ContentOf(pg)[v] = pg[i].data
  BY DEF ContentOf
<1>6. i \in Index /\ LastOf(TaggedIn(pg, v), i)
  BY <1>4 DEF LastIn
<1>7. pg[i].tag = v
  BY <1>6 DEF LastOf, TaggedIn
<1> QED
  BY <1>5, <1>6, <1>7

\* Which addresses a page holds.
LEMMA ContentDomain ==
  ASSUME NEW pg
  PROVE  /\ DOMAIN ContentOf(pg) = {w \in Vars : TaggedIn(pg, w) # {}}
         /\ ContentOf(pg) = [v \in DOMAIN ContentOf(pg) |-> ContentOf(pg)[v]]
BY DEF ContentOf

\* Two functions that agree are equal.
LEMMA SameFunction ==
  ASSUME NEW f, NEW g, f = [v \in DOMAIN f |-> f[v]],
         g = [v \in DOMAIN g |-> g[v]],
         DOMAIN f = DOMAIN g, \A v \in DOMAIN f : f[v] = g[v]
  PROVE  f = g
OBVIOUS

\* Slots without a tag do not count.
LEMMA ContentSame ==
  ASSUME NEW pg, NEW qg, \A i \in Index : qg[i].tag = pg[i].tag,
         \A i \in Index : pg[i].tag # Blank => qg[i].data = pg[i].data
  PROVE  ContentOf(qg) = ContentOf(pg)
<1>1. \A v : TaggedIn(qg, v) = TaggedIn(pg, v)
  BY DEF TaggedIn
<1>2. DOMAIN ContentOf(qg) = DOMAIN ContentOf(pg)
  BY <1>1, ContentDomain
<1>3. ASSUME NEW v \in DOMAIN ContentOf(pg)
      PROVE  ContentOf(qg)[v] = ContentOf(pg)[v]
  <2>1. v \in Vars /\ TaggedIn(pg, v) # {}
    BY ContentDomain
  <2>2. PICK i \in Index : /\ LastOf(TaggedIn(pg, v), i)
                           /\ pg[i].tag = v
                           /\ ContentOf(pg)[v] = pg[i].data
    BY <2>1, ContentAt
  <2>3. PICK j \in Index : /\ LastOf(TaggedIn(qg, v), j)
                           /\ ContentOf(qg)[v] = qg[j].data
    BY <2>1, <1>1, ContentAt
  <2>4. i = j
    BY <2>2, <2>3, <1>1, LastUnique DEF TaggedIn
  <2> QED
    BY <2>1, <2>2, <2>3, <2>4, BlankIsNoVar
<1> QED
  BY <1>2, <1>3, ContentDomain, SameFunction

\* Tagging the last slot in use is a write.
LEMMA ContentPut ==
  ASSUME NEW pg, NEW qg, NEW i \in Index, NEW v \in Vars,
         pg[i].tag = Blank, qg[i].tag = v, qg[i].data = pg[i].data,
         \A j \in Index : j # i => qg[j] = pg[j],
         \A j \in Index : j > i => pg[j].tag = Blank
  PROVE  ContentOf(qg) = With(ContentOf(pg), v, pg[i].data)
<1> DEFINE g == With(ContentOf(pg), v, pg[i].data)
<1>1. \A w \in Vars : w # v => TaggedIn(qg, w) = TaggedIn(pg, w)
  BY BlankIsNoVar DEF TaggedIn
<1>2. i \in TaggedIn(qg, v)
  BY DEF TaggedIn
<1>3. DOMAIN ContentOf(qg) = DOMAIN ContentOf(pg) \union {v}
  BY <1>1, <1>2, ContentDomain
<1>4. DOMAIN g = DOMAIN ContentOf(pg) \union {v} /\ g = [w \in DOMAIN g |-> g[w]]
  BY DEF With
<1>5. ASSUME NEW w \in DOMAIN ContentOf(qg) PROVE ContentOf(qg)[w] = g[w]
  <2>1. w \in Vars /\ TaggedIn(qg, w) # {}
    BY ContentDomain
  <2>2. PICK j \in Index : /\ LastOf(TaggedIn(qg, w), j)
                           /\ qg[j].tag = w
                           /\ ContentOf(qg)[w] = qg[j].data
    BY <2>1, ContentAt
  <2>3. CASE w = v
    <3>1. i <= j
      BY <1>2, <2>2, <2>3 DEF LastOf
    <3>2. ~(j > i)
      BY <2>2, <2>3, BlankIsNoVar DEF Index
    <3>3. j = i
      BY <3>1, <3>2, EepromAssumption DEF Index
    <3> QED
      BY <2>2, <2>3, <3>3 DEF With
  <2>4. CASE w # v
    <3>1. TaggedIn(pg, w) # {} /\ TaggedIn(pg, w) = TaggedIn(qg, w)
      BY <2>1, <2>4, <1>1
    <3>2. PICK k \in Index : /\ LastOf(TaggedIn(pg, w), k)
                             /\ ContentOf(pg)[w] = pg[k].data
      BY <2>1, <3>1, ContentAt
    <3>3. j = k
      BY <2>2, <3>1, <3>2, LastUnique DEF TaggedIn
    <3>4. j # i
      BY <2>2, <2>4
    <3>5. g[w] = ContentOf(pg)[w]
      BY <2>4, <1>3, <1>4 DEF With
    <3> QED
      BY <2>2, <3>2, <3>3, <3>4, <3>5
  <2> QED
    BY <2>3, <2>4
<1> HIDE DEF g
<1> QED
  BY <1>3, <1>4, <1>5, ContentDomain, SameFunction DEF g

\* A blank page holds nothing.
LEMMA ContentBlank == ContentOf(EmptyPage) = <<>>
<1>1. \A v \in Vars : TaggedIn(EmptyPage, v) = {}
  BY BlankIsNoVar DEF TaggedIn, EmptyPage, EmptySlot
<1>2. DOMAIN ContentOf(EmptyPage) = {}
  BY <1>1, ContentDomain
<1> QED
  BY <1>2, ContentDomain

-----------------------------------------------------------------------------
(* What the store holds, by the headers.                                    *)

StoredOf(st, sl, c, o) ==
  IF \E p \in Pages : st[p] = "VALID" /\ st[Other(p)] = "RECEIVE"
  THEN LET p == CHOOSE q \in Pages : st[q] = "VALID"
       IN  [v \in DOMAIN ContentOf(sl[p]) \union ({sl[Other(p)][1].tag} \ {Blank}) |->
              IF v = sl[Other(p)][1].tag THEN sl[Other(p)][1].data
              ELSE ContentOf(sl[p])[v]]
  ELSE CASE st = [p \in Pages |-> "ERASED"] -> <<>>
         [] st = [p \in Pages |-> "VALID"] ->
              ContentOf(sl[IF c = "clean" THEN Other(o) ELSE 1])
         [] OTHER -> ContentOf(sl[CHOOSE p \in Pages : st[p] # "ERASED"])

\* Stored in this state,
LEMMA StoredIs == Stored = StoredOf(status, slots, pc, old)
BY DEF Stored, StoredOf, Content, ContentOf, Tagged, TaggedIn, Reads, LastIn

\* and in the next one.
LEMMA StoredNext == Stored' = StoredOf(status', slots', pc', old')
BY DEF Stored, StoredOf, Content, ContentOf, Tagged, TaggedIn, Reads, LastIn

\* There are two pages.
LEMMA PagePairs ==
  \A p \in Pages : /\ Other(p) \in Pages /\ Other(p) # p /\ Other(Other(p)) = p
                   /\ \A q \in Pages : q = p \/ q = Other(p)
BY DEF Pages, Other

\* What is stored for every combination of headers: a transfer,
LEMMA StoredCopying ==
  ASSUME NEW st \in [Pages -> Status], NEW sl, NEW c, NEW o, NEW p \in Pages,
         st[p] = "VALID", st[Other(p)] = "RECEIVE"
  PROVE  StoredOf(st, sl, c, o) = Over(ContentOf(sl[p]), sl[Other(p)][1])
<1>1. (CHOOSE q \in Pages : st[q] = "VALID") = p
  BY PagePairs
<1> DEFINE f == ContentOf(sl[p])
           s == sl[Other(p)][1]
<1>2. StoredOf(st, sl, c, o)
        = [v \in DOMAIN f \union ({s.tag} \ {Blank}) |->
             IF v = s.tag THEN s.data ELSE f[v]]
  BY <1>1 DEF StoredOf
<1>3. Blank \notin DOMAIN f /\ f = [v \in DOMAIN f |-> f[v]]
  BY ContentDomain, BlankIsNoVar
<1> HIDE DEF f, s
<1>4. CASE s.tag = Blank
  BY <1>2, <1>3, <1>4 DEF Over, f, s
<1>5. CASE s.tag # Blank
  BY <1>2, <1>5 DEF Over, With, f, s
<1> QED
  BY <1>4, <1>5

\* a new chip,
LEMMA StoredErased ==
  ASSUME NEW st \in [Pages -> Status], NEW sl, NEW c, NEW o,
         \A p \in Pages : st[p] = "ERASED"
  PROVE  StoredOf(st, sl, c, o) = <<>>
<1>1. st = [p \in Pages |-> "ERASED"]
  OBVIOUS
<1>2. ~\E p \in Pages : st[p] = "VALID" /\ st[Other(p)] = "RECEIVE"
  OBVIOUS
<1>3. st # [p \in Pages |-> "VALID"]
  BY DEF Pages
<1> QED
  BY <1>1, <1>2, <1>3 DEF StoredOf

\* two valid pages,
LEMMA StoredBoth ==
  ASSUME NEW st \in [Pages -> Status], NEW sl, NEW c, NEW o,
         \A p \in Pages : st[p] = "VALID"
  PROVE  StoredOf(st, sl, c, o) = ContentOf(sl[IF c = "clean" THEN Other(o) ELSE 1])
<1>1. st = [p \in Pages |-> "VALID"]
  OBVIOUS
<1>2. ~\E p \in Pages : st[p] = "VALID" /\ st[Other(p)] = "RECEIVE"
  BY PagePairs
<1>3. st # [p \in Pages |-> "ERASED"]
  BY DEF Pages
<1> QED
  BY <1>1, <1>2, <1>3 DEF StoredOf

\* and a page beside an erased one.
LEMMA StoredOne ==
  ASSUME NEW st \in [Pages -> Status], NEW sl, NEW c, NEW o, NEW p \in Pages,
         st[p] # "ERASED", st[Other(p)] = "ERASED"
  PROVE  StoredOf(st, sl, c, o) = ContentOf(sl[p])
<1>1. (CHOOSE q \in Pages : st[q] # "ERASED") = p
  BY PagePairs
<1>2. ~\E q \in Pages : st[q] = "VALID" /\ st[Other(q)] = "RECEIVE"
  BY PagePairs
<1>3. st # [q \in Pages |-> "ERASED"] /\ st # [q \in Pages |-> "VALID"]
  BY PagePairs
<1> QED
  BY <1>1, <1>2, <1>3 DEF StoredOf

-----------------------------------------------------------------------------
(* What holds as long as no flash operation has failed, however often the   *)
(* power has.                                                               *)

\* Slots are filled from the first one on.
Ordered ==
  \A p \in Pages : \A i, j \in Index :
    i < j /\ slots[p][i] = EmptySlot => slots[p][j] = EmptySlot

Copying == pc = "copy" \/ (pc \in {"put", "tag"} /\ ctx = "copy")

Rests(p) ==
  /\ status[p] = "VALID"
  /\ \/ status[Other(p)] = "ERASED" /\ slots[Other(p)] = EmptyPage
     \/ status[Other(p)] = "RECEIVE" /\ Free(Other(p)) = {}

\* Where a call is and what the headers are.  Only a recovery that ran out of
\* slots leaves a receiving page behind, and then that page is full.
Placed ==
  /\ pc = "idle" \/ (pc \in {"put", "receive"} /\ ctx = "write")
       => \E p \in Pages : Rests(p)
  /\ pc = "tag" /\ ctx = "write"
       => /\ status[at.page] = "VALID"
          /\ status[Other(at.page)] = "ERASED"
          /\ slots[Other(at.page)] = EmptyPage
  /\ (pc \in {"put", "tag"} /\ ctx # "write") \/ pc \in {"copy", "ivalid"}
       => status[old] = "VALID" /\ status[Other(old)] = "RECEIVE"
  /\ pc = "put" /\ ctx = "first" => slots[Other(old)] = EmptyPage
  /\ pc = "tag" /\ ctx # "write" => at.page = Other(old)
  /\ pc = "tag" /\ ctx = "first" => at.slot = 1
  /\ pc = "xvalid" => status[old] = "ERASED" /\ slots[old] = EmptyPage
  /\ pc = "clean" => status[old] # "RECEIVE"
  /\ pc = "fvalid" => /\ status[0] = "ERASED" /\ slots[0] = EmptyPage
                      /\ status[1] # "RECEIVE"

\* The slot whose data has been written is the last one in use.
Tagging ==
  pc = "tag" =>
    /\ slots[at.page][at.slot].tag = Blank
    /\ slots[at.page][at.slot].data = word.data
    /\ \A j \in Index : j < at.slot => slots[at.page][j] # EmptySlot
    /\ \A j \in Index : j > at.slot => slots[at.page][j] = EmptySlot

\* Whose call it is.
Called ==
  /\ pc \in {"idle", "off", "ivalid", "clean", "ferase", "fvalid"}
       => req = NoRequest
  /\ pc \in {"put", "tag", "receive"} /\ ctx # "copy"
       => req # NoRequest /\ word = req

\* A receiving page holds nothing but what is stored.
Agreement ==
  \A p \in Pages : status[p] = "VALID" /\ status[Other(p)] = "RECEIVE" =>
    \A i \in Index : slots[Other(p)][i].tag # Blank =>
      /\ slots[Other(p)][i].tag \in DOMAIN Stored
      /\ slots[Other(p)][i].data = Stored[slots[Other(p)][i].tag]

\* A copy loop has copied the variables below idx, and all when it is done.
Copied ==
  /\ Copying =>
       /\ \A v \in DOMAIN Stored : v < idx => TaggedIn(slots[Other(old)], v) # {}
       /\ skip # Blank => TaggedIn(slots[Other(old)], skip) # {}
       /\ slots[Other(old)][1].tag # Blank =>
            slots[Other(old)][1].tag = skip \/ slots[Other(old)][1].tag < idx
  /\ (pc = "xerase" /\ status[old] = "VALID") \/ pc = "ivalid" =>
       \A v \in DOMAIN Stored : TaggedIn(slots[Other(old)], v) # {}

\* The copy loop writes what is stored.
CopiesStored ==
  pc \in {"put", "tag"} /\ ctx = "copy" =>
    /\ word.var = idx
    /\ idx \in DOMAIN Stored /\ word.data = Stored[idx]

\* The write that started a page transfer has taken effect with its first slot.
TookEffect ==
  req # NoRequest /\ (Copying \/ pc \in {"xerase", "xvalid"}) =>
    req.var \in DOMAIN Stored /\ Stored[req.var] = req.data

Sound ==
  /\ Placed /\ Called /\ Agreement /\ Copied /\ CopiesStored
  /\ TookEffect

SoundUntilError == Ordered /\ Tagging /\ (errors = 0 => Sound)

-----------------------------------------------------------------------------
(* One slot is written, or a page is erased, or no slot changes.            *)

SlotBecomes(p, i, s) ==
  /\ slots'[p][i] = s
  /\ \A j \in Index : j # i => slots'[p][j] = slots[p][j]
  /\ slots'[Other(p)] = slots[Other(p)]

\* PutData writes the data of the first free slot,
LEMMA PutDataSlot ==
  ASSUME IInv, PutData
  PROVE  \E p \in Pages, i \in Index :
           /\ p \in WritePages /\ FirstOf(Free(p), i)
           /\ slots[p][i] = EmptySlot
           /\ at' = [page |-> p, slot |-> i]
           /\ SlotBecomes(p, i, [tag |-> Blank, data |-> word.data])
<1>1. PICK p \in WritePages : \E i \in Free(p) :
        /\ FirstOf(Free(p), i)
        /\ slots' = [slots EXCEPT ![p][i].data = word.data]
        /\ at' = [page |-> p, slot |-> i]
  BY DEF PutData
<1>2. PICK i \in Free(p) :
        /\ FirstOf(Free(p), i)
        /\ slots' = [slots EXCEPT ![p][i].data = word.data]
        /\ at' = [page |-> p, slot |-> i]
  BY <1>1
<1>3. p \in Pages /\ i \in Index /\ slots[p][i] = EmptySlot
  BY <1>1 DEF WritePages, Pages, Free
<1>4. [slots[p][i] EXCEPT !.data = word.data] = [tag |-> Blank, data |-> word.data]
  BY <1>3 DEF EmptySlot
<1>5. SlotBecomes(p, i, [tag |-> Blank, data |-> word.data])
  BY <1>2, <1>3, <1>4, PagePairs DEF SlotBecomes, IInv, FlashTypes
<1> QED
  BY <1>1, <1>2, <1>3, <1>5

\* PutTag the address of the same one,
LEMMA PutTagSlot ==
  ASSUME IInv, Tagging, PutTag
  PROVE  /\ at.page \in Pages /\ at.slot \in Index /\ word.var \in Vars
         /\ SlotBecomes(at.page, at.slot, [tag |-> word.var, data |-> word.data])
<1>1. word.var \in Vars /\ at.page \in Pages /\ at.slot \in Index
  BY DEF PutTag, IInv, Located, Word, LocalTypes
<1>2. PICK p \in Pages, i \in Index : p = at.page /\ i = at.slot
  BY <1>1
<1>3. slots' = [slots EXCEPT ![p][i].tag = word.var]
  BY <1>2 DEF PutTag
<1>4. slots[p][i] \in Slot /\ slots[p][i].data = word.data
  BY <1>2 DEF IInv, FlashTypes, Tagging, PutTag
<1>5. [slots[p][i] EXCEPT !.tag = word.var] = [tag |-> word.var, data |-> word.data]
  BY <1>4 DEF Slot
<1>6. SlotBecomes(p, i, [tag |-> word.var, data |-> word.data])
  BY <1>2, <1>3, <1>5, PagePairs DEF SlotBecomes, IInv, FlashTypes
<1> QED
  BY <1>1, <1>2, <1>6

\* and no other step writes to a slot.
LEMMA OtherSteps ==
  ASSUME IInv, Next, ~PutData, ~PutTag
  PROVE  /\ pc' # "tag"
         /\ \/ UNCHANGED slots
            \/ \E p \in Pages : /\ slots'[p] = EmptyPage
                                /\ slots'[Other(p)] = slots[Other(p)]
<1>1. ASSUME NEW p \in Pages, FLASH_ErasePage(p)
      PROVE  slots'[p] = EmptyPage /\ slots'[Other(p)] = slots[Other(p)]
  BY <1>1, PagePairs DEF FLASH_ErasePage, IInv, FlashTypes
<1>2. old \in Pages /\ 0 \in Pages
  BY DEF IInv, LocalTypes, Pages
<1>3. CASE TransferErase
  BY <1>1, <1>2, <1>3 DEF TransferErase
<1>4. CASE CleanOld
  BY <1>1, <1>2, <1>4 DEF CleanOld, ReturnStatus
<1>5. CASE FormatErase
  BY <1>1, <1>2, <1>5 DEF FormatErase
<1>6. CASE EE_Init
  BY <1>6 DEF EE_Init, flash, EraseAgain
<1>7. CASE EE_WriteVariable \/ PutNoPage \/ PutPageFull
  BY <1>7 DEF EE_WriteVariable, PutNoPage, PutPageFull, ReturnStatus, flash
<1>8. CASE Receive
  BY <1>8 DEF Receive, ReturnStatus, MarkPage, flash
<1>9. CASE CopyNext \/ CopyEnd
  BY <1>9 DEF CopyNext, CopyEnd, flash
<1>10. CASE TransferValid \/ RecoverValid \/ FormatValid
  BY <1>10 DEF TransferValid, RecoverValid, FormatValid, MarkPage, ReturnStatus
<1>11. CASE FlashFails \/ PowerLoss
  BY <1>11 DEF FlashFails, PowerLoss, ReturnStatus, flash
<1> QED
  BY <1>3, <1>4, <1>5, <1>6, <1>7, <1>8, <1>9, <1>10, <1>11 DEF Next, Step

\* Slots are filled in order.
LEMMA OrderedKept ==
  IInv /\ Ordered /\ Tagging /\ [Next]_vars => Ordered' /\ Tagging'
<1> SUFFICES ASSUME IInv, Ordered, Tagging, [Next]_vars
             PROVE  Ordered' /\ Tagging'
  OBVIOUS
<1>0. \A i, j \in Index : i \in Nat /\ j \in Nat
  BY EepromAssumption DEF Index
<1>1. CASE PutData
  <2>1. PICK p \in Pages, i \in Index :
           /\ p \in WritePages /\ FirstOf(Free(p), i)
           /\ slots[p][i] = EmptySlot
           /\ at' = [page |-> p, slot |-> i]
           /\ SlotBecomes(p, i, [tag |-> Blank, data |-> word.data])
    BY <1>1, PutDataSlot
  <2>2. \A j \in Index : j > i => slots[p][j] = EmptySlot /\ slots'[p][j] = EmptySlot
    BY <2>1, <1>0 DEF Ordered, SlotBecomes
  <2>3. \A j \in Index : j < i => slots[p][j] # EmptySlot /\ slots'[p][j] # EmptySlot
    BY <2>1, <1>0 DEF FirstOf, Free, SlotBecomes
  <2>4. \A q \in Pages : q = p \/ (q = Other(p) /\ slots'[q] = slots[q])
    BY <2>1, PagePairs DEF SlotBecomes
  <2>5. Ordered'
    <3> SUFFICES ASSUME NEW q \in Pages, NEW k \in Index, NEW j \in Index,
                        k < j, slots'[q][k] = EmptySlot
                 PROVE  slots'[q][j] = EmptySlot
      BY DEF Ordered
    <3>1. CASE q = p
      BY <3>1, <2>2, <2>3, <1>0
    <3>2. CASE q # p
      BY <3>2, <2>4 DEF Ordered
    <3> QED
      BY <3>1, <3>2
  <2>6. Tagging'
    <3>1. word' = word
      BY <1>1 DEF PutData
    <3> QED
      BY <2>1, <2>2, <2>3, <3>1 DEF Tagging, SlotBecomes
  <2> QED
    BY <2>5, <2>6
<1>2. CASE PutTag
  <2>1. PICK p \in Pages, i \in Index : p = at.page /\ i = at.slot
    BY <1>2, PutTagSlot
  <2>2. SlotBecomes(p, i, [tag |-> word.var, data |-> word.data]) /\ word.var \in Vars
    BY <1>2, <2>1, PutTagSlot
  <2>3. /\ \A j \in Index : j < i => slots[p][j] # EmptySlot
        /\ \A j \in Index : j > i => slots[p][j] = EmptySlot
    BY <1>2, <2>1 DEF Tagging, PutTag
  <2>4. slots'[p][i] # EmptySlot
    BY <2>2, BlankIsNoVar DEF SlotBecomes, EmptySlot
  <2>5. \A q \in Pages : q = p \/ (q = Other(p) /\ slots'[q] = slots[q])
    BY <2>2, PagePairs DEF SlotBecomes
  <2>6. Ordered'
    <3> SUFFICES ASSUME NEW q \in Pages, NEW k \in Index, NEW j \in Index,
                        k < j, slots'[q][k] = EmptySlot
                 PROVE  slots'[q][j] = EmptySlot
      BY DEF Ordered
    <3>1. CASE q = p
      BY <3>1, <2>2, <2>3, <2>4, <1>0 DEF SlotBecomes
    <3>2. CASE q # p
      BY <3>2, <2>5 DEF Ordered
    <3> QED
      BY <3>1, <3>2
  <2>7. pc' # "tag"
    BY <1>2 DEF PutTag, ReturnStatus
  <2> QED
    BY <2>6, <2>7 DEF Tagging
<1>3. CASE Next /\ ~PutData /\ ~PutTag
  <2>1. pc' # "tag"
    BY <1>3, OtherSteps
  <2>2. CASE UNCHANGED slots
    BY <2>1, <2>2 DEF Ordered, Tagging
  <2>3. CASE \E p \in Pages : /\ slots'[p] = EmptyPage
                             /\ slots'[Other(p)] = slots[Other(p)]
    BY <2>1, <2>3, PagePairs DEF Ordered, Tagging, EmptyPage
  <2> QED
    BY <1>3, <2>2, <2>3, OtherSteps
<1>4. CASE UNCHANGED vars
  BY <1>4 DEF vars, flash, locals, Ordered, Tagging
<1> QED
  BY <1>1, <1>2, <1>3, <1>4

\* EE_FindValidPage for a valid page beside another one.
LEMMA PagesFound ==
  ASSUME FlashTypes, NEW p \in Pages, status[p] = "VALID"
  PROVE  /\ status[Other(p)] = "ERASED" => WritePages = {p} /\ ReadPages = {p}
         /\ status[Other(p)] = "RECEIVE"
              => WritePages = {Other(p)} /\ ReadPages = {p}
<1>1. CASE p = 0
  BY <1>1 DEF WritePages, ReadPages, Other
<1>2. CASE p = 1
  BY <1>2 DEF WritePages, ReadPages, Other
<1> QED
  BY <1>1, <1>2 DEF Pages

\* The slot that EE_VerifyPageFullWriteVariable writes to.
LEMMA PutDataPlace ==
  ASSUME IInv, Placed, PutData, NEW p \in Pages, NEW i \in Index,
         p \in WritePages, FirstOf(Free(p), i)
  PROVE  /\ ctx = "write" => /\ status[p] = "VALID"
                             /\ status[Other(p)] = "ERASED"
                             /\ slots[Other(p)] = EmptyPage
         /\ ctx # "write" => p = Other(old)
         /\ ctx = "first" => i = 1
<1> USE DEF IInv
<1>1. CASE ctx = "write"
  <2>1. PICK q \in Pages : Rests(q)
    BY <1>1 DEF Placed, PutData
  <2>2. i \in Free(p)
    BY DEF FirstOf
  <2>3. status[Other(q)] = "ERASED" /\ slots[Other(q)] = EmptyPage
    BY <2>1, <2>2, PagesFound DEF Rests
  <2> QED
    BY <1>1, <2>1, <2>3, PagesFound DEF Rests
<1>2. CASE ctx # "write"
  <2>1. old \in Pages /\ status[old] = "VALID" /\ status[Other(old)] = "RECEIVE"
    BY <1>2 DEF Placed, PutData, LocalTypes
  <2>2. p = Other(old)
    BY <2>1, PagesFound
  <2>3. ASSUME ctx = "first" PROVE i = 1
    <3>1. slots[p] = EmptyPage
      BY <2>2, <2>3 DEF Placed, PutData
    <3>2. 1 \in Free(p)
      BY <3>1, Basics DEF Free, EmptyPage
    <3>3. i <= 1 /\ i >= 1 /\ i \in Nat
      BY <3>2, EepromAssumption DEF FirstOf, Index
    <3> QED
      BY <3>3
  <2> QED
    BY <1>2, <2>2, <2>3
<1> QED
  BY <1>1, <1>2

\* Every step leaves the call where Placed says.
LEMMA PlacedKept ==
  ASSUME IInv, Tagging, Placed, [Next]_vars, errors' = 0
  PROVE  Placed'
<1> USE DEF IInv
<1>0. /\ old \in Pages /\ Other(old) \in Pages /\ Other(Other(old)) = old
      /\ Other(old) # old
  BY PagePairs DEF LocalTypes
<1>1. CASE EE_Init
  BY <1>1, PagePairs DEF EE_Init, Placed, flash, EraseAgain
<1>2. CASE EE_WriteVariable
  BY <1>2 DEF EE_WriteVariable, Placed, Rests, Free, flash
<1>3. CASE PutData
  <2>1. PICK p \in Pages, i \in Index :
           /\ p \in WritePages /\ FirstOf(Free(p), i)
           /\ at' = [page |-> p, slot |-> i]
           /\ SlotBecomes(p, i, [tag |-> Blank, data |-> word.data])
    BY <1>3, PutDataSlot
  <2>2. /\ ctx = "write" => /\ status[p] = "VALID"
                            /\ status[Other(p)] = "ERASED"
                            /\ slots'[Other(p)] = EmptyPage
        /\ ctx # "write" => p = Other(old)
        /\ ctx = "first" => i = 1
    BY <1>3, <2>1, PutDataPlace DEF SlotBecomes
  <2> QED
    BY <1>3, <2>1, <2>2 DEF PutData, Placed
<1>4. CASE PutNoPage
  <2>1. WritePages # {}
    <3>1. CASE ctx = "write"
      BY <1>4, <3>1, PagesFound DEF PutNoPage, Placed, Rests
    <3>2. CASE ctx # "write"
      BY <1>0, <1>4, <3>2, PagesFound DEF PutNoPage, Placed
    <3> QED
      BY <3>1, <3>2
  <2> QED
    BY <1>4, <2>1 DEF PutNoPage
<1>5. CASE PutPageFull
  <2>1. CASE ctx = "write"
    BY <1>5, <2>1 DEF PutPageFull, Placed, Rests, Free, flash, locals
  <2>2. CASE ctx # "write"
    <3>1. status[old] = "VALID" /\ status[Other(old)] = "RECEIVE"
      BY <1>5, <2>2 DEF PutPageFull, Placed
    <3>2. Free(Other(old)) = {}
      BY <1>0, <1>5, <3>1, PagesFound DEF PutPageFull
    <3>3. \A p \in Pages : Free(p)' = Free(p)
      BY <1>5 DEF PutPageFull, flash, Free
    <3>4. PICK p \in Pages : p = old
      BY <1>0
    <3>5. Rests(p)'
      BY <1>0, <1>5, <3>1, <3>2, <3>3, <3>4 DEF Rests, PutPageFull, flash
    <3>6. pc' = "idle"
      BY <1>5, <2>2 DEF PutPageFull, ReturnStatus
    <3> QED
      BY <3>5, <3>6 DEF Placed
  <2> QED
    BY <2>1, <2>2
<1>6. CASE PutTag
  <2>1. PICK p \in Pages, i \in Index : p = at.page /\ i = at.slot
    BY <1>6, PutTagSlot
  <2>2. slots'[Other(p)] = slots[Other(p)] /\ UNCHANGED status
    BY <1>6, <2>1, PutTagSlot DEF SlotBecomes, PutTag
  <2>3. CASE ctx = "write"
    <3>1. Rests(p)'
      BY <1>6, <2>1, <2>2, <2>3 DEF PutTag, Placed, Rests
    <3>2. pc' = "idle"
      BY <1>6, <2>3 DEF PutTag, ReturnStatus
    <3> QED
      BY <3>1, <3>2 DEF Placed
  <2>4. CASE ctx # "write"
    BY <1>6, <2>2, <2>4 DEF PutTag, Placed
  <2> QED
    BY <2>3, <2>4
<1>7. CASE Receive
  <2>1. PICK q \in Pages : Rests(q)
    BY <1>7 DEF Receive, Placed, Located
  <2>2. ReadPages = {q}
    BY <2>1, PagesFound DEF Rests
  <2>3. CASE Programmable(Other(q), "RECEIVE")
    <3>1. /\ MarkPage(Other(q), "RECEIVE")
          /\ old' = q /\ ctx' = "first" /\ pc' = "put"
      BY <1>7, <2>2, <2>3 DEF Receive
    <3>2. slots[Other(q)] = EmptyPage
      BY <2>1, <2>3 DEF Rests, Programmable
    <3>3. status'[q] = "VALID" /\ status'[Other(q)] = "RECEIVE"
      BY <2>1, <3>1, PagePairs DEF Rests, MarkPage, FlashTypes
    <3> QED
      BY <3>1, <3>2, <3>3 DEF Placed, MarkPage
  <2>4. CASE ~Programmable(Other(q), "RECEIVE")
    <3>1. ReturnStatus("error") /\ UNCHANGED flash
      BY <1>7, <2>2, <2>4 DEF Receive
    <3>2. Rests(q)'
      BY <2>1, <3>1 DEF Rests, Free, flash
    <3> QED
      BY <3>1, <3>2 DEF ReturnStatus, Placed
  <2> QED
    BY <2>3, <2>4
<1>8. CASE CopyNext
  BY <1>8 DEF CopyNext, Placed, flash
<1>9. CASE CopyEnd
  BY <1>9 DEF CopyEnd, Placed, flash, locals
<1>10. CASE TransferErase
  BY <1>0, <1>10 DEF TransferErase, FLASH_ErasePage, Placed, FlashTypes, locals
<1>11. ASSUME NEW p \in Pages, pc' = "idle", status'[p] = "VALID",
              status'[Other(p)] = "ERASED", slots'[Other(p)] = EmptyPage
       PROVE  Placed'
  BY <1>11 DEF Placed, Rests
<1>12. CASE TransferValid
  <2>1. /\ status'[Other(old)] = "VALID" /\ status'[old] = "ERASED"
        /\ slots'[old] = EmptyPage /\ pc' = "idle"
    BY <1>0, <1>12 DEF TransferValid, MarkPage, Placed, FlashTypes, ReturnStatus
  <2> QED
    BY <1>0, <2>1, <1>11
<1>13. CASE RecoverValid
  BY <1>0, <1>13 DEF RecoverValid, MarkPage, Placed, FlashTypes, locals
<1>14. CASE CleanOld
  <2>1. /\ status'[Other(old)] = "VALID" /\ status'[old] = "ERASED"
        /\ slots'[old] = EmptyPage /\ pc' = "idle"
    BY <1>0, <1>14 DEF CleanOld, FLASH_ErasePage, Located, FlashTypes, ReturnStatus
  <2> QED
    BY <1>0, <2>1, <1>11
<1>15. CASE FormatErase
  BY <1>15 DEF FormatErase, FLASH_ErasePage, Located, NotBothReceive, FlashTypes,
               Placed, Pages
<1>16. CASE FormatValid
  BY <1>16 DEF FormatValid, MarkPage, FlashTypes, Placed, Pages
<1>17. CASE FlashFails
  BY <1>17 DEF FlashFails, ReturnStatus
<1>18. CASE PowerLoss
  BY <1>18 DEF PowerLoss, Placed
<1>19. CASE UNCHANGED vars
  BY <1>19 DEF vars, flash, locals, Placed, Rests, Free
<1> QED
  BY <1>1, <1>2, <1>3, <1>4, <1>5, <1>6, <1>7, <1>8, <1>9, <1>10, <1>12, <1>13,
     <1>14, <1>15, <1>16, <1>17, <1>18, <1>19 DEF Next, Step

\* Calls of EE_Init carry no request, the others their own.
LEMMA CalledKept ==
  ASSUME IInv, Called, [Next]_vars
  PROVE  Called'
<1> USE DEF IInv
<1>r. ASSUME NEW r, ReturnStatus(r) PROVE Called'
  BY <1>r DEF ReturnStatus, Called
<1>1. CASE EE_Init
  BY <1>1 DEF EE_Init, Called, Keep, EraseAgain
<1>2. CASE EE_WriteVariable
  <2>1. PICK v \in Vars, d \in Data : req' = [var |-> v, data |-> d] /\ word' = req'
    BY <1>2 DEF EE_WriteVariable
  <2>2. req' # NoRequest
    BY <2>1, EepromAssumption DEF NoRequest, Vars
  <2> QED
    BY <1>2, <2>1, <2>2 DEF EE_WriteVariable, Called
<1>3. CASE PutData
  BY <1>3 DEF PutData, Called, Keep
<1>4. CASE PutNoPage
  BY <1>4, <1>r DEF PutNoPage
<1>5. CASE PutPageFull
  BY <1>5, <1>r DEF PutPageFull, Called, Keep, locals
<1>6. CASE PutTag
  BY <1>6, <1>r DEF PutTag, Called, Keep
<1>7. CASE Receive
  BY <1>7, <1>r DEF Receive, Called, Keep, Located
<1>8. CASE CopyNext
  BY <1>8 DEF CopyNext, Called, Keep
<1>9. CASE CopyEnd
  BY <1>9 DEF CopyEnd, Called, Keep, Recovering
<1>10. CASE TransferErase \/ RecoverValid \/ FormatErase \/ FormatValid
  BY <1>10 DEF TransferErase, RecoverValid, FormatErase, FormatValid, Called, Keep
<1>11. CASE TransferValid \/ CleanOld \/ FlashFails
  BY <1>11, <1>r DEF TransferValid, CleanOld, FlashFails
<1>12. CASE PowerLoss
  BY <1>12 DEF PowerLoss, Called
<1>13. CASE UNCHANGED vars
  BY <1>13 DEF vars, locals, Called
<1> QED
  BY <1>1, <1>2, <1>3, <1>4, <1>5, <1>6, <1>7, <1>8, <1>9, <1>10, <1>11, <1>12,
     <1>13 DEF Next, Step

\* Writing what is stored changes nothing.
LEMMA WithSame ==
  ASSUME NEW f, f = [w \in DOMAIN f |-> f[w]], NEW v \in DOMAIN f
  PROVE  With(f, v, f[v]) = f
<1>1. DOMAIN With(f, v, f[v]) = DOMAIN f
  BY DEF With
<1>2. \A w \in DOMAIN f : With(f, v, f[v])[w] = f[w]
  BY DEF With
<1>3. With(f, v, f[v])
        = [w \in DOMAIN With(f, v, f[v]) |-> With(f, v, f[v])[w]]
  BY DEF With
<1> HIDE DEF With
<1> QED
  BY <1>1, <1>2, <1>3, SameFunction

\* The same for the present and for the next state.
LEMMA StoredNow ==
  ASSUME FlashTypes
  PROVE  /\ \A p \in Pages :
              status[p] = "VALID" /\ status[Other(p)] = "RECEIVE"
                => Stored = Over(ContentOf(slots[p]), slots[Other(p)][1])
         /\ (\A p \in Pages : status[p] = "ERASED") => Stored = <<>>
         /\ (\A p \in Pages : status[p] = "VALID")
              => Stored = ContentOf(slots[IF pc = "clean" THEN Other(old) ELSE 1])
         /\ \A p \in Pages :
              status[p] # "ERASED" /\ status[Other(p)] = "ERASED"
                => Stored = ContentOf(slots[p])
<1>1. status \in [Pages -> Status]
  BY DEF FlashTypes
<1> QED
  BY <1>1, StoredIs, StoredCopying, StoredErased, StoredBoth, StoredOne

LEMMA StoredThen ==
  ASSUME FlashTypes'
  PROVE  /\ \A p \in Pages :
              status'[p] = "VALID" /\ status'[Other(p)] = "RECEIVE"
                => Stored' = Over(ContentOf(slots'[p]), slots'[Other(p)][1])
         /\ (\A p \in Pages : status'[p] = "ERASED") => Stored' = <<>>
         /\ (\A p \in Pages : status'[p] = "VALID")
              => Stored' = ContentOf(slots'[IF pc' = "clean" THEN Other(old') ELSE 1])
         /\ \A p \in Pages :
              status'[p] # "ERASED" /\ status'[Other(p)] = "ERASED"
                => Stored' = ContentOf(slots'[p])
<1>1. status' \in [Pages -> Status]
  BY DEF FlashTypes
<1> QED
  BY <1>1, StoredNext, StoredCopying, StoredErased, StoredBoth, StoredOne

BothValid == \A p \in Pages : status[p] = "VALID"

\* Only a store with two valid pages depends on where the call is.
LEMMA StoredUnmoved ==
  ASSUME FlashTypes, UNCHANGED flash, ~BothValid
  PROVE  Stored' = Stored
<1>1. status # [p \in Pages |-> "VALID"]
  BY DEF BothValid, FlashTypes
<1>2. StoredOf(status, slots, pc, old) = StoredOf(status, slots, pc', old')
  BY <1>1 DEF StoredOf
<1> QED
  BY <1>2, StoredIs, StoredNext DEF flash

\* Two valid pages are met in three places only.
LEMMA WhereBothValid ==
  ASSUME IInv, Placed, BothValid
  PROVE  pc \in {"off", "clean", "ferase"}
<1> USE DEF IInv
<1>1. old \in Pages /\ Other(old) \in Pages /\ 0 \in Pages
  BY PagePairs DEF LocalTypes, Pages
<1>2. at.page \in Pages /\ Other(at.page) \in Pages
  BY PagePairs DEF LocalTypes
<1>3. ~\E p \in Pages : Rests(p)
  BY PagePairs DEF BothValid, Rests
<1> QED
  BY <1>1, <1>2, <1>3 DEF BothValid, Placed, Located, LocalTypes, FlashOps

\* What is stored while a page receives.
LEMMA StoredWhileCopying ==
  ASSUME IInv, NEW p \in Pages, status[p] = "VALID", status[Other(p)] = "RECEIVE"
  PROVE  /\ Stored = Over(ContentOf(slots[p]), slots[Other(p)][1])
         /\ DOMAIN Stored \subseteq Vars
         /\ Stored = [v \in DOMAIN Stored |-> Stored[v]]
<1>1. Stored = Over(ContentOf(slots[p]), slots[Other(p)][1])
  BY StoredNow DEF IInv
<1>2. slots[Other(p)][1].tag \in Vars \union {Blank}
  BY Basics DEF IInv, FlashTypes, Slot
<1>3. DOMAIN ContentOf(slots[p]) \subseteq Vars
  BY ContentDomain
<1>4. ContentOf(slots[p]) = [v \in DOMAIN ContentOf(slots[p]) |-> ContentOf(slots[p])[v]]
  BY ContentDomain
<1>5. DOMAIN Stored \subseteq Vars
  BY <1>1, <1>2, <1>3 DEF Over, With
<1>6. Stored = [v \in DOMAIN Stored |-> Stored[v]]
  BY <1>1, <1>4 DEF Over, With
<1> QED
  BY <1>1, <1>5, <1>6

\* A complete copy holds what is stored.
LEMMA CompleteCopy ==
  ASSUME IInv, Agreement, NEW p \in Pages,
         status[p] = "VALID", status[Other(p)] = "RECEIVE",
         \A v \in DOMAIN Stored : TaggedIn(slots[Other(p)], v) # {}
  PROVE  Stored = ContentOf(slots[Other(p)])
<1> DEFINE pg == slots[Other(p)]
<1>1. \A v \in DOMAIN Stored : TaggedIn(pg, v) # {}
  OBVIOUS
<1>2. \A i \in Index : pg[i].tag # Blank =>
        pg[i].tag \in DOMAIN Stored /\ pg[i].data = Stored[pg[i].tag]
  BY DEF Agreement
<1> HIDE DEF pg
<1>3. DOMAIN ContentOf(pg) = {w \in Vars : TaggedIn(pg, w) # {}}
  BY ContentDomain
<1>4. \A w \in Vars : TaggedIn(pg, w) # {} => w \in DOMAIN Stored
  BY <1>2, BlankIsNoVar DEF TaggedIn
<1>5. DOMAIN Stored = DOMAIN ContentOf(pg)
  BY <1>1, <1>3, <1>4, StoredWhileCopying
<1>6. ASSUME NEW v \in DOMAIN Stored PROVE Stored[v] = ContentOf(pg)[v]
  <2>1. v \in Vars /\ TaggedIn(pg, v) # {}
    BY <1>3, <1>5
  <2>2. PICK i \in Index : pg[i].tag = v /\ ContentOf(pg)[v] = pg[i].data
    BY <2>1, ContentAt
  <2> QED
    BY <2>1, <2>2, <1>2, BlankIsNoVar
<1>7. Stored = ContentOf(pg)
  BY <1>5, <1>6, StoredWhileCopying, ContentDomain, SameFunction
<1> QED
  BY <1>7 DEF pg

\* Erasing the header of the old page, by whichever step, loses nothing.
LEMMA HeaderErased ==
  ASSUME IInv, IInv', Sound, pc \in {"xerase", "clean"},
         status' = [status EXCEPT ![old] = "ERASED"],
         slots'[Other(old)] = slots[Other(old)]
  PROVE  Stored' = Stored
<1> USE DEF IInv
<1>0. PICK p \in Pages : p = old
  BY DEF LocalTypes
<1>1. Other(p) \in Pages /\ Other(p) # p /\ Other(Other(p)) = p
  BY PagePairs
<1>2. status'[Other(p)] = status[Other(p)] /\ status'[p] = "ERASED"
  BY <1>0, <1>1 DEF FlashTypes
<1>3. status[Other(p)] # "ERASED" /\ (pc = "clean" => status[Other(p)] = "VALID")
  BY <1>0 DEF Located
<1>4. Stored' = ContentOf(slots[Other(p)])
  BY <1>0, <1>1, <1>2, <1>3, StoredThen
<1>5. CASE status[p] = "ERASED"
  BY <1>1, <1>3, <1>4, <1>5, StoredNow
<1>6. CASE status[p] = "VALID" /\ pc = "xerase"
  <2>1. status[Other(p)] = "RECEIVE"
    BY <1>0, <1>6 DEF Located
  <2>2. \A v \in DOMAIN Stored : TaggedIn(slots[Other(p)], v) # {}
    BY <1>0, <1>6 DEF Sound, Copied
  <2> QED
    BY <1>4, <1>6, <2>1, <2>2, CompleteCopy DEF Sound
<1>7. CASE status[p] = "VALID" /\ pc = "clean"
  <2>1. \A q \in Pages : status[q] = "VALID"
    BY <1>1, <1>3, <1>7, PagePairs
  <2> QED
    BY <1>0, <1>4, <1>7, <2>1, StoredNow
<1>8. status[p] \in {"ERASED", "VALID"}
  BY <1>0, <1>1, PagePairs
  DEF FlashTypes, Status, NotBothReceive, Located, Sound, Placed
<1> QED
  BY <1>5, <1>6, <1>7, <1>8

\* Neither does erasing the header of page 0 in EE_Format.
LEMMA FormatHeader ==
  ASSUME IInv, IInv', pc = "ferase",
         status' = [status EXCEPT ![0] = "ERASED"],
         slots'[1] = slots[1]
  PROVE  Stored' = Stored
<1> USE DEF IInv
<1>1. 0 \in Pages /\ 1 \in Pages /\ Other(1) = 0
  BY DEF Pages, Other
<1>2. status[0] = status[1] /\ status[1] \in {"ERASED", "VALID"}
  BY DEF Located, NotBothReceive, FlashTypes, Status, Pages
<1>3. status'[1] = status[1] /\ status'[0] = "ERASED"
  BY <1>1 DEF FlashTypes
<1>4. CASE status[1] = "ERASED"
  BY <1>2, <1>3, <1>4, StoredNow, StoredThen DEF Pages
<1>5. CASE status[1] = "VALID"
  <2>1. Stored = ContentOf(slots[1])
    BY <1>2, <1>5, StoredNow DEF Pages
  <2>2. Stored' = ContentOf(slots'[1])
    BY <1>1, <1>3, <1>5, StoredThen
  <2> QED
    BY <2>1, <2>2
<1> QED
  BY <1>2, <1>4, <1>5

\* PutData writes to a slot without a tag, which nothing reads.
LEMMA PutDataStores ==
  ASSUME IInv, IInv', Sound, PutData
  PROVE  Stored' = Stored
<1> USE DEF IInv
<1>1. PICK p \in Pages, i \in Index :
        /\ p \in WritePages /\ FirstOf(Free(p), i)
        /\ slots[p][i] = EmptySlot
        /\ SlotBecomes(p, i, [tag |-> Blank, data |-> word.data])
  BY PutDataSlot
<1>2. /\ ctx = "write" => status[p] = "VALID" /\ status[Other(p)] = "ERASED"
      /\ ctx # "write" => p = Other(old)
  BY <1>1, PutDataPlace DEF Sound
<1>3. /\ \A j \in Index : slots'[p][j].tag = slots[p][j].tag
      /\ \A j \in Index : slots[p][j].tag # Blank => slots'[p][j].data = slots[p][j].data
      /\ slots'[Other(p)] = slots[Other(p)]
  BY <1>1 DEF SlotBecomes, EmptySlot
<1>4. UNCHANGED status
  BY DEF PutData
<1>5. CASE ctx = "write"
  <2>1. ContentOf(slots'[p]) = ContentOf(slots[p])
    BY <1>3, ContentSame
  <2> QED
    BY <1>2, <1>4, <1>5, <2>1, StoredNow, StoredThen
<1>6. CASE ctx # "write"
  <2>1. /\ old \in Pages /\ status[old] = "VALID" /\ status[Other(old)] = "RECEIVE"
        /\ Other(p) = old
    BY <1>2, <1>6, PagePairs DEF Sound, Placed, PutData, LocalTypes
  <2>2. PICK q \in Pages : q = old
    BY <2>1
  <2>3. /\ Stored = Over(ContentOf(slots[q]), slots[p][1])
        /\ Stored' = Over(ContentOf(slots'[q]), slots'[p][1])
    BY <1>2, <1>4, <1>6, <2>1, <2>2, StoredNow, StoredThen
  <2>4. Over(ContentOf(slots[q]), slots'[p][1]) = Over(ContentOf(slots[q]), slots[p][1])
    BY <1>3, Basics DEF Over
  <2> QED
    BY <1>3, <2>1, <2>2, <2>3, <2>4
<1> QED
  BY <1>5, <1>6

\* PutTag makes the write of a call, or copies what is stored.
LEMMA PutTagStores ==
  ASSUME IInv, IInv', Tagging, Sound, PutTag
  PROVE  Stored' = IF ctx = "copy" THEN Stored
                   ELSE With(Stored, req.var, req.data)
<1> USE DEF IInv
<1>1. PICK p \in Pages, i \in Index : p = at.page /\ i = at.slot
  BY PutTagSlot
<1>2. /\ word.var \in Vars
      /\ SlotBecomes(p, i, [tag |-> word.var, data |-> word.data])
      /\ slots[p][i].tag = Blank /\ slots[p][i].data = word.data
      /\ \A j \in Index : j > i => slots[p][j] = EmptySlot
  BY <1>1, PutTagSlot DEF Tagging, PutTag
<1>3. UNCHANGED status /\ pc = "tag"
  BY DEF PutTag
<1>4. ctx # "copy" => word = req
  BY <1>3 DEF Sound, Called
<1>5. CASE ctx = "write"
  <2>1. status[p] = "VALID" /\ status[Other(p)] = "ERASED"
    BY <1>1, <1>3, <1>5 DEF Sound, Placed
  <2>2. Stored = ContentOf(slots[p]) /\ Stored' = ContentOf(slots'[p])
    BY <1>3, <2>1, StoredNow, StoredThen
  <2>3. /\ slots'[p][i].tag = word.var /\ slots'[p][i].data = slots[p][i].data
        /\ \A j \in Index : j # i => slots'[p][j] = slots[p][j]
        /\ \A j \in Index : j > i => slots[p][j].tag = Blank
    BY <1>2 DEF SlotBecomes, EmptySlot
  <2>4. ContentOf(slots'[p]) = With(ContentOf(slots[p]), word.var, slots[p][i].data)
    BY <1>2, <2>3, ContentPut
  <2> QED
    BY <1>2, <1>4, <1>5, <2>2, <2>4
<1>6. CASE ctx # "write"
  <2>1. PICK q \in Pages : /\ q = old /\ p = Other(q)
                           /\ status[q] = "VALID" /\ status[p] = "RECEIVE"
    BY <1>1, <1>3, <1>6 DEF Sound, Placed, LocalTypes
  <2>2. slots'[q] = slots[q]
    BY <1>2, <2>1, PagePairs DEF SlotBecomes
  <2>3. /\ Stored = Over(ContentOf(slots[q]), slots[p][1])
        /\ Stored' = Over(ContentOf(slots[q]), slots'[p][1])
    BY <1>3, <2>1, <2>2, StoredNow, StoredThen
  <2>4. ASSUME i = 1
        PROVE  /\ Stored = ContentOf(slots[q])
               /\ Stored' = With(Stored, word.var, word.data)
    <3>1. /\ slots[p][1].tag = Blank
          /\ slots'[p][1] = [tag |-> word.var, data |-> word.data]
      BY <1>2, <2>4 DEF SlotBecomes
    <3>2. Stored = ContentOf(slots[q])
      BY <2>3, <3>1 DEF Over
    <3>3. Stored' = With(ContentOf(slots[q]), word.var, word.data)
      BY <1>2, <2>3, <3>1, BlankIsNoVar DEF Over
    <3> QED
      BY <3>2, <3>3
  <2>5. ASSUME i # 1 PROVE Stored' = Stored
    BY <1>2, <2>3, <2>5, Basics DEF SlotBecomes
  <2>6. CASE ctx = "first"
    <3>1. i = 1
      BY <1>1, <1>3, <2>6 DEF Sound, Placed
    <3> QED
      BY <1>4, <2>4, <2>6, <3>1
  <2>7. CASE ctx = "copy"
    <3>1. word.var \in DOMAIN Stored /\ word.data = Stored[word.var]
      BY <1>3, <2>7 DEF Sound, CopiesStored
    <3>2. Stored = [v \in DOMAIN Stored |-> Stored[v]]
      BY <2>1, StoredWhileCopying
    <3>3. With(Stored, word.var, word.data) = Stored
      BY <3>1, <3>2, WithSame
    <3> QED
      BY <2>4, <2>5, <2>7, <3>3
  <2> QED
    BY <1>6, <2>6, <2>7 DEF LocalTypes
<1> QED
  BY <1>5, <1>6

\* What a step does to the store: nothing, or the write under way; or there
\* are two valid pages.
LEMMA Effect ==
  ASSUME IInv, IInv', Tagging, Sound, [Next]_vars, errors' = 0
  PROVE  \/ Stored' = Stored
         \/ PutTag /\ ctx # "copy" /\ Stored' = With(Stored, req.var, req.data)
         \/ (FormatValid \/ PowerLoss) /\ BothValid'
<1> USE DEF IInv
<1>0. PICK o \in Pages : /\ o = old /\ Other(o) \in Pages /\ Other(o) # o
                         /\ Other(Other(o)) = o
  BY PagePairs DEF LocalTypes
<1>s. ASSUME UNCHANGED flash, pc \notin {"off", "clean", "ferase"}
      PROVE  Stored' = Stored
  BY <1>s, WhereBothValid, StoredUnmoved DEF Sound
<1>1. CASE EE_Init
  <2>1. CASE BothValid
    <3>1. pc = "off" /\ pc' = "ferase" /\ UNCHANGED flash
      BY <1>1, <2>1, PagePairs DEF EE_Init, BothValid, EraseAgain
    <3>2. \A p \in Pages : status[p] = "VALID" /\ status'[p] = "VALID"
      BY <2>1, <3>1 DEF BothValid, flash
    <3>3. Stored = ContentOf(slots[1]) /\ Stored' = ContentOf(slots'[1])
      BY <3>1, <3>2, StoredNow, StoredThen
    <3> QED
      BY <3>1, <3>3 DEF flash
  <2>2. CASE ~BothValid
    BY <1>1, <2>2, StoredUnmoved DEF EE_Init
  <2> QED
    BY <2>1, <2>2
<1>2. CASE EE_WriteVariable \/ PutNoPage \/ PutPageFull \/ CopyNext \/ CopyEnd
  BY <1>2, <1>s
  DEF EE_WriteVariable, PutNoPage, PutPageFull, CopyNext, CopyEnd
<1>3. CASE PutData
  BY <1>3, PutDataStores
<1>4. CASE PutTag
  BY <1>4, PutTagStores
<1>5. CASE Receive
  <2>1. PICK q \in Pages : Rests(q)
    BY <1>5 DEF Receive, Sound, Placed, Located
  <2>2. ReadPages = {q}
    BY <2>1, PagesFound DEF Rests
  <2>3. CASE Programmable(Other(q), "RECEIVE")
    <3>1. MarkPage(Other(q), "RECEIVE")
      BY <1>5, <2>2, <2>3 DEF Receive
    <3>2. /\ status[Other(q)] = "ERASED" /\ status[q] = "VALID"
          /\ slots[Other(q)] = EmptyPage
      BY <2>1, <2>3 DEF Rests, Programmable
    <3>3. status'[q] = "VALID" /\ status'[Other(q)] = "RECEIVE" /\ UNCHANGED slots
      BY <3>1, <3>2, PagePairs DEF MarkPage, FlashTypes
    <3>4. Stored = ContentOf(slots[q])
      BY <3>2, StoredNow
    <3>5. Stored' = Over(ContentOf(slots[q]), slots[Other(q)][1])
      BY <3>3, StoredThen
    <3> QED
      BY <3>2, <3>4, <3>5, Basics DEF Over, EmptyPage, EmptySlot
  <2>4. CASE ~Programmable(Other(q), "RECEIVE")
    BY <1>5, <1>s, <2>2, <2>4 DEF Receive
  <2> QED
    BY <2>3, <2>4
<1>6. CASE TransferErase \/ CleanOld
  BY <1>0, <1>6, HeaderErased DEF TransferErase, CleanOld, FLASH_ErasePage, FlashTypes
<1>7. CASE TransferValid
  <2>1. status[o] = "ERASED" /\ status[Other(o)] = "RECEIVE"
    BY <1>0, <1>7 DEF TransferValid, Sound, Placed, Located
  <2>2. status'[o] = "ERASED" /\ status'[Other(o)] = "VALID" /\ UNCHANGED slots
    BY <1>0, <1>7, <2>1 DEF TransferValid, MarkPage, FlashTypes
  <2>3. Stored = ContentOf(slots[Other(o)]) /\ Stored' = ContentOf(slots'[Other(o)])
    BY <1>0, <2>1, <2>2, StoredNow, StoredThen
  <2> QED
    BY <2>2, <2>3
<1>8. CASE RecoverValid
  <2>1. status[o] = "VALID" /\ status[Other(o)] = "RECEIVE"
    BY <1>0, <1>8 DEF RecoverValid, Sound, Placed
  <2>2. /\ status'[o] = "VALID" /\ status'[Other(o)] = "VALID" /\ UNCHANGED slots
        /\ pc' = "clean" /\ old' = o
    BY <1>0, <1>8, <2>1 DEF RecoverValid, MarkPage, FlashTypes, locals
  <2>3. Stored' = ContentOf(slots[Other(o)])
    BY <1>0, <2>2, StoredThen, PagePairs
  <2>4. Stored = ContentOf(slots[Other(o)])
    BY <1>0, <1>8, <2>1, CompleteCopy DEF RecoverValid, Sound, Copied
  <2> QED
    BY <2>3, <2>4
<1>9. CASE FormatErase
  BY <1>9, FormatHeader DEF FormatErase, FLASH_ErasePage, FlashTypes, Pages
<1>10. CASE FormatValid
  <2>1. /\ status[0] = "ERASED" /\ slots[0] = EmptyPage
        /\ status[1] \in {"ERASED", "VALID"}
    BY <1>10 DEF FormatValid, Sound, Placed, FlashTypes, Status, Pages
  <2>2. status'[0] = "VALID" /\ status'[1] = status[1] /\ UNCHANGED slots
    BY <1>10 DEF FormatValid, MarkPage, FlashTypes, Pages
  <2>3. CASE status[1] = "VALID"
    BY <1>10, <2>2, <2>3 DEF BothValid, Pages
  <2>4. CASE status[1] = "ERASED"
    <3>1. Stored = <<>>
      BY <2>1, <2>4, StoredNow DEF Pages
    <3>2. Stored' = ContentOf(slots'[0])
      BY <2>2, <2>4, StoredThen DEF Pages, Other
    <3> QED
      BY <2>1, <2>2, <3>1, <3>2, ContentBlank
  <2> QED
    BY <2>1, <2>3, <2>4
<1>11. CASE PowerLoss
  <2>1. CASE UNCHANGED flash
    <3>1. CASE BothValid
      BY <1>11, <2>1, <3>1 DEF BothValid, flash
    <3>2. CASE ~BothValid
      BY <2>1, <3>2, StoredUnmoved
    <3> QED
      BY <3>1, <3>2
  <2>2. CASE /\ pc \in {"xerase", "clean", "ferase"}
             /\ status' = [status EXCEPT ![Erasing] = "ERASED"]
             /\ UNCHANGED slots
    BY <2>2, HeaderErased, FormatHeader DEF Erasing
  <2> QED
    BY <1>11, <2>1, <2>2 DEF PowerLoss
<1>12. CASE FlashFails
  BY <1>12 DEF FlashFails, ReturnStatus
<1>13. CASE UNCHANGED vars
  <2>1. Stored' = Stored
    BY <1>13, StoredIs, StoredNext DEF vars, flash, locals
  <2> QED
    BY <2>1
<1> QED
  BY <1>1, <1>2, <1>3, <1>4, <1>5, <1>6, <1>7, <1>8, <1>9, <1>10, <1>11, <1>12,
     <1>13 DEF Next, Step

\* A page comes to receive, or a receiving page changes, by three steps only.
LEMMA ReceivingSteps ==
  ASSUME IInv, Placed, [Next]_vars, errors' = 0, ~PutData, ~PutTag, ~Receive,
         NEW p \in Pages, status'[p] = "VALID", status'[Other(p)] = "RECEIVE"
  PROVE  UNCHANGED flash
<1> USE DEF IInv
<1>0. /\ old \in Pages /\ Other(old) \in Pages /\ Other(old) # old
      /\ p = old \/ p = Other(old)
      /\ Other(Other(old)) = old
  BY PagePairs DEF LocalTypes
<1>1. CASE TransferErase
  BY <1>0, <1>1 DEF TransferErase, FLASH_ErasePage, FlashTypes
<1>2. CASE CleanOld
  BY <1>0, <1>2 DEF CleanOld, FLASH_ErasePage, FlashTypes
<1>3. CASE TransferValid
  BY <1>0, <1>3 DEF TransferValid, MarkPage, FlashTypes, Placed
<1>4. CASE RecoverValid
  BY <1>0, <1>4 DEF RecoverValid, MarkPage, FlashTypes, Placed
<1>5. CASE FormatErase
  BY <1>5 DEF FormatErase, FLASH_ErasePage, FlashTypes, Located, NotBothReceive,
              Pages, Other
<1>6. CASE FormatValid
  BY <1>6 DEF FormatValid, MarkPage, FlashTypes, Placed, Pages, Other
<1>7. CASE PowerLoss
  <2>1. ASSUME pc \in {"xerase", "clean"}, status' = [status EXCEPT ![old] = "ERASED"]
        PROVE  FALSE
    BY <1>0, <2>1 DEF FlashTypes
  <2>2. ASSUME pc = "ferase", status' = [status EXCEPT ![0] = "ERASED"]
        PROVE  FALSE
    BY <2>2 DEF FlashTypes, Located, NotBothReceive, Pages, Other
  <2> QED
    BY <1>7, <2>1, <2>2 DEF PowerLoss, Erasing
<1>8. CASE FlashFails
  BY <1>8 DEF FlashFails
<1> QED
  BY <1>1, <1>2, <1>3, <1>4, <1>5, <1>6, <1>7, <1>8
  DEF Next, Step, EE_Init, EE_WriteVariable, PutNoPage, PutPageFull, CopyNext,
      CopyEnd, vars, flash

\* Only stored values are copied.
LEMMA AgreementKept ==
  ASSUME IInv, IInv', Tagging, Sound, [Next]_vars, errors' = 0
  PROVE  Agreement'
<1> USE DEF IInv
<1> SUFFICES ASSUME NEW p \in Pages,
                    status'[p] = "VALID", status'[Other(p)] = "RECEIVE",
                    NEW i \in Index, slots'[Other(p)][i].tag # Blank
             PROVE  /\ slots'[Other(p)][i].tag \in DOMAIN Stored'
                    /\ slots'[Other(p)][i].data = Stored'[slots'[Other(p)][i].tag]
  BY DEF Agreement
<1>0. ~BothValid'
  BY PagePairs DEF BothValid
<1>1. ASSUME Stored' = Stored, status' = status,
             slots'[Other(p)][i] = slots[Other(p)][i]
      PROVE  /\ slots'[Other(p)][i].tag \in DOMAIN Stored'
             /\ slots'[Other(p)][i].data = Stored'[slots'[Other(p)][i].tag]
  BY <1>1 DEF Sound, Agreement
<1>2. CASE PutData
  <2>1. PICK q \in Pages, j \in Index :
          /\ slots[q][j] = EmptySlot
          /\ SlotBecomes(q, j, [tag |-> Blank, data |-> word.data])
    BY <1>2, PutDataSlot
  <2>2. Other(p) = q \/ Other(p) = Other(q)
    BY <2>1, PagePairs
  <2>3. slots'[Other(p)][i] = slots[Other(p)][i]
    BY <2>1, <2>2 DEF SlotBecomes
  <2> QED
    BY <1>1, <1>2, <2>3, PutDataStores DEF PutData
<1>3. CASE PutTag
  <2>1. PICK q \in Pages, j \in Index : q = at.page /\ j = at.slot
    BY <1>3, PutTagSlot
  <2>2. /\ SlotBecomes(q, j, [tag |-> word.var, data |-> word.data])
        /\ \A k \in Index : k > j => slots[q][k] = EmptySlot
        /\ UNCHANGED status /\ pc = "tag"
    BY <1>3, <2>1, PutTagSlot DEF Tagging, PutTag
  <2>3. ctx # "write"
    BY <2>1, <2>2, PagePairs DEF Sound, Placed
  <2>4. q = Other(old) /\ status[old] = "VALID" /\ status[q] = "RECEIVE"
    BY <2>1, <2>2, <2>3 DEF Sound, Placed
  <2>5. Other(p) = q
    BY <2>1, <2>2, <2>4, PagePairs
  <2>6. CASE ctx = "first"
    <3>1. j = 1 /\ word = req
      BY <2>1, <2>2, <2>6 DEF Sound, Placed, Called
    <3>2. i = 1
      <4>1. i = 1 \/ i > 1
        BY EepromAssumption DEF Index
      <4> QED
        BY <2>2, <2>5, <3>1, <4>1 DEF SlotBecomes, EmptySlot
    <3>3. Stored' = With(Stored, req.var, req.data)
      BY <1>3, <2>6, PutTagStores
    <3>4. slots'[Other(p)][i] = [tag |-> req.var, data |-> req.data]
      BY <2>2, <2>5, <3>1, <3>2 DEF SlotBecomes
    <3> QED
      BY <3>3, <3>4 DEF With
  <2>7. CASE ctx = "copy"
    <3>1. Stored' = Stored
      BY <1>3, <2>7, PutTagStores
    <3>2. CASE i = j
      <4>1. slots'[Other(p)][i] = [tag |-> word.var, data |-> word.data]
        BY <2>2, <2>5, <3>2 DEF SlotBecomes
      <4> QED
        BY <2>2, <2>7, <3>1, <4>1 DEF Sound, CopiesStored
    <3>3. CASE i # j
      BY <1>1, <2>2, <2>5, <3>1, <3>3 DEF SlotBecomes
    <3> QED
      BY <3>2, <3>3
  <2> QED
    BY <2>3, <2>6, <2>7 DEF LocalTypes
<1>4. CASE Receive
  <2>1. PICK q \in Pages : Rests(q)
    BY <1>4 DEF Receive, Sound, Placed, Located
  <2>2. ReadPages = {q}
    BY <2>1, PagesFound DEF Rests
  <2>3. CASE Programmable(Other(q), "RECEIVE")
    <3>1. MarkPage(Other(q), "RECEIVE") /\ slots[Other(q)] = EmptyPage
      BY <1>4, <2>1, <2>2, <2>3 DEF Receive, Rests, Programmable
    <3>2. status'[q] = "VALID"
      BY <2>1, <3>1, PagePairs DEF MarkPage, FlashTypes, Rests
    <3>3. Other(p) = Other(q)
      BY <3>2, PagePairs
    <3> QED
      BY <3>1, <3>3 DEF MarkPage, EmptyPage, EmptySlot
  <2>4. CASE ~Programmable(Other(q), "RECEIVE")
    <3>1. UNCHANGED flash /\ pc = "receive"
      BY <1>4, <2>2, <2>4 DEF Receive
    <3>2. Stored' = Stored
      BY <3>1, WhereBothValid, StoredUnmoved DEF Sound
    <3> QED
      BY <1>1, <3>1, <3>2 DEF flash
  <2> QED
    BY <2>3, <2>4
<1>5. CASE ~PutData /\ ~PutTag /\ ~Receive
  <2>1. UNCHANGED flash
    BY <1>5, ReceivingSteps DEF Sound
  <2>2. Stored' = Stored
    BY <1>0, <1>5, Effect
  <2> QED
    BY <1>1, <2>1, <2>2 DEF flash
<1> QED
  BY <1>2, <1>3, <1>4, <1>5

\* What has been copied stays.
LEMMA TaggedStays ==
  ASSUME NEW q \in Pages, NEW j \in Index, NEW s, SlotBecomes(q, j, s),
         slots[q][j].tag = Blank
  PROVE  /\ \A v \in Vars : TaggedIn(slots[q], v) # {} => TaggedIn(slots'[q], v) # {}
         /\ s.tag \in Vars => TaggedIn(slots'[q], s.tag) # {}
<1>1. ASSUME NEW v \in Vars, TaggedIn(slots[q], v) # {} PROVE TaggedIn(slots'[q], v) # {}
  <2>1. PICK i \in Index : slots[q][i].tag = v
    BY <1>1 DEF TaggedIn
  <2>2. slots'[q][i].tag = v
    BY <2>1, BlankIsNoVar DEF SlotBecomes
  <2> QED
    BY <2>2 DEF TaggedIn
<1>2. ASSUME s.tag \in Vars PROVE TaggedIn(slots'[q], s.tag) # {}
  BY DEF TaggedIn, SlotBecomes
<1> QED
  BY <1>1, <1>2

\* The copy loops: they go over the variables one by one.
LEMMA CopiedKept ==
  ASSUME IInv, IInv', Tagging, Sound, [Next]_vars, errors' = 0
  PROVE  Copied'
<1> USE DEF IInv
<1>0. PICK o \in Pages : /\ o = old /\ Other(o) \in Pages /\ Other(o) # o
                         /\ Other(Other(o)) = o
  BY PagePairs DEF LocalTypes
<1>v. \A v \in Vars : v \in Nat /\ v >= 1 /\ v <= NB_OF_VAR /\ v # Blank
  BY EepromAssumption, BlankIsNoVar DEF Vars
<1>i. idx \in Nat /\ idx >= 1 /\ NB_OF_VAR \in Nat
  BY EepromAssumption DEF LocalTypes
<1>c. Copying \/ pc = "ivalid" =>
        /\ status[o] = "VALID" /\ status[Other(o)] = "RECEIVE"
        /\ DOMAIN Stored \subseteq Vars
        /\ Stored = Over(ContentOf(slots[o]), slots[Other(o)][1])
  BY <1>0, StoredWhileCopying DEF Copying, Sound, Placed
<1>1. CASE EE_Init
  <2>1. CASE pc' = "copy"
    <3>1. PICK p \in Pages : /\ status[p] = "RECEIVE" /\ status[Other(p)] = "VALID"
                             /\ old' = Other(p) /\ skip' = slots[p][1].tag /\ idx' = 1
      BY <1>1, <2>1 DEF EE_Init, EraseAgain
    <3>2. UNCHANGED flash
      BY <1>1 DEF EE_Init
    <3>3. Other(old') = p
      BY <3>1, PagePairs
    <3>4. DOMAIN Stored' \subseteq Vars
      <4>1. ~BothValid
        BY <3>1 DEF BothValid
      <4>2. Stored' = Stored
        BY <3>2, <4>1, StoredUnmoved
      <4>3. Other(p) \in Pages /\ Other(Other(p)) = p
        BY PagePairs
      <4> QED
        BY <3>1, <4>2, <4>3, StoredWhileCopying
    <3>5. skip' # Blank => TaggedIn(slots'[p], skip') # {}
      <4>1. slots'[p][1].tag = skip'
        BY <3>1, <3>2 DEF flash
      <4> QED
        BY <4>1, Basics DEF TaggedIn
    <3>6. slots'[p][1].tag = skip'
      BY <3>1, <3>2 DEF flash
    <3> QED
      BY <1>v, <2>1, <3>1, <3>3, <3>4, <3>5, <3>6 DEF Copied, Copying
  <2>2. CASE pc' # "copy"
    <3>1. pc' \in {"clean", "ferase"} \/ (pc' = "xerase" /\ status'[old'] = "ERASED")
      BY <1>1, <2>2 DEF EE_Init, EraseAgain, flash
    <3> QED
      BY <3>1 DEF Copied, Copying
  <2> QED
    BY <2>1, <2>2
<1>2. CASE PutData
  <2>1. PICK q \in Pages, j \in Index :
          /\ slots[q][j] = EmptySlot
          /\ SlotBecomes(q, j, [tag |-> Blank, data |-> word.data])
    BY <1>2, PutDataSlot
  <2>2. \A p \in Pages : \A i \in Index : slots'[p][i].tag = slots[p][i].tag
    BY <2>1, PagePairs DEF SlotBecomes, EmptySlot
  <2>3. \A p \in Pages : \A v : TaggedIn(slots'[p], v) = TaggedIn(slots[p], v)
    BY <2>2 DEF TaggedIn
  <2>4. /\ Stored' = Stored
        /\ UNCHANGED <<old, idx, skip, ctx>> /\ pc = "put" /\ pc' = "tag"
    BY <1>2, PutDataStores DEF PutData
  <2>5. CASE ctx = "copy"
    BY <1>0, <2>2, <2>3, <2>4, <2>5, Basics DEF Copied, Copying, Sound
  <2>6. CASE ctx # "copy"
    BY <2>4, <2>6 DEF Copied, Copying
  <2> QED
    BY <2>5, <2>6
<1>3. CASE PutTag
  <2>1. PICK q \in Pages, j \in Index : q = at.page /\ j = at.slot
    BY <1>3, PutTagSlot
  <2>2. /\ SlotBecomes(q, j, [tag |-> word.var, data |-> word.data])
        /\ word.var \in Vars /\ slots[q][j].tag = Blank /\ pc = "tag"
    BY <1>3, <2>1, PutTagSlot DEF Tagging, PutTag
  <2>3. CASE ctx = "write"
    BY <1>3, <2>3 DEF PutTag, ReturnStatus, Copied, Copying
  <2>4. CASE ctx = "first"
    <3>1. /\ q = Other(o) /\ j = 1 /\ old' = o
          /\ idx' = 1 /\ skip' = word.var /\ pc' = "copy"
      BY <1>0, <1>3, <2>1, <2>2, <2>4 DEF Sound, Placed, PutTag
    <3>2. slots'[q][1].tag = word.var
      BY <2>2, <3>1 DEF SlotBecomes
    <3>3. TaggedIn(slots'[q], word.var) # {}
      BY <3>2, Basics DEF TaggedIn
    <3>4. DOMAIN Stored' \subseteq Vars
      <4>1. UNCHANGED status /\ status[o] = "VALID" /\ status[Other(o)] = "RECEIVE"
        BY <1>0, <1>3, <2>2, <2>4 DEF PutTag, Sound, Placed
      <4>2. DOMAIN Stored \subseteq Vars
        BY <4>1, StoredWhileCopying
      <4>3. Stored' = With(Stored, req.var, req.data) /\ word = req
        BY <1>3, <2>2, <2>4, PutTagStores DEF Sound, Called
      <4> QED
        BY <2>2, <4>2, <4>3 DEF With
    <3> QED
      BY <1>v, <3>1, <3>2, <3>3, <3>4 DEF Copied, Copying
  <2>5. CASE ctx = "copy"
    <3>1. /\ q = Other(o) /\ old' = o /\ idx' = idx + 1 /\ skip' = skip
          /\ pc' = "copy" /\ Stored' = Stored /\ word.var = idx
      BY <1>0, <1>3, <2>1, <2>2, <2>5, PutTagStores
      DEF Sound, Placed, CopiesStored, PutTag, NextVar
    <3>2. /\ \A v \in DOMAIN Stored : v \in Vars
          /\ \A v \in DOMAIN Stored : v < idx => TaggedIn(slots[q], v) # {}
          /\ skip # Blank => TaggedIn(slots[q], skip) # {}
          /\ slots[q][1].tag # Blank =>
               slots[q][1].tag = skip \/ slots[q][1].tag < idx
      BY <1>0, <1>c, <2>2, <2>5, <3>1 DEF Sound, Copied, Copying
    <3>3. /\ \A v \in Vars : TaggedIn(slots[q], v) # {} => TaggedIn(slots'[q], v) # {}
          /\ TaggedIn(slots'[q], idx) # {}
      BY <2>2, <3>1, TaggedStays
    <3>4. ASSUME NEW v \in DOMAIN Stored, v < idx + 1 PROVE TaggedIn(slots'[q], v) # {}
      <4>1. v = idx \/ v < idx
        BY <1>v, <1>i, <3>2, <3>4
      <4> QED
        BY <3>2, <3>3, <4>1
    <3>5. skip # Blank => TaggedIn(slots'[q], skip) # {}
      BY <3>2, <3>3 DEF LocalTypes
    <3>6. slots'[q][1].tag # Blank =>
            slots'[q][1].tag = skip \/ slots'[q][1].tag < idx + 1
      <4>1. CASE j = 1
        BY <1>i, <2>2, <3>1, <4>1 DEF SlotBecomes
      <4>2. CASE j # 1
        <5>1. slots'[q][1] = slots[q][1]
          BY <2>2, <4>2, Basics DEF SlotBecomes
        <5>2. slots[q][1].tag \in Vars \union {Blank}
          BY Basics DEF FlashTypes, Slot
        <5> QED
          BY <1>v, <1>i, <3>2, <5>1, <5>2
      <4> QED
        BY <4>1, <4>2
    <3> QED
      BY <3>1, <3>4, <3>5, <3>6 DEF Copied, Copying
  <2> QED
    BY <2>3, <2>4, <2>5 DEF LocalTypes
<1>4. CASE CopyNext
  <2>1. /\ pc = "copy" /\ UNCHANGED flash /\ Stored' = Stored
        /\ UNCHANGED <<old, skip>> /\ idx <= NB_OF_VAR
    BY <1>4, WhereBothValid, StoredUnmoved DEF CopyNext, Sound, VarsLeft
  <2>2. \A p \in Pages : \A v : TaggedIn(slots'[p], v) = TaggedIn(slots[p], v)
    BY <2>1 DEF TaggedIn, flash
  <2>3. CASE pc' = "put"
    BY <1>0, <1>4, <2>1, <2>2, <2>3 DEF CopyNext, Copied, Copying, Sound, flash
  <2>4. CASE pc' # "put"
    <3>1. /\ ~ToCopy \/ \A p \in ReadPages : TaggedIn(slots[p], idx) = {}
          /\ idx' = idx + 1 /\ pc' = "copy"
      BY <1>4, <2>1, <2>4 DEF CopyNext, NextVar, Tagged, TaggedIn
    <3>2. idx \in DOMAIN Stored => TaggedIn(slots[Other(o)], idx) # {}
      <4>1. idx \in Vars
        BY <1>i, <2>1 DEF Vars
      <4>2. CASE ~ToCopy
        BY <1>0, <1>v, <2>1, <4>1, <4>2 DEF ToCopy, Sound, Copied, Copying
      <4>3. CASE \A p \in ReadPages : TaggedIn(slots[p], idx) = {}
        <5>1. TaggedIn(slots[o], idx) = {}
          BY <1>c, <2>1, <4>3, PagesFound DEF Copying
        <5>2. idx \notin DOMAIN ContentOf(slots[o])
          BY <5>1, ContentDomain
        <5>3. idx \in DOMAIN Stored => slots[Other(o)][1].tag = idx
          BY <1>c, <2>1, <5>2 DEF Copying, Over, With
        <5> QED
          BY <5>3, Basics DEF TaggedIn
      <4> QED
        BY <3>1, <4>2, <4>3
    <3>3. ASSUME NEW v \in DOMAIN Stored, v < idx + 1
          PROVE  TaggedIn(slots[Other(o)], v) # {}
      <4>1. v = idx \/ v < idx
        BY <1>v, <1>i, <1>c, <2>1, <3>3 DEF Copying
      <4> QED
        BY <1>0, <2>1, <3>2, <4>1 DEF Sound, Copied, Copying
    <3>4. slots[Other(o)][1].tag # Blank =>
            slots[Other(o)][1].tag = skip \/ slots[Other(o)][1].tag < idx + 1
      <4>1. slots[Other(o)][1].tag \in Vars \union {Blank}
        BY <1>0, Basics DEF FlashTypes, Slot
      <4>2. slots[Other(o)][1].tag # Blank =>
              slots[Other(o)][1].tag = skip \/ slots[Other(o)][1].tag < idx
        BY <1>0, <2>1 DEF Sound, Copied, Copying
      <4> QED
        BY <1>v, <1>i, <4>1, <4>2
    <3>5. skip # Blank => TaggedIn(slots[Other(o)], skip) # {}
      BY <1>0, <2>1 DEF Sound, Copied, Copying
    <3>6. /\ \A v \in DOMAIN Stored : v < idx + 1 => TaggedIn(slots'[Other(o)], v) # {}
          /\ skip # Blank => TaggedIn(slots'[Other(o)], skip) # {}
      BY <1>0, <2>2, <3>3, <3>5
    <3> QED
      BY <1>0, <2>1, <3>1, <3>4, <3>6 DEF Copied, Copying, flash
  <2> QED
    BY <2>3, <2>4
<1>5. CASE CopyEnd
  <2>1. /\ pc = "copy" /\ UNCHANGED flash /\ Stored' = Stored /\ old' = old
        /\ ~(idx <= NB_OF_VAR) /\ pc' \in {"ivalid", "xerase"}
    BY <1>5, WhereBothValid, StoredUnmoved DEF CopyEnd, Sound, VarsLeft, locals
  <2>2. \A v \in DOMAIN Stored : v < idx
    BY <1>v, <1>i, <1>c, <2>1 DEF Copying
  <2>3. \A v \in DOMAIN Stored : TaggedIn(slots[Other(o)], v) # {}
    BY <1>0, <2>1, <2>2 DEF Sound, Copied, Copying
  <2>4. \A v \in DOMAIN Stored' : TaggedIn(slots'[Other(o)], v) # {}
    BY <2>1, <2>3 DEF TaggedIn, flash
  <2> QED
    BY <1>0, <2>1, <2>4 DEF Copied, Copying
<1>6. CASE UNCHANGED vars
  <2>1. Stored' = Stored
    BY <1>6, StoredIs, StoredNext DEF vars, flash, locals
  <2>2. UNCHANGED <<status, slots, pc, old, idx, skip, ctx>>
    BY <1>6 DEF vars, flash, locals
  <2> QED
    BY <2>1, <2>2 DEF Sound, Copied, Copying, TaggedIn
<1>7. CASE Next /\ ~EE_Init /\ ~PutData /\ ~PutTag /\ ~CopyNext /\ ~CopyEnd
  <2>1. /\ pc' \notin {"copy", "tag", "xerase", "ivalid"}
        /\ pc' = "put" => ctx' # "copy"
    BY <1>7
    DEF Next, Step, EE_WriteVariable, PutNoPage, PutPageFull, Receive,
        TransferErase, TransferValid, RecoverValid, CleanOld, FormatErase,
        FormatValid, FlashFails, PowerLoss, ReturnStatus
  <2> QED
    BY <2>1 DEF Copied, Copying
<1> QED
  BY <1>1, <1>2, <1>3, <1>4, <1>5, <1>6, <1>7

\* The value read for a copy is the stored one.
LEMMA CopiesStoredKept ==
  ASSUME IInv, IInv', Tagging, Sound, [Next]_vars, errors' = 0
  PROVE  CopiesStored'
<1> USE DEF IInv
<1>1. CASE CopyNext
  <2> SUFFICES ASSUME pc' = "put"
               PROVE  word'.var = idx' /\ idx' \in DOMAIN Stored'
                      /\ word'.data = Stored'[idx']
    BY <1>1 DEF CopiesStored, CopyNext
  <2>1. /\ pc = "copy" /\ UNCHANGED flash /\ Stored' = Stored
        /\ idx <= NB_OF_VAR
    BY <1>1, WhereBothValid, StoredUnmoved DEF CopyNext, Sound, VarsLeft
  <2>2. PICK o \in Pages : /\ o = old /\ status[o] = "VALID"
                           /\ status[Other(o)] = "RECEIVE"
    BY <2>1 DEF Sound, Placed, LocalTypes
  <2>3. ReadPages = {o}
    BY <2>2, PagesFound
  <2>4. PICK i \in Reads(o, idx) :
          /\ ToCopy /\ idx' = idx
          /\ word' = [var |-> idx, data |-> slots[o][i].data]
    BY <1>1, <2>1, <2>3 DEF CopyNext
  <2>5. i \in Index /\ LastOf(TaggedIn(slots[o], idx), i)
    BY <2>4 DEF Reads, Tagged, TaggedIn
  <2>6. idx \in Vars
    BY <2>1, EepromAssumption DEF LocalTypes, Vars
  <2>7. TaggedIn(slots[o], idx) # {} /\ TaggedIn(slots[o], idx) \subseteq Index
    BY <2>5 DEF LastOf, TaggedIn
  <2>8. PICK j \in Index : /\ LastOf(TaggedIn(slots[o], idx), j)
                           /\ ContentOf(slots[o])[idx] = slots[o][j].data
    BY <2>6, <2>7, ContentAt
  <2>9. idx \in DOMAIN ContentOf(slots[o])
    BY <2>6, <2>7, ContentAt
  <2>10. ContentOf(slots[o])[idx] = slots[o][i].data
    BY <2>5, <2>7, <2>8, LastUnique
  <2>11. slots[Other(o)][1].tag # idx
    <3>1. slots[Other(o)][1].tag # Blank =>
            slots[Other(o)][1].tag = skip \/ slots[Other(o)][1].tag < idx
      BY <2>1, <2>2 DEF Sound, Copied, Copying
    <3> QED
      BY <2>4, <2>6, <3>1, BlankIsNoVar, EepromAssumption DEF ToCopy, Vars
  <2>12. Stored = Over(ContentOf(slots[o]), slots[Other(o)][1])
    BY <2>2, StoredWhileCopying
  <2>13. idx \in DOMAIN Stored /\ Stored[idx] = ContentOf(slots[o])[idx]
    BY <2>9, <2>11, <2>12 DEF Over, With
  <2> QED
    BY <2>1, <2>4, <2>10, <2>13
<1>2. CASE PutData
  BY <1>2, PutDataStores DEF PutData, Sound, CopiesStored
<1>3. CASE UNCHANGED vars
  <2>1. Stored' = Stored
    BY <1>3, StoredIs, StoredNext DEF vars, flash, locals
  <2> QED
    BY <1>3, <2>1 DEF vars, locals, Sound, CopiesStored
<1>4. CASE Next /\ ~CopyNext /\ ~PutData
  <2>1. ~(pc' \in {"put", "tag"} /\ ctx' = "copy")
    BY <1>4
    DEF Next, Step, EE_Init, EraseAgain, EE_WriteVariable, PutNoPage, PutPageFull,
        PutTag, Receive, CopyEnd, TransferErase, TransferValid, RecoverValid,
        CleanOld, FormatErase, FormatValid, FlashFails, PowerLoss, ReturnStatus
  <2> QED
    BY <2>1 DEF CopiesStored
<1> QED
  BY <1>1, <1>2, <1>3, <1>4

\* A write that has taken effect stays until its call returns.
LEMMA TookEffectKept ==
  ASSUME IInv, IInv', Tagging, Sound, [Next]_vars, errors' = 0
  PROVE  TookEffect'
<1> USE DEF IInv
<1>1. CASE PutTag
  <2>1. CASE ctx = "write"
    BY <1>1, <2>1 DEF PutTag, ReturnStatus, TookEffect
  <2>2. CASE ctx = "first"
    <3>1. Stored' = With(Stored, req.var, req.data)
      BY <1>1, <2>2, PutTagStores
    <3>2. req' = req
      BY <1>1, <2>2 DEF PutTag, Keep
    <3> QED
      BY <3>1, <3>2 DEF With, TookEffect
  <2>3. CASE ctx = "copy"
    <3>1. Stored' = Stored
      BY <1>1, <2>3, PutTagStores
    <3> QED
      BY <1>1, <2>3, <3>1 DEF PutTag, Keep, Sound, TookEffect, Copying
  <2> QED
    BY <2>1, <2>2, <2>3 DEF LocalTypes
<1>2. CASE EE_Init
  BY <1>2 DEF EE_Init, Keep, Sound, Called, TookEffect
<1>3. CASE PutData
  BY <1>3, PutDataStores DEF PutData, Keep, Sound, TookEffect, Copying
<1>4. CASE CopyNext \/ CopyEnd \/ TransferErase
  <2>1. Stored' = Stored
    BY <1>4, Effect DEF CopyNext, CopyEnd, TransferErase, PutTag, FormatValid,
                        PowerLoss
  <2> QED
    BY <1>4, <2>1
    DEF CopyNext, CopyEnd, TransferErase, Keep, Sound, TookEffect, Copying, locals
<1>5. CASE UNCHANGED vars
  <2>1. Stored' = Stored
    BY <1>5, StoredIs, StoredNext DEF vars, flash, locals
  <2> QED
    BY <1>5, <2>1 DEF vars, locals, Sound, TookEffect, Copying
<1>6. CASE /\ Next /\ ~PutTag /\ ~EE_Init /\ ~PutData
           /\ ~CopyNext /\ ~CopyEnd /\ ~TransferErase
  <2>1. /\ pc' \notin {"copy", "tag", "xerase", "xvalid"}
        /\ pc' = "put" => ctx' # "copy"
    BY <1>6
    DEF Next, Step, EE_WriteVariable, PutNoPage, PutPageFull, Receive,
        TransferValid, RecoverValid, CleanOld, FormatErase, FormatValid,
        FlashFails, PowerLoss, ReturnStatus
  <2> QED
    BY <2>1 DEF TookEffect, Copying
<1> QED
  BY <1>1, <1>2, <1>3, <1>4, <1>5, <1>6

\* A flash error is never forgotten.
LEMMA ErrorsStay == IInv /\ [Next]_vars /\ errors' = 0 => errors = 0
<1>1. ASSUME NEW r, ReturnStatus(r), errors' = 0 PROVE errors = 0
  BY <1>1 DEF ReturnStatus
<1> QED
  BY <1>1
  DEF Next, Step, Keep, EE_Init, EE_WriteVariable, PutData, PutNoPage, PutPageFull,
      PutTag, Receive, CopyNext, CopyEnd, TransferErase, TransferValid,
      RecoverValid, CleanOld, FormatErase, FormatValid, FlashFails, PowerLoss, vars

\* One step of the invariant.
LEMMA SoundKept ==
  IInv /\ IInv' /\ SoundUntilError /\ [Next]_vars => SoundUntilError'
<1> SUFFICES ASSUME IInv, IInv', SoundUntilError, [Next]_vars
             PROVE  SoundUntilError'
  OBVIOUS
<1>1. Ordered' /\ Tagging'
  BY OrderedKept DEF SoundUntilError
<1>2. ASSUME errors' = 0 PROVE Sound'
  <2>1. Tagging /\ Sound
    BY <1>2, ErrorsStay DEF SoundUntilError
  <2>2. Placed' /\ Called'
    BY <1>2, <2>1, PlacedKept, CalledKept DEF Sound
  <2>3. Agreement' /\ Copied' /\ CopiesStored' /\ TookEffect'
    BY <1>2, <2>1, AgreementKept, CopiedKept, CopiesStoredKept, TookEffectKept
  <2> QED
    BY <2>2, <2>3 DEF Sound
<1> QED
  BY <1>1, <1>2 DEF SoundUntilError

\* It holds whatever the power does.
LEMMA SoundHolds == Spec => []SoundUntilError
<1>1. Init => SoundUntilError
  <2> SUFFICES ASSUME Init PROVE SoundUntilError
    OBVIOUS
  <2>1. Ordered
    BY DEF Init, Ordered, EmptyPage
  <2>2. Tagging /\ Placed /\ Called /\ Copied /\ CopiesStored /\ TookEffect
    BY DEF Init, Tagging, Placed, Called, Copied, CopiesStored, TookEffect, Copying
  <2>3. Agreement
    BY DEF Init, Agreement
  <2> QED
    BY <2>1, <2>2, <2>3 DEF SoundUntilError, Sound
<1> QED
  BY <1>1, SoundKept, Invariance, PTL DEF Spec

\* As long as no flash operation fails and the pages are never both valid no
\* variable is lost and none changes but by its own write, in every step, for
\* every page size and however often and wherever the power fails
\* (eeprom.c:144).
THEOREM LossByTwoValidPages == Spec => LossNeedsTwoValidPages
<1>1. IInv /\ IInv' /\ SoundUntilError /\ SoundUntilError' /\ [Next]_vars =>
        [\/ \A v \in DOMAIN Stored :
              /\ v \in DOMAIN Stored'
              /\ Stored'[v] # Stored[v] => v = req.var /\ Stored'[v] = req.data
         \/ \A p \in Pages : status'[p] = "VALID"
         \/ errors' = 1]_vars
  <2> SUFFICES ASSUME IInv, IInv', SoundUntilError, [Next]_vars, errors' # 1
               PROVE  \/ \A v \in DOMAIN Stored :
                           /\ v \in DOMAIN Stored'
                           /\ Stored'[v] # Stored[v]
                                => v = req.var /\ Stored'[v] = req.data
                      \/ \A p \in Pages : status'[p] = "VALID"
    OBVIOUS
  <2>1. errors' = 0
    BY DEF IInv, LocalTypes
  <2>2. Tagging /\ Sound
    BY <2>1, ErrorsStay DEF SoundUntilError
  <2>3. CASE Stored' = Stored
    BY <2>3
  <2>4. CASE Stored' = With(Stored, req.var, req.data)
    BY <2>4 DEF With
  <2>5. CASE BothValid'
    BY <2>5 DEF BothValid
  <2> QED
    BY <2>1, <2>2, <2>3, <2>4, <2>5, Effect
<1> QED
  BY <1>1, Invariance, SoundHolds, PTL DEF Spec, LossNeedsTwoValidPages

-----------------------------------------------------------------------------
(* One power loss before EE_Init completes, and no flash errors.            *)

\* The condition under which the emulation keeps its promise: a recovery adds
\* a copy of the other variables to a complete set of them.
OneLoss ==
  /\ MaxCrashes <= 1
  /\ FlashMayFail = FALSE
  /\ Slots >= 2 * NB_OF_VAR - 1

FilledTo(pg, n) == \A j \in Index : j > n => pg[j] = EmptySlot

\* Slots that a copy loop has used: those it found, and one for each variable
\* below idx but the one it leaves out.
Found == IF req = NoRequest /\ skip # Blank THEN NB_OF_VAR ELSE 1
Used == Found + (IF skip < idx THEN idx - 2 ELSE idx - 1)

\* A second power loss is not possible while a recovery is under way, and no
\* page is left behind receiving.
Recovers ==
  /\ errors = 0 /\ crashes <= 1
  /\ pc = "idle" \/ req # NoRequest => crashes = 0
  /\ pc = "off" /\ crashes = 0 => \A p \in Pages : status[p] = "ERASED"
  /\ pc = "idle" \/ (pc \in {"put", "receive"} /\ ctx = "write")
       => \A p \in Pages : status[p] # "RECEIVE"
  /\ (Copying /\ req = NoRequest) \/ pc = "ivalid" => crashes = 1
  /\ pc = "clean" => status[old] = "ERASED" \/ crashes = 1
  /\ pc = "off" => ~BothValid
  /\ pc = "ferase" => \A p \in Pages : status[p] = "ERASED"
  /\ pc = "fvalid" => status[1] = "ERASED"

\* A receiving page has room for all that is copied to it.
Room ==
  /\ pc = "off" => \A p \in Pages :
       status[p] = "VALID" /\ status[Other(p)] = "RECEIVE"
         => FilledTo(slots[Other(p)], IF slots[Other(p)][1].tag = Blank
                               THEN 1 ELSE NB_OF_VAR)
  /\ Copying => FilledTo(slots[Other(old)], IF pc = "tag" THEN Used + 1 ELSE Used)
  /\ Copying /\ req # NoRequest =>
       skip # Blank /\ slots[Other(old)][1].tag # Blank
  /\ pc \in {"put", "tag"} /\ ctx = "copy" => idx # skip
  /\ pc = "tag" /\ ctx = "copy" => at.slot <= Used + 1
  /\ pc = "xerase" /\ status[old] = "VALID" =>
       /\ slots[Other(old)][1].tag # Blank
       /\ FilledTo(slots[Other(old)], NB_OF_VAR)

\* Room in numbers: a round of the loop uses one slot at most, a transfer fills
\* as many slots as there are variables, and a recovery stays on the page.
LEMMA UsedBounds ==
  ASSUME IInv
  PROVE  /\ Used \in Nat
         /\ idx = 1 => Used = Found
         /\ skip # Blank /\ req # NoRequest => Used <= NB_OF_VAR
         /\ idx <= NB_OF_VAR /\ idx # skip /\ skip # Blank /\ req # NoRequest
              => Used + 1 <= NB_OF_VAR
         /\ OneLoss /\ idx <= NB_OF_VAR /\ idx # skip => Used + 1 <= Slots
<1>1. /\ NB_OF_VAR \in Nat /\ NB_OF_VAR >= 1 /\ Slots \in Nat /\ Slots > NB_OF_VAR
      /\ idx \in Nat /\ idx >= 1 /\ idx <= NB_OF_VAR + 1
      /\ NB_OF_VAR < Blank /\ Blank \in Nat
  <2>1. NB_OF_VAR \in Nat /\ NB_OF_VAR >= 1 /\ Slots \in Nat /\ Slots > NB_OF_VAR
    BY EepromAssumption
  <2>2. NB_OF_VAR < Blank /\ Blank \in Nat
    BY EepromAssumption DEF Blank
  <2>3. idx \in 1..(NB_OF_VAR + 1)
    BY DEF IInv, LocalTypes
  <2> QED
    BY <2>1, <2>2, <2>3
<1>2. skip = Blank \/ (skip \in Nat /\ skip >= 1 /\ skip <= NB_OF_VAR)
  BY <1>1 DEF IInv, LocalTypes, Vars
<1> HIDE DEF Blank
<1>3. CASE skip = Blank
  <2>1. Found = 1 /\ Used = idx
    BY <1>1, <1>3 DEF Found, Used
  <2> QED
    BY <1>1, <1>3, <2>1
<1>4. CASE skip # Blank
  <2>1. Found = IF req = NoRequest THEN NB_OF_VAR ELSE 1
    BY <1>4 DEF Found
  <2>2. Used = Found + (IF skip < idx THEN idx - 2 ELSE idx - 1)
    BY DEF Used
  <2>3. skip \in Nat /\ skip >= 1 /\ skip <= NB_OF_VAR
    BY <1>2, <1>4
  <2> HIDE DEF Found, Used
  <2>4. Found \in Nat /\ Found >= 1 /\ Found <= NB_OF_VAR
    BY <1>1, <2>1
  <2>5. idx = 1 => Used = Found
    BY <1>1, <2>2, <2>3, <2>4
  <2>6. Used \in Nat
    BY <1>1, <2>2, <2>3, <2>4
  <2>7. req # NoRequest => Used <= NB_OF_VAR
    BY <1>1, <2>1, <2>2, <2>3
  <2>8. idx <= NB_OF_VAR /\ idx # skip => Used <= Found + NB_OF_VAR - 2
    BY <1>1, <2>2, <2>3, <2>4
  <2>9. idx <= NB_OF_VAR /\ idx # skip /\ req # NoRequest => Used + 1 <= NB_OF_VAR
    BY <1>1, <2>1, <2>6, <2>8
  <2>10. OneLoss /\ idx <= NB_OF_VAR /\ idx # skip => Used + 1 <= Slots
    BY <1>1, <2>4, <2>6, <2>8 DEF OneLoss
  <2> QED
    BY <2>5, <2>6, <2>7, <2>9, <2>10
<1> QED
  BY <1>3, <1>4

\* A round of the loop uses one more slot, unless it leaves its variable out.
LEMMA UsedGrows ==
  ASSUME IInv, UNCHANGED <<skip, req>>, idx' = idx + 1
  PROVE  /\ Used' \in Nat /\ Used <= Used'
         /\ idx # skip => Used' = Used + 1
<1>1. /\ idx \in Nat /\ idx >= 1 /\ Blank \in Nat /\ NB_OF_VAR \in Nat
      /\ idx <= NB_OF_VAR + 1
  <2>1. NB_OF_VAR \in Nat /\ idx \in 1..(NB_OF_VAR + 1)
    BY EepromAssumption DEF IInv, LocalTypes
  <2>2. Blank \in Nat
    BY DEF Blank
  <2> QED
    BY <2>1, <2>2
<1>2. skip \in Nat
  BY <1>1 DEF IInv, LocalTypes, Vars
<1>3. Found' = Found /\ Found \in Nat
  BY <1>1 DEF Found
<1>4. /\ Used = Found + (IF skip < idx THEN idx - 2 ELSE idx - 1)
      /\ Used' = Found + (IF skip < idx + 1 THEN idx - 1 ELSE idx)
  BY <1>1, <1>3 DEF Used
<1>5. Used \in Nat
  BY UsedBounds
<1> HIDE DEF Used, Found, Blank
<1> QED
  BY <1>1, <1>2, <1>3, <1>4, <1>5

\* FilledTo is monotonic.
LEMMA FilledMore ==
  ASSUME NEW pg, NEW m \in Nat, NEW n \in Nat, FilledTo(pg, m), m <= n
  PROVE  FilledTo(pg, n)
BY EepromAssumption DEF FilledTo, Index

\* The copy loops never meet a full page, and nobody one that is receiving.
LEMMA NeverFull ==
  ASSUME OneLoss, IInv, Ordered, Sound, Recovers, Room, pc = "put"
  PROVE  /\ WritePages # {}
         /\ ctx # "write" => \A p \in WritePages : Free(p) # {}
<1> USE DEF IInv
<1>1. CASE ctx = "write"
  BY <1>1, PagesFound DEF Sound, Placed, Rests
<1>2. CASE ctx # "write"
  <2>1. PICK o \in Pages : /\ o = old /\ status[o] = "VALID"
                           /\ status[Other(o)] = "RECEIVE"
    BY <1>2 DEF Sound, Placed, LocalTypes
  <2>2. WritePages = {Other(o)}
    BY <2>1, PagesFound
  <2>3. Free(Other(o)) # {}
    <3>1. CASE ctx = "first"
      BY <2>1, <3>1, Basics DEF Sound, Placed, Free, EmptyPage
    <3>2. CASE ctx = "copy"
      <4>1. FilledTo(slots[Other(o)], Used) /\ idx # skip /\ idx <= NB_OF_VAR
        BY <2>1, <3>2 DEF Room, Copying, Located
      <4>2. Used \in Nat /\ Used + 1 <= Slots
        BY <4>1, UsedBounds
      <4>3. Used + 1 \in Index
        BY <4>2, EepromAssumption DEF Index
      <4>4. slots[Other(o)][Used + 1] = EmptySlot
        BY <4>1, <4>2, <4>3 DEF FilledTo
      <4> QED
        BY <4>3, <4>4 DEF Free
    <3> QED
      BY <1>2, <3>1, <3>2 DEF LocalTypes
  <2> QED
    BY <1>2, <2>2, <2>3
<1> QED
  BY <1>1, <1>2

\* One step of Recovers: nothing stops a transfer or a recovery half-way.
LEMMA RecoversKept ==
  ASSUME OneLoss, IInv, IInv', SoundUntilError, Recovers, Room, [Next]_vars
  PROVE  Recovers'
<1> USE DEF IInv
<1>s. Ordered /\ Tagging /\ Sound
  BY DEF SoundUntilError, Recovers
<1>0. /\ old \in Pages /\ Other(old) \in Pages /\ Other(old) # old
      /\ Other(Other(old)) = old
      /\ \A p \in Pages : p = old \/ p = Other(old)
  BY PagePairs DEF LocalTypes
<1>r. ASSUME NEW r \in {"ok", "error"}, ReturnStatus(r),
             \A p \in Pages : status'[p] # "RECEIVE"
      PROVE  Recovers'
  BY <1>r DEF ReturnStatus, Recovers, Copying
<1>1. CASE EE_Init
  <2>1. crashes' = crashes /\ errors' = errors /\ req' = req /\ UNCHANGED flash
        /\ pc = "off" /\ req = NoRequest
    BY <1>1, <1>s DEF EE_Init, Keep, Sound, Called
  <2>2. crashes \in {0, 1}
    BY EepromAssumption DEF Recovers, LocalTypes
  <2>3. CASE pc' = "clean"
    BY <1>1, <2>1, <2>3 DEF EE_Init, EraseAgain, Recovers, Copying, flash
  <2>4. CASE pc' = "xerase"
    BY <1>1, <2>1, <2>4 DEF Recovers, Copying
  <2>5. CASE pc' = "copy"
    BY <1>1, <2>1, <2>2, <2>5 DEF EE_Init, EraseAgain, Recovers, Copying
  <2>6. CASE pc' = "ferase"
    <3>1. status[0] = status[1]
      BY <1>1, <2>6 DEF EE_Init, EraseAgain, FormatCase
    <3>2. \A p \in Pages : status[p] = "ERASED"
      BY <2>1, <3>1 DEF Recovers, BothValid, NotBothReceive, FlashTypes, Status, Pages
    <3> QED
      BY <2>1, <2>6, <3>2 DEF Recovers, Copying, flash
  <2> QED
    BY <1>1, <2>3, <2>4, <2>5, <2>6 DEF EE_Init, EraseAgain
<1>2. CASE EE_WriteVariable
  BY <1>2 DEF EE_WriteVariable, Recovers, Copying, flash
<1>3. CASE PutData
  BY <1>3 DEF PutData, Keep, Recovers, Copying
<1>4. CASE PutNoPage
  BY <1>4, <1>s, NeverFull DEF PutNoPage
<1>5. CASE PutPageFull
  <2>1. ctx = "write"
    BY <1>5, <1>s, NeverFull DEF PutPageFull
  <2> QED
    BY <1>5, <2>1 DEF PutPageFull, Keep, Recovers, Copying, flash, locals
<1>6. CASE PutTag
  <2>1. UNCHANGED status /\ pc = "tag"
    BY <1>6 DEF PutTag
  <2>2. CASE ctx = "write"
    <3>1. at.page \in Pages
      BY DEF LocalTypes
    <3>2. \A p \in Pages : status'[p] # "RECEIVE"
      BY <1>s, <2>1, <2>2, <3>1, PagePairs DEF Sound, Placed
    <3> QED
      BY <1>6, <1>r, <2>2, <3>2 DEF PutTag
  <2>3. CASE ctx # "write"
    BY <1>6, <1>s, <2>1, <2>3
    DEF PutTag, Keep, Recovers, Copying, Sound, Called, LocalTypes
  <2> QED
    BY <2>2, <2>3
<1>7. CASE Receive
  <2>1. ctx = "write" /\ pc = "receive"
    BY <1>7 DEF Receive, Located
  <2>2. PICK q \in Pages : Rests(q)
    BY <1>s, <2>1 DEF Sound, Placed
  <2>3. ReadPages = {q}
    BY <2>2, PagesFound DEF Rests
  <2>4. Programmable(Other(q), "RECEIVE")
    BY <2>1, <2>2, PagePairs DEF Recovers, Rests, Programmable
  <2>5. ctx' = "first" /\ pc' = "put" /\ Keep
    BY <1>7, <2>3, <2>4 DEF Receive
  <2>6. req # NoRequest
    BY <1>s, <2>1 DEF Sound, Called
  <2> QED
    BY <2>5, <2>6 DEF Keep, Recovers, Copying
<1>8. CASE CopyNext
  BY <1>8 DEF CopyNext, Keep, Recovers, Copying, flash
<1>9. CASE CopyEnd
  BY <1>9 DEF CopyEnd, Keep, Recovers, Copying, flash, locals, Recovering
<1>10. CASE TransferErase
  BY <1>10 DEF TransferErase, Keep, Recovers, Copying
<1>11. CASE TransferValid
  <2>1. \A p \in Pages : status'[p] # "RECEIVE"
    BY <1>0, <1>11, <1>s DEF TransferValid, MarkPage, FlashTypes, Sound, Placed
  <2> QED
    BY <1>11, <1>r, <2>1 DEF TransferValid
<1>12. CASE RecoverValid
  BY <1>12 DEF RecoverValid, Keep, Recovers, Copying
<1>13. CASE CleanOld
  <2>1. \A p \in Pages : status'[p] # "RECEIVE"
    BY <1>0, <1>13 DEF CleanOld, FLASH_ErasePage, FlashTypes, Located
  <2> QED
    BY <1>13, <1>r, <2>1 DEF CleanOld
<1>14. CASE FormatErase
  BY <1>14 DEF FormatErase, FLASH_ErasePage, FlashTypes, Keep, Recovers, Copying, Pages
<1>15. CASE FormatValid
  BY <1>15 DEF FormatValid, MarkPage, FlashTypes, Keep, Recovers, Copying, Pages
<1>16. CASE FlashFails
  BY <1>16 DEF FlashFails, OneLoss
<1>17. CASE PowerLoss
  <2>1. crashes = 0 /\ crashes' = 1 /\ errors' = 0 /\ req' = NoRequest /\ pc' = "off"
    BY <1>17, EepromAssumption DEF PowerLoss, Recovers, OneLoss, LocalTypes
  <2>2. ~BothValid'
    <3>1. SUFFICES ASSUME BothValid' PROVE FALSE
      OBVIOUS
    <3>2. Erasing \in Pages
      BY DEF Erasing, LocalTypes, Pages
    <3>3. UNCHANGED status
      BY <1>17, <3>1, <3>2 DEF PowerLoss, flash, FlashTypes, BothValid
    <3>4. BothValid
      BY <3>1, <3>3 DEF BothValid
    <3>5. pc \in {"clean", "ferase"}
      BY <1>17, <1>s, <3>4, WhereBothValid DEF PowerLoss, Sound
    <3> QED
      BY <1>0, <2>1, <3>4, <3>5 DEF Recovers, BothValid
  <2> QED
    BY <2>1, <2>2 DEF Recovers, Copying
<1>18. CASE UNCHANGED vars
  BY <1>18 DEF vars, flash, locals, Recovers, Copying, BothValid
<1> QED
  BY <1>1, <1>2, <1>3, <1>4, <1>5, <1>6, <1>7, <1>8, <1>9, <1>10, <1>11, <1>12,
     <1>13, <1>14, <1>15, <1>16, <1>17, <1>18 DEF Next, Step

\* The power loss finds at most one slot per variable in use.
LEMMA RoomAfterLoss ==
  ASSUME OneLoss, IInv, IInv', SoundUntilError, Recovers, Room, PowerLoss,
         NEW p \in Pages, status'[p] = "VALID", status'[Other(p)] = "RECEIVE"
  PROVE  FilledTo(slots[Other(p)], IF slots[Other(p)][1].tag = Blank
                            THEN 1 ELSE NB_OF_VAR)
<1> USE DEF IInv
<1>s. Ordered /\ Tagging /\ Sound
  BY DEF SoundUntilError, Recovers
<1>0. crashes = 0 /\ pc # "off"
  BY EepromAssumption DEF PowerLoss, Recovers, OneLoss, LocalTypes
<1>1. UNCHANGED flash
  <2>1. ~PutData /\ ~PutTag /\ ~Receive /\ errors' = 0
    BY DEF PowerLoss, PutData, PutTag, Receive, ReturnStatus, Recovers
  <2> QED
    BY <1>s, <2>1, ReceivingSteps DEF Sound, Next
<1>2. status[p] = "VALID" /\ status[Other(p)] = "RECEIVE"
  BY <1>1 DEF flash
<1>3. PICK o \in Pages : o = old /\ (p = o \/ p = Other(o)) /\ Other(Other(o)) = o
  BY PagePairs DEF LocalTypes
<1>4. CASE pc \in {"put", "tag"} /\ ctx = "first"
  <2>1. Other(p) = Other(o)
    BY <1>2, <1>3, <1>4, <1>s DEF Sound, Placed
  <2>2. CASE pc = "put"
    <3>1. slots[Other(p)] = EmptyPage
      BY <1>3, <1>4, <1>s, <2>1, <2>2 DEF Sound, Placed
    <3>2. slots[Other(p)][1].tag = Blank
      BY <3>1, Basics DEF EmptyPage, EmptySlot
    <3> QED
      BY <3>1, <3>2 DEF FilledTo, EmptyPage
  <2>3. CASE pc = "tag"
    <3>1. at.page = Other(p) /\ at.slot = 1
      BY <1>3, <1>4, <1>s, <2>1, <2>3 DEF Sound, Placed
    <3> QED
      BY <1>s, <2>3, <3>1 DEF Tagging, FilledTo
  <2> QED
    BY <1>4, <2>2, <2>3
<1>5. CASE Copying
  <2>1. Other(p) = Other(o)
    BY <1>2, <1>3, <1>5, <1>s DEF Sound, Placed, Copying
  <2>2. req # NoRequest
    BY <1>0, <1>5 DEF Recovers
  <2>3. skip # Blank /\ slots[Other(p)][1].tag # Blank
    BY <1>3, <1>5, <2>1, <2>2 DEF Room
  <2>4. FilledTo(slots[Other(p)], IF pc = "tag" THEN Used + 1 ELSE Used)
    BY <1>3, <1>5, <2>1 DEF Room
  <2>5. Used \in Nat /\ Used <= NB_OF_VAR
    BY <2>2, <2>3, UsedBounds
  <2>6. pc = "tag" => Used + 1 <= NB_OF_VAR
    BY <1>5, <2>2, <2>3, UsedBounds DEF Copying, Room, Located
  <2>7. FilledTo(slots[Other(p)], NB_OF_VAR)
    BY <2>4, <2>5, <2>6, FilledMore, EepromAssumption
  <2> QED
    BY <2>3, <2>7
<1>6. CASE pc = "xerase"
  <2>1. Other(p) = Other(o) /\ status[o] = "VALID"
    BY <1>2, <1>3, <1>6 DEF Located
  <2> QED
    BY <1>3, <1>6, <2>1 DEF Room
<1>7. CASE /\ pc \notin {"xerase", "off"} /\ ~Copying
           /\ ~(pc \in {"put", "tag"} /\ ctx = "first")
  <2>1. CASE pc = "idle" \/ (pc \in {"put", "receive"} /\ ctx = "write")
    BY <1>2, <2>1, PagePairs DEF Recovers
  <2>2. CASE pc = "tag" /\ ctx = "write"
    <3>1. at.page \in Pages
      BY DEF LocalTypes
    <3> QED
      BY <1>2, <1>s, <2>2, <3>1, PagePairs DEF Sound, Placed
  <2>3. CASE pc \in {"xvalid", "ivalid", "clean"}
    BY <1>0, <1>2, <1>3, <1>s, <2>3, PagePairs DEF Recovers, Sound, Placed, Located
  <2>4. CASE pc \in {"ferase", "fvalid"}
    BY <1>2, <1>s, <2>4 DEF Recovers, Sound, Placed, Pages, Other
  <2> QED
    BY <1>7, <2>1, <2>2, <2>3, <2>4 DEF LocalTypes, FlashOps, Copying, Located
<1> QED
  BY <1>0, <1>4, <1>5, <1>6, <1>7

\* One step of Room.
LEMMA RoomKept ==
  ASSUME OneLoss, IInv, IInv', SoundUntilError, Recovers, Room, [Next]_vars
  PROVE  Room'
<1> USE DEF IInv
<1>s. Ordered /\ Tagging /\ Sound
  BY DEF SoundUntilError, Recovers
<1>0. PICK o \in Pages : o = old /\ Other(o) \in Pages /\ Other(Other(o)) = o
  BY PagePairs DEF LocalTypes
<1>n. NB_OF_VAR \in Nat /\ \A j \in Index : j \in Nat
  BY EepromAssumption DEF Index
<1>1. CASE EE_Init
  <2>1. UNCHANGED flash /\ pc = "off" /\ req = NoRequest /\ req' = req
    BY <1>1, <1>s DEF EE_Init, Keep, Sound, Called
  <2>2. CASE pc' = "copy"
    <3>1. PICK p \in Pages : /\ status[p] = "RECEIVE" /\ status[Other(p)] = "VALID"
                             /\ old' = Other(p) /\ skip' = slots[p][1].tag /\ idx' = 1
      BY <1>1, <2>2 DEF EE_Init, EraseAgain
    <3>2. Other(p) \in Pages /\ Other(Other(p)) = p
      BY PagePairs
    <3>3. FilledTo(slots[p], IF slots[p][1].tag = Blank THEN 1 ELSE NB_OF_VAR)
      BY <2>1, <3>1, <3>2 DEF Room
    <3>4. skip' \in Vars \union {Blank} /\ Blank \in Nat
      BY DEF LocalTypes, Blank
    <3>5. ~(skip' < 1)
      BY <3>4, EepromAssumption DEF Vars, Blank
    <3>6. Used' = IF slots[p][1].tag = Blank THEN 1 ELSE NB_OF_VAR
      BY <1>n, <2>1, <3>1, <3>5 DEF Used, Found
    <3> QED
      BY <2>1, <2>2, <3>1, <3>2, <3>3, <3>6 DEF Room, flash, Copying
  <2>3. CASE pc' # "copy"
    BY <1>1, <2>1, <2>3 DEF EE_Init, EraseAgain, Room, Copying, flash
  <2> QED
    BY <2>2, <2>3
<1>2. CASE PutData
  <2>1. PICK q \in Pages, i \in Index :
          /\ q \in WritePages /\ FirstOf(Free(q), i)
          /\ slots[q][i] = EmptySlot
          /\ at' = [page |-> q, slot |-> i]
          /\ SlotBecomes(q, i, [tag |-> Blank, data |-> word.data])
    BY <1>2, PutDataSlot
  <2>2. /\ pc = "put" /\ pc' = "tag"
        /\ UNCHANGED <<status, old, idx, skip, ctx, req>>
    BY <1>2 DEF PutData, Keep
  <2>3. CASE ctx # "copy"
    BY <2>2, <2>3 DEF Room, Copying
  <2>4. CASE ctx = "copy"
    <3>1. q = Other(o)
      BY <1>0, <1>2, <1>s, <2>1, <2>4, PutDataPlace DEF Sound
    <3>2. /\ FilledTo(slots[q], Used) /\ idx # skip /\ idx <= NB_OF_VAR
          /\ req # NoRequest => skip # Blank /\ slots[q][1].tag # Blank
      BY <1>0, <2>2, <2>4, <3>1 DEF Room, Copying, Located
    <3>3. Used \in Nat /\ Used + 1 <= Slots /\ Used' = Used
      BY <2>2, <3>2, UsedBounds DEF Used, Found
    <3>4. Used + 1 \in Index
      BY <3>3, EepromAssumption DEF Index
    <3>5. Used + 1 \in Free(q)
      BY <3>2, <3>3, <3>4 DEF FilledTo, Free
    <3>6. i <= Used + 1
      BY <2>1, <3>5 DEF FirstOf
    <3>7. FilledTo(slots'[q], Used + 1)
      <4> SUFFICES ASSUME NEW j \in Index, j > Used + 1
                   PROVE  slots'[q][j] = EmptySlot
        BY DEF FilledTo
      <4>1. j # i /\ j > Used
        BY <1>n, <3>3, <3>6
      <4> QED
        BY <2>1, <3>2, <4>1 DEF SlotBecomes, FilledTo
    <3>8. slots'[q][1].tag = slots[q][1].tag
      BY <2>1, Basics DEF SlotBecomes, EmptySlot
    <3> QED
      BY <1>0, <2>1, <2>2, <2>4, <3>1, <3>2, <3>3, <3>6, <3>7, <3>8
      DEF Room, Copying
  <2> QED
    BY <2>3, <2>4
<1>3. CASE PutTag
  <2>1. PICK q \in Pages, j \in Index : q = at.page /\ j = at.slot
    BY <1>3, <1>s, PutTagSlot
  <2>2. /\ SlotBecomes(q, j, [tag |-> word.var, data |-> word.data])
        /\ word.var \in Vars /\ pc = "tag"
        /\ \A k \in Index : k > j => slots[q][k] = EmptySlot
    BY <1>3, <1>s, <2>1, PutTagSlot DEF Tagging, PutTag
  <2>3. CASE ctx = "write"
    BY <1>3, <2>3 DEF PutTag, ReturnStatus, Room, Copying
  <2>4. CASE ctx = "first"
    <3>1. /\ q = Other(o) /\ j = 1 /\ old' = o /\ req' = req
          /\ idx' = 1 /\ skip' = word.var /\ pc' = "copy"
      BY <1>0, <1>3, <1>s, <2>1, <2>2, <2>4 DEF Sound, Placed, PutTag, Keep
    <3>2. req' # NoRequest
      BY <1>s, <2>2, <2>4, <3>1 DEF Sound, Called
    <3>3. Used' = 1
      <4>1. ~(skip' < 1)
        BY <2>2, <3>1, EepromAssumption DEF Vars
      <4> QED
        BY <3>1, <3>2, <4>1 DEF Used, Found
    <3>4. FilledTo(slots'[q], 1)
      BY <1>n, <2>2, <3>1 DEF FilledTo, SlotBecomes
    <3>5. slots'[q][1].tag # Blank /\ skip' # Blank
      BY <2>2, <3>1, BlankIsNoVar DEF SlotBecomes
    <3> QED
      BY <1>0, <3>1, <3>3, <3>4, <3>5 DEF Room, Copying
  <2>5. CASE ctx = "copy"
    <3>1. /\ q = Other(o) /\ old' = o /\ idx' = idx + 1 /\ UNCHANGED <<skip, req>>
          /\ pc' = "copy"
      BY <1>0, <1>3, <1>s, <2>1, <2>2, <2>5 DEF Sound, Placed, PutTag, Keep, NextVar
    <3>2. /\ idx # skip /\ j <= Used + 1
          /\ FilledTo(slots[q], Used + 1)
          /\ req # NoRequest => skip # Blank /\ slots[q][1].tag # Blank
      BY <1>0, <2>1, <2>2, <2>5, <3>1 DEF Room, Copying
    <3>3. Used' = Used + 1 /\ Used \in Nat
      BY <3>1, <3>2, UsedGrows, UsedBounds
    <3>4. FilledTo(slots'[q], Used + 1)
      BY <1>n, <2>2, <3>2, <3>3 DEF FilledTo, SlotBecomes
    <3>5. slots[q][1].tag # Blank => slots'[q][1].tag # Blank
      BY <2>2, Basics, BlankIsNoVar DEF SlotBecomes
    <3> QED
      BY <1>0, <3>1, <3>2, <3>3, <3>4, <3>5 DEF Room, Copying
  <2> QED
    BY <2>3, <2>4, <2>5 DEF LocalTypes
<1>4. CASE CopyNext
  <2>1. pc = "copy" /\ UNCHANGED flash /\ UNCHANGED <<old, skip, req>>
    BY <1>4 DEF CopyNext, Keep
  <2>2. /\ FilledTo(slots[Other(o)], Used) /\ Used \in Nat
        /\ req # NoRequest => skip # Blank /\ slots[Other(o)][1].tag # Blank
    BY <1>0, <2>1, UsedBounds DEF Room, Copying
  <2>3. CASE pc' = "put"
    <3>1. idx' = idx /\ idx # skip /\ Used' = Used
      BY <1>4, <2>1, <2>3 DEF CopyNext, ToCopy, Used, Found
    <3> QED
      BY <1>0, <2>1, <2>2, <2>3, <3>1 DEF Room, Copying, flash
  <2>4. CASE pc' # "put"
    <3>1. idx' = idx + 1 /\ pc' = "copy"
      BY <1>4, <2>1, <2>4 DEF CopyNext, NextVar
    <3>2. Used' \in Nat /\ Used <= Used'
      BY <2>1, <3>1, UsedGrows
    <3>3. FilledTo(slots[Other(o)], Used')
      BY <2>2, <3>2, FilledMore
    <3> QED
      BY <1>0, <2>1, <2>2, <3>1, <3>3 DEF Room, Copying, flash
  <2> QED
    BY <2>3, <2>4
<1>5. CASE CopyEnd
  <2>1. /\ pc = "copy" /\ UNCHANGED flash /\ old' = old
        /\ pc' = IF req = NoRequest THEN "ivalid" ELSE "xerase"
    BY <1>5 DEF CopyEnd, Recovering, locals
  <2>2. CASE req = NoRequest
    BY <2>1, <2>2 DEF Room, Copying
  <2>3. CASE req # NoRequest
    <3>1. /\ FilledTo(slots[Other(o)], Used)
          /\ skip # Blank /\ slots[Other(o)][1].tag # Blank
      BY <1>0, <2>1, <2>3 DEF Room, Copying
    <3>2. Used \in Nat /\ Used <= NB_OF_VAR
      BY <2>3, <3>1, UsedBounds
    <3>3. FilledTo(slots[Other(o)], NB_OF_VAR)
      BY <1>n, <3>1, <3>2, FilledMore
    <3> QED
      BY <1>0, <2>1, <2>3, <3>1, <3>3 DEF Room, Copying, flash
  <2> QED
    BY <2>2, <2>3
<1>6. CASE PowerLoss
  <2>1. pc' = "off" /\ UNCHANGED slots
    BY <1>6 DEF PowerLoss, flash
  <2> QED
    BY <1>6, <2>1, RoomAfterLoss DEF Room, Copying
<1>7. CASE UNCHANGED vars
  <2>1. UNCHANGED <<status, slots, pc, old, idx, skip, ctx, at, req>>
    BY <1>7 DEF vars, flash, locals
  <2> QED
    BY <2>1 DEF Room, Copying, Used, Found
<1>8. CASE Next /\ ~EE_Init /\ ~PutData /\ ~PutTag /\ ~CopyNext /\ ~CopyEnd
           /\ ~PowerLoss
  <2>1. /\ pc' \notin {"off", "copy", "tag", "xerase"}
        /\ pc' = "put" => ctx' # "copy"
    BY <1>8
    DEF Next, Step, EE_WriteVariable, PutNoPage, PutPageFull, Receive,
        TransferErase, TransferValid, RecoverValid, CleanOld, FormatErase,
        FormatValid, FlashFails, ReturnStatus
  <2> QED
    BY <2>1 DEF Room, Copying
<1> QED
  BY <1>1, <1>2, <1>3, <1>4, <1>5, <1>6, <1>7, <1>8

\* Under OneLoss both hold.
LEMMA OneLossHolds ==
  ASSUME OneLoss
  PROVE  Spec => [](Recovers /\ Room)
<1>1. Init => Recovers /\ Room
  BY DEF Init, Recovers, Room, Copying, BothValid, Pages
<1>2. /\ IInv /\ IInv' /\ SoundUntilError /\ Recovers /\ Room /\ [Next]_vars
      => Recovers' /\ Room'
  BY RecoversKept, RoomKept
<1> QED
  BY <1>1, <1>2, Invariance, SoundHolds, PTL DEF Spec

\* Between calls one page is valid and the other one blank, if the power fails
\* at most once before EE_Init completes, no flash operation fails, and a page
\* has room for one less than two copies of all variables (eeprom.c:54).
THEOREM KnownGood ==
  ASSUME OneLoss
  PROVE  Spec => []KnownGoodState
<1>1. IInv /\ SoundUntilError /\ Recovers => KnownGoodState
  <2> SUFFICES ASSUME IInv, SoundUntilError, Recovers, pc = "idle"
               PROVE  \E p \in Pages : /\ status[p] = "VALID"
                                       /\ status[Other(p)] = "ERASED"
                                       /\ slots[Other(p)] = EmptyPage
    BY DEF KnownGoodState
  <2>1. PICK p \in Pages : Rests(p)
    BY DEF SoundUntilError, Recovers, Sound, Placed
  <2>2. status[Other(p)] # "RECEIVE"
    BY PagePairs DEF Recovers
  <2> QED
    BY <2>1, <2>2 DEF Rests
<1> QED
  BY <1>1, Invariance, SoundHolds, OneLossHolds, PTL

\* A write that has taken effect leaves the store as it is.
LEMMA AlreadyWritten ==
  ASSUME IInv, Sound, req # NoRequest, pc = "xvalid"
  PROVE  Stored = Store!Written(req)
<1> USE DEF IInv
<1>1. PICK o \in Pages : o = old /\ Other(o) \in Pages /\ Other(Other(o)) = o
  BY PagePairs DEF LocalTypes
<1>2. status[Other(o)] # "ERASED" /\ status[o] = "ERASED"
  BY <1>1 DEF Sound, Placed, Located
<1>3. Stored = ContentOf(slots[Other(o)])
  BY <1>1, <1>2, StoredNow
<1>4. Stored = [v \in DOMAIN Stored |-> Stored[v]]
  BY <1>3, ContentDomain
<1>5. req.var \in DOMAIN Stored /\ Stored[req.var] = req.data
  BY DEF Sound, TookEffect
<1>6. With(Stored, req.var, req.data) = Stored
  BY <1>4, <1>5, WithSame
<1> QED
  BY <1>6 DEF With, Store!Written

\* Under OneLoss a step of the emulation changes what is stored only with the
\* tag of a write under way.
LEMMA EffectOneLoss ==
  ASSUME OneLoss, IInv, IInv', SoundUntilError, Recovers, Recovers', [Next]_vars
  PROVE  \/ Stored' = Stored
         \/ PutTag /\ ctx # "copy" /\ Stored' = Store!Written(req)
<1>1. Tagging /\ Sound /\ errors' = 0
  BY DEF SoundUntilError, Recovers
<1>2. PowerLoss => ~BothValid'
  BY DEF PowerLoss, Recovers
<1>3. FormatValid => ~BothValid'
  <2> SUFFICES ASSUME FormatValid PROVE ~BothValid'
    OBVIOUS
  <2>1. status[1] = "ERASED" /\ status' = [status EXCEPT ![0] = "VALID"]
    BY DEF FormatValid, Recovers, MarkPage
  <2> QED
    BY <2>1 DEF BothValid, Pages, IInv, FlashTypes
<1> QED
  BY <1>1, <1>2, <1>3, Effect DEF With, Store!Written

\* A call returns, with FLASH_COMPLETE only at its last flash operation.
Returning ==
  \E r \in {"ok", "error"} :
    ReturnStatus(r) /\ (r = "ok" => pc \in {"xvalid", "clean"})

\* Every step of the emulation is a step of the atomic map or leaves it alone.
LEMMA StepImplements ==
  ASSUME OneLoss, IInv, IInv', SoundUntilError, Recovers, Recovers', Room,
         [Next]_vars
  PROVE  [Store!Next]_<<Stored, req, result>>
<1> USE DEF IInv
<1>s. Ordered /\ Sound
  BY DEF SoundUntilError, Recovers
<1>n. NoRequest = Store!NoRequest
  BY DEF NoRequest, Store!NoRequest
<1>1. CASE EE_WriteVariable
  <2>1. Stored' = Stored
    BY <1>1, EffectOneLoss DEF EE_WriteVariable, PutTag
  <2>2. req = NoRequest /\ result' = "none"
    BY <1>1, <1>s DEF EE_WriteVariable, Sound, Called
  <2>3. req' \in Store!Requests
    BY <1>1 DEF EE_WriteVariable, Store!Requests
  <2> QED
    BY <1>n, <2>1, <2>2, <2>3 DEF Store!Next, Store!Begin
<1>2. CASE PutTag
  <2>1. CASE ctx = "copy"
    <3>1. Stored' = Stored
      BY <2>1, EffectOneLoss
    <3> QED
      BY <1>2, <2>1, <3>1 DEF PutTag, Keep
  <2>2. CASE ctx # "copy"
    <3>1. req # NoRequest
      BY <1>2, <1>s, <2>2 DEF PutTag, Sound, Called
    <3>2. Stored' = Store!Written(req)
      BY <1>s, <1>2, <2>2, PutTagStores
      DEF With, Store!Written, SoundUntilError
    <3>3. CASE ctx = "write"
      <4>1. result' = "ok" /\ req' = NoRequest
        BY <1>2, <3>1, <3>3 DEF PutTag, ReturnStatus
      <4> QED
        BY <1>n, <3>1, <3>2, <4>1 DEF Store!Next, Store!Return
    <3>4. CASE ctx = "first"
      <4>1. UNCHANGED <<req, result>>
        BY <1>2, <3>4 DEF PutTag, Keep
      <4> QED
        BY <1>n, <3>1, <3>2, <4>1 DEF Store!Next, Store!TakeEffect
    <3> QED
      BY <2>2, <3>3, <3>4 DEF LocalTypes
  <2> QED
    BY <2>1, <2>2
<1>3. CASE ~PutTag /\ ~EE_WriteVariable
  <2>1. Stored' = Stored
    BY <1>3, EffectOneLoss
  <2>2. CASE UNCHANGED <<req, result>>
    BY <2>1, <2>2
  <2>3. CASE Returning
    <3>1. PICK r \in {"ok", "error"} :
            ReturnStatus(r) /\ (r = "ok" => pc \in {"xvalid", "clean"})
      BY <2>3 DEF Returning
    <3>2. req' = NoRequest /\ result' = IF req = NoRequest THEN "none" ELSE r
      BY <3>1 DEF ReturnStatus
    <3>3. CASE req = NoRequest
      BY <1>n, <2>1, <3>2, <3>3 DEF Store!Next, Store!PowerLoss
    <3>4. CASE req # NoRequest /\ r = "error"
      BY <1>n, <2>1, <3>2, <3>4 DEF Store!Next, Store!Return
    <3>5. CASE req # NoRequest /\ r = "ok"
      <4>1. pc = "xvalid"
        BY <1>s, <3>1, <3>5 DEF Sound, Called
      <4>2. Stored' = Store!Written(req)
        BY <1>s, <2>1, <3>5, <4>1, AlreadyWritten
      <4> QED
        BY <1>n, <3>2, <3>5, <4>2 DEF Store!Next, Store!Return
    <3> QED
      BY <3>1, <3>3, <3>4, <3>5
  <2>4. CASE PowerLoss
    BY <1>n, <2>1, <2>4 DEF PowerLoss, Store!Next, Store!PowerLoss
  <2>5. UNCHANGED <<req, result>> \/ Returning \/ PowerLoss
    <3>1. CASE UNCHANGED vars
      BY <3>1 DEF vars
    <3>2. CASE EE_Init \/ PutData \/ CopyNext \/ CopyEnd \/ TransferErase
               \/ RecoverValid \/ FormatErase \/ FormatValid
      BY <3>2 DEF EE_Init, PutData, CopyNext, CopyEnd, TransferErase,
                  RecoverValid, FormatErase, FormatValid, Keep
    <3>3. CASE PutNoPage \/ PutPageFull \/ Receive
      BY <3>3 DEF PutNoPage, PutPageFull, Receive, Keep, Returning
    <3>4. CASE TransferValid \/ CleanOld
      BY <3>4 DEF TransferValid, CleanOld, Returning
    <3>5. ~FlashFails
      BY DEF FlashFails, OneLoss
    <3> QED
      BY <1>3, <3>1, <3>2, <3>3, <3>4, <3>5 DEF Next, Step
  <2> QED
    BY <2>2, <2>3, <2>4, <2>5
<1> QED
  BY <1>1, <1>2, <1>3

\* The emulation implements an atomic map if the power fails at most once before
\* EE_Init completes, no flash operation fails, and a page has room for one less
\* than two copies of all variables: a write happens entirely or not at all,
\* nothing else changes, and FLASH_COMPLETE means that it has happened.
THEOREM Refinement ==
  ASSUME OneLoss
  PROVE  Spec => ImplementsStore
<1>1. Init => Store!Init
  <2> SUFFICES ASSUME Init PROVE Store!Init
    OBVIOUS
  <2>1. \A p \in Pages : status[p] = "ERASED"
    BY DEF Init
  <2>2. FlashTypes
    BY Basics DEF Init, FlashTypes, Status
  <2>3. Stored = <<>>
    BY <2>1, <2>2, StoredNow
  <2> QED
    BY <2>3 DEF Init, Store!Init, NoRequest, Store!NoRequest
<1>2. /\ IInv /\ IInv' /\ SoundUntilError /\ Recovers /\ Recovers' /\ Room
      /\ [Next]_vars
      => [Store!Next]_<<Stored, req, result>>
  BY StepImplements
<1> QED
  BY <1>1, <1>2, Invariance, SoundHolds, OneLossHolds, PTL
  DEF Spec, ImplementsStore, Store!Spec

-----------------------------------------------------------------------------
(* The two promises that the findings break hold without what breaks them.  *)

\* A variable that has been stored stays stored under the condition of
\* Refinement (eeprom.c:54): only a second power loss before EE_Init completes,
\* a flash error or a page that is too small can lose it.
THEOREM StoredStays ==
  ASSUME OneLoss
  PROVE  Spec => StoredSurvives
<1>1. /\ IInv /\ IInv' /\ SoundUntilError /\ Recovers /\ Recovers'
      /\ [Next]_vars
      => [DOMAIN Stored \subseteq DOMAIN Stored']_vars
  <2> SUFFICES ASSUME IInv, IInv', SoundUntilError, Recovers, Recovers', [Next]_vars
               PROVE  DOMAIN Stored \subseteq DOMAIN Stored'
    OBVIOUS
  <2>1. CASE Stored' = Stored
    BY <2>1
  <2>2. CASE Stored' = Store!Written(req)
    BY <2>2 DEF Store!Written
  <2> QED
    BY <2>1, <2>2, EffectOneLoss
<1> QED
  BY <1>1, Invariance, SoundHolds, OneLossHolds, PTL DEF Spec, StoredSurvives

\* The result of a write is empty until it returns.
NoErrors ==
  /\ errors = 0
  /\ req # NoRequest => result = "none"

\* Without flash errors none is counted.
LEMMA NoErrorsHold ==
  ASSUME FlashMayFail = FALSE
  PROVE  Spec => []NoErrors
<1>1. Init => NoErrors
  BY DEF Init, NoErrors
<1>2. ASSUME NoErrors, [Next]_vars PROVE NoErrors'
  <2>1. ASSUME NEW r \in {"ok", "error"}, ReturnStatus(r) PROVE NoErrors'
    BY <1>2, <2>1 DEF NoErrors, ReturnStatus
  <2>2. ASSUME Keep PROVE NoErrors'
    BY <1>2, <2>2 DEF NoErrors, Keep
  <2>3. CASE EE_WriteVariable \/ PowerLoss
    BY <1>2, <2>3 DEF NoErrors, EE_WriteVariable, PowerLoss
  <2>4. CASE UNCHANGED vars
    BY <1>2, <2>4 DEF NoErrors, vars
  <2>5. ~FlashFails
    BY DEF FlashFails
  <2>6. CASE Step
    BY <2>1, <2>2, <2>6
    DEF Step, EE_Init, PutData, PutNoPage, PutPageFull, PutTag, Receive, CopyNext,
        CopyEnd, TransferErase, TransferValid, RecoverValid, CleanOld,
        FormatErase, FormatValid
  <2> QED
    BY <1>2, <2>3, <2>4, <2>5, <2>6 DEF Next
<1> QED
  BY <1>1, <1>2, PTL DEF Spec

\* Where EE_ReadVariable looks once a page is valid and the other one erased.
LEMMA ReadsNext ==
  ASSUME IInv', NEW p \in Pages, status'[p] = "VALID", status'[Other(p)] = "ERASED",
         NEW v, NEW d, Stored' = With(Stored, v, d)
  PROVE  \E q \in ReadPages' : v \in DOMAIN Content(q)' /\ Content(q)'[v] = d
<1>1. p \in ReadPages'
  BY DEF ReadPages, Pages, Other
<1>2. Stored' = ContentOf(slots'[p])
  BY StoredThen DEF IInv
<1>3. Content(p)' = ContentOf(slots'[p])
  BY DEF Content, ContentOf, Tagged, TaggedIn, Reads, LastIn
<1>4. v \in DOMAIN Stored' /\ Stored'[v] = d
  BY DEF With
<1> QED
  BY <1>1, <1>2, <1>3, <1>4

\* A write that returns FLASH_COMPLETE is read back (eeprom.c:266) as long as no
\* flash operation fails, however often the power does.
THEOREM WrittenIsReadBack ==
  ASSUME FlashMayFail = FALSE
  PROVE  Spec => WrittenIsRead
<1>1. /\ IInv /\ IInv' /\ SoundUntilError /\ NoErrors /\ NoErrors' /\ [Next]_vars
      => [req # NoRequest /\ result' = "ok"
            => \E p \in ReadPages' : /\ req.var \in DOMAIN Content(p)'
                                     /\ Content(p)'[req.var] = req.data]_vars
  <2> SUFFICES ASSUME IInv, IInv', SoundUntilError, NoErrors, NoErrors', [Next]_vars,
                      req # NoRequest, result' = "ok"
               PROVE  \E p \in ReadPages' : /\ req.var \in DOMAIN Content(p)'
                                            /\ Content(p)'[req.var] = req.data
    OBVIOUS
  <2>1. Tagging /\ Sound /\ result = "none"
    BY DEF SoundUntilError, NoErrors
  <2>2. CASE PutTag /\ ctx = "write"
    <3>1. PICK p \in Pages : p = at.page
      BY DEF IInv, LocalTypes
    <3>2. status'[p] = "VALID" /\ status'[Other(p)] = "ERASED"
      BY <2>1, <2>2, <3>1 DEF PutTag, Sound, Placed
    <3>3. Stored' = With(Stored, req.var, req.data)
      BY <2>1, <2>2, PutTagStores
    <3> QED
      BY <3>2, <3>3, ReadsNext
  <2>3. CASE TransferValid
    <3>1. PICK o \in Pages : /\ o = old /\ Other(o) \in Pages /\ Other(Other(o)) = o
                             /\ Other(o) # o
      BY PagePairs DEF IInv, LocalTypes
    <3>2. status'[Other(o)] = "VALID" /\ status'[o] = "ERASED"
      BY <2>1, <2>3, <3>1
      DEF TransferValid, MarkPage, Sound, Placed, IInv, FlashTypes
    <3>3. Stored' = Stored
      BY <2>1, <2>3, Effect DEF NoErrors, TransferValid, PutTag, FormatValid, PowerLoss
    <3>4. Stored = With(Stored, req.var, req.data)
      BY <2>1, <2>3, AlreadyWritten DEF TransferValid, With, Store!Written
    <3> QED
      BY <3>1, <3>2, <3>3, <3>4, ReadsNext
  <2>4. CASE CleanOld
    BY <2>1, <2>4 DEF CleanOld, Sound, Called
  <2>5. (PutTag /\ ctx = "write") \/ TransferValid \/ CleanOld
    <3>1. result' # result
      BY <2>1
    <3> QED
      BY <3>1
      DEF Next, Step, Keep, EE_Init, EE_WriteVariable, PutData, PutNoPage,
          PutPageFull, PutTag, Receive, CopyNext, CopyEnd, TransferErase,
          RecoverValid, FormatErase, FormatValid, FlashFails, PowerLoss,
          ReturnStatus, vars
  <2> QED
    BY <2>2, <2>3, <2>4, <2>5
<1> QED
  BY <1>1, Invariance, SoundHolds, NoErrorsHold, PTL DEF Spec, WrittenIsRead
=============================================================================
