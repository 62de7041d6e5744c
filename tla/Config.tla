------------------------------- MODULE Config -------------------------------
(***************************************************************************)
(* The configuration of config.c: an image in RAM, its half-words in the   *)
(* EEPROM emulation, and the current limit that current_monitor.c hands on *)
(* to the INA226.  The packet thread copies what the host sends into the   *)
(* image; the power may fail before every half-word.                       *)
(*                                                                         *)
(* The EEPROM is the atomic map of EepromStore.  A field has an address    *)
(* and a size in bytes, as in the packed struct Config; the value v of a   *)
(* field stands as v in each of its bytes, so that a torn field is told    *)
(* from a whole one.                                                       *)
(*                                                                         *)
(* A request may have any address and size: it may be a field, a part of   *)
(* one or several, since config.c:141 does not reject it.  Two assumptions *)
(* are on the host, the code makes neither sure: the range lies within the *)
(* image, and the value fits config_value[4] (packet.c:134).               *)
(***************************************************************************)
EXTENDS Integers

CONSTANTS
  Words,        \* half-words of the image, sizeof(Config) / 2: 38
  Fields,       \* names of the fields
  addr, size,   \* their place in the image
  ValueBytes,   \* size of config_value: 4
  Sessions,     \* what the host may send, each request an address, a size and
                \* a value; and whether EE_WriteVariable and the I2C transfer may fail
  Leftovers,    \* what config_value may hold before it is filled
  defaults,     \* config_load_default_configuration
  CellLimit,    \* largest numCells: 12
  VoltLimit,    \* largest highVoltageCutoff: 5.0
  CurrentMin, CurrentMax,   \* maxCurrentCutoff: 1.0 to 150.0
  AlertStep,    \* a unit of the alert limit: 5.12 A
  MaxCrashes    \* power losses in a row without a completed start

Bytes == 0..(2 * Words - 1)
Index == 0..(Words - 1)

BytesOf(f) == addr[f]..(addr[f] + size[f] - 1)

\* A byte is read as the number that its field has for a value; numCells is
\* unsigned, the floats are not.
Number(f, v) == IF f = "numCells" THEN v % 256 ELSE v

\* The fields of the packed struct lie side by side, and the defaults are
\* within the limits that config_write_field sets.
ASSUME ConfigAssumption ==
  /\ Words \in Nat \ {0}
  /\ {"numCells", "highVoltageCutoff", "chargeVoltage", "maxCurrentCutoff"}
       \subseteq Fields
  /\ addr \in [Fields -> Bytes] /\ size \in [Fields -> Nat \ {0}]
  /\ \A f \in Fields : addr[f] + size[f] <= 2 * Words
  /\ \A f, g \in Fields : f # g => BytesOf(f) \intersect BytesOf(g) = {}
  /\ size["numCells"] = 1
  /\ ValueBytes \in Nat
  /\ Sessions \subseteq
       [requests : SUBSET [addr : Bytes, size : 0..ValueBytes, value : Int],
        mayFail : BOOLEAN]
  /\ \A s \in Sessions : \A r \in s.requests : r.addr + r.size <= 2 * Words
  /\ Leftovers \subseteq Int
  /\ CellLimit \in 0..255 /\ VoltLimit \in Nat
  /\ CurrentMin \in Nat /\ CurrentMax \in Nat /\ CurrentMin <= CurrentMax
  /\ AlertStep \in Nat \ {0}
  /\ defaults \in [Bytes -> Nat] /\ defaults[addr["numCells"]] <= CellLimit
  /\ defaults[addr["chargeVoltage"]]
       <= defaults[addr["numCells"]] * defaults[addr["highVoltageCutoff"]]
  /\ MaxCrashes \in Nat

VARIABLES
  session,   \* one of Sessions, for good
  pc,        \* "off", "defaults", "monitor", "idle", "limit" or "field"
  config,    \* the image in RAM
  store,     \* the EEPROM: a function on the half-words written so far
  next,      \* next half-word to write
  req,       \* the config_write_field under way
  limit,     \* alert limit of the INA226
  before,    \* history: the image before the last config_write_field
  wanted,    \* history: the image it was to end with
  lowered,   \* history: numCells or highVoltageCutoff was lowered, or changed
             \* past its clamp, after the last complete write of chargeVoltage
  split,     \* history: fields changed past their clamp, by a request for a
             \* part of them or for another address, and not written whole since
  lost,      \* history: half-words that failed writes have left behind
  failed,    \* history: a write or a transfer has failed: "never", "now"
             \* (since the start) or "earlier"
  crashes

history == <<before, wanted, lowered, split>>
vars ==
  <<session, pc, config, store, next, req, limit, history, lost, failed, crashes>>

NoRequest == [addr |-> 0, size |-> 0, value |-> 0, head |-> 0, rest |-> 0]
EE == INSTANCE EepromStore
        WITH Vars <- Index, Data <- {}, result <- "none"

\* Half-word w of an image.
Word(image, w) == <<image[2 * w], image[2 * w + 1]>>

-----------------------------------------------------------------------------
(* Start.                                                                   *)

\* config_read_all: one missing half-word and the defaults are loaded.
FirstFound == 0 \in DOMAIN store
AllFound == Index \subseteq DOMAIN store

\* The image that is read back; RAM is 0 where nothing is.
ReadBack ==
  [b \in Bytes |->
     IF b \div 2 \in DOMAIN store THEN store[b \div 2][1 + (b % 2)] ELSE 0]

config_init ==
  /\ pc = "off"
  /\ \/ /\ AllFound
        /\ config' = ReadBack
        /\ pc' = "monitor"
     \/ /\ ~AllFound
        /\ config' = defaults
        /\ pc' = "defaults"
  /\ next' = 0
  /\ lost' = {}
  /\ failed' = IF failed = "never" THEN "never" ELSE "earlier"
  /\ UNCHANGED <<session, store, req, limit, history, crashes>>

\* Half-word number next of the image.
SameWord == next
NextWord == next + 1

EE_WriteVariable ==
  /\ store' = EE!Written([var |-> next, data |-> Word(config, next)])
  /\ next' = NextWord
  /\ lost' = lost \ {next}

\* One round of config_write_all, or its end.
config_write_all ==
  /\ pc = "defaults"
  /\ \/ next \in Index /\ EE_WriteVariable /\ UNCHANGED pc
     \/ next \notin Index /\ pc' = "monitor" /\ UNCHANGED <<store, next, lost>>
  /\ UNCHANGED <<session, config, req, limit, history, failed, crashes>>

\* EE_WriteVariable fails, which ends the loop.
WriteAllFails ==
  /\ session.mayFail
  /\ pc = "defaults"
  /\ next \in Index
  /\ pc' = "monitor"
  /\ lost' = lost \union {w \in Index : w >= next}
  /\ failed' = "now"
  /\ UNCHANGED <<session, config, store, next, req, limit, history, crashes>>

\* The limit that goes to the INA226, rounded up to its unit; that of an image
\* is taken byte by byte, for what a torn field is converted to.
RoundedUp(v) == (v + AlertStep - 1) \div AlertStep
LimitOf(image) == [b \in BytesOf("maxCurrentCutoff") |-> RoundedUp(image[b])]
LimitFor(v) == [b \in BytesOf("maxCurrentCutoff") |-> RoundedUp(v)]

\* The transfer of current_monitor_set_overcurrent; its result is ignored.
SentOld(l) == limit' = LimitOf(config) /\ UNCHANGED failed
Sent(l) ==
  \/ limit' = l /\ UNCHANGED failed
  \/ session.mayFail /\ UNCHANGED limit /\ failed' = "now"

current_monitor_init ==
  /\ pc = "monitor"
  /\ Sent(LimitOf(config))
  /\ pc' = "idle"
  /\ before' = config
  /\ wanted' = config
  /\ crashes' = 0
  /\ UNCHANGED <<session, config, store, next, req, lowered, split, lost>>

-----------------------------------------------------------------------------
(* config_write_field.                                                      *)

\* if (v > top) v = top; else if (v < bottom) v = bottom;
Between(v, bottom, top) ==
  IF v > top THEN top ELSE IF v < bottom THEN bottom ELSE v

\* The value of a field is what stands in its first byte.
Field(f) == Number(f, config[addr[f]])

LargestVoltage == CellLimit * VoltLimit
PackVoltage == Field("numCells") * Field("highVoltageCutoff")

\* The clamp belongs to the address of the request, whatever its size.
Unclamped(a, v) == v
Clamped(a, v) ==
  CASE a = addr["numCells"] ->
         IF Number("numCells", v) > CellLimit THEN CellLimit ELSE v
    [] a = addr["highVoltageCutoff"] -> Between(v, 0, VoltLimit)
    [] a = addr["chargeVoltage"] -> Between(v, 0, PackVoltage)
    [] a = addr["maxCurrentCutoff"] -> Between(v, CurrentMin, CurrentMax)
    [] OTHER -> v

\* The value the clamp sees for request r: if the host sends less than the
\* field, the rest is what config_value[4] held before.
Seen(r) ==
  IF \E f \in Fields : addr[f] = r.addr /\ r.size < size[f]
  THEN Leftovers ELSE {r.value}

\* Request r after the clamp, which has seen v and made it value: if that is
\* a change, it replaces the bytes of the field at the address.
ClampedRequest(r, v) ==
  LET value == Clamped(r.addr, v) IN
  [addr |-> r.addr, size |-> r.size, value |-> value,
   head |-> IF value = v THEN r.value ELSE value, rest |-> r.value]

Covered(r) == r.addr..(r.addr + r.size - 1)
Datum(r, b) ==
  IF \E f \in Fields : addr[f] = r.addr /\ b \in BytesOf(f) THEN r.head ELSE r.rest

\* The image with request r copied into it.
Patch(image, r) ==
  [b \in Bytes |-> IF b \in Covered(r) THEN Datum(r, b) ELSE image[b]]

\* Fields that a request writes whole, as the host's tools do, and those that
\* it changes otherwise.
Whole(r) == {f \in Fields : r.addr = addr[f] /\ r.size >= size[f]}
Bypassed(r) ==
  {f \in Fields \ Whole(r) :
     r.addr = addr[f] \/ BytesOf(f) \intersect Covered(r) # {}}

\* What chargeVoltage has been limited by.
PackFields == {"numCells", "highVoltageCutoff"}

LowersPack(r) ==
  \E f \in PackFields :
    f \in Bypassed(r) \/ (f \in Whole(r) /\ Number(f, r.head) < Field(f))

\* First half-word of the loop of line 155: the one that holds byte addr.
StartsAfter(r) == (r.addr + 1) \div 2
FirstWord(r) == r.addr \div 2

\* The image in RAM is patched and the loop starts.
CopyRange(r) ==
  /\ config' = Patch(config, r)
  /\ wanted' = config'
  /\ lowered' = (lowered \/ LowersPack(r))
  /\ split' = split \union Bypassed(r)
  /\ next' = FirstWord(r)
  /\ pc' = "field"

\* maxCurrentCutoff is first sent to the INA226, which blocks.
config_write_field ==
  /\ pc = "idle"
  /\ \E r \in session.requests : \E v \in Seen(r) :
       /\ req' = ClampedRequest(r, v)
       /\ \/ /\ r.addr = addr["maxCurrentCutoff"]
             /\ pc' = "limit"
             /\ UNCHANGED <<config, wanted, lowered, split, next>>
          \/ /\ r.addr # addr["maxCurrentCutoff"]
             /\ CopyRange(ClampedRequest(r, v))
  /\ before' = config
  /\ UNCHANGED <<session, store, limit, lost, failed, crashes>>

current_monitor_set_overcurrent ==
  /\ pc = "limit"
  /\ Sent(LimitFor(req.value))
  /\ CopyRange(req)
  /\ UNCHANGED <<session, store, req, before, lost, crashes>>

\* One round of the loop, or its end.
WordsLeft == 2 * next < req.addr + req.size

EndOfCall ==
  /\ pc' = "idle"
  /\ req' = NoRequest
  /\ before' = config
  /\ UNCHANGED <<session, config, store, next, limit, wanted, crashes>>

\* chargeVoltage is within the pack again.  A cutoff below 0, which only gets
\* past the clamp, would make line 124 raise it.
VoltageSet ==
  /\ "chargeVoltage" \in Whole(req)
  /\ Bypassed(req) \intersect PackFields = {}
  /\ Field("highVoltageCutoff") >= 0

WriteField ==
  /\ pc = "field"
  /\ \/ /\ WordsLeft
        /\ EE_WriteVariable
        /\ UNCHANGED <<session, pc, config, req, limit, history, crashes>>
     \/ /\ ~WordsLeft
        /\ EndOfCall
        /\ lowered' = (lowered /\ ~VoltageSet)
        /\ split' = split \ Whole(req)
        /\ UNCHANGED lost
  /\ UNCHANGED failed

\* EE_WriteVariable fails, which ends the loop.  The reply to the host, which
\* echoes the value, does not tell.
WriteFieldFails ==
  /\ session.mayFail
  /\ pc = "field"
  /\ WordsLeft
  /\ EndOfCall
  /\ lost' = lost \union {b \div 2 : b \in {b \in Covered(req) : b >= 2 * next}}
  /\ failed' = "now"
  /\ UNCHANGED <<lowered, split>>

-----------------------------------------------------------------------------
(* RAM and the INA226 lose their contents.                                  *)
PowerLoss ==
  /\ pc # "off"
  /\ crashes < MaxCrashes
  /\ crashes' = crashes + 1
  /\ pc' = "off"
  /\ config' = [b \in Bytes |-> 0]
  /\ limit' = <<>>
  /\ next' = 0
  /\ req' = NoRequest
  /\ lost' = {}
  /\ UNCHANGED <<session, store, history, failed>>

Init ==
  /\ session \in Sessions
  /\ pc = "off"
  /\ config = [b \in Bytes |-> 0]
  /\ store = <<>>
  /\ next = 0
  /\ req = NoRequest
  /\ limit = <<>>
  /\ before = defaults
  /\ wanted = defaults
  /\ lowered = FALSE
  /\ split = {}
  /\ lost = {}
  /\ failed = "never"
  /\ crashes = 0

Step == config_init \/ config_write_all \/ current_monitor_init
          \/ current_monitor_set_overcurrent \/ WriteField

Next == Step \/ config_write_field \/ WriteAllFails \/ WriteFieldFails \/ PowerLoss

\* Flash operations and I2C transfers end: a call that has begun runs on.
Spec == Init /\ [][Next]_vars /\ WF_vars(Step)

-----------------------------------------------------------------------------
(* Properties.                                                              *)

\* Between calls RAM and EEPROM agree on every half-word but those that a
\* failed write, of which the host is not told (packet.c:189), has left behind
\* and no later one has repaired: the loop of config.c:155 covers ranges at odd
\* addresses and of every size, and a start that was interrupted in
\* config_write_all, by a power loss or an error, starts over with the defaults.
Persisted ==
  pc = "idle" =>
    \A w \in Index \ lost : w \in DOMAIN store /\ store[w] = Word(config, w)

\* As long as no write fails, what a start reads back is, half-word by
\* half-word, the image before or after the last config_write_field: a power
\* loss may tear a range of several half-words (config.c:155) but never touches
\* the rest of the image.
TornByWords ==
  pc = "monitor" /\ failed = "never" =>
    \A w \in Index : Word(config, w) \in {Word(before, w), Word(wanted, w)}

\* Between calls the INA226 trips at the maxCurrentCutoff of the image or less
\* than a unit above it, although the limit is set before the image
\* (config.c:139), the power may fail in between, and earlier sessions may have
\* ended with an error.  The exception: a request for a part of the field, or
\* one that reaches into it from another address, changes the image without
\* the limit or the limit without the whole field (config.c:129); it lasts
\* until the field is written whole.
LimitAgrees ==
  pc = "idle" /\ failed # "now" /\ "maxCurrentCutoff" \notin split =>
    \A b \in BytesOf("maxCurrentCutoff") :
      AlertStep * limit[b] - config[b] \in 0..(AlertStep - 1)

\* numCells, which bounds every loop over cells[12], is within its limit in
\* RAM and in what the next start will read, whatever fails in between, unless
\* a request for another address has reached into it: config.c:97 clamps at
\* the address of numCells only.  A complete write of numCells repairs both.
CellsBounded ==
  LET a == addr["numCells"] IN
  "numCells" \notin split =>
    /\ Number("numCells", config[a]) <= CellLimit
    /\ a \div 2 \in DOMAIN store =>
         Number("numCells", store[a \div 2][1 + (a % 2)]) <= CellLimit

Torn(f) == \E a, b \in BytesOf(f) : config[a] # config[b]

\* chargeVoltage is within what numCells and highVoltageCutoff allow, also
\* after a restart, unless a power loss has torn one of them; or one of them was
\* lowered after it was set, which does not set it again (config.c:120); or a
\* request that is not for the whole of a field has changed one of them past
\* its clamp; or a write has failed: the clamp then used a value that the next
\* start does not find.
VoltageWithinPack ==
  /\ pc = "idle" /\ failed = "never" /\ ~lowered
  /\ "chargeVoltage" \notin split
  /\ ~\E f \in {"chargeVoltage"} \union PackFields : Torn(f)
  => Field("chargeVoltage") <= Field("numCells") * Field("highVoltageCutoff")

\* A start ends, after however many power losses it took.
Starts == pc = "off" ~> pc = "idle"
=============================================================================
