---------------------------- MODULE ConfigProofs ----------------------------
(***************************************************************************)
(* Proofs about the configuration, for every layout of fields that do not  *)
(* overlap, every set of values and any number of power losses and errors. *)
(***************************************************************************)
EXTENDS Config, TLAPS

Images == [Bytes -> Int]

\* A request after the clamp.
Typed(r) ==
  /\ r.addr \in Bytes /\ r.size \in Nat /\ r.addr + r.size <= 2 * Words
  /\ r.value \in Int /\ r.head \in Int /\ r.rest \in Int

\* Types, and the request of the call under way.
Types ==
  /\ session \in Sessions
  /\ pc \in {"off", "defaults", "monitor", "idle", "limit", "field"}
  /\ config \in Images /\ before \in Images /\ wanted \in Images
  /\ \A w \in DOMAIN store : store[w] \in Int \X Int
  /\ next \in Nat /\ lost \subseteq Index
  /\ pc \in {"limit", "field"} => Typed(req)
  /\ pc = "limit" =>
       /\ req.addr = addr["maxCurrentCutoff"]
       /\ "maxCurrentCutoff" \in Whole(req) => req.value = req.head

\* Half-words of the range under way that the loop has not come to.
Pending == {b \div 2 : b \in {b \in Covered(req) : b >= 2 * next}}

Stored(W) == \A w \in W : w \in DOMAIN store /\ store[w] = Word(config, w)

\* What is stored of the image at each point of a start and of a call; what the
\* loop over a range has passed is no longer lost.
Agree ==
  /\ pc = "defaults" =>
       config = defaults /\ lost = {} /\ Stored({w \in Index : w < next})
  /\ pc \in {"monitor", "idle", "limit"} => Stored(Index \ lost)
  /\ pc = "field" =>
       /\ Stored((Index \ lost) \ Pending)
       /\ \A w \in lost : ~(FirstWord(req) <= w /\ w < next)

\* The histories are images the code has had.
Histories ==
  /\ pc \in {"idle", "limit"} => before = config /\ wanted = config
  /\ pc = "field" => wanted = config
  /\ lost # {} => failed = "now"

\* As long as nothing fails, every stored half-word is from the image before
\* or after the last call, and a start whose store is not complete has never
\* got further than the defaults.
OldOrNew ==
  failed = "never" =>
    /\ \A w \in DOMAIN store \intersect Index :
         store[w] \in {Word(before, w), Word(wanted, w)}
    /\ \/ AllFound
       \/ pc \in {"off", "defaults"} /\ before = defaults /\ wanted = defaults
    /\ pc = "defaults" => before = defaults /\ wanted = defaults

\* A complete write of numCells has RAM within the limit before the EEPROM.
CellsSet ==
  /\ CellsBounded
  /\ pc = "field" /\ "numCells" \in Whole(req) =>
       Number("numCells", config[addr["numCells"]]) <= CellLimit

\* A complete write of maxCurrentCutoff has set the limit when it ends the
\* exception.
LimitSet ==
  pc \in {"idle", "limit", "field"} /\ failed # "now" =>
    /\ "maxCurrentCutoff" \notin split => limit = LimitOf(config)
    /\ pc = "field" /\ "maxCurrentCutoff" \in Whole(req) =>
         limit = LimitOf(config)

\* Image im keeps chargeVoltage, unless it is torn, within the pack.
Cutoff(im) == im[addr["highVoltageCutoff"]]
Pack(im) == Number("numCells", im[addr["numCells"]]) * Cutoff(im)
Within(im) ==
  (\A a, b \in BytesOf("chargeVoltage") : im[a] = im[b])
    => im[addr["chargeVoltage"]] <= Pack(im)

\* What a start may find: the half-words in W from after the last call, which
\* made y of x.
Mixed(x, y, W) == [b \in Bytes |-> IF b \div 2 \in W THEN y[b] ELSE x[b]]

\* Whatever a power loss leaves behind is within the pack, which is positive.
InPack(x, y, bypassed) ==
  \A W \in SUBSET Index :
    /\ Cutoff(Mixed(x, y, W)) >= 0
    /\ "chargeVoltage" \notin bypassed => Within(Mixed(x, y, W))

\* So is the image that a write of chargeVoltage, which clears lowered, ends
\* with.
MixedWithin ==
  /\ failed = "never" /\ ~lowered => InPack(before, wanted, split)
  /\ pc = "field" /\ VoltageSet => Within(config)
  /\ pc = "field" /\ Bypassed(req) \intersect PackFields # {} => lowered

-----------------------------------------------------------------------------
(* Half-words and fields.                                                   *)

\* What the assumption says of a field.
LEMMA FieldFacts ==
  ASSUME NEW f \in Fields
  PROVE  /\ addr[f] \in Nat /\ size[f] \in Nat /\ addr[f] \in Bytes
         /\ addr[f] \in BytesOf(f) /\ BytesOf(f) \subseteq Bytes
         /\ addr[f] + size[f] <= 2 * Words
<1>1. /\ addr[f] \in Bytes /\ size[f] \in Nat \ {0} /\ Words \in Nat
      /\ addr[f] + size[f] <= 2 * Words
  BY ConfigAssumption
<1>2. addr[f] \in Nat
  BY <1>1 DEF Bytes
<1>3. addr[f] \in BytesOf(f)
  BY <1>1, <1>2 DEF BytesOf
<1>4. BytesOf(f) \subseteq Bytes
  BY <1>1, <1>2 DEF BytesOf, Bytes
<1> QED
  BY <1>1, <1>2, <1>3, <1>4

LEMMA Disjoint ==
  ASSUME NEW f \in Fields, NEW g \in Fields, f # g, NEW b \in BytesOf(f)
  PROVE  b \notin BytesOf(g)
BY ConfigAssumption

LEMMA Names ==
  /\ "numCells" \in Fields /\ "highVoltageCutoff" \in Fields
  /\ "chargeVoltage" \in Fields /\ "maxCurrentCutoff" \in Fields
  /\ BytesOf("numCells") = {addr["numCells"]}
<1>1. /\ "numCells" \in Fields /\ "highVoltageCutoff" \in Fields
      /\ "chargeVoltage" \in Fields /\ "maxCurrentCutoff" \in Fields
  BY ConfigAssumption
<1>2. addr["numCells"] \in Nat /\ size["numCells"] = 1
  BY <1>1, FieldFacts, ConfigAssumption
<1> QED
  BY <1>1, <1>2 DEF BytesOf

LEMMA Halves ==
  /\ \A b \in Nat : /\ b \div 2 \in Nat /\ b % 2 \in {0, 1}
                    /\ b = 2 * (b \div 2) + (b % 2)
  /\ \A w \in Nat : /\ (2 * w) \div 2 = w /\ (2 * w) % 2 = 0
                    /\ (2 * w + 1) \div 2 = w /\ (2 * w + 1) % 2 = 1
OBVIOUS

\* The half-words of an image hold its bytes.
LEMMA WordOfByte ==
  ASSUME NEW im \in Images, NEW b \in Bytes
  PROVE  /\ b \div 2 \in Index
         /\ Word(im, b \div 2) \in Int \X Int
         /\ Word(im, b \div 2)[1 + (b % 2)] = im[b]
<1>1. b \in Nat /\ Words \in Nat /\ b < 2 * Words
  BY ConfigAssumption DEF Bytes
<1>2. /\ b \div 2 \in Nat /\ b \div 2 < Words
      /\ 2 * (b \div 2) \in Bytes /\ 2 * (b \div 2) + 1 \in Bytes
  BY <1>1, Halves DEF Bytes
<1>3. /\ im[2 * (b \div 2)] \in Int /\ im[2 * (b \div 2) + 1] \in Int
  BY <1>2 DEF Images
<1>4. CASE b % 2 = 0
  <2>1. 2 * (b \div 2) = b /\ 1 + (b % 2) = 1
    BY <1>1, <1>4, Halves
  <2> QED
    BY <1>1, <1>2, <1>3, <2>1 DEF Word, Index
<1>5. CASE b % 2 = 1
  <2>1. 2 * (b \div 2) + 1 = b /\ 1 + (b % 2) = 2
    BY <1>1, <1>5, Halves
  <2> QED
    BY <1>1, <1>2, <1>3, <2>1 DEF Word, Index
<1> QED
  BY <1>1, <1>4, <1>5, Halves

\* Both bytes of a half-word.
LEMMA BytesOfWord ==
  ASSUME NEW w \in Index
  PROVE  /\ w \in Nat /\ 2 * w \in Bytes /\ 2 * w + 1 \in Bytes
         /\ \A im \in Images : Word(im, w) \in Int \X Int
<1>1. w \in Nat /\ w < Words /\ Words \in Nat
  BY ConfigAssumption DEF Index
<1>2. 2 * w \in Bytes /\ 2 * w + 1 \in Bytes
  BY <1>1 DEF Bytes
<1> QED
  BY <1>1, <1>2 DEF Images, Word

\* A complete store is read back as it is.
LEMMA ReadsStore ==
  ASSUME \A w \in DOMAIN store : store[w] \in Int \X Int, AllFound
  PROVE  ReadBack \in Images /\ \A w \in Index : Word(ReadBack, w) = store[w]
<1>1. ASSUME NEW b \in Bytes
      PROVE  b \div 2 \in DOMAIN store /\ store[b \div 2][1 + (b % 2)] \in Int
  <2>1. b \div 2 \in Index /\ b % 2 \in {0, 1}
    <3>1. b \in Nat /\ b < 2 * Words /\ Words \in Nat
      BY ConfigAssumption DEF Bytes
    <3>2. /\ b \div 2 \in Nat /\ b % 2 \in {0, 1}
          /\ b = 2 * (b \div 2) + (b % 2)
      BY <3>1, Halves
    <3> QED
      BY <3>1, <3>2 DEF Index
  <2>2. b \div 2 \in DOMAIN store /\ store[b \div 2] \in Int \X Int
    BY <2>1 DEF AllFound
  <2> QED
    BY <2>1, <2>2
<1>2. ASSUME NEW w \in Index PROVE Word(ReadBack, w) = store[w]
  <2>1. 2 * w \in Bytes /\ 2 * w + 1 \in Bytes /\ w \in Nat
    BY BytesOfWord
  <2>2. ReadBack[2 * w] = store[w][1] /\ ReadBack[2 * w + 1] = store[w][2]
    BY <1>1, <2>1, Halves DEF ReadBack
  <2>3. store[w] \in Int \X Int
    BY <1>2 DEF AllFound
  <2> QED
    BY <2>2, <2>3 DEF Word
<1> QED
  BY <1>1, <1>2 DEF ReadBack, Images

LEMMA Injective ==
  ASSUME NEW f \in Fields, NEW g \in Fields, addr[f] = addr[g]
  PROVE  f = g
BY FieldFacts, Disjoint

\* The bytes of a request, and the half-words it does not touch.
LEMMA CoveredBytes ==
  ASSUME NEW r, Typed(r)
  PROVE  /\ Covered(r) \subseteq Bytes
         /\ \A b \in Covered(r) : b \in Nat /\ r.addr <= b /\ b < r.addr + r.size
<1>1. /\ r.addr \in Nat /\ r.size \in Nat /\ r.addr + r.size <= 2 * Words
      /\ Words \in Nat
  BY ConfigAssumption DEF Typed, Bytes
<1>2. ASSUME NEW b \in Covered(r)
      PROVE  b \in Nat /\ r.addr <= b /\ b < r.addr + r.size
  BY <1>1 DEF Covered
<1>3. ASSUME NEW b \in Covered(r) PROVE b \in Bytes
  BY <1>1, <1>2 DEF Bytes
<1> QED
  BY <1>2, <1>3

\* What a request does to the image: a field it writes whole gets the clamped
\* value, one that it does not bypass either stays as it is.
LEMMA Patches ==
  ASSUME NEW im \in Images, NEW r, Typed(r)
  PROVE  /\ Patch(im, r) \in Images
         /\ \A f \in Whole(r) : \A b \in BytesOf(f) : Patch(im, r)[b] = r.head
         /\ \A f \in Fields \ (Whole(r) \union Bypassed(r)) :
              \A b \in BytesOf(f) : Patch(im, r)[b] = im[b]
         /\ \A w \in Index : w \notin {b \div 2 : b \in Covered(r)} =>
              Word(Patch(im, r), w) = Word(im, w)
<1>1. /\ Patch(im, r) \in Images
      /\ \A b \in Bytes :
           Patch(im, r)[b] = IF b \in Covered(r) THEN Datum(r, b) ELSE im[b]
  BY DEF Patch, Images, Datum, Typed
<1>2. ASSUME NEW f \in Whole(r), NEW b \in BytesOf(f)
      PROVE  Patch(im, r)[b] = r.head
  <2>1. f \in Fields /\ r.addr = addr[f] /\ r.size >= size[f]
    BY DEF Whole
  <2>2. b \in Bytes /\ addr[f] \in Nat /\ size[f] \in Nat /\ r.size \in Nat
    BY <2>1, FieldFacts DEF Typed
  <2>3. b \in Covered(r)
    BY <2>1, <2>2 DEF Covered, BytesOf
  <2> QED
    BY <1>1, <2>1, <2>2, <2>3 DEF Datum
<1>3. ASSUME NEW f \in Fields \ (Whole(r) \union Bypassed(r)), NEW b \in BytesOf(f)
      PROVE  Patch(im, r)[b] = im[b]
  <2>1. b \in Bytes /\ b \notin Covered(r)
    BY FieldFacts DEF Bypassed
  <2> QED
    BY <1>1, <2>1
<1>4. ASSUME NEW w \in Index, w \notin {b \div 2 : b \in Covered(r)}
      PROVE  Word(Patch(im, r), w) = Word(im, w)
  <2>1. w \in Nat /\ 2 * w \in Bytes /\ 2 * w + 1 \in Bytes
    BY BytesOfWord
  <2>2. 2 * w \notin Covered(r) /\ 2 * w + 1 \notin Covered(r)
    BY <1>4, <2>1, Halves
  <2> QED
    BY <1>1, <2>1, <2>2 DEF Word
<1> QED
  BY <1>1, <1>2, <1>3, <1>4

\* What the clamps leave of the value of a field that is written whole.
Limits(r) ==
  /\ "numCells" \in Whole(r) => Number("numCells", r.head) <= CellLimit
  /\ "highVoltageCutoff" \in Whole(r) => r.head >= 0
  /\ "chargeVoltage" \in Whole(r) /\ Cutoff(config) >= 0 => r.head <= Pack(config)
  /\ "maxCurrentCutoff" \in Whole(r) => r.value = r.head

LEMMA PackIsInt ==
  ASSUME NEW im \in Images
  PROVE  /\ Number("numCells", im[addr["numCells"]]) \in Nat
         /\ Cutoff(im) \in Int /\ Pack(im) \in Int
         /\ Cutoff(im) >= 0 => Pack(im) >= 0
<1>1. im[addr["numCells"]] \in Int /\ Cutoff(im) \in Int
  BY Names, FieldFacts DEF Images, Cutoff
<1>2. Number("numCells", im[addr["numCells"]]) \in Nat
  BY <1>1 DEF Number
<1>3. \A x \in Nat, y \in Int : x * y \in Int /\ (y >= 0 => x * y >= 0)
  OBVIOUS
<1> QED
  BY <1>1, <1>2, <1>3 DEF Pack

LEMMA PackVoltageIs == PackVoltage = Pack(config)
BY DEF PackVoltage, Field, Number, Pack, Cutoff

\* The limits keep a value a number.
LEMMA ClampedIsInt ==
  ASSUME Types, NEW a, NEW v \in Int
  PROVE  Clamped(a, v) \in Int
<1>1. PackVoltage \in Int
  BY PackIsInt, PackVoltageIs DEF Types
<1> QED
  BY <1>1, ConfigAssumption DEF Clamped, Between

LEMMA RequestLimits ==
  ASSUME Types, NEW r \in session.requests, NEW v \in Seen(r)
  PROVE  Typed(ClampedRequest(r, v)) /\ Limits(ClampedRequest(r, v))
<1> DEFINE q == ClampedRequest(r, v)
           c == Clamped(r.addr, v)
<1>1. /\ r.addr \in Bytes /\ r.size \in Nat /\ r.value \in Int
      /\ r.addr + r.size <= 2 * Words /\ v \in Int
  <2>1. session \in Sessions
    BY DEF Types
  <2>2. /\ r \in [addr : Bytes, size : 0..ValueBytes, value : Int]
        /\ r.addr + r.size <= 2 * Words
    BY <2>1, ConfigAssumption
  <2>3. v \in Leftovers \/ v = r.value
    BY DEF Seen
  <2>4. r.addr \in Bytes /\ r.size \in 0..ValueBytes /\ r.value \in Int
    BY <2>2
  <2>5. Leftovers \subseteq Int /\ ValueBytes \in Nat
    BY ConfigAssumption
  <2>6. r.size \in Nat
    BY <2>4, <2>5
  <2>7. v \in Int
    BY <2>3, <2>4, <2>5
  <2> QED
    BY <2>2, <2>4, <2>6, <2>7, Zenon
<1>2. c \in Int
  BY <1>1, ClampedIsInt
<1>3. /\ q.addr = r.addr /\ q.size = r.size /\ q.value = c /\ q.rest = r.value
      /\ q.head = IF c = v THEN r.value ELSE c
  BY DEF ClampedRequest
<1>4. ASSUME NEW f \in Whole(q)
      PROVE  f \in Fields /\ r.addr = addr[f] /\ q.head = c
  <2>1. f \in Fields /\ r.addr = addr[f] /\ r.size >= size[f]
    BY <1>3 DEF Whole
  <2>2. ~\E g \in Fields : addr[g] = r.addr /\ r.size < size[g]
    <3> SUFFICES ASSUME NEW g \in Fields, addr[g] = r.addr, r.size < size[g]
                 PROVE  FALSE
      OBVIOUS
    <3>1. g = f
      BY <2>1, Injective
    <3> QED
      BY <1>1, <2>1, <3>1, FieldFacts
  <2>3. v = r.value
    BY <2>2 DEF Seen
  <2> QED
    BY <1>3, <2>1, <2>3
<1> HIDE DEF q, c
<1>n. /\ addr["numCells"] # addr["highVoltageCutoff"]
      /\ addr["numCells"] # addr["chargeVoltage"]
      /\ addr["numCells"] # addr["maxCurrentCutoff"]
      /\ addr["highVoltageCutoff"] # addr["chargeVoltage"]
      /\ addr["highVoltageCutoff"] # addr["maxCurrentCutoff"]
      /\ addr["chargeVoltage"] # addr["maxCurrentCutoff"]
  BY Names, Injective
<1>5. ASSUME "numCells" \in Whole(q)
      PROVE  Number("numCells", q.head) <= CellLimit
  <2>1. c = IF Number("numCells", v) > CellLimit THEN CellLimit ELSE v
    BY <1>4, <1>5, <1>n DEF c, Clamped
  <2>2. Number("numCells", v) \in Int /\ CellLimit \in 0..255
    BY <1>1, ConfigAssumption DEF Number
  <2>3. Number("numCells", CellLimit) = CellLimit
    BY <2>2 DEF Number
  <2> QED
    BY <1>4, <1>5, <2>1, <2>2, <2>3
<1>6. ASSUME "highVoltageCutoff" \in Whole(q)
      PROVE  q.head >= 0
  <2>1. c = Between(v, 0, VoltLimit)
    BY <1>4, <1>6, <1>n DEF c, Clamped
  <2> QED
    BY <1>1, <1>4, <1>6, <2>1, ConfigAssumption DEF Between
<1>7. ASSUME "chargeVoltage" \in Whole(q), Cutoff(config) >= 0
      PROVE  q.head <= Pack(config)
  <2>1. c = Between(v, 0, Pack(config))
    BY <1>4, <1>7, <1>n, PackVoltageIs DEF c, Clamped
  <2>2. Pack(config) \in Int /\ Pack(config) >= 0
    BY <1>7, PackIsInt DEF Types
  <2> QED
    BY <1>1, <1>4, <1>7, <2>1, <2>2 DEF Between
<1>8. Typed(q)
  BY <1>1, <1>2, <1>3 DEF Typed
<1>9. Limits(q)
  BY <1>3, <1>4, <1>5, <1>6, <1>7 DEF Limits
<1> QED
  BY <1>8, <1>9 DEF q

\* Writing half-word number next.
LEMMA WritesWord ==
  ASSUME Types, EE_WriteVariable, next \in Index
  PROVE  /\ next' = next + 1 /\ next' \in Nat /\ lost' = lost \ {next}
         /\ DOMAIN store' = DOMAIN store \union {next}
         /\ store'[next] = Word(config, next)
         /\ \A w \in DOMAIN store : w # next => store'[w] = store[w]
         /\ \A w \in DOMAIN store' : store'[w] \in Int \X Int
<1>1. store' = [v \in DOMAIN store \union {next} |->
                  IF v = next THEN Word(config, next) ELSE store[v]]
  BY DEF EE_WriteVariable, EE!Written
<1>2. Word(config, next) \in Int \X Int
  BY BytesOfWord DEF Types
<1>3. \A w \in DOMAIN store : store[w] \in Int \X Int
  BY DEF Types
<1>4. next' = next + 1 /\ next' \in Nat /\ lost' = lost \ {next}
  BY DEF EE_WriteVariable, NextWord, Types
<1> QED
  BY <1>1, <1>2, <1>3, <1>4

\* A half-word that is left in the loop over a range is one of the image.
LEMMA LoopInImage ==
  ASSUME Types, pc = "field", WordsLeft
  PROVE  next \in Index
<1>1. /\ req.addr \in Nat /\ req.size \in Nat /\ Words \in Nat
      /\ req.addr + req.size <= 2 * Words
  BY ConfigAssumption DEF Types, Typed, Bytes
<1> QED
  BY <1>1 DEF WordsLeft, Index, Types

\* CopyRange, wherever it is called from.
LEMMA Copies ==
  ASSUME Types, NEW r, Typed(r), CopyRange(r)
  PROVE  /\ config' \in Images /\ wanted' = config' /\ pc' = "field"
         /\ next' = FirstWord(r) /\ next' \in Nat
         /\ split' = split \union Bypassed(r)
         /\ \A f \in Whole(r) : \A b \in BytesOf(f) : config'[b] = r.head
         /\ \A f \in Fields \ (Whole(r) \union Bypassed(r)) :
              \A b \in BytesOf(f) : config'[b] = config[b]
         /\ \A w \in Index : w \notin {b \div 2 : b \in Covered(r)} =>
              Word(config', w) = Word(config, w)
<1>1. /\ config' = Patch(config, r) /\ wanted' = config' /\ pc' = "field"
      /\ next' = FirstWord(r) /\ split' = split \union Bypassed(r)
  BY DEF CopyRange
<1>2. FirstWord(r) \in Nat
  <2>1. r.addr \in Nat
    BY DEF Typed, Bytes
  <2> QED
    BY <2>1, Halves DEF FirstWord
<1> QED
  BY <1>1, <1>2, Patches DEF Types

\* config_write_field, with the request after the clamp.
LEMMA Requested ==
  ASSUME Types, config_write_field
  PROVE  \E r : /\ Typed(r) /\ Limits(r) /\ req' = r
                /\ \/ /\ r.addr = addr["maxCurrentCutoff"] /\ pc' = "limit"
                      /\ UNCHANGED <<config, wanted, lowered, split, next>>
                   \/ r.addr # addr["maxCurrentCutoff"] /\ CopyRange(r)
<1>1. PICK q \in session.requests : \E v \in Seen(q) :
        /\ req' = ClampedRequest(q, v)
        /\ \/ /\ q.addr = addr["maxCurrentCutoff"] /\ pc' = "limit"
              /\ UNCHANGED <<config, wanted, lowered, split, next>>
           \/ /\ q.addr # addr["maxCurrentCutoff"]
              /\ CopyRange(ClampedRequest(q, v))
  BY DEF config_write_field
<1>2. PICK v \in Seen(q) :
        /\ req' = ClampedRequest(q, v)
        /\ \/ /\ q.addr = addr["maxCurrentCutoff"] /\ pc' = "limit"
              /\ UNCHANGED <<config, wanted, lowered, split, next>>
           \/ /\ q.addr # addr["maxCurrentCutoff"]
              /\ CopyRange(ClampedRequest(q, v))
  BY <1>1
<1>3. Typed(ClampedRequest(q, v)) /\ Limits(ClampedRequest(q, v))
  BY RequestLimits
<1>4. ClampedRequest(q, v).addr = q.addr
  BY DEF ClampedRequest
<1> QED
  BY <1>2, <1>3, <1>4

-----------------------------------------------------------------------------
(* Types.                                                                   *)

LEMMA TypesKept == Types /\ [Next]_vars => Types'
<1> SUFFICES ASSUME Types, [Next]_vars PROVE Types'
  OBVIOUS
<1> USE DEF history
<1>1. CASE config_init
  <2>1. config' \in Images
    <3>1. CASE AllFound /\ config' = ReadBack
      BY <3>1, ReadsStore DEF Types
    <3>2. CASE config' = defaults
      BY <3>2, ConfigAssumption DEF Images
    <3> QED
      BY <1>1, <3>1, <3>2 DEF config_init
  <2> QED
    BY <1>1, <2>1 DEF config_init, Types
<1>2. CASE config_write_all
  <2>1. CASE next \in Index /\ EE_WriteVariable /\ UNCHANGED pc
    BY <1>2, <2>1, WritesWord DEF config_write_all, Types
  <2>2. CASE next \notin Index /\ pc' = "monitor" /\ UNCHANGED <<store, next, lost>>
    BY <1>2, <2>2 DEF config_write_all, Types
  <2> QED
    BY <1>2, <2>1, <2>2 DEF config_write_all
<1>3. CASE WriteAllFails
  BY <1>3 DEF WriteAllFails, Types
<1>4. CASE current_monitor_init
  BY <1>4 DEF current_monitor_init, Types
<1>5. CASE config_write_field
  <2>1. PICK r : /\ Typed(r) /\ Limits(r) /\ req' = r
                 /\ \/ /\ r.addr = addr["maxCurrentCutoff"] /\ pc' = "limit"
                       /\ UNCHANGED <<config, wanted, lowered, split, next>>
                    \/ r.addr # addr["maxCurrentCutoff"] /\ CopyRange(r)
    BY <1>5, Requested
  <2>2. before' = config /\ store' = store /\ session' = session
    BY <1>5 DEF config_write_field
  <2>3. Typed(req') /\ lost' = lost
    BY <1>5, <2>1 DEF config_write_field
  <2>4. CASE /\ r.addr = addr["maxCurrentCutoff"] /\ pc' = "limit"
             /\ UNCHANGED <<config, wanted, lowered, split, next>>
    <3>1. req'.addr = addr["maxCurrentCutoff"]
          /\ ("maxCurrentCutoff" \in Whole(req') => req'.value = req'.head)
      BY <2>1, <2>4 DEF Limits
    <3> QED
      BY <2>2, <2>3, <2>4, <3>1 DEF Types
  <2>5. CASE CopyRange(r)
    <3>1. /\ config' \in Images /\ wanted' = config' /\ pc' = "field"
          /\ next' \in Nat
      BY <2>1, <2>5, Copies
    <3> QED
      BY <2>2, <2>3, <3>1 DEF Types
  <2> QED
    BY <2>1, <2>4, <2>5
<1>6. CASE current_monitor_set_overcurrent
  <2>1. Typed(req)
    BY <1>6 DEF current_monitor_set_overcurrent, Types
  <2>2. /\ CopyRange(req) /\ req' = req /\ before' = before
        /\ UNCHANGED <<session, store, lost>>
    BY <1>6 DEF current_monitor_set_overcurrent
  <2>3. /\ config' \in Images /\ wanted' = config' /\ pc' = "field"
        /\ next' \in Nat
    BY <2>1, <2>2, Copies
  <2> QED
    BY <2>1, <2>2, <2>3 DEF Types
<1>7. CASE WriteField
  <2>1. CASE WordsLeft /\ EE_WriteVariable /\ UNCHANGED <<session, pc, config, req, limit, history, crashes>>
    BY <1>7, <2>1, LoopInImage, WritesWord DEF WriteField, Types
  <2>2. CASE EndOfCall /\ UNCHANGED lost
    BY <2>2 DEF EndOfCall, Types
  <2> QED
    BY <1>7, <2>1, <2>2 DEF WriteField
<1>8. CASE WriteFieldFails
  <2>1. \A b \in Covered(req) : b \div 2 \in Index
    BY <1>8, CoveredBytes, WordOfByte DEF WriteFieldFails, Types
  <2>2. lost' \subseteq Index
    BY <1>8, <2>1 DEF WriteFieldFails, Types
  <2> QED
    BY <1>8, <2>2 DEF WriteFieldFails, EndOfCall, Types
<1>9. CASE PowerLoss
  BY <1>9 DEF PowerLoss, Types, Images
<1>10. CASE UNCHANGED vars
  BY <1>10 DEF vars, Types
<1> QED
  BY <1>1, <1>2, <1>3, <1>4, <1>5, <1>6, <1>7, <1>8, <1>9, <1>10 DEF Next, Step

LEMMA TypesHold == Spec => []Types
<1>1. Init => Types
  BY ConfigAssumption DEF Init, Types, Images
<1> QED
  BY <1>1, TypesKept, PTL DEF Spec

-----------------------------------------------------------------------------
(* What is stored.                                                          *)

\* The loop starts with the half-word of the first byte: all that the copy has
\* changed in RAM is pending.
LEMMA CopyPends ==
  ASSUME Types, NEW r, Typed(r), CopyRange(r), req' = r,
         UNCHANGED <<store, lost>>, Stored(Index \ lost)
  PROVE  /\ Stored((Index \ lost) \ Pending)'
         /\ (\A w \in lost : ~(FirstWord(req) <= w /\ w < next))'
<1>1. /\ next' = r.addr \div 2 /\ r.addr \in Nat /\ next' \in Nat
      /\ \A w \in Index : w \notin {b \div 2 : b \in Covered(r)} =>
           Word(config', w) = Word(config, w)
  BY Copies DEF FirstWord, Typed, Bytes
<1>2. ASSUME NEW b \in Covered(r)
      PROVE  b >= 2 * next'
  BY <1>1, CoveredBytes, Halves
<1>3. Pending' = {b \div 2 : b \in Covered(r)}
  BY <1>2 DEF Pending
<1>4. \A w \in Index : w \notin Pending' => Word(config', w) = Word(config, w)
  BY <1>1, <1>3
<1>5. ASSUME NEW w \in lost', r.addr \div 2 <= w, w < next'
      PROVE  FALSE
  <2>1. w \in Int
    BY DEF Types, Index
  <2> QED
    BY <1>1, <1>5, <2>1
<1>6. (\A w \in lost : ~(FirstWord(req) <= w /\ w < next))'
  BY <1>5 DEF FirstWord
<1> QED
  BY <1>4, <1>6 DEF Stored, Word

\* The loop ends behind the last byte of the range.
LEMMA NonePending ==
  ASSUME Types, pc = "field", ~WordsLeft
  PROVE  Pending = {}
<1>1. Typed(req) /\ next \in Nat
  BY DEF Types
<1>2. \A b \in Covered(req) : b \in Nat /\ b < 2 * next
  BY <1>1, CoveredBytes DEF WordsLeft, Typed, Bytes
<1>3. \A b \in Covered(req) : ~(b >= 2 * next)
  BY <1>1, <1>2
<1> QED
  BY <1>3 DEF Pending

\* A round of the loop writes what is pending at next.
LEMMA RoundStores ==
  ASSUME Types, pc = "field", WordsLeft, EE_WriteVariable,
         UNCHANGED <<config, req>>, Stored((Index \ lost) \ Pending),
         \A w \in lost : ~(FirstWord(req) <= w /\ w < next)
  PROVE  /\ Stored((Index \ lost) \ Pending)'
         /\ (\A w \in lost : ~(FirstWord(req) <= w /\ w < next))'
<1>1. next \in Index
  BY LoopInImage
<1>2. /\ next' = next + 1 /\ lost' = lost \ {next} /\ next \in Nat
      /\ DOMAIN store' = DOMAIN store \union {next}
      /\ store'[next] = Word(config, next)
      /\ \A w \in DOMAIN store : w # next => store'[w] = store[w]
  BY <1>1, WritesWord DEF Types
<1>3. ASSUME NEW w, w \in Pending, w # next PROVE w \in Pending'
  <2>1. PICK b \in Covered(req) : b >= 2 * next /\ w = b \div 2
    BY <1>3 DEF Pending
  <2>2. b \in Nat
    BY CoveredBytes DEF Types
  <2>3. b >= 2 * next'
    BY <1>2, <1>3, <2>1, <2>2, Halves
  <2> QED
    BY <2>1, <2>3 DEF Pending
<1>4. Stored((Index \ lost) \ Pending)'
  <2> SUFFICES ASSUME NEW w \in ((Index \ lost) \ Pending)'
               PROVE  w \in DOMAIN store' /\ store'[w] = Word(config, w)
    BY DEF Stored, Word
  <2>1. w \in Index
    BY DEF Index
  <2> QED
    BY <1>2, <1>3, <2>1 DEF Stored
<1>5. ASSUME NEW w \in lost', FirstWord(req) <= w, w < next'
      PROVE  FALSE
  <2>1. w \in Int /\ w \in lost /\ w # next
    BY <1>2 DEF Types, Index
  <2> QED
    BY <1>2, <1>5, <2>1
<1>6. (\A w \in lost : ~(FirstWord(req) <= w /\ w < next))'
  BY <1>5 DEF FirstWord
<1> QED
  BY <1>4, <1>6

LEMMA AgreeKept == Types /\ Agree /\ [Next]_vars => Agree'
<1> SUFFICES ASSUME Types, Agree, [Next]_vars PROVE Agree'
  OBVIOUS
<1> USE DEF history
<1>1. CASE config_init
  <2>1. CASE AllFound /\ config' = ReadBack /\ pc' = "monitor"
    <3>1. \A w \in Index : Word(ReadBack, w) = store[w] /\ w \in DOMAIN store
      BY <2>1, ReadsStore DEF Types, AllFound
    <3>2. \A w \in Index : Word(config', w) = store'[w] /\ w \in DOMAIN store'
      BY <1>1, <2>1, <3>1 DEF config_init
    <3> QED
      BY <2>1, <3>2 DEF Agree, Stored, Word
  <2>2. CASE config' = defaults /\ pc' = "defaults"
    <3>1. next' = 0 /\ lost' = {}
      BY <1>1 DEF config_init
    <3>2. {w \in Index : w < next'} = {}
      BY <3>1 DEF Index
    <3> QED
      BY <2>2, <3>1, <3>2 DEF Agree, Stored
  <2> QED
    BY <1>1, <2>1, <2>2 DEF config_init
<1>2. CASE config_write_all
  <2>1. CASE next \in Index /\ EE_WriteVariable /\ UNCHANGED pc
    <3>1. /\ next' = next + 1 /\ next \in Nat /\ lost' = lost \ {next}
          /\ DOMAIN store' = DOMAIN store \union {next}
          /\ store'[next] = Word(config, next)
          /\ \A w \in DOMAIN store : w # next => store'[w] = store[w]
      BY <2>1, WritesWord DEF Types
    <3>2. ASSUME NEW w \in Index, w < next'
          PROVE  w \in DOMAIN store' /\ store'[w] = Word(config, w)
      <4>1. w < next \/ w = next
        BY <3>1, <3>2 DEF Index
      <4> QED
        BY <1>2, <3>1, <4>1 DEF config_write_all, Agree, Stored
    <3>3. config' = config /\ pc = "defaults" /\ pc' = pc
      BY <1>2, <2>1 DEF config_write_all
    <3>4. Stored({w \in Index : w < next})'
      BY <3>2, <3>3 DEF Stored, Word
    <3> QED
      BY <3>1, <3>3, <3>4 DEF Agree
  <2>2. CASE next \notin Index /\ pc' = "monitor" /\ UNCHANGED <<store, next, lost>>
    <3>1. pc = "defaults" /\ config' = config
      BY <1>2 DEF config_write_all
    <3>2. \A w \in Index : w < next
      BY <2>2, ConfigAssumption DEF Types, Index
    <3> QED
      BY <2>2, <3>1, <3>2 DEF Agree, Stored, Word
  <2> QED
    BY <1>2, <2>1, <2>2 DEF config_write_all
<1>3. CASE WriteAllFails
  <2>1. /\ pc = "defaults" /\ pc' = "monitor" /\ UNCHANGED <<config, store, next>>
        /\ lost' = lost \union {w \in Index : w >= next}
    BY <1>3 DEF WriteAllFails
  <2>2. \A w \in Index \ lost' : w < next
    BY <2>1 DEF Types, Index
  <2> QED
    BY <2>1, <2>2 DEF Agree, Stored, Word
<1>4. CASE current_monitor_init
  BY <1>4 DEF current_monitor_init, Agree, Stored, Word
<1>5. CASE config_write_field
  <2>1. PICK r : /\ Typed(r) /\ Limits(r) /\ req' = r
                 /\ \/ /\ r.addr = addr["maxCurrentCutoff"] /\ pc' = "limit"
                       /\ UNCHANGED <<config, wanted, lowered, split, next>>
                    \/ r.addr # addr["maxCurrentCutoff"] /\ CopyRange(r)
    BY <1>5, Requested
  <2>2. /\ UNCHANGED <<store, lost>> /\ Stored(Index \ lost)
    BY <1>5 DEF config_write_field, Agree
  <2>3. CASE pc' = "limit" /\ UNCHANGED <<config, wanted, lowered, split, next>>
    BY <2>2, <2>3 DEF Agree, Stored, Word
  <2>4. CASE CopyRange(r)
    <3>1. pc' = "field"
      BY <2>4 DEF CopyRange
    <3> QED
      BY <2>1, <2>2, <2>4, <3>1, CopyPends DEF Agree
  <2> QED
    BY <2>1, <2>3, <2>4
<1>6. CASE current_monitor_set_overcurrent
  <2>1. /\ Typed(req) /\ req' = req /\ pc' = "field"
        /\ UNCHANGED <<store, lost>> /\ Stored(Index \ lost)
        /\ CopyRange(req)
    BY <1>6 DEF current_monitor_set_overcurrent, CopyRange, Types, Agree
  <2> QED
    BY <2>1, CopyPends DEF Agree
<1>7. CASE WriteField
  <2>1. CASE WordsLeft /\ EE_WriteVariable /\ UNCHANGED <<session, pc, config, req, limit, history, crashes>>
    <3>1. pc = "field" /\ pc' = "field"
      BY <1>7, <2>1 DEF WriteField
    <3> QED
      BY <2>1, <3>1, RoundStores DEF Agree
  <2>2. CASE ~WordsLeft /\ EndOfCall /\ UNCHANGED lost
    <3>1. Stored(Index \ lost)
      BY <1>7, <2>2, NonePending DEF WriteField, Agree
    <3> QED
      BY <2>2, <3>1 DEF EndOfCall, Agree, Stored, Word
  <2> QED
    BY <1>7, <2>1, <2>2 DEF WriteField
<1>8. CASE WriteFieldFails
  <2>1. /\ pc = "field" /\ pc' = "idle" /\ UNCHANGED <<config, store>>
        /\ lost' = lost \union Pending
    BY <1>8 DEF WriteFieldFails, EndOfCall, Pending
  <2> QED
    BY <2>1 DEF Agree, Stored, Word
<1>9. CASE PowerLoss
  BY <1>9 DEF PowerLoss, Agree
<1>10. CASE UNCHANGED vars
  BY <1>10 DEF vars, Agree, Stored, Word, Pending, Covered, FirstWord
<1> QED
  BY <1>1, <1>2, <1>3, <1>4, <1>5, <1>6, <1>7, <1>8, <1>9, <1>10 DEF Next, Step

\* Agree is inductive with Types.
LEMMA AgreeHolds == Spec => []Agree
<1>1. Init => Agree
  BY DEF Init, Agree
<1> QED
  BY <1>1, AgreeKept, TypesHold, PTL DEF Spec

\* Between calls the EEPROM holds the image but for the half-words that failed
\* writes have left behind (config.c:155).
THEOREM StoreAgrees == Spec => []Persisted
<1>1. Agree => Persisted
  BY DEF Agree, Persisted, Stored
<1> QED
  BY <1>1, AgreeHolds, PTL

-----------------------------------------------------------------------------
(* The number of cells.                                                     *)

CellsIn(im) == Number("numCells", im[addr["numCells"]])
CellsStored ==
  LET a == addr["numCells"] IN
  a \div 2 \in DOMAIN store =>
    Number("numCells", store[a \div 2][1 + (a % 2)]) <= CellLimit

\* The byte of numCells in a half-word that is written.
LEMMA CellsWritten ==
  ASSUME Types, EE_WriteVariable, next \in Index, config' = config,
         CellsIn(config) <= CellLimit, CellsStored
  PROVE  CellsStored'
<1> DEFINE a == addr["numCells"]
<1>0. a \in Bytes
  BY Names, FieldFacts
<1> HIDE DEF a
<1>1. Number("numCells", config[a]) <= CellLimit
  BY DEF CellsIn, a
<1>2. ASSUME a \div 2 \in DOMAIN store'
      PROVE  Number("numCells", store'[a \div 2][1 + (a % 2)]) <= CellLimit
  <2>1. CASE a \div 2 = next
    <3>1. store'[a \div 2] = Word(config, a \div 2)
      BY <2>1, WritesWord
    <3>2. Word(config, a \div 2)[1 + (a % 2)] = config[a]
      BY <1>0, WordOfByte DEF Types
    <3> QED
      BY <1>1, <3>1, <3>2
  <2>2. CASE a \div 2 # next
    <3>1. a \div 2 \in DOMAIN store /\ store'[a \div 2] = store[a \div 2]
      BY <1>2, <2>2, WritesWord
    <3> QED
      BY <3>1 DEF CellsStored, a
  <2> QED
    BY <2>1, <2>2
<1> QED
  BY <1>2 DEF CellsStored, a

LEMMA CellsSetIs ==
  CellsSet <=>
    /\ "numCells" \notin split => CellsIn(config) <= CellLimit /\ CellsStored
    /\ pc = "field" /\ "numCells" \in Whole(req) => CellsIn(config) <= CellLimit
BY DEF CellsSet, CellsBounded, CellsIn, CellsStored

\* A copy that does not bypass the clamp leaves numCells alone or within its
\* limit.
LEMMA CellsCopied ==
  ASSUME Types, CellsSet, pc \in {"idle", "limit"}, NEW r, Typed(r),
         CopyRange(r), req' = r, store' = store,
         "numCells" \in Whole(r) => Number("numCells", r.head) <= CellLimit
  PROVE  CellsSet'
<1> DEFINE n == "numCells"
<1>1. n \in Fields /\ addr[n] \in BytesOf(n)
  BY Names, FieldFacts
<1>2. /\ split' = split \union Bypassed(r) /\ pc' = "field"
      /\ \A f \in Whole(r) : \A b \in BytesOf(f) : config'[b] = r.head
      /\ \A f \in Fields \ (Whole(r) \union Bypassed(r)) :
           \A b \in BytesOf(f) : config'[b] = config[b]
  BY Copies
<1>3. ASSUME n \in Whole(r) PROVE CellsIn(config') <= CellLimit
  BY <1>1, <1>2, <1>3 DEF CellsIn
<1>4. ASSUME n \notin split'
      PROVE  CellsIn(config') <= CellLimit /\ CellsStored'
  <2>1. n \notin split /\ n \notin Bypassed(r)
    BY <1>2, <1>4
  <2>2. CellsIn(config) <= CellLimit /\ CellsStored
    BY <2>1, CellsSetIs
  <2>3. CASE n \notin Whole(r)
    <3>1. config'[addr[n]] = config[addr[n]]
      BY <1>1, <1>2, <2>1, <2>3
    <3> QED
      BY <2>2, <3>1 DEF CellsIn, CellsStored
  <2> QED
    BY <1>3, <2>2, <2>3 DEF CellsStored
<1>5. /\ (n \notin split)' => CellsIn(config') <= CellLimit /\ CellsStored'
      /\ n \in Whole(req') => CellsIn(config') <= CellLimit
  BY <1>3, <1>4
<1> QED
  BY <1>5 DEF CellsSet, CellsBounded, CellsIn, CellsStored

\* The end of a complete write of numCells has it within the limit in the
\* EEPROM, too.
LEMMA CellsRepaired ==
  ASSUME Types, Agree, CellsSet, pc = "field", ~WordsLeft,
         "numCells" \in Whole(req)
  PROVE  CellsIn(config) <= CellLimit /\ CellsStored
<1> DEFINE a == addr["numCells"]
           w == a \div 2
<1>1. a \in Bytes /\ w \in Index /\ Word(config, w)[1 + (a % 2)] = config[a]
  BY Names, FieldFacts, WordOfByte DEF Types
<1>2. req.addr = a /\ req.size >= 1 /\ req.size \in Nat
  BY ConfigAssumption DEF Whole, Types, Typed
<1>3. FirstWord(req) = w
  BY <1>2 DEF FirstWord
<1>4. w < next
  <2>1. a \in Nat /\ next \in Nat
    BY <1>1 DEF Bytes, Types
  <2>2. ~(2 * next < a + req.size)
    BY <1>2 DEF WordsLeft
  <2>3. w \in Nat /\ a = 2 * w + (a % 2) /\ a % 2 \in {0, 1}
    BY <2>1, Halves
  <2> HIDE DEF a, w
  <2> QED
    BY <1>2, <2>1, <2>2, <2>3
<1>5. w \notin lost
  <2>1. w <= w
    BY <1>1 DEF Index
  <2> QED
    BY <1>3, <1>4, <2>1 DEF Agree
<1>6. store[w] = Word(config, w)
  BY <1>1, <1>5, NonePending DEF Agree, Stored
<1>7. CellsIn(config) <= CellLimit
  BY CellsSetIs
<1> QED
  BY <1>1, <1>6, <1>7 DEF CellsIn, CellsStored

LEMMA CellsKept == Types /\ Agree /\ CellsSet /\ [Next]_vars => CellsSet'
<1> SUFFICES ASSUME Types, Agree, CellsSet, [Next]_vars PROVE CellsSet'
  OBVIOUS
<1> USE DEF history
<1>0. ASSUME UNCHANGED <<config, store, split>>,
             pc' = "field" => pc = "field" /\ req' = req
      PROVE  CellsSet'
  BY <1>0 DEF CellsSet, CellsBounded, Whole
<1>1. CASE config_init
  <2>1. UNCHANGED <<store, split>> /\ pc' # "field"
    BY <1>1 DEF config_init
  <2>2. CASE AllFound /\ config' = ReadBack
    <3>1. addr["numCells"] \in Bytes
      BY Names, FieldFacts
    <3>2. addr["numCells"] \div 2 \in DOMAIN store
      BY <2>2, <3>1, WordOfByte DEF AllFound, Types
    <3>3. config'[addr["numCells"]]
            = store[addr["numCells"] \div 2][1 + (addr["numCells"] % 2)]
      BY <2>2, <3>1, <3>2 DEF ReadBack
    <3> QED
      BY <2>1, <3>2, <3>3 DEF CellsSet, CellsBounded
  <2>3. CASE config' = defaults
    <3>1. /\ defaults[addr["numCells"]] \in Nat
          /\ defaults[addr["numCells"]] <= CellLimit /\ CellLimit \in 0..255
      BY Names, FieldFacts, ConfigAssumption
    <3>2. Number("numCells", config'[addr["numCells"]]) <= CellLimit
      BY <2>3, <3>1 DEF Number
    <3> QED
      BY <2>1, <3>2 DEF CellsSet, CellsBounded
  <2> QED
    BY <1>1, <2>2, <2>3 DEF config_init
<1>2. CASE config_write_all
  <2>1. CASE next \in Index /\ EE_WriteVariable /\ UNCHANGED pc
    <3>1. config' = config /\ split' = split /\ pc' # "field"
      BY <1>2, <2>1 DEF config_write_all
    <3>2. "numCells" \notin split => CellsIn(config) <= CellLimit /\ CellsStored'
      BY <2>1, <3>1, CellsSetIs, CellsWritten
    <3> QED
      BY <3>1, <3>2 DEF CellsSet, CellsBounded, CellsIn, CellsStored
  <2>2. CASE next \notin Index /\ pc' = "monitor" /\ UNCHANGED store
    BY <1>0, <1>2, <2>2 DEF config_write_all
  <2> QED
    BY <1>2, <2>1, <2>2 DEF config_write_all
<1>3. CASE WriteAllFails
  BY <1>0, <1>3 DEF WriteAllFails
<1>4. CASE current_monitor_init
  BY <1>0, <1>4 DEF current_monitor_init
<1>5. CASE config_write_field
  <2>1. PICK r : /\ Typed(r) /\ Limits(r) /\ req' = r
                 /\ \/ /\ r.addr = addr["maxCurrentCutoff"] /\ pc' = "limit"
                       /\ UNCHANGED <<config, wanted, lowered, split, next>>
                    \/ r.addr # addr["maxCurrentCutoff"] /\ CopyRange(r)
    BY <1>5, Requested
  <2>2. store' = store /\ pc = "idle"
    BY <1>5 DEF config_write_field
  <2>3. CASE pc' = "limit" /\ UNCHANGED <<config, wanted, lowered, split, next>>
    BY <1>0, <2>2, <2>3
  <2>4. CASE CopyRange(r)
    BY <2>1, <2>2, <2>4, CellsCopied DEF Limits
  <2> QED
    BY <2>1, <2>3, <2>4
<1>6. CASE current_monitor_set_overcurrent
  <2>1. /\ Typed(req) /\ store' = store /\ req' = req /\ pc = "limit"
        /\ CopyRange(req) /\ req.addr = addr["maxCurrentCutoff"]
    BY <1>6 DEF current_monitor_set_overcurrent, Types
  <2>2. "numCells" \notin Whole(req)
    BY <2>1, Names, Injective DEF Whole
  <2> QED
    BY <2>1, <2>2, CellsCopied
<1>7. CASE WriteField
  <2>0. pc = "field"
    BY <1>7 DEF WriteField
  <2>1. CASE WordsLeft /\ EE_WriteVariable /\ UNCHANGED <<session, pc, config, req, limit, history, crashes>>
    <3>1. /\ "numCells" \notin split => CellsIn(config) <= CellLimit /\ CellsStored'
          /\ "numCells" \in Whole(req) => CellsIn(config) <= CellLimit
      BY <2>0, <2>1, CellsSetIs, CellsWritten, LoopInImage
    <3> QED
      BY <2>0, <2>1, <3>1 DEF CellsSet, CellsBounded, CellsIn, CellsStored, Whole
  <2>2. CASE ~WordsLeft /\ EndOfCall /\ split' = split \ Whole(req)
    <3>1. "numCells" \notin split \ Whole(req) =>
            CellsIn(config) <= CellLimit /\ CellsStored
      BY <2>0, <2>2, CellsSetIs, CellsRepaired
    <3> QED
      BY <2>2, <3>1 DEF EndOfCall, CellsSet, CellsBounded, CellsIn, CellsStored
  <2> QED
    BY <1>7, <2>1, <2>2 DEF WriteField
<1>8. CASE WriteFieldFails
  BY <1>0, <1>8 DEF WriteFieldFails, EndOfCall
<1>9. CASE PowerLoss
  <2>1. addr["numCells"] \in Bytes
    BY Names, FieldFacts
  <2>2. config'[addr["numCells"]] = 0 /\ UNCHANGED <<store, split>> /\ pc' = "off"
    BY <1>9, <2>1 DEF PowerLoss
  <2>3. Number("numCells", 0) <= CellLimit
    BY ConfigAssumption DEF Number
  <2> QED
    BY <2>2, <2>3 DEF CellsSet, CellsBounded
<1>10. CASE UNCHANGED vars
  BY <1>0, <1>10 DEF vars
<1> QED
  BY <1>1, <1>2, <1>3, <1>4, <1>5, <1>6, <1>7, <1>8, <1>9, <1>10 DEF Next, Step

\* No start, no power loss, no failed write and no request brings numCells above
\* its limit, in RAM or in the EEPROM, but a request that reaches into it from
\* another address (config.c:97), until numCells is written as a whole.
THEOREM CellsStayBounded == Spec => []CellsBounded
<1>1. Init => CellsSet
  <2>1. addr["numCells"] \in Bytes
    BY Names, FieldFacts
  <2>2. Number("numCells", 0) <= CellLimit
    BY ConfigAssumption DEF Number
  <2> QED
    BY <2>1, <2>2 DEF Init, CellsSet, CellsBounded
<1>2. CellsSet => CellsBounded
  BY DEF CellsSet
<1> QED
  BY <1>1, <1>2, CellsKept, TypesHold, AgreeHolds, PTL DEF Spec

-----------------------------------------------------------------------------
(* What a power loss leaves behind.                                         *)

LEMMA HistoriesKept == Histories /\ [Next]_vars => Histories'
<1> SUFFICES ASSUME Histories, [Next]_vars PROVE Histories'
  OBVIOUS
<1> USE DEF history, Histories
<1>1. CASE config_init
  BY <1>1 DEF config_init
<1>2. CASE config_write_all
  BY <1>2 DEF config_write_all, EE_WriteVariable
<1>3. CASE WriteAllFails
  BY <1>3 DEF WriteAllFails
<1>4. CASE current_monitor_init
  BY <1>4 DEF current_monitor_init, Sent
<1>5. CASE config_write_field
  BY <1>5 DEF config_write_field, CopyRange
<1>6. CASE current_monitor_set_overcurrent
  BY <1>6 DEF current_monitor_set_overcurrent, CopyRange, Sent
<1>7. CASE WriteField
  BY <1>7 DEF WriteField, EE_WriteVariable, EndOfCall
<1>8. CASE WriteFieldFails
  BY <1>8 DEF WriteFieldFails, EndOfCall
<1>9. CASE PowerLoss
  BY <1>9 DEF PowerLoss
<1>10. CASE UNCHANGED vars
  BY <1>10 DEF vars
<1> QED
  BY <1>1, <1>2, <1>3, <1>4, <1>5, <1>6, <1>7, <1>8, <1>9, <1>10 DEF Next, Step

\* With nothing lost the store is the image.
LEMMA WholeStored ==
  ASSUME Agree, Histories, pc \in {"monitor", "idle", "limit"}, failed = "never"
  PROVE  AllFound /\ \A w \in Index : store[w] = Word(config, w)
<1>1. lost = {}
  BY DEF Histories
<1> QED
  BY <1>1 DEF Agree, Stored, AllFound

LEMMA OldOrNewKept ==
  Types /\ Agree /\ Histories /\ OldOrNew /\ [Next]_vars => OldOrNew'
<1> SUFFICES ASSUME Types, Agree, Histories, OldOrNew, [Next]_vars,
                    failed' = "never"
             PROVE  OldOrNew'
  BY DEF OldOrNew
<1> USE DEF history
<1>0. failed = "never"
  <2>1. failed' = failed \/ failed' \in {"now", "earlier"} \/ failed = "never"
    BY DEF Next, Step, vars, config_init, config_write_all, WriteAllFails,
           current_monitor_init, config_write_field,
           current_monitor_set_overcurrent, WriteField, WriteFieldFails,
           PowerLoss, Sent
  <2> QED
    BY <2>1
<1>1. ASSUME UNCHANGED <<store, before, wanted>>,
             AllFound \/ (pc' \in {"off", "defaults"} /\ before = defaults /\ wanted = defaults),
             pc' = "defaults" => before = defaults /\ wanted = defaults
      PROVE  OldOrNew'
  BY <1>0, <1>1 DEF OldOrNew, AllFound, Index, Word
<1>2. CASE config_init
  BY <1>0, <1>1, <1>2 DEF config_init, OldOrNew
<1>3. CASE config_write_all
  <2>0. config' = config /\ pc = "defaults" /\ UNCHANGED <<before, wanted>>
    BY <1>3 DEF config_write_all
  <2>1. CASE next \in Index /\ EE_WriteVariable /\ UNCHANGED pc
    <3>1. /\ config = defaults /\ before = defaults /\ wanted = defaults
      BY <1>0, <2>0 DEF Agree, OldOrNew
    <3>2. /\ DOMAIN store' = DOMAIN store \union {next}
          /\ store'[next] = Word(config, next)
          /\ \A w \in DOMAIN store : w # next => store'[w] = store[w]
      BY <2>1, WritesWord
    <3>3. \A w \in DOMAIN store' \intersect Index :
            store'[w] \in {Word(before, w), Word(wanted, w)}
      BY <1>0, <3>1, <3>2 DEF OldOrNew
    <3> QED
      BY <2>0, <2>1, <3>1, <3>3 DEF OldOrNew, Index, Word
  <2>2. CASE next \notin Index /\ pc' = "monitor" /\ UNCHANGED <<store, next, lost>>
    <3>1. \A w \in Index : w < next
      BY <2>2, ConfigAssumption DEF Types, Index
    <3>2. AllFound
      BY <2>0, <3>1 DEF Agree, Stored, AllFound
    <3> QED
      BY <1>1, <2>0, <2>2, <3>2
  <2> QED
    BY <1>3, <2>1, <2>2 DEF config_write_all
<1>4. CASE WriteAllFails
  BY <1>4 DEF WriteAllFails
<1>5. CASE current_monitor_init
  <2>1. /\ pc = "monitor" /\ pc' = "idle" /\ before' = config
        /\ UNCHANGED <<store, config>>
    BY <1>5 DEF current_monitor_init
  <2>2. AllFound /\ \A w \in Index : store[w] = Word(config, w)
    BY <1>0, <2>1, WholeStored
  <2> QED
    BY <2>1, <2>2 DEF OldOrNew, AllFound, Index, Word
<1>6. CASE config_write_field
  <2>1. /\ pc = "idle" /\ pc' \in {"limit", "field"} /\ before' = config
        /\ store' = store
    BY <1>6 DEF config_write_field, CopyRange
  <2>2. AllFound /\ \A w \in Index : store[w] = Word(config, w)
    BY <1>0, <2>1, WholeStored
  <2> QED
    BY <2>1, <2>2 DEF OldOrNew, AllFound, Index, Word
<1>7. CASE current_monitor_set_overcurrent
  <2>1. /\ pc = "limit" /\ pc' = "field" /\ UNCHANGED <<before, store>>
    BY <1>7 DEF current_monitor_set_overcurrent, CopyRange
  <2>2. /\ AllFound /\ \A w \in Index : store[w] = Word(config, w)
        /\ before = config
    BY <1>0, <2>1, WholeStored DEF Histories
  <2> QED
    BY <2>1, <2>2 DEF OldOrNew, AllFound, Index, Word
<1>8. CASE WriteField
  <2>1. CASE WordsLeft /\ EE_WriteVariable /\ UNCHANGED <<pc, before, wanted>>
    <3>1. pc = "field" /\ wanted = config /\ next \in Index
      BY <1>8, <2>1, LoopInImage DEF WriteField, Histories
    <3>2. /\ DOMAIN store' = DOMAIN store \union {next}
          /\ store'[next] = Word(config, next)
          /\ \A w \in DOMAIN store : w # next => store'[w] = store[w]
      BY <2>1, <3>1, WritesWord
    <3>3. \A w \in DOMAIN store' \intersect Index :
            store'[w] \in {Word(before, w), Word(wanted, w)}
      BY <1>0, <3>1, <3>2 DEF OldOrNew
    <3>4. Index \subseteq DOMAIN store'
      BY <1>0, <3>1, <3>2 DEF OldOrNew, AllFound
    <3> QED
      BY <2>1, <3>1, <3>3, <3>4 DEF OldOrNew, AllFound, Index, Word
  <2>2. CASE ~WordsLeft /\ EndOfCall
    <3>1. /\ pc = "field" /\ pc' = "idle" /\ before' = config
          /\ UNCHANGED <<store, wanted, config>>
      BY <1>8, <2>2 DEF WriteField, EndOfCall
    <3>2. lost = {} /\ Pending = {}
      BY <1>0, <2>2, <3>1, NonePending DEF Histories
    <3>3. AllFound /\ \A w \in Index : store[w] = Word(config, w)
      BY <3>1, <3>2 DEF Agree, Stored, AllFound
    <3> QED
      BY <3>1, <3>3 DEF OldOrNew, AllFound, Index, Word
  <2> QED
    BY <1>8, <2>1, <2>2 DEF WriteField
<1>9. CASE WriteFieldFails
  BY <1>9 DEF WriteFieldFails
<1>10. CASE PowerLoss
  <2>1. UNCHANGED <<store, before, wanted>> /\ pc' = "off"
    BY <1>10 DEF PowerLoss
  <2> QED
    BY <1>0, <1>1, <2>1 DEF OldOrNew
<1>11. CASE UNCHANGED vars
  BY <1>0, <1>1, <1>11 DEF vars, OldOrNew
<1> QED
  BY <1>2, <1>3, <1>4, <1>5, <1>6, <1>7, <1>8, <1>9, <1>10, <1>11 DEF Next, Step

LEMMA OldOrNewHolds == Spec => [](Histories /\ OldOrNew)
<1>1. Init => Histories /\ OldOrNew
  BY DEF Init, Histories, OldOrNew
<1> QED
  BY <1>1, HistoriesKept, OldOrNewKept, TypesHold, AgreeHolds, PTL DEF Spec

\* A power loss tears the range that was being written by half-words and
\* touches nothing else (config.c:155).
THEOREM TearsByWords == Spec => []TornByWords
<1>1. Types /\ Agree /\ Histories /\ OldOrNew => TornByWords
  <2> SUFFICES ASSUME Types, Agree, Histories, OldOrNew, pc = "monitor",
                      failed = "never", NEW w \in Index
               PROVE  Word(config, w) \in {Word(before, w), Word(wanted, w)}
    BY DEF TornByWords
  <2>1. w \in DOMAIN store /\ store[w] = Word(config, w)
    BY WholeStored DEF AllFound
  <2> QED
    BY <2>1 DEF OldOrNew
<1> QED
  BY <1>1, TypesHold, AgreeHolds, OldOrNewHolds, PTL

-----------------------------------------------------------------------------
(* The alert limit.                                                         *)

\* Rounding up to a unit.
LEMMA RoundsUp ==
  ASSUME NEW c \in Int, NEW s \in Nat \ {0}
  PROVE  s * ((c + s - 1) \div s) - c \in 0..(s - 1)
<1> DEFINE q == (c + s - 1) \div s
           r == (c + s - 1) % s
<1>1. c + s - 1 \in Int
  OBVIOUS
<1>2. /\ q \in Int /\ r \in 0..(s - 1) /\ c + s - 1 = s * q + r
  BY <1>1
<1>3. s * q \in Int
  BY <1>2
<1> HIDE DEF q, r
<1>4. s * q - c = s - 1 - r
  BY <1>2, <1>3
<1> QED
  BY <1>2, <1>3, <1>4 DEF q

\* A request that leaves the field alone does not change its limit, and one
\* that writes it whole sets it to the value's.
LEMMA LimitCopied ==
  ASSUME Types, NEW r, Typed(r), CopyRange(r)
  PROVE  /\ "maxCurrentCutoff" \notin Whole(r) \union Bypassed(r) =>
              LimitOf(config') = LimitOf(config)
         /\ "maxCurrentCutoff" \in Whole(r) => LimitOf(config') = LimitFor(r.head)
BY Names, Copies DEF LimitOf, LimitFor

LEMMA LimitSetKept == Types /\ LimitSet /\ [Next]_vars => LimitSet'
<1> SUFFICES ASSUME Types, LimitSet, [Next]_vars, failed' # "now"
             PROVE  LimitSet'
  BY DEF LimitSet
<1> DEFINE mcc == "maxCurrentCutoff"
<1> USE DEF history
<1>0. ASSUME UNCHANGED <<config, limit, split>>, pc \in {"idle", "limit", "field"},
             pc' = "field" => pc = "field" /\ req' = req, failed' = failed
      PROVE  LimitSet'
  BY <1>0 DEF LimitSet, LimitOf, Whole
<1>1. CASE config_init
  BY <1>1 DEF config_init, LimitSet
<1>2. CASE config_write_all
  BY <1>2 DEF config_write_all, LimitSet
<1>3. CASE WriteAllFails
  BY <1>3 DEF WriteAllFails
<1>4. CASE current_monitor_init
  <2>1. limit' = LimitOf(config) /\ config' = config /\ pc' # "field"
    BY <1>4 DEF current_monitor_init, Sent
  <2> QED
    BY <2>1 DEF LimitSet, LimitOf
<1>5. CASE config_write_field
  <2>1. PICK r : /\ Typed(r) /\ Limits(r) /\ req' = r
                 /\ \/ /\ r.addr = addr["maxCurrentCutoff"] /\ pc' = "limit"
                       /\ UNCHANGED <<config, wanted, lowered, split, next>>
                    \/ r.addr # addr["maxCurrentCutoff"] /\ CopyRange(r)
    BY <1>5, Requested
  <2>2. pc = "idle" /\ limit' = limit /\ failed' = failed
    BY <1>5 DEF config_write_field
  <2>3. CASE pc' = "limit" /\ UNCHANGED <<config, wanted, lowered, split, next>>
    BY <1>0, <2>2, <2>3
  <2>4. CASE r.addr # addr["maxCurrentCutoff"] /\ CopyRange(r)
    <3>1. mcc \notin Whole(r) /\ mcc \notin Whole(req')
      BY <2>1, <2>4 DEF Whole
    <3>2. ASSUME mcc \notin split'
          PROVE  limit' = LimitOf(config')
      <4>1. mcc \notin split /\ mcc \notin Bypassed(r)
        BY <2>1, <2>4, <3>2, Copies
      <4>2. limit = LimitOf(config)
        BY <2>2, <4>1 DEF LimitSet
      <4> QED
        BY <2>1, <2>2, <2>4, <3>1, <4>1, <4>2, LimitCopied
    <3>3. limit' = LimitOf(config') <=> limit' = LimitOf(config)'
      BY DEF LimitOf
    <3> QED
      BY <3>1, <3>2, <3>3 DEF LimitSet
  <2> QED
    BY <2>1, <2>3, <2>4
<1>6. CASE current_monitor_set_overcurrent
  <2>1. /\ pc = "limit" /\ Typed(req) /\ CopyRange(req) /\ req' = req
        /\ req.addr = addr[mcc]
        /\ mcc \in Whole(req) => req.value = req.head
        /\ limit' = LimitFor(req.value)
    BY <1>6 DEF current_monitor_set_overcurrent, Types, Sent
  <2>2. mcc \in Whole(req) => limit' = LimitOf(config')
    BY <2>1, LimitCopied
  <2>3. mcc \in Whole(req) \/ mcc \in Bypassed(req)
    BY <2>1, Names DEF Bypassed
  <2>4. mcc \notin split' => mcc \in Whole(req)
    BY <2>1, <2>3, Copies
  <2>5. limit' = LimitOf(config') <=> limit' = LimitOf(config)'
    BY DEF LimitOf
  <2>6. mcc \in Whole(req') <=> mcc \in Whole(req)
    BY <2>1
  <2> QED
    BY <2>2, <2>4, <2>5, <2>6 DEF LimitSet
<1>7. CASE WriteField
  <2>1. pc = "field" /\ UNCHANGED <<limit, config, failed>>
    BY <1>7 DEF WriteField, EndOfCall
  <2>2. CASE UNCHANGED <<pc, req, split>>
    BY <1>0, <2>1, <2>2
  <2>3. CASE pc' = "idle" /\ split' = split \ Whole(req)
    <3>1. mcc \notin split' => limit = LimitOf(config)
      BY <2>1, <2>3 DEF LimitSet
    <3> QED
      BY <2>1, <2>3, <3>1 DEF LimitSet, LimitOf
  <2> QED
    BY <1>7, <2>2, <2>3 DEF WriteField, EndOfCall
<1>8. CASE WriteFieldFails
  BY <1>8 DEF WriteFieldFails
<1>9. CASE PowerLoss
  BY <1>9 DEF PowerLoss, LimitSet
<1>10. CASE UNCHANGED vars
  BY <1>10 DEF vars, LimitSet, LimitOf, Whole
<1> QED
  BY <1>1, <1>2, <1>3, <1>4, <1>5, <1>6, <1>7, <1>8, <1>9, <1>10 DEF Next, Step

\* The INA226 has the limit of the image, rounded up, between calls, although
\* it is sent before the image is changed (config.c:139); a request for a part
\* of the field ends that until the field is written whole.
THEOREM LimitFollows == Spec => []LimitAgrees
<1>1. Init => LimitSet
  BY DEF Init, LimitSet
<1>2. Types /\ LimitSet => LimitAgrees
  <2> SUFFICES ASSUME Types, LimitSet, pc = "idle", failed # "now",
                      "maxCurrentCutoff" \notin split,
                      NEW b \in BytesOf("maxCurrentCutoff")
               PROVE  AlertStep * limit[b] - config[b] \in 0..(AlertStep - 1)
    BY DEF LimitAgrees
  <2>1. config[b] \in Int
    BY Names, FieldFacts DEF Types, Images
  <2>2. limit[b] = (config[b] + AlertStep - 1) \div AlertStep
    BY DEF LimitSet, LimitOf, RoundedUp
  <2>3. AlertStep \in Nat \ {0}
    BY ConfigAssumption
  <2> QED
    BY <2>1, <2>2, <2>3, RoundsUp
<1> QED
  BY <1>1, <1>2, LimitSetKept, TypesHold, PTL DEF Spec

-----------------------------------------------------------------------------
(* The charge voltage.                                                      *)

\* An image that no call has changed is the only mixture of itself.
LEMMA MixedSame ==
  ASSUME NEW im \in Images
  PROVE  /\ \A W : Mixed(im, im, W) = im
         /\ \A s : Cutoff(im) >= 0 /\ ("chargeVoltage" \notin s => Within(im))
                     => InPack(im, im, s)
<1>1. \A W : Mixed(im, im, W) = im
  BY DEF Mixed, Images
<1> QED
  BY <1>1 DEF InPack

\* The images before and after a call are mixtures of the two.
LEMMA MixedEnds ==
  ASSUME NEW x \in Images, NEW y \in Images, NEW s, InPack(x, y, s)
  PROVE  /\ Cutoff(x) >= 0 /\ ("chargeVoltage" \notin s => Within(x))
         /\ Cutoff(y) >= 0 /\ ("chargeVoltage" \notin s => Within(y))
<1>1. Mixed(x, y, {}) = x
  BY DEF Mixed, Images
<1>2. Mixed(x, y, Index) = y
  <2>1. \A b \in Bytes : b \div 2 \in Index
    BY WordOfByte
  <2> QED
    BY <2>1 DEF Mixed, Images
<1>3. {} \in SUBSET Index /\ Index \in SUBSET Index
  OBVIOUS
<1> QED
  BY <1>1, <1>2, <1>3 DEF InPack

\* A pack with as many cells and as high a cutoff allows as much.
LEMMA PackGrows ==
  ASSUME NEW x \in Nat, NEW y \in Nat, NEW p \in Nat, NEW q \in Nat,
         x <= p, y <= q
  PROVE  x * y <= p * q
<1>1. x * y <= p * y
  OBVIOUS
<1>2. p * y <= p * q
  OBVIOUS
<1>3. x * y \in Int /\ p * y \in Int /\ p * q \in Int
  OBVIOUS
<1> QED
  BY <1>1, <1>2, <1>3

\* What a request that lowers neither field of the pack makes of an image im,
\* and of every mixture M of the two.
LEMMA MixtureWithin ==
  ASSUME NEW im \in Images, NEW r, Typed(r),
         NEW M \in Images,
         \A f \in Whole(r) : \A b \in BytesOf(f) : M[b] \in {im[b], r.head},
         \A f \in Fields \ (Whole(r) \union Bypassed(r)) :
           \A b \in BytesOf(f) : M[b] = im[b],
         Bypassed(r) \intersect PackFields = {},
         \A f \in PackFields : f \in Whole(r) =>
           Number(f, r.head) >= Number(f, im[addr[f]]),
         "chargeVoltage" \in Whole(r) => r.head <= Pack(im),
         Cutoff(im) >= 0
  PROVE  /\ Cutoff(M) >= 0
         /\ Within(im) /\ "chargeVoltage" \notin Bypassed(r) => Within(M)
<1> DEFINE cv == "chargeVoltage"
           n == addr["numCells"]
           h == addr["highVoltageCutoff"]
           c == addr[cv]
<1>1. /\ c \in BytesOf(cv) /\ BytesOf(cv) \subseteq Bytes
      /\ n \in BytesOf("numCells") /\ h \in BytesOf("highVoltageCutoff")
      /\ n \in Bytes /\ h \in Bytes /\ c \in Bytes
  BY Names, FieldFacts
<1>2. /\ "numCells" \notin Bypassed(r) /\ "highVoltageCutoff" \notin Bypassed(r)
      /\ "numCells" \in PackFields /\ "highVoltageCutoff" \in PackFields
  BY DEF PackFields
<1>3. /\ im[n] \in Int /\ im[h] \in Int /\ im[c] \in Int
      /\ M[n] \in Int /\ M[h] \in Int /\ M[c] \in Int /\ r.head \in Int
  BY <1>1 DEF Images, Typed
<1>4. Number("numCells", M[n]) >= Number("numCells", im[n])
  <2>1. \A x \in Int : Number("numCells", x) \in Int
    BY DEF Number
  <2>2. CASE "numCells" \in Whole(r)
    <3>1. M[n] = im[n] \/ M[n] = r.head
      BY <1>1, <2>2
    <3>2. Number("numCells", r.head) >= Number("numCells", im[n])
      BY <1>2, <2>2
    <3> QED
      BY <1>3, <2>1, <3>1, <3>2
  <2>3. CASE "numCells" \notin Whole(r)
    <3>1. M[n] = im[n]
      BY <1>1, <1>2, <2>3, Names
    <3> QED
      BY <1>3, <2>1, <3>1
  <2> QED
    BY <2>2, <2>3
<1>5. M[h] >= im[h]
  <2>1. CASE "highVoltageCutoff" \in Whole(r)
    <3>1. M[h] = im[h] \/ M[h] = r.head
      BY <1>1, <2>1
    <3>2. Number("highVoltageCutoff", r.head) >= Number("highVoltageCutoff", im[h])
      BY <1>2, <2>1
    <3>3. r.head >= im[h]
      BY <3>2 DEF Number
    <3> QED
      BY <1>3, <3>1, <3>3
  <2>2. CASE "highVoltageCutoff" \notin Whole(r)
    <3>1. M[h] = im[h]
      BY <1>1, <1>2, <2>2, Names
    <3> QED
      BY <1>3, <3>1
  <2> QED
    BY <2>1, <2>2
<1>6. im[h] >= 0
  BY DEF Cutoff
<1>7. M[h] >= 0
  BY <1>3, <1>5, <1>6
<1>8. Pack(im) <= Pack(M) /\ Pack(im) \in Int /\ Pack(M) \in Int
  <2>1. /\ Number("numCells", im[n]) \in Nat /\ Number("numCells", M[n]) \in Nat
        /\ im[h] \in Nat /\ M[h] \in Nat
    BY <1>3, <1>6, <1>7, PackIsInt
  <2>2. Number("numCells", im[n]) * im[h] <= Number("numCells", M[n]) * M[h]
    <3> DEFINE x == Number("numCells", im[n])
               p == Number("numCells", M[n])
    <3>1. x \in Nat /\ p \in Nat /\ x <= p /\ im[h] <= M[h]
      BY <1>3, <1>4, <1>5, <2>1
    <3> HIDE DEF x, p
    <3>2. x * im[h] <= p * M[h]
      BY <2>1, <3>1, PackGrows
    <3> QED
      BY <3>2 DEF x, p
  <2> QED
    BY <2>2, PackIsInt DEF Pack, Cutoff
<1>9. ASSUME Within(im), cv \notin Bypassed(r), \A a, b \in BytesOf(cv) : M[a] = M[b]
      PROVE  M[c] <= Pack(M)
  <2>1. M[c] <= Pack(im)
    <3>1. CASE \A b \in BytesOf(cv) : M[b] = im[b]
      <4>1. \A a, b \in BytesOf(cv) : im[a] = im[b]
        BY <1>9, <3>1
      <4>2. M[c] = im[c]
        BY <1>1, <3>1
      <4> QED
        BY <1>9, <4>1, <4>2 DEF Within
    <3>2. CASE \E b \in BytesOf(cv) : M[b] # im[b]
      <4>1. PICK b \in BytesOf(cv) : M[b] # im[b]
        BY <3>2
      <4>2. cv \in Whole(r)
        BY <1>9, <4>1, Names
      <4>3. M[b] = r.head /\ M[c] = M[b]
        BY <1>1, <1>9, <4>1, <4>2
      <4> QED
        BY <4>2, <4>3
    <3> QED
      BY <3>1, <3>2
  <2> QED
    BY <1>3, <1>8, <2>1
<1> QED
  BY <1>7, <1>9 DEF Within, Cutoff

\* The copy of a request: the mixtures of the image and what it becomes.
LEMMA CopyInPack ==
  ASSUME Types, NEW r, Typed(r), Limits(r), CopyRange(r), ~LowersPack(r),
         Cutoff(config) >= 0, "chargeVoltage" \notin split => Within(config)
  PROVE  InPack(config, config', split')
<1>1. /\ config \in Images /\ config' \in Images
      /\ split' = split \union Bypassed(r)
      /\ \A f \in Whole(r) : \A b \in BytesOf(f) : config'[b] = r.head
      /\ \A f \in Fields \ (Whole(r) \union Bypassed(r)) :
           \A b \in BytesOf(f) : config'[b] = config[b]
  BY Copies DEF Types
<1>2. Bypassed(r) \intersect PackFields = {}
  BY DEF LowersPack
<1>3. ASSUME NEW f \in PackFields, f \in Whole(r)
      PROVE  Number(f, r.head) >= Number(f, config[addr[f]])
  <2>1. ~(Number(f, r.head) < Number(f, config[addr[f]]))
    BY <1>3 DEF LowersPack, Field
  <2>2. config[addr[f]] \in Int /\ r.head \in Int
    BY <1>1, Names, FieldFacts DEF PackFields, Images, Typed
  <2>3. Number(f, r.head) \in Int /\ Number(f, config[addr[f]]) \in Int
    BY <2>2 DEF Number
  <2> QED
    BY <2>1, <2>3
<1>4. "chargeVoltage" \in Whole(r) => r.head <= Pack(config)
  BY DEF Limits
<1>5. ASSUME NEW W \in SUBSET Index
      PROVE  /\ Cutoff(Mixed(config, config', W)) >= 0
             /\ "chargeVoltage" \notin split' => Within(Mixed(config, config', W))
  <2> DEFINE M == Mixed(config, config', W)
  <2>1. M \in Images /\ \A b \in Bytes : M[b] \in {config[b], config'[b]}
    BY <1>1 DEF Mixed, Images
  <2> HIDE DEF M
  <2>2. \A f \in Whole(r) : \A b \in BytesOf(f) : M[b] \in {config[b], r.head}
    BY <1>1, <2>1, FieldFacts DEF Whole
  <2>3. \A f \in Fields \ (Whole(r) \union Bypassed(r)) :
          \A b \in BytesOf(f) : M[b] = config[b]
    BY <1>1, <2>1, FieldFacts
  <2>4. /\ Cutoff(M) >= 0
        /\ Within(config) /\ "chargeVoltage" \notin Bypassed(r) => Within(M)
    BY <1>1, <1>2, <1>3, <1>4, <2>1, <2>2, <2>3, MixtureWithin
  <2> QED
    BY <1>1, <2>4 DEF M
<1> QED
  BY <1>5 DEF InPack

\* A whole write of chargeVoltage has been limited by the pack it is copied to.
LEMMA CopySets ==
  ASSUME Types, NEW r, Typed(r), Limits(r), CopyRange(r),
         "chargeVoltage" \in Whole(r), Bypassed(r) \intersect PackFields = {},
         Cutoff(config') >= 0
  PROVE  Within(config')
<1>1. /\ "numCells" \notin Whole(r) \union Bypassed(r)
      /\ "highVoltageCutoff" \notin Whole(r) \union Bypassed(r)
  BY Names, Injective DEF Whole, PackFields
<1>2. /\ config'[addr["numCells"]] = config[addr["numCells"]]
      /\ config'[addr["highVoltageCutoff"]] = config[addr["highVoltageCutoff"]]
      /\ config'[addr["chargeVoltage"]] = r.head
  BY <1>1, Copies, Names, FieldFacts
<1>3. Pack(config') = Pack(config) /\ Cutoff(config) >= 0
  BY <1>2 DEF Pack, Cutoff
<1>4. r.head <= Pack(config)
  BY <1>3 DEF Limits
<1> QED
  BY <1>2, <1>3, <1>4 DEF Within

\* The copy, with the image as it was in before.
LEMMA CopyMixed ==
  ASSUME Types, NEW r, Typed(r), Limits(r), CopyRange(r),
         before' = config, req' = r,
         failed' = "never" /\ ~lowered => InPack(config, config, split)
  PROVE  MixedWithin'
<1>1. /\ config \in Images /\ wanted' = config' /\ pc' = "field"
  BY Copies DEF Types
<1>2. ASSUME failed' = "never", ~lowered'
      PROVE  InPack(before', wanted', split')
  <2>1. ~lowered /\ ~LowersPack(r)
    BY <1>2, Zenon DEF CopyRange
  <2>2. InPack(config, config, split)
    BY <1>2, <2>1, Zenon
  <2>3. InPack(config, config', split')
    BY <1>1, <2>1, <2>2, MixedEnds, CopyInPack
  <2> QED
    BY <1>1, <2>3
<1>3. ASSUME VoltageSet' PROVE Within(config')
  <2>1. /\ "chargeVoltage" \in Whole(r) /\ Bypassed(r) \intersect PackFields = {}
        /\ Field("highVoltageCutoff")' >= 0
    BY <1>3 DEF VoltageSet
  <2>2. Cutoff(config') >= 0
    BY <2>1 DEF Field, Number, Cutoff
  <2> QED
    BY <2>1, <2>2, CopySets
<1>4. ASSUME Bypassed(r) \intersect PackFields # {} PROVE lowered'
  <2>1. LowersPack(r)
    BY <1>4 DEF LowersPack
  <2> QED
    BY <2>1, Zenon DEF CopyRange
<1>5. Bypassed(req') = Bypassed(r)
  OBVIOUS
<1> QED
  BY <1>1, <1>2, <1>3, <1>4, <1>5, Zenon DEF MixedWithin

LEMMA MixedWithinKept ==
  /\ Types /\ Histories /\ TornByWords /\ MixedWithin
  /\ [Next]_vars
  => MixedWithin'
<1> SUFFICES ASSUME Types, Histories, TornByWords, MixedWithin, [Next]_vars
             PROVE  MixedWithin'
  OBVIOUS
<1> USE DEF history
<1>0. ASSUME UNCHANGED <<before, wanted, lowered, split>>,
             failed' = "never" => failed = "never",
             \/ pc' # "field"
             \/ pc = "field" /\ pc' = pc /\ UNCHANGED <<req, config>>
      PROVE  MixedWithin'
  <2>1. failed' = "never" /\ ~lowered' => InPack(before', wanted', split')
    BY <1>0, Zenon DEF MixedWithin
  <2>2. CASE pc' # "field"
    BY <2>1, <2>2, Zenon DEF MixedWithin
  <2>3. CASE pc = "field" /\ pc' = pc /\ UNCHANGED <<req, config>>
    <3>1. VoltageSet' <=> VoltageSet
      BY <2>3 DEF VoltageSet, Field
    <3>2. /\ VoltageSet => Within(config)
          /\ Bypassed(req) \intersect PackFields # {} => lowered
      BY <2>3, Zenon DEF MixedWithin
    <3>3. config' = config /\ Bypassed(req') = Bypassed(req) /\ lowered' = lowered
      BY <1>0, <2>3
    <3> QED
      BY <2>1, <3>1, <3>2, <3>3, Zenon DEF MixedWithin
  <2> QED
    BY <1>0, <2>2, <2>3
<1>1. ASSUME before' = config, wanted' = config, pc' # "field",
             failed' = "never" /\ ~lowered' => InPack(config, config, split')
      PROVE  MixedWithin'
  BY <1>1, Zenon DEF MixedWithin
<1>2. CASE config_init
  BY <1>0, <1>2 DEF config_init
<1>3. CASE config_write_all
  BY <1>0, <1>3 DEF config_write_all
<1>4. CASE WriteAllFails
  BY <1>0, <1>4 DEF WriteAllFails
<1>5. CASE current_monitor_init
  <2>1. /\ pc = "monitor" /\ before' = config /\ wanted' = config /\ pc' = "idle"
        /\ lowered' = lowered /\ split' = split
        /\ (failed' = "never" => failed = "never")
    BY <1>5 DEF current_monitor_init, Sent
  <2>2. ASSUME failed = "never", ~lowered
        PROVE  InPack(config, config, split)
    <3> DEFINE S == {w \in Index : Word(config, w) = Word(wanted, w)}
    <3>1. ASSUME NEW b \in Bytes
          PROVE  config[b] = IF b \div 2 \in S THEN wanted[b] ELSE before[b]
      <4>1. /\ b \div 2 \in Index
            /\ Word(config, b \div 2)[1 + (b % 2)] = config[b]
            /\ Word(before, b \div 2)[1 + (b % 2)] = before[b]
            /\ Word(wanted, b \div 2)[1 + (b % 2)] = wanted[b]
        BY <3>1, WordOfByte DEF Types
      <4>2. Word(config, b \div 2) \in {Word(before, b \div 2), Word(wanted, b \div 2)}
        BY <2>1, <2>2, <4>1 DEF TornByWords
      <4> QED
        BY <4>1, <4>2
    <3>2. S \in SUBSET Index
      OBVIOUS
    <3> HIDE DEF S
    <3>3. config = Mixed(before, wanted, S)
      BY <3>1 DEF Mixed, Types, Images
    <3>4. InPack(before, wanted, split)
      BY <2>2, Zenon DEF MixedWithin
    <3>5. Cutoff(config) >= 0 /\ ("chargeVoltage" \notin split => Within(config))
      BY <3>2, <3>3, <3>4 DEF InPack
    <3> QED
      BY <3>5, MixedSame DEF Types
  <2> QED
    BY <1>1, <2>1, <2>2, Zenon
<1>6. ASSUME before = config, wanted = config, failed = "never", ~lowered
      PROVE  InPack(config, config, split)
  <2>1. InPack(before, wanted, split)
    BY <1>6, Zenon DEF MixedWithin
  <2> QED
    BY <1>6, <2>1
<1>7. CASE config_write_field
  <2>1. PICK r : /\ Typed(r) /\ Limits(r) /\ req' = r
                 /\ \/ /\ r.addr = addr["maxCurrentCutoff"] /\ pc' = "limit"
                       /\ UNCHANGED <<config, wanted, lowered, split, next>>
                    \/ r.addr # addr["maxCurrentCutoff"] /\ CopyRange(r)
    BY <1>7, Requested
  <2>2. /\ pc = "idle" /\ before' = config /\ failed' = failed
        /\ before = config /\ wanted = config
    BY <1>7 DEF config_write_field, Histories
  <2>3. CASE pc' = "limit" /\ UNCHANGED <<config, wanted, lowered, split, next>>
    BY <1>0, <2>2, <2>3
  <2>4. CASE CopyRange(r)
    <3>1. failed' = "never" /\ ~lowered => InPack(config, config, split)
      BY <1>6, <2>2, Zenon
    <3> QED
      BY <2>1, <2>2, <2>4, <3>1, CopyMixed
  <2> QED
    BY <2>1, <2>3, <2>4
<1>8. CASE current_monitor_set_overcurrent
  <2>1. /\ pc = "limit" /\ CopyRange(req) /\ before' = before /\ req' = req
        /\ (failed' = "never" => failed = "never")
        /\ before = config /\ wanted = config
    BY <1>8 DEF current_monitor_set_overcurrent, Sent, Histories
  <2>2. Typed(req) /\ Limits(req)
    <3>1. /\ Typed(req) /\ req.addr = addr["maxCurrentCutoff"]
          /\ "maxCurrentCutoff" \in Whole(req) => req.value = req.head
      BY <2>1 DEF Types
    <3>2. /\ "numCells" \notin Whole(req) /\ "highVoltageCutoff" \notin Whole(req)
          /\ "chargeVoltage" \notin Whole(req)
      BY <3>1, Names, Injective DEF Whole
    <3> QED
      BY <3>1, <3>2 DEF Limits
  <2>3. failed' = "never" /\ ~lowered => InPack(config, config, split)
    BY <1>6, <2>1, Zenon
  <2> QED
    BY <2>1, <2>2, <2>3, CopyMixed
<1>9. CASE WriteField
  <2>1. CASE UNCHANGED <<session, pc, config, req, limit, history, crashes>>
    BY <1>0, <1>9, <2>1 DEF WriteField
  <2>2. CASE EndOfCall /\ lowered' = (lowered /\ ~VoltageSet)
               /\ split' = split \ Whole(req)
    <3>1. /\ pc = "field" /\ pc' = "idle" /\ before' = config /\ wanted' = config
          /\ wanted = config /\ failed' = failed
      BY <1>9, <2>2 DEF WriteField, EndOfCall, Histories
    <3>2. config \in Images /\ before \in Images /\ wanted \in Images
      BY DEF Types
    <3>3. ASSUME VoltageSet PROVE InPack(config, config, split')
      <4>1. Within(config)
        BY <3>1, <3>3, Zenon DEF MixedWithin
      <4>2. Cutoff(config) >= 0
        BY <3>3 DEF VoltageSet, Field, Number, Cutoff
      <4> QED
        BY <3>2, <4>1, <4>2, MixedSame
    <3>4. ASSUME failed = "never", ~lowered PROVE InPack(config, config, split')
      <4>1. InPack(before, wanted, split)
        BY <3>4, Zenon DEF MixedWithin
      <4>2. Cutoff(config) >= 0 /\ ("chargeVoltage" \notin split => Within(config))
        BY <3>1, <3>2, <4>1, MixedEnds
      <4>3. CASE "chargeVoltage" \in Whole(req)
        <5>1. Bypassed(req) \intersect PackFields = {}
          BY <3>1, <3>4, Zenon DEF MixedWithin
        <5>2. VoltageSet
          BY <4>2, <4>3, <5>1 DEF VoltageSet, Field, Number, Cutoff
        <5> QED
          BY <3>3, <5>2
      <4>4. CASE "chargeVoltage" \notin Whole(req)
        BY <2>2, <3>2, <4>2, <4>4, MixedSame
      <4> QED
        BY <4>3, <4>4
    <3>5. ~lowered' => ~lowered \/ VoltageSet
      BY <2>2, Zenon
    <3>6. failed' = "never" /\ ~lowered' => InPack(config, config, split')
      BY <3>1, <3>3, <3>4, <3>5, Zenon
    <3>7. before' = config /\ wanted' = config /\ pc' # "field"
      BY <3>1
    <3> QED
      BY <1>1, <3>6, <3>7, Zenon
  <2> QED
    BY <1>9, <2>1, <2>2 DEF WriteField
<1>10. CASE WriteFieldFails
  <2>1. failed' # "never" /\ pc' # "field"
    BY <1>10 DEF WriteFieldFails, EndOfCall
  <2> QED
    BY <2>1, Zenon DEF MixedWithin
<1>11. CASE PowerLoss
  BY <1>0, <1>11 DEF PowerLoss
<1>12. CASE UNCHANGED vars
  BY <1>0, <1>12 DEF vars
<1> QED
  BY <1>2, <1>3, <1>4, <1>5, <1>7, <1>8, <1>9, <1>10, <1>11, <1>12 DEF Next, Step

\* The clamp of chargeVoltage survives torn writes of any of the three fields
\* it depends on, until one of the other two is lowered (config.c:120), or a
\* request that is not for the whole of a field gets past a clamp.
THEOREM VoltageStaysWithin == Spec => []VoltageWithinPack
<1>1. Init => MixedWithin
  <2> SUFFICES ASSUME Init PROVE MixedWithin
    OBVIOUS
  <2>1. /\ defaults \in Images
        /\ defaults[addr["numCells"]] \in Nat
        /\ defaults[addr["highVoltageCutoff"]] \in Nat
    BY ConfigAssumption, Names, FieldFacts DEF Images
  <2>2. defaults[addr["numCells"]] <= 255
    BY <2>1, ConfigAssumption
  <2>3. Pack(defaults)
          = defaults[addr["numCells"]] * defaults[addr["highVoltageCutoff"]]
    BY <2>1, <2>2 DEF Pack, Number, Cutoff
  <2>4. Within(defaults) /\ Cutoff(defaults) >= 0
    BY <2>1, <2>3, ConfigAssumption DEF Within, Cutoff
  <2> QED
    BY <2>1, <2>4, MixedSame DEF Init, MixedWithin
<1>2. Types /\ Histories /\ MixedWithin => VoltageWithinPack
  <2> SUFFICES ASSUME Types, Histories, MixedWithin, pc = "idle",
                      failed = "never", ~lowered, "chargeVoltage" \notin split,
                      ~Torn("chargeVoltage")
               PROVE  Field("chargeVoltage")
                        <= Field("numCells") * Field("highVoltageCutoff")
    BY DEF VoltageWithinPack
  <2>1. InPack(before, wanted, split) /\ before = config /\ config \in Images
        /\ wanted = config
    BY Zenon DEF MixedWithin, Histories, Types
  <2>2. Within(config)
    BY <2>1, MixedEnds
  <2>3. \A a, b \in BytesOf("chargeVoltage") : config[a] = config[b]
    BY DEF Torn
  <2> QED
    BY <2>2, <2>3 DEF Within, Field, Number, Pack, Cutoff
<1> QED
  BY <1>1, <1>2, MixedWithinKept, TypesHold, OldOrNewHolds, TearsByWords, PTL
  DEF Spec
=============================================================================
