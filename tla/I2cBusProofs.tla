---------------------------- MODULE I2cBusProofs ----------------------------
(***************************************************************************)
(* Proofs about the users of the I2C bus, for any number of transfers in   *)
(* each section, with or without timeouts, and for all dates.              *)
(***************************************************************************)
EXTENDS I2cBus, FiniteSetTheorems, WellFoundedInduction, TLAPS

-----------------------------------------------------------------------------
(* The inductive invariant.                                                 *)

Places == Sections \union {"away", "exit"}

Types ==
  /\ at \in [Threads -> Places]
  /\ active \subseteq Threads
  /\ waiting \subseteq Threads

\* A thread with a transfer under way is in a section and does not wait; in
\* every section but that of rtcc_enable_alarm it owns the bus.
ActiveOwns ==
  \A t \in active :
    /\ at[t] \in Sections
    /\ at[t] \in Locked => owner = t
    /\ t \notin waiting

\* Whoever waits for the bus is at the beginning of a section that takes it.
WaitingForSection == \A t \in waiting : at[t] \in Locked

\* The packet thread has one section only; rtcc_enable_alarm is not its own.
PacketSection == at["packet"] \in {"away", "overcurrent"}

IInv == Types /\ ActiveOwns /\ WaitingForSection /\ PacketSection

-----------------------------------------------------------------------------
(* The driver and the mutex.                                                *)

LEMMA Names ==
  /\ Locked \subseteq Sections
  /\ Sections \subseteq Places
  /\ {"away", "exit"} \intersect Sections = {}
  /\ "main" \in Threads /\ "packet" \in Threads
BY DEF Locked, Sections, Places, Threads

\* A thread that is neither active nor waiting, and that does not see the bus
\* taken from another one, goes on to a section: at once, or as a waiter.
LEMMA EnterKeeps ==
  ASSUME IInv, NEW t \in Threads, NEW s \in Sections, NEW d, NEW o,
         t = "packet" => s = "overcurrent",
         t \notin waiting,
         \A u \in active \ {t} : at[u] \in Locked => o = u,
         Enter(t, s, d, o, active \ {t}, waiting)
  PROVE  IInv'
<1> USE DEF IInv
<1>1. Types'
  <2>1. at' = [at EXCEPT ![t] = s] /\ s \in Places
    BY Names DEF Enter
  <2>2. active' \subseteq Threads /\ waiting' \subseteq Threads
    BY DEF Types, Enter, Transmit
  <2> QED
    BY <2>1, <2>2 DEF Types
<1>2. at'[t] = s /\ \A u \in Threads \ {t} : at'[u] = at[u]
  BY DEF Types, Enter
<1>3. PacketSection'
  BY <1>2, Names DEF PacketSection
<1>4. CASE Acquired(t, s, o)
  <2>1. /\ active' = (active \ {t}) \union {t}
        /\ waiting' = waiting
        /\ owner' = OwnerAfter(t, s, o)
    BY <1>4 DEF Enter, Transmit
  <2>2. s \in Locked => owner' = t
    BY <2>1 DEF OwnerAfter
  <2>3. ASSUME NEW u \in active \ {t}
        PROVE  /\ at'[u] \in Sections
               /\ at'[u] \in Locked => owner' = u
               /\ u \notin waiting'
    <3>1. at'[u] = at[u] /\ u \in Threads
      BY <1>2 DEF Types
    <3>2. at[u] \in Locked => o = u /\ s \notin Locked
      BY <1>4, <3>1 DEF Acquired, Threads
    <3> QED
      BY <2>1, <3>1, <3>2 DEF ActiveOwns, OwnerAfter
  <2>4. ActiveOwns'
    BY <1>2, <2>1, <2>2, <2>3 DEF ActiveOwns
  <2>5. WaitingForSection'
    BY <1>2, <2>1 DEF WaitingForSection, Types
  <2> QED
    BY <1>1, <1>3, <2>4, <2>5
<1>5. CASE ~Acquired(t, s, o)
  <2>1. /\ active' = active \ {t}
        /\ waiting' = waiting \union {t}
        /\ owner' = o
        /\ s \in Locked
    BY <1>5 DEF Enter, Acquired
  <2>2. ActiveOwns'
    BY <1>2, <2>1 DEF ActiveOwns, Types
  <2>3. WaitingForSection'
    BY <1>2, <2>1 DEF WaitingForSection, Types
  <2> QED
    BY <1>1, <1>3, <2>2, <2>3
<1> QED
  BY <1>4, <1>5

\* The same for a thread that leaves for another wait.
LEMMA LeaveKeeps ==
  ASSUME IInv, NEW t \in Threads, NEW place \in {"away", "exit"}, NEW d, NEW o,
         t = "packet" => place = "away",
         t \notin waiting,
         \A u \in active \ {t} : at[u] \in Locked => o = u,
         Leave(t, place, d, o, active \ {t}, waiting)
  PROVE  IInv'
<1> USE DEF IInv
<1>1. /\ at' = [at EXCEPT ![t] = place] /\ place \in Places
      /\ active' = active \ {t}
      /\ waiting' = waiting
      /\ owner' = o
  BY DEF Leave, Places
<1>2. at'[t] = place /\ \A u \in Threads \ {t} : at'[u] = at[u]
  BY <1>1 DEF Types
<1>3. Types' /\ PacketSection'
  BY <1>1, <1>2, Names DEF Types, PacketSection
<1>4. ActiveOwns'
  BY <1>1, <1>2 DEF ActiveOwns, Types
<1>5. WaitingForSection'
  BY <1>1, <1>2 DEF WaitingForSection, Types
<1> QED
  BY <1>3, <1>4, <1>5

-----------------------------------------------------------------------------
(* The steps.                                                               *)

\* A thread that comes from elsewhere begins a section.
LEMMA StartKeeps ==
  ASSUME IInv, NEW t \in Threads, at[t] = "away", NEW s \in Sections,
         t = "packet" => s = "overcurrent",
         Enter(t, s, state, owner, active, waiting)
  PROVE  IInv'
<1> USE DEF IInv
<1>1. t \notin active /\ t \notin waiting
  BY Names DEF ActiveOwns, WaitingForSection
<1>2. active \ {t} = active
  BY <1>1
<1>3. \A u \in active \ {t} : at[u] \in Locked => owner = u
  BY DEF ActiveOwns
<1> QED
  BY <1>1, <1>2, <1>3, EnterKeeps

LEMMA GrantedKeeps ==
  ASSUME IInv, NEW t \in Threads, Granted(t)
  PROVE  IInv'
<1> USE DEF IInv
<1>1. /\ active' = active \union {t}
      /\ waiting' = waiting \ {t}
      /\ owner' = t /\ owner = t
      /\ at' = at /\ t \in waiting
  BY DEF Granted, Transmit
<1>2. at[t] \in Locked /\ at[t] \in Sections
  BY <1>1, Names DEF WaitingForSection
<1>3. Types' /\ PacketSection' /\ WaitingForSection'
  BY <1>1 DEF Types, PacketSection, WaitingForSection
<1>4. ActiveOwns'
  BY <1>1, <1>2 DEF ActiveOwns
<1> QED
  BY <1>3, <1>4

\* After its last transfer a thread hands over the bus, if it had it, and goes
\* on with whatever follows.
LEMMA TransferEndsKeeps ==
  ASSUME IInv, NEW t \in Threads, NEW outcome, NEW ok,
         TransferEnds(t, outcome, ok)
  PROVE  IInv'
<1> USE DEF IInv
<1> DEFINE o == IF at[t] \in Locked THEN HandOver(t) ELSE owner
<1>1. t \in active
  BY DEF TransferEnds
<1>2. CASE left[t] > 1 /\ Transmit(t, outcome, active \ {t})
             /\ UNCHANGED <<at, waiting, owner, shutdown>>
  <2>1. active' = active
    BY <1>1, <1>2 DEF Transmit
  <2> QED
    BY <1>2, <2>1 DEF Types, ActiveOwns, WaitingForSection, PacketSection
<1>3. ASSUME NEW n \in After(at[t]),
             IF n \in Sections
             THEN Enter(t, n, outcome, o, active \ {t}, waiting)
             ELSE Leave(t, n, outcome, o, active \ {t}, waiting)
      PROVE  IInv'
  <2>1. t \notin waiting /\ at[t] \in Sections
    BY <1>1 DEF ActiveOwns
  <2>2. ASSUME NEW u \in active \ {t}, at[u] \in Locked
        PROVE  o = u
    <3>1. owner = u
      BY <2>2 DEF ActiveOwns
    <3>2. at[t] \notin Locked
      BY <1>1, <2>2, <3>1 DEF ActiveOwns
    <3> QED
      BY <3>1, <3>2
  <2>3. n \in Sections \/ n \in {"away", "exit"}
    BY <1>3, <2>1 DEF After, Sections
  <2>4. t = "packet" => n = "away"
    BY <1>3, <2>1 DEF After, Sections, PacketSection
  <2>5. CASE n \in Sections
    <3>1. Enter(t, n, outcome, o, active \ {t}, waiting)
      BY <1>3, <2>5
    <3> HIDE DEF o
    <3> QED
      BY <2>1, <2>2, <2>4, <2>5, <3>1, Names, EnterKeeps
  <2>6. CASE n \notin Sections
    <3>1. Leave(t, n, outcome, o, active \ {t}, waiting)
      BY <1>3, <2>6
    <3> HIDE DEF o
    <3> QED
      BY <2>1, <2>2, <2>3, <2>4, <2>6, <3>1, LeaveKeeps
  <2> QED
    BY <2>5, <2>6
<1> QED
  BY <1>2, <1>3 DEF TransferEnds

LEMMA Inductive == Spec => []IInv
<1>1. Init => IInv
  BY DEF Init, IInv, Types, ActiveOwns, WaitingForSection, PacketSection, Places,
         Threads
<1>2. IInv /\ [Next]_vars => IInv'
  <2> SUFFICES ASSUME IInv, [Next]_vars PROVE IInv'
    OBVIOUS
  <2>1. CASE current_monitor_update
    BY <2>1, StartKeeps, Names DEF current_monitor_update, Sections
  <2>2. CASE current_monitor_set_overcurrent
    BY <2>2, StartKeeps, Names DEF current_monitor_set_overcurrent, Sections
  <2>3. ASSUME NEW t \in Threads, Thread(t) PROVE IInv'
    BY <2>3, GrantedKeeps, TransferEndsKeeps DEF Thread
  <2>4. CASE Midnight \/ UNCHANGED vars
    BY <2>4 DEF Midnight, vars, IInv, Types, ActiveOwns, WaitingForSection,
                PacketSection
  <2> QED
    BY <2>1, <2>2, <2>3, <2>4 DEF Next
<1> QED
  BY <1>1, <1>2, PTL DEF Spec

-----------------------------------------------------------------------------
(* Theorem.                                                                 *)

\* Two transfers are under way at once only while rtcc_enable_alarm, which
\* does not take the bus (rtcc.c:80), is one of them: i2cAcquireBus and the
\* hand-over of i2cReleaseBus protect all others, however transfers end.
THEOREM OverlapNeedsAlarm == Spec => []OverlapOnlyInAlarm
<1>1. IInv => OverlapOnlyInAlarm
  <2> SUFFICES ASSUME IInv, at["main"] # "alarm" PROVE Cardinality(active) <= 1
    BY DEF OverlapOnlyInAlarm
  <2>1. \A t \in active : at[t] \in Locked /\ owner = t
    BY DEF IInv, Types, ActiveOwns, PacketSection, Locked, Sections, Threads
  <2>2. active = {} \/ \E t \in active : active = {t}
    BY <2>1
  <2>3. \A t \in active : Cardinality({t}) = 1
    BY FS_Singleton
  <2> QED
    BY <2>2, <2>3, FS_EmptySet
<1> QED
  BY <1>1, Inductive, PTL

-----------------------------------------------------------------------------
(* The calendar and the BCD of the registers.                               *)

AllDates == [day : 1..31, month : 1..12, year : 0..99]

\* A set of naturals that is not empty has a least element.
LEMMA LeastOf ==
  ASSUME NEW S \in SUBSET Nat, S # {}
  PROVE  \E m \in S : \A j \in S : m <= j
<1> DEFINE R == {ss \in Nat \X Nat : ss[1] < ss[2]}
<1>1. IsWellFoundedOn(R, Nat)
  BY NatLessThanWellFounded DEF OpToRel
<1> HIDE DEF R
<1>2. PICK m \in S : \A y \in S : <<y, m>> \notin R
  BY <1>1, WFMin
<1>3. \A j \in S : ~(j < m)
  BY <1>2 DEF R
<1> QED
  BY <1>2, <1>3

-----------------------------------------------------------------------------
\* The BCD of the registers and back.
LEMMA BCDInverse ==
  /\ \A x \in 0..39 : HEX_TO_BCD(x) \in Byte /\ Day(HEX_TO_BCD(x)) = x
  /\ \A x \in 0..19 : HEX_TO_BCD(x) \in Byte /\ Month(HEX_TO_BCD(x)) = x
  /\ \A x \in 0..99 : HEX_TO_BCD(x) \in Byte /\ Year(HEX_TO_BCD(x)) = x
BY DEF HEX_TO_BCD, Day, Month, Year, FromBCD, Byte

\* Whatever byte was received, what is made of it is a number.
LEMMA FromBCDType ==
  \A b \in Byte : Day(b) \in Nat /\ Month(b) \in Nat /\ Year(b) \in Nat
BY DEF Day, Month, Year, FromBCD, Byte

\* A month has 28 to 31 days.
LEMMA DaysOfBounds ==
  ASSUME NEW m \in 1..12, NEW y \in 0..99
  PROVE  DaysOf(m, y) \in 28..31
BY DEF DaysOf

\* The day after a date: in its month, or the first of the next one.
LEMMA NextDayIs ==
  ASSUME NEW d, ValidDate(d)
  PROVE  /\ ValidDate(NextDay(d))
         /\ d.day < DaysOf(d.month, d.year) =>
              NextDay(d) = [day |-> d.day + 1, month |-> d.month, year |-> d.year]
         /\ d.day = DaysOf(d.month, d.year) =>
              NextDay(d) = IF d.month < 12
                           THEN [day |-> 1, month |-> d.month + 1, year |-> d.year]
                           ELSE [day |-> 1, month |-> 1, year |-> (d.year + 1) % 100]
<1>1. /\ d \in AllDates /\ d.day <= DaysOf(d.month, d.year)
      /\ d.day \in 1..31 /\ d.month \in 1..12 /\ d.year \in 0..99
  BY DEF ValidDate, AllDates
<1>2. DaysOf(d.month, d.year) \in 28..31
  BY <1>1, DaysOfBounds
<1>3. CASE d.day < DaysOf(d.month, d.year)
  <2>1. NextDay(d) = [d EXCEPT !.day = @ + 1]
    BY <1>1, <1>2, <1>3 DEF NextDay
  <2>2. NextDay(d) = [day |-> d.day + 1, month |-> d.month, year |-> d.year]
    BY <1>1, <2>1 DEF AllDates
  <2> QED
    BY <1>1, <1>2, <1>3, <2>2 DEF ValidDate
<1>4. CASE d.day = DaysOf(d.month, d.year) /\ d.month < 12
  <2>1. NextDay(d) = [d EXCEPT !.day = 1, !.month = @ + 1]
    BY <1>1, <1>2, <1>4 DEF NextDay
  <2>2. NextDay(d) = [day |-> 1, month |-> d.month + 1, year |-> d.year]
    BY <1>1, <2>1 DEF AllDates
  <2>3. DaysOf(d.month + 1, d.year) \in 28..31
    BY <1>1, <1>4, DaysOfBounds
  <2> QED
    BY <1>1, <1>2, <1>4, <2>2, <2>3 DEF ValidDate
<1>5. CASE d.day = DaysOf(d.month, d.year) /\ d.month = 12
  <2>1. NextDay(d) = [day |-> 1, month |-> 1, year |-> (d.year + 1) % 100]
    BY <1>1, <1>2, <1>5 DEF NextDay
  <2>2. (d.year + 1) % 100 \in 0..99
    BY <1>1
  <2>3. DaysOf(1, (d.year + 1) % 100) \in 28..31
    BY <2>2, DaysOfBounds
  <2> QED
    BY <1>1, <1>2, <1>5, <2>1, <2>2, <2>3 DEF ValidDate
<1> QED
  BY <1>1, <1>2, <1>3, <1>4, <1>5

-----------------------------------------------------------------------------
\* A solution f of the recursion of Calendar.
IsCalendar(f, d, limit) ==
  f = [n \in 0..limit |-> IF n = 0 THEN d ELSE NextDay(f[n - 1])]

\* The recursion has a solution: no number of days is the least without one.
LEMMA CalendarIs ==
  ASSUME NEW d, NEW limit \in Nat
  PROVE  IsCalendar(Calendar(d, limit), d, limit)
<1> DEFINE Bad == {m \in Nat : \A f : ~IsCalendar(f, d, m)}
<1>1. ASSUME NEW m \in Bad, \A j \in Bad : m <= j
      PROVE  FALSE
  <2>1. m # 0
    <3>1. IsCalendar([n \in 0..0 |-> d], d, 0)
      BY DEF IsCalendar
    <3> QED
      BY <3>1
  <2>2. m \in Nat /\ m - 1 \in Nat /\ m - 1 \notin Bad
    BY <1>1, <2>1
  <2>3. PICK f : IsCalendar(f, d, m - 1)
    BY <2>2
  <2> DEFINE g == [n \in 0..m |-> IF n = 0 THEN d ELSE NextDay(f[n - 1])]
  <2>4. ASSUME NEW n \in 0..m, n # 0
        PROVE  f[n - 1] = g[n - 1]
    <3>1. n - 1 \in 0..(m - 1) /\ n - 1 \in 0..m
      BY <2>2, <2>4
    <3> QED
      BY <2>3, <3>1 DEF IsCalendar
  <2>5. g = [n \in 0..m |-> IF n = 0 THEN d ELSE NextDay(g[n - 1])]
    BY <2>4
  <2>6. IsCalendar(g, d, m)
    BY <2>5 DEF IsCalendar
  <2> QED
    BY <1>1, <2>6
<1>2. Bad = {}
  <2>1. Bad \in SUBSET Nat
    OBVIOUS
  <2> HIDE DEF Bad
  <2> QED
    BY <1>1, <2>1, LeastOf
<1>3. \E f : IsCalendar(f, d, limit)
  BY <1>2
<1>4. Calendar(d, limit)
        = CHOOSE f : f = [n \in 0..limit |-> IF n = 0 THEN d ELSE NextDay(f[n - 1])]
  BY DEF Calendar
<1> QED
  BY <1>3, <1>4 DEF IsCalendar

\* Its first date and its steps.
LEMMA CalendarSteps ==
  ASSUME NEW f, NEW d, NEW limit \in Nat, IsCalendar(f, d, limit)
  PROVE  f[0] = d /\ \A n \in 1..limit : f[n] = NextDay(f[n - 1])
<1>1. 0 \in 0..limit /\ \A n \in 1..limit : n \in 0..limit /\ n # 0
  OBVIOUS
<1> QED
  BY <1>1 DEF IsCalendar

\* To the end of a month the days are counted up.
LEMMA MonthRun ==
  ASSUME NEW f, NEW d, NEW limit \in Nat, IsCalendar(f, d, limit),
         NEW i \in 0..limit, ValidDate(f[i])
  PROVE  \A k \in 0..(limit - i) :
           f[i].day + k <= DaysOf(f[i].month, f[i].year) =>
             f[i + k] = [day |-> f[i].day + k, month |-> f[i].month,
                         year |-> f[i].year]
<1>0. PICK e \in AllDates : e = f[i]
  BY DEF ValidDate, AllDates
<1>1. /\ e.day \in 1..31 /\ e.month \in 1..12 /\ e.year \in 0..99
      /\ e = [day |-> e.day, month |-> e.month, year |-> e.year]
  BY DEF AllDates
<1>2. PICK D \in 28..31 : D = DaysOf(e.month, e.year)
  BY <1>1, DaysOfBounds
<1> DEFINE At(k) == [day |-> e.day + k, month |-> e.month, year |-> e.year]
           Bad == {k \in 0..(limit - i) : e.day + k <= D /\ f[i + k] # At(k)}
<1>3. ASSUME NEW k \in Bad, \A j \in Bad : k <= j
      PROVE  FALSE
  <2>1. k \in 0..(limit - i) /\ e.day + k <= D /\ f[i + k] # At(k)
    OBVIOUS
  <2>2. k # 0
    <3>1. i + 0 = i /\ At(0) = e
      BY <1>1
    <3> QED
      BY <1>0, <2>1, <3>1
  <2>3. k - 1 \in 0..(limit - i) /\ e.day + (k - 1) < D /\ k - 1 \notin Bad
    <3> HIDE DEF Bad, At
    <3>1. k - 1 \in 0..(limit - i) /\ e.day + (k - 1) < D
      BY <1>1, <2>1, <2>2
    <3>2. ~(k <= k - 1)
      BY <2>1
    <3> QED
      BY <1>3, <3>1, <3>2
  <2>4. f[i + (k - 1)] = At(k - 1)
    BY <1>1, <2>3
  <2>5. i + k \in 1..limit /\ (i + k) - 1 = i + (k - 1)
    BY <2>1, <2>2
  <2>6. f[i + k] = NextDay(At(k - 1))
    <3>1. f[i + k] = NextDay(f[(i + k) - 1])
      BY <2>5, CalendarSteps
    <3> QED
      BY <2>4, <2>5, <3>1
  <2>7. /\ At(k - 1).day = e.day + (k - 1) /\ At(k - 1).month = e.month
        /\ At(k - 1).year = e.year
    OBVIOUS
  <2>8. At(k - 1) \in AllDates /\ At(k - 1).day < D
    BY <1>1, <1>2, <2>1, <2>2, <2>3 DEF AllDates
  <2>9. ValidDate(At(k - 1))
    BY <1>2, <2>7, <2>8 DEF ValidDate, AllDates
  <2>10. NextDay(At(k - 1))
           = [day |-> At(k - 1).day + 1, month |-> e.month, year |-> e.year]
    <3> HIDE DEF At
    <3> QED
      BY <1>2, <2>7, <2>8, <2>9, NextDayIs
  <2>11. At(k - 1).day + 1 = e.day + k
    BY <1>1, <2>1, <2>7
  <2> QED
    BY <2>1, <2>6, <2>10, <2>11
<1>4. Bad = {}
  <2>1. Bad \in SUBSET Nat
    OBVIOUS
  <2> HIDE DEF Bad
  <2> QED
    BY <1>3, <2>1, LeastOf
<1> QED
  BY <1>0, <1>2, <1>4

\* The same from the first date on.
LEMMA MonthRunFromStart ==
  ASSUME NEW f, NEW d, NEW limit \in Nat, IsCalendar(f, d, limit), ValidDate(d)
  PROVE  \A k \in 0..limit :
           d.day + k <= DaysOf(d.month, d.year) =>
             f[k] = [day |-> d.day + k, month |-> d.month, year |-> d.year]
<1>1. f[0] = d /\ 0 \in 0..limit
  BY CalendarSteps
<1>2. \A k \in 0..(limit - 0) :
        f[0].day + k <= DaysOf(f[0].month, f[0].year) =>
          f[0 + k] = [day |-> f[0].day + k, month |-> f[0].month, year |-> f[0].year]
  BY <1>1, MonthRun
<1>3. limit - 0 = limit /\ \A k \in 0..limit : 0 + k = k
  OBVIOUS
<1> QED
  BY <1>1, <1>2, <1>3

\* The day alarm comes on the first day that has its number.
LEMMA FirstHit ==
  ASSUME NEW d, NEW limit \in Nat, NEW a \in 1..31, NEW n \in 1..limit,
         Calendar(d, limit)[n].day = a,
         \A k \in 1..(n - 1) :
           Calendar(d, limit)[k].day \in 1..31 \ {a}
  PROVE  DaysUntil(d, HEX_TO_BCD(a), limit) = n
<1> DEFINE f == Calendar(d, limit)
           hits == {k \in 1..limit : HEX_TO_BCD(f[k].day) = HEX_TO_BCD(a)}
<1>1. n \in hits
  OBVIOUS
<1>2. \A k \in 1..(n - 1) : k \notin hits
  BY BCDInverse
<1>3. \A k \in hits : n <= k
  BY <1>2
<1>4. DaysUntil(d, HEX_TO_BCD(a), limit)
        = IF hits = {} THEN limit ELSE CHOOSE k \in hits : \A j \in hits : k <= j
  BY DEF DaysUntil
<1>5. hits \subseteq Nat
  OBVIOUS
<1> HIDE DEF hits
<1> DEFINE c == CHOOSE k \in hits : \A j \in hits : k <= j
<1>6. c \in hits /\ \A j \in hits : c <= j
  BY <1>1, <1>3
<1>7. DaysUntil(d, HEX_TO_BCD(a), limit) = c
  BY <1>1, <1>4
<1> HIDE DEF c
<1> QED
  BY <1>1, <1>3, <1>5, <1>6, <1>7

-----------------------------------------------------------------------------
\* The first of the month after that of d.
FirstOfNext(d) ==
  IF d.month < 12 THEN [day |-> 1, month |-> d.month + 1, year |-> d.year]
  ELSE [day |-> 1, month |-> 1, year |-> (d.year + 1) % 100]

\* The next month has 28 to 31 days too.
LEMMA FirstOfNextIs ==
  ASSUME NEW t \in AllDates
  PROVE  DaysOf(FirstOfNext(t).month, FirstOfNext(t).year) \in 28..31
<1>1. t.month \in 1..12 /\ t.year \in 0..99
  BY DEF AllDates
<1>2. CASE t.month < 12
  <2>1. FirstOfNext(t).month = t.month + 1 /\ FirstOfNext(t).year = t.year
    BY <1>2 DEF FirstOfNext
  <2> QED
    BY <1>1, <1>2, <2>1, DaysOfBounds
<1>3. CASE t.month = 12
  <2>1. FirstOfNext(t).month = 1 /\ FirstOfNext(t).year = (t.year + 1) % 100
    BY <1>3 DEF FirstOfNext
  <2> QED
    BY <1>1, <2>1, DaysOfBounds
<1> QED
  BY <1>1, <1>2, <1>3

\* The alarm comes in the month of the date.
LEMMA HitThisMonth ==
  ASSUME NEW d, ValidDate(d), NEW a \in 1..31,
         d.day < a, a <= DaysOf(d.month, d.year)
  PROVE  DaysUntil(d, HEX_TO_BCD(a), 70) = a - d.day
<1>1. PICK f : f = Calendar(d, 70) /\ IsCalendar(f, d, 70)
  BY CalendarIs
<1>2. f[0] = d
  BY <1>1, CalendarSteps
<1>3. d.day \in 1..31
  BY DEF ValidDate
<1>4. PICK D \in 28..31 : D = DaysOf(d.month, d.year)
  BY DaysOfBounds DEF ValidDate
<1>5. \A k \in 0..70 : d.day + k <= D =>
        f[k] = [day |-> d.day + k, month |-> d.month, year |-> d.year]
  BY <1>1, <1>4, MonthRunFromStart
<1>6. \A k \in 1..70 : d.day + k <= D => f[k].day = d.day + k
  BY <1>5
<1>7. PICK n \in 1..70 : n = a - d.day
  BY <1>3
<1>8. f[n].day = a
  BY <1>3, <1>4, <1>6, <1>7
<1>9. ASSUME NEW k \in 1..(n - 1) PROVE f[k].day \in 1..31 \ {a}
  <2>1. k \in 1..70 /\ d.day + k < a
    BY <1>3, <1>7
  <2>2. f[k].day = d.day + k
    BY <1>3, <1>4, <1>6, <2>1
  <2> QED
    BY <1>3, <2>1, <2>2
<1> QED
  BY <1>1, <1>7, <1>8, <1>9, FirstHit

\* The alarm comes in the month after that of the date.
LEMMA HitNextMonth ==
  ASSUME NEW d, ValidDate(d), NEW a \in 1..31,
         a <= d.day \/ DaysOf(d.month, d.year) < a,
         a <= DaysOf(FirstOfNext(d).month, FirstOfNext(d).year)
  PROVE  DaysUntil(d, HEX_TO_BCD(a), 70) = DaysOf(d.month, d.year) - d.day + a
<1>1. PICK f : f = Calendar(d, 70) /\ IsCalendar(f, d, 70)
  BY CalendarIs
<1>2. f[0] = d
  BY <1>1, CalendarSteps
<1>3. d.day \in 1..31 /\ d.month \in 1..12 /\ d.year \in 0..99
  BY DEF ValidDate
<1>4. PICK D \in 28..31 : D = DaysOf(d.month, d.year)
  BY <1>3, DaysOfBounds
<1>5. d.day <= D
  BY <1>4 DEF ValidDate
<1>7. \A k \in 0..70 : d.day + k <= D =>
        f[k] = [day |-> d.day + k, month |-> d.month, year |-> d.year]
  BY <1>1, <1>4, MonthRunFromStart
<1>8. PICK i \in 1..31 : i = D - d.day + 1
  BY <1>3, <1>5
<1>9. f[i] = FirstOfNext(d) /\ ValidDate(f[i])
  <2>1. i - 1 \in 0..70 /\ d.day + (i - 1) = D /\ i \in 1..70
    BY <1>3, <1>4, <1>8
  <2>2. f[i - 1] = [day |-> D, month |-> d.month, year |-> d.year]
    BY <1>7, <2>1
  <2>3. f[i - 1].day = D /\ f[i - 1].month = d.month /\ f[i - 1].year = d.year
    BY <2>2
  <2>4. ValidDate(f[i - 1])
    BY <1>3, <1>4, <2>2, <2>3 DEF ValidDate
  <2>5. f[i] = NextDay(f[i - 1])
    <3>1. \A j \in 1..70 : f[j] = NextDay(f[j - 1])
      BY <1>1, CalendarSteps
    <3> QED
      BY <2>1, <3>1
  <2> QED
    BY <1>4, <2>3, <2>4, <2>5, NextDayIs DEF FirstOfNext
<1>10. FirstOfNext(d).day = 1
  BY DEF FirstOfNext
<1>11. PICK E \in 28..31 : E = DaysOf(FirstOfNext(d).month, FirstOfNext(d).year)
  BY <1>9, DaysOfBounds DEF ValidDate
<1>12. \A k \in 0..(70 - i) : 1 + k <= E => f[i + k].day = 1 + k
  <2>1. i \in 0..70
    OBVIOUS
  <2>2. \A k \in 0..(70 - i) :
          f[i].day + k <= DaysOf(f[i].month, f[i].year) =>
            f[i + k] = [day |-> f[i].day + k, month |-> f[i].month, year |-> f[i].year]
    BY <1>1, <1>9, <2>1, MonthRun
  <2>3. \A k \in 0..(70 - i) : 1 + k <= E =>
          f[i + k] = [day |-> 1 + k, month |-> f[i].month, year |-> f[i].year]
    BY <1>9, <1>10, <1>11, <2>2
  <2> SUFFICES ASSUME NEW k \in 0..(70 - i), 1 + k <= E
               PROVE  f[i + k].day = 1 + k
    OBVIOUS
  <2>4. f[i + k] = [day |-> 1 + k, month |-> f[i].month, year |-> f[i].year]
    BY <2>3
  <2> QED
    BY <2>4
<1>13. PICK n \in 1..70 : n = D - d.day + a
  <2>1. D - d.day + a \in 1..70
    BY <1>3, <1>4, <1>5
  <2> QED
    BY <2>1
<1>14. a - 1 \in 0..(70 - i) /\ n = i + (a - 1) /\ 1 + (a - 1) = a
  BY <1>3, <1>4, <1>8, <1>13
<1>15. f[n].day = a
  BY <1>11, <1>12, <1>14
<1>16. ASSUME NEW k \in 1..(n - 1) PROVE f[k].day \in 1..31 \ {a}
  <2>1. CASE k < i
    <3>1. k \in 0..70 /\ d.day + k <= D
      BY <1>3, <1>4, <1>8, <2>1
    <3>2. f[k].day = d.day + k
      BY <1>7, <3>1
    <3> QED
      BY <1>3, <1>4, <3>1, <3>2
  <2>2. CASE k >= i
    <3>1. k - i \in 0..(70 - i) /\ i + (k - i) = k /\ 1 + (k - i) < a
      <4>1. k \in 1..70 /\ k < i + (a - 1)
        BY <1>14
      <4> QED
        BY <2>2, <4>1
    <3>2. f[k].day = 1 + (k - i)
      BY <1>11, <1>12, <3>1
    <3> QED
      BY <3>1, <3>2
  <2> QED
    BY <2>1, <2>2
<1> QED
  BY <1>1, <1>4, <1>13, <1>15, <1>16, FirstHit

-----------------------------------------------------------------------------
\* The table of the code never exceeds the days of the month it is about.
LEMMA NumDaysFit ==
  ASSUME NEW t \in AllDates
  PROVE  /\ numDays(t) \in 28..31
         /\ t.day = 1 => numDays(t) <= DaysOf(t.month, t.year)
         /\ t.day # 1 =>
              numDays(t) <= DaysOf(FirstOfNext(t).month, FirstOfNext(t).year)
<1>1. t.day \in 1..31 /\ t.month \in 1..12 /\ t.year \in 0..99
  BY DEF AllDates
<1>2. numDays(t) \in 28..31
  BY <1>1 DEF numDays
<1>3. CASE t.day = 1
  BY <1>1, <1>2, <1>3 DEF numDays, DaysOf
<1>4. CASE t.day # 1 /\ t.month = 12
  <2>1. FirstOfNext(t).month = 1
    BY <1>4 DEF FirstOfNext
  <2>2. DaysOf(FirstOfNext(t).month, FirstOfNext(t).year) = 31
    BY <2>1 DEF DaysOf
  <2> QED
    BY <1>2, <1>4, <2>2
<1>5. CASE t.day # 1 /\ t.month < 12
  <2>1. FirstOfNext(t).month = t.month + 1 /\ FirstOfNext(t).year = t.year
    BY <1>5 DEF FirstOfNext
  <2>2. numDays(t) <= DaysOf(t.month + 1, t.year)
    BY <1>1, <1>2, <1>5 DEF numDays, DaysOf
  <2> QED
    BY <1>2, <1>5, <2>1, <2>2
<1> QED
  BY <1>1, <1>2, <1>3, <1>4, <1>5

\* The day of the alarm: the last of the month if today is the first, otherwise
\* the day before that of today, clipped to the days of the next month.
LEMMA AlarmDayIs ==
  ASSUME NEW t \in AllDates
  PROVE  /\ t.day = 1 => AlarmDay(t) = numDays(t)
         /\ t.day # 1 =>
              AlarmDay(t) = IF t.day - 1 > numDays(t) THEN numDays(t) ELSE t.day - 1
         /\ AlarmDay(t) \in 1..31
<1>1. t.day \in 1..31 /\ numDays(t) \in 28..31
  BY NumDaysFit DEF AllDates
<1> QED
  BY <1>1 DEF AlarmDay

\* Set from the date of today.
LEMMA TodaysAlarm ==
  ASSUME NEW d, ValidDate(d)
  PROVE  DaysUntil(d, HEX_TO_BCD(AlarmDay(d)), 70) \in 26..30
<1>1. /\ d \in AllDates /\ d.day <= DaysOf(d.month, d.year)
      /\ d.day \in 1..31 /\ d.month \in 1..12 /\ d.year \in 0..99
  BY DEF ValidDate, AllDates
<1>2. PICK D \in 28..31 : D = DaysOf(d.month, d.year)
  BY <1>1, DaysOfBounds
<1>3. PICK N \in 28..31 : N = numDays(d)
  BY <1>1, NumDaysFit
<1>4. PICK a \in 1..31 : a = AlarmDay(d)
  BY <1>1, AlarmDayIs
<1>5. CASE d.day = 1
  <2>1. a = N /\ a <= D
    BY <1>1, <1>2, <1>3, <1>4, <1>5, NumDaysFit, AlarmDayIs
  <2>2. DaysUntil(d, HEX_TO_BCD(a), 70) = a - d.day
    BY <1>2, <1>3, <1>5, <2>1, HitThisMonth
  <2> QED
    BY <1>2, <1>3, <1>4, <1>5, <2>1, <2>2
<1>6. CASE d.day # 1
  <2>1. a = IF d.day - 1 > N THEN N ELSE d.day - 1
    BY <1>1, <1>3, <1>4, <1>6, AlarmDayIs
  <2>2. PICK E \in 28..31 : E = DaysOf(FirstOfNext(d).month, FirstOfNext(d).year)
    BY <1>1, FirstOfNextIs
  <2>3. a <= d.day /\ a <= N /\ N <= E
    BY <1>1, <1>3, <1>6, <2>1, <2>2, NumDaysFit
  <2>4. DaysUntil(d, HEX_TO_BCD(a), 70) = D - d.day + a
    BY <1>2, <2>2, <2>3, HitNextMonth
  <2> QED
    BY <1>1, <1>2, <1>4, <1>6, <2>1, <2>4
<1> QED
  BY <1>5, <1>6

\* Set from the date of yesterday, and midnight has passed since.
LEMMA YesterdaysAlarm ==
  ASSUME NEW d, ValidDate(d)
  PROVE  DaysUntil(NextDay(d), HEX_TO_BCD(AlarmDay(d)), 70) \in 26..30
<1>1. /\ d \in AllDates /\ d.day <= DaysOf(d.month, d.year)
      /\ d.day \in 1..31 /\ d.month \in 1..12 /\ d.year \in 0..99
  BY DEF ValidDate, AllDates
<1>2. PICK D \in 28..31 : D = DaysOf(d.month, d.year)
  BY <1>1, DaysOfBounds
<1>3. PICK N \in 28..31 : N = numDays(d)
  BY <1>1, NumDaysFit
<1>4. PICK a \in 1..31 : a = AlarmDay(d)
  BY <1>1, AlarmDayIs
<1>5. PICK E \in 28..31 : E = DaysOf(FirstOfNext(d).month, FirstOfNext(d).year)
  BY <1>1, FirstOfNextIs
<1>6. PICK e : e = NextDay(d)
  OBVIOUS
<1>7. ValidDate(e)
  BY <1>6, NextDayIs
<1>8. CASE d.day < D
  <2>1. e = [day |-> d.day + 1, month |-> d.month, year |-> d.year]
    BY <1>2, <1>6, <1>8, NextDayIs
  <2>2. /\ e.day = d.day + 1 /\ DaysOf(e.month, e.year) = D
        /\ FirstOfNext(e) = FirstOfNext(d)
    BY <1>2, <2>1 DEF FirstOfNext
  <2>3. CASE d.day = 1
    <3>1. a = N /\ a <= D
      BY <1>1, <1>2, <1>3, <1>4, <2>3, NumDaysFit, AlarmDayIs
    <3>2. DaysUntil(e, HEX_TO_BCD(a), 70) = a - e.day
      <4>1. e.day < a
        BY <2>2, <2>3, <3>1
      <4> QED
        BY <1>7, <2>2, <3>1, <4>1, HitThisMonth
    <3> QED
      BY <1>2, <1>3, <1>4, <1>6, <2>2, <2>3, <3>1, <3>2
  <2>4. CASE d.day # 1
    <3>1. a = IF d.day - 1 > N THEN N ELSE d.day - 1
      BY <1>1, <1>3, <1>4, <2>4, AlarmDayIs
    <3>2. a <= e.day /\ a <= N /\ N <= E
      BY <1>1, <1>3, <1>5, <2>2, <2>4, <3>1, NumDaysFit
    <3>3. DaysUntil(e, HEX_TO_BCD(a), 70) = D - e.day + a
      <4>1. a <= E
        BY <3>2
      <4> QED
        BY <1>5, <1>7, <2>2, <3>2, <4>1, HitNextMonth
    <3> QED
      BY <1>1, <1>2, <1>4, <1>6, <1>8, <2>2, <2>4, <3>1, <3>3
  <2> QED
    BY <2>3, <2>4
<1>9. CASE d.day = D
  <2>1. e = FirstOfNext(d) /\ e.day = 1
    BY <1>2, <1>6, <1>9, NextDayIs DEF FirstOfNext
  <2>2. a = IF d.day - 1 > N THEN N ELSE d.day - 1
    BY <1>1, <1>3, <1>4, <1>9, AlarmDayIs
  <2>3. a \in 27..30 /\ a <= N /\ N <= E
    BY <1>1, <1>2, <1>3, <1>5, <1>9, <2>2, NumDaysFit
  <2>4. DaysUntil(e, HEX_TO_BCD(a), 70) = a - e.day
    <3>1. e.day < a /\ a <= E
      BY <2>1, <2>3
    <3> QED
      BY <1>5, <1>7, <2>1, <3>1, HitThisMonth
  <2> QED
    BY <1>4, <1>6, <2>1, <2>3, <2>4
<1> QED
  BY <1>1, <1>2, <1>8, <1>9

\* Set from the day of yesterday, the year of today and the month of either.
\* If these are different months, today is the first of one, and the alarm may
\* find no such day before the end of February.
LEMMA TornAlarm ==
  ASSUME NEW d, ValidDate(d), NEW t,
         \E m \in {d.month, NextDay(d).month} :
           t = [day |-> d.day, month |-> m, year |-> NextDay(d).year]
  PROVE  DaysUntil(NextDay(d), HEX_TO_BCD(AlarmDay(t)), 70) \in 26..58
<1>1. /\ d \in AllDates /\ d.day <= DaysOf(d.month, d.year)
      /\ d.day \in 1..31 /\ d.month \in 1..12 /\ d.year \in 0..99
      /\ d = [day |-> d.day, month |-> d.month, year |-> d.year]
  BY DEF ValidDate, AllDates
<1>2. PICK D \in 28..31 : D = DaysOf(d.month, d.year)
  BY <1>1, DaysOfBounds
<1>3. PICK e : e = NextDay(d)
  OBVIOUS
<1>4. ValidDate(e) /\ e.month \in 1..12 /\ e.year \in 0..99
  BY <1>3, NextDayIs DEF ValidDate
<1>5. t \in AllDates /\ t.day = d.day
  BY <1>1, <1>3, <1>4 DEF AllDates
<1>6. CASE d.day < D
  <2>1. e = [day |-> d.day + 1, month |-> d.month, year |-> d.year]
    BY <1>2, <1>3, <1>6, NextDayIs
  <2>2. t = d
    BY <1>1, <1>3, <2>1
  <2>3. DaysUntil(NextDay(d), HEX_TO_BCD(AlarmDay(t)), 70) \in 26..30
    BY <2>2, YesterdaysAlarm
  <2> QED
    BY <2>3
<1>7. CASE d.day = D
  <2>1. e.day = 1
    BY <1>2, <1>3, <1>7, NextDayIs
  <2>2. PICK N \in 28..31 : N = numDays(t)
    BY <1>5, NumDaysFit
  <2>3. PICK a \in 1..31 : a = AlarmDay(t)
    BY <1>5, AlarmDayIs
  <2>4. a \in 27..30
    <3>1. a = IF d.day - 1 > N THEN N ELSE d.day - 1
      BY <1>2, <1>5, <1>7, <2>2, <2>3, AlarmDayIs
    <3> QED
      BY <1>1, <1>2, <1>7, <2>2, <3>1
  <2>5. PICK E \in 28..31 : E = DaysOf(e.month, e.year)
    BY <1>4, DaysOfBounds
  <2>6. CASE a <= E
    <3>1. DaysUntil(e, HEX_TO_BCD(a), 70) = a - e.day
      <4>1. e.day < a
        BY <2>1, <2>4
      <4> QED
        BY <1>4, <2>5, <2>6, <4>1, HitThisMonth
    <3> QED
      BY <1>3, <2>1, <2>3, <2>4, <3>1
  <2>7. CASE E < a
    <3>1. e.month = 2
      BY <1>4, <2>4, <2>5, <2>7 DEF DaysOf
    <3>2. FirstOfNext(e).month = 3
      BY <3>1 DEF FirstOfNext
    <3>3. DaysOf(FirstOfNext(e).month, FirstOfNext(e).year) = 31
      BY <3>2 DEF DaysOf
    <3>4. E \in 28..29
      BY <1>4, <2>5, <3>1 DEF DaysOf
    <3>5. DaysUntil(e, HEX_TO_BCD(a), 70) = E - e.day + a
      BY <1>4, <2>4, <2>5, <2>7, <3>3, HitNextMonth
    <3> QED
      BY <1>3, <2>1, <2>3, <2>4, <3>4, <3>5
  <2> QED
    BY <2>4, <2>5, <2>6, <2>7
<1> QED
  BY <1>1, <1>2, <1>6, <1>7

-----------------------------------------------------------------------------
(* The clock: what was read of the date, and the alarm that was set from it. *)

\* rtcc_update has read the day and not yet the year.
Reading == at["main"] = "clock" /\ left["main"] \in {1, 2}

ClockTypes ==
  /\ left \in [Threads -> Nat]
  /\ rx \in Byte
  /\ time \in [day : Nat, month : Nat, year : Nat]
  /\ ValidDate(date)

Yesterday(d) == ValidDate(d) /\ date = NextDay(d)

\* The day of yesterday, the year of today, and the month of one of them.
Torn(t) ==
  \E d \in AllDates :
    /\ Yesterday(d)
    /\ \E m \in {d.month, date.month} :
         t = [day |-> d.day, month |-> m, year |-> date.year]

TornSoFar ==
  \E d \in AllDates :
    /\ Yesterday(d)
    /\ time.day = d.day
    /\ left["main"] = 1 => time.month \in {d.month, date.month}

\* What read says of time.
TimeRead ==
  /\ read = "whole" /\ ~Reading => time = date
  /\ read = "whole" /\ Reading =>
       /\ time.day = date.day
       /\ left["main"] = 1 => time.month = date.month
  /\ read = "yesterday" => ~Reading /\ Yesterday(time)
  /\ read = "torn" /\ ~Reading => Torn(time)
  /\ read = "torn" /\ Reading => TornSoFar

AlarmOf(d) == alarm = HEX_TO_BCD(AlarmDay(d))

\* What set says of the alarm.
AlarmFrom ==
  /\ set = "whole" => AlarmOf(date)
  /\ set = "yesterday" => \E d \in AllDates : Yesterday(d) /\ AlarmOf(d)
  /\ set = "torn" =>
       \E t \in [day : Nat, month : Nat, year : Nat] : Torn(t) /\ AlarmOf(t)

ClockInv == ClockTypes /\ TimeRead /\ AlarmFrom

-----------------------------------------------------------------------------
(* The steps of the clock.                                                  *)

\* Nothing has been read or set at the start.
LEMMA ClockInit == Init => ClockInv
<1> SUFFICES ASSUME Init PROVE ClockInv
  OBVIOUS
<1>1. ValidDate(date)
  BY I2cAssumption DEF Init
<1> QED
  BY <1>1 DEF Init, ClockInv, ClockTypes, TimeRead, AlarmFrom, Byte, Threads

\* The alarm stays, and what set says of it, unless it is lost.
LEMMA AlarmStays ==
  ASSUME AlarmFrom, date' = date, alarm' = alarm,
         set' \in {set, "failed", "overlapped"}
  PROVE  AlarmFrom'
BY DEF AlarmFrom, AlarmOf, Torn, Yesterday

\* What was read stays, while nothing is read.
LEMMA TimeStays ==
  ASSUME TimeRead, date' = date, time' = time, read' = read,
         \/ Reading' = Reading /\ left'["main"] = left["main"]
         \/ ~Reading /\ ~Reading'
  PROVE  TimeRead'
<1>1. CASE Reading' = Reading /\ left'["main"] = left["main"]
  BY <1>1 DEF TimeRead, Torn, TornSoFar, Yesterday
<1>2. CASE ~Reading /\ ~Reading'
  BY <1>2 DEF TimeRead, Torn, Yesterday
<1> QED
  BY <1>1, <1>2

\* Where the main thread goes after a transfer.
LEMMA MainMoves ==
  ASSUME IInv, ClockTypes, NEW outcome, NEW ok, TransferEnds("main", outcome, ok)
  PROVE  /\ left' \in [Threads -> Nat]
         /\ \/ /\ left["main"] > 1
               /\ at' = at /\ left'["main"] = left["main"] - 1
            \/ left["main"] = 1 /\ ~Reading'
<1> DEFINE o == IF at["main"] \in Locked THEN HandOver("main") ELSE owner
<1>0. "main" \in Threads /\ left["main"] \in Nat
  BY DEF ClockTypes, Threads
<1>1. CASE /\ left["main"] > 1
           /\ left' = [left EXCEPT !["main"] = left["main"] - 1]
           /\ UNCHANGED <<at, waiting, owner, shutdown>>
  <2>1. left["main"] - 1 \in Nat
    BY <1>0, <1>1
  <2> QED
    BY <1>0, <1>1, <2>1 DEF ClockTypes
<1>2. ASSUME NEW n \in After(at["main"]), left["main"] = 1,
             IF n \in Sections
             THEN Enter("main", n, outcome, o, active \ {"main"}, waiting)
             ELSE Leave("main", n, outcome, o, active \ {"main"}, waiting)
      PROVE  left' \in [Threads -> Nat] /\ left["main"] = 1 /\ ~Reading'
  <2>1. CASE n \in Sections
    <3>1. /\ at' = [at EXCEPT !["main"] = n]
          /\ left' = [left EXCEPT !["main"] = Transfers[n]]
      BY <1>2, <2>1 DEF Enter
    <3>2. Transfers[n] \in Nat /\ (n = "clock" => Transfers[n] >= 4)
      BY <2>1, I2cAssumption
    <3>3. at'["main"] = n /\ left'["main"] = Transfers[n] /\ left' \in [Threads -> Nat]
      BY <1>0, <3>1, <3>2 DEF ClockTypes, IInv, Types
    <3> QED
      BY <1>2, <3>2, <3>3 DEF Reading
  <2>2. CASE n \notin Sections
    <3>1. left' = [left EXCEPT !["main"] = 0]
      BY <1>2, <2>2 DEF Leave
    <3>2. left'["main"] = 0 /\ left' \in [Threads -> Nat]
      BY <1>0, <3>1 DEF ClockTypes
    <3> QED
      BY <1>2, <3>2 DEF Reading
  <2> QED
    BY <2>1, <2>2
<1> HIDE DEF o
<1>3. \/ /\ left["main"] > 1
         /\ left' = [left EXCEPT !["main"] = left["main"] - 1]
         /\ UNCHANGED <<at, waiting, owner, shutdown>>
      \/ /\ left["main"] = 1
         /\ \E n \in After(at["main"]) :
              IF n \in Sections
              THEN Enter("main", n, outcome, o, active \ {"main"}, waiting)
              ELSE Leave("main", n, outcome, o, active \ {"main"}, waiting)
  BY DEF TransferEnds, o
<1> QED
  BY <1>1, <1>2, <1>3

\* A transfer of the packet thread does not move the main thread.
LEMMA PacketMoves ==
  ASSUME IInv, ClockTypes, NEW outcome, NEW ok, TransferEnds("packet", outcome, ok)
  PROVE  /\ left' \in [Threads -> Nat]
         /\ at'["main"] = at["main"] /\ left'["main"] = left["main"]
<1> DEFINE o == IF at["packet"] \in Locked THEN HandOver("packet") ELSE owner
<1>0. /\ "packet" \in Threads /\ "main" \in Threads /\ "main" # "packet"
      /\ left["packet"] \in Nat
  BY DEF ClockTypes, Threads
<1>1. \/ /\ left["packet"] > 1
         /\ left' = [left EXCEPT !["packet"] = left["packet"] - 1]
         /\ UNCHANGED <<at, waiting, owner, shutdown>>
      \/ \E n \in After(at["packet"]) :
           IF n \in Sections
           THEN Enter("packet", n, outcome, o, active \ {"packet"}, waiting)
           ELSE Leave("packet", n, outcome, o, active \ {"packet"}, waiting)
  BY DEF TransferEnds
<1> HIDE DEF o
<1>2. ASSUME NEW v \in Nat, NEW p, left' = [left EXCEPT !["packet"] = v],
             at' = at \/ at' = [at EXCEPT !["packet"] = p]
      PROVE  /\ left' \in [Threads -> Nat]
             /\ at'["main"] = at["main"] /\ left'["main"] = left["main"]
  BY <1>0, <1>2 DEF ClockTypes, IInv, Types
<1>3. CASE left["packet"] > 1 /\ left' = [left EXCEPT !["packet"] = left["packet"] - 1]
             /\ at' = at
  <2>1. left["packet"] - 1 \in Nat
    BY <1>0, <1>3
  <2> QED
    BY <1>2, <1>3, <2>1
<1>4. ASSUME NEW n \in Sections,
             Enter("packet", n, outcome, o, active \ {"packet"}, waiting)
      PROVE  /\ left' \in [Threads -> Nat]
             /\ at'["main"] = at["main"] /\ left'["main"] = left["main"]
  <2>1. Transfers[n] \in Nat
    BY I2cAssumption
  <2> QED
    BY <1>2, <1>4, <2>1 DEF Enter
<1>5. ASSUME NEW n, Leave("packet", n, outcome, o, active \ {"packet"}, waiting)
      PROVE  /\ left' \in [Threads -> Nat]
             /\ at'["main"] = at["main"] /\ left'["main"] = left["main"]
  BY <1>2, <1>5 DEF Leave
<1> QED
  BY <1>1, <1>3, <1>4, <1>5

\* A transfer of rtcc_update.
LEMMA ReadKeeps ==
  ASSUME IInv, ClockInv, NEW outcome, NEW ok \in BOOLEAN,
         TransferEnds("main", outcome, ok), at["main"] = "clock"
  PROVE  ClockInv'
<1>1. PICK n \in Nat : n = left["main"]
  BY DEF ClockInv, ClockTypes, Threads
<1>2. rtcc_update(n, ok)
  BY <1>1 DEF TransferEnds, ClockTransfer
<1>3. PICK b \in IF ok THEN Register(n) ELSE {rx} :
        /\ rx' = IF n = 1 THEN 0 ELSE b
        /\ time' = CASE n = 3 -> [time EXCEPT !.day = Day(b)]
                     [] n = 2 -> [time EXCEPT !.month = Month(b)]
                     [] n = 1 -> [time EXCEPT !.year = Year(b)]
                     [] OTHER -> time
        /\ read' = CASE n <= 3 /\ ~ok -> "failed"
                     [] n = 3 /\ ok -> "whole"
                     [] OTHER -> read
        /\ UNCHANGED <<date, midnights, alarm, set>>
  BY <1>2 DEF rtcc_update
<1>4. /\ date.day \in 1..31 /\ date.month \in 1..12 /\ date.year \in 0..99
      /\ date = [day |-> date.day, month |-> date.month, year |-> date.year]
      /\ ValidDate(date)
      /\ time.day \in Nat /\ time.month \in Nat /\ time.year \in Nat
      /\ time = [day |-> time.day, month |-> time.month, year |-> time.year]
  BY DEF ClockInv, ClockTypes, ValidDate
<1>5. b \in Byte
  <2>1. CASE ok
    BY <1>3, <1>4, <2>1, BCDInverse, I2cAssumption DEF Register
  <2>2. CASE ~ok
    BY <1>3, <2>2 DEF ClockInv, ClockTypes
  <2> QED
    BY <2>1, <2>2
<1>6. Day(b) \in Nat /\ Month(b) \in Nat /\ Year(b) \in Nat
  BY <1>5, FromBCDType
<1>7. ok => /\ n = 3 => Day(b) = date.day
            /\ n = 2 => Month(b) = date.month
            /\ n = 1 => Year(b) = date.year
  BY <1>3, <1>4, BCDInverse DEF Register
<1>8. /\ n > 1 => at'["main"] = "clock" /\ left'["main"] = n - 1
      /\ n = 1 => ~Reading'
      /\ n >= 1
      /\ left' \in [Threads -> Nat]
  BY <1>1, MainMoves DEF ClockInv
<1>9. ClockTypes'
  <2>1. rx' \in Byte
    BY <1>3, <1>5 DEF Byte
  <2>2. time' \in [day : Nat, month : Nat, year : Nat]
    BY <1>3, <1>4, <1>6
  <2> QED
    BY <1>3, <1>4, <1>8, <2>1, <2>2 DEF ClockTypes
<1>10. AlarmFrom'
  BY <1>3, AlarmStays DEF ClockInv
<1>11. TimeRead'
  <2>1. CASE n > 3
    <3>1. time' = time /\ read' = read
      BY <1>3, <2>1
    <3>2. ~Reading /\ ~Reading'
      BY <1>1, <1>8, <2>1 DEF Reading
    <3> QED
      BY <1>3, <3>1, <3>2, TimeStays DEF ClockInv
  <2>2. CASE n <= 3 /\ ~ok
    BY <1>3, <2>2 DEF TimeRead
  <2>3. CASE n = 3 /\ ok
    <3>1. time' = [time EXCEPT !.day = date.day] /\ read' = "whole"
      BY <1>3, <1>7, <2>3
    <3>2. time'.day = date'.day
      BY <1>3, <1>4, <3>1
    <3>3. Reading' /\ left'["main"] = 2
      BY <1>8, <2>3 DEF Reading
    <3> QED
      BY <3>1, <3>2, <3>3 DEF TimeRead
  <2>4. CASE n = 2 /\ ok
    <3>1. time' = [time EXCEPT !.month = date.month] /\ read' = read
      BY <1>3, <1>7, <2>4
    <3>2. time'.day = time.day /\ time'.month = date.month /\ date' = date
      BY <1>3, <1>4, <3>1
    <3>3. Reading /\ Reading' /\ left["main"] = 2 /\ left'["main"] = 1
      BY <1>1, <1>8, <2>4 DEF Reading
    <3>4. read = "torn" => TornSoFar'
      BY <3>2, <3>3 DEF ClockInv, TimeRead, TornSoFar, Yesterday
    <3> QED
      BY <3>1, <3>2, <3>3, <3>4 DEF ClockInv, TimeRead
  <2>5. CASE n = 1 /\ ok
    <3>1. time' = [time EXCEPT !.year = date.year] /\ read' = read
      BY <1>3, <1>7, <2>5
    <3>2. /\ date' = date
          /\ time' = [day |-> time.day, month |-> time.month, year |-> date.year]
      BY <1>3, <1>4, <3>1
    <3>3. Reading /\ ~Reading' /\ left["main"] = 1
      BY <1>1, <1>8, <2>5 DEF Reading
    <3>4. read = "torn" => Torn(time)'
      BY <3>2, <3>3 DEF ClockInv, TimeRead, TornSoFar, Torn, Yesterday
    <3>5. read = "whole" => time' = date'
      BY <1>4, <3>2, <3>3 DEF ClockInv, TimeRead
    <3> QED
      BY <3>1, <3>3, <3>4, <3>5 DEF ClockInv, TimeRead
  <2> QED
    BY <1>8, <2>1, <2>2, <2>3, <2>4, <2>5
<1> QED
  BY <1>9, <1>10, <1>11 DEF ClockInv

\* A transfer of rtcc_enable_alarm.
LEMMA SetKeeps ==
  ASSUME IInv, ClockInv, NEW outcome, NEW ok \in BOOLEAN,
         TransferEnds("main", outcome, ok), at["main"] = "alarm"
  PROVE  ClockInv'
<1>1. /\ rtcc_enable_alarm(left["main"], ok)
      /\ UNCHANGED <<date, midnights, rx, time, read>>
  BY DEF TransferEnds, ClockTransfer, rtcc_enable_alarm
<1>2. ~Reading /\ ~Reading' /\ left' \in [Threads -> Nat]
  BY MainMoves DEF ClockInv, Reading
<1>3. ClockTypes' /\ TimeRead'
  BY <1>1, <1>2, TimeStays DEF ClockInv, ClockTypes
<1>4. CASE set' = "failed" \/ (set' = set /\ alarm' = alarm)
  <2>1. AlarmFrom'
    BY <1>1, <1>4 DEF ClockInv, AlarmFrom, AlarmOf, Torn, Yesterday
  <2> QED
    BY <1>3, <2>1 DEF ClockInv
<1>5. CASE ok /\ left["main"] = 2 /\ set' = read
  <2>1. alarm' = HEX_TO_BCD(AlarmDay(time))
    BY <1>1, <1>5 DEF rtcc_enable_alarm
  <2>2. read = "whole" => AlarmOf(date)'
    BY <1>1, <1>2, <2>1 DEF ClockInv, TimeRead, AlarmOf
  <2>3. read = "yesterday" => \E d \in AllDates : Yesterday(d)' /\ AlarmOf(d)'
    BY <1>1, <2>1 DEF ClockInv, TimeRead, AlarmOf, Yesterday, ValidDate, AllDates
  <2>4. read = "torn" =>
          \E t \in [day : Nat, month : Nat, year : Nat] : Torn(t)' /\ AlarmOf(t)'
    BY <1>1, <1>2, <2>1 DEF ClockInv, ClockTypes, TimeRead, AlarmOf, Torn, Yesterday
  <2>5. AlarmFrom'
    BY <1>5, <2>2, <2>3, <2>4 DEF AlarmFrom
  <2> QED
    BY <1>3, <2>5 DEF ClockInv
<1>6. \/ set' = "failed"
      \/ set' = set /\ alarm' = alarm
      \/ ok /\ left["main"] = 2 /\ set' = read
  BY <1>1 DEF rtcc_enable_alarm
<1> QED
  BY <1>3, <1>4, <1>5, <1>6 DEF ClockInv

\* Midnight makes what was read a day older.
LEMMA MidnightKeeps ==
  ASSUME ClockInv, Midnight
  PROVE  ClockInv'
<1>1. PICK d \in AllDates : d = date
  BY DEF ClockInv, ClockTypes, ValidDate, AllDates
<1>2. /\ ValidDate(d) /\ date' = NextDay(d) /\ ValidDate(NextDay(d))
      /\ Reading' = Reading
      /\ UNCHANGED <<left, rx, time, alarm>>
  BY <1>1, NextDayIs DEF ClockInv, ClockTypes, Midnight, Reading
<1>3. Yesterday(d)'
  BY <1>2 DEF Yesterday
<1>4. ClockTypes'
  BY <1>2 DEF ClockInv, ClockTypes
<1>5. TimeRead'
  <2>1. CASE read = "whole" /\ Reading
    <3>1. read' = "torn"
      BY <2>1 DEF Midnight, Reading
    <3>2. TornSoFar'
      BY <1>1, <1>2, <1>3, <2>1 DEF ClockInv, TimeRead, TornSoFar
    <3> QED
      BY <1>2, <2>1, <3>1, <3>2 DEF TimeRead
  <2>2. CASE ~(read = "whole" /\ Reading)
    <3>1. read' = OneDayOlder(read)
      BY <2>2 DEF Midnight, Reading
    <3>2. read' = "yesterday" => read = "whole" /\ ~Reading
      BY <2>2, <3>1 DEF OneDayOlder
    <3>3. read' \notin {"whole", "torn"}
      BY <3>1 DEF OneDayOlder
    <3>4. read' = "yesterday" => ~Reading' /\ Yesterday(time)'
      BY <1>1, <1>2, <1>3, <3>2 DEF ClockInv, TimeRead, Yesterday
    <3> QED
      BY <3>3, <3>4 DEF TimeRead
  <2> QED
    BY <2>1, <2>2
<1>6. AlarmFrom'
  <2>1. set' = OneDayOlder(set)
    BY DEF Midnight
  <2>2. set' \notin {"whole", "torn"} /\ (set' = "yesterday" => set = "whole")
    BY <2>1 DEF OneDayOlder
  <2>3. set' = "yesterday" => AlarmOf(d)'
    BY <1>1, <1>2, <2>2 DEF ClockInv, AlarmFrom, AlarmOf
  <2> QED
    BY <1>3, <2>2, <2>3 DEF AlarmFrom
<1> QED
  BY <1>4, <1>5, <1>6 DEF ClockInv

\* All other steps leave what was read alone.
LEMMA ClockStays ==
  ASSUME ClockInv, left' \in [Threads -> Nat],
         UNCHANGED <<date, rx, time, read, alarm>>,
         set' \in {set, "overlapped"},
         \/ Reading' = Reading /\ left'["main"] = left["main"]
         \/ ~Reading /\ ~Reading'
  PROVE  ClockInv'
<1>1. ClockTypes'
  BY DEF ClockInv, ClockTypes
<1>2. TimeRead'
  BY TimeStays DEF ClockInv
<1>3. AlarmFrom'
  BY AlarmStays DEF ClockInv
<1> QED
  BY <1>1, <1>2, <1>3 DEF ClockInv

\* The end of any transfer of any thread.
LEMMA ClockTransferEnds ==
  ASSUME IInv, ClockInv, NEW t \in Threads, NEW outcome, NEW ok \in BOOLEAN,
         TransferEnds(t, outcome, ok)
  PROVE  ClockInv'
<1>1. CASE t = "main" /\ at["main"] = "clock"
  BY <1>1, ReadKeeps
<1>2. CASE t = "main" /\ at["main"] = "alarm"
  BY <1>2, SetKeeps
<1>3. CASE t = "main" /\ at["main"] \notin {"clock", "alarm"}
  <2>1. /\ set' = set
        /\ UNCHANGED <<date, rx, time, read, alarm>>
    BY <1>3 DEF TransferEnds, ClockTransfer
  <2>2. ~Reading /\ ~Reading' /\ left' \in [Threads -> Nat]
    BY <1>3, MainMoves DEF ClockInv, Reading
  <2> QED
    BY <2>1, <2>2, ClockStays
<1>4. CASE t = "packet"
  <2>1. at["packet"] \notin {"clock", "alarm"}
    BY DEF IInv, PacketSection
  <2>2. /\ set' \in {set, "overlapped"}
        /\ UNCHANGED <<date, rx, time, read, alarm>>
    BY <1>4, <2>1 DEF TransferEnds, ClockTransfer
  <2>3. Reading' = Reading /\ left'["main"] = left["main"] /\ left' \in [Threads -> Nat]
    BY <1>4, PacketMoves DEF ClockInv, Reading
  <2> QED
    BY <2>2, <2>3, ClockStays
<1> QED
  BY <1>1, <1>2, <1>3, <1>4 DEF Threads

\* A thread that comes from elsewhere begins a section.
LEMMA ClockStart ==
  ASSUME IInv, ClockInv, NEW t \in Threads, NEW s \in Sections, s # "clock",
         at[t] = "away", Enter(t, s, state, owner, active, waiting), UNCHANGED clock
  PROVE  ClockInv'
<1>1. at' = [at EXCEPT ![t] = s] /\ left' = [left EXCEPT ![t] = Transfers[s]]
  BY DEF Enter
<1>2. Transfers[s] \in Nat /\ left' \in [Threads -> Nat]
  BY <1>1, I2cAssumption DEF ClockInv, ClockTypes
<1>3. \/ Reading' = Reading /\ left'["main"] = left["main"]
      \/ ~Reading /\ ~Reading'
  BY <1>1 DEF IInv, Types, ClockInv, ClockTypes, Reading, Threads
<1> QED
  BY <1>2, <1>3, ClockStays DEF clock

\* The invariant of the clock, on top of that of the bus.
LEMMA ClockInductive == Spec => []ClockInv
<1>1. IInv /\ ClockInv /\ [Next]_vars => ClockInv'
  <2> SUFFICES ASSUME IInv, ClockInv, [Next]_vars PROVE ClockInv'
    OBVIOUS
  <2>1. CASE current_monitor_update
    BY <2>1, ClockStart, Names DEF current_monitor_update, Sections
  <2>2. CASE current_monitor_set_overcurrent
    BY <2>2, ClockStart, Names DEF current_monitor_set_overcurrent, Sections
  <2>3. ASSUME NEW t \in Threads, Granted(t) PROVE ClockInv'
    <3>1. UNCHANGED <<at, left, clock>>
      BY <2>3 DEF Granted
    <3>2. Reading' = Reading /\ left' \in [Threads -> Nat]
      BY <3>1 DEF Reading, ClockInv, ClockTypes
    <3> QED
      BY <3>1, <3>2, ClockStays DEF clock
  <2>4. ASSUME NEW t \in Threads, Thread(t) PROVE ClockInv'
    BY <2>3, <2>4, ClockTransferEnds DEF Thread
  <2>5. CASE Midnight
    BY <2>5, MidnightKeeps
  <2>6. CASE UNCHANGED vars
    <3>1. UNCHANGED <<at, left, clock>>
      BY <2>6 DEF vars
    <3>2. Reading' = Reading /\ left' \in [Threads -> Nat]
      BY <3>1 DEF Reading, ClockInv, ClockTypes
    <3> QED
      BY <3>1, <3>2, ClockStays DEF clock
  <2> QED
    BY <2>1, <2>2, <2>4, <2>5, <2>6 DEF Next
<1> QED
  BY <1>1, ClockInit, Inductive, PTL DEF Spec

-----------------------------------------------------------------------------
(* Theorem.                                                                 *)

\* The alarm that a shutdown leaves comes 26 to 30 days after the end of the
\* loop, from every date of the century, although the code has a table of its
\* own for the days of the months (rtcc.c:68) and the clock goes on between the
\* reading and the end; 26 to 58 days if midnight tears the date (rtcc.c:50).
THEOREM AlarmComes == Spec => []AlarmInAMonth
<1>1. ClockInv => AlarmInAMonth
  <2> SUFFICES ASSUME ClockInv
               PROVE  /\ set = "whole" => DaysUntil(date, alarm, 70) \in 26..30
                      /\ set = "yesterday" => DaysUntil(date, alarm, 70) \in 26..30
                      /\ set = "torn" => DaysUntil(date, alarm, 70) \in 26..58
    BY DEF AlarmInAMonth
  <2>1. CASE set = "whole"
    BY <2>1, TodaysAlarm DEF ClockInv, ClockTypes, AlarmFrom, AlarmOf
  <2>2. CASE set = "yesterday"
    BY <2>2, YesterdaysAlarm DEF ClockInv, AlarmFrom, AlarmOf, Yesterday
  <2>3. CASE set = "torn"
    <3>1. PICK t \in [day : Nat, month : Nat, year : Nat] : Torn(t) /\ AlarmOf(t)
      BY <2>3 DEF ClockInv, AlarmFrom
    <3>2. PICK d \in AllDates : /\ ValidDate(d) /\ date = NextDay(d)
                                /\ \E m \in {d.month, NextDay(d).month} :
                                     t = [day |-> d.day, month |-> m,
                                          year |-> NextDay(d).year]
      BY <3>1 DEF Torn, Yesterday
    <3>3. DaysUntil(NextDay(d), HEX_TO_BCD(AlarmDay(t)), 70) \in 26..58
      BY <3>2, TornAlarm
    <3> QED
      BY <2>3, <3>1, <3>2, <3>3 DEF AlarmOf
  <2> QED
    BY <2>1, <2>2, <2>3
<1> QED
  BY <1>1, ClockInductive, PTL
=============================================================================
