-------------------------------- MODULE Rtcc --------------------------------
(***************************************************************************)
(* The calendar of the real-time clock and the arithmetic of rtcc.c: the   *)
(* registers are BCD, and the alarm is the day of the month on which the   *)
(* clock is to wake the device.                                            *)
(***************************************************************************)
EXTENDS Integers

Byte == 0..255

-----------------------------------------------------------------------------
(* rtcc.c                                                                   *)

HEX_TO_BCD(x) == ((x \div 10) * 16 + (x % 10)) % 256

\* ((rx >> 4) & mask) * 10 + (rx & 0x0F), where mask + 1 = m.
FromBCD(rx, m) == ((rx \div 16) % m) * 10 + (rx % 16)
Day(rx) == FromBCD(rx, 4)
Month(rx) == FromBCD(rx, 2)
Year(rx) == FromBCD(rx, 16)

\* The days of the month in which the alarm falls, as the code counts them:
\* July has 30 and December, which is month 0 after November, too.
numDays(time) ==
  LET month == IF time.day = 1 THEN time.month ELSE (time.month + 1) % 12
  IN  CASE month \in {1, 3, 5, 8, 10, 12} -> 31
        [] month = 2 -> IF time.year % 4 = 0 THEN 29 ELSE 28
        [] OTHER -> 30

Unclipped(time) == IF time.day = 1 THEN numDays(time) ELSE time.day - 1

AlarmDay(time) ==
  CASE time.day = 1 -> numDays(time)
    [] time.day # 1 /\ time.day - 1 > numDays(time) -> numDays(time)
    [] OTHER -> (time.day - 1) % 256

-----------------------------------------------------------------------------
(* The chip: dates from 2000 to 2099.                                       *)

DaysOf(month, year) ==
  CASE month = 2 -> IF year % 4 = 0 THEN 29 ELSE 28
    [] month \in {4, 6, 9, 11} -> 30
    [] OTHER -> 31

ValidDate(d) ==
  /\ d \in [day : 1..31, month : 1..12, year : 0..99]
  /\ d.day <= DaysOf(d.month, d.year)

NextDay(d) ==
  CASE d.day < DaysOf(d.month, d.year) -> [d EXCEPT !.day = @ + 1]
    [] d.day = DaysOf(d.month, d.year) /\ d.month < 12 ->
         [d EXCEPT !.day = 1, !.month = @ + 1]
    [] OTHER -> [day |-> 1, month |-> 1, year |-> (d.year + 1) % 100]

\* The dates of the days that follow date d, from 0 to limit days later.
Calendar(d, limit) ==
  LET date[n \in 0..limit] == IF n = 0 THEN d ELSE NextDay(date[n - 1])
  IN  date

\* Days from date d until the clock reaches the day that register holds, at
\* most limit; limit if it does not.
DaysUntil(d, register, limit) ==
  LET date == Calendar(d, limit)
      hits == {n \in 1..limit : HEX_TO_BCD(date[n].day) = register}
  IN  IF hits = {} THEN limit ELSE CHOOSE n \in hits : \A k \in hits : n <= k
=============================================================================
