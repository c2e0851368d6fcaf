------------------------------ MODULE FatTime -------------------------------
(***************************************************************************)
(* The time stamps of directory entries: fat_time_unix2fat of              *)
(* fs/fat/src/misc.c.  Time goes on by steps of any length within a day    *)
(* and from one day to the next; tm is what gmtime_r makes of it.  The     *)
(* offset of the time zone is zero, as fat_set_sb_info leaves it.          *)
(***************************************************************************)
EXTENDS Integers

CONSTANTS Starts,    \* the days on which time starts
          Hours, Minutes, Seconds,
          Years      \* bound: time stops when it leaves these

VARIABLE tm

Leap(y) == y % 4 = 0 /\ (y % 100 # 0 \/ (y + 1900) % 400 = 0)

MonthLength(y, m) ==
  CASE m = 1             -> IF Leap(y) THEN 29 ELSE 28
    [] m \in {3, 5, 8, 10} -> 30
    [] OTHER             -> 31

Clock == [hour : Hours, min : Minutes, sec : Seconds]

On(day, clock) == [day |-> day, clock |-> clock]

SecondOfDay(c) == c.hour * 3600 + c.min * 60 + c.sec

Tomorrow(d) ==
  IF d.mday < MonthLength(d.year, d.mon) THEN [d EXCEPT !.mday = @ + 1]
  ELSE IF d.mon < 11 THEN [d EXCEPT !.mon = @ + 1, !.mday = 1]
  ELSE [year |-> d.year + 1, mon |-> 0, mday |-> 1]

Init == tm \in {On(d, c) : d \in Starts, c \in Clock}

Pass ==
  \/ \E c \in Clock : SecondOfDay(c) > SecondOfDay(tm.clock) /\ tm' = [tm EXCEPT !.clock = c]
  \/ /\ Tomorrow(tm.day).year \in Years
     /\ \E c \in Clock : tm' = On(Tomorrow(tm.day), c)

Next == Pass

-----------------------------------------------------------------------------

Word == 65536

\* The years that a stamp can tell from those before and after.
InRange(d) == d.year \in 80 .. 127

Date(d) == (d.year * 512 + (d.mon + 1) * 32 + d.mday) % Word

Time(c) == (c.hour * 2048 + c.min * 32 + (c.sec \div 2)) % Word

\* Mutant of Unix2Fat: nothing is late.
Unix2FatUnbounded(t) ==
  IF t.day.year < 80 THEN <<1 * 32 + 1, 0>> ELSE <<Date(t.day), Time(t.clock)>>

\* date and time of a directory entry
Unix2Fat(t) ==
  IF t.day.year < 80 THEN <<1 * 32 + 1, 0>>
  ELSE IF t.day.year > 127 THEN <<127 * 512 + 12 * 32 + 31, 23 * 2048 + 59 * 32 + 29>>
  ELSE <<Date(t.day), Time(t.clock)>>

Before(s, t) == s[1] < t[1] \/ (s[1] = t[1] /\ s[2] < t[2])

\* A later time never has an earlier stamp, and between 1980 and 2027 another
\* one unless less than two seconds have passed.
StampsOrdered ==
  [][LET old == Unix2Fat(tm)
         new == Unix2Fat(tm')
     IN  /\ old = new \/ Before(old, new)
         /\ old = new /\ InRange(tm.day) /\ InRange(tm'.day) =>
              tm'.day = tm.day /\ SecondOfDay(tm'.clock) - SecondOfDay(tm.clock) < 2]_tm
=============================================================================
