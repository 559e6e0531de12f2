--------------------------------- MODULE Rtc ---------------------------------
(***************************************************************************)
(* The clock of the kernel (kernel/kernel.c): print_time, the live clock   *)
(* and uptime read the CMOS clock register by register, and each register  *)
(* twice, since the macro BCD_TO_BIN evaluates its argument twice; the     *)
(* clock runs on in between.  The clock itself is external.                *)
(***************************************************************************)
EXTENDS Integers, Sequences

CONSTANTS
  Instants,   \* moments of UTC at which the kernel may boot
  Sleeps,     \* numbers of seconds that pass between two commands
  MaxTicks,   \* bound: seconds that pass during the read at boot, and during
              \*   the commands that follow
  MaxSleeps   \* bound: how often time passes between commands

Day  == 86400
Hour == 3600

-----------------------------------------------------------------------------
(* The CMOS clock: a moment is a date and the second of the day.  Its year *)
(* has two digits, and every fourth is a leap year.                        *)

MonthEnd(y, m) ==
  CASE m \in {4, 6, 9, 11} -> 30
    [] m = 2               -> IF y % 4 = 0 THEN 29 ELSE 28
    [] OTHER               -> 31

NextDate(d) ==
  IF d.day < MonthEnd(d.year, d.month) THEN [d EXCEPT !.day = @ + 1]
  ELSE IF d.month < 12 THEN [d EXCEPT !.day = 1, !.month = @ + 1]
  ELSE [day |-> 1, month |-> 1, year |-> (d.year + 1) % 100]

Dates   == {d \in [year : 0 .. 99, month : 1 .. 12, day : 1 .. 31] :
              d.day <= MonthEnd(d.year, d.month)}
Moments == [date : Dates, sec : 0 .. Day - 1]

ASSUME ClockAssumption ==
  /\ Instants \subseteq Moments
  /\ Sleeps \subseteq 0 .. Day
  /\ MaxTicks \in 0 .. Day      \* no operation takes longer than a day
  /\ MaxSleeps \in Nat

\* The moment k seconds, at most a day, after t.
After(t, k) ==
  IF t.sec + k < Day THEN [t EXCEPT !.sec = @ + k]
  ELSE [date |-> NextDate(t.date), sec |-> t.sec + k - Day]

Bcd(n) == 16 * (n \div 10) + (n % 10)

\* What the registers hold.
Field(t, reg) ==
  CASE reg = 0 -> t.sec % 60
    [] reg = 2 -> (t.sec \div 60) % 60
    [] reg = 4 -> t.sec \div Hour
    [] reg = 7 -> t.date.day
    [] reg = 8 -> t.date.month
    [] reg = 9 -> t.date.year
get_rtc_register(t, reg) == Bcd(Field(t, reg))

-----------------------------------------------------------------------------
(* The conversions.                                                        *)

\* BCD_TO_BIN, of the two values its argument had.
BCD_TO_BIN(low, high) == (low % 16) + (high \div 16) * 10

\* Mutant: only the years that end in 00 are looked at.
LeapByCentury(y) == y % 400 = 0
is_leap_year(y) == y % 4 = 0 /\ (y % 100 # 0 \/ y % 400 = 0)

days_in_month(y, m) ==
  IF m = 2 /\ is_leap_year(y) THEN 29
  ELSE IF m \in 1 .. 12 THEN <<31, 28, 31, 30, 31, 30, 31, 31, 30, 31, 30, 31>>[m]
  ELSE 31

\* Mutant: noon is 12 AM.
TwelveHourNoon(h) ==
  [hour |-> IF h > 12 THEN h - 12 ELSE IF h = 0 THEN 12 ELSE h, pm |-> h > 12]
TwelveHour(h) ==
  [hour |-> IF h > 12 THEN h - 12 ELSE IF h = 0 THEN 12 ELSE h, pm |-> h >= 12]

\* get_bdt_string, of what the three registers gave.
get_bdt_string(s, m, h) == [clock |-> TwelveHour((h + 6) % 24), min |-> m, sec |-> s]

\* Mutant: a date rolls over one day early.
RollsOverEarly(day, last) == day + 1 >= last
\* The day after this one is in the next month.
RollsOver(day, last) == day + 1 > last

\* get_bdt_date, of what the four registers gave; it prints "20" and year % 100.
get_bdt_date(day, month, year, hour) ==
  LET y == 2000 + year
      d == [day |-> day, month |-> month, year |-> y]
      shown == IF hour + 6 < 24 THEN d
               ELSE IF ~RollsOver(day, days_in_month(y, month)) THEN [d EXCEPT !.day = @ + 1]
               ELSE IF month + 1 <= 12 THEN [d EXCEPT !.day = 1, !.month = @ + 1]
               ELSE [day |-> 1, month |-> 1, year |-> y + 1]
  IN  [shown EXCEPT !.year = 2000 + (@ % 100)]

\* Mutant: an hour of sixty seconds.
get_time_secondsShort(s, m, h) == s + m * 60 + h * 60
get_time_seconds(s, m, h) == s + m * 60 + h * Hour

\* Mutant: half a day is added.
WrapHalf(diff) == IF diff < 0 THEN diff + Day \div 2 ELSE diff
\* uptime adds a day, once, to a difference below 0.
Wrap(diff) == IF diff < 0 THEN diff + Day ELSE diff
\* The days it would print; C divides towards 0.
Days(diff) == IF diff < 0 THEN -((-diff) \div Day) ELSE diff \div Day

-----------------------------------------------------------------------------
VARIABLES
  now,        \* the CMOS clock
  op,         \* the operation that runs, or "idle"
  half,       \* what was read of the current register: "low", "high" or "none"
  value,      \* and the value it had
  got,        \* the registers read so far
  boot_time,  \* seconds of the day, as read at boot
  shown,      \* what the last operation printed
  age,        \* history: seconds since the kernel booted
  began,      \* history: now and age when the operation began
  bootAge,    \* history: age at the end of the read at boot, and whether the
  bootTorn,   \*   tens of seconds changed during it
  ticks,      \* bound: seconds that passed during operations
  sleeps      \* bound: how often time passed while idle

vars == <<now, op, half, value, got, boot_time, shown, age, began, bootAge, bootTorn, ticks, sleeps>>

\* The registers an operation reads, in order.
Registers ==
  [boot   |-> <<0, 2, 4>>,
   uptime |-> <<0, 2, 4>>,
   time   |-> <<0, 2, 4, 7, 8, 9, 4>>]    \* print_time: the string, then the date

Nothing == [op |-> "none"]

Init ==
  /\ now \in Instants
  /\ op = "boot" /\ half = "none" /\ value = 0 /\ got = <<>>
  /\ boot_time = 0
  /\ shown = Nothing
  /\ age = 0 /\ began = [now |-> now, age |-> 0]
  /\ bootAge = 0 /\ bootTorn = FALSE
  /\ ticks = 0 /\ sleeps = 0

-----------------------------------------------------------------------------
\* A second passes during an operation.
Second ==
  /\ op # "idle"
  /\ ticks < MaxTicks
  /\ ticks' = ticks + 1
  /\ now' = After(now, 1)
  /\ age' = age + 1
  /\ UNCHANGED <<op, half, value, got, boot_time, shown, began, bootAge, bootTorn, sleeps>>

\* Time passes between two operations.
Sleep(k) ==
  /\ op = "idle"
  /\ sleeps < MaxSleeps
  /\ now' = After(now, k)
  /\ age' = age + k
  /\ sleeps' = sleeps + 1
  /\ shown' = Nothing
  /\ UNCHANGED <<op, half, value, got, boot_time, began, bootAge, bootTorn, ticks>>

\* print_time, or the live clock; or uptime.
Call(o) ==
  /\ op = "idle"
  /\ op' = o
  /\ got' = <<>>
  /\ shown' = Nothing
  /\ began' = [now |-> now, age |-> age]
  /\ UNCHANGED <<now, half, value, boot_time, age, bootAge, bootTorn, ticks, sleeps>>

Reading == op # "idle" /\ Len(got) < Len(Registers[op])
Register == get_rtc_register(now, Registers[op][Len(got) + 1])

\* The first of the two reads of a register; C does not say for which half of
\* the value.
ReadOnce(h) ==
  /\ Reading /\ half = "none"
  /\ half' = h
  /\ value' = Register
  /\ UNCHANGED <<now, op, got, boot_time, shown, age, began, bootAge, bootTorn, ticks, sleeps>>

ReadAgain ==
  /\ Reading /\ half # "none"
  /\ got' = Append(got, IF half = "low" THEN BCD_TO_BIN(value, Register)
                                        ELSE BCD_TO_BIN(Register, value))
  /\ half' = "none" /\ value' = 0
  /\ UNCHANGED <<now, op, boot_time, shown, age, began, bootAge, bootTorn, ticks, sleeps>>

\* Some minute, hour or date digit, or the tens of the seconds, changed.
Torn == now.date # began.now.date \/ now.sec \div 10 # began.now.sec \div 10

Return ==
  /\ op # "idle" /\ Len(got) = Len(Registers[op])
  /\ LET seconds == get_time_seconds(got[1], got[2], got[3]) IN
       CASE op = "boot" ->
              /\ boot_time' = seconds
              /\ bootAge' = age /\ bootTorn' = Torn
              /\ shown' = shown
         [] op = "uptime" ->
              /\ LET diff == Wrap(seconds - boot_time) IN
                   shown' = [op |-> op, diff |-> diff, days |-> Days(diff), torn |-> Torn]
              /\ UNCHANGED <<boot_time, bootAge, bootTorn>>
         [] op = "time" ->
              /\ shown' = [op |-> op, torn |-> Torn,
                           time |-> get_bdt_string(got[1], got[2], got[3]),
                           date |-> get_bdt_date(got[4], got[5], got[6], got[7])]
              /\ UNCHANGED <<boot_time, bootAge, bootTorn>>
  /\ op' = "idle"
  /\ got' = <<>>
  /\ ticks' = IF op = "boot" THEN 0 ELSE ticks
  /\ UNCHANGED <<now, half, value, age, began, sleeps>>

Next ==
  \/ Second
  \/ \E k \in Sleeps : Sleep(k)
  \/ \E o \in {"time", "uptime"} : Call(o)
  \/ \E h \in {"low", "high"} : ReadOnce(h)
  \/ ReadAgain
  \/ Return

Spec == Init /\ [][Next]_vars

-----------------------------------------------------------------------------
(* Properties.                                                             *)

TypeOK ==
  /\ now \in Moments
  /\ op \in DOMAIN Registers \cup {"idle"}
  /\ half \in {"none", "low", "high"}
  /\ value \in 0 .. 255
  /\ \A i \in DOMAIN got : got[i] \in 0 .. 99
  /\ boot_time \in 0 .. 29 * Hour + 3599
  /\ age \in Nat /\ ticks \in 0 .. MaxTicks /\ sleeps \in 0 .. MaxSleeps

\* The moments at which the operation ran, and at most MaxTicks of them.
During == {After(began.now, k) : k \in 0 .. age - began.age}

\* Unless the tens of seconds change while it reads, print_time prints the time
\* of Dhaka, six hours ahead, at some moment of the read.
TimeIsOfDhaka ==
  shown.op = "time" /\ ~shown.torn =>
    \E t \in During : LET s == After(t, 6 * Hour).sec IN
      /\ shown.time.sec = s % 60
      /\ shown.time.min = (s \div 60) % 60
      /\ shown.time.clock.hour % 12 = (s \div Hour) % 12
      /\ shown.time.clock.pm <=> s \div Hour >= 12

\* A date with the year in full, which the kernel takes to be one of this century.
InFull(d) == [d EXCEPT !.year = 2000 + @]

\* Unless the hour changes while it reads, print_time prints the date of Dhaka:
\* across the ends of months and years, and on leap days, although the date it
\* reads is that of UTC.
DateIsOfDhaka ==
  shown.op = "time" =>
    \/ \E t \in During : t.date # now.date \/ t.sec \div Hour # now.sec \div Hour
    \/ shown.date = InFull(After(now, 6 * Hour).date)

\* Unless it, or the read at boot, is torn, uptime prints the seconds since the boot,
\* as help promises, only if they are less than a day: of a longer time it prints the
\* rest modulo a day, and never a number of days, although it has a branch for them.
UptimeForgetsDays ==
  shown.op = "uptime" /\ ~shown.torn /\ ~bootTorn =>
    /\ shown.days = 0
    /\ \E t \in began.age .. age, b \in 0 .. bootAge : shown.diff = (t - b) % Day

\* A time may be torn to one that does not exist, since the hour before 20 may read
\* as 29, and one day is then not enough: uptime prints a negative number. It does
\* so only if the kernel booted with such a time.
UptimeIsNotNegative == shown.op = "uptime" /\ boot_time < Day => shown.diff >= 0
=============================================================================
