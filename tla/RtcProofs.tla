------------------------------ MODULE RtcProofs -------------------------------
(* Proofs about Rtc: for every moment of every year, and whatever the times *)
(* between the two reads of a register and between two registers, the time  *)
(* and date that are printed, and uptime.                                   *)
EXTENDS Rtc, TLAPS

-----------------------------------------------------------------------------
(* The clock.                                                              *)

LEMMA DayIs == Day \in Nat /\ Hour \in Nat /\ Day = 24 * Hour /\ Day = 86400 /\ Hour = 3600
  BY DEF Day, Hour

LEMMA DayNat == Day \in Nat /\ Day > 1
  BY DayIs

LEMMA MonthEndType ==
  ASSUME NEW y \in Nat, NEW m \in 1 .. 12
  PROVE  MonthEnd(y, m) \in Nat /\ 28 <= MonthEnd(y, m) /\ MonthEnd(y, m) <= 31
  BY DEF MonthEnd

LEMMA NextDateType ==
  ASSUME NEW d \in Dates
  PROVE  NextDate(d) \in Dates /\ NextDate(d) # d
<1>1. /\ d \in [year : 0 .. 99, month : 1 .. 12, day : 1 .. 31]
      /\ d.year \in 0 .. 99 /\ d.month \in 1 .. 12 /\ d.day \in 1 .. 31
      /\ d.day <= MonthEnd(d.year, d.month)
      /\ MonthEnd(d.year, d.month) \in Nat /\ MonthEnd(d.year, d.month) <= 31
  <2>1. /\ d \in [year : 0 .. 99, month : 1 .. 12, day : 1 .. 31]
        /\ d.day <= MonthEnd(d.year, d.month)
    BY DEF Dates
  <2>2. d.year \in 0 .. 99 /\ d.month \in 1 .. 12 /\ d.day \in 1 .. 31
    BY <2>1
  <2>3. d.year \in Nat
    BY <2>2
  <2> QED
    BY <2>1, <2>2, <2>3, MonthEndType
<1>2. CASE d.day < MonthEnd(d.year, d.month)
  <2>1. NextDate(d) = [d EXCEPT !.day = d.day + 1]
    BY <1>2 DEF NextDate
  <2>2. /\ NextDate(d) \in [year : 0 .. 99, month : 1 .. 12, day : 1 .. 31]
        /\ NextDate(d).day = d.day + 1 /\ NextDate(d).month = d.month /\ NextDate(d).year = d.year
    BY <1>1, <1>2, <2>1
  <2> QED
    BY <1>1, <1>2, <2>2 DEF Dates
<1>3. CASE ~ (d.day < MonthEnd(d.year, d.month)) /\ d.month < 12
  <2>1. NextDate(d) = [d EXCEPT !.day = 1, !.month = d.month + 1]
    BY <1>3 DEF NextDate
  <2>0. d.month + 1 \in 1 .. 12 /\ d.month + 1 # d.month /\ 1 \in 1 .. 31 /\ d.year \in Nat
    BY <1>1, <1>3
  <2>2. /\ NextDate(d) \in [year : 0 .. 99, month : 1 .. 12, day : 1 .. 31]
        /\ NextDate(d).day = 1 /\ NextDate(d).month = d.month + 1 /\ NextDate(d).year = d.year
    BY <1>1, <2>0, <2>1
  <2>3. 1 <= MonthEnd(d.year, d.month + 1)
    <3>1. MonthEnd(d.year, d.month + 1) \in Nat /\ 28 <= MonthEnd(d.year, d.month + 1)
      BY <2>0, MonthEndType
    <3> QED
      BY <3>1
  <2> QED
    BY <1>1, <2>0, <2>2, <2>3 DEF Dates
<1>4. CASE ~ (d.day < MonthEnd(d.year, d.month)) /\ ~ (d.month < 12)
  <2>1. NextDate(d) = [day |-> 1, month |-> 1, year |-> (d.year + 1) % 100]
    BY <1>4 DEF NextDate
  <2>2. (d.year + 1) % 100 \in 0 .. 99 /\ (d.year + 1) % 100 # d.year
    BY <1>1
  <2> DEFINE y == (d.year + 1) % 100
  <2> HIDE DEF y
  <2>3. NextDate(d) \in [year : 0 .. 99, month : 1 .. 12, day : 1 .. 31]
        /\ NextDate(d).year = y /\ NextDate(d).month = 1 /\ NextDate(d).day = 1
    BY <2>1, <2>2 DEF y
  <2>4. 1 <= MonthEnd(y, 1)
    <3>1. y \in Nat /\ 1 \in 1 .. 12
      BY <2>2 DEF y
    <3>2. MonthEnd(y, 1) \in Nat /\ 28 <= MonthEnd(y, 1)
      BY <3>1, MonthEndType
    <3> QED
      BY <3>2
  <2> QED
    BY <2>2, <2>3, <2>4 DEF Dates, y
<1> QED
  BY <1>2, <1>3, <1>4

LEMMA MomentIs ==
  ASSUME NEW t \in Moments
  PROVE  t.date \in Dates /\ t.sec \in Nat /\ t.sec < Day /\ t = [date |-> t.date, sec |-> t.sec]
  BY DayNat DEF Moments

LEMMA IsMoment ==
  ASSUME NEW d \in Dates, NEW s \in Nat, s < Day
  PROVE  [date |-> d, sec |-> s] \in Moments
<1>1. s \in 0 .. Day - 1
  BY DayNat
<1> QED
  BY <1>1 DEF Moments

LEMMA AfterIs ==
  ASSUME NEW t \in Moments, NEW k \in Nat, k <= Day
  PROVE  /\ After(t, k) = [date |-> IF t.sec + k < Day THEN t.date ELSE NextDate(t.date),
                           sec  |-> IF t.sec + k < Day THEN t.sec + k ELSE t.sec + k - Day]
         /\ After(t, k) \in Moments
<1>1. t.date \in Dates /\ t.sec \in Nat /\ t.sec < Day /\ Day \in Nat
      /\ t = [date |-> t.date, sec |-> t.sec]
  BY MomentIs, DayNat
<1>2. CASE t.sec + k < Day
  <2>1. After(t, k) = [t EXCEPT !.sec = t.sec + k]
    BY <1>2 DEF After
  <2>2. After(t, k) = [date |-> t.date, sec |-> t.sec + k]
    BY <1>1, <2>1
  <2>3. t.sec + k \in Nat
    BY <1>1
  <2>4. After(t, k) \in Moments
    BY <1>1, <1>2, <2>2, <2>3, IsMoment
  <2> QED
    BY <1>2, <2>2, <2>4
<1>3. CASE ~ (t.sec + k < Day)
  <2>1. After(t, k) = [date |-> NextDate(t.date), sec |-> t.sec + k - Day]
    BY <1>3 DEF After
  <2>2. t.sec + k - Day \in Nat /\ t.sec + k - Day < Day
    BY <1>1, <1>3
  <2>3. After(t, k) \in Moments
    BY <1>1, <2>1, <2>2, IsMoment, NextDateType
  <2> QED
    BY <1>3, <2>1, <2>3
<1> QED
  BY <1>2, <1>3

LEMMA AfterNone ==
  ASSUME NEW t \in Moments
  PROVE  After(t, 0) = t
<1>1. t.sec + 0 = t.sec /\ t.sec < Day /\ 0 \in Nat /\ 0 <= Day
  BY MomentIs, DayNat
<1>2. After(t, 0) = [date |-> t.date, sec |-> t.sec]
  BY <1>1, AfterIs
<1> QED
  BY <1>2, MomentIs

\* Seconds add up, within a day.
LEMMA AfterOne ==
  ASSUME NEW t \in Moments, NEW k \in Nat, k + 1 <= Day
  PROVE  After(After(t, k), 1) = After(t, k + 1)
<1> DEFINE u == After(t, k)
<1>1. /\ t.date \in Dates /\ t.sec \in Nat /\ t.sec < Day /\ Day \in Nat /\ Day > 1
  BY MomentIs, DayNat
<1>2. /\ u.date = IF t.sec + k < Day THEN t.date ELSE NextDate(t.date)
      /\ u.sec = IF t.sec + k < Day THEN t.sec + k ELSE t.sec + k - Day
      /\ u \in Moments
  BY <1>1, AfterIs
<1>3. After(t, k + 1) = [date |-> IF t.sec + (k + 1) < Day THEN t.date ELSE NextDate(t.date),
                         sec  |-> IF t.sec + (k + 1) < Day THEN t.sec + (k + 1)
                                  ELSE t.sec + (k + 1) - Day]
  <2>1. k + 1 \in Nat
    OBVIOUS
  <2> QED
    BY <2>1, AfterIs
<1> HIDE DEF u
<1>4. After(u, 1) = [date |-> IF u.sec + 1 < Day THEN u.date ELSE NextDate(u.date),
                     sec  |-> IF u.sec + 1 < Day THEN u.sec + 1 ELSE u.sec + 1 - Day]
  <2>1. 1 \in Nat /\ 1 <= Day
    BY <1>1
  <2> QED
    BY <1>2, <2>1, AfterIs
<1>5. CASE t.sec + k + 1 < Day
  <2>1. u.date = t.date /\ u.sec + 1 < Day /\ u.sec + 1 = t.sec + (k + 1) /\ t.sec + (k + 1) < Day
    BY <1>1, <1>2, <1>5
  <2> QED
    BY <1>3, <1>4, <2>1 DEF u
<1>6. CASE t.sec + k + 1 = Day
  <2>1. /\ u.date = t.date /\ ~ (u.sec + 1 < Day) /\ ~ (t.sec + (k + 1) < Day)
        /\ u.sec + 1 - Day = t.sec + (k + 1) - Day
    BY <1>1, <1>2, <1>6
  <2> QED
    BY <1>3, <1>4, <2>1 DEF u
<1>7. CASE t.sec + k >= Day
  <2>1. u.date = NextDate(t.date) /\ u.sec = t.sec + k - Day
    BY <1>1, <1>2, <1>7
  <2>2. u.sec + 1 < Day
    BY <1>1, <1>7, <2>1
  <2>3. u.sec + 1 = t.sec + (k + 1) - Day /\ ~ (t.sec + (k + 1) < Day)
    BY <1>1, <1>7, <2>1
  <2> QED
    BY <1>3, <1>4, <2>1, <2>2, <2>3 DEF u
<1> QED
  BY <1>1, <1>5, <1>6, <1>7

-----------------------------------------------------------------------------
(* Digits.                                                                 *)

LEMMA BcdType ==
  ASSUME NEW v \in Nat, NEW w \in Nat
  PROVE  Bcd(v) \in Nat /\ BCD_TO_BIN(v, w) \in Nat
  BY DEF Bcd, BCD_TO_BIN

\* The two halves may come from different values, if these differ in the last
\* digit only.
LEMMA BcdBack ==
  ASSUME NEW v \in Nat, NEW w \in Nat, v < 100, w < 100, v \div 10 = w \div 10
  PROVE  BCD_TO_BIN(Bcd(v), Bcd(w)) = v
<1>1. PICK q \in Nat, r \in Nat, p \in Nat :
        /\ v \div 10 = q /\ v % 10 = r /\ w % 10 = p /\ v = 10 * q + r /\ r < 10 /\ p < 10
  <2> DEFINE q == v \div 10
             r == v % 10
             p == w % 10
  <2>1. q \in Nat /\ r \in Nat /\ p \in Nat /\ v = 10 * q + r /\ r < 10 /\ p < 10
    OBVIOUS
  <2> HIDE DEF q, r, p
  <2>2. v \div 10 = q /\ v % 10 = r /\ w % 10 = p
    BY DEF q, r, p
  <2> QED
    BY <2>1, <2>2
<1>2. Bcd(v) = 16 * q + r /\ Bcd(w) = 16 * q + p
  BY <1>1 DEF Bcd
<1>3. (16 * q + r) % 16 = r /\ (16 * q + p) \div 16 = q
  BY <1>1
<1>4. BCD_TO_BIN(16 * q + r, 16 * q + p) = r + q * 10
  BY <1>3 DEF BCD_TO_BIN
<1> QED
  BY <1>1, <1>2, <1>4

\* e seconds after the second s of a day, no digit but the last has changed; or
\* not the hour.
Tens(s, e)   == s + e < Day /\ (s + e) \div 10 = s \div 10
HourOf(s, e) == s + e < Day /\ (s + e) \div Hour = s \div Hour

LEMMA TensLess ==
  ASSUME NEW s \in Nat, NEW e \in Nat, NEW j \in Nat, j <= e, Tens(s, e)
  PROVE  Tens(s, j)
  BY DayNat DEF Tens

LEMMA HourLess ==
  ASSUME NEW s \in Nat, NEW e \in Nat, NEW j \in Nat, j <= e, HourOf(s, e)
  PROVE  HourOf(s, j)
  BY DayNat DEF HourOf, Hour

LEMMA TensHour ==
  ASSUME NEW s \in Nat, NEW e \in Nat, Tens(s, e)
  PROVE  HourOf(s, e)
  BY DayNat DEF Tens, HourOf, Hour

LEMMA TensDigits ==
  ASSUME NEW s \in Nat, NEW e \in Nat, Tens(s, e)
  PROVE  /\ ((s + e) % 60) \div 10 = (s % 60) \div 10
         /\ ((s + e) \div 60) % 60 = (s \div 60) % 60
  BY DayNat DEF Tens

Regs == {0, 2, 4, 7, 8, 9}

LEMMA FieldType ==
  ASSUME NEW t \in Moments, NEW reg \in Regs
  PROVE  Field(t, reg) \in Nat /\ Field(t, reg) < 100
<1>1. t.date \in [year : 0 .. 99, month : 1 .. 12, day : 1 .. 31]
  BY MomentIs DEF Dates
<1>2. t.sec \in Nat /\ t.sec < 86400
  BY MomentIs, DayIs
<1>3. t.date.year \in 0 .. 99 /\ t.date.month \in 1 .. 12 /\ t.date.day \in 1 .. 31
  BY <1>1
<1>4. CASE reg \in {7, 8, 9}
  BY <1>3, <1>4 DEF Field
<1>5. CASE reg = 0
  BY <1>2, <1>5 DEF Field
<1>6. CASE reg = 2
  BY <1>2, <1>6 DEF Field
<1>7. CASE reg = 4
  BY <1>2, <1>7 DEF Field, Hour
<1> QED
  BY <1>4, <1>5, <1>6, <1>7 DEF Regs

-----------------------------------------------------------------------------
(* What a register that is read twice gives, e seconds after the moment t. *)

\* The number that was read is right: for the seconds, at some moment until now.
Right(t, e, reg, v) ==
  IF reg = 0 THEN \E k \in 0 .. e : v = (t.sec + k) % 60 ELSE v = Field(t, reg)
\* No digit has changed that would make the register, or its two halves, differ.
Stable(t, e, reg) == IF reg \in {0, 2} THEN Tens(t.sec, e) ELSE HourOf(t.sec, e)

Fits(t, e, reg, v) == Stable(t, e, reg) => Right(t, e, reg, v)
HalfFits(t, e, reg, val) ==
  Stable(t, e, reg) => \E v \in Nat : v < 100 /\ Right(t, e, reg, v) /\ val = Bcd(v)

LEMMA StableLess ==
  ASSUME NEW t \in Moments, NEW e \in Nat, NEW reg, Stable(t, e + 1, reg)
  PROVE  Stable(t, e, reg)
<1>1. t.sec \in Nat /\ e + 1 \in Nat /\ e <= e + 1
  BY MomentIs
<1> QED
  BY <1>1, TensLess, HourLess DEF Stable

LEMMA RightLater ==
  ASSUME NEW t, NEW e \in Nat, NEW reg, NEW v, Right(t, e, reg, v)
  PROVE  Right(t, e + 1, reg, v)
<1>1. \A k \in 0 .. e : k \in 0 .. e + 1
  OBVIOUS
<1> QED
  BY <1>1 DEF Right

LEMMA FitsLater ==
  ASSUME NEW t \in Moments, NEW e \in Nat, NEW reg, NEW v
  PROVE  /\ Fits(t, e, reg, v) => Fits(t, e + 1, reg, v)
         /\ HalfFits(t, e, reg, v) => HalfFits(t, e + 1, reg, v)
  BY StableLess, RightLater DEF Fits, HalfFits

\* The register now.
LEMMA RightNow ==
  ASSUME NEW t \in Moments, NEW e \in Nat, e <= Day, NEW reg \in Regs, Stable(t, e, reg)
  PROVE  Right(t, e, reg, Field(After(t, e), reg))
<1>1. t.sec \in Nat /\ t.sec + e < Day
  BY MomentIs DEF Stable, Tens, HourOf
<1>2. After(t, e).date = t.date /\ After(t, e).sec = t.sec + e
  BY <1>1, AfterIs
<1>3. CASE reg = 0
  <2>1. e \in 0 .. e
    OBVIOUS
  <2> QED
    BY <1>2, <1>3, <2>1 DEF Right, Field
<1>4. CASE reg = 2
  <2>1. ((t.sec + e) \div 60) % 60 = (t.sec \div 60) % 60
    BY <1>1, <1>4, TensDigits DEF Stable
  <2> QED
    BY <1>2, <1>4, <2>1 DEF Right, Field
<1>5. CASE reg = 4
  BY <1>2, <1>5 DEF Right, Field, Stable, HourOf
<1>6. CASE reg \in {7, 8, 9}
  BY <1>2, <1>6 DEF Right, Field
<1> QED
  BY <1>3, <1>4, <1>5, <1>6 DEF Regs

LEMMA ReadFirst ==
  ASSUME NEW t \in Moments, NEW e \in Nat, e <= Day, NEW reg \in Regs
  PROVE  HalfFits(t, e, reg, get_rtc_register(After(t, e), reg))
<1>1. Field(After(t, e), reg) \in Nat /\ Field(After(t, e), reg) < 100
  BY AfterIs, FieldType
<1> QED
  BY <1>1, RightNow DEF HalfFits, get_rtc_register

\* Two right numbers differ in their last digit at most.
LEMMA RightTens ==
  ASSUME NEW t \in Moments, NEW e \in Nat, NEW reg \in Regs, NEW v, NEW w,
         Stable(t, e, reg), Right(t, e, reg, v), Right(t, e, reg, w)
  PROVE  v \div 10 = w \div 10
<1>1. CASE reg # 0
  BY <1>1 DEF Right
<1>2. CASE reg = 0
  <2>1. PICK j \in 0 .. e, k \in 0 .. e : v = (t.sec + j) % 60 /\ w = (t.sec + k) % 60
    BY <1>2 DEF Right
  <2>2. t.sec \in Nat /\ j \in Nat /\ k \in Nat /\ j <= e /\ k <= e /\ Tens(t.sec, e)
    BY <1>2, MomentIs DEF Stable
  <2>3. Tens(t.sec, j) /\ Tens(t.sec, k)
    BY <2>2, TensLess
  <2> QED
    BY <2>1, <2>2, <2>3, TensDigits
<1> QED
  BY <1>1, <1>2

LEMMA ReadSecond ==
  ASSUME NEW t \in Moments, NEW e \in Nat, e <= Day, NEW reg \in Regs, NEW val,
         HalfFits(t, e, reg, val)
  PROVE  /\ Fits(t, e, reg, BCD_TO_BIN(val, get_rtc_register(After(t, e), reg)))
         /\ Fits(t, e, reg, BCD_TO_BIN(get_rtc_register(After(t, e), reg), val))
<1> SUFFICES ASSUME Stable(t, e, reg)
             PROVE  /\ Right(t, e, reg, BCD_TO_BIN(val, get_rtc_register(After(t, e), reg)))
                    /\ Right(t, e, reg, BCD_TO_BIN(get_rtc_register(After(t, e), reg), val))
  BY DEF Fits
<1>1. PICK v \in Nat : v < 100 /\ Right(t, e, reg, v) /\ val = Bcd(v)
  BY DEF HalfFits
<1>2. HalfFits(t, e, reg, get_rtc_register(After(t, e), reg))
  BY ReadFirst
<1>3. PICK w \in Nat : w < 100 /\ Right(t, e, reg, w) /\ get_rtc_register(After(t, e), reg) = Bcd(w)
  BY <1>2 DEF HalfFits
<1>4. v \div 10 = w \div 10
  BY <1>1, <1>3, RightTens
<1>5. BCD_TO_BIN(Bcd(v), Bcd(w)) = v /\ BCD_TO_BIN(Bcd(w), Bcd(v)) = w
  BY <1>1, <1>3, <1>4, BcdBack
<1> QED
  BY <1>1, <1>3, <1>5

-----------------------------------------------------------------------------
(* The conversions.                                                        *)

\* Seconds, minutes and hours that are right make up a second of the read.
LEMMA SecondsConvert ==
  ASSUME NEW t \in Moments, NEW e \in Nat, Tens(t.sec, e), NEW s, NEW m, NEW h,
         Right(t, e, 0, s), Right(t, e, 2, m), Right(t, e, 4, h)
  PROVE  \E k \in 0 .. e :
           /\ Tens(t.sec, k) /\ t.sec + k \in Nat /\ t.sec + k < Day
           /\ s = (t.sec + k) % 60 /\ m = ((t.sec + k) \div 60) % 60
           /\ h = (t.sec + k) \div Hour /\ get_time_seconds(s, m, h) = t.sec + k
<1>1. PICK k \in 0 .. e : s = (t.sec + k) % 60
  BY DEF Right
<1>2. m = (t.sec \div 60) % 60 /\ h = t.sec \div Hour
  BY DEF Right, Field
<1>3. k \in Nat /\ k <= e /\ t.sec \in Nat
  BY MomentIs
<1>4. Tens(t.sec, k) /\ HourOf(t.sec, k)
  BY <1>3, TensLess, TensHour
<1>5. m = ((t.sec + k) \div 60) % 60 /\ h = (t.sec + k) \div Hour
  BY <1>2, <1>3, <1>4, TensDigits DEF HourOf
<1>6. PICK x \in Nat : x = t.sec + k /\ x < Day
  BY <1>3, <1>4 DEF Tens
<1>7. s = x % 60 /\ m = (x \div 60) % 60 /\ h = x \div Hour
  BY <1>1, <1>5, <1>6
<1>8. (x % 60) + ((x \div 60) % 60) * 60 + (x \div Hour) * Hour = x
  BY DEF Hour
<1>9. get_time_seconds(s, m, h) = x
  BY <1>7, <1>8 DEF get_time_seconds
<1> QED
  BY <1>1, <1>4, <1>5, <1>6, <1>9

\* get_bdt_string adds six hours.
LEMMA TimeConverts ==
  ASSUME NEW u \in Moments, NEW x \in Nat, x = u.sec, NEW s, NEW m, NEW h,
         s = x % 60, m = (x \div 60) % 60, h = x \div Hour,
         NEW y, y = After(u, 6 * Hour).sec
  PROVE  /\ get_bdt_string(s, m, h).sec = y % 60
         /\ get_bdt_string(s, m, h).min = (y \div 60) % 60
         /\ get_bdt_string(s, m, h).clock.hour % 12 = (y \div Hour) % 12
         /\ get_bdt_string(s, m, h).clock.pm <=> y \div Hour >= 12
<1>1. y = IF x + 6 * Hour < Day THEN x + 6 * Hour ELSE x + 6 * Hour - Day
  <2>1. 6 * Hour \in Nat /\ 6 * Hour <= Day
    BY DayIs
  <2> QED
    BY <2>1, AfterIs
<1>2. x < Day
  BY MomentIs
<1>3. y \in Nat /\ y % 60 = x % 60 /\ (y \div 60) % 60 = (x \div 60) % 60
      /\ y \div Hour = (x \div Hour + 6) % 24
  BY <1>1, <1>2 DEF Day, Hour
<1>4. PICK g \in Nat : g = (h + 6) % 24 /\ g < 24
  <2>1. x \div Hour \in Nat
    BY DEF Hour
  <2>2. (x \div Hour + 6) % 24 \in Nat /\ (x \div Hour + 6) % 24 < 24
    BY <2>1
  <2> QED
    BY <2>2
<1>5. TwelveHour(g).hour % 12 = g % 12 /\ (TwelveHour(g).pm <=> g >= 12)
  <2>1. TwelveHour(g).pm <=> g >= 12
    BY DEF TwelveHour
  <2>2. TwelveHour(g).hour = IF g > 12 THEN g - 12 ELSE IF g = 0 THEN 12 ELSE g
    BY DEF TwelveHour
  <2>3. TwelveHour(g).hour % 12 = g % 12
    BY <1>4, <2>2
  <2> QED
    BY <2>1, <2>3
<1>6. /\ get_bdt_string(s, m, h).sec = s /\ get_bdt_string(s, m, h).min = m
      /\ get_bdt_string(s, m, h).clock = TwelveHour(g)
  BY <1>4 DEF get_bdt_string
<1>7. y \div Hour = g
  BY <1>3, <1>4
<1> QED
  BY <1>3, <1>5, <1>6, <1>7

LEMMA MonthDays ==
  ASSUME NEW y \in 0 .. 99, NEW m \in 1 .. 12
  PROVE  days_in_month(2000 + y, m) = MonthEnd(y, m)
<1>1. is_leap_year(2000 + y) <=> y % 4 = 0
  <2>1. (2000 + y) % 4 = y % 4 /\ (2000 + y) % 100 = y /\ ((2000 + y) % 400 = 0 <=> y = 0)
    OBVIOUS
  <2> QED
    BY <2>1 DEF is_leap_year
<1>2. CASE m = 2
  BY <1>1, <1>2 DEF days_in_month, MonthEnd
<1>3. CASE m # 2
  BY <1>3 DEF days_in_month, MonthEnd
<1> QED
  BY <1>2, <1>3

\* The four cases of get_bdt_date.
DatePrinted(day, month, year, hour) ==
  LET last == days_in_month(2000 + year, month)
      date == get_bdt_date(day, month, year, hour)
      this == 2000 + ((2000 + year) % 100)
  IN  /\ (hour + 6 < 24) => date = [day |-> day, month |-> month, year |-> this]
      /\ (~ (hour + 6 < 24) /\ ~ RollsOver(day, last))
           => date = [day |-> day + 1, month |-> month, year |-> this]
      /\ (~ (hour + 6 < 24) /\ RollsOver(day, last) /\ month + 1 <= 12)
           => date = [day |-> 1, month |-> month + 1, year |-> this]
      /\ (~ (hour + 6 < 24) /\ RollsOver(day, last) /\ ~ (month + 1 <= 12))
           => date = [day |-> 1, month |-> 1, year |-> 2000 + ((2000 + year + 1) % 100)]

LEMMA DateShown ==
  ASSUME NEW day, NEW month, NEW year, NEW hour
  PROVE  DatePrinted(day, month, year, hour)
<1> DEFINE y == 2000 + year
           d == [day |-> day, month |-> month, year |-> y]
           rolls == RollsOver(day, days_in_month(y, month))
           shown1 == IF hour + 6 < 24 THEN d
                     ELSE IF ~ rolls THEN [d EXCEPT !.day = day + 1]
                     ELSE IF month + 1 <= 12 THEN [d EXCEPT !.day = 1, !.month = month + 1]
                     ELSE [day |-> 1, month |-> 1, year |-> y + 1]
<1>1. get_bdt_date(day, month, year, hour) = [shown1 EXCEPT !.year = 2000 + (shown1.year % 100)]
  BY DEF get_bdt_date
<1> HIDE DEF rolls, y
<1>2. /\ hour + 6 < 24 => shown1 = d
      /\ ~ (hour + 6 < 24) /\ ~ rolls => shown1 = [d EXCEPT !.day = day + 1]
      /\ ~ (hour + 6 < 24) /\ rolls /\ month + 1 <= 12
           => shown1 = [d EXCEPT !.day = 1, !.month = month + 1]
      /\ ~ (hour + 6 < 24) /\ rolls /\ ~ (month + 1 <= 12)
           => shown1 = [day |-> 1, month |-> 1, year |-> y + 1]
  OBVIOUS
<1>4. /\ [d EXCEPT !.day = day + 1] = [day |-> day + 1, month |-> month, year |-> y]
      /\ [d EXCEPT !.day = 1, !.month = month + 1] = [day |-> 1, month |-> month + 1, year |-> y]
  <2>1. ASSUME NEW a, NEW b, NEW c, NEW x
        PROVE  [[day |-> a, month |-> b, year |-> c] EXCEPT !.day = x] = [day |-> x, month |-> b, year |-> c]
    OBVIOUS
  <2>2. ASSUME NEW x, NEW z, NEW r, r = [day |-> r.day, month |-> r.month, year |-> r.year],
               NEW n, n = [r EXCEPT !.day = x, !.month = z]
        PROVE  n = [day |-> x, month |-> z, year |-> r.year]
    BY <2>2
  <2>3. [d EXCEPT !.day = day + 1] = [day |-> day + 1, month |-> month, year |-> y]
    BY <2>1
  <2>4. d = [day |-> d.day, month |-> d.month, year |-> d.year] /\ d.year = y
    OBVIOUS
  <2> HIDE DEF d
  <2>5. PICK n : n = [d EXCEPT !.day = 1, !.month = month + 1]
    OBVIOUS
  <2>6. n = [day |-> 1, month |-> month + 1, year |-> y]
    BY <2>2, <2>4, <2>5
  <2> QED
    BY <2>3, <2>5, <2>6
<1> HIDE DEF shown1
<1>5. d = [day |-> day, month |-> month, year |-> y]
  OBVIOUS
<1> HIDE DEF d
<1>6. ASSUME hour + 6 < 24
      PROVE  get_bdt_date(day, month, year, hour) = [day |-> day, month |-> month, year |-> 2000 + (y % 100)]
  <2>1. shown1 = [day |-> day, month |-> month, year |-> y]
    BY <1>2, <1>6, <1>4, <1>5
  <2> QED
    BY <1>1, <2>1
<1>7. ASSUME ~ (hour + 6 < 24), ~ rolls
      PROVE  get_bdt_date(day, month, year, hour) = [day |-> day + 1, month |-> month, year |-> 2000 + (y % 100)]
  <2>1. shown1 = [day |-> day + 1, month |-> month, year |-> y]
    BY <1>2, <1>7, <1>4, <1>5
  <2> QED
    BY <1>1, <2>1
<1>8. ASSUME ~ (hour + 6 < 24), rolls, month + 1 <= 12
      PROVE  get_bdt_date(day, month, year, hour) = [day |-> 1, month |-> month + 1, year |-> 2000 + (y % 100)]
  <2>1. shown1 = [day |-> 1, month |-> month + 1, year |-> y]
    BY <1>2, <1>8, <1>4, <1>5
  <2> QED
    BY <1>1, <2>1
<1>9. ASSUME ~ (hour + 6 < 24), rolls, ~ (month + 1 <= 12)
      PROVE  get_bdt_date(day, month, year, hour) = [day |-> 1, month |-> 1, year |-> 2000 + ((y + 1) % 100)]
  <2>1. shown1 = [day |-> 1, month |-> 1, year |-> y + 1]
    BY <1>2, <1>9, <1>4, <1>5
  <2> QED
    BY <1>1, <2>1
<1> QED
  BY <1>6, <1>7, <1>8, <1>9 DEF rolls, y, DatePrinted

\* get_bdt_date gives the day that begins six hours from now, or has begun.
LEMMA DateConverts ==
  ASSUME NEW u \in Moments
  PROVE  get_bdt_date(u.date.day, u.date.month, u.date.year, u.sec \div Hour)
           = InFull(After(u, 6 * Hour).date)
<1> DEFINE d == u.date
           n == IF u.sec + 6 * Hour < Day THEN d ELSE NextDate(d)
<1>1. d \in [year : 0 .. 99, month : 1 .. 12, day : 1 .. 31]
  BY MomentIs DEF Dates
<1>2. d.year \in 0 .. 99 /\ d.month \in 1 .. 12 /\ d.day \in 1 .. 31 /\ d.year \in Nat
  BY <1>1
<1>3. days_in_month(2000 + d.year, d.month) = MonthEnd(d.year, d.month)
      /\ MonthEnd(d.year, d.month) \in Nat
  <2>1. days_in_month(2000 + d.year, d.month) = MonthEnd(d.year, d.month)
    BY <1>2, MonthDays
  <2>2. MonthEnd(d.year, d.month) \in Nat
    BY <1>2, MonthEndType
  <2> QED
    BY <2>1, <2>2
<1>4. After(u, 6 * Hour).date = n
  <2>1. 6 * Hour \in Nat /\ 6 * Hour <= Day
    BY DayIs
  <2> QED
    BY <2>1, AfterIs
<1>5. u.sec \div Hour + 6 < 24 <=> u.sec + 6 * Hour < Day
  BY MomentIs DEF Day, Hour
<1> DEFINE h == u.sec \div Hour
<1> SUFFICES get_bdt_date(d.day, d.month, d.year, h) = InFull(n)
  BY <1>4
<1>6. d = [day |-> d.day, month |-> d.month, year |-> d.year]
  BY <1>1
<1>10. h \in Nat /\ d.day \in Nat /\ d.month \in Nat /\ (h + 6 < 24 <=> u.sec + 6 * Hour < Day)
  BY <1>2, <1>5, MomentIs DEF Hour
<1>11. (2000 + d.year) % 100 = d.year /\ (2000 + d.year + 1) % 100 = (d.year + 1) % 100
  BY <1>2
<1> HIDE DEF d, h
<1>13. DatePrinted(d.day, d.month, d.year, h)
  BY DateShown
<1>12. /\ (h + 6 < 24) =>
            get_bdt_date(d.day, d.month, d.year, h)
              = [day |-> d.day, month |-> d.month, year |-> 2000 + ((2000 + d.year) % 100)]
       /\ (~ (h + 6 < 24) /\ ~ RollsOver(d.day, days_in_month(2000 + d.year, d.month))) =>
            get_bdt_date(d.day, d.month, d.year, h)
              = [day |-> d.day + 1, month |-> d.month, year |-> 2000 + ((2000 + d.year) % 100)]
       /\ (~ (h + 6 < 24) /\ RollsOver(d.day, days_in_month(2000 + d.year, d.month)) /\ d.month + 1 <= 12) =>
            get_bdt_date(d.day, d.month, d.year, h)
              = [day |-> 1, month |-> d.month + 1, year |-> 2000 + ((2000 + d.year) % 100)]
       /\ (~ (h + 6 < 24) /\ RollsOver(d.day, days_in_month(2000 + d.year, d.month)) /\ ~ (d.month + 1 <= 12)) =>
            get_bdt_date(d.day, d.month, d.year, h)
              = [day |-> 1, month |-> 1, year |-> 2000 + ((2000 + d.year + 1) % 100)]
  BY <1>13, Zenon DEF DatePrinted
<1>7. CASE u.sec + 6 * Hour < Day
  <2>1. get_bdt_date(d.day, d.month, d.year, h)
          = [day |-> d.day, month |-> d.month, year |-> 2000 + ((2000 + d.year) % 100)]
    BY <1>7, <1>10, <1>12
  <2>2. InFull(d) = [day |-> d.day, month |-> d.month, year |-> 2000 + d.year]
    BY <1>6 DEF InFull
  <2> QED
    BY <1>7, <1>11, <2>1, <2>2
<1>8. CASE ~ (u.sec + 6 * Hour < Day)
  <2>0. n = NextDate(d) /\ ~ (h + 6 < 24)
        /\ (RollsOver(d.day, days_in_month(2000 + d.year, d.month)) <=> ~ (d.day < MonthEnd(d.year, d.month)))
    BY <1>2, <1>3, <1>8, <1>10 DEF RollsOver
  <2>1. CASE d.day < MonthEnd(d.year, d.month)
    <3>1. get_bdt_date(d.day, d.month, d.year, h)
            = [day |-> d.day + 1, month |-> d.month, year |-> 2000 + ((2000 + d.year) % 100)]
      BY <1>12, <2>0, <2>1
    <3>2. n = [d EXCEPT !.day = d.day + 1]
      BY <2>0, <2>1 DEF NextDate
    <3>3. n = [day |-> d.day + 1, month |-> d.month, year |-> d.year]
      BY <1>6, <3>2
    <3>4. InFull(n) = [day |-> d.day + 1, month |-> d.month, year |-> 2000 + d.year]
      BY <3>3 DEF InFull
    <3> QED
      BY <2>0, <1>11, <3>1, <3>4
  <2>2. CASE ~ (d.day < MonthEnd(d.year, d.month)) /\ d.month < 12
    <3>0. d.month + 1 <= 12
      BY <1>2, <2>2
    <3>1. get_bdt_date(d.day, d.month, d.year, h)
            = [day |-> 1, month |-> d.month + 1, year |-> 2000 + ((2000 + d.year) % 100)]
      BY <1>12, <2>0, <2>2, <3>0
    <3>2. n = [d EXCEPT !.day = 1, !.month = d.month + 1]
      BY <2>0, <2>2 DEF NextDate
    <3>3. n = [day |-> 1, month |-> d.month + 1, year |-> d.year]
      BY <1>6, <3>2
    <3>4. InFull(n) = [day |-> 1, month |-> d.month + 1, year |-> 2000 + d.year]
      BY <3>3 DEF InFull
    <3> QED
      BY <2>0, <1>11, <3>1, <3>4
  <2>3. CASE ~ (d.day < MonthEnd(d.year, d.month)) /\ ~ (d.month < 12)
    <3>0. ~ (d.month + 1 <= 12)
      BY <1>2, <2>3
    <3>1. get_bdt_date(d.day, d.month, d.year, h)
            = [day |-> 1, month |-> 1, year |-> 2000 + ((2000 + d.year + 1) % 100)]
      BY <1>12, <2>0, <2>3, <3>0
    <3>2. n = [day |-> 1, month |-> 1, year |-> (d.year + 1) % 100]
      BY <2>0, <2>3 DEF NextDate
    <3>3. InFull(n) = [day |-> 1, month |-> 1, year |-> 2000 + ((d.year + 1) % 100)]
      BY <3>2 DEF InFull
    <3> QED
      BY <2>0, <1>11, <3>1, <3>3
  <2> QED
    BY <2>1, <2>2, <2>3
<1> QED
  BY <1>7, <1>8
-----------------------------------------------------------------------------
(* The invariant.                                                          *)

Ops     == {"boot", "uptime", "time"}
Elapsed == age - began.age
Left    == Registers[op][Len(got) + 1]

OpOK ==
  /\ now \in Moments /\ began.now \in Moments
  /\ age \in Nat /\ began.age \in Nat /\ bootAge \in Nat
  /\ ticks \in Nat /\ ticks <= MaxTicks
  /\ boot_time \in Nat /\ bootTorn \in BOOLEAN
  /\ value \in Nat /\ got \in Seq(Nat)
  /\ half \in {"none", "low", "high"}
  /\ op \in Ops \cup {"idle"}
  /\ op = "idle" => half = "none"
  /\ op \in Ops => shown = Nothing /\ Len(got) <= Len(Registers[op])
  /\ half # "none" => Reading

\* The operation, or the one that has just ended, began Elapsed seconds ago.
ClockOK ==
  (op \in Ops \/ shown # Nothing) =>
    /\ Elapsed \in Nat /\ Elapsed <= ticks
    /\ now = After(began.now, Elapsed)

\* What was read, and the first half of what is being read, was right at some
\* moment of the operation, unless a digit has changed.
ReadOK ==
  op \in Ops =>
    /\ \A i \in 1 .. Len(got) : Fits(began.now, Elapsed, Registers[op][i], got[i])
    /\ half # "none" => HalfFits(began.now, Elapsed, Left, value)

\* The second of the day at which the kernel booted is o: the clock and the time
\* that was read at boot agree on it.
BootRead(o) == \E b \in 0 .. bootAge : boot_time = o + b /\ o + b < Day
Origin(o) ==
  /\ now.sec = (o + age) % Day
  /\ began.now.sec = (o + began.age) % Day
  /\ op = "boot" => began.age = 0
  /\ (op # "boot" /\ bootTorn = FALSE) => BootRead(o)
OriginOK == \E o \in Nat : o < Day /\ Origin(o)

Printed == TimeIsOfDhaka /\ DateIsOfDhaka /\ UptimeForgetsDays /\ UptimeIsNotNegative

Inv == OpOK /\ ClockOK /\ ReadOK /\ OriginOK /\ Printed

LEMMA RegistersAre ==
  /\ Registers["boot"] = <<0, 2, 4>> /\ Registers["uptime"] = <<0, 2, 4>>
  /\ Registers["time"] = <<0, 2, 4, 7, 8, 9, 4>>
  /\ \A o \in Ops : /\ Len(Registers[o]) \in Nat /\ Len(Registers[o]) >= 3
                    /\ Registers[o][1] = 0 /\ Registers[o][2] = 2 /\ Registers[o][3] = 4
                    /\ \A i \in 1 .. Len(Registers[o]) : Registers[o][i] \in Regs
<1>1. /\ Registers["boot"] = <<0, 2, 4>> /\ Registers["uptime"] = <<0, 2, 4>>
      /\ Registers["time"] = <<0, 2, 4, 7, 8, 9, 4>>
  BY DEF Registers
<1>2. ASSUME NEW i \in 1 .. 3
      PROVE  <<0, 2, 4>>[i] \in Regs
  BY DEF Regs
<1>3. ASSUME NEW i \in 1 .. 7
      PROVE  <<0, 2, 4, 7, 8, 9, 4>>[i] \in Regs
  BY DEF Regs
<1>4. ASSUME NEW o \in {"boot", "uptime"}
      PROVE  /\ Len(Registers[o]) \in Nat /\ Len(Registers[o]) >= 3
             /\ Registers[o][1] = 0 /\ Registers[o][2] = 2 /\ Registers[o][3] = 4
             /\ \A i \in 1 .. Len(Registers[o]) : Registers[o][i] \in Regs
  <2>1. Registers[o] = <<0, 2, 4>>
    BY <1>1, <1>4
  <2>2. Len(<<0, 2, 4>>) = 3
    OBVIOUS
  <2> QED
    BY <2>1, <2>2, <1>2
<1>5. /\ Len(Registers["time"]) \in Nat /\ Len(Registers["time"]) >= 3
      /\ Registers["time"][1] = 0 /\ Registers["time"][2] = 2 /\ Registers["time"][3] = 4
      /\ \A i \in 1 .. Len(Registers["time"]) : Registers["time"][i] \in Regs
  <2>1. Len(<<0, 2, 4, 7, 8, 9, 4>>) = 7
    OBVIOUS
  <2> QED
    BY <2>1, <1>1, <1>3
<1> QED
  BY <1>1, <1>4, <1>5, Zenon DEF Ops

\* Nothing is said of the screen while an operation runs.
LEMMA NothingPrinted ==
  ASSUME shown' = Nothing
  PROVE  Printed'
  BY DEF Printed, TimeIsOfDhaka, DateIsOfDhaka, UptimeForgetsDays, UptimeIsNotNegative, Nothing

\* The second of the day, modulo a day.
LEMMA SecLater ==
  ASSUME NEW t \in Moments, NEW x \in Nat, t.sec = x % Day, NEW k \in Nat, k <= Day
  PROVE  After(t, k).sec = (x + k) % Day
<1>1. After(t, k).sec = IF t.sec + k < Day THEN t.sec + k ELSE t.sec + k - Day
  BY AfterIs
<1>2. PICK s \in Nat : s = t.sec /\ s = x % Day
  BY MomentIs
<1>3. (IF s + k < Day THEN s + k ELSE s + k - Day) = (x + k) % Day
  BY <1>2 DEF Day
<1> QED
  BY <1>1, <1>2, <1>3

LEMMA InitInv == Init => Inv
<1> SUFFICES ASSUME Init
             PROVE  Inv
  OBVIOUS
<1>1. now \in Moments /\ MaxTicks \in Nat
  BY ClockAssumption, DayNat DEF Init
<1>2. OpOK
  <2>1. op = "boot" /\ op \in Ops /\ got = <<>> /\ Len(got) = 0 /\ Len(Registers[op]) \in Nat
    BY RegistersAre DEF Init, Ops
  <2>2. began.now \in Moments /\ began.age \in Nat
    BY <1>1 DEF Init
  <2>3. bootTorn \in BOOLEAN
    BY Zenon DEF Init
  <2>7. got \in Seq(Nat)
    BY DEF Init
  <2>4. /\ age \in Nat /\ bootAge \in Nat /\ ticks \in Nat /\ ticks <= MaxTicks
        /\ boot_time \in Nat /\ value \in Nat
    BY <1>1 DEF Init
  <2>5. half = "none" /\ shown = Nothing /\ op # "idle"
    BY DEF Init
  <2>6. Len(got) <= Len(Registers[op])
    BY <2>1, RegistersAre
  <2> QED
    BY <1>1, <2>1, <2>2, <2>3, <2>4, <2>5, <2>6, <2>7 DEF OpOK
<1>3. ClockOK
  <2>1. Elapsed = 0
    BY DEF Init, Elapsed
  <2>2. now = After(now, 0)
    BY <1>1, AfterNone
  <2> QED
    BY <2>1, <2>2 DEF Init, ClockOK
<1>4. ReadOK
  BY DEF Init, ReadOK
<1>5. OriginOK
  <2>1. now.sec \in Nat /\ now.sec < Day /\ now.sec = (now.sec + 0) % Day
    <3>1. PICK s \in Nat : s = now.sec /\ s < Day
      BY <1>1, MomentIs
    <3>2. (s + 0) % Day = s
      BY <3>1 DEF Day
    <3> QED
      BY <3>1, <3>2
  <2>2. Origin(now.sec)
    BY <2>1 DEF Init, Origin
  <2> QED
    BY <2>1, <2>2 DEF OriginOK
<1>6. Printed
  BY DEF Init, Printed, TimeIsOfDhaka, DateIsOfDhaka, UptimeForgetsDays, UptimeIsNotNegative, Nothing
<1> QED
  BY <1>2, <1>3, <1>4, <1>5, <1>6 DEF Inv

\* A second more: what was read stays right, unless a digit changes.
LEMMA SecondInv ==
  ASSUME Inv, Second
  PROVE  Inv'
<1> USE DEF Inv
<1>1. op \in Ops /\ shown = Nothing /\ shown' = Nothing
  BY DEF OpOK, Second
<1>2. /\ Elapsed \in Nat /\ Elapsed + 1 <= ticks + 1 /\ Elapsed + 1 <= Day /\ Elapsed' = Elapsed + 1
      /\ ticks' = ticks + 1 /\ ticks' <= MaxTicks /\ ticks' \in Nat
  <2>1. ticks \in Nat /\ ticks < MaxTicks /\ MaxTicks \in Nat /\ MaxTicks <= Day /\ ticks' = ticks + 1
    BY ClockAssumption, DayNat DEF OpOK, Second
  <2>2. Elapsed \in Nat /\ Elapsed <= ticks
    BY <1>1 DEF ClockOK
  <2>3. Elapsed' = Elapsed + 1
    BY DEF Second, Elapsed, OpOK
  <2> QED
    BY <2>1, <2>2, <2>3, DayNat
<1>3. now' = After(began.now, Elapsed + 1) /\ now' \in Moments
  <2>1. now = After(began.now, Elapsed) /\ began.now \in Moments /\ now' = After(now, 1)
    BY <1>1 DEF ClockOK, OpOK, Second
  <2>2. After(After(began.now, Elapsed), 1) = After(began.now, Elapsed + 1)
    BY <1>2, <2>1, AfterOne
  <2>3. Elapsed + 1 \in Nat
    BY <1>2
  <2>4. After(began.now, Elapsed + 1) \in Moments
    BY <1>2, <2>1, <2>3, AfterIs
  <2> QED
    BY <2>1, <2>2, <2>4
<1>4. OpOK'
  BY <1>1, <1>2, <1>3 DEF OpOK, Second, Reading
<1>5. ClockOK'
  <2>1. began' = began
    BY DEF Second
  <2> QED
    BY <1>2, <1>3, <2>1 DEF ClockOK
<1>6. ReadOK'
  <2>1. /\ \A i \in 1 .. Len(got) : Fits(began.now, Elapsed, Registers[op][i], got[i])
        /\ half # "none" => HalfFits(began.now, Elapsed, Left, value)
    BY <1>1 DEF ReadOK
  <2>2. began.now \in Moments
    BY DEF OpOK
  <2>3. /\ \A i \in 1 .. Len(got) : Fits(began.now, Elapsed + 1, Registers[op][i], got[i])
        /\ half # "none" => HalfFits(began.now, Elapsed + 1, Left, value)
    BY <1>2, <2>1, <2>2, FitsLater
  <2>4. UNCHANGED <<began, op, got, half, value>> /\ Left' = Left
    BY DEF Second, Left
  <2> QED
    BY <1>2, <2>3, <2>4 DEF ReadOK
<1>7. OriginOK'
  <2>1. PICK o \in Nat : o < Day /\ Origin(o)
    BY DEF OriginOK
  <2>2. now'.sec = (o + age') % Day
    <3>1. now \in Moments /\ o + age \in Nat /\ now.sec = (o + age) % Day /\ now' = After(now, 1)
      BY <2>1 DEF OpOK, Origin, Second
    <3>2. After(now, 1).sec = (o + age + 1) % Day
      BY <3>1, SecLater, DayNat
    <3>3. o + age + 1 = o + age'
      BY DEF OpOK, Second
    <3> QED
      BY <3>1, <3>2, <3>3
  <2>3. Origin(o)'
    BY <2>1, <2>2 DEF Origin, BootRead, Second
  <2> QED
    BY <2>1, <2>3 DEF OriginOK
<1> QED
  BY <1>1, <1>4, <1>5, <1>6, <1>7, NothingPrinted

LEMMA SleepInv ==
  ASSUME Inv, NEW k \in Sleeps, Sleep(k)
  PROVE  Inv'
<1> USE DEF Inv
<1>1. op = "idle" /\ op' = "idle" /\ op' \notin Ops /\ op # "boot" /\ shown' = Nothing
      /\ now' = After(now, k) /\ age' = age + k /\ k \in Nat /\ k <= Day
  BY ClockAssumption, DayNat DEF Sleep, Ops
<1>2. now' \in Moments
  BY <1>1, AfterIs DEF OpOK
<1>3. OpOK'
  BY <1>1, <1>2 DEF OpOK, Sleep, Reading
<1>4. ClockOK' /\ ReadOK'
  BY <1>1 DEF ClockOK, ReadOK
<1>5. OriginOK'
  <2>1. PICK o \in Nat : o < Day /\ Origin(o)
    BY DEF OriginOK
  <2>2. now'.sec = (o + age') % Day
    <3>1. now \in Moments /\ o + age \in Nat /\ now.sec = (o + age) % Day
      BY <2>1 DEF OpOK, Origin
    <3>2. After(now, k).sec = (o + age + k) % Day
      BY <1>1, <3>1, SecLater
    <3>3. o + age + k = o + age'
      BY <1>1 DEF OpOK
    <3> QED
      BY <1>1, <3>2, <3>3
  <2>3. Origin(o)'
    BY <1>1, <2>1, <2>2 DEF Origin, BootRead, Sleep
  <2> QED
    BY <2>1, <2>3 DEF OriginOK
<1> QED
  BY <1>1, <1>3, <1>4, <1>5, NothingPrinted

LEMMA CallInv ==
  ASSUME Inv, NEW o \in {"time", "uptime"}, Call(o)
  PROVE  Inv'
<1> USE DEF Inv
<1>1. /\ op' = o /\ o \in Ops /\ o # "boot" /\ op # "boot" /\ shown' = Nothing
      /\ began'.now = now /\ began'.age = age /\ now' = now /\ age' = age
      /\ got' = <<>> /\ half' = "none"
  BY DEF Call, Ops, OpOK
<1>2. OpOK'
  <2>1. Len(Registers[o]) \in Nat /\ Len(<<>>) = 0
    BY <1>1, RegistersAre
  <2> QED
    BY <1>1, <2>1 DEF OpOK, Call, Reading
<1>3. ClockOK'
  <2>1. Elapsed' = 0
    BY <1>1 DEF Elapsed, OpOK
  <2>2. After(now, 0) = now
    BY AfterNone DEF OpOK
  <2>3. ticks' \in Nat
    BY <1>2 DEF OpOK
  <2> QED
    BY <1>1, <2>1, <2>2, <2>3 DEF ClockOK
<1>4. ReadOK'
  BY <1>1 DEF ReadOK
<1>5. OriginOK'
  <2>1. PICK b \in Nat : b < Day /\ Origin(b)
    BY DEF OriginOK
  <2>2. Origin(b)'
    BY <1>1, <2>1 DEF Origin, BootRead, Call
  <2> QED
    BY <2>1, <2>2 DEF OriginOK
<1> QED
  BY <1>1, <1>2, <1>3, <1>4, <1>5, NothingPrinted

\* While an operation reads a register, the clock has not gone on for a day.
LEMMA ReadingIs ==
  ASSUME Inv, Reading
  PROVE  /\ op \in Ops /\ shown = Nothing /\ began.now \in Moments
         /\ Elapsed \in Nat /\ Elapsed <= Day /\ now = After(began.now, Elapsed)
         /\ Len(got) \in Nat /\ Len(got) + 1 <= Len(Registers[op]) /\ Left \in Regs
         /\ Register = get_rtc_register(After(began.now, Elapsed), Left)
         /\ now \in Moments
<1> USE DEF Inv
<1>1. op \in Ops /\ shown = Nothing /\ began.now \in Moments /\ got \in Seq(Nat) /\ now \in Moments
  BY DEF OpOK, Reading
<1>2. Len(got) \in Nat /\ Len(got) < Len(Registers[op]) /\ Len(Registers[op]) \in Nat
  BY <1>1, RegistersAre DEF Reading
<1>3. Len(got) + 1 \in 1 .. Len(Registers[op])
  BY <1>2
<1>4. Left \in Regs
  BY <1>1, <1>3, RegistersAre DEF Left
<1>5. Elapsed \in Nat /\ Elapsed <= ticks /\ now = After(began.now, Elapsed)
  BY <1>1 DEF ClockOK
<1>6. Elapsed <= Day
  <2>1. ticks \in Nat /\ ticks <= MaxTicks /\ MaxTicks \in Nat /\ MaxTicks <= Day
    BY ClockAssumption, DayNat DEF OpOK
  <2> QED
    BY <1>5, <2>1, DayNat
<1>7. Register = get_rtc_register(After(began.now, Elapsed), Left)
  BY <1>5 DEF Register, Left
<1> QED
  BY <1>1, <1>2, <1>3, <1>4, <1>5, <1>6, <1>7

\* Reads change nothing of the clock.
LEMMA ReadKeeps ==
  ASSUME OriginOK, ClockOK, UNCHANGED <<now, op, boot_time, shown, age, began, bootAge, bootTorn, ticks>>
  PROVE  OriginOK' /\ ClockOK' /\ Elapsed' = Elapsed
<1>1. Elapsed' = Elapsed
  BY DEF Elapsed
<1>2. ClockOK'
  BY <1>1 DEF ClockOK
<1>3. PICK o \in Nat : o < Day /\ Origin(o)
  BY DEF OriginOK
<1>4. Origin(o)'
  BY <1>3 DEF Origin, BootRead
<1> QED
  BY <1>1, <1>2, <1>3, <1>4 DEF OriginOK

LEMMA ReadOnceInv ==
  ASSUME Inv, NEW h \in {"low", "high"}, ReadOnce(h)
  PROVE  Inv'
<1> USE DEF Inv
<1>1. Reading /\ shown = Nothing /\ op \in Ops
  BY ReadingIs DEF ReadOnce
<1>2. OriginOK' /\ ClockOK' /\ Elapsed' = Elapsed
  BY ReadKeeps DEF ReadOnce
<1>3. HalfFits(began.now, Elapsed, Left, value')
  BY <1>1, ReadingIs, ReadFirst DEF ReadOnce
<1>4. value' \in Nat
  <2>1. Field(After(began.now, Elapsed), Left) \in Nat
    BY <1>1, ReadingIs, FieldType
  <2> QED
    BY <1>1, <2>1, ReadingIs, BcdType DEF ReadOnce, get_rtc_register
<1>5. OpOK'
  BY <1>1, <1>4 DEF OpOK, ReadOnce, Reading
<1>6. ReadOK'
  <2>1. UNCHANGED <<began, op, got>> /\ Left' = Left
    BY DEF ReadOnce, Left
  <2>2. \A i \in 1 .. Len(got) : Fits(began.now, Elapsed, Registers[op][i], got[i])
    BY <1>1 DEF ReadOK
  <2> QED
    BY <1>2, <1>3, <2>1, <2>2 DEF ReadOK
<1>7. Printed'
  BY <1>1, NothingPrinted DEF ReadOnce
<1> QED
  BY <1>2, <1>5, <1>6, <1>7

LEMMA ReadAgainInv ==
  ASSUME Inv, ReadAgain
  PROVE  Inv'
<1> USE DEF Inv
<1>1. Reading /\ shown = Nothing /\ op \in Ops /\ got \in Seq(Nat) /\ half # "none" /\ value \in Nat
  BY ReadingIs DEF ReadAgain, OpOK
<1>2. OriginOK' /\ ClockOK' /\ Elapsed' = Elapsed
  BY ReadKeeps DEF ReadAgain
<1>3. PICK v : /\ got' = Append(got, v) /\ v \in Nat
               /\ Fits(began.now, Elapsed, Left, v)
  <2>1. HalfFits(began.now, Elapsed, Left, value)
    BY <1>1 DEF ReadOK
  <2>2. /\ Fits(began.now, Elapsed, Left, BCD_TO_BIN(value, Register))
        /\ Fits(began.now, Elapsed, Left, BCD_TO_BIN(Register, value))
    BY <1>1, <2>1, ReadingIs, ReadSecond
  <2>3. Register \in Nat
    <3>1. Field(After(began.now, Elapsed), Left) \in Nat
      BY <1>1, ReadingIs, FieldType
    <3> QED
      BY <1>1, <3>1, ReadingIs, BcdType DEF get_rtc_register
  <2>4. BCD_TO_BIN(value, Register) \in Nat /\ BCD_TO_BIN(Register, value) \in Nat
    BY <1>1, <2>3, BcdType
  <2> QED
    BY <2>2, <2>4 DEF ReadAgain
<1>4. /\ Len(got) \in Nat /\ Len(got') = Len(got) + 1 /\ got' \in Seq(Nat)
      /\ got'[Len(got) + 1] = v
      /\ \A i \in 1 .. Len(got) : got'[i] = got[i]
  BY <1>1, <1>3
<1>5. OpOK'
  <2>1. Len(got') <= Len(Registers[op])
    BY <1>1, <1>4, ReadingIs
  <2> QED
    BY <1>1, <1>4, <2>1 DEF OpOK, ReadAgain
<1>6. ReadOK'
  <2>1. UNCHANGED <<began, op>> /\ half' = "none"
    BY DEF ReadAgain
  <2>2. ASSUME NEW i \in 1 .. Len(got')
        PROVE  Fits(began.now, Elapsed, Registers[op][i], got'[i])
    <3>1. CASE i \in 1 .. Len(got)
      BY <1>1, <1>4, <3>1 DEF ReadOK
    <3>2. CASE i = Len(got) + 1
      BY <1>3, <1>4, <3>2 DEF Left
    <3> QED
      BY <1>4, <3>1, <3>2
  <2> QED
    BY <1>2, <2>1, <2>2 DEF ReadOK
<1>7. Printed'
  BY <1>1, NothingPrinted DEF ReadAgain
<1> QED
  BY <1>2, <1>5, <1>6, <1>7
-----------------------------------------------------------------------------
(* What is printed.                                                        *)

\* Unless the read is torn, no digit but the last of the seconds has changed.
LEMMA NotTorn ==
  ASSUME NEW t \in Moments, NEW e \in Nat, e <= Day, NEW u, u = After(t, e),
         u.date = t.date, u.sec \div 10 = t.sec \div 10
  PROVE  Tens(t.sec, e)
<1>1. t.date \in Dates
  BY MomentIs
<1>2. u.date = IF t.sec + e < Day THEN t.date ELSE NextDate(t.date)
  BY AfterIs
<1>3. t.sec + e < Day
  BY <1>1, <1>2, NextDateType
<1>4. u.sec = t.sec + e
  BY <1>3, AfterIs
<1> QED
  BY <1>3, <1>4 DEF Tens

LEMMA SameHour ==
  ASSUME NEW t \in Moments, NEW e \in Nat, e <= Day, NEW u, u = After(t, e),
         u.date = t.date, u.sec \div Hour = t.sec \div Hour
  PROVE  HourOf(t.sec, e)
<1>1. t.date \in Dates
  BY MomentIs
<1>2. u.date = IF t.sec + e < Day THEN t.date ELSE NextDate(t.date)
  BY AfterIs
<1>3. t.sec + e < Day
  BY <1>1, <1>2, NextDateType
<1>4. u.sec = t.sec + e
  BY <1>3, AfterIs
<1> QED
  BY <1>3, <1>4 DEF HourOf

\* When an operation returns, the three registers make up a second of the read.
LEMMA SecondsRead ==
  ASSUME Inv, op \in Ops, Len(got) = Len(Registers[op]), Tens(began.now.sec, Elapsed)
  PROVE  \E k \in 0 .. Elapsed :
           LET x == began.now.sec + k IN
             /\ Tens(began.now.sec, k) /\ x \in Nat /\ x < Day
             /\ got[1] = x % 60 /\ got[2] = (x \div 60) % 60 /\ got[3] = x \div Hour
             /\ get_time_seconds(got[1], got[2], got[3]) = x
<1> DEFINE B == began.now
<1>1. B \in Moments /\ Elapsed \in Nat
  BY DEF Inv, OpOK, ClockOK
<1>2. Tens(B.sec, Elapsed) /\ HourOf(B.sec, Elapsed)
  <2>1. B.sec \in Nat
    BY <1>1, MomentIs
  <2> QED
    BY <1>1, <2>1, TensHour
<1>3. 1 \in 1 .. Len(got) /\ 2 \in 1 .. Len(got) /\ 3 \in 1 .. Len(got)
  <2>1. Len(got) \in Nat /\ Len(got) >= 3
    BY RegistersAre
  <2> QED
    BY <2>1
<1>4. Fits(B, Elapsed, 0, got[1]) /\ Fits(B, Elapsed, 2, got[2]) /\ Fits(B, Elapsed, 4, got[3])
  <2>1. Registers[op][1] = 0 /\ Registers[op][2] = 2 /\ Registers[op][3] = 4
    BY RegistersAre
  <2> QED
    BY <1>3, <2>1 DEF Inv, ReadOK
<1>5. Right(B, Elapsed, 0, got[1]) /\ Right(B, Elapsed, 2, got[2]) /\ Right(B, Elapsed, 4, got[3])
  BY <1>2, <1>4 DEF Fits, Stable
<1> HIDE DEF B
<1>6. \E k \in 0 .. Elapsed :
        /\ Tens(B.sec, k) /\ B.sec + k \in Nat /\ B.sec + k < Day
        /\ got[1] = (B.sec + k) % 60 /\ got[2] = ((B.sec + k) \div 60) % 60
        /\ got[3] = (B.sec + k) \div Hour /\ get_time_seconds(got[1], got[2], got[3]) = B.sec + k
  <2>1. PICK t \in Moments, e \in Nat : t = B /\ e = Elapsed
    BY <1>1
  <2>2. PICK s, m, h : s = got[1] /\ m = got[2] /\ h = got[3]
    OBVIOUS
  <2>3. Tens(t.sec, e) /\ Right(t, e, 0, s) /\ Right(t, e, 2, m) /\ Right(t, e, 4, h)
    BY <1>2, <1>5, <2>1, <2>2
  <2>4. \E k \in 0 .. e :
           /\ Tens(t.sec, k) /\ t.sec + k \in Nat /\ t.sec + k < Day
           /\ s = (t.sec + k) % 60 /\ m = ((t.sec + k) \div 60) % 60
           /\ h = (t.sec + k) \div Hour /\ get_time_seconds(s, m, h) = t.sec + k
    BY <2>3, SecondsConvert
  <2> QED
    BY <2>1, <2>2, <2>4
<1> QED
  BY <1>6 DEF B

\* The second of the day is the time since the boot, modulo a day.
UptimeIs(o, a, k, b, s) == Wrap((s + k) - (o + b)) = ((a + k) - b) % Day

LEMMA UptimeConverts ==
  ASSUME NEW o \in Nat, NEW a \in Nat, NEW k \in Nat, NEW b \in Nat, NEW s \in Nat,
         o + b < Day, s = (o + a) % Day, s + k < Day
  PROVE  UptimeIs(o, a, k, b, s)
<1>1. PICK x \in Nat : x = o + b
  OBVIOUS
<1>2. PICK z \in Int : z = (a + k) - b
  OBVIOUS
<1>3. o + a + k = x + z
  BY <1>1, <1>2
<1>4. s \in Nat /\ s + k = (x + z) % Day
  <2>1. PICK n \in Nat : n = o + a
    OBVIOUS
  <2>2. s \in Nat /\ s + k = (n + k) % Day
    BY <2>1 DEF Day
  <2> QED
    BY <1>3, <2>1, <2>2
<1>5. x < Day
  BY <1>1
<1>6. ((x + z) % Day) - x = IF (x + z) % Day < x THEN (z % Day) - Day ELSE z % Day
  BY <1>2, <1>5 DEF Day
<1>7. PICK y \in Nat : y = (x + z) % Day /\ y < Day
  BY <1>2 DEF Day
<1>8. PICK r \in Nat : r = z % Day /\ r < Day
  BY <1>2 DEF Day
<1>9. Wrap(y - x) = r
  BY <1>5, <1>6, <1>7, <1>8, DayNat DEF Wrap
<1> QED
  BY <1>1, <1>2, <1>4, <1>7, <1>8, <1>9 DEF UptimeIs

LEMMA ReturnClock ==
  ASSUME Inv, Return
  PROVE  /\ op \in Ops /\ op' = "idle" /\ Len(got) = Len(Registers[op])
         /\ began.now \in Moments /\ now \in Moments
         /\ Elapsed \in Nat /\ Elapsed <= Day /\ now = After(began.now, Elapsed)
         /\ UNCHANGED <<now, half, value, age, began, sleeps>> /\ half' = "none"
         /\ op # "boot" => UNCHANGED <<boot_time, bootAge, bootTorn>>
<1> USE DEF Inv
<1>1. op \in Ops /\ op' = "idle" /\ Len(got) = Len(Registers[op])
      /\ UNCHANGED <<now, half, value, age, began, sleeps>>
  BY DEF Return, OpOK
<1>2. began.now \in Moments /\ now \in Moments
  BY DEF OpOK
<1>3. Elapsed \in Nat /\ Elapsed <= ticks /\ now = After(began.now, Elapsed)
  BY <1>1 DEF ClockOK
<1>4. Elapsed <= Day
  <2>1. ticks \in Nat /\ ticks <= MaxTicks /\ MaxTicks \in Nat /\ MaxTicks <= Day
    BY ClockAssumption, DayNat DEF OpOK
  <2> QED
    BY <1>3, <2>1, DayNat
<1>5. half' = "none"
  <2>1. ~ Reading
    <3>1. Len(got) \in Nat
      BY DEF OpOK
    <3> QED
      BY <1>1, <3>1 DEF Reading
  <2> QED
    BY <1>1, <2>1 DEF OpOK
<1>6. op # "boot" => UNCHANGED <<boot_time, bootAge, bootTorn>>
  BY <1>1 DEF Return, Ops
<1> QED
  BY <1>1, <1>2, <1>3, <1>4, <1>5, <1>6

\* Unless the read is torn.
LEMMA ReturnTens ==
  ASSUME Inv, Return, ~ Torn
  PROVE  Tens(began.now.sec, Elapsed)
<1>1. now.date = began.now.date /\ now.sec \div 10 = began.now.sec \div 10
  BY DEF Torn
<1> QED
  BY <1>1, ReturnClock, NotTorn

LEMMA ReturnTime ==
  ASSUME Inv, Return, op = "time"
  PROVE  TimeIsOfDhaka'
<1> DEFINE B == began.now
<1>1. /\ shown'.torn = Torn
      /\ shown'.time = get_bdt_string(got[1], got[2], got[3])
  BY DEF Return
<1> SUFFICES ASSUME ~ Torn
             PROVE  \E t \in During' : LET s == After(t, 6 * Hour).sec IN
                      /\ shown'.time.sec = s % 60
                      /\ shown'.time.min = (s \div 60) % 60
                      /\ shown'.time.clock.hour % 12 = (s \div Hour) % 12
                      /\ shown'.time.clock.pm <=> s \div Hour >= 12
  BY <1>1 DEF TimeIsOfDhaka
<1>2. PICK k \in 0 .. Elapsed :
        LET x == B.sec + k IN
             /\ Tens(B.sec, k) /\ x \in Nat /\ x < Day
             /\ got[1] = x % 60 /\ got[2] = (x \div 60) % 60 /\ got[3] = x \div Hour
             /\ get_time_seconds(got[1], got[2], got[3]) = x
  BY ReturnTens, ReturnClock, SecondsRead
<1> DEFINE t == After(B, k)
           y == After(t, 6 * Hour).sec
<1>3. B \in Moments /\ Elapsed \in Nat /\ Elapsed <= Day
  BY ReturnClock
<1>4. k \in Nat /\ k <= Day
  BY <1>2, <1>3, DayNat
<1>5. t \in Moments /\ t.sec = B.sec + k
  BY <1>2, <1>3, <1>4, AfterIs
<1>6. t \in During'
  <2>1. During' = {After(B, j) : j \in 0 .. Elapsed}
    BY ReturnClock DEF During, Elapsed
  <2> QED
    BY <1>2, <2>1
<1> HIDE DEF t
<1>7. PICK x \in Nat : /\ x = t.sec /\ got[1] = x % 60 /\ got[2] = (x \div 60) % 60
                       /\ got[3] = x \div Hour
  BY <1>2, <1>5
<1>8. /\ get_bdt_string(got[1], got[2], got[3]).sec = y % 60
      /\ get_bdt_string(got[1], got[2], got[3]).min = (y \div 60) % 60
      /\ get_bdt_string(got[1], got[2], got[3]).clock.hour % 12 = (y \div Hour) % 12
      /\ get_bdt_string(got[1], got[2], got[3]).clock.pm <=> y \div Hour >= 12
  BY <1>5, <1>7, TimeConverts
<1> QED
  BY <1>1, <1>6, <1>8

LEMMA ReturnDate ==
  ASSUME Inv, Return, op = "time"
  PROVE  DateIsOfDhaka'
<1> DEFINE B == began.now
<1>1. shown'.date = get_bdt_date(got[4], got[5], got[6], got[7])
  BY DEF Return
<1>2. B \in Moments /\ Elapsed \in Nat /\ Elapsed <= Day /\ now' = now /\ now \in Moments
      /\ now = After(B, Elapsed)
  BY ReturnClock
<1>3. B \in During'
  <2>1. During' = {After(B, j) : j \in 0 .. Elapsed}
    BY ReturnClock DEF During, Elapsed
  <2>2. After(B, 0) = B /\ 0 \in 0 .. Elapsed
    BY <1>2, AfterNone
  <2> QED
    BY <2>1, <2>2
<1>4. CASE B.date # now.date \/ B.sec \div Hour # now.sec \div Hour
  BY <1>2, <1>3, <1>4 DEF DateIsOfDhaka
<1>5. CASE B.date = now.date /\ B.sec \div Hour = now.sec \div Hour
  <2>1. HourOf(B.sec, Elapsed)
    BY <1>2, <1>5, SameHour
  <2>2. Len(got) = 7 /\ Registers[op] = <<0, 2, 4, 7, 8, 9, 4>>
    BY ReturnClock, RegistersAre
  <2>3. /\ 4 \in 1 .. Len(got) /\ 5 \in 1 .. Len(got) /\ 6 \in 1 .. Len(got) /\ 7 \in 1 .. Len(got)
        /\ Registers[op][4] = 7 /\ Registers[op][5] = 8 /\ Registers[op][6] = 9 /\ Registers[op][7] = 4
    BY <2>2
  <2>4. /\ Fits(B, Elapsed, 7, got[4]) /\ Fits(B, Elapsed, 8, got[5])
        /\ Fits(B, Elapsed, 9, got[6]) /\ Fits(B, Elapsed, 4, got[7])
    BY <2>3, ReturnClock DEF Inv, ReadOK
  <2>5. /\ got[4] = B.date.day /\ got[5] = B.date.month /\ got[6] = B.date.year
        /\ got[7] = B.sec \div Hour
    BY <2>1, <2>4 DEF Fits, Stable, Right, Field
  <2>6. /\ got[4] = now.date.day /\ got[5] = now.date.month /\ got[6] = now.date.year
        /\ got[7] = now.sec \div Hour
    BY <1>5, <2>5
  <2>7. shown'.date = InFull(After(now, 6 * Hour).date)
    BY <1>1, <1>2, <2>6, DateConverts
  <2> QED
    BY <1>2, <2>7 DEF DateIsOfDhaka
<1> QED
  BY <1>4, <1>5

LEMMA ReturnUptime ==
  ASSUME Inv, Return, op = "uptime"
  PROVE  UptimeForgetsDays' /\ UptimeIsNotNegative'
<1> DEFINE B == began.now
           seconds == get_time_seconds(got[1], got[2], got[3])
<1>1. /\ shown'.torn = Torn /\ shown'.diff = Wrap(seconds - boot_time)
      /\ shown'.days = Days(Wrap(seconds - boot_time))
  BY DEF Return
<1>2. UptimeIsNotNegative'
  <2>1. seconds \in Nat
    <3>1. got \in Seq(Nat) /\ 1 \in 1 .. Len(got) /\ 2 \in 1 .. Len(got) /\ 3 \in 1 .. Len(got)
      <4>1. Len(got) = 3 /\ got \in Seq(Nat)
        BY ReturnClock, RegistersAre DEF Inv, OpOK
      <4> QED
        BY <4>1
    <3>2. got[1] \in Nat /\ got[2] \in Nat /\ got[3] \in Nat
      BY <3>1
    <3> QED
      BY <3>2 DEF get_time_seconds, Hour
  <2>2. boot_time' = boot_time /\ boot_time \in Nat
    BY ReturnClock DEF Inv, OpOK
  <2> HIDE DEF seconds
  <2>3. boot_time < Day => Wrap(seconds - boot_time) >= 0
    BY <2>1, <2>2, DayNat DEF Wrap
  <2> QED
    BY <1>1, <2>2, <2>3 DEF UptimeIsNotNegative
<1>3. UptimeForgetsDays'
  <2> SUFFICES ASSUME ~ Torn, ~ bootTorn
               PROVE  /\ Days(Wrap(seconds - boot_time)) = 0
                      /\ \E t \in began.age .. age, b \in 0 .. bootAge :
                           Wrap(seconds - boot_time) = (t - b) % Day
    BY <1>1, ReturnClock DEF UptimeForgetsDays
  <2>1. PICK k \in 0 .. Elapsed : seconds = B.sec + k /\ B.sec + k < Day
    BY ReturnTens, ReturnClock, SecondsRead
  <2>2. PICK o \in Nat : o < Day /\ Origin(o)
    BY DEF Inv, OriginOK
  <2>3. bootTorn = FALSE
    BY DEF Inv, OpOK
  <2>4. PICK b \in 0 .. bootAge : boot_time = o + b /\ o + b < Day
    BY <2>2, <2>3 DEF Origin, BootRead
  <2>5. /\ B.sec = (o + began.age) % Day /\ began.age \in Nat /\ age \in Nat /\ b \in Nat
        /\ Elapsed \in Nat /\ k \in Nat
    BY <2>1, <2>2, <2>4, ReturnClock DEF Origin, Inv, OpOK
  <2>6. began.age + k \in began.age .. age
    <3>1. PICK a \in Nat : a = began.age
      BY <2>5
    <3>2. k <= age - a
      BY <2>1, <2>5, <3>1 DEF Elapsed
    <3>3. a + k \in a .. age
      BY <2>5, <3>2
    <3> QED
      BY <3>1, <3>3
  <2>7. Wrap((B.sec + k) - (o + b)) = ((began.age + k) - b) % Day
    <3>1. B.sec \in Nat
      BY ReturnClock, MomentIs
    <3>2. PICK a \in Nat, s \in Nat : a = began.age /\ s = B.sec /\ s = (o + a) % Day /\ s + k < Day
      BY <2>1, <2>5, <3>1
    <3>4. o \in Nat /\ k \in Nat /\ b \in Nat /\ o + b < Day
      BY <2>4, <2>5
    <3>3. UptimeIs(o, a, k, b, s)
      BY <2>5, <3>2, <3>4, UptimeConverts
    <3> QED
      BY <3>2, <3>3 DEF UptimeIs
  <2>8. Wrap(seconds - boot_time) = ((began.age + k) - b) % Day
    BY <2>1, <2>4, <2>7
  <2>9. Days(Wrap(seconds - boot_time)) = 0
    <3>1. PICK z \in Int : z = (began.age + k) - b
      BY <2>5
    <3>2. Days(z % Day) = 0
      BY DEF Day, Days
    <3> QED
      BY <2>8, <3>1, <3>2
  <2> QED
    BY <2>4, <2>6, <2>8, <2>9
<1> QED
  BY <1>2, <1>3
LEMMA ReturnPrinted ==
  ASSUME Inv, Return
  PROVE  Printed'
<1>1. CASE op = "boot"
  <2>1. shown = Nothing /\ shown' = shown
    BY <1>1, ReturnClock DEF Return, Inv, OpOK
  <2> QED
    BY <2>1, NothingPrinted
<1>2. CASE op = "time"
  <2>1. shown'.op = "time"
    BY <1>2 DEF Return
  <2>2. UptimeForgetsDays' /\ UptimeIsNotNegative'
    BY <2>1 DEF UptimeForgetsDays, UptimeIsNotNegative
  <2> QED
    BY <1>2, <2>2, ReturnTime, ReturnDate DEF Printed
<1>3. CASE op = "uptime"
  <2>1. shown'.op = "uptime"
    BY <1>3 DEF Return
  <2>2. TimeIsOfDhaka' /\ DateIsOfDhaka'
    BY <2>1 DEF TimeIsOfDhaka, DateIsOfDhaka
  <2> QED
    BY <1>3, <2>2, ReturnUptime DEF Printed
<1> QED
  BY <1>1, <1>2, <1>3, ReturnClock DEF Ops

\* The time read at boot is a second of the read, unless it is torn.
LEMMA ReturnBoot ==
  ASSUME Inv, Return, op = "boot", NEW o \in Nat, o < Day, Origin(o), ~ Torn
  PROVE  BootRead(o)'
<1>1. PICK k \in 0 .. Elapsed :
        LET x == began.now.sec + k IN
             /\ Tens(began.now.sec, k) /\ x \in Nat /\ x < Day
             /\ got[1] = x % 60 /\ got[2] = (x \div 60) % 60 /\ got[3] = x \div Hour
             /\ get_time_seconds(got[1], got[2], got[3]) = x
  BY ReturnTens, ReturnClock, SecondsRead
<1>2. began.age = 0 /\ began.now.sec = (o + 0) % Day
  BY DEF Origin
<1>3. began.now.sec = o
  <2>1. (o + 0) % Day = o
    BY DEF Day
  <2> QED
    BY <1>2, <2>1
<1>4. boot_time' = o + k /\ o + k < Day
  BY <1>1, <1>3 DEF Return
<1>5. k \in 0 .. bootAge'
  <2>1. Elapsed = age /\ bootAge' = age
    BY <1>2 DEF Return, Elapsed, Inv, OpOK
  <2> QED
    BY <2>1
<1> QED
  BY <1>4, <1>5 DEF BootRead

LEMMA ReturnInv ==
  ASSUME Inv, Return
  PROVE  Inv'
<1>1. /\ op \in Ops /\ op' = "idle" /\ op' \notin Ops /\ op' # "boot" /\ half' = "none" /\ got' = <<>>
      /\ UNCHANGED <<now, value, age, began>>
      /\ op # "boot" => UNCHANGED <<boot_time, bootAge, bootTorn>>
  BY ReturnClock DEF Return, Ops
<1>2. OpOK'
  <2>1. boot_time' \in Nat /\ bootTorn' \in BOOLEAN /\ bootAge' \in Nat
    <3>1. CASE op # "boot"
      BY <1>1, <3>1 DEF Inv, OpOK
    <3>2. CASE op = "boot"
      <4>1. boot_time' = get_time_seconds(got[1], got[2], got[3]) /\ bootAge' = age
        BY <3>2 DEF Return
      <4>2. bootTorn' = Torn
        BY <3>2 DEF Return
      <4>3. Len(got) = 3 /\ got \in Seq(Nat)
        BY <3>2, ReturnClock, RegistersAre DEF Inv, OpOK
      <4>4. got \in Seq(Nat) /\ 1 \in 1 .. Len(got) /\ 2 \in 1 .. Len(got) /\ 3 \in 1 .. Len(got)
        BY <4>3
      <4>5. got[1] \in Nat /\ got[2] \in Nat /\ got[3] \in Nat
        BY <4>4
      <4>6. get_time_seconds(got[1], got[2], got[3]) \in Nat
        BY <4>5 DEF get_time_seconds, Hour
      <4>7. bootTorn' \in BOOLEAN
        BY <4>2 DEF Torn
      <4> QED
        BY <4>1, <4>6, <4>7 DEF Inv, OpOK
    <3> QED
      BY <3>1, <3>2
  <2>2. ticks' \in Nat /\ ticks' <= MaxTicks
    <3>1. ticks' = IF op = "boot" THEN 0 ELSE ticks
      BY DEF Return
    <3>2. MaxTicks \in Nat
      BY ClockAssumption, DayNat
    <3> QED
      BY <3>1, <3>2 DEF Inv, OpOK
  <2>3. got' \in Seq(Nat)
    BY <1>1
  <2>4. now' \in Moments /\ began'.now \in Moments /\ age' \in Nat /\ began'.age \in Nat /\ value' \in Nat
    BY <1>1 DEF Inv, OpOK
  <2> QED
    BY <1>1, <2>1, <2>2, <2>3, <2>4 DEF OpOK
<1>3. ClockOK'
  <2>1. CASE op = "boot"
    <3>1. shown' = Nothing
      BY <1>1, <2>1 DEF Return, Inv, OpOK
    <3> QED
      BY <1>1, <3>1 DEF ClockOK
  <2>2. CASE op # "boot"
    <3>1. ticks' = ticks /\ Elapsed' = Elapsed
      BY <1>1, <2>2 DEF Return, Elapsed
    <3>2. Elapsed \in Nat /\ Elapsed <= ticks /\ now = After(began.now, Elapsed)
      BY <1>1 DEF Inv, ClockOK
    <3> QED
      BY <1>1, <3>1, <3>2 DEF ClockOK
  <2> QED
    BY <2>1, <2>2
<1>4. ReadOK'
  BY <1>1 DEF ReadOK
<1>5. OriginOK'
  <2>1. PICK o \in Nat : o < Day /\ Origin(o)
    BY DEF Inv, OriginOK
  <2>2. now'.sec = (o + age') % Day /\ began'.now.sec = (o + began'.age) % Day
    BY <1>1, <2>1 DEF Origin
  <2>3. bootTorn' = FALSE => BootRead(o)'
    <3>1. CASE op = "boot"
      <4>1. bootTorn' = Torn
        BY <3>1 DEF Return
      <4> QED
        BY <2>1, <3>1, <4>1, ReturnBoot
    <3>2. CASE op # "boot"
      BY <1>1, <2>1, <3>2 DEF Origin, BootRead
    <3> QED
      BY <3>1, <3>2
  <2>4. Origin(o)'
    BY <1>1, <2>2, <2>3 DEF Origin
  <2> QED
    BY <2>1, <2>4 DEF OriginOK
<1> QED
  BY <1>2, <1>3, <1>4, <1>5, ReturnPrinted DEF Inv

LEMMA StutterInv ==
  ASSUME Inv, UNCHANGED vars
  PROVE  Inv'
<1>1. UNCHANGED <<now, op, half, value, got, boot_time, shown, age, began, bootAge, bootTorn, ticks>>
  BY DEF vars
<1>2. OpOK' /\ ReadOK'
  BY <1>1 DEF Inv, OpOK, ReadOK, Reading, Elapsed, Left
<1>3. OriginOK' /\ ClockOK'
  BY <1>1, ReadKeeps DEF Inv
<1>4. Printed'
  BY <1>1 DEF Inv, Printed, TimeIsOfDhaka, DateIsOfDhaka, UptimeForgetsDays, UptimeIsNotNegative, During
<1> QED
  BY <1>2, <1>3, <1>4 DEF Inv

LEMMA NextInv == Inv /\ [Next]_vars => Inv'
<1> SUFFICES ASSUME Inv, [Next]_vars
             PROVE  Inv'
  OBVIOUS
<1>1. CASE Second
  BY <1>1, SecondInv
<1>2. ASSUME NEW k \in Sleeps, Sleep(k)
      PROVE  Inv'
  BY <1>2, SleepInv
<1>3. ASSUME NEW o \in {"time", "uptime"}, Call(o)
      PROVE  Inv'
  BY <1>3, CallInv
<1>4. ASSUME NEW h \in {"low", "high"}, ReadOnce(h)
      PROVE  Inv'
  BY <1>4, ReadOnceInv
<1>5. CASE ReadAgain
  BY <1>5, ReadAgainInv
<1>6. CASE Return
  BY <1>6, ReturnInv
<1>7. CASE UNCHANGED vars
  BY <1>7, StutterInv
<1> QED
  BY <1>1, <1>2, <1>3, <1>4, <1>5, <1>6, <1>7 DEF Next

LEMMA Invariance == Spec => []Inv
  BY InitInv, NextInv, PTL DEF Spec

-----------------------------------------------------------------------------
\* print_time prints the time of Dhaka at some moment of its fourteen reads,
\* whichever half of each register came from which of its two reads, unless the
\* tens of seconds change among them.
THEOREM TimeCorrect == Spec => []TimeIsOfDhaka
<1>1. Inv => TimeIsOfDhaka
  BY DEF Inv, Printed
<1> QED
  BY <1>1, Invariance, PTL

\* print_time prints the date of Dhaka, on every day of every year of the clock,
\* unless the hour changes while it reads.
THEOREM DateCorrect == Spec => []DateIsOfDhaka
<1>1. Inv => DateIsOfDhaka
  BY DEF Inv, Printed
<1> QED
  BY <1>1, Invariance, PTL

\* uptime prints the seconds since the boot modulo a day, and no days, however long
\* the kernel has run.
THEOREM UptimeCorrect == Spec => []UptimeForgetsDays
<1>1. Inv => UptimeForgetsDays
  BY DEF Inv, Printed
<1> QED
  BY <1>1, Invariance, PTL

\* uptime prints a negative number only if a time that does not exist was read
\* at boot.
THEOREM UptimeSign == Spec => []UptimeIsNotNegative
<1>1. Inv => UptimeIsNotNegative
  BY DEF Inv, Printed
<1> QED
  BY <1>1, Invariance, PTL
=============================================================================
