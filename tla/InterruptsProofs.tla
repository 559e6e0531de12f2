--------------------------- MODULE InterruptsProofs ---------------------------
(* The handlers against the main thread: no interrupt is met before the    *)
(* kernel is ready for it, and the display is fresh, for every period,     *)
(* width of the tick and number of interrupts in a pass of the loop.       *)
EXTENDS Interrupts, TLAPS

-----------------------------------------------------------------------------
(* The inductive invariant.                                                *)

\* Interrupts are enabled, and a handler runs, only when the kernel has booted;
\* after an exception none does.
BootOK ==
  /\ main = "boot" <=> booted < Len(BootOrder)
  /\ iflag \/ ~ Idle => booted = Len(BootOrder)
  /\ main = "exception" => ~ iflag
  /\ main \in {"boot", "exception", "hlt"} => Idle
  /\ Idle \/ (handler.irq \in IRQs /\ handler.next \in {"eoi", "call", "iret"})

\* The ticks that are on their way to tick++.
InFlight ==
  (IF Timer \in irr THEN 1 ELSE 0)
  + (IF handler.irq = Timer /\ handler.next \in {"eoi", "call"} THEN 1 ELSE 0)

\* What the comparison of two unsigned ticks measures: the age, as it is less
\* than TickMod.
Since(last, age) == age = tick - last \/ age = tick - last + TickMod

\* The thread has looked at the age in this pass and found it within the period,
\* or drawn: all ticks since then are in gap, but for one that was pending.
Looked(age, period) == age + InFlight <= period + 1 + gap

\* It has not looked in this pass: one more pass lies behind, at most, and a tick
\* that ended a hlt.
Unlooked(age, period) == age + InFlight <= period + 2 + gap

\* It has looked, found the age above the period, and not drawn yet.
Late(age, period) == age + InFlight <= period + 2 + MaxGap + gap

\* The tick that ends a hlt may be raised, uncounted.
Halted(age, period) == age <= period + 1 + gap

SpinOK ==
  /\ Since(last_spin_tick, spin_age)
  /\ main = "boot" => spin_age = 0 /\ gap = 0
  /\ main = "hlt" => Halted(spin_age, SpinPeriod)
  /\ main = "spin?" => Unlooked(spin_age, SpinPeriod)
  /\ main = "spin" => Late(spin_age, SpinPeriod)
  /\ main \in {"sec?", "sec", "keys", "off", "exception"} => Looked(spin_age, SpinPeriod)

SecOK ==
  /\ Since(last_sec_tick, sec_age)
  /\ main = "boot" => sec_age = 0 /\ gap = 0
  /\ main = "hlt" => Halted(sec_age, SecPeriod)
  /\ main = "spin?" => Unlooked(sec_age, SecPeriod)
  /\ main \in {"spin", "sec?", "sec"} => Late(sec_age, SecPeriod)
  /\ main \in {"keys", "off", "exception"} => Looked(sec_age, SecPeriod)

Inv == TypeOK /\ NoStrayInterrupt /\ BootOK /\ SpinOK /\ SecOK

-----------------------------------------------------------------------------
(* Lemmas.                                                                 *)

\* When the kernel has booted, every step that an interrupt relies on has run.
LEMMA BootSteps ==
  /\ Len(BootOrder) = 6
  /\ booted = 6 =>
       /\ {"pic_remap", "irq_install", "lidt"} \subseteq {BootOrder[k] : k \in 1 .. booted}
       /\ Done("register")
  /\ \A k \in 1 .. 6 : BootOrder[k] = "sti" <=> k = 6
<1>1. Len(BootOrder) = 6
  BY DEF BootOrder
<1>2. /\ BootOrder[1] = "pic_remap" /\ BootOrder[2] = "isr_install"
      /\ BootOrder[3] = "irq_install" /\ BootOrder[4] = "lidt"
      /\ BootOrder[5] = "register" /\ BootOrder[6] = "sti"
  BY DEF BootOrder
<1>3. \A k \in 1 .. 6 : k = 1 \/ k = 2 \/ k = 3 \/ k = 4 \/ k = 5 \/ k = 6
  OBVIOUS
<1>4. 1 \in 1 .. 6 /\ 3 \in 1 .. 6 /\ 4 \in 1 .. 6 /\ 5 \in 1 .. 6
  OBVIOUS
<1>5. ASSUME booted = 6
      PROVE  /\ {"pic_remap", "irq_install", "lidt"} \subseteq {BootOrder[k] : k \in 1 .. booted}
             /\ Done("register")
  <2>1. \A x \in {"pic_remap", "irq_install", "lidt"} : \E k \in 1 .. booted : x = BootOrder[k]
    BY <1>2, <1>4, <1>5
  <2> QED
    BY <1>2, <1>4, <1>5, <2>1 DEF Done
<1>6. \A k \in 1 .. 6 : BootOrder[k] = "sti" <=> k = 6
  BY <1>2, <1>3
<1> QED
  BY <1>1, <1>5, <1>6

\* x % m for the values of x that one wrap-around can produce.
LEMMA Remainder ==
  ASSUME NEW m \in Nat \ {0}, NEW x \in 0 - m .. 2 * m - 1
  PROVE  x % m = IF x < 0 THEN x + m ELSE IF x < m THEN x ELSE x - m
<1> DEFINE q == x \div m
           r == x % m
<1>1. q \in Int /\ r \in 0 .. m - 1 /\ x = m * q + r
  OBVIOUS
<1> HIDE DEF q, r
<1>2. q = -1 \/ q = 0 \/ q = 1
  <2>1. CASE q < -1
    <3>1. m * q <= 0 - 2 * m
      BY <1>1, <2>1
    <3> QED
      BY <3>1, <1>1
  <2>2. CASE q > 1
    <3>1. m * q >= 2 * m
      BY <1>1, <2>2
    <3> QED
      BY <3>1, <1>1
  <2> QED
    BY <2>1, <2>2, <1>1
<1>3. r = IF x < 0 THEN x + m ELSE IF x < m THEN x ELSE x - m
  BY <1>1, <1>2
<1> QED
  BY <1>3 DEF r

\* tick - last_tick in unsigned arithmetic is the age, also when tick has wrapped
\* since.
LEMMA ElapsedIsAge ==
  ASSUME NEW last \in 0 .. TickMod - 1, NEW age \in Nat, age < TickMod,
         tick \in 0 .. TickMod - 1, Since(last, age)
  PROVE  Elapsed(last) = age
<1>1. TickMod \in Nat \ {0}
  BY PeriodAssumption
<1> DEFINE d == tick - last
<1>2. d \in 0 - TickMod .. 2 * TickMod - 1 /\ d < TickMod
  BY <1>1
<1>3. d % TickMod = IF d < 0 THEN d + TickMod ELSE d
  <2> HIDE DEF d
  <2> QED
    BY <1>1, <1>2, Remainder
<1>4. age = IF d < 0 THEN d + TickMod ELSE d
  BY <1>1 DEF Since
<1> QED
  BY <1>3, <1>4 DEF Elapsed

\* tick++, which may wrap, adds one to the age.
LEMMA TickAfterIs ==
  ASSUME tick \in 0 .. TickMod - 1
  PROVE  /\ TickAfter \in 0 .. TickMod - 1
         /\ TickAfter = IF tick + 1 = TickMod THEN 0 ELSE tick + 1
<1>1. TickMod \in Nat \ {0}
  BY PeriodAssumption
<1> DEFINE t == tick + 1
<1>2. t \in 0 - TickMod .. 2 * TickMod - 1 /\ t <= TickMod /\ t >= 0
  BY <1>1
<1>3. t % TickMod = IF t = TickMod THEN 0 ELSE t
  <2> HIDE DEF t
  <2>1. t % TickMod = IF t < 0 THEN t + TickMod ELSE IF t < TickMod THEN t ELSE t - TickMod
    BY <1>1, <1>2, Remainder
  <2> DEFINE r == t % TickMod
  <2> HIDE DEF r
  <2>2. r = IF t = TickMod THEN 0 ELSE t
    BY <1>1, <1>2, <2>1 DEF r
  <2> QED
    BY <2>2 DEF r
<1> QED
  BY <1>1, <1>3 DEF TickAfter

LEMMA InFlightType ==
  /\ InFlight \in 0 .. 2
  /\ Idle => InFlight \in 0 .. 1
  BY DEF InFlight, Idle, NoHandler, Timer

LEMMA InvIsFresh == Inv => DisplayIsFresh
<1> SUFFICES ASSUME Inv PROVE DisplayIsFresh
  OBVIOUS
<1>1. /\ spin_age \in Nat /\ sec_age \in Nat /\ gap \in 0 .. MaxGap /\ MaxGap \in Nat \ {0}
      /\ SpinPeriod \in Nat /\ SecPeriod \in Nat /\ InFlight \in 0 .. 2
  BY PeriodAssumption, InFlightType DEF Inv, TypeOK
<1>2. main \in Threads
  BY DEF Inv, TypeOK
<1>3. spin_age <= SpinPeriod + 2 * MaxGap + 2
  BY <1>1, <1>2 DEF Threads, Inv, SpinOK, Halted, Unlooked, Late, Looked
<1>4. sec_age <= SecPeriod + 2 * MaxGap + 2
  BY <1>1, <1>2 DEF Threads, Inv, SecOK, Halted, Unlooked, Late, Looked
<1> QED
  BY <1>3, <1>4 DEF DisplayIsFresh

\* The ages stay below TickMod, so that the comparisons measure them.
LEMMA Measured ==
  ASSUME Inv
  PROVE  Elapsed(last_spin_tick) = spin_age /\ Elapsed(last_sec_tick) = sec_age
<1>1. /\ spin_age \in Nat /\ sec_age \in Nat /\ tick \in 0 .. TickMod - 1
      /\ last_spin_tick \in 0 .. TickMod - 1 /\ last_sec_tick \in 0 .. TickMod - 1
  BY DEF Inv, TypeOK
<1>2. spin_age < TickMod /\ sec_age < TickMod
  BY <1>1, InvIsFresh, PeriodAssumption DEF DisplayIsFresh
<1>3. Since(last_spin_tick, spin_age) /\ Since(last_sec_tick, sec_age)
  BY DEF Inv, SpinOK, SecOK
<1> QED
  BY <1>1, <1>2, <1>3, ElapsedIsAge

\* One more in flight, one more in the gap.
LEMMA OneMore ==
  ASSUME NEW a \in Nat, NEW n \in Nat, NEW m \in Nat, NEW b \in Nat, NEW g \in Nat,
         m <= n + 1, a + n <= b + g
  PROVE  a + m <= b + (g + 1)
  OBVIOUS

LEMMA InitInv == Init => Inv
<1> SUFFICES ASSUME Init PROVE Inv
  OBVIOUS
<1>1. TypeOK
  <2>1. 0 \in 0 .. TickMod - 1 /\ 0 \in 0 .. MaxGap /\ 0 \in 0 .. Len(BootOrder)
    BY PeriodAssumption, BootSteps
  <2>2. NoHandler \in [irq : IRQs \cup {-1}, next : {"none", "eoi", "call", "iret"}]
    BY DEF NoHandler
  <2> QED
    BY <2>1, <2>2 DEF Init, TypeOK, Threads
<1>2. NoStrayInterrupt /\ BootOK
  BY BootSteps DEF Init, NoStrayInterrupt, BootOK, Idle, NoHandler
<1>3. SpinOK /\ SecOK
  BY PeriodAssumption DEF Init, SpinOK, SecOK, Since
<1> QED
  BY <1>1, <1>2, <1>3 DEF Inv

-----------------------------------------------------------------------------
(* Devices and handlers keep the invariant.                                *)

LEMMA RaiseInv ==
  ASSUME Inv, NEW j \in IRQs, Raise(j)
  PROVE  Inv'
<1>1. /\ main # "off" /\ j \notin irr /\ irr' = irr \cup {j}
      /\ gap' = (IF main \notin {"boot", "hlt"} THEN gap + 1 ELSE gap) /\ gap' <= MaxGap
      /\ UNCHANGED <<booted, iflag, isr, handler, main, tick, clock, stray>>
  BY DEF Raise
<1>2. TypeOK'
  BY <1>1, PeriodAssumption DEF Inv, TypeOK, clock
<1>3. NoStrayInterrupt' /\ BootOK'
  BY <1>1 DEF Inv, NoStrayInterrupt, BootOK, Idle
<1>4. PICK n \in 0 .. 2, m \in 0 .. 3 : n = InFlight /\ m = InFlight' /\ m <= n + 1
  <2>1. InFlight \in 0 .. 2
    BY InFlightType
  <2>2. InFlight' = InFlight \/ InFlight' = InFlight + 1
    BY <1>1 DEF InFlight, IRQs
  <2> QED
    BY <2>1, <2>2
<1>5. n \in Nat /\ m \in Nat /\ m <= n + 1
  BY <1>4
<1>6. /\ gap \in Nat /\ gap' \in Nat /\ MaxGap \in Nat /\ SpinPeriod \in Nat /\ SecPeriod \in Nat
      /\ spin_age \in Nat /\ sec_age \in Nat
  BY <1>1, PeriodAssumption DEF Inv, TypeOK
<1>7. SpinOK'
  <2>1. CASE main \in {"boot", "hlt"}
    BY <1>1, <1>6, <2>1 DEF Inv, SpinOK, Since, Halted, clock
  <2>2. CASE main \notin {"boot", "hlt"}
    <3>1. gap' = gap + 1
      BY <1>1, <2>2
    <3>2. Since(last_spin_tick, spin_age)'
      BY <1>1 DEF Inv, SpinOK, Since, clock
    <3>3. spin_age' = spin_age
      BY <1>1 DEF clock
    <3>4. ASSUME NEW b \in Nat, spin_age + n <= b + gap
          PROVE  spin_age + m <= b + (gap + 1)
      BY <1>6, <1>5, <3>4, OneMore
    <3>5. /\ Looked(spin_age, SpinPeriod) <=> spin_age + n <= (SpinPeriod + 1) + gap
          /\ Unlooked(spin_age, SpinPeriod) <=> spin_age + n <= (SpinPeriod + 2) + gap
          /\ Late(spin_age, SpinPeriod) <=> spin_age + n <= (SpinPeriod + 2 + MaxGap) + gap
      BY <1>4 DEF Looked, Unlooked, Late
    <3>6. /\ Looked(spin_age, SpinPeriod)' <=> spin_age + m <= (SpinPeriod + 1) + (gap + 1)
          /\ Unlooked(spin_age, SpinPeriod)' <=> spin_age + m <= (SpinPeriod + 2) + (gap + 1)
          /\ Late(spin_age, SpinPeriod)' <=> spin_age + m <= (SpinPeriod + 2 + MaxGap) + (gap + 1)
      BY <1>4, <3>1, <3>3 DEF Looked, Unlooked, Late
    <3>7. /\ Looked(spin_age, SpinPeriod) => Looked(spin_age, SpinPeriod)'
          /\ Unlooked(spin_age, SpinPeriod) => Unlooked(spin_age, SpinPeriod)'
          /\ Late(spin_age, SpinPeriod) => Late(spin_age, SpinPeriod)'
      BY <1>6, <3>4, <3>5, <3>6
    <3> QED
      BY <1>1, <2>2, <3>2, <3>7 DEF Inv, SpinOK
  <2> QED
    BY <2>1, <2>2
<1>8. SecOK'
  <2>1. CASE main \in {"boot", "hlt"}
    BY <1>1, <1>6, <2>1 DEF Inv, SecOK, Since, Halted, clock
  <2>2. CASE main \notin {"boot", "hlt"}
    <3>1. gap' = gap + 1
      BY <1>1, <2>2
    <3>2. Since(last_sec_tick, sec_age)'
      BY <1>1 DEF Inv, SecOK, Since, clock
    <3>3. sec_age' = sec_age
      BY <1>1 DEF clock
    <3>4. ASSUME NEW b \in Nat, sec_age + n <= b + gap
          PROVE  sec_age + m <= b + (gap + 1)
      BY <1>6, <1>5, <3>4, OneMore
    <3>5. /\ Looked(sec_age, SecPeriod) <=> sec_age + n <= (SecPeriod + 1) + gap
          /\ Unlooked(sec_age, SecPeriod) <=> sec_age + n <= (SecPeriod + 2) + gap
          /\ Late(sec_age, SecPeriod) <=> sec_age + n <= (SecPeriod + 2 + MaxGap) + gap
      BY <1>4 DEF Looked, Unlooked, Late
    <3>6. /\ Looked(sec_age, SecPeriod)' <=> sec_age + m <= (SecPeriod + 1) + (gap + 1)
          /\ Unlooked(sec_age, SecPeriod)' <=> sec_age + m <= (SecPeriod + 2) + (gap + 1)
          /\ Late(sec_age, SecPeriod)' <=> sec_age + m <= (SecPeriod + 2 + MaxGap) + (gap + 1)
      BY <1>4, <3>1, <3>3 DEF Looked, Unlooked, Late
    <3>7. /\ Looked(sec_age, SecPeriod) => Looked(sec_age, SecPeriod)'
          /\ Unlooked(sec_age, SecPeriod) => Unlooked(sec_age, SecPeriod)'
          /\ Late(sec_age, SecPeriod) => Late(sec_age, SecPeriod)'
      BY <1>6, <3>4, <3>5, <3>6
    <3> QED
      BY <1>1, <2>2, <3>2, <3>7 DEF Inv, SecOK
  <2> QED
    BY <2>1, <2>2
<1> QED
  BY <1>2, <1>3, <1>7, <1>8 DEF Inv

LEMMA DeliverInv ==
  ASSUME Inv, NEW j \in IRQs, Deliver(j)
  PROVE  Inv'
<1>1. /\ iflag /\ Idle /\ j \in irr /\ irr' = irr \ {j} /\ isr' = isr \cup {j}
      /\ iflag' = FALSE /\ handler' = [irq |-> j, next |-> "eoi"]
      /\ main' = IF main = "hlt" THEN "spin?" ELSE main
      /\ UNCHANGED <<booted, tick, clock, gap>>
  BY DEF Deliver
<1>2. booted = 6 /\ stray = {}
  BY <1>1, BootSteps DEF Inv, BootOK, NoStrayInterrupt
<1>3. stray' = {}
  BY <1>2, BootSteps DEF Deliver
<1>4. TypeOK'
  <2>1. handler' \in [irq : IRQs \cup {-1}, next : {"none", "eoi", "call", "iret"}]
    BY <1>1
  <2>2. main' \in Threads /\ isr' \subseteq IRQs /\ irr' \subseteq IRQs
    BY <1>1 DEF Inv, TypeOK, Threads
  <2> QED
    BY <1>1, <1>3, <2>1, <2>2 DEF Inv, TypeOK, clock
<1>5. main \notin {"boot", "exception"}
  BY <1>1, <1>2, BootSteps DEF Inv, BootOK
<1>6. NoStrayInterrupt' /\ BootOK'
  <2>1. ~ Idle' /\ handler'.irq \in IRQs /\ handler'.next = "eoi"
    BY <1>1 DEF Idle, NoHandler
  <2> QED
    BY <1>1, <1>2, <1>3, <1>5, <2>1, BootSteps DEF Inv, NoStrayInterrupt, BootOK
<1>7. InFlight \in 0 .. 1 /\ InFlight' \in 0 .. 2 /\ InFlight' = InFlight
  BY <1>1, InFlightType DEF InFlight, Idle, NoHandler, Timer
<1>8. /\ gap \in Nat /\ MaxGap \in Nat /\ SpinPeriod \in Nat /\ SecPeriod \in Nat
      /\ spin_age \in Nat /\ sec_age \in Nat
  BY PeriodAssumption DEF Inv, TypeOK
<1>9. SpinOK'
  BY <1>1, <1>5, <1>7, <1>8 DEF Inv, SpinOK, Since, Looked, Unlooked, Late, Halted, clock
<1>10. SecOK'
  BY <1>1, <1>5, <1>7, <1>8 DEF Inv, SecOK, Since, Looked, Unlooked, Late, Halted, clock
<1> QED
  BY <1>4, <1>6, <1>9, <1>10 DEF Inv

\* eoi and iret: nothing is counted.
LEMMA EoiIretInv ==
  ASSUME Inv, Eoi \/ Iret
  PROVE  Inv'
<1>1. /\ UNCHANGED <<booted, irr, main, tick, clock, gap, stray>>
      /\ handler.next \in {"eoi", "iret"}
  BY DEF Eoi, Iret
<1>2. booted = 6 /\ main \notin {"boot", "exception", "hlt"} /\ handler.irq \in IRQs
  BY <1>1, BootSteps DEF Inv, BootOK, Idle, NoHandler
<1>3. TypeOK' /\ NoStrayInterrupt' /\ BootOK'
  <2>1. CASE Eoi
    <3>1. /\ handler' = [handler EXCEPT !.next = "call"] /\ isr' \subseteq isr /\ iflag' = iflag
          /\ handler'.irq = handler.irq /\ handler'.next = "call"
      BY <2>1 DEF Eoi, Inv, TypeOK
    <3>2. handler' \in [irq : IRQs \cup {-1}, next : {"none", "eoi", "call", "iret"}]
      BY <1>2, <3>1 DEF Inv, TypeOK
    <3>3. TypeOK'
      BY <1>1, <3>1, <3>2 DEF Inv, TypeOK, clock
    <3> QED
      BY <1>1, <1>2, <3>1, <3>3, BootSteps DEF Inv, NoStrayInterrupt, BootOK
  <2>2. CASE Iret
    <3>1. handler' = NoHandler /\ iflag' = TRUE /\ isr' = isr
      BY <2>2 DEF Iret
    <3>2. TypeOK'
      BY <1>1, <3>1 DEF Inv, TypeOK, clock, NoHandler
    <3> QED
      BY <1>1, <1>2, <3>1, <3>2, BootSteps DEF Inv, NoStrayInterrupt, BootOK, Idle
  <2> QED
    BY <2>1, <2>2
<1>4. InFlight \in 0 .. 2 /\ InFlight' = InFlight
  BY <1>1, <1>2, InFlightType
  DEF InFlight, Eoi, Iret, NoHandler, Timer, IRQs, Inv, TypeOK
<1>5. /\ gap \in Nat /\ MaxGap \in Nat /\ SpinPeriod \in Nat /\ SecPeriod \in Nat
      /\ spin_age \in Nat /\ sec_age \in Nat
  BY PeriodAssumption DEF Inv, TypeOK
<1>6. SpinOK'
  BY <1>1, <1>4, <1>5 DEF Inv, SpinOK, Since, Looked, Unlooked, Late, Halted, clock
<1>7. SecOK'
  BY <1>1, <1>4, <1>5 DEF Inv, SecOK, Since, Looked, Unlooked, Late, Halted, clock
<1> QED
  BY <1>3, <1>6, <1>7 DEF Inv

\* timer_callback: a tick that was in flight becomes one of the age.
LEMMA CallInv ==
  ASSUME Inv, Call
  PROVE  Inv'
<1>1. /\ handler.next = "call" /\ handler' = [handler EXCEPT !.next = "iret"]
      /\ UNCHANGED <<booted, iflag, irr, isr, main, last_spin_tick, last_sec_tick, gap>>
      /\ TypeOK
  BY DEF Call, Inv
<1>2. booted = 6 /\ main \notin {"boot", "exception", "hlt"} /\ handler.irq \in IRQs
  BY <1>1, BootSteps DEF Inv, BootOK, Idle, NoHandler
<1>3. Done("register") /\ stray = {}
  BY <1>2, BootSteps DEF Inv, NoStrayInterrupt
<1>4. /\ stray' = {}
      /\ IF handler.irq = Timer
         THEN tick' = TickAfter /\ spin_age' = spin_age + 1 /\ sec_age' = sec_age + 1
         ELSE UNCHANGED <<tick, spin_age, sec_age>>
  BY <1>3 DEF Call
<1>5. handler'.irq = handler.irq /\ handler'.next = "iret"
  BY <1>1 DEF TypeOK
<1>6. TypeOK'
  <2>1. handler' \in [irq : IRQs \cup {-1}, next : {"none", "eoi", "call", "iret"}]
    BY <1>1, <1>2 DEF TypeOK
  <2>2. tick' \in 0 .. TickMod - 1 /\ spin_age' \in Nat /\ sec_age' \in Nat
    BY <1>1, <1>4, TickAfterIs DEF TypeOK
  <2> QED
    BY <1>1, <1>4, <2>1, <2>2 DEF TypeOK
<1>7. NoStrayInterrupt' /\ BootOK'
  <2>1. ~ Idle
    BY <1>1 DEF Idle, NoHandler
  <2> QED
    BY <1>1, <1>2, <1>4, <1>5, <2>1, BootSteps DEF Inv, NoStrayInterrupt, BootOK
<1>8. /\ InFlight \in 0 .. 2
      /\ InFlight' = IF handler.irq = Timer THEN InFlight - 1 ELSE InFlight
  BY <1>1, <1>5, InFlightType DEF InFlight
<1>9. /\ gap \in Nat /\ MaxGap \in Nat /\ SpinPeriod \in Nat /\ SecPeriod \in Nat
      /\ spin_age \in Nat /\ sec_age \in Nat /\ TickMod \in Nat
      /\ tick \in 0 .. TickMod - 1
      /\ last_spin_tick \in 0 .. TickMod - 1 /\ last_sec_tick \in 0 .. TickMod - 1
  BY <1>1, PeriodAssumption DEF TypeOK
<1>10. spin_age < TickMod /\ sec_age < TickMod
  BY <1>9, InvIsFresh, PeriodAssumption DEF DisplayIsFresh
<1>11. Since(last_spin_tick, spin_age)' /\ Since(last_sec_tick, sec_age)'
  <2>1. Since(last_spin_tick, spin_age) /\ Since(last_sec_tick, sec_age)
    BY DEF Inv, SpinOK, SecOK
  <2>2. CASE handler.irq = Timer
    BY <1>1, <1>4, <1>9, <1>10, <2>1, <2>2, TickAfterIs DEF Since
  <2>3. CASE handler.irq # Timer
    BY <1>1, <1>4, <2>1, <2>3 DEF Since
  <2> QED
    BY <2>2, <2>3
<1>12. /\ spin_age' + InFlight' = spin_age + InFlight
       /\ sec_age' + InFlight' = sec_age + InFlight
  BY <1>4, <1>8, <1>9
<1>13. SpinOK' /\ SecOK'
  BY <1>1, <1>2, <1>11, <1>12 DEF Inv, SpinOK, SecOK, Looked, Unlooked, Late
<1> QED
  BY <1>6, <1>7, <1>13 DEF Inv

-----------------------------------------------------------------------------
(* The main thread keeps it.                                               *)

LEMMA BootStepInv ==
  ASSUME Inv, BootStep
  PROVE  Inv'
<1>1. /\ Idle /\ main = "boot" /\ booted' = booted + 1
      /\ iflag' = (iflag \/ BootOrder[booted + 1] = "sti")
      /\ main' = (IF booted + 1 = Len(BootOrder) THEN "spin?" ELSE "boot")
      /\ UNCHANGED <<irr, isr, handler, tick, clock, gap, stray>>
  BY DEF BootStep
<1>2. booted \in 0 .. 5 /\ booted + 1 \in 1 .. 6
  BY <1>1, BootSteps DEF Inv, TypeOK, BootOK
<1>3. ~ iflag
  BY <1>2, BootSteps DEF Inv, BootOK
<1>4. iflag' \in BOOLEAN /\ (iflag' <=> booted + 1 = 6)
  BY <1>1, <1>2, <1>3, BootSteps
<1>5. TypeOK'
  BY <1>1, <1>2, <1>4, BootSteps DEF Inv, TypeOK, Threads, clock
<1>6. NoStrayInterrupt' /\ BootOK'
  <2>1. Idle' /\ main' \in {"spin?", "boot"}
    BY <1>1 DEF Idle
  <2> QED
    BY <1>1, <1>2, <1>4, <2>1, BootSteps DEF Inv, NoStrayInterrupt, BootOK
<1>7. /\ spin_age' = 0 /\ sec_age' = 0 /\ gap' = 0
      /\ Since(last_spin_tick, spin_age)' /\ Since(last_sec_tick, sec_age)'
  BY <1>1 DEF Inv, SpinOK, SecOK, Since, clock
<1>8. Unlooked(spin_age, SpinPeriod)' /\ Unlooked(sec_age, SecPeriod)'
  <2>1. InFlight' = InFlight
    BY <1>1 DEF InFlight
  <2>2. PICK n \in 0 .. 2 : n = InFlight
    BY InFlightType
  <2>3. 0 + n <= SpinPeriod + 2 + 0 /\ 0 + n <= SecPeriod + 2 + 0
    BY PeriodAssumption
  <2> QED
    BY <1>7, <2>1, <2>2, <2>3 DEF Unlooked
<1> QED
  BY <1>1, <1>5, <1>6, <1>7, <1>8 DEF Inv, SpinOK, SecOK

\* What the other steps of the thread have in common: they run while no handler
\* does, after the boot, and leave tick and the devices alone.
Runs ==
  /\ Idle /\ main \notin {"boot", "hlt", "off", "exception"}
  /\ UNCHANGED <<booted, irr, isr, handler, tick, stray>>
  /\ main' \in Threads \ {"boot"}
  /\ iflag' = IF main' = "exception" THEN FALSE ELSE iflag

LEMMA RunsInv ==
  ASSUME Inv, Runs
  PROVE  /\ NoStrayInterrupt' /\ BootOK'
         /\ InFlight' = InFlight
         /\ InFlight \in 0 .. 1
<1>1. Idle' /\ iflag \in BOOLEAN
  BY DEF Runs, Idle, Inv, TypeOK
<1>2. NoStrayInterrupt' /\ BootOK'
  BY <1>1 DEF Inv, NoStrayInterrupt, BootOK, Runs
<1> QED
  BY <1>2, InFlightType DEF Runs, InFlight

LEMMA LookInv ==
  ASSUME Inv, LookAtSpinner \/ LookAtClock
  PROVE  Inv'
<1>1. Runs /\ UNCHANGED clock
  BY DEF LookAtSpinner, LookAtClock, Runs, Threads, hardware
<1>2. NoStrayInterrupt' /\ BootOK' /\ InFlight' = InFlight
  BY <1>1, RunsInv
<1>3. PICK n \in 0 .. 1 : n = InFlight
  BY <1>1, RunsInv
<1>4. /\ gap \in 0 .. MaxGap /\ MaxGap \in Nat /\ SpinPeriod \in Nat /\ SecPeriod \in Nat
      /\ spin_age \in Nat /\ sec_age \in Nat
  BY PeriodAssumption DEF Inv, TypeOK
<1>5. TypeOK'
  <2>1. gap' \in 0 .. MaxGap
    BY <1>4 DEF LookAtSpinner, LookAtClock
  <2>2. iflag' \in BOOLEAN /\ main' \in Threads
    BY <1>1 DEF Inv, TypeOK, Runs
  <2> QED
    BY <1>1, <2>1, <2>2 DEF Inv, TypeOK, Runs, clock
<1>6. Since(last_spin_tick, spin_age)' /\ Since(last_sec_tick, sec_age)'
  BY <1>1 DEF Inv, SpinOK, SecOK, Since, Runs, clock
<1>7. CASE LookAtSpinner
  <2>1. /\ main = "spin?" /\ gap' = 0 /\ UNCHANGED <<spin_age, sec_age>>
        /\ main' = IF spin_age > SpinPeriod THEN "spin" ELSE "sec?"
    BY <1>1, <1>7, Measured DEF LookAtSpinner, clock
  <2>2. spin_age + n <= SpinPeriod + 2 + gap /\ sec_age + n <= SecPeriod + 2 + gap
    BY <1>3, <2>1 DEF Inv, SpinOK, SecOK, Unlooked
  <2>3. /\ spin_age + n <= SpinPeriod + 2 + MaxGap + 0
        /\ sec_age + n <= SecPeriod + 2 + MaxGap + 0
        /\ spin_age <= SpinPeriod => spin_age + n <= SpinPeriod + 1 + 0
    BY <1>4, <2>2
  <2>4. Late(spin_age, SpinPeriod)' /\ Late(sec_age, SecPeriod)'
    BY <1>2, <1>3, <2>1, <2>3 DEF Late
  <2>5. spin_age <= SpinPeriod => Looked(spin_age, SpinPeriod)'
    BY <1>2, <1>3, <2>1, <2>3 DEF Looked
  <2> QED
    BY <1>2, <1>4, <1>5, <1>6, <2>1, <2>4, <2>5 DEF Inv, SpinOK, SecOK
<1>8. CASE LookAtClock
  <2>1. /\ main = "sec?" /\ gap' = gap /\ UNCHANGED <<spin_age, sec_age>>
        /\ main' = IF sec_age > SecPeriod THEN "sec" ELSE "keys"
    BY <1>1, <1>8, Measured DEF LookAtClock, clock
  <2>2. sec_age <= SecPeriod => sec_age + n <= SecPeriod + 1 + gap
    BY <1>4
  <2>3. Looked(spin_age, SpinPeriod)' /\ Late(sec_age, SecPeriod)'
    BY <1>2, <2>1 DEF Inv, SpinOK, SecOK, Looked, Late
  <2>4. sec_age <= SecPeriod => Looked(sec_age, SecPeriod)'
    BY <1>2, <1>3, <2>1, <2>2 DEF Looked
  <2> QED
    BY <1>2, <1>4, <1>5, <1>6, <2>1, <2>3, <2>4 DEF Inv, SpinOK, SecOK
<1> QED
  BY <1>7, <1>8

LEMMA DrawInv ==
  ASSUME Inv, SetSpinTick \/ DrawClock
  PROVE  Inv'
<1>1. Runs /\ gap' = gap
  BY DEF SetSpinTick, DrawClock, Runs, Threads, hardware
<1>2. NoStrayInterrupt' /\ BootOK' /\ InFlight' = InFlight
  BY <1>1, RunsInv
<1>3. PICK n \in 0 .. 1 : n = InFlight
  BY <1>1, RunsInv
<1>4. /\ gap \in Nat /\ MaxGap \in Nat /\ SpinPeriod \in Nat /\ SecPeriod \in Nat
      /\ tick \in 0 .. TickMod - 1
  BY PeriodAssumption DEF Inv, TypeOK
<1>5. iflag' \in BOOLEAN /\ main' \in Threads
  BY <1>1 DEF Inv, TypeOK, Runs
<1>6. /\ 0 + n <= SpinPeriod + 1 + gap
      /\ 0 + n <= SecPeriod + 1 + gap
      /\ tick - tick = 0
  BY <1>4
<1>7. CASE SetSpinTick
  <2>1. /\ main = "spin" /\ main' = "sec?" /\ last_spin_tick' = tick /\ spin_age' = 0
        /\ UNCHANGED <<tick, last_sec_tick, sec_age>>
    BY <1>7 DEF SetSpinTick
  <2>2. TypeOK'
    BY <1>1, <1>5, <2>1 DEF Inv, TypeOK, Runs
  <2>3. Since(last_spin_tick, spin_age)' /\ Since(last_sec_tick, sec_age)'
    BY <1>6, <2>1 DEF Inv, SecOK, Since
  <2>4. Looked(spin_age, SpinPeriod)'
    BY <1>1, <1>2, <1>3, <1>6, <2>1 DEF Looked
  <2>5. Late(sec_age, SecPeriod)'
    BY <1>1, <1>2, <2>1 DEF Inv, SecOK, Late
  <2> QED
    BY <1>2, <2>1, <2>2, <2>3, <2>4, <2>5 DEF Inv, SpinOK, SecOK
<1>8. CASE DrawClock
  <2>1. /\ main = "sec" /\ main' = "keys" /\ last_sec_tick' = tick /\ sec_age' = 0
        /\ UNCHANGED <<tick, last_spin_tick, spin_age>>
    BY <1>8 DEF DrawClock
  <2>2. TypeOK'
    BY <1>1, <1>5, <2>1 DEF Inv, TypeOK, Runs
  <2>3. Since(last_spin_tick, spin_age)' /\ Since(last_sec_tick, sec_age)'
    BY <1>6, <2>1 DEF Inv, SpinOK, Since
  <2>4. Looked(spin_age, SpinPeriod)'
    BY <1>1, <1>2, <2>1 DEF Inv, SpinOK, Looked
  <2>5. Looked(sec_age, SecPeriod)'
    BY <1>1, <1>2, <1>3, <1>6, <2>1 DEF Looked
  <2> QED
    BY <1>2, <2>1, <2>2, <2>3, <2>4, <2>5 DEF Inv, SpinOK, SecOK
<1> QED
  BY <1>7, <1>8

\* The end of a pass: the next one, the end of the machine, or the hlt that is
\* left with the next tick.
LEMMA PassEndInv ==
  ASSUME Inv, PollKeyboard \/ PowerCommand \/ Exception
  PROVE  Inv'
<1>1. /\ Runs /\ UNCHANGED <<clock, gap>> /\ main = "keys"
      /\ main' \in {"spin?", "off", "hlt", "exception"}
  BY DEF PollKeyboard, PowerCommand, Exception, Runs, Threads, hardware, Inv, TypeOK
<1>2. NoStrayInterrupt' /\ BootOK' /\ InFlight' = InFlight
  BY <1>1, RunsInv
<1>3. PICK n \in 0 .. 1 : n = InFlight
  BY <1>1, RunsInv
<1>4. /\ gap \in Nat /\ SpinPeriod \in Nat /\ SecPeriod \in Nat
      /\ spin_age \in Nat /\ sec_age \in Nat
  BY PeriodAssumption DEF Inv, TypeOK
<1>5. TypeOK'
  <2>1. iflag' \in BOOLEAN /\ main' \in Threads
    BY <1>1 DEF Inv, TypeOK, Runs
  <2> QED
    BY <1>1, <2>1 DEF Inv, TypeOK, Runs, clock
<1>6. Since(last_spin_tick, spin_age)' /\ Since(last_sec_tick, sec_age)'
  BY <1>1 DEF Inv, SpinOK, SecOK, Since, Runs, clock
<1>7. spin_age + n <= SpinPeriod + 1 + gap /\ sec_age + n <= SecPeriod + 1 + gap
  BY <1>1, <1>3 DEF Inv, SpinOK, SecOK, Looked
<1>8. /\ spin_age + n <= SpinPeriod + 2 + gap /\ sec_age + n <= SecPeriod + 2 + gap
      /\ spin_age <= SpinPeriod + 1 + gap /\ sec_age <= SecPeriod + 1 + gap
  BY <1>4, <1>7
<1>9. /\ Looked(spin_age, SpinPeriod)' /\ Looked(sec_age, SecPeriod)'
      /\ Unlooked(spin_age, SpinPeriod)' /\ Unlooked(sec_age, SecPeriod)'
      /\ Halted(spin_age, SpinPeriod)' /\ Halted(sec_age, SecPeriod)'
  BY <1>1, <1>2, <1>3, <1>7, <1>8 DEF clock, Looked, Unlooked, Halted
<1> QED
  BY <1>1, <1>2, <1>5, <1>6, <1>9 DEF Inv, SpinOK, SecOK

LEMMA NextInv == Inv /\ [Next]_vars => Inv'
<1> SUFFICES ASSUME Inv, [Next]_vars PROVE Inv'
  OBVIOUS
<1>1. CASE UNCHANGED vars
  <2>1. InFlight' = InFlight
    BY <1>1 DEF vars, hardware, InFlight
  <2> QED
    BY <1>1, <2>1 DEF vars, hardware, clock, Inv, TypeOK, NoStrayInterrupt, BootOK, Idle, SpinOK,
       SecOK, Since, Looked, Unlooked, Late, Halted
<1> QED
  BY <1>1, RaiseInv, DeliverInv, EoiIretInv, CallInv, BootStepInv, LookInv, DrawInv, PassEndInv
  DEF Next, Handler, Thread

-----------------------------------------------------------------------------
(* The theorems.                                                           *)

LEMMA Invariance == Spec => []Inv
<1>1. Init => Inv
  BY InitInv
<1>2. Inv /\ [Next]_vars => Inv'
  BY NextInv
<1> QED
  BY <1>1, <1>2, PTL DEF Spec

\* kernel_main enables interrupts last: none is taken before the PIC is remapped
\* and its gate installed, and none is lost for want of a handler.
THEOREM NoStray == Spec => []NoStrayInterrupt
<1>1. Inv => NoStrayInterrupt
  BY DEF Inv
<1> QED
  BY <1>1, Invariance, PTL

\* update_live_clock keeps spinner and clock fresh although tick changes between
\* its reads and wraps, whatever the periods, the width of tick and the number of
\* interrupts in a pass, as long as tick does not wrap within the bound itself.
THEOREM Fresh == Spec => []DisplayIsFresh
<1>1. Inv => DisplayIsFresh
  BY InvIsFresh
<1> QED
  BY <1>1, Invariance, PTL
=============================================================================
