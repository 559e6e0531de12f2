------------------------------ MODULE Interrupts ------------------------------
(***************************************************************************)
(* The one concurrent part of the kernel: interrupt handlers (cpu/idt.c,   *)
(* cpu/isr.c, cpu/interrupt.asm, cpu/timer.c) against the main thread,     *)
(* which boots, polls in loops that call update_live_clock, and ends       *)
(* shutdown, reboot and exceptions with a hlt.  tick is shared, and the    *)
(* thread reads it up to five times per pass.                              *)
(***************************************************************************)
EXTENDS Integers, Sequences

CONSTANTS
  TickMod,     \* 2^32: tick is a uint32_t
  SpinPeriod,  \* 10 ticks
  SecPeriod,   \* 50 ticks
  MaxGap       \* bound: interrupts raised in one pass of a polling loop

Timer    == 0
Keyboard == 1
IRQs     == {Timer, Keyboard}   \* the lines pic_remap leaves unmasked

ASSUME PeriodAssumption ==
  /\ SpinPeriod \in Nat \ {0} /\ SecPeriod \in Nat \ {0} /\ MaxGap \in Nat \ {0}
  /\ TickMod \in Nat
  /\ TickMod > SpinPeriod + 2 * MaxGap + 2 /\ TickMod > SecPeriod + 2 * MaxGap + 2

\* Mutants: interrupts are enabled before the PIC is remapped; before the
\* handler of the timer is registered; never.
BootStiEarly     == <<"sti", "pic_remap", "isr_install", "irq_install", "lidt", "register">>
BootRegisterLate == <<"pic_remap", "isr_install", "irq_install", "lidt", "sti", "register">>
BootNoSti        == <<"pic_remap", "isr_install", "irq_install", "lidt", "register">>
\* kernel_main: init_idt, then init_timer, then sti.
BootOrder == <<"pic_remap", "isr_install", "irq_install", "lidt", "register", "sti">>

VARIABLES
  booted,     \* how many steps of BootOrder have run
  iflag,      \* the interrupt flag of the processor
  irr, isr,   \* PIC: the lines that are pending, and those in service
  handler,    \* the interrupt being handled, and what comes next
  main,       \* the main thread: what it executes next
  tick, last_spin_tick, last_sec_tick,
  gap,        \* interrupts raised in this pass of the loop
  spin_age, sec_age,  \* history: ticks since spinner and clock were drawn
  stray       \* history: interrupts that met no gate or no handler

hardware == <<iflag, irr, isr, handler>>
clock    == <<last_spin_tick, last_sec_tick, spin_age, sec_age>>
vars     == <<booted, hardware, main, tick, clock, gap, stray>>

Done(step) == \E k \in 1 .. booted : BootOrder[k] = step
NoHandler  == [irq |-> -1, next |-> "none"]
Idle       == handler = NoHandler
Stopped    == main \in {"off", "exception"}

Threads == {"boot", "spin?", "spin", "sec?", "sec", "keys", "hlt",
            "off", "exception"}

TypeOK ==
  /\ booted \in 0 .. Len(BootOrder)
  /\ iflag \in BOOLEAN
  /\ irr \subseteq IRQs /\ isr \subseteq IRQs
  /\ handler \in [irq : IRQs \cup {-1}, next : {"none", "eoi", "call", "iret"}]
  /\ main \in Threads
  /\ tick \in 0 .. TickMod - 1
  /\ last_spin_tick \in 0 .. TickMod - 1 /\ last_sec_tick \in 0 .. TickMod - 1
  /\ gap \in 0 .. MaxGap
  /\ spin_age \in Nat /\ sec_age \in Nat
  /\ stray \subseteq IRQs

Init ==
  /\ booted = 0
  /\ iflag = FALSE
  /\ irr = {} /\ isr = {}
  /\ handler = NoHandler
  /\ main = "boot"
  /\ tick = 0 /\ last_spin_tick = 0 /\ last_sec_tick = 0
  /\ gap = 0
  /\ spin_age = 0 /\ sec_age = 0
  /\ stray = {}

-----------------------------------------------------------------------------
(* Devices and handlers.                                                   *)

\* A line is raised; one that is pending already stays pending.  Both
\* together are raised at most MaxGap times in one pass of a loop.
Raise(i) ==
  /\ main \notin {"off"}
  /\ i \notin irr
  /\ gap' = IF main \notin {"boot", "hlt"} THEN gap + 1 ELSE gap
  /\ gap' <= MaxGap
  /\ irr' = irr \cup {i}
  /\ UNCHANGED <<booted, iflag, isr, handler, main, tick, clock, stray>>

\* The processor takes the pending line of the highest priority, unless one of
\* the same or a higher priority is in service.  Through an interrupt gate: the
\* interrupt flag is cleared.  It ends a hlt.
Deliver(i) ==
  /\ iflag /\ Idle
  /\ i \in irr /\ \A j \in irr \cup isr : j # i => j > i
  /\ i \notin isr
  /\ irr' = irr \ {i}
  /\ isr' = isr \cup {i}
  /\ iflag' = FALSE
  /\ handler' = [irq |-> i, next |-> "eoi"]
  /\ main' = IF main = "hlt" THEN "spin?" ELSE main
  /\ stray' = IF {"pic_remap", "irq_install", "lidt"} \subseteq {BootOrder[k] : k \in 1 .. booted}
                THEN stray ELSE stray \cup {i}
  /\ UNCHANGED <<booted, tick, clock, gap>>

\* Mutant: only the slave PIC, which none of the two lines belongs to.
EndOfInterruptSlave(i) == {}
\* irq_handler acknowledges the line before it calls the handler.
EndOfInterrupt(i) == {i}

Eoi ==
  /\ handler.next = "eoi"
  /\ isr' = isr \ EndOfInterrupt(handler.irq)
  /\ handler' = [handler EXCEPT !.next = "call"]
  /\ UNCHANGED <<booted, iflag, irr, main, tick, clock, gap, stray>>

\* tick++ on a uint32_t.
TickAfter == (tick + 1) % TickMod

\* timer_callback, the one handler that is registered; the keyboard has none.
Call ==
  /\ handler.next = "call"
  /\ IF handler.irq = Timer /\ Done("register")
       THEN /\ tick' = TickAfter
            /\ spin_age' = spin_age + 1 /\ sec_age' = sec_age + 1
            /\ stray' = stray
       ELSE /\ UNCHANGED <<tick, spin_age, sec_age>>
            /\ stray' = IF handler.irq = Timer THEN stray \cup {Timer} ELSE stray
  /\ handler' = [handler EXCEPT !.next = "iret"]
  /\ UNCHANGED <<booted, iflag, irr, isr, main, last_spin_tick, last_sec_tick, gap>>

\* sti takes effect after the instruction that follows it, which is iret.
Iret ==
  /\ handler.next = "iret"
  /\ handler' = NoHandler
  /\ iflag' = TRUE
  /\ UNCHANGED <<booted, irr, isr, main, tick, clock, gap, stray>>

-----------------------------------------------------------------------------
(* The main thread, which runs while no handler does.                      *)

BootStep ==
  /\ Idle /\ main = "boot"
  /\ booted' = booted + 1
  /\ iflag' = (iflag \/ BootOrder[booted + 1] = "sti")
  /\ main' = IF booted + 1 = Len(BootOrder) THEN "spin?" ELSE "boot"
  /\ UNCHANGED <<irr, isr, handler, tick, clock, gap, stray>>

\* Mutant: correct until tick wraps.
ElapsedSigned(last) == tick - last
\* tick - last_tick in unsigned arithmetic.
Elapsed(last) == (tick - last) % TickMod

\* A pass begins: update_live_clock looks at the spinner.
LookAtSpinner ==
  /\ Idle /\ main = "spin?"
  /\ main' = IF Elapsed(last_spin_tick) > SpinPeriod THEN "spin" ELSE "sec?"
  /\ gap' = 0
  /\ UNCHANGED <<booted, hardware, tick, clock, stray>>

\* The second read of tick; the third only chooses the character that is drawn.
SetSpinTick ==
  /\ Idle /\ main = "spin"
  /\ last_spin_tick' = tick
  /\ spin_age' = 0
  /\ main' = "sec?"
  /\ UNCHANGED <<booted, hardware, tick, last_sec_tick, sec_age, gap, stray>>

LookAtClock ==
  /\ Idle /\ main = "sec?"
  /\ main' = IF Elapsed(last_sec_tick) > SecPeriod THEN "sec" ELSE "keys"
  /\ UNCHANGED <<booted, hardware, tick, clock, gap, stray>>

\* The fifth; what is drawn then is the matter of Rtc and Screen.
DrawClock ==
  /\ Idle /\ main = "sec"
  /\ last_sec_tick' = tick
  /\ sec_age' = 0
  /\ main' = "keys"
  /\ UNCHANGED <<booted, hardware, tick, last_spin_tick, spin_age, gap, stray>>

\* The rest of the pass, and the next one.
PollKeyboard ==
  /\ Idle /\ main = "keys"
  /\ main' = "spin?"
  /\ UNCHANGED <<booted, hardware, tick, clock, gap, stray>>

\* shutdown and reboot: the machine goes off or resets, or hlt is executed, with
\* interrupts enabled.
PowerCommand ==
  /\ Idle /\ main = "keys"
  /\ main' \in {"off", "hlt"}
  /\ UNCHANGED <<booted, hardware, tick, clock, gap, stray>>

\* An exception, of the calculator for instance (see Shell): isr_handler
\* executes hlt behind an interrupt gate.
Exception ==
  /\ Idle /\ main = "keys"
  /\ main' = "exception"
  /\ iflag' = FALSE
  /\ UNCHANGED <<booted, irr, isr, handler, tick, clock, gap, stray>>

Handler == Eoi \/ Call \/ Iret
Thread ==
  \/ BootStep
  \/ LookAtSpinner \/ SetSpinTick
  \/ LookAtClock \/ DrawClock
  \/ PollKeyboard \/ PowerCommand \/ Exception

Next ==
  \/ \E i \in IRQs : Raise(i) \/ Deliver(i)
  \/ Handler
  \/ Thread

Spec == Init /\ [][Next]_vars

\* The processor executes whatever is next, and takes pending interrupts; the
\* timer, once programmed, ticks for ever.  Keys and commands have no fairness.
Fairness ==
  /\ WF_vars(Handler) /\ WF_vars(Deliver(Timer)) /\ WF_vars(Raise(Timer))
  /\ WF_vars(BootStep \/ LookAtSpinner \/ SetSpinTick
               \/ LookAtClock \/ DrawClock \/ PollKeyboard)

FairSpec == Spec /\ Fairness

-----------------------------------------------------------------------------
(* Properties.                                                             *)

\* No interrupt is taken before the PIC is remapped and its gate is installed (it
\* would arrive as an exception), and no tick is lost because the timer's
\* handler is not registered yet.
NoStrayInterrupt == stray = {}

\* The spinner and the clock are never older than their period and the two
\* passes of the loop that may lie around it, with the two ticks that were pending
\* when a pass began, although tick is read again after
\* each comparison, changes in between, and wraps.
DisplayIsFresh ==
  /\ spin_age <= SpinPeriod + 2 * MaxGap + 2
  /\ sec_age <= SecPeriod + 2 * MaxGap + 2

\* Every tick of the timer reaches timer_callback: no line stays in service and
\* blocks the next one.
TicksAreServed == Timer \in irr ~> (Timer \notin irr \/ Stopped)

\* The hlt at the end of shutdown and reboot does not stop the kernel: if the
\* machine stays on, the next tick resumes it and it goes on polling.
HltResumes == main = "hlt" ~> main = "keys"
=============================================================================
