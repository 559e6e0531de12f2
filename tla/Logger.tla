-------------------------------- MODULE Logger --------------------------------
(***************************************************************************)
(* The event log of logs/logger.c: a ring of MaxLogs lines that klog fills *)
(* and klog_dump (the commands dmesg and logs) prints.  Only code of the   *)
(* main loop calls klog, no interrupt handler does, so a call is one step. *)
(***************************************************************************)
EXTENDS Integers, Sequences

CONSTANTS
  MaxLogs,       \* MAX_LOGS
  Messages,      \* the literals passed to klog, all shorter than LOG_LENGTH
  FirstMessage,  \* "Logger Initialized."
  NoMessage,     \* the empty string
  MaxWritten     \* bound: how many messages are logged between two boots

Lines == 0 .. MaxLogs - 1

ASSUME LoggerAssumption ==
  /\ MaxLogs \in Nat \ {0}
  /\ MaxWritten \in Nat \ {0}
  /\ FirstMessage \in Messages
  /\ NoMessage \notin Messages

VARIABLES
  log_buffer,  \* the ring
  log_head,    \* index of the next line
  log_count,   \* messages since boot
  written      \* history: the messages since boot, oldest first

vars == <<log_buffer, log_head, log_count, written>>

TypeOK ==
  /\ log_buffer \in [Lines -> Messages \cup {NoMessage}]
  /\ log_head \in Lines
  /\ log_count \in 1 .. MaxWritten
  /\ written \in Seq(Messages)

\* Mutant: the head wraps one line early.
NextLineEarly(head) == IF head + 2 >= MaxLogs THEN 0 ELSE head + 1

NextLine(head) == (head + 1) % MaxLogs

\* logger_init empties every line of a zeroed memory, then logs its own message.
Init ==
  /\ log_buffer = [i \in Lines |-> IF i = 0 THEN FirstMessage ELSE NoMessage]
  /\ log_head = NextLine(0)
  /\ log_count = 1
  /\ written = <<FirstMessage>>

Klog(m) ==
  /\ log_count < MaxWritten
  /\ log_buffer' = [log_buffer EXCEPT ![log_head] = m]
  /\ log_head' = NextLine(log_head)
  /\ log_count' = log_count + 1
  /\ written' = Append(written, m)

\* A reset clears the memory of the kernel.
Reboot ==
  /\ log_buffer' = [i \in Lines |-> IF i = 0 THEN FirstMessage ELSE NoMessage]
  /\ log_head' = NextLine(0)
  /\ log_count' = 1
  /\ written' = <<FirstMessage>>

Next == (\E m \in Messages : Klog(m)) \/ Reboot

Spec == Init /\ [][Next]_vars

-----------------------------------------------------------------------------
(* klog_dump.                                                              *)

Start == IF log_count > MaxLogs THEN log_head ELSE 0
Limit == IF log_count > MaxLogs THEN MaxLogs ELSE log_head

\* The lines klog_dump prints.
Dump == [i \in 1 .. Limit |-> log_buffer[(Start + i - 1) % MaxLogs]]

\* The last messages, as many as the ring holds, oldest first.
Recent ==
  LET n == IF Len(written) < MaxLogs THEN Len(written) ELSE MaxLogs
  IN  [i \in 1 .. n |-> written[Len(written) - n + i]]

\* Before the ring is full, and once it has wrapped, klog_dump prints the most
\* recent messages, in the order they were logged.
DumpIsRecent == log_count # MaxLogs => Dump = Recent
=============================================================================
