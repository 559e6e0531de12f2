-------------------------------- MODULE Shell --------------------------------
(***************************************************************************)
(* execute_command of kernel/kernel.c: which handler an entered line       *)
(* reaches, the history of lines, and the calculator, down to the number   *)
(* conversions of kernel/utils.c.  What the other handlers do is in the    *)
(* modules of their components.                                            *)
(***************************************************************************)
EXTENDS Integers, SequencesExt

CONSTANTS
  Lines,    \* lines that are entered, as strings
  Sums,     \* what a line of the calculator holds: a number, an operator, a number
  Slots,    \* 5 lines of history
  SlotLen,  \* 63 characters of a line that a slot keeps
  Word      \* 2^32: an int is a word in two's complement

ASSUME ShellAssumption ==
  /\ Sums \subseteq Nat \X STRING \X Nat    \* a number is typed as digits
  /\ Slots \in Nat \ {0}
  /\ SlotLen \in Nat \ {0}
  /\ Word \in Nat /\ Word % 4 = 0 /\ Word > 40

-----------------------------------------------------------------------------
(* The tests, in the order of the code; the handler is named after the     *)
(* word that help lists it under.                                          *)

Is(word)             == [kind |-> "is", word |-> word, handler |-> word]
Alias(word, handler) == [kind |-> "is", word |-> word, handler |-> handler]
Starts(word)         == [kind |-> "starts", word |-> word, handler |-> word]

ExactTests ==
  << Is("help"), Is("logout"), Is("clear"), Alias("cls", "clear"), Is("sysinfo"),
     Alias("dmesg", "logs"), Is("logs"), Is("ls"), Is("pwd"), Is("top"), Is("free"),
     Is("df"), Is("whoami"), Is("time"), Alias("date", "time"), Is("uptime"),
     Is("history"), Is("memdump"), Alias("exit", "shutdown"), Is("shutdown"), Is("reboot") >>

\* Mutant: mkdir is recognised by its first letter.
OperandTestsShort ==
  << Starts("theme"), Starts("passwd"), Starts("useradd"), Is("users"), Starts("cat"),
     Is("format"), Starts("edit"), Starts("rm"), Starts("m"), Starts("cd"), Starts("cp"),
     Starts("mv"), Starts("rmdir"), Starts("touch"), Starts("tree"), Starts("ps"), Starts("calc") >>
OperandTests ==
  << Starts("theme"), Starts("passwd"), Starts("useradd"), Is("users"), Starts("cat"),
     Is("format"), Starts("edit"), Starts("rm"), Starts("mkdir"), Starts("cd"), Starts("cp"),
     Starts("mv"), Starts("rmdir"), Starts("touch"), Starts("tree"), Starts("ps"), Starts("calc") >>

Tests == ExactTests \o OperandTests

Matches(line, test) ==
  IF test.kind = "is" THEN line = test.word
  ELSE Len(test.word) <= Len(line) /\ SubSeq(line, 1, Len(test.word)) = test.word

\* The handler, and the rest of the line behind the word that was tested.
Dispatch(line) ==
  LET fits == {k \in DOMAIN Tests : Matches(line, Tests[k])} IN
    IF fits = {} THEN [handler |-> IF line = "" THEN "none" ELSE "unknown", rest |-> ""]
    ELSE LET test == Tests[Min(fits)] IN
           [handler |-> test.handler,
            rest    |-> SubSeq(line, Len(test.word) + 1, Len(line))]

Dispatched == [line \in Lines |-> Dispatch(line)]

-----------------------------------------------------------------------------
(* Integers of a machine word.                                             *)

IntMax == Word \div 2 - 1
IntMin == -(Word \div 2)
WrapInt(n) == ((n - IntMin) % Word) + IntMin

\* Division as the processor does it: towards zero, with an exception by zero and
\* when the quotient does not fit.
Abs(n)    == IF n < 0 THEN -n ELSE n
Quot(a, b) == IF (a < 0) = (b < 0) THEN Abs(a) \div Abs(b) ELSE -(Abs(a) \div Abs(b))
Rem(a, b)  == a - b * Quot(a, b)
Faults(a, b) == b = 0 \/ (a = IntMin /\ b = -1)

\* atoi of the decimal digits of n: each step wraps.
atoi(n) == WrapInt(n)

\* The digits of the loop of itoa, last first; n may be negative, when it could
\* not be negated, and the loop ends then after one "digit".
Digits[n \in IntMin .. IntMax] ==
  IF Quot(n, 10) > 0 THEN <<Rem(n, 10)>> \o Digits[Quot(n, 10)] ELSE <<Rem(n, 10)>>

reverse(s) == [i \in DOMAIN s |-> s[Len(s) + 1 - i]]

\* Mutant: the digits are left in the order in which they were found.
itoaUnreversed(n) == [minus |-> n < 0, digits |-> Digits[WrapInt(Abs(n))]]
itoa(n) == [minus |-> n < 0, digits |-> reverse(Digits[WrapInt(Abs(n))])]

\* The calculator: what it prints, "Div 0" or a result or both, or an exception.
Printed(div0, res) == [fault |-> FALSE, div0 |-> div0, shown |-> TRUE, text |-> itoa(res)]
DivByZero == [fault |-> FALSE, div0 |-> TRUE, shown |-> FALSE, text |-> itoa(0)]
Exception == [fault |-> TRUE, div0 |-> FALSE, shown |-> FALSE, text |-> itoa(0)]

\* Mutant: only the divisor 0 of / is looked at.
ZeroGuardOfQuotient(op, b) == op = "/" /\ b = 0
ZeroGuard(op, b) == op \in {"/", "%"} /\ b = 0

\* A sum, a difference or a product wraps; any other operator gives 0.
calc(x, op, y) ==
  LET a == atoi(x)
      b == atoi(y)
  IN  CASE ZeroGuard(op, b)                     -> IF op = "/" THEN DivByZero ELSE Printed(TRUE, 0)
        [] op \in {"/", "%"} /\ ~ZeroGuard(op, b) /\ Faults(a, b) -> Exception
        [] op = "/" /\ ~ZeroGuard(op, b) /\ ~Faults(a, b) -> Printed(FALSE, Quot(a, b))
        [] op = "%" /\ ~ZeroGuard(op, b) /\ ~Faults(a, b) -> Printed(FALSE, Rem(a, b))
        [] op = "+" -> Printed(FALSE, WrapInt(a + b))
        [] op = "-" -> Printed(FALSE, WrapInt(a - b))
        [] op = "*" -> Printed(FALSE, WrapInt(a * b))
        [] op \notin {"+", "-", "*", "/", "%"} -> Printed(FALSE, 0)

-----------------------------------------------------------------------------
VARIABLES
  history,   \* the slots; "" is an empty one
  hist_idx,  \* the slot of the next line
  entered,   \* history variable: the last Slots lines that were entered, whole
  last       \* the last line, the handler it reached and what that printed

shellVars == <<history, hist_idx, entered, last>>

ShellInit ==
  /\ history = [i \in 0 .. Slots - 1 |-> ""]
  /\ hist_idx = 0
  /\ entered = <<>>
  /\ last = [line |-> "", handler |-> "none", rest |-> ""]

Running == "result" \in DOMAIN last => ~last.result.fault

\* Mutant: the last slot is never used.
NextSlotShort(i) == IF i + 2 >= Slots THEN 0 ELSE i + 1
NextSlot(i) == (i + 1) % Slots

\* What a slot keeps of a line: its first SlotLen characters.
SlotText(line) == IF Len(line) > SlotLen THEN SubSeq(line, 1, SlotLen) ELSE line

\* The line goes to the history before it is looked at.
add_history(line) ==
  /\ history' = [history EXCEPT ![hist_idx] = SlotText(line)]
  /\ hist_idx' = NextSlot(hist_idx)
  /\ entered' = LET e == Append(entered, line) IN
                  IF Len(e) > Slots THEN Tail(e) ELSE e

\* Mutant: the list ends at the first empty slot.
ListToFirstEmpty(h) ==
  LET s == [i \in 1 .. Slots |-> h[i - 1]] IN SubSeq(s, 1, SelectInSeq(s, LAMBDA line : line = "") - 1)
\* The lines of s without the empty ones, as the loop over them leaves them out.
Shown(s) ==
  LET shown[i \in 0 .. Len(s)] ==
        IF i = 0 THEN <<>>
        ELSE IF s[i] # "" THEN Append(shown[i - 1], s[i]) ELSE shown[i - 1]
  IN  shown
NonEmpty(s) == Shown(s)[Len(s)]

\* The lines in the order of the slots, without the empty ones.
show_history(h) == NonEmpty([i \in 1 .. Slots |-> h[i - 1]])

Enter(line) ==
  /\ Running
  /\ Dispatched[line].handler # "calc"
  /\ add_history(line)
  /\ LET d == Dispatched[line] IN
       last' = [line |-> line, handler |-> d.handler, rest |-> d.rest,
                printed |-> IF d.handler = "history" THEN show_history(history') ELSE <<>>]

\* A line that reaches the calculator, whose operand stands for sum.
Calc(line, sum) ==
  /\ Running
  /\ Dispatched[line].handler = "calc"
  /\ add_history(line)
  /\ last' = [line |-> line, handler |-> "calc", rest |-> Dispatched[line].rest, sum |-> sum,
              result |-> calc(sum[1], sum[2], sum[3])]

ShellNext ==
  \/ \E line \in Lines : Enter(line)
  \/ \E line \in Lines, sum \in Sums : Calc(line, sum)

ShellSpec == ShellInit /\ [][ShellNext]_shellVars

-----------------------------------------------------------------------------
(* Properties.                                                             *)

\* What a slot may hold.
Slotted == {SlotText(line) : line \in Lines} \cup {""}

ShellTypeOK ==
  /\ history \in [0 .. Slots - 1 -> Slotted]
  /\ hist_idx \in 0 .. Slots - 1
  /\ entered \in Seq(Lines) /\ Len(entered) <= Slots

\* What help lists; the handlers of the second set print how they are used unless
\* an operand follows, and cd is in both.
ListedAlone ==
  {"top", "free", "df", "ps", "whoami", "sysinfo", "uptime", "time", "ls", "pwd", "tree",
   "users", "logs", "format", "history", "clear", "help", "logout", "shutdown", "cd"}
ListedWithOperand ==
  {"mkdir", "cd", "touch", "edit", "cat", "cp", "mv", "rm", "passwd", "useradd", "theme", "calc"}

\* Every command of the help text but rmdir reaches its own handler, with the operand
\* that was typed, whatever prefixes are tested before it.  rmdir, which help lists
\* too, never reaches its handler: its lines reach that of rm, with the operand "dir x".
EveryCommandIsReached ==
  /\ \A w \in ListedAlone : last.line = w => last.handler = w
  /\ \A w \in ListedWithOperand :
       last.line = w \o " x" => last.handler = w /\ last.rest = " x"
  /\ last.line = "rmdir x" => last.handler = "rm" /\ last.rest = "dir x"

\* The lines as the slots keep them.
Kept(lines) == [i \in DOMAIN lines |-> SlotText(lines[i])]

\* The ring keeps the last lines, those of all sessions and the empty ones too, each
\* up to the length of a slot.
HistoryIsRecent ==
  LET kept == Kept(entered) IN
    \A k \in 1 .. Len(kept) : history[(hist_idx - k) % Slots] = kept[Len(kept) + 1 - k]

\* history shows the last lines, itself included, each once and up to the length of a
\* slot; not in the order in which they were entered, but in that of the slots, which
\* is a rotation of it.
HistoryIsARotation ==
  last.handler = "history" =>
    LET kept == Kept(entered) IN
      \E k \in 1 .. Len(kept) :
        last.printed = NonEmpty(SubSeq(kept, k + 1, Len(kept)) \o SubSeq(kept, 1, k))

\* The number that is printed, if its digits are digits: that of i digits.
Values(digits) ==
  LET value[i \in 0 .. Len(digits)] == IF i = 0 THEN 0 ELSE 10 * value[i - 1] + digits[i]
  IN  value
Value(text) == (IF text.minus THEN -1 ELSE 1) * Values(text.digits)[Len(text.digits)]

InRange(n) == n \in IntMin + 1 .. IntMax

\* As long as the numbers and the result fit an int, the calculator prints the
\* result: the conversions back and forth lose nothing, whatever the sign.
CalcIsExact ==
  "sum" \in DOMAIN last =>
    LET x == last.sum[1]
        y == last.sum[3]
        exact == CASE last.sum[2] = "+" -> x + y
                   [] last.sum[2] = "-" -> x - y
                   [] last.sum[2] = "*" -> x * y
                   [] last.sum[2] = "/" /\ y # 0 -> x \div y
                   [] last.sum[2] = "%" /\ y # 0 -> x % y
                   [] OTHER -> 0
    IN  InRange(x) /\ InRange(y) /\ InRange(exact) /\ (last.sum[2] \in {"/", "%"} => y # 0) =>
          last.result.shown /\ Value(last.result.text) = exact

\* The calculator stops the kernel with an exception only for numbers that do not
\* fit an int.
OnlyOverflowHalts ==
  "sum" \in DOMAIN last /\ last.result.fault => ~InRange(last.sum[1]) /\ ~InRange(last.sum[3])
=============================================================================
