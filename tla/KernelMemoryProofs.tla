-------------------------- MODULE KernelMemoryProofs --------------------------
(* Proofs about Logger and KernelMemory, for every size of the ring and     *)
(* every layout: every number and size of entries, lines and sectors, and   *)
(* wherever the table ends among the lines.                                 *)
EXTENDS KernelMemory, WellFoundedInduction, TLAPS

-----------------------------------------------------------------------------
(* The ring of the log.                                                    *)

\* The line that was written k messages ago.
Back(k) == IF k <= log_head THEN log_head - k ELSE log_head - k + MaxLogs

\* The ring holds the last messages, counted back from the head; until it has
\* filled up once, the head is the number of messages.
Inv ==
  /\ TypeOK
  /\ Len(written) = log_count
  /\ log_count < MaxLogs => log_head = log_count
  /\ \A k \in 1 .. MaxLogs :
       k <= log_count => log_buffer[Back(k)] = written[log_count - k + 1]

\* The remainders that occur in the ring.
LEMMA Remainder ==
  ASSUME NEW x \in 0 .. 2 * MaxLogs - 1
  PROVE  x % MaxLogs = IF x < MaxLogs THEN x ELSE x - MaxLogs
<1>1. MaxLogs \in Nat /\ MaxLogs > 0
  BY LoggerAssumption
<1> DEFINE q == x \div MaxLogs
           r == x % MaxLogs
<1>2. q \in Int /\ r \in 0 .. MaxLogs - 1 /\ x = MaxLogs * q + r
  BY <1>1
<1> HIDE DEF q, r
<1>3. q = 0 \/ q = 1
  <2>1. CASE q < 0
    <3>1. MaxLogs * q <= 0 - MaxLogs
      BY <1>1, <1>2, <2>1
    <3> QED
      BY <3>1, <1>1, <1>2
  <2>2. CASE q > 1
    <3>1. MaxLogs * q >= 2 * MaxLogs
      BY <1>1, <1>2, <2>2
    <3> QED
      BY <3>1, <1>1, <1>2
  <2> QED
    BY <2>1, <2>2, <1>2
<1> QED
  BY <1>1, <1>2, <1>3 DEF r

LEMMA NextLineType ==
  ASSUME NEW head \in Lines
  PROVE  /\ NextLine(head) \in Lines
         /\ NextLine(head) = IF head + 1 < MaxLogs THEN head + 1 ELSE 0
<1>1. head + 1 \in 0 .. 2 * MaxLogs - 1 /\ head + 1 <= MaxLogs
  BY LoggerAssumption DEF Lines
<1> QED
  BY <1>1, Remainder, LoggerAssumption DEF NextLine, Lines

LEMMA InitInv == Init => Inv
<1> SUFFICES ASSUME Init PROVE Inv
  OBVIOUS
<1>1. 0 \in Lines
  BY LoggerAssumption DEF Lines
<1>2. log_head \in Lines /\ log_head = IF 1 < MaxLogs THEN 1 ELSE 0
  BY <1>1, NextLineType, LoggerAssumption DEF Init
<1>3. TypeOK
  BY <1>1, <1>2, LoggerAssumption DEF TypeOK, Init
<1>4. /\ Len(written) = log_count /\ written[1] = FirstMessage
      /\ log_count = 1 /\ log_buffer[0] = FirstMessage
  BY <1>1 DEF Init
<1>5. Back(1) = 0
  BY <1>2, LoggerAssumption DEF Back
<1> QED
  BY <1>1, <1>2, <1>3, <1>4, <1>5, LoggerAssumption DEF Inv

LEMMA KlogInv ==
  ASSUME Inv, NEW m \in Messages, Klog(m)
  PROVE  Inv'
<1>1. /\ log_head \in Lines /\ log_count \in Nat /\ log_count >= 1
      /\ log_count' = log_count + 1
      /\ log_buffer \in [Lines -> Messages \cup {NoMessage}]
      /\ log_buffer' = [log_buffer EXCEPT ![log_head] = m]
      /\ written \in Seq(Messages) /\ Len(written) = log_count
      /\ written' = Append(written, m)
  BY DEF Inv, TypeOK, Klog
<1>2. log_head' \in Lines /\ log_head' = IF log_head + 1 < MaxLogs THEN log_head + 1 ELSE 0
  BY <1>1, NextLineType DEF Klog
<1>3. TypeOK'
  <2>1. log_count' \in 1 .. MaxWritten
    BY <1>1, LoggerAssumption DEF Klog
  <2>2. written' \in Seq(Messages)
    BY <1>1
  <2>3. log_buffer' \in [Lines -> Messages \cup {NoMessage}]
    BY <1>1
  <2> QED
    BY <1>2, <2>1, <2>2, <2>3 DEF TypeOK
<1>4. Len(written') = log_count'
  BY <1>1
<1>5. log_count' < MaxLogs => log_head' = log_count'
  BY <1>1, <1>2, LoggerAssumption DEF Inv, Lines
<1>6. ASSUME NEW k \in 1 .. MaxLogs, k <= log_count'
      PROVE  log_buffer'[Back(k)'] = written'[log_count' - k + 1]
  <2>1. CASE k = 1
    <3>1. Back(k)' = log_head
      BY <1>1, <1>2, <2>1, LoggerAssumption DEF Back, Lines
    <3>2. written'[log_count' - k + 1] = m
      BY <1>1, <2>1
    <3> QED
      BY <1>1, <3>1, <3>2
  <2>2. CASE k > 1
    <3>1. k - 1 \in 1 .. MaxLogs /\ k - 1 <= log_count
      BY <1>1, <1>6, <2>2, LoggerAssumption
    <3>2. Back(k)' = Back(k - 1) /\ Back(k - 1) \in Lines /\ Back(k - 1) # log_head
      BY <1>1, <1>2, <2>2, LoggerAssumption DEF Back, Lines
    <3>3. log_buffer'[Back(k)'] = log_buffer[Back(k - 1)]
      BY <1>1, <3>2
    <3>4. log_buffer[Back(k - 1)] = written[log_count - (k - 1) + 1]
      BY <3>1 DEF Inv
    <3>5. log_count' - k + 1 = log_count - (k - 1) + 1 /\ log_count' - k + 1 \in 1 .. Len(written)
      BY <1>1, <1>6, <2>2, LoggerAssumption
    <3>6. written'[log_count' - k + 1] = written[log_count - (k - 1) + 1]
      BY <1>1, <3>5
    <3> QED
      BY <3>3, <3>4, <3>6
  <2> QED
    BY <2>1, <2>2, LoggerAssumption
<1> QED
  BY <1>3, <1>4, <1>5, <1>6 DEF Inv

LEMMA Invariance == Spec => []Inv
<1>1. Init' => Inv'
  BY InitInv, PTL
<1>2. Inv /\ [Next]_vars => Inv'
  <2> SUFFICES ASSUME Inv, [Next]_vars PROVE Inv'
    OBVIOUS
  <2>1. ASSUME NEW m \in Messages, Klog(m)
        PROVE  Inv'
    BY <2>1, KlogInv
  <2>2. CASE Reboot
    <3>1. Init'
      BY <2>2 DEF Reboot, Init
    <3> QED
      BY <1>1, <3>1
  <2>3. CASE UNCHANGED vars
    BY <2>3 DEF vars, Inv, TypeOK, Back
  <2> QED
    BY <2>1, <2>2, <2>3 DEF Next
<1> QED
  BY InitInv, <1>2, PTL DEF Spec

\* The ring is indexed within its bounds, whatever its size.
THEOREM TypeCorrect == Spec => []TypeOK
<1>1. Inv => TypeOK
  BY DEF Inv
<1> QED
  BY <1>1, Invariance, PTL

\* klog_dump prints the most recent messages in order, for every size of the
\* ring and every number of messages other than exactly MAX_LOGS.
THEOREM DumpCorrect == Spec => []DumpIsRecent
<1>1. Inv => DumpIsRecent
  <2> SUFFICES ASSUME Inv, log_count # MaxLogs
               PROVE  Dump = Recent
    BY DEF DumpIsRecent
  <2>1. /\ log_head \in Lines /\ log_count \in Nat /\ log_count >= 1
        /\ Len(written) = log_count /\ MaxLogs \in Nat
    BY LoggerAssumption DEF Inv, TypeOK
  <2>2. CASE log_count < MaxLogs
    <3>1. Limit = log_count /\ Start = 0
      BY <2>1, <2>2 DEF Limit, Start, Inv
    <3>2. ASSUME NEW i \in 1 .. log_count
          PROVE  log_buffer[(Start + i - 1) % MaxLogs] = written[log_count - log_count + i]
      <4>1. (Start + i - 1) % MaxLogs = i - 1
        BY <2>1, <2>2, <3>1, Remainder
      <4>2. log_count - i + 1 \in 1 .. MaxLogs /\ log_count - i + 1 <= log_count
        BY <2>1, <2>2
      <4>3. Back(log_count - i + 1) = i - 1
        BY <2>1, <2>2 DEF Back, Inv
      <4>4. log_count - (log_count - i + 1) + 1 = i /\ log_count - log_count + i = i
        BY <2>1
      <4> QED
        BY <4>1, <4>2, <4>3, <4>4 DEF Inv
    <3> QED
      BY <2>1, <2>2, <3>1, <3>2 DEF Dump, Recent
  <2>3. CASE log_count > MaxLogs
    <3>1. Limit = MaxLogs /\ Start = log_head
      BY <2>1, <2>3 DEF Limit, Start
    <3>2. ASSUME NEW i \in 1 .. MaxLogs
          PROVE  log_buffer[(Start + i - 1) % MaxLogs] = written[log_count - MaxLogs + i]
      <4> DEFINE x == Start + i - 1
      <4>1. x \in 0 .. 2 * MaxLogs - 1 /\ x = log_head + i - 1
        BY <2>1, <3>1 DEF Lines
      <4> HIDE DEF x
      <4>2. MaxLogs - i + 1 \in 1 .. MaxLogs /\ MaxLogs - i + 1 <= log_count
        BY <2>1, <2>3
      <4>3. Back(MaxLogs - i + 1) = x % MaxLogs
        <5>1. Back(MaxLogs - i + 1) = IF x < MaxLogs THEN x ELSE x - MaxLogs
          BY <2>1, <4>1 DEF Back, Lines
        <5>2. x % MaxLogs = IF x < MaxLogs THEN x ELSE x - MaxLogs
          BY <4>1, Remainder
        <5> QED
          BY <5>1, <5>2
      <4>4. log_count - (MaxLogs - i + 1) + 1 = log_count - MaxLogs + i
        BY <2>1
      <4>5. log_buffer[x % MaxLogs] = written[log_count - MaxLogs + i]
        BY <4>2, <4>3, <4>4 DEF Inv
      <4> QED
        BY <4>5 DEF x
    <3> QED
      BY <2>1, <2>3, <3>1, <3>2 DEF Dump, Recent
  <2> QED
    BY <2>1, <2>2, <2>3
<1> QED
  BY <1>1, Invariance, PTL
-----------------------------------------------------------------------------
(* Arithmetic.                                                             *)

LEMMA Quotient ==
  ASSUME NEW m \in Nat \ {0}, NEW a \in Nat
  PROVE  a \div m \in Nat /\ a % m \in 0 .. m - 1 /\ a = (a \div m) * m + (a % m)
<1>1. PICK q \in Int, r \in 0 .. m - 1 : a \div m = q /\ a % m = r /\ a = m * q + r
  OBVIOUS
<1>2. q >= 0
  <2>1. CASE q < 0
    <3>1. m * q <= 0 - m
      BY <2>1
    <3>2. a = m * q + r
      BY <1>1
    <3> QED
      BY <3>1, <3>2
  <2> QED
    BY <2>1
<1>3. m * q = q * m
  OBVIOUS
<1>4. q \in Nat /\ a = q * m + r
  BY <1>1, <1>2, <1>3
<1> QED
  BY <1>1, <1>4, Zenon

LEMMA Multiples ==
  ASSUME NEW m \in Nat \ {0}, NEW p \in Nat, NEW q \in Nat, p < q
  PROVE  p * m + m <= q * m /\ p * m \in Nat /\ q * m \in Nat
<1>1. PICK d \in Nat : q = p + 1 + d
  <2>1. q - p - 1 \in Nat /\ q = p + 1 + (q - p - 1)
    OBVIOUS
  <2> QED
    BY <2>1
<1>2. q * m = p * m + m + d * m
  BY <1>1
<1>3. p * m \in Nat /\ d * m \in Nat /\ q * m \in Nat
  OBVIOUS
<1> QED
  BY <1>2, <1>3

\* A number is cut into quotient and remainder in one way.
LEMMA CutOnce ==
  ASSUME NEW m \in Nat \ {0}, NEW p \in Nat, NEW q \in Nat,
         NEW r \in 0 .. m - 1, NEW s \in 0 .. m - 1,
         p * m + r = q * m + s
  PROVE  p = q /\ r = s
<1>1. ~ (p < q)
  <2> SUFFICES ASSUME p < q PROVE FALSE
    OBVIOUS
  <2>1. p * m + m <= q * m /\ p * m \in Nat /\ q * m \in Nat
    BY Multiples
  <2> QED
    BY <2>1
<1>2. ~ (q < p)
  <2> SUFFICES ASSUME q < p PROVE FALSE
    OBVIOUS
  <2>1. q * m + m <= p * m /\ p * m \in Nat /\ q * m \in Nat
    BY Multiples
  <2> QED
    BY <2>1
<1>3. p = q
  BY <1>1, <1>2
<1>4. p * m \in Nat
  OBVIOUS
<1> QED
  BY <1>3, <1>4

LEMMA QuotientOf ==
  ASSUME NEW m \in Nat \ {0}, NEW q \in Nat, NEW r \in 0 .. m - 1
  PROVE  (q * m + r) \div m = q /\ (q * m + r) % m = r
<1>1. q * m + r \in Nat
  OBVIOUS
<1> DEFINE a == q * m + r
<1>2. a \in Nat /\ a = q * m + r
  BY <1>1
<1> HIDE DEF a
<1>3. a \div m \in Nat /\ a % m \in 0 .. m - 1 /\ a = (a \div m) * m + (a % m)
  BY <1>2, Quotient
<1>4. a \div m = q /\ a % m = r
  BY <1>2, <1>3, CutOnce
<1> QED
  BY <1>4 DEF a

-----------------------------------------------------------------------------
(* The lines of the log, and the numbers of their messages.                *)

\* The line of the k-th message since boot.
LineOf(k) == (k - 1) % MaxLogs

LEMMA LineOfType ==
  ASSUME NEW k \in Nat \ {0}
  PROVE  LineOf(k) \in Lines
<1>1. k - 1 \in Nat
  OBVIOUS
<1> QED
  BY <1>1, Quotient, LoggerAssumption DEF LineOf, Lines

\* The ring goes on to the line of the next message.
LEMMA NextLineOf ==
  ASSUME NEW k \in Nat \ {0}
  PROVE  /\ NextLine(LineOf(k)) = LineOf(k + 1)
         /\ LineOf(k + 1) = IF LineOf(k) + 1 < MaxLogs THEN LineOf(k) + 1 ELSE 0
         /\ LineOf(k + 1) = k % MaxLogs
<1> DEFINE r == LineOf(k)
           q == (k - 1) \div MaxLogs
<1>1. r \in Lines /\ q \in Nat /\ k - 1 = q * MaxLogs + r /\ MaxLogs \in Nat \ {0}
  <2>1. k - 1 \in Nat
    OBVIOUS
  <2> QED
    BY <2>1, Quotient, LineOfType, LoggerAssumption DEF LineOf
<1>2. NextLine(r) = IF r + 1 < MaxLogs THEN r + 1 ELSE 0
  BY <1>1, NextLineType
<1> HIDE DEF r, q
<1>3. k % MaxLogs = IF r + 1 < MaxLogs THEN r + 1 ELSE 0
  <2>0. q * MaxLogs \in Nat /\ (q + 1) * MaxLogs = q * MaxLogs + MaxLogs
    BY <1>1
  <2>1. CASE r + 1 < MaxLogs
    <3>1. r + 1 \in 0 .. MaxLogs - 1 /\ k = q * MaxLogs + (r + 1)
      BY <1>1, <2>0, <2>1 DEF Lines
    <3> QED
      BY <1>1, <2>1, <3>1, QuotientOf
  <2>2. CASE ~ (r + 1 < MaxLogs)
    <3>1. 0 \in 0 .. MaxLogs - 1 /\ k = (q + 1) * MaxLogs + 0 /\ q + 1 \in Nat
      BY <1>1, <2>0, <2>2 DEF Lines
    <3>2. ((q + 1) * MaxLogs + 0) % MaxLogs = 0
      BY <1>1, <3>1, QuotientOf
    <3> QED
      BY <2>2, <3>1, <3>2
  <2> QED
    BY <2>1, <2>2
<1>4. LineOf(k + 1) = k % MaxLogs
  <2>1. k + 1 - 1 = k
    OBVIOUS
  <2> QED
    BY <2>1 DEF LineOf
<1> QED
  BY <1>2, <1>3, <1>4 DEF r

\* MaxLogs messages in a row have different lines.
LEMMA LineOfDistinct ==
  ASSUME NEW k \in Nat \ {0}, NEW n \in Nat \ {0}, k < n, n < k + MaxLogs
  PROVE  LineOf(k) # LineOf(n)
<1> SUFFICES ASSUME LineOf(k) = LineOf(n)
             PROVE  FALSE
  OBVIOUS
<1>1. k - 1 \in Nat /\ n - 1 \in Nat /\ MaxLogs \in Nat \ {0}
  BY LoggerAssumption
<1>2. PICK p \in Nat, q \in Nat, r \in 0 .. MaxLogs - 1 :
        k - 1 = p * MaxLogs + r /\ n - 1 = q * MaxLogs + r
  <2> DEFINE r == LineOf(k)
             p == (k - 1) \div MaxLogs
             q == (n - 1) \div MaxLogs
  <2>1. p \in Nat /\ r \in 0 .. MaxLogs - 1 /\ k - 1 = p * MaxLogs + r
    BY <1>1, Quotient DEF LineOf
  <2>2. q \in Nat /\ n - 1 = q * MaxLogs + r
    BY <1>1, Quotient DEF LineOf
  <2> HIDE DEF p, q, r
  <2> QED
    BY <2>1, <2>2
<1>3. p * MaxLogs \in Nat /\ q * MaxLogs \in Nat
  BY <1>1
<1>4. p < q
  <2>1. ~ (p = q)
    BY <1>2, <1>3
  <2>2. ~ (q < p)
    <3> SUFFICES ASSUME q < p PROVE FALSE
      OBVIOUS
    <3>1. q * MaxLogs + MaxLogs <= p * MaxLogs
      BY <1>1, Multiples
    <3> QED
      BY <1>1, <1>2, <1>3, <3>1
  <2> QED
    BY <2>1, <2>2
<1>5. p * MaxLogs + MaxLogs <= q * MaxLogs
  BY <1>1, <1>4, Multiples
<1> QED
  BY <1>1, <1>2, <1>3, <1>5

\* Number(i) is the last message that went to line i.
LEMMA NumberIs ==
  ASSUME NEW i \in Lines, log_count \in Nat, Written(i)
  PROVE  /\ Number(i) \in 1 .. log_count
         /\ Number(i) + MaxLogs > log_count
         /\ LineOf(Number(i)) = i
<1>1. MaxLogs \in Nat \ {0} /\ i \in Nat /\ i < MaxLogs /\ i < log_count
  BY LoggerAssumption DEF Lines, Written
<1>2. ASSUME NEW q \in Nat
      PROVE  (q * MaxLogs + (i + 1)) % MaxLogs = IF i + 1 < MaxLogs THEN i + 1 ELSE 0
  <2>0. q * MaxLogs \in Nat /\ (q + 1) * MaxLogs = q * MaxLogs + MaxLogs
    BY <1>1
  <2>1. CASE i + 1 < MaxLogs
    <3>1. i + 1 \in 0 .. MaxLogs - 1
      BY <1>1, <2>1
    <3> QED
      BY <1>1, <2>1, <3>1, QuotientOf
  <2>2. CASE ~ (i + 1 < MaxLogs)
    <3>1. 0 \in 0 .. MaxLogs - 1 /\ q * MaxLogs + (i + 1) = (q + 1) * MaxLogs + 0 /\ q + 1 \in Nat
      BY <1>1, <2>0, <2>2
    <3>2. ((q + 1) * MaxLogs + 0) % MaxLogs = 0
      BY <1>1, <3>1, QuotientOf
    <3> QED
      BY <2>2, <3>1, <3>2
  <2> QED
    BY <2>1, <2>2
<1>3. (i + 1) % MaxLogs = IF i + 1 < MaxLogs THEN i + 1 ELSE 0
  <2>1. 0 * MaxLogs + (i + 1) = i + 1
    BY <1>1
  <2> QED
    BY <1>2, <2>1
<1>4. \E k \in 1 .. log_count : k % MaxLogs = (i + 1) % MaxLogs /\ k + MaxLogs > log_count
  <2> DEFINE d == log_count - (i + 1)
  <2>1. d \in Nat
    BY <1>1
  <2>2. PICK q \in Nat, r \in 0 .. MaxLogs - 1 : d = q * MaxLogs + r
    BY <1>1, <2>1, Quotient
  <2>3. q * MaxLogs \in Nat
    BY <1>1
  <2> DEFINE k == q * MaxLogs + (i + 1)
  <2>4. k \in 1 .. log_count /\ k + MaxLogs > log_count
    BY <1>1, <2>2, <2>3
  <2>5. k % MaxLogs = (i + 1) % MaxLogs
    BY <1>2, <1>3
  <2> HIDE DEF k
  <2> QED
    BY <2>4, <2>5
<1> DEFINE n == Number(i)
<1>5. n \in 1 .. log_count /\ n % MaxLogs = (i + 1) % MaxLogs /\ n + MaxLogs > log_count
  BY <1>4 DEF Number
<1> HIDE DEF n
<1>6. LineOf(n + 1) = n % MaxLogs
  BY <1>5, NextLineOf
<1>7. LineOf(n) = i
  <2>1. n \in Nat \ {0}
    BY <1>5
  <2>2. /\ LineOf(n) \in 0 .. MaxLogs - 1
        /\ LineOf(n + 1) = IF LineOf(n) + 1 < MaxLogs THEN LineOf(n) + 1 ELSE 0
    BY <2>1, LineOfType, NextLineOf DEF Lines
  <2> QED
    BY <1>1, <1>3, <1>5, <1>6, <2>2
<1> QED
  BY <1>5, <1>7 DEF n

-----------------------------------------------------------------------------
(* The layout of the memory.                                               *)

\* Line i lies in the memory, behind the sector buffer, and ends before the next.
LEMMA LineBytes ==
  ASSUME NEW i \in Lines, NEW o \in 0 .. LineSize - 1
  PROVE  /\ LineAddress(i) \in Nat /\ LineAddress(i) >= SectorSize
         /\ LineAddress(i) + o \in Memory
         /\ LineAddress(i) + o >= SectorSize
<1>1. /\ MaxLogs \in Nat \ {0} /\ LineSize \in Nat \ {0} /\ SectorSize \in Nat \ {0}
      /\ i \in Nat /\ i < MaxLogs
  BY LoggerAssumption, LayoutAssumption DEF Lines
<1>2. i * LineSize + LineSize <= MaxLogs * LineSize /\ i * LineSize \in Nat
      /\ MaxLogs * LineSize \in Nat
  BY <1>1, Multiples
<1> DEFINE a == i * LineSize
           b == MaxLogs * LineSize
<1> HIDE DEF a, b
<1>3. a + LineSize <= b /\ a \in Nat /\ b \in Nat
  BY <1>2 DEF a, b
<1>4. /\ SectorSize + a \in Nat /\ SectorSize + a >= SectorSize
      /\ SectorSize + a + o \in 0 .. SectorSize + b - 1
      /\ SectorSize + a + o >= SectorSize
  BY <1>1, <1>3
<1> QED
  BY <1>4 DEF LineAddress, Memory, a, b

LEMMA LinesDisjoint ==
  ASSUME NEW i \in Lines, NEW h \in Lines, i # h,
         NEW o \in 0 .. LineSize - 1, NEW p \in 0 .. LineSize - 1
  PROVE  LineAddress(i) + o # LineAddress(h) + p
<1> SUFFICES ASSUME LineAddress(i) + o = LineAddress(h) + p
             PROVE  FALSE
  OBVIOUS
<1>1. LineSize \in Nat \ {0} /\ SectorSize \in Nat \ {0} /\ i \in Nat /\ h \in Nat
  BY LoggerAssumption, LayoutAssumption DEF Lines
<1>2. i * LineSize \in Nat /\ h * LineSize \in Nat
  BY <1>1
<1>3. i * LineSize + o = h * LineSize + p
  BY <1>1, <1>2 DEF LineAddress
<1> QED
  BY <1>1, <1>3, CutOnce

LEMMA EntryBytes ==
  ASSUME NEW i \in Slots, NEW o \in Fields
  PROVE  /\ i * EntrySize + o \in Table /\ i * EntrySize + o \in Memory
         /\ (i * EntrySize + o) \div EntrySize = i
         /\ (i * EntrySize + o) % EntrySize = o
<1>1. EntrySize \in Nat \ {0} /\ MaxFiles \in Nat \ {0} /\ i \in Nat /\ i < MaxFiles
      /\ o \in 0 .. EntrySize - 1
  BY LayoutAssumption DEF Slots, Fields
<1>2. i * EntrySize + EntrySize <= MaxFiles * EntrySize /\ i * EntrySize \in Nat
      /\ MaxFiles * EntrySize \in Nat
  BY <1>1, Multiples
<1>3. i * EntrySize + o \in Table
  BY <1>1, <1>2 DEF Table
<1> QED
  BY <1>1, <1>3, QuotientOf, LayoutAssumption

LEMMA TableBytes ==
  ASSUME NEW a \in Table
  PROVE  /\ a \div EntrySize \in Slots /\ a % EntrySize \in Fields
         /\ a = (a \div EntrySize) * EntrySize + (a % EntrySize)
<1>1. EntrySize \in Nat \ {0} /\ MaxFiles \in Nat \ {0} /\ a \in Nat /\ a < MaxFiles * EntrySize
      /\ MaxFiles * EntrySize \in Nat
  BY LayoutAssumption DEF Table
<1>2. PICK q \in Nat, r \in 0 .. EntrySize - 1 :
        q = a \div EntrySize /\ r = a % EntrySize /\ a = q * EntrySize + r
  BY <1>1, Quotient
<1>3. q < MaxFiles
  <2> SUFFICES ASSUME ~ (q < MaxFiles) PROVE FALSE
    OBVIOUS
  <2>1. q * EntrySize \in Nat
    BY <1>1, <1>2
  <2>2. CASE q = MaxFiles
    BY <1>1, <1>2, <2>1, <2>2
  <2>3. CASE MaxFiles < q
    <3>1. MaxFiles * EntrySize + EntrySize <= q * EntrySize
      BY <1>1, <1>2, <2>3, Multiples
    <3> QED
      BY <1>1, <1>2, <2>1, <3>1
  <2> QED
    BY <1>1, <1>2, <2>2, <2>3
<1>4. q \in Slots /\ r \in Fields /\ a = q * EntrySize + r
  BY <1>1, <1>2, <1>3 DEF Slots, Fields
<1> QED
  BY <1>2, <1>4, Zenon

\* An entry that fits in the sector has no byte behind it.
LEMMA BehindSector ==
  ASSUME NEW a \in Table, a >= SectorSize, InSector(a \div EntrySize)
  PROVE  FALSE
<1>1. PICK q \in Slots, r \in Fields :
        q = a \div EntrySize /\ r = a % EntrySize /\ a = q * EntrySize + r
  BY TableBytes
<1>2. (q + 1) * EntrySize <= SectorSize
  BY <1>1 DEF InSector
<1>3. EntrySize \in Nat \ {0} /\ SectorSize \in Nat \ {0} /\ q \in Nat /\ r \in 0 .. EntrySize - 1
  BY <1>1, LayoutAssumption DEF Slots, Fields
<1>4. (q + 1) * EntrySize = q * EntrySize + EntrySize /\ q * EntrySize \in Nat
  BY <1>3
<1> QED
  BY <1>1, <1>2, <1>3, <1>4

LEMMA LeastElement ==
  ASSUME NEW S \in SUBSET Slots, S # {}
  PROVE  FirstOf(S) \in S
<1>1. S \subseteq Nat
  BY LayoutAssumption DEF Slots
<1> DEFINE R == OpToRel(<, Nat)
<1>2. IsWellFoundedOn(R, Nat)
  BY NatLessThanWellFounded
<1>3. ASSUME NEW x \in Nat, NEW y \in Nat, y < x
      PROVE  <<y, x>> \in R
  BY <1>3 DEF OpToRel
<1> HIDE DEF R
<1>4. PICK x \in S : \A y \in S : ~ (<<y, x>> \in R)
  BY <1>1, <1>2, WFMin
<1>5. ASSUME NEW y \in S
      PROVE  x <= y
  <2>1. x \in Nat /\ y \in Nat
    BY <1>1
  <2>2. ~ (y < x)
    BY <1>3, <1>4, <2>1
  <2> QED
    BY <2>1, <2>2
<1> QED
  BY <1>5 DEF FirstOf

-----------------------------------------------------------------------------
(* Messages in memory.                                                     *)

\* Line i of the memory mm holds the text w and its NUL.
Shows(mm, i, w) ==
  /\ \A j \in 1 .. Len(w) : mm[LineAddress(i) + j - 1] = w[j]
  /\ mm[LineAddress(i) + Len(w)] = NUL

\* Two memories agree on line i.
SameLine(m1, m2, i) ==
  \A o \in 0 .. LineSize - 1 : m1[LineAddress(i) + o] = m2[LineAddress(i) + o]

\* What a line can hold.
IsText(w) == w \in Seq(Chars) /\ Len(w) <= LineSize - 1

LEMMA LineText ==
  ASSUME log_buffer \in [Lines -> Messages \cup {NoMessage}], NEW i \in Lines
  PROVE  IsText(log_buffer[i])
<1>1. CASE log_buffer[i] \in Messages
  BY <1>1, ByteAssumption DEF IsText
<1>2. CASE log_buffer[i] = <<>>
  BY <1>2, LayoutAssumption DEF IsText
<1> QED
  BY <1>1, <1>2, ByteAssumption

LEMMA MessageText ==
  ASSUME NEW m \in Messages
  PROVE  IsText(m)
  BY ByteAssumption DEF IsText

LEMMA SameLineShows ==
  ASSUME NEW m1, NEW m2, NEW i \in Lines, NEW w, IsText(w),
         SameLine(m1, m2, i), Shows(m1, i, w)
  PROVE  Shows(m2, i, w)
<1>1. Len(w) \in 0 .. LineSize - 1 /\ LineSize \in Nat /\ LineAddress(i) \in Nat
  <2>1. 0 \in 0 .. LineSize - 1
    BY LayoutAssumption
  <2> QED
    BY <2>1, LineBytes, LayoutAssumption DEF IsText
<1>2. ASSUME NEW j \in 1 .. Len(w)
      PROVE  m2[LineAddress(i) + j - 1] = w[j]
  <2>1. j - 1 \in 0 .. LineSize - 1 /\ LineAddress(i) + (j - 1) = LineAddress(i) + j - 1
    BY <1>1
  <2> QED
    BY <2>1 DEF SameLine, Shows
<1>3. m2[LineAddress(i) + Len(w)] = NUL
  BY <1>1 DEF SameLine, Shows
<1> QED
  BY <1>2, <1>3 DEF Shows

LEMMA PutType ==
  ASSUME NEW i \in Lines, NEW m \in Messages, NEW mm \in [Memory -> Bytes]
  PROVE  PutMessage(i, m, mm) \in [Memory -> Bytes]
<1>1. m \in Seq(Chars) /\ LineAddress(i) \in Nat
  <2>1. 0 \in 0 .. LineSize - 1
    BY LayoutAssumption
  <2> QED
    BY <2>1, LineBytes, ByteAssumption
<1>2. ASSUME NEW a \in Memory, a \in LineAddress(i) .. LineAddress(i) + Len(m) - 1
      PROVE  m[a - LineAddress(i) + 1] \in Bytes
  <2>1. a - LineAddress(i) + 1 \in 1 .. Len(m)
    BY <1>1, <1>2
  <2> QED
    BY <1>1, <2>1 DEF Bytes
<1> QED
  BY <1>2 DEF PutMessage, Bytes

\* klog writes its message and NUL to the line, and nothing else.
LEMMA PutShows ==
  ASSUME NEW i \in Lines, NEW m \in Messages, NEW mm
  PROVE  Shows(PutMessage(i, m, mm), i, m)
<1>1. /\ m \in Seq(Chars) /\ Len(m) \in 0 .. LineSize - 1 /\ LineSize \in Nat
      /\ LineAddress(i) \in Nat
  <2>1. 0 \in 0 .. LineSize - 1
    BY LayoutAssumption
  <2> QED
    BY <2>1, LineBytes, ByteAssumption, LayoutAssumption
<1>2. ASSUME NEW j \in 1 .. Len(m)
      PROVE  PutMessage(i, m, mm)[LineAddress(i) + j - 1] = m[j]
  <2> DEFINE a == LineAddress(i) + j - 1
  <2>1. j - 1 \in 0 .. LineSize - 1 /\ a = LineAddress(i) + (j - 1)
    BY <1>1
  <2>2. a \in Memory
    BY <2>1, LineBytes
  <2>3. /\ a # LineAddress(i) + Len(m) /\ a \in LineAddress(i) .. LineAddress(i) + Len(m) - 1
        /\ a - LineAddress(i) + 1 = j
    BY <1>1
  <2> HIDE DEF a
  <2>4. PutMessage(i, m, mm)[a] = m[j]
    BY <2>2, <2>3 DEF PutMessage
  <2> QED
    BY <2>4 DEF a
<1>3. PutMessage(i, m, mm)[LineAddress(i) + Len(m)] = NUL
  BY <1>1, LineBytes DEF PutMessage
<1> QED
  BY <1>2, <1>3 DEF Shows

LEMMA PutElsewhere ==
  ASSUME NEW i \in Lines, NEW h \in Lines, i # h, NEW m \in Messages, NEW mm
  PROVE  SameLine(mm, PutMessage(h, m, mm), i)
<1> SUFFICES ASSUME NEW o \in 0 .. LineSize - 1
             PROVE  mm[LineAddress(i) + o] = PutMessage(h, m, mm)[LineAddress(i) + o]
  BY DEF SameLine
<1>1. /\ Len(m) \in 0 .. LineSize - 1 /\ LineSize \in Nat
      /\ LineAddress(h) \in Nat /\ LineAddress(i) \in Nat /\ LineAddress(i) + o \in Memory
  <2>1. 0 \in 0 .. LineSize - 1
    BY LayoutAssumption
  <2>2. LineAddress(h) \in Nat /\ LineAddress(i) \in Nat /\ LineAddress(i) + o \in Memory
    BY <2>1, LineBytes
  <2>3. Len(m) \in 0 .. LineSize - 1
    BY ByteAssumption, LayoutAssumption
  <2> QED
    BY <2>2, <2>3, LayoutAssumption
<1>2. LineAddress(i) + o # LineAddress(h) + Len(m)
  BY <1>1, LinesDisjoint
<1>3. LineAddress(i) + o \notin LineAddress(h) .. LineAddress(h) + Len(m) - 1
  <2> SUFFICES ASSUME LineAddress(i) + o \in LineAddress(h) .. LineAddress(h) + Len(m) - 1
               PROVE  FALSE
    OBVIOUS
  <2>1. PICK p \in 0 .. LineSize - 1 : LineAddress(i) + o = LineAddress(h) + p
    <3> DEFINE p == LineAddress(i) + o - LineAddress(h)
    <3>1. p \in 0 .. LineSize - 1 /\ LineAddress(i) + o = LineAddress(h) + p
      BY <1>1
    <3> HIDE DEF p
    <3> QED
      BY <3>1
  <2> QED
    BY <2>1, LinesDisjoint
<1> QED
  BY <1>1, <1>2, <1>3 DEF PutMessage

\* terminal_writestring prints up to the first NUL: the text, if the line shows it.
LEMMA ShownIsPrinted ==
  ASSUME mem \in [Memory -> Bytes], NEW i \in Lines, NEW w, IsText(w), Shows(mem, i, w)
  PROVE  TextAt(i) = w
<1>1. /\ w \in Seq(Chars) /\ Len(w) \in 0 .. LineSize - 1 /\ LineSize \in Nat
      /\ LineAddress(i) \in Nat /\ LineAddress(i) + Len(w) \in Memory
  <2>1. 0 \in 0 .. LineSize - 1 /\ Len(w) \in 0 .. LineSize - 1
    BY LayoutAssumption DEF IsText
  <2> QED
    BY <2>1, LineBytes, LayoutAssumption DEF IsText
<1> DEFINE ends == {a \in Memory : a >= LineAddress(i) /\ mem[a] = NUL}
           e    == LineAddress(i) + Len(w)
<1>2. e \in ends
  BY <1>1 DEF Shows
<1>3. ASSUME NEW a \in ends
      PROVE  e <= a
  <2> SUFFICES ASSUME ~ (e <= a) PROVE FALSE
    OBVIOUS
  <2>1. a \in Int /\ a >= LineAddress(i) /\ mem[a] = NUL
    BY DEF Memory
  <2> DEFINE j == a - LineAddress(i) + 1
  <2>2. j \in 1 .. Len(w) /\ LineAddress(i) + j - 1 = a
    BY <1>1, <2>1
  <2> HIDE DEF j
  <2>3. mem[a] = w[j] /\ w[j] \in Chars
    BY <1>1, <2>2 DEF Shows
  <2> QED
    BY <2>1, <2>3, ByteAssumption
<1>4. ASSUME NEW a \in ends, \A b \in ends : a <= b
      PROVE  a = e
  <2>1. a <= e /\ e <= a
    BY <1>2, <1>3, <1>4
  <2>2. a \in Int /\ e \in Int
    BY <1>1 DEF Memory
  <2> QED
    BY <2>1, <2>2
<1> HIDE DEF ends, e
<1>5. (CHOOSE a \in ends : \A b \in ends : a <= b) = e
  BY <1>2, <1>3, <1>4
<1>6. e - LineAddress(i) = Len(w)
  BY <1>1 DEF e
<1>7. TextAt(i) = [j \in 1 .. Len(w) |-> mem[LineAddress(i) + j - 1]]
  <2>1. TextAt(i) = [j \in 1 .. (CHOOSE a \in ends : \A b \in ends : a <= b) - LineAddress(i)
                       |-> mem[LineAddress(i) + j - 1]]
    BY DEF TextAt, ends
  <2> QED
    BY <1>5, <1>6, <2>1
<1>8. TextAt(i) = [j \in 1 .. Len(w) |-> w[j]]
  BY <1>7 DEF Shows
<1> QED
  BY <1>1, <1>8

-----------------------------------------------------------------------------
(* The inductive invariant.                                                *)

RingOK ==
  /\ MemoryTypeOK
  /\ log_head = LineOf(log_count + 1)
  /\ ~ loaded => saved_at = 0 /\ log_count <= Len(BootMessages)
  /\ loaded => log_count > Len(BootMessages)

LineShown(i) == Shows(mem, i, log_buffer[i])

\* By the numbers of the messages: what is still in the ring, and was logged since
\* the last save or behind the table, stands in the memory.
Kept ==
  \A k \in 1 .. log_count :
    (k + MaxLogs > log_count /\ (k > saved_at \/ BehindTable(LineOf(k)))) => LineShown(LineOf(k))

\* A save now would write to line i what stands there.
WritesBack(i) == SameLine(mem, Image(table, mem), i)

BootKept ==
  (loaded /\ \A i \in touched : InSector(i)) =>
    \A i \in Lines :
      (i < Len(BootMessages) /\ log_count <= MaxLogs + i) => LineShown(i) /\ WritesBack(i)

MemoryInv == RingOK /\ Kept /\ BootKept /\ NoPhantomOnDisk

-----------------------------------------------------------------------------
(* klog.                                                                   *)

LEMMA LogStep ==
  ASSUME RingOK, NEW m \in Messages, NEW mm, Log(m, mm)
  PROVE  /\ log_head \in Lines
         /\ log_count' = log_count + 1
         /\ log_head' = LineOf(log_count' + 1)
         /\ TypeOK'
         /\ log_buffer'[log_head] = m /\ Shows(mem', log_head, m)
         /\ \A i \in Lines : i # log_head =>
              log_buffer'[i] = log_buffer[i] /\ SameLine(mm, mem', i)
<1>1. /\ log_head = LineOf(log_count + 1) /\ log_head \in Lines
      /\ log_count \in 1 .. MaxWritten /\ written \in Seq(Messages)
      /\ log_buffer \in [Lines -> Messages \cup {NoMessage}]
  BY DEF RingOK, MemoryTypeOK, TypeOK
<1>2. /\ log_count < MaxWritten /\ log_count' = log_count + 1
      /\ log_buffer' = [log_buffer EXCEPT ![log_head] = m]
      /\ log_head' = NextLine(log_head) /\ written' = Append(written, m)
      /\ mem' = PutMessage(log_head, m, mm)
  BY DEF Log, Klog
<1>3. PICK n \in Nat \ {0} : n = log_count
  BY <1>1
<1>4. log_head' = LineOf(n + 1 + 1)
  BY <1>1, <1>2, <1>3, NextLineOf
<1>5. log_head' \in Lines /\ log_head' = LineOf(log_count' + 1)
  BY <1>1, <1>2, <1>3, <1>4, NextLineType
<1>6. TypeOK'
  <2>1. log_count' \in 1 .. MaxWritten
    BY <1>1, <1>2, LoggerAssumption
  <2> QED
    BY <1>1, <1>2, <1>5, <2>1 DEF TypeOK
<1>7. Shows(mem', log_head, m)
  BY <1>1, <1>2, PutShows
<1>8. \A i \in Lines : i # log_head => SameLine(mm, mem', i)
  BY <1>1, <1>2, PutElsewhere
<1> QED
  BY <1>1, <1>2, <1>5, <1>6, <1>7, <1>8

\* A message that stays in the ring is not on the line that is written next.
LEMMA OtherLine ==
  ASSUME RingOK, NEW k \in 1 .. log_count, k + MaxLogs > log_count + 1
  PROVE  LineOf(k) \in Lines /\ LineOf(k) # log_head
<1>1. PICK n \in Nat \ {0} : n = log_count + 1 /\ k \in Nat \ {0} /\ k < n /\ n < k + MaxLogs
  <2>1. log_count \in Nat /\ MaxLogs \in Nat
    BY LoggerAssumption DEF RingOK, MemoryTypeOK, TypeOK
  <2> DEFINE n == log_count + 1
  <2>2. n \in Nat \ {0} /\ k \in Nat \ {0} /\ k < n /\ n < k + MaxLogs
    BY <2>1
  <2> HIDE DEF n
  <2>3. n = log_count + 1
    BY DEF n
  <2> QED
    BY <2>2, <2>3
<1>2. k \in Nat \ {0} /\ k < n /\ n < k + MaxLogs
  BY <1>1
<1>3. LineOf(k) # LineOf(n)
  BY <1>2, LineOfDistinct
<1> QED
  BY <1>1, <1>2, <1>3, LineOfType DEF RingOK

LEMMA FirstLines ==
  ASSUME NEW i \in Lines
  PROVE  LineOf(i + 1) = i
<1>1. i \in Nat /\ i \in 0 .. MaxLogs - 1 /\ MaxLogs \in Nat \ {0}
  BY LoggerAssumption DEF Lines
<1>2. (0 * MaxLogs + i) % MaxLogs = i
  BY <1>1, QuotientOf
<1>3. i % MaxLogs = i
  <2>1. 0 * MaxLogs + i = i
    BY <1>1
  <2> QED
    BY <1>2, <2>1
<1>4. PICK k \in Nat \ {0} : i + 1 = k /\ k - 1 = i
  BY <1>1
<1>5. LineOf(k) = (k - 1) % MaxLogs
  BY DEF LineOf
<1> QED
  BY <1>3, <1>4, <1>5, Zenon

LEMMA OtherBootLine ==
  ASSUME RingOK, NEW i \in Lines, i < log_count, log_count + 1 <= MaxLogs + i
  PROVE  i # log_head
<1>1. i + 1 \in 1 .. log_count /\ (i + 1) + MaxLogs > log_count + 1
  BY LoggerAssumption DEF Lines, RingOK, MemoryTypeOK, TypeOK
<1> QED
  BY <1>1, OtherLine, FirstLines

\* klog on a memory that shows the lines it must show.
LEMMA LogKept ==
  ASSUME RingOK, NEW m \in Messages, NEW mm, Log(m, mm),
         \A k \in 1 .. log_count :
           (k + MaxLogs > log_count + 1 /\ (k > saved_at' \/ BehindTable(LineOf(k))))
             => Shows(mm, LineOf(k), log_buffer[LineOf(k)])
  PROVE  Kept'
<1>1. /\ log_head \in Lines /\ log_count' = log_count + 1 /\ log_head = LineOf(log_count + 1)
      /\ log_buffer'[log_head] = m /\ Shows(mem', log_head, m)
      /\ \A i \in Lines : i # log_head =>
           log_buffer'[i] = log_buffer[i] /\ SameLine(mm, mem', i)
  BY LogStep DEF RingOK
<1> SUFFICES ASSUME NEW k \in 1 .. log_count', k + MaxLogs > log_count',
                    k > saved_at' \/ BehindTable(LineOf(k))
             PROVE  Shows(mem', LineOf(k), log_buffer'[LineOf(k)])
  BY DEF Kept, LineShown
<1>2. log_count \in Nat
  BY DEF RingOK, MemoryTypeOK, TypeOK
<1>3. CASE k = log_count + 1
  BY <1>1, <1>3
<1>4. CASE k # log_count + 1
  <2>1. k \in 1 .. log_count /\ k + MaxLogs > log_count + 1
    BY <1>1, <1>2, <1>4
  <2>2. LineOf(k) \in Lines /\ LineOf(k) # log_head
    BY <2>1, OtherLine
  <2>3. IsText(log_buffer[LineOf(k)])
    BY <2>2, LineText DEF RingOK, MemoryTypeOK, TypeOK
  <2>4. Shows(mm, LineOf(k), log_buffer[LineOf(k)])
    BY <2>1
  <2> QED
    BY <1>1, <2>2, <2>3, <2>4, SameLineShows
<1> QED
  BY <1>3, <1>4

LEMMA LogBootLine ==
  ASSUME RingOK, NEW m \in Messages, NEW mm, Log(m, mm),
         NEW i \in Lines, i < log_count, log_count + 1 <= MaxLogs + i,
         Shows(mm, i, log_buffer[i]), NEW tbl, SameLine(mm, Image(tbl, mm), i)
  PROVE  Shows(mem', i, log_buffer'[i]) /\ SameLine(mem', Image(tbl, mem'), i)
<1>1. i # log_head
  BY OtherBootLine
<1>2. log_buffer'[i] = log_buffer[i] /\ SameLine(mm, mem', i)
  BY <1>1, LogStep
<1>3. Shows(mem', i, log_buffer[i])
  BY <1>2, LineText, SameLineShows DEF RingOK, MemoryTypeOK, TypeOK
<1>4. SameLine(mem', Image(tbl, mem'), i)
  <2> SUFFICES ASSUME NEW o \in 0 .. LineSize - 1
               PROVE  mem'[LineAddress(i) + o] = Image(tbl, mem')[LineAddress(i) + o]
    BY DEF SameLine
  <2> DEFINE a == LineAddress(i) + o
  <2>1. a \in Memory
    BY LineBytes
  <2>2. mem'[a] = mm[a] /\ mm[a] = Image(tbl, mm)[a]
    BY <1>2 DEF SameLine
  <2> HIDE DEF a
  <2>3. mem'[a] = Image(tbl, mem')[a]
    BY <2>1, <2>2 DEF Image
  <2> QED
    BY <2>3 DEF a
<1> QED
  BY <1>2, <1>3, <1>4

-----------------------------------------------------------------------------
(* The table.                                                              *)

LEMMA SectorInMemory == Sector \subseteq Memory
<1>1. MaxLogs * LineSize \in Nat /\ SectorSize \in Nat
  BY LoggerAssumption, LayoutAssumption
<1> QED
  BY <1>1 DEF Sector, Memory

LEMMA ImageType ==
  ASSUME NEW tbl \in [Slots -> Entries], NEW mm \in [Memory -> Bytes]
  PROVE  /\ Image(tbl, mm) \in [Memory -> Bytes]
         /\ [a \in Sector |-> Image(tbl, mm)[a]] \in [Sector -> Bytes]
<1>1. ASSUME NEW a \in Table
      PROVE  tbl[a \div EntrySize][a % EntrySize] \in Bytes
  BY TableBytes DEF Entries
<1>2. Image(tbl, mm) \in [Memory -> Bytes]
  BY <1>1 DEF Image
<1> QED
  BY <1>2, SectorInMemory

LEMMA TableFromType ==
  ASSUME NEW mm \in [Memory -> Bytes]
  PROVE  TableFrom(mm) \in [Slots -> Entries]
  BY EntryBytes DEF TableFrom, Entries

\* A save leaves the lines behind the table alone.
LEMMA SaveBehind ==
  ASSUME NEW tbl, NEW mm, NEW i \in Lines, BehindTable(i)
  PROVE  SameLine(mm, Image(tbl, mm), i)
<1> SUFFICES ASSUME NEW o \in 0 .. LineSize - 1
             PROVE  mm[LineAddress(i) + o] = Image(tbl, mm)[LineAddress(i) + o]
  BY DEF SameLine
<1>1. MaxFiles * EntrySize \in Nat
  BY LayoutAssumption
<1>2. LineAddress(i) + o \in Memory /\ LineAddress(i) \in Nat
  BY LineBytes
<1>3. LineAddress(i) + o \notin Table
  BY <1>1, <1>2 DEF Table, BehindTable
<1> QED
  BY <1>2, <1>3 DEF Image

\* A save of a table that differs only in entries that fit in the sector.
LEMMA SaveInSector ==
  ASSUME NEW tbl, NEW tbl2, NEW mm, NEW i \in Lines,
         \A q \in Slots : ~ InSector(q) => tbl2[q] = tbl[q],
         SameLine(mm, Image(tbl, mm), i)
  PROVE  SameLine(mm, Image(tbl2, mm), i)
<1> SUFFICES ASSUME NEW o \in 0 .. LineSize - 1
             PROVE  mm[LineAddress(i) + o] = Image(tbl2, mm)[LineAddress(i) + o]
  BY DEF SameLine
<1> DEFINE a == LineAddress(i) + o
<1>1. a \in Memory /\ a >= SectorSize /\ mm[a] = Image(tbl, mm)[a]
  BY LineBytes DEF SameLine
<1> HIDE DEF a
<1>2. CASE a \in Table
  <2>1. a \div EntrySize \in Slots /\ ~ InSector(a \div EntrySize)
    BY <1>1, <1>2, TableBytes, BehindSector
  <2>2. tbl2[a \div EntrySize] = tbl[a \div EntrySize]
    BY <2>1
  <2> QED
    BY <1>1, <1>2, <2>2 DEF Image, a
<1>3. CASE a \notin Table
  BY <1>1, <1>3 DEF Image, a
<1> QED
  BY <1>2, <1>3

\* A second save writes what the first one did.
LEMMA SaveTwice ==
  ASSUME NEW tbl, NEW mm, NEW i \in Lines
  PROVE  SameLine(Image(tbl, mm), Image(tbl, Image(tbl, mm)), i)
<1> SUFFICES ASSUME NEW o \in 0 .. LineSize - 1
             PROVE  Image(tbl, mm)[LineAddress(i) + o]
                      = Image(tbl, Image(tbl, mm))[LineAddress(i) + o]
  BY DEF SameLine
<1> QED
  BY LineBytes DEF Image

\* What fs_init reads from the lines, a save writes back.
LEMMA LoadWritesBack ==
  ASSUME NEW mm, NEW i \in Lines
  PROVE  SameLine(mm, Image(TableFrom(mm), mm), i)
<1> SUFFICES ASSUME NEW o \in 0 .. LineSize - 1
             PROVE  mm[LineAddress(i) + o] = Image(TableFrom(mm), mm)[LineAddress(i) + o]
  BY DEF SameLine
<1> DEFINE a == LineAddress(i) + o
<1>1. a \in Memory
  BY LineBytes
<1> HIDE DEF a
<1>2. ASSUME a \in Table
      PROVE  TableFrom(mm)[a \div EntrySize][a % EntrySize] = mm[a]
  <2>1. PICK q \in Slots, r \in Fields :
          q = a \div EntrySize /\ r = a % EntrySize /\ a = q * EntrySize + r
    BY <1>2, TableBytes
  <2>2. TableFrom(mm)[q][r] = mm[q * EntrySize + r]
    BY DEF TableFrom
  <2> QED
    BY <2>1, <2>2, Zenon
<1>3. mm[a] = Image(TableFrom(mm), mm)[a]
  BY <1>1, <1>2 DEF Image
<1> QED
  BY <1>3 DEF a

\* No entry of a table, and none of sector 0, whose used flag lies in the sector
\* has a name outside C.
Clean(tbl, C) ==
  \A i \in Slots :
    (i * EntrySize + UsedAt \in Sector /\ tbl[i][UsedAt] # NUL) => tbl[i][NameAt] \in C
CleanDisk(d, C) ==
  \A i \in Slots :
    (i * EntrySize + UsedAt \in Sector /\ d[i * EntrySize + UsedAt] # NUL)
      => d[i * EntrySize + NameAt] \in C

LEMMA PhantomIs ==
  NoPhantomOnDisk <=> (loaded => Clean(table, created)) /\ CleanDisk(dsector, created)
  BY DEF NoPhantomOnDisk, Clean, CleanDisk, Used

LEMMA FieldBytes ==
  ASSUME NEW i \in Slots, i * EntrySize + UsedAt \in Sector
  PROVE  /\ UsedAt \in Fields /\ NameAt \in Fields /\ NameAt # UsedAt
         /\ i * EntrySize + NameAt \in Sector
<1>1. /\ NameAt \in 0 .. EntrySize - 1 /\ UsedAt \in 0 .. EntrySize - 1 /\ SizeAt \in 0 .. EntrySize - 1
      /\ NameAt < SizeAt /\ SizeAt < UsedAt
      /\ EntrySize \in Nat /\ SectorSize \in Nat /\ i \in Nat
  BY LayoutAssumption DEF Fields, Slots
<1>2. i * EntrySize \in Nat
  BY <1>1
<1> QED
  BY <1>1, <1>2 DEF Sector, Fields

LEMMA SavePhantom ==
  ASSUME NEW tbl, NEW mm, NEW C, Clean(tbl, C)
  PROVE  CleanDisk([a \in Sector |-> Image(tbl, mm)[a]], C)
<1> SUFFICES ASSUME NEW i \in Slots, i * EntrySize + UsedAt \in Sector,
                    Image(tbl, mm)[i * EntrySize + UsedAt] # NUL
             PROVE  Image(tbl, mm)[i * EntrySize + NameAt] \in C
  BY FieldBytes DEF CleanDisk
<1>1. UsedAt \in Fields /\ NameAt \in Fields
  BY FieldBytes
<1>2. ASSUME NEW o \in Fields
      PROVE  Image(tbl, mm)[i * EntrySize + o] = tbl[i][o]
  BY EntryBytes DEF Image
<1> QED
  BY <1>1, <1>2 DEF Clean

LEMMA LoadPhantom ==
  ASSUME NEW d, NEW mm, NEW C, CleanDisk(d, C), \A a \in Sector : mm[a] = d[a]
  PROVE  Clean(TableFrom(mm), C)
<1> SUFFICES ASSUME NEW i \in Slots, i * EntrySize + UsedAt \in Sector,
                    TableFrom(mm)[i][UsedAt] # NUL
             PROVE  TableFrom(mm)[i][NameAt] \in C
  BY DEF Clean
<1>1. /\ TableFrom(mm)[i][UsedAt] = mm[i * EntrySize + UsedAt]
      /\ TableFrom(mm)[i][NameAt] = mm[i * EntrySize + NameAt]
  BY FieldBytes DEF TableFrom
<1> QED
  BY <1>1, FieldBytes DEF CleanDisk

-----------------------------------------------------------------------------
(* The state after a reset, and the steps.                                 *)

BootState ==
  /\ Init
  /\ mem = PutMessage(0, FirstMessage, [a \in Memory |-> NUL])
  /\ table = [i \in Slots |-> [o \in Fields |-> NUL]]
  /\ dsector \in [Sector -> Bytes]
  /\ loaded = FALSE
  /\ saved_at = 0
  /\ touched = {}
  /\ created \subseteq Names
  /\ CleanDisk(dsector, created)

LEMMA BootStateInv == BootState => MemoryInv
<1> SUFFICES ASSUME BootState PROVE MemoryInv
  OBVIOUS
<1>1. /\ TypeOK /\ log_count = 1 /\ log_head = NextLine(0) /\ log_buffer[0] = FirstMessage
      /\ 0 \in Lines /\ FirstMessage \in Messages
  <2>1. Inv
    BY InitInv DEF BootState
  <2>2. 0 \in Lines
    BY LoggerAssumption DEF Lines
  <2>3. log_buffer[0] = FirstMessage
    BY <2>2 DEF BootState, Init
  <2> QED
    BY <2>1, <2>2, <2>3, LoggerAssumption DEF BootState, Init, Inv
<1>2. LineOf(1) = 0
  BY <1>1, FirstLines
<1>3. log_head = LineOf(log_count + 1)
  <2>1. NextLine(LineOf(1)) = LineOf(1 + 1)
    BY NextLineOf
  <2> QED
    BY <1>1, <1>2, <2>1
<1>4. mem \in [Memory -> Bytes] /\ table \in [Slots -> Entries]
  <2>1. [a \in Memory |-> NUL] \in [Memory -> Bytes] /\ [o \in Fields |-> NUL] \in Entries
    BY DEF Bytes, Entries
  <2> QED
    BY <1>1, <2>1, PutType DEF BootState
<1>5. RingOK
  <2>1. saved_at \in 0 .. log_count /\ saved_at = 0
    BY <1>1 DEF BootState
  <2>2. MemoryTypeOK
    BY <1>1, <1>4, <2>1 DEF BootState, MemoryTypeOK
  <2>3. log_count <= Len(BootMessages)
    BY <1>1, ByteAssumption
  <2> QED
    BY <1>3, <2>1, <2>2, <2>3 DEF BootState, RingOK
<1>6. Kept
  <2>1. LineShown(0)
    BY <1>1, PutShows DEF BootState, LineShown
  <2> QED
    BY <1>1, <1>2, <2>1 DEF Kept
<1>7. BootKept /\ NoPhantomOnDisk
  BY PhantomIs DEF BootState, BootKept
<1> QED
  BY <1>5, <1>6, <1>7 DEF MemoryInv

LEMMA MemoryInitInv == MemoryInit => MemoryInv
<1> SUFFICES ASSUME MemoryInit PROVE BootState
  BY BootStateInv
<1>1. dsector \in [Sector -> Bytes] /\ created \subseteq Names
  BY DEF MemoryInit, Bytes
<1>2. CleanDisk(dsector, created)
  BY FieldBytes DEF MemoryInit, CleanDisk
<1> QED
  BY <1>1, <1>2 DEF MemoryInit, BootState

LEMMA RebootInv == MemoryInv /\ MemoryReboot => MemoryInv'
<1>1. BootState' => MemoryInv'
  BY BootStateInv, PTL
<1>2. ASSUME MemoryInv, MemoryReboot
      PROVE  BootState'
  <2>1. Init'
    BY <1>2 DEF MemoryReboot, Reboot, Init
  <2>2. CleanDisk(dsector, created)
    BY <1>2, PhantomIs DEF MemoryInv
  <2> QED
    BY <1>2, <2>1, <2>2 DEF MemoryReboot, BootState, MemoryInv, RingOK, MemoryTypeOK
<1> QED
  BY <1>1, <1>2

LEMMA MemoryKlogInv ==
  ASSUME MemoryInv, NEW m \in Messages, MemoryKlog(m)
  PROVE  MemoryInv'
<1>1. /\ Log(m, mem)
      /\ ~ loaded => log_count < Len(BootMessages)
      /\ UNCHANGED <<table, dsector, loaded, saved_at, touched, created>>
  BY DEF MemoryKlog
<1>2. /\ RingOK /\ log_head \in Lines /\ log_count' = log_count + 1
      /\ log_head' = LineOf(log_count' + 1) /\ TypeOK'
  BY <1>1, LogStep DEF MemoryInv
<1>3. /\ log_count \in Nat /\ saved_at \in 0 .. log_count /\ Len(BootMessages) \in Nat
  BY <1>2, ByteAssumption DEF RingOK, MemoryTypeOK, TypeOK
<1>4. RingOK'
  <2>1. mem' \in [Memory -> Bytes]
    BY <1>1, <1>2, PutType DEF Log, RingOK, MemoryTypeOK
  <2>2. saved_at' \in 0 .. log_count'
    BY <1>1, <1>2, <1>3
  <2>3. MemoryTypeOK'
    BY <1>1, <1>2, <2>1, <2>2 DEF RingOK, MemoryTypeOK
  <2>4. ~ loaded => log_count + 1 <= Len(BootMessages)
    BY <1>1, <1>3
  <2>5. loaded => log_count + 1 > Len(BootMessages)
    BY <1>2, <1>3 DEF RingOK
  <2> QED
    BY <1>1, <1>2, <2>3, <2>4, <2>5 DEF RingOK
<1>5. Kept'
  <2>1. \A k \in 1 .. log_count :
          (k + MaxLogs > log_count + 1 /\ (k > saved_at' \/ BehindTable(LineOf(k))))
            => Shows(mem, LineOf(k), log_buffer[LineOf(k)])
    <3> SUFFICES ASSUME NEW k \in 1 .. log_count, k + MaxLogs > log_count + 1,
                        k > saved_at' \/ BehindTable(LineOf(k))
                 PROVE  LineShown(LineOf(k))
      BY DEF LineShown
    <3>1. k + MaxLogs > log_count
      BY <1>3, LoggerAssumption
    <3> QED
      BY <1>1, <3>1 DEF MemoryInv, Kept
  <2> QED
    BY <1>1, <1>2, <2>1, LogKept
<1>6. BootKept'
  <2> SUFFICES ASSUME loaded', \A i \in touched' : InSector(i),
                      NEW i \in Lines, i < Len(BootMessages), log_count' <= MaxLogs + i
               PROVE  LineShown(i)' /\ WritesBack(i)'
    BY DEF BootKept
  <2>1. i \in Nat /\ i < log_count /\ log_count + 1 <= MaxLogs + i /\ log_count <= MaxLogs + i
    BY <1>1, <1>2, <1>3, LoggerAssumption DEF RingOK, Lines
  <2>2. LineShown(i) /\ WritesBack(i)
    BY <1>1, <2>1 DEF MemoryInv, BootKept
  <2>3. Shows(mem', i, log_buffer'[i]) /\ SameLine(mem', Image(table, mem'), i)
    BY <1>1, <1>2, <2>1, <2>2, LogBootLine DEF LineShown, WritesBack
  <2> QED
    BY <1>1, <2>3 DEF LineShown, WritesBack
<1>7. NoPhantomOnDisk'
  BY <1>1 DEF MemoryInv, NoPhantomOnDisk, Used
<1> QED
  BY <1>4, <1>5, <1>6, <1>7 DEF MemoryInv

\* fs_init: the buffer is read over, the lines are not.
LEMMA LoadTableInv ==
  ASSUME MemoryInv, LoadTable
  PROVE  MemoryInv'
<1> DEFINE mm == [a \in Memory |-> IF a \in Sector THEN dsector[a] ELSE mem[a]]
<1>1. /\ ~ loaded /\ log_count = Len(BootMessages) /\ loaded' = TRUE
      /\ table' = TableFrom(mm) /\ Log(InitMessage, mm)
      /\ UNCHANGED <<dsector, saved_at, touched, created>>
  BY DEF LoadTable
<1>2. /\ RingOK /\ InitMessage \in Messages
      /\ mem \in [Memory -> Bytes] /\ dsector \in [Sector -> Bytes] /\ saved_at = 0
      /\ log_buffer \in [Lines -> Messages \cup {NoMessage}]
      /\ log_count \in Nat /\ Len(BootMessages) \in Nat
  BY <1>1, ByteAssumption DEF MemoryInv, RingOK, MemoryTypeOK, TypeOK
<1>3. mm \in [Memory -> Bytes] /\ \A a \in Sector : mm[a] = dsector[a]
  BY <1>2, SectorInMemory
<1>4. ASSUME NEW i \in Lines
      PROVE  SameLine(mem, mm, i)
  <2> SUFFICES ASSUME NEW o \in 0 .. LineSize - 1
               PROVE  mem[LineAddress(i) + o] = mm[LineAddress(i) + o]
    BY DEF SameLine
  <2> DEFINE a == LineAddress(i) + o
  <2>1. a \in Memory /\ a >= SectorSize
    BY LineBytes
  <2> HIDE DEF a
  <2>2. a \notin Sector
    BY <2>1, LayoutAssumption DEF Sector
  <2>3. mem[a] = mm[a]
    BY <2>1, <2>2
  <2> QED
    BY <2>3 DEF a
<1> HIDE DEF mm
<1>5. /\ log_head \in Lines /\ log_count' = log_count + 1
      /\ log_head' = LineOf(log_count' + 1) /\ TypeOK'
  BY <1>1, <1>2, LogStep
<1>6. RingOK'
  <2>1. mem' \in [Memory -> Bytes]
    BY <1>1, <1>2, <1>3, <1>5, PutType DEF Log
  <2>2. table' \in [Slots -> Entries]
    BY <1>1, <1>3, TableFromType
  <2>3. saved_at' \in 0 .. log_count' /\ log_count' > Len(BootMessages)
    BY <1>1, <1>2, <1>5
  <2>4. MemoryTypeOK'
    BY <1>1, <1>2, <1>5, <2>1, <2>2, <2>3 DEF RingOK, MemoryTypeOK
  <2> QED
    BY <1>1, <1>5, <2>3, <2>4 DEF RingOK
\* Nothing has been saved since the boot, so all lines in the ring are shown.
<1>7. ASSUME NEW k \in 1 .. log_count, k + MaxLogs > log_count
      PROVE  Shows(mm, LineOf(k), log_buffer[LineOf(k)])
  <2>1. k > saved_at /\ LineOf(k) \in Lines
    BY <1>2, LineOfType
  <2>2. Shows(mem, LineOf(k), log_buffer[LineOf(k)])
    BY <1>7, <2>1 DEF MemoryInv, Kept, LineShown
  <2> QED
    BY <1>2, <1>4, <2>1, <2>2, LineText, SameLineShows
<1>8. Kept'
  <2>1. \A k \in 1 .. log_count :
          (k + MaxLogs > log_count + 1 /\ (k > saved_at' \/ BehindTable(LineOf(k))))
            => Shows(mm, LineOf(k), log_buffer[LineOf(k)])
    <3> SUFFICES ASSUME NEW k \in 1 .. log_count, k + MaxLogs > log_count + 1
                 PROVE  Shows(mm, LineOf(k), log_buffer[LineOf(k)])
      OBVIOUS
    <3>1. k + MaxLogs > log_count
      BY <1>2, LoggerAssumption
    <3> QED
      BY <1>7, <3>1
  <2> QED
    BY <1>1, <1>2, <2>1, LogKept
<1>9. BootKept'
  <2> SUFFICES ASSUME NEW i \in Lines, i < Len(BootMessages), log_count' <= MaxLogs + i
               PROVE  LineShown(i)' /\ WritesBack(i)'
    BY DEF BootKept
  <2>1. i < log_count /\ log_count + 1 <= MaxLogs + i
    BY <1>1, <1>5
  <2>2. i + 1 \in 1 .. log_count /\ (i + 1) + MaxLogs > log_count /\ LineOf(i + 1) = i
    BY <1>2, <2>1, LoggerAssumption, FirstLines DEF Lines
  <2>3. Shows(mm, i, log_buffer[i])
    BY <1>7, <2>2
  <2>4. SameLine(mm, Image(table', mm), i)
    BY <1>1, LoadWritesBack
  <2>5. Shows(mem', i, log_buffer'[i]) /\ SameLine(mem', Image(table', mem'), i)
    BY <1>1, <1>2, <2>1, <2>3, <2>4, LogBootLine
  <2> QED
    BY <2>5 DEF LineShown, WritesBack
<1>10. NoPhantomOnDisk'
  <2>1. CleanDisk(dsector, created)
    BY PhantomIs DEF MemoryInv
  <2>2. Clean(table', created)
    BY <1>1, <1>3, <2>1, LoadPhantom
  <2>3. CleanDisk(dsector', created') /\ Clean(table', created')
    BY <1>1, <2>1, <2>2
  <2> QED
    BY <2>3 DEF NoPhantomOnDisk, Clean, CleanDisk, Used
<1> QED
  BY <1>6, <1>8, <1>9, <1>10 DEF MemoryInv

\* The lines of the boot after a save, until a command changes an entry behind
\* the sector.
LEMMA SaveBootLine ==
  ASSUME MemoryInv, loaded, NEW tbl, NEW T, touched \subseteq T,
         \A q \in Slots \ T : tbl[q] = table[q],
         \A q \in T : InSector(q),
         NEW i \in Lines, i < Len(BootMessages), log_count <= MaxLogs + i
  PROVE  /\ Shows(Image(tbl, mem), i, log_buffer[i])
         /\ SameLine(Image(tbl, mem), Image(tbl, Image(tbl, mem)), i)
<1>1. LineShown(i) /\ WritesBack(i)
  BY DEF MemoryInv, BootKept
<1>2. \A q \in Slots : ~ InSector(q) => tbl[q] = table[q]
  OBVIOUS
<1>3. SameLine(mem, Image(tbl, mem), i)
  BY <1>1, <1>2, SaveInSector DEF WritesBack
<1>4. Shows(Image(tbl, mem), i, log_buffer[i])
  BY <1>1, <1>3, LineText, SameLineShows DEF LineShown, MemoryInv, RingOK, MemoryTypeOK, TypeOK
<1> QED
  BY <1>4, SaveTwice

\* A command that saves the table tbl and logs nothing.
LEMMA SaveInv ==
  ASSUME MemoryInv, loaded, NEW tbl \in [Slots -> Entries], SaveTable(tbl),
         mem' = Image(table', mem), UNCHANGED <<vars, loaded>>,
         touched \subseteq touched', touched' \subseteq Slots,
         \A q \in Slots \ touched' : tbl[q] = table[q],
         created' \subseteq Names, Clean(tbl, created')
  PROVE  MemoryInv'
<1>1. /\ table' = tbl /\ dsector' = [a \in Sector |-> Image(tbl, mem)[a]]
      /\ saved_at' = log_count /\ mem' = Image(tbl, mem)
      /\ log_count' = log_count /\ log_buffer' = log_buffer /\ log_head' = log_head
      /\ written' = written /\ loaded'
  BY DEF SaveTable, vars
<1>2. /\ RingOK /\ TypeOK /\ mem \in [Memory -> Bytes] /\ log_count \in Nat
  BY DEF MemoryInv, RingOK, MemoryTypeOK, TypeOK
<1>3. RingOK'
  <2>1. mem' \in [Memory -> Bytes] /\ dsector' \in [Sector -> Bytes]
    BY <1>1, <1>2, ImageType
  <2>2. saved_at' \in 0 .. log_count' /\ loaded' \in BOOLEAN
    BY <1>1, <1>2 DEF RingOK, MemoryTypeOK
  <2>3. TypeOK'
    BY <1>1, <1>2 DEF TypeOK
  <2>4. MemoryTypeOK'
    BY <1>1, <2>1, <2>2, <2>3 DEF MemoryTypeOK
  <2> QED
    BY <1>1, <1>2, <2>4 DEF RingOK
<1>4. Kept'
  <2> SUFFICES ASSUME NEW k \in 1 .. log_count, k + MaxLogs > log_count,
                      k > saved_at' \/ BehindTable(LineOf(k))
               PROVE  Shows(mem', LineOf(k), log_buffer[LineOf(k)])
    BY <1>1 DEF Kept, LineShown
  <2>1. LineOf(k) \in Lines /\ BehindTable(LineOf(k))
    BY <1>1, <1>2, LineOfType
  <2>2. Shows(mem, LineOf(k), log_buffer[LineOf(k)])
    BY <2>1 DEF MemoryInv, Kept, LineShown
  <2>3. SameLine(mem, Image(tbl, mem), LineOf(k))
    BY <2>1, SaveBehind
  <2>4. IsText(log_buffer[LineOf(k)])
    BY <1>2, <2>1, LineText DEF TypeOK
  <2> QED
    BY <1>1, <2>1, <2>2, <2>3, <2>4, SameLineShows
<1>5. BootKept'
  <2> SUFFICES ASSUME \A q \in touched' : InSector(q),
                      NEW i \in Lines, i < Len(BootMessages), log_count <= MaxLogs + i
               PROVE  Shows(mem', i, log_buffer[i]) /\ SameLine(mem', Image(table', mem'), i)
    BY <1>1 DEF BootKept, LineShown, WritesBack
  <2> QED
    BY <1>1, SaveBootLine
<1>6. NoPhantomOnDisk'
  <2>1. CleanDisk(dsector', created') /\ Clean(table', created')
    BY <1>1, SavePhantom
  <2> QED
    BY <2>1 DEF NoPhantomOnDisk, Clean, CleanDisk, Used
<1> QED
  BY <1>3, <1>4, <1>5, <1>6 DEF MemoryInv

LEMMA FieldsApart ==
  /\ {NameAt, SizeAt, UsedAt, OwnerAt, PermAt} \subseteq Fields
  /\ NameAt # SizeAt /\ NameAt # UsedAt /\ NameAt # PermAt /\ SizeAt # UsedAt
  /\ UsedAt # PermAt /\ SizeAt # PermAt
<1>1. /\ NameAt \in Int /\ SizeAt \in Int /\ UsedAt \in Int /\ OwnerAt \in Int /\ PermAt \in Int
  BY LayoutAssumption DEF Fields
<1> QED
  BY <1>1, LayoutAssumption

LEMMA CreateFileInv ==
  ASSUME MemoryInv, NEW n \in Names, CreateFile(n)
  PROVE  MemoryInv'
<1> DEFINE i   == FirstOf(IF Called(n) # {} THEN Called(n) ELSE Free)
           new == [table[i] EXCEPT ![NameAt] = n, ![SizeAt] = Set, ![UsedAt] = Set, ![PermAt] = Set]
           tbl == [table EXCEPT ![i] = new]
<1>1. /\ loaded /\ Called(n) \cup Free # {} /\ SaveTable(tbl)
      /\ touched' = touched \cup {i} /\ mem' = Image(table', mem)
      /\ created' = created \cup {n} /\ UNCHANGED <<vars, loaded>>
  BY DEF CreateFile
<1>2. i \in Slots
  <2>1. Called(n) \in SUBSET Slots /\ Free \in SUBSET Slots
    BY DEF Called, Free
  <2>2. CASE Called(n) # {}
    BY <2>1, <2>2, LeastElement
  <2>3. CASE Called(n) = {}
    BY <1>1, <2>1, <2>3, LeastElement
  <2> QED
    BY <2>2, <2>3
<1> HIDE DEF i
<1>3. /\ table \in [Slots -> Entries] /\ touched \subseteq Slots /\ created \subseteq Names
  BY DEF MemoryInv, RingOK, MemoryTypeOK
<1>4. /\ new \in Entries /\ new[NameAt] = n
  <2>1. table[i] \in [Fields -> Bytes] /\ n \in Bytes /\ Set \in Bytes
    BY <1>2, <1>3 DEF Entries, Bytes
  <2> QED
    BY <2>1, FieldsApart DEF Entries
<1> HIDE DEF new
<1>5. /\ tbl \in [Slots -> Entries] /\ tbl[i] = new
      /\ \A q \in Slots : q # i => tbl[q] = table[q]
  BY <1>2, <1>3, <1>4
<1> HIDE DEF tbl
<1>6. Clean(tbl, created')
  <2> SUFFICES ASSUME NEW q \in Slots, q * EntrySize + UsedAt \in Sector, tbl[q][UsedAt] # NUL
               PROVE  tbl[q][NameAt] \in created'
    BY DEF Clean
  <2>1. CASE q = i
    BY <1>1, <1>4, <1>5, <2>1
  <2>2. CASE q # i
    <3>1. Clean(table, created)
      BY <1>1, PhantomIs DEF MemoryInv
    <3> QED
      BY <1>1, <1>5, <2>2, <3>1 DEF Clean
  <2> QED
    BY <2>1, <2>2
<1>7. /\ touched \subseteq touched' /\ touched' \subseteq Slots /\ created' \subseteq Names
      /\ \A q \in Slots \ touched' : tbl[q] = table[q]
  BY <1>1, <1>2, <1>3, <1>5
<1> QED
  BY <1>1, <1>5, <1>6, <1>7, SaveInv

LEMMA DeleteFileInv ==
  ASSUME MemoryInv, NEW n, DeleteFile(n)
  PROVE  MemoryInv'
<1> DEFINE i   == FirstOf(Called(n))
           new == [table[i] EXCEPT ![NameAt] = NUL, ![UsedAt] = NUL]
           tbl == [table EXCEPT ![i] = new]
<1>1. /\ loaded /\ Called(n) # {} /\ SaveTable(tbl)
      /\ touched' = touched \cup {i} /\ mem' = Image(table', mem)
      /\ created' = created /\ UNCHANGED <<vars, loaded>>
  BY DEF DeleteFile
<1>2. i \in Slots
  <2>1. Called(n) \in SUBSET Slots
    BY DEF Called
  <2> QED
    BY <1>1, <2>1, LeastElement
<1> HIDE DEF i
<1>3. /\ table \in [Slots -> Entries] /\ touched \subseteq Slots /\ created \subseteq Names
  BY DEF MemoryInv, RingOK, MemoryTypeOK
<1>4. /\ new \in Entries /\ new[UsedAt] = NUL
  <2>1. table[i] \in [Fields -> Bytes] /\ NUL \in Bytes
    BY <1>2, <1>3 DEF Entries, Bytes
  <2> QED
    BY <2>1, FieldsApart DEF Entries
<1> HIDE DEF new
<1>5. /\ tbl \in [Slots -> Entries] /\ tbl[i] = new
      /\ \A q \in Slots : q # i => tbl[q] = table[q]
  BY <1>2, <1>3, <1>4
<1> HIDE DEF tbl
<1>6. Clean(tbl, created')
  <2>1. Clean(table, created)
    BY <1>1, PhantomIs DEF MemoryInv
  <2> QED
    BY <1>1, <1>4, <1>5, <2>1 DEF Clean
<1>7. /\ touched \subseteq touched' /\ touched' \subseteq Slots /\ created' \subseteq Names
      /\ \A q \in Slots \ touched' : tbl[q] = table[q]
  BY <1>1, <1>2, <1>3, <1>5
<1> QED
  BY <1>1, <1>5, <1>6, <1>7, SaveInv

\* fs_format saves an empty table, then logs.
LEMMA FormatInv ==
  ASSUME MemoryInv, Format
  PROVE  MemoryInv'
<1> DEFINE tbl == [i \in Slots |-> [[o \in Fields |-> NUL] EXCEPT ![PermAt] = Set]]
           mm  == Image(tbl, mem)
<1>1. /\ loaded /\ SaveTable(tbl) /\ Log(FormatMessage, Image(table', mem))
      /\ touched' = Slots /\ loaded' = loaded /\ created' = created
  BY DEF Format
<1>2. /\ table' = tbl /\ saved_at' = log_count
      /\ dsector' = [a \in Sector |-> Image(tbl, mem)[a]]
      /\ Log(FormatMessage, mm)
  BY <1>1 DEF SaveTable
<1>3. tbl \in [Slots -> Entries] /\ \A q \in Slots : tbl[q][UsedAt] = NUL
  <2> DEFINE e == [[o \in Fields |-> NUL] EXCEPT ![PermAt] = Set]
  <2>1. e \in Entries /\ e[UsedAt] = NUL
    BY FieldsApart DEF Entries, Bytes
  <2> HIDE DEF e
  <2>2. tbl = [q \in Slots |-> e]
    BY DEF e
  <2> HIDE DEF tbl
  <2> QED
    BY <2>1, <2>2
<1> HIDE DEF tbl
<1>4. /\ RingOK /\ FormatMessage \in Messages /\ mem \in [Memory -> Bytes]
      /\ log_buffer \in [Lines -> Messages \cup {NoMessage}]
      /\ log_count \in Nat /\ created \subseteq Names /\ Len(BootMessages) \in Nat
  BY ByteAssumption DEF MemoryInv, RingOK, MemoryTypeOK, TypeOK
<1>5. mm \in [Memory -> Bytes] /\ [a \in Sector |-> Image(tbl, mem)[a]] \in [Sector -> Bytes]
  BY <1>3, <1>4, ImageType
<1>6. /\ log_head \in Lines /\ log_count' = log_count + 1
      /\ log_head' = LineOf(log_count' + 1) /\ TypeOK'
  BY <1>2, <1>4, LogStep
<1>7. RingOK'
  <2>1. mem' \in [Memory -> Bytes]
    BY <1>2, <1>4, <1>5, <1>6, PutType DEF Log
  <2>2. saved_at' \in 0 .. log_count'
    BY <1>2, <1>4, <1>6
  <2>3. log_count' > Len(BootMessages)
    BY <1>1, <1>4, <1>6 DEF RingOK
  <2>4. MemoryTypeOK'
    BY <1>1, <1>2, <1>3, <1>4, <1>5, <1>6, <2>1, <2>2 DEF MemoryTypeOK
  <2> QED
    BY <1>1, <1>6, <2>3, <2>4 DEF RingOK
<1>8. Kept'
  <2>1. \A k \in 1 .. log_count :
          (k + MaxLogs > log_count + 1 /\ (k > saved_at' \/ BehindTable(LineOf(k))))
            => Shows(mm, LineOf(k), log_buffer[LineOf(k)])
    <3> SUFFICES ASSUME NEW k \in 1 .. log_count, k + MaxLogs > log_count + 1,
                        k > saved_at' \/ BehindTable(LineOf(k))
                 PROVE  Shows(mm, LineOf(k), log_buffer[LineOf(k)])
      OBVIOUS
    <3>1. LineOf(k) \in Lines /\ BehindTable(LineOf(k)) /\ k + MaxLogs > log_count
      BY <1>2, <1>4, LineOfType, LoggerAssumption
    <3>2. Shows(mem, LineOf(k), log_buffer[LineOf(k)])
      BY <3>1 DEF MemoryInv, Kept, LineShown
    <3>3. SameLine(mem, mm, LineOf(k))
      BY <3>1, SaveBehind
    <3>4. IsText(log_buffer[LineOf(k)])
      BY <1>4, <3>1, LineText
    <3> QED
      BY <3>1, <3>2, <3>3, <3>4, SameLineShows
  <2> QED
    BY <1>2, <1>4, <2>1, LogKept
\* The entries are all changed: if all fit in the sector, the save writes no line.
<1>9. BootKept'
  <2> SUFFICES ASSUME \A q \in Slots : InSector(q),
                      NEW i \in Lines, i < Len(BootMessages), log_count' <= MaxLogs + i
               PROVE  LineShown(i)' /\ WritesBack(i)'
    BY <1>1 DEF BootKept
  <2>1. i \in Nat /\ i < log_count /\ log_count + 1 <= MaxLogs + i /\ log_count <= MaxLogs + i
    BY <1>1, <1>4, <1>6, LoggerAssumption DEF RingOK, Lines
  <2>2. Shows(mm, i, log_buffer[i]) /\ SameLine(mm, Image(tbl, mm), i)
    <3>1. touched \subseteq Slots
      BY DEF MemoryInv, RingOK, MemoryTypeOK
    <3> QED
      BY <1>1, <2>1, <3>1, SaveBootLine
  <2> HIDE DEF mm
  <2>3. Shows(mem', i, log_buffer'[i]) /\ SameLine(mem', Image(tbl, mem'), i)
    BY <1>2, <1>4, <2>1, <2>2, LogBootLine
  <2> QED
    BY <1>2, <2>3 DEF LineShown, WritesBack
<1>10. NoPhantomOnDisk'
  <2>1. Clean(tbl, created)
    BY <1>3 DEF Clean
  <2>2. CleanDisk(dsector', created') /\ Clean(table', created')
    BY <1>1, <1>2, <2>1, SavePhantom
  <2> QED
    BY <2>2 DEF NoPhantomOnDisk, Clean, CleanDisk, Used
<1> QED
  BY <1>7, <1>8, <1>9, <1>10 DEF MemoryInv

LEMMA MemoryNextInv == MemoryInv /\ [MemoryNext]_memory => MemoryInv'
<1> SUFFICES ASSUME MemoryInv, [MemoryNext]_memory
             PROVE  MemoryInv'
  OBVIOUS
<1>1. ASSUME NEW m \in Messages, MemoryKlog(m)
      PROVE  MemoryInv'
  BY <1>1, MemoryKlogInv
<1>2. CASE LoadTable
  BY <1>2, LoadTableInv
<1>3. ASSUME NEW n \in Names, CreateFile(n)
      PROVE  MemoryInv'
  BY <1>3, CreateFileInv
<1>4. ASSUME NEW n \in Names \cup Chars, DeleteFile(n)
      PROVE  MemoryInv'
  BY <1>4, DeleteFileInv
<1>5. CASE Format
  BY <1>5, FormatInv
<1>6. CASE MemoryReboot
  BY <1>6, RebootInv
<1>7. CASE UNCHANGED memory
  BY <1>7 DEF memory, vars, MemoryInv, RingOK, MemoryTypeOK, TypeOK, Kept, LineShown, BootKept,
              WritesBack, NoPhantomOnDisk, Used
<1> QED
  BY <1>1, <1>2, <1>3, <1>4, <1>5, <1>6, <1>7 DEF MemoryNext

-----------------------------------------------------------------------------
(* The theorems.                                                           *)

LEMMA MemoryInvariance == MemorySpec => []MemoryInv
  BY MemoryInitInv, MemoryNextInv, PTL DEF MemorySpec

\* The ring is used as Logger says, by the boot, the commands and the file system.
LEMMA MemoryLogs == MemorySpec => Spec
<1>1. MemoryInit => Init
  BY DEF MemoryInit
<1>2. [MemoryNext]_memory => [Next]_vars
  <2> SUFFICES ASSUME [MemoryNext]_memory
               PROVE  [Next]_vars
    OBVIOUS
  <2>1. ASSUME NEW m \in Messages, MemoryKlog(m)
        PROVE  Next
    BY <2>1 DEF MemoryKlog, Log, Next
  <2>2. CASE LoadTable
    BY <2>2, ByteAssumption DEF LoadTable, Log, Next
  <2>3. ASSUME NEW n \in Names, CreateFile(n)
        PROVE  UNCHANGED vars
    BY <2>3 DEF CreateFile
  <2>4. ASSUME NEW n \in Names \cup Chars, DeleteFile(n)
        PROVE  UNCHANGED vars
    BY <2>4 DEF DeleteFile
  <2>5. CASE Format
    BY <2>5, ByteAssumption DEF Format, Log, Next
  <2>6. CASE MemoryReboot
    BY <2>6 DEF MemoryReboot, Next
  <2>7. CASE UNCHANGED memory
    BY <2>7 DEF memory
  <2> QED
    BY <2>1, <2>2, <2>3, <2>4, <2>5, <2>6, <2>7 DEF MemoryNext
<1> QED
  BY <1>1, <1>2, PTL DEF MemorySpec, Spec

\* A line of the log reads as it was logged unless a save of the table has run
\* since and writes there, for every layout of the memory: klog's copy, the NUL
\* behind it, and the printing up to the next NUL never mix two messages.
THEOREM LinesKept == MemorySpec => []LinesAreKept
<1>1. MemoryInv => LinesAreKept
  <2> SUFFICES ASSUME MemoryInv, NEW i \in Lines, Written(i),
                      Number(i) > saved_at \/ BehindTable(i)
               PROVE  TextAt(i) = log_buffer[i]
    BY DEF LinesAreKept
  <2>1. /\ mem \in [Memory -> Bytes] /\ log_count \in Nat
        /\ log_buffer \in [Lines -> Messages \cup {NoMessage}]
    BY DEF MemoryInv, RingOK, MemoryTypeOK, TypeOK
  <2>2. /\ Number(i) \in 1 .. log_count /\ Number(i) + MaxLogs > log_count
        /\ LineOf(Number(i)) = i
    BY <2>1, NumberIs
  <2>3. Shows(mem, i, log_buffer[i])
    BY <2>2 DEF MemoryInv, Kept, LineShown
  <2> QED
    BY <2>1, <2>3, LineText, ShownIsPrinted
<1> QED
  BY <1>1, MemoryInvariance, PTL

\* What klog_dump prints of the memory.
PrintedDump == [i \in 1 .. Limit |-> TextAt((Start + i - 1) % MaxLogs)]

\* Every line that holds a message was logged after the last save, or lies behind
\* the table.
Intact == \A i \in Lines : Written(i) => Number(i) > saved_at \/ BehindTable(i)

DumpFromMemory == log_count # MaxLogs /\ Intact => PrintedDump = Recent

\* klog_dump, which reads the memory byte by byte up to each NUL, prints the most
\* recent messages in order as long as no save of the table has written over one of
\* them, for every layout of the memory, except when exactly MAX_LOGS were logged.
THEOREM DumpIsOfMemory == MemorySpec => []DumpFromMemory
<1>1. Inv /\ DumpIsRecent /\ LinesAreKept => DumpFromMemory
  <2> SUFFICES ASSUME Inv, DumpIsRecent, LinesAreKept, log_count # MaxLogs, Intact
               PROVE  PrintedDump = Recent
    BY DEF DumpFromMemory
  <2>1. /\ log_head \in 0 .. MaxLogs - 1 /\ log_count \in Nat /\ MaxLogs \in Nat \ {0}
        /\ log_count < MaxLogs => log_head = log_count
    BY LoggerAssumption DEF Inv, TypeOK, Lines
  <2>2. ASSUME NEW i \in 1 .. Limit
        PROVE  TextAt((Start + i - 1) % MaxLogs) = log_buffer[(Start + i - 1) % MaxLogs]
    <3>1. PICK l \in 0 .. MaxLogs - 1 : l = (Start + i - 1) % MaxLogs /\ l < log_count
      <4>1. CASE log_count > MaxLogs
        <5>1. Start + i - 1 \in 0 .. 2 * MaxLogs - 1
          BY <2>1, <4>1 DEF Start, Limit
        <5>2. (Start + i - 1) % MaxLogs \in 0 .. MaxLogs - 1
          BY <2>1, <5>1, Remainder
        <5> QED
          BY <2>1, <4>1, <5>2
      <4>2. CASE log_count < MaxLogs
        <5>1. Start + i - 1 = i - 1 /\ i - 1 \in 0 .. log_count - 1
          BY <2>1, <4>2 DEF Start, Limit
        <5>2. (Start + i - 1) % MaxLogs = i - 1
          BY <2>1, <4>2, <5>1, Remainder
        <5> QED
          BY <2>1, <4>2, <5>1, <5>2
      <4> QED
        BY <2>1, <4>1, <4>2
    <3>2. l \in Lines /\ Written(l)
      BY <3>1 DEF Lines, Written
    <3>3. TextAt(l) = log_buffer[l]
      BY <3>2 DEF Intact, LinesAreKept
    <3> QED
      BY <3>1, <3>3
  <2>3. PrintedDump = Dump
    BY <2>2 DEF PrintedDump, Dump
  <2> QED
    BY <2>3 DEF DumpIsRecent
<1> QED
  BY <1>1, MemoryLogs, Invariance, DumpCorrect, LinesKept, PTL

\* The lines of the boot survive every save that fs_write_file, fs_delete_file and
\* fs_format make while the entries they change fit in the sector: the rest of the
\* table is what fs_init read from those lines, and is written back to them.
THEOREM BootSurvives == MemorySpec => []BootLinesSurvive
<1>1. MemoryInv => BootLinesSurvive
  <2> SUFFICES ASSUME MemoryInv, loaded, \A i \in touched : InSector(i),
                      NEW i \in Lines, i < Len(BootMessages), log_count <= MaxLogs + i
               PROVE  TextAt(i) = log_buffer[i]
    BY DEF BootLinesSurvive
  <2>1. /\ mem \in [Memory -> Bytes]
        /\ log_buffer \in [Lines -> Messages \cup {NoMessage}]
    BY DEF MemoryInv, RingOK, MemoryTypeOK, TypeOK
  <2>2. Shows(mem, i, log_buffer[i])
    BY DEF MemoryInv, BootKept, LineShown
  <2> QED
    BY <2>1, <2>2, LineText, ShownIsPrinted
<1> QED
  BY <1>1, MemoryInvariance, PTL

\* No entry that fs_init took from log lines is ever among those whose name and
\* used flag lie in sector 0, in memory or on the disk, however often the table
\* is read and saved.
THEOREM NoPhantom == MemorySpec => []NoPhantomOnDisk
<1>1. MemoryInv => NoPhantomOnDisk
  BY DEF MemoryInv
<1> QED
  BY <1>1, MemoryInvariance, PTL
=============================================================================
