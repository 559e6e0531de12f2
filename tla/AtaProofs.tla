------------------------------- MODULE AtaProofs -------------------------------
(* The polling driver over a drive whose only failures are refused commands *)
(* implements SectorStore, for every sector length, set of sectors and     *)
(* interleaving of driver, drive and power.                                *)
EXTENDS Ata, TLAPS

-----------------------------------------------------------------------------
(* Arithmetic: the words of a sector, and the LBA registers.               *)

LEMMA Halves ==
  /\ SectorLen \div 2 \in Nat \ {0}
  /\ SectorLen = 2 * (SectorLen \div 2)
  /\ 0 \in Words
  /\ Words \subseteq Nat
  BY AtaAssumption DEF Words

\* Byte j is the low or the high byte of word j \div 2.
LEMMA ByteOfWord ==
  ASSUME NEW j \in 0 .. SectorLen - 1
  PROVE  /\ j \div 2 \in Words
         /\ \/ j = 2 * (j \div 2) /\ (j % 2) + 1 = 1
            \/ j = 2 * (j \div 2) + 1 /\ (j % 2) + 1 = 2
<1> DEFINE h == SectorLen \div 2
<1>1. h \in Nat /\ SectorLen = 2 * h
  BY Halves
<1> HIDE DEF h
<1>2. j \div 2 \in 0 .. h - 1
  BY <1>1
<1> QED
  BY <1>1, <1>2 DEF Words, h

LEMMA WordOfBytes ==
  ASSUME NEW k \in Words
  PROVE  2 * k \in 0 .. SectorLen - 1 /\ 2 * k + 1 \in 0 .. SectorLen - 1
<1> DEFINE h == SectorLen \div 2
<1>1. h \in Nat /\ SectorLen = 2 * h /\ k \in 0 .. h - 1
  BY Halves DEF Words
<1> HIDE DEF h
<1> QED
  BY <1>1

\* The four registers carry the 28 bits of every sector number.
LEMMA MaxLbaBits == MaxLba \in Nat /\ MaxLba + 1 = 16 * 16777216
  BY SMT DEF MaxLba

LEMMA AddressOfRegisters ==
  ASSUME NEW l \in 0 .. MaxLba
  PROVE  Address(Registers(l)) = l
<1> DEFINE a == l \div 256
           b == l \div 65536
           c == l \div 16777216
<1>1. l \in Nat /\ l + 1 <= 16 * 16777216
  BY MaxLbaBits, SMT
<1>2. l % 256 = l - 256 * a
  BY <1>1, SMT
<1>3. a % 256 = a - 256 * b
  BY <1>1, SMT
<1>4. b % 256 = b - 256 * c
  BY <1>1, SMT
<1>5. c % 16 = c
  BY <1>1, SMT
<1>6. a \in Nat /\ b \in Nat /\ c \in Nat
  BY <1>1, SMT
<1> HIDE DEF a, b, c
<1>7. (l % 256) + 256 * (a % 256) + 65536 * (b % 256) + 16777216 * (c % 16) = l
  BY <1>1, <1>2, <1>3, <1>4, <1>5, <1>6, SMT
<1> QED
  BY <1>7, SMT DEF Address, Registers, a, b, c

-----------------------------------------------------------------------------
(* The inductive invariant: at each point of the driver, what the drive is *)
(* doing and what has been transferred.                                    *)

\* The drive has no command.
Free == ~ dev.drq /\ dev.cmd = "none"

\* The drive works on the command of the call, has reached its data phase, or
\* has refused it.
Commanded ==
  /\ i = 0 /\ dev.pos = 0
  /\ \/ /\ dev.busy /\ ~ dev.drq
        /\ dev.cmd = call.kind /\ dev.lba = call.lba
     \/ /\ ~ dev.busy /\ dev.drq
        /\ dev.cmd = call.kind /\ dev.lba = call.lba
        /\ call.kind = "read" => dev.words = medium[call.lba]
     \/ ~ dev.busy /\ Free

\* The words before i are in the buffer, and the others will be.
Reading ==
  /\ ~ dev.busy
  /\ dev.pos = i
  /\ IF i \in Words THEN dev.drq /\ dev.cmd = "read" ELSE Free
  /\ dev.words = medium[call.lba]
  /\ \A k \in Words : k < i => Word(buffer, k) = dev.words[k]

\* The words before i are with the drive; when all are, it writes them.
Writing ==
  /\ dev.pos = i
  /\ dev.lba = call.lba
  /\ \A k \in Words : k < i => dev.words[k] = Word(buffer, k)
  /\ dev.drq <=> i \in Words
  /\ IF i \in Words THEN ~ dev.busy /\ dev.cmd = "write"
     ELSE IF dev.busy THEN dev.cmd = "write"
     ELSE /\ dev.cmd = "none"
          /\ "flush" \notin Faults => medium[call.lba] = dev.words

CallOK ==
  IF pc \in {"init", "idle"} THEN call = NoCall
  ELSE call.kind \in {"read", "write"} /\ call.lba \in Lbas

ProgressOK ==
  /\ pc = "init" => Free
  /\ pc \in {"idle", "ready"} => Free /\ ~ dev.busy
  /\ pc = "drq" => Commanded
  /\ pc = "transfer" => IF call.kind = "read" THEN Reading ELSE Writing
  /\ pc = "flush" => call.kind = "write" /\ i \notin Words /\ Writing

Inv == TypeOK /\ CallOK /\ ProgressOK

-----------------------------------------------------------------------------
(* Every step keeps it.                                                    *)

LEMMA CallLba ==
  ASSUME Inv, pc \notin {"init", "idle"}
  PROVE  call.lba \in Lbas /\ Address(Registers(call.lba)) = call.lba
<1>1. call.lba \in Lbas
  BY DEF Inv, CallOK
<1>2. call.lba \in 0 .. MaxLba
  BY <1>1, AtaAssumption
<1> QED
  BY <1>1, <1>2, AddressOfRegisters

LEMMA ZeroTypes ==
  /\ NoWords \in [Words -> Bytes \X Bytes]
  /\ Zeroes \in Sectors
  /\ 0 \in 0 .. SectorLen \div 2
  /\ NoCall \in [kind : {"none", "read", "write"}, lba : Lbas \cup {0}]
  /\ SpinUp \in [busy : BOOLEAN, drq : BOOLEAN, err : BOOLEAN,
                 cmd : {"none", "read", "write"}, lba : Lbas \cup {0},
                 words : [Words -> Bytes \X Bytes], pos : 0 .. SectorLen \div 2]
<1>1. NoWords \in [Words -> Bytes \X Bytes] /\ Zeroes \in Sectors
  BY AtaAssumption DEF NoWords, Zeroes, Sectors
<1>2. 0 \in 0 .. SectorLen \div 2
  BY Halves
<1>3. NoCall \in [kind : {"none", "read", "write"}, lba : Lbas \cup {0}]
  BY DEF NoCall
<1>4. SpinUp \in [busy : BOOLEAN, drq : BOOLEAN, err : BOOLEAN,
                 cmd : {"none", "read", "write"}, lba : Lbas \cup {0},
                 words : [Words -> Bytes \X Bytes], pos : 0 .. SectorLen \div 2]
  BY <1>1, <1>2 DEF SpinUp
<1> QED
  BY <1>1, <1>2, <1>3, <1>4

LEMMA InitInv == Init => Inv
<1> SUFFICES ASSUME Init PROVE Inv
  OBVIOUS
<1>1. TypeOK
  BY ZeroTypes DEF Init, TypeOK
<1>2. CallOK /\ ProgressOK
  BY DEF Init, CallOK, ProgressOK, Free, SpinUp
<1> QED
  BY <1>1, <1>2 DEF Inv

\* The steps of the driver that touch neither the drive nor the buffer, the
\* start of a call included.
LEMMA ControlInv ==
  ASSUME Inv,
         \/ AtaInit \/ WaitDrq \/ ReturnRead \/ EndTransfer \/ ReturnWrite
         \/ \E l \in Lbas : ReadSector(l) \/ \E b \in Buffers : WriteSector(l, b)
  PROVE  Inv'
<1>1. CASE AtaInit
  BY <1>1 DEF Inv, TypeOK, CallOK, ProgressOK, AtaInit, Free
<1>2. CASE WaitDrq
  <2>1. /\ pc = "drq" /\ dev.drq /\ pc' = "transfer" /\ UNCHANGED <<call, buffer, i, dev, medium>>
        /\ TypeOK /\ CallOK /\ Commanded
    BY <1>2 DEF WaitDrq, Inv, ProgressOK
  <2>2. /\ i = 0 /\ dev.pos = 0 /\ ~ dev.busy /\ dev.drq /\ dev.cmd = call.kind
        /\ dev.lba = call.lba
        /\ call.kind = "read" => dev.words = medium[call.lba]
    BY <2>1 DEF Commanded, Free
  <2>3. i \in Words /\ \A k \in Words : ~ (k < i)
    BY <2>2, Halves
  <2>4. IF call.kind = "read" THEN Reading ELSE Writing
    <3>1. CASE call.kind = "read"
      BY <2>1, <2>2, <2>3, <3>1 DEF Reading
    <3>2. CASE call.kind = "write"
      BY <2>1, <2>2, <2>3, <3>2 DEF Writing
    <3> QED
      BY <2>1, <3>1, <3>2 DEF CallOK
  <2> QED
    BY <2>1, <2>4 DEF Inv, TypeOK, CallOK, ProgressOK, Reading, Writing, Free
<1>3. CASE ReturnRead
  BY <1>3, ZeroTypes DEF Inv, TypeOK, CallOK, ProgressOK, ReturnRead, Reading, Free
<1>4. CASE EndTransfer
  BY <1>4 DEF Inv, TypeOK, CallOK, ProgressOK, EndTransfer, Writing
<1>5. CASE ReturnWrite
  BY <1>5, ZeroTypes DEF Inv, TypeOK, CallOK, ProgressOK, ReturnWrite, Writing, Free
<1>6. ASSUME NEW l \in Lbas, ReadSector(l)
      PROVE  Inv'
  BY <1>6 DEF Inv, TypeOK, CallOK, ProgressOK, ReadSector, Free
<1>7. ASSUME NEW l \in Lbas, NEW b \in Buffers, WriteSector(l, b)
      PROVE  Inv'
  BY <1>7, AtaAssumption DEF Inv, TypeOK, CallOK, ProgressOK, WriteSector, Free
<1> QED
  BY <1>1, <1>2, <1>3, <1>4, <1>5, <1>6, <1>7

LEMMA IssueInv ==
  ASSUME Inv, Issue
  PROVE  Inv'
<1>1. /\ pc = "ready" /\ ~ dev.busy /\ ~ dev.drq /\ pc' = "drq" /\ i' = 0
      /\ UNCHANGED <<call, buffer, medium>>
      /\ dev' = [dev EXCEPT !.busy = TRUE, !.err = FALSE, !.cmd = call.kind,
                            !.lba = call.lba, !.pos = 0]
      /\ call.lba \in Lbas /\ call.kind \in {"read", "write"}
  BY CallLba DEF Issue, Inv, CallOK, ProgressOK, Free
<1>2. TypeOK'
  BY <1>1, ZeroTypes DEF Inv, TypeOK
<1>3. Commanded'
  BY <1>1 DEF Inv, TypeOK, Commanded
<1> QED
  BY <1>1, <1>2, <1>3 DEF Inv, CallOK, ProgressOK

LEMMA ReadWordInv ==
  ASSUME Inv, ReadWord
  PROVE  Inv'
<1>1. /\ pc = "transfer" /\ call.kind = "read" /\ i \in Words /\ Reading /\ TypeOK /\ CallOK
      /\ i' = i + 1 /\ UNCHANGED <<pc, call, medium>>
  BY DEF ReadWord, Inv, ProgressOK
<1>2. dev.pos = i /\ dev.words = medium[call.lba] /\ dev.words \in [Words -> Bytes \X Bytes]
  BY <1>1 DEF Reading, TypeOK
<1>3. PICK lo \in Bytes, hi \in Bytes : dev.words[i] = <<lo, hi>>
  BY <1>1, <1>2
<1>4. buffer' = [buffer EXCEPT ![2 * i] = lo, ![2 * i + 1] = hi]
  BY <1>2, <1>3 DEF ReadWord
<1>5. dev' = [dev EXCEPT !.pos = i + 1, !.drq = i + 1 \in Words,
                        !.cmd = IF i + 1 \in Words THEN dev.cmd ELSE "none"]
  BY <1>2 DEF ReadWord
<1>6. i + 1 \in 0 .. SectorLen \div 2
  BY <1>1, Halves DEF Words
<1>7. buffer' \in Sectors
  BY <1>1, <1>4 DEF TypeOK, Sectors
<1>8. TypeOK'
  <2> DEFINE more == i + 1 \in Words
             cmd  == IF more THEN dev.cmd ELSE "none"
  <2>1. more \in BOOLEAN /\ cmd \in {"none", "read", "write"}
    BY <1>1 DEF TypeOK
  <2>2. dev' = [dev EXCEPT !.pos = i + 1, !.drq = more, !.cmd = cmd]
    BY <1>5
  <2> HIDE DEF more, cmd
  <2>3. dev' \in [busy : BOOLEAN, drq : BOOLEAN, err : BOOLEAN,
                 cmd : {"none", "read", "write"}, lba : Lbas \cup {0},
                 words : [Words -> Bytes \X Bytes], pos : 0 .. SectorLen \div 2]
    BY <1>1, <1>6, <2>1, <2>2 DEF TypeOK
  <2> QED
    BY <1>1, <1>6, <1>7, <2>3 DEF TypeOK
<1>9. ASSUME NEW k \in Words, k < i + 1
      PROVE  Word(buffer', k) = dev.words[k]
  <2>1. /\ k \in Nat /\ i \in Nat
        /\ 2 * k \in 0 .. SectorLen - 1 /\ 2 * k + 1 \in 0 .. SectorLen - 1
        /\ 2 * i \in 0 .. SectorLen - 1 /\ 2 * i + 1 \in 0 .. SectorLen - 1
    BY <1>1, WordOfBytes, Halves
  <2>2. CASE k = i
    <3>1. buffer'[2 * k] = lo /\ buffer'[2 * k + 1] = hi
      BY <1>1, <1>4, <2>1, <2>2 DEF TypeOK, Sectors
    <3> QED
      BY <1>3, <2>2, <3>1 DEF Word
  <2>3. CASE k # i
    <3>1. k < i /\ 2 * k # 2 * i /\ 2 * k # 2 * i + 1 /\ 2 * k + 1 # 2 * i
          /\ 2 * k + 1 # 2 * i + 1
      BY <1>9, <2>1, <2>3
    <3>2. buffer'[2 * k] = buffer[2 * k] /\ buffer'[2 * k + 1] = buffer[2 * k + 1]
      BY <1>1, <1>4, <2>1, <3>1 DEF TypeOK, Sectors
    <3> QED
      BY <1>1, <3>1, <3>2 DEF Reading, Word
  <2> QED
    BY <2>2, <2>3
<1>10. Reading'
  <2>1. /\ dev'.words = dev.words /\ dev'.busy = dev.busy /\ dev'.pos = i + 1
        /\ IF i + 1 \in Words THEN dev'.drq /\ dev'.cmd = "read"
           ELSE ~ dev'.drq /\ dev'.cmd = "none"
    BY <1>1, <1>5 DEF TypeOK, Reading
  <2> QED
    BY <1>1, <1>2, <1>9, <2>1 DEF Reading, Free
<1> QED
  BY <1>1, <1>8, <1>10 DEF Inv, CallOK, ProgressOK

LEMMA WriteWordInv ==
  ASSUME Inv, WriteWord
  PROVE  Inv'
<1>1. /\ pc = "transfer" /\ call.kind = "write" /\ i \in Words /\ Writing /\ TypeOK /\ CallOK
      /\ i' = i + 1 /\ UNCHANGED <<pc, call, buffer, medium>>
  BY DEF WriteWord, Inv, ProgressOK
<1>2. dev.pos = i /\ dev.lba = call.lba /\ dev.cmd = "write" /\ ~ dev.busy
  BY <1>1 DEF Writing
<1> DEFINE words == [dev.words EXCEPT ![i] = Word(buffer, i)]
<1>3. dev' = [dev EXCEPT !.words = words, !.pos = i + 1, !.drq = i + 1 \in Words,
                        !.busy = i + 1 \notin Words]
  BY <1>2 DEF WriteWord
<1>4. Word(buffer, i) \in Bytes \X Bytes
  BY <1>1, WordOfBytes DEF TypeOK, Sectors, Word
<1>5. i + 1 \in 0 .. SectorLen \div 2
  BY <1>1, Halves DEF Words
<1>6. /\ words \in [Words -> Bytes \X Bytes]
      /\ \A k \in Words : words[k] = IF k = i THEN Word(buffer, i) ELSE dev.words[k]
  BY <1>1, <1>4 DEF TypeOK
<1> HIDE DEF words
<1>7. TypeOK'
  <2> DEFINE more == i + 1 \in Words
             done == i + 1 \notin Words
  <2>1. more \in BOOLEAN /\ done \in BOOLEAN
    OBVIOUS
  <2>2. dev' = [dev EXCEPT !.words = words, !.pos = i + 1, !.drq = more, !.busy = done]
    BY <1>3
  <2> HIDE DEF more, done
  <2>3. dev' \in [busy : BOOLEAN, drq : BOOLEAN, err : BOOLEAN,
                 cmd : {"none", "read", "write"}, lba : Lbas \cup {0},
                 words : [Words -> Bytes \X Bytes], pos : 0 .. SectorLen \div 2]
    BY <1>1, <1>5, <1>6, <2>1, <2>2 DEF TypeOK
  <2> QED
    BY <1>1, <1>5, <2>3 DEF TypeOK
<1>8. Writing'
  <2>1. /\ dev'.words = words /\ dev'.pos = i + 1 /\ dev'.lba = dev.lba /\ dev'.cmd = dev.cmd
        /\ dev'.drq <=> i + 1 \in Words
        /\ dev'.busy <=> i + 1 \notin Words
    BY <1>1, <1>3 DEF TypeOK
  <2>2. ASSUME NEW k \in Words, k < i + 1
        PROVE  words[k] = Word(buffer, k)
    <3>1. k = i \/ k < i
      BY <1>1, <2>2, Halves
    <3> QED
      BY <1>1, <1>6, <3>1, Halves DEF Writing
  <2> QED
    BY <1>1, <1>2, <2>1, <2>2 DEF Writing, Word
<1> QED
  BY <1>1, <1>7, <1>8 DEF Inv, CallOK, ProgressOK

LEMMA DriveInv ==
  ASSUME Inv, Drive
  PROVE  Inv'
<1>1. UNCHANGED <<pc, call, buffer, i>> /\ dev.busy /\ TypeOK /\ CallOK /\ ProgressOK
  BY DEF Inv, Drive, Ready, Load, Accept, Flush, Fail
<1>2. pc \notin {"idle", "ready"}
  BY <1>1 DEF ProgressOK
<1>3. CASE Ready
  <2>1. /\ dev' = [dev EXCEPT !.busy = FALSE] /\ dev.cmd = "none" /\ medium' = medium
        /\ dev'.drq = dev.drq /\ dev'.cmd = dev.cmd
    BY <1>1, <1>3 DEF Ready, TypeOK
  <2>2. pc = "init"
    BY <1>1, <2>1 DEF ProgressOK, Commanded, Reading, Writing, CallOK, TypeOK
  <2> QED
    BY <1>1, <2>1, <2>2 DEF Inv, TypeOK, CallOK, ProgressOK, Free
<1>4. CASE Load
  <2>1. pc = "drq" /\ call.kind = "read"
    BY <1>1, <1>4 DEF Load, ProgressOK, Commanded, Reading, Writing, CallOK, TypeOK, Free
  <2>2. /\ dev.pos = 0 /\ i = 0 /\ dev.lba = call.lba /\ call.lba \in Lbas
        /\ dev.cmd = "read"
    BY <1>1, <2>1 DEF ProgressOK, Commanded, CallOK
  <2>3. dev' = [dev EXCEPT !.busy = FALSE, !.drq = TRUE, !.words = medium[call.lba]]
        /\ medium' = medium
    BY <1>4, <2>2 DEF Load
  <2>4. TypeOK'
    BY <1>1, <2>2, <2>3 DEF TypeOK
  <2>5. Commanded'
    BY <1>1, <2>1, <2>2, <2>3 DEF Commanded, TypeOK
  <2> QED
    BY <1>1, <2>1, <2>4, <2>5 DEF Inv, CallOK, ProgressOK
<1>5. CASE Accept
  <2>1. pc = "drq" /\ call.kind = "write" /\ dev.cmd = "write"
    BY <1>1, <1>5, Halves DEF Accept, ProgressOK, Commanded, Reading, Writing, CallOK, TypeOK, Free
  <2>2. dev.pos = 0 /\ i = 0 /\ dev.lba = call.lba
    BY <1>1, <2>1 DEF ProgressOK, Commanded
  <2>3. dev' = [dev EXCEPT !.busy = FALSE, !.drq = TRUE] /\ medium' = medium
    BY <1>5 DEF Accept
  <2>4. TypeOK'
    BY <1>1, <2>3 DEF TypeOK
  <2>5. Commanded'
    BY <1>1, <2>1, <2>2, <2>3 DEF Commanded, TypeOK
  <2> QED
    BY <1>1, <2>1, <2>4, <2>5 DEF Inv, CallOK, ProgressOK
<1>6. CASE Flush
  <2>1. /\ pc \in {"transfer", "flush"} /\ call.kind = "write" /\ i \notin Words /\ Writing
        /\ call.lba \in Lbas
    <3>1. dev.cmd = "write" /\ dev.pos \notin Words
      BY <1>6 DEF Flush
    <3>2. dev.pos # 0
      BY <3>1, Halves
    <3>3. pc \notin {"init", "drq"}
      BY <1>1, <3>1, <3>2 DEF ProgressOK, Commanded, Free
    <3>4. pc \in {"transfer", "flush"}
      BY <1>1, <1>2, <3>3 DEF TypeOK
    <3>5. call.kind = "write" /\ Writing
      BY <1>1, <3>4 DEF ProgressOK, Reading, CallOK
    <3> QED
      BY <1>1, <3>1, <3>4, <3>5 DEF Writing, CallOK
  <2>2. /\ medium' = [medium EXCEPT ![call.lba] = dev.words]
        /\ dev' = [dev EXCEPT !.busy = FALSE, !.cmd = "none"]
    BY <1>6, <2>1 DEF Flush, Writing
  <2>3. TypeOK'
    BY <1>1, <2>1, <2>2 DEF TypeOK
  <2>4. Writing'
    BY <1>1, <2>1, <2>2 DEF Writing, TypeOK
  <2> QED
    BY <1>1, <2>1, <2>3, <2>4 DEF Inv, CallOK, ProgressOK
<1>7. CASE Fail
  <2>1. /\ dev' = [dev EXCEPT !.busy = FALSE, !.err = TRUE, !.cmd = "none"]
        /\ medium' = medium /\ dev.cmd # "none"
        /\ (IF dev.pos = 0 THEN "command" ELSE "flush") \in Faults
    BY <1>7 DEF Fail
  <2>2. TypeOK'
    BY <1>1, <2>1 DEF TypeOK
  <2>3. pc # "init"
    BY <1>1, <2>1 DEF ProgressOK, Free
  <2>4. CASE pc = "drq"
    <3>1. Commanded'
      BY <1>1, <2>1, <2>4 DEF Commanded, ProgressOK, TypeOK, Free, CallOK
    <3> QED
      BY <1>1, <2>2, <2>4, <3>1 DEF Inv, CallOK, ProgressOK
  <2>5. CASE pc \in {"transfer", "flush"}
    <3>1. Writing /\ call.kind = "write" /\ i \notin Words
      BY <1>1, <2>5 DEF ProgressOK, Reading, Writing, CallOK
    <3>2. dev.pos # 0
      BY <3>1, Halves DEF Writing
    <3>3. Writing'
      BY <1>1, <2>1, <3>1, <3>2 DEF Writing, TypeOK
    <3> QED
      BY <1>1, <2>2, <2>5, <3>1, <3>3 DEF Inv, CallOK, ProgressOK
  <2> QED
    BY <1>1, <1>2, <2>3, <2>4, <2>5 DEF TypeOK
<1> QED
  BY <1>3, <1>4, <1>5, <1>6, <1>7 DEF Drive

LEMMA NextInv == Inv /\ [Next]_vars => Inv'
<1> SUFFICES ASSUME Inv, [Next]_vars PROVE Inv'
  OBVIOUS
<1>1. CASE PowerOff
  <2>1. TypeOK'
    BY <1>1, ZeroTypes DEF PowerOff, Inv, TypeOK
  <2> QED
    BY <1>1, <2>1 DEF PowerOff, Inv, CallOK, ProgressOK, Free, SpinUp
<1>2. CASE UNCHANGED vars
  BY <1>2 DEF vars, Inv, TypeOK, CallOK, ProgressOK, Free, Commanded, Reading, Writing
<1> QED
  BY <1>1, <1>2, ControlInv, IssueInv, ReadWordInv, WriteWordInv, DriveInv
  DEF Next, Driver

LEMMA Invariance == Spec => []Inv
<1>1. Init => Inv
  BY InitInv
<1>2. Inv /\ [Next]_vars => Inv'
  BY NextInv
<1> QED
  BY <1>1, <1>2, PTL DEF Spec

\* The transfer never leaves the caller's buffer, nor the words of the drive.
THEOREM TypeCorrect == Spec => []TypeOK
<1>1. Inv => TypeOK
  BY DEF Inv
<1> QED
  BY <1>1, Invariance, PTL
-----------------------------------------------------------------------------
(* The refinement, for a drive that writes what it has taken.  The         *)
(* linearization point of a write is the drive's Flush.                    *)

\* The state of SectorStore, as ImplementsSectorStore maps it.
DiskMap   == [l \in Lbas |-> SectorBytes(medium[l])]
ReqMap    == CASE call.kind = "none"  -> [kind |-> "none"]
               [] call.kind = "read"  -> [kind |-> "read", lba |-> call.lba]
               [] call.kind = "write" -> [kind |-> "write", lba |-> call.lba,
                                          data |-> buffer, done |-> Written]
ResultMap == IF call.kind = "none" THEN buffer ELSE NoData

LEMMA SectorOfWords ==
  ASSUME NEW words \in [Words -> Bytes \X Bytes], NEW b \in Sectors,
         \A k \in Words : words[k] = Word(b, k)
  PROVE  SectorBytes(words) = b
<1>1. ASSUME NEW j \in 0 .. SectorLen - 1
      PROVE  words[j \div 2][(j % 2) + 1] = b[j]
  <2>1. words[j \div 2] = <<b[2 * (j \div 2)], b[2 * (j \div 2) + 1]>>
    BY ByteOfWord DEF Word
  <2>2. CASE j = 2 * (j \div 2) /\ (j % 2) + 1 = 1
    BY <2>1, <2>2
  <2>3. CASE j = 2 * (j \div 2) + 1 /\ (j % 2) + 1 = 2
    BY <2>1, <2>3
  <2> QED
    BY ByteOfWord, <2>2, <2>3
<1> QED
  BY <1>1 DEF SectorBytes, Sectors

LEMMA ZeroSector == SectorBytes(NoWords) = Zeroes
<1>1. NoWords \in [Words -> Bytes \X Bytes] /\ Zeroes \in Sectors
  BY ZeroTypes
<1>2. ASSUME NEW k \in Words
      PROVE  NoWords[k] = Word(Zeroes, k)
  BY WordOfBytes DEF NoWords, Zeroes, Word
<1> QED
  BY <1>1, <1>2, SectorOfWords

\* What a busy drive is at.
LEMMA AtWork ==
  ASSUME Inv, dev.busy
  PROVE  \/ pc = "init" /\ dev.cmd = "none"
         \/ pc = "drq" /\ dev.cmd = call.kind /\ dev.pos = 0
         \/ /\ pc \in {"transfer", "flush"} /\ dev.cmd = "write" /\ dev.pos # 0
            /\ call.kind = "write" /\ i \notin Words /\ Writing
<1>1. CASE pc = "init"
  BY <1>1 DEF Inv, ProgressOK, Free
<1>2. CASE pc = "drq"
  BY <1>2 DEF Inv, ProgressOK, Commanded
<1>3. CASE pc \in {"transfer", "flush"}
  <2>1. call.kind = "write" /\ Writing
    BY <1>3 DEF Inv, ProgressOK, Reading, CallOK
  <2>2. i \notin Words /\ dev.cmd = "write" /\ dev.pos = i
    BY <2>1 DEF Writing
  <2> QED
    BY <1>3, <2>1, <2>2, Halves
<1> QED
  BY <1>1, <1>2, <1>3 DEF Inv, TypeOK, ProgressOK

LEMMA InitMap == Init => Sector!Init
<1> SUFFICES ASSUME Init PROVE Sector!Init
  OBVIOUS
<1>1. medium = [l \in Lbas |-> NoWords] /\ call.kind = "none" /\ buffer = Zeroes
  BY DEF Init, NoCall
<1>2. DiskMap = [l \in Lbas |-> Zeroes]
  BY <1>1, ZeroSector DEF DiskMap
<1>3. ReqMap = Sector!NoReq /\ ResultMap = Zeroes
  BY <1>1 DEF ReqMap, ResultMap, Sector!NoReq
<1> QED
  BY <1>2, <1>3 DEF Sector!Init, DiskMap, ReqMap, ResultMap

\* What the caller cannot see: the steps of the two sides within a call.
Hidden ==
  \/ AtaInit \/ Issue \/ WaitDrq \/ ReadWord \/ WriteWord \/ EndTransfer
  \/ Ready \/ Load \/ Accept \/ Fail \/ UNCHANGED vars

LEMMA HiddenMap ==
  ASSUME "flush" \notin Faults, Inv, Hidden
  PROVE  UNCHANGED <<DiskMap, ReqMap, ResultMap>>
<1>1. /\ medium' = medium /\ call' = call
      /\ call.kind # "read" => buffer' = buffer
  BY DEF Hidden, AtaInit, Issue, WaitDrq, ReadWord, WriteWord, EndTransfer, Ready, Load,
         Accept, Fail, vars
<1>2. call.kind = "write" => (Written' <=> Written)
  <2> SUFFICES ASSUME call.kind = "write"
               PROVE  Written' <=> Written
    OBVIOUS
  <2>1. CASE AtaInit \/ Issue
    BY <2>1 DEF AtaInit, Issue, Written
  <2>2. CASE WaitDrq
    BY <2>2, Halves DEF WaitDrq, Written, Inv, ProgressOK, Commanded
  <2>3. CASE WriteWord
    <3>1. ~ Written
      BY <2>3 DEF WriteWord, Written
    <3>2. dev.pos = i /\ i' = i + 1 /\ dev'.busy = (dev.pos + 1 \notin Words)
      BY <2>3 DEF WriteWord, Inv, ProgressOK, Writing, TypeOK
    <3> QED
      BY <3>1, <3>2 DEF Written
  <2>4. CASE EndTransfer \/ UNCHANGED vars
    BY <2>4 DEF EndTransfer, Written, vars
  <2>5. CASE Ready \/ Accept \/ Fail
    <3>1. UNCHANGED <<pc, i>> /\ dev.busy
      BY <2>5 DEF Ready, Accept, Fail
    <3>2. pc \in {"init", "drq"}
      BY <2>5, <3>1, AtWork DEF Ready, Accept, Fail
    <3> QED
      BY <3>1, <3>2 DEF Written
  <2>6. CASE ReadWord
    BY <2>6 DEF ReadWord
  <2>7. CASE Load
    BY <2>7, AtWork DEF Load, Written
  <2> QED
    BY <2>1, <2>2, <2>3, <2>4, <2>5, <2>6, <2>7 DEF Hidden
<1>3. DiskMap' = DiskMap
  BY <1>1 DEF DiskMap
<1>4. ReqMap' = ReqMap
  <2>1. CASE call.kind = "none"
    BY <1>1, <2>1 DEF ReqMap
  <2>2. CASE call.kind = "read"
    BY <1>1, <2>2 DEF ReqMap
  <2>3. CASE call.kind = "write"
    <3>1. Written' = Written
      BY <1>2, <2>3 DEF Written
    <3> QED
      BY <1>1, <2>3, <3>1 DEF ReqMap
  <2> QED
    BY <2>1, <2>2, <2>3 DEF Inv, TypeOK
<1>5. ResultMap' = ResultMap
  BY <1>1 DEF ResultMap
<1> QED
  BY <1>3, <1>4, <1>5

LEMMA CallMap ==
  ASSUME Inv, \E l \in Lbas : ReadSector(l) \/ \E b \in Buffers : WriteSector(l, b)
  PROVE  Sector!Next
<1>1. call = NoCall /\ ReqMap = Sector!NoReq
  BY DEF Inv, CallOK, ReadSector, WriteSector, ReqMap, NoCall, Sector!NoReq
<1>2. ASSUME NEW l \in Lbas, ReadSector(l)
      PROVE  Sector!Read(l)
  <2>1. ReqMap' = [kind |-> "read", lba |-> l] /\ ResultMap' = NoData /\ DiskMap' = DiskMap
    BY <1>2 DEF ReadSector, ReqMap, ResultMap, DiskMap
  <2> QED
    BY <1>1, <2>1 DEF Sector!Read, ReqMap, ResultMap, DiskMap
<1>3. ASSUME NEW l \in Lbas, NEW b \in Buffers, WriteSector(l, b)
      PROVE  Sector!Write(l, b)
  <2>1. ~ Written'
    BY <1>3 DEF WriteSector, Written
  <2>2. /\ ReqMap' = [kind |-> "write", lba |-> l, data |-> b, done |-> FALSE]
        /\ ResultMap' = NoData /\ DiskMap' = DiskMap
    <3>1. /\ call'.kind = "write" /\ call'.lba = l /\ buffer' = b /\ medium' = medium
          /\ Written' = FALSE
      BY <1>3, <2>1 DEF WriteSector, Written
    <3> QED
      BY <3>1 DEF ReqMap, ResultMap, DiskMap
  <2> QED
    BY <1>1, <2>2 DEF Sector!Write, ReqMap, ResultMap, DiskMap
<1> QED
  BY <1>2, <1>3 DEF Sector!Next

\* The words the drive holds when a transfer is over are the caller's buffer.
LEMMA TransferredBytes ==
  ASSUME Inv, i \notin Words,
         \/ pc = "transfer" /\ call.kind = "read"
         \/ pc \in {"transfer", "flush"} /\ call.kind = "write"
  PROVE  SectorBytes(dev.words) = buffer
<1>1. i = SectorLen \div 2 /\ \A k \in Words : k < i
  BY Halves DEF Inv, TypeOK, Words
<1>2. Reading \/ Writing
  BY DEF Inv, ProgressOK
<1>3. \A k \in Words : dev.words[k] = Word(buffer, k)
  BY <1>1, <1>2 DEF Reading, Writing
<1> QED
  BY <1>3, SectorOfWords DEF Inv, TypeOK

LEMMA FlushMap ==
  ASSUME Inv, Flush
  PROVE  Sector!Perform
<1>1. /\ pc \in {"transfer", "flush"} /\ call.kind = "write" /\ i \notin Words /\ Writing
      /\ call.lba \in Lbas
  BY AtWork, Halves DEF Flush, Inv, CallOK
<1>2. /\ UNCHANGED <<pc, call, buffer, i>> /\ dev.busy /\ ~ dev'.busy
      /\ medium' = [medium EXCEPT ![call.lba] = dev.words]
  BY <1>1 DEF Flush, Writing, Inv, TypeOK
<1>3. Written = FALSE /\ Written' = TRUE
  BY <1>1, <1>2 DEF Written
<1>4. SectorBytes(dev.words) = buffer
  BY <1>1, TransferredBytes
<1>5. ReqMap = [kind |-> "write", lba |-> call.lba, data |-> buffer, done |-> FALSE]
  BY <1>1, <1>3 DEF ReqMap
<1>6. ReqMap' = [kind |-> "write", lba |-> call.lba, data |-> buffer, done |-> TRUE]
  BY <1>1, <1>2, <1>3 DEF ReqMap
<1>7. ResultMap' = ResultMap
  BY <1>2 DEF ResultMap
<1>8. DiskMap' = [DiskMap EXCEPT ![call.lba] = buffer]
  <2>1. ASSUME NEW l \in Lbas
        PROVE  SectorBytes(medium'[l])
                 = IF l = call.lba THEN buffer ELSE SectorBytes(medium[l])
    BY <1>1, <1>2, <1>4 DEF Inv, TypeOK
  <2> QED
    BY <1>1, <2>1 DEF DiskMap
<1>9. /\ ReqMap.kind = "write" /\ ~ ReqMap.done /\ ReqMap.lba = call.lba /\ ReqMap.data = buffer
      /\ ReqMap' = [ReqMap EXCEPT !.done = TRUE]
  <2>1. ASSUME NEW c, NEW d
        PROVE  [[kind |-> "write", lba |-> call.lba, data |-> buffer, done |-> c] EXCEPT !.done = d]
                 = [kind |-> "write", lba |-> call.lba, data |-> buffer, done |-> d]
    OBVIOUS
  <2>2. ReqMap' = [ReqMap EXCEPT !.done = TRUE]
    BY <1>5, <1>6, <2>1, Zenon
  <2> QED
    BY <1>5, <2>2
<1> QED
  BY <1>7, <1>8, <1>9 DEF Sector!Perform, ReqMap, ResultMap, DiskMap

LEMMA ReturnMap ==
  ASSUME "flush" \notin Faults, Inv, ReturnRead \/ ReturnWrite
  PROVE  Sector!ReturnRead \/ Sector!ReturnWrite
<1>1. /\ call' = NoCall /\ medium' = medium /\ buffer' = buffer /\ call.lba \in Lbas
  BY DEF ReturnRead, ReturnWrite, Inv, CallOK
<1>2. ReqMap' = Sector!NoReq /\ ResultMap' = buffer /\ DiskMap' = DiskMap
  BY <1>1 DEF ReqMap, ResultMap, DiskMap, NoCall, Sector!NoReq
<1>3. CASE ReturnRead
  <2>1. pc = "transfer" /\ call.kind = "read" /\ i \notin Words /\ Reading
    BY <1>3 DEF ReturnRead, Inv, ProgressOK
  <2>2. DiskMap[call.lba] = buffer
    BY <1>1, <2>1, TransferredBytes DEF DiskMap, Reading
  <2>3. ReqMap = [kind |-> "read", lba |-> call.lba]
    BY <2>1 DEF ReqMap
  <2>4. ReqMap.kind = "read" /\ ReqMap.lba = call.lba
    BY <2>3
  <2> QED
    BY <1>2, <2>2, <2>4 DEF Sector!ReturnRead, ReqMap, ResultMap, DiskMap
<1>4. CASE ReturnWrite
  <2>1. pc = "flush" /\ ~ dev.busy /\ call.kind = "write" /\ i \notin Words
    BY <1>4 DEF ReturnWrite, Inv, ProgressOK
  <2>2. Written = TRUE
    BY <2>1 DEF Written
  <2>3. ReqMap = [kind |-> "write", lba |-> call.lba, data |-> buffer, done |-> TRUE]
    BY <2>1, <2>2 DEF ReqMap
  <2>4. ReqMap.kind = "write" /\ ReqMap.done /\ ReqMap.data = buffer
    BY <2>3
  <2> QED
    BY <1>2, <2>4 DEF Sector!ReturnWrite, ReqMap, ResultMap, DiskMap
<1> QED
  BY <1>3, <1>4

LEMMA PowerOffMap ==
  ASSUME PowerOff
  PROVE  Sector!PowerOff
<1>1. ReqMap' = Sector!NoReq /\ ResultMap' = Zeroes /\ DiskMap' = DiskMap
  BY DEF PowerOff, ReqMap, ResultMap, DiskMap, NoCall, Sector!NoReq
<1> QED
  BY <1>1 DEF Sector!PowerOff, ReqMap, ResultMap, DiskMap

\* "ata_read_sector" and "ata_write_sector" are what the file system takes them
\* for, whatever the delays, the refused commands and the losses of power: every
\* read returns the sector, and every write is on the medium before it returns.
\* The assumption is the one that Ata_fault shows to be needed.
THEOREM SectorRefinement ==
  ASSUME "flush" \notin Faults
  PROVE  Spec => ImplementsSectorStore
<1>1. Init => Sector!Init
  BY InitMap
<1>2. ASSUME Inv, [Next]_vars
      PROVE  [Sector!Next]_<<DiskMap, ReqMap, ResultMap>>
  <2>1. CASE Hidden
    BY <1>2, <2>1, HiddenMap
  <2>2. CASE \E l \in Lbas : ReadSector(l) \/ \E b \in Buffers : WriteSector(l, b)
    BY <1>2, <2>2, CallMap
  <2>3. CASE Flush
    BY <1>2, <2>3, FlushMap DEF Sector!Next
  <2>4. CASE ReturnRead \/ ReturnWrite
    BY <1>2, <2>4, ReturnMap DEF Sector!Next
  <2>5. CASE PowerOff
    BY <2>5, PowerOffMap DEF Sector!Next
  <2> QED
    BY <1>2, <2>1, <2>2, <2>3, <2>4, <2>5 DEF Next, Driver, Drive, Hidden
<1> QED
  BY <1>1, <1>2, Invariance, PTL DEF Spec, ImplementsSectorStore, Sector!Spec, DiskMap,
     ReqMap, ResultMap

\* What ata_write_sector was given is on the medium when it returns 0, unless the
\* drive failed to write what it had taken: the status it does not look at.
THEOREM ReturnedIsOnMedium ==
  ASSUME "flush" \notin Faults
  PROVE  Spec => WriteIsOnMedium
<1>1. ASSUME Inv, [Next]_vars
      PROVE  [ReturnWrite => SectorBytes(medium'[call.lba]) = buffer]_vars
  <2> SUFFICES ASSUME ReturnWrite
               PROVE  SectorBytes(medium'[call.lba]) = buffer
    OBVIOUS
  <2>1. /\ pc = "flush" /\ ~ dev.busy /\ call.kind = "write" /\ i \notin Words /\ Writing
        /\ medium' = medium
    BY <1>1 DEF ReturnWrite, Inv, ProgressOK
  <2>2. medium[call.lba] = dev.words
    BY <2>1 DEF Writing
  <2> QED
    BY <1>1, <2>1, <2>2, TransferredBytes
<1> QED
  BY <1>1, Invariance, PTL DEF Spec, WriteIsOnMedium
=============================================================================
