--------------------------------- MODULE Ata ----------------------------------
(***************************************************************************)
(* The PIO driver of drivers/ata.c against an ATA drive.  The driver is a  *)
(* polling loop: interrupts of the drive are disabled (nIEN), so driver    *)
(* and drive run side by side and meet in the status, the registers and    *)
(* the data port.  The drive is external: it is modelled from what the     *)
(* driver waits for, with commands that may fail.                          *)
(***************************************************************************)
EXTENDS Integers

CONSTANTS
  Lbas,       \* sector numbers the caller uses
  SectorLen,  \* 512: bytes of a sector, two to a word
  Bytes,      \* values of a byte
  ZeroByte,   \* what memory and a fresh disk hold
  Buffers,    \* buffers the caller writes
  Faults,     \* when a command may fail: "command", "flush"
  NoData      \* stands for the buffer of a call in progress (refinement)

Words   == 0 .. SectorLen \div 2 - 1
Sectors == [0 .. SectorLen - 1 -> Bytes]
Zeroes  == [j \in 0 .. SectorLen - 1 |-> ZeroByte]

\* The last sector that 28 bits can name.
MaxLba == 268435455

ASSUME AtaAssumption ==
  /\ SectorLen \in Nat \ {0} /\ SectorLen % 2 = 0
  /\ Lbas \subseteq 0 .. MaxLba
  /\ ZeroByte \in Bytes
  /\ Buffers \subseteq Sectors
  /\ Faults \subseteq {"command", "flush"}
  /\ NoData \notin Sectors

VARIABLES
  pc,      \* where the driver is
  call,    \* the call in progress: its kind and LBA
  buffer,  \* the caller's 512 bytes
  i,       \* index of the transfer loop
  dev,     \* the drive: status bits, command, registers and word buffer
  medium   \* the sectors, each a function of words <<low byte, high byte>>

vars == <<pc, call, buffer, i, dev, medium>>

NoCall == [kind |-> "none", lba |-> 0]

TypeOK ==
  /\ pc \in {"init", "idle", "ready", "drq", "transfer", "flush"}
  /\ call \in [kind : {"none", "read", "write"}, lba : Lbas \cup {0}]
  /\ buffer \in Sectors
  /\ i \in 0 .. SectorLen \div 2
  /\ dev \in [busy : BOOLEAN, drq : BOOLEAN, err : BOOLEAN,
              cmd : {"none", "read", "write"}, lba : Lbas \cup {0},
              words : [Words -> Bytes \X Bytes], pos : 0 .. SectorLen \div 2]
  /\ medium \in [Lbas -> [Words -> Bytes \X Bytes]]

\* buffer[i*2] | buffer[i*2+1] << 8
Word(b, k) == <<b[2 * k], b[2 * k + 1]>>

\* The LBA registers, and the sector the drive makes of them.
Registers(lba) ==
  [lo |-> lba % 256, mid |-> (lba \div 256) % 256,
   hi |-> (lba \div 65536) % 256, drive |-> (lba \div 16777216) % 16]
Address(regs) ==
  regs.lo + 256 * regs.mid + 65536 * regs.hi + 16777216 * regs.drive

NoWords == [k \in Words |-> <<ZeroByte, ZeroByte>>]

\* The drive spins up while the kernel boots.
SpinUp ==
  [busy |-> TRUE, drq |-> FALSE, err |-> FALSE, cmd |-> "none", lba |-> 0,
   words |-> NoWords, pos |-> 0]

Init ==
  /\ pc = "init"
  /\ call = NoCall
  /\ buffer = Zeroes
  /\ i = 0
  /\ dev = SpinUp
  /\ medium = [l \in Lbas |-> NoWords]

-----------------------------------------------------------------------------
(* The driver.                                                             *)

\* ata_init ends when BSY is clear.
AtaInit ==
  /\ pc = "init"
  /\ ~ dev.busy
  /\ pc' = "idle"
  /\ UNCHANGED <<call, buffer, i, dev, medium>>

ReadSector(l) ==
  /\ pc = "idle"
  /\ pc' = "ready"
  /\ call' = [kind |-> "read", lba |-> l]
  /\ UNCHANGED <<buffer, i, dev, medium>>

WriteSector(l, b) ==
  /\ pc = "idle"
  /\ pc' = "ready"
  /\ call' = [kind |-> "write", lba |-> l]
  /\ buffer' = b
  /\ UNCHANGED <<i, dev, medium>>

\* After ata_wait_ready: the registers, then the command, which makes the drive
\* busy.
Issue ==
  /\ pc = "ready"
  /\ ~ dev.busy
  /\ dev' = [dev EXCEPT !.busy = TRUE, !.err = FALSE, !.cmd = call.kind,
                        !.lba = Address(Registers(call.lba)), !.pos = 0]
  /\ pc' = "drq"
  /\ i' = 0
  /\ UNCHANGED <<call, buffer, medium>>

\* ata_wait_drq looks at DRQ only, not at BSY or ERR.
WaitDrq ==
  /\ pc = "drq"
  /\ dev.drq
  /\ pc' = "transfer"
  /\ UNCHANGED <<call, buffer, i, dev, medium>>

\* inw: the drive moves on to the next word, and ends the command after the last.
ReadWord ==
  /\ pc = "transfer" /\ call.kind = "read"
  /\ i \in Words
  /\ buffer' = [buffer EXCEPT ![2 * i] = dev.words[dev.pos][1],
                              ![2 * i + 1] = dev.words[dev.pos][2]]
  /\ dev' = [dev EXCEPT !.pos = @ + 1,
                        !.drq = dev.pos + 1 \in Words,
                        !.cmd = IF dev.pos + 1 \in Words THEN @ ELSE "none"]
  /\ i' = i + 1
  /\ UNCHANGED <<pc, call, medium>>

\* outw: after the last word the drive is busy with the medium.
WriteWord ==
  /\ pc = "transfer" /\ call.kind = "write"
  /\ i \in Words
  /\ dev' = [dev EXCEPT !.words[dev.pos] = Word(buffer, i),
                        !.pos = @ + 1,
                        !.drq = dev.pos + 1 \in Words,
                        !.busy = dev.pos + 1 \notin Words]
  /\ i' = i + 1
  /\ UNCHANGED <<pc, call, buffer, medium>>

ReturnRead ==
  /\ pc = "transfer" /\ call.kind = "read"
  /\ i \notin Words
  /\ pc' = "idle"
  /\ call' = NoCall
  /\ UNCHANGED <<buffer, i, dev, medium>>

\* Mutant: no ata_wait_ready after the last word.
NoFlushWait ==
  /\ pc = "transfer" /\ call.kind = "write"
  /\ i \notin Words
  /\ pc' = "idle"
  /\ call' = NoCall
  /\ UNCHANGED <<buffer, i, dev, medium>>
EndTransfer ==
  /\ pc = "transfer" /\ call.kind = "write"
  /\ i \notin Words
  /\ pc' = "flush"
  /\ UNCHANGED <<call, buffer, i, dev, medium>>

\* Mutant: ata_wait_drq in its place.
ReturnOnDrq ==
  /\ pc = "flush"
  /\ dev.drq
  /\ pc' = "idle"
  /\ call' = NoCall
  /\ UNCHANGED <<buffer, i, dev, medium>>
\* The last ata_wait_ready; the status is not tested for ERR.
ReturnWrite ==
  /\ pc = "flush"
  /\ ~ dev.busy
  /\ pc' = "idle"
  /\ call' = NoCall
  /\ UNCHANGED <<buffer, i, dev, medium>>

Driver ==
  \/ AtaInit \/ Issue \/ WaitDrq
  \/ ReadWord \/ WriteWord \/ ReturnRead \/ EndTransfer \/ ReturnWrite

-----------------------------------------------------------------------------
(* The drive.                                                              *)

Ready ==
  /\ dev.busy /\ dev.cmd = "none"
  /\ dev' = [dev EXCEPT !.busy = FALSE]
  /\ UNCHANGED <<pc, call, buffer, i, medium>>

Load ==
  /\ dev.busy /\ dev.cmd = "read"
  /\ dev' = [dev EXCEPT !.busy = FALSE, !.drq = TRUE, !.words = medium[dev.lba]]
  /\ UNCHANGED <<pc, call, buffer, i, medium>>

Accept ==
  /\ dev.busy /\ dev.cmd = "write" /\ dev.pos = 0
  /\ dev' = [dev EXCEPT !.busy = FALSE, !.drq = TRUE]
  /\ UNCHANGED <<pc, call, buffer, i, medium>>

Flush ==
  /\ dev.busy /\ dev.cmd = "write" /\ dev.pos \notin Words
  /\ medium' = [medium EXCEPT ![dev.lba] = dev.words]
  /\ dev' = [dev EXCEPT !.busy = FALSE, !.cmd = "none"]
  /\ UNCHANGED <<pc, call, buffer, i>>

\* A command is aborted, or its data do not reach the medium.
Fail ==
  /\ dev.busy /\ dev.cmd # "none"
  /\ (IF dev.pos = 0 THEN "command" ELSE "flush") \in Faults
  /\ dev' = [dev EXCEPT !.busy = FALSE, !.err = TRUE, !.cmd = "none"]
  /\ UNCHANGED <<pc, call, buffer, i, medium>>

Drive == Ready \/ Load \/ Accept \/ Flush \/ Fail

\* Power comes back at once: driver and drive start again, the medium stays.
PowerOff ==
  /\ pc' = "init"
  /\ call' = NoCall
  /\ buffer' = Zeroes
  /\ i' = 0
  /\ dev' = SpinUp
  /\ UNCHANGED medium

Next ==
  \/ \E l \in Lbas : ReadSector(l) \/ \E b \in Buffers : WriteSector(l, b)
  \/ Driver
  \/ Drive
  \/ PowerOff

Spec == Init /\ [][Next]_vars

\* The processor runs the loops of the driver, and a drive ends every command.
FairSpec == Spec /\ WF_vars(Driver) /\ WF_vars(Drive)

-----------------------------------------------------------------------------
(* Properties.                                                             *)

SectorBytes(words) ==
  [j \in 0 .. SectorLen - 1 |-> words[j \div 2][(j % 2) + 1]]

\* A write is done when its words are sent and the drive is no longer busy.
Written == pc \in {"transfer", "flush"} /\ i \notin Words /\ ~ dev.busy

\* The sectors the file system sees: calls as the driver's caller knows them.
Sector == INSTANCE SectorStore WITH
  Zeroes <- Zeroes,
  disk   <- [l \in Lbas |-> SectorBytes(medium[l])],
  req    <- CASE call.kind = "none"  -> [kind |-> "none"]
              [] call.kind = "read"  -> [kind |-> "read", lba |-> call.lba]
              [] call.kind = "write" -> [kind |-> "write", lba |-> call.lba,
                                         data |-> buffer, done |-> Written],
  result <- IF call.kind = "none" THEN buffer ELSE NoData

\* The driver and a drive that may refuse a command implement the sectors that
\* FileSystem takes for granted: whatever the drive's delays, a read returns the
\* sector that was asked for, and a write is on the medium, in one step, before
\* ata_write_sector returns.
ImplementsSectorStore == Sector!Spec

\* The polling loops end, whatever the drive's delays, but for a command the
\* drive refuses: ata_wait_drq waits for a DRQ that will not come.
CallsEnd == call.kind # "none" ~> call.kind = "none" \/ dev.err

\* "Wait for the drive to finish physical writing" (ata.c): what
\* ata_write_sector was given is on the medium when it returns 0.  It does not
\* look at ERR, so that a write that fails after its data were taken is reported
\* as done.
WriteIsOnMedium ==
  [][ReturnWrite => SectorBytes(medium'[call.lba]) = buffer]_vars
=============================================================================
