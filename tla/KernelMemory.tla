----------------------------- MODULE KernelMemory -----------------------------
(***************************************************************************)
(* sector_buffer of drivers/filesystem.c and log_buffer of logs/logger.c   *)
(* as the linker places them: the lines of the log lie directly behind the *)
(* buffer.  Sixteen entries are copied to and from a buffer that holds     *)
(* less than six, so that fs_init reads log lines as entries, and every    *)
(* save writes entries over log lines.                                     *)
(*                                                                         *)
(* Logger's log_buffer is here what klog was given for each line, mem is   *)
(* what the memory really holds.                                           *)
(***************************************************************************)
EXTENDS Logger

CONSTANTS
  SectorSize,    \* bytes of sector_buffer
  MaxFiles,      \* FS_MAX_FILES
  EntrySize,     \* sizeof(fs_entry_t)
  NameAt, SizeAt, UsedAt, OwnerAt, PermAt,  \* offsets of its fields
  LineSize,      \* LOG_LENGTH
  Chars,         \* the bytes of messages
  Names,         \* the bytes of file names
  NUL, Set,      \* a zero byte; a byte that is not zero
  BootMessages,  \* what is logged before fs_init reads the table
  InitMessage, FormatMessage  \* what fs_init and fs_format log at their end

Bytes   == Chars \cup Names \cup {NUL, Set}
Slots   == 0 .. MaxFiles - 1
Fields  == 0 .. EntrySize - 1
Entries == [Fields -> Bytes]
Sector  == 0 .. SectorSize - 1
Memory  == 0 .. SectorSize + MaxLogs * LineSize - 1
Table   == 0 .. MaxFiles * EntrySize - 1

ASSUME LayoutAssumption ==
  /\ SectorSize \in Nat \ {0} /\ MaxFiles \in Nat \ {0}
  /\ EntrySize \in Nat \ {0} /\ LineSize \in Nat \ {0}
  /\ {NameAt, SizeAt, UsedAt, OwnerAt, PermAt} \subseteq Fields
  /\ NameAt < SizeAt /\ SizeAt < UsedAt /\ UsedAt < OwnerAt /\ OwnerAt < PermAt
  /\ Table \subseteq Memory

ASSUME ByteAssumption ==
  /\ NUL \notin Chars \cup Names \cup {Set}
  /\ NoMessage = <<>>
  /\ \A m \in Messages : m \in Seq(Chars) /\ Len(m) \in 1 .. LineSize - 1
  /\ Len(BootMessages) \in 1 .. MaxLogs /\ BootMessages[1] = FirstMessage
  /\ \A k \in 1 .. Len(BootMessages) : BootMessages[k] \in Messages
  /\ {InitMessage, FormatMessage} \subseteq Messages

VARIABLES
  mem,       \* sector_buffer and log_buffer
  table,     \* file_table
  dsector,   \* sector 0 of the disk
  loaded,    \* fs_init has run
  saved_at,  \* history: log_count when the table was last saved
  touched,   \* history: the entries commands have changed since the boot
  created    \* history: the names of the files ever created

memory == <<vars, mem, table, dsector, loaded, saved_at, touched, created>>

MemoryTypeOK ==
  /\ TypeOK
  /\ mem \in [Memory -> Bytes]
  /\ table \in [Slots -> Entries]
  /\ dsector \in [Sector -> Bytes]
  /\ loaded \in BOOLEAN
  /\ saved_at \in 0 .. log_count
  /\ touched \subseteq Slots
  /\ created \subseteq Names

-----------------------------------------------------------------------------
(* The log in memory.                                                      *)

LineAddress(i) == SectorSize + i * LineSize

\* Mutant: the NUL behind a message is not written.
PutMessageOnly(i, m, mm) ==
  [a \in Memory |->
     IF a \in LineAddress(i) .. LineAddress(i) + Len(m) - 1
       THEN m[a - LineAddress(i) + 1] ELSE mm[a]]
\* klog copies the message and a NUL, and leaves the rest of the line.
PutMessage(i, m, mm) ==
  [a \in Memory |->
     IF a = LineAddress(i) + Len(m) THEN NUL
     ELSE IF a \in LineAddress(i) .. LineAddress(i) + Len(m) - 1
       THEN m[a - LineAddress(i) + 1] ELSE mm[a]]

\* What terminal_writestring prints of a line: everything before the next NUL,
\* which need not be in the same line.
TextAt(i) ==
  LET ends == {a \in Memory : a >= LineAddress(i) /\ mem[a] = NUL}
      last == (CHOOSE a \in ends : \A b \in ends : a <= b) - LineAddress(i)
  IN  [j \in 1 .. last |-> mem[LineAddress(i) + j - 1]]

\* klog, on the memory mm.
Log(m, mm) ==
  /\ Klog(m)
  /\ mem' = PutMessage(log_head, m, mm)

\* Before fs_init the messages are those of the boot, in their order.
MemoryKlog(m) ==
  /\ ~ loaded => log_count < Len(BootMessages) /\ m = BootMessages[log_count + 1]
  /\ Log(m, mem)
  /\ UNCHANGED <<table, dsector, loaded, saved_at, touched, created>>

-----------------------------------------------------------------------------
(* The table in memory.                                                    *)

\* Mutants: only the entries that fit in the sector are read, the others are
\* zeroed; the copy is off by one entry.
TableFitting(mm) ==
  [i \in Slots |-> [o \in Fields |->
     IF (i + 1) * EntrySize <= SectorSize THEN mm[i * EntrySize + o] ELSE NUL]]
TableShifted(mm) ==
  [i \in Slots |-> [o \in Fields |-> mm[(IF i + 1 \in Slots THEN i + 1 ELSE i) * EntrySize + o]]]
\* fs_init copies every entry from sector_buffer on.
TableFrom(mm) == [i \in Slots |-> [o \in Fields |-> mm[i * EntrySize + o]]]

\* Mutant: the copy runs one entry too far.
ImagePast(tbl, mm) ==
  [a \in Memory |->
     IF a \div EntrySize \in Slots THEN tbl[a \div EntrySize][a % EntrySize]
     ELSE IF a \div EntrySize = MaxFiles THEN NUL ELSE mm[a]]
\* fs_save_table and fs_format copy every entry to sector_buffer and on.
Image(tbl, mm) ==
  [a \in Memory |-> IF a \in Table THEN tbl[a \div EntrySize][a % EntrySize] ELSE mm[a]]

\* fs_init: sector 0 is read to the buffer, then the entries from there on.
LoadTable ==
  /\ ~ loaded /\ log_count = Len(BootMessages)
  /\ LET mm == [a \in Memory |-> IF a \in Sector THEN dsector[a] ELSE mem[a]] IN
     /\ table' = TableFrom(mm)
     /\ Log(InitMessage, mm)
  /\ loaded' = TRUE
  /\ UNCHANGED <<dsector, saved_at, touched, created>>

\* mem' is left to the caller: Image(tbl, mem), and what it logs.
SaveTable(tbl) ==
  /\ table' = tbl
  /\ dsector' = [a \in Sector |-> Image(tbl, mem)[a]]
  /\ saved_at' = log_count

Used(i) == table[i][UsedAt] # NUL
Called(n) == {i \in Slots : Used(i) /\ table[i][NameAt] = n}
Free == {i \in Slots : ~ Used(i)}
FirstOf(S) == CHOOSE i \in S : \A j \in S : i <= j

\* fs_write_file; owner is the one field it does not assign.
CreateFile(n) ==
  /\ loaded
  /\ Called(n) \cup Free # {}
  /\ LET i == FirstOf(IF Called(n) # {} THEN Called(n) ELSE Free) IN
     /\ SaveTable([table EXCEPT ![i] =
          [@ EXCEPT ![NameAt] = n, ![SizeAt] = Set, ![UsedAt] = Set, ![PermAt] = Set]])
     /\ touched' = touched \cup {i}
  /\ mem' = Image(table', mem)
  /\ created' = created \cup {n}
  /\ UNCHANGED <<vars, loaded>>

\* fs_delete_file; the entry may be one that fs_init took from the log.
DeleteFile(n) ==
  /\ loaded
  /\ Called(n) # {}
  /\ SaveTable([table EXCEPT ![FirstOf(Called(n))] =
       [@ EXCEPT ![NameAt] = NUL, ![UsedAt] = NUL]])
  /\ mem' = Image(table', mem)
  /\ touched' = touched \cup {FirstOf(Called(n))}
  /\ UNCHANGED <<vars, loaded, created>>

Format ==
  /\ loaded
  /\ SaveTable([i \in Slots |-> [[o \in Fields |-> NUL] EXCEPT ![PermAt] = Set]])
  /\ Log(FormatMessage, Image(table', mem))
  /\ touched' = Slots
  /\ UNCHANGED <<loaded, created>>

\* A reset: the memory is zero, logger_init logs its message.
MemoryReboot ==
  /\ Reboot
  /\ mem' = PutMessage(0, FirstMessage, [a \in Memory |-> NUL])
  /\ table' = [i \in Slots |-> [o \in Fields |-> NUL]]
  /\ loaded' = FALSE
  /\ saved_at' = 0
  /\ touched' = {}
  /\ UNCHANGED <<dsector, created>>

MemoryInit ==
  /\ Init
  /\ mem = PutMessage(0, FirstMessage, [a \in Memory |-> NUL])
  /\ table = [i \in Slots |-> [o \in Fields |-> NUL]]
  /\ dsector = [a \in Sector |-> NUL]
  /\ loaded = FALSE
  /\ saved_at = 0
  /\ touched = {}
  /\ created = {}

MemoryNext ==
  \/ \E m \in Messages : MemoryKlog(m)
  \/ LoadTable
  \/ \E n \in Names : CreateFile(n)
  \/ \E n \in Names \cup Chars : DeleteFile(n)
  \/ Format
  \/ MemoryReboot

MemorySpec == MemoryInit /\ [][MemoryNext]_memory

-----------------------------------------------------------------------------
(* Properties.                                                             *)

\* The line holds a message, and the number of that message since boot.
Written(i) == i < log_count
Number(i)  == CHOOSE k \in 1 .. log_count :
                k % MaxLogs = (i + 1) % MaxLogs /\ k + MaxLogs > log_count

\* No byte of the line is one that a save of the table writes.
BehindTable(i) == LineAddress(i) >= MaxFiles * EntrySize

\* A line reads as it was logged if no save has run since, or if it lies behind
\* all sixteen entries: neither a neighbour in the ring nor the rest of a longer
\* message that stood there shows through.
LinesAreKept ==
  \A i \in Lines :
    (Written(i) /\ (Number(i) > saved_at \/ BehindTable(i))) => TextAt(i) = log_buffer[i]

\* No byte of the entry lies behind the buffer.
InSector(i) == (i + 1) * EntrySize <= SectorSize

\* The lines of the boot survive any number of saves, although each save writes
\* over them: until a command changes an entry that does not fit in the sector,
\* a save writes back what fs_init had read there.
BootLinesSurvive ==
  (loaded /\ \A i \in touched : InSector(i)) =>
    \A i \in Lines :
      (i < Len(BootMessages) /\ log_count <= MaxLogs + i) => TextAt(i) = log_buffer[i]

\* Entries made of log lines exist, but never among those whose name and used
\* flag lie in sector 0: what the disk shows at a boot was created by somebody.
NoPhantomOnDisk ==
  /\ \A i \in Slots :
       (loaded /\ i * EntrySize + UsedAt \in Sector /\ Used(i)) => table[i][NameAt] \in created
  /\ \A i \in Slots :
       (i * EntrySize + UsedAt \in Sector /\ dsector[i * EntrySize + UsedAt] # NUL)
         => dsector[i * EntrySize + NameAt] \in created
=============================================================================
