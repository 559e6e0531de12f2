------------------------------ MODULE FileSystem ------------------------------
(***************************************************************************)
(* 323FS, the file system of drivers/filesystem.c: a table of file_table   *)
(* entries kept in memory and saved whole to sector 0, and a fixed extent  *)
(* of MaxSectorsPerFile data sectors per table slot.                       *)
(*                                                                         *)
(* The kernel runs one command at a time, so the only things that can fall *)
(* between two device writes of a command are a loss of power and the next *)
(* boot.  A command that writes several sectors is therefore split into    *)
(* one step per sector; a command that only saves the table is one step.   *)
(* A sector write is atomic here.                                          *)
(***************************************************************************)
EXTENDS Integers, Sequences, FiniteSets

CONSTANTS
  FileNames,          \* names given to edit, touch, cp, mv, rm
  DirNames,           \* names given to mkdir, rmdir, cd: sequences of tokens
  Parts,              \* the runs of characters other than '/' in those names
  PhantomName,        \* the name of an entry that only BootGarbage holds
  NoName,             \* the empty string
  Bytes,              \* the bytes a text can hold
  Zero,               \* the NUL byte that pads a sector
  Contents,           \* the texts the editor hands to fs_write_file
  Absent,             \* "no file of that name"
  MaxFiles,           \* FS_MAX_FILES
  MaxSectorsPerFile,  \* FS_MAX_SECTORS_PER_FILE
  SectorSize,         \* FS_SECTOR_SIZE
  PersistedSlots,     \* how many table entries fit in sector 0
  BootGarbage,        \* what fs_init copies into the entries that do not fit
  MaxCwd              \* bound: longest current_directory, in tokens

Names     == FileNames \cup DirNames \cup {PhantomName}
AllBytes  == Bytes \cup {Zero}
Slots     == 0 .. MaxFiles - 1
Persisted == 0 .. PersistedSlots - 1
Capacity  == MaxSectorsPerFile * SectorSize

\* current_directory, the path of an entry and the name of a directory, which
\* strcat appends to a path, are strings; here, sequences of tokens: "/a/b" is
\* <<"/", a, "/", b>>.  fs_mkdir takes any string, so a name may hold slashes.
Slash  == "/"
Root   == <<Slash>>
Up     == <<"..">>
Tokens == Parts \cup {Slash}
Paths  == Seq(Tokens)

Entries ==
  [used : BOOLEAN, name : Names \cup {NoName}, path : Paths,
   start : Nat, size : Nat, is_directory : BOOLEAN]

FileContents == UNION {[1 .. n -> AllBytes] : n \in 0 .. Capacity}
Sectors      == [1 .. SectorSize -> AllBytes]
DataSectors  == 1 .. MaxFiles * MaxSectorsPerFile

ASSUME SizeAssumption ==
  /\ MaxFiles \in Nat \ {0}
  /\ MaxSectorsPerFile \in Nat \ {0}
  /\ SectorSize \in Nat \ {0}
  /\ PersistedSlots \in 1 .. MaxFiles
  /\ MaxCwd \in Nat \ {0}

ASSUME NameAssumption ==
  /\ NoName \notin Names
  /\ Slash \notin Parts
  /\ \A n \in DirNames \cup {PhantomName} :
       /\ n \in Paths
       /\ n # <<>>
       /\ \A i \in 1 .. Len(n) - 1 : n[i] = Slash \/ n[i + 1] = Slash
  /\ PhantomName \notin FileNames \cup DirNames

ASSUME DataAssumption ==
  /\ Zero \notin Bytes
  /\ Absent \notin FileContents
  /\ Contents \subseteq {text \in FileContents : \A j \in DOMAIN text : text[j] \in Bytes}
  /\ BootGarbage \in [Slots \ Persisted -> Entries]
  /\ \A i \in Slots \ Persisted :
       BootGarbage[i].used => BootGarbage[i].name = PhantomName

VARIABLES
  power,   \* "on" while the kernel runs, "off" between two boots
  table,   \* file_table
  cwd,     \* current_directory
  dtable,  \* sector 0 of the disk: the entries of the table that fit in it
  data,    \* the data sectors of the disk
  job      \* the command that still has sectors to write

vars == <<power, table, cwd, dtable, data, job>>
disk == <<dtable, data>>

\* No command reads a field of an entry before it has tested `used`, and every
\* creation assigns all of them, so an unused entry is a single value.
Unused ==
  [used |-> FALSE, name |-> NoName, path |-> Root,
   start |-> 0, size |-> 0, is_directory |-> FALSE]

Idle ==
  [stage |-> "idle", slot |-> 0, content |-> <<>>, next |-> 0, src |-> NoName]

Jobs ==
  [stage : {"idle", "data", "table", "delete"}, slot : Slots,
   content : FileContents, next : 0 .. MaxSectorsPerFile,
   src : FileNames \cup {NoName}]

TypeOK ==
  /\ power \in {"on", "off"}
  /\ table \in [Slots -> Entries]
  /\ cwd \in Paths
  /\ dtable \in [Persisted -> Entries]
  /\ data \in [DataSectors -> Sectors]
  /\ job \in Jobs

-----------------------------------------------------------------------------
(* The searches every command makes, and the sector arithmetic.            *)

LastOf(S) == CHOOSE i \in S : \A j \in S : j <= i  \* mutant: no test free_slot == -1
First(S) == CHOOSE i \in S : \A j \in S : i <= j

\* The used entries called n; a command takes the first of them.
Matches(tbl, n)     == {i \in Slots : tbl[i].used /\ tbl[i].name = n}
DirMatches(tbl, n)  == {i \in Matches(tbl, n) : tbl[i].is_directory}
FreeSlots(tbl)      == {i \in Slots : ~ tbl[i].used}

\* The slot fs_write_file chooses: the file's own, or the first free one.
AnyFreeSlots(tbl, n)  == FreeSlots(tbl)  \* mutant: no search by name
FileSlotsOnly(tbl, n) ==                \* mutant: skips directories
  IF Matches(tbl, n) \ DirMatches(tbl, n) # {} THEN Matches(tbl, n) \ DirMatches(tbl, n)
  ELSE FreeSlots(tbl)
WriteSlots(tbl, n) == IF Matches(tbl, n) # {} THEN Matches(tbl, n) ELSE FreeSlots(tbl)

\* Mutant: the extent of a slot ends in the next one.
OverlappingStart(slot) == 1 + slot * (MaxSectorsPerFile - 1)
StartSector(slot) == 1 + slot * MaxSectorsPerFile

\* Mutant: the loop over the sectors runs to <= sectors_needed.
SectorsNeededOneMore(size) == (size + SectorSize - 1) \div SectorSize + 1
SectorsNeeded(size) ==
  LET need == (size + SectorSize - 1) \div SectorSize
  IN  IF need > MaxSectorsPerFile THEN MaxSectorsPerFile ELSE need

\* What fs_write_file puts in the k-th sector of a text, padded with NUL.
Chunk(text, k) ==
  [j \in 1 .. SectorSize |->
     IF k * SectorSize + j <= Len(text) THEN text[k * SectorSize + j] ELSE Zero]

\* What fs_read_file returns for an entry: size bytes of its sectors, and no
\* more than the MaxSectorsPerFile sectors its loop reads.
ReadEntry(e, d) ==
  [j \in 1 .. (IF e.size > Capacity THEN Capacity ELSE e.size) |->
     d[e.start + (j - 1) \div SectorSize][((j - 1) % SectorSize) + 1]]

\* What a read of n finds in a table and the data sectors.
Lookup(tbl, d, n) ==
  IF Matches(tbl, n) = {} THEN Absent ELSE ReadEntry(tbl[First(Matches(tbl, n))], d)

-----------------------------------------------------------------------------
(* Start of a file write.  fs_write_file fills the entry in memory, writes *)
(* the data sectors one by one and saves the table last; with no slot left *)
(* it returns -1 and changes nothing.  src is the file fs_move_file still  *)
(* has to delete afterwards.                                               *)

Ready == power = "on" /\ job.stage = "idle"

BeginWrite(n, text, src) ==
  /\ WriteSlots(table, n) # {}
  /\ LET slot == First(WriteSlots(table, n)) IN
     /\ table' = [table EXCEPT ![slot] =
                    [used |-> TRUE, name |-> n, path |-> cwd,
                     start |-> StartSector(slot), size |-> Len(text),
                     is_directory |-> FALSE]]
     /\ job' = [stage |-> IF SectorsNeeded(Len(text)) = 0 THEN "table" ELSE "data",
                slot |-> slot, content |-> text, next |-> 0, src |-> src]
  /\ UNCHANGED <<power, cwd, disk>>

WriteFile(n, text) ==
  /\ Ready
  /\ BeginWrite(n, text, NoName)

Touch(n) ==
  /\ Ready
  /\ Matches(table, n) = {}
  /\ BeginWrite(n, <<>>, NoName)

CopyFile(src, dest) ==
  /\ Ready
  /\ Lookup(table, data, src) # Absent
  /\ BeginWrite(dest, Lookup(table, data, src), NoName)

MoveFile(src, dest) ==
  /\ Ready
  /\ Lookup(table, data, src) # Absent
  /\ BeginWrite(dest, Lookup(table, data, src), src)

-----------------------------------------------------------------------------
(* The device writes of a file write.                                      *)

\* fs_save_table: the whole table is copied, but only one sector is written.
SaveTable(tbl) == dtable' = [i \in Persisted |-> tbl[i]]

WriteDataSector ==
  /\ job.stage = "data"
  /\ data' = [data EXCEPT ![table[job.slot].start + job.next] =
                Chunk(job.content, job.next)]
  /\ job' = [job EXCEPT
               !.next  = @ + 1,
               !.stage = IF job.next + 1 < SectorsNeeded(Len(job.content))
                         THEN "data" ELSE "table"]
  /\ UNCHANGED <<power, table, cwd, dtable>>

WriteTable ==
  /\ job.stage = "table"
  /\ SaveTable(table)
  /\ job' = IF job.src = NoName THEN Idle ELSE [job EXCEPT !.stage = "delete"]
  /\ UNCHANGED <<power, table, cwd, data>>

\* Mutant: fs_save_table forgotten.
RemoveUnsaved(n) ==
  /\ Matches(table, n) # {}
  /\ table' = [table EXCEPT ![First(Matches(table, n))] = Unused]
  /\ UNCHANGED <<power, cwd, disk>>

\* fs_delete_file: the first entry of that name, file or directory.
Remove(n) ==
  /\ Matches(table, n) # {}
  /\ table' = [table EXCEPT ![First(Matches(table, n))] = Unused]
  /\ SaveTable(table')
  /\ UNCHANGED <<power, cwd, data>>

\* The second half of fs_move_file.
DeleteSource ==
  /\ job.stage = "delete"
  /\ Remove(job.src)
  /\ job' = Idle

DeleteFile(n) ==
  /\ Ready
  /\ Remove(n)
  /\ UNCHANGED job

-----------------------------------------------------------------------------
(* Directories.                                                            *)

Mkdir(n) ==
  /\ Ready
  /\ FreeSlots(table) # {}
  /\ table' = [table EXCEPT ![First(FreeSlots(table))] =
                 [used |-> TRUE, name |-> n, path |-> cwd,
                  start |-> 0, size |-> 0, is_directory |-> TRUE]]
  /\ SaveTable(table')
  /\ UNCHANGED <<power, cwd, data, job>>

\* fs_rmdir refuses (-2) when another entry has the same path as the directory.
Rmdir(n) ==
  /\ Ready
  /\ DirMatches(table, n) # {}
  /\ LET i == First(DirMatches(table, n)) IN
     /\ \A j \in Slots \ {i} : ~ (table[j].used /\ table[j].path = table[i].path)
     /\ table' = [table EXCEPT ![i] = Unused]
  /\ SaveTable(table')
  /\ UNCHANGED <<power, cwd, data, job>>

\* Mutants: no '/' is added; no test for a trailing '/'; the last character is
\* not skipped.
JoinNever(path, n)  == path \o n
JoinAlways(path, n) == path \o <<Slash>> \o n
Join(path, n) == IF path[Len(path)] = Slash THEN path \o n ELSE path \o <<Slash>> \o n

\* strcpy to "/".
ChdirRoot ==
  /\ Ready
  /\ cwd' = Root
  /\ UNCHANGED <<power, table, disk, job>>

ParentFromEnd(path) ==
  LET slashes == {i \in 1 .. Len(path) : path[i] = Slash}
  IN  SubSeq(path, 1, CHOOSE i \in slashes : \A j \in slashes : j <= i)
\* cd .. cuts the string after the last '/' that is not its last character.
Parent(path) ==
  LET slashes == {i \in 1 .. Len(path) - 1 : path[i] = Slash}
  IN  IF slashes = {} THEN path
      ELSE SubSeq(path, 1, CHOOSE i \in slashes : \A j \in slashes : j <= i)

ChdirUp ==
  /\ Ready
  /\ cwd' = Parent(cwd)
  /\ UNCHANGED <<power, table, disk, job>>

\* "/" and ".." are tested for before the table is searched, so that a
\* directory of such a name cannot be entered.
Enterable == (DirNames \cup {PhantomName}) \ {Root, Up}

\* cd n looks n up in the whole table, not among the entries of this directory,
\* and appends the whole of n, the slashes in it included.
ChdirDown(n) ==
  /\ Ready
  /\ n \in Enterable
  /\ DirMatches(table, n) # {}
  /\ Len(Join(cwd, n)) <= MaxCwd
  /\ cwd' = Join(cwd, n)
  /\ UNCHANGED <<power, table, disk, job>>

Format ==
  /\ Ready
  /\ table' = [i \in Slots |-> Unused]
  /\ SaveTable(table')
  /\ cwd' = Root
  /\ UNCHANGED <<power, data, job>>

-----------------------------------------------------------------------------
(* Loss of power (or reboot, or shutdown) at any point, and the next boot. *)

PowerOff ==
  /\ power = "on"
  /\ power' = "off"
  /\ table' = [i \in Slots |-> Unused]
  /\ cwd' = Root
  /\ job' = Idle
  /\ UNCHANGED disk

\* What fs_init makes of sector 0: the entries past its end are read from the
\* memory behind sector_buffer.
BootTable(dt) == [i \in Slots |-> IF i \in Persisted THEN dt[i] ELSE BootGarbage[i]]

Boot ==
  /\ power = "off"
  /\ power' = "on"
  /\ table' = BootTable(dtable)
  /\ UNCHANGED <<cwd, disk, job>>

\* The kernel is off and the disk image is all zeroes, as build.sh makes it.
Init ==
  /\ power = "off"
  /\ table = [i \in Slots |-> Unused]
  /\ cwd = Root
  /\ dtable = [i \in Persisted |-> Unused]
  /\ data = [s \in DataSectors |-> [j \in 1 .. SectorSize |-> Zero]]
  /\ job = Idle

FileCommand ==
  \E n \in FileNames :
    \/ \E text \in Contents : WriteFile(n, text)
    \/ Touch(n)
    \/ \E dest \in FileNames : CopyFile(n, dest) \/ MoveFile(n, dest)

DirCommand ==
  \/ \E n \in DirNames : Mkdir(n)
  \/ \E n \in DirNames \cup {PhantomName} : Rmdir(n) \/ ChdirDown(n)
  \/ ChdirUp
  \/ ChdirRoot

DeviceStep == WriteDataSector \/ WriteTable \/ DeleteSource

Next ==
  \/ FileCommand
  \/ \E n \in Names : DeleteFile(n)
  \/ DirCommand
  \/ Format
  \/ DeviceStep
  \/ PowerOff
  \/ Boot

Spec == Init /\ [][Next]_vars

-----------------------------------------------------------------------------
(* Safety of the files.                                                    *)

\* What a read of n would return after a loss of power now and a boot.
AfterBoot(n) == Lookup(BootTable(dtable), data, n)

\* Between two commands the part of the table that fits in sector 0 is the one
\* on the disk: no command forgets fs_save_table.
DiskAgrees == Ready => dtable = [i \in Persisted |-> table[i]]

\* "Survives power-off and reboots" (DISK_STORAGE.md): once a command is over,
\* the next boot finds every file the user sees, with the text he sees.
SavedIsDurable ==
  Ready => \A n \in FileNames : AfterBoot(n) = Lookup(table, data, n)

\* A file has one entry: fs_write_file, which looks for the name first, never
\* makes a second one, and a crash between the two table saves of fs_move_file
\* does not either.
OneEntryPerFile == \A n \in FileNames : \A i, j \in Matches(table, n) : i = j

\* When fs_move_file returns 0, and the shell prints "File moved.", the text is
\* under the destination and nothing is left under the source.  (Of a file that
\* is moved onto itself nothing is left at all.)
MoveDelivers ==
  [][DeleteSource =>
       LET dest == table[job.slot].name IN
         /\ Lookup(table', data', job.src) = Absent
         /\ job.src # dest => Lookup(table', data', dest) = job.content]_vars

\* What fs_write_file stored is what fs_read_file returns, even when entries
\* share a name: both take the first one.
WriteIsReadBack ==
  [][WriteTable => Lookup(table', data', table[job.slot].name) = job.content]_vars

\* The file store this implements; what a boot would find is the store.
Store == INSTANCE FileStore WITH
  Texts <- Contents,
  store <- [n \in FileNames |-> AfterBoot(n)],
  op    <- IF job.stage = "idle"
             THEN [stage |-> "none", name |-> NoName, content |-> <<>>, src |-> NoName]
             ELSE
             [stage   |-> IF job.stage = "delete" THEN "remove" ELSE "write",
              name    |-> table[job.slot].name,
              content |-> job.content,
              src     |-> job.src]

\* Whatever the moment a loss of power falls on, the files of the disk behave
\* like the FileStore: creation and removal are atomic, only an overwritten
\* text can be torn, and no other file is touched.
ImplementsFileStore == Store!Spec

-----------------------------------------------------------------------------
(* Safety of the directories.                                              *)

\* Absolute, and no two parts run together.
WellFormed(path) ==
  /\ path # <<>> /\ path[1] = Slash
  /\ \A i \in 1 .. Len(path) - 1 : path[i] = Slash \/ path[i + 1] = Slash

\* current_directory and the paths copied from it are absolute, and no strcat
\* has run two names together, whatever sequence of strcat and truncation
\* fs_chdir has made of them, of names with slashes too.
PathsWellFormed ==
  /\ WellFormed(cwd)
  /\ \A i \in Slots :
       table[i].used /\ table[i].name # PhantomName => WellFormed(table[i].path)

\* What a name is without its last component: nothing, when it has only one.
Above(n) ==
  IF \E i \in 1 .. Len(n) - 1 : n[i] = Slash THEN Parent(n) ELSE <<>>

\* "Go up one directory" (COMPLETE_DOCUMENTATION.md): cd .. takes back the last
\* component that cd n has added, and no more and no less, from wherever one is.
\* It leads home when n is a single component; after mkdir a/b and cd a/b it
\* leads to a.  A second cd .., which starts from the slash the first one has
\* left, does the same.
UpUndoesDown ==
  \A n, m \in Enterable :
    /\ Parent(Join(cwd, n)) = Join(cwd, Above(n))
    /\ Above(m) = <<>> =>
         Parent(Parent(Join(Join(cwd, n), m))) = Join(cwd, Above(n))

\* The components of a path: what follows each slash but a last one, a part or,
\* where two slashes meet, the empty string.
Components(path) ==
  LET slashes == {i \in 1 .. Len(path) - 1 : path[i] = Slash}
      Nth(k)  == CHOOSE i \in slashes : Cardinality({j \in slashes : j <= i}) = k
  IN  [k \in 1 .. Cardinality(slashes) |->
         IF path[Nth(k) + 1] = Slash THEN NoName ELSE path[Nth(k) + 1]]

\* Read as a list of components, current_directory is a stack: cd n pushes the
\* components of n, with an empty one only where n holds it (a leading or a
\* doubled slash), and cd .. pops one, from the root none.
CwdIsAStack ==
  [][/\ \A n \in Enterable :
          ChdirDown(n) => Components(cwd') = Components(cwd) \o Components(Root \o n)
     /\ ChdirUp =>
          Components(cwd') = SubSeq(Components(cwd), 1, Len(Components(cwd)) - 1)]_vars
=============================================================================
