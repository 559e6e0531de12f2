--------------------------- MODULE FileSystemProofs ---------------------------
(* Proofs about FileSystem for every value of its constants.               *)
EXTENDS FileSystem, FiniteSetTheorems, SequenceTheorems, WellFoundedInduction, TLAPS

-----------------------------------------------------------------------------
(* Arithmetic and the least element of a set of slots.                     *)

LEMMA MulMono ==
  ASSUME NEW a \in Nat, NEW b \in Nat, NEW c \in Nat, a <= b
  PROVE  a * c <= b * c
<1>1. PICK d \in Nat : b = a + d
  <2>1. b - a \in Nat /\ b = a + (b - a)
    OBVIOUS
  <2> QED BY <2>1
<1>2. b * c = a * c + d * c
  BY <1>1
<1>3. a * c \in Nat /\ d * c \in Nat
  OBVIOUS
<1> QED
  BY <1>2, <1>3

LEMMA LeastElement ==
  ASSUME NEW S \in SUBSET Nat, S # {}
  PROVE  /\ First(S) \in S
         /\ \A j \in S : First(S) <= j
<1> DEFINE R == OpToRel(<, Nat)
<1>1. IsWellFoundedOn(R, Nat)
  BY NatLessThanWellFounded
<1>2. ASSUME NEW x \in Nat, NEW y \in Nat, y < x
      PROVE  <<y, x>> \in R
  BY <1>2 DEF OpToRel
<1> HIDE DEF R
<1>3. PICK x \in S : \A y \in S : ~ (<<y, x>> \in R)
  BY <1>1, WFMin
<1>4. ASSUME NEW y \in S
      PROVE  x <= y
  <2>1. x \in Nat /\ y \in Nat
    OBVIOUS
  <2>2. ~ (y < x)
    BY <2>1, <1>2, <1>3
  <2> QED
    BY <2>1, <2>2
<1> QED
  BY <1>4 DEF First
-----------------------------------------------------------------------------
(* Types of the operators.                                                 *)

LEMMA SlotsAreNat ==
  /\ Slots \subseteq Nat
  /\ Persisted \subseteq Slots
  /\ \A S \in SUBSET Slots : S # {} => First(S) \in S /\ \A j \in S : First(S) <= j
<1>1. Slots \subseteq Nat /\ Persisted \subseteq Slots
  BY SizeAssumption DEF Slots, Persisted
<1> QED
  BY <1>1, LeastElement

\* A sector of a slot's extent is a data sector.
LEMMA SectorInRange ==
  ASSUME NEW slot \in Slots, NEW k \in 0 .. MaxSectorsPerFile - 1
  PROVE  StartSector(slot) + k \in DataSectors
<1> DEFINE M == MaxSectorsPerFile
<1>1. M \in Nat /\ MaxFiles \in Nat /\ slot \in Nat /\ slot + 1 <= MaxFiles /\ k \in Nat /\ k + 1 <= M
  BY SizeAssumption DEF Slots
<1> HIDE DEF M
<1>2. (slot + 1) * M <= MaxFiles * M
  BY <1>1, MulMono
<1>3. (slot + 1) * M = slot * M + M /\ slot * M \in Nat
  BY <1>1
<1>4. MaxFiles * M \in Nat
  BY <1>1
<1>5. 1 + slot * M + k \in 1 .. MaxFiles * M
  BY <1>1, <1>2, <1>3, <1>4
<1> QED
  BY <1>5 DEF StartSector, DataSectors, M

LEMMA SectorsNeededType ==
  ASSUME NEW size \in Nat
  PROVE  SectorsNeeded(size) \in 0 .. MaxSectorsPerFile
<1>1. size + SectorSize - 1 \in Nat
  BY SizeAssumption
<1>2. (size + SectorSize - 1) \div SectorSize \in Nat
  BY <1>1, SizeAssumption
<1> QED
  BY <1>2, SizeAssumption DEF SectorsNeeded

LEMMA CapacityType == Capacity \in Nat
  BY SizeAssumption DEF Capacity

LEMMA FileContentsType ==
  ASSUME NEW text
  PROVE  text \in FileContents <=>
           /\ text \in Seq(AllBytes)
           /\ Len(text) <= Capacity
<1>1. ASSUME text \in FileContents
      PROVE  text \in Seq(AllBytes) /\ Len(text) <= Capacity
  <2>1. PICK n \in 0 .. Capacity : text \in [1 .. n -> AllBytes]
    BY <1>1 DEF FileContents
  <2>2. text \in Seq(AllBytes) /\ Len(text) = n
    BY <2>1, CapacityType
  <2> QED
    BY <2>1, <2>2, CapacityType
<1>2. ASSUME text \in Seq(AllBytes), Len(text) <= Capacity
      PROVE  text \in FileContents
  <2>1. Len(text) \in 0 .. Capacity /\ text \in [1 .. Len(text) -> AllBytes]
    BY <1>2, CapacityType
  <2> QED
    BY <2>1 DEF FileContents
<1> QED
  BY <1>1, <1>2

LEMMA ChunkType ==
  ASSUME NEW text \in FileContents, NEW k \in Nat
  PROVE  Chunk(text, k) \in Sectors
<1>1. text \in Seq(AllBytes)
  BY FileContentsType
<1>2. ASSUME NEW j \in 1 .. SectorSize, k * SectorSize + j <= Len(text)
      PROVE  text[k * SectorSize + j] \in AllBytes
  <2>1. k * SectorSize \in Nat
    BY SizeAssumption
  <2>2. k * SectorSize + j \in 1 .. Len(text)
    BY <1>2, <2>1, <1>1
  <2> QED
    BY <1>1, <2>2
<1>3. Zero \in AllBytes
  BY DEF AllBytes
<1> QED
  BY <1>2, <1>3 DEF Chunk, Sectors

\* Division by the sector size stays within the sectors of a file.
LEMMA SectorIndex ==
  ASSUME NEW j \in 1 .. Capacity
  PROVE  /\ (j - 1) \div SectorSize \in 0 .. MaxSectorsPerFile - 1
         /\ ((j - 1) % SectorSize) + 1 \in 1 .. SectorSize
<1> DEFINE q == (j - 1) \div SectorSize
           r == (j - 1) % SectorSize
<1>1. j - 1 \in Nat /\ j <= Capacity
  BY CapacityType
<1>2. q \in Nat /\ r \in 0 .. SectorSize - 1 /\ j - 1 = SectorSize * q + r
  BY <1>1, SizeAssumption
<1> HIDE DEF q, r
<1>3. ASSUME MaxSectorsPerFile <= q
      PROVE  FALSE
  <2>1. MaxSectorsPerFile * SectorSize <= q * SectorSize
    BY <1>2, <1>3, MulMono, SizeAssumption
  <2>2. q * SectorSize = SectorSize * q /\ q * SectorSize \in Nat
    BY <1>2, SizeAssumption
  <2> QED
    BY <1>1, <1>2, <2>1, <2>2, CapacityType, SizeAssumption DEF Capacity
<1>4. q \in 0 .. MaxSectorsPerFile - 1 /\ r + 1 \in 1 .. SectorSize
  BY <1>2, <1>3, SizeAssumption
<1> QED
  BY <1>4 DEF q, r

-----------------------------------------------------------------------------
(* The inductive invariant.                                                *)

\* An entry under a file's name is a file in the extent of its slot, or empty.
SoundTable(tbl) ==
  \A i \in Slots :
    (tbl[i].used /\ tbl[i].name \in FileNames) =>
      /\ tbl[i].size <= Capacity
      /\ tbl[i].size # 0 => tbl[i].start = StartSector(i)

\* The entry of the file being written.
JobOK ==
  job.stage # "idle" =>
    /\ power = "on"
    /\ table[job.slot].used
    /\ table[job.slot].name \in FileNames
    /\ table[job.slot].start = StartSector(job.slot)
    /\ table[job.slot].size = Len(job.content)
    /\ job.stage = "data" => job.next < SectorsNeeded(Len(job.content))
    /\ job.stage = "delete" => job.src # NoName

\* Memory and disk agree, but for the entry whose file is being written.
DiskOK ==
  power = "on" =>
    \A i \in Persisted :
      (job.stage \in {"data", "table"} => i # job.slot) => dtable[i] = table[i]

Inv ==
  /\ TypeOK
  /\ SoundTable(table)
  /\ SoundTable(BootTable(dtable))
  /\ JobOK
  /\ DiskOK

-----------------------------------------------------------------------------

LEMMA LookupType ==
  ASSUME NEW tbl \in [Slots -> Entries], SoundTable(tbl),
         NEW d \in [DataSectors -> Sectors], NEW n \in FileNames,
         Matches(tbl, n) # {}
  PROVE  Lookup(tbl, d, n) \in FileContents
<1> DEFINE i == First(Matches(tbl, n))
           e == tbl[i]
<1>1. Lookup(tbl, d, n) = ReadEntry(e, d)
  BY DEF Lookup
<1>2. i \in Slots /\ e.used /\ e.name = n /\ e \in Entries
  <2>1. Matches(tbl, n) \in SUBSET Slots
    BY DEF Matches
  <2>2. i \in Matches(tbl, n)
    BY <1>1, <2>1, SlotsAreNat
  <2> QED
    BY <2>2 DEF Matches
<1>3. e.size \in Nat /\ e.size <= Capacity /\ (e.size # 0 => e.start = StartSector(i))
  BY <1>2 DEF SoundTable, Entries
<1> HIDE DEF e, i
<1>4. ASSUME NEW j \in 1 .. e.size
      PROVE  d[e.start + (j - 1) \div SectorSize][((j - 1) % SectorSize) + 1] \in AllBytes
  <2>1. j \in 1 .. Capacity /\ e.size # 0
    BY <1>3, CapacityType
  <2>2. e.start + (j - 1) \div SectorSize \in DataSectors
    BY <1>2, <1>3, <2>1, SectorIndex, SectorInRange
  <2>3. ((j - 1) % SectorSize) + 1 \in 1 .. SectorSize
    BY <2>1, SectorIndex
  <2> QED
    BY <2>2, <2>3 DEF Sectors
<1>5. ReadEntry(e, d) = [j \in 1 .. e.size |->
        d[e.start + (j - 1) \div SectorSize][((j - 1) % SectorSize) + 1]]
  BY <1>3, CapacityType DEF ReadEntry
<1>6. ReadEntry(e, d) \in [1 .. e.size -> AllBytes]
  BY <1>4, <1>5
<1>7. e.size \in 0 .. Capacity
  BY <1>3, CapacityType
<1> QED
  BY <1>1, <1>6, <1>7 DEF FileContents

LEMMA FirstMatch ==
  ASSUME NEW tbl, NEW n, Matches(tbl, n) # {}
  PROVE  /\ First(Matches(tbl, n)) \in Slots
         /\ tbl[First(Matches(tbl, n))].used
         /\ tbl[First(Matches(tbl, n))].name = n
<1>1. Matches(tbl, n) \in SUBSET Slots
  BY DEF Matches
<1>2. First(Matches(tbl, n)) \in Matches(tbl, n)
  BY <1>1, SlotsAreNat
<1> QED
  BY <1>2 DEF Matches

LEMMA FirstWriteSlot ==
  ASSUME NEW tbl, NEW n, WriteSlots(tbl, n) # {}
  PROVE  /\ First(WriteSlots(tbl, n)) \in Slots
         /\ LET i == First(WriteSlots(tbl, n))
            IN  IF Matches(tbl, n) # {} THEN tbl[i].used /\ tbl[i].name = n
                                       ELSE ~ tbl[i].used
<1>1. WriteSlots(tbl, n) \in SUBSET Slots
  BY DEF WriteSlots, Matches, FreeSlots
<1>2. First(WriteSlots(tbl, n)) \in WriteSlots(tbl, n)
  BY <1>1, SlotsAreNat
<1> QED
  BY <1>1, <1>2 DEF WriteSlots, Matches, FreeSlots

LEMMA UnusedType == Unused \in Entries /\ ~ Unused.used
<1>1. Root \in Paths
  BY DEF Root, Paths, Tokens
<1> QED
  BY <1>1 DEF Unused, Entries

LEMMA BootTableSound ==
  ASSUME NEW dt \in [Persisted -> Entries]
  PROVE  /\ BootTable(dt) \in [Slots -> Entries]
         /\ SoundTable(BootTable(dt)) <=>
              \A i \in Persisted :
                (dt[i].used /\ dt[i].name \in FileNames) =>
                  /\ dt[i].size <= Capacity
                  /\ dt[i].size # 0 => dt[i].start = StartSector(i)
<1>1. Persisted \subseteq Slots
  BY SlotsAreNat
<1>2. ASSUME NEW i \in Slots \ Persisted
      PROVE  /\ BootGarbage[i] \in Entries
             /\ BootGarbage[i].used => BootGarbage[i].name \notin FileNames
  BY DataAssumption, NameAssumption
<1>3. BootTable(dt) \in [Slots -> Entries]
  BY <1>1, <1>2 DEF BootTable
<1>4. ASSUME NEW i \in Slots
      PROVE  BootTable(dt)[i] = IF i \in Persisted THEN dt[i] ELSE BootGarbage[i]
  BY DEF BootTable
<1> QED
  BY <1>1, <1>2, <1>3, <1>4 DEF SoundTable

-----------------------------------------------------------------------------
(* The initial state and the steps that write a file.                      *)

LEMMA EmptyTextType == <<>> \in FileContents
<1>1. <<>> \in Seq(AllBytes) /\ Len(<<>>) <= Capacity
  BY CapacityType
<1> QED
  BY <1>1, FileContentsType

LEMMA IdleType == Idle \in Jobs
<1>1. 0 \in Slots /\ 0 \in 0 .. MaxSectorsPerFile
  BY SizeAssumption DEF Slots
<1> QED
  BY <1>1, EmptyTextType DEF Idle, Jobs

LEMMA InitInv == Init => Inv
<1> SUFFICES ASSUME Init PROVE Inv
  OBVIOUS
<1>1. Root \in Paths
  BY DEF Root, Paths, Tokens
<1>2. Zero \in AllBytes
  BY DEF AllBytes
<1>3. TypeOK
  BY <1>1, <1>2, UnusedType, IdleType DEF Init, TypeOK, Sectors
<1>4. SoundTable(table) /\ SoundTable(BootTable(dtable))
  BY UnusedType, BootTableSound DEF Init, SoundTable
<1>5. JobOK /\ DiskOK
  BY DEF Init, Idle, JobOK, DiskOK
<1> QED
  BY <1>3, <1>4, <1>5 DEF Inv

\* A step that leaves sector 0 alone leaves alone what a boot makes of it.
LEMMA BootTableUnchanged ==
  ASSUME UNCHANGED dtable
  PROVE  BootTable(dtable)' = BootTable(dtable)
  BY DEF BootTable

LEMMA BeginWriteInv ==
  ASSUME Inv, Ready, NEW n \in FileNames, NEW text \in FileContents,
         NEW src \in FileNames \cup {NoName}, BeginWrite(n, text, src)
  PROVE  Inv'
<1> DEFINE slot == First(WriteSlots(table, n))
           e == [used |-> TRUE, name |-> n, path |-> cwd,
                 start |-> StartSector(slot), size |-> Len(text),
                 is_directory |-> FALSE]
<1>1. slot \in Slots
  BY FirstWriteSlot DEF BeginWrite
<1>2. /\ table' = [table EXCEPT ![slot] = e]
      /\ job' = [stage |-> IF SectorsNeeded(Len(text)) = 0 THEN "table" ELSE "data",
                 slot |-> slot, content |-> text, next |-> 0, src |-> src]
      /\ UNCHANGED <<power, cwd, dtable, data>>
  BY DEF BeginWrite, disk
<1>3. Len(text) \in Nat /\ Len(text) <= Capacity
  BY FileContentsType
<1>4. StartSector(slot) \in Nat
  BY <1>1, SizeAssumption DEF StartSector, Slots
<1>5. e \in Entries
  BY <1>3, <1>4 DEF Entries, Inv, TypeOK, Names
<1>6. MaxSectorsPerFile \in Nat
  BY SizeAssumption
<1> HIDE DEF slot
<1>7. TypeOK'
  BY <1>1, <1>2, <1>5, <1>6 DEF Inv, TypeOK, Jobs
<1>8. SoundTable(table)'
  BY <1>1, <1>2, <1>3 DEF Inv, TypeOK, SoundTable
<1>9. SoundTable(BootTable(dtable))'
  BY <1>2, BootTableUnchanged DEF Inv, SoundTable
<1>10. JobOK'
  BY <1>1, <1>2, SectorsNeededType, <1>3 DEF Inv, TypeOK, JobOK, Ready
<1>11. DiskOK'
  BY <1>1, <1>2, SlotsAreNat DEF Inv, TypeOK, DiskOK, Ready
<1> QED
  BY <1>7, <1>8, <1>9, <1>10, <1>11 DEF Inv

LEMMA WriteDataSectorInv ==
  ASSUME Inv, WriteDataSector
  PROVE  Inv'
<1> DEFINE s == StartSector(job.slot) + job.next
<1>1. /\ job.stage = "data" /\ job \in Jobs
      /\ table[job.slot].start = StartSector(job.slot)
      /\ job.next < SectorsNeeded(Len(job.content))
  BY DEF Inv, TypeOK, JobOK, WriteDataSector
<1>2. job.slot \in Slots /\ job.content \in FileContents /\ job.next \in Nat
  BY <1>1 DEF Jobs
<1>3. SectorsNeeded(Len(job.content)) \in 0 .. MaxSectorsPerFile
  BY <1>2, FileContentsType, SectorsNeededType
<1>4. s \in DataSectors /\ Chunk(job.content, job.next) \in Sectors
  BY <1>1, <1>2, <1>3, SectorInRange, ChunkType, SizeAssumption
<1>5. /\ data' = [data EXCEPT ![s] = Chunk(job.content, job.next)]
      /\ job' = [job EXCEPT
                   !.next  = job.next + 1,
                   !.stage = IF job.next + 1 < SectorsNeeded(Len(job.content))
                             THEN "data" ELSE "table"]
      /\ UNCHANGED <<power, table, cwd, dtable>>
  BY <1>1 DEF WriteDataSector
<1> HIDE DEF s
<1>6. job.next + 1 \in 0 .. MaxSectorsPerFile
  BY <1>1, <1>2, <1>3, SizeAssumption
<1>7. TypeOK'
  BY <1>1, <1>4, <1>5, <1>6 DEF Inv, TypeOK, Jobs
<1>8. SoundTable(table)' /\ SoundTable(BootTable(dtable))'
  BY <1>5, BootTableUnchanged DEF Inv, SoundTable
<1>9. JobOK'
  BY <1>1, <1>5 DEF Inv, TypeOK, JobOK, Jobs
<1>10. DiskOK'
  BY <1>1, <1>5 DEF Inv, TypeOK, DiskOK, Jobs
<1> QED
  BY <1>7, <1>8, <1>9, <1>10 DEF Inv

\* fs_save_table of a sound table leaves a sound table on the disk.
LEMMA SaveTableSound ==
  ASSUME NEW tbl \in [Slots -> Entries], SoundTable(tbl), SaveTable(tbl)
  PROVE  /\ dtable' \in [Persisted -> Entries]
         /\ \A i \in Persisted : dtable'[i] = tbl[i]
         /\ SoundTable(BootTable(dtable'))
<1>1. Persisted \subseteq Slots
  BY SlotsAreNat
<1>2. dtable' \in [Persisted -> Entries] /\ \A i \in Persisted : dtable'[i] = tbl[i]
  BY <1>1 DEF SaveTable
<1> QED
  BY <1>1, <1>2, BootTableSound DEF SoundTable

LEMMA WriteTableInv ==
  ASSUME Inv, WriteTable
  PROVE  Inv'
<1>1. /\ table \in [Slots -> Entries] /\ SoundTable(table)
      /\ job \in Jobs /\ SaveTable(table) /\ power = "on"
      /\ job' = IF job.src = NoName THEN Idle ELSE [job EXCEPT !.stage = "delete"]
      /\ UNCHANGED <<power, table, cwd, data>>
  BY DEF Inv, TypeOK, JobOK, WriteTable
<1>2. Idle \in Jobs
  BY IdleType
<1>3. TypeOK'
  BY <1>1, <1>2, SaveTableSound DEF Inv, TypeOK, Jobs
<1>4. SoundTable(table)' /\ SoundTable(BootTable(dtable))'
  BY <1>1, SaveTableSound DEF SoundTable, BootTable
<1>5. JobOK'
  BY <1>1 DEF Inv, TypeOK, JobOK, Jobs, Idle, WriteTable
<1>6. DiskOK'
  BY <1>1, SaveTableSound DEF DiskOK, Jobs, Idle
<1> QED
  BY <1>3, <1>4, <1>5, <1>6 DEF Inv

-----------------------------------------------------------------------------
(* The steps that change the table without touching a data sector.         *)

LEMMA RemoveInv ==
  ASSUME Inv, NEW n, Remove(n), power = "on", job.stage \in {"idle", "delete"},
         job' = job \/ job' = Idle, job'.stage = "idle"
  PROVE  Inv'
<1> DEFINE i == First(Matches(table, n))
<1>1. i \in Slots
  BY FirstMatch DEF Remove
<1>2. /\ table' = [table EXCEPT ![i] = Unused]
      /\ SaveTable(table')
      /\ UNCHANGED <<power, cwd, data>>
  BY DEF Remove
<1> HIDE DEF i
<1>3. table' \in [Slots -> Entries] /\ SoundTable(table')
  BY <1>1, <1>2, UnusedType DEF Inv, TypeOK, SoundTable
<1>4. TypeOK'
  BY <1>2, <1>3, SaveTableSound, IdleType DEF Inv, TypeOK
<1>5. SoundTable(table)' /\ SoundTable(BootTable(dtable))'
  BY <1>2, <1>3, SaveTableSound DEF SoundTable, BootTable
<1>6. JobOK'
  BY DEF JobOK
<1>7. DiskOK'
  BY <1>2, <1>3, SaveTableSound DEF DiskOK
<1> QED
  BY <1>4, <1>5, <1>6, <1>7 DEF Inv

\* mkdir, rmdir and format: the table changes and is saved at once.
LEMMA TableCommandInv ==
  ASSUME Inv, Ready, table' \in [Slots -> Entries], SoundTable(table'),
         SaveTable(table'), cwd' \in Paths, UNCHANGED <<power, data, job>>
  PROVE  Inv'
<1>1. TypeOK'
  BY SaveTableSound DEF Inv, TypeOK
<1>2. SoundTable(table)' /\ SoundTable(BootTable(dtable))'
  BY SaveTableSound DEF SoundTable, BootTable
<1>3. JobOK'
  BY DEF JobOK, Ready
<1>4. DiskOK'
  BY SaveTableSound DEF DiskOK
<1> QED
  BY <1>1, <1>2, <1>3, <1>4 DEF Inv

LEMMA MkdirInv ==
  ASSUME Inv, NEW n \in DirNames, Mkdir(n)
  PROVE  Inv'
<1> DEFINE i == First(FreeSlots(table))
           e == [used |-> TRUE, name |-> n, path |-> cwd,
                 start |-> 0, size |-> 0, is_directory |-> TRUE]
<1>1. i \in Slots
  <2>1. FreeSlots(table) \in SUBSET Slots /\ FreeSlots(table) # {}
    BY DEF FreeSlots, Mkdir
  <2> QED
    BY <2>1, SlotsAreNat
<1>2. /\ Ready
      /\ table' = [table EXCEPT ![i] = e]
      /\ SaveTable(table')
      /\ UNCHANGED <<power, cwd, data, job>>
  BY DEF Mkdir
<1>3. e \in Entries
  BY DEF Entries, Inv, TypeOK, Names
<1> HIDE DEF i
<1>4. table' \in [Slots -> Entries] /\ SoundTable(table')
  BY <1>1, <1>2, <1>3, CapacityType DEF Inv, TypeOK, SoundTable
<1> QED
  BY <1>2, <1>4, TableCommandInv DEF Inv, TypeOK

LEMMA RmdirInv ==
  ASSUME Inv, NEW n, Rmdir(n)
  PROVE  Inv'
<1> DEFINE i == First(DirMatches(table, n))
<1>1. i \in Slots
  <2>1. DirMatches(table, n) \in SUBSET Slots /\ DirMatches(table, n) # {}
    BY DEF DirMatches, Matches, Rmdir
  <2> QED
    BY <2>1, SlotsAreNat
<1>2. /\ Ready
      /\ table' = [table EXCEPT ![i] = Unused]
      /\ SaveTable(table')
      /\ UNCHANGED <<power, cwd, data, job>>
  BY DEF Rmdir
<1> HIDE DEF i
<1>3. table' \in [Slots -> Entries] /\ SoundTable(table')
  BY <1>1, <1>2, UnusedType DEF Inv, TypeOK, SoundTable
<1> QED
  BY <1>2, <1>3, TableCommandInv DEF Inv, TypeOK

LEMMA FormatInv ==
  ASSUME Inv, Format
  PROVE  Inv'
<1>1. Root \in Paths
  BY DEF Root, Paths, Tokens
<1>2. table' \in [Slots -> Entries] /\ SoundTable(table')
  BY UnusedType DEF Format, SoundTable
<1> QED
  BY <1>1, <1>2, TableCommandInv DEF Format

-----------------------------------------------------------------------------
(* The steps of fs_chdir, the loss of power and the boot.                  *)

LEMMA ParentType ==
  ASSUME NEW path \in Paths
  PROVE  Parent(path) \in Paths
<1> DEFINE slashes == {i \in 1 .. Len(path) - 1 : path[i] = Slash}
<1>1. Len(path) \in Nat
  BY DEF Paths
<1>2. CASE slashes = {}
  BY <1>2 DEF Parent
<1>3. CASE slashes # {}
  <2> DEFINE k == CHOOSE i \in slashes : \A j \in slashes : j <= i
  <2>1. \E i \in slashes : \A j \in slashes : j <= i
    <3> DEFINE up == {Len(path) - j : j \in slashes}
    <3>1. up \in SUBSET Nat /\ up # {}
      BY <1>1, <1>3
    <3>2. First(up) \in up /\ \A u \in up : First(up) <= u
      BY <3>1, LeastElement
    <3>3. PICK i \in slashes : First(up) = Len(path) - i
      BY <3>2
    <3>4. ASSUME NEW j \in slashes
          PROVE  j <= i
      <4>1. Len(path) - j \in up
        OBVIOUS
      <4>2. i \in Nat /\ j \in Nat
        BY <1>1
      <4>3. Len(path) - i <= Len(path) - j
        BY <3>2, <3>3, <4>1
      <4> QED
        BY <4>2, <4>3, <1>1
    <3> QED
      BY <3>4
  <2>2. k \in slashes
    BY <2>1
  <2>3. Parent(path) = SubSeq(path, 1, k)
    BY <1>3 DEF Parent
  <2> HIDE DEF k
  <2>4. k \in 1 .. Len(path)
    BY <2>2, <1>1
  <2> QED
    BY <2>3, <2>4 DEF Paths
<1> QED
  BY <1>2, <1>3

LEMMA JoinType ==
  ASSUME NEW path \in Paths, NEW n \in DirNames \cup {PhantomName}
  PROVE  Join(path, n) \in Paths
<1>1. path \in Seq(Tokens) /\ n \in Seq(Tokens)
  BY NameAssumption DEF Paths
<1>2. <<Slash>> \in Seq(Tokens)
  BY DEF Tokens
<1>3. /\ path \o n \in Seq(Tokens)
      /\ path \o <<Slash>> \in Seq(Tokens)
      /\ (path \o <<Slash>>) \o n \in Seq(Tokens)
  BY <1>1, <1>2
<1> QED
  BY <1>3 DEF Join, Paths

\* fs_chdir changes current_directory only.
LEMMA ChdirInv ==
  ASSUME Inv, cwd' \in Paths, UNCHANGED <<power, table, disk, job>>
  PROVE  Inv'
<1>1. TypeOK'
  BY DEF Inv, TypeOK, disk
<1>2. SoundTable(table)' /\ SoundTable(BootTable(dtable))'
  BY BootTableUnchanged DEF Inv, SoundTable, disk
<1>3. JobOK'
  BY DEF Inv, JobOK
<1>4. DiskOK'
  BY DEF Inv, DiskOK, disk
<1> QED
  BY <1>1, <1>2, <1>3, <1>4 DEF Inv

LEMMA PowerOffInv ==
  ASSUME Inv, PowerOff
  PROVE  Inv'
<1>1. TypeOK'
  BY UnusedType, IdleType DEF Inv, TypeOK, PowerOff, disk, Root, Paths, Tokens
<1>2. SoundTable(table)' /\ SoundTable(BootTable(dtable))'
  BY UnusedType, BootTableUnchanged DEF Inv, SoundTable, PowerOff, disk
<1>3. JobOK' /\ DiskOK'
  BY DEF JobOK, DiskOK, PowerOff, Idle
<1> QED
  BY <1>1, <1>2, <1>3 DEF Inv

LEMMA BootInv ==
  ASSUME Inv, Boot
  PROVE  Inv'
<1>1. /\ power' = "on" /\ table' = BootTable(dtable) /\ power = "off"
      /\ UNCHANGED <<cwd, dtable, data, job>>
  BY DEF Boot, disk
<1>2. BootTable(dtable) \in [Slots -> Entries]
  BY BootTableSound DEF Inv, TypeOK
<1>3. TypeOK'
  BY <1>1, <1>2 DEF Inv, TypeOK
<1>4. SoundTable(table)' /\ SoundTable(BootTable(dtable))'
  BY <1>1, BootTableUnchanged DEF Inv, SoundTable
<1>5. job.stage = "idle"
  BY <1>1 DEF Inv, JobOK
<1>6. JobOK' /\ DiskOK'
  BY <1>1, <1>5, SlotsAreNat DEF JobOK, DiskOK, BootTable
<1> QED
  BY <1>3, <1>4, <1>6 DEF Inv

-----------------------------------------------------------------------------
(* Every step keeps the invariant.                                         *)

LEMMA NextInv == Inv /\ [Next]_vars => Inv'
<1> SUFFICES ASSUME Inv, [Next]_vars PROVE Inv'
  OBVIOUS
<1>1. ASSUME FileCommand
      PROVE  Inv'
  <2>1. PICK n \in FileNames :
          \/ \E text \in Contents : WriteFile(n, text)
          \/ Touch(n)
          \/ \E dest \in FileNames : CopyFile(n, dest) \/ MoveFile(n, dest)
    BY <1>1 DEF FileCommand
  <2>2. ASSUME NEW text \in Contents, WriteFile(n, text)
        PROVE  Inv'
    <3>1. text \in FileContents
      BY DataAssumption
    <3> QED
      BY <2>2, <3>1, BeginWriteInv DEF WriteFile
  <2>3. CASE Touch(n)
    BY <2>3, EmptyTextType, BeginWriteInv DEF Touch
  <2>4. ASSUME NEW dest \in FileNames, CopyFile(n, dest) \/ MoveFile(n, dest)
        PROVE  Inv'
    <3>1. Lookup(table, data, n) \in FileContents
      BY <2>4, LookupType DEF Inv, TypeOK, CopyFile, MoveFile, Lookup
    <3> QED
      BY <2>4, <3>1, BeginWriteInv DEF CopyFile, MoveFile
  <2> QED
    BY <2>1, <2>2, <2>3, <2>4
<1>2. ASSUME NEW n \in Names, DeleteFile(n)
      PROVE  Inv'
  BY <1>2, RemoveInv DEF DeleteFile, Ready
<1>3. ASSUME DirCommand
      PROVE  Inv'
  <2>1. ASSUME NEW n \in DirNames, Mkdir(n)
        PROVE  Inv'
    BY <2>1, MkdirInv
  <2>2. ASSUME NEW n \in DirNames \cup {PhantomName}, Rmdir(n)
        PROVE  Inv'
    BY <2>2, RmdirInv
  <2>3. ASSUME NEW n \in DirNames \cup {PhantomName}, ChdirDown(n)
        PROVE  Inv'
    BY <2>3, JoinType, ChdirInv DEF ChdirDown, Inv, TypeOK
  <2>4. CASE ChdirUp
    BY <2>4, ParentType, ChdirInv DEF ChdirUp, Inv, TypeOK
  <2>5. CASE ChdirRoot
    BY <2>5, ChdirInv DEF ChdirRoot, Root, Paths, Tokens
  <2> QED
    BY <1>3, <2>1, <2>2, <2>3, <2>4, <2>5 DEF DirCommand
<1>4. CASE Format
  BY <1>4, FormatInv
<1>5. ASSUME DeviceStep
      PROVE  Inv'
  <2>1. CASE WriteDataSector
    BY <2>1, WriteDataSectorInv
  <2>2. CASE WriteTable
    BY <2>2, WriteTableInv
  <2>3. CASE DeleteSource
    <3>1. power = "on" /\ job'.stage = "idle"
      BY <2>3 DEF DeleteSource, Inv, JobOK, Idle
    <3> QED
      BY <2>3, <3>1, RemoveInv DEF DeleteSource
  <2> QED
    BY <1>5, <2>1, <2>2, <2>3 DEF DeviceStep
<1>6. CASE PowerOff
  BY <1>6, PowerOffInv
<1>7. CASE Boot
  BY <1>7, BootInv
<1>8. CASE UNCHANGED vars
  BY <1>8 DEF vars, Inv, TypeOK, SoundTable, BootTable, JobOK, DiskOK
<1> QED
  BY <1>1, <1>2, <1>3, <1>4, <1>5, <1>6, <1>7, <1>8 DEF Next

LEMMA Invariance == Spec => []Inv
<1>1. Init => Inv
  BY InitInv
<1>2. Inv /\ [Next]_vars => Inv'
  BY NextInv
<1> QED
  BY <1>1, <1>2, PTL DEF Spec

\* Every reachable state is well typed, whatever fs_init has read from behind
\* sector_buffer: the texts of jobs fit a slot, and paths are strings of tokens.
THEOREM TypeCorrect == Spec => []TypeOK
<1>1. Inv => TypeOK
  BY DEF Inv
<1> QED
  BY <1>1, Invariance, PTL

\* The sectors of a slot.
Extent(slot) == StartSector(slot) .. StartSector(slot) + MaxSectorsPerFile - 1

\* The sector that fs_write_file writes next belongs to the slot of its file,
\* and so does every sector that fs_read_file reads of an entry under the name
\* of a file; all of them are data sectors, none is that of the table.
AccessesInExtent ==
  /\ job.stage = "data" => table[job.slot].start + job.next \in Extent(job.slot)
  /\ \A i \in Slots :
       table[i].used /\ table[i].name \in FileNames =>
         /\ table[i].size <= Capacity
         /\ \A j \in 1 .. table[i].size :
              table[i].start + ((j - 1) \div SectorSize) \in Extent(i)
  /\ \A i \in Slots : Extent(i) \subseteq DataSectors

\* fs_write_file writes, and fs_read_file reads, no sector outside the extent
\* of the file's slot: not that of another slot, of which ExtentsDisjoint shows
\* that it has no sector in common, and not sector 0.
THEOREM ExtentsKept == Spec => []AccessesInExtent
<1>1. ASSUME NEW slot \in Slots, NEW k \in 0 .. MaxSectorsPerFile - 1
      PROVE  StartSector(slot) + k \in Extent(slot)
  <2>1. StartSector(slot) \in Nat /\ MaxSectorsPerFile \in Nat
    BY SizeAssumption DEF StartSector, Slots
  <2> QED
    BY <2>1 DEF Extent
<1>2. Inv => AccessesInExtent
  <2> SUFFICES ASSUME Inv PROVE AccessesInExtent
    OBVIOUS
  <2>1. ASSUME job.stage = "data"
        PROVE  table[job.slot].start + job.next \in Extent(job.slot)
    <3>1. /\ job \in Jobs
          /\ table[job.slot].start = StartSector(job.slot)
          /\ job.next < SectorsNeeded(Len(job.content))
      BY <2>1 DEF Inv, TypeOK, JobOK
    <3>2. job.slot \in Slots /\ job.content \in FileContents /\ job.next \in Nat
      BY <3>1 DEF Jobs
    <3>3. SectorsNeeded(Len(job.content)) \in 0 .. MaxSectorsPerFile
      BY <3>2, FileContentsType, SectorsNeededType
    <3>4. job.next \in 0 .. MaxSectorsPerFile - 1
      BY <3>1, <3>2, <3>3, SizeAssumption
    <3> QED
      BY <1>1, <3>1, <3>2, <3>4
  <2>2. ASSUME NEW i \in Slots, table[i].used, table[i].name \in FileNames
        PROVE  /\ table[i].size <= Capacity
               /\ \A j \in 1 .. table[i].size :
                    table[i].start + ((j - 1) \div SectorSize) \in Extent(i)
    <3>1. /\ table[i].size <= Capacity
          /\ table[i].size # 0 => table[i].start = StartSector(i)
      BY <2>2 DEF Inv, SoundTable
    <3>2. table[i].size \in Nat /\ Capacity \in Nat
      BY CapacityType DEF Inv, TypeOK, Entries
    <3>3. ASSUME NEW j \in 1 .. table[i].size
          PROVE  table[i].start + ((j - 1) \div SectorSize) \in Extent(i)
      <4>1. j \in 1 .. Capacity /\ table[i].size # 0
        BY <3>1, <3>2
      <4>2. (j - 1) \div SectorSize \in 0 .. MaxSectorsPerFile - 1
        BY <4>1, SectorIndex
      <4> QED
        BY <1>1, <3>1, <4>1, <4>2
    <3> QED
      BY <3>1, <3>3
  <2>3. ASSUME NEW i \in Slots, NEW s \in Extent(i)
        PROVE  s \in DataSectors
    <3>1. StartSector(i) \in Nat /\ MaxSectorsPerFile \in Nat
      BY SizeAssumption DEF StartSector, Slots
    <3>2. s - StartSector(i) \in 0 .. MaxSectorsPerFile - 1
          /\ StartSector(i) + (s - StartSector(i)) = s
      BY <2>3, <3>1 DEF Extent
    <3> QED
      BY <3>2, SectorInRange
  <2> QED
    BY <2>1, <2>2, <2>3 DEF AccessesInExtent
<1> QED
  BY <1>2, Invariance, PTL

\* Between two commands the table in memory and the one on the disk agree,
\* whatever the sizes and wherever power was lost before.
THEOREM DiskAgreement == Spec => []DiskAgrees
<1>1. Inv => DiskAgrees
  <2> SUFFICES ASSUME Inv, Ready
               PROVE  dtable = [i \in Persisted |-> table[i]]
    BY DEF DiskAgrees
  <2>1. dtable \in [Persisted -> Entries] /\ \A i \in Persisted : dtable[i] = table[i]
    BY DEF Inv, TypeOK, DiskOK, Ready
  <2> QED
    BY <2>1
<1> QED
  BY <1>1, Invariance, PTL

-----------------------------------------------------------------------------
(* The paths of the directories.                                           *)

LEMMA PathType ==
  ASSUME NEW path \in Paths
  PROVE  /\ Len(path) \in Nat
         /\ path # <<>> => Len(path) \in Nat \ {0}
         /\ \A i \in 1 .. Len(path) : path[i] \in Tokens
BY LenProperties, EmptySeq, ElementOfSeq DEF Paths

\* What strcat makes of two strings.
LEMMA ConcatPath ==
  ASSUME NEW path \in Paths, NEW n \in Paths
  PROVE  /\ path \o n \in Paths
         /\ Len(path \o n) = Len(path) + Len(n)
         /\ \A i \in 1 .. Len(path) : (path \o n)[i] = path[i]
         /\ \A i \in 1 .. Len(n) : (path \o n)[Len(path) + i] = n[i]
<1> DEFINE L == Len(path)
           M == Len(n)
<1>1. L \in Nat /\ M \in Nat
  BY PathType
<1>2. path \in Seq(Tokens) /\ n \in Seq(Tokens)
  BY DEF Paths
<1>3. /\ path \o n \in Seq(Tokens)
      /\ Len(path \o n) = L + M
      /\ \A i \in 1 .. L + M :
           (path \o n)[i] = IF i <= L THEN path[i] ELSE n[i - L]
  BY <1>2, ConcatProperties
<1> HIDE DEF L, M
<1>4. ASSUME NEW i \in 1 .. L
      PROVE  (path \o n)[i] = path[i]
  <2>1. i \in 1 .. L + M /\ i <= L
    BY <1>1
  <2> QED
    BY <1>3, <2>1
<1>5. ASSUME NEW i \in 1 .. M
      PROVE  (path \o n)[L + i] = n[i]
  <2>1. L + i \in 1 .. L + M /\ ~ (L + i <= L) /\ (L + i) - L = i
    BY <1>1
  <2> QED
    BY <1>3, <2>1
<1> QED
  BY <1>3, <1>4, <1>5 DEF L, M, Paths

LEMMA SlashType ==
  Root \in Paths /\ Len(Root) = 1 /\ Root[1] = Slash /\ <<>> \in Paths
BY DEF Root, Paths, Tokens

LEMMA PrefixType ==
  ASSUME NEW path \in Paths, NEW k \in 1 .. Len(path)
  PROVE  /\ SubSeq(path, 1, k) \in Paths
         /\ Len(SubSeq(path, 1, k)) = k
         /\ \A i \in 1 .. k : SubSeq(path, 1, k)[i] = path[i]
<1>1. Len(path) \in Nat /\ \A i \in 1 .. Len(path) : path[i] \in Tokens
  BY PathType
<1>2. \A i \in 1 .. k : path[i] \in Tokens
  BY <1>1
<1>3. /\ SubSeq(path, 1, k) \in Seq(Tokens)
      /\ Len(SubSeq(path, 1, k)) = IF 1 <= k THEN k - 1 + 1 ELSE 0
      /\ \A i \in 1 .. k - 1 + 1 : SubSeq(path, 1, k)[i] = path[1 + i - 1]
  BY <1>1, <1>2, SubSeqProperties
<1>4. \A i \in 1 .. k : 1 + i - 1 = i /\ i \in 1 .. k - 1 + 1
  BY <1>1
<1> QED
  BY <1>1, <1>3, <1>4 DEF Paths

\* Two strings are equal when they agree position by position.
LEMMA PathEqual ==
  ASSUME NEW p \in Paths, NEW q \in Paths, Len(p) = Len(q),
         \A i \in 1 .. Len(p) : p[i] = q[i]
  PROVE  p = q
BY SeqEqual DEF Paths

\* fs_chdir("..") cuts after the last slash before the last character.
LEMMA ParentCut ==
  ASSUME NEW path \in Paths, NEW k \in 1 .. Len(path) - 1, path[k] = Slash,
         \A j \in k + 1 .. Len(path) - 1 : path[j] # Slash
  PROVE  Parent(path) = SubSeq(path, 1, k)
<1> DEFINE slashes == {i \in 1 .. Len(path) - 1 : path[i] = Slash}
<1>1. Len(path) \in Nat
  BY PathType
<1>2. k \in slashes
  OBVIOUS
<1>3. \A j \in slashes : j <= k
  BY <1>1
<1>4. \A i \in slashes : (\A j \in slashes : j <= i) => i = k
  <2> SUFFICES ASSUME NEW i \in slashes, \A j \in slashes : j <= i
               PROVE  i = k
    OBVIOUS
  <2>1. i <= k /\ k <= i /\ i \in Nat /\ k \in Nat
    BY <1>1, <1>2, <1>3
  <2> QED
    BY <2>1
<1> HIDE DEF slashes
<1>5. (CHOOSE i \in slashes : \A j \in slashes : j <= i) = k
  BY <1>2, <1>3, <1>4
<1> QED
  BY <1>2, <1>5 DEF Parent, slashes

\* A string with a slash before its last character has a last such slash.
LEMMA LastSlash ==
  ASSUME NEW path \in Paths, \E i \in 1 .. Len(path) - 1 : path[i] = Slash
  PROVE  \E k \in 1 .. Len(path) - 1 :
           /\ path[k] = Slash
           /\ \A j \in k + 1 .. Len(path) - 1 : path[j] # Slash
           /\ Parent(path) = SubSeq(path, 1, k)
<1> DEFINE slashes == {i \in 1 .. Len(path) - 1 : path[i] = Slash}
           up == {Len(path) - j : j \in slashes}
<1>1. Len(path) \in Nat
  BY PathType
<1>2. up \in SUBSET Nat /\ up # {}
  BY <1>1
<1>3. First(up) \in up /\ \A u \in up : First(up) <= u
  BY <1>2, LeastElement
<1>4. PICK k \in slashes : First(up) = Len(path) - k
  BY <1>3
<1>5. ASSUME NEW j \in k + 1 .. Len(path) - 1
      PROVE  path[j] # Slash
  <2> SUFFICES ASSUME path[j] = Slash PROVE FALSE
    OBVIOUS
  <2>1. j \in slashes /\ k \in Nat /\ j \in Nat /\ k < j
    BY <1>1
  <2>2. Len(path) - j \in up
    BY <2>1
  <2>3. Len(path) - k <= Len(path) - j
    BY <1>3, <1>4, <2>2
  <2> QED
    BY <1>1, <2>1, <2>3
<1>6. k \in 1 .. Len(path) - 1 /\ path[k] = Slash
  OBVIOUS
<1>7. Parent(path) = SubSeq(path, 1, k)
  BY <1>5, <1>6, ParentCut
<1> QED
  BY <1>5, <1>6, <1>7

\* Where a name is cut: Above(n) is the first k characters of it.
LEMMA AboveCut ==
  ASSUME NEW n \in Paths, n # <<>>
  PROVE  \E k \in 0 .. Len(n) - 1 :
           /\ k # 0 => n[k] = Slash
           /\ \A j \in k + 1 .. Len(n) - 1 : n[j] # Slash
           /\ Above(n) \in Paths /\ Len(Above(n)) = k
           /\ \A i \in 1 .. k : Above(n)[i] = n[i]
<1>1. Len(n) \in Nat \ {0}
  BY PathType
<1>2. CASE \E i \in 1 .. Len(n) - 1 : n[i] = Slash
  <2>1. PICK k \in 1 .. Len(n) - 1 :
          /\ n[k] = Slash
          /\ \A j \in k + 1 .. Len(n) - 1 : n[j] # Slash
          /\ Parent(n) = SubSeq(n, 1, k)
    BY <1>2, LastSlash
  <2>2. Above(n) = SubSeq(n, 1, k)
    BY <1>2, <2>1 DEF Above
  <2>3. k \in 1 .. Len(n) /\ k \in 0 .. Len(n) - 1
    BY <1>1
  <2> QED
    BY <2>1, <2>2, <2>3, PrefixType
<1>3. CASE ~ \E i \in 1 .. Len(n) - 1 : n[i] = Slash
  <2>1. Above(n) = <<>>
    BY <1>3 DEF Above
  <2>2. <<>> \in Paths /\ Len(<<>>) = 0 /\ 0 \in 0 .. Len(n) - 1
    BY <1>1, SlashType
  <2>3. \A j \in 0 + 1 .. Len(n) - 1 : n[j] # Slash
    BY <1>3
  <2>4. \A i \in 1 .. 0 : <<>>[i] = n[i]
    OBVIOUS
  <2> QED
    BY <2>1, <2>2, <2>3, <2>4
<1> QED
  BY <1>2, <1>3

\* cd .. takes the last component of a name away, and nothing of what is
\* before the slash in front of it.
LEMMA ParentOfName ==
  ASSUME NEW path \in Paths, path # <<>>, path[Len(path)] = Slash,
         NEW n \in Paths, n # <<>>
  PROVE  Parent(path \o n) = path \o Above(n)
<1> DEFINE L == Len(path)
           M == Len(n)
           q == path \o n
           r == path \o Above(n)
<1>1. L \in Nat \ {0} /\ M \in Nat \ {0}
  BY PathType
<1>2. PICK k \in 0 .. M - 1 :
        /\ k # 0 => n[k] = Slash
        /\ \A j \in k + 1 .. M - 1 : n[j] # Slash
        /\ Above(n) \in Paths /\ Len(Above(n)) = k
        /\ \A i \in 1 .. k : Above(n)[i] = n[i]
  BY AboveCut
<1>3. /\ q \in Paths /\ Len(q) = L + M
      /\ \A i \in 1 .. L : q[i] = path[i]
      /\ \A i \in 1 .. M : q[L + i] = n[i]
  BY ConcatPath
<1>4. /\ r \in Paths /\ Len(r) = L + k
      /\ \A i \in 1 .. L : r[i] = path[i]
      /\ \A i \in 1 .. k : r[L + i] = Above(n)[i]
  BY <1>2, ConcatPath
<1>5. path[L] = Slash
  OBVIOUS
<1> HIDE DEF L, M, q, r
<1>6. L + k \in 1 .. Len(q) - 1 /\ L + k \in 1 .. Len(q) /\ L \in 1 .. L
  BY <1>1, <1>3
<1>7. q[L + k] = Slash
  <2>1. CASE k = 0
    BY <1>1, <1>3, <1>5, <1>6, <2>1
  <2>2. CASE k # 0
    <3>1. k \in 1 .. M
      BY <1>1, <2>2
    <3> QED
      BY <1>2, <1>3, <2>2, <3>1
  <2> QED
    BY <2>1, <2>2
<1>8. ASSUME NEW j \in L + k + 1 .. Len(q) - 1
      PROVE  q[j] # Slash
  <2>1. j - L \in k + 1 .. M - 1 /\ j - L \in 1 .. M /\ L + (j - L) = j
    BY <1>1, <1>3
  <2> QED
    BY <1>2, <1>3, <2>1
<1>9. Parent(q) = SubSeq(q, 1, L + k)
  BY <1>3, <1>6, <1>7, <1>8, ParentCut
<1>10. /\ SubSeq(q, 1, L + k) \in Paths /\ Len(SubSeq(q, 1, L + k)) = L + k
       /\ \A i \in 1 .. L + k : SubSeq(q, 1, L + k)[i] = q[i]
  BY <1>3, <1>6, PrefixType
<1>11. ASSUME NEW i \in 1 .. L + k
       PROVE  q[i] = r[i]
  <2>1. CASE i <= L
    <3>1. i \in 1 .. L
      BY <1>1, <2>1
    <3> QED
      BY <1>3, <1>4, <3>1
  <2>2. CASE ~ (i <= L)
    <3>1. i - L \in 1 .. k /\ i - L \in 1 .. M /\ L + (i - L) = i
      BY <1>1, <2>2
    <3>2. q[L + (i - L)] = n[i - L] /\ r[L + (i - L)] = Above(n)[i - L]
      BY <1>3, <1>4, <3>1
    <3> QED
      BY <1>2, <3>1, <3>2
  <2> QED
    BY <2>1, <2>2
<1>12. SubSeq(q, 1, L + k) = r
  BY <1>4, <1>10, <1>11, PathEqual
<1> QED
  BY <1>9, <1>12 DEF q, r

\* The slash that strcat, or an earlier cd .., leaves at the end of a path does
\* not hold the next cd .. up.
LEMMA ParentOfSlash ==
  ASSUME NEW path \in Paths, path[Len(path)] # Slash,
         \E i \in 1 .. Len(path) - 1 : path[i] = Slash
  PROVE  Parent(path \o Root) = Parent(path)
<1> DEFINE L == Len(path)
           q == path \o Root
<1>1. PICK k \in 1 .. L - 1 :
        /\ path[k] = Slash
        /\ \A j \in k + 1 .. L - 1 : path[j] # Slash
        /\ Parent(path) = SubSeq(path, 1, k)
  BY LastSlash
<1>2. L \in Nat
  BY PathType
<1>3. /\ q \in Paths /\ Len(q) = L + 1
      /\ \A i \in 1 .. L : q[i] = path[i]
  <2>1. Root \in Paths /\ Len(Root) = 1
    BY SlashType
  <2>2. /\ path \o Root \in Paths /\ Len(path \o Root) = Len(path) + Len(Root)
        /\ \A i \in 1 .. Len(path) : (path \o Root)[i] = path[i]
    BY <2>1, ConcatPath
  <2> QED
    BY <2>1, <2>2
<1>4. path[L] # Slash
  OBVIOUS
<1> HIDE DEF L, q
<1>5. k \in 1 .. Len(q) - 1 /\ k \in 1 .. L /\ k \in 1 .. Len(q)
  BY <1>2, <1>3
<1>6. ASSUME NEW j \in k + 1 .. Len(q) - 1
      PROVE  q[j] # Slash
  <2>1. j \in 1 .. L /\ (j \in k + 1 .. L - 1 \/ j = L)
    BY <1>2, <1>3
  <2> QED
    BY <1>1, <1>3, <1>4, <2>1
<1>7. Parent(q) = SubSeq(q, 1, k)
  BY <1>1, <1>3, <1>5, <1>6, ParentCut
<1>8. SubSeq(q, 1, k) = SubSeq(path, 1, k)
  <2>1. /\ SubSeq(q, 1, k) \in Paths /\ Len(SubSeq(q, 1, k)) = k
        /\ \A i \in 1 .. k : SubSeq(q, 1, k)[i] = q[i]
    BY <1>3, <1>5, PrefixType
  <2>2. /\ SubSeq(path, 1, k) \in Paths /\ Len(SubSeq(path, 1, k)) = k
        /\ \A i \in 1 .. k : SubSeq(path, 1, k)[i] = path[i]
    BY <1>5, PrefixType DEF L
  <2>3. \A i \in 1 .. k : q[i] = path[i]
    BY <1>2, <1>3, <1>5
  <2> QED
    BY <2>1, <2>2, <2>3, PathEqual
<1> QED
  BY <1>1, <1>7, <1>8 DEF q

\* The path strcat appends a name to: with a slash at its end.
Base(path) == IF path[Len(path)] = Slash THEN path ELSE path \o Root

LEMMA BaseType ==
  ASSUME NEW path \in Paths, path # <<>>
  PROVE  /\ Base(path) \in Paths /\ Base(path) # <<>>
         /\ Base(path)[Len(Base(path))] = Slash
         /\ \A n : Join(path, n) = Base(path) \o n
         /\ Join(path, <<>>) = Base(path)
<1>1. Len(path) \in Nat \ {0}
  BY PathType
<1>2. /\ path \o Root \in Paths /\ Len(path \o Root) = Len(path) + 1
      /\ (path \o Root)[Len(path) + 1] = Slash
  <2>1. Root \in Paths /\ Len(Root) = 1 /\ Root[1] = Slash /\ 1 \in 1 .. 1
    BY SlashType
  <2>2. /\ path \o Root \in Paths /\ Len(path \o Root) = Len(path) + Len(Root)
        /\ \A i \in 1 .. Len(Root) : (path \o Root)[Len(path) + i] = Root[i]
    BY <2>1, ConcatPath
  <2> QED
    BY <2>1, <2>2
<1>3. path \o Root # <<>>
  BY <1>1, <1>2
<1>4. /\ Base(path) \in Paths /\ Base(path) # <<>>
      /\ Base(path)[Len(Base(path))] = Slash
  BY <1>2, <1>3 DEF Base
<1>5. \A n : Join(path, n) = Base(path) \o n
  BY DEF Join, Base, Root
<1>6. Base(path) \o <<>> = Base(path)
  BY <1>4, ConcatEmptySeq DEF Paths
<1> QED
  BY <1>4, <1>5, <1>6

LEMMA UpAfterDown ==
  ASSUME NEW path \in Paths, path # <<>>, NEW n \in Paths, n # <<>>,
         NEW m \in Paths, m # <<>>
  PROVE  /\ Parent(Join(path, n)) = Join(path, Above(n))
         /\ Above(m) = <<>> =>
              Parent(Parent(Join(Join(path, n), m))) = Join(path, Above(n))
<1> DEFINE B == Base(path)
           q == B \o n
<1>1. /\ B \in Paths /\ B # <<>> /\ B[Len(B)] = Slash
      /\ Join(path, n) = q /\ Join(path, Above(n)) = B \o Above(n)
  BY BaseType
<1>2. Parent(q) = B \o Above(n)
  BY <1>1, ParentOfName
<1>3. Len(B) \in Nat \ {0} /\ Len(n) \in Nat \ {0}
  BY <1>1, PathType
<1>4. /\ q \in Paths /\ Len(q) = Len(B) + Len(n)
      /\ \A i \in 1 .. Len(B) : q[i] = B[i]
  BY <1>1, ConcatPath
<1>5. q # <<>>
  BY <1>3, <1>4
<1> HIDE DEF B, q
<1>6. \E i \in 1 .. Len(q) - 1 : q[i] = Slash
  <2>1. Len(B) \in 1 .. Len(q) - 1 /\ Len(B) \in 1 .. Len(B)
    BY <1>3, <1>4
  <2>2. q[Len(B)] = Slash
    BY <1>1, <1>4, <2>1
  <2> QED
    BY <2>1, <2>2
<1>7. Parent(Base(q)) = Parent(q)
  <2>1. CASE q[Len(q)] = Slash
    BY <2>1 DEF Base
  <2>2. CASE q[Len(q)] # Slash
    <3>1. Base(q) = q \o Root
      BY <2>2 DEF Base
    <3> QED
      BY <1>4, <1>6, <2>2, <3>1, ParentOfSlash
  <2> QED
    BY <2>1, <2>2
<1>8. ASSUME Above(m) = <<>>
      PROVE  Parent(Join(q, m)) = Base(q)
  <2>1. /\ Base(q) \in Paths /\ Base(q) # <<>> /\ Base(q)[Len(Base(q))] = Slash
        /\ Join(q, m) = Base(q) \o m
    BY <1>4, <1>5, BaseType
  <2>2. Base(q) \o <<>> = Base(q)
    BY <2>1, ConcatEmptySeq DEF Paths
  <2> QED
    BY <1>8, <2>1, <2>2, ParentOfName
<1> QED
  BY <1>1, <1>2, <1>7, <1>8

LEMMA ParentWellFormed ==
  ASSUME NEW path \in Paths, WellFormed(path)
  PROVE  WellFormed(Parent(path))
<1>1. Len(path) \in Nat \ {0}
  BY PathType DEF WellFormed
<1>2. CASE ~ \E i \in 1 .. Len(path) - 1 : path[i] = Slash
  <2>1. Parent(path) = path
    BY <1>2 DEF Parent
  <2> QED
    BY <2>1
<1>3. CASE \E i \in 1 .. Len(path) - 1 : path[i] = Slash
  <2>1. PICK k \in 1 .. Len(path) - 1 : Parent(path) = SubSeq(path, 1, k)
    BY <1>3, LastSlash
  <2>2. k \in 1 .. Len(path)
    BY <1>1
  <2> DEFINE q == SubSeq(path, 1, k)
  <2>3. q \in Paths /\ Len(q) = k /\ \A i \in 1 .. k : q[i] = path[i]
    BY <2>2, PrefixType
  <2> HIDE DEF q
  <2>4. q # <<>> /\ q[1] = Slash
    BY <1>1, <2>2, <2>3 DEF WellFormed
  <2>5. ASSUME NEW i \in 1 .. Len(q) - 1
        PROVE  q[i] = Slash \/ q[i + 1] = Slash
    <3>1. i \in 1 .. Len(path) - 1 /\ i \in 1 .. k /\ i + 1 \in 1 .. k
      BY <1>1, <2>2, <2>3
    <3>2. q[i] = path[i] /\ q[i + 1] = path[i + 1]
      BY <2>3, <3>1
    <3> QED
      BY <3>1, <3>2 DEF WellFormed
  <2>6. WellFormed(q)
    BY <2>4, <2>5 DEF WellFormed
  <2> QED
    BY <2>1, <2>6 DEF q
<1> QED
  BY <1>2, <1>3

\* A name, or a slash, after a path: the two characters that meet are no two
\* parts if one of them is a slash.
LEMMA ConcatWellFormed ==
  ASSUME NEW path \in Paths, WellFormed(path), NEW n \in Paths, n # <<>>,
         \A i \in 1 .. Len(n) - 1 : n[i] = Slash \/ n[i + 1] = Slash,
         path[Len(path)] = Slash \/ n[1] = Slash
  PROVE  WellFormed(path \o n)
<1> DEFINE L == Len(path)
           M == Len(n)
           q == path \o n
<1>1. L \in Nat \ {0} /\ M \in Nat \ {0}
  BY PathType DEF WellFormed
<1>2. /\ Len(q) = L + M
      /\ \A i \in 1 .. L : q[i] = path[i]
      /\ \A i \in 1 .. M : q[L + i] = n[i]
      /\ q \in Paths
  BY ConcatPath
<1>3. /\ path[1] = Slash
      /\ \A i \in 1 .. L - 1 : path[i] = Slash \/ path[i + 1] = Slash
      /\ \A i \in 1 .. M - 1 : n[i] = Slash \/ n[i + 1] = Slash
      /\ path[L] = Slash \/ n[1] = Slash
  BY DEF WellFormed
<1> HIDE DEF L, M, q
<1>4. q # <<>> /\ q[1] = Slash
  BY <1>1, <1>2, <1>3
<1>5. ASSUME NEW i \in 1 .. Len(q) - 1
      PROVE  q[i] = Slash \/ q[i + 1] = Slash
  <2>1. CASE i < L
    <3>1. i \in 1 .. L - 1 /\ i \in 1 .. L /\ i + 1 \in 1 .. L
      BY <1>1, <1>2, <2>1
    <3> QED
      BY <1>2, <1>3, <3>1
  <2>2. CASE i = L
    <3>1. L \in 1 .. L /\ 1 \in 1 .. M
      BY <1>1
    <3> QED
      BY <1>2, <1>3, <2>2, <3>1
  <2>3. CASE i > L
    <3>1. /\ i - L \in 1 .. M - 1 /\ i - L \in 1 .. M /\ (i - L) + 1 \in 1 .. M
          /\ L + (i - L) = i /\ L + ((i - L) + 1) = i + 1
      BY <1>1, <1>2, <2>3
    <3>2. q[i] = n[i - L] /\ q[i + 1] = n[(i - L) + 1]
      BY <1>2, <3>1
    <3> QED
      BY <1>3, <3>1, <3>2
  <2> QED
    BY <1>1, <2>1, <2>2, <2>3
<1> QED
  BY <1>4, <1>5 DEF WellFormed, q

LEMMA JoinWellFormed ==
  ASSUME NEW path \in Paths, WellFormed(path), NEW n \in DirNames \cup {PhantomName}
  PROVE  WellFormed(Join(path, n))
<1>1. /\ n \in Paths /\ n # <<>>
      /\ \A i \in 1 .. Len(n) - 1 : n[i] = Slash \/ n[i + 1] = Slash
  BY NameAssumption
<1>2. path # <<>>
  BY DEF WellFormed
<1>3. /\ Base(path) \in Paths /\ Base(path)[Len(Base(path))] = Slash
      /\ Join(path, n) = Base(path) \o n
  BY <1>2, BaseType
<1>4. WellFormed(Base(path))
  <2>1. CASE path[Len(path)] = Slash
    BY <2>1 DEF Base
  <2>2. CASE path[Len(path)] # Slash
    <3>1. Base(path) = path \o Root
      BY <2>2 DEF Base
    <3>2. Root # <<>> /\ \A i \in 1 .. Len(Root) - 1 : Root[i] = Slash \/ Root[i + 1] = Slash
      BY SlashType DEF Root
    <3> QED
      BY <3>1, <3>2, SlashType, ConcatWellFormed
  <2> QED
    BY <2>1, <2>2
<1> QED
  BY <1>1, <1>3, <1>4, ConcatWellFormed

\* current_directory is well formed, and so is every path copied from it, in
\* memory and on the disk.
PathsIn(tbl, S) ==
  \A i \in S : tbl[i].used /\ tbl[i].name # PhantomName => WellFormed(tbl[i].path)

PathInv ==
  WellFormed(cwd) /\ PathsIn(table, Slots) /\ PathsIn(dtable, Persisted)

LEMMA NextPaths ==
  ASSUME Inv, PathInv, [Next]_vars
  PROVE  PathInv'
<1>1. WellFormed(Root)
  BY DEF WellFormed, Root
<1>2. cwd \in Paths /\ table \in [Slots -> Entries]
  BY DEF Inv, TypeOK
<1>3. ASSUME cwd' = cwd, PathsIn(table', Slots), SaveTable(table') \/ dtable' = dtable
      PROVE  PathInv'
  BY <1>3, SlotsAreNat DEF PathInv, PathsIn, SaveTable
<1>4. ASSUME NEW n, NEW text, NEW src, BeginWrite(n, text, src)
      PROVE  PathInv'
  <2>1. /\ \A i \in Slots : table'[i] = table[i] \/ table'[i].path = cwd
        /\ cwd' = cwd /\ dtable' = dtable
    BY <1>2, <1>4 DEF BeginWrite, disk
  <2> QED
    BY <1>3, <2>1 DEF PathInv, PathsIn
<1>5. ASSUME NEW i, table' = [table EXCEPT ![i] = Unused], SaveTable(table'), cwd' = cwd
      PROVE  PathInv'
  <2>1. \A j \in Slots : table'[j] = table[j] \/ ~ table'[j].used
    BY <1>2, <1>5, UnusedType
  <2> QED
    BY <1>3, <1>5, <2>1 DEF PathInv, PathsIn
<1>6. ASSUME NEW n, Mkdir(n)
      PROVE  PathInv'
  <2>1. /\ \A i \in Slots : table'[i] = table[i] \/ table'[i].path = cwd
        /\ cwd' = cwd /\ SaveTable(table')
    BY <1>2, <1>6 DEF Mkdir
  <2> QED
    BY <1>3, <2>1 DEF PathInv, PathsIn
<1>7. ASSUME WellFormed(cwd'), UNCHANGED <<table, disk>>
      PROVE  PathInv'
  BY <1>7 DEF PathInv, PathsIn, disk
<1>8. CASE FileCommand
  BY <1>4, <1>8 DEF FileCommand, WriteFile, Touch, CopyFile, MoveFile
<1>9. ASSUME NEW n, Remove(n)
      PROVE  PathInv'
  BY <1>5, <1>9 DEF Remove
<1>10. CASE DirCommand
  <2>1. ASSUME NEW n, Rmdir(n)
        PROVE  PathInv'
    BY <1>5, <2>1 DEF Rmdir
  <2>2. ASSUME NEW n \in DirNames \cup {PhantomName}, ChdirDown(n)
        PROVE  PathInv'
    BY <1>2, <1>7, <2>2, JoinWellFormed DEF ChdirDown, PathInv
  <2>3. CASE ChdirUp
    BY <1>2, <1>7, <2>3, ParentWellFormed DEF ChdirUp, PathInv
  <2>4. CASE ChdirRoot
    BY <1>1, <1>7, <2>4 DEF ChdirRoot
  <2> QED
    BY <1>6, <1>10, <2>1, <2>2, <2>3, <2>4 DEF DirCommand
<1>11. CASE Format \/ PowerOff
  <2>1. /\ table' = [i \in Slots |-> Unused] /\ cwd' = Root
        /\ SaveTable(table') \/ dtable' = dtable
    BY <1>11 DEF Format, PowerOff, disk
  <2>2. PathsIn(table', Slots)
    BY <2>1, UnusedType DEF PathsIn
  <2> QED
    BY <1>1, <2>1, <2>2, SlotsAreNat DEF PathInv, PathsIn, SaveTable
<1>12. CASE Boot
  <2>1. table' = BootTable(dtable) /\ cwd' = cwd /\ dtable' = dtable
    BY <1>12 DEF Boot, disk
  <2>2. PathsIn(table', Slots)
    BY <2>1, DataAssumption DEF PathInv, PathsIn, BootTable
  <2> QED
    BY <1>3, <2>1, <2>2
<1>13. CASE DeviceStep
  <2>1. ASSUME WriteDataSector \/ WriteTable
        PROVE  PathInv'
    <3>1. cwd' = cwd /\ table' = table /\ (SaveTable(table') \/ dtable' = dtable)
      BY <2>1 DEF WriteDataSector, WriteTable, SaveTable
    <3> QED
      BY <1>3, <3>1 DEF PathInv, PathsIn
  <2> QED
    BY <1>9, <1>13, <2>1 DEF DeviceStep, DeleteSource
<1>14. CASE UNCHANGED vars
  BY <1>14 DEF vars, PathInv, PathsIn
<1> QED
  BY <1>8, <1>9, <1>10, <1>11, <1>12, <1>13, <1>14 DEF Next, DeleteFile

\* Whatever sequence of cd, mkdir and writes, current_directory and the paths
\* copied from it are absolute, and strcat runs no two names together, names
\* with slashes included.
THEOREM WellFormedPaths == Spec => []PathsWellFormed
<1>1. Init => PathInv
  BY UnusedType DEF Init, PathInv, PathsIn, WellFormed, Root
<1>2. Inv /\ PathInv /\ [Next]_vars => PathInv'
  BY NextPaths
<1>3. PathInv => PathsWellFormed
  BY DEF PathInv, PathsIn, PathsWellFormed
<1> QED
  BY <1>1, <1>2, <1>3, Invariance, PTL DEF Spec

\* From wherever one is, cd .. takes back exactly the last component of the name
\* cd n has entered, and the next cd .. is not held up by the slash at the end.
THEOREM UpAfterDownIsHome == Spec => []UpUndoesDown
<1>1. Inv /\ PathsWellFormed => UpUndoesDown
  <2> SUFFICES ASSUME Inv, PathsWellFormed, NEW n \in Enterable, NEW m \in Enterable
               PROVE  /\ Parent(Join(cwd, n)) = Join(cwd, Above(n))
                      /\ Above(m) = <<>> =>
                           Parent(Parent(Join(Join(cwd, n), m))) = Join(cwd, Above(n))
    BY DEF UpUndoesDown
  <2>1. cwd \in Paths /\ cwd # <<>>
    BY DEF Inv, TypeOK, PathsWellFormed, WellFormed
  <2>2. n \in Paths /\ n # <<>> /\ m \in Paths /\ m # <<>>
    BY NameAssumption DEF Enterable
  <2> QED
    BY <2>1, <2>2, UpAfterDown
<1> QED
  BY <1>1, Invariance, WellFormedPaths, PTL

-----------------------------------------------------------------------------
(* What the files of 323FS promise: one entry per file, a write is read    *)
(* back, a saved file survives a loss of power, and the whole of it        *)
(* implements FileStore.                                                   *)

(* One entry per file.                                                     *)

\* No two used entries of a table share a name that only files are given.
\* (mkdir does not look for the name, so directories do share names.)
UniqueIn(tbl) ==
  \A n \in FileNames \ DirNames : \A i, j \in Matches(tbl, n) : i = j

\* In memory, and in what a boot would make of the disk.
Unique == UniqueIn(table) /\ UniqueIn(BootTable(dtable))

LEMMA BootMatches ==
  ASSUME NEW dt, NEW n \in FileNames
  PROVE  Matches(BootTable(dt), n) = {i \in Persisted : dt[i].used /\ dt[i].name = n}
<1>1. Persisted \subseteq Slots
  BY SlotsAreNat
<1>2. ASSUME NEW i \in Slots \ Persisted
      PROVE  ~ (BootGarbage[i].used /\ BootGarbage[i].name = n)
  BY DataAssumption, NameAssumption
<1> QED
  BY <1>1, <1>2 DEF Matches, BootTable

\* Saving a table whose files have one entry leaves such a table on the disk.
LEMMA SaveUnique ==
  ASSUME NEW tbl, UniqueIn(tbl), SaveTable(tbl)
  PROVE  UniqueIn(BootTable(dtable'))
<1>1. ASSUME NEW n \in FileNames
      PROVE  Matches(BootTable(dtable'), n) \subseteq Matches(tbl, n)
  <2>1. Matches(BootTable(dtable'), n)
          = {i \in Persisted : dtable'[i].used /\ dtable'[i].name = n}
    BY BootMatches
  <2>2. \A i \in Persisted : dtable'[i] = tbl[i]
    BY DEF SaveTable
  <2> QED
    BY <2>1, <2>2, SlotsAreNat DEF Matches
<1> QED
  BY <1>1 DEF UniqueIn

\* new is tbl with e in slot i, where a write of n puts it.
Puts(tbl, n, i, e, new) ==
  /\ WriteSlots(tbl, n) # {} /\ i = First(WriteSlots(tbl, n))
  /\ e.used /\ e.name = n
  /\ \A j \in Slots : new[j] = IF j = i THEN e ELSE tbl[j]

LEMMA MatchesAfterWrite ==
  ASSUME NEW tbl, NEW n, NEW i, NEW e, NEW new, Puts(tbl, n, i, e, new)
  PROVE  /\ i \in Slots
         /\ new[i] = e
         /\ Matches(new, n) = Matches(tbl, n) \cup {i}
         /\ \A m : m # n => Matches(new, m) = Matches(tbl, m)
<1>1. i \in Slots /\ (tbl[i].used => tbl[i].name = n)
  BY FirstWriteSlot DEF Puts
<1>2. new[i] = e
  BY <1>1 DEF Puts
<1> QED
  BY <1>1, <1>2 DEF Matches, Puts

\* The slot fs_write_file chooses is the one a search for the name then finds.
LEMMA WriteSlotIsFirstMatch ==
  ASSUME NEW tbl, NEW n, NEW i, NEW e, NEW new, Puts(tbl, n, i, e, new)
  PROVE  /\ i = First(Matches(new, n))
         /\ Matches(tbl, n) # {} => i \in Matches(tbl, n)
         /\ Matches(tbl, n) = {} => i = First(FreeSlots(tbl)) /\ FreeSlots(tbl) # {}
<1>1. Matches(new, n) = Matches(tbl, n) \cup {i} /\ i \in Slots
  BY MatchesAfterWrite
<1>2. CASE Matches(tbl, n) # {}
  <2>1. i = First(Matches(tbl, n))
    BY <1>2 DEF WriteSlots, Puts
  <2>2. tbl[i].used /\ tbl[i].name = n
    BY <2>1, <1>2, FirstMatch
  <2>3. i \in Matches(tbl, n)
    BY <1>1, <2>2 DEF Matches
  <2>4. Matches(new, n) = Matches(tbl, n)
    BY <1>1, <2>3
  <2> QED
    BY <1>2, <2>1, <2>3, <2>4
<1>3. CASE Matches(tbl, n) = {}
  <2>1. Matches(new, n) = {i}
    BY <1>1, <1>3
  <2>2. First({i}) = i
    BY <1>1, SlotsAreNat DEF First
  <2>3. i = First(FreeSlots(tbl)) /\ FreeSlots(tbl) # {}
    BY <1>3 DEF WriteSlots, Puts
  <2> QED
    BY <1>3, <2>1, <2>2, <2>3
<1> QED
  BY <1>2, <1>3

\* A removal takes the entry it removes out of the matches of every name.
LEMMA MatchesAfterRemove ==
  ASSUME NEW tbl \in [Slots -> Entries], NEW i \in Slots, NEW m
  PROVE  Matches([tbl EXCEPT ![i] = Unused], m) = Matches(tbl, m) \ {i}
<1>1. \A j \in Slots : [tbl EXCEPT ![i] = Unused][j] = IF j = i THEN Unused ELSE tbl[j]
  OBVIOUS
<1> QED
  BY <1>1, UnusedType DEF Matches

\* The entry a file write leaves in its slot.
FileEntry(slot, n, text) ==
  [used |-> TRUE, name |-> n, path |-> cwd, start |-> StartSector(slot),
   size |-> Len(text), is_directory |-> FALSE]

\* What BeginWrite does, in the form the proofs use.
LEMMA BeginWriteStep ==
  ASSUME Inv, NEW n \in FileNames, NEW text \in FileContents, NEW src,
         BeginWrite(n, text, src)
  PROVE  /\ job'.slot \in Slots
         /\ Puts(table, n, job'.slot, FileEntry(job'.slot, n, text), table')
         /\ job'.stage = IF SectorsNeeded(Len(text)) = 0 THEN "table" ELSE "data"
         /\ job'.content = text /\ job'.next = 0 /\ job'.src = src
         /\ power' = power /\ cwd' = cwd /\ dtable' = dtable /\ data' = data
<1> DEFINE slot == First(WriteSlots(table, n))
<1>1. WriteSlots(table, n) # {} /\ slot \in Slots
  BY FirstWriteSlot DEF BeginWrite
<1>2. table \in [Slots -> Entries]
  BY DEF Inv, TypeOK
<1>3. /\ table' = [table EXCEPT ![slot] = FileEntry(slot, n, text)]
      /\ job' = [stage |-> IF SectorsNeeded(Len(text)) = 0 THEN "table" ELSE "data",
                 slot |-> slot, content |-> text, next |-> 0, src |-> src]
      /\ power' = power /\ cwd' = cwd /\ dtable' = dtable /\ data' = data
  BY DEF BeginWrite, disk, FileEntry
<1>4. FileEntry(slot, n, text).used /\ FileEntry(slot, n, text).name = n
  BY DEF FileEntry
<1>5. \A j \in Slots : table'[j] = IF j = slot THEN FileEntry(slot, n, text) ELSE table[j]
  BY <1>2, <1>3
<1>6. Puts(table, n, slot, FileEntry(slot, n, text), table')
  BY <1>1, <1>4, <1>5 DEF Puts
<1> QED
  BY <1>1, <1>3, <1>6

LEMMA BeginWriteUnique ==
  ASSUME Inv, Unique, NEW n \in FileNames, NEW text \in FileContents, NEW src,
         BeginWrite(n, text, src)
  PROVE  Unique'
<1>1. PICK i, e : Puts(table, n, i, e, table') /\ dtable' = dtable
  BY BeginWriteStep
<1>2. /\ Matches(table', n) = Matches(table, n) \cup {i}
      /\ \A m : m # n => Matches(table', m) = Matches(table, m)
  BY <1>1, MatchesAfterWrite
<1>3. Matches(table, n) # {} => i \in Matches(table, n)
  BY <1>1, WriteSlotIsFirstMatch
<1>4. UniqueIn(table')
  BY <1>2, <1>3 DEF Unique, UniqueIn
<1>5. BootTable(dtable)' = BootTable(dtable)
  BY <1>1 DEF BootTable
<1> QED
  BY <1>4, <1>5 DEF Unique, UniqueIn, Matches

\* The commands that change the table and save it at once.
LEMMA SavedTableUnique ==
  ASSUME UniqueIn(table'), SaveTable(table')
  PROVE  Unique'
<1>1. UniqueIn(BootTable(dtable'))
  BY SaveUnique
<1> QED
  BY <1>1 DEF Unique, UniqueIn, Matches, BootTable

LEMMA UnchangedUnique ==
  ASSUME Unique, table' = table, dtable' = dtable
  PROVE  Unique'
  BY DEF Unique, UniqueIn, Matches, BootTable

LEMMA RemovalUnique ==
  ASSUME Inv, Unique, NEW i \in Slots, table' = [table EXCEPT ![i] = Unused],
         SaveTable(table')
  PROVE  Unique'
<1>1. \A m : Matches(table', m) = Matches(table, m) \ {i}
  BY MatchesAfterRemove DEF Inv, TypeOK
<1>2. UniqueIn(table')
  BY <1>1 DEF Unique, UniqueIn
<1> QED
  BY <1>2, SavedTableUnique

-----------------------------------------------------------------------------
(* What a step does to the table and the disk: a command that starts a     *)
(* write, a device write, a change of the table that is saved at once, or  *)
(* power.                                                                  *)

StartWrite ==
  /\ Ready
  /\ \E n \in FileNames, text \in FileContents, src \in FileNames \cup {NoName} :
       BeginWrite(n, text, src)

FreeSlot(i) ==
  /\ power = "on" /\ i \in Slots /\ table[i].used
  /\ table' = [table EXCEPT ![i] = Unused]
  /\ SaveTable(table')
  /\ power' = power /\ data' = data /\ job'.stage = "idle"

MakeDirectory ==
  \E n \in DirNames : Mkdir(n)

FilesUntouched ==
  power' = power /\ table' = table /\ dtable' = dtable /\ data' = data /\ job' = job

LEMMA RemoveFreesSlot ==
  ASSUME NEW n, Remove(n), power = "on", job'.stage = "idle"
  PROVE  FreeSlot(First(Matches(table, n)))
<1>1. Matches(table, n) # {}
  BY DEF Remove
<1>2. First(Matches(table, n)) \in Slots /\ table[First(Matches(table, n))].used
  BY <1>1, FirstMatch
<1> QED
  BY <1>2 DEF Remove, FreeSlot

LEMMA StepCases ==
  ASSUME Inv, [Next]_vars
  PROVE  \/ StartWrite
         \/ WriteDataSector
         \/ WriteTable
         \/ DeleteSource
         \/ \E n \in Names : DeleteFile(n)
         \/ \E n \in DirNames \cup {PhantomName} : Rmdir(n)
         \/ MakeDirectory
         \/ Format
         \/ PowerOff
         \/ Boot
         \/ FilesUntouched
<1>1. ASSUME FileCommand
      PROVE  StartWrite
  <2>1. PICK n \in FileNames :
          \/ \E text \in Contents : WriteFile(n, text)
          \/ Touch(n)
          \/ \E dest \in FileNames : CopyFile(n, dest) \/ MoveFile(n, dest)
    BY <1>1 DEF FileCommand
  <2>2. ASSUME NEW text \in Contents, WriteFile(n, text)
        PROVE  StartWrite
    BY <2>2, DataAssumption DEF WriteFile, StartWrite
  <2>3. CASE Touch(n)
    BY <2>3, EmptyTextType DEF Touch, StartWrite
  <2>4. ASSUME NEW dest \in FileNames, CopyFile(n, dest) \/ MoveFile(n, dest)
        PROVE  StartWrite
    <3>1. Lookup(table, data, n) \in FileContents
      BY <2>4, LookupType DEF Inv, TypeOK, CopyFile, MoveFile, Lookup
    <3> QED
      BY <2>4, <3>1 DEF CopyFile, MoveFile, StartWrite
  <2> QED
    BY <2>1, <2>2, <2>3, <2>4
<1>2. ASSUME DirCommand
      PROVE  \/ MakeDirectory
             \/ \E n \in DirNames \cup {PhantomName} : Rmdir(n)
             \/ FilesUntouched
  BY <1>2 DEF DirCommand, MakeDirectory, ChdirDown, ChdirUp, ChdirRoot, disk, FilesUntouched
<1>3. UNCHANGED vars => FilesUntouched
  BY DEF vars, FilesUntouched
<1> QED
  BY <1>1, <1>2, <1>3 DEF Next, DeviceStep

\* rm, the second half of mv, and rmdir free one slot and save the table.
LEMMA RemovalCases ==
  ASSUME Inv
  PROVE  /\ DeleteSource => FreeSlot(First(Matches(table, job.src)))
         /\ \A n : DeleteFile(n) => FreeSlot(First(Matches(table, n)))
         /\ \A n : Rmdir(n) => FreeSlot(First(DirMatches(table, n)))
<1>1. ASSUME DeleteSource
      PROVE  FreeSlot(First(Matches(table, job.src)))
  <2>1. power = "on" /\ job'.stage = "idle" /\ Remove(job.src)
    BY <1>1 DEF DeleteSource, Inv, JobOK, Idle
  <2> QED
    BY <2>1, RemoveFreesSlot
<1>2. ASSUME NEW n, DeleteFile(n)
      PROVE  FreeSlot(First(Matches(table, n)))
  <2>1. power = "on" /\ job'.stage = "idle" /\ Remove(n)
    BY <1>2 DEF DeleteFile, Ready
  <2> QED
    BY <2>1, RemoveFreesSlot
<1>3. ASSUME NEW n, Rmdir(n)
      PROVE  FreeSlot(First(DirMatches(table, n)))
  <2>1. DirMatches(table, n) \in SUBSET Slots /\ DirMatches(table, n) # {}
    BY <1>3 DEF DirMatches, Matches, Rmdir
  <2>2. First(DirMatches(table, n)) \in DirMatches(table, n)
    BY <2>1, SlotsAreNat
  <2>3. /\ First(DirMatches(table, n)) \in Slots
        /\ table[First(DirMatches(table, n))].used
    BY <2>2 DEF DirMatches, Matches
  <2> QED
    BY <1>3, <2>3 DEF Rmdir, FreeSlot, Ready
<1> QED
  BY <1>1, <1>2, <1>3

LEMMA NextUnique ==
  ASSUME Inv, Unique, [Next]_vars
  PROVE  Unique'
<1>1. CASE StartWrite
  BY <1>1, BeginWriteUnique DEF StartWrite
<1>2. CASE WriteDataSector
  BY <1>2, UnchangedUnique DEF WriteDataSector
<1>3. CASE WriteTable
  <2>1. table' = table /\ SaveTable(table')
    BY <1>3 DEF WriteTable, SaveTable
  <2>2. UniqueIn(table')
    BY <2>1 DEF Unique, UniqueIn, Matches
  <2> QED
    BY <2>1, <2>2, SavedTableUnique
<1>4. ASSUME NEW i, FreeSlot(i)
      PROVE  Unique'
  BY <1>4, RemovalUnique DEF FreeSlot
<1>5. CASE MakeDirectory
  <2>1. PICK n \in DirNames : Mkdir(n)
    BY <1>5 DEF MakeDirectory
  <2> DEFINE i == First(FreeSlots(table))
             e == [used |-> TRUE, name |-> n, path |-> cwd,
                   start |-> 0, size |-> 0, is_directory |-> TRUE]
  <2>2. /\ table' = [table EXCEPT ![i] = e]
        /\ e.name = n
        /\ SaveTable(table')
    BY <2>1 DEF Mkdir
  <2> HIDE DEF i, e
  <2>3. \A j \in Slots : table'[j] = IF j = i THEN e ELSE table[j]
    BY <2>2 DEF Inv, TypeOK
  <2>4. ASSUME NEW m \in FileNames \ DirNames
        PROVE  Matches(table', m) \subseteq Matches(table, m)
    <3>1. m # n
      BY <2>1
    <3> QED
      BY <2>2, <2>3, <3>1 DEF Matches
  <2>5. UniqueIn(table')
    BY <2>4 DEF Unique, UniqueIn
  <2> QED
    BY <2>2, <2>5, SavedTableUnique
<1>6. CASE Format
  <2>1. table' = [i \in Slots |-> Unused] /\ SaveTable(table')
    BY <1>6 DEF Format
  <2>2. \A m : Matches(table', m) = {}
    BY <2>1, UnusedType DEF Matches
  <2>3. UniqueIn(table')
    BY <2>2 DEF UniqueIn
  <2> QED
    BY <2>1, <2>3, SavedTableUnique
<1>7. CASE PowerOff
  <2>1. table' = [i \in Slots |-> Unused] /\ dtable' = dtable
    BY <1>7 DEF PowerOff, disk
  <2>2. \A m : Matches(table', m) = {}
    BY <2>1, UnusedType DEF Matches
  <2> QED
    BY <2>1, <2>2 DEF Unique, UniqueIn, BootTable, Matches
<1>8. CASE Boot
  <2>1. table' = BootTable(dtable) /\ dtable' = dtable
    BY <1>8 DEF Boot, disk
  <2> QED
    BY <2>1 DEF Unique, UniqueIn, BootTable, Matches
<1>9. CASE FilesUntouched
  BY <1>9, UnchangedUnique DEF FilesUntouched
<1> QED
  BY <1>1, <1>2, <1>3, <1>4, <1>5, <1>6, <1>7, <1>8, <1>9, StepCases, RemovalCases

LEMMA UniqueInvariance == Spec => []Unique
<1>1. Init => Unique
  <2> SUFFICES ASSUME Init PROVE Unique
    OBVIOUS
  <2>1. ASSUME NEW n \in FileNames
        PROVE  Matches(table, n) = {} /\ Matches(BootTable(dtable), n) = {}
    <3>1. Matches(table, n) = {}
      BY UnusedType DEF Init, Matches
    <3>2. Matches(BootTable(dtable), n) = {}
      BY UnusedType, BootMatches DEF Init
    <3> QED
      BY <3>1, <3>2
  <2> QED
    BY <2>1 DEF Unique, UniqueIn
<1>2. Inv /\ Unique /\ [Next]_vars => Unique'
  BY NextUnique
<1> QED
  BY <1>1, <1>2, Invariance, PTL DEF Spec

\* No sequence of commands, crashes and boots gives two entries to a name that
\* is no directory's; where directories have names of their own, to any file.
THEOREM OneEntry ==
  ASSUME FileNames \cap DirNames = {}
  PROVE  Spec => []OneEntryPerFile
<1>1. Unique => OneEntryPerFile
  BY DEF Unique, UniqueIn, OneEntryPerFile
<1> QED
  BY <1>1, UniqueInvariance, PTL

-----------------------------------------------------------------------------
(* A write is read back, and a move delivers.                              *)

\* The sectors a text of this length needs hold every byte of it.
LEMMA SectorsCoverText ==
  ASSUME NEW size \in 0 .. Capacity, NEW j \in 1 .. size
  PROVE  /\ (j - 1) \div SectorSize \in 0 .. SectorsNeeded(size) - 1
         /\ ((j - 1) \div SectorSize) * SectorSize + (((j - 1) % SectorSize) + 1) = j
         /\ ((j - 1) % SectorSize) + 1 \in 1 .. SectorSize
         /\ (j - 1) \div SectorSize \in 0 .. MaxSectorsPerFile - 1
<1> DEFINE q == (j - 1) \div SectorSize
           r == (j - 1) % SectorSize
           need == (size + SectorSize - 1) \div SectorSize
           rest == (size + SectorSize - 1) % SectorSize
<1>1. j \in 1 .. Capacity /\ j - 1 \in Nat /\ size \in Nat /\ j <= size
  BY CapacityType
<1>2. q \in 0 .. MaxSectorsPerFile - 1 /\ r + 1 \in 1 .. SectorSize
  BY <1>1, SectorIndex
<1>3. q \in Nat /\ r \in 0 .. SectorSize - 1 /\ j - 1 = SectorSize * q + r
  BY <1>1, SizeAssumption
<1>4. /\ need \in Nat /\ rest \in 0 .. SectorSize - 1
      /\ size + SectorSize - 1 = SectorSize * need + rest
  <2>1. size + SectorSize - 1 \in Nat
    BY <1>1, SizeAssumption
  <2> QED
    BY <2>1, SizeAssumption
<1> HIDE DEF q, r, need, rest
<1>5. q * SectorSize = SectorSize * q /\ SectorSize * q \in Nat
  BY <1>3, SizeAssumption
<1>6. ASSUME need <= q
      PROVE  FALSE
  <2>1. need * SectorSize <= q * SectorSize
    BY <1>3, <1>4, <1>6, MulMono, SizeAssumption
  <2>2. need * SectorSize = SectorSize * need /\ SectorSize * need \in Nat
    BY <1>4, SizeAssumption
  <2> QED
    BY <1>1, <1>3, <1>4, <1>5, <2>1, <2>2, SizeAssumption
<1>7. q < need
  BY <1>3, <1>4, <1>6
<1>8. SectorsNeeded(size) = IF need > MaxSectorsPerFile THEN MaxSectorsPerFile ELSE need
  BY DEF SectorsNeeded, need
<1>9. q \in 0 .. SectorsNeeded(size) - 1
  BY <1>2, <1>4, <1>7, <1>8, SizeAssumption
<1>10. q * SectorSize + (r + 1) = j
  BY <1>1, <1>3, <1>5
<1> QED
  BY <1>2, <1>9, <1>10 DEF q, r

\* fs_read_file undoes fs_write_file, once every sector of it is written.
LEMMA ReadBack ==
  ASSUME NEW slot, NEW text \in FileContents, NEW d, NEW e,
         e.start = StartSector(slot), e.size = Len(text),
         \A k \in 0 .. SectorsNeeded(Len(text)) - 1 :
           d[StartSector(slot) + k] = Chunk(text, k)
  PROVE  ReadEntry(e, d) = text
<1>1. text \in Seq(AllBytes) /\ Len(text) \in 0 .. Capacity
  BY FileContentsType, CapacityType
<1>2. ASSUME NEW j \in 1 .. Len(text)
      PROVE  d[e.start + (j - 1) \div SectorSize][((j - 1) % SectorSize) + 1] = text[j]
  <2> DEFINE q == (j - 1) \div SectorSize
             c == ((j - 1) % SectorSize) + 1
  <2>1. /\ q \in 0 .. SectorsNeeded(Len(text)) - 1
        /\ q * SectorSize + c = j
        /\ c \in 1 .. SectorSize
    BY <1>1, SectorsCoverText
  <2> HIDE DEF q, c
  <2>2. d[e.start + q] = Chunk(text, q)
    BY <2>1
  <2>3. Chunk(text, q)[c] = text[j]
    BY <2>1 DEF Chunk
  <2> QED
    BY <2>2, <2>3 DEF q, c
<1>3. ReadEntry(e, d) = [j \in 1 .. Len(text) |->
        d[e.start + (j - 1) \div SectorSize][((j - 1) % SectorSize) + 1]]
  BY <1>1, CapacityType DEF ReadEntry
<1>4. ReadEntry(e, d) = [j \in 1 .. Len(text) |-> text[j]]
  BY <1>2, <1>3
<1> QED
  BY <1>1, <1>4

\* The job writes the entry a search for its name finds, and the sectors it has
\* been through hold their part of the text.
Written ==
  job.stage # "idle" =>
    /\ job.slot = First(Matches(table, table[job.slot].name))
    /\ \A k \in 0 .. job.next - 1 : data[StartSector(job.slot) + k] = Chunk(job.content, k)
    /\ job.stage # "data" => job.next = SectorsNeeded(Len(job.content))

LEMMA NextWritten ==
  ASSUME Inv, Written, [Next]_vars
  PROVE  Written'
<1>1. CASE StartWrite
  <2>1. PICK n \in FileNames, text \in FileContents, src \in FileNames \cup {NoName} :
          BeginWrite(n, text, src)
    BY <1>1 DEF StartWrite
  <2> DEFINE slot == job'.slot
             e == FileEntry(slot, n, text)
  <2>2. /\ Puts(table, n, slot, e, table')
        /\ job'.stage = IF SectorsNeeded(Len(text)) = 0 THEN "table" ELSE "data"
        /\ job'.content = text /\ job'.next = 0
    BY <2>1, BeginWriteStep
  <2>3. e.name = n
    BY DEF FileEntry
  <2> HIDE DEF e
  <2>4. slot = First(Matches(table', n)) /\ table'[slot].name = n
    BY <2>2, <2>3, WriteSlotIsFirstMatch, MatchesAfterWrite
  <2>5. job'.stage # "data" => job'.next = SectorsNeeded(Len(job'.content))
    BY <2>2
  <2>6. 0 .. job'.next - 1 = {}
    BY <2>2
  <2> QED
    BY <2>4, <2>5, <2>6 DEF Written, Matches
<1>2. CASE WriteDataSector
  <2>1. /\ job.stage = "data" /\ job \in Jobs /\ data \in [DataSectors -> Sectors]
        /\ table[job.slot].start = StartSector(job.slot)
        /\ job.next < SectorsNeeded(Len(job.content))
    BY <1>2 DEF Inv, TypeOK, JobOK, WriteDataSector
  <2>2. job.slot \in Slots /\ job.content \in FileContents /\ job.next \in Nat
    BY <2>1 DEF Jobs
  <2>3. SectorsNeeded(Len(job.content)) \in 0 .. MaxSectorsPerFile
    BY <2>2, FileContentsType, SectorsNeededType
  <2>4. /\ job'.slot = job.slot /\ job'.content = job.content /\ job'.next = job.next + 1
        /\ job'.stage = IF job.next + 1 < SectorsNeeded(Len(job.content)) THEN "data" ELSE "table"
    BY <1>2, <2>1 DEF WriteDataSector, Jobs
  <2>5. /\ data' = [data EXCEPT ![StartSector(job.slot) + job.next] = Chunk(job.content, job.next)]
        /\ table' = table
    BY <1>2, <2>1 DEF WriteDataSector
  <2>6. /\ StartSector(job.slot) \in Nat
        /\ StartSector(job.slot) + job.next \in DataSectors
    <3>1. job.next \in 0 .. MaxSectorsPerFile - 1
      BY <2>1, <2>2, <2>3, SizeAssumption
    <3>2. StartSector(job.slot) \in Nat
      BY <2>2, SizeAssumption DEF StartSector, Slots
    <3> QED
      BY <2>2, <3>1, <3>2, SectorInRange
  <2>7. ASSUME NEW k \in 0 .. job'.next - 1
        PROVE  data'[StartSector(job.slot) + k] = Chunk(job.content, k)
    <3>1. CASE k = job.next
      BY <3>1, <2>1, <2>5, <2>6
    <3>2. CASE k # job.next
      <4>1. k \in 0 .. job.next - 1
        BY <2>2, <2>4, <3>2
      <4>2. StartSector(job.slot) + k # StartSector(job.slot) + job.next
        BY <2>2, <2>6, <3>2, <4>1
      <4>3. data'[StartSector(job.slot) + k] = data[StartSector(job.slot) + k]
        BY <2>1, <2>5, <4>2
      <4> QED
        BY <2>1, <4>1, <4>3 DEF Written
    <3> QED
      BY <3>1, <3>2
  <2>8. job'.stage # "data" => job'.next = SectorsNeeded(Len(job'.content))
    BY <2>1, <2>2, <2>3, <2>4
  <2>9. job'.slot = First(Matches(table', table'[job'.slot].name))
    BY <2>1, <2>4, <2>5 DEF Written
  <2> QED
    BY <2>4, <2>7, <2>8, <2>9 DEF Written, Matches
<1>3. CASE WriteTable
  <2>1. /\ table' = table /\ data' = data /\ job.stage = "table"
        /\ job' = Idle \/ job' = [job EXCEPT !.stage = "delete"]
    BY <1>3 DEF WriteTable
  <2>2. CASE job' = Idle
    BY <2>2 DEF Idle, Written
  <2>3. CASE job' = [job EXCEPT !.stage = "delete"]
    <3>1. /\ job'.slot = job.slot /\ job'.content = job.content /\ job'.next = job.next
          /\ job'.stage = "delete"
      BY <2>3 DEF Inv, TypeOK, Jobs
    <3> QED
      BY <2>1, <3>1 DEF Written, Matches
  <2> QED
    BY <2>1, <2>2, <2>3
<1>4. ASSUME NEW i, FreeSlot(i)
      PROVE  Written'
  BY <1>4 DEF FreeSlot, Written
<1>5. CASE MakeDirectory \/ Format \/ PowerOff
  <2>1. job'.stage = "idle"
    BY <1>5 DEF MakeDirectory, Mkdir, Format, Ready, PowerOff, Idle
  <2> QED
    BY <2>1 DEF Written
<1>6. CASE Boot
  BY <1>6 DEF Boot, Inv, JobOK, Written
<1>7. CASE FilesUntouched
  BY <1>7 DEF FilesUntouched, Written, Matches
<1> QED
  BY <1>1, <1>2, <1>3, <1>4, <1>5, <1>6, <1>7, StepCases, RemovalCases

LEMMA WrittenInvariance == Spec => []Written
<1>1. Init => Written
  BY DEF Init, Idle, Written
<1>2. Inv /\ Written /\ [Next]_vars => Written'
  BY NextWritten
<1> QED
  BY <1>1, <1>2, Invariance, PTL DEF Spec

\* When the last sector of a write is on the disk, the file in memory reads as
\* the text that was written.
LEMMA JobIsReadBack ==
  ASSUME Inv, Written, job.stage \in {"table", "delete"}
  PROVE  /\ job.slot \in Slots /\ job.content \in FileContents
         /\ table[job.slot].name \in FileNames
         /\ ReadEntry(table[job.slot], data) = job.content
         /\ Lookup(table, data, table[job.slot].name) = job.content
<1>1. /\ job.stage # "idle" /\ job.stage # "data"
      /\ job.slot \in Slots /\ job.content \in FileContents
  BY DEF Inv, TypeOK, Jobs
<1>2. /\ table[job.slot].used /\ table[job.slot].name \in FileNames
      /\ table[job.slot].start = StartSector(job.slot)
      /\ table[job.slot].size = Len(job.content)
  BY <1>1 DEF Inv, JobOK
<1>3. /\ job.slot = First(Matches(table, table[job.slot].name))
      /\ \A k \in 0 .. SectorsNeeded(Len(job.content)) - 1 :
           data[StartSector(job.slot) + k] = Chunk(job.content, k)
  BY <1>1 DEF Written
<1>4. ReadEntry(table[job.slot], data) = job.content
  BY <1>1, <1>2, <1>3, ReadBack
<1>5. Matches(table, table[job.slot].name) # {}
  BY <1>1, <1>2 DEF Matches
<1> QED
  BY <1>1, <1>2, <1>3, <1>4, <1>5 DEF Lookup

\* What fs_write_file stored is what fs_read_file returns, for every text up to
\* the capacity of a slot, whatever else the table holds.
THEOREM WriteReadBack == Spec => WriteIsReadBack
<1>1. ASSUME Inv, Written, WriteTable
      PROVE  Lookup(table', data', table[job.slot].name) = job.content
  <2>1. table' = table /\ data' = data /\ job.stage = "table"
    BY <1>1 DEF WriteTable
  <2> QED
    BY <1>1, <2>1, JobIsReadBack
<1>2. Inv /\ Written /\ [Next]_vars =>
        [WriteTable => Lookup(table', data', table[job.slot].name) = job.content]_vars
  BY <1>1
<1> QED
  BY <1>2, Invariance, WrittenInvariance, PTL DEF Spec, WriteIsReadBack

\* When fs_move_file returns 0 the destination has the text, and nothing is
\* left under the source.
THEOREM MoveDelivered ==
  ASSUME FileNames \cap DirNames = {}
  PROVE  Spec => MoveDelivers
<1> DEFINE dest == table[job.slot].name
           src  == job.src
           Delivered ==
             /\ Lookup(table', data', src) = Absent
             /\ src # dest => Lookup(table', data', dest) = job.content
<1>1. ASSUME Inv, Unique, Written, DeleteSource
      PROVE  Delivered
  <2>1. /\ job.stage = "delete" /\ data' = data
        /\ FreeSlot(First(Matches(table, src))) /\ Matches(table, src) # {}
    BY <1>1, RemovalCases DEF DeleteSource, Remove
  <2> DEFINE i == First(Matches(table, src))
  <2>2. i \in Slots /\ table' = [table EXCEPT ![i] = Unused] /\ table \in [Slots -> Entries]
    BY <1>1, <2>1 DEF FreeSlot, Inv, TypeOK
  <2>3. i \in Matches(table, src) /\ table[i].name = src
    BY <2>1, FirstMatch DEF Matches
  <2>4. src \in FileNames \ DirNames
    <3>1. job.src \in FileNames \cup {NoName} /\ job.src # NoName
      BY <1>1, <2>1 DEF Inv, TypeOK, Jobs, JobOK
    <3> QED
      BY <3>1
  <2> HIDE DEF i, src, dest
  <2>5. \A m : Matches(table', m) = Matches(table, m) \ {i}
    BY <2>2, MatchesAfterRemove
  <2>6. Matches(table', src) = {}
    BY <1>1, <2>3, <2>4, <2>5 DEF Unique, UniqueIn
  <2>7. ASSUME src # dest
        PROVE  Lookup(table', data', dest) = job.content
    <3>1. Matches(table', dest) = Matches(table, dest)
      BY <2>3, <2>5, <2>7 DEF Matches
    <3>2. Lookup(table, data, dest) = job.content /\ Matches(table, dest) # {}
      <4>1. job.slot \in Slots /\ table[job.slot].used
        BY <1>1, <2>1 DEF Inv, TypeOK, Jobs, JobOK
      <4> QED
        BY <1>1, <2>1, <4>1, JobIsReadBack DEF dest, Matches
    <3>3. First(Matches(table, dest)) \in Slots /\ First(Matches(table, dest)) # i
      BY <2>3, <2>7, <3>2, FirstMatch
    <3>4. table'[First(Matches(table, dest))] = table[First(Matches(table, dest))]
      BY <2>2, <3>3
    <3> QED
      BY <2>1, <3>1, <3>2, <3>4 DEF Lookup
  <2> QED
    BY <2>6, <2>7 DEF Lookup, src, dest
<1>2. Inv /\ Unique /\ Written /\ [Next]_vars => [DeleteSource => Delivered]_vars
  BY <1>1
<1> QED
  BY <1>2, Invariance, UniqueInvariance, WrittenInvariance, PTL DEF Spec, MoveDelivers

-----------------------------------------------------------------------------
(* What the next boot finds.                                               *)

LEMMA BootFindsSaved ==
  ASSUME NEW n \in FileNames, Ready, DiskOK, Matches(table, n) \subseteq Persisted
  PROVE  AfterBoot(n) = Lookup(table, data, n)
<1>1. \A i \in Persisted : dtable[i] = table[i]
  BY DEF DiskOK, Ready
<1>2. Matches(BootTable(dtable), n) = Matches(table, n)
  <2>1. Matches(BootTable(dtable), n)
          = {i \in Persisted : dtable[i].used /\ dtable[i].name = n}
    BY BootMatches
  <2> QED
    BY <1>1, <2>1, SlotsAreNat DEF Matches
<1>3. ASSUME Matches(table, n) # {}
      PROVE  BootTable(dtable)[First(Matches(table, n))] = table[First(Matches(table, n))]
  <2>1. Matches(table, n) \in SUBSET Slots
    BY DEF Matches
  <2>2. First(Matches(table, n)) \in Matches(table, n)
    BY <1>3, <2>1, SlotsAreNat
  <2>3. First(Matches(table, n)) \in Persisted /\ First(Matches(table, n)) \in Slots
    BY <2>2, SlotsAreNat
  <2> QED
    BY <1>1, <2>3 DEF BootTable
<1> QED
  BY <1>2, <1>3 DEF AfterBoot, Lookup

\* Between two commands, a file whose entries fit in sector 0 is what the next
\* boot finds, with the text a read returns now.  No bound on the files.
THEOREM SavedInSectorZero ==
  Spec => [](Ready => \A n \in FileNames :
               Matches(table, n) \subseteq Persisted => AfterBoot(n) = Lookup(table, data, n))
<1>1. Inv => (Ready => \A n \in FileNames :
               Matches(table, n) \subseteq Persisted => AfterBoot(n) = Lookup(table, data, n))
  BY BootFindsSaved DEF Inv
<1> QED
  BY <1>1, Invariance, PTL

\* The disk is used for files only, and sector 0 has an entry for each of them.
\* The run FS_overflow shows that neither half can be left out.
Room ==
  /\ DirNames = {}
  /\ IsFiniteSet(FileNames)
  /\ Cardinality(FileNames) <= PersistedSlots

\* A table in which the files are the entries that sector 0 holds.
FilesFirst(tbl) ==
  \A i \in Slots : tbl[i].used => (tbl[i].name \in FileNames <=> i \in Persisted)

Placed == FilesFirst(table) /\ FilesFirst(BootTable(dtable))

\* While sector 0 does not hold the files of all names, it has a free entry.
LEMMA FreeEntryInSectorZero ==
  ASSUME Room, NEW tbl, UniqueIn(tbl), FilesFirst(tbl),
         NEW n \in FileNames, Matches(tbl, n) = {}
  PROVE  FreeSlots(tbl) # {} /\ First(FreeSlots(tbl)) \in Persisted
<1>1. PersistedSlots \in Nat /\ PersistedSlots >= 1 /\ Persisted \subseteq Slots
  BY SizeAssumption, SlotsAreNat
<1>2. IsFiniteSet(Persisted) /\ Cardinality(Persisted) = PersistedSlots
  <2>1. Persisted = 0 .. PersistedSlots - 1
    BY DEF Persisted
  <2> QED
    BY <1>1, <2>1, FS_Interval
<1>3. /\ IsFiniteSet(FileNames \ {n})
      /\ Cardinality(FileNames \ {n}) < Cardinality(Persisted)
  <2>1. /\ IsFiniteSet(FileNames \ {n})
        /\ Cardinality(FileNames \ {n}) = Cardinality(FileNames) - 1
    BY FS_RemoveElement DEF Room
  <2>2. Cardinality(FileNames) \in Nat
    BY FS_CardinalityType DEF Room
  <2> QED
    BY <1>1, <1>2, <2>1, <2>2 DEF Room
<1>4. PICK i \in Persisted : ~ tbl[i].used
  <2> SUFFICES ASSUME \A i \in Persisted : tbl[i].used
               PROVE  FALSE
    OBVIOUS
  <2> DEFINE f == [i \in Persisted |-> tbl[i].name]
  <2>1. ASSUME NEW i \in Persisted
        PROVE  tbl[i].name \in FileNames \ {n}
    BY <1>1, <2>1 DEF FilesFirst, Matches
  <2>2. f \in [Persisted -> FileNames \ {n}]
    BY <2>1
  <2>3. PICK i, j \in Persisted : i # j /\ f[i] = f[j]
    <3> DEFINE T == FileNames \ {n}
    <3>1. IsFiniteSet(T) /\ Cardinality(T) < Cardinality(Persisted) /\ f \in [Persisted -> T]
      BY <1>3, <2>2
    <3> HIDE DEF f, T
    <3> QED
      BY <1>2, <3>1, FS_PigeonHole
  <2>4. i \in Matches(tbl, f[i]) /\ j \in Matches(tbl, f[i])
    BY <1>1, <2>3 DEF Matches
  <2>5. f[i] \in FileNames \ DirNames
    BY <2>1, <2>2 DEF Room
  <2> QED
    BY <2>3, <2>4, <2>5 DEF UniqueIn
<1>5. i \in FreeSlots(tbl) /\ FreeSlots(tbl) \in SUBSET Slots
  BY <1>1, <1>4 DEF FreeSlots
<1>6. First(FreeSlots(tbl)) \in Slots /\ First(FreeSlots(tbl)) <= i
  BY <1>5, SlotsAreNat
<1> QED
  BY <1>1, <1>5, <1>6, SlotsAreNat DEF Slots, Persisted

LEMMA BootTablePlaced ==
  ASSUME NEW dt
  PROVE  FilesFirst(BootTable(dt)) <=> \A i \in Persisted : dt[i].used => dt[i].name \in FileNames
<1>1. \A i \in Slots \ Persisted : BootGarbage[i].used => BootGarbage[i].name \notin FileNames
  BY DataAssumption, NameAssumption
<1> QED
  BY <1>1, SlotsAreNat DEF FilesFirst, BootTable

LEMMA NextPlaced ==
  ASSUME Room, Inv, Unique, Placed, [Next]_vars
  PROVE  Placed'
<1>1. ASSUME FilesFirst(table'), SaveTable(table') \/ dtable' = dtable
      PROVE  Placed'
  <2>1. FilesFirst(BootTable(dtable'))
    BY <1>1, BootTablePlaced, SlotsAreNat DEF Placed, SaveTable, FilesFirst
  <2> QED
    BY <1>1, <2>1 DEF Placed, FilesFirst, BootTable
<1>2. CASE StartWrite
  <2>0. PICK n \in FileNames : \E i, e : Puts(table, n, i, e, table') /\ dtable' = dtable
    BY <1>2, BeginWriteStep DEF StartWrite
  <2>1. PICK i, e : Puts(table, n, i, e, table') /\ dtable' = dtable
    BY <2>0
  <2>2. i \in Slots /\ i \in Persisted
    <3>1. CASE Matches(table, n) = {}
      <4>1. i = First(FreeSlots(table))
        BY <2>1, <3>1, WriteSlotIsFirstMatch
      <4>2. UniqueIn(table) /\ FilesFirst(table)
        BY DEF Unique, Placed
      <4>3. First(FreeSlots(table)) \in Persisted
        BY <3>1, <4>2, FreeEntryInSectorZero
      <4> QED
        BY <4>1, <4>3, SlotsAreNat
    <3>2. CASE Matches(table, n) # {}
      <4>1. i \in Matches(table, n)
        BY <2>1, <3>2, WriteSlotIsFirstMatch
      <4> QED
        BY <4>1 DEF Placed, FilesFirst, Matches
    <3> QED
      BY <3>1, <3>2
  <2>3. FilesFirst(table')
    BY <2>1, <2>2 DEF Puts, Placed, FilesFirst
  <2> QED
    BY <1>1, <2>1, <2>3
<1>3. CASE WriteDataSector \/ WriteTable
  <2>1. table' = table /\ (SaveTable(table') \/ dtable' = dtable)
    BY <1>3 DEF WriteDataSector, WriteTable, SaveTable
  <2> QED
    BY <1>1, <2>1 DEF Placed, FilesFirst
<1>4. ASSUME NEW i, FreeSlot(i)
      PROVE  Placed'
  <2>1. /\ i \in Slots /\ table \in [Slots -> Entries]
        /\ table' = [table EXCEPT ![i] = Unused] /\ SaveTable(table')
    BY <1>4 DEF FreeSlot, Inv, TypeOK
  <2>2. FilesFirst(table')
    BY <2>1, UnusedType DEF Placed, FilesFirst
  <2> QED
    BY <1>1, <2>1, <2>2
<1>5. CASE MakeDirectory
  BY <1>5 DEF MakeDirectory, Room
<1>6. CASE Format \/ PowerOff
  <2>1. /\ table' = [i \in Slots |-> Unused]
        /\ SaveTable(table') \/ dtable' = dtable
    BY <1>6 DEF Format, PowerOff, disk
  <2>2. FilesFirst(table')
    BY <2>1, UnusedType DEF FilesFirst
  <2> QED
    BY <1>1, <2>1, <2>2
<1>7. CASE Boot
  <2>1. table' = BootTable(dtable) /\ dtable' = dtable
    BY <1>7 DEF Boot, disk
  <2> QED
    BY <1>1, <2>1 DEF Placed
<1>8. CASE FilesUntouched
  <2>1. table' = table /\ dtable' = dtable
    BY <1>8 DEF FilesUntouched
  <2> QED
    BY <1>1, <2>1 DEF Placed, FilesFirst
<1> QED
  BY <1>2, <1>3, <1>4, <1>5, <1>6, <1>7, <1>8, StepCases, RemovalCases

LEMMA PlacedInvariance ==
  ASSUME Room
  PROVE  Spec => []Placed
<1>1. Init => Placed
  BY UnusedType, BootTablePlaced DEF Init, Placed, FilesFirst
<1>2. Inv /\ Unique /\ Placed /\ [Next]_vars => Placed'
  BY NextPlaced
<1> QED
  BY <1>1, <1>2, Invariance, UniqueInvariance, PTL DEF Spec

LEMMA DurableState ==
  ASSUME Room, Inv, Placed, Ready, NEW n \in FileNames
  PROVE  AfterBoot(n) = Lookup(table, data, n)
<1>1. Matches(table, n) \subseteq Persisted
  BY DEF Placed, FilesFirst, Matches
<1> QED
  BY <1>1, BootFindsSaved DEF Inv

\* Once a command is over, the next boot finds every file the user sees, with
\* the text he sees.
THEOREM SavedDurable ==
  ASSUME Room
  PROVE  Spec => []SavedIsDurable
<1>1. Inv /\ Placed => SavedIsDurable
  BY DurableState DEF SavedIsDurable
<1> QED
  BY <1>1, Invariance, PlacedInvariance, PTL

-----------------------------------------------------------------------------
(* The refinement of FileStore.  First, what a step on the disk does to    *)
(* what a boot would find.                                                 *)

\* The extents of two slots share no sector.
LEMMA ExtentsDisjoint ==
  ASSUME NEW i \in Slots, NEW j \in Slots, i # j,
         NEW k \in 0 .. MaxSectorsPerFile - 1, NEW l \in 0 .. MaxSectorsPerFile - 1
  PROVE  StartSector(i) + k # StartSector(j) + l
<1>1. ASSUME NEW x \in Slots, NEW y \in Slots, x < y,
             NEW m \in 0 .. MaxSectorsPerFile - 1, NEW o \in 0 .. MaxSectorsPerFile - 1
      PROVE  StartSector(x) + m < StartSector(y) + o
  <2> DEFINE M == MaxSectorsPerFile
  <2>1. /\ M \in Nat /\ x \in Nat /\ y \in Nat /\ x + 1 <= y
        /\ m \in Nat /\ o \in Nat /\ m + 1 <= M
    BY <1>1, SizeAssumption DEF Slots
  <2> HIDE DEF M
  <2>2. (x + 1) * M <= y * M
    BY <2>1, MulMono
  <2>3. (x + 1) * M = x * M + M /\ x * M \in Nat /\ y * M \in Nat
    BY <2>1
  <2>4. 1 + x * M + m < 1 + y * M + o
    BY <2>1, <2>2, <2>3
  <2> QED
    BY <2>4 DEF StartSector, M
<1>2. /\ i \in Nat /\ j \in Nat
      /\ StartSector(i) + k \in Nat /\ StartSector(j) + l \in Nat
  BY SizeAssumption DEF Slots, StartSector
<1>3. CASE i < j
  BY <1>1, <1>2, <1>3
<1>4. CASE j < i
  BY <1>1, <1>2, <1>4
<1> QED
  BY <1>2, <1>3, <1>4

\* dnew is d after sector k of a slot has been written.
SectorWritten(d, slot, k, c, dnew) ==
  /\ d \in [DataSectors -> Sectors]
  /\ dnew = [d EXCEPT ![StartSector(slot) + k] = c]

\* e describes a file in the extent of slot i, or an empty one.
FileAt(i, e) ==
  /\ e.size \in 0 .. Capacity
  /\ e.size # 0 => e.start = StartSector(i)

\* Writing a sector of another slot does not change what is read of an entry.
LEMMA ReadOther ==
  ASSUME NEW i \in Slots, NEW slot \in Slots, i # slot,
         NEW k \in 0 .. MaxSectorsPerFile - 1, NEW d, NEW c, NEW dnew,
         SectorWritten(d, slot, k, c, dnew), NEW e, FileAt(i, e)
  PROVE  ReadEntry(e, dnew) = ReadEntry(e, d)
<1>1. ASSUME NEW j \in 1 .. e.size
      PROVE  dnew[e.start + (j - 1) \div SectorSize] = d[e.start + (j - 1) \div SectorSize]
  <2> DEFINE q == (j - 1) \div SectorSize
  <2>1. q \in 0 .. MaxSectorsPerFile - 1
    BY SectorsCoverText DEF FileAt
  <2>2. e.start = StartSector(i)
    BY CapacityType DEF FileAt
  <2> HIDE DEF q
  <2>3. StartSector(i) + q \in DataSectors /\ StartSector(i) + q # StartSector(slot) + k
    BY <2>1, SectorInRange, ExtentsDisjoint
  <2>4. dnew[e.start + q] = d[e.start + q]
    BY <2>2, <2>3 DEF SectorWritten
  <2> QED
    BY <2>4 DEF q
<1>2. (IF e.size > Capacity THEN Capacity ELSE e.size) = e.size
  BY CapacityType DEF FileAt
<1> QED
  BY <1>1, <1>2 DEF ReadEntry

\* Writing a sector of a text over an older file of its slot tears that file.
LEMMA ReadTorn ==
  ASSUME NEW slot \in Slots, NEW k \in 0 .. MaxSectorsPerFile - 1,
         NEW text \in FileContents, NEW d, NEW dnew,
         SectorWritten(d, slot, k, Chunk(text, k), dnew), NEW e, FileAt(slot, e)
  PROVE  Store!Torn(ReadEntry(e, d), text, ReadEntry(e, dnew))
<1>1. (IF e.size > Capacity THEN Capacity ELSE e.size) = e.size
  BY CapacityType DEF FileAt
<1>2. \A dd : ReadEntry(e, dd) =
        [j \in 1 .. e.size |-> dd[e.start + (j - 1) \div SectorSize][((j - 1) % SectorSize) + 1]]
  BY <1>1 DEF ReadEntry
<1>3. ASSUME NEW j \in 1 .. e.size
      PROVE  dnew[e.start + (j - 1) \div SectorSize][((j - 1) % SectorSize) + 1]
               \in {d[e.start + (j - 1) \div SectorSize][((j - 1) % SectorSize) + 1],
                    IF j <= Len(text) THEN text[j] ELSE Zero}
  <2> DEFINE q == (j - 1) \div SectorSize
             c == ((j - 1) % SectorSize) + 1
  <2>1. /\ q \in 0 .. MaxSectorsPerFile - 1 /\ c \in 1 .. SectorSize
        /\ q * SectorSize + c = j
    BY SectorsCoverText DEF FileAt
  <2>2. e.start = StartSector(slot)
    BY CapacityType DEF FileAt
  <2> HIDE DEF q, c
  <2>3. StartSector(slot) + q \in DataSectors
    BY <2>1, SectorInRange
  <2>4. CASE q = k
    <3>1. dnew[e.start + q][c] = Chunk(text, q)[c]
      BY <2>2, <2>3, <2>4 DEF SectorWritten
    <3>2. Chunk(text, q)[c] = IF j <= Len(text) THEN text[j] ELSE Zero
      BY <2>1 DEF Chunk
    <3> QED
      BY <3>1, <3>2 DEF q, c
  <2>5. CASE q # k
    <3>1. StartSector(slot) + q # StartSector(slot) + k
      BY <2>1, <2>5, SizeAssumption DEF StartSector, Slots
    <3>2. dnew[e.start + q] = d[e.start + q]
      BY <2>2, <2>3, <3>1 DEF SectorWritten
    <3> QED
      BY <3>2 DEF q, c
  <2> QED
    BY <2>4, <2>5
<1> DEFINE old == ReadEntry(e, d)
           t   == ReadEntry(e, dnew)
<1>4. /\ DOMAIN old = 1 .. e.size /\ DOMAIN t = 1 .. e.size
      /\ \A j \in 1 .. e.size :
           /\ old[j] = d[e.start + (j - 1) \div SectorSize][((j - 1) % SectorSize) + 1]
           /\ t[j] = dnew[e.start + (j - 1) \div SectorSize][((j - 1) % SectorSize) + 1]
  BY <1>2
<1> HIDE DEF old, t
<1>5. ASSUME NEW j \in 1 .. e.size
      PROVE  t[j] \in {old[j], IF j <= Len(text) THEN text[j] ELSE Zero}
  <2>1. /\ old[j] = d[e.start + (j - 1) \div SectorSize][((j - 1) % SectorSize) + 1]
        /\ t[j] = dnew[e.start + (j - 1) \div SectorSize][((j - 1) % SectorSize) + 1]
    BY <1>4
  <2> QED
    BY <2>1, <1>3
<1>6. Store!Torn(old, text, t)
  BY <1>4, <1>5 DEF Store!Torn
<1> QED
  BY <1>6 DEF old, t

\* What a boot finds under a name depends on the saved entries of that name.
LEMMA BootLookup ==
  ASSUME NEW dt, NEW d, NEW n \in FileNames
  PROVE  /\ (\A i \in Persisted : ~ (dt[i].used /\ dt[i].name = n))
              => Lookup(BootTable(dt), d, n) = Absent
         /\ \A i \in Persisted :
              /\ dt[i].used /\ dt[i].name = n
              /\ \A j \in Persisted : dt[j].used /\ dt[j].name = n => j = i
              => Lookup(BootTable(dt), d, n) = ReadEntry(dt[i], d)
<1>1. Matches(BootTable(dt), n) = {i \in Persisted : dt[i].used /\ dt[i].name = n}
  BY BootMatches
<1>2. ASSUME \A i \in Persisted : ~ (dt[i].used /\ dt[i].name = n)
      PROVE  Lookup(BootTable(dt), d, n) = Absent
  BY <1>1, <1>2 DEF Lookup
<1>3. ASSUME NEW i \in Persisted, dt[i].used, dt[i].name = n,
             \A j \in Persisted : dt[j].used /\ dt[j].name = n => j = i
      PROVE  Lookup(BootTable(dt), d, n) = ReadEntry(dt[i], d)
  <2>1. Matches(BootTable(dt), n) = {i}
    BY <1>1, <1>3
  <2>2. i \in Slots
    BY SlotsAreNat
  <2>3. First({i}) = i
    BY <2>2, SlotsAreNat DEF First
  <2>4. BootTable(dt)[i] = dt[i]
    BY <2>2 DEF BootTable
  <2> QED
    BY <2>1, <2>3, <2>4 DEF Lookup
<1> QED
  BY <1>2, <1>3

LEMMA SameLookup ==
  ASSUME NEW dt, NEW dtnew, NEW d, NEW n \in FileNames,
         \A i \in Persisted : dt[i] # dtnew[i] =>
           /\ ~ (dt[i].used /\ dt[i].name = n)
           /\ ~ (dtnew[i].used /\ dtnew[i].name = n)
  PROVE  Lookup(BootTable(dtnew), d, n) = Lookup(BootTable(dt), d, n)
<1>1. /\ Matches(BootTable(dt), n) = {i \in Persisted : dt[i].used /\ dt[i].name = n}
      /\ Matches(BootTable(dtnew), n) = {i \in Persisted : dtnew[i].used /\ dtnew[i].name = n}
  BY BootMatches
<1>2. Matches(BootTable(dt), n) = Matches(BootTable(dtnew), n)
  BY <1>1
<1>3. ASSUME Matches(BootTable(dt), n) # {}
      PROVE  LET i == First(Matches(BootTable(dt), n))
             IN  BootTable(dtnew)[i] = BootTable(dt)[i]
  <2> DEFINE i == First(Matches(BootTable(dt), n))
  <2>1. Matches(BootTable(dt), n) \in SUBSET Slots
    BY DEF Matches
  <2>2. i \in Matches(BootTable(dt), n)
    BY <1>3, <2>1, SlotsAreNat
  <2>3. i \in Persisted /\ i \in Slots /\ dt[i].used /\ dt[i].name = n
    BY <1>1, <2>2, SlotsAreNat
  <2>4. dt[i] = dtnew[i]
    BY <2>3
  <2> QED
    BY <2>3, <2>4 DEF BootTable
<1> QED
  BY <1>2, <1>3 DEF Lookup

-----------------------------------------------------------------------------
(* The steps of FileStore.                                                 *)

\* Until the table is saved, the entry of the file being written is on the disk
\* the one it had before, or a free one.
OwnSlot ==
  (job.stage \in {"data", "table"} /\ job.slot \in Persisted /\ dtable[job.slot].used)
    => dtable[job.slot].name = table[job.slot].name

LEMMA NextOwnSlot ==
  ASSUME Inv, OwnSlot, [Next]_vars
  PROVE  OwnSlot'
<1>1. CASE StartWrite
  <2>0. PICK n \in FileNames : \E e : /\ Puts(table, n, job'.slot, e, table')
                                      /\ dtable' = dtable /\ Ready
    BY <1>1, BeginWriteStep DEF StartWrite
  <2>1. PICK e : /\ Puts(table, n, job'.slot, e, table')
                 /\ dtable' = dtable /\ Ready
    BY <2>0
  <2>2. table'[job'.slot].name = n
    BY <2>1, MatchesAfterWrite DEF Puts
  <2>3. table[job'.slot].used => table[job'.slot].name = n
    BY <2>1, FirstWriteSlot DEF Puts
  <2>4. \A i \in Persisted : dtable[i] = table[i]
    BY <2>1 DEF Inv, DiskOK, Ready
  <2> QED
    BY <2>1, <2>2, <2>3, <2>4 DEF OwnSlot
<1>2. CASE WriteDataSector
  <2>1. /\ job'.slot = job.slot /\ table' = table /\ dtable' = dtable /\ job.stage = "data"
    BY <1>2 DEF WriteDataSector, Inv, TypeOK, Jobs
  <2> QED
    BY <2>1 DEF OwnSlot
<1>3. CASE WriteTable
  BY <1>3 DEF WriteTable, Idle, Inv, TypeOK, Jobs, OwnSlot
<1>4. ASSUME NEW i, FreeSlot(i)
      PROVE  OwnSlot'
  BY <1>4 DEF FreeSlot, OwnSlot
<1>5. CASE MakeDirectory \/ Format \/ PowerOff
  <2>1. job'.stage = "idle"
    BY <1>5 DEF MakeDirectory, Mkdir, Format, Ready, PowerOff, Idle
  <2> QED
    BY <2>1 DEF OwnSlot
<1>6. CASE Boot
  BY <1>6 DEF Boot, Inv, JobOK, OwnSlot
<1>7. CASE FilesUntouched
  BY <1>7 DEF FilesUntouched, OwnSlot
<1> QED
  BY <1>1, <1>2, <1>3, <1>4, <1>5, <1>6, <1>7, StepCases, RemovalCases

\* The refinement mapping of Store, under names.
StoreMap == [n \in FileNames |-> AfterBoot(n)]
OpMap ==
  IF job.stage = "idle"
    THEN [stage |-> "none", name |-> NoName, content |-> <<>>, src |-> NoName]
    ELSE [stage   |-> IF job.stage = "delete" THEN "remove" ELSE "write",
          name    |-> table[job.slot].name,
          content |-> job.content,
          src     |-> job.src]

\* The inductive invariant of the refinement.
StoreInv == Inv /\ Unique /\ Placed /\ Written /\ OwnSlot

LEMMA JobInSectorZero ==
  ASSUME Room, StoreInv, job.stage # "idle"
  PROVE  /\ job.slot \in Persisted /\ job.slot \in Slots
         /\ table[job.slot].used
         /\ table[job.slot].name \in FileNames \ DirNames
         /\ job.content \in FileContents
<1>1. job.slot \in Slots /\ job.content \in FileContents
  BY DEF StoreInv, Inv, TypeOK, Jobs
<1>2. table[job.slot].used /\ table[job.slot].name \in FileNames
  BY DEF StoreInv, Inv, JobOK
<1> QED
  BY <1>1, <1>2 DEF StoreInv, Placed, FilesFirst, Room

\* A command that starts a write changes nothing a boot would find.
LEMMA BeginStep ==
  ASSUME StoreInv, Ready, NEW n \in FileNames, NEW text \in FileContents,
         NEW src \in FileNames \cup {NoName}, BeginWrite(n, text, src)
  PROVE  Store!Begin(n, text, src)
<1> DEFINE e == FileEntry(job'.slot, n, text)
<1>1. /\ Puts(table, n, job'.slot, e, table')
      /\ job'.stage \in {"data", "table"}
      /\ job'.content = text /\ job'.src = src
      /\ dtable' = dtable /\ data' = data
  BY BeginWriteStep DEF StoreInv
<1> HIDE DEF e
<1>2. table'[job'.slot].name = n
  BY <1>1, MatchesAfterWrite DEF Puts
<1>3. OpMap = [stage |-> "none", name |-> NoName, content |-> <<>>, src |-> NoName]
  BY DEF OpMap, Ready
<1>4. OpMap' = [stage |-> "write", name |-> n, content |-> text, src |-> src]
  BY <1>1, <1>2 DEF OpMap
<1>5. StoreMap' = StoreMap
  BY <1>1 DEF StoreMap, AfterBoot, Lookup, BootTable, Matches
<1> QED
  BY <1>3, <1>4, <1>5 DEF Store!Begin, Store!NoOp, OpMap, StoreMap

\* A data sector tears the text it overwrites, or goes to an extent no saved
\* entry points to.
LEMMA TearStep ==
  ASSUME Room, StoreInv, WriteDataSector
  PROVE  Store!Tear \/ UNCHANGED <<StoreMap, OpMap>>
<1>1. PICK slot \in Persisted, n \in FileNames \ DirNames, k \in 0 .. MaxSectorsPerFile - 1,
            text \in FileContents :
        /\ slot = job.slot /\ n = table[slot].name /\ k = job.next /\ text = job.content
        /\ slot \in Slots /\ table[slot].used /\ job.stage = "data"
  <2>1. /\ job.stage = "data" /\ job.slot \in Persisted /\ job.slot \in Slots
        /\ job.content \in FileContents /\ table[job.slot].used
        /\ table[job.slot].name \in FileNames \ DirNames
    BY JobInSectorZero DEF WriteDataSector
  <2>2. job.next < SectorsNeeded(Len(job.content)) /\ job.next \in Nat
    BY <2>1 DEF StoreInv, Inv, JobOK, TypeOK, Jobs
  <2>3. SectorsNeeded(Len(job.content)) \in 0 .. MaxSectorsPerFile
    BY <2>1, FileContentsType, SectorsNeededType
  <2>4. job.next \in 0 .. MaxSectorsPerFile - 1
    BY <2>2, <2>3, SizeAssumption
  <2> QED
    BY <2>1, <2>4
<1>2. /\ SectorWritten(data, slot, k, Chunk(text, k), data')
      /\ dtable' = dtable /\ table' = table
  BY <1>1 DEF StoreInv, Inv, JobOK, TypeOK, WriteDataSector, SectorWritten
<1>3. OpMap' = OpMap /\ OpMap.stage = "write" /\ OpMap.name = n /\ OpMap.content = text
  <2>1. /\ job'.slot = job.slot /\ job'.content = job.content /\ job'.src = job.src
        /\ job'.stage \in {"data", "table"} /\ table' = table
    BY <1>1 DEF WriteDataSector, StoreInv, Inv, TypeOK, Jobs
  <2> QED
    BY <1>1, <2>1 DEF OpMap
<1>4. \A i \in Persisted :
        (dtable[i].used /\ dtable[i].name \in FileNames) => FileAt(i, dtable[i])
  <2>1. dtable \in [Persisted -> Entries] /\ SoundTable(BootTable(dtable))
    BY DEF StoreInv, Inv, TypeOK
  <2>2. \A i \in Persisted : dtable[i].size \in Nat
    BY <2>1 DEF Entries
  <2> QED
    BY <2>1, <2>2, BootTableSound, CapacityType DEF FileAt
<1>5. \A i \in Persisted : i # slot => dtable[i] = table[i]
  BY <1>1 DEF StoreInv, Inv, DiskOK, JobOK
<1>6. dtable[slot].used => dtable[slot].name = n
  BY <1>1 DEF StoreInv, OwnSlot
<1>7. /\ AfterBoot(n) = IF dtable[slot].used THEN ReadEntry(dtable[slot], data) ELSE Absent
      /\ AfterBoot(n)' = IF dtable[slot].used THEN ReadEntry(dtable[slot], data') ELSE Absent
  <2>1. ASSUME NEW i \in Persisted, dtable[i].used, dtable[i].name = n
        PROVE  i = slot
    <3> SUFFICES ASSUME i # slot PROVE FALSE
      OBVIOUS
    <3>1. i \in Matches(table, n) /\ slot \in Matches(table, n)
      BY <1>1, <1>5, <2>1, SlotsAreNat DEF Matches
    <3> QED
      BY <1>1, <3>1 DEF StoreInv, Unique, UniqueIn
  <2>2. ASSUME NEW d
        PROVE  Lookup(BootTable(dtable), d, n)
                 = IF dtable[slot].used THEN ReadEntry(dtable[slot], d) ELSE Absent
    <3>1. CASE dtable[slot].used
      BY <1>6, <2>1, <3>1, BootLookup
    <3>2. CASE ~ dtable[slot].used
      <4>1. \A i \in Persisted : ~ (dtable[i].used /\ dtable[i].name = n)
        BY <2>1, <3>2
      <4> QED
        BY <3>2, <4>1, BootLookup
    <3> QED
      BY <3>1, <3>2
  <2> QED
    BY <1>2, <2>2 DEF AfterBoot
<1>8. ASSUME NEW m \in FileNames, m # n
      PROVE  AfterBoot(m)' = AfterBoot(m)
  <2>1. AfterBoot(m)' = Lookup(BootTable(dtable), data', m)
    BY <1>2 DEF AfterBoot
  <2>2. CASE Matches(BootTable(dtable), m) = {}
    BY <2>1, <2>2 DEF AfterBoot, Lookup
  <2>3. CASE Matches(BootTable(dtable), m) # {}
    <3> DEFINE i == First(Matches(BootTable(dtable), m))
    <3>1. i \in Slots /\ BootTable(dtable)[i].used /\ BootTable(dtable)[i].name = m
      BY <2>3, FirstMatch
    <3>2. i \in Matches(BootTable(dtable), m)
      BY <3>1 DEF Matches
    <3>3. i \in Persisted /\ dtable[i].used /\ dtable[i].name = m
      BY <3>2, BootMatches
    <3>4. BootTable(dtable)[i] = dtable[i]
      BY <3>1, <3>3 DEF BootTable
    <3> HIDE DEF i
    <3>5. i # slot
      BY <1>6, <1>8, <3>3
    <3>6. ReadEntry(dtable[i], data') = ReadEntry(dtable[i], data)
      BY <1>1, <1>2, <1>4, <3>1, <3>3, <3>5, ReadOther
    <3> QED
      BY <2>1, <2>3, <3>4, <3>6 DEF AfterBoot, Lookup, i
  <2> QED
    BY <2>2, <2>3
<1>9. CASE dtable[slot].used
  <2>1. Store!Torn(AfterBoot(n), text, AfterBoot(n)')
    BY <1>1, <1>2, <1>4, <1>6, <1>7, <1>9, ReadTorn
  <2>2. AfterBoot(n) # Absent
    <3>1. slot \in Matches(BootTable(dtable), n)
      BY <1>1, <1>6, <1>9 DEF Matches, BootTable
    <3>2. AfterBoot(n) \in FileContents
      BY <3>1, LookupType, BootTableSound DEF AfterBoot, StoreInv, Inv, TypeOK
    <3> QED
      BY <3>2, DataAssumption
  <2>3. StoreMap' = [StoreMap EXCEPT ![n] = AfterBoot(n)']
    BY <1>1, <1>8 DEF StoreMap
  <2>4. StoreMap[n] = AfterBoot(n) /\ StoreMap'[n] = AfterBoot(n)'
    BY DEF StoreMap
  <2>5. /\ OpMap.stage = "write"
        /\ StoreMap[OpMap.name] # Absent
        /\ Store!Torn(StoreMap[OpMap.name], OpMap.content, StoreMap'[OpMap.name])
        /\ StoreMap' = [StoreMap EXCEPT ![OpMap.name] = StoreMap'[OpMap.name]]
        /\ OpMap' = OpMap
    BY <1>3, <2>1, <2>2, <2>3, <2>4
  <2> QED
    BY <2>5 DEF Store!Tear, StoreMap, OpMap
<1>10. CASE ~ dtable[slot].used
  <2>1. AfterBoot(n)' = AfterBoot(n)
    BY <1>7, <1>10
  <2>2. StoreMap' = StoreMap
    BY <1>8, <2>1 DEF StoreMap
  <2> QED
    BY <1>3, <2>2
<1> QED
  BY <1>9, <1>10

\* Saving the table makes the whole text appear under its name at once.
LEMMA CommitStep ==
  ASSUME Room, StoreInv, WriteTable
  PROVE  Store!Commit
<1>1. PICK slot \in Persisted, n \in FileNames \ DirNames, text \in FileContents :
        /\ slot = job.slot /\ n = table[slot].name /\ text = job.content
        /\ slot \in Slots /\ table[slot].used /\ job.stage = "table"
  BY JobInSectorZero DEF WriteTable
<1>2. table' = table /\ data' = data /\ \A i \in Persisted : dtable'[i] = table[i]
  BY <1>1 DEF WriteTable, SaveTable
<1>3. \A i \in Persisted : i # slot => dtable[i] = table[i]
  BY <1>1 DEF StoreInv, Inv, DiskOK, JobOK
<1>4. AfterBoot(n)' = text
  <2>1. ASSUME NEW i \in Persisted, dtable'[i].used, dtable'[i].name = n
        PROVE  i = slot
    <3>1. i \in Matches(table, n) /\ slot \in Matches(table, n)
      BY <1>1, <1>2, <2>1, SlotsAreNat DEF Matches
    <3> QED
      BY <1>1, <3>1 DEF StoreInv, Unique, UniqueIn
  <2>2. dtable'[slot].used /\ dtable'[slot].name = n
    BY <1>1, <1>2
  <2>3. Lookup(BootTable(dtable'), data, n) = ReadEntry(dtable'[slot], data)
    BY <2>1, <2>2, BootLookup
  <2>4. ReadEntry(table[slot], data) = text
    BY <1>1, JobIsReadBack DEF StoreInv
  <2> QED
    BY <1>2, <2>3, <2>4 DEF AfterBoot
<1>5. ASSUME NEW m \in FileNames, m # n
      PROVE  AfterBoot(m)' = AfterBoot(m)
  <2>1. ~ (dtable'[slot].used /\ dtable'[slot].name = m)
    BY <1>1, <1>2, <1>5
  <2>2. ~ (dtable[slot].used /\ dtable[slot].name = m)
    BY <1>1, <1>5 DEF StoreInv, OwnSlot
  <2>3. Lookup(BootTable(dtable'), data, m) = Lookup(BootTable(dtable), data, m)
    BY <1>2, <1>3, <2>1, <2>2, SameLookup
  <2> QED
    BY <1>2, <2>3 DEF AfterBoot
<1>6. StoreMap' = [StoreMap EXCEPT ![n] = text]
  BY <1>1, <1>4, <1>5 DEF StoreMap
<1>7. OpMap = [stage |-> "write", name |-> n, content |-> text, src |-> job.src]
  BY <1>1 DEF OpMap
<1>8. OpMap' = IF job.src = NoName
                 THEN [stage |-> "none", name |-> NoName, content |-> <<>>, src |-> NoName]
                 ELSE [OpMap EXCEPT !.stage = "remove"]
  <2>1. CASE job.src = NoName
    BY <2>1 DEF WriteTable, Idle, OpMap
  <2>2. CASE job.src # NoName
    <3>1. /\ job'.stage = "delete" /\ job'.slot = slot
          /\ job'.content = text /\ job'.src = job.src
      BY <1>1, <2>2 DEF WriteTable, StoreInv, Inv, TypeOK, Jobs
    <3>2. OpMap' = [stage |-> "remove", name |-> n, content |-> text, src |-> job.src]
      BY <1>1, <1>2, <3>1 DEF OpMap
    <3> QED
      BY <1>7, <2>2, <3>2
  <2> QED
    BY <2>1, <2>2
<1>9. /\ OpMap.stage = "write"
      /\ StoreMap' = [StoreMap EXCEPT ![OpMap.name] = OpMap.content]
      /\ OpMap.src = job.src
  BY <1>6, <1>7
<1> QED
  BY <1>8, <1>9 DEF Store!Commit, Store!NoOp, StoreMap, OpMap

\* Freeing a slot and saving the table takes one file from the store, or none.
LEMMA FreeSlotStep ==
  ASSUME Room, StoreInv, job.stage \in {"idle", "delete"}, NEW i, FreeSlot(i),
         NEW n, n = table[i].name
  PROVE  StoreMap' = [m \in FileNames |-> IF m = n THEN Absent ELSE StoreMap[m]]
<1>1. /\ i \in Slots /\ table \in [Slots -> Entries] /\ power = "on" /\ table[i].used
      /\ table' = [table EXCEPT ![i] = Unused] /\ data' = data
      /\ \A j \in Persisted : dtable'[j] = table'[j]
  BY DEF FreeSlot, SaveTable, StoreInv, Inv, TypeOK
<1>2. \A j \in Persisted : dtable[j] = table[j]
  BY <1>1 DEF StoreInv, Inv, DiskOK
<1>3. \A j \in Persisted : dtable'[j] = IF j = i THEN Unused ELSE dtable[j]
  BY <1>1, <1>2, SlotsAreNat
<1>4. ASSUME NEW m \in FileNames, m # n
      PROVE  AfterBoot(m)' = AfterBoot(m)
  <2>1. \A j \in Persisted : dtable[j] # dtable'[j] =>
          /\ ~ (dtable[j].used /\ dtable[j].name = m)
          /\ ~ (dtable'[j].used /\ dtable'[j].name = m)
    BY <1>2, <1>3, <1>4, UnusedType
  <2>2. Lookup(BootTable(dtable'), data, m) = Lookup(BootTable(dtable), data, m)
    BY <2>1, SameLookup
  <2> QED
    BY <1>1, <2>2 DEF AfterBoot
<1>5. ASSUME n \in FileNames
      PROVE  AfterBoot(n)' = Absent
  <2>1. ASSUME NEW j \in Persisted
        PROVE  ~ (dtable'[j].used /\ dtable'[j].name = n)
    <3>1. CASE j = i
      BY <1>3, <3>1, UnusedType
    <3>2. CASE j # i
      <4> SUFFICES ASSUME dtable'[j].used, dtable'[j].name = n PROVE FALSE
        OBVIOUS
      <4>1. j \in Matches(table, n) /\ i \in Matches(table, n)
        BY <1>1, <1>2, <1>3, <3>2, SlotsAreNat DEF Matches
      <4> QED
        BY <1>5, <3>2, <4>1 DEF StoreInv, Unique, UniqueIn, Room
    <3> QED
      BY <3>1, <3>2
  <2>2. Lookup(BootTable(dtable'), data, n) = Absent
    BY <1>5, <2>1, BootLookup
  <2> QED
    BY <1>1, <2>2 DEF AfterBoot
<1>6. \A m \in FileNames : AfterBoot(m)' = IF m = n THEN Absent ELSE AfterBoot(m)
  BY <1>4, <1>5
<1> QED
  BY <1>6 DEF StoreMap

\* rm, and rmdir, which here can only reach the entry that BootGarbage holds.
LEMMA RemoveStep ==
  ASSUME Room, StoreInv, NEW n, NEW i, Ready, FreeSlot(i), n = table[i].name, job' = job
  PROVE  \/ n \in FileNames /\ Store!Delete(n)
         \/ UNCHANGED <<StoreMap, OpMap>>
<1>1. StoreMap' = [m \in FileNames |-> IF m = n THEN Absent ELSE StoreMap[m]]
  BY FreeSlotStep DEF Ready
<1>2. OpMap' = OpMap
      /\ OpMap = [stage |-> "none", name |-> NoName, content |-> <<>>, src |-> NoName]
  BY DEF Ready, OpMap
<1>3. CASE n \notin FileNames
  <2>1. StoreMap' = StoreMap
    BY <1>1, <1>3 DEF StoreMap
  <2> QED
    BY <1>2, <2>1
<1>4. CASE n \in FileNames
  <2>1. StoreMap' = [StoreMap EXCEPT ![n] = Absent]
    BY <1>1 DEF StoreMap
  <2>2. StoreMap[n] # Absent
    <3>1. i \in Matches(table, n) /\ table \in [Slots -> Entries]
      BY DEF FreeSlot, Matches, StoreInv, Inv, TypeOK
    <3>2. Lookup(table, data, n) \in FileContents
      BY <1>4, <3>1, LookupType DEF StoreInv, Inv, TypeOK
    <3>3. AfterBoot(n) = Lookup(table, data, n)
      BY <1>4, DurableState DEF StoreInv
    <3> QED
      BY <1>4, <3>2, <3>3, DataAssumption DEF StoreMap
  <2> QED
    BY <1>2, <1>4, <2>1, <2>2 DEF Store!Delete, Store!NoOp, StoreMap, OpMap
<1> QED
  BY <1>3, <1>4

\* The second half of mv.
LEMMA RemoveSourceStep ==
  ASSUME Room, StoreInv, DeleteSource
  PROVE  Store!RemoveSource
<1>1. PICK i, n : /\ FreeSlot(i) /\ n = table[i].name /\ n = job.src
                  /\ job.stage = "delete" /\ job' = Idle
  <2>1. /\ FreeSlot(First(Matches(table, job.src))) /\ Matches(table, job.src) # {}
        /\ job.stage = "delete" /\ job' = Idle
    BY RemovalCases DEF DeleteSource, Remove, StoreInv
  <2>2. table[First(Matches(table, job.src))].name = job.src
    BY <2>1, FirstMatch
  <2> QED
    BY <2>1, <2>2
<1>2. StoreMap' = [m \in FileNames |-> IF m = n THEN Absent ELSE StoreMap[m]]
  <2>1. job.stage \in {"idle", "delete"} /\ FreeSlot(i) /\ n = table[i].name
    BY <1>1
  <2> QED
    BY <2>1, FreeSlotStep
<1>3. StoreMap' = [StoreMap EXCEPT ![n] = Absent]
  BY <1>2 DEF StoreMap
<1>4. OpMap.stage = "remove" /\ OpMap.src = n
  BY <1>1 DEF OpMap
<1>5. OpMap' = [stage |-> "none", name |-> NoName, content |-> <<>>, src |-> NoName]
  BY <1>1 DEF OpMap, Idle
<1>6. StoreMap' = [StoreMap EXCEPT ![OpMap.src] = Absent]
  BY <1>3, <1>4
<1> QED
  BY <1>4, <1>5, <1>6 DEF Store!RemoveSource, Store!NoOp, StoreMap, OpMap

LEMMA FileCommandStep ==
  ASSUME Room, StoreInv, FileCommand
  PROVE  Store!Next
<1>1. PICK n \in FileNames :
        \/ \E text \in Contents : WriteFile(n, text)
        \/ Touch(n)
        \/ \E dest \in FileNames : CopyFile(n, dest) \/ MoveFile(n, dest)
  BY DEF FileCommand
<1>2. ASSUME Ready, NEW m \in FileNames
      PROVE  StoreMap[m] = Lookup(table, data, m)
  BY <1>2, DurableState DEF StoreInv, StoreMap
<1>3. ASSUME NEW text \in Contents, WriteFile(n, text)
      PROVE  Store!Next
  <2>1. Store!Begin(n, text, NoName)
    BY <1>3, BeginStep, DataAssumption DEF WriteFile
  <2> QED
    BY <2>1 DEF Store!Next, Store!Write
<1>4. ASSUME Touch(n)
      PROVE  Store!Next
  <2>1. Store!Begin(n, <<>>, NoName)
    BY <1>4, BeginStep, EmptyTextType DEF Touch
  <2>2. StoreMap[n] = Absent
    BY <1>2, <1>4 DEF Touch, Lookup
  <2>3. Store!Create(n)
    BY <2>1, <2>2 DEF Store!Create, StoreMap
  <2> QED
    BY <2>3 DEF Store!Next
<1>5. ASSUME NEW dest \in FileNames, CopyFile(n, dest) \/ MoveFile(n, dest)
      PROVE  Store!Next
  <2>1. Ready /\ Lookup(table, data, n) # Absent
    BY <1>5 DEF CopyFile, MoveFile
  <2>2. PICK text \in FileContents : text = Lookup(table, data, n)
    BY <2>1, LookupType DEF StoreInv, Inv, TypeOK, Lookup
  <2>3. StoreMap[n] = text /\ StoreMap[n] # Absent
    BY <1>2, <2>1, <2>2
  <2>4. CASE CopyFile(n, dest)
    <3>1. Store!Begin(dest, text, NoName)
      BY <2>1, <2>2, <2>4, BeginStep DEF CopyFile
    <3>2. Store!Copy(n, dest)
      BY <2>3, <3>1 DEF Store!Copy, StoreMap
    <3> QED
      BY <3>2 DEF Store!Next
  <2>5. CASE MoveFile(n, dest)
    <3>1. Store!Begin(dest, text, n)
      BY <2>1, <2>2, <2>5, BeginStep DEF MoveFile
    <3>2. Store!Move(n, dest)
      BY <2>3, <3>1 DEF Store!Move, StoreMap
    <3> QED
      BY <3>2 DEF Store!Next
  <2> QED
    BY <1>5, <2>4, <2>5
<1> QED
  BY <1>1, <1>3, <1>4, <1>5

\* Every step of the file system is a step of the store, or none.
LEMMA StoreStep ==
  ASSUME Room, StoreInv, [Next]_vars
  PROVE  Store!Next \/ UNCHANGED <<StoreMap, OpMap>>
<1>1. CASE FileCommand
  BY <1>1, FileCommandStep
<1>2. ASSUME NEW n \in Names, DeleteFile(n)
      PROVE  Store!Next \/ UNCHANGED <<StoreMap, OpMap>>
  <2>1. PICK i : FreeSlot(i) /\ n = table[i].name
    BY <1>2, RemovalCases, FirstMatch DEF DeleteFile, Remove, StoreInv
  <2>2. Ready /\ job' = job
    BY <1>2 DEF DeleteFile
  <2> QED
    BY <2>1, <2>2, RemoveStep DEF Store!Next
<1>3. ASSUME NEW n \in DirNames \cup {PhantomName}, Rmdir(n)
      PROVE  Store!Next \/ UNCHANGED <<StoreMap, OpMap>>
  <2>1. PICK i : FreeSlot(i) /\ n = table[i].name
    <3>1. DirMatches(table, n) \in SUBSET Slots /\ DirMatches(table, n) # {}
      BY <1>3 DEF DirMatches, Matches, Rmdir
    <3>2. First(DirMatches(table, n)) \in DirMatches(table, n)
      BY <3>1, SlotsAreNat
    <3> QED
      BY <1>3, <3>2, RemovalCases DEF DirMatches, Matches, StoreInv
  <2>2. Ready /\ job' = job
    BY <1>3 DEF Rmdir
  <2> QED
    BY <2>1, <2>2, RemoveStep DEF Store!Next
<1>4. ASSUME FilesUntouched
      PROVE  UNCHANGED <<StoreMap, OpMap>>
  BY <1>4 DEF FilesUntouched, StoreMap, AfterBoot, Lookup, BootTable, Matches, OpMap
<1>5. CASE Format
  <2>1. /\ Ready /\ table' = [i \in Slots |-> Unused] /\ job' = job
        /\ \A i \in Persisted : dtable'[i] = table'[i]
    BY <1>5 DEF Format, SaveTable
  <2>2. \A i \in Persisted : ~ dtable'[i].used
    BY <2>1, UnusedType, SlotsAreNat
  <2>3. ASSUME NEW n \in FileNames
        PROVE  AfterBoot(n)' = Absent
    BY <2>2, BootLookup DEF AfterBoot
  <2>4. StoreMap' = [n \in FileNames |-> Absent]
    BY <2>3 DEF StoreMap
  <2>5. OpMap' = OpMap
        /\ OpMap = [stage |-> "none", name |-> NoName, content |-> <<>>, src |-> NoName]
    BY <2>1 DEF Ready, OpMap
  <2>6. Store!Format
    BY <2>4, <2>5 DEF Store!Format, Store!NoOp, StoreMap, OpMap
  <2> QED
    BY <2>6 DEF Store!Next
<1>6. CASE WriteDataSector
  BY <1>6, TearStep DEF Store!Next
<1>7. CASE WriteTable
  BY <1>7, CommitStep DEF Store!Next
<1>8. CASE DeleteSource
  BY <1>8, RemoveSourceStep DEF Store!Next
<1>9. CASE PowerOff
  <2>1. dtable' = dtable /\ data' = data /\ job' = Idle
    BY <1>9 DEF PowerOff, disk
  <2>2. StoreMap' = StoreMap
    BY <2>1 DEF StoreMap, AfterBoot, Lookup, BootTable, Matches
  <2>3. OpMap' = [stage |-> "none", name |-> NoName, content |-> <<>>, src |-> NoName]
    BY <2>1 DEF Idle, OpMap
  <2>4. Store!Crash
    BY <2>2, <2>3 DEF Store!Crash, Store!NoOp, StoreMap, OpMap
  <2> QED
    BY <2>4 DEF Store!Next
<1>10. CASE Boot
  <2>1. dtable' = dtable /\ data' = data /\ job' = job /\ job.stage = "idle"
    BY <1>10 DEF Boot, disk, StoreInv, Inv, JobOK
  <2>2. StoreMap' = StoreMap
    BY <2>1 DEF StoreMap, AfterBoot, Lookup, BootTable, Matches
  <2>3. OpMap' = OpMap
    BY <2>1 DEF OpMap
  <2> QED
    BY <2>2, <2>3
<1>11. CASE DirCommand
  <2>1. FilesUntouched \/ \E n \in DirNames \cup {PhantomName} : Rmdir(n)
    BY <1>11 DEF DirCommand, Room, ChdirDown, ChdirUp, ChdirRoot, disk, FilesUntouched
  <2> QED
    BY <2>1, <1>3, <1>4
<1>12. CASE UNCHANGED vars
  BY <1>12, <1>4 DEF vars, FilesUntouched
<1> QED
  BY <1>1, <1>2, <1>5, <1>6, <1>7, <1>8, <1>9, <1>10, <1>11, <1>12 DEF Next, DeviceStep

\* Whatever the moment a loss of power falls on, the files of the disk behave
\* like the FileStore: creation and removal are atomic, only a text that is
\* being overwritten can be torn, and no other file is touched.
THEOREM StoreRefinement ==
  ASSUME Room
  PROVE  Spec => ImplementsFileStore
<1>1. Init => Store!Init
  <2> SUFFICES ASSUME Init PROVE Store!Init
    OBVIOUS
  <2>1. ASSUME NEW n \in FileNames
        PROVE  AfterBoot(n) = Absent
    BY UnusedType, BootLookup DEF Init, AfterBoot
  <2>2. job.stage = "idle"
    BY DEF Init, Idle
  <2> QED
    BY <2>1, <2>2 DEF Store!Init, Store!NoOp
<1>2. Spec => []StoreInv
  <2>1. Init => OwnSlot
    BY DEF Init, Idle, OwnSlot
  <2>2. Inv /\ OwnSlot /\ [Next]_vars => OwnSlot'
    BY NextOwnSlot
  <2>3. Spec => []OwnSlot
    BY <2>1, <2>2, Invariance, PTL DEF Spec
  <2> QED
    BY <2>3, Invariance, UniqueInvariance, PlacedInvariance, WrittenInvariance, PTL DEF StoreInv
<1>3. StoreInv /\ [Next]_vars => [Store!Next]_<<StoreMap, OpMap>>
  BY StoreStep
<1> QED
  BY <1>1, <1>2, <1>3, PTL DEF Spec, ImplementsFileStore, Store!Spec, StoreMap, OpMap
=============================================================================
