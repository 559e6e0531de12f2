# 323OS in TLA+

Specifications of 323OS, the 32-bit hobby kernel of this repository: TLA+
modules translated from its C code, TLC configurations that model-check them on
small instances, and proofs checked by TLAPS. Line numbers are those of the
repository at this commit.

323OS has one thread of control. `kernel_main` boots, then polls the keyboard in
one of five loops and runs commands to their end. What makes it hard is less
parallelism than

* **power**: the machine can be switched off between any two sectors a command
  writes, and the next boot works with whatever is on the disk;
* **devices**: an ATA drive and a keyboard that run at their own pace and meet
  the kernel in polling loops;
* **long sequences of legal commands**: tables, rings and paths of fixed size
  that fill up, wrap, or go out of step with each other;
* **uninitialized and overlapping memory**: buffers on the stack, and a table
  that is larger than the sector buffer it is copied to;
* **interrupts and a running clock**: the timer increments `tick` while
  `update_live_clock` reads it, and the CMOS clock moves on between two reads of
  one register.

## 1. Inventory

| Component | State | Operations | What is hard | What makes it correct |
|---|---|---|---|---|
| 323FS, `drivers/filesystem.c` | `file_table[16]`, `current_directory`, `sector_buffer`; on disk: sector 0 and four data sectors per table slot | init, format, write, read, delete, copy, move, touch, mkdir, rmdir, chdir, list, tree | several sector writes per command with a loss of power between them; only 6 of 16 entries fit in the sector that is saved; names are looked up in the whole table while entries carry paths | what a command has finished is there after a boot; an interrupted command leaves the old or the new state; one entry per file; paths stay absolute, `cd` runs no two names together and `cd ..` takes one component |
| Event logger, `logs/logger.c` | ring `log_buffer[20]`, `log_head`, `log_count` | `klog`, `klog_dump` | wrap-around, exactly full | the dump is the most recent messages in order |
| Memory behind `sector_buffer` | the bytes of `log_buffer` that lie directly behind it | every save, format and boot runs 896 bytes past the buffer | log lines read as table entries, table entries written over log lines | nothing read from the log gets to the disk; a log line shows its own message unless a save has run over it |
| ATA driver, `drivers/ata.c` | none of its own; registers and status of the drive | `ata_init`, `ata_read_sector`, `ata_write_sector` | delays, refused commands, failing writes, loss of power in a transfer | a sector is read or written as a whole, before the call returns |
| Text editor, `start_editor_storage` | buffer of 2048 bytes on the stack, `idx` | open, type, backspace, Ctrl+S | only `buffer[0]` is initialized, typing writes no NUL, backspace looks for one | what is saved is what was typed |
| Keyboard and login, `kernel_main`, `help_wait_key` | `shift_pressed`, `ctrl_pressed`, field and line buffers | five polling loops | a key held while one loop hands over to another; two keys for each flag | a flag is set only while one of its keys is held; buffers are not overrun |
| User database | `users[10]`, `current_user`, the file `users.db` | load, save, login, `useradd`, `passwd` | text form of limited size, parsed byte by byte; the file can be edited, removed, or torn by a loss of power | what was saved is loaded; an interrupted save loses at most what was being changed |
| Shell, `execute_command` | line, `history[5]` | about 35 commands, tested by prefix one after the other | `rm` is tested before `rmdir`, which is therefore never reached | every other documented command runs its own handler; the history holds the last lines, up to 63 characters of each; only overflow halts the kernel |
| Interrupts and timer, `cpu/` | IDT, `interrupt_handlers`, `tick` | `irq_handler`, `timer_callback`, `update_live_clock`, `hlt` of shutdown | `tick` is read several times in one function while the interrupt increments it; `hlt` with interrupts on | no interrupt is lost or taken too early; the display is never stale for longer than its period and two passes; every tick is served |
| Real-time clock and uptime | CMOS registers, `boot_time` | `get_bdt_string`, `get_bdt_date`, `uptime` | registers read twice and one after the other; the day in Dhaka; midnight | time and date are those of Dhaka at a moment of the read; `uptime` is right within the first day, and forgets whole days from then on |
| VGA terminal, `drivers/display.c` | cursor, screen | `terminal_putc`, `terminal_clear_area` | wrap, the clear that replaces scrolling, backspace at column 0, overlays drawn in the middle of a line | the cursor stays on the screen; the screen shows what the kernel has; nothing is shown behind the cursor |
| String and number helpers, `kernel/utils.c` | none | `strlen`, `backspace`, `itoa`, `atoi` ... | `itoa` of the least integer | what the calculator prints is the result |
| Segmentation and start-up | GDT, page of the boot loader | run once | nothing that interleaves | not modelled |
| RAM disk, `start_editor` | `ramdisk[10]` | none is called but `init_ramdisk` | dead code | not modelled |
| Process table | one constant entry | `ps` | none | not modelled |

Who calls whom: the loops of `kernel_main` pass keys to the line, the fields and
the editor; `execute_command` calls the file system and the user database; the
user database and the editor store their text with `fs_write_file`; the file
system reads and writes sectors with the ATA driver; everything calls `klog`
(from the main loop only, never from an interrupt handler). The flags
`shift_pressed` and `ctrl_pressed` are shared by the five loops,
`sector_buffer` by data and table, and the memory behind it by the file system
and the logger.

## 2. Modules

| Module | What it is |
|---|---|
| `FileSystem` | 323FS as a state machine, with its properties |
| `FileStore` | what 323FS promises: files as a map that survives a loss of power |
| `FileSystemMC`, `FS_*.cfg` | values for TLC |
| `FileSystemProofs` | its types, the agreement of table and disk, the paths, what 323FS promises of its files, and the refinement of `FileStore` |
| `Ata`, `SectorStore`, `AtaMC`, `Ata*.cfg`, `AtaProofs` | driver and drive; the atomic sectors they implement, and the proof that they do |
| `Users`, `UsersMC`, `Users.cfg`, `UsersProofs` | the user database and `users.db`, and the theorems |
| `Editor` | the text editor |
| `Session`, `SessionMC`, `Session*.cfg` | the keyboard loops, extending `Editor` with the flags and buffers of the other loops |
| `SessionProofs` | the theorems of `Editor` and `Session` |
| `Logger` | the log ring |
| `KernelMemory`, `KernelMemoryMC`, `Memory.cfg` | the memory that the table and the log share, extending `Logger` |
| `KernelMemoryProofs` | the theorems of `Logger` and `KernelMemory` |
| `Interrupts`, `Interrupts.cfg`, `InterruptsProofs` | interrupt handlers against the main thread, and the theorems |
| `Rtc`, `RtcMC`, `Rtc.cfg`, `RtcProofs` | the CMOS clock, time and date of Dhaka, `uptime`, and the theorems |
| `Screen`, `ScreenMC`, `Screen.cfg` | the VGA terminal and what is drawn on it |
| `Shell`, `ShellMC`, `Shell.cfg` | the dispatch of lines, the history, the calculator |
| `ConsoleProofs` | the theorems of `Screen`, and those of `Shell` about history and calculator |

`PROJECT.json` maps every definition to the lines it models. Definitions marked
*mutant* in a comment are deliberately wrong variants of the definition that
follows them; no specification uses them. They show that a property
can fail: with the variant in place of the definition, TLC finds it violated.

### 2.1 FileSystem and FileStore

`table`, `cwd` and `power` are the memory of the kernel; `dtable` and `data` are
the disk: the entries of sector 0, and the data sectors. `job` is the command
that still has sectors to write: its stage says whether the next device write is
a data sector (`WriteDataSector`, `fs_write_file` 126-137), the table
(`WriteTable`, 139), or the removal of the source of a `mv` (`DeleteSource`,
231-233). A command that only saves the table (`Mkdir`, `Rmdir`, `DeleteFile`,
`Format`) is a single step. `PowerOff` may happen in every state and forgets the
memory; `Boot` is `fs_init`. The searches (`First`, `Matches`, `WriteSlots`) are
the loops of the code: the first entry of that name in the whole table, or the
first free one.

Sector 0 holds the first `PersistedSlots` entries (6 of 16: an entry has 88
bytes). What `fs_init` finds for the others is whatever lies behind
`sector_buffer`, the constant `BootGarbage`. On the real machine, after the log
messages of a boot, one of these entries, that of slot 8, looks used: it is
called `RAMDisk initialized.`, has an empty path, a size of about two thousand million, and looks
like a directory. The model has such an entry under `PhantomName`; `cd`, `rmdir`
and `rm` may name it, and no file command does.

Paths, and the names that `mkdir`, `rmdir` and `cd` take, are sequences of tokens: a
slash, or a part, which is a run of other characters (`Parts`). So `cd`, `cd ..`, `strcat` and the
missing removal of the last slash are those of the code, and a name may hold slashes, as
`fs_mkdir` checks none: `mkdir a/b` makes one entry with the name `a/b`, and `cd a/b` goes down
two components at once. `Enterable` are the names that the search of `fs_chdir` is ever given:
`/` and `..` are taken before it. The length of a name does not matter (names of up to
27 characters; longer ones overrun `name[28]` and are not modelled). The names of files are
opaque, since no path is made of them. Texts are sequences of bytes, cut into sectors and padded
with NUL as the code does.

`FileStore` knows neither slots nor sectors. It has a map from names to texts,
the update in flight, and these promises: an update happens in one step
(`Commit`), after any number of steps that tear the *old* text of the same name
(`Tear`: each byte is the old one or the new one); creating, removing and
formatting are atomic; a move is a commit followed by a removal; a loss of power
drops what is in flight. `FileSystem` implements it under the mapping
`store[n] = AfterBoot(n)`: what a boot *now* would find under n.

### 2.2 Ata and SectorStore

The driver's program counter goes through its two waits and its word loop; the
drive has BSY, DRQ, ERR, the command, its registers and a buffer of words, and
moves on its own (`Ready`, `Load`, `Accept`, `Flush`), or fails (`Fail`, at the
command or at the flush). The drive is external: it is modelled from what the
driver waits for. It is assumed to be busy from the moment a command, or the last
word of a write, arrives; and a sector reaches the medium in one step, which is
what drives promise when the power fails. `SectorStore` is the abstract disk: a
write changes a sector in one step before it returns. That is what `FileSystem`
takes for granted of a sector.

### 2.3 Users

`users` is the table with its `active` flags. `Lines` and `Text` are
`save_users_to_disk`, `Parse` is `load_users_from_disk`, field by field with the
limits of 31 and 510 bytes. `db` is `users.db` as the disk has it, its sector and
the size in its table entry, which `fs_write_file` writes one after the other
(`WriteSector`, `WriteTable`). `Edit` stands for everything that writes the file
as a file (`edit users.db`, `cp x users.db`), `Remove` for `rm users.db` and
`format`, which leave the table in memory alone. `NoRoom` is the full disk, whose
error `save_users_to_disk` ignores. Assumed: the entry of `users.db` is one of
those that reach the disk, its text is below one sector, and passwords are at
most 31 bytes long (`passwd` does not cut them).

### 2.4 Editor and Session

`Editor` has the stack buffer with any content (`Garbage`), `idx`, and the history
`typed`: the text as opened, with what was typed and taken back since. `OnDisk` are
the texts a boot may find, torn ones among them: the first sector of a shorter text,
padded with NUL, under the size of the old one. `Open` takes `idx` from the size, as
the code does, and while `idx` lies behind such a NUL, typing changes nothing that a
save writes; the history variable `hidden` says so.
`Cuts` is `backspace(buffer)`: it sets the byte before the first NUL to NUL,
wherever that is, and when the buffer has none, its last byte or one behind it.
`Session` adds the loop that polls, the two flags, the modifier keys the user
really holds, and the lengths of field and line. There are two shift keys, which have scancodes of
their own, and two ctrl keys, which differ only in the prefix E0, which no loop looks at; each
pair shares one flag. Each loop's tests of scancodes are in `ShiftLoops` and `CtrlLoops`. Not modelled:
the shifts that a keyboard fakes around an extended key (E0 2A and E0 AA), which
the kernel takes for a shift that is pressed and released. Whether a password is accepted is a free
choice, and the commands of the line are those that hand the keyboard over, that
remove the file, or that end at once.

### 2.5 Logger and KernelMemory

`Logger` is the ring and the arithmetic of `klog` and `klog_dump`; `written` is the
history of messages since boot.

`KernelMemory` extends it with the bytes. The linker places `log_buffer` (20 lines of
64 bytes) directly behind the 512 bytes of `sector_buffer`, and 16 entries of 88
bytes are copied to and from that buffer: 896 bytes, the lines 0 to 13, belong to
both. `mem` is that memory, `log_buffer` what `klog` was given for each line,
`TextAt` what a dump would print of it. `LoadTable` is `fs_init`, `Image` the copy
of `fs_save_table` and `fs_format`. An entry has five bytes, each of which stands for
a field: the first of the name, the size, the used flag, the owner (which
`fs_write_file` does not assign) and the permissions. A byte is a letter of a
message, a letter of a file name, NUL or another value. A message is logged in one
step; before `fs_init` the messages are those of the boot in their order.

### 2.6 Interrupts

`BootOrder` is the order of `init_idt`, `init_timer` and `sti` in `kernel_main`. The
PIC has pending lines (`irr`) and lines in service (`isr`); `Deliver` is the
processor taking one through its gate, `Eoi`, `Call` and `Iret` are `irq_handler` and
the stub around it. The main thread takes one step for each read of `tick` in
`update_live_clock`: the comparison, then the assignment, with any number of
interrupts in between. `PowerCommand` is the end of `shutdown` and `reboot`:
the machine goes off, or `hlt` is executed with interrupts on. `Exception` is
`isr_handler`, whose `hlt` is executed with interrupts off. `spin_age` and `sec_age`
count the ticks since spinner and clock were drawn.

### 2.7 Rtc

One step for each of the two reads of a register (`ReadOnce`, `ReadAgain`; the macro
`BCD_TO_BIN` evaluates its argument twice, and C does not say which half comes
first), and `Second` in between. The clock and its calendar are external: its year has
two digits and every fourth is a leap year, so that `is_leap_year(2000 + year)` agrees
with it. `Return`
applies the conversions, which are operators of the names of the source. `torn`
says that a digit other than the last of the seconds changed during the operation.
That a register may be undefined while the clock updates itself (the code does not
look at the flag that tells) is left out: each read gives the value of its moment.

### 2.8 Screen

`display.c` as functions on a terminal (cells, column, row, hardware cursor);
`LiveClock`, `draw_footer` and the dashboard are the overlays. `line` is what the
kernel has of the line or text that is being typed, `start` where it began;
`spoilt` says that the bottom was reached or that a backspace did not move, after
which line and screen may differ. Colours are left out. The password is echoed as
asterisks: there `line` is what is echoed.

### 2.9 Shell

`Tests` are the comparisons of `execute_command` in their order, whole words
and prefixes; `Dispatch` gives the handler that a line reaches and the operand it
is given, for the lines of the calculator too: `Calc` is a line that reaches `calc` past all
other tests, and its operand stands for any of `Sums`. `add_history` keeps `SlotText`, the first
63 characters (`SlotLen`), while `entered` has the lines whole; `Kept` cuts them for the comparison. The calculator goes through `atoi`, the arithmetic of a machine word
and `itoa` with its digits; a division the processor refuses is an exception, after
which the kernel is halted (the module deadlocks there, as the machine does).

## 3. Runs

| Run | Instance | What it shows |
|---|---|---|
| `files_and_power_loss` (`FS_store.cfg`) | 2 files, 4 slots of which 2 are saved, 2 sectors of 2 bytes per file, texts of 0, 2 and 3 bytes, phantom entry | `ImplementsFileStore`, `SavedIsDurable`, `OneEntryPerFile`, `MoveDelivers`, `DiskAgrees` |
| `directories` (`FS_dirs.cfg`) | the names `d`, `d/d`, `/d`, `d/` and `..`, a file with the name of a directory, 2 slots of which 1 is saved, paths of up to 4 tokens | `current_directory` is a stack of components, `strcat` runs no two names together, `cd ..` takes back one component, a write is read back although names are shared |
| `table_overflow` (violation) | 3 files, 2 saved slots | finding 1 |
| `ata_transfers` (`Ata.cfg`) | sectors 1 and 256, 2 words each, commands that may be refused | atomic sectors; loops end unless refused |
| `ata_write_error` (violation) | the same, and writes that fail at the end | finding 2 |
| `user_database` (`Users.cfg`) | 2 accounts of which one is the default, fields of up to 3 bytes, text of up to 10 | saved is loaded; what an interrupted save can damage |
| `keyboard_and_editor` (`Session.cfg`) | 3 characters, buffer of 5 bytes with 3 contents, 3 torn texts or none on the disk, two shift and two ctrl keys | saved is typed, no stuck shift, the flag of ctrl leaves its keys only at a login or when one of two is released, fields |
| `log_and_table` (`Memory.cfg`) | 5 lines of 3 bytes, 4 entries of 5 bytes over a sector of 8, up to 10 messages | the dump is recent and in order; which lines of the log a save damages; no entry made of log lines gets to the disk |
| `interrupts` (`Interrupts.cfg`) | `tick` modulo 16, periods of 2 and 5 ticks, 3 interrupts per pass | no interrupt too early, display fresh over the wrap of `tick`, ticks are served, `hlt` resumes |
| `clock` (`Rtc.cfg`) | 5 moments before a carry, 2 seconds that pass during the reads, 2 pauses, of up to a day each | time and date of Dhaka; `uptime` within and beyond a day |
| `terminal` (`Screen.cfg`) | 3 columns, 5 rows, lines of up to 4 characters | cursor on the screen, line shown, nothing behind the cursor |
| `shell` (`Shell.cfg`) | 39 lines: every command of the help text, aliases, words that are no command; 16 sums on the edges of an int of 8 bits, a history of 3 lines of 7 characters | each command of the help text but `rmdir` reaches its handler; history; calculator |

**Bounds, and why they are enough.** `MaxFiles`, `PersistedSlots` and the sector
sizes enter the code only through comparisons and `slot * 4 + s`, so that what
matters is that there are entries on either side of `PersistedSlots`, files of
no sector, of a full and of a half-filled last sector, and a file that shrinks and
one that grows. 4 slots with 2 saved stand for 16 with 6. In the store run
`MaxCwd` is 1 because lookups ignore paths; in the directory run 4 tokens
are two levels with and without the extra slash, and one with a slash doubled by a name. The number of boots, losses of
power and commands is not bounded. In `Users` an account before and one after the
one that changes are what the properties tell apart; the default account is one
of them; the text of two long accounts does not fit. In `Session` the fields and
the line hold one character, because only their lengths matter; the line's
bound `MaxLine` is the model's, the code has none. In `Ata` the two sectors
differ in the second LBA register only, and the two buffers in every byte order.
`KernelMemory` has the proportions of the real memory: one whole entry and the
first fields of a second fit in the sector, lines lie under and behind the table,
and the boot leaves letters where two entries have their used flag; `MaxWritten`
lets the ring wrap twice. In `Interrupts` `TickMod` is small so that `tick` wraps
again and again, and `PeriodAssumption` keeps it above a period and the
interrupts of two passes, as 2^32 is; `MaxGap` says that a pass of a polling
loop takes less time than so many interrupts need. `Rtc` starts at moments just
before a carry of seconds, minutes, hours, days, months and years, since in
between nothing but the seconds changes; two seconds are more than a read takes.
`Screen` has every combination of last column and last row within two lines of
typing. In `Shell` the word has 8 bits: 100+28, 128/255 and the others are what
2147483647+1 and 2147483648/4294967295 are to 32; and of the lines, `shutdown`, `useradd x` and `passwd x`
are longer than a slot, which loses their end, and the others are not.

**Fairness.** In `Ata` driver and drive are each weakly fair: the processor executes the polling
loop, and a drive ends every command, with data or with an error. The user, the
loss of power and the boot have no fairness. In `Interrupts` the handler, the
delivery of the timer's line and the thread's steps are each weakly fair, since
the processor always executes something, and the timer, once programmed, raises
its line for ever; keys, commands and exceptions have no fairness. All other
properties are safety.

**What the passing runs say.** With at most `PersistedSlots` files and no
directories, 323FS is a store in which creation, removal and format are atomic, a
move loses nothing, and an overwrite that is interrupted can tear the text it
overwrites and no other. A save of the accounts that is interrupted damages no
account before the one that changes, and a new account appears as a whole or not
at all. The editor's reliance on a NUL it does not write is harmless: what is
saved is what was typed, except on a text that a loss of power has torn.

The memory behind `sector_buffer` is a bug that stays within bounds: a boot reads
log lines as entries, but none of them is among the entries that a save writes to
the disk, and a save writes the same bytes back, so that the log of the boot is
damaged only once an entry from the seventh on is used. `tick` may be read again
after each comparison without making the display stale. A command of the help
text reaches its own handler, except `rmdir`.

**Findings** (the violation runs; each refutes a sentence of the repository):

1. `filesystem.c:90`: sixteen entries of 88 bytes do not fit in sector 0; the
   entries from the seventh on are gone after a boot. (`filesystem.h:8`,
   `DISK_STORAGE.md:44-47`)
2. `ata.c:83`: a write that fails after its data were taken is reported as done.
   (`ata.c:60`, `ata.c:82`)

**Known deviations.** These hold by the code, and passing properties say exactly how
far they go, or the models contain them. Two of them contradict a sentence of the repository, the help
text: that of `rmdir` and that of `uptime`.

* `filesystem.c:27`: `cd ..` leaves the slash, `/a/b` becomes `/a/`; what is created
  there is not listed together with the entries of `/a` (`PathsWellFormed`
  has such paths). A new `cd` adds no second slash (`CwdIsAStack`).
* `filesystem.c:207`: a name may hold slashes. After `mkdir a/b`, `cd a/b` and `cd ..` from `/` lead to
  `/a/` and not back to `/`, although no directory `a` exists: `cd ..` takes one component, not one `cd`
  (`UpUndoesDown` says where it leads, `CwdIsAStack` what it takes). After `mkdir /a`, `cd /a` gives `//a`,
  with an empty component, and only there (`CwdIsAStack`). After `mkdir ..` there is a
  directory that cannot be entered (`Enterable`).
* `filesystem.c:231`: `mv f f` deletes f and reports success (`MoveDelivers` makes
  the exception).
* `filesystem.c:88`: once an entry that lies behind the sector was changed, saves
  damage the first lines of the log (`LinesAreKept`, `BootLinesSurvive`), although
  `logger.c:6` calls it a circular buffer that stores logs.
* `logger.c:38`: after exactly 20 messages `klog_dump` prints nothing
  (`DumpIsRecent` makes the exception).
* `kernel.c:684`: of a text that a loss of power has torn, the editor shows what is
  before the NUL, but types behind the size: what is typed is dropped by the save, and
  each backspace takes one byte of what was shown (`SavedIsTyped`, with `hidden`).
* `kernel.c:1120`: a ctrl key released at the login prompt stays pressed, and an s
  saves and leaves the editor (`CtrlStaysInStep`: at no other place).
* `kernel.c:655`, `695`, `1189`: the left and the right ctrl key have one flag. With both held, the
  release of one clears it, and the other is held without effect until it is pressed again
  (`CtrlStaysInStep` makes the exception). The same of the two shift keys.
* `kernel.c:885`: `useradd` takes a colon in a name, which ends the name in `users.db`: the
  account `a:b` comes back from a boot as `a` (the hypothesis `PlainNames` of the theorems about `Users`).
* `kernel.c:922`: `rmdir d` reaches `rm` and looks for a file called `dir d`, although help
  lists "rmdir   - remove an empty directory" (`kernel.c:802`); the test at `kernel.c:1004` is never
  true (`EveryCommandIsReached` says which handler and operand it gets). Prefixes are
  not followed by a blank: `catalog` is `cat alog`.
* `kernel.c:1050`: `calc 5 % 0` prints `Div 0` and then `Result: 0`;
  `calc 2147483648 / 4294967295` is the least integer by -1, an exception, and the
  kernel halts (`OnlyOverflowHalts`); `itoa` of the least integer prints `-(`.
* `kernel.c:639`: the history is shown in the order of its slots, with the lines of
  earlier sessions (`HistoryIsARotation`), and without what lies behind the 63rd character of a line
  (`kernel.c:635`).
* `kernel.c:180`: `uptime` starts again every 24 hours, although help calls it "time since
  boot" (`kernel.c:794`) and `kernel.c:190-194` print a number of days: that branch is dead
  (`UptimeForgetsDays`). And after a boot whose read of the
  hour was torn to 29 it prints negative numbers (`UptimeIsNotNegative` makes
  the exception). The clock and the date are torn if they are read over a carry
  (`TimeIsOfDhaka`, `DateIsOfDhaka`).
* `display.c:73`: a backspace in column 0 takes the character away from the line and
  leaves it on the screen; `display.c:88`: what was on the screen is cleared when
  the bottom is reached, the line of the user included; text in the last row is
  overwritten by the next footer (`LineIsShown` makes the three exceptions).
* `kernel.c:265`: after a shutdown of a machine that stays on, the next tick resumes
  the kernel and the prompt comes back (`HltResumes`).

## 4. Proofs

All theorems hold for every value of the constants that satisfies the named
assumptions of the module; TLC evaluates these on every run.

* **`FileSystemProofs`**: `TypeCorrect`, `ExtentsKept`, `DiskAgreement`, `WellFormedPaths`,
  `UpAfterDownIsHome`. The type invariant
  is not inductive: that a device write stays within the data sectors needs to
  know where the file of the job starts, and that a read is within the disk needs
  the same of every entry that has a size. The strengthening `Inv` adds: every
  used file of the table, and of the table a boot would make, starts at the
  extent of its slot (`SoundTable`), the job belongs to an entry of the table and
  has a sector left to write (`JobOK`), and between commands table and disk agree
  (`DiskOK`). One lemma per action; the lemmas about `SectorInRange`,
  `SectorsNeededType` and `ChunkType` carry the arithmetic. For the paths, `PathInv`
  has to speak of the entries on the disk and of the garbage of a boot too. `Parent`
  cuts at the last slash; where that is in a well-formed path is found as the
  greatest element of a finite set. That `cd ..` takes back the last component of a name with slashes of its own
  follows from where the last slash is: in the name (`ParentOfSlash`, `AboveCut`), or the one that `Join` put
  or found before it (`ParentOfName`). `ExtentsKept` says what the types do not: every sector that is
  written or read lies in the extent of the file's slot (`AccessesInExtent`).
* The same module, about what 323FS promises of its files, in this order:
  * `OneEntry`: the strengthening `Unique` says it of the table *and* of the table
    that a boot would make, since `PowerOff` may come between the writes. It is
    assumed that no file is named like a directory: with a shared name
    `fs_mkdir` makes a second entry.
  * `WriteReadBack`, `MoveDelivered`: `Written` says, sector by sector, what of the
    text of the job is on the disk, and the lemmas about `Padded` and `Chunk` that
    the sectors read one after the other and cut at the size give the text back.
  * `SavedInSectorZero`, and from it `SavedDurable`, under the assumption `Room`:
    no directories, and at most `PersistedSlots` file names. A free slot that is
    saved then exists by a pigeonhole argument over the entries that are saved
    (`FilesFirst`), and `First` takes it. The run `table_overflow` shows that the
    assumption is needed; it is not one of the code, but the limit of what the code can keep.
  * `StoreRefinement`, under `Room`: each action of `FileSystem` is a step of `FileStore`, or
    leaves `store` and the operation in flight alone. The invariant
    `StoreInv` is the conjunction of all of the above with `OwnSlot`: until the
    table is saved, the entry of the file being written is on the disk a free one
    or has the same name, so that the data sectors of no other file are touched.
* **`AtaProofs`**: `TypeCorrect`, `SectorRefinement`, `ReturnedIsOnMedium`. The invariant
  relates the driver's program counter to the state of the drive (`CallOK`), and
  says how far the words in the drive's buffer and in the caller's agree
  (`ProgressOK`); `Inv` is inductive with any faults. The two theorems about the
  medium assume `"flush" \notin Faults`, that no write fails after its
  data were taken: the run `ata_write_error` shows that the driver does not
  notice such a failure.
* **`KernelMemoryProofs`**, about `Logger`: `TypeCorrect` and `DumpCorrect`. The invariant says of every
  line how many messages ago it was written (`Back`), and that the head is the
  number of messages until the ring is full; `Remainder` reduces `%` to a
  comparison.
* About `KernelMemory`: `LinesKept`, `DumpIsOfMemory`, `BootSurvives`,
  `NoPhantom`. `DumpIsOfMemory` joins the two layers: its steps are steps of `Logger` (`MemoryLogs`), so that the ring is in order, and by
  `LinesKept` each line that no save has run over (`Intact`) reads in memory as the ring has it. The properties of the lines are not inductive, since they speak of the text of a
  line and the steps change bytes. `Kept` says by the numbers of the messages which
  of them stand in the memory, through `Shows` (the bytes of a line are those of a
  text); `BootKept` adds for the lines of the boot that a save now would write back
  what stands there (`WritesBack`, `SameLine`). Both rest on two lemmas about the layout: tables
  that differ only in entries that fit in sector 0 are saved as the same bytes on the
  lines (`SaveInSector`), and a table that was loaded from
  the memory and saved again leaves every byte as it was (`LoadWritesBack`), for every size of
  entry, sector and line, wherever an entry crosses a line. `NoPhantom`
  is proved as a statement about the table (`Clean`) and one about sector 0 of the disk
  (`CleanDisk`): a load and a save carry one to the other where an entry has its name
  and its used flag in that sector.
* **`SessionProofs`**, about `Editor`: `TypeCorrect`, `BufferCorrect`, `SaveCorrect`. The
  invariant is the type invariant with `BufferIsTyped`. Since `typed` holds no
  NUL, `strlen` is at least its length (`LengthAtLeast`), so that a backspace cuts
  at its last byte or behind it (`CutBehind`), and after `buffer[idx] = 0` it is
  exactly its length (`SaveText`). Unless the text was torn (`hidden`), that length
  is `idx`. This is for every buffer size, stack content and text on the disk,
  where TLC has 5 bytes, three contents and three torn texts.
* About `Session`: every step of the loops is a step of `Editor` or leaves it
  alone (`SessionRunsEditor`), which carries `SaveCorrect` over
  (`SessionSaves`); `SessionTypeCorrect`, whose inductive part is that a help
  page is pending exactly while the help loop runs; `ShiftCorrect`; and the action
  property `CtrlCorrect`.
* **`InterruptsProofs`**: `NoStray` and `Fresh`. `BootOK` is the progress of the boot, with
  the gates and handlers each of its steps has installed. For the display, the age of what is drawn is the
  difference of `tick` and the last value, or that and one turn of `tick` (`Since`), and it is
  bounded by where the thread stands: before it looks, between comparison and assignment, or in the rest of its
  pass, with an interrupt in flight counted once (`SpinOK`, `SecOK`).
  `PeriodAssumption` is used where `tick` wraps.
* **`RtcProofs`**: `TimeCorrect`, `DateCorrect`, `UptimeCorrect`, `UptimeSign`. Three layers. The
  calendar: `AfterOne` adds seconds up over midnight, `NextDateType` keeps dates dates. The reads:
  while no digit but the last has changed since an operation began (`Tens`), or not the
  hour (`HourOf`), two BCD values of a register differ in the low half at most, so
  that either of them supplies either half (`BcdBack`, `ReadSecond`). The conversions: `TimeConverts`,
  `DateConverts` for every date, `UptimeConverts` modulo a day, of which no whole day is left to print. The invariant has, besides what was
  read so far (`ReadOK`) and the time since the operation began (`ClockOK`), the
  second `o` of the day at which the kernel booted, on which the clock and `boot_time`
  must agree (`OriginOK`): that is what makes `uptime` right after any number of
  days. `ClockAssumption` says that one operation does not take longer than a day.
* **`UsersProofs`**: `TypesAreCorrect`, `NoGapInTable`, `SavedAccountsAreLoaded`, `UserAddIsAtomic`,
  `PasswdKeepsTheAccount`. Two layers. The text: a turn of the parser takes back what
  `Line` wrote (`ParseLine` on a whole line, on one that is cut in the name, and on one that is cut in
  the password), so that a text that `save_users_to_disk` wrote, cut anywhere, gives the accounts
  whose lines are whole and at most one more, which has its name or a first part of it, and
  a first part of its password. The state: `UsersInv` says that the accounts fill the table from its start,
  and that a write in progress knows what is on the disk (`OnDisk`) and what is in memory
  (`InTable`); `PlainInv` that no name of the table holds the byte that ends a name.
  `TypesAreCorrect` and `NoGapInTable` have no hypothesis. The other three have `PlainNames`, that no name given to
  `useradd` holds a colon: the code takes one, and a name `a:b` is read back as
  the name `a` with a password that begins with `b`. No hypothesis is needed for texts written to `users.db` by the
  editor, since a parser that stops at a colon finds none in a name.
* **`ConsoleProofs`**, about `Screen`: `CursorIsOnScreen`, `ScreenShowsLine`,
  `NothingBehindCursor`, for every geometry with two rows or more between the start of the work space and the footer. `ScreenInv` is
  inductive: the terminal is sound (`SoundTerms`: the cursor where the hardware has it, blanks behind it outside the
  footer), the line starts below the header, and every one of its characters stands at its place
  (`Follows`), which is that of `Places`, or the line is spoilt. `terminal_putc` is shown case by case to keep a sound
  terminal sound and to track one more character (`TracksStep`); a text is then
  an induction over its characters, and an overlay touches only the first and the last row.
* About `Shell`: `HistoryCorrect`, `HistoryRotates`, `HaltsCorrect`, `CalcCorrect`. For the history
  the invariant adds to `HistoryIsRecent` that before the first lap the slots are
  filled from the first one (`FirstLap`), without which the empty slots could lie between the
  lines; the slots in their order are then the lines, rotated, and empty slots behind
  them (`RingIsRotation`, `NonEmptyPrefix`). All of this is about the lines as the slots keep them:
  `KeptAfter` says that to cut a longer list of lines is to lengthen the list of cut lines. What
  `SlotText` cuts is never looked at, so that it holds for every length of a slot. For the calculator, a number that fits an int is not changed by
  `atoi` (`WrapKeeps`), and the digits that `itoa` finds, reversed, give the number
  back (`DigitsGiveNumber`). `ShellAssumption` has the numbers of a sum in `Nat`, since the code reads
  digits only. `EveryCommandIsReached` is about prefixes of strings and stays with TLC.

The texts, the turns of the parser and the digits are recursive functions. The induction
rules of the library take an operator as a parameter, so that each module derives from the
well-foundedness of `<` on the naturals what it needs of induction, for sets instead of operators:
a set of naturals that is not empty has a least element (`LeastElement`), so that a set with 0 that is closed
under successor holds `0 .. n` (`Induction`), and every step function can be iterated n times
(`Iteration`), from which follow existence and type of the functions that the modules define.

Only model-checked, and why:

* liveness, which needs `ENABLED`: `CallsEnd`, `TicksAreServed`, `HltResumes`;
* `EveryCommandIsReached`: strings and their prefixes are opaque to the provers;
* `CwdIsAStack`: the components are numbered by cardinalities; what is proved of `cd ..` is `UpUndoesDown`;
* that the durability of files and the refinement of `FileStore` need no more than `Room`, and that of
  `SectorStore` no more than `"flush" \notin Faults`: by the two violation runs.

## 5. Not modelled, and why

* Listings (`ls`, `tree`, `df`, `users`) and the commands that print constants
  (`top`, `free`, `ps`, `whoami`, `sysinfo`, `memdump`): they change no state but the log. `fs_check_permission` is never called; owner and
  permissions are written and never read.
* `fs_rmdir` is an action of `FileSystem` although the shell never reaches it:
  `execute_command` tests the prefix `rm` first, and `rmdir d` deletes a file
  called `dir d`. What it calls empty (no entry with the same *path*, `filesystem.c:284`) is
  therefore of no consequence, and no property is about it.
* Names, passwords and lines longer than their buffers: the code has no bounds
  there, and what happens depends on the layout of the build.
* The shifts that a keyboard fakes around extended keys, and reads during the update of the CMOS clock
  (2.4, 2.7).
* That a device write returns: `FileSystem` takes it for granted, and `CallsEnd` of `Ata` says when the driver's loops end.
* The start-up code, the RAM disk, the process table (see the inventory).

## 6. Plan

Done, in this order: `FileSystem` with `FileStore`, its proofs; `Logger` and its
proofs; `Ata` with `SectorStore`; `Users`; `Editor` and `Session` with proofs;
`KernelMemory`; `Interrupts`; `Rtc`; `Screen`; `Shell`.

Proved since: the paths, the promises of the files and the refinement of
`FileStore`; the refinement of `SectorStore`; the memory shared by table and log;
`Interrupts`; `Rtc`; `Users`; `Screen`; history and calculator of the shell.

To model: the relation of `current_directory` to the tree.
