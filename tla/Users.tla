-------------------------------- MODULE Users ---------------------------------
(***************************************************************************)
(* The user database of kernel.c: the table `users` in memory, its text    *)
(* form in the file users.db, and what becomes of it when the power fails. *)
(* users.db is written by fs_write_file, first its sector, then the table  *)
(* that holds its size; here it is one file of one sector, in an entry     *)
(* that reaches the disk.                                                  *)
(***************************************************************************)
EXTENDS Integers, Sequences, FiniteSets

CONSTANTS
  Usernames,    \* names given to useradd
  Passwords,    \* passwords given to useradd and passwd
  DefaultUser,  \* the account admin / 1234
  EditedTexts,  \* what edit or cp can make of users.db
  Colon, Newline, Zero,
  Letters,      \* every other byte
  MaxUsers,     \* 10
  FieldLen,     \* 31: the longest name or password that is loaded
  DbLimit,      \* 510: the longest text that is saved
  SectorSize    \* 512

Indices  == 0 .. MaxUsers - 1
Bytes    == Letters \cup {Colon, Newline}
Fields   == UNION {[1 .. n -> Bytes] : n \in 0 .. FieldLen}
Accounts == [username : Fields, password : Fields]

Without(byte, s) == \A j \in DOMAIN s : s[j] # byte

ASSUME UsersAssumption ==
  /\ MaxUsers \in Nat \ {0}
  /\ FieldLen \in Nat \ {0}
  /\ SectorSize \in Nat /\ DbLimit \in Nat \ {0} /\ DbLimit = SectorSize - 2
  /\ Colon # Newline /\ Colon \notin Letters /\ Newline \notin Letters /\ Zero \notin Bytes
  /\ Usernames \cup Passwords \subseteq Fields \ {<<>>}
  /\ \A s \in Usernames \cup Passwords : Without(Newline, s)  \* the key that ends a line
  /\ DefaultUser \in Accounts /\ DefaultUser.username # <<>>
  /\ Without(Colon, DefaultUser.username) /\ Without(Newline, DefaultUser.password)
  /\ EditedTexts \subseteq Seq(Bytes) /\ \A t \in EditedTexts : Len(t) < SectorSize

VARIABLES
  phase,         \* "off", "boot", "login" or "session"
  users,         \* the table
  current_user,  \* the name of the account that is logged in
  db,            \* users.db on the disk: its sector, and its entry in the table
  job            \* the file write in progress

vars == <<phase, users, current_user, db, job>>

NoUser == [active |-> FALSE, username |-> <<>>, password |-> <<>>]
User(account) ==
  [active |-> TRUE, username |-> account.username, password |-> account.password]

Active(us)   == {i \in Indices : us[i].active}
First(S)     == CHOOSE i \in S : \A j \in S : i <= j
Named(us, n) == {i \in Active(us) : us[i].username = n}

NoJob == [stage |-> "idle", kind |-> "none", text |-> <<>>, new |-> FALSE, was |-> <<>>]

-----------------------------------------------------------------------------
(* users.db as text.                                                       *)

\* Mutant: no newline at the end of a line.
LineOpen(u) == u.username \o <<Colon>> \o u.password
Line(u) == u.username \o <<Colon>> \o u.password \o <<Newline>>

\* save_users_to_disk: a line per active user, cut where the buffer is full.
Lines(us) ==
  LET upto[n \in 0 .. MaxUsers] ==
        IF n = 0 THEN <<>>
        ELSE upto[n - 1] \o (IF us[n - 1].active THEN Line(us[n - 1]) ELSE <<>>)
  IN  upto[MaxUsers]
TextUncut(us) == Lines(us)  \* mutant
Text(us) ==
  IF Len(Lines(us)) > DbLimit THEN SubSeq(Lines(us), 1, DbLimit) ELSE Lines(us)

\* The field that starts at p ends before a stop byte, at the end of the text,
\* or after FieldLen bytes.
FieldEndShort(text, p, stop) ==  \* mutant: one byte less
  First({e \in p .. p + FieldLen - 1 :
           e > Len(text) \/ e = p + FieldLen - 1 \/ text[e] \in {stop, Zero}})
FieldEnd(text, p, stop) ==
  First({e \in p .. p + FieldLen :
           e > Len(text) \/ e = p + FieldLen \/ text[e] \in {stop, Zero}})
Skip(text, p, byte) == IF p <= Len(text) /\ text[p] = byte THEN p + 1 ELSE p

\* A turn of the loop of load_users_from_disk; a line without a name is skipped.
ParseLine(text, s) ==
  IF s.at > Len(text) \/ text[s.at] = Zero \/ Len(s.found) = MaxUsers THEN s
  ELSE LET nameEnd == FieldEnd(text, s.at, Colon)
           pass    == Skip(text, nameEnd, Colon)
           passEnd == FieldEnd(text, pass, Newline)
       IN  [at    |-> Skip(text, passEnd, Newline),
            found |-> IF nameEnd = s.at THEN s.found
                      ELSE Append(s.found, [username |-> SubSeq(text, s.at, nameEnd - 1),
                                            password |-> SubSeq(text, pass, passEnd - 1)])]

\* load_users_from_disk: every turn but the idle ones at the end takes a byte.
Parse(text) ==
  LET turn[n \in 0 .. Len(text)] ==
        IF n = 0 THEN [at |-> 1, found |-> <<>>] ELSE ParseLine(text, turn[n - 1])
  IN  turn[Len(text)].found

\* The text a boot reads, and the accounts it makes of it.
Stored(d)   == SubSeq(d.sector, 1, d.size)
Reloaded(d) == IF d.present THEN Parse(Stored(d)) ELSE <<DefaultUser>>

Loaded(accounts) ==
  [i \in Indices |-> IF i < Len(accounts) THEN User(accounts[i + 1]) ELSE NoUser]

PaddedDirty(text) ==  \* mutant: the buffer is not cleared
  [j \in 1 .. SectorSize |-> IF j <= Len(text) THEN text[j] ELSE CHOOSE b \in Letters : TRUE]
Padded(text) ==
  [j \in 1 .. SectorSize |-> IF j <= Len(text) THEN text[j] ELSE Zero]

-----------------------------------------------------------------------------
(* Boot and login.                                                         *)

Init ==
  /\ phase = "off"
  /\ users = [i \in Indices |-> NoUser]
  /\ current_user = <<>>
  /\ db = [present |-> FALSE, size |-> 0, sector |-> Padded(<<>>)]
  /\ job = NoJob

\* Mutant: the table is saved before the data.
TableFirst == "table"
FirstStage == "data"

\* fs_write_file("users.db", text, Len(text)).
Save(kind, text) ==
  job' = [stage |-> FirstStage, kind |-> kind, text |-> text,
          new |-> ~ db.present, was |-> IF db.present THEN Stored(db) ELSE <<>>]

\* init_users, load_users_from_disk: without the file, a default account, which
\* is saved.
Boot ==
  /\ phase = "off"
  /\ users' = Loaded(Reloaded(db))
  /\ IF db.present
       THEN phase' = "login" /\ UNCHANGED job
       ELSE phase' = "boot" /\ Save("add", Text(users'))
  /\ UNCHANGED <<current_user, db>>

VerifyLogin(n, p) == \E i \in Named(users, n) : users[i].password = p

Login(n, p) ==
  /\ phase = "login"
  /\ VerifyLogin(n, p)
  /\ phase' = "session"
  /\ current_user' = n
  /\ UNCHANGED <<users, db, job>>

Ready == phase = "session" /\ job = NoJob

Logout ==
  /\ Ready
  /\ phase' = "login"
  /\ UNCHANGED <<users, current_user, db, job>>

-----------------------------------------------------------------------------
(* The commands passwd and useradd, and those that write or remove users.db *)
(* as a file.                                                              *)

Passwd(p) ==
  /\ Ready
  /\ Named(users, current_user) # {}
  /\ users' = [users EXCEPT ![First(Named(users, current_user))].password = p]
  /\ Save("passwd", Text(users'))
  /\ UNCHANGED <<phase, current_user, db>>

UserAdd(n, p) ==
  /\ Ready
  /\ Named(users, n) = {}
  /\ Active(users) # Indices
  /\ users' = [users EXCEPT ![First(Indices \ Active(users))] =
                 [active |-> TRUE, username |-> n, password |-> p]]
  /\ Save("add", Text(users'))
  /\ UNCHANGED <<phase, current_user, db>>

Edit(text) ==
  /\ Ready
  /\ Save("edit", text)
  /\ UNCHANGED <<phase, users, current_user, db>>

\* rm users.db, or format: the accounts in memory stay until the next boot.
Remove ==
  /\ Ready
  /\ db' = [db EXCEPT !.present = FALSE]
  /\ UNCHANGED <<phase, users, current_user, job>>

-----------------------------------------------------------------------------
(* The two device writes of fs_write_file.                                 *)

EndJob ==
  /\ job' = NoJob
  /\ phase' = IF phase = "boot" THEN "login" ELSE phase

WriteSector ==
  /\ job.stage = "data"
  /\ db' = [db EXCEPT !.sector = Padded(job.text)]
  /\ IF FirstStage = "data"
       THEN job' = [job EXCEPT !.stage = "table"] /\ UNCHANGED phase
       ELSE EndJob
  /\ UNCHANGED <<users, current_user>>

WriteTable ==
  /\ job.stage = "table"
  /\ db' = [db EXCEPT !.present = TRUE, !.size = Len(job.text)]
  /\ IF FirstStage = "data"
       THEN EndJob
       ELSE job' = [job EXCEPT !.stage = "data"] /\ UNCHANGED phase
  /\ UNCHANGED <<users, current_user>>

\* No entry is left for users.db; the result of fs_write_file is ignored.
NoRoom ==
  /\ job # NoJob /\ ~ db.present /\ job.stage = FirstStage
  /\ EndJob
  /\ UNCHANGED <<users, current_user, db>>

PowerOff ==
  /\ phase # "off"
  /\ phase' = "off"
  /\ users' = [i \in Indices |-> NoUser]
  /\ current_user' = <<>>
  /\ job' = NoJob
  /\ UNCHANGED db

Command ==
  \/ \E p \in Passwords : Passwd(p)
  \/ \E n \in Usernames, p \in Passwords : UserAdd(n, p)
  \/ \E text \in EditedTexts : Edit(text)
  \/ Remove
  \/ Logout

Next ==
  \/ Boot
  \/ \E i \in Active(users) : Login(users[i].username, users[i].password)
  \/ Command
  \/ WriteSector
  \/ WriteTable
  \/ NoRoom
  \/ PowerOff

Spec == Init /\ [][Next]_vars

-----------------------------------------------------------------------------
(* Properties.                                                             *)

TypeOK ==
  /\ phase \in {"off", "boot", "login", "session"}
  /\ users \in [Indices -> [active : BOOLEAN, username : Fields, password : Fields]]
  /\ current_user \in Fields
  /\ db.present \in BOOLEAN /\ db.size \in 0 .. SectorSize
  /\ db.sector \in [1 .. SectorSize -> Bytes \cup {Zero}]
  /\ job.stage \in {"idle", "data", "table"}
  /\ Len(job.text) < SectorSize

\* The accounts of the table, in the order in which they are saved.
Registered(us) ==
  LET upto[n \in 0 .. MaxUsers] ==
        IF n = 0 THEN <<>>
        ELSE upto[n - 1] \o
             (IF us[n - 1].active
              THEN <<[username |-> us[n - 1].username, password |-> us[n - 1].password]>>
              ELSE <<>>)
  IN  upto[MaxUsers]

FirstOf(s, n) == SubSeq(s, 1, n)

\* "User database: persists between reboots" (DISK_STORAGE.md): what passwd and
\* useradd have saved is what the next boot loads, every account whose line
\* fits in the 510 bytes, in the same order and with the same password.
SavedIsLoaded ==
  [][(job.kind \in {"add", "passwd"} /\ job' = NoJob /\ db'.present /\ phase' # "off")
     => \A n \in 0 .. Len(Registered(users)) :
          Len(Lines(Loaded(FirstOf(Registered(users), n)))) <= DbLimit
          => FirstOf(Reloaded(db'), n) = FirstOf(Registered(users), n)]_vars

\* The file held what save_users_to_disk writes for these accounts.
WasSaved(accounts) == ~ job.new /\ job.was = Lines(Loaded(accounts))

\* A loss of power in the middle of useradd leaves the accounts as they were,
\* or with the new one, and never half of it.
AddIsAtomic ==
  LET after  == Registered(users)
      before == FirstOf(after, Len(after) - 1)
  IN  (job.kind = "add" /\ phase = "session" /\ (job.new \/ WasSaved(before)))
      => Reloaded(db) \in {IF job.new THEN <<DefaultUser>> ELSE before, after}

\* A loss of power in the middle of passwd can damage the password that is being
\* changed and the accounts after it.  It damages no account before it, invents
\* none, and leaves the account with its name and with the old password or a
\* part of the new one, not with an empty password.
PasswdKeepsAccount ==
  job.kind = "passwd" =>
    LET new == Registered(users)
        old == Parse(job.was)
        now == Reloaded(db)
        k   == Cardinality({i \in Active(users) : i < First(Named(users, current_user))}) + 1
    IN  (/\ WasSaved(old) /\ Len(old) = Len(new)
         /\ \A n \in 1 .. Len(new) :
              IF n = k THEN old[n].username = new[n].username ELSE old[n] = new[n])
        => /\ Len(now) \in k .. Len(new)
           /\ FirstOf(now, k - 1) = FirstOf(new, k - 1)
           /\ now[k].username = current_user
           /\ \/ now[k].password = old[k].password
              \/ \E n \in 1 .. Len(new[k].password) :
                   now[k].password = FirstOf(new[k].password, n)

=============================================================================
