------------------------------ MODULE FileStore -------------------------------
(***************************************************************************)
(* What 323FS promises about the files of a disk, without slots, sectors   *)
(* or a table: a map from names to texts that survives a loss of power,    *)
(* and at most one update in flight.  The promise is weaker than that of a *)
(* transactional store in two ways, both visible below: a text that is     *)
(* being overwritten may be Torn, and a move is a copy followed by a       *)
(* removal.  Creating a file, and removing one, is atomic.                 *)
(***************************************************************************)
EXTENDS Integers, Sequences

CONSTANTS
  FileNames,  \* the names
  Texts,      \* the texts a user can write
  Zero,       \* the byte that stands where neither text reaches
  Absent,     \* what store holds for a name that is not there
  NoName      \* no source to remove

VARIABLES
  store,  \* what the next boot finds under each name
  op      \* the update in flight

NoOp == [stage |-> "none", name |-> NoName, content |-> <<>>, src |-> NoName]

Init ==
  /\ store = [n \in FileNames |-> Absent]
  /\ op = NoOp

Begin(n, text, src) ==
  /\ op = NoOp
  /\ op' = [stage |-> "write", name |-> n, content |-> text, src |-> src]
  /\ UNCHANGED store

Write(n, text) == Begin(n, text, NoName)

Create(n) ==
  /\ store[n] = Absent
  /\ Begin(n, <<>>, NoName)

Copy(m, n) ==
  /\ store[m] # Absent
  /\ Begin(n, store[m], NoName)

Move(m, n) ==
  /\ store[m] # Absent
  /\ Begin(n, store[m], m)

\* t mixes the old text with the new one: it is as long as the old text and
\* each byte comes from one of them, or is Zero past the end of the new one.
Torn(old, new, t) ==
  /\ DOMAIN t = DOMAIN old
  /\ \A i \in DOMAIN t :
       t[i] \in {old[i], IF i <= Len(new) THEN new[i] ELSE Zero}

Tear ==
  /\ op.stage = "write"
  /\ store[op.name] # Absent
  /\ Torn(store[op.name], op.content, store'[op.name])
  /\ store' = [store EXCEPT ![op.name] = store'[op.name]]
  /\ UNCHANGED op

Commit ==
  /\ op.stage = "write"
  /\ store' = [store EXCEPT ![op.name] = op.content]
  /\ op' = IF op.src = NoName THEN NoOp ELSE [op EXCEPT !.stage = "remove"]

RemoveSource ==
  /\ op.stage = "remove"
  /\ store' = [store EXCEPT ![op.src] = Absent]
  /\ op' = NoOp

Delete(n) ==
  /\ op = NoOp
  /\ store[n] # Absent
  /\ store' = [store EXCEPT ![n] = Absent]
  /\ UNCHANGED op

Format ==
  /\ op = NoOp
  /\ store' = [n \in FileNames |-> Absent]
  /\ UNCHANGED op

Crash ==
  /\ op' = NoOp
  /\ UNCHANGED store

Next ==
  \/ \E n \in FileNames :
       \/ \E text \in Texts : Write(n, text)
       \/ Create(n)
       \/ \E m \in FileNames : Copy(m, n) \/ Move(m, n)
       \/ Delete(n)
  \/ Tear
  \/ Commit
  \/ RemoveSource
  \/ Format
  \/ Crash

Spec == Init /\ [][Next]_<<store, op>>
=============================================================================
