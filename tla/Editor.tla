-------------------------------- MODULE Editor --------------------------------
(***************************************************************************)
(* start_editor_storage of kernel.c: a text buffer on the stack, of which  *)
(* only the first byte is initialized, and the index of the next byte.     *)
(* Typing writes no NUL, while backspace looks for one.  The text on the   *)
(* disk may be one that a loss of power has torn, and then holds a NUL     *)
(* before its end.                                                         *)
(***************************************************************************)
EXTENDS Integers, Sequences

CONSTANTS
  Chars,     \* what the keyboard can type
  NUL,
  Size,      \* 2048: bytes of the buffer
  Garbage,   \* what the stack may hold where the buffer is placed
  OnDisk,    \* texts that the kernel may find on the disk when it boots
  NoFile     \* the file does not exist

Limit   == Size - 2
Indices == 0 .. Size - 1
Texts   == UNION {[1 .. n -> Chars] : n \in 0 .. Limit}
\* What a file holds: a torn one has bytes of a shorter text and its padding.
Files   == UNION {[1 .. n -> Chars \cup {NUL}] : n \in 0 .. Limit}

ASSUME EditorAssumption ==
  /\ Size \in Nat /\ Size > 2
  /\ NUL \notin Chars
  /\ Garbage \subseteq [Indices -> Chars \cup {NUL}]
  /\ OnDisk \subseteq Files
  /\ NoFile \notin Files

VARIABLES
  open,    \* the editor runs
  buffer,
  idx,     \* index of the next byte
  typed,   \* history: the text as opened, up to a NUL, with what was typed since
  hidden,  \* history: there was such a NUL, and idx lies behind it: typing has no
           \*   effect on what is saved
  file     \* the file that is edited

vars == <<open, buffer, idx, typed, hidden, file>>

TypeOK ==
  /\ open \in BOOLEAN
  /\ buffer \in [Indices -> Chars \cup {NUL}]
  /\ idx \in 0 .. Limit
  /\ typed \in Texts
  /\ hidden \in BOOLEAN
  /\ file \in Files \cup {NoFile}

Blank == [k \in Indices |-> NUL]

Init ==
  /\ open = FALSE
  /\ buffer = Blank
  /\ idx = 0
  /\ typed = <<>>
  /\ hidden = FALSE
  /\ file \in OnDisk \cup {NoFile}

\* buffer[0] = 0, then fs_read_file, which ends the text with a NUL.
Filled(g, text) ==
  [k \in Indices |->
     IF k < Len(text) THEN text[k + 1] ELSE IF k = Len(text) THEN NUL ELSE g[k]]

\* How many bytes a text has before its first NUL.
Front(text) ==
  {n \in 0 .. Len(text) : /\ n = Len(text) \/ text[n + 1] = NUL
                          /\ \A j \in 1 .. n : text[j] # NUL}

\* The index is the size of the file, whatever its bytes are.
Open(g) ==
  LET text == IF file = NoFile THEN <<>> ELSE file IN
  /\ ~ open
  /\ open' = TRUE
  /\ buffer' = Filled(g, text)
  /\ idx' = Len(text)
  /\ \E n \in Front(text) :
       /\ typed' = [j \in 1 .. n |-> text[j]]
       /\ hidden' = (n < Len(text))
  /\ UNCHANGED file

Type(c) ==
  /\ open
  /\ idx < Limit
  /\ buffer' = [buffer EXCEPT ![idx] = c]
  /\ idx' = idx + 1
  /\ typed' = IF hidden THEN typed ELSE Append(typed, c)
  /\ UNCHANGED <<open, hidden, file>>

\* strlen(buffer); empty when no byte of the buffer is NUL and strlen reads on
\* behind it.
Length(b) == {n \in Indices : b[n] = NUL /\ \A k \in 0 .. n - 1 : b[k] # NUL}

\* idx--, and backspace(buffer), which cuts at strlen and not at idx.  Without a
\* NUL in the buffer the cut is its last byte or a byte behind it.
Cuts(b) ==
  IF Length(b) # {} THEN {[b EXCEPT ![n - 1] = NUL] : n \in Length(b) \ {0}}
  ELSE {b, [b EXCEPT ![Size - 1] = NUL]}

Backspace ==
  /\ open
  /\ idx > 0
  /\ buffer' \in IF Cuts(buffer) = {} THEN {buffer} ELSE Cuts(buffer)
  /\ idx' = idx - 1
  /\ typed' = SubSeq(typed, 1, Len(typed) - 1)
  /\ hidden' = (hidden /\ idx > 1)
  /\ UNCHANGED <<open, file>>

\* Mutant: no NUL is written at idx.
Unended == buffer
Ended == [buffer EXCEPT ![idx] = NUL]

\* buffer[idx] = 0, and storage_write of what strlen finds.
Save ==
  /\ open
  /\ open' = FALSE
  /\ \E n \in Length(Ended) : file' = [j \in 1 .. n |-> Ended[j - 1]]
  /\ buffer' = Blank /\ idx' = 0 /\ typed' = <<>> /\ hidden' = FALSE

\* fs_write_file finds no entry for a new file: the text is lost.
SaveFails ==
  /\ open
  /\ file = NoFile
  /\ open' = FALSE
  /\ buffer' = Blank /\ idx' = 0 /\ typed' = <<>> /\ hidden' = FALSE
  /\ UNCHANGED file

\* The other commands that change the file.
Remove ==
  /\ ~ open
  /\ file' = NoFile
  /\ UNCHANGED <<open, buffer, idx, typed, hidden>>

Next ==
  \/ \E g \in Garbage : Open(g)
  \/ \E c \in Chars : Type(c)
  \/ Backspace
  \/ Save
  \/ SaveFails
  \/ Remove

Spec == Init /\ [][Next]_vars
-----------------------------------------------------------------------------
(* Properties.                                                             *)

\* Whatever the stack held, the bytes before idx are the text the user has
\* typed, and backspace, which cuts at a NUL that typing does not maintain,
\* never cuts into them. Of a torn text only the bytes before its NUL are left,
\* and idx is behind it.
BufferIsTyped ==
  open =>
    /\ \A k \in 1 .. Len(typed) : buffer[k - 1] = typed[k]
    /\ IF hidden THEN idx > Len(typed) /\ buffer[Len(typed)] = NUL ELSE idx = Len(typed)

\* "Press 'Ctrl+S' to Save & Exit": the file holds exactly what was typed.  Of a
\* torn text it holds what was before the NUL, shortened by every backspace, and
\* nothing that was typed, until backspaces have taken idx back to 0.
SavedIsTyped == [][Save => file' = typed]_vars
=============================================================================
