------------------------------- MODULE Session --------------------------------
(***************************************************************************)
(* The five loops of kernel.c that poll the keyboard: user name and        *)
(* password of kernel_main, its command line, help_wait_key and the        *)
(* editor.  Each has its own tests of the scancode, all share the flags    *)
(* shift_pressed and ctrl_pressed, and the user may hold a key while one   *)
(* loop hands over to the next.  The state of the editor is that of Editor.*)
(***************************************************************************)
EXTENDS Editor

CONSTANTS
  Keys,       \* the character keys, the S key among them
  SKey,       \* scancode 0x1F
  Plain(_), Shifted(_),  \* the rows lower and upper of scancode_to_ascii
  Newline,
  FieldLen,   \* 31: bytes of a user name or password
  MaxLine,    \* bound: longest command line; the code has none
  HelpPages   \* 3: how often help waits for a key

VARIABLES
  mode,           \* which loop polls
  page,           \* help: pages still to come
  held,           \* the modifier keys the user holds down
  shift_pressed, ctrl_pressed,
  buf_idx,        \* length of the name or password
  key_buffer      \* length of the command line

keyboard == <<held, shift_pressed, ctrl_pressed>>
session  == <<mode, page, keyboard, buf_idx, key_buffer, vars>>

ASSUME SessionAssumption ==
  /\ SKey \in Keys
  /\ Chars = {Plain(k) : k \in Keys} \cup {Shifted(k) : k \in Keys} \cup {Newline}
  /\ FieldLen \in Nat \ {0} /\ MaxLine \in Nat \ {0} /\ HelpPages \in Nat \ {0}

Modes == {"username", "password", "shell", "help", "editor"}

\* The right ctrl key sends the code of the left one behind an 0xE0, which every
\* loop ignores: two keys for one flag, like the two shift keys.
Ctrls  == {"left ctrl", "right ctrl"}
Shifts == {"left shift", "right shift"}
Modifiers == Ctrls \cup Shifts

SessionTypeOK ==
  /\ mode \in Modes
  /\ page \in 0 .. HelpPages /\ (page > 0) = (mode = "help")
  /\ held \subseteq Modifiers
  /\ shift_pressed \in BOOLEAN /\ ctrl_pressed \in BOOLEAN
  /\ buf_idx \in 0 .. FieldLen
  /\ key_buffer \in 0 .. MaxLine
  /\ open = (mode = "editor")
  /\ TypeOK

SessionInit ==
  /\ mode = "username"
  /\ page = 0
  /\ held = {}
  /\ shift_pressed = FALSE /\ ctrl_pressed = FALSE
  /\ buf_idx = 0
  /\ key_buffer = 0
  /\ Init

-----------------------------------------------------------------------------
(* Modifier keys.                                                          *)

\* The loops that look at a scancode.  Mutants: help_wait_key does not.
ShiftLoopsButHelp == Modes \ {"help"}
ShiftLoops == Modes
CtrlLoopsButHelp == {"shell", "editor"}
CtrlLoops  == {"shell", "help", "editor"}

Press(m) ==
  /\ m \notin held
  /\ held' = held \cup {m}
  /\ shift_pressed' = (shift_pressed \/ (m \in Shifts /\ mode \in ShiftLoops))
  /\ ctrl_pressed' = (ctrl_pressed \/ (m \in Ctrls /\ mode \in CtrlLoops))
  /\ UNCHANGED <<mode, page, buf_idx, key_buffer, vars>>

Release(m) ==
  /\ m \in held
  /\ held' = held \ {m}
  /\ shift_pressed' = (shift_pressed /\ ~ (m \in Shifts /\ mode \in ShiftLoops))
  /\ ctrl_pressed' = (ctrl_pressed /\ ~ (m \in Ctrls /\ mode \in CtrlLoops))
  /\ UNCHANGED <<mode, page, buf_idx, key_buffer, vars>>

\* scancode_to_ascii
Ascii(k) == IF shift_pressed THEN Shifted(k) ELSE Plain(k)

-----------------------------------------------------------------------------
(* Login.                                                                  *)

Login == mode \in {"username", "password"}

\* Mutant: <= in the test of buf_idx.
FieldRoomOff == buf_idx <= FieldLen
FieldRoom == buf_idx < FieldLen

FieldKey ==
  /\ Login
  /\ FieldRoom
  /\ buf_idx' = buf_idx + 1
  /\ UNCHANGED <<mode, page, keyboard, key_buffer, vars>>

FieldBackspace ==
  /\ Login
  /\ buf_idx > 0
  /\ buf_idx' = buf_idx - 1
  /\ UNCHANGED <<mode, page, keyboard, key_buffer, vars>>

\* Enter ends the name; the password is verified, and denied or accepted.
UsernameEnter ==
  /\ mode = "username"
  /\ mode' = "password"
  /\ buf_idx' = 0
  /\ UNCHANGED <<page, keyboard, key_buffer, vars>>

PasswordEnter(verified) ==
  /\ mode = "password"
  /\ mode' = IF verified THEN "shell" ELSE "username"
  /\ buf_idx' = 0
  /\ key_buffer' = 0
  /\ UNCHANGED <<page, keyboard, vars>>

-----------------------------------------------------------------------------
(* The command line.                                                       *)

LineKey ==
  /\ mode = "shell"
  /\ key_buffer < MaxLine
  /\ key_buffer' = key_buffer + 1
  /\ UNCHANGED <<mode, page, keyboard, buf_idx, vars>>

LineBackspace ==
  /\ mode = "shell"
  /\ key_buffer > 0
  /\ key_buffer' = key_buffer - 1
  /\ UNCHANGED <<mode, page, keyboard, buf_idx, vars>>

\* Enter: a command that ends at once, the empty line among them.
RunCommand ==
  /\ mode = "shell"
  /\ key_buffer' = 0
  /\ UNCHANGED <<mode, page, keyboard, buf_idx, vars>>

RunRemove ==
  /\ mode = "shell" /\ key_buffer > 0
  /\ key_buffer' = 0
  /\ UNCHANGED <<mode, page, keyboard, buf_idx>>
  /\ Remove

RunLogout ==
  /\ mode = "shell" /\ key_buffer > 0
  /\ mode' = "username"
  /\ buf_idx' = 0
  /\ UNCHANGED <<page, keyboard, key_buffer, vars>>

RunHelp ==
  /\ mode = "shell" /\ key_buffer > 0
  /\ mode' = "help"
  /\ page' = HelpPages
  /\ UNCHANGED <<keyboard, buf_idx, key_buffer, vars>>

RunEdit ==
  /\ mode = "shell" /\ key_buffer > 0
  /\ mode' = "editor"
  /\ \E g \in Garbage : Open(g)
  /\ UNCHANGED <<page, keyboard, buf_idx, key_buffer>>

-----------------------------------------------------------------------------
(* help_wait_key and the editor.                                           *)

HelpKey ==
  /\ mode = "help"
  /\ page' = page - 1
  /\ mode' = IF page' = 0 THEN "shell" ELSE "help"
  /\ key_buffer' = IF page' = 0 THEN 0 ELSE key_buffer
  /\ UNCHANGED <<keyboard, buf_idx, vars>>

\* Any character key; the S key saves when ctrl_pressed is set.
EditorKey(k) ==
  /\ mode = "editor"
  /\ ~ (k = SKey /\ ctrl_pressed)
  /\ UNCHANGED <<mode, page, keyboard, buf_idx, key_buffer>>
  /\ Type(Ascii(k))

EditorEnter ==
  /\ mode = "editor"
  /\ UNCHANGED <<mode, page, keyboard, buf_idx, key_buffer>>
  /\ Type(Newline)

EditorBackspace ==
  /\ mode = "editor"
  /\ UNCHANGED <<mode, page, keyboard, buf_idx, key_buffer>>
  /\ Backspace

SaveKey ==
  /\ mode = "editor"
  /\ ctrl_pressed
  /\ mode' = "shell"
  /\ Save \/ SaveFails
  /\ key_buffer' = 0
  /\ UNCHANGED <<page, keyboard, buf_idx>>

SessionNext ==
  \/ \E m \in Modifiers : Press(m) \/ Release(m)
  \/ FieldKey \/ FieldBackspace
  \/ UsernameEnter \/ \E verified \in BOOLEAN : PasswordEnter(verified)
  \/ LineKey \/ LineBackspace
  \/ RunCommand \/ RunRemove \/ RunLogout \/ RunHelp \/ RunEdit
  \/ HelpKey
  \/ \E k \in Keys : EditorKey(k)
  \/ EditorEnter \/ EditorBackspace \/ SaveKey

SessionSpec == SessionInit /\ [][SessionNext]_session
-----------------------------------------------------------------------------
(* Properties.                                                             *)

\* No shift is left behind when a loop hands over to another one: with no shift
\* key held, a key gives its plain character in every loop.  (The converse does
\* not hold: with both held, releasing one clears the flag.)
NoStuckShift == held \cap Shifts = {} => ~ shift_pressed

\* ctrl_pressed says whether a ctrl key is held.  The two fall apart in two ways
\* only: in the loops of the login, which do not look at ctrl (one that is
\* released there stays pressed, and a plain s in the editor then saves and
\* exits), and when one of two held ctrl keys is released, which clears the flag.
CtrlInStep == ctrl_pressed = (held \cap Ctrls # {})
CtrlStaysInStep ==
  [][CtrlInStep /\ ~ CtrlInStep' =>
       Login \/ (Ctrls \subseteq held /\ ~ ctrl_pressed')]_session
=============================================================================
