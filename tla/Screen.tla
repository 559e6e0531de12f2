-------------------------------- MODULE Screen --------------------------------
(***************************************************************************)
(* The VGA text terminal (drivers/display.c) and what the kernel draws on  *)
(* it (kernel/kernel.c): prompts, typed lines, the output of commands, the *)
(* editor, and the overlays of the main loops: the clock in the first row  *)
(* and the footer in the last.  Colours are left out.                      *)
(***************************************************************************)
EXTENDS Integers, SequencesExt

CONSTANTS
  Width, Height,  \* 80 columns, 25 rows
  WorkTop,        \* 5: the first row terminal_clear_area clears for the shell
  Letters,        \* printable characters other than the blank
  Texts,          \* contents of the file that the editor is given
  MaxLine         \* bound: characters of a typed line or an edited text

Blank == " "
NL    == "newline"
BS    == "backspace"
Mark  == "#"    \* a character of the text that the kernel draws
Chars == Letters \cup {Blank, Mark}

ASSUME GeometryAssumption ==
  /\ Width \in Nat \ {0} /\ WorkTop \in Nat \ {0} /\ Height \in Nat
  /\ WorkTop + 2 < Height

ASSUME TextAssumption ==
  /\ NL \notin Letters /\ BS \notin Letters
  /\ MaxLine \in Nat
  /\ \A s \in Texts : s \in Seq(Letters \cup {NL}) /\ Len(s) <= MaxLine

VARIABLES
  term,   \* vga_buffer, terminal_col and _row, the hardware cursor, and whether
          \*   a bottom clear or an erase that did not move spoiled the line
  mode,   \* "login", "shell" or "editor"
  line,   \* the line, or the text, that is typed
  start   \* the position of its first character

vars == <<term, mode, line, start>>

Cells  == 0 .. Width * Height - 1
Row(r) == {i \in Cells : i \div Width = r}
Footer == Row(Height - 1)
Header == Row(0)

-----------------------------------------------------------------------------
(* drivers/display.c, as functions of the terminal.                        *)

Here(t) == t.row * Width + t.col

update_cursor(t) == [t EXCEPT !.hw = Here(t)]

Put(t, i, c)      == [t EXCEPT !.cell[i] = c]
Move(t, row, col) == [cell |-> t.cell, col |-> col, row |-> row, hw |-> t.hw, spoilt |-> t.spoilt]

\* terminal_clear is terminal_clear_area(0).
terminal_clear_area(t, row) ==
  update_cursor(Move([t EXCEPT !.cell = [i \in Cells |-> IF i >= row * Width THEN Blank ELSE @[i]]],
                     row, 0))

\* Mutant: the character that is erased stays on the screen.
EraseMovesOnly(t) == Move(t, t.row, t.col - 1)
\* A backspace off the first column.
Erase(t) == Put(Move(t, t.row, t.col - 1), Here(t) - 1, Blank)

Spoil(t) == [t EXCEPT !.spoilt = TRUE]

\* Mutants: the row is looked at before the column; the cursor goes back to the
\* first column of the same row.
WrapRowFirst(t) ==
  LET u == IF t.row >= Height THEN Spoil(terminal_clear_area(t, WorkTop)) ELSE t
  IN  IF u.col >= Width THEN Move(u, u.row + 1, 0) ELSE u
WrapSameRow(t) == IF t.col >= Width THEN Move(t, t.row, 0) ELSE t
\* The two tests that end terminal_putc.
Wrap(t) ==
  LET u == IF t.col >= Width THEN Move(t, t.row + 1, 0) ELSE t
  IN  IF u.row >= Height THEN Spoil(terminal_clear_area(u, WorkTop)) ELSE u

terminal_putc(t, c) ==
  update_cursor(Wrap(
    CASE c = NL              -> Move(t, t.row + 1, 0)
      [] c = BS /\ t.col > 0 -> Erase(t)
      [] c = BS /\ t.col = 0 -> Spoil(t)
      [] OTHER               -> Move(Put(t, Here(t), c), t.row, t.col + 1)))

\* The terminal after i characters of s.
Written(t, s) ==
  LET after[i \in 0 .. Len(s)] == IF i = 0 THEN t ELSE terminal_putc(after[i - 1], s[i])
  IN  after
terminal_writestring(t, s) == Written(t, s)[Len(s)]

Fill(t, cells, c) == [t EXCEPT !.cell = [i \in Cells |-> IF i \in cells THEN c ELSE @[i]]]

-----------------------------------------------------------------------------
(* What the kernel draws.                                                  *)

draw_footer(t) == Fill(t, Footer, Mark)

\* The clock and the spinner in the first row, then the footer.
update_live_clock(t) == draw_footer(Fill(t, Header, Mark))

draw_dashboard(t) ==
  draw_footer(terminal_writestring(
    Fill(terminal_clear_area(t, 0), Header, Mark),
    <<NL>> \o [i \in 1 .. Width |-> Mark] \o <<NL>>))

Login(t) == draw_footer(terminal_writestring(terminal_clear_area(t, 0), <<NL, NL, Mark, NL>>))

EditorTitle == <<Mark, NL, Mark, NL, NL>>
Prompt      == <<Mark>>

\* The terminal t, on which a line begins that starts with s.
Begin(m, t, s) ==
  LET u == [t EXCEPT !.spoilt = FALSE] IN
    /\ mode' = m
    /\ line' = s
    /\ start' = Here(u)
    /\ term' = terminal_writestring(u, s)

PromptOn(m, t) == Begin(m, terminal_writestring(t, Prompt), <<>>)

Blanks == [cell |-> [i \in Cells |-> Blank], col |-> 0, row |-> 0, hw |-> 0, spoilt |-> FALSE]

\* terminal_initialize, and the first prompt of the login.
Init ==
  /\ mode = "login"
  /\ line = <<>>
  /\ term = terminal_writestring(Login(Blanks), <<NL>> \o Prompt)
  /\ start = Here(term)

-----------------------------------------------------------------------------
(* Keys.                                                                   *)

Type(c) ==
  /\ Len(line) < MaxLine
  /\ c = NL => mode = "editor"
  /\ line' = Append(line, c)
  /\ term' = terminal_putc(term, c)
  /\ UNCHANGED <<mode, start>>

Backspace ==
  /\ line # <<>>
  /\ line' = Front(line)
  /\ term' = terminal_putc(term, BS)
  /\ UNCHANGED <<mode, start>>

\* The line is entered, at the login: the password is asked for, or is denied and
\* the user name is asked for again, or the dashboard.
EnterAtLogin ==
  /\ mode = "login"
  /\ LET t == terminal_putc(term, NL) IN
       \/ \E out \in {<<>>, <<Mark, NL, NL>>} : PromptOn("login", terminal_writestring(t, out))
       \/ PromptOn("shell", draw_dashboard(t))

\* A command that prints a line, or nothing, where the cursor is or, as clear, help
\* and theme do, on a cleared screen; or logs out; or opens the editor on a text s.
Command ==
  /\ mode = "shell"
  /\ LET t == terminal_putc(term, NL) IN
       \/ \E u \in {t, terminal_clear_area(t, WorkTop)}, out \in {<<>>, <<Mark, NL>>} :
            PromptOn("shell", terminal_writestring(u, out))
       \/ PromptOn("login", terminal_writestring(Login(t), <<NL>>))
       \/ \E s \in Texts :
            Begin("editor", terminal_writestring(terminal_clear_area(t, 0), EditorTitle), s)

\* Ctrl-S.
LeaveEditor ==
  /\ mode = "editor"
  /\ PromptOn("shell", draw_dashboard(terminal_clear_area(term, 0)))

\* A polling loop finds that the period has passed.
LiveClock ==
  /\ term' = update_live_clock(term)
  /\ UNCHANGED <<mode, line, start>>

Next ==
  \/ \E c \in Letters \cup {NL} : Type(c)
  \/ Backspace
  \/ EnterAtLogin
  \/ Command
  \/ LeaveEditor
  \/ LiveClock

Spec == Init /\ [][Next]_vars

-----------------------------------------------------------------------------
(* Properties.                                                             *)

\* The cursor is on the screen, below the header, where the hardware shows it.
TypeOK ==
  /\ term.cell \in [Cells -> Chars]
  /\ term.col \in 0 .. Width - 1 /\ term.row \in 1 .. Height - 1
  /\ term.hw = Here(term)
  /\ mode \in {"login", "shell", "editor"}
  /\ line \in Seq(Letters \cup {NL}) /\ Len(line) <= MaxLine
  /\ start \in Cells

\* The position after i characters of the text s, if it starts at p.
Places(p, s) ==
  LET place[i \in 0 .. Len(s)] ==
        IF i = 0 THEN p
        ELSE IF s[i] = NL THEN (place[i - 1] \div Width + 1) * Width
        ELSE place[i - 1] + 1
  IN  place

\* The screen shows the line that the kernel has, and the cursor behind it,
\* unless the bottom was reached or an erase went over the start of a row; the
\* footer may hide a part of it.
LineIsShown ==
  term.spoilt \/
    LET place == Places(start, line) IN
      /\ Here(term) = place[Len(line)]
      /\ \A i \in DOMAIN line :
           line[i] # NL /\ place[i - 1] \notin Footer => term.cell[place[i - 1]] = line[i]

\* Nothing is shown behind the cursor but the footer: no rest of an earlier text,
\* of an erased character or of a clock that was drawn meanwhile.
BlankBehindCursor ==
  \A i \in Cells \ Footer : i >= Here(term) => term.cell[i] = Blank

=============================================================================
