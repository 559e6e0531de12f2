------------------------------ MODULE SessionMC -------------------------------
(* Values of Session's constants for TLC.                                  *)
EXTENDS Session

CONSTANTS s, S

Row(k)   == s
UpRow(k) == S

\* A clean stack, one full of text, and one with a NUL in the text.
Stacks ==
  {[k \in 0 .. Size - 1 |-> NUL],
   [k \in 0 .. Size - 1 |-> S],
   [k \in 0 .. Size - 1 |-> IF k = 3 THEN NUL ELSE S]}

\* Torn texts: the first sector is that of a shorter text, of the same sector or
\* with a sector of the old text behind it.
TornTexts == {<<s, NUL>>, <<s, S, NUL>>, <<s, NUL, S>>}
=============================================================================
