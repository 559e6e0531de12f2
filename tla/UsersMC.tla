------------------------------- MODULE UsersMC --------------------------------
(* Values of Users' constants for TLC.                                     *)
EXTENDS Users

CONSTANTS a, b

TwoNames     == {<<b>>, <<a, b>>}
TwoPasswords == {<<a>>, <<b, b, b>>}
Admin        == [username |-> <<a>>, password |-> <<a>>]

\* An empty file; two accounts, the second without a newline; a line without a
\* name, followed by a name longer than FieldLen; a text longer than DbLimit.
OddTexts ==
  {<<>>, <<b, Colon, b, Newline, a, Colon, a>>, <<Colon, Newline, b, b, b, b>>,
   <<a, Colon, a, a, a, Newline, b, Colon, b, b, Newline>>}
=============================================================================
