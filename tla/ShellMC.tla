------------------------------- MODULE ShellMC -------------------------------
(* Every command of the help text, and the edges of an int of eight bits.  *)
EXTENDS Shell

\* Every listed command, the aliases, a word that is no command and one that only
\* begins like a command, and the empty line.  The longest of them do not fit a slot.
TypedLines ==
  ListedAlone \cup {w \o " x" : w \in ListedWithOperand}
    \cup {"", "rmdir x", "dmesg", "date", "exit", "catalog", "who"}

EdgeSums == { <<100, "+", 27>>, <<100, "+", 28>>, <<0, "-", 127>>, <<0, "-", 128>>,
              <<7, "-", 107>>, <<10, "*", 12>>, <<16, "*", 16>>, <<127, "/", 10>>,
              <<128, "/", 10>>, <<5, "/", 0>>, <<5, "%", 0>>, <<127, "%", 10>>,
              <<128, "%", 255>>, <<128, "/", 255>>, <<255, "/", 255>>, <<300, "?", 5>> }
=============================================================================
