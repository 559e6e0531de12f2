---------------------------- MODULE KernelMemoryMC ----------------------------
(* A memory with the proportions of the real one: one entry and the name of  *)
(* a second fit in the sector, four of the five lines lie under the table,   *)
(* and at boot two entries have a letter of the log for their used flag.     *)
EXTENDS KernelMemory

CONSTANTS a, b, x, y

ShortAndLong == {<<a>>, <<b>>, <<a, b>>}
First        == <<a>>
Empty        == <<>>
InitLine     == <<b>>
FormatLine   == <<a>>
Boot         == << <<a>>, <<a, b>>, <<a, b>>, <<b>> >>
=============================================================================
