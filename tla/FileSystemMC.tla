---------------------------- MODULE FileSystemMC -----------------------------
(* Values of FileSystem's constants for TLC.                               *)
EXTENDS FileSystem

CONSTANTS f, g, h, d, p, a, b

ShortTexts == {<<>>, <<a, a>>, <<b, b, b>>}
OneText    == {<<a>>}

\* d, d/d, /d and d/: a name with a slash inside, before and after it; and "..",
\* which mkdir takes and cd never looks up.
SlashedNames == {Up, <<d>>, <<d, Slash, d>>, <<Slash, d>>, <<d, Slash>>}
FileAndDir   == {<<d>>}
Phantom      == <<p>>

\* As on the real machine after the six log lines of a boot: one of the entries
\* read from behind sector_buffer looks like a directory with an empty path and
\* a huge size, and the others look free.
PhantomBoot ==
  [i \in Slots \ Persisted |->
     IF i = PersistedSlots
     THEN [used |-> TRUE, name |-> PhantomName, path |-> <<>>,
           start |-> 0, size |-> Capacity + 1, is_directory |-> TRUE]
     ELSE Unused]
=============================================================================
