--------------------------- MODULE MCLibraryImport ---------------------------
(* Instances of LibraryImport for TLC.                                     *)
EXTENDS LibraryImportProperties, TLC

CONSTANTS home, office, s1, s2

Allow(updates, edits, failures, writeFailures, archiveFailures, crashes, switches) ==
  [updates |-> updates, edits |-> edits, failures |-> failures,
   writeFailures |-> writeFailures, archiveFailures |-> archiveFailures,
   crashes |-> crashes, switches |-> switches]

\* For the runs that pass
Quits == Allow(1, 2, 0, 0, 1, 2, 0)
Switches == Allow(0, 1, 0, 1, 1, 0, 1)
FailureAndUpdates == Allow(2, 0, 1, 0, 0, 0, 0)

\* For the runs that show a violation
UpdateAndQuit == Allow(1, 0, 0, 0, 0, 1, 0)
OneFailure == Allow(0, 0, 1, 0, 0, 0, 0)

SongSymmetry == Permutations(Songs)
=============================================================================
