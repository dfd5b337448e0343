----------------------- MODULE LibraryImportProperties -----------------------
(***************************************************************************)
(* The correctness properties of LibraryImport.                            *)
(***************************************************************************)
EXTENDS LibraryImport

\* No import writes the library of p, and none was interrupted.
Settled(p) ==
  /\ mImporterThread # None => p \notin {Library, BackupFile}
  /\ backup[p] = None

\* Nothing that the program or libmpd knows of will start an import for p.
NothingPending(p) ==
  /\ mImporterThread = None
  /\ ~server[p].updating /\ ~client[p].updatingDb /\ ~client[p].event
  /\ client[p].requests = 0 /\ client[p].listed = None
  /\ \A i \in 1..Len(mainQueue) :
       mainQueue[i].name \notin {"DatabaseUpdated", "FetchedDatabase"}

-----------------------------------------------------------------------------
(* The songs marked as part of a compilation come through every import of  *)
(* startThread: and through quitting or crashing at any of its steps: as   *)
(* long as a song stays on the server, it is marked exactly if the user    *)
(* last wanted it so, for decisions made before an import came past its    *)
(* backup, except the marks of a backup that could not be written.         *)
CompilationsSurvive ==
  \A p \in Profiles : Settled(p) =>
    \A s \in db[p].songs :
      /\ marks[p][s] = "on" => s \in db[p].flags
      /\ marks[p][s] = "off" => s \notin db[p].flags

(* The identifier in the file says which songs the tables hold: when it is *)
(* the server's, no import was interrupted and nothing is on its way, the  *)
(* tables hold exactly what the server holds, although startFetchDatabase  *)
(* reads the songs and the identifier one after the other, and although    *)
(* the connection fails once, in the middle of a list too.                 *)
IdentifierIsTruthful ==
  spent["failures"] < 2 => \A p \in Profiles :
    NothingPending(p) /\ Settled(p) /\ db[p].identifier = TimeOf(p, server[p].time) =>
      db[p].songs = server[p].songs

(* The window that clientConnected: enables because needsImport answers NO *)
(* shows the songs of the server, not tables that an interrupted import    *)
(* left empty.                                                             *)
ShownMeansImported ==
  LET p == currentProfile
  IN view = "shown" /\ mImporterThread = None
       /\ db[p].identifier = TimeOf(p, server[p].time) =>
     db[p].songs = server[p].songs

(* The library of a server with songs is not empty when the client is      *)
(* connected to it, the window is enabled and no import is on its way,     *)
(* however connections broke in the middle of a fetch.                     *)
LibraryIsNotEmpty ==
  LET p == currentProfile
  IN view = "shown" /\ IsConnected(p) /\ mainQueue = <<>> /\ NothingPending(p)
       /\ server[p].songs # {} =>
     db[p].songs # {}

(* The songs of the tables are gone only while their marks are safe: as    *)
(* long as startThread: is between its steps "clear" and "restore", the    *)
(* backup file it will read exists, whatever profile is selected meanwhile,*)
(* unless this import could not write one and continued anyway.            *)
BackupOutlivesClear ==
  mImporterThread # None /\ mImporterThread.at \in {"clear", "insert", "restore"} =>
    IF BackupFile = None THEN spent["archiveFailures"] > 0 ELSE backup[BackupFile] # None

\* The library of the profile in use holds what its server holds.
InStep ==
  LET p == currentProfile
  IN /\ db[p].songs = server[p].songs
     /\ db[p].identifier = TimeOf(p, server[p].time)

(* Once servers, user and failures leave it in peace, the library of the   *)
(* profile in use ends up with the songs and the update time of its server,*)
(* whatever was queued, replaced, lost or interrupted before; or a failure *)
(* cut a fetch short, and the library is left with an identifier that no   *)
(* server has, so that the next connect imports it again.                  *)
Converges ==
  \/ <>[]InStep
  \/ /\ <>(spent["failures"] > 0)
     /\ <>[](db[currentProfile].identifier = NotConnected)

(* Every import ends with the window enabled again, or the window is off   *)
(* because the client is not connected.                                    *)
WindowComesBack == <>[](IsConnected(currentProfile) => view = "shown")
=============================================================================
