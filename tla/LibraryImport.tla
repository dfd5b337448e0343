---------------------------- MODULE LibraryImport ----------------------------
(***************************************************************************)
(* The local copy of the server's database: one SQLite file per profile    *)
(* (SQLController), filled by LibraryImportController whenever the server  *)
(* has a newer one.                                                        *)
(*                                                                         *)
(* The client fetches all songs and the database identifier (the server's  *)
(* update time, which libmpd caches in its stats) and posts both.  The     *)
(* main thread starts an import thread, or replaces the one queued import  *)
(* when a thread is running.  The import thread saves which songs are      *)
(* marked as part of a compilation in a backup file, clears the tables,    *)
(* inserts the songs with the identifier in one transaction, marks the     *)
(* songs of the backup again and removes the file; then it waits for the   *)
(* main thread.  Quitting or crashing stops it between any two of these.   *)
(*                                                                         *)
(* Every SQLController opens the file anew, so that the threads have       *)
(* connections of their own and SQLite makes each transaction one step; a  *)
(* transaction that finds the file locked retries.  The connection to the  *)
(* server is reduced to what the import sees of it: ServerConnection has   *)
(* the rest.                                                               *)
(***************************************************************************)
EXTENDS Integers, Sequences, FiniteSets

CONSTANTS
  Profiles,        \* the profiles, each with a server and a file of its own
  DefaultProfile,  \* the one the program starts with
  Songs,           \* songs, named by their unique identifiers
  IdleServers,     \* profiles whose server has the "idle" command (MPD 0.14)
  Limits,          \* how often each kind of bounded event may happen
  None             \* nil, or a file that does not exist

Bounded == {"updates", "edits", "failures", "writeFailures", "archiveFailures",
            "crashes", "switches"}

ASSUME ProfilesAssumption == DefaultProfile \in Profiles /\ IdleServers \subseteq Profiles
ASSUME LimitsAssumption == Limits \in [Bounded -> Nat]
ASSUME NoneAssumption ==
  /\ \A S \in SUBSET Songs : S # None
  /\ None \notin Profiles /\ None \notin Nat

VARIABLES
  currentProfile,  \* of PreferencesController
  view,            \* the library window: "off", "shown", or "stale" when the
                   \* rows it shows are no longer those of the tables
  mainQueue,       \* notifications that wait for the main thread
  client,          \* per profile, its client thread and libmpd
  mImporterThread, \* the running import with its data, or None
  mQueued,         \* mQueuedSongs and mQueuedDatabaseIdentifier, or None
  db,              \* per profile, the tables of the SQLite file
  backup,          \* per profile, the songs in the backup file, or None
  server,          \* per profile, the server's database
  marks,           \* what the user decided on each song (a history variable)
  spent            \* how often each kind of bounded event has happened

mainVars == <<currentProfile, view, mImporterThread, mQueued>>
diskVars == <<db, backup>>
vars == <<mainVars, mainQueue, client, diskVars, server, marks, spent>>

-----------------------------------------------------------------------------
(* A database identifier is the update time of a server's database.  The   *)
(* identifier that an unconnected client answers is an error code of libmpd*)
(* printed like a time: it belongs to no server.                           *)
Identifier == [of : Profiles \cup {None}, time : Nat]
TimeOf(p, t) == [of |-> p, time |-> t]
NotConnected == TimeOf(None, 0)

ASSUME NoneIsNoIdentifier == None \notin Identifier

Notification ==
  [name : {"Connected", "Disconnected", "DatabaseUpdated", "BeganImport", "FinishedImport"}]
    \cup [name : {"FetchedDatabase"}, songs : SUBSET Songs, identifier : Identifier]

Import ==
  [songs : SUBSET Songs, identifier : Identifier,
   at : {"begin", "back up", "clear", "insert", "restore", "remove backup",
         "finish", "finished"},
   library : Profiles \cup {None},   \* the profile its dataSource is for
   file : Profiles \cup {None}]      \* the profile its backup file is named after,
                                     \* None when it has no such file

ASSUME NoneIsNoImport ==
  None \notin Import /\ None \notin [songs : SUBSET Songs, identifier : Identifier]

Client ==
  [link : {"none", "down", "lost", "up"},  \* none: no client has registered;
                                           \* lost: not yet announced
   stats : Nat \cup {None},          \* update time in the cached stats
   updatingDb : BOOLEAN,             \* CurrentState.updatingDb
   event : BOOLEAN,                  \* an idle event "database" is pending
   requests : Nat,                   \* startFetchDatabase messages that wait
   listed : (SUBSET Songs) \cup {None}]\* songs of the fetch in progress

\* mpd_disconnect forgets the stats and the state.
Unlinked(c, link) ==
  [c EXCEPT !.link = link, !.stats = None, !.updatingDb = FALSE, !.event = FALSE]

NewClient == [link |-> "none", stats |-> None, updatingDb |-> FALSE,
              event |-> FALSE, requests |-> 0, listed |-> None]

\* "on" and "off" are decisions made while the marks were not saved yet, "late
\* on" and "late off" those made when an import had come past its backup.
\* Nothing is expected any more of a song that has left the server once, and
\* of a mark that could not be saved.
Decision == {"on", "off", "late on", "late off", "any"}

TypeOK ==
  /\ currentProfile \in Profiles
  /\ view \in {"off", "shown", "stale"}
  /\ mainQueue \in Seq(Notification)
  /\ client \in [Profiles -> Client]
  /\ mImporterThread \in Import \cup {None}
  /\ mQueued \in [songs : SUBSET Songs, identifier : Identifier] \cup {None}
  /\ db \in [Profiles -> [songs : SUBSET Songs, flags : SUBSET Songs,
                          identifier : Identifier \cup {None}]]
  /\ backup \in [Profiles -> (SUBSET Songs) \cup {None}]
  /\ server \in [Profiles -> [songs : SUBSET Songs, time : Nat, updating : BOOLEAN]]
  /\ marks \in [Profiles -> [Songs -> Decision]]
  /\ spent \in [Bounded -> Nat]

\* A library is new, or up to date with any marks, when the program starts.
Init ==
  /\ currentProfile = DefaultProfile
  /\ view = "off"
  /\ mainQueue = <<>>
  /\ client = [p \in Profiles |-> NewClient]
  /\ mImporterThread = None
  /\ mQueued = None
  /\ server \in [Profiles -> [songs : SUBSET Songs, time : {1}, updating : {FALSE}]]
  /\ db \in [Profiles -> [songs : SUBSET Songs, flags : SUBSET Songs,
                          identifier : {None} \cup {TimeOf(p, 1) : p \in Profiles}]]
  /\ \A p \in Profiles :
       /\ db[p].flags \subseteq db[p].songs
       /\ \/ db[p].songs = {} /\ db[p].identifier = None
          \/ db[p].songs = server[p].songs /\ db[p].identifier = TimeOf(p, 1)
  /\ marks = [p \in Profiles |-> [s \in Songs |->
                IF s \in db[p].flags THEN "on" ELSE "off"]]
  /\ backup = [p \in Profiles |-> None]
  /\ spent = [k \in Bounded |-> 0]

Spend(k) ==
  /\ spent[k] < Limits[k]
  /\ spent' = [spent EXCEPT ![k] = @ + 1]

Named(name) == [name |-> name]
Post(notification) == mainQueue' = Append(mainQueue, notification)

-----------------------------------------------------------------------------
(* The client thread.                                                      *)

IsConnected(p) == client[p].link = "up"

\* mpd_server_get_database_update_time: the first question of a connection
\* loads the stats.  libmpd sees a change from the update time 0, but its test
\* "callback != NULL & what_changed_here" is bitwise and never holds for
\* MPD_CST_DATABASE: nothing is posted.
LoadsStats(p) == IsConnected(p) /\ client[p].stats = None
StatsAfterAsking(p) == IF LoadsStats(p) THEN server[p].time ELSE client[p].stats
\* Mutant: an identifier for a list that an error cut short
IdentifierWithoutConnection(p) == TimeOf(p, server[p].time)

DatabaseIdentifier(p) ==
  IF IsConnected(p) THEN TimeOf(p, StatsAfterAsking(p))
  ELSE IF client[p].link = "none" THEN None ELSE NotConnected

\* setMusicClient: of the current profile's client
Register(p) ==
  /\ p = currentProfile
  /\ client[p].link = "none"
  /\ client' = [client EXCEPT ![p].link = "down"]
  /\ UNCHANGED <<mainVars, mainQueue, diskVars, server, marks, spent>>

Connect(p) ==
  /\ p = currentProfile
  /\ client[p].link = "down"
  /\ client[p].listed = None
  /\ client' = [client EXCEPT ![p].link = "up"]
  /\ Post(Named("Connected"))
  /\ UNCHANGED <<mainVars, diskVars, server, marks, spent>>

\* Mutant: fetches without being asked
ListUnasked(p) ==
  /\ client[p].listed = None
  /\ client' = [client EXCEPT ![p].requests = @ - 1,
                  ![p].listed = IF IsConnected(p) THEN server[p].songs ELSE {}]
  /\ UNCHANGED <<mainVars, mainQueue, diskVars, server, marks, spent>>

\* startFetchDatabase: an unconnected client lists nothing.
ListSongs(p) ==
  /\ client[p].requests > 0
  /\ client[p].listed = None
  /\ client' = [client EXCEPT ![p].requests = @ - 1,
                  ![p].listed = IF IsConnected(p) THEN server[p].songs ELSE {}]
  /\ UNCHANGED <<mainVars, mainQueue, diskVars, server, marks, spent>>

\* What a listing that the connection did not survive leaves in the client.
HalfListed(c, part) ==
  [Unlinked(c, "lost") EXCEPT !.requests = c.requests - 1, !.listed = part]

\* The connection fails in the middle of the list.
ListSongsUntilFailure(p) ==
  /\ client[p].requests > 0
  /\ client[p].listed = None
  /\ IsConnected(p)
  /\ Spend("failures")
  /\ \E part \in SUBSET server[p].songs :
       client' = [client EXCEPT ![p] = HalfListed(@, part)]
  /\ UNCHANGED <<mainVars, mainQueue, diskVars, server, marks>>

\* The second half of startFetchDatabase: the identifier, and the answer.
PostFetchedDatabase(p) ==
  /\ client[p].listed # None
  /\ Post([name |-> "FetchedDatabase", songs |-> client[p].listed,
           identifier |-> DatabaseIdentifier(p)])
  /\ client' = [client EXCEPT ![p].listed = None, ![p].stats = StatsAfterAsking(p)]
  /\ UNCHANGED <<mainVars, diskVars, server, marks, spent>>

\* The status timer: libmpd reloads the stats when an update has stopped
\* since the last poll or the server sent the event "database".
Poll(p) ==
  LET stopped == client[p].updatingDb /\ ~server[p].updating
      changed == stopped /\ client[p].stats # server[p].time
  IN /\ IsConnected(p)
     /\ client[p].listed = None
     /\ stopped \/ client[p].event \/ client[p].updatingDb # server[p].updating
     /\ client' = [client EXCEPT ![p].updatingDb = server[p].updating,
                     ![p].event = FALSE,
                     ![p].stats = IF stopped \/ client[p].event THEN server[p].time ELSE @]
     /\ IF changed \/ client[p].event
        THEN Post(Named("DatabaseUpdated")) ELSE UNCHANGED mainQueue
     /\ UNCHANGED <<mainVars, diskVars, server, marks, spent>>

\* The connection fails, or the user disconnects.
LoseConnection(p) ==
  /\ IsConnected(p)
  /\ client[p].listed = None
  /\ Spend("failures")
  /\ client' = [client EXCEPT ![p] = Unlinked(@, "down")]
  /\ Post(Named("Disconnected"))
  /\ UNCHANGED <<mainVars, diskVars, server, marks>>

NoticeLoss(p) ==
  /\ client[p].link = "lost"
  /\ client[p].listed = None
  /\ client' = [client EXCEPT ![p].link = "down"]
  /\ Post(Named("Disconnected"))
  /\ UNCHANGED <<mainVars, diskVars, server, marks, spent>>

\* A client that was stopped leaves; it may serve what waits for it before.
ExitThread(p) ==
  /\ p # currentProfile
  /\ client[p].link # "none"
  /\ client[p].listed = None
  /\ client' = [client EXCEPT ![p] = NewClient]
  /\ UNCHANGED <<mainVars, mainQueue, diskVars, server, marks, spent>>

-----------------------------------------------------------------------------
(* The main thread: LibraryController and LibraryImportController.         *)

Arrives(name) == mainQueue # <<>> /\ Head(mainQueue).name = name

\* A message to the current client; one to nil is lost.
StartFetchDatabase(clients) ==
  IF clients[currentProfile].link = "none" THEN clients
  ELSE [clients EXCEPT ![currentProfile].requests = @ + 1]

\* needsImport asks the current client for its identifier and waits for it.
\* Its flag _needImport makes no difference: it is set in the object that
\* found no file, for which the file has no identifier either.
HandleConnected ==
  LET p == currentProfile
      needsImport == db[p].identifier \notin {DatabaseIdentifier(p)} \ {None}
      asked == [client EXCEPT ![p].stats = StatsAfterAsking(p)]
  IN /\ Arrives("Connected")
     /\ client[p].listed = None
     /\ mainQueue' = Tail(mainQueue)
     /\ client' = IF needsImport THEN StartFetchDatabase(asked) ELSE asked
     /\ view' = IF needsImport THEN view ELSE "shown"
     /\ UNCHANGED <<currentProfile, mImporterThread, mQueued, diskVars, server,
                    marks, spent>>

HandleDisconnected ==
  /\ Arrives("Disconnected")
  /\ mainQueue' = Tail(mainQueue)
  /\ view' = "off"
  /\ UNCHANGED <<currentProfile, mImporterThread, mQueued, client, diskVars,
                 server, marks, spent>>

HandleDatabaseUpdated ==
  /\ Arrives("DatabaseUpdated")
  /\ mainQueue' = Tail(mainQueue)
  /\ client' = StartFetchDatabase(client)
  /\ UNCHANGED <<mainVars, diskVars, server, marks, spent>>

StartImport(songs, identifier) ==
  mImporterThread' = [songs |-> songs, identifier |-> identifier, at |-> "begin",
                      library |-> None, file |-> None]

HandleFetchedDatabase ==
  LET fetched == Head(mainQueue)
  IN /\ Arrives("FetchedDatabase")
     /\ mainQueue' = Tail(mainQueue)
     /\ IF mImporterThread # None
        THEN /\ mQueued' = [songs |-> fetched.songs, identifier |-> fetched.identifier]
             /\ UNCHANGED mImporterThread
        ELSE /\ StartImport(fetched.songs, fetched.identifier)
             /\ UNCHANGED mQueued
     /\ UNCHANGED <<currentProfile, view, client, diskVars, server, marks, spent>>

HandleBeganImport ==
  /\ Arrives("BeganImport")
  /\ mainQueue' = Tail(mainQueue)
  /\ view' = "off"
  /\ UNCHANGED <<currentProfile, mImporterThread, mQueued, client, diskVars,
                 server, marks, spent>>

\* Mutants of HandleFinishedImport: the queued import is dropped; the window
\* stays off
FinishDropsQueued ==
  /\ Arrives("FinishedImport")
  /\ mainQueue' = Tail(mainQueue)
  /\ view' = "shown"
  /\ mQueued' = None
  /\ mImporterThread' = None
  /\ UNCHANGED <<currentProfile, client, diskVars, server, marks, spent>>

FinishLeavesWindowOff ==
  /\ Arrives("FinishedImport")
  /\ mainQueue' = Tail(mainQueue)
  /\ mQueued' = None
  /\ IF mQueued # None
     THEN StartImport(mQueued.songs, mQueued.identifier)
     ELSE mImporterThread' = None
  /\ UNCHANGED <<currentProfile, view, client, diskVars, server, marks, spent>>

\* libraryFinishedImporting: and threadFinished:
HandleFinishedImport ==
  /\ Arrives("FinishedImport")
  /\ mainQueue' = Tail(mainQueue)
  /\ view' = "shown"
  /\ mQueued' = None
  /\ IF mQueued # None
     THEN StartImport(mQueued.songs, mQueued.identifier)
     ELSE mImporterThread' = None
  /\ UNCHANGED <<currentProfile, client, diskVars, server, marks, spent>>

\* setupConnectionWithMusicClient and profileSwitched:
SelectProfile(p) ==
  /\ p # currentProfile
  /\ Spend("switches")
  /\ currentProfile' = p
  /\ client' = [client EXCEPT ![p] = NewClient]
  /\ view' = IF view = "off" THEN "off" ELSE "shown"
  /\ UNCHANGED <<mImporterThread, mQueued, mainQueue, diskVars, server, marks>>

\* An import is about to clear the library of p, whose marks it could not save.
ClearsUnsaved(p) ==
  /\ mImporterThread # None
  /\ mImporterThread.at = "clear"
  /\ mImporterThread.library = p /\ mImporterThread.file = None

Decide(p, s, on) ==
  LET late == backup[p] # None \/ ClearsUnsaved(p)
  IN marks' = [marks EXCEPT ![p][s] =
                 IF @ = "any" THEN "any"
                 ELSE IF late THEN IF on THEN "late on" ELSE "late off"
                 ELSE IF on THEN "on" ELSE "off"]

\* setToggleIsPartOfCompilation: on a song that the window shows.
ToggleIsPartOfCompilation(s) ==
  LET p == currentProfile
      on == s \notin db[p].flags
  IN /\ view = "shown"
     /\ s \in db[p].songs
     /\ Spend("edits")
     /\ db' = [db EXCEPT ![p].flags = IF on THEN @ \cup {s} ELSE @ \ {s}]
     /\ Decide(p, s, on)
     /\ UNCHANGED <<mainVars, mainQueue, client, backup, server>>

\* The menu item works whenever the client is connected, during an import
\* too; it marks what it finds in the tables and reloads the window.
DetectCompilations(s) ==
  LET p == currentProfile
  IN /\ IsConnected(p)
     /\ client[p].listed = None
     /\ s \in db[p].songs \ db[p].flags
     /\ Spend("edits")
     /\ db' = [db EXCEPT ![p].flags = @ \cup {s}]
     /\ view' = IF view = "off" THEN "off" ELSE "shown"
     /\ Decide(p, s, TRUE)
     /\ UNCHANGED <<currentProfile, mImporterThread, mQueued, mainQueue, client,
                    backup, server>>

-----------------------------------------------------------------------------
(* The import thread: LibraryImportThread.startThread:                     *)

At(step) == mImporterThread # None /\ mImporterThread.at = step
GoTo(step) == mImporterThread' = [mImporterThread EXCEPT !.at = step]
Library == mImporterThread.library
BackupFile == mImporterThread.file

\* The rows that the window shows go when the tables of its profile change.
ViewAfterWriting ==
  view' = IF view = "shown" /\ Library = currentProfile THEN "stale" ELSE view

OpenLibrary ==
  /\ At("begin")
  /\ mImporterThread' = [mImporterThread EXCEPT !.at = "back up",
                                               !.library = currentProfile]
  /\ Post(Named("BeganImport"))
  /\ UNCHANGED <<currentProfile, view, mQueued, client, diskVars, server, marks, spent>>

\* Mutants of BackUpCompilations: the backup of an interrupted import is
\* overwritten; the file is named after the library's profile when it is written
BackUpAlways ==
  LET file == currentProfile
  IN /\ At("back up")
     /\ mImporterThread' = [mImporterThread EXCEPT !.at = "clear", !.file = file]
     /\ backup' = [backup EXCEPT ![file] = db[Library].flags]
     /\ UNCHANGED <<currentProfile, view, mQueued, mainQueue, client, db, server,
                    marks, spent>>

BackUpElsewhere ==
  /\ At("back up")
  /\ mImporterThread' = [mImporterThread EXCEPT !.at = "clear", !.file = currentProfile]
  /\ backup' = IF backup[Library] # None THEN backup
               ELSE [backup EXCEPT ![Library] = db[Library].flags]
  /\ UNCHANGED <<currentProfile, view, mQueued, mainQueue, client, db, server,
                 marks, spent>>

\* A backup that exists is of an import that was interrupted, and is kept.
BackUpCompilations ==
  LET file == currentProfile
  IN /\ At("back up")
     /\ mImporterThread' = [mImporterThread EXCEPT !.at = "clear", !.file = file]
     /\ backup' = IF backup[file] # None THEN backup
                  ELSE [backup EXCEPT ![file] = db[Library].flags]
     /\ UNCHANGED <<currentProfile, view, mQueued, mainQueue, client, db, server,
                    marks, spent>>

\* archiveRootObject:toFile: fails: the import continues without a file, and
\* finds none to read and to remove in the end.
BackUpCompilationsFails ==
  /\ At("back up")
  /\ backup[currentProfile] = None
  /\ Spend("archiveFailures")
  /\ GoTo("clear")
  /\ marks' = [marks EXCEPT ![Library] =
                [s \in Songs |-> IF @[s] = "on" THEN "any" ELSE @[s]]]
  /\ UNCHANGED <<currentProfile, view, mQueued, mainQueue, client, diskVars, server>>

\* The metadata, and with them the identifier, stay.
Clear ==
  /\ At("clear")
  /\ GoTo("insert")
  /\ db' = [db EXCEPT ![Library].songs = {}, ![Library].flags = {}]
  /\ ViewAfterWriting
  /\ UNCHANGED <<currentProfile, mQueued, mainQueue, client, backup, server, marks, spent>>

InsertSongs ==
  /\ At("insert")
  /\ GoTo("restore")
  /\ db' = [db EXCEPT ![Library].songs = mImporterThread.songs,
                      ![Library].identifier = mImporterThread.identifier]
  /\ ViewAfterWriting
  /\ UNCHANGED <<currentProfile, mQueued, mainQueue, client, backup, server, marks, spent>>

\* insertSongs:withDatabaseIdentifier: rolls back and answers NO; the thread
\* does not look at the answer.
InsertSongsFails ==
  /\ At("insert")
  /\ GoTo("restore")
  /\ Spend("writeFailures")
  /\ UNCHANGED <<currentProfile, view, mQueued, mainQueue, client, diskVars, server, marks>>

RestoreCompilations ==
  /\ At("restore")
  /\ GoTo("remove backup")
  /\ db' = IF BackupFile = None THEN db
           ELSE [db EXCEPT ![Library].flags =
                   @ \cup (db[Library].songs \cap backup[BackupFile])]
  /\ UNCHANGED <<currentProfile, view, mQueued, mainQueue, client, backup, server,
                 marks, spent>>

RemoveBackup ==
  /\ At("remove backup")
  /\ GoTo("finish")
  /\ backup' = IF BackupFile = None THEN backup ELSE [backup EXCEPT ![BackupFile] = None]
  /\ UNCHANGED <<currentProfile, view, mQueued, mainQueue, client, db, server, marks, spent>>

PostFinishedImport ==
  /\ At("finish")
  /\ GoTo("finished")
  /\ Post(Named("FinishedImport"))
  /\ UNCHANGED <<currentProfile, view, mQueued, client, diskVars, server, marks, spent>>

-----------------------------------------------------------------------------
(* The servers, and the end of the program.                                *)

StartUpdate(p) ==
  /\ ~server[p].updating
  /\ Spend("updates")
  /\ server' = [server EXCEPT ![p].updating = TRUE]
  /\ UNCHANGED <<mainVars, mainQueue, client, diskVars, marks>>

EndUpdate(p, songs) ==
  /\ server[p].updating
  /\ songs # server[p].songs
  /\ server' = [server EXCEPT ![p] = [songs |-> songs, time |-> server[p].time + 1,
                                      updating |-> FALSE]]
  /\ client' = [client EXCEPT ![p].event =
                  @ \/ (p \in IdleServers /\ IsConnected(p))]
  /\ marks' = [marks EXCEPT ![p] = [s \in Songs |->
                 IF s \in server[p].songs \ songs THEN "any" ELSE marks[p][s]]]
  /\ UNCHANGED <<mainVars, mainQueue, diskVars, spent>>

\* Theremin quits or crashes, and is started again: the disk stays.
QuitAndRestart ==
  /\ Spend("crashes")
  /\ currentProfile' = DefaultProfile
  /\ view' = "off"
  /\ mainQueue' = <<>>
  /\ client' = [p \in Profiles |-> NewClient]
  /\ mImporterThread' = None
  /\ mQueued' = None
  /\ UNCHANGED <<diskVars, server, marks>>

-----------------------------------------------------------------------------
ClientStep(p) ==
  \/ Register(p)
  \/ Connect(p)
  \/ ListSongs(p)
  \/ PostFetchedDatabase(p)
  \/ Poll(p)
  \/ NoticeLoss(p)
  \/ ExitThread(p)

MainStep ==
  \/ HandleConnected
  \/ HandleDisconnected
  \/ HandleDatabaseUpdated
  \/ HandleFetchedDatabase
  \/ HandleBeganImport
  \/ HandleFinishedImport

ImportStep ==
  \/ OpenLibrary
  \/ BackUpCompilations
  \/ Clear
  \/ InsertSongs
  \/ RestoreCompilations
  \/ RemoveBackup
  \/ PostFinishedImport

UserStep ==
  \/ \E p \in Profiles : SelectProfile(p)
  \/ \E s \in Songs : ToggleIsPartOfCompilation(s) \/ DetectCompilations(s)

FaultStep ==
  \/ \E p \in Profiles : LoseConnection(p) \/ ListSongsUntilFailure(p)
  \/ BackUpCompilationsFails
  \/ InsertSongsFails
  \/ QuitAndRestart

ServerStep ==
  \E p \in Profiles :
    \/ StartUpdate(p)
    \/ \E songs \in SUBSET Songs : EndUpdate(p, songs)

Next ==
  \/ \E p \in Profiles : ClientStep(p)
  \/ MainStep
  \/ ImportStep
  \/ UserStep
  \/ FaultStep
  \/ ServerStep

Spec == Init /\ [][Next]_vars

\* The threads run, timers fire and a server ends the update it started.
\* Nothing is assumed of the user and of failures.
Fairness ==
  /\ \A p \in Profiles : WF_vars(ClientStep(p))
  /\ WF_vars(MainStep)
  /\ WF_vars(ImportStep)
  /\ WF_vars(ServerStep /\ UNCHANGED spent)

FairSpec == Spec /\ Fairness
=============================================================================
