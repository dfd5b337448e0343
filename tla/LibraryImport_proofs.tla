------------------------ MODULE LibraryImport_proofs ------------------------
(***************************************************************************)
(* Proofs about LibraryImport, for all profiles, songs and bounds.         *)
(***************************************************************************)
EXTENDS LibraryImportProperties, SequenceTheorems, TLAPS

-----------------------------------------------------------------------------
(* The inductive invariant.  The type of the tables depends on the backup  *)
(* being there when it is restored, so types and backup go together.       *)

\* A client that has not registered has nothing to do.
UnregisteredIsIdle ==
  \A p \in Profiles :
    client[p].link = "none" => client[p].requests = 0 /\ client[p].listed = None

\* The import knows its library once it has opened it.
ImportKnowsItsFiles ==
  mImporterThread # None /\ mImporterThread.at # "begin" => Library \in Profiles

\* Only the import that made or found the backup removes it, at its end.
BackupStaysForRestore ==
  mImporterThread # None /\ BackupFile # None
    /\ mImporterThread.at \in {"clear", "insert", "restore", "remove backup"} =>
  backup[BackupFile] # None

\* The import has no backup file before it has looked for one.
NoFileYet ==
  mImporterThread # None /\ mImporterThread.at \in {"begin", "back up"} => BackupFile = None

IInv ==
  /\ TypeOK
  /\ UnregisteredIsIdle
  /\ ImportKnowsItsFiles
  /\ BackupStaysForRestore
  /\ NoFileYet

-----------------------------------------------------------------------------
(* What the actions build has the right type.                              *)

(* The notifications that carry nothing but their name are well formed.    *)
LEMMA NamedType ==
  ASSUME NEW name \in {"Connected", "Disconnected", "DatabaseUpdated", "BeganImport",
                       "FinishedImport"}
  PROVE  Named(name) \in Notification
BY DEF Named, Notification

(* Posting keeps the queue of the main thread well formed.                 *)
LEMMA PostType ==
  ASSUME TypeOK, NEW n \in Notification, Post(n)
  PROVE  mainQueue' \in Seq(Notification)
<1>1. mainQueue \in Seq(Notification)
  BY DEF TypeOK
<1> QED BY <1>1, AppendProperties DEF Post

(* Asking for the identifier leaves well formed stats.                     *)
LEMMA AskingType ==
  ASSUME IInv, NEW p \in Profiles
  PROVE  /\ StatsAfterAsking(p) \in Nat \cup {None}
         /\ client[p].link # "none" => DatabaseIdentifier(p) \in Identifier
<1>1. client[p] \in Client /\ server[p].time \in Nat
  BY DEF IInv, TypeOK
<1>3. StatsAfterAsking(p) \in Nat \cup {None}
  BY <1>1 DEF StatsAfterAsking, Client
<1>4. ASSUME client[p].link # "none"
      PROVE  DatabaseIdentifier(p) \in Identifier
  <2>1. CASE IsConnected(p)
    <3>1. StatsAfterAsking(p) \in Nat
      BY <1>1, <2>1 DEF StatsAfterAsking, LoadsStats, Client
    <3> QED BY <2>1, <3>1 DEF DatabaseIdentifier, TimeOf, Identifier
  <2>2. CASE ~IsConnected(p)
    BY <1>4, <2>2 DEF DatabaseIdentifier, NotConnected, TimeOf, Identifier
  <2> QED BY <2>1, <2>2
<1> QED BY <1>3, <1>4

(* A bounded event is counted.                                             *)
LEMMA SpendType ==
  ASSUME TypeOK, NEW k \in Bounded, Spend(k)
  PROVE  spent' \in [Bounded -> Nat]
BY DEF TypeOK, Spend

(* Taking a notification leaves the others well formed.                    *)
LEMMA ArrivesType ==
  ASSUME TypeOK, NEW name, Arrives(name)
  PROVE  /\ Head(mainQueue) \in Notification
         /\ Tail(mainQueue) \in Seq(Notification)
<1>1. mainQueue \in Seq(Notification) /\ mainQueue # <<>>
  BY DEF TypeOK, Arrives
<1> QED BY <1>1, HeadTailProperties

-----------------------------------------------------------------------------
(* The initial states.                                                     *)

(* Nothing runs when the program starts.                                   *)
LEMMA InitIInv ==
  ASSUME Init
  PROVE  IInv
<1>1. TypeOK
  <2>1. client \in [Profiles -> Client]
    BY DEF Init, NewClient, Client
  <2>2. db \in [Profiles -> [songs : SUBSET Songs, flags : SUBSET Songs,
                             identifier : Identifier \cup {None}]]
    <3>1. \A p \in Profiles : TimeOf(p, 1) \in Identifier
      BY DEF TimeOf, Identifier
    <3> QED BY <3>1 DEF Init
  <2>3. server \in [Profiles -> [songs : SUBSET Songs, time : Nat, updating : BOOLEAN]]
    <3>1. \A r \in [songs : SUBSET Songs, time : {1}, updating : {FALSE}] :
            r \in [songs : SUBSET Songs, time : Nat, updating : BOOLEAN]
      <4>1. 1 \in Nat /\ FALSE \in BOOLEAN
        OBVIOUS
      <4>2. {1} \subseteq Nat /\ {FALSE} \subseteq BOOLEAN
        BY <4>1
      <4> QED BY <4>2, Zenon
    <3>2. server \in [Profiles -> [songs : SUBSET Songs, time : {1}, updating : {FALSE}]]
      BY DEF Init
    <3> QED BY <3>1, <3>2
  <2>4. marks \in [Profiles -> [Songs -> Decision]]
    BY DEF Init, Decision
  <2>5. mainQueue \in Seq(Notification)
    BY DEF Init
  <2>6. /\ currentProfile \in Profiles /\ view \in {"off", "shown", "stale"}
        /\ mImporterThread \in Import \cup {None}
        /\ mQueued \in [songs : SUBSET Songs, identifier : Identifier] \cup {None}
        /\ backup \in [Profiles -> (SUBSET Songs) \cup {None}]
        /\ spent \in [Bounded -> Nat]
    BY ProfilesAssumption DEF Init
  <2> QED BY <2>1, <2>2, <2>3, <2>4, <2>5, <2>6 DEF TypeOK
<1>2. UnregisteredIsIdle
  BY DEF Init, NewClient, UnregisteredIsIdle
<1>3. ImportKnowsItsFiles /\ BackupStaysForRestore /\ NoFileYet
  BY DEF Init, ImportKnowsItsFiles, BackupStaysForRestore, NoFileYet
<1> QED BY <1>1, <1>2, <1>3 DEF IInv

-----------------------------------------------------------------------------
(* The client threads.                                                     *)

(* A client's step that changes only that client, the queue and the        *)
(* counters keeps the invariant if it keeps their types.                   *)
LEMMA ClientChanges ==
  ASSUME IInv, NEW p \in Profiles, NEW c \in Client,
         client' = [client EXCEPT ![p] = c],
         c.link = "none" => c.requests = 0 /\ c.listed = None,
         mainQueue' \in Seq(Notification),
         spent' \in [Bounded -> Nat],
         UNCHANGED <<mainVars, diskVars, server, marks>>
  PROVE  IInv'
<1> USE DEF mainVars, diskVars
<1>1. TypeOK'
  BY DEF IInv, TypeOK
<1>2. UnregisteredIsIdle'
  <2>1. client \in [Profiles -> Client]
    BY DEF IInv, TypeOK
  <2> QED BY <2>1 DEF IInv, UnregisteredIsIdle
<1>3. ImportKnowsItsFiles' /\ BackupStaysForRestore' /\ NoFileYet'
  BY DEF IInv, ImportKnowsItsFiles, BackupStaysForRestore, NoFileYet, Library, BackupFile
<1> QED BY <1>1, <1>2, <1>3 DEF IInv

(* Every step of a client thread keeps the invariant.                      *)
LEMMA ClientStepIInv ==
  ASSUME IInv, NEW p \in Profiles, ClientStep(p)
  PROVE  IInv'
<1> DEFINE C == client[p]
<1>1. /\ client \in [Profiles -> Client] /\ C \in Client
      /\ mainQueue \in Seq(Notification) /\ spent \in [Bounded -> Nat]
      /\ server[p] \in [songs : SUBSET Songs, time : Nat, updating : BOOLEAN]
      /\ TypeOK
  BY DEF IInv, TypeOK
<1>2. C.link = "none" => C.requests = 0 /\ C.listed = None
  BY DEF IInv, UnregisteredIsIdle
<1>3. CASE Register(p)
  <2>1. [C EXCEPT !.link = "down"] \in Client
    BY <1>1 DEF Client
  <2>2. client' = [client EXCEPT ![p] = [C EXCEPT !.link = "down"]]
    BY <1>1, <1>3 DEF Register
  <2>3. mainQueue' \in Seq(Notification) /\ spent' \in [Bounded -> Nat]
        /\ UNCHANGED <<mainVars, diskVars, server, marks>>
    BY <1>1, <1>3 DEF Register
  <2> QED BY <1>1, <2>1, <2>2, <2>3, ClientChanges DEF Client
<1>4. CASE Connect(p)
  <2>1. [C EXCEPT !.link = "up"] \in Client
    BY <1>1 DEF Client
  <2>2. client' = [client EXCEPT ![p] = [C EXCEPT !.link = "up"]]
    BY <1>1, <1>4 DEF Connect
  <2>3. mainQueue' \in Seq(Notification)
    BY <1>1, <1>4, NamedType, PostType DEF Connect
  <2>4. spent' \in [Bounded -> Nat] /\ UNCHANGED <<mainVars, diskVars, server, marks>>
    BY <1>1, <1>4 DEF Connect
  <2> QED BY <1>1, <2>1, <2>2, <2>3, <2>4, ClientChanges DEF Client
<1>5. CASE ListSongs(p)
  <2> DEFINE list == IF IsConnected(p) THEN server[p].songs ELSE {}
             c == [C EXCEPT !.requests = @ - 1, !.listed = list]
  <2>1. list \in SUBSET Songs
    BY <1>1
  <2>2. c \in Client /\ c.link = C.link /\ C.link # "none"
    <3>1. C.requests \in Nat /\ C.requests > 0
      BY <1>1, <1>5 DEF Client, ListSongs
    <3>2. C.requests - 1 \in Nat /\ C.link # "none"
      BY <1>2, <3>1
    <3> HIDE DEF list
    <3> QED BY <1>1, <2>1, <3>2 DEF Client
  <2>3. client' = [client EXCEPT ![p] = c]
    BY <1>1, <1>5 DEF ListSongs
  <2>4. /\ mainQueue' \in Seq(Notification) /\ spent' \in [Bounded -> Nat]
        /\ UNCHANGED <<mainVars, diskVars, server, marks>>
    BY <1>1, <1>5 DEF ListSongs
  <2> HIDE DEF c
  <2> QED BY <2>2, <2>3, <2>4, ClientChanges
<1>6. CASE PostFetchedDatabase(p)
  <2> DEFINE c == [C EXCEPT !.listed = None, !.stats = StatsAfterAsking(p)]
             n == [name |-> "FetchedDatabase", songs |-> C.listed,
                   identifier |-> DatabaseIdentifier(p)]
  <2>1. C.link # "none" /\ C.listed \in SUBSET Songs
    BY <1>1, <1>2, <1>6 DEF Client, PostFetchedDatabase
  <2>2. /\ StatsAfterAsking(p) \in Nat \cup {None}
        /\ DatabaseIdentifier(p) \in Identifier
    BY <2>1, AskingType
  <2>3. n \in Notification
    BY <2>1, <2>2 DEF Notification
  <2>4. mainQueue' \in Seq(Notification)
    <3>1. Post(n)
      BY <1>6 DEF PostFetchedDatabase
    <3> HIDE DEF n
    <3> QED BY <1>1, <2>3, <3>1, PostType
  <2>5. c \in Client /\ c.link = C.link
    BY <1>1, <2>2 DEF Client
  <2>6. client' = [client EXCEPT ![p] = c]
    BY <1>1, <1>6 DEF PostFetchedDatabase
  <2>7. spent' \in [Bounded -> Nat] /\ UNCHANGED <<mainVars, diskVars, server, marks>>
    BY <1>1, <1>6 DEF PostFetchedDatabase
  <2> HIDE DEF c
  <2> QED BY <2>1, <2>4, <2>5, <2>6, <2>7, ClientChanges
<1>7. CASE Poll(p)
  <2> DEFINE stopped == C.updatingDb /\ ~server[p].updating
             c == [C EXCEPT !.updatingDb = server[p].updating, !.event = FALSE,
                     !.stats = IF stopped \/ C.event THEN server[p].time ELSE @]
  <2>1. c \in Client /\ c.link = C.link
    BY <1>1 DEF Client
  <2>2. client' = [client EXCEPT ![p] = c] /\ C.link # "none"
    BY <1>1, <1>7 DEF Poll, IsConnected
  <2>3. mainQueue' \in Seq(Notification)
    <3>1. Post(Named("DatabaseUpdated")) \/ UNCHANGED mainQueue
      BY <1>7 DEF Poll
    <3> QED BY <1>1, <3>1, NamedType, PostType
  <2>4. spent' \in [Bounded -> Nat] /\ UNCHANGED <<mainVars, diskVars, server, marks>>
    BY <1>1, <1>7 DEF Poll
  <2> HIDE DEF c
  <2> QED BY <2>1, <2>2, <2>3, <2>4, ClientChanges
<1>8. CASE NoticeLoss(p)
  <2>1. [C EXCEPT !.link = "down"] \in Client
    BY <1>1 DEF Client
  <2>2. client' = [client EXCEPT ![p] = [C EXCEPT !.link = "down"]]
    BY <1>1, <1>8 DEF NoticeLoss
  <2>3. mainQueue' \in Seq(Notification)
    BY <1>1, <1>8, NamedType, PostType DEF NoticeLoss
  <2>4. spent' \in [Bounded -> Nat] /\ UNCHANGED <<mainVars, diskVars, server, marks>>
    BY <1>1, <1>8 DEF NoticeLoss
  <2> QED BY <1>1, <2>1, <2>2, <2>3, <2>4, ClientChanges DEF Client
<1>9. CASE ExitThread(p)
  <2>1. NewClient \in Client /\ NewClient.requests = 0 /\ NewClient.listed = None
    BY DEF NewClient, Client
  <2>2. client' = [client EXCEPT ![p] = NewClient]
    BY <1>9 DEF ExitThread
  <2>3. /\ mainQueue' \in Seq(Notification) /\ spent' \in [Bounded -> Nat]
        /\ UNCHANGED <<mainVars, diskVars, server, marks>>
    BY <1>1, <1>9 DEF ExitThread
  <2> QED BY <2>1, <2>2, <2>3, ClientChanges
<1> QED BY <1>3, <1>4, <1>5, <1>6, <1>7, <1>8, <1>9 DEF ClientStep

-----------------------------------------------------------------------------
(* The main thread.                                                        *)

(* Sending startFetchDatabase keeps the clients well formed and an         *)
(* unregistered client idle.                                               *)
LEMMA StartFetchDatabaseType ==
  ASSUME IInv, NEW clients \in [Profiles -> Client],
         \A p \in Profiles : clients[p].link = "none" =>
           clients[p].requests = 0 /\ clients[p].listed = None
  PROVE  /\ StartFetchDatabase(clients) \in [Profiles -> Client]
         /\ \A p \in Profiles : StartFetchDatabase(clients)[p].link = "none" =>
              /\ StartFetchDatabase(clients)[p].requests = 0
              /\ StartFetchDatabase(clients)[p].listed = None
<1> DEFINE C == clients[currentProfile]
           c == [C EXCEPT !.requests = @ + 1]
<1>1. currentProfile \in Profiles /\ C \in Client
  BY DEF IInv, TypeOK
<1>2. CASE C.link = "none"
  BY <1>2 DEF StartFetchDatabase
<1>3. CASE C.link # "none"
  <2>1. C.requests + 1 \in Nat
    BY <1>1 DEF Client
  <2>2. c \in Client /\ c.link = C.link
    BY <1>1, <2>1 DEF Client
  <2>3. StartFetchDatabase(clients) = [clients EXCEPT ![currentProfile] = c]
    BY <1>3 DEF StartFetchDatabase
  <2> HIDE DEF c
  <2> QED BY <1>1, <1>3, <2>2, <2>3
<1> QED BY <1>2, <1>3

(* A step that leaves the import and the disk alone keeps what the         *)
(* invariant says of them.                                                 *)
LEMMA ImportUnchanged ==
  ASSUME IInv, UNCHANGED <<mImporterThread, backup>>
  PROVE  ImportKnowsItsFiles' /\ BackupStaysForRestore' /\ NoFileYet'
BY DEF IInv, ImportKnowsItsFiles, BackupStaysForRestore, NoFileYet, Library, BackupFile

(* A step that leaves the clients alone keeps an unregistered one idle.    *)
LEMMA ClientUnchanged ==
  ASSUME IInv, UNCHANGED client
  PROVE  UnregisteredIsIdle'
BY DEF IInv, UnregisteredIsIdle

(* An import that begins knows nothing of its files yet.                   *)
LEMMA StartImportInv ==
  ASSUME NEW songs \in SUBSET Songs, NEW identifier \in Identifier,
         StartImport(songs, identifier)
  PROVE  /\ mImporterThread' \in Import
         /\ ImportKnowsItsFiles' /\ BackupStaysForRestore' /\ NoFileYet'
<1>1. mImporterThread' \in Import
  BY DEF StartImport, Import
<1>2. mImporterThread'.at = "begin" /\ BackupFile' = None
  BY DEF StartImport, BackupFile
<1> QED BY <1>1, <1>2 DEF ImportKnowsItsFiles, BackupStaysForRestore, NoFileYet

(* Every notification that the main thread handles keeps the invariant.    *)
LEMMA MainStepIInv ==
  ASSUME IInv, MainStep
  PROVE  IInv'
<1> USE DEF mainVars, diskVars
<1>1. TypeOK /\ client \in [Profiles -> Client]
  BY DEF IInv, TypeOK
<1>2. CASE HandleConnected
  <2> DEFINE p == currentProfile
             asked == [client EXCEPT ![p].stats = StatsAfterAsking(p)]
  <2>1. p \in Profiles
    BY <1>1 DEF TypeOK
  <2>2. /\ asked \in [Profiles -> Client]
        /\ \A q \in Profiles : asked[q].link = "none" =>
             asked[q].requests = 0 /\ asked[q].listed = None
    <3>1. StatsAfterAsking(p) \in Nat \cup {None}
      BY <2>1, AskingType
    <3>2. [client[p] EXCEPT !.stats = StatsAfterAsking(p)] \in Client
      BY <1>1, <2>1, <3>1 DEF Client
    <3>3. \A q \in Profiles : /\ asked[q] \in Client
                              /\ asked[q].link = client[q].link
                              /\ asked[q].requests = client[q].requests
                              /\ asked[q].listed = client[q].listed
      BY <1>1, <2>1, <3>2 DEF Client
    <3> QED BY <1>1, <3>3 DEF IInv, UnregisteredIsIdle
  <2> HIDE DEF asked
  <2>3. client' \in [Profiles -> Client] /\ UnregisteredIsIdle'
    <3>1. client' = asked \/ client' = StartFetchDatabase(asked)
      BY <1>2 DEF HandleConnected, asked
    <3> QED BY <2>2, <3>1, StartFetchDatabaseType DEF UnregisteredIsIdle
  <2>4. mainQueue' \in Seq(Notification)
    BY <1>1, <1>2, ArrivesType DEF HandleConnected
  <2>5. view' \in {"off", "shown", "stale"}
    BY <1>1, <1>2 DEF HandleConnected, TypeOK
  <2>6. UNCHANGED <<currentProfile, mImporterThread, mQueued, db, backup, server, marks, spent>>
    BY <1>2 DEF HandleConnected
  <2>7. TypeOK'
    BY <1>1, <2>3, <2>4, <2>5, <2>6 DEF TypeOK
  <2> QED BY <2>3, <2>6, <2>7, ImportUnchanged DEF IInv
<1>3. CASE HandleDisconnected
  <2>1. Tail(mainQueue) \in Seq(Notification)
    BY <1>1, <1>3, ArrivesType DEF HandleDisconnected
  <2>2. TypeOK'
    BY <1>1, <1>3, <2>1 DEF HandleDisconnected, TypeOK
  <2> QED BY <1>3, <2>2, ImportUnchanged, ClientUnchanged DEF HandleDisconnected, IInv
<1>4. CASE HandleDatabaseUpdated
  <2>1. Tail(mainQueue) \in Seq(Notification)
    BY <1>1, <1>4, ArrivesType DEF HandleDatabaseUpdated
  <2>2. client' \in [Profiles -> Client] /\ UnregisteredIsIdle'
    <3>1. client' = StartFetchDatabase(client)
      BY <1>4 DEF HandleDatabaseUpdated
    <3> QED BY <1>1, <3>1, StartFetchDatabaseType DEF IInv, UnregisteredIsIdle
  <2>3. TypeOK'
    BY <1>1, <1>4, <2>1, <2>2 DEF HandleDatabaseUpdated, TypeOK
  <2> QED BY <1>4, <2>2, <2>3, ImportUnchanged DEF HandleDatabaseUpdated, IInv
<1>5. CASE HandleFetchedDatabase
  <2> DEFINE fetched == Head(mainQueue)
  <2>1. fetched \in Notification /\ Tail(mainQueue) \in Seq(Notification)
        /\ fetched.name = "FetchedDatabase"
    BY <1>1, <1>5, ArrivesType DEF HandleFetchedDatabase, Arrives
  <2>2. fetched.songs \in SUBSET Songs /\ fetched.identifier \in Identifier
    BY <2>1 DEF Notification
  <2>3. /\ mainQueue' = Tail(mainQueue)
        /\ UNCHANGED <<currentProfile, view, client, db, backup, server, marks, spent>>
    BY <1>5 DEF HandleFetchedDatabase
  <2>4. CASE mImporterThread # None
    <3>1. /\ mQueued' = [songs |-> fetched.songs, identifier |-> fetched.identifier]
          /\ UNCHANGED mImporterThread
      BY <1>5, <2>4 DEF HandleFetchedDatabase
    <3>2. TypeOK'
      BY <1>1, <2>1, <2>2, <2>3, <3>1 DEF TypeOK
    <3> QED BY <2>3, <3>1, <3>2, ImportUnchanged, ClientUnchanged DEF IInv
  <2>5. CASE mImporterThread = None
    <3>1. StartImport(fetched.songs, fetched.identifier) /\ UNCHANGED mQueued
      BY <1>5, <2>5 DEF HandleFetchedDatabase
    <3>2. mImporterThread' \in Import /\ ImportKnowsItsFiles' /\ BackupStaysForRestore' /\ NoFileYet'
      BY <2>2, <3>1, StartImportInv
    <3>3. TypeOK'
      BY <1>1, <2>1, <2>3, <3>1, <3>2 DEF TypeOK
    <3> QED BY <2>3, <3>2, <3>3, ClientUnchanged DEF IInv
  <2> QED BY <2>4, <2>5
<1>6. CASE HandleBeganImport
  <2>1. Tail(mainQueue) \in Seq(Notification)
    BY <1>1, <1>6, ArrivesType DEF HandleBeganImport
  <2>2. TypeOK'
    BY <1>1, <1>6, <2>1 DEF HandleBeganImport, TypeOK
  <2> QED BY <1>6, <2>2, ImportUnchanged, ClientUnchanged DEF HandleBeganImport, IInv
<1>7. CASE HandleFinishedImport
  <2>1. /\ mainQueue' = Tail(mainQueue) /\ view' = "shown" /\ mQueued' = None
        /\ UNCHANGED <<currentProfile, client, db, backup, server, marks, spent>>
        /\ Tail(mainQueue) \in Seq(Notification)
    BY <1>1, <1>7, ArrivesType DEF HandleFinishedImport
  <2>2. CASE mQueued # None
    <3>1. mQueued.songs \in SUBSET Songs /\ mQueued.identifier \in Identifier
      BY <1>1, <2>2 DEF TypeOK
    <3>2. StartImport(mQueued.songs, mQueued.identifier)
      BY <1>7, <2>2 DEF HandleFinishedImport
    <3>3. mImporterThread' \in Import /\ ImportKnowsItsFiles' /\ BackupStaysForRestore' /\ NoFileYet'
      BY <3>1, <3>2, StartImportInv
    <3>4. TypeOK'
      BY <1>1, <2>1, <3>3 DEF TypeOK
    <3> QED BY <2>1, <3>3, <3>4, ClientUnchanged DEF IInv
  <2>3. CASE mQueued = None
    <3>1. mImporterThread' = None
      BY <1>7, <2>3 DEF HandleFinishedImport
    <3>2. ImportKnowsItsFiles' /\ BackupStaysForRestore' /\ NoFileYet'
      BY <3>1 DEF ImportKnowsItsFiles, BackupStaysForRestore, NoFileYet
    <3>3. TypeOK'
      BY <1>1, <2>1, <3>1 DEF TypeOK
    <3> QED BY <2>1, <3>2, <3>3, ClientUnchanged DEF IInv
  <2> QED BY <2>2, <2>3
<1> QED BY <1>2, <1>3, <1>4, <1>5, <1>6, <1>7 DEF MainStep

-----------------------------------------------------------------------------
(* The import thread.                                                      *)

(* What a step of the import thread starts from, and the record it goes on *)
(* with.                                                                   *)
LEMMA ImportFields ==
  ASSUME IInv, mImporterThread # None
  PROVE  /\ mImporterThread \in Import
         /\ \A step \in {"back up", "clear", "insert", "restore", "remove backup",
                          "finish", "finished"} :
              [mImporterThread EXCEPT !.at = step] \in Import
BY DEF IInv, TypeOK, Import

(* Going on leaves the files of the import as they are.                    *)
LEMMA GoToInv ==
  ASSUME IInv, NEW step \in {"insert", "restore", "remove backup", "finish", "finished"},
         mImporterThread # None, mImporterThread.at \notin {"begin", "back up"},
         GoTo(step)
  PROVE  /\ mImporterThread' \in Import
         /\ mImporterThread'.at = step
         /\ Library' = Library /\ BackupFile' = BackupFile
         /\ Library \in Profiles
         /\ ImportKnowsItsFiles' /\ NoFileYet'
<1>1. mImporterThread \in Import
  BY ImportFields
<1>2. mImporterThread' = [mImporterThread EXCEPT !.at = step]
  BY DEF GoTo
<1>3. mImporterThread' \in Import
  BY <1>2, ImportFields
<1>4. /\ mImporterThread'.at = step
      /\ mImporterThread'.library = mImporterThread.library
      /\ mImporterThread'.file = mImporterThread.file
  BY <1>1, <1>2 DEF Import
<1>5. mImporterThread.library \in Profiles
  BY DEF IInv, ImportKnowsItsFiles, Library
<1> QED BY <1>3, <1>4, <1>5 DEF ImportKnowsItsFiles, NoFileYet, Library, BackupFile

(* Every step of the import thread keeps the invariant.                    *)
LEMMA ImportStepIInv ==
  ASSUME IInv, ImportStep
  PROVE  IInv'
<1> USE DEF mainVars, diskVars
<1> DEFINE Tables == [songs : SUBSET Songs, flags : SUBSET Songs,
                      identifier : Identifier \cup {None}]
<1>1. TypeOK /\ db \in [Profiles -> Tables] /\ currentProfile \in Profiles
      /\ backup \in [Profiles -> (SUBSET Songs) \cup {None}]
  BY DEF IInv, TypeOK
<1>2. CASE OpenLibrary
  <2>1. mImporterThread # None /\ mImporterThread \in Import
    BY <1>2, ImportFields DEF OpenLibrary, At
  <2>2. /\ mImporterThread' \in Import
        /\ mImporterThread'.at = "back up" /\ mImporterThread'.library = currentProfile
        /\ mImporterThread'.file = None
    BY <1>1, <1>2, <2>1 DEF OpenLibrary, Import, IInv, NoFileYet, At, BackupFile
  <2>3. mainQueue' \in Seq(Notification)
    BY <1>1, <1>2, NamedType, PostType DEF OpenLibrary
  <2>4. TypeOK'
    BY <1>1, <1>2, <2>2, <2>3 DEF OpenLibrary, TypeOK
  <2>5. ImportKnowsItsFiles' /\ BackupStaysForRestore' /\ NoFileYet'
    BY <1>1, <1>2, <2>2
    DEF OpenLibrary, ImportKnowsItsFiles, BackupStaysForRestore, NoFileYet, Library, BackupFile
  <2> QED BY <1>2, <2>4, <2>5, ClientUnchanged DEF OpenLibrary, IInv
<1>3. CASE BackUpCompilations
  <2> DEFINE file == currentProfile
  <2>1. mImporterThread # None /\ mImporterThread \in Import
        /\ mImporterThread.at = "back up"
    BY <1>3, ImportFields DEF BackUpCompilations, At
  <2>2. Library \in Profiles
    BY <2>1 DEF IInv, ImportKnowsItsFiles
  <2>3. /\ mImporterThread' \in Import
        /\ mImporterThread'.at = "clear" /\ mImporterThread'.file = file
        /\ mImporterThread'.library = Library
    BY <1>1, <1>3, <2>1 DEF BackUpCompilations, Import, Library
  <2>4. db[Library].flags \in SUBSET Songs /\ db[Library].flags # None
    BY <1>1, <2>2, NoneAssumption
  <2>5. backup' \in [Profiles -> (SUBSET Songs) \cup {None}] /\ backup'[file] # None
    BY <1>1, <1>3, <2>4 DEF BackUpCompilations
  <2>6. TypeOK'
    BY <1>1, <1>3, <2>3, <2>5 DEF BackUpCompilations, TypeOK
  <2>7. ImportKnowsItsFiles' /\ BackupStaysForRestore' /\ NoFileYet'
    BY <1>1, <2>2, <2>3, <2>5
    DEF ImportKnowsItsFiles, BackupStaysForRestore, NoFileYet, Library, BackupFile
  <2> QED BY <1>3, <2>6, <2>7, ClientUnchanged DEF BackUpCompilations, IInv
<1>4. CASE Clear
  <2>1. mImporterThread # None /\ mImporterThread.at = "clear" /\ GoTo("insert")
    BY <1>4 DEF Clear, At
  <2>2. /\ mImporterThread' \in Import /\ mImporterThread'.at = "insert"
        /\ Library \in Profiles /\ BackupFile' = BackupFile /\ ImportKnowsItsFiles' /\ NoFileYet'
    BY <2>1, GoToInv
  <2>3. [db[Library] EXCEPT !.songs = {}, !.flags = {}] \in Tables
    BY <1>1, <2>2
  <2>4. db' = [db EXCEPT ![Library] = [db[Library] EXCEPT !.songs = {}, !.flags = {}]]
    BY <1>1, <1>4, <2>2 DEF Clear
  <2>5. view' \in {"off", "shown", "stale"}
    BY <1>1, <1>4 DEF Clear, ViewAfterWriting, TypeOK
  <2>6. TypeOK'
    BY <1>1, <1>4, <2>2, <2>3, <2>4, <2>5 DEF Clear, TypeOK
  <2>7. BackupStaysForRestore'
    BY <1>4, <2>1, <2>2 DEF Clear, IInv, BackupStaysForRestore
  <2> QED BY <1>4, <2>2, <2>6, <2>7, ClientUnchanged DEF Clear, IInv
<1>5. CASE InsertSongs
  <2> DEFINE filled == [db[Library] EXCEPT !.songs = mImporterThread.songs,
                                           !.identifier = mImporterThread.identifier]
  <2>1. mImporterThread # None /\ mImporterThread.at = "insert" /\ GoTo("restore")
    BY <1>5 DEF InsertSongs, At
  <2>2. /\ mImporterThread' \in Import /\ mImporterThread'.at = "restore"
        /\ Library \in Profiles /\ BackupFile' = BackupFile /\ ImportKnowsItsFiles' /\ NoFileYet'
    BY <2>1, GoToInv
  <2>3. mImporterThread.songs \in SUBSET Songs /\ mImporterThread.identifier \in Identifier
    BY <2>1, ImportFields DEF Import
  <2>4. filled \in Tables
    BY <1>1, <2>2, <2>3
  <2>5. db' = [db EXCEPT ![Library] = filled]
    BY <1>1, <1>5, <2>2 DEF InsertSongs
  <2>6. view' \in {"off", "shown", "stale"}
    BY <1>1, <1>5 DEF InsertSongs, ViewAfterWriting, TypeOK
  <2>7. TypeOK'
    BY <1>1, <1>5, <2>2, <2>4, <2>5, <2>6 DEF InsertSongs, TypeOK
  <2>8. BackupStaysForRestore'
    BY <1>5, <2>1, <2>2 DEF InsertSongs, IInv, BackupStaysForRestore
  <2> QED BY <1>5, <2>2, <2>7, <2>8, ClientUnchanged DEF InsertSongs, IInv
<1>6. CASE RestoreCompilations
  <2> DEFINE saved == IF BackupFile = None THEN {} ELSE backup[BackupFile]
             restored == db[Library].flags \cup (db[Library].songs \cap saved)
             marked == [db[Library] EXCEPT !.flags = restored]
  <2>1. mImporterThread # None /\ mImporterThread.at = "restore" /\ GoTo("remove backup")
    BY <1>6 DEF RestoreCompilations, At
  <2>2. /\ mImporterThread' \in Import /\ mImporterThread'.at = "remove backup"
        /\ Library \in Profiles /\ BackupFile' = BackupFile /\ ImportKnowsItsFiles' /\ NoFileYet'
    BY <2>1, GoToInv
  <2>3. restored \in SUBSET Songs
    BY <1>1, <2>2
  <2>4. marked \in Tables
    BY <1>1, <2>2, <2>3
  <2>5. db' = db \/ db' = [db EXCEPT ![Library] = marked]
    BY <1>1, <1>6, <2>2 DEF RestoreCompilations
  <2>6. TypeOK'
    <3> HIDE DEF marked
    <3>1. db' \in [Profiles -> Tables]
      BY <1>1, <2>4, <2>5
    <3> QED BY <1>1, <1>6, <2>2, <3>1 DEF RestoreCompilations, TypeOK
  <2>7. BackupStaysForRestore'
    BY <1>6, <2>1, <2>2 DEF RestoreCompilations, IInv, BackupStaysForRestore
  <2> QED BY <1>6, <2>2, <2>6, <2>7, ClientUnchanged DEF RestoreCompilations, IInv
<1>7. CASE RemoveBackup
  <2>1. mImporterThread # None /\ mImporterThread.at = "remove backup" /\ GoTo("finish")
    BY <1>7 DEF RemoveBackup, At
  <2>2. /\ mImporterThread' \in Import /\ mImporterThread'.at = "finish"
        /\ ImportKnowsItsFiles' /\ NoFileYet'
    BY <2>1, GoToInv
  <2>3. TypeOK'
    <3>1. backup' \in [Profiles -> (SUBSET Songs) \cup {None}]
      BY <1>1, <1>7 DEF RemoveBackup
    <3> QED BY <1>1, <1>7, <2>2, <3>1 DEF RemoveBackup, TypeOK
  <2>4. BackupStaysForRestore'
    BY <2>2 DEF BackupStaysForRestore
  <2> QED BY <1>7, <2>2, <2>3, <2>4, ClientUnchanged DEF RemoveBackup, IInv
<1>8. CASE PostFinishedImport
  <2>1. mImporterThread # None /\ mImporterThread.at = "finish" /\ GoTo("finished")
    BY <1>8 DEF PostFinishedImport, At
  <2>2. /\ mImporterThread' \in Import /\ mImporterThread'.at = "finished"
        /\ ImportKnowsItsFiles' /\ NoFileYet'
    BY <2>1, GoToInv
  <2>3. mainQueue' \in Seq(Notification)
    BY <1>1, <1>8, NamedType, PostType DEF PostFinishedImport
  <2>4. TypeOK'
    BY <1>1, <1>8, <2>2, <2>3 DEF PostFinishedImport, TypeOK
  <2>5. BackupStaysForRestore'
    BY <2>2 DEF BackupStaysForRestore
  <2> QED BY <1>8, <2>2, <2>4, <2>5, ClientUnchanged DEF PostFinishedImport, IInv
<1> QED BY <1>2, <1>3, <1>4, <1>5, <1>6, <1>7, <1>8 DEF ImportStep

-----------------------------------------------------------------------------
(* The user, the servers and what goes wrong.                              *)

(* What the user decides on a song is recorded.                            *)
LEMMA DecideType ==
  ASSUME TypeOK, NEW p \in Profiles, NEW s \in Songs, NEW on \in BOOLEAN,
         Decide(p, s, on)
  PROVE  marks' \in [Profiles -> [Songs -> Decision]]
<1>1. marks \in [Profiles -> [Songs -> Decision]]
  BY DEF TypeOK
<1> QED BY <1>1 DEF Decide, Decision

(* Whatever the user does, the invariant holds.                            *)
LEMMA UserStepIInv ==
  ASSUME IInv, UserStep
  PROVE  IInv'
<1> USE DEF mainVars, diskVars
<1> DEFINE Tables == [songs : SUBSET Songs, flags : SUBSET Songs,
                      identifier : Identifier \cup {None}]
<1>1. TypeOK /\ db \in [Profiles -> Tables] /\ currentProfile \in Profiles
      /\ client \in [Profiles -> Client]
  BY DEF IInv, TypeOK
<1>2. \A k \in {"switches", "edits"} : k \in Bounded
  BY DEF Bounded
<1>3. ASSUME NEW p \in Profiles, SelectProfile(p)
      PROVE  IInv'
  <2>1. NewClient \in Client /\ NewClient.requests = 0 /\ NewClient.listed = None
    BY DEF NewClient, Client
  <2>2. spent' \in [Bounded -> Nat]
    BY <1>1, <1>2, <1>3, SpendType DEF SelectProfile
  <2>3. TypeOK'
    BY <1>1, <1>3, <2>1, <2>2 DEF SelectProfile, TypeOK
  <2>4. UnregisteredIsIdle'
    BY <1>1, <1>3, <2>1 DEF SelectProfile, IInv, UnregisteredIsIdle
  <2> QED BY <1>3, <2>3, <2>4, ImportUnchanged DEF SelectProfile, IInv
<1>4. ASSUME NEW s \in Songs, ToggleIsPartOfCompilation(s)
      PROVE  IInv'
  <2> DEFINE p == currentProfile
             on == s \notin db[p].flags
             toggled == IF on THEN db[p].flags \cup {s} ELSE db[p].flags \ {s}
             row == [db[p] EXCEPT !.flags = toggled]
  <2>1. spent' \in [Bounded -> Nat]
    BY <1>1, <1>2, <1>4, SpendType DEF ToggleIsPartOfCompilation
  <2>2. marks' \in [Profiles -> [Songs -> Decision]]
    BY <1>1, <1>4, DecideType DEF ToggleIsPartOfCompilation
  <2>3. row \in Tables
    BY <1>1
  <2>4. db' = [db EXCEPT ![p] = row]
    BY <1>1, <1>4 DEF ToggleIsPartOfCompilation
  <2>5. TypeOK'
    <3> HIDE DEF row
    <3>1. db' \in [Profiles -> Tables]
      BY <1>1, <2>3, <2>4
    <3>2. view' \in {"off", "shown", "stale"}
      BY <1>1, <1>4 DEF ToggleIsPartOfCompilation, TypeOK
    <3> QED BY <1>1, <1>4, <2>1, <2>2, <3>1, <3>2 DEF ToggleIsPartOfCompilation, TypeOK
  <2> QED BY <1>4, <2>5, ImportUnchanged, ClientUnchanged
          DEF ToggleIsPartOfCompilation, IInv
<1>5. ASSUME NEW s \in Songs, DetectCompilations(s)
      PROVE  IInv'
  <2> DEFINE p == currentProfile
             row == [db[p] EXCEPT !.flags = @ \cup {s}]
  <2>1. spent' \in [Bounded -> Nat]
    BY <1>1, <1>2, <1>5, SpendType DEF DetectCompilations
  <2>2. marks' \in [Profiles -> [Songs -> Decision]]
    BY <1>1, <1>5, DecideType DEF DetectCompilations
  <2>3. row \in Tables
    BY <1>1
  <2>4. db' = [db EXCEPT ![p] = row]
    BY <1>1, <1>5 DEF DetectCompilations
  <2>5. TypeOK'
    <3> HIDE DEF row
    <3>1. db' \in [Profiles -> Tables]
      BY <1>1, <2>3, <2>4
    <3>2. view' \in {"off", "shown", "stale"}
      BY <1>1, <1>5 DEF DetectCompilations, TypeOK
    <3> QED BY <1>1, <1>5, <2>1, <2>2, <3>1, <3>2 DEF DetectCompilations, TypeOK
  <2> QED BY <1>5, <2>5, ImportUnchanged, ClientUnchanged DEF DetectCompilations, IInv
<1> QED BY <1>3, <1>4, <1>5 DEF UserStep

(* A connection, a backup or an insertion that fails and a quit at any     *)
(* moment keep the invariant.                                              *)
LEMMA FaultStepIInv ==
  ASSUME IInv, FaultStep
  PROVE  IInv'
<1> USE DEF mainVars, diskVars
<1>1. TypeOK /\ client \in [Profiles -> Client]
      /\ server \in [Profiles -> [songs : SUBSET Songs, time : Nat, updating : BOOLEAN]]
  BY DEF IInv, TypeOK
<1>2. \A k \in {"failures", "writeFailures", "archiveFailures", "crashes"} : k \in Bounded
  BY DEF Bounded
<1>3. ASSUME NEW p \in Profiles, LoseConnection(p)
      PROVE  IInv'
  <2> DEFINE c == Unlinked(client[p], "down")
  <2>1. c \in Client /\ c.link # "none"
    BY <1>1 DEF Unlinked, Client
  <2>2. client' = [client EXCEPT ![p] = c]
    BY <1>1, <1>3 DEF LoseConnection
  <2>3. spent' \in [Bounded -> Nat]
    BY <1>1, <1>2, <1>3, SpendType DEF LoseConnection
  <2>4. mainQueue' \in Seq(Notification)
    BY <1>1, <1>3, NamedType, PostType DEF LoseConnection
  <2>5. UNCHANGED <<mainVars, diskVars, server, marks>>
    BY <1>3 DEF LoseConnection
  <2> HIDE DEF c
  <2> QED BY <2>1, <2>2, <2>3, <2>4, <2>5, ClientChanges
<1>4. ASSUME NEW p \in Profiles, ListSongsUntilFailure(p)
      PROVE  IInv'
  <2>1. PICK part \in SUBSET server[p].songs :
          client' = [client EXCEPT ![p] = HalfListed(@, part)]
    BY <1>4 DEF ListSongsUntilFailure
  <2> DEFINE c == HalfListed(client[p], part)
  <2>2. /\ client[p] \in Client /\ client[p].requests - 1 \in Nat
        /\ part \in SUBSET Songs
    <3>1. client[p].requests \in Nat /\ client[p].requests > 0
      BY <1>1, <1>4 DEF ListSongsUntilFailure, Client
    <3> QED BY <1>1, <3>1
  <2>3. c \in Client /\ c.link # "none"
    <3> DEFINE U == Unlinked(client[p], "lost")
    <3>1. U \in Client /\ U.link = "lost"
      BY <2>2 DEF Unlinked, Client
    <3>2. c = [U EXCEPT !.requests = client[p].requests - 1, !.listed = part]
      BY DEF HalfListed
    <3> HIDE DEF U, c
    <3> QED BY <2>2, <3>1, <3>2 DEF Client
  <2>4. client' = [client EXCEPT ![p] = c]
    BY <2>1
  <2>5. spent' \in [Bounded -> Nat]
    BY <1>1, <1>2, <1>4, SpendType DEF ListSongsUntilFailure
  <2>6. /\ mainQueue' \in Seq(Notification)
        /\ UNCHANGED <<mainVars, diskVars, server, marks>>
    BY <1>1, <1>4 DEF ListSongsUntilFailure, TypeOK
  <2> HIDE DEF c
  <2> QED BY <2>3, <2>4, <2>5, <2>6, ClientChanges
<1>5. CASE InsertSongsFails
  <2>1. mImporterThread # None /\ mImporterThread.at = "insert" /\ GoTo("restore")
    BY <1>5 DEF InsertSongsFails, At
  <2>2. /\ mImporterThread' \in Import /\ mImporterThread'.at = "restore"
        /\ BackupFile' = BackupFile /\ ImportKnowsItsFiles' /\ NoFileYet'
    BY <2>1, GoToInv
  <2>3. spent' \in [Bounded -> Nat]
    BY <1>1, <1>2, <1>5, SpendType DEF InsertSongsFails
  <2>4. TypeOK'
    BY <1>1, <1>5, <2>2, <2>3 DEF InsertSongsFails, TypeOK
  <2>5. BackupStaysForRestore'
    BY <1>5, <2>1, <2>2 DEF InsertSongsFails, IInv, BackupStaysForRestore
  <2> QED BY <1>5, <2>2, <2>4, <2>5, ClientUnchanged DEF InsertSongsFails, IInv
<1>7. CASE BackUpCompilationsFails
  <2> DEFINE lost == [s \in Songs |-> IF marks[Library][s] = "on"
                                      THEN "any" ELSE marks[Library][s]]
  <2>1. /\ mImporterThread # None /\ mImporterThread \in Import
        /\ mImporterThread.at = "back up"
        /\ mImporterThread' = [mImporterThread EXCEPT !.at = "clear"]
    BY <1>7, ImportFields DEF BackUpCompilationsFails, At, GoTo
  <2>2. Library \in Profiles
    BY <2>1 DEF IInv, ImportKnowsItsFiles
  <2>3. /\ mImporterThread' \in Import /\ mImporterThread'.at = "clear"
        /\ mImporterThread'.file = mImporterThread.file
        /\ mImporterThread'.library = Library
    BY <2>1, ImportFields DEF Import, Library
  <2>4. spent' \in [Bounded -> Nat]
    BY <1>1, <1>2, <1>7, SpendType DEF BackUpCompilationsFails
  <2>5. lost \in [Songs -> Decision]
    <3>1. marks[Library] \in [Songs -> Decision] /\ "any" \in Decision
      BY <1>1, <2>2 DEF Decision, TypeOK
    <3> QED BY <3>1
  <2>6. marks' \in [Profiles -> [Songs -> Decision]]
    BY <1>1, <1>7, <2>2, <2>5 DEF BackUpCompilationsFails, TypeOK
  <2>7. TypeOK'
    BY <1>1, <1>7, <2>3, <2>4, <2>6 DEF BackUpCompilationsFails, TypeOK
  <2>8. mImporterThread.file = None
    BY <2>1 DEF IInv, NoFileYet, BackupFile
  <2>9. ImportKnowsItsFiles' /\ BackupStaysForRestore' /\ NoFileYet'
    BY <2>2, <2>3, <2>8
    DEF ImportKnowsItsFiles, BackupStaysForRestore, NoFileYet, Library, BackupFile
  <2> QED BY <1>7, <2>7, <2>9, ClientUnchanged DEF BackUpCompilationsFails, IInv
<1>6. CASE QuitAndRestart
  <2>1. NewClient \in Client /\ NewClient.requests = 0 /\ NewClient.listed = None
    BY DEF NewClient, Client
  <2>2. spent' \in [Bounded -> Nat]
    BY <1>1, <1>2, <1>6, SpendType DEF QuitAndRestart
  <2>3. TypeOK'
    BY <1>1, <1>6, <2>1, <2>2, ProfilesAssumption DEF QuitAndRestart, TypeOK
  <2>4. UnregisteredIsIdle'
    BY <1>6, <2>1 DEF QuitAndRestart, UnregisteredIsIdle
  <2>5. ImportKnowsItsFiles' /\ BackupStaysForRestore' /\ NoFileYet'
    BY <1>6 DEF QuitAndRestart, ImportKnowsItsFiles, BackupStaysForRestore, NoFileYet
  <2> QED BY <2>3, <2>4, <2>5 DEF IInv
<1> QED BY <1>3, <1>4, <1>5, <1>6, <1>7 DEF FaultStep

(* The pending idle event is the only field that an event changes.         *)
LEMMA EventType ==
  ASSUME NEW C \in Client, NEW e \in BOOLEAN
  PROVE  /\ [C EXCEPT !.event = e] \in Client
         /\ [C EXCEPT !.event = e].link = C.link
         /\ [C EXCEPT !.event = e].requests = C.requests
         /\ [C EXCEPT !.event = e].listed = C.listed
<1>1. [C EXCEPT !.event = e] \in Client
  <2>1. CASE e = TRUE
    BY <2>1 DEF Client
  <2>2. CASE e = FALSE
    BY <2>2 DEF Client
  <2> QED BY <2>1, <2>2
<1> QED BY <1>1 DEF Client

(* An update of a server keeps the invariant.                              *)
LEMMA ServerStepIInv ==
  ASSUME IInv, ServerStep
  PROVE  IInv'
<1> USE DEF mainVars, diskVars
<1> DEFINE Database == [songs : SUBSET Songs, time : Nat, updating : BOOLEAN]
<1>1. TypeOK /\ client \in [Profiles -> Client] /\ server \in [Profiles -> Database]
      /\ marks \in [Profiles -> [Songs -> Decision]]
  BY DEF IInv, TypeOK
<1>2. ASSUME NEW p \in Profiles, StartUpdate(p)
      PROVE  IInv'
  <2>1. spent' \in [Bounded -> Nat]
    BY <1>1, <1>2, SpendType DEF StartUpdate, Bounded
  <2>2. [server[p] EXCEPT !.updating = TRUE] \in Database
    BY <1>1
  <2>3. TypeOK'
    BY <1>1, <1>2, <2>1, <2>2 DEF StartUpdate, TypeOK
  <2> QED BY <1>2, <2>3, ImportUnchanged, ClientUnchanged DEF StartUpdate, IInv
<1>3. ASSUME NEW p \in Profiles, NEW songs \in SUBSET Songs, EndUpdate(p, songs)
      PROVE  IInv'
  <2> DEFINE event == client[p].event \/ (p \in IdleServers /\ IsConnected(p))
             c == [client[p] EXCEPT !.event = event]
             kept == [s \in Songs |-> IF s \in server[p].songs \ songs
                                     THEN "any" ELSE marks[p][s]]
  <2>1. event \in BOOLEAN
    BY <1>1 DEF Client, IsConnected
  <2>2. /\ c \in Client /\ c.link = client[p].link
        /\ c.requests = client[p].requests /\ c.listed = client[p].listed
    <3>1. client[p] \in Client
      BY <1>1
    <3> HIDE DEF event
    <3> QED BY <2>1, <3>1, EventType
  <2>3. client' = [client EXCEPT ![p] = c]
    BY <1>1, <1>3 DEF EndUpdate
  <2> HIDE DEF c, event
  <2>4. client' \in [Profiles -> Client] /\ UnregisteredIsIdle'
    BY <1>1, <2>2, <2>3 DEF IInv, UnregisteredIsIdle
  <2>5. [songs |-> songs, time |-> server[p].time + 1, updating |-> FALSE] \in Database
    BY <1>1
  <2>6. kept \in [Songs -> Decision]
    <3>1. marks[p] \in [Songs -> Decision] /\ "any" \in Decision
      BY <1>1 DEF Decision
    <3> QED BY <3>1
  <2>7. server' \in [Profiles -> Database] /\ marks' \in [Profiles -> [Songs -> Decision]]
    BY <1>1, <1>3, <2>5, <2>6 DEF EndUpdate
  <2>8. TypeOK'
    BY <1>1, <1>3, <2>4, <2>7 DEF EndUpdate, TypeOK
  <2> QED BY <1>3, <2>4, <2>8, ImportUnchanged DEF EndUpdate, IInv
<1> QED BY <1>2, <1>3 DEF ServerStep

-----------------------------------------------------------------------------
(* The theorems.                                                           *)

(* Every step keeps the invariant.                                         *)
LEMMA InvariantStep ==
  ASSUME IInv, [Next]_vars
  PROVE  IInv'
<1>1. CASE Next
  BY <1>1, ClientStepIInv, MainStepIInv, ImportStepIInv, UserStepIInv, FaultStepIInv,
     ServerStepIInv DEF Next
<1>2. CASE UNCHANGED vars
  <2>1. TypeOK'
    BY <1>2 DEF IInv, TypeOK, vars, mainVars, diskVars
  <2> QED BY <1>2, <2>1, ImportUnchanged, ClientUnchanged DEF IInv, vars, mainVars, diskVars
<1> QED BY <1>1, <1>2

(* The invariant holds in every reachable state.                           *)
THEOREM Invariance == Spec => []IInv
BY InitIInv, InvariantStep, PTL DEF Spec

(* Notifications, imports, tables and backup files are always well formed: *)
(* what an import records is the identifier of a server, or the one that an*)
(* unconnected client answers, and never that of a client without thread.  *)
THEOREM TypeCorrect == Spec => []TypeOK
<1>1. IInv => TypeOK
  BY DEF IInv
<1> QED BY <1>1, Invariance, PTL

\* An import is past its backup without a file.
IsUnsaved ==
  /\ mImporterThread # None
  /\ mImporterThread.at \notin {"begin", "back up"}
  /\ BackupFile = None

UnsavedMeansFailed == IsUnsaved => spent["archiveFailures"] > 0

(* What has happened stays counted.                                        *)
LEMMA SpentGrows ==
  ASSUME IInv, [Next]_vars
  PROVE  spent'["archiveFailures"] >= spent["archiveFailures"]
<1>1. spent \in [Bounded -> Nat] /\ "archiveFailures" \in Bounded
  BY DEF IInv, TypeOK, Bounded
<1>2. ASSUME NEW k \in Bounded, Spend(k)
      PROVE  spent'["archiveFailures"] >= spent["archiveFailures"]
  BY <1>1, <1>2 DEF Spend
<1>3. UNCHANGED spent \/ \E k \in Bounded : Spend(k)
  <2>1. CASE UNCHANGED vars
    BY <2>1 DEF vars
  <2>2. ASSUME NEW p \in Profiles, ClientStep(p)
        PROVE  UNCHANGED spent
    BY <2>2 DEF ClientStep, Register, Connect, ListSongs, PostFetchedDatabase, Poll,
                NoticeLoss, ExitThread
  <2>3. CASE MainStep
    BY <2>3 DEF MainStep, HandleConnected, HandleDisconnected, HandleDatabaseUpdated,
                HandleFetchedDatabase, HandleBeganImport, HandleFinishedImport
  <2>4. CASE ImportStep
    BY <2>4 DEF ImportStep, OpenLibrary, BackUpCompilations, Clear, InsertSongs,
                RestoreCompilations, RemoveBackup, PostFinishedImport
  <2>5. CASE UserStep
    BY <2>5 DEF UserStep, SelectProfile, ToggleIsPartOfCompilation, DetectCompilations,
                Bounded
  <2>6. CASE FaultStep
    BY <2>6 DEF FaultStep, LoseConnection, ListSongsUntilFailure, BackUpCompilationsFails,
                InsertSongsFails, QuitAndRestart, Bounded
  <2>7. CASE ServerStep
    BY <2>7 DEF ServerStep, StartUpdate, EndUpdate, Bounded
  <2> QED BY <2>1, <2>2, <2>3, <2>4, <2>5, <2>6, <2>7 DEF Next
<1> QED BY <1>1, <1>2, <1>3

(* An import comes past its backup without a file only by a failure.       *)
LEMMA UnsavedIsNew ==
  ASSUME IInv, [Next]_vars
  PROVE  IsUnsaved' => IsUnsaved \/ BackUpCompilationsFails
<1> DEFINE NoNew == IsUnsaved' => IsUnsaved
<1>1. NoNew \/ BackUpCompilationsFails
  <2>1. CASE UNCHANGED mImporterThread
    BY <2>1 DEF IsUnsaved, BackupFile
  <2>2. CASE mImporterThread' = None \/ mImporterThread'.at \in {"begin", "back up"}
    BY <2>2 DEF IsUnsaved
  <2>3. CASE \E step \in {"insert", "restore", "remove backup", "finish", "finished"} :
               GoTo(step) /\ mImporterThread # None
                 /\ mImporterThread.at \notin {"begin", "back up"}
    <3>1. PICK step \in {"insert", "restore", "remove backup", "finish", "finished"} :
            GoTo(step) /\ mImporterThread # None
              /\ mImporterThread.at \notin {"begin", "back up"}
      BY <2>3
    <3>2. BackupFile' = BackupFile
      BY <3>1, GoToInv
    <3> QED BY <3>1, <3>2 DEF IsUnsaved
  <2>4. CASE BackUpCompilations
    <3>1. mImporterThread # None /\ mImporterThread \in Import /\ currentProfile \in Profiles
      BY <2>4, ImportFields DEF BackUpCompilations, At, IInv, TypeOK
    <3>2. mImporterThread'.file = currentProfile
      BY <2>4, <3>1 DEF BackUpCompilations, Import
    <3> QED BY <3>1, <3>2, NoneAssumption DEF IsUnsaved, BackupFile
  <2>5. CASE BackUpCompilationsFails
    BY <2>5
  <2>6. ASSUME NEW p \in Profiles, ClientStep(p)
        PROVE  UNCHANGED mImporterThread
    BY <2>6 DEF ClientStep, Register, Connect, ListSongs, PostFetchedDatabase, Poll,
                NoticeLoss, ExitThread, mainVars
  <2>7. ASSUME MainStep
        PROVE  UNCHANGED mImporterThread \/ mImporterThread' = None
                 \/ mImporterThread'.at = "begin"
    BY <2>7 DEF MainStep, HandleConnected, HandleDisconnected, HandleDatabaseUpdated,
                HandleFetchedDatabase, HandleBeganImport, HandleFinishedImport, StartImport,
                mainVars
  <2>8. CASE OpenLibrary
    <3>1. mImporterThread # None /\ mImporterThread \in Import
      BY <2>8, ImportFields DEF OpenLibrary, At
    <3>2. mImporterThread'.at = "back up"
      BY <2>8, <3>1 DEF OpenLibrary, Import
    <3> QED BY <3>2, <2>2
  <2>9. CASE Clear \/ InsertSongs \/ RestoreCompilations \/ RemoveBackup
               \/ PostFinishedImport \/ InsertSongsFails
    <3>1. /\ mImporterThread # None /\ mImporterThread.at \notin {"begin", "back up"}
          /\ \E step \in {"insert", "restore", "remove backup", "finish", "finished"} :
               GoTo(step)
      BY <2>9 DEF Clear, InsertSongs, RestoreCompilations, RemoveBackup,
                  PostFinishedImport, InsertSongsFails, At
    <3> QED BY <3>1, <2>3
  <2>10. ASSUME UserStep
         PROVE  UNCHANGED mImporterThread
    BY <2>10 DEF UserStep, SelectProfile, ToggleIsPartOfCompilation, DetectCompilations,
                 mainVars
  <2>11. ASSUME \E p \in Profiles : LoseConnection(p) \/ ListSongsUntilFailure(p)
         PROVE  UNCHANGED mImporterThread
    BY <2>11 DEF LoseConnection, ListSongsUntilFailure, mainVars
  <2>12. ASSUME QuitAndRestart
         PROVE  mImporterThread' = None
    BY <2>12 DEF QuitAndRestart
  <2>13. ASSUME ServerStep
         PROVE  UNCHANGED mImporterThread
    BY <2>13 DEF ServerStep, StartUpdate, EndUpdate, mainVars
  <2>14. CASE UNCHANGED vars
    BY <2>1, <2>14 DEF vars, mainVars
  <2> HIDE DEF NoNew
  <2> QED BY <2>1, <2>2, <2>4, <2>5, <2>6, <2>7, <2>8, <2>9, <2>10, <2>11, <2>12, <2>13,
             <2>14 DEF Next, ImportStep, FaultStep
<1> QED BY <1>1

(* The failure is counted.                                                 *)
LEMMA UnsavedStep ==
  ASSUME IInv, UnsavedMeansFailed, [Next]_vars
  PROVE  UnsavedMeansFailed'
<1>1. /\ spent \in [Bounded -> Nat] /\ spent["archiveFailures"] \in Nat
      /\ spent' \in [Bounded -> Nat] /\ spent'["archiveFailures"] \in Nat
      /\ "archiveFailures" \in Bounded
  BY InvariantStep DEF IInv, TypeOK, Bounded
<1>2. CASE BackUpCompilationsFails
  <2>1. spent' = [spent EXCEPT !["archiveFailures"] = @ + 1]
    BY <1>2 DEF BackUpCompilationsFails, Spend
  <2>2. spent'["archiveFailures"] > 0
    BY <1>1, <2>1
  <2> QED BY <2>2 DEF UnsavedMeansFailed
<1>3. CASE IsUnsaved' => IsUnsaved
  BY <1>1, <1>3, SpentGrows DEF UnsavedMeansFailed
<1> QED BY <1>2, <1>3, UnsavedIsNew

(* As long as startThread: has cleared the library and not restored its    *)
(* marks, the backup file that it will read exists, unless this import     *)
(* failed to write one: for any profiles and songs, whatever is switched,  *)
(* quit, fetched or failing meanwhile.                                     *)
THEOREM BackupOutlivesClearAlways == Spec => []BackupOutlivesClear
<1>1. Init => UnsavedMeansFailed
  BY DEF Init, UnsavedMeansFailed, IsUnsaved
<1>2. IInv /\ UnsavedMeansFailed => BackupOutlivesClear
  BY DEF IInv, BackupStaysForRestore, BackupOutlivesClear, UnsavedMeansFailed, IsUnsaved
<1> QED BY <1>1, <1>2, UnsavedStep, Invariance, PTL DEF Spec

-----------------------------------------------------------------------------
\* The marks of the user come through every import.

\* Without a switch there is one profile: the others have no client, and the
\* thread asks for the files of this one.
OnlyDefault ==
  /\ currentProfile = DefaultProfile
  /\ \A p \in Profiles \ {DefaultProfile} : client[p].link = "none"
  /\ mImporterThread # None =>
       /\ mImporterThread.at # "begin" => Library = DefaultProfile
       /\ BackupFile \in {DefaultProfile, None}
  /\ mImporterThread = None => mQueued = None

\* The client of the profile that is never left
Own == client[DefaultProfile]

\* Nothing happens before the client is connected, which it then stays.
QuietUntilConnected ==
  /\ Own.link \in {"none", "down", "up"}
  /\ Own.link # "up" =>
       /\ mainQueue = <<>> /\ mImporterThread = None
       /\ Own.requests = 0 /\ Own.listed = None

\* The notification i of the queue brings a list.
IsFetched(i) == mainQueue[i].name = "FetchedDatabase"

\* The song s is on the server, in the list being fetched, in those of the
\* queue from the i-th on, in the import that waits and in the one that runs.
OnServer(s) == s \in server[DefaultProfile].songs
InListed(s) == OnServer(s) /\ (Own.listed # None => s \in Own.listed)
InQueueFrom(s, i) ==
  InListed(s) /\ \A j \in 1..Len(mainQueue) : j >= i /\ IsFetched(j) => s \in mainQueue[j].songs
InQueued(s) == InQueueFrom(s, 1) /\ (mQueued # None => s \in mQueued.songs)
InImport(s) == InQueued(s) /\ (mImporterThread # None => s \in mImporterThread.songs)

\* A song that never left the server is in every list after the first it is in.
InLaterLists(s) ==
  /\ Own.listed # None /\ s \in Own.listed => OnServer(s)
  /\ \A i \in 1..Len(mainQueue) : IsFetched(i) /\ s \in mainQueue[i].songs => InQueueFrom(s, i + 1)
  /\ mQueued # None /\ s \in mQueued.songs => InQueueFrom(s, 1)
  /\ mImporterThread # None /\ s \in mImporterThread.songs => InQueued(s)
  /\ s \in db[DefaultProfile].songs \/ marks[DefaultProfile][s] = "on" => InImport(s)

\* What a decision is about is in every later list: it is not lost because an
\* import leaves the song out.
ListsKeepSongs == \A s \in Songs : marks[DefaultProfile][s] # "any" => InLaterLists(s)

\* A song that the user unmarked is marked nowhere.
OffIsUnmarked ==
  \A p \in Profiles : \A s \in Songs :
    marks[p][s] = "off" => s \notin db[p].flags /\ (backup[p] # None => s \notin backup[p])

\* A song that the user marked is marked in the backup while there is one, and
\* in the tables otherwise.
OnIsMarked ==
  \A p \in Profiles : \A s \in Songs :
    marks[p][s] = "on" => IF backup[p] = None THEN s \in db[p].flags ELSE s \in backup[p]

\* What the restoring of the backup needs in the tables is there before it, and
\* the marks are there before the backup is removed.
OnIsRestored ==
  \A s \in Songs : marks[DefaultProfile][s] = "on" =>
    /\ At("restore") => s \in db[DefaultProfile].songs
    /\ At("remove backup") => s \in db[DefaultProfile].flags

\* An import without a backup file has found none, and what it clears has no
\* mark any more that is expected to stay.
UnsavedIsForgotten ==
  IsUnsaved =>
    /\ backup[DefaultProfile] = None
    /\ At("clear") => \A s \in Songs : marks[DefaultProfile][s] # "on"

MarksInv ==
  /\ OnlyDefault
  /\ QuietUntilConnected
  /\ ListsKeepSongs
  /\ OffIsUnmarked
  /\ OnIsMarked
  /\ OnIsRestored
  /\ UnsavedIsForgotten

\* What the theorem assumes. Each of the three loses marks: a failing list is
\* taken for a library without songs, a rolled back insertion is followed by the
\* removal of the backup, and a switch has the thread change files on its way.
\* Backups may fail: Decide and BackUpCompilationsFails say what that costs.
NoFaults ==
  Limits["failures"] = 0 /\ Limits["writeFailures"] = 0 /\ Limits["switches"] = 0

\* The steps that are left then.
CalmStep ==
  \/ Register(DefaultProfile) \/ Connect(DefaultProfile) \/ ListSongs(DefaultProfile)
  \/ PostFetchedDatabase(DefaultProfile) \/ Poll(DefaultProfile)
  \/ MainStep \/ ImportStep \/ ServerStep \/ BackUpCompilationsFails \/ QuitAndRestart
  \/ \E s \in Songs : ToggleIsPartOfCompilation(s) \/ DetectCompilations(s)

(* No other step is left, with one profile and a client that stays connected. *)
LEMMA StepIsCalm ==
  ASSUME NoFaults, IInv, MarksInv, Next
  PROVE  CalmStep
<1>1. ASSUME NEW k \in {"failures", "writeFailures", "switches"}, Spend(k)
      PROVE  FALSE
  BY <1>1 DEF NoFaults, Spend, IInv, TypeOK, Bounded
<1>2. ASSUME NEW p \in Profiles, ClientStep(p)
      PROVE  CalmStep
  <2>1. CASE p = DefaultProfile
    <3>1. ~NoticeLoss(p)
      BY <2>1 DEF NoticeLoss, MarksInv, QuietUntilConnected, Own
    <3>2. ~ExitThread(p)
      BY <2>1 DEF ExitThread, MarksInv, OnlyDefault
    <3> QED BY <1>2, <2>1, <3>1, <3>2 DEF ClientStep, CalmStep
  <2>2. CASE p # DefaultProfile
    <3>1. client[p].link = "none" /\ client[p].requests = 0 /\ client[p].listed = None
          /\ p # currentProfile
      BY <2>2 DEF MarksInv, OnlyDefault, IInv, UnregisteredIsIdle
    <3> QED BY <1>2, <3>1 DEF ClientStep, Register, Connect, ListSongs, PostFetchedDatabase, Poll,
                              NoticeLoss, ExitThread, IsConnected
  <2> QED BY <2>1, <2>2
<1>3. ~ \E p \in Profiles : SelectProfile(p) \/ LoseConnection(p) \/ ListSongsUntilFailure(p)
  BY <1>1 DEF SelectProfile, LoseConnection, ListSongsUntilFailure
<1>4. ~InsertSongsFails
  BY <1>1 DEF InsertSongsFails
<1> QED BY <1>2, <1>3, <1>4 DEF Next, UserStep, FaultStep, CalmStep

(* The thread asks for currentProfile each time, which nothing changes.    *)
LEMMA OnlyDefaultStep ==
  ASSUME IInv, OnlyDefault, CalmStep
  PROVE  OnlyDefault'
<1> USE ProfilesAssumption DEF Library, BackupFile
<1>1. client \in [Profiles -> Client] /\ OnlyDefault /\ mImporterThread \in Import \cup {None}
  BY DEF IInv, TypeOK
<1>2. ASSUME UNCHANGED mainVars,
             \A p \in Profiles \ {DefaultProfile} : client'[p].link = client[p].link
      PROVE  OnlyDefault'
  BY <1>1, <1>2 DEF OnlyDefault, mainVars
<1>3. CASE Register(DefaultProfile) \/ Connect(DefaultProfile) \/ ListSongs(DefaultProfile)
           \/ PostFetchedDatabase(DefaultProfile) \/ Poll(DefaultProfile)
  BY <1>1, <1>2, <1>3 DEF Register, Connect, ListSongs, PostFetchedDatabase, Poll
<1>4. CASE MainStep
  <2>1. currentProfile' = currentProfile
    BY <1>4 DEF MainStep, HandleConnected, HandleDisconnected, HandleDatabaseUpdated,
                HandleFetchedDatabase, HandleBeganImport, HandleFinishedImport, mainVars
  <2>2. \A p \in Profiles \ {DefaultProfile} : client'[p].link = client[p].link
    BY <1>1, <1>4 DEF OnlyDefault, MainStep, HandleConnected, HandleDisconnected, HandleDatabaseUpdated,
                HandleFetchedDatabase, HandleBeganImport, HandleFinishedImport, StartFetchDatabase
  <2>3. \/ UNCHANGED <<mImporterThread, mQueued>>
        \/ mImporterThread' # None /\ mImporterThread'.at = "begin" /\ mImporterThread'.file = None
        \/ mImporterThread' = mImporterThread /\ mImporterThread # None
        \/ mImporterThread' = None /\ mQueued' = None
    <3>1. CASE HandleFetchedDatabase \/ HandleFinishedImport
      <4>1. ASSUME NEW songs, NEW identifier, StartImport(songs, identifier)
            PROVE  mImporterThread'.at = "begin" /\ mImporterThread'.file = None
        BY <4>1 DEF StartImport
      <4> QED BY <3>1, <4>1 DEF HandleFetchedDatabase, HandleFinishedImport
    <3>2. CASE ~(HandleFetchedDatabase \/ HandleFinishedImport)
      BY <1>4, <3>2 DEF MainStep, HandleConnected, HandleDisconnected, HandleDatabaseUpdated,
                        HandleBeganImport, mainVars
    <3> QED BY <3>1, <3>2
  <2> QED BY <1>1, <2>1, <2>2, <2>3 DEF OnlyDefault
<1>5. CASE ImportStep
  <2>1. UNCHANGED <<currentProfile, client, mQueued>> /\ mImporterThread # None
    BY <1>5 DEF ImportStep, OpenLibrary, BackUpCompilations, Clear, InsertSongs,
                RestoreCompilations, RemoveBackup, PostFinishedImport, At
  <2>2. \/ mImporterThread' = [mImporterThread EXCEPT !.at = "back up", !.library = currentProfile]
        \/ /\ mImporterThread.at = "back up"
           /\ mImporterThread' = [mImporterThread EXCEPT !.at = "clear", !.file = currentProfile]
        \/ /\ mImporterThread.at \notin {"begin", "back up"}
           /\ \E step \in {"insert", "restore", "remove backup", "finish", "finished"} :
                mImporterThread' = [mImporterThread EXCEPT !.at = step]
    BY <1>5 DEF ImportStep, OpenLibrary, BackUpCompilations, Clear, InsertSongs,
                RestoreCompilations, RemoveBackup, PostFinishedImport, At, GoTo
  <2>3. mImporterThread \in Import /\ currentProfile \in Profiles
    BY <2>1, ImportFields DEF IInv, TypeOK
  <2>4. /\ currentProfile = DefaultProfile
        /\ mImporterThread.at # "begin" => mImporterThread.library = DefaultProfile
        /\ mImporterThread.file \in {DefaultProfile, None}
    BY <1>1, <2>1 DEF OnlyDefault
  <2>5. /\ mImporterThread' \in Import
        /\ mImporterThread'.at # "begin" => mImporterThread'.library = DefaultProfile
        /\ mImporterThread'.file \in {DefaultProfile, None}
    <3> USE <2>3, <2>4 DEF Import
    <3>1. CASE mImporterThread' = [mImporterThread EXCEPT !.at = "back up", !.library = currentProfile]
      BY <3>1
    <3>2. CASE /\ mImporterThread.at = "back up"
               /\ mImporterThread' = [mImporterThread EXCEPT !.at = "clear", !.file = currentProfile]
      BY <3>2
    <3>3. ASSUME mImporterThread.at \notin {"begin", "back up"},
                 NEW step \in {"insert", "restore", "remove backup", "finish", "finished"},
                 mImporterThread' = [mImporterThread EXCEPT !.at = step]
          PROVE  /\ mImporterThread' \in Import
                 /\ mImporterThread'.library = DefaultProfile
                 /\ mImporterThread'.file \in {DefaultProfile, None}
      BY <3>3
    <3> QED BY <2>2, <3>1, <3>2, <3>3
  <2>6. mImporterThread' # None
    BY <2>5, NoneIsNoImport
  <2> QED BY <1>1, <2>1, <2>5, <2>6 DEF OnlyDefault
<1>6. CASE ServerStep
  <2>1. UNCHANGED mainVars
    BY <1>6 DEF ServerStep, StartUpdate, EndUpdate
  <2>2. \A p \in Profiles : client'[p].link = client[p].link
    <3>1. CASE UNCHANGED client
      BY <3>1
    <3>2. ASSUME NEW p \in Profiles, NEW songs \in SUBSET Songs, EndUpdate(p, songs),
                 NEW q \in Profiles
          PROVE  client'[q].link = client[q].link
      <4>1. client[q] \in Client /\ client[p] \in Client
        BY <1>1
      <4>2. PICK e : client' = [client EXCEPT ![p].event = e]
        BY <3>2 DEF EndUpdate
      <4>3. client'[q] = IF q = p THEN [client[p] EXCEPT !.event = e] ELSE client[q]
        BY <1>1, <4>2
      <4> QED BY <4>1, <4>3 DEF Client
    <3> QED BY <1>6, <3>1, <3>2 DEF ServerStep, StartUpdate
  <2> QED BY <1>2, <2>1, <2>2 DEF mainVars
<1>7. CASE QuitAndRestart
  BY <1>1, <1>7 DEF QuitAndRestart, OnlyDefault, NewClient
<1>8. ASSUME NEW s \in Songs, ToggleIsPartOfCompilation(s) \/ DetectCompilations(s)
      PROVE  OnlyDefault'
  BY <1>1, <1>8 DEF ToggleIsPartOfCompilation, DetectCompilations, OnlyDefault, mainVars
<1>9. CASE BackUpCompilationsFails
  <2>1. /\ UNCHANGED <<currentProfile, client, mQueued>>
        /\ mImporterThread # None /\ mImporterThread.at = "back up"
        /\ mImporterThread' = [mImporterThread EXCEPT !.at = "clear"]
    BY <1>9 DEF BackUpCompilationsFails, At, GoTo
  <2>2. mImporterThread \in Import
    BY <2>1, ImportFields
  <2>3. /\ mImporterThread' \in Import /\ mImporterThread'.library = mImporterThread.library
        /\ mImporterThread'.file = mImporterThread.file
    BY <2>1, <2>2, ImportFields DEF Import
  <2>4. mImporterThread' # None
    BY <2>3, NoneIsNoImport
  <2> QED BY <1>1, <2>1, <2>3, <2>4 DEF OnlyDefault
<1> QED BY <1>3, <1>4, <1>5, <1>6, <1>7, <1>8, <1>9 DEF CalmStep

(* What the type invariant says of the client.                             *)
LEMMA OwnClient ==
  ASSUME IInv
  PROVE  /\ DefaultProfile \in Profiles /\ client \in [Profiles -> Client]
         /\ Own \in Client
BY ProfilesAssumption DEF IInv, TypeOK, Own

(* Only a connected client posts, lists and has an import started.         *)
LEMMA QuietStep ==
  ASSUME IInv, MarksInv, CalmStep
  PROVE  QuietUntilConnected'
<1> DEFINE D == DefaultProfile
<1>1. D \in Profiles /\ client \in [Profiles -> Client] /\ Own \in Client
      /\ QuietUntilConnected /\ currentProfile = D
      /\ Own = client[D] /\ Own' = client'[D]
  BY OwnClient DEF MarksInv, OnlyDefault, Own
<1> HIDE DEF D
<1>2. ASSUME Own'.link = "up"
      PROVE  QuietUntilConnected'
  BY <1>2 DEF QuietUntilConnected
<1>3. ASSUME Own.link = "up" => Own'.link = "up",
             Own.link # "up" => UNCHANGED <<mainQueue, mImporterThread>>
                                /\ Own'.requests = Own.requests /\ Own'.listed = Own.listed
                                /\ Own'.link \in {"none", "down", "up"}
      PROVE  QuietUntilConnected'
  BY <1>1, <1>2, <1>3 DEF QuietUntilConnected
<1>4. CASE Register(DefaultProfile) \/ Connect(DefaultProfile)
  BY <1>1, <1>4 DEF Register, Connect, Client, QuietUntilConnected, mainVars, D, Own
<1>5. CASE ListSongs(DefaultProfile) \/ PostFetchedDatabase(DefaultProfile) \/ Poll(DefaultProfile)
  <2>1. Own.link = "up"
    <3>1. Own.requests > 0 \/ Own.listed # None \/ Own.link = "up"
      BY <1>1, <1>5 DEF ListSongs, PostFetchedDatabase, Poll, IsConnected, D
    <3>2. Own.requests = 0 => ~(Own.requests > 0)
      OBVIOUS
    <3> QED BY <1>1, <3>1, <3>2 DEF QuietUntilConnected
  <2>2. Own'.link = Own.link
    BY <1>1, <1>5 DEF ListSongs, PostFetchedDatabase, Poll, Client, D
  <2> QED BY <1>2, <2>1, <2>2
<1>6. CASE MainStep \/ ImportStep
  <2>1. mainQueue # <<>> \/ mImporterThread # None
    BY <1>6 DEF MainStep, ImportStep, HandleConnected, HandleDisconnected, HandleDatabaseUpdated,
                HandleFetchedDatabase, HandleBeganImport, HandleFinishedImport, Arrives,
                OpenLibrary, BackUpCompilations, Clear, InsertSongs,
                RestoreCompilations, RemoveBackup, PostFinishedImport, At
  <2>2. Own.link = "up"
    BY <1>1, <2>1 DEF QuietUntilConnected
  <2>3. Own'.link = Own.link
    <3>1. CASE HandleConnected
      BY <1>1, <3>1 DEF HandleConnected, StartFetchDatabase, Client, D
    <3>2. CASE HandleDatabaseUpdated
      BY <1>1, <3>2 DEF HandleDatabaseUpdated, StartFetchDatabase, Client, D
    <3>3. CASE ~HandleConnected /\ ~HandleDatabaseUpdated
      BY <1>6, <3>3 DEF MainStep, ImportStep, HandleDisconnected, Own,
                HandleFetchedDatabase, HandleBeganImport, HandleFinishedImport,
                OpenLibrary, BackUpCompilations, Clear, InsertSongs,
                RestoreCompilations, RemoveBackup, PostFinishedImport
    <3> QED BY <3>1, <3>2, <3>3
  <2> QED BY <1>2, <2>2, <2>3
<1>7. CASE ServerStep
  <2>1. UNCHANGED <<mainQueue, mImporterThread>>
    BY <1>7 DEF ServerStep, StartUpdate, EndUpdate, mainVars
  <2>2. CASE UNCHANGED client
    BY <1>1, <1>3, <2>1, <2>2 DEF QuietUntilConnected
  <2>3. ASSUME NEW p \in Profiles, NEW songs \in SUBSET Songs, EndUpdate(p, songs)
        PROVE  Own'.link = Own.link /\ Own'.requests = Own.requests /\ Own'.listed = Own.listed
    <3>1. PICK e : client' = [client EXCEPT ![p].event = e]
      BY <2>3 DEF EndUpdate
    <3>2. client[p] \in Client
      BY <1>1
    <3>3. Own' = IF D = p THEN [client[p] EXCEPT !.event = e] ELSE Own
      BY <1>1, <3>1
    <3> QED BY <1>1, <3>2, <3>3 DEF Client
  <2> QED BY <1>1, <1>3, <1>7, <2>1, <2>2, <2>3 DEF ServerStep, StartUpdate, QuietUntilConnected
<1>8. CASE QuitAndRestart
  BY <1>1, <1>8 DEF QuitAndRestart, NewClient, QuietUntilConnected
<1>9. ASSUME NEW s \in Songs, ToggleIsPartOfCompilation(s) \/ DetectCompilations(s)
      PROVE  QuietUntilConnected'
  BY <1>1, <1>9 DEF ToggleIsPartOfCompilation, DetectCompilations, QuietUntilConnected, mainVars
<1>10. CASE BackUpCompilationsFails
  <2>1. mImporterThread # None /\ Own' = Own
    BY <1>10 DEF BackUpCompilationsFails, At, Own
  <2> QED BY <1>1, <1>2, <2>1 DEF QuietUntilConnected
<1> QED BY <1>4, <1>5, <1>6, <1>7, <1>8, <1>9, <1>10 DEF CalmStep

\* The notification j of the queue q brings a list.
BringsList(q, j) == q[j].name = "FetchedDatabase"

\* The queue q is the rest of the queue from its k + 1st notification on, with
\* notifications appended that bring no list.
RestOfQueue(q, k) ==
  \A j \in 1..Len(q) : BringsList(q, j) => j + k \in 1..Len(mainQueue) /\ q[j] = mainQueue[j + k]

(* Where no list comes in and none of the songs that stay on the server is *)
(* dropped from one, later lists keep the songs.                           *)
LEMMA ListsShrink ==
  ASSUME MarksInv, NEW k \in Nat, RestOfQueue(mainQueue', k),
         Own'.listed \in {Own.listed, None},
         mQueued' \in {mQueued, None},
         mImporterThread' # None => mImporterThread # None
                                    /\ mImporterThread'.songs = mImporterThread.songs,
         ASSUME NEW s \in Songs, marks'[DefaultProfile][s] # "any"
         PROVE  /\ marks[DefaultProfile][s] # "any"
                /\ OnServer(s) => OnServer(s)'
                /\ s \in db'[DefaultProfile].songs \/ marks'[DefaultProfile][s] = "on"
                     => s \in db[DefaultProfile].songs \/ marks[DefaultProfile][s] = "on"
  PROVE  ListsKeepSongs'
<1> SUFFICES ASSUME NEW s \in Songs, marks'[DefaultProfile][s] # "any"
             PROVE  InLaterLists(s)'
  BY DEF ListsKeepSongs
<1>1. /\ InLaterLists(s)
      /\ OnServer(s) => OnServer(s)'
      /\ s \in db'[DefaultProfile].songs \/ marks'[DefaultProfile][s] = "on"
           => s \in db[DefaultProfile].songs \/ marks[DefaultProfile][s] = "on"
  BY DEF MarksInv, ListsKeepSongs
<1>2. InListed(s) => InListed(s)'
  BY <1>1 DEF InListed
<1>3. ASSUME NEW i \in Nat, NEW i2 \in Nat, i <= i2 + k, InQueueFrom(s, i)
      PROVE  InQueueFrom(s, i2)'
  BY <1>2, <1>3 DEF InQueueFrom, RestOfQueue, IsFetched, BringsList
<1>4. InQueueFrom(s, 1) => InQueueFrom(s, 1)'
  BY <1>3
<1>5. ASSUME NEW i \in 1..Len(mainQueue'), IsFetched(i)', s \in mainQueue'[i].songs
      PROVE  InQueueFrom(s, i + 1)'
  <2>1. /\ i + k \in 1..Len(mainQueue) /\ mainQueue'[i] = mainQueue[i + k]
        /\ IsFetched(i + k)
    BY <1>5 DEF RestOfQueue, IsFetched, BringsList
  <2>2. InQueueFrom(s, i + k + 1)
    BY <1>1, <1>5, <2>1 DEF InLaterLists
  <2> QED BY <1>3, <2>2
<1>6. InQueued(s) => InQueued(s)'
  BY <1>4 DEF InQueued
<1>7. InImport(s) => InImport(s)'
  BY <1>6 DEF InImport
<1>8. Own'.listed # None /\ s \in Own'.listed => OnServer(s)'
  BY <1>1 DEF InLaterLists
<1>9. mQueued' # None /\ s \in mQueued'.songs => InQueueFrom(s, 1)'
  BY <1>1, <1>4 DEF InLaterLists
<1>10. mImporterThread' # None /\ s \in mImporterThread'.songs => InQueued(s)'
  BY <1>1, <1>6 DEF InLaterLists
<1>11. s \in db'[DefaultProfile].songs \/ marks'[DefaultProfile][s] = "on" => InImport(s)'
  BY <1>1, <1>7 DEF InLaterLists
<1> QED BY <1>5, <1>8, <1>9, <1>10, <1>11 DEF InLaterLists

(* What the main thread and the clients do to the queue where no list comes *)
(* in leaves a rest of it.                                                 *)
LEMMA QueueRests ==
  ASSUME IInv
  PROVE  /\ RestOfQueue(mainQueue, 0)
         /\ RestOfQueue(<<>>, 0)
         /\ \A name \in {"Connected", "Disconnected", "DatabaseUpdated", "BeganImport",
                         "FinishedImport"} :
              RestOfQueue(Append(mainQueue, Named(name)), 0)
         /\ mainQueue # <<>> => RestOfQueue(Tail(mainQueue), 1)
<1>1. mainQueue \in Seq(Notification) /\ Len(mainQueue) \in Nat
  BY DEF IInv, TypeOK
<1>2. RestOfQueue(mainQueue, 0)
  BY <1>1 DEF RestOfQueue
<1>3. RestOfQueue(<<>>, 0)
  BY DEF RestOfQueue
<1>4. ASSUME NEW name \in {"Connected", "Disconnected", "DatabaseUpdated", "BeganImport",
                           "FinishedImport"}
      PROVE  RestOfQueue(Append(mainQueue, Named(name)), 0)
  <2> DEFINE a == Append(mainQueue, Named(name))
  <2>1. Named(name) \in Notification /\ Named(name).name # "FetchedDatabase"
    BY NamedType DEF Named
  <2>2. /\ Len(a) = Len(mainQueue) + 1
        /\ \A j \in 1..Len(mainQueue) : a[j] = mainQueue[j]
        /\ a[Len(mainQueue) + 1] = Named(name)
    BY <1>1, <2>1, AppendProperties
  <2> HIDE DEF a
  <2>3. RestOfQueue(a, 0)
    BY <1>1, <2>1, <2>2 DEF RestOfQueue, BringsList
  <2> QED BY <2>3 DEF a
<1>5. ASSUME mainQueue # <<>>
      PROVE  RestOfQueue(Tail(mainQueue), 1)
  <2> DEFINE r == Tail(mainQueue)
  <2>1. /\ r \in Seq(Notification) /\ Len(r) = Len(mainQueue) - 1 /\ Len(r) \in Nat
        /\ \A j \in 1..Len(r) : r[j] = mainQueue[j + 1]
    BY <1>1, <1>5, HeadTailProperties
  <2> HIDE DEF r
  <2>2. \A j \in 1..Len(r) : j + 1 \in 1..Len(mainQueue) /\ r[j] = mainQueue[j + 1]
    BY <1>1, <2>1
  <2>3. RestOfQueue(r, 1)
    BY <2>2 DEF RestOfQueue
  <2> QED BY <2>3 DEF r
<1> QED BY <1>2, <1>3, <1>4, <1>5

(* A step that lets songs alone keeps what the lists say of them.          *)
LEMMA ListsUnchanged ==
  ASSUME IInv, MarksInv,
         \/ mainQueue' = mainQueue
         \/ \E name \in {"Connected", "Disconnected", "DatabaseUpdated", "BeganImport",
                         "FinishedImport"} : Post(Named(name))
         \/ mainQueue # <<>> /\ mainQueue' = Tail(mainQueue),
         Own'.listed = Own.listed, UNCHANGED <<mQueued, marks, server>>,
         db'[DefaultProfile].songs \in {db[DefaultProfile].songs, {}},
         mImporterThread' # None => mImporterThread # None
                                    /\ mImporterThread'.songs = mImporterThread.songs
  PROVE  ListsKeepSongs'
<1>1. \E k \in {0, 1} : RestOfQueue(mainQueue', k)
  BY QueueRests DEF Post
<1>2. ASSUME NEW s \in Songs, marks'[DefaultProfile][s] # "any"
      PROVE  /\ marks[DefaultProfile][s] # "any"
             /\ OnServer(s) => OnServer(s)'
             /\ s \in db'[DefaultProfile].songs \/ marks'[DefaultProfile][s] = "on"
                  => s \in db[DefaultProfile].songs \/ marks[DefaultProfile][s] = "on"
  BY <1>2 DEF OnServer
<1>3. {0, 1} \subseteq Nat
  OBVIOUS
<1> QED BY <1>1, <1>2, <1>3, ListsShrink

(* A list is begun with the songs of the server: it has all that stay.     *)
LEMMA ListSongsStep ==
  ASSUME IInv, MarksInv, ListSongs(DefaultProfile)
  PROVE  ListsKeepSongs'
<1>1. Own.link = "up"
  BY OwnClient DEF ListSongs, MarksInv, QuietUntilConnected, Own
<1>2. /\ Own'.listed = server[DefaultProfile].songs
      /\ UNCHANGED <<mainVars, mainQueue, server, db, marks>> /\ Own.listed = None
  BY <1>1, OwnClient DEF ListSongs, IsConnected, Own, Client, diskVars
<1> SUFFICES ASSUME NEW s \in Songs, marks[DefaultProfile][s] # "any"
             PROVE  InLaterLists(s)'
  BY <1>2 DEF ListsKeepSongs
<1>3. InLaterLists(s) /\ (OnServer(s)' <=> OnServer(s))
  BY <1>2 DEF MarksInv, ListsKeepSongs, OnServer
<1>4. InListed(s) => InListed(s)'
  BY <1>2, <1>3 DEF InListed, OnServer
<1>5. \A i : InQueueFrom(s, i) => InQueueFrom(s, i)'
  BY <1>2, <1>4 DEF InQueueFrom, IsFetched
<1> QED BY <1>2, <1>3, <1>5 DEF InLaterLists, InQueued, InImport, IsFetched, OnServer, mainVars

(* The list is posted after all that were posted before it.                *)
LEMMA PostFetchedStep ==
  ASSUME IInv, MarksInv, PostFetchedDatabase(DefaultProfile)
  PROVE  ListsKeepSongs'
<1> DEFINE n == [name |-> "FetchedDatabase", songs |-> Own.listed,
                 identifier |-> DatabaseIdentifier(DefaultProfile)]
<1>1. Own.listed # None /\ Own'.listed = None
      /\ UNCHANGED <<mainVars, server, db, marks>>
  BY OwnClient DEF PostFetchedDatabase, Own, Client, diskVars
<1>2. mainQueue \in Seq(Notification) /\ Len(mainQueue) \in Nat
  BY DEF IInv, TypeOK
<1>3. n \in Notification
  <2>1. Own.listed \in SUBSET Songs
    BY <1>1, OwnClient DEF Client
  <2>2. Own.link # "none"
    BY <1>1, OwnClient DEF IInv, UnregisteredIsIdle, Own
  <2>3. DatabaseIdentifier(DefaultProfile) \in Identifier
    BY <2>2, OwnClient, AskingType DEF Own
  <2> QED BY <2>1, <2>3 DEF Notification
<1>4. mainQueue' = Append(mainQueue, n)
  BY DEF PostFetchedDatabase, Post, Own
<1>6. n.name = "FetchedDatabase" /\ n.songs = Own.listed
  OBVIOUS
<1> HIDE DEF n
<1>7. /\ Len(mainQueue') = Len(mainQueue) + 1 /\ mainQueue'[Len(mainQueue) + 1] = n
      /\ \A j \in 1..Len(mainQueue) : mainQueue'[j] = mainQueue[j]
  BY <1>2, <1>3, <1>4, AppendProperties
<1>9. ASSUME NEW j \in 1..Len(mainQueue'), IsFetched(j)'
      PROVE  \/ j = Len(mainQueue) + 1 /\ mainQueue'[j] = n
             \/ j \in 1..Len(mainQueue) /\ mainQueue'[j] = mainQueue[j] /\ IsFetched(j)
  BY <1>2, <1>7, <1>9 DEF IsFetched
<1> SUFFICES ASSUME NEW s \in Songs, marks[DefaultProfile][s] # "any"
             PROVE  InLaterLists(s)'
  BY <1>1 DEF ListsKeepSongs
<1>10. InLaterLists(s) /\ (OnServer(s)' <=> OnServer(s))
  BY <1>1 DEF MarksInv, ListsKeepSongs, OnServer
<1>11. \A i \in Nat : InQueueFrom(s, i) => InQueueFrom(s, i)'
  BY <1>1, <1>6, <1>9, <1>10 DEF InQueueFrom, InListed
<1>12. ASSUME NEW i \in 1..Len(mainQueue'), IsFetched(i)', s \in mainQueue'[i].songs
       PROVE  InQueueFrom(s, i + 1)'
  <2>1. CASE i = Len(mainQueue) + 1 /\ mainQueue'[i] = n
    <3>1. OnServer(s)'
      BY <1>1, <1>6, <1>10, <1>12, <2>1 DEF InLaterLists
    <3>2. InListed(s)'
      BY <1>1, <3>1 DEF InListed
    <3>3. ~ \E j \in 1..Len(mainQueue') : j >= i + 1
      BY <1>2, <1>7, <2>1
    <3> QED BY <3>2, <3>3 DEF InQueueFrom
  <2>2. CASE i \in 1..Len(mainQueue) /\ mainQueue'[i] = mainQueue[i] /\ IsFetched(i)
    BY <1>10, <1>11, <1>12, <2>2 DEF InLaterLists
  <2> QED BY <1>9, <1>12, <2>1, <2>2
<1>13. InQueueFrom(s, 1) => InQueueFrom(s, 1)'
  BY <1>11
<1> QED BY <1>1, <1>10, <1>12, <1>13 DEF InLaterLists, InQueued, InImport, mainVars

(* The list is taken from the queue before all later ones, to be imported. *)
LEMMA HandleFetchedStep ==
  ASSUME IInv, MarksInv, HandleFetchedDatabase
  PROVE  ListsKeepSongs'
<1> DEFINE n == Head(mainQueue)
<1>1. /\ mainQueue # <<>> /\ n.name = "FetchedDatabase" /\ mainQueue' = Tail(mainQueue)
      /\ UNCHANGED <<client, db, server, marks>> /\ Own' = Own
  BY DEF HandleFetchedDatabase, Arrives, diskVars, Own
<1>2. /\ Len(mainQueue) \in Nat \ {0} /\ n = mainQueue[1]
      /\ Len(mainQueue') = Len(mainQueue) - 1
      /\ \A j \in 1..Len(mainQueue') : mainQueue'[j] = mainQueue[j + 1]
  <2>1. mainQueue \in Seq(Notification)
    BY DEF IInv, TypeOK
  <2> QED BY <1>1, <2>1, EmptySeq, HeadTailProperties
<1> HIDE DEF n
<1> SUFFICES ASSUME NEW s \in Songs, marks[DefaultProfile][s] # "any"
             PROVE  InLaterLists(s)'
  BY <1>1 DEF ListsKeepSongs
<1>3. /\ InLaterLists(s) /\ (OnServer(s)' <=> OnServer(s))
      /\ (InListed(s)' <=> InListed(s))
  BY <1>1 DEF MarksInv, ListsKeepSongs, OnServer, InListed
<1>4. \A i, j \in Nat : i <= j + 1 /\ InQueueFrom(s, i) => InQueueFrom(s, j)'
  BY <1>2, <1>3 DEF InQueueFrom, IsFetched
<1>5. /\ s \in n.songs => InQueueFrom(s, 2)
      /\ InQueueFrom(s, 1) => s \in n.songs
  <2>1. 1 \in 1..Len(mainQueue) /\ IsFetched(1)
    BY <1>1, <1>2 DEF IsFetched
  <2> QED BY <1>2, <1>3, <2>1 DEF InLaterLists, InQueueFrom
<1>6. /\ s \in n.songs => InQueueFrom(s, 1)'
      /\ InQueueFrom(s, 1) => InQueueFrom(s, 1)' /\ s \in n.songs
  BY <1>4, <1>5
<1>7. ASSUME NEW i \in 1..Len(mainQueue'), IsFetched(i)', s \in mainQueue'[i].songs
      PROVE  InQueueFrom(s, i + 1)'
  <2>1. i + 1 \in 1..Len(mainQueue) /\ IsFetched(i + 1) /\ s \in mainQueue[i + 1].songs
    BY <1>2, <1>7 DEF IsFetched
  <2>2. InQueueFrom(s, i + 1 + 1)
    BY <1>3, <2>1 DEF InLaterLists
  <2> QED BY <1>4, <2>2
<1>8. CASE mImporterThread # None
  <2>1. mQueued'.songs = n.songs /\ mImporterThread' = mImporterThread
    BY <1>8 DEF HandleFetchedDatabase, n
  <2>2. InQueued(s) => InQueued(s)'
    BY <1>6, <2>1 DEF InQueued
  <2> QED BY <1>1, <1>3, <1>6, <1>7, <2>1, <2>2 DEF InLaterLists, InImport
<1>9. CASE mImporterThread = None
  <2>1. mImporterThread'.songs = n.songs /\ mQueued' = mQueued /\ mQueued = None
    BY <1>9 DEF HandleFetchedDatabase, StartImport, n, MarksInv, OnlyDefault
  <2> QED BY <1>1, <1>3, <1>6, <1>7, <2>1 DEF InLaterLists, InQueued, InImport
<1> QED BY <1>8, <1>9

(* The import that waited is started after the one that ended.             *)
LEMMA QueuedImportStep ==
  ASSUME IInv, MarksInv, HandleFinishedImport
  PROVE  ListsKeepSongs'
<1>1. /\ mainQueue # <<>> /\ mainQueue' = Tail(mainQueue) /\ mQueued' = None
      /\ UNCHANGED <<client, db, server, marks>> /\ Own' = Own
      /\ \/ mQueued # None /\ mImporterThread'.songs = mQueued.songs
         \/ mImporterThread' = None
  BY DEF HandleFinishedImport, Arrives, diskVars, Own, StartImport
<1>2. RestOfQueue(mainQueue', 1)
  BY <1>1, QueueRests
<1>3. CASE mImporterThread' = None
  BY <1>1, <1>2, <1>3, ListsShrink DEF OnServer
<1>4. CASE mQueued # None /\ mImporterThread'.songs = mQueued.songs
  <2> SUFFICES ASSUME NEW s \in Songs, marks[DefaultProfile][s] # "any"
               PROVE  InLaterLists(s)'
    BY <1>1 DEF ListsKeepSongs
  <2>1. /\ InLaterLists(s) /\ (OnServer(s)' <=> OnServer(s))
        /\ (InListed(s)' <=> InListed(s))
    BY <1>1 DEF MarksInv, ListsKeepSongs, OnServer, InListed
  <2>2. \A i, j \in Nat : i <= j + 1 /\ InQueueFrom(s, i) => InQueueFrom(s, j)'
    BY <1>2, <2>1 DEF InQueueFrom, IsFetched, RestOfQueue, BringsList
  <2>3. InQueueFrom(s, 1) => InQueueFrom(s, 1)'
    BY <2>2
  <2>4. ASSUME NEW i \in 1..Len(mainQueue'), IsFetched(i)', s \in mainQueue'[i].songs
        PROVE  InQueueFrom(s, i + 1)'
    <3>1. i + 1 \in 1..Len(mainQueue) /\ IsFetched(i + 1) /\ s \in mainQueue[i + 1].songs
      BY <1>2, <2>4 DEF IsFetched, RestOfQueue, BringsList
    <3>2. InQueueFrom(s, i + 1 + 1)
      BY <2>1, <3>1 DEF InLaterLists
    <3> QED BY <2>2, <3>2
  <2> QED BY <1>1, <1>4, <2>1, <2>3, <2>4 DEF InLaterLists, InQueued, InImport
<1> QED BY <1>1, <1>3, <1>4

(* The tables get the songs of the import.                                 *)
LEMMA InsertStep ==
  ASSUME IInv, MarksInv, InsertSongs
  PROVE  ListsKeepSongs'
<1>1. /\ mImporterThread # None /\ mImporterThread'.songs = mImporterThread.songs
      /\ db'[DefaultProfile].songs = mImporterThread.songs
      /\ UNCHANGED <<mainQueue, mQueued, client, server, marks>> /\ Own' = Own
  <2>1. mImporterThread \in Import /\ mImporterThread # None /\ Library = DefaultProfile
    BY ImportFields DEF InsertSongs, At, MarksInv, OnlyDefault
  <2>2. db[DefaultProfile] \in [songs : SUBSET Songs, flags : SUBSET Songs,
                                identifier : Identifier \cup {None}]
        /\ db \in [Profiles -> [songs : SUBSET Songs, flags : SUBSET Songs,
                                identifier : Identifier \cup {None}]]
    BY OwnClient DEF IInv, TypeOK
  <2>3. mImporterThread' = [mImporterThread EXCEPT !.at = "restore"]
    BY DEF InsertSongs, GoTo
  <2>4. mImporterThread'.songs = mImporterThread.songs
    BY <2>1, <2>3 DEF Import
  <2>5. db'[DefaultProfile].songs = mImporterThread.songs
    BY <2>1, <2>2, OwnClient DEF InsertSongs
  <2> QED BY <2>1, <2>4, <2>5 DEF InsertSongs, Own
<1> SUFFICES ASSUME NEW s \in Songs, marks[DefaultProfile][s] # "any"
             PROVE  InLaterLists(s)'
  BY <1>1 DEF ListsKeepSongs
<1>2. /\ InLaterLists(s) /\ (OnServer(s)' <=> OnServer(s))
      /\ (InListed(s)' <=> InListed(s))
      /\ \A i : InQueueFrom(s, i)' <=> InQueueFrom(s, i)
      /\ (InQueued(s)' <=> InQueued(s))
  BY <1>1 DEF MarksInv, ListsKeepSongs, OnServer, InListed, InQueueFrom, InQueued, IsFetched
<1>3. mImporterThread' # None
  BY <1>1, ImportFields, NoneIsNoImport DEF InsertSongs, GoTo
<1> QED BY <1>1, <1>2, <1>3 DEF InLaterLists, InImport, IsFetched

(* What the tables are after a step that writes those of the default       *)
(* profile.                                                                *)
LEMMA TableFields ==
  ASSUME IInv
  PROVE  /\ \A p \in Profiles : db[p].songs \in SUBSET Songs /\ db[p].flags \in SUBSET Songs
         /\ \A p, q \in Profiles, new \in SUBSET Songs :
              /\ [db EXCEPT ![p].flags = new][q].songs = db[q].songs
              /\ [db EXCEPT ![p].flags = new][q].flags = IF q = p THEN new ELSE db[q].flags
BY DEF IInv, TypeOK

(* A handler of the main thread, with the cases above.                     *)
LEMMA ListsMainStep ==
  ASSUME IInv, MarksInv, MainStep
  PROVE  ListsKeepSongs'
<1>1. currentProfile = DefaultProfile
  BY DEF MarksInv, OnlyDefault
<1>2. CASE HandleConnected
  <2>1. Own'.listed = Own.listed
    BY <1>1, <1>2, OwnClient DEF HandleConnected, StartFetchDatabase, Own, Client
  <2> QED BY <1>1, <1>2, <2>1, ListsUnchanged DEF HandleConnected, Arrives, diskVars
<1>3. CASE HandleDatabaseUpdated
  <2>1. Own'.listed = Own.listed
    BY <1>1, <1>3, OwnClient DEF HandleDatabaseUpdated, StartFetchDatabase, Own, Client
  <2> QED BY <1>3, <2>1, ListsUnchanged DEF HandleDatabaseUpdated, Arrives, diskVars, mainVars
<1>4. CASE HandleDisconnected \/ HandleBeganImport
  BY <1>4, ListsUnchanged DEF HandleDisconnected, HandleBeganImport, Arrives, diskVars, Own
<1> QED BY <1>2, <1>3, <1>4, HandleFetchedStep, QueuedImportStep DEF MainStep

(* A step of the import thread writes songs only when it inserts them.     *)
LEMMA ListsImportStep ==
  ASSUME IInv, MarksInv, ImportStep
  PROVE  ListsKeepSongs'
<1>1. CASE InsertSongs
  BY <1>1, InsertStep
<1>2. CASE ~InsertSongs
  <2>1. /\ mImporterThread # None /\ mImporterThread \in Import
        /\ UNCHANGED <<mQueued, marks, server, client>> /\ Own' = Own
    BY <1>2, ImportFields DEF ImportStep, OpenLibrary, BackUpCompilations, Clear,
                RestoreCompilations, RemoveBackup, PostFinishedImport, At, Own
  <2>2. mImporterThread'.songs = mImporterThread.songs
    BY <1>2, <2>1 DEF ImportStep, OpenLibrary, BackUpCompilations, Clear,
                RestoreCompilations, RemoveBackup, PostFinishedImport, GoTo, Import
  <2>3. \/ mainQueue' = mainQueue
        \/ Post(Named("BeganImport")) \/ Post(Named("FinishedImport"))
    BY <1>2 DEF ImportStep, OpenLibrary, BackUpCompilations, Clear,
                RestoreCompilations, RemoveBackup, PostFinishedImport
  <2>4. db'[DefaultProfile].songs \in {db[DefaultProfile].songs, {}}
    <3>1. CASE Clear
      <4>1. Library = DefaultProfile
        BY <3>1 DEF Clear, At, MarksInv, OnlyDefault
      <4>2. db \in [Profiles -> [songs : SUBSET Songs, flags : SUBSET Songs,
                                 identifier : Identifier \cup {None}]]
        BY DEF IInv, TypeOK
      <4> QED BY <3>1, <4>1, <4>2, OwnClient DEF Clear
    <3>2. CASE RestoreCompilations
      <4>1. Library = DefaultProfile
        BY <3>2 DEF RestoreCompilations, At, MarksInv, OnlyDefault
      <4>2. db \in [Profiles -> [songs : SUBSET Songs, flags : SUBSET Songs,
                                 identifier : Identifier \cup {None}]]
        BY DEF IInv, TypeOK
      <4> QED BY <3>2, <4>1, <4>2, OwnClient DEF RestoreCompilations
    <3> QED BY <1>2, <3>1, <3>2 DEF ImportStep, OpenLibrary, BackUpCompilations,
                RemoveBackup, PostFinishedImport, diskVars
  <2> QED BY <2>1, <2>2, <2>3, <2>4, ListsUnchanged
<1> QED BY <1>1, <1>2

(* What a decision of the user changes of the marks.                       *)
LEMMA Decided ==
  ASSUME IInv, NEW s \in Songs, NEW on \in BOOLEAN, Decide(DefaultProfile, s, on)
  PROVE  /\ \A p \in Profiles, z \in Songs :
              p # DefaultProfile \/ z # s => marks'[p][z] = marks[p][z]
         /\ marks'[DefaultProfile][s] =
              IF marks[DefaultProfile][s] = "any" THEN "any"
              ELSE IF backup[DefaultProfile] # None \/ ClearsUnsaved(DefaultProfile)
                   THEN IF on THEN "late on" ELSE "late off"
                   ELSE IF on THEN "on" ELSE "off"
<1> DEFINE new == IF marks[DefaultProfile][s] = "any" THEN "any"
                  ELSE IF backup[DefaultProfile] # None \/ ClearsUnsaved(DefaultProfile)
                       THEN IF on THEN "late on" ELSE "late off"
                       ELSE IF on THEN "on" ELSE "off"
<1>1. marks' = [marks EXCEPT ![DefaultProfile][s] = new]
  BY DEF Decide
<1> HIDE DEF new
<1>2. marks \in [Profiles -> [Songs -> Decision]]
  BY DEF IInv, TypeOK
<1>3. /\ \A p \in Profiles, z \in Songs :
           p # DefaultProfile \/ z # s => marks'[p][z] = marks[p][z]
      /\ marks'[DefaultProfile][s] = new
  BY <1>1, <1>2, OwnClient
<1> QED BY <1>3 DEF new

(* All steps that are left, those of the server and of the user among them: *)
(* the decision about a song that leaves is forgotten with it.             *)
LEMMA ListsStep ==
  ASSUME IInv, MarksInv, CalmStep
  PROVE  ListsKeepSongs'
<1>1. RestOfQueue(mainQueue, 0) /\ RestOfQueue(<<>>, 0)
  BY QueueRests
<1>2. CASE Register(DefaultProfile) \/ Connect(DefaultProfile) \/ Poll(DefaultProfile)
  <2>1. Own'.listed = Own.listed
    BY <1>2, OwnClient DEF Register, Connect, Poll, Own, Client
  <2>2. /\ mainQueue' = mainQueue \/ Post(Named("Connected")) \/ Post(Named("DatabaseUpdated"))
        /\ UNCHANGED <<mQueued, mImporterThread, db, server, marks>>
    BY <1>2 DEF Register, Connect, Poll, mainVars, diskVars
  <2> QED BY <2>1, <2>2, ListsUnchanged
<1>3. ASSUME NEW s \in Songs, ToggleIsPartOfCompilation(s) \/ DetectCompilations(s)
      PROVE  ListsKeepSongs'
  <2>1. /\ UNCHANGED <<mQueued, mImporterThread, mainQueue, server, client>> /\ Own' = Own
        /\ s \in db[DefaultProfile].songs
        /\ \E on \in BOOLEAN : Decide(DefaultProfile, s, on)
        /\ \E new \in SUBSET Songs : db' = [db EXCEPT ![DefaultProfile].flags = new]
    <3>1. currentProfile = DefaultProfile /\ db[DefaultProfile].flags \in SUBSET Songs
      BY OwnClient, TableFields DEF MarksInv, OnlyDefault
    <3>2. CASE ToggleIsPartOfCompilation(s)
      <4>1. (s \notin db[DefaultProfile].flags) \in BOOLEAN
        OBVIOUS
      <4> QED BY <3>1, <3>2, <4>1 DEF ToggleIsPartOfCompilation, mainVars, Own
    <3>3. CASE DetectCompilations(s)
      BY <3>1, <3>3 DEF DetectCompilations, Own
    <3> QED BY <1>3, <3>2, <3>3
  <2>2. db'[DefaultProfile].songs = db[DefaultProfile].songs
    BY <2>1, TableFields, OwnClient
  <2>3. ASSUME NEW z \in Songs, marks'[DefaultProfile][z] # "any"
        PROVE  /\ marks[DefaultProfile][z] # "any"
               /\ z = s \/ marks'[DefaultProfile][z] = marks[DefaultProfile][z]
    BY <2>1, <2>3, OwnClient, Decided
  <2> QED BY <1>1, <2>1, <2>2, <2>3, ListsShrink DEF OnServer
<1>4. CASE QuitAndRestart
  <2>1. Own'.listed = None
    BY <1>4, OwnClient DEF QuitAndRestart, NewClient, Own
  <2> QED BY <1>1, <1>4, <2>1, ListsShrink DEF QuitAndRestart, diskVars, OnServer
<1>5. CASE ServerStep
  <2>1. UNCHANGED <<mainQueue, mQueued, mImporterThread, db>>
    BY <1>5 DEF ServerStep, StartUpdate, EndUpdate, mainVars, diskVars
  <2>2. ASSUME NEW p \in Profiles, StartUpdate(p)
        PROVE  ListsKeepSongs'
    <3>1. server'[DefaultProfile].songs = server[DefaultProfile].songs /\ Own' = Own
          /\ marks' = marks
      BY <2>2, OwnClient DEF StartUpdate, IInv, TypeOK, Own
    <3> QED BY <1>1, <2>1, <3>1, ListsShrink DEF OnServer
  <2>3. ASSUME NEW p \in Profiles, NEW songs \in SUBSET Songs, EndUpdate(p, songs)
        PROVE  ListsKeepSongs'
    <3>1. Own'.listed = Own.listed
      <4>1. PICK e : client' = [client EXCEPT ![p].event = e]
        BY <2>3 DEF EndUpdate
      <4>2. Own' = IF DefaultProfile = p THEN [client[p] EXCEPT !.event = e] ELSE Own
        BY <4>1, OwnClient DEF Own
      <4>3. client[p] \in Client
        BY OwnClient
      <4> QED BY <4>2, <4>3, OwnClient DEF Client, Own
    <3>2. ASSUME NEW s \in Songs, marks'[DefaultProfile][s] # "any"
          PROVE  /\ marks'[DefaultProfile][s] = marks[DefaultProfile][s]
                 /\ OnServer(s) => OnServer(s)'
      <4>1. marks \in [Profiles -> [Songs -> Decision]]
            /\ server \in [Profiles -> [songs : SUBSET Songs, time : Nat, updating : BOOLEAN]]
        BY DEF IInv, TypeOK
      <4>2. CASE p = DefaultProfile
        BY <2>3, <3>2, <4>1, <4>2 DEF EndUpdate, OnServer
      <4>3. CASE p # DefaultProfile
        BY <2>3, <4>1, <4>3, OwnClient DEF EndUpdate, OnServer
      <4> QED BY <4>2, <4>3
    <3> QED BY <1>1, <2>1, <3>1, <3>2, ListsShrink
  <2> QED BY <1>5, <2>2, <2>3 DEF ServerStep
<1>6. CASE BackUpCompilationsFails
  <2>1. /\ UNCHANGED <<mainQueue, mQueued, server, client, db>> /\ Own' = Own
        /\ mImporterThread # None /\ Library = DefaultProfile
        /\ mImporterThread' = [mImporterThread EXCEPT !.at = "clear"]
    BY <1>6 DEF BackUpCompilationsFails, At, GoTo, diskVars, Own, MarksInv, OnlyDefault
  <2>2. mImporterThread'.songs = mImporterThread.songs
    BY <2>1, ImportFields DEF Import
  <2>3. \A s \in Songs : marks'[DefaultProfile][s] \in {marks[DefaultProfile][s], "any"}
    BY <1>6, <2>1, OwnClient DEF BackUpCompilationsFails, IInv, TypeOK
  <2> QED BY <1>1, <2>1, <2>2, <2>3, ListsShrink DEF OnServer
<1> QED BY <1>2, <1>3, <1>4, <1>5, <1>6, ListSongsStep, PostFetchedStep, ListsMainStep,
           ListsImportStep DEF CalmStep

(* A step that writes no table and no backup keeps the marks.              *)
LEMMA MarksUnchanged ==
  ASSUME MarksInv, UNCHANGED <<db, backup, mImporterThread>>,
         \A p \in Profiles, s \in Songs : marks'[p][s] \in {marks[p][s], "any"}
  PROVE  OffIsUnmarked' /\ OnIsMarked' /\ OnIsRestored' /\ UnsavedIsForgotten'
<1>1. \A p \in Profiles, s \in Songs :
        /\ marks'[p][s] = "on" => marks[p][s] = "on"
        /\ marks'[p][s] = "off" => marks[p][s] = "off"
  OBVIOUS
<1> QED BY <1>1, ProfilesAssumption
        DEF MarksInv, OffIsUnmarked, OnIsMarked, OnIsRestored, UnsavedIsForgotten, IsUnsaved,
            BackupFile, At

(* A decision taken while the backup exists is lost, and Decide forgets it. *)
LEMMA MarksUserStep ==
  ASSUME IInv, MarksInv, NEW s \in Songs,
         ToggleIsPartOfCompilation(s) \/ DetectCompilations(s)
  PROVE  OffIsUnmarked' /\ OnIsMarked' /\ OnIsRestored' /\ UnsavedIsForgotten'
<1> DEFINE D == DefaultProfile
           on == s \notin db[D].flags
           new == IF on THEN db[D].flags \cup {s} ELSE db[D].flags \ {s}
<1>1. D \in Profiles /\ currentProfile = D /\ db[D].flags \in SUBSET Songs
  BY OwnClient, TableFields DEF MarksInv, OnlyDefault
<1>2. /\ Decide(D, s, on)
      /\ db' = [db EXCEPT ![D].flags = new]
      /\ UNCHANGED <<mImporterThread, backup>>
  <2>1. CASE ToggleIsPartOfCompilation(s)
    BY <1>1, <2>1 DEF ToggleIsPartOfCompilation, mainVars
  <2>2. CASE DetectCompilations(s)
    <3>1. on
      BY <1>1, <2>2 DEF DetectCompilations
    <3>2. Decide(D, s, TRUE) /\ db' = [db EXCEPT ![D].flags = @ \cup {s}]
          /\ UNCHANGED <<mImporterThread, backup>>
      BY <1>1, <2>2 DEF DetectCompilations
    <3>3. Decide(D, s, on)
      BY <3>1, <3>2 DEF Decide
    <3> QED BY <3>1, <3>2, <3>3
  <2> QED BY <2>1, <2>2
<1>3. on \in BOOLEAN /\ new \in SUBSET Songs /\ (s \in new <=> on)
      /\ \A z \in Songs : z # s => (z \in new <=> z \in db[D].flags)
  BY <1>1
<1> HIDE DEF new, on
<1>4. /\ \A p \in Profiles, z \in Songs : p # D \/ z # s => marks'[p][z] = marks[p][z]
      /\ marks'[D][s] \in {"any"} \cup
           (IF backup[D] = None /\ ~ClearsUnsaved(D) THEN {IF on THEN "on" ELSE "off"}
            ELSE {"late on", "late off"})
  BY <1>1, <1>2, <1>3, Decided
<1>5. \A p \in Profiles :
        /\ db'[p].songs = db[p].songs
        /\ db'[p].flags = IF p = D THEN new ELSE db[p].flags
  BY <1>1, <1>2, <1>3, TableFields
<1> HIDE DEF D
<1>6. OffIsUnmarked'
  <2> SUFFICES ASSUME NEW p \in Profiles, NEW z \in Songs, marks'[p][z] = "off"
               PROVE  z \notin db'[p].flags /\ (backup[p] # None => z \notin backup[p])
    BY <1>2 DEF OffIsUnmarked
  <2>1. CASE p = D /\ z = s
    BY <1>1, <1>3, <1>4, <1>5, <2>1
  <2>2. CASE p # D \/ z # s
    BY <1>3, <1>4, <1>5, <2>2 DEF MarksInv, OffIsUnmarked
  <2> QED BY <2>1, <2>2
<1>7. OnIsMarked'
  <2> SUFFICES ASSUME NEW p \in Profiles, NEW z \in Songs, marks'[p][z] = "on"
               PROVE  IF backup[p] = None THEN z \in db'[p].flags ELSE z \in backup[p]
    BY <1>2 DEF OnIsMarked
  <2>1. CASE p = D /\ z = s
    BY <1>1, <1>3, <1>4, <1>5, <2>1
  <2>2. CASE p # D \/ z # s
    BY <1>3, <1>4, <1>5, <2>2 DEF MarksInv, OnIsMarked
  <2> QED BY <2>1, <2>2
<1>8. OnIsRestored'
  <2> SUFFICES ASSUME NEW z \in Songs, marks'[D][z] = "on"
               PROVE  /\ At("restore") => z \in db'[D].songs
                      /\ At("remove backup") => z \in db'[D].flags
    BY <1>2 DEF OnIsRestored, At, D
  <2>1. CASE z = s
    <3>1. on /\ s \in db[D].songs
      BY <1>1, <1>4, <2>1 DEF ToggleIsPartOfCompilation, DetectCompilations
    <3> QED BY <1>1, <1>3, <1>5, <2>1, <3>1
  <2>2. CASE z # s
    BY <1>1, <1>3, <1>4, <1>5, <2>2 DEF MarksInv, OnIsRestored, D
  <2> QED BY <2>1, <2>2
<1>9. UnsavedIsForgotten'
  <2>1. IsUnsaved' => IsUnsaved /\ (At("clear")' => At("clear"))
    BY <1>2 DEF IsUnsaved, BackupFile, At
  <2>2. IsUnsaved /\ At("clear") => ClearsUnsaved(D)
    BY DEF IsUnsaved, At, ClearsUnsaved, MarksInv, OnlyDefault, Library, BackupFile, D
  <2>3. IsUnsaved => /\ backup[D] = None
                     /\ At("clear") => \A z \in Songs : marks[D][z] # "on"
    BY DEF MarksInv, UnsavedIsForgotten, D
  <2>4. ClearsUnsaved(D) => marks'[D][s] # "on"
    BY <1>4
  <2>5. \A z \in Songs : z # s => marks'[D][z] = marks[D][z]
    BY <1>1, <1>4
  <2> QED BY <1>2, <2>1, <2>2, <2>3, <2>4, <2>5 DEF UnsavedIsForgotten, D
<1> QED BY <1>6, <1>7, <1>8, <1>9

(* The thread moves the marks from the tables to the backup and back.      *)
LEMMA MarksImportStep ==
  ASSUME IInv, MarksInv, ImportStep
  PROVE  OffIsUnmarked' /\ OnIsMarked' /\ OnIsRestored' /\ UnsavedIsForgotten'
<1> DEFINE D == DefaultProfile
           Written == [songs : SUBSET Songs, flags : SUBSET Songs,
                       identifier : Identifier \cup {None}]
<1>1. /\ D \in Profiles /\ currentProfile = D /\ db \in [Profiles -> Written]
      /\ backup \in [Profiles -> (SUBSET Songs) \cup {None}]
      /\ OffIsUnmarked /\ OnIsMarked /\ OnIsRestored /\ UnsavedIsForgotten
  BY OwnClient DEF MarksInv, OnlyDefault, IInv, TypeOK
<1>2. /\ mImporterThread # None /\ mImporterThread \in Import
      /\ mImporterThread.at # "begin" => Library = D
      /\ BackupFile \in {D, None} /\ D # None
      /\ UNCHANGED marks
  <2>1. mImporterThread # None /\ UNCHANGED marks
    BY DEF ImportStep, OpenLibrary, BackUpCompilations, Clear, InsertSongs,
           RestoreCompilations, RemoveBackup, PostFinishedImport, At
  <2> QED BY <1>1, <2>1, ImportFields, NoneAssumption DEF MarksInv, OnlyDefault
\* With a file, it is in its place from the step "clear" on.
<1>3. mImporterThread.at \in {"clear", "insert", "restore", "remove backup"} =>
        \/ BackupFile = D /\ backup[D] # None
        \/ BackupFile = None /\ backup[D] = None
  BY <1>1, <1>2 DEF IInv, BackupStaysForRestore, UnsavedIsForgotten, IsUnsaved
<1> USE DEF At, GoTo
\* Going on does not lose the file.
<1>a. ASSUME NEW step \in {"insert", "restore", "remove backup", "finish", "finished"},
             GoTo(step), mImporterThread.at \notin {"begin", "back up"}, step # "clear",
             backup'[D] = None \/ BackupFile # None
      PROVE  UnsavedIsForgotten'
  <2>1. /\ mImporterThread' = [mImporterThread EXCEPT !.at = step]
        /\ mImporterThread'.at = step /\ mImporterThread'.file = mImporterThread.file
    BY <1>2, <1>a DEF Import
  <2>2. BackupFile' = BackupFile
    BY <2>1 DEF BackupFile
  <2> QED BY <1>a, <2>1, <2>2 DEF UnsavedIsForgotten, IsUnsaved
<1>4. CASE OpenLibrary \/ PostFinishedImport
  <2>1. /\ UNCHANGED <<db, backup>> /\ mImporterThread'.at \in {"back up", "finished"}
        /\ mImporterThread'.file = mImporterThread.file
        /\ OpenLibrary => mImporterThread'.at = "back up"
        /\ PostFinishedImport => mImporterThread.at = "finish"
    BY <1>2, <1>4 DEF OpenLibrary, PostFinishedImport, Import, diskVars
  <2>2. UnsavedIsForgotten'
    BY <1>1, <1>2, <1>4, <2>1 DEF UnsavedIsForgotten, IsUnsaved, BackupFile
  <2> QED BY <1>1, <1>2, <2>1, <2>2 DEF OffIsUnmarked, OnIsMarked, OnIsRestored
<1>5. CASE BackUpCompilations
  <2>1. /\ UNCHANGED db /\ mImporterThread'.at = "clear" /\ Library = D
        /\ mImporterThread'.file = D
    BY <1>1, <1>2, <1>5 DEF BackUpCompilations, Import
  <2>2. /\ \A p \in Profiles \ {D} : backup'[p] = backup[p]
        /\ backup'[D] = IF backup[D] # None THEN backup[D] ELSE db[D].flags
    BY <1>1, <1>5, <2>1 DEF BackUpCompilations
  <2>3. db[D].flags # None
    BY <1>1, TableFields, NoneAssumption
  <2>4. OnIsRestored'
    BY <2>1 DEF OnIsRestored
  <2>5. OffIsUnmarked' /\ OnIsMarked'
    BY <1>1, <1>2, <2>1, <2>2, <2>3 DEF OffIsUnmarked, OnIsMarked
  <2>6. UnsavedIsForgotten'
    BY <1>2, <2>1 DEF UnsavedIsForgotten, IsUnsaved, BackupFile
  <2> QED BY <2>4, <2>5, <2>6
<1>6. CASE Clear
  <2>1. /\ UNCHANGED backup /\ mImporterThread'.at = "insert" /\ Library = D
        /\ backup[D] # None \/ \A s \in Songs : marks[D][s] # "on"
    BY <1>1, <1>2, <1>3, <1>6 DEF Clear, Import, UnsavedIsForgotten, IsUnsaved
  <2>2. \A p \in Profiles : db'[p].flags = IF p = D THEN {} ELSE db[p].flags
    BY <1>1, <1>6, <2>1 DEF Clear
  <2>3. OnIsRestored'
    BY <2>1 DEF OnIsRestored
  <2>4. OffIsUnmarked' /\ OnIsMarked'
    BY <1>1, <1>2, <2>1, <2>2 DEF OffIsUnmarked, OnIsMarked
  <2>5. UnsavedIsForgotten'
    <3>1. GoTo("insert") /\ mImporterThread.at = "clear"
      BY <1>6 DEF Clear
    <3>2. backup'[D] = None \/ BackupFile # None
      BY <1>2, <1>3, <2>1, <3>1
    <3> HIDE DEF GoTo
    <3> QED BY <1>a, <3>1, <3>2
  <2> QED BY <2>3, <2>4, <2>5
<1>7. CASE InsertSongs
  <2>1. /\ UNCHANGED backup /\ mImporterThread'.at = "restore" /\ Library = D
    BY <1>2, <1>7 DEF InsertSongs, Import
  <2>2. /\ \A p \in Profiles : db'[p].flags = db[p].flags
        /\ db'[D].songs = mImporterThread.songs
    BY <1>1, <1>7, <2>1 DEF InsertSongs
  <2>3. OffIsUnmarked' /\ OnIsMarked'
    BY <1>1, <1>2, <2>1, <2>2 DEF OffIsUnmarked, OnIsMarked
  <2>4. \A s \in Songs : marks[D][s] = "on" => s \in mImporterThread.songs
    BY <1>2 DEF MarksInv, ListsKeepSongs, InLaterLists, InImport
  <2>5. OnIsRestored'
    BY <1>2, <2>1, <2>2, <2>4 DEF OnIsRestored
  <2>6. UnsavedIsForgotten'
    <3>1. GoTo("restore") /\ mImporterThread.at = "insert"
      BY <1>7 DEF InsertSongs
    <3>2. backup'[D] = None \/ BackupFile # None
      BY <1>2, <1>3, <2>1, <3>1
    <3> HIDE DEF GoTo
    <3> QED BY <1>a, <3>1, <3>2
  <2> QED BY <2>3, <2>5, <2>6
<1>8. CASE RestoreCompilations
  <2>1. /\ UNCHANGED backup /\ mImporterThread'.at = "remove backup"
        /\ Library = D /\ mImporterThread.at = "restore"
    BY <1>2, <1>8 DEF RestoreCompilations, Import
  <2> DEFINE saved == IF backup[D] = None THEN {} ELSE backup[D]
  <2>2. \A p \in Profiles : db'[p].flags =
          IF p = D THEN db[D].flags \cup (db[D].songs \cap saved) ELSE db[p].flags
    <3>1. CASE BackupFile = D /\ backup[D] # None
      BY <1>1, <1>2, <1>8, <2>1, <3>1 DEF RestoreCompilations
    <3>2. CASE BackupFile = None /\ backup[D] = None
      BY <1>1, <1>8, <2>1, <3>2 DEF RestoreCompilations
    <3> QED BY <1>3, <2>1, <3>1, <3>2
  <2>3. OffIsUnmarked' /\ OnIsMarked'
    BY <1>1, <1>2, <2>1, <2>2 DEF OffIsUnmarked, OnIsMarked
  <2>4. \A s \in Songs : marks[D][s] = "on" =>
          s \in db[D].songs /\ (s \in saved \/ s \in db[D].flags)
    BY <1>1, <1>2, <1>8, <2>1 DEF RestoreCompilations, OnIsRestored, OnIsMarked
  <2>5. OnIsRestored'
    BY <1>1, <1>2, <2>1, <2>2, <2>4 DEF OnIsRestored
  <2>6. UnsavedIsForgotten'
    <3>1. GoTo("remove backup") /\ mImporterThread.at = "restore"
      BY <1>8 DEF RestoreCompilations
    <3>2. backup'[D] = None \/ BackupFile # None
      BY <1>2, <1>3, <2>1, <3>1
    <3> HIDE DEF GoTo
    <3> QED BY <1>a, <3>1, <3>2
  <2> QED BY <2>3, <2>5, <2>6
<1>9. CASE RemoveBackup
  <2>1. /\ UNCHANGED db /\ mImporterThread'.at = "finish"
        /\ mImporterThread.at = "remove backup"
    BY <1>2, <1>9 DEF RemoveBackup, Import
  <2>2. \A p \in Profiles : backup'[p] = IF p = D THEN None ELSE backup[p]
    BY <1>1, <1>2, <1>3, <1>9, <2>1 DEF RemoveBackup
  <2>3. \A s \in Songs : marks[D][s] = "on" => s \in db[D].flags
    BY <1>1, <1>9 DEF RemoveBackup, OnIsRestored
  <2>4. OffIsUnmarked' /\ OnIsMarked'
    BY <1>1, <1>2, <2>1, <2>2, <2>3 DEF OffIsUnmarked, OnIsMarked
  <2>5. OnIsRestored'
    BY <2>1 DEF OnIsRestored
  <2>6. UnsavedIsForgotten'
    BY <1>1, <1>9, <1>a, <2>2 DEF RemoveBackup
  <2> QED BY <2>4, <2>5, <2>6
<1> QED BY <1>4, <1>5, <1>6, <1>7, <1>8, <1>9 DEF ImportStep

(* An import that cannot save the marks forgets them.                      *)
LEMMA MarksArchiveStep ==
  ASSUME IInv, MarksInv, BackUpCompilationsFails
  PROVE  OffIsUnmarked' /\ OnIsMarked' /\ OnIsRestored' /\ UnsavedIsForgotten'
<1>1. /\ DefaultProfile \in Profiles /\ currentProfile = DefaultProfile
      /\ Library = DefaultProfile /\ backup[DefaultProfile] = None
      /\ mImporterThread # None
      /\ mImporterThread' = [mImporterThread EXCEPT !.at = "clear"]
      /\ UNCHANGED <<db, backup>>
  BY OwnClient DEF BackUpCompilationsFails, At, GoTo, diskVars, MarksInv, OnlyDefault
<1>2. mImporterThread'.at = "clear"
  BY <1>1, ImportFields DEF Import
<1>3. marks \in [Profiles -> [Songs -> Decision]]
  BY DEF IInv, TypeOK
<1>4. /\ \A p \in Profiles, s \in Songs : marks'[p][s] \in {marks[p][s], "any"}
      /\ \A s \in Songs : marks'[DefaultProfile][s] # "on"
  BY <1>1, <1>3 DEF BackUpCompilationsFails
<1>5. \A p \in Profiles, s \in Songs :
        /\ marks'[p][s] = "on" => marks[p][s] = "on"
        /\ marks'[p][s] = "off" => marks[p][s] = "off"
  BY <1>4
<1>6. OffIsUnmarked' /\ OnIsMarked'
  BY <1>1, <1>5 DEF MarksInv, OffIsUnmarked, OnIsMarked
<1>7. OnIsRestored'
  BY <1>2 DEF OnIsRestored, At
<1>8. UnsavedIsForgotten'
  BY <1>1, <1>4 DEF UnsavedIsForgotten
<1> QED BY <1>6, <1>7, <1>8

(* All steps that are left.                                                *)
LEMMA MarksStep ==
  ASSUME IInv, MarksInv, CalmStep
  PROVE  OffIsUnmarked' /\ OnIsMarked' /\ OnIsRestored' /\ UnsavedIsForgotten'
<1>1. marks \in [Profiles -> [Songs -> Decision]]
  BY DEF IInv, TypeOK
<1>2. ASSUME UNCHANGED <<db, backup, marks>>,
             mImporterThread' = None \/ mImporterThread'.at = "begin" \/ UNCHANGED mImporterThread
      PROVE  OffIsUnmarked' /\ OnIsMarked' /\ OnIsRestored' /\ UnsavedIsForgotten'
  BY <1>2 DEF MarksInv, OffIsUnmarked, OnIsMarked, OnIsRestored, UnsavedIsForgotten, IsUnsaved,
              BackupFile, At
<1>3. CASE Register(DefaultProfile) \/ Connect(DefaultProfile) \/ ListSongs(DefaultProfile)
           \/ PostFetchedDatabase(DefaultProfile) \/ Poll(DefaultProfile)
  BY <1>2, <1>3 DEF Register, Connect, ListSongs, PostFetchedDatabase, Poll, mainVars, diskVars
<1>4. CASE MainStep
  <2>1. ASSUME NEW songs, NEW identifier, StartImport(songs, identifier)
        PROVE  mImporterThread'.at = "begin"
    BY <2>1 DEF StartImport
  <2> QED BY <1>2, <1>4, <2>1 DEF MainStep, HandleConnected, HandleDisconnected,
             HandleDatabaseUpdated, HandleFetchedDatabase, HandleBeganImport,
             HandleFinishedImport, mainVars, diskVars
<1>5. CASE QuitAndRestart
  BY <1>2, <1>5 DEF QuitAndRestart, diskVars
<1>6. CASE ServerStep
  <2>1. \A p \in Profiles, s \in Songs : marks'[p][s] \in {marks[p][s], "any"}
    BY <1>1, <1>6 DEF ServerStep, StartUpdate, EndUpdate
  <2> QED BY <1>6, <2>1, MarksUnchanged DEF ServerStep, StartUpdate, EndUpdate, mainVars, diskVars
<1> QED BY <1>3, <1>4, <1>5, <1>6, MarksImportStep, MarksArchiveStep, MarksUserStep DEF CalmStep

(* The program starts with the marks that its tables hold.                 *)
LEMMA InitMarks == Init => MarksInv
<1> SUFFICES ASSUME Init PROVE MarksInv
  OBVIOUS
<1>1. /\ mainQueue = <<>> /\ mImporterThread = None /\ mQueued = None
      /\ Own.link = "none" /\ Own.requests = 0 /\ Own.listed = None
      /\ \A p \in Profiles : backup[p] = None /\ client[p].link = "none"
      /\ \A p \in Profiles, s \in Songs :
           marks[p][s] = IF s \in db[p].flags THEN "on" ELSE "off"
  BY ProfilesAssumption DEF Init, NewClient, Own
<1>2. /\ db[DefaultProfile].flags \subseteq db[DefaultProfile].songs
      /\ db[DefaultProfile].songs \subseteq server[DefaultProfile].songs
  BY ProfilesAssumption DEF Init
<1>3. OnlyDefault
  BY <1>1 DEF Init, OnlyDefault
<1>4. QuietUntilConnected
  BY <1>1 DEF QuietUntilConnected
<1>5. ListsKeepSongs
  BY <1>1, <1>2, ProfilesAssumption DEF ListsKeepSongs, InLaterLists, InImport, InQueued, InQueueFrom, InListed,
                    OnServer
<1>6. OffIsUnmarked /\ OnIsMarked /\ OnIsRestored /\ UnsavedIsForgotten
  BY <1>1 DEF OffIsUnmarked, OnIsMarked, OnIsRestored, UnsavedIsForgotten, IsUnsaved, At
<1> QED BY <1>3, <1>4, <1>5, <1>6 DEF MarksInv

(* A step that changes nothing keeps the invariant.                        *)
LEMMA MarksStutter ==
  ASSUME IInv, MarksInv, UNCHANGED vars
  PROVE  MarksInv'
<1>1. /\ OnlyDefault' /\ QuietUntilConnected' /\ OffIsUnmarked' /\ OnIsMarked' /\ OnIsRestored'
      /\ UnsavedIsForgotten'
  BY DEF vars, mainVars, diskVars, MarksInv, OnlyDefault, QuietUntilConnected, Own,
         OffIsUnmarked, OnIsMarked, OnIsRestored, UnsavedIsForgotten, IsUnsaved, At,
         Library, BackupFile
<1>2. ListsKeepSongs'
  BY ListsUnchanged DEF vars, mainVars, diskVars, Own
<1> QED BY <1>1, <1>2 DEF MarksInv

(* What the user decided about a song that stays on the server survives    *)
(* every import, through any number of updates, lists, quits in the middle *)
(* of startThread: and decisions of the detector, except the marks of a    *)
(* backup that could not be written: as long as no list and no insertion   *)
(* fails and no other profile is selected.                                 *)
THEOREM CompilationsSurviveAlways ==
  ASSUME NoFaults
  PROVE  Spec => []CompilationsSurvive
<1>1. ASSUME IInv, MarksInv, [Next]_vars
      PROVE  MarksInv'
  <2>1. CASE Next
    BY <1>1, <2>1, StepIsCalm, OnlyDefaultStep, QuietStep, ListsStep, MarksStep DEF MarksInv
  <2>2. CASE UNCHANGED vars
    BY <1>1, <2>2, MarksStutter
  <2> QED BY <1>1, <2>1, <2>2
<1>2. IInv /\ MarksInv => CompilationsSurvive
  <2> SUFFICES ASSUME IInv, MarksInv, NEW p \in Profiles, Settled(p), NEW s \in db[p].songs
               PROVE  /\ marks[p][s] = "on" => s \in db[p].flags
                      /\ marks[p][s] = "off" => s \notin db[p].flags
    BY DEF CompilationsSurvive
  <2>1. s \in Songs
    BY TableFields
  <2>2. backup[p] = None
    BY DEF Settled
  <2> QED BY <2>1, <2>2 DEF MarksInv, OffIsUnmarked, OnIsMarked
<1> QED BY <1>1, <1>2, InitMarks, Invariance, PTL DEF Spec

-----------------------------------------------------------------------------
\* The identifier is truthful, though the program is quit in the middle of an
\* import.

\* What the theorem assumes besides NoFaults. An import that could not save the
\* marks leaves no trace when it is interrupted: the tables are empty, and the
\* identifier is the old one.
NoUnsavedQuit == Limits["crashes"] = 0 \/ Limits["archiveFailures"] = 0
NothingUnsaved == Limits["archiveFailures"] = 0 => ~IsUnsaved

\* The list is what its identifier says, if that is the database s of p.
Right(list, p, s) == list.identifier = TimeOf(p, s.time) => list.songs = s.songs

\* The identifier is not of a time of p that is still to come.
NotLater(identifier, p, s) == \A t \in Nat : identifier = TimeOf(p, t) => t <= s.time

\* No list has an identifier of the server that is still to come.
TimesArePast ==
  LET Past(list) == NotLater(list.identifier, DefaultProfile, server[DefaultProfile])
  IN /\ Own.stats # None => Own.stats <= server[DefaultProfile].time
     /\ \A i \in 1..Len(mainQueue) : BringsList(mainQueue, i) => Past(mainQueue[i])
     /\ mQueued # None => Past(mQueued)
     /\ mImporterThread # None => Past(mImporterThread)
     /\ Past(db[DefaultProfile])

\* The tables of the other profiles stay as they are.
OthersAreRight ==
  \A p \in Profiles \ {DefaultProfile} :
    NotLater(db[p].identifier, p, server[p]) /\ Right(db[p], p, server[p])

\* An import whose end has been announced is at its end, and announces it once.
EndsOnce ==
  LET Ends(i) == mainQueue[i].name = "FinishedImport"
  IN \A i \in 1..Len(mainQueue) : Ends(i) =>
       At("finished") /\ \A j \in 1..Len(mainQueue) : Ends(j) => i = j

LoneInv == OnlyDefault /\ TimesArePast /\ OthersAreRight /\ EndsOnce /\ NothingUnsaved

\* A notification that waits tells of an update, and will have the list fetched
\* that the server has by then.
Tells == \E i \in 1..Len(mainQueue) : mainQueue[i].name = "DatabaseUpdated"
RefetchComing == Own.requests > 0 \/ Tells

\* Without failing connections the time is known before a list is asked for, and
\* every list is right: only the tables are not, from the step "clear" on, and
\* for as long as the backup of an interrupted import is there.
Written ==
  \/ backup[DefaultProfile] = None /\ ~At("insert")
  \/ At("restore") \/ At("remove backup")

AllRight ==
  LET IsRight(list) == Right(list, DefaultProfile, server[DefaultProfile])
  IN /\ RefetchComing \/ Own.listed # None => Own.stats # None
     /\ Own.listed # None /\ Own.stats = server[DefaultProfile].time =>
          Own.listed = server[DefaultProfile].songs
     /\ \A i \in 1..Len(mainQueue) : BringsList(mainQueue, i) => IsRight(mainQueue[i])
     /\ mQueued # None => IsRight(mQueued)
     /\ mImporterThread # None => IsRight(mImporterThread)
     /\ Written => IsRight(db[DefaultProfile])

\* What a step leaves of the client of the profile that is never left
OwnBecomes(link, stats, requests, listed) ==
  Own'.link = link /\ Own'.stats = stats /\ Own'.requests = requests /\ Own'.listed = listed

(* What the steps of its thread leave of the client.                       *)
LEMMA OwnClientStep ==
  ASSUME IInv, OnlyDefault
  PROVE  LET D == DefaultProfile
         IN /\ Register(D) => OwnBecomes("down", Own.stats, Own.requests, Own.listed)
            /\ Connect(D) => OwnBecomes("up", Own.stats, Own.requests, Own.listed)
            /\ ListSongs(D) =>
                 OwnBecomes(Own.link, Own.stats, Own.requests - 1,
                            IF IsConnected(D) THEN server[D].songs ELSE {})
            /\ PostFetchedDatabase(D) =>
                 OwnBecomes(Own.link, StatsAfterAsking(D), Own.requests, None)
            /\ Poll(D) => \E stats \in {Own.stats, server[D].time} :
                 OwnBecomes(Own.link, stats, Own.requests, Own.listed)
<1> DEFINE D == DefaultProfile
<1>1. D \in Profiles /\ client \in [Profiles -> Client] /\ Own \in Client
      /\ Own = client[D] /\ Own' = client'[D]
  BY OwnClient DEF Own
<1>2. server[D].songs \in SUBSET Songs
  BY <1>1 DEF IInv, TypeOK
<1> HIDE DEF D
<1> USE DEF OwnBecomes, Client
<1>3. Register(D) => OwnBecomes("down", Own.stats, Own.requests, Own.listed)
  BY <1>1 DEF Register
<1>4. Connect(D) => OwnBecomes("up", Own.stats, Own.requests, Own.listed)
  BY <1>1 DEF Connect
<1>5. ListSongs(D) =>
        OwnBecomes(Own.link, Own.stats, Own.requests - 1,
                   IF IsConnected(D) THEN server[D].songs ELSE {})
  BY <1>1 DEF ListSongs
<1>6. PostFetchedDatabase(D) =>
        OwnBecomes(Own.link, StatsAfterAsking(D), Own.requests, None)
  BY <1>1 DEF PostFetchedDatabase
<1>7. Poll(D) => \E stats \in {Own.stats, server[D].time} :
        OwnBecomes(Own.link, stats, Own.requests, Own.listed)
  BY <1>1 DEF Poll
<1> QED BY <1>3, <1>4, <1>5, <1>6, <1>7 DEF D

(* What the other steps leave of it.                                       *)
LEMMA OwnOtherStep ==
  ASSUME IInv, OnlyDefault
  PROVE  /\ HandleConnected => \E more \in {0, 1} :
              OwnBecomes(Own.link, StatsAfterAsking(DefaultProfile), Own.requests + more,
                         Own.listed)
         /\ HandleDatabaseUpdated =>
              OwnBecomes(Own.link, Own.stats,
                         IF Own.link = "none" THEN Own.requests ELSE Own.requests + 1, Own.listed)
         /\ ServerStep => OwnBecomes(Own.link, Own.stats, Own.requests, Own.listed)
         /\ QuitAndRestart => OwnBecomes("none", None, 0, None)
         /\ \/ HandleDisconnected \/ HandleFetchedDatabase \/ HandleBeganImport
            \/ HandleFinishedImport \/ ImportStep \/ BackUpCompilationsFails
            \/ \E s \in Songs : ToggleIsPartOfCompilation(s) \/ DetectCompilations(s)
            => Own' = Own
<1> DEFINE D == DefaultProfile
<1>1. D \in Profiles /\ client \in [Profiles -> Client] /\ Own \in Client
      /\ Own = client[D] /\ Own' = client'[D] /\ currentProfile = D
  BY OwnClient DEF Own, OnlyDefault
<1> HIDE DEF D
<1> USE DEF OwnBecomes
<1>2. HandleConnected => \E more \in {0, 1} :
        OwnBecomes(Own.link, StatsAfterAsking(D), Own.requests + more, Own.listed)
  <2> SUFFICES ASSUME HandleConnected
               PROVE  \E more \in {0, 1} :
                 OwnBecomes(Own.link, StatsAfterAsking(D), Own.requests + more, Own.listed)
    OBVIOUS
  <2> DEFINE asked == [client EXCEPT ![D].stats = StatsAfterAsking(D)]
  <2>1. client' \in {asked, StartFetchDatabase(asked)}
    BY <1>1 DEF HandleConnected
  <2>2. /\ asked \in [Profiles -> Client] \/ asked[D].link = Own.link
        /\ asked[D].stats = StatsAfterAsking(D) /\ asked[D].link = Own.link
        /\ asked[D].requests = Own.requests /\ asked[D].listed = Own.listed
        /\ DOMAIN asked = Profiles
    BY <1>1 DEF Client
  <2>3. CASE client' = asked
    BY <1>1, <2>2, <2>3 DEF Client
  <2>4. CASE client' = StartFetchDatabase(asked)
    BY <1>1, <2>4 DEF StartFetchDatabase, Client
  <2> QED BY <2>1, <2>3, <2>4
<1>3. HandleDatabaseUpdated =>
        OwnBecomes(Own.link, Own.stats,
                   IF Own.link = "none" THEN Own.requests ELSE Own.requests + 1, Own.listed)
  BY <1>1 DEF HandleDatabaseUpdated, StartFetchDatabase, Client
<1>4. ServerStep => OwnBecomes(Own.link, Own.stats, Own.requests, Own.listed)
  <2>1. ASSUME NEW p \in Profiles, StartUpdate(p)
        PROVE  OwnBecomes(Own.link, Own.stats, Own.requests, Own.listed)
    BY <2>1 DEF StartUpdate, Own
  <2>2. ASSUME NEW p \in Profiles, NEW songs \in SUBSET Songs, EndUpdate(p, songs)
        PROVE  OwnBecomes(Own.link, Own.stats, Own.requests, Own.listed)
    <3>1. PICK e : client' = [client EXCEPT ![p].event = e]
      BY <2>2 DEF EndUpdate
    <3>2. client[p] \in Client
      BY <1>1
    <3>3. Own' = IF D = p THEN [client[p] EXCEPT !.event = e] ELSE Own
      BY <1>1, <3>1
    <3> QED BY <1>1, <3>2, <3>3 DEF Client
  <2> QED BY <2>1, <2>2 DEF ServerStep
<1>5. QuitAndRestart => OwnBecomes("none", None, 0, None)
  BY <1>1 DEF QuitAndRestart, NewClient
<1>6. \/ HandleDisconnected \/ HandleFetchedDatabase \/ HandleBeganImport
      \/ HandleFinishedImport \/ ImportStep \/ BackUpCompilationsFails
      \/ \E s \in Songs : ToggleIsPartOfCompilation(s) \/ DetectCompilations(s)
      => Own' = Own
  BY DEF HandleDisconnected, HandleFetchedDatabase, HandleBeganImport, HandleFinishedImport,
         ImportStep, OpenLibrary, BackUpCompilations, BackUpCompilationsFails, Clear, InsertSongs, RestoreCompilations,
         RemoveBackup, PostFinishedImport, ToggleIsPartOfCompilation, DetectCompilations, Own
<1> QED BY <1>2, <1>3, <1>4, <1>5, <1>6 DEF D

\* Of the queue, the first k notifications are gone, and notifications with new
\* names have come at its end.
QueueGoesOn(k, new) ==
  /\ \A j \in 1..Len(mainQueue) :
       j > k => j - k \in 1..Len(mainQueue') /\ mainQueue'[j - k] = mainQueue[j]
  /\ \A j \in 1..Len(mainQueue') :
       \/ j + k \in 1..Len(mainQueue) /\ mainQueue'[j] = mainQueue[j + k]
       \/ mainQueue'[j].name \in new

(* Taking the first notification, or none, and posting some.               *)
LEMMA QueueTakes ==
  ASSUME IInv, NEW t \in Seq(Notification), NEW new,
         \A j \in 1..Len(t) : t[j].name \in new
  PROVE  /\ mainQueue' = mainQueue \o t => QueueGoesOn(0, new)
         /\ mainQueue # <<>> /\ mainQueue' = Tail(mainQueue) \o t => QueueGoesOn(1, new)
<1>1. mainQueue \in Seq(Notification) /\ Len(mainQueue) \in Nat /\ Len(t) \in Nat
  BY DEF IInv, TypeOK
<1>2. ASSUME NEW r \in Seq(Notification), NEW k \in {0, 1}, mainQueue' = r \o t,
             Len(r) = Len(mainQueue) - k, \A j \in 1..Len(r) : r[j] = mainQueue[j + k]
      PROVE  QueueGoesOn(k, new)
  <2>1. /\ Len(mainQueue') = Len(r) + Len(t) /\ Len(r) \in Nat
        /\ \A j \in 1..Len(mainQueue') :
             mainQueue'[j] = IF j <= Len(r) THEN r[j] ELSE t[j - Len(r)]
    <3>1. /\ Len(r \o t) = Len(r) + Len(t)
          /\ \A j \in 1..Len(r) + Len(t) :
               (r \o t)[j] = IF j <= Len(r) THEN r[j] ELSE t[j - Len(r)]
      BY ConcatProperties
    <3> QED BY <1>2, <3>1
  <2>2. ASSUME NEW j \in 1..Len(mainQueue), j > k
        PROVE  j - k \in 1..Len(mainQueue') /\ mainQueue'[j - k] = mainQueue[j]
    <3>1. j - k \in 1..Len(r)
      BY <1>1, <1>2, <2>2
    <3>2. j - k \in 1..Len(mainQueue') /\ j - k <= Len(r) /\ (j - k) + k = j
      BY <1>1, <1>2, <2>1, <2>2, <3>1
    <3> QED BY <1>2, <2>1, <3>1, <3>2
  <2>3. ASSUME NEW j \in 1..Len(mainQueue')
        PROVE  \/ j + k \in 1..Len(mainQueue) /\ mainQueue'[j] = mainQueue[j + k]
               \/ mainQueue'[j].name \in new
    <3>1. CASE j <= Len(r)
      BY <1>1, <1>2, <2>1, <3>1
    <3>2. CASE ~(j <= Len(r))
      <4>1. j - Len(r) \in 1..Len(t)
        BY <1>1, <2>1, <3>2
      <4> QED BY <2>1, <3>2, <4>1
    <3> QED BY <3>1, <3>2
  <2> QED BY <2>2, <2>3 DEF QueueGoesOn
<1>3. ASSUME mainQueue' = mainQueue \o t
      PROVE  QueueGoesOn(0, new)
  <2>1. /\ Len(mainQueue) \in Nat /\ 0 \in {0, 1}
        /\ \A i \in 1..Len(mainQueue) : mainQueue[i] = mainQueue[i + 0]
    BY <1>1
  <2>2. Len(mainQueue) = Len(mainQueue) - 0
    BY <1>1
  <2> QED BY <1>1, <1>2, <1>3, <2>1, <2>2, Zenon
<1>4. ASSUME mainQueue # <<>>, mainQueue' = Tail(mainQueue) \o t
      PROVE  QueueGoesOn(1, new)
  <2>1. /\ Tail(mainQueue) \in Seq(Notification) /\ Len(Tail(mainQueue)) = Len(mainQueue) - 1
        /\ \A j \in 1..Len(Tail(mainQueue)) : Tail(mainQueue)[j] = mainQueue[j + 1]
    BY <1>1, <1>4, HeadTailProperties
  <2> QED BY <1>2, <1>4, <2>1
<1> QED BY <1>3, <1>4

(* What a step does to the queue, unless it ends the program.              *)
LEMMA QueueStep ==
  ASSUME IInv, OnlyDefault, CalmStep, ~QuitAndRestart
  PROVE  \E k \in {0, 1} : \E new :
           /\ QueueGoesOn(k, new)
           /\ k = 1 => MainStep /\ mainQueue # <<>>
           /\ MainStep => k = 1
           /\ "FinishedImport" \in new => PostFinishedImport
           /\ "FetchedDatabase" \in new => PostFetchedDatabase(DefaultProfile)
<1> DEFINE D == DefaultProfile
<1>1. D \in Profiles /\ currentProfile = D /\ mainQueue \in Seq(Notification)
  BY OwnClient DEF OnlyDefault, IInv, TypeOK
<1>2. ASSUME NEW name \in {"Connected", "Disconnected", "DatabaseUpdated", "BeganImport",
                           "FinishedImport"}, Post(Named(name))
      PROVE  QueueGoesOn(0, {name})
  <2>1. Named(name) \in Notification /\ Named(name).name = name
    BY NamedType DEF Named
  <2>2. <<Named(name)>> \in Seq(Notification)
        /\ \A j \in 1..Len(<<Named(name)>>) : <<Named(name)>>[j].name \in {name}
    BY <2>1
  <2>3. mainQueue' = mainQueue \o <<Named(name)>>
    BY <1>1, <1>2, <2>1 DEF Post
  <2> QED BY <2>2, <2>3, QueueTakes
<1>3. ASSUME mainQueue' = mainQueue
      PROVE  QueueGoesOn(0, {})
  BY <1>1, <1>3 DEF QueueGoesOn
<1>4. ASSUME PostFetchedDatabase(D)
      PROVE  QueueGoesOn(0, {"FetchedDatabase"})
  <2> DEFINE n == [name |-> "FetchedDatabase", songs |-> Own.listed,
                   identifier |-> DatabaseIdentifier(D)]
  <2>1. n \in Notification
    <3>1. Own.listed # None
      BY <1>4 DEF PostFetchedDatabase, Own
    <3>2. Own.listed \in SUBSET Songs /\ Own.link # "none"
      BY <3>1, OwnClient DEF Client, IInv, UnregisteredIsIdle, Own
    <3> QED BY <1>1, <3>2, AskingType DEF Notification, Own
  <2>2. n.name = "FetchedDatabase" /\ mainQueue' = Append(mainQueue, n)
    BY <1>4 DEF PostFetchedDatabase, Post, Own
  <2> HIDE DEF n
  <2>3. <<n>> \in Seq(Notification) /\ mainQueue' = mainQueue \o <<n>>
        /\ \A j \in 1..Len(<<n>>) : <<n>>[j].name \in {"FetchedDatabase"}
    BY <1>1, <2>1, <2>2
  <2> QED BY <2>3, QueueTakes
<1>5. ASSUME MainStep
      PROVE  QueueGoesOn(1, {}) /\ mainQueue # <<>>
  <2>1. mainQueue # <<>> /\ mainQueue' = Tail(mainQueue)
    BY <1>5 DEF MainStep, HandleConnected, HandleDisconnected, HandleDatabaseUpdated,
         HandleFetchedDatabase, HandleBeganImport, HandleFinishedImport, Arrives
  <2>2. Tail(mainQueue) \in Seq(Notification)
    BY <1>1, <2>1
  <2>3. Tail(mainQueue) \o <<>> = Tail(mainQueue)
    BY <2>2
  <2>4. <<>> \in Seq(Notification) /\ \A j \in 1..Len(<<>>) : <<>>[j].name \in {}
    OBVIOUS
  <2> QED BY <2>1, <2>3, <2>4, QueueTakes
<1>6. CASE MainStep
  BY <1>5, <1>6
<1>7. CASE PostFetchedDatabase(D)
  <2>1. CASE ~MainStep
    BY <1>4, <1>7, <2>1
  <2> QED BY <1>6, <2>1
<1>8. CASE ~MainStep /\ ~PostFetchedDatabase(D)
  <2>1. \/ mainQueue' = mainQueue
        \/ Post(Named("Connected")) \/ Post(Named("Disconnected"))
        \/ Post(Named("DatabaseUpdated")) \/ Post(Named("BeganImport"))
        \/ Post(Named("FinishedImport")) /\ PostFinishedImport
    <3>1. CASE ImportStep
      BY <3>1 DEF ImportStep, OpenLibrary, BackUpCompilations, Clear, InsertSongs,
                  RestoreCompilations, RemoveBackup, PostFinishedImport
    <3>2. CASE ~ImportStep
      BY <1>8, <3>2 DEF CalmStep, Register, Connect, ListSongs, Poll, ServerStep,
                  StartUpdate, EndUpdate,
                  ToggleIsPartOfCompilation, DetectCompilations, BackUpCompilationsFails
    <3> QED BY <3>1, <3>2
  <2>2. \E new :
          /\ QueueGoesOn(0, new) /\ "FetchedDatabase" \notin new
          /\ "FinishedImport" \in new => PostFinishedImport
    BY <1>2, <1>3, <2>1
  <2> QED BY <1>8, <2>2
<1> QED BY <1>6, <1>7, <1>8

\* A step that leaves every list where it is, or closer to the head of the queue
KeepsLists ==
  LET D == DefaultProfile
  IN /\ Own'.listed = Own.listed
     /\ Own.listed # None => Own'.link = Own.link /\ Own'.stats = Own.stats
     /\ Own'.stats \in {Own.stats, None, server[D].time}
     /\ mQueued' = mQueued
     /\ mImporterThread' # None <=> mImporterThread # None
     /\ mImporterThread # None =>
          /\ mImporterThread'.songs = mImporterThread.songs
          /\ mImporterThread'.identifier = mImporterThread.identifier
     /\ db'[D].songs = db[D].songs /\ db'[D].identifier = db[D].identifier
     /\ server'[D].songs = server[D].songs /\ server'[D].time = server[D].time

(* All other steps are about lists.                                        *)
LEMMA KeepsListsStep ==
  ASSUME IInv, OnlyDefault, CalmStep
  PROVE  LET D == DefaultProfile
         IN \/ KeepsLists
            \/ ListSongs(D) \/ PostFetchedDatabase(D)
            \/ HandleFetchedDatabase \/ HandleFinishedImport
            \/ Clear \/ InsertSongs \/ QuitAndRestart
            \/ \E songs \in SUBSET Songs : EndUpdate(D, songs)
<1> DEFINE D == DefaultProfile
<1>1. /\ D \in Profiles /\ currentProfile = D
      /\ db \in [Profiles -> [songs : SUBSET Songs, flags : SUBSET Songs,
                              identifier : Identifier \cup {None}]]
      /\ server \in [Profiles -> [songs : SUBSET Songs, time : Nat, updating : BOOLEAN]]
      /\ Own = client[D]
  BY OwnClient DEF OnlyDefault, IInv, TypeOK, Own
<1>2. ASSUME UNCHANGED <<mainVars, db, server>>,
             Own'.listed = Own.listed,
             Own.listed # None => Own'.link = Own.link /\ Own'.stats = Own.stats,
             Own'.stats \in {Own.stats, None, server[D].time}
      PROVE  KeepsLists
  BY <1>2 DEF KeepsLists, mainVars
<1>3. CASE Register(D) \/ Connect(D) \/ Poll(D)
  <2>1. UNCHANGED <<mainVars, db, server>>
    BY <1>3 DEF Register, Connect, Poll, diskVars
  <2>2. Own.listed = None
    BY <1>1, <1>3 DEF Register, Connect, Poll, IInv, UnregisteredIsIdle
  <2>3. Own'.listed = Own.listed /\ Own'.stats \in {Own.stats, None, server[D].time}
    BY <1>3, OwnClientStep DEF OwnBecomes
  <2> QED BY <1>2, <2>1, <2>2, <2>3
<1>4. CASE HandleConnected \/ HandleDisconnected \/ HandleDatabaseUpdated \/ HandleBeganImport
  <2>1. UNCHANGED <<mImporterThread, mQueued, db, server>>
    BY <1>4 DEF HandleConnected, HandleDisconnected, HandleDatabaseUpdated, HandleBeganImport,
                mainVars, diskVars
  <2>2. Own'.listed = Own.listed /\ Own'.stats \in {Own.stats, None, server[D].time}
    BY <1>4, OwnOtherStep DEF OwnBecomes, StatsAfterAsking, Own
  <2>3. Own.listed # None => Own'.link = Own.link /\ Own'.stats = Own.stats
    <3>1. CASE HandleConnected
      BY <1>1, <3>1 DEF HandleConnected
    <3> QED BY <1>4, <3>1, OwnOtherStep DEF OwnBecomes
  <2> QED BY <2>1, <2>2, <2>3 DEF KeepsLists
<1>5. CASE (ImportStep \/ BackUpCompilationsFails) /\ ~Clear /\ ~InsertSongs
  <2>1. mImporterThread # None /\ mImporterThread \in Import /\ Own' = Own
        /\ UNCHANGED <<mQueued, server>>
    BY <1>5, ImportFields, OwnOtherStep DEF ImportStep, OpenLibrary, BackUpCompilations,
         BackUpCompilationsFails, RestoreCompilations, RemoveBackup, PostFinishedImport, At
  <2>2. /\ mImporterThread' # None
        /\ mImporterThread'.songs = mImporterThread.songs
        /\ mImporterThread'.identifier = mImporterThread.identifier
    <3>1. mImporterThread' \in Import
      <4>1. CASE OpenLibrary
        BY <1>1, <2>1, <4>1 DEF OpenLibrary, Import
      <4>2. CASE BackUpCompilations
        BY <1>1, <2>1, <4>2 DEF BackUpCompilations, Import
      <4>3. CASE RestoreCompilations \/ RemoveBackup \/ PostFinishedImport
                   \/ BackUpCompilationsFails
        BY <2>1, <4>3, ImportFields DEF RestoreCompilations, RemoveBackup, PostFinishedImport,
                                        BackUpCompilationsFails, GoTo
      <4> QED BY <1>5, <4>1, <4>2, <4>3 DEF ImportStep
    <3>2. mImporterThread' # None
      BY <3>1, NoneIsNoImport
    <3>3. /\ mImporterThread'.songs = mImporterThread.songs
          /\ mImporterThread'.identifier = mImporterThread.identifier
      <4>1. CASE OpenLibrary
        BY <2>1, <4>1 DEF OpenLibrary, Import
      <4>2. CASE BackUpCompilations
        BY <2>1, <4>2 DEF BackUpCompilations, Import
      <4>3. CASE RestoreCompilations \/ RemoveBackup \/ PostFinishedImport
                   \/ BackUpCompilationsFails
        BY <2>1, <4>3 DEF RestoreCompilations, RemoveBackup, PostFinishedImport,
                          BackUpCompilationsFails, GoTo, Import
      <4> QED BY <1>5, <4>1, <4>2, <4>3 DEF ImportStep
    <3> QED BY <3>2, <3>3
  <2>3. db'[D].songs = db[D].songs /\ db'[D].identifier = db[D].identifier
    <3>1. CASE RestoreCompilations
      <4>1. Library = D
        BY <3>1 DEF RestoreCompilations, At, OnlyDefault
      <4>2. PICK flags : db' = db \/ db' = [db EXCEPT ![D].flags = flags]
        BY <3>1, <4>1 DEF RestoreCompilations
      <4>3. D \in DOMAIN db /\ db[D] \in [songs : SUBSET Songs, flags : SUBSET Songs,
                                        identifier : Identifier \cup {None}]
        BY <1>1 DEF IInv, TypeOK
      <4> HIDE DEF D
      <4> QED BY <4>2, <4>3
    <3>2. CASE OpenLibrary \/ BackUpCompilations \/ BackUpCompilationsFails \/ RemoveBackup
                 \/ PostFinishedImport
      <4>1. UNCHANGED db
        BY <3>2 DEF OpenLibrary, BackUpCompilations, BackUpCompilationsFails, RemoveBackup,
                    PostFinishedImport, diskVars
      <4> QED BY <4>1
    <3> QED BY <1>5, <3>1, <3>2 DEF ImportStep
  <2> QED BY <2>1, <2>2, <2>3 DEF KeepsLists
<1>6. ASSUME NEW s \in Songs, ToggleIsPartOfCompilation(s) \/ DetectCompilations(s)
      PROVE  KeepsLists
  <2>1. UNCHANGED <<mImporterThread, mQueued, server>> /\ Own' = Own
    BY <1>6, OwnOtherStep DEF ToggleIsPartOfCompilation, DetectCompilations, mainVars
  <2>2. \E new : db' = [db EXCEPT ![D].flags = new]
    BY <1>1, <1>6 DEF ToggleIsPartOfCompilation, DetectCompilations
  <2>3. db'[D].songs = db[D].songs /\ db'[D].identifier = db[D].identifier
    BY <1>1, <2>2
  <2> QED BY <2>1, <2>3 DEF KeepsLists
<1>7. CASE ServerStep /\ ~ \E songs \in SUBSET Songs : EndUpdate(D, songs)
  <2>1. UNCHANGED <<mainVars, db>>
    BY <1>7 DEF ServerStep, StartUpdate, EndUpdate, diskVars
  <2>2. server'[D].songs = server[D].songs /\ server'[D].time = server[D].time
    <3>1. ASSUME NEW p \in Profiles, StartUpdate(p)
          PROVE  server'[D].songs = server[D].songs /\ server'[D].time = server[D].time
      BY <1>1, <3>1 DEF StartUpdate
    <3>2. ASSUME NEW p \in Profiles, NEW songs \in SUBSET Songs, EndUpdate(p, songs)
          PROVE  server'[D] = server[D]
      BY <1>1, <1>7, <3>2 DEF EndUpdate
    <3> QED BY <1>7, <3>1, <3>2 DEF ServerStep
  <2>3. /\ Own'.listed = Own.listed /\ Own'.link = Own.link /\ Own'.stats = Own.stats
    BY <1>7, OwnOtherStep DEF OwnBecomes
  <2> QED BY <2>1, <2>2, <2>3 DEF KeepsLists, mainVars
<1> QED BY <1>3, <1>4, <1>5, <1>6, <1>7 DEF CalmStep, MainStep

\* The steps that make a list, move one, or change what it should be
ListAction ==
  LET D == DefaultProfile
  IN \/ ListSongs(D) \/ PostFetchedDatabase(D)
     \/ HandleFetchedDatabase \/ HandleFinishedImport
     \/ Clear \/ InsertSongs \/ QuitAndRestart
     \/ \E songs \in SUBSET Songs : EndUpdate(D, songs)

(* Every other step keeps the lists, those in the queue too.               *)
LEMMA OtherStep ==
  ASSUME IInv, OnlyDefault, CalmStep, ~ListAction
  PROVE  /\ KeepsLists
         /\ \E k \in {0, 1} : \E new :
              /\ QueueGoesOn(k, new) /\ "FetchedDatabase" \notin new
              /\ k = 1 => mainQueue # <<>> /\ ~BringsList(mainQueue, 1)
<1>1. KeepsLists
  BY KeepsListsStep DEF ListAction
<1>2. PICK k \in {0, 1} : \E new :
        /\ QueueGoesOn(k, new)
        /\ k = 1 => MainStep /\ mainQueue # <<>>
        /\ "FetchedDatabase" \in new => PostFetchedDatabase(DefaultProfile)
  BY QueueStep DEF ListAction
<1>3. MainStep => ~BringsList(mainQueue, 1)
  <2>1. mainQueue # <<>> => Head(mainQueue) = mainQueue[1]
    BY DEF IInv, TypeOK
  <2> QED BY <2>1 DEF ListAction, MainStep, HandleConnected, HandleDisconnected, BringsList,
          HandleDatabaseUpdated, HandleBeganImport, Arrives
<1> QED BY <1>1, <1>2, <1>3 DEF ListAction

(* A list that was posted is the last notification, and comes with the     *)
(* identifier that the stats have by then.                                 *)
LEMMA ListPosted ==
  ASSUME IInv, OnlyDefault, PostFetchedDatabase(DefaultProfile)
  PROVE  LET D == DefaultProfile
             n == [name |-> "FetchedDatabase", songs |-> Own.listed,
                   identifier |-> DatabaseIdentifier(D)]
             last == Len(mainQueue')
         IN /\ last \in Nat /\ last > Len(mainQueue) /\ mainQueue'[last] = n
            /\ \A j \in 1..Len(mainQueue) : mainQueue'[j] = mainQueue[j]
            /\ \A j \in 1..last : BringsList(mainQueue', j) => j = last \/ j \in 1..Len(mainQueue)
            /\ Own.listed # None /\ Own.link # "none"
            /\ UNCHANGED <<mainVars, diskVars, server>>
<1> DEFINE D == DefaultProfile
           n == [name |-> "FetchedDatabase", songs |-> Own.listed,
                 identifier |-> DatabaseIdentifier(D)]
<1>1. /\ Own.listed # None /\ Own.link # "none" /\ D \in Profiles
      /\ UNCHANGED <<mainVars, diskVars, server>>
      /\ mainQueue' = Append(mainQueue, n)
  BY OwnClient DEF PostFetchedDatabase, Post, Own, IInv, UnregisteredIsIdle
<1>2. n \in Notification
  <2>1. Own.listed \in SUBSET Songs
    BY <1>1, OwnClient DEF Client
  <2> QED BY <1>1, <2>1, AskingType DEF Notification, Own
<1>3. mainQueue \in Seq(Notification) /\ Len(mainQueue) \in Nat
  BY DEF IInv, TypeOK
<1> HIDE DEF n
<1>4. /\ Len(mainQueue') = Len(mainQueue) + 1 /\ mainQueue'[Len(mainQueue) + 1] = n
      /\ \A j \in 1..Len(mainQueue) : mainQueue'[j] = mainQueue[j]
  BY <1>1, <1>2, <1>3, AppendProperties
<1>5. \A j \in 1..Len(mainQueue') : j = Len(mainQueue') \/ j \in 1..Len(mainQueue)
  BY <1>3, <1>4
<1> QED BY <1>1, <1>3, <1>4, <1>5 DEF n, D

(* The list that the main thread takes is the one that waits next, or that *)
(* of the import that begins.                                              *)
LEMMA ListTaken ==
  ASSUME IInv, OnlyDefault, HandleFetchedDatabase
  PROVE  LET n == mainQueue[1]
         IN /\ 1 \in 1..Len(mainQueue) /\ BringsList(mainQueue, 1)
            /\ QueueGoesOn(1, {})
            /\ IF mImporterThread # None
               THEN /\ mQueued' = [songs |-> n.songs, identifier |-> n.identifier]
                    /\ mQueued' # None /\ UNCHANGED mImporterThread
               ELSE /\ mImporterThread' # None /\ mImporterThread'.at = "begin"
                    /\ mImporterThread'.songs = n.songs
                    /\ mImporterThread'.identifier = n.identifier
                    /\ mQueued = None /\ mQueued' = None
            /\ UNCHANGED <<client, diskVars, server>> /\ Own' = Own
<1>1. /\ mainQueue # <<>> /\ Head(mainQueue).name = "FetchedDatabase"
      /\ mainQueue' = Tail(mainQueue) /\ UNCHANGED <<client, diskVars, server>> /\ Own' = Own
  BY DEF HandleFetchedDatabase, Arrives, Own
<1>2. /\ mainQueue \in Seq(Notification) /\ Len(mainQueue) \in Nat
      /\ Head(mainQueue) = mainQueue[1] /\ 1 \in 1..Len(mainQueue)
      /\ Tail(mainQueue) \in Seq(Notification)
  BY <1>1, HeadTailProperties DEF IInv, TypeOK
<1>3. QueueGoesOn(1, {})
  <2>1. Tail(mainQueue) \o <<>> = Tail(mainQueue)
    BY <1>2
  <2>2. <<>> \in Seq(Notification) /\ \A j \in 1..Len(<<>>) : FALSE
    OBVIOUS
  <2> QED BY <1>1, <2>1, <2>2, QueueTakes
<1>4. mainQueue[1].songs \in SUBSET Songs /\ mainQueue[1].identifier \in Identifier
  BY <1>1, <1>2 DEF Notification
<1>5. CASE mImporterThread # None
  <2>1. mQueued' = [songs |-> mainQueue[1].songs, identifier |-> mainQueue[1].identifier]
        /\ UNCHANGED mImporterThread
    BY <1>2, <1>5 DEF HandleFetchedDatabase
  <2>2. mQueued' # None
    BY <1>4, <2>1, NoneIsNoImport
  <2> QED BY <1>1, <1>2, <1>3, <1>5, <2>1, <2>2 DEF BringsList
<1>6. CASE mImporterThread = None
  <2>1. StartImport(mainQueue[1].songs, mainQueue[1].identifier) /\ UNCHANGED mQueued
    BY <1>2, <1>6 DEF HandleFetchedDatabase
  <2>2. mImporterThread' # None
    BY <1>4, <2>1, StartImportInv, NoneIsNoImport
  <2> QED BY <1>1, <1>2, <1>3, <1>6, <2>1, <2>2 DEF BringsList, StartImport, OnlyDefault
<1> QED BY <1>5, <1>6

(* When an import has ended, the one that waited begins.                   *)
LEMMA ListStarted ==
  ASSUME IInv, OnlyDefault, HandleFinishedImport
  PROVE  /\ 1 \in 1..Len(mainQueue) /\ mainQueue[1].name = "FinishedImport"
         /\ QueueGoesOn(1, {})
         /\ mQueued' = None
         /\ IF mQueued # None
            THEN /\ mImporterThread' # None /\ mImporterThread'.at = "begin"
                 /\ mImporterThread'.songs = mQueued.songs
                 /\ mImporterThread'.identifier = mQueued.identifier
            ELSE mImporterThread' = None
         /\ UNCHANGED <<client, diskVars, server>> /\ Own' = Own
<1>1. /\ mainQueue # <<>> /\ Head(mainQueue).name = "FinishedImport"
      /\ mainQueue' = Tail(mainQueue) /\ UNCHANGED <<client, diskVars, server>> /\ Own' = Own
      /\ mQueued' = None
  BY DEF HandleFinishedImport, Arrives, Own
<1>2. /\ mainQueue \in Seq(Notification) /\ Len(mainQueue) \in Nat
      /\ Head(mainQueue) = mainQueue[1] /\ 1 \in 1..Len(mainQueue)
      /\ Tail(mainQueue) \in Seq(Notification)
  BY <1>1, HeadTailProperties DEF IInv, TypeOK
<1>3. QueueGoesOn(1, {})
  <2>1. Tail(mainQueue) \o <<>> = Tail(mainQueue)
    BY <1>2
  <2>2. <<>> \in Seq(Notification) /\ \A j \in 1..Len(<<>>) : FALSE
    OBVIOUS
  <2> QED BY <1>1, <2>1, <2>2, QueueTakes
<1>4. CASE mQueued # None
  <2>1. StartImport(mQueued.songs, mQueued.identifier)
    BY <1>4 DEF HandleFinishedImport
  <2>2. mQueued.songs \in SUBSET Songs /\ mQueued.identifier \in Identifier
    BY <1>4 DEF IInv, TypeOK
  <2>3. mImporterThread' # None
    BY <2>1, <2>2, StartImportInv, NoneIsNoImport
  <2> QED BY <1>1, <1>2, <1>3, <1>4, <2>1, <2>3 DEF StartImport
<1>5. CASE mQueued = None
  BY <1>1, <1>2, <1>3, <1>5 DEF HandleFinishedImport
<1> QED BY <1>4, <1>5

(* The tables lose their songs, and get those of the import.               *)
LEMMA ListWritten ==
  ASSUME IInv, OnlyDefault, Clear \/ InsertSongs
  PROVE  LET D == DefaultProfile
         IN /\ UNCHANGED <<mainQueue, mQueued, backup, server>> /\ Own' = Own
            /\ mImporterThread # None /\ mImporterThread' # None
            /\ mImporterThread'.songs = mImporterThread.songs
            /\ mImporterThread'.identifier = mImporterThread.identifier
            /\ Clear => /\ mImporterThread.at = "clear" /\ mImporterThread'.at = "insert"
                        /\ db'[D].identifier = db[D].identifier
            /\ InsertSongs => /\ mImporterThread.at = "insert" /\ mImporterThread'.at = "restore"
                              /\ db'[D].songs = mImporterThread.songs
                              /\ db'[D].identifier = mImporterThread.identifier
<1> DEFINE D == DefaultProfile
<1>1. /\ mImporterThread # None /\ mImporterThread \in Import /\ D \in Profiles
      /\ UNCHANGED <<mainQueue, mQueued, backup, server>> /\ Own' = Own
      /\ db \in [Profiles -> [songs : SUBSET Songs, flags : SUBSET Songs,
                              identifier : Identifier \cup {None}]]
      /\ mImporterThread.at \in {"clear", "insert"} /\ Library = D
  <2>1. mImporterThread # None /\ mImporterThread.at \in {"clear", "insert"}
    BY DEF Clear, InsertSongs, At
  <2>2. Library = D
    BY <2>1 DEF OnlyDefault
  <2> QED BY <2>1, <2>2, ImportFields, OwnClient DEF Clear, InsertSongs, Own, IInv, TypeOK
<1>2. mImporterThread' # None
  BY <1>1, ImportFields, NoneIsNoImport DEF Clear, InsertSongs, GoTo
<1>3. CASE Clear
  <2>1. ~InsertSongs
    BY <1>3 DEF Clear, InsertSongs, At
  <2>2. /\ mImporterThread.at = "clear" /\ mImporterThread'.at = "insert"
        /\ mImporterThread'.songs = mImporterThread.songs
        /\ mImporterThread'.identifier = mImporterThread.identifier
    BY <1>1, <1>3 DEF Clear, At, GoTo, Import
  <2>3. db'[D].identifier = db[D].identifier
    BY <1>1, <1>3 DEF Clear
  <2> QED BY <1>1, <1>2, <2>1, <2>2, <2>3
<1>4. CASE InsertSongs
  <2>1. ~Clear
    BY <1>4 DEF Clear, InsertSongs, At
  <2>2. /\ mImporterThread.at = "insert" /\ mImporterThread'.at = "restore"
        /\ mImporterThread'.songs = mImporterThread.songs
        /\ mImporterThread'.identifier = mImporterThread.identifier
    BY <1>1, <1>4 DEF InsertSongs, At, GoTo, Import
  <2>3. db'[D].songs = mImporterThread.songs /\ db'[D].identifier = mImporterThread.identifier
    BY <1>1, <1>4 DEF InsertSongs
  <2> QED BY <1>1, <1>2, <2>1, <2>2, <2>3
<1> QED BY <1>3, <1>4

(* An update of the server changes nothing but the server.                 *)
LEMMA ServerUpdated ==
  ASSUME IInv, OnlyDefault, NEW songs \in SUBSET Songs, EndUpdate(DefaultProfile, songs)
  PROVE  LET D == DefaultProfile
         IN /\ UNCHANGED <<mainQueue, mImporterThread, mQueued, db, backup>>
            /\ OwnBecomes(Own.link, Own.stats, Own.requests, Own.listed)
            /\ server'[D].time = server[D].time + 1 /\ server[D].time \in Nat
<1>1. ServerStep
  BY OwnClient DEF ServerStep
<1>2. OwnBecomes(Own.link, Own.stats, Own.requests, Own.listed)
  BY <1>1, OwnOtherStep
<1> QED BY <1>2, OwnClient DEF EndUpdate, mainVars, diskVars, IInv, TypeOK

(* The end of an import is announced at its end, and handled before the next *)
(* one begins.                                                              *)
LEMMA EndsOnceStep ==
  ASSUME IInv, OnlyDefault, EndsOnce, CalmStep
  PROVE  EndsOnce'
<1>0. CASE QuitAndRestart
  BY <1>0 DEF QuitAndRestart, EndsOnce
<1> SUFFICES ASSUME ~QuitAndRestart PROVE EndsOnce'
  BY <1>0
<1> DEFINE Ends(q, i) == q[i].name = "FinishedImport"
<1>1. PICK k, new :
        /\ k \in {0, 1}
        /\ QueueGoesOn(k, new)
        /\ "FinishedImport" \in new => PostFinishedImport
  BY QueueStep
<1> k \in {0, 1}
  BY <1>1
<1>2. \A i \in 1..Len(mainQueue) : Ends(mainQueue, i) =>
        At("finished") /\ \A j \in 1..Len(mainQueue) : Ends(mainQueue, j) => i = j
  BY DEF EndsOnce
<1>3. SUFFICES \A i \in 1..Len(mainQueue') : Ends(mainQueue', i) =>
        At("finished")' /\ \A j \in 1..Len(mainQueue') : Ends(mainQueue', j) => i = j
  BY DEF EndsOnce
<1> HIDE DEF Ends
<1>4. CASE PostFinishedImport
  <2>1. ~At("finished") /\ mImporterThread # None
    BY <1>4 DEF PostFinishedImport, At
  <2>2. At("finished")'
    <3>1. mImporterThread' = [mImporterThread EXCEPT !.at = "finished"]
      BY <1>4 DEF PostFinishedImport, GoTo
    <3>2. mImporterThread \in Import /\ mImporterThread' \in Import
      BY <2>1, <3>1, ImportFields
    <3>3. mImporterThread'.at = "finished"
      BY <3>1, <3>2 DEF Import
    <3> QED BY <3>2, <3>3, NoneIsNoImport DEF At
  <2>3. /\ Len(mainQueue') = Len(mainQueue) + 1 /\ Len(mainQueue) \in Nat
        /\ \A j \in 1..Len(mainQueue) : mainQueue'[j] = mainQueue[j]
    <3>1. mainQueue \in Seq(Notification) /\ Named("FinishedImport") \in Notification
      BY NamedType DEF IInv, TypeOK
    <3>2. mainQueue' = Append(mainQueue, Named("FinishedImport"))
      BY <1>4 DEF PostFinishedImport, Post
    <3> QED BY <3>1, <3>2, AppendProperties
  <2>4. \A j \in 1..Len(mainQueue') : Ends(mainQueue', j) => j = Len(mainQueue')
    <3> SUFFICES ASSUME NEW j \in 1..Len(mainQueue), Ends(mainQueue', j)
                 PROVE  FALSE
      BY <2>3
    <3> QED BY <1>2, <2>1, <2>3 DEF Ends
  <2> QED BY <2>2, <2>4
<1>5. CASE ~PostFinishedImport
  <2>1. \A j \in 1..Len(mainQueue') :
          Ends(mainQueue', j) => j + k \in 1..Len(mainQueue) /\ Ends(mainQueue, j + k)
    BY <1>1, <1>5 DEF QueueGoesOn, Ends
  <2>2. \A i, j \in 1..Len(mainQueue') : Ends(mainQueue', i) /\ Ends(mainQueue', j) => i = j
    <3> SUFFICES ASSUME NEW i \in 1..Len(mainQueue'), NEW j \in 1..Len(mainQueue'),
                        Ends(mainQueue', i), Ends(mainQueue', j)
                 PROVE  i = j
      OBVIOUS
    <3>1. i + k = j + k
      BY <1>2, <2>1
    <3> QED BY <3>1
  <2>3. ASSUME NEW i \in 1..Len(mainQueue'), Ends(mainQueue', i)
        PROVE  At("finished")'
    <3>1. i + k \in 1..Len(mainQueue) /\ Ends(mainQueue, i + k) /\ At("finished")
      BY <1>2, <2>1, <2>3
    <3>2. ~ImportStep /\ ~BackUpCompilationsFails
      BY <1>5, <3>1 DEF ImportStep, OpenLibrary, BackUpCompilations, BackUpCompilationsFails,
                  Clear, InsertSongs, RestoreCompilations, RemoveBackup, At
    <3>3. ~HandleFinishedImport
      <4> SUFFICES ASSUME HandleFinishedImport PROVE FALSE
        OBVIOUS
      <4>1. 1 \in 1..Len(mainQueue) /\ Ends(mainQueue, 1)
        BY ListStarted DEF Ends
      <4>2. i + k = 1
        BY <1>2, <3>1, <4>1
      <4>3. i = 1 /\ k = 0 /\ Len(mainQueue') >= 1
        BY <4>2
      <4>4. Len(mainQueue') < Len(mainQueue)
        <5>1. mainQueue \in Seq(Notification) /\ mainQueue # <<>> /\ mainQueue' = Tail(mainQueue)
          BY DEF HandleFinishedImport, Arrives, IInv, TypeOK
        <5> QED BY <5>1, HeadTailProperties
      <4>5. mainQueue'[1] = mainQueue[2] /\ 2 \in 1..Len(mainQueue)
        <5>1. mainQueue \in Seq(Notification) /\ mainQueue # <<>> /\ mainQueue' = Tail(mainQueue)
          BY DEF HandleFinishedImport, Arrives, IInv, TypeOK
        <5>2. /\ Len(mainQueue') = Len(mainQueue) - 1 /\ Len(mainQueue) \in Nat
              /\ \A j \in 1..Len(mainQueue') : mainQueue'[j] = mainQueue[j + 1]
          BY <5>1, HeadTailProperties
        <5> QED BY <4>3, <5>2
      <4>6. Ends(mainQueue, 2)
        BY <2>3, <4>3, <4>5 DEF Ends
      <4> QED BY <1>2, <4>1, <4>5, <4>6
    <3>4. UNCHANGED mImporterThread
      <4>1. CASE MainStep
        BY <3>1, <3>3, <4>1 DEF MainStep, HandleConnected, HandleDisconnected,
           HandleDatabaseUpdated, HandleFetchedDatabase, HandleBeganImport, mainVars, At
      <4> QED BY <3>2, <4>1 DEF CalmStep, Register, Connect, ListSongs,
           PostFetchedDatabase, Poll, ServerStep, StartUpdate, EndUpdate,
           ToggleIsPartOfCompilation, DetectCompilations, mainVars
    <3> QED BY <3>1, <3>4 DEF At
  <2> QED BY <2>2, <2>3
<1> QED BY <1>4, <1>5

(* An identifier has the time of the stats, and they were loaded from the  *)
(* server: it never runs ahead.                                            *)
LEMMA TimesStep ==
  ASSUME IInv, OnlyDefault, TimesArePast, CalmStep
  PROVE  TimesArePast'
<1> DEFINE D == DefaultProfile
           Past(id) == NotLater(id, D, server[D])
           Enough ==
             /\ server'[D].time \in Nat /\ server[D].time <= server'[D].time
             /\ Own'.stats # None => Own'.stats <= server'[D].time
             /\ \A i \in 1..Len(mainQueue') :
                  BringsList(mainQueue', i) => Past(mainQueue'[i].identifier)
             /\ mQueued' # None => Past(mQueued'.identifier)
             /\ mImporterThread' # None => Past(mImporterThread'.identifier)
             /\ Past(db'[D].identifier)
<1>1. /\ D \in Profiles /\ server[D].time \in Nat /\ D # None
      /\ Own \in Client /\ Own = client[D]
      /\ server \in [Profiles -> [songs : SUBSET Songs, time : Nat, updating : BOOLEAN]]
      /\ mQueued # None => mImporterThread # None
  BY OwnClient, NoneAssumption DEF IInv, TypeOK, Own, OnlyDefault
<1>2. /\ Own.stats # None => Own.stats <= server[D].time
      /\ \A i \in 1..Len(mainQueue) : BringsList(mainQueue, i) => Past(mainQueue[i].identifier)
      /\ mQueued # None => Past(mQueued.identifier)
      /\ mImporterThread # None => Past(mImporterThread.identifier)
      /\ Past(db[D].identifier)
  BY DEF TimesArePast
<1>3. ASSUME server'[D].time \in Nat, server[D].time <= server'[D].time, NEW id, Past(id)
      PROVE  Past(id)'
  BY <1>1, <1>3 DEF NotLater
<1>4. SUFFICES Enough
  BY <1>3 DEF TimesArePast
<1> HIDE DEF Past
<1>5. CASE ~ListAction
  <2>1. KeepsLists
    BY <1>5, OtherStep
  <2>2. PICK k, new : k \in {0, 1} /\ QueueGoesOn(k, new) /\ "FetchedDatabase" \notin new
    BY <1>5, OtherStep
  <2> k \in {0, 1}
    BY <2>2
  <2>3. \A i \in 1..Len(mainQueue') :
          BringsList(mainQueue', i) => Past(mainQueue'[i].identifier)
    BY <1>2, <2>2 DEF QueueGoesOn, BringsList
  <2>4. Own'.stats # None => Own'.stats <= server[D].time
    BY <1>1, <1>2, <2>1 DEF KeepsLists
  <2> QED BY <1>1, <1>2, <2>1, <2>3, <2>4 DEF KeepsLists
<1>6. CASE ListSongs(D)
  <2>1. UNCHANGED <<mainVars, mainQueue, db, server>>
    BY <1>6 DEF ListSongs, diskVars
  <2>2. Own'.stats \in {Own.stats, None}
    BY <1>6, OwnClientStep DEF OwnBecomes
  <2> QED BY <1>1, <1>2, <2>1, <2>2 DEF mainVars
<1>7. CASE PostFetchedDatabase(D)
  <2> DEFINE n == [name |-> "FetchedDatabase", songs |-> Own.listed,
                   identifier |-> DatabaseIdentifier(D)]
             last == Len(mainQueue')
  <2>1. /\ mainQueue'[last] = n
        /\ \A j \in 1..Len(mainQueue) : mainQueue'[j] = mainQueue[j]
        /\ \A j \in 1..last : BringsList(mainQueue', j) => j = last \/ j \in 1..Len(mainQueue)
        /\ Own.link # "none"
        /\ UNCHANGED <<mainVars, diskVars, server>>
    BY <1>7, ListPosted
  <2>2. Own'.stats = StatsAfterAsking(D)
    BY <1>7, OwnClientStep DEF OwnBecomes
  <2>3. StatsAfterAsking(D) # None => StatsAfterAsking(D) <= server[D].time
    BY <1>1, <1>2 DEF StatsAfterAsking
  <2>4. Past(DatabaseIdentifier(D))
    <3>1. CASE IsConnected(D)
      <4>1. StatsAfterAsking(D) # None
        BY <1>1, <3>1, NoneAssumption DEF StatsAfterAsking, LoadsStats
      <4> QED BY <2>3, <3>1, <4>1 DEF Past, NotLater, DatabaseIdentifier, TimeOf
    <3>2. CASE ~IsConnected(D)
      BY <1>1, <2>1, <3>2 DEF Past, NotLater, DatabaseIdentifier, NotConnected, TimeOf
    <3> QED BY <3>1, <3>2
  <2>5. \A i \in 1..last : BringsList(mainQueue', i) => Past(mainQueue'[i].identifier)
    BY <1>2, <2>1, <2>4 DEF BringsList
  <2> QED BY <1>1, <1>2, <2>1, <2>2, <2>3, <2>5 DEF mainVars, diskVars
<1>8. CASE HandleFetchedDatabase
  <2>1. \A i \in 1..Len(mainQueue') :
          BringsList(mainQueue', i) => Past(mainQueue'[i].identifier)
    <3>1. QueueGoesOn(1, {})
      BY <1>8, ListTaken
    <3> QED BY <1>2, <3>1 DEF QueueGoesOn, BringsList
  <2>2. Past(mainQueue[1].identifier)
    BY <1>2, <1>8, ListTaken
  <2>3. UNCHANGED <<db, server>> /\ Own' = Own
    BY <1>8, ListTaken DEF diskVars
  <2>4. /\ mQueued' # None => Past(mQueued'.identifier)
        /\ mImporterThread' # None => Past(mImporterThread'.identifier)
    <3>1. /\ mQueued' # None => mQueued'.identifier = mainQueue[1].identifier
          /\ mImporterThread' # None => \/ mImporterThread' = mImporterThread
                                        \/ mImporterThread'.identifier = mainQueue[1].identifier
      BY <1>8, ListTaken
    <3> QED BY <1>2, <2>2, <3>1
  <2> QED BY <1>1, <1>2, <2>1, <2>3, <2>4
<1>9. CASE HandleFinishedImport
  <2>1. \A i \in 1..Len(mainQueue') :
          BringsList(mainQueue', i) => Past(mainQueue'[i].identifier)
    <3>1. QueueGoesOn(1, {})
      BY <1>9, ListStarted
    <3> QED BY <1>2, <3>1 DEF QueueGoesOn, BringsList
  <2>2. UNCHANGED <<db, server>> /\ Own' = Own
    BY <1>9, ListStarted DEF diskVars
  <2>3. mQueued' = None /\ (mImporterThread' # None => Past(mImporterThread'.identifier))
    BY <1>2, <1>9, ListStarted
  <2>4. server'[D].time = server[D].time /\ Own'.stats = Own.stats /\ db'[D] = db[D]
    BY <2>2
  <2>5. Own'.stats # None => Own'.stats <= server'[D].time
    BY <1>2, <2>4
  <2> QED BY <1>1, <1>2, <2>1, <2>3, <2>4, <2>5
<1>10. CASE Clear \/ InsertSongs
  <2>1. /\ UNCHANGED <<mainQueue, mQueued, server>> /\ Own' = Own
        /\ mImporterThread # None
        /\ mImporterThread'.identifier = mImporterThread.identifier
        /\ db'[D].identifier \in {db[D].identifier, mImporterThread.identifier}
    BY <1>10, ListWritten
  <2> QED BY <1>1, <1>2, <2>1
<1>11. CASE QuitAndRestart
  <2>1. Own'.stats = None /\ UNCHANGED <<db, server>>
        /\ mainQueue' = <<>> /\ mQueued' = None /\ mImporterThread' = None
    BY <1>11, OwnOtherStep DEF OwnBecomes, QuitAndRestart, diskVars
  <2> QED BY <1>1, <1>2, <2>1
<1>12. ASSUME NEW songs \in SUBSET Songs, EndUpdate(D, songs)
       PROVE  Enough
  <2>1. /\ UNCHANGED <<mainQueue, mImporterThread, mQueued, db>> /\ Own'.stats = Own.stats
        /\ server'[D].time = server[D].time + 1
    BY <1>12, ServerUpdated DEF OwnBecomes
  <2>2. Own'.stats # None => Own'.stats <= server'[D].time
    BY <1>1, <1>2, <2>1 DEF Client
  <2>3. server'[D].time \in Nat /\ server[D].time <= server'[D].time
    BY <1>1, <2>1
  <2> QED BY <1>2, <2>1, <2>2, <2>3
<1> QED BY <1>5, <1>6, <1>7, <1>8, <1>9, <1>10, <1>11, <1>12 DEF ListAction

(* No step writes the tables of another profile, and the time of its       *)
(* server only grows.                                                      *)
LEMMA OthersStep ==
  ASSUME IInv, OnlyDefault, OthersAreRight, CalmStep
  PROVE  OthersAreRight'
<1> SUFFICES ASSUME NEW p \in Profiles \ {DefaultProfile}
             PROVE  NotLater(db'[p].identifier, p, server'[p]) /\ Right(db'[p], p, server'[p])
  BY DEF OthersAreRight
<1>1. /\ NotLater(db[p].identifier, p, server[p]) /\ Right(db[p], p, server[p])
      /\ db \in [Profiles -> [songs : SUBSET Songs, flags : SUBSET Songs,
                              identifier : Identifier \cup {None}]]
      /\ server \in [Profiles -> [songs : SUBSET Songs, time : Nat, updating : BOOLEAN]]
      /\ server[p].time \in Nat
  BY DEF OthersAreRight, IInv, TypeOK
<1>2. db'[p] = db[p]
  <2>1. ASSUME NEW s \in Songs, ToggleIsPartOfCompilation(s) \/ DetectCompilations(s)
        PROVE  db'[p] = db[p]
    BY <1>1, <2>1 DEF ToggleIsPartOfCompilation, DetectCompilations, OnlyDefault
  <2>2. CASE Clear \/ InsertSongs \/ RestoreCompilations
    <3>1. Library = DefaultProfile
      BY <2>2 DEF Clear, InsertSongs, RestoreCompilations, At, OnlyDefault
    <3> QED BY <1>1, <2>2, <3>1 DEF Clear, InsertSongs, RestoreCompilations
  <2>3. CASE ImportStep /\ ~(Clear \/ InsertSongs \/ RestoreCompilations)
    BY <2>3 DEF ImportStep, OpenLibrary, BackUpCompilations, RemoveBackup, PostFinishedImport,
                diskVars
  <2>4. CASE MainStep
    BY <2>4 DEF MainStep, HandleConnected, HandleDisconnected, HandleDatabaseUpdated,
         HandleFetchedDatabase, HandleBeganImport, HandleFinishedImport, diskVars
  <2>5. CASE QuitAndRestart \/ ServerStep
    BY <2>5 DEF QuitAndRestart, ServerStep, StartUpdate, EndUpdate, diskVars
  <2>6. CASE \/ Register(DefaultProfile) \/ Connect(DefaultProfile) \/ ListSongs(DefaultProfile)
             \/ PostFetchedDatabase(DefaultProfile) \/ Poll(DefaultProfile)
             \/ BackUpCompilationsFails
    BY <2>6 DEF Register, Connect, ListSongs, PostFetchedDatabase, Poll,
         BackUpCompilationsFails, diskVars
  <2> QED BY <2>1, <2>2, <2>3, <2>4, <2>5, <2>6 DEF CalmStep
<1>3. CASE server'[p].time = server[p].time /\ server'[p].songs = server[p].songs
  BY <1>1, <1>2, <1>3 DEF NotLater, Right
<1>4. CASE ServerStep
  <2>1. ASSUME NEW q \in Profiles, StartUpdate(q)
        PROVE  server'[p].time = server[p].time /\ server'[p].songs = server[p].songs
    BY <1>1, <2>1 DEF StartUpdate
  <2>2. ASSUME NEW q \in Profiles, NEW songs \in SUBSET Songs, EndUpdate(q, songs)
        PROVE  server'[p] = server[p] \/ server'[p].time = server[p].time + 1
    BY <1>1, <2>2 DEF EndUpdate
  <2>3. CASE server'[p].time = server[p].time + 1
    BY <1>1, <1>2, <2>3 DEF NotLater, Right
  <2> QED BY <1>3, <1>4, <2>1, <2>2, <2>3 DEF ServerStep
<1>5. CASE ~ServerStep
  <2>1. UNCHANGED server
    <3>1. CASE MainStep
      BY <3>1 DEF MainStep, HandleConnected, HandleDisconnected, HandleDatabaseUpdated,
         HandleFetchedDatabase, HandleBeganImport, HandleFinishedImport
    <3>2. CASE ImportStep
      BY <3>2 DEF ImportStep, OpenLibrary, BackUpCompilations, Clear, InsertSongs,
         RestoreCompilations, RemoveBackup, PostFinishedImport
    <3> QED BY <1>5, <3>1, <3>2 DEF CalmStep, Register, Connect, ListSongs,
         PostFetchedDatabase, Poll, BackUpCompilationsFails, QuitAndRestart, ToggleIsPartOfCompilation, DetectCompilations
  <2> QED BY <1>3, <2>1
<1> QED BY <1>4, <1>5

(* What the theorem needs, in every step and in stuttering.                *)
LEMMA LoneInvStep ==
  ASSUME IInv, LoneInv, [Next]_vars, CalmStep \/ UNCHANGED vars
  PROVE  LoneInv'
<1>1. NothingUnsaved'
  <2>1. ASSUME Limits["archiveFailures"] = 0, Spend("archiveFailures")
        PROVE  FALSE
    <3>1. spent["archiveFailures"] \in Nat /\ spent["archiveFailures"] < 0
      BY <2>1 DEF Spend, IInv, TypeOK, Bounded
    <3> QED BY <3>1
  <2> QED BY <2>1, UnsavedIsNew DEF LoneInv, NothingUnsaved, BackUpCompilationsFails
<1>2. CASE CalmStep
  BY <1>1, <1>2, OnlyDefaultStep, TimesStep, OthersStep, EndsOnceStep DEF LoneInv
<1>3. CASE UNCHANGED vars
  BY <1>1, <1>3 DEF vars, mainVars, diskVars, LoneInv, OnlyDefault, TimesArePast,
       OthersAreRight, EndsOnce, Own, Library, BackupFile, NotLater, Right, BringsList, At
<1> QED BY <1>2, <1>3

(* The tables are new, or those of the server, when the program starts.    *)
LEMMA InitLone ==
  ASSUME Init
  PROVE  LoneInv /\ \A p \in Profiles : Right(db[p], p, server[p])
<1>1. /\ mainQueue = <<>> /\ mImporterThread = None /\ mQueued = None /\ Own.stats = None
      /\ currentProfile = DefaultProfile /\ \A p \in Profiles : client[p].link = "none"
  BY ProfilesAssumption DEF Init, NewClient, Own
<1>2. ASSUME NEW p \in Profiles
      PROVE  /\ NotLater(db[p].identifier, p, server[p])
             /\ Right(db[p], p, server[p])
  <2>1. /\ server[p].time = 1
        /\ \/ db[p].identifier = None
           \/ db[p].songs = server[p].songs /\ db[p].identifier = TimeOf(p, 1)
    BY DEF Init
  <2>2. CASE db[p].identifier = None
    <3>1. \A t \in Nat : TimeOf(p, t) \in Identifier
      BY DEF TimeOf, Identifier
    <3> QED BY <2>1, <2>2, <3>1, NoneIsNoIdentifier DEF NotLater, Right
  <2>3. CASE db[p].songs = server[p].songs /\ db[p].identifier = TimeOf(p, 1)
    BY <2>1, <2>3 DEF NotLater, Right, TimeOf
  <2> QED BY <2>1, <2>2, <2>3
<1> QED BY <1>1, <1>2, ProfilesAssumption DEF LoneInv, OnlyDefault, TimesArePast, OthersAreRight,
         EndsOnce, NothingUnsaved, IsUnsaved

(* What tells of an update that the queue did not tell of: the client has  *)
(* asked for the time of the server, or has polled it.                     *)
LEMMA NewsStep ==
  ASSUME IInv, MarksInv, CalmStep, Tells'
  PROVE  Tells \/ Own'.stats # None
<1> DEFINE D == DefaultProfile
<1>1. /\ D \in Profiles /\ Own = client[D] /\ server[D].time \in Nat
      /\ mainQueue \in Seq(Notification) /\ currentProfile = D /\ OnlyDefault
  BY OwnClient DEF Own, IInv, TypeOK, MarksInv, OnlyDefault
<1>2. CalmStep /\ ~QuitAndRestart
  <2>1. QuitAndRestart => ~Tells'
    BY DEF QuitAndRestart, Tells
  <2> QED BY <2>1 DEF CalmStep
<1>3. CASE HandleConnected
  <2>1. Own'.stats = StatsAfterAsking(D)
    <3>1. PICK more \in {0, 1} :
            OwnBecomes(Own.link, StatsAfterAsking(D), Own.requests + more, Own.listed)
      BY <1>1, <1>3, OwnOtherStep
    <3> QED BY <3>1 DEF OwnBecomes
  <2>2. CASE StatsAfterAsking(D) = None
    <3>1. mainQueue' = Tail(mainQueue) /\ mainQueue # <<>>
      BY <1>3 DEF HandleConnected, Arrives
    <3>2. /\ Len(mainQueue') = Len(mainQueue) - 1
          /\ \A j \in 1..Len(mainQueue') : mainQueue'[j] = mainQueue[j + 1]
          /\ Len(mainQueue) \in Nat
      BY <1>1, <3>1, HeadTailProperties
    <3> QED BY <3>2 DEF Tells
  <2> QED BY <2>1, <2>2
<1>4. CASE PostFetchedDatabase(D)
  <2>1. Own'.stats = StatsAfterAsking(D)
    BY <1>1, <1>4, OwnClientStep DEF OwnBecomes
  <2>2. Own.link = "up"
    BY <1>1, <1>4 DEF PostFetchedDatabase, MarksInv, QuietUntilConnected
  <2>3. StatsAfterAsking(D) # None
    BY <1>1, <2>2, NoneAssumption DEF StatsAfterAsking, LoadsStats, IsConnected
  <2> QED BY <2>1, <2>3
<1>5. CASE Poll(D)
  <2>1. CASE mainQueue' = mainQueue
    BY <2>1 DEF Tells
  <2>2. CASE mainQueue' # mainQueue
    <3>1. Own'.stats = server[D].time
      BY <1>1, <1>5, <2>2, OwnClient DEF Poll, Own
    <3> QED BY <1>1, <3>1, NoneAssumption
  <2> QED BY <2>1, <2>2
<1>6. CASE ~HandleConnected /\ ~PostFetchedDatabase(D) /\ ~Poll(D)
  <2>1. \E k \in {0, 1} : \E new : QueueGoesOn(k, new) /\ "DatabaseUpdated" \notin new
    <3>1. ASSUME MainStep
          PROVE  QueueGoesOn(1, {})
      <4>1. mainQueue # <<>> /\ mainQueue' = Tail(mainQueue)
        BY <1>6, <3>1 DEF MainStep, HandleDisconnected, HandleDatabaseUpdated,
             HandleFetchedDatabase, HandleBeganImport, HandleFinishedImport, Arrives
      <4>2. Tail(mainQueue) \o <<>> = Tail(mainQueue)
        BY <1>1, <4>1
      <4>3. <<>> \in Seq(Notification) /\ \A j \in 1..Len(<<>>) : FALSE
        OBVIOUS
      <4> QED BY <4>1, <4>2, <4>3, QueueTakes
    <3>2. ASSUME ~MainStep
          PROVE  \/ mainQueue' = mainQueue \/ Post(Named("Connected"))
                 \/ Post(Named("BeganImport")) \/ Post(Named("FinishedImport"))
      <4>1. CASE ImportStep
        BY <4>1 DEF ImportStep, OpenLibrary, BackUpCompilations, Clear, InsertSongs,
                  RestoreCompilations, RemoveBackup, PostFinishedImport
      <4> QED BY <1>2, <1>6, <3>2, <4>1 DEF CalmStep, Register, Connect, ListSongs, ServerStep,
                  StartUpdate, EndUpdate, ToggleIsPartOfCompilation, DetectCompilations,
                  BackUpCompilationsFails
    <3>3. ASSUME NEW name \in {"Connected", "BeganImport", "FinishedImport"}, Post(Named(name))
          PROVE  QueueGoesOn(0, {name})
      <4>1. Named(name) \in Notification /\ Named(name).name = name
        BY NamedType DEF Named
      <4>2. <<Named(name)>> \in Seq(Notification)
            /\ \A j \in 1..Len(<<Named(name)>>) : <<Named(name)>>[j].name \in {name}
        BY <4>1
      <4>3. mainQueue' = mainQueue \o <<Named(name)>>
        BY <1>1, <3>3, <4>1 DEF Post
      <4> QED BY <4>2, <4>3, QueueTakes
    <3>4. mainQueue' = mainQueue => QueueGoesOn(0, {})
      BY <1>1 DEF QueueGoesOn
    <3> QED BY <3>1, <3>2, <3>3, <3>4
  <2> QED BY <2>1 DEF QueueGoesOn, Tells
<1> QED BY <1>3, <1>4, <1>5, <1>6

(* While the client stays connected, the time of the server is known before *)
(* a list is asked for.                                                    *)
LEMMA StatsAreKnown ==
  ASSUME IInv, MarksInv, AllRight, CalmStep
  PROVE  RefetchComing' \/ Own'.listed # None => Own'.stats # None
<1> DEFINE D == DefaultProfile
           Needed == RefetchComing \/ Own.listed # None
<1>1. /\ D \in Profiles /\ Own = client[D] /\ Own \in Client /\ currentProfile = D
      /\ server[D].time \in Nat /\ OnlyDefault /\ QuietUntilConnected
      /\ Needed => Own.stats # None
  BY OwnClient DEF Own, IInv, TypeOK, MarksInv, OnlyDefault, AllRight
<1> HIDE DEF D
<1>2. CASE QuitAndRestart
  <2>1. Own'.requests = 0 /\ Own'.listed = None /\ mainQueue' = <<>>
    BY <1>1, <1>2, OwnOtherStep DEF OwnBecomes, QuitAndRestart
  <2> QED BY <2>1 DEF RefetchComing, Tells
<1>3. ASSUME ~QuitAndRestart, Own.stats # None
      PROVE  Own'.stats # None
  <2>1. Own'.stats \in {Own.stats, StatsAfterAsking(D), server[D].time}
    <3>1. CASE Register(D) \/ Connect(D) \/ ListSongs(D) \/ PostFetchedDatabase(D) \/ Poll(D)
      BY <1>1, <3>1, OwnClientStep DEF OwnBecomes, D
    <3>2. CASE HandleConnected
      BY <1>1, <3>2, OwnOtherStep DEF OwnBecomes, D
    <3>3. CASE ~HandleConnected /\ (MainStep \/ ImportStep \/ BackUpCompilationsFails)
      BY <1>1, <3>3, OwnOtherStep DEF OwnBecomes, MainStep
    <3>4. CASE ServerStep \/ \E s \in Songs : ToggleIsPartOfCompilation(s) \/ DetectCompilations(s)
      BY <1>1, <3>4, OwnOtherStep DEF OwnBecomes
    <3> QED BY <1>3, <3>1, <3>2, <3>3, <3>4 DEF CalmStep, D
  <2>2. StatsAfterAsking(D) # None
    BY <1>1, <1>3, NoneAssumption DEF StatsAfterAsking
  <2> QED BY <1>1, <1>3, <2>1, <2>2, NoneAssumption
<1>4. CASE HandleConnected
  <2>1. Own'.stats = StatsAfterAsking(D)
    <3>1. PICK more \in {0, 1} :
            OwnBecomes(Own.link, StatsAfterAsking(D), Own.requests + more, Own.listed)
      BY <1>1, <1>4, OwnOtherStep DEF D
    <3> QED BY <3>1 DEF OwnBecomes
  <2>2. Own.link = "up"
    BY <1>1, <1>4 DEF HandleConnected, Arrives, QuietUntilConnected
  <2>3. StatsAfterAsking(D) # None
    BY <1>1, <2>2, NoneAssumption DEF StatsAfterAsking, LoadsStats, IsConnected
  <2> QED BY <2>1, <2>3
<1>5. CASE HandleDatabaseUpdated
  <2>1. Tells
    <3>1. Head(mainQueue) = mainQueue[1] /\ 1 \in 1..Len(mainQueue)
      BY <1>5 DEF HandleDatabaseUpdated, Arrives, IInv, TypeOK
    <3> QED BY <1>5, <3>1 DEF HandleDatabaseUpdated, Arrives, Tells
  <2> QED BY <1>1, <1>2, <1>3, <2>1 DEF RefetchComing
<1>6. CASE ~QuitAndRestart /\ ~HandleConnected /\ ~HandleDatabaseUpdated
  <2> SUFFICES ASSUME RefetchComing' \/ Own'.listed # None, Own'.stats = None
               PROVE  FALSE
    OBVIOUS
  <2>1. ~Needed
    BY <1>1, <1>3, <1>6
  <2>2. ~Tells'
    BY <1>1, <2>1, NewsStep DEF RefetchComing
  <2>3. ~ListSongs(D)
    BY <1>1, <2>1 DEF ListSongs, RefetchComing
  <2>4. Own'.requests = Own.requests /\ Own'.listed \in {Own.listed, None}
    <3>1. CASE Register(D) \/ Connect(D) \/ PostFetchedDatabase(D) \/ Poll(D)
      BY <1>1, <3>1, OwnClientStep DEF OwnBecomes, D
    <3>2. CASE MainStep \/ ImportStep \/ BackUpCompilationsFails
      BY <1>1, <1>6, <3>2, OwnOtherStep DEF OwnBecomes, MainStep
    <3>3. CASE ServerStep \/ \E s \in Songs : ToggleIsPartOfCompilation(s) \/ DetectCompilations(s)
      BY <1>1, <3>3, OwnOtherStep DEF OwnBecomes
    <3> QED BY <1>6, <2>3, <3>1, <3>2, <3>3 DEF CalmStep, D
  <2> QED BY <2>1, <2>2, <2>4 DEF RefetchComing
<1> QED BY <1>2, <1>4, <1>5, <1>6

(* The tables become so by the insertion only.                             *)
LEMMA WrittenStep ==
  ASSUME NoUnsavedQuit, IInv, OnlyDefault, EndsOnce, NothingUnsaved, CalmStep
  PROVE  /\ Written' => Written \/ InsertSongs
         /\ Clear => ~Written'
<1> DEFINE D == DefaultProfile
<1>1. D \in Profiles /\ backup \in [Profiles -> (SUBSET Songs) \cup {None}]
      /\ currentProfile = D
  BY OwnClient DEF IInv, TypeOK, OnlyDefault
<1>2. CASE UNCHANGED <<backup, mImporterThread>>
  BY <1>2 DEF Written, At, Clear, GoTo, IInv, TypeOK, Import
<1>3. CASE Clear
  BY <1>3, ListWritten DEF Written, At
<1>4. CASE BackUpCompilations
  <2>1. mImporterThread'.at = "clear" /\ ~Clear
    <3>1. mImporterThread \in Import /\ mImporterThread.at = "back up"
      BY <1>4, ImportFields DEF BackUpCompilations, At
    <3> QED BY <1>4, <3>1 DEF BackUpCompilations, Import, Clear, At
  <2>2. backup'[D] # None
    <3>1. db[Library].flags # None
      BY <1>1, <1>4, TableFields, NoneAssumption DEF BackUpCompilations, At, OnlyDefault
    <3> QED BY <1>1, <1>4, <3>1 DEF BackUpCompilations
  <2> QED BY <2>1, <2>2 DEF Written, At
<1>5. CASE \/ OpenLibrary \/ BackUpCompilationsFails \/ PostFinishedImport
           \/ RestoreCompilations \/ RemoveBackup
  <2>1. mImporterThread \in Import
    BY <1>5, ImportFields DEF OpenLibrary, BackUpCompilationsFails, PostFinishedImport,
                              RestoreCompilations, RemoveBackup, At
  <2> QED BY <1>5, <2>1 DEF OpenLibrary, BackUpCompilationsFails, PostFinishedImport,
            RestoreCompilations, RemoveBackup, At, GoTo, Import, Written, Clear, diskVars
<1>6. CASE MainStep
  <2>1. UNCHANGED backup
    BY <1>6 DEF MainStep, HandleConnected, HandleDisconnected, HandleDatabaseUpdated,
       HandleFetchedDatabase, HandleBeganImport, HandleFinishedImport, diskVars
  <2>2. CASE HandleFetchedDatabase
    <3>1. UNCHANGED mImporterThread \/ (mImporterThread = None /\ mImporterThread'.at = "begin")
      BY <2>2, ListTaken
    <3>2. CASE mImporterThread = None /\ mImporterThread'.at = "begin"
      BY <2>1, <3>2 DEF Written, At, Clear
    <3> QED BY <1>2, <2>1, <3>1, <3>2
  <2>3. CASE HandleFinishedImport
    <3>1. At("finished")
      BY <2>3, ListStarted DEF EndsOnce
    <3>2. mImporterThread' = None \/ mImporterThread'.at = "begin"
      BY <2>3, ListStarted
    <3> QED BY <2>1, <3>1, <3>2 DEF Written, At, Clear
  <2>4. CASE ~HandleFetchedDatabase /\ ~HandleFinishedImport
    <3>1. UNCHANGED mImporterThread
      BY <1>6, <2>4 DEF MainStep, HandleConnected, HandleDisconnected, HandleDatabaseUpdated,
         HandleBeganImport, mainVars
    <3> QED BY <1>2, <2>1, <3>1
  <2> QED BY <2>2, <2>3, <2>4
<1>7. CASE QuitAndRestart
  <2>1. UNCHANGED backup /\ mImporterThread' = None
    BY <1>7 DEF QuitAndRestart, diskVars
  <2>2. ~Clear
    BY <2>1, ListWritten
  <2>3. backup[D] = None => ~At("insert")
    <3>1. Limits["archiveFailures"] = 0
      BY <1>7 DEF QuitAndRestart, Spend, NoUnsavedQuit, IInv, TypeOK, Bounded
    <3>2. At("insert") => BackupFile = D
      BY <3>1 DEF NothingUnsaved, IsUnsaved, At, OnlyDefault
    <3> QED BY <1>1, <3>2, NoneAssumption DEF IInv, BackupStaysForRestore, At
  <2> QED BY <2>1, <2>2, <2>3 DEF Written, At
<1>8. CASE ~MainStep /\ ~ImportStep /\ ~BackUpCompilationsFails /\ ~QuitAndRestart
  <2>1. UNCHANGED <<backup, mImporterThread>>
    BY <1>8 DEF CalmStep, Register, Connect, ListSongs, PostFetchedDatabase, Poll,
       ServerStep, StartUpdate, EndUpdate, ToggleIsPartOfCompilation, DetectCompilations,
       mainVars, diskVars
  <2> QED BY <1>2, <2>1
<1>9. CASE InsertSongs
  <2>1. ~Clear
    BY <1>9 DEF InsertSongs, Clear, At
  <2> QED BY <1>9, <2>1
<1> QED BY <1>3, <1>4, <1>5, <1>6, <1>7, <1>8, <1>9 DEF ImportStep

(* Every list that is made is right, and stays so until its time is over.  *)
LEMMA AllRightStep ==
  ASSUME NoFaults, NoUnsavedQuit, IInv, MarksInv, LoneInv, AllRight, CalmStep
  PROVE  AllRight'
<1> DEFINE D == DefaultProfile
           IsRight(list) == Right(list, D, server[D])
           Enough ==
             /\ server'[D].time = server[D].time /\ server'[D].songs = server[D].songs
             /\ Own'.listed # None /\ Own'.stats = server[D].time =>
                  Own'.listed = server[D].songs
             /\ \A i \in 1..Len(mainQueue') :
                  BringsList(mainQueue', i) => IsRight(mainQueue'[i])
             /\ mQueued' # None => IsRight(mQueued')
             /\ mImporterThread' # None => IsRight(mImporterThread')
             /\ Written' => IsRight(db'[D])
<1>1. /\ D \in Profiles /\ server[D].time \in Nat /\ D # None /\ currentProfile = D
      /\ Own = client[D] /\ Own' = client'[D] /\ OnlyDefault /\ CalmStep /\ QuietUntilConnected
      /\ Own \in Client
  BY OwnClient, NoneAssumption DEF IInv, TypeOK, Own, MarksInv, OnlyDefault
<1>2. /\ Own.listed # None /\ Own.stats = server[D].time => Own.listed = server[D].songs
      /\ \A i \in 1..Len(mainQueue) : BringsList(mainQueue, i) => IsRight(mainQueue[i])
      /\ mQueued # None => IsRight(mQueued)
      /\ mImporterThread # None => IsRight(mImporterThread)
      /\ Written => IsRight(db[D])
      /\ Own.listed # None => Own.stats # None
  BY DEF AllRight, Written
<1>3. /\ Written' => Written \/ InsertSongs
      /\ Clear => ~Written'
  BY <1>1, WrittenStep DEF LoneInv
<1>4. Enough => AllRight'
  BY StatsAreKnown DEF AllRight, Written, Right
<1>5. ASSUME NEW x, NEW y, IsRight(x), y.songs = x.songs, y.identifier = x.identifier
      PROVE  IsRight(y)
  BY <1>5 DEF Right
<1>6. ASSUME NEW songs \in SUBSET Songs, EndUpdate(D, songs)
      PROVE  AllRight'
  <2>1. /\ UNCHANGED <<mainQueue, mImporterThread, mQueued, db, backup>>
        /\ Own'.stats = Own.stats /\ Own'.listed = Own.listed
        /\ server'[D].time = server[D].time + 1
    BY <1>1, <1>6, ServerUpdated DEF OwnBecomes
  <2>2. ASSUME NEW list, NotLater(list.identifier, D, server[D])
        PROVE  Right(list, D, server'[D])
    BY <1>1, <2>1, <2>2 DEF NotLater, Right
  <2>3. Own.stats # server'[D].time
    <3>1. Own.stats # None => Own.stats <= server[D].time /\ Own.stats \in Nat
      BY <1>1 DEF LoneInv, TimesArePast, Client
    <3>2. server'[D].time \in Nat
      BY <1>1, <2>1
    <3> QED BY <1>1, <2>1, <3>1, <3>2, NoneAssumption
  <2>4. /\ \A i \in 1..Len(mainQueue) :
             BringsList(mainQueue, i) => Right(mainQueue[i], D, server'[D])
        /\ mQueued # None => Right(mQueued, D, server'[D])
        /\ mImporterThread # None => Right(mImporterThread, D, server'[D])
        /\ Right(db[D], D, server'[D])
    BY <2>2 DEF LoneInv, TimesArePast
  <2> QED BY <2>1, <2>3, <2>4, StatsAreKnown DEF AllRight
<1> HIDE DEF IsRight
<1>7. CASE ~ListAction
  <2>1. KeepsLists
    BY <1>1, <1>7, OtherStep
  <2>2. PICK k, new : k \in {0, 1} /\ QueueGoesOn(k, new) /\ "FetchedDatabase" \notin new
    BY <1>1, <1>7, OtherStep
  <2> k \in {0, 1}
    BY <2>2
  <2>3. \A i \in 1..Len(mainQueue') : BringsList(mainQueue', i) => IsRight(mainQueue'[i])
    BY <1>2, <2>2 DEF QueueGoesOn, BringsList
  <2>4. Written' => Written
    BY <1>3, <1>7 DEF ListAction
  <2>5. /\ mImporterThread' # None => IsRight(mImporterThread')
        /\ Written' => IsRight(db'[D])
    BY <1>2, <1>5, <2>1, <2>4 DEF KeepsLists
  <2> QED BY <1>2, <1>4, <2>1, <2>3, <2>5 DEF KeepsLists
<1>8. CASE ListSongs(D)
  <2>1. UNCHANGED <<mainVars, mainQueue, diskVars, server>>
    BY <1>8 DEF ListSongs
  <2>2. Own.link = "up"
    BY <1>1, <1>8 DEF ListSongs, QuietUntilConnected
  <2>3. Own'.listed = server[D].songs
    BY <1>1, <1>8, <2>2, OwnClientStep DEF OwnBecomes, IsConnected
  <2> QED BY <1>2, <1>4, <2>1, <2>3 DEF mainVars, diskVars, Written, At
<1>9. CASE PostFetchedDatabase(D)
  <2> DEFINE n == [name |-> "FetchedDatabase", songs |-> Own.listed,
                   identifier |-> DatabaseIdentifier(D)]
             last == Len(mainQueue')
  <2>1. /\ mainQueue'[last] = n
        /\ \A j \in 1..Len(mainQueue) : mainQueue'[j] = mainQueue[j]
        /\ \A j \in 1..last : BringsList(mainQueue', j) => j = last \/ j \in 1..Len(mainQueue)
        /\ Own.listed # None
        /\ UNCHANGED <<mainVars, diskVars, server>>
    BY <1>1, <1>9, ListPosted
  <2>2. Own'.listed = None
    BY <1>1, <1>9, OwnClientStep DEF OwnBecomes
  <2>3. IsRight(n)
    <3>1. Own.link = "up" /\ Own.stats # None
      BY <1>1, <1>2, <2>1 DEF QuietUntilConnected
    <3>2. DatabaseIdentifier(D) = TimeOf(D, Own.stats)
      BY <1>1, <3>1 DEF DatabaseIdentifier, IsConnected, StatsAfterAsking, LoadsStats
    <3> QED BY <1>2, <2>1, <3>2 DEF IsRight, Right, TimeOf
  <2>4. \A i \in 1..last : BringsList(mainQueue', i) => IsRight(mainQueue'[i])
    <3> HIDE DEF n
    <3> QED BY <1>2, <2>1, <2>3 DEF BringsList
  <2> QED BY <1>2, <1>4, <2>1, <2>2, <2>4 DEF mainVars, diskVars, Written, At
<1>10. CASE HandleFetchedDatabase
  <2>1. \A i \in 1..Len(mainQueue') : BringsList(mainQueue', i) => IsRight(mainQueue'[i])
    BY <1>1, <1>2, <1>10, ListTaken DEF QueueGoesOn, BringsList
  <2>2. IsRight(mainQueue[1])
    BY <1>1, <1>2, <1>10, ListTaken
  <2>3. UNCHANGED <<db, server>> /\ Own' = Own /\ ~InsertSongs
    <3>1. ~InsertSongs
      BY <1>1, <1>10, ListTaken, ListWritten, OwnClient DEF QueueGoesOn
    <3> QED BY <1>1, <1>10, <3>1, ListTaken DEF diskVars
  <2>4. /\ mQueued' # None => IsRight(mQueued')
        /\ mImporterThread' # None => IsRight(mImporterThread')
    BY <1>1, <1>2, <1>5, <1>10, <2>2, ListTaken
  <2> QED BY <1>2, <1>3, <1>4, <2>1, <2>3, <2>4
<1>11. CASE HandleFinishedImport
  <2>1. \A i \in 1..Len(mainQueue') : BringsList(mainQueue', i) => IsRight(mainQueue'[i])
    BY <1>1, <1>2, <1>11, ListStarted DEF QueueGoesOn, BringsList
  <2>2. UNCHANGED <<db, server>> /\ Own' = Own /\ mQueued' = None
    BY <1>1, <1>11, ListStarted DEF diskVars
  <2>3. mImporterThread' # None => IsRight(mImporterThread')
    BY <1>1, <1>2, <1>5, <1>11, ListStarted
  <2>4. Written' => Written
    <3>1. ~InsertSongs
      BY <1>11, <2>2, ListWritten, ListStarted, <1>1, OwnClient DEF QueueGoesOn
    <3> QED BY <1>3, <3>1
  <2> QED BY <1>2, <1>4, <2>1, <2>2, <2>3, <2>4
<1>12. CASE Clear \/ InsertSongs
  <2>1. /\ UNCHANGED <<mainQueue, mQueued, server>> /\ Own' = Own
        /\ mImporterThread # None
        /\ mImporterThread'.songs = mImporterThread.songs
        /\ mImporterThread'.identifier = mImporterThread.identifier
        /\ InsertSongs => db'[D].songs = mImporterThread.songs
                          /\ db'[D].identifier = mImporterThread.identifier
    BY <1>1, <1>12, ListWritten
  <2>2. IsRight(mImporterThread') /\ (Written' => IsRight(db'[D]))
    BY <1>2, <1>3, <1>5, <1>12, <2>1
  <2> QED BY <1>2, <1>4, <2>1, <2>2
<1>13. CASE QuitAndRestart
  <2>1. Own'.listed = None /\ UNCHANGED <<db, server>> /\ mainQueue' = <<>>
        /\ mQueued' = None /\ mImporterThread' = None
    BY <1>1, <1>13, OwnOtherStep DEF OwnBecomes, QuitAndRestart, diskVars
  <2>2. Written' => Written
    BY <1>1, <1>3, <2>1, ListWritten
  <2> QED BY <1>2, <1>4, <2>1, <2>2
<1> QED BY <1>6, <1>7, <1>8, <1>9, <1>10, <1>11, <1>12, <1>13 DEF ListAction

(* The program starts with tables that are right.                          *)
LEMMA InitAllRight == Init => AllRight
<1> SUFFICES ASSUME Init PROVE AllRight
  OBVIOUS
<1>1. /\ mainQueue = <<>> /\ mImporterThread = None /\ mQueued = None
      /\ Own.requests = 0 /\ Own.listed = None
  BY ProfilesAssumption DEF Init, NewClient, Own
<1>2. Right(db[DefaultProfile], DefaultProfile, server[DefaultProfile])
  BY InitLone, ProfilesAssumption
<1> QED BY <1>1, <1>2 DEF AllRight, RefetchComing, Tells

(* An identifier that is the server's is truthful whenever nothing is on its *)
(* way and no import was interrupted, although the program may be quit, and *)
(* started again, between any two steps of startThread:, with any updates   *)
(* of the server and any edits in between: as long as no list and no        *)
(* insertion fails, no other profile is selected, and no import is quit     *)
(* that could not back up the marks and so leaves no trace.                 *)
THEOREM IdentifierIsTruthfulThroughCrashes ==
  ASSUME NoFaults, NoUnsavedQuit
  PROVE  Spec => []IdentifierIsTruthful
<1>1. ASSUME IInv, MarksInv, LoneInv, AllRight, [Next]_vars
      PROVE  MarksInv' /\ LoneInv' /\ AllRight'
  <2>1. CASE Next
    <3>1. CalmStep
      BY <1>1, <2>1, StepIsCalm
    <3>2. MarksInv'
      BY <1>1, <3>1, OnlyDefaultStep, QuietStep, ListsStep, MarksStep DEF MarksInv
    <3>3. LoneInv'
      BY <1>1, <3>1, LoneInvStep
    <3>4. AllRight'
      BY <1>1, <3>1, AllRightStep
    <3> QED BY <3>2, <3>3, <3>4
  <2>2. CASE UNCHANGED vars
    <3>1. MarksInv'
      BY <1>1, <2>2, MarksStutter
    <3>2. AllRight'
      BY <1>1, <2>2 DEF vars, mainVars, diskVars, AllRight, Own, RefetchComing, Tells, BringsList,
           At, Written, Right
    <3> QED BY <1>1, <2>2, <3>1, <3>2, LoneInvStep
  <2> QED BY <1>1, <2>1, <2>2
<1>2. IInv /\ MarksInv /\ LoneInv /\ AllRight => IdentifierIsTruthful
  <2> SUFFICES ASSUME IInv, MarksInv, LoneInv, AllRight, NEW p \in Profiles,
                      NothingPending(p), Settled(p),
                      db[p].identifier = TimeOf(p, server[p].time)
               PROVE  db[p].songs = server[p].songs
    BY DEF IdentifierIsTruthful
  <2>1. CASE p = DefaultProfile
    BY <2>1 DEF AllRight, Written, Settled, NothingPending, At, Right
  <2>2. CASE p # DefaultProfile
    BY <2>2 DEF LoneInv, OthersAreRight, Right
  <2> QED BY <2>1, <2>2
<1>3. Init => MarksInv /\ LoneInv /\ AllRight
  BY InitMarks, InitLone, InitAllRight
<1> QED BY <1>1, <1>2, <1>3, Invariance, PTL DEF Spec

=============================================================================
