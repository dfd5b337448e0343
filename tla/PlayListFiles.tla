---------------------------- MODULE PlayListFiles ----------------------------
(***************************************************************************)
(* The drawer with the playlists stored on the server: its list, loading,  *)
(* saving and deleting one, and dragging one into the playlist.            *)
(*                                                                         *)
(* The data of a drag is asked for with the drop: the main thread then     *)
(* waits up to three seconds for the songs, in a nested run loop that      *)
(* handles notifications and no events of the user.                        *)
(*                                                                         *)
(* Only the client's own saves and deletions announce that the list has    *)
(* changed, not those of other clients.  The progress indicator is left    *)
(* out.  A table selects rows, not playlists: a new list leaves the row    *)
(* selected, if there is such a row.                                       *)
(*                                                                         *)
(* When the program starts, and after a change of the profile until the    *)
(* new client has registered, there is no client: what it is asked then is *)
(* a message to nil, and no answer comes.                                  *)
(***************************************************************************)
EXTENDS Integers, Sequences, FiniteSets

CONSTANTS
  Names,        \* numbers, in the order in which the server lists them
  MaxVersion,   \* how often a stored playlist is written
  MaxFileRequests,  \* how many messages wait for the client thread at a time
  MaxPosted,   \* how many notifications wait for the main thread at a time
  NoName

\* What is remembered of a drop
Drop == [since : 0..MaxVersion, late : BOOLEAN, missing : BOOLEAN]

ASSUME FilesAssumption ==
  /\ Names \subseteq Nat /\ IsFiniteSet(Names)
  /\ NoName \notin Names
  /\ \A list \in SUBSET Names : list # NoName
  /\ \A d \in Drop : d # NoName
  /\ MaxVersion \in Nat /\ MaxFileRequests \in Nat /\ MaxPosted \in Nat

VARIABLES
  mPlaylists,       \* NoName, or the set of the names listed
  tableEnabled, selectedRow, drawerOpen, refreshEnabled,
  noConfirmation,   \* noConfirmationNeededForDeletionOfPlaylist
  sheet,            \* NoName, or the name in the question of the sheet
  mPathOfNamedPlaylistBeingFetched, mFetchedNamedPlaylist,
  clientRequests, posted,
  clientExists,     \* not nil: it has registered
  mpdConnected,
  stored, version,  \* the server's playlists, and how often each was written
  drop,             \* history: the version and the fetches at the drop that
                    \* is waiting, and whether the playlist was ever missing
  unsure,           \* history: what was listed last may not be the server's
  unasked           \* history: the last refresh found no client to ask

listVars == <<mPlaylists, tableEnabled, selectedRow, drawerOpen, refreshEnabled, unasked>>
sheetVars == <<noConfirmation, sheet>>
dragVars == <<mPathOfNamedPlaylistBeingFetched, mFetchedNamedPlaylist>>
clientVars == <<clientExists, mpdConnected>>
serverVars == <<stored, version>>
filesVars == <<listVars, sheetVars, dragVars, clientRequests, posted, clientVars,
               serverVars, drop, unsure>>

NoRow == 0

Elements(s) == {s[i] : i \in DOMAIN s}

\* The songs of a stored playlist; none if there is no such playlist
Songs(n) == IF mpdConnected /\ n \in stored THEN <<n, version[n]>> ELSE <<>>
Contents == {<<>>} \cup (Names \X (0..MaxVersion))

FilesRequest == [op : {"list"}] \cup [op : {"load", "save", "fetch"}, name : Names]
                \cup [op : {"delete"}, name : Names \cup {NoName}]
Posted == [name : {"FoundPlaylists"}, entries : SUBSET Names]
          \cup [name : {"FetchedNamedPlaylist"}, path : Names, songs : Contents]
          \cup [name : {"NumberOfPlaylistsChanged", "Connected", "Disconnected"}]

Listed == IF mPlaylists = NoName THEN {} ELSE mPlaylists

FilesTypeOK ==
  /\ mPlaylists = NoName \/ mPlaylists \subseteq Names
  /\ selectedRow \in 0..Cardinality(Listed)
  /\ tableEnabled \in BOOLEAN /\ drawerOpen \in BOOLEAN /\ refreshEnabled \in BOOLEAN
  /\ noConfirmation \in BOOLEAN
  /\ sheet \in Names \cup {NoName}
  /\ mPathOfNamedPlaylistBeingFetched \in Names \cup {NoName}
  /\ mFetchedNamedPlaylist \in Contents \cup {NoName}
  /\ clientRequests \in Seq(FilesRequest)
  /\ posted \in Seq(Posted)
  /\ clientExists \in BOOLEAN /\ mpdConnected \in BOOLEAN
  /\ stored \subseteq Names /\ version \in [Names -> 0..MaxVersion]
  /\ drop \in Drop \cup {NoName} /\ unsure \in BOOLEAN /\ unasked \in BOOLEAN

\* The drawer may have been left open: then it has been opened and refreshed
\* before there is a client.
FilesInit ==
  /\ mPlaylists = NoName /\ selectedRow = NoRow /\ refreshEnabled \in BOOLEAN
  /\ drawerOpen \in BOOLEAN /\ tableEnabled = ~drawerOpen /\ unasked = drawerOpen
  /\ noConfirmation = FALSE /\ sheet = NoName
  /\ mPathOfNamedPlaylistBeingFetched = NoName /\ mFetchedNamedPlaylist = NoName
  /\ clientRequests = <<>> /\ posted = <<>>
  /\ clientExists = FALSE /\ mpdConnected = FALSE
  /\ stored = Names /\ version = [n \in Names |-> 0]
  /\ drop = NoName /\ unsure = TRUE

-----------------------------------------------------------------------------
(* The main thread.                                                        *)

\* No event of the user is handled by the loop of a drop; a sheet keeps those
\* of its window.
UserActs == mPathOfNamedPlaylistBeingFetched = NoName /\ sheet = NoName

\* From 1, in the order of the names
RowOf(n) == Cardinality({k \in mPlaylists : k <= n})

\* A message to nil does nothing.
Ask(request) ==
  IF clientExists
  THEN /\ Len(clientRequests) < MaxFileRequests
       /\ clientRequests' = Append(clientRequests, request)
  ELSE UNCHANGED clientRequests

Refresh ==
  /\ tableEnabled' = FALSE
  /\ unasked' = ~clientExists
  /\ Ask([op |-> "list"])

RefreshClicked ==
  /\ UserActs /\ drawerOpen /\ refreshEnabled
  /\ Refresh
  /\ UNCHANGED <<mPlaylists, selectedRow, drawerOpen, refreshEnabled, sheetVars, dragVars,
                 posted, clientVars, serverVars, unsure>>

\* The list is fetched again if it is five minutes old: at any time here.
ToggleDrawer ==
  /\ UserActs
  /\ drawerOpen' = ~drawerOpen
  /\ \/ drawerOpen' /\ Refresh
     \/ (drawerOpen' => mPlaylists # NoName) /\ UNCHANGED <<tableEnabled, unasked, clientRequests>>
  /\ UNCHANGED <<mPlaylists, selectedRow, refreshEnabled, sheetVars, dragVars, posted,
                 clientVars, serverVars, unsure>>

SelectRow(n) ==
  /\ UserActs /\ drawerOpen /\ tableEnabled
  /\ selectedRow' = RowOf(n)
  /\ UNCHANGED <<mPlaylists, tableEnabled, drawerOpen, refreshEnabled, unasked, sheetVars,
                 dragVars, clientRequests, posted, clientVars, serverVars, unsure>>

LoadSelectedPlaylist ==
  /\ UserActs /\ drawerOpen /\ tableEnabled
  /\ \E n \in Listed : RowOf(n) = selectedRow /\ Ask([op |-> "load", name |-> n])
  /\ UNCHANGED <<listVars, sheetVars, dragVars, posted, clientVars, serverVars, unsure>>

SavePlayListAction(n) ==
  /\ UserActs
  /\ Ask([op |-> "save", name |-> n])
  /\ UNCHANGED <<listVars, sheetVars, dragVars, posted, clientVars, serverVars, unsure>>

\* Of the row that is selected now; without a row, objectAtIndex: raises an
\* exception, unless there is no list to ask.
DeleteSelectedPlaylist ==
  IF selectedRow # NoRow
  THEN \E n \in Listed : RowOf(n) = selectedRow /\ Ask([op |-> "delete", name |-> n])
  ELSE IF mPlaylists = NoName THEN Ask([op |-> "delete", name |-> NoName])
  ELSE UNCHANGED clientRequests

\* The button stays enabled while the table is not.
DeleteClicked ==
  /\ UserActs /\ drawerOpen /\ selectedRow # NoRow
  /\ IF noConfirmation THEN DeleteSelectedPlaylist /\ UNCHANGED sheet
     ELSE \E n \in Listed : RowOf(n) = selectedRow /\ sheet' = n /\ UNCHANGED clientRequests
  /\ UNCHANGED <<listVars, noConfirmation, dragVars, posted, clientVars, serverVars, unsure>>

DeleteConfirmationButtonClicked(confirmed, doNotAskAgain) ==
  /\ sheet # NoName /\ mPathOfNamedPlaylistBeingFetched = NoName
  /\ sheet' = NoName
  /\ IF confirmed
     THEN /\ noConfirmation' = (noConfirmation \/ doNotAskAgain)
          /\ DeleteSelectedPlaylist
     ELSE UNCHANGED <<noConfirmation, clientRequests>>
  /\ UNCHANGED <<listVars, dragVars, posted, clientVars, serverVars, unsure>>

\* A drop: writeRowsWithIndexes: put the path on the pasteboard, and
\* pasteboard:provideDataForType: begins to wait.
ProvideData(n) ==
  /\ UserActs /\ drawerOpen /\ tableEnabled
  /\ mPathOfNamedPlaylistBeingFetched' = n
  /\ mFetchedNamedPlaylist' = NoName
  /\ Ask([op |-> "fetch", name |-> n])
  /\ UNCHANGED <<listVars, sheetVars, posted, clientVars, serverVars, unsure>>

\* With the songs, or after three seconds without
DataProvided ==
  /\ mPathOfNamedPlaylistBeingFetched # NoName
  /\ mPathOfNamedPlaylistBeingFetched' = NoName
  /\ mFetchedNamedPlaylist' = NoName
  /\ UNCHANGED <<listVars, sheetVars, clientRequests, posted, clientVars, serverVars, unsure>>

\* The row stays selected even if there is none left: mutant
SameRow(list) == selectedRow

RowAfter(list) == IF selectedRow > Cardinality(list) THEN NoRow ELSE selectedRow

\* Any playlist that comes is taken for the one that is waited for: mutant
FetchedAny(n) == mFetchedNamedPlaylist' = n.songs

FetchedNamedPlaylist(n) ==
  mFetchedNamedPlaylist' =
    IF n.path = mPathOfNamedPlaylistBeingFetched THEN n.songs ELSE mFetchedNamedPlaylist

FoundPlaylists(n) ==
  /\ mPlaylists' = n.entries
  /\ selectedRow' = RowAfter(n.entries)
  /\ tableEnabled' = TRUE /\ unasked' = FALSE
  /\ UNCHANGED <<drawerOpen, refreshEnabled, dragVars, clientRequests>>

Connected ==
  /\ refreshEnabled' = TRUE
  /\ IF drawerOpen THEN Refresh ELSE UNCHANGED <<tableEnabled, unasked, clientRequests>>
  /\ UNCHANGED <<mPlaylists, selectedRow, drawerOpen, dragVars>>

Disconnected ==
  /\ mPlaylists' = NoName
  /\ selectedRow' = NoRow
  /\ refreshEnabled' = FALSE
  /\ UNCHANGED <<tableEnabled, drawerOpen, unasked, dragVars, clientRequests>>

HandlePosted(n) ==
  \/ n.name = "FoundPlaylists" /\ FoundPlaylists(n)
  \/ /\ n.name = "FetchedNamedPlaylist"
     /\ FetchedNamedPlaylist(n)
     /\ UNCHANGED <<listVars, mPathOfNamedPlaylistBeingFetched, clientRequests>>
  \/ /\ n.name = "NumberOfPlaylistsChanged"
     /\ Refresh
     /\ UNCHANGED <<mPlaylists, selectedRow, drawerOpen, refreshEnabled, dragVars>>
  \/ n.name = "Connected" /\ Connected
  \/ n.name = "Disconnected" /\ Disconnected

ServePosted ==
  /\ posted # <<>>
  /\ HandlePosted(Head(posted))
  /\ posted' = Tail(posted)
  /\ UNCHANGED <<sheetVars, clientVars, serverVars, unsure>>

\* stop waits for its answer: what the old client was asked before is done, and
\* what it has posted will come.  It announces no loss: the list stays.  The
\* server of the new profile has playlists of its own.
SwitchProfile ==
  /\ mPathOfNamedPlaylistBeingFetched = NoName
  /\ clientExists /\ clientRequests = <<>>
  /\ clientExists' = FALSE /\ mpdConnected' = FALSE
  /\ stored' \in SUBSET Names /\ unsure' = TRUE
  /\ UNCHANGED <<listVars, sheetVars, dragVars, clientRequests, posted, version>>

SetMusicClient ==
  /\ ~clientExists
  /\ clientExists' = TRUE
  /\ UNCHANGED <<listVars, sheetVars, dragVars, clientRequests, posted, mpdConnected,
                 serverVars, unsure>>

-----------------------------------------------------------------------------
(* The client thread, and the server.                                      *)

Post(notice) ==
  /\ Len(posted) < MaxPosted
  /\ posted' = Append(posted, notice)

\* Nothing is posted without a connection: mutant
ListIfConnected ==
  /\ IF mpdConnected THEN Post([name |-> "FoundPlaylists", entries |-> stored])
     ELSE UNCHANGED posted
  /\ unsure' = ~mpdConnected
  /\ UNCHANGED serverVars

\* Without a connection there are no entries, and that is posted.
List ==
  /\ Post([name |-> "FoundPlaylists", entries |-> IF mpdConnected THEN stored ELSE {}])
  /\ unsure' = ~mpdConnected
  /\ UNCHANGED serverVars

\* What it does to the current playlist is the subject of PlayList.
Load == UNCHANGED <<posted, serverVars, unsure>>

\* The server does not save over a stored playlist.
Save(n) ==
  /\ IF mpdConnected /\ n \notin stored /\ version[n] < MaxVersion
     THEN stored' = stored \cup {n} /\ version' = [version EXCEPT ![n] = @ + 1]
     ELSE UNCHANGED <<stored, version>>
  /\ Post([name |-> "NumberOfPlaylistsChanged"])
  /\ UNCHANGED unsure

\* The list is left as it is: mutant
DeleteSilently(n) ==
  /\ stored' = IF mpdConnected THEN stored \ {n} ELSE stored
  /\ UNCHANGED <<posted, version, unsure>>

Delete(n) ==
  /\ stored' = IF mpdConnected THEN stored \ {n} ELSE stored
  /\ Post([name |-> "NumberOfPlaylistsChanged"])
  /\ UNCHANGED <<version, unsure>>

Fetch(n) ==
  /\ Post([name |-> "FetchedNamedPlaylist", path |-> n, songs |-> Songs(n)])
  /\ UNCHANGED <<serverVars, unsure>>

ServeRequest ==
  /\ clientRequests # <<>>
  /\ clientRequests' = Tail(clientRequests)
  /\ LET r == Head(clientRequests) IN
     \/ r.op = "list" /\ List
     \/ r.op = "load" /\ Load
     \/ r.op = "save" /\ Save(r.name)
     \/ r.op = "delete" /\ Delete(r.name)
     \/ r.op = "fetch" /\ Fetch(r.name)
  /\ UNCHANGED <<listVars, sheetVars, dragVars, clientVars>>

ConnectionChanges ==
  /\ clientExists
  /\ mpdConnected' = ~mpdConnected
  /\ Post([name |-> IF mpdConnected THEN "Disconnected" ELSE "Connected"])
  /\ UNCHANGED <<listVars, sheetVars, dragVars, clientExists, clientRequests, serverVars,
                 unsure>>

\* Other clients change a stored playlist, or store a new one, or delete one.
OthersWrite(n) ==
  /\ version[n] < MaxVersion
  /\ version' = [version EXCEPT ![n] = @ + 1]
  /\ stored' = stored \cup {n}
  /\ unsure' = (unsure \/ n \notin stored)
  /\ UNCHANGED <<listVars, sheetVars, dragVars, clientRequests, posted, clientVars>>

OthersDelete(n) ==
  /\ n \in stored
  /\ stored' = stored \ {n}
  /\ unsure' = TRUE
  /\ UNCHANGED <<listVars, sheetVars, dragVars, clientRequests, posted, clientVars,
                 version>>

\* A fetch of n, or its answer, is on its way.
Fetching(n) ==
  \/ [op |-> "fetch", name |-> n] \in Elements(clientRequests)
  \/ \E p \in Elements(posted) : p.name = "FetchedNamedPlaylist" /\ p.path = n

Missing(n) == ~mpdConnected \/ n \notin stored

\* What happens to the playlist while its drop waits
TrackDrop ==
  drop' = LET n == mPathOfNamedPlaylistBeingFetched' IN
          IF n = NoName THEN NoName
          ELSE IF drop = NoName
          THEN [since |-> version[n], late |-> Fetching(n), missing |-> Missing(n)]
          ELSE [drop EXCEPT !.missing = @ \/ Missing(mPathOfNamedPlaylistBeingFetched)']

FilesStep ==
  \/ RefreshClicked \/ ToggleDrawer \/ LoadSelectedPlaylist \/ DeleteClicked
  \/ \E n \in Listed : SelectRow(n) \/ ProvideData(n)
  \/ \E confirmed, doNotAskAgain \in BOOLEAN :
       DeleteConfirmationButtonClicked(confirmed, doNotAskAgain)
  \/ DataProvided \/ SwitchProfile \/ SetMusicClient
  \/ ServePosted \/ ServeRequest \/ ConnectionChanges
  \/ \E n \in Names : SavePlayListAction(n) \/ OthersWrite(n) \/ OthersDelete(n)

FilesNext == FilesStep /\ TrackDrop

FilesSpec == FilesInit /\ [][FilesNext]_filesVars

-----------------------------------------------------------------------------
\* A drop that gets songs gets those of the playlist that was dragged, whatever
\* answers of earlier drops are still to come, and not older than the drop,
\* unless such an answer is for the same playlist; and it gets an empty list
\* only if the playlist or the connection was not there.
DragCarriesPlaylist ==
  mPathOfNamedPlaylistBeingFetched # NoName /\ mFetchedNamedPlaylist # NoName =>
    IF mFetchedNamedPlaylist = <<>> THEN drop.missing \/ drop.late
    ELSE /\ mFetchedNamedPlaylist[1] = mPathOfNamedPlaylistBeingFetched
         /\ mFetchedNamedPlaylist[2] >= drop.since \/ drop.late

\* A table that a refresh has disabled is enabled again by an answer that is on
\* its way, with or without a connection; unless the refresh found no client to
\* ask.  With an open drawer and nothing listed, as when the program starts, that
\* lasts until the connection: its notification, still to be handled, asks again.
TableComesBack ==
  \/ tableEnabled
  \/ [op |-> "list"] \in Elements(clientRequests)
  \/ \E p \in Elements(posted) : p.name = "FoundPlaylists"
  \/ /\ unasked
     /\ mpdConnected /\ drawerOpen /\ mPlaylists = NoName
          => \E p \in Elements(posted) : p.name = "Connected"

\* When nothing is on its way, the list is the server's: it follows what the
\* user saves and deletes through every loss and reconnect; not what other
\* clients do, nor after a list that was asked for without a connection.
ListFollowsOwnChanges ==
  mpdConnected /\ clientRequests = <<>> /\ posted = <<>> /\ mPlaylists # NoName =>
    mPlaylists = stored \/ unsure

\* "Are you sure you want to delete the playlist ...?": the playlist that is
\* deleted after this question is the one that was asked for.
DeletesAsAsked ==
  [][\A n \in Names :
       sheet # NoName /\ clientRequests' = Append(clientRequests, [op |-> "delete", name |-> n])
         => n = sheet]_filesVars
=============================================================================
