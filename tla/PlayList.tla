------------------------------ MODULE PlayList ------------------------------
(***************************************************************************)
(* The playlist: the server's list, which other clients change too, the    *)
(* client thread that polls the server through libmpd, and the copy that   *)
(* PlayListController shows, with its filter, its selection and the marker *)
(* of the current song.                                                    *)
(*                                                                         *)
(* A poll compares the server's status with the last one and posts what    *)
(* has changed; of a changed playlist the main thread asks for all songs.  *)
(* The commands of the user are oneway messages: they address songs by     *)
(* identifier (delete, swap, play) or by position (move), and the list that *)
(* the user saw may not be the server's any more.                          *)
(*                                                                         *)
(* Positions count from 1, and None stands for the code's -1.  The panels  *)
(* of searches that take longer than half a second are left out.           *)
(***************************************************************************)
EXTENDS Integers, Sequences, FiniteSets

CONSTANTS
  Songs,     \* entries of the playlist, named by their identifiers; each is
             \* added at most once
  AtStart,   \* the server's playlists to start from
  Searches,  \* what the user searches for: the songs that match
  Limits,    \* how often each kind of bounded event may happen
  None

\* The kinds of bounded events; "all" bounds them together.
Bounded == {"commands", "selections", "searches", "edits", "stops", "losses", "all"}

ASSUME SongsAssumption ==
  /\ None \notin Songs /\ "unknown" \notin Songs
  /\ AtStart \subseteq Seq(Songs)
  /\ Searches \subseteq SUBSET Songs
ASSUME LimitsAssumption == Limits \in [Bounded -> Nat]
ASSUME NoneAssumption ==
  /\ None \notin Nat
  /\ None \notin [song : Songs, position : Nat]
  /\ \A S \in SUBSET Songs : S # None

VARIABLES
  \* PlayListController
  mPlayList, mFilteredPlaylist, mCurrentPlayingSongPosition,
  search,              \* what the search field holds
  selected,            \* the selected rows
  mScheduledSelect,    \* mScheduledSelectCurrentSongOnNextSongChange
  mShownAndSelected,   \* mShownAndSelectedCurrentSongAfterConnect
  mDisallowPlaylistUpdates,  \* randomizePlaylist is running
  shuffle,             \* its copy of the list and how far it has come
  \* the channels and the client thread with its libmpd
  mainQueue, requests, client,
  \* the server
  server,
  \* history
  chosen,              \* the songs that the user ever chose to delete
  expects,             \* why the current song is to be selected: the last
                       \* thing that happened, if it was one of those
  raced,               \* another client moved songs between a poll and the
                       \* fetch of its current song
  spent                \* how often each kind of bounded event has happened

tableVars == <<mPlayList, mFilteredPlaylist, search, selected>>
markerVars == <<mCurrentPlayingSongPosition, mScheduledSelect, mShownAndSelected>>
historyVars == <<chosen, expects, raced, spent>>
randomizeVars == <<mDisallowPlaylistUpdates, shuffle>>
mainVars == <<tableVars, markerVars, randomizeVars>>
vars == <<mainVars, mainQueue, requests, client, server, historyVars>>

-----------------------------------------------------------------------------
(* Lists of songs.                                                         *)

IndicesOf(list, song) == {i \in 1..Len(list) : list[i] = song}
PositionIn(list, song) ==
  IF IndicesOf(list, song) = {} THEN None
  ELSE CHOOSE i \in IndicesOf(list, song) : TRUE
SongsIn(list) == {list[i] : i \in 1..Len(list)}

\* The increasing enumeration of a set of numbers: the only member
InOrder(S) == {f \in [1..Cardinality(S) -> S] :
                 \A i, j \in DOMAIN f : i < j => f[i] < f[j]}

Without(list, i) == SubSeq(list, 1, i - 1) \o SubSeq(list, i + 1, Len(list))
With(list, i, song) == SubSeq(list, 1, i - 1) \o <<song>> \o SubSeq(list, i, Len(list))
Moved(list, i, j) == With(Without(list, i), j, list[i])
Swapped(list, i, j) == [list EXCEPT ![i] = list[j], ![j] = list[i]]

-----------------------------------------------------------------------------
(* The client thread.                                                      *)

Notification ==
  [name : {"PlaylistChanged", "Disconnected"}]
    \cup [name : {"FetchedPlaylist"}, songs : Seq(Songs)]
    \cup [name : {"CurrentSong"}, position : {None} \cup Nat]

Request ==
  [op : {"fetch", "clear", "start", "send position"}]
    \cup [op : {"add", "play"}, song : Songs]
    \cup [op : {"remove"}, songs : Seq(Songs)]
    \cup [op : {"move"}, from : Nat, to : Nat]
    \cup [op : {"swap"}, song : Songs, other : Songs]

Changes == {"playlist", "position", "song"}

\* What libmpd knows: CurrentState, CurrentSong and the status of a callback.
\* The -1 of CurrentState is None, and "unknown" for the song: the status of a
\* server without a current song has the 0 of calloc, song None at position 1.
Client ==
  [link : {"up", "lost", "down"},          \* lost: not yet announced
   at : {"idle", "update", "callback"},    \* update: a command goes on with
                                           \* mpd_status_update
   playlist : {None} \cup Nat,
   song : {None, "unknown"} \cup Songs,
   position : {None} \cup Nat,
   current : {None} \cup [song : Songs, position : Nat],
   playing : BOOLEAN,                      \* in the status of the callback
   changed : SUBSET Changes,
   forced : BOOLEAN]                       \* mForcedStatusUpdates

Disconnected(c, link) ==
  [c EXCEPT !.link = link, !.playlist = None, !.song = "unknown",
            !.position = None, !.current = None, !.playing = FALSE]

Connected == client.link = "up"

Post(notifications) == mainQueue' = mainQueue \o notifications

\* A synchronous message of the main thread waits until the client has served
\* all that it was sent before.
Drained == requests = <<>> /\ client.at = "idle"

TypeOK ==
  /\ mPlayList \in {None} \cup Seq(Songs)
  /\ mFilteredPlaylist \in {None} \cup Seq([song : Songs, position : Nat])
  /\ mCurrentPlayingSongPosition \in {None} \cup Nat
  /\ search = None \/ search \in SUBSET Songs
  /\ selected \in SUBSET Nat
  /\ mScheduledSelect \in BOOLEAN
  /\ mShownAndSelected \in BOOLEAN
  /\ mDisallowPlaylistUpdates \in BOOLEAN
  /\ shuffle \in [order : Seq(Songs), at : Nat]
  /\ mainQueue \in Seq(Notification)
  /\ requests \in Seq(Request)
  /\ client \in Client
  /\ server \in [list : Seq(Songs), version : Nat, current : {None} \cup Songs,
                 playing : BOOLEAN, used : SUBSET Songs]
  /\ chosen \in SUBSET Songs
  /\ expects \in {"nothing", "connect", "replace"}
  /\ raced \in BOOLEAN
  /\ spent \in [Bounded -> Nat]

Unshuffled == [order |-> <<>>, at |-> 1]

\* Connected, and nothing asked or said yet; the server plays its first song.
Init ==
  /\ mPlayList = None
  /\ mFilteredPlaylist = None
  /\ mCurrentPlayingSongPosition = None
  /\ search = None
  /\ selected = {}
  /\ mScheduledSelect = FALSE
  /\ mShownAndSelected = FALSE
  /\ mDisallowPlaylistUpdates = FALSE
  /\ shuffle = Unshuffled
  /\ mainQueue = <<>>
  /\ requests = <<>>
  /\ client = [link |-> "up", at |-> "idle", playlist |-> None,
               song |-> "unknown", position |-> None, current |-> None,
               playing |-> FALSE, changed |-> {}, forced |-> FALSE]
  /\ \E list \in AtStart, current \in Songs :
       /\ current \in SongsIn(list)
       /\ server = [list |-> list, version |-> 1, current |-> current,
                    playing |-> TRUE, used |-> SongsIn(list)]
  /\ chosen = {}
  /\ expects = "connect"
  /\ raced = FALSE
  /\ spent = [b \in Bounded |-> 0]

Spend(b) ==
  /\ spent[b] < Limits[b]
  /\ spent["all"] < Limits["all"]
  /\ spent' = [spent EXCEPT ![b] = @ + 1, !["all"] = @ + 1]

-----------------------------------------------------------------------------
(* What the server makes of commands.                                      *)

StatusPosition ==
  IF server.current = None THEN 1 ELSE PositionIn(server.list, server.current)

\* A server that loses its current song goes on with another one, or stops.
Listing(list) ==
  /\ server' \in [list : {list}, version : {server.version + 1},
                  current : SongsIn(list) \cup {None},
                  playing : {server.playing, FALSE}, used : {server.used}]
  /\ server.current \in SongsIn(list) =>
       server'.current = server.current /\ server'.playing = server.playing
  /\ server'.current = None => ~server'.playing
  /\ server.playing /\ list # <<>> => server'.playing
  /\ server.current = None => server'.current = None

Playing(song) == server' = [server EXCEPT !.current = song, !.playing = TRUE]

-----------------------------------------------------------------------------
(* A poll: mpd_status_update and callbackStatusChanged.                    *)

\* Mutant: the cached song survives a change of the playlist
CurrentKept(changed) == client.current

\* The cached song is freed when the playlist has changed.
CurrentAfter(changed) == IF "playlist" \in changed THEN None ELSE client.current

\* mpdTimerTriggered, or the end of a command.  When nothing else has changed
\* but something is forced, it depends on the other fields of the status
\* whether there is a callback.
UpdateStatus ==
  LET changed == (IF client.playlist # server.version THEN {"playlist"} ELSE {})
                   \cup (IF client.song # server.current THEN {"song"} ELSE {})
                   \cup (IF client.position # StatusPosition THEN {"position"} ELSE {})
  IN /\ client.at \in {"idle", "update"}
     /\ Connected
     /\ \E calls \in BOOLEAN :
          /\ changed # {} => calls
          /\ calls => changed # {} \/ client.forced
          /\ client' = [client EXCEPT
               !.at = IF calls THEN "callback" ELSE "idle",
               !.playlist = server.version,
               !.song = server.current,
               !.position = StatusPosition,
               !.current = CurrentAfter(changed),
               !.playing = calls /\ server.playing,
               !.changed = changed]
     /\ UNCHANGED <<mainVars, mainQueue, requests, server, historyVars>>

\* mpd_status_update on a connection that is gone
UpdateNothing ==
  /\ client.at = "update"
  /\ ~Connected
  /\ client' = [client EXCEPT !.at = "idle"]
  /\ UNCHANGED <<mainVars, mainQueue, requests, server, historyVars>>

\* mpd_playlist_get_current_song: the cached song, or the server's answer now.
CurrentSong ==
  LET cached == IF client.current # None /\ client.current.song = client.song
                THEN client.current ELSE None
      position == PositionIn(server.list, client.song)
  IN IF cached = None /\ Connected /\ client.playing /\ position # None
     THEN [song |-> client.song, position |-> position]
     ELSE cached

CallbackStatusChanged ==
  LET what == client.changed \cup (IF client.forced THEN {"position"} ELSE {})
      current == IF what \subseteq {"playlist"} THEN client.current ELSE CurrentSong
      position == IF current = None THEN None ELSE current.position
      told(change, notification) == IF change \in what THEN <<notification>> ELSE <<>>
  IN /\ client.at = "callback"
     /\ Post(told("playlist", [name |-> "PlaylistChanged"])
               \o told("position", [name |-> "CurrentSong", position |-> position])
               \o told("song", [name |-> "CurrentSong", position |-> position]))
     /\ client' = [client EXCEPT !.at = "idle", !.current = current, !.playing = FALSE,
                                 !.changed = {}, !.forced = FALSE]
     /\ UNCHANGED <<mainVars, requests, server, historyVars>>

-----------------------------------------------------------------------------
(* The client serves its messages.                                         *)

Receives(op) ==
  /\ requests # <<>>
  /\ client.at = "idle"
  /\ Head(requests).op = op
  /\ requests' = Tail(requests)
  /\ UNCHANGED <<mainVars, historyVars>>

\* Without a connection the list is empty.
StartFetchPlaylist ==
  /\ Receives("fetch")
  /\ Post(<<[name |-> "FetchedPlaylist",
             songs |-> IF Connected THEN server.list ELSE <<>>]>>)
  /\ UNCHANGED <<client, server>>

SendCurrentSongPosition ==
  /\ Receives("send position")
  /\ client' = [client EXCEPT !.forced = @ \/ Connected]
  /\ UNCHANGED <<mainQueue, server>>

\* A message that does nothing on a connection that is gone
Ignore ==
  /\ ~Connected
  /\ \E op \in {"clear", "start", "add", "play", "remove", "move", "swap"} : Receives(op)
  /\ UNCHANGED <<mainQueue, client, server>>

GoesOn == client' = [client EXCEPT !.at = "update"]

ClearPlaylist ==
  /\ Receives("clear")
  /\ Connected
  /\ server' = [server EXCEPT !.list = <<>>, !.version = @ + 1, !.current = None,
                              !.playing = FALSE]
  /\ client' = [client EXCEPT !.at = "update", !.song = "unknown"]
  /\ UNCHANGED mainQueue

AddSong ==
  /\ Receives("add")
  /\ Connected
  /\ server' = [server EXCEPT !.list = Append(@, Head(requests).song), !.version = @ + 1]
  /\ GoesOn
  /\ UNCHANGED mainQueue

\* deleteid for each song, in a command list that ends where a song is not
\* there any more
RemoveSongs ==
  LET songs == Head(requests).songs
      gone == {i \in 1..Len(songs) : songs[i] \notin SongsIn(server.list)}
      removed == {songs[i] : i \in {j \in 1..Len(songs) : \A k \in gone : j < k}}
  IN /\ Receives("remove")
     /\ Connected
     /\ IF removed = {} THEN UNCHANGED server
        ELSE \E kept \in InOrder({i \in 1..Len(server.list) : server.list[i] \notin removed}) :
               Listing([i \in DOMAIN kept |-> server.list[kept[i]]])
     /\ GoesOn
     /\ UNCHANGED mainQueue

\* Positions that the server's list does not have are an error, except that
\* servers may count one below the first from the current song.
MoveSong ==
  LET from == Head(requests).from
      to == Head(requests).to
      positions == 1..Len(server.list)
  IN /\ Receives("move")
     /\ Connected
     /\ \/ /\ from \in positions
           /\ \E target \in positions :
                /\ to \in {target, 0}
                /\ Listing(Moved(server.list, from, target))
        \/ /\ ~({from, to} \subseteq positions)
           /\ UNCHANGED server
     /\ UNCHANGED <<mainQueue, client>>

SwapSongs ==
  LET i == PositionIn(server.list, Head(requests).song)
      j == PositionIn(server.list, Head(requests).other)
  IN /\ Receives("swap")
     /\ Connected
     /\ IF i # None /\ j # None THEN Listing(Swapped(server.list, i, j))
                                ELSE UNCHANGED server
     /\ UNCHANGED <<mainQueue, client>>

StartPlayback ==
  /\ Receives("start")
  /\ Connected
  /\ IF server.list = <<>> THEN UNCHANGED server
     ELSE Playing(IF server.current = None THEN server.list[1] ELSE server.current)
  /\ GoesOn
  /\ UNCHANGED mainQueue

SkipToSong ==
  LET song == Head(requests).song
  IN /\ Receives("play")
     /\ Connected
     /\ IF song \in SongsIn(server.list) THEN Playing(song) ELSE UNCHANGED server
     /\ GoesOn
     /\ UNCHANGED mainQueue

-----------------------------------------------------------------------------
(* The connection comes and goes: ServerConnection has the details.        *)

LoseConnection ==
  /\ Connected
  /\ Spend("losses")
  /\ client' = Disconnected(client, "lost")
  /\ expects' = "nothing"
  /\ UNCHANGED <<mainVars, mainQueue, requests, server, chosen, raced>>

NoticeLoss ==
  /\ client.link = "lost"
  /\ client.at = "idle"
  /\ client' = [client EXCEPT !.link = "down"]
  /\ Post(<<[name |-> "Disconnected"]>>)
  /\ UNCHANGED <<mainVars, requests, server, historyVars>>

Reconnect ==
  /\ client.link = "down"
  /\ client.at = "idle"
  /\ client' = [client EXCEPT !.link = "up"]
  /\ UNCHANGED <<mainVars, mainQueue, requests, server, historyVars>>

-----------------------------------------------------------------------------
(* The main thread: the table of PlayListController.                       *)

\* What searchAction: makes of a list: the rows that match, in order
Matches(list, songs) ==
  LET matching == IF list = None THEN {} ELSE {i \in 1..Len(list) : list[i] \in songs}
  IN {[row \in DOMAIN positions |->
         [song |-> list[positions[row]], position |-> positions[row]]] :
        positions \in InOrder(matching)}

Rows(list, filtered) ==
  IF filtered # None THEN 1..Len(filtered)
  ELSE IF list = None THEN {} ELSE 1..Len(list)

NumberOfRows == Cardinality(Rows(mPlayList, mFilteredPlaylist))

\* currentSongRow for the values given
Row(list, filtered, position) ==
  IF filtered # None
  THEN LET rows == {i \in 1..Len(filtered) : filtered[i].position = position}
       IN IF rows = {} THEN None ELSE CHOOSE i \in rows : \A j \in rows : i <= j
  ELSE IF list = None THEN None ELSE position

\* Mutant: the row is not looked at
SelectAnyRow(row) == selected' = {row}

\* A row that the table does not have is not selected.
SelectRow(row) ==
  selected' = IF row \in 1..NumberOfRows THEN {row} ELSE selected

\* After reloadData the table keeps the selection of the rows that are left.
KeepSelection(list, filtered) == selected' = selected \cap Rows(list, filtered)

\* Mutant: shown is what was tried
ShownAlways(row) == mShownAndSelected' = TRUE

\* showCurrentSong and selectCurrentSong answer NO without a row.
ShownIf(row) == mShownAndSelected' = (mShownAndSelected \/ row # None)

\* Mutant: the rows of the search before stay
UpdateWithoutSearch(list) ==
  LET row == Row(list, mFilteredPlaylist, mCurrentPlayingSongPosition)
      rows == Rows(list, mFilteredPlaylist)
  IN /\ mPlayList' = list
     /\ UNCHANGED mFilteredPlaylist
     /\ ShownIf(row)
     /\ selected' = IF ~mShownAndSelected /\ row \in rows THEN {row} ELSE selected \cap rows

\* The rows of a list that has come, and its current song if it is the first
\* one after a connect: updateAfterNewSongs:
UpdateAfterNewSongs(list) ==
  \E filtered \in IF mFilteredPlaylist = None THEN {None} ELSE Matches(list, search) :
    LET row == Row(list, filtered, mCurrentPlayingSongPosition)
        rows == Rows(list, filtered)
    IN /\ mPlayList' = list
       /\ mFilteredPlaylist' = filtered
       /\ ShownIf(row)
       /\ selected' = IF ~mShownAndSelected /\ row \in rows THEN {row}
                      ELSE IF filtered # None THEN {1} \cap rows
                      ELSE selected \cap rows

Arrives(name) ==
  /\ mainQueue # <<>>
  /\ Head(mainQueue).name = name
  /\ mainQueue' = Tail(mainQueue)
  /\ UNCHANGED <<search, client, server, historyVars>>

\* clientPlaylistChanged:
AskForPlaylist ==
  \/ /\ Connected
     /\ requests' = Append(requests, [op |-> "fetch"])
     /\ UNCHANGED tableVars
  \/ /\ ~Connected
     /\ mPlayList' = None
     /\ KeepSelection(None, mFilteredPlaylist)
     /\ UNCHANGED <<mFilteredPlaylist, search, requests>>

\* Mutant: does not wait for a client that is busy
AskUnlessBusy ==
  /\ Arrives("PlaylistChanged")
  /\ IF mDisallowPlaylistUpdates \/ ~Drained THEN UNCHANGED <<tableVars, requests>>
                                       ELSE AskForPlaylist
  /\ UNCHANGED <<markerVars, randomizeVars>>

HandlePlaylistChanged ==
  /\ Arrives("PlaylistChanged")
  /\ IF mDisallowPlaylistUpdates THEN UNCHANGED <<tableVars, requests>>
                           ELSE Drained /\ AskForPlaylist
  /\ UNCHANGED <<markerVars, randomizeVars>>

\* Mutant: the list is left to the next "playlist changed"
KeepListWhenDisconnected ==
  /\ Arrives("Disconnected")
  /\ mShownAndSelected' = FALSE
  /\ UNCHANGED <<tableVars, requests, mCurrentPlayingSongPosition, mScheduledSelect,
                 randomizeVars>>

HandleDisconnected ==
  /\ Arrives("Disconnected")
  /\ mShownAndSelected' = FALSE
  /\ IF mDisallowPlaylistUpdates THEN UNCHANGED <<tableVars, requests>>
                           ELSE Drained /\ AskForPlaylist
  /\ UNCHANGED <<mCurrentPlayingSongPosition, mScheduledSelect, randomizeVars>>

HandleFetchedPlaylist ==
  /\ Arrives("FetchedPlaylist")
  /\ IF mDisallowPlaylistUpdates THEN UNCHANGED <<tableVars, mShownAndSelected>>
                           ELSE UpdateAfterNewSongs(Head(mainQueue).songs)
  /\ UNCHANGED <<mCurrentPlayingSongPosition, mScheduledSelect, randomizeVars, requests>>

\* clientCurrentSongPositionChanged:, for two notifications
HandleCurrentSong ==
  LET position == Head(mainQueue).position
      row == Row(mPlayList, mFilteredPlaylist, position)
  IN /\ Arrives("CurrentSong")
     /\ mCurrentPlayingSongPosition' = position
     /\ mScheduledSelect' = FALSE
     /\ ShownIf(row)
     /\ UNCHANGED <<mPlayList, mFilteredPlaylist, randomizeVars, requests>>
     /\ IF mScheduledSelect \/ ~mShownAndSelected THEN SelectRow(row)
                                                  ELSE UNCHANGED selected

-----------------------------------------------------------------------------
(* The user, whom the panel of randomizePlaylist keeps out.                *)

UserActs(kind) ==
  /\ ~mDisallowPlaylistUpdates
  /\ Spend(kind)
  /\ expects' = "nothing"
  /\ UNCHANGED <<mainQueue, client, server, raced>>

Sends(messages) == requests' = requests \o messages

SelectRows(rows) ==
  /\ rows \subseteq 1..NumberOfRows
  /\ UserActs("selections")
  /\ selected' = rows
  /\ UNCHANGED <<mPlayList, mFilteredPlaylist, search, markerVars, randomizeVars,
                 requests, chosen>>

Search(songs) ==
  /\ UserActs("searches")
  /\ search' = songs
  /\ \/ /\ songs = None
        /\ mFilteredPlaylist' = None
        /\ KeepSelection(mPlayList, None)
     \/ /\ songs # None
        /\ mFilteredPlaylist' \in Matches(mPlayList, songs)
        /\ selected' = {1} \cap Rows(mPlayList, mFilteredPlaylist')
  /\ UNCHANGED <<mPlayList, markerVars, randomizeVars, requests, chosen>>

\* What the table shows in a row, and what getSelectedSongs takes from it
SongShown(row) ==
  IF mFilteredPlaylist # None THEN mFilteredPlaylist[row].song ELSE mPlayList[row]

\* The selected rows as far as the list is long
SelectedRows == selected \cap 1..(IF mPlayList = None THEN 0 ELSE Len(mPlayList))

\* Mutant: the rows are taken for positions although a search is shown
GetSongsAtRows(rows) == [i \in DOMAIN rows |-> mPlayList[rows[i]]]

GetSelectedSongs(rows) == [i \in DOMAIN rows |-> SongShown(rows[i])]

\* Without songs, libmpd has nothing to commit.
DeleteSelectedSongs ==
  /\ UserActs("commands")
  /\ \E rows \in InOrder(SelectedRows) :
       Sends(IF rows = <<>> THEN <<>>
             ELSE <<[op |-> "remove", songs |-> GetSelectedSongs(rows)]>>)
  /\ chosen' = chosen \cup {SongShown(row) : row \in selected}
  /\ \E first \in selected :
       /\ \A row \in selected : first <= row
       /\ selected' = IF selected = {NumberOfRows} THEN {NumberOfRows - 1} \ {0}
                      ELSE {first}
  /\ UNCHANGED <<mPlayList, mFilteredPlaylist, search, markerVars, randomizeVars>>

PlaySelectedSong(row) ==
  /\ row \in selected
  /\ UserActs("commands")
  /\ Sends(<<[op |-> "play", song |-> SongShown(row)]>>)
  /\ UNCHANGED <<tableVars, markerVars, randomizeVars, chosen>>

\* acceptDrop: of a row of the table, above the row "above"
DropRow(row, above) ==
  LET to == IF row > above THEN above ELSE above - 1
  IN /\ mFilteredPlaylist = None
     /\ row \in 1..NumberOfRows
     /\ above \in 1..NumberOfRows + 1
     /\ UserActs("commands")
     /\ Sends(<<[op |-> "move", from |-> row, to |-> to]>>)
     /\ SelectRow(to)
     /\ UNCHANGED <<mPlayList, mFilteredPlaylist, search, markerVars, randomizeVars, chosen>>

\* Songs that no playlist, message or list in flight has had yet
Fresh == Songs \ server.used

AddsFresh(song) ==
  /\ song \in Fresh
  /\ ~mDisallowPlaylistUpdates
  /\ Spend("commands")
  /\ server' = [server EXCEPT !.used = @ \cup {song}]
  /\ UNCHANGED <<mainQueue, client, raced, chosen>>

\* acceptDrop: of a song of the library: it is added, and moved from where
\* the table's list ends.
DropSong(song, above) ==
  LET length == IF mPlayList = None THEN 0 ELSE Len(mPlayList)
  IN /\ above \in 1..NumberOfRows + 1
     /\ AddsFresh(song)
     /\ Sends(<<[op |-> "add", song |-> song],
                [op |-> "move", from |-> length + 1, to |-> above]>>)
     /\ expects' = "nothing"
     /\ UNCHANGED mainVars

\* replaceFilesInPlaylistAndStartPlayingWithSelectionFromTable:
ReplaceFiles(song) ==
  /\ AddsFresh(song)
  /\ Sends(<<[op |-> "clear"], [op |-> "add", song |-> song], [op |-> "start"]>>)
  /\ mScheduledSelect' = TRUE
  /\ expects' = "replace"
  /\ UNCHANGED <<tableVars, mCurrentPlayingSongPosition, mShownAndSelected, randomizeVars>>

-----------------------------------------------------------------------------
(* randomizePlaylist: notifications are handled between its steps, as far  *)
(* as mDisallowPlaylistUpdates allows, because its panel runs a session.   *)

RandomizePlaylist ==
  /\ UserActs("commands")
  /\ mDisallowPlaylistUpdates' = TRUE
  /\ shuffle' = [order |-> IF mPlayList = None THEN <<>> ELSE mPlayList, at |-> 1]
  /\ UNCHANGED <<tableVars, markerVars, requests, chosen>>

SwapNext(j) ==
  LET order == shuffle.order
      i == shuffle.at
  IN /\ mDisallowPlaylistUpdates
     /\ i < Len(order)
     /\ j \in i..Len(order)
     /\ Sends(<<[op |-> "swap", song |-> order[i], other |-> order[j]]>>)
     /\ shuffle' = [order |-> Swapped(order, i, j), at |-> i + 1]
     /\ UNCHANGED <<tableVars, markerVars, mDisallowPlaylistUpdates, mainQueue, client,
                    server, historyVars>>

\* Mutant: does not catch up with what was disallowed
EndWithoutFetch ==
  /\ mDisallowPlaylistUpdates
  /\ Drained
  /\ mDisallowPlaylistUpdates' = FALSE
  /\ shuffle' = Unshuffled
  /\ Sends(<<[op |-> "send position"]>>)
  /\ mScheduledSelect' = TRUE
  /\ UNCHANGED <<tableVars, mCurrentPlayingSongPosition, mShownAndSelected, mainQueue,
                 client, server, historyVars>>

\* The end, which "cancel" brings about earlier
EndRandomize ==
  /\ mDisallowPlaylistUpdates
  /\ Drained
  /\ mDisallowPlaylistUpdates' = FALSE
  /\ shuffle' = Unshuffled
  /\ \/ /\ Connected
        /\ Sends(<<[op |-> "fetch"], [op |-> "send position"]>>)
        /\ UNCHANGED tableVars
     \/ /\ ~Connected
        /\ Sends(<<[op |-> "send position"]>>)
        /\ mPlayList' = None
        /\ KeepSelection(None, mFilteredPlaylist)
        /\ UNCHANGED <<mFilteredPlaylist, search>>
  /\ mScheduledSelect' = TRUE
  /\ UNCHANGED <<mCurrentPlayingSongPosition, mShownAndSelected, mainQueue, client,
                 server, historyVars>>

-----------------------------------------------------------------------------
(* Other clients of the server, and the player.                            *)

OthersAct ==
  /\ expects' = "nothing"
  /\ UNCHANGED <<mainVars, mainQueue, requests, client, chosen>>

OthersMove(i, j) ==
  /\ i # j
  /\ Spend("edits")
  /\ Listing(Moved(server.list, i, j))
  /\ raced' = (raced \/ client.at = "callback")
  /\ OthersAct

OthersRemove(i) ==
  /\ Spend("edits")
  /\ Listing(Without(server.list, i))
  /\ raced' = (raced \/ client.at = "callback")
  /\ OthersAct

PlaysOther(song) ==
  /\ server.playing
  /\ song # server.current
  /\ Spend("edits")
  /\ Playing(song)
  /\ UNCHANGED raced
  /\ OthersAct

PlayerStops ==
  /\ server.playing
  /\ Spend("stops")
  /\ server' = [server EXCEPT !.playing = FALSE]
  /\ UNCHANGED raced
  /\ OthersAct

-----------------------------------------------------------------------------
ServeStep ==
  \/ StartFetchPlaylist
  \/ SendCurrentSongPosition
  \/ Ignore
  \/ ClearPlaylist
  \/ AddSong
  \/ RemoveSongs
  \/ MoveSong
  \/ SwapSongs
  \/ StartPlayback
  \/ SkipToSong

TimerStep == UpdateStatus \/ UpdateNothing \/ CallbackStatusChanged \/ NoticeLoss

MainStep ==
  \/ HandlePlaylistChanged
  \/ HandleDisconnected
  \/ HandleFetchedPlaylist
  \/ HandleCurrentSong
  \/ \E j \in 1..Cardinality(Songs) : SwapNext(j)
  \/ EndRandomize

UserStep ==
  \/ \E rows \in SUBSET (1..NumberOfRows) : SelectRows(rows)
  \/ \E songs \in Searches \cup {None} : Search(songs)
  \/ DeleteSelectedSongs
  \/ \E row \in selected : PlaySelectedSong(row)
  \/ \E row, above \in 1..NumberOfRows + 1 : DropRow(row, above)
  \/ \E song \in Fresh, above \in 1..NumberOfRows + 1 : DropSong(song, above)
  \/ \E song \in Fresh : ReplaceFiles(song)
  \/ RandomizePlaylist

ServerStep ==
  \/ \E i, j \in 1..Len(server.list) : OthersMove(i, j)
  \/ \E i \in 1..Len(server.list) : OthersRemove(i)
  \/ \E song \in SongsIn(server.list) : PlaysOther(song)
  \/ PlayerStops

Next ==
  \/ ServeStep
  \/ TimerStep
  \/ MainStep
  \/ UserStep
  \/ ServerStep
  \/ LoseConnection
  \/ Reconnect

Spec == Init /\ [][Next]_vars

\* The run loops of both threads turn, and the status timer fires.
Fairness ==
  /\ WF_vars(ServeStep)
  /\ WF_vars(TimerStep)
  /\ WF_vars(MainStep)

FairSpec == Spec /\ Fairness
=============================================================================
