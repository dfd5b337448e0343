------------------------- MODULE PlayListProperties -------------------------
(***************************************************************************)
(* The correctness properties of PlayList.                                 *)
(***************************************************************************)
EXTENDS PlayList

\* All that the last poll found is known to the main thread, and the server
\* is still as it found it.
Quiet ==
  /\ Connected
  /\ Drained
  /\ mainQueue = <<>>
  /\ ~mDisallowPlaylistUpdates
  /\ client.playlist = server.version
  /\ client.song = server.current
  /\ client.position = StatusPosition

CurrentRow == Row(mPlayList, mFilteredPlaylist, PositionIn(server.list, server.current))

-----------------------------------------------------------------------------
(* The table shows the server's playlist once all notifications are        *)
(* handled, although lists that were fetched while randomizePlaylist runs  *)
(* are dropped, and however fetches, commands, losses and other clients    *)
(* interleave.                                                             *)
ListFollows == Quiet => mPlayList = server.list

(* The rows that a search shows are those of the list it searched, with    *)
(* their positions in it, also when a new list comes: the songs deleted or *)
(* played are the ones shown.                                              *)
FilterFollows ==
  mFilteredPlaylist # None /\ mPlayList # None =>
    mFilteredPlaylist \in Matches(mPlayList, search)

(* The marker is on the song that the server plays, once all notifications *)
(* are handled, if the player never stopped and no other client moved      *)
(* songs between a poll and the fetch of its current song.                 *)
MarkerFollows ==
  Quiet /\ server.playing /\ spent["stops"] = 0 /\ ~raced =>
    mCurrentPlayingSongPosition = PositionIn(server.list, server.current)

(* Theremin removes no song from the server's playlist that the user did   *)
(* not see in a selected row, whatever the list has become meanwhile.      *)
RemovesOnlyChosen ==
  [][requests # <<>> /\ requests' = Tail(requests) /\ Head(requests).op = "remove" =>
       SongsIn(server.list) \ SongsIn(server'.list) \subseteq chosen]_vars

(* CHANGELOG:109: "On Connect, the currently playing song will be selected *)
(* and scrolled to."  It is when the table and the marker have followed the *)
(* first connect, in whichever order the list and the position came, unless *)
(* something else has happened since.                                      *)
SelectedAfter(event) ==
  expects = event /\ Quiet /\ server.playing /\ CurrentRow # None /\ ~mScheduledSelect =>
    selected = {CurrentRow}

SelectedAfterConnect == SelectedAfter("connect")

(* CHANGELOG:111: "If you replace all files in the playlist, the new       *)
(* currently playing song will be selected."                               *)
SelectedAfterReplace == SelectedAfter("replace")

(* Without a connection the table keeps no list, once all notifications    *)
(* are handled: neither one that was on its way when the connection was    *)
(* lost nor, after a loss during randomizePlaylist, the old one.  It shows *)
(* no rows then, unless a search is shown, whose rows stay in view.  Even  *)
(* of these a deletion takes no song.                                      *)
NoListWhenLost ==
  client.link = "down" /\ Drained /\ mainQueue = <<>> /\ ~mDisallowPlaylistUpdates =>
    /\ mPlayList \in {None, <<>>}
    /\ mFilteredPlaylist = None => Rows(mPlayList, mFilteredPlaylist) = {}
    /\ SelectedRows = {}

(* Once users, other clients and failures leave it in peace, the table has *)
(* the playlist of the server, or no list without a connection (when it    *)
(* may still show the rows of a search).                                   *)
PlaylistConverges ==
  /\ <>[]Connected => <>[](mPlayList = server.list)
  /\ <>[](client.link = "down") => <>[](mPlayList \in {None, <<>>})
=============================================================================
