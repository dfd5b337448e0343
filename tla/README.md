# Theremin in TLA+

Theremin is a Mac OS X client for the Music Player Daemon (MPD): a Cocoa
program in Objective-C over libmpd. This directory models its logic in TLA+,
checks the models with TLC on small instances, and proves the main safety
properties with TLAPS.

Paths below are relative to the repository; most of the code is in `Source/`.

## 1. The system

### Threads and how they talk

Three kinds of threads run in the program.

- The **main thread** runs `WindowController` and all the other controllers
  and views. It holds `mClient`, a Distributed Objects proxy for the current
  client object.
- Each **client thread** (`MusicServerClient.connectWithPorts:`) runs one
  `MpdMusicServerClient` around one libmpd `MpdObj`. Selecting a profile stops
  one and starts another.
- The **import thread** (`LibraryImportController`) writes the library's
  SQLite database.

The main thread sends a client *oneway* messages, which the client's run loop
serves in order, and a few *synchronous* ones (`isConnected`, `stop`,
`entriesInDirectory:`, `songInfoByIdentifier:`). A client answers by posting
`nMusicServerClient...` notifications on the main thread
(`postNotificationOnMainThread...`), where every controller that observes the
name handles them in order, whichever client they came from. The profile that
`connectToServerWithProfile:` gets is itself a proxy for an object of the main
thread. The import thread gets its songs through the inter-thread ports of
`InterThreadMessaging`, and waits for the main thread when it has finished.

### Components

| Component | State it keeps | Operations | What makes it correct |
|---|---|---|---|
| Server connection (`WindowController`, `MusicServerClient`, `MpdMusicServerClient`, libmpd) | `mClient`, `mDisableAutoreconnectOnce`, `mAutoreconnectTimer`, the password dialog; per client `_stop`, `mPassword`, `mSetPasswordCalled`, `mMpdTimer`, the `MpdObj` | register, connect, authenticate, disconnect, lose, reconnect, switch profile, stop | the user sees the state of the current client; a dead connection is noticed; the program reconnects; reasons are true |
| Library import (`LibraryImportController`, `SQLController`) | the database identifier, the backup file, the import thread's slot, the tables | connect, fetch, queue, back up, clear, insert, restore, record | after every import the library holds what the server sent and the user's compilation flags, and says so truthfully, crashes included |
| Playlist (`PlayListController` and the playlist part of the client) | the song list, its length, the current song, the filter, the selection | fetch, update, delete, move, add, randomize, play | the list converges to the server's; commands act on the song the user saw |
| Library data source (`SQLController`, `SQLiteQuery`, `LibraryFilterToSQLQueryConverter`, `CompilationDetector`) | tables, identifier caches | queries by filters, compilation detection | a query returns what its filters mean; identifiers are unique |
| Library browser (`LibraryController`, sub-controllers, `LibrarySearchController`) | the columns' contents and selections | select, reload, search | a column shows what the selections to its left determine |
| Playlist files (`PlayListFilesController`) | the list of stored playlists, a pending fetch | refresh, load, save, delete, drag | a drag gets the songs of the list dragged, or none; the table comes back, and follows the user's own changes |
| Player controls (`WindowController`, `MainPlayerToolbarController`, `PWVolumeSlider`) | state of the play button, volume slider, value before mute | play, pause, stop, volume, mute | buttons and slider converge to the server's state |
| Seek scheduler (`MusicServerClient.scheduleSeek`) | `mLastSetTime`, `mSeekTimer` | schedule, fire, reset | the last position asked for is sent |
| Remote control (`AppleRemoteController`, `MultiClickRemoteBehavior`) | hold timers, click counts | press, release, hold, click | a press is one click or one hold; a hold ends with its release |
| Album navigation (`PlayListController`) | the playlist and the current position | next album, previous album | the two undo each other |
| Inter-thread messaging (`InterThreadMessaging`) | ports per thread, queued messages | post, handle, thread exit | messages are performed once, in order |
| Sleep and wake (`WindowController`) | `mPausedOnSleep` | sleep, wake | playback that sleep paused is resumed (it never is: section 8) |
| Profiles (`Profile`, `ProfileController`, `ProfileRepository`, `PreferencesController`) | profiles, cached and keychain passwords | edit, save, select | a profile's password is the one last saved for it |
| Output devices, updates of the server's database, song info, Growl, cover art, hotkeys, views | little, or display only | | |

### What is hard in it

The connection runs *nested run loops*: `connectToServerWithProfile:` serves
other messages, itself included, each time it asks for a field of the profile
(before it connects, and again to say which server failed or wants a password)
and while it waits for the password. Notifications carry no client, and the main
thread does not compare them with the current one. The import clears the
database before it fills it and can be interrupted at each step. Playlist
commands address songs by position on a server that others change too.
`PROJECT.json` lists the hazards one by one, each at its line.

## 2. Plan

In order:

1. `ServerConnection`, with the abstract `ConnectionLifecycle` it implements.
   *(written and proved)*
2. `LibraryImport`: the import with crashes and restarts. *(written and proved)*
3. `PlayList`: the playlist between the main thread, the client and the server:
   fetches that overtake commands, the marker of the current song, the filter.
   *(written and proved)*
4. The parts of the window, each a small state machine that shares no state with
   the others: `CompilationDetector`, `LibraryBrowser` (which runs the detector
   on its songs), `PlayListFiles`, `PlayerControls`, `SeekScheduler`,
   `RemoteControl`, `AlbumNavigation`, composed in `MCWindows`. *(written and
   proved)*

Left: the life cycle of a `SQLiteQuery` with its `SQLITE_BUSY` loops,
`InterThreadMessaging` and `Profiles`. They are sequential code or third-party,
and a model of them would say little more than the code does.

Runs are kept few, one per question: twelve, of which four are counterexamples.

`ServerConnection` and `LibraryImport` meet in the notifications "Connected",
"Disconnected" and "Fetched database"; `LibraryImport` has its own reduced
connection (`Register`, `Connect`, `NoticeLoss`, `LoseConnection`, `ExitThread`)
instead of a composition, whose states would be out of reach. `LibraryBrowser`
likewise has an import reduced to what its window sees of it: two notifications
and the tables that change between them.

The abstract specification is `ConnectionLifecycle`, the order of a client's
announcements, which `ServerConnection` implements. Theorems: type correctness
of each module; the safety invariants and action properties that the runs check;
the refinement.

## 3. `ServerConnection`

State and actions against the code; `PROJECT.json` has the exact lines.

| Model | Code |
|---|---|
| `mClient`, `mDisableAutoreconnectOnce`, `mAutoreconnectTimer` | the members of `WindowController` of these names; `NoClient` is nil |
| `modal` | depth of `runModalForWindow:` of the password panel |
| `requests[c]` | oneway Distributed Objects messages that wait for client `c` |
| `mainQueue` | notifications posted with `performSelectorOnMainThread`, in order |
| `frames[c]` | the `connectToServerWithProfile:` calls in progress on the thread of `c`, the innermost first: "asking" the profile proxy for its fields before it connects, "failing" when `mpd_connect` has failed and the proxy is asked for the name of the server that the announcement has (`MpdMusicServerClient.m:300`), "naming" when it is asked for the name of a server that wants a password (`:272`), or "waiting" for the password |
| `mPassword`, `mSetPasswordCalled`, `mMpdTimer`, `stop` | members of `MpdMusicServerClient` / `MusicServerClient`; a nil password is told apart by its cause |
| `strayTimer` | a second repeating timer, started by a nested connect, that `mMpdTimer` no longer points to |
| `host`, `link`, `allowed`, `libPassword` | the `MpdObj` of libmpd: its host, its connection, whether `status` is an allowed command, its password |
| `announced` | history: the last connection notification that each client posted |

`MainStep`, `UserStep` and `AnswerStep` are the main thread, `ClientStep(c)` the
thread of `c`, `WorldStep` the servers. Synchronous messages (`isConnected`,
`stop`) are guards `Drained(c)`: the client answers them after all it was sent
before. Two properties of run loop modes are kept: `setMusicClient:`, answers of
the profile proxy and the autoreconnect timer are served in the default mode
only, that is not during a modal session, while notifications are; the status
timer fires while a client waits for a password, and not while it asks the
profile for something. `ConnectFails` and `ReportFailure`, and `ConnectSucceeds`
and `AskForPassword`, are the two sides of such a question, between which other
messages are served.

**Patient user.** In the code the menu items "Connect", "Disconnect" and the
profile menu stay usable during an attempt and a dialog. With
`PatientUser = FALSE` the user does anything at any time; with `TRUE` the user
gives a command only when nothing is under way (`Settled`). The properties that
need patience are in a section of their own in `ServerConnectionProperties`.
Four hazards cannot occur to a patient user, and the properties of
`connection_patient` say nothing about them: a timer that a second connect
overwrites, switches faster than threads register, what a stopped client posted
late, and an autoreconnect timer that survives a switch. The first is in
`connection_impatient`; the theorem `TalksToCurrentProfileAlways` is about the
second for any user; what the others do is in section 8.

### Runs

| Run | Instance | Shows |
|---|---|---|
| `connection_impatient` | 1 client, 1 locked server, 2 nested connects, 3 dialogs, 1 server failure; any command at any time; 2.1M states | a connection without a connect in progress always has its timer; "Connected" is never the last word without a timer; `mDisableAutoreconnectOnce` is never left over |
| `connection_patient` | 3 clients, 2 profiles (one locked), saved passwords right, wrong and none, 1 failure; 495k states | types, one client at a time, the client belongs to the profile, no forgotten password question, toolbar follows client, truthful reasons, `ConnectionLifecycle` implemented |
| `connection_reconnect` | the same with 2 failures, no `disconnect:`, fairness; 43k states | the application ends up connected; stopped threads end |

Two clients suffice for a switch; the third lets a switch follow a switch. Two
nested connects show every interaction of a stack (a third repeats the second).
Each question may open a dialog during another, and three are as many as two
nested connects and one more after an answer ask for. `MaxRequests` and
`MaxQueue` only stop a sender for a while, they lose nothing.

### Fairness

`WF(MainStep)`, `WF(ClientStep(c))`: run loops turn. `WF(AutoreconnectTimer-
Triggered)` apart, because a timer of the main run loop fires whatever is
queued. `WF(AnswerStep)`: the user answers a dialog in the end; a modal dialog
that nobody answers stops everything. Nothing is assumed of commands or of
servers: `Reconnects` has "the servers stay up in the end" as its premise.
In `connection_reconnect` all profiles have autoreconnect and the user never
disconnects, as otherwise the application rightly stays disconnected.

### Proofs (`ServerConnection_proofs`)

For any sets of clients and profiles and any bounds:

- `TypeCorrect`. The invariant is inductive as it stands.
- `TalksToCurrentProfileAlways`. `TalksToCurrentProfile` alone is not
  inductive: `SetMusicClient` makes a new client current, which must not have
  been told of another profile before. `FreshClients` says that a client that
  has not registered has no messages, calls or host, and `RegisteredClient`
  that the current client is not such a one; `ProfileInv` is the conjunction.
- `AnnouncedMeansPolledAlways`, inductive with the types.
- `ConnectionIsMonitoredAlways`, from `MonitorInv`, under `OldServers = {}`: a
  connected client has its timer unless its innermost call is busy with the
  password; a call that fails or still asks finds what those nested in it left.
  The assumption is needed: see "observations" in section 8. What was announced
  last is not part of the property, since it may be the failure of an outer
  call (section 8).

### Proofs for a patient user (`ConnectionLifecycle_proofs`)

From `PatientUser` and `OldServers = {}`, for any clients, profiles, saved
passwords and bounds:

- `LifecycleImplemented`: the refinement. What must be excluded is a second
  attempt beside the first. `OneCause` says that there is one thing in the
  program that may lead to an attempt or stands for its result: the
  autoreconnect timer, a thread that starts, a connect message, a call of
  `connectToServerWithProfile:`, an announced connection, or a "Disconnected"
  not yet handled. Each step turns one into the next, and the user adds one only
  when there is none. The exception is a connection that is lost while it is
  being closed, which announces two "Disconnected":
  `mDisableAutoreconnectOnce` pays for the second.
- `OneClientAtATimeAlways` from the same invariant.
- `ToolbarFollowsClientAlways`, with `ToolbarWillFollow`: the last notification
  of the current client in the queue, or the toolbar if there is none, is what
  that client announced last.
- `PasswordWaitIsServedAlways`, `LostMeansLostAlways` and
  `CanceledMeansCanceledAlways`, with `WaitInv`: a waiting call has its question
  under way, its dialog open, its answer coming or taken, and a connection that
  is announced was not closed by Theremin.

From `AutoReconnect = Profiles`, for any user:

- `DisableOnceIsPendingAlways`: while `mDisableAutoreconnectOnce` is set, a
  disconnect message or a "Disconnected" is on its way, inductive with the
  types. Of a profile without autoreconnect "Disconnected" does
  not clear it, which is why the assumption is needed.

## 4. `LibraryImport`

| Model | Code |
|---|---|
| `view` | whether `LibraryController` enables its window; "stale": its rows are no longer in the tables |
| `client[p]` | the client of the profile and its libmpd: `link`, the cached stats, `updatingDb`, a pending idle event, waiting `startFetchDatabase` messages, the songs of the fetch in progress |
| `mImporterThread` | the import thread with its data and the step of `startThread:` it is at; `library` and `file` are the profiles its data source and its backup file belong to, both read from `currentProfile` when the thread gets there |
| `mQueued` | `mQueuedSongs`, `mQueuedDatabaseIdentifier` |
| `db[p]`, `backup[p]` | the SQLite file and the backup file of the profile |
| `server[p]` | the server's database and its update time |
| `marks` | history: what the user decided of each song, and when |
| `spent` | how often each bounded event (`Limits`) has happened |

`ClientStep`, `MainStep`, `ImportStep` are the three kinds of threads, one
action per message, notification or step of `startThread:`; `FaultStep` has the
failures: a lost connection, a list that breaks off, an insert that fails, a
backup that cannot be written (logged, and the import goes on), a quit or crash.
A SQLite transaction is one step, as each `SQLController` has a connection of
its own; a quit keeps what was committed. `startFetchDatabase` is two steps, as
the songs and the identifier are read one after the other. The identifier that
an unconnected client answers is an error code, `NotConnected`. What starts a
fetch is `needsImport` after a connect, and an update that the client notices;
the first question for the statistics of a connection posts nothing (section 8).

### Runs

| Run | Instance | Shows |
|---|---|---|
| `import_quit` | 2 songs (symmetric), 1 update, 2 decisions, 1 backup that cannot be written, 2 quits; 99k states | types; marks of compilations survive |
| `import_switch` | 2 profiles, 1 song, 1 decision, 1 switch, 1 failing insert, 1 backup that cannot be written; 60k states | the backup outlives the clear whatever profile is selected |
| `import_failure` | 1 song, 2 updates, 1 failure, fairness; 463k states | the identifier is truthful; the library converges; the window comes back |
| `import_empty_library`, `import_broken_fetch` (violations) | 1 song, 1 update and 1 quit, or 1 failure | section 8 |

Two quits are needed to interrupt the import that recovers from an interrupted
one; two songs to have one that stays and one that goes in the same update; two
decisions to take a mark back; two updates to have one noticed while the list of
the other is fetched or imported. `import_quit` allows no connection to fail,
because a short list loses the marks of the songs that are missing in it.

What the properties leave out is what the code does lose, as TLC shows when the
exception is removed: `CompilationsSurvive` the marks that were in a backup
which could not be written, `BackupOutlivesClear` an import without such a
backup, `IdentifierIsTruthful` a second failure, and `Converges` a fetch that
broke off and left the identifier of no server (section 8).

### Fairness

`WF` of each thread, and of an update that was started ending. A server never
updates for ever, and no fairness is assumed of the user, of failures or of
quits, all of which are bounded by `Limits`: `Converges` and `WindowComesBack`
say what holds after the last of them.

### Proofs (`LibraryImport_proofs`)

For any profiles, songs and limits, from `IInv`:

- `TypeCorrect` and `BackupOutlivesClearAlways`.

Neither is inductive. Restoring reads `backup[BackupFile]`, so that the type of
`db` depends on the file being there, and on `BackupFile` being a profile or
none: `BackupStaysForRestore` and `ImportKnowsItsFiles`. That the file stays
needs that only one import runs and only it removes its file.
`UnsavedMeansFailed` says that an import is past its backup without a file only
if writing one has failed. `UnregisteredIsIdle` keeps clients that never
registered from having fetched anything.

- `CompilationsSurviveAlways`, from `MarksInv`, if `Limits` allows no failing
  list, no failing write and no switch of profiles (`NoFaults`); quits, updates,
  decisions and backups that cannot be written are not limited.

Each of the three does lose marks, so that the assumption cannot be dropped: a
failing list is taken for a library without the songs, an insertion that is
rolled back is followed by the removal of the backup, and a switch has the
thread change files on its way (section 8). What a backup that could not be
written loses, the property itself leaves out (`BackUpCompilationsFails` forgets
the decisions concerned in `marks`). The property says "off or on as decided" of
tables at rest; the invariant must say it in the middle of an import, where the
marks are in the backup (`OnIsMarked`, `OffIsUnmarked`), that the songs they
belong to are in the tables again before the backup is restored
(`OnIsRestored`), and that an import without backup has no mark to lose
(`UnsavedIsForgotten`). That in turn needs `ListsKeepSongs`: a song that has not
left the server is in every list that comes after the first it is in, among the
tables, the import that runs, the one that waits, the queue of the main thread,
the list being fetched and the server, in this order. `OnlyDefault` and
`QuietUntilConnected` say what is left of profiles and clients without faults.

- `IdentifierIsTruthfulThroughCrashes`, from `AllRight`, if no list and no
  insertion fails and no other profile is selected (`NoFaults`), and no import
  is quit that could not write its backup (`NoUnsavedQuit`); the program may
  otherwise be quit between any two steps.

libmpd reads the time of the server's last update after the list, and only if it
does not know it. Without failures it knows the time before, as a fetch is asked
for only when the identifier was compared or an update was noticed
(`RefetchComing`), so that a list is never older than its identifier: every list
under way is right (`AllRight`), and the tables are wrong only from the clear
on, while the backup file is there, which `Settled` excludes. The induction also
needs that no identifier is of a time to come (`TimesArePast`), and that the end
of an import is announced once (`EndsOnce`), as it is what starts the next.

The hypotheses are needed. An insertion that is rolled back after the clear
leaves empty tables with the identifier of full ones, and its backup is removed;
a quit between clear and insert leaves them too, and without a backup file no
trace that the import was interrupted. For one failure of the connection the
property is model-checked (`import_failure`).

## 5. `PlayList`

| Model | Code |
|---|---|
| `mPlayList`, `mFilteredPlaylist`, `mCurrentPlayingSongPosition`, `mScheduledSelect`, `mShownAndSelected`, `mDisallowPlaylistUpdates` | the members of `PlayListController` of these names (some shortened); nil and -1 are `None`, and positions count from 1 |
| `search`, `selected` | the contents of the search field and the selected rows of the table |
| `shuffle` | the locals of `randomizePlaylist:`: its copy of the list and the loop's index |
| `requests`, `mainQueue` | the messages to the client and the notifications it posted, as in `ServerConnection`, with one client |
| `client` | libmpd's cached state (`playlist`, `song`, `position`, the cached `current` song), the fields of the status that its callback is handling (`changed`, `playing`), `mForcedStatusUpdates`, and the connection |
| `server` | MPD: its list with its version, its current song, whether it plays |
| `chosen`, `expects`, `raced`, `spent` | history: songs ever chosen to be deleted, why the current song should be selected, whether another client moved songs during a callback, how often each bounded event happened |

`ServeStep` is the client's run loop with one action per message, `TimerStep`
its status timer, `MainStep` the notifications on the main thread and the steps
of `randomizePlaylist:`, `UserStep` the commands of the user, `ServerStep`
other clients of the server and the player. A poll is two steps, because
`callbackStatusChanged:` asks the server for the current song after the status
was read. A command that ends in `mpd_status_update` polls before the next
message is served (`client.at = "update"`). The main thread's `isConnected` is
synchronous and waits for `Drained`.

Each song of a list is told apart by its identifier, which MPD never uses
twice; `server.used` keeps a song that was added from being added again.

### Runs

| Run | Instance | Shows |
|---|---|---|
| `playlist` | 2 songs at the start, 1 more to add, one search that matches 2 of the 3; any two of: 2 commands, 1 selection, 1 search, 2 edits of other clients, 1 stop, 2 losses (`AnyTwo`); fairness; 281k states | types; list, search and marker follow the server; the current song is selected after the first connect; only chosen songs are removed; no list is kept without a connection; the table converges |
| `playlist_replace` (violation) | 1 command, no other event | section 8 |

Any two events, because what the properties relate is a pair: a command and the
edit, loss, search or command that overtakes it; polls, fetches, notifications
and the steps of randomize are not counted and interleave with both. Two songs
are enough to be swapped, moved and told apart, a third one to be added by a
drop or a replacement; a search that matches the second song and the one to
come shows a row at another number than its position.

### Fairness

`WF` of `ServeStep`, `TimerStep` and `MainStep`: the run loops of both threads
turn, and the repeating status timer fires. A poll that finds nothing is a
stuttering step, so that `WF(TimerStep)` says no more than that a difference is
found in the end. Nothing is assumed of the user, of reconnects
(`ServerConnection` is about them), or of the server, whose events are bounded.
`PlaylistConverges` has a connection that stays, or stays away, as its premise.

### Proofs (`PlayList_proofs`)

For any songs, searches, starting lists and limits:

- `TypeCorrect`, from `Typed`: that the selected rows are rows of the table
  must be part of the invariant, as `SongShown` looks up a song for each.
- `FilterFollowsAlways`, inductive with the types.
- `RemovesOnlyChosenAlways`, an action property: `RequestsChosen` says that
  every deletion under way names chosen songs only, and a command list removes
  those it names, or fewer.
- `ListFollowsAlways`. `ListFollows` is far from inductive. `VersionsKnown`:
  the version that libmpd knows is one that the server has had.
  `LastListIsCurrent`: if that version is the server's, and no change is
  underway (no callback that will post "playlist changed", no such notification,
  no fetch asked for, no randomize that will ask for one), then the last list
  fetched, whether still in the queue or already shown, is the server's.
- `NoListWhenLostAlways`, from `EmptyListsWhenDown`: lists in the queue after
  the last "Disconnected" are empty, and so is the one kept if no loss is
  still to be handled. It is about the list: the rows of a search stay in view
  (section 8), and the property says of them that no song can be selected for a
  deletion through them.
- `MarkerFollowsAlways`, from `MarkerInv`. The position that is posted is not
  the one of the status but that of the song libmpd has cached, which is the
  right one only if the cache is not of an older list: `CachedIsRight`, for the
  version of the list that libmpd knows. A callback that nobody raced has that
  version, and a song that is in the list (`CallbackIsFresh`). Then the last
  position, in the queue or shown, is that of the song libmpd saw last, unless
  the callback that will post it is still running (`LastPositionIsKnown`).
- `SelectedAfterConnectAlways`, from `UndisturbedIsSelected`: as long as nothing
  else has happened since the connect, every list and position on its way or
  shown is the server's, and the row counts as shown exactly when both have
  arrived. It uses `MarkerInv` for the positions.

## 6. The parts of the window

`MCWindows` composes seven modules. They share no state, so that their
interleavings would show nothing: the variable `part` chooses one at the start,
whose steps are then taken. One run checks all of them. None states fairness:
what they promise is safety, stated for the moment when nothing is on its way.

| Module | State against the code | Actions against the code |
|---|---|---|
| `CompilationDetector` | `files`: the songs, in the order of their files | `DataSourceResults`, `CompilationSongsOfAlbumSongs` are the two methods of the class; `ImportFile` builds every library |
| `LibraryBrowser` | `items`, `selected` of each column: `mItems` and the table; `search`; `library`: the tables, the marks and the number of the import, as every import gives new identifiers; `import` | `Select`, `InitiateSearch`, `SetToggleIsPartOfCompilation`, `DetectCompilations`, `ClientConnected`, `ClientDisconnected`, `ProfileSwitched`, `LibraryBeganImporting`, `LibraryFinishedImporting`; a *view* is the columns with `mSelectionData` in the middle of a reload: `ReloadGenre`, ..., `ReloadSong` are `reloadData`, and `ArtistFollows`, `AlbumFollows`, `SongFollows` what the columns to the right do when a table that has lost its selected rows reports it (`tableViewSelectionDidChange:`), in the middle of that reload; `RequiredFilters`, `ArtistFilter`, ... are the methods that build the filters, `StringFilter`, `IdFilter`, `BooleanFilter` what their SQL selects |
| `PlayListFiles` | `mPlaylists`, `mPathOfNamedPlaylistBeingFetched`, `mFetchedNamedPlaylist`, the table, the drawer, the sheet; `clientRequests` and `posted` as in `ServerConnection`; `stored` and `version`: the server | the buttons, the drop (`ProvideData`, `DataProvided`), the notifications (`FoundPlaylists`, `FetchedNamedPlaylist`, `Connected`, `Disconnected`), the messages (`List`, `Load`, `Save`, `Delete`, `Fetch`), other clients; `SwitchProfile` and `SetMusicClient`: between them, and when the program starts, there is no client and a message does nothing (`Ask`) |
| `PlayerControls` | `mCurrentState`, the slider, `mValueBeforeMute`; `current`: libmpd's copy of the status | `TogglePlayPause`, `Stop`, `DragSlider`, `ReleaseSlider`, `ToggleMute`, `HandleNotice`, `ServeCommand`, `StatusUpdate` |
| `SeekScheduler` | `mLastSetTime`, `mSeekTimer`, `resets`: timers of `resetLastSetTime`; `cachedSong` of libmpd | `SeekSliderChanged`, `ScheduleSeek`, `SkipSeek`, `Seek`, `ResetLastSetTime`, `PollSong` |
| `RemoteControl` | the members of `MultiClickRemoteBehavior`, `_held` and the delayed steps of `AppleRemoteController`; a time stamp is the number of the press | `Press`, `Release`, `SendSimulatedHoldEvent`, `RepeatStep`, `LinkChanges` |
| `AlbumNavigation` | `albums` of the playlist, `mCurrentPlayingSongPosition` | `NextAlbum`, `PrevAlbum`, `PositionChanges`, `FetchedPlaylist` |

### Runs

`windows` (485k states) checks, of each part:

| Property | What it says | Bounds, and why they are enough |
|---|---|---|
| `DetectorFindsCompilations` | what is marked are the songs of an album by more than two artists in one directory, if no other directory comes in between, and nothing else | every library of up to 5 files: three artists, the second directory inside the first, and two songs to split it |
| `ColumnsFollowSelection` | each column shows what the search and the selections to its left leave, whatever reloaded it last | the library of an earlier start with two songs and any marks, or none; one import of 4 songs or of 2, connected or not; two searches (the second of which finds a song by its path); one row selected, two among artists and songs, where the compilation entry or marks mix with others |
| `MarksOnlyChosen`, `SelectionSurvives` | only songs of the selected rows are marked; a selection in another column keeps what is selected and still there, and a search does so for a column with nothing selected to its left | the same |
| `TableComesBack`, `ListFollowsOwnChanges`, `DragCarriesPlaylist` | a disabled table has a list coming, or the refresh found no client and connecting will ask again (drawer open, nothing listed); what is listed follows the user's own changes; a drop gets the songs of the playlist that was dragged | 2 names, each written once more after the start, 1 message and 1 notification waiting: an answer that is late, for the other name or of the older version, waits while the next drop asks; a refresh waits behind the answer of the one before |
| `ControlsFollowPlayer` | play button and slider show the player when nothing is on its way | volumes 0 and 1, 2 commands, 1 notice: a command of the user and one of another client cross |
| `SeekArrives` | the player ends where the user wanted it last | 2 times, 2 songs, 2 messages, 2 reset timers: the second timer belongs to the first seek |
| `HoldOnlyWhileDown`, `EveryPressActsOnce` | volume steps only while a key is down, unless its release was missed; a press is one click or one hold | 2 keys, 3 presses: two to leave a timer behind, a third that it could hit |
| `NextUndoesPrevious` | previous album after next album comes back to the album | lists of up to 5 songs of two albums or none, which wrap round the end |

`playlist_delete` (violation, 3 names) is in section 8.

### Proofs

Each from an invariant of its module, for any values of its constants:

- `SeeksArrive` (`Controls_proofs`), from `SeekInv`: the last message, or the
  timer if there is none, has the time wanted, and `mLastSetTime` is the time of
  the last reset timer: earlier timers can only forget it early.
- `HoldsEnd`, `PressesActOnce` (`Controls_proofs`): a hold without a key
  down is one whose release was missed (`HoldsAreAccountedFor`), and the click
  comes last, unless the press is known to be a hold (`EffectsAreKnown`).
- `ControlsFollow` (`Controls_proofs`): the last notice of a kind, or what
  is shown if there is none, is libmpd's copy; and the slider shows the volume
  unless it is hidden, on its way to the server, or served and not yet polled.
- `AlbumsComeBack` (`Controls_proofs`), for lists of any length: every range
  of the list is of one album or has a first and a last song of another
  (`OthersOfRange`, by the well-founded order of the numbers), so that where an
  album begins only its songs follow (`BeginningIsOfAlbum`), and next album goes
  right behind them or round the end.
- `PlayListFiles_proofs`: `TableIsEnabledAgain` (inductive with `LossesAreOver`:
  with a connection, each loss that is still to be handled is followed by the
  "Connected" that refreshes again); `DragsCarryTheirPlaylist` from `DragInv`:
  every answer in the queue has the songs of the playlist it names, none older
  than the drop that waits for it (`AnswersAreFresh`); `ListFollows` from
  `ListInv`: a list is coming, or the last list, in the queue or shown, is what
  the server stores, or an answer was lost.
- `DetectorFinds` (`LibraryBrowser_proofs`), for any number of files. The loop
  of the code is a recursive function over the sets of its first songs, which
  exists and has its invariant (`SeenInv`) because a smallest set of songs for
  which that failed would have a last song (`SmallestSubset`, `LoopExists`,
  `LoopKeeps`): the directory being collected is that of the last song, all that
  was found is of more than two artists of one directory, and each directory in
  one piece is the one being collected or has been dealt with.
- `ColumnsFollow` (`LibraryBrowser_proofs`), from `Current`: enabled columns
  have, outside an import, the rows that a reload would give them (`Fresh`);
  what a column changes, the reports of its table included, is itself and the
  columns to its right, which reload after it (`Touches`, `AllReload`), and the
  filters of a column let through what it has to show (`FilteredIsShown`).
- `MarksAreOfChosen`, from `GoodView`: rows of the present import are of songs
  that are in the library, and of different files. `SelectionsSurvive` has two
  halves. After a selection in another column (`SurvivesSelect`) each column to
  the right is saved, reloaded, and reloaded again by the reports of those in
  between: it keeps its selection through all of them because the songs shown
  are of the albums selected (`Matched`), also while rows of before an import
  are shown. After a search (`SurvivesSearch`) a column with nothing selected to
  its left is reloaded by no report (`QuietReload`) before it uses what was
  saved. Both assume that catalogs are finite sets of
  different files and that the entry of the compilations is no row of a song.
- `PartsBehave` (`MCWindows_proofs`): a behaviour of the composition is one of
  each of its parts, so that all this holds of it (`PartsKeepPromises`), and its
  types are right (`WindowTypesCorrect`).

## 7. What is only model-checked

Liveness (`Reconnects`, `StoppedThreadLeaves`, `Converges`, `WindowComesBack`,
`PlaylistConverges`), which is out of the prover's reach under fairness. The
violations are counterexamples of TLC.

## 8. Where the code does not do what it says

Four runs show it, each with the line that says otherwise in `PROJECT.json`:

- `import_empty_library`: quitting between clear and insert leaves empty tables
  with the identifier of the full ones; after the restart the window shows them.
- `import_broken_fetch`: a connection that fails while the songs are listed, and
  is back before they are imported, leaves an empty library in an enabled
  window, and nothing fetches the songs until the next connect.
- `playlist_replace`: clearing the playlist polls before the new songs are
  added; the position -1 that it posts uses up the selection that was scheduled
  for the new current song.
- `playlist_delete`: the question names the playlist that is selected when it is
  asked, the answer deletes the one in the selected row
  (`PlayListFilesController.m:220`); a list that comes while the sheet is open,
  like that of the deletion before, moves another one there.

Observations that the models contain and no run is spent on:

- A connect that failed asks the profile for the name of the server before it
  posts "Disconnected" (`MpdMusicServerClient.m:300`). A second connect served
  there may succeed and post "Connected": the last word on a live and polled
  connection is then "Disconnected". The connect that autoreconnect sends for it
  is ignored, as the client is connected, and the toolbar stays disabled until
  the next loss.
- Notifications are observed from any object: after a quick switch the late
  "Connected" or "Disconnected" of the client that was stopped changes the
  toolbar of the new one (`MainPlayerToolbarController.m:95`). `ToolbarFollows-
  Client` is stated for a patient user.
- A pending autoreconnect timer survives a switch of profiles and an explicit
  disconnect (`WindowController.m:436`): it connects the new client, in the middle
  of its first attempt, or a client that the user has disconnected.
- A disconnect served while the client waits for a password, and then the
  password: libmpd allows every command on an unconnected `MpdObj`, so that
  "Connected" is announced for a closed connection, which the timer then
  reports as lost (`MpdMusicServerClient.m:289`, `:101`). `LostMeansLost` is
  stated for a patient user.
- An attempt that was canceled reports "canceled" only to a patient user: the
  answer of one dialog can be taken by the wait of another call
  (`MpdMusicServerClient.m:282`).
- Selecting a profile before the new thread has registered leaves two clients
  that nobody stops (`WindowController.m:90`).
- On servers older than 0.12 `mpd_connect` fails but stays connected
  (`libmpd.c:637`), so that a connection is left without timer:
  `ConnectionIsMonitored` fails with `OldServers` not empty.
- A decision on a compilation made while an import holds its backup may be lost
  (`LibraryImportController.m:168`); `CompilationsSurvive` is stated for those
  made before.
- On a server without "idle", an update that begins and ends between two polls
  is never noticed: the client compares the "updating" flag of two polls
  (`libmpd-status.c:247`; CHANGELOG:170 suspects MPD). `Converges` is checked
  for servers with "idle".
- The answer of `insertSongs:withDatabaseIdentifier:` is ignored
  (`LibraryImportController.m:181`); the next import repairs it.
- An import that starts after a switch of profiles may write the songs of one
  server into the library of another (`LibraryImportController.m:160`), until
  the next import.
- The first question for the statistics of a connection always finds the
  database "updated", and is meant to tell (`libmpd-status.c:713`); but the test
  is `(mi->the_status_changed_callback != NULL) & what_changed_here`, and 1 & 8
  is 0, so that nothing is posted. A connect causes an import only if the
  identifiers differ (`needsImport`).
- Marks of compilations are lost by a fetch on a connection that breaks: the
  songs that are missing in the short list are gone from the tables when the
  backup is restored (`LibraryImportController.m:183`), and the next import
  brings them back unmarked. No document promises otherwise.
- An import whose backup cannot be written is continued
  (`LibraryImportController.m:170`), clears the library, and restores nothing:
  all marks are gone. `CompilationsSurvive` and `BackupOutlivesClear` leave that
  out.
- Two connections lost at the wrong moments make the identifier untruthful: a
  list from before an update gets the identifier from after it, and the
  "database updated" that would repair it is lost with the second.
  `IdentifierIsTruthful` is stated for fewer than two.
- Randomize schedules a selection as a replacement does (its comment says "this
  can still race", `PlayListController.m:699`): a position already in the queue
  uses it up.
- The first list after a reconnect may not select the current song: an empty
  list fetched after a loss meets the marker of before, for which
  `currentSongRow` answers a row that the list does not have
  (`PlayListController.m:234`), and counts as shown. `SelectedAfterConnect` is
  stated for the first connect.
- A player that stops loses its marker and, when it plays the same song again,
  does not get it back, as the position has not changed. `MarkerFollows` is
  stated for players that never stop.
- `callbackStatusChanged:` asks for the current song by the identifier of the
  status, so that a song moved away and back in between leaves a wrong marker
  (`raced` in the model).
- Dragging the first row above itself sends a move to -1
  (`PlayListController.m:386`); a second drop before the playlist is fetched
  again moves songs from positions computed with the old length
  (`PlayListController.m:398`).
- A deletion of several songs stops at the first one that is gone already,
  since libmpd sends a command list.
- While a search is shown, its rows stay after a disconnect until the next list.
- A quit during an import after a switch of profiles, or after a failed write,
  loses marks too.
- A search with an artist and an album selected loses the album:
  `initiateSearch` saves all selections and reloads each column once, but the
  table of the artists, which has lost its rows, reports it
  (`LibrarySubControllerBase.m:319-327`), and the columns to its right save,
  reload and use up `mSelectionData` (line 266) before their turn comes, when
  row 0 is selected (line 262). `SelectionSurvives` promises a search only
  columns with nothing selected to their left.
- CHANGELOG:87 has it that the selections of artist and album are kept when the
  library changes. `libraryFinishedImporting` reloads columns whose rows have
  new identifiers, so that none is; `SelectionSurvives` is about searches and
  selections in other columns. A selection of the compilation entry alone is
  never restored: no row with an identifier is found and the row "All" selected
  (`LibrarySubControllerBase.m:200`).
- The detector means to sort by directory (`CompilationDetector.m:42`) and sorts
  by file: a subdirectory with songs of the same album splits its directory.
  `DetectorFindsCompilations` excepts such directories.
- A list of stored playlists that is asked for while unconnected is empty and
  counts as fresh, so that opening the drawer after a reconnect shows it for up
  to five minutes (`PlayListFilesController.m:111`, `:142`).
- The drawer of the stored playlists, when it was left open, is opened and
  refreshed in `awakeFromNib`, before there is a client
  (`WindowController.m:224`, `:228`; `PlayListFilesController.m:87`): the table
  is disabled, and comes back when the client connects, which asks again. After
  a switch a refresh finds no client either until the new one has registered. A
  refresh that found none, with the drawer closed at the connect and a list less
  than five minutes old when it is opened again, leaves the table disabled
  although there is a connection (`unasked` in `TableComesBack`).
- After a switch of profiles with the drawer closed the list of the old server
  stays and counts as fresh (`PlayListFilesController.m:111`), as a client that
  is stopped announces no loss (`unsure` in the model).
- `pausePlayback` toggles by the state libmpd saw last, which another client may
  have changed; `ControlsFollowPlayer` is about what is shown.
- A volume of another client that undoes the user's before the status is fetched
  is no change for libmpd, and leaves the slider wrong; so does one that comes
  while the mouse is down. Both are `hidden` in the model.
- libmpd seeks in the song whose position it saw last, which need not be the
  current one.
- A release of the remote that is missed because the application was not
  connected leaves a hold that goes on after the reconnect, and
  `lastEventSimulatedHold` set, which swallows the next click (`missed` and
  `heard` in the model).
- Previous album does nothing when the album before wraps round the end of the
  list, and neither command does anything from a song without album.

Observed while reading, outside the models:

- `increaseVolume:` and `decreaseVolume:` ask the volume slider for its
  `intValue` (`WindowController.m:647`, `:651`); a `PWVolumeSlider` is an
  `NSView` without such a method, so that the menu items and the volume keys of
  the remote raise an exception and send nothing. It also ends the repetition of
  a held key, whose next step is scheduled afterwards: `RemoteControl` allows a
  step to be repeated or not, so that what is proved of it holds for a slider
  with the method too.
- The handlers for sleep and wake never run: they observe notifications of
  `NSWorkspace` at the default notification center
  (`WindowController.m:196`), while NSWorkspace posts to its own. If they ran,
  `systemDidWake:` would call `play`, which no client implements (`:364`).
  CHANGELOG:143 promises the feature.
- `foundPlaylists:` invalidates only the last progress timer; a second refresh
  before the answer leaves the first one running.
- `mDraggingSupported` is set and never read: a drag from a server without
  `listplaylistinfo` waits and delivers an empty list.
- The delete button stays enabled while the table is disabled.
- The upgrade of an old library closes the database with a statement that is not
  finalized, which SQLite refuses (`SQLController.m:145`), and removes its file.
- `SQLITE_BUSY` is answered by trying again without end (`SQLiteQuery.m:206`).

## 9. What is not modelled

The components listed in `PROJECT.json` as `not_modelled`, each with its
reason: display only (views, cover art, Growl, song information), handlers that
never run (sleep and wake), third-party code (`InterThreadMessaging`, of which
the models use that messages are performed once and in order), or sequential
code that keeps a value or two (profiles, output devices, updates of the
server's database).

Of the modelled components: wording of errors, the keychain's own failures, file
names, the upgrade of older database files, the life cycle of SQL statements,
and memory management (retain and release, autorelease pools).

- Playlist: the panel of a search that takes longer than half a second (a
  nested modal session, in which a new list makes the search add rows twice),
  drags of several rows, adding songs without a drag, songs of other albums.
- Library browser: dragging out of a column, hidden columns, live search, the
  SqueezeCenter as data source.
- Library import: that the server's songs are listed in a callback per song (a
  failure leaves any of them out, as modelled), and that each step of the import
  thread posts its progress.
- Playlist files: the progress indicator; the two questions `rootDirectory` and
  `canGetPlaylistInfo`, which a refresh and a connect ask synchronously, are
  part of their step; a fetch of a stored playlist that breaks half way, which
  posts the right name with a part of its songs.
- Player controls: next and previous, the times, the scroll wheel, and the
  volume steps of the menu, which send nothing (section 8).
- Remote control: the keys other than those of the volume, whose press is passed
  on at once; click counting, which is switched off; the HID code below.

Most of the repository's lines are vendored: `sqlite3.c` and `sqlite3.h` alone
are 92,000 of 109,000, and of libmpd only what decides the behaviour of
Theremin is translated. The share of lines that the models stand for is low for
that reason.
