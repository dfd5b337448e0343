--------------------------- MODULE LibraryBrowser ---------------------------
(***************************************************************************)
(* The library window: four columns (genre, artist, album, song), each     *)
(* filtered by the search field and by what is selected in the columns to  *)
(* its left, over a library that an import replaces on another thread.     *)
(*                                                                         *)
(* The songs of a compilation are shown under one entry of the artists.    *)
(* Rows carry SQL identifiers, which are new after every import and never  *)
(* used again (AUTOINCREMENT); selections are remembered by them.          *)
(*                                                                         *)
(* A reload takes a table's rows away before it asks for new ones.  If     *)
(* some were selected, the table reports that at once, and the columns to  *)
(* its right are saved and reloaded in the middle of it, and once more by  *)
(* what has started it: a selection that was saved for them before is used *)
(* up by then.                                                             *)
(*                                                                         *)
(* The row "All" is selected alone.  A SQL library is assumed: of the      *)
(* SqueezeCenter, multiple selection and compilations are not supported.   *)
(* What an import writes and when it posts is the subject of LibraryImport. *)
(***************************************************************************)
EXTENDS CompilationDetector

CONSTANTS
  Catalogs,     \* the sets of songs that an import may find; a song is a
                \* record of file, genre, artist, album, dir and title
  Matching,     \* Matching[token]: the texts that are LIKE %token%
  LibrarySearches, \* what the user searches for
  MaxSelected,  \* how many rows the user selects in each column
  MaxGen,       \* how often the library is imported
  Compilation,  \* the entry of the compilations among the artists
  None

\* A library has a song per file; the entry of the compilations has an
\* identifier that the database gives to nothing.
ASSUME BrowserAssumption ==
  /\ MaxGen \in Nat
  /\ \A songs \in Catalogs :
       /\ IsFiniteSet(songs)
       /\ \A s \in songs : s.file \in Int
       /\ \A s, t \in songs : s.file = t.file => s = t
       /\ \A s \in songs, gen \in 0..MaxGen :
            /\ \A c \in {"genre", "artist", "album"} : Compilation # <<gen, s[c]>>
            /\ \A marked \in BOOLEAN :
                 Compilation # [gen |-> gen, song |-> s, isCompilation |-> marked]
  /\ \A for \in LibrarySearches : for.fields \subseteq {"album", "title", "artist"}
  /\ \A done \in SUBSET {"written", "cleared"} : done # None

VARIABLES
  library,   \* the database: its songs, those marked, and which import it is
  items,     \* mItems of each column
  selected,  \* the rows selected in each column; none is the row "All"
  search,    \* mSearchString and the state of the search field
  enabled,   \* the tables are
  connected,
  import     \* None, or what is done of an import: "written", "cleared"

browserVars == <<library, items, selected, search, enabled, connected, import>>

ColumnNames == {"genre", "artist", "album", "song"}
LeftOf(c) ==
  CASE c = "genre" -> {}
    [] c = "artist" -> {"genre"}
    [] c = "album" -> {"genre", "artist"}
    [] c = "song" -> {"genre", "artist", "album"}
NoRows == [c \in ColumnNames |-> {}]

-----------------------------------------------------------------------------
(* Filters: each is the set of songs that it lets through.                 *)

\* A song without a title is searched by its file.
Text(song, field) ==
  IF field = "title" /\ song.title = None THEN song.path ELSE song[field]

StringFilter(lib, field, tokens) ==
  {s \in lib.songs : \A t \in tokens : Text(s, field) \in Matching[t]}

IdFilter(lib, c, rows) == {s \in lib.songs : <<lib.gen, s[c]>> \in rows}

BooleanFilter(lib, marked) == {s \in lib.songs : (s \in lib.compilation) = marked}

\* None if there is nothing to search for, as for a string of blanks
MusicSearchFilters(lib, for) ==
  IF for.tokens = {} THEN {}
  ELSE {UNION {StringFilter(lib, field, for.tokens) :
                 field \in {"album", "title", "artist"} \cap for.fields}}

\* An artist's songs on compilations stay with the artist: mutant
ArtistFilterUnmarked(lib, rows) ==
  IF Compilation \in rows THEN BooleanFilter(lib, TRUE) \cup IdFilter(lib, "artist", rows)
  ELSE IdFilter(lib, "artist", rows)

\* The group of filters for the selected artists
ArtistFilter(lib, rows) ==
  LET only == BooleanFilter(lib, Compilation \in rows) IN
  IF rows = {Compilation} THEN only
  ELSE IF Compilation \in rows THEN only \cup IdFilter(lib, "artist", rows)
  ELSE only \cap IdFilter(lib, "artist", rows)

RequiredFilters(lib, c, rows) ==
  IF rows = {} THEN {}
  ELSE {IF c = "artist" THEN ArtistFilter(lib, rows) ELSE IdFilter(lib, c, rows)}

ArtistsFromQuery(lib, songs) ==
  {<<lib.gen, s.artist>> : s \in songs \ lib.compilation}
    \cup {Compilation : s \in songs \cap lib.compilation}

\* The rows of a column, of the songs that all filters let through
RequestRows(lib, c, filters) ==
  LET songs == {s \in lib.songs : \A f \in filters : s \in f} IN
  CASE c = "artist" -> ArtistsFromQuery(lib, songs)
    [] c = "song" -> {[gen |-> lib.gen, song |-> s,
                       isCompilation |-> s \in lib.compilation] : s \in songs}
    [] OTHER -> {<<lib.gen, s[c]>> : s \in songs}

-----------------------------------------------------------------------------
(* Rows and selections.                                                    *)

FirstRow(c, rows) ==
  IF c = "song" THEN {r \in rows : \A q \in rows : r.song.file <= q.song.file}
  ELSE {}

Identifier(c, row) == IF c = "song" THEN <<row.gen, row.song.file>> ELSE row

\* Nothing saved, as for the row "All", loads as a selection of no rows does.
NothingSaved == [indexes |-> {}, compilation |-> FALSE]

SaveSelectionInformation(c, rows) ==
  [indexes |-> {Identifier(c, r) : r \in rows \ {Compilation}},
   compilation |-> Compilation \in rows]

\* A selection of which one row is gone is given up: mutant
LoadWholeSelection(c, saved, rows) ==
  IF saved.indexes # {} /\ saved.indexes \subseteq {Identifier(c, r) : r \in rows}
  THEN {r \in rows : Identifier(c, r) \in saved.indexes}
  ELSE FirstRow(c, rows)

\* With the entry of the compilations alone, indexes is empty, and the first
\* row is selected after all.
LoadSelection(c, saved, rows) ==
  LET found == {r \in rows : IF r = Compilation THEN saved.compilation
                             ELSE Identifier(c, r) \in saved.indexes} IN
  IF saved.indexes = {} \/ found = {} THEN FirstRow(c, rows) ELSE found

\* What a reload works on: the columns, with mSelectionData of each, the library
\* and what is searched for
View(lib, for) ==
  [items |-> items, selected |-> selected, saved |-> [c \in ColumnNames |-> NothingSaved],
   library |-> lib, search |-> for]

Show(v) == \E shown \in {v} : items' = shown.items /\ selected' = shown.selected

\* What column c shows, by what is selected to its left
RowsOf(v, c) ==
  RequestRows(v.library, c, MusicSearchFilters(v.library, v.search) \cup
    UNION {RequiredFilters(v.library, d, v.selected[d]) : d \in LeftOf(c)})

SetItems(v, c, rows) == [v EXCEPT !.items[c] = rows]
SetSelection(v, c, rows) == [v EXCEPT !.selected[c] = rows]
SetSaved(v, c, info) == [v EXCEPT !.saved[c] = info]

SaveSelection(v, c) == SetSaved(v, c, SaveSelectionInformation(c, v.selected[c]))

Emptied(v, c) == SetSelection(SetItems(v, c, {}), c, {})

\* The table has lost its rows; after a report if there was a selection
UpdateLibraryDataSource(v, c, report) ==
  IF v.selected[c] = {} THEN Emptied(v, c) ELSE report

\* requestFilteredItems: and receivedResults:
RequestItems(v, c) ==
  LET rows == RowsOf(v, c) IN
  SetSaved(SetSelection(SetItems(v, c, rows), c, LoadSelection(c, v.saved[c], rows)),
           c, NothingSaved)

\* reloadData of each column, and what follows when the column to its left
\* reports a changed selection: each column from there on is saved and reloaded.
ReloadSong(v) == RequestItems(Emptied(v, "song"), "song")
SongFollows(v) == ReloadSong(SaveSelection(v, "song"))

ReloadAlbum(v) ==
  RequestItems(UpdateLibraryDataSource(v, "album", SongFollows(Emptied(v, "album"))), "album")
AlbumFollows(v) == SongFollows(ReloadAlbum(SaveSelection(v, "album")))

ReloadArtist(v) ==
  RequestItems(UpdateLibraryDataSource(v, "artist", AlbumFollows(Emptied(v, "artist"))), "artist")
ArtistFollows(v) == AlbumFollows(ReloadArtist(SaveSelection(v, "artist")))

ReloadGenre(v) ==
  RequestItems(UpdateLibraryDataSource(v, "genre", ArtistFollows(Emptied(v, "genre"))), "genre")

ReloadColumns(v) == ReloadSong(ReloadAlbum(ReloadArtist(ReloadGenre(v))))

ReloadAll(lib) == Show(ReloadColumns(View(lib, search)))

ClearAndDisableViews ==
  /\ items' = NoRows
  /\ selected' = NoRows
  /\ enabled' = FALSE

\* The database is kept from one start of the program to the next.
BrowserInit ==
  /\ \E songs \in {{}} \cup Catalogs : \E marked \in SUBSET songs :
       library = [gen |-> 0, songs |-> songs, compilation |-> marked]
  /\ items = NoRows /\ selected = NoRows
  /\ search = [fields |-> {"album", "title", "artist"}, tokens |-> {}]
  /\ enabled = FALSE /\ connected = FALSE
  /\ import = None

-----------------------------------------------------------------------------
(* The user.                                                               *)

SelectionDidChange(v, c) ==
  CASE c = "genre" -> ArtistFollows(v)
    [] c = "artist" -> AlbumFollows(v)
    [] c = "album" -> SongFollows(v)
    [] c = "song" -> v

Select(c, rows) ==
  /\ enabled
  /\ rows # selected[c]
  /\ UNCHANGED <<library, search, enabled, connected, import>>
  /\ Show(SelectionDidChange(SetSelection(View(library, search), c, rows), c))

\* All selections are saved before the first reload.  The search field is not
\* disabled with the tables.
InitiateSearch(for) ==
  /\ search' = for
  /\ UNCHANGED <<library, enabled, connected, import>>
  /\ Show(ReloadColumns([View(library, for) EXCEPT
       !.saved = [c \in ColumnNames |-> SaveSelectionInformation(c, selected[c])]]))

\* The check mark of the menu item, from the rows in their order: on, unless
\* none is marked or one that is not follows one that is.
MenuItemState(rows) ==
  LET marked == {r.song.file : r \in {q \in rows : q.isCompilation}}
      others == {r.song.file : r \in {q \in rows : ~q.isCompilation}}
  IN IF marked = {} THEN "off"
     ELSE IF \E i \in marked, j \in others : i < j THEN "mixed"
     ELSE "on"

\* Rows are found by the place of their songs: mutant
SongsOfRowsByFile(lib, rows) == {s \in lib.songs : \E r \in rows : r.song.file = s.file}

\* UPDATE songs ... WHERE songs.id = :ID, for each of the rows
SongsOfRows(lib, rows) ==
  {s \in lib.songs : <<lib.gen, s.file>> \in {Identifier("song", r) : r \in rows}}

\* The menu is opened and chosen in one step.
SetToggleIsPartOfCompilation ==
  LET chosen == SongsOfRows(library, selected["song"]) IN
  /\ library' = [library EXCEPT !.compilation =
       IF MenuItemState(selected["song"]) = "on" THEN @ \ chosen ELSE @ \cup chosen]
  /\ ReloadAll(library')
  /\ UNCHANGED <<search, enabled, connected, import>>

DetectCompilations ==
  /\ connected
  /\ library' = [library EXCEPT !.compilation = @ \cup DataSourceResults(library.songs)]
  /\ ReloadAll(library')
  /\ UNCHANGED <<search, enabled, connected, import>>

-----------------------------------------------------------------------------
(* The connection, and the import.                                         *)

ClientConnected ==
  /\ ~connected
  /\ connected' = TRUE
  /\ \E needsImport \in BOOLEAN :
       IF needsImport THEN UNCHANGED <<items, selected, enabled>>
       ELSE enabled' = TRUE /\ ReloadAll(library)
  /\ UNCHANGED <<library, search, import>>

ClientDisconnected ==
  /\ connected
  /\ connected' = FALSE
  /\ ClearAndDisableViews
  /\ UNCHANGED <<library, search, import>>

\* Also posted when the list of profiles has changed
ProfileSwitched ==
  /\ ReloadAll(library)
  /\ UNCHANGED <<library, search, enabled, connected, import>>

\* Whether still connected or not: songs that were fetched wait for the import
\* before theirs.
BeginImport ==
  /\ import = None /\ library.gen < MaxGen
  /\ import' = {}
  /\ UNCHANGED <<library, items, selected, search, enabled, connected>>

\* All at once here: clear, insertSongs and the marks that there were
WriteImport(songs) ==
  /\ import # None /\ "written" \notin import
  /\ library' = [gen |-> library.gen + 1, songs |-> songs,
                 compilation |-> library.compilation \cap songs]
  /\ import' = import \cup {"written"}
  /\ UNCHANGED <<items, selected, search, enabled, connected>>

LibraryBeganImporting ==
  /\ import # None /\ "cleared" \notin import
  /\ ClearAndDisableViews
  /\ import' = import \cup {"cleared"}
  /\ UNCHANGED <<library, search, connected>>

\* Even if the connection is lost by then
LibraryFinishedImporting ==
  /\ import = {"written", "cleared"}
  /\ ReloadAll(library)
  /\ enabled' = TRUE
  /\ import' = None
  /\ UNCHANGED <<library, search, connected>>

BrowserNext ==
  \/ \E c \in ColumnNames : \E rows \in SUBSET items[c] :
       Cardinality(rows) <= MaxSelected[c] /\ Select(c, rows)
  \/ \E for \in LibrarySearches : InitiateSearch(for)
  \/ SetToggleIsPartOfCompilation \/ DetectCompilations
  \/ ClientConnected \/ ClientDisconnected \/ ProfileSwitched
  \/ BeginImport \/ (\E songs \in Catalogs : WriteImport(songs))
  \/ LibraryBeganImporting \/ LibraryFinishedImporting

BrowserSpec == BrowserInit /\ [][BrowserNext]_browserVars

-----------------------------------------------------------------------------
BrowserTypeOK ==
  /\ library.gen \in 0..MaxGen
  /\ library.songs \in {{}} \cup Catalogs
  /\ library.compilation \subseteq library.songs
  /\ search \in LibrarySearches \cup {[fields |-> {"album", "title", "artist"}, tokens |-> {}]}
  /\ \A c \in ColumnNames : selected[c] \subseteq items[c]
  /\ Compilation \notin items["genre"] \cup items["album"]
  /\ enabled \in BOOLEAN /\ connected \in BOOLEAN
  /\ import = None \/ import \subseteq {"written", "cleared"}

\* Under which row of a column a song belongs
EntryOf(c, s) ==
  IF c = "artist" /\ s \in library.compilation THEN Compilation ELSE <<library.gen, s[c]>>

Found(s) ==
  \/ search.tokens = {}
  \/ \E field \in search.fields : \A t \in search.tokens : Text(s, field) \in Matching[t]

\* What column c has to show: of the songs that the search finds, those under
\* a selected row of every column to its left
Shown(c) ==
  {s \in library.songs :
     /\ Found(s)
     /\ \A d \in LeftOf(c) : selected[d] = {} \/ EntryOf(d, s) \in selected[d]}

\* Unless an import is going on, the tables that the user may click show the
\* library as it is: every column the rows of the songs under what is selected
\* to its left, with marked songs under the compilations and nowhere else.
ColumnsFollowSelection ==
  enabled /\ import = None =>
    /\ \A c \in ColumnNames \ {"song"} : items[c] = {EntryOf(c, s) : s \in Shown(c)}
    /\ {r.song : r \in items["song"]} = Shown("song")
    /\ \A r \in items["song"] : r.isCompilation = (r.song \in library.compilation)

\* Whatever was imported since the rows were read, toggling a mark changes only
\* those of the selected songs, and leaves them all marked or all unmarked; the
\* detector only adds marks.
MarksOnlyChosen ==
  [][library'.compilation # library.compilation /\ library'.gen = library.gen
       /\ ~(/\ library.compilation \subseteq library'.compilation
            /\ library'.compilation \subseteq
                 library.compilation \cup DataSourceResults(library.songs))
       => LET chosen == {r.song : r \in {q \in selected["song"] : q.gen = library.gen}} IN
          library'.compilation \in {library.compilation \cup chosen, library.compilation \ chosen}
    ]_browserVars

\* The columns in which something is selected that is still there and is no longer
\* selected; not those with the entry of the compilations alone
Losing ==
  {c \in ColumnNames : selected[c] # {Compilation}
                         /\ ~(selected[c] \cap items'[c] \subseteq selected'[c])}

\* What is selected in a column and still there after a selection in another one
\* stays selected, but for the entry of the compilations when it is alone; and
\* after a search too, as long as nothing is selected to its left: the reload of
\* a column that has a selection uses up what is saved for those to its right.
SelectionSurvives ==
  [][/\ \A d \in ColumnNames : Losing \subseteq {d} \/ ~Select(d, selected'[d])
     /\ \/ \A c \in Losing : \E d \in LeftOf(c) : selected[d] # {}
        \/ ~InitiateSearch(search')
    ]_browserVars
=============================================================================
