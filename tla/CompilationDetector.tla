------------------------- MODULE CompilationDetector -------------------------
(***************************************************************************)
(* What CompilationDetector takes for a compilation: the songs of an album *)
(* that lie in one directory, if they are by more than two artists.  It    *)
(* finds directories as runs of equal ones in the order of the files, in   *)
(* which a subdirectory comes between the files of its directory.          *)
(*                                                                         *)
(* A song is a record with an artist, an album, a directory dir and a file *)
(* that gives its place in the order.                                      *)
(***************************************************************************)
EXTENDS Integers, FiniteSets, Sequences, Folds

CONSTANTS
  FilePlans,   \* the artist, album and directory that a file may have
  MaxFiles,    \* how many files the detector looks at
  Unknown      \* the artist or the album of a song that names none

\* A song has a place in the order.
ASSUME DetectorAssumption ==
  MaxFiles \in Nat /\ \A plan \in FilePlans : "file" \in DOMAIN plan

VARIABLE files \* the songs of the library, in the order of their files

Kept(songs) == IF Cardinality({s.artist : s \in songs}) > 2 THEN songs ELSE {}

\* One step of the loop: the song joins its directory, or ends the one before.
NextSong(seen, song) ==
  IF \A s \in seen.directory : s.dir = song.dir
  THEN [seen EXCEPT !.directory = @ \cup {song}]
  ELSE [directory |-> {song}, result |-> seen.result \cup Kept(seen.directory)]

\* The songs are sorted by their files: the last comes after all others.
LastSong(songs) == CHOOSE s \in songs : \A t \in songs : t.file <= s.file

AfterLoop(songs) ==
  MapThenFoldSet(LAMBDA song, seen : NextSong(seen, song), [directory |-> {}, result |-> {}],
                 LAMBDA song : song, LastSong, songs)

\* The loop whose last directory is forgotten: mutant
CompilationSongsBeforeEnd(songs) == AfterLoop(songs).result

CompilationSongsOfAlbumSongs(songs) ==
  AfterLoop(songs).result \cup Kept(AfterLoop(songs).directory)

\* What is marked, of all songs: those of albums by more than two artists
DataSourceResults(songs) ==
  LET known == {s \in songs : s.artist # Unknown /\ s.album # Unknown}
      OfAlbum(a) == {s \in known : s.album = a}
  IN UNION {CompilationSongsOfAlbumSongs(Kept(OfAlbum(a))) :
              a \in {s.album : s \in known}}

-----------------------------------------------------------------------------
(* Every library, file by file.                                            *)

DetectorInit == files = <<>>

ImportFile(plan) ==
  /\ Len(files) < MaxFiles
  /\ files' = Append(files, [plan EXCEPT !.file = Len(files) + 1])

DetectorNext == \E plan \in FilePlans : ImportFile(plan)

DetectorSpec == DetectorInit /\ [][DetectorNext]_files

-----------------------------------------------------------------------------
DetectorSongs == {files[i] : i \in DOMAIN files}

\* The other songs of its album and directory, itself included
Directory(song) ==
  {s \in DetectorSongs : /\ s.artist # Unknown
                         /\ s.album = song.album /\ s.dir = song.dir}

Compilations ==
  {s \in DetectorSongs : /\ s.artist # Unknown /\ s.album # Unknown
                         /\ Kept(Directory(s)) # {}}

\* No file of the album in another directory comes in between
Unbroken(song) ==
  \A s, t \in Directory(song), u \in DetectorSongs :
    s.file < u.file /\ u.file < t.file /\ u.artist # Unknown /\ u.album = song.album
      => u.dir = song.dir

\* Only songs of an album and a directory of more than two artists are marked,
\* and all of them are unless files of a subdirectory come in between, which
\* split the directory for the detector.
DetectorFindsCompilations ==
  LET found == DataSourceResults(DetectorSongs) IN
  /\ found \subseteq Compilations
  /\ {s \in Compilations : Unbroken(s)} \subseteq found
=============================================================================
