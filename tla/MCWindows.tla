------------------------------ MODULE MCWindows ------------------------------
(***************************************************************************)
(* Instances for TLC of the parts of the window, one after the other: the  *)
(* parts share no state, so that a behaviour chooses one and stays in it.  *)
(***************************************************************************)
EXTENDS LibraryBrowser, PlayListFiles, PlayerControls, SeekScheduler, RemoteControl,
  AlbumNavigation

CONSTANTS plus, minus

VARIABLE part

AllParts == {"detector", "browser", "files", "player", "seek", "remote", "albums"}

\* Four songs: an album by three artists, one song of which has no title and is
\* found by its path, and one of another album; a later import finds two.
Song(file, genre, artist, album, dir, title) ==
  [file |-> file, genre |-> genre, artist |-> artist, album |-> album, dir |-> dir,
   title |-> title, path |-> "p"]
song1 == Song(1, "g", "A", "X", "d", "t")
song2 == Song(2, "g", "B", "X", "d", None)
song3 == Song(3, "h", "C", "X", "d", "t")
song4 == Song(4, "g", "A", "Y", "e", "t")
TwoCatalogs == {{song1, song2, song3, song4}, {song1, song4}}

\* Finds the song without a title, and those of artist A
TokenMatches == [token \in {"p"} |-> {"p", "A"}]
TwoSearches == {[fields |-> {"album", "title", "artist"}, tokens |-> {}],
                [fields |-> {"title", "artist"}, tokens |-> {"p"}]}

\* Two where that makes a difference: the compilations and an artist, a marked
\* song and another
RowsSelected == [genre |-> 1, artist |-> 2, album |-> 1, song |-> 2]

\* Three artists in a directory and its subdirectory, of one album, a song of
\* another, and one whose artist is not known
Plans ==
  [file : {0}, artist : {"A", "B", "C"}, album : {"X"}, dir : {"d", "d/e"}]
    \cup {[file |-> 0, artist |-> "A", album |-> "Y", dir |-> "d"],
          [file |-> 0, artist |-> Unknown, album |-> "X", dir |-> "d"]}

vars == <<part, files, browserVars, filesVars, playerVars, seekVars, remoteVars, albumVars>>

Init ==
  /\ part \in AllParts
  /\ DetectorInit /\ BrowserInit /\ FilesInit /\ PlayerInit /\ SeekInit /\ RemoteInit
  /\ AlbumInit
  /\ IF part = "browser" THEN Cardinality(library.songs) <= 2 ELSE library.songs = {}
  /\ part # "files" => ~drawerOpen /\ ~refreshEnabled

Next ==
  /\ part' = part
  /\ \/ /\ part = "detector" /\ DetectorNext
        /\ UNCHANGED <<browserVars, filesVars, playerVars, seekVars, remoteVars, albumVars>>
     \/ /\ part = "browser" /\ BrowserNext
        /\ UNCHANGED <<files, filesVars, playerVars, seekVars, remoteVars, albumVars>>
     \/ /\ part = "files" /\ FilesNext
        /\ UNCHANGED <<files, browserVars, playerVars, seekVars, remoteVars, albumVars>>
     \/ /\ part = "player" /\ PlayerNext
        /\ UNCHANGED <<files, browserVars, filesVars, seekVars, remoteVars, albumVars>>
     \/ /\ part = "seek" /\ SeekNext
        /\ UNCHANGED <<files, browserVars, filesVars, playerVars, remoteVars, albumVars>>
     \/ /\ part = "remote" /\ RemoteNext
        /\ UNCHANGED <<files, browserVars, filesVars, playerVars, seekVars, albumVars>>
     \/ /\ part = "albums" /\ AlbumNext
        /\ UNCHANGED <<files, browserVars, filesVars, playerVars, seekVars, remoteVars>>

Spec == Init /\ [][Next]_vars

\* Every variable of every part has its type.
TypeOK ==
  /\ part \in AllParts
  /\ BrowserTypeOK /\ FilesTypeOK /\ PlayerTypeOK /\ SeekTypeOK /\ RemoteTypeOK
  /\ AlbumTypeOK
=============================================================================
