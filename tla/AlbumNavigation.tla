---------------------------- MODULE AlbumNavigation ----------------------------
(***************************************************************************)
(* "Next album" and "previous album": to the first song of another album   *)
(* in the playlist, which both take for a ring.  The playlist and the      *)
(* position of the current song come in different notifications, so that   *)
(* the position may be one of an earlier and longer list.                  *)
(***************************************************************************)
EXTENDS Integers, Sequences, FiniteSetsExt

CONSTANTS
  Albums,
  NoAlbum,    \* the album of a song that names none
  MaxSongs,
  NoSkip      \* the code's nil, or an exception: nothing is sent

ASSUME AlbumAssumption == NoAlbum \notin Albums /\ MaxSongs \in Nat /\ NoSkip \notin Int

VARIABLES
  albums,                      \* the album of each song of mPlayList
  mCurrentPlayingSongPosition  \* from 0; -1 without a song

albumVars == <<albums, mCurrentPlayingSongPosition>>

LastRow == Len(albums) - 1
AlbumAt(i) == albums[i + 1]

\* Not of this album; a song without an album is not of any.
OthersIn(range, album) == {i \in range : AlbumAt(i) # album}

\* One song too early: mutant
BeginningOfAlbumBefore(position) ==
  LET album == AlbumAt(position)
      others == OthersIn(0..(position - 1), album)
  IN IF position = 0 THEN 0
     ELSE IF album = NoAlbum THEN NoSkip
     ELSE IF others # {} THEN Max(others)
     ELSE IF AlbumAt(LastRow) # album THEN 0 ELSE NoSkip

\* An album that begins at the end of the list and goes on at its start has no
\* beginning.
BeginningOfAlbumWithPosition(position) ==
  LET album == AlbumAt(position)
      others == OthersIn(0..(position - 1), album)
  IN IF position = 0 THEN 0
     ELSE IF album = NoAlbum THEN NoSkip
     ELSE IF others # {} THEN Max(others) + 1
     ELSE IF AlbumAt(LastRow) # album THEN 0 ELSE NoSkip

Skips(position) == position \in 0..LastRow /\ AlbumAt(position) # NoAlbum

SongOfNextAlbum(position) ==
  LET after == OthersIn(position..LastRow, AlbumAt(position))
      before == OthersIn(0..(position - 1), AlbumAt(position))
  IN IF ~Skips(position) THEN NoSkip
     ELSE IF after # {} THEN Min(after)
     ELSE IF before # {} THEN Min(before) ELSE 0

SongOfPreviousAlbum(position) ==
  LET before == OthersIn(0..position, AlbumAt(position))
      after == OthersIn((position + 1)..LastRow, AlbumAt(position))
  IN IF ~Skips(position) THEN NoSkip
     ELSE IF before # {} THEN BeginningOfAlbumWithPosition(Max(before))
     ELSE IF after # {} THEN BeginningOfAlbumWithPosition(Max(after)) ELSE 0

AlbumInit == albums = <<>> /\ mCurrentPlayingSongPosition = -1

\* The server plays the song, and its position comes with the status.
SkipToSong(i) ==
  /\ i # NoSkip
  /\ mCurrentPlayingSongPosition' = i
  /\ UNCHANGED albums

NextAlbum == SkipToSong(SongOfNextAlbum(mCurrentPlayingSongPosition))
PrevAlbum == SkipToSong(SongOfPreviousAlbum(mCurrentPlayingSongPosition))
PositionChanges == \E i \in -1..LastRow : SkipToSong(i)

\* Songs are added or removed.
FetchedPlaylist ==
  /\ \/ /\ Len(albums) < MaxSongs
        /\ \E album \in Albums \cup {NoAlbum} : albums' = Append(albums, album)
     \/ albums # <<>> /\ albums' = Tail(albums)
  /\ UNCHANGED mCurrentPlayingSongPosition

AlbumNext == NextAlbum \/ PrevAlbum \/ PositionChanges \/ FetchedPlaylist

AlbumSpec == AlbumInit /\ [][AlbumNext]_albumVars

AlbumTypeOK ==
  /\ albums \in Seq(Albums \cup {NoAlbum})
  /\ mCurrentPlayingSongPosition \in -1..(MaxSongs - 1)

\* Previous album, and then next album, leads back to the album that one came
\* from, wherever in the ring, unless previous album does nothing or has found
\* a song without an album, from which next album does nothing.
NextUndoesPrevious ==
  LET from == mCurrentPlayingSongPosition
      previous == SongOfPreviousAlbum(from)
      next == SongOfNextAlbum(previous)
  IN previous # NoSkip /\ AlbumAt(previous) # NoAlbum =>
       next # NoSkip /\ AlbumAt(next) = AlbumAt(from)
=============================================================================
