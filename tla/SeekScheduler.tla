---------------------------- MODULE SeekScheduler ----------------------------
(***************************************************************************)
(* Seeking: the slider of the main thread sends scheduleSeek, the client   *)
(* thread waits a moment for a later one before it seeks, and does not     *)
(* seek twice to the same time within 0.2 seconds.  libmpd seeks in the    *)
(* song that it saw current last, which need not be the current one.       *)
(*                                                                         *)
(* A playing song moves on; only how it was left by a seek is kept here.   *)
(* The connection stays; a server that stops is enough to lose a seek.     *)
(***************************************************************************)
EXTENDS Integers, Sequences

CONSTANTS
  Times,        \* where the user seeks to
  Positions,    \* of songs in the playlist
  MaxRequests,  \* how many of the slider's messages wait at a time
  MaxResets     \* how many seeks may be less than 0.2 seconds old

\* The code's -1
NoTime == -1
NoSong == -1

ASSUME SeekAssumption ==
  /\ Times \subseteq Nat /\ Positions \subseteq Nat
  /\ MaxRequests \in Nat /\ MaxResets \in Nat

VARIABLES
  seekRequests,  \* scheduleSeek messages, oneway
  mSeekTimer,    \* the time that the pending timer seeks to, or NoTime
  mLastSetTime,
  resets,        \* the pending timers of resetLastSetTime, by what was set
  player,        \* the server: its song, NoSong if it is stopped, and the
                 \* time that it was sent to last, if it is still there
  cachedSong,    \* the current song in libmpd's status
  wanted,        \* history: where the user wants the song to be, NoTime if
                 \* somebody else has moved it since, or stopped it
  repeated       \* history: that was left out as a repetition

seekVars == <<seekRequests, mSeekTimer, mLastSetTime, resets, player, cachedSong,
              wanted, repeated>>

SeekTypeOK ==
  /\ seekRequests \in Seq(Times)
  /\ mSeekTimer \in Times \cup {NoTime}
  /\ mLastSetTime \in Times \cup {NoTime}
  /\ resets \in Seq(Times)
  /\ player \in [song : Positions \cup {NoSong}, at : Times \cup {NoTime}]
  /\ cachedSong \in Positions \cup {NoSong}
  /\ wanted \in Times \cup {NoTime}
  /\ repeated \in BOOLEAN

SeekInit ==
  /\ seekRequests = <<>> /\ mSeekTimer = NoTime
  /\ mLastSetTime = NoTime /\ resets = <<>>
  /\ player = [song |-> NoSong, at |-> NoTime] /\ cachedSong = NoSong
  /\ wanted = NoTime /\ repeated = FALSE

SeekPending == seekRequests # <<>> \/ mSeekTimer # NoTime

-----------------------------------------------------------------------------
SeekSliderChanged(time) ==
  /\ Len(seekRequests) < MaxRequests
  /\ seekRequests' = Append(seekRequests, time)
  /\ wanted' = time
  /\ repeated' = FALSE
  /\ UNCHANGED <<mSeekTimer, mLastSetTime, resets, player, cachedSong>>

\* The first of two seeks stays scheduled, and the second is dropped: mutant
ScheduleUnlessPending ==
  /\ seekRequests # <<>>
  /\ mSeekTimer' = IF mSeekTimer = NoTime THEN Head(seekRequests) ELSE mSeekTimer
  /\ seekRequests' = Tail(seekRequests)
  /\ UNCHANGED <<mLastSetTime, resets, player, cachedSong, wanted, repeated>>

\* A later seek invalidates the timer of the earlier one.
ScheduleSeek ==
  /\ seekRequests # <<>>
  /\ mSeekTimer' = Head(seekRequests)
  /\ seekRequests' = Tail(seekRequests)
  /\ UNCHANGED <<mLastSetTime, resets, player, cachedSong, wanted, repeated>>

SkipSeek ==
  /\ mSeekTimer # NoTime /\ mSeekTimer = mLastSetTime
  /\ mSeekTimer' = NoTime
  /\ repeated' = (seekRequests = <<>> /\ \E i \in DOMAIN resets : resets[i] = mSeekTimer)
  /\ UNCHANGED <<seekRequests, mLastSetTime, resets, player, cachedSong, wanted>>

\* A seek brings a stopped or another song back to the one that libmpd had
\* seen; if it had seen none, nothing is sent.
Seek ==
  /\ mSeekTimer # NoTime /\ mSeekTimer # mLastSetTime
  /\ Len(resets) < MaxResets
  /\ mSeekTimer' = NoTime
  /\ mLastSetTime' = mSeekTimer
  /\ resets' = Append(resets, mSeekTimer)
  /\ IF cachedSong = NoSong
     THEN /\ wanted' = IF seekRequests = <<>> THEN NoTime ELSE wanted
          /\ UNCHANGED <<player, cachedSong>>
     ELSE /\ player' = [song |-> cachedSong, at |-> mSeekTimer]
          /\ UNCHANGED <<cachedSong, wanted>>
  /\ UNCHANGED <<seekRequests, repeated>>

\* Not canceled by a later seek, whose time may be forgotten early
ResetLastSetTime ==
  /\ resets # <<>>
  /\ mLastSetTime' = NoTime
  /\ resets' = Tail(resets)
  /\ UNCHANGED <<seekRequests, mSeekTimer, player, cachedSong, wanted, repeated>>

\* The next song, a stop, or a seek of another client
PlayerMoves(song) ==
  /\ player' = [song |-> song, at |-> NoTime]
  /\ wanted' = IF SeekPending THEN wanted ELSE NoTime
  /\ UNCHANGED <<seekRequests, mSeekTimer, mLastSetTime, resets, cachedSong, repeated>>

PollSong ==
  /\ cachedSong' = player.song
  /\ UNCHANGED <<seekRequests, mSeekTimer, mLastSetTime, resets, player, wanted, repeated>>

SeekNext ==
  \/ \E time \in Times : SeekSliderChanged(time)
  \/ ScheduleSeek \/ SkipSeek \/ Seek \/ ResetLastSetTime
  \/ \E song \in Positions \cup {NoSong} : PlayerMoves(song)
  \/ PollSong

SeekSpec == SeekInit /\ [][SeekNext]_seekVars

-----------------------------------------------------------------------------
\* Once nothing is pending, the song is where the user dragged the slider last,
\* however the messages and timers of earlier drags interleaved, unless somebody
\* else has moved it since, or a seek to that same time, less than 0.2 seconds
\* old, stands for this one ("if the user seeks twice to the exact same spot in
\* two different songs, it doesn't seek the second time").
SeekArrives ==
  ~SeekPending /\ wanted # NoTime => player.at = wanted \/ repeated
=============================================================================
