---------------------------- MODULE PlayerControls ----------------------------
(***************************************************************************)
(* Play, pause and stop, and the volume.  The main thread sends commands   *)
(* to the client thread, which after each of them, and at every poll,      *)
(* compares the server's status with the last one and posts what has       *)
(* changed.  Other clients change the same player.                         *)
(*                                                                         *)
(* The slider sends its value whenever it changes; while the mouse is down *)
(* on it, a changed volume is not shown.  The connection stays.            *)
(*                                                                         *)
(* increaseVolume: and decreaseVolume: send nothing: they ask the slider   *)
(* for its intValue, which a PWVolumeSlider does not have.                 *)
(***************************************************************************)
EXTENDS Integers, Sequences

CONSTANTS
  MaxVolume,    \* the code's 100
  Volumes,      \* where the user drags the slider to
  MaxCommands,  \* how many messages wait for the client thread at a time
  MaxNotices    \* how many notifications wait for the main thread at a time

ASSUME PlayerAssumption ==
  /\ MaxVolume \in Nat
  /\ Volumes \subseteq 0..MaxVolume
  /\ MaxCommands \in Nat /\ MaxNotices \in Nat

VARIABLES
  mCurrentState,
  slider,           \* the value of the volume slider
  mValueBeforeMute,
  tracking,         \* the mouse is down on the slider
  commands,         \* oneway messages to the client thread
  notices,          \* notifications to the main thread
  current,          \* libmpd's CurrentState: state and volume
  updating,         \* a command goes on with the update of the status
  server,           \* state and volume of the player
  hidden            \* history: the volume posted last was not shown, or
                    \* another client changed it between a command and its
                    \* status

windowVars == <<mCurrentState, slider, mValueBeforeMute, tracking>>
playerVars == <<windowVars, commands, notices, current, updating, server, hidden>>

States == {"play", "pause", "stop"}
Command == [op : {"play", "pause", "stop"}] \cup [op : {"volume"}, volume : Int]
Notice == [name : {"StateChanged"}, state : States]
            \cup [name : {"VolumeChanged"}, volume : 0..MaxVolume]

PlayerTypeOK ==
  /\ mCurrentState \in States
  /\ slider \in 0..MaxVolume
  /\ mValueBeforeMute \in 0..MaxVolume
  /\ tracking \in BOOLEAN
  /\ commands \in Seq(Command)
  /\ notices \in Seq(Notice)
  /\ current \in [state : States \cup {"unknown"}, volume : -1..MaxVolume]
  /\ updating \in BOOLEAN
  /\ server \in [state : States, volume : 0..MaxVolume]
  /\ hidden \in BOOLEAN

\* Just connected
PlayerInit ==
  /\ mCurrentState = "stop" /\ slider = 0 /\ mValueBeforeMute = 0
  /\ tracking = FALSE
  /\ commands = <<>> /\ notices = <<>>
  /\ current = [state |-> "unknown", volume |-> -1]
  /\ updating = FALSE
  /\ server = [state |-> "play", volume |-> MaxVolume]
  /\ hidden = FALSE

-----------------------------------------------------------------------------
(* The main thread.                                                        *)

Send(command) ==
  /\ Len(commands) < MaxCommands
  /\ commands' = Append(commands, command)

TogglePlayPause ==
  /\ ~tracking
  /\ Send([op |-> IF mCurrentState = "play" THEN "pause" ELSE "play"])
  /\ UNCHANGED <<windowVars, notices, current, updating, server, hidden>>

\* The menu item; the toolbar's is disabled while the player is stopped.
Stop ==
  /\ ~tracking
  /\ Send([op |-> "stop"])
  /\ UNCHANGED <<windowVars, notices, current, updating, server, hidden>>

\* volumeShouldChange: of a slider that shows the new value already
SendVolume(volume) ==
  /\ slider' = volume
  /\ Send([op |-> "volume", volume |-> volume])

DragSlider(volume) ==
  /\ tracking' = TRUE
  /\ SendVolume(volume)
  /\ hidden' = FALSE
  /\ UNCHANGED <<mCurrentState, mValueBeforeMute,
                 notices, current, updating, server>>

ReleaseSlider ==
  /\ tracking
  /\ tracking' = FALSE
  /\ UNCHANGED <<mCurrentState, slider, mValueBeforeMute,
                 commands, notices, current, updating, server, hidden>>

ToggleMute ==
  /\ ~tracking
  /\ IF slider > 0
     THEN mValueBeforeMute' = slider /\ SendVolume(0)
     ELSE mValueBeforeMute' = mValueBeforeMute /\ SendVolume(mValueBeforeMute)
  /\ hidden' = FALSE
  /\ UNCHANGED <<mCurrentState, tracking,
                 notices, current, updating, server>>

\* clientStateChanged:, volumeChanged:
HandleNotice ==
  /\ notices # <<>>
  /\ notices' = Tail(notices)
  /\ LET n == Head(notices) IN
     IF n.name = "StateChanged"
     THEN mCurrentState' = n.state /\ UNCHANGED <<slider, hidden>>
     ELSE /\ slider' = IF tracking THEN slider ELSE n.volume
          /\ hidden' = tracking
          /\ UNCHANGED mCurrentState
  /\ UNCHANGED <<mValueBeforeMute, tracking,
                 commands, current, updating, server>>

-----------------------------------------------------------------------------
(* The client thread, and the server.                                      *)

Clamped(volume) == IF volume < 0 THEN 0 ELSE IF volume > MaxVolume THEN MaxVolume ELSE volume

\* Pause toggles by the state that libmpd has seen last.
AfterCommand(c) ==
  CASE c.op = "play" -> [server EXCEPT !.state = "play"]
    [] c.op = "stop" -> [server EXCEPT !.state = "stop"]
    [] c.op = "volume" -> [server EXCEPT !.volume = Clamped(c.volume)]
    [] c.op = "pause" ->
         IF server.state = "stop" THEN server
         ELSE IF current.state = "play" THEN [server EXCEPT !.state = "pause"]
         ELSE IF current.state = "pause" THEN [server EXCEPT !.state = "play"]
         ELSE server

ServeCommand ==
  /\ commands # <<>> /\ ~updating
  /\ server' = AfterCommand(Head(commands))
  /\ commands' = Tail(commands)
  /\ updating' = TRUE
  /\ UNCHANGED <<windowVars, notices, current, hidden>>

\* One change at a time is noticed, and the rest is taken over: mutant
NoticesOfFirst ==
  IF server.state # current.state
  THEN <<[name |-> "StateChanged", state |-> server.state]>>
  ELSE IF server.volume # current.volume
  THEN <<[name |-> "VolumeChanged", volume |-> server.volume]>> ELSE <<>>

\* callbackStatusChanged:
StatusNotices ==
  (IF server.state # current.state
   THEN <<[name |-> "StateChanged", state |-> server.state]>> ELSE <<>>)
  \o (IF server.volume # current.volume
      THEN <<[name |-> "VolumeChanged", volume |-> server.volume]>> ELSE <<>>)

\* After a command, or by the timer
StatusUpdate ==
  /\ Len(notices) < MaxNotices
  /\ notices' = notices \o StatusNotices
  /\ current' = server
  /\ updating' = FALSE
  /\ UNCHANGED <<windowVars, commands, server, hidden>>

OthersChange(new) ==
  /\ server' = new
  /\ hidden' = (hidden \/ (updating /\ new.volume # server.volume))
  /\ UNCHANGED <<windowVars, commands, notices, current, updating>>

PlayerNext ==
  \/ TogglePlayPause \/ Stop \/ ToggleMute \/ ReleaseSlider
  \/ \E volume \in Volumes : DragSlider(volume)
  \/ HandleNotice \/ ServeCommand \/ StatusUpdate
  \/ \E state \in States, volume \in Volumes : OthersChange([state |-> state, volume |-> volume])

PlayerSpec == PlayerInit /\ [][PlayerNext]_playerVars

-----------------------------------------------------------------------------
\* Nothing is on its way between the threads and the server.
Settled ==
  commands = <<>> /\ notices = <<>> /\ ~updating /\ current = server

\* When everything is settled, the play button goes by the state of the player,
\* and the slider shows its volume, whatever the user and other clients changed
\* in which order; but a volume that comes while the mouse is down stays hidden until
\* the next one, as does that of a client which undoes the user's change before
\* its status is fetched.
ControlsFollowPlayer ==
  Settled => /\ mCurrentState = server.state
             /\ slider = server.volume \/ hidden
==============================================================================
