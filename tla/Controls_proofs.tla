---------------------------- MODULE Controls_proofs ----------------------------
(***************************************************************************)
(* Proofs about the four parts of the window that control the player: its  *)
(* buttons and volume, seeks, the remote control and the steps from album  *)
(* to album; for any volumes, times, keys, albums and bounds.              *)
(***************************************************************************)
EXTENDS PlayerControls, SeekScheduler, RemoteControl, AlbumNavigation,
  SequenceTheorems, WellFoundedInduction, TLAPS

-----------------------------------------------------------------------------
(* PlayerControls: types.                                                  *)

\* A volume that is asked for is put on the scale.
LEMMA ClampedOnScale ==
  ASSUME NEW volume \in Int
  PROVE  Clamped(volume) \in 0..MaxVolume
BY PlayerAssumption DEF Clamped

\* What a command makes of the server's status is a status.
LEMMA CommandKeepsServerTyped ==
  ASSUME PlayerTypeOK, NEW c \in Command
  PROVE  AfterCommand(c) \in [state : States, volume : 0..MaxVolume]
<1>1. CASE c.op = "volume"
  <2>1. c.volume \in Int
    BY <1>1 DEF Command
  <2> QED
    BY <1>1, <2>1, ClampedOnScale DEF AfterCommand, PlayerTypeOK
<1>2. CASE c.op # "volume"
  <2>1. c.op \in {"play", "pause", "stop"}
    BY <1>2 DEF Command
  <2> QED
    BY <1>2, <2>1 DEF AfterCommand, PlayerTypeOK, States
<1> QED
  BY <1>1, <1>2

LEMMA StatusNoticesTyped ==
  ASSUME PlayerTypeOK
  PROVE  StatusNotices \in Seq(Notice)
<1>1. server.state \in States /\ server.volume \in 0..MaxVolume
  BY DEF PlayerTypeOK
<1>2. [name |-> "StateChanged", state |-> server.state] \in Notice
  BY <1>1 DEF Notice
<1>3. [name |-> "VolumeChanged", volume |-> server.volume] \in Notice
  BY <1>1 DEF Notice
<1> QED
  BY <1>2, <1>3 DEF StatusNotices

\* Every step keeps the values of the controls, the queues and the player in
\* their types: PlayerTypeOK is inductive.
LEMMA TypeStep ==
  ASSUME PlayerTypeOK, [PlayerNext]_playerVars
  PROVE  PlayerTypeOK'
<1> USE PlayerAssumption
<1>1. CASE UNCHANGED playerVars
  BY <1>1 DEF PlayerTypeOK, playerVars, windowVars
<1>2. CASE TogglePlayPause
  <2>1. [op |-> IF mCurrentState = "play" THEN "pause" ELSE "play"] \in Command
    BY DEF Command
  <2> QED
    BY <1>2, <2>1 DEF TogglePlayPause, Send, PlayerTypeOK, windowVars
<1>3. CASE Stop
  <2>1. [op |-> "stop"] \in Command
    BY DEF Command
  <2> QED
    BY <1>3, <2>1 DEF Stop, Send, PlayerTypeOK, windowVars
<1>4. CASE ToggleMute
  <2>1. \A volume \in 0..MaxVolume : [op |-> "volume", volume |-> volume] \in Command
    BY DEF Command
  <2>2. mValueBeforeMute \in 0..MaxVolume /\ 0 \in 0..MaxVolume
    BY DEF PlayerTypeOK
  <2>3. PICK volume \in 0..MaxVolume : SendVolume(volume)
    BY <1>4, <2>2 DEF ToggleMute
  <2>4. slider' \in 0..MaxVolume /\ commands' \in Seq(Command)
    BY <2>1, <2>3 DEF SendVolume, Send, PlayerTypeOK
  <2>5. mValueBeforeMute' \in 0..MaxVolume
    BY <1>4 DEF ToggleMute, PlayerTypeOK
  <2>6. /\ hidden' = FALSE
        /\ UNCHANGED <<mCurrentState, tracking, notices, current, updating, server>>
    BY <1>4 DEF ToggleMute
  <2> QED
    BY <2>4, <2>5, <2>6 DEF PlayerTypeOK
<1>5. CASE ReleaseSlider
  BY <1>5 DEF ReleaseSlider, PlayerTypeOK
<1>6. ASSUME NEW volume \in Volumes, DragSlider(volume)
      PROVE  PlayerTypeOK'
  <2>1. volume \in 0..MaxVolume /\ [op |-> "volume", volume |-> volume] \in Command
    <3>1. volume \in 0..MaxVolume
      BY PlayerAssumption
    <3> QED BY <3>1 DEF Command
  <2>2. slider' \in 0..MaxVolume /\ commands' \in Seq(Command)
    BY <1>6, <2>1 DEF DragSlider, SendVolume, Send, PlayerTypeOK
  <2>3. tracking' \in BOOLEAN /\ hidden' \in BOOLEAN
    BY <1>6 DEF DragSlider
  <2>4. UNCHANGED <<mCurrentState, mValueBeforeMute, notices, current, updating, server>>
    BY <1>6 DEF DragSlider
  <2> QED
    BY <2>2, <2>3, <2>4 DEF PlayerTypeOK
<1>8. CASE HandleNotice
  <2>1. Head(notices) \in Notice /\ Tail(notices) \in Seq(Notice)
    BY <1>8 DEF HandleNotice, PlayerTypeOK
  <2>2. CASE Head(notices).name = "StateChanged"
    <3>1. Head(notices).state \in States
      BY <2>1, <2>2 DEF Notice
    <3> QED
      BY <1>8, <2>1, <2>2, <3>1 DEF HandleNotice, PlayerTypeOK
  <2>3. CASE Head(notices).name # "StateChanged"
    <3>1. Head(notices).volume \in 0..MaxVolume
      BY <2>1, <2>3 DEF Notice
    <3> QED
      BY <1>8, <2>1, <2>3, <3>1 DEF HandleNotice, PlayerTypeOK
  <2> QED
    BY <2>2, <2>3
<1>9. CASE ServeCommand
  <2>1. Head(commands) \in Command /\ Tail(commands) \in Seq(Command)
    BY <1>9 DEF ServeCommand, PlayerTypeOK
  <2>2. server' \in [state : States, volume : 0..MaxVolume]
    BY <1>9, <2>1, CommandKeepsServerTyped DEF ServeCommand
  <2> QED
    BY <1>9, <2>1, <2>2 DEF ServeCommand, PlayerTypeOK, windowVars
<1>10. CASE StatusUpdate
  <2>1. notices' \in Seq(Notice)
    BY <1>10, StatusNoticesTyped DEF StatusUpdate, PlayerTypeOK
  <2>2. server \in [state : States \cup {"unknown"}, volume : -1..MaxVolume]
    BY DEF PlayerTypeOK
  <2> QED
    BY <1>10, <2>1, <2>2 DEF StatusUpdate, PlayerTypeOK, windowVars
<1>11. ASSUME NEW state \in States, NEW volume \in Volumes,
              OthersChange([state |-> state, volume |-> volume])
       PROVE  PlayerTypeOK'
  BY <1>11 DEF OthersChange, PlayerTypeOK, windowVars
<1> QED
  BY <1>1, <1>2, <1>3, <1>4, <1>5, <1>6, <1>8, <1>9, <1>10, <1>11 DEF PlayerNext

LEMMA PlayerTypeInit ==
  ASSUME PlayerInit
  PROVE  PlayerTypeOK
<1>1. commands \in Seq(Command) /\ notices \in Seq(Notice)
  BY EmptySeq DEF PlayerInit
<1>2. 0 \in 0..MaxVolume /\ MaxVolume \in 0..MaxVolume /\ -1 \in -1..MaxVolume
  BY PlayerAssumption
<1> QED
  BY <1>1, <1>2 DEF PlayerInit, PlayerTypeOK, States

\* The buttons, the slider, the messages between the threads and libmpd's copy of
\* the status are always well formed.
THEOREM PlayerTypeCorrect == PlayerSpec => []PlayerTypeOK
  BY PlayerTypeInit, TypeStep, PTL DEF PlayerSpec

-----------------------------------------------------------------------------
(* The controls.  A notice of a change is the last one of its kind only if *)
(* it tells what libmpd's copy of the status holds; without one, the       *)
(* button shows that already, and the slider too, unless it is ahead: its  *)
(* value is still to be sent, or sent and not yet in a status.             *)

NoNotice(name) == \A i \in DOMAIN notices : notices[i].name # name

IsLast(i, name) ==
  /\ i \in DOMAIN notices
  /\ notices[i].name = name
  /\ \A j \in DOMAIN notices : j > i => notices[j].name # name

LastNoticeIsCurrent ==
  \A i \in DOMAIN notices :
     /\ IsLast(i, "StateChanged") => notices[i].state = current.state
     /\ IsLast(i, "VolumeChanged") => notices[i].volume = current.volume

StateIsShown ==
  NoNotice("StateChanged") => mCurrentState = current.state \/ current.state = "unknown"

SliderIsSent ==
  \E i \in DOMAIN commands : commands[i].op = "volume" /\ commands[i].volume = slider

VolumeIsShown ==
  NoNotice("VolumeChanged") =>
    \/ hidden
    \/ slider = current.volume
    \/ updating /\ slider = server.volume
    \/ SliderIsSent
    \/ current.volume = -1

ControlsInv == PlayerTypeOK /\ LastNoticeIsCurrent /\ StateIsShown /\ VolumeIsShown

LEMMA ControlsInitInv == PlayerInit => LastNoticeIsCurrent /\ StateIsShown /\ VolumeIsShown
BY DEF PlayerInit, LastNoticeIsCurrent, StateIsShown, VolumeIsShown

\* A message added to the queue leaves the ones before it.
LEMMA SendKeepsCommands ==
  ASSUME PlayerTypeOK, NEW command \in Command, Send(command)
  PROVE  /\ \A i \in DOMAIN commands : i \in DOMAIN commands' /\ commands'[i] = commands[i]
         /\ \E i \in DOMAIN commands' : commands'[i] = command
<1>1. /\ commands \in Seq(Command)
      /\ commands' = Append(commands, command)
  BY DEF Send, PlayerTypeOK
<1>2. DOMAIN commands = 1..Len(commands) /\ DOMAIN commands' = 1..(Len(commands) + 1)
  BY <1>1
<1>3. Len(commands) + 1 \in DOMAIN commands' /\ commands'[Len(commands) + 1] = command
  BY <1>1, <1>2
<1>4. \A i \in DOMAIN commands : i \in DOMAIN commands' /\ commands'[i] = commands[i]
  BY <1>1, <1>2
<1> QED
  BY <1>3, <1>4

\* A slider that the user moved is sent with its value.
LEMMA MovedSliderIsSent ==
  ASSUME PlayerTypeOK, NEW volume \in 0..MaxVolume, SendVolume(volume)
  PROVE  SliderIsSent'
<1>1. [op |-> "volume", volume |-> volume] \in Command
  BY DEF Command
<1> QED
  BY <1>1, SendKeepsCommands DEF SendVolume, SliderIsSent

\* What an action that leaves notices and libmpd's copy alone preserves.
LEMMA NoticesUntouched ==
  ASSUME LastNoticeIsCurrent, StateIsShown, UNCHANGED <<mCurrentState, notices, current>>
  PROVE  LastNoticeIsCurrent' /\ StateIsShown'
BY DEF LastNoticeIsCurrent, StateIsShown, IsLast, NoNotice

\* The controls: a command moves the slider only together with a message, and
\* none of them touches a notice.
LEMMA CommandStep ==
  ASSUME ControlsInv,
         \/ TogglePlayPause \/ Stop \/ ToggleMute \/ ReleaseSlider
         \/ \E volume \in Volumes : DragSlider(volume)
  PROVE  LastNoticeIsCurrent' /\ StateIsShown' /\ VolumeIsShown'
<1> USE PlayerAssumption
<1>1. UNCHANGED <<mCurrentState, notices, current, updating, server>>
  BY DEF TogglePlayPause, Stop, ToggleMute, ReleaseSlider, DragSlider, windowVars
<1>2. LastNoticeIsCurrent' /\ StateIsShown'
  BY <1>1, NoticesUntouched DEF ControlsInv
<1>3. CASE ToggleMute \/ \E volume \in Volumes : DragSlider(volume)
  <2>1. PICK volume \in 0..MaxVolume : SendVolume(volume)
    <3>1. 0 \in 0..MaxVolume /\ mValueBeforeMute \in 0..MaxVolume
      BY DEF ControlsInv, PlayerTypeOK
    <3> QED
      BY <1>3, <3>1 DEF ToggleMute, DragSlider
  <2>2. SliderIsSent'
    BY <2>1, MovedSliderIsSent DEF ControlsInv
  <2> QED
    BY <1>2, <2>2 DEF VolumeIsShown
<1>4. CASE ReleaseSlider
  BY <1>2, <1>4 DEF ReleaseSlider, ControlsInv, VolumeIsShown, NoNotice, SliderIsSent
<1>5. CASE TogglePlayPause \/ Stop
  <2>1. PICK command \in Command : Send(command)
    <3>2. \A op \in {"play", "pause", "stop"} : [op |-> op] \in Command
      BY DEF Command
    <3>3. CASE TogglePlayPause
      BY <3>2, <3>3 DEF TogglePlayPause
    <3>4. CASE Stop
      BY <3>2, <3>4 DEF Stop
    <3> QED
      BY <1>5, <3>3, <3>4
  <2>2. SliderIsSent => SliderIsSent'
    <3>1. UNCHANGED slider
      BY <1>5 DEF TogglePlayPause, Stop, windowVars
    <3> QED
      BY <2>1, <3>1, SendKeepsCommands DEF SliderIsSent, ControlsInv
  <2>3. UNCHANGED <<slider, hidden>>
    BY <1>5 DEF TogglePlayPause, Stop, windowVars
  <2> QED
    BY <1>1, <1>2, <2>2, <2>3 DEF VolumeIsShown, ControlsInv, NoNotice
<1> QED
  BY <1>3, <1>4, <1>5

\* A notice that is handled shows its value if it was the last of its kind, and
\* the one that is last stays last otherwise.
LEMMA HandleStep ==
  ASSUME ControlsInv, HandleNotice
  PROVE  LastNoticeIsCurrent' /\ StateIsShown' /\ VolumeIsShown'
<1>1. /\ notices \in Seq(Notice) /\ notices # <<>>
      /\ notices' = Tail(notices)
      /\ UNCHANGED <<mValueBeforeMute, tracking, commands, current, updating, server>>
  BY DEF ControlsInv, PlayerTypeOK, HandleNotice
<1>2. /\ Len(notices) \in Nat \ {0}
      /\ DOMAIN notices = 1..Len(notices)
      /\ DOMAIN notices' = 1..(Len(notices) - 1)
      /\ \A i \in DOMAIN notices' : i + 1 \in DOMAIN notices /\ notices'[i] = notices[i + 1]
      /\ 1 \in DOMAIN notices /\ Head(notices) = notices[1]
  <2>1. Len(notices) \in Nat \ {0} /\ DOMAIN notices = 1..Len(notices)
    BY <1>1, EmptySeq
  <2> QED
    BY <1>1, <2>1, HeadTailProperties
<1>3. \A i \in DOMAIN notices' : \A name : IsLast(i, name)' => IsLast(i + 1, name)
  <2> SUFFICES ASSUME NEW i \in DOMAIN notices', NEW name, IsLast(i, name)',
                      NEW j \in DOMAIN notices, j > i + 1
               PROVE  notices[j].name # name
    BY <1>2 DEF IsLast
  <2>1. j - 1 \in DOMAIN notices' /\ j - 1 > i /\ notices'[j - 1] = notices[j]
    BY <1>2
  <2> QED
    BY <2>1 DEF IsLast
<1>4. LastNoticeIsCurrent'
  BY <1>1, <1>2, <1>3 DEF LastNoticeIsCurrent, ControlsInv
<1>5. ASSUME NEW name, NoNotice(name)'
      PROVE  notices[1].name = name => IsLast(1, name)
  <2> SUFFICES ASSUME NEW j \in DOMAIN notices, j > 1
               PROVE  notices[j].name # name
    BY <1>2 DEF IsLast
  <2>1. j - 1 \in DOMAIN notices' /\ notices'[j - 1] = notices[j]
    BY <1>2
  <2> QED
    BY <1>5, <2>1 DEF NoNotice
<1>6. ASSUME NEW name, NoNotice(name)', notices[1].name # name
      PROVE  NoNotice(name)
  <2> SUFFICES ASSUME NEW j \in DOMAIN notices
               PROVE  notices[j].name # name
    BY DEF NoNotice
  <2>1. CASE j = 1
    BY <1>6, <2>1
  <2>2. CASE j # 1
    <3>1. j - 1 \in DOMAIN notices' /\ notices'[j - 1] = notices[j]
      BY <1>2, <2>2
    <3> QED
      BY <1>6, <3>1 DEF NoNotice
  <2> QED
    BY <2>1, <2>2
<1>7. notices[1].name \in {"StateChanged", "VolumeChanged"}
  BY <1>1, <1>2 DEF Notice
<1>8. CASE notices[1].name = "StateChanged"
  <2>1. mCurrentState' = notices[1].state /\ UNCHANGED <<slider, hidden>>
    BY <1>2, <1>8 DEF HandleNotice
  <2>2. StateIsShown'
    BY <1>1, <1>2, <1>5, <1>8, <2>1 DEF StateIsShown, LastNoticeIsCurrent, ControlsInv
  <2>3. NoNotice("VolumeChanged")' => NoNotice("VolumeChanged")
    BY <1>6, <1>8
  <2>4. VolumeIsShown'
    BY <1>1, <2>1, <2>3 DEF VolumeIsShown, SliderIsSent, ControlsInv
  <2> QED
    BY <1>4, <2>2, <2>4
<1>9. CASE notices[1].name = "VolumeChanged"
  <2>1. /\ slider' = IF tracking THEN slider ELSE notices[1].volume
        /\ hidden' = tracking
        /\ UNCHANGED mCurrentState
    BY <1>2, <1>9 DEF HandleNotice
  <2>2. NoNotice("StateChanged")' => NoNotice("StateChanged")
    BY <1>6, <1>9
  <2>3. StateIsShown'
    BY <1>1, <2>1, <2>2 DEF StateIsShown, ControlsInv
  <2>4. VolumeIsShown'
    <3>1. CASE tracking
      BY <2>1, <3>1 DEF VolumeIsShown
    <3>2. CASE ~tracking /\ NoNotice("VolumeChanged")'
      <4>1. notices[1].volume = current.volume
        BY <1>2, <1>5, <1>9, <3>2 DEF LastNoticeIsCurrent, ControlsInv
      <4> QED
        BY <1>1, <2>1, <3>2, <4>1 DEF VolumeIsShown
    <3>3. CASE ~NoNotice("VolumeChanged")'
      BY <3>3 DEF VolumeIsShown
    <3> QED
      BY <3>1, <3>2, <3>3
  <2> QED
    BY <1>4, <2>3, <2>4
<1> QED
  BY <1>7, <1>8, <1>9

\* What the callback posts tells the server's values, and all that changed.
LEMMA StatusNoticesTell ==
  ASSUME PlayerTypeOK
  PROVE  /\ \A k \in DOMAIN StatusNotices :
              /\ StatusNotices[k].name = "StateChanged" => StatusNotices[k].state = server.state
              /\ StatusNotices[k].name = "VolumeChanged" => StatusNotices[k].volume = server.volume
         /\ (\A k \in DOMAIN StatusNotices : StatusNotices[k].name # "StateChanged")
              => server.state = current.state
         /\ (\A k \in DOMAIN StatusNotices : StatusNotices[k].name # "VolumeChanged")
              => server.volume = current.volume
<1> DEFINE S == [name |-> "StateChanged", state |-> server.state]
           V == [name |-> "VolumeChanged", volume |-> server.volume]
<1>1. CASE server.state # current.state /\ server.volume # current.volume
  <2>1. StatusNotices = <<S>> \o <<V>>
    BY <1>1 DEF StatusNotices
  <2>2. <<S>> \in Seq({S, V}) /\ <<V>> \in Seq({S, V})
    OBVIOUS
  <2>3. /\ DOMAIN StatusNotices = 1..2
        /\ StatusNotices[1] = S /\ StatusNotices[2] = V
    BY <2>1, <2>2
  <2> QED
    BY <1>1, <2>3
<1>2. CASE server.state # current.state /\ server.volume = current.volume
  <2>1. StatusNotices = <<S>>
    BY <1>2 DEF StatusNotices
  <2>2. /\ DOMAIN <<S>> = 1..1 /\ <<S>>[1] = S
    OBVIOUS
  <2> QED
    BY <1>2, <2>1, <2>2
<1>3. CASE server.state = current.state /\ server.volume # current.volume
  <2>1. StatusNotices = <<V>>
    BY <1>3 DEF StatusNotices
  <2>2. /\ DOMAIN <<V>> = 1..1 /\ <<V>>[1] = V
    OBVIOUS
  <2> QED
    BY <1>3, <2>1, <2>2
<1>4. CASE server.state = current.state /\ server.volume = current.volume
  <2>1. StatusNotices = <<>>
    BY <1>4 DEF StatusNotices
  <2> QED
    BY <1>4, <2>1
<1> QED
  BY <1>1, <1>2, <1>3, <1>4

\* The status is taken over, and every difference is posted.
LEMMA StatusStep ==
  ASSUME ControlsInv, StatusUpdate
  PROVE  LastNoticeIsCurrent' /\ StateIsShown' /\ VolumeIsShown'
<1> DEFINE n == Len(notices)
<1>1. /\ notices \in Seq(Notice) /\ StatusNotices \in Seq(Notice)
      /\ notices' = notices \o StatusNotices
      /\ current' = server /\ updating' = FALSE
      /\ UNCHANGED <<windowVars, commands, server, hidden>>
  BY StatusNoticesTyped DEF ControlsInv, PlayerTypeOK, StatusUpdate
<1>2. /\ n \in Nat /\ DOMAIN notices = 1..n
      /\ DOMAIN notices' = 1..(n + Len(StatusNotices))
      /\ Len(StatusNotices) \in Nat /\ DOMAIN StatusNotices = 1..Len(StatusNotices)
      /\ \A i \in DOMAIN notices : notices'[i] = notices[i]
      /\ \A k \in DOMAIN StatusNotices : notices'[n + k] = StatusNotices[k]
  BY <1>1
<1>3. \A k \in DOMAIN StatusNotices : n + k \in DOMAIN notices'
  BY <1>2
<1>4. ASSUME NEW name, NoNotice(name)'
      PROVE  /\ NoNotice(name)
             /\ \A k \in DOMAIN StatusNotices : StatusNotices[k].name # name
  <2>1. NoNotice(name)
    BY <1>2, <1>4 DEF NoNotice
  <2> QED
    BY <1>2, <1>3, <1>4, <2>1 DEF NoNotice
<1>5. ASSUME NEW name, NEW i \in DOMAIN notices', IsLast(i, name)', i <= n
      PROVE  /\ i \in DOMAIN notices /\ IsLast(i, name)
             /\ \A k \in DOMAIN StatusNotices : StatusNotices[k].name # name
  <2>1. i \in DOMAIN notices
    BY <1>2, <1>5
  <2>2. IsLast(i, name)
    BY <1>2, <1>5, <2>1 DEF IsLast
  <2>3. ASSUME NEW k \in DOMAIN StatusNotices
        PROVE  StatusNotices[k].name # name
    <3>1. n + k \in DOMAIN notices' /\ n + k > i
      BY <1>2, <1>3, <2>1
    <3> QED
      BY <1>2, <1>5, <3>1 DEF IsLast
  <2> QED
    BY <2>1, <2>2, <2>3
<1>6. LastNoticeIsCurrent'
  <2> SUFFICES ASSUME NEW i \in DOMAIN notices'
               PROVE  /\ IsLast(i, "StateChanged")' => notices'[i].state = server.state
                      /\ IsLast(i, "VolumeChanged")' => notices'[i].volume = server.volume
    BY <1>1 DEF LastNoticeIsCurrent
  <2>1. CASE i <= n
    BY <1>2, <1>5, <2>1, StatusNoticesTell DEF LastNoticeIsCurrent, ControlsInv
  <2>2. CASE i > n
    <3>1. i - n \in DOMAIN StatusNotices /\ notices'[i] = StatusNotices[i - n]
      BY <1>2, <2>2
    <3> QED
      BY <3>1, StatusNoticesTell DEF IsLast, ControlsInv
  <2> QED
    BY <1>2, <2>1, <2>2
<1>7. server.state # "unknown" /\ server.volume # -1
  BY PlayerAssumption DEF ControlsInv, PlayerTypeOK, States
<1>8. StateIsShown'
  BY <1>1, <1>4, <1>7, StatusNoticesTell DEF StateIsShown, ControlsInv, windowVars
<1>9. VolumeIsShown'
  <2> SUFFICES ASSUME NoNotice("VolumeChanged")', ~hidden
               PROVE  slider = server.volume \/ SliderIsSent
    BY <1>1 DEF VolumeIsShown, SliderIsSent, windowVars
  <2>1. NoNotice("VolumeChanged") /\ server.volume = current.volume
    BY <1>4, StatusNoticesTell DEF ControlsInv
  <2> QED
    BY <1>7, <2>1 DEF VolumeIsShown, ControlsInv
<1> QED
  BY <1>6, <1>8, <1>9

\* A slider's value that is sent reaches the player, and another client that
\* changes it before its status is fetched hides it.
LEMMA PlayerStep ==
  ASSUME ControlsInv,
         ServeCommand \/ \E state \in States, volume \in Volumes :
                           OthersChange([state |-> state, volume |-> volume])
  PROVE  LastNoticeIsCurrent' /\ StateIsShown' /\ VolumeIsShown'
<1>1. UNCHANGED <<mCurrentState, slider, notices, current>>
  BY DEF ServeCommand, OthersChange, windowVars
<1>2. LastNoticeIsCurrent' /\ StateIsShown'
  BY <1>1, NoticesUntouched DEF ControlsInv
<1>3. CASE ServeCommand
  <2>1. /\ commands \in Seq(Command) /\ commands # <<>> /\ ~updating
        /\ commands' = Tail(commands) /\ updating' = TRUE
        /\ server' = AfterCommand(Head(commands)) /\ UNCHANGED hidden
    BY <1>3 DEF ServeCommand, ControlsInv, PlayerTypeOK
  <2>2. SliderIsSent => SliderIsSent' \/ slider = server'.volume
    <3> SUFFICES ASSUME NEW i \in DOMAIN commands,
                        commands[i].op = "volume", commands[i].volume = slider
                 PROVE  SliderIsSent' \/ slider = server'.volume
      BY DEF SliderIsSent
    <3>1. /\ Len(commands) \in Nat /\ DOMAIN commands = 1..Len(commands)
          /\ DOMAIN Tail(commands) = 1..(Len(commands) - 1)
          /\ Head(commands) = commands[1]
          /\ \A j \in 1..(Len(commands) - 1) : Tail(commands)[j] = commands[j + 1]
      BY <2>1, HeadTailProperties
    <3>2. CASE i = 1
      <4>1. server' = [server EXCEPT !.volume = Clamped(slider)]
        BY <2>1, <3>1, <3>2 DEF AfterCommand
      <4>2. Clamped(slider) = slider
        BY PlayerAssumption DEF Clamped, ControlsInv, PlayerTypeOK
      <4> QED
        BY <4>1, <4>2 DEF ControlsInv, PlayerTypeOK
    <3>3. CASE i # 1
      <4>1. i - 1 \in DOMAIN Tail(commands) /\ Tail(commands)[i - 1] = commands[i]
        BY <3>1, <3>3
      <4> QED
        BY <1>1, <2>1, <4>1 DEF SliderIsSent
    <3> QED
      BY <3>2, <3>3
  <2> QED
    BY <1>1, <1>2, <2>1, <2>2 DEF VolumeIsShown, NoNotice, ControlsInv
<1>4. ASSUME NEW state \in States, NEW volume \in Volumes,
             OthersChange([state |-> state, volume |-> volume])
      PROVE  VolumeIsShown'
  <2>1. /\ server' = [state |-> state, volume |-> volume]
        /\ hidden' = (hidden \/ (updating /\ volume # server.volume))
        /\ UNCHANGED <<commands, updating>>
    BY <1>4 DEF OthersChange
  <2>2. updating /\ slider = server.volume => hidden' \/ slider' = server'.volume
    BY <1>1, <2>1
  <2>3. hidden => hidden'
    BY <2>1
  <2> QED
    BY <1>1, <2>1, <2>2, <2>3 DEF VolumeIsShown, NoNotice, SliderIsSent, ControlsInv
<1> QED
  BY <1>2, <1>3, <1>4

LEMMA ControlsStep ==
  ASSUME ControlsInv, [PlayerNext]_playerVars
  PROVE  ControlsInv'
<1>1. PlayerTypeOK'
  BY TypeStep DEF ControlsInv
<1>2. CASE UNCHANGED playerVars
  <2>1. UNCHANGED <<mCurrentState, slider, commands, notices, current, updating, server, hidden>>
    BY <1>2 DEF playerVars, windowVars
  <2> QED
    BY <1>1, <2>1, NoticesUntouched DEF ControlsInv, VolumeIsShown, NoNotice, SliderIsSent
<1>3. CASE PlayerNext
  BY <1>1, <1>3, CommandStep, HandleStep, StatusStep, PlayerStep DEF PlayerNext, ControlsInv
<1> QED
  BY <1>2, <1>3

\* When nothing is on its way, no notice waits and libmpd's copy is the server's
\* status, so that the button and the slider show the player, in whatever order
\* the user and other clients changed it; a volume the slider hides is excepted.
THEOREM ControlsFollow == PlayerSpec => []ControlsFollowPlayer
<1>1. PlayerInit => ControlsInv
  BY PlayerTypeInit, ControlsInitInv DEF ControlsInv
<1>2. ASSUME ControlsInv
      PROVE  ControlsFollowPlayer
  <2> SUFFICES ASSUME Settled
               PROVE  mCurrentState = server.state /\ (slider = server.volume \/ hidden)
    BY DEF ControlsFollowPlayer
  <2>1. NoNotice("StateChanged") /\ NoNotice("VolumeChanged") /\ ~SliderIsSent
    BY DEF Settled, NoNotice, SliderIsSent
  <2>2. server.state # "unknown" /\ server.volume # -1
    BY <1>2, PlayerAssumption DEF ControlsInv, PlayerTypeOK, States
  <2> QED
    BY <1>2, <2>1, <2>2 DEF Settled, ControlsInv, StateIsShown, VolumeIsShown
<1> QED
  BY <1>1, <1>2, ControlsStep, PTL DEF PlayerSpec

-----------------------------------------------------------------------------
(* SeekScheduler.  While something is pending, what the user wants is what *)
(* was scheduled last; and a time set last that is not forgotten is that of *)
(* the youngest timer, so that a seek is left out only as a recent         *)
(* repetition.                                                             *)


WantedIsLastRequest ==
  seekRequests # <<>> => wanted = seekRequests[Len(seekRequests)]

WantedIsScheduled ==
  seekRequests = <<>> /\ mSeekTimer # NoTime => wanted = mSeekTimer

LastSetTimeIsRecent ==
  mLastSetTime # NoTime => resets # <<>> /\ mLastSetTime = resets[Len(resets)]

SeekInv ==
  /\ SeekTypeOK
  /\ WantedIsLastRequest
  /\ WantedIsScheduled
  /\ LastSetTimeIsRecent
  /\ SeekArrives

LEMMA AppendLast ==
  ASSUME NEW S, NEW s \in Seq(S), NEW e \in S
  PROVE  /\ Append(s, e) \in Seq(S)
         /\ Append(s, e) # <<>>
         /\ Append(s, e)[Len(Append(s, e))] = e
  OBVIOUS

LEMMA TailLast ==
  ASSUME NEW S, NEW s \in Seq(S), s # <<>>
  PROVE  /\ Head(s) \in S /\ Tail(s) \in Seq(S)
         /\ Len(s) \in DOMAIN s
         /\ Tail(s) = <<>> => Head(s) = s[Len(s)]
         /\ Tail(s) # <<>> => Tail(s)[Len(Tail(s))] = s[Len(s)]
  <1>1. Len(s) \in Nat \ {0} /\ DOMAIN s = 1..Len(s)
    BY EmptySeq
  <1>2. /\ Head(s) \in S /\ Head(s) = s[1]
        /\ Tail(s) \in Seq(S) /\ Len(Tail(s)) = Len(s) - 1
        /\ \A i \in 1..Len(Tail(s)) : Tail(s)[i] = s[i + 1]
    BY HeadTailProperties
  <1>3. ASSUME Tail(s) = <<>> PROVE Head(s) = s[Len(s)]
    <2>1. Len(Tail(s)) = 0
      <3>1. Len(<<>>) = 0
        OBVIOUS
      <3> QED
        BY <1>3, <3>1, Zenon
    <2>2. Len(s) = 1
      <3>1. Len(s) \in Nat /\ 0 = Len(s) - 1
        BY <1>1, <1>2, <2>1
      <3> QED
        BY <3>1
    <2> QED
      BY <1>2, <2>2
  <1>4. ASSUME Tail(s) # <<>> PROVE Tail(s)[Len(Tail(s))] = s[Len(s)]
    <2>1. Len(Tail(s)) \in 1..Len(Tail(s))
      BY <1>2, <1>4, EmptySeq
    <2> QED
      BY <1>1, <1>2, <2>1
  <1> QED
    BY <1>1, <1>2, <1>3, <1>4

LEMMA SeekInitInv == SeekInit => SeekInv
  <1> SUFFICES ASSUME SeekInit PROVE SeekInv
    OBVIOUS
  <1>1. SeekTypeOK
    BY EmptySeq DEF SeekInit, SeekTypeOK
  <1>2. WantedIsLastRequest /\ WantedIsScheduled /\ LastSetTimeIsRecent /\ SeekArrives
    BY DEF SeekInit, WantedIsLastRequest, WantedIsScheduled, LastSetTimeIsRecent, SeekArrives
  <1> QED
    BY <1>1, <1>2 DEF SeekInv

LEMMA SeekNextInv == SeekInv /\ [SeekNext]_seekVars => SeekInv'
  <1> SUFFICES ASSUME SeekInv, [SeekNext]_seekVars PROVE SeekInv'
    OBVIOUS
  <1> USE DEF SeekInv, SeekTypeOK, WantedIsLastRequest, WantedIsScheduled,
              LastSetTimeIsRecent, SeekArrives, SeekPending
  <1>0. Times \subseteq Nat /\ NoTime \notin Nat
    BY SeekAssumption DEF NoTime
  <1>1. ASSUME NEW time \in Times, SeekSliderChanged(time) PROVE SeekInv'
    <2>1. time # NoTime
      BY <1>0
    <2>2. /\ seekRequests' \in Seq(Times) /\ seekRequests' # <<>>
          /\ seekRequests'[Len(seekRequests')] = time
      BY <1>1, AppendLast DEF SeekSliderChanged
    <2> QED
      BY <1>1, <2>1, <2>2 DEF SeekSliderChanged
  <1>2. CASE ScheduleSeek
    BY <1>2, TailLast DEF ScheduleSeek
  <1>3. CASE SkipSeek
    <2>1. resets # <<>> /\ mSeekTimer = resets[Len(resets)]
      BY <1>3 DEF SkipSeek
    <2>2. Len(resets) \in DOMAIN resets
      BY <2>1, TailLast
    <2>3. repeated' = (seekRequests = <<>>)
      BY <1>3, <2>1, <2>2 DEF SkipSeek
    <2> QED
      BY <1>3, <2>3 DEF SkipSeek
  <1>4. CASE Seek
    <2>1. mSeekTimer \in Times /\ mSeekTimer # NoTime
      BY <1>4 DEF Seek
    <2>2. /\ resets' \in Seq(Times) /\ resets' # <<>>
          /\ mLastSetTime' = resets'[Len(resets')]
      BY <1>4, <2>1, AppendLast DEF Seek
    <2>3. CASE cachedSong = NoSong
      BY <1>4, <2>1, <2>2, <2>3 DEF Seek
    <2>4. CASE cachedSong # NoSong
      BY <1>4, <2>1, <2>2, <2>4 DEF Seek
    <2> QED
      BY <2>3, <2>4
  <1>5. CASE ResetLastSetTime
    BY <1>5, TailLast DEF ResetLastSetTime
  <1>6. ASSUME NEW song \in Positions \cup {NoSong}, PlayerMoves(song) PROVE SeekInv'
    BY <1>6 DEF PlayerMoves
  <1>7. CASE PollSong
    BY <1>7 DEF PollSong
  <1>8. CASE UNCHANGED seekVars
    BY <1>8 DEF seekVars
  <1> QED
    BY <1>1, <1>2, <1>3, <1>4, <1>5, <1>6, <1>7, <1>8 DEF SeekNext

LEMMA SeekInvariant == SeekSpec => []SeekInv
  BY SeekInitInv, SeekNextInv, PTL DEF SeekSpec

\* Every variable of SeekScheduler has its type.
THEOREM SeekTypeCorrect == SeekSpec => []SeekTypeOK
  <1>1. SeekInv => SeekTypeOK
    BY DEF SeekInv
  <1> QED
    BY <1>1, SeekInvariant, PTL

\* Once nothing is pending, scheduleSeek:withDelay: and its two timers have left
\* the song where the user dragged the slider last, or left the seek out as a
\* repetition less than 0.2 seconds old.
THEOREM SeeksArrive == SeekSpec => []SeekArrives
  <1>1. SeekInv => SeekArrives
    BY DEF SeekInv
  <1> QED
    BY <1>1, SeekInvariant, PTL

-----------------------------------------------------------------------------
(* RemoteControl: a hold ends with its key, and a press acts once.         *)


\* A key that is up is waited for, or held, only after a missed release; and a
\* hold that no release is awaited for is one whose release was missed.
HoldsAreAccountedFor ==
  /\ lastHoldEvent # NoKey /\ key = NoKey => missed
  /\ _held /\ key = NoKey => missed
  /\ _held /\ ~lastEventSimulatedHold => missed

\* While the key is down, the press has been a hold or nothing yet, and the
\* behavior knows which; a click comes last.
EffectsAreKnown ==
  /\ "hold" \in effects /\ key # NoKey => lastEventSimulatedHold
  /\ "click" \in effects => key = NoKey /\ lastHoldEvent = NoKey
  /\ heard => listening /\ remoteConnected
  /\ heard /\ key # NoKey /\ lastEventSimulatedHold => "hold" \in effects

RemoteInv ==
  /\ RemoteTypeOK
  /\ HoldsAreAccountedFor
  /\ EffectsAreKnown
  /\ HoldOnlyWhileDown
  /\ EveryPressActsOnce

LEMMA RemoteInitInv == RemoteInit => RemoteInv
  <1> SUFFICES ASSUME RemoteInit PROVE RemoteInv
    OBVIOUS
  <1> USE DEF RemoteInit
  <1>1. RemoteTypeOK
    <2>1. 0 \in 0..MaxPresses
      BY RemoteAssumption
    <2> QED
      BY <2>1 DEF RemoteTypeOK
  <1>2. HoldsAreAccountedFor
    BY DEF HoldsAreAccountedFor
  <1>3. EffectsAreKnown
    BY DEF EffectsAreKnown
  <1>4. HoldOnlyWhileDown
    BY DEF HoldOnlyWhileDown
  <1>5. EveryPressActsOnce
    <2>1. effects = {} /\ ~(presses > 0)
      OBVIOUS
    <2>2. effects # {"click", "hold"}
      BY <2>1
    <2> QED
      BY <2>1, <2>2 DEF EveryPressActsOnce
  <1> QED
    BY <1>1, <1>2, <1>3, <1>4, <1>5 DEF RemoteInv

(* What the press of a hold does once the timer has decided that it is one *)
LEMMA HoldPressedType ==
  ASSUME RemoteTypeOK, NEW k \in VolumeKeys, HoldPressed(k), lastHoldEventTime \in 1..MaxPresses
  PROVE  /\ _held' \in BOOLEAN /\ repeats' \subseteq VolumeKeys \X (1..MaxPresses)
         /\ effects' \subseteq {"click", "hold"}
         /\ step' \in VolumeKeys \cup {NoKey}
         /\ effects \subseteq effects' /\ effects' \subseteq effects \cup {"hold"}
         /\ remoteConnected => "hold" \in effects'
         /\ ~remoteConnected => effects' = effects
  <1>1. CASE remoteConnected
    <2>1. <<k, lastHoldEventTime>> \in VolumeKeys \X (1..MaxPresses)
      OBVIOUS
    <2>2. /\ _held' = TRUE /\ repeats' \in {repeats, repeats \cup {<<k, lastHoldEventTime>>}}
          /\ effects' = effects \cup {"hold"} /\ step' = k
      BY <1>1 DEF HoldPressed
    <2>3. repeats' \subseteq VolumeKeys \X (1..MaxPresses)
      BY <2>1, <2>2 DEF RemoteTypeOK
    <2> QED
      BY <1>1, <2>2, <2>3 DEF RemoteTypeOK
  <1>2. CASE ~remoteConnected
    <2>1. UNCHANGED <<_held, repeats, effects>> /\ step' = NoKey
      BY <1>2 DEF HoldPressed, controllerVars
    <2> QED
      BY <1>2, <2>1 DEF RemoteTypeOK
  <1> QED
    BY <1>1, <1>2

LEMMA RemoteNextInv == RemoteInv /\ [RemoteNext]_remoteVars => RemoteInv'
  <1> SUFFICES ASSUME RemoteInv, [RemoteNext]_remoteVars PROVE RemoteInv'
    OBVIOUS
  <1> USE RemoteAssumption
      DEF RemoteInv, RemoteTypeOK, HoldsAreAccountedFor, EffectsAreKnown, HoldOnlyWhileDown,
          EveryPressActsOnce
  <1>1. ASSUME NEW k \in VolumeKeys, Press(k) PROVE RemoteInv'
    <2>1. presses + 1 \in 1..MaxPresses
      BY <1>1 DEF Press
    <2>2. /\ lastHoldEvent' \in VolumeKeys \cup {NoKey}
          /\ lastHoldEventTime' \in 0..MaxPresses
          /\ holdTimers' \subseteq 1..MaxPresses
          /\ presses' \in 0..MaxPresses
      <3>1. /\ presses' = presses + 1
            /\ \/ /\ lastHoldEvent' = k /\ lastHoldEventTime' = presses + 1
                  /\ holdTimers' = holdTimers \cup {presses + 1}
               \/ UNCHANGED <<lastHoldEvent, lastHoldEventTime, holdTimers>>
        BY <1>1 DEF Press
      <3>2. presses + 1 \in 0..MaxPresses
        BY <2>1
      <3>3. presses' \in 0..MaxPresses
        BY <3>1, <3>2
      <3>4. lastHoldEvent' \in VolumeKeys \cup {NoKey} /\ lastHoldEventTime' \in 0..MaxPresses
        BY <3>1, <3>2
      <3>5. holdTimers' \subseteq 1..MaxPresses
        BY <2>1, <3>1
      <3> QED
        BY <3>3, <3>4, <3>5
    <2>3. key' \in VolumeKeys /\ key' # NoKey /\ effects' = {} /\ step' = NoKey
      BY <1>1 DEF Press
    <2>4. heard' = (listening /\ remoteConnected /\ ~lastEventSimulatedHold)
      BY <1>1 DEF Press
    <2>5. UNCHANGED <<lastEventSimulatedHold, _held, repeats, remoteConnected, listening, missed>>
      BY <1>1 DEF Press, controllerVars, linkVars
    <2>6. {"click", "hold"} # {}
      OBVIOUS
    <2>7. RemoteTypeOK'
      BY <2>2, <2>3, <2>4, <2>5 DEF RemoteTypeOK
    <2>8. HoldsAreAccountedFor' /\ EffectsAreKnown' /\ HoldOnlyWhileDown'
      BY <2>3, <2>4, <2>5
    <2>9. EveryPressActsOnce'
      BY <2>3, <2>6
    <2> QED
      BY <2>7, <2>8, <2>9
  <1>2. CASE Release
    BY <1>2 DEF Release, Click, HoldReleased, controllerVars, linkVars
  <1>3. ASSUME NEW time \in holdTimers, SendSimulatedHoldEvent(time) PROVE RemoteInv'
    <2>1. CASE lastHoldEvent # NoKey /\ lastHoldEventTime = time
      BY <1>3, <2>1, HoldPressedType DEF SendSimulatedHoldEvent, HoldPressed, controllerVars, linkVars
    <2>2. CASE ~(lastHoldEvent # NoKey /\ lastHoldEventTime = time)
      BY <1>3, <2>2 DEF SendSimulatedHoldEvent, controllerVars, linkVars
    <2> QED
      BY <2>1, <2>2
  <1>4. ASSUME NEW r \in repeats, RepeatStep(r) PROVE RemoteInv'
    BY <1>4 DEF RepeatStep, behaviorVars, linkVars, userVars
  <1>5. CASE LinkChanges
    BY <1>5 DEF LinkChanges, behaviorVars, controllerVars
  <1>6. CASE UNCHANGED remoteVars
    BY <1>6 DEF remoteVars, behaviorVars, controllerVars, linkVars, userVars
  <1> QED
    BY <1>1, <1>2, <1>3, <1>4, <1>5, <1>6 DEF RemoteNext

LEMMA RemoteInvariant == RemoteSpec => []RemoteInv
  BY RemoteInitInv, RemoteNextInv, PTL DEF RemoteSpec

\* Every variable of RemoteControl has its type.
THEOREM RemoteTypeCorrect == RemoteSpec => []RemoteTypeOK
  <1>1. RemoteInv => RemoteTypeOK
    BY DEF RemoteInv
  <1> QED
    BY <1>1, RemoteInvariant, PTL

\* AppleRemoteController changes the volume again only while the key is down, or
\* after its release was missed.
THEOREM HoldsEnd == RemoteSpec => []HoldOnlyWhileDown
  <1>1. RemoteInv => HoldOnlyWhileDown
    BY DEF RemoteInv
  <1> QED
    BY <1>1, RemoteInvariant, PTL

\* Whatever the order of timers and releases, MultiClickRemoteBehavior makes of a
\* press a click or a hold, not both, and not nothing.
THEOREM PressesActOnce == RemoteSpec => []EveryPressActsOnce
  <1>1. RemoteInv => EveryPressActsOnce
    BY DEF RemoteInv
  <1> QED
    BY <1>1, RemoteInvariant, PTL

-----------------------------------------------------------------------------
(* AlbumNavigation.                                                        *)


(* A set of natural numbers has a least element.                           *)
LEMMA LeastExists ==
  ASSUME NEW S \in SUBSET Nat, S # {}
  PROVE  \E x \in S : \A y \in S : x <= y
<1>1. PICK x \in S : \A y \in S : ~(<<y, x>> \in OpToRel(<, Nat))
  BY NatLessThanWellFounded, WFMin
<1>2. ASSUME NEW y \in S PROVE x <= y
  <2>1. <<y, x>> \notin {ss \in Nat \X Nat : ss[1] < ss[2]}
    BY <1>1 DEF OpToRel
  <2> QED BY <2>1
<1> QED BY <1>2

LEMMA MinOfPositions ==
  ASSUME NEW S \in SUBSET Nat, S # {}
  PROVE  Min(S) \in S /\ \A i \in S : Min(S) <= i
<1>1. PICK x \in S : \A y \in S : x =< y
  BY LeastExists
<1> QED BY <1>1 DEF Min

(* So has a set with a bound a greatest one: the distances from the bound  *)
(* have a least one.                                                       *)
LEMMA MaxOfPositions ==
  ASSUME NEW n \in Nat, NEW S \in SUBSET (0..n), S # {}
  PROVE  Max(S) \in S /\ \A i \in S : i <= Max(S)
<1> DEFINE T == {n - i : i \in S}
<1>1. T \in SUBSET Nat /\ T # {}
  <2>1. \A i \in S : n - i \in Nat
    OBVIOUS
  <2> QED BY <2>1
<1>2. PICK d \in T : \A e \in T : d <= e
  BY <1>1, LeastExists
<1>3. PICK x \in S : d = n - x
  BY <1>2
<1>4. \A i \in S : x >= i
  <2> TAKE i \in S
  <2>1. d <= n - i
    BY <1>2
  <2> QED BY <1>3, <2>1
<1>5. Max(S) \in S /\ \A i \in S : Max(S) >= i
  BY <1>4 DEF Max
<1> QED BY <1>5

\* No song of the range is of the album
SameAlbum(first, last, album) == \A i \in first..last : AlbumAt(i) = album

(* The songs of a range are of one album, or the first and the last that   *)
(* are not are songs of the range.                                         *)
LEMMA OthersOfRange ==
  ASSUME NEW first \in Nat, NEW last \in Int, NEW album
  PROVE  LET others == OthersIn(first..last, album)
         IN /\ others = {} <=> SameAlbum(first, last, album)
            /\ others # {} =>
                 /\ Min(others) \in first..last /\ AlbumAt(Min(others)) # album
                 /\ SameAlbum(first, Min(others) - 1, album)
                 /\ Max(others) \in first..last /\ AlbumAt(Max(others)) # album
                 /\ SameAlbum(Max(others) + 1, last, album)
<1> DEFINE others == OthersIn(first..last, album)
<1>1. \A i : i \in others <=> i \in first..last /\ AlbumAt(i) # album
  BY DEF OthersIn
<1>2. others \in SUBSET Nat /\ others \in SUBSET (0..last)
      /\ (others # {} => last \in Nat)
  <2>1. \A i \in first..last : i \in Nat /\ i \in 0..last /\ last \in Nat
    OBVIOUS
  <2> QED BY <1>1, <2>1
<1>3. others = {} <=> SameAlbum(first, last, album)
  BY <1>1 DEF SameAlbum
<1> HIDE DEF others
<1>4. ASSUME others # {}
      PROVE  /\ Min(others) \in first..last /\ AlbumAt(Min(others)) # album
             /\ SameAlbum(first, Min(others) - 1, album)
             /\ Max(others) \in first..last /\ AlbumAt(Max(others)) # album
             /\ SameAlbum(Max(others) + 1, last, album)
  <2>1. Min(others) \in others /\ \A i \in others : Min(others) <= i
    BY <1>2, <1>4, MinOfPositions
  <2>2. Max(others) \in others /\ \A i \in others : i <= Max(others)
    BY <1>2, <1>4, MaxOfPositions
  <2>3. Min(others) \in first..last /\ Max(others) \in first..last
        /\ AlbumAt(Min(others)) # album /\ AlbumAt(Max(others)) # album
    BY <1>1, <2>1, <2>2
  <2>4. SameAlbum(first, Min(others) - 1, album)
    <3> SUFFICES ASSUME NEW i \in first..Min(others) - 1, AlbumAt(i) # album PROVE FALSE
      BY DEF SameAlbum
    <3>1. i \in first..last /\ i < Min(others)
      BY <2>3
    <3> QED BY <1>1, <2>1, <2>3, <3>1
  <2>5. SameAlbum(Max(others) + 1, last, album)
    <3> SUFFICES ASSUME NEW i \in Max(others) + 1..last, AlbumAt(i) # album PROVE FALSE
      BY DEF SameAlbum
    <3>1. i \in first..last /\ i > Max(others)
      BY <2>3
    <3> QED BY <1>1, <2>2, <2>3, <3>1
  <2> QED BY <2>3, <2>4, <2>5
<1> QED BY <1>3, <1>4 DEF others

(* Where an album begins, if its songs do not go round the end of the list, *)
(* is at or before its song m, with songs of the album in between.         *)
LEMMA BeginningIsOfAlbum ==
  ASSUME NEW m \in Nat, BeginningOfAlbumWithPosition(m) # NoSkip
  PROVE  /\ BeginningOfAlbumWithPosition(m) \in 0..m
         /\ SameAlbum(BeginningOfAlbumWithPosition(m), m, AlbumAt(m))
<1> DEFINE others == OthersIn(0..(m - 1), AlbumAt(m))
           b == BeginningOfAlbumWithPosition(m)
<1>1. CASE m = 0
  <2>1. b = 0
    BY <1>1 DEF BeginningOfAlbumWithPosition
  <2>2. SameAlbum(0, 0, AlbumAt(0))
    BY DEF SameAlbum
  <2> QED BY <1>1, <2>1, <2>2
<1>2. CASE m # 0 /\ others # {}
  <2>1. /\ Max(others) \in 0..(m - 1)
        /\ SameAlbum(Max(others) + 1, m - 1, AlbumAt(m))
    BY <1>2, OthersOfRange
  <2>2. b = Max(others) + 1
    BY <1>2 DEF BeginningOfAlbumWithPosition
  <2>3. SameAlbum(b, m, AlbumAt(m))
    <3>1. \A i \in b..m : i = m \/ i \in Max(others) + 1..m - 1
      BY <2>1, <2>2
    <3> QED BY <2>1, <3>1 DEF SameAlbum
  <2> QED BY <2>1, <2>2, <2>3
<1>3. CASE m # 0 /\ others = {}
  <2>1. SameAlbum(0, m - 1, AlbumAt(m))
    BY <1>3, OthersOfRange
  <2>2. b = 0
    BY <1>3 DEF BeginningOfAlbumWithPosition
  <2>3. \A i \in 0..m : i = m \/ i \in 0..m - 1
    OBVIOUS
  <2>4. SameAlbum(0, m, AlbumAt(m))
    BY <2>1, <2>3 DEF SameAlbum
  <2> QED BY <2>2, <2>4
<1> QED BY <1>1, <1>2, <1>3

(* Next album goes to the first song after those of the same album.        *)
LEMMA NextAlbumIsAfter ==
  ASSUME LastRow \in Int, NEW position \in Nat, NEW m \in Nat, m >= position, m < LastRow,
         AlbumAt(position) # NoAlbum,
         SameAlbum(position, m, AlbumAt(position)), AlbumAt(m + 1) # AlbumAt(position)
  PROVE  SongOfNextAlbum(position) = m + 1
<1> DEFINE after == OthersIn(position..LastRow, AlbumAt(position))
<1>1. m + 1 \in after
  BY DEF OthersIn
<1>2. /\ Min(after) \in position..LastRow /\ AlbumAt(Min(after)) # AlbumAt(position)
      /\ SameAlbum(position, Min(after) - 1, AlbumAt(position))
  BY <1>1, OthersOfRange
<1>3. SongOfNextAlbum(position) = Min(after)
  BY <1>1 DEF SongOfNextAlbum, Skips
<1> HIDE DEF after
<1>4. ~(Min(after) <= m)
  BY <1>2 DEF SameAlbum
<1>5. ~(m + 1 <= Min(after) - 1)
  BY <1>2 DEF SameAlbum
<1> QED BY <1>2, <1>3, <1>4, <1>5

(* From an album at the end of the list, next album goes to the first song *)
(* of the list, if that is not of the album too.                           *)
LEMMA NextAlbumGoesRound ==
  ASSUME LastRow \in Nat, NEW position \in 0..LastRow,
         AlbumAt(position) # NoAlbum,
         SameAlbum(position, LastRow, AlbumAt(position)), AlbumAt(0) # AlbumAt(position)
  PROVE  SongOfNextAlbum(position) = 0
<1> DEFINE after == OthersIn(position..LastRow, AlbumAt(position))
           before == OthersIn(0..(position - 1), AlbumAt(position))
<1>1. after = {}
  BY OthersOfRange
<1>2. 0 \in before
  <2>1. position # 0
    OBVIOUS
  <2> QED BY <2>1 DEF OthersIn
<1>3. /\ Min(before) \in 0..position - 1
      /\ SameAlbum(0, Min(before) - 1, AlbumAt(position))
  BY <1>2, OthersOfRange
<1>4. SongOfNextAlbum(position) = Min(before)
  BY <1>1, <1>2 DEF SongOfNextAlbum, Skips
<1> HIDE DEF before
<1>5. ~(0 <= Min(before) - 1)
  BY <1>3 DEF SameAlbum
<1> QED BY <1>3, <1>4, <1>5

(* For any list, not only one that TLC tries.                              *)
LEMMA PreviousThenNext ==
  ASSUME albums \in Seq(Albums \cup {NoAlbum}), NEW from \in Int,
         SongOfPreviousAlbum(from) # NoSkip, AlbumAt(SongOfPreviousAlbum(from)) # NoAlbum
  PROVE  LET next == SongOfNextAlbum(SongOfPreviousAlbum(from))
         IN next \in 0..LastRow /\ AlbumAt(next) = AlbumAt(from)
<1> DEFINE a == AlbumAt(from)
           before == OthersIn(0..from, a)
           after == OthersIn((from + 1)..LastRow, a)
           q == SongOfPreviousAlbum(from)
<1>1. from \in 0..LastRow /\ a # NoAlbum /\ LastRow \in Nat
  <2>1. Skips(from)
    BY DEF SongOfPreviousAlbum
  <2>2. LastRow \in Int
    BY DEF LastRow
  <2> QED BY <2>1, <2>2 DEF Skips
<1>2. CASE before # {}
  <2> DEFINE m == Max(before)
  <2>1. /\ m \in 0..from /\ AlbumAt(m) # a /\ SameAlbum(m + 1, from, a)
    BY <1>1, <1>2, OthersOfRange
  <2>2. q = BeginningOfAlbumWithPosition(m)
    BY <1>1, <1>2 DEF SongOfPreviousAlbum, Skips
  <2> HIDE DEF m, before, after, q
  <2>3. q \in 0..m /\ SameAlbum(q, m, AlbumAt(m))
    BY <2>1, <2>2, BeginningIsOfAlbum DEF q
  <2>4. m # from
    BY <2>1 DEF a
  <2>5. AlbumAt(m + 1) = a /\ m < LastRow /\ AlbumAt(q) = AlbumAt(m)
    BY <1>1, <2>1, <2>3, <2>4 DEF SameAlbum
  <2>6. SongOfNextAlbum(q) = m + 1
    BY <1>1, <2>1, <2>3, <2>5, NextAlbumIsAfter DEF q
  <2> QED BY <1>1, <2>1, <2>5, <2>6 DEF q
<1>3. CASE before = {} /\ after # {}
  <2> DEFINE m == Max(after)
  <2>1. SameAlbum(0, from, a)
    BY <1>1, <1>3, OthersOfRange
  <2>2. /\ m \in (from + 1)..LastRow /\ AlbumAt(m) # a /\ SameAlbum(m + 1, LastRow, a)
    BY <1>1, <1>3, OthersOfRange
  <2>3. q = BeginningOfAlbumWithPosition(m)
    BY <1>1, <1>3 DEF SongOfPreviousAlbum, Skips
  <2> HIDE DEF m, before, after, q
  <2>4. m \in Nat /\ q \in 0..m /\ SameAlbum(q, m, AlbumAt(m))
    BY <1>1, <2>2, <2>3, BeginningIsOfAlbum DEF q
  <2>5. AlbumAt(q) = AlbumAt(m) /\ AlbumAt(0) = a
    BY <1>1, <2>1, <2>4 DEF SameAlbum
  <2>6. CASE m < LastRow
    <3>1. AlbumAt(m + 1) = a
      BY <1>1, <2>2, <2>4, <2>6 DEF SameAlbum
    <3>2. SongOfNextAlbum(q) = m + 1
      BY <1>1, <2>2, <2>4, <2>5, <2>6, <3>1, NextAlbumIsAfter DEF q
    <3> QED BY <1>1, <2>4, <2>6, <3>1, <3>2 DEF q
  <2>7. CASE m = LastRow
    <3>1. SongOfNextAlbum(q) = 0
      BY <1>1, <2>2, <2>4, <2>5, <2>7, NextAlbumGoesRound DEF q
    <3> QED BY <1>1, <2>5, <3>1 DEF q
  <2> QED BY <1>1, <2>2, <2>6, <2>7
<1>4. CASE before = {} /\ after = {}
  <2>1. SameAlbum(0, from, a) /\ SameAlbum(from + 1, LastRow, a)
    BY <1>1, <1>4, OthersOfRange
  <2>2. SameAlbum(0, LastRow, a) /\ AlbumAt(0) = a
    <3>1. \A i \in 0..LastRow : i \in 0..from \/ i \in from + 1..LastRow
      BY <1>1
    <3> QED BY <1>1, <2>1, <3>1 DEF SameAlbum
  <2>3. q = 0
    BY <1>1, <1>4 DEF SongOfPreviousAlbum, Skips
  <2>4. OthersIn(0..LastRow, AlbumAt(0)) = {}
    BY <1>1, <2>2, OthersOfRange
  <2>5. OthersIn(0..0 - 1, AlbumAt(0)) = {}
    BY DEF OthersIn
  <2>6. SongOfNextAlbum(0) = 0
    BY <1>1, <2>2, <2>4, <2>5 DEF SongOfNextAlbum, Skips
  <2> QED BY <1>1, <2>2, <2>3, <2>6
<1> QED BY <1>2, <1>3, <1>4

(* The two commands go to a song of the list, or nowhere.                  *)
LEMMA SkipsStayInList ==
  ASSUME albums \in Seq(Albums \cup {NoAlbum}), NEW from \in Int
  PROVE  /\ SongOfNextAlbum(from) \in (0..LastRow) \cup {NoSkip}
         /\ SongOfPreviousAlbum(from) \in (0..LastRow) \cup {NoSkip}
<1> DEFINE a == AlbumAt(from)
<1>1. LastRow \in Int
  BY DEF LastRow
<1>2. SongOfNextAlbum(from) \in (0..LastRow) \cup {NoSkip}
  <2> DEFINE after == OthersIn(from..LastRow, a)
             before == OthersIn(0..(from - 1), a)
  <2>1. CASE ~Skips(from)
    BY <2>1 DEF SongOfNextAlbum
  <2>2. CASE Skips(from)
    <3>1. from \in 0..LastRow
      BY <2>2 DEF Skips
    <3>2. after # {} => Min(after) \in 0..LastRow
      BY <1>1, <3>1, OthersOfRange
    <3>3. before # {} => Min(before) \in 0..LastRow
      BY <1>1, <3>1, OthersOfRange
    <3> QED BY <1>1, <3>1, <3>2, <3>3 DEF SongOfNextAlbum
  <2> QED BY <2>1, <2>2
<1>3. SongOfPreviousAlbum(from) \in (0..LastRow) \cup {NoSkip}
  <2> DEFINE before == OthersIn(0..from, a)
             after == OthersIn((from + 1)..LastRow, a)
  <2>1. CASE ~Skips(from)
    BY <2>1 DEF SongOfPreviousAlbum
  <2>2. CASE Skips(from)
    <3>1. from \in 0..LastRow
      BY <2>2 DEF Skips
    <3>2. ASSUME NEW m \in 0..LastRow
          PROVE  BeginningOfAlbumWithPosition(m) \in (0..LastRow) \cup {NoSkip}
      BY <1>1, BeginningIsOfAlbum
    <3>3. before # {} => Max(before) \in 0..LastRow
      BY <1>1, <3>1, OthersOfRange
    <3>4. after # {} => Max(after) \in 0..LastRow
      BY <1>1, <3>1, OthersOfRange
    <3> QED BY <1>1, <3>1, <3>2, <3>3, <3>4 DEF SongOfPreviousAlbum
  <2> QED BY <2>1, <2>2
<1> QED BY <1>2, <1>3

AlbumInv == AlbumTypeOK /\ Len(albums) <= MaxSongs

(* Positions are those of lists of at most MaxSongs songs.                 *)
LEMMA AlbumInvStep ==
  /\ AlbumInit => AlbumInv
  /\ AlbumInv /\ [AlbumNext]_albumVars => AlbumInv'
<1>1. AlbumInit => AlbumInv
  BY AlbumAssumption DEF AlbumInit, AlbumInv, AlbumTypeOK
<1>2. ASSUME AlbumInv, [AlbumNext]_albumVars
      PROVE  AlbumInv'
  <2>1. ASSUME NEW i \in Int, i \in -1..LastRow, SkipToSong(i)
        PROVE  AlbumInv'
    BY <1>2, <2>1, AlbumAssumption DEF AlbumInv, AlbumTypeOK, SkipToSong, LastRow
  <2>2. CASE NextAlbum
    <3>1. SongOfNextAlbum(mCurrentPlayingSongPosition) \in 0..LastRow
      BY <1>2, <2>2, SkipsStayInList, AlbumAssumption
         DEF AlbumInv, AlbumTypeOK, NextAlbum, SkipToSong
    <3> QED BY <2>1, <2>2, <3>1 DEF NextAlbum
  <2>3. CASE PrevAlbum
    <3>1. SongOfPreviousAlbum(mCurrentPlayingSongPosition) \in 0..LastRow
      BY <1>2, <2>3, SkipsStayInList, AlbumAssumption
         DEF AlbumInv, AlbumTypeOK, PrevAlbum, SkipToSong
    <3> QED BY <2>1, <2>3, <3>1 DEF PrevAlbum
  <2>4. CASE PositionChanges
    BY <2>1, <2>4 DEF PositionChanges
  <2>5. CASE FetchedPlaylist
    BY <1>2, <2>5, AlbumAssumption DEF AlbumInv, AlbumTypeOK, FetchedPlaylist
  <2>6. CASE UNCHANGED albumVars
    BY <1>2, <2>6 DEF AlbumInv, AlbumTypeOK, albumVars
  <2> QED BY <1>2, <2>2, <2>3, <2>4, <2>5, <2>6 DEF AlbumNext
<1> QED BY <1>1, <1>2

(* The position is always that of a list that is not too long, although it  *)
(* need not be one of the list that is there by now.                       *)
THEOREM AlbumTypeCorrect == AlbumSpec => []AlbumTypeOK
<1>1. AlbumInv => AlbumTypeOK
  BY DEF AlbumInv
<1> QED BY <1>1, AlbumInvStep, PTL DEF AlbumSpec

(* Previous album and then next album lead back to the album that one came *)
(* from, for any list of songs and from any position in it, round the end  *)
(* of the list too; whatever list and position notifications bring.        *)
THEOREM AlbumsComeBack == AlbumSpec => []NextUndoesPrevious
<1>1. AlbumInv => NextUndoesPrevious
  <2> SUFFICES ASSUME AlbumInv PROVE NextUndoesPrevious
    OBVIOUS
  <2>1. albums \in Seq(Albums \cup {NoAlbum}) /\ mCurrentPlayingSongPosition \in Int
    BY AlbumAssumption DEF AlbumInv, AlbumTypeOK
  <2> QED BY <2>1, PreviousThenNext, AlbumAssumption DEF NextUndoesPrevious
<1> QED BY <1>1, AlbumInvStep, PTL DEF AlbumSpec
=============================================================================
