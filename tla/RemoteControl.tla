---------------------------- MODULE RemoteControl ----------------------------
(***************************************************************************)
(* The volume keys of the Apple Remote.  MultiClickRemoteBehavior tells a  *)
(* click from a hold, with a timer of 0.4 seconds for each press, and      *)
(* AppleRemoteController changes the volume, once for a click and every    *)
(* 0.25 seconds during a hold.  A change of the volume that raises is not  *)
(* repeated, as all do while the slider has no intValue (PlayerControls);  *)
(* both outcomes are modelled.                                             *)
(*                                                                         *)
(* A press or a release is heard only while the application listens, and   *)
(* acted upon only while it is connected, so that releases may be missed.  *)
(* Of the other keys, the press is passed on at once.  Click counting is   *)
(* off.                                                                    *)
(***************************************************************************)
EXTENDS Integers

CONSTANTS
  VolumeKeys,   \* plus and minus
  MaxPresses,   \* how often the user presses a key
  NoKey

ASSUME RemoteAssumption == NoKey \notin VolumeKeys /\ MaxPresses \in Nat

VARIABLES
  lastHoldEvent, lastHoldEventTime, lastEventSimulatedHold,
  holdTimers,      \* the times of the pending sendSimulatedHoldEvent
  _held,           \* _appleRemoteButtonHeld
  repeats,         \* the keys, with the times, whose volume step is pending
  remoteConnected, listening,
  key,             \* the key that the user holds down
  presses,         \* how often a key has been pressed, which is the time
  effects,         \* history: what the last press has done
  heard,           \* history: it was listened to and acted upon throughout
  missed,          \* history: the release of a held key was missed, and
                   \* its hold goes on
  step             \* history: the key of a repeated step of the volume, if
                   \* that is what happened last

behaviorVars == <<lastHoldEvent, lastHoldEventTime, lastEventSimulatedHold, holdTimers>>
controllerVars == <<_held, repeats>>
userVars == <<key, presses, effects, heard, missed>>
linkVars == <<remoteConnected, listening>>
remoteVars == <<behaviorVars, controllerVars, linkVars, userVars, step>>

RemoteTypeOK ==
  /\ lastHoldEvent \in VolumeKeys \cup {NoKey}
  /\ lastHoldEventTime \in 0..MaxPresses
  /\ lastEventSimulatedHold \in BOOLEAN
  /\ holdTimers \subseteq 1..MaxPresses
  /\ _held \in BOOLEAN
  /\ repeats \subseteq VolumeKeys \X (1..MaxPresses)
  /\ remoteConnected \in BOOLEAN /\ listening \in BOOLEAN
  /\ key \in VolumeKeys \cup {NoKey}
  /\ presses \in 0..MaxPresses
  /\ effects \subseteq {"click", "hold"}
  /\ heard \in BOOLEAN /\ missed \in BOOLEAN
  /\ step \in VolumeKeys \cup {NoKey}

RemoteInit ==
  /\ lastHoldEvent = NoKey /\ lastHoldEventTime = 0
  /\ lastEventSimulatedHold = FALSE /\ holdTimers = {}
  /\ _held = FALSE /\ repeats = {}
  /\ remoteConnected = TRUE /\ listening = TRUE
  /\ key = NoKey /\ presses = 0
  /\ effects = {} /\ heard = TRUE /\ missed = FALSE
  /\ step = NoKey

-----------------------------------------------------------------------------
(* AppleRemoteController, remoteButton:pressedDown:clickCount: with a      *)
(* click, and with the press or the release of a hold.                     *)

Click ==
  /\ effects' = IF remoteConnected THEN effects \cup {"click"} ELSE effects
  /\ UNCHANGED controllerVars

HoldPressed(k) ==
  IF remoteConnected
  THEN /\ _held' = TRUE
       /\ repeats' \in {repeats, repeats \cup {<<k, lastHoldEventTime>>}}
       /\ effects' = effects \cup {"hold"}
       /\ step' = k
  ELSE UNCHANGED <<controllerVars, effects>> /\ step' = NoKey

HoldReleased ==
  IF remoteConnected THEN _held' = FALSE /\ missed' = FALSE
  ELSE _held' = _held /\ missed' = _held

\* Whether it goes on is asked again before the step, but not whether there is
\* a connection.
RepeatStep(r) ==
  /\ r \in repeats
  /\ repeats' \in {repeats \ {r}} \cup (IF _held THEN {repeats} ELSE {})
  /\ step' = IF _held THEN r[1] ELSE NoKey
  /\ UNCHANGED <<behaviorVars, _held, linkVars, userVars>>

-----------------------------------------------------------------------------
(* MultiClickRemoteBehavior, sendRemoteButtonEvent:pressedDown: and the    *)
(* timer of a hold.                                                        *)

Press(k) ==
  /\ key = NoKey /\ presses < MaxPresses
  /\ key' = k
  /\ presses' = presses + 1
  /\ effects' = {}
  /\ heard' = (listening /\ remoteConnected /\ ~lastEventSimulatedHold)
  /\ IF listening
     THEN /\ lastHoldEvent' = k
          /\ lastHoldEventTime' = presses + 1
          /\ holdTimers' = holdTimers \cup {presses + 1}
     ELSE UNCHANGED <<lastHoldEvent, lastHoldEventTime, holdTimers>>
  /\ step' = NoKey
  /\ UNCHANGED <<lastEventSimulatedHold, controllerVars, linkVars, missed>>

\* Any timer ends the wait: mutant
SendHoldOfAnyTime(time) ==
  /\ time \in holdTimers
  /\ holdTimers' = holdTimers \ {time}
  /\ lastEventSimulatedHold' = TRUE
  /\ HoldPressed(lastHoldEvent)
  /\ UNCHANGED <<lastHoldEvent, lastHoldEventTime, linkVars, key, presses, heard, missed>>

\* 0.4 seconds after a press: it is a hold if the key was not released since.
SendSimulatedHoldEvent(time) ==
  /\ time \in holdTimers
  /\ holdTimers' = holdTimers \ {time}
  /\ IF lastHoldEvent # NoKey /\ lastHoldEventTime = time
     THEN lastEventSimulatedHold' = TRUE /\ HoldPressed(lastHoldEvent)
     ELSE UNCHANGED <<lastEventSimulatedHold, controllerVars, effects>> /\ step' = NoKey
  /\ UNCHANGED <<lastHoldEvent, lastHoldEventTime, linkVars, key, presses, heard, missed>>

\* A release always sends the click that it kept back: mutant
ReleaseWithClick ==
  /\ key # NoKey
  /\ key' = NoKey
  /\ lastHoldEvent' = NoKey /\ lastEventSimulatedHold' = FALSE
  /\ Click
  /\ missed' = missed
  /\ step' = NoKey
  /\ UNCHANGED <<lastHoldEventTime, holdTimers, linkVars, presses, heard>>

\* The release ends a hold, or sends the click that was kept back until now.
Release ==
  /\ key # NoKey
  /\ key' = NoKey
  /\ IF ~listening
     THEN /\ missed' = (_held \/ lastHoldEvent # NoKey)
          /\ UNCHANGED <<lastHoldEvent, lastEventSimulatedHold, controllerVars, effects>>
     ELSE /\ lastHoldEvent' = NoKey
          /\ lastEventSimulatedHold' = FALSE
          /\ IF lastEventSimulatedHold THEN HoldReleased /\ UNCHANGED <<repeats, effects>>
             ELSE Click /\ missed' = (missed /\ _held)
  /\ step' = NoKey
  /\ UNCHANGED <<lastHoldEventTime, holdTimers, linkVars, presses, heard>>

-----------------------------------------------------------------------------
\* The connection comes and goes, and so does the focus, with which the
\* application listens to the remote in the mode "when focused".
LinkChanges ==
  /\ \/ remoteConnected' = ~remoteConnected /\ listening' = listening
     \/ listening' = ~listening /\ remoteConnected' = remoteConnected
  /\ heard' = FALSE
  /\ step' = NoKey
  /\ UNCHANGED <<behaviorVars, controllerVars, key, presses, effects, missed>>

RemoteNext ==
  \/ \E k \in VolumeKeys : Press(k)
  \/ Release
  \/ \E time \in holdTimers : SendSimulatedHoldEvent(time)
  \/ \E r \in repeats : RepeatStep(r)
  \/ LinkChanges

RemoteSpec == RemoteInit /\ [][RemoteNext]_remoteVars

-----------------------------------------------------------------------------
\* The volume goes on changing only while a key is down, unless a release was
\* missed, which ends it only with the next hold.
HoldOnlyWhileDown == step # NoKey => key # NoKey \/ missed

\* A press is a click or a hold and never both, whenever its timer, that of an
\* earlier press, and its release come; and it is one of them by the time the
\* key is up, if the application listened and was connected throughout, and had
\* not missed the release of a hold before (of which this release is taken).
EveryPressActsOnce ==
  /\ effects # {"click", "hold"}
  /\ key = NoKey /\ presses > 0 /\ heard => effects # {}
=============================================================================
