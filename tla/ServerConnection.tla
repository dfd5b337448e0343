-------------------------- MODULE ServerConnection --------------------------
(***************************************************************************)
(* The life of the connection to the MPD server, as the main thread        *)
(* (WindowController) and the client threads (MusicServerClient and        *)
(* MpdMusicServerClient over libmpd) run it.                               *)
(*                                                                         *)
(* The main thread talks to one client object, mClient, that lives on a    *)
(* thread of its own, through a Distributed Objects proxy: oneway messages *)
(* wait in order in requests[c].  A client answers by posting              *)
(* notifications on the main thread, which handles them in order from      *)
(* mainQueue.  Selecting a profile stops the client and starts another one *)
(* on a new thread.                                                        *)
(*                                                                         *)
(* A client serves messages whenever its run loop spins, and it spins in   *)
(* three places: in the thread's own loop; inside connectToServerWithProfile*)
(* each time it asks the main thread for a field of the profile, which is  *)
(* a proxy (before it connects, to name a server that it could not reach,  *)
(* to name one that wants a password); and inside the same method while it *)
(* waits for the user's password.  frames[c] is the stack of calls of      *)
(* connectToServerWithProfile in progress on the thread of c, the innermost*)
(* first.                                                                  *)
(***************************************************************************)
EXTENDS Integers, Sequences, FiniteSets

CONSTANTS
  Clients,        \* client objects, each with its own thread, used once
  Profiles,       \* the profiles of the preferences, one server each
  AutoReconnect,  \* profiles whose "autoreconnect" is on
  Locked,         \* profiles whose server wants a password for "status"
  OldServers,     \* profiles whose server is older than MPD 0.12
  SavedAtStart,   \* the keychain contents to start from
  Commands,       \* what the user does: "connect", "disconnect", "switch"
  PatientUser,    \* TRUE: the user commands only a settled application
  NoClient,       \* mClient = nil
  MaxRequests,    \* bound on the messages that wait for a client
  MaxQueue,       \* bound on the notifications that wait for the main thread
  MaxDepth,       \* bound on nested connectToServerWithProfile calls
  MaxModal,       \* bound on nested password dialogs
  MaxCrashes      \* bound on server failures

Passwords == {"right", "wrong"}
NoPassword == "none"

\* The values of mPassword that are nil in the code, told apart by their cause.
NilPasswords == {"unset", "used", "canceled"}

ASSUME ClientsAssumption == Clients # {} /\ NoClient \notin Clients
ASSUME ProfilesAssumption ==
  /\ Profiles # {}
  /\ AutoReconnect \subseteq Profiles
  /\ Locked \subseteq Profiles
  /\ OldServers \subseteq Profiles
  /\ SavedAtStart \subseteq [Profiles -> Passwords \cup {NoPassword}]
ASSUME UserAssumption ==
  /\ Commands \subseteq {"connect", "disconnect", "switch"}
  /\ PatientUser \in BOOLEAN
ASSUME BoundsAssumption ==
  /\ MaxRequests \in Nat /\ MaxQueue \in Nat /\ MaxDepth \in Nat
  /\ MaxModal \in Nat /\ MaxCrashes \in Nat

VARIABLES
  \* WindowController and the other main-thread observers
  mClient, currentProfile, mDisableAutoreconnectOnce, mAutoreconnectTimer,
  modal,               \* nested runModalForWindow sessions of the password panel
  toolbarEnabled,      \* MainPlayerToolbarController's enabled items
  \* the two message channels
  requests, mainQueue,
  announced,           \* last connection notification that each client posted
  \* the client threads
  thread, stop, frames, mPassword, mSetPasswordCalled,
  mMpdTimer,           \* mMpdTimer is set and its timer repeats
  strayTimer,          \* a repeating timer runs that mMpdTimer lost track of
  \* the MpdObj of libmpd
  host, link, allowed, libPassword,
  \* the world outside the program
  saved,               \* passwords in the keychain
  serverUp, crashes

mainVars == <<mClient, currentProfile, mDisableAutoreconnectOnce,
              mAutoreconnectTimer, modal, toolbarEnabled>>
authVars == <<mPassword, mSetPasswordCalled>>
timerVars == <<mMpdTimer, strayTimer>>
mpdVars == <<host, link, allowed, libPassword>>
worldVars == <<saved, serverUp, crashes>>
vars == <<mainVars, requests, mainQueue, announced, thread, stop, frames,
          authVars, timerVars, mpdVars, worldVars>>

-----------------------------------------------------------------------------
Names == {"Connecting", "RequiresAuthentication", "Connected", "Disconnected"}
Reasons == {"none", "asked", "lost", "canceled", "unreachable"}
Notification == [from : Clients, name : Names, reason : Reasons]

Request ==
  [op : {"connect"}, profile : Profiles]
    \cup [op : {"disconnect"}]
    \cup [op : {"authenticate"}, password : Passwords \cup {"canceled"}]

\* What a connectToServerWithProfile waits for: the profile's fields, its
\* hostname for the report of a failure, its hostname and port for the password
\* dialog, the password
Frame == [phase : {"asking", "failing", "naming", "waiting"}, profile : Profiles]

\* "up" and "broken" are connected for libmpd: it learns that the server is
\* gone only when it next talks to it.  The others are not connected: never
\* connected, lost to the server's failure, closed by Theremin.
Links == {"none", "up", "broken", "lost", "closed"}

TypeOK ==
  /\ mClient \in Clients \cup {NoClient}
  /\ currentProfile \in Profiles
  /\ mDisableAutoreconnectOnce \in BOOLEAN
  /\ mAutoreconnectTimer \in BOOLEAN
  /\ modal \in Nat
  /\ toolbarEnabled \in BOOLEAN
  /\ requests \in [Clients -> Seq(Request)]
  /\ mainQueue \in Seq(Notification)
  /\ announced \in [Clients -> Names \cup {"none"}]
  /\ thread \in [Clients -> {"unborn", "starting", "running", "exited"}]
  /\ stop \in [Clients -> BOOLEAN]
  /\ frames \in [Clients -> Seq(Frame)]
  /\ mPassword \in [Clients -> Passwords \cup NilPasswords]
  /\ mSetPasswordCalled \in [Clients -> BOOLEAN]
  /\ mMpdTimer \in [Clients -> BOOLEAN]
  /\ strayTimer \in [Clients -> BOOLEAN]
  /\ host \in [Clients -> Profiles \cup {"none"}]
  /\ link \in [Clients -> Links]
  /\ allowed \in [Clients -> BOOLEAN]
  /\ libPassword \in [Clients -> Passwords \cup {NoPassword}]
  /\ saved \in [Profiles -> Passwords \cup {NoPassword}]
  /\ serverUp \in [Profiles -> BOOLEAN]
  /\ crashes \in Nat

\* awakeFromNib calls setupConnectionWithMusicClient: the first thread runs.
Init ==
  /\ mClient = NoClient
  /\ currentProfile \in Profiles
  /\ mDisableAutoreconnectOnce = FALSE
  /\ mAutoreconnectTimer = FALSE
  /\ modal = 0
  /\ toolbarEnabled = FALSE
  /\ requests = [c \in Clients |-> <<>>]
  /\ mainQueue = <<>>
  /\ announced = [c \in Clients |-> "none"]
  /\ \E first \in Clients :
       thread = [c \in Clients |-> IF c = first THEN "starting" ELSE "unborn"]
  /\ stop = [c \in Clients |-> FALSE]
  /\ frames = [c \in Clients |-> <<>>]
  /\ mPassword = [c \in Clients |-> "unset"]
  /\ mSetPasswordCalled = [c \in Clients |-> FALSE]
  /\ mMpdTimer = [c \in Clients |-> FALSE]
  /\ strayTimer = [c \in Clients |-> FALSE]
  /\ host = [c \in Clients |-> "none"]
  /\ link = [c \in Clients |-> "none"]
  /\ allowed = [c \in Clients |-> FALSE]
  /\ libPassword = [c \in Clients |-> NoPassword]
  /\ saved \in SavedAtStart
  /\ serverUp = [p \in Profiles |-> TRUE]
  /\ crashes = 0

-----------------------------------------------------------------------------
(* Operators shared by the actions.                                        *)

\* isConnected: mpd_check_connected
IsConnected(c) == link[c] \in {"up", "broken"}

\* postNotificationOnMainThreadWithName: performSelectorOnMainThread, in order
Post(c, name, reason) ==
  /\ Len(mainQueue) < MaxQueue
  /\ mainQueue' = Append(mainQueue, [from |-> c, name |-> name, reason |-> reason])
  /\ announced' = [announced EXCEPT ![c] = name]

\* A oneway message to mClient; a message to nil is dropped.
Send(request) ==
  /\ mClient # NoClient => Len(requests[mClient]) < MaxRequests
  /\ requests' = [c \in Clients |-> IF c = mClient
                                      THEN Append(requests[c], request)
                                      ELSE requests[c]]

\* connectToServerWithProfile:currentProfile; MaxDepth bounds how deep the
\* calls of it can nest.
SendConnect ==
  /\ mClient # NoClient =>
       Len(frames[mClient]) + Len(requests[mClient]) < MaxDepth
  /\ Send([op |-> "connect", profile |-> currentProfile])

\* A synchronous message to c: c answers it after all it was sent before.
Drained(c) == requests[c] = <<>>

\* mpd_disconnect, for the cause given
Closed(c, cause) == [link EXCEPT ![c] = IF IsConnected(c) THEN cause ELSE @]

\* Mutants of DisconnectWithReason: mpd_disconnect left out, a closed connection
\* not announced again, mMpdTimer not invalidated
DisconnectLeavesLink(c, reason, cause) ==
  /\ UNCHANGED link
  /\ Post(c, "Disconnected", reason)
  /\ mMpdTimer' = [mMpdTimer EXCEPT ![c] = FALSE]

DisconnectIfConnected(c, reason, cause) ==
  /\ link' = Closed(c, cause)
  /\ IF IsConnected(c) THEN Post(c, "Disconnected", reason)
                       ELSE UNCHANGED <<mainQueue, announced>>
  /\ mMpdTimer' = [mMpdTimer EXCEPT ![c] = FALSE]

DisconnectLeavesTimer(c, reason, cause) ==
  /\ link' = Closed(c, cause)
  /\ Post(c, "Disconnected", reason)
  /\ UNCHANGED mMpdTimer

DisconnectWithReason(c, reason, cause) ==
  /\ link' = Closed(c, cause)
  /\ Post(c, "Disconnected", reason)
  /\ mMpdTimer' = [mMpdTimer EXCEPT ![c] = FALSE]

\* The innermost connectToServerWithProfile of c goes on to the phase given.
Enters(c, phase) ==
  frames' = [frames EXCEPT ![c] =
               <<[phase |-> phase, profile |-> Head(@).profile]>> \o Tail(@)]

\* The end of connectToServerWithProfile's loop: either the server allows
\* "status", or the user is to be asked for a password once more.
AnnounceOrAsk(c, ok) ==
  \/ /\ ok
     /\ Post(c, "Connected", "none")
     /\ frames' = [frames EXCEPT ![c] = Tail(@)]
     /\ mMpdTimer' = [mMpdTimer EXCEPT ![c] = TRUE]
     /\ strayTimer' = [strayTimer EXCEPT ![c] = @ \/ mMpdTimer[c]]
  \/ /\ ~ok
     /\ Enters(c, "naming")
     /\ UNCHANGED <<mainQueue, announced, timerVars>>

\* Nothing is under way, and what the clients announced is still so: what a
\* user sees who waits for each outcome, the report of a loss included.
Settled ==
  /\ modal = 0
  /\ mainQueue = <<>>
  /\ \A c \in Clients :
       /\ thread[c] # "starting"
       /\ Drained(c)
       /\ frames[c] = <<>>
       /\ announced[c] = "Connected" => IsConnected(c) \/ stop[c]

UserMay(command) == command \in Commands /\ (PatientUser => Settled)

-----------------------------------------------------------------------------
(* The main thread.                                                        *)

\* setMusicClient:, a synchronous message from the new thread, served in the
\* default mode of the main run loop only
SetMusicClient(c) ==
  /\ thread[c] = "starting"
  /\ modal = 0
  /\ thread' = [thread EXCEPT ![c] = "running"]
  /\ mClient' = c
  /\ requests' = [requests EXCEPT ![c] =
                    Append(@, [op |-> "connect", profile |-> currentProfile])]
  /\ UNCHANGED <<currentProfile, mDisableAutoreconnectOnce, mAutoreconnectTimer,
                 modal, toolbarEnabled, mainQueue, announced, stop, frames,
                 authVars, timerVars, mpdVars, worldVars>>

\* Mutants of SelectProfile: the old client stays mClient; it is not stopped
SwitchKeepsClient(p, c) ==
  /\ UserMay("switch")
  /\ thread[c] = "unborn"
  /\ mClient # NoClient => Drained(mClient)
  /\ currentProfile' = p
  /\ stop' = [d \in Clients |-> stop[d] \/ d = mClient]
  /\ mMpdTimer' = [d \in Clients |-> mMpdTimer[d] /\ d # mClient]
  /\ thread' = [thread EXCEPT ![c] = "starting"]
  /\ UNCHANGED <<mClient, mDisableAutoreconnectOnce, mAutoreconnectTimer, modal,
                 toolbarEnabled, requests, mainQueue, announced, frames,
                 authVars, strayTimer, mpdVars, worldVars>>

SwitchWithoutStop(p, c) ==
  /\ UserMay("switch")
  /\ thread[c] = "unborn"
  /\ mClient # NoClient => Drained(mClient)
  /\ currentProfile' = p
  /\ mClient' = NoClient
  /\ thread' = [thread EXCEPT ![c] = "starting"]
  /\ UNCHANGED <<mDisableAutoreconnectOnce, mAutoreconnectTimer, modal,
                 toolbarEnabled, requests, mainQueue, announced, stop, frames,
                 authVars, timerVars, mpdVars, worldVars>>

\* selectProfile: setCurrentProfile, then setupConnectionWithMusicClient with
\* its synchronous stop
SelectProfile(p, c) ==
  /\ UserMay("switch")
  /\ PatientUser => ~mAutoreconnectTimer   \* a pending reconnect goes first
  /\ thread[c] = "unborn"
  /\ mClient # NoClient => Drained(mClient)
  /\ currentProfile' = p
  /\ stop' = [d \in Clients |-> stop[d] \/ d = mClient]
  /\ mMpdTimer' = [d \in Clients |-> mMpdTimer[d] /\ d # mClient]
  /\ mClient' = NoClient
  /\ thread' = [thread EXCEPT ![c] = "starting"]
  /\ UNCHANGED <<mDisableAutoreconnectOnce, mAutoreconnectTimer, modal,
                 toolbarEnabled, requests, mainQueue, announced, frames,
                 authVars, strayTimer, mpdVars, worldVars>>

\* connect:, enabled by validateMenuItem while isConnected answers NO
UserConnect ==
  /\ UserMay("connect")
  /\ mClient # NoClient => Drained(mClient) /\ ~IsConnected(mClient)
  /\ mAutoreconnectTimer' = FALSE
  /\ SendConnect
  /\ UNCHANGED <<mClient, currentProfile, mDisableAutoreconnectOnce, modal,
                 toolbarEnabled, mainQueue, announced, thread, stop, frames,
                 authVars, timerVars, mpdVars, worldVars>>

\* A mutant of UserDisconnect: validateMenuItem lets it through without a client
DisconnectUnvalidated ==
  /\ UserMay("disconnect")
  /\ mDisableAutoreconnectOnce' = TRUE
  /\ Send([op |-> "disconnect"])
  /\ UNCHANGED <<mClient, currentProfile, mAutoreconnectTimer, modal,
                 toolbarEnabled, mainQueue, announced, thread, stop, frames,
                 authVars, timerVars, mpdVars, worldVars>>

\* disconnect:, enabled by validateMenuItem while isConnected answers YES
UserDisconnect ==
  /\ UserMay("disconnect")
  /\ mClient # NoClient
  /\ Drained(mClient)
  /\ IsConnected(mClient)
  /\ mDisableAutoreconnectOnce' = TRUE
  /\ Send([op |-> "disconnect"])
  /\ UNCHANGED <<mClient, currentProfile, mAutoreconnectTimer, modal,
                 toolbarEnabled, mainQueue, announced, thread, stop, frames,
                 authVars, timerVars, mpdVars, worldVars>>

\* The timer is scheduled in the default mode: it waits for modal sessions.
AutoreconnectTimerTriggered ==
  /\ mAutoreconnectTimer
  /\ modal = 0
  /\ mAutoreconnectTimer' = FALSE
  /\ SendConnect
  /\ UNCHANGED <<mClient, currentProfile, mDisableAutoreconnectOnce, modal,
                 toolbarEnabled, mainQueue, announced, thread, stop, frames,
                 authVars, timerVars, mpdVars, worldVars>>

\* A mutant of AnswerAuthentication: the button works without a dialog
AnswerUnasked(password, save) ==
  /\ Send([op |-> "authenticate", password |-> password])
  /\ modal' = modal - 1
  /\ UNCHANGED <<mClient, currentProfile, mDisableAutoreconnectOnce,
                 mAutoreconnectTimer, toolbarEnabled, mainQueue, announced,
                 thread, stop, frames, authVars, timerVars, mpdVars, worldVars>>

\* authenticationButtonPressed: ends the innermost modal session; the answer
\* goes to whatever client is current.
AnswerAuthentication(password, save) ==
  /\ modal > 0
  /\ save => password \in Passwords
  /\ saved' = IF save THEN [saved EXCEPT ![currentProfile] = password] ELSE saved
  /\ Send([op |-> "authenticate", password |-> password])
  /\ modal' = modal - 1
  /\ UNCHANGED <<mClient, currentProfile, mDisableAutoreconnectOnce,
                 mAutoreconnectTimer, toolbarEnabled, mainQueue, announced,
                 thread, stop, frames, authVars, timerVars, mpdVars,
                 serverUp, crashes>>

Handled(name) ==
  /\ mainQueue # <<>>
  /\ Head(mainQueue).name = name
  /\ mainQueue' = Tail(mainQueue)
  /\ UNCHANGED <<mClient, currentProfile, requests, announced, thread, stop,
                 frames, authVars, timerVars, mpdVars, worldVars>>

HandleConnecting ==
  /\ Handled("Connecting")
  /\ UNCHANGED <<mDisableAutoreconnectOnce, mAutoreconnectTimer, modal, toolbarEnabled>>

HandleConnected ==
  /\ Handled("Connected")
  /\ toolbarEnabled' = TRUE
  /\ UNCHANGED <<mDisableAutoreconnectOnce, mAutoreconnectTimer, modal>>

\* Mutants of HandleDisconnected: no retry of a failed attempt; the toolbar is
\* left alone after disconnect:
ReconnectOnlyLost ==
  /\ Handled("Disconnected")
  /\ toolbarEnabled' = FALSE
  /\ mDisableAutoreconnectOnce' = FALSE
  /\ mAutoreconnectTimer' =
       (mAutoreconnectTimer \/ (~mDisableAutoreconnectOnce
                                /\ Head(mainQueue).reason # "unreachable"))
  /\ UNCHANGED modal

ToolbarIgnoresAsked ==
  /\ Handled("Disconnected")
  /\ toolbarEnabled' = (toolbarEnabled /\ mDisableAutoreconnectOnce)
  /\ mDisableAutoreconnectOnce' = FALSE
  /\ mAutoreconnectTimer' = (mAutoreconnectTimer \/ ~mDisableAutoreconnectOnce)
  /\ UNCHANGED modal

\* clientDisconnected: of WindowController, disconnected: of the toolbar
HandleDisconnected ==
  /\ Handled("Disconnected")
  /\ toolbarEnabled' = FALSE
  /\ \/ /\ currentProfile \in AutoReconnect
        /\ mDisableAutoreconnectOnce
        /\ mDisableAutoreconnectOnce' = FALSE
        /\ UNCHANGED mAutoreconnectTimer
     \/ /\ currentProfile \in AutoReconnect
        /\ ~mDisableAutoreconnectOnce
        /\ mAutoreconnectTimer' = TRUE
        /\ UNCHANGED mDisableAutoreconnectOnce
     \/ /\ currentProfile \notin AutoReconnect
        /\ UNCHANGED <<mAutoreconnectTimer, mDisableAutoreconnectOnce>>
  /\ UNCHANGED modal

\* clientRequiredAuthentication: a modal session that handles what follows
HandleRequiresAuthentication ==
  /\ Handled("RequiresAuthentication")
  /\ modal < MaxModal
  /\ modal' = modal + 1
  /\ UNCHANGED <<mDisableAutoreconnectOnce, mAutoreconnectTimer, toolbarEnabled>>

-----------------------------------------------------------------------------
(* A client's thread.                                                      *)

Receives(c, op) ==
  /\ thread[c] = "running"
  /\ requests[c] # <<>>
  /\ Head(requests[c]).op = op
  /\ requests' = [requests EXCEPT ![c] = Tail(@)]
  /\ UNCHANGED <<mainVars, thread, stop, worldVars>>

\* connectToServerWithProfile: returns at once when connected
IgnoreConnect(c) ==
  /\ Receives(c, "connect")
  /\ IsConnected(c)
  /\ UNCHANGED <<mainQueue, announced, frames, authVars, timerVars, mpdVars>>

\* A mutant of BeginConnect: the attempt is not announced
BeginSilently(c) ==
  /\ Receives(c, "connect")
  /\ ~IsConnected(c)
  /\ frames' = [frames EXCEPT ![c] =
                  <<[phase |-> "asking", profile |-> Head(requests[c]).profile]>> \o @]
  /\ UNCHANGED <<mainQueue, announced, authVars, timerVars, mpdVars>>

\* ... and otherwise announces the attempt and asks for the profile's fields
BeginConnect(c) ==
  /\ Receives(c, "connect")
  /\ ~IsConnected(c)
  /\ Post(c, "Connecting", "none")
  /\ frames' = [frames EXCEPT ![c] =
                  <<[phase |-> "asking", profile |-> Head(requests[c]).profile]>> \o @]
  /\ UNCHANGED <<authVars, timerVars, mpdVars>>

ServeDisconnect(c) ==
  /\ Receives(c, "disconnect")
  /\ DisconnectWithReason(c, "asked", "closed")
  /\ UNCHANGED <<frames, authVars, strayTimer, host, allowed, libPassword>>

\* Mutants of ServeAuthenticate: "cancel" does not end the wait; the password
\* is not stored
CancelIsNoAnswer(c) ==
  /\ Receives(c, "authenticate")
  /\ mPassword' = [mPassword EXCEPT ![c] = Head(requests[c]).password]
  /\ mSetPasswordCalled' = [mSetPasswordCalled EXCEPT ![c] =
                              @ \/ Head(requests[c]).password # "canceled"]
  /\ UNCHANGED <<mainQueue, announced, frames, timerVars, mpdVars>>

AnswerNotStored(c) ==
  /\ Receives(c, "authenticate")
  /\ mSetPasswordCalled' = [mSetPasswordCalled EXCEPT ![c] = TRUE]
  /\ UNCHANGED <<mPassword, mainQueue, announced, frames, timerVars, mpdVars>>

\* setAuthenticationInformation:
ServeAuthenticate(c) ==
  /\ Receives(c, "authenticate")
  /\ mPassword' = [mPassword EXCEPT ![c] = Head(requests[c]).password]
  /\ mSetPasswordCalled' = [mSetPasswordCalled EXCEPT ![c] = TRUE]
  /\ UNCHANGED <<mainQueue, announced, frames, timerVars, mpdVars>>

InPhase(c, phase) ==
  /\ thread[c] = "running"
  /\ frames[c] # <<>>
  /\ Head(frames[c]).phase = phase
  /\ UNCHANGED <<mainVars, requests, thread, stop, worldVars>>

\* The main thread answers a proxy in its default mode only.
Answered(c, phase) == InPhase(c, phase) /\ modal = 0

\* The fields of the profile have come.  mpd_connect fails, as it also does,
\* but connected, on an old server; the report asks for the hostname again.
ConnectFails(c) ==
  LET p == Head(frames[c]).profile IN
  /\ Answered(c, "asking")
  /\ ~serverUp[p] \/ p \in OldServers
  /\ host' = [host EXCEPT ![c] = p]
  /\ libPassword' = [libPassword EXCEPT ![c] =
                       IF saved[p] # NoPassword THEN saved[p] ELSE @]
  /\ link' = [link EXCEPT ![c] = IF serverUp[p] THEN "up" ELSE "none"]
  /\ Enters(c, "failing")
  /\ UNCHANGED <<mainQueue, announced, authVars, timerVars, allowed>>

\* The hostname has come, and meanwhile c may have served other messages.
ReportFailure(c) ==
  /\ Answered(c, "failing")
  /\ Post(c, "Disconnected", "unreachable")
  /\ frames' = [frames EXCEPT ![c] = Tail(@)]
  /\ UNCHANGED <<authVars, timerVars, mpdVars>>

\* mpd_connect succeeds; libmpd sends the password it knows.
ConnectSucceeds(c) ==
  LET p == Head(frames[c]).profile
      password == IF saved[p] # NoPassword THEN saved[p] ELSE libPassword[c]
      ok == p \notin Locked \/ password = "right"
  IN
  /\ Answered(c, "asking")
  /\ serverUp[p] /\ p \notin OldServers
  /\ host' = [host EXCEPT ![c] = p]
  /\ libPassword' = [libPassword EXCEPT ![c] = password]
  /\ link' = [link EXCEPT ![c] = "up"]
  /\ allowed' = [allowed EXCEPT ![c] = ok]
  /\ AnnounceOrAsk(c, ok)
  /\ UNCHANGED authVars

\* The server's name has come: what the client was told before is forgotten.
AskForPassword(c) ==
  /\ Answered(c, "naming")
  /\ Post(c, "RequiresAuthentication", "none")
  /\ mSetPasswordCalled' = [mSetPasswordCalled EXCEPT ![c] = FALSE]
  /\ Enters(c, "waiting")
  /\ UNCHANGED <<mPassword, timerVars, mpdVars>>

\* The wait for the password ends; mPassword nil means "cancel".
ResumeCanceled(c) ==
  /\ InPhase(c, "waiting")
  /\ mSetPasswordCalled[c]
  /\ mPassword[c] \in NilPasswords
  /\ DisconnectWithReason(c, "canceled", "closed")
  /\ frames' = [frames EXCEPT ![c] = Tail(@)]
  /\ UNCHANGED <<authVars, strayTimer, host, allowed, libPassword>>

\* The password is sent, which is where libmpd may notice a broken link; of a
\* command's permission libmpd says "allowed" when it is not connected.
ResumeWithPassword(c) ==
  LET accepted == allowed[c] \/ (link[c] = "up" /\ mPassword[c] = "right") IN
  /\ InPhase(c, "waiting")
  /\ mSetPasswordCalled[c]
  /\ mPassword[c] \notin NilPasswords
  /\ libPassword' = [libPassword EXCEPT ![c] = mPassword[c]]
  /\ mPassword' = [mPassword EXCEPT ![c] = "used"]
  /\ link' = [link EXCEPT ![c] = IF @ = "broken" THEN "lost" ELSE @]
  /\ allowed' = [allowed EXCEPT ![c] = accepted]
  /\ AnnounceOrAsk(c, link[c] # "up" \/ accepted)
  /\ UNCHANGED <<mSetPasswordCalled, host>>

\* mpdTimerTriggered: finds that the connection is gone.  Its timers fire in
\* the default mode, that is not while c asks the main thread for something.
MpdTimerTriggered(c) ==
  /\ thread[c] = "running"
  /\ mMpdTimer[c] \/ strayTimer[c]
  /\ frames[c] # <<>> => Head(frames[c]).phase = "waiting"
  /\ link[c] # "up"
  /\ DisconnectWithReason(c, "lost", "lost")
  /\ UNCHANGED <<mainVars, requests, thread, stop, frames, authVars, strayTimer,
                 host, allowed, libPassword, worldVars>>

\* A mutant of ExitThread: a connected client does not leave
ExitUnconnected(c) ==
  /\ thread[c] = "running"
  /\ stop[c]
  /\ frames[c] = <<>>
  /\ ~IsConnected(c)
  /\ thread' = [thread EXCEPT ![c] = "exited"]
  /\ UNCHANGED <<mainVars, requests, mainQueue, announced, stop, frames, authVars,
                 timerVars, mpdVars, worldVars>>

\* connectWithPorts: leaves its loop and releases the client, which closes
\* the connection without a word.
ExitThread(c) ==
  /\ thread[c] = "running"
  /\ stop[c]
  /\ frames[c] = <<>>
  /\ thread' = [thread EXCEPT ![c] = "exited"]
  /\ link' = Closed(c, "closed")
  /\ mMpdTimer' = [mMpdTimer EXCEPT ![c] = FALSE]
  /\ strayTimer' = [strayTimer EXCEPT ![c] = FALSE]
  /\ UNCHANGED <<mainVars, requests, mainQueue, announced, stop, frames, authVars,
                 host, allowed, libPassword, worldVars>>

-----------------------------------------------------------------------------
(* The servers.                                                            *)

ServerFails(p) ==
  /\ serverUp[p]
  /\ crashes < MaxCrashes
  /\ crashes' = crashes + 1
  /\ serverUp' = [serverUp EXCEPT ![p] = FALSE]
  /\ link' = [c \in Clients |-> IF host[c] = p /\ link[c] = "up"
                                  THEN "broken" ELSE link[c]]
  /\ UNCHANGED <<mainVars, requests, mainQueue, announced, thread, stop, frames,
                 authVars, timerVars, host, allowed, libPassword, saved>>

ServerReturns(p) ==
  /\ ~serverUp[p]
  /\ serverUp' = [serverUp EXCEPT ![p] = TRUE]
  /\ UNCHANGED <<mainVars, requests, mainQueue, announced, thread, stop, frames,
                 authVars, timerVars, mpdVars, saved, crashes>>

-----------------------------------------------------------------------------
MainStep ==
  \/ HandleConnecting
  \/ HandleConnected
  \/ HandleDisconnected
  \/ HandleRequiresAuthentication
  \/ AutoreconnectTimerTriggered
  \/ \E c \in Clients : SetMusicClient(c)

UserStep ==
  \/ UserConnect
  \/ UserDisconnect
  \/ \E p \in Profiles, c \in Clients : SelectProfile(p, c)

AnswerStep ==
  \E password \in Passwords \cup {"canceled"}, save \in BOOLEAN :
    AnswerAuthentication(password, save)

ClientStep(c) ==
  \/ IgnoreConnect(c)
  \/ BeginConnect(c)
  \/ ServeDisconnect(c)
  \/ ServeAuthenticate(c)
  \/ ConnectFails(c)
  \/ ReportFailure(c)
  \/ ConnectSucceeds(c)
  \/ AskForPassword(c)
  \/ ResumeCanceled(c)
  \/ ResumeWithPassword(c)
  \/ MpdTimerTriggered(c)
  \/ ExitThread(c)

WorldStep == \E p \in Profiles : ServerFails(p) \/ ServerReturns(p)

Next ==
  \/ MainStep
  \/ UserStep
  \/ AnswerStep
  \/ \E c \in Clients : ClientStep(c)
  \/ WorldStep

Spec == Init /\ [][Next]_vars

\* Run loops keep turning: the main thread handles what is queued and fires
\* its timer, every client thread does the same, and the user answers a
\* password dialog in the end.  Nothing is assumed of commands and servers.
Fairness ==
  /\ WF_vars(MainStep)
  /\ WF_vars(AutoreconnectTimerTriggered)
  /\ \A c \in Clients : WF_vars(ClientStep(c))
  /\ WF_vars(AnswerStep)

FairSpec == Spec /\ Fairness
=============================================================================
