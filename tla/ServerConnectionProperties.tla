--------------------- MODULE ServerConnectionProperties ---------------------
(***************************************************************************)
(* The correctness properties of ServerConnection.                         *)
(***************************************************************************)
EXTENDS ServerConnection

Live(c) == thread[c] = "running" /\ ~stop[c]

-----------------------------------------------------------------------------
(* Whatever the user does, and whenever.                                   *)

(* A connection is never left alone: once no connectToServerWithProfile is *)
(* in progress, a connected client has its status timer, the only thing    *)
(* that ever notices that the server is gone, however the attempts nested  *)
(* (what the client announced last may still be the failure of an outer    *)
(* attempt).                                                               *)
ConnectionIsMonitored ==
  \A c \in Clients :
    Live(c) /\ frames[c] = <<>> /\ IsConnected(c) => mMpdTimer[c]

(* "Connected" is never the last word on a connection that is gone: as     *)
(* long as it is what the client announced, mMpdTimer fires, even where it *)
(* was announced after the connection was lost during the password wait.   *)
AnnouncedMeansPolled ==
  \A c \in Clients : announced[c] = "Connected" /\ ~stop[c] => mMpdTimer[c]

(* The current client only ever has to do with the current profile's       *)
(* server, however the switches of selectProfile, the registrations by     *)
(* setMusicClient and the connect messages interleave.                     *)
TalksToCurrentProfile ==
  mClient # NoClient =>
    /\ host[mClient] \in {currentProfile, "none"}
    /\ \A i \in 1..Len(frames[mClient]) : frames[mClient][i].profile = currentProfile
    /\ \A i \in 1..Len(requests[mClient]) :
         requests[mClient][i].op = "connect" =>
           requests[mClient][i].profile = currentProfile

(* mDisableAutoreconnectOnce does not outlive the disconnect it was set    *)
(* for: while it is set, a disconnect message or a "Disconnected" that     *)
(* will clear it is still on its way, if every profile reconnects.         *)
DisableOnceIsPending ==
  mDisableAutoreconnectOnce =>
    \/ \E i \in 1..Len(mainQueue) : mainQueue[i].name = "Disconnected"
    \/ \E c \in Clients : \E i \in 1..Len(requests[c]) : requests[c][i].op = "disconnect"

-----------------------------------------------------------------------------
(* For a user who lets each connection attempt and each switch settle.     *)

(* There is one client: before another thread starts, the client of the    *)
(* profile left was told to stop (Directory.m:115 counts on it).           *)
OneClientAtATime ==
  \A c, d \in Clients :
    /\ thread[c] \in {"starting", "running"} /\ ~stop[c]
    /\ thread[d] \in {"starting", "running"} /\ ~stop[d]
    => c = d

(* No thread waits for a password that nobody was asked for: while the     *)
(* wait goes on, the request for it, its dialog or the answer is on its    *)
(* way.                                                                    *)
PasswordWaitIsServed ==
  \A c \in Clients :
    /\ frames[c] # <<>>
    /\ Head(frames[c]).phase = "waiting"
    /\ ~mSetPasswordCalled[c]
    => \/ \E i \in 1..Len(mainQueue) :
            mainQueue[i].from = c /\ mainQueue[i].name = "RequiresAuthentication"
       \/ modal > 0 /\ mClient = c
       \/ \E i \in 1..Len(requests[c]) : requests[c][i].op = "authenticate"

(* The main thread's idea of the connection follows the client: when the   *)
(* queue is empty, the toolbar is enabled exactly if the current client    *)
(* last announced "Connected", unless it is in the middle of an attempt.   *)
(* Nothing that a stopped client said comes in between.                    *)
ToolbarFollowsClient ==
  mainQueue = <<>> /\ mClient # NoClient =>
    /\ announced[mClient] = "Connected" => toolbarEnabled
    /\ announced[mClient] = "Disconnected" => ~toolbarEnabled

Posts(c, name, reason) ==
  mainQueue' = Append(mainQueue, [from |-> c, name |-> name, reason |-> reason])

(* "Lost connection with server." is never told of a connection that       *)
(* Theremin itself closed (MpdMusicServerClient.m:101).                    *)
LostMeansLost ==
  [][\A c \in Clients :
       Posts(c, "Disconnected", "lost") => link[c] # "closed"]_vars

(* "User canceled authentication request." is only told if the last answer *)
(* to the question for a password was "cancel"                             *)
(* (MpdMusicServerClient.m:283).                                           *)
CanceledMeansCanceled ==
  [][\A c \in Clients :
       Posts(c, "Disconnected", "canceled") => mPassword[c] = "canceled"]_vars

Lifecycle == INSTANCE ConnectionLifecycle WITH status <- announced

(* The announcements of every client go round the cycle that the observers *)
(* of the notifications expect.                                            *)
LifecycleRefined == Lifecycle!Spec

-----------------------------------------------------------------------------
(* Liveness, for a user who never disconnects and profiles that reconnect. *)

(* If from some time on the servers stay up, the application ends up       *)
(* connected and shows it, without the user's help, whatever failed        *)
(* before.                                                                 *)
Reconnects ==
  <>[](\A p \in Profiles : serverUp[p]) =>
    <>[](mClient # NoClient /\ IsConnected(mClient) /\ toolbarEnabled)

(* The thread of a client that was told to stop leaves, so that profile    *)
(* switches do not pile up threads.                                        *)
StoppedThreadLeaves ==
  \A c \in Clients : stop[c] ~> thread[c] = "exited"
=============================================================================
