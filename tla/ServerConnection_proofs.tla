----------------------- MODULE ServerConnection_proofs -----------------------
(***************************************************************************)
(* Proofs about ServerConnection, for all clients, profiles, users and     *)
(* bounds.                                                                 *)
(***************************************************************************)
EXTENDS ServerConnectionProperties, SequenceTheorems, TLAPS

-----------------------------------------------------------------------------
(* The operators that the actions share keep the types.                    *)

(* Posting a notification keeps the main thread's queue well formed.       *)
LEMMA PostType ==
  ASSUME TypeOK, NEW c \in Clients, NEW name \in Names, NEW reason \in Reasons,
         Post(c, name, reason)
  PROVE  /\ mainQueue' \in Seq(Notification)
         /\ announced' \in [Clients -> Names \cup {"none"}]
<1> DEFINE n == [from |-> c, name |-> name, reason |-> reason]
<1>1. n \in Notification
  BY DEF Notification
<1>2. mainQueue \in Seq(Notification) /\ announced \in [Clients -> Names \cup {"none"}]
  BY DEF TypeOK
<1>3. mainQueue' = Append(mainQueue, n)
  BY DEF Post
<1>4. mainQueue' \in Seq(Notification)
  BY <1>1, <1>2, <1>3, AppendProperties
<1>5. announced' \in [Clients -> Names \cup {"none"}]
  BY <1>2 DEF Post
<1> QED BY <1>4, <1>5

(* Sending a message keeps the clients' requests well formed.              *)
LEMMA SendType ==
  ASSUME TypeOK, NEW request \in Request, Send(request)
  PROVE  requests' \in [Clients -> Seq(Request)]
<1>1. requests \in [Clients -> Seq(Request)]
  BY DEF TypeOK
<1>2. ASSUME NEW c \in Clients
      PROVE  Append(requests[c], request) \in Seq(Request)
  BY <1>1, AppendProperties
<1> QED BY <1>1, <1>2 DEF Send

(* Taking a message leaves the others well formed.                         *)
LEMMA ReceivesType ==
  ASSUME TypeOK, NEW c \in Clients, NEW op, Receives(c, op)
  PROVE  /\ Head(requests[c]) \in Request
         /\ Head(requests[c]).op = op
         /\ requests' \in [Clients -> Seq(Request)]
<1>1. requests \in [Clients -> Seq(Request)]
  BY DEF TypeOK
<1>2. requests[c] \in Seq(Request) /\ requests[c] # <<>>
  BY <1>1 DEF Receives
<1>3. Head(requests[c]) \in Request /\ Tail(requests[c]) \in Seq(Request)
  BY <1>2, HeadTailProperties
<1>4. requests' = [requests EXCEPT ![c] = Tail(@)] /\ Head(requests[c]).op = op
  BY DEF Receives
<1> QED BY <1>1, <1>3, <1>4

(* What the message a client takes carries.                                *)
LEMMA RequestFields ==
  ASSUME NEW r \in Request
  PROVE  /\ r.op = "connect" => r.profile \in Profiles
         /\ r.op = "authenticate" => r.password \in Passwords \cup {"canceled"}
BY DEF Request

(* The frames of connectToServerWithProfile stay well formed: a call       *)
(* begins or ends.                                                         *)
LEMMA FramesType ==
  ASSUME TypeOK, NEW c \in Clients
  PROVE  /\ \A f \in Frame :
              [frames EXCEPT ![c] = <<f>> \o @] \in [Clients -> Seq(Frame)]
         /\ frames[c] # <<>> =>
              /\ Head(frames[c]) \in Frame
              /\ Head(frames[c]).profile \in Profiles
              /\ Tail(frames[c]) \in Seq(Frame)
              /\ [frames EXCEPT ![c] = Tail(@)] \in [Clients -> Seq(Frame)]
<1>1. frames \in [Clients -> Seq(Frame)] /\ frames[c] \in Seq(Frame)
  BY DEF TypeOK
<1>2. ASSUME NEW f \in Frame, NEW s \in Seq(Frame)
      PROVE  <<f>> \o s \in Seq(Frame)
  <2>1. <<f>> \in Seq(Frame)
    OBVIOUS
  <2> QED BY <2>1, ConcatProperties
<1>3. \A f \in Frame : [frames EXCEPT ![c] = <<f>> \o @] \in [Clients -> Seq(Frame)]
  BY <1>1, <1>2
<1>4. ASSUME frames[c] # <<>>
      PROVE  /\ Head(frames[c]) \in Frame
             /\ Head(frames[c]).profile \in Profiles
             /\ Tail(frames[c]) \in Seq(Frame)
             /\ [frames EXCEPT ![c] = Tail(@)] \in [Clients -> Seq(Frame)]
  <2>1. Head(frames[c]) \in Frame /\ Tail(frames[c]) \in Seq(Frame)
    BY <1>1, <1>4, HeadTailProperties
  <2>2. Head(frames[c]).profile \in Profiles
    BY <2>1 DEF Frame
  <2> QED BY <1>1, <2>1, <2>2
<1> QED BY <1>3, <1>4

Phases == {"asking", "failing", "naming", "waiting"}

(* A call that goes on keeps its profile and its place in the stack.       *)
LEMMA EntersFrame ==
  ASSUME TypeOK, NEW c \in Clients, frames[c] # <<>>, NEW phase \in Phases, Enters(c, phase)
  PROVE  /\ [phase |-> phase, profile |-> Head(frames[c]).profile] \in Frame
         /\ frames'[c] = <<[phase |-> phase, profile |-> Head(frames[c]).profile]>>
                            \o Tail(frames[c])
         /\ frames' \in [Clients -> Seq(Frame)]
         /\ frames'[c] # <<>>
         /\ Head(frames'[c]).phase = phase
         /\ \A d \in Clients \ {c} : frames'[d] = frames[d]
<1> DEFINE f == [phase |-> phase, profile |-> Head(frames[c]).profile]
<1>1. /\ frames \in [Clients -> Seq(Frame)]
      /\ Head(frames[c]).profile \in Profiles
      /\ Tail(frames[c]) \in Seq(Frame)
  BY FramesType DEF TypeOK
<1>2. f \in Frame
  BY <1>1 DEF Frame, Phases
<1>3. frames' = [frames EXCEPT ![c] = <<f>> \o Tail(frames[c])]
  BY DEF Enters
<1>4. <<f>> \in Seq(Frame) /\ Len(<<f>>) = 1 /\ <<f>>[1] = f
  BY <1>2
<1>5. /\ <<f>> \o Tail(frames[c]) \in Seq(Frame)
      /\ Len(<<f>> \o Tail(frames[c])) = 1 + Len(Tail(frames[c]))
      /\ (<<f>> \o Tail(frames[c]))[1] = f
  BY <1>1, <1>4, ConcatProperties, LenProperties
<1>6. frames'[c] = <<f>> \o Tail(frames[c]) /\ frames' \in [Clients -> Seq(Frame)]
  BY <1>1, <1>3, <1>5
<1>7. Len(frames'[c]) # 0
  BY <1>1, <1>5, <1>6, LenProperties
<1>8. frames'[c] # <<>> /\ Head(frames'[c]) = f
  BY <1>5, <1>6, <1>7, EmptySeq
<1>9. \A d \in Clients \ {c} : frames'[d] = frames[d]
  BY <1>1, <1>3
<1> QED BY <1>2, <1>6, <1>8, <1>9

-----------------------------------------------------------------------------
(* Type correctness.                                                       *)

(* The end of connectToServerWithProfile's loop keeps the types of all     *)
(* that it changes.                                                        *)
LEMMA AnnounceOrAskType ==
  ASSUME TypeOK, NEW c \in Clients, NEW ok \in BOOLEAN, frames[c] # <<>>,
         AnnounceOrAsk(c, ok)
  PROVE  /\ mainQueue' \in Seq(Notification)
         /\ announced' \in [Clients -> Names \cup {"none"}]
         /\ frames' \in [Clients -> Seq(Frame)]
         /\ mMpdTimer' \in [Clients -> BOOLEAN]
         /\ strayTimer' \in [Clients -> BOOLEAN]
<1>1. CASE ok
  <2>1. Post(c, "Connected", "none") /\ frames' = [frames EXCEPT ![c] = Tail(@)]
    BY <1>1 DEF AnnounceOrAsk
  <2>2. "Connected" \in Names /\ "none" \in Reasons
    BY DEF Names, Reasons
  <2>3. mMpdTimer' \in [Clients -> BOOLEAN] /\ strayTimer' \in [Clients -> BOOLEAN]
    BY <1>1 DEF AnnounceOrAsk, TypeOK
  <2> QED BY <2>1, <2>2, <2>3, PostType, FramesType
<1>2. CASE ~ok
  <2>1. Enters(c, "naming") /\ UNCHANGED <<mainQueue, announced, timerVars>>
    BY <1>2 DEF AnnounceOrAsk
  <2>2. frames' \in [Clients -> Seq(Frame)]
    BY <2>1, EntersFrame DEF Phases
  <2> QED BY <2>1, <2>2 DEF TypeOK, timerVars
<1> QED BY <1>1, <1>2

(* Closing the connection keeps the types of all that it changes.          *)
LEMMA DisconnectType ==
  ASSUME TypeOK, NEW c \in Clients, NEW reason \in Reasons, NEW cause \in Links,
         DisconnectWithReason(c, reason, cause)
  PROVE  /\ mainQueue' \in Seq(Notification)
         /\ announced' \in [Clients -> Names \cup {"none"}]
         /\ link' \in [Clients -> Links]
         /\ mMpdTimer' \in [Clients -> BOOLEAN]
<1>1. "Disconnected" \in Names
  BY DEF Names
<1>2. Post(c, "Disconnected", reason)
  BY DEF DisconnectWithReason
<1>3. link' \in [Clients -> Links] /\ mMpdTimer' \in [Clients -> BOOLEAN]
  BY DEF DisconnectWithReason, Closed, TypeOK
<1> QED BY <1>1, <1>2, <1>3, PostType

(* Every step of the main thread keeps the types.                          *)
LEMMA MainStepType ==
  ASSUME TypeOK, MainStep
  PROVE  TypeOK'
<1> USE DEF mainVars, authVars, timerVars, mpdVars, worldVars
<1>1. ASSUME NEW name, Handled(name)
      PROVE  mainQueue' \in Seq(Notification)
  BY <1>1, HeadTailProperties DEF Handled, TypeOK
<1>2. CASE HandleConnecting
  BY <1>1, <1>2 DEF HandleConnecting, Handled, TypeOK
<1>3. CASE HandleConnected
  BY <1>1, <1>3 DEF HandleConnected, Handled, TypeOK
<1>4. CASE HandleDisconnected
  BY <1>1, <1>4 DEF HandleDisconnected, Handled, TypeOK
<1>5. CASE HandleRequiresAuthentication
  BY <1>1, <1>5 DEF HandleRequiresAuthentication, Handled, TypeOK
<1>6. CASE AutoreconnectTimerTriggered
  <2>1. [op |-> "connect", profile |-> currentProfile] \in Request
    BY DEF Request, TypeOK
  <2>2. requests' \in [Clients -> Seq(Request)]
    BY <1>6, <2>1, SendType DEF AutoreconnectTimerTriggered, SendConnect
  <2> QED BY <1>6, <2>2 DEF AutoreconnectTimerTriggered, TypeOK
<1>7. ASSUME NEW c \in Clients, SetMusicClient(c)
      PROVE  TypeOK'
  <2>1. [op |-> "connect", profile |-> currentProfile] \in Request
    BY DEF Request, TypeOK
  <2>2. Append(requests[c], [op |-> "connect", profile |-> currentProfile]) \in Seq(Request)
    BY <2>1, AppendProperties DEF TypeOK
  <2>3. requests' \in [Clients -> Seq(Request)]
    BY <1>7, <2>2 DEF SetMusicClient, TypeOK
  <2> QED BY <1>7, <2>3 DEF SetMusicClient, TypeOK
<1> QED BY <1>2, <1>3, <1>4, <1>5, <1>6, <1>7 DEF MainStep

(* Every step of the user keeps the types.                                 *)
LEMMA UserStepType ==
  ASSUME TypeOK, UserStep \/ AnswerStep
  PROVE  TypeOK'
<1> USE DEF mainVars, authVars, timerVars, mpdVars, worldVars
<1>1. CASE UserConnect
  <2>1. [op |-> "connect", profile |-> currentProfile] \in Request
    BY DEF Request, TypeOK
  <2>2. requests' \in [Clients -> Seq(Request)]
    BY <1>1, <2>1, SendType DEF UserConnect, SendConnect
  <2> QED BY <1>1, <2>2 DEF UserConnect, TypeOK
<1>2. CASE UserDisconnect
  <2>1. [op |-> "disconnect"] \in Request
    BY DEF Request
  <2>2. requests' \in [Clients -> Seq(Request)]
    BY <1>2, <2>1, SendType DEF UserDisconnect
  <2> QED BY <1>2, <2>2 DEF UserDisconnect, TypeOK
<1>3. ASSUME NEW p \in Profiles, NEW c \in Clients, SelectProfile(p, c)
      PROVE  TypeOK'
  BY <1>3 DEF SelectProfile, TypeOK
<1>4. ASSUME NEW password \in Passwords \cup {"canceled"}, NEW save \in BOOLEAN,
             AnswerAuthentication(password, save)
      PROVE  TypeOK'
  <2>1. [op |-> "authenticate", password |-> password] \in Request
    BY DEF Request
  <2>2. requests' \in [Clients -> Seq(Request)]
    BY <1>4, <2>1, SendType DEF AnswerAuthentication
  <2>3. modal' \in Nat
    BY <1>4 DEF AnswerAuthentication, TypeOK
  <2>4. saved' \in [Profiles -> Passwords \cup {NoPassword}]
    BY <1>4 DEF AnswerAuthentication, TypeOK
  <2> QED BY <1>4, <2>2, <2>3, <2>4 DEF AnswerAuthentication, TypeOK
<1> QED BY <1>1, <1>2, <1>3, <1>4 DEF UserStep, AnswerStep

(* Every step of a client's thread keeps the types.                        *)
LEMMA ClientStepType ==
  ASSUME TypeOK, NEW c \in Clients, ClientStep(c)
  PROVE  TypeOK'
<1> USE DEF mainVars, authVars, timerVars, mpdVars, worldVars
<1>1. CASE IgnoreConnect(c)
  <2>1. requests' \in [Clients -> Seq(Request)]
    BY <1>1, ReceivesType DEF IgnoreConnect
  <2> QED BY <1>1, <2>1 DEF IgnoreConnect, Receives, TypeOK
<1>2. CASE BeginConnect(c)
  <2>1. /\ Head(requests[c]) \in Request
        /\ Head(requests[c]).op = "connect"
        /\ requests' \in [Clients -> Seq(Request)]
    BY <1>2, ReceivesType DEF BeginConnect
  <2>2. [phase |-> "asking", profile |-> Head(requests[c]).profile] \in Frame
    BY <2>1, RequestFields DEF Frame
  <2>3. frames' \in [Clients -> Seq(Frame)]
    BY <1>2, <2>2, FramesType DEF BeginConnect
  <2>4. /\ mainQueue' \in Seq(Notification)
        /\ announced' \in [Clients -> Names \cup {"none"}]
    BY <1>2, PostType DEF BeginConnect, Names, Reasons
  <2> QED BY <1>2, <2>1, <2>3, <2>4 DEF BeginConnect, Receives, TypeOK
<1>3. CASE ServeDisconnect(c)
  <2>1. requests' \in [Clients -> Seq(Request)]
    BY <1>3, ReceivesType DEF ServeDisconnect
  <2>2. "asked" \in Reasons /\ "closed" \in Links
    BY DEF Reasons, Links
  <2>3. /\ mainQueue' \in Seq(Notification)
        /\ announced' \in [Clients -> Names \cup {"none"}]
        /\ link' \in [Clients -> Links]
        /\ mMpdTimer' \in [Clients -> BOOLEAN]
    BY <1>3, <2>2, DisconnectType DEF ServeDisconnect
  <2> QED BY <1>3, <2>1, <2>3 DEF ServeDisconnect, Receives, TypeOK
<1>4. CASE ServeAuthenticate(c)
  <2>1. /\ Head(requests[c]) \in Request
        /\ Head(requests[c]).op = "authenticate"
        /\ requests' \in [Clients -> Seq(Request)]
    BY <1>4, ReceivesType DEF ServeAuthenticate
  <2>2. Head(requests[c]).password \in Passwords \cup NilPasswords
    BY <2>1, RequestFields DEF NilPasswords
  <2>3. /\ mPassword' \in [Clients -> Passwords \cup NilPasswords]
        /\ mSetPasswordCalled' \in [Clients -> BOOLEAN]
    BY <1>4, <2>2 DEF ServeAuthenticate, TypeOK
  <2> QED BY <1>4, <2>1, <2>3 DEF ServeAuthenticate, Receives, TypeOK
<1>5. CASE ConnectFails(c)
  <2>1. frames[c] # <<>>
    BY <1>5 DEF ConnectFails, Answered, InPhase
  <2>2. /\ Head(frames[c]).profile \in Profiles
        /\ frames' \in [Clients -> Seq(Frame)]
    BY <1>5, <2>1, FramesType, EntersFrame DEF ConnectFails, Phases
  <2>3. /\ host' \in [Clients -> Profiles \cup {"none"}]
        /\ libPassword' \in [Clients -> Passwords \cup {NoPassword}]
        /\ link' \in [Clients -> Links]
    BY <1>5, <2>2 DEF ConnectFails, Links, TypeOK
  <2> QED BY <1>5, <2>2, <2>3 DEF ConnectFails, Answered, InPhase, TypeOK
<1>6. CASE ConnectSucceeds(c)
  <2> DEFINE p == Head(frames[c]).profile
             password == IF saved[p] # NoPassword THEN saved[p] ELSE libPassword[c]
             ok == p \notin Locked \/ password = "right"
  <2>1. frames[c] # <<>>
    BY <1>6 DEF ConnectSucceeds, Answered, InPhase
  <2>2. p \in Profiles
    BY <2>1, FramesType
  <2>3. ok \in BOOLEAN /\ AnnounceOrAsk(c, ok)
    BY <1>6 DEF ConnectSucceeds
  <2>4. /\ mainQueue' \in Seq(Notification)
        /\ announced' \in [Clients -> Names \cup {"none"}]
        /\ frames' \in [Clients -> Seq(Frame)]
        /\ mMpdTimer' \in [Clients -> BOOLEAN]
        /\ strayTimer' \in [Clients -> BOOLEAN]
    BY <2>1, <2>3, AnnounceOrAskType
  <2>5. password \in Passwords \cup {NoPassword}
    BY <2>2 DEF TypeOK
  <2>6. /\ host' \in [Clients -> Profiles \cup {"none"}]
        /\ libPassword' \in [Clients -> Passwords \cup {NoPassword}]
        /\ link' \in [Clients -> Links]
        /\ allowed' \in [Clients -> BOOLEAN]
    BY <1>6, <2>2, <2>3, <2>5 DEF ConnectSucceeds, Links, TypeOK
  <2> QED BY <1>6, <2>4, <2>6 DEF ConnectSucceeds, Answered, InPhase, TypeOK
<1>7. CASE ResumeCanceled(c)
  <2>1. "canceled" \in Reasons /\ "closed" \in Links
    BY DEF Reasons, Links
  <2>2. /\ mainQueue' \in Seq(Notification)
        /\ announced' \in [Clients -> Names \cup {"none"}]
        /\ link' \in [Clients -> Links]
        /\ mMpdTimer' \in [Clients -> BOOLEAN]
    BY <1>7, <2>1, DisconnectType DEF ResumeCanceled
  <2>3. frames' \in [Clients -> Seq(Frame)]
    BY <1>7, FramesType DEF ResumeCanceled, InPhase
  <2> QED BY <1>7, <2>2, <2>3 DEF ResumeCanceled, InPhase, TypeOK
<1>8. CASE ResumeWithPassword(c)
  <2> DEFINE accepted == allowed[c] \/ (link[c] = "up" /\ mPassword[c] = "right")
             ok == link[c] # "up" \/ accepted
  <2>1. accepted \in BOOLEAN /\ ok \in BOOLEAN
    BY DEF TypeOK
  <2>2. frames[c] # <<>> /\ AnnounceOrAsk(c, ok)
    BY <1>8 DEF ResumeWithPassword, InPhase
  <2>3. /\ mainQueue' \in Seq(Notification)
        /\ announced' \in [Clients -> Names \cup {"none"}]
        /\ frames' \in [Clients -> Seq(Frame)]
        /\ mMpdTimer' \in [Clients -> BOOLEAN]
        /\ strayTimer' \in [Clients -> BOOLEAN]
    BY <2>1, <2>2, AnnounceOrAskType
  <2>4. mPassword[c] \in Passwords
    BY <1>8 DEF ResumeWithPassword, TypeOK
  <2>5. /\ libPassword' \in [Clients -> Passwords \cup {NoPassword}]
        /\ mPassword' \in [Clients -> Passwords \cup NilPasswords]
        /\ link' \in [Clients -> Links]
        /\ allowed' \in [Clients -> BOOLEAN]
    BY <1>8, <2>1, <2>4 DEF ResumeWithPassword, Links, NilPasswords, TypeOK
  <2> QED BY <1>8, <2>3, <2>5 DEF ResumeWithPassword, InPhase, TypeOK
<1>9. CASE MpdTimerTriggered(c)
  <2>1. "lost" \in Reasons /\ "lost" \in Links
    BY DEF Reasons, Links
  <2>2. /\ mainQueue' \in Seq(Notification)
        /\ announced' \in [Clients -> Names \cup {"none"}]
        /\ link' \in [Clients -> Links]
        /\ mMpdTimer' \in [Clients -> BOOLEAN]
    BY <1>9, <2>1, DisconnectType DEF MpdTimerTriggered
  <2> QED BY <1>9, <2>2 DEF MpdTimerTriggered, TypeOK
<1>10. CASE ExitThread(c)
  BY <1>10 DEF ExitThread, Closed, Links, TypeOK
<1>11. CASE ReportFailure(c)
  <2>1. frames' \in [Clients -> Seq(Frame)]
    BY <1>11, FramesType DEF ReportFailure, Answered, InPhase
  <2>2. /\ mainQueue' \in Seq(Notification)
        /\ announced' \in [Clients -> Names \cup {"none"}]
    BY <1>11, PostType DEF ReportFailure, Names, Reasons
  <2> QED BY <1>11, <2>1, <2>2 DEF ReportFailure, Answered, InPhase, TypeOK
<1>12. CASE AskForPassword(c)
  <2>1. frames' \in [Clients -> Seq(Frame)]
    BY <1>12, EntersFrame DEF AskForPassword, Answered, InPhase, Phases
  <2>2. /\ mainQueue' \in Seq(Notification)
        /\ announced' \in [Clients -> Names \cup {"none"}]
    BY <1>12, PostType DEF AskForPassword, Names, Reasons
  <2> QED BY <1>12, <2>1, <2>2 DEF AskForPassword, Answered, InPhase, TypeOK
<1> QED BY <1>1, <1>2, <1>3, <1>4, <1>5, <1>6, <1>7, <1>8, <1>9, <1>10, <1>11, <1>12
        DEF ClientStep

(* Every step of a server keeps the types.                                 *)
LEMMA WorldStepType ==
  ASSUME TypeOK, WorldStep
  PROVE  TypeOK'
<1> USE DEF mainVars, authVars, timerVars, mpdVars, worldVars
<1>1. ASSUME NEW p \in Profiles, ServerFails(p)
      PROVE  TypeOK'
  BY <1>1 DEF ServerFails, Links, TypeOK
<1>2. ASSUME NEW p \in Profiles, ServerReturns(p)
      PROVE  TypeOK'
  BY <1>2 DEF ServerReturns, TypeOK
<1> QED BY <1>1, <1>2 DEF WorldStep

(* Initially everything has its type.                                      *)
LEMMA InitType == Init => TypeOK
<1>1. SUFFICES ASSUME Init PROVE TypeOK
  OBVIOUS
<1>2. saved \in [Profiles -> Passwords \cup {NoPassword}]
  BY <1>1, ProfilesAssumption DEF Init
<1>3. thread \in [Clients -> {"unborn", "starting", "running", "exited"}]
  BY <1>1 DEF Init
<1>4. /\ requests \in [Clients -> Seq(Request)]
      /\ frames \in [Clients -> Seq(Frame)]
      /\ mainQueue \in Seq(Notification)
  BY <1>1, EmptySeq DEF Init
<1> QED BY <1>1, <1>2, <1>3, <1>4 DEF Init, TypeOK, NilPasswords, Links

(* Every variable always has its type: no message, notification or stack   *)
(* of calls is ever malformed, and no dialog ends that did not begin.      *)
THEOREM TypeCorrect == Spec => []TypeOK
<1>1. TypeOK /\ [Next]_vars => TypeOK'
  <2>1. SUFFICES ASSUME TypeOK, [Next]_vars PROVE TypeOK'
    OBVIOUS
  <2>2. CASE UNCHANGED vars
    BY <2>1, <2>2 DEF vars, mainVars, authVars, timerVars, mpdVars, worldVars, TypeOK
  <2>3. CASE Next
    BY <2>1, <2>3, MainStepType, UserStepType, ClientStepType, WorldStepType DEF Next
  <2> QED BY <2>1, <2>2, <2>3
<1> QED BY InitType, <1>1, PTL DEF Spec

-----------------------------------------------------------------------------
(* The current client and the current profile.                             *)

\* A client that has not registered yet has done nothing and was told nothing.
FreshClients ==
  \A c \in Clients :
    thread[c] \in {"unborn", "starting"} =>
      /\ requests[c] = <<>>
      /\ frames[c] = <<>>
      /\ host[c] = "none"
      /\ link[c] = "none"

RegisteredClient ==
  mClient # NoClient => thread[mClient] \in {"running", "exited"}

\* What TalksToCurrentProfile says of a stack of calls and of messages
FramesOn(s, p) == \A i \in 1..Len(s) : s[i].profile = p
RequestsOn(s, p) ==
  \A i \in 1..Len(s) : s[i].op = "connect" => s[i].profile = p

ProfileInv == TypeOK /\ FreshClients /\ RegisteredClient /\ TalksToCurrentProfile

(* Pushing, replacing and popping a call leave a stack on its profile.     *)
LEMMA FramesOnStep ==
  ASSUME NEW s \in Seq(Frame), NEW p, FramesOn(s, p)
  PROVE  /\ \A f \in Frame : f.profile = p => FramesOn(<<f>> \o s, p)
         /\ s # <<>> =>
              /\ Head(s).profile = p
              /\ FramesOn(Tail(s), p)
              /\ \A f \in Frame : f.profile = p => FramesOn(<<f>> \o Tail(s), p)
<1>1. ASSUME NEW f, f.profile = p, NEW t \in Seq(Frame), FramesOn(t, p), f \in Frame
      PROVE  FramesOn(<<f>> \o t, p)
  <2>1. <<f>> \in Seq(Frame) /\ Len(<<f>>) = 1 /\ <<f>>[1] = f
    BY <1>1
  <2>2. /\ Len(<<f>> \o t) = 1 + Len(t)
        /\ \A i \in 1..1 + Len(t) :
             (<<f>> \o t)[i] = IF i <= 1 THEN <<f>>[i] ELSE t[i - 1]
    BY <2>1, ConcatProperties
  <2>3. ASSUME NEW i \in 1..Len(<<f>> \o t)
        PROVE  (<<f>> \o t)[i].profile = p
    <3>1. Len(t) \in Nat
      BY <1>1, LenProperties
    <3>2. CASE i = 1
      BY <1>1, <2>1, <2>2, <2>3, <3>1, <3>2
    <3>3. CASE i > 1
      <4>1. i - 1 \in 1..Len(t) /\ (<<f>> \o t)[i] = t[i - 1]
        BY <2>2, <2>3, <3>1, <3>3
      <4> QED BY <1>1, <4>1 DEF FramesOn
    <3> QED BY <2>2, <2>3, <3>1, <3>2, <3>3
  <2> QED BY <2>3 DEF FramesOn
<1>2. ASSUME s # <<>>
      PROVE  /\ Head(s).profile = p /\ Head(s) \in Frame
             /\ Tail(s) \in Seq(Frame) /\ FramesOn(Tail(s), p)
  <2>1. Len(s) \in Nat \ {0} /\ Head(s) = s[1]
    BY <1>2, EmptySeq
  <2>2. /\ Head(s) \in Frame /\ Tail(s) \in Seq(Frame)
        /\ Len(Tail(s)) = Len(s) - 1
        /\ \A i \in 1..Len(Tail(s)) : Tail(s)[i] = s[i + 1]
    BY <1>2, HeadTailProperties
  <2>3. \A i \in 1..Len(Tail(s)) : i + 1 \in 1..Len(s)
    BY <2>1, <2>2
  <2> QED BY <2>1, <2>2, <2>3 DEF FramesOn
<1>3. ASSUME s # <<>>, NEW f \in Frame, f.profile = p
      PROVE  FramesOn(<<f>> \o Tail(s), p)
  BY <1>1, <1>2, <1>3
<1> QED BY <1>1, <1>2, <1>3

(* Appending a message on the profile and taking one leave the messages on *)
(* their profile.                                                          *)
LEMMA RequestsOnStep ==
  ASSUME NEW s \in Seq(Request), NEW p, RequestsOn(s, p)
  PROVE  /\ \A r \in Request : (r.op = "connect" => r.profile = p) =>
              RequestsOn(Append(s, r), p)
         /\ s # <<>> =>
              /\ Head(s).op = "connect" => Head(s).profile = p
              /\ RequestsOn(Tail(s), p)
<1>1. ASSUME NEW r \in Request, r.op = "connect" => r.profile = p
      PROVE  RequestsOn(Append(s, r), p)
  <2>1. /\ Len(s) \in Nat
        /\ Len(Append(s, r)) = Len(s) + 1
        /\ \A i \in 1..Len(s) : Append(s, r)[i] = s[i]
        /\ Append(s, r)[Len(s) + 1] = r
    BY AppendProperties, LenProperties
  <2>2. \A i \in 1..Len(Append(s, r)) : i \in 1..Len(s) \/ i = Len(s) + 1
    BY <2>1
  <2> QED BY <1>1, <2>1, <2>2 DEF RequestsOn
<1>2. ASSUME s # <<>>
      PROVE  /\ Head(s).op = "connect" => Head(s).profile = p
             /\ RequestsOn(Tail(s), p)
  <2>1. Len(s) \in Nat \ {0} /\ Head(s) = s[1]
    BY <1>2, EmptySeq
  <2>2. /\ Len(Tail(s)) = Len(s) - 1
        /\ \A i \in 1..Len(Tail(s)) : Tail(s)[i] = s[i + 1]
    BY <1>2, HeadTailProperties
  <2>3. \A i \in 1..Len(Tail(s)) : i + 1 \in 1..Len(s)
    BY <2>1, <2>2
  <2> QED BY <2>1, <2>2, <2>3 DEF RequestsOn
<1> QED BY <1>1, <1>2

(* A client's step touches neither the main thread's choice of client and  *)
(* profile nor the other clients.                                          *)
LEMMA ClientStepIsLocal ==
  ASSUME TypeOK, NEW c \in Clients, ClientStep(c)
  PROVE  /\ UNCHANGED <<mClient, currentProfile, stop>>
         /\ thread[c] = "running" /\ thread'[c] \in {"running", "exited"}
         /\ \A d \in Clients \ {c} :
              /\ requests'[d] = requests[d]
              /\ frames'[d] = frames[d]
              /\ host'[d] = host[d]
              /\ thread'[d] = thread[d]
              /\ link'[d] = link[d]
              /\ announced'[d] = announced[d]
              /\ mMpdTimer'[d] = mMpdTimer[d]
<1> USE DEF mainVars, authVars, timerVars, mpdVars, worldVars, TypeOK
<1>1. CASE IgnoreConnect(c)
  BY <1>1 DEF IgnoreConnect, Receives
<1>2. CASE BeginConnect(c)
  BY <1>2 DEF BeginConnect, Receives, Post
<1>3. CASE ServeDisconnect(c)
  BY <1>3 DEF ServeDisconnect, Receives, DisconnectWithReason, Closed, Post
<1>4. CASE ServeAuthenticate(c)
  BY <1>4 DEF ServeAuthenticate, Receives
<1>5. CASE ConnectFails(c)
  BY <1>5 DEF ConnectFails, Answered, InPhase, Enters
<1>6. CASE ConnectSucceeds(c)
  BY <1>6 DEF ConnectSucceeds, Answered, InPhase, AnnounceOrAsk, Enters, Post
<1>7. CASE ResumeCanceled(c)
  BY <1>7 DEF ResumeCanceled, InPhase, DisconnectWithReason, Closed, Post
<1>8. CASE ResumeWithPassword(c)
  BY <1>8 DEF ResumeWithPassword, InPhase, AnnounceOrAsk, Enters, Post
<1>9. CASE MpdTimerTriggered(c)
  BY <1>9 DEF MpdTimerTriggered, DisconnectWithReason, Closed, Post
<1>10. CASE ExitThread(c)
  BY <1>10 DEF ExitThread, Closed
<1>11. CASE ReportFailure(c) \/ AskForPassword(c)
  BY <1>11 DEF ReportFailure, AskForPassword, Answered, InPhase, Enters, Post
<1> QED BY <1>1, <1>2, <1>3, <1>4, <1>5, <1>6, <1>7, <1>8, <1>9, <1>10, <1>11 DEF ClientStep

(* A client that has not registered stays untouched.                       *)
LEMMA FreshStep ==
  ASSUME TypeOK, TypeOK', FreshClients, RegisteredClient, [Next]_vars
  PROVE  FreshClients' /\ RegisteredClient'
<1> USE DEF mainVars, authVars, timerVars, mpdVars, worldVars, FreshClients, RegisteredClient
<1>1. CASE UNCHANGED vars
  BY <1>1 DEF vars
<1>2. CASE MainStep
  <2>1. CASE HandleConnecting \/ HandleConnected \/ HandleDisconnected
             \/ HandleRequiresAuthentication
    BY <2>1 DEF HandleConnecting, HandleConnected, HandleDisconnected,
                HandleRequiresAuthentication, Handled
  <2>2. CASE AutoreconnectTimerTriggered
    BY <2>2, ClientsAssumption DEF AutoreconnectTimerTriggered, SendConnect, Send, TypeOK
  <2>3. ASSUME NEW c \in Clients, SetMusicClient(c)
        PROVE  FreshClients' /\ RegisteredClient'
    BY <2>3 DEF SetMusicClient, TypeOK
  <2> QED BY <1>2, <2>1, <2>2, <2>3 DEF MainStep
<1>3. CASE UserStep
  <2>1. CASE UserConnect
    BY <2>1, ClientsAssumption DEF UserConnect, SendConnect, Send, TypeOK
  <2>2. CASE UserDisconnect
    BY <2>2, ClientsAssumption DEF UserDisconnect, Send, TypeOK
  <2>3. ASSUME NEW p \in Profiles, NEW c \in Clients, SelectProfile(p, c)
        PROVE  FreshClients' /\ RegisteredClient'
    BY <2>3 DEF SelectProfile, TypeOK
  <2> QED BY <1>3, <2>1, <2>2, <2>3 DEF UserStep
<1>4. CASE AnswerStep
  BY <1>4, ClientsAssumption DEF AnswerStep, AnswerAuthentication, Send, TypeOK
<1>5. ASSUME NEW c \in Clients, ClientStep(c)
      PROVE  FreshClients' /\ RegisteredClient'
  <2>2. /\ mClient' = mClient
        /\ thread[c] = "running"
        /\ thread'[c] \in {"running", "exited"}
        /\ \A d \in Clients \ {c} :
             /\ thread'[d] = thread[d]
             /\ requests'[d] = requests[d]
             /\ frames'[d] = frames[d]
             /\ host'[d] = host[d]
             /\ link'[d] = link[d]
    BY <1>5, ClientStepIsLocal
  <2>3. mClient \in Clients \cup {NoClient}
    BY DEF TypeOK
  <2>4. ASSUME NEW d \in Clients, thread'[d] \in {"unborn", "starting"}
        PROVE  d # c /\ thread[d] \in {"unborn", "starting"}
    BY <2>2, <2>4
  <2>5. FreshClients'
    BY <2>2, <2>4
  <2>6. RegisteredClient'
    BY <2>2, <2>3
  <2> QED BY <2>5, <2>6
<1>6. CASE WorldStep
  <2>1. ASSUME NEW p \in Profiles, ServerFails(p)
        PROVE  FreshClients' /\ RegisteredClient'
    BY <2>1 DEF ServerFails, TypeOK
  <2>2. ASSUME NEW p \in Profiles, ServerReturns(p)
        PROVE  FreshClients' /\ RegisteredClient'
    BY <2>2 DEF ServerReturns, TypeOK
  <2> QED BY <1>6, <2>1, <2>2 DEF WorldStep
<1> QED BY <1>1, <1>2, <1>3, <1>4, <1>5, <1>6 DEF Next

\* TalksToCurrentProfile of the client c and the profile p
OnProfile(c, p) ==
  /\ host[c] \in {p, "none"}
  /\ FramesOn(frames[c], p)
  /\ RequestsOn(requests[c], p)

(* TalksToCurrentProfile, client by client.                                *)
LEMMA TalksIsOnProfile ==
  TalksToCurrentProfile <=> (mClient # NoClient => OnProfile(mClient, currentProfile))
BY DEF TalksToCurrentProfile, OnProfile, FramesOn, RequestsOn

(* A message that connects to no other profile leaves the current client   *)
(* on its profile.                                                         *)
LEMMA SendOnProfile ==
  ASSUME TypeOK, mClient # NoClient, OnProfile(mClient, currentProfile),
         NEW request \in Request,
         request.op = "connect" => request.profile = currentProfile,
         Send(request), UNCHANGED <<mClient, currentProfile, host, frames>>
  PROVE  OnProfile(mClient, currentProfile)'
<1>1. mClient \in Clients /\ requests[mClient] \in Seq(Request)
  BY DEF TypeOK
<1>2. RequestsOn(Append(requests[mClient], request), currentProfile)
  BY <1>1, RequestsOnStep DEF OnProfile
<1>3. requests'[mClient] = Append(requests[mClient], request)
  BY <1>1 DEF Send
<1> QED BY <1>2, <1>3 DEF OnProfile, RequestsOn, FramesOn

(* What a client does by itself leaves it on its profile.                  *)
LEMMA ClientOnProfile ==
  ASSUME TypeOK, NEW c \in Clients, NEW p, OnProfile(c, p), ClientStep(c)
  PROVE  OnProfile(c, p)'
<1> USE DEF mainVars, authVars, timerVars, mpdVars, worldVars
<1>1. requests[c] \in Seq(Request) /\ frames[c] \in Seq(Frame)
  BY DEF TypeOK
<1>2. /\ frames[c] # <<>> =>
           /\ Head(frames[c]).profile = p
           /\ FramesOn(Tail(frames[c]), p)
           /\ \A f \in Frame : f.profile = p => FramesOn(<<f>> \o Tail(frames[c]), p)
      /\ \A f \in Frame : f.profile = p => FramesOn(<<f>> \o frames[c], p)
  BY <1>1, FramesOnStep DEF OnProfile
<1>3. requests[c] # <<>> =>
        /\ Head(requests[c]).op = "connect" => Head(requests[c]).profile = p
        /\ RequestsOn(Tail(requests[c]), p)
  BY <1>1, RequestsOnStep DEF OnProfile
<1>4. ASSUME NEW op, Receives(c, op)
      PROVE  RequestsOn(requests'[c], p)
  <2>1. requests[c] # <<>> /\ requests'[c] = Tail(requests[c])
    BY <1>4 DEF Receives, TypeOK
  <2> QED BY <1>3, <2>1
<1>14. ASSUME NEW phase \in Phases, Enters(c, phase), frames[c] # <<>>
       PROVE  FramesOn(frames'[c], p)
  <2> DEFINE f == [phase |-> phase, profile |-> Head(frames[c]).profile]
  <2>1. f \in Frame /\ frames'[c] = <<f>> \o Tail(frames[c])
    BY <1>14, EntersFrame
  <2>2. f.profile = p
    BY <1>2, <1>14
  <2> QED BY <1>2, <1>14, <2>1, <2>2
<1>5. ASSUME NEW ok \in BOOLEAN, AnnounceOrAsk(c, ok), frames[c] # <<>>
      PROVE  FramesOn(frames'[c], p)
  <2>1. CASE ok
    BY <1>2, <1>5, <2>1 DEF AnnounceOrAsk, TypeOK
  <2>2. CASE ~ok
    <3>1. Enters(c, "naming")
      BY <1>5, <2>2 DEF AnnounceOrAsk
    <3> QED BY <1>5, <1>14, <3>1 DEF Phases
  <2> QED BY <2>1, <2>2
<1>6. CASE IgnoreConnect(c) \/ ServeDisconnect(c) \/ ServeAuthenticate(c)
  <2>1. UNCHANGED <<host, frames>>
    BY <1>6 DEF IgnoreConnect, ServeDisconnect, ServeAuthenticate
  <2>2. RequestsOn(requests'[c], p)
    BY <1>4, <1>6 DEF IgnoreConnect, ServeDisconnect, ServeAuthenticate
  <2> QED BY <2>1, <2>2 DEF OnProfile
<1>7. CASE BeginConnect(c)
  <2> DEFINE f == [phase |-> "asking", profile |-> Head(requests[c]).profile]
  <2>1. /\ Head(requests[c]) \in Request
        /\ Head(requests[c]).op = "connect"
    BY <1>7, ReceivesType DEF BeginConnect
  <2>2. f.profile = p
    BY <1>3, <1>7, <2>1 DEF BeginConnect, Receives
  <2>3. f \in Frame
    BY <2>1, RequestFields DEF Frame
  <2>4. FramesOn(<<f>> \o frames[c], p)
    BY <1>2, <2>2, <2>3
  <2>5. frames'[c] = <<f>> \o frames[c]
    BY <1>7 DEF BeginConnect, TypeOK
  <2>6. RequestsOn(requests'[c], p)
    BY <1>4, <1>7 DEF BeginConnect
  <2>7. host' = host
    BY <1>7 DEF BeginConnect
  <2> QED BY <2>4, <2>5, <2>6, <2>7 DEF OnProfile
<1>8. CASE ConnectFails(c)
  <2>1. frames[c] # <<>> /\ requests' = requests
    BY <1>8 DEF ConnectFails, Answered, InPhase
  <2>2. host'[c] = p
    BY <1>2, <1>8, <2>1 DEF ConnectFails, TypeOK
  <2>3. FramesOn(frames'[c], p)
    BY <1>8, <1>14, <2>1 DEF ConnectFails, Phases
  <2> QED BY <2>1, <2>2, <2>3 DEF OnProfile
<1>9. CASE ConnectSucceeds(c)
  <2>1. frames[c] # <<>> /\ requests' = requests
    BY <1>9 DEF ConnectSucceeds, Answered, InPhase
  <2>2. host'[c] = p
    BY <1>2, <1>9, <2>1 DEF ConnectSucceeds, TypeOK
  <2>3. FramesOn(frames'[c], p)
    BY <1>5, <1>9, <2>1 DEF ConnectSucceeds
  <2> QED BY <2>1, <2>2, <2>3 DEF OnProfile
<1>10. CASE ResumeCanceled(c)
  <2>1. frames[c] # <<>> /\ requests' = requests /\ host' = host
    BY <1>10 DEF ResumeCanceled, InPhase
  <2>2. frames'[c] = Tail(frames[c])
    BY <1>10 DEF ResumeCanceled, TypeOK
  <2> QED BY <1>2, <2>1, <2>2 DEF OnProfile
<1>11. CASE ResumeWithPassword(c)
  <2>1. frames[c] # <<>> /\ requests' = requests /\ host' = host
    BY <1>11 DEF ResumeWithPassword, InPhase
  <2>2. (link[c] # "up" \/ (allowed[c] \/ (link[c] = "up" /\ mPassword[c] = "right"))) \in BOOLEAN
    BY DEF TypeOK
  <2>3. FramesOn(frames'[c], p)
    BY <1>5, <1>11, <2>1, <2>2 DEF ResumeWithPassword
  <2> QED BY <2>1, <2>3 DEF OnProfile
<1>12. CASE MpdTimerTriggered(c) \/ ExitThread(c)
  <2>1. UNCHANGED <<host, frames, requests>>
    BY <1>12 DEF MpdTimerTriggered, ExitThread
  <2> QED BY <2>1 DEF OnProfile
<1>13. CASE ReportFailure(c) \/ AskForPassword(c)
  <2>1. frames[c] # <<>> /\ requests' = requests /\ host' = host
    BY <1>13 DEF ReportFailure, AskForPassword, Answered, InPhase
  <2>2. CASE ReportFailure(c)
    <3>1. frames'[c] = Tail(frames[c])
      BY <2>2 DEF ReportFailure, TypeOK
    <3> QED BY <1>2, <2>1, <3>1 DEF OnProfile
  <2>3. CASE AskForPassword(c)
    <3>1. FramesOn(frames'[c], p)
      BY <1>14, <2>1, <2>3 DEF AskForPassword, Phases
    <3> QED BY <2>1, <3>1 DEF OnProfile
  <2> QED BY <1>13, <2>2, <2>3
<1> QED BY <1>6, <1>7, <1>8, <1>9, <1>10, <1>11, <1>12, <1>13 DEF ClientStep

(* The current client stays on the current profile.                        *)
LEMMA ProfileStep ==
  ASSUME ProfileInv, TypeOK', [Next]_vars
  PROVE  TalksToCurrentProfile'
<1> USE DEF mainVars, authVars, timerVars, mpdVars, worldVars
<1>1. TypeOK /\ FreshClients /\ RegisteredClient /\ TalksToCurrentProfile
  BY DEF ProfileInv
<1>2. mClient # NoClient => mClient \in Clients /\ OnProfile(mClient, currentProfile)
  BY <1>1, TalksIsOnProfile DEF TypeOK
<1>3. SUFFICES ASSUME mClient' # NoClient
               PROVE  OnProfile(mClient, currentProfile)'
  BY DEF TalksToCurrentProfile, OnProfile, FramesOn, RequestsOn
<1>4. ASSUME UNCHANGED <<mClient, currentProfile, requests, frames, host>>
      PROVE  OnProfile(mClient, currentProfile)'
  BY <1>2, <1>3, <1>4 DEF OnProfile, FramesOn, RequestsOn
<1>5. CASE UNCHANGED vars
  BY <1>4, <1>5 DEF vars
<1>6. ASSUME SendConnect, UNCHANGED <<mClient, currentProfile, host, frames>>
      PROVE  OnProfile(mClient, currentProfile)'
  <2>1. [op |-> "connect", profile |-> currentProfile] \in Request
    BY <1>1 DEF Request, TypeOK
  <2> QED BY <1>1, <1>2, <1>3, <1>6, <2>1, SendOnProfile DEF SendConnect
<1>7. CASE MainStep
  <2>1. CASE HandleConnecting \/ HandleConnected \/ HandleDisconnected
             \/ HandleRequiresAuthentication
    BY <1>4, <2>1 DEF HandleConnecting, HandleConnected, HandleDisconnected,
                      HandleRequiresAuthentication, Handled
  <2>2. CASE AutoreconnectTimerTriggered
    BY <1>6, <2>2 DEF AutoreconnectTimerTriggered
  <2>3. ASSUME NEW c \in Clients, SetMusicClient(c)
        PROVE  OnProfile(mClient, currentProfile)'
    <3> DEFINE request == [op |-> "connect", profile |-> currentProfile]
    <3>1. requests[c] = <<>> /\ frames[c] = <<>> /\ host[c] = "none"
      BY <1>1, <2>3 DEF SetMusicClient, FreshClients
    <3>2. request \in Request
      BY <1>1 DEF Request, TypeOK
    <3>3. RequestsOn(<<>>, currentProfile) /\ FramesOn(<<>>, currentProfile)
      BY DEF RequestsOn, FramesOn
    <3>4. RequestsOn(Append(<<>>, request), currentProfile)
      <4>1. <<>> \in Seq(Request)
        OBVIOUS
      <4> QED BY <3>2, <3>3, <4>1, RequestsOnStep
    <3>5. /\ mClient' = c /\ currentProfile' = currentProfile
          /\ requests'[c] = Append(<<>>, request)
          /\ frames'[c] = <<>> /\ host'[c] = "none"
      BY <1>1, <2>3, <3>1 DEF SetMusicClient, TypeOK
    <3> QED BY <3>3, <3>4, <3>5 DEF OnProfile, RequestsOn, FramesOn
  <2> QED BY <1>7, <2>1, <2>2, <2>3 DEF MainStep
<1>8. CASE UserStep
  <2>1. CASE UserConnect
    BY <1>6, <2>1 DEF UserConnect
  <2>2. CASE UserDisconnect
    <3>1. [op |-> "disconnect"] \in Request /\ [op |-> "disconnect"].op # "connect"
      BY DEF Request
    <3> QED BY <1>1, <1>2, <2>2, <3>1, SendOnProfile DEF UserDisconnect
  <2>3. ASSUME NEW p \in Profiles, NEW c \in Clients, SelectProfile(p, c)
        PROVE  FALSE
    BY <1>3, <2>3 DEF SelectProfile
  <2> QED BY <1>8, <2>1, <2>2, <2>3 DEF UserStep
<1>9. CASE AnswerStep
  <2> PICK password \in Passwords \cup {"canceled"}, save \in BOOLEAN :
             AnswerAuthentication(password, save)
    BY <1>9 DEF AnswerStep
  <2> DEFINE request == [op |-> "authenticate", password |-> password]
  <2>1. request \in Request /\ request.op # "connect"
    BY DEF Request
  <2> QED BY <1>1, <1>2, <1>3, <2>1, SendOnProfile DEF AnswerAuthentication
<1>10. ASSUME NEW c \in Clients, ClientStep(c)
       PROVE  OnProfile(mClient, currentProfile)'
  <2>1. mClient' = mClient /\ currentProfile' = currentProfile
    BY <1>1, <1>10, ClientStepIsLocal
  <2>2. mClient \in Clients /\ OnProfile(mClient, currentProfile)
    BY <1>2, <1>3, <2>1
  <2>3. CASE c = mClient
    <3>1. OnProfile(c, currentProfile)
      BY <2>2, <2>3
    <3>2. \A p : OnProfile(c, p) => (OnProfile(c, p))'
      BY <1>1, <1>10, ClientOnProfile
    <3> QED BY <2>1, <2>3, <3>1, <3>2 DEF OnProfile, FramesOn, RequestsOn
  <2>4. CASE c # mClient
    <3>1. /\ requests'[mClient] = requests[mClient]
          /\ frames'[mClient] = frames[mClient]
          /\ host'[mClient] = host[mClient]
      BY <1>1, <1>10, <2>2, <2>4, ClientStepIsLocal
    <3> QED BY <2>1, <2>2, <3>1 DEF OnProfile, FramesOn, RequestsOn
  <2> QED BY <2>3, <2>4
<1>11. CASE WorldStep
  BY <1>4, <1>11 DEF WorldStep, ServerFails, ServerReturns
<1> QED BY <1>5, <1>7, <1>8, <1>9, <1>10, <1>11 DEF Next

(* The current client only ever has to do with the current profile's       *)
(* server, however switches, registrations and messages interleave.        *)
THEOREM TalksToCurrentProfileAlways == Spec => []TalksToCurrentProfile
<1>1. Init => ProfileInv
  <2>1. SUFFICES ASSUME Init PROVE ProfileInv
    OBVIOUS
  <2>2. FreshClients /\ RegisteredClient /\ TalksToCurrentProfile
    BY <2>1 DEF Init, FreshClients, RegisteredClient, TalksToCurrentProfile
  <2> QED BY <2>1, <2>2, InitType DEF ProfileInv
<1>2. ProfileInv /\ TypeOK' /\ [Next]_vars => ProfileInv'
  BY FreshStep, ProfileStep DEF ProfileInv
<1>3. ProfileInv => TalksToCurrentProfile
  BY DEF ProfileInv
<1> QED BY <1>1, <1>2, <1>3, TypeCorrect, PTL DEF Spec

-----------------------------------------------------------------------------
(* The status timer of a connected client.                                 *)

(* Every announcement of "Connected" comes with a running mMpdTimer, and   *)
(* the timer stops only with an announcement that the connection is gone,  *)
(* or for a client that was told to stop.                                  *)
LEMMA PolledStep ==
  ASSUME TypeOK, AnnouncedMeansPolled, [Next]_vars
  PROVE  AnnouncedMeansPolled'
<1> USE DEF mainVars, authVars, timerVars, mpdVars, worldVars, AnnouncedMeansPolled
<1>1. ASSUME UNCHANGED <<announced, stop, mMpdTimer>>
      PROVE  AnnouncedMeansPolled'
  BY <1>1
<1>2. CASE UNCHANGED vars
  BY <1>1, <1>2 DEF vars
<1>3. CASE MainStep
  BY <1>1, <1>3 DEF MainStep, HandleConnecting, HandleConnected, HandleDisconnected,
                    HandleRequiresAuthentication, Handled, AutoreconnectTimerTriggered,
                    SetMusicClient
<1>4. CASE UserStep
  <2>1. CASE UserConnect \/ UserDisconnect
    BY <1>1, <2>1 DEF UserConnect, UserDisconnect
  <2>2. ASSUME NEW p \in Profiles, NEW c \in Clients, SelectProfile(p, c)
        PROVE  AnnouncedMeansPolled'
    BY <2>2 DEF SelectProfile
  <2> QED BY <1>4, <2>1, <2>2 DEF UserStep
<1>5. CASE AnswerStep
  BY <1>1, <1>5 DEF AnswerStep, AnswerAuthentication
<1>6. ASSUME NEW c \in Clients, ClientStep(c)
      PROVE  AnnouncedMeansPolled'
  <2>1. stop' = stop
        /\ \A d \in Clients \ {c} :
             announced'[d] = announced[d] /\ mMpdTimer'[d] = mMpdTimer[d]
    BY <1>6, ClientStepIsLocal
  <2>2. announced'[c] = "Connected" /\ ~stop[c] => mMpdTimer'[c]
    <3>1. CASE IgnoreConnect(c) \/ ServeAuthenticate(c)
      BY <3>1 DEF IgnoreConnect, ServeAuthenticate
    <3>2. CASE BeginConnect(c) \/ ConnectFails(c) \/ ReportFailure(c) \/ AskForPassword(c)
      BY <3>2 DEF BeginConnect, ConnectFails, ReportFailure, AskForPassword, Post, TypeOK,
                  timerVars
    <3>3. CASE ServeDisconnect(c) \/ ResumeCanceled(c) \/ MpdTimerTriggered(c)
      BY <3>3 DEF ServeDisconnect, ResumeCanceled, MpdTimerTriggered,
                  DisconnectWithReason, Post, TypeOK
    <3>4. CASE ConnectSucceeds(c) \/ ResumeWithPassword(c)
      BY <3>4 DEF ConnectSucceeds, ResumeWithPassword, AnnounceOrAsk, Post, TypeOK
    <3>5. CASE ExitThread(c)
      BY <3>5 DEF ExitThread
    <3> QED BY <1>6, <3>1, <3>2, <3>3, <3>4, <3>5 DEF ClientStep
  <2> QED BY <2>1, <2>2
<1>7. CASE WorldStep
  BY <1>1, <1>7 DEF WorldStep, ServerFails, ServerReturns
<1> QED BY <1>2, <1>3, <1>4, <1>5, <1>6, <1>7 DEF Next

(* "Connected" is never the last word on a connection that is gone.        *)
THEOREM AnnouncedMeansPolledAlways == Spec => []AnnouncedMeansPolled
<1>1. Init => AnnouncedMeansPolled
  BY DEF Init, AnnouncedMeansPolled
<1>2. TypeOK /\ AnnouncedMeansPolled /\ [Next]_vars => AnnouncedMeansPolled'
  BY PolledStep
<1> QED BY <1>1, <1>2, TypeCorrect, PTL DEF Spec

\* Only a call that is busy with the password has a connection and no timer yet;
\* a call that fails, or still asks, finds what those nested in it left behind.
Monitored(c) ==
  /\ Live(c) /\ IsConnected(c)
  /\ frames[c] # <<>> => Head(frames[c]).phase \in {"asking", "failing"}
  => mMpdTimer[c]

MonitorInv ==
  TypeOK /\ FreshClients /\ RegisteredClient /\ \A c \in Clients : Monitored(c)

(* A step of the client's thread leaves its connection monitored.          *)
LEMMA ClientMonitorStep ==
  ASSUME OldServers = {}, TypeOK, TypeOK', NEW c \in Clients, Monitored(c), ClientStep(c)
  PROVE  Monitored(c)'
<1> USE DEF mainVars, authVars, timerVars, mpdVars, worldVars, Live, IsConnected
<1>1. SUFFICES ASSUME thread'[c] = "running", ~stop'[c], link'[c] \in {"up", "broken"},
                      frames'[c] # <<>> => Head(frames'[c]).phase \in {"asking", "failing"}
               PROVE  mMpdTimer'[c]
  BY DEF Monitored
<1>2. thread[c] = "running" /\ ~stop[c]
  BY <1>1, ClientStepIsLocal
<1>3. CASE IgnoreConnect(c) \/ ServeAuthenticate(c)
  <2>1. UNCHANGED <<frames, link, mMpdTimer>>
    BY <1>3 DEF IgnoreConnect, ServeAuthenticate
  <2> QED BY <1>1, <1>2, <2>1 DEF Monitored
<1>4. CASE BeginConnect(c)
  BY <1>1, <1>4 DEF BeginConnect
<1>5. CASE ServeDisconnect(c) \/ ResumeCanceled(c) \/ MpdTimerTriggered(c)
  BY <1>1, <1>5 DEF ServeDisconnect, ResumeCanceled, MpdTimerTriggered,
                    DisconnectWithReason, Closed, TypeOK
<1>6. CASE ConnectFails(c)
  <2>1. frames[c] # <<>>
    BY <1>6 DEF ConnectFails, Answered, InPhase
  <2>2. Head(frames[c]).profile \in Profiles
    BY <2>1, FramesType
  <2>3. link'[c] = "none"
    BY <1>6, <2>2 DEF ConnectFails, TypeOK
  <2> QED BY <1>1, <2>3
<1>7. CASE ReportFailure(c)
  <2>1. frames[c] # <<>> /\ Head(frames[c]).phase = "failing"
    BY <1>7 DEF ReportFailure, Answered, InPhase
  <2>2. UNCHANGED <<link, mMpdTimer>>
    BY <1>7 DEF ReportFailure
  <2> QED BY <1>1, <1>2, <2>1, <2>2 DEF Monitored
<1>8. ASSUME NEW phase \in {"naming", "waiting"}, Enters(c, phase), frames[c] # <<>>
      PROVE  FALSE
  BY <1>1, <1>8, EntersFrame DEF Phases
<1>9. CASE ConnectSucceeds(c) \/ ResumeWithPassword(c)
  <2>1. frames[c] # <<>>
    BY <1>9 DEF ConnectSucceeds, ResumeWithPassword, Answered, InPhase
  <2>2. mMpdTimer' = [mMpdTimer EXCEPT ![c] = TRUE] \/ Enters(c, "naming")
    BY <1>9 DEF ConnectSucceeds, ResumeWithPassword, AnnounceOrAsk
  <2> QED BY <1>8, <2>1, <2>2 DEF TypeOK
<1>10. CASE AskForPassword(c)
  <2>1. frames[c] # <<>> /\ Enters(c, "waiting")
    BY <1>10 DEF AskForPassword, Answered, InPhase
  <2> QED BY <1>8, <2>1
<1>11. CASE ExitThread(c)
  BY <1>1, <1>11 DEF ExitThread, TypeOK
<1> QED BY <1>3, <1>4, <1>5, <1>6, <1>7, <1>9, <1>10, <1>11 DEF ClientStep

(* However calls of connectToServerWithProfile nest, what is left when the *)
(* last one ends is monitored.                                             *)
LEMMA MonitorStep ==
  ASSUME OldServers = {}, MonitorInv, TypeOK', [Next]_vars, NEW d \in Clients
  PROVE  Monitored(d)'
<1> USE DEF mainVars, authVars, timerVars, mpdVars, worldVars, Live, IsConnected
<1>1. TypeOK /\ FreshClients /\ RegisteredClient /\ Monitored(d)
  BY DEF MonitorInv
<1>2. ASSUME UNCHANGED <<thread, stop, frames, link, mMpdTimer>>
      PROVE  Monitored(d)'
  BY <1>1, <1>2 DEF Monitored
<1>3. CASE UNCHANGED vars
  BY <1>2, <1>3 DEF vars
<1>4. CASE MainStep
  <2>1. CASE HandleConnecting \/ HandleConnected \/ HandleDisconnected
             \/ HandleRequiresAuthentication \/ AutoreconnectTimerTriggered
    BY <1>2, <2>1 DEF HandleConnecting, HandleConnected, HandleDisconnected,
                      HandleRequiresAuthentication, Handled, AutoreconnectTimerTriggered
  <2>2. ASSUME NEW c \in Clients, SetMusicClient(c)
        PROVE  Monitored(d)'
    <3>1. link'[c] = "none" /\ UNCHANGED <<stop, frames, link, mMpdTimer>>
      BY <1>1, <2>2 DEF SetMusicClient, FreshClients
    <3>2. d # c => thread'[d] = thread[d]
      BY <1>1, <2>2 DEF SetMusicClient, TypeOK
    <3> QED BY <1>1, <3>1, <3>2 DEF Monitored
  <2> QED BY <1>4, <2>1, <2>2 DEF MainStep
<1>5. CASE UserStep
  <2>1. CASE UserConnect \/ UserDisconnect
    BY <1>2, <2>1 DEF UserConnect, UserDisconnect
  <2>2. ASSUME NEW p \in Profiles, NEW c \in Clients, SelectProfile(p, c)
        PROVE  Monitored(d)'
    <3>1. UNCHANGED <<frames, link>>
      BY <2>2 DEF SelectProfile
    <3>2. thread'[d] = "running" /\ ~stop'[d] =>
            thread[d] = "running" /\ ~stop[d] /\ mMpdTimer'[d] = mMpdTimer[d]
      BY <1>1, <2>2 DEF SelectProfile, TypeOK
    <3> QED BY <1>1, <3>1, <3>2 DEF Monitored
  <2> QED BY <1>5, <2>1, <2>2 DEF UserStep
<1>6. CASE AnswerStep
  BY <1>2, <1>6 DEF AnswerStep, AnswerAuthentication
<1>7. ASSUME NEW c \in Clients, ClientStep(c)
      PROVE  Monitored(d)'
  <2>1. CASE c = d
    <3>1. Monitored(c)'
      BY <1>1, <1>7, <2>1, ClientMonitorStep
    <3> QED BY <2>1, <3>1
  <2>2. CASE c # d
    <3>1. /\ stop' = stop
          /\ thread'[d] = thread[d]
          /\ frames'[d] = frames[d]
          /\ link'[d] = link[d]
          /\ mMpdTimer'[d] = mMpdTimer[d]
      BY <1>1, <1>7, <2>2, ClientStepIsLocal
    <3> QED BY <1>1, <3>1 DEF Monitored
  <2> QED BY <2>1, <2>2
<1>8. CASE WorldStep
  <2>1. ASSUME NEW p \in Profiles, ServerFails(p)
        PROVE  Monitored(d)'
    <3>1. UNCHANGED <<thread, stop, frames, mMpdTimer>>
      BY <2>1 DEF ServerFails
    <3>2. link'[d] \in {"up", "broken"} => link[d] \in {"up", "broken"}
      BY <2>1 DEF ServerFails
    <3> QED BY <1>1, <3>1, <3>2 DEF Monitored
  <2>2. ASSUME NEW p \in Profiles, ServerReturns(p)
        PROVE  Monitored(d)'
    BY <1>2, <2>2 DEF ServerReturns
  <2> QED BY <1>8, <2>1, <2>2 DEF WorldStep
<1> QED BY <1>3, <1>4, <1>5, <1>6, <1>7, <1>8 DEF Next

(* Without servers older than MPD 0.12, a connection is never left alone.  *)
THEOREM ConnectionIsMonitoredAlways ==
  ASSUME OldServers = {}
  PROVE  Spec => []ConnectionIsMonitored
<1>1. Init => MonitorInv
  <2>1. SUFFICES ASSUME Init PROVE MonitorInv
    OBVIOUS
  <2>2. FreshClients /\ RegisteredClient /\ \A c \in Clients : Monitored(c)
    BY <2>1 DEF Init, FreshClients, RegisteredClient, Monitored, IsConnected
  <2> QED BY <2>1, <2>2, InitType DEF MonitorInv
<1>2. MonitorInv /\ TypeOK' /\ [Next]_vars => MonitorInv'
  BY FreshStep, MonitorStep DEF MonitorInv
<1>3. MonitorInv => ConnectionIsMonitored
  BY DEF MonitorInv, Monitored, ConnectionIsMonitored
<1> QED BY <1>1, <1>2, <1>3, TypeCorrect, PTL DEF Spec
=============================================================================
