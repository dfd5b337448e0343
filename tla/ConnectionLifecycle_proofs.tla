---------------------- MODULE ConnectionLifecycle_proofs ----------------------
(***************************************************************************)
(* For a patient user: that ServerConnection implements                    *)
(* ConnectionLifecycle, and that there is one client at a time.            *)
(*                                                                         *)
(* The argument is that there is one thing in the program that may lead to *)
(* an attempt, or stand for its result: the autoreconnect timer, a thread  *)
(* that starts, a connect message, a call of connectToServerWithProfile,   *)
(* an announced connection, or a "Disconnected" that the main thread has   *)
(* not handled.  mDisableAutoreconnectOnce pays for the second             *)
(* "Disconnected" of a connection that is lost while it is being closed.   *)
(* The last section, about this member, is for any user.                   *)
(***************************************************************************)
EXTENDS ServerConnection_proofs

-----------------------------------------------------------------------------
(* What is in a queue.                                                     *)

Waits(s, op) == \E i \in 1..Len(s) : s[i].op = op
Single(s, op) == \A i, j \in 1..Len(s) : s[i].op = op /\ s[j].op = op => i = j

\* At most none, one and two "Disconnected" in the queue q
IsLoss(q, i) == q[i].name = "Disconnected"
NoLoss(q) == \A i \in 1..Len(q) : ~IsLoss(q, i)
OneLoss(q) == \A i, j \in 1..Len(q) : IsLoss(q, i) /\ IsLoss(q, j) => i = j
TwoLosses(q) ==
  \A i, j, k \in 1..Len(q) :
    IsLoss(q, i) /\ IsLoss(q, j) /\ IsLoss(q, k) => i = j \/ i = k \/ j = k

(* A sequence with an element appended, and one without its head.          *)
LEMMA AppendElements ==
  ASSUME NEW S, NEW s \in Seq(S), NEW e \in S
  PROVE  /\ Len(s) \in Nat
         /\ Len(Append(s, e)) = Len(s) + 1
         /\ \A i \in 1..Len(s) : Append(s, e)[i] = s[i]
         /\ Append(s, e)[Len(s) + 1] = e
BY AppendProperties, LenProperties

LEMMA TailElements ==
  ASSUME NEW S, NEW s \in Seq(S), s # <<>>
  PROVE  /\ Len(s) \in Nat \ {0}
         /\ Len(Tail(s)) = Len(s) - 1
         /\ \A i \in 1..Len(Tail(s)) : Tail(s)[i] = s[i + 1] /\ i + 1 \in 1..Len(s)
         /\ Head(s) = s[1]
<1>1. Len(s) \in Nat \ {0} /\ Head(s) = s[1]
  BY EmptySeq
<1>2. /\ Len(Tail(s)) = Len(s) - 1
      /\ \A i \in 1..Len(Tail(s)) : Tail(s)[i] = s[i + 1]
  BY HeadTailProperties
<1> QED BY <1>1, <1>2

(* An appended message waits with the others.                              *)
LEMMA SendWaits ==
  ASSUME NEW s \in Seq(Request), NEW r \in Request, NEW op
  PROVE  /\ Waits(Append(s, r), op) <=> Waits(s, op) \/ r.op = op
         /\ Single(s, op) /\ (r.op # op \/ ~Waits(s, op)) => Single(Append(s, r), op)
<1>1. /\ Len(s) \in Nat /\ Len(Append(s, r)) = Len(s) + 1
      /\ \A i \in 1..Len(s) : Append(s, r)[i] = s[i]
      /\ Append(s, r)[Len(s) + 1] = r
  BY AppendElements
<1>2. \A i \in 1..Len(s) + 1 : i \in 1..Len(s) \/ i = Len(s) + 1
  BY <1>1
<1>3. Len(s) + 1 \in 1..Len(s) + 1 /\ 1..Len(s) \subseteq 1..Len(s) + 1
  BY <1>1
<1>4. Waits(Append(s, r), op) <=> Waits(s, op) \/ r.op = op
  BY <1>1, <1>2, <1>3 DEF Waits
<1>5. Single(s, op) /\ (r.op # op \/ ~Waits(s, op)) => Single(Append(s, r), op)
  BY <1>1, <1>2 DEF Single, Waits
<1> QED BY <1>4, <1>5

(* A message that is taken waits no longer, and the others still do.       *)
LEMMA ReceiveWaits ==
  ASSUME NEW s \in Seq(Request), s # <<>>, NEW op
  PROVE  /\ Head(s).op = op => Waits(s, op)
         /\ Head(s).op # op => (Waits(Tail(s), op) <=> Waits(s, op))
         /\ Waits(Tail(s), op) => Waits(s, op)
         /\ Single(s, op) => Single(Tail(s), op)
         /\ Single(s, op) /\ Head(s).op = op => ~Waits(Tail(s), op)
<1>1. /\ Len(s) \in Nat \ {0}
      /\ Len(Tail(s)) = Len(s) - 1
      /\ \A i \in 1..Len(Tail(s)) : Tail(s)[i] = s[i + 1] /\ i + 1 \in 1..Len(s)
      /\ Head(s) = s[1] /\ 1 \in 1..Len(s)
  BY TailElements
<1>2. \A i \in 1..Len(s) : i # 1 => i - 1 \in 1..Len(Tail(s)) /\ Tail(s)[i - 1] = s[i]
  BY <1>1
<1>3. Head(s).op = op => Waits(s, op)
  BY <1>1 DEF Waits
<1>4. Waits(Tail(s), op) => Waits(s, op)
  BY <1>1 DEF Waits
<1>5. Head(s).op # op /\ Waits(s, op) => Waits(Tail(s), op)
  BY <1>1, <1>2 DEF Waits
<1>6. Single(s, op) => Single(Tail(s), op)
  <2> SUFFICES ASSUME Single(s, op), NEW i \in 1..Len(Tail(s)), NEW j \in 1..Len(Tail(s)),
                      Tail(s)[i].op = op, Tail(s)[j].op = op
               PROVE  i = j
    BY DEF Single
  <2>1. i + 1 = j + 1
    BY <1>1 DEF Single
  <2> QED BY <2>1
<1>7. Single(s, op) /\ Head(s).op = op => ~Waits(Tail(s), op)
  <2> SUFFICES ASSUME Single(s, op), Head(s).op = op, NEW i \in 1..Len(Tail(s)),
                      Tail(s)[i].op = op
               PROVE  FALSE
    BY DEF Waits
  <2>1. 1 = i + 1
    BY <1>1 DEF Single
  <2> QED BY <2>1
<1> QED BY <1>3, <1>4, <1>5, <1>6, <1>7

(* Fewer losses are no more losses, and a queue without notifications has  *)
(* none.                                                                   *)
LEMMA LossesMonotone ==
  ASSUME NEW q
  PROVE  /\ NoLoss(q) => OneLoss(q)
         /\ OneLoss(q) => TwoLosses(q)
BY DEF NoLoss, OneLoss, TwoLosses

LEMMA EmptyHasNoLoss == NoLoss(<<>>)
BY DEF NoLoss

(* A notification that is posted adds one to the losses if it is one.      *)
LEMMA PostLosses ==
  ASSUME NEW q \in Seq(Notification), NEW n \in Notification
  PROVE  /\ n.name # "Disconnected" =>
              /\ NoLoss(q) => NoLoss(Append(q, n))
              /\ OneLoss(q) => OneLoss(Append(q, n))
              /\ TwoLosses(q) => TwoLosses(Append(q, n))
         /\ NoLoss(q) => OneLoss(Append(q, n))
         /\ OneLoss(q) => TwoLosses(Append(q, n))
<1> DEFINE a == Append(q, n)
<1>1. /\ Len(q) \in Nat /\ Len(a) = Len(q) + 1
      /\ \A i \in 1..Len(q) : a[i] = q[i]
      /\ a[Len(q) + 1] = n
  BY AppendElements
<1> HIDE DEF a
<1>2. \A i \in 1..Len(a) : i \in 1..Len(q) \/ i = Len(q) + 1
  BY <1>1
<1>3. n.name # "Disconnected" =>
        \A i \in 1..Len(a) : IsLoss(a, i) => i \in 1..Len(q) /\ IsLoss(q, i)
  BY <1>1, <1>2 DEF IsLoss
<1>4. \A i \in 1..Len(a) : IsLoss(a, i) => i = Len(q) + 1 \/ (i \in 1..Len(q) /\ IsLoss(q, i))
  BY <1>1, <1>2 DEF IsLoss
<1>5. n.name # "Disconnected" =>
        /\ NoLoss(q) => NoLoss(a)
        /\ OneLoss(q) => OneLoss(a)
        /\ TwoLosses(q) => TwoLosses(a)
  BY <1>3 DEF NoLoss, OneLoss, TwoLosses
<1>6. NoLoss(q) => OneLoss(a)
  BY <1>4 DEF NoLoss, OneLoss
<1>7. OneLoss(q) => TwoLosses(a)
  BY <1>4 DEF OneLoss, TwoLosses
<1> QED BY <1>5, <1>6, <1>7 DEF a

(* A notification that is handled takes one from the losses if it is one.  *)
LEMMA HandleLosses ==
  ASSUME NEW q \in Seq(Notification), q # <<>>
  PROVE  /\ NoLoss(q) => NoLoss(Tail(q))
         /\ OneLoss(q) => OneLoss(Tail(q))
         /\ TwoLosses(q) => TwoLosses(Tail(q))
         /\ Head(q).name = "Disconnected" =>
              /\ ~NoLoss(q)
              /\ OneLoss(q) => NoLoss(Tail(q))
              /\ TwoLosses(q) => OneLoss(Tail(q))
<1> DEFINE t == Tail(q)
<1>1. /\ Len(q) \in Nat \ {0}
      /\ Len(t) = Len(q) - 1
      /\ \A i \in 1..Len(t) : t[i] = q[i + 1] /\ i + 1 \in 1..Len(q)
      /\ Head(q) = q[1] /\ 1 \in 1..Len(q)
  BY TailElements
<1> HIDE DEF t
<1>2. \A i \in 1..Len(t) : IsLoss(t, i) => i + 1 \in 1..Len(q) /\ IsLoss(q, i + 1) /\ i + 1 # 1
  BY <1>1 DEF IsLoss
<1>3. \A i, j \in 1..Len(t) : i + 1 = j + 1 => i = j
  BY <1>1
<1>4. NoLoss(q) => NoLoss(t)
  BY <1>2 DEF NoLoss
<1>5. OneLoss(q) => OneLoss(t)
  BY <1>2, <1>3 DEF OneLoss
<1>6. TwoLosses(q) => TwoLosses(t)
  BY <1>2, <1>3 DEF TwoLosses
<1>7. ASSUME Head(q).name = "Disconnected"
      PROVE  /\ ~NoLoss(q)
             /\ OneLoss(q) => NoLoss(t)
             /\ TwoLosses(q) => OneLoss(t)
  <2>1. 1 \in 1..Len(q) /\ IsLoss(q, 1)
    BY <1>1, <1>7 DEF IsLoss
  <2>2. OneLoss(q) => NoLoss(t)
    BY <1>2, <2>1 DEF OneLoss, NoLoss
  <2>3. TwoLosses(q) => OneLoss(t)
    <3> SUFFICES ASSUME TwoLosses(q), NEW i \in 1..Len(t), NEW j \in 1..Len(t),
                        IsLoss(t, i), IsLoss(t, j)
                 PROVE  i = j
      BY DEF OneLoss
    <3>1. i + 1 = j + 1
      BY <1>2, <2>1 DEF TwoLosses
    <3> QED BY <3>1
  <2> QED BY <2>1, <2>2, <2>3 DEF NoLoss
<1> QED BY <1>4, <1>5, <1>6, <1>7 DEF t

(* Beginning, continuing and ending the only call of                       *)
(* connectToServerWithProfile.                                             *)
LEMMA StackOfOne ==
  ASSUME NEW s \in Seq(Frame), NEW f \in Frame
  PROVE  /\ s = <<>> => <<f>> \o s = <<f>>
         /\ s # <<>> /\ Len(s) <= 1 => Tail(s) = <<>> /\ <<f>> \o Tail(s) = <<f>>
         /\ <<f>> # <<>> /\ Len(<<f>>) = 1 /\ Head(<<f>>) = f
<1>1. <<f>> \in Seq(Frame) /\ Len(<<f>>) = 1 /\ Head(<<f>>) = f /\ <<f>> # <<>>
  OBVIOUS
<1>2. <<f>> \o <<>> = <<f>>
  OBVIOUS
<1>3. ASSUME s # <<>>, Len(s) <= 1 PROVE Tail(s) = <<>>
  <2>1. Len(Tail(s)) = 0 /\ Tail(s) \in Seq(Frame)
    BY <1>3, TailElements, HeadTailProperties
  <2> QED BY <2>1, EmptySeq
<1> QED BY <1>1, <1>2, <1>3

-----------------------------------------------------------------------------
(* The invariant.                                                          *)

\* One thread starts or serves mClient; every other one was told to stop.
OneThread ==
  /\ \A c, d \in Clients : thread[c] = "starting" /\ thread[d] = "starting" => c = d
  /\ \A c \in Clients :
       /\ thread[c] = "starting" => mClient = NoClient
       /\ thread[c] \in {"unborn", "starting"} => ~stop[c] /\ announced[c] = "none"
       /\ thread[c] = "running" /\ ~stop[c] => c = mClient
  /\ mClient # NoClient => thread[mClient] = "running" /\ ~stop[mClient]

\* A client that is not mClient has nothing left to do.
OthersIdle ==
  \A c \in Clients \ {mClient} :
    requests[c] = <<>> /\ frames[c] = <<>> /\ ~mMpdTimer[c]

\* Calls do not nest, and the announcement is that of a call, or of none.
OneCall ==
  \A c \in Clients :
    /\ Len(frames[c]) <= 1
    /\ frames[c] = <<>> => announced[c] \notin {"Connecting", "RequiresAuthentication"}
    /\ frames[c] # <<>> => announced[c] \in {"Connecting", "RequiresAuthentication"}
    /\ ~strayTimer[c]

\* Of mClient, what may lead to an attempt excludes the others, and a connection
\* that is announced or being closed.
OneCause(c) ==
  /\ Single(requests[c], "connect") /\ Single(requests[c], "disconnect")
  /\ Waits(requests[c], "connect") => frames[c] = <<>>
  /\ Waits(requests[c], "connect") \/ frames[c] # <<>> =>
       ~mAutoreconnectTimer /\ NoLoss(mainQueue)
  /\ Waits(requests[c], "connect") \/ frames[c] # <<>> \/ mAutoreconnectTimer =>
       announced[c] # "Connected" /\ ~Waits(requests[c], "disconnect")
  /\ mMpdTimer[c] => announced[c] = "Connected"
  /\ announced[c] = "Connected" => NoLoss(mainQueue)
  /\ Waits(requests[c], "disconnect") =>
       /\ announced[c] \in {"Connected", "Disconnected"}
       /\ OneLoss(mainQueue)
       /\ announced[c] = "Connected" \/ ~NoLoss(mainQueue) => mDisableAutoreconnectOnce

LossesCounted ==
  /\ TwoLosses(mainQueue)
  /\ ~mDisableAutoreconnectOnce => OneLoss(mainQueue)
  /\ mAutoreconnectTimer => NoLoss(mainQueue)
  /\ \A c \in Clients : thread[c] = "starting" => ~mAutoreconnectTimer /\ NoLoss(mainQueue)

CurrentCause == mClient # NoClient => OneCause(mClient)

CycleInv == OneThread /\ OthersIdle /\ OneCall /\ LossesCounted /\ CurrentCause

PatientInv == MonitorInv /\ CycleInv

LEMMA CycleInit == Init => CycleInv
<1> SUFFICES ASSUME Init PROVE CycleInv
  OBVIOUS
<1>1. OneThread /\ OthersIdle /\ OneCall /\ CurrentCause
  BY DEF Init, OneThread, OthersIdle, OneCall, CurrentCause
<1>2. LossesCounted
  BY EmptyHasNoLoss, LossesMonotone DEF Init, LossesCounted
<1> QED BY <1>1, <1>2 DEF CycleInv

-----------------------------------------------------------------------------
(* The main thread and the user.                                           *)

(* What leaves clients and messages alone keeps them on their own.         *)
LEMMA ClientsUntouched ==
  ASSUME CycleInv,
         UNCHANGED <<mClient, thread, stop, requests, frames, announced, mMpdTimer, strayTimer>>
  PROVE  OneThread' /\ OthersIdle' /\ OneCall'
BY DEF CycleInv, OneThread, OthersIdle, OneCall

(* A notification that tells of no loss.                                   *)
LEMMA OtherHandled ==
  ASSUME PatientInv, NEW name, name # "Disconnected", Handled(name),
         UNCHANGED <<mDisableAutoreconnectOnce, mAutoreconnectTimer>>
  PROVE  CycleInv'
<1>1. mainQueue \in Seq(Notification)
  BY DEF PatientInv, MonitorInv, TypeOK
<1>2. /\ mainQueue # <<>> /\ mainQueue' = Tail(mainQueue)
      /\ UNCHANGED <<mClient, thread, stop, requests, frames, announced, mMpdTimer, strayTimer>>
  BY DEF Handled, timerVars
<1>3. /\ NoLoss(mainQueue) => NoLoss(mainQueue')
      /\ OneLoss(mainQueue) => OneLoss(mainQueue')
      /\ TwoLosses(mainQueue) => TwoLosses(mainQueue')
  BY <1>1, <1>2, HandleLosses
<1>4. OneThread' /\ OthersIdle' /\ OneCall'
  BY <1>2, ClientsUntouched DEF PatientInv
<1>5. LossesCounted'
  BY <1>2, <1>3 DEF PatientInv, CycleInv, LossesCounted
<1>6. CurrentCause'
  BY <1>2, <1>3 DEF PatientInv, CycleInv, CurrentCause, OneCause
<1> QED BY <1>4, <1>5, <1>6 DEF CycleInv

(* A loss that is handled was the only cause: unless another one waits, and *)
(* then mDisableAutoreconnectOnce was set, it may start the timer.         *)
LEMMA LossHandled ==
  ASSUME PatientInv, HandleDisconnected
  PROVE  CycleInv'
<1>1. mainQueue \in Seq(Notification) /\ mDisableAutoreconnectOnce \in BOOLEAN
  BY DEF PatientInv, MonitorInv, TypeOK
<1>2. /\ mainQueue # <<>> /\ mainQueue' = Tail(mainQueue)
      /\ Head(mainQueue).name = "Disconnected"
      /\ UNCHANGED <<mClient, thread, stop, requests, frames, announced, mMpdTimer, strayTimer>>
  BY DEF HandleDisconnected, Handled, timerVars
<1>3. /\ ~NoLoss(mainQueue)
      /\ OneLoss(mainQueue) => NoLoss(mainQueue')
      /\ TwoLosses(mainQueue) => OneLoss(mainQueue')
      /\ NoLoss(mainQueue') => OneLoss(mainQueue')
      /\ OneLoss(mainQueue') => TwoLosses(mainQueue')
  BY <1>1, <1>2, HandleLosses, LossesMonotone
<1>4. OneThread' /\ OthersIdle' /\ OneCall'
  BY <1>2, ClientsUntouched DEF PatientInv
<1>5. /\ TwoLosses(mainQueue)
      /\ ~mDisableAutoreconnectOnce => OneLoss(mainQueue)
      /\ ~mAutoreconnectTimer
      /\ \A c \in Clients : thread[c] # "starting"
  BY <1>3 DEF PatientInv, CycleInv, LossesCounted
<1>6. ASSUME mClient # NoClient
      PROVE  /\ Single(requests[mClient], "connect") /\ Single(requests[mClient], "disconnect")
             /\ ~Waits(requests[mClient], "connect") /\ frames[mClient] = <<>>
             /\ announced[mClient] # "Connected"
             /\ ~mMpdTimer[mClient]
             /\ Waits(requests[mClient], "disconnect") =>
                  /\ mDisableAutoreconnectOnce /\ announced[mClient] = "Disconnected"
                  /\ OneLoss(mainQueue)
  BY <1>3, <1>6 DEF PatientInv, CycleInv, CurrentCause, OneCause
<1>7. \/ mDisableAutoreconnectOnce /\ ~mAutoreconnectTimer'
      \/ ~mDisableAutoreconnectOnce
      \/ UNCHANGED <<mAutoreconnectTimer, mDisableAutoreconnectOnce>>
  BY <1>5 DEF HandleDisconnected
<1>8. LossesCounted'
  BY <1>2, <1>3, <1>5, <1>7 DEF LossesCounted
<1>9. CurrentCause'
  BY <1>2, <1>3, <1>5, <1>6, <1>7 DEF CurrentCause, OneCause
<1> QED BY <1>4, <1>8, <1>9 DEF CycleInv

(* What a message sent to mClient changes of what waits for it.            *)
LEMMA SentWaits ==
  ASSUME PatientInv, NEW r \in Request, Send(r), UNCHANGED mClient
  PROVE  /\ \A c \in Clients \ {mClient} : requests'[c] = requests[c]
         /\ mClient # NoClient =>
              /\ \A op : Waits(requests'[mClient], op)
                         <=> Waits(requests[mClient], op) \/ r.op = op
              /\ \A op : Single(requests[mClient], op)
                           /\ (r.op # op \/ ~Waits(requests[mClient], op))
                         => Single(requests'[mClient], op)
<1>1. \A c \in Clients \ {mClient} : requests'[c] = requests[c]
  BY DEF Send
<1>2. ASSUME mClient # NoClient
      PROVE  /\ requests[mClient] \in Seq(Request)
             /\ requests'[mClient] = Append(requests[mClient], r)
  BY <1>2 DEF Send, PatientInv, MonitorInv, TypeOK
<1>3. ASSUME mClient # NoClient, NEW op
      PROVE  /\ Waits(Append(requests[mClient], r), op)
                  <=> Waits(requests[mClient], op) \/ r.op = op
             /\ Single(requests[mClient], op)
                 /\ (r.op # op \/ ~Waits(requests[mClient], op))
                  => Single(Append(requests[mClient], r), op)
  BY <1>2, <1>3, SendWaits
<1> QED BY <1>1, <1>2, <1>3

(* A message leaves the clients as they are.                               *)
LEMMA SendKeepsClients ==
  ASSUME PatientInv, NEW r \in Request, Send(r),
         UNCHANGED <<mClient, thread, stop, frames, announced, mMpdTimer, strayTimer>>
  PROVE  OneThread' /\ OthersIdle' /\ OneCall'
BY SentWaits DEF PatientInv, CycleInv, OneThread, OthersIdle, OneCall

(* connectToServerWithProfile is sent when there is no other cause, and is *)
(* the only one then.                                                      *)
LEMMA ConnectSent ==
  ASSUME PatientInv, SendConnect, mAutoreconnectTimer' = FALSE,
         NoLoss(mainQueue),
         \A c \in Clients : thread[c] # "starting",
         mClient # NoClient =>
           /\ ~Waits(requests[mClient], "connect") /\ ~Waits(requests[mClient], "disconnect")
           /\ frames[mClient] = <<>> /\ announced[mClient] # "Connected",
         UNCHANGED <<mClient, mDisableAutoreconnectOnce, mainQueue, announced, thread, stop,
                     frames, timerVars>>
  PROVE  CycleInv'
<1> DEFINE r == [op |-> "connect", profile |-> currentProfile]
<1>1. r \in Request /\ r.op = "connect" /\ Send(r)
  BY DEF SendConnect, Request, PatientInv, MonitorInv, TypeOK
<1> HIDE DEF r
<1>2. UNCHANGED <<mClient, thread, stop, frames, announced, mMpdTimer, strayTimer>>
  BY DEF timerVars
<1>3. OneThread' /\ OthersIdle' /\ OneCall'
  BY <1>1, <1>2, SendKeepsClients
<1>4. LossesCounted'
  BY <1>2 DEF LossesCounted, PatientInv, CycleInv
<1>5. ASSUME mClient # NoClient
      PROVE  OneCause(mClient)'
  <2>1. OneCause(mClient)
    BY <1>5 DEF PatientInv, CycleInv, CurrentCause
  <2>2. /\ Waits(requests'[mClient], "connect") /\ ~Waits(requests'[mClient], "disconnect")
        /\ Single(requests'[mClient], "connect") /\ Single(requests'[mClient], "disconnect")
    BY <1>1, <1>2, <1>5, <2>1, SentWaits DEF OneCause
  <2> QED BY <1>2, <1>5, <2>1, <2>2 DEF OneCause
<1>6. CurrentCause'
  BY <1>2, <1>5 DEF CurrentCause
<1> QED BY <1>3, <1>4, <1>6 DEF CycleInv

LEMMA TimerStep ==
  ASSUME PatientInv, AutoreconnectTimerTriggered
  PROVE  CycleInv'
<1>1. mAutoreconnectTimer
  BY DEF AutoreconnectTimerTriggered
<1>2. NoLoss(mainQueue) /\ \A c \in Clients : thread[c] # "starting"
  BY <1>1 DEF PatientInv, CycleInv, LossesCounted
<1>3. mClient # NoClient =>
        /\ ~Waits(requests[mClient], "connect") /\ ~Waits(requests[mClient], "disconnect")
        /\ frames[mClient] = <<>> /\ announced[mClient] # "Connected"
  BY <1>1 DEF PatientInv, CycleInv, CurrentCause, OneCause
<1> QED BY <1>2, <1>3, ConnectSent DEF AutoreconnectTimerTriggered

(* What a patient user waits for.                                          *)
LEMMA SettledQuiet ==
  ASSUME PatientInv, Settled
  PROVE  /\ NoLoss(mainQueue) /\ mainQueue = <<>>
         /\ \A c \in Clients :
              /\ thread[c] # "starting" /\ frames[c] = <<>> /\ requests[c] = <<>>
              /\ \A op : ~Waits(requests[c], op)
         /\ mClient # NoClient => (announced[mClient] = "Connected" <=> IsConnected(mClient))
<1>1. \A op : ~Waits(<<>>, op)
  BY DEF Waits
<1>2. mainQueue = <<>> /\ \A c \in Clients : thread[c] # "starting" /\ frames[c] = <<>> /\ requests[c] = <<>>
  BY DEF Settled, Drained
<1>3. ASSUME mClient # NoClient
      PROVE  announced[mClient] = "Connected" <=> IsConnected(mClient)
  <2>1. mClient \in Clients /\ Live(mClient) /\ frames[mClient] = <<>>
    BY <1>2, <1>3 DEF PatientInv, MonitorInv, TypeOK, CycleInv, OneThread, Live
  <2>2. IsConnected(mClient) => mMpdTimer[mClient]
    BY <2>1 DEF PatientInv, MonitorInv, Monitored
  <2>3. mMpdTimer[mClient] => announced[mClient] = "Connected"
    BY <1>3 DEF PatientInv, CycleInv, CurrentCause, OneCause
  <2> QED BY <2>1, <2>2, <2>3 DEF Settled, Live
<1> QED BY <1>1, <1>2, <1>3, EmptyHasNoLoss

LEMMA UserStepCycle ==
  ASSUME PatientUser, PatientInv, UserStep
  PROVE  CycleInv'
<1>1. CASE UserConnect
  <2>1. Settled /\ (mClient # NoClient => ~IsConnected(mClient))
    BY <1>1 DEF UserConnect, UserMay
  <2>2. mClient \in Clients \cup {NoClient}
    BY DEF PatientInv, MonitorInv, TypeOK
  <2> QED BY <1>1, <2>1, <2>2, SettledQuiet, ConnectSent DEF UserConnect
<1>2. CASE UserDisconnect
  <2> DEFINE r == [op |-> "disconnect"]
  <2>1. r \in Request /\ r.op = "disconnect" /\ Send(r)
    BY <1>2 DEF UserDisconnect, Request
  <2> HIDE DEF r
  <2>2. /\ Settled /\ mClient # NoClient /\ IsConnected(mClient)
        /\ mDisableAutoreconnectOnce' = TRUE
        /\ UNCHANGED <<mClient, thread, stop, frames, announced, mMpdTimer, strayTimer,
                       mAutoreconnectTimer, mainQueue>>
    BY <1>2 DEF UserDisconnect, UserMay, timerVars
  <2>3. OneThread' /\ OthersIdle' /\ OneCall'
    BY <2>1, <2>2, SendKeepsClients
  <2>4. LossesCounted'
    BY <2>2 DEF PatientInv, CycleInv, LossesCounted
  <2>5. mClient \in Clients /\ OneCause(mClient)
    BY <2>2 DEF PatientInv, MonitorInv, TypeOK, CycleInv, CurrentCause
  <2>6. /\ announced[mClient] = "Connected" /\ NoLoss(mainQueue) /\ frames[mClient] = <<>>
        /\ ~Waits(requests[mClient], "connect") /\ ~Waits(requests[mClient], "disconnect")
        /\ ~mAutoreconnectTimer
    BY <2>2, <2>5, SettledQuiet DEF OneCause
  <2>7. /\ ~Waits(requests'[mClient], "connect")
        /\ Single(requests'[mClient], "connect") /\ Single(requests'[mClient], "disconnect")
    BY <2>1, <2>2, <2>5, <2>6, SentWaits DEF OneCause
  <2>8. OneCause(mClient)'
    BY <2>2, <2>5, <2>6, <2>7, LossesMonotone DEF OneCause
  <2>9. CurrentCause'
    BY <2>2, <2>8 DEF CurrentCause
  <2> QED BY <2>3, <2>4, <2>9 DEF CycleInv
<1>3. ASSUME NEW p \in Profiles, NEW c \in Clients, SelectProfile(p, c)
      PROVE  CycleInv'
  <2>1. /\ Settled /\ ~mAutoreconnectTimer /\ thread[c] = "unborn"
        /\ stop' = [d \in Clients |-> stop[d] \/ d = mClient]
        /\ mMpdTimer' = [d \in Clients |-> mMpdTimer[d] /\ d # mClient]
        /\ mClient' = NoClient
        /\ thread' = [thread EXCEPT ![c] = "starting"]
        /\ UNCHANGED <<mDisableAutoreconnectOnce, mAutoreconnectTimer, requests, mainQueue,
                       announced, frames, strayTimer>>
    BY <1>3 DEF SelectProfile, UserMay
  <2>2. /\ NoLoss(mainQueue)
        /\ \A d \in Clients : thread[d] # "starting" /\ frames[d] = <<>> /\ requests[d] = <<>>
    BY <2>1, SettledQuiet
  <2>3. /\ thread \in [Clients -> {"unborn", "starting", "running", "exited"}]
        /\ NoClient \notin Clients
    BY ClientsAssumption DEF PatientInv, MonitorInv, TypeOK
  <2>4. thread'[c] = "starting" /\ \A d \in Clients \ {c} : thread'[d] = thread[d]
    BY <2>1, <2>3
  <2>5. c # mClient /\ ~stop[c] /\ announced[c] = "none"
    BY <2>1, <2>3 DEF PatientInv, CycleInv, OneThread
  <2>6. OneThread'
    <3>1. \A d, e \in Clients : thread'[d] = "starting" /\ thread'[e] = "starting" => d = e
      BY <2>2, <2>4
    <3>2. ASSUME NEW d \in Clients
          PROVE  /\ thread'[d] \in {"unborn", "starting"} => ~stop'[d] /\ announced'[d] = "none"
                 /\ thread'[d] = "running" => stop'[d]
      <4>1. thread'[d] \in {"unborn", "starting"} => thread[d] \in {"unborn", "starting"}
        BY <2>1, <2>4
      <4>2. thread'[d] = "running" => thread[d] = "running"
        BY <2>4
      <4>3. d = mClient => thread[d] = "running"
        BY <2>3 DEF PatientInv, CycleInv, OneThread
      <4>4. stop'[d] <=> stop[d] \/ d = mClient
        BY <2>1
      <4>5. /\ thread[d] \in {"unborn", "starting"} => ~stop[d] /\ announced[d] = "none"
            /\ thread[d] = "running" /\ ~stop[d] => d = mClient
        BY DEF PatientInv, CycleInv, OneThread
      <4> QED BY <2>1, <4>1, <4>2, <4>3, <4>4, <4>5
    <3> QED BY <2>1, <3>1, <3>2 DEF OneThread
  <2>7. OthersIdle'
    BY <2>1, <2>2 DEF PatientInv, CycleInv, OthersIdle
  <2>8. OneCall'
    BY <2>1 DEF PatientInv, CycleInv, OneCall
  <2>9. LossesCounted'
    BY <2>1, <2>2 DEF PatientInv, CycleInv, LossesCounted
  <2>10. CurrentCause'
    BY <2>1 DEF CurrentCause
  <2> QED BY <2>6, <2>7, <2>8, <2>9, <2>10 DEF CycleInv
<1> QED BY <1>1, <1>2, <1>3 DEF UserStep

LEMMA AnswerStepCycle ==
  ASSUME PatientInv, AnswerStep
  PROVE  CycleInv'
<1> PICK password \in Passwords \cup {"canceled"}, save \in BOOLEAN :
      AnswerAuthentication(password, save)
  BY DEF AnswerStep
<1> DEFINE r == [op |-> "authenticate", password |-> password]
<1>1. r \in Request /\ r.op = "authenticate" /\ Send(r)
  BY DEF AnswerAuthentication, Request
<1> HIDE DEF r
<1>2. UNCHANGED <<mClient, thread, stop, frames, announced, mMpdTimer, strayTimer,
                  mDisableAutoreconnectOnce, mAutoreconnectTimer, mainQueue>>
  BY DEF AnswerAuthentication, timerVars
<1>3. OneThread' /\ OthersIdle' /\ OneCall'
  BY <1>1, <1>2, SendKeepsClients
<1>4. LossesCounted'
  BY <1>2 DEF PatientInv, CycleInv, LossesCounted
<1>5. ASSUME mClient # NoClient
      PROVE  OneCause(mClient)'
  <2>1. OneCause(mClient)
    BY <1>5 DEF PatientInv, CycleInv, CurrentCause
  <2>2. /\ Waits(requests'[mClient], "connect") <=> Waits(requests[mClient], "connect")
        /\ Waits(requests'[mClient], "disconnect") <=> Waits(requests[mClient], "disconnect")
        /\ Single(requests'[mClient], "connect") /\ Single(requests'[mClient], "disconnect")
    BY <1>1, <1>2, <1>5, <2>1, SentWaits DEF OneCause
  <2> QED BY <1>2, <1>5, <2>1, <2>2 DEF OneCause
<1>6. CurrentCause'
  BY <1>2, <1>5 DEF CurrentCause
<1> QED BY <1>3, <1>4, <1>6 DEF CycleInv

LEMMA RegisterStep ==
  ASSUME PatientInv, NEW c \in Clients, SetMusicClient(c)
  PROVE  CycleInv'
<1> DEFINE r == [op |-> "connect", profile |-> currentProfile]
<1>1. r \in Request /\ r.op = "connect"
  BY DEF Request, PatientInv, MonitorInv, TypeOK
<1> HIDE DEF r
<1>2. /\ thread[c] = "starting" /\ mClient' = c
      /\ thread' = [thread EXCEPT ![c] = "running"]
      /\ requests' = [requests EXCEPT ![c] = Append(@, r)]
      /\ UNCHANGED <<mDisableAutoreconnectOnce, mAutoreconnectTimer, mainQueue, announced,
                     stop, frames, mMpdTimer, strayTimer>>
  BY DEF SetMusicClient, timerVars, r
<1>3. /\ thread \in [Clients -> {"unborn", "starting", "running", "exited"}]
      /\ requests \in [Clients -> Seq(Request)]
      /\ NoClient \notin Clients
  BY ClientsAssumption DEF PatientInv, MonitorInv, TypeOK
<1>4. /\ thread'[c] = "running" /\ requests'[c] = Append(requests[c], r)
      /\ \A d \in Clients \ {c} : thread'[d] = thread[d] /\ requests'[d] = requests[d]
  BY <1>2, <1>3
<1>5. /\ mClient = NoClient /\ ~stop[c] /\ announced[c] = "none"
      /\ \A d \in Clients \ {c} : thread[d] # "starting"
  BY <1>2 DEF PatientInv, CycleInv, OneThread
<1>6. requests[c] = <<>> /\ frames[c] = <<>> /\ ~mMpdTimer[c]
  BY <1>3, <1>5 DEF PatientInv, CycleInv, OthersIdle
<1>7. NoLoss(mainQueue) /\ ~mAutoreconnectTimer
  BY <1>2 DEF PatientInv, CycleInv, LossesCounted
<1>8. OneThread'
  BY <1>2, <1>3, <1>4, <1>5 DEF PatientInv, CycleInv, OneThread
<1>9. OthersIdle'
  BY <1>2, <1>3, <1>4, <1>5 DEF PatientInv, CycleInv, OthersIdle
<1>10. OneCall'
  BY <1>2 DEF PatientInv, CycleInv, OneCall
<1>11. LossesCounted'
  BY <1>2, <1>4, <1>5, <1>7 DEF PatientInv, CycleInv, LossesCounted
<1>12. OneCause(c)'
  <2>1. \A op : ~Waits(requests[c], op) /\ Single(requests[c], op)
    BY <1>6 DEF Waits, Single
  <2>2. /\ ~Waits(requests'[c], "disconnect")
        /\ Single(requests'[c], "connect") /\ Single(requests'[c], "disconnect")
    <3>1. requests[c] \in Seq(Request)
      BY <1>3
    <3>2. ASSUME NEW op
          PROVE  /\ Waits(Append(requests[c], r), op) <=> r.op = op
                 /\ Single(Append(requests[c], r), op)
      BY <1>1, <2>1, <3>1, SendWaits
    <3> QED BY <1>1, <1>4, <3>2
  <2> QED BY <1>2, <1>5, <1>6, <1>7, <2>2 DEF OneCause
<1>13. CurrentCause'
  BY <1>2, <1>12 DEF CurrentCause
<1> QED BY <1>8, <1>9, <1>10, <1>11, <1>13 DEF CycleInv

-----------------------------------------------------------------------------
(* The client's thread.                                                    *)

OneCallOf(c) ==
  /\ Len(frames[c]) <= 1
  /\ frames[c] = <<>> => announced[c] \notin {"Connecting", "RequiresAuthentication"}
  /\ frames[c] # <<>> => announced[c] \in {"Connecting", "RequiresAuthentication"}
  /\ ~strayTimer[c]

(* What a notification that is posted changes.                             *)
LEMMA Posted ==
  ASSUME PatientInv, NEW c \in Clients, NEW name \in Names, NEW reason \in Reasons,
         Post(c, name, reason)
  PROVE  /\ announced' = [announced EXCEPT ![c] = name] /\ announced'[c] = name
         /\ name # "Disconnected" =>
              /\ NoLoss(mainQueue) => NoLoss(mainQueue')
              /\ OneLoss(mainQueue) => OneLoss(mainQueue')
              /\ TwoLosses(mainQueue) => TwoLosses(mainQueue')
         /\ NoLoss(mainQueue) => OneLoss(mainQueue')
         /\ OneLoss(mainQueue) => TwoLosses(mainQueue')
<1> DEFINE n == [from |-> c, name |-> name, reason |-> reason]
<1>1. n \in Notification /\ n.name = name
  BY DEF Notification
<1>2. mainQueue \in Seq(Notification) /\ announced \in [Clients -> Names \cup {"none"}]
  BY DEF PatientInv, MonitorInv, TypeOK
<1>3. mainQueue' = Append(mainQueue, n) /\ announced' = [announced EXCEPT ![c] = name]
  BY DEF Post
<1> HIDE DEF n
<1> QED BY <1>1, <1>2, <1>3, PostLosses

(* What a message that is taken changes of what waits.                     *)
LEMMA Received ==
  ASSUME PatientInv, NEW c \in Clients, NEW op, Receives(c, op)
  PROVE  /\ Waits(requests[c], op)
         /\ \A o \in {"connect", "disconnect", "authenticate"} :
              /\ o # op => (Waits(requests'[c], o) <=> Waits(requests[c], o))
              /\ Waits(requests'[c], o) => Waits(requests[c], o)
              /\ Single(requests[c], o) => Single(requests'[c], o)
              /\ Single(requests[c], o) /\ o = op => ~Waits(requests'[c], o)
<1>1. requests[c] \in Seq(Request) /\ requests[c] # <<>> /\ Head(requests[c]).op = op
  BY DEF Receives, PatientInv, MonitorInv, TypeOK
<1>2. requests'[c] = Tail(requests[c])
  BY DEF Receives, PatientInv, MonitorInv, TypeOK
<1>3. Waits(requests[c], op)
  BY <1>1, ReceiveWaits
<1>4. ASSUME NEW o \in {"connect", "disconnect", "authenticate"}
      PROVE  /\ o # op => (Waits(Tail(requests[c]), o) <=> Waits(requests[c], o))
             /\ Waits(Tail(requests[c]), o) => Waits(requests[c], o)
             /\ Single(requests[c], o) => Single(Tail(requests[c]), o)
             /\ Single(requests[c], o) /\ o = op => ~Waits(Tail(requests[c]), o)
  BY <1>1, ReceiveWaits
<1> QED BY <1>2, <1>3, <1>4

(* A client that is not mClient can only leave its loop.                   *)
LEMMA OthersOnlyExit ==
  ASSUME PatientInv, NEW c \in Clients, ClientStep(c), c # mClient
  PROVE  ExitThread(c)
<1>1. requests[c] = <<>> /\ frames[c] = <<>> /\ ~mMpdTimer[c] /\ ~strayTimer[c]
  BY DEF PatientInv, CycleInv, OthersIdle, OneCall
<1> QED
  BY <1>1 DEF ClientStep, IgnoreConnect, BeginConnect, ServeDisconnect, ServeAuthenticate,
              Receives, ConnectFails, ReportFailure, ConnectSucceeds, AskForPassword,
              ResumeCanceled, ResumeWithPassword, Answered, InPhase, MpdTimerTriggered

LEMMA ExitStep ==
  ASSUME PatientInv, NEW c \in Clients, ExitThread(c)
  PROVE  CycleInv' /\ UNCHANGED announced
<1>1. /\ thread[c] = "running" /\ stop[c]
      /\ thread' = [thread EXCEPT ![c] = "exited"]
      /\ mMpdTimer' = [mMpdTimer EXCEPT ![c] = FALSE]
      /\ strayTimer' = [strayTimer EXCEPT ![c] = FALSE]
      /\ UNCHANGED <<mClient, mDisableAutoreconnectOnce, mAutoreconnectTimer, requests,
                     mainQueue, announced, stop, frames>>
  BY DEF ExitThread, mainVars
<1>2. /\ thread \in [Clients -> {"unborn", "starting", "running", "exited"}]
      /\ mMpdTimer \in [Clients -> BOOLEAN] /\ strayTimer \in [Clients -> BOOLEAN]
      /\ mClient \in Clients \cup {NoClient}
  BY DEF PatientInv, MonitorInv, TypeOK
<1>3. c # mClient
  BY <1>1, ClientsAssumption DEF PatientInv, CycleInv, OneThread
<1>4. /\ thread'[c] = "exited" /\ ~mMpdTimer'[c] /\ ~strayTimer'[c]
      /\ \A d \in Clients \ {c} :
           thread'[d] = thread[d] /\ mMpdTimer'[d] = mMpdTimer[d] /\ strayTimer'[d] = strayTimer[d]
  BY <1>1, <1>2
<1>5. OneThread'
  BY <1>1, <1>2, <1>3, <1>4 DEF PatientInv, CycleInv, OneThread
<1>6. OthersIdle'
  BY <1>1, <1>4 DEF PatientInv, CycleInv, OthersIdle
<1>7. OneCall'
  BY <1>1, <1>4 DEF PatientInv, CycleInv, OneCall
<1>8. LossesCounted'
  BY <1>1, <1>4 DEF PatientInv, CycleInv, LossesCounted
<1>9. CurrentCause'
  BY <1>1, <1>2, <1>3, <1>4 DEF PatientInv, CycleInv, CurrentCause, OneCause
<1> QED BY <1>1, <1>5, <1>6, <1>7, <1>8, <1>9 DEF CycleInv

(* A step of the current client concerns it alone.                         *)
LEMMA CurrentStep ==
  ASSUME PatientInv, mClient # NoClient, ClientStep(mClient),
         UNCHANGED thread,
         OneCallOf(mClient)', OneCause(mClient)',
         TwoLosses(mainQueue'),
         ~mDisableAutoreconnectOnce => OneLoss(mainQueue'),
         mAutoreconnectTimer => NoLoss(mainQueue'),
         \A d \in Clients \ {mClient} : strayTimer'[d] = strayTimer[d],
         UNCHANGED <<mDisableAutoreconnectOnce, mAutoreconnectTimer>>
  PROVE  CycleInv'
<1>1. /\ mClient \in Clients /\ TypeOK
  BY DEF PatientInv, MonitorInv, TypeOK
<1>2. /\ UNCHANGED <<mClient, currentProfile, stop>>
      /\ thread[mClient] = "running"
      /\ \A d \in Clients \ {mClient} :
           /\ requests'[d] = requests[d] /\ frames'[d] = frames[d]
           /\ announced'[d] = announced[d] /\ mMpdTimer'[d] = mMpdTimer[d]
  BY <1>1, ClientStepIsLocal
<1>3. OneThread'
  BY <1>1, <1>2 DEF PatientInv, CycleInv, OneThread
<1>4. OthersIdle'
  BY <1>1, <1>2 DEF PatientInv, CycleInv, OthersIdle
<1>5. OneCall'
  <2> SUFFICES ASSUME NEW d \in Clients PROVE OneCallOf(d)'
    BY DEF OneCall, OneCallOf
  <2>1. CASE d = mClient
    BY <1>2, <2>1
  <2>2. CASE d # mClient
    BY <1>2, <2>2 DEF PatientInv, CycleInv, OneCall, OneCallOf
  <2> QED BY <2>1, <2>2
<1>6. LossesCounted'
  <2>1. \A d \in Clients : thread[d] # "starting"
    BY DEF PatientInv, CycleInv, OneThread
  <2> QED BY <2>1 DEF LossesCounted
<1>7. CurrentCause'
  BY <1>2 DEF CurrentCause
<1> QED BY <1>3, <1>4, <1>5, <1>6, <1>7 DEF CycleInv

\* What a step of the current client c leaves to be shown, and that its
\* announcement is one of the cycle
CurrentKept(c) ==
  /\ OneCallOf(c)' /\ OneCause(c)'
  /\ TwoLosses(mainQueue')
  /\ ~mDisableAutoreconnectOnce => OneLoss(mainQueue')
  /\ mAutoreconnectTimer => NoLoss(mainQueue')
  /\ \A d \in Clients \ {c} : strayTimer'[d] = strayTimer[d]
  /\ UNCHANGED <<thread, mDisableAutoreconnectOnce, mAutoreconnectTimer>>
  /\ [Lifecycle!Next]_announced

(* Facts of the invariant about the current client c.                      *)
LEMMA CurrentFacts ==
  ASSUME PatientInv, NEW c \in Clients, c = mClient
  PROVE  /\ OneCause(c) /\ OneCallOf(c) /\ ~stop[c]
         /\ TwoLosses(mainQueue)
         /\ ~mDisableAutoreconnectOnce => OneLoss(mainQueue)
         /\ mAutoreconnectTimer => NoLoss(mainQueue)
         /\ announced \in [Clients -> Names \cup {"none"}]
         /\ frames \in [Clients -> Seq(Frame)]
         /\ mMpdTimer \in [Clients -> BOOLEAN] /\ strayTimer \in [Clients -> BOOLEAN]
BY ClientsAssumption DEF PatientInv, MonitorInv, TypeOK, CycleInv, OneThread, OneCall, OneCallOf,
                         LossesCounted, CurrentCause

(* Messages that begin no attempt and close nothing.                       *)
LEMMA QuietMessageStep ==
  ASSUME PatientInv, NEW c \in Clients, c = mClient, IgnoreConnect(c) \/ ServeAuthenticate(c)
  PROVE  CurrentKept(c)
<1>1. /\ UNCHANGED <<thread, mDisableAutoreconnectOnce, mAutoreconnectTimer, mainQueue,
                     announced, frames, mMpdTimer, strayTimer>>
      /\ Receives(c, "connect") \/ Receives(c, "authenticate")
  BY DEF IgnoreConnect, ServeAuthenticate, Receives, timerVars, mainVars
<1>2. OneCause(c)'
  <2>1. /\ Waits(requests'[c], "connect") => Waits(requests[c], "connect")
        /\ Waits(requests'[c], "disconnect") => Waits(requests[c], "disconnect")
        /\ Single(requests[c], "connect") => Single(requests'[c], "connect")
        /\ Single(requests[c], "disconnect") => Single(requests'[c], "disconnect")
    BY <1>1, Received
  <2> QED BY <1>1, <2>1, CurrentFacts DEF OneCause
<1>3. OneCallOf(c)'
  BY <1>1, CurrentFacts DEF OneCallOf
<1> QED BY <1>1, <1>2, <1>3, CurrentFacts DEF CurrentKept

(* An attempt begins after the last one, from the message that caused it.  *)
LEMMA BeginStep ==
  ASSUME PatientInv, NEW c \in Clients, c = mClient, BeginConnect(c)
  PROVE  CurrentKept(c)
<1> DEFINE f == [phase |-> "asking", profile |-> Head(requests[c]).profile]
<1>1. /\ Receives(c, "connect") /\ Post(c, "Connecting", "none")
      /\ frames' = [frames EXCEPT ![c] = <<f>> \o @]
      /\ UNCHANGED <<thread, mDisableAutoreconnectOnce, mAutoreconnectTimer, mMpdTimer, strayTimer>>
  BY DEF BeginConnect, Receives, timerVars, mainVars
<1>2. f \in Frame /\ f.phase = "asking"
  <2>1. Head(requests[c]).profile \in Profiles
    BY <1>1, ReceivesType, RequestFields DEF PatientInv, MonitorInv
  <2> QED BY <2>1 DEF Frame
<1> HIDE DEF f
<1>3. /\ Waits(requests[c], "connect") /\ ~Waits(requests'[c], "connect")
      /\ ~Waits(requests'[c], "disconnect")
      /\ Single(requests'[c], "connect") /\ Single(requests'[c], "disconnect")
  BY <1>1, Received, CurrentFacts DEF OneCause
<1>4. /\ frames[c] = <<>> /\ ~mAutoreconnectTimer /\ NoLoss(mainQueue)
      /\ announced[c] # "Connected" /\ ~mMpdTimer[c]
      /\ announced[c] \in {"none", "Disconnected"}
  BY <1>3, CurrentFacts DEF OneCause, OneCallOf, Names
<1>5. frames'[c] # <<>> /\ Len(frames'[c]) = 1 /\ Head(frames'[c]) = f
  <2>1. frames'[c] = <<f>> \o frames[c]
    BY <1>1, CurrentFacts
  <2> QED BY <1>2, <1>4, <2>1, StackOfOne, CurrentFacts
<1>6. /\ announced' = [announced EXCEPT ![c] = "Connecting"] /\ announced'[c] = "Connecting"
      /\ NoLoss(mainQueue')
  BY <1>1, <1>4, Posted DEF Names, Reasons
<1>7. OneCause(c)'
  BY <1>1, <1>3, <1>4, <1>6 DEF OneCause
<1>8. OneCallOf(c)'
  BY <1>1, <1>2, <1>5, <1>6, CurrentFacts DEF OneCallOf
<1>9. [Lifecycle!Next]_announced
  BY <1>4, <1>6 DEF Lifecycle!Next, Lifecycle!Attempt, Lifecycle!Becomes
<1> QED BY <1>1, <1>4, <1>6, <1>7, <1>8, <1>9, LossesMonotone DEF CurrentKept

(* A connection that is closed on request was announced, or its loss was.  *)
LEMMA CloseStep ==
  ASSUME PatientInv, NEW c \in Clients, c = mClient, ServeDisconnect(c)
  PROVE  CurrentKept(c)
<1>1. /\ Receives(c, "disconnect") /\ Post(c, "Disconnected", "asked")
      /\ mMpdTimer' = [mMpdTimer EXCEPT ![c] = FALSE]
      /\ UNCHANGED <<thread, mDisableAutoreconnectOnce, mAutoreconnectTimer, frames, strayTimer>>
  BY DEF ServeDisconnect, DisconnectWithReason, Receives, mainVars
<1>2. /\ Waits(requests[c], "disconnect") /\ ~Waits(requests'[c], "disconnect")
      /\ Waits(requests'[c], "connect") => Waits(requests[c], "connect")
      /\ Single(requests'[c], "connect") /\ Single(requests'[c], "disconnect")
  BY <1>1, Received, CurrentFacts DEF OneCause
<1>3. /\ frames[c] = <<>> /\ ~mAutoreconnectTimer /\ ~Waits(requests[c], "connect")
      /\ announced[c] \in {"Connected", "Disconnected"}
      /\ NoLoss(mainQueue) \/ (mDisableAutoreconnectOnce /\ OneLoss(mainQueue))
  BY <1>2, CurrentFacts DEF OneCause
<1>4. /\ announced' = [announced EXCEPT ![c] = "Disconnected"] /\ announced'[c] = "Disconnected"
      /\ NoLoss(mainQueue) => OneLoss(mainQueue')
      /\ OneLoss(mainQueue) => TwoLosses(mainQueue')
  BY <1>1, Posted DEF Names, Reasons
<1>5. /\ TwoLosses(mainQueue')
      /\ ~mDisableAutoreconnectOnce => OneLoss(mainQueue')
  BY <1>3, <1>4, LossesMonotone
<1>6. ~mMpdTimer'[c]
  BY <1>1, CurrentFacts
<1>7. OneCause(c)'
  BY <1>1, <1>2, <1>3, <1>4, <1>6 DEF OneCause
<1>8. OneCallOf(c)'
  BY <1>1, <1>3, <1>4, CurrentFacts DEF OneCallOf
<1>9. [Lifecycle!Next]_announced
  <2>1. CASE announced[c] = "Connected"
    BY <1>4, <2>1 DEF Lifecycle!Next, Lifecycle!Close, Lifecycle!Becomes
  <2>2. CASE announced[c] = "Disconnected"
    BY <1>4, <2>2, CurrentFacts
  <2> QED BY <1>3, <2>1, <2>2
<1> QED BY <1>1, <1>3, <1>5, <1>7, <1>8, <1>9 DEF CurrentKept

(* The timer finds only connections lost that were announced.              *)
LEMMA LossStep ==
  ASSUME PatientInv, NEW c \in Clients, c = mClient, MpdTimerTriggered(c)
  PROVE  CurrentKept(c)
<1>1. /\ mMpdTimer[c] \/ strayTimer[c]
      /\ Post(c, "Disconnected", "lost")
      /\ mMpdTimer' = [mMpdTimer EXCEPT ![c] = FALSE]
      /\ UNCHANGED <<thread, mDisableAutoreconnectOnce, mAutoreconnectTimer, requests, frames,
                     strayTimer>>
  BY DEF MpdTimerTriggered, DisconnectWithReason, mainVars
<1>2. /\ announced[c] = "Connected" /\ NoLoss(mainQueue)
      /\ frames[c] = <<>> /\ ~mAutoreconnectTimer /\ ~Waits(requests[c], "connect")
  BY <1>1, CurrentFacts DEF OneCause, OneCallOf
<1>3. /\ announced' = [announced EXCEPT ![c] = "Disconnected"] /\ announced'[c] = "Disconnected"
      /\ OneLoss(mainQueue')
  BY <1>1, <1>2, Posted DEF Names, Reasons
<1>4. ~mMpdTimer'[c]
  BY <1>1, CurrentFacts
<1>5. OneCause(c)'
  BY <1>1, <1>2, <1>3, <1>4, CurrentFacts DEF OneCause
<1>6. OneCallOf(c)'
  BY <1>1, <1>2, <1>3, CurrentFacts DEF OneCallOf
<1>7. [Lifecycle!Next]_announced
  BY <1>2, <1>3 DEF Lifecycle!Next, Lifecycle!Close, Lifecycle!Becomes
<1> QED BY <1>1, <1>2, <1>3, <1>5, <1>6, <1>7, LossesMonotone DEF CurrentKept

(* While a call is in progress nothing else is.                            *)
LEMMA CallFacts ==
  ASSUME PatientInv, NEW c \in Clients, c = mClient, frames[c] # <<>>
  PROVE  /\ ~Waits(requests[c], "connect") /\ ~Waits(requests[c], "disconnect")
         /\ ~mAutoreconnectTimer /\ NoLoss(mainQueue) /\ ~mMpdTimer[c] /\ ~strayTimer[c]
         /\ announced[c] \in {"Connecting", "RequiresAuthentication"}
         /\ Tail(frames[c]) = <<>>
<1>1. frames[c] \in Seq(Frame) /\ Head(frames[c]) \in Frame
  BY FramesType DEF PatientInv, MonitorInv, TypeOK
<1>2. Tail(frames[c]) = <<>>
  BY <1>1, StackOfOne, CurrentFacts DEF OneCallOf
<1> QED BY <1>2, CurrentFacts DEF OneCause, OneCallOf

(* A call that gives up, for one of three reasons.                         *)
LEMMA GiveUpStep ==
  ASSUME PatientInv, NEW c \in Clients, c = mClient, frames[c] # <<>>,
         NEW reason \in Reasons, Post(c, "Disconnected", reason),
         frames' = [frames EXCEPT ![c] = Tail(@)],
         mMpdTimer' \in {mMpdTimer, [mMpdTimer EXCEPT ![c] = FALSE]},
         UNCHANGED <<thread, mDisableAutoreconnectOnce, mAutoreconnectTimer, requests, strayTimer>>
  PROVE  CurrentKept(c)
<1>1. /\ announced' = [announced EXCEPT ![c] = "Disconnected"] /\ announced'[c] = "Disconnected"
      /\ OneLoss(mainQueue')
  BY CallFacts, Posted DEF Names
<1>2. frames'[c] = <<>> /\ ~mMpdTimer'[c]
  BY CallFacts, CurrentFacts
<1>3. OneCause(c)'
  BY <1>1, <1>2, CallFacts, CurrentFacts DEF OneCause
<1>4. OneCallOf(c)'
  <2>1. ~strayTimer'[c] /\ Len(<<>>) = 0
    BY CallFacts
  <2>2. Len(frames'[c]) <= 1
    BY <1>2, <2>1
  <2>3. announced'[c] \notin {"Connecting", "RequiresAuthentication"}
    BY <1>1
  <2> QED BY <1>2, <2>1, <2>2, <2>3 DEF OneCallOf
<1>5. [Lifecycle!Next]_announced
  BY <1>1, CallFacts DEF Lifecycle!Next, Lifecycle!GiveUp, Lifecycle!Becomes
<1> QED BY <1>1, <1>3, <1>4, <1>5, CallFacts, LossesMonotone DEF CurrentKept

(* What a call that goes on leaves on the stack.                           *)
LEMMA OneCallGoesOn ==
  ASSUME PatientInv, NEW c \in Clients, c = mClient, frames[c] # <<>>,
         NEW phase \in Phases, Enters(c, phase)
  PROVE  frames'[c] # <<>> /\ Len(frames'[c]) = 1
<1> DEFINE f == [phase |-> phase, profile |-> Head(frames[c]).profile]
<1>1. f \in Frame /\ frames'[c] = <<f>> \o Tail(frames[c]) /\ frames'[c] # <<>>
  BY EntersFrame DEF PatientInv, MonitorInv
<1>2. <<f>> \o Tail(frames[c]) = <<f>>
  BY <1>1, CallFacts, StackOfOne, EmptySeq
<1> QED BY <1>1, <1>2

(* A call that goes on without a word.                                     *)
LEMMA GoOnStep ==
  ASSUME PatientInv, NEW c \in Clients, c = mClient, frames[c] # <<>>,
         NEW phase \in Phases, Enters(c, phase),
         UNCHANGED <<thread, mDisableAutoreconnectOnce, mAutoreconnectTimer, requests,
                     mainQueue, announced, mMpdTimer, strayTimer>>
  PROVE  CurrentKept(c)
<1>1. frames'[c] # <<>> /\ Len(frames'[c]) = 1
  BY OneCallGoesOn
<1>2. OneCause(c)'
  BY CallFacts, CurrentFacts DEF OneCause
<1>3. OneCallOf(c)'
  BY <1>1, CallFacts DEF OneCallOf
<1> QED BY <1>2, <1>3, CurrentFacts DEF CurrentKept

(* A call that asks for a password.                                        *)
LEMMA AskStep ==
  ASSUME PatientInv, NEW c \in Clients, c = mClient, AskForPassword(c)
  PROVE  CurrentKept(c)
<1>1. /\ frames[c] # <<>> /\ Enters(c, "waiting")
      /\ Post(c, "RequiresAuthentication", "none")
      /\ UNCHANGED <<thread, mDisableAutoreconnectOnce, mAutoreconnectTimer, requests,
                     mMpdTimer, strayTimer>>
  BY DEF AskForPassword, Answered, InPhase, mainVars, timerVars
<1>2. frames'[c] # <<>> /\ Len(frames'[c]) = 1
  BY <1>1, OneCallGoesOn DEF Phases
<1>3. /\ announced' = [announced EXCEPT ![c] = "RequiresAuthentication"]
      /\ announced'[c] = "RequiresAuthentication"
      /\ NoLoss(mainQueue')
  BY <1>1, CallFacts, Posted DEF Names, Reasons
<1>4. OneCause(c)'
  BY <1>1, <1>3, CallFacts, CurrentFacts DEF OneCause
<1>5. OneCallOf(c)'
  BY <1>1, <1>2, <1>3, CallFacts DEF OneCallOf
<1>6. [Lifecycle!Next]_announced
  BY <1>1, <1>3, CallFacts DEF Lifecycle!Next, Lifecycle!Ask, Lifecycle!Becomes
<1> QED BY <1>1, <1>3, <1>4, <1>5, <1>6, LossesMonotone DEF CurrentKept

(* A call that succeeds, or is to ask for a password.                      *)
LEMMA AnnounceOrAskStep ==
  ASSUME PatientInv, NEW c \in Clients, c = mClient, frames[c] # <<>>,
         NEW ok \in BOOLEAN, AnnounceOrAsk(c, ok),
         UNCHANGED <<thread, mDisableAutoreconnectOnce, mAutoreconnectTimer, requests>>
  PROVE  CurrentKept(c)
<1>1. CASE ok
  <2>1. /\ Post(c, "Connected", "none")
        /\ frames' = [frames EXCEPT ![c] = Tail(@)]
        /\ strayTimer' = [strayTimer EXCEPT ![c] = @ \/ mMpdTimer[c]]
    BY <1>1 DEF AnnounceOrAsk
  <2>2. /\ announced' = [announced EXCEPT ![c] = "Connected"] /\ announced'[c] = "Connected"
        /\ NoLoss(mainQueue')
    BY <2>1, CallFacts, Posted DEF Names, Reasons
  <2>3. frames'[c] = <<>>
    BY <2>1, CallFacts, CurrentFacts
  <2>4. ~strayTimer'[c] /\ \A d \in Clients \ {c} : strayTimer'[d] = strayTimer[d]
    BY <2>1, CallFacts, CurrentFacts
  <2>5. OneCause(c)'
    BY <2>2, <2>3, CallFacts, CurrentFacts DEF OneCause
  <2>6. OneCallOf(c)'
    BY <2>2, <2>3, <2>4 DEF OneCallOf
  <2>7. [Lifecycle!Next]_announced
    BY <2>2, CallFacts DEF Lifecycle!Next, Lifecycle!Succeed, Lifecycle!Becomes
  <2> QED BY <2>2, <2>4, <2>5, <2>6, <2>7, LossesMonotone DEF CurrentKept
<1>2. CASE ~ok
  BY <1>2, GoOnStep DEF AnnounceOrAsk, timerVars, Phases
<1> QED BY <1>1, <1>2

LEMMA CallStep ==
  ASSUME PatientInv, NEW c \in Clients, c = mClient,
         \/ ConnectFails(c) \/ ReportFailure(c) \/ ConnectSucceeds(c) \/ AskForPassword(c)
         \/ ResumeCanceled(c) \/ ResumeWithPassword(c)
  PROVE  CurrentKept(c)
<1>1. CASE ReportFailure(c)
  BY <1>1, GiveUpStep DEF ReportFailure, Answered, InPhase, mainVars, timerVars, Reasons
<1>5. CASE ConnectFails(c)
  BY <1>5, GoOnStep DEF ConnectFails, Answered, InPhase, mainVars, timerVars, Phases
<1>2. CASE ResumeCanceled(c)
  BY <1>2, GiveUpStep DEF ResumeCanceled, InPhase, DisconnectWithReason, mainVars, Reasons
<1>3. CASE ConnectSucceeds(c)
  BY <1>3, AnnounceOrAskStep DEF ConnectSucceeds, Answered, InPhase, mainVars
<1>4. CASE ResumeWithPassword(c)
  <2>1. (link[c] # "up" \/ (allowed[c] \/ (link[c] = "up" /\ mPassword[c] = "right"))) \in BOOLEAN
    BY DEF PatientInv, MonitorInv, TypeOK
  <2> QED BY <1>4, <2>1, AnnounceOrAskStep DEF ResumeWithPassword, InPhase, mainVars
<1> QED BY <1>1, <1>2, <1>3, <1>4, <1>5, AskStep

LEMMA ClientStepCycle ==
  ASSUME PatientInv, NEW c \in Clients, ClientStep(c)
  PROVE  CycleInv' /\ [Lifecycle!Next]_announced
<1>1. CASE c # mClient
  BY <1>1, OthersOnlyExit, ExitStep
<1>2. CASE c = mClient
  <2>1. ~ExitThread(c)
    BY <1>2, CurrentFacts DEF ExitThread
  <2>2. CurrentKept(c)
    BY <1>2, <2>1, QuietMessageStep, BeginStep, CloseStep, LossStep, CallStep DEF ClientStep
  <2>3. mClient # NoClient /\ UNCHANGED mClient
    BY <1>2, ClientsAssumption, ClientStepIsLocal DEF PatientInv, MonitorInv
  <2>4. OneCallOf(mClient)' /\ OneCause(mClient)'
    BY <1>2, <2>2, <2>3 DEF CurrentKept
  <2> QED BY <1>2, <2>2, <2>3, <2>4, CurrentStep DEF CurrentKept
<1> QED BY <1>1, <1>2

-----------------------------------------------------------------------------
(* The theorems.                                                           *)

LEMMA CycleStep ==
  ASSUME PatientUser, PatientInv, [Next]_vars
  PROVE  CycleInv' /\ [Lifecycle!Next]_announced
<1>1. CASE UNCHANGED vars
  <2>1. UNCHANGED <<mClient, thread, stop, requests, frames, announced, mMpdTimer, strayTimer,
                   mainQueue, mDisableAutoreconnectOnce, mAutoreconnectTimer>>
    BY <1>1 DEF vars, mainVars, timerVars
  <2> QED BY <2>1, ClientsUntouched
          DEF PatientInv, CycleInv, LossesCounted, CurrentCause, OneCause
<1>2. CASE MainStep
  <2>1. UNCHANGED announced
    BY <1>2 DEF MainStep, HandleConnecting, HandleConnected, HandleDisconnected,
                HandleRequiresAuthentication, Handled, AutoreconnectTimerTriggered, SetMusicClient
  <2>2. CASE HandleConnecting \/ HandleConnected \/ HandleRequiresAuthentication
    <3>1. PICK name \in {"Connecting", "Connected", "RequiresAuthentication"} : Handled(name)
      BY <2>2 DEF HandleConnecting, HandleConnected, HandleRequiresAuthentication
    <3>2. UNCHANGED <<mDisableAutoreconnectOnce, mAutoreconnectTimer>>
      BY <2>2 DEF HandleConnecting, HandleConnected, HandleRequiresAuthentication
    <3>3. name # "Disconnected"
      OBVIOUS
    <3>4. CycleInv'
      BY <3>1, <3>2, <3>3, OtherHandled
    <3> QED BY <2>1, <3>4
  <2> QED BY <1>2, <2>1, <2>2, LossHandled, TimerStep, RegisterStep DEF MainStep
<1>3. CASE UserStep
  <2>1. UNCHANGED announced
    BY <1>3 DEF UserStep, UserConnect, UserDisconnect, SelectProfile
  <2> QED BY <1>3, <2>1, UserStepCycle
<1>4. CASE AnswerStep
  <2>1. UNCHANGED announced
    BY <1>4 DEF AnswerStep, AnswerAuthentication
  <2> QED BY <1>4, <2>1, AnswerStepCycle
<1>5. CASE \E c \in Clients : ClientStep(c)
  BY <1>5, ClientStepCycle
<1>6. CASE WorldStep
  <2>1. UNCHANGED <<mClient, thread, stop, requests, frames, announced, mMpdTimer, strayTimer,
                   mainQueue, mDisableAutoreconnectOnce, mAutoreconnectTimer>>
    BY <1>6 DEF WorldStep, ServerFails, ServerReturns, mainVars, timerVars
  <2> QED BY <2>1, ClientsUntouched
          DEF PatientInv, CycleInv, LossesCounted, CurrentCause, OneCause
<1> QED BY <1>1, <1>2, <1>3, <1>4, <1>5, <1>6 DEF Next

LEMMA PatientInvariant ==
  ASSUME PatientUser, OldServers = {}
  PROVE  Spec => []PatientInv
<1>1. Init => PatientInv
  <2>1. SUFFICES ASSUME Init PROVE PatientInv
    OBVIOUS
  <2>2. FreshClients /\ RegisteredClient /\ \A c \in Clients : Monitored(c)
    BY <2>1 DEF Init, FreshClients, RegisteredClient, Monitored, IsConnected
  <2> QED BY <2>1, <2>2, InitType, CycleInit DEF PatientInv, MonitorInv
<1>2. PatientInv /\ TypeOK' /\ [Next]_vars => PatientInv'
  BY FreshStep, MonitorStep, CycleStep DEF PatientInv, MonitorInv
<1> QED BY <1>1, <1>2, TypeCorrect, PTL DEF Spec

(* Of a patient user, on servers not older than MPD 0.12, the              *)
(* announcements of every client go round the cycle that the observers of  *)
(* its notifications expect: ServerConnection implements                   *)
(* ConnectionLifecycle.                                                    *)
THEOREM LifecycleImplemented ==
  ASSUME PatientUser, OldServers = {}
  PROVE  Spec => LifecycleRefined
<1>1. Init => Lifecycle!Init
  BY DEF Init, Lifecycle!Init
<1>2. PatientInv /\ [Next]_vars => [Lifecycle!Next]_announced
  BY CycleStep
<1> QED BY <1>1, <1>2, PatientInvariant, PTL DEF Spec, LifecycleRefined, Lifecycle!Spec

(* There is one client at a time: setupConnectionWithMusicClient stops the *)
(* client before it starts another.                                        *)
THEOREM OneClientAtATimeAlways ==
  ASSUME PatientUser, OldServers = {}
  PROVE  Spec => []OneClientAtATime
<1>1. PatientInv => OneClientAtATime
  <2> SUFFICES ASSUME PatientInv, NEW c \in Clients, NEW d \in Clients,
                      thread[c] \in {"starting", "running"}, ~stop[c],
                      thread[d] \in {"starting", "running"}, ~stop[d]
               PROVE  c = d
    BY DEF OneClientAtATime
  <2> QED BY ClientsAssumption DEF PatientInv, CycleInv, OneThread
<1> QED BY <1>1, PatientInvariant, PTL

-----------------------------------------------------------------------------
(* What the user is told, and asked.                                       *)

Tells(q, i) == q[i].name \in {"Connected", "Disconnected"}
TellsNothing(q) == \A i \in 1..Len(q) : ~Tells(q, i)
TellsLast(q, name) ==
  \E i \in 1..Len(q) : q[i].name = name /\ \A j \in 1..Len(q) : j > i => ~Tells(q, j)

\* What the client announced last is the last that the main thread will hear, or
\* did hear, of whether it is connected.
ToolbarWillFollow ==
  mClient # NoClient /\ announced[mClient] \in {"Connected", "Disconnected"} =>
    \/ TellsLast(mainQueue, announced[mClient])
    \/ TellsNothing(mainQueue) /\ toolbarEnabled = (announced[mClient] = "Connected")

LEMMA PostTells ==
  ASSUME NEW q \in Seq(Notification), NEW n \in Notification
  PROVE  TellsLast(Append(q, n), n.name)
<1>1. /\ Len(q) \in Nat /\ Len(Append(q, n)) = Len(q) + 1
      /\ Append(q, n)[Len(q) + 1] = n
  BY AppendElements
<1> QED BY <1>1 DEF TellsLast

LEMMA HandleTells ==
  ASSUME NEW q \in Seq(Notification), q # <<>>, NEW name \in {"Connected", "Disconnected"}
  PROVE  /\ TellsLast(q, name) =>
              \/ TellsLast(Tail(q), name)
              \/ Head(q).name = name /\ TellsNothing(Tail(q))
         /\ TellsNothing(q) =>
              TellsNothing(Tail(q)) /\ Head(q).name \notin {"Connected", "Disconnected"}
<1>1. /\ Len(q) \in Nat \ {0}
      /\ Len(Tail(q)) = Len(q) - 1
      /\ \A i \in 1..Len(Tail(q)) : Tail(q)[i] = q[i + 1] /\ i + 1 \in 1..Len(q)
      /\ Head(q) = q[1] /\ 1 \in 1..Len(q)
  BY TailElements
<1>2. ASSUME NEW i \in 1..Len(q), q[i].name = name, \A j \in 1..Len(q) : j > i => ~Tells(q, j)
      PROVE  \/ TellsLast(Tail(q), name)
             \/ Head(q).name = name /\ TellsNothing(Tail(q))
  <2>1. \A j \in 1..Len(Tail(q)) : j + 1 > i => ~Tells(Tail(q), j)
    BY <1>1, <1>2 DEF Tells
  <2>2. CASE i = 1
    BY <1>1, <1>2, <2>1, <2>2 DEF TellsNothing
  <2>3. CASE i # 1
    <3>1. i - 1 \in 1..Len(Tail(q)) /\ Tail(q)[i - 1] = q[i]
      BY <1>1, <2>3
    <3>2. \A j \in 1..Len(Tail(q)) : j > i - 1 => ~Tells(Tail(q), j)
      BY <1>1, <2>1
    <3> QED BY <1>2, <3>1, <3>2 DEF TellsLast
  <2> QED BY <2>2, <2>3
<1>3. TellsLast(q, name) =>
        \/ TellsLast(Tail(q), name)
        \/ Head(q).name = name /\ TellsNothing(Tail(q))
  BY <1>2 DEF TellsLast
<1>4. TellsNothing(q) =>
        TellsNothing(Tail(q)) /\ Head(q).name \notin {"Connected", "Disconnected"}
  BY <1>1 DEF TellsNothing, Tells
<1> QED BY <1>3, <1>4

(* A client's step posts for the current client, or leaves the queue.      *)
LEMMA ClientPosts ==
  ASSUME PatientInv, NEW c \in Clients, ClientStep(c)
  PROVE  \/ UNCHANGED <<mainQueue, announced>>
         \/ c = mClient /\ \E name \in Names, reason \in Reasons : Post(c, name, reason)
<1> USE DEF Names, Reasons
<1>1. CASE c # mClient
  BY <1>1, OthersOnlyExit DEF ExitThread
<1>2. CASE c = mClient
  <2>1. CASE IgnoreConnect(c) \/ ServeAuthenticate(c) \/ ExitThread(c)
    BY <2>1 DEF IgnoreConnect, ServeAuthenticate, ExitThread
  <2>2. CASE BeginConnect(c)
    BY <1>2, <2>2 DEF BeginConnect
  <2>3. CASE ServeDisconnect(c) \/ ResumeCanceled(c) \/ MpdTimerTriggered(c)
    BY <1>2, <2>3 DEF ServeDisconnect, ResumeCanceled, MpdTimerTriggered, DisconnectWithReason
  <2>4. CASE ConnectFails(c) \/ ReportFailure(c) \/ AskForPassword(c)
    BY <1>2, <2>4 DEF ConnectFails, ReportFailure, AskForPassword
  <2>5. CASE ConnectSucceeds(c) \/ ResumeWithPassword(c)
    BY <1>2, <2>5 DEF ConnectSucceeds, ResumeWithPassword, AnnounceOrAsk
  <2> QED BY <2>1, <2>2, <2>3, <2>4, <2>5 DEF ClientStep
<1> QED BY <1>1, <1>2

LEMMA ToolbarStep ==
  ASSUME PatientInv, ToolbarWillFollow, [Next]_vars
  PROVE  ToolbarWillFollow'
<1>1. mainQueue \in Seq(Notification) /\ announced \in [Clients -> Names \cup {"none"}]
  BY DEF PatientInv, MonitorInv, TypeOK
<1>2. ASSUME UNCHANGED <<mClient, announced, mainQueue, toolbarEnabled>>
      PROVE  ToolbarWillFollow'
  BY <1>2 DEF ToolbarWillFollow
<1>3. CASE UNCHANGED vars
  BY <1>2, <1>3 DEF vars, mainVars
<1>4. CASE MainStep
  <2>1. CASE AutoreconnectTimerTriggered
    BY <1>2, <2>1 DEF AutoreconnectTimerTriggered
  <2>2. ASSUME NEW c \in Clients, SetMusicClient(c)
        PROVE  ToolbarWillFollow'
    <3>1. announced'[mClient'] = "none"
      BY <2>2 DEF SetMusicClient, PatientInv, CycleInv, OneThread
    <3> QED BY <3>1 DEF ToolbarWillFollow
  <2>3. ASSUME NEW name \in Names, Handled(name),
               toolbarEnabled' = IF name = "Connected" THEN TRUE
                                 ELSE IF name = "Disconnected" THEN FALSE ELSE toolbarEnabled
        PROVE  ToolbarWillFollow'
    <3>1. /\ mainQueue # <<>> /\ mainQueue' = Tail(mainQueue) /\ Head(mainQueue).name = name
          /\ UNCHANGED <<mClient, announced>>
      BY <2>3 DEF Handled
    <3> SUFFICES ASSUME mClient # NoClient, announced[mClient] \in {"Connected", "Disconnected"}
                 PROVE  \/ TellsLast(Tail(mainQueue), announced[mClient])
                        \/ /\ TellsNothing(Tail(mainQueue))
                           /\ toolbarEnabled' = (announced[mClient] = "Connected")
      BY <3>1 DEF ToolbarWillFollow
    <3>2. CASE TellsLast(mainQueue, announced[mClient])
      BY <1>1, <2>3, <3>1, <3>2, HandleTells
    <3>3. CASE TellsNothing(mainQueue) /\ toolbarEnabled = (announced[mClient] = "Connected")
      BY <1>1, <2>3, <3>1, <3>3, HandleTells
    <3> QED BY <3>2, <3>3 DEF ToolbarWillFollow
  <2>4. CASE HandleConnecting
    BY <2>3, <2>4 DEF HandleConnecting, Names
  <2>5. CASE HandleConnected
    BY <2>3, <2>5 DEF HandleConnected, Names
  <2>6. CASE HandleDisconnected
    BY <2>3, <2>6 DEF HandleDisconnected, Names
  <2>7. CASE HandleRequiresAuthentication
    BY <2>3, <2>7 DEF HandleRequiresAuthentication, Names
  <2> QED BY <1>4, <2>1, <2>2, <2>4, <2>5, <2>6, <2>7 DEF MainStep
<1>5. CASE UserStep
  <2>1. CASE UserConnect \/ UserDisconnect
    BY <1>2, <2>1 DEF UserConnect, UserDisconnect
  <2>2. ASSUME NEW p \in Profiles, NEW c \in Clients, SelectProfile(p, c)
        PROVE  ToolbarWillFollow'
    BY <2>2 DEF SelectProfile, ToolbarWillFollow
  <2> QED BY <1>5, <2>1, <2>2 DEF UserStep
<1>6. CASE AnswerStep
  BY <1>2, <1>6 DEF AnswerStep, AnswerAuthentication
<1>7. ASSUME NEW c \in Clients, ClientStep(c)
      PROVE  ToolbarWillFollow'
  <2>1. UNCHANGED <<mClient, toolbarEnabled>>
    BY <1>7 DEF ClientStep, IgnoreConnect, BeginConnect, ServeDisconnect, ServeAuthenticate,
                ConnectFails, ReportFailure, ConnectSucceeds, AskForPassword, ResumeCanceled,
                ResumeWithPassword, MpdTimerTriggered, ExitThread, Receives, Answered, InPhase,
                mainVars
  <2>2. CASE UNCHANGED <<mainQueue, announced>>
    BY <1>2, <2>1, <2>2
  <2>3. ASSUME c = mClient, NEW name \in Names, NEW reason \in Reasons, Post(c, name, reason)
        PROVE  ToolbarWillFollow'
    <3> DEFINE n == [from |-> c, name |-> name, reason |-> reason]
    <3>1. n \in Notification /\ n.name = name
      BY DEF Notification
    <3>2. mainQueue' = Append(mainQueue, n) /\ announced'[c] = name
      BY <1>1, <2>3 DEF Post
    <3> HIDE DEF n
    <3>3. TellsLast(mainQueue', announced'[c])
      BY <1>1, <3>1, <3>2, PostTells
    <3> QED BY <2>1, <2>3, <3>3 DEF ToolbarWillFollow
  <2> QED BY <1>7, <2>2, <2>3, ClientPosts
<1>8. CASE WorldStep
  BY <1>2, <1>8 DEF WorldStep, ServerFails, ServerReturns, mainVars
<1> QED BY <1>3, <1>4, <1>5, <1>6, <1>7, <1>8 DEF Next

(* When the main thread has heard everything, the toolbar is enabled       *)
(* exactly if the current client announced "Connected" last, unless it is  *)
(* trying to connect: no notification is overtaken by another one, nor     *)
(* comes from a client that was left.                                      *)
THEOREM ToolbarFollowsClientAlways ==
  ASSUME PatientUser, OldServers = {}
  PROVE  Spec => []ToolbarFollowsClient
<1>1. Init => ToolbarWillFollow
  BY DEF Init, ToolbarWillFollow
<1>2. PatientInv /\ ToolbarWillFollow /\ [Next]_vars => ToolbarWillFollow'
  BY ToolbarStep
<1>3. TypeOK /\ ToolbarWillFollow => ToolbarFollowsClient
  <2>1. Len(<<>>) = 0
    OBVIOUS
  <2> QED BY <2>1 DEF ToolbarWillFollow, ToolbarFollowsClient, TellsLast, TypeOK
<1> QED BY <1>1, <1>2, <1>3, PatientInvariant, TypeCorrect, PTL DEF Spec

-----------------------------------------------------------------------------
(* The wait for a password.                                                *)

Asked(q, c) == \E i \in 1..Len(q) : q[i].from = c /\ q[i].name = "RequiresAuthentication"

LEMMA PostAsked ==
  ASSUME NEW q \in Seq(Notification), NEW n \in Notification, NEW c
  PROVE  /\ Asked(q, c) => Asked(Append(q, n), c)
         /\ n.from = c /\ n.name = "RequiresAuthentication" => Asked(Append(q, n), c)
<1>1. /\ Len(q) \in Nat /\ Len(Append(q, n)) = Len(q) + 1
      /\ \A i \in 1..Len(q) : Append(q, n)[i] = q[i]
      /\ Append(q, n)[Len(q) + 1] = n
  BY AppendElements
<1>2. Len(q) + 1 \in 1..Len(q) + 1 /\ 1..Len(q) \subseteq 1..Len(q) + 1
  BY <1>1
<1> QED BY <1>1, <1>2 DEF Asked

LEMMA HandleAsked ==
  ASSUME NEW q \in Seq(Notification), q # <<>>, NEW c, Asked(q, c)
  PROVE  Asked(Tail(q), c) \/ Head(q).name = "RequiresAuthentication"
<1>1. /\ Len(q) \in Nat \ {0}
      /\ Len(Tail(q)) = Len(q) - 1
      /\ \A i \in 1..Len(Tail(q)) : Tail(q)[i] = q[i + 1] /\ i + 1 \in 1..Len(q)
      /\ Head(q) = q[1]
  BY TailElements
<1>2. PICK i \in 1..Len(q) : q[i].from = c /\ q[i].name = "RequiresAuthentication"
  BY DEF Asked
<1>3. CASE i = 1
  BY <1>1, <1>2, <1>3
<1>4. CASE i # 1
  <2>1. i - 1 \in 1..Len(Tail(q)) /\ Tail(q)[i - 1] = q[i]
    BY <1>1, <1>4
  <2> QED BY <1>2, <2>1 DEF Asked
<1> QED BY <1>3, <1>4

IsWaiting(c) == frames[c] # <<>> /\ Head(frames[c]).phase = "waiting"
IsNaming(c) == frames[c] # <<>> /\ Head(frames[c]).phase = "naming"

\* The current client waits for an answer that is asked for or on its way; an
\* answer that has come is one; and the connection is not closed meanwhile.
WaitInv ==
  mClient # NoClient =>
    /\ IsNaming(mClient) \/ IsWaiting(mClient) => link[mClient] \notin {"none", "closed"}
    /\ IsWaiting(mClient) =>
         IF mSetPasswordCalled[mClient]
         THEN mPassword[mClient] \in Passwords \cup {"canceled"}
         ELSE \/ Asked(mainQueue, mClient)
              \/ modal > 0
              \/ Waits(requests[mClient], "authenticate")
    /\ announced[mClient] = "Connected" => link[mClient] # "closed"

LEMMA WaitMainStep ==
  ASSUME PatientInv, WaitInv, MainStep
  PROVE  WaitInv'
<1>1. mainQueue \in Seq(Notification) /\ modal \in Nat /\ requests \in [Clients -> Seq(Request)]
  BY DEF PatientInv, MonitorInv, TypeOK
<1>2. CASE AutoreconnectTimerTriggered
  <2> DEFINE r == [op |-> "connect", profile |-> currentProfile]
  <2>1. r \in Request /\ Send(r)
    BY <1>2 DEF AutoreconnectTimerTriggered, SendConnect, Request, PatientInv, MonitorInv, TypeOK
  <2>2. UNCHANGED <<mClient, frames, link, mSetPasswordCalled, mPassword, mainQueue, modal, announced>>
    BY <1>2 DEF AutoreconnectTimerTriggered, authVars, mpdVars
  <2> HIDE DEF r
  <2>3. mClient # NoClient /\ Waits(requests[mClient], "authenticate")
          => Waits(requests'[mClient], "authenticate")
    BY <2>1, <2>2, SentWaits
  <2> QED BY <2>2, <2>3 DEF WaitInv, IsWaiting, IsNaming
<1>3. ASSUME NEW c \in Clients, SetMusicClient(c)
      PROVE  WaitInv'
  <2>1. frames'[c] = <<>> /\ announced'[c] = "none" /\ mClient' = c
    BY <1>3 DEF SetMusicClient, PatientInv, MonitorInv, FreshClients, CycleInv, OneThread
  <2> QED BY <2>1 DEF WaitInv, IsWaiting, IsNaming
<1>4. ASSUME NEW name, Handled(name),
             modal' = IF name = "RequiresAuthentication" THEN modal + 1 ELSE modal
      PROVE  WaitInv'
  <2>1. /\ mainQueue # <<>> /\ mainQueue' = Tail(mainQueue) /\ Head(mainQueue).name = name
        /\ UNCHANGED <<mClient, frames, link, mSetPasswordCalled, mPassword, requests, announced>>
    BY <1>4 DEF Handled, authVars, mpdVars
  <2>2. ASSUME mClient # NoClient, Asked(mainQueue, mClient)
        PROVE  Asked(mainQueue', mClient) \/ modal' > 0
    BY <1>1, <1>4, <2>1, <2>2, HandleAsked
  <2>3. modal > 0 => modal' > 0
    BY <1>1, <1>4
  <2> QED BY <2>1, <2>2, <2>3 DEF WaitInv, IsWaiting, IsNaming
<1>5. CASE HandleConnecting \/ HandleConnected \/ HandleDisconnected
  BY <1>4, <1>5 DEF HandleConnecting, HandleConnected, HandleDisconnected
<1>6. CASE HandleRequiresAuthentication
  BY <1>4, <1>6 DEF HandleRequiresAuthentication
<1> QED BY <1>2, <1>3, <1>5, <1>6 DEF MainStep

LEMMA WaitUserStep ==
  ASSUME PatientUser, PatientInv, WaitInv, UserStep \/ AnswerStep \/ WorldStep
  PROVE  WaitInv'
<1>1. mClient \in Clients \cup {NoClient} /\ link \in [Clients -> Links] /\ NoClient \notin Clients
  BY ClientsAssumption DEF PatientInv, MonitorInv, TypeOK
<1>2. CASE UserConnect \/ UserDisconnect
  <2>1. /\ Settled
        /\ UNCHANGED <<mClient, frames, link, announced>>
    BY <1>2 DEF UserConnect, UserDisconnect, UserMay, mpdVars
  <2>2. mClient # NoClient => frames[mClient] = <<>>
    BY <1>1, <2>1 DEF Settled
  <2> QED BY <2>1, <2>2 DEF WaitInv, IsWaiting, IsNaming
<1>3. ASSUME NEW p \in Profiles, NEW c \in Clients, SelectProfile(p, c)
      PROVE  WaitInv'
  BY <1>3 DEF SelectProfile, WaitInv
<1>4. CASE AnswerStep
  <2> PICK password \in Passwords \cup {"canceled"}, save \in BOOLEAN :
        AnswerAuthentication(password, save)
    BY <1>4 DEF AnswerStep
  <2> DEFINE r == [op |-> "authenticate", password |-> password]
  <2>1. r \in Request /\ r.op = "authenticate" /\ Send(r)
    BY DEF AnswerAuthentication, Request
  <2>2. UNCHANGED <<mClient, frames, link, mSetPasswordCalled, mPassword, mainQueue, announced>>
    BY DEF AnswerAuthentication, authVars, mpdVars
  <2> HIDE DEF r
  <2>3. mClient # NoClient => Waits(requests'[mClient], "authenticate")
    BY <2>1, <2>2, SentWaits
  <2> QED BY <2>2, <2>3 DEF WaitInv, IsWaiting, IsNaming
<1>5. CASE WorldStep
  <2>1. UNCHANGED <<mClient, frames, mSetPasswordCalled, mPassword, mainQueue, modal, requests, announced>>
    BY <1>5 DEF WorldStep, ServerFails, ServerReturns, mainVars, authVars
  <2>2. \A c \in Clients : link'[c] = link[c] \/ (link[c] = "up" /\ link'[c] = "broken")
    BY <1>1, <1>5 DEF WorldStep, ServerFails, ServerReturns, mpdVars
  <2> QED BY <1>1, <2>1, <2>2 DEF WaitInv, IsWaiting, IsNaming
<1> QED BY <1>2, <1>3, <1>4, <1>5 DEF UserStep

LEMMA WaitAnnounceStep ==
  ASSUME PatientInv, NEW c \in Clients, c = mClient, frames[c] # <<>>,
         NEW ok \in BOOLEAN, AnnounceOrAsk(c, ok), link'[c] \notin {"none", "closed"},
         UNCHANGED mClient
  PROVE  WaitInv'
<1>1. CASE ok
  <2>1. frames'[c] = <<>>
    BY <1>1, CallFacts, CurrentFacts DEF AnnounceOrAsk
  <2> QED BY <2>1 DEF WaitInv, IsWaiting, IsNaming
<1>2. CASE ~ok
  <2>1. Enters(c, "naming") /\ UNCHANGED announced
    BY <1>2 DEF AnnounceOrAsk
  <2>2. Head(frames'[c]).phase = "naming"
    BY <2>1, EntersFrame DEF Phases, PatientInv, MonitorInv
  <2>3. announced'[c] # "Connected"
    BY <2>1, CallFacts
  <2> QED BY <2>2, <2>3 DEF WaitInv, IsWaiting, IsNaming
<1> QED BY <1>1, <1>2

LEMMA WaitClientStep ==
  ASSUME PatientInv, WaitInv, NEW c \in Clients, ClientStep(c)
  PROVE  WaitInv'
<1>1. /\ UNCHANGED mClient /\ mClient \in Clients \cup {NoClient} /\ NoClient \notin Clients
      /\ \A d \in Clients \ {c} : frames'[d] = frames[d] /\ requests'[d] = requests[d]
                                  /\ link'[d] = link[d] /\ announced'[d] = announced[d]
  BY ClientsAssumption, ClientStepIsLocal DEF PatientInv, MonitorInv, TypeOK
<1>2. /\ link \in [Clients -> Links] /\ mSetPasswordCalled \in [Clients -> BOOLEAN]
      /\ mPassword \in [Clients -> Passwords \cup NilPasswords]
  BY DEF PatientInv, MonitorInv, TypeOK
<1>3. CASE c # mClient
  <2>1. UNCHANGED <<mSetPasswordCalled, mPassword, mainQueue, modal>>
    BY <1>3, OthersOnlyExit DEF ExitThread, authVars, mainVars
  <2> QED BY <1>1, <1>3, <2>1 DEF WaitInv, IsWaiting, IsNaming
<1>4. ASSUME c = mClient, frames'[c] = <<>>, announced'[c] # "Connected"
      PROVE  WaitInv'
  BY <1>1, <1>4 DEF WaitInv, IsWaiting, IsNaming
<1>5. CASE c = mClient
  <2>1. CASE IgnoreConnect(c)
    <3>1. /\ Receives(c, "connect")
          /\ UNCHANGED <<frames, link, mSetPasswordCalled, mPassword, mainQueue, modal, announced>>
      BY <2>1 DEF IgnoreConnect, Receives, authVars, mainVars, mpdVars
    <3>2. Waits(requests[c], "authenticate") => Waits(requests'[c], "authenticate")
      BY <3>1, Received
    <3> QED BY <1>1, <1>5, <3>1, <3>2 DEF WaitInv, IsWaiting, IsNaming
  <2>2. CASE ServeAuthenticate(c)
    <3>1. Head(requests[c]).password \in Passwords \cup {"canceled"}
      BY <2>2, ReceivesType, RequestFields DEF ServeAuthenticate, PatientInv, MonitorInv
    <3>2. /\ mSetPasswordCalled'[c] /\ mPassword'[c] \in Passwords \cup {"canceled"}
          /\ UNCHANGED <<frames, link, announced>>
      BY <1>2, <2>2, <3>1 DEF ServeAuthenticate, mpdVars
    <3> QED BY <1>1, <1>5, <3>2 DEF WaitInv, IsWaiting, IsNaming
  <2>3. CASE BeginConnect(c)
    <3> DEFINE f == [phase |-> "asking", profile |-> Head(requests[c]).profile]
    <3>1. announced'[c] = "Connecting"
      BY <1>5, <2>3, Posted DEF BeginConnect, Names, Reasons
    <3>2. frames[c] = <<>> /\ frames[c] \in Seq(Frame)
      BY <1>5, <2>3, Received, CurrentFacts DEF BeginConnect, OneCause
    <3>3. f \in Frame
      BY <2>3, ReceivesType, RequestFields DEF BeginConnect, PatientInv, MonitorInv, Frame
    <3>4. Head(<<f>> \o frames[c]).phase = "asking"
      BY <3>2, <3>3, StackOfOne
    <3>5. frames'[c] = <<f>> \o frames[c]
      BY <1>5, <2>3, CurrentFacts DEF BeginConnect
    <3> QED BY <1>1, <1>5, <3>1, <3>4, <3>5 DEF WaitInv, IsWaiting, IsNaming
  <2>4. CASE ServeDisconnect(c)
    <3>1. OneCallOf(c)' /\ announced'[c] = "Disconnected"
      BY <1>5, <2>4, CloseStep, Posted
      DEF CurrentKept, ServeDisconnect, DisconnectWithReason, Names, Reasons
    <3> QED BY <1>1, <1>5, <3>1 DEF WaitInv, IsWaiting, IsNaming, OneCallOf
  <2>5. CASE MpdTimerTriggered(c)
    <3>1. OneCallOf(c)' /\ announced'[c] = "Disconnected"
      BY <1>5, <2>5, LossStep, Posted
      DEF CurrentKept, MpdTimerTriggered, DisconnectWithReason, Names, Reasons
    <3> QED BY <1>1, <1>5, <3>1 DEF WaitInv, IsWaiting, IsNaming, OneCallOf
  <2>6. CASE ReportFailure(c) \/ ResumeCanceled(c)
    <3>1. /\ frames[c] # <<>> /\ frames' = [frames EXCEPT ![c] = Tail(@)]
          /\ \E reason \in Reasons : Post(c, "Disconnected", reason)
      BY <2>6 DEF ReportFailure, ResumeCanceled, Answered, InPhase, DisconnectWithReason, Reasons
    <3>2. frames'[c] = <<>> /\ announced'[c] = "Disconnected"
      BY <1>5, <3>1, CallFacts, CurrentFacts, Posted DEF Names
    <3> QED BY <1>4, <1>5, <3>2
  <2>7. CASE ConnectSucceeds(c)
    <3>1. link'[c] = "up"
      BY <1>2, <2>7 DEF ConnectSucceeds
    <3> QED BY <1>1, <1>5, <2>7, <3>1, WaitAnnounceStep DEF ConnectSucceeds, Answered, InPhase
  <2>8. CASE ResumeWithPassword(c)
    <3>1. link[c] \notin {"none", "closed"}
      BY <1>1, <1>5, <2>8 DEF ResumeWithPassword, InPhase, WaitInv, IsWaiting, IsNaming
    <3>2. link'[c] \notin {"none", "closed"}
      BY <1>2, <2>8, <3>1 DEF ResumeWithPassword
    <3>3. (link[c] # "up" \/ (allowed[c] \/ (link[c] = "up" /\ mPassword[c] = "right"))) \in BOOLEAN
      BY DEF PatientInv, MonitorInv, TypeOK
    <3> QED BY <1>1, <1>5, <2>8, <3>2, <3>3, WaitAnnounceStep DEF ResumeWithPassword, InPhase
  <2>9. ~ExitThread(c)
    BY <1>5, CurrentFacts DEF ExitThread
  <2>10. CASE ConnectFails(c)
    <3>1. frames[c] # <<>> /\ Enters(c, "failing") /\ UNCHANGED announced
      BY <2>10 DEF ConnectFails, Answered, InPhase
    <3>2. Head(frames'[c]).phase = "failing"
      BY <3>1, EntersFrame DEF Phases, PatientInv, MonitorInv
    <3>3. announced'[c] # "Connected"
      BY <1>5, <3>1, CallFacts
    <3> QED BY <1>1, <1>5, <3>2, <3>3 DEF WaitInv, IsWaiting, IsNaming
  <2>11. CASE AskForPassword(c)
    <3> DEFINE n == [from |-> c, name |-> "RequiresAuthentication", reason |-> "none"]
    <3>1. n \in Notification /\ n.from = c /\ n.name = "RequiresAuthentication"
      BY DEF Notification, Names, Reasons
    <3>2. /\ mainQueue' = Append(mainQueue, n) /\ announced'[c] = "RequiresAuthentication"
          /\ link' = link
      BY <1>5, <2>11, CurrentFacts DEF AskForPassword, Post, mpdVars
    <3>3. ~mSetPasswordCalled'[c]
      BY <1>2, <2>11 DEF AskForPassword
    <3>4. IsNaming(c)
      BY <2>11 DEF AskForPassword, Answered, InPhase, IsNaming
    <3> HIDE DEF n
    <3>5. mainQueue \in Seq(Notification)
      BY DEF PatientInv, MonitorInv, TypeOK
    <3>6. Asked(mainQueue', c)
      BY <3>1, <3>2, <3>5, PostAsked
    <3>7. link'[c] \notin {"none", "closed"}
      BY <1>1, <1>5, <3>2, <3>4 DEF WaitInv
    <3> QED BY <1>1, <1>5, <3>2, <3>3, <3>6, <3>7 DEF WaitInv
  <2> QED BY <2>1, <2>2, <2>3, <2>4, <2>5, <2>6, <2>7, <2>8, <2>9, <2>10, <2>11 DEF ClientStep
<1> QED BY <1>3, <1>5

LEMMA WaitStep ==
  ASSUME PatientUser, PatientInv, WaitInv, [Next]_vars
  PROVE  WaitInv'
<1>1. CASE UNCHANGED vars
  BY <1>1 DEF vars, mainVars, authVars, mpdVars, WaitInv, IsWaiting, IsNaming
<1> QED BY <1>1, WaitMainStep, WaitUserStep, WaitClientStep DEF Next

LEMMA WaitInvariant ==
  ASSUME PatientUser, OldServers = {}
  PROVE  Spec => []WaitInv
<1>1. Init => WaitInv
  BY DEF Init, WaitInv
<1>2. PatientInv /\ WaitInv /\ [Next]_vars => WaitInv'
  BY WaitStep
<1> QED BY <1>1, <1>2, PatientInvariant, PTL DEF Spec

(* No client thread waits for a password that nobody was asked for, or     *)
(* whose answer has gone to another client.                                *)
THEOREM PasswordWaitIsServedAlways ==
  ASSUME PatientUser, OldServers = {}
  PROVE  Spec => []PasswordWaitIsServed
<1>1. PatientInv /\ WaitInv => PasswordWaitIsServed
  <2> SUFFICES ASSUME PatientInv, WaitInv, NEW c \in Clients, frames[c] # <<>>,
                      Head(frames[c]).phase = "waiting", ~mSetPasswordCalled[c]
               PROVE  \/ \E i \in 1..Len(mainQueue) :
                            mainQueue[i].from = c /\ mainQueue[i].name = "RequiresAuthentication"
                      \/ modal > 0 /\ mClient = c
                      \/ \E i \in 1..Len(requests[c]) : requests[c][i].op = "authenticate"
    BY DEF PasswordWaitIsServed
  <2>1. c = mClient /\ mClient # NoClient
    BY ClientsAssumption DEF PatientInv, CycleInv, OthersIdle
  <2> QED BY <2>1 DEF WaitInv, IsWaiting, Asked, Waits
<1> QED BY <1>1, PatientInvariant, WaitInvariant, PTL

(* Which handler it is that posts a reason.                                *)
LEMMA ReasonPosted ==
  ASSUME PatientInv, [Next]_vars, NEW c \in Clients, NEW reason \in {"lost", "canceled"},
         Posts(c, "Disconnected", reason)
  PROVE  /\ c = mClient /\ mClient # NoClient
         /\ reason = "lost" => MpdTimerTriggered(c)
         /\ reason = "canceled" => ResumeCanceled(c)
<1> DEFINE n == [from |-> c, name |-> "Disconnected", reason |-> reason]
<1>1. n \in Notification /\ mainQueue \in Seq(Notification)
  BY DEF Notification, Names, Reasons, PatientInv, MonitorInv, TypeOK
<1>2. mainQueue' = Append(mainQueue, n)
  BY DEF Posts
<1> HIDE DEF n
<1>3. /\ Len(mainQueue) \in Nat /\ Len(mainQueue') = Len(mainQueue) + 1
      /\ mainQueue'[Len(mainQueue) + 1] = n
  BY <1>1, <1>2, AppendElements
<1>4. mainQueue' # mainQueue
  BY <1>3
<1>5. ASSUME NEW name, Handled(name) PROVE FALSE
  <2>1. mainQueue # <<>> /\ mainQueue' = Tail(mainQueue)
    BY <1>5 DEF Handled
  <2>2. Len(mainQueue') = Len(mainQueue) - 1
    BY <1>1, <2>1, TailElements
  <2> QED BY <1>3, <2>2
<1>6. PICK d \in Clients : ClientStep(d)
  BY <1>4, <1>5 DEF Next, vars, MainStep, HandleConnecting, HandleConnected, HandleDisconnected,
                    HandleRequiresAuthentication, AutoreconnectTimerTriggered, SetMusicClient,
                    UserStep, UserConnect, UserDisconnect, SelectProfile, AnswerStep,
                    AnswerAuthentication, WorldStep, ServerFails, ServerReturns
<1>7. ASSUME NEW name \in Names, NEW why \in Reasons, Post(d, name, why)
      PROVE  d = c /\ name = "Disconnected" /\ why = reason
  <2> DEFINE m == [from |-> d, name |-> name, reason |-> why]
  <2>1. m \in Notification /\ mainQueue' = Append(mainQueue, m)
    BY <1>7 DEF Notification, Post
  <2>2. m = n
    BY <1>1, <1>3, <2>1, AppendElements
  <2>3. m.from = n.from /\ m.name = n.name /\ m.reason = n.reason
    BY <2>2
  <2> QED BY <2>3 DEF n
<1>8. d = mClient
  BY <1>4, <1>6, ClientPosts
<1>9. "Connecting" \in Names /\ "RequiresAuthentication" \in Names /\ "Connected" \in Names
      /\ "Disconnected" \in Names /\ Reasons = {"none", "asked", "lost", "canceled", "unreachable"}
  BY DEF Names, Reasons
<1>10. CASE IgnoreConnect(d) \/ ServeAuthenticate(d) \/ ExitThread(d)
  BY <1>4, <1>10 DEF IgnoreConnect, ServeAuthenticate, ExitThread
<1>11. CASE BeginConnect(d) \/ ConnectSucceeds(d) \/ AskForPassword(d) \/ ResumeWithPassword(d)
  BY <1>4, <1>7, <1>9, <1>11
  DEF BeginConnect, ConnectSucceeds, AskForPassword, ResumeWithPassword, AnnounceOrAsk
<1>12. CASE ServeDisconnect(d) \/ ConnectFails(d) \/ ReportFailure(d)
  BY <1>4, <1>7, <1>9, <1>12
  DEF ServeDisconnect, DisconnectWithReason, ConnectFails, ReportFailure
<1>13. CASE MpdTimerTriggered(d)
  BY <1>7, <1>8, <1>9, <1>13, ClientsAssumption DEF MpdTimerTriggered, DisconnectWithReason
<1>14. CASE ResumeCanceled(d)
  BY <1>7, <1>8, <1>9, <1>14, ClientsAssumption DEF ResumeCanceled, DisconnectWithReason
<1> QED BY <1>6, <1>10, <1>11, <1>12, <1>13, <1>14 DEF ClientStep

(* "Lost connection with server." is never told of a connection that       *)
(* Theremin closed: where it closes one, it stops the timer with it.       *)
THEOREM LostMeansLostAlways ==
  ASSUME PatientUser, OldServers = {}
  PROVE  Spec => LostMeansLost
<1>1. ASSUME PatientInv, WaitInv, [Next]_vars
      PROVE  [\A c \in Clients : Posts(c, "Disconnected", "lost") => link[c] # "closed"]_vars
  <2> SUFFICES ASSUME NEW c \in Clients, Posts(c, "Disconnected", "lost")
               PROVE  link[c] # "closed"
    OBVIOUS
  <2>1. c = mClient /\ mClient # NoClient /\ MpdTimerTriggered(c)
    BY <1>1, ReasonPosted
  <2>2. announced[c] = "Connected"
    BY <1>1, <2>1, CurrentFacts DEF MpdTimerTriggered, OneCause, OneCallOf
  <2> QED BY <1>1, <2>1, <2>2 DEF WaitInv
<1> QED BY <1>1, PatientInvariant, WaitInvariant, PTL DEF Spec, LostMeansLost

(* "User canceled authentication request." is only told if the user did:   *)
(* an answer is not taken for a later question.                            *)
THEOREM CanceledMeansCanceledAlways ==
  ASSUME PatientUser, OldServers = {}
  PROVE  Spec => CanceledMeansCanceled
<1>1. ASSUME PatientInv, WaitInv, [Next]_vars
      PROVE  [\A c \in Clients :
                Posts(c, "Disconnected", "canceled") => mPassword[c] = "canceled"]_vars
  <2> SUFFICES ASSUME NEW c \in Clients, Posts(c, "Disconnected", "canceled")
               PROVE  mPassword[c] = "canceled"
    OBVIOUS
  <2>1. c = mClient /\ mClient # NoClient /\ ResumeCanceled(c)
    BY <1>1, ReasonPosted
  <2>2. IsWaiting(c) /\ mSetPasswordCalled[c] /\ mPassword[c] \in NilPasswords
    BY <2>1 DEF ResumeCanceled, InPhase, IsWaiting
  <2>3. mPassword[c] \in Passwords \cup {"canceled"}
    BY <1>1, <2>1, <2>2 DEF WaitInv
  <2> QED BY <2>2, <2>3 DEF Passwords, NilPasswords
<1> QED BY <1>1, PatientInvariant, WaitInvariant, PTL DEF Spec, CanceledMeansCanceled
-----------------------------------------------------------------------------
(* mDisableAutoreconnectOnce, for any user.                                *)

\* What will clear the flag is under way.
DisableWillClear ==
  mDisableAutoreconnectOnce =>
    ~NoLoss(mainQueue) \/ \E c \in Clients : Waits(requests[c], "disconnect")

(* A loss stays in the queue until it is handled itself.                   *)
LEMMA LossStays ==
  ASSUME NEW q \in Seq(Notification)
  PROVE  /\ \A n \in Notification :
              ~NoLoss(q) \/ n.name = "Disconnected" => ~NoLoss(Append(q, n))
         /\ q # <<>> /\ Head(q).name # "Disconnected" /\ ~NoLoss(q) => ~NoLoss(Tail(q))
<1>1. ASSUME NEW n \in Notification, ~NoLoss(q) \/ n.name = "Disconnected"
      PROVE  ~NoLoss(Append(q, n))
  <2>1. /\ Len(q) \in Nat /\ Len(Append(q, n)) = Len(q) + 1
        /\ \A i \in 1..Len(q) : Append(q, n)[i] = q[i]
        /\ Append(q, n)[Len(q) + 1] = n
    BY AppendElements
  <2>2. Len(q) + 1 \in 1..Len(q) + 1 /\ 1..Len(q) \subseteq 1..Len(q) + 1
    BY <2>1
  <2> QED BY <1>1, <2>1, <2>2 DEF NoLoss, IsLoss
<1>2. ASSUME q # <<>>, Head(q).name # "Disconnected", ~NoLoss(q)
      PROVE  ~NoLoss(Tail(q))
  <2>1. /\ Len(q) \in Nat \ {0}
        /\ Len(Tail(q)) = Len(q) - 1
        /\ \A i \in 1..Len(Tail(q)) : Tail(q)[i] = q[i + 1]
        /\ Head(q) = q[1]
    BY <1>2, TailElements
  <2>2. PICK i \in 1..Len(q) : q[i].name = "Disconnected"
    BY <1>2 DEF NoLoss, IsLoss
  <2>3. i # 1
    BY <1>2, <2>1, <2>2
  <2>4. i - 1 \in 1..Len(Tail(q)) /\ Tail(q)[i - 1] = q[i]
    BY <2>1, <2>3
  <2> QED BY <2>2, <2>4 DEF NoLoss, IsLoss
<1> QED BY <1>1, <1>2

(* Posting and sending lose nothing that clears the flag.                  *)
LEMMA PostStays ==
  ASSUME TypeOK, NEW c \in Clients, NEW name \in Names, NEW reason \in Reasons,
         Post(c, name, reason)
  PROVE  ~NoLoss(mainQueue) \/ name = "Disconnected" => ~NoLoss(mainQueue')
<1> DEFINE n == [from |-> c, name |-> name, reason |-> reason]
<1>1. n \in Notification /\ n.name = name /\ mainQueue \in Seq(Notification)
  BY DEF Notification, TypeOK
<1>2. mainQueue' = Append(mainQueue, n)
  BY DEF Post
<1> HIDE DEF n
<1> QED BY <1>1, <1>2, LossStays

LEMMA SendStays ==
  ASSUME TypeOK, NEW r \in Request, Send(r), NEW c \in Clients
  PROVE  Waits(requests[c], "disconnect") \/ (c = mClient /\ r.op = "disconnect")
           => Waits(requests'[c], "disconnect")
<1>1. requests[c] \in Seq(Request)
  BY DEF TypeOK
<1>2. requests'[c] = IF c = mClient THEN Append(requests[c], r) ELSE requests[c]
  BY DEF Send
<1> QED BY <1>1, <1>2, SendWaits

LEMMA DisableMainStep ==
  ASSUME TypeOK, AutoReconnect = Profiles, DisableWillClear, MainStep
  PROVE  DisableWillClear'
<1>1. mainQueue \in Seq(Notification) /\ requests \in [Clients -> Seq(Request)]
  BY DEF TypeOK
<1>2. CASE AutoreconnectTimerTriggered
  <2> DEFINE r == [op |-> "connect", profile |-> currentProfile]
  <2>1. r \in Request /\ Send(r)
    BY <1>2 DEF AutoreconnectTimerTriggered, SendConnect, Request, TypeOK
  <2>2. UNCHANGED <<mDisableAutoreconnectOnce, mainQueue>>
    BY <1>2 DEF AutoreconnectTimerTriggered
  <2> HIDE DEF r
  <2> QED BY <2>1, <2>2, SendStays DEF DisableWillClear
<1>3. ASSUME NEW c \in Clients, SetMusicClient(c)
      PROVE  DisableWillClear'
  <2> DEFINE r == [op |-> "connect", profile |-> currentProfile]
  <2>1. r \in Request
    BY DEF Request, TypeOK
  <2>2. /\ requests' = [requests EXCEPT ![c] = Append(@, r)]
        /\ UNCHANGED <<mDisableAutoreconnectOnce, mainQueue>>
    BY <1>3 DEF SetMusicClient
  <2> HIDE DEF r
  <2>3. \A d \in Clients :
          Waits(requests[d], "disconnect") => Waits(requests'[d], "disconnect")
    BY <1>1, <2>1, <2>2, SendWaits
  <2> QED BY <2>2, <2>3 DEF DisableWillClear
<1>4. ASSUME NEW name, Handled(name), name # "Disconnected",
             UNCHANGED mDisableAutoreconnectOnce
      PROVE  DisableWillClear'
  <2>1. /\ mainQueue # <<>> /\ mainQueue' = Tail(mainQueue) /\ Head(mainQueue).name = name
        /\ UNCHANGED requests
    BY <1>4 DEF Handled
  <2>2. ~NoLoss(mainQueue) => ~NoLoss(mainQueue')
    BY <1>1, <1>4, <2>1, LossStays
  <2> QED BY <1>4, <2>1, <2>2 DEF DisableWillClear
<1>5. CASE HandleConnecting \/ HandleConnected \/ HandleRequiresAuthentication
  BY <1>4, <1>5 DEF HandleConnecting, HandleConnected, HandleRequiresAuthentication
<1>6. CASE HandleDisconnected
  <2>1. ~mDisableAutoreconnectOnce'
    BY <1>6 DEF HandleDisconnected, TypeOK
  <2> QED BY <2>1 DEF DisableWillClear
<1> QED BY <1>2, <1>3, <1>5, <1>6 DEF MainStep

LEMMA DisableUserStep ==
  ASSUME TypeOK, DisableWillClear, UserStep \/ AnswerStep \/ WorldStep
  PROVE  DisableWillClear'
<1>1. ASSUME NEW r \in Request, Send(r), UNCHANGED <<mDisableAutoreconnectOnce, mainQueue>>
      PROVE  DisableWillClear'
  BY <1>1, SendStays DEF DisableWillClear
<1>2. CASE UserConnect
  BY <1>1, <1>2 DEF UserConnect, SendConnect, Request, TypeOK
<1>3. CASE UserDisconnect
  <2> DEFINE r == [op |-> "disconnect"]
  <2>1. r \in Request /\ r.op = "disconnect"
    BY DEF Request
  <2>2. Send(r) /\ mClient \in Clients
    BY <1>3 DEF UserDisconnect, TypeOK
  <2> HIDE DEF r
  <2> QED BY <2>1, <2>2, SendStays DEF DisableWillClear
<1>4. CASE AnswerStep
  BY <1>1, <1>4 DEF AnswerStep, AnswerAuthentication, Request
<1>5. CASE WorldStep \/ \E p \in Profiles, c \in Clients : SelectProfile(p, c)
  BY <1>5 DEF WorldStep, ServerFails, ServerReturns, SelectProfile, mainVars, DisableWillClear
<1> QED BY <1>2, <1>3, <1>4, <1>5 DEF UserStep

LEMMA DisableClientStep ==
  ASSUME TypeOK, DisableWillClear, NEW c \in Clients, ClientStep(c)
  PROVE  DisableWillClear'
<1> USE DEF Names, Reasons
<1>1. requests \in [Clients -> Seq(Request)]
  BY DEF TypeOK
<1>2. ASSUME NEW op, Receives(c, op), op # "disconnect"
      PROVE  \A d \in Clients :
               Waits(requests[d], "disconnect") => Waits(requests'[d], "disconnect")
  <2>1. /\ requests[c] \in Seq(Request) /\ requests[c] # <<>> /\ Head(requests[c]).op = op
        /\ requests' = [requests EXCEPT ![c] = Tail(@)]
    BY <1>1, <1>2 DEF Receives
  <2> QED BY <1>1, <1>2, <2>1, ReceiveWaits
<1>3. UNCHANGED mDisableAutoreconnectOnce
  BY DEF ClientStep, IgnoreConnect, BeginConnect, ServeDisconnect, ServeAuthenticate,
         ConnectFails, ReportFailure, ConnectSucceeds, AskForPassword, ResumeCanceled,
         ResumeWithPassword, MpdTimerTriggered, ExitThread, Receives, Answered, InPhase, mainVars
<1>4. ASSUME ~NoLoss(mainQueue) => ~NoLoss(mainQueue'),
             \A d \in Clients :
               Waits(requests[d], "disconnect") => Waits(requests'[d], "disconnect")
      PROVE  DisableWillClear'
  BY <1>3, <1>4 DEF DisableWillClear
<1>5. CASE IgnoreConnect(c) \/ ServeAuthenticate(c)
  BY <1>2, <1>4, <1>5 DEF IgnoreConnect, ServeAuthenticate
<1>6. CASE BeginConnect(c)
  <2>1. Post(c, "Connecting", "none") /\ Receives(c, "connect")
    BY <1>6 DEF BeginConnect
  <2> QED BY <1>2, <1>4, <2>1, PostStays
<1>7. CASE ServeDisconnect(c) \/ MpdTimerTriggered(c)
  <2>1. Post(c, "Disconnected", "asked") \/ Post(c, "Disconnected", "lost")
    BY <1>7 DEF ServeDisconnect, MpdTimerTriggered, DisconnectWithReason
  <2>2. ~NoLoss(mainQueue')
    BY <2>1, PostStays
  <2> QED BY <2>2 DEF DisableWillClear
<1>8. CASE ReportFailure(c) \/ ResumeCanceled(c)
  <2>1. Post(c, "Disconnected", "unreachable") \/ Post(c, "Disconnected", "canceled")
    BY <1>8 DEF ReportFailure, ResumeCanceled, DisconnectWithReason
  <2>2. ~NoLoss(mainQueue')
    BY <2>1, PostStays
  <2> QED BY <2>2 DEF DisableWillClear
<1>9. CASE ConnectFails(c) \/ ConnectSucceeds(c) \/ AskForPassword(c) \/ ResumeWithPassword(c)
  <2>1. \/ Post(c, "Connected", "none") \/ Post(c, "RequiresAuthentication", "none")
        \/ UNCHANGED mainQueue
    BY <1>9 DEF ConnectFails, ConnectSucceeds, AskForPassword, ResumeWithPassword, AnnounceOrAsk
  <2>2. UNCHANGED requests
    BY <1>9 DEF ConnectFails, ConnectSucceeds, AskForPassword, ResumeWithPassword, Answered, InPhase
  <2> QED BY <1>4, <2>1, <2>2, PostStays
<1>10. CASE ExitThread(c)
  BY <1>4, <1>10 DEF ExitThread
<1> QED BY <1>5, <1>6, <1>7, <1>8, <1>9, <1>10 DEF ClientStep

(* mDisableAutoreconnectOnce is cleared by the disconnect it was set for,  *)
(* or by a loss before it, and never kept for a later one.                 *)
THEOREM DisableOnceIsPendingAlways ==
  ASSUME AutoReconnect = Profiles
  PROVE  Spec => []DisableOnceIsPending
<1>1. Init => DisableWillClear
  BY DEF Init, DisableWillClear
<1>2. TypeOK /\ DisableWillClear /\ [Next]_vars => DisableWillClear'
  <2>1. UNCHANGED vars /\ DisableWillClear => DisableWillClear'
    BY DEF vars, mainVars, DisableWillClear
  <2> QED BY <2>1, DisableMainStep, DisableUserStep, DisableClientStep DEF Next
<1>3. DisableWillClear => DisableOnceIsPending
  BY DEF DisableWillClear, DisableOnceIsPending, NoLoss, IsLoss, Waits
<1> QED BY <1>1, <1>2, <1>3, TypeCorrect, PTL DEF Spec
=============================================================================
