--------------------------- MODULE PlayList_proofs ---------------------------
(***************************************************************************)
(* Theorems about PlayList, for any songs, searches and limits: the list   *)
(* and the marker follow the server, no list is kept without a             *)
(* connection, a search shows the list it searched, deletions remove only  *)
(* chosen songs, and the first connect selects the current song.           *)
(***************************************************************************)
EXTENDS PlayListProperties, FiniteSetTheorems, SequenceTheorems, TLAPS

-----------------------------------------------------------------------------
(* Queues: what handling the first element and posting more of them do.    *)

IsSequence(s) == \E S : s \in Seq(S)

HasName(q, name) == \E i \in 1..Len(q) : q[i].name = name
HasNameAfter(q, name, i) == \E j \in i + 1..Len(q) : q[j].name = name
Asks(r) == \E i \in 1..Len(r) : r[i].op = "fetch"

(* The last list fetched, whether it is in the queue or shown, is list.    *)
LastIs(q, shown, list) ==
  /\ \A i \in 1..Len(q) :
       q[i].name = "FetchedPlaylist" /\ ~HasNameAfter(q, "FetchedPlaylist", i) =>
         q[i].songs = list
  /\ ~HasName(q, "FetchedPlaylist") => shown = list

(* What was fetched after the loss last announced is empty.                *)
EmptyAfterLoss(q) ==
  \A i \in 1..Len(q) :
    q[i].name = "FetchedPlaylist" /\ ~HasNameAfter(q, "Disconnected", i) =>
      q[i].songs = <<>>

(* The tail of a queue that is not empty.                                  *)
LEMMA TailFacts ==
  ASSUME NEW s, IsSequence(s), s # <<>>
  PROVE  /\ IsSequence(Tail(s))
         /\ Len(s) \in Nat \ {0}
         /\ Len(Tail(s)) = Len(s) - 1
         /\ Head(s) = s[1]
         /\ \A i \in 1..Len(s) - 1 : Tail(s)[i] = s[i + 1]
<1>1. PICK S : s \in Seq(S)
  BY DEF IsSequence
<1>2. Tail(s) \in Seq(S)
  BY <1>1
<1> QED
  BY <1>1, <1>2 DEF IsSequence

(* Two queues one after the other.                                         *)
LEMMA ConcatFacts ==
  ASSUME NEW s, NEW t, IsSequence(s), IsSequence(t)
  PROVE  /\ IsSequence(s \o t)
         /\ Len(s) \in Nat
         /\ Len(t) \in Nat
         /\ Len(s \o t) = Len(s) + Len(t)
         /\ \A i \in 1..Len(s) : (s \o t)[i] = s[i]
         /\ \A i \in 1..Len(t) : (s \o t)[Len(s) + i] = t[i]
<1>1. PICK S : s \in Seq(S)
  BY DEF IsSequence
<1>2. PICK T : t \in Seq(T)
  BY DEF IsSequence
<1>3. s \in Seq(S \cup T) /\ t \in Seq(S \cup T)
  BY <1>1, <1>2
<1>4. s \o t \in Seq(S \cup T)
  BY <1>3
<1> QED
  BY <1>3, <1>4 DEF IsSequence

(* A queue of one message.                                                 *)
LEMMA SingleFacts ==
  ASSUME NEW n
  PROVE  /\ IsSequence(<<n>>)
         /\ Len(<<n>>) = 1
         /\ <<n>>[1] = n
         /\ \A name : HasName(<<n>>, name) <=> n.name = name
<1>1. <<n>> \in Seq({n}) /\ Len(<<n>>) = 1 /\ <<n>>[1] = n
  OBVIOUS
<1>2. 1..1 = {1}
  OBVIOUS
<1> QED
  BY <1>1, <1>2, Zenon DEF IsSequence, HasName

(* What the tail of a queue still holds, by name.                          *)
LEMMA TailNames ==
  ASSUME NEW q, IsSequence(q), q # <<>>, NEW name
  PROVE  /\ HasName(Tail(q), name) => HasName(q, name)
         /\ HasName(q, name) /\ Head(q).name # name => HasName(Tail(q), name)
         /\ \A i \in 1..Len(q) - 1 :
              HasNameAfter(Tail(q), name, i) <=> HasNameAfter(q, name, i + 1)
         /\ HasNameAfter(q, name, 1) <=> HasName(Tail(q), name)
<1> DEFINE t == Tail(q)
<1>1. /\ Len(q) \in Nat \ {0}
      /\ Len(t) = Len(q) - 1
      /\ Head(q) = q[1]
      /\ \A i \in 1..Len(q) - 1 : t[i] = q[i + 1]
  BY TailFacts
<1> HIDE DEF t
<1>2. HasName(t, name) => HasNameAfter(q, name, 1)
  <2> SUFFICES ASSUME NEW i \in 1..Len(t), t[i].name = name
               PROVE  \E j \in 1 + 1..Len(q) : q[j].name = name
    BY DEF HasName, HasNameAfter
  <2>1. i + 1 \in 1 + 1..Len(q) /\ q[i + 1] = t[i]
    BY <1>1
  <2> QED BY <2>1
<1>3. HasNameAfter(q, name, 1) => HasName(t, name)
  <2> SUFFICES ASSUME NEW j \in 1 + 1..Len(q), q[j].name = name
               PROVE  \E i \in 1..Len(t) : t[i].name = name
    BY DEF HasName, HasNameAfter
  <2>1. j - 1 \in 1..Len(t) /\ t[j - 1] = q[j]
    BY <1>1
  <2> QED BY <2>1
<1>4. HasName(q, name) <=> Head(q).name = name \/ HasNameAfter(q, name, 1)
  BY <1>1 DEF HasName, HasNameAfter
<1>5. ASSUME NEW i \in 1..Len(q) - 1
      PROVE  HasNameAfter(t, name, i) <=> HasNameAfter(q, name, i + 1)
  <2>1. ASSUME NEW j \in i + 1..Len(t), t[j].name = name
        PROVE  HasNameAfter(q, name, i + 1)
    <3>1. j + 1 \in i + 1 + 1..Len(q) /\ q[j + 1] = t[j]
      BY <1>1
    <3> QED BY <3>1, <2>1 DEF HasNameAfter
  <2>2. ASSUME NEW j \in i + 1 + 1..Len(q), q[j].name = name
        PROVE  HasNameAfter(t, name, i)
    <3>1. j - 1 \in i + 1..Len(t) /\ t[j - 1] = q[j]
      BY <1>1
    <3> QED BY <3>1, <2>2 DEF HasNameAfter
  <2> QED BY <2>1, <2>2 DEF HasNameAfter
<1> QED
  BY <1>2, <1>3, <1>4, <1>5 DEF t

(* What a queue holds after a post, by name.                               *)
LEMMA ConcatNames ==
  ASSUME NEW q, NEW t, IsSequence(q), IsSequence(t), NEW name
  PROVE  /\ HasName(q \o t, name) <=> HasName(q, name) \/ HasName(t, name)
         /\ \A i \in 1..Len(q) :
              HasNameAfter(q \o t, name, i) <=>
                HasNameAfter(q, name, i) \/ HasName(t, name)
<1> DEFINE c == q \o t
<1>1. /\ Len(q) \in Nat
      /\ Len(t) \in Nat
      /\ Len(c) = Len(q) + Len(t)
      /\ \A i \in 1..Len(q) : c[i] = q[i]
      /\ \A i \in 1..Len(t) : c[Len(q) + i] = t[i]
  BY ConcatFacts
<1> HIDE DEF c
<1>2. HasName(t, name) => \E j \in Len(q) + 1..Len(c) : c[j].name = name
  <2> SUFFICES ASSUME NEW i \in 1..Len(t), t[i].name = name
               PROVE  \E j \in Len(q) + 1..Len(c) : c[j].name = name
    BY DEF HasName
  <2>1. Len(q) + i \in Len(q) + 1..Len(c) /\ c[Len(q) + i] = t[i]
    BY <1>1
  <2> QED BY <2>1
<1>3. ASSUME NEW j \in 1..Len(c), c[j].name = name, j > Len(q)
      PROVE  HasName(t, name)
  <2>1. j - Len(q) \in 1..Len(t) /\ t[j - Len(q)] = c[j]
    BY <1>1, <1>3
  <2> QED BY <2>1, <1>3 DEF HasName
<1>4. HasName(c, name) <=> HasName(q, name) \/ HasName(t, name)
  BY <1>1, <1>2, <1>3 DEF HasName
<1>5. ASSUME NEW i \in 1..Len(q)
      PROVE  HasNameAfter(c, name, i) <=> HasNameAfter(q, name, i) \/ HasName(t, name)
  BY <1>1, <1>2, <1>3 DEF HasNameAfter
<1> QED
  BY <1>4, <1>5 DEF c

(* A notification that is not a list leaves the last list what it was, a   *)
(* list that is handled becomes the one shown.                             *)
LEMMA LastAfterTail ==
  ASSUME NEW q, IsSequence(q), q # <<>>, NEW shown, NEW list, LastIs(q, shown, list)
  PROVE  /\ Head(q).name # "FetchedPlaylist" => LastIs(Tail(q), shown, list)
         /\ Head(q).name = "FetchedPlaylist" => LastIs(Tail(q), Head(q).songs, list)
<1> DEFINE t == Tail(q)
           F == "FetchedPlaylist"
<1>1. /\ Len(q) \in Nat \ {0}
      /\ Len(t) = Len(q) - 1
      /\ Head(q) = q[1]
      /\ \A i \in 1..Len(q) - 1 : t[i] = q[i + 1]
  BY TailFacts
<1>2. /\ HasName(q, F) /\ Head(q).name # F => HasName(t, F)
      /\ \A i \in 1..Len(q) - 1 : HasNameAfter(t, F, i) <=> HasNameAfter(q, F, i + 1)
      /\ HasNameAfter(q, F, 1) <=> HasName(t, F)
  BY TailNames
<1> HIDE DEF t
<1>3. ASSUME NEW i \in 1..Len(t), t[i].name = F, ~HasNameAfter(t, F, i)
      PROVE  t[i].songs = list
  <2>1. i + 1 \in 1..Len(q) /\ q[i + 1] = t[i] /\ ~HasNameAfter(q, F, i + 1)
    BY <1>1, <1>2, <1>3
  <2> QED BY <2>1, <1>3 DEF LastIs
<1>4. ASSUME ~HasName(t, F), Head(q).name = F
      PROVE  Head(q).songs = list
  <2>1. 1 \in 1..Len(q) /\ q[1].name = F /\ ~HasNameAfter(q, F, 1)
    BY <1>1, <1>2, <1>4
  <2> QED BY <2>1, <1>1 DEF LastIs
<1>5. ASSUME ~HasName(t, F), Head(q).name # F
      PROVE  shown = list
  BY <1>2, <1>5 DEF LastIs
<1> QED
  BY <1>3, <1>4, <1>5 DEF LastIs, t

(* Posting no list leaves the last list what it was.                       *)
LEMMA LastAfterPost ==
  ASSUME NEW q, NEW t, IsSequence(q), IsSequence(t), NEW shown, NEW list,
         LastIs(q, shown, list), ~HasName(t, "FetchedPlaylist")
  PROVE  LastIs(q \o t, shown, list)
<1> DEFINE c == q \o t
           F == "FetchedPlaylist"
<1>1. /\ Len(q) \in Nat
      /\ Len(t) \in Nat
      /\ Len(c) = Len(q) + Len(t)
      /\ \A i \in 1..Len(q) : c[i] = q[i]
      /\ \A i \in 1..Len(t) : c[Len(q) + i] = t[i]
  BY ConcatFacts
<1>2. /\ HasName(q, F) => HasName(c, F)
      /\ \A i \in 1..Len(q) : HasNameAfter(q, F, i) => HasNameAfter(c, F, i)
  BY ConcatNames
<1> HIDE DEF c
<1>3. ASSUME NEW i \in 1..Len(c), c[i].name = F
      PROVE  i \in 1..Len(q)
  <2>1. CASE i > Len(q)
    <3> DEFINE j == i - Len(q)
    <3>1. j \in 1..Len(t) /\ Len(q) + j = i
      BY <1>1, <2>1
    <3>2. t[j] = c[i]
      <4> HIDE DEF j
      <4> QED BY <1>1, <3>1
    <3> QED BY <3>1, <3>2, <1>3 DEF HasName
  <2>2. i \in Nat /\ i >= 1 /\ Len(q) \in Nat
    BY <1>1
  <2> QED BY <2>1, <2>2
<1>4. ASSUME NEW i \in 1..Len(c), c[i].name = F, ~HasNameAfter(c, F, i)
      PROVE  c[i].songs = list
  <2>1. i \in 1..Len(q)
    BY <1>3, <1>4
  <2> QED BY <2>1, <1>1, <1>2, <1>4 DEF LastIs
<1> QED
  BY <1>2, <1>4 DEF LastIs, c

(* A list that is posted is the last one.                                  *)
LEMMA LastAfterFetch ==
  ASSUME NEW q, IsSequence(q), NEW shown, NEW list
  PROVE  LastIs(q \o <<[name |-> "FetchedPlaylist", songs |-> list]>>, shown, list)
<1> DEFINE n == [name |-> "FetchedPlaylist", songs |-> list]
           c == q \o <<n>>
           F == "FetchedPlaylist"
<1>1. IsSequence(<<n>>) /\ HasName(<<n>>, F) /\ Len(<<n>>) = 1
  BY SingleFacts
<1>2. /\ Len(q) \in Nat
      /\ Len(c) = Len(q) + 1
      /\ \A i \in 1..1 : c[Len(q) + i] = <<n>>[i]
  BY <1>1, ConcatFacts
<1>3. /\ HasName(c, F)
      /\ \A i \in 1..Len(q) : HasNameAfter(c, F, i)
  BY <1>1, ConcatNames
<1>4. c[Len(q) + 1].songs = list
  BY <1>2
<1> HIDE DEF c
<1> QED
  BY <1>2, <1>3, <1>4 DEF LastIs, c

(* Lists after the last "Disconnected" stay empty while the queue is       *)
(* handled, empty lists and other notifications come, or a loss.           *)
LEMMA EmptyAfterTail ==
  ASSUME NEW q, IsSequence(q), q # <<>>, EmptyAfterLoss(q)
  PROVE  /\ EmptyAfterLoss(Tail(q))
         /\ Head(q).name = "FetchedPlaylist" /\ ~HasName(Tail(q), "Disconnected") =>
              Head(q).songs = <<>>
<1> DEFINE t == Tail(q)
           D == "Disconnected"
<1>1. /\ Len(q) \in Nat \ {0}
      /\ Len(t) = Len(q) - 1
      /\ Head(q) = q[1]
      /\ \A i \in 1..Len(q) - 1 : t[i] = q[i + 1]
  BY TailFacts
<1>2. /\ \A i \in 1..Len(q) - 1 : HasNameAfter(t, D, i) <=> HasNameAfter(q, D, i + 1)
      /\ HasNameAfter(q, D, 1) <=> HasName(t, D)
  BY TailNames
<1> HIDE DEF t
<1>3. ASSUME NEW i \in 1..Len(t), t[i].name = "FetchedPlaylist", ~HasNameAfter(t, D, i)
      PROVE  t[i].songs = <<>>
  <2>1. i + 1 \in 1..Len(q) /\ q[i + 1] = t[i] /\ ~HasNameAfter(q, D, i + 1)
    BY <1>1, <1>2, <1>3
  <2> QED BY <2>1, <1>3 DEF EmptyAfterLoss
<1>4. ASSUME Head(q).name = "FetchedPlaylist", ~HasName(t, D)
      PROVE  Head(q).songs = <<>>
  <2>1. 1 \in 1..Len(q) /\ ~HasNameAfter(q, D, 1)
    BY <1>1, <1>2, <1>4
  <2> QED BY <2>1, <1>1, <1>4 DEF EmptyAfterLoss
<1> QED
  BY <1>3, <1>4 DEF EmptyAfterLoss, t

(* Posting empty lists keeps them empty, posting a loss makes them so.     *)
LEMMA EmptyAfterPost ==
  ASSUME NEW q, NEW t, IsSequence(q), IsSequence(t),
         \A i \in 1..Len(t) : t[i].name = "FetchedPlaylist" => t[i].songs = <<>>,
         EmptyAfterLoss(q) \/ HasName(t, "Disconnected")
  PROVE  EmptyAfterLoss(q \o t)
<1> DEFINE c == q \o t
           D == "Disconnected"
<1>1. /\ Len(q) \in Nat
      /\ Len(t) \in Nat
      /\ Len(c) = Len(q) + Len(t)
      /\ \A i \in 1..Len(q) : c[i] = q[i]
      /\ \A i \in 1..Len(t) : c[Len(q) + i] = t[i]
  BY ConcatFacts
<1>2. \A i \in 1..Len(q) :
        HasNameAfter(c, D, i) <=> HasNameAfter(q, D, i) \/ HasName(t, D)
  BY ConcatNames
<1> HIDE DEF c
<1>3. SUFFICES ASSUME NEW i \in 1..Len(c), c[i].name = "FetchedPlaylist",
                      ~HasNameAfter(c, D, i)
               PROVE  c[i].songs = <<>>
  BY DEF EmptyAfterLoss, c
<1>4. CASE i \in 1..Len(q)
  BY <1>1, <1>2, <1>3, <1>4 DEF EmptyAfterLoss
<1>5. CASE i > Len(q)
  <2>1. i - Len(q) \in 1..Len(t) /\ t[i - Len(q)] = c[i]
    BY <1>1, <1>5
  <2> QED BY <2>1, <1>3
<1> QED
  BY <1>1, <1>4, <1>5

-----------------------------------------------------------------------------
(* Lists: what the helpers of PlayList return.                             *)

(* The enumeration of a set of positions stays in the set.                 *)
LEMMA InOrderFacts ==
  ASSUME NEW n \in Nat, NEW S \in SUBSET (1..n), NEW f \in InOrder(S)
  PROVE  /\ Cardinality(S) \in Nat
         /\ f \in [1..Cardinality(S) -> S]
         /\ DOMAIN f = 1..Cardinality(S)
         /\ \A x \in S : \E i \in DOMAIN f : f[i] = x
<1>1. IsFiniteSet(S)
  <2>1. IsFiniteSet(1..n)
    BY FS_Interval
  <2> QED BY <2>1, FS_Subset
<1> DEFINE k == Cardinality(S)
<1>2. k \in Nat
  BY <1>1, FS_CardinalityType
<1>3. f \in [1..k -> S] /\ \A i, j \in 1..k : i < j => f[i] < f[j]
  BY DEF InOrder
<1> HIDE DEF k
<1>4. IsFiniteSet(1..k) /\ Cardinality(1..k) = k
  BY <1>2, FS_Interval
<1>5. f \in Injection(1..k, S)
  <2>1. ASSUME NEW i \in 1..k, NEW j \in 1..k, f[i] = f[j]
        PROVE  i = j
    <3>1. f[i] \in 1..n /\ f[j] \in 1..n
      BY <1>3
    <3>2. f[i] \in Nat /\ f[j] \in Nat /\ i \in Nat /\ j \in Nat
      BY <1>2, <3>1
    <3> QED BY <1>3, <3>2, <2>1
  <2> QED BY <1>3, <2>1 DEF Injection, IsInjective
<1>6. f \in Surjection(1..k, S)
  BY <1>1, <1>4, <1>5, FS_Injection DEF k
<1> QED
  BY <1>2, <1>3, <1>6 DEF Surjection, k

(* Every edit of a list of songs is a list of songs.                       *)
LEMMA EditTypes ==
  ASSUME NEW S, NEW list \in Seq(S), NEW i \in 1..Len(list), NEW j \in 1..Len(list)
  PROVE  /\ Without(list, i) \in Seq(S)
         /\ Moved(list, i, j) \in Seq(S)
         /\ Swapped(list, i, j) \in Seq(S)
<1>1. Len(list) \in Nat /\ \A k \in 1..Len(list) : list[k] \in S
  BY LenProperties, ElementOfSeq
<1>2. /\ SubSeq(list, 1, i - 1) \in Seq(S)
      /\ SubSeq(list, i + 1, Len(list)) \in Seq(S)
      /\ Len(SubSeq(list, 1, i - 1)) = i - 1
      /\ Len(SubSeq(list, i + 1, Len(list))) = Len(list) - i
  <2>1. /\ i \in Int /\ i - 1 \in Int /\ i + 1 \in Int /\ Len(list) \in Int
        /\ i >= 1 /\ i <= Len(list)
    BY <1>1
  <2>2. (\A k \in 1..i - 1 : list[k] \in S) /\ (\A k \in i + 1..Len(list) : list[k] \in S)
    BY <1>1, <2>1
  <2>3. /\ SubSeq(list, 1, i - 1) \in Seq(S)
        /\ Len(SubSeq(list, 1, i - 1)) = IF 1 <= i - 1 THEN i - 1 - 1 + 1 ELSE 0
    BY <2>1, <2>2, SubSeqProperties
  <2>4. /\ SubSeq(list, i + 1, Len(list)) \in Seq(S)
        /\ Len(SubSeq(list, i + 1, Len(list))) =
             IF i + 1 <= Len(list) THEN Len(list) - (i + 1) + 1 ELSE 0
    BY <2>1, <2>2, SubSeqProperties
  <2> QED BY <2>1, <2>3, <2>4
<1> DEFINE w == Without(list, i)
<1>3. w \in Seq(S) /\ Len(w) = Len(list) - 1
  <2> DEFINE a == SubSeq(list, 1, i - 1)
             b == SubSeq(list, i + 1, Len(list))
  <2>1. w = a \o b
    BY DEF Without
  <2>2. a \in Seq(S) /\ b \in Seq(S) /\ Len(a) = i - 1 /\ Len(b) = Len(list) - i
    BY <1>2
  <2> HIDE DEF a, b, w
  <2>3. w \in Seq(S) /\ Len(w) = Len(a) + Len(b)
    BY <2>1, <2>2, ConcatProperties
  <2> QED BY <1>1, <2>2, <2>3
<1> HIDE DEF w
<1>4. \A k \in 1..Len(w) : w[k] \in S
  BY <1>3, ElementOfSeq
<1>5. SubSeq(w, 1, j - 1) \in Seq(S) /\ SubSeq(w, j, Len(w)) \in Seq(S)
  <2>1. j \in Int /\ j - 1 \in Int /\ Len(w) \in Int /\ j - 1 <= Len(w) /\ j >= 1
    BY <1>1, <1>3
  <2> QED BY <2>1, <1>4, SubSeqProperties
<1>6. <<list[i]>> \in Seq(S)
  BY <1>1
<1>7. Moved(list, i, j) \in Seq(S)
  BY <1>5, <1>6, ConcatProperties DEF Moved, With, w
<1>8. Swapped(list, i, j) \in Seq(S)
  BY <1>1, ExceptSeq DEF Swapped
<1> QED
  BY <1>3, <1>7, <1>8 DEF w

(* A position that is found is one of the list.                            *)
LEMMA PositionFacts ==
  ASSUME NEW S, NEW list \in Seq(S), NEW song
  PROVE  /\ PositionIn(list, song) \in {None} \cup 1..Len(list)
         /\ PositionIn(list, song) \in {None} \cup Nat
         /\ PositionIn(list, song) # None => song \in S
<1>1. Len(list) \in Nat /\ \A k \in 1..Len(list) : list[k] \in S
  BY LenProperties, ElementOfSeq
<1>2. IndicesOf(list, song) \subseteq 1..Len(list)
  BY DEF IndicesOf
<1>3. IndicesOf(list, song) # {} => song \in S
  BY <1>1 DEF IndicesOf
<1> QED
  BY <1>1, <1>2, <1>3, NoneAssumption DEF PositionIn

(* The rows of a search are songs with positions.                          *)
LEMMA MatchesTypes ==
  ASSUME NEW list \in {None} \cup Seq(Songs), NEW songs,
         NEW m \in Matches(list, songs)
  PROVE  m \in Seq([song : Songs, position : Nat])
<1> DEFINE matching == IF list = None THEN {} ELSE {i \in 1..Len(list) : list[i] \in songs}
<1>1. PICK p \in InOrder(matching) :
        m = [row \in DOMAIN p |-> [song |-> list[p[row]], position |-> p[row]]]
  BY DEF Matches
<1>2. PICK n \in Nat : matching \subseteq 1..n /\ \A i \in matching : list[i] \in Songs
  <2>1. CASE list = None
    BY <2>1
  <2>2. CASE list # None
    <3>1. Len(list) \in Nat /\ \A k \in 1..Len(list) : list[k] \in Songs
      BY <2>2, LenProperties, ElementOfSeq
    <3> QED BY <2>2, <3>1
  <2> QED BY <2>1, <2>2
<1> HIDE DEF matching
<1>3. /\ Cardinality(matching) \in Nat
      /\ p \in [1..Cardinality(matching) -> matching]
      /\ DOMAIN p = 1..Cardinality(matching)
  BY <1>2, InOrderFacts
<1> DEFINE k == Cardinality(matching)
<1> HIDE DEF k
<1>4. k \in Nat /\ DOMAIN p = 1..k /\ \A row \in 1..k : p[row] \in matching
  BY <1>3 DEF k
<1>5. ASSUME NEW row \in 1..k
      PROVE  list[p[row]] \in Songs /\ p[row] \in Nat
  <2>1. p[row] \in matching
    BY <1>4
  <2>2. p[row] \in 1..n
    BY <1>2, <2>1
  <2> QED BY <1>2, <2>1, <2>2
<1>6. m \in [1..k -> [song : Songs, position : Nat]]
  BY <1>1, <1>4, <1>5
<1> QED
  <2> DEFINE T == [song : Songs, position : Nat]
  <2> HIDE DEF T
  <2>1. m \in [1..k -> T]
    BY <1>6 DEF T
  <2>2. m \in Seq(T)
    BY <1>4, <2>1
  <2> QED BY <2>2 DEF T

(* Rows are positive numbers, and the table has as many as it says.        *)
LEMMA RowsFacts ==
  ASSUME NEW list \in {None} \cup Seq(Songs),
         NEW filtered \in {None} \cup Seq([song : Songs, position : Nat])
  PROVE  \E n \in Nat : Rows(list, filtered) = 1..n /\ Cardinality(Rows(list, filtered)) = n
<1>1. PICK n \in Nat : Rows(list, filtered) = 1..n
  <2>1. 1..0 = {}
    OBVIOUS
  <2> QED BY <2>1, LenProperties DEF Rows
<1>2. Cardinality(1..n) = n
  BY FS_Interval
<1> QED
  BY <1>1, <1>2

-----------------------------------------------------------------------------
(* Typing.  That the selected rows are rows of the table belongs to it: a  *)
(* song is looked up for each of them.                                     *)

Server == [list : Seq(Songs), version : Nat, current : {None} \cup Songs,
           playing : BOOLEAN, used : SUBSET Songs]

TableOK ==
  /\ mPlayList \in {None} \cup Seq(Songs)
  /\ mFilteredPlaylist \in {None} \cup Seq([song : Songs, position : Nat])
  /\ search = None \/ search \in SUBSET Songs
  /\ selected \subseteq Rows(mPlayList, mFilteredPlaylist)

MarkerOK ==
  /\ mCurrentPlayingSongPosition \in {None} \cup Nat
  /\ mScheduledSelect \in BOOLEAN
  /\ mShownAndSelected \in BOOLEAN

RandomizeOK ==
  /\ mDisallowPlaylistUpdates \in BOOLEAN
  /\ shuffle \in [order : Seq(Songs), at : Nat \ {0}]

HistoryOK ==
  /\ chosen \in SUBSET Songs
  /\ expects \in {"nothing", "connect", "replace"}
  /\ raced \in BOOLEAN
  /\ spent \in [Bounded -> Nat]

Typed ==
  /\ TableOK
  /\ MarkerOK
  /\ RandomizeOK
  /\ mainQueue \in Seq(Notification)
  /\ requests \in Seq(Request)
  /\ client \in Client
  /\ server \in Server
  /\ HistoryOK

(* Typed strengthens TypeOK.                                               *)
LEMMA TypedIsTypeOK ==
  ASSUME Typed
  PROVE  TypeOK
<1>1. selected \in SUBSET Nat
  <2>1. PICK n \in Nat : Rows(mPlayList, mFilteredPlaylist) = 1..n
    BY RowsFacts DEF Typed, TableOK
  <2> QED BY <2>1 DEF Typed, TableOK
<1> QED
  BY <1>1 DEF Typed, TableOK, MarkerOK, RandomizeOK, HistoryOK, Server, TypeOK

(* A step that leaves a group of variables alone leaves its types alone.   *)
LEMMA UnchangedTypes ==
  /\ TableOK /\ UNCHANGED tableVars => TableOK'
  /\ MarkerOK /\ UNCHANGED markerVars => MarkerOK'
  /\ RandomizeOK /\ UNCHANGED randomizeVars => RandomizeOK'
  /\ HistoryOK /\ UNCHANGED historyVars => HistoryOK'
<1>1. TableOK /\ UNCHANGED tableVars => TableOK'
  BY DEF TableOK, tableVars
<1>2. MarkerOK /\ UNCHANGED markerVars => MarkerOK'
  BY DEF MarkerOK, markerVars
<1>3. RandomizeOK /\ UNCHANGED randomizeVars => RandomizeOK'
  BY DEF RandomizeOK, randomizeVars
<1>4. HistoryOK /\ UNCHANGED historyVars => HistoryOK'
  BY DEF HistoryOK, historyVars
<1> QED
  BY <1>1, <1>2, <1>3, <1>4

(* Spending counts.                                                        *)
LEMMA SpendType ==
  ASSUME HistoryOK, NEW b \in Bounded, Spend(b)
  PROVE  spent' \in [Bounded -> Nat]
<1>1. "all" \in Bounded
  BY DEF Bounded
<1> QED
  BY <1>1 DEF HistoryOK, Spend

(* Posting notifications keeps the queue of the main thread well formed.   *)
LEMMA PostType ==
  ASSUME mainQueue \in Seq(Notification), NEW t \in Seq(Notification), Post(t)
  PROVE  mainQueue' \in Seq(Notification)
BY ConcatProperties DEF Post

(* Whatever the server makes of a new list is a server.                    *)
LEMMA ListingType ==
  ASSUME server \in Server, NEW list \in Seq(Songs), Listing(list)
  PROVE  /\ server' \in Server
         /\ server'.list = list
         /\ server'.version = server.version + 1
<1>1. SongsIn(list) \subseteq Songs
  BY LenProperties, ElementOfSeq DEF SongsIn
<1>2. server' \in [list : {list}, version : {server.version + 1},
                   current : SongsIn(list) \cup {None},
                   playing : {server.playing, FALSE}, used : {server.used}]
  BY DEF Listing
<1>3. /\ server.version \in Nat /\ server.playing \in BOOLEAN
      /\ server.used \in SUBSET Songs
  BY DEF Server
<1>4. [list : {list}, version : {server.version + 1},
       current : SongsIn(list) \cup {None},
       playing : {server.playing, FALSE}, used : {server.used}] \subseteq Server
  <2>1. /\ {list} \subseteq Seq(Songs)
        /\ SongsIn(list) \cup {None} \subseteq {None} \cup Songs
        /\ {server.used} \subseteq SUBSET Songs
    BY <1>1, <1>3
  <2>2. {server.version + 1} \subseteq Nat
    BY <1>3
  <2>3. {server.playing, FALSE} \subseteq BOOLEAN
    BY <1>3, Zenon
  <2> QED BY <2>1, <2>2, <2>3, Zenon DEF Server
<1>5. server'.list = list /\ server'.version = server.version + 1
  BY <1>2
<1> QED
  BY <1>2, <1>4, <1>5, Zenon

(* A server that plays one of the songs is a server.                       *)
LEMMA PlayingType ==
  ASSUME server \in Server, NEW song \in Songs, Playing(song)
  PROVE  /\ server' \in Server
         /\ server'.list = server.list
         /\ server'.version = server.version
BY DEF Playing, Server

-----------------------------------------------------------------------------
(* The client thread keeps the types.                                      *)

(* A step outside the main thread keeps the types if its variables do.     *)
LEMMA OutsideTyped ==
  ASSUME Typed, UNCHANGED mainVars,
         mainQueue' \in Seq(Notification), requests' \in Seq(Request),
         client' \in Client, server' \in Server, HistoryOK'
  PROVE  Typed'
<1>1. UNCHANGED tableVars /\ UNCHANGED markerVars /\ UNCHANGED randomizeVars
  BY DEF mainVars
<1> QED
  BY <1>1, UnchangedTypes DEF Typed

(* Taking a request leaves a queue of requests.                            *)
LEMMA ReceivesTypes ==
  ASSUME Typed, NEW op, Receives(op)
  PROVE  /\ Head(requests) \in Request
         /\ Head(requests).op = op
         /\ requests' \in Seq(Request)
         /\ UNCHANGED mainVars
         /\ HistoryOK'
<1>1. Head(requests) \in Request /\ Tail(requests) \in Seq(Request)
  BY HeadTailProperties DEF Typed, Receives
<1> QED
  BY <1>1, UnchangedTypes DEF Typed, Receives

(* The fields of a request, by what it asks for.                           *)
LEMMA RequestFields ==
  ASSUME NEW r \in Request
  PROVE  /\ r.op \in {"add", "play"} => r.song \in Songs
         /\ r.op = "remove" => r.songs \in Seq(Songs)
         /\ r.op = "move" => r.from \in Nat /\ r.to \in Nat
         /\ r.op = "swap" => r.song \in Songs /\ r.other \in Songs
BY DEF Request

(* Going on with a status update keeps the client well formed.             *)
LEMMA GoesOnType ==
  ASSUME client \in Client, GoesOn
  PROVE  client' \in Client
BY DEF GoesOn, Client

(* What is left of the list when songs are removed, in its order, has the  *)
(* other songs.                                                            *)
OthersIn(list, removed) == {i \in 1..Len(list) : list[i] \notin removed}
SongsAt(list, kept) == [i \in DOMAIN kept |-> list[kept[i]]]

(* What a removal keeps is a list of songs, without those removed only.    *)
LEMMA KeptTypes ==
  ASSUME NEW list \in Seq(Songs), NEW removed,
         NEW kept \in InOrder(OthersIn(list, removed))
  PROVE  /\ SongsAt(list, kept) \in Seq(Songs)
         /\ SongsIn(list) \ SongsIn(SongsAt(list, kept)) \subseteq removed
<1> DEFINE S == OthersIn(list, removed)
           rest == SongsAt(list, kept)
           k == Cardinality(S)
<1>1. Len(list) \in Nat /\ \A i \in 1..Len(list) : list[i] \in Songs
  BY LenProperties, ElementOfSeq
<1>2. S \in SUBSET (1..Len(list)) /\ \A i \in 1..Len(list) : i \in S <=> list[i] \notin removed
  BY DEF OthersIn
<1>3. k \in Nat /\ kept \in [1..k -> S] /\ DOMAIN kept = 1..k
      /\ \A x \in S : \E i \in DOMAIN kept : kept[i] = x
  <2>1. kept \in InOrder(S)
    OBVIOUS
  <2> DEFINE n == Len(list)
  <2>2. n \in Nat /\ S \in SUBSET (1..n)
    BY <1>1, <1>2
  <2> HIDE DEF S, n
  <2>3. /\ Cardinality(S) \in Nat
        /\ kept \in [1..Cardinality(S) -> S]
        /\ DOMAIN kept = 1..Cardinality(S)
        /\ \A x \in S : \E i \in DOMAIN kept : kept[i] = x
    BY <2>1, <2>2, InOrderFacts, ZenonT(30)
  <2>4. k = Cardinality(S)
    BY DEF S
  <2> HIDE DEF k
  <2> QED BY <2>3, <2>4
<1>4. \A i \in 1..k : kept[i] \in 1..Len(list)
  BY <1>2, <1>3
<1> HIDE DEF k
<1>5. rest \in [1..k -> Songs]
  BY <1>1, <1>3, <1>4 DEF SongsAt
<1>6. rest \in Seq(Songs) /\ Len(rest) = k
  BY <1>3, <1>5
<1>7. ASSUME NEW song \in SongsIn(list), song \notin removed
      PROVE  song \in SongsIn(rest)
  <2>1. PICK i \in 1..Len(list) : list[i] = song
    BY DEF SongsIn
  <2>2. i \in S
    BY <1>2, <2>1, <1>7
  <2>3. PICK j \in 1..k : kept[j] = i
    BY <1>3, <2>2
  <2>4. rest[j] = song /\ j \in 1..Len(rest)
    BY <1>3, <1>6, <2>1, <2>3 DEF SongsAt
  <2> QED BY <2>4 DEF SongsIn
<1> QED
  BY <1>6, <1>7

(* No request of the user spoils the types.                                *)
LEMMA ServeStepTyped ==
  ASSUME Typed, ServeStep
  PROVE  Typed'
<1> DEFINE r == Head(requests)
<1>0. /\ client \in Client /\ server \in Server /\ mainQueue \in Seq(Notification)
      /\ server.list \in Seq(Songs) /\ Len(server.list) \in Nat
      /\ \A i \in 1..Len(server.list) : server.list[i] \in Songs
  <2>1. server \in Server /\ server.list \in Seq(Songs)
    BY DEF Typed, Server
  <2> QED BY <2>1, LenProperties, ElementOfSeq DEF Typed
<1>1. CASE StartFetchPlaylist
  <2> DEFINE list == IF Connected THEN server.list ELSE <<>>
             n == [name |-> "FetchedPlaylist", songs |-> list]
  <2>1. <<n>> \in Seq(Notification)
    <3>1. list \in Seq(Songs)
      BY <1>0, EmptySeq
    <3>2. n \in Notification
      BY <3>1 DEF Notification
    <3> HIDE DEF n
    <3> QED BY <3>2
  <2>2. Receives("fetch") /\ Post(<<n>>) /\ UNCHANGED <<client, server>>
    BY <1>1 DEF StartFetchPlaylist
  <2> HIDE DEF n
  <2> QED BY <1>0, <2>1, <2>2, PostType, ReceivesTypes, OutsideTyped
<1>2. CASE SendCurrentSongPosition
  <2>1. client' \in Client
    <3>1. client.forced \in BOOLEAN /\ Connected \in BOOLEAN
      BY <1>0 DEF Client, Connected
    <3>2. (client.forced \/ Connected) \in BOOLEAN
      BY <3>1, Zenon
    <3> DEFINE b == client.forced \/ Connected
    <3>3. client' = [client EXCEPT !.forced = b]
      BY <1>2 DEF SendCurrentSongPosition
    <3> HIDE DEF b
    <3>4. b \in BOOLEAN
      BY <3>2, Zenon DEF b
    <3> QED BY <1>0, <3>3, <3>4 DEF Client
  <2> QED BY <1>0, <1>2, <2>1, ReceivesTypes, OutsideTyped DEF SendCurrentSongPosition
<1>3. CASE Ignore
  BY <1>0, <1>3, ReceivesTypes, OutsideTyped DEF Ignore
<1>4. CASE ClearPlaylist
  <2>1. Receives("clear") /\ UNCHANGED mainQueue
    BY <1>4 DEF ClearPlaylist
  <2>2. server' \in Server
    <3>1. <<>> \in Seq(Songs) /\ server.version + 1 \in Nat
      BY <1>0 DEF Server
    <3>2. server' = [server EXCEPT !.list = <<>>, !.version = @ + 1, !.current = None,
                                   !.playing = FALSE]
      BY <1>4 DEF ClearPlaylist
    <3> QED BY <1>0, <3>1, <3>2 DEF Server
  <2>3. client' \in Client
    BY <1>0, <1>4 DEF ClearPlaylist, Client
  <2> QED BY <1>0, <2>1, <2>2, <2>3, ReceivesTypes, OutsideTyped
<1>5. CASE AddSong
  <2>1. Receives("add") /\ UNCHANGED mainQueue /\ GoesOn
    BY <1>5 DEF AddSong
  <2>2. r.song \in Songs
    BY <2>1, ReceivesTypes, RequestFields
  <2>3. server' \in Server
    <3>1. Append(server.list, r.song) \in Seq(Songs)
      BY <1>0, <2>2, AppendProperties
    <3>2. server' = [server EXCEPT !.list = Append(@, r.song), !.version = @ + 1]
      BY <1>5 DEF AddSong
    <3>3. server.version + 1 \in Nat
      BY <1>0 DEF Server
    <3> DEFINE list == Append(server.list, r.song)
    <3>4. server' = [server EXCEPT !.list = list, !.version = server.version + 1]
      BY <1>0, <3>2 DEF Server
    <3> HIDE DEF list
    <3>5. list \in Seq(Songs)
      BY <3>1 DEF list
    <3> QED BY <1>0, <3>3, <3>4, <3>5 DEF Server
  <2> QED BY <1>0, <2>1, <2>3, ReceivesTypes, OutsideTyped, GoesOnType
<1>6. CASE RemoveSongs
  <2>1. Receives("remove") /\ UNCHANGED mainQueue /\ GoesOn
    BY <1>6 DEF RemoveSongs
  <2>2. CASE UNCHANGED server
    BY <1>0, <2>1, <2>2, ReceivesTypes, OutsideTyped, GoesOnType
  <2>3. CASE ~UNCHANGED server
    <3>1. PICK removed : \E kept \in InOrder(OthersIn(server.list, removed)) :
                           Listing(SongsAt(server.list, kept))
      BY <1>6, <2>3 DEF RemoveSongs, OthersIn, SongsAt
    <3>2. PICK kept \in InOrder(OthersIn(server.list, removed)) :
            Listing(SongsAt(server.list, kept))
      BY <3>1
    <3>3. SongsAt(server.list, kept) \in Seq(Songs)
      BY <1>0, KeptTypes
    <3>4. server' \in Server
      BY <1>0, <3>2, <3>3, ListingType
    <3> QED BY <1>0, <2>1, <3>4, ReceivesTypes, OutsideTyped, GoesOnType
  <2> QED BY <2>2, <2>3
<1>7. CASE MoveSong
  <2>1. Receives("move") /\ UNCHANGED <<mainQueue, client>>
    BY <1>7 DEF MoveSong
  <2>2. server' \in Server
    <3>1. CASE UNCHANGED server
      BY <1>0, <3>1
    <3>2. CASE ~UNCHANGED server
      <4>1. PICK i, j \in 1..Len(server.list) : Listing(Moved(server.list, i, j))
        BY <1>7, <3>2 DEF MoveSong
      <4> QED BY <1>0, <4>1, EditTypes, ListingType
    <3> QED BY <3>1, <3>2
  <2> QED BY <1>0, <2>1, <2>2, ReceivesTypes, OutsideTyped
<1>8. CASE SwapSongs
  <2>1. Receives("swap") /\ UNCHANGED <<mainQueue, client>>
    BY <1>8 DEF SwapSongs
  <2>2. server' \in Server
    <3>1. CASE UNCHANGED server
      BY <1>0, <3>1
    <3>2. CASE ~UNCHANGED server
      <4> DEFINE i == PositionIn(server.list, r.song)
                 j == PositionIn(server.list, r.other)
      <4>1. i # None /\ j # None /\ Listing(Swapped(server.list, i, j))
        BY <1>8, <3>2 DEF SwapSongs
      <4>2. i \in 1..Len(server.list) /\ j \in 1..Len(server.list)
        BY <1>0, <4>1, PositionFacts
      <4> HIDE DEF i, j
      <4> QED BY <1>0, <4>1, <4>2, EditTypes, ListingType
    <3> QED BY <3>1, <3>2
  <2> QED BY <1>0, <2>1, <2>2, ReceivesTypes, OutsideTyped
<1>9. CASE StartPlayback
  <2>1. Receives("start") /\ UNCHANGED mainQueue /\ GoesOn
    BY <1>9 DEF StartPlayback
  <2>2. server' \in Server
    <3>1. CASE UNCHANGED server
      BY <1>0, <3>1
    <3>2. CASE ~UNCHANGED server
      <4> DEFINE song == IF server.current = None THEN server.list[1] ELSE server.current
      <4>1. server.list # <<>> /\ Playing(song)
        BY <1>9, <3>2 DEF StartPlayback
      <4>2. 1 \in 1..Len(server.list)
        BY <1>0, <4>1, EmptySeq
      <4>3. song \in Songs
        BY <1>0, <4>2 DEF Server
      <4> HIDE DEF song
      <4> QED BY <1>0, <4>1, <4>3, PlayingType
    <3> QED BY <3>1, <3>2
  <2> QED BY <1>0, <2>1, <2>2, ReceivesTypes, OutsideTyped, GoesOnType
<1>10. CASE SkipToSong
  <2>1. Receives("play") /\ UNCHANGED mainQueue /\ GoesOn
    BY <1>10 DEF SkipToSong
  <2>2. r.song \in Songs
    BY <2>1, ReceivesTypes, RequestFields
  <2>3. server' \in Server
    BY <1>0, <1>10, <2>2, PlayingType DEF SkipToSong
  <2> QED BY <1>0, <2>1, <2>3, ReceivesTypes, OutsideTyped, GoesOnType
<1> QED
  BY <1>1, <1>2, <1>3, <1>4, <1>5, <1>6, <1>7, <1>8, <1>9, <1>10 DEF ServeStep

CachedSong == {None} \cup [song : Songs, position : Nat]

(* A poll keeps the client well formed.                                    *)
LEMMA UpdateStatusType ==
  ASSUME client \in Client, server \in Server, UpdateStatus
  PROVE  client' \in Client
<1>1. /\ StatusPosition \in {None} \cup Nat
      /\ server.version \in Nat /\ server.current \in {None} \cup Songs
      /\ server.playing \in BOOLEAN
  <2>1. server.list \in Seq(Songs) /\ server.current \in {None} \cup Songs
    BY DEF Server
  <2>2. PositionIn(server.list, server.current) \in {None} \cup Nat
    BY <2>1, PositionFacts
  <2> QED BY <2>1, <2>2 DEF StatusPosition, Server
<1> DEFINE changes == (IF client.playlist # server.version THEN {"playlist"} ELSE {})
                        \cup (IF client.song # server.current THEN {"song"} ELSE {})
                        \cup (IF client.position # StatusPosition THEN {"position"} ELSE {})
<1>2. changes \in SUBSET Changes
  BY DEF Changes
<1>3. CurrentAfter(changes) \in CachedSong
  BY DEF CurrentAfter, Client, CachedSong
<1>4. PICK calls \in BOOLEAN :
        client' = [client EXCEPT
               !.at = IF calls THEN "callback" ELSE "idle",
               !.playlist = server.version,
               !.song = server.current,
               !.position = StatusPosition,
               !.current = CurrentAfter(changes),
               !.playing = calls /\ server.playing,
               !.changed = changes]
  BY DEF UpdateStatus
<1> DEFINE playing == calls /\ server.playing
           current == CurrentAfter(changes)
           at == IF calls THEN "callback" ELSE "idle"
           position == StatusPosition
<1>5. playing \in BOOLEAN
  BY <1>1, Zenon
<1>6. at \in {"idle", "update", "callback"}
  OBVIOUS
<1> HIDE DEF changes, playing, current, at, position
<1>7. client' = [client EXCEPT !.at = at, !.playlist = server.version,
                    !.song = server.current, !.position = position,
                    !.current = current, !.playing = playing, !.changed = changes]
  BY <1>4 DEF playing, current, at, position
<1>8. position \in {None} \cup Nat /\ current \in CachedSong
  BY <1>1, <1>3 DEF position, current
<1> DEFINE linkBefore == client.link
           forcedBefore == client.forced
           new == [link |-> linkBefore, at |-> at, playlist |-> server.version,
                   song |-> server.current, position |-> position, current |-> current,
                   playing |-> playing, changed |-> changes, forced |-> forcedBefore]
<1>9. client' = new
  BY <1>7 DEF Client
<1>10. linkBefore \in {"up", "lost", "down"} /\ forcedBefore \in BOOLEAN
  BY DEF Client
<1>11. new \in Client
  <2> HIDE DEF linkBefore, forcedBefore
  <2> QED BY <1>1, <1>2, <1>5, <1>6, <1>8, <1>10 DEF Client, CachedSong
<1> QED
  BY <1>9, <1>11

(* The current song has a song and a position, or there is none.           *)
LEMMA CurrentSongType ==
  ASSUME client \in Client, server \in Server
  PROVE  CurrentSong \in CachedSong
<1> DEFINE position == PositionIn(server.list, client.song)
<1>1. /\ position \in {None} \cup Nat
      /\ position # None => client.song \in Songs
  BY PositionFacts DEF Server
<1>2. client.current \in CachedSong
  BY DEF Client, CachedSong
<1> HIDE DEF position
<1>3. CurrentSong \in {None, client.current}
        \/ (CurrentSong = [song |-> client.song, position |-> position] /\ position # None)
  BY DEF CurrentSong, position
<1> QED
  BY <1>1, <1>2, <1>3 DEF CachedSong

(* The callback posts well-formed notifications.                           *)
LEMMA CallbackTypes ==
  ASSUME client \in Client, server \in Server, mainQueue \in Seq(Notification),
         CallbackStatusChanged
  PROVE  client' \in Client /\ mainQueue' \in Seq(Notification)
<1> DEFINE what == client.changed \cup (IF client.forced THEN {"position"} ELSE {})
           current == IF what \subseteq {"playlist"} THEN client.current ELSE CurrentSong
           position == IF current = None THEN None ELSE current.position
           told(change, notification) == IF change \in what THEN <<notification>> ELSE <<>>
           P == [name |-> "PlaylistChanged"]
           S == [name |-> "CurrentSong", position |-> position]
<1>1. current \in CachedSong
  BY CurrentSongType DEF Client, CachedSong
<1>2. position \in {None} \cup Nat
  BY <1>1 DEF CachedSong
<1>3. client' = [client EXCEPT !.at = "idle", !.current = current, !.playing = FALSE,
                               !.changed = {}, !.forced = FALSE]
  BY DEF CallbackStatusChanged
<1>4. Post(told("playlist", P) \o told("position", S) \o told("song", S))
  BY DEF CallbackStatusChanged
<1>5. P \in Notification
  BY DEF Notification
<1>6. S \in Notification
  <2> HIDE DEF position
  <2> QED BY <1>2 DEF Notification
<1> HIDE DEF P, S, what, current, position
<1>7. /\ told("playlist", P) \in Seq(Notification)
      /\ told("position", S) \in Seq(Notification)
      /\ told("song", S) \in Seq(Notification)
  BY <1>5, <1>6
<1>8. client' \in Client
  BY <1>1, <1>3 DEF Client, CachedSong
<1>9. mainQueue' \in Seq(Notification)
  <2> DEFINE a == told("playlist", P)
             b == told("position", S)
             c == told("song", S)
  <2>1. a \in Seq(Notification) /\ b \in Seq(Notification) /\ c \in Seq(Notification)
    BY <1>7
  <2>2. Post(a \o b \o c)
    BY <1>4
  <2> HIDE DEF a, b, c
  <2>3. a \o b \o c \in Seq(Notification)
    BY <2>1, ConcatProperties
  <2> QED BY <2>2, <2>3, PostType
<1> QED
  BY <1>8, <1>9

(* No step of the status timer spoils the types.                           *)
LEMMA TimerStepTyped ==
  ASSUME Typed, TimerStep
  PROVE  Typed'
<1>1. /\ client \in Client /\ server \in Server /\ mainQueue \in Seq(Notification)
      /\ requests \in Seq(Request) /\ HistoryOK
  BY DEF Typed
<1>2. CASE UpdateStatus
  <2>1. client' \in Client
    BY <1>1, <1>2, UpdateStatusType
  <2> QED BY <1>1, <1>2, <2>1, UnchangedTypes, OutsideTyped DEF UpdateStatus
<1>3. CASE UpdateNothing
  <2>1. client' \in Client
    BY <1>1, <1>3 DEF UpdateNothing, Client
  <2> QED BY <1>1, <1>3, <2>1, UnchangedTypes, OutsideTyped DEF UpdateNothing
<1>4. CASE CallbackStatusChanged
  <2>1. client' \in Client /\ mainQueue' \in Seq(Notification)
    BY <1>1, <1>4, CallbackTypes
  <2> QED BY <1>1, <1>4, <2>1, UnchangedTypes, OutsideTyped DEF CallbackStatusChanged
<1>5. CASE NoticeLoss
  <2>1. client' \in Client
    BY <1>1, <1>5 DEF NoticeLoss, Client
  <2> DEFINE n == [name |-> "Disconnected"]
  <2>2. n \in Notification
    BY DEF Notification
  <2>3. Post(<<n>>)
    BY <1>5 DEF NoticeLoss
  <2> HIDE DEF n
  <2>4. mainQueue' \in Seq(Notification)
    <3>1. <<n>> \in Seq(Notification)
      BY <2>2
    <3> QED BY <1>1, <2>3, <3>1, PostType
  <2> QED BY <1>1, <1>5, <2>1, <2>4, UnchangedTypes, OutsideTyped DEF NoticeLoss
<1> QED
  BY <1>2, <1>3, <1>4, <1>5 DEF TimerStep

(* So do losses, reconnects and what others do with the server.            *)
LEMMA ConnectionTyped ==
  ASSUME Typed, LoseConnection \/ Reconnect
  PROVE  Typed'
<1>1. /\ client \in Client /\ server \in Server /\ mainQueue \in Seq(Notification)
      /\ requests \in Seq(Request) /\ HistoryOK
  BY DEF Typed
<1>2. CASE LoseConnection
  <2>1. client' \in Client
    BY <1>1, <1>2 DEF LoseConnection, Disconnected, Client
  <2>2. HistoryOK'
    <3>1. spent' \in [Bounded -> Nat]
      BY <1>1, <1>2, SpendType DEF LoseConnection, Bounded
    <3> QED BY <1>1, <1>2, <3>1 DEF LoseConnection, HistoryOK
  <2> QED BY <1>1, <1>2, <2>1, <2>2, OutsideTyped DEF LoseConnection
<1>3. CASE Reconnect
  <2>1. client' \in Client
    BY <1>1, <1>3 DEF Reconnect, Client
  <2> QED BY <1>1, <1>3, <2>1, UnchangedTypes, OutsideTyped DEF Reconnect
<1> QED
  BY <1>2, <1>3

(* No other client of the server spoils the types.                         *)
LEMMA ServerStepTyped ==
  ASSUME Typed, ServerStep
  PROVE  Typed'
<1>1. /\ client \in Client /\ server \in Server /\ mainQueue \in Seq(Notification)
      /\ requests \in Seq(Request) /\ HistoryOK /\ server.list \in Seq(Songs)
  BY DEF Typed, Server
<1>2. \A i \in 1..Len(server.list) : server.list[i] \in Songs
  BY <1>1, ElementOfSeq
<1>3. ASSUME server' \in Server, OthersAct, raced' \in BOOLEAN,
             NEW b \in Bounded, Spend(b)
      PROVE  Typed'
  <2>1. spent' \in [Bounded -> Nat]
    BY <1>1, <1>3, SpendType
  <2>2. HistoryOK'
    BY <1>1, <1>3, <2>1 DEF OthersAct, HistoryOK
  <2> QED BY <1>1, <1>3, <2>2, OutsideTyped DEF OthersAct
<1>4. "edits" \in Bounded /\ "stops" \in Bounded
  BY DEF Bounded
<1>5. (raced \/ client.at = "callback") \in BOOLEAN
  BY <1>1, Zenon DEF HistoryOK
<1>6. ASSUME NEW i \in 1..Len(server.list), NEW j \in 1..Len(server.list), OthersMove(i, j)
      PROVE  Typed'
  <2>1. server' \in Server
    BY <1>1, <1>6, EditTypes, ListingType DEF OthersMove
  <2>2. raced' \in BOOLEAN
    BY <1>5, <1>6, Zenon DEF OthersMove
  <2> QED BY <1>3, <1>4, <1>6, <2>1, <2>2, Zenon DEF OthersMove
<1>7. ASSUME NEW i \in 1..Len(server.list), OthersRemove(i)
      PROVE  Typed'
  <2>1. server' \in Server
    BY <1>1, <1>7, EditTypes, ListingType DEF OthersRemove
  <2>2. raced' \in BOOLEAN
    BY <1>5, <1>7, Zenon DEF OthersRemove
  <2> QED BY <1>3, <1>4, <1>7, <2>1, <2>2, Zenon DEF OthersRemove
<1>8. ASSUME NEW song \in SongsIn(server.list), PlaysOther(song)
      PROVE  Typed'
  <2>1. song \in Songs
    BY <1>2 DEF SongsIn
  <2>2. server' \in Server
    BY <1>1, <1>8, <2>1, PlayingType DEF PlaysOther
  <2>3. raced' \in BOOLEAN
    BY <1>1, <1>8, Zenon DEF PlaysOther, HistoryOK
  <2> QED BY <1>3, <1>4, <1>8, <2>2, <2>3, Zenon DEF PlaysOther
<1>9. CASE PlayerStops
  <2>1. server' \in Server
    BY <1>1, <1>9 DEF PlayerStops, Server
  <2>2. raced' \in BOOLEAN
    BY <1>1, <1>9, Zenon DEF PlayerStops, HistoryOK
  <2> QED BY <1>3, <1>4, <1>9, <2>1, <2>2, Zenon DEF PlayerStops
<1> QED
  BY <1>6, <1>7, <1>8, <1>9 DEF ServerStep

-----------------------------------------------------------------------------
(* The main thread keeps the types: the table of PlayListController.       *)

(* A step of the main thread keeps the types if its variables do.          *)
LEMMA InsideTyped ==
  ASSUME Typed, TableOK', MarkerOK', RandomizeOK',
         mainQueue' \in Seq(Notification), requests' \in Seq(Request),
         UNCHANGED client, server' \in Server, HistoryOK'
  PROVE  Typed'
BY DEF Typed

(* The types of the table.                                                 *)
LEMMA TableFacts ==
  ASSUME TableOK
  PROVE  /\ NumberOfRows \in Nat
         /\ Rows(mPlayList, mFilteredPlaylist) = 1..NumberOfRows
         /\ selected \subseteq 1..NumberOfRows
         /\ \A row \in selected : SongShown(row) \in Songs
<1>1. PICK n \in Nat : /\ Rows(mPlayList, mFilteredPlaylist) = 1..n
                       /\ Cardinality(Rows(mPlayList, mFilteredPlaylist)) = n
  BY RowsFacts DEF TableOK
<1>2. ASSUME NEW row \in Rows(mPlayList, mFilteredPlaylist)
      PROVE  SongShown(row) \in Songs
  <2>1. CASE mFilteredPlaylist # None
    <3>1. mFilteredPlaylist \in Seq([song : Songs, position : Nat]) /\ row \in 1..Len(mFilteredPlaylist)
      BY <1>2, <2>1 DEF TableOK, Rows
    <3>2. mFilteredPlaylist[row] \in [song : Songs, position : Nat]
      BY <3>1, ElementOfSeq
    <3> QED BY <2>1, <3>2 DEF SongShown
  <2>2. CASE mFilteredPlaylist = None
    <3>1. mPlayList \in Seq(Songs) /\ row \in 1..Len(mPlayList)
      BY <1>2, <2>2 DEF TableOK, Rows
    <3> QED BY <2>2, <3>1, ElementOfSeq DEF SongShown
  <2> QED BY <2>1, <2>2
<1> QED
  BY <1>1, <1>2 DEF NumberOfRows, TableOK

(* Selecting a row leaves a selection of rows.                             *)
LEMMA SelectRowType ==
  ASSUME TableOK, NEW row, SelectRow(row), UNCHANGED <<mPlayList, mFilteredPlaylist, search>>
  PROVE  TableOK'
<1>1. selected' \subseteq Rows(mPlayList, mFilteredPlaylist)
  BY TableFacts DEF SelectRow, TableOK
<1> QED
  BY <1>1 DEF TableOK

(* The messages of the user are requests.                                  *)
LEMMA MessageTypes ==
  /\ \A r \in Request : <<r>> \in Seq(Request)
  /\ \A op \in {"fetch", "clear", "start", "send position"} : [op |-> op] \in Request
  /\ \A op \in {"add", "play"}, song \in Songs : [op |-> op, song |-> song] \in Request
  /\ \A songs \in Seq(Songs) : [op |-> "remove", songs |-> songs] \in Request
  /\ \A from, to \in Nat : [op |-> "move", from |-> from, to |-> to] \in Request
  /\ \A song, other \in Songs : [op |-> "swap", song |-> song, other |-> other] \in Request
<1>1. \A r \in Request : <<r>> \in Seq(Request)
  OBVIOUS
<1>2. \A op \in {"fetch", "clear", "start", "send position"} : [op |-> op] \in Request
  BY DEF Request
<1>3. \A op \in {"add", "play"}, song \in Songs : [op |-> op, song |-> song] \in Request
  BY DEF Request
<1>4. \A songs \in Seq(Songs) : [op |-> "remove", songs |-> songs] \in Request
  BY DEF Request
<1>5. \A from, to \in Nat : [op |-> "move", from |-> from, to |-> to] \in Request
  BY DEF Request
<1>6. \A song, other \in Songs : [op |-> "swap", song |-> song, other |-> other] \in Request
  BY DEF Request
<1> QED
  BY <1>1, <1>2, <1>3, <1>4, <1>5, <1>6

(* Sending requests keeps their queue well formed.                         *)
LEMMA SendsType ==
  ASSUME requests \in Seq(Request), NEW t \in Seq(Request), Sends(t)
  PROVE  requests' \in Seq(Request)
BY ConcatProperties DEF Sends

(* An empty table keeps no selection that it has no row for.               *)
LEMMA ClearTableType ==
  ASSUME TableOK, mPlayList' = None, KeepSelection(None, mFilteredPlaylist),
         UNCHANGED <<mFilteredPlaylist, search>>
  PROVE  TableOK'
<1>1. selected' \subseteq Rows(None, mFilteredPlaylist)
  BY DEF KeepSelection
<1> QED
  BY <1>1 DEF TableOK

(* Asking for the playlist keeps table and requests well formed.           *)
LEMMA AskForPlaylistTypes ==
  ASSUME Typed, AskForPlaylist
  PROVE  TableOK' /\ requests' \in Seq(Request)
<1>1. TableOK /\ requests \in Seq(Request)
  BY DEF Typed
<1>2. CASE Connected
  <2> DEFINE r == [op |-> "fetch"]
  <2>1. r \in Request
    BY MessageTypes
  <2>2. requests' = Append(requests, r) /\ UNCHANGED tableVars
    BY <1>2 DEF AskForPlaylist
  <2> HIDE DEF r
  <2> QED BY <1>1, <2>1, <2>2, AppendProperties, UnchangedTypes
<1>3. CASE ~Connected
  BY <1>1, <1>3, ClearTableType DEF AskForPlaylist
<1> QED
  BY <1>2, <1>3

(* A list that has come keeps table and selection well formed.             *)
LEMMA UpdateTypes ==
  ASSUME Typed, NEW list \in Seq(Songs), UpdateAfterNewSongs(list), UNCHANGED search
  PROVE  TableOK' /\ mShownAndSelected' \in BOOLEAN
<1>1. PICK filtered \in IF mFilteredPlaylist = None THEN {None} ELSE Matches(list, search) :
        LET row == Row(list, filtered, mCurrentPlayingSongPosition)
            rows == Rows(list, filtered)
        IN /\ mPlayList' = list
           /\ mFilteredPlaylist' = filtered
           /\ ShownIf(row)
           /\ selected' = IF ~mShownAndSelected /\ row \in rows THEN {row}
                          ELSE IF filtered # None THEN {1} \cap rows
                          ELSE selected \cap rows
  BY Zenon DEF UpdateAfterNewSongs
<1>2. filtered \in {None} \cup Seq([song : Songs, position : Nat])
  BY MatchesTypes
<1>3. selected' \subseteq Rows(list, filtered)
  BY <1>1
<1>4. TableOK'
  BY <1>1, <1>2, <1>3 DEF Typed, TableOK
<1>5. mShownAndSelected' \in BOOLEAN
  BY <1>1, Zenon DEF ShownIf
<1> QED
  BY <1>4, <1>5

(* Taking a notification leaves a queue of notifications.                  *)
LEMMA ArrivesTypes ==
  ASSUME Typed, NEW name, Arrives(name)
  PROVE  /\ Head(mainQueue) \in Notification
         /\ Head(mainQueue).name = name
         /\ mainQueue' \in Seq(Notification)
         /\ UNCHANGED <<search, client, server, historyVars>>
         /\ HistoryOK'
<1>1. Head(mainQueue) \in Notification /\ Tail(mainQueue) \in Seq(Notification)
  BY HeadTailProperties DEF Typed, Arrives
<1> QED
  BY <1>1, UnchangedTypes DEF Typed, Arrives

(* The fields of a notification, by its name.                              *)
LEMMA NotificationFields ==
  ASSUME NEW n \in Notification
  PROVE  /\ n.name = "FetchedPlaylist" => n.songs \in Seq(Songs)
         /\ n.name = "CurrentSong" => n.position \in {None} \cup Nat
BY DEF Notification

(* No notification and no step of randomizePlaylist spoils the types.      *)
LEMMA MainStepTyped ==
  ASSUME Typed, MainStep
  PROVE  Typed'
<1>1. /\ TableOK /\ MarkerOK /\ RandomizeOK /\ HistoryOK
      /\ server \in Server /\ mainQueue \in Seq(Notification) /\ requests \in Seq(Request)
  BY DEF Typed
<1>2. CASE HandlePlaylistChanged
  <2>1. /\ Arrives("PlaylistChanged")
        /\ (UNCHANGED <<tableVars, requests>> \/ AskForPlaylist)
        /\ UNCHANGED markerVars /\ UNCHANGED randomizeVars
    BY <1>2 DEF HandlePlaylistChanged
  <2>2. TableOK' /\ requests' \in Seq(Request)
    BY <1>1, <2>1, UnchangedTypes, AskForPlaylistTypes
  <2>3. MarkerOK' /\ RandomizeOK'
    BY <1>1, <2>1, UnchangedTypes
  <2> QED BY <1>1, <2>1, <2>2, <2>3, ArrivesTypes, InsideTyped
<1>3. CASE HandleDisconnected
  <2>1. /\ Arrives("Disconnected")
        /\ (UNCHANGED <<tableVars, requests>> \/ AskForPlaylist)
        /\ mShownAndSelected' = FALSE
        /\ UNCHANGED <<mCurrentPlayingSongPosition, mScheduledSelect>>
        /\ UNCHANGED randomizeVars
    BY <1>3 DEF HandleDisconnected
  <2>2. TableOK' /\ requests' \in Seq(Request)
    BY <1>1, <2>1, UnchangedTypes, AskForPlaylistTypes
  <2>3. RandomizeOK'
    BY <1>1, <2>1, UnchangedTypes
  <2>4. MarkerOK'
    BY <1>1, <2>1, Zenon DEF MarkerOK
  <2> QED BY <1>1, <2>1, <2>2, <2>3, <2>4, ArrivesTypes, InsideTyped
<1>4. CASE HandleFetchedPlaylist
  <2> DEFINE list == Head(mainQueue).songs
  <2>1. /\ Arrives("FetchedPlaylist")
        /\ (UNCHANGED <<tableVars, mShownAndSelected>> \/ UpdateAfterNewSongs(list))
        /\ UNCHANGED <<mCurrentPlayingSongPosition, mScheduledSelect>>
        /\ UNCHANGED randomizeVars /\ UNCHANGED requests
    BY <1>4 DEF HandleFetchedPlaylist
  <2>2. list \in Seq(Songs) /\ UNCHANGED search
    BY <2>1, ArrivesTypes, NotificationFields
  <2> HIDE DEF list
  <2>3. TableOK' /\ mShownAndSelected' \in BOOLEAN
    <3>1. CASE UNCHANGED <<tableVars, mShownAndSelected>>
      BY <1>1, <3>1, UnchangedTypes, Zenon DEF MarkerOK
    <3>2. CASE UpdateAfterNewSongs(list)
      BY <2>2, <3>2, UpdateTypes
    <3> QED BY <2>1, <3>1, <3>2
  <2>4. RandomizeOK' /\ requests' \in Seq(Request)
    BY <1>1, <2>1, UnchangedTypes
  <2>5. MarkerOK'
    BY <1>1, <2>1, <2>3, Zenon DEF MarkerOK
  <2> QED BY <1>1, <2>1, <2>3, <2>4, <2>5, ArrivesTypes, InsideTyped
<1>5. CASE HandleCurrentSong
  <2> DEFINE position == Head(mainQueue).position
             row == Row(mPlayList, mFilteredPlaylist, position)
  <2>1. /\ Arrives("CurrentSong")
        /\ mCurrentPlayingSongPosition' = position
        /\ mScheduledSelect' = FALSE
        /\ ShownIf(row)
        /\ UNCHANGED <<mPlayList, mFilteredPlaylist>> /\ UNCHANGED randomizeVars
        /\ UNCHANGED requests
        /\ (SelectRow(row) \/ UNCHANGED selected)
    BY <1>5 DEF HandleCurrentSong
  <2>2. position \in {None} \cup Nat /\ UNCHANGED search
    BY <2>1, ArrivesTypes, NotificationFields
  <2> HIDE DEF position, row
  <2>3. TableOK'
    <3>1. CASE SelectRow(row)
      BY <1>1, <2>1, <2>2, <3>1, SelectRowType
    <3>2. CASE UNCHANGED selected
      BY <1>1, <2>1, <2>2, <3>2 DEF TableOK
    <3> QED BY <2>1, <3>1, <3>2
  <2>4. mShownAndSelected' \in BOOLEAN
    BY <2>1, Zenon DEF ShownIf
  <2>5. MarkerOK'
    <3>1. FALSE \in BOOLEAN
      OBVIOUS
    <3> QED BY <2>1, <2>2, <2>4, <3>1, Zenon DEF MarkerOK
  <2>6. RandomizeOK' /\ requests' \in Seq(Request)
    BY <1>1, <2>1, UnchangedTypes
  <2> QED BY <1>1, <2>1, <2>3, <2>5, <2>6, ArrivesTypes, InsideTyped
<1>6. ASSUME NEW j, SwapNext(j)
      PROVE  Typed'
  <2> DEFINE order == shuffle.order
             i == shuffle.at
             r == [op |-> "swap", song |-> order[i], other |-> order[j]]
  <2>1. /\ order \in Seq(Songs) /\ i \in Nat \ {0} /\ Len(order) \in Nat
    BY <1>1, LenProperties DEF RandomizeOK
  <2>2. i \in 1..Len(order) /\ j \in 1..Len(order)
    BY <1>6, <2>1 DEF SwapNext
  <2>3. Swapped(order, i, j) \in Seq(Songs) /\ order[i] \in Songs /\ order[j] \in Songs
    BY <2>1, <2>2, EditTypes, ElementOfSeq
  <2>4. <<r>> \in Seq(Request)
    BY <2>3, MessageTypes
  <2>5. /\ Sends(<<r>>)
        /\ shuffle' = [order |-> Swapped(order, i, j), at |-> i + 1]
        /\ UNCHANGED tableVars /\ UNCHANGED markerVars /\ UNCHANGED historyVars
        /\ UNCHANGED <<mDisallowPlaylistUpdates, mainQueue, client, server>>
    BY <1>6 DEF SwapNext
  <2>6. shuffle' \in [order : Seq(Songs), at : Nat \ {0}]
    <3>1. i + 1 \in Nat \ {0}
      BY <2>1
    <3> HIDE DEF i, order
    <3> QED BY <2>3, <2>5, <3>1
  <2>7. RandomizeOK'
    BY <1>1, <2>5, <2>6, Zenon DEF RandomizeOK
  <2>8. requests' \in Seq(Request)
    <3> HIDE DEF r
    <3> QED BY <1>1, <2>4, <2>5, SendsType
  <2>9. TableOK' /\ MarkerOK' /\ HistoryOK'
    BY <1>1, <2>5, UnchangedTypes
  <2> QED BY <1>1, <2>5, <2>7, <2>8, <2>9, InsideTyped
<1>7. CASE EndRandomize
  <2> DEFINE f == [op |-> "fetch"]
             p == [op |-> "send position"]
  <2>1. /\ mDisallowPlaylistUpdates' = FALSE
        /\ shuffle' = Unshuffled
        /\ \/ Sends(<<f, p>>) /\ UNCHANGED tableVars
           \/ /\ Sends(<<p>>)
              /\ mPlayList' = None
              /\ KeepSelection(None, mFilteredPlaylist)
              /\ UNCHANGED <<mFilteredPlaylist, search>>
        /\ mScheduledSelect' = TRUE
        /\ UNCHANGED <<mCurrentPlayingSongPosition, mShownAndSelected>>
        /\ UNCHANGED <<mainQueue, client, server>> /\ UNCHANGED historyVars
    BY <1>7 DEF EndRandomize
  <2>2. f \in Request /\ p \in Request
    BY MessageTypes
  <2>3. requests' \in Seq(Request)
    <3> HIDE DEF f, p
    <3>1. <<f, p>> \in Seq(Request) /\ <<p>> \in Seq(Request)
      BY <2>2
    <3> QED BY <1>1, <2>1, <3>1, SendsType
  <2>4. TableOK'
    BY <1>1, <2>1, UnchangedTypes, ClearTableType
  <2>5. MarkerOK'
    BY <1>1, <2>1, Zenon DEF MarkerOK
  <2>6. RandomizeOK'
    <3>1. Unshuffled \in [order : Seq(Songs), at : Nat \ {0}]
      BY DEF Unshuffled
    <3> QED BY <2>1, <3>1, Zenon DEF RandomizeOK
  <2> QED BY <1>1, <2>1, <2>3, <2>4, <2>5, <2>6, UnchangedTypes, InsideTyped
<1> QED
  BY <1>2, <1>3, <1>4, <1>5, <1>6, <1>7 DEF MainStep

-----------------------------------------------------------------------------
(* The user keeps the types.                                               *)

(* An act of the user is counted.                                          *)
LEMMA UserActsTypes ==
  ASSUME Typed, NEW kind \in Bounded, UserActs(kind), chosen' \in SUBSET Songs
  PROVE  /\ HistoryOK'
         /\ UNCHANGED client
         /\ mainQueue' \in Seq(Notification)
         /\ server' \in Server
<1>1. HistoryOK /\ mainQueue \in Seq(Notification) /\ server \in Server
  BY DEF Typed
<1>2. spent' \in [Bounded -> Nat]
  BY <1>1, SpendType DEF UserActs
<1> QED
  BY <1>1, <1>2 DEF UserActs, HistoryOK

(* A song added is one that the server is known to have had.               *)
LEMMA AddsFreshTypes ==
  ASSUME Typed, NEW song, AddsFresh(song), expects' \in {"nothing", "replace"}
  PROVE  /\ song \in Songs
         /\ HistoryOK'
         /\ UNCHANGED client
         /\ mainQueue' \in Seq(Notification)
         /\ server' \in Server
<1>1. HistoryOK /\ mainQueue \in Seq(Notification) /\ server \in Server
  BY DEF Typed
<1>2. spent' \in [Bounded -> Nat]
  BY <1>1, SpendType DEF AddsFresh, Bounded
<1>3. song \in Songs
  BY DEF AddsFresh, Fresh
<1>4. server' \in Server
  <2> DEFINE used == server.used \cup {song}
  <2>1. used \in SUBSET Songs
    BY <1>1, <1>3 DEF Server
  <2>2. server' = [server EXCEPT !.used = used]
    BY DEF AddsFresh
  <2> HIDE DEF used
  <2> QED BY <1>1, <2>1, <2>2 DEF Server
<1> QED
  BY <1>1, <1>2, <1>3, <1>4 DEF AddsFresh, HistoryOK

(* The songs taken from selected rows are songs.                           *)
LEMMA SelectedSongsTypes ==
  ASSUME TableOK, NEW rows \in InOrder(SelectedRows)
  PROVE  /\ GetSelectedSongs(rows) \in Seq(Songs)
         /\ SongsIn(GetSelectedSongs(rows)) \subseteq {SongShown(row) : row \in selected}
<1> DEFINE songs == GetSelectedSongs(rows)
<1>1. PICK n \in Nat : SelectedRows \in SUBSET (1..n)
  <2>1. PICK n \in Nat : selected \subseteq 1..n
    BY TableFacts
  <2> QED BY <2>1 DEF SelectedRows
<1> DEFINE k == Cardinality(SelectedRows)
<1>2. k \in Nat /\ rows \in [1..k -> SelectedRows] /\ DOMAIN rows = 1..k
  BY <1>1, InOrderFacts
<1> HIDE DEF k
<1>3. \A i \in 1..k : rows[i] \in selected
  BY <1>2 DEF SelectedRows
<1>4. \A i \in 1..k : SongShown(rows[i]) \in Songs
  BY <1>3, TableFacts
<1>5. songs \in [1..k -> Songs] /\ \A i \in 1..k : songs[i] = SongShown(rows[i])
  BY <1>2, <1>4 DEF GetSelectedSongs
<1> HIDE DEF songs
<1>6. songs \in Seq(Songs) /\ Len(songs) = k
  BY <1>2, <1>5
<1>7. SongsIn(songs) \subseteq {SongShown(row) : row \in selected}
  BY <1>3, <1>5, <1>6 DEF SongsIn
<1> QED
  BY <1>6, <1>7 DEF songs

(* No command of the user spoils the types.                                *)
LEMMA UserStepTyped ==
  ASSUME Typed, UserStep
  PROVE  Typed'
<1>1. /\ TableOK /\ MarkerOK /\ RandomizeOK /\ HistoryOK
      /\ server \in Server /\ mainQueue \in Seq(Notification) /\ requests \in Seq(Request)
      /\ chosen \in SUBSET Songs
  BY DEF Typed, HistoryOK
<1>2. {"commands", "selections", "searches"} \subseteq Bounded
  BY DEF Bounded
<1>3. ASSUME NEW rows \in SUBSET (1..NumberOfRows), SelectRows(rows)
      PROVE  Typed'
  <2>1. /\ UserActs("selections") /\ selected' = rows
        /\ UNCHANGED <<mPlayList, mFilteredPlaylist, search, requests, chosen>>
        /\ UNCHANGED markerVars /\ UNCHANGED randomizeVars
    BY <1>3 DEF SelectRows
  <2>2. TableOK'
    BY <1>1, <1>3, <2>1, TableFacts DEF TableOK
  <2> QED BY <1>1, <1>2, <2>1, <2>2, UserActsTypes, UnchangedTypes, InsideTyped
<1>4. ASSUME NEW songs \in Searches \cup {None}, Search(songs)
      PROVE  Typed'
  <2>1. /\ UserActs("searches") /\ search' = songs
        /\ UNCHANGED <<mPlayList, requests, chosen>>
        /\ UNCHANGED markerVars /\ UNCHANGED randomizeVars
    BY <1>4 DEF Search
  <2>2. TableOK'
    <3>1. search' = None \/ search' \in SUBSET Songs
      BY <2>1, SongsAssumption
    <3>2. CASE songs = None
      <4>1. mFilteredPlaylist' = None /\ KeepSelection(mPlayList, None)
        BY <1>4, <3>2 DEF Search
      <4>2. selected' \subseteq Rows(mPlayList, None)
        BY <4>1 DEF KeepSelection
      <4> QED BY <1>1, <2>1, <3>1, <4>1, <4>2 DEF TableOK
    <3>3. CASE songs # None
      <4>1. /\ mFilteredPlaylist' \in Matches(mPlayList, songs)
            /\ selected' = {1} \cap Rows(mPlayList, mFilteredPlaylist')
        BY <1>4, <3>3 DEF Search
      <4>2. mFilteredPlaylist' \in Seq([song : Songs, position : Nat])
        BY <1>1, <4>1, MatchesTypes DEF TableOK
      <4> QED BY <1>1, <2>1, <3>1, <4>1, <4>2 DEF TableOK
    <3> QED BY <3>2, <3>3
  <2> QED BY <1>1, <1>2, <2>1, <2>2, UserActsTypes, UnchangedTypes, InsideTyped
<1>5. CASE DeleteSelectedSongs
  <2>1. PICK rows \in InOrder(SelectedRows) :
          Sends(IF rows = <<>> THEN <<>>
                ELSE <<[op |-> "remove", songs |-> GetSelectedSongs(rows)]>>)
    BY <1>5 DEF DeleteSelectedSongs
  <2>2. /\ UserActs("commands")
        /\ chosen' = chosen \cup {SongShown(row) : row \in selected}
        /\ UNCHANGED <<mPlayList, mFilteredPlaylist, search>>
        /\ UNCHANGED markerVars /\ UNCHANGED randomizeVars
    BY <1>5 DEF DeleteSelectedSongs
  <2>3. requests' \in Seq(Request)
    <3> DEFINE r == [op |-> "remove", songs |-> GetSelectedSongs(rows)]
    <3>1. r \in Request
      BY <1>1, SelectedSongsTypes, MessageTypes
    <3>2. Sends(IF rows = <<>> THEN <<>> ELSE <<r>>)
      BY <2>1
    <3> HIDE DEF r
    <3>3. <<>> \in Seq(Request) /\ <<r>> \in Seq(Request)
      BY <3>1
    <3> QED BY <1>1, <3>2, <3>3, SendsType
  <2>4. selected' \subseteq Rows(mPlayList, mFilteredPlaylist)
    <3>1. PICK first \in selected :
            selected' = IF selected = {NumberOfRows} THEN {NumberOfRows - 1} \ {0}
                        ELSE {first}
      BY <1>5 DEF DeleteSelectedSongs
    <3>2. /\ NumberOfRows \in Nat /\ selected \subseteq 1..NumberOfRows
          /\ Rows(mPlayList, mFilteredPlaylist) = 1..NumberOfRows
      BY <1>1, TableFacts
    <3> QED BY <3>1, <3>2
  <2>5. TableOK'
    BY <1>1, <2>2, <2>4 DEF TableOK
  <2>6. chosen' \in SUBSET Songs
    BY <1>1, <2>2, TableFacts
  <2> QED BY <1>1, <1>2, <2>2, <2>3, <2>5, <2>6, UserActsTypes, UnchangedTypes, InsideTyped
<1>6. ASSUME NEW row \in selected, PlaySelectedSong(row)
      PROVE  Typed'
  <2> DEFINE r == [op |-> "play", song |-> SongShown(row)]
  <2>1. r \in Request
    BY <1>1, TableFacts, MessageTypes
  <2>2. /\ UserActs("commands") /\ Sends(<<r>>)
        /\ UNCHANGED tableVars /\ UNCHANGED markerVars /\ UNCHANGED randomizeVars
        /\ UNCHANGED chosen
    BY <1>6 DEF PlaySelectedSong
  <2> HIDE DEF r
  <2>3. requests' \in Seq(Request)
    BY <1>1, <2>1, <2>2, MessageTypes, SendsType
  <2> QED BY <1>1, <1>2, <2>2, <2>3, UserActsTypes, UnchangedTypes, InsideTyped
<1>7. ASSUME NEW row \in 1..NumberOfRows + 1, NEW above \in 1..NumberOfRows + 1,
             DropRow(row, above)
      PROVE  Typed'
  <2> DEFINE to == IF row > above THEN above ELSE above - 1
             r == [op |-> "move", from |-> row, to |-> to]
  <2>1. NumberOfRows \in Nat
    BY <1>1, TableFacts
  <2>2. row \in Nat /\ to \in Nat
    BY <1>7, <2>1
  <2>3. /\ UserActs("commands") /\ Sends(<<r>>) /\ SelectRow(to)
        /\ UNCHANGED <<mPlayList, mFilteredPlaylist, search>>
        /\ UNCHANGED markerVars /\ UNCHANGED randomizeVars /\ UNCHANGED chosen
    BY <1>7 DEF DropRow
  <2> HIDE DEF to
  <2>4. r \in Request
    BY <2>2, MessageTypes
  <2> HIDE DEF r
  <2>5. requests' \in Seq(Request)
    BY <1>1, <2>3, <2>4, MessageTypes, SendsType
  <2>6. TableOK'
    BY <1>1, <2>3, SelectRowType
  <2> QED BY <1>1, <1>2, <2>3, <2>5, <2>6, UserActsTypes, UnchangedTypes, InsideTyped
<1>8. ASSUME NEW song, NEW above, above \in 1..NumberOfRows + 1, DropSong(song, above)
      PROVE  Typed'
  <2> DEFINE length == IF mPlayList = None THEN 0 ELSE Len(mPlayList)
             a == [op |-> "add", song |-> song]
             m == [op |-> "move", from |-> length + 1, to |-> above]
  <2>1. /\ AddsFresh(song) /\ Sends(<<a, m>>) /\ expects' = "nothing"
        /\ UNCHANGED tableVars /\ UNCHANGED markerVars /\ UNCHANGED randomizeVars
    BY <1>8 DEF DropSong, mainVars
  <2>2. length \in Nat
    BY <1>1, LenProperties DEF TableOK
  <2>3. above \in Nat
    BY <1>1, <1>8, TableFacts
  <2>4. /\ song \in Songs /\ HistoryOK' /\ UNCHANGED client
        /\ mainQueue' \in Seq(Notification) /\ server' \in Server
    BY <2>1, AddsFreshTypes
  <2>5. a \in Request
    BY <2>4, MessageTypes
  <2>6. m \in Request
    <3> HIDE DEF length
    <3>1. length + 1 \in Nat
      BY <2>2
    <3> QED BY <2>3, <3>1, MessageTypes
  <2> HIDE DEF a, m, length
  <2>7. <<a, m>> \in Seq(Request)
    BY <2>5, <2>6
  <2>8. requests' \in Seq(Request)
    BY <1>1, <2>1, <2>7, SendsType
  <2> QED BY <1>1, <2>1, <2>4, <2>8, UnchangedTypes, InsideTyped
<1>9. ASSUME NEW song, ReplaceFiles(song)
      PROVE  Typed'
  <2> DEFINE c == [op |-> "clear"]
             a == [op |-> "add", song |-> song]
             p == [op |-> "start"]
  <2>1. /\ AddsFresh(song) /\ Sends(<<c, a, p>>) /\ expects' = "replace"
        /\ mScheduledSelect' = TRUE
        /\ UNCHANGED <<mCurrentPlayingSongPosition, mShownAndSelected>>
        /\ UNCHANGED tableVars /\ UNCHANGED randomizeVars
    BY <1>9 DEF ReplaceFiles
  <2>2. /\ song \in Songs /\ HistoryOK' /\ UNCHANGED client
        /\ mainQueue' \in Seq(Notification) /\ server' \in Server
    BY <2>1, AddsFreshTypes
  <2>3. c \in Request /\ a \in Request /\ p \in Request
    BY <2>2, MessageTypes
  <2> HIDE DEF c, a, p
  <2>4. <<c, a, p>> \in Seq(Request)
    BY <2>3
  <2>5. requests' \in Seq(Request)
    BY <1>1, <2>1, <2>4, SendsType
  <2>6. MarkerOK'
    BY <1>1, <2>1, Zenon DEF MarkerOK
  <2> QED BY <1>1, <2>1, <2>2, <2>5, <2>6, UnchangedTypes, InsideTyped
<1>10. CASE RandomizePlaylist
  <2> DEFINE order == IF mPlayList = None THEN <<>> ELSE mPlayList
  <2>1. /\ UserActs("commands") /\ mDisallowPlaylistUpdates' = TRUE
        /\ shuffle' = [order |-> order, at |-> 1]
        /\ UNCHANGED tableVars /\ UNCHANGED markerVars /\ UNCHANGED <<requests, chosen>>
    BY <1>10 DEF RandomizePlaylist
  <2>2. order \in Seq(Songs)
    BY <1>1, EmptySeq DEF TableOK
  <2> HIDE DEF order
  <2>3. shuffle' \in [order : Seq(Songs), at : Nat \ {0}]
    BY <2>1, <2>2
  <2>4. RandomizeOK'
    BY <2>1, <2>3, Zenon DEF RandomizeOK
  <2> QED BY <1>1, <1>2, <2>1, <2>4, UserActsTypes, UnchangedTypes, InsideTyped
<1> QED
  BY <1>3, <1>4, <1>5, <1>6, <1>7, <1>8, <1>9, <1>10 DEF UserStep

-----------------------------------------------------------------------------
(* Type correctness.                                                       *)

(* The initial states are well formed.                                     *)
LEMMA InitTyped ==
  ASSUME Init
  PROVE  Typed
<1>1. PICK list \in AtStart, current \in Songs :
        /\ current \in SongsIn(list)
        /\ server = [list |-> list, version |-> 1, current |-> current,
                     playing |-> TRUE, used |-> SongsIn(list)]
  BY DEF Init
<1>2. list \in Seq(Songs)
  BY SongsAssumption
<1>3. SongsIn(list) \in SUBSET Songs
  BY <1>2, LenProperties, ElementOfSeq DEF SongsIn
<1>4. server \in Server
  BY <1>1, <1>2, <1>3 DEF Server
<1>5. client \in Client
  BY DEF Init, Client
<1>6. TableOK
  BY DEF Init, TableOK
<1>7. MarkerOK
  BY DEF Init, MarkerOK
<1>8. RandomizeOK
  <2>1. shuffle \in [order : Seq(Songs), at : Nat \ {0}]
    BY DEF Init, Unshuffled
  <2>2. mDisallowPlaylistUpdates \in BOOLEAN
    BY DEF Init
  <2> QED BY <2>1, <2>2 DEF RandomizeOK
<1>9. HistoryOK
  BY DEF Init, HistoryOK
<1>10. mainQueue \in Seq(Notification) /\ requests \in Seq(Request)
  BY DEF Init
<1> QED
  BY <1>4, <1>5, <1>6, <1>7, <1>8, <1>9, <1>10 DEF Typed

(* Every step keeps Typed.                                                 *)
LEMMA NextTyped ==
  ASSUME Typed, Next
  PROVE  Typed'
BY ServeStepTyped, TimerStepTyped, MainStepTyped, UserStepTyped, ServerStepTyped,
   ConnectionTyped DEF Next

(* A stuttering step keeps Typed.                                          *)
LEMMA StutterTyped ==
  ASSUME Typed, UNCHANGED vars
  PROVE  Typed'
<1>1. /\ UNCHANGED mainVars /\ UNCHANGED historyVars
      /\ UNCHANGED <<mainQueue, requests, client, server>>
  BY DEF vars
<1>2. HistoryOK'
  BY <1>1, UnchangedTypes DEF Typed
<1> QED
  BY <1>1, <1>2, OutsideTyped DEF Typed

(* Every variable keeps its type and every selected row is one of the table.*)
THEOREM TypedAlways == Spec => []Typed
<1>1. Init => Typed
  BY InitTyped
<1>2. Typed /\ [Next]_vars => Typed'
  BY NextTyped, StutterTyped
<1> QED
  BY <1>1, <1>2, PTL DEF Spec

(* Every variable keeps its type: every message is well formed, and every  *)
(* row and song that is looked up exists.                                  *)
THEOREM TypeCorrect == Spec => []TypeOK
<1>1. Typed => TypeOK
  BY TypedIsTypeOK
<1> QED
  BY <1>1, TypedAlways, PTL

-----------------------------------------------------------------------------
(* What the steps do to the server, the requests and the table.            *)

\* The list keeps, or it gets a version of its own.
ServerEffect ==
  \/ server'.list = server.list /\ server'.version = server.version
  \/ server'.version = server.version + 1

(* What serving a request leaves alone.                                    *)
LEMMA ServeStepEffects ==
  ASSUME Typed, ServeStep
  PROVE  /\ ServerEffect
         /\ requests # <<>>
         /\ requests' = Tail(requests)
         /\ UNCHANGED mainVars /\ UNCHANGED historyVars
         /\ client.at = "idle"
         /\ client'.at # "callback"
         /\ client'.link = client.link /\ client'.playlist = client.playlist
         /\ IF Head(requests).op = "fetch"
            THEN /\ Post(<<[name |-> "FetchedPlaylist",
                            songs |-> IF Connected THEN server.list ELSE <<>>]>>)
                 /\ UNCHANGED <<client, server>>
            ELSE UNCHANGED mainQueue
<1>1. /\ client \in Client /\ server \in Server /\ server.list \in Seq(Songs)
      /\ Len(server.list) \in Nat /\ \A i \in 1..Len(server.list) : server.list[i] \in Songs
  <2>1. server \in Server /\ server.list \in Seq(Songs)
    BY DEF Typed, Server
  <2> QED BY <2>1, LenProperties, ElementOfSeq DEF Typed
<1>2. UNCHANGED client =>
        client'.at = client.at /\ client'.link = client.link /\ client'.playlist = client.playlist
  OBVIOUS
<1>3. GoesOn =>
        client'.at = "update" /\ client'.link = client.link /\ client'.playlist = client.playlist
  BY <1>1 DEF GoesOn, Client
<1>4. UNCHANGED server => ServerEffect
  BY DEF ServerEffect
<1>5. \A list \in Seq(Songs) : Listing(list) => ServerEffect
  BY <1>1, ListingType DEF ServerEffect
<1>6. \A song : Playing(song) => ServerEffect
  BY <1>1 DEF Playing, Server, ServerEffect
<1>7. CASE StartFetchPlaylist
  BY <1>2, <1>4, <1>7 DEF StartFetchPlaylist, Receives
<1>8. CASE SendCurrentSongPosition
  <2>1. client'.at = client.at /\ client'.link = client.link /\ client'.playlist = client.playlist
    BY <1>1, <1>8 DEF SendCurrentSongPosition, Client
  <2> QED BY <1>4, <1>8, <2>1 DEF SendCurrentSongPosition, Receives
<1>9. CASE Ignore
  BY <1>2, <1>4, <1>9 DEF Ignore, Receives
<1>10. CASE ClearPlaylist
  <2>1. client'.at = "update" /\ client'.link = client.link /\ client'.playlist = client.playlist
    BY <1>1, <1>10 DEF ClearPlaylist, Client
  <2>2. ServerEffect
    BY <1>1, <1>10 DEF ClearPlaylist, Server, ServerEffect
  <2> QED BY <1>10, <2>1, <2>2 DEF ClearPlaylist, Receives
<1>11. CASE AddSong
  <2>1. ServerEffect
    BY <1>1, <1>11 DEF AddSong, Server, ServerEffect
  <2> QED BY <1>3, <1>11, <2>1 DEF AddSong, Receives
<1>12. CASE RemoveSongs
  <2>1. ServerEffect
    <3>1. CASE UNCHANGED server
      BY <1>4, <3>1
    <3>2. CASE ~UNCHANGED server
      <4>1. PICK removed : \E kept \in InOrder(OthersIn(server.list, removed)) :
                             Listing(SongsAt(server.list, kept))
        BY <1>12, <3>2 DEF RemoveSongs, OthersIn, SongsAt
      <4> QED BY <1>1, <1>5, <4>1, KeptTypes
    <3> QED BY <3>1, <3>2
  <2> QED BY <1>3, <1>12, <2>1 DEF RemoveSongs, Receives
<1>13. CASE MoveSong
  <2>1. ServerEffect
    <3>1. CASE UNCHANGED server
      BY <1>4, <3>1
    <3>2. CASE ~UNCHANGED server
      <4>1. PICK i, j \in 1..Len(server.list) : Listing(Moved(server.list, i, j))
        BY <1>13, <3>2 DEF MoveSong
      <4> QED BY <1>1, <1>5, <4>1, EditTypes
    <3> QED BY <3>1, <3>2
  <2> QED BY <1>2, <1>13, <2>1 DEF MoveSong, Receives
<1>14. CASE SwapSongs
  <2>1. ServerEffect
    <3>1. CASE UNCHANGED server
      BY <1>4, <3>1
    <3>2. CASE ~UNCHANGED server
      <4> DEFINE i == PositionIn(server.list, Head(requests).song)
                 j == PositionIn(server.list, Head(requests).other)
      <4>1. i # None /\ j # None /\ Listing(Swapped(server.list, i, j))
        BY <1>14, <3>2 DEF SwapSongs
      <4>2. i \in 1..Len(server.list) /\ j \in 1..Len(server.list)
        BY <1>1, <4>1, PositionFacts
      <4> HIDE DEF i, j
      <4> QED BY <1>1, <1>5, <4>1, <4>2, EditTypes
    <3> QED BY <3>1, <3>2
  <2> QED BY <1>2, <1>14, <2>1 DEF SwapSongs, Receives
<1>15. CASE StartPlayback
  BY <1>3, <1>4, <1>6, <1>15 DEF StartPlayback, Receives
<1>16. CASE SkipToSong
  BY <1>3, <1>4, <1>6, <1>16 DEF SkipToSong, Receives
<1> QED
  BY <1>7, <1>8, <1>9, <1>10, <1>11, <1>12, <1>13, <1>14, <1>15, <1>16 DEF ServeStep

(* What other clients leave alone, and that they count versions up.        *)
LEMMA ServerStepEffects ==
  ASSUME Typed, ServerStep
  PROVE  /\ ServerEffect
         /\ UNCHANGED mainVars
         /\ UNCHANGED <<mainQueue, requests, client, chosen>>
<1>1. server \in Server /\ server.list \in Seq(Songs)
  BY DEF Typed, Server
<1>2. \A list \in Seq(Songs) : Listing(list) => ServerEffect
  BY <1>1, ListingType DEF ServerEffect
<1>3. ServerEffect
  <2>1. ASSUME NEW i \in 1..Len(server.list), NEW j \in 1..Len(server.list), OthersMove(i, j)
        PROVE  ServerEffect
    BY <1>1, <1>2, <2>1, EditTypes DEF OthersMove
  <2>2. ASSUME NEW i \in 1..Len(server.list), OthersRemove(i)
        PROVE  ServerEffect
    BY <1>1, <1>2, <2>2, EditTypes DEF OthersRemove
  <2>3. ASSUME NEW song, PlaysOther(song)
        PROVE  ServerEffect
    BY <1>1, <2>3 DEF PlaysOther, Playing, Server, ServerEffect
  <2>4. CASE PlayerStops
    BY <1>1, <2>4 DEF PlayerStops, Server, ServerEffect
  <2> QED BY <2>1, <2>2, <2>3, <2>4 DEF ServerStep
<1>4. OthersAct
  BY DEF ServerStep, OthersMove, OthersRemove, PlaysOther, PlayerStops
<1> QED
  BY <1>3, <1>4 DEF OthersAct

\* New requests remove only what has been chosen.
SendsChosen ==
  \E t : /\ IsSequence(t)
         /\ requests' = requests \o t
         /\ \A i \in 1..Len(t) : t[i].op = "remove" => SongsIn(t[i].songs) \subseteq chosen'

(* A command that does not delete adds no deletion.                        *)
LEMMA SendsOthers ==
  /\ \A r : Sends(<<r>>) /\ r.op # "remove" => SendsChosen
  /\ \A r, q : Sends(<<r, q>>) /\ r.op # "remove" /\ q.op # "remove" => SendsChosen
  /\ \A r, q, p : Sends(<<r, q, p>>) /\ r.op # "remove" /\ q.op # "remove" /\ p.op # "remove"
                 => SendsChosen
<1>1. ASSUME NEW r, Sends(<<r>>), r.op # "remove"
      PROVE  SendsChosen
  <2>1. <<r>> \in Seq({r}) /\ \A i \in 1..Len(<<r>>) : <<r>>[i] = r
    OBVIOUS
  <2> QED BY <1>1, <2>1 DEF Sends, SendsChosen, IsSequence
<1>2. ASSUME NEW r, NEW q, Sends(<<r, q>>), r.op # "remove", q.op # "remove"
      PROVE  SendsChosen
  <2>1. <<r, q>> \in Seq({r, q}) /\ \A i \in 1..Len(<<r, q>>) : <<r, q>>[i] \in {r, q}
    OBVIOUS
  <2> QED BY <1>2, <2>1 DEF Sends, SendsChosen, IsSequence
<1>3. ASSUME NEW r, NEW q, NEW p, Sends(<<r, q, p>>),
             r.op # "remove", q.op # "remove", p.op # "remove"
      PROVE  SendsChosen
  <2>1. /\ <<r, q, p>> \in Seq({r, q, p})
        /\ \A i \in 1..Len(<<r, q, p>>) : <<r, q, p>>[i] \in {r, q, p}
    OBVIOUS
  <2> QED BY <1>3, <2>1 DEF Sends, SendsChosen, IsSequence
<1> QED
  BY <1>1, <1>2, <1>3

(* What a command of the user leaves alone.                                *)
LEMMA UserStepEffects ==
  ASSUME Typed, UserStep
  PROVE  /\ server'.list = server.list /\ server'.version = server.version
         /\ UNCHANGED <<mainQueue, client, mPlayList>>
         /\ ~mDisallowPlaylistUpdates
         /\ chosen \subseteq chosen'
         /\ UNCHANGED requests \/ SendsChosen
<1> DEFINE Effects == /\ server'.list = server.list /\ server'.version = server.version
                      /\ UNCHANGED <<mainQueue, client, mPlayList>>
                      /\ ~mDisallowPlaylistUpdates
                      /\ chosen \subseteq chosen'
                      /\ UNCHANGED requests \/ SendsChosen
<1>1. server \in Server /\ TableOK
  BY DEF Typed
<1>2. ASSUME NEW kind, UserActs(kind)
      PROVE  /\ server'.list = server.list /\ server'.version = server.version
             /\ UNCHANGED <<mainQueue, client>> /\ ~mDisallowPlaylistUpdates
  BY <1>2 DEF UserActs
<1>3. ASSUME NEW song, AddsFresh(song)
      PROVE  /\ server'.list = server.list /\ server'.version = server.version
             /\ UNCHANGED <<mainQueue, client>> /\ ~mDisallowPlaylistUpdates
             /\ UNCHANGED chosen
  BY <1>1, <1>3 DEF AddsFresh, Server
<1>4. ASSUME NEW rows, SelectRows(rows)
      PROVE  Effects
  BY <1>2, <1>4 DEF SelectRows
<1>5. ASSUME NEW songs, Search(songs)
      PROVE  Effects
  BY <1>2, <1>5 DEF Search
<1>6. CASE DeleteSelectedSongs
  <2>1. PICK rows \in InOrder(SelectedRows) :
          Sends(IF rows = <<>> THEN <<>>
                ELSE <<[op |-> "remove", songs |-> GetSelectedSongs(rows)]>>)
    BY <1>6 DEF DeleteSelectedSongs
  <2>2. /\ UserActs("commands") /\ UNCHANGED mPlayList
        /\ chosen' = chosen \cup {SongShown(row) : row \in selected}
    BY <1>6 DEF DeleteSelectedSongs
  <2>3. SongsIn(GetSelectedSongs(rows)) \subseteq chosen'
    BY <1>1, <2>2, SelectedSongsTypes
  <2> DEFINE r == [op |-> "remove", songs |-> GetSelectedSongs(rows)]
  <2>4. r.songs = GetSelectedSongs(rows)
    OBVIOUS
  <2>5. Sends(IF rows = <<>> THEN <<>> ELSE <<r>>)
    BY <2>1
  <2> HIDE DEF r
  <2>6. /\ <<>> \in Seq({r}) /\ <<r>> \in Seq({r})
        /\ \A i \in 1..Len(<<r>>) : <<r>>[i] = r
        /\ 1..Len(<<>>) = {}
    OBVIOUS
  <2>7. SendsChosen
    BY <2>3, <2>4, <2>5, <2>6 DEF Sends, SendsChosen, IsSequence
  <2> QED BY <1>2, <2>2, <2>7
<1>7. ASSUME NEW row, PlaySelectedSong(row)
      PROVE  Effects
  <2>1. SendsChosen
    BY <1>7, SendsOthers DEF PlaySelectedSong
  <2> QED BY <1>2, <1>7, <2>1 DEF PlaySelectedSong, tableVars
<1>8. ASSUME NEW row, NEW above, DropRow(row, above)
      PROVE  Effects
  <2>1. SendsChosen
    BY <1>8, SendsOthers DEF DropRow
  <2> QED BY <1>2, <1>8, <2>1 DEF DropRow
<1>9. ASSUME NEW song, NEW above, DropSong(song, above)
      PROVE  Effects
  <2>1. SendsChosen
    BY <1>9, SendsOthers DEF DropSong
  <2> QED BY <1>3, <1>9, <2>1 DEF DropSong, mainVars, tableVars
<1>10. ASSUME NEW song, ReplaceFiles(song)
       PROVE  Effects
  <2>1. SendsChosen
    BY <1>10, SendsOthers DEF ReplaceFiles
  <2> QED BY <1>3, <1>10, <2>1 DEF ReplaceFiles, tableVars
<1>11. CASE RandomizePlaylist
  BY <1>2, <1>11 DEF RandomizePlaylist, tableVars
<1> QED
  BY <1>4, <1>5, <1>6, <1>7, <1>8, <1>9, <1>10, <1>11 DEF UserStep

\* AskForPlaylist asks, or clears the list without a connection.
LEMMA AskForPlaylistEffects ==
  ASSUME Typed, AskForPlaylist
  PROVE  \/ /\ Connected
            /\ Sends(<<[op |-> "fetch"]>>)
            /\ UNCHANGED tableVars
         \/ /\ ~Connected
            /\ mPlayList' = None
            /\ UNCHANGED <<mFilteredPlaylist, search, requests>>
<1>1. CASE Connected
  <2> DEFINE r == [op |-> "fetch"]
  <2>1. r \in Request /\ requests \in Seq(Request)
    BY MessageTypes DEF Typed
  <2>2. requests' = Append(requests, r) /\ UNCHANGED tableVars
    BY <1>1 DEF AskForPlaylist
  <2> HIDE DEF r
  <2>3. Sends(<<r>>)
    BY <2>1, <2>2, AppendIsConcat DEF Sends
  <2> QED BY <1>1, <2>2, <2>3 DEF r
<1>2. CASE ~Connected
  BY <1>2 DEF AskForPlaylist
<1> QED
  BY <1>1, <1>2

(* What handling a notification leaves alone.                              *)
LEMMA MainStepEffects ==
  ASSUME Typed, MainStep
  PROVE  /\ UNCHANGED <<client, server>> /\ UNCHANGED chosen
         /\ UNCHANGED requests \/ SendsChosen
<1>1. AskForPlaylist => UNCHANGED requests \/ SendsChosen
  BY AskForPlaylistEffects, SendsOthers
<1>2. ASSUME NEW name, Arrives(name)
      PROVE  UNCHANGED <<client, server>> /\ UNCHANGED chosen
  BY <1>2 DEF Arrives, historyVars
<1>3. CASE HandlePlaylistChanged
  BY <1>1, <1>2, <1>3 DEF HandlePlaylistChanged
<1>4. CASE HandleDisconnected
  BY <1>1, <1>2, <1>4 DEF HandleDisconnected
<1>5. CASE HandleFetchedPlaylist
  BY <1>2, <1>5 DEF HandleFetchedPlaylist
<1>6. CASE HandleCurrentSong
  BY <1>2, <1>6 DEF HandleCurrentSong
<1>7. ASSUME NEW j, SwapNext(j)
      PROVE  UNCHANGED <<client, server>> /\ UNCHANGED chosen /\ SendsChosen
  BY <1>7, SendsOthers DEF SwapNext, historyVars
<1>8. CASE EndRandomize
  <2> DEFINE f == [op |-> "fetch"]
             p == [op |-> "send position"]
  <2>1. /\ Sends(<<f, p>>) \/ Sends(<<p>>)
        /\ UNCHANGED <<client, server>> /\ UNCHANGED chosen
    BY <1>8 DEF EndRandomize, historyVars
  <2>2. f.op # "remove" /\ p.op # "remove"
    OBVIOUS
  <2> HIDE DEF f, p
  <2> QED BY <2>1, <2>2, SendsOthers
<1> QED
  BY <1>3, <1>4, <1>5, <1>6, <1>7, <1>8 DEF MainStep

(* What the status timer leaves alone.                                     *)
LEMMA TimerStepEffects ==
  ASSUME TimerStep
  PROVE  /\ UNCHANGED mainVars
         /\ UNCHANGED <<requests, server>> /\ UNCHANGED chosen
BY DEF TimerStep, UpdateStatus, UpdateNothing, CallbackStatusChanged, NoticeLoss, historyVars

(* What losing and restoring the connection leave alone.                   *)
LEMMA ConnectionEffects ==
  ASSUME LoseConnection \/ Reconnect
  PROVE  /\ UNCHANGED mainVars
         /\ UNCHANGED <<mainQueue, requests, server>> /\ UNCHANGED chosen
BY DEF LoseConnection, Reconnect, historyVars

-----------------------------------------------------------------------------
(* The rows that a search shows.                                           *)

(* Every step keeps the rows of a search those of the list shown.          *)
LEMMA NextFilterFollows ==
  ASSUME Typed, FilterFollows, [Next]_vars
  PROVE  FilterFollows'
<1>1. UNCHANGED <<mPlayList, mFilteredPlaylist, search>> => FilterFollows'
  BY DEF FilterFollows
<1>2. UNCHANGED tableVars => UNCHANGED <<mPlayList, mFilteredPlaylist, search>>
  BY DEF tableVars
<1>3. UNCHANGED mainVars => UNCHANGED <<mPlayList, mFilteredPlaylist, search>>
  BY DEF mainVars, tableVars
<1>4. mPlayList' = None => FilterFollows'
  BY DEF FilterFollows
<1>5. ASSUME NEW name, Arrives(name), AskForPlaylist
      PROVE  FilterFollows'
  BY <1>1, <1>2, <1>4, <1>5, AskForPlaylistEffects
<1>6. CASE MainStep
  <2>1. CASE HandlePlaylistChanged
    BY <1>1, <1>2, <1>5, <2>1 DEF HandlePlaylistChanged
  <2>2. CASE HandleDisconnected
    BY <1>1, <1>2, <1>5, <2>2 DEF HandleDisconnected
  <2>3. CASE HandleFetchedPlaylist
    <3>1. CASE mDisallowPlaylistUpdates
      BY <1>1, <1>2, <2>3, <3>1 DEF HandleFetchedPlaylist
    <3>2. CASE ~mDisallowPlaylistUpdates
      <4> DEFINE list == Head(mainQueue).songs
      <4>1. UpdateAfterNewSongs(list) /\ UNCHANGED search
        BY <2>3, <3>2 DEF HandleFetchedPlaylist, Arrives
      <4> HIDE DEF list
      <4>2. PICK filtered \in IF mFilteredPlaylist = None THEN {None} ELSE Matches(list, search) :
              mPlayList' = list /\ mFilteredPlaylist' = filtered
        BY <4>1 DEF UpdateAfterNewSongs
      <4>3. mFilteredPlaylist' # None => mFilteredPlaylist' \in Matches(list, search)
        BY <4>2
      <4> QED BY <4>1, <4>2, <4>3 DEF FilterFollows
    <3> QED BY <3>1, <3>2
  <2>4. CASE HandleCurrentSong
    BY <1>1, <2>4 DEF HandleCurrentSong, Arrives
  <2>5. ASSUME NEW j, SwapNext(j)
        PROVE  FilterFollows'
    BY <1>1, <1>2, <2>5 DEF SwapNext
  <2>6. CASE EndRandomize
    BY <1>1, <1>2, <1>4, <2>6 DEF EndRandomize
  <2> QED BY <1>6, <2>1, <2>2, <2>3, <2>4, <2>5, <2>6 DEF MainStep
<1>7. CASE UserStep
  <2>1. ASSUME NEW rows, SelectRows(rows)
        PROVE  FilterFollows'
    BY <1>1, <2>1 DEF SelectRows
  <2>2. ASSUME NEW songs, Search(songs)
        PROVE  FilterFollows'
    <3>1. CASE songs = None
      BY <2>2, <3>1 DEF Search, FilterFollows
    <3>2. CASE songs # None
      <4>1. /\ mFilteredPlaylist' \in Matches(mPlayList, songs)
            /\ search' = songs /\ mPlayList' = mPlayList
        BY <2>2, <3>2 DEF Search
      <4> QED BY <4>1 DEF FilterFollows
    <3> QED BY <3>1, <3>2
  <2>3. CASE DeleteSelectedSongs
    BY <1>1, <2>3 DEF DeleteSelectedSongs
  <2>4. ASSUME NEW row, PlaySelectedSong(row)
        PROVE  FilterFollows'
    BY <1>1, <1>2, <2>4 DEF PlaySelectedSong
  <2>5. ASSUME NEW row, NEW above, DropRow(row, above)
        PROVE  FilterFollows'
    BY <1>1, <2>5 DEF DropRow
  <2>6. ASSUME NEW song, NEW above, DropSong(song, above)
        PROVE  FilterFollows'
    BY <1>1, <1>3, <2>6 DEF DropSong
  <2>7. ASSUME NEW song, ReplaceFiles(song)
        PROVE  FilterFollows'
    BY <1>1, <1>2, <2>7 DEF ReplaceFiles
  <2>8. CASE RandomizePlaylist
    BY <1>1, <1>2, <2>8 DEF RandomizePlaylist
  <2> QED BY <1>7, <2>1, <2>2, <2>3, <2>4, <2>5, <2>6, <2>7, <2>8 DEF UserStep
<1>8. CASE ServeStep
  BY <1>1, <1>3, <1>8, ServeStepEffects
<1>9. CASE TimerStep
  BY <1>1, <1>3, <1>9, TimerStepEffects
<1>10. CASE ServerStep
  BY <1>1, <1>3, <1>10, ServerStepEffects
<1>11. CASE LoseConnection \/ Reconnect
  BY <1>1, <1>3, <1>11, ConnectionEffects
<1>12. CASE UNCHANGED vars
  BY <1>1, <1>12 DEF vars, mainVars, tableVars
<1> QED
  BY <1>6, <1>7, <1>8, <1>9, <1>10, <1>11, <1>12 DEF Next

(* A search shows the matching rows of the list that it searched, with     *)
(* their positions, through every new list, loss and randomize: a song     *)
(* played or deleted from a search is the one shown.                       *)
THEOREM FilterFollowsAlways == Spec => []FilterFollows
<1>1. Init => FilterFollows
  BY DEF Init, FilterFollows
<1>2. Typed /\ FilterFollows /\ [Next]_vars => FilterFollows'
  BY NextFilterFollows
<1> QED
  BY <1>1, <1>2, TypedAlways, PTL DEF Spec

-----------------------------------------------------------------------------
(* Deletions: whatever a request says to remove has been chosen before.    *)

RequestsChosen ==
  \A i \in 1..Len(requests) :
    requests[i].op = "remove" => SongsIn(requests[i].songs) \subseteq chosen

(* Every step keeps deletions under way to chosen songs.                   *)
LEMMA NextRequestsChosen ==
  ASSUME Typed, RequestsChosen, [Next]_vars
  PROVE  RequestsChosen'
<1>1. IsSequence(requests)
  BY DEF Typed, IsSequence
<1>2. UNCHANGED requests /\ chosen \subseteq chosen' => RequestsChosen'
  BY DEF RequestsChosen
<1>3. ASSUME SendsChosen, chosen \subseteq chosen'
      PROVE  RequestsChosen'
  <2>1. PICK t : /\ IsSequence(t)
                 /\ requests' = requests \o t
                 /\ \A i \in 1..Len(t) :
                      t[i].op = "remove" => SongsIn(t[i].songs) \subseteq chosen'
    BY <1>3 DEF SendsChosen
  <2> DEFINE c == requests \o t
  <2>2. /\ Len(requests) \in Nat
        /\ Len(t) \in Nat
        /\ Len(c) = Len(requests) + Len(t)
        /\ \A i \in 1..Len(requests) : c[i] = requests[i]
        /\ \A i \in 1..Len(t) : c[Len(requests) + i] = t[i]
    BY <1>1, <2>1, ConcatFacts
  <2>3. requests' = c
    BY <2>1
  <2> HIDE DEF c
  <2>4. ASSUME NEW i \in 1..Len(c), c[i].op = "remove"
        PROVE  SongsIn(c[i].songs) \subseteq chosen'
    <3>1. CASE i \in 1..Len(requests)
      <4>1. c[i] = requests[i]
        BY <2>2, <3>1
      <4> QED BY <1>3, <2>4, <3>1, <4>1 DEF RequestsChosen
    <3>2. CASE i > Len(requests)
      <4>1. i - Len(requests) \in 1..Len(t) /\ t[i - Len(requests)] = c[i]
        BY <2>2, <3>2
      <4> QED BY <2>1, <2>4, <4>1
    <3> QED BY <2>2, <3>1, <3>2
  <2> QED BY <2>3, <2>4 DEF RequestsChosen
<1>4. CASE ServeStep
  <2> DEFINE t == Tail(requests)
  <2>1. requests' = t /\ requests # <<>> /\ UNCHANGED chosen
    BY <1>4, ServeStepEffects DEF historyVars
  <2>2. /\ Len(requests) \in Nat \ {0}
        /\ Len(t) = Len(requests) - 1
        /\ \A i \in 1..Len(requests) - 1 : t[i] = requests[i + 1]
    BY <1>1, <2>1, TailFacts
  <2> HIDE DEF t
  <2>3. ASSUME NEW i \in 1..Len(t), t[i].op = "remove"
        PROVE  SongsIn(t[i].songs) \subseteq chosen
    <3>1. i + 1 \in 1..Len(requests) /\ requests[i + 1] = t[i]
      BY <2>2
    <3> QED BY <2>3, <3>1 DEF RequestsChosen
  <2> QED BY <2>1, <2>3 DEF RequestsChosen
<1>5. CASE MainStep
  BY <1>2, <1>3, <1>5, MainStepEffects
<1>6. CASE UserStep
  BY <1>2, <1>3, <1>6, UserStepEffects
<1>7. CASE TimerStep \/ LoseConnection \/ Reconnect
  BY <1>2, <1>7, TimerStepEffects, ConnectionEffects
<1>8. CASE ServerStep
  BY <1>2, <1>8, ServerStepEffects
<1>9. CASE UNCHANGED vars
  BY <1>2, <1>9 DEF vars, historyVars
<1> QED
  BY <1>4, <1>5, <1>6, <1>7, <1>8, <1>9 DEF Next

(* Serving a deletion removes the songs it names, or fewer.                *)
LEMMA RemoveStep ==
  ASSUME Typed, RequestsChosen, [Next]_vars,
         requests # <<>>, requests' = Tail(requests), Head(requests).op = "remove"
  PROVE  SongsIn(server.list) \ SongsIn(server'.list) \subseteq chosen
<1>1. /\ IsSequence(requests) /\ server \in Server /\ server.list \in Seq(Songs)
  BY DEF Typed, Server, IsSequence
<1>2. /\ Len(requests) \in Nat \ {0} /\ Head(requests) = requests[1]
      /\ Len(Tail(requests)) = Len(requests) - 1
  BY <1>1, TailFacts
<1>3. requests' # requests
  <2> DEFINE t == Tail(requests)
  <2>1. requests' = t /\ Len(t) = Len(requests) - 1 /\ Len(requests) \in Nat
    BY <1>2
  <2> HIDE DEF t
  <2>2. t # requests
    BY <2>1
  <2> QED BY <2>1, <2>2
<1>4. server'.list = server.list \/ ServeStep
  <2>1. CASE UserStep
    BY <2>1, UserStepEffects
  <2>2. CASE MainStep
    BY <2>2, MainStepEffects
  <2>3. CASE TimerStep \/ LoseConnection \/ Reconnect
    BY <1>3, <2>3, TimerStepEffects, ConnectionEffects
  <2>4. CASE ServerStep
    BY <1>3, <2>4, ServerStepEffects
  <2>5. CASE UNCHANGED vars
    BY <2>5 DEF vars
  <2> QED BY <2>1, <2>2, <2>3, <2>4, <2>5 DEF Next
<1>5. ASSUME ServeStep, server'.list # server.list
      PROVE  RemoveSongs
  <2>1. StartFetchPlaylist \/ SendCurrentSongPosition \/ Ignore => UNCHANGED server
    BY DEF StartFetchPlaylist, SendCurrentSongPosition, Ignore
  <2>2. ClearPlaylist \/ AddSong \/ MoveSong \/ SwapSongs \/ StartPlayback \/ SkipToSong
          => Head(requests).op # "remove"
    BY DEF ClearPlaylist, AddSong, MoveSong, SwapSongs, StartPlayback, SkipToSong, Receives
  <2> QED BY <1>5, <2>1, <2>2 DEF ServeStep
<1>6. CASE RemoveSongs
  <2> DEFINE songs == Head(requests).songs
             gone == {i \in 1..Len(songs) : songs[i] \notin SongsIn(server.list)}
             removed == {songs[i] : i \in {j \in 1..Len(songs) : \A k \in gone : j < k}}
  <2>1. removed \subseteq chosen
    <3>1. removed \subseteq SongsIn(songs)
      BY DEF SongsIn
    <3>2. SongsIn(songs) \subseteq chosen
      <4>1. 1 \in 1..Len(requests)
        BY <1>2
      <4> QED BY <1>2, <4>1 DEF RequestsChosen
    <3> QED BY <3>1, <3>2
  <2>2. CASE UNCHANGED server
    BY <2>2
  <2>3. CASE ~UNCHANGED server
    <3>1. \E kept \in InOrder(OthersIn(server.list, removed)) :
            Listing(SongsAt(server.list, kept))
      BY <1>6, <2>3 DEF RemoveSongs, OthersIn, SongsAt
    <3> HIDE DEF removed
    <3>2. PICK kept \in InOrder(OthersIn(server.list, removed)) :
            Listing(SongsAt(server.list, kept))
      BY <3>1
    <3>3. /\ SongsAt(server.list, kept) \in Seq(Songs)
          /\ SongsIn(server.list) \ SongsIn(SongsAt(server.list, kept)) \subseteq removed
      BY <1>1, KeptTypes
    <3>4. server'.list = SongsAt(server.list, kept)
      BY <1>1, <3>2, <3>3, ListingType
    <3> QED BY <2>1, <3>3, <3>4
  <2> QED BY <2>2, <2>3
<1> QED
  BY <1>4, <1>5, <1>6

(* Theremin removes no song from the server's playlist that the user did   *)
(* not see in a selected row, however the list has changed meanwhile.      *)
THEOREM RemovesOnlyChosenAlways == Spec => RemovesOnlyChosen
<1>1. Init => RequestsChosen
  BY DEF Init, RequestsChosen
<1>2. Typed /\ RequestsChosen /\ [Next]_vars => RequestsChosen'
  BY NextRequestsChosen
<1>3. Typed /\ RequestsChosen /\ [Next]_vars =>
        [requests # <<>> /\ requests' = Tail(requests) /\ Head(requests).op = "remove" =>
           SongsIn(server.list) \ SongsIn(server'.list) \subseteq chosen]_vars
  BY RemoveStep
<1> QED
  BY <1>1, <1>2, <1>3, TypedAlways, PTL DEF Spec, RemovesOnlyChosen

-----------------------------------------------------------------------------
(* The list follows: once the client thread knows the server's version and *)
(* nothing is left that says or asks so, the last list fetched, which is   *)
(* shown or on its way to be, is the server's.                             *)

\* What the client thread knows is no newer than the server, and forgotten
\* with the connection.
VersionsKnown ==
  /\ client.playlist # None => client.playlist <= server.version
  /\ ~Connected => client.playlist = None

NoChangeUnderway ==
  /\ Connected
  /\ ~mDisallowPlaylistUpdates
  /\ client.playlist = server.version
  /\ ~(client.at = "callback" /\ "playlist" \in client.changed)
  /\ ~HasName(mainQueue, "PlaylistChanged")
  /\ ~Asks(requests)

LastListIsCurrent == NoChangeUnderway => LastIs(mainQueue, mPlayList, server.list)

(* What queues of requests ask for, after a send and after a serve.        *)
LEMMA AsksFacts ==
  /\ \A q : IsSequence(q) /\ q # <<>> /\ Asks(q) =>
       Head(q).op = "fetch" \/ Asks(Tail(q))
  /\ \A q, t : IsSequence(q) /\ IsSequence(t) =>
       (Asks(q \o t) <=> Asks(q) \/ Asks(t))
<1>1. ASSUME NEW q, IsSequence(q), q # <<>>, Asks(q), Head(q).op # "fetch"
      PROVE  Asks(Tail(q))
  <2> DEFINE t == Tail(q)
  <2>1. /\ Len(q) \in Nat \ {0}
        /\ Len(t) = Len(q) - 1
        /\ Head(q) = q[1]
        /\ \A i \in 1..Len(q) - 1 : t[i] = q[i + 1]
    BY <1>1, TailFacts
  <2> HIDE DEF t
  <2>2. PICK i \in 1..Len(q) : q[i].op = "fetch"
    BY <1>1 DEF Asks
  <2>3. i - 1 \in 1..Len(t) /\ t[i - 1] = q[i]
    BY <1>1, <2>1, <2>2
  <2>4. Asks(t)
    BY <2>2, <2>3 DEF Asks
  <2> QED BY <2>4 DEF t
<1>2. ASSUME NEW q, NEW t, IsSequence(q), IsSequence(t)
      PROVE  Asks(q \o t) <=> Asks(q) \/ Asks(t)
  <2> DEFINE c == q \o t
  <2>1. /\ Len(q) \in Nat
        /\ Len(t) \in Nat
        /\ Len(c) = Len(q) + Len(t)
        /\ \A i \in 1..Len(q) : c[i] = q[i]
        /\ \A i \in 1..Len(t) : c[Len(q) + i] = t[i]
    BY <1>2, ConcatFacts
  <2> HIDE DEF c
  <2>2. ASSUME NEW i \in 1..Len(t), t[i].op = "fetch"
        PROVE  Asks(c)
    <3>1. Len(q) + i \in 1..Len(c) /\ c[Len(q) + i] = t[i]
      BY <2>1
    <3> QED BY <2>2, <3>1 DEF Asks
  <2>3. ASSUME NEW i \in 1..Len(c), c[i].op = "fetch", i > Len(q)
        PROVE  Asks(t)
    <3>1. i - Len(q) \in 1..Len(t) /\ t[i - Len(q)] = c[i]
      BY <2>1, <2>3
    <3> QED BY <2>3, <3>1 DEF Asks
  <2>4. Asks(q) => Asks(c)
    <3>1. \A i \in 1..Len(q) : i \in 1..Len(c)
      BY <2>1
    <3> QED BY <2>1, <3>1 DEF Asks
  <2>5. ASSUME NEW i \in 1..Len(c), c[i].op = "fetch", ~(i > Len(q))
        PROVE  Asks(q)
    <3>1. i \in 1..Len(q)
      BY <2>1, <2>5
    <3> QED BY <2>1, <2>5, <3>1 DEF Asks
  <2>6. Asks(t) => Asks(c)
    BY <2>2 DEF Asks
  <2>7. Asks(c) => Asks(q) \/ Asks(t)
    BY <2>3, <2>5 DEF Asks
  <2> QED BY <2>4, <2>6, <2>7 DEF c
<1> QED
  BY <1>1, <1>2

\* Requests that are sent do not take back that a list is asked for.
LEMMA SendsAsks ==
  ASSUME Typed, UNCHANGED requests \/ SendsChosen
  PROVE  Asks(requests) => Asks(requests')
<1>1. IsSequence(requests)
  BY DEF Typed, IsSequence
<1>2. ASSUME SendsChosen, Asks(requests)
      PROVE  Asks(requests')
  <2>1. PICK t : IsSequence(t) /\ requests' = requests \o t
    BY <1>2 DEF SendsChosen
  <2>2. Asks(requests \o t)
    BY <1>1, <1>2, <2>1, AsksFacts
  <2> QED BY <2>1, <2>2
<1>3. UNCHANGED requests /\ Asks(requests) => Asks(requests')
  BY Zenon
<1> QED
  BY <1>2, <1>3

(* Asking for the playlist asks.                                           *)
LEMMA FetchAsks ==
  ASSUME Typed
  PROVE  /\ Sends(<<[op |-> "fetch"]>>) => Asks(requests')
         /\ Sends(<<[op |-> "fetch"], [op |-> "send position"]>>) => Asks(requests')
<1> DEFINE f == [op |-> "fetch"]
           p == [op |-> "send position"]
<1>1. IsSequence(requests)
  BY DEF Typed, IsSequence
<1>2. f.op = "fetch"
  OBVIOUS
<1> HIDE DEF f, p
<1>3. <<f>> \in Seq({f}) /\ Len(<<f>>) = 1 /\ <<f>>[1] = f
  OBVIOUS
<1>4. <<f, p>> \in Seq({f, p}) /\ Len(<<f, p>>) = 2 /\ <<f, p>>[1] = f
  OBVIOUS
<1>5. IsSequence(<<f>>) /\ Asks(<<f>>)
  <2>1. \E i \in 1..Len(<<f>>) : <<f>>[i] = f
    BY <1>3
  <2> QED BY <1>2, <1>3, <2>1, Zenon DEF IsSequence, Asks
<1>6. IsSequence(<<f, p>>) /\ Asks(<<f, p>>)
  <2>1. \E i \in 1..Len(<<f, p>>) : <<f, p>>[i] = f
    BY <1>4
  <2> QED BY <1>2, <1>4, <2>1, Zenon DEF IsSequence, Asks
<1>7. Asks(requests \o <<f>>) /\ Asks(requests \o <<f, p>>)
  BY <1>1, <1>5, <1>6, AsksFacts
<1> QED
  BY <1>7 DEF Sends, f, p

(* A poll that finds a new version has a callback that says so.            *)
LEMMA UpdateStatusEffects ==
  ASSUME Typed, UpdateStatus
  PROVE  /\ Connected
         /\ client.at # "callback"
         /\ client'.link = client.link
         /\ client'.playlist = server.version
         /\ UNCHANGED mainQueue
         /\ client.playlist # server.version =>
              client'.at = "callback" /\ "playlist" \in client'.changed
<1>1. client \in Client
  BY DEF Typed
<1> DEFINE changes == (IF client.playlist # server.version THEN {"playlist"} ELSE {})
                        \cup (IF client.song # server.current THEN {"song"} ELSE {})
                        \cup (IF client.position # StatusPosition THEN {"position"} ELSE {})
<1>2. PICK calls \in BOOLEAN :
        /\ changes # {} => calls
        /\ client' = [client EXCEPT
               !.at = IF calls THEN "callback" ELSE "idle",
               !.playlist = server.version,
               !.song = server.current,
               !.position = StatusPosition,
               !.current = CurrentAfter(changes),
               !.playing = calls /\ server.playing,
               !.changed = changes]
  BY DEF UpdateStatus
<1>3. client.playlist # server.version => "playlist" \in changes
  OBVIOUS
<1>4. /\ client.at \in {"idle", "update"} /\ Connected /\ UNCHANGED mainQueue
  BY DEF UpdateStatus
<1> DEFINE playing == calls /\ server.playing
           current == CurrentAfter(changes)
           at == IF calls THEN "callback" ELSE "idle"
           position == StatusPosition
<1>5. client' = [client EXCEPT !.at = at, !.playlist = server.version,
                    !.song = server.current, !.position = position,
                    !.current = current, !.playing = playing, !.changed = changes]
  BY <1>2
<1>6. changes # {} => at = "callback"
  BY <1>2
<1> HIDE DEF changes, playing, current, at, position
<1>7. /\ client'.link = client.link /\ client'.playlist = server.version
      /\ client'.at = at /\ client'.changed = changes
  BY <1>1, <1>5 DEF Client
<1> QED
  BY <1>3, <1>4, <1>6, <1>7

\* The other steps of the timer leave what is known of the server.
LEMMA TimerClientEffects ==
  ASSUME Typed
  PROVE  /\ UpdateNothing => client'.link = client.link /\ client'.playlist = client.playlist
         /\ CallbackStatusChanged =>
              client'.link = client.link /\ client'.playlist = client.playlist
         /\ NoticeLoss => client'.link = "down" /\ client'.playlist = client.playlist
         /\ LoseConnection => client'.link = "lost" /\ client'.playlist = None
         /\ Reconnect => client'.link = "up" /\ client'.playlist = client.playlist
<1>1. client \in Client
  BY DEF Typed
<1>2. UpdateNothing => client'.link = client.link /\ client'.playlist = client.playlist
  BY <1>1 DEF UpdateNothing, Client
<1>3. CallbackStatusChanged =>
        client'.link = client.link /\ client'.playlist = client.playlist
  <2>1. CallbackStatusChanged =>
          \E current : client' = [client EXCEPT !.at = "idle", !.current = current,
                           !.playing = FALSE, !.changed = {}, !.forced = FALSE]
    BY DEF CallbackStatusChanged
  <2> QED BY <1>1, <2>1 DEF Client
<1>4. NoticeLoss => client'.link = "down" /\ client'.playlist = client.playlist
  BY <1>1 DEF NoticeLoss, Client
<1>5. LoseConnection => client'.link = "lost" /\ client'.playlist = None
  BY <1>1 DEF LoseConnection, Disconnected, Client
<1>6. Reconnect => client'.link = "up" /\ client'.playlist = client.playlist
  BY <1>1 DEF Reconnect, Client
<1> QED
  BY <1>2, <1>3, <1>4, <1>5, <1>6

\* A callback posts no list, and that the playlist has changed if it has.
PostsChanges ==
  \E t : /\ IsSequence(t) /\ mainQueue' = mainQueue \o t
         /\ \A i \in 1..Len(t) : t[i].name \in {"PlaylistChanged", "CurrentSong"}
         /\ ~HasName(t, "FetchedPlaylist")
         /\ "playlist" \in client.changed => HasName(t, "PlaylistChanged")

(* The callback posts no list, and "playlist changed" when it has to.      *)
LEMMA CallbackPosts ==
  ASSUME Typed, CallbackStatusChanged
  PROVE  PostsChanges
<1> DEFINE what == client.changed \cup (IF client.forced THEN {"position"} ELSE {})
           current == IF what \subseteq {"playlist"} THEN client.current ELSE CurrentSong
           position == IF current = None THEN None ELSE current.position
           told(change, notification) == IF change \in what THEN <<notification>> ELSE <<>>
           P == [name |-> "PlaylistChanged"]
           S == [name |-> "CurrentSong", position |-> position]
           a == told("playlist", P)
           b == told("position", S)
           c == told("song", S)
<1>1. mainQueue' = mainQueue \o (a \o b \o c)
  BY DEF CallbackStatusChanged, Post
<1>2. P.name = "PlaylistChanged" /\ S.name = "CurrentSong"
  OBVIOUS
<1>3. "playlist" \in client.changed => a = <<P>>
  OBVIOUS
<1>4. a \in {<<>>, <<P>>} /\ b \in {<<>>, <<S>>} /\ c \in {<<>>, <<S>>}
  OBVIOUS
<1> HIDE DEF a, b, c, P, S, what, current, position
<1>5. /\ IsSequence(<<P>>) /\ IsSequence(<<S>>) /\ IsSequence(<<>>)
      /\ \A name : /\ HasName(<<P>>, name) <=> name = "PlaylistChanged"
                   /\ HasName(<<S>>, name) <=> name = "CurrentSong"
                   /\ ~HasName(<<>>, name)
  <2>1. <<>> \in Seq({}) /\ 1..Len(<<>>) = {}
    OBVIOUS
  <2>2. IsSequence(<<>>) /\ \A name : ~HasName(<<>>, name)
    BY <2>1 DEF IsSequence, HasName
  <2>3. ASSUME NEW n
        PROVE  IsSequence(<<n>>) /\ \A name : HasName(<<n>>, name) <=> n.name = name
    BY SingleFacts
  <2>4. IsSequence(<<P>>) /\ \A name : HasName(<<P>>, name) <=> name = "PlaylistChanged"
    BY <1>2, <2>3
  <2>5. IsSequence(<<S>>) /\ \A name : HasName(<<S>>, name) <=> name = "CurrentSong"
    BY <1>2, <2>3
  <2> QED BY <2>2, <2>4, <2>5
<1>6. IsSequence(a) /\ IsSequence(b) /\ IsSequence(c)
  BY <1>4, <1>5
<1> DEFINE d == a \o b
           t == d \o c
<1>7. IsSequence(d) /\ \A name : HasName(d, name) <=> HasName(a, name) \/ HasName(b, name)
  BY <1>6, ConcatFacts, ConcatNames
<1> HIDE DEF d
<1>8. IsSequence(t) /\ \A name : HasName(t, name) <=> HasName(d, name) \/ HasName(c, name)
  BY <1>6, <1>7, ConcatFacts, ConcatNames
<1>9. mainQueue' = mainQueue \o t
  BY <1>1 DEF d
<1> HIDE DEF t
<1>10. \A name : HasName(t, name) => name \in {"PlaylistChanged", "CurrentSong"}
  BY <1>4, <1>5, <1>7, <1>8
<1>11. \A i \in 1..Len(t) : t[i].name \in {"PlaylistChanged", "CurrentSong"}
  BY <1>10 DEF HasName
<1>12. ~HasName(t, "FetchedPlaylist")
  BY <1>10
<1>13. "playlist" \in client.changed => HasName(t, "PlaylistChanged")
  BY <1>3, <1>5, <1>7, <1>8
<1> QED
  BY <1>8, <1>9, <1>11, <1>12, <1>13 DEF PostsChanges

(* Every step keeps what libmpd knows of the version behind the server.    *)
LEMMA NextVersionsKnown ==
  ASSUME Typed, VersionsKnown, [Next]_vars
  PROVE  VersionsKnown'
<1>1. /\ server.version \in Nat /\ client.playlist \in {None} \cup Nat
      /\ client.link \in {"up", "lost", "down"}
  BY DEF Typed, Server, Client
<1>2. ASSUME ServerEffect \/ UNCHANGED server, client'.link = client.link,
             client'.playlist = client.playlist
      PROVE  VersionsKnown'
  BY <1>1, <1>2 DEF ServerEffect, VersionsKnown, Connected
<1>3. UNCHANGED client => client'.link = client.link /\ client'.playlist = client.playlist
  OBVIOUS
<1>4. CASE TimerStep
  <2>1. UNCHANGED server
    BY <1>4, TimerStepEffects
  <2>2. CASE UpdateStatus
    BY <1>1, <2>1, <2>2, UpdateStatusEffects DEF VersionsKnown, Connected
  <2>3. CASE UpdateNothing \/ CallbackStatusChanged
    BY <1>2, <2>1, <2>3, TimerClientEffects
  <2>4. CASE NoticeLoss
    BY <2>1, <2>4, TimerClientEffects DEF VersionsKnown, Connected, NoticeLoss
  <2> QED BY <1>4, <2>2, <2>3, <2>4 DEF TimerStep
<1>5. CASE LoseConnection
  BY <1>5, TimerClientEffects DEF VersionsKnown
<1>6. CASE Reconnect
  BY <1>6, TimerClientEffects DEF VersionsKnown, Connected, Reconnect
<1>7. CASE ServeStep
  BY <1>2, <1>7, ServeStepEffects
<1>8. CASE ServerStep
  BY <1>2, <1>3, <1>8, ServerStepEffects
<1>9. CASE UserStep
  <2>1. ServerEffect
    BY <1>9, UserStepEffects DEF ServerEffect
  <2> QED BY <1>2, <1>3, <1>9, <2>1, UserStepEffects
<1>10. CASE MainStep
  BY <1>2, <1>3, <1>10, MainStepEffects
<1>11. CASE UNCHANGED vars
  BY <1>2, <1>3, <1>11 DEF vars
<1> QED
  BY <1>4, <1>5, <1>6, <1>7, <1>8, <1>9, <1>10, <1>11 DEF Next

(* Every step keeps the last list that of the server, or a change under way.*)
LEMMA NextLastListIsCurrent ==
  ASSUME Typed, VersionsKnown, LastListIsCurrent, [Next]_vars
  PROVE  LastListIsCurrent'
<1>1. /\ IsSequence(mainQueue) /\ IsSequence(requests)
      /\ server.version \in Nat /\ client.playlist \in {None} \cup Nat
  BY DEF Typed, Server, Client, IsSequence
<1>2. SUFFICES ASSUME NoChangeUnderway'
               PROVE  LastIs(mainQueue', mPlayList', server'.list)
  BY DEF LastListIsCurrent
<1>3. /\ Connected' /\ ~mDisallowPlaylistUpdates'
      /\ client'.playlist = server'.version
      /\ ~(client'.at = "callback" /\ "playlist" \in client'.changed)
      /\ ~HasName(mainQueue', "PlaylistChanged") /\ ~Asks(requests')
  BY <1>2 DEF NoChangeUnderway
<1>4. ASSUME ServerEffect, client'.playlist = client.playlist
      PROVE  server'.list = server.list /\ client.playlist = server.version
  BY <1>1, <1>3, <1>4, NoneAssumption DEF ServerEffect, VersionsKnown
<1>5. CASE ServeStep
  <2>1. UNCHANGED mDisallowPlaylistUpdates /\ UNCHANGED mPlayList
    BY <1>5, ServeStepEffects DEF mainVars, tableVars, randomizeVars
  <2>2. server'.list = server.list /\ client.playlist = server.version
    BY <1>4, <1>5, ServeStepEffects
  <2>3. Connected
    BY <1>3, <1>5, ServeStepEffects DEF Connected
  <2>4. CASE Head(requests).op = "fetch"
    <3> DEFINE n == [name |-> "FetchedPlaylist", songs |-> server.list]
    <3>1. mainQueue' = mainQueue \o <<n>>
      BY <1>5, <2>3, <2>4, ServeStepEffects DEF Post
    <3>2. LastIs(mainQueue \o <<n>>, mPlayList, server.list)
      BY <1>1, LastAfterFetch
    <3> HIDE DEF n
    <3> QED BY <2>1, <2>2, <3>1, <3>2
  <2>5. CASE Head(requests).op # "fetch"
    <3>1. UNCHANGED mainQueue
      BY <1>5, <2>5, ServeStepEffects
    <3>2. ~Asks(requests)
      <4>1. requests # <<>> /\ requests' = Tail(requests)
        BY <1>5, ServeStepEffects
      <4>2. ~Asks(Tail(requests))
        BY <1>3, <4>1
      <4> QED BY <1>1, <2>5, <4>1, <4>2, AsksFacts
    <3>3. ~HasName(mainQueue, "PlaylistChanged")
      BY <1>3, <3>1
    <3>4. client.at # "callback"
      BY <1>5, ServeStepEffects
    <3>5. NoChangeUnderway
      BY <1>3, <2>1, <2>2, <2>3, <3>2, <3>3, <3>4 DEF NoChangeUnderway
    <3> QED BY <2>1, <2>2, <3>1, <3>5 DEF LastListIsCurrent
  <2> QED BY <2>4, <2>5
<1>6. CASE TimerStep
  <2>1. UNCHANGED <<mDisallowPlaylistUpdates, mPlayList, requests, server>>
    BY <1>6, TimerStepEffects DEF mainVars, tableVars, randomizeVars
  <2>2. CASE UpdateStatus
    <3>1. client.playlist = server.version
      BY <1>3, <2>2, UpdateStatusEffects
    <3>2. UNCHANGED mainQueue /\ Connected /\ client.at # "callback"
      BY <2>2, UpdateStatusEffects
    <3>3. ~HasName(mainQueue, "PlaylistChanged") /\ ~Asks(requests)
      BY <1>3, <2>1, <3>2
    <3>4. NoChangeUnderway
      BY <1>3, <2>1, <3>1, <3>2, <3>3 DEF NoChangeUnderway
    <3> QED BY <2>1, <3>2, <3>4 DEF LastListIsCurrent
  <2>3. CASE UpdateNothing \/ NoticeLoss
    <3>1. ~Connected'
      BY <2>3, TimerClientEffects DEF Connected, UpdateNothing
    <3> QED BY <1>3, <3>1
  <2>4. CASE CallbackStatusChanged
    <3>1. client'.link = client.link /\ client'.playlist = client.playlist
      BY <2>4, TimerClientEffects
    <3>2. PICK t : /\ IsSequence(t) /\ mainQueue' = mainQueue \o t
                   /\ \A i \in 1..Len(t) : t[i].name \in {"PlaylistChanged", "CurrentSong"}
                   /\ ~HasName(t, "FetchedPlaylist")
                   /\ "playlist" \in client.changed => HasName(t, "PlaylistChanged")
      BY <2>4, CallbackPosts DEF PostsChanges
    <3>3. /\ ~HasName(mainQueue, "PlaylistChanged") /\ ~HasName(t, "PlaylistChanged")
      BY <1>1, <1>3, <3>2, ConcatNames
    <3>4. Connected /\ client.playlist = server.version /\ ~Asks(requests)
      BY <1>3, <2>1, <3>1 DEF Connected
    <3>5. NoChangeUnderway
      BY <1>3, <2>1, <3>2, <3>3, <3>4 DEF NoChangeUnderway
    <3>6. LastIs(mainQueue \o t, mPlayList, server.list)
      BY <1>1, <3>2, <3>5, LastAfterPost DEF LastListIsCurrent
    <3> QED BY <2>1, <3>2, <3>6
  <2> QED BY <1>6, <2>2, <2>3, <2>4 DEF TimerStep
<1>7. CASE LoseConnection
  BY <1>3, <1>7, TimerClientEffects DEF Connected
<1>8. CASE Reconnect
  <2>1. client'.playlist = None /\ UNCHANGED server
    BY <1>8, TimerClientEffects DEF VersionsKnown, Connected, Reconnect
  <2> QED BY <1>1, <1>3, <2>1, NoneAssumption
<1>9. CASE ServerStep
  <2>1. UNCHANGED <<mDisallowPlaylistUpdates, mPlayList, requests, client, mainQueue>>
    BY <1>9, ServerStepEffects DEF mainVars, tableVars, randomizeVars
  <2>2. server'.list = server.list /\ client.playlist = server.version
    BY <1>4, <1>9, <2>1, ServerStepEffects
  <2>3. NoChangeUnderway
    BY <1>3, <2>1, <2>2 DEF NoChangeUnderway, Connected
  <2> QED BY <2>1, <2>2, <2>3 DEF LastListIsCurrent
<1>10. CASE UserStep
  <2>1. /\ UNCHANGED <<mPlayList, client, mainQueue>> /\ ~mDisallowPlaylistUpdates
        /\ server'.list = server.list /\ server'.version = server.version
    BY <1>10, UserStepEffects
  <2>2. ~Asks(requests)
    BY <1>3, <1>10, UserStepEffects, SendsAsks
  <2>3. NoChangeUnderway
    BY <1>3, <2>1, <2>2 DEF NoChangeUnderway, Connected
  <2> QED BY <2>1, <2>3 DEF LastListIsCurrent
<1>11. CASE MainStep
  <2>1. UNCHANGED <<client, server>> /\ ~Asks(requests)
    BY <1>3, <1>11, MainStepEffects, SendsAsks
  <2>2. Connected /\ client.playlist = server.version
        /\ ~(client.at = "callback" /\ "playlist" \in client.changed)
    BY <1>3, <2>1 DEF Connected
  <2>3. ~AskForPlaylist
    BY <1>3, <2>2, AskForPlaylistEffects, FetchAsks
  <2>4. ASSUME NEW name, Arrives(name), name # "PlaylistChanged",
               ~mDisallowPlaylistUpdates
        PROVE  LastIs(mainQueue, mPlayList, server.list)
    <3>1. mainQueue # <<>> /\ mainQueue' = Tail(mainQueue) /\ Head(mainQueue).name = name
      BY <2>4 DEF Arrives
    <3>2. ~HasName(mainQueue, "PlaylistChanged")
      BY <1>1, <1>3, <2>4, <3>1, TailNames
    <3>3. NoChangeUnderway
      BY <2>1, <2>2, <2>4, <3>2 DEF NoChangeUnderway
    <3> QED BY <3>3 DEF LastListIsCurrent
  <2>5. CASE HandlePlaylistChanged
    BY <1>3, <2>3, <2>5 DEF HandlePlaylistChanged, randomizeVars
  <2>6. CASE HandleDisconnected
    BY <1>3, <2>3, <2>6 DEF HandleDisconnected, randomizeVars
  <2>7. CASE HandleFetchedPlaylist
    <3>1. /\ Arrives("FetchedPlaylist") /\ ~mDisallowPlaylistUpdates
          /\ UpdateAfterNewSongs(Head(mainQueue).songs)
      BY <1>3, <2>7 DEF HandleFetchedPlaylist, randomizeVars
    <3>2. LastIs(mainQueue, mPlayList, server.list)
      BY <2>4, <3>1
    <3>3. mPlayList' = Head(mainQueue).songs
      BY <3>1 DEF UpdateAfterNewSongs
    <3>4. /\ mainQueue # <<>> /\ mainQueue' = Tail(mainQueue)
          /\ Head(mainQueue).name = "FetchedPlaylist"
      BY <3>1 DEF Arrives
    <3>5. LastIs(Tail(mainQueue), Head(mainQueue).songs, server.list)
      BY <1>1, <3>2, <3>4, LastAfterTail
    <3> QED BY <2>1, <3>3, <3>4, <3>5
  <2>8. CASE HandleCurrentSong
    <3>1. /\ Arrives("CurrentSong") /\ ~mDisallowPlaylistUpdates /\ UNCHANGED mPlayList
      BY <1>3, <2>8 DEF HandleCurrentSong, randomizeVars
    <3>2. LastIs(mainQueue, mPlayList, server.list)
      BY <2>4, <3>1
    <3>3. /\ mainQueue # <<>> /\ mainQueue' = Tail(mainQueue)
          /\ Head(mainQueue).name # "FetchedPlaylist"
      BY <3>1 DEF Arrives
    <3>4. LastIs(Tail(mainQueue), mPlayList, server.list)
      BY <1>1, <3>2, <3>3, LastAfterTail
    <3> QED BY <2>1, <3>1, <3>3, <3>4
  <2>9. ASSUME NEW j, SwapNext(j)
        PROVE  FALSE
    BY <1>3, <2>9 DEF SwapNext
  <2>10. CASE EndRandomize
    BY <1>3, <2>2, <2>10, FetchAsks DEF EndRandomize
  <2> QED BY <1>11, <2>5, <2>6, <2>7, <2>8, <2>9, <2>10 DEF MainStep
<1>12. CASE UNCHANGED vars
  <2>1. UNCHANGED <<mDisallowPlaylistUpdates, mPlayList, requests, client, mainQueue, server>>
    BY <1>12 DEF vars, mainVars, tableVars, randomizeVars
  <2>2. NoChangeUnderway
    BY <1>3, <2>1 DEF NoChangeUnderway, Connected
  <2> QED BY <2>1, <2>2 DEF LastListIsCurrent
<1> QED
  BY <1>5, <1>6, <1>7, <1>8, <1>9, <1>10, <1>11, <1>12 DEF Next

(* The table shows the server's playlist once all notifications are        *)
(* handled, for any songs, commands, losses and other clients in between.  *)
THEOREM ListFollowsAlways == Spec => []ListFollows
<1>1. Init => VersionsKnown
  BY DEF Init, VersionsKnown, Connected
<1>2. Typed /\ VersionsKnown /\ [Next]_vars => VersionsKnown'
  BY NextVersionsKnown
<1>3. Init => LastListIsCurrent
  <2>1. ASSUME Init
        PROVE  ~NoChangeUnderway
    BY <2>1, NoneAssumption DEF Init, NoChangeUnderway
  <2> QED BY <2>1 DEF LastListIsCurrent
<1>4. Typed /\ VersionsKnown /\ LastListIsCurrent /\ [Next]_vars => LastListIsCurrent'
  BY NextLastListIsCurrent
<1>5. LastListIsCurrent => ListFollows
  <2> SUFFICES ASSUME LastListIsCurrent, Quiet
               PROVE  mPlayList = server.list
    BY DEF ListFollows
  <2>1. mainQueue = <<>> /\ requests = <<>> /\ client.at = "idle"
    BY DEF Quiet, Drained
  <2>2. ~HasName(<<>>, "PlaylistChanged") /\ ~HasName(<<>>, "FetchedPlaylist") /\ ~Asks(<<>>)
    <3>1. 1..Len(<<>>) = {}
      OBVIOUS
    <3> QED BY <3>1 DEF HasName, Asks
  <2>3. NoChangeUnderway
    BY <2>1, <2>2 DEF Quiet, NoChangeUnderway
  <2>4. LastIs(<<>>, mPlayList, server.list)
    BY <2>1, <2>3 DEF LastListIsCurrent
  <2> QED BY <2>2, <2>4 DEF LastIs
<1> QED
  BY <1>1, <1>2, <1>3, <1>4, <1>5, TypedAlways, PTL DEF Spec

-----------------------------------------------------------------------------
(* Without a connection: what was fetched before the loss was announced is *)
(* replaced by nothing, and what was fetched afterwards is nothing.        *)

EmptyListsWhenDown ==
  client.link = "down" =>
    /\ EmptyAfterLoss(mainQueue)
    /\ ~HasName(mainQueue, "Disconnected") /\ ~mDisallowPlaylistUpdates =>
         mPlayList \in {None, <<>>}

(* Every step keeps empty what was fetched after the loss.                 *)
LEMMA NextEmptyListsWhenDown ==
  ASSUME Typed, EmptyListsWhenDown, [Next]_vars
  PROVE  EmptyListsWhenDown'
<1>1. IsSequence(mainQueue)
  BY DEF Typed, IsSequence
<1>2. SUFFICES ASSUME client'.link = "down"
               PROVE  /\ EmptyAfterLoss(mainQueue')
                      /\ ~HasName(mainQueue', "Disconnected") /\ ~mDisallowPlaylistUpdates' =>
                           mPlayList' \in {None, <<>>}
  BY DEF EmptyListsWhenDown
<1>3. ASSUME client.link = "down",
             UNCHANGED <<mainQueue, mPlayList, mDisallowPlaylistUpdates>>
      PROVE  EmptyListsWhenDown'
  BY <1>3 DEF EmptyListsWhenDown
<1>4. ASSUME client.link = "down", UNCHANGED <<mPlayList, mDisallowPlaylistUpdates>>,
             NEW t, IsSequence(t), mainQueue' = mainQueue \o t,
             \A i \in 1..Len(t) : t[i].name = "FetchedPlaylist" => t[i].songs = <<>>
      PROVE  EmptyListsWhenDown'
  <2>1. EmptyAfterLoss(mainQueue \o t)
    BY <1>1, <1>4, EmptyAfterPost DEF EmptyListsWhenDown
  <2>2. HasName(mainQueue, "Disconnected") => HasName(mainQueue \o t, "Disconnected")
    BY <1>1, <1>4, ConcatNames
  <2> QED BY <1>4, <2>1, <2>2 DEF EmptyListsWhenDown
<1>5. ASSUME client.link = "down", NEW name, Arrives(name)
      PROVE  /\ EmptyAfterLoss(mainQueue')
             /\ name # "Disconnected" /\ ~HasName(mainQueue', "Disconnected") =>
                  ~HasName(mainQueue, "Disconnected")
             /\ name = "FetchedPlaylist" /\ ~HasName(mainQueue', "Disconnected") =>
                  Head(mainQueue).songs = <<>>
  <2>1. mainQueue # <<>> /\ mainQueue' = Tail(mainQueue) /\ Head(mainQueue).name = name
    BY <1>5 DEF Arrives
  <2> DEFINE t == Tail(mainQueue)
  <2>2. /\ EmptyAfterLoss(t)
        /\ Head(mainQueue).name = "FetchedPlaylist" /\ ~HasName(t, "Disconnected") =>
             Head(mainQueue).songs = <<>>
    BY <1>1, <1>5, <2>1, EmptyAfterTail DEF EmptyListsWhenDown
  <2>3. HasName(mainQueue, "Disconnected") /\ Head(mainQueue).name # "Disconnected" =>
          HasName(t, "Disconnected")
    BY <1>1, <2>1, TailNames
  <2>4. mainQueue' = t
    BY <2>1
  <2> HIDE DEF t
  <2> QED BY <2>1, <2>2, <2>3, <2>4
<1>6. client.link = "down" => ~Connected
  BY DEF Connected
<1>7. ASSUME client.link = "down", AskForPlaylist
      PROVE  mPlayList' = None
  BY <1>6, <1>7, AskForPlaylistEffects
<1>8. CASE ServeStep
  <2>1. client.link = "down" /\ UNCHANGED <<mPlayList, mDisallowPlaylistUpdates>>
    BY <1>2, <1>8, ServeStepEffects DEF mainVars, tableVars, randomizeVars
  <2>2. CASE Head(requests).op = "fetch"
    <3> DEFINE n == [name |-> "FetchedPlaylist", songs |-> <<>>]
    <3>1. mainQueue' = mainQueue \o <<n>>
      BY <1>6, <1>8, <2>1, <2>2, ServeStepEffects DEF Post
    <3>2. n.songs = <<>>
      OBVIOUS
    <3> HIDE DEF n
    <3>3. IsSequence(<<n>>) /\ \A i \in 1..Len(<<n>>) : <<n>>[i] = n
      <4>1. <<n>> \in Seq({n}) /\ \A i \in 1..Len(<<n>>) : <<n>>[i] = n
        OBVIOUS
      <4> QED BY <4>1 DEF IsSequence
    <3>4. EmptyListsWhenDown'
      BY <1>4, <2>1, <3>1, <3>2, <3>3
    <3> QED BY <1>2, <3>4 DEF EmptyListsWhenDown
  <2>3. CASE Head(requests).op # "fetch"
    <3>1. UNCHANGED mainQueue
      BY <1>8, <2>3, ServeStepEffects
    <3> QED BY <1>2, <1>3, <2>1, <3>1 DEF EmptyListsWhenDown
  <2> QED BY <2>2, <2>3
<1>9. CASE TimerStep
  <2>1. UNCHANGED <<mPlayList, mDisallowPlaylistUpdates>>
    BY <1>9, TimerStepEffects DEF mainVars, tableVars, randomizeVars
  <2>2. CASE UpdateStatus
    BY <1>2, <2>2, UpdateStatusEffects DEF Connected
  <2>3. CASE UpdateNothing
    <3>1. client.link = "down" /\ UNCHANGED mainQueue
      BY <1>2, <2>3, TimerClientEffects DEF UpdateNothing
    <3> QED BY <1>2, <1>3, <2>1, <3>1 DEF EmptyListsWhenDown
  <2>4. CASE CallbackStatusChanged
    <3>1. client.link = "down"
      BY <1>2, <2>4, TimerClientEffects
    <3>2. PICK t : /\ IsSequence(t) /\ mainQueue' = mainQueue \o t
                   /\ \A i \in 1..Len(t) : t[i].name \in {"PlaylistChanged", "CurrentSong"}
      BY <2>4, CallbackPosts DEF PostsChanges
    <3>3. \A i \in 1..Len(t) : t[i].name = "FetchedPlaylist" => t[i].songs = <<>>
      BY <3>2
    <3>4. EmptyListsWhenDown'
      BY <1>4, <2>1, <3>1, <3>2, <3>3
    <3> QED BY <1>2, <3>4 DEF EmptyListsWhenDown
  <2>5. CASE NoticeLoss
    <3> DEFINE n == [name |-> "Disconnected"]
    <3>1. mainQueue' = mainQueue \o <<n>>
      BY <2>5 DEF NoticeLoss, Post
    <3>2. n.name = "Disconnected"
      OBVIOUS
    <3> HIDE DEF n
    <3>3. IsSequence(<<n>>) /\ HasName(<<n>>, "Disconnected")
          /\ \A i \in 1..Len(<<n>>) : <<n>>[i] = n
      <4>1. <<n>> \in Seq({n}) /\ \A i \in 1..Len(<<n>>) : <<n>>[i] = n
        OBVIOUS
      <4> QED BY <3>2, <4>1, SingleFacts DEF IsSequence
    <3>4. EmptyAfterLoss(mainQueue \o <<n>>)
      BY <1>1, <3>2, <3>3, EmptyAfterPost
    <3>5. HasName(mainQueue \o <<n>>, "Disconnected")
      BY <1>1, <3>3, ConcatNames
    <3> QED BY <3>1, <3>4, <3>5
  <2> QED BY <1>9, <2>2, <2>3, <2>4, <2>5 DEF TimerStep
<1>10. CASE LoseConnection \/ Reconnect
  BY <1>2, <1>10, TimerClientEffects
<1>11. CASE ServerStep
  <2>1. client.link = "down" /\ UNCHANGED <<mainQueue, mPlayList, mDisallowPlaylistUpdates>>
    BY <1>2, <1>11, ServerStepEffects DEF mainVars, tableVars, randomizeVars
  <2> QED BY <1>2, <1>3, <2>1 DEF EmptyListsWhenDown
<1>12. CASE UserStep
  <2>1. /\ client.link = "down" /\ UNCHANGED <<mainQueue, mPlayList>>
        /\ ~mDisallowPlaylistUpdates
    BY <1>2, <1>12, UserStepEffects
  <2> QED BY <2>1 DEF EmptyListsWhenDown
<1>13. CASE MainStep
  <2>1. client.link = "down"
    BY <1>2, <1>13, MainStepEffects
  <2>2. CASE HandlePlaylistChanged
    <3>1. Arrives("PlaylistChanged") /\ UNCHANGED mDisallowPlaylistUpdates
      BY <2>2 DEF HandlePlaylistChanged, randomizeVars
    <3>2. mDisallowPlaylistUpdates \/ mPlayList' = None
      BY <1>7, <2>1, <2>2 DEF HandlePlaylistChanged
    <3> QED BY <1>5, <2>1, <3>1, <3>2
  <2>3. CASE HandleDisconnected
    <3>1. Arrives("Disconnected") /\ UNCHANGED mDisallowPlaylistUpdates
      BY <2>3 DEF HandleDisconnected, randomizeVars
    <3>2. mDisallowPlaylistUpdates \/ mPlayList' = None
      BY <1>7, <2>1, <2>3 DEF HandleDisconnected
    <3> QED BY <1>5, <2>1, <3>1, <3>2
  <2>4. CASE HandleFetchedPlaylist
    <3>1. Arrives("FetchedPlaylist") /\ UNCHANGED mDisallowPlaylistUpdates
      BY <2>4 DEF HandleFetchedPlaylist, randomizeVars
    <3>2. mDisallowPlaylistUpdates \/ mPlayList' = Head(mainQueue).songs
      BY <2>4 DEF HandleFetchedPlaylist, UpdateAfterNewSongs
    <3> QED BY <1>5, <2>1, <3>1, <3>2
  <2>5. CASE HandleCurrentSong
    <3>1. Arrives("CurrentSong") /\ UNCHANGED <<mDisallowPlaylistUpdates, mPlayList>>
      BY <2>5 DEF HandleCurrentSong, randomizeVars
    <3> QED BY <1>5, <2>1, <3>1 DEF EmptyListsWhenDown
  <2>6. ASSUME NEW j, SwapNext(j)
        PROVE  EmptyListsWhenDown'
    <3>1. UNCHANGED <<mainQueue, mPlayList, mDisallowPlaylistUpdates>>
      BY <2>6 DEF SwapNext, tableVars
    <3> QED BY <1>3, <2>1, <3>1
  <2>7. CASE EndRandomize
    <3>1. UNCHANGED mainQueue /\ mPlayList' = None
      BY <1>6, <2>1, <2>7 DEF EndRandomize
    <3> QED BY <2>1, <3>1 DEF EmptyListsWhenDown
  <2> QED BY <1>2, <1>13, <2>2, <2>3, <2>4, <2>5, <2>6, <2>7
          DEF MainStep, EmptyListsWhenDown
<1>14. CASE UNCHANGED vars
  <2>1. client.link = "down" /\ UNCHANGED <<mainQueue, mPlayList, mDisallowPlaylistUpdates>>
    BY <1>2, <1>14 DEF vars, mainVars, tableVars, randomizeVars
  <2> QED BY <1>2, <1>3, <2>1 DEF EmptyListsWhenDown
<1> QED
  BY <1>8, <1>9, <1>10, <1>11, <1>12, <1>13, <1>14 DEF Next

(* Without a connection the table keeps no list, once all notifications    *)
(* are handled, whatever was fetched, sent or randomized when it was lost: *)
(* it shows no rows but those of a search, and of these it deletes none.   *)
THEOREM NoListWhenLostAlways == Spec => []NoListWhenLost
<1>1. Init => EmptyListsWhenDown
  BY DEF Init, EmptyListsWhenDown
<1>2. Typed /\ EmptyListsWhenDown /\ [Next]_vars => EmptyListsWhenDown'
  BY NextEmptyListsWhenDown
<1>3. EmptyListsWhenDown => NoListWhenLost
  <2> SUFFICES ASSUME EmptyListsWhenDown, client.link = "down", mainQueue = <<>>,
                      ~mDisallowPlaylistUpdates
               PROVE  /\ mPlayList \in {None, <<>>}
                      /\ mFilteredPlaylist = None => Rows(mPlayList, mFilteredPlaylist) = {}
                      /\ SelectedRows = {}
    BY DEF NoListWhenLost
  <2>1. 1..Len(<<>>) = {} /\ 1..0 = {}
    OBVIOUS
  <2>2. ~HasName(<<>>, "Disconnected")
    BY <2>1 DEF HasName
  <2>3. mPlayList \in {None, <<>>}
    BY <2>2 DEF EmptyListsWhenDown
  <2>4. mFilteredPlaylist = None => Rows(mPlayList, mFilteredPlaylist) = {}
    BY <2>1, <2>3 DEF Rows
  <2>5. SelectedRows = {}
    <3>1. 1..(IF mPlayList = None THEN 0 ELSE Len(mPlayList)) = {}
      BY <2>1, <2>3
    <3> QED BY <3>1 DEF SelectedRows
  <2> QED BY <2>3, <2>4, <2>5
<1> QED
  BY <1>1, <1>2, <1>3, TypedAlways, PTL DEF Spec


-----------------------------------------------------------------------------
(* The marker: the last position of the current song that was posted is    *)
(* the one the client thread knows, unless a callback is still to post it. *)

(* The last position told, in the queue or shown, is position.             *)
LastPositionIs(q, marker, position) ==
  /\ \A i \in 1..Len(q) :
       q[i].name = "CurrentSong" /\ ~HasNameAfter(q, "CurrentSong", i) =>
         q[i].position = position
  /\ ~HasName(q, "CurrentSong") => marker = position

(* The last position stays what it was while the queue is handled.         *)
LEMMA LastPositionTail ==
  ASSUME NEW q, IsSequence(q), q # <<>>, NEW marker, NEW position,
         LastPositionIs(q, marker, position)
  PROVE  /\ Head(q).name # "CurrentSong" => LastPositionIs(Tail(q), marker, position)
         /\ Head(q).name = "CurrentSong" =>
              LastPositionIs(Tail(q), Head(q).position, position)
<1> DEFINE t == Tail(q)
           C == "CurrentSong"
<1>1. /\ Len(q) \in Nat \ {0}
      /\ Len(t) = Len(q) - 1
      /\ Head(q) = q[1]
      /\ \A i \in 1..Len(q) - 1 : t[i] = q[i + 1]
  BY TailFacts
<1>2. /\ HasName(q, C) /\ Head(q).name # C => HasName(t, C)
      /\ \A i \in 1..Len(q) - 1 : HasNameAfter(t, C, i) <=> HasNameAfter(q, C, i + 1)
      /\ HasNameAfter(q, C, 1) <=> HasName(t, C)
  BY TailNames
<1> HIDE DEF t
<1>3. ASSUME NEW i \in 1..Len(t), t[i].name = C, ~HasNameAfter(t, C, i)
      PROVE  t[i].position = position
  <2>1. i + 1 \in 1..Len(q) /\ q[i + 1] = t[i] /\ ~HasNameAfter(q, C, i + 1)
    BY <1>1, <1>2, <1>3
  <2> QED BY <2>1, <1>3 DEF LastPositionIs
<1>4. ASSUME ~HasName(t, C), Head(q).name = C
      PROVE  Head(q).position = position
  <2>1. 1 \in 1..Len(q) /\ q[1].name = C /\ ~HasNameAfter(q, C, 1)
    BY <1>1, <1>2, <1>4
  <2> QED BY <2>1, <1>1 DEF LastPositionIs
<1>5. ASSUME ~HasName(t, C), Head(q).name # C
      PROVE  marker = position
  BY <1>2, <1>5 DEF LastPositionIs
<1> QED
  BY <1>3, <1>4, <1>5 DEF LastPositionIs, t

(* Posts that tell this position, or none, leave it the last one.          *)
LEMMA LastPositionPost ==
  ASSUME NEW q, NEW t, IsSequence(q), IsSequence(t), NEW marker, NEW position,
         HasName(t, "CurrentSong") \/ LastPositionIs(q, marker, position),
         \A i \in 1..Len(t) : t[i].name = "CurrentSong" => t[i].position = position
  PROVE  LastPositionIs(q \o t, marker, position)
<1> DEFINE c == q \o t
           C == "CurrentSong"
<1>1. /\ Len(q) \in Nat
      /\ Len(t) \in Nat
      /\ Len(c) = Len(q) + Len(t)
      /\ \A i \in 1..Len(q) : c[i] = q[i]
      /\ \A i \in 1..Len(t) : c[Len(q) + i] = t[i]
  BY ConcatFacts
<1>2. /\ HasName(q, C) \/ HasName(t, C) => HasName(c, C)
      /\ \A i \in 1..Len(q) :
           HasNameAfter(q, C, i) \/ HasName(t, C) => HasNameAfter(c, C, i)
  BY ConcatNames
<1> HIDE DEF c
<1>3. ASSUME NEW i \in 1..Len(c), c[i].name = C, ~HasNameAfter(c, C, i)
      PROVE  c[i].position = position
  <2>1. CASE i > Len(q)
    <3>1. i - Len(q) \in 1..Len(t) /\ t[i - Len(q)] = c[i]
      BY <1>1, <2>1
    <3> QED BY <3>1, <1>3
  <2>2. CASE i \in 1..Len(q)
    BY <1>1, <1>2, <1>3, <2>2 DEF LastPositionIs
  <2> QED BY <1>1, <2>1, <2>2
<1> QED
  BY <1>2, <1>3 DEF LastPositionIs, c

(* The song that the server plays is in its list, and it goes on playing   *)
(* unless the player stops.                                                *)
CurrentIsListed ==
  /\ server.current # None => server.current \in SongsIn(server.list)
  /\ server.playing => server.current # None
  /\ spent["stops"] = 0 /\ server.current # None => server.playing

(* Stops are never forgotten.                                              *)
LEMMA SpendStops ==
  ASSUME HistoryOK, NEW b \in Bounded, Spend(b)
  PROVE  spent'["stops"] = 0 => spent["stops"] = 0 /\ b # "stops"
<1>1. spent \in [Bounded -> Nat] /\ "stops" \in Bounded
  BY DEF HistoryOK, Bounded
<1>2. b = "stops" => spent'["stops"] = spent["stops"] + 1
  BY <1>1 DEF Spend
<1>3. b # "stops" => spent'["stops"] = spent["stops"]
  BY <1>1 DEF Spend
<1> QED
  BY <1>1, <1>2, <1>3

(* A server with another list plays a song of it, or it had none or lost   *)
(* the last.                                                               *)
LEMMA ListingCurrent ==
  ASSUME server \in Server, NEW list \in Seq(Songs), Listing(list), CurrentIsListed,
         spent'["stops"] = 0 => spent["stops"] = 0
  PROVE  CurrentIsListed'
<1>1. /\ server'.list = list /\ server'.current \in SongsIn(list) \cup {None}
      /\ server'.current = None => ~server'.playing
      /\ server.playing /\ list # <<>> => server'.playing
      /\ server.current = None => server'.current = None
  BY DEF Listing
<1>2. server'.current # None => list # <<>>
  <2>1. SongsIn(<<>>) = {}
    BY DEF SongsIn
  <2> QED BY <1>1, <2>1
<1> QED
  BY <1>1, <1>2 DEF CurrentIsListed

(* So does a server that is told to play a song of its list.               *)
LEMMA PlayingCurrent ==
  ASSUME server \in Server, NEW song \in SongsIn(server.list), song # None, Playing(song)
  PROVE  CurrentIsListed'
<1>1. server'.list = server.list /\ server'.current = song /\ server'.playing
  BY DEF Playing, Server
<1> QED
  BY <1>1 DEF CurrentIsListed

(* A request does what the client is asked for with the current song.      *)
LEMMA ServeStepCurrent ==
  ASSUME Typed, CurrentIsListed, ServeStep
  PROVE  CurrentIsListed'
<1>1. /\ server \in Server /\ server.list \in Seq(Songs) /\ Len(server.list) \in Nat
      /\ \A i \in 1..Len(server.list) : server.list[i] \in Songs
  <2>1. server \in Server /\ server.list \in Seq(Songs)
    BY DEF Typed, Server
  <2> QED BY <2>1, LenProperties, ElementOfSeq
<1>2. UNCHANGED spent
  BY ServeStepEffects DEF historyVars
<1>3. UNCHANGED server => CurrentIsListed'
  BY <1>2 DEF CurrentIsListed
<1>4. \A list \in Seq(Songs) : Listing(list) => CurrentIsListed'
  BY <1>1, <1>2, ListingCurrent
<1>5. \A song \in SongsIn(server.list) : Playing(song) => CurrentIsListed'
  BY <1>1, PlayingCurrent, SongsAssumption DEF SongsIn
<1>6. CASE StartFetchPlaylist \/ SendCurrentSongPosition \/ Ignore
  BY <1>3, <1>6 DEF StartFetchPlaylist, SendCurrentSongPosition, Ignore
<1>7. CASE ClearPlaylist
  <2>1. server'.current = None /\ server'.playing = FALSE
    BY <1>1, <1>7 DEF ClearPlaylist, Server
  <2> QED BY <2>1 DEF CurrentIsListed
<1>8. CASE AddSong
  <2> DEFINE song == Head(requests).song
  <2>1. /\ server'.list = Append(server.list, song) /\ server'.current = server.current
        /\ server'.playing = server.playing
    BY <1>1, <1>8 DEF AddSong, Server
  <2>2. song \in Songs
    BY <1>8, ReceivesTypes, RequestFields DEF AddSong
  <2>3. SongsIn(server.list) \subseteq SongsIn(Append(server.list, song))
    <3>1. /\ Len(Append(server.list, song)) = Len(server.list) + 1
          /\ \A i \in 1..Len(server.list) : Append(server.list, song)[i] = server.list[i]
      BY <1>1, <2>2, AppendProperties
    <3> QED BY <1>1, <3>1 DEF SongsIn
  <2> QED BY <1>2, <2>1, <2>3 DEF CurrentIsListed
<1>9. CASE RemoveSongs
  <2>1. CASE ~UNCHANGED server
    <3>1. PICK removed : \E kept \in InOrder(OthersIn(server.list, removed)) :
                           Listing(SongsAt(server.list, kept))
      BY <1>9, <2>1 DEF RemoveSongs, OthersIn, SongsAt
    <3> QED BY <1>1, <1>4, <3>1, KeptTypes
  <2> QED BY <1>3, <2>1
<1>10. CASE MoveSong
  <2>1. CASE ~UNCHANGED server
    <3>1. PICK i, j \in 1..Len(server.list) : Listing(Moved(server.list, i, j))
      BY <1>10, <2>1 DEF MoveSong
    <3> QED BY <1>1, <1>4, <3>1, EditTypes
  <2> QED BY <1>3, <2>1
<1>11. CASE SwapSongs
  <2>1. CASE ~UNCHANGED server
    <3> DEFINE i == PositionIn(server.list, Head(requests).song)
               j == PositionIn(server.list, Head(requests).other)
    <3>1. i # None /\ j # None /\ Listing(Swapped(server.list, i, j))
      BY <1>11, <2>1 DEF SwapSongs
    <3>2. i \in 1..Len(server.list) /\ j \in 1..Len(server.list)
      BY <1>1, <3>1, PositionFacts
    <3> HIDE DEF i, j
    <3> QED BY <1>1, <1>4, <3>1, <3>2, EditTypes
  <2> QED BY <1>3, <2>1
<1>12. CASE StartPlayback
  <2>1. CASE server.list # <<>>
    <3> DEFINE song == IF server.current = None THEN server.list[1] ELSE server.current
    <3>1. Playing(song)
      BY <1>12, <2>1 DEF StartPlayback
    <3>2. song \in SongsIn(server.list)
      <4>1. 1 \in 1..Len(server.list)
        BY <1>1, <2>1
      <4> QED BY <4>1 DEF SongsIn, CurrentIsListed
    <3> HIDE DEF song
    <3> QED BY <1>5, <3>1, <3>2
  <2> QED BY <1>3, <1>12, <2>1 DEF StartPlayback
<1>13. CASE SkipToSong
  BY <1>3, <1>5, <1>13 DEF SkipToSong
<1> QED
  BY <1>6, <1>7, <1>8, <1>9, <1>10, <1>11, <1>12, <1>13 DEF ServeStep

(* Others stop the player only by a stop, and change the list under a      *)
(* callback only in a race.                                                *)
LEMMA ServerStepCurrent ==
  ASSUME Typed, CurrentIsListed, ServerStep
  PROVE  /\ CurrentIsListed'
         /\ spent'["stops"] = 0 => spent["stops"] = 0
         /\ raced => raced'
         /\ client.at = "callback" /\ ~raced' =>
              server'.list = server.list /\ server'.version = server.version
<1>1. server \in Server /\ server.list \in Seq(Songs) /\ HistoryOK
  BY DEF Typed, Server
<1>2. /\ "edits" \in Bounded /\ "stops" \in Bounded
  BY DEF Bounded
<1>3. ASSUME NEW i \in 1..Len(server.list), NEW j \in 1..Len(server.list), OthersMove(i, j)
      PROVE  /\ CurrentIsListed' /\ (raced \/ client.at = "callback" => raced')
             /\ spent'["stops"] = 0 => spent["stops"] = 0
  <2>1. spent'["stops"] = 0 => spent["stops"] = 0
    BY <1>1, <1>2, <1>3, SpendStops DEF OthersMove
  <2> QED BY <1>1, <1>3, <2>1, EditTypes, ListingCurrent DEF OthersMove
<1>4. ASSUME NEW i \in 1..Len(server.list), OthersRemove(i)
      PROVE  /\ CurrentIsListed' /\ (raced \/ client.at = "callback" => raced')
             /\ spent'["stops"] = 0 => spent["stops"] = 0
  <2>1. spent'["stops"] = 0 => spent["stops"] = 0
    BY <1>1, <1>2, <1>4, SpendStops DEF OthersRemove
  <2> QED BY <1>1, <1>4, <2>1, EditTypes, ListingCurrent DEF OthersRemove
<1>5. ASSUME NEW song \in SongsIn(server.list), PlaysOther(song)
      PROVE  /\ CurrentIsListed' /\ (raced => raced')
             /\ spent'["stops"] = 0 => spent["stops"] = 0
             /\ server'.list = server.list /\ server'.version = server.version
  <2>1. spent'["stops"] = 0 => spent["stops"] = 0
    BY <1>1, <1>2, <1>5, SpendStops DEF PlaysOther
  <2>2. song \in Songs /\ song # None
    BY <1>1, ElementOfSeq, SongsAssumption DEF SongsIn
  <2> QED BY <1>1, <1>5, <2>1, <2>2, PlayingCurrent, PlayingType DEF PlaysOther
<1>6. ASSUME PlayerStops
      PROVE  /\ CurrentIsListed' /\ (raced => raced')
             /\ spent'["stops"] = 0 => spent["stops"] = 0
             /\ server'.list = server.list /\ server'.version = server.version
  <2>1. spent'["stops"] # 0 /\ (spent'["stops"] = 0 => spent["stops"] = 0)
    BY <1>1, <1>2, <1>6, SpendStops DEF PlayerStops
  <2>2. /\ server'.list = server.list /\ server'.version = server.version
        /\ server'.current = server.current /\ ~server'.playing
    BY <1>1, <1>6 DEF PlayerStops, Server
  <2> QED BY <1>6, <2>1, <2>2 DEF CurrentIsListed, PlayerStops
<1> QED
  BY <1>3, <1>4, <1>5, <1>6 DEF ServerStep

(* A poll learns the server's current song and where it is in the list.    *)
LEMMA UpdateStatusLearns ==
  ASSUME Typed, UpdateStatus
  PROVE  /\ client'.song = server.current
         /\ client'.position = StatusPosition
         /\ client'.current =
              IF client.playlist # server.version THEN None ELSE client.current
         /\ client'.at \in {"idle", "callback"}
         /\ client'.forced = client.forced
         /\ client'.at = "callback" => client'.playing = server.playing
         /\ client.song # server.current \/ client.position # StatusPosition =>
              /\ client'.at = "callback"
              /\ client'.changed \cap {"song", "position"} # {}
<1>1. client \in Client /\ server.playing \in BOOLEAN
  BY DEF Typed, Server
<1> DEFINE changes == (IF client.playlist # server.version THEN {"playlist"} ELSE {})
                        \cup (IF client.song # server.current THEN {"song"} ELSE {})
                        \cup (IF client.position # StatusPosition THEN {"position"} ELSE {})
<1>2. PICK calls \in BOOLEAN :
        /\ changes # {} => calls
        /\ client' = [client EXCEPT
               !.at = IF calls THEN "callback" ELSE "idle",
               !.playlist = server.version,
               !.song = server.current,
               !.position = StatusPosition,
               !.current = CurrentAfter(changes),
               !.playing = calls /\ server.playing,
               !.changed = changes]
  BY DEF UpdateStatus
<1>3. /\ "playlist" \in changes <=> client.playlist # server.version
      /\ client.song # server.current \/ client.position # StatusPosition =>
           changes \cap {"song", "position"} # {}
  OBVIOUS
<1> DEFINE playing == calls /\ server.playing
           current == CurrentAfter(changes)
           at == IF calls THEN "callback" ELSE "idle"
           position == StatusPosition
<1>4. client' = [client EXCEPT !.at = at, !.playlist = server.version,
                    !.song = server.current, !.position = position,
                    !.current = current, !.playing = playing, !.changed = changes]
  BY <1>2
<1>5. at = "callback" => playing = server.playing
  BY <1>1
<1>6. at \in {"idle", "callback"} /\ (changes # {} => at = "callback")
  BY <1>2
<1>7. current = IF client.playlist # server.version THEN None ELSE client.current
  BY <1>3 DEF CurrentAfter
<1> HIDE DEF changes, playing, current, at
<1>8. /\ client'.song = server.current /\ client'.position = position
      /\ client'.current = current /\ client'.at = at /\ client'.forced = client.forced
      /\ client'.playing = playing /\ client'.changed = changes
  BY <1>1, <1>4 DEF Client
<1> QED
  BY <1>3, <1>5, <1>6, <1>7, <1>8

(* The other steps of the client and its connection forget what they do    *)
(* not keep.                                                               *)
LEMMA ClientKeeps ==
  ASSUME Typed,
         ServeStep \/ UpdateNothing \/ NoticeLoss \/ LoseConnection \/ Reconnect
  PROVE  /\ client'.song \in {client.song, "unknown"}
         /\ client'.song # "unknown" => client'.position = client.position
         /\ client'.current \in {client.current, None}
         /\ client'.at = "callback" => client.at = "callback" /\ client'.song = "unknown"
<1>1. client \in Client
  BY DEF Typed
<1>2. CASE UNCHANGED client /\ client.at # "callback"
  BY <1>2
<1>3. CASE GoesOn
  <2>1. client'.song = client.song /\ client'.position = client.position
        /\ client'.current = client.current /\ client'.at = "update"
    BY <1>1, <1>3 DEF GoesOn, Client
  <2> QED BY <2>1
<1>4. CASE ClearPlaylist
  <2>1. client'.song = "unknown" /\ client'.current = client.current /\ client'.at = "update"
    BY <1>1, <1>4 DEF ClearPlaylist, Client
  <2> QED BY <2>1
<1>5. CASE SendCurrentSongPosition
  <2>1. client'.song = client.song /\ client'.position = client.position
        /\ client'.current = client.current /\ client'.at = client.at
        /\ client.at = "idle"
    BY <1>1, <1>5 DEF SendCurrentSongPosition, Receives, Client
  <2> QED BY <2>1
<1>6. CASE UpdateNothing \/ NoticeLoss \/ Reconnect
  <2>1. client'.song = client.song /\ client'.position = client.position
        /\ client'.current = client.current /\ client'.at = "idle"
    BY <1>1, <1>6 DEF UpdateNothing, NoticeLoss, Reconnect, Client
  <2> QED BY <2>1
<1>7. CASE LoseConnection
  <2>1. client'.song = "unknown" /\ client'.current = None /\ client'.at = client.at
    BY <1>1, <1>7 DEF LoseConnection, Disconnected, Client
  <2> QED BY <2>1
<1>8. CASE ServeStep
  <2>1. client.at = "idle"
    BY <1>8, ServeStepEffects
  <2>2. GoesOn \/ ClearPlaylist \/ SendCurrentSongPosition \/ UNCHANGED client
    BY <1>8 DEF ServeStep, StartFetchPlaylist, Ignore, AddSong, RemoveSongs, MoveSong,
       SwapSongs, StartPlayback, SkipToSong
  <2> QED BY <1>2, <1>3, <1>4, <1>5, <2>1, <2>2
<1> QED
  BY <1>6, <1>7, <1>8

\* What libmpd keeps of the current song is right for the version it knows.
CachedIsRight ==
  client.current # None /\ client.playlist = server.version =>
    client.current.position = PositionIn(server.list, client.current.song)

\* A callback that no other client has raced knows the list, and a song that
\* is in it and is being played.
CallbackIsFresh ==
  client.at = "callback" /\ ~raced /\ client.song \in Songs =>
    /\ client.playlist = server.version
    /\ client.song \in SongsIn(server.list)
    /\ client.position = PositionIn(server.list, client.song)
    /\ spent["stops"] = 0 => client.playing

SongIsKnown == client.song \in Songs => Connected

\* The callback under way is going to tell the position.
Telling ==
  client.at = "callback" /\ (client.forced \/ client.changed \cap {"song", "position"} # {})

LastPositionIsKnown ==
  ~raced /\ spent["stops"] = 0 /\ client.song \in Songs /\ ~Telling =>
    LastPositionIs(mainQueue, mCurrentPlayingSongPosition, client.position)

MarkerInv ==
  /\ CurrentIsListed
  /\ CachedIsRight
  /\ CallbackIsFresh
  /\ SongIsKnown
  /\ LastPositionIsKnown

(* A song of the list has a position.                                      *)
LEMMA PositionOfListed ==
  ASSUME NEW list \in Seq(Songs), NEW song, IndicesOf(list, song) # {}
  PROVE  PositionIn(list, song) \in Nat /\ PositionIn(list, song) # None
<1>1. IndicesOf(list, song) \subseteq Nat
  BY DEF IndicesOf
<1>2. PositionIn(list, song) \in IndicesOf(list, song)
  BY DEF PositionIn
<1> QED
  BY <1>1, <1>2, NoneAssumption

\* A callback posts this position of the current song, and "playlist changed".
PostsPosition(position) ==
  \E t : /\ IsSequence(t) /\ mainQueue' = mainQueue \o t
         /\ \A i \in 1..Len(t) :
              \/ t[i].name = "PlaylistChanged"
              \/ t[i].name = "CurrentSong" /\ t[i].position = position

(* A callback tells the position that is known, or nothing of it.          *)
LEMMA CallbackTells ==
  ASSUME Typed, MarkerInv, CallbackStatusChanged
  PROVE  /\ client'.song = client.song /\ client'.position = client.position
         /\ client'.at = "idle"
         /\ CachedIsRight'
         /\ ~raced /\ spent["stops"] = 0 /\ client.song \in Songs =>
              /\ LastPositionIs(mainQueue', mCurrentPlayingSongPosition, client.position)
              /\ PostsPosition(client.position)
<1> DEFINE what == client.changed \cup (IF client.forced THEN {"position"} ELSE {})
           current == IF what \subseteq {"playlist"} THEN client.current ELSE CurrentSong
           position == IF current = None THEN None ELSE current.position
           told(change, notification) == IF change \in what THEN <<notification>> ELSE <<>>
           P == [name |-> "PlaylistChanged"]
           S == [name |-> "CurrentSong", position |-> position]
           a == told("playlist", P)
           b == told("position", S)
           c == told("song", S)
           there == PositionIn(server.list, client.song)
<1>0. /\ client \in Client /\ server.list \in Seq(Songs) /\ UNCHANGED server
      /\ client.at = "callback"
  BY DEF Typed, Server, CallbackStatusChanged
<1>1. mainQueue' = mainQueue \o (a \o b \o c)
  BY DEF CallbackStatusChanged, Post
<1>2. client' = [client EXCEPT !.at = "idle", !.current = current, !.playing = FALSE,
                               !.changed = {}, !.forced = FALSE]
  BY DEF CallbackStatusChanged
<1>3. \/ current = client.current
      \/ current = None
      \/ current = [song |-> client.song, position |-> there]
  BY DEF CurrentSong
<1>4. ASSUME ~(what \subseteq {"playlist"}), client.playing, client.song \in Songs,
             client.playlist = server.version, there # None
      PROVE  position = there
  <2>1. Connected
    BY <1>4 DEF MarkerInv, SongIsKnown
  <2> DEFINE cached == IF client.current # None /\ client.current.song = client.song
                       THEN client.current ELSE None
  <2>2. current = IF cached = None THEN [song |-> client.song, position |-> there]
                                   ELSE cached
    BY <1>4, <2>1 DEF CurrentSong
  <2>3. [song |-> client.song, position |-> there] # None
    <3>1. client.song \in Songs /\ there \in Nat
      BY <1>0, <1>4, PositionFacts
    <3> QED BY <3>1, NoneAssumption
  <2> HIDE DEF there
  <2>4. cached # None => cached.position = there
    BY <1>4 DEF MarkerInv, CachedIsRight, there
  <2> QED BY <2>2, <2>3, <2>4
<1>5. ~Telling <=> what \subseteq {"playlist"}
  <2>1. client.changed \subseteq Changes
    BY <1>0 DEF Client
  <2> QED BY <1>0, <2>1 DEF Telling, Changes
<1> HIDE DEF a, b, c, P, S, what, current, there, told
<1>6. /\ client'.song = client.song /\ client'.position = client.position
      /\ client'.at = "idle" /\ client'.current = current
      /\ client'.playlist = client.playlist
  BY <1>0, <1>2 DEF Client
<1>7. CachedIsRight'
  <2>1. CASE current = client.current
    BY <1>0, <1>6, <2>1 DEF MarkerInv, CachedIsRight
  <2>2. CASE current = None
    BY <1>6, <2>2 DEF CachedIsRight
  <2>3. CASE current = [song |-> client.song, position |-> there]
    <3>1. current.song = client.song /\ current.position = there
      BY <2>3
    <3> QED BY <1>0, <1>6, <3>1 DEF CachedIsRight, there
  <2> QED BY <1>3, <2>1, <2>2, <2>3
<1>8. /\ a \in {<<>>, <<P>>} /\ b \in {<<>>, <<S>>} /\ c \in {<<>>, <<S>>}
      /\ what \subseteq {"playlist"} => b = <<>> /\ c = <<>>
      /\ P.name = "PlaylistChanged"
      /\ S.name = "CurrentSong" /\ S.position = position
      /\ ~(what \subseteq {"playlist"}) => b = <<S>> \/ c = <<S>>
  <2>1. what \subseteq Changes
    BY <1>0 DEF Client, Changes, what
  <2> QED BY <2>1 DEF Changes, a, b, c, P, S, told
<1> HIDE DEF position
<1> DEFINE C == "CurrentSong"
<1>9. ASSUME NEW n
      PROVE  /\ IsSequence(<<n>>)
             /\ \A i \in 1..Len(<<n>>) : <<n>>[i] = n
             /\ HasName(<<n>>, C) <=> n.name = C
  <2>1. Len(<<n>>) = 1 /\ <<n>>[1] = n
    OBVIOUS
  <2> QED BY <2>1, SingleFacts
<1>10. IsSequence(<<>>) /\ Len(<<>>) = 0 /\ ~HasName(<<>>, C)
  <2>1. <<>> \in Seq({}) /\ Len(<<>>) = 0 /\ 1..0 = {}
    OBVIOUS
  <2> QED BY <2>1 DEF IsSequence, HasName
<1> DEFINE d == a \o b
           t == d \o c
           Tells(s) == \A i \in 1..Len(s) :
                         \/ s[i].name = "PlaylistChanged"
                         \/ s[i].name = C /\ s[i].position = position
<1>11. /\ IsSequence(a) /\ IsSequence(b) /\ IsSequence(c)
       /\ Tells(a) /\ Tells(b) /\ Tells(c)
  BY <1>8, <1>9, <1>10
<1>12. ASSUME NEW s, NEW u, IsSequence(s), IsSequence(u), Tells(s), Tells(u)
       PROVE  IsSequence(s \o u) /\ Tells(s \o u)
  <2> DEFINE v == s \o u
  <2>1. /\ IsSequence(v) /\ Len(s) \in Nat /\ Len(u) \in Nat
        /\ Len(v) = Len(s) + Len(u)
        /\ \A i \in 1..Len(s) : v[i] = s[i]
        /\ \A i \in 1..Len(u) : v[Len(s) + i] = u[i]
    BY <1>12, ConcatFacts
  <2> HIDE DEF v
  <2>2. ASSUME NEW i \in 1..Len(v)
        PROVE  \/ v[i].name = "PlaylistChanged"
               \/ v[i].name = C /\ v[i].position = position
    <3>1. CASE i > Len(s)
      <4>1. i - Len(s) \in 1..Len(u) /\ u[i - Len(s)] = v[i]
        BY <2>1, <3>1
      <4> QED BY <1>12, <4>1
    <3>2. CASE i \in 1..Len(s)
      BY <1>12, <2>1, <3>2
    <3> QED BY <2>1, <3>1, <3>2
  <2> QED BY <2>1, <2>2 DEF v
<1>13. IsSequence(d) /\ Tells(d)
  BY <1>11, <1>12
<1>14. HasName(d, C) <=> HasName(a, C) \/ HasName(b, C)
  BY <1>11, ConcatNames
<1> HIDE DEF d
<1>15. IsSequence(t) /\ Tells(t)
  BY <1>11, <1>12, <1>13
<1>16. HasName(t, C) <=> HasName(d, C) \/ HasName(c, C)
  BY <1>11, <1>13, ConcatNames
<1>17. mainQueue' = mainQueue \o t
  BY <1>1 DEF d
<1> HIDE DEF t
<1>18. ASSUME ~raced, spent["stops"] = 0, client.song \in Songs
       PROVE  /\ LastPositionIs(mainQueue \o t, mCurrentPlayingSongPosition, client.position)
              /\ PostsPosition(client.position)
  <2>1. IsSequence(mainQueue)
    BY DEF Typed, IsSequence
  <2>2. CASE what \subseteq {"playlist"}
    <3>1. ~HasName(a, C) /\ ~HasName(b, C) /\ ~HasName(c, C)
      BY <1>8, <1>9, <1>10, <2>2
    <3>2. ~HasName(t, C)
      BY <1>14, <1>16, <3>1
    <3>3. LastPositionIs(mainQueue, mCurrentPlayingSongPosition, client.position)
      BY <1>5, <1>18, <2>2 DEF MarkerInv, LastPositionIsKnown
    <3>4. \A i \in 1..Len(t) : t[i].name # C
      BY <3>2 DEF HasName
    <3> QED BY <1>15, <1>17, <2>1, <3>3, <3>4, LastPositionPost DEF PostsPosition
  <2>3. CASE ~(what \subseteq {"playlist"})
    <3>1. /\ client.playlist = server.version /\ client.playing
          /\ client.song \in SongsIn(server.list) /\ client.position = there
      BY <1>0, <1>18 DEF MarkerInv, CallbackIsFresh, there
    <3>2. there # None
      <4>1. IndicesOf(server.list, client.song) # {}
        BY <3>1 DEF SongsIn, IndicesOf
      <4> QED BY <1>0, <4>1, PositionOfListed DEF there
    <3>3. position = client.position
      BY <1>4, <1>18, <2>3, <3>1, <3>2
    <3>4. HasName(t, C)
      BY <1>8, <1>9, <1>14, <1>16, <2>3
    <3>5. \A i \in 1..Len(t) : \/ t[i].name = "PlaylistChanged"
                               \/ t[i].name = C /\ t[i].position = client.position
      BY <1>15, <3>3
    <3>6. LastPositionIs(mainQueue \o t, mCurrentPlayingSongPosition, client.position)
      BY <1>15, <2>1, <3>4, <3>5, LastPositionPost
    <3> QED BY <1>15, <1>17, <3>5, <3>6 DEF PostsPosition
  <2> QED BY <2>2, <2>3
<1> QED
  BY <1>6, <1>7, <1>17, <1>18

(* What users do with the server, and the history they make.               *)
LEMMA UserStepHistory ==
  ASSUME Typed, UserStep
  PROVE  /\ server'.current = server.current /\ server'.playing = server.playing
         /\ UNCHANGED mCurrentPlayingSongPosition
         /\ UNCHANGED raced
         /\ spent'["stops"] = 0 => spent["stops"] = 0
<1>1. server \in Server /\ HistoryOK
  BY DEF Typed
<1>2. ASSUME NEW kind \in {"selections", "searches", "commands"}, UserActs(kind)
      PROVE  /\ server'.current = server.current /\ server'.playing = server.playing
             /\ UNCHANGED raced
             /\ spent'["stops"] = 0 => spent["stops"] = 0
  <2>1. kind \in Bounded
    BY DEF Bounded
  <2> QED BY <1>1, <1>2, <2>1, SpendStops DEF UserActs
<1>3. ASSUME NEW song, AddsFresh(song)
      PROVE  /\ server'.current = server.current /\ server'.playing = server.playing
             /\ UNCHANGED raced
             /\ spent'["stops"] = 0 => spent["stops"] = 0
  <2>1. "commands" \in Bounded
    BY DEF Bounded
  <2> QED BY <1>1, <1>3, <2>1, SpendStops DEF AddsFresh, Server
<1>4. CASE \E rows \in SUBSET (1..NumberOfRows) : SelectRows(rows)
  BY <1>2, <1>4 DEF SelectRows, markerVars
<1>5. CASE \E songs \in Searches \cup {None} : Search(songs)
  BY <1>2, <1>5 DEF Search, markerVars
<1>6. CASE DeleteSelectedSongs
  BY <1>2, <1>6 DEF DeleteSelectedSongs, markerVars
<1>7. CASE \E row \in selected : PlaySelectedSong(row)
  BY <1>2, <1>7 DEF PlaySelectedSong, markerVars
<1>8. CASE \E row, above \in 1..NumberOfRows + 1 : DropRow(row, above)
  BY <1>2, <1>8 DEF DropRow, markerVars
<1>9. CASE \E song \in Fresh, above \in 1..NumberOfRows + 1 : DropSong(song, above)
  BY <1>3, <1>9 DEF DropSong, mainVars, markerVars
<1>10. CASE \E song \in Fresh : ReplaceFiles(song)
  BY <1>3, <1>10 DEF ReplaceFiles
<1>11. CASE RandomizePlaylist
  BY <1>2, <1>11 DEF RandomizePlaylist, markerVars
<1> QED
  BY <1>4, <1>5, <1>6, <1>7, <1>8, <1>9, <1>10, <1>11 DEF UserStep

(* The main thread's own steps make no history; what it does with the      *)
(* queue and the marker.                                                   *)
LEMMA MainStepMarker ==
  ASSUME Typed, MainStep
  PROVE  /\ UNCHANGED historyVars
         /\ \/ UNCHANGED <<mainQueue, mCurrentPlayingSongPosition>>
            \/ /\ mainQueue # <<>> /\ mainQueue' = Tail(mainQueue)
               /\ mCurrentPlayingSongPosition' =
                    IF Head(mainQueue).name = "CurrentSong"
                    THEN Head(mainQueue).position ELSE mCurrentPlayingSongPosition
<1>1. CASE HandlePlaylistChanged
  BY <1>1 DEF HandlePlaylistChanged, Arrives, markerVars
<1>2. CASE HandleDisconnected
  BY <1>2 DEF HandleDisconnected, Arrives
<1>3. CASE HandleFetchedPlaylist
  BY <1>3 DEF HandleFetchedPlaylist, Arrives
<1>4. CASE HandleCurrentSong
  BY <1>4 DEF HandleCurrentSong, Arrives
<1>5. CASE \E j \in 1..Cardinality(Songs) : SwapNext(j)
  BY <1>5 DEF SwapNext, markerVars
<1>6. CASE EndRandomize
  BY <1>6 DEF EndRandomize
<1> QED
  BY <1>1, <1>2, <1>3, <1>4, <1>5, <1>6 DEF MainStep

(* Every step keeps what is known of the current song.                     *)
LEMMA NextMarkerInv ==
  ASSUME Typed, VersionsKnown, MarkerInv, [Next]_vars
  PROVE  MarkerInv'
<1> USE DEF MarkerInv
<1>1. /\ client \in Client /\ server \in Server /\ server.version \in Nat
      /\ client.playlist \in {None} \cup Nat /\ IsSequence(mainQueue)
      /\ server.list \in Seq(Songs) /\ HistoryOK
  BY DEF Typed, Server, Client, IsSequence
<1>2. "unknown" \notin Songs
  BY SongsAssumption
<1>3. ASSUME ServerEffect, client'.playlist = client.playlist,
             client'.current \in {client.current, None}
      PROVE  CachedIsRight'
  <2> SUFFICES ASSUME client'.current # None, client'.playlist = server'.version
               PROVE  client'.current.position =
                        PositionIn(server'.list, client'.current.song)
    BY DEF CachedIsRight
  <2>1. server'.list = server.list /\ client.playlist = server.version
    BY <1>1, <1>3, NoneAssumption DEF ServerEffect, VersionsKnown
  <2> QED BY <1>3, <2>1 DEF CachedIsRight
<1>4. ASSUME UNCHANGED <<client, mainQueue, mCurrentPlayingSongPosition>>,
             raced => raced', spent'["stops"] = 0 => spent["stops"] = 0
      PROVE  LastPositionIsKnown' /\ SongIsKnown'
  BY <1>4 DEF LastPositionIsKnown, SongIsKnown, Telling, Connected
<1>5. ASSUME UNCHANGED <<client, server>>, UNCHANGED historyVars
      PROVE  CurrentIsListed' /\ CachedIsRight' /\ CallbackIsFresh' /\ SongIsKnown'
  BY <1>5 DEF historyVars, CurrentIsListed, CachedIsRight, CallbackIsFresh, SongIsKnown,
     Connected
<1>6. ASSUME UNCHANGED <<mCurrentPlayingSongPosition>>, UNCHANGED <<raced, spent>>,
             ~Telling,
             client'.song \in {client.song, "unknown"},
             client'.song # "unknown" => client'.position = client.position,
             NEW t, IsSequence(t), mainQueue' = mainQueue \o t,
             \A i \in 1..Len(t) : t[i].name # "CurrentSong"
      PROVE  LastPositionIsKnown'
  <2> SUFFICES ASSUME ~raced, spent["stops"] = 0, client'.song \in Songs
               PROVE  LastPositionIs(mainQueue', mCurrentPlayingSongPosition, client'.position)
    BY <1>6 DEF LastPositionIsKnown
  <2>1. client'.song = client.song /\ client'.position = client.position
    BY <1>2, <1>6
  <2>2. LastPositionIs(mainQueue, mCurrentPlayingSongPosition, client.position)
    BY <1>6, <2>1 DEF LastPositionIsKnown
  <2> QED BY <1>1, <1>6, <2>1, <2>2, LastPositionPost
<1>7. /\ IsSequence(<<>>) /\ mainQueue = mainQueue \o <<>> /\ Len(<<>>) = 0
      /\ \A n : n.name # "CurrentSong" =>
            IsSequence(<<n>>) /\ \A i \in 1..Len(<<n>>) : <<n>>[i].name # "CurrentSong"
  <2>1. <<>> \in Seq({}) /\ Len(<<>>) = 0
    OBVIOUS
  <2>2. mainQueue = mainQueue \o <<>>
    BY DEF Typed
  <2>3. ASSUME NEW n, n.name # "CurrentSong"
        PROVE  IsSequence(<<n>>) /\ \A i \in 1..Len(<<n>>) : <<n>>[i].name # "CurrentSong"
    BY <2>3, SingleFacts
  <2> QED BY <2>1, <2>2, <2>3 DEF IsSequence
<1>8. ASSUME UNCHANGED <<mCurrentPlayingSongPosition, mainQueue>>, UNCHANGED <<raced, spent>>,
             ~Telling,
             client'.song \in {client.song, "unknown"},
             client'.song # "unknown" => client'.position = client.position
      PROVE  LastPositionIsKnown'
  BY <1>2, <1>8 DEF LastPositionIsKnown
<1>9. CASE ServeStep
  <2>1. /\ client'.song \in {client.song, "unknown"}
        /\ client'.song # "unknown" => client'.position = client.position
        /\ client'.current \in {client.current, None}
    BY <1>9, ClientKeeps
  <2>2. /\ ServerEffect /\ client.at = "idle" /\ client'.at # "callback"
        /\ client'.link = client.link /\ client'.playlist = client.playlist
        /\ UNCHANGED <<raced, spent>> /\ UNCHANGED <<mCurrentPlayingSongPosition>>
    BY <1>9, ServeStepEffects DEF historyVars, mainVars, markerVars
  <2>3. CurrentIsListed'
    BY <1>9, ServeStepCurrent
  <2>4. CachedIsRight'
    BY <1>3, <2>1, <2>2
  <2>5. CallbackIsFresh'
    BY <2>2 DEF CallbackIsFresh
  <2>6. SongIsKnown'
    BY <1>2, <2>1, <2>2 DEF SongIsKnown, Connected
  <2>7. ~Telling
    BY <2>2 DEF Telling
  <2>8. LastPositionIsKnown'
    <3>1. CASE Head(requests).op = "fetch"
      <4> DEFINE n == [name |-> "FetchedPlaylist",
                       songs |-> IF Connected THEN server.list ELSE <<>>]
      <4>1. mainQueue' = mainQueue \o <<n>> /\ n.name # "CurrentSong"
        BY <1>9, <3>1, ServeStepEffects DEF Post
      <4> HIDE DEF n
      <4>2. IsSequence(<<n>>) /\ \A i \in 1..Len(<<n>>) : <<n>>[i].name # "CurrentSong"
        BY <1>7, <4>1
      <4> QED BY <1>6, <2>1, <2>2, <2>7, <4>1, <4>2
    <3>2. CASE Head(requests).op # "fetch"
      <4>1. UNCHANGED mainQueue
        BY <1>9, <3>2, ServeStepEffects
      <4> QED BY <1>8, <2>1, <2>2, <2>7, <4>1
    <3> QED BY <3>1, <3>2
  <2> QED BY <2>3, <2>4, <2>5, <2>6, <2>8
<1>10. CASE UpdateStatus
  <2>1. /\ client'.song = server.current /\ client'.position = StatusPosition
        /\ client'.current =
              IF client.playlist # server.version THEN None ELSE client.current
        /\ client'.at = "callback" => client'.playing = server.playing
        /\ client'.forced = client.forced
        /\ client.song # server.current \/ client.position # StatusPosition =>
              /\ client'.at = "callback"
              /\ client'.changed \cap {"song", "position"} # {}
    BY <1>10, UpdateStatusLearns
  <2>2. /\ Connected /\ client.at # "callback" /\ client'.link = client.link
        /\ client'.playlist = server.version
        /\ UNCHANGED <<mainQueue, server>> /\ UNCHANGED mCurrentPlayingSongPosition
        /\ UNCHANGED <<raced, spent>>
    BY <1>10, UpdateStatusEffects DEF UpdateStatus, historyVars, mainVars, markerVars
  <2>3. CurrentIsListed'
    BY <2>2 DEF CurrentIsListed
  <2>4. CachedIsRight'
    BY <2>1, <2>2 DEF CachedIsRight
  <2>5. CallbackIsFresh'
    <3> SUFFICES ASSUME client'.at = "callback", server.current \in Songs
                 PROVE  /\ server.current \in SongsIn(server.list)
                        /\ StatusPosition = PositionIn(server.list, server.current)
                        /\ spent["stops"] = 0 => server.playing
      BY <2>1, <2>2 DEF CallbackIsFresh
    <3>1. server.current # None
      BY SongsAssumption
    <3> QED BY <3>1 DEF CurrentIsListed, StatusPosition
  <2>6. SongIsKnown'
    BY <2>2 DEF SongIsKnown, Connected
  <2>7. LastPositionIsKnown'
    <3> SUFFICES ASSUME ~raced, spent["stops"] = 0, client'.song \in Songs, ~Telling'
                 PROVE  LastPositionIs(mainQueue, mCurrentPlayingSongPosition,
                                       client'.position)
      BY <2>2 DEF LastPositionIsKnown
    <3>1. client.song = server.current /\ client.position = StatusPosition
      BY <2>1 DEF Telling
    <3> QED BY <2>1, <2>2, <3>1 DEF LastPositionIsKnown, Telling
  <2> QED BY <2>3, <2>4, <2>5, <2>6, <2>7
<1>11. CASE CallbackStatusChanged
  <2>1. /\ client'.song = client.song /\ client'.position = client.position
        /\ client'.at = "idle" /\ CachedIsRight'
        /\ ~raced /\ spent["stops"] = 0 /\ client.song \in Songs =>
              LastPositionIs(mainQueue', mCurrentPlayingSongPosition, client.position)
    BY <1>11, CallbackTells
  <2>2. /\ client'.link = client.link
        /\ UNCHANGED server /\ UNCHANGED mCurrentPlayingSongPosition
        /\ UNCHANGED <<raced, spent>>
    BY <1>11, TimerClientEffects DEF CallbackStatusChanged, historyVars, mainVars, markerVars
  <2> QED BY <2>1, <2>2 DEF CurrentIsListed, CallbackIsFresh, SongIsKnown, Connected,
             LastPositionIsKnown
<1>12. CASE UpdateNothing \/ NoticeLoss \/ Reconnect
  <2>1. /\ client'.song \in {client.song, "unknown"}
        /\ client'.song # "unknown" => client'.position = client.position
        /\ client'.current \in {client.current, None}
        /\ client'.at = "callback" => client'.song = "unknown"
    BY <1>12, ClientKeeps
  <2>2. /\ UNCHANGED server /\ UNCHANGED <<raced, spent>> /\ UNCHANGED <<mCurrentPlayingSongPosition>>
        /\ client.at # "callback"
    BY <1>12 DEF UpdateNothing, NoticeLoss, Reconnect, historyVars, mainVars, markerVars
  <2>3. /\ client'.playlist = client.playlist /\ (Connected => client'.link = "up")
    BY <1>12, TimerClientEffects DEF NoticeLoss, UpdateNothing, Connected
  <2>4. CurrentIsListed' /\ CachedIsRight' /\ CallbackIsFresh' /\ SongIsKnown'
    <3>1. ServerEffect
      BY <2>2 DEF ServerEffect
    <3> QED BY <1>2, <1>3, <2>1, <2>2, <2>3, <3>1
            DEF CurrentIsListed, CallbackIsFresh, SongIsKnown, Connected
  <2>5. ~Telling
    BY <2>2 DEF Telling
  <2>6. LastPositionIsKnown'
    <3>1. CASE UNCHANGED mainQueue
      BY <1>8, <2>1, <2>2, <2>5, <3>1
    <3>2. CASE NoticeLoss
      <4> DEFINE n == [name |-> "Disconnected"]
      <4>1. mainQueue' = mainQueue \o <<n>> /\ n.name # "CurrentSong"
        BY <3>2 DEF NoticeLoss, Post
      <4> HIDE DEF n
      <4>2. IsSequence(<<n>>) /\ \A i \in 1..Len(<<n>>) : <<n>>[i].name # "CurrentSong"
        BY <1>7, <4>1
      <4> QED BY <1>6, <2>1, <2>2, <2>5, <4>1, <4>2
    <3> QED BY <1>12, <3>1, <3>2 DEF UpdateNothing, Reconnect
  <2> QED BY <2>4, <2>6
<1>13. CASE LoseConnection
  <2>1. client'.song = "unknown" /\ client'.current = None /\ UNCHANGED server
    BY <1>1, <1>13 DEF LoseConnection, Disconnected, Client
  <2>2. spent'["stops"] = 0 => spent["stops"] = 0
    <3>1. "losses" \in Bounded
      BY DEF Bounded
    <3> QED BY <1>1, <1>13, <3>1, SpendStops DEF LoseConnection
  <2> QED BY <1>2, <2>1, <2>2 DEF CurrentIsListed, CachedIsRight, CallbackIsFresh,
             SongIsKnown, LastPositionIsKnown
<1>14. CASE ServerStep
  <2>1. /\ CurrentIsListed' /\ (raced => raced')
        /\ spent'["stops"] = 0 => spent["stops"] = 0
        /\ client.at = "callback" /\ ~raced' =>
              server'.list = server.list /\ server'.version = server.version
    BY <1>14, ServerStepCurrent
  <2>2. /\ ServerEffect
        /\ UNCHANGED <<mainQueue, client>> /\ UNCHANGED mCurrentPlayingSongPosition
    BY <1>14, ServerStepEffects DEF mainVars, markerVars
  <2>3. CachedIsRight'
    BY <1>3, <2>2
  <2>4. CallbackIsFresh'
    BY <2>1, <2>2 DEF CallbackIsFresh
  <2> QED BY <1>4, <2>1, <2>2, <2>3, <2>4
<1>15. CASE UserStep
  <2>1. /\ server'.current = server.current /\ server'.playing = server.playing
        /\ UNCHANGED mCurrentPlayingSongPosition /\ UNCHANGED raced
        /\ spent'["stops"] = 0 => spent["stops"] = 0
    BY <1>15, UserStepHistory
  <2>2. /\ server'.list = server.list /\ server'.version = server.version
        /\ UNCHANGED <<mainQueue, client>>
    BY <1>15, UserStepEffects
  <2>3. CurrentIsListed'
    BY <2>1, <2>2 DEF CurrentIsListed
  <2>4. CachedIsRight' /\ CallbackIsFresh'
    BY <2>1, <2>2 DEF CachedIsRight, CallbackIsFresh
  <2> QED BY <1>4, <2>1, <2>2, <2>3, <2>4
<1>16. CASE MainStep
  <2>1. UNCHANGED <<client, server>> /\ UNCHANGED historyVars
    BY <1>16, MainStepEffects, MainStepMarker
  <2>2. LastPositionIsKnown'
    <3> SUFFICES ASSUME ~raced, spent["stops"] = 0, client.song \in Songs, ~Telling
                 PROVE  LastPositionIs(mainQueue', mCurrentPlayingSongPosition',
                                       client.position)
      BY <2>1 DEF LastPositionIsKnown, Telling, historyVars
    <3>1. LastPositionIs(mainQueue, mCurrentPlayingSongPosition, client.position)
      BY DEF LastPositionIsKnown
    <3> QED BY <1>1, <1>16, <3>1, MainStepMarker, LastPositionTail
  <2> QED BY <1>5, <2>1, <2>2
<1>17. CASE UNCHANGED vars
  <2>1. UNCHANGED <<client, server, mainQueue, mCurrentPlayingSongPosition>>
        /\ UNCHANGED historyVars
    BY <1>17 DEF vars, mainVars, markerVars
  <2> QED BY <1>4, <1>5, <2>1 DEF historyVars
<1> QED
  BY <1>9, <1>10, <1>11, <1>12, <1>13, <1>14, <1>15, <1>16, <1>17 DEF Next, TimerStep

(* The first states, where nothing is known yet.                           *)
LEMMA InitMarkerInv ==
  ASSUME Init
  PROVE  VersionsKnown /\ MarkerInv
<1>1. /\ client.link = "up" /\ client.playlist = None /\ client.at = "idle"
      /\ client.song = "unknown" /\ client.current = None
  BY DEF Init
<1>2. \E list \in AtStart, current \in Songs :
        /\ current \in SongsIn(list)
        /\ server = [list |-> list, version |-> 1, current |-> current,
                     playing |-> TRUE, used |-> SongsIn(list)]
  BY DEF Init
<1>3. CurrentIsListed
  BY <1>2, SongsAssumption DEF CurrentIsListed
<1> QED BY <1>1, <1>3, SongsAssumption DEF VersionsKnown, Connected, MarkerInv,
           CachedIsRight, CallbackIsFresh, SongIsKnown, LastPositionIsKnown

(* The marker is on the song that the server plays, once all notifications *)
(* are handled, for any lists, commands, losses and other clients, if the  *)
(* player never stopped and no other client raced a callback.              *)
THEOREM MarkerFollowsAlways == Spec => []MarkerFollows
<1>1. Init => VersionsKnown /\ MarkerInv
  BY InitMarkerInv
<1>2. Typed /\ VersionsKnown /\ [Next]_vars => VersionsKnown'
  BY NextVersionsKnown
<1>3. Typed /\ VersionsKnown /\ MarkerInv /\ [Next]_vars => MarkerInv'
  BY NextMarkerInv
<1>4. Typed /\ MarkerInv => MarkerFollows
  <2> SUFFICES ASSUME Typed, MarkerInv, Quiet, server.playing, spent["stops"] = 0, ~raced
               PROVE  mCurrentPlayingSongPosition = PositionIn(server.list, server.current)
    BY DEF MarkerFollows
  <2>1. /\ mainQueue = <<>> /\ client.at = "idle" /\ client.song = server.current
        /\ client.position = StatusPosition
    BY DEF Quiet, Drained
  <2>2. server.current # None /\ server.current \in Songs
    BY DEF Typed, Server, MarkerInv, CurrentIsListed
  <2>3. LastPositionIs(<<>>, mCurrentPlayingSongPosition, client.position)
    BY <2>1, <2>2 DEF MarkerInv, LastPositionIsKnown, Telling
  <2>4. ~HasName(<<>>, "CurrentSong")
    <3>1. 1..Len(<<>>) = {}
      OBVIOUS
    <3> QED BY <3>1 DEF HasName
  <2> QED BY <2>1, <2>2, <2>3, <2>4 DEF LastPositionIs, StatusPosition
<1> QED
  BY <1>1, <1>2, <1>3, <1>4, TypedAlways, PTL DEF Spec

-----------------------------------------------------------------------------
(* After the first connect: the list and the position come in either       *)
(* order, and what comes second selects the row.                           *)

ServerPosition == PositionIn(server.list, server.current)

\* As long as nothing else has happened, all that is on its way and all that
\* is shown is of the server as it was when the client connected.
UndisturbedIsSelected ==
  expects = "connect" =>
    /\ Connected /\ ~raced /\ spent["stops"] = 0 /\ server.current # None
    /\ ~mDisallowPlaylistUpdates /\ ~mScheduledSelect /\ mFilteredPlaylist = None
    /\ client.at = "callback" => client.song = server.current
    /\ \A i \in 1..Len(requests) : requests[i].op = "fetch"
    /\ \A i \in 1..Len(mainQueue) :
         \/ mainQueue[i].name = "PlaylistChanged"
         \/ mainQueue[i].name = "FetchedPlaylist" /\ mainQueue[i].songs = server.list
         \/ mainQueue[i].name = "CurrentSong" /\ mainQueue[i].position = ServerPosition
    /\ mPlayList \in {None, server.list}
    /\ mCurrentPlayingSongPosition \in {None, ServerPosition}
    /\ mShownAndSelected <=> mPlayList # None /\ mCurrentPlayingSongPosition # None
    /\ mShownAndSelected => selected = {ServerPosition}

(* What users and others do, and a loss, ends the first connect.           *)
LEMMA ConnectEnds ==
  ASSUME UserStep \/ ServerStep \/ LoseConnection
  PROVE  expects' # "connect"
BY DEF UserStep, ServerStep, LoseConnection, SelectRows, Search, DeleteSelectedSongs,
   PlaySelectedSong, DropRow, DropSong, ReplaceFiles, RandomizePlaylist, UserActs,
   OthersMove, OthersRemove, PlaysOther, PlayerStops, OthersAct

(* Every step keeps the row of the current song selected.                  *)
LEMMA NextUndisturbed ==
  ASSUME Typed, MarkerInv, UndisturbedIsSelected, [Next]_vars
  PROVE  UndisturbedIsSelected'
<1> DEFINE p == ServerPosition
           Right(n) == \/ n.name = "PlaylistChanged"
                       \/ n.name = "FetchedPlaylist" /\ n.songs = server.list
                       \/ n.name = "CurrentSong" /\ n.position = p
<1>1. SUFFICES ASSUME expects' = "connect"
               PROVE  UndisturbedIsSelected'
  BY DEF UndisturbedIsSelected
<1>2. /\ client \in Client /\ server \in Server /\ server.list \in Seq(Songs)
      /\ IsSequence(mainQueue) /\ IsSequence(requests) /\ Len(server.list) \in Nat
  <2>1. server.list \in Seq(Songs)
    BY DEF Typed, Server
  <2> QED BY <2>1, LenProperties DEF Typed, IsSequence
<1>3. ~UserStep /\ ~ServerStep /\ ~LoseConnection
  BY <1>1, ConnectEnds
<1>4. expects = "connect" /\ UNCHANGED <<server, expects, raced, spent>>
  <2>1. CASE ServeStep
    <3>1. UNCHANGED historyVars /\ Head(requests).op = "fetch"
      <4>1. /\ UNCHANGED historyVars /\ requests # <<>>
        BY <2>1, ServeStepEffects
      <4>2. expects = "connect"
        BY <1>1, <4>1 DEF historyVars
      <4>3. 1 \in 1..Len(requests) /\ Head(requests) = requests[1]
        BY <1>2, <4>1, TailFacts
      <4> QED BY <4>1, <4>2, <4>3 DEF UndisturbedIsSelected
    <3> QED BY <1>1, <2>1, <3>1, ServeStepEffects DEF historyVars
  <2>2. CASE TimerStep
    BY <1>1, <2>2, TimerStepEffects DEF historyVars, TimerStep, UpdateStatus, UpdateNothing,
       CallbackStatusChanged, NoticeLoss
  <2>3. CASE MainStep
    BY <1>1, <2>3, MainStepEffects, MainStepMarker DEF historyVars
  <2>4. CASE Reconnect \/ UNCHANGED vars
    BY <1>1, <2>4 DEF Reconnect, historyVars, vars
  <2> QED BY <1>3, <2>1, <2>2, <2>3, <2>4 DEF Next
<1>5. /\ Connected /\ ~raced /\ spent["stops"] = 0 /\ server.current # None
      /\ ~mDisallowPlaylistUpdates /\ ~mScheduledSelect /\ mFilteredPlaylist = None
      /\ client.at = "callback" => client.song = server.current
      /\ \A i \in 1..Len(requests) : requests[i].op = "fetch"
      /\ \A i \in 1..Len(mainQueue) : Right(mainQueue[i])
      /\ mPlayList \in {None, server.list}
      /\ mCurrentPlayingSongPosition \in {None, p}
      /\ mShownAndSelected <=> mPlayList # None /\ mCurrentPlayingSongPosition # None
      /\ mShownAndSelected => selected = {p}
  BY <1>4 DEF UndisturbedIsSelected
<1>6. p' = p
  BY <1>4 DEF ServerPosition
<1>7. p \in 1..Len(server.list) /\ p # None
  <2>1. IndicesOf(server.list, server.current) # {}
    BY <1>5 DEF MarkerInv, CurrentIsListed, SongsIn, IndicesOf
  <2> QED BY <1>2, <2>1, PositionOfListed, PositionFacts DEF ServerPosition
<1> HIDE DEF p
<1>8. ASSUME Connected', UNCHANGED mainVars,
             client'.at = "callback" => client'.song = server.current,
             \A i \in 1..Len(requests') : requests'[i].op = "fetch",
             \A i \in 1..Len(mainQueue') : Right(mainQueue'[i])
      PROVE  UndisturbedIsSelected'
  BY <1>4, <1>5, <1>6, <1>8 DEF UndisturbedIsSelected, mainVars, tableVars, markerVars,
     randomizeVars, p
<1>9. ASSUME NEW t, IsSequence(t), \A i \in 1..Len(t) : Right(t[i])
      PROVE  \A i \in 1..Len(mainQueue \o t) : Right((mainQueue \o t)[i])
  <2> DEFINE v == mainQueue \o t
  <2>1. /\ Len(mainQueue) \in Nat /\ Len(t) \in Nat
        /\ Len(v) = Len(mainQueue) + Len(t)
        /\ \A i \in 1..Len(mainQueue) : v[i] = mainQueue[i]
        /\ \A i \in 1..Len(t) : v[Len(mainQueue) + i] = t[i]
    BY <1>2, <1>9, ConcatFacts
  <2> HIDE DEF v
  <2> SUFFICES ASSUME NEW i \in 1..Len(v)
               PROVE  Right(v[i])
    BY DEF v
  <2>2. CASE i > Len(mainQueue)
    <3>1. i - Len(mainQueue) \in 1..Len(t) /\ t[i - Len(mainQueue)] = v[i]
      BY <2>1, <2>2
    <3> QED BY <1>9, <3>1
  <2>3. CASE i \in 1..Len(mainQueue)
    BY <1>5, <2>1, <2>3
  <2> QED BY <2>1, <2>2, <2>3
<1>10. ASSUME NEW q, IsSequence(q), q # <<>>
       PROVE  /\ 1 \in 1..Len(q) /\ Head(q) = q[1]
              /\ \A i \in 1..Len(Tail(q)) : i + 1 \in 1..Len(q) /\ Tail(q)[i] = q[i + 1]
  BY <1>10, TailFacts
<1>11. CASE ServeStep
  <2>1. /\ UNCHANGED mainVars /\ requests # <<>> /\ requests' = Tail(requests)
        /\ client'.link = client.link /\ client'.at # "callback"
    BY <1>11, ServeStepEffects
  <2>2. Head(requests).op = "fetch" /\ \A i \in 1..Len(requests') : requests'[i].op = "fetch"
    BY <1>2, <1>5, <1>10, <2>1
  <2> DEFINE n == [name |-> "FetchedPlaylist", songs |-> server.list]
  <2>3. mainQueue' = mainQueue \o <<n>>
    BY <1>5, <1>11, <2>2, ServeStepEffects DEF Post
  <2>4. Right(n)
    OBVIOUS
  <2> HIDE DEF n, Right
  <2>5. IsSequence(<<n>>) /\ \A i \in 1..Len(<<n>>) : Right(<<n>>[i])
    BY <2>4, SingleFacts
  <2>6. \A i \in 1..Len(mainQueue') : Right(mainQueue'[i])
    BY <1>9, <2>3, <2>5
  <2>7. Connected'
    BY <1>5, <2>1 DEF Connected
  <2> QED BY <1>8, <2>1, <2>2, <2>6, <2>7
<1>12. CASE UpdateStatus
  <2>1. client'.song = server.current /\ client'.link = client.link
    BY <1>12, UpdateStatusLearns, UpdateStatusEffects
  <2>2. UNCHANGED mainVars /\ UNCHANGED <<mainQueue, requests>>
    BY <1>12 DEF UpdateStatus
  <2>3. Connected'
    BY <1>5, <2>1 DEF Connected
  <2> QED BY <1>5, <1>8, <2>1, <2>2, <2>3
<1>13. CASE CallbackStatusChanged
  <2>1. client.at = "callback" /\ UNCHANGED mainVars /\ UNCHANGED <<requests>>
    BY <1>13 DEF CallbackStatusChanged
  <2>2. client.song = server.current /\ client.song \in Songs
    BY <1>2, <1>5, <2>1 DEF Server
  <2>3. client.position = p
    BY <1>5, <2>1, <2>2 DEF MarkerInv, CallbackIsFresh, ServerPosition, p
  <2>4. client'.at = "idle" /\ client'.link = client.link
    BY <1>13, CallbackTells, TimerClientEffects
  <2>5. PostsPosition(p)
    BY <1>5, <1>13, <2>2, <2>3, CallbackTells
  <2>6. \A i \in 1..Len(mainQueue') : Right(mainQueue'[i])
    BY <1>9, <2>5 DEF PostsPosition
  <2>7. Connected'
    BY <1>5, <2>4 DEF Connected
  <2> QED BY <1>5, <1>8, <2>1, <2>4, <2>6, <2>7
<1>14. ~UpdateNothing /\ ~NoticeLoss /\ ~Reconnect
  BY <1>5 DEF UpdateNothing, NoticeLoss, Reconnect, Connected
<1>15. ASSUME UNCHANGED client, NEW name, Arrives(name)
       PROVE  /\ Right(Head(mainQueue)) /\ Head(mainQueue).name = name
              /\ \A i \in 1..Len(mainQueue') : Right(mainQueue'[i])
              /\ UNCHANGED client
  <2>1. mainQueue # <<>> /\ mainQueue' = Tail(mainQueue) /\ Head(mainQueue).name = name
    BY <1>15 DEF Arrives
  <2> HIDE DEF Right
  <2> QED BY <1>2, <1>5, <1>10, <1>15, <2>1
<1>16. CASE HandlePlaylistChanged
  <2>1. UNCHANGED client /\ Arrives("PlaylistChanged") /\ AskForPlaylist
        /\ UNCHANGED markerVars /\ UNCHANGED randomizeVars
    BY <1>5, <1>16 DEF HandlePlaylistChanged, Arrives
  <2>2. UNCHANGED tableVars /\ requests' = Append(requests, [op |-> "fetch"])
    BY <1>5, <2>1 DEF AskForPlaylist
  <2>3. \A i \in 1..Len(requests') : requests'[i].op = "fetch"
    <3> DEFINE f == [op |-> "fetch"]
    <3>1. f.op = "fetch" /\ f \in Request
      BY DEF Request
    <3> HIDE DEF f
    <3>2. requests' = Append(requests, f) /\ requests \in Seq(Request)
      BY <2>2 DEF f, Typed
    <3>3. /\ Len(requests') = Len(requests) + 1 /\ requests'[Len(requests) + 1] = f
          /\ \A i \in 1..Len(requests) : requests'[i] = requests[i]
          /\ Len(requests) \in Nat
      BY <3>1, <3>2
    <3> QED BY <1>5, <3>1, <3>3
  <2>4. UNCHANGED mainVars
    BY <2>1, <2>2 DEF mainVars
  <2>5. Connected' /\ (client'.at = "callback" => client'.song = server.current)
    BY <1>5, <2>1 DEF Connected
  <2>6. \A i \in 1..Len(mainQueue') : Right(mainQueue'[i])
    BY <1>15, <2>1
  <2> HIDE DEF Right
  <2> QED BY <1>8, <2>3, <2>4, <2>5, <2>6
<1>17. CASE HandleDisconnected
  <2>1. UNCHANGED client /\ Arrives("Disconnected")
    BY <1>17 DEF HandleDisconnected, Arrives
  <2>2. Right(Head(mainQueue)) /\ Head(mainQueue).name = "Disconnected"
    BY <1>15, <2>1
  <2> QED BY <2>2
<1>18. CASE HandleFetchedPlaylist
  <2>1. /\ UNCHANGED client /\ Arrives("FetchedPlaylist")
        /\ UpdateAfterNewSongs(Head(mainQueue).songs)
        /\ UNCHANGED <<mCurrentPlayingSongPosition, mScheduledSelect, requests>>
        /\ UNCHANGED randomizeVars
    BY <1>5, <1>18 DEF HandleFetchedPlaylist, Arrives
  <2>2. /\ Head(mainQueue).songs = server.list
        /\ \A i \in 1..Len(mainQueue') : Right(mainQueue'[i])
    BY <1>15, <2>1
  <2> DEFINE list == server.list
             row == Row(list, None, mCurrentPlayingSongPosition)
             rows == Rows(list, None)
  <2>3. /\ mPlayList' = list /\ mFilteredPlaylist' = None
        /\ ShownIf(row)
        /\ selected' = IF ~mShownAndSelected /\ row \in rows THEN {row}
                       ELSE selected \cap rows
    BY <1>5, <2>1, <2>2 DEF UpdateAfterNewSongs
  <2>4. list # None => row = mCurrentPlayingSongPosition /\ rows = 1..Len(list)
    BY DEF Row, Rows
  <2>5. list = None => row = None
    BY DEF Row
  <2>6. mShownAndSelected' <=> mShownAndSelected \/ row # None
    BY <2>3 DEF ShownIf
  <2> HIDE DEF row, rows
  <2>7. mShownAndSelected' <=> list # None /\ mCurrentPlayingSongPosition # None
    BY <1>5, <2>4, <2>5, <2>6
  <2>8. mShownAndSelected' => selected' = {p}
    BY <1>5, <1>7, <2>3, <2>4, <2>5, <2>6, <2>7
  <2>9. Connected' /\ (client'.at = "callback" => client'.song = server.current)
        /\ ~mDisallowPlaylistUpdates'
    BY <1>5, <2>1 DEF Connected, randomizeVars
  <2> QED BY <1>4, <1>5, <1>6, <2>1, <2>2, <2>3, <2>7, <2>8, <2>9
          DEF UndisturbedIsSelected, p
<1>19. CASE HandleCurrentSong
  <2> DEFINE row == Row(mPlayList, None, p)
  <2>1. UNCHANGED client /\ Arrives("CurrentSong")
    BY <1>19 DEF HandleCurrentSong, Arrives
  <2>2. /\ Head(mainQueue).position = p
        /\ \A i \in 1..Len(mainQueue') : Right(mainQueue'[i])
    BY <1>15, <2>1
  <2>3. /\ mCurrentPlayingSongPosition' = p /\ mScheduledSelect' = FALSE
        /\ UNCHANGED <<mPlayList, mFilteredPlaylist, requests>> /\ UNCHANGED randomizeVars
        /\ ShownIf(row)
        /\ IF ~mShownAndSelected THEN SelectRow(row) ELSE UNCHANGED selected
    BY <1>5, <1>19, <2>2 DEF HandleCurrentSong
  <2>4. row = IF mPlayList = None THEN None ELSE p
    BY DEF Row
  <2>5. mShownAndSelected' <=> mShownAndSelected \/ row # None
    BY <2>3 DEF ShownIf
  <2> HIDE DEF row
  <2>6. mShownAndSelected' <=> mPlayList' # None /\ p # None
    BY <1>5, <1>7, <2>3, <2>4, <2>5
  <2>7. mPlayList # None => NumberOfRows = Len(server.list)
    <3> SUFFICES ASSUME mPlayList # None
                 PROVE  NumberOfRows = Len(server.list)
      OBVIOUS
    <3> DEFINE n == Len(server.list)
    <3>1. Rows(mPlayList, mFilteredPlaylist) = 1..n
      BY <1>5 DEF Rows
    <3>2. n \in Nat
      BY <1>2
    <3> HIDE DEF n
    <3>3. Cardinality(1..n) = n
      BY <3>2, FS_Interval
    <3> QED BY <3>1, <3>3 DEF NumberOfRows, n
  <2>8. mShownAndSelected' => selected' = {p}
    <3>1. CASE mShownAndSelected
      BY <1>5, <2>3, <3>1
    <3>2. CASE ~mShownAndSelected /\ mPlayList # None
      BY <1>7, <2>3, <2>4, <2>7, <3>2 DEF SelectRow
    <3> QED BY <2>3, <2>6, <3>1, <3>2
  <2>9. Connected' /\ (client'.at = "callback" => client'.song = server.current)
        /\ ~mDisallowPlaylistUpdates'
    BY <1>5, <2>1, <2>3 DEF Connected, randomizeVars
  <2> QED BY <1>4, <1>5, <1>6, <2>2, <2>3, <2>6, <2>8, <2>9
          DEF UndisturbedIsSelected, p
<1>20. ~EndRandomize /\ \A j : ~SwapNext(j)
  BY <1>5 DEF EndRandomize, SwapNext
<1>21. CASE UNCHANGED vars
  <2>1. UNCHANGED mainVars /\ UNCHANGED <<client, mainQueue, requests>>
    BY <1>21 DEF vars
  <2>2. Connected'
    BY <1>5, <2>1 DEF Connected
  <2> QED BY <1>5, <1>8, <2>1, <2>2
<1> QED
  BY <1>3, <1>11, <1>12, <1>13, <1>14, <1>16, <1>17, <1>18, <1>19, <1>20, <1>21
     DEF Next, TimerStep, MainStep

(* CHANGELOG:109: after the first connect the row of the current song is   *)
(* selected, whether the list or its position comes first, for any list.   *)
THEOREM SelectedAfterConnectAlways == Spec => []SelectedAfterConnect
<1>1. Init => VersionsKnown /\ MarkerInv
  BY InitMarkerInv
<1>2. Typed /\ VersionsKnown /\ [Next]_vars => VersionsKnown'
  BY NextVersionsKnown
<1>3. Typed /\ VersionsKnown /\ MarkerInv /\ [Next]_vars => MarkerInv'
  BY NextMarkerInv
<1>4. Init => UndisturbedIsSelected
  <2> SUFFICES ASSUME Init
               PROVE  UndisturbedIsSelected
    OBVIOUS
  <2>1. 1..Len(<<>>) = {}
    OBVIOUS
  <2>2. /\ Connected /\ ~raced /\ client.at = "idle"
        /\ ~mDisallowPlaylistUpdates /\ ~mScheduledSelect /\ mFilteredPlaylist = None
        /\ requests = <<>> /\ mainQueue = <<>> /\ mPlayList = None
        /\ mCurrentPlayingSongPosition = None /\ ~mShownAndSelected
    BY DEF Init, Connected
  <2>3. spent["stops"] = 0
    BY DEF Init, Bounded
  <2>4. server.current # None
    BY SongsAssumption DEF Init
  <2> QED BY <2>1, <2>2, <2>3, <2>4 DEF UndisturbedIsSelected
<1>5. Typed /\ MarkerInv /\ UndisturbedIsSelected /\ [Next]_vars => UndisturbedIsSelected'
  BY NextUndisturbed
<1>6. Typed /\ MarkerFollows /\ UndisturbedIsSelected => SelectedAfterConnect
  <2> SUFFICES ASSUME MarkerFollows, UndisturbedIsSelected,
                      expects = "connect", Quiet, server.playing, CurrentRow # None
               PROVE  selected = {CurrentRow}
    BY DEF SelectedAfterConnect, SelectedAfter
  <2>1. mCurrentPlayingSongPosition = ServerPosition
    BY DEF MarkerFollows, UndisturbedIsSelected, ServerPosition
  <2>2. mPlayList # None /\ CurrentRow = ServerPosition
    BY DEF CurrentRow, Row, UndisturbedIsSelected, ServerPosition
  <2> QED BY <2>1, <2>2 DEF UndisturbedIsSelected
<1> QED
  BY <1>1, <1>2, <1>3, <1>4, <1>5, <1>6, TypedAlways, MarkerFollowsAlways, PTL DEF Spec
=============================================================================
