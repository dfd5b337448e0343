------------------------- MODULE PlayListFiles_proofs -------------------------
(***************************************************************************)
(* Proofs about PlayListFiles, for any names and bounds.                   *)
(***************************************************************************)
EXTENDS PlayListFiles, FiniteSetTheorems, SequenceTheorems, TLAPS

-----------------------------------------------------------------------------
(* Queues.                                                                 *)

LEMMA AppendElements ==
  ASSUME NEW S, NEW s \in Seq(S), NEW e \in S
  PROVE  /\ Append(s, e) \in Seq(S)
         /\ Elements(Append(s, e)) = Elements(s) \cup {e}
  <1>1. /\ Append(s, e) \in Seq(S) /\ Len(Append(s, e)) = Len(s) + 1
        /\ \A i \in 1..Len(s) : Append(s, e)[i] = s[i]
        /\ Append(s, e)[Len(s) + 1] = e
    BY AppendProperties
  <1>2. /\ DOMAIN Append(s, e) = 1..(Len(s) + 1) /\ DOMAIN s = 1..Len(s)
        /\ Len(s) \in Nat
    BY <1>1, LenProperties
  <1> QED
    BY <1>1, <1>2 DEF Elements

LEMMA TailElements ==
  ASSUME NEW S, NEW s \in Seq(S), s # <<>>
  PROVE  /\ Head(s) \in S /\ Tail(s) \in Seq(S)
         /\ Elements(s) = {Head(s)} \cup Elements(Tail(s))
  <1>1. /\ Head(s) \in S /\ Head(s) = s[1]
        /\ Tail(s) \in Seq(S) /\ Len(Tail(s)) = Len(s) - 1
        /\ \A i \in 1..Len(Tail(s)) : Tail(s)[i] = s[i + 1]
    BY HeadTailProperties
  <1>2. Len(s) \in Nat \ {0}
    BY EmptySeq
  <1>3. DOMAIN s = 1..Len(s) /\ DOMAIN Tail(s) = 1..(Len(s) - 1)
    BY <1>1, LenProperties
  <1>4. ASSUME NEW x \in Elements(s) PROVE x \in {Head(s)} \cup Elements(Tail(s))
    <2>1. PICK i \in 1..Len(s) : x = s[i]
      BY <1>3 DEF Elements
    <2>2. CASE i = 1
      BY <1>1, <2>1, <2>2
    <2>3. CASE i # 1
      <3>1. i - 1 \in 1..(Len(s) - 1) /\ (i - 1) + 1 = i
        BY <1>2, <2>3
      <3> QED
        BY <1>1, <1>3, <2>1, <3>1 DEF Elements
    <2> QED
      BY <2>2, <2>3
  <1>5. ASSUME NEW x \in Elements(Tail(s)) PROVE x \in Elements(s)
    <2>1. PICK i \in 1..(Len(s) - 1) : x = Tail(s)[i]
      BY <1>3 DEF Elements
    <2>2. i + 1 \in 1..Len(s) /\ x = s[i + 1]
      BY <1>1, <1>2, <2>1
    <2> QED
      BY <1>3, <2>2 DEF Elements
  <1>6. Head(s) \in Elements(s)
    BY <1>1, <1>2, <1>3 DEF Elements
  <1> QED
    BY <1>1, <1>4, <1>5, <1>6

LEMMA NoElements ==
  Elements(<<>>) = {} /\ \A S : <<>> \in Seq(S)
  BY EmptySeq DEF Elements

(* A message to the client thread                                          *)
LEMMA AskKeepsType ==
  ASSUME FilesTypeOK, NEW r \in FilesRequest, Ask(r)
  PROVE  /\ clientRequests' \in Seq(FilesRequest)
         /\ clientExists => Elements(clientRequests') = Elements(clientRequests) \cup {r}
         /\ ~clientExists => clientRequests' = clientRequests
         /\ Elements(clientRequests) \subseteq Elements(clientRequests')
         /\ Elements(clientRequests') \subseteq Elements(clientRequests) \cup {r}
  <1>1. clientRequests \in Seq(FilesRequest)
    BY DEF FilesTypeOK
  <1>2. CASE clientExists
    <2>1. clientRequests' = Append(clientRequests, r)
      BY <1>2 DEF Ask
    <2> QED
      BY <1>1, <1>2, <2>1, AppendElements
  <1>3. CASE ~clientExists
    BY <1>1, <1>3 DEF Ask
  <1> QED
    BY <1>2, <1>3

LEMMA PostKeepsType ==
  ASSUME FilesTypeOK, NEW p \in Posted, Post(p)
  PROVE  /\ posted' \in Seq(Posted)
         /\ Elements(posted') = Elements(posted) \cup {p}
  <1>1. posted \in Seq(Posted) /\ posted' = Append(posted, p)
    BY DEF FilesTypeOK, Post
  <1> QED
    BY <1>1, AppendElements

-----------------------------------------------------------------------------
(* Types.                                                                  *)

LEMMA MessagesHaveType ==
  /\ [op |-> "list"] \in FilesRequest
  /\ \A o \in {"load", "save", "fetch"}, n \in Names : [op |-> o, name |-> n] \in FilesRequest
  /\ \A n \in Names \cup {NoName} : [op |-> "delete", name |-> n] \in FilesRequest
  /\ \A entries \in SUBSET Names : [name |-> "FoundPlaylists", entries |-> entries] \in Posted
  /\ \A n \in Names, songs \in Contents :
       [name |-> "FetchedNamedPlaylist", path |-> n, songs |-> songs] \in Posted
  /\ [name |-> "NumberOfPlaylistsChanged"] \in Posted
  /\ [name |-> "Connected"] \in Posted /\ [name |-> "Disconnected"] \in Posted
  BY DEF FilesRequest, Posted

LEMMA RequestsByKind ==
  ASSUME NEW r \in FilesRequest
  PROVE  \/ r = [op |-> "list"]
         \/ r.op \in {"load", "save", "fetch"} /\ r.name \in Names
         \/ r.op = "delete" /\ r.name \in Names \cup {NoName}
  BY DEF FilesRequest

LEMMA PostedByKind ==
  ASSUME NEW p \in Posted
  PROVE  /\ p.name = "FoundPlaylists" => p.entries \subseteq Names
         /\ p.name = "FetchedNamedPlaylist" => p.path \in Names /\ p.songs \in Contents
  BY DEF Posted

LEMMA ListedType ==
  ASSUME FilesTypeOK
  PROVE  /\ Listed \subseteq Names
         /\ \A n \in Listed : RowOf(n) \in 0..Cardinality(Listed)
         /\ \A entries \in SUBSET Names :
              RowAfter(entries) \in 0..Cardinality(entries)
  <1>1. Listed \subseteq Names /\ IsFiniteSet(Listed)
    BY FilesAssumption, FS_Subset DEF FilesTypeOK, Listed
  <1>2. ASSUME NEW n \in Listed PROVE RowOf(n) \in 0..Cardinality(Listed)
    <2> DEFINE upTo == {k \in mPlaylists : k <= n}
    <2>1. mPlaylists = Listed /\ upTo \subseteq Listed
      BY <1>2 DEF Listed
    <2>2. Cardinality(upTo) <= Cardinality(Listed) /\ IsFiniteSet(upTo)
      BY <1>1, <2>1, FS_Subset
    <2>3. Cardinality(upTo) \in Nat /\ Cardinality(Listed) \in Nat
      BY <1>1, <2>2, FS_CardinalityType
    <2> QED
      BY <2>2, <2>3 DEF RowOf
  <1>3. ASSUME NEW entries \in SUBSET Names PROVE RowAfter(entries) \in 0..Cardinality(entries)
    <2>1. Cardinality(entries) \in Nat
      BY FilesAssumption, FS_Subset, FS_CardinalityType
    <2>2. selectedRow \in Nat
      <3>1. Cardinality(Listed) \in Nat
        BY <1>1, FS_CardinalityType
      <3> QED
        BY <3>1 DEF FilesTypeOK
    <2> QED
      BY <2>1, <2>2 DEF RowAfter, NoRow
  <1> QED
    BY <1>1, <1>2, <1>3

(* What TrackDrop adds is typed apart.                                     *)
TypeOKButDrop ==
  /\ mPlaylists = NoName \/ mPlaylists \subseteq Names
  /\ selectedRow \in 0..Cardinality(Listed)
  /\ tableEnabled \in BOOLEAN /\ drawerOpen \in BOOLEAN /\ refreshEnabled \in BOOLEAN
  /\ noConfirmation \in BOOLEAN
  /\ sheet \in Names \cup {NoName}
  /\ mPathOfNamedPlaylistBeingFetched \in Names \cup {NoName}
  /\ mFetchedNamedPlaylist \in Contents \cup {NoName}
  /\ clientRequests \in Seq(FilesRequest)
  /\ posted \in Seq(Posted)
  /\ clientExists \in BOOLEAN /\ mpdConnected \in BOOLEAN
  /\ stored \subseteq Names /\ version \in [Names -> 0..MaxVersion]
  /\ unsure \in BOOLEAN /\ unasked \in BOOLEAN

(* The view: the list, its row, and what is asked for.                     *)
LEMMA RefreshType ==
  ASSUME FilesTypeOK, Refresh
  PROVE  /\ tableEnabled' = FALSE
         /\ unasked' = ~clientExists /\ unasked' \in BOOLEAN
         /\ clientRequests' \in Seq(FilesRequest)
         /\ Elements(clientRequests) \subseteq Elements(clientRequests')
         /\ clientExists => [op |-> "list"] \in Elements(clientRequests')
  BY AskKeepsType, MessagesHaveType DEF Refresh, FilesTypeOK

LEMMA DeleteSelectedType ==
  ASSUME FilesTypeOK, DeleteSelectedPlaylist
  PROVE  /\ clientRequests' \in Seq(FilesRequest)
         /\ Elements(clientRequests) \subseteq Elements(clientRequests')
         /\ \A r \in Elements(clientRequests') \ Elements(clientRequests) : r.op = "delete"
  <1>1. CASE UNCHANGED clientRequests
    BY <1>1 DEF FilesTypeOK
  <1>2. ASSUME NEW n \in Names \cup {NoName}, Ask([op |-> "delete", name |-> n])
        PROVE  /\ clientRequests' \in Seq(FilesRequest)
               /\ Elements(clientRequests) \subseteq Elements(clientRequests')
               /\ \A r \in Elements(clientRequests') \ Elements(clientRequests) : r.op = "delete"
    <2>1. [op |-> "delete", name |-> n] \in FilesRequest
      BY MessagesHaveType
    <2> QED
      BY <1>2, <2>1, AskKeepsType
  <1> QED
    BY <1>1, <1>2, ListedType DEF DeleteSelectedPlaylist

(* What main thread actions that only ask leave typed                      *)
LEMMA ListTypeKept ==
  ASSUME FilesTypeOK, UNCHANGED <<mPlaylists, selectedRow>>
  PROVE  /\ mPlaylists' = NoName \/ mPlaylists' \subseteq Names
         /\ selectedRow' \in 0..Cardinality(Listed')
  BY DEF FilesTypeOK, Listed

LEMMA SongsType ==
  ASSUME FilesTypeOK, NEW n \in Names
  PROVE  Songs(n) \in Contents
  BY DEF FilesTypeOK, Songs, Contents

LEMMA ServePostedType ==
  ASSUME FilesTypeOK, ServePosted
  PROVE  TypeOKButDrop'
  <1> DEFINE p == Head(posted)
  <1>1. p \in Posted /\ posted' \in Seq(Posted)
    BY TailElements DEF ServePosted, FilesTypeOK
  <1>2. UNCHANGED <<noConfirmation, sheet, clientExists, mpdConnected, stored, version, unsure>>
    BY DEF ServePosted, sheetVars, serverVars, clientVars
  <1>3. HandlePosted(p)
    BY DEF ServePosted
  <1> HIDE DEF p
  <1>4. CASE p.name = "FoundPlaylists" /\ mPlaylists' = p.entries
    <2>1. p.entries \in SUBSET Names /\ mPlaylists' = p.entries
      BY <1>1, <1>4, PostedByKind
    <2>2. selectedRow' = RowAfter(p.entries) /\ tableEnabled' = TRUE /\ unasked' = FALSE
          /\ UNCHANGED <<drawerOpen, refreshEnabled, dragVars, clientRequests>>
      BY <1>3, <1>4 DEF HandlePosted, FoundPlaylists, Connected, Disconnected
    <2>3. Listed' = p.entries
      BY <2>1, FilesAssumption DEF Listed
    <2>4. selectedRow' \in 0..Cardinality(Listed')
      BY <2>1, <2>2, <2>3, ListedType
    <2> QED
      BY <1>1, <1>2, <2>1, <2>2, <2>4 DEF TypeOKButDrop, FilesTypeOK, dragVars
  <1>5. CASE /\ p.name = "FetchedNamedPlaylist" /\ FetchedNamedPlaylist(p)
             /\ UNCHANGED <<listVars, mPathOfNamedPlaylistBeingFetched, clientRequests>>
    <2>1. p.songs \in Contents
      BY <1>1, <1>5, PostedByKind
    <2>2. mFetchedNamedPlaylist' \in Contents \cup {NoName}
      BY <1>5, <2>1 DEF FetchedNamedPlaylist, FilesTypeOK
    <2> QED
      BY <1>1, <1>2, <1>5, <2>2, ListTypeKept DEF TypeOKButDrop, FilesTypeOK, listVars
  <1>6. CASE /\ Refresh
             /\ UNCHANGED <<mPlaylists, selectedRow, drawerOpen, dragVars>>
             /\ refreshEnabled' \in {TRUE, refreshEnabled}
    <2>1. /\ tableEnabled' \in BOOLEAN /\ unasked' \in BOOLEAN /\ refreshEnabled' \in BOOLEAN
          /\ clientRequests' \in Seq(FilesRequest)
      BY <1>6, RefreshType DEF FilesTypeOK
    <2> QED
      BY <1>1, <1>2, <1>6, <2>1, ListTypeKept DEF TypeOKButDrop, FilesTypeOK, dragVars
  <1>7. CASE /\ UNCHANGED <<tableEnabled, unasked, clientRequests, mPlaylists, selectedRow,
                            drawerOpen, dragVars>>
             /\ refreshEnabled' = TRUE
    BY <1>1, <1>2, <1>7, ListTypeKept DEF TypeOKButDrop, FilesTypeOK, dragVars
  <1>8. CASE /\ mPlaylists' = NoName /\ selectedRow' = NoRow /\ refreshEnabled' = FALSE
             /\ UNCHANGED <<tableEnabled, drawerOpen, unasked, dragVars, clientRequests>>
    <2>1. Listed' = {}
      BY <1>8 DEF Listed
    <2>2. Cardinality(Listed') = 0
      BY <2>1, FS_EmptySet
    <2>3. selectedRow' \in 0..Cardinality(Listed')
      BY <1>8, <2>2 DEF NoRow
    <2> QED
      BY <1>1, <1>2, <1>8, <2>3 DEF TypeOKButDrop, FilesTypeOK, dragVars
  <1> QED
    BY <1>3, <1>4, <1>5, <1>6, <1>7, <1>8 DEF HandlePosted, FoundPlaylists, Connected, Disconnected

(* The request that is served is of one of the kinds.                      *)
LEMMA RequestServed ==
  ASSUME FilesTypeOK, ServeRequest
  PROVE  \/ List \/ Load
         \/ \E n \in Names : Save(n) \/ Fetch(n)
         \/ \E n \in Names \cup {NoName} : Delete(n)
  <1> DEFINE r == Head(clientRequests)
  <1>1. r \in FilesRequest
    BY TailElements DEF ServeRequest, FilesTypeOK
  <1>2. \/ r.op = "list" /\ List
        \/ r.op = "load" /\ Load
        \/ r.op = "save" /\ Save(r.name)
        \/ r.op = "delete" /\ Delete(r.name)
        \/ r.op = "fetch" /\ Fetch(r.name)
    BY DEF ServeRequest
  <1> HIDE DEF r
  <1> QED
    BY <1>1, <1>2, RequestsByKind

LEMMA ServeRequestType ==
  ASSUME FilesTypeOK, ServeRequest
  PROVE  TypeOKButDrop'
  <1> DEFINE r == Head(clientRequests)
  <1>1. r \in FilesRequest /\ clientRequests' \in Seq(FilesRequest)
    BY TailElements DEF ServeRequest, FilesTypeOK
  <1>2. UNCHANGED <<listVars, sheetVars, dragVars, clientVars>>
    BY DEF ServeRequest
  <1>3. /\ posted' \in Seq(Posted) /\ unsure' \in BOOLEAN
        /\ stored' \subseteq Names /\ version' \in [Names -> 0..MaxVersion]
    <2>1. CASE List
      <3>1. [name |-> "FoundPlaylists", entries |-> IF mpdConnected THEN stored ELSE {}] \in Posted
        BY MessagesHaveType DEF FilesTypeOK
      <3>2. posted' \in Seq(Posted)
        BY <2>1, <3>1, PostKeepsType DEF List
      <3>3. unsure' = ~mpdConnected /\ UNCHANGED <<stored, version>>
        BY <2>1 DEF List, serverVars, clientVars
      <3> QED
        BY <3>2, <3>3 DEF FilesTypeOK
    <2>2. CASE Load
      BY <2>2 DEF Load, serverVars, clientVars, FilesTypeOK
    <2>3. ASSUME NEW n \in Names, Save(n)
          PROVE  /\ posted' \in Seq(Posted) /\ unsure' \in BOOLEAN
                 /\ stored' \subseteq Names /\ version' \in [Names -> 0..MaxVersion]
      <3>1. posted' \in Seq(Posted) /\ unsure' \in BOOLEAN
        BY <2>3, MessagesHaveType, PostKeepsType DEF Save, FilesTypeOK
      <3>2. CASE UNCHANGED <<stored, version>>
        BY <3>1, <3>2 DEF FilesTypeOK
      <3>3. CASE version[n] < MaxVersion
                   /\ stored' = stored \cup {n} /\ version' = [version EXCEPT ![n] = @ + 1]
        <4>1. stored \subseteq Names /\ version \in [Names -> 0..MaxVersion] /\ MaxVersion \in Nat
          BY FilesAssumption DEF FilesTypeOK
        <4>2. version[n] \in 0..MaxVersion /\ n \in Names
          BY <3>3, <4>1
        <4>3. version[n] + 1 \in 0..MaxVersion
          BY <3>3, <4>1, <4>2
        <4>4. version' \in [Names -> 0..MaxVersion]
          BY <3>3, <4>1, <4>3
        <4>5. stored' \subseteq Names
          BY <3>3, <4>1
        <4> QED
          BY <3>1, <4>4, <4>5
      <3> QED
        BY <2>3, <3>2, <3>3 DEF Save
    <2>4. ASSUME NEW n \in Names \cup {NoName}, Delete(n)
          PROVE  /\ posted' \in Seq(Posted) /\ unsure' \in BOOLEAN
                 /\ stored' \subseteq Names /\ version' \in [Names -> 0..MaxVersion]
      <3>1. [name |-> "NumberOfPlaylistsChanged"] \in Posted
        BY MessagesHaveType
      <3>2. posted' \in Seq(Posted)
        BY <2>4, <3>1, PostKeepsType DEF Delete
      <3>3. UNCHANGED <<version, unsure>> /\ (stored' = stored \/ stored' = stored \ {n})
        BY <2>4 DEF Delete
      <3>4. stored \subseteq Names /\ version \in [Names -> 0..MaxVersion] /\ unsure \in BOOLEAN
        BY DEF FilesTypeOK
      <3> QED
        BY <3>2, <3>3, <3>4
    <2>5. ASSUME NEW n \in Names, Fetch(n)
          PROVE  /\ posted' \in Seq(Posted) /\ unsure' \in BOOLEAN
                 /\ stored' \subseteq Names /\ version' \in [Names -> 0..MaxVersion]
      <3>1. [name |-> "FetchedNamedPlaylist", path |-> n, songs |-> Songs(n)] \in Posted
        BY SongsType, MessagesHaveType
      <3> QED
        BY <2>5, <3>1, PostKeepsType DEF Fetch, serverVars, clientVars, FilesTypeOK
    <2> QED
      BY <2>1, <2>2, <2>3, <2>4, <2>5, RequestServed
  <1> QED
    BY <1>1, <1>2, <1>3, ListTypeKept
    DEF TypeOKButDrop, FilesTypeOK, listVars, sheetVars, dragVars, clientVars

(* What asks for something of a name that is listed, or for nothing, keeps *)
(* the types.                                                              *)
LEMMA AskingType ==
  ASSUME FilesTypeOK, NEW n \in Listed,
         NEW o \in {"load", "fetch", "delete", "save"}, Ask([op |-> o, name |-> n])
  PROVE  clientRequests' \in Seq(FilesRequest)
  <1>1. n \in Names
    BY ListedType
  <1>2. [op |-> o, name |-> n] \in FilesRequest
    BY <1>1, MessagesHaveType
  <1> QED
    BY <1>2, AskKeepsType

(* The user's actions, and what others do                                  *)
UserStep ==
  \/ RefreshClicked \/ ToggleDrawer \/ LoadSelectedPlaylist \/ DeleteClicked
  \/ \E n \in Listed : SelectRow(n) \/ ProvideData(n)
  \/ \E confirmed, doNotAskAgain \in BOOLEAN :
       DeleteConfirmationButtonClicked(confirmed, doNotAskAgain)
  \/ DataProvided \/ \E n \in Names : SavePlayListAction(n)

LEMMA UserStepType ==
  ASSUME FilesTypeOK, UserStep
  PROVE  TypeOKButDrop'
  <1>1. CASE RefreshClicked
    BY <1>1, RefreshType, ListTypeKept
    DEF RefreshClicked, TypeOKButDrop, FilesTypeOK, sheetVars, dragVars, serverVars, clientVars
  <1>2. CASE ToggleDrawer
    <2>1. /\ clientRequests' \in Seq(FilesRequest)
          /\ tableEnabled' \in BOOLEAN /\ drawerOpen' \in BOOLEAN /\ unasked' \in BOOLEAN
      BY <1>2, RefreshType DEF ToggleDrawer, FilesTypeOK
    <2> QED
      BY <1>2, <2>1, ListTypeKept
      DEF ToggleDrawer, TypeOKButDrop, FilesTypeOK, sheetVars, dragVars, serverVars, clientVars
  <1>3. CASE LoadSelectedPlaylist
    <2>1. clientRequests' \in Seq(FilesRequest)
      BY <1>3, AskingType DEF LoadSelectedPlaylist
    <2> QED
      BY <1>3, <2>1, ListTypeKept
      DEF LoadSelectedPlaylist, TypeOKButDrop, FilesTypeOK, listVars, sheetVars, dragVars, serverVars, clientVars
  <1>4. CASE DeleteClicked
    <2>1. clientRequests' \in Seq(FilesRequest) /\ sheet' \in Names \cup {NoName}
      BY <1>4, DeleteSelectedType, ListedType DEF DeleteClicked, FilesTypeOK
    <2> QED
      BY <1>4, <2>1, ListTypeKept
      DEF DeleteClicked, TypeOKButDrop, FilesTypeOK, listVars, dragVars, serverVars, clientVars
  <1>5. ASSUME NEW n \in Listed, SelectRow(n)
        PROVE  TypeOKButDrop'
    <2>1. Listed' = Listed /\ selectedRow' = RowOf(n)
      BY <1>5 DEF SelectRow, Listed
    <2>2. selectedRow' \in 0..Cardinality(Listed')
      BY <2>1, ListedType
    <2> QED
      BY <1>5, <2>2
      DEF SelectRow, TypeOKButDrop, FilesTypeOK, sheetVars, dragVars, serverVars, clientVars
  <1>6. ASSUME NEW n \in Listed, ProvideData(n)
        PROVE  TypeOKButDrop'
    <2>1. clientRequests' \in Seq(FilesRequest)
      BY <1>6, AskingType DEF ProvideData
    <2>2. n \in Names
      BY ListedType
    <2> QED
      BY <1>6, <2>1, <2>2, ListTypeKept
      DEF ProvideData, TypeOKButDrop, FilesTypeOK, listVars, sheetVars, serverVars, clientVars
  <1>7. ASSUME NEW confirmed \in BOOLEAN, NEW doNotAskAgain \in BOOLEAN,
               DeleteConfirmationButtonClicked(confirmed, doNotAskAgain)
        PROVE  TypeOKButDrop'
    <2>1. clientRequests' \in Seq(FilesRequest)
      BY <1>7, DeleteSelectedType DEF DeleteConfirmationButtonClicked, FilesTypeOK
    <2>2. noConfirmation' \in BOOLEAN
      BY <1>7 DEF DeleteConfirmationButtonClicked, FilesTypeOK
    <2> QED
      BY <1>7, <2>1, <2>2, ListTypeKept
      DEF DeleteConfirmationButtonClicked, TypeOKButDrop, FilesTypeOK, listVars, dragVars, serverVars, clientVars
  <1>8. CASE DataProvided
    BY <1>8, ListTypeKept
    DEF DataProvided, TypeOKButDrop, FilesTypeOK, listVars, sheetVars, serverVars, clientVars
  <1>9. ASSUME NEW n \in Names, SavePlayListAction(n)
        PROVE  TypeOKButDrop'
    <2>1. [op |-> "save", name |-> n] \in FilesRequest
      BY MessagesHaveType
    <2>2. clientRequests' \in Seq(FilesRequest)
      BY <1>9, <2>1, AskKeepsType DEF SavePlayListAction
    <2> QED
      BY <1>9, <2>2, ListTypeKept
      DEF SavePlayListAction, TypeOKButDrop, FilesTypeOK, listVars, sheetVars, dragVars, serverVars, clientVars
  <1> QED
    BY <1>1, <1>2, <1>3, <1>4, <1>5, <1>6, <1>7, <1>8, <1>9 DEF UserStep

OthersStep ==
  \/ SwitchProfile \/ SetMusicClient \/ ConnectionChanges
  \/ \E n \in Names : OthersWrite(n) \/ OthersDelete(n)

LEMMA OthersStepType ==
  ASSUME FilesTypeOK, OthersStep
  PROVE  TypeOKButDrop'
  <1>1. CASE ConnectionChanges
    <2>1. posted' \in Seq(Posted)
      BY <1>1, MessagesHaveType, PostKeepsType DEF ConnectionChanges
    <2> QED
      BY <1>1, <2>1, ListTypeKept
      DEF ConnectionChanges, TypeOKButDrop, FilesTypeOK, listVars, sheetVars, dragVars, serverVars, clientVars
  <1>2. ASSUME NEW n \in Names, OthersWrite(n)
        PROVE  TypeOKButDrop'
    <2>1. /\ version \in [Names -> 0..MaxVersion] /\ stored \subseteq Names
          /\ MaxVersion \in Nat /\ unsure \in BOOLEAN
      BY FilesAssumption DEF FilesTypeOK
    <2>2. version[n] \in 0..MaxVersion /\ version[n] < MaxVersion
      BY <1>2, <2>1 DEF OthersWrite
    <2>3. version[n] + 1 \in 0..MaxVersion
      BY <2>1, <2>2
    <2>4. version' \in [Names -> 0..MaxVersion] /\ stored' \subseteq Names
      BY <1>2, <2>1, <2>3 DEF OthersWrite
    <2>5. unsure' \in BOOLEAN
      BY <1>2, <2>1 DEF OthersWrite
    <2> QED
      BY <1>2, <2>4, <2>5, ListTypeKept
      DEF OthersWrite, TypeOKButDrop, FilesTypeOK, listVars, sheetVars, dragVars, clientVars
  <1>3. ASSUME NEW n \in Names, OthersDelete(n)
        PROVE  TypeOKButDrop'
    BY <1>3, ListTypeKept
    DEF OthersDelete, TypeOKButDrop, FilesTypeOK, listVars, sheetVars, dragVars, clientVars
  <1>4. CASE SwitchProfile
    BY <1>4, ListTypeKept
    DEF SwitchProfile, TypeOKButDrop, FilesTypeOK, listVars, sheetVars, dragVars
  <1>5. CASE SetMusicClient
    BY <1>5, ListTypeKept
    DEF SetMusicClient, TypeOKButDrop, FilesTypeOK, listVars, sheetVars, dragVars, serverVars
  <1> QED
    BY <1>1, <1>2, <1>3, <1>4, <1>5 DEF OthersStep

LEMMA DropType ==
  ASSUME FilesTypeOK, TypeOKButDrop', TrackDrop
  PROVE  drop' \in Drop \cup {NoName}
  <1> DEFINE n == mPathOfNamedPlaylistBeingFetched'
             missing == Missing(mPathOfNamedPlaylistBeingFetched)'
  <1>1. n \in Names \cup {NoName} /\ drop \in Drop \cup {NoName}
    BY DEF FilesTypeOK, TypeOKButDrop
  <1>2. /\ Fetching(n) \in BOOLEAN /\ Missing(n) \in BOOLEAN
        /\ \A d \in Drop : (d.missing \/ missing) \in BOOLEAN
    BY DEF Fetching, Missing
  <1>3. CASE n # NoName /\ drop = NoName
    <2>1. version[n] \in 0..MaxVersion
      BY <1>1, <1>3 DEF FilesTypeOK
    <2>2. drop' = [since |-> version[n], late |-> Fetching(n), missing |-> Missing(n)]
      BY <1>3 DEF TrackDrop
    <2> HIDE DEF n
    <2> QED
      BY <1>2, <2>1, <2>2 DEF Drop
  <1>4. CASE n # NoName /\ drop # NoName
    <2>1. drop' = [drop EXCEPT !.missing = drop.missing \/ missing]
      BY <1>4 DEF TrackDrop
    <2>2. drop \in Drop
      BY <1>1, <1>4
    <2> HIDE DEF missing
    <2> QED
      BY <1>2, <2>1, <2>2 DEF Drop
  <1>5. CASE n = NoName
    BY <1>5 DEF TrackDrop
  <1> QED
    BY <1>3, <1>4, <1>5

LEMMA InitType ==
  FilesInit => FilesTypeOK
  <1> SUFFICES ASSUME FilesInit
               PROVE  FilesTypeOK
    OBVIOUS
  <1>1. Listed = {} /\ Cardinality(Listed) = 0
    BY FS_EmptySet DEF FilesInit, Listed
  <1>2. selectedRow \in 0..Cardinality(Listed)
    BY <1>1 DEF FilesInit, NoRow
  <1>3. clientRequests \in Seq(FilesRequest) /\ posted \in Seq(Posted)
    BY NoElements DEF FilesInit
  <1>6. 0 \in 0..MaxVersion
    BY FilesAssumption
  <1>7. stored \subseteq Names /\ version \in [Names -> 0..MaxVersion]
    BY <1>6 DEF FilesInit
  <1> QED
    BY <1>2, <1>3, <1>7 DEF FilesInit, FilesTypeOK

LEMMA StepType ==
  FilesTypeOK /\ [FilesNext]_filesVars => FilesTypeOK'
  <1> SUFFICES ASSUME FilesTypeOK, [FilesNext]_filesVars
               PROVE  FilesTypeOK'
    OBVIOUS
  <1>1. CASE FilesNext
    <2>1. FilesStep /\ TrackDrop
      BY <1>1 DEF FilesNext
    <2>2. TypeOKButDrop'
      BY <2>1, UserStepType, OthersStepType, ServePostedType, ServeRequestType
      DEF FilesStep, UserStep, OthersStep
    <2> QED
      BY <2>1, <2>2, DropType DEF FilesTypeOK, TypeOKButDrop
  <1>2. CASE UNCHANGED filesVars
    BY <1>2
    DEF filesVars, listVars, sheetVars, dragVars, serverVars, clientVars, FilesTypeOK, Listed
  <1> QED
    BY <1>1, <1>2

\* Whatever comes in whatever order, the row that is selected is one of the
\* list, the drop that waits has its record, and the server's playlists and
\* the messages in both queues are of the names that there are
\* (PlayListFilesController.m 130-143, 193-222).
THEOREM FilesTypeCorrect == FilesSpec => []FilesTypeOK
  BY InitType, StepType, PTL DEF FilesSpec

-----------------------------------------------------------------------------
(* A disabled table is enabled again.                                      *)

(* The user's actions and the others' ask and post, and take nothing away. *)
LEMMA QueuesGrow ==
  ASSUME FilesTypeOK,
         UserStep \/ OthersStep
  PROVE  /\ Elements(clientRequests) \subseteq Elements(clientRequests')
         /\ Elements(posted) \subseteq Elements(posted')
  <1>1. ASSUME NEW r \in FilesRequest, Ask(r)
        PROVE  Elements(clientRequests) \subseteq Elements(clientRequests')
    BY <1>1, AskKeepsType
  <1>2. ASSUME NEW o \in {"load", "fetch"}, NEW n \in Listed, Ask([op |-> o, name |-> n])
        PROVE  Elements(clientRequests) \subseteq Elements(clientRequests')
    <2>1. n \in Names
      BY ListedType
    <2>2. [op |-> o, name |-> n] \in FilesRequest
      BY <2>1, MessagesHaveType
    <2> QED
      BY <1>1, <1>2, <2>2
  <1>3. CASE RefreshClicked
    BY <1>3, RefreshType DEF RefreshClicked
  <1>4. CASE ToggleDrawer
    BY <1>4, RefreshType DEF ToggleDrawer
  <1>5. CASE LoadSelectedPlaylist
    BY <1>2, <1>5 DEF LoadSelectedPlaylist, listVars
  <1>6. CASE DeleteClicked
    BY <1>6, DeleteSelectedType DEF DeleteClicked, listVars
  <1>7. ASSUME NEW n \in Listed, SelectRow(n) \/ ProvideData(n)
        PROVE  /\ Elements(clientRequests) \subseteq Elements(clientRequests')
               /\ posted' = posted
    BY <1>2, <1>7 DEF SelectRow, ProvideData
  <1>8. ASSUME NEW confirmed \in BOOLEAN, NEW doNotAskAgain \in BOOLEAN,
               DeleteConfirmationButtonClicked(confirmed, doNotAskAgain)
        PROVE  /\ Elements(clientRequests) \subseteq Elements(clientRequests')
               /\ posted' = posted
    BY <1>8, DeleteSelectedType DEF DeleteConfirmationButtonClicked, listVars
  <1>9. CASE DataProvided
    BY <1>9 DEF DataProvided, listVars
  <1>10. ASSUME NEW n \in Names, SavePlayListAction(n)
         PROVE  /\ Elements(clientRequests) \subseteq Elements(clientRequests')
                /\ posted' = posted
    BY <1>1, <1>10, MessagesHaveType DEF SavePlayListAction, listVars
  <1>11. CASE ConnectionChanges
    <2>1. Elements(posted) \subseteq Elements(posted')
      BY <1>11, MessagesHaveType, PostKeepsType DEF ConnectionChanges
    <2> QED
      BY <1>11, <2>1 DEF ConnectionChanges, listVars
  <1>12. ASSUME NEW n \in Names, OthersWrite(n) \/ OthersDelete(n)
         PROVE  UNCHANGED <<clientRequests, posted>>
    BY <1>12 DEF OthersWrite, OthersDelete
  <1>13. CASE SwitchProfile \/ SetMusicClient
    BY <1>13 DEF SwitchProfile, SetMusicClient
  <1> QED
    BY <1>3, <1>4, <1>5, <1>6, <1>7, <1>8, <1>9, <1>10, <1>11, <1>12, <1>13
    DEF UserStep, OthersStep

LEMMA ListAnswered ==
  ASSUME FilesTypeOK, ServeRequest, [op |-> "list"] \in Elements(clientRequests)
  PROVE  \/ [op |-> "list"] \in Elements(clientRequests')
         \/ \E p \in Elements(posted') : p.name = "FoundPlaylists"
  <1> DEFINE r == Head(clientRequests)
  <1>1. /\ Elements(clientRequests) = {r} \cup Elements(clientRequests')
    BY TailElements DEF ServeRequest, FilesTypeOK
  <1>2. CASE r = [op |-> "list"]
    <2>1. List
      <3>1. r.op = "list"
        BY <1>2
      <3>2. \/ r.op = "list" /\ List
            \/ r.op \in {"load", "save", "delete", "fetch"}
        BY DEF ServeRequest
      <3> QED
        BY <3>1, <3>2
    <2> DEFINE p == [name |-> "FoundPlaylists", entries |-> IF mpdConnected THEN stored ELSE {}]
    <2>2. p \in Posted /\ Post(p) /\ p.name = "FoundPlaylists"
      BY <2>1, MessagesHaveType DEF FilesTypeOK, List
    <2> HIDE DEF p
    <2>3. p \in Elements(posted')
      BY <2>2, PostKeepsType
    <2> QED
      BY <2>2, <2>3
  <1>3. CASE r # [op |-> "list"]
    BY <1>1, <1>3
  <1> QED
    BY <1>2, <1>3

(* The client thread takes no notification away.                           *)
LEMMA ServingPosts ==
  ASSUME FilesTypeOK, ServeRequest
  PROVE  Elements(posted) \subseteq Elements(posted')
  <1>1. ASSUME NEW p \in Posted, Post(p)
        PROVE  Elements(posted) \subseteq Elements(posted')
    BY <1>1, PostKeepsType
  <1>2. CASE List
    BY <1>1, <1>2, MessagesHaveType DEF List, FilesTypeOK
  <1>3. CASE UNCHANGED posted
    BY <1>3
  <1>4. CASE Post([name |-> "NumberOfPlaylistsChanged"])
    BY <1>1, <1>4, MessagesHaveType
  <1>5. ASSUME NEW n \in Names, Fetch(n)
        PROVE  Elements(posted) \subseteq Elements(posted')
    <2>1. [name |-> "FetchedNamedPlaylist", path |-> n, songs |-> Songs(n)] \in Posted
      BY SongsType, MessagesHaveType
    <2> QED
      BY <1>1, <1>5, <2>1 DEF Fetch
  <1> QED
    BY <1>2, <1>3, <1>4, <1>5, RequestServed DEF Load, Save, Delete

(* As long as there is no client, there is no connection, nothing is asked *)
(* and what is listed may not be the server's.                             *)
NoClientInv ==
  ~clientExists => unsure /\ ~mpdConnected /\ clientRequests = <<>>

LEMMA NoClientStep ==
  NoClientInv /\ [FilesNext]_filesVars => NoClientInv'
  <1> SUFFICES ASSUME NoClientInv, [FilesNext]_filesVars
               PROVE  NoClientInv'
    OBVIOUS
  <1>1. CASE UserStep
    <2>1. UNCHANGED <<clientExists, mpdConnected, unsure>>
      BY <1>1
      DEF UserStep, RefreshClicked, ToggleDrawer, LoadSelectedPlaylist, DeleteClicked, SelectRow,
          ProvideData, DeleteConfirmationButtonClicked, DataProvided, SavePlayListAction, clientVars
    <2>2. ~clientExists => UNCHANGED clientRequests
      BY <1>1
      DEF UserStep, RefreshClicked, ToggleDrawer, LoadSelectedPlaylist, DeleteClicked, SelectRow,
          ProvideData, DeleteConfirmationButtonClicked, DataProvided, SavePlayListAction,
          DeleteSelectedPlaylist, Refresh, Ask
    <2> QED
      BY <2>1, <2>2 DEF NoClientInv
  <1>2. CASE OthersStep
    BY <1>2
    DEF OthersStep, SwitchProfile, SetMusicClient, ConnectionChanges, OthersWrite, OthersDelete,
        NoClientInv, clientVars
  <1>3. CASE ServePosted
    BY <1>3
    DEF ServePosted, HandlePosted, FoundPlaylists, Connected, Disconnected, Refresh, Ask,
        NoClientInv, clientVars
  <1>4. CASE ServeRequest
    BY <1>4 DEF ServeRequest, NoClientInv, clientVars
  <1>5. CASE UNCHANGED filesVars
    BY <1>5 DEF filesVars, clientVars, NoClientInv
  <1> QED
    BY <1>1, <1>2, <1>3, <1>4, <1>5 DEF FilesNext, FilesStep, UserStep, OthersStep

LEMMA NoClientHolds ==
  FilesSpec => []NoClientInv
  <1>1. FilesInit => NoClientInv
    BY DEF FilesInit, NoClientInv
  <1> QED
    BY <1>1, NoClientStep, PTL DEF FilesSpec

(* A loss that is still to be handled is followed by the connection there  *)
(* is now.                                                                 *)
LossesAreOver ==
  mpdConnected =>
    \A i \in 1..Len(posted) : posted[i].name = "Disconnected"
      => \E j \in 1..Len(posted) : j > i /\ posted[j].name = "Connected"

LEMMA PostKeepsLosses ==
  ASSUME FilesTypeOK, LossesAreOver, NEW p \in Posted, Post(p), p.name # "Disconnected",
         mpdConnected
  PROVE  LossesAreOver'
  <1> DEFINE n == Len(posted)
  <1>1. posted \in Seq(Posted) /\ posted' = Append(posted, p)
    BY DEF FilesTypeOK, Post
  <1>2. /\ n \in Nat /\ Len(posted') = n + 1
        /\ \A i \in 1..n : posted'[i] = posted[i]
        /\ posted'[n + 1] = p
    BY <1>1, AppendProperties, LenProperties
  <1>3. \A i \in 1..n : posted[i].name = "Disconnected"
           => \E j \in 1..n : j > i /\ posted[j].name = "Connected"
    BY DEF LossesAreOver
  <1> HIDE DEF n
  <1>4. ASSUME NEW i \in 1..(n + 1), posted'[i].name = "Disconnected"
        PROVE  \E j \in 1..(n + 1) : j > i /\ posted'[j].name = "Connected"
    <2>1. i \in 1..n
      BY <1>2, <1>4
    <2>2. PICK j \in 1..n : j > i /\ posted[j].name = "Connected"
      BY <1>2, <1>3, <1>4, <2>1
    <2> QED
      BY <1>2, <2>2
  <1> QED
    BY <1>2, <1>4 DEF LossesAreOver

LEMMA LossesStep ==
  FilesTypeOK /\ LossesAreOver /\ [FilesNext]_filesVars => LossesAreOver'
  <1> SUFFICES ASSUME FilesTypeOK, LossesAreOver, [FilesNext]_filesVars
               PROVE  LossesAreOver'
    OBVIOUS
  <1>1. CASE UNCHANGED <<posted, mpdConnected>>
    BY <1>1 DEF LossesAreOver
  <1>2. CASE ServePosted
    <2> DEFINE n == Len(posted)
    <2>1. posted \in Seq(Posted) /\ posted # <<>> /\ posted' = Tail(posted)
          /\ UNCHANGED mpdConnected
      BY <1>2 DEF FilesTypeOK, ServePosted, clientVars
    <2>2. /\ n \in Nat \ {0} /\ Len(posted') = n - 1
          /\ \A i \in 1..(n - 1) : posted'[i] = posted[i + 1]
      BY <2>1, HeadTailProperties, EmptySeq
    <2>3. mpdConnected => \A i \in 1..n : posted[i].name = "Disconnected"
             => \E j \in 1..n : j > i /\ posted[j].name = "Connected"
      BY DEF LossesAreOver
    <2> HIDE DEF n
    <2>4. ASSUME mpdConnected, NEW i \in 1..(n - 1), posted'[i].name = "Disconnected"
          PROVE  \E j \in 1..(n - 1) : j > i /\ posted'[j].name = "Connected"
      <3>1. i + 1 \in 1..n /\ posted[i + 1].name = "Disconnected"
        BY <2>2, <2>4
      <3>2. PICK j \in 1..n : j > i + 1 /\ posted[j].name = "Connected"
        BY <2>3, <2>4, <3>1
      <3>3. j - 1 \in 1..(n - 1) /\ j - 1 > i /\ (j - 1) + 1 = j
        BY <2>2, <3>2
      <3>4. posted'[j - 1].name = "Connected"
        BY <2>2, <3>2, <3>3
      <3> QED
        BY <3>3, <3>4
    <2> QED
      BY <2>1, <2>2, <2>4 DEF LossesAreOver
  <1>3. CASE ServeRequest
    <2>1. ASSUME NEW p \in Posted, Post(p), p.name # "Disconnected", UNCHANGED mpdConnected
          PROVE  LossesAreOver'
      BY <2>1, PostKeepsLosses DEF LossesAreOver
    <2>2. UNCHANGED mpdConnected
      BY <1>3 DEF ServeRequest, clientVars
    <2>3. CASE List
      <3> DEFINE p == [name |-> "FoundPlaylists", entries |-> IF mpdConnected THEN stored ELSE {}]
      <3>1. p \in Posted /\ p.name # "Disconnected" /\ Post(p)
        BY <2>3, MessagesHaveType DEF List, FilesTypeOK
      <3> HIDE DEF p
      <3> QED
        BY <2>1, <2>2, <3>1
    <2>4. CASE Post([name |-> "NumberOfPlaylistsChanged"])
      <3> DEFINE p == [name |-> "NumberOfPlaylistsChanged"]
      <3>1. p \in Posted /\ p.name # "Disconnected" /\ Post(p)
        BY <2>4, MessagesHaveType
      <3> HIDE DEF p
      <3> QED
        BY <2>1, <2>2, <3>1
    <2>5. ASSUME NEW n \in Names, Fetch(n)
          PROVE  LossesAreOver'
      <3> DEFINE p == [name |-> "FetchedNamedPlaylist", path |-> n, songs |-> Songs(n)]
      <3>1. p \in Posted /\ p.name # "Disconnected" /\ Post(p)
        BY <2>5, SongsType, MessagesHaveType DEF Fetch
      <3> HIDE DEF p
      <3> QED
        BY <2>1, <2>2, <3>1
    <2> QED
      BY <1>1, <1>3, <2>2, <2>3, <2>4, <2>5, RequestServed DEF Load, Save, Delete
  <1>4. CASE ConnectionChanges
    <2>1. CASE mpdConnected
      BY <1>4, <2>1 DEF ConnectionChanges, LossesAreOver
    <2>2. CASE ~mpdConnected
      <3> DEFINE p == [name |-> "Connected"]
                 n == Len(posted)
      <3>1. p.name = "Connected" /\ p \in Posted /\ posted' = Append(posted, p)
        BY <1>4, <2>2, MessagesHaveType DEF ConnectionChanges, Post
      <3>2. posted \in Seq(Posted)
        BY DEF FilesTypeOK
      <3> HIDE DEF p
      <3>3. /\ n \in Nat /\ Len(posted') = n + 1 /\ posted'[n + 1] = p
        BY <3>1, <3>2, AppendProperties, LenProperties
      <3> HIDE DEF n
      <3>4. ASSUME NEW i \in 1..(n + 1), posted'[i].name = "Disconnected"
            PROVE  \E j \in 1..(n + 1) : j > i /\ posted'[j].name = "Connected"
        <4>1. i # n + 1
          BY <3>1, <3>3, <3>4
        <4>2. n + 1 \in 1..(n + 1) /\ n + 1 > i
          BY <3>3, <4>1
        <4> QED
          BY <3>1, <3>3, <4>2
      <3> QED
        BY <3>3, <3>4 DEF LossesAreOver
    <2> QED
      BY <2>1, <2>2
  <1>5. CASE SwitchProfile
    BY <1>5 DEF SwitchProfile, LossesAreOver
  <1>6. CASE UserStep \/ SetMusicClient \/ \E n \in Names : OthersWrite(n) \/ OthersDelete(n)
    BY <1>1, <1>6
    DEF UserStep, RefreshClicked, ToggleDrawer, LoadSelectedPlaylist, DeleteClicked, SelectRow,
        ProvideData, DeleteConfirmationButtonClicked, DataProvided, SavePlayListAction,
        SetMusicClient, OthersWrite, OthersDelete, clientVars
  <1>7. CASE UNCHANGED filesVars
    BY <1>1, <1>7 DEF filesVars, clientVars
  <1> QED
    BY <1>2, <1>3, <1>4, <1>5, <1>6, <1>7 DEF FilesNext, FilesStep, UserStep

(* A refresh asks, or finds no client, and then there is no connection.    *)
LEMMA RefreshAsks ==
  ASSUME FilesTypeOK, NoClientInv, Refresh, UNCHANGED mpdConnected
  PROVE  TableComesBack'
  BY RefreshType DEF NoClientInv, TableComesBack

LEMMA TableStep ==
  FilesTypeOK /\ NoClientInv /\ LossesAreOver /\ TableComesBack /\ [FilesNext]_filesVars
    => TableComesBack'
  <1> SUFFICES ASSUME FilesTypeOK, NoClientInv, LossesAreOver, TableComesBack,
                      [FilesNext]_filesVars
               PROVE  TableComesBack'
    OBVIOUS
  <1>1. CASE /\ UserStep \/ OthersStep
             /\ UNCHANGED <<tableEnabled, unasked, mPlaylists>>
             /\ drawerOpen' => drawerOpen \/ mPlaylists # NoName
             /\ mpdConnected' => mpdConnected \/ \E p \in Elements(posted') : p.name = "Connected"
    BY <1>1, QueuesGrow DEF TableComesBack
  <1>2. CASE ConnectionChanges
    <2>1. CASE mpdConnected
      BY <1>1, <1>2, <2>1 DEF ConnectionChanges, OthersStep, listVars
    <2>2. CASE ~mpdConnected
      <3> DEFINE p == [name |-> "Connected"]
      <3>1. p \in Posted /\ p.name = "Connected" /\ Post(p)
        BY <1>2, <2>2, MessagesHaveType DEF ConnectionChanges
      <3> HIDE DEF p
      <3>2. p \in Elements(posted')
        BY <3>1, PostKeepsType
      <3> QED
        BY <1>1, <1>2, <3>1, <3>2 DEF ConnectionChanges, OthersStep, listVars
    <2> QED
      BY <2>1, <2>2
  <1>3. CASE SwitchProfile \/ SetMusicClient \/ \E n \in Names : OthersWrite(n) \/ OthersDelete(n)
    BY <1>1, <1>3
    DEF SwitchProfile, SetMusicClient, OthersWrite, OthersDelete, OthersStep, listVars, clientVars
  <1>4. CASE RefreshClicked
    BY <1>4, RefreshAsks DEF RefreshClicked, clientVars
  <1>5. CASE ToggleDrawer
    <2>1. CASE Refresh
      BY <1>5, <2>1, RefreshAsks DEF ToggleDrawer, clientVars
    <2>2. CASE (drawerOpen' => mPlaylists # NoName) /\ UNCHANGED <<tableEnabled, unasked>>
      BY <1>1, <1>5, <2>2 DEF ToggleDrawer, UserStep, clientVars
    <2> QED
      BY <1>5, <2>1, <2>2 DEF ToggleDrawer
  <1>6. CASE UserStep /\ UNCHANGED <<listVars, clientVars>>
    BY <1>1, <1>6 DEF listVars, clientVars
  <1>7. CASE \E n \in Listed : SelectRow(n)
    BY <1>1, <1>7 DEF SelectRow, UserStep, clientVars
  <1>8. CASE ServeRequest
    <2>1. UNCHANGED <<tableEnabled, unasked, mPlaylists, drawerOpen, mpdConnected>>
      BY <1>8 DEF ServeRequest, listVars, clientVars
    <2> QED
      BY <1>8, <2>1, ListAnswered, ServingPosts DEF TableComesBack
  <1>9. CASE ServePosted
    <2>1. Elements(posted) = {Head(posted)} \cup Elements(posted')
      BY <1>9, TailElements DEF ServePosted, FilesTypeOK
    <2>2. UNCHANGED mpdConnected
      BY <1>9 DEF ServePosted, clientVars
    <2>3. CASE Head(posted).name = "FoundPlaylists"
      BY <1>9, <2>3
      DEF ServePosted, HandlePosted, FoundPlaylists, Connected, Disconnected, TableComesBack
    <2>4. CASE Refresh
      BY <2>2, <2>4, RefreshAsks
    <2>5. CASE /\ UNCHANGED <<listVars, clientRequests>>
               /\ Head(posted).name = "FetchedNamedPlaylist"
      BY <2>1, <2>2, <2>5 DEF TableComesBack, listVars
    <2>6. CASE Head(posted).name = "Connected" /\ Connected /\ ~drawerOpen
      BY <2>1, <2>2, <2>6 DEF Connected, TableComesBack
    <2>7. CASE Head(posted).name = "Disconnected" /\ Disconnected
      <3>1. mpdConnected => \E p \in Elements(posted') : p.name = "Connected"
        <4>1. /\ posted \in Seq(Posted) /\ posted # <<>> /\ Head(posted) = posted[1]
              /\ Len(posted) \in Nat \ {0}
          BY <1>9, HeadTailProperties, EmptySeq DEF FilesTypeOK, ServePosted
        <4>2. mpdConnected => \E j \in 1..Len(posted) : posted[j].name = "Connected"
          BY <2>7, <4>1 DEF LossesAreOver
        <4>3. Len(posted) \in Nat /\ DOMAIN posted = 1..Len(posted)
          BY <4>1, LenProperties
        <4>4. mpdConnected => \E p \in Elements(posted) : p.name = "Connected"
          BY <4>2, <4>3 DEF Elements
        <4> QED
          BY <2>1, <2>7, <4>4
      <3> QED
        BY <2>1, <2>2, <2>7, <3>1 DEF Disconnected, TableComesBack
    <2> QED
      BY <1>9, <2>3, <2>4, <2>5, <2>6, <2>7
      DEF ServePosted, HandlePosted, Connected
  <1>10. CASE UNCHANGED filesVars
    BY <1>10 DEF filesVars, listVars, clientVars, TableComesBack
  <1>11. UserStep => RefreshClicked \/ ToggleDrawer \/ (\E n \in Listed : SelectRow(n))
                     \/ UNCHANGED <<listVars, clientVars>>
    BY DEF UserStep, LoadSelectedPlaylist, DeleteClicked, ProvideData,
           DeleteConfirmationButtonClicked, DataProvided, SavePlayListAction
  <1> QED
    BY <1>2, <1>3, <1>4, <1>5, <1>6, <1>7, <1>8, <1>9, <1>10, <1>11
    DEF FilesNext, FilesStep, UserStep

\* Whenever the table is disabled, a list is asked for or its answer is waiting,
\* with however many refreshes, drops, sheets and lost connections in between;
\* or the refresh that disabled it found no client, as when the program starts
\* and after a change of the profile, and then, with an open drawer and nothing
\* listed, it is asked again when the connection is there
\* (PlayListFilesController.m 86-87, 100-143, 224-244, WindowController.m 224-228,
\* MusicServerClient.m 280-289).
THEOREM TableIsEnabledAgain == FilesSpec => []TableComesBack
  <1>1. FilesInit => LossesAreOver /\ TableComesBack
    <2> SUFFICES ASSUME FilesInit
                 PROVE  LossesAreOver /\ TableComesBack
      OBVIOUS
    <2>1. ~mpdConnected
      BY DEF FilesInit
    <2>2. CASE drawerOpen
      BY <2>1, <2>2, ZenonT(20) DEF FilesInit, LossesAreOver, TableComesBack
    <2>3. CASE ~drawerOpen
      BY <2>1, <2>3, ZenonT(20) DEF FilesInit, LossesAreOver, TableComesBack
    <2> QED
      BY <2>2, <2>3
  <1> QED
    BY <1>1, TableStep, LossesStep, NoClientHolds, FilesTypeCorrect, PTL DEF FilesSpec

-----------------------------------------------------------------------------
(* A drop carries its playlist.                                            *)

\* What may be given to the drop d of playlist n
AnswersAreFresh(n, d, songs) ==
  IF songs = <<>> THEN d.missing \/ d.late
  ELSE songs[1] = n /\ (songs[2] >= d.since \/ d.late)

IsFetched(p) == p.name = "FetchedNamedPlaylist"

\* Whatever waits for the main thread is of the playlist it names, and fresh
\* if it is for the drop that waits.
DragInv ==
  /\ \A p \in Elements(posted) : IsFetched(p) => p.songs = <<>> \/ p.songs[1] = p.path
  /\ mPathOfNamedPlaylistBeingFetched = NoName <=> drop = NoName
  /\ mPathOfNamedPlaylistBeingFetched # NoName =>
       /\ drop.since <= version[mPathOfNamedPlaylistBeingFetched]
       /\ Missing(mPathOfNamedPlaylistBeingFetched) => drop.missing
       /\ \A p \in Elements(posted) :
            IsFetched(p) /\ p.path = mPathOfNamedPlaylistBeingFetched
              => AnswersAreFresh(mPathOfNamedPlaylistBeingFetched, drop, p.songs)
       /\ mFetchedNamedPlaylist # NoName =>
            AnswersAreFresh(mPathOfNamedPlaylistBeingFetched, drop, mFetchedNamedPlaylist)

LEMMA SongsOfName ==
  ASSUME FilesTypeOK, NEW n \in Names
  PROVE  /\ Missing(n) => Songs(n) = <<>>
         /\ ~Missing(n) => Songs(n) # <<>> /\ Songs(n)[1] = n /\ Songs(n)[2] = version[n]
  BY DEF Missing, Songs

\* Only an answer of the server adds songs to what waits.
Answer(p) ==
  /\ p.path \in Names /\ p.songs = Songs(p.path)
  /\ UNCHANGED <<mPathOfNamedPlaylistBeingFetched, clientVars, serverVars>>

LEMMA NewSongs ==
  ASSUME FilesTypeOK, FilesStep, NEW p \in Elements(posted'), IsFetched(p)
  PROVE  p \in Elements(posted) \/ Answer(p)
  <1>1. ASSUME NEW q \in Posted, Post(q), ~IsFetched(q)
        PROVE  p \in Elements(posted)
    <2>1. Elements(posted') = Elements(posted) \cup {q}
      BY <1>1, PostKeepsType
    <2> QED
      BY <1>1, <2>1
  <1>2. CASE UNCHANGED posted
    BY <1>2
  <1>3. CASE ServePosted
    BY <1>3, TailElements DEF ServePosted, FilesTypeOK
  <1>4. CASE ConnectionChanges
    <2> DEFINE q == [name |-> IF mpdConnected THEN "Disconnected" ELSE "Connected"]
    <2>1. q \in Posted /\ ~IsFetched(q) /\ Post(q)
      BY <1>4, MessagesHaveType DEF ConnectionChanges, IsFetched
    <2> HIDE DEF q
    <2> QED
      BY <1>1, <2>1
  <1>5. CASE ServeRequest
    <2>1. CASE List
      <3> DEFINE q == [name |-> "FoundPlaylists",
                       entries |-> IF mpdConnected THEN stored ELSE {}]
      <3>1. q \in Posted /\ ~IsFetched(q) /\ Post(q)
        BY <2>1, MessagesHaveType DEF List, FilesTypeOK, IsFetched
      <3> HIDE DEF q
      <3> QED
        BY <1>1, <3>1
    <2>2. CASE Post([name |-> "NumberOfPlaylistsChanged"])
      <3> DEFINE q == [name |-> "NumberOfPlaylistsChanged"]
      <3>1. q \in Posted /\ ~IsFetched(q) /\ Post(q)
        BY <2>2, MessagesHaveType DEF IsFetched
      <3> HIDE DEF q
      <3> QED
        BY <1>1, <3>1
    <2>3. ASSUME NEW n \in Names, Fetch(n)
          PROVE  p \in Elements(posted) \/ Answer(p)
      <3> DEFINE q == [name |-> "FetchedNamedPlaylist", path |-> n, songs |-> Songs(n)]
      <3>1. q \in Posted /\ Post(q)
        BY <2>3, SongsType, MessagesHaveType DEF Fetch
      <3>2. q.path = n /\ q.songs = Songs(n)
        OBVIOUS
      <3>3. UNCHANGED <<mPathOfNamedPlaylistBeingFetched, clientVars, serverVars>>
        BY <1>5, <2>3 DEF ServeRequest, Fetch, dragVars
      <3> HIDE DEF q
      <3>4. p \in Elements(posted) \cup {q}
        BY <3>1, PostKeepsType
      <3> QED
        BY <3>2, <3>3, <3>4 DEF Answer
    <2> QED
      BY <1>2, <1>5, <2>1, <2>2, <2>3, RequestServed DEF Load, Save, Delete
  <1>6. CASE UserStep
    BY <1>2, <1>6
    DEF UserStep, RefreshClicked, ToggleDrawer, LoadSelectedPlaylist, DeleteClicked, SelectRow,
        ProvideData, DeleteConfirmationButtonClicked, DataProvided, SavePlayListAction
  <1>7. CASE SwitchProfile \/ SetMusicClient \/ \E n \in Names : OthersWrite(n) \/ OthersDelete(n)
    BY <1>2, <1>7 DEF SwitchProfile, SetMusicClient, OthersWrite, OthersDelete
  <1> QED
    BY <1>3, <1>4, <1>5, <1>6, <1>7 DEF FilesStep, UserStep

\* The drop that waits, and what it has got
LEMMA DropMoves ==
  ASSUME FilesTypeOK, FilesStep
  PROVE  \/ /\ mPathOfNamedPlaylistBeingFetched' = mPathOfNamedPlaylistBeingFetched
            /\ \/ mFetchedNamedPlaylist' = mFetchedNamedPlaylist
               \/ \E p \in Elements(posted) :
                    /\ IsFetched(p) /\ p.path = mPathOfNamedPlaylistBeingFetched
                    /\ mFetchedNamedPlaylist' = p.songs
         \/ mPathOfNamedPlaylistBeingFetched' = NoName
         \/ /\ mPathOfNamedPlaylistBeingFetched = NoName
            /\ mFetchedNamedPlaylist' = NoName
            /\ UNCHANGED <<posted, clientVars, serverVars>>
  <1>1. CASE DataProvided
    BY <1>1 DEF DataProvided
  <1>2. CASE \E n \in Listed : ProvideData(n)
    BY <1>2 DEF ProvideData, UserActs
  <1>3. CASE UNCHANGED dragVars
    BY <1>3 DEF dragVars
  <1>4. CASE ServePosted
    <2> DEFINE p == Head(posted)
    <2>1. p \in Elements(posted)
      BY <1>4, TailElements DEF ServePosted, FilesTypeOK
    <2>2. HandlePosted(p)
      BY <1>4 DEF ServePosted
    <2> HIDE DEF p
    <2>3. CASE /\ p.name = "FetchedNamedPlaylist" /\ FetchedNamedPlaylist(p)
               /\ UNCHANGED mPathOfNamedPlaylistBeingFetched
      BY <2>1, <2>3 DEF FetchedNamedPlaylist, IsFetched
    <2> QED
      BY <1>3, <2>2, <2>3 DEF HandlePosted, FoundPlaylists, Connected, Disconnected, dragVars
  <1> QED
    BY <1>1, <1>2, <1>3, <1>4
    DEF FilesStep, RefreshClicked, ToggleDrawer, LoadSelectedPlaylist, DeleteClicked, SelectRow,
        DeleteConfirmationButtonClicked, SavePlayListAction, ServeRequest, ConnectionChanges,
        SwitchProfile, SetMusicClient, OthersWrite, OthersDelete, dragVars

LEMMA VersionsGrow ==
  ASSUME FilesTypeOK, FilesStep, NEW n \in Names
  PROVE  version[n] \in Nat /\ version'[n] \in Nat /\ version[n] <= version'[n]
  <1>1. version \in [Names -> 0..MaxVersion] /\ MaxVersion \in Nat
    BY FilesAssumption DEF FilesTypeOK
  <1>2. \A k \in Names : version[k] \in Nat
    BY <1>1
  <1>3. ASSUME NEW k \in Names, version' = [version EXCEPT ![k] = @ + 1]
        PROVE  version'[n] = version[n] \/ version'[n] = version[n] + 1
    BY <1>1, <1>3
  <1>4. \/ UNCHANGED version
        \/ \E k \in Names : version' = [version EXCEPT ![k] = @ + 1]
    <2>1. CASE ServeRequest
      BY <2>1, RequestServed DEF List, Load, Save, Delete, Fetch, serverVars, clientVars
    <2> QED
      BY <2>1
      DEF FilesStep, RefreshClicked, ToggleDrawer, LoadSelectedPlaylist, DeleteClicked, SelectRow,
          ProvideData, DeleteConfirmationButtonClicked, DataProvided, SavePlayListAction,
          ServePosted, ConnectionChanges, SwitchProfile, SetMusicClient, OthersWrite,
          OthersDelete, serverVars
  <1>5. version'[n] = version[n] \/ version'[n] = version[n] + 1
    BY <1>3, <1>4
  <1> QED
    BY <1>2, <1>5

LEMMA DragStep ==
  FilesTypeOK /\ FilesTypeOK' /\ DragInv /\ [FilesNext]_filesVars => DragInv'
  <1> SUFFICES ASSUME FilesTypeOK, FilesTypeOK', DragInv, [FilesNext]_filesVars
               PROVE  DragInv'
    OBVIOUS
  <1>1. CASE UNCHANGED filesVars
    BY <1>1
    DEF filesVars, dragVars, serverVars, clientVars, DragInv, Missing
  <1>2. CASE FilesNext
    <2> DEFINE n == mPathOfNamedPlaylistBeingFetched
    <2>1. FilesStep /\ TrackDrop
      BY <1>2 DEF FilesNext
    <2>2. ASSUME NEW p \in Elements(posted'), IsFetched(p)
          PROVE  p.songs = <<>> \/ p.songs[1] = p.path
      BY <2>1, <2>2, NewSongs, SongsOfName DEF Answer, DragInv
    <2>3. n' \in Names \cup {NoName} /\ drop \in Drop \cup {NoName}
      BY DEF FilesTypeOK
    <2>4. CASE n' = NoName
      <3>1. drop' = NoName
        BY <2>1, <2>4 DEF TrackDrop
      <3> QED
        BY <2>2, <2>4, <3>1 DEF DragInv
    <2>5. CASE /\ n = NoName /\ n' # NoName /\ mFetchedNamedPlaylist' = NoName
               /\ UNCHANGED <<posted, clientVars, serverVars>>
      <3> DEFINE k == n'
      <3>1. drop = NoName /\ k \in Names
        BY <2>3, <2>5 DEF DragInv
      <3>2. drop' = [since |-> version[k], late |-> Fetching(k), missing |-> Missing(k)]
        BY <2>1, <2>5, <3>1 DEF TrackDrop
      <3>3. drop'.since = version[k] /\ drop'.late = Fetching(k) /\ drop'.missing = Missing(k)
        BY <3>2
      <3>4. drop' # NoName
        <4>1. version[k] \in 0..MaxVersion /\ Fetching(k) \in BOOLEAN /\ Missing(k) \in BOOLEAN
          BY <3>1 DEF FilesTypeOK, Fetching, Missing
        <4> HIDE DEF k
        <4>2. drop' \in Drop
          BY <3>2, <4>1 DEF Drop
        <4> QED
          BY <4>2, FilesAssumption
      <3>5. UNCHANGED <<stored, version>> /\ (Missing(n))' = Missing(k)
        BY <2>5 DEF serverVars, clientVars, Missing
      <3>6. version[k] \in Nat
        BY <2>1, <3>1, VersionsGrow
      <3>7. ASSUME NEW p \in Elements(posted'), IsFetched(p), p.path = k
            PROVE  AnswersAreFresh(k, drop', p.songs)
        <4>1. Fetching(k)
          BY <2>5, <3>7 DEF Fetching, IsFetched
        <4> QED
          BY <2>2, <3>3, <3>7, <4>1 DEF AnswersAreFresh
      <3> QED
        BY <2>2, <2>5, <3>3, <3>4, <3>5, <3>6, <3>7 DEF DragInv
    <2>6. CASE n' = n /\ n # NoName
      <3>1. n \in Names /\ drop \in Drop
        BY <2>3, <2>6 DEF DragInv
      <3> DEFINE missing == (Missing(n))'
      <3>2. drop' = [drop EXCEPT !.missing = drop.missing \/ missing]
        BY <2>1, <2>6, <3>1 DEF TrackDrop, DragInv
      <3>3. missing \in BOOLEAN
        BY DEF Missing
      <3> HIDE DEF missing
      <3>4. /\ drop'.since = drop.since /\ drop'.late = drop.late
            /\ drop'.missing <=> (drop.missing \/ missing)
            /\ drop' \in Drop
        BY <3>1, <3>2, <3>3 DEF Drop
      <3>5. ASSUME NEW songs, AnswersAreFresh(n, drop, songs)
            PROVE  AnswersAreFresh(n, drop', songs)
        BY <3>4, <3>5 DEF AnswersAreFresh
      <3>6. ASSUME NEW p \in Elements(posted'), IsFetched(p), p.path = n
            PROVE  AnswersAreFresh(n, drop', p.songs)
        <4>1. CASE p \in Elements(posted)
          BY <2>6, <3>5, <3>6, <4>1 DEF DragInv
        <4>2. CASE p.songs = Songs(n) /\ Missing(n)
          BY <2>6, <3>1, <3>5, <4>2, SongsOfName DEF DragInv, AnswersAreFresh
        <4>3. CASE p.songs = Songs(n) /\ ~Missing(n)
          <5>1. p.songs # <<>> /\ p.songs[1] = n /\ p.songs[2] = version[n]
            BY <3>1, <4>3, SongsOfName
          <5>2. drop.since <= version[n] /\ version[n] \in Nat /\ drop.since \in Nat
            BY <2>1, <2>6, <3>1, VersionsGrow DEF DragInv, Drop
          <5>3. p.songs[2] >= drop.since
            BY <5>1, <5>2
          <5>4. AnswersAreFresh(n, drop, p.songs)
            BY <5>1, <5>3 DEF AnswersAreFresh
          <5> QED
            BY <3>5, <5>4
        <4> QED
          BY <2>1, <3>6, <4>1, <4>2, <4>3, NewSongs DEF Answer
      <3>7. drop'.since <= version'[n]
        <4>1. drop.since <= version[n] /\ drop.since \in Nat
          BY <2>6, <3>1 DEF DragInv, Drop
        <4>2. version[n] \in Nat /\ version'[n] \in Nat /\ version[n] <= version'[n]
          BY <2>1, <3>1, VersionsGrow
        <4> QED
          BY <3>4, <4>1, <4>2
      <3>8. missing => drop'.missing
        BY <3>4
      <3>9. mFetchedNamedPlaylist' # NoName => AnswersAreFresh(n, drop', mFetchedNamedPlaylist')
        <4>1. CASE mFetchedNamedPlaylist' = mFetchedNamedPlaylist
          BY <2>6, <3>5, <4>1 DEF DragInv
        <4>2. ASSUME NEW p \in Elements(posted), IsFetched(p), p.path = n,
                     mFetchedNamedPlaylist' = p.songs
              PROVE  AnswersAreFresh(n, drop', mFetchedNamedPlaylist')
          BY <2>6, <3>5, <4>2 DEF DragInv
        <4> QED
          BY <2>1, <2>6, <4>1, <4>2, DropMoves
      <3>10. drop' # NoName
        BY <3>4, FilesAssumption
      <3> QED
        BY <2>2, <2>6, <3>6, <3>7, <3>8, <3>9, <3>10 DEF DragInv, missing
    <2> QED
      BY <2>1, <2>4, <2>5, <2>6, DropMoves
  <1> QED
    BY <1>1, <1>2

\* A drop gets the songs of the playlist that was dragged and none older than
\* itself, however many drops before it were given up and are answered now
\* (PlayListFilesController.m 276-319, MpdMusicServerClient.m 433-444).
THEOREM DragsCarryTheirPlaylist == FilesSpec => []DragCarriesPlaylist
  <1>1. FilesInit => DragInv
    <2> SUFFICES ASSUME FilesInit PROVE DragInv
      OBVIOUS
    <2> QED
      BY NoElements DEF FilesInit, DragInv
  <1>2. FilesTypeOK /\ DragInv => DragCarriesPlaylist
    BY DEF DragInv, AnswersAreFresh, DragCarriesPlaylist
  <1> QED
    BY <1>1, <1>2, DragStep, FilesTypeCorrect, PTL DEF FilesSpec

-----------------------------------------------------------------------------
(* The list follows the client's own changes.                              *)

\* A list that will be fetched and shown
ListIsComing ==
  \/ [op |-> "list"] \in Elements(clientRequests)
  \/ \E p \in Elements(posted) : p.name = "NumberOfPlaylistsChanged"

SetsList(p) == p.name \in {"FoundPlaylists", "Disconnected"}

\* What is shown once all notifications are handled is the server's list, or
\* nothing.
LastShownIsStored ==
  /\ (\A j \in 1..Len(posted) : ~SetsList(posted[j])) => mPlaylists \in {NoName, stored}
  /\ \A i \in 1..Len(posted) :
       posted[i].name = "FoundPlaylists"
       /\ (\A j \in 1..Len(posted) : j > i => ~SetsList(posted[j]))
         => posted[i].entries = stored

ListInv == unsure \/ ListIsComing \/ LastShownIsStored

LEMMA PostKeepsShown ==
  ASSUME FilesTypeOK, NEW p \in Posted, Post(p), UNCHANGED <<mPlaylists, stored>>,
         \/ p.name = "FoundPlaylists" /\ p.entries = stored
         \/ p.name # "FoundPlaylists" /\ LastShownIsStored
  PROVE  LastShownIsStored'
  <1> DEFINE n == Len(posted)
  <1>1. posted \in Seq(Posted) /\ posted' = Append(posted, p)
    BY DEF FilesTypeOK, Post
  <1>2. /\ n \in Nat /\ Len(posted') = n + 1
        /\ \A i \in 1..n : posted'[i] = posted[i]
        /\ posted'[n + 1] = p
    BY <1>1, AppendProperties, LenProperties
  <1> HIDE DEF n
  <1>3. \A i \in 1..(n + 1) : i \in 1..n \/ i = n + 1
    BY <1>2
  <1>4. n + 1 \in 1..(n + 1) /\ \A i \in 1..n : i \in 1..(n + 1) /\ n + 1 > i
    BY <1>2
  <1>5. CASE p.name = "FoundPlaylists" /\ p.entries = stored
    BY <1>2, <1>3, <1>4, <1>5 DEF LastShownIsStored, SetsList
  <1>6. CASE p.name = "Disconnected" /\ LastShownIsStored
    BY <1>2, <1>3, <1>4, <1>6 DEF LastShownIsStored, SetsList
  <1>7. CASE ~SetsList(p) /\ LastShownIsStored
    BY <1>2, <1>3, <1>4, <1>7 DEF LastShownIsStored, SetsList, n
  <1> QED
    BY <1>5, <1>6, <1>7 DEF SetsList

LEMMA HandlingKeepsShown ==
  ASSUME FilesTypeOK, ServePosted, LastShownIsStored
  PROVE  LastShownIsStored'
  <1> DEFINE p == Head(posted)
             n == Len(posted)
  <1>1. posted \in Seq(Posted) /\ posted # <<>> /\ posted' = Tail(posted)
    BY DEF FilesTypeOK, ServePosted
  <1>2. /\ n \in Nat \ {0} /\ Len(posted') = n - 1 /\ p = posted[1]
        /\ \A i \in 1..(n - 1) : posted'[i] = posted[i + 1]
    BY <1>1, HeadTailProperties, EmptySeq
  <1>3. HandlePosted(p) /\ UNCHANGED stored
    BY DEF ServePosted, serverVars, clientVars
  <1> HIDE DEF p, n
  <1>4. /\ 1 \in 1..n
        /\ \A i \in 1..(n - 1) : i + 1 \in 1..n /\ i + 1 > 1
        /\ \A i, j \in 1..(n - 1) : j > i <=> j + 1 > i + 1
        /\ \A j \in 1..n : j = 1 \/ (j - 1 \in 1..(n - 1) /\ (j - 1) + 1 = j)
    BY <1>2
  <1>5. ASSUME NEW i \in 1..(n - 1), posted'[i].name = "FoundPlaylists",
               \A j \in 1..(n - 1) : j > i => ~SetsList(posted'[j])
        PROVE  posted'[i].entries = stored
    <2>1. posted[i + 1].name = "FoundPlaylists" /\ i + 1 \in 1..n
      BY <1>2, <1>4, <1>5
    <2>2. ASSUME NEW j \in 1..n, j > i + 1 PROVE ~SetsList(posted[j])
      <3>1. j - 1 \in 1..(n - 1) /\ j - 1 > i /\ posted'[j - 1] = posted[j]
        BY <1>2, <2>2
      <3> QED
        BY <1>5, <3>1
    <2>3. posted[i + 1].entries = stored
      BY <2>1, <2>2 DEF LastShownIsStored, n
    <2> QED
      BY <1>2, <2>3
  <1>6. ASSUME \A j \in 1..(n - 1) : ~SetsList(posted'[j])
        PROVE  mPlaylists' \in {NoName, stored}
    <2>1. \A j \in 1..n : j > 1 => ~SetsList(posted[j])
      BY <1>2, <1>4, <1>6
    <2>2. CASE p.name = "FoundPlaylists" /\ mPlaylists' = p.entries
      BY <1>2, <1>4, <2>1, <2>2 DEF LastShownIsStored, n
    <2>3. CASE mPlaylists' = NoName
      BY <2>3
    <2>4. CASE ~SetsList(p) /\ UNCHANGED mPlaylists
      BY <1>2, <1>4, <2>1, <2>4 DEF LastShownIsStored, n
    <2> QED
      BY <1>3, <2>2, <2>3, <2>4
      DEF HandlePosted, FoundPlaylists, Connected, Disconnected, listVars, SetsList
  <1> QED
    BY <1>2, <1>3, <1>5, <1>6 DEF LastShownIsStored, n

\* Serving another request leaves a list that is asked for.
LEMMA StillListed ==
  ASSUME FilesTypeOK, ServeRequest, ~List
  PROVE  /\ [op |-> "list"] \in Elements(clientRequests)
              => [op |-> "list"] \in Elements(clientRequests')
         /\ Elements(posted) \subseteq Elements(posted')
  <1> DEFINE r == Head(clientRequests)
  <1>1. Elements(clientRequests) = {r} \cup Elements(clientRequests')
    BY TailElements DEF ServeRequest, FilesTypeOK
  <1>2. r.op # "list"
    BY DEF ServeRequest
  <1> HIDE DEF r
  <1> QED
    BY <1>1, <1>2, ServingPosts

LEMMA ListStep ==
  FilesTypeOK /\ NoClientInv /\ ListInv /\ [FilesNext]_filesVars => ListInv'
  <1> SUFFICES ASSUME FilesTypeOK, NoClientInv, ListInv, [FilesNext]_filesVars
               PROVE  ListInv'
    OBVIOUS
  <1>1. CASE UNCHANGED filesVars
    BY <1>1
    DEF filesVars, listVars, serverVars, clientVars, ListInv, ListIsComing, LastShownIsStored
  <1>2. CASE UserStep
    <2>1. UNCHANGED <<posted, unsure, stored, mPlaylists>>
      BY <1>2
      DEF UserStep, RefreshClicked, ToggleDrawer, LoadSelectedPlaylist, DeleteClicked, SelectRow,
          ProvideData, DeleteConfirmationButtonClicked, DataProvided, SavePlayListAction,
          serverVars, clientVars, listVars
    <2> QED
      BY <1>2, <2>1, QueuesGrow DEF ListInv, ListIsComing, LastShownIsStored, OthersStep
  <1>3. CASE ConnectionChanges
    <2> DEFINE p == [name |-> IF mpdConnected THEN "Disconnected" ELSE "Connected"]
    <2>1. p \in Posted /\ p.name # "FoundPlaylists" /\ Post(p)
      BY <1>3, MessagesHaveType DEF ConnectionChanges
    <2> HIDE DEF p
    <2>2. UNCHANGED <<clientRequests, unsure, stored, mPlaylists>>
      BY <1>3 DEF ConnectionChanges, serverVars, clientVars, listVars
    <2> QED
      BY <1>3, <2>1, <2>2, QueuesGrow, PostKeepsShown DEF OthersStep, ListInv, ListIsComing
  <1>4. ASSUME NEW n \in Names, OthersWrite(n)
        PROVE  ListInv'
    <2>1. unsure' \/ (UNCHANGED <<stored, unsure>>)
      BY <1>4 DEF OthersWrite, FilesTypeOK
    <2> QED
      BY <1>4, <2>1
      DEF OthersWrite, listVars, ListInv, ListIsComing, LastShownIsStored
  <1>5. ASSUME NEW n \in Names, OthersDelete(n)
        PROVE  ListInv'
    BY <1>5 DEF OthersDelete, ListInv
  <1>6. CASE ServePosted
    <2>1. CASE Refresh
      <3>1. UNCHANGED unsure
        BY <1>6 DEF ServePosted
      <3> QED
        BY <2>1, <3>1, RefreshType DEF NoClientInv, ListInv, ListIsComing
    <2>2. CASE UNCHANGED clientRequests /\ Head(posted).name # "NumberOfPlaylistsChanged"
      <3>1. Elements(posted) = {Head(posted)} \cup Elements(posted')
        BY <1>6, TailElements DEF ServePosted, FilesTypeOK
      <3>2. UNCHANGED unsure
        BY <1>6 DEF ServePosted
      <3> QED
        BY <1>6, <2>2, <3>1, <3>2, HandlingKeepsShown DEF ListInv, ListIsComing
    <2> QED
      BY <1>6, <2>1, <2>2
      DEF ServePosted, HandlePosted, FoundPlaylists, Connected, Disconnected
  <1>7. CASE ServeRequest
    <2>1. UNCHANGED mPlaylists
      BY <1>7 DEF ServeRequest, listVars
    <2>2. CASE List /\ mpdConnected
      <3> DEFINE p == [name |-> "FoundPlaylists", entries |-> stored]
      <3>1. p \in Posted /\ p.name = "FoundPlaylists" /\ p.entries = stored /\ Post(p)
        BY <2>2, MessagesHaveType DEF List, FilesTypeOK
      <3> HIDE DEF p
      <3>2. UNCHANGED stored
        BY <2>2 DEF List, serverVars, clientVars
      <3> QED
        BY <2>1, <3>1, <3>2, PostKeepsShown DEF ListInv
    <2>3. CASE List /\ ~mpdConnected
      BY <2>3 DEF List, ListInv
    <2>4. CASE Post([name |-> "NumberOfPlaylistsChanged"])
      <3> DEFINE p == [name |-> "NumberOfPlaylistsChanged"]
      <3>1. p \in Posted /\ p.name = "NumberOfPlaylistsChanged" /\ Post(p)
        BY <2>4, MessagesHaveType
      <3> HIDE DEF p
      <3>2. p \in Elements(posted')
        BY <3>1, PostKeepsType
      <3> QED
        BY <3>1, <3>2 DEF ListInv, ListIsComing
    <2>5. \/ List \/ Post([name |-> "NumberOfPlaylistsChanged"])
          \/ Load \/ \E n \in Names : Fetch(n)
      BY <1>7, RequestServed DEF Save, Delete
    <2>6. CASE Load \/ \E n \in Names : Fetch(n)
      <3>1. UNCHANGED <<unsure, stored>>
        BY <2>6 DEF Load, Fetch, serverVars, clientVars
      <3>2. CASE ListIsComing /\ ~List
        BY <1>7, <2>6, <3>2, StillListed DEF ListInv, ListIsComing
      <3>3. CASE LastShownIsStored /\ Load
        BY <2>1, <3>1, <3>3 DEF Load, ListInv, LastShownIsStored
      <3>4. ASSUME LastShownIsStored, NEW n \in Names, Fetch(n)
            PROVE  ListInv'
        <4> DEFINE p == [name |-> "FetchedNamedPlaylist", path |-> n, songs |-> Songs(n)]
        <4>1. p \in Posted /\ p.name # "FoundPlaylists" /\ Post(p)
          BY <3>4, SongsType, MessagesHaveType DEF Fetch
        <4> HIDE DEF p
        <4> QED
          BY <2>1, <3>1, <3>4, <4>1, PostKeepsShown DEF ListInv
      <3>5. CASE unsure
        BY <3>1, <3>5 DEF ListInv
      <3>6. CASE List
        BY <2>2, <2>3, <3>6
      <3> QED
        BY <2>6, <3>2, <3>3, <3>4, <3>5, <3>6 DEF ListInv
    <2> QED
      BY <2>2, <2>3, <2>4, <2>5, <2>6
  <1>8. CASE SwitchProfile
    BY <1>8 DEF SwitchProfile, ListInv
  <1>9. CASE SetMusicClient
    BY <1>9 DEF SetMusicClient, listVars, serverVars, ListInv, ListIsComing, LastShownIsStored
  <1> QED
    BY <1>1, <1>2, <1>3, <1>4, <1>5, <1>6, <1>7, <1>8, <1>9 DEF FilesNext, FilesStep, UserStep

\* Whatever the user saves and deletes, through every loss, reconnect and late
\* answer, the list shown when nothing is on its way is the server's, unless
\* others changed it or it was asked for without a connection
\* (MpdMusicServerClient.m 416-425, PlayListFilesController.m 119-143).
THEOREM ListFollows == FilesSpec => []ListFollowsOwnChanges
  <1>1. FilesInit => ListInv
    BY DEF FilesInit, ListInv
  <1>2. FilesTypeOK /\ ListInv => ListFollowsOwnChanges
    <2> SUFFICES ASSUME ListInv, clientRequests = <<>>, posted = <<>>, mPlaylists # NoName
                 PROVE  mPlaylists = stored \/ unsure
      BY DEF ListFollowsOwnChanges
    <2>1. Elements(clientRequests) = {} /\ Elements(posted) = {}
      BY NoElements
    <2>2. Len(posted) = 0
      OBVIOUS
    <2>3. \A j \in 1..Len(posted) : FALSE
      BY <2>2
    <2> QED
      BY <2>1, <2>3 DEF ListInv, ListIsComing, LastShownIsStored
  <1> QED
    BY <1>1, <1>2, ListStep, NoClientHolds, FilesTypeCorrect, PTL DEF FilesSpec
=============================================================================
