---------------------------- MODULE MCWindows_proofs ----------------------------
(***************************************************************************)
(* Proofs about the composition of the parts of the window: it behaves, in *)
(* each part, as the specification of that part, so that what is proved of *)
(* the parts holds of the whole.                                           *)
(***************************************************************************)
EXTENDS MCWindows, LibraryBrowser_proofs, PlayListFiles_proofs, Controls_proofs

(* A step of one part is one of it, and none of the others.                *)
LEMMA StepOfParts ==
  ASSUME [Next]_vars
  PROVE  /\ [DetectorNext]_files /\ [BrowserNext]_browserVars /\ [FilesNext]_filesVars
         /\ [PlayerNext]_playerVars /\ [SeekNext]_seekVars /\ [RemoteNext]_remoteVars
         /\ [AlbumNext]_albumVars /\ UNCHANGED part
<1>1. CASE UNCHANGED vars
  BY <1>1 DEF vars
<1>2. CASE Next
  BY <1>2 DEF Next
<1> QED BY <1>1, <1>2

(* MCWindows: every behaviour of the composition is one of every part.     *)
THEOREM PartsBehave ==
  Spec => /\ DetectorSpec /\ BrowserSpec /\ FilesSpec /\ PlayerSpec /\ SeekSpec
          /\ RemoteSpec /\ AlbumSpec
<1>1. Init => /\ DetectorInit /\ BrowserInit /\ FilesInit /\ PlayerInit /\ SeekInit
              /\ RemoteInit /\ AlbumInit
  BY DEF Init
<1> QED BY <1>1, StepOfParts, PTL
        DEF Spec, DetectorSpec, BrowserSpec, FilesSpec, PlayerSpec, SeekSpec, RemoteSpec, AlbumSpec

(* MCWindows: every variable of every part has its type.                   *)
THEOREM WindowTypesCorrect == Spec => []TypeOK
<1>1. Init => part \in AllParts
  BY DEF Init
<1>2. part \in AllParts /\ [Next]_vars => (part \in AllParts)'
  BY StepOfParts
<1>3. Spec => [](part \in AllParts)
  BY <1>1, <1>2, PTL DEF Spec
<1>4. (/\ part \in AllParts /\ BrowserTypeOK /\ FilesTypeOK /\ PlayerTypeOK /\ SeekTypeOK
       /\ RemoteTypeOK /\ AlbumTypeOK) => TypeOK
  BY DEF TypeOK
<1> QED BY <1>3, <1>4, PartsBehave, BrowserTypeCorrect, FilesTypeCorrect, PlayerTypeCorrect,
           SeekTypeCorrect, RemoteTypeCorrect, AlbumTypeCorrect, PTL

(* MCWindows: what each part promises holds of the whole.                  *)
THEOREM PartsKeepPromises ==
  Spec => /\ [](/\ DetectorFindsCompilations /\ ColumnsFollowSelection
                 /\ DragCarriesPlaylist /\ TableComesBack /\ ListFollowsOwnChanges
                 /\ ControlsFollowPlayer /\ SeekArrives
                 /\ HoldOnlyWhileDown /\ EveryPressActsOnce /\ NextUndoesPrevious)
          /\ MarksOnlyChosen /\ SelectionSurvives
BY PartsBehave, DetectorFinds, ColumnsFollow, MarksAreOfChosen, SelectionsSurvive,
   DragsCarryTheirPlaylist, TableIsEnabledAgain, ListFollows, ControlsFollow, SeeksArrive,
   HoldsEnd, PressesActOnce, AlbumsComeBack, PTL
================================================================================
