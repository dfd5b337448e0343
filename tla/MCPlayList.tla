----------------------------- MODULE MCPlayList -----------------------------
(* Instances of PlayList for TLC.                                          *)
EXTENDS PlayListProperties, TLC

CONSTANTS s1, s2, s3

Allow(all, commands, selections, searches, edits, stops, losses) ==
  [commands |-> commands, selections |-> selections, searches |-> searches,
   edits |-> edits, stops |-> stops, losses |-> losses, all |-> all]

TwoSongs == {<<s1, s2>>}
SearchRest == {{s2, s3}}

AnyTwo == Allow(2, 2, 1, 1, 2, 1, 2)
OneCommand == Allow(1, 1, 0, 0, 0, 0, 0)
=============================================================================
