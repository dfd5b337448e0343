------------------------- MODULE MCServerConnection -------------------------
(* Instances of ServerConnection for TLC.                                  *)
EXTENDS ServerConnectionProperties, TLC

CONSTANTS c1, c2, c3, home, office

\* An empty keychain
NothingSaved == {[p \in Profiles |-> NoPassword]}

\* The keychain holds the right password of the servers that want one.
RightSaved == {[p \in Profiles |-> IF p \in Locked THEN "right" ELSE NoPassword]}

AnythingSaved == NothingSaved \cup RightSaved
                   \cup {[p \in Profiles |-> IF p \in Locked THEN "wrong" ELSE NoPassword]}

ClientSymmetry == Permutations(Clients)
=============================================================================
