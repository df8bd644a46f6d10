---------------------------- MODULE MCVectorIndex ----------------------------
(* Instances of VectorIndex for TLC. *)
EXTENDS VectorIndex

CONSTANTS w1, c1

Updates == [kind : {"updated"}, version : Versions]

UpdatesAndRevocation == Updates \cup {Revocation}

\* The second version may be asked for again once it is indexed.
UpdatesReindexAndRevocation ==
  UpdatesAndRevocation \cup {[kind |-> c1, version |-> MaxVersion]}
=============================================================================
