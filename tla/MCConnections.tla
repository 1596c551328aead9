--------------------------- MODULE MCConnections ---------------------------
(***************************************************************************)
(* Instances of Connections for TLC.                                       *)
(***************************************************************************)
EXTENDS Connections, TLC

CONSTANTS A, B

Two == {A, B}

\* Threads are alike.
Alike == Permutations(Two)
=============================================================================
