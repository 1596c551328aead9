--------------------------- MODULE MCSessionDriver ---------------------------
(***************************************************************************)
(* Instances of SessionDriver for TLC.                                     *)
(***************************************************************************)
EXTENDS SessionDriver, TLC

CONSTANTS A, B

Two == {A, B}

=============================================================================
