---------------------------- MODULE MCFileHandle ----------------------------
(* Two threads sharing a file, the first of which opens and closes it, and a
   third that may abort it at any moment.                                  *)
EXTENDS FileHandle

CONSTANTS A, B

Two == {A, B}
=============================================================================
