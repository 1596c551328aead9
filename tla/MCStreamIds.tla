---------------------------- MODULE MCStreamIds ----------------------------
(* Four stream ids, the real first one among them: enough for the counter  *)
(* to wrap with ids pending, leased, retired and freed at once, and for    *)
(* every one of them to be taken (the "exhausted" error).                  *)
EXTENDS StreamIds
=============================================================================
