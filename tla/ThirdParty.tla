----------------------------- MODULE ThirdParty -----------------------------
(***************************************************************************)
(* copy/tpc.py and http/tpc.py: third-party copy, one server pulling from  *)
(* another while this client brokers the rendezvous and waits.             *)
(*                                                                         *)
(* root:// is the XrdOucTPC rendezvous: place the source, open the         *)
(* destination, arm the pull with a first sync, register the key at the    *)
(* source, wait in a second sync.  http:// is one COPY whose answer is a   *)
(* stream of markers.  A watched pull waits on a worker thread beside the  *)
(* thread that asks the cancel hook.                                       *)
(***************************************************************************)
EXTENDS Integers, Sequences, FiniteSets

CONSTANTS
    Pulls,      \* the copies asked for: _Options and what the servers can do
    MaxReports  \* bound: progress questions asked during one pull

\* What a caller can ask for and what the servers can do.
PullKinds ==
    [http : BOOLEAN, there : {"none", "their empty", "their data"}, overwrite : BOOLEAN,
     cleanup : BOOLEAN, delegate : BOOLEAN, dstTpc : BOOLEAN, dstLite : BOOLEAN, srcTpc : BOOLEAN,
     watched : BOOLEAN, patience : BOOLEAN, heeds : BOOLEAN, verify : {"yes", "no", "default"},
     sums : BOOLEAN]

ASSUME PullsAssumption == Pulls \subseteq PullKinds /\ MaxReports \in Nat

VARIABLES
    ask,     \* the copy that was asked for
    tp,      \* this client: the step, the handles it holds, the worker
    dst,     \* the destination server: [file, pull]
    key      \* the source server: whether the key is registered

tpVars == <<ask, tp, dst, key>>

SetUp == {"place", "open", "settle", "arm", "key"}

TpInit ==
    /\ ask \in Pulls
    /\ tp = [pc |-> IF ask.http THEN "copy" ELSE "place", placed |-> FALSE, made |-> FALSE,
             lite |-> FALSE, dstHeld |-> FALSE, srcHeld |-> FALSE, dstLost |-> FALSE,
             worker |-> "none", signal |-> FALSE, reports |-> 0, cancelled |-> FALSE,
             checked |-> FALSE, result |-> "running"]
    /\ dst = [file |-> ask.there, pull |-> "none"]
    /\ key = FALSE

-----------------------------------------------------------------------------
(* The end of a copy that failed.                                          *)

\* Mutation: whoever made it.
DiscardedAny(mine) == IF ask.cleanup /\ dst.file \in {"empty", "their empty"} THEN {"none"} ELSE {dst.file}

\* discard_if_empty: an empty file is removed, best effort; only of a
\* destination this copy opened (_root_transfer), or that was not refused
\* for being there (_discard_if_ours).
Discarded(mine) ==
    IF mine /\ ask.cleanup /\ dst.file \in {"empty", "their empty"}
    THEN {"none", dst.file} ELSE {dst.file}

\* _with_handle and the clean-up of _root_copy: the destination's handle is
\* closed unheard, then the source's, then both routers; then the discard.
GiveUp(why) ==
    /\ tp' = [tp EXCEPT !.pc = "done", !.result = why, !.dstHeld = FALSE, !.srcHeld = FALSE]
    /\ \E f \in Discarded(tp.made) :
         dst' = [file |-> f, pull |-> IF dst.pull = "pulling" THEN "killed" ELSE dst.pull]
    /\ key' = FALSE

\* _starting: cancel and init_timeout, asked between the steps of the set-up.
SetUpStopped ==
    /\ tp.pc \in {"open", "settle", "key", "keyed"} \/ (tp.pc = "pull" /\ tp.worker = "none" /\ tp.lite)
    /\ GiveUp(IF tp.cancelled THEN "aborted" ELSE "failed")
    /\ UNCHANGED ask

\* A set-up request fails: the first sync, the keyed open, an open.
SetUpFails ==
    /\ tp.pc \in SetUp
    /\ tp.pc = "place" => ~ask.delegate
    /\ GiveUp("failed")
    /\ UNCHANGED ask

-----------------------------------------------------------------------------
(* The root:// rendezvous.                                                 *)

\* _placement: a delegating copy goes ahead without a source it cannot open.
Place ==
    /\ tp.pc = "place"
    /\ \E ok \in {TRUE} \cup {~ask.delegate} :
         tp' = [tp EXCEPT !.pc = "open", !.placed = ok]
    /\ UNCHANGED <<ask, dst, key>>

\* _open_target: refused if the file is there and may not be replaced;
\* otherwise the file is this copy's from here on.
OpenTarget ==
    /\ tp.pc = "open"
    /\ ask.overwrite \/ dst.file = "none"
    /\ tp' = [tp EXCEPT !.pc = "settle", !.made = TRUE, !.dstHeld = TRUE]
    /\ dst' = [dst EXCEPT !.file = "empty"]
    /\ UNCHANGED <<ask, key>>

\* _settle, _lite, _require_tpc: what both servers say they can do.
Settle ==
    /\ tp.pc = "settle" /\ ask.dstTpc
    /\ LET lite == ask.delegate /\ ask.dstLite
       IN /\ lite \/ (tp.placed /\ ask.srcTpc)
          /\ tp' = [tp EXCEPT !.pc = "arm", !.lite = lite]
    /\ UNCHANGED <<ask, dst, key>>

\* _rendezvous: the first sync arms the pull.
Arm ==
    /\ tp.pc = "arm"
    /\ tp' = [tp EXCEPT !.pc = IF tp.lite THEN "pull" ELSE "key"]
    /\ dst' = [dst EXCEPT !.pull = "armed"]
    /\ UNCHANGED <<ask, key>>

\* _Keyed.open: the key lives as long as the open.
OpenKeyed ==
    /\ tp.pc = "key"
    /\ tp' = [tp EXCEPT !.pc = "keyed", !.srcHeld = TRUE]
    /\ key' = TRUE
    /\ UNCHANGED <<ask, dst>>
SetUpDone ==
    /\ tp.pc = "keyed"
    /\ tp' = [tp EXCEPT !.pc = "pull"]
    /\ UNCHANGED <<ask, dst, key>>

\* _pull: the second sync, on a worker thread if anybody watches.
StartPull ==
    /\ tp.pc = "pull" /\ tp.worker = "none"
    /\ tp' = [tp EXCEPT !.worker = "waiting"]
    /\ dst' = [dst EXCEPT !.pull = "pulling"]
    /\ UNCHANGED <<ask, key>>

\* The destination pulls, with the key or with the credential it was given,
\* and answers the sync; or it never does.
Pulls1 ==
    /\ dst.pull = "pulling" /\ tp.dstHeld
    /\ \E f \in {"part", "full"} :
         dst' = IF key \/ tp.lite
                THEN [file |-> f, pull |-> IF f = "full" THEN "done" ELSE "failed"]
                ELSE [dst EXCEPT !.pull = "failed"]
    /\ UNCHANGED <<ask, tp, key>>

\* The worker's sync returns: what the server answered, the patience of the
\* pull (_Pull.sync), or a connection that is gone.
SyncReturns ==
    /\ tp.worker = "waiting"
    /\ \/ dst.pull = "done" /\ tp' = [tp EXCEPT !.worker = "ok"]
       \/ /\ dst.pull \in {"failed", "killed"} \/ ask.patience \/ tp.dstLost
          /\ tp' = [tp EXCEPT !.worker = "failed"]
    /\ UNCHANGED <<ask, dst, key>>

\* The watching thread: report() between polls.
Report ==
    /\ tp.pc = "pull" /\ tp.worker = "waiting" /\ ask.watched /\ tp.reports < MaxReports
    /\ tp' = [tp EXCEPT !.reports = @ + 1]
    /\ UNCHANGED <<ask, dst, key>>

\* _call_off: the destination is sent ofs.tpc cancel.
CallOff ==
    /\ tp.pc = "pull" /\ tp.worker = "waiting" /\ ask.watched /\ tp.cancelled
    /\ tp' = [tp EXCEPT !.pc = "called off", !.signal = TRUE]
    /\ UNCHANGED <<ask, dst, key>>

\* The destination heeds the cancel, or does not.
Heed ==
    /\ tp.signal /\ ask.heeds /\ dst.pull = "pulling"
    /\ dst' = [dst EXCEPT !.pull = "killed"]
    /\ UNCHANGED <<ask, tp, key>>

\* CANCEL_WAIT is over and the worker still waits: the connection is shut
\* down under it.
AbortLink ==
    /\ tp.pc = "called off" /\ tp.worker = "waiting"
    /\ tp' = [tp EXCEPT !.dstLost = TRUE, !.dstHeld = FALSE]
    /\ UNCHANGED <<ask, dst, key>>

CalledOff ==
    /\ tp.pc = "called off" /\ tp.worker # "waiting"
    /\ GiveUp("aborted")
    /\ UNCHANGED ask

\* The main thread sees the worker's outcome.
PullOver ==
    /\ tp.pc = "pull"
    /\ \/ tp.worker = "ok" /\ tp' = [tp EXCEPT !.pc = "close"] /\ UNCHANGED <<dst, key>>
       \/ tp.worker = "failed" /\ GiveUp("failed")
    /\ UNCHANGED ask

\* _close_both: both handles are closed; either failure fails the copy.
CloseBoth ==
    /\ tp.pc = "close"
    /\ key' = FALSE
    /\ \E ok \in BOOLEAN :
         /\ tp' = [tp EXCEPT !.pc = IF ok THEN "verify" ELSE "done", !.dstHeld = FALSE,
                             !.srcHeld = FALSE, !.result = IF ok THEN "running" ELSE "failed"]
         /\ \E f \in IF ok THEN {dst.file} ELSE Discarded(TRUE) : dst' = [dst EXCEPT !.file = f]
    /\ UNCHANGED ask

-----------------------------------------------------------------------------
(* The http:// COPY.                                                       *)

\* _run_copy: the near side is asked; it may name the file before it refuses,
\* and with Overwrite: F it refuses one that is there.
Copy ==
    /\ tp.pc = "copy"
    /\ \/ /\ ask.overwrite \/ dst.file = "none"
          /\ tp' = [tp EXCEPT !.pc = "follow"]
          /\ dst' = [file |-> "empty", pull |-> "pulling"]
       \/ \* 401, 403: the file may have been named all the same.
          /\ \E f \in Discarded(TRUE) \cup (IF dst.file = "none" THEN {"none", "empty"} ELSE {}) :
               dst' = [dst EXCEPT !.file = f]
          /\ tp' = [tp EXCEPT !.pc = "done", !.result = "failed"]
       \/ \* 412: the file that was there is not this copy's.
          /\ ~ask.overwrite /\ dst.file # "none"
          /\ tp' = [tp EXCEPT !.pc = "done", !.result = "failed"]
          /\ UNCHANGED dst
    /\ UNCHANGED <<ask, key>>

\* _follow: markers until the outcome; the cancel hook is asked at each.
Markers ==
    /\ tp.pc = "follow"
    /\ \/ \* success
          tp' = [tp EXCEPT !.pc = "verify"] /\ dst' = [file |-> "full", pull |-> "done"]
       \/ \* failure, silence for longer than the timeout, closed, cancelled
          \E left \in {"empty", "part"} :
            /\ tp' = [tp EXCEPT !.pc = "done", !.result = IF tp.cancelled THEN "aborted" ELSE "failed"]
            /\ \E f \in IF left = "empty" /\ ask.cleanup THEN {"none", "empty"} ELSE {left} :
                 dst' = [file |-> f, pull |-> "failed"]
    /\ UNCHANGED <<ask, key>>

-----------------------------------------------------------------------------
\* A destination can call a pull finished that never happened: _verified
\* compares the two ends and a mismatch removes what this copy wrote.
FalseSuccess ==
    /\ tp.pc = "verify" /\ dst.file = "full"
    /\ dst' = [dst EXCEPT !.file = "wrong"]
    /\ UNCHANGED <<ask, tp, key>>

\* _verified and the removal in third_party.
Verify ==
    /\ tp.pc = "verify"
    /\ LET wanted == ask.verify # "no"
           mismatch == wanted /\ ask.sums /\ dst.file = "wrong"
           unasked == ask.verify = "yes" /\ ~ask.sums
       IN /\ tp' = [tp EXCEPT !.pc = "done", !.checked = wanted /\ ask.sums /\ ~mismatch,
                              !.result = IF mismatch \/ unasked THEN "failed" ELSE "ok"]
          /\ \E f \in IF mismatch /\ ask.cleanup THEN {"none", dst.file} ELSE {dst.file} :
               dst' = [dst EXCEPT !.file = f]
    /\ UNCHANGED <<ask, key>>

\* The caller's hook says stop, at any time.
Cancels ==
    /\ ask.watched /\ ~tp.cancelled /\ tp.pc # "done"
    /\ tp' = [tp EXCEPT !.cancelled = TRUE]
    /\ UNCHANGED <<ask, dst, key>>

Rendezvous == Place \/ OpenTarget \/ Settle \/ Arm \/ OpenKeyed \/ SetUpDone \/ SetUpStopped \/ SetUpFails
              \/ StartPull \/ SyncReturns \/ CallOff \/ AbortLink \/ CalledOff \/ PullOver \/ CloseBoth
Steps == Rendezvous \/ Copy \/ Markers \/ Verify
TpNext == Steps \/ Pulls1 \/ Report \/ Heed \/ FalseSuccess \/ Cancels
TpFairness == WF_tpVars(Steps)
TpSpec == TpInit /\ [][TpNext]_tpVars /\ TpFairness

-----------------------------------------------------------------------------
(* Properties.                                                             *)

\* While the destination pulls for a classic copy, the source's open - and
\* with it the key - is held, and nothing is left open at either server once
\* the call has returned (_rendezvous, _with_handle).
KeyHeld ==
    /\ dst.pull = "pulling" /\ ~tp.lite /\ ~ask.http /\ tp.pc # "done" => key /\ tp.srcHeld
    /\ tp.pc = "done" => ~tp.dstHeld /\ ~tp.srcHeld /\ ~key

\* A destination that was there and that an exclusive root:// copy was
\* refused is as it was; a finished pull never comes back as an empty file,
\* and a file that both servers agreed on is whole (_root_transfer, _verified).
TargetHonest ==
    /\ ~ask.overwrite /\ ~ask.http /\ ask.there # "none" => dst.file = ask.there
    /\ tp.result = "ok" => dst.file \in {"full", "wrong"}
    /\ tp.checked => dst.file = "full"

\* A cancelled pull ends, whether or not the destination heeds the cancel or
\* ever answers the sync (_call_off, CANCEL_WAIT); so does one with a patience.
PullEnds == (tp.cancelled \/ ask.patience \/ ask.http) ~> (tp.pc = "done")

\* The key is held as long as the destination needs it and given up in the
\* end, and what is left at the destination is what the caller is told.
PullSafe == KeyHeld /\ TargetHonest
=============================================================================
