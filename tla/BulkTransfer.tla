---------------------------- MODULE BulkTransfer ----------------------------
(***************************************************************************)
(* The fan-out of client/bulk.py: download() and stream().                 *)
(*                                                                         *)
(* One worker thread per span of the file, each on a connection of its     *)
(* own.  A worker that loses its server resumes where its last piece       *)
(* landed; one that fails halts the others; a cancel aborts the handles    *)
(* that are open.  download() writes each piece at its offset, stream()    *)
(* lets the workers write in turn.  A piece is one unit of the file.       *)
(***************************************************************************)
EXTENDS Integers, Sequences, FiniteSets, FiniteSetsExt

CONSTANTS
    Size,        \* the length read from the open reply
    WorkerCount, \* how many connections the caller asks for
    MaxLosses    \* bound: connections lost in one transfer

ASSUME TransferAssumption ==
    Size \in Nat /\ WorkerCount \in Nat \ {0} /\ MaxLosses \in Nat

VARIABLES
    xfer,     \* the shared _Transfer and the turn of _ordered_run
    wk,       \* the workers: [pc, done] for each span
    handle,   \* each worker's File: "none", "open", "aborted"
    hook,     \* the caller's cancel hook: [says, watcher, list]
    out       \* history: what landed, in the order it did, and the end of the file

bulkVars == <<xfer, wk, handle, hook, out>>

-----------------------------------------------------------------------------
(* Planning.                                                               *)

CeilDiv(a, b) == (a + b - 1) \div b

\* _plan: a worker that would not get a whole chunk (one unit) is not started.
Plan(size, wanted) == Max({1, Min({wanted, IF size = 0 THEN 1 ELSE size})})

\* _spans: contiguous (start, length) pieces of the file.
Spans(size, workers) ==
    LET step == CeilDiv(size, workers)
    IN IF size = 0 THEN << >>
       ELSE [i \in 1 .. CeilDiv(size, step) |->
                [start |-> (i - 1) * step, len |-> Min({step, size - (i - 1) * step})]]

spans == Spans(Size, Plan(Size, WorkerCount))
Jobs == DOMAIN spans
At(i) == spans[i].start + wk[i].done

-----------------------------------------------------------------------------
\* _start: the first handle is the one the length was read from, and is
\* tracked before any worker runs.
BulkInit ==
    /\ xfer \in [mode : {"download", "stream"}, aborted : {FALSE}, halt : {FALSE},
                 abandoned : {FALSE}, cursor : {0}, moved : {0}, losses : {0},
                 files : {{1}}, result : {"running"}]
    /\ wk = [i \in Jobs |-> [pc |-> IF i = 1 THEN "read" ELSE "open", done |-> 0]]
    /\ handle = [i \in Jobs |-> IF i = 1 THEN "open" ELSE "none"]
    /\ hook = [says |-> FALSE, watcher |-> "watch", list |-> {}]
    /\ out = [landed |-> << >>, late |-> [i \in Jobs |-> 0], end |-> Size]

Goto(i, pc) == wk' = [wk EXCEPT ![i].pc = pc]
Over == {"done", "failed", "stopped"}

\* Mutation: nobody tells the workers that wait for their turn.
FailedAlone(x) == [x EXCEPT !.halt = TRUE]

\* A job raises: fanout.run_all sets the stop event, and calls on_failure
\* (abandon, for an ordered run) before it joins the others.
Failed(x) == [x EXCEPT !.halt = TRUE, !.abandoned = x.mode = "stream"]

\* opened(): what a worker lets go of when its block ends, and what run_all
\* is told of the way it ended.
Close(i) == handle' = [handle EXCEPT ![i] = "none"]
Ends(i, pc) ==
    /\ Goto(i, pc) /\ Close(i)
    /\ LET x == [xfer EXCEPT !.files = @ \ {i}]
       IN xfer' = IF pc = "failed" THEN Failed(x) ELSE x

-----------------------------------------------------------------------------
(* One worker: _Transfer.span.                                             *)

\* _opened: File.open, which no cancel can reach yet.
Open(i) ==
    /\ wk[i].pc = "open" /\ Goto(i, "opening")
    /\ UNCHANGED <<xfer, handle, hook, out>>

Opened(i) ==
    /\ wk[i].pc = "opening" /\ Goto(i, "track")
    /\ handle' = [handle EXCEPT ![i] = "open"]
    /\ UNCHANGED <<xfer, hook, out>>

\* track: listed under the lock, and aborted at once when the cancel has
\* already read the list.
Track(i) ==
    /\ wk[i].pc = "track" /\ Goto(i, "read")
    /\ xfer' = [xfer EXCEPT !.files = @ \cup {i}]
    /\ handle' = [handle EXCEPT ![i] = IF xfer.aborted THEN "aborted" ELSE @]
    /\ UNCHANGED <<hook, out>>

\* A piece comes off the wire, or there are no more: the span is complete or
\* the server has reached the end of the file, and the worker returns what it
\* has without an error.  Nobody abandons the turn it will not use.
Receive(i) ==
    /\ wk[i].pc = "read" /\ handle[i] = "open"
    /\ IF wk[i].done < spans[i].len /\ At(i) < out.end
       THEN Goto(i, "check") /\ UNCHANGED <<xfer, handle>>
       ELSE Ends(i, "done")
    /\ UNCHANGED <<hook, out>>

\* stop_now, from a worker that saw the hook itself.
StopNow(x) == [x EXCEPT !.aborted = TRUE, !.halt = TRUE]
AbortAll(files) == [j \in Jobs |-> IF j \in files /\ handle[j] = "open" THEN "aborted" ELSE handle[j]]

\* _unless_halted, between two pieces.
Check(i) ==
    /\ wk[i].pc = "check"
    /\ LET x == IF hook.says /\ ~xfer.aborted THEN StopNow(xfer) ELSE xfer
           gone == [x EXCEPT !.files = @ \ {i}]
       IN IF x.halt \/ x.aborted
          THEN /\ Goto(i, IF x.aborted THEN "failed" ELSE "stopped")
               /\ xfer' = IF x.aborted THEN Failed(gone) ELSE gone
               /\ handle' = [AbortAll(IF x = xfer THEN {} ELSE xfer.files) EXCEPT ![i] = "none"]
          ELSE /\ Goto(i, IF x.mode = "stream" THEN "turn" ELSE "put")
               /\ UNCHANGED <<xfer, handle>>
    /\ UNCHANGED <<hook, out>>

\* consume, then the worker's own count and the shared total (advance).
Lands(i, ordered) ==
    /\ wk' = [wk EXCEPT ![i].pc = "read", ![i].done = @ + 1]
    /\ xfer' = [xfer EXCEPT !.moved = @ + 1, !.cursor = IF ordered THEN At(i) + 1 ELSE @]
    /\ out' = [out EXCEPT !.landed = Append(@, At(i)),
                          !.late[i] = IF xfer.aborted THEN @ + 1 ELSE @]
    /\ UNCHANGED <<handle, hook>>

\* _pwrite_all: a download's piece lands at its own offset, or the local
\* write fails, which nothing retries.
Put(i) ==
    /\ wk[i].pc = "put"
    /\ \/ Lands(i, FALSE)
       \/ Ends(i, "failed") /\ UNCHANGED <<hook, out>>

\* ordered: wait for the turn of this offset, or for the others to give up.
Turn(i) ==
    /\ wk[i].pc = "turn"
    /\ xfer.abandoned \/ xfer.cursor = At(i)
    /\ IF xfer.abandoned
       THEN Ends(i, "failed") /\ UNCHANGED <<hook, out>>
       ELSE Lands(i, TRUE)

\* Mutation: resumes one piece before where it had got.
LostRewinds(i) ==
    /\ wk[i].pc = "read" /\ ~xfer.aborted /\ xfer.losses < MaxLosses
    /\ wk' = [wk EXCEPT ![i] = [pc |-> "pause", done |-> Max({0, @.done - 1})]]
    /\ Close(i)
    /\ xfer' = [xfer EXCEPT !.files = @ \ {i}, !.losses = @ + 1]
    /\ UNCHANGED <<hook, out>>

\* _TRANSIENT: the connection is lost, by the server or by an abort.  A
\* cancelled worker stops; another resumes (_Recovery.pause) while its budget
\* lasts.
Lost(i) ==
    /\ wk[i].pc \in {"opening", "read"}
    /\ handle[i] = "aborted" \/ xfer.losses < MaxLosses
    /\ \/ Ends(i, "failed")
       \/ /\ ~xfer.aborted /\ xfer.losses < MaxLosses
          /\ Goto(i, "pause") /\ Close(i)
          /\ xfer' = [xfer EXCEPT !.files = @ \ {i}, !.losses = @ + 1]
    /\ UNCHANGED <<hook, out>>

Pause(i) ==
    /\ wk[i].pc = "pause" /\ Goto(i, "open")
    /\ UNCHANGED <<xfer, handle, hook, out>>

-----------------------------------------------------------------------------
(* The cancel, the file and the join.                                      *)

Running == xfer.result = "running"

\* The caller's hook starts to say stop.
AskStop ==
    /\ Running /\ ~hook.says /\ hook' = [hook EXCEPT !.says = TRUE]
    /\ UNCHANGED <<xfer, wk, handle, out>>

\* The watcher thread's stop_now: the flag and the list under the lock ...
WatcherStops ==
    /\ Running /\ hook.says /\ hook.watcher = "watch"
    /\ xfer' = [xfer EXCEPT !.aborted = TRUE]
    /\ hook' = [hook EXCEPT !.watcher = "abort", !.list = xfer.files]
    /\ UNCHANGED <<wk, handle, out>>

\* ... then the halt event and the handles, outside it.
WatcherAborts ==
    /\ hook.watcher = "abort"
    /\ xfer' = [xfer EXCEPT !.halt = TRUE]
    /\ handle' = AbortAll(hook.list)
    /\ hook' = [hook EXCEPT !.watcher = "done", !.list = {}]
    /\ UNCHANGED <<wk, out>>

\* Another client cuts the file short while it is being read.
Cut ==
    /\ Running /\ out.end = Size
    /\ \E n \in 0 .. Size - 1 : out' = [out EXCEPT !.end = n]
    /\ UNCHANGED <<xfer, wk, handle, hook>>

\* _run and the length check behind it.
Join ==
    /\ Running /\ \A i \in Jobs : wk[i].pc \in Over
    /\ LET bad == \E i \in Jobs : wk[i].pc = "failed"
       IN xfer' = [xfer EXCEPT !.result = IF bad /\ xfer.aborted THEN "aborted"
                                          ELSE IF bad THEN "failed"
                                          ELSE IF xfer.moved # Size THEN "short" ELSE "ok"]
    /\ UNCHANGED <<wk, handle, hook, out>>

-----------------------------------------------------------------------------
Worker(i) ==
    \/ Open(i) \/ Opened(i) \/ Track(i) \/ Receive(i) \/ Check(i)
    \/ Put(i) \/ Turn(i) \/ Lost(i) \/ Pause(i)

BulkNext ==
    \/ \E i \in Jobs : Worker(i)
    \/ AskStop \/ WatcherStops \/ WatcherAborts \/ Cut \/ Join

\* Each worker thread, the watcher and the joining caller keep running.
BulkFairness ==
    /\ \A i \in Jobs : WF_bulkVars(Worker(i))
    /\ WF_bulkVars(WatcherStops \/ WatcherAborts) /\ WF_bulkVars(Join)

BulkSpec == BulkInit /\ [][BulkNext]_bulkVars /\ BulkFairness

-----------------------------------------------------------------------------
(* Properties.                                                             *)

\* What landed is never written twice, and stream() hands it on in file
\* order with nothing missing, through every loss and resume; a transfer that
\* reports success has moved the whole file.
BytesOnce ==
    /\ \A i, j \in DOMAIN out.landed : out.landed[i] = out.landed[j] => i = j
    /\ xfer.mode = "stream" => \A i \in DOMAIN out.landed : out.landed[i] = i - 1
    /\ xfer.result = "ok" => {out.landed[i] : i \in DOMAIN out.landed} = 0 .. Size - 1

\* Once a cancel has gone through its list no worker waits on a connection it
\* did not reach, and none lands more than the piece it already had.
CancelReaches ==
    /\ hook.watcher = "done" => \A i \in Jobs : wk[i].pc = "read" => handle[i] # "open"
    /\ \A i \in Jobs : out.late[i] <= 1

\* Whatever is lost, resumed or called off, each byte lands once and in its
\* place, and a cancel stops every worker (_Transfer.span, stop_now).
BulkRight == BytesOnce /\ CancelReaches
=============================================================================
