---------------------------- MODULE FileWriting ----------------------------
(***************************************************************************)
(* The write side of one open file: client/_writing.py, the checkpoint of  *)
(* client/file.py and upload() of client/bulk.py.                          *)
(*                                                                         *)
(* A write goes over the bulk plane, a window of pieces at a time, or over *)
(* the event path, a piece at a time.  A server may store a piece, refuse  *)
(* it or put it off (kXR_wait); it may find a page corrupt; it undoes a    *)
(* checkpoint from what reached it as part of one.  Each call writes a     *)
(* value of its own over the whole of a file of Units pieces.              *)
(***************************************************************************)
EXTENDS Integers, Sequences, FiniteSets, FiniteSetsExt

CONSTANTS
    Units,      \* pieces a call writes
    Depth,      \* bulk_depth: pieces in flight
    PgwRetry,   \* PGW_MAX_RETRY
    MaxWrites,  \* bound: calls made on the handle
    Nothing     \* no checkpoint at the server

ASSUME WritingAssumption == Units \in Nat

VARIABLES
    fh,     \* the handle: [live, checkpoint, stat, hint, seekable]
    srv,    \* the file at the server: [data, size, corrupt, undo]
    op,     \* the call in progress
    told    \* history: [calls, begun, moved, stale]

writeVars == <<fh, srv, op, told>>

AllUnits == 0 .. Units - 1
Rest == [kind |-> "none", pc |-> "idle", next |-> 0, inflight |-> {}, failure |-> "none",
         again |-> {}, high |-> 0, pages |-> {}, tries |-> 0, result |-> "none"]

\* Opened for an upload: the length is known from the open reply.
WriteInit ==
    /\ fh \in [live : {TRUE}, checkpoint : {FALSE}, stat : {TRUE}, hint : {0}, seekable : BOOLEAN]
    /\ srv = [data |-> [u \in AllUnits |-> 0], size |-> 0, corrupt |-> {}, undo |-> Nothing]
    /\ op = Rest
    /\ told = [calls |-> 0, begun |-> Nothing, moved |-> 0, stale |-> FALSE]

-----------------------------------------------------------------------------
(* The server.                                                             *)

\* What a unit held before, written down once; only what comes inside
\* kXR_ckpXeq is journalled.
Journalled(s, units) ==
    [s.undo EXCEPT !.old = [x \in DOMAIN s.undo.old \cup units |->
                               IF x \in DOMAIN s.undo.old THEN s.undo.old[x] ELSE s.data[x]]]

\* A value is stored at some units.
Stored(s, units, value, journalled) ==
    [s EXCEPT !.data = [u \in AllUnits |-> IF u \in units THEN value ELSE s.data[u]],
              !.size = Max({s.size} \cup {u + 1 : u \in units}),
              !.corrupt = s.corrupt \ units,
              !.undo = IF journalled THEN Journalled(s, units) ELSE s.undo]

Store(s, u, value, journalled) == Stored(s, {u}, value, journalled)
StoreAll(value, units) == Stored(srv, units, value, fh.checkpoint)

-----------------------------------------------------------------------------
(* The handle.                                                             *)

\* _invalidate: the cached attributes are dropped, the high-water mark kept.
Invalidated(f, high) == [f EXCEPT !.stat = FALSE, !.hint = Max({@, high})]

Returns(result) == op' = [Rest EXCEPT !.kind = op.kind, !.result = result]
\* These drop the cached attributes only when they succeed: one that raises
\* part-way leaves them, whatever it stored.
DropLate == {"write", "pgwrite", "writev"}
Unsure == told' = [told EXCEPT !.stale = @ \/ op.kind \in DropLate]

\* _writes_on_plane: never inside a checkpoint, which journals only kXR_ckpXeq.
WritesOnPlane == ~fh.checkpoint

Call(kind) ==
    /\ op.pc = "idle" /\ fh.live /\ told.calls < MaxWrites
    /\ told' = [told EXCEPT !.calls = @ + 1, !.moved = 0]

Plane == {"write", "pieces", "upload"}

\* write(), write_pieces() and upload(): the plane where it may be used, or
\* one piece at a time.  A busy connection declines before anything is sent.
BeginWrite(kind) ==
    /\ Call(kind)
    /\ \E pc \in {"plane", "event"} :
         /\ pc = "plane" => WritesOnPlane
         /\ op' = [Rest EXCEPT !.kind = kind, !.pc = pc]
    /\ UNCHANGED <<fh, srv>>

\* The bulk plane: pieces go out in order, up to Depth unanswered.
PlaneSend ==
    /\ op.pc = "plane" /\ op.failure = "none"
    /\ op.next < Units /\ Cardinality(op.inflight) < Depth
    /\ op' = [op EXCEPT !.next = @ + 1, !.inflight = @ \cup {op.next}]
    /\ UNCHANGED <<fh, srv, told>>

\* An answer: stored and acknowledged, put off, or refused.  What is put off
\* is reported to a caller that can send it again, and a refusal otherwise.
Waits == op.kind = "upload" /\ fh.seekable
PlaneAnswer ==
    /\ op.pc = "plane"
    /\ \E u \in op.inflight, st \in {"ok", "wait", "error"} :
         LET o == [op EXCEPT !.inflight = @ \ {u}]
         IN CASE st = "ok" ->
                   /\ op' = [o EXCEPT !.high = Max({@, u + 1})]
                   /\ srv' = Store(srv, u, told.calls, FALSE)
                   /\ told' = [told EXCEPT !.moved = @ + 1]
              [] st = "wait" /\ Waits ->
                   op' = [o EXCEPT !.again = @ \cup {u}] /\ UNCHANGED <<srv, told>>
              [] OTHER ->
                   /\ op' = [o EXCEPT !.failure = IF @ # "none" THEN @ ELSE
                                        IF st = "wait" THEN "unsupported" ELSE "server"]
                   /\ UNCHANGED <<srv, told>>
    /\ UNCHANGED fh

\* The window has settled.  write() falls back to the event path when the
\* server wants a conversation; write_pieces() cannot, its source is consumed;
\* upload() has what was put off to send again.
PlaneEnd ==
    /\ op.pc = "plane" /\ op.inflight = {} /\ (op.next = Units \/ op.failure # "none")
    /\ LET high == IF op.kind = "write" THEN Units ELSE op.high
       IN CASE op.kind = "write" /\ op.failure = "unsupported" ->
                 /\ op' = [op EXCEPT !.pc = "event", !.next = 0, !.failure = "none"]
                 /\ UNCHANGED <<fh, told>>
            [] op.kind = "write" /\ op.failure = "server" -> Returns("server") /\ Unsure /\ UNCHANGED fh
            [] op.failure # "none" /\ op.kind # "write" ->
                 Returns(op.failure) /\ fh' = Invalidated(fh, high) /\ UNCHANGED told
            [] op.failure = "none" /\ op.again # {} ->
                 op' = [op EXCEPT !.pc = "again"] /\ fh' = Invalidated(fh, high) /\ UNCHANGED told
            [] OTHER -> Returns("ok") /\ fh' = Invalidated(fh, high) /\ UNCHANGED told
    /\ UNCHANGED srv

\* upload(): a range put off is read back from the source and written again.
SendAgain ==
    /\ op.pc = "again"
    /\ \E u \in op.again :
         \/ /\ srv' = Store(srv, u, told.calls, FALSE)
            /\ told' = [told EXCEPT !.moved = @ + 1]
            /\ fh' = Invalidated(fh, u + 1)
            /\ IF op.again = {u} THEN Returns("ok") ELSE op' = [op EXCEPT !.again = @ \ {u}]
         \/ Returns("server") /\ UNCHANGED <<fh, srv, told>>

\* _event_write and _stream_serially: one acknowledged write after another,
\* through the checkpoint when there is one (_submit).
EventWrite ==
    /\ op.pc = "event"
    /\ \/ /\ op.next < Units
          /\ srv' = Store(srv, op.next, told.calls, fh.checkpoint)
          /\ told' = [told EXCEPT !.moved = op.next + 1]
          /\ op' = [op EXCEPT !.next = @ + 1]
          /\ fh' = IF op.kind = "write" THEN fh ELSE Invalidated(fh, op.next + 1)
       \/ op.next < Units /\ Returns("server") /\ Unsure /\ UNCHANGED <<fh, srv>>
       \/ op.next = Units /\ Returns("ok") /\ fh' = Invalidated(fh, Units) /\ UNCHANGED <<srv, told>>

\* pgwrite: the server stores what comes and names the pages it found corrupt.
PgWrite ==
    /\ Call("pgwrite")
    /\ \E bad \in SUBSET AllUnits :
         /\ srv' = [StoreAll(told.calls + 1, AllUnits) EXCEPT !.corrupt = bad]
         /\ op' = [Rest EXCEPT !.kind = "pgwrite", !.pc = "pages", !.pages = bad]
    /\ UNCHANGED fh

\* Mutation: the page is left for what it is.
PgSkips == op' = [op EXCEPT !.pages = @ \ {Min(op.pages)}, !.tries = 0] /\ UNCHANGED told

\* PGW_MAX_RETRY is spent.
PgGivesUp == Returns("integrity") /\ Unsure

\* _pgwrite_retry: one page again, until it is taken or the retries are spent;
\* or the server refuses to.
PgRetry ==
    /\ op.pc = "pages" /\ op.pages # {}
    /\ LET u == Min(op.pages)
       IN \/ /\ srv' = Store(srv, u, told.calls, fh.checkpoint)
             /\ op' = [op EXCEPT !.pages = @ \ {u}, !.tries = 0] /\ UNCHANGED told
          \/ /\ IF op.tries + 1 < PgwRetry
                THEN op' = [op EXCEPT !.tries = @ + 1] /\ UNCHANGED told
                ELSE PgGivesUp
             /\ UNCHANGED srv
          \/ Returns("server") /\ Unsure /\ UNCHANGED srv
    /\ UNCHANGED fh

PgEnd ==
    /\ op.pc = "pages" /\ op.pages = {}
    /\ Returns("ok") /\ fh' = Invalidated(fh, Units)
    /\ UNCHANGED <<srv, told>>

\* truncate: the one change that may lower the cached size.
Truncate ==
    /\ Call("truncate")
    /\ \E n \in 0 .. Units :
         /\ srv' = [StoreAll(0, {u \in AllUnits : u >= n /\ u < srv.size}) EXCEPT !.size = n]
         /\ fh' = [fh EXCEPT !.stat = FALSE, !.hint = n]
         /\ op' = [Rest EXCEPT !.kind = "truncate", !.result = "ok"]

\* A truncation, or a paged write as a whole, is refused: nothing changed.
RefusedWhole ==
    \E kind \in {"truncate", "pgwrite"} :
        /\ Call(kind)
        /\ op' = [Rest EXCEPT !.kind = kind, !.result = "server"]
        /\ UNCHANGED <<fh, srv>>

\* writev and clone, which a checkpoint cannot undo, are refused inside one.
WriteV ==
    /\ Call("writev")
    /\ op' = IF fh.checkpoint THEN [Rest EXCEPT !.kind = "writev", !.result = "refused"]
                              ELSE [Rest EXCEPT !.kind = "writev", !.pc = "batches"]
    /\ UNCHANGED <<fh, srv>>

\* Their batches, one answered before the next is sent.  A batch the server
\* refuses, having stored some of it or none, raises past _invalidate.
Batch ==
    /\ op.pc = "batches"
    /\ \/ \E n \in op.next + 1 .. Units :
            /\ srv' = Stored(srv, op.next .. n - 1, told.calls, FALSE)
            /\ op' = [op EXCEPT !.next = n] /\ UNCHANGED <<fh, told>>
       \/ \E n \in op.next .. Units :
            /\ op.next < Units
            /\ srv' = Stored(srv, op.next .. n - 1, told.calls, FALSE)
            /\ Returns("server") /\ Unsure /\ UNCHANGED fh
       \/ op.next = Units /\ Returns("ok") /\ fh' = Invalidated(fh, Units) /\ UNCHANGED <<srv, told>>

-----------------------------------------------------------------------------
(* Checkpoints, the cached size, and losing the server.                    *)

Quiet == op.pc = "idle" /\ fh.live

BeginCheckpoint ==
    /\ Quiet /\ ~fh.checkpoint
    /\ fh' = [fh EXCEPT !.checkpoint = TRUE]
    /\ srv' = [srv EXCEPT !.undo = [old |-> << >>, size |-> srv.size]]
    /\ told' = [told EXCEPT !.begun = [data |-> srv.data, size |-> srv.size]]
    /\ op' = Rest

CommitCheckpoint ==
    /\ Quiet /\ fh.checkpoint
    /\ fh' = [fh EXCEPT !.checkpoint = FALSE]
    /\ srv' = [srv EXCEPT !.undo = Nothing] /\ told' = [told EXCEPT !.begun = Nothing]
    /\ op' = Rest

\* An exception leaves the block: the server undoes what it journalled.
RollBack ==
    /\ Quiet /\ fh.checkpoint
    /\ fh' = [fh EXCEPT !.checkpoint = FALSE, !.stat = FALSE]
    /\ srv' = [srv EXCEPT !.undo = Nothing, !.size = srv.undo.size,
                  !.data = [u \in AllUnits |-> IF u \in DOMAIN srv.undo.old THEN srv.undo.old[u] ELSE @[u]]]
    /\ op' = [Rest EXCEPT !.kind = "rollback"]
    /\ UNCHANGED told

\* stat(): the size property asks the server once its cache is dropped.
Stat ==
    /\ Quiet /\ ~fh.stat
    /\ fh' = [fh EXCEPT !.stat = TRUE, !.hint = srv.size]
    /\ told' = [told EXCEPT !.stale = FALSE]
    /\ UNCHANGED <<srv, op>>

\* The connection is lost, or abort() shuts it: a writer is never re-opened.
\* What the plane had acknowledged still counts.
LoseWriter ==
    /\ op.pc # "idle"
    /\ fh' = [IF op.pc = "plane" /\ op.kind # "write" THEN Invalidated(fh, op.high) ELSE fh
                 EXCEPT !.live = FALSE]
    /\ \E why \in {"transient", "aborted"} : Returns(why)
    /\ UNCHANGED <<srv, told>>

WriteNext ==
    \/ \E kind \in Plane : BeginWrite(kind)
    \/ PlaneSend \/ PlaneAnswer \/ PlaneEnd \/ SendAgain \/ EventWrite
    \/ PgWrite \/ PgRetry \/ PgEnd \/ Truncate \/ RefusedWhole \/ WriteV \/ Batch
    \/ BeginCheckpoint \/ CommitCheckpoint \/ RollBack \/ Stat \/ LoseWriter

WriteSpec == WriteInit /\ [][WriteNext]_writeVars

-----------------------------------------------------------------------------
(* Properties.                                                             *)

\* A write call that returns without error has put its own bytes everywhere it
\* was asked to - refusals, deferrals and fallbacks included - an upload has
\* counted each piece once, and a pgwrite has left no corrupt page behind.
WriteHonest ==
    op.pc = "idle" /\ op.result = "ok" /\ op.kind \notin {"truncate", "none"} =>
        /\ \A u \in AllUnits : srv.data[u] = told.calls /\ u \notin srv.corrupt
        /\ op.kind = "upload" => told.moved = Units

\* Rolling a checkpoint back leaves the file as it was when it began: every
\* change made inside reached the server as part of it (_submit, writev).
RollBackRestores ==
    op.kind = "rollback" => [data |-> srv.data, size |-> srv.size] = told.begun

\* The size a handle answers from its cache is the server's, through stream
\* uploads that fail part-way, truncations and rollbacks; but for a write, a
\* pgwrite, a writev or a clone that raised with part of it stored, which
\* leaves the cache as it was until a later call drops it.
SizeFresh ==
    fh.live /\ fh.stat /\ op.pc = "idle" => told.stale \/ fh.hint = srv.size

\* What the caller is told of its writes, of a checkpoint and of the size is
\* what the server has (write, pgwrite, truncate, checkpoint).
WritesRight == WriteHonest /\ RollBackRestores /\ SizeFresh
=============================================================================
