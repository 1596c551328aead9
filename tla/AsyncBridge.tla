----------------------------- MODULE AsyncBridge -----------------------------
(***************************************************************************)
(* aio.py: the synchronous library behind coroutines.                      *)
(*                                                                         *)
(* Every awaited call is a job on a pool of worker threads.  A cancelled   *)
(* coroutine raises at once; its job is dropped if it has not started,     *)
(* abandoned through its cancel scope if it has (_run), or, where it makes *)
(* something at the server, run to its end and its result released behind  *)
(* the caller's back (_run_owned).                                         *)
(***************************************************************************)
EXTENDS Integers, Sequences, FiniteSets, SequencesExt

CONSTANTS
    Tasks,      \* coroutines
    PoolSize,   \* Config.aio_workers
    MaxCalls    \* bound: calls made in one behaviour

VARIABLES
    coro,    \* each coroutine: what it awaits, what it holds
    pool,    \* the jobs ever submitted, in order
    afile,   \* one buffered file all of them write to: [buf, sent, journal]
    aio      \* history: [calls, returned, handles, freed, forgone]

asyncVars == <<coro, pool, afile, aio>>

-----------------------------------------------------------------------------
(* What each public coroutine submits: one hop per await, and in each hop  *)
(* the steps its worker takes.  Members that answer on the loop take none. *)

\* _flushed: what is buffered reaches the server first.
FlushFirst == <<"flush", "put">>

Hops == [open    |-> << <<"open">> >>,          trip  |-> << <<"trip">> >>,
         cursor  |-> << <<"buffer">> >>,        flush |-> << <<"flush">> >>,
         flushed |-> <<FlushFirst>>,           close |-> << <<"flush", "close">> >>,
         pieces  |-> << <<"flush">>, <<"put">> >>, direct |-> << <<"direct">> >>,
         walk    |-> << <<"trip">>, <<"trip">> >>,
         block   |-> << <<"begin">>, <<"direct">>, <<"commit">> >>]

\* The shapes of a file's members: reads are a trip, but for pread, which
\* flushes first; write and writelines only fill the buffer; pwrite, truncate
\* and sync flush it first, and writev, clone and pgwrite do not.
FileReads == {"trip", "flushed"}
FileWrites == {"cursor", "flush", "flushed", "direct"}
\* seek flushes; write_pieces flushes in a hop of its own; a checkpoint is a
\* block of the caller's with the journal around it.
FileRest == {"trip", "flush", "pieces", "block", "close"}
\* The shapes of a file system's members, of the copies and of the verbs:
\* iterdir, walk and glob take a trip for every step, and open owns a file.
FsAsks == {"trip"}
FsPrepares == {"trip"}
FsLists == {"trip", "walk"}
FsChanges == {"trip"}
FsFiles == {"trip", "open"}
Copies == {"trip", "open"}
Verbs == {"trip"}

Shapes == UNION {FileReads, FileWrites, FileRest, FsAsks, FsPrepares, FsLists, FsChanges, FsFiles,
                 Copies, Verbs}

-----------------------------------------------------------------------------
Awaiting == [pc |-> "idle", shape |-> "none", hop |-> 0, job |-> 0, id |-> 0, holds |-> {}, after |-> {}]

AsyncInit ==
    /\ coro = [t \in Tasks |-> Awaiting]
    /\ pool = << >>
    /\ afile = [buf |-> << >>, sent |-> << >>, journal |-> FALSE]
    /\ aio = [calls |-> 0, returned |-> {}, handles |-> {}, freed |-> {}, forgone |-> {}]

\* _submit: a job with a cancel scope of its own, or without one (_run_owned).
Job(steps, id, owned, handle, after) ==
    [steps |-> steps, state |-> "queued", id |-> id, owned |-> owned, scope |-> FALSE,
     late |-> FALSE, failed |-> FALSE, handle |-> handle, after |-> after]

Spent == [Job(<< >>, 0, FALSE, 0, {}) EXCEPT !.state = "spent"]

\* The next hop of the call coroutine c is in.
Submit(c) ==
    Job(Hops[c.shape][c.hop], c.id, c.shape = "open",
        IF c.shape = "close" THEN CHOOSE h \in c.holds : TRUE ELSE 0, c.after)

\* A public coroutine is awaited.
Await(t) ==
    /\ coro[t].pc = "idle" /\ aio.calls < MaxCalls
    /\ \E shape \in Shapes :
         /\ shape = "close" => coro[t].holds # {}
         /\ LET c == [coro[t] EXCEPT !.pc = "await", !.shape = shape, !.hop = 1, !.job = Len(pool) + 1,
                                     !.id = aio.calls + 1, !.after = aio.returned]
            IN coro' = [coro EXCEPT ![t] = c] /\ pool' = Append(pool, Submit(c))
    /\ aio' = [aio EXCEPT !.calls = @ + 1]
    /\ UNCHANGED afile

-----------------------------------------------------------------------------
(* The workers.                                                            *)

Running == {j \in DOMAIN pool : pool[j].state = "running"}

\* A free worker takes the oldest job.
TakeJob(j) ==
    /\ pool[j].state = "queued" /\ Cardinality(Running) < PoolSize
    /\ \A k \in 1 .. j - 1 : pool[k].state # "queued"
    /\ pool' = [pool EXCEPT ![j].state = "running"]
    /\ UNCHANGED <<coro, afile, aio>>

Buffered(ids) == [i \in DOMAIN ids |-> [id |-> ids[i], after |-> {}, raw |-> FALSE]]
Flushed == [afile EXCEPT !.sent = @ \o Buffered(afile.buf), !.buf = << >>]

\* _release_late: what a cancelled open produced anyway is queued for release.
Finished(j, handle, failed) ==
    LET job == pool[j]
        done == [pool EXCEPT ![j] = IF \E t \in Tasks : coro[t].job = j
                                    THEN [@ EXCEPT !.state = "done", !.handle = handle, !.failed = failed, !.steps = << >>]
                                    ELSE Spent]
    IN IF job.late /\ ~failed THEN Append(done, Job(<<"close">>, 0, TRUE, handle, {})) ELSE done

\* One step of the synchronous call, as it reaches the server.
Step(j) ==
    /\ pool[j].state = "running" /\ pool[j].steps # << >>
    /\ LET job == pool[j]
           step == Head(job.steps)
           last == Len(job.steps) = 1
           handle == IF step = "open" THEN j ELSE job.handle
       IN /\ job.scope => step = "buffer"
          /\ pool' = IF last THEN Finished(j, handle, FALSE) ELSE [pool EXCEPT ![j].steps = Tail(@)]
          /\ CASE step = "buffer" ->
                    \* a full buffer is written out before it takes more
                    \E f \in {afile, Flushed} : afile' = [f EXCEPT !.buf = Append(@, job.id)]
               [] step = "flush" -> afile' = Flushed
               [] step \in {"put", "direct"} ->
                    afile' = [afile EXCEPT !.sent = Append(@, [id |-> job.id, after |-> job.after,
                                                               raw |-> step = "direct"])]
               [] step = "begin" -> afile' = [afile EXCEPT !.journal = TRUE]
               [] step = "commit" -> afile' = [afile EXCEPT !.journal = FALSE]
               [] OTHER -> UNCHANGED afile
          /\ aio' = [aio EXCEPT !.handles = IF step = "open" THEN @ \cup {j} ELSE @,
                                !.freed = IF step = "close" THEN @ \cup {job.handle} ELSE @]
    /\ UNCHANGED coro

\* The request fails, or its scope was cancelled and it is abandoned: nothing
\* more of the call is sent.
StepFails(j) ==
    /\ pool[j].state = "running" /\ Head(pool[j].steps) # "buffer"
    /\ pool' = Finished(j, pool[j].handle, TRUE)
    /\ aio' = [aio EXCEPT !.forgone = @ \cup (IF Last(pool[j].steps) = "close" THEN {pool[j].handle}
                                              ELSE IF Last(pool[j].steps) = "commit" THEN {-1} ELSE {})]
    /\ UNCHANGED <<coro, afile>>

-----------------------------------------------------------------------------
(* The event loop.                                                         *)

Goes(t, c) == coro' = [coro EXCEPT ![t] = c]
Rests(t) == [Awaiting EXCEPT !.holds = coro[t].holds]

\* The future is done: the coroutine goes on with its next hop, or returns.
Deliver(t) ==
    /\ coro[t].pc = "await" /\ pool[coro[t].job].state = "done"
    /\ LET c == coro[t]
           job == pool[c.job]
           more == ~job.failed /\ c.hop < Len(Hops[c.shape])
           next == [c EXCEPT !.hop = @ + 1, !.job = Len(pool) + 1]
           rest == [pool EXCEPT ![c.job] = Spent]
           leave == c.shape = "block" /\ c.hop = 2 /\ job.failed
       IN IF more THEN Goes(t, next) /\ pool' = Append(rest, Submit(next)) /\ UNCHANGED aio
          ELSE IF leave
          THEN \* the block raised: its __exit__ is a call of its own
               Goes(t, next) /\ pool' = Append(rest, Job(<<"commit">>, c.id, FALSE, 0, {})) /\ UNCHANGED aio
          ELSE /\ Goes(t, [Rests(t) EXCEPT !.holds =
                              IF job.failed THEN @
                              ELSE IF c.shape = "open" THEN @ \cup {job.handle}
                              ELSE IF c.shape = "close" THEN @ \ {job.handle} ELSE @])
               /\ aio' = [aio EXCEPT !.returned = IF job.failed THEN @ ELSE @ \cup {c.id}]
               /\ pool' = rest
    /\ UNCHANGED afile

\* Mutation: an open is abandoned like any other call.
AbandonedAll(j) ==
    IF pool[j].state = "running" THEN [pool EXCEPT ![j].scope = TRUE] ELSE [pool EXCEPT ![j] = Spent]

\* What a cancellation makes of the job that was awaited.
Abandoned(j) ==
    LET job == pool[j]
    IN CASE job.state = "queued" -> [pool EXCEPT ![j] = Spent]
         [] job.state = "running" -> [pool EXCEPT ![j].scope = ~job.owned, ![j].late = job.owned]
         [] job.state = "done" /\ job.owned /\ ~job.failed ->
                Append([pool EXCEPT ![j] = Spent], Job(<<"close">>, 0, TRUE, job.handle, {}))
         [] OTHER -> [pool EXCEPT ![j] = Spent]

\* The task is cancelled while it awaits: it raises at once.  Leaving a
\* checkpoint's block that way awaits its __exit__ first.
CancelTask(t) ==
    /\ coro[t].pc = "await"
    /\ LET c == coro[t]
           gone == Abandoned(c.job)
           leave == c.shape = "block" /\ c.hop = 2
       IN IF leave
          THEN /\ pool' = Append(gone, Job(<<"commit">>, c.id, FALSE, 0, {}))
               /\ Goes(t, [c EXCEPT !.hop = 3, !.job = Len(gone) + 1]) /\ UNCHANGED aio
          ELSE /\ pool' = gone /\ Goes(t, Rests(t))
               /\ aio' = [aio EXCEPT !.forgone = @ \cup
                     (IF c.shape = "close" THEN {pool[c.job].handle}
                      ELSE IF c.shape = "block" THEN {-1} ELSE {})]
    /\ UNCHANGED afile

WorkerSteps == \E j \in DOMAIN pool : TakeJob(j) \/ Step(j) \/ StepFails(j)
AsyncNext == WorkerSteps \/ \E t \in Tasks : Await(t) \/ Deliver(t) \/ CancelTask(t)

\* Safety only: whether a job is ever run is the event loop's business.
AsyncSpec == AsyncInit /\ [][AsyncNext]_asyncVars

-----------------------------------------------------------------------------
(* Properties.                                                             *)

Releasing(h) ==
    \E j \in DOMAIN pool : pool[j].handle = h /\ pool[j].state \in {"queued", "running"}
                           /\ pool[j].steps # << >> /\ Last(pool[j].steps) = "close"
Undelivered(h) == pool[h].late \/ \E t \in Tasks : coro[t].pc = "await" /\ coro[t].job = h

\* A handle an open made at the server is always somebody's: held by the
\* coroutine that awaited it, about to be given to it, or on its way to be
\* closed, however the cancellation raced the open (_run_owned); unless the
\* close itself failed or was given up.
NoHandleLost ==
    \A h \in aio.handles \ (aio.freed \cup aio.forgone) :
        \/ \E t \in Tasks : h \in coro[t].holds
        \/ Undelivered(h)
        \/ Releasing(h)

\* No write that returned before a pwrite, a sync or a write_pieces was
\* called lands at the server after it (_flushed), and a checkpoint's block
\* that was entered and left leaves no journal behind.
AsyncOrder ==
    /\ \A i, j \in DOMAIN afile.sent : i < j /\ ~afile.sent[i].raw => afile.sent[j].id \notin afile.sent[i].after
    /\ afile.journal /\ -1 \notin aio.forgone =>
          \E t \in Tasks : coro[t].shape = "block" /\ coro[t].pc = "await"

\* Whatever is cancelled while a worker thread runs on, no handle is left
\* without an owner and writes reach the file in order (_run_owned, _flushed).
AsyncSafe == NoHandleLost /\ AsyncOrder
=============================================================================
