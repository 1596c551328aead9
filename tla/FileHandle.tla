----------------------------- MODULE FileHandle -----------------------------
(***************************************************************************)
(* One open file shared by threads, and getting it back after its server   *)
(* is lost: _Handle of src/src/xrdclient/client/_handle.py and the read    *)
(* paths of client/_reading.py that use it.                                *)
(*                                                                         *)
(* A read runs on the event path (_execute) or on the bulk plane           *)
(* (_plane_readinto, then the event path).  Each looks at the handle's     *)
(* attributes one at a time, without a lock: recoveries, the router, the   *)
(* handle.  _reopen replaces them one at a time too, under _state, which   *)
(* only re-opens take; abort takes no lock of the handle at all.  Every    *)
(* such look and every such assignment is a step of its own here.          *)
(*                                                                         *)
(* A router is what module Connections models, seen by one file: the       *)
(* connection it holds, whether it may dial another, whether it has been   *)
(* aborted.  What a router does under its lock (dial, drop, pin, abort) is *)
(* one step, and its redirects are left to that module.  The file owns its *)
(* router (one lent by a filesystem is in module Connections) and binds no *)
(* data path (data_streams = 0).  A kXR_wait past its budget and an        *)
(* expired deadline end a read as they stand and touch nothing, so they    *)
(* are left out.                                                           *)
(***************************************************************************)
EXTENDS Integers, Sequences, SequencesExt

CONSTANTS
    Threads, Nobody,
    Opener,         \* the thread that opens the file, and closes it
    Handles,        \* the values a server gives out as fhandle: positive numbers
    Retries,        \* connect_retries
    MaxCalls,       \* bound: reads called for
    MaxConns,       \* bound: connections dialled; a later dial fails
    MaxMishaps      \* bound: servers lost, answers that never come, dials and
                    \* opens that fail

ASSUME FileAssumption ==
    /\ Opener \in Threads /\ Nobody \notin Threads
    /\ Handles \subseteq Nat \ {0} /\ Handles # {}
    /\ {Retries, MaxCalls, MaxConns, MaxMishaps} \subseteq Nat

VARIABLES
    conns,      \* the connections dialled: does the server still serve it, has
                \* the client seen it fail, has the client let it go, and the
                \* handles open on it
    routers,    \* the routers made: _session (0 for None), reconnect, _aborted
    file,       \* the attributes of the handle: _router, _handle (0 for None),
                \* recoveries, _aborted, recover_handles, _WRITING in _flags
    state,      \* who holds _state, the lock re-opening is done under
    th,         \* the threads
    abort,      \* the thread that calls abort: where it is, the router it read
    calls, mishaps,
    closing     \* what close came to; whether there was a handle to close,
                \* whether a server heard the kXR_close, and whether a close, or an open or a re-open that failed,
                \* has left the file without a handle

vars == <<conns, routers, file, state, th, abort, calls, mishaps, closing>>

Results == {"none", "ok", "aborted", "transient", "notopen", "closed", "refused"}

(* The steps of a thread, and the calls and requests they are steps of.    *)
Places == {"idle", "top", "router", "session", "handle", "attempt", "sent",
           "relock", "newrouter", "arm", "pin", "adopt", "release"}

(* Thread t is in _reopen, past the checks it starts with.                 *)
Reopening(t) ==
    /\ th[t].call \in {"event", "plane"}
    /\ \/ th[t].pc \in {"newrouter", "arm", "pin", "adopt"}
       \/ th[t].asks = "open" /\ th[t].pc \in {"attempt", "sent"}

TypeOK ==
    /\ conns \in Seq([up: BOOLEAN, broken: BOOLEAN, closed: BOOLEAN, open: SUBSET Handles])
    /\ Len(conns) <= MaxConns
    /\ routers \in Seq([conn: 0..Len(conns), reconnect: BOOLEAN, aborted: BOOLEAN])
    /\ file \in [router: 1..Len(routers), handle: Handles \cup {0}, recoveries: Nat,
                 aborted: BOOLEAN, recover: BOOLEAN, writing: BOOLEAN]
    /\ state \in Threads \cup {Nobody}
    /\ \A t \in Threads :
          /\ th[t].pc \in Places
          /\ th[t].call \in {"open", "event", "plane", "close"}
          /\ th[t].asks \in {"open", "read", "close"}
          /\ th[t].seen \in 0..file.recoveries
          /\ th[t].attempts \in 0..Retries + 1 /\ th[t].tries \in 0..Retries + 1
          /\ th[t].rtr \in 1..Len(routers)
          /\ th[t].conn \in 0..Len(conns)
          /\ th[t].hdl \in Handles \cup {0}
          /\ th[t].res \in Results
    /\ abort \in [pc: {"no", "marked", "grabbed", "done"}, rtr: 1..Len(routers)]
    /\ calls \in 0..MaxCalls /\ mishaps \in 0..MaxMishaps
    /\ closing \in [res: Results, had: BOOLEAN, heard: BOOLEAN, taken: BOOLEAN]
    (* _state is held by the thread that is re-opening, and by no other. *)
    /\ \A t \in Threads : state = t <=> Reopening(t)

NewRouter(c, re) == [conn |-> c, reconnect |-> re, aborted |-> FALSE]

(* A thread outside the library, and what its last call came to.           *)
Resting(res) ==
    [pc |-> "idle", call |-> "event", asks |-> "read", seen |-> 0, attempts |-> 0,
     tries |-> 0, rtr |-> 1, conn |-> 0, hdl |-> 0, res |-> res]

(* A file made for its URL, with a router of its own; nothing dialled.     *)
Init ==
    /\ conns = <<>>
    /\ routers = <<NewRouter(0, TRUE)>>
    /\ \E w \in BOOLEAN : file = [router |-> 1, handle |-> 0, recoveries |-> 0,
                                  aborted |-> FALSE, recover |-> TRUE, writing |-> w]
    /\ state = Nobody
    /\ th = [t \in Threads |-> Resting("none")]
    /\ abort = [pc |-> "no", rtr |-> 1]
    /\ calls = 0 /\ mishaps = 0
    /\ closing = [res |-> "none", had |-> FALSE, heard |-> FALSE, taken |-> FALSE]
-----------------------------------------------------------------------------
(* Called by the application.                                              *)

Ends(t, res) == th' = [th EXCEPT ![t] = Resting(res)]

(* open(), once: the request goes out on the router the file was made with. *)
Open ==
    /\ th[Opener].pc = "idle" /\ calls = 0 /\ file.handle = 0 /\ closing.res = "none"
    /\ th[Opener].res = "none"
    /\ th' = [th EXCEPT ![Opener] = [@ EXCEPT !.pc = "attempt", !.call = "open",
                                     !.asks = "open", !.rtr = file.router]]
    /\ UNCHANGED <<conns, routers, file, state, abort, calls, mishaps, closing>>

(* A read on the event path, or on the plane, on a file that was opened.
   Both start by noting recoveries.                                        *)
Read(t) ==
    /\ th[t].pc = "idle" /\ calls < MaxCalls /\ closing.res = "none"
    /\ th[Opener].res # "none" \/ calls > 0
    /\ \E how \in {"event", "plane"} :
          th' = [th EXCEPT ![t] = [@ EXCEPT !.pc = "router", !.call = how,
                                  !.seen = file.recoveries, !.res = "none"]]
    /\ calls' = calls + 1
    /\ UNCHANGED <<conns, routers, file, state, abort, mishaps, closing>>

(* abort(): the marks first, then the router the handle has at that moment,
   which is shut down under its own lock.                                  *)
AbortMark ==
    /\ abort.pc = "no" /\ closing.res = "none"
    /\ abort' = [abort EXCEPT !.pc = "marked"]
    /\ file' = [file EXCEPT !.aborted = TRUE, !.recover = FALSE]
    /\ UNCHANGED <<conns, routers, state, th, calls, mishaps, closing>>

AbortGrab ==
    /\ abort.pc = "marked"
    /\ abort' = [pc |-> "grabbed", rtr |-> file.router]
    /\ UNCHANGED <<conns, routers, file, state, th, calls, mishaps, closing>>

(* A connection the client closes; the server drops what was open on it.   *)
Shut == [up |-> FALSE, broken |-> TRUE, closed |-> TRUE, open |-> {}]

LetGo(cs, c) == IF c = 0 THEN cs ELSE [cs EXCEPT ![c] = Shut]

AbortRouter ==
    /\ abort.pc = "grabbed"
    /\ conns' = LetGo(conns, routers[abort.rtr].conn)
    /\ routers' = [routers EXCEPT ![abort.rtr] = [conn |-> 0, reconnect |-> FALSE, aborted |-> TRUE]]
    /\ abort' = [abort EXCEPT !.pc = "done"]
    /\ UNCHANGED <<file, state, th, calls, mishaps, closing>>

(* close(), whatever the other threads are doing: the handle is taken away
   first, then the server is told, unless the connection can no longer
   carry it.                                                               *)
Close ==
    /\ th[Opener].pc = "idle" /\ closing.res = "none" /\ th[Opener].res # "none"
    /\ th' = [th EXCEPT ![Opener] =
                [@ EXCEPT !.pc = IF file.aborted \/ file.handle = 0 THEN "release" ELSE "session",
                          !.call = "close", !.asks = "close", !.rtr = file.router,
                          !.hdl = file.handle, !.conn = 0, !.tries = 0, !.res = "ok"]]
    /\ file' = [file EXCEPT !.handle = 0]
    /\ closing' = [closing EXCEPT !.taken = TRUE, !.had = file.handle # 0]
    /\ UNCHANGED <<conns, routers, state, abort, calls, mishaps>>

(* Its end: the router lets its connection go, whatever happened.          *)
CloseRelease(t) ==
    /\ th[t].pc = "release"
    /\ conns' = LetGo(conns, routers[file.router].conn)
    /\ routers' = [routers EXCEPT ![file.router].conn = 0]
    /\ Ends(t, th[t].res)
    /\ closing' = [closing EXCEPT !.res = th[t].res]
    /\ UNCHANGED <<file, state, abort, calls, mishaps>>
-----------------------------------------------------------------------------
(* What a call does when its request has finally failed.                   *)

recoverable == file.recover /\ ~file.writing

(* _execute meeting a TransientError: the retry re-opens, from the top of
   the loop.                                                               *)
ExecuteFailed(t) ==
    IF recoverable /\ th[t].attempts < Retries
    THEN th' = [th EXCEPT ![t] = [th[t] EXCEPT !.pc = "top", !.asks = "read", !.attempts = @ + 1]]
    ELSE Ends(t, "transient")

(* Mutation: a writer's lost connection is excused like a reader's. *)
CloseForgives(why) == IF why = "transient" THEN "ok" ELSE why

(* close(): a reader's lost connection is not an error, a writer's is.     *)
CloseResult(why) == IF why = "transient" /\ ~file.writing THEN "ok" ELSE why

RequestFailed(t, why, cs, rs) ==
    LET opened == file.router
    IN  CASE th[t].asks = "read" ->
               /\ IF why = "transient" THEN ExecuteFailed(t) ELSE Ends(t, why)
               /\ conns' = cs /\ routers' = rs
               /\ UNCHANGED <<file, state, closing>>
          (* open(): the connection it made is dropped.                    *)
          [] th[t].asks = "open" /\ th[t].call = "open" ->
               /\ Ends(t, why)
               /\ conns' = LetGo(cs, rs[opened].conn)
               /\ routers' = [rs EXCEPT ![opened].conn = 0]
               /\ closing' = [closing EXCEPT !.taken = TRUE]
               /\ UNCHANGED <<file, state>>
          (* _reopen: the file is closed by its failure, and a transient one
             is another try to _execute, which called it inside the loop.  *)
          [] th[t].asks = "open" /\ th[t].call # "open" ->
               /\ IF why = "transient" /\ th[t].call = "event" THEN ExecuteFailed(t) ELSE Ends(t, why)
               /\ conns' = cs /\ routers' = rs
               /\ file' = [file EXCEPT !.handle = 0]
               /\ state' = Nobody
               /\ closing' = [closing EXCEPT !.taken = TRUE]
          [] OTHER ->
               /\ th' = [th EXCEPT ![t].pc = "release", ![t].res = CloseResult(why)]
               /\ conns' = cs /\ routers' = rs
               /\ UNCHANGED <<file, state, closing>>

(* _recover_from_plane and _recover_from_step: a re-open under the count the
   plane started from, then the event path.                                *)
PlaneFailed(t, cs, rs) ==
    /\ conns' = cs /\ routers' = rs
    /\ IF file.aborted THEN Ends(t, "aborted")
       ELSE IF recoverable THEN th' = [th EXCEPT ![t].pc = "relock"]
       ELSE Ends(t, "transient")
    /\ UNCHANGED <<file, state, closing>>

\* Request.idempotent, of the requests a handle makes: an open that may
\* create or truncate and a close are sent once.
Idempotent(asks) == asks = "read" \/ (asks = "open" /\ ~file.writing)

(* Router._recover: resend on a router that may reconnect, which drops the
   connection that failed (any it has, if none was made).                  *)
Resends(t) ==
    /\ routers[th[t].rtr].reconnect
    /\ th[t].tries < Retries
    /\ Idempotent(th[t].asks)

Drops(rs, r, c) == rs[r].conn # 0 /\ (c = 0 \/ rs[r].conn = c)

LinkFailed(t, cs, rs) ==
    LET r == th[t].rtr IN
    IF th[t].call = "plane" /\ th[t].asks = "read" THEN PlaneFailed(t, cs, rs)
    ELSE IF Resends(t)
    THEN /\ th' = [th EXCEPT ![t] = [th[t] EXCEPT !.pc = "attempt", !.tries = @ + 1]]
         /\ IF Drops(rs, r, th[t].conn)
            THEN conns' = LetGo(cs, rs[r].conn) /\ routers' = [rs EXCEPT ![r].conn = 0]
            ELSE conns' = cs /\ routers' = rs
         /\ UNCHANGED <<file, state, closing>>
    ELSE RequestFailed(t, IF routers[r].aborted THEN "aborted" ELSE "transient", cs, rs)
-----------------------------------------------------------------------------
(* A read, one look at the handle's attributes at a time.                  *)

(* The count, at the top of _execute's loop, where a retry begins.         *)
Top(t) ==
    /\ th[t].pc = "top"
    /\ th' = [th EXCEPT ![t].pc = "relock", ![t].seen = file.recoveries]
    /\ UNCHANGED <<conns, routers, file, state, abort, calls, mishaps, closing>>

(* The router.                                                             *)
GrabRouter(t) ==
    /\ th[t].pc = "router"
    /\ th' = [th EXCEPT ![t] = [@ EXCEPT !.rtr = file.router, !.conn = 0, !.tries = 0,
                                !.pc = IF th[t].call = "plane" THEN "session" ELSE "handle"]]
    /\ UNCHANGED <<conns, routers, file, state, abort, calls, mishaps, closing>>

(* The handle, which the event path reads before the request is sent, and
   the plane after it has the connection.                                  *)
GrabHandle(t) ==
    /\ th[t].pc = "handle"
    /\ IF file.handle = 0 THEN Ends(t, "closed")
       ELSE th' = [th EXCEPT ![t].hdl = file.handle,
                             ![t].pc = IF th[t].call = "plane" THEN "sent" ELSE "attempt"]
    /\ UNCHANGED <<conns, routers, file, state, abort, calls, mishaps, closing>>
(* A connection with other requests out on it declines the plane: the event
   path takes the read over.                                               *)
PlaneDeclined(t) ==
    /\ th[t].pc = "sent" /\ th[t].call = "plane" /\ th[t].asks = "read"
    /\ \E u \in Threads \ {t} : th[u].pc = "sent" /\ th[u].conn = th[t].conn
    /\ th' = [th EXCEPT ![t].pc = "router", ![t].call = "event", ![t].seen = file.recoveries]
    /\ UNCHANGED <<conns, routers, file, state, abort, calls, mishaps, closing>>
-----------------------------------------------------------------------------
(* Router.session: the connection it has, another one, or none.            *)

Live(r) == routers[r].conn # 0 /\ ~conns[routers[r].conn].closed
Gone(r) == routers[r].conn # 0 /\ conns[routers[r].conn].closed /\ ~routers[r].reconnect

AtSession(t) == th[t].pc \in {"attempt", "session"}

(* Where a thread goes with a connection: close asks whether it is broken,
   the plane takes the handle, the router sends.                           *)
Onward(t) ==
    IF th[t].pc = "attempt" THEN "sent" ELSE IF th[t].call = "plane" THEN "handle" ELSE "attempt"

TakeSession(t, cs, rs, c) ==
    LET broken == th[t].call = "close" /\ th[t].pc = "session" /\ cs[c].broken
    IN  IF broken THEN RequestFailed(t, "transient", cs, rs)
        ELSE /\ th' = [th EXCEPT ![t].pc = Onward(t), ![t].conn = c]
             /\ conns' = cs /\ routers' = rs
             /\ UNCHANGED <<file, state, closing>>

SessionAborted(t) ==
    /\ AtSession(t) /\ routers[th[t].rtr].aborted
    /\ RequestFailed(t, "aborted", conns, routers)
    /\ UNCHANGED <<abort, calls, mishaps>>

SessionLive(t) ==
    LET r == th[t].rtr IN
    /\ AtSession(t) /\ ~routers[r].aborted /\ Live(r)
    /\ TakeSession(t, conns, routers, routers[r].conn)
    /\ UNCHANGED <<abort, calls, mishaps>>

(* A pinned router does not replace its connection: it reports it lost.    *)
SessionGone(t) ==
    LET r == th[t].rtr IN
    /\ AtSession(t) /\ ~routers[r].aborted /\ Gone(r)
    /\ LinkFailed(t, conns, routers)
    /\ UNCHANGED <<abort, calls, mishaps>>

(* A router that has none dials, a pinned one too.                         *)
NewConn == [up |-> TRUE, broken |-> FALSE, closed |-> FALSE, open |-> {}]

SessionDial(t) ==
    LET r == th[t].rtr
        c == Len(conns) + 1
    IN  /\ AtSession(t) /\ ~routers[r].aborted /\ ~Live(r) /\ ~Gone(r)
        /\ c <= MaxConns
        /\ TakeSession(t, Append(conns, NewConn), [routers EXCEPT ![r].conn = c], c)
        /\ UNCHANGED <<abort, calls, mishaps>>

SessionDialFails(t) ==
    LET r == th[t].rtr IN
    /\ AtSession(t) /\ ~routers[r].aborted /\ ~Live(r) /\ ~Gone(r)
    /\ \/ mishaps < MaxMishaps /\ mishaps' = mishaps + 1
       \/ Len(conns) = MaxConns /\ UNCHANGED mishaps
    (* A dead connection was let go of before the dial.                    *)
    /\ LinkFailed(t, conns, [routers EXCEPT ![r].conn = 0])
    /\ UNCHANGED <<abort, calls>>
-----------------------------------------------------------------------------
(* The server, and what becomes of a request it was sent.                  *)

(* A server goes away, and with it everything open there; what happens after
   the file was closed is nobody's concern here.                           *)
ServerLost ==
    /\ mishaps < MaxMishaps /\ mishaps' = mishaps + 1 /\ closing.res = "none"
    /\ \E c \in DOMAIN conns :
          /\ conns[c].up /\ ~conns[c].closed
          /\ conns' = [conns EXCEPT ![c] = [@ EXCEPT !.up = FALSE, !.open = {}]]
    /\ UNCHANGED <<routers, file, state, th, abort, calls, closing>>

Served(t) == th[t].pc = "sent" /\ conns[th[t].conn].up /\ ~conns[th[t].conn].closed

(* A server looks a handle up among those open on the connection.          *)
AnswerRead(t) ==
    /\ Served(t) /\ th[t].asks = "read"
    /\ Ends(t, IF th[t].hdl \in conns[th[t].conn].open THEN "ok" ELSE "notopen")
    /\ UNCHANGED <<conns, routers, file, state, abort, calls, mishaps, closing>>

AnswerOpen(t) ==
    /\ Served(t) /\ th[t].asks = "open"
    /\ \E h \in Handles \ conns[th[t].conn].open :
          /\ conns' = [conns EXCEPT ![th[t].conn].open = @ \cup {h}]
          /\ th' = [th EXCEPT ![t].pc = "pin", ![t].hdl = h]
    /\ UNCHANGED <<routers, file, state, abort, calls, mishaps, closing>>

RefuseOpen(t) ==
    /\ Served(t) /\ th[t].asks = "open"
    /\ mishaps < MaxMishaps /\ mishaps' = mishaps + 1
    /\ RequestFailed(t, "refused", conns, routers)
    /\ UNCHANGED <<abort, calls>>

AnswerClose(t) ==
    /\ Served(t) /\ th[t].asks = "close"
    /\ LET known == th[t].hdl \in conns[th[t].conn].open IN
       /\ conns' = [conns EXCEPT ![th[t].conn].open = @ \ {th[t].hdl}]
       /\ closing' = [closing EXCEPT !.heard = known]
       /\ th' = [th EXCEPT ![t].pc = "release", ![t].res = IF known THEN "ok" ELSE "notopen"]
    /\ UNCHANGED <<routers, file, state, abort, calls, mishaps>>

(* The connection is gone, or the answer does not come in time; whoever was
   waiting for it marks it broken, and an end of file closes it.           *)
AnswerLost(t) ==
    LET c == th[t].conn IN
    /\ th[t].pc = "sent"
    /\ \/ (~conns[c].up \/ conns[c].closed \/ conns[c].broken) /\ UNCHANGED mishaps
       \/ Served(t) /\ mishaps < MaxMishaps /\ mishaps' = mishaps + 1
    /\ \E eof \in {FALSE} \cup {~conns[c].up} :
          LinkFailed(t, IF eof THEN LetGo(conns, c) ELSE [conns EXCEPT ![c].broken = TRUE], routers)
    /\ UNCHANGED <<abort, calls>>
-----------------------------------------------------------------------------
(* _reopen, under _state.                                                  *)

(* Where a read goes once the handle is back: to its request, on the event
   path, which is new to one that was on the plane.                        *)
Back(t) ==
    [th[t] EXCEPT !.asks = "read", !.seen = file.recoveries, !.pc = "router", !.call = "event"]

(* Re-opened already, by another thread.                                   *)
Reopened(t) == th[t].seen # file.recoveries /\ file.handle # 0

ReopenRefused(t) ==
    /\ th[t].pc = "relock" /\ state = Nobody
    /\ file.aborted
    /\ Ends(t, "aborted")
    /\ UNCHANGED <<conns, routers, file, state, abort, calls, mishaps, closing>>

ReopenShared(t) ==
    /\ th[t].pc = "relock" /\ state = Nobody
    /\ ~file.aborted /\ Reopened(t)
    /\ th' = [th EXCEPT ![t] = Back(t)]
    /\ UNCHANGED <<conns, routers, file, state, abort, calls, mishaps, closing>>

(* The old router's connection is closed and the router replaced.          *)
ReopenBegin(t) ==
    /\ th[t].pc = "relock" /\ state = Nobody
    /\ ~file.aborted /\ ~Reopened(t)
    /\ state' = t
    /\ conns' = LetGo(conns, routers[file.router].conn)
    /\ routers' = [routers EXCEPT ![file.router].conn = 0]
    /\ th' = [th EXCEPT ![t].pc = "newrouter"]
    /\ UNCHANGED <<file, abort, calls, mishaps, closing>>

(* Mutation: the handle is given up before there is a new one. *)
ReopenRouterForgets(t) ==
    /\ th[t].pc = "newrouter"
    /\ routers' = Append(routers, NewRouter(0, TRUE))
    /\ file' = [file EXCEPT !.router = Len(routers'), !.handle = 0]
    /\ th' = [th EXCEPT ![t].pc = "arm"]
    /\ UNCHANGED <<conns, state, abort, calls, mishaps, closing>>

ReopenRouter(t) ==
    /\ th[t].pc = "newrouter"
    /\ routers' = Append(routers, NewRouter(0, TRUE))
    /\ file' = [file EXCEPT !.router = Len(routers')]
    /\ th' = [th EXCEPT ![t].pc = "arm"]
    /\ UNCHANGED <<conns, state, abort, calls, mishaps, closing>>

(* Mutation: an abort that came meanwhile is not passed on. *)
ReopenArmRegardless(t) ==
    /\ th[t].pc = "arm"
    /\ file' = [file EXCEPT !.recoveries = @ + 1]
    /\ th' = [th EXCEPT ![t] = [@ EXCEPT !.pc = "attempt", !.asks = "open", !.rtr = file.router,
                                !.conn = 0, !.tries = 0]]
    /\ UNCHANGED <<conns, routers, state, abort, calls, mishaps, closing>>

(* An abort that reached the old router is passed on to the new one.       *)
ReopenArm(t) ==
    /\ th[t].pc = "arm"
    /\ routers' = [routers EXCEPT ![file.router].aborted = @ \/ file.aborted,
                                  ![file.router].reconnect = @ /\ ~file.aborted]
    /\ file' = [file EXCEPT !.recoveries = @ + 1]
    /\ th' = [th EXCEPT ![t] = [@ EXCEPT !.pc = "attempt", !.asks = "open", !.rtr = file.router,
                                !.conn = 0, !.tries = 0]]
    /\ UNCHANGED <<conns, state, abort, calls, mishaps, closing>>

(* _do_open: the router is pinned to the connection it has by now, ...     *)
Pin(t) ==
    /\ th[t].pc = "pin"
    /\ routers' = [Append(routers, NewRouter(routers[file.router].conn, FALSE))
                     EXCEPT ![file.router].conn = 0]
    /\ file' = [file EXCEPT !.router = Len(routers')]
    /\ th' = [th EXCEPT ![t].pc = "adopt"]
    /\ UNCHANGED <<conns, state, abort, calls, mishaps, closing>>

(* Mutation: the lock is kept. *)
AdoptKeepsState(t) ==
    /\ th[t].pc = "adopt"
    /\ file' = [file EXCEPT !.handle = th[t].hdl]
    /\ th' = [th EXCEPT ![t] = IF th[t].call = "open" THEN Resting("ok") ELSE Back(t)]
    /\ UNCHANGED <<conns, routers, state, abort, calls, mishaps, closing>>

(* ... and the handle the open returned is put in place.                   *)
Adopt(t) ==
    /\ th[t].pc = "adopt"
    /\ file' = [file EXCEPT !.handle = th[t].hdl]
    /\ th' = [th EXCEPT ![t] = IF th[t].call = "open" THEN Resting("ok") ELSE Back(t)]
    /\ state' = IF th[t].call = "open" THEN state ELSE Nobody
    /\ UNCHANGED <<conns, routers, abort, calls, mishaps, closing>>
-----------------------------------------------------------------------------
Step(t) ==
    \/ Top(t) \/ GrabRouter(t) \/ GrabHandle(t) \/ PlaneDeclined(t)
    \/ SessionAborted(t) \/ SessionLive(t) \/ SessionGone(t)
    \/ SessionDial(t) \/ SessionDialFails(t)
    \/ AnswerRead(t) \/ AnswerOpen(t) \/ RefuseOpen(t) \/ AnswerClose(t) \/ AnswerLost(t)
    \/ ReopenRefused(t) \/ ReopenShared(t) \/ ReopenBegin(t)
    \/ ReopenRouter(t) \/ ReopenArm(t) \/ Pin(t) \/ Adopt(t)
    \/ CloseRelease(t)

Next ==
    \/ Open \/ Close \/ ServerLost
    \/ AbortMark \/ AbortGrab \/ AbortRouter
    \/ \E t \in Threads : Read(t) \/ Step(t)

Fairness == \A t \in Threads : WF_vars(Step(t))

Spec == Init /\ [][Next]_vars /\ Fairness
-----------------------------------------------------------------------------
(* A read is never told the file is closed while it is being re-opened: the
   old handle stays in place until the new one replaces it (_reopen), so a
   read finds none only after a close, a re-open that failed, or an open
   that did.                                                               *)
NeverFoundNone ==
    \A t \in Threads : th[t].res = "closed" => closing.taken

(* A handle opened for writing is never re-opened, whichever of its requests
   lost the connection: NEW and DELETE would be done again, and what the
   lost server had not yet stored would be missing (recoverable).          *)
WriterNeverReopened == file.writing => file.recoveries = 0

(* Once abort has returned no kXR_open is sent for the file, whichever
   router a re-open under way had got to when it came.                     *)
NoOpenAfterAbort ==
    [][abort.pc = "done" =>
         \A t \in Threads : th[t].asks = "open" /\ th[t].pc = "attempt" => th'[t].pc # "sent"]_vars

(* A writer's close that returns without raising was heard by the server
   the file was open on, unless the file was aborted or already lost its
   handle (close: "That failure is raised, not logged").                   *)
CloseHonest ==
    closing.res = "ok" /\ file.writing /\ ~file.aborted => closing.heard \/ ~closing.had

(* Every call ends: threads that lose the server together, re-open under
   each other and lose it again all come to an answer or an error.         *)
EveryCallEnds == \A t \in Threads : th[t].pc # "idle" ~> th[t].pc = "idle"

(* A re-open never takes away a connection on which the file is open and
   well, unless it is the one the request that failed was sent on: a loss
   another thread has dealt with is not dealt with again (_reopen, seen).  *)
ReopenedOnce ==
    [][\A t \in Threads :
         LET c == routers[file.router].conn
         IN  state # t /\ state' = t /\ c # 0 /\ th[t].conn # c
             => ~(conns[c].up /\ file.handle \in conns[c].open)]_vars

(* A read beside a re-open is made with the old handle on the old connection
   or with the new one on the new: on a file nobody aborted or closed it is
   never refused for a handle its server does not know (_reopen: "fails over
   to the new handle instead of finding none").                            *)
FailsOver ==
    ~file.aborted /\ ~closing.taken =>
        \A t \in Threads : th[t].pc = "idle" => th[t].res # "notopen"

(* A re-open is one thread's at a time, and never leaves the others without a
   handle to read with (_reopen).                                          *)
HandleSafe == TypeOK /\ NeverFoundNone

(* What was written is never taken for stored when it may be lost: no writer
   is re-opened, and its close is not excused (recoverable, close).        *)
WriterSafe == WriterNeverReopened /\ CloseHonest
=============================================================================
