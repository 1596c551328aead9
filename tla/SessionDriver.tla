---------------------------- MODULE SessionDriver ----------------------------
(***************************************************************************)
(* The blocking driver of src/src/xrdclient/session/sync.py: many threads  *)
(* making requests on one connection.  One thread at a time reads the link *)
(* and files events in the others' mailboxes; the rest sleep on the        *)
(* condition.  Frames are queued under the session lock and sent under the *)
(* send lock, which is never waited for while the session lock is held.    *)
(*                                                                         *)
(* Whatever the code does in one hold of the session lock is one action,   *)
(* since nothing blocks inside a hold but the condition, which lets go.    *)
(* The machine is reduced to which stream is whose (StreamIds and          *)
(* SessionMachine say the rest): an id is any that is neither pending nor  *)
(* retired.  The server and the two directions of the socket are the       *)
(* environment: a frame or a reply is one or more pieces, a direction      *)
(* holds a bounded number of them, and the server, like the repository's   *)
(* own, reads the next request once it has written the last reply.  Half a *)
(* frame on the wire puts it out of step for good: it answers nothing      *)
(* after it.                                                               *)
(***************************************************************************)
EXTENDS Naturals, Sequences, FiniteSets

CONSTANTS
    Threads,
    NoThread,       \* stands for no thread
    Sids,           \* stream ids
    MaxRequests,    \* bound: requests and transfers begun
    ReqSizes,       \* pieces of a request frame
    ReplySizes,     \* pieces of a reply
    UpCap, DownCap, \* pieces the socket holds in each direction
    MaxWaits,       \* bound: kXR_wait answers in a behaviour
    Expiries,       \* do callers set deadlines?
    Failures        \* the outside events that may happen: subset of
                    \* {"eof", "timeout", "close", "bulk"}

ASSUME DriverAssumption ==
    /\ NoThread \notin Threads
    /\ MaxRequests \in Nat /\ MaxWaits \in Nat
    /\ ReqSizes \subseteq Nat \ {0} /\ ReplySizes \subseteq Nat \ {0}
    /\ UpCap \in Nat \ {0} /\ DownCap \in Nat \ {0}
    /\ Expiries \in BOOLEAN
    /\ Failures \subseteq {"eof", "timeout", "close", "bulk"}

VARIABLES
    pc,         \* where each thread is
    then,       \* where a thread in _transmit goes when it is done
    begun,      \* requests begun so far
    round,      \* the number of a thread's request among them
    sid,        \* the stream id of a thread's request
    box,        \* its mailbox
    inbox,      \* _inbox: whose mailbox is filed under each id
    pending,    \* the machine: whose request each id carries
    retired,    \* the machine: ids given up on
    reading,    \* is the control link in _reading?
    bulkOwner,  \* _bulk_owner
    outq,       \* _outq: frames framed and not yet taken to be sent
    sendLock,   \* _send_lock's holder
    batch,      \* what a sender took off _outq and has not sent
    framed,     \* frames framed so far: a frame's number is its place
    up, down,   \* the socket, in pieces
    server,     \* what the server is writing: [frame, left]
    waits,      \* kXR_wait answers given
    arrived,    \* the number of the last frame the server read whole
    torn,       \* is half a frame on the wire, and its rest never to come?
    link,       \* "up", "eof" (the peer closed) or "shut" (we did)
    fd,         \* the descriptor: "open", "doomed" or "closed"
    mstate,     \* the machine's state: READY or CLOSED
    broken,     \* _broken
    told        \* what each thread's last request came to

reqVars  == <<pc, then, begun, round, sid, box, told>>
mapVars  == <<inbox, pending, retired>>
sendVars == <<outq, sendLock, batch, framed>>
envVars  == <<up, down, server, waits, arrived, torn>>
roleVars == <<reading, bulkOwner>>
linkVars == <<link, fd, mstate, broken>>
vars     == <<reqVars, mapVars, sendVars, envVars, roleVars, linkVars>>

\* An event, or an outcome, that no frame brought.
Told(kind) == [kind |-> kind, who |-> NoThread, round |-> 0]

Nobody == [frame |-> [who |-> NoThread], left |-> 0]

Init ==
    /\ pc = [t \in Threads |-> "idle"]
    /\ then = [t \in Threads |-> "await"]
    /\ begun = 0
    /\ round = [t \in Threads |-> 0]
    /\ sid = [t \in Threads |-> 0]
    /\ box = [t \in Threads |-> <<>>]
    /\ told = [t \in Threads |-> Told("nothing")]
    /\ inbox = [s \in Sids |-> NoThread]
    /\ pending = [s \in Sids |-> NoThread]
    /\ retired = {}
    /\ reading = FALSE /\ bulkOwner = NoThread
    /\ outq = <<>> /\ sendLock = NoThread
    /\ batch = [t \in Threads |-> <<>>]
    /\ framed = 0
    /\ up = <<>> /\ down = <<>> /\ server = Nobody /\ waits = 0 /\ arrived = 0
    /\ torn = FALSE
    /\ link = "up" /\ fd = "open" /\ mstate = "READY" /\ broken = FALSE

-----------------------------------------------------------------------------
(* Waking, and letting go of the reader role.                              *)

\* notify_all: every sleeper takes another look.
Woken(places) ==
    [t \in Threads |-> CASE places[t] = "turn"   -> "idle"
                         [] places[t] = "parked" -> "await"
                         [] OTHER                -> places[t]]

\* _let_go: the role is free, and what was shut down under it is closed.
LetGo ==
    /\ reading' = FALSE
    /\ fd' = IF fd = "doomed" THEN "closed" ELSE fd

\* _fail_all: a copy of the failure in every mailbox filed, but own's.
Failing(own) ==
    [t \in Threads |-> IF t # own /\ \E s \in Sids : inbox[s] = t
                       THEN Append(box[t], Told("failed")) ELSE box[t]]

-----------------------------------------------------------------------------
(* Starting a request (_start).                                            *)

FreeSids == {s \in Sids : pending[s] = NoThread /\ s \notin retired}

NewFrame(t, s, size, reply) ==
    [who |-> t, round |-> begun + 1, sid |-> s, num |-> framed + 1, size |-> size, reply |-> reply]

\* Mutation: a thread that gets the send lock at once sends its own frame
\* before the ones queued.
QueuedAhead(t, frame) ==
    IF sendLock = NoThread
    THEN /\ sendLock' = t /\ outq' = <<>>
         /\ batch' = [batch EXCEPT ![t] = <<frame>> \o outq]
         /\ pc' = [pc EXCEPT ![t] = "drain"]
    ELSE /\ outq' = <<frame>> \o outq
         /\ pc' = [pc EXCEPT ![t] = "queue"]
         /\ UNCHANGED <<sendLock, batch>>

\* The id, the mailbox and the frame are taken in one hold of the lock; with
\* the send lock free the thread takes it there and then, with everything
\* queued.
Queued(t, frame) ==
    IF sendLock = NoThread
    THEN /\ sendLock' = t /\ outq' = <<>>
         /\ batch' = [batch EXCEPT ![t] = Append(outq, frame)]
         /\ pc' = [pc EXCEPT ![t] = "drain"]
    ELSE /\ outq' = Append(outq, frame)
         /\ pc' = [pc EXCEPT ![t] = "queue"]
         /\ UNCHANGED <<sendLock, batch>>

Start(t) ==
    /\ pc[t] = "idle" /\ begun < MaxRequests
    /\ mstate = "READY" /\ bulkOwner = NoThread
    /\ \E s \in FreeSids, size \in ReqSizes, reply \in ReplySizes :
         /\ sid' = [sid EXCEPT ![t] = s]
         /\ inbox' = [inbox EXCEPT ![s] = t]
         /\ pending' = [pending EXCEPT ![s] = t]
         /\ Queued(t, NewFrame(t, s, size, reply))
    /\ framed' = framed + 1
    /\ then' = [then EXCEPT ![t] = "await"]
    /\ begun' = begun + 1
    /\ round' = [round EXCEPT ![t] = begun + 1]
    /\ box' = [box EXCEPT ![t] = <<>>]
    /\ told' = [told EXCEPT ![t] = Told("nothing")]
    /\ UNCHANGED <<retired, envVars, roleVars, linkVars>>

\* _take_turn: a bulk transfer has the wire; sleep until it gives it back.
TakeTurn(t) ==
    /\ pc[t] = "idle" /\ begun < MaxRequests
    /\ bulkOwner # NoThread
    /\ pc' = [pc EXCEPT ![t] = "turn"]
    /\ UNCHANGED <<then, begun, round, sid, box, told, mapVars, sendVars, envVars,
                   roleVars, linkVars>>

\* The session is over, or no id is left: the request fails where it stands.
StartRefused(t) ==
    /\ pc[t] = "idle" /\ begun < MaxRequests /\ bulkOwner = NoThread
    /\ mstate = "CLOSED" \/ FreeSids = {}
    /\ begun' = begun + 1
    /\ round' = [round EXCEPT ![t] = begun + 1]
    /\ told' = [told EXCEPT ![t] = Told("failed")]
    /\ UNCHANGED <<pc, then, sid, box, mapVars, sendVars, envVars, roleVars,
                   linkVars>>

-----------------------------------------------------------------------------
(* Sending.                                                                *)

\* _transmit: wait for the send lock.
TakeSendLock(t) ==
    /\ pc[t] = "queue" /\ sendLock = NoThread
    /\ sendLock' = t
    /\ pc' = [pc EXCEPT ![t] = "drain"]
    /\ UNCHANGED <<then, begun, round, sid, box, told, mapVars, outq, batch, framed,
                   envVars, roleVars, linkVars>>

\* _drain_outq, one turn: everything queued is taken, in order.
TakeOutq(t) ==
    /\ pc[t] = "drain" /\ batch[t] = <<>> /\ outq # <<>>
    /\ batch' = [batch EXCEPT ![t] = outq]
    /\ outq' = <<>>
    /\ UNCHANGED <<reqVars, mapVars, sendLock, framed, envVars, roleVars, linkVars>>

\* _send_on: the next piece of the batch, when the socket has room.  After
\* half a frame it is taken for that one's rest.
SendPiece(t) ==
    /\ pc[t] = "drain" /\ batch[t] # <<>>
    /\ link = "up" /\ Len(up) < UpCap
    /\ LET f == Head(batch[t]) IN
       IF f.size = 1
       THEN /\ up' = Append(up, [frame |-> f, last |-> ~torn])
            /\ batch' = [batch EXCEPT ![t] = Tail(@)]
       ELSE /\ up' = Append(up, [frame |-> f, last |-> FALSE])
            /\ batch' = [batch EXCEPT ![t][1].size = @ - 1]
    /\ UNCHANGED <<reqVars, mapVars, outq, sendLock, framed, down, server, waits,
                   arrived, torn, roleVars, linkVars>>

\* Some of the frame being sent has gone out: it is the last one on the wire.
HalfSent(f) == up # <<>> /\ ~up[Len(up)].last /\ up[Len(up)].frame.num = f.num

\* _send_failed: the control link is gone, or had no room for as long as a
\* send may take; the failure is filed with everyone and the rest of the
\* batch is not sent, whatever of its first frame has gone out already.
SendFails(t) ==
    /\ pc[t] = "drain" /\ batch[t] # <<>>
    /\ link # "up" \/ ("timeout" \in Failures /\ Len(up) = UpCap)
    /\ torn' = (torn \/ HalfSent(Head(batch[t])))
    /\ broken' = TRUE
    /\ outq' = <<>> /\ batch' = [batch EXCEPT ![t] = <<>>]
    /\ box' = Failing(NoThread)
    /\ pc' = Woken(pc)
    /\ then' = [then EXCEPT ![t] = IF @ = "reading" THEN "senderr" ELSE @]
    /\ UNCHANGED <<begun, round, sid, told, mapVars, sendLock, framed, up, down, server,
                   waits, arrived, roleVars, link, fd, mstate>>

\* Nothing left to send: the lock is given up.  _send_owned looks at _outq
\* without the session lock; a frame queued after that look finds the send
\* lock taken and waits for it.  A bulk transfer keeps the lock.
SendDone(t) ==
    /\ pc[t] = "drain" /\ batch[t] = <<>> /\ outq = <<>>
    /\ pc' = [pc EXCEPT ![t] = IF then[t] = "bulk" THEN "bulk" ELSE "unlock"]
    /\ UNCHANGED <<then, begun, round, sid, box, told, mapVars, sendVars, envVars,
                   roleVars, linkVars>>

Unlock(t) ==
    /\ pc[t] = "unlock"
    /\ sendLock' = NoThread
    /\ pc' = [pc EXCEPT ![t] = then[t]]
    /\ UNCHANGED <<then, begun, round, sid, box, told, mapVars, outq, batch, framed,
                   envVars, roleVars, linkVars>>

-----------------------------------------------------------------------------
(* Waiting for the answer (_events_for, _await).                           *)

\* Mutation: the mailbox is taken down whoever has the id by now.
ForgetUnchecked(t) ==
    /\ inbox' = [inbox EXCEPT ![sid[t]] = NoThread]
    /\ pending' = [pending EXCEPT ![sid[t]] = NoThread]
    /\ retired' = IF pending[sid[t]] # NoThread THEN retired \cup {sid[t]} ELSE retired

\* _forget with abandon: the mailbox goes, and the stream if it is still owed
\* an answer - but only while the id is still this request's.
Forget(t) ==
    IF inbox[sid[t]] = t
    THEN /\ inbox' = [inbox EXCEPT ![sid[t]] = NoThread]
         /\ pending' = [pending EXCEPT ![sid[t]] = NoThread]
         /\ retired' = IF pending[sid[t]] # NoThread THEN retired \cup {sid[t]}
                       ELSE retired
    ELSE UNCHANGED mapVars

\* _answer: the oldest event in the mailbox.  A completion or a failure ends
\* the request; a kXR_wait is sat out.
Consume(t) ==
    /\ pc[t] = "await" /\ box[t] # <<>>
    /\ LET e == Head(box[t]) IN
       IF e.kind = "wait"
       THEN /\ pc' = [pc EXCEPT ![t] = "sitout"]
            /\ box' = [box EXCEPT ![t] = Tail(@)]
            /\ UNCHANGED <<told, mapVars>>
       ELSE /\ pc' = [pc EXCEPT ![t] = "idle"]
            /\ box' = [box EXCEPT ![t] = <<>>]
            /\ told' = [told EXCEPT ![t] = e]
            /\ Forget(t)
    /\ UNCHANGED <<then, begun, round, sid, sendVars, envVars, roleVars, linkVars>>

\* _resend_after: the wait is over.  Something filed meanwhile comes first; a
\* closed session fails the request; otherwise it is sent again.
Resend(t) ==
    /\ pc[t] = "sitout"
    /\ CASE box[t] # <<>> ->
              /\ pc' = [pc EXCEPT ![t] = "await"]
              /\ UNCHANGED <<then, told, mapVars, outq, framed>>
         [] box[t] = <<>> /\ mstate = "CLOSED" ->
              /\ pc' = [pc EXCEPT ![t] = "idle"]
              /\ told' = [told EXCEPT ![t] = Told("failed")]
              /\ Forget(t)
              /\ UNCHANGED <<then, outq, framed>>
         [] OTHER ->
              /\ outq' = Append(outq, [who |-> t, round |-> round[t], sid |-> sid[t],
                                       num |-> framed + 1, size |-> 1, reply |-> 1])
              /\ framed' = framed + 1
              /\ pc' = [pc EXCEPT ![t] = "queue"]
              /\ then' = [then EXCEPT ![t] = "await"]
              /\ UNCHANGED <<told, mapVars>>
    /\ UNCHANGED <<begun, round, sid, box, sendLock, batch, envVars, roleVars, linkVars>>

\* _check_link: a closed session ends the wait.
AwaitClosed(t) ==
    /\ pc[t] = "await" /\ box[t] = <<>> /\ mstate = "CLOSED"
    /\ pc' = [pc EXCEPT ![t] = "idle"]
    /\ told' = [told EXCEPT ![t] = Told("failed")]
    /\ Forget(t)
    /\ UNCHANGED <<then, begun, round, sid, box, sendVars, envVars, roleVars, linkVars>>

\* _follow: another thread reads.
Follow(t) ==
    /\ pc[t] = "await" /\ box[t] = <<>> /\ mstate = "READY" /\ reading
    /\ pc' = [pc EXCEPT ![t] = "parked"]
    /\ UNCHANGED <<then, begun, round, sid, box, told, mapVars, sendVars, envVars,
                   roleVars, linkVars>>

\* Where a reader goes: _read_unlocked sends what is queued before it reads.
ReaderAt(q) == IF q # <<>> THEN "queue" ELSE "reading"

\* Mutation: the role is taken although another thread has it.
LeadAnyway(t) ==
    /\ pc[t] = "await" /\ box[t] = <<>> /\ mstate = "READY"
    /\ reading' = TRUE
    /\ pc' = [pc EXCEPT ![t] = ReaderAt(outq)]
    /\ then' = [then EXCEPT ![t] = "reading"]
    /\ UNCHANGED <<begun, round, sid, box, told, mapVars, sendVars, envVars, bulkOwner,
                   linkVars>>

\* _lead: nobody reads, so this thread does.
Lead(t) ==
    /\ pc[t] = "await" /\ box[t] = <<>> /\ mstate = "READY" /\ ~reading
    /\ reading' = TRUE
    /\ pc' = [pc EXCEPT ![t] = ReaderAt(outq)]
    /\ then' = [then EXCEPT ![t] = "reading"]
    /\ UNCHANGED <<begun, round, sid, box, told, mapVars, sendVars, envVars, bulkOwner,
                   linkVars>>

\* _route_event and _wake: an event for another thread wakes the sleepers.
Route(places) == Woken(places)

\* _pump: one read.  The piece that ends a reply makes an event for the stream
\* it names: filed in the mailbox under that id, or, on a retired id, dropped.
\* The reader keeps the role while its own mailbox is empty, and gives it up
\* and wakes everyone once it is not.
Receive(t) ==
    /\ pc[t] = "reading" /\ mstate = "READY" /\ down # <<>>
    /\ down' = Tail(down)
    /\ LET p == Head(down)
           to == IF p.last THEN pending[p.sid] ELSE NoThread
           got == IF to = NoThread THEN box
                  ELSE [box EXCEPT ![inbox[p.sid]] = Append(@, p.event)]
       IN /\ box' = got
          /\ pending' = IF to # NoThread /\ p.event.kind # "wait"
                        THEN [pending EXCEPT ![p.sid] = NoThread] ELSE pending
          /\ retired' = IF p.last THEN retired \ {p.sid} ELSE retired
          /\ IF got[t] # <<>>
             THEN /\ LetGo
                  /\ pc' = Woken([pc EXCEPT ![t] = "await"])
             ELSE /\ pc' = LET next == [pc EXCEPT ![t] = ReaderAt(outq)]
                           IN IF to = NoThread THEN next ELSE Route(next)
                  /\ UNCHANGED <<reading, fd>>
    /\ UNCHANGED <<then, begun, round, sid, told, inbox, sendVars, up, server, waits,
                   arrived, torn, bulkOwner, link, mstate, broken>>

-----------------------------------------------------------------------------
(* Clocks, and a link that fails.                                          *)

\* Out of time: the caller's own deadline, or the stall deadline, which marks
\* the session broken and leaves the others waiting (_stalled_out, _follow).
OutOfTime == broken' \in {broken, TRUE}

\* Mutation: a reader whose time runs out leaves the role to nobody.
LeaderExpiresQuietly(t) ==
    /\ Expiries /\ pc[t] = "reading" /\ link = "up"
    /\ LetGo /\ OutOfTime
    /\ pc' = [pc EXCEPT ![t] = "idle"]
    /\ told' = [told EXCEPT ![t] = Told("expired")]
    /\ Forget(t)
    /\ UNCHANGED <<then, begun, round, sid, box, sendVars, envVars, bulkOwner, link,
                   mstate>>

\* Time runs out while it reads (_receive raises having taken nothing off the
\* wire): the role is handed on and the stream abandoned.
LeaderExpires(t) ==
    /\ Expiries /\ pc[t] = "reading" /\ link = "up"
    /\ LetGo /\ OutOfTime
    /\ pc' = Woken([pc EXCEPT ![t] = "idle"])
    /\ told' = [told EXCEPT ![t] = Told("expired")]
    /\ Forget(t)
    /\ UNCHANGED <<then, begun, round, sid, box, sendVars, envVars, bulkOwner, link,
                   mstate>>

\* _follow: the same for a sleeper.
FollowerExpires(t) ==
    /\ Expiries /\ pc[t] = "parked"
    /\ OutOfTime
    /\ pc' = [pc EXCEPT ![t] = "idle"]
    /\ told' = [told EXCEPT ![t] = Told("expired")]
    /\ Forget(t)
    /\ UNCHANGED <<then, begun, round, sid, box, sendVars, envVars, roleVars, link, fd,
                   mstate>>

\* A kXR_wait that outlasts the deadline or the budget, or is cancelled: the id
\* is free, for the wait was the server's last word on it (_resend_after,
\* _give_up).  A kXR_waitresp leaves the request waiting for its answer, as the
\* server may keep it; given up on, its id is abandoned like any other.
SitoutExpires(t) ==
    /\ Expiries /\ pc[t] = "sitout" /\ box[t] = <<>> /\ mstate = "READY"
    /\ pc' = [pc EXCEPT ![t] = "idle"]
    /\ told' = [told EXCEPT ![t] = Told("expired")]
    /\ inbox' = [inbox EXCEPT ![sid[t]] = NoThread]
    /\ pending' = [pending EXCEPT ![sid[t]] = NoThread]
    /\ UNCHANGED <<then, begun, round, sid, box, retired, sendVars, envVars, roleVars,
                   linkVars>>

\* _take_turn, out of time.
TurnExpires(t) ==
    /\ Expiries /\ pc[t] = "turn"
    /\ pc' = [pc EXCEPT ![t] = "idle"]
    /\ begun' = begun + 1
    /\ round' = [round EXCEPT ![t] = begun + 1]
    /\ told' = [told EXCEPT ![t] = Told("expired")]
    /\ UNCHANGED <<then, sid, box, mapVars, sendVars, envVars, roleVars, linkVars>>

\* _link_failed: a read that fails or times out costs the session.
LinkTimesOut(t) ==
    /\ "timeout" \in Failures /\ pc[t] = "reading" /\ link = "up"
    /\ LetGo
    /\ broken' = TRUE
    /\ box' = [Failing(t) EXCEPT ![t] = <<>>]
    /\ pc' = Woken([pc EXCEPT ![t] = "idle"])
    /\ told' = [told EXCEPT ![t] = Told("failed")]
    /\ Forget(t)
    /\ UNCHANGED <<then, begun, round, sid, sendVars, envVars, bulkOwner, link, mstate>>

\* _read_unlocked raises the send's failure to the reader, who treats it as
\* its link's - unless the session was closed meanwhile.
ReaderSendFailed(t) ==
    /\ pc[t] = "senderr"
    /\ LetGo
    /\ IF mstate = "CLOSED"
       THEN /\ pc' = Woken([pc EXCEPT ![t] = "await"])
            /\ UNCHANGED <<box, told, mapVars, broken>>
       ELSE /\ broken' = TRUE
            /\ box' = [Failing(t) EXCEPT ![t] = <<>>]
            /\ pc' = Woken([pc EXCEPT ![t] = "idle"])
            /\ told' = [told EXCEPT ![t] = Told("failed")]
            /\ Forget(t)
    /\ UNCHANGED <<then, begun, round, sid, sendVars, envVars, bulkOwner, link, mstate>>

\* The end of the stream: _on_eof fails every stream, _session_lost everyone.
ReadEof(t) ==
    /\ pc[t] = "reading" /\ mstate = "READY" /\ link = "eof" /\ down = <<>>
    /\ mstate' = "CLOSED"
    /\ pending' = [s \in Sids |-> NoThread]
    /\ box' = [Failing(t) EXCEPT ![t] = Append(@, Told("failed"))]
    /\ LetGo
    /\ pc' = Woken([pc EXCEPT ![t] = "await"])
    /\ UNCHANGED <<then, begun, round, sid, told, inbox, retired, sendVars, envVars,
                   bulkOwner, link, broken>>

\* A reader that finds the session closed under it (_current is false),
\* woken by the shutdown or by data: it feeds the machine nothing and goes
\* round again.
ReadClosed(t) ==
    /\ pc[t] = "reading" /\ mstate = "CLOSED"
    /\ link # "up" \/ down # <<>>
    /\ LetGo
    /\ pc' = Woken([pc EXCEPT ![t] = "await"])
    /\ UNCHANGED <<then, begun, round, sid, box, told, mapVars, sendVars, envVars,
                   bulkOwner, link, mstate, broken>>

\* _discard: with a reader on it the link is shut down, and closed by the
\* reader as it lets go.
Discard == IF reading THEN "doomed" ELSE "closed"

\* close, by any thread at any time: the machine is closed in one hold of the
\* lock; the kXR_endsess goes out if the send lock is free.
Close ==
    /\ "close" \in Failures /\ mstate = "READY"
    /\ mstate' = "CLOSED"
    /\ UNCHANGED <<reqVars, mapVars, sendVars, envVars, roleVars, link, fd, broken>>

\* The second hold: the link is shut down and everyone woken.
CloseLink ==
    /\ {"close", "bulk"} \cap Failures # {} /\ mstate = "CLOSED" /\ link # "shut"
    /\ link' = "shut"
    /\ fd' = Discard
    /\ outq' = <<>>
    /\ pc' = Woken(pc)
    /\ UNCHANGED <<then, begun, round, sid, box, told, mapVars, sendLock, batch, framed,
                   envVars, roleVars, mstate, broken>>

-----------------------------------------------------------------------------
(* Lending the wire to a bulk transfer (bulk).                             *)

\* Mutation: requests given up on, and so still owed an answer, are not
\* looked at.
BulkBeginUnchecked(t) ==
    /\ "bulk" \in Failures
    /\ pc[t] = "idle" /\ begun < MaxRequests
    /\ bulkOwner = NoThread /\ mstate = "READY" /\ ~reading
    /\ \A s \in Sids : pending[s] = NoThread
    /\ bulkOwner' = t /\ reading' = TRUE
    /\ pc' = [pc EXCEPT ![t] = "queue"]
    /\ then' = [then EXCEPT ![t] = "bulk"]
    /\ begun' = begun + 1
    /\ round' = [round EXCEPT ![t] = begun + 1]
    /\ told' = [told EXCEPT ![t] = Told("nothing")]
    /\ UNCHANGED <<sid, box, mapVars, sendVars, envVars, linkVars>>

\* The machine is idle and nobody reads: the transfer takes the reader role,
\* and then the send lock.
BulkBegin(t) ==
    /\ "bulk" \in Failures
    /\ pc[t] = "idle" /\ begun < MaxRequests
    /\ bulkOwner = NoThread /\ mstate = "READY" /\ ~reading
    /\ retired = {} /\ \A s \in Sids : pending[s] = NoThread
    /\ bulkOwner' = t /\ reading' = TRUE
    /\ pc' = [pc EXCEPT ![t] = "queue"]
    /\ then' = [then EXCEPT ![t] = "bulk"]
    /\ begun' = begun + 1
    /\ round' = [round EXCEPT ![t] = begun + 1]
    /\ told' = [told EXCEPT ![t] = Told("nothing")]
    /\ UNCHANGED <<sid, box, mapVars, sendVars, envVars, linkVars>>

\* The transfer is over: it left the wire in step, it failed and the session
\* is broken, or it was cancelled part-way through a frame and the session is
\* closed as well.
BulkEnd(t) ==
    /\ pc[t] = "bulk" /\ sendLock = t
    /\ \E fate \in {"settled", "failed", "cut"} :
          /\ broken' = (broken \/ fate # "settled")
          /\ mstate' = IF fate = "cut" THEN "CLOSED" ELSE mstate
    /\ sendLock' = NoThread /\ bulkOwner' = NoThread
    /\ LetGo
    /\ pc' = Woken([pc EXCEPT ![t] = "idle"])
    /\ UNCHANGED <<then, begun, round, sid, box, told, mapVars, outq, batch, framed,
                   envVars, link>>

-----------------------------------------------------------------------------
(* The socket and the server.                                              *)

\* The server reads a piece, once it has written its last reply.
ServerReads ==
    /\ link = "up" /\ up # <<>> /\ server.left = 0
    /\ LET p == Head(up) IN
       IF p.last
       THEN /\ server' = [frame |-> p.frame, left |-> p.frame.reply]
            /\ arrived' = p.frame.num
       ELSE UNCHANGED <<server, arrived>>
    /\ up' = Tail(up)
    /\ UNCHANGED <<reqVars, mapVars, sendVars, down, waits, torn, roleVars, linkVars>>

\* It writes a piece of its reply when the socket has room: the answer, or a
\* kXR_wait.
ServerWrites ==
    /\ link = "up" /\ server.left > 0 /\ Len(down) < DownCap
    /\ LET f == server.frame
           last == server.left = 1
       IN \E kind \in {"ok", "wait"} :
          /\ kind = "wait" => waits < MaxWaits /\ last /\ f.reply = 1
          /\ down' = Append(down, [sid |-> f.sid, last |-> last,
                       event |-> [kind |-> kind, who |-> f.who, round |-> f.round]])
          /\ waits' = IF kind = "wait" THEN waits + 1 ELSE waits
          /\ server' = IF last THEN Nobody ELSE [server EXCEPT !.left = @ - 1]
    /\ UNCHANGED <<reqVars, mapVars, sendVars, up, arrived, torn, roleVars, linkVars>>

\* The peer closes the connection.
PeerCloses ==
    /\ "eof" \in Failures /\ link = "up"
    /\ link' = "eof"
    /\ UNCHANGED <<reqVars, mapVars, sendVars, envVars, roleVars, fd, mstate, broken>>

-----------------------------------------------------------------------------
\* What a thread does of its own accord once it has begun.
Step(t) ==
    \/ TakeSendLock(t) \/ TakeOutq(t) \/ SendPiece(t) \/ SendFails(t)
    \/ SendDone(t) \/ Unlock(t)
    \/ Consume(t) \/ Resend(t) \/ AwaitClosed(t) \/ Follow(t) \/ Lead(t)
    \/ Receive(t) \/ ReadEof(t) \/ ReadClosed(t) \/ ReaderSendFailed(t)
    \/ BulkEnd(t)

\* What its caller or its clocks may make of it.
Choice(t) ==
    \/ Start(t) \/ TakeTurn(t) \/ StartRefused(t) \/ BulkBegin(t)
    \/ LeaderExpires(t) \/ FollowerExpires(t) \/ SitoutExpires(t)
    \/ TurnExpires(t) \/ LinkTimesOut(t)

Next ==
    \/ \E t \in Threads : Step(t) \/ Choice(t)
    \/ ServerReads \/ ServerWrites \/ PeerCloses
    \/ Close \/ CloseLink

\* A thread that can move does, and so does the server; a close, once begun,
\* is finished; and a read of a server that is out of step, and says nothing
\* more, times out.  Starting, expiring and failing are not forced otherwise.
Fairness ==
    /\ \A t \in Threads : WF_vars(Step(t)) /\ WF_vars(torn /\ LinkTimesOut(t))
    /\ WF_vars(ServerReads) /\ WF_vars(ServerWrites) /\ WF_vars(CloseLink)

Spec == Init /\ [][Next]_vars /\ Fairness

-----------------------------------------------------------------------------
(* Properties.                                                             *)

Places == {"idle", "turn", "queue", "drain", "unlock", "senderr", "await",
           "parked", "reading", "sitout", "bulk"}

\* Types; and only the holder of the send lock has frames in hand.
TypeOK ==
    /\ pc \in [Threads -> Places]
    /\ then \in [Threads -> {"await", "reading", "bulk", "senderr"}]
    /\ inbox \in [Sids -> Threads \cup {NoThread}]
    /\ pending \in [Sids -> Threads \cup {NoThread}]
    /\ retired \subseteq Sids
    /\ sendLock \in Threads \cup {NoThread}
    /\ \A t \in Threads : batch[t] # <<>> => sendLock = t
    /\ Len(up) <= UpCap /\ Len(down) <= DownCap

\* A thread that has the reader role: blocked in a read, sending first what
\* was queued, or lent the wire.
Readers ==
    {t \in Threads : \/ pc[t] \in {"reading", "senderr", "bulk"}
                     \/ pc[t] \in {"queue", "drain", "unlock"} /\ then[t] # "await"}

\* One thread at a time reads the link, and _reading says whether one does: two
\* would split a reply between them.
OneReader == Cardinality(Readers) <= 1 /\ (reading <=> Readers # {})

\* Nobody sleeps through its turn: while a thread follows, another holds the
\* reader role or is awake and about to take it; and a thread waiting out a
\* bulk transfer waits for one that is running.
NoLostWakeup ==
    /\ (\E t \in Threads : pc[t] = "parked")
          => reading \/ \E u \in Threads : pc[u] = "await"
    /\ (\E t \in Threads : pc[t] = "turn") => bulkOwner # NoThread

\* A request still waiting has its stream in the machine and its mailbox on
\* file, whatever became of earlier requests on the same id.
NoneForgotten ==
    mstate = "READY" =>
       \A t \in Threads :
          pc[t] \in {"parked", "reading", "sitout"} /\ box[t] = <<>>
             => inbox[sid[t]] = t /\ pending[sid[t]] = t

\* A request is told the answer to that very request.
RightMail ==
    \A t \in Threads : told[t].kind = "ok"
       => told[t].who = t /\ told[t].round = round[t]

\* Frames reach the server in the order they were framed, which the signature
\* sequence numbers of kXR_sigver depend on.
InOrder == [][arrived' >= arrived]_vars

\* The wire is the bulk transfer's alone: nobody else sends, reads or has an
\* answer to come while one runs.
BulkAlone ==
    \A t \in Threads : pc[t] = "bulk" /\ mstate = "READY"
       => /\ sendLock = t /\ outq = <<>> /\ down = <<>> /\ server.left = 0
          /\ \A s \in Sids : pending[s] = NoThread

\* The descriptor is never closed under a thread that reads it, and is closed
\* once nobody does.
ClosedUnread ==
    /\ fd = "closed" => ~\E t \in Threads : pc[t] = "reading"
    /\ fd = "doomed" => reading

\* Every request ends, however it ends.
EveryRequestEnds == \A t \in Threads : pc[t] # "idle" ~> pc[t] = "idle"

\* A sender waiting for room is never what keeps the link from being read:
\* with both directions full and the server waiting for its replies to be
\* taken, whoever has the reader role reads (_send_on: "A plain socket is
\* written while its reader reads").
ReadWhileWritten ==
    \A t \in Threads :
       /\ pc[t] = "drain" /\ batch[t] # <<>> /\ link = "up"
       /\ Len(up) = UpCap /\ Len(down) = DownCap /\ server.left > 0
       => ~reading \/ \E u \in Threads : pc[u] = "reading"

\* The reader's role is one thread's, passed on whenever it is put down, and
\* the descriptor outlives whoever reads it (_lead, _let_go, _discard).
ReaderSafe == TypeOK /\ OneReader /\ NoLostWakeup /\ ClosedUnread

\* Whatever ids were given up and taken again meanwhile, a request that waits
\* is on file and is told its own answer (_forget, _route_event).
MailSafe == NoneForgotten /\ RightMail
=============================================================================
