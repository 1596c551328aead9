--------------------------- MODULE SessionMachine ---------------------------
(***************************************************************************)
(* The sans-io SessionMachine of src/src/xrdclient/proto/machine.py once   *)
(* the connection is READY: stream multiplexing over a control link (0)    *)
(* and bound data paths, partial, deferred and paged replies, redirects,   *)
(* waits, abandoned streams, lost paths and the end of the connection.     *)
(* Bring-up is the module Bringup; ids lent to the bulk reader are in      *)
(* StreamIds.                                                              *)
(*                                                                         *)
(* A request is a tag.  The driver and the server are the environment:     *)
(* the driver submits, resumes, releases, abandons and drops paths when    *)
(* session/sync.py may; the server answers each request it has read with   *)
(* the statuses of Statuses, in pieces.  A body is the sequence of pieces  *)
(* <<tag, n>> it was put together from, so that a property can tell whose  *)
(* answer a request was given.                                             *)
(***************************************************************************)
EXTENDS Integers, Sequences, FiniteSets, Functions

CONSTANTS
    FirstSid, MaxSid,   \* the stream-id range, as in StreamIds
    Paths,              \* ids of the data paths bound when the run starts
    Shapes,             \* the requests the driver makes: [path, arrive, paged, cap]
    MaxReq,             \* bound: requests in one behaviour
    MaxPieces,          \* bound: pieces of one body
    Statuses,           \* what the server may answer with
    ByArrival,          \* the server answers on the link a request came in on
    GoneReply,          \* a reply for a lost path: "dropped" or "control"
    MidWait,            \* the server may send kXR_wait after part of a body
    MaxWaits,           \* bound: kXR_wait and kXR_waitresp for one request
    Strays              \* the server may send frames nobody asked for

Links == {0} \cup Paths
Tags  == 1 .. MaxReq
Sids  == FirstSid .. MaxSid

ASSUME MachineAssumption ==
    /\ FirstSid \in Nat /\ MaxSid \in Nat /\ FirstSid <= MaxSid
    /\ Paths \subseteq Nat \ {0}
    /\ Shapes \subseteq [path : Links, arrive : BOOLEAN, paged : BOOLEAN, cap : Nat]
    /\ MaxReq \in Nat /\ MaxPieces \in Nat \ {0} /\ MaxWaits \in Nat
    /\ {ByArrival, MidWait, Strays} \subseteq BOOLEAN
    /\ GoneReply \in {"dropped", "control"}

VARIABLES
    mstate,     \* state: READY or CLOSED
    pending,    \* _pending: sid -> [tag, buffer, status]
    free, retired, nextSid,
    framer,     \* _framers: is a trailer owed on this link, and for which sid
    out,        \* _out and _out_path: frames queued per link
    bound,      \* the paths both ends hold open
    phase,      \* where each request is, as its driver knows it
    shape,      \* the request's shape
    body,       \* what its Completed event carried
    heard,      \* ghost: the requests whose replies were handed to this one
    srv,        \* the server: what it owes for each request it has read
    wire        \* frames and trailers on their way to the client, per link

idVars  == <<free, retired, nextSid>>
vars    == <<mstate, pending, idVars, framer, out, bound, phase, shape, body,
             heard, srv, wire>>

NoShape  == [path |-> 0, arrive |-> FALSE, paged |-> FALSE, cap |-> 0]
NoDebt   == [st |-> "idle", sid |-> 0, via |-> 0, n |-> 0, waits |-> 0]
InStep   == [need |-> FALSE, sid |-> 0]
NoStatus == "none"

Init ==
    /\ mstate = "READY"
    /\ pending = <<>>
    /\ free = <<>> /\ retired = {} /\ nextSid = FirstSid
    /\ framer = [l \in Links |-> InStep]
    /\ out = [l \in Links |-> <<>>]
    /\ bound = Paths
    /\ phase = [t \in Tags |-> "new"]
    /\ shape = [t \in Tags |-> NoShape]
    /\ body = [t \in Tags |-> <<>>]
    /\ heard = [t \in Tags |-> {}]
    /\ srv = [t \in Tags |-> NoDebt]
    /\ wire = [l \in Links |-> <<>>]

-----------------------------------------------------------------------------
(* What the server may still say.                                          *)

\* The link the answer to a request goes out on, given the link it came in on.
AnswerLink(t, via) ==
    IF via = 0 THEN shape[t].path ELSE IF ByArrival THEN via ELSE 0

\* The link the server writes to, or -1 when it drops the answer.
ReplyLink(t) ==
    LET l == IF srv[t].st = "deferred" THEN 0 ELSE AnswerLink(t, srv[t].via) IN
    CASE l \in bound \cup {0}     -> l
      [] GoneReply = "control"    -> 0
      [] OTHER                    -> -1

Owes(t) == srv[t].st # "idle" /\ ReplyLink(t) # -1

\* A queued frame the server will answer once it is sent.
Answerable(t, via) ==
    AnswerLink(t, via) \in bound \cup {0} \/ GoneReply = "control"

\* Ids on which something may still arrive.
OwedSids ==
    IF mstate # "READY" THEN {}
    ELSE {srv[t].sid : t \in {u \in Tags : Owes(u)}}
         \cup UNION {{m.sid : m \in {x \in Range(out[l]) : Answerable(x.tag, l)}}
                        : l \in Links}
         \cup UNION {{f.sid : f \in {x \in Range(wire[l]) : x.kind = "frame" /\ x.tag \in Tags}}
                        : l \in Links}

Ids == INSTANCE StreamIds WITH
          pending <- DOMAIN pending, leased <- {}, owed <- OwedSids

-----------------------------------------------------------------------------
(* Outbound.                                                               *)

\* The link a request's frame is queued on.
OutLink(sh) == IF sh.arrive THEN sh.path ELSE 0

\* submit and _send: a fresh id, the pending record, the frame on its queue.
\* The driver names a path only while it is bound.
Submit(t, sh) ==
    /\ mstate = "READY"
    /\ phase[t] = "new" /\ \A u \in 1 .. t - 1 : phase[u] # "new"
    /\ sh.path \in bound \cup {0}
    /\ \E s \in Sids :
          /\ Ids!Acquire(s)
          /\ pending' = [u \in DOMAIN pending \cup {s} |->
                         IF u = s THEN [tag |-> t, buffer |-> <<>>, status |-> NoStatus]
                         ELSE pending[u]]
          /\ out' = [out EXCEPT ![OutLink(sh)] = Append(@, [tag |-> t, sid |-> s])]
    /\ phase' = [phase EXCEPT ![t] = "waiting"]
    /\ shape' = [shape EXCEPT ![t] = sh]
    /\ UNCHANGED <<mstate, retired, framer, bound, body, heard, srv, wire>>

\* submit when _acquire_sid finds the counter's id in use: it raises, and the
\* request is over before it began.
SubmitExhausted(t) ==
    /\ mstate = "READY"
    /\ phase[t] = "new" /\ \A u \in 1 .. t - 1 : phase[u] # "new"
    /\ free = <<>> /\ nextSid \in Ids!InUse
    /\ nextSid' = Ids!Advanced
    /\ phase' = [phase EXCEPT ![t] = "failed"]
    /\ UNCHANGED <<mstate, pending, free, retired, framer, out, bound, shape,
                   body, heard, srv, wire>>

\* buffers_to_send, path_buffers_to_send: the driver drains a queue and the
\* server reads it, one frame at a time.
Send(l) ==
    /\ mstate = "READY" /\ out[l] # <<>>
    /\ LET m == Head(out[l]) IN
       srv' = [srv EXCEPT ![m.tag] =
                 [st |-> "owes", sid |-> m.sid, via |-> l, n |-> 0, waits |-> @.waits]]
    /\ out' = [out EXCEPT ![l] = Tail(@)]
    /\ UNCHANGED <<mstate, pending, idVars, framer, bound, phase, shape, body,
                   heard, wire>>

\* resume: what was framed goes out again, on the control link whichever link
\* it first went down, and behind whatever the stream has buffered already.
Resume(s) ==
    /\ mstate = "READY" /\ phase[pending[s].tag] = "parked"
    /\ out' = [out EXCEPT ![0] = Append(@, [tag |-> pending[s].tag, sid |-> s])]
    /\ phase' = [phase EXCEPT ![pending[s].tag] = "waiting"]
    /\ UNCHANGED <<mstate, pending, idVars, framer, bound, shape, body, heard,
                   srv, wire>>

-----------------------------------------------------------------------------
(* Streams given up by the driver.                                         *)

Without(S) == Restrict(pending, DOMAIN pending \ S)

\* release: after a redirect, or a kXR_wait the driver will not sit out.
Release(s) ==
    /\ mstate = "READY" /\ phase[pending[s].tag] \in {"parked", "redirected"}
    /\ pending' = Without({s})
    /\ free' = Append(free, s)
    /\ phase' = [phase EXCEPT ![pending[s].tag] = "gaveup"]
    /\ UNCHANGED <<mstate, retired, nextSid, framer, out, bound, shape, body,
                   heard, srv, wire>>

\* Mutation: giving up frees the id although the answer may still come.
AbandonAsRelease(s) ==
    /\ mstate = "READY" /\ phase[pending[s].tag] = "waiting"
    /\ pending' = Without({s})
    /\ free' = Append(free, s)
    /\ phase' = [phase EXCEPT ![pending[s].tag] = "gaveup"]
    /\ UNCHANGED <<mstate, retired, nextSid, framer, out, bound, shape, body,
                   heard, srv, wire>>

\* abandon: a deadline, a cancellation or a raising consumer while the answer
\* may still come.
Abandon(s) ==
    /\ mstate = "READY" /\ phase[pending[s].tag] = "waiting"
    /\ pending' = Without({s})
    /\ retired' = retired \cup {s}
    /\ phase' = [phase EXCEPT ![pending[s].tag] = "gaveup"]
    /\ UNCHANGED <<mstate, free, nextSid, framer, out, bound, shape, body,
                   heard, srv, wire>>

-----------------------------------------------------------------------------
(* Inbound: one frame or trailer at a time (_parse).                       *)

\* The head of link l, when the framer is at a header (a frame) or owes a
\* trailer.
Arrived(l, kind) ==
    /\ mstate = "READY"
    /\ wire[l] # <<>>
    /\ Head(wire[l]).kind = kind
    /\ framer[l].need <=> kind = "trailer"
    /\ wire' = [wire EXCEPT ![l] = Tail(@)]

\* A frame whose stream has a request pending, with a status of S.
ForPending(l, S) ==
    /\ Arrived(l, "frame")
    /\ Head(wire[l]).sid \in DOMAIN pending
    /\ Head(wire[l]).status \in S

Hear(f) == heard' = [heard EXCEPT ![pending[f.sid].tag] = @ \cup {f.tag}]

\* release(sid) and the event that ends the request.
Finish(s, how, data) ==
    /\ pending' = Without({s})
    /\ free' = Append(free, s)
    /\ phase' = [phase EXCEPT ![pending[s].tag] = how]
    /\ body' = [body EXCEPT ![pending[s].tag] = data]
    /\ UNCHANGED <<retired, nextSid>>

\* A piece of the body that is not the last: buffered, and a Chunk event.
Buffered(s, f) ==
    /\ pending' = [pending EXCEPT ![s].buffer = Append(@, <<f.tag, f.n>>)]
    /\ UNCHANGED <<idVars, phase, body>>

\* _within_cap, in pieces; a reply_cap of 0 is no cap.
WithinCap(s) ==
    LET cap == shape[pending[s].tag].cap
    IN cap = 0 \/ Len(pending[s].buffer) + 1 <= cap

\* A body piece for stream s: over the cap it fails the request, and the last
\* one completes it.
BodyPiece(s, f, last) ==
    CASE ~WithinCap(s) -> Finish(s, "failed", <<>>)
      [] last /\ WithinCap(s)
           -> Finish(s, "ok", Append(pending[s].buffer, <<f.tag, f.n>>))
      [] OTHER -> Buffered(s, f)

\* _response_ok and _response_chunk.
ReplyBody(l) ==
    /\ ForPending(l, {"ok", "oksofar"})
    /\ LET f == Head(wire[l]) IN
       BodyPiece(f.sid, f, f.status = "ok") /\ Hear(f)
    /\ UNCHANGED <<mstate, framer, out, bound, shape, srv>>

\* _response_error and _response_unexpected.
ReplyError(l) ==
    /\ ForPending(l, {"error", "unexpected"})
    /\ LET f == Head(wire[l]) IN
       Finish(f.sid, "failed", <<>>) /\ Hear(f)
    /\ UNCHANGED <<mstate, framer, out, bound, shape, srv>>

\* _response_redirect, _response_wait and _response_waitresp: an event for the
\* driver; the stream stays pending.
ReplyLater(l) ==
    /\ ForPending(l, {"redirect", "wait", "waitresp"})
    /\ LET f == Head(wire[l]) IN
       /\ phase' = [phase EXCEPT ![pending[f.sid].tag] =
                      CASE f.status = "redirect" -> "redirected"
                        [] f.status = "wait"     -> "parked"
                        [] OTHER                 -> "waiting"]
       /\ Hear(f)
    /\ UNCHANGED <<mstate, pending, idVars, framer, out, bound, shape, body, srv>>

\* _response_status: the header of a paged reply; with no data behind it, the
\* piece is empty and complete as it stands.
ReplyStatus(l) ==
    /\ ForPending(l, {"status"})
    /\ LET f == Head(wire[l]) IN
       /\ IF f.trailer
          THEN /\ pending' = [pending EXCEPT ![f.sid].status =
                                IF f.last THEN "final" ELSE "partial"]
               /\ framer' = [framer EXCEPT ![l] = [need |-> TRUE, sid |-> f.sid]]
               /\ UNCHANGED <<idVars, phase, body>>
          ELSE BodyPiece(f.sid, f, f.last) /\ UNCHANGED framer
       /\ Hear(f)
    /\ UNCHANGED <<mstate, out, bound, shape, srv>>

\* Mutation: the data behind a final status header is taken for a chunk.
TrailerNeverFinal(l) ==
    /\ Arrived(l, "trailer")
    /\ LET s == framer[l].sid
           f == Head(wire[l])
       IN IF s \in DOMAIN pending /\ pending[s].status # NoStatus
          THEN /\ BodyPiece(s, f, FALSE)
               /\ heard' = [heard EXCEPT ![pending[s].tag] = @ \cup {f.tag}]
          ELSE UNCHANGED <<pending, idVars, phase, body, heard>>
    /\ framer' = [framer EXCEPT ![l] = InStep]
    /\ UNCHANGED <<mstate, out, bound, shape, srv>>

\* _parse with a trailer owed, then _on_status_data: for the stream the framer
\* noted, whoever has it now, if a status header has been seen on it.
Trailer(l) ==
    /\ Arrived(l, "trailer")
    /\ LET s == framer[l].sid
           f == Head(wire[l])
       IN IF s \in DOMAIN pending /\ pending[s].status # NoStatus
          THEN /\ BodyPiece(s, f, pending[s].status = "final")
               /\ heard' = [heard EXCEPT ![pending[s].tag] = @ \cup {f.tag}]
          ELSE UNCHANGED <<pending, idVars, phase, body, heard>>
    /\ framer' = [framer EXCEPT ![l] = InStep]
    /\ UNCHANGED <<mstate, out, bound, shape, srv>>

\* Mutation: the raw data behind a late kXR_status is not skipped.
RetiredReplyNoSkip(l) ==
    /\ Arrived(l, "frame")
    /\ LET f == Head(wire[l]) IN
       /\ f.sid \in retired
       /\ IF f.last
          THEN retired' = retired \ {f.sid} /\ free' = Append(free, f.sid)
          ELSE UNCHANGED <<retired, free>>
    /\ UNCHANGED framer
    /\ UNCHANGED <<mstate, pending, nextSid, out, bound, phase, shape, body,
                   heard, srv>>

\* _retired_reply: dropped, trailer and all; the id goes back to the pool on a
\* final header, without waiting for the trailer behind it.
RetiredReply(l) ==
    /\ Arrived(l, "frame")
    /\ LET f == Head(wire[l]) IN
       /\ f.sid \in retired
       /\ IF f.last
          THEN retired' = retired \ {f.sid} /\ free' = Append(free, f.sid)
          ELSE UNCHANGED <<retired, free>>
       /\ framer' = IF f.trailer
                    THEN [framer EXCEPT ![l] = [need |-> TRUE, sid |-> f.sid]]
                    ELSE framer
    /\ UNCHANGED <<mstate, pending, nextSid, out, bound, phase, shape, body,
                   heard, srv>>

\* _dispatch on a stream nobody has: dropped.  The data behind a kXR_status
\* header is not skipped with it; FramingInStep says that never comes up.
ReplyUnknown(l) ==
    /\ Arrived(l, "frame")
    /\ Head(wire[l]).sid \notin DOMAIN pending \cup retired
    /\ UNCHANGED <<mstate, pending, idVars, framer, out, bound, phase, shape,
                   body, heard, srv>>

-----------------------------------------------------------------------------
(* Links that go away.                                                     *)

OnPath(p) == {s \in DOMAIN pending : shape[pending[s].tag].path = p}

\* The orders in which a set of ids can be put back.
Orders(S) == {q \in [1 .. Cardinality(S) -> S] : Range(q) = S}

\* forget_path, after the peer closed the path (_on_path_eof) or the driver
\* did (_close_path, on a stalled or failed path): every stream routed over
\* it fails and its id is free at once; what was queued for it is dropped.
LosePath(p) ==
    /\ mstate = "READY" /\ p \in bound
    /\ pending' = Without(OnPath(p))
    /\ \E q \in Orders(OnPath(p)) : free' = free \o q
    /\ phase' = [t \in Tags |-> IF \E s \in OnPath(p) : pending[s].tag = t
                                THEN "failed" ELSE phase[t]]
    /\ framer' = [framer EXCEPT ![p] = InStep]
    /\ out' = [out EXCEPT ![p] = <<>>]
    /\ bound' = bound \ {p}
    /\ wire' = [wire EXCEPT ![p] = <<>>]
    /\ UNCHANGED <<mstate, retired, nextSid, shape, body, heard, srv>>

\* _on_eof: the control link is gone; every pending request fails, and with
\* it the session.
Eof ==
    /\ mstate = "READY"
    /\ mstate' = "CLOSED"
    /\ phase' = [t \in Tags |-> IF \E s \in DOMAIN pending : pending[s].tag = t
                                THEN "failed" ELSE phase[t]]
    /\ pending' = <<>>
    /\ UNCHANGED <<idVars, framer, out, bound, shape, body, heard, srv, wire>>

\* close: an id for kXR_endsess, recorded nowhere, and the session is over.
Close ==
    /\ mstate = "READY"
    /\ mstate' = "CLOSED"
    /\ \E s \in Sids : Ids!Acquire(s)
    /\ UNCHANGED <<pending, retired, framer, out, bound, phase, shape, body,
                   heard, srv, wire>>

-----------------------------------------------------------------------------
(* The server.                                                             *)

Final == {"ok", "error", "unexpected", "redirect", "wait"}

\* What it may send next for request t: [status, last, trailer].
Replies(t) ==
    {r \in [status : Statuses, last : BOOLEAN, trailer : BOOLEAN] :
       /\ r.trailer => r.status = "status"
       /\ r.status # "status" => (r.last <=> r.status \in Final)
       /\ r.status \in {"ok", "oksofar"} => ~shape[t].paged
       /\ r.status = "status" => shape[t].paged
       /\ ~r.last => srv[t].n + 1 < MaxPieces
       /\ r.status = "redirect" => srv[t].n = 0
       /\ r.status = "wait" => srv[t].n = 0 \/ MidWait
       /\ r.status = "waitresp" => srv[t].n = 0 /\ srv[t].st = "owes"
       /\ r.status \in {"wait", "waitresp"} => srv[t].waits < MaxWaits}

\* The server answers: a frame, and behind a kXR_status header its data.  A
\* kXR_waitresp leaves the answer to a kXR_attn on the control link, which
\* _unwrap_attn turns back into the frame it carries.
Serve(t) ==
    /\ mstate = "READY" /\ Owes(t)
    /\ \E r \in Replies(t) :
       LET d == srv[t]
           more == r.status \in {"oksofar", "status", "ok"}
           f == [kind |-> "frame", sid |-> d.sid, status |-> r.status,
                 last |-> r.last, trailer |-> r.trailer, tag |-> t, n |-> d.n + 1]
       IN /\ wire' = [wire EXCEPT ![ReplyLink(t)] = @ \o
                        IF r.trailer THEN <<f, [f EXCEPT !.kind = "trailer"]>>
                        ELSE <<f>>]
          /\ srv' = [srv EXCEPT ![t] =
                       [@ EXCEPT !.st = IF r.last THEN "idle"
                                        ELSE IF r.status = "waitresp" THEN "deferred"
                                        ELSE @,
                                 !.n = IF more THEN @ + 1 ELSE @,
                                 !.waits = IF r.status \in {"wait", "waitresp"}
                                           THEN @ + 1 ELSE @]]
    /\ UNCHANGED <<mstate, pending, idVars, framer, out, bound, phase, shape,
                   body, heard>>

\* A frame on an id no request is given (those of the bring-up), which
\* _dispatch allows for; one at a time.
Unsolicited ==
    /\ mstate = "READY" /\ Strays /\ wire[0] = <<>>
    /\ wire' = [wire EXCEPT ![0] =
                  <<[kind |-> "frame", sid |-> FirstSid - 1, status |-> "ok",
                     last |-> TRUE, trailer |-> FALSE, tag |-> 0, n |-> 0]>>]
    /\ UNCHANGED <<mstate, pending, idVars, framer, out, bound, phase, shape,
                   body, heard, srv>>

-----------------------------------------------------------------------------
Receive(l) ==
    \/ ReplyBody(l) \/ ReplyError(l) \/ ReplyLater(l) \/ ReplyStatus(l)
    \/ Trailer(l) \/ RetiredReply(l) \/ ReplyUnknown(l)

Next ==
    \/ \E t \in Tags : \/ \E sh \in Shapes : Submit(t, sh)
                       \/ SubmitExhausted(t)
                       \/ Serve(t)
    \/ \E s \in DOMAIN pending : Resume(s) \/ Release(s) \/ Abandon(s)
    \/ \E l \in Links : Send(l) \/ Receive(l)
    \/ \E p \in Paths : LosePath(p)
    \/ Eof \/ Close \/ Unsolicited

Spec == Init /\ [][Next]_vars

-----------------------------------------------------------------------------
(* Properties.                                                             *)

Phases == {"new", "waiting", "parked", "redirected", "ok", "failed", "gaveup"}

\* Types; ids stay in their range, counter and pool included.
TypeOK ==
    /\ mstate \in {"READY", "CLOSED"}
    /\ DOMAIN pending \subseteq Sids
    /\ \A s \in DOMAIN pending : pending[s].tag \in Tags
    /\ retired \subseteq Sids /\ free \in Seq(Sids) /\ nextSid \in Sids
    /\ bound \subseteq Paths
    /\ phase \in [Tags -> Phases]

\* What a request is told comes from the server's answer to that request:
\* XRootD matches replies by stream id alone, so a reused id would silently
\* deliver another request's data.
AnswersMatch == \A t \in Tags : heard[t] \subseteq {t}

\* A completed request carries its whole body: every piece the server sent for
\* it, once each, in order, through kXR_oksofar chunks, paged replies, waits
\* and deferred answers.
WholeBody ==
    \A t \in Tags : phase[t] = "ok"
       => body[t] = [i \in 1 .. srv[t].n |-> <<t, i>>]

\* A request is told its own answer, all of it and nothing else, and its id
\* stays in the range and the pool it belongs to.
AnswersRight == TypeOK /\ AnswersMatch /\ WholeBody

\* Each link's framer is in step with the wire: it reads a trailer exactly
\* when a trailer is what comes next, late replies to abandoned streams
\* included.
FramingInStep ==
    mstate = "READY" =>
       \A l \in Links : wire[l] # <<>>
          => (framer[l].need <=> Head(wire[l]).kind = "trailer")

TrailerDue(s) == \E l \in Links : framer[l].need /\ framer[l].sid = s

\* A request that waits has something to wait for: a frame not yet sent, an
\* answer the server owes, a frame or a trailer on its way.
NoneStranded ==
    mstate = "READY" =>
       \A s \in DOMAIN pending : phase[pending[s].tag] = "waiting"
          => s \in OwedSids \/ TrailerDue(s)

\* An abandoned id is held only for an answer that will come: otherwise it
\* never returns to the pool, and idle() is false for good.
RetiredIsOwed ==
    mstate = "READY" => \A s \in retired : s \in OwedSids \/ TrailerDue(s)

\* The machine's bookkeeping implements the stream-id pool.
ImplementsIds == Ids!Spec
=============================================================================
