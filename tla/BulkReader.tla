----------------------------- MODULE BulkReader -----------------------------
(***************************************************************************)
(* The bulk data plane of session/bulk.py and its loan by Session.bulk.    *)
(*                                                                         *)
(* A BulkReader borrows the control link, leases stream ids and keeps one  *)
(* request in flight on each of them.  It frames and parses by itself, so  *)
(* it also answers for the state it leaves the wire in: settle() drains    *)
(* what is owed, leaves it to the machine, or marks the session broken.    *)
(*                                                                         *)
(* A frame comes off the wire in two steps, its header and its body, so    *)
(* that every clock can run out between the two.  Bytes are counted in     *)
(* units; Chunk of them go in one request.                                 *)
(***************************************************************************)
EXTENDS Integers, Sequences, FiniteSets, SequencesExt, FiniteSetsExt

CONSTANTS
    Ids,        \* the stream ids one call leases (depth of them)
    Chunk,      \* units one request asks for
    Want,       \* units a call reads or writes, from offset 0
    FileEnd,    \* where the file ends on the server
    Callbacks,  \* whether write_chunks is given a `waited` callback
    MaxOdd,     \* bound: notices, deferrals and unexpected frames
    NoFrame

ASSUME BulkAssumption ==
    /\ IsFiniteSet(Ids) /\ Ids # {} /\ 0 \notin Ids
    /\ Chunk \in Nat \ {0} /\ Want \in Nat /\ FileEnd \in Nat
    /\ Callbacks \in BOOLEAN /\ MaxOdd \in Nat

VARIABLES
    rd,     \* the BulkReader and the call in progress on it
    mach,   \* the machine's share: [leased, retired]
    sess,   \* the session and its caller: [broken, closed, cancelled, expired]
    link,   \* the wire: [asked, frames, half, eof, odd]
    log     \* history: [pieces, stored, waited, refused]

readerVars == <<rd, mach, sess, link, log>>

Kinds == {"stream", "into", "gather", "write"}
Data == {"ok", "oksofar"}

Idle == [pc |-> "idle", kind |-> "none", free |-> <<>>, owed |-> {}, torn |-> FALSE,
         frame |-> NoFrame, inflight |-> <<>>, issued |-> <<>>, done |-> {},
         offset |-> 0, end |-> 0, landed |-> 0, failure |-> "none", raised |-> "none"]

ReaderInit ==
    /\ rd = Idle
    /\ mach = [leased |-> {}, retired |-> {}]
    /\ sess = [broken |-> FALSE, closed |-> FALSE, cancelled |-> FALSE, expired |-> FALSE]
    /\ link = [asked |-> {}, frames |-> <<>>, half |-> FALSE, eof |-> FALSE, odd |-> 0]
    /\ log = [pieces |-> <<>>, stored |-> {}, waited |-> {}, refused |-> FALSE]

stopped == sess.cancelled \/ sess.expired

\* What is still being waited for, as each call counts it.
Outstanding == IF rd.kind = "stream" THEN rd.issued # <<>> ELSE DOMAIN rd.inflight # {}

\* Leaving the call's body: settle() runs next, with the error in flight.
Raise(r, err) == [r EXCEPT !.pc = "settle", !.raised = err]

Without(f, x) == [y \in DOMAIN f \ {x} |-> f[y]]
With(f, x, v) == [y \in DOMAIN f \cup {x} |-> IF y = x THEN v ELSE f[y]]

-----------------------------------------------------------------------------
(* The loan and the lease.                                                 *)

\* Session.bulk's entry: the wire is lent only while the machine is idle,
\* with no answer outstanding to anyone.
Lendable == rd.pc = "idle" /\ ~sess.broken /\ ~sess.closed /\ mach.retired = {}

\* _begin: every call starts its own clocks and leases its own ids.
Begin(kind) ==
    /\ Lendable
    /\ rd' = [Idle EXCEPT !.pc = "issue", !.kind = kind, !.free = SetToSeq(Ids), !.end = Want]
    /\ mach' = [mach EXCEPT !.leased = Ids]
    /\ sess' = [sess EXCEPT !.cancelled = FALSE, !.expired = FALSE]
    /\ log' = [pieces |-> <<>>, stored |-> {}, waited |-> {}, refused |-> FALSE]
    /\ UNCHANGED link

-----------------------------------------------------------------------------
(* Asking.                                                                 *)

MayAsk ==
    /\ rd.pc = "issue" /\ rd.free # <<>> /\ rd.offset < rd.end
    /\ rd.kind = "write" => rd.failure = "none"

\* _issue, _issue_write and _send: a request goes out whole and is owed an
\* answer, or the send fails part-way and the wire is torn.
Issue ==
    /\ MayAsk /\ ~sess.cancelled
    /\ LET sid == Last(rd.free)
           size == Min({Chunk, rd.end - rd.offset})
           entry == [off |-> rd.offset, len |-> size, got |-> 0]
       IN \/ /\ rd' = [rd EXCEPT !.free = Front(@), !.owed = @ \cup {sid}, !.offset = @ + size,
                        !.inflight = With(@, sid, entry),
                        !.issued = IF rd.kind = "stream" THEN Append(@, sid) ELSE @]
             /\ link' = [link EXCEPT !.asked = @ \cup
                    {[sid |-> sid, off |-> rd.offset, len |-> size, sent |-> 0, late |-> FALSE]}]
          \/ /\ rd' = [Raise(rd, "connection") EXCEPT !.torn = TRUE]
             /\ link' = [link EXCEPT !.half = TRUE]
    /\ UNCHANGED <<mach, sess, log>>

\* cancel.check before a send, or write_chunks' own `check` after one.
IssueStopped ==
    /\ MayAsk /\ sess.cancelled
    /\ rd' = Raise(rd, "cancelled")
    /\ UNCHANGED <<mach, sess, link, log>>

\* Nothing more may be asked for now: wait for an answer, or return.
IssueDone ==
    /\ rd.pc = "issue" /\ ~MayAsk
    /\ rd' = IF Outstanding THEN [rd EXCEPT !.pc = "take"] ELSE Raise(rd, rd.failure)
    /\ UNCHANGED <<mach, sess, link, log>>

-----------------------------------------------------------------------------
(* Taking a frame off the wire: _frame_header, _next_reply, _collect.      *)

Taking == rd.pc \in {"take", "drain"}
AfterError == IF rd.pc = "drain" THEN "handback" ELSE "settle"
\* An error raised while draining is settle's own: it keeps what the call raised.
Fail(r, err) == [r EXCEPT !.pc = AfterError, !.raised = IF rd.pc = "drain" THEN @ ELSE err]

\* Blocked on the wire: a stream whose next piece has landed never is.
Waiting ==
    /\ Taking
    /\ rd.pc = "drain" => rd.owed # {}
    /\ rd.pc = "take" /\ rd.kind = "stream" => Head(rd.issued) \notin rd.done

\* _land's bound: a data frame longer than what is left of its request.
TooLong(f) ==
    /\ rd.pc = "take" /\ rd.kind # "write" /\ f.st \in Data
    /\ rd.inflight[f.sid].got + f.size > rd.inflight[f.sid].len

TakeHeader ==
    /\ Waiting /\ rd.frame = NoFrame /\ link.frames # <<>>
    /\ LET f == Head(link.frames)
           r == [rd EXCEPT !.frame = f, !.torn = TRUE]
       IN rd' = IF f.st # "notice" /\ (f.sid \notin rd.owed \/ TooLong(f))
                THEN Fail(r, "protocol") ELSE r
    /\ link' = [link EXCEPT !.frames = Tail(@)]
    /\ UNCHANGED <<mach, sess, log>>

\* The frame at hand is off the wire: _body's and _collect's torn = False.
Landed(r) == [r EXCEPT !.frame = NoFrame, !.torn = FALSE]
Answered(r, sid) == [Landed(r) EXCEPT !.owed = @ \ {sid}]

\* The reads stream() still has to yield, in the order it asked.
Others(ids, sid) == SelectSeq(ids, LAMBDA i : i # sid)

\* A completed read leaves its id and slot free; a short one ends the file.
Collected(r, sid, got) ==
    LET e == r.inflight[sid]
        stop == Min({r.end, e.off + got})
    IN [r EXCEPT !.pc = "issue", !.free = Append(@, sid), !.inflight = Without(@, sid),
         !.issued = Others(@, sid),
         !.landed = @ + got,
         !.end = IF r.kind # "gather" /\ got < e.len THEN stop ELSE @,
         !.offset = IF r.kind # "gather" /\ got < e.len THEN Min({@, stop}) ELSE @]

\* _collect for a read: the bytes land in their own slot.  stream() hands
\* them on only in the order it asked (_await_in_turn); into() and gather()
\* take them as they come.
BodyOfRead(f) ==
    LET sid == f.sid
        got == rd.inflight[sid].got + f.size
        r == [Landed(rd) EXCEPT !.inflight[sid].got = got]
    IN CASE f.st = "oksofar" -> rd' = r
         [] f.st = "ok" /\ rd.kind = "stream" ->
                rd' = [Answered(r, sid) EXCEPT !.done = @ \cup {sid}]
         [] f.st = "ok" /\ rd.kind # "stream" -> rd' = Collected(Answered(r, sid), sid, got)
         [] f.st = "waitresp" -> rd' = Landed(rd)
         [] OTHER -> rd' = Raise(Answered(rd, sid),
                                 IF f.st = "error" THEN "server" ELSE "unsupported")

\* write_chunks keeps the first refusal of a window.
FirstFailure(failure, refused) == IF failure = "none" THEN refused ELSE failure

\* _write_answer: stored, put off or refused.  The first refusal is kept and
\* raised once the whole window has been answered.  A caller that takes
\* deferrals is also strict: any other answer tears the wire at once.
BodyOfWrite(f) ==
    LET sid == f.sid
        at == rd.inflight[sid].off
        r == [Answered(rd, sid) EXCEPT !.pc = "issue", !.free = Append(@, sid),
              !.inflight = Without(@, sid)]
        refused == IF f.st = "error" THEN "server" ELSE "unsupported"
    IN CASE f.st \in {"oksofar", "waitresp"} -> rd' = Landed(rd) /\ UNCHANGED log
         [] f.st = "ok" -> rd' = [r EXCEPT !.landed = @ + 1] /\ UNCHANGED log
         [] f.st = "wait" /\ Callbacks ->
                rd' = r /\ log' = [log EXCEPT !.waited = @ \cup {at}]
         [] f.st = "redirect" /\ Callbacks ->
                rd' = [Raise(r, "protocol") EXCEPT !.torn = TRUE] /\ UNCHANGED log
         [] OTHER -> /\ rd' = [r EXCEPT !.failure = FirstFailure(@, refused)]
                     /\ log' = [log EXCEPT !.refused = TRUE]

\* _drain throws the body away; an instalment leaves its id owed.
BodyDrained(f) ==
    rd' = IF f.st \in {"oksofar", "waitresp"} THEN Landed(rd) ELSE Answered(rd, f.sid)

TakeBody ==
    /\ Taking /\ rd.frame # NoFrame
    /\ LET f == rd.frame
       IN \/ /\ f.st = "notice" /\ rd' = Landed(rd) /\ UNCHANGED log
          \/ /\ f.st # "notice" /\ rd.pc = "drain" /\ BodyDrained(f) /\ UNCHANGED log
          \/ /\ f.st # "notice" /\ rd.pc = "take" /\ rd.kind # "write" /\ BodyOfRead(f)
             /\ UNCHANGED log
          \/ /\ f.st # "notice" /\ rd.pc = "take" /\ rd.kind = "write" /\ BodyOfWrite(f)
    /\ UNCHANGED <<mach, sess, link>>

\* stream(): the read whose turn it is has landed, and its piece is yielded.
Yield ==
    /\ rd.pc = "take" /\ rd.kind = "stream" /\ rd.frame = NoFrame
    /\ rd.issued # <<>> /\ Head(rd.issued) \in rd.done
    /\ LET sid == Head(rd.issued)
           e == rd.inflight[sid]
       IN /\ rd' = [Collected(rd, sid, e.got) EXCEPT !.done = @ \ {sid},
                     !.pc = IF e.got > 0 THEN "yield" ELSE "issue"]
          /\ log' = IF e.got = 0 THEN log
                    ELSE [log EXCEPT !.pieces = Append(@, [off |-> e.off, len |-> e.got])]
    /\ UNCHANGED <<mach, sess, link>>

\* The consumer comes back for the next piece, or leaves the with-block with
\* the stream suspended.
Resume == /\ rd.pc = "yield" /\ rd' = [rd EXCEPT !.pc = "issue"]
          /\ UNCHANGED <<mach, sess, link, log>>
Leave == /\ rd.pc = "yield" /\ rd' = Raise(rd, "left")
         /\ UNCHANGED <<mach, sess, link, log>>

-----------------------------------------------------------------------------
(* Clocks, and the peer hanging up: _exact, _check_clocks, _abandon_now.   *)

\* Between frames a cancelled reader stops at once; part-way through one it
\* stops after CANCEL_GRACE, with the wire still torn.
ClockRunsOut ==
    /\ Waiting
    /\ \E err \in {"cancelled", "expired", "timeout"} :
         /\ err = "cancelled" => sess.cancelled
         /\ err = "expired" => sess.expired
         /\ rd' = Fail(rd, err)
    /\ UNCHANGED <<mach, sess, link, log>>

ReadEof ==
    /\ Waiting /\ link.eof /\ link.frames = <<>>
    /\ rd' = Fail(rd, "connection")
    /\ UNCHANGED <<mach, sess, link, log>>

Cancel ==
    /\ rd.pc # "idle" /\ ~sess.cancelled
    /\ sess' = [sess EXCEPT !.cancelled = TRUE] /\ UNCHANGED <<rd, mach, link, log>>
Expire ==
    /\ rd.pc # "idle" /\ ~sess.expired
    /\ sess' = [sess EXCEPT !.expired = TRUE] /\ UNCHANGED <<rd, mach, link, log>>

-----------------------------------------------------------------------------
(* settle(), _hand_back() and the end of the loan.                         *)

Settle ==
    /\ rd.pc = "settle"
    /\ rd' = [rd EXCEPT !.pc = IF rd.owed # {} /\ ~rd.torn /\ ~stopped
                               THEN "drain" ELSE "handback"]
    /\ UNCHANGED <<mach, sess, link, log>>

Drained ==
    /\ rd.pc = "drain" /\ rd.frame = NoFrame /\ rd.owed = {}
    /\ rd' = [rd EXCEPT !.pc = "handback"]
    /\ UNCHANGED <<mach, sess, link, log>>

\* What becomes of the ids: back to the pool, left to the machine to drop,
\* or kept out of circulation with the session marked broken.
Trusted == ~rd.torn /\ (rd.owed = {} \/ stopped)
\* Mutation: every id released, answers owed or not.
HandedBackAll == [leased |-> {}, retired |-> {}]

HandedBack == IF Trusted THEN [leased |-> {}, retired |-> rd.owed] ELSE mach

\* The session is broken by the reader's own verdict or by the failure of its
\* link; a cancelled reader that broke it closes it at once.
HandBack ==
    /\ rd.pc = "handback"
    /\ mach' = HandedBack
    /\ LET broken == ~Trusted \/ rd.raised \in {"connection", "timeout"}
       IN sess' = [sess EXCEPT !.broken = broken,
                               !.closed = rd.raised = "cancelled" /\ broken]
    /\ rd' = [Idle EXCEPT !.kind = rd.kind, !.frame = rd.frame, !.landed = rd.landed,
                           !.raised = rd.raised]
    /\ UNCHANGED <<link, log>>

-----------------------------------------------------------------------------
(* Outside the reader: the event path between loans, and the server.       *)

\* The machine drops the late answer of an id retired by _hand_back.
EventPathDrops ==
    /\ rd.pc = "idle" /\ ~sess.broken /\ ~sess.closed /\ link.frames # <<>>
    /\ LET f == Head(link.frames)
       IN mach' = IF f.st \in {"oksofar", "waitresp", "notice"} THEN mach
                  ELSE [mach EXCEPT !.retired = @ \ {f.sid}]
    /\ link' = [link EXCEPT !.frames = Tail(@)]
    /\ UNCHANGED <<rd, sess, log>>

Frame(sid, st, size) == [sid |-> sid, st |-> st, size |-> size]
Queue(f, asked) == [link EXCEPT !.frames = Append(@, f), !.asked = asked]

\* The server answers any request it has, in any order, in instalments or at
\* once, with what the file still holds at its offset; or refuses it.
Answer ==
    /\ ~link.eof
    /\ \E q \in link.asked :
         LET left == Max({0, Min({q.len, FileEnd - q.off})}) - q.sent
             rest == link.asked \ {q}
             store == log' = [log EXCEPT !.stored = @ \cup {q.off}]
         IN \/ /\ link' = Queue(Frame(q.sid, "ok", left), rest)
               /\ IF rd.kind = "write" THEN store ELSE UNCHANGED log
            \/ /\ rd.kind # "write" /\ left > 1
               /\ link' = Queue(Frame(q.sid, "oksofar", 1), rest \cup {[q EXCEPT !.sent = @ + 1]})
               /\ UNCHANGED log
            \/ /\ q.sent = 0 /\ UNCHANGED log
               /\ \E st \in {"error", "wait"} : link' = Queue(Frame(q.sid, st, 0), rest)
            \/ /\ ~q.late /\ link.odd < MaxOdd /\ UNCHANGED log
               /\ link' = [Queue(Frame(q.sid, "waitresp", 0), rest \cup {[q EXCEPT !.late = TRUE]})
                           EXCEPT !.odd = @ + 1]
    /\ UNCHANGED <<rd, mach, sess>>

\* A notice, an answer nobody asked for, one that carries too
\* much, or one of a kind no bulk call is prepared for.
Odd ==
    /\ rd.pc # "idle" /\ ~link.eof /\ link.odd < MaxOdd
    /\ \E f \in {Frame(0, "notice", 0), Frame(0, "ok", 0)}
               \cup {Frame(q.sid, "ok", Chunk + 1) : q \in {a \in link.asked : rd.kind # "write"}}
               \cup {Frame(q.sid, "redirect", 0) : q \in link.asked} :
         link' = [Queue(f, {q \in link.asked : q.sid # f.sid}) EXCEPT !.odd = @ + 1]
    /\ UNCHANGED <<rd, mach, sess, log>>

HangUp == /\ ~link.eof /\ rd.pc # "idle" /\ link' = [link EXCEPT !.eof = TRUE, !.asked = {}]
          /\ UNCHANGED <<rd, mach, sess, log>>

-----------------------------------------------------------------------------
Reader ==
    \/ Issue \/ IssueStopped \/ IssueDone \/ TakeHeader \/ TakeBody \/ Yield
    \/ Resume \/ Leave \/ ClockRunsOut \/ ReadEof \/ Settle \/ Drained \/ HandBack

ReaderNext ==
    \/ \E kind \in Kinds : Begin(kind)
    \/ Reader \/ Cancel \/ Expire \/ EventPathDrops \/ Answer \/ Odd \/ HangUp

\* The reader's own thread runs on, and its clocks run out in the end.
ReaderFairness == WF_readerVars(Reader)
ReaderSpec == ReaderInit /\ [][ReaderNext]_readerVars /\ ReaderFairness

-----------------------------------------------------------------------------
(* Properties.                                                             *)

ReaderTypeOK ==
    /\ rd.pc \in {"idle", "issue", "take", "yield", "settle", "drain", "handback"}
    /\ rd.kind \in Kinds \cup {"none"}
    /\ rd.owed \subseteq Ids /\ ToSet(rd.free) \subseteq Ids
    /\ {rd.offset, rd.end, rd.landed} \subseteq 0 .. Want
    /\ mach.leased \subseteq Ids /\ mach.retired \subseteq Ids

\* On a session still in use, an id that is back in the machine's pool has no
\* request at the server and no frame on the wire (settle and _hand_back).
QuietIds ==
    ~sess.broken /\ ~sess.closed =>
        \A sid \in Ids \ (mach.leased \cup mach.retired) :
            /\ \A q \in link.asked : q.sid # sid
            /\ \A i \in DOMAIN link.frames : link.frames[i].sid # sid

\* A session handed back unbroken is between frames in both directions: the
\* next byte it reads is a header (_exact's and _send's torn flag).
InStep == rd.pc = "idle" /\ ~sess.broken => rd.frame = NoFrame /\ ~link.half

\* What a bulk call leaves behind, however it ended, is a wire the event path
\* can use: quiet ids and a framer in step, or a session marked broken.
WireSafe == QuietIds /\ InStep

\* stream() yields the file from its start with no gap and nothing twice.
InOrder ==
    \A i \in DOMAIN log.pieces :
        log.pieces[i].off = IF i = 1 THEN 0 ELSE log.pieces[i-1].off + log.pieces[i-1].len

\* A call that returns has done all it was asked: every byte up to the end of
\* the file, or every write stored or put off; a refusal anywhere in the
\* window is raised, whatever was answered after it.
ReturnHonest ==
  /\ InOrder
  /\ rd.pc = "idle" /\ rd.kind # "none" /\ rd.raised = "none" =>
        IF rd.kind = "write"
        THEN /\ ~log.refused
             /\ \A off \in {n \in 0 .. Want - 1 : n % Chunk = 0} : off \in log.stored \cup log.waited
        ELSE rd.landed = Min({Want, FileEnd})

=============================================================================
