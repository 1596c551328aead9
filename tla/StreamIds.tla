----------------------------- MODULE StreamIds -----------------------------
(***************************************************************************)
(* The stream-id pool of one XRootD connection, as SessionMachine keeps it *)
(* (src/src/xrdclient/proto/machine.py).  A reply names its request by a   *)
(* 16-bit stream id and by nothing else, so an id handed out while a reply *)
(* to its previous request may still arrive delivers the wrong data.       *)
(*                                                                         *)
(* The program's state is pending, free, retired, leased and nextSid.      *)
(* owed is the environment's: the ids on which the server may still send   *)
(* something.  The machine never sees it; the promise of this module is    *)
(* that its own bookkeeping is always enough to stay clear of it.          *)
(***************************************************************************)
EXTENDS Naturals, Sequences, FiniteSets

CONSTANTS
    FirstSid,   \* _FIRST_SID: ids below it are reserved for bring-up
    MaxSid      \* 0xFFFF: the field is 16 bits wide

ASSUME SidRange == /\ FirstSid \in Nat
                   /\ MaxSid \in Nat
                   /\ FirstSid <= MaxSid

Sids == FirstSid .. MaxSid

VARIABLES
    pending,    \* _pending's keys: submitted, owed a final answer
    free,       \* _free: ids to reuse, oldest first
    retired,    \* _retired: given up on, an answer may still come
    leased,     \* _leased: lent to the bulk reader
    nextSid,    \* _next_sid: the counter, wrapping past MaxSid
    owed        \* ids the server may still answer on

vars == <<pending, free, retired, leased, nextSid, owed>>

FreeIds == {free[i] : i \in DOMAIN free}

InUse == pending \cup leased \cup retired

Init ==
    /\ pending = {}
    /\ free = <<>>
    /\ retired = {}
    /\ leased = {}
    /\ nextSid = FirstSid
    /\ owed = {}

-----------------------------------------------------------------------------
(* Handing ids out.                                                        *)

\* The counter, one on, past MaxSid back to the first id.
Advanced == IF nextSid + 1 > MaxSid THEN FirstSid ELSE nextSid + 1

\* Mutation: the counter's id is handed out unchecked.
AcquireUnchecked(s) ==
    \/ free # <<>> /\ s = Head(free) /\ free' = Tail(free) /\ UNCHANGED nextSid
    \/ free = <<>> /\ s = nextSid /\ nextSid' = Advanced /\ UNCHANGED free

\* _acquire_sid returns s: the oldest freed id, or else the counter's when
\* nothing holds it.  The freed one is not checked against anything.
Acquire(s) ==
    \/ /\ free # <<>>
       /\ s = Head(free)
       /\ free' = Tail(free)
       /\ UNCHANGED nextSid
    \/ /\ free = <<>>
       /\ s = nextSid
       /\ s \notin InUse
       /\ nextSid' = Advanced
       /\ UNCHANGED free

\* _acquire_sid raises "stream id space exhausted", the counter already moved.
Exhausted ==
    /\ free = <<>>
    /\ nextSid \in InUse
    /\ nextSid' = Advanced
    /\ UNCHANGED <<pending, free, retired, leased, owed>>

\* submit: the id is pending and its request on its way to the server.
Submit(s) ==
    /\ Acquire(s)
    /\ pending' = pending \cup {s}
    /\ owed' = owed \cup {s}
    /\ UNCHANGED <<retired, leased>>

\* submit raises while framing (a field out of range, a signature that cannot
\* be made): the id was taken and is recorded nowhere, nothing was sent.
SubmitUnframed(s) ==
    /\ Acquire(s)
    /\ UNCHANGED <<pending, retired, leased, owed>>

\* lease_sids, one turn of its loop.
Lease(s) ==
    /\ Acquire(s)
    /\ leased' = leased \cup {s}
    /\ UNCHANGED <<pending, retired, owed>>

\* frame_parts_for: a bulk request goes out on a leased id.
Issue(s) ==
    /\ s \in leased
    /\ owed' = owed \cup {s}
    /\ UNCHANGED <<pending, free, retired, leased, nextSid>>

\* resume: a request answered with kXR_wait is sent again on its own id.
Resume(s) ==
    /\ s \in pending
    /\ owed' = owed \cup {s}
    /\ UNCHANGED <<pending, free, retired, leased, nextSid>>

-----------------------------------------------------------------------------
(* Taking ids back.                                                        *)

\* release, by a driver that has heard the server's last word on the request
\* (a redirect, or a kXR_wait it will not sit out).
Release(s) ==
    /\ s \in pending \ owed
    /\ pending' = pending \ {s}
    /\ free' = Append(free, s)
    /\ UNCHANGED <<retired, leased, nextSid, owed>>

\* Mutation: an abandoned id goes straight back to the pool.
AbandonAsRelease(s) ==
    /\ s \in pending
    /\ pending' = pending \ {s}
    /\ free' = Append(free, s)
    /\ UNCHANGED <<retired, leased, nextSid, owed>>

\* abandon: the caller gives up, whatever the server still has to say.
Abandon(s) ==
    /\ s \in pending
    /\ pending' = pending \ {s}
    /\ retired' = retired \cup {s}
    /\ UNCHANGED <<free, leased, nextSid, owed>>

\* release_sids, one turn of its loop: the bulk reader settled and is owed
\* nothing on s.
ReleaseSid(s) ==
    /\ s \in leased \ owed
    /\ leased' = leased \ {s}
    /\ free' = Append(free, s)
    /\ UNCHANGED <<pending, retired, nextSid, owed>>

\* retire_sids, one turn of its loop: ids still owed a reply are abandoned,
\* the rest go back.
RetireSid(s) ==
    /\ s \in leased
    /\ leased' = leased \ {s}
    /\ IF s \in owed
       THEN retired' = retired \cup {s} /\ UNCHANGED free
       ELSE free' = Append(free, s) /\ UNCHANGED retired
    /\ UNCHANGED <<pending, nextSid, owed>>

-----------------------------------------------------------------------------
(* Replies.                                                                *)

\* The final reply on s is taken off the wire: it completes or fails the
\* pending request, or is dropped for a retired one (_retired_reply), and the
\* id goes back to the pool.  On a leased id the bulk reader takes it and
\* keeps the id.
FinalReply(s) ==
    /\ s \in owed
    /\ owed' = owed \ {s}
    /\ pending' = pending \ {s}
    /\ retired' = retired \ {s}
    /\ free' = IF s \in pending \cup retired THEN Append(free, s) ELSE free
    /\ UNCHANGED <<leased, nextSid>>

\* A redirect or a kXR_wait: the server's last word until the request is sent
\* again, which leaves the stream pending.
LastWord(s) ==
    /\ s \in owed \cap pending
    /\ owed' = owed \ {s}
    /\ UNCHANGED <<pending, free, retired, leased, nextSid>>

-----------------------------------------------------------------------------
(* Links that go away.                                                     *)

\* q lists the ids of S, each once: an order in which they can be put back.
ListsOnce(q, S) ==
    /\ q \in Seq(S)
    /\ S = {q[i] : i \in DOMAIN q}
    /\ \A i, j \in DOMAIN q : q[i] = q[j] => i = j

\* forget_path: a data path is closed.  The requests S routed over it go, and
\* their ids are free at once, in the order of q; the server will answer
\* none of gone, which are those requests and whichever retired ones it was
\* to answer there.
LosePath(S, gone, q) ==
    /\ S \subseteq pending
    /\ gone \subseteq S \cup retired
    /\ S \cap owed \subseteq gone
    /\ ListsOnce(q, S)
    /\ pending' = pending \ S
    /\ free' = free \o q
    /\ owed' = owed \ gone
    /\ UNCHANGED <<retired, leased, nextSid>>

\* _on_eof: the control link is gone, and every answer with it.
Disconnect ==
    /\ pending' = {}
    /\ owed' = {}
    /\ UNCHANGED <<free, retired, leased, nextSid>>

\* close: an id for kXR_endsess, recorded nowhere.
Close(s) ==
    /\ Acquire(s)
    /\ owed' = {}
    /\ UNCHANGED <<pending, retired, leased>>

\* The orders of a finite set of ids.
Orders(S) ==
    {q \in [1 .. Cardinality(S) -> S] : S = {q[i] : i \in 1 .. Cardinality(S)}}

Next ==
    \/ Exhausted
    \/ Disconnect
    \/ \E S \in SUBSET pending : \E gone \in SUBSET (S \cup retired), q \in Orders(S) :
          LosePath(S, gone, q)
    \/ \E s \in Sids :
          \/ Submit(s) \/ SubmitUnframed(s) \/ Lease(s)
          \/ Issue(s) \/ Resume(s)
          \/ Release(s) \/ Abandon(s) \/ ReleaseSid(s) \/ RetireSid(s)
          \/ FinalReply(s) \/ LastWord(s) \/ Close(s)

Spec == Init /\ [][Next]_vars

-----------------------------------------------------------------------------
(* Properties.                                                             *)

TypeOK ==
    /\ pending \subseteq Sids
    /\ retired \subseteq Sids
    /\ leased \subseteq Sids
    /\ owed \subseteq Sids
    /\ free \in Seq(Sids)
    /\ nextSid \in Sids

\* No id is in two places at once.  _acquire_sid trusts this when it takes the
\* head of _free unchecked.
OnePlace ==
    /\ pending \cap retired = {}
    /\ pending \cap leased = {}
    /\ retired \cap leased = {}
    /\ FreeIds \cap InUse = {}

\* An id is queued for reuse once: two entries would hand it to two requests.
FreeOnce == \A i, j \in DOMAIN free : free[i] = free[j] => i = j

\* Whatever the server may still answer on is held out of the pool by some
\* request, lease or retirement.
OwedHeld == owed \subseteq InUse

IdsInv == TypeOK /\ OnePlace /\ FreeOnce /\ OwedHeld

\* The maintainers' first rule for SessionMachine: a stream id is never
\* handed out while an answer to its previous request may still arrive, nor
\* while anything else holds it.  An id is handed out when it leaves _free or
\* when the counter moves off it into use.
FreshIsQuiet ==
    [][\A s \in Sids :
          s \in (pending' \cup leased') \ (pending \cup leased)
             => s \notin owed \cup InUse]_vars

=============================================================================
