------------------------------ MODULE Replicas ------------------------------
(***************************************************************************)
(* copy/replicas.py: finding the servers that hold a file (locate) and     *)
(* reading it from several of them at once (fetch).                        *)
(*                                                                         *)
(* Readers take blocks from a shared queue; a replica that fails gives     *)
(* back what it did not read and its reader moves on to a replica nobody   *)
(* has tried.  A reader without a block waits for those that have one.     *)
(* One unit of the file is one chunk.                                      *)
(***************************************************************************)
EXTENDS Integers, Sequences, FiniteSets, FiniteSetsExt, Functions

CONSTANTS
    Root,      \* the endpoint the copy names
    Managers,  \* endpoints that answer a locate with others
    Servers,   \* endpoints that hold the file
    Answers,   \* what each manager answers: Managers -> SUBSET endpoints
    Length,    \* units in the file
    Block,     \* units in a block
    Sources    \* how many readers the copy asks for

ASSUME ReplicasAssumption ==
    /\ Length \in Nat /\ Block \in Nat \ {0} /\ Sources \in Nat
    /\ IsFiniteSet(Servers)

VARIABLES
    loc,     \* locate(): [pending, asked, found]
    blocks,  \* _Blocks: [pending, busy, stopped]
    fetch,   \* _Fetch: [replicas, moved, result]
    rdr,     \* the readers: [pc, off, len, moved]
    put      \* history: how often each unit was written

fetchVars == <<loc, blocks, fetch, rdr, put>>

Readers == 1 .. Min({Sources, Cardinality(Servers)})
NoBlock == [pc |-> "open", off |-> 0, len |-> 0, moved |-> 0]

ReplicaInit ==
    /\ loc = [pending |-> <<Root>>, asked |-> {}, found |-> {}, first |-> TRUE]
    /\ blocks = [pending |-> << >>, busy |-> 0, stopped |-> FALSE]
    /\ fetch = [replicas |-> {}, moved |-> 0, result |-> "locate"]
    /\ rdr = [r \in Readers |-> NoBlock]
    /\ put = [u \in 0 .. Length - 1 |-> 0]

-----------------------------------------------------------------------------
(* locate: breadth first, every endpoint asked once.                       *)

Locate ==
    /\ fetch.result = "locate" /\ loc.pending # << >>
    /\ LET where == Head(loc.pending)
           rest == Tail(loc.pending)
           fresh == where \notin loc.asked
           entries == IF where \in Managers THEN Answers[where] ELSE {}
           down == {e \in entries : e \in Managers}
       IN \/ /\ fresh
             /\ \E more \in {s \in [1 .. Cardinality(down) -> down] : IsInjective(s)} :
                  loc' = [pending |-> rest \o more, asked |-> loc.asked \cup {where},
                          found |-> loc.found \cup (entries \ Managers), first |-> FALSE]
             /\ UNCHANGED fetch
          \/ \* _ask: an endpoint that cannot be reached is passed over, the first is not.
             /\ fresh
             /\ loc' = [loc EXCEPT !.pending = rest, !.asked = @ \cup {where}, !.first = FALSE]
             /\ fetch' = IF loc.first THEN [fetch EXCEPT !.result = "failed"] ELSE fetch
          \/ ~fresh /\ loc' = [loc EXCEPT !.pending = rest] /\ UNCHANGED fetch
    /\ UNCHANGED <<blocks, rdr, put>>

\* fetch(): the first replica that opens gives the size, and the file is cut
\* into blocks; with none the copy fails before it reads.
SplitInBlocks ==
    [i \in 1 .. (Length + Block - 1) \div Block |->
        [off |-> (i - 1) * Block, len |-> Min({Block, Length - (i - 1) * Block})]]

Start ==
    /\ fetch.result = "locate" /\ loc.pending = << >>
    /\ \/ /\ fetch' = [fetch EXCEPT !.result = "exhausted"]
          /\ UNCHANGED <<blocks, rdr>>
       \/ \E dead \in SUBSET loc.found, url \in loc.found :
            /\ url \notin dead
            /\ fetch' = [fetch EXCEPT !.replicas = loc.found \ (dead \cup {url}),
                                      !.result = "running"]
            /\ blocks' = [blocks EXCEPT !.pending = SplitInBlocks]
            /\ rdr' = [r \in Readers |->
                          IF r = 1 THEN [NoBlock EXCEPT !.pc = "take"]
                          ELSE IF r <= Min({Sources, Cardinality(loc.found)}) THEN NoBlock
                          ELSE [NoBlock EXCEPT !.pc = "ended"]]
    /\ UNCHANGED <<loc, put>>

-----------------------------------------------------------------------------
(* One reader: _Fetch.run.                                                 *)

Live == fetch.result = "running"

\* open_next: the next untried replica; one that does not open is used up.
OpenNext(r) ==
    /\ Live /\ rdr[r].pc = "open"
    /\ IF fetch.replicas = {} THEN rdr' = [rdr EXCEPT ![r].pc = "ended"] /\ UNCHANGED fetch
       ELSE \E url \in fetch.replicas, pc \in {"open", "take"} :
               /\ fetch' = [fetch EXCEPT !.replicas = @ \ {url}]
               /\ rdr' = [rdr EXCEPT ![r].pc = pc]
    /\ UNCHANGED <<loc, blocks, put>>

\* _Blocks.take: wait while another reader's block may yet come back.
Take(r) ==
    /\ Live /\ rdr[r].pc = "take"
    /\ ~(blocks.pending = << >> /\ blocks.busy > 0 /\ ~blocks.stopped)
    /\ IF blocks.stopped \/ blocks.pending = << >>
       THEN rdr' = [rdr EXCEPT ![r].pc = "ended"] /\ UNCHANGED blocks
       ELSE LET b == Head(blocks.pending)
            IN /\ rdr' = [rdr EXCEPT ![r] = [pc |-> "read", off |-> b.off, len |-> b.len, moved |-> 0]]
               /\ blocks' = [blocks EXCEPT !.busy = @ + 1, !.pending = Tail(@)]
    /\ UNCHANGED <<loc, fetch, put>>

\* Mutation: what was not read is not given back.
GivenShort(b, r, moved) == [b EXCEPT !.busy = @ - 1]

\* _Blocks.done: what was not covered goes to the front of the queue.
Given(b, r, moved) ==
    [b EXCEPT !.busy = @ - 1,
        !.pending = IF moved < rdr[r].len
                    THEN <<[off |-> rdr[r].off + moved, len |-> rdr[r].len - moved]>> \o @
                    ELSE @]

\* run's except clause and its finally: everybody stops, the block goes back.
Raises(r, pc) ==
    /\ blocks' = Given([blocks EXCEPT !.stopped = TRUE], r, 0)
    /\ rdr' = [rdr EXCEPT ![r].pc = pc]

\* _span and _put: one chunk is read and written under the lock; or the copy
\* has been stopped; or the replica has no more to give; or the target fails.
Span(r) ==
    /\ Live /\ rdr[r].pc = "read" /\ rdr[r].moved < rdr[r].len
    /\ \/ /\ blocks.stopped /\ Raises(r, "stopped") /\ UNCHANGED <<fetch, put>>
       \/ /\ ~blocks.stopped
          /\ put' = [put EXCEPT ![rdr[r].off + rdr[r].moved] = @ + 1]
          /\ fetch' = [fetch EXCEPT !.moved = @ + 1]
          /\ rdr' = [rdr EXCEPT ![r].moved = @ + 1]
          /\ UNCHANGED blocks
       \/ /\ ~blocks.stopped
          /\ rdr' = [rdr EXCEPT ![r].pc = "done"]
          /\ UNCHANGED <<blocks, fetch, put>>
       \/ /\ ~blocks.stopped /\ Raises(r, "failed") /\ UNCHANGED <<fetch, put>>
    /\ UNCHANGED loc

\* The block is finished with: the reader keeps its replica if it gave all.
Done(r) ==
    /\ Live
    /\ rdr[r].pc = "done" \/ (rdr[r].pc = "read" /\ rdr[r].moved = rdr[r].len)
    /\ blocks' = Given(blocks, r, rdr[r].moved)
    /\ rdr' = [rdr EXCEPT ![r].pc = IF rdr[r].moved < rdr[r].len THEN "open" ELSE "take"]
    /\ UNCHANGED <<loc, fetch, put>>

\* _together's join and fetch()'s verdict.
Together ==
    /\ Live /\ \A r \in Readers : rdr[r].pc \in {"ended", "failed", "stopped"}
    /\ fetch' = [fetch EXCEPT !.result =
            IF \E r \in Readers : rdr[r].pc = "failed" THEN "failed"
            ELSE IF fetch.moved < Length THEN "exhausted" ELSE "ok"]
    /\ UNCHANGED <<loc, blocks, rdr, put>>

-----------------------------------------------------------------------------
FetchReader(r) == OpenNext(r) \/ Take(r) \/ Span(r) \/ Done(r)
ReplicaNext == Locate \/ Start \/ Together \/ \E r \in Readers : FetchReader(r)
\* Each reader thread and the caller that starts and joins them keep running.
ReplicaFairness ==
    /\ WF_fetchVars(Locate \/ Start \/ Together)
    /\ \A r \in Readers : WF_fetchVars(FetchReader(r))

ReplicaSpec == ReplicaInit /\ [][ReplicaNext]_fetchVars /\ ReplicaFairness

-----------------------------------------------------------------------------
(* Properties.                                                             *)

Holding == {r \in Readers : rdr[r].pc \in {"read", "done"}}
Held(r) == rdr[r].off + rdr[r].moved .. rdr[r].off + rdr[r].len - 1
Queued == UNION {b.off .. b.off + b.len - 1 : b \in Range(blocks.pending)}

\* Until the copy is stopped every unit of the file is written, queued or in
\* exactly one reader's hands, whatever fails; _busy counts those hands; and
\* a copy that succeeds wrote each unit once.
NoBlockLost ==
    /\ Live /\ ~blocks.stopped =>
        \A u \in 0 .. Length - 1 :
            put[u] + Cardinality({r \in Holding : u \in Held(r)})
                   + (IF u \in Queued THEN 1 ELSE 0) = 1
    /\ blocks.busy = Cardinality(Holding)
    /\ fetch.result = "ok" => \A u \in 0 .. Length - 1 : put[u] = 1

=============================================================================
