---------------------------- MODULE MCTransfers ----------------------------
(***************************************************************************)
(* The ways bytes move, checked side by side: a behaviour follows one of   *)
(* the five modules, which share no state, and the others stay at rest.    *)
(***************************************************************************)
EXTENDS BulkReader, BulkTransfer, Replicas, VectorIO, FileWriting, TLC

\* Two managers that name each other, and the data servers under them.
MCAnswers == ("m1" :> {"m2", "s1"}) @@ ("m2" :> {"m1", "s2", "s3"})

\* Lists of one to three ranges over a short file, overlapping ones among them.
MCRanges == BoundedSeq([off : 0 .. 3, len : 1 .. 4], 3) \ {<< >>}
OneRange == <<[off |-> 0, len |-> 1]>>

VARIABLE task    \* which module this behaviour follows

allVars == <<task, readerVars, bulkVars, fetchVars, vec, writeVars>>

Init ==
    /\ task \in {"reader", "bulk", "replicas", "vector", "write"}
    /\ ReaderInit /\ ReplicaInit
    /\ BulkInit /\ (task # "bulk" => xfer.mode = "stream")
    /\ WriteInit /\ (task # "write" => fh.seekable)
    /\ VecInit /\ (task # "vector" => vec.wanted = OneRange)

\* One step of a module, the others at rest.
InReader(A) == task = "reader" /\ A /\ UNCHANGED <<task, bulkVars, fetchVars, vec, writeVars>>
InBulk(A) == task = "bulk" /\ A /\ UNCHANGED <<task, readerVars, fetchVars, vec, writeVars>>
InReplicas(A) == task = "replicas" /\ A /\ UNCHANGED <<task, readerVars, bulkVars, vec, writeVars>>
InVector(A) == task = "vector" /\ A /\ UNCHANGED <<task, readerVars, bulkVars, fetchVars, writeVars>>
InWrite(A) == task = "write" /\ A /\ UNCHANGED <<task, readerVars, bulkVars, fetchVars, vec>>

Next == InReader(ReaderNext) \/ InBulk(BulkNext) \/ InReplicas(ReplicaNext)
        \/ InVector(VecNext) \/ InWrite(WriteNext)

\* The fairness of each module, for the behaviours that follow it.
Fairness ==
    /\ WF_allVars(InReader(Reader))
    /\ \A i \in Jobs : WF_allVars(InBulk(Worker(i)))
    /\ WF_allVars(InBulk(WatcherStops \/ WatcherAborts)) /\ WF_allVars(InBulk(Join))
    /\ WF_allVars(InReplicas(Locate \/ Start \/ Together))
    /\ \A r \in Readers : WF_allVars(InReplicas(FetchReader(r)))

Spec == Init /\ [][Next]_allVars /\ Fairness

\* A stream over several connections whose file turned out shorter than its
\* open reply said.
CutShort == xfer.mode = "stream" /\ Len(spans) > 1 /\ out.end < Size

Moving ==
    \/ rd.pc # "idle"
    \/ task = "bulk" /\ xfer.result = "running" /\ ~CutShort
    \/ task = "replicas" /\ fetch.result \in {"locate", "running"}

\* What a bulk call or a vector read returns is what was asked of it, whatever
\* was refused, short, put off or answered out of order (BulkReader, readv).
ReturnsRight == ReturnHonest /\ VectorRight

\* Whatever the servers do, a bulk call, a transfer and a fetch come to an
\* end: settling a wire is on the clock too (_check_clocks), no worker waits
\* for ever for its turn to write (ordered), and no reader of a replica for a
\* block nobody will give back (_Blocks.take).  The one move that may not end
\* is a stream cut short (TurnComes).
EveryMoveEnds == Moving ~> ~Moving

\* What ordered() says of itself: a worker that waits for its turn gets it, or
\* raises because a worker before it gave up.  It does not: a worker whose span
\* ends early, at the end of a file cut short, returns without abandoning.
TurnComes == \A i \in Jobs : task = "bulk" /\ wk[i].pc = "turn" ~> wk[i].pc # "turn"
============================================================================
