--------------------------- MODULE TransferProofs ---------------------------
(***************************************************************************)
(* Proofs about the ways bytes move: the loan of the wire to a bulk reader *)
(* (BulkReader), the fan-out of a bulk transfer (BulkTransfer), the fetch  *)
(* from several replicas (Replicas) and the write side of an open file     *)
(* (FileWriting), for every value of the constants.                        *)
(***************************************************************************)
EXTENDS BulkReader, BulkTransfer, Replicas, FileWriting, FiniteSetTheorems, SequenceTheorems, TLAPS

-----------------------------------------------------------------------------
(* Planning: what Min, Max and the spans come to.                          *)

LEMMA MinOfTwo ==
    ASSUME NEW a \in Int, NEW b \in Int
    PROVE  Min({a, b}) \in {a, b} /\ Min({a, b}) <= a /\ Min({a, b}) <= b
<1>1. \E x \in {a, b} : \A y \in {a, b} : x <= y
  <2>1. CASE a <= b
    BY <2>1
  <2>2. CASE ~(a <= b)
    BY <2>2
  <2> QED
    BY <2>1, <2>2
<1> QED
  BY <1>1 DEF Min

LEMMA MaxOfTwo ==
    ASSUME NEW a \in Int, NEW b \in Int
    PROVE  Max({a, b}) \in {a, b} /\ Max({a, b}) >= a /\ Max({a, b}) >= b
<1>1. \E x \in {a, b} : \A y \in {a, b} : x >= y
  <2>1. CASE a >= b
    BY <2>1
  <2>2. CASE ~(a >= b)
    BY <2>2
  <2> QED
    BY <2>1, <2>2
<1> QED
  BY <1>1 DEF Max

LEMMA Steps ==
    ASSUME NEW a \in Nat, NEW b \in Nat, a < b, NEW step \in Nat
    PROVE  a * step + step <= b * step
<1>1. PICK d \in Nat : b = a + 1 + d
  BY Z3
<1>2. b * step = a * step + step + d * step /\ d * step \in Nat /\ a * step \in Nat
  BY <1>1, Z3
<1> QED
  BY <1>2

\* _spans cuts the file in pieces that follow one another and end where it
\* does.
LEMMA SpansApart ==
    /\ Jobs \subseteq Nat
    /\ \A i \in Jobs : /\ spans[i].start \in Nat /\ spans[i].len \in Int
                       /\ spans[i].start + spans[i].len <= Size
    /\ \A i, j \in Jobs : i < j => spans[i].start + spans[i].len <= spans[j].start
<1> DEFINE workers == Plan(Size, WorkerCount)
           step == CeilDiv(Size, workers)
<1>1. CASE Size = 0
  <2>1. spans = << >>
    BY <1>1 DEF spans, Spans
  <2>2. Jobs = {}
    BY <2>1 DEF Jobs
  <2> QED
    BY <2>2
<1>2. CASE Size # 0
  <2>1. workers \in Nat \ {0}
    <3> DEFINE m == Min({WorkerCount, Size})
    <3>0. WorkerCount \in Int /\ Size \in Int
      BY TransferAssumption
    <3>a. m \in {WorkerCount, Size}
      BY <3>0, MinOfTwo
    <3>1. m \in Nat
      BY <3>a, TransferAssumption
    <3>2. workers = Max({1, m})
      BY <1>2 DEF Plan
    <3> HIDE DEF workers, m
    <3>b. 1 \in Int /\ m \in Int
      BY <3>1
    <3>3. Max({1, m}) >= 1 /\ Max({1, m}) \in {1, m}
      BY <3>b, MaxOfTwo
    <3> QED
      BY <3>1, <3>2, <3>3
  <2> HIDE DEF workers
  <2>2. step \in Nat
    BY <2>1, TransferAssumption, Z3 DEF CeilDiv
  <2> DEFINE count == CeilDiv(Size, step)
  <2>3. spans = [i \in 1 .. count |->
                    [start |-> (i - 1) * step, len |-> Min({step, Size - (i - 1) * step})]]
    BY <1>2 DEF spans, Spans, workers
  <2> HIDE DEF step, count
  <2>4. Jobs = 1 .. count
    BY <2>3 DEF Jobs
  <2>5. ASSUME NEW i \in Jobs
        PROVE  /\ i \in Nat \ {0} /\ spans[i].start = (i - 1) * step /\ spans[i].start \in Nat
               /\ spans[i].len \in Int /\ spans[i].len <= step
               /\ spans[i].start + spans[i].len <= Size
    <3>1. i \in Nat \ {0}
      BY <2>4
    <3>2. PICK n \in Nat : n = (i - 1) * step
      BY <3>1, <2>2, Z3
    <3>3. spans[i].start = n /\ spans[i].len = Min({step, Size - n})
      BY <2>3, <2>4, <3>2
    <3>a. Size - n \in Int /\ step \in Int
      BY <2>2, TransferAssumption
    <3>4. Min({step, Size - n}) \in Int /\ Min({step, Size - n}) <= step /\ Min({step, Size - n}) <= Size - n
      BY MinOfTwo, <3>a
    <3> QED
      BY <3>1, <3>2, <3>3, <3>4, TransferAssumption
  <2>6. ASSUME NEW i \in Jobs, NEW j \in Jobs, i < j
        PROVE  spans[i].start + spans[i].len <= spans[j].start
    <3>1. (i - 1) * step + step <= (j - 1) * step
      BY Steps, <2>2, <2>5, <2>6
    <3> QED
      BY <3>1, <2>2, <2>5
  <2> QED
    BY <2>5, <2>6
<1> QED
  BY <1>1, <1>2

-----------------------------------------------------------------------------
(* The bulk transfer: the inductive invariant.                             *)

WorkerPlaces == {"open", "opening", "track", "read", "check", "put", "turn", "pause"} \cup Over

\* The places where a worker's file is open and listed.
Listed == {"read", "check", "put", "turn"}

\* The places where a worker has a piece in its hands.
Loaded == {"check", "put", "turn"}

XferRecord ==
    [mode : {"download", "stream"}, aborted : BOOLEAN, halt : BOOLEAN, abandoned : BOOLEAN,
     cursor : Nat, moved : Nat, losses : Nat, files : SUBSET Nat,
     result : {"running", "aborted", "failed", "short", "ok"}]
WorkerRecord == [pc : WorkerPlaces, done : Nat]
HookRecord == [says : BOOLEAN, watcher : {"watch", "abort", "done"}, list : SUBSET Nat]
OutRecord == [landed : Seq(Nat), late : [Jobs -> Nat], end : Nat]

BulkType ==
    /\ xfer \in XferRecord
    /\ wk \in [Jobs -> WorkerRecord]
    /\ handle \in [Jobs -> {"none", "open", "aborted"}]
    /\ hook \in HookRecord
    /\ out \in OutRecord

\* A worker stays in its span, and has room for the piece in its hands.
InSpan ==
    \A i \in Jobs : /\ wk[i].done = 0 \/ wk[i].done <= spans[i].len
                    /\ wk[i].pc \in Loaded => wk[i].done < spans[i].len

\* Unit n was written by worker i.
Wrote(i, n) == spans[i].start <= n /\ n < spans[i].start + wk[i].done

\* What landed is what the workers count, each unit of it once; stream()'s
\* cursor is at its end.
LandedOnce ==
    /\ Len(out.landed) = xfer.moved
    /\ \A k \in 1 .. Len(out.landed) : \E i \in Jobs : Wrote(i, out.landed[k])
    /\ \A k, l \in 1 .. Len(out.landed) : out.landed[k] = out.landed[l] => k = l

StreamInOrder ==
    xfer.mode = "stream" =>
        /\ xfer.cursor = xfer.moved
        /\ \A k \in 1 .. Len(out.landed) : out.landed[k] = k - 1

\* Once joined the workers have ended; a success was counted.
Joined ==
    /\ xfer.result # "running" => \A i \in Jobs : wk[i].pc \in Over
    /\ xfer.result = "ok" => xfer.moved = Size
    /\ \A i \in Jobs : wk[i].pc = "turn" => xfer.mode = "stream"
    /\ \A i \in Jobs : wk[i].pc = "put" => xfer.mode = "download"

\* A cancel finds the files of every worker that is reading: those it listed,
\* and those listed after it, which abort themselves (track).
CancelFinds ==
    /\ \A i \in Jobs : wk[i].pc \in Listed => i \in xfer.files
    /\ hook.watcher # "watch" => xfer.aborted
    /\ hook.watcher = "abort" =>
          \A i \in Jobs : wk[i].pc \in Listed /\ handle[i] = "open" => i \in hook.list
    /\ hook.watcher = "done" => \A i \in Jobs : wk[i].pc \in Listed => handle[i] # "open"

\* A worker lands the piece it had when the cancel came, and no other.
OneLate ==
    \A i \in Jobs :
        out.late[i] # 0 => out.late[i] = 1 /\ xfer.aborted /\ wk[i].pc \notin {"put", "turn"}

BulkInv ==
    BulkType /\ InSpan /\ LandedOnce /\ StreamInOrder /\ Joined /\ CancelFinds /\ OneLate

-----------------------------------------------------------------------------
(* What the steps have in common.                                          *)

\* A worker goes to another place, with what it has.
LEMMA GotoMoves ==
    ASSUME BulkType, NEW i \in Jobs, NEW pc \in WorkerPlaces, Goto(i, pc)
    PROVE  /\ wk' \in [Jobs -> WorkerRecord]
           /\ \A j \in Jobs : wk'[j].done = wk[j].done
           /\ \A j \in Jobs : wk'[j].pc = IF j = i THEN pc ELSE wk[j].pc
<1>1. wk' = [wk EXCEPT ![i].pc = pc] /\ wk \in [Jobs -> WorkerRecord]
  BY DEF BulkType, Goto
<1> QED
  BY <1>1 DEF WorkerRecord

\* The bytes are as they were.
SameBytes ==
    /\ out'.landed = out.landed
    /\ xfer'.moved = xfer.moved /\ xfer'.cursor = xfer.cursor /\ xfer'.mode = xfer.mode
    /\ \A j \in Jobs : wk'[j].done = wk[j].done

LEMMA BytesStay ==
    ASSUME BulkInv, SameBytes
    PROVE  LandedOnce' /\ StreamInOrder'
<1>1. LandedOnce'
  <2>1. ASSUME NEW j \in Jobs, NEW n PROVE Wrote(j, n) => Wrote(j, n)'
    BY DEF SameBytes, Wrote
  <2>2. \A k \in 1 .. Len(out'.landed) : \E j \in Jobs : Wrote(j, out.landed[k])'
    BY <2>1 DEF BulkInv, LandedOnce, SameBytes
  <2> QED
    BY <2>2 DEF BulkInv, LandedOnce, SameBytes
<1>2. StreamInOrder'
  BY DEF BulkInv, StreamInOrder, SameBytes
<1> QED
  BY <1>1, <1>2

\* A worker ends: its file is let go of, and the others are told of a failure.
LEMMA EndsKeeps ==
    ASSUME BulkInv, NEW i \in Jobs, NEW pc \in Over, Ends(i, pc), UNCHANGED <<hook, out>>
    PROVE  BulkInv'
<1> USE DEF BulkInv
<1>1. /\ wk' \in [Jobs -> WorkerRecord]
      /\ \A j \in Jobs : wk'[j].done = wk[j].done
      /\ \A j \in Jobs : wk'[j].pc = IF j = i THEN pc ELSE wk[j].pc
  BY GotoMoves DEF Ends, WorkerPlaces
<1>2. /\ xfer' \in XferRecord
      /\ xfer'.files = xfer.files \ {i}
      /\ xfer'.mode = xfer.mode /\ xfer'.moved = xfer.moved /\ xfer'.cursor = xfer.cursor
      /\ xfer'.aborted = xfer.aborted /\ xfer'.result = xfer.result
  BY DEF Ends, Failed, BulkType, XferRecord
<1>3. handle' = [handle EXCEPT ![i] = "none"] /\ handle \in [Jobs -> {"none", "open", "aborted"}]
  BY DEF Ends, Close, BulkType
<1>4. BulkType'
  BY <1>1, <1>2, <1>3 DEF BulkType
<1>5. pc \notin Loaded /\ pc \notin Listed /\ pc \in Over
  BY DEF Loaded, Listed, Over
<1>6. InSpan'
  BY <1>1, <1>5 DEF InSpan
<1>7. LandedOnce' /\ StreamInOrder'
  BY <1>1, <1>2, BytesStay DEF SameBytes
<1>8. Joined'
  BY <1>1, <1>2 DEF Joined, Over
<1>9. CancelFinds'
  BY <1>1, <1>2, <1>3, <1>5 DEF CancelFinds
<1>10. OneLate'
  BY <1>1, <1>2 DEF OneLate, Over
<1> QED
  BY <1>4, <1>6, <1>7, <1>8, <1>9, <1>10

-----------------------------------------------------------------------------
(* The steps of one worker.                                                *)

\* Opening again, and the pause before it: nobody else is concerned.
LEMMA OpeningKeeps ==
    ASSUME BulkInv, NEW i \in Jobs, Open(i) \/ Pause(i)
    PROVE  BulkInv'
<1> USE DEF BulkInv
<1>1. PICK pc \in {"opening", "open"} :
        /\ Goto(i, pc) /\ wk[i].pc \in {"open", "pause"} /\ UNCHANGED <<xfer, handle, hook, out>>
  BY DEF Open, Pause
<1>2. /\ wk' \in [Jobs -> WorkerRecord]
      /\ \A j \in Jobs : wk'[j].done = wk[j].done
      /\ \A j \in Jobs : wk'[j].pc = IF j = i THEN pc ELSE wk[j].pc
  BY <1>1, GotoMoves DEF WorkerPlaces
<1>3. BulkType'
  BY <1>1, <1>2 DEF BulkType
<1>4. InSpan'
  BY <1>1, <1>2 DEF InSpan, Loaded
<1>5. LandedOnce' /\ StreamInOrder'
  BY <1>1, <1>2, BytesStay DEF SameBytes
<1>6. Joined'
  BY <1>1, <1>2 DEF Joined, Over
<1>7. CancelFinds'
  BY <1>1, <1>2 DEF CancelFinds, Listed
<1>8. OneLate'
  BY <1>1, <1>2 DEF OneLate
<1> QED
  BY <1>3, <1>4, <1>5, <1>6, <1>7, <1>8

LEMMA OpenedKeeps ==
    ASSUME BulkInv, NEW i \in Jobs, Opened(i)
    PROVE  BulkInv'
<1> USE DEF BulkInv
<1>1. /\ wk' \in [Jobs -> WorkerRecord]
      /\ \A j \in Jobs : wk'[j].done = wk[j].done
      /\ \A j \in Jobs : wk'[j].pc = IF j = i THEN "track" ELSE wk[j].pc
  BY GotoMoves DEF Opened, WorkerPlaces
<1>2. wk[i].pc = "opening" /\ UNCHANGED <<xfer, hook, out>>
  BY DEF Opened
<1>3. handle' = [handle EXCEPT ![i] = "open"] /\ handle \in [Jobs -> {"none", "open", "aborted"}]
  BY DEF Opened, BulkType
<1>4. BulkType'
  BY <1>1, <1>2, <1>3 DEF BulkType
<1>5. InSpan'
  BY <1>1 DEF InSpan, Loaded
<1>6. LandedOnce' /\ StreamInOrder'
  BY <1>1, <1>2, BytesStay DEF SameBytes
<1>7. Joined'
  BY <1>1, <1>2 DEF Joined, Over
<1>8. CancelFinds'
  BY <1>1, <1>2, <1>3 DEF CancelFinds, Listed
<1>9. OneLate'
  BY <1>1, <1>2 DEF OneLate
<1> QED
  BY <1>4, <1>5, <1>6, <1>7, <1>8, <1>9

LEMMA TrackKeeps ==
    ASSUME BulkInv, NEW i \in Jobs, Track(i)
    PROVE  BulkInv'
<1> USE DEF BulkInv
<1>1. /\ wk' \in [Jobs -> WorkerRecord]
      /\ \A j \in Jobs : wk'[j].done = wk[j].done
      /\ \A j \in Jobs : wk'[j].pc = IF j = i THEN "read" ELSE wk[j].pc
  BY GotoMoves DEF Track, WorkerPlaces
<1>2. wk[i].pc = "track" /\ UNCHANGED <<hook, out>>
  BY DEF Track
<1>3. /\ handle' = [handle EXCEPT ![i] = IF xfer.aborted THEN "aborted" ELSE @]
      /\ handle \in [Jobs -> {"none", "open", "aborted"}]
  BY DEF Track, BulkType
<1>4. /\ xfer' \in XferRecord
      /\ xfer'.files = xfer.files \cup {i}
      /\ xfer'.mode = xfer.mode /\ xfer'.moved = xfer.moved /\ xfer'.cursor = xfer.cursor
      /\ xfer'.aborted = xfer.aborted /\ xfer'.result = xfer.result
  <2>1. i \in Nat
    BY SpansApart
  <2> QED
    BY <2>1 DEF Track, BulkType, XferRecord
<1>5. BulkType'
  BY <1>1, <1>2, <1>3, <1>4 DEF BulkType
<1>6. InSpan'
  BY <1>1 DEF InSpan, Loaded
<1>7. LandedOnce' /\ StreamInOrder'
  BY <1>1, <1>2, <1>4, BytesStay DEF SameBytes
<1>8. Joined'
  BY <1>1, <1>2, <1>4 DEF Joined, Over
<1>9. CancelFinds'
  BY <1>1, <1>2, <1>3, <1>4 DEF CancelFinds, Listed
<1>10. OneLate'
  BY <1>1, <1>2, <1>4 DEF OneLate
<1> QED
  BY <1>5, <1>6, <1>7, <1>8, <1>9, <1>10

LEMMA ReceiveKeeps ==
    ASSUME BulkInv, NEW i \in Jobs, Receive(i)
    PROVE  BulkInv'
<1> USE DEF BulkInv
<1>1. CASE ~(wk[i].done < spans[i].len /\ At(i) < out.end)
  <2>1. Ends(i, "done") /\ UNCHANGED <<hook, out>>
    BY <1>1 DEF Receive
  <2> QED
    BY <2>1, EndsKeeps DEF Over
<1>2. CASE wk[i].done < spans[i].len /\ At(i) < out.end
  <2>1. Goto(i, "check") /\ UNCHANGED <<xfer, handle, hook, out>> /\ wk[i].pc = "read"
    BY <1>2 DEF Receive
  <2>2. /\ wk' \in [Jobs -> WorkerRecord]
        /\ \A j \in Jobs : wk'[j].done = wk[j].done
        /\ \A j \in Jobs : wk'[j].pc = IF j = i THEN "check" ELSE wk[j].pc
    BY <2>1, GotoMoves DEF WorkerPlaces
  <2>3. BulkType'
    BY <2>1, <2>2 DEF BulkType
  <2>4. InSpan'
    BY <1>2, <2>1, <2>2 DEF InSpan, Loaded
  <2>5. LandedOnce' /\ StreamInOrder'
    BY <2>1, <2>2, BytesStay DEF SameBytes
  <2>6. Joined'
    BY <2>1, <2>2 DEF Joined, Over
  <2>7. CancelFinds'
    BY <2>1, <2>2 DEF CancelFinds, Listed
  <2>8. OneLate'
    BY <2>1, <2>2 DEF OneLate
  <2> QED
    BY <2>3, <2>4, <2>5, <2>6, <2>7, <2>8
<1> QED
  BY <1>1, <1>2

LEMMA CheckKeeps ==
    ASSUME BulkInv, NEW i \in Jobs, Check(i)
    PROVE  BulkInv'
<1> USE DEF BulkInv
<1> DEFINE sees == hook.says /\ ~xfer.aborted
           x == IF sees THEN StopNow(xfer) ELSE xfer
           gone == [x EXCEPT !.files = @ \ {i}]
           aborts == AbortAll(IF x = xfer THEN {} ELSE xfer.files)
<1>1. wk[i].pc = "check" /\ UNCHANGED <<hook, out>>
  BY DEF Check
<1>2. /\ x \in XferRecord /\ x.files = xfer.files
      /\ x.mode = xfer.mode /\ x.moved = xfer.moved /\ x.cursor = xfer.cursor
      /\ x.result = xfer.result /\ (xfer.aborted => x.aborted)
  BY DEF StopNow, BulkType, XferRecord
<1>3. CASE x.halt \/ x.aborted
  <2> DEFINE pc == IF x.aborted THEN "failed" ELSE "stopped"
  <2>1. /\ Goto(i, pc)
        /\ xfer' = IF x.aborted THEN Failed(gone) ELSE gone
        /\ handle' = [aborts EXCEPT ![i] = "none"]
    BY <1>3 DEF Check
  <2>2. pc \in WorkerPlaces /\ pc \in Over /\ pc \notin Loaded /\ pc \notin Listed
    BY DEF WorkerPlaces, Over, Loaded, Listed
  <2> HIDE DEF pc
  <2>3. /\ wk' \in [Jobs -> WorkerRecord]
        /\ \A j \in Jobs : wk'[j].done = wk[j].done
        /\ \A j \in Jobs : wk'[j].pc = IF j = i THEN pc ELSE wk[j].pc
    BY <2>1, <2>2, GotoMoves
  <2>4. /\ xfer' \in XferRecord /\ xfer'.files = xfer.files \ {i}
        /\ xfer'.mode = xfer.mode /\ xfer'.moved = xfer.moved /\ xfer'.cursor = xfer.cursor
        /\ xfer'.result = xfer.result /\ (xfer.aborted => xfer'.aborted)
    <3> HIDE DEF x
    <3> QED
      BY <1>2, <2>1 DEF Failed, XferRecord
  <2>5. /\ handle' \in [Jobs -> {"none", "open", "aborted"}]
        /\ \A j \in Jobs : handle'[j] = "open" => handle[j] = "open"
    <3>1. /\ aborts \in [Jobs -> {"none", "open", "aborted"}]
          /\ \A j \in Jobs : aborts[j] = "open" => handle[j] = "open"
      BY DEF AbortAll, BulkType
    <3> HIDE DEF aborts
    <3> QED
      BY <2>1, <3>1
  <2>6. BulkType'
    BY <1>1, <2>3, <2>4, <2>5 DEF BulkType
  <2>7. InSpan'
    BY <2>2, <2>3 DEF InSpan
  <2>8. LandedOnce' /\ StreamInOrder'
    BY <1>1, <2>3, <2>4, BytesStay DEF SameBytes
  <2>9. Joined'
    BY <2>2, <2>3, <2>4 DEF Joined, Over
  <2>10. CancelFinds'
    BY <1>1, <2>2, <2>3, <2>4, <2>5 DEF CancelFinds
  <2>11. OneLate'
    BY <1>1, <2>2, <2>3, <2>4 DEF OneLate, Over
  <2> QED
    BY <2>6, <2>7, <2>8, <2>9, <2>10, <2>11
<1>4. CASE ~(x.halt \/ x.aborted)
  <2>1. x = xfer
    BY <1>4 DEF StopNow, BulkType, XferRecord
  <2>2. PICK pc \in {"turn", "put"} : /\ pc = IF xfer.mode = "stream" THEN "turn" ELSE "put"
                                      /\ Goto(i, pc) /\ UNCHANGED <<xfer, handle>>
    BY <1>4, <2>1 DEF Check
  <2>3. /\ wk' \in [Jobs -> WorkerRecord]
        /\ \A j \in Jobs : wk'[j].done = wk[j].done
        /\ \A j \in Jobs : wk'[j].pc = IF j = i THEN pc ELSE wk[j].pc
    BY <2>2, GotoMoves DEF WorkerPlaces
  <2>4. ~xfer.aborted /\ xfer.mode \in {"download", "stream"}
    BY <1>4, <2>1 DEF BulkType, XferRecord
  <2>5. BulkType'
    BY <1>1, <2>2, <2>3 DEF BulkType
  <2>6. InSpan'
    BY <1>1, <2>2, <2>3 DEF InSpan, Loaded
  <2>7. LandedOnce' /\ StreamInOrder'
    BY <1>1, <2>2, <2>3, BytesStay DEF SameBytes
  <2>8. Joined'
    BY <1>1, <2>2, <2>3, <2>4 DEF Joined, Over
  <2>9. CancelFinds'
    BY <1>1, <2>2, <2>3 DEF CancelFinds, Listed
  <2>10. OneLate'
    BY <1>1, <2>2, <2>3, <2>4 DEF OneLate
  <2> QED
    BY <2>5, <2>6, <2>7, <2>8, <2>9, <2>10
<1> QED
  BY <1>3, <1>4

\* A piece lands: in the worker's own span, where nobody else has written,
\* and for stream() where the last one ended.
LEMMA LandsKeeps ==
    ASSUME BulkInv, NEW i \in Jobs, NEW ordered \in BOOLEAN, Lands(i, ordered),
           wk[i].pc \in {"put", "turn"}, ordered <=> wk[i].pc = "turn",
           ordered => xfer.cursor = At(i)
    PROVE  BulkInv'
<1> USE DEF BulkInv
<1>1. PICK at \in Nat : at = At(i) /\ at = spans[i].start + wk[i].done
  BY SpansApart DEF At, BulkType, WorkerRecord
<1>2. /\ wk' \in [Jobs -> WorkerRecord]
      /\ \A j \in Jobs : wk'[j].done = IF j = i THEN wk[j].done + 1 ELSE wk[j].done
      /\ \A j \in Jobs : wk'[j].pc = IF j = i THEN "read" ELSE wk[j].pc
  <2>1. wk' = [wk EXCEPT ![i].pc = "read", ![i].done = @ + 1] /\ wk \in [Jobs -> WorkerRecord]
    BY DEF Lands, BulkType
  <2> QED
    BY <2>1 DEF WorkerRecord, WorkerPlaces
<1>3. /\ xfer' \in XferRecord
      /\ xfer'.moved = xfer.moved + 1 /\ xfer'.cursor = IF ordered THEN at + 1 ELSE xfer.cursor
      /\ xfer'.files = xfer.files /\ xfer'.mode = xfer.mode
      /\ xfer'.aborted = xfer.aborted /\ xfer'.result = xfer.result
  <2>1. PICK m \in Nat, c \in Nat : m = xfer.moved + 1 /\ c = IF ordered THEN at + 1 ELSE xfer.cursor
    BY <1>1 DEF BulkType, XferRecord
  <2>2. xfer' = [xfer EXCEPT !.moved = m, !.cursor = c] /\ xfer \in XferRecord
    BY <1>1, <2>1 DEF Lands, BulkType
  <2> QED
    BY <2>1, <2>2 DEF XferRecord
<1>4. /\ out' \in OutRecord
      /\ out'.landed = Append(out.landed, at)
      /\ \A j \in Jobs : out'.late[j] = IF j = i /\ xfer.aborted THEN out.late[j] + 1 ELSE out.late[j]
  <2>1. out' = [out EXCEPT !.landed = Append(@, at), !.late[i] = IF xfer.aborted THEN @ + 1 ELSE @]
    BY <1>1 DEF Lands
  <2>2. out \in OutRecord /\ out.late \in [Jobs -> Nat] /\ out.landed \in Seq(Nat)
    BY DEF BulkType, OutRecord
  <2> DEFINE late == [out.late EXCEPT ![i] = IF xfer.aborted THEN @ + 1 ELSE @]
             landed == Append(out.landed, at)
  <2>3. /\ late \in [Jobs -> Nat]
        /\ \A j \in Jobs : late[j] = IF j = i /\ xfer.aborted THEN out.late[j] + 1 ELSE out.late[j]
    BY <2>2
  <2>4. landed \in Seq(Nat)
    BY <2>2
  <2>5. out' = [out EXCEPT !.landed = landed, !.late = late]
    BY <2>1, <2>2 DEF OutRecord
  <2> HIDE DEF late, landed
  <2>6. out' \in OutRecord /\ out'.landed = landed /\ out'.late = late
    BY <2>2, <2>3, <2>4, <2>5 DEF OutRecord
  <2> QED
    BY <2>3, <2>6 DEF landed
<1>5. UNCHANGED <<handle, hook>> /\ xfer.result = "running"
  BY DEF Lands, Joined, Over
<1>6. BulkType'
  BY <1>2, <1>3, <1>4, <1>5 DEF BulkType
<1>7. wk[i].done < spans[i].len /\ wk[i].done \in Nat /\ spans[i].len \in Int
  BY SpansApart DEF InSpan, Loaded, BulkType, WorkerRecord
<1>8. InSpan'
  BY <1>2, <1>7, SpansApart DEF InSpan, Loaded, BulkType, WorkerRecord
<1>9. /\ out.landed \in Seq(Nat) /\ Len(out.landed) \in Nat
      /\ Len(out'.landed) = Len(out.landed) + 1
      /\ \A k \in 1 .. Len(out.landed) : out'.landed[k] = out.landed[k] /\ out.landed[k] \in Nat
      /\ out'.landed[Len(out.landed) + 1] = at
  BY <1>4 DEF BulkType, OutRecord
<1>10. \A k \in 1 .. Len(out.landed) : out.landed[k] # at
  <2> SUFFICES ASSUME NEW k \in 1 .. Len(out.landed), out.landed[k] = at PROVE FALSE
    OBVIOUS
  <2>1. PICK j \in Jobs : spans[j].start <= at /\ at < spans[j].start + wk[j].done
    BY DEF LandedOnce, Wrote
  <2>2. /\ spans[j].start \in Nat /\ spans[j].len \in Int /\ wk[j].done \in Nat
        /\ j \in Nat /\ i \in Nat /\ spans[i].start \in Nat
    BY SpansApart DEF BulkType, WorkerRecord
  <2>3. wk[j].done <= spans[j].len
    BY <2>1, <2>2 DEF InSpan
  <2>4. j # i
    BY <1>1, <2>1, <2>2
  <2>5. CASE j < i
    <3>1. spans[j].start + spans[j].len <= spans[i].start
      BY <2>5, SpansApart
    <3>2. spans[i].start <= at
      BY <1>1, <1>7, <2>2
    <3>3. at < spans[j].start + spans[j].len
      BY <2>1, <2>2, <2>3
    <3> QED
      BY <3>1, <3>2, <3>3, <2>2
  <2>6. CASE i < j
    <3>1. spans[i].start + spans[i].len <= spans[j].start
      BY <2>6, SpansApart
    <3> QED
      BY <3>1, <1>1, <1>7, <2>1, <2>2, <2>3, SMTT(40)
  <2> QED
    BY <2>2, <2>4, <2>5, <2>6
<1>11. LandedOnce'
  <2>1. Len(out'.landed) = xfer'.moved
    BY <1>3, <1>9 DEF LandedOnce
  <2>2. ASSUME NEW k \in 1 .. Len(out'.landed)
        PROVE  \E j \in Jobs : Wrote(j, out.landed[k])'
    <3>1. CASE k = Len(out.landed) + 1
      <4>1. spans[i].start <= at /\ at < spans[i].start + wk'[i].done
        BY <1>1, <1>2, <1>7, SpansApart
      <4> QED
        BY <3>1, <4>1, <1>9 DEF Wrote
    <3>2. CASE k # Len(out.landed) + 1
      <4>1. k \in 1 .. Len(out.landed)
        BY <3>2, <2>2, <1>9
      <4>2. PICK j \in Jobs : Wrote(j, out.landed[k])
        BY <4>1 DEF LandedOnce
      <4>3. wk'[j].done >= wk[j].done /\ wk[j].done \in Nat /\ wk'[j].done \in Nat /\ spans[j].start \in Nat
        BY <1>2, SpansApart DEF BulkType, WorkerRecord
      <4>4. out.landed[k] \in Nat /\ out'.landed[k] = out.landed[k]
        BY <4>1, <1>9
      <4>5. spans[j].start <= out'.landed[k] /\ out'.landed[k] < spans[j].start + wk'[j].done
        BY <4>2, <4>3, <4>4 DEF Wrote
      <4> QED
        BY <4>5 DEF Wrote
    <3> QED
      BY <3>1, <3>2
  <2>3. ASSUME NEW k \in 1 .. Len(out'.landed), NEW l \in 1 .. Len(out'.landed),
               out'.landed[k] = out'.landed[l]
        PROVE  k = l
    <3> DEFINE n == Len(out.landed)
    <3>1. k \in 1 .. n \/ k = n + 1
      BY <1>9
    <3>2. l \in 1 .. n \/ l = n + 1
      BY <1>9
    <3>3. CASE k \in 1 .. n /\ l \in 1 .. n
      BY <2>3, <3>3, <1>9 DEF LandedOnce
    <3>4. CASE k \in 1 .. n /\ l = n + 1
      BY <2>3, <3>4, <1>9, <1>10
    <3>5. CASE k = n + 1 /\ l \in 1 .. n
      BY <2>3, <3>5, <1>9, <1>10
    <3> QED
      BY <3>1, <3>2, <3>3, <3>4, <3>5
  <2> QED
    BY <2>1, <2>2, <2>3 DEF LandedOnce
<1>12. StreamInOrder'
  <2> SUFFICES ASSUME xfer.mode = "stream"
               PROVE  /\ xfer'.cursor = xfer'.moved
                      /\ \A k \in 1 .. Len(out'.landed) : out'.landed[k] = k - 1
    BY <1>3 DEF StreamInOrder
  <2>1. wk[i].pc = "turn" /\ ordered /\ xfer.cursor = at
    BY <1>1 DEF Joined
  <2>2. xfer.moved = at /\ Len(out.landed) = at
    BY <2>1 DEF StreamInOrder, LandedOnce
  <2> QED
    BY <1>3, <1>9, <2>1, <2>2 DEF StreamInOrder
<1>13. Joined'
  BY <1>2, <1>3, <1>5 DEF Joined
<1>14. CancelFinds'
  BY <1>2, <1>3, <1>5 DEF CancelFinds, Listed
<1>15. OneLate'
  <2>1. out.late[i] = 0
    BY DEF OneLate
  <2> QED
    BY <1>2, <1>3, <1>4, <2>1 DEF OneLate
<1> QED
  BY <1>6, <1>8, <1>11, <1>12, <1>13, <1>14, <1>15

LEMMA PutKeeps ==
    ASSUME BulkInv, NEW i \in Jobs, Put(i) \/ Turn(i)
    PROVE  BulkInv'
<1>1. CASE Put(i) /\ Lands(i, FALSE)
  BY <1>1, LandsKeeps DEF Put
<1>2. CASE Turn(i) /\ ~xfer.abandoned
  <2>1. Lands(i, TRUE) /\ wk[i].pc = "turn" /\ xfer.cursor = At(i)
    BY <1>2 DEF Turn
  <2> QED
    BY <2>1, LandsKeeps
<1>3. CASE Ends(i, "failed") /\ UNCHANGED <<hook, out>>
  BY <1>3, EndsKeeps DEF Over
<1> QED
  BY <1>1, <1>2, <1>3 DEF Put, Turn

\* The connection is lost: a worker that resumes does so where it had got.
LEMMA LostKeeps ==
    ASSUME BulkInv, NEW i \in Jobs, Lost(i)
    PROVE  BulkInv'
<1> USE DEF BulkInv
<1>1. CASE Ends(i, "failed")
  <2>1. UNCHANGED <<hook, out>>
    BY DEF Lost
  <2> QED
    BY <1>1, <2>1, EndsKeeps DEF Over
<1>2. CASE ~Ends(i, "failed")
  <2>1. /\ Goto(i, "pause") /\ Close(i) /\ ~xfer.aborted
        /\ wk[i].pc \in {"opening", "read"} /\ UNCHANGED <<hook, out>>
        /\ xfer' = [xfer EXCEPT !.files = @ \ {i}, !.losses = @ + 1]
    BY <1>2 DEF Lost
  <2>2. /\ wk' \in [Jobs -> WorkerRecord]
        /\ \A j \in Jobs : wk'[j].done = wk[j].done
        /\ \A j \in Jobs : wk'[j].pc = IF j = i THEN "pause" ELSE wk[j].pc
    BY <2>1, GotoMoves DEF WorkerPlaces
  <2>3. /\ xfer' \in XferRecord /\ xfer'.files = xfer.files \ {i}
        /\ xfer'.mode = xfer.mode /\ xfer'.moved = xfer.moved /\ xfer'.cursor = xfer.cursor
        /\ xfer'.result = xfer.result /\ xfer'.aborted = xfer.aborted
    <3>1. PICK n \in Nat : n = xfer.losses + 1
      BY DEF BulkType, XferRecord
    <3>2. xfer' = [xfer EXCEPT !.files = @ \ {i}, !.losses = n] /\ xfer \in XferRecord
      BY <2>1, <3>1 DEF BulkType
    <3> QED
      BY <3>2 DEF XferRecord
  <2>4. handle' = [handle EXCEPT ![i] = "none"] /\ handle \in [Jobs -> {"none", "open", "aborted"}]
    BY <2>1 DEF Close, BulkType
  <2>5. BulkType'
    BY <2>1, <2>2, <2>3, <2>4 DEF BulkType
  <2>6. InSpan'
    BY <2>1, <2>2 DEF InSpan, Loaded
  <2>7. LandedOnce' /\ StreamInOrder'
    BY <2>1, <2>2, <2>3, BytesStay DEF SameBytes
  <2>8. Joined'
    BY <2>1, <2>2, <2>3 DEF Joined, Over
  <2>9. CancelFinds'
    BY <2>1, <2>2, <2>3, <2>4 DEF CancelFinds, Listed
  <2>10. OneLate'
    BY <2>1, <2>2, <2>3 DEF OneLate
  <2> QED
    BY <2>5, <2>6, <2>7, <2>8, <2>9, <2>10
<1> QED
  BY <1>1, <1>2

-----------------------------------------------------------------------------
(* The cancel, the file and the join.                                      *)

LEMMA WatcherStopsKeeps ==
    ASSUME BulkInv, WatcherStops
    PROVE  BulkInv'
<1> USE DEF BulkInv
<1>1. UNCHANGED <<wk, handle, out>>
  BY DEF WatcherStops
<1>2. /\ xfer' \in XferRecord /\ xfer'.aborted /\ xfer'.files = xfer.files
      /\ xfer'.mode = xfer.mode /\ xfer'.moved = xfer.moved /\ xfer'.cursor = xfer.cursor
      /\ xfer'.result = xfer.result
  BY DEF WatcherStops, BulkType, XferRecord
<1>3. hook' \in HookRecord /\ hook'.watcher = "abort" /\ hook'.list = xfer.files
  BY DEF WatcherStops, BulkType, HookRecord, XferRecord
<1>4. BulkType'
  BY <1>1, <1>2, <1>3 DEF BulkType
<1>5. InSpan'
  BY <1>1 DEF InSpan
<1>6. LandedOnce' /\ StreamInOrder'
  BY <1>1, <1>2, BytesStay DEF SameBytes
<1>7. Joined'
  BY <1>1, <1>2 DEF Joined
<1>8. CancelFinds'
  BY <1>1, <1>2, <1>3 DEF CancelFinds
<1>9. OneLate'
  BY <1>1, <1>2 DEF OneLate
<1> QED
  BY <1>4, <1>5, <1>6, <1>7, <1>8, <1>9

LEMMA WatcherAbortsKeeps ==
    ASSUME BulkInv, WatcherAborts
    PROVE  BulkInv'
<1> USE DEF BulkInv
<1>1. UNCHANGED <<wk, out>> /\ hook.watcher = "abort"
  BY DEF WatcherAborts
<1>2. /\ xfer' \in XferRecord /\ xfer'.aborted = xfer.aborted /\ xfer'.files = xfer.files
      /\ xfer'.mode = xfer.mode /\ xfer'.moved = xfer.moved /\ xfer'.cursor = xfer.cursor
      /\ xfer'.result = xfer.result
  BY DEF WatcherAborts, BulkType, XferRecord
<1>3. hook' \in HookRecord /\ hook'.watcher = "done"
  BY DEF WatcherAborts, BulkType, HookRecord
<1>4. /\ handle' \in [Jobs -> {"none", "open", "aborted"}]
      /\ \A j \in Jobs : handle'[j] = "open" => handle[j] = "open" /\ j \notin hook.list
  BY DEF WatcherAborts, AbortAll, BulkType
<1>5. BulkType'
  BY <1>1, <1>2, <1>3, <1>4 DEF BulkType
<1>6. InSpan'
  BY <1>1 DEF InSpan
<1>7. LandedOnce' /\ StreamInOrder'
  BY <1>1, <1>2, BytesStay DEF SameBytes
<1>8. Joined'
  BY <1>1, <1>2 DEF Joined
<1>9. CancelFinds'
  BY <1>1, <1>2, <1>3, <1>4 DEF CancelFinds
<1>10. OneLate'
  BY <1>1, <1>2 DEF OneLate
<1> QED
  BY <1>5, <1>6, <1>7, <1>8, <1>9, <1>10

\* The hook speaks, or another client cuts the file: no worker has moved.
LEMMA OutsideKeeps ==
    ASSUME BulkInv, AskStop \/ Cut
    PROVE  BulkInv'
<1> USE DEF BulkInv
<1>1. UNCHANGED <<xfer, wk, handle>>
  BY DEF AskStop, Cut
<1>2. hook' \in HookRecord /\ hook'.watcher = hook.watcher /\ hook'.list = hook.list
  BY DEF AskStop, Cut, BulkType, HookRecord
<1>3. out' \in OutRecord /\ out'.landed = out.landed /\ out'.late = out.late
  <2>1. CASE AskStop
    BY <2>1 DEF AskStop, BulkType
  <2>2. CASE Cut
    <3>1. PICK n \in 0 .. Size - 1 : out' = [out EXCEPT !.end = n]
      BY <2>2 DEF Cut
    <3>2. n \in Nat /\ out \in OutRecord
      BY TransferAssumption DEF BulkType
    <3> QED
      BY <3>1, <3>2 DEF OutRecord
  <2> QED
    BY <2>1, <2>2
<1>4. BulkType'
  BY <1>1, <1>2, <1>3 DEF BulkType
<1>5. InSpan'
  BY <1>1 DEF InSpan
<1>6. LandedOnce' /\ StreamInOrder'
  BY <1>1, <1>3, BytesStay DEF SameBytes
<1>7. Joined'
  BY <1>1 DEF Joined
<1>8. CancelFinds'
  BY <1>1, <1>2 DEF CancelFinds
<1>9. OneLate'
  BY <1>1, <1>3 DEF OneLate
<1> QED
  BY <1>4, <1>5, <1>6, <1>7, <1>8, <1>9

LEMMA JoinKeeps ==
    ASSUME BulkInv, Join
    PROVE  BulkInv'
<1> USE DEF BulkInv
<1>1. UNCHANGED <<wk, handle, hook, out>> /\ \A i \in Jobs : wk[i].pc \in Over
  BY DEF Join
<1>2. PICK r \in {"aborted", "failed", "short", "ok"} :
        xfer' = [xfer EXCEPT !.result = r] /\ (r = "ok" => xfer.moved = Size)
  BY DEF Join
<1>3. /\ xfer' \in XferRecord /\ xfer'.aborted = xfer.aborted /\ xfer'.files = xfer.files
      /\ xfer'.mode = xfer.mode /\ xfer'.moved = xfer.moved /\ xfer'.cursor = xfer.cursor
      /\ xfer'.result = r
  BY <1>2 DEF BulkType, XferRecord
<1>4. BulkType'
  BY <1>1, <1>3 DEF BulkType
<1>5. InSpan'
  BY <1>1 DEF InSpan
<1>6. LandedOnce' /\ StreamInOrder'
  BY <1>1, <1>3, BytesStay DEF SameBytes
<1>7. Joined'
  BY <1>1, <1>2, <1>3 DEF Joined
<1>8. CancelFinds'
  BY <1>1, <1>3 DEF CancelFinds
<1>9. OneLate'
  BY <1>1, <1>3 DEF OneLate
<1> QED
  BY <1>4, <1>5, <1>6, <1>7, <1>8, <1>9

-----------------------------------------------------------------------------

LEMMA BulkStarts == BulkInit => BulkInv
<1> SUFFICES ASSUME BulkInit PROVE BulkInv
  OBVIOUS
<1>1. /\ wk = [i \in Jobs |-> [pc |-> IF i = 1 THEN "read" ELSE "open", done |-> 0]]
      /\ handle = [i \in Jobs |-> IF i = 1 THEN "open" ELSE "none"]
      /\ hook = [says |-> FALSE, watcher |-> "watch", list |-> {}]
      /\ out = [landed |-> << >>, late |-> [i \in Jobs |-> 0], end |-> Size]
  BY DEF BulkInit
<1>2. /\ xfer \in XferRecord /\ xfer.files = {1} /\ xfer.moved = 0 /\ xfer.cursor = 0
      /\ xfer.result = "running"
  <2>1. PICK m \in {"download", "stream"} :
           xfer = [mode |-> m, aborted |-> FALSE, halt |-> FALSE, abandoned |-> FALSE, cursor |-> 0,
                   moved |-> 0, losses |-> 0, files |-> {1}, result |-> "running"]
    BY DEF BulkInit
  <2>2. {1} \in SUBSET Nat
    OBVIOUS
  <2> QED
    BY <2>1, <2>2 DEF XferRecord
<1>3. \A i \in Jobs : wk[i].pc = (IF i = 1 THEN "read" ELSE "open") /\ wk[i].done = 0
  BY <1>1
<1>4. BulkType
  <2>1. wk \in [Jobs -> WorkerRecord]
    BY <1>1 DEF WorkerRecord, WorkerPlaces
  <2>2. handle \in [Jobs -> {"none", "open", "aborted"}]
    BY <1>1
  <2>3. hook \in HookRecord
    BY <1>1 DEF HookRecord
  <2>4. out \in OutRecord
    <3>1. << >> \in Seq(Nat) /\ [i \in Jobs |-> 0] \in [Jobs -> Nat] /\ Size \in Nat
      BY TransferAssumption
    <3> QED
      BY <1>1, <3>1 DEF OutRecord
  <2> QED
    BY <1>2, <2>1, <2>2, <2>3, <2>4 DEF BulkType
<1>5. InSpan
  BY <1>3 DEF InSpan, Loaded
<1>6. LandedOnce /\ StreamInOrder
  BY <1>1, <1>2 DEF LandedOnce, StreamInOrder
<1>7. Joined
  BY <1>2, <1>3 DEF Joined
<1>8. CancelFinds
  BY <1>1, <1>2, <1>3 DEF CancelFinds, Listed
<1>9. OneLate
  BY <1>1 DEF OneLate
<1> QED
  BY <1>4, <1>5, <1>6, <1>7, <1>8, <1>9 DEF BulkInv

LEMMA BulkSteps == BulkInv /\ [BulkNext]_bulkVars => BulkInv'
<1> SUFFICES ASSUME BulkInv, [BulkNext]_bulkVars PROVE BulkInv'
  OBVIOUS
<1>1. ASSUME NEW i \in Jobs, Worker(i) PROVE BulkInv'
  BY <1>1, OpeningKeeps, OpenedKeeps, TrackKeeps, ReceiveKeeps, CheckKeeps, PutKeeps, LostKeeps
     DEF Worker
<1>2. CASE AskStop \/ Cut
  BY <1>2, OutsideKeeps
<1>3. CASE WatcherStops
  BY <1>3, WatcherStopsKeeps
<1>4. CASE WatcherAborts
  BY <1>4, WatcherAbortsKeeps
<1>5. CASE Join
  BY <1>5, JoinKeeps
<1>6. CASE UNCHANGED bulkVars
  <2>1. UNCHANGED <<xfer, wk, handle, hook, out>>
    BY <1>6 DEF bulkVars
  <2> QED
    BY <2>1 DEF BulkInv, BulkType, InSpan, LandedOnce, Wrote, StreamInOrder, Joined, CancelFinds, OneLate
<1> QED
  BY <1>1, <1>2, <1>3, <1>4, <1>5, <1>6 DEF BulkNext

\* A transfer that succeeded has written every unit: as many landed as the
\* file has, no two of them the same and none outside it.
LEMMA AllOfIt ==
    ASSUME BulkInv, xfer.result = "ok"
    PROVE  {out.landed[i] : i \in DOMAIN out.landed} = 0 .. Size - 1
<1> DEFINE S == 1 .. Size
           T == 0 .. Size - 1
           f == out.landed
<1>1. f \in Seq(Nat) /\ Len(f) = Size /\ DOMAIN f = S /\ Size \in Nat
  BY TransferAssumption DEF BulkInv, LandedOnce, Joined, BulkType, OutRecord
<1>2. ASSUME NEW k \in S PROVE f[k] \in T
  <2>1. PICK i \in Jobs : spans[i].start <= f[k] /\ f[k] < spans[i].start + wk[i].done
    BY <1>1 DEF BulkInv, LandedOnce, Wrote
  <2>2. f[k] \in Nat /\ wk[i].done \in Nat /\ spans[i].start \in Nat /\ spans[i].len \in Int
    BY <1>1, SpansApart DEF BulkInv, BulkType, WorkerRecord
  <2>3. wk[i].done <= spans[i].len /\ spans[i].start + spans[i].len <= Size
    BY <2>1, <2>2, SpansApart DEF BulkInv, InSpan
  <2> QED
    BY <1>1, <2>1, <2>2, <2>3, SMTT(40)
<1>3. f \in [S -> T]
  BY <1>1, <1>2
<1>4. \A k, l \in S : f[k] = f[l] => k = l
  BY <1>1 DEF BulkInv, LandedOnce
<1> HIDE DEF f
<1>5. f \in Injection(S, T)
  BY <1>3, <1>4 DEF Injection, IsInjective
<1>6. /\ IsFiniteSet(S) /\ IsFiniteSet(T)
      /\ Cardinality(S) = Size /\ Cardinality(T) = Size
  <2>1. IsFiniteSet(S) /\ Cardinality(S) = Size
    BY <1>1, FS_Interval
  <2>2. IsFiniteSet(T) /\ Cardinality(T) = Size
    BY <1>1, FS_Interval
  <2> QED
    BY <2>1, <2>2
<1>7. f \in Surjection(S, T)
  BY <1>5, <1>6, FS_Injection
<1> QED
  BY <1>1, <1>3, <1>7 DEF Surjection, f

\* However many connections the file is read over, and whatever is lost,
\* resumed, refused or called off on the way: download() and stream() write
\* no byte twice, stream() writes them in order, success means the whole file,
\* and a cancel leaves no worker reading a connection it did not reach
\* (_Transfer.span, ordered, track, stop_now).
THEOREM BulkIsRight == BulkSpec => []BulkRight
<1>1. BulkInv => BulkRight
  <2> SUFFICES ASSUME BulkInv PROVE BulkRight
    OBVIOUS
  <2>1. DOMAIN out.landed = 1 .. Len(out.landed)
    BY DEF BulkInv, BulkType, OutRecord
  <2>2. BytesOnce
    BY <2>1, AllOfIt DEF BytesOnce, BulkInv, LandedOnce, StreamInOrder
  <2>3. ASSUME NEW i \in Jobs PROVE out.late[i] <= 1
    BY DEF BulkInv, OneLate, BulkType, OutRecord
  <2>4. CancelReaches
    BY <2>3 DEF CancelReaches, BulkInv, CancelFinds, Listed
  <2> QED
    BY <2>2, <2>4 DEF BulkRight
<1> QED
  BY <1>1, BulkStarts, BulkSteps, PTL DEF BulkSpec

-----------------------------------------------------------------------------
(* The fetch from several replicas: the inductive invariant.               *)

FileUnits == 0 .. Length - 1
BlockRecord == [off : Nat, len : Int]
BlocksRecord == [pending : Seq(BlockRecord), busy : Int, stopped : BOOLEAN]
ReaderPlaces == {"open", "take", "read", "done", "ended", "failed", "stopped"}
ReaderRecord == [pc : ReaderPlaces, off : Nat, len : Int, moved : Nat]
Results == {"locate", "running", "failed", "exhausted", "ok"}

FetchType ==
    /\ blocks \in BlocksRecord
    /\ rdr \in [Readers -> ReaderRecord]
    /\ put \in [FileUnits -> {0, 1}]
    /\ fetch.moved \in Nat /\ fetch.result \in Results
    /\ DOMAIN fetch = {"replicas", "moved", "result"}

\* Unit u is in block b, in the hands of reader r, in the k-th block queued.
In(b, u) == b.off <= u /\ u < b.off + b.len
Holds(r, u) ==
    /\ rdr[r].pc \in {"read", "done"}
    /\ rdr[r].off + rdr[r].moved <= u /\ u < rdr[r].off + rdr[r].len
Pending == 1 .. Len(blocks.pending)
WaitsOn(k, u) == In(blocks.pending[k], u)

\* Blocks end where the file does.
InFile ==
    /\ \A k \in Pending : blocks.pending[k].len <= 0
                          \/ blocks.pending[k].off + blocks.pending[k].len <= Length
    /\ \A r \in Readers : rdr[r].len <= 0 \/ rdr[r].off + rdr[r].len <= Length

\* Until the copy is stopped each unit is in one place.
OnePlace(u) ==
    /\ put[u] = 1 \/ (\E r \in Readers : Holds(r, u)) \/ (\E k \in Pending : WaitsOn(k, u))
    /\ put[u] = 1 => (\A r \in Readers : ~Holds(r, u)) /\ (\A k \in Pending : ~WaitsOn(k, u))
    /\ \A r, s \in Readers : Holds(r, u) /\ Holds(s, u) => r = s
    /\ \A k, l \in Pending : WaitsOn(k, u) /\ WaitsOn(l, u) => k = l
    /\ \A r \in Readers, k \in Pending : ~(Holds(r, u) /\ WaitsOn(k, u))
Placed == Live /\ ~blocks.stopped => \A u \in FileUnits : OnePlace(u)

\* The counts are right, and a success was counted.
Written == {u \in FileUnits : put[u] = 1}
Counted ==
    /\ blocks.busy = Cardinality(Holding)
    /\ fetch.moved = Cardinality(Written)
    /\ fetch.result = "ok" => fetch.moved >= Length

\* Before it starts nothing is read, and nobody has a block.
Resting ==
    fetch.result = "locate" =>
        /\ ~blocks.stopped
        /\ \A u \in FileUnits : put[u] = 0
        /\ \A r \in Readers : rdr[r].pc = "open"

FetchInv == FetchType /\ InFile /\ Placed /\ Counted /\ Resting

-----------------------------------------------------------------------------
(* Sets and sequences.                                                     *)

LEMMA FiniteParts ==
    /\ IsFiniteSet(Readers)
    /\ IsFiniteSet(FileUnits) /\ Cardinality(FileUnits) = Length
<1>1. Min({Sources, Cardinality(Servers)}) \in Int
  <2>1. Sources \in Int /\ Cardinality(Servers) \in Int
    BY FS_CardinalityType, ReplicasAssumption
  <2> QED
    BY <2>1, MinOfTwo
<1>2. IsFiniteSet(Readers)
  BY <1>1, FS_Interval DEF Readers
<1>3. Length \in Nat /\ 0 \in Int /\ Length - 1 \in Int
  BY ReplicasAssumption
<1>4. IsFiniteSet(FileUnits) /\ Cardinality(FileUnits) = IF 0 > Length - 1 THEN 0 ELSE Length - 1 - 0 + 1
  BY <1>3, FS_Interval DEF FileUnits
<1> QED
  BY <1>2, <1>3, <1>4

LEMMA HoldingFinite == IsFiniteSet(Holding) /\ Cardinality(Holding) \in Nat
<1>1. Holding \in SUBSET Readers
  BY DEF Holding
<1> QED
  BY <1>1, FiniteParts, FS_Subset, FS_CardinalityType

LEMMA WrittenFinite == IsFiniteSet(Written) /\ Cardinality(Written) \in Nat
<1>1. Written \in SUBSET FileUnits
  BY DEF Written
<1> QED
  BY <1>1, FiniteParts, FS_Subset, FS_CardinalityType

\* What is at the front of a queue, and what is behind it.
LEMMA PushFront ==
    ASSUME NEW S, NEW q \in Seq(S), NEW b \in S
    PROVE  /\ <<b>> \o q \in Seq(S) /\ Len(<<b>> \o q) = Len(q) + 1
           /\ (<<b>> \o q)[1] = b
           /\ \A k \in 1 .. Len(q) : (<<b>> \o q)[k + 1] = q[k]
OBVIOUS

LEMMA PopFront ==
    ASSUME NEW S, NEW q \in Seq(S), q # << >>
    PROVE  /\ Tail(q) \in Seq(S) /\ Len(Tail(q)) = Len(q) - 1 /\ Len(q) \in Nat \ {0}
           /\ Head(q) = q[1] /\ Head(q) \in S
           /\ \A k \in 1 .. Len(q) - 1 : Tail(q)[k] = q[k + 1]
OBVIOUS

\* What \div comes to.
LEMMA Division ==
    ASSUME NEW a \in Nat, NEW b \in Nat \ {0}
    PROVE  /\ a \div b \in Nat
           /\ (a \div b) * b <= a /\ a < (a \div b) * b + b
BY Z3

-----------------------------------------------------------------------------
(* The steps that move no block.                                           *)

SameHolders ==
    \A r \in Readers :
        /\ rdr'[r].off = rdr[r].off /\ rdr'[r].len = rdr[r].len /\ rdr'[r].moved = rdr[r].moved
        /\ rdr'[r].pc \in {"read", "done"} <=> rdr[r].pc \in {"read", "done"}

LEMMA PlacesStay ==
    ASSUME FetchInv, UNCHANGED <<blocks, put>>, SameHolders, Live' => Live
    PROVE  InFile' /\ Placed' /\ Holding' = Holding /\ Written' = Written
<1>1. InFile'
  BY DEF FetchInv, InFile, Pending, SameHolders
<1>2. Placed'
  <2> SUFFICES ASSUME Live', ~blocks.stopped, NEW u \in FileUnits PROVE OnePlace(u)'
    BY DEF Placed
  <2>1. OnePlace(u)
    BY DEF FetchInv, Placed
  <2>2. \A r \in Readers : Holds(r, u)' <=> Holds(r, u)
    BY DEF SameHolders, Holds
  <2>3. Pending' = Pending /\ \A k \in Pending : WaitsOn(k, u)' <=> WaitsOn(k, u)
    BY DEF Pending, WaitsOn, In
  <2> QED
    BY <2>1, <2>2, <2>3 DEF OnePlace
<1>3. Holding' = Holding
  BY DEF Holding, SameHolders
<1>4. Written' = Written
  BY DEF Written
<1> QED
  BY <1>1, <1>2, <1>3, <1>4

\* A reader goes to another place with what it has.
LEMMA ReaderMoves ==
    ASSUME FetchType, NEW r \in Readers, NEW pc \in ReaderPlaces, rdr' = [rdr EXCEPT ![r].pc = pc]
    PROVE  /\ rdr' \in [Readers -> ReaderRecord]
           /\ \A s \in Readers : /\ rdr'[s].off = rdr[s].off /\ rdr'[s].len = rdr[s].len
                                 /\ rdr'[s].moved = rdr[s].moved
                                 /\ rdr'[s].pc = IF s = r THEN pc ELSE rdr[s].pc
<1>1. rdr \in [Readers -> ReaderRecord]
  BY DEF FetchType
<1> QED
  BY <1>1 DEF ReaderRecord

LEMMA VerdictKeeps ==
    ASSUME FetchInv, Locate \/ Together
    PROVE  FetchInv'
<1> USE DEF FetchInv
<1>1. UNCHANGED <<blocks, rdr, put>>
  BY DEF Locate, Together
<1>2. /\ fetch'.moved = fetch.moved /\ DOMAIN fetch' = {"replicas", "moved", "result"}
      /\ fetch'.result = fetch.result \/ (fetch'.result \in Results /\ fetch'.result \notin {"locate", "running"})
      /\ fetch'.result = "ok" => fetch'.moved >= Length \/ fetch.result = "ok"
  <2>1. CASE Locate
    <3>1. UNCHANGED fetch \/ fetch' = [fetch EXCEPT !.result = "failed"]
      BY <2>1 DEF Locate
    <3> QED
      BY <3>1 DEF FetchType, Results
  <2>2. CASE Together
    <3>1. PICK v \in {"failed", "exhausted", "ok"} :
             fetch' = [fetch EXCEPT !.result = v] /\ (v = "ok" => ~(fetch.moved < Length))
      BY <2>2 DEF Together
    <3>2. Length \in Nat
      BY ReplicasAssumption
    <3> QED
      BY <3>1, <3>2 DEF FetchType, Results
  <2> QED
    BY <2>1, <2>2
<1>3. InFile' /\ Placed' /\ Holding' = Holding /\ Written' = Written
  <2>1. SameHolders /\ (Live' => Live)
    BY <1>1, <1>2 DEF SameHolders, Live
  <2> QED
    BY <1>1, <2>1, PlacesStay
<1>4. FetchType'
  BY <1>1, <1>2 DEF FetchType
<1>5. Counted'
  BY <1>1, <1>2, <1>3 DEF Counted
<1>6. Resting'
  BY <1>1, <1>2 DEF Resting
<1> QED
  BY <1>3, <1>4, <1>5, <1>6

LEMMA OpenNextKeeps ==
    ASSUME FetchInv, NEW r \in Readers, OpenNext(r)
    PROVE  FetchInv'
<1> USE DEF FetchInv
<1>1. UNCHANGED <<blocks, put>> /\ Live /\ rdr[r].pc = "open"
  BY DEF OpenNext
<1>2. PICK pc \in {"ended", "open", "take"} : rdr' = [rdr EXCEPT ![r].pc = pc]
  BY DEF OpenNext
<1>3. /\ fetch'.moved = fetch.moved /\ fetch'.result = fetch.result
      /\ DOMAIN fetch' = {"replicas", "moved", "result"}
  <2>1. UNCHANGED fetch \/ \E v : fetch' = [fetch EXCEPT !.replicas = v]
    BY DEF OpenNext
  <2> QED
    BY <2>1 DEF FetchType
<1>4. /\ rdr' \in [Readers -> ReaderRecord]
      /\ \A s \in Readers : /\ rdr'[s].off = rdr[s].off /\ rdr'[s].len = rdr[s].len
                            /\ rdr'[s].moved = rdr[s].moved
                            /\ rdr'[s].pc = IF s = r THEN pc ELSE rdr[s].pc
  <2>1. pc \in ReaderPlaces /\ FetchType
    BY DEF ReaderPlaces
  <2> QED
    BY <1>2, <2>1, ReaderMoves
<1>5. InFile' /\ Placed' /\ Holding' = Holding /\ Written' = Written
  <2>1. SameHolders /\ (Live' => Live)
    BY <1>1, <1>3, <1>4 DEF SameHolders
  <2> QED
    BY <1>1, <2>1, PlacesStay
<1>6. FetchType'
  BY <1>1, <1>3, <1>4 DEF FetchType
<1>7. Counted'
  BY <1>1, <1>3, <1>5 DEF Counted
<1>8. Resting'
  BY <1>1, <1>3 DEF Resting, Live
<1> QED
  BY <1>5, <1>6, <1>7, <1>8

-----------------------------------------------------------------------------
(* The steps that move blocks and units.                                   *)

\* A block goes from the queue into a reader's hands.
LEMMA TakeKeeps ==
    ASSUME FetchInv, NEW r \in Readers, Take(r)
    PROVE  FetchInv'
<1> USE DEF FetchInv
<1>1. UNCHANGED <<fetch, put>> /\ Live /\ rdr[r].pc = "take"
  BY DEF Take
<1>2. Resting'
  BY <1>1 DEF Resting, Live
<1>3. CASE blocks.stopped \/ blocks.pending = << >>
  <2>1. rdr' = [rdr EXCEPT ![r].pc = "ended"] /\ UNCHANGED blocks
    BY <1>3 DEF Take
  <2>2. /\ rdr' \in [Readers -> ReaderRecord]
        /\ \A s \in Readers : /\ rdr'[s].off = rdr[s].off /\ rdr'[s].len = rdr[s].len
                              /\ rdr'[s].moved = rdr[s].moved
                              /\ rdr'[s].pc = IF s = r THEN "ended" ELSE rdr[s].pc
    <3>1. "ended" \in ReaderPlaces /\ FetchType
      BY DEF ReaderPlaces
    <3> QED
      BY <2>1, <3>1, ReaderMoves
  <2>3. InFile' /\ Placed' /\ Holding' = Holding /\ Written' = Written
    <3>1. SameHolders /\ (Live' => Live)
      BY <1>1, <2>2 DEF SameHolders
    <3> QED
      BY <1>1, <2>1, <3>1, PlacesStay
  <2>4. FetchType'
    BY <1>1, <2>1, <2>2 DEF FetchType
  <2>5. Counted'
    BY <1>1, <2>1, <2>3 DEF Counted
  <2> QED
    BY <1>2, <2>3, <2>4, <2>5
<1>4. CASE ~(blocks.stopped \/ blocks.pending = << >>)
  <2> DEFINE q == blocks.pending
  <2>1. q \in Seq(BlockRecord) /\ q # << >> /\ blocks.busy \in Int /\ blocks \in BlocksRecord
    BY <1>4 DEF FetchType, BlocksRecord
  <2>2. /\ Tail(q) \in Seq(BlockRecord) /\ Len(Tail(q)) = Len(q) - 1 /\ Len(q) \in Nat \ {0}
        /\ Head(q) = q[1] /\ Head(q) \in BlockRecord
        /\ \A k \in 1 .. Len(q) - 1 : Tail(q)[k] = q[k + 1]
    BY <2>1, PopFront
  <2>3. PICK b \in BlockRecord : b = q[1] /\ b = Head(q)
    BY <2>2
  <2>4. /\ rdr' = [rdr EXCEPT ![r] = [pc |-> "read", off |-> b.off, len |-> b.len, moved |-> 0]]
        /\ blocks' = [blocks EXCEPT !.busy = @ + 1, !.pending = Tail(@)]
    BY <1>4, <2>3 DEF Take
  <2>5. /\ rdr' \in [Readers -> ReaderRecord]
        /\ rdr'[r] = [pc |-> "read", off |-> b.off, len |-> b.len, moved |-> 0]
        /\ \A s \in Readers : s # r => rdr'[s] = rdr[s]
    BY <2>4 DEF FetchType, ReaderRecord, ReaderPlaces, BlockRecord
  <2>6. /\ blocks' \in BlocksRecord /\ blocks'.pending = Tail(q) /\ blocks'.busy = blocks.busy + 1
        /\ blocks'.stopped = blocks.stopped
    <3>1. PICK n \in Int : n = blocks.busy + 1
      BY <2>1
    <3> HIDE DEF q
    <3>2. blocks' = [blocks EXCEPT !.busy = n, !.pending = Tail(q)]
      BY <2>4, <3>1 DEF q
    <3> QED
      BY <2>1, <2>2, <3>1, <3>2 DEF BlocksRecord
  <2> HIDE DEF q
  <2>7. FetchType'
    BY <1>1, <2>5, <2>6 DEF FetchType
  <2>8. \A k \in Pending' : /\ k \in Pending /\ k + 1 \in Pending /\ k + 1 # 1 /\ k \in Nat
                            /\ blocks'.pending[k] = q[k + 1]
    BY <2>2, <2>6 DEF Pending, q
  <2>9. 1 \in Pending
    BY <2>2 DEF Pending, q
  <2>10. InFile'
    <3>1. \A k \in Pending : q[k].len <= 0 \/ q[k].off + q[k].len <= Length
      BY DEF InFile, q
    <3>2. b.len <= 0 \/ b.off + b.len <= Length
      BY <2>3, <2>9, <3>1
    <3> QED
      BY <2>5, <2>8, <3>1, <3>2 DEF InFile
  <2>11. Placed'
    <3> SUFFICES ASSUME Live', ~blocks'.stopped, NEW u \in FileUnits PROVE OnePlace(u)'
      BY DEF Placed
    <3>1. OnePlace(u)
      BY <1>1, <2>6 DEF Placed
    <3>2. Holds(r, u)' <=> WaitsOn(1, u)
      <4>1. b.off \in Nat
        BY DEF BlockRecord
      <4> QED
        BY <2>3, <2>5, <4>1 DEF Holds, WaitsOn, In, q
    <3>3. ~Holds(r, u)
      BY <1>1 DEF Holds
    <3>4. \A s \in Readers : s # r => (Holds(s, u)' <=> Holds(s, u))
      BY <2>5 DEF Holds
    <3>5. \A k \in Pending' : WaitsOn(k, u)' <=> WaitsOn(k + 1, u)
      BY <2>8 DEF WaitsOn, In, q
    <3>6. \A k \in Pending : k = 1 \/ (k - 1 \in Pending' /\ k - 1 + 1 = k)
      BY <2>2, <2>6 DEF Pending, q
    <3>7. put' = put
      BY <1>1
    <3>8. put[u] = 1 \/ (\E s \in Readers : Holds(s, u)') \/ (\E k \in Pending' : WaitsOn(k, u)')
      BY <3>1, <3>2, <3>3, <3>4, <3>5, <3>6 DEF OnePlace
    <3>9. put[u] = 1 => (\A s \in Readers : ~Holds(s, u)') /\ (\A k \in Pending' : ~WaitsOn(k, u)')
      BY <3>1, <3>2, <3>4, <3>5, <2>8, <2>9 DEF OnePlace
    <3>10. \A s, t \in Readers : Holds(s, u)' /\ Holds(t, u)' => s = t
      BY <3>1, <3>2, <3>4, <2>9 DEF OnePlace
    <3>11. \A k, l \in Pending' : WaitsOn(k, u)' /\ WaitsOn(l, u)' => k = l
      <4> SUFFICES ASSUME NEW k \in Pending', NEW l \in Pending', WaitsOn(k, u)', WaitsOn(l, u)' PROVE k = l
        OBVIOUS
      <4>1. k + 1 = l + 1
        BY <3>1, <3>5, <2>8 DEF OnePlace
      <4> QED
        BY <4>1, <2>8
    <3>12. \A s \in Readers, k \in Pending' : ~(Holds(s, u)' /\ WaitsOn(k, u)')
      BY <3>1, <3>2, <3>4, <3>5, <2>8, <2>9 DEF OnePlace
    <3> QED
      BY <3>7, <3>8, <3>9, <3>10, <3>11, <3>12 DEF OnePlace
  <2>12. Counted'
    <3>1. Holding' = Holding \cup {r} /\ r \notin Holding
      BY <1>1, <2>5 DEF Holding
    <3>2. Cardinality(Holding') = Cardinality(Holding) + 1
      BY <3>1, HoldingFinite, FS_AddElement
    <3>3. Written' = Written
      BY <1>1 DEF Written
    <3> QED
      BY <1>1, <2>6, <3>2, <3>3 DEF Counted
  <2> QED
    BY <1>2, <2>7, <2>10, <2>11, <2>12
<1> QED
  BY <1>3, <1>4

\* A reader raises: the copy is stopped, and its block goes back whole.
LEMMA RaisesKeeps ==
    ASSUME FetchInv, NEW r \in Readers, NEW pc \in {"stopped", "failed"}, Raises(r, pc),
           Live, rdr[r].pc = "read", UNCHANGED <<fetch, put>>
    PROVE  FetchInv'
<1> USE DEF FetchInv
<1> DEFINE q == blocks.pending
           b == [off |-> rdr[r].off + 0, len |-> rdr[r].len - 0]
<1>1. /\ q \in Seq(BlockRecord) /\ blocks.busy \in Int /\ blocks \in BlocksRecord
      /\ rdr[r].off \in Nat /\ rdr[r].len \in Int
  BY DEF FetchType, BlocksRecord, ReaderRecord
<1>2. /\ rdr' \in [Readers -> ReaderRecord]
      /\ \A s \in Readers : /\ rdr'[s].off = rdr[s].off /\ rdr'[s].len = rdr[s].len
                            /\ rdr'[s].moved = rdr[s].moved
                            /\ rdr'[s].pc = IF s = r THEN pc ELSE rdr[s].pc
  <2>1. pc \in ReaderPlaces /\ FetchType
    BY DEF ReaderPlaces
  <2>2. rdr' = [rdr EXCEPT ![r].pc = pc]
    BY DEF Raises
  <2> QED
    BY <2>1, <2>2, ReaderMoves
<1>3. b \in BlockRecord /\ b.off = rdr[r].off /\ b.len = rdr[r].len
  BY <1>1 DEF BlockRecord
<1>4. PICK p \in Seq(BlockRecord) :
        /\ p = q \/ p = <<b>> \o q
        /\ blocks' = [blocks EXCEPT !.stopped = TRUE, !.busy = @ - 1, !.pending = p]
  <2> HIDE DEF q, b
  <2>1. q \in Seq(BlockRecord) /\ <<b>> \o q \in Seq(BlockRecord)
    BY <1>1, <1>3, PushFront
  <2>2. blocks' = [blocks EXCEPT !.stopped = TRUE, !.busy = @ - 1,
                      !.pending = IF 0 < rdr[r].len THEN <<b>> \o q ELSE q]
    BY <1>1 DEF Raises, Given, BlocksRecord, q, b
  <2> QED
    BY <2>1, <2>2
<1>5. blocks' \in BlocksRecord /\ blocks'.stopped /\ blocks'.busy = blocks.busy - 1 /\ blocks'.pending = p
  <2>1. PICK n \in Int : n = blocks.busy - 1
    BY <1>1
  <2>2. blocks' = [blocks EXCEPT !.stopped = TRUE, !.busy = n, !.pending = p]
    BY <1>4, <2>1
  <2> QED
    BY <1>1, <2>1, <2>2 DEF BlocksRecord
<1> HIDE DEF q, b
<1>6. FetchType'
  BY <1>2, <1>5 DEF FetchType
<1>7. InFile'
  <2>1. \A k \in 1 .. Len(q) : q[k].len <= 0 \/ q[k].off + q[k].len <= Length
    BY DEF InFile, Pending, q
  <2>2. b.len <= 0 \/ b.off + b.len <= Length
    BY <1>3 DEF InFile
  <2>3. \A k \in 1 .. Len(p) : p[k].len <= 0 \/ p[k].off + p[k].len <= Length
    <3>1. CASE p = q
      BY <2>1, <3>1
    <3>2. CASE p = <<b>> \o q
      <4>1. /\ Len(p) = Len(q) + 1 /\ p[1] = b /\ Len(q) \in Nat
            /\ \A k \in 1 .. Len(q) : p[k + 1] = q[k]
        BY <3>2, <1>1, <1>3, PushFront DEF q
      <4>2. \A k \in 1 .. Len(p) : k = 1 \/ (k - 1 \in 1 .. Len(q) /\ p[k] = q[k - 1])
        <5> SUFFICES ASSUME NEW k \in 1 .. Len(p), k # 1 PROVE k - 1 \in 1 .. Len(q) /\ p[k] = q[k - 1]
          OBVIOUS
        <5>1. k - 1 \in 1 .. Len(q) /\ (k - 1) + 1 = k
          BY <4>1
        <5> QED
          BY <5>1, <4>1
      <4> QED
        BY <2>1, <2>2, <4>1, <4>2
    <3> QED
      BY <1>4, <3>1, <3>2
  <2> QED
    BY <1>2, <1>5, <2>3 DEF InFile, Pending
<1>8. Placed'
  BY <1>5 DEF Placed
<1>9. Counted'
  <2>1. Holding' = Holding \ {r} /\ r \in Holding
    BY <1>2 DEF Holding
  <2>2. Cardinality(Holding') = Cardinality(Holding) - 1
    BY <2>1, HoldingFinite, FS_RemoveElement
  <2>3. Written' = Written
    BY DEF Written
  <2> QED
    BY <1>5, <2>2, <2>3 DEF Counted
<1>10. Resting'
  BY DEF Resting, Live
<1> QED
  BY <1>6, <1>7, <1>8, <1>9, <1>10

\* A unit goes from a reader's hands into the file.
LEMMA WriteKeeps ==
    ASSUME FetchInv, NEW r \in Readers, Live, rdr[r].pc = "read", rdr[r].moved < rdr[r].len,
           ~blocks.stopped,
           put' = [put EXCEPT ![rdr[r].off + rdr[r].moved] = @ + 1],
           fetch' = [fetch EXCEPT !.moved = @ + 1],
           rdr' = [rdr EXCEPT ![r].moved = @ + 1],
           UNCHANGED blocks
    PROVE  FetchInv'
<1> USE DEF FetchInv
<1>1. rdr[r].off \in Nat /\ rdr[r].len \in Int /\ rdr[r].moved \in Nat /\ Length \in Nat
  BY ReplicasAssumption DEF FetchType, ReaderRecord
<1>2. PICK at \in FileUnits : at = rdr[r].off + rdr[r].moved
  BY <1>1 DEF InFile, FileUnits
<1>3. Holds(r, at) /\ OnePlace(at)
  BY <1>1, <1>2 DEF Holds, Placed, FileUnits
<1>4. put[at] = 0 /\ put' = [put EXCEPT ![at] = 1]
  <2>1. put[at] = 0
    BY <1>3 DEF OnePlace, FetchType
  <2> QED
    BY <1>2, <2>1
<1>5. /\ put' \in [FileUnits -> {0, 1}]
      /\ \A u \in FileUnits : put'[u] = IF u = at THEN 1 ELSE put[u]
  BY <1>4 DEF FetchType
<1>6. /\ rdr' \in [Readers -> ReaderRecord]
      /\ \A s \in Readers : /\ rdr'[s].pc = rdr[s].pc /\ rdr'[s].off = rdr[s].off
                            /\ rdr'[s].len = rdr[s].len
                            /\ rdr'[s].moved = IF s = r THEN rdr[s].moved + 1 ELSE rdr[s].moved
  <2>1. rdr \in [Readers -> ReaderRecord]
    BY DEF FetchType
  <2> QED
    BY <2>1 DEF ReaderRecord
<1>7. /\ fetch'.moved = fetch.moved + 1 /\ fetch'.result = fetch.result /\ fetch.moved \in Nat
      /\ DOMAIN fetch' = {"replicas", "moved", "result"}
  BY DEF FetchType
<1>8. FetchType'
  BY <1>5, <1>6, <1>7 DEF FetchType
<1>9. InFile'
  BY <1>6 DEF InFile, Pending
<1>10. Placed'
  <2> SUFFICES ASSUME NEW u \in FileUnits PROVE OnePlace(u)'
    BY DEF Placed
  <2>1. OnePlace(u) /\ u \in Nat
    BY DEF Placed, FileUnits
  <2>2. \A s \in Readers : s # r => (Holds(s, u)' <=> Holds(s, u))
    BY <1>6 DEF Holds
  <2>3. Holds(r, u)' <=> Holds(r, u) /\ u # at
    BY <1>1, <1>2, <1>6, <2>1 DEF Holds, FileUnits
  <2>4. Pending' = Pending /\ \A k \in Pending : WaitsOn(k, u)' <=> WaitsOn(k, u)
    BY DEF Pending, WaitsOn, In
  <2>5. CASE u = at
    <3>1. \A s \in Readers : ~Holds(s, u)'
      BY <1>3, <2>2, <2>3, <2>5 DEF OnePlace
    <3>2. \A k \in Pending : ~WaitsOn(k, u)'
      BY <1>3, <2>4, <2>5 DEF OnePlace
    <3>3. put'[u] = 1
      BY <1>5, <2>5
    <3> QED
      BY <2>4, <3>1, <3>2, <3>3 DEF OnePlace
  <2>6. CASE u # at
    <3>1. put'[u] = put[u] /\ \A s \in Readers : Holds(s, u)' <=> Holds(s, u)
      BY <1>5, <2>2, <2>3, <2>6
    <3> QED
      BY <2>1, <2>4, <3>1 DEF OnePlace
  <2> QED
    BY <2>5, <2>6
<1>11. Counted'
  <2>1. Holding' = Holding
    BY <1>6 DEF Holding
  <2>2. Written' = Written \cup {at} /\ at \notin Written
    BY <1>4, <1>5 DEF Written
  <2>3. Cardinality(Written') = Cardinality(Written) + 1
    BY <2>2, WrittenFinite, FS_AddElement
  <2>4. fetch'.result # "ok"
    BY <1>7 DEF Live
  <2> QED
    BY <1>7, <2>1, <2>3, <2>4 DEF Counted
<1>12. Resting'
  BY <1>7 DEF Resting, Live
<1> QED
  BY <1>8, <1>9, <1>10, <1>11, <1>12

LEMMA SpanKeeps ==
    ASSUME FetchInv, NEW r \in Readers, Span(r)
    PROVE  FetchInv'
<1> USE DEF FetchInv
<1>1. Live /\ rdr[r].pc = "read" /\ rdr[r].moved < rdr[r].len
  BY DEF Span
<1>2. CASE (Raises(r, "stopped") \/ Raises(r, "failed")) /\ UNCHANGED <<fetch, put>>
  <2>1. PICK pc \in {"stopped", "failed"} : Raises(r, pc)
    BY <1>2
  <2> QED
    BY <1>1, <1>2, <2>1, RaisesKeeps
<1>3. CASE /\ ~blocks.stopped
           /\ put' = [put EXCEPT ![rdr[r].off + rdr[r].moved] = @ + 1]
           /\ fetch' = [fetch EXCEPT !.moved = @ + 1]
           /\ rdr' = [rdr EXCEPT ![r].moved = @ + 1]
           /\ UNCHANGED blocks
  BY <1>1, <1>3, WriteKeeps
<1>4. CASE rdr' = [rdr EXCEPT ![r].pc = "done"] /\ UNCHANGED <<blocks, fetch, put>>
  <2>1. /\ rdr' \in [Readers -> ReaderRecord]
        /\ \A s \in Readers : /\ rdr'[s].off = rdr[s].off /\ rdr'[s].len = rdr[s].len
                              /\ rdr'[s].moved = rdr[s].moved
                              /\ rdr'[s].pc = IF s = r THEN "done" ELSE rdr[s].pc
    <3>1. "done" \in ReaderPlaces /\ FetchType
      BY DEF ReaderPlaces
    <3> QED
      BY <1>4, <3>1, ReaderMoves
  <2>2. InFile' /\ Placed' /\ Holding' = Holding /\ Written' = Written
    <3>1. SameHolders /\ (Live' => Live)
      BY <1>1, <2>1 DEF SameHolders
    <3> QED
      BY <1>4, <3>1, PlacesStay
  <2>3. FetchType'
    BY <1>4, <2>1 DEF FetchType
  <2>4. Counted'
    BY <1>4, <2>2 DEF Counted
  <2>5. Resting'
    BY <1>1, <1>4 DEF Resting, Live
  <2> QED
    BY <2>2, <2>3, <2>4, <2>5
<1> QED
  BY <1>2, <1>3, <1>4 DEF Span

\* What a reader did not get goes back to the front of the queue.
LEMMA DoneKeeps ==
    ASSUME FetchInv, NEW r \in Readers, Done(r)
    PROVE  FetchInv'
<1> USE DEF FetchInv
<1> DEFINE q == blocks.pending
           b == [off |-> rdr[r].off + rdr[r].moved, len |-> rdr[r].len - rdr[r].moved]
           back == rdr[r].moved < rdr[r].len
<1>1. /\ q \in Seq(BlockRecord) /\ blocks.busy \in Int /\ blocks \in BlocksRecord
      /\ rdr[r].off \in Nat /\ rdr[r].len \in Int /\ rdr[r].moved \in Nat /\ Length \in Nat
  BY ReplicasAssumption DEF FetchType, BlocksRecord, ReaderRecord
<1>2. Live /\ rdr[r].pc \in {"read", "done"} /\ UNCHANGED <<fetch, put>>
  BY DEF Done
<1>3. PICK pc \in {"open", "take"} : rdr' = [rdr EXCEPT ![r].pc = pc]
  BY DEF Done
<1>4. /\ rdr' \in [Readers -> ReaderRecord]
      /\ \A s \in Readers : /\ rdr'[s].off = rdr[s].off /\ rdr'[s].len = rdr[s].len
                            /\ rdr'[s].moved = rdr[s].moved
                            /\ rdr'[s].pc = IF s = r THEN pc ELSE rdr[s].pc
  <2>1. pc \in ReaderPlaces /\ FetchType
    BY DEF ReaderPlaces
  <2> QED
    BY <1>3, <2>1, ReaderMoves
<1>5. back => b \in BlockRecord
  BY <1>1 DEF BlockRecord
<1>6. PICK p \in Seq(BlockRecord) :
        /\ p = IF back THEN <<b>> \o q ELSE q
        /\ blocks' = [blocks EXCEPT !.busy = @ - 1, !.pending = p]
  <2> HIDE DEF q, b
  <2>1. (IF back THEN <<b>> \o q ELSE q) \in Seq(BlockRecord)
    BY <1>1, <1>5, PushFront
  <2>2. blocks' = [blocks EXCEPT !.busy = @ - 1, !.pending = IF back THEN <<b>> \o q ELSE q]
    BY <1>1 DEF Done, Given, BlocksRecord, q, b
  <2> QED
    BY <2>1, <2>2
<1>7. /\ blocks' \in BlocksRecord /\ blocks'.stopped = blocks.stopped
      /\ blocks'.busy = blocks.busy - 1 /\ blocks'.pending = p
  <2>1. PICK n \in Int : n = blocks.busy - 1
    BY <1>1
  <2>2. blocks' = [blocks EXCEPT !.busy = n, !.pending = p]
    BY <1>6, <2>1
  <2> QED
    BY <1>1, <2>1, <2>2 DEF BlocksRecord
<1>8. FetchType'
  BY <1>2, <1>4, <1>7 DEF FetchType
<1>9. Counted'
  <2>1. Holding' = Holding \ {r} /\ r \in Holding
    BY <1>2, <1>4 DEF Holding
  <2>2. Cardinality(Holding') = Cardinality(Holding) - 1
    BY <2>1, HoldingFinite, FS_RemoveElement
  <2>3. Written' = Written
    BY <1>2 DEF Written
  <2> QED
    BY <1>2, <1>7, <2>2, <2>3 DEF Counted
<1>10. Resting'
  BY <1>2 DEF Resting, Live
<1>11. \A u \in FileUnits : ~Holds(r, u)' /\ \A s \in Readers : s # r => (Holds(s, u)' <=> Holds(s, u))
  BY <1>4 DEF Holds
<1>12. CASE ~back
  <2>1. p = q /\ blocks'.pending = blocks.pending
    BY <1>6, <1>7, <1>12
  <2>2. InFile'
    BY <1>4, <2>1 DEF InFile, Pending
  <2>3. Placed'
    <3> SUFFICES ASSUME ~blocks.stopped, NEW u \in FileUnits PROVE OnePlace(u)'
      BY <1>7 DEF Placed
    <3>1. OnePlace(u) /\ u \in Nat
      BY <1>2 DEF Placed, FileUnits
    <3>2. ~Holds(r, u)
      BY <1>1, <1>12, <3>1 DEF Holds
    <3>3. \A s \in Readers : Holds(s, u)' <=> Holds(s, u)
      BY <1>11, <3>2
    <3>4. Pending' = Pending /\ \A k \in Pending : WaitsOn(k, u)' <=> WaitsOn(k, u)
      BY <2>1 DEF Pending, WaitsOn, In
    <3>5. put'[u] = put[u]
      BY <1>2
    <3> QED
      BY <3>1, <3>3, <3>4, <3>5 DEF OnePlace
  <2> QED
    BY <1>8, <1>9, <1>10, <2>2, <2>3
<1>13. CASE back
  <2>1. /\ blocks'.pending = p /\ Len(p) = Len(q) + 1 /\ p[1] = b /\ Len(q) \in Nat
        /\ \A k \in 1 .. Len(q) : p[k + 1] = q[k]
    <3> HIDE DEF b, q
    <3>1. b \in BlockRecord /\ p = <<b>> \o q /\ q \in Seq(BlockRecord)
      BY <1>1, <1>5, <1>6, <1>13
    <3> QED
      BY <1>7, <3>1, PushFront
  <2>2. \A k \in Pending' : k = 1 \/ (k - 1 \in Pending /\ p[k] = q[k - 1] /\ k \in Nat)
    <3> SUFFICES ASSUME NEW k \in 1 .. Len(p), k # 1
                 PROVE  k - 1 \in 1 .. Len(q) /\ p[k] = q[k - 1] /\ k \in Nat
      BY <2>1 DEF Pending
    <3>1. k - 1 \in 1 .. Len(q) /\ (k - 1) + 1 = k /\ k \in Nat
      BY <2>1
    <3> QED
      BY <3>1, <2>1
  <2>3. \A k \in Pending : k + 1 \in Pending' /\ k + 1 # 1 /\ p[k + 1] = q[k] /\ k \in Nat
    BY <2>1 DEF Pending
  <2>4. 1 \in Pending'
    BY <2>1 DEF Pending
  <2>5. b.off = rdr[r].off + rdr[r].moved /\ b.len = rdr[r].len - rdr[r].moved
    OBVIOUS
  <2> HIDE DEF b, q
  <2>6. InFile'
    <3>1. \A k \in Pending : q[k].len <= 0 \/ q[k].off + q[k].len <= Length
      BY DEF InFile, q
    <3>2. b.len <= 0 \/ b.off + b.len <= Length
      BY <1>1, <1>13, <2>5 DEF InFile
    <3>3. \A k \in Pending' : p[k].len <= 0 \/ p[k].off + p[k].len <= Length
      BY <2>1, <2>2, <3>1, <3>2
    <3> QED
      BY <1>4, <2>1, <3>3 DEF InFile
  <2>7. Placed'
    <3> SUFFICES ASSUME ~blocks.stopped, NEW u \in FileUnits PROVE OnePlace(u)'
      BY <1>7 DEF Placed
    <3>1. OnePlace(u) /\ u \in Nat
      BY <1>2 DEF Placed, FileUnits
    <3>2. WaitsOn(1, u)' <=> Holds(r, u)
      <4>1. b.off + b.len = rdr[r].off + rdr[r].len
        BY <1>1, <2>5
      <4> QED
        BY <1>2, <2>1, <2>5, <4>1 DEF WaitsOn, In, Holds
    <3>3. \A k \in Pending' : k # 1 => (WaitsOn(k, u)' <=> WaitsOn(k - 1, u))
      BY <2>1, <2>2 DEF WaitsOn, In, q
    <3>4. \A k \in Pending : WaitsOn(k + 1, u)' <=> WaitsOn(k, u)
      BY <2>1, <2>3 DEF WaitsOn, In, q
    <3>5. put'[u] = put[u]
      BY <1>2
    <3>6. put[u] = 1 \/ (\E s \in Readers : Holds(s, u)') \/ (\E k \in Pending' : WaitsOn(k, u)')
      BY <1>11, <3>1, <3>2, <3>4, <2>3, <2>4 DEF OnePlace
    <3>7. put[u] = 1 => (\A s \in Readers : ~Holds(s, u)') /\ (\A k \in Pending' : ~WaitsOn(k, u)')
      BY <1>11, <3>1, <3>2, <3>3, <2>2 DEF OnePlace
    <3>8. \A s, t \in Readers : Holds(s, u)' /\ Holds(t, u)' => s = t
      BY <1>11, <3>1 DEF OnePlace
    <3>9. \A k, l \in Pending' : WaitsOn(k, u)' /\ WaitsOn(l, u)' => k = l
      <4> SUFFICES ASSUME NEW k \in Pending', NEW l \in Pending', WaitsOn(k, u)', WaitsOn(l, u)', k # l
                   PROVE  FALSE
        OBVIOUS
      <4>1. CASE k # 1 /\ l # 1
        <5>1. k - 1 = l - 1
          BY <4>1, <3>1, <3>3, <2>2 DEF OnePlace
        <5> QED
          BY <4>1, <5>1, <2>2
      <4>2. CASE k = 1 \/ l = 1
        BY <4>2, <3>1, <3>2, <3>3, <2>2 DEF OnePlace
      <4> QED
        BY <4>1, <4>2
    <3>10. \A s \in Readers, k \in Pending' : ~(Holds(s, u)' /\ WaitsOn(k, u)')
      BY <1>11, <3>1, <3>2, <3>3, <2>2 DEF OnePlace
    <3> QED
      BY <3>5, <3>6, <3>7, <3>8, <3>9, <3>10 DEF OnePlace
  <2> QED
    BY <1>8, <1>9, <1>10, <2>6, <2>7
<1> QED
  BY <1>12, <1>13

-----------------------------------------------------------------------------
(* The start, and the theorem.                                             *)

\* The blocks cover the file, each unit once.
LEMMA SplitWhole ==
    /\ SplitInBlocks \in Seq(BlockRecord)
    /\ \A k \in 1 .. Len(SplitInBlocks) : SplitInBlocks[k].off + SplitInBlocks[k].len <= Length
    /\ \A u \in FileUnits : \E k \in 1 .. Len(SplitInBlocks) : In(SplitInBlocks[k], u)
    /\ \A u \in FileUnits : \A k, l \in 1 .. Len(SplitInBlocks) :
          In(SplitInBlocks[k], u) /\ In(SplitInBlocks[l], u) => k = l
<1> DEFINE q == SplitInBlocks
           n == (Length + Block - 1) \div Block
<1>1. Length \in Nat /\ Block \in Nat \ {0}
  BY ReplicasAssumption
<1>2. n \in Nat /\ Length + Block - 1 < n * Block + Block
  <2>1. Length + Block - 1 \in Nat
    BY <1>1
  <2> QED
    BY <1>1, <2>1, Division
<1>3. q = [k \in 1 .. n |-> [off |-> (k - 1) * Block, len |-> Min({Block, Length - (k - 1) * Block})]]
  BY DEF SplitInBlocks
<1> HIDE DEF n, q
<1>4. ASSUME NEW k \in 1 .. n
      PROVE  /\ q[k] \in BlockRecord /\ q[k].off = (k - 1) * Block /\ q[k].off \in Nat /\ q[k].len \in Int
             /\ q[k].len = Block \/ q[k].len = Length - q[k].off
             /\ q[k].len <= Block /\ q[k].off + q[k].len <= Length
  <2>1. PICK o \in Nat : o = (k - 1) * Block
    <3>1. k - 1 \in Nat
      BY <1>2
    <3> QED
      BY <3>1, <1>1, Z3
  <2>2. q[k] = [off |-> o, len |-> Min({Block, Length - o})]
    BY <1>3, <2>1
  <2>3. Block \in Int /\ Length - o \in Int
    BY <1>1
  <2> DEFINE least == Min({Block, Length - o})
  <2>a. least \in {Block, Length - o} /\ least <= Block /\ least <= Length - o
    BY <2>3, MinOfTwo
  <2> HIDE DEF least
  <2>b. least \in Int
    BY <2>3, <2>a
  <2>4. PICK m \in Int : m = least /\ m \in {Block, Length - o} /\ m <= Block /\ m <= Length - o
    BY <2>a, <2>b
  <2>5. q[k] = [off |-> o, len |-> m]
    BY <2>2, <2>4 DEF least
  <2> QED
    BY <1>1, <2>1, <2>4, <2>5 DEF BlockRecord
<1>5. q \in Seq(BlockRecord) /\ Len(q) = n
  <2>1. q \in [1 .. n -> BlockRecord]
    BY <1>3, <1>4
  <2> QED
    BY <1>2, <2>1
<1>6. ASSUME NEW u \in FileUnits PROVE \E k \in 1 .. n : In(q[k], u)
  <2>1. u \in Nat /\ u < Length
    BY <1>1 DEF FileUnits
  <2>2. PICK d \in Nat : d * Block <= u /\ u < d * Block + Block
    BY <1>1, <2>1, Division
  <2>3. d < n
    <3> SUFFICES ASSUME ~(d < n) PROVE FALSE
      OBVIOUS
    <3>1. n * Block <= d * Block /\ n * Block \in Nat /\ d * Block \in Nat
      <4>1. CASE n = d
        BY <4>1, <1>1, <1>2, Z3
      <4>2. CASE n < d
        <5>1. n * Block + Block <= d * Block
          BY <4>2, <1>1, <1>2, Steps
        <5>2. n * Block \in Nat /\ d * Block \in Nat
          BY <1>1, <1>2, Z3
        <5> QED
          BY <5>1, <5>2, <1>1
      <4> QED
        BY <4>1, <4>2, <1>2
    <3> QED
      BY <1>1, <1>2, <2>1, <2>2, <3>1
  <2>4. d + 1 \in 1 .. n /\ (d + 1) - 1 = d
    BY <1>2, <2>3
  <2>5. q[d + 1].off = d * Block
    BY <1>4, <2>4
  <2>6. In(q[d + 1], u)
    BY <1>1, <1>4, <2>1, <2>2, <2>4, <2>5 DEF In
  <2> QED
    BY <2>4, <2>6
<1>7. ASSUME NEW u \in FileUnits, NEW k \in 1 .. n, NEW l \in 1 .. n, In(q[k], u), In(q[l], u), k < l
      PROVE  FALSE
  <2>1. (k - 1) * Block + Block <= (l - 1) * Block
    <3>1. k - 1 \in Nat /\ l - 1 \in Nat /\ k - 1 < l - 1
      BY <1>2, <1>7
    <3> QED
      BY <1>1, <3>1, Steps
  <2>2. u \in Nat
    BY DEF FileUnits
  <2>3. q[k].off + Block <= q[l].off
    BY <2>1, <1>4
  <2>4. u < q[k].off + q[k].len /\ q[l].off <= u
    BY <1>7 DEF In
  <2> QED
    BY <1>1, <1>4, <2>2, <2>3, <2>4
<1> QED
  <2>1. \A u \in FileUnits : \A k, l \in 1 .. n : In(q[k], u) /\ In(q[l], u) => k = l
    <3> SUFFICES ASSUME NEW u \in FileUnits, NEW k \in 1 .. n, NEW l \in 1 .. n,
                        In(q[k], u), In(q[l], u), k # l
                 PROVE  FALSE
      OBVIOUS
    <3>1. k < l \/ l < k
      BY <1>2
    <3> QED
      BY <3>1, <1>7
  <2> QED
    BY <1>4, <1>5, <1>6, <2>1 DEF q

LEMMA StartKeeps ==
    ASSUME FetchInv, Start
    PROVE  FetchInv'
<1> USE DEF FetchInv
<1>1. UNCHANGED put /\ fetch.result = "locate"
  BY DEF Start
<1>2. /\ ~blocks.stopped /\ (\A u \in FileUnits : put[u] = 0) /\ (\A r \in Readers : rdr[r].pc = "open")
  BY <1>1 DEF Resting
<1>3. CASE fetch' = [fetch EXCEPT !.result = "exhausted"] /\ UNCHANGED <<blocks, rdr>>
  <2>1. /\ fetch'.moved = fetch.moved /\ fetch'.result = "exhausted"
        /\ DOMAIN fetch' = {"replicas", "moved", "result"}
    BY <1>3 DEF FetchType
  <2>2. InFile' /\ Placed' /\ Holding' = Holding /\ Written' = Written
    <3>1. SameHolders /\ (Live' => Live)
      BY <1>3, <2>1 DEF SameHolders, Live
    <3> QED
      BY <1>1, <1>3, <3>1, PlacesStay
  <2>3. FetchType'
    BY <1>1, <1>3, <2>1 DEF FetchType, Results
  <2>4. Counted'
    BY <1>3, <2>1, <2>2 DEF Counted
  <2>5. Resting'
    BY <2>1 DEF Resting
  <2> QED
    BY <2>2, <2>3, <2>4, <2>5
<1>4. CASE ~(fetch' = [fetch EXCEPT !.result = "exhausted"] /\ UNCHANGED <<blocks, rdr>>)
  <2> DEFINE q == SplitInBlocks
  <2>1. \E v : fetch' = [fetch EXCEPT !.replicas = v, !.result = "running"]
    BY <1>4 DEF Start
  <2>2. blocks' = [blocks EXCEPT !.pending = q]
    BY <1>4 DEF Start
  <2> DEFINE fresh == {[NoBlock EXCEPT !.pc = "take"], NoBlock, [NoBlock EXCEPT !.pc = "ended"]}
  <2>a. \A b \in fresh : /\ b \in ReaderRecord /\ b.pc \in {"take", "open", "ended"}
                        /\ b.off = 0 /\ b.len = 0 /\ b.moved = 0
    BY DEF NoBlock, ReaderRecord, ReaderPlaces
  <2>b. rdr' \in [Readers -> fresh]
    BY <1>4 DEF Start
  <2> HIDE DEF fresh
  <2>3. \A r \in Readers : /\ rdr'[r].pc \in {"take", "open", "ended"} /\ rdr'[r].off = 0
                           /\ rdr'[r].len = 0 /\ rdr'[r].moved = 0
    BY <2>a, <2>b
  <2>4. rdr' \in [Readers -> ReaderRecord]
    BY <2>a, <2>b
  <2>5. /\ q \in Seq(BlockRecord)
        /\ \A k \in 1 .. Len(q) : q[k].off + q[k].len <= Length
        /\ \A u \in FileUnits : \E k \in 1 .. Len(q) : In(q[k], u)
        /\ \A u \in FileUnits : \A k, l \in 1 .. Len(q) : In(q[k], u) /\ In(q[l], u) => k = l
    BY SplitWhole
  <2> HIDE DEF q
  <2>6. /\ fetch'.moved = fetch.moved /\ fetch'.result = "running"
        /\ DOMAIN fetch' = {"replicas", "moved", "result"}
    BY <2>1 DEF FetchType
  <2>7. blocks' \in BlocksRecord /\ blocks'.pending = q /\ blocks'.busy = blocks.busy
    BY <2>2, <2>5 DEF FetchType, BlocksRecord
  <2>8. FetchType'
    BY <1>1, <2>4, <2>6, <2>7 DEF FetchType, Results
  <2>9. InFile'
    BY <2>3, <2>5, <2>7 DEF InFile, Pending
  <2>10. Placed'
    <3> SUFFICES ASSUME NEW u \in FileUnits PROVE OnePlace(u)'
      BY DEF Placed
    <3>1. \A r \in Readers : ~Holds(r, u)'
      BY <2>3 DEF Holds
    <3>2. Pending' = 1 .. Len(q) /\ \A k \in Pending' : WaitsOn(k, u)' <=> In(q[k], u)
      BY <2>7 DEF Pending, WaitsOn, In
    <3>3. put'[u] = 0
      BY <1>1, <1>2
    <3> QED
      BY <2>5, <3>1, <3>2, <3>3 DEF OnePlace
  <2>11. Counted'
    <3>1. Holding' = Holding
      BY <1>2, <2>3 DEF Holding
    <3>2. Written' = Written
      BY <1>1 DEF Written
    <3> QED
      BY <2>6, <2>7, <3>1, <3>2 DEF Counted
  <2>12. Resting'
    BY <2>6 DEF Resting
  <2> QED
    BY <2>8, <2>9, <2>10, <2>11, <2>12
<1> QED
  BY <1>3, <1>4

LEMMA FetchStarts == ReplicaInit => FetchInv
<1> SUFFICES ASSUME ReplicaInit PROVE FetchInv
  OBVIOUS
<1>1. /\ blocks = [pending |-> << >>, busy |-> 0, stopped |-> FALSE]
      /\ fetch = [replicas |-> {}, moved |-> 0, result |-> "locate"]
      /\ rdr = [r \in Readers |-> NoBlock]
      /\ put = [u \in FileUnits |-> 0]
  BY DEF ReplicaInit, FileUnits
<1>2. FetchType
  <2>1. blocks \in BlocksRecord
    BY <1>1 DEF BlocksRecord
  <2>2. rdr \in [Readers -> ReaderRecord]
    <3>1. NoBlock \in ReaderRecord
      BY DEF NoBlock, ReaderRecord, ReaderPlaces
    <3> QED
      BY <1>1, <3>1
  <2> QED
    BY <1>1, <2>1, <2>2 DEF FetchType, Results
<1>3. \A r \in Readers : rdr[r].pc = "open" /\ rdr[r].len = 0
  BY <1>1 DEF NoBlock
<1>4. InFile
  BY <1>1, <1>3 DEF InFile, Pending
<1>5. Placed
  BY <1>1 DEF Placed, Live
<1>6. Counted
  <2>1. Holding = {}
    BY <1>3 DEF Holding
  <2>2. Written = {}
    BY <1>1 DEF Written
  <2> QED
    BY <1>1, <2>1, <2>2, FS_EmptySet DEF Counted
<1>7. Resting
  BY <1>1, <1>3 DEF Resting
<1> QED
  BY <1>2, <1>4, <1>5, <1>6, <1>7 DEF FetchInv

LEMMA FetchSteps == FetchInv /\ [ReplicaNext]_fetchVars => FetchInv'
<1> SUFFICES ASSUME FetchInv, [ReplicaNext]_fetchVars PROVE FetchInv'
  OBVIOUS
<1>1. CASE Locate \/ Together
  BY <1>1, VerdictKeeps
<1>2. CASE Start
  BY <1>2, StartKeeps
<1>3. ASSUME NEW r \in Readers, FetchReader(r) PROVE FetchInv'
  BY <1>3, OpenNextKeeps, TakeKeeps, SpanKeeps, DoneKeeps DEF FetchReader
<1>4. CASE UNCHANGED fetchVars
  <2>1. UNCHANGED <<blocks, fetch, rdr, put>>
    BY <1>4 DEF fetchVars
  <2>2. InFile' /\ Placed' /\ Holding' = Holding /\ Written' = Written
    <3>1. SameHolders /\ (Live' => Live)
      BY <2>1 DEF SameHolders, Live
    <3> QED
      BY <2>1, <3>1, PlacesStay
  <2> QED
    BY <2>1, <2>2 DEF FetchInv, FetchType, Counted, Resting
<1> QED
  BY <1>1, <1>2, <1>3, <1>4 DEF ReplicaNext

\* Each unit is counted once: written, queued, or in the hands of one reader.
LEMMA CountedOnce ==
    ASSUME FetchInv, Live, ~blocks.stopped, NEW u \in FileUnits
    PROVE  put[u] + Cardinality({r \in Holding : u \in Held(r)})
                  + (IF u \in Queued THEN 1 ELSE 0) = 1
<1> DEFINE H == {r \in Holding : u \in Held(r)}
<1>1. OnePlace(u) /\ u \in Nat /\ put[u] \in {0, 1}
  BY DEF FetchInv, Placed, FileUnits, FetchType
<1>2. H = {r \in Readers : Holds(r, u)}
  <2>1. ASSUME NEW r \in Readers
        PROVE  Holds(r, u) <=> r \in Holding /\ u \in Held(r)
    <3>1. rdr[r].off \in Nat /\ rdr[r].len \in Int /\ rdr[r].moved \in Nat
      BY DEF FetchInv, FetchType, ReaderRecord
    <3> QED
      BY <1>1, <3>1 DEF Holds, Holding, Held
  <2> QED
    BY <2>1 DEF Holding
<1>3. u \in Queued <=> \E k \in Pending : WaitsOn(k, u)
  <2>1. blocks.pending \in Seq(BlockRecord)
    BY DEF FetchInv, FetchType, BlocksRecord
  <2>2. DOMAIN blocks.pending = Pending
    BY <2>1 DEF Pending
  <2>3. ASSUME NEW k \in Pending
        PROVE  WaitsOn(k, u) <=>
                 u \in blocks.pending[k].off .. blocks.pending[k].off + blocks.pending[k].len - 1
    <3>1. blocks.pending[k] \in BlockRecord
      BY <2>1 DEF Pending
    <3>2. blocks.pending[k].off \in Nat /\ blocks.pending[k].len \in Int
      BY <3>1 DEF BlockRecord
    <3> QED
      BY <1>1, <3>2 DEF WaitsOn, In
  <2> QED
    BY <2>2, <2>3 DEF Queued, Range
<1> HIDE DEF H
<1>4. Cardinality(H) = IF \E r \in Readers : Holds(r, u) THEN 1 ELSE 0
  <2>1. CASE \E r \in Readers : Holds(r, u)
    <3>1. PICK r \in Readers : Holds(r, u)
      BY <2>1
    <3>2. H = {r}
      BY <1>1, <1>2, <3>1 DEF OnePlace
    <3> QED
      BY <2>1, <3>2, FS_Singleton
  <2>2. CASE ~\E r \in Readers : Holds(r, u)
    <3>1. H = {}
      BY <1>2, <2>2
    <3> QED
      BY <2>2, <3>1, FS_EmptySet
  <2> QED
    BY <2>1, <2>2
<1>5. put[u] + Cardinality(H) + (IF u \in Queued THEN 1 ELSE 0) = 1
  BY <1>1, <1>3, <1>4 DEF OnePlace
<1> QED
  BY <1>5 DEF H

\* For any number of replicas and readers, any file and any block size:
\* whichever replicas fail and whenever, every unit of the file is written,
\* queued or in one reader's hands until the copy is stopped, the count of
\* busy readers is theirs, and a fetch that succeeds wrote each unit once
\* (_Blocks.take, _Blocks.done, _Fetch.run).
THEOREM NoBlockIsLost == ReplicaSpec => []NoBlockLost
<1>1. FetchInv => NoBlockLost
  <2> SUFFICES ASSUME FetchInv PROVE NoBlockLost
    OBVIOUS
  <2>1. ASSUME Live, ~blocks.stopped, NEW u \in 0 .. Length - 1
        PROVE  put[u] + Cardinality({r \in Holding : u \in Held(r)})
                      + (IF u \in Queued THEN 1 ELSE 0) = 1
    BY <2>1, CountedOnce DEF FileUnits
  <2>2. blocks.busy = Cardinality(Holding)
    BY DEF FetchInv, Counted
  <2>3. ASSUME fetch.result = "ok" PROVE \A u \in 0 .. Length - 1 : put[u] = 1
    <3>1. Written \in SUBSET FileUnits
      BY DEF Written
    <3>2. Cardinality(Written) <= Length /\ Cardinality(Written) \in Nat
      BY <3>1, FiniteParts, FS_Subset, WrittenFinite
    <3>3. Cardinality(Written) >= Length /\ Length \in Nat
      BY <2>3, ReplicasAssumption DEF FetchInv, Counted
    <3>4. Cardinality(FileUnits) = Cardinality(Written)
      BY <3>2, <3>3, FiniteParts
    <3>5. Written = FileUnits
      BY <3>1, <3>4, FiniteParts, FS_Subset
    <3> QED
      BY <3>5 DEF Written, FileUnits
  <2> QED
    BY <2>1, <2>2, <2>3 DEF NoBlockLost
<1> QED
  BY <1>1, FetchStarts, FetchSteps, PTL DEF ReplicaSpec

-----------------------------------------------------------------------------
(* Writing to a file (FileWriting).                                        *)

HandleFields == {"live", "checkpoint", "stat", "hint", "seekable"}
ServerFields == {"data", "size", "corrupt", "undo"}
CallFields == {"kind", "pc", "next", "inflight", "failure", "again", "high", "pages", "tries", "result"}
ToldFields == {"calls", "begun", "moved", "stale"}

WriteType ==
    /\ DOMAIN fh = HandleFields /\ fh.live \in BOOLEAN /\ fh.checkpoint \in BOOLEAN /\ fh.stat \in BOOLEAN
    /\ DOMAIN srv = ServerFields /\ srv.data \in [AllUnits -> Nat]
    /\ DOMAIN op = CallFields /\ op.pc \in {"idle", "plane", "event", "again", "pages", "batches"}
    /\ op.next \in 0 .. Units /\ op.failure \in {"none", "unsupported", "server"}
    /\ DOMAIN told = ToldFields /\ told.calls \in Nat /\ told.moved \in Nat /\ told.stale \in BOOLEAN

\* Which call is in which place.  Nothing goes over the plane, and no batch
\* goes out, inside a checkpoint.
WhoWrites ==
    /\ op.pc \in {"plane", "event"} => op.kind \in Plane
    /\ op.pc = "pages" => op.kind = "pgwrite"
    /\ op.pc = "again" \/ op.again # {} => op.kind = "upload"
    /\ op.pc = "batches" => op.kind = "writev"
    /\ op.pc \in {"plane", "again", "batches"} => ~fh.checkpoint
    /\ op.kind = "rollback" => op.pc = "idle"

\* Unit u has the bytes of the last call.
Own(s, t, u) == s.data[u] = t.calls /\ u \notin s.corrupt

\* Every unit that went out is in flight, put off, or there; and an upload
\* has counted those that are there.
Window(o, s, t) ==
    /\ o.inflight \subseteq 0 .. o.next - 1 /\ o.again \subseteq 0 .. o.next - 1 /\ o.inflight \cap o.again = {}
    /\ o.failure = "none" =>
          /\ \A u \in 0 .. o.next - 1 : u \in o.inflight \/ u \in o.again \/ Own(s, t, u)
          /\ o.kind = "upload" => t.moved + Cardinality(o.inflight) + Cardinality(o.again) = o.next

PutOff(o, s, t) ==
    /\ o.again \subseteq AllUnits /\ \A u \in AllUnits : u \in o.again \/ Own(s, t, u)
    /\ t.moved + Cardinality(o.again) = Units

OneByOne(o, s, t) ==
    /\ \A u \in 0 .. o.next - 1 : Own(s, t, u)
    /\ o.kind = "upload" => t.moved = o.next

Paged(o, s, t) == \A u \in AllUnits : s.data[u] = t.calls /\ (u \in s.corrupt => u \in o.pages)

Returned(o, s, t) ==
    o.result = "ok" /\ o.kind \notin {"truncate", "none"} =>
        /\ \A u \in AllUnits : Own(s, t, u)
        /\ o.kind = "upload" => t.moved = Units

Progress(o, s, t) ==
    /\ o.pc = "plane" => Window(o, s, t)
    /\ o.pc = "again" => PutOff(o, s, t)
    /\ o.pc \in {"event", "batches"} => OneByOne(o, s, t)
    /\ o.pc = "pages" => Paged(o, s, t)
    /\ o.pc = "idle" => Returned(o, s, t)

\* What the server has, and what it wrote down, make up the file as it was.
Undoable(s, begun) ==
    /\ begun = [data |-> begun.data, size |-> begun.size] /\ begun.data \in [AllUnits -> Nat]
    /\ DOMAIN s.undo = {"old", "size"} /\ s.undo.size = begun.size
    /\ \A u \in AllUnits : begun.data[u] = IF u \in DOMAIN s.undo.old THEN s.undo.old[u] ELSE s.data[u]

Journalling ==
    /\ fh.checkpoint => Undoable(srv, told.begun)
    /\ op.kind = "rollback" => [data |-> srv.data, size |-> srv.size] = told.begun

\* A cached size is the server's, but for a call under way that drops it.
Cached ==
    (fh.live /\ fh.stat /\ ~told.stale) =>
        \/ fh.hint = srv.size
        \/ op.pc # "idle" /\ (op.kind \in DropLate \/ op.pc = "plane")

WriteInv == WriteType /\ WhoWrites /\ Progress(op, srv, told) /\ Journalling /\ Cached

-----------------------------------------------------------------------------
(* What the operators of the model do.                                     *)

LEMMA UnitsAre == Units \in Nat /\ AllUnits = 0 .. Units - 1 /\ 0 \in 0 .. Units
  BY WritingAssumption DEF AllUnits

LEMMA RestIs ==
    /\ DOMAIN Rest = CallFields /\ Rest.kind = "none" /\ Rest.pc = "idle" /\ Rest.next = 0 /\ Rest.inflight = {}
    /\ Rest.failure = "none" /\ Rest.again = {} /\ Rest.pages = {} /\ Rest.result = "none" /\ Rest.high = 0
  BY DEF Rest, CallFields

LEMMA ReturnsIs ==
    ASSUME NEW result, Returns(result)
    PROVE  /\ DOMAIN op' = CallFields /\ op'.kind = op.kind /\ op'.pc = "idle" /\ op'.next = 0
           /\ op'.failure = "none" /\ op'.again = {} /\ op'.result = result
  BY RestIs DEF Returns, CallFields

\* A call begins, or is over at once.
LEMMA NewCall ==
    ASSUME NEW kind, NEW pc, NEW pages, NEW result
    PROVE  LET o == [Rest EXCEPT !.kind = kind, !.pc = pc, !.pages = pages, !.result = result]
           IN /\ DOMAIN o = CallFields /\ o.kind = kind /\ o.pc = pc /\ o.next = 0 /\ o.failure = "none"
              /\ o.again = {} /\ o.inflight = {} /\ o.pages = pages /\ o.result = result
  BY RestIs DEF CallFields

LEMMA InvalidatedIs ==
    ASSUME NEW f, DOMAIN f = HandleFields, NEW high
    PROVE  LET g == Invalidated(f, high)
           IN /\ DOMAIN g = HandleFields /\ g.stat = FALSE /\ g.live = f.live /\ g.checkpoint = f.checkpoint
              /\ g.seekable = f.seekable
  BY DEF Invalidated, HandleFields

\* The file at the server, after a value was stored at some units.
StoredAs(s, before, units, value) ==
    /\ DOMAIN s = ServerFields /\ s.data \in [AllUnits -> Nat]
    /\ s.corrupt = before.corrupt \ units
    /\ \A u \in AllUnits : s.data[u] = IF u \in units THEN value ELSE before.data[u]

LEMMA StoredIs ==
    ASSUME WriteType, NEW units, NEW value \in Nat, NEW journalled
    PROVE  StoredAs(Stored(srv, units, value, journalled), srv, units, value)
<1> DEFINE d == [u \in AllUnits |-> IF u \in units THEN value ELSE srv.data[u]]
           m == Max({srv.size} \cup {u + 1 : u \in units})
           c == srv.corrupt \ units
           j == IF journalled THEN Journalled(srv, units) ELSE srv.undo
           s == Stored(srv, units, value, journalled)
<1>0. DOMAIN srv = ServerFields /\ srv.data \in [AllUnits -> Nat]
  BY DEF WriteType
<1>1. s = [srv EXCEPT !.data = d, !.size = m, !.corrupt = c, !.undo = j]
  BY Zenon DEF Stored
<1>2. d \in [AllUnits -> Nat] /\ \A u \in AllUnits : d[u] = IF u \in units THEN value ELSE srv.data[u]
  BY <1>0
<1> HIDE DEF d, m, c, j, s
<1>3. DOMAIN s = ServerFields /\ s.data = d /\ s.corrupt = c
  BY <1>0, <1>1 DEF ServerFields
<1>4. StoredAs(s, srv, units, value)
  BY <1>2, <1>3 DEF c, StoredAs
<1> QED
  BY <1>4 DEF s

LEMMA StoredInside ==
    ASSUME WriteType, NEW units, NEW value \in Nat
    PROVE  Stored(srv, units, value, TRUE).undo = Journalled(srv, units)
<1>1. DOMAIN srv = ServerFields
  BY DEF WriteType
<1> QED
  BY <1>1 DEF Stored, ServerFields

\* A unit stored is the call's own, and nobody else's is touched.
LEMMA StoreOwns ==
    ASSUME WriteType, NEW u \in AllUnits, NEW journalled, NEW t, t.calls \in Nat,
           NEW s, s = Store(srv, u, t.calls, journalled)
    PROVE  /\ DOMAIN s = ServerFields /\ s.data \in [AllUnits -> Nat]
           /\ Own(s, t, u) /\ \A v \in AllUnits : Own(srv, t, v) => Own(s, t, v)
<1>1. StoredAs(s, srv, {u}, t.calls)
  BY StoredIs DEF Store
<1> QED
  BY <1>1 DEF Own, StoredAs

\* Inside a checkpoint it can be undone.
LEMMA StoreUndoes ==
    ASSUME WriteType, NEW units, NEW value \in Nat, NEW begun, Undoable(srv, begun)
    PROVE  Undoable(Stored(srv, units, value, TRUE), begun)
<1> DEFINE s == Stored(srv, units, value, TRUE)
           old == [x \in DOMAIN srv.undo.old \cup units |->
                     IF x \in DOMAIN srv.undo.old THEN srv.undo.old[x] ELSE srv.data[x]]
<1>1. s.undo = Journalled(srv, units) /\ StoredAs(s, srv, units, value)
  BY StoredIs, StoredInside
<1>2. s.undo = [srv.undo EXCEPT !.old = old]
  BY <1>1 DEF Journalled
<1>3. /\ DOMAIN old = DOMAIN srv.undo.old \cup units
      /\ \A x \in DOMAIN old : old[x] = IF x \in DOMAIN srv.undo.old THEN srv.undo.old[x] ELSE srv.data[x]
  OBVIOUS
<1> HIDE DEF s, old
<1>4. DOMAIN s.undo = {"old", "size"} /\ s.undo.old = old /\ s.undo.size = srv.undo.size
  BY <1>2 DEF Undoable
<1>5. Undoable(s, begun)
  <2>1. ASSUME NEW u \in AllUnits
        PROVE  begun.data[u] = IF u \in DOMAIN old THEN old[u] ELSE s.data[u]
    BY <1>1, <1>3 DEF Undoable, StoredAs
  <2> QED
    BY <1>4, <2>1 DEF Undoable
<1> QED
  BY <1>5 DEF s

-----------------------------------------------------------------------------
(* The steps.                                                              *)

LEMMA WriteStart == WriteInit => WriteInv
<1> SUFFICES ASSUME WriteInit PROVE WriteInv
  OBVIOUS
<1> USE UnitsAre, RestIs
<1>1. /\ DOMAIN fh = HandleFields /\ fh.live = TRUE /\ fh.checkpoint = FALSE /\ fh.stat = TRUE /\ fh.hint = 0
      /\ op = Rest
  BY DEF WriteInit, HandleFields
<1>2. DOMAIN srv = ServerFields /\ srv.data \in [AllUnits -> Nat] /\ srv.size = 0
  <2>1. srv.data = [u \in AllUnits |-> 0] /\ srv.size = 0 /\ DOMAIN srv = ServerFields
    BY DEF WriteInit, ServerFields
  <2>2. [u \in AllUnits |-> 0] \in [AllUnits -> Nat]
    OBVIOUS
  <2> QED
    BY <2>1, <2>2
<1>3. DOMAIN told = ToldFields /\ told.calls = 0 /\ told.moved = 0 /\ told.stale = FALSE
  BY DEF WriteInit, ToldFields
<1>4. WriteType
  <2>1. fh.live \in BOOLEAN /\ fh.checkpoint \in BOOLEAN /\ fh.stat \in BOOLEAN /\ told.stale \in BOOLEAN
    BY <1>1, <1>3, Zenon
  <2>2. /\ DOMAIN op = CallFields /\ op.pc \in {"idle", "plane", "event", "again", "pages", "batches"}
        /\ op.next \in 0 .. Units /\ op.failure \in {"none", "unsupported", "server"}
    BY <1>1
  <2>3. told.calls \in Nat /\ told.moved \in Nat
    BY <1>3
  <2> QED
    BY <1>1, <1>2, <1>3, <2>1, <2>2, <2>3, Zenon DEF WriteType
<1>5. WhoWrites /\ Progress(op, srv, told) /\ Journalling /\ Cached
  BY <1>1, <1>2, <1>3 DEF WhoWrites, Progress, Returned, Journalling, Cached
<1> QED
  BY <1>4, <1>5 DEF WriteInv

\* A call is made.
LEMMA CallTold ==
    ASSUME WriteType, NEW kind, Call(kind)
    PROVE  /\ DOMAIN told' = ToldFields /\ told'.calls = told.calls + 1 /\ told'.calls \in Nat /\ told'.moved = 0
           /\ told'.begun = told.begun /\ told'.stale = told.stale /\ op.pc = "idle"
<1>1. DOMAIN told = ToldFields /\ told.calls \in Nat
  BY DEF WriteType
<1>2. told' = [told EXCEPT !.calls = told.calls + 1, !.moved = 0] /\ op.pc = "idle"
  BY DEF Call
<1> QED
  BY <1>1, <1>2 DEF ToldFields

\* A call that has just begun is one of these.
LEMMA FreshType ==
    ASSUME WriteType, NEW kind, Call(kind), NEW pc \in {"idle", "plane", "event", "again", "pages", "batches"}, NEW o,
           DOMAIN o = CallFields, o.pc = pc, o.next = 0, o.failure = "none", op' = o,
           DOMAIN fh' = HandleFields, fh'.live \in BOOLEAN, fh'.checkpoint \in BOOLEAN, fh'.stat \in BOOLEAN,
           DOMAIN srv' = ServerFields, srv'.data \in [AllUnits -> Nat]
    PROVE  WriteType'
<1>1. DOMAIN told' = ToldFields /\ told'.calls \in Nat /\ told'.moved = 0 /\ told'.stale = told.stale
  BY CallTold
<1>2. told'.moved \in Nat /\ told'.stale \in BOOLEAN /\ o.next \in 0 .. Units
  BY <1>1, UnitsAre DEF WriteType
<1> QED
  BY <1>1, <1>2 DEF WriteType

LEMMA BeginWriteStep == ASSUME WriteInv, NEW kind \in Plane, BeginWrite(kind) PROVE WriteInv'
<1> WriteType /\ WhoWrites /\ Journalling /\ Cached
  BY DEF WriteInv
<1>1. PICK pc \in {"plane", "event"} : (pc = "plane" => WritesOnPlane) /\ op' = [Rest EXCEPT !.kind = kind, !.pc = pc]
  BY DEF BeginWrite
<1>2. Call(kind) /\ UNCHANGED <<fh, srv>>
  BY DEF BeginWrite
<1>3. /\ DOMAIN op' = CallFields /\ op'.kind = kind /\ op'.pc = pc /\ op'.next = 0 /\ op'.inflight = {}
      /\ op'.again = {} /\ op'.failure = "none"
  BY <1>1, RestIs DEF CallFields
<1>4. /\ told'.moved = 0 /\ told'.begun = told.begun /\ told'.stale = told.stale /\ op.pc = "idle"
  BY <1>2, CallTold
<1>5. WriteType'
  <2>1. /\ DOMAIN fh' = HandleFields /\ fh'.live \in BOOLEAN /\ fh'.checkpoint \in BOOLEAN /\ fh'.stat \in BOOLEAN
        /\ DOMAIN srv' = ServerFields /\ srv'.data \in [AllUnits -> Nat]
    BY <1>2 DEF WriteType
  <2> QED
    BY <1>2, <1>3, <2>1, FreshType
<1>6. WhoWrites'
  BY <1>1, <1>2, <1>3 DEF WhoWrites, WritesOnPlane, Plane
<1>7. Progress(op, srv, told)'
  <2>1. Window(op, srv, told)'
    <3>1. Cardinality({}) = 0 /\ 0 .. 0 - 1 = {} /\ 0 + 0 + 0 = 0
      BY FS_EmptySet
    <3> QED
      BY <1>3, <1>4, <3>1 DEF Window
  <2>2. OneByOne(op, srv, told)'
    <3>1. 0 .. 0 - 1 = {}
      OBVIOUS
    <3> QED
      BY <1>3, <1>4, <3>1 DEF OneByOne
  <2> QED
    BY <1>1, <1>3, <2>1, <2>2 DEF Progress
<1>8. Journalling'
  BY <1>2, <1>3, <1>4 DEF Journalling, Plane
<1>9. Cached'
  BY <1>2, <1>4 DEF Cached
<1> QED
  BY <1>5, <1>6, <1>7, <1>8, <1>9 DEF WriteInv

\* A call that changes nothing at the server and nothing of the handle but
\* its place, and is still under way.
LEMMA PlaneSendStep == ASSUME WriteInv, PlaneSend PROVE WriteInv'
<1> WriteType /\ WhoWrites /\ Progress(op, srv, told) /\ Journalling /\ Cached
  BY DEF WriteInv
<1>1. op' = [op EXCEPT !.next = op.next + 1, !.inflight = op.inflight \cup {op.next}]
      /\ op.pc = "plane" /\ op.next < Units /\ UNCHANGED <<fh, srv, told>>
  BY DEF PlaneSend
<1> DEFINE n == op.next
           w == op.inflight \cup {n}
<1>2. /\ DOMAIN op' = CallFields /\ op'.kind = op.kind /\ op'.pc = op.pc /\ op'.next = n + 1 /\ op'.inflight = w
      /\ op'.again = op.again /\ op'.failure = op.failure
  BY <1>1 DEF WriteType, CallFields
<1>3. n \in Nat /\ n + 1 \in 0 .. Units /\ (n + 1) - 1 = n
  BY <1>1, UnitsAre DEF WriteType
<1>4. WriteType'
  BY <1>1, <1>2, <1>3 DEF WriteType
<1>5. WhoWrites' /\ Journalling' /\ Cached'
  BY <1>1, <1>2 DEF WhoWrites, Journalling, Cached
<1>6. Window(op, srv, told)
  BY <1>1 DEF Progress
<1>7. Window(op, srv, told)'
  <2>1. op.inflight \subseteq 0 .. n - 1 /\ op.again \subseteq 0 .. n - 1 /\ op.inflight \cap op.again = {}
    BY <1>6 DEF Window
  <2>2. n \notin op.inflight /\ n \notin op.again /\ 0 .. n - 1 \subseteq 0 .. n /\ n \in 0 .. n
    BY <1>3, <2>1
  <2>3. w \subseteq 0 .. n /\ op.again \subseteq 0 .. n /\ w \cap op.again = {}
    BY <2>1, <2>2
  <2>4. /\ IsFiniteSet(op.inflight) /\ IsFiniteSet(op.again)
        /\ Cardinality(w) = Cardinality(op.inflight) + 1
    <3>1. IsFiniteSet(0 .. n - 1)
      BY <1>3, FS_Interval
    <3>2. IsFiniteSet(op.inflight) /\ IsFiniteSet(op.again)
      BY <2>1, <3>1, FS_Subset
    <3> QED
      BY <2>2, <3>2, FS_AddElement
  <2>5. Cardinality(op.inflight) \in Nat /\ Cardinality(op.again) \in Nat /\ told.moved \in Nat
    BY <2>4, FS_CardinalityType DEF WriteType
  <2>6. ASSUME op.failure = "none" PROVE \A u \in 0 .. n : u \in w \/ u \in op.again \/ Own(srv, told, u)
    <3> SUFFICES ASSUME NEW u \in 0 .. n PROVE u \in w \/ u \in op.again \/ Own(srv, told, u)
      OBVIOUS
    <3>1. u \in 0 .. n - 1 \/ u = n
      BY <1>3
    <3> QED
      BY <1>6, <2>6, <3>1 DEF Window
  <2>7. ASSUME op.failure = "none", op.kind = "upload"
        PROVE  told.moved + Cardinality(w) + Cardinality(op.again) = n + 1
    <3>1. told.moved + Cardinality(op.inflight) + Cardinality(op.again) = n
      BY <1>6, <2>7 DEF Window
    <3> DEFINE a == told.moved
               b == Cardinality(op.inflight)
               c == Cardinality(op.again)
    <3>2. a \in Nat /\ b \in Nat /\ c \in Nat /\ a + b + c = n
      BY <2>5, <3>1
    <3> HIDE DEF a, b, c, n
    <3>3. a + (b + 1) + c = n + 1
      BY <3>2
    <3> QED
      BY <2>4, <3>3 DEF a, b, c
  <2> HIDE DEF n, w
  <2> QED
    BY <1>1, <1>2, <1>3, <2>3, <2>6, <2>7 DEF Window
<1>8. Progress(op, srv, told)'
  BY <1>1, <1>2, <1>7 DEF Progress
<1> QED
  BY <1>4, <1>5, <1>8 DEF WriteInv

\* What is in flight or put off is finite, and is counted one by one.
LEMMA WindowCounts ==
    ASSUME WriteType, Window(op, srv, told), NEW u \in op.inflight
    PROVE  /\ u \in AllUnits /\ u \in 0 .. op.next - 1 /\ u \notin op.again
           /\ Cardinality(op.inflight) \in Nat \ {0} /\ Cardinality(op.again) \in Nat
           /\ Cardinality(op.inflight \ {u}) = Cardinality(op.inflight) - 1
           /\ Cardinality(op.again \cup {u}) = Cardinality(op.again) + 1
<1>1. op.inflight \subseteq 0 .. op.next - 1 /\ op.again \subseteq 0 .. op.next - 1 /\ op.inflight \cap op.again = {}
  BY DEF Window
<1>2. op.next \in Nat /\ op.next <= Units
  BY UnitsAre DEF WriteType
<1>3. u \in 0 .. op.next - 1 /\ u \notin op.again
  BY <1>1
<1>4. u \in AllUnits
  BY <1>2, <1>3, UnitsAre
<1>5. IsFiniteSet(0 .. op.next - 1)
  BY <1>2, FS_Interval
<1>6. IsFiniteSet(op.inflight) /\ IsFiniteSet(op.again)
  BY <1>1, <1>5, FS_Subset
<1>7. Cardinality(op.inflight) \in Nat /\ Cardinality(op.again) \in Nat /\ Cardinality(op.inflight) # 0
  BY <1>6, FS_CardinalityType, FS_EmptySet
<1>8. /\ Cardinality(op.inflight \ {u}) = Cardinality(op.inflight) - 1
      /\ Cardinality(op.again \cup {u}) = Cardinality(op.again) + 1
  BY <1>3, <1>6, FS_RemoveElement, FS_AddElement
<1> QED
  BY <1>3, <1>4, <1>7, <1>8

LEMMA AnswerStored ==
    ASSUME WriteInv, op.pc = "plane", NEW u \in op.inflight,
           op' = [op EXCEPT !.inflight = op.inflight \ {u}, !.high = Max({op.high, u + 1})],
           srv' = Store(srv, u, told.calls, FALSE), told' = [told EXCEPT !.moved = told.moved + 1], UNCHANGED fh
    PROVE  WriteInv'
<1> WriteType /\ WhoWrites /\ Progress(op, srv, told) /\ Journalling /\ Cached
  BY DEF WriteInv
<1> DEFINE w == op.inflight \ {u}
<1>1. /\ DOMAIN op' = CallFields /\ op'.kind = op.kind /\ op'.pc = op.pc /\ op'.next = op.next /\ op'.inflight = w
      /\ op'.again = op.again /\ op'.failure = op.failure
  BY DEF WriteType, CallFields
<1>2. /\ DOMAIN told' = ToldFields /\ told'.calls = told.calls /\ told'.moved = told.moved + 1
      /\ told'.begun = told.begun /\ told'.stale = told.stale /\ told.moved \in Nat /\ told.calls \in Nat
  BY DEF WriteType, ToldFields
<1>3. Window(op, srv, told)
  BY DEF Progress
<1>4. /\ u \in AllUnits /\ u \in 0 .. op.next - 1 /\ u \notin op.again
      /\ Cardinality(op.inflight) \in Nat \ {0} /\ Cardinality(op.again) \in Nat
      /\ Cardinality(w) = Cardinality(op.inflight) - 1
  BY <1>3, WindowCounts
<1>5. /\ DOMAIN srv' = ServerFields /\ srv'.data \in [AllUnits -> Nat]
      /\ Own(srv', told, u) /\ \A v \in AllUnits : Own(srv, told, v) => Own(srv', told, v)
  BY <1>2, <1>4, StoreOwns
<1>6. WriteType'
  <2>1. told'.moved \in Nat /\ told'.calls \in Nat
    BY <1>2
  <2> QED
    BY <1>1, <1>2, <1>5, <2>1 DEF WriteType
<1>7. WhoWrites' /\ Cached'
  BY <1>1 DEF WhoWrites, Cached
<1>8. Journalling'
  BY <1>1 DEF Journalling, WhoWrites
<1>9. Window(op', srv', told')
  <2>1. op.inflight \subseteq 0 .. op.next - 1 /\ op.again \subseteq 0 .. op.next - 1 /\ op.inflight \cap op.again = {}
    BY <1>3 DEF Window
  <2>2. \A v \in 0 .. op.next - 1 : v \in AllUnits
    BY UnitsAre DEF WriteType
  <2>3. \A v : Own(srv', told, v) <=> Own(srv', told', v)
    BY <1>2 DEF Own
  <2>4. ASSUME op.failure = "none", NEW v \in 0 .. op.next - 1
        PROVE  v \in w \/ v \in op.again \/ Own(srv', told', v)
    <3>1. v \in op.inflight \/ v \in op.again \/ Own(srv, told, v)
      BY <1>3, <2>4 DEF Window
    <3> QED
      BY <1>5, <2>2, <2>3, <3>1
  <2>5. ASSUME op.failure = "none", op.kind = "upload"
        PROVE  told'.moved + Cardinality(w) + Cardinality(op.again) = op.next
    <3> DEFINE a == told.moved
               b == Cardinality(op.inflight)
               c == Cardinality(op.again)
    <3>1. a \in Nat /\ b \in Nat \ {0} /\ c \in Nat /\ a + b + c = op.next
      BY <1>2, <1>3, <1>4, <2>5 DEF Window
    <3>2. told'.moved = a + 1 /\ Cardinality(w) = b - 1
      BY <1>2, <1>4
    <3> HIDE DEF a, b, c
    <3>3. (a + 1) + (b - 1) + c = a + b + c
      BY <3>1
    <3> QED
      BY <3>1, <3>2, <3>3 DEF c
  <2>6. w \subseteq 0 .. op.next - 1 /\ w \cap op.again = {}
    BY <2>1
  <2> HIDE DEF w
  <2> QED
    BY <1>1, <2>1, <2>4, <2>5, <2>6 DEF Window
<1>10. Progress(op', srv', told')
  BY <1>1, <1>9 DEF Progress
<1> QED
  BY <1>6, <1>7, <1>8, <1>10 DEF WriteInv

LEMMA AnswerPutOff ==
    ASSUME WriteInv, op.pc = "plane", NEW u \in op.inflight, Waits,
           op' = [op EXCEPT !.inflight = op.inflight \ {u}, !.again = op.again \cup {u}], UNCHANGED <<fh, srv, told>>
    PROVE  WriteInv'
<1> WriteType /\ WhoWrites /\ Progress(op, srv, told) /\ Journalling /\ Cached
  BY DEF WriteInv
<1> DEFINE w == op.inflight \ {u}
           m == op.again \cup {u}
<1>1. /\ DOMAIN op' = CallFields /\ op'.kind = op.kind /\ op'.pc = op.pc /\ op'.next = op.next /\ op'.inflight = w
      /\ op'.again = m /\ op'.failure = op.failure /\ op.kind = "upload"
  BY DEF WriteType, CallFields, Waits
<1>2. Window(op, srv, told)
  BY DEF Progress
<1>3. /\ u \in AllUnits /\ u \in 0 .. op.next - 1 /\ u \notin op.again
      /\ Cardinality(op.inflight) \in Nat \ {0} /\ Cardinality(op.again) \in Nat
      /\ Cardinality(w) = Cardinality(op.inflight) - 1 /\ Cardinality(m) = Cardinality(op.again) + 1
  BY <1>2, WindowCounts
<1>4. WriteType'
  BY <1>1 DEF WriteType
<1>5. WhoWrites' /\ Journalling' /\ Cached'
  BY <1>1 DEF WhoWrites, Journalling, Cached
<1>6. Window(op', srv', told')
  <2>1. op.inflight \subseteq 0 .. op.next - 1 /\ op.again \subseteq 0 .. op.next - 1 /\ op.inflight \cap op.again = {}
    BY <1>2 DEF Window
  <2>2. ASSUME op.failure = "none", NEW v \in 0 .. op.next - 1
        PROVE  v \in w \/ v \in m \/ Own(srv, told, v)
    BY <1>2, <2>2 DEF Window
  <2>3. ASSUME op.failure = "none"
        PROVE  told.moved + Cardinality(w) + Cardinality(m) = op.next
    <3> DEFINE a == told.moved
               b == Cardinality(op.inflight)
               c == Cardinality(op.again)
    <3>1. a \in Nat /\ b \in Nat \ {0} /\ c \in Nat /\ a + b + c = op.next
      BY <1>1, <1>2, <1>3, <2>3 DEF Window, WriteType
    <3>2. Cardinality(w) = b - 1 /\ Cardinality(m) = c + 1
      BY <1>3
    <3> HIDE DEF a, b, c
    <3>3. a + (b - 1) + (c + 1) = a + b + c
      BY <3>1
    <3> QED
      BY <3>1, <3>2, <3>3 DEF a
  <2>4. w \subseteq 0 .. op.next - 1 /\ m \subseteq 0 .. op.next - 1 /\ w \cap m = {}
    BY <1>3, <2>1
  <2> HIDE DEF w, m
  <2> QED
    BY <1>1, <2>2, <2>3, <2>4 DEF Window
<1>7. Progress(op', srv', told')
  BY <1>1, <1>6 DEF Progress
<1> QED
  BY <1>4, <1>5, <1>7 DEF WriteInv

LEMMA AnswerRefused ==
    ASSUME WriteInv, op.pc = "plane", NEW u \in op.inflight, NEW why \in {"unsupported", "server"},
           op' = [op EXCEPT !.inflight = op.inflight \ {u}, !.failure = IF op.failure # "none" THEN op.failure ELSE why],
           UNCHANGED <<fh, srv, told>>
    PROVE  WriteInv'
<1> WriteType /\ WhoWrites /\ Progress(op, srv, told) /\ Journalling /\ Cached
  BY DEF WriteInv
<1> DEFINE w == op.inflight \ {u}
           f == IF op.failure # "none" THEN op.failure ELSE why
<1>0. f \in {"unsupported", "server"}
  BY DEF WriteType
<1> HIDE DEF f
<1>1. /\ DOMAIN op' = CallFields /\ op'.kind = op.kind /\ op'.pc = op.pc /\ op'.next = op.next /\ op'.inflight = w
      /\ op'.again = op.again /\ op'.failure = f
  BY DEF WriteType, CallFields, f
<1>2. WriteType'
  BY <1>0, <1>1 DEF WriteType
<1>3. WhoWrites' /\ Journalling' /\ Cached'
  BY <1>1 DEF WhoWrites, Journalling, Cached
<1>4. Window(op', srv', told')
  <2>1. op.inflight \subseteq 0 .. op.next - 1 /\ op.again \subseteq 0 .. op.next - 1 /\ op.inflight \cap op.again = {}
    BY DEF Window, Progress
  <2> QED
    BY <1>0, <1>1, <2>1 DEF Window
<1>5. Progress(op', srv', told')
  BY <1>1, <1>4 DEF Progress
<1> QED
  BY <1>2, <1>3, <1>5 DEF WriteInv

LEMMA PlaneAnswerStep == ASSUME WriteInv, PlaneAnswer PROVE WriteInv'
<1>0. op.pc = "plane" /\ UNCHANGED fh /\ DOMAIN op = CallFields
  BY DEF PlaneAnswer, WriteInv, WriteType
<1>1. PICK u \in op.inflight, st \in {"ok", "wait", "error"} :
        LET o == [op EXCEPT !.inflight = @ \ {u}]
        IN CASE st = "ok" ->
                  /\ op' = [o EXCEPT !.high = Max({@, u + 1})]
                  /\ srv' = Store(srv, u, told.calls, FALSE)
                  /\ told' = [told EXCEPT !.moved = @ + 1]
             [] st = "wait" /\ Waits ->
                  op' = [o EXCEPT !.again = @ \cup {u}] /\ UNCHANGED <<srv, told>>
             [] OTHER ->
                  /\ op' = [o EXCEPT !.failure = IF @ # "none" THEN @ ELSE
                                       IF st = "wait" THEN "unsupported" ELSE "server"]
                  /\ UNCHANGED <<srv, told>>
  BY Zenon DEF PlaneAnswer
<1> DEFINE w == op.inflight \ {u}
<1>2. CASE st = "ok"
  <2>1. /\ op' = [op EXCEPT !.inflight = w, !.high = Max({op.high, u + 1})]
        /\ srv' = Store(srv, u, told.calls, FALSE) /\ told' = [told EXCEPT !.moved = told.moved + 1]
    BY <1>0, <1>1, <1>2 DEF CallFields
  <2> QED
    BY <1>0, <2>1, AnswerStored
<1>3. CASE st = "wait" /\ Waits
  <2>1. op' = [op EXCEPT !.inflight = w, !.again = op.again \cup {u}] /\ UNCHANGED <<srv, told>>
    BY <1>0, <1>1, <1>3 DEF CallFields
  <2> QED
    BY <1>0, <1>3, <2>1, AnswerPutOff
<1>4. CASE st # "ok" /\ ~(st = "wait" /\ Waits)
  <2> DEFINE why == IF st = "wait" THEN "unsupported" ELSE "server"
  <2>1. /\ op' = [op EXCEPT !.inflight = w, !.failure = IF op.failure # "none" THEN op.failure ELSE why]
        /\ UNCHANGED <<srv, told>>
    BY <1>0, <1>1, <1>4 DEF CallFields
  <2>2. why \in {"unsupported", "server"}
    OBVIOUS
  <2> HIDE DEF why
  <2> QED
    BY <1>0, <2>1, <2>2, AnswerRefused
<1> QED
  BY <1>2, <1>3, <1>4

LEMMA InvalidatedStep ==
    ASSUME WriteType, NEW high, fh' = Invalidated(fh, high)
    PROVE  /\ DOMAIN fh' = HandleFields /\ fh'.stat = FALSE /\ fh'.live = fh.live
           /\ fh'.checkpoint = fh.checkpoint
<1>1. DOMAIN fh = HandleFields
  BY DEF WriteType
<1> QED
  BY <1>1 DEF Invalidated, HandleFields

LEMMA UnsureStep ==
    ASSUME WriteType, Unsure
    PROVE  /\ DOMAIN told' = ToldFields /\ told'.calls = told.calls /\ told'.moved = told.moved
           /\ told'.begun = told.begun /\ told'.stale \in BOOLEAN
           /\ (told.stale \/ op.kind \in DropLate) => told'.stale
<1> DEFINE b == told.stale \/ op.kind \in DropLate
<1>1. DOMAIN told = ToldFields /\ b \in BOOLEAN
  BY DEF WriteType
<1>2. told' = [told EXCEPT !.stale = b]
  BY DEF Unsure
<1> HIDE DEF b
<1>3. /\ DOMAIN told' = ToldFields /\ told'.calls = told.calls /\ told'.moved = told.moved
      /\ told'.begun = told.begun /\ told'.stale = b
  BY <1>1, <1>2 DEF ToldFields
<1> QED
  BY <1>1, <1>3 DEF b

\* A call under way is over, with a result that is true, and the handle's
\* cache dropped or right.
LEMMA ReturnStep ==
    ASSUME WriteInv, op.pc # "idle", NEW result, Returns(result),
           DOMAIN srv' = ServerFields, srv'.data \in [AllUnits -> Nat],
           DOMAIN fh' = HandleFields, fh'.live \in BOOLEAN, fh'.stat \in BOOLEAN, fh'.checkpoint = fh.checkpoint,
           DOMAIN told' = ToldFields, told'.calls = told.calls, told'.moved \in Nat, told'.begun = told.begun,
           told'.stale \in BOOLEAN,
           fh.checkpoint => Undoable(srv', told.begun),
           result = "ok" => /\ \A u \in AllUnits : Own(srv', told, u)
                            /\ op.kind = "upload" => told'.moved = Units,
           (fh'.live /\ fh'.stat /\ ~told'.stale) => fh'.hint = srv'.size
    PROVE  WriteInv'
<1> WriteType /\ WhoWrites /\ Journalling /\ Cached
  BY DEF WriteInv
<1>1. /\ DOMAIN op' = CallFields /\ op'.kind = op.kind /\ op'.pc = "idle" /\ op'.next = 0
      /\ op'.failure = "none" /\ op'.again = {} /\ op'.result = result
  BY ReturnsIs
<1>2. WriteType'
  <2>1. op'.next \in 0 .. Units /\ fh'.checkpoint \in BOOLEAN /\ told'.calls \in Nat
    BY <1>1, UnitsAre DEF WriteType
  <2> QED
    BY <1>1, <2>1 DEF WriteType
<1>3. WhoWrites'
  BY <1>1 DEF WhoWrites
<1>4. Progress(op', srv', told')
  <2>1. \A u : Own(srv', told, u) <=> Own(srv', told', u)
    BY DEF Own
  <2>2. Returned(op', srv', told')
    BY <1>1, <2>1 DEF Returned
  <2> QED
    BY <1>1, <2>2 DEF Progress
<1>5. Journalling'
  BY <1>1 DEF Journalling, WhoWrites
<1>6. Cached'
  BY DEF Cached
<1> QED
  BY <1>2, <1>3, <1>4, <1>5, <1>6 DEF WriteInv

LEMMA PlaneEndStep == ASSUME WriteInv, PlaneEnd PROVE WriteInv'
<1> WriteType /\ WhoWrites /\ Progress(op, srv, told) /\ Journalling /\ Cached
  BY DEF WriteInv
<1> DEFINE high == IF op.kind = "write" THEN Units ELSE op.high
<1>1. /\ op.pc = "plane" /\ op.inflight = {} /\ (op.next = Units \/ op.failure # "none") /\ UNCHANGED srv
      /\ \/ /\ op.kind = "write" /\ op.failure = "unsupported"
            /\ op' = [op EXCEPT !.pc = "event", !.next = 0, !.failure = "none"] /\ UNCHANGED <<fh, told>>
         \/ op.kind = "write" /\ op.failure = "server" /\ Returns("server") /\ Unsure /\ UNCHANGED fh
         \/ op.failure # "none" /\ Returns(op.failure) /\ fh' = Invalidated(fh, high) /\ UNCHANGED told
         \/ /\ op.failure = "none" /\ op.again # {}
            /\ op' = [op EXCEPT !.pc = "again"] /\ fh' = Invalidated(fh, high) /\ UNCHANGED told
         \/ /\ op.failure = "none" /\ op.again = {}
            /\ Returns("ok") /\ fh' = Invalidated(fh, high) /\ UNCHANGED told
  BY DEF PlaneEnd, WriteType
<1> HIDE DEF high
<1>2. /\ Window(op, srv, told) /\ op.kind \in Plane /\ ~fh.checkpoint /\ op.pc # "idle"
      /\ DOMAIN srv' = ServerFields /\ srv'.data \in [AllUnits -> Nat]
  BY <1>1 DEF Progress, WhoWrites, WriteType
<1>3. CASE UNCHANGED told /\ ~(op.kind = "write" /\ Returns("server") /\ Unsure /\ UNCHANGED fh)
  <2>0. /\ DOMAIN told' = ToldFields /\ told'.calls = told.calls /\ told'.moved \in Nat /\ told'.begun = told.begun
        /\ told'.stale \in BOOLEAN
    BY <1>3 DEF WriteType
  <2>1. CASE /\ op.kind = "write" /\ op' = [op EXCEPT !.pc = "event", !.next = 0, !.failure = "none"]
             /\ UNCHANGED fh
    <3>1. /\ DOMAIN op' = CallFields /\ op'.kind = op.kind /\ op'.pc = "event" /\ op'.next = 0
          /\ op'.failure = "none" /\ op'.again = op.again
      BY <2>1 DEF WriteType, CallFields
    <3>2. WriteType'
      BY <1>1, <1>3, <2>1, <3>1, UnitsAre DEF WriteType
    <3>3. WhoWrites' /\ Journalling' /\ Cached'
      BY <1>1, <1>2, <1>3, <2>1, <3>1 DEF WhoWrites, Journalling, Cached, DropLate
    <3>4. OneByOne(op', srv', told')
      <4>1. 0 .. 0 - 1 = {}
        OBVIOUS
      <4> QED
        BY <2>1, <3>1, <4>1 DEF OneByOne
    <3>5. Progress(op', srv', told')
      BY <3>1, <3>4 DEF Progress
    <3> QED
      BY <3>2, <3>3, <3>5 DEF WriteInv
  <2>2. ASSUME fh' = Invalidated(fh, high)
        PROVE  /\ DOMAIN fh' = HandleFields /\ fh'.live \in BOOLEAN /\ fh'.stat = FALSE /\ fh'.stat \in BOOLEAN
               /\ fh'.checkpoint = fh.checkpoint
    BY <2>2, InvalidatedStep DEF WriteType
  <2>3. CASE op.failure # "none" /\ Returns(op.failure) /\ fh' = Invalidated(fh, high)
    <3>1. op.failure # "ok"
      BY DEF WriteType
    <3> QED
      BY <1>2, <2>0, <2>2, <2>3, <3>1, ReturnStep
  <2>4. ASSUME op.failure = "none", NEW u \in AllUnits PROVE u \in op.again \/ Own(srv, told, u)
    BY <1>1, <1>2, <2>4, UnitsAre DEF Window
  <2>5. CASE op.failure = "none" /\ op.again # {} /\ op' = [op EXCEPT !.pc = "again"] /\ fh' = Invalidated(fh, high)
    <3>1. /\ DOMAIN op' = CallFields /\ op'.kind = op.kind /\ op'.pc = "again" /\ op'.next = op.next
          /\ op'.failure = op.failure /\ op'.again = op.again /\ op.kind = "upload"
      BY <2>5 DEF WriteType, CallFields, WhoWrites
    <3>2. WriteType'
      BY <1>2, <2>0, <2>2, <2>5, <3>1 DEF WriteType
    <3>3. WhoWrites' /\ Journalling' /\ Cached'
      BY <1>2, <2>2, <2>5, <3>1 DEF WhoWrites, Journalling, Cached
    <3>4. PutOff(op', srv', told')
      <4>1. op.next = Units /\ op.again \subseteq 0 .. op.next - 1
        BY <1>1, <1>2, <2>5 DEF Window
      <4>2. told.moved + Cardinality({}) + Cardinality(op.again) = op.next
        BY <1>1, <1>2, <2>5, <3>1 DEF Window
      <4>3. Cardinality({}) = 0 /\ told.moved \in Nat /\ told.moved + 0 = told.moved
        BY FS_EmptySet DEF WriteType
      <4>4. told.moved + Cardinality(op.again) = Units
        BY <4>1, <4>2, <4>3
      <4>5. op.again \subseteq AllUnits
        BY <4>1, UnitsAre
      <4>6. \A u \in AllUnits : u \in op.again \/ Own(srv, told, u)
        BY <2>4, <2>5
      <4> QED
        BY <1>1, <1>3, <3>1, <4>4, <4>5, <4>6 DEF PutOff
    <3>5. Progress(op', srv', told')
      BY <3>1, <3>4 DEF Progress
    <3> QED
      BY <3>2, <3>3, <3>5 DEF WriteInv
  <2>6. CASE op.failure = "none" /\ op.again = {} /\ Returns("ok") /\ fh' = Invalidated(fh, high)
    <3>1. \A u \in AllUnits : Own(srv', told, u)
      BY <1>1, <2>4, <2>6
    <3>2. op.kind = "upload" => told'.moved = Units
      <4>1. op.kind = "upload" => told.moved + Cardinality({}) + Cardinality({}) = Units
        BY <1>1, <1>2, <2>6 DEF Window
      <4>2. Cardinality({}) = 0 /\ told.moved \in Nat
        BY FS_EmptySet DEF WriteType
      <4> QED
        BY <1>3, <4>1, <4>2
    <3> QED
      BY <1>2, <2>0, <2>2, <2>6, <3>1, <3>2, ReturnStep
  <2> QED
    BY <1>1, <1>3, <2>1, <2>3, <2>5, <2>6
<1>4. CASE op.kind = "write" /\ Returns("server") /\ Unsure /\ UNCHANGED fh
  <2>1. /\ DOMAIN told' = ToldFields /\ told'.calls = told.calls /\ told'.moved \in Nat /\ told'.begun = told.begun
        /\ told'.stale \in BOOLEAN /\ told'.stale
    BY <1>4, UnsureStep DEF WriteType, DropLate
  <2>2. DOMAIN fh' = HandleFields /\ fh'.live \in BOOLEAN /\ fh'.stat \in BOOLEAN /\ fh'.checkpoint = fh.checkpoint
    BY <1>4 DEF WriteType
  <2> QED
    BY <1>2, <1>4, <2>1, <2>2, ReturnStep
<1> QED
  BY <1>1, <1>3, <1>4

\* What is stored inside a checkpoint goes through it (_submit).
LEMMA StoreInCheckpoint ==
    ASSUME WriteInv, NEW units, NEW value \in Nat, fh.checkpoint
    PROVE  Undoable(Stored(srv, units, value, fh.checkpoint), told.begun)
<1>1. WriteType /\ Undoable(srv, told.begun) /\ fh.checkpoint = TRUE
  BY DEF WriteInv, Journalling, WriteType
<1>2. Undoable(Stored(srv, units, value, TRUE), told.begun)
  BY <1>1, StoreUndoes
<1> QED
  BY <1>1, <1>2, Zenon

LEMMA SendAgainStep == ASSUME WriteInv, SendAgain PROVE WriteInv'
<1> WriteType /\ WhoWrites /\ Progress(op, srv, told) /\ Journalling /\ Cached
  BY DEF WriteInv
<1>1. op.pc = "again" /\ op.kind = "upload" /\ ~fh.checkpoint /\ PutOff(op, srv, told)
  BY DEF SendAgain, WhoWrites, Progress
<1>2. PICK u \in op.again :
         \/ /\ srv' = Store(srv, u, told.calls, FALSE)
            /\ told' = [told EXCEPT !.moved = @ + 1]
            /\ fh' = Invalidated(fh, u + 1)
            /\ IF op.again = {u} THEN Returns("ok") ELSE op' = [op EXCEPT !.again = @ \ {u}]
         \/ Returns("server") /\ UNCHANGED <<fh, srv, told>>
  BY Zenon DEF SendAgain
<1>3. CASE Returns("server") /\ UNCHANGED <<fh, srv, told>>
  <2>1. /\ DOMAIN srv' = ServerFields /\ srv'.data \in [AllUnits -> Nat]
        /\ DOMAIN fh' = HandleFields /\ fh'.live \in BOOLEAN /\ fh'.stat \in BOOLEAN /\ fh'.checkpoint = fh.checkpoint
        /\ DOMAIN told' = ToldFields /\ told'.calls = told.calls /\ told'.moved \in Nat /\ told'.begun = told.begun
        /\ told'.stale \in BOOLEAN
    BY <1>3 DEF WriteType
  <2>2. (fh'.live /\ fh'.stat /\ ~told'.stale) => fh'.hint = srv'.size
    BY <1>1, <1>3 DEF Cached, DropLate
  <2> QED
    BY <1>1, <1>3, <2>1, <2>2, ReturnStep
<1>4. CASE /\ srv' = Store(srv, u, told.calls, FALSE)
           /\ told' = [told EXCEPT !.moved = @ + 1]
           /\ fh' = Invalidated(fh, u + 1)
           /\ IF op.again = {u} THEN Returns("ok") ELSE op' = [op EXCEPT !.again = @ \ {u}]
  <2> DEFINE w == op.again \ {u}
  <2>1. /\ DOMAIN told' = ToldFields /\ told'.calls = told.calls /\ told'.moved = told.moved + 1
        /\ told'.begun = told.begun /\ told'.stale = told.stale /\ told.moved \in Nat /\ told.calls \in Nat
        /\ told'.stale \in BOOLEAN
    <3>1. told' = [told EXCEPT !.moved = told.moved + 1] /\ DOMAIN told = ToldFields
      BY <1>4 DEF WriteType
    <3>2. /\ DOMAIN told' = ToldFields /\ told'.calls = told.calls /\ told'.moved = told.moved + 1
          /\ told'.begun = told.begun /\ told'.stale = told.stale
      BY <3>1 DEF ToldFields
    <3> QED
      BY <3>2 DEF WriteType
  <2>2. told'.moved \in Nat
    BY <2>1
  <2>3. u \in AllUnits
    BY <1>1 DEF PutOff
  <2>4. /\ DOMAIN srv' = ServerFields /\ srv'.data \in [AllUnits -> Nat]
        /\ Own(srv', told, u) /\ \A v \in AllUnits : Own(srv, told, v) => Own(srv', told, v)
    BY <1>4, <2>1, <2>3, StoreOwns
  <2>5. /\ DOMAIN fh' = HandleFields /\ fh'.live \in BOOLEAN /\ fh'.stat = FALSE /\ fh'.stat \in BOOLEAN
        /\ fh'.checkpoint = fh.checkpoint
    BY <1>4, InvalidatedStep DEF WriteType
  <2>6. \A v \in AllUnits : v \in w \/ Own(srv', told, v)
    BY <1>1, <2>4 DEF PutOff
  <2>7. /\ IsFiniteSet(op.again) /\ Cardinality(op.again) \in Nat /\ Cardinality(w) = Cardinality(op.again) - 1
        /\ told.moved + Cardinality(op.again) = Units /\ Cardinality(w) \in Nat
    <3>1. IsFiniteSet(AllUnits)
      BY UnitsAre, FS_Interval
    <3>2. IsFiniteSet(op.again) /\ op.again \subseteq AllUnits
      BY <1>1, <3>1, FS_Subset DEF PutOff
    <3>3. IsFiniteSet(w) /\ Cardinality(w) = Cardinality(op.again) - 1
      BY <3>2, FS_RemoveElement
    <3> QED
      BY <1>1, <3>2, <3>3, FS_CardinalityType DEF PutOff
  <2>8. told'.moved + Cardinality(w) = Units
    <3> DEFINE a == told.moved
               b == Cardinality(op.again)
    <3>1. a \in Nat /\ b \in Nat /\ a + b = Units /\ told'.moved = a + 1 /\ Cardinality(w) = b - 1
      BY <2>1, <2>7
    <3> HIDE DEF a, b
    <3>2. (a + 1) + (b - 1) = a + b
      BY <3>1
    <3> QED
      BY <3>1, <3>2, Zenon
  <2>9. CASE op.again = {u}
    <3>1. Returns("ok") /\ w = {}
      BY <1>4, <2>9
    <3>2. Cardinality(w) = 0 /\ \A v \in AllUnits : Own(srv', told, v)
      BY <2>6, <3>1, FS_EmptySet
    <3>3. told'.moved = Units
      BY <2>2, <2>8, <3>2
    <3> QED
      BY <1>1, <2>1, <2>2, <2>4, <2>5, <3>1, <3>2, <3>3, ReturnStep
  <2>10. CASE op.again # {u}
    <3>1. /\ DOMAIN op' = CallFields /\ op'.kind = op.kind /\ op'.pc = op.pc /\ op'.next = op.next
          /\ op'.failure = op.failure /\ op'.again = w
      BY <1>4, <2>10 DEF WriteType, CallFields
    <3>2. WriteType'
      BY <2>1, <2>2, <2>4, <2>5, <3>1 DEF WriteType
    <3>3. WhoWrites' /\ Journalling' /\ Cached'
      BY <1>1, <2>5, <3>1 DEF WhoWrites, Journalling, Cached
    <3>4. \A v : Own(srv', told, v) <=> Own(srv', told', v)
      BY <2>1 DEF Own
    <3>5. PutOff(op', srv', told')
      <4>1. w \subseteq AllUnits
        BY <1>1 DEF PutOff
      <4> HIDE DEF w
      <4> QED
        BY <2>6, <2>8, <3>1, <3>4, <4>1 DEF PutOff
    <3>6. Progress(op', srv', told')
      BY <1>1, <3>1, <3>5 DEF Progress
    <3> QED
      BY <3>2, <3>3, <3>6 DEF WriteInv
  <2> QED
    BY <2>9, <2>10
<1> QED
  BY <1>2, <1>3, <1>4

LEMMA EventWriteStep == ASSUME WriteInv, EventWrite PROVE WriteInv'
<1> WriteType /\ WhoWrites /\ Progress(op, srv, told) /\ Journalling /\ Cached
  BY DEF WriteInv
<1>1. op.pc = "event" /\ op.kind \in Plane /\ OneByOne(op, srv, told) /\ op.kind # "rollback" /\ op.pc # "idle"
  BY DEF EventWrite, WhoWrites, Progress, Plane
<1>2. ASSUME UNCHANGED srv
      PROVE  /\ DOMAIN srv' = ServerFields /\ srv'.data \in [AllUnits -> Nat]
             /\ fh.checkpoint => Undoable(srv', told.begun)
  BY <1>2 DEF WriteType, Journalling
<1>3. CASE op.next < Units /\ Returns("server") /\ Unsure /\ UNCHANGED <<fh, srv>>
  <2>1. /\ DOMAIN told' = ToldFields /\ told'.calls = told.calls /\ told'.moved \in Nat /\ told'.begun = told.begun
        /\ told'.stale \in BOOLEAN /\ ((told.stale \/ op.kind \in DropLate) => told'.stale)
    BY <1>3, UnsureStep DEF WriteType
  <2>2. DOMAIN fh' = HandleFields /\ fh'.live \in BOOLEAN /\ fh'.stat \in BOOLEAN /\ fh'.checkpoint = fh.checkpoint
    BY <1>3 DEF WriteType
  <2>3. (fh'.live /\ fh'.stat /\ ~told'.stale) => fh'.hint = srv'.size
    BY <1>1, <1>3, <2>1 DEF Cached
  <2> QED
    BY <1>1, <1>2, <1>3, <2>1, <2>2, <2>3, ReturnStep
<1>4. CASE op.next = Units /\ Returns("ok") /\ fh' = Invalidated(fh, Units) /\ UNCHANGED <<srv, told>>
  <2>1. /\ DOMAIN told' = ToldFields /\ told'.calls = told.calls /\ told'.moved \in Nat /\ told'.begun = told.begun
        /\ told'.stale \in BOOLEAN
    BY <1>4 DEF WriteType
  <2>2. /\ DOMAIN fh' = HandleFields /\ fh'.live \in BOOLEAN /\ fh'.stat = FALSE /\ fh'.stat \in BOOLEAN
        /\ fh'.checkpoint = fh.checkpoint
    BY <1>4, InvalidatedStep DEF WriteType
  <2>3. \A u \in AllUnits : Own(srv', told, u)
    BY <1>1, <1>4, UnitsAre DEF OneByOne
  <2>4. op.kind = "upload" => told'.moved = Units
    BY <1>1, <1>4 DEF OneByOne
  <2> QED
    BY <1>1, <1>2, <1>4, <2>1, <2>2, <2>3, <2>4, ReturnStep
<1>5. CASE /\ op.next < Units
           /\ srv' = Store(srv, op.next, told.calls, fh.checkpoint)
           /\ told' = [told EXCEPT !.moved = op.next + 1]
           /\ op' = [op EXCEPT !.next = @ + 1]
           /\ fh' = IF op.kind = "write" THEN fh ELSE Invalidated(fh, op.next + 1)
  <2> DEFINE n == op.next
  <2>1. n \in AllUnits /\ n \in Nat /\ n + 1 \in 0 .. Units /\ n + 1 \in Nat /\ (n + 1) - 1 = n
    BY <1>5, UnitsAre DEF WriteType
  <2>2. /\ DOMAIN told' = ToldFields /\ told'.calls = told.calls /\ told'.moved = n + 1 /\ told'.begun = told.begun
        /\ told'.stale = told.stale
    BY <1>5 DEF WriteType, ToldFields
  <2>3. /\ DOMAIN op' = CallFields /\ op'.kind = op.kind /\ op'.pc = op.pc /\ op'.next = n + 1
        /\ op'.failure = op.failure /\ op'.again = op.again
    BY <1>5 DEF WriteType, CallFields
  <2>4. /\ DOMAIN srv' = ServerFields /\ srv'.data \in [AllUnits -> Nat]
        /\ Own(srv', told, n) /\ \A v \in AllUnits : Own(srv, told, v) => Own(srv', told, v)
    <3>1. told.calls \in Nat
      BY DEF WriteType
    <3> QED
      BY <1>5, <2>1, <3>1, StoreOwns
  <2>5. /\ DOMAIN fh' = HandleFields /\ fh'.live \in BOOLEAN /\ fh'.stat \in BOOLEAN
        /\ fh'.checkpoint = fh.checkpoint /\ fh'.live = fh.live /\ (op.kind = "write" \/ fh'.stat = FALSE)
    <3>1. CASE op.kind = "write"
      BY <1>5, <3>1 DEF WriteType
    <3>2. CASE op.kind # "write"
      <4>1. fh' = Invalidated(fh, op.next + 1)
        BY <1>5, <3>2
      <4> QED
        BY <4>1, InvalidatedStep DEF WriteType
    <3> QED
      BY <3>1, <3>2
  <2>6. WriteType'
    <3>1. /\ told'.calls \in Nat /\ told'.moved \in Nat /\ told'.stale \in BOOLEAN /\ fh'.checkpoint \in BOOLEAN
          /\ op'.next \in 0 .. Units
      BY <2>1, <2>2, <2>3, <2>5 DEF WriteType
    <3> HIDE DEF n
    <3> QED
      BY <2>2, <2>3, <2>4, <2>5, <3>1 DEF WriteType
  <2>7. WhoWrites'
    BY <1>1, <2>3, <2>5 DEF WhoWrites
  <2>8. OneByOne(op', srv', told')
    <3>1. ASSUME NEW v \in 0 .. n PROVE Own(srv', told', v)
      <4>1. v = n \/ (v \in 0 .. n - 1 /\ v \in AllUnits)
        BY <2>1, UnitsAre
      <4>2. Own(srv', told, v)
        BY <1>1, <2>4, <4>1 DEF OneByOne
      <4> QED
        BY <2>2, <4>2 DEF Own
    <3> HIDE DEF n
    <3> QED
      BY <2>1, <2>2, <2>3, <3>1 DEF OneByOne
  <2>9. Progress(op', srv', told')
    BY <1>1, <2>3, <2>8 DEF Progress
  <2>10. Journalling'
    <3>1. fh.checkpoint => Undoable(srv', told.begun)
      <4>1. told.calls \in Nat
        BY DEF WriteType
      <4> QED
        BY <1>5, <4>1, StoreInCheckpoint DEF Store
    <3> QED
      BY <1>1, <2>2, <2>3, <2>5, <3>1 DEF Journalling
  <2>11. Cached'
    BY <1>1, <2>3, <2>5 DEF Cached, DropLate
  <2> QED
    BY <2>6, <2>7, <2>9, <2>10, <2>11 DEF WriteInv
<1> QED
  BY <1>3, <1>4, <1>5 DEF EventWrite

\* A call that writes, truncates or refuses at once, and what it leaves.
LEMMA AtOnceStep ==
    ASSUME WriteInv, NEW kind, Call(kind), kind # "rollback", NEW result,
           op' = [Rest EXCEPT !.kind = kind, !.result = result],
           DOMAIN fh' = HandleFields, fh'.live \in BOOLEAN, fh'.checkpoint = fh.checkpoint, fh'.stat \in BOOLEAN,
           DOMAIN srv' = ServerFields, srv'.data \in [AllUnits -> Nat],
           fh.checkpoint => Undoable(srv', told.begun),
           (result = "ok" /\ kind # "truncate") =>
               /\ kind # "upload" /\ \A u \in AllUnits : srv'.data[u] = told.calls + 1 /\ u \notin srv'.corrupt,
           (fh'.live /\ fh'.stat /\ ~told.stale) => fh'.hint = srv'.size
    PROVE  WriteInv'
<1> WriteType /\ WhoWrites /\ Progress(op, srv, told) /\ Journalling /\ Cached
  BY DEF WriteInv
<1>1. /\ DOMAIN op' = CallFields /\ op'.kind = kind /\ op'.pc = "idle" /\ op'.next = 0 /\ op'.failure = "none"
      /\ op'.again = {} /\ op'.result = result
  BY RestIs DEF CallFields
<1>2. told'.calls = told.calls + 1 /\ told'.begun = told.begun /\ told'.stale = told.stale
  BY CallTold
<1>3. WriteType'
  <2>1. fh'.checkpoint \in BOOLEAN
    BY DEF WriteType
  <2> QED
    BY <1>1, <2>1, FreshType
<1>4. WhoWrites' /\ Journalling' /\ Cached'
  BY <1>1, <1>2 DEF WhoWrites, Journalling, Cached
<1>5. Returned(op', srv', told')
  BY <1>1, <1>2 DEF Returned, Own
<1>6. Progress(op', srv', told')
  BY <1>1, <1>5 DEF Progress
<1> QED
  BY <1>3, <1>4, <1>6 DEF WriteInv

LEMMA TruncateStep == ASSUME WriteInv, Truncate PROVE WriteInv'
<1> WriteType
  BY DEF WriteInv
<1>1. PICK n \in 0 .. Units :
         /\ srv' = [StoreAll(0, {u \in AllUnits : u >= n /\ u < srv.size}) EXCEPT !.size = n]
         /\ fh' = [fh EXCEPT !.stat = FALSE, !.hint = n]
         /\ op' = [Rest EXCEPT !.kind = "truncate", !.result = "ok"]
  BY DEF Truncate
<1>2. Call("truncate")
  BY DEF Truncate
<1> DEFINE cut == {u \in AllUnits : u >= n /\ u < srv.size}
           s == Stored(srv, cut, 0, fh.checkpoint)
<1>3. srv' = [s EXCEPT !.size = n]
  BY <1>1, Zenon DEF StoreAll
<1>4. StoredAs(s, srv, cut, 0)
  BY StoredIs
<1> HIDE DEF cut
<1>5. fh.checkpoint => Undoable(s, told.begun)
  BY StoreInCheckpoint
<1> HIDE DEF s
<1>6. DOMAIN srv' = ServerFields /\ srv'.data = s.data /\ srv'.undo = s.undo /\ srv'.size = n /\ s.data \in [AllUnits -> Nat]
  BY <1>3, <1>4 DEF StoredAs, ServerFields
<1>7. fh.checkpoint => Undoable(srv', told.begun)
  BY <1>5, <1>6 DEF Undoable
<1>8. /\ DOMAIN fh' = HandleFields /\ fh'.live \in BOOLEAN /\ fh'.checkpoint = fh.checkpoint /\ fh'.stat = FALSE
      /\ fh'.stat \in BOOLEAN
  BY <1>1 DEF WriteType, HandleFields
<1> QED
  BY <1>1, <1>2, <1>6, <1>7, <1>8, AtOnceStep

\* A call refused at once, with nothing changed.
LEMMA NothingDoneStep ==
    ASSUME WriteInv, NEW kind, Call(kind), kind # "rollback", NEW result, result # "ok",
           op' = [Rest EXCEPT !.kind = kind, !.result = result], UNCHANGED <<fh, srv>>
    PROVE  WriteInv'
<1>1. /\ DOMAIN fh' = HandleFields /\ fh'.live \in BOOLEAN /\ fh'.checkpoint = fh.checkpoint /\ fh'.stat \in BOOLEAN
      /\ DOMAIN srv' = ServerFields /\ srv'.data \in [AllUnits -> Nat]
  BY DEF WriteInv, WriteType
<1>2. fh.checkpoint => Undoable(srv', told.begun)
  BY DEF WriteInv, Journalling
<1>3. (fh'.live /\ fh'.stat /\ ~told.stale) => fh'.hint = srv'.size
  BY DEF WriteInv, Cached, Call
<1> QED
  BY <1>1, <1>2, <1>3, AtOnceStep

LEMMA RefusedWholeStep == ASSUME WriteInv, RefusedWhole PROVE WriteInv'
<1>1. PICK kind \in {"truncate", "pgwrite"} :
         Call(kind) /\ op' = [Rest EXCEPT !.kind = kind, !.result = "server"] /\ UNCHANGED <<fh, srv>>
  BY DEF RefusedWhole
<1>2. kind # "rollback" /\ "server" # "ok"
  OBVIOUS
<1> QED
  BY <1>1, <1>2, NothingDoneStep

LEMMA WriteVStep == ASSUME WriteInv, WriteV PROVE WriteInv'
<1> WriteType /\ Journalling /\ Cached
  BY DEF WriteInv
<1>1. Call("writev") /\ UNCHANGED <<fh, srv>>
  BY DEF WriteV
<1>2. CASE fh.checkpoint
  <2>1. op' = [Rest EXCEPT !.kind = "writev", !.result = "refused"]
    BY <1>2 DEF WriteV
  <2>2. "writev" # "rollback" /\ "refused" # "ok"
    OBVIOUS
  <2> QED
    BY <1>1, <2>1, <2>2, NothingDoneStep
<1>3. CASE ~fh.checkpoint
  <2>1. op' = [Rest EXCEPT !.kind = "writev", !.pc = "batches"]
    BY <1>3 DEF WriteV
  <2>2. /\ DOMAIN op' = CallFields /\ op'.kind = "writev" /\ op'.pc = "batches" /\ op'.next = 0
        /\ op'.failure = "none" /\ op'.again = {}
    BY <2>1, RestIs DEF CallFields
  <2>3. WriteType'
    <3>1. /\ DOMAIN fh' = HandleFields /\ fh'.live \in BOOLEAN /\ fh'.checkpoint \in BOOLEAN /\ fh'.stat \in BOOLEAN
          /\ DOMAIN srv' = ServerFields /\ srv'.data \in [AllUnits -> Nat]
      BY <1>1 DEF WriteType
    <3> QED
      BY <1>1, <2>2, <3>1, FreshType
  <2>4. WhoWrites' /\ Cached'
    BY <1>1, <1>3, <2>2 DEF WhoWrites, Cached, DropLate
  <2>5. Journalling'
    BY <1>1, <1>3, <2>2 DEF Journalling
  <2>6. OneByOne(op', srv', told')
    <3>1. 0 .. 0 - 1 = {}
      OBVIOUS
    <3> QED
      BY <2>2, <3>1 DEF OneByOne
  <2>7. Progress(op', srv', told')
    BY <2>2, <2>6 DEF Progress
  <2> QED
    BY <2>3, <2>4, <2>5, <2>7 DEF WriteInv
<1> QED
  BY <1>2, <1>3

LEMMA BatchStep == ASSUME WriteInv, Batch PROVE WriteInv'
<1> WriteType /\ WhoWrites /\ Progress(op, srv, told) /\ Journalling /\ Cached
  BY DEF WriteInv
<1>1. /\ op.pc = "batches" /\ op.kind = "writev" /\ ~fh.checkpoint /\ OneByOne(op, srv, told) /\ op.pc # "idle"
      /\ told.calls \in Nat /\ op.next \in 0 .. Units
  BY DEF Batch, WhoWrites, Progress, WriteType
<1>2. CASE op.next = Units /\ Returns("ok") /\ fh' = Invalidated(fh, Units) /\ UNCHANGED <<srv, told>>
  <2>1. /\ DOMAIN told' = ToldFields /\ told'.calls = told.calls /\ told'.moved \in Nat /\ told'.begun = told.begun
        /\ told'.stale \in BOOLEAN /\ DOMAIN srv' = ServerFields /\ srv'.data \in [AllUnits -> Nat]
    BY <1>2 DEF WriteType
  <2>2. /\ DOMAIN fh' = HandleFields /\ fh'.live \in BOOLEAN /\ fh'.stat = FALSE /\ fh'.stat \in BOOLEAN
        /\ fh'.checkpoint = fh.checkpoint
    BY <1>2, InvalidatedStep DEF WriteType
  <2>3. \A u \in AllUnits : Own(srv', told, u)
    BY <1>1, <1>2, UnitsAre DEF OneByOne
  <2> QED
    BY <1>1, <1>2, <2>1, <2>2, <2>3, ReturnStep
<1>3. ASSUME NEW n \in op.next .. Units, op.next < Units,
             srv' = Stored(srv, op.next .. n - 1, told.calls, FALSE),
             Returns("server"), Unsure, UNCHANGED fh
      PROVE  WriteInv'
  <2>1. StoredAs(srv', srv, op.next .. n - 1, told.calls)
    BY <1>1, <1>3, StoredIs
  <2>2. DOMAIN srv' = ServerFields /\ srv'.data \in [AllUnits -> Nat]
    BY <2>1 DEF StoredAs
  <2>3. /\ DOMAIN told' = ToldFields /\ told'.calls = told.calls /\ told'.moved \in Nat /\ told'.begun = told.begun
        /\ told'.stale \in BOOLEAN /\ told'.stale
    BY <1>1, <1>3, UnsureStep DEF WriteType, DropLate
  <2>4. DOMAIN fh' = HandleFields /\ fh'.live \in BOOLEAN /\ fh'.stat \in BOOLEAN /\ fh'.checkpoint = fh.checkpoint
    BY <1>3 DEF WriteType
  <2> QED
    BY <1>1, <1>3, <2>2, <2>3, <2>4, ReturnStep
<1>4. ASSUME NEW n \in op.next + 1 .. Units,
             srv' = Stored(srv, op.next .. n - 1, told.calls, FALSE),
             op' = [op EXCEPT !.next = n], UNCHANGED <<fh, told>>
      PROVE  WriteInv'
  <2>1. StoredAs(srv', srv, op.next .. n - 1, told.calls)
    BY <1>1, <1>4, StoredIs
  <2>2. DOMAIN srv' = ServerFields /\ srv'.data \in [AllUnits -> Nat]
    BY <2>1 DEF StoredAs
  <2>3. /\ DOMAIN op' = CallFields /\ op'.kind = op.kind /\ op'.pc = op.pc /\ op'.next = n
        /\ op'.failure = op.failure /\ op'.again = op.again
    BY <1>4 DEF WriteType, CallFields
  <2>4. n \in 0 .. Units
    BY <1>1, <1>4, UnitsAre
  <2>5. WriteType'
    BY <1>4, <2>2, <2>3, <2>4 DEF WriteType
  <2>6. WhoWrites' /\ Journalling' /\ Cached'
    BY <1>1, <1>4, <2>3 DEF WhoWrites, Journalling, Cached, DropLate
  <2>7. ASSUME NEW v \in 0 .. n - 1 PROVE Own(srv', told', v)
    <3>1. v \in AllUnits
      BY <2>4, UnitsAre
    <3>2. CASE v \in op.next .. n - 1
      BY <1>4, <2>1, <3>1, <3>2 DEF Own, StoredAs
    <3>3. CASE v \notin op.next .. n - 1
      <4>1. v \in 0 .. op.next - 1
        BY <1>1, <2>4, <3>3
      <4> QED
        BY <1>1, <1>4, <2>1, <3>1, <3>3, <4>1 DEF OneByOne, Own, StoredAs
    <3> QED
      BY <3>2, <3>3
  <2>8. OneByOne(op', srv', told')
    BY <1>1, <2>3, <2>7 DEF OneByOne
  <2>9. Progress(op', srv', told')
    BY <1>1, <2>3, <2>8 DEF Progress
  <2> QED
    BY <2>5, <2>6, <2>9 DEF WriteInv
<1> QED
  BY <1>2, <1>3, <1>4 DEF Batch

LEMMA PgWriteStep == ASSUME WriteInv, PgWrite PROVE WriteInv'
<1> WriteType /\ Journalling /\ Cached
  BY DEF WriteInv
<1>1. PICK bad \in SUBSET AllUnits :
         /\ srv' = [StoreAll(told.calls + 1, AllUnits) EXCEPT !.corrupt = bad]
         /\ op' = [Rest EXCEPT !.kind = "pgwrite", !.pc = "pages", !.pages = bad]
  BY DEF PgWrite
<1>2. Call("pgwrite") /\ UNCHANGED fh
  BY DEF PgWrite
<1> DEFINE s == Stored(srv, AllUnits, told.calls + 1, fh.checkpoint)
<1>3. srv' = [s EXCEPT !.corrupt = bad]
  BY <1>1, Zenon DEF StoreAll
<1>4. told.calls + 1 \in Nat
  BY DEF WriteType
<1>5. StoredAs(s, srv, AllUnits, told.calls + 1)
  BY <1>4, StoredIs
<1>6. fh.checkpoint => Undoable(s, told.begun)
  BY <1>4, StoreInCheckpoint
<1> HIDE DEF s
<1>7. DOMAIN srv' = ServerFields /\ srv'.data = s.data /\ srv'.undo = s.undo /\ srv'.corrupt = bad
  BY <1>3, <1>5 DEF StoredAs, ServerFields
<1>8. fh.checkpoint => Undoable(srv', told.begun)
  BY <1>6, <1>7 DEF Undoable
<1>9. /\ DOMAIN op' = CallFields /\ op'.kind = "pgwrite" /\ op'.pc = "pages" /\ op'.next = 0 /\ op'.failure = "none"
      /\ op'.again = {} /\ op'.pages = bad
  BY <1>1, RestIs DEF CallFields
<1>10. told'.calls = told.calls + 1 /\ told'.begun = told.begun /\ told'.stale = told.stale
  BY <1>2, CallTold
<1>11. WriteType'
  <2>1. /\ DOMAIN fh' = HandleFields /\ fh'.live \in BOOLEAN /\ fh'.checkpoint \in BOOLEAN /\ fh'.stat \in BOOLEAN
        /\ srv'.data \in [AllUnits -> Nat]
    BY <1>2, <1>5, <1>7 DEF WriteType, StoredAs
  <2> QED
    BY <1>2, <1>7, <1>9, <2>1, FreshType
<1>12. WhoWrites' /\ Cached'
  BY <1>9 DEF WhoWrites, Cached, DropLate
<1>13. Journalling'
  BY <1>2, <1>8, <1>9, <1>10 DEF Journalling
<1>14. Paged(op', srv', told')
  BY <1>5, <1>7, <1>9, <1>10 DEF Paged, StoredAs
<1>15. Progress(op', srv', told')
  BY <1>9, <1>14 DEF Progress
<1> QED
  BY <1>11, <1>12, <1>13, <1>15 DEF WriteInv

LEMMA PgEndStep == ASSUME WriteInv, PgEnd PROVE WriteInv'
<1> WriteType /\ WhoWrites /\ Progress(op, srv, told) /\ Journalling
  BY DEF WriteInv
<1>1. /\ op.pc = "pages" /\ op.pages = {} /\ op.kind = "pgwrite" /\ op.pc # "idle" /\ Returns("ok")
      /\ fh' = Invalidated(fh, Units) /\ UNCHANGED <<srv, told>>
  BY DEF PgEnd, WhoWrites
<1>2. /\ DOMAIN srv' = ServerFields /\ srv'.data \in [AllUnits -> Nat]
      /\ DOMAIN told' = ToldFields /\ told'.calls = told.calls /\ told'.moved \in Nat /\ told'.begun = told.begun
      /\ told'.stale \in BOOLEAN /\ (fh.checkpoint => Undoable(srv', told.begun))
  BY <1>1 DEF WriteType, Journalling
<1>3. /\ DOMAIN fh' = HandleFields /\ fh'.live \in BOOLEAN /\ fh'.stat = FALSE /\ fh'.stat \in BOOLEAN
      /\ fh'.checkpoint = fh.checkpoint
  BY <1>1, InvalidatedStep DEF WriteType
<1>4. \A u \in AllUnits : Own(srv', told, u)
  BY <1>1 DEF Progress, Paged, Own
<1> QED
  BY <1>1, <1>2, <1>3, <1>4, ReturnStep

LEMMA PgRetryStep == ASSUME WriteInv, PgRetry PROVE WriteInv'
<1> WriteType /\ WhoWrites /\ Progress(op, srv, told) /\ Journalling /\ Cached
  BY DEF WriteInv
<1> DEFINE u == Min(op.pages)
<1>1. /\ op.pc = "pages" /\ op.pc # "idle" /\ op.kind = "pgwrite" /\ UNCHANGED fh /\ Paged(op, srv, told)
      /\ DOMAIN fh' = HandleFields /\ fh'.live \in BOOLEAN /\ fh'.stat \in BOOLEAN /\ fh'.checkpoint = fh.checkpoint
  BY DEF PgRetry, WhoWrites, WriteType, Progress
<1>2. \/ /\ srv' = Store(srv, u, told.calls, fh.checkpoint)
         /\ op' = [op EXCEPT !.pages = op.pages \ {u}, !.tries = 0] /\ UNCHANGED told
      \/ op' = [op EXCEPT !.tries = op.tries + 1] /\ UNCHANGED <<told, srv>>
      \/ \E why \in {"integrity", "server"} : Returns(why) /\ Unsure /\ UNCHANGED srv
  BY DEF PgRetry, PgGivesUp
<1> HIDE DEF u
<1>3. ASSUME NEW why \in {"integrity", "server"}, Returns(why), Unsure, UNCHANGED srv PROVE WriteInv'
  <2>1. why # "ok" /\ Returns(why) /\ Unsure
    BY <1>3
  <2>2. /\ DOMAIN told' = ToldFields /\ told'.calls = told.calls /\ told'.moved \in Nat /\ told'.begun = told.begun
        /\ told'.stale \in BOOLEAN /\ told'.stale
    BY <1>1, <2>1, UnsureStep DEF WriteType, DropLate
  <2>3. /\ DOMAIN srv' = ServerFields /\ srv'.data \in [AllUnits -> Nat]
        /\ (fh.checkpoint => Undoable(srv', told.begun))
    BY <1>3 DEF WriteType, Journalling
  <2> QED
    BY <1>1, <2>1, <2>2, <2>3, ReturnStep
<1>4. CASE op' = [op EXCEPT !.tries = op.tries + 1] /\ UNCHANGED <<told, srv>>
  <2>1. /\ DOMAIN op' = CallFields /\ op'.kind = op.kind /\ op'.pc = op.pc /\ op'.next = op.next
        /\ op'.failure = op.failure /\ op'.again = op.again /\ op'.pages = op.pages
    BY <1>4 DEF WriteType, CallFields
  <2>2. WriteType'
    BY <1>1, <1>4, <2>1 DEF WriteType
  <2>3. WhoWrites' /\ Journalling' /\ Cached'
    BY <1>1, <1>4, <2>1 DEF WhoWrites, Journalling, Cached
  <2>4. Progress(op', srv', told')
    BY <1>1, <1>4, <2>1 DEF Progress, Paged
  <2> QED
    BY <2>2, <2>3, <2>4 DEF WriteInv
<1>5. CASE /\ srv' = Store(srv, u, told.calls, fh.checkpoint)
           /\ op' = [op EXCEPT !.pages = op.pages \ {u}, !.tries = 0] /\ UNCHANGED told
  <2>1. /\ DOMAIN op' = CallFields /\ op'.kind = op.kind /\ op'.pc = op.pc /\ op'.next = op.next
        /\ op'.failure = op.failure /\ op'.again = op.again /\ op'.pages = op.pages \ {u}
    BY <1>5 DEF WriteType, CallFields
  <2>2. told.calls \in Nat
    BY DEF WriteType
  <2>3. StoredAs(srv', srv, {u}, told.calls)
    BY <1>5, <2>2, StoredIs DEF Store
  <2>4. fh.checkpoint => Undoable(srv', told.begun)
    BY <1>5, <2>2, StoreInCheckpoint DEF Store
  <2>5. WriteType'
    <3>1. DOMAIN srv' = ServerFields /\ srv'.data \in [AllUnits -> Nat]
      BY <2>3 DEF StoredAs
    <3> QED
      BY <1>1, <1>5, <2>1, <3>1 DEF WriteType
  <2>6. WhoWrites' /\ Journalling' /\ Cached'
    BY <1>1, <1>5, <2>1, <2>4 DEF WhoWrites, Journalling, Cached, DropLate
  <2>7. Paged(op', srv', told')
    BY <1>1, <1>5, <2>1, <2>3 DEF Paged, StoredAs
  <2>8. Progress(op', srv', told')
    BY <1>1, <2>1, <2>7 DEF Progress
  <2> QED
    BY <2>5, <2>6, <2>8 DEF WriteInv
<1> QED
  BY <1>2, <1>3, <1>4, <1>5

\* Between two calls, op says that nothing is under way.
LEMMA QuietType ==
    ASSUME WriteType, NEW kind, op' = [Rest EXCEPT !.kind = kind], kind \in {"none", "rollback"},
           DOMAIN fh' = HandleFields, fh'.live \in BOOLEAN, fh'.checkpoint \in BOOLEAN, fh'.stat \in BOOLEAN,
           DOMAIN srv' = ServerFields, srv'.data \in [AllUnits -> Nat],
           DOMAIN told' = ToldFields, told'.calls = told.calls, told'.moved = told.moved, told'.stale = told.stale
    PROVE  /\ WriteType' /\ WhoWrites' /\ Progress(op', srv', told') /\ op'.kind = kind /\ op'.pc = "idle"
<1>1. /\ DOMAIN op' = CallFields /\ op'.kind = kind /\ op'.pc = "idle" /\ op'.next = 0
      /\ op'.failure = "none" /\ op'.again = {} /\ op'.result = "none"
  BY RestIs DEF CallFields
<1>2. WriteType'
  <2>1. op'.next \in 0 .. Units
    BY <1>1, UnitsAre
  <2> QED
    BY <1>1, <2>1 DEF WriteType
<1> QED
  BY <1>1, <1>2 DEF WhoWrites, Progress, Returned

LEMMA BeginCheckpointStep == ASSUME WriteInv, BeginCheckpoint PROVE WriteInv'
<1> WriteType /\ Journalling /\ Cached
  BY DEF WriteInv
<1> DEFINE j == [old |-> << >>, size |-> srv.size]
           b == [data |-> srv.data, size |-> srv.size]
<1>1. /\ op.pc = "idle" /\ fh' = [fh EXCEPT !.checkpoint = TRUE] /\ srv' = [srv EXCEPT !.undo = j]
      /\ told' = [told EXCEPT !.begun = b] /\ op' = Rest
  BY DEF BeginCheckpoint, Quiet
<1>2. DOMAIN j = {"old", "size"} /\ j.size = srv.size /\ j.old = << >> /\ DOMAIN << >> = {}
  OBVIOUS
<1>3. b.data = srv.data /\ b.size = srv.size /\ b = [data |-> b.data, size |-> b.size]
  OBVIOUS
<1> HIDE DEF j, b
<1>4. /\ DOMAIN fh' = HandleFields /\ fh'.live = fh.live /\ fh'.checkpoint = TRUE /\ fh'.stat = fh.stat
      /\ fh'.hint = fh.hint
  BY <1>1 DEF WriteType, HandleFields
<1>5. DOMAIN srv' = ServerFields /\ srv'.data = srv.data /\ srv'.size = srv.size /\ srv'.undo = j
  BY <1>1 DEF WriteType, ServerFields
<1>6. /\ DOMAIN told' = ToldFields /\ told'.calls = told.calls /\ told'.moved = told.moved
      /\ told'.stale = told.stale /\ told'.begun = b
  BY <1>1 DEF WriteType, ToldFields
<1>7. op' = [Rest EXCEPT !.kind = "none"]
  BY <1>1 DEF Rest
<1>8. WriteType' /\ WhoWrites' /\ Progress(op', srv', told') /\ op'.kind = "none" /\ op'.pc = "idle"
  <2>1. fh'.live \in BOOLEAN /\ fh'.checkpoint \in BOOLEAN /\ fh'.stat \in BOOLEAN /\ srv'.data \in [AllUnits -> Nat]
    BY <1>4, <1>5 DEF WriteType
  <2> QED
    BY <1>4, <1>5, <1>6, <1>7, <2>1, QuietType
<1>9. Undoable(srv', told'.begun)
  <2>1. srv.data \in [AllUnits -> Nat]
    BY DEF WriteType
  <2> QED
    BY <1>2, <1>3, <1>5, <1>6, <2>1 DEF Undoable
<1>10. Journalling' /\ Cached'
  BY <1>1, <1>4, <1>5, <1>6, <1>8, <1>9 DEF Journalling, Cached
<1> QED
  BY <1>8, <1>10 DEF WriteInv

LEMMA CommitCheckpointStep == ASSUME WriteInv, CommitCheckpoint PROVE WriteInv'
<1> WriteType /\ Cached
  BY DEF WriteInv
<1>1. /\ op.pc = "idle" /\ fh' = [fh EXCEPT !.checkpoint = FALSE] /\ srv' = [srv EXCEPT !.undo = Nothing]
      /\ told' = [told EXCEPT !.begun = Nothing] /\ op' = Rest
  BY DEF CommitCheckpoint, Quiet
<1>2. /\ DOMAIN fh' = HandleFields /\ fh'.live = fh.live /\ fh'.checkpoint = FALSE /\ fh'.stat = fh.stat
      /\ fh'.hint = fh.hint
  BY <1>1 DEF WriteType, HandleFields
<1>3. DOMAIN srv' = ServerFields /\ srv'.data = srv.data /\ srv'.size = srv.size
  BY <1>1 DEF WriteType, ServerFields
<1>4. /\ DOMAIN told' = ToldFields /\ told'.calls = told.calls /\ told'.moved = told.moved
      /\ told'.stale = told.stale
  BY <1>1 DEF WriteType, ToldFields
<1>5. op' = [Rest EXCEPT !.kind = "none"]
  BY <1>1 DEF Rest
<1>6. WriteType' /\ WhoWrites' /\ Progress(op', srv', told') /\ op'.kind = "none" /\ op'.pc = "idle"
  <2>1. fh'.live \in BOOLEAN /\ fh'.checkpoint \in BOOLEAN /\ fh'.stat \in BOOLEAN /\ srv'.data \in [AllUnits -> Nat]
    BY <1>2, <1>3 DEF WriteType
  <2> QED
    BY <1>2, <1>3, <1>4, <1>5, <2>1, QuietType
<1>7. Journalling' /\ Cached'
  BY <1>1, <1>2, <1>3, <1>4, <1>6 DEF Journalling, Cached
<1> QED
  BY <1>6, <1>7 DEF WriteInv

LEMMA RollBackStep == ASSUME WriteInv, RollBack PROVE WriteInv'
<1> WriteType
  BY DEF WriteInv
<1> DEFINE d == [u \in AllUnits |-> IF u \in DOMAIN srv.undo.old THEN srv.undo.old[u] ELSE srv.data[u]]
<1>1. /\ fh' = [fh EXCEPT !.checkpoint = FALSE, !.stat = FALSE]
      /\ srv' = [srv EXCEPT !.undo = Nothing, !.size = srv.undo.size, !.data = d]
      /\ op' = [Rest EXCEPT !.kind = "rollback"] /\ UNCHANGED told
  BY DEF RollBack
<1>2. Undoable(srv, told.begun)
  BY DEF RollBack, WriteInv, Journalling
<1>3. d = told.begun.data
  <2>1. told.begun.data \in [AllUnits -> Nat] /\ \A u \in AllUnits : told.begun.data[u] = d[u]
    BY <1>2 DEF Undoable
  <2>2. DOMAIN d = AllUnits /\ d = [u \in AllUnits |-> d[u]]
    OBVIOUS
  <2> HIDE DEF d
  <2> QED
    BY <2>1, <2>2
<1> HIDE DEF d
<1>4. DOMAIN fh' = HandleFields /\ fh'.live = fh.live /\ fh'.checkpoint = FALSE /\ fh'.stat = FALSE
  BY <1>1 DEF WriteType, HandleFields
<1>5. DOMAIN srv' = ServerFields /\ srv'.data = d /\ srv'.size = srv.undo.size
  BY <1>1 DEF WriteType, ServerFields
<1>6. /\ DOMAIN told' = ToldFields /\ told'.calls = told.calls /\ told'.moved = told.moved
      /\ told'.stale = told.stale
  BY <1>1 DEF WriteType
<1>7. WriteType' /\ WhoWrites' /\ Progress(op', srv', told') /\ op'.kind = "rollback" /\ op'.pc = "idle"
  <2>1. fh'.live \in BOOLEAN /\ fh'.checkpoint \in BOOLEAN /\ fh'.stat \in BOOLEAN /\ srv'.data \in [AllUnits -> Nat]
    BY <1>2, <1>3, <1>4, <1>5 DEF WriteType, Undoable
  <2> QED
    BY <1>1, <1>4, <1>5, <1>6, <2>1, QuietType
<1>8. [data |-> srv'.data, size |-> srv'.size] = told'.begun
  BY <1>1, <1>2, <1>3, <1>5 DEF Undoable
<1>9. Journalling' /\ Cached'
  BY <1>4, <1>8 DEF Journalling, Cached
<1> QED
  BY <1>7, <1>9 DEF WriteInv

LEMMA StatStep == ASSUME WriteInv, Stat PROVE WriteInv'
<1> WriteType /\ WhoWrites /\ Progress(op, srv, told) /\ Journalling
  BY DEF WriteInv
<1>1. /\ op.pc = "idle" /\ fh' = [fh EXCEPT !.stat = TRUE, !.hint = srv.size]
      /\ told' = [told EXCEPT !.stale = FALSE] /\ UNCHANGED <<srv, op>>
  BY DEF Stat, Quiet
<1>2. /\ DOMAIN fh' = HandleFields /\ fh'.live = fh.live /\ fh'.checkpoint = fh.checkpoint /\ fh'.stat = TRUE
      /\ fh'.hint = srv.size
  BY <1>1 DEF WriteType, HandleFields
<1>3. /\ DOMAIN told' = ToldFields /\ told'.calls = told.calls /\ told'.moved = told.moved
      /\ told'.stale = FALSE /\ told'.begun = told.begun
  BY <1>1 DEF WriteType, ToldFields
<1>4. WriteType'
  BY <1>1, <1>2, <1>3 DEF WriteType
<1>5. WhoWrites' /\ Journalling' /\ Cached'
  BY <1>1, <1>2, <1>3 DEF WhoWrites, Journalling, Cached
<1>6. Progress(op', srv', told')
  BY <1>1, <1>3 DEF Progress, Returned, Own
<1> QED
  BY <1>4, <1>5, <1>6 DEF WriteInv

LEMMA LoseWriterStep == ASSUME WriteInv, LoseWriter PROVE WriteInv'
<1> WriteType /\ Journalling
  BY DEF WriteInv
<1> DEFINE f == IF op.pc = "plane" /\ op.kind # "write" THEN Invalidated(fh, op.high) ELSE fh
<1>1. /\ op.pc # "idle" /\ fh' = [f EXCEPT !.live = FALSE] /\ UNCHANGED <<srv, told>>
  BY DEF LoseWriter
<1>2. PICK why \in {"transient", "aborted"} : Returns(why)
  BY DEF LoseWriter
<1>3. DOMAIN f = HandleFields /\ f.stat \in BOOLEAN /\ f.checkpoint = fh.checkpoint
  <2>1. DOMAIN fh = HandleFields /\ fh.stat \in BOOLEAN
    BY DEF WriteType
  <2> QED
    BY <2>1, InvalidatedIs
<1> HIDE DEF f
<1>4. DOMAIN fh' = HandleFields /\ fh'.live = FALSE /\ fh'.stat = f.stat /\ fh'.checkpoint = fh.checkpoint
  BY <1>1, <1>3 DEF HandleFields
<1>5. /\ DOMAIN srv' = ServerFields /\ srv'.data \in [AllUnits -> Nat]
      /\ DOMAIN told' = ToldFields /\ told'.calls = told.calls /\ told'.moved \in Nat /\ told'.begun = told.begun
      /\ told'.stale \in BOOLEAN /\ (fh.checkpoint => Undoable(srv', told.begun))
  BY <1>1 DEF WriteType, Journalling
<1>6. fh'.live \in BOOLEAN /\ fh'.stat \in BOOLEAN
  BY <1>3, <1>4
<1> QED
  BY <1>1, <1>2, <1>4, <1>5, <1>6, ReturnStep

LEMMA WriteStutter == ASSUME WriteInv, UNCHANGED writeVars PROVE WriteInv'
  BY DEF writeVars, WriteInv, WriteType, WhoWrites, Progress, Window, PutOff, OneByOne, Paged, Returned, Own,
         Journalling, Undoable, Cached

\* Every write that returns well has its own bytes at the server everywhere, a
\* rollback restores the file a checkpoint began with, and a cached size is the
\* server's unless a write, pgwrite, writev or clone raised part-way and left
\* it (_writing.py, the checkpoint of file.py, upload of bulk.py).
THEOREM WritesAreRight == WriteSpec => []WritesRight
<1>1. WriteInit => WriteInv
  BY WriteStart
<1>2. WriteInv /\ [WriteNext]_writeVars => WriteInv'
  <2> SUFFICES ASSUME WriteInv, [WriteNext]_writeVars PROVE WriteInv'
    OBVIOUS
  <2>1. CASE UNCHANGED writeVars
    BY <2>1, WriteStutter
  <2>2. ASSUME NEW kind \in Plane, BeginWrite(kind) PROVE WriteInv'
    BY <2>2, BeginWriteStep
  <2>3. CASE PlaneSend \/ PlaneAnswer \/ PlaneEnd \/ SendAgain \/ EventWrite
    BY <2>3, PlaneSendStep, PlaneAnswerStep, PlaneEndStep, SendAgainStep, EventWriteStep
  <2>4. CASE PgWrite \/ PgRetry \/ PgEnd \/ Truncate \/ RefusedWhole \/ WriteV \/ Batch
    BY <2>4, PgWriteStep, PgRetryStep, PgEndStep, TruncateStep, RefusedWholeStep, WriteVStep, BatchStep
  <2>5. CASE BeginCheckpoint \/ CommitCheckpoint \/ RollBack \/ Stat \/ LoseWriter
    BY <2>5, BeginCheckpointStep, CommitCheckpointStep, RollBackStep, StatStep, LoseWriterStep
  <2> QED
    BY <2>1, <2>2, <2>3, <2>4, <2>5 DEF WriteNext
<1>3. WriteInv => WritesRight
  <2> SUFFICES ASSUME WriteInv PROVE WritesRight
    OBVIOUS
  <2>1. WriteHonest
    BY DEF WriteInv, Progress, Returned, Own, WriteHonest
  <2>2. RollBackRestores
    BY DEF WriteInv, Journalling, RollBackRestores
  <2>3. SizeFresh
    BY DEF WriteInv, Cached, SizeFresh
  <2> QED
    BY <2>1, <2>2, <2>3 DEF WritesRight
<1> QED
  BY <1>1, <1>2, <1>3, PTL DEF WriteSpec

-----------------------------------------------------------------------------
(* The wire between two loans (BulkReader).                                *)

ReaderFields == {"pc", "kind", "free", "owed", "torn", "frame", "inflight", "issued", "done",
                 "offset", "end", "landed", "failure", "raised"}
LinkFields == {"asked", "frames", "half", "eof", "odd"}
AskFields == {"sid", "off", "len", "sent", "late"}
SessFields == {"broken", "closed", "cancelled", "expired"}
WirePlaces == {"idle", "issue", "take", "yield", "settle", "drain", "handback"}

\* A sequence, whatever it is of.
Sequential(s) == \E S : s \in Seq(S)

\* The last word on a request.
Final(f) == f.st \notin {"oksofar", "waitresp", "notice"}

\* A request is at the server, or an answer to one on the wire.
On(l, s) == (\E q \in l.asked : q.sid = s) \/ (\E i \in 1 .. Len(l.frames) : l.frames[i].sid = s)

\* One request at a time is answered on an id, and after the last word on it
\* nothing more comes.
OneAnswer(l, s) ==
    /\ \A p, q \in l.asked : p.sid = s /\ q.sid = s => p = q
    /\ \A i, j \in 1 .. Len(l.frames) : i < j /\ l.frames[i].sid = s /\ l.frames[j].sid = s => ~Final(l.frames[i])
    /\ \A q \in l.asked, i \in 1 .. Len(l.frames) : q.sid = s /\ l.frames[i].sid = s => ~Final(l.frames[i])

RdType ==
    /\ DOMAIN rd = ReaderFields /\ rd.pc \in WirePlaces
    /\ rd.owed \subseteq Ids /\ rd.done \subseteq Ids /\ rd.free \in Seq(Ids)
EnvType ==
    /\ DOMAIN mach = {"leased", "retired"}
    /\ DOMAIN sess = SessFields /\ sess.broken \in BOOLEAN /\ sess.closed \in BOOLEAN
LinkType ==
    /\ DOMAIN link = LinkFields /\ Sequential(link.frames) /\ \A q \in link.asked : DOMAIN q = AskFields

\* An id is free, owed an answer, or has one waiting for its turn.
Sorted ==
    /\ rd.owed \cap rd.done = {}
    /\ \A i \in 1 .. Len(rd.free) : rd.free[i] \notin rd.owed /\ rd.free[i] \notin rd.done
    /\ \A i, j \in 1 .. Len(rd.free) : rd.free[i] = rd.free[j] => i = j

\* The reader knows what is owed; after it the machine does.
Owing ==
    /\ rd.pc # "idle" => \A s \in Ids : On(link, s) => s \in rd.owed
    /\ (rd.pc = "idle" /\ ~sess.broken) => \A s \in Ids : On(link, s) => s \in mach.retired

OneWord == \A s \in Ids : OneAnswer(link, s)

\* The frame whose header has been read.
InHand ==
    /\ (rd.frame # NoFrame /\ rd.frame.sid \in Ids /\ Final(rd.frame)) => ~On(link, rd.frame.sid)
    /\ (rd.frame # NoFrame /\ rd.pc \in {"take", "drain"} /\ rd.frame.st # "notice") => rd.frame.sid \in rd.owed
    /\ rd.pc \in {"issue", "yield"} => rd.frame = NoFrame
    /\ (rd.pc # "idle" /\ rd.frame # NoFrame) => rd.torn

\* Out of step is torn, and a torn wire is not drained.
Torn ==
    /\ (rd.pc # "idle" /\ link.half) => rd.torn /\ rd.pc \in {"settle", "handback"}
    /\ (rd.pc = "idle" /\ ~sess.broken) => rd.frame = NoFrame /\ ~link.half

Lent == rd.pc # "idle" => ~sess.broken /\ ~sess.closed /\ mach.leased = Ids

WireInv == RdType /\ EnvType /\ LinkType /\ Sorted /\ Owing /\ OneWord /\ InHand /\ Torn /\ Lent

-----------------------------------------------------------------------------
(* What the operators of the model do.                                     *)

LEMMA AnyAppend ==
    ASSUME NEW s, Sequential(s), NEW x
    PROVE  /\ Sequential(Append(s, x)) /\ Len(s) \in Nat /\ Len(Append(s, x)) = Len(s) + 1
           /\ Append(s, x)[Len(s) + 1] = x
           /\ \A i \in 1 .. Len(s) : Append(s, x)[i] = s[i]
<1>1. PICK S : s \in Seq(S)
  BY DEF Sequential
<1>2. s \in Seq(S \cup {x}) /\ x \in S \cup {x}
  BY <1>1
<1>3. Append(s, x) \in Seq(S \cup {x})
  BY <1>2
<1> QED
  BY <1>2, <1>3 DEF Sequential

LEMMA AnyTail ==
    ASSUME NEW s, Sequential(s), s # <<>>
    PROVE  /\ Sequential(Tail(s)) /\ Len(s) \in Nat \ {0} /\ Len(Tail(s)) = Len(s) - 1 /\ Head(s) = s[1]
           /\ \A i \in 1 .. Len(s) - 1 : Tail(s)[i] = s[i + 1]
<1>1. PICK S : s \in Seq(S)
  BY DEF Sequential
<1>2. Tail(s) \in Seq(S) /\ Len(s) \in Nat \ {0}
  BY <1>1
<1> QED
  BY <1>1, <1>2 DEF Sequential

LEMMA AnyEmpty == Sequential(<<>>) /\ Len(<<>>) = 0
<1>1. <<>> \in Seq({})
  OBVIOUS
<1> QED
  BY <1>1 DEF Sequential

LEMMA FreePush ==
    ASSUME NEW S, NEW q \in Seq(S), NEW x \in S
    PROVE  /\ Append(q, x) \in Seq(S) /\ Len(q) \in Nat /\ Len(Append(q, x)) = Len(q) + 1
           /\ Append(q, x)[Len(q) + 1] = x
           /\ \A i \in 1 .. Len(q) : Append(q, x)[i] = q[i]
  OBVIOUS

LEMMA FreePop ==
    ASSUME NEW S, NEW q \in Seq(S), q # <<>>
    PROVE  /\ Front(q) \in Seq(S) /\ Len(q) \in Nat \ {0} /\ Len(Front(q)) = Len(q) - 1
           /\ Last(q) = q[Len(q)] /\ Last(q) \in S
           /\ \A i \in 1 .. Len(q) - 1 : Front(q)[i] = q[i]
<1>1. Len(q) \in Nat \ {0}
  OBVIOUS
<1>2. Front(q) = SubSeq(q, 1, Len(q) - 1) /\ Last(q) = q[Len(q)]
  BY DEF Front, Last
<1> DEFINE n == Len(q) - 1
<1>3. n \in Nat /\ (\A i \in 1 .. n : q[i] \in S) /\ q[n + 1] \in S
  BY <1>1
<1>4. /\ SubSeq(q, 1, n) \in Seq(S) /\ Len(SubSeq(q, 1, n)) = IF 1 <= n THEN n - 1 + 1 ELSE 0
      /\ \A i \in 1 .. n - 1 + 1 : SubSeq(q, 1, n)[i] = q[1 + i - 1]
  BY <1>3, SubSeqProperties
<1> HIDE DEF n
<1>5. n - 1 + 1 = n /\ Len(SubSeq(q, 1, n)) = n /\ \A i \in 1 .. n : 1 + i - 1 = i
  BY <1>3, <1>4
<1>6. Front(q) = SubSeq(q, 1, n) /\ Len(q) - 1 = n /\ Len(q) = n + 1
  BY <1>1, <1>2 DEF n
<1>7. \A i \in 1 .. n : Front(q)[i] = q[i]
  BY <1>4, <1>5, <1>6
<1> QED
  BY <1>1, <1>2, <1>3, <1>4, <1>5, <1>6, <1>7

\* The ids of a lease, each once.
LEMMA LeaseIs ==
    /\ SetToSeq(Ids) \in Seq(Ids)
    /\ \A i, j \in 1 .. Len(SetToSeq(Ids)) : SetToSeq(Ids)[i] = SetToSeq(Ids)[j] => i = j
<1> DEFINE n == Cardinality(Ids)
           good(f) == f \in [1 .. n -> Ids] /\ IsInjective(f)
<1>1. n \in Nat /\ ExistsBijection(1 .. n, Ids)
  BY BulkAssumption, FS_CardinalityType
<1>2. \E f : good(f)
  BY <1>1 DEF ExistsBijection, Bijection, Injection
<1>3. good(SetToSeq(Ids))
  <2>1. SetToSeq(Ids) = CHOOSE f \in [1 .. n -> Ids] : IsInjective(f)
    BY DEF SetToSeq
  <2> QED
    BY <1>2, <2>1
<1> HIDE DEF n
<1>4. SetToSeq(Ids) \in Seq(Ids) /\ DOMAIN SetToSeq(Ids) = 1 .. n
  BY <1>1, <1>3
<1>5. Len(SetToSeq(Ids)) = n
  BY <1>1, <1>4
<1> QED
  BY <1>3, <1>4, <1>5 DEF IsInjective

-----------------------------------------------------------------------------
(* The steps.                                                              *)

LEMMA WireStart == ReaderInit => WireInv
<1> SUFFICES ASSUME ReaderInit PROVE WireInv
  OBVIOUS
<1>1. /\ DOMAIN rd = ReaderFields /\ rd.pc = "idle" /\ rd.owed = {} /\ rd.done = {} /\ rd.free = <<>>
      /\ rd.frame = NoFrame
  BY DEF ReaderInit, Idle, ReaderFields
<1>2. DOMAIN mach = {"leased", "retired"} /\ DOMAIN sess = SessFields /\ sess.broken = FALSE /\ sess.closed = FALSE
  BY DEF ReaderInit, SessFields
<1>3. DOMAIN link = LinkFields /\ link.asked = {} /\ link.frames = <<>> /\ link.half = FALSE
  BY DEF ReaderInit, LinkFields
<1>4. RdType
  BY <1>1 DEF RdType, WirePlaces
<1>5. EnvType
  BY <1>2 DEF EnvType
<1>6. LinkType
  BY <1>3, AnyEmpty DEF LinkType
<1>7. \A s : ~On(link, s) /\ OneAnswer(link, s)
  BY <1>3, AnyEmpty DEF On, OneAnswer
<1>8. Sorted
  BY <1>1, AnyEmpty DEF Sorted
<1> QED
  BY <1>1, <1>2, <1>3, <1>4, <1>5, <1>6, <1>7, <1>8 DEF WireInv, Owing, OneWord, InHand, Torn, Lent

\* The reader moves on and leaves the ids and the wire as they are.
SameHand == rd'.owed = rd.owed /\ rd'.done = rd.done /\ rd'.free = rd.free /\ rd'.frame = rd.frame /\ rd'.torn = rd.torn

LEMMA WalkStep ==
    ASSUME WireInv, rd.pc # "idle", DOMAIN rd' = ReaderFields, SameHand,
           rd'.pc \in WirePlaces \ {"idle"}, rd'.pc # rd.pc => rd'.pc \in {"settle", "handback"} \/ rd.frame = NoFrame,
           rd'.pc \in {"settle", "handback"} \/ ~link.half, UNCHANGED <<mach, link>>,
           DOMAIN sess' = SessFields, sess'.broken = sess.broken, sess'.closed = sess.closed
    PROVE  WireInv'
<1> USE DEF WireInv
<1>1. RdType' /\ EnvType' /\ LinkType' /\ OneWord'
  BY DEF RdType, EnvType, LinkType, OneWord, SameHand
<1>2. Sorted'
  BY DEF Sorted, SameHand
<1>3. Owing' /\ Lent'
  BY DEF Owing, Lent, SameHand
<1>4. InHand'
  BY DEF InHand, SameHand, WirePlaces
<1>5. Torn'
  BY DEF Torn, SameHand
<1> QED
  BY <1>1, <1>2, <1>3, <1>4, <1>5

LEMMA RaiseIs ==
    ASSUME NEW r, DOMAIN r = ReaderFields, NEW err
    PROVE  LET x == Raise(r, err)
           IN /\ DOMAIN x = ReaderFields /\ x.pc = "settle" /\ x.owed = r.owed /\ x.done = r.done /\ x.free = r.free
              /\ x.frame = r.frame /\ x.torn = r.torn
  BY DEF Raise, ReaderFields

LEMMA FailIs ==
    ASSUME NEW r, DOMAIN r = ReaderFields, NEW err
    PROVE  LET x == Fail(r, err)
           IN /\ DOMAIN x = ReaderFields /\ x.pc = AfterError /\ x.owed = r.owed /\ x.done = r.done
              /\ x.free = r.free /\ x.frame = r.frame /\ x.torn = r.torn
  BY DEF Fail, ReaderFields

LEMMA PlaceIs ==
    ASSUME NEW r, DOMAIN r = ReaderFields, NEW pc
    PROVE  LET x == [r EXCEPT !.pc = pc]
           IN /\ DOMAIN x = ReaderFields /\ x.pc = pc /\ x.owed = r.owed /\ x.done = r.done
              /\ x.free = r.free /\ x.frame = r.frame /\ x.torn = r.torn
  BY DEF ReaderFields

LEMMA WalkSteps ==
    ASSUME WireInv,
           IssueStopped \/ IssueDone \/ Resume \/ Leave \/ ClockRunsOut \/ ReadEof \/ Settle \/ Drained
    PROVE  WireInv'
<1>0. /\ DOMAIN rd = ReaderFields /\ DOMAIN sess = SessFields /\ rd.pc \in WirePlaces
      /\ rd.pc \in {"issue", "yield"} => rd.frame = NoFrame
      /\ link.half /\ rd.pc # "idle" => rd.torn /\ rd.pc \in {"settle", "handback"}
      /\ rd.pc # "idle" /\ rd.frame # NoFrame => rd.torn
  BY DEF WireInv, RdType, EnvType, InHand, Torn
<1>1. UNCHANGED <<mach, sess, link>>
  BY DEF IssueStopped, IssueDone, Resume, Leave, ClockRunsOut, ReadEof, Settle, Drained
<1>2. ASSUME NEW err, rd' = Raise(rd, err), rd.pc # "idle" PROVE WireInv'
  <2>1. DOMAIN rd' = ReaderFields /\ SameHand /\ rd'.pc = "settle"
    BY <1>0, <1>2, RaiseIs DEF SameHand
  <2>2. rd'.pc \in WirePlaces \ {"idle"} /\ rd'.pc \in {"settle", "handback"}
    BY <2>1 DEF WirePlaces
  <2> QED
    BY <1>0, <1>1, <1>2, <2>1, <2>2, WalkStep
<1>3. ASSUME NEW err, rd' = Fail(rd, err), rd.pc # "idle" PROVE WireInv'
  <2>1. DOMAIN rd' = ReaderFields /\ SameHand /\ rd'.pc = AfterError
    BY <1>0, <1>3, FailIs DEF SameHand
  <2>2. rd'.pc \in WirePlaces \ {"idle"} /\ rd'.pc \in {"settle", "handback"}
    BY <2>1 DEF WirePlaces, AfterError
  <2> QED
    BY <1>0, <1>1, <1>3, <2>1, <2>2, WalkStep
<1>4. ASSUME NEW pc, rd' = [rd EXCEPT !.pc = pc], rd.pc # "idle", pc \in WirePlaces \ {"idle"},
             pc \in {"settle", "handback"} \/ (rd.frame = NoFrame /\ ~link.half)
      PROVE  WireInv'
  <2>1. DOMAIN rd' = ReaderFields /\ SameHand /\ rd'.pc = pc
    BY <1>0, <1>4, PlaceIs DEF SameHand
  <2>2. rd'.pc \in {"settle", "handback"} \/ ~link.half
    BY <1>4, <2>1
  <2> QED
    BY <1>0, <1>1, <1>4, <2>1, <2>2, WalkStep
<1>5. CASE IssueStopped
  BY <1>2, <1>5 DEF IssueStopped, MayAsk
<1>6. CASE IssueDone
  <2>1. rd.pc = "issue" /\ (rd' = [rd EXCEPT !.pc = "take"] \/ rd' = Raise(rd, rd.failure))
    BY <1>6 DEF IssueDone
  <2> QED
    BY <1>0, <1>2, <1>4, <2>1 DEF WirePlaces
<1>7. CASE Resume
  BY <1>0, <1>4, <1>7 DEF Resume, WirePlaces
<1>8. CASE Leave
  BY <1>2, <1>8 DEF Leave
<1>9. CASE ClockRunsOut
  BY <1>3, <1>9 DEF ClockRunsOut, Waiting, Taking
<1>10. CASE ReadEof
  BY <1>3, <1>10 DEF ReadEof, Waiting, Taking
<1>11. CASE Settle
  <2>1. /\ rd.pc = "settle"
        /\ \/ ~rd.torn /\ rd' = [rd EXCEPT !.pc = "drain"]
           \/ rd' = [rd EXCEPT !.pc = "handback"]
    BY <1>11 DEF Settle
  <2>2. rd.pc # "idle" /\ {"drain", "handback"} \subseteq WirePlaces \ {"idle"}
    BY <2>1 DEF WirePlaces
  <2> QED
    BY <1>0, <1>4, <2>1, <2>2
<1>12. CASE Drained
  BY <1>0, <1>4, <1>12 DEF Drained, WirePlaces
<1> QED
  BY <1>5, <1>6, <1>7, <1>8, <1>9, <1>10, <1>11, <1>12

LEMMA ClockSteps == ASSUME WireInv, Cancel \/ Expire PROVE WireInv'
<1>0. DOMAIN rd = ReaderFields /\ DOMAIN sess = SessFields /\ rd.pc \in WirePlaces
  BY DEF WireInv, RdType, EnvType
<1>1. /\ UNCHANGED <<rd, mach, link>> /\ rd.pc # "idle" /\ DOMAIN sess' = SessFields /\ sess'.broken = sess.broken
      /\ sess'.closed = sess.closed
  BY <1>0 DEF Cancel, Expire, SessFields
<1>2. rd'.pc \in {"settle", "handback"} \/ ~link.half
  BY <1>1 DEF WireInv, Torn
<1> QED
  BY <1>0, <1>1, <1>2, WalkStep DEF SameHand

LEMMA BeginStep == ASSUME WireInv, NEW kind \in Kinds, Begin(kind) PROVE WireInv'
<1> USE DEF WireInv
<1>1. /\ rd' = [Idle EXCEPT !.pc = "issue", !.kind = kind, !.free = SetToSeq(Ids), !.end = Want]
      /\ mach' = [mach EXCEPT !.leased = Ids]
      /\ sess' = [sess EXCEPT !.cancelled = FALSE, !.expired = FALSE]
      /\ UNCHANGED link /\ rd.pc = "idle" /\ ~sess.broken /\ ~sess.closed /\ mach.retired = {}
  BY DEF Begin, Lendable
<1>2. /\ DOMAIN rd' = ReaderFields /\ rd'.pc = "issue" /\ rd'.owed = {} /\ rd'.done = {} /\ rd'.free = SetToSeq(Ids)
      /\ rd'.frame = NoFrame
  BY <1>1 DEF Idle, ReaderFields
<1>3. DOMAIN mach' = {"leased", "retired"} /\ mach'.leased = Ids
  BY <1>1 DEF EnvType
<1>4. DOMAIN sess' = SessFields /\ sess'.broken = sess.broken /\ sess'.closed = sess.closed
  BY <1>1 DEF EnvType, SessFields
<1>5. \A s \in Ids : ~On(link, s)
  BY <1>1 DEF Owing
<1>6. RdType' /\ Sorted'
  BY <1>2, LeaseIs DEF RdType, Sorted, WirePlaces
<1>7. EnvType' /\ LinkType' /\ OneWord' /\ Lent'
  BY <1>1, <1>3, <1>4 DEF EnvType, LinkType, OneWord, Lent
<1>8. Owing' /\ InHand' /\ Torn'
  BY <1>1, <1>2, <1>5 DEF Owing, InHand, Torn
<1> QED
  BY <1>6, <1>7, <1>8

LEMMA IssueStep == ASSUME WireInv, Issue PROVE WireInv'
<1> USE DEF WireInv
<1> DEFINE sid == Last(rd.free)
           size == Min({Chunk, rd.end - rd.offset})
           entry == [off |-> rd.offset, len |-> size, got |-> 0]
           asks == [sid |-> sid, off |-> rd.offset, len |-> size, sent |-> 0, late |-> FALSE]
           f == With(rd.inflight, sid, entry)
           i == IF rd.kind = "stream" THEN Append(rd.issued, sid) ELSE rd.issued
           n == rd.offset + size
<1>1. /\ rd.pc = "issue" /\ rd.free # <<>> /\ UNCHANGED <<mach, sess>> /\ rd.frame = NoFrame /\ ~link.half
      /\ \/ /\ rd' = [rd EXCEPT !.free = Front(rd.free), !.owed = rd.owed \cup {sid}, !.offset = n,
                       !.inflight = f, !.issued = i]
            /\ link' = [link EXCEPT !.asked = link.asked \cup {asks}]
         \/ /\ rd' = [Raise(rd, "connection") EXCEPT !.torn = TRUE]
            /\ link' = [link EXCEPT !.half = TRUE]
  BY DEF Issue, MayAsk, InHand, Torn
<1>2. asks.sid = sid /\ DOMAIN asks = AskFields
  BY DEF AskFields
<1> HIDE DEF size, entry, asks, f, i, n
<1>3. CASE /\ rd' = [Raise(rd, "connection") EXCEPT !.torn = TRUE]
           /\ link' = [link EXCEPT !.half = TRUE]
  <2>1. /\ DOMAIN rd' = ReaderFields /\ rd'.pc = "settle" /\ rd'.owed = rd.owed /\ rd'.done = rd.done
        /\ rd'.free = rd.free /\ rd'.frame = rd.frame /\ rd'.torn = TRUE
    <3>1. DOMAIN rd = ReaderFields
      BY DEF RdType
    <3> DEFINE r == Raise(rd, "connection")
    <3>2. /\ DOMAIN r = ReaderFields /\ r.pc = "settle" /\ r.owed = rd.owed /\ r.done = rd.done /\ r.free = rd.free
          /\ r.frame = rd.frame
      BY <3>1, RaiseIs
    <3> HIDE DEF r
    <3>3. rd' = [r EXCEPT !.torn = TRUE]
      BY <1>3 DEF r
    <3> QED
      BY <3>2, <3>3 DEF ReaderFields
  <2>2. DOMAIN link' = LinkFields /\ link'.asked = link.asked /\ link'.frames = link.frames
    BY <1>3 DEF LinkType, LinkFields
  <2>3. \A s : (On(link', s) <=> On(link, s)) /\ (OneAnswer(link', s) <=> OneAnswer(link, s))
    BY <2>2 DEF On, OneAnswer
  <2>4. RdType' /\ Sorted'
    BY <2>1 DEF RdType, Sorted, WirePlaces
  <2>5. EnvType' /\ LinkType' /\ OneWord' /\ Lent'
    BY <1>1, <2>1, <2>2, <2>3 DEF EnvType, LinkType, OneWord, Lent
  <2>6. Owing' /\ InHand' /\ Torn'
    BY <1>1, <2>1, <2>3 DEF Owing, InHand, Torn
  <2> QED
    BY <2>4, <2>5, <2>6
<1>4. CASE /\ rd' = [rd EXCEPT !.free = Front(rd.free), !.owed = rd.owed \cup {sid}, !.offset = n,
                      !.inflight = f, !.issued = i]
           /\ link' = [link EXCEPT !.asked = link.asked \cup {asks}]
  <2>1. /\ DOMAIN rd' = ReaderFields /\ rd'.pc = "issue" /\ rd'.owed = rd.owed \cup {sid} /\ rd'.done = rd.done
        /\ rd'.free = Front(rd.free) /\ rd'.frame = NoFrame
    BY <1>1, <1>4 DEF RdType, ReaderFields
  <2>2. /\ DOMAIN link' = LinkFields /\ link'.asked = link.asked \cup {asks} /\ link'.frames = link.frames
        /\ link'.half = link.half
    BY <1>4 DEF LinkType, LinkFields
  <2>3. /\ Front(rd.free) \in Seq(Ids) /\ Len(rd.free) \in Nat \ {0} /\ Len(Front(rd.free)) = Len(rd.free) - 1
        /\ sid = rd.free[Len(rd.free)] /\ sid \in Ids
        /\ \A k \in 1 .. Len(rd.free) - 1 : Front(rd.free)[k] = rd.free[k]
    BY <1>1, FreePop DEF RdType
  <2>4. sid \notin rd.owed /\ sid \notin rd.done /\ ~On(link, sid)
    BY <1>1, <2>3 DEF Sorted, Owing
  <2> HIDE DEF sid
  <2>5. RdType' /\ Sorted'
    <3>1. RdType'
      BY <2>1, <2>3 DEF RdType, WirePlaces
    <3>2. \A k \in 1 .. Len(rd'.free) : rd'.free[k] \notin rd'.owed /\ rd'.free[k] \notin rd'.done
      <4> SUFFICES ASSUME NEW k \in 1 .. Len(rd.free) - 1 PROVE rd.free[k] \notin rd.owed \cup {sid} /\ rd.free[k] \notin rd.done
        BY <2>1, <2>3
      <4>1. k \in 1 .. Len(rd.free) /\ k # Len(rd.free) /\ Len(rd.free) \in 1 .. Len(rd.free)
        BY <2>3
      <4> QED
        BY <2>3, <4>1 DEF Sorted
    <3>3. \A k, j \in 1 .. Len(rd'.free) : rd'.free[k] = rd'.free[j] => k = j
      BY <2>1, <2>3 DEF Sorted
    <3>4. rd'.owed \cap rd'.done = {}
      BY <2>1, <2>4 DEF Sorted
    <3> QED
      BY <3>1, <3>2, <3>3, <3>4 DEF Sorted
  <2>6. EnvType' /\ LinkType' /\ Lent'
    BY <1>1, <1>2, <2>1, <2>2 DEF EnvType, LinkType, Lent
  <2>7. OneWord'
    <3>1. ASSUME NEW s \in Ids PROVE OneAnswer(link', s)
      <4>1. CASE s = sid
        BY <1>2, <2>2, <2>4, <4>1 DEF OneAnswer, On
      <4>2. CASE s # sid
        BY <1>2, <2>2, <4>2 DEF OneAnswer, OneWord
      <4> QED
        BY <4>1, <4>2
    <3> QED
      BY <3>1 DEF OneWord
  <2>8. Owing' /\ InHand' /\ Torn'
    BY <1>1, <1>2, <2>1, <2>2 DEF Owing, InHand, Torn, On
  <2> QED
    BY <2>5, <2>6, <2>7, <2>8
<1> QED
  BY <1>1, <1>3, <1>4

\* The first frame comes off the wire.
LEMMA PopIs ==
    ASSUME LinkType, OneWord, link.frames # <<>>, link' = [link EXCEPT !.frames = Tail(link.frames)]
    PROVE  /\ LinkType' /\ OneWord' /\ link'.half = link.half
           /\ \A s \in Ids : On(link', s) => On(link, s)
           /\ (Head(link.frames).sid \in Ids /\ Final(Head(link.frames))) => ~On(link', Head(link.frames).sid)
<1> DEFINE f == Head(link.frames)
<1>3. /\ Sequential(Tail(link.frames)) /\ Len(link.frames) \in Nat \ {0} /\ Len(Tail(link.frames)) = Len(link.frames) - 1
      /\ f = link.frames[1] /\ \A i \in 1 .. Len(link.frames) - 1 : Tail(link.frames)[i] = link.frames[i + 1]
  BY AnyTail DEF LinkType
<1> HIDE DEF f
<1>5. /\ DOMAIN link' = LinkFields /\ link'.asked = link.asked /\ link'.frames = Tail(link.frames)
      /\ link'.half = link.half
  BY DEF LinkType, LinkFields
<1>8. LinkType'
  BY <1>3, <1>5 DEF LinkType
<1>9. \A i \in 1 .. Len(link'.frames) : i + 1 \in 1 .. Len(link.frames) /\ i + 1 > 1 /\ link'.frames[i] = link.frames[i + 1]
  BY <1>3, <1>5
<1>10. \A s : On(link', s) => On(link, s)
  BY <1>5, <1>9 DEF On
<1>11. OneWord'
  <2> SUFFICES ASSUME NEW s \in Ids PROVE OneAnswer(link', s)
    BY DEF OneWord
  <2>1. OneAnswer(link, s)
    BY DEF OneWord
  <2>2. ASSUME NEW i \in 1 .. Len(link'.frames), NEW j \in 1 .. Len(link'.frames), i < j,
               link'.frames[i].sid = s, link'.frames[j].sid = s
        PROVE  ~Final(link'.frames[i])
    <3>1. i + 1 < j + 1
      BY <1>3, <1>5, <2>2
    <3> QED
      BY <1>9, <2>1, <2>2, <3>1 DEF OneAnswer
  <2> QED
    BY <1>5, <1>9, <2>1, <2>2 DEF OneAnswer
<1>13. ASSUME f.sid \in Ids, Final(f) PROVE ~On(link', f.sid)
  <2>1. OneAnswer(link, f.sid) /\ 1 \in 1 .. Len(link.frames)
    BY <1>3, <1>13 DEF OneWord
  <2> QED
    BY <1>3, <1>5, <1>9, <1>13, <2>1 DEF OneAnswer, On
<1> QED
  BY <1>5, <1>8, <1>10, <1>11, <1>13 DEF f

LEMMA TakeHeaderStep == ASSUME WireInv, TakeHeader PROVE WireInv'
<1> USE DEF WireInv
<1> DEFINE f == Head(link.frames)
           r == [rd EXCEPT !.frame = f, !.torn = TRUE]
<1>1. /\ rd.pc \in {"take", "drain"} /\ link.frames # <<>> /\ UNCHANGED <<mach, sess>>
      /\ link' = [link EXCEPT !.frames = Tail(link.frames)]
      /\ \/ rd' = Fail(r, "protocol")
         \/ (f.st = "notice" \/ f.sid \in rd.owed) /\ rd' = r
  BY DEF TakeHeader, Waiting, Taking
<1>2. /\ DOMAIN r = ReaderFields /\ r.pc = rd.pc /\ r.owed = rd.owed /\ r.done = rd.done /\ r.free = rd.free
      /\ r.frame = f /\ r.torn = TRUE
  BY DEF RdType, ReaderFields
<1>3. /\ LinkType' /\ OneWord' /\ link'.half = link.half
      /\ \A s \in Ids : On(link', s) => On(link, s)
      /\ (f.sid \in Ids /\ Final(f)) => ~On(link', f.sid)
  BY <1>1, PopIs
<1> HIDE DEF r, f
<1>4. /\ DOMAIN rd' = ReaderFields /\ rd'.owed = rd.owed /\ rd'.done = rd.done /\ rd'.free = rd.free
      /\ rd'.frame = f /\ rd'.torn = TRUE
      /\ \/ rd'.pc \in {"settle", "handback"}
         \/ (f.st = "notice" \/ f.sid \in rd.owed) /\ rd'.pc = rd.pc
  <2>1. CASE rd' = Fail(r, "protocol")
    BY <1>2, <2>1, FailIs DEF AfterError
  <2>2. CASE (f.st = "notice" \/ f.sid \in rd.owed) /\ rd' = r
    BY <1>2, <2>2
  <2> QED
    BY <1>1, <2>1, <2>2
<1>5. RdType' /\ Sorted'
  BY <1>1, <1>4 DEF RdType, Sorted, WirePlaces
<1>6. EnvType' /\ Lent'
  BY <1>1 DEF EnvType, Lent
<1>7. Owing' /\ Torn'
  BY <1>1, <1>3, <1>4 DEF Owing, Torn
<1>8. InHand'
  BY <1>1, <1>3, <1>4 DEF InHand
<1> QED
  BY <1>3, <1>5, <1>6, <1>7, <1>8

\* A frame has been dealt with, or none was in hand.
LEMMA BodyStep ==
    ASSUME WireInv, rd.pc # "idle", ~link.half, RdType', Sorted', rd'.pc # "idle", rd'.frame = NoFrame,
           \A s \in Ids : On(link, s) => s \in rd'.owed, UNCHANGED <<mach, sess, link>>
    PROVE  WireInv'
<1> USE DEF WireInv
<1>1. EnvType' /\ LinkType' /\ OneWord' /\ Lent'
  BY DEF EnvType, LinkType, OneWord, Lent
<1>2. Owing' /\ InHand' /\ Torn'
  BY DEF Owing, InHand, Torn
<1> QED
  BY <1>1, <1>2

\* Where an id goes: it is free, or its answer waits for its turn, or neither.
LEMMA IdFreed ==
    ASSUME RdType, Sorted, NEW sid \in rd.owed \cup rd.done, DOMAIN rd' = ReaderFields, rd'.pc \in WirePlaces,
           rd'.owed = rd.owed \ {sid}, rd'.done = rd.done \ {sid}, rd'.free = Append(rd.free, sid)
    PROVE  RdType' /\ Sorted'
<1>0. sid \in Ids
  BY DEF RdType
<1>1. /\ Append(rd.free, sid) \in Seq(Ids) /\ Len(rd.free) \in Nat /\ Len(Append(rd.free, sid)) = Len(rd.free) + 1
      /\ Append(rd.free, sid)[Len(rd.free) + 1] = sid
      /\ \A i \in 1 .. Len(rd.free) : Append(rd.free, sid)[i] = rd.free[i]
  BY <1>0, FreePush DEF RdType
<1>2. RdType'
  BY <1>1 DEF RdType
<1>3. \A i \in 1 .. Len(rd'.free) : i \in 1 .. Len(rd.free) \/ i = Len(rd.free) + 1
  BY <1>1
<1>4. \A i \in 1 .. Len(rd.free) : rd.free[i] # sid
  BY DEF Sorted
<1>5. \A i \in 1 .. Len(rd'.free) : rd'.free[i] \notin rd'.owed /\ rd'.free[i] \notin rd'.done
  BY <1>1, <1>3 DEF Sorted
<1>6. \A i, j \in 1 .. Len(rd'.free) : rd'.free[i] = rd'.free[j] => i = j
  BY <1>1, <1>3, <1>4 DEF Sorted
<1> QED
  BY <1>2, <1>5, <1>6 DEF Sorted

LEMMA IdKept ==
    ASSUME RdType, Sorted, DOMAIN rd' = ReaderFields, rd'.pc \in WirePlaces, NEW sid,
           \/ rd'.owed \in {rd.owed, rd.owed \ {sid}} /\ rd'.done = rd.done
           \/ sid \in rd.owed /\ rd'.owed = rd.owed \ {sid} /\ rd'.done = rd.done \cup {sid},
           rd'.free = rd.free
    PROVE  RdType' /\ Sorted'
  BY DEF RdType, Sorted

LEMMA LandedIs ==
    ASSUME NEW r, DOMAIN r = ReaderFields
    PROVE  /\ DOMAIN Landed(r) = ReaderFields /\ Landed(r).pc = r.pc /\ Landed(r).owed = r.owed
           /\ Landed(r).done = r.done /\ Landed(r).free = r.free /\ Landed(r).frame = NoFrame
           /\ Landed(r).inflight = r.inflight /\ Landed(r).failure = r.failure
  BY DEF Landed, ReaderFields

LEMMA AnsweredIs ==
    ASSUME NEW r, DOMAIN r = ReaderFields, NEW sid
    PROVE  LET x == Answered(r, sid)
           IN /\ DOMAIN x = ReaderFields /\ x.pc = r.pc /\ x.owed = r.owed \ {sid}
              /\ x.done = r.done /\ x.free = r.free /\ x.frame = NoFrame
              /\ x.inflight = r.inflight /\ x.failure = r.failure
<1> DEFINE l == Landed(r)
<1>1. /\ DOMAIN l = ReaderFields /\ l.pc = r.pc /\ l.owed = r.owed /\ l.done = r.done /\ l.free = r.free
      /\ l.frame = NoFrame /\ l.inflight = r.inflight /\ l.failure = r.failure
  BY LandedIs
<1>2. Answered(r, sid) = [l EXCEPT !.owed = l.owed \ {sid}]
  BY DEF Answered
<1> HIDE DEF l
<1> QED
  BY <1>1, <1>2 DEF ReaderFields

LEMMA CollectedIs ==
    ASSUME NEW r, DOMAIN r = ReaderFields, NEW sid, NEW got
    PROVE  LET x == Collected(r, sid, got)
           IN /\ DOMAIN x = ReaderFields /\ x.pc = "issue" /\ x.owed = r.owed
              /\ x.done = r.done /\ x.free = Append(r.free, sid) /\ x.frame = r.frame
<1> DEFINE e == r.inflight[sid]
           stop == Min({r.end, e.off + got})
           a == Append(r.free, sid)
           w == Without(r.inflight, sid)
           o == Others(r.issued, sid)
           n == r.landed + got
           b == IF r.kind # "gather" /\ got < e.len THEN stop ELSE r.end
           c == IF r.kind # "gather" /\ got < e.len THEN Min({r.offset, stop}) ELSE r.offset
<1>1. Collected(r, sid, got) =
        [r EXCEPT !.pc = "issue", !.free = a, !.inflight = w, !.issued = o, !.landed = n, !.end = b, !.offset = c]
  BY Zenon DEF Collected
<1> HIDE DEF e, stop, a, w, o, n, b, c
<1>2. LET x == Collected(r, sid, got)
      IN /\ DOMAIN x = ReaderFields /\ x.pc = "issue" /\ x.owed = r.owed
         /\ x.done = r.done /\ x.free = a /\ x.frame = r.frame
  BY <1>1 DEF ReaderFields
<1> QED
  BY <1>2 DEF a

LEMMA GotIs ==
    ASSUME NEW r, DOMAIN r = ReaderFields, NEW sid, NEW got
    PROVE  LET x == [r EXCEPT !.inflight[sid].got = got]
           IN /\ DOMAIN x = ReaderFields /\ x.pc = r.pc /\ x.owed = r.owed /\ x.done = r.done
              /\ x.free = r.free /\ x.frame = r.frame
  BY DEF ReaderFields

LEMMA BodyOfReadIs ==
    ASSUME WireInv, NEW f, f.st # "notice", rd.pc = "take", BodyOfRead(f)
    PROVE  /\ DOMAIN rd' = ReaderFields /\ rd'.frame = NoFrame /\ rd'.pc \in {"take", "issue", "settle"}
           /\ \/ rd'.owed = rd.owed /\ rd'.done = rd.done /\ rd'.free = rd.free
              \/ /\ Final(f) /\ rd'.owed = rd.owed \ {f.sid}
                 /\ \/ rd'.done = rd.done /\ rd'.free = rd.free
                    \/ rd'.done = rd.done \cup {f.sid} /\ rd'.free = rd.free
                    \/ rd'.done = rd.done /\ rd'.free = Append(rd.free, f.sid)
<1> DEFINE sid == f.sid
           got == rd.inflight[sid].got + f.size
           l == Landed(rd)
           r == [l EXCEPT !.inflight[sid].got = got]
           a == Answered(r, sid)
           b == Answered(rd, sid)
           err == IF f.st = "error" THEN "server" ELSE "unsupported"
<1>1. \/ f.st = "oksofar" /\ rd' = r
      \/ f.st = "ok" /\ rd' = [a EXCEPT !.done = a.done \cup {sid}]
      \/ f.st = "ok" /\ rd' = Collected(a, sid, got)
      \/ rd' = l
      \/ f.st \notin {"oksofar", "waitresp"} /\ rd' = Raise(b, err)
  BY DEF BodyOfRead
<1>2. DOMAIN rd = ReaderFields
  BY DEF WireInv, RdType
<1>3. /\ DOMAIN l = ReaderFields /\ l.pc = rd.pc /\ l.owed = rd.owed /\ l.done = rd.done /\ l.free = rd.free
      /\ l.frame = NoFrame
  BY <1>2, LandedIs
<1> HIDE DEF l, got, err
<1>4. /\ DOMAIN r = ReaderFields /\ r.pc = rd.pc /\ r.owed = rd.owed /\ r.done = rd.done /\ r.free = rd.free
      /\ r.frame = NoFrame
  BY <1>3, GotIs
<1> HIDE DEF r
<1>5. /\ DOMAIN a = ReaderFields /\ a.pc = rd.pc /\ a.owed = rd.owed \ {sid} /\ a.done = rd.done
      /\ a.free = rd.free /\ a.frame = NoFrame
  BY <1>4, AnsweredIs
<1>6. /\ DOMAIN b = ReaderFields /\ b.pc = rd.pc /\ b.owed = rd.owed \ {sid} /\ b.done = rd.done
      /\ b.free = rd.free /\ b.frame = NoFrame
  BY <1>2, AnsweredIs
<1> HIDE DEF a, b
<1>7. CASE f.st = "oksofar" /\ rd' = r
  BY <1>4, <1>7
<1>8. CASE f.st = "ok" /\ rd' = [a EXCEPT !.done = a.done \cup {sid}]
  <2>1. /\ DOMAIN rd' = ReaderFields /\ rd'.pc = a.pc /\ rd'.owed = a.owed /\ rd'.done = rd.done \cup {sid}
        /\ rd'.free = a.free /\ rd'.frame = a.frame
    BY <1>5, <1>8 DEF ReaderFields
  <2> QED
    BY <1>5, <1>8, <2>1 DEF Final
<1>9. CASE f.st = "ok" /\ rd' = Collected(a, sid, got)
  BY <1>5, <1>9, CollectedIs DEF Final
<1>10. CASE rd' = l
  BY <1>3, <1>10
<1>11. CASE f.st \notin {"oksofar", "waitresp"} /\ rd' = Raise(b, err)
  BY <1>6, <1>11, RaiseIs DEF Final
<1> QED
  BY <1>1, <1>7, <1>8, <1>9, <1>10, <1>11

LEMMA BodyOfWriteIs ==
    ASSUME WireInv, NEW f, f.st # "notice", rd.pc = "take", BodyOfWrite(f)
    PROVE  /\ DOMAIN rd' = ReaderFields /\ rd'.frame = NoFrame /\ rd'.pc \in {"take", "issue", "settle"}
           /\ \/ rd'.owed = rd.owed /\ rd'.done = rd.done /\ rd'.free = rd.free
              \/ /\ Final(f) /\ rd'.owed = rd.owed \ {f.sid}
                 /\ rd'.done = rd.done /\ rd'.free = Append(rd.free, f.sid)
<1> DEFINE sid == f.sid
           a == Answered(rd, sid)
           q == Append(a.free, sid)
           w == Without(a.inflight, sid)
           r == [a EXCEPT !.pc = "issue", !.free = q, !.inflight = w]
           n == r.landed + 1
           e == FirstFailure(r.failure, IF f.st = "error" THEN "server" ELSE "unsupported")
<1>1. \/ rd' = Landed(rd)
      \/ /\ f.st \notin {"oksofar", "waitresp"}
         /\ \/ rd' = r \/ rd' = [r EXCEPT !.landed = n] \/ rd' = [r EXCEPT !.failure = e]
            \/ rd' = [Raise(r, "protocol") EXCEPT !.torn = TRUE]
  BY DEF BodyOfWrite
<1>2. DOMAIN rd = ReaderFields
  BY DEF WireInv, RdType
<1>3. /\ DOMAIN a = ReaderFields /\ a.pc = rd.pc /\ a.owed = rd.owed \ {sid} /\ a.done = rd.done
      /\ a.free = rd.free /\ a.frame = NoFrame
  BY <1>2, AnsweredIs
<1> HIDE DEF a, w, n, e
<1>4. q = Append(rd.free, sid)
  BY <1>3
<1> HIDE DEF q
<1>5. /\ DOMAIN r = ReaderFields /\ r.pc = "issue" /\ r.owed = rd.owed \ {sid} /\ r.done = rd.done
      /\ r.free = q /\ r.frame = NoFrame
  BY <1>3 DEF ReaderFields
<1> HIDE DEF r
<1>6. CASE rd' = Landed(rd)
  BY <1>2, <1>6, LandedIs
<1>7. CASE /\ f.st \notin {"oksofar", "waitresp"}
           /\ rd' = r \/ rd' = [r EXCEPT !.landed = n] \/ rd' = [r EXCEPT !.failure = e]
  <2>1. /\ DOMAIN rd' = ReaderFields /\ rd'.pc = r.pc /\ rd'.owed = r.owed /\ rd'.done = r.done
        /\ rd'.free = r.free /\ rd'.frame = r.frame
    BY <1>5, <1>7 DEF ReaderFields
  <2> QED
    BY <1>4, <1>5, <1>7, <2>1 DEF Final
<1>8. CASE f.st \notin {"oksofar", "waitresp"} /\ rd' = [Raise(r, "protocol") EXCEPT !.torn = TRUE]
  <2>1. LET x == Raise(r, "protocol")
        IN /\ DOMAIN x = ReaderFields /\ x.pc = "settle" /\ x.owed = r.owed /\ x.done = r.done
           /\ x.free = r.free /\ x.frame = r.frame
    BY <1>5, RaiseIs
  <2>2. /\ DOMAIN rd' = ReaderFields /\ rd'.pc = "settle" /\ rd'.owed = r.owed /\ rd'.done = r.done
        /\ rd'.free = r.free /\ rd'.frame = r.frame
    BY <1>8, <2>1 DEF ReaderFields
  <2> QED
    BY <1>4, <1>5, <1>8, <2>2 DEF Final
<1> QED
  BY <1>1, <1>6, <1>7, <1>8

LEMMA TakeBodyStep == ASSUME WireInv, TakeBody PROVE WireInv'
<1> DEFINE f == rd.frame
<1>1. /\ rd.pc \in {"take", "drain"} /\ f # NoFrame /\ UNCHANGED <<mach, sess, link>>
      /\ \/ rd' = Landed(rd)
         \/ f.st # "notice" /\ rd.pc = "drain" /\ BodyDrained(f)
         \/ f.st # "notice" /\ rd.pc = "take" /\ BodyOfRead(f)
         \/ f.st # "notice" /\ rd.pc = "take" /\ BodyOfWrite(f)
  BY DEF TakeBody, Taking
<1>2. /\ DOMAIN rd = ReaderFields /\ rd.pc # "idle" /\ ~link.half
      /\ f.st # "notice" => f.sid \in rd.owed
      /\ f.sid \in Ids /\ Final(f) => ~On(link, f.sid)
      /\ \A s \in Ids : On(link, s) => s \in rd.owed
      /\ rd.owed \subseteq Ids /\ RdType /\ Sorted
  BY <1>1 DEF WireInv, RdType, InHand, Torn, Owing
<1> HIDE DEF f
<1>3. /\ DOMAIN rd' = ReaderFields /\ rd'.frame = NoFrame /\ rd'.pc \in WirePlaces \ {"idle"}
      /\ \/ rd'.owed = rd.owed /\ rd'.done = rd.done /\ rd'.free = rd.free
         \/ /\ f.st # "notice" /\ Final(f) /\ rd'.owed = rd.owed \ {f.sid}
            /\ \/ rd'.done = rd.done /\ rd'.free = rd.free
               \/ rd'.done = rd.done \cup {f.sid} /\ rd'.free = rd.free
               \/ rd'.done = rd.done /\ rd'.free = Append(rd.free, f.sid)
  <2>0. {"take", "drain", "issue", "settle"} \subseteq WirePlaces \ {"idle"}
    BY DEF WirePlaces
  <2>1. CASE rd' = Landed(rd)
    BY <1>1, <1>2, <2>0, <2>1, LandedIs
  <2>2. CASE f.st # "notice" /\ rd.pc = "drain" /\ BodyDrained(f)
    <3>1. rd' = Landed(rd) \/ (Final(f) /\ rd' = Answered(rd, f.sid))
      BY <2>2 DEF BodyDrained, Final
    <3> QED
      BY <1>1, <1>2, <2>0, <2>1, <2>2, <3>1, AnsweredIs
  <2>3. CASE f.st # "notice" /\ rd.pc = "take" /\ BodyOfRead(f)
    BY <2>0, <2>3, BodyOfReadIs
  <2>4. CASE f.st # "notice" /\ rd.pc = "take" /\ BodyOfWrite(f)
    BY <2>0, <2>4, BodyOfWriteIs
  <2> QED
    BY <1>1, <2>1, <2>2, <2>3, <2>4
<1>4. \A s \in Ids : On(link, s) => s \in rd'.owed
  BY <1>2, <1>3
<1>5. RdType' /\ Sorted'
  <2>1. CASE rd'.owed = rd.owed /\ rd'.done = rd.done /\ rd'.free = rd.free
    BY <1>2, <1>3, <2>1, IdKept
  <2>2. CASE /\ f.st # "notice" /\ rd'.owed = rd.owed \ {f.sid}
             /\ rd'.done = rd.done \/ rd'.done = rd.done \cup {f.sid}
             /\ rd'.free = rd.free
    BY <1>2, <1>3, <2>2, IdKept
  <2>3. CASE f.st # "notice" /\ rd'.owed = rd.owed \ {f.sid} /\ rd'.done = rd.done /\ rd'.free = Append(rd.free, f.sid)
    <3>1. f.sid \in rd.owed \cup rd.done /\ rd.done = rd.done \ {f.sid}
      BY <1>2, <2>3 DEF Sorted
    <3> QED
      BY <1>2, <1>3, <2>3, <3>1, IdFreed
  <2> QED
    BY <1>3, <2>1, <2>2, <2>3
<1> QED
  BY <1>1, <1>2, <1>3, <1>4, <1>5, BodyStep

LEMMA YieldStep == ASSUME WireInv, Yield PROVE WireInv'
<1> DEFINE sid == Head(rd.issued)
           g == rd.inflight[sid].got
           c == Collected(rd, sid, g)
           p == IF g > 0 THEN "yield" ELSE "issue"
<1>1. /\ rd.pc = "take" /\ rd.frame = NoFrame /\ sid \in rd.done /\ UNCHANGED <<mach, sess, link>>
      /\ rd' = [c EXCEPT !.done = c.done \ {sid}, !.pc = p]
  BY DEF Yield
<1>2. /\ DOMAIN rd = ReaderFields /\ ~link.half /\ RdType /\ Sorted
      /\ \A s \in Ids : On(link, s) => s \in rd.owed
  BY <1>1 DEF WireInv, RdType, Torn, Owing
<1>3. p \in WirePlaces \ {"idle"}
  BY DEF WirePlaces
<1>4. /\ DOMAIN c = ReaderFields /\ c.owed = rd.owed /\ c.done = rd.done /\ c.free = Append(rd.free, sid)
      /\ c.frame = rd.frame
  BY <1>2, CollectedIs
<1> HIDE DEF c, p, g
<1>5. /\ DOMAIN rd' = ReaderFields /\ rd'.owed = c.owed /\ rd'.done = rd.done \ {sid}
      /\ rd'.free = c.free /\ rd'.frame = c.frame /\ rd'.pc = p
  BY <1>1, <1>4 DEF ReaderFields
<1> HIDE DEF sid
<1>6. rd.owed = rd.owed \ {sid} /\ sid \in rd.owed \cup rd.done
  BY <1>1, <1>2 DEF Sorted
<1>7. RdType' /\ Sorted'
  BY <1>2, <1>3, <1>4, <1>5, <1>6, IdFreed
<1> QED
  BY <1>1, <1>2, <1>3, <1>4, <1>5, <1>7, BodyStep

LEMMA HandBackStep == ASSUME WireInv, HandBack PROVE WireInv'
<1> USE DEF WireInv
<1> DEFINE broken == ~Trusted \/ rd.raised \in {"connection", "timeout"}
           shut == (rd.raised = "cancelled" /\ broken)
<1>1. /\ rd.pc = "handback" /\ mach' = HandedBack /\ UNCHANGED link
      /\ sess' = [sess EXCEPT !.broken = broken, !.closed = shut]
      /\ rd' = [Idle EXCEPT !.kind = rd.kind, !.frame = rd.frame, !.landed = rd.landed, !.raised = rd.raised]
  BY DEF HandBack
<1>2. broken \in BOOLEAN /\ shut \in BOOLEAN /\ (~broken => Trusted)
  OBVIOUS
<1> HIDE DEF broken, shut
<1>3. DOMAIN sess' = SessFields /\ sess'.broken = broken /\ sess'.closed = shut
  BY <1>1 DEF EnvType, SessFields
<1>4. /\ DOMAIN rd' = ReaderFields /\ rd'.pc = "idle" /\ rd'.owed = {} /\ rd'.done = {} /\ rd'.free = <<>>
      /\ rd'.frame = rd.frame
  BY <1>1 DEF Idle, ReaderFields
<1>5. DOMAIN mach' = {"leased", "retired"} /\ (Trusted => mach'.retired = rd.owed)
  BY <1>1 DEF HandedBack, EnvType
<1>6. RdType' /\ Sorted'
  BY <1>4, AnyEmpty DEF RdType, Sorted, WirePlaces
<1>7. EnvType' /\ LinkType' /\ OneWord' /\ Lent'
  BY <1>1, <1>2, <1>3, <1>4, <1>5 DEF EnvType, LinkType, OneWord, Lent
<1>8. InHand'
  BY <1>1, <1>4 DEF InHand
<1>9. Owing' /\ Torn'
  BY <1>1, <1>2, <1>3, <1>4, <1>5 DEF Owing, Torn, InHand, Trusted
<1> QED
  BY <1>6, <1>7, <1>8, <1>9

LEMMA EventPathStep == ASSUME WireInv, EventPathDrops PROVE WireInv'
<1> USE DEF WireInv
<1> DEFINE f == Head(link.frames)
           kept == mach.retired \ {f.sid}
<1>1. /\ rd.pc = "idle" /\ ~sess.broken /\ link.frames # <<>> /\ UNCHANGED <<rd, sess>>
      /\ link' = [link EXCEPT !.frames = Tail(link.frames)]
      /\ \/ mach' = mach
         \/ Final(f) /\ mach' = [mach EXCEPT !.retired = kept]
  BY DEF EventPathDrops, Final
<1>2. /\ LinkType' /\ OneWord' /\ link'.half = link.half
      /\ \A s \in Ids : On(link', s) => On(link, s)
      /\ (f.sid \in Ids /\ Final(f)) => ~On(link', f.sid)
  BY <1>1, PopIs
<1> HIDE DEF f
<1>3. DOMAIN mach' = {"leased", "retired"} /\ (mach'.retired = mach.retired \/ (Final(f) /\ mach'.retired = kept))
  BY <1>1 DEF EnvType
<1>4. RdType' /\ Sorted' /\ EnvType' /\ Lent'
  BY <1>1, <1>3 DEF RdType, Sorted, EnvType, Lent
<1>5. Owing'
  <2>1. ASSUME NEW s \in Ids, On(link', s) PROVE s \in mach'.retired
    BY <1>1, <1>2, <1>3, <2>1 DEF Owing
  <2> QED
    BY <1>1, <2>1 DEF Owing
<1>6. InHand' /\ Torn'
  BY <1>1, <1>2 DEF InHand, Torn
<1> QED
  BY <1>2, <1>4, <1>5, <1>6

\* The server moves, and puts nothing new on a quiet id.
LEMMA ServerStep ==
    ASSUME WireInv, UNCHANGED <<rd, mach, sess>>, LinkType', OneWord', link'.half = link.half,
           \A s \in Ids : On(link', s) => On(link, s)
    PROVE  WireInv'
<1> USE DEF WireInv
<1>1. RdType' /\ Sorted' /\ EnvType' /\ Lent'
  BY DEF RdType, Sorted, EnvType, Lent
<1>2. Owing'
  BY DEF Owing
<1>3. InHand' /\ Torn'
  BY DEF InHand, Torn
<1> QED
  BY <1>1, <1>2, <1>3

\* An answer to a request, or one nobody asked for, joins the wire.
LEMMA PushIs ==
    ASSUME LinkType, OneWord, NEW f, DOMAIN link' = LinkFields, link'.frames = Append(link.frames, f),
           f.sid \in Ids => \E q \in link.asked : q.sid = f.sid,
           \A a \in link'.asked : DOMAIN a = AskFields /\ \E q \in link.asked : q.sid = a.sid,
           \A a, b \in link'.asked : a.sid \in Ids /\ a.sid = b.sid => a = b,
           Final(f) /\ f.sid \in Ids => \A a \in link'.asked : a.sid # f.sid
    PROVE  LinkType' /\ OneWord' /\ \A s \in Ids : On(link', s) => On(link, s)
<1> DEFINE n == Len(link.frames)
<1>1. /\ Sequential(link'.frames) /\ n \in Nat /\ Len(link'.frames) = n + 1
      /\ link'.frames[n + 1] = f /\ \A i \in 1 .. n : link'.frames[i] = link.frames[i]
  BY AnyAppend DEF LinkType
<1>2. LinkType'
  BY <1>1 DEF LinkType
<1> HIDE DEF n
<1>3. \A i \in 1 .. Len(link'.frames) : (i \in 1 .. n /\ i # n + 1 /\ link'.frames[i] = link.frames[i]) \/ (i = n + 1 /\ link'.frames[i] = f)
  BY <1>1
<1>4. \A s \in Ids : On(link', s) => On(link, s)
  BY <1>3 DEF On, n
<1>5. ASSUME NEW s \in Ids PROVE OneAnswer(link', s)
  <2>1. OneAnswer(link, s)
    BY DEF OneWord
  <2>2. ASSUME NEW i \in 1 .. Len(link'.frames), NEW j \in 1 .. Len(link'.frames), i < j,
               link'.frames[i].sid = s, link'.frames[j].sid = s
        PROVE  ~Final(link'.frames[i])
    <3>1. i \in 1 .. n /\ link'.frames[i] = link.frames[i]
      BY <1>1, <1>3, <2>2
    <3>2. CASE j \in 1 .. n /\ link'.frames[j] = link.frames[j]
      BY <2>1, <2>2, <3>1, <3>2 DEF OneAnswer, n
    <3>3. CASE link'.frames[j] = f
      BY <2>1, <2>2, <3>1, <3>3 DEF OneAnswer, n
    <3> QED
      BY <1>3, <3>2, <3>3
  <2>3. ASSUME NEW q \in link'.asked, NEW i \in 1 .. Len(link'.frames), q.sid = s, link'.frames[i].sid = s
        PROVE  ~Final(link'.frames[i])
    <3>1. PICK p \in link.asked : p.sid = s
      BY <2>3
    <3>2. CASE i \in 1 .. n /\ link'.frames[i] = link.frames[i]
      BY <2>1, <2>3, <3>1, <3>2 DEF OneAnswer, n
    <3>3. CASE link'.frames[i] = f
      BY <2>3, <3>3
    <3> QED
      BY <1>3, <3>2, <3>3
  <2> QED
    BY <2>2, <2>3 DEF OneAnswer
<1> QED
  BY <1>2, <1>4, <1>5 DEF OneWord

LEMMA QueueIs ==
    ASSUME LinkType, NEW f, NEW asked, NEW odd,
           link' = Queue(f, asked) \/ link' = [Queue(f, asked) EXCEPT !.odd = odd]
    PROVE  /\ DOMAIN link' = LinkFields /\ link'.frames = Append(link.frames, f) /\ link'.asked = asked
           /\ link'.half = link.half
<1> DEFINE a == Append(link.frames, f)
           l == [link EXCEPT !.frames = a, !.asked = asked]
<1>1. DOMAIN l = LinkFields /\ l.frames = a /\ l.asked = asked /\ l.half = link.half
  BY DEF LinkType, LinkFields
<1>2. link' = l \/ link' = [l EXCEPT !.odd = odd]
  BY DEF Queue
<1> HIDE DEF l, a
<1>3. DOMAIN link' = LinkFields /\ link'.frames = a /\ link'.asked = asked /\ link'.half = link.half
  BY <1>1, <1>2 DEF LinkFields
<1> QED
  BY <1>3 DEF a

LEMMA AnswerStep == ASSUME WireInv, Answer PROVE WireInv'
<1>0. LinkType /\ OneWord
  BY DEF WireInv
<1>1. UNCHANGED <<rd, mach, sess>>
  BY DEF Answer
<1>2. PICK q \in link.asked :
        LET left == Max({0, Min({q.len, FileEnd - q.off})}) - q.sent
            rest == link.asked \ {q}
        IN \/ link' = Queue(Frame(q.sid, "ok", left), rest)
           \/ link' = Queue(Frame(q.sid, "oksofar", 1), rest \cup {[q EXCEPT !.sent = @ + 1]})
           \/ \E st \in {"error", "wait"} : link' = Queue(Frame(q.sid, st, 0), rest)
           \/ link' = [Queue(Frame(q.sid, "waitresp", 0), rest \cup {[q EXCEPT !.late = TRUE]}) EXCEPT !.odd = @ + 1]
  BY DEF Answer
<1> DEFINE left == Max({0, Min({q.len, FileEnd - q.off})}) - q.sent
           rest == link.asked \ {q}
           more == [q EXCEPT !.sent = @ + 1]
           late == [q EXCEPT !.late = TRUE]
<1>3. DOMAIN q = AskFields /\ \A p \in link.asked : p.sid = q.sid /\ q.sid \in Ids => p = q
  BY <1>0 DEF LinkType, OneWord, OneAnswer
<1>4. more.sid = q.sid /\ DOMAIN more = AskFields /\ late.sid = q.sid /\ DOMAIN late = AskFields
  BY <1>3 DEF AskFields
<1>5. ASSUME NEW f, NEW odd, NEW asked, link' = Queue(f, asked) \/ link' = [Queue(f, asked) EXCEPT !.odd = odd],
             f.sid = q.sid, asked = rest \/ (~Final(f) /\ (asked = rest \cup {more} \/ asked = rest \cup {late}))
      PROVE  WireInv'
  <2> HIDE DEF more, late
  <2>1. /\ DOMAIN link' = LinkFields /\ link'.frames = Append(link.frames, f) /\ link'.asked = asked
        /\ link'.half = link.half
    BY <1>0, <1>5, QueueIs
  <2>2. \A a \in link'.asked : DOMAIN a = AskFields /\ \E p \in link.asked : p.sid = a.sid
    BY <1>0, <1>3, <1>4, <1>5, <2>1 DEF LinkType
  <2>3. \A a, b \in link'.asked : a.sid \in Ids /\ a.sid = b.sid => a = b
    <3>1. \A a, b \in rest : a.sid \in Ids /\ a.sid = b.sid => a = b
      BY <1>0 DEF OneWord, OneAnswer
    <3>2. \A a \in rest : a.sid \in Ids => a.sid # q.sid
      BY <1>3
    <3> HIDE DEF rest
    <3> QED
      BY <1>4, <1>5, <2>1, <3>1, <3>2
  <2>4. Final(f) /\ f.sid \in Ids => \A a \in link'.asked : a.sid # f.sid
    BY <1>3, <1>5, <2>1
  <2>5. f.sid \in Ids => \E p \in link.asked : p.sid = f.sid
    BY <1>5
  <2>6. LinkType' /\ OneWord' /\ \A s \in Ids : On(link', s) => On(link, s)
    BY <1>0, <2>1, <2>2, <2>3, <2>4, <2>5, PushIs
  <2> QED
    BY <1>1, <2>1, <2>6, ServerStep
<1> HIDE DEF left, rest, more, late
<1>6. \A st, size : Frame(q.sid, st, size).sid = q.sid /\ Frame(q.sid, st, size).st = st
  BY DEF Frame
<1>7. CASE link' = Queue(Frame(q.sid, "ok", left), rest)
  BY <1>5, <1>6, <1>7
<1>8. CASE link' = Queue(Frame(q.sid, "oksofar", 1), rest \cup {more})
  <2> DEFINE f == Frame(q.sid, "oksofar", 1)
  <2>1. f.sid = q.sid /\ ~Final(f) /\ link' = Queue(f, rest \cup {more})
    BY <1>6, <1>8 DEF Final
  <2> HIDE DEF f
  <2> QED
    BY <1>5, <2>1
<1>9. CASE \E st \in {"error", "wait"} : link' = Queue(Frame(q.sid, st, 0), rest)
  <2>1. PICK st \in {"error", "wait"} : link' = Queue(Frame(q.sid, st, 0), rest)
    BY <1>9
  <2> QED
    BY <1>5, <1>6, <2>1
<1>10. CASE link' = [Queue(Frame(q.sid, "waitresp", 0), rest \cup {late}) EXCEPT !.odd = @ + 1]
  <2> DEFINE f == Frame(q.sid, "waitresp", 0)
             n == Queue(f, rest \cup {late}).odd + 1
  <2>1. f.sid = q.sid /\ ~Final(f) /\ link' = [Queue(f, rest \cup {late}) EXCEPT !.odd = n]
    BY <1>6, <1>10 DEF Final
  <2> HIDE DEF f, n
  <2> QED
    BY <1>5, <2>1
<1> QED
  BY <1>2, <1>7, <1>8, <1>9, <1>10 DEF left, rest, more, late

LEMMA OddStep == ASSUME WireInv, Odd PROVE WireInv'
<1>0. LinkType /\ OneWord
  BY DEF WireInv
<1>1. UNCHANGED <<rd, mach, sess>>
  BY DEF Odd
<1> DEFINE left(f) == {q \in link.asked : q.sid # f.sid}
<1>2. \E f, odd : /\ link' = [Queue(f, left(f)) EXCEPT !.odd = odd]
                  /\ f.sid = 0 \/ \E q \in link.asked : f.sid = q.sid
  <2>1. PICK f \in {Frame(0, "notice", 0), Frame(0, "ok", 0)}
                   \cup {Frame(q.sid, "ok", Chunk + 1) : q \in {a \in link.asked : rd.kind # "write"}}
                   \cup {Frame(q.sid, "redirect", 0) : q \in link.asked} :
             link' = [Queue(f, left(f)) EXCEPT !.odd = @ + 1]
    BY DEF Odd
  <2>2. f.sid = 0 \/ \E q \in link.asked : f.sid = q.sid
    BY <2>1 DEF Frame
  <2> HIDE DEF left
  <2> QED
    BY <2>1, <2>2
<1>3. PICK f, odd : /\ link' = [Queue(f, left(f)) EXCEPT !.odd = odd]
                    /\ f.sid = 0 \/ \E q \in link.asked : f.sid = q.sid
  BY <1>2
<1>4. /\ DOMAIN link' = LinkFields /\ link'.frames = Append(link.frames, f) /\ link'.asked = left(f)
      /\ link'.half = link.half
  BY <1>0, <1>3, QueueIs
<1>5. f.sid \in Ids => \E q \in link.asked : q.sid = f.sid
  BY <1>3, BulkAssumption
<1>6. \A a \in link'.asked : DOMAIN a = AskFields /\ \E q \in link.asked : q.sid = a.sid
  BY <1>0, <1>4 DEF LinkType
<1>7. \A a, b \in link'.asked : a.sid \in Ids /\ a.sid = b.sid => a = b
  BY <1>0, <1>4 DEF OneWord, OneAnswer
<1>8. \A a \in link'.asked : a.sid # f.sid
  BY <1>4
<1>9. LinkType' /\ OneWord' /\ \A s \in Ids : On(link', s) => On(link, s)
  BY <1>0, <1>4, <1>5, <1>6, <1>7, <1>8, PushIs
<1> QED
  BY <1>1, <1>4, <1>9, ServerStep

LEMMA HangUpStep == ASSUME WireInv, HangUp PROVE WireInv'
<1>1. UNCHANGED <<rd, mach, sess>> /\ link' = [link EXCEPT !.eof = TRUE, !.asked = {}]
  BY DEF HangUp
<1>2. DOMAIN link' = LinkFields /\ link'.asked = {} /\ link'.frames = link.frames /\ link'.half = link.half
  BY <1>1 DEF WireInv, LinkType, LinkFields
<1>3. LinkType' /\ OneWord' /\ \A s \in Ids : On(link', s) => On(link, s)
  BY <1>2 DEF WireInv, LinkType, OneWord, OneAnswer, On
<1> QED
  BY <1>1, <1>2, <1>3, ServerStep

LEMMA WireHolds == ReaderSpec => []WireInv
<1>1. ASSUME WireInv, [ReaderNext]_readerVars PROVE WireInv'
  <2>1. CASE Reader
    BY <1>1, <2>1, IssueStep, WalkSteps, TakeHeaderStep, TakeBodyStep, YieldStep, HandBackStep DEF Reader
  <2>2. CASE UNCHANGED readerVars
    BY <1>1, <2>2 DEF readerVars, WireInv, RdType, EnvType, LinkType, Sorted, Owing, OneWord, InHand, Torn, Lent
  <2> QED
    BY <1>1, <2>1, <2>2, BeginStep, ClockSteps, EventPathStep, AnswerStep, OddStep, HangUpStep DEF ReaderNext
<1> QED
  BY <1>1, WireStart, PTL DEF ReaderSpec

\* However a bulk call ends - done, refused, cancelled, out of time or cut off part-way through a
\* frame - the ids it gave back have nothing coming on the wire, and the session is between two
\* frames in both directions, or it is marked broken (settle, _hand_back, _exact, _send).
THEOREM WireIsSafe == ReaderSpec => []WireSafe
<1>1. ASSUME WireInv PROVE WireSafe
  <2>1. QuietIds
    <3> SUFFICES ASSUME ~sess.broken, NEW sid \in Ids \ (mach.leased \cup mach.retired) PROVE ~On(link, sid)
      <4>1. \A sid : ~On(link, sid) => /\ \A q \in link.asked : q.sid # sid
                                       /\ \A i \in DOMAIN link.frames : link.frames[i].sid # sid
        <5>1. PICK S : link.frames \in Seq(S)
          BY <1>1 DEF WireInv, LinkType, Sequential
        <5> QED
          BY <5>1 DEF On
      <4> QED
        BY <4>1 DEF QuietIds
    <3> QED
      BY <1>1 DEF WireInv, Owing, Lent
  <2>2. InStep
    BY <1>1 DEF WireInv, Torn, InStep
  <2> QED
    BY <2>1, <2>2 DEF WireSafe
<1> QED
  BY <1>1, WireHolds, PTL
=============================================================================
