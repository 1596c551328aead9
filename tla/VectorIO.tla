------------------------------ MODULE VectorIO ------------------------------
(***************************************************************************)
(* Vector reads: client/_vector.py and readv() of client/_reading.py.       *)
(*                                                                         *)
(* The ranges a caller asks for are cut to what one element may hold, put  *)
(* in batches one request may carry, and put together again from segments  *)
(* that come back in whatever order the server likes, each short where the *)
(* file ends.  A byte of the file is stood for by its offset.              *)
(***************************************************************************)
EXTENDS Integers, Sequences, FiniteSets, SequencesExt

CONSTANTS
    MaxElement,  \* READV_MAX_ELEMENT
    MaxChunks,   \* READV_MAX_CHUNKS
    MaxBytes,    \* READV_MAX_BYTES
    VecEnd,      \* the length of the file
    VecRanges    \* the range lists a caller may ask for

VARIABLE vec    \* one readv: [wanted, todo, bodies, shuffled, out]

-----------------------------------------------------------------------------
(* Cutting.                                                                *)

\* _pieces: a range as elements the server accepts; one that fits, the empty
\* range too, is an element as it is.
Pieces(rng) ==
    IF rng.len <= MaxElement THEN <<rng>>
    ELSE [i \in 1 .. (rng.len + MaxElement - 1) \div MaxElement |->
        LET at == (i - 1) * MaxElement
        IN [off |-> rng.off + at, len |-> IF rng.len - at < MaxElement THEN rng.len - at ELSE MaxElement]]

Lengths(batch) == FoldLeft(LAMBDA n, rng : n + rng.len, 0, batch)

\* _batches: a batch is closed when the next element would
\* exceed either ceiling; an element is never split here.
Batches(elements) ==
    LET Full(batch, rng) == Len(batch) >= MaxChunks \/ Lengths(batch) + rng.len > MaxBytes
    IN FoldLeft(LAMBDA done, rng :
                   IF done = << >> \/ Full(Last(done), rng) THEN Append(done, <<rng>>)
                   ELSE Append(Front(done), Append(Last(done), rng)),
                << >>, elements)

AllPieces(wanted) == FlattenSeq([i \in DOMAIN wanted |-> Pieces(wanted[i])])
Whole(wanted) == \A i \in DOMAIN wanted : wanted[i].len <= MaxElement
\* readv: whole ranges go out as they are.
Elements(wanted) == IF Whole(wanted) THEN wanted ELSE AllPieces(wanted)

-----------------------------------------------------------------------------
(* The exchange.                                                           *)

\* The bytes of the file in a range, as far as the file goes.
Bytes(rng) == SelectSeq([i \in 1 .. rng.len |-> rng.off + i - 1], LAMBDA b : b < VecEnd)
Segment(rng) == [off |-> rng.off, data |-> Bytes(rng)]

VecInit == vec \in {[wanted |-> w, todo |-> Batches(Elements(w)), bodies |-> << >>,
                     shuffled |-> FALSE, out |-> << >>] : w \in VecRanges}

Orders(n) == {p \in [1 .. n -> 1 .. n] : \A i, j \in 1 .. n : p[i] = p[j] => i = j}

\* The server answers one batch.
AnswerBatch ==
    /\ vec.todo # << >>
    /\ \E p \in Orders(Len(Head(vec.todo))) :
         vec' = [vec EXCEPT !.todo = Tail(@), !.shuffled = @ \/ \E i \in DOMAIN p : p[i] # i,
                    !.bodies = @ \o [i \in DOMAIN p |-> Segment(Head(vec.todo)[p[i]])]]

-----------------------------------------------------------------------------
(* Putting together.                                                       *)

\* _as_asked: the segments are exactly the ranges, in order.
AsAsked(bodies, wanted) ==
    /\ Len(bodies) = Len(wanted)
    /\ \A i \in DOMAIN wanted : bodies[i].off = wanted[i].off /\ Len(bodies[i].data) = wanted[i].len

\* _by_offset: every segment filed by its offset, in the order it came.
ByOffset(bodies) ==
    [off \in {bodies[i].off : i \in DOMAIN bodies} |->
        LET mine == SelectSeq(bodies, LAMBDA s : s.off = off)
        IN [i \in DOMAIN mine |-> mine[i].data]]

\* Mutation: the first answer at an offset serves every range there.
ClaimFirst(state, rng) ==
    IF rng.off \notin DOMAIN state.answers THEN [state EXCEPT !.bad = TRUE]
    ELSE [state EXCEPT !.parts = Append(@, Head(state.answers[rng.off]))]

\* _segment_for: the next answer at this offset, the last one kept; a reply
\* that is missing or longer than asked for is refused.
Claim(state, rng) ==
    IF state.bad \/ rng.off \notin DOMAIN state.answers THEN [state EXCEPT !.bad = TRUE]
    ELSE LET queue == state.answers[rng.off]
             data == Head(queue)
         IN [state EXCEPT !.bad = Len(data) > rng.len,
                          !.answers[rng.off] = IF Len(queue) > 1 THEN Tail(queue) ELSE queue,
                          !.parts = Append(@, data)]

\* _assemble for every range in turn: each piece is claimed, and joined.
Assemble(bodies, wanted) ==
    LET claimed == FoldLeft(LAMBDA st, rng :
                        LET s == FoldLeft(Claim, [st EXCEPT !.parts = << >>],
                                          IF Whole(wanted) THEN <<rng>> ELSE Pieces(rng))
                        IN [s EXCEPT !.out = Append(@, FlattenSeq(s.parts))],
                      [bad |-> FALSE, answers |-> ByOffset(bodies), parts |-> << >>, out |-> << >>],
                      wanted)
    IN IF claimed.bad THEN <<"refused">> ELSE claimed.out

\* readv's answer: the quick path, or the segments matched up by offset.
ReadV ==
    /\ vec.todo = << >> /\ vec.out = << >> /\ vec.wanted # << >>
    /\ vec' = [vec EXCEPT !.out =
            IF Whole(vec.wanted) /\ AsAsked(vec.bodies, vec.wanted)
            THEN [i \in DOMAIN vec.bodies |-> vec.bodies[i].data]
            ELSE Assemble(vec.bodies, vec.wanted)]

VecNext == AnswerBatch \/ ReadV

-----------------------------------------------------------------------------
(* Properties.                                                             *)

\* The batches carry every element once, in order, and none exceeds a ceiling
\* of the server (a single element may reach it alone).
BatchesRight(wanted) ==
    LET cut == Batches(Elements(wanted))
    IN /\ FlattenSeq(cut) = Elements(wanted)
       /\ \A i \in DOMAIN cut : /\ Len(cut[i]) <= MaxChunks
                                /\ Lengths(cut[i]) <= MaxBytes \/ Len(cut[i]) = 1
                                /\ \A k \in DOMAIN cut[i] : cut[i][k].len <= MaxElement

\* readv returns each range its own bytes, as far as the file goes, however
\* the ranges overlap and however the reply is ordered, or refuses the reply;
\* a reply in the order asked for is never refused.
VectorRight ==
    /\ BatchesRight(vec.wanted)
    /\ vec.out # << >> =>
         \/ vec.out = [i \in DOMAIN vec.wanted |-> Bytes(vec.wanted[i])]
         \/ vec.shuffled /\ vec.out = <<"refused">>
=============================================================================
