------------------------------- MODULE Dialer -------------------------------
(***************************************************************************)
(* transport/_dial.py: a host name turned into a connected socket.         *)
(*                                                                         *)
(* A helper thread resolves the name while dial() waits for it, the        *)
(* addresses are put in order by family, and the attempts race: each has   *)
(* Stagger to itself before the next one starts beside it, the first to    *)
(* connect wins and the rest are closed, all within one Budget.            *)
(***************************************************************************)
EXTENDS Integers, Sequences, FiniteSets, SequencesExt

CONSTANTS
    Addresses,  \* the addresses a host may have
    Family,     \* the family of each
    Hosts,      \* what a resolver may answer: sequences of addresses
    Budget,     \* connect_timeout, in ticks
    Stagger,    \* STAGGER, in ticks
    Delay       \* bound: ticks until the network answers an attempt

ASSUME DialerAssumption ==
    /\ IsFiniteSet(Addresses)
    /\ Hosts \subseteq Seq(Addresses)
    /\ Budget \in Nat \ {0} /\ Stagger \in Nat \ {0} /\ Delay \in Nat

VARIABLES
    host,  \* [rows, reach, slow]: what the resolver answers, what each address
           \* does, and whether the dialling thread may be kept from running
    now,   \* the clock, from the start of the dial
    dial,  \* the dial: its place and its _Race
    net    \* [open, since, ready]: sockets open, when each attempt began, and
           \* the attempts the network has answered

dialVars == <<host, now, dial, net>>

NoAddress == "none"

-----------------------------------------------------------------------------
(* The order of the attempts.                                              *)

\* resolve: every address once, the first mention counting.
Unique(rows) == FoldLeft(LAMBDA done, a : IF Contains(done, a) THEN done ELSE Append(done, a), << >>, rows)

\* Mutation: the addresses as the resolver gave them.
AsResolved(infos) == infos

\* interleave: the families take turns, the resolver's first family first.
TakingTurns(infos) ==
    LET preferred == SelectSeq(infos, LAMBDA a : Family[a] = Family[infos[1]])
        others == SelectSeq(infos, LAMBDA a : Family[a] # Family[infos[1]])
        Nth(s, i) == IF i \in DOMAIN s THEN <<s[i]>> ELSE << >>
    IN FlattenSeq([i \in 1 .. Len(infos) |-> Nth(preferred, i) \o Nth(others, i)])

-----------------------------------------------------------------------------
Ended == dial.pc \in {"connected", "failed", "unresolved"}
Resolving == [pc |-> "resolve", infos |-> << >>, order |-> << >>, flying |-> {}, next |-> 0,
              at |-> 0, failures |-> {}, pending |-> {}, expired |-> FALSE, winner |-> NoAddress, found |-> 0]

DialInit ==
    /\ host \in [rows : Hosts, reach : [Addresses -> {"answers", "refuses", "silent"}], slow : BOOLEAN]
    /\ \A a \in Addresses \ Range(host.rows) : host.reach[a] = "silent"
    /\ now = 0
    /\ dial = Resolving
    /\ net = [open |-> {}, since |-> [a \in Addresses |-> 0], ready |-> {}]

\* _lookup: the helper's answer came in time, though a slow thread may take it
\* late, and the race is on; a name without an address is an error.
Resolve ==
    /\ dial.pc = "resolve" /\ (now < Budget \/ host.slow)
    /\ LET infos == TakingTurns(Unique(host.rows))
       IN dial' = IF infos = << >> THEN [dial EXCEPT !.pc = "unresolved"]
                  ELSE [dial EXCEPT !.pc = "top", !.infos = infos, !.order = infos, !.found = now]
    /\ UNCHANGED <<host, now, net>>

\* The budget is spent and the helper is left to itself.
ResolveTimesOut ==
    /\ dial.pc = "resolve" /\ now >= Budget
    /\ dial' = [dial EXCEPT !.pc = "unresolved"]
    /\ UNCHANGED <<host, now, net>>

-----------------------------------------------------------------------------
(* _Race.run: the top of the loop, and then a launch or a wait.            *)

\* _failed: a refusal is an answer, and the next address need not wait.
Refused(d, addrs) == [d EXCEPT !.failures = @ \cup addrs, !.flying = @ \ addrs, !.next = 0]

\* abandon: every attempt still in flight is closed.
Abandon(d) == d.flying

\* dial's `finally`: the race is over, won or not, and only the winner is left.
Over(d, open) ==
    /\ dial' = [d EXCEPT !.pc = IF d.winner # NoAddress THEN "connected" ELSE "failed",
                         !.pending = d.flying, !.flying = {}]
    /\ net' = [net EXCEPT !.open = open \ Abandon(d), !.ready = {}]

\* The budget is spent.
Expire ==
    /\ dial.pc = "top" /\ now >= Budget /\ (dial.order # << >> \/ dial.flying # {})
    /\ Over([dial EXCEPT !.expired = TRUE], net.open)
    /\ UNCHANGED <<host, now>>

\* Every address has failed.
NoneLeft ==
    /\ dial.pc = "top" /\ dial.order = << >> /\ dial.flying = {}
    /\ Over(dial, net.open)
    /\ UNCHANGED <<host, now>>

\* The next address may start, or the attempts in flight are waited for; the
\* clock read here is the one the step goes by.
Choose ==
    /\ dial.pc = "top" /\ now < Budget /\ (dial.order # << >> \/ dial.flying # {})
    /\ LET launch == dial.order # << >> /\ (now >= dial.next \/ dial.flying = {})
       IN dial' = [dial EXCEPT !.pc = IF launch THEN "launch" ELSE "settle", !.at = now]
    /\ UNCHANGED <<host, now, net>>

\* _launch: failed on the spot, connected on the spot, or in flight.
Launch ==
    /\ dial.pc = "launch"
    /\ LET a == Head(dial.order)
           d == [dial EXCEPT !.pc = "top", !.order = Tail(@)]
       IN \/ host.reach[a] = "refuses" /\ dial' = Refused(d, {a}) /\ UNCHANGED net
          \/ host.reach[a] = "answers" /\ Over([d EXCEPT !.winner = a], net.open \cup {a})
          \/ /\ dial' = [d EXCEPT !.flying = @ \cup {a}, !.next = dial.at + Stagger]
             /\ net' = [net EXCEPT !.open = @ \cup {a}, !.since[a] = now]
    /\ UNCHANGED <<host, now>>

\* _settle: what select() found answered is looked at in turn, up to the first
\* that connected; those behind it stay in flight, to be abandoned.
Answered == net.ready \cap dial.flying
WaitsUntil == IF dial.order # << >> /\ dial.next < Budget THEN dial.next ELSE Budget
Settle ==
    /\ dial.pc = "settle" /\ (Answered # {} \/ now >= WaitsUntil)
    /\ \/ \E a \in Answered, before \in SUBSET Answered :
            /\ host.reach[a] = "answers" /\ \A b \in before : host.reach[b] = "refuses"
            /\ Over([Refused(dial, before) EXCEPT !.flying = @ \ {a}, !.winner = a], net.open \ before)
       \/ /\ \A a \in Answered : host.reach[a] = "refuses"
          /\ dial' = IF Answered = {} THEN [dial EXCEPT !.pc = "top"]
                     ELSE [Refused(dial, Answered) EXCEPT !.pc = "top"]
          /\ net' = [net EXCEPT !.open = @ \ Answered]
    /\ UNCHANGED <<host, now>>

-----------------------------------------------------------------------------
(* The network, and time.                                                  *)

Respond(a) ==
    /\ a \in dial.flying \ net.ready /\ host.reach[a] # "silent"
    /\ net' = [net EXCEPT !.ready = @ \cup {a}]
    /\ UNCHANGED <<host, now, dial>>

\* A thread that may run does so before time passes, unless it is slow; an
\* attempt that is answered at all is answered within Delay.
Asleep == \/ dial.pc = "resolve" /\ now < Budget
          \/ dial.pc = "settle" /\ Answered = {} /\ now < WaitsUntil
AnswerDue == \E a \in dial.flying \ net.ready : host.reach[a] # "silent" /\ now >= net.since[a] + Delay
Tick ==
    /\ ~Ended /\ now < Budget + 1
    /\ host.slow \/ (Asleep /\ ~AnswerDue)
    /\ now' = now + 1
    /\ UNCHANGED <<host, dial, net>>

DialSteps == ResolveTimesOut \/ Choose \/ Launch \/ Settle \/ Expire \/ NoneLeft
DialNext == Resolve \/ DialSteps \/ Tick \/ \E a \in Addresses : Respond(a)

-----------------------------------------------------------------------------
(* Properties.                                                             *)

DialTypeOK ==
    /\ dial.pc \in {"resolve", "top", "launch", "settle", "connected", "failed", "unresolved"}
    /\ dial.flying \subseteq net.open /\ now \in 0 .. Budget + 1

\* A dial that is over holds the socket it returns and no other, however many
\* attempts were answered at once or were still in flight (_settle, abandon).
OneSocket == Ended => net.open = IF dial.winner = NoAddress THEN {} ELSE {dial.winner}

\* The error tells what became of every address, each one in one way, and it
\* is a refusal only if every address refused (_verdict, DialError).
EveryAddressTold ==
    dial.pc = "failed" =>
        /\ dial.failures \cup dial.pending \cup Range(dial.order) = Range(host.rows)
        /\ dial.failures \cap dial.pending = {}
        /\ Range(dial.order) \cap (dial.failures \cup dial.pending) = {}
        /\ dial.expired <=> (dial.failures # Range(host.rows))

\* A family that is broken costs one attempt and not a list: when the first
\* address of either family answers, the dial connects if the budget has room
\* for one stagger and the answer, whatever the other addresses do.
BrokenFamilyPassed ==
    LET rows == host.rows
        First(i) == \A j \in 1 .. i - 1 : Family[rows[j]] # Family[rows[i]]
    IN Ended /\ ~host.slow /\ dial.infos # << >> /\ dial.found + Stagger + Delay < Budget
       /\ (\E i \in DOMAIN rows : First(i) /\ host.reach[rows[i]] = "answers")
       => dial.winner # NoAddress

\* A dial that is over left one socket or none and an account of the others,
\* and no broken family kept it from connecting (_Race, interleave).
DialRight == DialTypeOK /\ OneSocket /\ EveryAddressTold /\ BrokenFamilyPassed
=============================================================================
