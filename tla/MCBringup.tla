----------------------------- MODULE MCBringup -----------------------------
(***************************************************************************)
(* How a connection comes up, for TLC: a behaviour follows a dial or what  *)
(* is said on the socket it returns, and the other stays at rest.          *)
(***************************************************************************)
EXTENDS Bringup, Dialer

\* gsi, ztn and unix as users may rank them; pwd has no class here.
Ranked  == {<<"gsi", "ztn", "unix">>, <<"unix">>}
Offered == {<<"unix", "pwd", "gsi">>, <<"ztn", "gsi">>}

\* Every login there can be.
Logins ==
    [want : BOOLEAN, have : BOOLEAN, demand : BOOLEAN, ztnCleartext : BOOLEAN,
     prompt : BOOLEAN, order : Ranked, offers : Offered, binds : {{}}]

\* Two data paths bound at once, to a server without security.
Joins ==
    [want : BOOLEAN, have : BOOLEAN, demand : BOOLEAN, ztnCleartext : {FALSE},
     prompt : {FALSE}, order : {<<>>}, offers : {<<>>}, binds : {{1, 2}}]

LoginsAndJoins == Logins \cup Joins

MCFamily == [a \in Addresses |-> IF a = "b1" THEN 4 ELSE 6]

\* One family in front of the other, a mixed list with an address named twice,
\* one family alone, and a host without an address.
MCHosts == {<<"a1", "a2", "b1">>, <<"b1", "a1", "b1">>, <<"a1", "a2">>, << >>}

VARIABLE task    \* which module this behaviour follows

upVars == <<task, vars, dialVars>>

UpInit ==
    /\ task \in {"dial", "bringup"}
    /\ Init /\ (task # "bringup" => site = CHOOSE s \in Joins : TRUE)
    /\ DialInit /\ (task # "dial" => host.rows = << >> /\ ~host.slow)

InBringup(A) == task = "bringup" /\ A /\ UNCHANGED <<task, dialVars>>
InDial(A) == task = "dial" /\ A /\ UNCHANGED <<task, vars>>

UpNext == InBringup(Next) \/ InDial(DialNext)

\* A driver with a reply in hand goes on, and one without is answered or runs
\* out of time; dial()'s thread runs, time goes on, and an address that is not
\* silent gets round to its answer, though the resolver need not.
UpFairness ==
    /\ \A l \in Links : WF_upVars(InBringup(Driver(l))) /\ WF_upVars(InBringup(Answer(l) \/ BringupTimesOut(l)))
    /\ WF_upVars(InDial(DialSteps)) /\ WF_upVars(InDial(Tick))
    /\ WF_upVars(InDial(\E a \in Addresses : Respond(a)))

UpSpec == UpInit /\ [][UpNext]_upVars /\ UpFairness

\* A dial ends, though the resolver hangs and no address says a word (_lookup,
\* _Race.run), and so does every bring-up, whatever the server leaves unsaid
\* (_bringup).
EveryConnectEnds == (task = "dial" => <>Ended) /\ EveryBringupEnds
=============================================================================
