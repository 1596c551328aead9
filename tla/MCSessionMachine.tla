-------------------------- MODULE MCSessionMachine --------------------------
(***************************************************************************)
(* Instances of SessionMachine for TLC.                                    *)
(***************************************************************************)
EXTENDS SessionMachine

\* Requests of the control link: plain, and paged (pgread).
Plain == [path |-> 0, arrive |-> FALSE, paged |-> FALSE, cap |-> 0]
Paged == [path |-> 0, arrive |-> FALSE, paged |-> TRUE, cap |-> 0]

\* One whose answer may be no longer than a piece (reply_cap).
Capped == [Plain EXCEPT !.cap = 1]

\* Reads over data path 1: header on the control link and answer on the path,
\* and the whole exchange on the path.
SplitRead   == [path |-> 1, arrive |-> FALSE, paged |-> FALSE, cap |-> 0]
ArrivalRead == [path |-> 1, arrive |-> TRUE, paged |-> FALSE, cap |-> 0]

PlainPaged == {Plain, Paged, Capped}
PlainPaths == {Plain, SplitRead, ArrivalRead}
MCShapes == PlainPaged \cup PlainPaths

\* What the server answers with.
Partial == {"ok", "oksofar"}
Every   == {"ok", "oksofar", "error", "unexpected", "redirect", "wait",
            "waitresp", "status"}

VARIABLE task    \* what a behaviour is made of

\* Two requests and whatever may be answered to them on one link; one, with
\* frames nobody asked for in between; or three, over the path too, answered
\* in pieces.
Within ==
    CASE task = "replies" ->
         /\ bound = Paths /\ \A f \in Range(wire[0]) : f.tag \in Tags
         /\ \A t \in Tags : phase[t] # "new" => t <= 2 /\ shape[t] \in PlainPaged
      [] task = "strays" ->
         bound = Paths /\ \A t \in Tags : phase[t] # "new" => t = 1 /\ shape[t] \in PlainPaged
      [] OTHER ->
         /\ \A t \in Tags : shape[t] \in PlainPaths
         /\ \A l \in Links : \A f \in Range(wire[l]) : f.status \in Partial /\ f.tag \in Tags

MCInit == Init /\ task \in {"replies", "strays", "paths"}
MCNext == Next /\ UNCHANGED task /\ Within'
MCSpec == MCInit /\ [][MCNext]_<<vars, task>>
=============================================================================
