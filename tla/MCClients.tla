----------------------------- MODULE MCClients -----------------------------
(***************************************************************************)
(* The faces of the client, checked side by side: a behaviour follows the  *)
(* coroutines, one filesystem call, one HTTP call or file, or one part of  *)
(* the compatibility layer, and the others stay at rest.                   *)
(***************************************************************************)
EXTENDS AsyncBridge, Namespace, WebClient, Compat

\* A tree with a directory, files and a link in it, and another beside it.
MCUp == [top |-> "top", d |-> "top", f |-> "top", l |-> "top", g |-> "d", out |-> "out", x |-> "out"]
MCKinds0 == [top |-> "dir", d |-> "dir", f |-> "file", l |-> "link", g |-> "file", out |-> "dir", x |-> "file"]

\* Managers that name each other, and a node that is named as both.
At(role, host) == [role |-> role, host |-> host]
MCTopologies == {
    [home |-> <<At("manager", "m"), At("server", "s")>>, m |-> <<At("manager", "n"), At("server", "s")>>,
     n |-> <<At("manager", "m"), At("server", "n")>>, s |-> << >>],
    [home |-> <<At("server", "s"), At("manager", "n")>>, m |-> << >>, n |-> <<At("server", "m")>>, s |-> << >>]}
MCListing == <<"a", "b", "c">>

\* Ranges at the start, in the middle and past the end.
MCSpans == {[off |-> 0, len |-> 1], [off |-> 1, len |-> 2], [off |-> FileUnits, len |-> 1]}

\* Jobs in all their variety; an unchecked one in its plainest form.
MCJobKinds == {k \in [force : BOOLEAN, cont : BOOLEAN, policy : {"force", "continue"}, retry : {1}, check : BOOLEAN,
                      rm : {TRUE}, direct : {"none", "first", "only"}, there : {"none", "theirs", "empty"}] :
               /\ ~(k.force /\ k.cont)
               /\ k.direct = "first" => k.there # "empty"
               /\ k.direct = "only" => k.there = "theirs"
               /\ ~k.check => ~k.force /\ ~k.cont /\ k.policy = "force" /\ k.direct = "none"}
PlainJob == NewJob([force |-> FALSE, cont |-> FALSE, policy |-> "force", retry |-> 1, check |-> TRUE,
                    rm |-> TRUE, direct |-> "none", there |-> "none"])

VARIABLE task    \* what this behaviour follows

allVars == <<task, asyncVars, nsVars, webVars, compatVars>>

Init ==
    /\ task \in {"async", "namespace", "web", "file", "parts", "jobs"}
    /\ AsyncInit
    /\ task # "namespace" => fsys = [kind |-> Kinds0, to |-> "out", meddled |-> FALSE]
                             /\ server = [readlink |-> TRUE, dstat |-> TRUE, unlinks |-> TRUE, ids |-> TRUE]
    /\ NsInit
    /\ task # "web" => site = AnySite
    /\ WebInit
    /\ task # "jobs" => cjobs = [j \in CopyJobs |-> PlainJob]
    /\ CompatInit
    /\ \A j \in CopyJobs \ {1} : cjobs[j] = PlainJob

InAsync(A) == task = "async" /\ A /\ UNCHANGED <<task, nsVars, webVars, compatVars>>
InNamespace(A) == task = "namespace" /\ A /\ UNCHANGED <<task, asyncVars, webVars, compatVars>>
InWeb(A) == task = "web" /\ A /\ UNCHANGED <<task, asyncVars, nsVars, compatVars>>
InCompat(t, A) == task = t /\ A /\ UNCHANGED <<task, asyncVars, nsVars, webVars>>

Next == InAsync(AsyncNext) \/ InNamespace(NsNext) \/ InWeb(WebNext)
        \/ InCompat("file", FileNext) \/ InCompat("parts", PartNext) \/ InCompat("jobs", JobNext)

\* A call goes on, a thread is scheduled, a deadline passes.
Fairness == /\ WF_allVars(InNamespace(NsSteps)) /\ WF_allVars(InWeb(WebSteps))
            /\ WF_allVars(InCompat("file", FileSteps)) /\ WF_allVars(InCompat("parts", PartSteps))
Spec == Init /\ [][Next]_allVars /\ Fairness

\* A filesystem call comes to its end though links and managers go round in
\* circles, everything dropped is closed, and every callback is called.
EveryCallEnds == CallEnds /\ CallbacksEnd
============================================================================
