------------------------------ MODULE MCCopies ------------------------------
(***************************************************************************)
(* The copies, checked side by side: a behaviour follows one copy(), one   *)
(* third-party copy, one copy_tree() or one local reader, which share no   *)
(* state, and the others stay at rest.                                     *)
(***************************************************************************)
EXTENDS CopyEngine, ThirdParty, CopyTree

Plain == [src |-> "root", dst |-> "local", overwrite |-> TRUE, resume |-> FALSE,
          verify |-> "no", sums |-> TRUE, sources |-> 1, paced |-> FALSE, dynamic |-> FALSE, bulk |-> FALSE,
          spans |-> 1, replicas |-> 1, declared |-> FALSE, remove |-> TRUE, there |-> FALSE,
          dry |-> FALSE]

\* Every kind of copy the engine plans differently.
MCAsked == {[Plain EXCEPT !.dry = TRUE]} \cup
    {j \in [src : {"root", "http", "local", "stream"}, dst : {"local", "root", "http", "stream"},
            overwrite : BOOLEAN, resume : BOOLEAN, verify : {"yes", "no", "default"},
            sums : BOOLEAN, sources : {1, 2}, paced : BOOLEAN, dynamic : BOOLEAN, bulk : BOOLEAN, spans : {1, 2},
            replicas : {1, 2}, declared : BOOLEAN, remove : {TRUE}, there : BOOLEAN, dry : {FALSE}] :
       /\ j.src = "stream" => j.dst \in {"root", "local"}
       /\ j.src \in {"local", "http"} => j.sources = 1 /\ ~j.bulk
       /\ j.sources = 2 => j.dst \in {"local", "root"} /\ ~j.bulk /\ j.spans = 1
       /\ j.spans = 2 => j.dst = "local" /\ ~j.bulk
       /\ j.bulk => j.src = "root" /\ j.dst \in {"local", "stream"}
       /\ j.replicas = 2 <=> j.declared
       /\ j.paced => j.src = "root" /\ ~j.dynamic
       /\ j.dynamic => j.src = "root" /\ j.sources = 1 /\ ~j.bulk /\ j.spans = 1
       /\ j.dst = "stream" => ~j.there /\ j.src = "root"}

\* A root:// pull in all its variety, an http:// one without what it ignores.
FirstPull == [http |-> FALSE, there |-> "none", overwrite |-> TRUE, cleanup |-> TRUE,
              delegate |-> FALSE, dstTpc |-> TRUE, dstLite |-> FALSE, srcTpc |-> TRUE,
              watched |-> FALSE, patience |-> FALSE, heeds |-> FALSE, verify |-> "no", sums |-> TRUE]
MCPulls ==
    {p \in [http : BOOLEAN, there : {"none", "their empty", "their data"}, overwrite : BOOLEAN,
            cleanup : BOOLEAN, delegate : BOOLEAN, dstTpc : BOOLEAN, dstLite : BOOLEAN,
            srcTpc : BOOLEAN, watched : BOOLEAN, patience : BOOLEAN, heeds : BOOLEAN,
            verify : {"yes", "no", "default"}, sums : BOOLEAN] :
       /\ p.http => ~p.delegate /\ p.dstTpc /\ ~p.dstLite /\ p.srcTpc /\ ~p.heeds /\ ~p.patience
       /\ ~p.dstTpc => ~p.dstLite /\ ~p.heeds /\ ~p.patience /\ p.sums
       /\ ~p.watched => ~p.heeds
       /\ p.verify = "no" => p.sums}

NoTree == [walked |-> {}, excluded |-> {}, sync |-> "no", delete |-> TRUE, dry |-> TRUE,
           overwrite |-> TRUE, remote |-> FALSE, pc |-> "copy", dealt |-> {}, busy |-> {}, copied |-> {},
           result |-> "running"]

VARIABLE task    \* which of them this behaviour follows

allVars == <<task, copyVars, tpVars, treeVars, local>>

Init ==
    /\ task \in {"copy", "pull", "tree", "local"}
    /\ IF task = "copy" THEN CopyInit
       ELSE job = Plain /\ cp = [Idle EXCEPT !.pc = "done"] /\ file = NoFile /\ other = "away"
    /\ task # "pull" => ask = FirstPull
    /\ TpInit
    /\ LocalInit
    /\ task # "tree" => tree = NoTree /\ there = [n \in Names |-> "none"]
    /\ TreeInit

InCopy(A) == task = "copy" /\ A /\ UNCHANGED <<task, tpVars, treeVars, local>>
InPull(A) == task = "pull" /\ A /\ UNCHANGED <<task, copyVars, treeVars, local>>
InTree(A) == task = "tree" /\ A /\ UNCHANGED <<task, copyVars, tpVars, local>>
InLocal(A) == task = "local" /\ A /\ UNCHANGED <<task, copyVars, tpVars, treeVars>>

Next == InCopy(CopyNext) \/ InPull(TpNext) \/ InTree(TreeNext) \/ InLocal(LocalNext)

\* The fairness of the two modules that promise an end.
Fairness == WF_allVars(InCopy(CopySteps)) /\ WF_allVars(InPull(Steps))
Spec == Init /\ [][Next]_allVars /\ Fairness

\* A copy comes to an end however often its connection drops, and so does a
\* third-party pull that is cancelled or has a patience.
EveryCopyEnds == CopyEnds /\ PullEnds
=============================================================================
