-------------------------------- MODULE Compat --------------------------------
(***************************************************************************)
(* compat/client: the bindings' File, FileSystem and CopyProcess over the  *)
(* native client, and _abandoned.py, which closes the files their owners   *)
(* let go of.                                                              *)
(*                                                                         *)
(*  file   a File opened with a callback, closed or dropped, and the       *)
(*         process forked with files open and queued;                      *)
(*  parts  a call that answers a callback, in parts or at once, and a      *)
(*         listing gathered from several servers;                          *)
(*  jobs   a CopyProcess.                                                  *)
(***************************************************************************)
EXTENDS Integers, Sequences, FiniteSets, SequencesExt, FiniteSetsExt

CONSTANTS
    MaxOpens,      \* bound: files opened in one behaviour
    MaxCloses,     \* bound: closes of one file under way at once
    MaxParts,      \* bound: parts of one answer
    Servers,       \* the data servers a directory is located on
    CopyJobs,      \* the jobs of a CopyProcess, in order: 1 .. n
    JobKinds,      \* what a job may be asked for
    Parallel       \* CopyProcess.parallel

\* A job of a CopyProcess: add_job's arguments, and what is at its target:
\* nothing, somebody's file, or somebody's empty one on a server.
JobRecord == [force : BOOLEAN, cont : BOOLEAN, policy : {"force", "continue"}, retry : Nat, check : BOOLEAN,
              rm : BOOLEAN, direct : {"none", "first", "only"}, there : {"none", "theirs", "empty"}]

ASSUME CompatAssumption ==
    /\ MaxOpens \in Nat /\ MaxCloses \in Nat /\ MaxParts \in Nat
    /\ JobKinds \subseteq JobRecord

VARIABLES
    binding,   \* the File: [native, failed, next], its opens and closes under
               \* way, [opening, closing], and what its caller did: [due, clash]
    handle,    \* each native file's state
    bin,       \* _abandoned.py in the two processes
    delivery,  \* a call with a callback
    gather,    \* a located listing
    cjobs      \* the jobs

compatVars == <<binding, handle, bin, delivery, gather, cjobs>>

-----------------------------------------------------------------------------
Processes == {"parent", "child"}
Opens == 1 .. MaxOpens
NoneClosing == [h \in Opens |-> 0]
NewFile == [native |-> 0, failed |-> FALSE, opening |-> {}, closing |-> NoneClosing, next |-> 1,
            due |-> FALSE, clash |-> {}]
NoDelivery == [pc |-> "idle", chunked |-> FALSE, sent |-> 0, held |-> 0, parts |-> << >>, heard |-> << >>, raised |-> FALSE]
NoGather == [pc |-> "idle", left |-> Servers, listed |-> {}, failures |-> 0, status |-> "none"]
NewJob(kind) == [kind |-> kind, pc |-> "queued", tries |-> 0, force |-> kind.force, cont |-> kind.cont,
                 target |-> kind.there, corrupt |-> FALSE, status |-> "none", told |-> << >>]

CompatInit ==
    /\ binding = NewFile
    /\ handle = [h \in Opens |-> "none"]
    /\ bin = [queue |-> [p \in Processes |-> << >>], popped |-> [p \in Processes |-> 0],
              reaper |-> [p \in Processes |-> FALSE], forked |-> FALSE, inherited |-> {}, copied |-> 0,
              closers |-> [h \in Opens |-> {}]]
    /\ delivery = NoDelivery
    /\ gather = NoGather
    /\ cjobs \in [CopyJobs -> {NewJob(kind) : kind \in JobKinds}]

-----------------------------------------------------------------------------
(* File, and the files nobody holds any more.                              *)

\* native.close(), by process p; a failure is quiet.
ClosedBy(b, p, hs) == [b EXCEPT !.closers = [h \in Opens |-> IF h \in hs THEN @[h] \cup {p} ELSE @[h]]]
ShutDown(hs) == [h \in Opens |-> IF h \in hs THEN "closed" ELSE handle[h]]

\* reap, ensure_reaper: what every open does first.
Swept(b, p) == ClosedBy([b EXCEPT !.queue[p] = << >>, !.reaper[p] = TRUE], p, ToSet(b.queue[p]))

\* File.open: nothing after a failed open, nothing while open.  An open with a
\* callback is made on a worker, and another may be asked for before it has
\* answered: the caller's calls clash.
OpenFile ==
    /\ ~binding.failed /\ binding.native = 0 /\ binding.next <= MaxOpens
    /\ handle' = [ShutDown(ToSet(bin.queue["parent"])) EXCEPT ![binding.next] = "opening"]
    /\ bin' = Swept(bin, "parent")
    /\ binding' = [binding EXCEPT !.opening = @ \cup {binding.next}, !.next = @ + 1,
                                  !.clash = IF binding.opening = {} THEN @ ELSE @ \cup {"opens"}]
    /\ UNCHANGED <<delivery, gather, cjobs>>

\* opened(): the native file is installed once it is open, over whatever is
\* there (__install); a failed one is closed, and the File is finished with
\* (__fail).
OpenedFile(h) ==
    /\ h \in binding.opening
    /\ \/ /\ handle' = [handle EXCEPT ![h] = "open"]
          /\ binding' = [binding EXCEPT !.opening = @ \ {h}, !.native = h, !.due = TRUE]
       \/ /\ handle' = [handle EXCEPT ![h] = "closed"]
          /\ binding' = [binding EXCEPT !.opening = @ \ {h}, !.failed = TRUE]
    /\ UNCHANGED <<bin, delivery, gather, cjobs>>

\* File.close: the native file of the moment is to be closed, here or on a
\* worker.
CloseFile ==
    /\ ~binding.failed /\ binding.native # 0 /\ binding.closing[binding.native] < MaxCloses
    /\ binding' = [binding EXCEPT !.closing[binding.native] = @ + 1, !.due = FALSE,
                                  !.clash = IF binding.closing = NoneClosing THEN @ ELSE @ \cup {"closes"}]
    /\ UNCHANGED <<handle, bin, delivery, gather, cjobs>>

\* closed(): what the File holds afterwards is nothing, whichever file it
\* held by then, even if the close failed.
ClosedFile(h) ==
    /\ binding.closing[h] > 0
    /\ handle' = ShutDown({h})
    /\ bin' = ClosedBy(bin, "parent", {h})
    /\ binding' = [binding EXCEPT !.closing[h] = @ - 1, !.native = 0]
    /\ UNCHANGED <<delivery, gather, cjobs>>

\* _dropped, adopt: a File collected while open leaves its native file to be
\* closed on an ordinary thread.  What runs on a worker holds the File.
Dropped == IF binding.native = 0 THEN bin ELSE [bin EXCEPT !.queue["parent"] = Append(@, binding.native)]

CollectFile ==
    /\ binding.opening = {} /\ binding.closing = NoneClosing /\ binding.next <= MaxOpens
    /\ bin' = Dropped
    /\ binding' = [NewFile EXCEPT !.next = binding.next, !.clash = binding.clash]
    /\ UNCHANGED <<handle, delivery, gather, cjobs>>

\* reap, _reap_forever: popped by one thread, then closed.
ReaperTakes(p) ==
    /\ bin.reaper[p] /\ bin.popped[p] = 0 /\ bin.queue[p] # << >>
    /\ bin' = [bin EXCEPT !.popped[p] = Head(bin.queue[p]), !.queue[p] = Tail(@)]
    /\ UNCHANGED <<binding, handle, delivery, gather, cjobs>>

ReaperCloses(p) ==
    /\ bin.popped[p] # 0
    /\ handle' = ShutDown({bin.popped[p]})
    /\ bin' = ClosedBy([bin EXCEPT !.popped[p] = 0], p, {bin.popped[p]})
    /\ UNCHANGED <<binding, delivery, gather, cjobs>>

\* Mutation: the child keeps what the parent had queued.
ForgotNothing(queue) == queue

\* _forget: the parent's queue is not the child's to close.
Forgotten(queue) == << >>

Fork ==
    /\ ~bin.forked
    /\ bin' = [bin EXCEPT !.forked = TRUE, !.queue["child"] = Forgotten(bin.queue["parent"]), !.copied = binding.native,
                          !.inherited = (ToSet(bin.queue["parent"]) \cup {bin.popped["parent"]}) \ {0}]
    /\ UNCHANGED <<binding, handle, delivery, gather, cjobs>>

\* The child opens a file of its own.
ChildOpens ==
    /\ bin.forked
    /\ handle' = ShutDown(ToSet(bin.queue["child"]))
    /\ bin' = Swept(bin, "child")
    /\ UNCHANGED <<binding, delivery, gather, cjobs>>

\* The child's copy of an open File is collected there.
ChildCollects ==
    /\ bin.copied # 0
    /\ bin' = [bin EXCEPT !.queue["child"] = Append(@, bin.copied), !.copied = 0]
    /\ UNCHANGED <<binding, handle, delivery, gather, cjobs>>

FileSteps == \/ \E h \in Opens : OpenedFile(h) \/ ClosedFile(h)
             \/ \E p \in Processes : ReaperTakes(p) \/ ReaperCloses(p)
FileNext == OpenFile \/ CloseFile \/ CollectFile \/ Fork \/ ChildOpens \/ ChildCollects \/ FileSteps

-----------------------------------------------------------------------------
(* Callbacks.  A part is its number; 0 is an answer with nothing in it.    *)

\* call, stream: one native call, whole or in parts, is queued and the caller
\* told OK at once.
CallBack ==
    /\ delivery.pc = "idle"
    /\ \E chunked \in BOOLEAN : delivery' = [delivery EXCEPT !.pc = "running", !.chunked = chunked]
    /\ UNCHANGED <<binding, handle, bin, gather, cjobs>>

Told(status, part) == [status |-> status, part |-> part]

\* __in_parts.arrived: the part before is handed on, this one held back.
Arrived ==
    LET passed == IF delivery.held = 0 THEN << >> ELSE <<Told("continue", delivery.held)>>
    IN [delivery EXCEPT !.sent = @ + 1, !.held = delivery.sent + 1, !.parts = @ \o passed]

PartArrives ==
    /\ delivery.pc = "running" /\ delivery.chunked /\ delivery.sent < MaxParts
    /\ delivery' = Arrived
    /\ UNCHANGED <<binding, handle, bin, gather, cjobs>>

\* Mutation: a failed call puts nothing into the queue.
ProducedQuietly ==
    /\ delivery.pc = "running"
    /\ \E status \in {"ok", "error"} :
         delivery' = [delivery EXCEPT !.pc = "produced",
                        !.parts = IF status = "ok" THEN Append(@, Told(status, delivery.held)) ELSE @]
    /\ UNCHANGED <<binding, handle, bin, gather, cjobs>>

\* _produce, _outcome: the last part, or the failure, is the last word.
Produced ==
    /\ delivery.pc = "running"
    /\ \E status \in {"ok", "error"} :
         delivery' = [delivery EXCEPT !.pc = "produced",
                        !.parts = Append(@, Told(status, IF status = "ok" THEN delivery.held ELSE 0))]
    /\ UNCHANGED <<binding, handle, bin, gather, cjobs>>

\* _deliver_parts, _deliver: outside the native call; a callback that raises
\* ends the worker's job, and the producer goes on into a queue unread.
HandOver ==
    /\ delivery.parts # << >> /\ ~delivery.raised
    /\ \E raises \in BOOLEAN :
         delivery' = [delivery EXCEPT !.parts = Tail(@), !.heard = Append(@, Head(delivery.parts)), !.raised = raises]
    /\ UNCHANGED <<binding, handle, bin, gather, cjobs>>

\* __gathered: one server after another; a failure loses nobody else's.
GatherOne ==
    /\ gather.pc = "idle" /\ gather.left # {}
    /\ \E s \in gather.left, ok \in BOOLEAN :
         gather' = [gather EXCEPT !.left = @ \ {s}, !.listed = IF ok THEN @ \cup {s} ELSE @,
                                  !.failures = IF ok THEN @ ELSE @ + 1]
    /\ UNCHANGED <<binding, handle, bin, delivery, cjobs>>

\* __located: nowhere is an error; some failing is a partial answer.
GatherEnds ==
    /\ gather.pc = "idle" /\ gather.left = {}
    /\ gather' = [gather EXCEPT !.pc = "over",
                    !.status = IF Servers = {} THEN "not found" ELSE IF gather.failures = 0 THEN "ok"
                               ELSE IF gather.failures = Cardinality(Servers) THEN "error" ELSE "partial"]
    /\ UNCHANGED <<binding, handle, bin, delivery, cjobs>>

PartSteps == PartArrives \/ Produced \/ HandOver \/ GatherEnds
PartNext == CallBack \/ GatherOne \/ PartSteps

-----------------------------------------------------------------------------
(* CopyProcess.                                                            *)

JobsAre(j, job) == cjobs' = [cjobs EXCEPT ![j] = job] /\ UNCHANGED <<binding, handle, bin, delivery, gather>>

\* run: in order, so many at once; the handler hears of each.
BeginJob(j) ==
    /\ cjobs[j].pc = "queued" /\ \A k \in 1 .. j - 1 : cjobs[k].pc # "queued"
    /\ Cardinality({k \in CopyJobs : cjobs[k].pc \notin {"queued", "over"}}) < Parallel
    /\ JobsAre(j, [cjobs[j] EXCEPT !.pc = "copy", !.told = Append(@, "begin")])

\* _attempts: "continue" resumes what is there, anything else overwrites it.
Retried(job) ==
    LET resume == job.kind.policy = "continue"
    IN [job EXCEPT !.tries = @ + 1, !.force = ~resume, !.cont = resume]

JobFails(job, status) == [job EXCEPT !.pc = "ended", !.status = status]

\* _transfer: from server to server, through here, or one and then the other.
Ways(job) == CASE job.kind.direct = "none" -> {"classic"} [] job.kind.direct = "only" -> {"direct"}
               [] OTHER -> {"direct", "classic"}

\* overwrite: a copy from server to server knows nothing of continuing.
MayWrite(job, way) == job.target = "none" \/ job.force \/ (way = "classic" /\ job.cont)

\* resume: a copy through here goes on from the length of what is there,
\* whoever wrote it and whatever is missing in it.
Continued(job, way) == way = "classic" /\ job.cont /\ job.target # "none"
Spliced(job, way) == Continued(job, way) /\ (job.corrupt \/ job.target = "theirs")
Completed(job, way) == [job EXCEPT !.target = "ours", !.corrupt = Spliced(job, way)]

\* What it leaves if it writes some: the chunks are written as they come, so
\* the file may have gaps.
Begun(job, way) ==
    IF MayWrite(job, way)
    THEN {[job EXCEPT !.target = "ours in part", !.corrupt = gaps \/ Spliced(job, way)] : gaps \in BOOLEAN} ELSE {}

\* _discard_empty_target: an empty target goes, whoever made it, unless the
\* copy was to continue.
Discarded(job, way) ==
    IF way = "classic" /\ ~job.cont /\ (MayWrite(job, way) \/ job.target = "empty")
    THEN {[job EXCEPT !.target = "none"]} ELSE {}
Left(job, way) == {job} \cup Begun(job, way) \cup Discarded(job, way)

\* _once: the copy is made.
CopyOnce(j) ==
    /\ cjobs[j].pc = "copy"
    /\ \E way \in Ways(cjobs[j]) :
         /\ MayWrite(cjobs[j], way)
         /\ JobsAre(j, [Completed(cjobs[j], way) EXCEPT !.pc = "verify"])

\* A TransientError: tried again, while there are tries left.
CopyLost(j) ==
    /\ cjobs[j].pc = "copy"
    /\ \E way \in Ways(cjobs[j]) : \E left \in Left(cjobs[j], way) :
         JobsAre(j, IF left.tries < left.kind.retry THEN Retried(left) ELSE JobFails(left, "error"))

\* Any other failure, and a handler that cancels as a copy through here
\* reports to it, are the job's status.
CopyFails(j) ==
    /\ cjobs[j].pc = "copy"
    /\ \E way \in Ways(cjobs[j]), status \in {"cancelled", "invalid", "error"} :
         /\ status = "cancelled" => way = "classic"
         /\ \E left \in Left(cjobs[j], way) : JobsAre(j, JobFails(left, status))

\* ExistsError: a target that is there and may not be written.
RefuseJob(j) ==
    /\ cjobs[j].pc = "copy"
    /\ \E way \in Ways(cjobs[j]) :
         /\ ~MayWrite(cjobs[j], way)
         /\ \E left \in Left(cjobs[j], way) : JobsAre(j, JobFails(left, "exists"))

\* _verify: what checksummode asks for, and the two compared; a side that
\* cannot say fails the job, whose target stays.
VerifyJob(j) ==
    /\ cjobs[j].pc = "verify"
    /\ LET job == cjobs[j]
           bad == JobFails(job, "checksum")
       IN \/ /\ job.kind.check => ~job.corrupt
             /\ JobsAre(j, [job EXCEPT !.pc = "ended", !.status = "ok"])
          \/ /\ job.kind.check /\ job.corrupt
             /\ JobsAre(j, [bad EXCEPT !.target = IF job.kind.rm THEN "none" ELSE @])
          \/ job.kind.check /\ JobsAre(j, JobFails(job, "error"))

EndJob(j) ==
    /\ cjobs[j].pc = "ended"
    /\ JobsAre(j, [cjobs[j] EXCEPT !.pc = "over", !.told = Append(@, "end")])

JobNext == \E j \in CopyJobs : \/ BeginJob(j) \/ CopyOnce(j) \/ CopyLost(j) \/ CopyFails(j) \/ RefuseJob(j)
                               \/ VerifyJob(j) \/ EndJob(j)

CompatNext == FileNext \/ PartNext \/ JobNext
CompatSpec == CompatInit /\ [][CompatNext]_compatVars

-----------------------------------------------------------------------------
(* Properties.                                                             *)

\* A native file that is open is held: by its File, by the queue of the
\* dropped ones or by the reaper closing it (_dropped, reap), as long as the
\* caller has waited for each open and each close before the next; and what
\* was queued when the process forked is closed by the parent alone
\* (_forget), whose handle the child would end.
FilesKept ==
    /\ binding.clash = {} => \A h \in Opens : handle[h] = "open" =>
          binding.native = h \/ h \in ToSet(bin.queue["parent"]) \cup {bin.popped["parent"]}
    /\ \A h \in bin.inherited : "child" \notin bin.closers[h]

\* File.is_open: an open, asked for while no other was under way, succeeded
\* and no close was called since.
IsOpenSaysSo == binding.due /\ "opens" \notin binding.clash => binding.native # 0

\* A callback hears the parts in order, then one last word and nothing after
\* it; an answer that succeeds was heard whole, its last part with the last
\* word (_deliver_parts, __in_parts).  A gathered listing is called complete
\* only with every server's entries.
CallbacksRight ==
    /\ \A i \in DOMAIN delivery.heard : delivery.heard[i].status # "continue" => i = Len(delivery.heard)
    /\ \A i \in DOMAIN delivery.heard :
          /\ delivery.heard[i].status = "continue" => delivery.heard[i].part = i
          /\ delivery.heard[i].status = "ok" => delivery.heard[i].part = delivery.sent /\ i = Max({1, delivery.sent})
    /\ gather.status = "ok" => gather.listed = Servers

\* A job's handler hears one begin and then one end.  A job that reports
\* success left its own file whole, and one whose checksum was compared, or
\* that was never to continue anything, left no splice of what was there and
\* what it wrote.  Somebody's file is not written over by a job that was not
\* told to, before a retry is.
JobsRight ==
    \A j \in CopyJobs :
        LET job == cjobs[j]
        IN /\ job.told \in {<< >>, <<"begin">>, <<"begin", "end">>}
           /\ job.status = "ok" => job.target = "ours" /\ (job.corrupt => ~job.kind.check)
           /\ job.status = "ok" /\ ~job.kind.cont /\ job.kind.policy = "force" => ~job.corrupt
           /\ job.kind.there = "theirs" /\ ~job.kind.force /\ ~job.kind.cont /\ job.tries = 0 => job.target = "theirs"

\* Everything dropped is closed in the end, and every call with a callback
\* that does not raise hears its last word.
CallbacksEnd ==
    /\ \A h \in Opens : [](h \in ToSet(bin.queue["parent"]) => <>(handle[h] = "closed"))
    /\ [](delivery.pc = "running" => <>(delivery.raised \/ (delivery.heard # << >> /\ Last(delivery.heard).status # "continue")))

\* The bindings' files, callbacks and copy jobs keep their promises through
\* collection, forks, parts and retries (_abandoned, _dispatch, CopyProcess).
CompatRight == FilesKept /\ CallbacksRight /\ JobsRight
=============================================================================
