----------------------------- MODULE CopyEngine -----------------------------
(***************************************************************************)
(* copy/engine.py: one copy(), from the plan to the removal of the source, *)
(* with the endpoint adapters it opens (_endpoints, _fastpath, _local) and *)
(* the failover between the replicas of a Metalink (_metalink).            *)
(*                                                                         *)
(* A unit is one chunk of the file.  The target is a sequence of units,    *)
(* each right (what the source has there), old (something else) or a hole. *)
(* A copy that loses its connection is planned again; it continues from    *)
(* the length of the target where the target can be written at an offset.  *)
(***************************************************************************)
EXTENDS Integers, Sequences, FiniteSets, FiniteSetsExt

CONSTANTS
    Units,    \* the length of the source
    Asked,    \* the copies asked for: _CopyOptions and the two ends
    Retries   \* config.connect_retries

Ends == {"root", "http", "s3", "local", "stream"}
CopyKinds ==
    [src : Ends, dst : Ends, overwrite : BOOLEAN, resume : BOOLEAN,
     verify : {"yes", "no", "default"}, sums : BOOLEAN, sources : Nat, paced : BOOLEAN,
     dynamic : BOOLEAN, bulk : BOOLEAN, spans : Nat, replicas : Nat, declared : BOOLEAN, remove : BOOLEAN,
     there : BOOLEAN, dry : BOOLEAN]

\* An open stream that is copied to starts out empty.
ASSUME CopyAssumption ==
    /\ Units \in Nat /\ Retries \in Nat
    /\ \A j \in Asked : j \in CopyKinds /\ (j.dst = "stream" => ~j.there)

VARIABLES
    job,      \* the copy that was asked for
    cp,       \* where it stands: _Job, _Plan and _Verify of the current try
    file,     \* the target: [own, data]
    other     \* another program that writes the same target

copyVars == <<job, cp, file, other>>

Remote == {"root", "http", "s3"}
NoFile == [own |-> "none", data |-> << >>]
RightData == [i \in 1 .. Units |-> "right"]
Old == [own |-> "theirs", data |-> <<"old">>]

\* The source's end of a Metalink copy is the replica being tried.
Metalink == job.replicas > 1

\* _target_url: an open stream has no URL.
Named(end) == end # "stream"

-----------------------------------------------------------------------------
(* The plan.                                                               *)

\* _several: blocks from several replicas need a target written at offsets.
Several == job.sources > 1 /\ job.src = "root" /\ job.dst \in {"local", "root"}

\* _bulk_usable: root:// to a local file or to an open stream.
BulkUsable == job.bulk /\ job.src = "root" /\ job.dst \in {"local", "stream"}

\* _spread and _divisible: a local target is filled span by span.
Divided == job.spans > 1 /\ job.dst = "local" /\ job.src \in {"local", "root", "http"}

\* _continue_from: where a partial target is continued, given what _probe
\* said of it (0: nothing there).
ContinueFrom(length) ==
    IF ~cp.overwrite \/ ~Named(job.src) \/ ~Named(job.dst) THEN "refused"
    ELSE IF length = 0 THEN "whole" ELSE IF length > Units THEN "refused" ELSE "resume"

\* _plan.
PlanOf(length) ==
    LET resume == IF cp.resume THEN ContinueFrom(length) ELSE "whole"
    IN IF Several THEN (IF cp.resume THEN "refused" ELSE "replicas")
       ELSE IF resume # "whole" THEN resume
       ELSE IF job.dynamic \/ job.paced THEN "stream"
       ELSE IF BulkUsable THEN "bulk" ELSE IF Divided THEN "spread" ELSE "stream"

\* _verification's checkable: the end whose server is asked, target first.
Checkable == IF job.dst \in Remote THEN "dst" ELSE IF job.src \in Remote THEN "src" ELSE "none"

Strict == job.verify = "yes" \/ job.declared
Wanted == Strict \/ job.verify = "default"

\* _strict_ends: whether the two ends are compared once the copy is done.
EndsOf(plan) ==
    \/ plan \in {"replicas", "resume", "spread"}
    \/ plan = "bulk" /\ job.dst # "stream"
    \/ job.verify = "yes" /\ Checkable = "none"

\* The ValueError of _strict_ends, and the source that will not checksum
\* when it is asked first (_source_first, _ask_first).
CannotVerify(plan) ==
    /\ job.verify = "yes"
    /\ \/ Checkable = "none" /\ plan = "stream" /\ ~(Named(job.src) /\ Named(job.dst))
       \/ ~job.declared /\ ~EndsOf(plan) /\ Checkable = "src" /\ job.src # "s3" /\ ~job.sums

\* _declared_verification and _available_verification: what the finished
\* copy is held against.
CheckOf(plan) ==
    IF job.declared THEN (IF EndsOf(plan) THEN "declared end" ELSE "declared stream")
    ELSE IF EndsOf(plan) THEN (IF Wanted THEN "ends" ELSE "none")
    ELSE IF ~Wanted \/ Checkable = "none" THEN "none"
    ELSE IF Checkable = "src" /\ job.src # "s3" THEN (IF job.sums THEN "first" ELSE "none")
    ELSE "after"

-----------------------------------------------------------------------------
Idle == [pc |-> "start", replica |-> 1, overwrite |-> job.overwrite, resume |-> job.resume,
         tries |-> 0, plan |-> "none", check |-> "none", at |-> 0, todo |-> {}, moved |-> 0,
         staged |-> 0, made |-> FALSE, existed |-> FALSE, twice |-> FALSE, verified |-> FALSE,
         result |-> "running", gone |-> FALSE]

CopyInit ==
    /\ job \in Asked
    /\ cp = Idle
    /\ file = IF job.there THEN Old ELSE NoFile
    /\ other = IF job.overwrite THEN "away" ELSE "coming"

\* _copy_one, up to the transfer; a dry run ends there.
Start ==
    /\ cp.pc = "start"
    /\ cp' = IF job.dry THEN [cp EXCEPT !.pc = "done", !.result = "dry"]
             ELSE [cp EXCEPT !.pc = "plan", !.existed = job.dst = "local" /\ file.own # "none",
                             !.tries = 0, !.resume = job.resume]
    /\ UNCHANGED <<job, file, other>>

\* The failure leaves _copy_one: a Metalink moves on to its next replica,
\* which may overwrite (_copy_metalink_replicas); what is neither an OSError
\* nor an XRootDError ends the copy.
Failed(kind) ==
    IF cp.replica < job.replicas /\ kind # "refused"
    THEN [Idle EXCEPT !.replica = cp.replica + 1, !.overwrite = TRUE]
    ELSE [cp EXCEPT !.pc = "done", !.result = "failed"]

\* _transfer: one round of planning.  _probe answers "nothing there" for a
\* remote target it could not ask.
Prepare ==
    /\ cp.pc = "plan"
    /\ \E length \in {Len(file.data)} \cup (IF job.dst \in Remote THEN {0} ELSE {}) :
         LET plan == PlanOf(length)
             at == IF plan = "resume" THEN length ELSE 0
         IN cp' = IF plan = "refused" \/ CannotVerify(plan)
                  THEN Failed(IF plan = "refused" \/ Checkable = "none" THEN "refused" ELSE "error")
                  ELSE [cp EXCEPT !.pc = IF plan \in {"spread", "bulk"} THEN "writer" ELSE "reader",
                                  !.plan = plan, !.check = CheckOf(plan), !.at = at, !.moved = 0,
                                  !.staged = 0, !.made = FALSE, !.todo = at .. Units - 1]
    /\ UNCHANGED <<job, file, other>>

-----------------------------------------------------------------------------
(* Moving the bytes.                                                       *)

\* _reader, or locate: the source answers; a bulk download then sizes the
\* file it opened (_preallocate).
Sized(data) == [i \in 1 .. Units |-> IF i <= Len(data) THEN data[i] ELSE "hole"]
OpenReader ==
    /\ cp.pc = "reader"
    /\ cp' = [cp EXCEPT !.pc = IF cp.plan = "bulk" THEN "move" ELSE "writer"]
    /\ file' = IF cp.plan = "bulk" /\ job.dst = "local"
               THEN [own |-> "ours", data |-> Sized(file.data)] ELSE file
    /\ UNCHANGED <<job, other>>

\* Mutation: trusts what was there when the copy began.
RefusedStale == ~cp.overwrite /\ cp.existed

\* _writer refuses an exclusive create of what is there, _resumer what is
\* not there and what cannot be written at an offset.
Refused ==
    IF cp.plan = "resume" THEN file.own = "none" \/ job.dst \notin {"local", "root"}
    ELSE ~cp.overwrite /\ file.own # "none" /\ job.dst # "stream"

\* _writer, _resumer, and _create of a bulk download, which truncates nothing.
OpenWriter ==
    /\ cp.pc = "writer" /\ ~Refused
    /\ cp' = [cp EXCEPT !.pc = IF cp.plan = "bulk" THEN "reader" ELSE "move",
                        !.made = cp.plan = "bulk" /\ job.dst = "local" /\ file.own = "none"]
    /\ file' = IF job.dst \notin {"local", "root"} \/ cp.plan = "resume" THEN file
               ELSE IF cp.plan = "bulk" /\ file.own # "none" THEN file
               ELSE [own |-> "ours", data |-> << >>]
    /\ UNCHANGED <<job, other>>

\* The target with unit u written: at its offset, or at the end of a stream.
Put(data, u) ==
    IF job.dst = "stream" THEN Append(data, IF Len(data) = u THEN "right" ELSE "old")
    ELSE [i \in 1 .. Max({Len(data), u + 1}) |->
             IF i = u + 1 THEN "right" ELSE IF i <= Len(data) THEN data[i] ELSE "hole"]

\* One chunk: the pump, a span, a bulk worker or a replica's reader.  Only
\* one stream is read in order; a PUT shows nothing until it is finished.
MoveUnit ==
    /\ cp.pc = "move"
    /\ \E u \in cp.todo :
         /\ (cp.plan \in {"stream", "resume"} \/ job.dst = "stream") => u = Min(cp.todo)
         /\ file' = IF job.dst \in {"http", "s3"} THEN file
                    ELSE [own |-> "ours", data |-> Put(file.data, u)]
         /\ cp' = [cp EXCEPT !.todo = @ \ {u}, !.moved = @ + 1,
                             !.staged = IF job.dst \in {"http", "s3"} THEN u + 1 ELSE 0]
    /\ UNCHANGED <<job, other>>

\* The server answers a read of the bulk plane with a conversation: a file
\* this copy made is removed and the pump starts again (_bulk, _bulk_to_file).
BulkDeclined ==
    /\ cp.plan = "bulk" /\ cp.pc \in {"reader", "move"}
    /\ file' = IF cp.made THEN NoFile ELSE file
    /\ cp' = [cp EXCEPT !.pc = "reader", !.plan = "stream", !.todo = 0 .. Units - 1,
                        !.twice = job.dst = "stream" /\ cp.moved > 0, !.moved = 0, !.made = FALSE]
    /\ UNCHANGED <<job, other>>

\* The source stops sending although there is more.
RunsDry ==
    /\ cp.pc = "move" /\ cp.todo # {}
    /\ cp' = [cp EXCEPT !.todo = {}]
    /\ UNCHANGED <<job, file, other>>

\* What a closed PUT leaves: the body it was given, unless x mode finds the
\* resource made meanwhile.
PutDone == IF ~cp.overwrite /\ file.own # "none" THEN file
           ELSE [own |-> "ours", data |-> [i \in 1 .. cp.staged |-> "right"]]

\* Mutation: nobody counts.
WholeMovedUnasked == TRUE

\* _source_stream: the size the source is held to, if any.  Over HTTP, S3 and
\* from an open stream it is None, and so it is for a dynamic source.
SizeKnown == cp.plan \in {"spread", "replicas", "bulk"} \/ (job.src \in {"root", "local"} /\ ~job.dynamic)

\* _require_whole, and the size _sync_local_target insists on.
WholeMoved ==
    /\ SizeKnown => cp.at + cp.moved >= Units
    /\ job.dst = "local" => Len(file.data) = cp.at + cp.moved

\* The stack closes the writer, which finishes a PUT.
Finish ==
    /\ cp.pc = "move" /\ cp.todo = {} /\ WholeMoved
    /\ job.dst \in {"http", "s3"} => (cp.overwrite \/ file.own = "none")
    /\ file' = IF job.dst \in {"http", "s3"} THEN PutDone ELSE file
    /\ cp' = [cp EXCEPT !.pc = "check"]
    /\ UNCHANGED <<job, other>>

-----------------------------------------------------------------------------
(* Failing.                                                                *)

\* _may_clean, _discard_empty_target: an empty target is removed, unless it
\* is a local file that was there before, or the end could not be reached.
Cleaned(target, kind) ==
    IF /\ ~job.resume /\ Named(job.dst) /\ kind \notin {"drop", "stall", "unsupported"}
       /\ (job.dst = "local" => ~cp.existed)
       /\ target.own # "none" /\ target.data = << >> /\ Units > 0
    THEN NoFile ELSE target

\* _retry_transfer, _can_retry: a dropped link is tried again, if the target
\* is a URL this copy may write twice; _writes_at_offset says from where.
MayRetry(kind) ==
    kind = "drop" /\ cp.tries + 1 <= Retries /\ Named(job.dst) /\ (cp.overwrite \/ job.resume)

\* What the failed try leaves: _bulk_to_file removes the file it made if
\* nothing arrived, and closing an open PUT sends what it had.
LeftBehind ==
    IF cp.plan = "bulk" /\ cp.made /\ cp.moved = 0 THEN {NoFile}
    ELSE IF cp.pc = "move" /\ job.dst \in {"http", "s3"} THEN {PutDone, file} ELSE {file}

\* Mutation: a try that is not counted.
FailUncounted(kind) ==
    \E left \in LeftBehind :
      IF MayRetry(kind) THEN cp' = [cp EXCEPT !.pc = "plan", !.resume = job.dst \in {"local", "root"}] /\ file' = left
      ELSE file' = Cleaned(left, kind) /\ cp' = Failed(kind)

Fail(kind) ==
    \E left \in LeftBehind :
      IF MayRetry(kind)
      THEN /\ cp' = [cp EXCEPT !.pc = "plan", !.tries = @ + 1, !.resume = job.dst \in {"local", "root"}]
           /\ file' = left
      ELSE file' = Cleaned(left, kind) /\ cp' = Failed(kind)

\* The link drops, stalls, a limit of the pace is passed, or an end refuses.
TransferFails ==
    /\ cp.pc \in {"reader", "writer", "move"}
    /\ \/ \E kind \in {"drop", "stall", "error"} : Fail(kind)
       \/ cp.pc = "writer" /\ Refused
          /\ Fail(IF cp.plan = "resume" /\ job.dst \notin {"local", "root"} THEN "unsupported" ELSE "error")
       \/ cp.pc = "move" /\ cp.todo = {} /\ ~WholeMoved /\ Fail("error")
    /\ UNCHANGED <<job, other>>

-----------------------------------------------------------------------------
(* Afterwards.                                                             *)

\* What a digest of the target or of the stream says, and who can be asked.
EndRight == file.data = RightData
CanAsk == CASE cp.check = "ends" -> job.sums \/ (job.src = "local" /\ job.dst = "local")
            [] cp.check = "declared end" -> job.sums \/ job.dst = "local"
            [] cp.check = "after" -> job.sums
            [] OTHER -> TRUE

Agrees == CASE cp.check \in {"ends", "declared end"} -> EndRight
            [] cp.check = "after" -> file.data = [i \in 1 .. cp.moved |-> "right"] /\ ~cp.twice
            [] OTHER -> ~cp.twice /\ cp.moved = Units

\* A copy is held to the source's size, or to the source's checksum.  "after"
\* compares what was sent with what arrived, and asks the source nothing.
SourceHeld == SizeKnown \/ cp.check # "after"

\* _checked, _compare, _compare_ends, _matched.
Check ==
    /\ cp.pc = "check"
    /\ cp' = IF cp.check = "none" \/ (~CanAsk /\ ~Strict) THEN [cp EXCEPT !.pc = "remove"]
             ELSE IF ~CanAsk \/ ~Agrees THEN Failed("error")
             ELSE [cp EXCEPT !.pc = "remove", !.verified = TRUE]
    /\ UNCHANGED <<job, file, other>>

\* remove_source, once whatever was asked has been checked.
Remove ==
    /\ cp.pc = "remove"
    /\ cp' = [cp EXCEPT !.pc = "done", !.result = "ok",
                        !.gone = job.remove /\ Named(job.src) /\ ~Metalink]
    /\ UNCHANGED <<job, file, other>>

\* Another program makes the same target and writes to it.
OtherWrites ==
    /\ cp.pc # "done" /\ job.dst # "stream"
    /\ \/ /\ other = "coming" /\ file.own = "none"
          /\ file' = [own |-> "theirs", data |-> << >>] /\ other' = "made"
       \/ /\ other = "made" /\ file.own = "theirs"
          /\ file' = Old /\ other' = "away"
    /\ UNCHANGED <<job, cp>>

CopySteps == Start \/ Prepare \/ OpenReader \/ OpenWriter \/ MoveUnit \/ BulkDeclined \/ RunsDry
             \/ Finish \/ TransferFails \/ Check \/ Remove
CopyNext == CopySteps \/ OtherWrites
CopyFairness == WF_copyVars(CopySteps)
CopySpec == CopyInit /\ [][CopyNext]_copyVars /\ CopyFairness

-----------------------------------------------------------------------------
(* Properties.                                                             *)

\* A copy that reports a checksum, and one that succeeds at its first try
\* without continuing anything, left the whole source at the target,
\* whichever way the bytes went (_checked, _require_whole), as long as the
\* source's size or checksum was known; an open stream that a second replica
\* writes to again is the exception.
CopiedWhole ==
    /\ cp.result = "ok"
    /\ (cp.verified /\ SourceHeld) \/ (SizeKnown /\ cp.tries = 0 /\ ~job.resume /\ ~cp.twice)
    /\ (job.dst = "stream" => cp.replica = 1)
    => EndRight

\* A copy asked to verify never removes the source unless the target holds
\* all of it, however often the transfer was retried (_copy_one), as long as
\* the source's size or checksum was known.
MoveKeepsData == cp.gone /\ (job.verify = "yes" \/ cp.verified) /\ SourceHeld => EndRight

\* Another program's file survives: an exclusive copy to a local path never
\* touches it, and no clean-up removes a local file this copy did not make.
\* (An empty file made after the copy looked is taken for the copy's own.)
KeepsTheirs ==
    [][ job.dst = "local" /\ file.own = "theirs" /\ (cp.existed \/ file.data # << >>) =>
          /\ file'.own # "none"
          /\ ~job.overwrite /\ ~Metalink => file'.own = "theirs" ]_copyVars

\* The retries are counted: a copy comes to an end however often its
\* connection drops (_retry_transfer).
CopyEnds == <>(cp.pc = "done")

\* A copy that vouches for its target has the whole source in it, and a move
\* that was asked to verify keeps one good copy (_checked, _copy_one).
CopySafe == CopiedWhole /\ MoveKeepsData
=============================================================================
