------------------------------ MODULE CopyTree ------------------------------
(***************************************************************************)
(* copy_tree (copy/engine.py, copy/_tree.py): the files of a directory     *)
(* copied several at a time, what is up to date left alone and, with       *)
(* delete, whatever else the target holds removed afterwards; and the      *)
(* reader of a local file that survives a stale handle (copy/_local.py).   *)
(***************************************************************************)
EXTENDS Integers, Sequences, FiniteSets

CONSTANTS
    Names,       \* relative paths
    TreeWorkers, \* workers, or config.parallel_files
    MaxStale,    \* config.connect_retries of the local reader
    LocalUnits   \* chunks in the local source

ASSUME TreeAssumption == TreeWorkers \in Nat /\ MaxStale \in Nat /\ LocalUnits \in Nat

\* What the target has under a name, held against the source: nothing, the
\* same bytes, others of the same length (older or newer), another length, or
\* no bytes at all (the source has some).
Held == {"none", "same", "older", "newer", "differs", "empty"}

VARIABLES
    tree,   \* copy_tree: its arguments and how far it has got
    there,  \* the target: Names -> Held
    was,    \* history: the target as the call found it
    local   \* one _RecoveringLocalReader and the file it reads

treeVars == <<tree, there, was>>
localVars == <<local>>

-----------------------------------------------------------------------------
TreeInit ==
    /\ tree \in [walked : SUBSET Names, excluded : {{}} \cup {{n} : n \in Names},
                 sync : {"no", "size", "mtime", "checksum"}, delete : BOOLEAN, dry : BOOLEAN,
                 overwrite : BOOLEAN, remote : BOOLEAN, pc : {"copy"}, dealt : {{}}, busy : {{}}, copied : {{}},
                 result : {"running"}]
    /\ there \in [Names -> Held]
    /\ was = there

\* _walk and _selected: what is copied, settled before the first file moves.
Wanted1 == tree.walked \ tree.excluded

\* _up_to_date: the length first, then what the mode asks.
UpToDate(n) ==
    CASE tree.sync = "no" -> FALSE
      [] tree.sync = "size" -> there[n] \in {"same", "older", "newer"}
      [] tree.sync = "mtime" -> there[n] \in {"same", "newer"}
      [] tree.sync = "checksum" -> there[n] = "same"

\* _sync_options: a sync replaces what it finds out of date.
MayReplace == tree.overwrite \/ tree.sync # "no"

\* _each and _in_order: the next file, in a free worker, unless one failed.
TakeFile ==
    /\ tree.pc = "copy" /\ Cardinality(tree.busy) < TreeWorkers
    /\ \E n \in Wanted1 \ (tree.dealt \cup tree.busy) :
         tree' = [tree EXCEPT !.busy = @ \cup {n}]
    /\ UNCHANGED <<there, was>>

\* move: skipped, copied, or failed part-way; copy() itself is CopyEngine.
\* tree.dealt collects what has been dealt with.
SkipFile(n) ==
    /\ UpToDate(n) /\ UNCHANGED there
    /\ tree' = [tree EXCEPT !.busy = @ \ {n}, !.dealt = @ \cup {n}]

CopyFile(n) ==
    /\ ~UpToDate(n) /\ (tree.dry \/ MayReplace \/ there[n] = "none")
    /\ there' = IF tree.dry THEN there ELSE [there EXCEPT ![n] = "same"]
    /\ tree' = [tree EXCEPT !.busy = @ \ {n}, !.dealt = @ \cup {n}, !.copied = @ \cup {n}]

\* What a copy that fails leaves: the target as it was, refused or never
\* opened, or whatever had been written.
LeftOver(n) ==
    IF MayReplace \/ there[n] = "none" THEN {there[n], "empty", "differs", "same"} ELSE {there[n]}

\* _may_clean: not a local file that was there before the copy began.
MayClean(n) == tree.remote \/ there[n] = "none"

\* _discard_empty_target: an empty target goes, whoever made it, if the end
\* can be reached.
FileFails(n) ==
    /\ ~UpToDate(n) /\ ~tree.dry
    /\ \E left \in LeftOver(n) :
         there' \in {[there EXCEPT ![n] = left]} \cup
                   (IF left = "empty" /\ MayClean(n) THEN {[there EXCEPT ![n] = "none"]} ELSE {})
    /\ tree' = [tree EXCEPT !.busy = @ \ {n}, !.pc = "failing"]

MoveFile == \E n \in tree.busy : (SkipFile(n) \/ CopyFile(n) \/ FileFails(n)) /\ UNCHANGED was

\* run_all: the workers still at it are waited for, then the first failure
\* is raised.
TreeFails ==
    /\ tree.pc = "failing" /\ tree.busy = {}
    /\ tree' = [tree EXCEPT !.pc = "done", !.result = "failed"]
    /\ UNCHANGED <<there, was>>

CopiesDone ==
    /\ tree.pc = "copy" /\ tree.dealt = Wanted1
    /\ tree' = IF tree.delete THEN [tree EXCEPT !.pc = "prune"]
               ELSE [tree EXCEPT !.pc = "done", !.result = "ok"]
    /\ UNCHANGED <<there, was>>

\* Mutation: what this call did not copy, skipped files among it.
PrunableUncopied == {n \in Names : there[n] # "none" /\ n \notin tree.copied}

\* _prune: everything under the target that the selection does not name.
Prunable == {n \in Names : there[n] # "none" /\ n \notin Wanted1}
Prune ==
    /\ tree.pc = "prune"
    /\ \/ /\ Prunable # {} /\ ~tree.dry
          /\ \E n \in Prunable :
               \/ there' = [there EXCEPT ![n] = "none"] /\ UNCHANGED tree
               \/ tree' = [tree EXCEPT !.pc = "done", !.result = "failed"] /\ UNCHANGED there
       \/ /\ Prunable = {} \/ tree.dry
          /\ tree' = [tree EXCEPT !.pc = "done", !.result = "ok"] /\ UNCHANGED there
    /\ UNCHANGED was

TreeNext == TakeFile \/ MoveFile \/ TreeFails \/ CopiesDone \/ Prune
TreeSpec == TreeInit /\ [][TreeNext]_treeVars

-----------------------------------------------------------------------------
(* The local reader.  Each version of the file is one generation.          *)

LocalInit == local = [disk |-> 1, open |-> 0, same |-> 0, pos |-> 0, tries |-> 0, pc |-> "opening", got |-> << >>]

\* __init__: the handle's own generation is remembered.
OpenLocal ==
    /\ local.pc = "opening"
    /\ local' = [local EXCEPT !.pc = "reading", !.open = local.disk, !.same = local.disk, !.tries = 0]

\* read, readinto: the next bytes of the generation the handle is on.
ReadLocal ==
    /\ local.pc = "reading"
    /\ local' = IF local.pos = LocalUnits THEN [local EXCEPT !.pc = "done"]
                ELSE [local EXCEPT !.got = Append(@, <<local.open, local.pos>>), !.pos = @ + 1, !.tries = 0]

\* A transient error: the operation is tried again, up to connect_retries.
GoesStale ==
    /\ local.pc \in {"opening", "reading"}
    /\ local' = IF local.tries + 1 > MaxStale THEN [local EXCEPT !.pc = "failed"]
                ELSE [local EXCEPT !.tries = @ + 1, !.pc = IF @ = "opening" THEN @ ELSE "reopen"]

\* _retry: reopened by name, at the same position, only if it is the same
\* file; another one, or an open that fails, is the reader's end.
ReopenLocal ==
    /\ local.pc = "reopen"
    /\ \/ local.disk = local.same /\ local' = [local EXCEPT !.pc = "reading", !.open = local.disk]
       \/ local' = [local EXCEPT !.pc = "failed"]

\* Somebody puts another file under the name.
Replaced == local.disk = 1 /\ local.pc \notin {"done", "failed"} /\ local' = [local EXCEPT !.disk = 2]

LocalNext == OpenLocal \/ ReadLocal \/ GoesStale \/ ReopenLocal \/ Replaced
LocalSpec == LocalInit /\ [][LocalNext]_localVars

-----------------------------------------------------------------------------
(* Properties.                                                             *)

\* A tree copy that returns has every selected file as its mode asks, and
\* with delete nothing else; a dry run leaves the target as it was.  A file is
\* removed only by delete, once every selected file was dealt with and never a
\* selected one, or because its copy failed and left a remote target empty;
\* and without overwrite or sync a file that was there stays what it was, but
\* for an empty remote one (_prune, _each, _discard_empty_target).
TreeRight ==
    /\ tree.result = "ok" /\ ~tree.dry =>
         /\ \A n \in Wanted1 : UpToDate(n) \/ there[n] = "same"
         /\ tree.delete => \A n \in Names \ Wanted1 : there[n] = "none"
    /\ tree.dry => there = was
    /\ \A n \in Names : was[n] # "none" /\ there[n] = "none" =>
         \/ tree.delete /\ n \notin Wanted1 /\ tree.dealt = Wanted1
         \/ tree.remote /\ n \in Wanted1 \ tree.dealt /\ (tree.pc = "failing" \/ tree.result = "failed")
    /\ ~MayReplace => \A n \in Wanted1 : was[n] # "none" =>
         there[n] = was[n] \/ (tree.remote /\ was[n] = "empty" /\ there[n] = "none")

\* What _cleaned_on_failure says: a copy that fails removes "an empty target it
\* left behind".  A target it was not to replace, and that was there before it,
\* is none of its own; a remote one is removed all the same.
RemovesOnlyItsOwn ==
    ~MayReplace => \A n \in Wanted1 : was[n] # "none" => there[n] # "none"

\* What the local reader hands out is one generation of the file, in order
\* and without a gap, whatever it had to reopen (_RecoveringLocalReader).
NoSplice ==
    \A i \in 1 .. Len(local.got) : local.got[i] = <<local.got[1][1], i - 1>>

\* A mirrored tree holds what was selected and no file of it is put together
\* from two generations (copy_tree, _RecoveringLocalReader).
TreeSafe == TreeRight /\ NoSplice
=============================================================================
