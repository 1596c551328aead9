----------------------------- MODULE CopyProofs -----------------------------
(***************************************************************************)
(* Proofs about the copies: the third-party pull (ThirdParty), the tree    *)
(* copy and the local reader (CopyTree), and one copy() with its retries   *)
(* and replicas (CopyEngine), for every value of the constants.            *)
(***************************************************************************)
EXTENDS ThirdParty, CopyTree, CopyEngine, FiniteSetTheorems, SequenceTheorems, TLAPS

-----------------------------------------------------------------------------
(* The third-party pull.                                                   *)

PullPlaces == SetUp \cup {"keyed", "pull", "called off", "close", "verify", "copy", "follow", "done"}

TpRecord ==
    [pc : PullPlaces, placed : BOOLEAN, made : BOOLEAN, lite : BOOLEAN, dstHeld : BOOLEAN,
     srcHeld : BOOLEAN, dstLost : BOOLEAN, worker : {"none", "waiting", "ok", "failed"},
     signal : BOOLEAN, reports : Nat, cancelled : BOOLEAN, checked : BOOLEAN,
     result : {"running", "ok", "failed", "aborted"}]

DstFiles == {"none", "their empty", "their data", "empty", "part", "full", "wrong"}
DstRecord == [file : DstFiles, pull : {"none", "armed", "pulling", "done", "failed", "killed"}]

PullType ==
    /\ ask \in PullKinds
    /\ tp \in TpRecord
    /\ dst \in DstRecord
    /\ key \in BOOLEAN

\* Which of the two protocols a step belongs to.
OwnProtocol ==
    /\ ask.http => tp.pc \in {"copy", "follow", "verify", "done"} /\ ~tp.dstHeld /\ tp.worker = "none"
    /\ ~ask.http => tp.pc \notin {"copy", "follow"}

\* What is held at the two servers, step by step.
HeldAt ==
    /\ tp.pc \in SetUp \cup {"keyed"} => dst.pull \in {"none", "armed"} /\ tp.worker = "none"
    /\ tp.pc = "keyed" => key /\ tp.srcHeld
    /\ tp.pc \in {"pull", "called off", "close"} /\ ~tp.lite => key /\ tp.srcHeld
    /\ tp.pc \in {"verify", "copy", "follow", "done"} => ~tp.dstHeld /\ ~tp.srcHeld /\ ~key
    /\ tp.worker = "ok" /\ tp.pc # "done" => dst.pull = "done"
    /\ tp.pc = "close" => tp.worker = "ok"

\* What the file at the destination is, step by step.
FileAt ==
    /\ tp.pc \in {"place", "open"} => ~tp.made /\ dst.file = ask.there
    /\ ~ask.http /\ ~ask.overwrite /\ ask.there # "none"
         => tp.pc \in {"place", "open", "done"} /\ ~tp.made /\ dst.file = ask.there
    /\ dst.pull = "done" /\ tp.pc # "done" => dst.file \in {"full", "wrong"}
    /\ tp.pc = "verify" => dst.pull = "done"
    /\ tp.pc \notin {"verify", "done"} => dst.file # "wrong"
    /\ tp.result = "ok" => tp.pc = "done" /\ dst.file \in {"full", "wrong"}
    /\ tp.checked => tp.pc = "done" /\ dst.file = "full"

\* The inductive invariant behind PullSafe.
PullInv == PullType /\ OwnProtocol /\ HeldAt /\ FileAt

\* The fields of the two records, which is all an update of one of them needs.
LEMMA PullFields ==
    PullType => /\ DOMAIN tp = {"pc", "placed", "made", "lite", "dstHeld", "srcHeld", "dstLost", "worker",
                                "signal", "reports", "cancelled", "checked", "result"}
                /\ DOMAIN dst = {"file", "pull"}
  BY DEF PullType, TpRecord, DstRecord

\* discard_if_empty removes nothing but an empty file, and only this copy's.
LEMMA DiscardsEmpty ==
    ASSUME PullType, NEW mine \in BOOLEAN, NEW f \in Discarded(mine)
    PROVE  /\ f \in DstFiles
           /\ f = dst.file \/ (mine /\ dst.file \in {"empty", "their empty"} /\ f = "none")
  BY DEF PullType, DstRecord, DstFiles, Discarded

\* The way out of a copy that failed.
LEMMA GivesUpRight ==
    ASSUME PullInv, NEW why \in {"failed", "aborted"}, GiveUp(why), UNCHANGED ask,
           tp.pc \notin {"verify", "copy", "follow", "done"}
    PROVE  PullInv'
  <1>1. PICK f \in Discarded(tp.made) :
           dst' = [file |-> f, pull |-> IF dst.pull = "pulling" THEN "killed" ELSE dst.pull]
    BY DEF GiveUp
  <1>2. tp.made \in BOOLEAN
    BY DEF PullInv, PullType, TpRecord
  <1>3. /\ f \in DstFiles
        /\ f = dst.file \/ (tp.made /\ dst.file \in {"empty", "their empty"} /\ f = "none")
    BY <1>2, DiscardsEmpty DEF PullInv
  <1> USE PullFields, <1>1, <1>3 DEF PullInv, SetUp, GiveUp
  <1>4. PullType'
    BY ZenonT(60) DEF PullType, TpRecord, DstRecord, PullPlaces
  <1>5. OwnProtocol'
    BY DEF OwnProtocol
  <1>6. HeldAt'
    BY DEF HeldAt
  <1>7. FileAt'
    BY DEF FileAt, HeldAt
  <1> QED BY <1>4, <1>5, <1>6, <1>7

\* Every step of a pull keeps the inductive invariant.
LEMMA PullStep == PullInv /\ [TpNext]_tpVars => PullInv'
  <1> SUFFICES ASSUME PullInv, [TpNext]_tpVars PROVE PullInv'
    OBVIOUS
  <1> USE PullFields DEF PullInv, SetUp
  <1>1. CASE Place
    <2> USE <1>1 DEF Place
    <2>1. PullType'
      BY DEF PullType, TpRecord, PullPlaces
    <2>2. OwnProtocol'
      BY DEF OwnProtocol
    <2>3. HeldAt'
      BY DEF HeldAt, FileAt
    <2>4. FileAt'
      BY DEF FileAt, HeldAt
    <2> QED BY <2>1, <2>2, <2>3, <2>4
  <1>2. CASE OpenTarget
    <2> USE <1>2 DEF OpenTarget
    <2>1. PullType'
      BY DEF PullType, TpRecord, PullPlaces, DstRecord, DstFiles
    <2>2. OwnProtocol'
      BY DEF OwnProtocol
    <2>3. HeldAt'
      BY DEF HeldAt, FileAt
    <2>4. FileAt'
      BY DEF FileAt, HeldAt
    <2> QED BY <2>1, <2>2, <2>3, <2>4
  <1>3. CASE Settle
    <2> USE <1>3 DEF Settle
    <2>1. PullType'
      BY DEF PullType, TpRecord, PullPlaces
    <2>2. OwnProtocol'
      BY DEF OwnProtocol
    <2>3. HeldAt'
      BY DEF HeldAt, FileAt
    <2>4. FileAt'
      BY DEF FileAt, HeldAt
    <2> QED BY <2>1, <2>2, <2>3, <2>4
  <1>4. CASE Arm
    <2> USE <1>4 DEF Arm
    <2>1. PullType'
      BY DEF PullType, TpRecord, PullPlaces, DstRecord, DstFiles
    <2>2. OwnProtocol'
      BY DEF OwnProtocol
    <2>3. HeldAt'
      BY DEF HeldAt, FileAt
    <2>4. FileAt'
      BY DEF FileAt, HeldAt
    <2> QED BY <2>1, <2>2, <2>3, <2>4
  <1>5. CASE OpenKeyed
    <2> USE <1>5 DEF OpenKeyed
    <2>1. PullType'
      BY DEF PullType, TpRecord, PullPlaces
    <2>2. OwnProtocol'
      BY DEF OwnProtocol
    <2>3. HeldAt'
      BY DEF HeldAt, FileAt
    <2>4. FileAt'
      BY DEF FileAt, HeldAt
    <2> QED BY <2>1, <2>2, <2>3, <2>4
  <1>6. CASE SetUpDone
    <2> USE <1>6 DEF SetUpDone
    <2>1. PullType'
      BY DEF PullType, TpRecord, PullPlaces
    <2>2. OwnProtocol'
      BY DEF OwnProtocol
    <2>3. HeldAt'
      BY DEF HeldAt, FileAt
    <2>4. FileAt'
      BY DEF FileAt, HeldAt
    <2> QED BY <2>1, <2>2, <2>3, <2>4
  <1>7. CASE StartPull
    <2> USE <1>7 DEF StartPull
    <2>1. PullType'
      BY DEF PullType, TpRecord, PullPlaces, DstRecord, DstFiles
    <2>2. OwnProtocol'
      BY DEF OwnProtocol
    <2>3. HeldAt'
      BY DEF HeldAt, FileAt
    <2>4. FileAt'
      BY DEF FileAt, HeldAt
    <2> QED BY <2>1, <2>2, <2>3, <2>4
  <1>8. CASE SyncReturns
    <2> USE <1>8 DEF SyncReturns
    <2>1. PullType'
      BY DEF PullType, TpRecord, PullPlaces
    <2>2. OwnProtocol'
      BY DEF OwnProtocol
    <2>3. HeldAt'
      BY ZenonT(60) DEF HeldAt, FileAt
    <2>4. FileAt'
      BY DEF FileAt, HeldAt
    <2> QED BY <2>1, <2>2, <2>3, <2>4
  <1>9. CASE CallOff
    <2> USE <1>9 DEF CallOff
    <2>1. PullType'
      BY DEF PullType, TpRecord, PullPlaces
    <2>2. OwnProtocol'
      BY DEF OwnProtocol
    <2>3. HeldAt'
      BY DEF HeldAt, FileAt
    <2>4. FileAt'
      BY DEF FileAt, HeldAt
    <2> QED BY <2>1, <2>2, <2>3, <2>4
  <1>10. CASE AbortLink
    <2> USE <1>10 DEF AbortLink
    <2>1. PullType'
      BY DEF PullType, TpRecord, PullPlaces
    <2>2. OwnProtocol'
      BY DEF OwnProtocol
    <2>3. HeldAt'
      BY DEF HeldAt, FileAt
    <2>4. FileAt'
      BY DEF FileAt, HeldAt
    <2> QED BY <2>1, <2>2, <2>3, <2>4
  <1>11. CASE Verify
    <2> USE <1>11 DEF Verify
    <2>1. PullType'
      BY ZenonT(60) DEF PullType, TpRecord, PullPlaces, DstRecord, DstFiles
    <2>2. OwnProtocol'
      BY DEF OwnProtocol
    <2>3. HeldAt'
      BY DEF HeldAt, FileAt
    <2>4. FileAt'
      BY DEF FileAt, HeldAt
    <2> QED BY <2>1, <2>2, <2>3, <2>4
  <1>12. CASE Report
    <2> USE <1>12 DEF Report
    <2>0. tp.reports + 1 \in Nat
      BY DEF PullType, TpRecord
    <2>1. PullType'
      BY <2>0 DEF PullType, TpRecord, PullPlaces
    <2>2. OwnProtocol'
      BY DEF OwnProtocol
    <2>3. HeldAt'
      BY DEF HeldAt, FileAt
    <2>4. FileAt'
      BY DEF FileAt, HeldAt
    <2> QED BY <2>1, <2>2, <2>3, <2>4
  <1>13. CASE Heed
    <2> USE <1>13 DEF Heed
    <2>1. PullType'
      BY DEF PullType, DstRecord, DstFiles
    <2>2. OwnProtocol'
      BY DEF OwnProtocol
    <2>3. HeldAt'
      BY DEF HeldAt, FileAt
    <2>4. FileAt'
      BY DEF FileAt, HeldAt
    <2> QED BY <2>1, <2>2, <2>3, <2>4
  <1>14. CASE FalseSuccess
    <2> USE <1>14 DEF FalseSuccess
    <2>1. PullType'
      BY DEF PullType, DstRecord, DstFiles
    <2>2. OwnProtocol'
      BY DEF OwnProtocol
    <2>3. HeldAt'
      BY DEF HeldAt, FileAt
    <2>4. FileAt'
      BY DEF FileAt, HeldAt
    <2> QED BY <2>1, <2>2, <2>3, <2>4
  <1>15. CASE Cancels
    <2> USE <1>15 DEF Cancels
    <2>1. PullType'
      BY DEF PullType, TpRecord, PullPlaces
    <2>2. OwnProtocol'
      BY DEF OwnProtocol
    <2>3. HeldAt'
      BY DEF HeldAt, FileAt
    <2>4. FileAt'
      BY DEF FileAt, HeldAt
    <2> QED BY <2>1, <2>2, <2>3, <2>4
  <1>16. CASE UNCHANGED tpVars
    <2> USE <1>16 DEF tpVars
    <2>1. PullType'
      BY DEF PullType
    <2>2. OwnProtocol'
      BY DEF OwnProtocol
    <2>3. HeldAt'
      BY DEF HeldAt, FileAt
    <2>4. FileAt'
      BY DEF FileAt, HeldAt
    <2> QED BY <2>1, <2>2, <2>3, <2>4
  <1>17. CASE SetUpStopped
    BY <1>17, GivesUpRight DEF SetUpStopped
  <1>18. CASE SetUpFails
    BY <1>18, GivesUpRight DEF SetUpFails
  <1>19. CASE CalledOff
    BY <1>19, GivesUpRight DEF CalledOff
  <1>20. CASE PullOver
    <2> SUFFICES ASSUME tp.pc = "pull", tp.worker = "ok", tp' = [tp EXCEPT !.pc = "close"],
                        UNCHANGED <<ask, dst, key>>
                 PROVE  PullInv'
      BY <1>20, GivesUpRight DEF PullOver
    <2>1. PullType'
      BY DEF PullType, TpRecord, PullPlaces
    <2>2. OwnProtocol'
      BY DEF OwnProtocol
    <2>3. HeldAt'
      BY DEF HeldAt, FileAt
    <2>4. FileAt'
      BY DEF FileAt, HeldAt
    <2> QED BY <2>1, <2>2, <2>3, <2>4
  <1>21. CASE CloseBoth
    <2> PICK ok \in BOOLEAN :
          /\ tp' = [tp EXCEPT !.pc = IF ok THEN "verify" ELSE "done", !.dstHeld = FALSE,
                              !.srcHeld = FALSE, !.result = IF ok THEN "running" ELSE "failed"]
          /\ \E f \in IF ok THEN {dst.file} ELSE Discarded(TRUE) : dst' = [dst EXCEPT !.file = f]
      BY <1>21 DEF CloseBoth
    <2> PICK f \in DstFiles : /\ f = dst.file \/ (~ok /\ dst.file \in {"empty", "their empty"} /\ f = "none")
                             /\ dst' = [dst EXCEPT !.file = f]
      BY DiscardsEmpty DEF PullType, DstRecord
    <2> tp.pc = "close" /\ key' = FALSE /\ ask' = ask
      BY <1>21 DEF CloseBoth
    <2>1. PullType'
      BY ZenonT(60) DEF PullType, TpRecord, PullPlaces, DstRecord, DstFiles
    <2>2. OwnProtocol'
      BY DEF OwnProtocol
    <2>3. HeldAt'
      BY DEF HeldAt, FileAt
    <2>4. FileAt'
      BY DEF FileAt, HeldAt
    <2> QED BY <2>1, <2>2, <2>3, <2>4
  <1>22. CASE Copy
    <2>0. tp.pc = "copy" /\ ask' = ask /\ key' = key
      BY <1>22 DEF Copy
    <2>a. CASE tp' = [tp EXCEPT !.pc = "follow"] /\ dst' = [file |-> "empty", pull |-> "pulling"]
      <3> USE <2>0, <2>a
      <3>1. PullType'
        BY DEF PullType, TpRecord, PullPlaces, DstRecord, DstFiles
      <3>2. OwnProtocol'
        BY DEF OwnProtocol
      <3>3. HeldAt'
        BY DEF HeldAt, FileAt, OwnProtocol
      <3>4. FileAt'
        BY DEF FileAt, HeldAt
      <3> QED BY <3>1, <3>2, <3>3, <3>4
    <2>b. ASSUME NEW f \in DstFiles, dst' = [dst EXCEPT !.file = f],
                 tp' = [tp EXCEPT !.pc = "done", !.result = "failed"]
          PROVE  PullInv'
      <3> USE <2>0, <2>b
      <3>1. PullType'
        BY DEF PullType, TpRecord, PullPlaces, DstRecord, DstFiles
      <3>2. OwnProtocol'
        BY DEF OwnProtocol
      <3>3. HeldAt'
        BY DEF HeldAt, FileAt
      <3>4. FileAt'
        BY DEF FileAt, HeldAt
      <3> QED BY <3>1, <3>2, <3>3, <3>4
    <2>c. dst.file \in DstFiles /\ (dst' = dst => dst' = [dst EXCEPT !.file = dst.file])
      BY DEF PullType, DstRecord
    <2>d. Discarded(TRUE) \cup (IF dst.file = "none" THEN {"none", "empty"} ELSE {}) \subseteq DstFiles
      BY DiscardsEmpty DEF DstFiles
    <2> QED BY <1>22, <2>a, <2>b, <2>c, <2>d DEF Copy
  <1>23. CASE Markers
    <2>0. tp.pc = "follow" /\ ask' = ask /\ key' = key
      BY <1>23 DEF Markers
    <2>a. CASE tp' = [tp EXCEPT !.pc = "verify"] /\ dst' = [file |-> "full", pull |-> "done"]
      <3> USE <2>0, <2>a
      <3>1. PullType'
        BY DEF PullType, TpRecord, PullPlaces, DstRecord, DstFiles
      <3>2. OwnProtocol'
        BY DEF OwnProtocol
      <3>3. HeldAt'
        BY DEF HeldAt, FileAt, OwnProtocol
      <3>4. FileAt'
        BY DEF FileAt, HeldAt
      <3> QED BY <3>1, <3>2, <3>3, <3>4
    <2>b. ASSUME NEW f \in {"none", "empty", "part"}, dst' = [file |-> f, pull |-> "failed"],
                 tp' = [tp EXCEPT !.pc = "done", !.result = IF tp.cancelled THEN "aborted" ELSE "failed"]
          PROVE  PullInv'
      <3> USE <2>0, <2>b
      <3>1. PullType'
        BY DEF PullType, TpRecord, PullPlaces, DstRecord, DstFiles
      <3>2. OwnProtocol'
        BY DEF OwnProtocol
      <3>3. HeldAt'
        BY DEF HeldAt, FileAt
      <3>4. FileAt'
        BY DEF FileAt, HeldAt
      <3> QED BY <3>1, <3>2, <3>3, <3>4
    <2> QED BY <1>23, <2>a, <2>b DEF Markers
  <1>24. CASE Pulls1
    <2> PICK f \in {"part", "full", dst.file}, p \in {"done", "failed"} :
          /\ dst' = [file |-> f, pull |-> p]
          /\ f = dst.file => p = "failed" \/ dst.file = "full"
          /\ p = "done" => f = "full"
      <3>1. dst = [file |-> dst.file, pull |-> dst.pull]
        BY DEF PullType, DstRecord
      <3>2. [dst EXCEPT !.pull = "failed"] = [file |-> dst.file, pull |-> "failed"]
        BY <3>1
      <3> QED BY <1>24, <3>2 DEF Pulls1
    <2> /\ dst.pull = "pulling" /\ tp.dstHeld /\ ask' = ask /\ tp' = tp /\ key' = key
        /\ dst.file \in DstFiles
      BY <1>24 DEF Pulls1, PullType, DstRecord
    <2>1. PullType'
      BY DEF PullType, DstRecord, DstFiles
    <2>2. OwnProtocol'
      BY DEF OwnProtocol
    <2>3. HeldAt'
      BY DEF HeldAt, FileAt
    <2>4. FileAt'
      BY DEF FileAt, HeldAt
    <2> QED BY <2>1, <2>2, <2>3, <2>4
  <1> QED
    BY <1>1, <1>2, <1>3, <1>4, <1>5, <1>6, <1>7, <1>8, <1>9, <1>10, <1>11, <1>12, <1>13, <1>14, <1>15, <1>16, <1>17, <1>18, <1>19, <1>20, <1>21, <1>22, <1>23, <1>24
    DEF TpNext, Steps, Rendezvous

\* While the destination pulls, the source's open and with it the key is held,
\* nothing is left open behind a call that returned, and what the caller is
\* told is what is left at the destination (copy/tpc.py, http/tpc.py).
THEOREM PullIsSafe == TpSpec => []PullSafe
  <1>1. TpInit => PullInv
    <2> SUFFICES ASSUME TpInit PROVE PullInv
      OBVIOUS
    <2>1. ask \in PullKinds
      BY PullsAssumption DEF TpInit
    <2>2. ask.there \in DstFiles \ {"wrong"} /\ ask.http \in BOOLEAN
      BY <2>1 DEF PullKinds, DstFiles
    <2>3. PullType
      BY <2>1, <2>2 DEF TpInit, PullType, TpRecord, DstRecord, PullPlaces, SetUp
    <2>4. /\ tp.pc \in {"copy", "place"} /\ (tp.pc = "copy" <=> ask.http) /\ tp.made = FALSE
          /\ tp.worker = "none" /\ tp.dstHeld = FALSE /\ tp.srcHeld = FALSE /\ key = FALSE
          /\ dst.pull = "none" /\ dst.file = ask.there /\ tp.checked = FALSE /\ tp.result = "running"
      BY <2>2 DEF TpInit
    <2>5. OwnProtocol /\ HeldAt /\ FileAt
      BY <2>2, <2>4 DEF OwnProtocol, HeldAt, FileAt, SetUp
    <2> QED BY <2>3, <2>5 DEF PullInv
  <1>2. PullInv => PullSafe
    <2> SUFFICES ASSUME PullInv PROVE PullSafe
      OBVIOUS
    <2>1. tp.pc \in PullPlaces
      BY DEF PullInv, PullType, TpRecord
    <2>2. KeyHeld
      BY <2>1 DEF PullInv, PullPlaces, SetUp, OwnProtocol, HeldAt, FileAt, KeyHeld
    <2>3. TargetHonest
      BY DEF PullInv, FileAt, TargetHonest
    <2> QED BY <2>2, <2>3 DEF PullSafe
  <1> QED BY <1>1, <1>2, PullStep, PTL DEF TpSpec

-----------------------------------------------------------------------------
(* The tree copy.                                                          *)

TreeRecord ==
    [walked : SUBSET Names, excluded : SUBSET Names, sync : {"no", "size", "mtime", "checksum"},
     delete : BOOLEAN, dry : BOOLEAN, overwrite : BOOLEAN, remote : BOOLEAN, pc : {"copy", "failing", "prune", "done"},
     dealt : SUBSET Names, busy : SUBSET Names, copied : SUBSET Names,
     result : {"running", "ok", "failed"}]

TreeType ==
    /\ tree \in TreeRecord
    /\ there \in [Names -> Held]
    /\ was \in [Names -> Held]

\* A file is with a worker or dealt with, never both, and nobody works once
\* the copying is over.
Dealing ==
    /\ tree.dealt \subseteq Wanted1 /\ tree.busy \subseteq Wanted1
    /\ tree.dealt \cap tree.busy = {}
    /\ tree.pc \in {"prune", "done"} => tree.busy = {}
    /\ tree.pc = "prune" => tree.dealt = Wanted1 /\ tree.delete
    /\ tree.result = "ok" => tree.pc = "done" /\ tree.dealt = Wanted1

\* What no copy was tried of is as the call found it.
Untouched ==
    /\ \A n \in tree.busy : there[n] = was[n]
    /\ tree.pc = "copy" => \A n \in Wanted1 \ tree.dealt : there[n] = was[n]
    /\ tree.pc # "done" => tree.result = "running"

\* What has been dealt with is as the mode asks.
DealtRight == ~tree.dry => \A n \in tree.dealt : UpToDate(n) \/ there[n] = "same"

\* The inductive invariant behind TreeRight.
TreeInv == TreeType /\ Dealing /\ Untouched /\ DealtRight /\ TreeRight

\* The arguments of the call stay what they were.
SameCall ==
    /\ tree'.walked = tree.walked /\ tree'.excluded = tree.excluded /\ tree'.sync = tree.sync
    /\ tree'.delete = tree.delete /\ tree'.dry = tree.dry /\ tree'.overwrite = tree.overwrite
    /\ tree'.remote = tree.remote

LEMMA TreeFields ==
    TreeType => DOMAIN tree = {"walked", "excluded", "sync", "delete", "dry", "overwrite", "remote", "pc", "dealt",
                               "busy", "copied", "result"}
  BY DEF TreeType, TreeRecord

\* Every step of a tree copy keeps the inductive invariant.
LEMMA TreeStep == TreeInv /\ [TreeNext]_treeVars => TreeInv'
  <1> SUFFICES ASSUME TreeInv, [TreeNext]_treeVars PROVE TreeInv'
    OBVIOUS
  <1> USE TreeFields DEF TreeInv
  <1>1. ASSUME NEW n \in Wanted1 \ (tree.dealt \cup tree.busy), tree.pc = "copy",
               tree' = [tree EXCEPT !.busy = @ \cup {n}], UNCHANGED <<there, was>>
        PROVE  TreeInv'
    <2> USE <1>1
    <2>1. SameCall
      BY DEF SameCall
    <2>2. TreeType'
      BY DEF TreeType, TreeRecord, Wanted1
    <2>3. Dealing'
      BY <2>1 DEF Dealing, Wanted1, SameCall
    <2>4. DealtRight'
      BY <2>1 DEF DealtRight, UpToDate, SameCall
    <2>5. TreeRight'
      BY <2>1 DEF TreeRight, Dealing, UpToDate, Wanted1, MayReplace, SameCall
    <2>6. Untouched'
      BY <2>1 DEF Untouched, Dealing, UpToDate, Wanted1, SameCall, TreeType, TreeRecord
    <2> QED BY <2>2, <2>3, <2>4, <2>5, <2>6
  <1>2. CASE TakeFile
    BY <1>1, <1>2 DEF TakeFile
  <1>3. ASSUME NEW n \in tree.busy, SkipFile(n), UNCHANGED was
        PROVE  TreeInv'
    <2> USE <1>3 DEF SkipFile
    <2>1. SameCall
      BY DEF SameCall
    <2>2. TreeType'
      BY DEF TreeType, TreeRecord, Wanted1
    <2>3. Dealing'
      BY <2>1 DEF Dealing, Wanted1, SameCall
    <2>4. DealtRight'
      BY <2>1 DEF DealtRight, UpToDate, SameCall
    <2>5. TreeRight'
      <3>1. there[n] # "none" /\ n \in Names
        BY DEF UpToDate, TreeType, TreeRecord
      <3>2. Wanted1' = Wanted1 /\ MayReplace' = MayReplace /\ tree'.pc = tree.pc /\ tree'.result = tree.result
            /\ tree'.dealt = tree.dealt \cup {n} /\ tree.dealt # Wanted1 /\ tree.result # "ok"
        BY <2>1 DEF Wanted1, MayReplace, SameCall, Dealing
      <3> QED BY <2>1, <3>1, <3>2 DEF TreeRight, SameCall
    <2>6. Untouched'
      BY <2>1 DEF Untouched, Dealing, UpToDate, Wanted1, SameCall, TreeType, TreeRecord
    <2> QED BY <2>2, <2>3, <2>4, <2>5, <2>6
  <1>4. ASSUME NEW n \in tree.busy, CopyFile(n), tree.dry, UNCHANGED was
        PROVE  TreeInv'
    <2> USE <1>4 DEF CopyFile
    <2>0. n \in Names
      BY DEF TreeType, TreeRecord
    <2> USE <2>0
    <2>1. SameCall
      BY DEF SameCall
    <2>2. TreeType'
      BY DEF TreeType, TreeRecord, Held
    <2>3. Dealing'
      BY <2>1 DEF Dealing, Wanted1, SameCall
    <2>4. DealtRight'
      BY <2>1 DEF DealtRight, Dealing, UpToDate, SameCall, TreeType
    <2>5. TreeRight'
      BY <2>1 DEF TreeRight, Dealing, DealtRight, UpToDate, Wanted1, MayReplace, SameCall, TreeType
    <2>6. Untouched'
      BY <2>1 DEF Untouched, Dealing, UpToDate, Wanted1, SameCall, TreeType, TreeRecord
    <2> QED BY <2>2, <2>3, <2>4, <2>5, <2>6
  <1>5. ASSUME NEW n \in tree.busy, CopyFile(n), ~tree.dry, UNCHANGED was
        PROVE  TreeInv'
    <2> USE <1>5 DEF CopyFile
    <2>0. n \in Wanted1 /\ n \notin tree.dealt /\ n \in Names /\ tree.dealt \subseteq Names
      BY DEF Dealing, TreeType, TreeRecord
    <2> USE <2>0
    <2>1. SameCall
      BY DEF SameCall
    <2>2. TreeType'
      BY DEF TreeType, TreeRecord, Held
    <2>3. Dealing'
      BY <2>1 DEF Dealing, Wanted1, SameCall
    <2>4. there'[n] = "same" /\ \A m \in Names \ {n} : there'[m] = there[m]
      BY DEF TreeType
    <2>5. \A m \in Names \ {n} : UpToDate(m)' = UpToDate(m)
      BY <2>1, <2>4 DEF UpToDate, SameCall
    <2>6. DealtRight'
      BY <2>1, <2>4, <2>5 DEF DealtRight, SameCall
    <2>7. tree'.result # "ok" /\ Wanted1' = Wanted1 /\ MayReplace' = MayReplace
      BY <2>1 DEF Dealing, Wanted1, MayReplace, SameCall
    <2>8. tree.dealt = Wanted1 => FALSE
      OBVIOUS
    <2>9. there[n] = was[n] /\ tree'.pc = tree.pc /\ tree'.dealt = tree.dealt \cup {n}
      BY DEF Untouched
    <2>10. TreeRight'
      BY <2>1, <2>4, <2>7, <2>8, <2>9 DEF TreeRight, SameCall, Held, TreeType
    <2>11. Untouched'
      BY <2>1, <2>4, <2>7, <2>9 DEF Untouched, SameCall, Wanted1, TreeType, TreeRecord
    <2> QED BY <2>2, <2>3, <2>6, <2>10, <2>11
  <1>6. ASSUME NEW n \in tree.busy, FileFails(n), UNCHANGED was
        PROVE  TreeInv'
    <2>0. n \in Wanted1 /\ n \notin tree.dealt /\ n \in Names /\ tree.dealt \subseteq Names /\ there[n] = was[n]
      BY <1>6 DEF Dealing, TreeType, TreeRecord, Untouched
    <2>1. /\ ~tree.dry /\ ~UpToDate(n) /\ tree' = [tree EXCEPT !.busy = @ \ {n}, !.pc = "failing"] /\ was' = was
          /\ tree' \in TreeRecord
      BY <1>6 DEF FileFails, TreeType, TreeRecord
    <2>2. SameCall /\ tree'.pc = "failing" /\ tree'.dealt = tree.dealt /\ tree'.busy = tree.busy \ {n}
          /\ tree'.result = tree.result
      BY <2>1 DEF SameCall
    <2>3. PICK now \in Held : /\ there' = [there EXCEPT ![n] = now]
                              /\ now = "none" => there[n] = "none" \/ tree.remote
                              /\ ~MayReplace /\ there[n] # "none" =>
                                    now = there[n] \/ (now = "none" /\ there[n] = "empty" /\ tree.remote)
      <3>1. there[n] \in Held
        BY <2>0 DEF TreeType
      <3> QED BY <1>6, <2>0, <3>1 DEF FileFails, LeftOver, MayClean, Held
    <2>4. there'[n] = now /\ \A m \in Names \ {n} : there'[m] = there[m]
      BY <2>0, <2>3 DEF TreeType
    <2>5. TreeType'
      BY <2>0, <2>1, <2>3 DEF TreeType
    <2>6. tree.result = "running" /\ tree.dealt # Wanted1 /\ Wanted1' = Wanted1 /\ MayReplace' = MayReplace
      BY <1>6, <2>0, <2>2 DEF Dealing, Wanted1, MayReplace, SameCall, Untouched, TreeType, TreeRecord
    <2>7. Dealing'
      BY <1>6, <2>2, <2>6 DEF Dealing
    <2>8. \A m \in Names \ {n} : UpToDate(m)' = UpToDate(m)
      BY <2>2, <2>4 DEF UpToDate, SameCall
    <2>9. DealtRight'
      BY <2>0, <2>2, <2>4, <2>8 DEF DealtRight, SameCall
    <2>10. Untouched'
      <3>1. ASSUME NEW m \in tree'.busy PROVE there'[m] = was'[m]
        BY <2>1, <2>2, <2>4, <3>1 DEF Untouched, TreeType, TreeRecord
      <3> QED BY <2>2, <2>6, <3>1 DEF Untouched
    <2>11. TreeRight'
      <3>1. ASSUME NEW m \in Names, was[m] # "none", there'[m] = "none"
            PROVE  tree.remote /\ m \in Wanted1 \ tree.dealt
        <4>1. CASE m = n
          BY <2>0, <2>3, <2>4, <3>1, <4>1
        <4>2. CASE m # n
          BY <2>4, <2>6, <3>1, <4>2 DEF TreeRight
        <4> QED BY <4>1, <4>2
      <3>2. ASSUME ~MayReplace, NEW m \in Wanted1, was[m] # "none"
            PROVE  there'[m] = was[m] \/ (tree.remote /\ was[m] = "empty" /\ there'[m] = "none")
        <4>0. m \in Names
          BY DEF Wanted1, TreeType, TreeRecord
        <4>1. CASE m = n
          BY <2>0, <2>3, <2>4, <3>2, <4>1
        <4>2. CASE m # n
          BY <2>4, <3>2, <4>0, <4>2 DEF TreeRight
        <4> QED BY <4>1, <4>2
      <3> QED BY <2>1, <2>2, <2>6, <3>1, <3>2 DEF TreeRight, SameCall
    <2> QED BY <2>5, <2>7, <2>9, <2>10, <2>11
  <1>8. CASE MoveFile
    <2>1. PICK n \in tree.busy : (SkipFile(n) \/ CopyFile(n) \/ FileFails(n)) /\ UNCHANGED was
      BY <1>8 DEF MoveFile
    <2> QED BY <2>1, <1>3, <1>4, <1>5, <1>6
  <1>9. CASE TreeFails
    <2> USE <1>9 DEF TreeFails
    <2>1. SameCall
      BY DEF SameCall
    <2>2. TreeType'
      BY DEF TreeType, TreeRecord, Held
    <2>3. Dealing'
      BY <2>1 DEF Dealing, Wanted1, SameCall
    <2>4. DealtRight'
      BY <2>1 DEF DealtRight, Dealing, UpToDate, SameCall, TreeType
    <2>5. TreeRight'
      BY <2>1 DEF TreeRight, Dealing, DealtRight, UpToDate, Wanted1, MayReplace, SameCall, TreeType
    <2>6. Untouched'
      BY <2>1 DEF Untouched, Dealing, UpToDate, Wanted1, SameCall, TreeType, TreeRecord
    <2> QED BY <2>2, <2>3, <2>4, <2>5, <2>6
  <1>10. CASE CopiesDone
    <2> USE <1>10 DEF CopiesDone
    <2>1. SameCall
      BY DEF SameCall
    <2>2. TreeType'
      BY DEF TreeType, TreeRecord, Held
    <2>3. Dealing'
      BY <2>1 DEF Dealing, Wanted1, SameCall
    <2>4. DealtRight'
      BY <2>1 DEF DealtRight, Dealing, UpToDate, SameCall, TreeType
    <2>5. TreeRight'
      BY <2>1 DEF TreeRight, Dealing, DealtRight, UpToDate, Wanted1, MayReplace, SameCall, TreeType
    <2>6. Untouched'
      BY <2>1 DEF Untouched, Dealing, UpToDate, Wanted1, SameCall, TreeType, TreeRecord
    <2> QED BY <2>2, <2>3, <2>4, <2>5, <2>6
  <1>11. CASE Prune
    <2>1. ASSUME NEW n \in Prunable, there' = [there EXCEPT ![n] = "none"], ~tree.dry,
                 UNCHANGED <<tree, was>>, tree.pc = "prune"
          PROVE  TreeInv'
      <3> USE <2>1
      <3>0. n \notin Wanted1 /\ n \in Names /\ tree.dealt = Wanted1 /\ Wanted1 \subseteq Names
        BY DEF Dealing, TreeType, TreeRecord, Prunable, Wanted1
      <3> USE <3>0
      <3>1. SameCall
        BY DEF SameCall
      <3>2. TreeType'
        BY DEF TreeType, TreeRecord, Held
      <3>3. Dealing'
        BY <3>1 DEF Dealing, Wanted1, SameCall
      <3>4. there'[n] = "none" /\ \A m \in Names \ {n} : there'[m] = there[m]
        BY DEF TreeType
      <3>5. \A m \in Names \ {n} : UpToDate(m)' = UpToDate(m)
        BY <3>1, <3>4 DEF UpToDate, SameCall
      <3>6. DealtRight'
        BY <3>1, <3>4, <3>5 DEF DealtRight, SameCall
      <3>7. tree'.result # "ok" /\ Wanted1' = Wanted1 /\ MayReplace' = MayReplace /\ tree.delete
        BY <3>1 DEF Dealing, Wanted1, MayReplace, SameCall
      <3>8. TreeRight'
        BY <3>1, <3>4, <3>7 DEF TreeRight, SameCall
      <3>9. Untouched'
        BY <3>1, <3>4 DEF Untouched, Dealing, SameCall, Wanted1
      <3> QED BY <3>2, <3>3, <3>6, <3>8, <3>9
    <2>2. ASSUME tree' = [tree EXCEPT !.pc = "done", !.result = "failed"], tree.pc = "prune",
                 UNCHANGED <<there, was>>
          PROVE  TreeInv'
      <3> USE <2>2
      <3>1. SameCall
        BY DEF SameCall
      <3>2. TreeType'
        BY DEF TreeType, TreeRecord, Held
      <3>3. Dealing'
        BY <3>1 DEF Dealing, Wanted1, SameCall
      <3>4. DealtRight'
        BY <3>1 DEF DealtRight, Dealing, UpToDate, SameCall, TreeType
      <3>5. TreeRight'
        BY <3>1 DEF TreeRight, Dealing, DealtRight, UpToDate, Wanted1, MayReplace, SameCall, TreeType
      <3>6. Untouched'
        BY <3>1 DEF Untouched, Dealing, UpToDate, Wanted1, SameCall, TreeType, TreeRecord
      <3> QED BY <3>2, <3>3, <3>4, <3>5, <3>6
    <2>3. ASSUME tree' = [tree EXCEPT !.pc = "done", !.result = "ok"], tree.pc = "prune",
                 Prunable = {} \/ tree.dry, UNCHANGED <<there, was>>
          PROVE  TreeInv'
      <3> USE <2>3 DEF Prunable
      <3>1. SameCall
        BY DEF SameCall
      <3>2. TreeType'
        BY DEF TreeType, TreeRecord, Held
      <3>3. Dealing'
        BY <3>1 DEF Dealing, Wanted1, SameCall
      <3>4. DealtRight'
        BY <3>1 DEF DealtRight, Dealing, UpToDate, SameCall, TreeType
      <3>5. TreeRight'
        BY <3>1 DEF TreeRight, Dealing, DealtRight, UpToDate, Wanted1, MayReplace, SameCall, TreeType
      <3>6. Untouched'
        BY <3>1 DEF Untouched, Dealing, UpToDate, Wanted1, SameCall, TreeType, TreeRecord
      <3> QED BY <3>2, <3>3, <3>4, <3>5, <3>6
    <2> QED BY <1>11, <2>1, <2>2, <2>3 DEF Prune
  <1>12. CASE UNCHANGED treeVars
    BY <1>12 DEF treeVars, TreeType, Dealing, Untouched, DealtRight, TreeRight, UpToDate, Wanted1, MayReplace
  <1> QED BY <1>2, <1>8, <1>9, <1>10, <1>11, <1>12 DEF TreeNext

\* Whatever the tree, its mode and how its files fail, a copy that returns has
\* mirrored what it selected, a dry run has touched nothing, and what was
\* removed was pruned after every selected file was dealt with, or was the
\* empty remote target of a copy that failed (copy_tree, _prune,
\* _discard_empty_target).
THEOREM TreeIsRight == TreeSpec => []TreeRight
  <1>1. TreeInit => TreeInv
    <2> SUFFICES ASSUME TreeInit PROVE TreeInv
      OBVIOUS
    <2>1. TreeType
      BY DEF TreeInit, TreeType, TreeRecord
    <2>2. /\ tree.dealt = {} /\ tree.busy = {} /\ tree.pc = "copy" /\ tree.result = "running"
          /\ was = there
      BY DEF TreeInit
    <2> QED BY <2>1, <2>2 DEF TreeInv, Dealing, Untouched, DealtRight, TreeRight
  <1>2. TreeInv => TreeRight
    BY DEF TreeInv
  <1> QED BY <1>1, <1>2, TreeStep, PTL DEF TreeSpec

-----------------------------------------------------------------------------
(* CopyTree: the recovering local reader.                                  *)

LocalRecord ==
    [disk : Nat, open : Nat, same : Nat, pos : Nat, tries : Nat,
     pc : {"opening", "reading", "reopen", "done", "failed"}, got : Seq(Nat \X Nat)]

\* What has been read is the generation the reader opened first, chunk by
\* chunk, and its handle is on that generation whenever it reads.
Reads ==
    /\ local.pos = Len(local.got)
    /\ \A i \in 1 .. Len(local.got) : local.got[i] = <<local.same, i - 1>>
    /\ local.pc = "opening" => local.got = << >>
    /\ local.pc = "reading" => local.open = local.same

\* The inductive invariant behind NoSplice.
LocalInv == local \in LocalRecord /\ Reads

LEMMA LocalFields ==
    local \in LocalRecord => DOMAIN local = {"disk", "open", "same", "pos", "tries", "pc", "got"}
  BY DEF LocalRecord

\* Every step of the local reader, and a file put in its file's place, keep
\* the inductive invariant.
LEMMA LocalStep == LocalInv /\ [LocalNext]_localVars => LocalInv'
  <1> SUFFICES ASSUME LocalInv, [LocalNext]_localVars PROVE LocalInv'
    OBVIOUS
  <1> USE LocalFields DEF LocalInv
  <1>1. /\ local.disk \in Nat /\ local.open \in Nat /\ local.same \in Nat /\ local.pos \in Nat
        /\ local.tries \in Nat /\ local.tries + 1 \in Nat /\ local.got \in Seq(Nat \X Nat)
        /\ local.pos + 1 \in Nat
    BY DEF LocalRecord
  <1>2. CASE OpenLocal
    <2>1. (local \in LocalRecord)'
      BY <1>1, <1>2 DEF OpenLocal, LocalRecord
    <2>2. Reads'
      BY <1>1, <1>2 DEF OpenLocal, Reads
    <2> QED BY <2>1, <2>2
  <1>3. ASSUME local.pc = "reading",
               local' = [local EXCEPT !.got = Append(@, <<local.open, local.pos>>), !.pos = @ + 1, !.tries = 0]
        PROVE  LocalInv'
    <2>1. Append(local.got, <<local.open, local.pos>>) \in Seq(Nat \X Nat)
      BY <1>1
    <2>2. (local \in LocalRecord)'
      BY <1>1, <1>3, <2>1 DEF LocalRecord
    <2>3. /\ local'.got = Append(local.got, <<local.same, local.pos>>) /\ local'.pos = local.pos + 1
          /\ local'.same = local.same /\ local'.pc = "reading" /\ local'.open = local.same
      BY <1>3 DEF Reads
    <2>4. Reads'
      BY <1>1, <2>1, <2>3, SMTT(40) DEF Reads
    <2> QED BY <2>2, <2>4
  <1>4. ASSUME local.pc = "reading", local' = [local EXCEPT !.pc = "done"] PROVE LocalInv'
    BY <1>1, <1>4 DEF LocalRecord, Reads
  <1>5. CASE ReadLocal
    BY <1>3, <1>4, <1>5 DEF ReadLocal
  <1>6. CASE GoesStale
    <2>1. (local \in LocalRecord)'
      BY <1>1, <1>6 DEF GoesStale, LocalRecord
    <2>2. Reads'
      BY <1>1, <1>6 DEF GoesStale, Reads
    <2> QED BY <2>1, <2>2
  <1>7. CASE ReopenLocal
    <2>1. (local \in LocalRecord)'
      BY <1>1, <1>7 DEF ReopenLocal, LocalRecord
    <2>2. Reads'
      BY <1>1, <1>7 DEF ReopenLocal, Reads
    <2> QED BY <2>1, <2>2
  <1>8. CASE Replaced
    <2>1. (local \in LocalRecord)'
      BY <1>1, <1>8 DEF Replaced, LocalRecord
    <2>2. Reads'
      BY <1>1, <1>8 DEF Replaced, Reads
    <2> QED BY <2>1, <2>2
  <1>9. CASE UNCHANGED localVars
    BY <1>9 DEF localVars, Reads
  <1> QED BY <1>2, <1>5, <1>6, <1>7, <1>8, <1>9 DEF LocalNext

\* However often a local source goes stale, and whatever replaces it between
\* two reads, what is handed out is one generation of the file, without a gap
\* (_RecoveringLocalReader).
THEOREM LocalIsWhole == LocalSpec => []NoSplice
  <1>1. LocalInit => LocalInv
    BY DEF LocalInit, LocalInv, LocalRecord, Reads
  <1>2. LocalInv => NoSplice
    <2> SUFFICES ASSUME LocalInv, NEW i \in 1 .. Len(local.got)
                 PROVE  local.got[i] = <<local.got[1][1], i - 1>>
      BY DEF NoSplice
    <2>1. Len(local.got) \in Nat
      BY DEF LocalInv, LocalRecord
    <2>2. 1 \in 1 .. Len(local.got)
      BY <2>1
    <2>3. local.got[1] = <<local.same, 0>>
      BY <2>2 DEF LocalInv, Reads
    <2> QED BY <2>3 DEF LocalInv, Reads
  <1> QED BY <1>1, <1>2, LocalStep, PTL DEF LocalSpec

\* A tree copied by workers reading through such readers is mirrored right
\* and spliced nowhere.
THEOREM TreeIsSafe == TreeSpec /\ LocalSpec => []TreeSafe
  <1>1. TreeRight /\ NoSplice => TreeSafe
    BY DEF TreeSafe
  <1> QED BY <1>1, TreeIsRight, LocalIsWhole, PTL

-----------------------------------------------------------------------------
(* One copy().                                                             *)

Plans == {"none", "replicas", "resume", "stream", "bulk", "spread"}
Checks == {"none", "declared end", "declared stream", "ends", "first", "after"}
CopyPlaces == {"start", "plan", "reader", "writer", "move", "check", "remove", "done"}

CpRecord ==
    [pc : CopyPlaces, replica : Nat \ {0}, overwrite : BOOLEAN, resume : BOOLEAN, tries : Nat,
     plan : Plans, check : Checks, at : Nat, todo : SUBSET Nat, moved : Nat, staged : Nat,
     made : BOOLEAN, existed : BOOLEAN, twice : BOOLEAN, verified : BOOLEAN,
     result : {"running", "ok", "failed", "dry"}, gone : BOOLEAN]

FileRecord == [own : {"none", "ours", "theirs"}, data : Seq({"right", "old", "hole"})]

CopyType ==
    /\ job \in Asked
    /\ cp \in CpRecord
    /\ file \in FileRecord
    /\ other \in {"away", "coming", "made"}

\* What is another program's is empty or wrong, and what is not there is empty.
Theirs ==
    /\ file.own = "none" => file.data = <<>>
    /\ file.own = "theirs" => file.data \in {<<>>, <<"old">>}

\* The choices of this copy: who may overwrite, and when it continues a
\* partial target.
Chosen ==
    /\ cp.replica = 1 \/ cp.replica <= job.replicas
    /\ cp.replica = 1 => cp.overwrite = job.overwrite
    /\ cp.tries = 0 => cp.resume = job.resume
    /\ job.dst = "stream" => cp.tries = 0

Open == cp.pc \in {"reader", "writer", "move"}
Over == cp.pc \in {"check", "remove"} \/ (cp.pc = "done" /\ cp.result = "ok")

\* The plan that is followed.
Planned ==
    Open \/ Over =>
      /\ cp.plan # "none"
      /\ cp.plan = "resume" => cp.resume /\ cp.overwrite /\ Units > 0 /\ job.dst # "stream"
      /\ cp.plan # "resume" => cp.at = 0
      /\ job.dst \in {"http", "s3"} => cp.plan \in {"stream", "resume"}
      /\ cp.plan = "bulk" => job.dst \in {"local", "stream"}
      /\ cp.check \in {"first", "declared stream", "after"} => cp.plan # "resume"
      /\ Strict => cp.check # "none"

\* Nothing is counted twice, and with everything counted all but what is left
\* to do has landed.
Counted ==
    Open /\ cp.plan # "resume" =>
      /\ cp.todo \subseteq 0 .. Units - 1
      /\ Cardinality(cp.todo) + cp.moved <= Units
      /\ cp.pc # "move" => cp.todo = 0 .. Units - 1 /\ cp.moved = 0 /\ cp.staged = 0
      /\ cp.plan = "stream" \/ job.dst = "stream" => cp.todo \in {{}, cp.moved .. Units - 1}
      /\ job.dst \notin {"http", "s3"} => cp.staged = 0

Landed ==
    cp.pc = "move" /\ cp.plan # "resume" =>
      /\ job.dst \in {"local", "root"} =>
           /\ Len(file.data) <= Units
           /\ Cardinality(cp.todo) + cp.moved = Units =>
                \A u \in (0 .. Units - 1) \ cp.todo :
                   u < Len(file.data) /\ file.data[u + 1] = "right"
      /\ job.dst \in {"http", "s3"} => cp.staged = cp.moved

\* An open stream that only one replica has been copied to; only a pump that
\* took over from the bulk plane writes a beginning twice.
Streamed ==
    /\ cp.twice => job.dst = "stream" /\ cp.plan = "stream" /\ cp.pc \notin {"start", "plan"}
    /\ job.dst = "stream" /\ cp.replica = 1 /\ ~cp.twice =>
         /\ cp.pc \in {"start", "plan", "reader", "writer"} => file.data = <<>>
         /\ cp.pc = "move" =>
              Len(file.data) = cp.moved /\ \A i \in 1 .. cp.moved : file.data[i] = "right"

\* Whose the target is.
Owned ==
    /\ cp.pc \in {"move", "check", "remove"} /\ cp.plan # "resume" /\ job.dst \in {"local", "root"}
         => file.own = "ours"
    /\ cp.pc \in {"check", "remove"} /\ job.dst \in {"http", "s3"} => file.own = "ours"
    /\ cp.pc = "reader" /\ cp.plan = "bulk" /\ job.dst = "local" /\ ~cp.overwrite
         => file.own = "ours"
    /\ cp.pc \in {"reader", "move"} /\ cp.made => file.own = "ours"
    /\ cp.pc = "writer" => ~cp.made
    /\ Open /\ cp.made => cp.plan = "bulk"
    /\ cp.pc = "move" /\ cp.plan = "resume" => job.dst \in {"local", "root"}

\* What a transfer that is over left behind.
Vouched ==
    /\ Over /\ cp.plan # "resume" /\ ~cp.twice /\ (job.dst = "stream" => cp.replica = 1)
       /\ (SizeKnown \/ cp.moved = Units)
         => EndRight
    /\ cp.verified => Over /\ cp.pc # "check"
                      /\ ((job.dst = "stream" => cp.replica = 1) /\ SourceHeld => EndRight)
    /\ Over /\ cp.pc # "check" /\ Strict => cp.verified
    /\ cp.gone => cp.result = "ok" /\ ~Metalink
    /\ cp.result = "ok" => cp.pc = "done"

CopyInv ==
    /\ CopyType /\ Theirs /\ Chosen /\ Planned /\ Counted /\ Landed /\ Streamed /\ Owned /\ Vouched

LEMMA CopyConstants ==
    /\ Units \in Nat /\ Retries \in Nat
    /\ \A j \in Asked : j \in CopyKinds /\ (j.dst = "stream" => ~j.there)
  BY CopyAssumption

\* The fields of the copy that was asked for.
LEMMA JobFields ==
    ASSUME CopyType
    PROVE  /\ job.src \in Ends /\ job.dst \in Ends /\ job.overwrite \in BOOLEAN
           /\ job.resume \in BOOLEAN /\ job.sums \in BOOLEAN /\ job.replicas \in Nat
           /\ job.declared \in BOOLEAN /\ job.verify \in {"yes", "no", "default"}
           /\ job.there \in BOOLEAN /\ job.dry \in BOOLEAN /\ job.remove \in BOOLEAN
           /\ job.dst = "stream" => ~job.there
  BY CopyConstants DEF CopyType, CopyKinds

LEMMA IdleIs ==
    ASSUME CopyType
    PROVE  Idle \in CpRecord
  BY JobFields DEF Idle, CpRecord, CopyPlaces, Plans, Checks

\* The invariant holds at the start.
LEMMA CopyStarts == CopyInit => CopyInv
<1> SUFFICES ASSUME CopyInit PROVE CopyInv
  OBVIOUS
<1> USE DEF CopyInit
<1>1. /\ job.src \in Ends /\ job.dst \in Ends /\ job.overwrite \in BOOLEAN
      /\ job.resume \in BOOLEAN /\ job.replicas \in Nat
      /\ job.dst = "stream" => ~job.there
  BY CopyConstants DEF CopyKinds
<1>2. cp \in CpRecord
  BY <1>1 DEF Idle, CpRecord, CopyPlaces, Plans, Checks
<1>3. file \in FileRecord
  BY DEF FileRecord, NoFile, Old
<1>4. /\ cp.pc = "start" /\ cp.replica = 1 /\ cp.overwrite = job.overwrite /\ cp.resume = job.resume
      /\ cp.tries = 0 /\ cp.result = "running" /\ ~cp.verified /\ ~cp.gone /\ ~cp.twice
  BY DEF Idle
<1>5. CopyType /\ Theirs
  BY <1>2, <1>3 DEF CopyType, Theirs, NoFile, Old
<1>6. job.dst = "stream" => file.data = <<>>
  BY <1>1 DEF NoFile
<1> QED
  BY <1>4, <1>5, <1>6
     DEF CopyInv, Chosen, Planned, Counted, Landed, Streamed, Owned, Vouched, Open, Over

\* A step that leaves the transfer neither open nor over.
LEMMA AtRest ==
    ASSUME CopyInv, UNCHANGED job, cp' \in CpRecord, file' \in FileRecord, Theirs',
           other' \in {"away", "coming", "made"}, Chosen',
           cp'.pc \in {"start", "plan"} \/ (cp'.pc = "done" /\ cp'.result # "ok"),
           ~cp'.verified, ~cp'.gone, cp'.result # "ok",
           cp'.twice => job.dst = "stream" /\ cp'.plan = "stream" /\ cp'.pc = "done",
           job.dst = "stream" /\ cp'.replica = 1 /\ ~cp'.twice /\ cp'.pc # "done" => file'.data = <<>>
    PROVE  CopyInv'
<1>1. CopyType'
  BY DEF CopyInv, CopyType
<1>2. ~Open' /\ ~Over'
  BY DEF Open, Over
<1>3. Planned' /\ Counted'
  BY <1>2 DEF Planned, Counted
<1>4. Landed' /\ Owned' /\ Streamed'
  BY <1>2 DEF Landed, Owned, Streamed
<1>5. Vouched'
  BY <1>2 DEF Vouched
<1> QED
  BY <1>1, <1>3, <1>4, <1>5 DEF CopyInv

\* The failure leaves _copy_one.
LEMMA Failing ==
    ASSUME CopyInv, cp.pc \notin {"remove", "done"}, UNCHANGED <<job, other>>, NEW kind,
           cp' = Failed(kind), file' \in FileRecord, Theirs'
    PROVE  CopyInv'
<1> CopyType /\ Chosen /\ Vouched /\ Streamed
  BY DEF CopyInv
<1>0. /\ cp \in CpRecord /\ other' \in {"away", "coming", "made"} /\ job.replicas \in Nat
      /\ cp.replica \in Nat \ {0}
  BY JobFields DEF CopyType, CpRecord
<1>1. CASE cp.replica < job.replicas /\ kind # "refused"
  <2>1. cp' = [Idle EXCEPT !.replica = cp.replica + 1, !.overwrite = TRUE]
    BY <1>1 DEF Failed
  <2>2. cp.replica + 1 \in Nat \ {0, 1} /\ cp.replica + 1 <= job.replicas
    BY <1>0, <1>1
  <2> DEFINE n == cp.replica + 1
  <2> HIDE DEF n
  <2>3. /\ cp' \in CpRecord /\ cp'.pc = "start" /\ cp'.replica = n /\ cp'.tries = 0
        /\ cp'.resume = job.resume /\ ~cp'.verified /\ ~cp'.gone /\ cp'.result = "running"
        /\ ~cp'.twice
    <3>1. n \in Nat \ {0} /\ cp' = [Idle EXCEPT !.replica = n, !.overwrite = TRUE]
      BY <2>1, <2>2 DEF n
    <3>2. /\ Idle.pc = "start" /\ Idle.tries = 0 /\ Idle.resume = job.resume /\ ~Idle.verified
          /\ ~Idle.gone /\ Idle.result = "running" /\ ~Idle.twice
      BY DEF Idle
    <3>3. Idle \in CpRecord
      BY IdleIs
    <3> QED
      BY <3>1, <3>2, <3>3 DEF CpRecord
  <2>4. Chosen'
    BY <2>2, <2>3 DEF Chosen, n
  <2> QED
    BY <1>0, <2>2, <2>3, <2>4, AtRest DEF n
<1>2. CASE ~(cp.replica < job.replicas /\ kind # "refused")
  <2>1. cp' = [cp EXCEPT !.pc = "done", !.result = "failed"]
    BY <1>2 DEF Failed
  <2>2. /\ cp' \in CpRecord /\ cp'.pc = "done" /\ cp'.result = "failed" /\ cp'.replica = cp.replica
        /\ cp'.overwrite = cp.overwrite /\ cp'.tries = cp.tries /\ cp'.resume = cp.resume
        /\ cp'.verified = cp.verified /\ cp'.gone = cp.gone /\ cp'.twice = cp.twice
        /\ cp'.plan = cp.plan
    BY <1>0, <2>1 DEF CpRecord, CopyPlaces
  <2>3. ~cp.verified /\ ~cp.gone /\ (cp.twice => job.dst = "stream" /\ cp.plan = "stream")
    BY DEF Vouched, Over, Streamed
  <2>4. Chosen'
    BY <2>2 DEF Chosen
  <2> QED
    BY <1>0, <2>2, <2>3, <2>4, AtRest
<1> QED
  BY <1>1, <1>2

\* What a PUT that is closed leaves, and what is left of a failed try.
LEMMA PutDoneIs ==
    ASSUME CopyType, Theirs
    PROVE  /\ PutDone \in FileRecord
           /\ PutDone.own = "none" => PutDone.data = <<>>
           /\ PutDone.own = "theirs" => PutDone.data \in {<<>>, <<"old">>}
<1>1. cp.staged \in Nat /\ file \in FileRecord
  BY DEF CopyType, CpRecord
<1>2. [i \in 1 .. cp.staged |-> "right"] \in Seq({"right", "old", "hole"})
  BY <1>1, IsASeq
<1> DEFINE d == [i \in 1 .. cp.staged |-> "right"]
<1> HIDE DEF d
<1>3. d \in Seq({"right", "old", "hole"})
  BY <1>2 DEF d
<1>4. PutDone = IF ~cp.overwrite /\ file.own # "none" THEN file ELSE [own |-> "ours", data |-> d]
  BY DEF PutDone, d
<1> QED
  BY <1>1, <1>3, <1>4 DEF FileRecord, Theirs

LEMMA LeftIs ==
    ASSUME CopyType, Theirs, NEW left \in LeftBehind, NEW kind
    PROVE  /\ left \in FileRecord /\ Cleaned(left, kind) \in FileRecord
           /\ left.own = "none" => left.data = <<>>
           /\ left.own = "theirs" => left.data \in {<<>>, <<"old">>}
           /\ Cleaned(left, kind) = left \/ Cleaned(left, kind) = NoFile
<1>1. NoFile \in FileRecord /\ NoFile.own = "none" /\ NoFile.data = <<>>
  BY DEF NoFile, FileRecord
<1>2. left \in {NoFile, PutDone, file}
  BY DEF LeftBehind
<1>3. left \in FileRecord
  BY <1>1, <1>2, PutDoneIs DEF CopyType
<1>4. /\ left.own = "none" => left.data = <<>>
      /\ left.own = "theirs" => left.data \in {<<>>, <<"old">>}
  BY <1>1, <1>2, PutDoneIs DEF Theirs
<1>5. Cleaned(left, kind) \in {left, NoFile}
  BY DEF Cleaned
<1> QED
  BY <1>1, <1>3, <1>4, <1>5

\* A transfer that fails is tried again or leaves the copy failed.
LEMMA FailStep ==
    ASSUME CopyInv, Open, UNCHANGED <<job, other>>, NEW kind, Fail(kind)
    PROVE  CopyInv'
<1> CopyType /\ Chosen /\ Vouched /\ Theirs /\ Streamed
  BY DEF CopyInv
<1>1. PICK left \in LeftBehind :
         IF MayRetry(kind)
         THEN /\ cp' = [cp EXCEPT !.pc = "plan", !.tries = @ + 1,
                                  !.resume = job.dst \in {"local", "root"}]
              /\ file' = left
         ELSE file' = Cleaned(left, kind) /\ cp' = Failed(kind)
  BY DEF Fail
<1>2. /\ left \in FileRecord /\ Cleaned(left, kind) \in FileRecord
      /\ left.own = "none" => left.data = <<>>
      /\ left.own = "theirs" => left.data \in {<<>>, <<"old">>}
      /\ Cleaned(left, kind) = left \/ Cleaned(left, kind) = NoFile
  BY LeftIs
<1>3. CASE MayRetry(kind)
  <2> DEFINE n == cp.tries + 1
             r == job.dst \in {"local", "root"}
  <2>1. cp \in CpRecord /\ n \in Nat \ {0} /\ r \in BOOLEAN /\ other' \in {"away", "coming", "made"}
    BY DEF CopyType, CpRecord
  <2>2. cp' = [cp EXCEPT !.pc = "plan", !.tries = n, !.resume = r] /\ file' = left
    BY <1>1, <1>3
  <2> HIDE DEF n, r
  <2>3. /\ cp' \in CpRecord /\ cp'.pc = "plan" /\ cp'.tries = n /\ cp'.replica = cp.replica
        /\ cp'.overwrite = cp.overwrite /\ cp'.verified = cp.verified /\ cp'.gone = cp.gone
        /\ cp'.result = cp.result /\ cp'.twice = cp.twice
    BY <2>1, <2>2 DEF CpRecord, CopyPlaces
  <2>4. ~cp.verified /\ ~cp.gone /\ cp.result # "ok"
    BY DEF Vouched, Over, Open
  <2>5. job.dst # "stream" /\ ~cp.twice
    BY <1>3 DEF MayRetry, Named, Streamed
  <2>6. Chosen'
    BY <2>1, <2>3, <2>5 DEF Chosen
  <2>7. Theirs'
    BY <1>2, <2>2 DEF Theirs
  <2> QED
    BY <1>2, <2>1, <2>2, <2>3, <2>4, <2>5, <2>6, <2>7, AtRest
<1>4. CASE ~MayRetry(kind)
  <2>1. Theirs'
    BY <1>1, <1>2, <1>4 DEF Theirs, NoFile
  <2> QED
    BY <1>1, <1>2, <1>4, <2>1, Failing DEF Open
<1> QED
  BY <1>3, <1>4

-----------------------------------------------------------------------------
(* Each step keeps the invariant.                                          *)

LEMMA StartStep == CopyInv /\ Start => CopyInv'
<1> SUFFICES ASSUME CopyInv, Start PROVE CopyInv'
  OBVIOUS
<1> CopyType /\ Chosen /\ Vouched /\ Theirs /\ Streamed
  BY DEF CopyInv
<1>0. cp \in CpRecord /\ cp.pc = "start" /\ UNCHANGED <<job, file, other>>
  BY DEF CopyType, Start
<1>1. ~cp.verified /\ ~cp.gone /\ cp.result # "ok" /\ ~cp.twice
  BY <1>0 DEF Vouched, Over, Streamed
<1>2. Theirs' /\ file' \in FileRecord /\ other' \in {"away", "coming", "made"}
  BY <1>0 DEF Theirs, CopyType
<1>3. CASE job.dry
  <2>1. cp' = [cp EXCEPT !.pc = "done", !.result = "dry"]
    BY <1>3 DEF Start
  <2>2. /\ cp' \in CpRecord /\ cp'.pc = "done" /\ cp'.result = "dry"
        /\ cp'.replica = cp.replica /\ cp'.overwrite = cp.overwrite
        /\ cp'.resume = cp.resume /\ cp'.tries = cp.tries /\ cp'.plan = cp.plan
        /\ cp'.check = cp.check /\ cp'.at = cp.at /\ cp'.todo = cp.todo
        /\ cp'.moved = cp.moved /\ cp'.staged = cp.staged /\ cp'.made = cp.made
        /\ cp'.existed = cp.existed /\ cp'.twice = cp.twice
        /\ cp'.verified = cp.verified /\ cp'.gone = cp.gone
    BY <1>0, <2>1 DEF CpRecord, CopyPlaces
  <2>3. Chosen'
    BY <1>0, <2>2 DEF Chosen
  <2> QED
    BY <1>0, <1>1, <1>2, <2>2, <2>3, AtRest
<1>4. CASE ~job.dry
  <2> DEFINE e == job.dst = "local" /\ file.own # "none"
  <2>0. e \in BOOLEAN /\ job.resume \in BOOLEAN
    BY JobFields
  <2>1. cp' = [cp EXCEPT !.pc = "plan", !.existed = e, !.tries = 0, !.resume = job.resume]
    BY <1>4 DEF Start
  <2> HIDE DEF e
  <2>2. /\ cp' \in CpRecord /\ cp'.pc = "plan" /\ cp'.tries = 0 /\ cp'.resume = job.resume
        /\ cp'.replica = cp.replica /\ cp'.overwrite = cp.overwrite
        /\ cp'.plan = cp.plan /\ cp'.check = cp.check /\ cp'.at = cp.at
        /\ cp'.todo = cp.todo /\ cp'.moved = cp.moved /\ cp'.staged = cp.staged
        /\ cp'.made = cp.made /\ cp'.twice = cp.twice /\ cp'.verified = cp.verified
        /\ cp'.result = cp.result /\ cp'.gone = cp.gone
    BY <1>0, <2>0, <2>1 DEF CpRecord, CopyPlaces
  <2>3. Chosen'
    BY <1>0, <2>2 DEF Chosen
  <2>4. job.dst = "stream" /\ cp'.replica = 1 /\ ~cp'.twice => file'.data = <<>>
    BY <1>0, <2>2 DEF Streamed
  <2> QED
    BY <1>0, <1>1, <1>2, <2>2, <2>3, <2>4, AtRest
<1> QED
  BY <1>3, <1>4

\* What a plan comes to, whatever the target's length was said to be.
LEMMA PlanIs ==
    ASSUME CopyType, NEW length \in Nat, PlanOf(length) # "refused"
    PROVE  /\ PlanOf(length) \in Plans \ {"none"}
           /\ PlanOf(length) = "resume" =>
                 cp.resume /\ cp.overwrite /\ Units > 0 /\ job.dst # "stream"
           /\ job.dst \in {"http", "s3"} => PlanOf(length) \in {"stream", "resume"}
           /\ PlanOf(length) = "bulk" => job.dst \in {"local", "stream"}
  BY CopyConstants, JobFields
     DEF PlanOf, ContinueFrom, Several, BulkUsable, Divided, Named, Plans, CopyType, CpRecord, Ends

LEMMA CheckIs ==
    ASSUME CopyType, NEW plan \in Plans, ~CannotVerify(plan)
    PROVE  /\ CheckOf(plan) \in Checks
           /\ CheckOf(plan) \in {"first", "declared stream", "after"} => plan # "resume"
           /\ Strict => CheckOf(plan) # "none"
  BY JobFields DEF CheckOf, CannotVerify, EndsOf, Strict, Wanted, Checkable, Checks, Plans, Remote, Ends

LEMMA PrepareStep == CopyInv /\ Prepare => CopyInv'
<1> SUFFICES ASSUME CopyInv, Prepare PROVE CopyInv'
  OBVIOUS
<1> CopyType /\ Chosen /\ Vouched /\ Theirs /\ Streamed
  BY DEF CopyInv
<1> USE CopyConstants
<1>0. cp \in CpRecord /\ cp.pc = "plan" /\ UNCHANGED <<job, file, other>> /\ file \in FileRecord
  BY DEF CopyType, Prepare
<1>1. ~cp.verified /\ ~cp.gone /\ cp.result # "ok" /\ ~cp.twice
  BY <1>0 DEF Vouched, Over, Streamed
<1>2. Theirs' /\ file' \in FileRecord /\ other' \in {"away", "coming", "made"}
  BY <1>0 DEF Theirs, CopyType
<1>3. Len(file.data) \in Nat
  BY <1>0 DEF FileRecord
<1>4. PICK length \in {Len(file.data)} \cup (IF job.dst \in Remote THEN {0} ELSE {}) :
         LET plan == PlanOf(length)
             at == IF plan = "resume" THEN length ELSE 0
         IN cp' = IF plan = "refused" \/ CannotVerify(plan)
                  THEN Failed(IF plan = "refused" \/ Checkable = "none" THEN "refused" ELSE "error")
                  ELSE [cp EXCEPT !.pc = IF plan \in {"spread", "bulk"} THEN "writer" ELSE "reader",
                                  !.plan = plan, !.check = CheckOf(plan), !.at = at, !.moved = 0,
                                  !.staged = 0, !.made = FALSE, !.todo = at .. Units - 1]
  BY DEF Prepare
<1> length \in Nat
  BY <1>3
<1> DEFINE plan == PlanOf(length)
           at == IF plan = "resume" THEN length ELSE 0
<1>5. CASE plan = "refused" \/ CannotVerify(plan)
  <2>1. \E kind \in {"refused", "error"} : cp' = Failed(kind)
    BY <1>4, <1>5
  <2> QED
    BY <1>0, <1>2, <2>1, Failing
<1>6. CASE ~(plan = "refused" \/ CannotVerify(plan))
  <2> DEFINE p == IF plan \in {"spread", "bulk"} THEN "writer" ELSE "reader"
             k == CheckOf(plan)
             T == at .. Units - 1
             half == [cp EXCEPT !.pc = p, !.plan = plan, !.check = k, !.at = at]
  <2>1. cp' = [half EXCEPT !.moved = 0, !.staged = 0, !.made = FALSE, !.todo = T]
    BY <1>0, <1>4, <1>6 DEF CpRecord
  <2>2. /\ plan \in Plans \ {"none"}
        /\ plan = "resume" => cp.resume /\ cp.overwrite /\ Units > 0 /\ job.dst # "stream"
        /\ job.dst \in {"http", "s3"} => plan \in {"stream", "resume"}
        /\ plan = "bulk" => job.dst \in {"local", "stream"}
    BY <1>6, PlanIs
  <2>3. k \in Checks /\ (k \in {"first", "declared stream", "after"} => plan # "resume")
        /\ (Strict => k # "none")
    BY <1>6, <2>2, CheckIs
  <2>4. at \in Nat /\ T \in SUBSET Nat /\ (plan # "resume" => at = 0 /\ T = 0 .. Units - 1)
    OBVIOUS
  <2>5. p \in {"reader", "writer"} /\ (plan = "bulk" => p = "writer")
    OBVIOUS
  <2> HIDE DEF plan, at, p, k, T
  <2>6. /\ half \in CpRecord /\ half.pc = p /\ half.plan = plan /\ half.check = k /\ half.at = at
        /\ half.replica = cp.replica /\ half.overwrite = cp.overwrite /\ half.resume = cp.resume
        /\ half.tries = cp.tries /\ half.twice = cp.twice /\ half.verified = cp.verified
        /\ half.result = cp.result /\ half.gone = cp.gone
    BY <1>0, <2>2, <2>3, <2>4, <2>5 DEF CpRecord, CopyPlaces
  <2> HIDE DEF half
  <2>7. /\ cp' \in CpRecord /\ cp'.pc = p /\ cp'.plan = plan /\ cp'.check = k /\ cp'.at = at
        /\ cp'.moved = 0 /\ cp'.staged = 0 /\ ~cp'.made /\ cp'.todo = T
        /\ cp'.replica = cp.replica /\ cp'.overwrite = cp.overwrite /\ cp'.resume = cp.resume
        /\ cp'.tries = cp.tries /\ cp'.twice = cp.twice /\ cp'.verified = cp.verified
        /\ cp'.result = cp.result /\ cp'.gone = cp.gone
    BY <2>1, <2>4, <2>6 DEF CpRecord
  <2>8. CopyType' /\ Chosen'
    BY <1>0, <1>2, <2>7 DEF CopyType, Chosen
  <2>9. Planned'
    BY <1>0, <2>2, <2>3, <2>4, <2>7 DEF Planned, Strict
  <2>10. Counted'
    <3>1. Cardinality(0 .. Units - 1) = Units
      BY FS_Interval
    <3> QED
      BY <1>0, <2>4, <2>5, <2>7, <3>1 DEF Counted
  <2>11. Landed' /\ Owned'
    BY <2>5, <2>7 DEF Landed, Owned, Open
  <2>12. Streamed'
    BY <1>0, <1>1, <2>5, <2>7 DEF Streamed
  <2>13. Vouched'
    BY <1>0, <1>1, <2>5, <2>7 DEF Vouched, Over
  <2> QED
    BY <1>2, <2>8, <2>9, <2>10, <2>11, <2>12, <2>13 DEF CopyInv
<1> QED
  BY <1>5, <1>6

LEMMA ReaderStep == CopyInv /\ OpenReader => CopyInv'
<1> SUFFICES ASSUME CopyInv, OpenReader PROVE CopyInv'
  OBVIOUS
<1> CopyType /\ Chosen /\ Vouched /\ Theirs /\ Streamed /\ Planned /\ Counted /\ Landed /\ Owned
  BY DEF CopyInv
<1> USE CopyConstants
<1> DEFINE p == IF cp.plan = "bulk" THEN "move" ELSE "writer"
<1>0. cp \in CpRecord /\ cp.pc = "reader" /\ UNCHANGED <<job, other>> /\ file \in FileRecord
  BY DEF CopyType, OpenReader
<1>1. cp' = [cp EXCEPT !.pc = p]
  BY DEF OpenReader
<1>2. p \in CopyPlaces /\ p \in {"move", "writer"} /\ (p = "move" <=> cp.plan = "bulk")
  BY DEF CopyPlaces
<1> HIDE DEF p
<1>3. /\ cp' \in CpRecord /\ cp'.pc = p
      /\ cp'.replica = cp.replica /\ cp'.overwrite = cp.overwrite
      /\ cp'.resume = cp.resume /\ cp'.tries = cp.tries /\ cp'.plan = cp.plan
      /\ cp'.check = cp.check /\ cp'.at = cp.at /\ cp'.todo = cp.todo
      /\ cp'.moved = cp.moved /\ cp'.staged = cp.staged /\ cp'.made = cp.made
      /\ cp'.existed = cp.existed /\ cp'.twice = cp.twice
      /\ cp'.verified = cp.verified /\ cp'.result = cp.result /\ cp'.gone = cp.gone
  BY <1>0, <1>1, <1>2 DEF CpRecord
<1>4. /\ file' \in FileRecord
      /\ file' = file \/ (cp.plan = "bulk" /\ job.dst = "local" /\ file'.own = "ours" /\ Len(file'.data) = Units)
      /\ cp.plan = "bulk" /\ job.dst = "local" => file'.own = "ours" /\ Len(file'.data) = Units
  <2>1. CASE cp.plan = "bulk" /\ job.dst = "local"
    <3> DEFINE d == Sized(file.data)
    <3>1. file' = [own |-> "ours", data |-> d]
      BY <2>1 DEF OpenReader
    <3>2. d \in Seq({"right", "old", "hole"}) /\ Len(d) = Units
      <4>1. \A i \in 1 .. Len(file.data) : file.data[i] \in {"right", "old", "hole"}
        BY <1>0 DEF FileRecord
      <4>2. Len(file.data) \in Nat
        BY <1>0 DEF FileRecord
      <4>3. d = [i \in 1 .. Units |-> IF i <= Len(file.data) THEN file.data[i] ELSE "hole"]
        BY DEF Sized
      <4>4. \A i \in 1 .. Units : (IF i <= Len(file.data) THEN file.data[i] ELSE "hole") \in {"right", "old", "hole"}
        BY <4>1, <4>2
      <4>5. d \in Seq({"right", "old", "hole"})
        BY <4>3, <4>4, IsASeq
      <4> QED
        BY <4>3, <4>5
    <3> HIDE DEF d
    <3> QED
      BY <2>1, <3>1, <3>2 DEF FileRecord
  <2>2. CASE ~(cp.plan = "bulk" /\ job.dst = "local")
    BY <1>0, <2>2 DEF OpenReader
  <2> QED
    BY <2>1, <2>2
<1>5. CopyType' /\ Chosen' /\ Theirs'
  BY <1>0, <1>3, <1>4 DEF CopyType, Chosen, Theirs
<1>6. Open /\ Open' /\ ~Over /\ ~Over'
  BY <1>0, <1>2, <1>3 DEF Open, Over
<1>7. Planned'
  BY <1>0, <1>3, <1>6 DEF Planned, Strict
<1>8. Counted'
  BY <1>0, <1>3, <1>6 DEF Counted
<1>9. cp.plan # "resume" => cp.todo = 0 .. Units - 1 /\ cp.moved = 0 /\ cp.staged = 0
  BY <1>0, <1>6 DEF Counted
<1>10. Landed'
  <2> SUFFICES ASSUME cp.plan = "bulk" PROVE Landed'
    BY <1>2, <1>3 DEF Landed
  <2>1. job.dst \in {"local", "stream"} /\ UNCHANGED job
    BY <1>0, <1>6 DEF Planned
  <2>2. (0 .. Units - 1) \ cp'.todo = {}
    BY <1>3, <1>9
  <2>3. job.dst = "local" => Len(file'.data) = Units
    BY <1>4
  <2> QED
    BY <2>1, <2>2, <2>3 DEF Landed
<1>11. Streamed'
  BY <1>0, <1>2, <1>3, <1>4, <1>9 DEF Streamed
<1>12. Owned'
  BY <1>0, <1>2, <1>3, <1>4, <1>6 DEF Owned, Planned
<1>13. Vouched'
  BY <1>0, <1>2, <1>3, <1>6 DEF Vouched, Over
<1> QED
  BY <1>5, <1>7, <1>8, <1>10, <1>11, <1>12, <1>13 DEF CopyInv

LEMMA WriterStep == CopyInv /\ OpenWriter => CopyInv'
<1> SUFFICES ASSUME CopyInv, OpenWriter PROVE CopyInv'
  OBVIOUS
<1> CopyType /\ Chosen /\ Vouched /\ Theirs /\ Streamed /\ Planned /\ Counted /\ Landed /\ Owned
  BY DEF CopyInv
<1> USE CopyConstants
<1> DEFINE p == IF cp.plan = "bulk" THEN "reader" ELSE "move"
           m == cp.plan = "bulk" /\ job.dst = "local" /\ file.own = "none"
<1>0. cp \in CpRecord /\ cp.pc = "writer" /\ UNCHANGED <<job, other>> /\ file \in FileRecord /\ ~Refused
  BY DEF CopyType, OpenWriter
<1>1. cp' = [cp EXCEPT !.pc = p, !.made = m]
  BY DEF OpenWriter
<1>2. p \in CopyPlaces /\ p \in {"move", "reader"} /\ (p = "reader" <=> cp.plan = "bulk")
  BY DEF CopyPlaces
<1>3. m \in BOOLEAN /\ (m <=> cp.plan = "bulk" /\ job.dst = "local" /\ file.own = "none")
  OBVIOUS
<1> HIDE DEF p, m
<1>4. /\ cp' \in CpRecord /\ cp'.pc = p /\ cp'.made = m
      /\ cp'.replica = cp.replica /\ cp'.overwrite = cp.overwrite
      /\ cp'.resume = cp.resume /\ cp'.tries = cp.tries /\ cp'.plan = cp.plan
      /\ cp'.check = cp.check /\ cp'.at = cp.at /\ cp'.todo = cp.todo
      /\ cp'.moved = cp.moved /\ cp'.staged = cp.staged /\ cp'.existed = cp.existed
      /\ cp'.twice = cp.twice /\ cp'.verified = cp.verified /\ cp'.result = cp.result
      /\ cp'.gone = cp.gone
  BY <1>0, <1>1, <1>2, <1>3 DEF CpRecord
<1> DEFINE same == \/ job.dst \notin {"local", "root"} \/ cp.plan = "resume"
                   \/ cp.plan = "bulk" /\ file.own # "none"
<1>5. /\ file' \in FileRecord
      /\ same => file' = file
      /\ ~same => file'.own = "ours" /\ file'.data = <<>>
  <2>1. same => file' = file
    BY DEF OpenWriter
  <2>2. ~same => file' = [own |-> "ours", data |-> <<>>]
    BY DEF OpenWriter
  <2>3. <<>> \in Seq({"right", "old", "hole"})
    OBVIOUS
  <2>4. [own |-> "ours", data |-> <<>>] \in FileRecord
    BY <2>3 DEF FileRecord
  <2> HIDE DEF same
  <2>5. file' \in FileRecord
    BY <1>0, <2>1, <2>2, <2>4
  <2>6. ~same => file'.own = "ours" /\ file'.data = <<>>
    BY <2>2
  <2> QED
    BY <2>1, <2>5, <2>6
<1>6. CopyType' /\ Chosen' /\ Theirs'
  BY <1>0, <1>4, <1>5 DEF CopyType, Chosen, Theirs
<1>7. Open /\ Open' /\ ~Over /\ ~Over'
  BY <1>0, <1>2, <1>4 DEF Open, Over
<1>8. Planned'
  BY <1>0, <1>4, <1>7 DEF Planned, Strict
<1>9. Counted'
  BY <1>0, <1>4, <1>7 DEF Counted
<1>10. cp.plan # "resume" => cp.todo = 0 .. Units - 1 /\ cp.moved = 0 /\ cp.staged = 0
  BY <1>0, <1>7 DEF Counted
<1>11. Landed'
  BY <1>0, <1>2, <1>4, <1>5, <1>10 DEF Landed
<1>12. Streamed'
  <2>1. ASSUME job.dst = "stream" PROVE file' = file /\ cp.plan # "resume"
    BY <1>5, <1>7, <2>1 DEF Planned
  <2> QED
    BY <1>0, <1>2, <1>4, <1>10, <2>1 DEF Streamed
<1>13. Owned'
  <2>1. cp.plan = "resume" => job.dst \in {"local", "root"}
    BY <1>0 DEF Refused
  <2>2. cp.plan # "resume" /\ ~cp.overwrite => file.own = "none" \/ job.dst = "stream"
    BY <1>0 DEF Refused
  <2>3. /\ cp'.pc \in {"move", "reader"} /\ (cp'.pc = "reader" <=> cp.plan = "bulk") /\ cp'.plan = cp.plan
        /\ cp'.overwrite = cp.overwrite /\ UNCHANGED job
        /\ (cp'.made <=> cp.plan = "bulk" /\ job.dst = "local" /\ file.own = "none")
    BY <1>0, <1>2, <1>3, <1>4
  <2>4. cp.plan = "bulk" => job.dst \in {"local", "stream"}
    BY <1>7 DEF Planned
  <2> QED
    BY <1>5, <2>1, <2>2, <2>3, <2>4 DEF Owned
<1>14. Vouched'
  BY <1>0, <1>2, <1>4, <1>7 DEF Vouched, Over
<1> QED
  BY <1>6, <1>8, <1>9, <1>11, <1>12, <1>13, <1>14 DEF CopyInv

\* Counting what is left to do.
LEMMA Left ==
    ASSUME NEW T, T \subseteq 0 .. Units - 1
    PROVE  /\ IsFiniteSet(T) /\ Cardinality(T) \in Nat
           /\ T = {} <=> Cardinality(T) = 0
           /\ \A u \in T : Cardinality(T \ {u}) = Cardinality(T) - 1
<1>1. IsFiniteSet(0 .. Units - 1)
  BY CopyConstants, FS_Interval
<1>2. IsFiniteSet(T)
  BY <1>1, FS_Subset
<1> QED
  BY <1>2, FS_CardinalityType, FS_EmptySet, FS_RemoveElement

LEMMA DryStep == CopyInv /\ RunsDry => CopyInv'
<1> SUFFICES ASSUME CopyInv, RunsDry PROVE CopyInv'
  OBVIOUS
<1> CopyType /\ Chosen /\ Vouched /\ Theirs /\ Streamed /\ Planned /\ Counted /\ Landed /\ Owned
  BY DEF CopyInv
<1> USE CopyConstants
<1>0. cp \in CpRecord /\ cp.pc = "move" /\ UNCHANGED <<job, file, other>> /\ cp.todo # {}
  BY DEF CopyType, RunsDry
<1>1. cp' = [cp EXCEPT !.todo = {}]
  BY DEF RunsDry
<1>2. /\ cp' \in CpRecord /\ cp'.todo = {}
      /\ cp'.pc = cp.pc /\ cp'.replica = cp.replica /\ cp'.overwrite = cp.overwrite
      /\ cp'.resume = cp.resume /\ cp'.tries = cp.tries /\ cp'.plan = cp.plan
      /\ cp'.check = cp.check /\ cp'.at = cp.at /\ cp'.moved = cp.moved
      /\ cp'.staged = cp.staged /\ cp'.made = cp.made /\ cp'.existed = cp.existed
      /\ cp'.twice = cp.twice /\ cp'.verified = cp.verified /\ cp'.result = cp.result
      /\ cp'.gone = cp.gone
  BY <1>0, <1>1 DEF CpRecord
<1>3. CopyType' /\ Chosen' /\ Theirs'
  BY <1>0, <1>2 DEF CopyType, Chosen, Theirs
<1>4. Open /\ Open' /\ ~Over /\ ~Over'
  BY <1>0, <1>2 DEF Open, Over
<1>5. Planned'
  BY <1>0, <1>2, <1>4 DEF Planned, Strict
<1>6. Cardinality({}) = 0 /\ cp.moved \in Nat
  BY <1>0, FS_EmptySet DEF CpRecord
<1>7. cp.plan # "resume" => cp.moved < Units
  <2> SUFFICES ASSUME cp.plan # "resume" PROVE cp.moved < Units
    OBVIOUS
  <2>1. cp.todo \subseteq 0 .. Units - 1 /\ Cardinality(cp.todo) + cp.moved <= Units
    BY <1>4 DEF Counted
  <2>2. Cardinality(cp.todo) \in Nat /\ Cardinality(cp.todo) # 0
    BY <1>0, <2>1, Left
  <2> QED
    BY <1>6, <2>1, <2>2
<1>8. Counted'
  BY <1>0, <1>2, <1>4, <1>6, <1>7 DEF Counted
<1>9. Landed'
  BY <1>0, <1>2, <1>6, <1>7 DEF Landed
<1>10. Streamed' /\ Owned'
  BY <1>0, <1>2 DEF Streamed, Owned, Open
<1>11. Vouched'
  BY <1>0, <1>2, <1>4 DEF Vouched, Over
<1> QED
  BY <1>3, <1>5, <1>8, <1>9, <1>10, <1>11 DEF CopyInv

\* The first unit that is left of a file read in order.
LEMMA FirstLeft ==
    ASSUME NEW a \in Nat, NEW b \in Int, a <= b
    PROVE  Min(a .. b) = a
<1>1. a \in a .. b /\ \A y \in a .. b : a <= y
  OBVIOUS
<1>2. \A x \in a .. b : (\A y \in a .. b : x <= y) => x = a
  BY <1>1
<1> QED
  BY <1>1, <1>2 DEF Min

LEMMA Longer ==
    ASSUME NEW a \in Nat, NEW b \in Nat
    PROVE  Max({a, b}) = IF a < b THEN b ELSE a
<1> DEFINE m == IF a < b THEN b ELSE a
<1>1. m \in {a, b} /\ \A y \in {a, b} : m >= y
  OBVIOUS
<1>2. \A x \in {a, b} : (\A y \in {a, b} : x >= y) => x = m
  OBVIOUS
<1> HIDE DEF m
<1>3. Max({a, b}) = m
  BY <1>1, <1>2 DEF Max
<1> QED
  BY <1>3 DEF m

\* What a unit written at its offset leaves of the rest.
LEMMA PutAt ==
    ASSUME NEW data \in Seq({"right", "old", "hole"}), NEW u \in Nat, job.dst # "stream"
    PROVE  /\ Put(data, u) \in Seq({"right", "old", "hole"})
           /\ Len(Put(data, u)) = (IF Len(data) < u + 1 THEN u + 1 ELSE Len(data))
           /\ Put(data, u)[u + 1] = "right"
           /\ \A i \in 1 .. Len(data) : data[i] = "right" => Put(data, u)[i] = "right"
<1> DEFINE n == IF Len(data) < u + 1 THEN u + 1 ELSE Len(data)
           e(i) == IF i = u + 1 THEN "right" ELSE IF i <= Len(data) THEN data[i] ELSE "hole"
           d == [i \in 1 .. n |-> e(i)]
<1>1. Len(data) \in Nat /\ u + 1 \in Nat
  OBVIOUS
<1>2. n \in Nat /\ Len(data) <= n /\ u + 1 <= n
  BY <1>1
<1>3. Put(data, u) = d
  BY <1>1, Longer DEF Put
<1>4. \A i \in 1 .. n : e(i) \in {"right", "old", "hole"}
  <2> SUFFICES ASSUME NEW i \in 1 .. n, i # u + 1, i <= Len(data) PROVE data[i] \in {"right", "old", "hole"}
    OBVIOUS
  <2> QED
    BY <1>1, <1>2
<1> HIDE DEF n
<1>5. d \in Seq({"right", "old", "hole"})
  BY <1>2, <1>4, IsASeq
<1>6. Len(d) = n /\ \A i \in 1 .. n : d[i] = e(i)
  BY <1>2, <1>5
<1>7. d[u + 1] = "right" /\ \A i \in 1 .. Len(data) : data[i] = "right" => d[i] = "right"
  BY <1>1, <1>2, <1>6
<1> HIDE DEF d
<1> QED
  BY <1>3, <1>5, <1>6, <1>7 DEF n

LEMMA MoveStep == CopyInv /\ MoveUnit => CopyInv'
<1> SUFFICES ASSUME CopyInv, MoveUnit PROVE CopyInv'
  OBVIOUS
<1> CopyType /\ Chosen /\ Vouched /\ Theirs /\ Streamed /\ Planned /\ Counted /\ Landed /\ Owned
  BY DEF CopyInv
<1> USE CopyConstants
<1>0. cp \in CpRecord /\ cp.pc = "move" /\ UNCHANGED <<job, other>> /\ file \in FileRecord
  BY DEF CopyType, MoveUnit
<1> DEFINE Web == job.dst \in {"http", "s3"}
<1>1. PICK u \in cp.todo :
         /\ (cp.plan \in {"stream", "resume"} \/ job.dst = "stream") => u = Min(cp.todo)
         /\ file' = IF job.dst \in {"http", "s3"} THEN file
                    ELSE [own |-> "ours", data |-> Put(file.data, u)]
         /\ cp' = [cp EXCEPT !.todo = @ \ {u}, !.moved = @ + 1,
                             !.staged = IF job.dst \in {"http", "s3"} THEN u + 1 ELSE 0]
  BY DEF MoveUnit
<1>2. /\ u \in Nat /\ cp.moved \in Nat /\ cp.todo \in SUBSET Nat /\ file.data \in Seq({"right", "old", "hole"})
      /\ Len(file.data) \in Nat
  BY <1>0 DEF CpRecord, FileRecord
<1> DEFINE T == cp.todo \ {u}
           m == cp.moved + 1
           g == IF Web THEN u + 1 ELSE 0
<1>3. T \in SUBSET Nat /\ m \in Nat /\ g \in Nat /\ cp' = [cp EXCEPT !.todo = T, !.moved = m, !.staged = g]
  BY <1>1, <1>2
<1> HIDE DEF T, m, g
<1>4. /\ cp' \in CpRecord /\ cp'.todo = T /\ cp'.moved = m /\ cp'.staged = g
      /\ cp'.pc = cp.pc /\ cp'.replica = cp.replica /\ cp'.overwrite = cp.overwrite
      /\ cp'.resume = cp.resume /\ cp'.tries = cp.tries /\ cp'.plan = cp.plan
      /\ cp'.check = cp.check /\ cp'.at = cp.at /\ cp'.made = cp.made
      /\ cp'.existed = cp.existed /\ cp'.twice = cp.twice
      /\ cp'.verified = cp.verified /\ cp'.result = cp.result /\ cp'.gone = cp.gone
  BY <1>0, <1>3 DEF CpRecord
<1>5. Open /\ Open' /\ ~Over /\ ~Over'
  BY <1>0, <1>4 DEF Open, Over
<1>6. ~Web => file' = [own |-> "ours", data |-> Put(file.data, u)]
  BY <1>1
<1>7. job.dst \notin {"http", "s3", "stream"} =>
        /\ file' \in FileRecord /\ file'.own = "ours"
        /\ Len(file'.data) = (IF Len(file.data) < u + 1 THEN u + 1 ELSE Len(file.data))
        /\ file'.data[u + 1] = "right"
        /\ \A i \in 1 .. Len(file.data) : file.data[i] = "right" => file'.data[i] = "right"
  <2> SUFFICES ASSUME job.dst \notin {"http", "s3", "stream"} PROVE <1>7!2
    OBVIOUS
  <2> DEFINE d == Put(file.data, u)
  <2>1. /\ d \in Seq({"right", "old", "hole"})
        /\ Len(d) = (IF Len(file.data) < u + 1 THEN u + 1 ELSE Len(file.data))
        /\ d[u + 1] = "right"
        /\ \A i \in 1 .. Len(file.data) : file.data[i] = "right" => d[i] = "right"
    BY <1>2, PutAt
  <2> HIDE DEF d
  <2>2. file' = [own |-> "ours", data |-> d]
    BY <1>6 DEF d
  <2>3. file' \in FileRecord /\ file'.own = "ours" /\ file'.data = d
    BY <2>1, <2>2 DEF FileRecord
  <2> QED
    BY <2>1, <2>3
<1>8. job.dst = "stream" =>
        /\ file' \in FileRecord /\ file'.own = "ours"
        /\ Len(file'.data) = Len(file.data) + 1
        /\ \A i \in 1 .. Len(file.data) : file'.data[i] = file.data[i]
        /\ Len(file.data) = u => file'.data[u + 1] = "right"
  <2> SUFFICES ASSUME job.dst = "stream" PROVE <1>8!2
    OBVIOUS
  <2> DEFINE e == IF Len(file.data) = u THEN "right" ELSE "old"
             d == Append(file.data, e)
  <2>1. e \in {"right", "old", "hole"} /\ (Len(file.data) = u => e = "right")
    OBVIOUS
  <2>2. file' = [own |-> "ours", data |-> d]
    BY <1>6 DEF Put
  <2> HIDE DEF e
  <2>3. /\ d \in Seq({"right", "old", "hole"}) /\ Len(d) = Len(file.data) + 1
        /\ \A i \in 1 .. Len(file.data) : d[i] = file.data[i]
        /\ d[Len(file.data) + 1] = e
    BY <1>2, <2>1, AppendProperties
  <2> HIDE DEF d
  <2>4. file' \in FileRecord /\ file'.own = "ours" /\ file'.data = d
    BY <2>2, <2>3 DEF FileRecord
  <2> QED
    BY <2>1, <2>3, <2>4
<1>9. (Web => file' = file) /\ file' \in FileRecord /\ (~Web => file'.own = "ours")
  BY <1>0, <1>1, <1>7, <1>8
<1>10. CopyType' /\ Chosen' /\ Theirs'
  BY <1>0, <1>4, <1>9 DEF CopyType, Chosen, Theirs
<1>11. Planned'
  BY <1>0, <1>4, <1>5 DEF Planned, Strict
<1>12. ASSUME cp.plan # "resume"
       PROVE  /\ cp.todo \subseteq 0 .. Units - 1 /\ T \subseteq 0 .. Units - 1 /\ u \in 0 .. Units - 1
              /\ Cardinality(T) \in Nat /\ Cardinality(T) + m = Cardinality(cp.todo) + cp.moved
              /\ Cardinality(cp.todo) + cp.moved <= Units
  <2>1. cp.todo \subseteq 0 .. Units - 1 /\ Cardinality(cp.todo) + cp.moved <= Units
    BY <1>5, <1>12 DEF Counted
  <2>2. Cardinality(cp.todo) \in Nat /\ Cardinality(cp.todo \ {u}) = Cardinality(cp.todo) - 1
    BY <2>1, Left
  <2>3. T \subseteq 0 .. Units - 1
    BY <2>1 DEF T
  <2>4. Cardinality(T) \in Nat
    BY <2>3, Left
  <2> QED
    BY <1>2, <2>1, <2>2, <2>3, <2>4 DEF T, m
<1>13. ASSUME cp.plan # "resume", cp.plan = "stream" \/ job.dst = "stream"
       PROVE  u = cp.moved /\ T = m .. Units - 1
  <2>1. cp.todo = cp.moved .. Units - 1
    BY <1>5, <1>13 DEF Counted
  <2>2. cp.moved <= Units - 1
    BY <1>2, <2>1
  <2>3. Min(cp.moved .. Units - 1) = cp.moved
    BY <1>2, <2>2, FirstLeft
  <2>4. u = cp.moved
    BY <1>1, <1>13, <2>1, <2>3
  <2> QED
    BY <1>2, <2>1, <2>4 DEF T, m
<1>14. Counted'
  <2> SUFFICES ASSUME cp.plan # "resume"
               PROVE  /\ T \subseteq 0 .. Units - 1 /\ Cardinality(T) + m <= Units
                      /\ cp.plan = "stream" \/ job.dst = "stream" => T \in {{}, m .. Units - 1}
                      /\ job.dst \notin {"http", "s3"} => g = 0
    BY <1>0, <1>4 DEF Counted
  <2> QED
    BY <1>12, <1>13 DEF g
<1>15. Landed'
  <2> SUFFICES ASSUME cp.plan # "resume"
               PROVE  /\ job.dst \in {"local", "root"} =>
                           /\ Len(file'.data) <= Units
                           /\ Cardinality(T) + m = Units =>
                                \A v \in (0 .. Units - 1) \ T :
                                   v < Len(file'.data) /\ file'.data[v + 1] = "right"
                      /\ job.dst \in {"http", "s3"} => g = m
    BY <1>0, <1>4 DEF Landed
  <2>1. ASSUME job.dst \in {"http", "s3"} PROVE g = m
    <3>1. cp.plan = "stream"
      BY <1>5, <2>1 DEF Planned
    <3> QED
      BY <1>13, <2>1, <3>1 DEF g, m
  <2>2. ASSUME job.dst \in {"local", "root"} PROVE Len(file'.data) <= Units
    <3>1. Len(file.data) <= Units
      BY <1>0, <2>2 DEF Landed
    <3> QED
      BY <1>2, <1>7, <1>12, <2>2, <3>1
  <2>3. ASSUME job.dst \in {"local", "root"}, Cardinality(T) + m = Units,
               NEW v \in (0 .. Units - 1) \ T
        PROVE  v < Len(file'.data) /\ file'.data[v + 1] = "right"
    <3>1. CASE v = u
      BY <1>2, <1>7, <2>3, <3>1
    <3>2. CASE v # u
      <4>1. v \in (0 .. Units - 1) \ cp.todo
        BY <2>3, <3>2 DEF T
      <4>2. v < Len(file.data) /\ file.data[v + 1] = "right"
        BY <1>0, <1>12, <2>3, <4>1 DEF Landed
      <4>3. v + 1 \in 1 .. Len(file.data) /\ Len(file.data) <= Len(file'.data)
        BY <1>2, <1>7, <2>3, <4>2
      <4>4. Len(file'.data) \in Nat
        BY <1>9 DEF FileRecord
      <4> QED
        BY <1>2, <1>7, <2>3, <4>2, <4>3, <4>4
    <3> QED
      BY <3>1, <3>2
  <2> QED
    BY <2>1, <2>2, <2>3
<1>16. Streamed'
  <2>1. ASSUME job.dst = "stream", cp.replica = 1, ~cp.twice
        PROVE  Len(file'.data) = m /\ \A i \in 1 .. m : file'.data[i] = "right"
    <3>1. Len(file.data) = cp.moved /\ \A i \in 1 .. cp.moved : file.data[i] = "right"
      BY <1>0, <2>1 DEF Streamed
    <3>2. cp.plan # "resume"
      BY <1>5, <2>1 DEF Planned
    <3>3. u = cp.moved
      BY <1>13, <2>1, <3>2
    <3>4. \A i \in 1 .. cp.moved + 1 : i \in 1 .. cp.moved \/ i = cp.moved + 1
      BY <1>2
    <3> QED
      BY <1>8, <2>1, <3>1, <3>3, <3>4 DEF m
  <2>2. cp'.pc = "move"
    BY <1>0, <1>4
  <2> QED
    BY <1>0, <1>4, <2>1, <2>2 DEF Streamed
<1>17. Owned'
  <2>1. cp.made => ~Web
    BY <1>5 DEF Owned, Planned
  <2> QED
    BY <1>0, <1>4, <1>9, <2>1 DEF Owned, Open
<1>18. Vouched'
  BY <1>0, <1>4, <1>5 DEF Vouched, Over
<1> QED
  BY <1>10, <1>11, <1>14, <1>15, <1>16, <1>17, <1>18 DEF CopyInv

LEMMA DeclinedStep == CopyInv /\ BulkDeclined => CopyInv'
<1> SUFFICES ASSUME CopyInv, BulkDeclined PROVE CopyInv'
  OBVIOUS
<1> CopyType /\ Chosen /\ Vouched /\ Theirs /\ Streamed /\ Planned /\ Counted /\ Landed /\ Owned
  BY DEF CopyInv
<1> USE CopyConstants
<1>0. /\ cp \in CpRecord /\ cp.plan = "bulk" /\ cp.pc \in {"reader", "move"} /\ UNCHANGED <<job, other>>
      /\ file \in FileRecord
  BY DEF CopyType, BulkDeclined
<1> DEFINE T == 0 .. Units - 1
           w == job.dst = "stream" /\ cp.moved > 0
           half == [cp EXCEPT !.pc = "reader", !.plan = "stream", !.todo = T]
<1>1. cp' = [half EXCEPT !.twice = w, !.moved = 0, !.made = FALSE]
  BY <1>0 DEF BulkDeclined, CpRecord
<1>2. T \in SUBSET Nat /\ w \in BOOLEAN /\ (w <=> job.dst = "stream" /\ cp.moved > 0) /\ T = 0 .. Units - 1
  OBVIOUS
<1> HIDE DEF T, w
<1>3. /\ half \in CpRecord /\ half.pc = "reader" /\ half.plan = "stream" /\ half.todo = T
      /\ half.replica = cp.replica /\ half.overwrite = cp.overwrite /\ half.resume = cp.resume
      /\ half.tries = cp.tries /\ half.check = cp.check /\ half.at = cp.at /\ half.staged = cp.staged
      /\ half.verified = cp.verified /\ half.result = cp.result /\ half.gone = cp.gone
  BY <1>0, <1>2 DEF CpRecord, CopyPlaces, Plans
<1> HIDE DEF half
<1>4. /\ cp' \in CpRecord /\ cp'.pc = "reader" /\ cp'.plan = "stream" /\ cp'.todo = T
      /\ cp'.twice = w /\ cp'.moved = 0 /\ cp'.made = FALSE
      /\ cp'.replica = cp.replica /\ cp'.overwrite = cp.overwrite /\ cp'.resume = cp.resume
      /\ cp'.tries = cp.tries /\ cp'.check = cp.check /\ cp'.at = cp.at /\ cp'.staged = cp.staged
      /\ cp'.verified = cp.verified /\ cp'.result = cp.result /\ cp'.gone = cp.gone
  BY <1>1, <1>2, <1>3 DEF CpRecord
<1>5. Open /\ Open' /\ ~Over /\ ~Over'
  BY <1>0, <1>4 DEF Open, Over
<1>6. file' \in FileRecord /\ file' \in {NoFile, file} /\ (job.dst = "stream" /\ ~cp.made => file' = file)
  BY <1>0 DEF BulkDeclined, NoFile, FileRecord
<1>7. Theirs'
  BY <1>6 DEF Theirs, NoFile
<1>8. CopyType' /\ Chosen'
  BY <1>0, <1>4, <1>6 DEF CopyType, Chosen
<1>9. job.dst \in {"local", "stream"} /\ cp.at = 0 /\ cp.staged = 0 /\ cp.moved \in Nat
  BY <1>0, <1>5 DEF Planned, Counted, CpRecord
<1>10. Planned'
  BY <1>0, <1>4, <1>5, <1>9 DEF Planned, Strict
<1>11. Counted'
  <2>1. Cardinality(0 .. Units - 1) = Units
    BY FS_Interval
  <2> QED
    BY <1>0, <1>2, <1>4, <1>9, <2>1 DEF Counted
<1>12. Landed' /\ Owned'
  BY <1>4 DEF Landed, Owned
<1>13. Streamed'
  <2>1. ~cp.twice
    BY <1>0 DEF Streamed
  <2>2. ASSUME job.dst = "stream", cp.replica = 1, ~w PROVE file'.data = <<>>
    <3>1. cp.moved = 0
      BY <1>2, <1>9, <2>2
    <3>2. file.data = <<>>
      <4>1. CASE cp.pc = "reader"
        BY <2>1, <2>2, <4>1 DEF Streamed
      <4>2. CASE cp.pc = "move"
        <5>1. Len(file.data) = 0 /\ file.data \in Seq({"right", "old", "hole"})
          BY <1>0, <2>1, <2>2, <3>1, <4>2 DEF Streamed, FileRecord
        <5> QED
          BY <5>1, EmptySeq
      <4> QED
        BY <1>0, <4>1, <4>2
    <3> QED
      BY <1>6, <3>2 DEF NoFile
  <2> QED
    BY <1>0, <1>2, <1>4, <2>2 DEF Streamed
<1>14. Vouched'
  BY <1>0, <1>4, <1>5 DEF Vouched
<1> QED
  BY <1>7, <1>8, <1>10, <1>11, <1>12, <1>13, <1>14 DEF CopyInv

\* A transfer that is over has moved everything, wherever it went.
LEMMA FinishStep == CopyInv /\ Finish => CopyInv'
<1> SUFFICES ASSUME CopyInv, Finish PROVE CopyInv'
  OBVIOUS
<1> CopyType /\ Chosen /\ Vouched /\ Theirs /\ Streamed /\ Planned /\ Counted /\ Landed /\ Owned
  BY DEF CopyInv
<1> USE CopyConstants
<1>0. /\ cp \in CpRecord /\ cp.pc = "move" /\ cp.todo = {} /\ WholeMoved /\ UNCHANGED <<job, other>>
      /\ file \in FileRecord
  BY DEF CopyType, Finish
<1>1. cp' = [cp EXCEPT !.pc = "check"]
  BY DEF Finish
<1>2. /\ cp' \in CpRecord /\ cp'.pc = "check"
      /\ cp'.replica = cp.replica /\ cp'.overwrite = cp.overwrite
      /\ cp'.resume = cp.resume /\ cp'.tries = cp.tries /\ cp'.plan = cp.plan
      /\ cp'.check = cp.check /\ cp'.at = cp.at /\ cp'.todo = cp.todo
      /\ cp'.moved = cp.moved /\ cp'.staged = cp.staged /\ cp'.made = cp.made
      /\ cp'.existed = cp.existed /\ cp'.twice = cp.twice
      /\ cp'.verified = cp.verified /\ cp'.result = cp.result /\ cp'.gone = cp.gone
  BY <1>0, <1>1 DEF CpRecord, CopyPlaces
<1>3. Open /\ ~Open' /\ ~Over /\ Over'
  BY <1>0, <1>2 DEF Open, Over
<1> DEFINE Web == job.dst \in {"http", "s3"}
           d == [i \in 1 .. cp.staged |-> "right"]
<1>4. (~Web => file' = file) /\ (Web => file' = [own |-> "ours", data |-> d])
  BY DEF Finish, PutDone
<1>5. d \in Seq({"right", "old", "hole"}) /\ (cp.staged = Units => d = RightData)
  <2>1. cp.staged \in Nat
    BY <1>0 DEF CpRecord
  <2> QED
    BY <2>1, IsASeq DEF RightData
<1> HIDE DEF d
<1>6. file' \in FileRecord /\ (Web => file'.own = "ours" /\ file'.data = d)
  BY <1>0, <1>4, <1>5 DEF FileRecord
<1>7. CopyType' /\ Chosen' /\ Theirs'
  BY <1>0, <1>2, <1>4, <1>6 DEF CopyType, Chosen, Theirs
<1>8. Planned'
  BY <1>0, <1>2, <1>3 DEF Planned, Strict
<1>9. Counted' /\ Landed'
  BY <1>2, <1>3 DEF Counted, Landed
<1>10. Streamed'
  BY <1>0, <1>2 DEF Streamed
<1>11. Owned'
  <2>1. cp.plan # "resume" /\ job.dst \in {"local", "root"} => file'.own = "ours"
    BY <1>0, <1>4 DEF Owned
  <2> QED
    BY <1>0, <1>2, <1>3, <1>6, <2>1 DEF Owned
<1>12. ASSUME cp.plan # "resume", ~cp.twice, job.dst = "stream" => cp.replica = 1,
              SizeKnown \/ cp.moved = Units
       PROVE  file'.data = RightData
  <2>1. cp.at = 0 /\ cp.moved \in Nat /\ cp.moved >= Units
    <3>1. cp.at = 0 /\ cp.moved \in Nat
      BY <1>0, <1>3, <1>12 DEF Planned, CpRecord
    <3>2. cp.at + cp.moved >= Units
      BY <1>0, <1>12, <3>1, CopyConstants DEF WholeMoved
    <3> QED
      BY <3>1, <3>2
  <2>2. Cardinality(cp.todo) = 0 /\ cp.moved = Units
    <3>1. Cardinality({}) = 0
      BY FS_EmptySet
    <3>2. Cardinality(cp.todo) + cp.moved <= Units
      BY <1>3, <1>12 DEF Counted
    <3> QED
      BY <1>0, <2>1, <3>1, <3>2
  <2>3. /\ file.data \in Seq({"right", "old", "hole"}) /\ Len(file.data) \in Nat
        /\ RightData \in Seq({"right", "old", "hole"}) /\ Len(RightData) = Units
        /\ \A i \in 1 .. Units : RightData[i] = "right"
    <3>1. RightData \in Seq({"right", "old", "hole"})
      BY IsASeq DEF RightData
    <3> QED
      BY <1>0, <3>1 DEF RightData, FileRecord
  <2>4. CASE job.dst \in {"local", "root"}
    <3>1. /\ Len(file.data) <= Units
          /\ \A u \in 0 .. Units - 1 : u < Len(file.data) /\ file.data[u + 1] = "right"
      BY <1>0, <1>12, <2>2, <2>4 DEF Landed
    <3>2. Len(file.data) = Units
      <4>1. CASE Units = 0
        BY <2>3, <3>1, <4>1
      <4>2. CASE Units # 0
        <5>1. Units - 1 \in 0 .. Units - 1
          BY <4>2
        <5> QED
          BY <2>3, <3>1, <5>1
      <4> QED
        BY <4>1, <4>2
    <3>3. \A i \in 1 .. Units : file.data[i] = "right"
      <4> SUFFICES ASSUME NEW i \in 1 .. Units PROVE file.data[i] = "right"
        OBVIOUS
      <4>1. i - 1 \in 0 .. Units - 1 /\ (i - 1) + 1 = i
        OBVIOUS
      <4> QED
        BY <3>1, <4>1
    <3>4. file.data = RightData
      BY <2>3, <3>2, <3>3, SeqEqual
    <3> QED
      BY <1>4, <2>4, <3>4
  <2>5. CASE job.dst \in {"http", "s3"}
    <3>1. cp.staged = Units
      BY <1>0, <1>12, <2>2, <2>5 DEF Landed
    <3> QED
      BY <1>5, <1>6, <2>5, <3>1
  <2>6. CASE job.dst = "stream"
    <3>1. Len(file.data) = Units /\ \A i \in 1 .. Units : file.data[i] = "right"
      BY <1>0, <1>12, <2>2, <2>6 DEF Streamed
    <3>2. file.data = RightData
      BY <2>3, <3>1, SeqEqual
    <3> QED
      BY <1>4, <2>6, <3>2
  <2>7. job.dst \in {"local", "root", "http", "s3", "stream"}
    BY JobFields DEF Ends
  <2> QED
    BY <2>4, <2>5, <2>6, <2>7
<1>13. Vouched'
  <2>1. UNCHANGED RightData
    BY DEF RightData
  <2> QED
    BY <1>0, <1>2, <1>3, <1>12, <2>1 DEF Vouched, EndRight, SizeKnown, SourceHeld
<1> QED
  BY <1>7, <1>8, <1>9, <1>10, <1>11, <1>13 DEF CopyInv

LEMMA TransferFailsStep == CopyInv /\ TransferFails => CopyInv'
<1> SUFFICES ASSUME CopyInv, TransferFails PROVE CopyInv'
  OBVIOUS
<1>1. Open /\ UNCHANGED <<job, other>> /\ \E kind \in {"drop", "stall", "error", "unsupported"} : Fail(kind)
  BY DEF TransferFails, Open
<1> QED
  BY <1>1, FailStep

\* The target is held against what was asked, and the answer is kept.
LEMMA CheckStep == CopyInv /\ Check => CopyInv'
<1> SUFFICES ASSUME CopyInv, Check PROVE CopyInv'
  OBVIOUS
<1> CopyType /\ Chosen /\ Vouched /\ Theirs /\ Streamed /\ Planned /\ Counted /\ Landed /\ Owned
  BY DEF CopyInv
<1>0. cp \in CpRecord /\ cp.pc = "check" /\ UNCHANGED <<job, file, other>> /\ file \in FileRecord
  BY DEF CopyType, Check
<1>1. Theirs' /\ file' \in FileRecord
  BY <1>0 DEF Theirs
<1> DEFINE unasked == cp.check = "none" \/ (~CanAsk /\ ~Strict)
<1>2. CASE ~unasked /\ (~CanAsk \/ ~Agrees)
  <2>1. cp' = Failed("error")
    BY <1>2 DEF Check
  <2> QED
    BY <1>0, <1>1, <2>1, Failing
<1>3. CASE unasked \/ (CanAsk /\ Agrees)
  <2>1. PICK v \in BOOLEAN : /\ v <=> ~unasked
                             /\ unasked => cp' = [cp EXCEPT !.pc = "remove"]
                             /\ ~unasked => cp' = [cp EXCEPT !.pc = "remove", !.verified = TRUE]
    BY <1>3 DEF Check
  <2>2. ~cp.verified /\ ~cp.gone /\ cp.result # "ok" /\ Over
    BY <1>0 DEF Vouched, Over
  <2>3. ASSUME v, job.dst = "stream" => cp.replica = 1, SourceHeld PROVE EndRight
    <3>1. Agrees /\ cp.check \in Checks \ {"none"}
      BY <1>0, <1>3, <2>1, <2>3 DEF CpRecord
    <3>2. CASE cp.check \in {"ends", "declared end"}
      BY <3>1, <3>2 DEF Agrees
    <3>3. CASE cp.check \in {"first", "declared stream", "after"}
      <4>1. ~cp.twice /\ cp.plan # "resume" /\ (SizeKnown \/ cp.moved = Units)
        BY <2>2, <2>3, <3>1, <3>3 DEF Agrees, Planned, SourceHeld
      <4> QED
        BY <2>2, <2>3, <4>1 DEF Vouched
    <3> QED
      BY <3>1, <3>2, <3>3 DEF Checks
  <2>4. Strict => v
    BY <2>1, <2>2 DEF Planned
  <2> HIDE DEF unasked
  <2>5. /\ cp' \in CpRecord /\ cp'.pc = "remove" /\ cp'.verified = v
        /\ cp'.replica = cp.replica /\ cp'.overwrite = cp.overwrite
        /\ cp'.resume = cp.resume /\ cp'.tries = cp.tries /\ cp'.plan = cp.plan
        /\ cp'.check = cp.check /\ cp'.at = cp.at /\ cp'.todo = cp.todo
        /\ cp'.moved = cp.moved /\ cp'.staged = cp.staged /\ cp'.made = cp.made
        /\ cp'.existed = cp.existed /\ cp'.twice = cp.twice /\ cp'.result = cp.result
        /\ cp'.gone = cp.gone
    <3>1. CASE unasked
      <4>1. cp' = [cp EXCEPT !.pc = "remove"] /\ ~v
        BY <2>1, <3>1
      <4>2. cp.verified = v
        BY <1>0, <2>2, <4>1 DEF CpRecord
      <4> QED
        BY <1>0, <4>1, <4>2 DEF CpRecord, CopyPlaces
    <3>2. CASE ~unasked
      <4>1. cp' = [cp EXCEPT !.pc = "remove", !.verified = v]
        BY <2>1, <3>2
      <4> QED
        BY <1>0, <4>1 DEF CpRecord, CopyPlaces
    <3> QED
      BY <3>1, <3>2
  <2>6. CopyType' /\ Chosen'
    BY <1>0, <2>5 DEF CopyType, Chosen
  <2>7. Over' /\ ~Open'
    BY <2>5 DEF Open, Over
  <2>8. Planned'
    BY <1>0, <2>2, <2>5 DEF Planned, Strict
  <2>9. Counted' /\ Landed' /\ Streamed'
    BY <1>0, <2>5, <2>7 DEF Counted, Landed, Streamed
  <2>10. Owned'
    BY <1>0, <2>5, <2>7 DEF Owned
  <2>11. /\ (EndRight' <=> EndRight) /\ (Strict' <=> Strict) /\ (Metalink' <=> Metalink)
         /\ (SizeKnown' <=> SizeKnown) /\ (SourceHeld' <=> SourceHeld)
    BY <1>0, <2>5 DEF EndRight, RightData, Strict, Metalink, SizeKnown, SourceHeld
  <2>12. Vouched'
    BY <1>0, <2>2, <2>3, <2>4, <2>5, <2>7, <2>11 DEF Vouched
  <2> QED
    BY <1>1, <2>6, <2>8, <2>9, <2>10, <2>12 DEF CopyInv
<1> QED
  BY <1>2, <1>3

LEMMA RemoveStep == CopyInv /\ Remove => CopyInv'
<1> SUFFICES ASSUME CopyInv, Remove PROVE CopyInv'
  OBVIOUS
<1> CopyType /\ Chosen /\ Vouched /\ Theirs /\ Streamed /\ Planned /\ Counted /\ Landed /\ Owned
  BY DEF CopyInv
<1>0. cp \in CpRecord /\ cp.pc = "remove" /\ UNCHANGED <<job, file, other>>
  BY DEF CopyType, Remove
<1> DEFINE g == job.remove /\ Named(job.src) /\ ~Metalink
<1>1. cp' = [cp EXCEPT !.pc = "done", !.result = "ok", !.gone = g] /\ g \in BOOLEAN /\ (g => ~Metalink)
  BY DEF Remove
<1> HIDE DEF g
<1>2. /\ cp' \in CpRecord /\ cp'.pc = "done" /\ cp'.result = "ok" /\ cp'.gone = g
      /\ cp'.replica = cp.replica /\ cp'.overwrite = cp.overwrite
      /\ cp'.resume = cp.resume /\ cp'.tries = cp.tries /\ cp'.plan = cp.plan
      /\ cp'.check = cp.check /\ cp'.at = cp.at /\ cp'.todo = cp.todo
      /\ cp'.moved = cp.moved /\ cp'.staged = cp.staged /\ cp'.made = cp.made
      /\ cp'.existed = cp.existed /\ cp'.twice = cp.twice
      /\ cp'.verified = cp.verified
  BY <1>0, <1>1 DEF CpRecord, CopyPlaces
<1>3. CopyType' /\ Chosen' /\ Theirs'
  BY <1>0, <1>2 DEF CopyType, Chosen, Theirs
<1>4. Over /\ Over' /\ ~Open'
  BY <1>0, <1>2 DEF Open, Over
<1>5. Planned'
  BY <1>0, <1>2, <1>4 DEF Planned, Strict
<1>6. Counted' /\ Landed' /\ Streamed' /\ Owned'
  BY <1>0, <1>2, <1>4 DEF Counted, Landed, Streamed, Owned
<1>7. /\ (EndRight' <=> EndRight) /\ (Strict' <=> Strict) /\ (Metalink' <=> Metalink)
      /\ (SizeKnown' <=> SizeKnown) /\ (SourceHeld' <=> SourceHeld)
  BY <1>0, <1>1, <1>2, <1>4 DEF EndRight, RightData, Strict, Metalink, SizeKnown, SourceHeld
<1>8. Vouched'
  BY <1>0, <1>1, <1>2, <1>4, <1>7 DEF Vouched
<1> QED
  BY <1>3, <1>5, <1>6, <1>8 DEF CopyInv

\* Another program only makes what is not there, and writes what it made.
LEMMA OtherStep == CopyInv /\ OtherWrites => CopyInv'
<1> SUFFICES ASSUME CopyInv, OtherWrites PROVE CopyInv'
  OBVIOUS
<1> CopyType /\ Chosen /\ Vouched /\ Theirs /\ Streamed /\ Planned /\ Counted /\ Landed /\ Owned
  BY DEF CopyInv
<1> USE CopyConstants
<1>0. cp.pc # "done" /\ job.dst # "stream" /\ UNCHANGED <<job, cp>> /\ file.own # "ours"
  BY DEF OtherWrites
<1>1. file' \in {[own |-> "theirs", data |-> <<>>], [own |-> "theirs", data |-> <<"old">>]}
      /\ other' \in {"away", "coming", "made"}
  BY DEF OtherWrites, Old
<1>2. file' \in FileRecord /\ file'.own = "theirs" /\ file'.data \in {<<>>, <<"old">>}
  <2>1. <<>> \in Seq({"right", "old", "hole"}) /\ <<"old">> \in Seq({"right", "old", "hole"})
    OBVIOUS
  <2>2. PICK d \in {<<>>, <<"old">>} : file' = [own |-> "theirs", data |-> d]
    BY <1>1
  <2>3. d \in Seq({"right", "old", "hole"})
    BY <2>1
  <2>4. file'.own = "theirs" /\ file'.data = d
    BY <2>2
  <2>5. \A x \in Seq({"right", "old", "hole"}) : [own |-> "theirs", data |-> x] \in FileRecord
    BY DEF FileRecord
  <2> QED
    BY <2>2, <2>3, <2>4, <2>5
<1>3. CopyType' /\ Chosen' /\ Theirs' /\ Planned' /\ Counted'
  <2>1. CopyType' /\ Chosen' /\ Theirs'
    BY <1>0, <1>1, <1>2 DEF CopyType, Chosen, Theirs
  <2>2. Planned'
    BY <1>0 DEF Planned, Open, Over, Strict
  <2>3. Counted'
    BY <1>0 DEF Counted, Open
  <2> QED
    BY <2>1, <2>2, <2>3
<1>4. ~(cp.pc \in {"move", "check", "remove"} /\ cp.plan # "resume" /\ job.dst \in {"local", "root"})
  BY <1>0 DEF Owned
<1>5. Landed' /\ Streamed' /\ Owned'
  <2>1. Landed'
    BY <1>0, <1>4 DEF Landed
  <2>2. Streamed'
    BY <1>0 DEF Streamed
  <2>3. Owned'
    BY <1>0 DEF Owned, Open
  <2> QED
    BY <2>1, <2>2, <2>3
<1>6. ~(Over /\ cp.plan # "resume") /\ ~(Over /\ job.dst \in {"http", "s3"})
  <2>1. job.dst \in {"local", "root", "http", "s3"}
    BY <1>0, JobFields DEF Ends
  <2>2. Over => cp.pc \in {"check", "remove"}
    BY <1>0 DEF Over
  <2> QED
    BY <1>0, <1>4, <2>1, <2>2 DEF Owned
<1>7. ~cp.verified
  <2> SUFFICES ASSUME cp.verified PROVE FALSE
    OBVIOUS
  <2>0. Over /\ cp.plan = "resume" /\ SourceHeld
    BY <1>0, <1>6 DEF Vouched, Planned, SourceHeld
  <2>1. Over /\ file.data = RightData
    BY <1>0, <2>0 DEF Vouched, EndRight
  <2>2. cp.plan = "resume" /\ Units > 0
    BY <1>6, <2>1 DEF Planned
  <2>3. file.own \in {"none", "theirs"}
    BY <1>0 DEF CopyType, FileRecord
  <2>4. file.data \in {<<>>, <<"old">>}
    BY <2>3 DEF Theirs
  <2>5. 1 \in 1 .. Units /\ RightData[1] = "right" /\ RightData \in Seq({"right"}) /\ Len(RightData) = Units
    <3>1. RightData \in Seq({"right"})
      BY IsASeq DEF RightData
    <3> QED
      BY <2>2, <3>1 DEF RightData
  <2>6. Len(<<>>) = 0 /\ <<"old">>[1] = "old"
    OBVIOUS
  <2> QED
    BY <2>1, <2>2, <2>4, <2>5, <2>6
<1>8. Vouched'
  <2>1. (Over' <=> Over) /\ (Strict' <=> Strict) /\ (Metalink' <=> Metalink)
    BY <1>0 DEF Over, Strict, Metalink
  <2> QED
    BY <1>0, <1>6, <1>7, <2>1 DEF Vouched
<1> QED
  BY <1>3, <1>5, <1>8 DEF CopyInv

LEMMA CopyKeeps == CopyInv /\ [CopyNext]_copyVars => CopyInv'
<1> SUFFICES ASSUME CopyInv, [CopyNext]_copyVars PROVE CopyInv'
  OBVIOUS
<1>1. CASE UNCHANGED copyVars
  <2> UNCHANGED <<job, cp, file, other>>
    BY <1>1 DEF copyVars
  <2>1. CopyType' /\ Theirs' /\ Chosen'
    BY DEF CopyInv, CopyType, Theirs, Chosen
  <2>2. (Open' <=> Open) /\ (Over' <=> Over) /\ (Strict' <=> Strict) /\ (Metalink' <=> Metalink)
        /\ (EndRight' <=> EndRight) /\ (SizeKnown' <=> SizeKnown) /\ (SourceHeld' <=> SourceHeld)
    BY DEF Open, Over, Strict, Metalink, EndRight, RightData, SizeKnown, SourceHeld
  <2>3. Planned' /\ Counted'
    BY <2>2 DEF CopyInv, Planned, Counted
  <2>4. Landed' /\ Streamed'
    BY DEF CopyInv, Landed, Streamed
  <2>5. Owned' /\ Vouched'
    BY <2>2 DEF CopyInv, Owned, Vouched
  <2> QED
    BY <2>1, <2>3, <2>4, <2>5 DEF CopyInv
<1>2. CASE CopyNext
  BY <1>2, StartStep, PrepareStep, ReaderStep, WriterStep, MoveStep, DeclinedStep, DryStep, FinishStep,
     TransferFailsStep, CheckStep, RemoveStep, OtherStep DEF CopyNext, CopySteps
<1> QED
  BY <1>1, <1>2

\* The invariant of a copy holds throughout, for a file of any length and any
\* number of retries and replicas (_transfer, _copy_one).
THEOREM CopyAlways == CopySpec => []CopyInv
<1>1. CopyInit => CopyInv
  BY CopyStarts
<1>2. CopyInv /\ [CopyNext]_copyVars => CopyInv'
  BY CopyKeeps
<1> QED
  BY <1>1, <1>2, PTL DEF CopySpec

\* A copy that vouches for its target has the whole source in it, and a move
\* that was asked to verify keeps one good copy (_checked, _require_whole,
\* _copy_one).
THEOREM CopyIsSafe == CopySpec => []CopySafe
<1>1. CopyInv => CopySafe
  <2> SUFFICES ASSUME CopyInv PROVE CopySafe
    OBVIOUS
  <2> CopyType /\ Chosen /\ Vouched /\ Planned
    BY DEF CopyInv
  <2>1. cp.result = "ok" => Over /\ cp.pc = "done"
    BY DEF Vouched, Over
  <2>2. CopiedWhole
    <3>1. cp.tries = 0 /\ ~job.resume /\ Over => cp.plan # "resume"
      BY DEF Chosen, Planned
    <3> QED
      BY <2>1, <3>1 DEF CopiedWhole, Vouched
  <2>3. MoveKeepsData
    <3> SUFFICES ASSUME cp.gone, job.verify = "yes" \/ cp.verified, SourceHeld PROVE EndRight
      BY DEF MoveKeepsData
    <3>1. cp.result = "ok" /\ ~Metalink /\ Over /\ cp.pc # "check"
      BY <2>1 DEF Vouched
    <3>2. cp.verified
      BY <3>1 DEF Vouched, Strict
    <3>3. cp.replica = 1
      <4>1. cp.replica \in Nat \ {0} /\ job.replicas \in Nat
        BY JobFields DEF CopyType, CpRecord
      <4> QED
        BY <3>1, <4>1 DEF Metalink, Chosen
    <3> QED
      BY <3>2, <3>3 DEF Vouched
  <2> QED
    BY <2>2, <2>3 DEF CopySafe
<1> QED
  BY <1>1, CopyAlways, PTL

\* Another program's local file outlives the copy's clean-up, and an exclusive
\* copy never writes to it (_may_clean, _discard_empty_target, _writer).
THEOREM TheirsIsKept == CopySpec => KeepsTheirs
<1> DEFINE Kept == job.dst = "local" /\ file.own = "theirs" /\ (cp.existed \/ file.data # << >>) =>
                     /\ file'.own # "none"
                     /\ ~job.overwrite /\ ~Metalink => file'.own = "theirs"
<1>1. CopyInv /\ [CopyNext]_copyVars => [Kept]_copyVars
  <2> SUFFICES ASSUME CopyInv, CopyNext, job.dst = "local", file.own = "theirs",
                      cp.existed \/ file.data # << >>
               PROVE  file'.own # "none" /\ (~job.overwrite /\ ~Metalink => file'.own = "theirs")
    OBVIOUS
  <2> CopyType /\ Chosen /\ Planned /\ Owned
    BY DEF CopyInv
  <2>0. ~job.overwrite /\ ~Metalink => ~cp.overwrite
    <3>1. cp.replica \in Nat \ {0} /\ job.replicas \in Nat
      BY JobFields DEF CopyType, CpRecord
    <3> QED
      BY <3>1 DEF Metalink, Chosen
  <2>1. CASE file' = file
    BY <2>1
  <2>2. CASE OpenReader
    <3>1. file' = file \/ (file'.own = "ours" /\ cp.plan = "bulk" /\ cp.pc = "reader")
      BY <2>2 DEF OpenReader
    <3> QED
      BY <2>0, <3>1 DEF Owned
  <2>3. CASE OpenWriter
    <3>1. file' = file \/ (file'.own = "ours" /\ cp.plan # "resume" /\ ~Refused)
      BY <2>3 DEF OpenWriter
    <3> QED
      BY <2>0, <3>1 DEF Refused
  <2>4. CASE MoveUnit
    <3>1. file'.own = "ours" /\ cp.pc = "move"
      BY <2>4 DEF MoveUnit
    <3>2. cp.plan = "resume" => cp.overwrite
      BY <3>1 DEF Planned, Open
    <3> QED
      BY <2>0, <3>1, <3>2 DEF Owned
  <2>5. CASE BulkDeclined
    BY <2>5 DEF BulkDeclined, Owned
  <2>6. CASE Finish
    BY <2>1, <2>6 DEF Finish
  <2>7. CASE TransferFails
    <3>0. PICK kind \in {"drop", "stall", "error", "unsupported"} : Fail(kind)
      BY <2>7 DEF TransferFails
    <3>1. PICK left \in LeftBehind : file' \in {left, Cleaned(left, kind)}
      BY <3>0 DEF Fail
    <3>2. left = file
      BY <2>7 DEF LeftBehind, Owned, TransferFails, NoFile
    <3>3. Cleaned(file, kind) = file
      BY DEF Cleaned
    <3> QED
      BY <3>1, <3>2, <3>3
  <2>8. CASE OtherWrites
    BY <2>8 DEF OtherWrites, Old
  <2>9. Start \/ Prepare \/ RunsDry \/ Check \/ Remove => file' = file
    BY DEF Start, Prepare, RunsDry, Check, Remove
  <2> QED
    BY <2>1, <2>2, <2>3, <2>4, <2>5, <2>6, <2>7, <2>8, <2>9 DEF CopyNext, CopySteps
<1> QED
  BY <1>1, CopyAlways, PTL DEF CopySpec, KeepsTheirs
=============================================================================
