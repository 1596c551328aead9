---------------------------- MODULE ClientProofs ----------------------------
(***************************************************************************)
(* Proofs about the faces of the client: the bindings' files, callbacks    *)
(* and copy jobs (Compat), the coroutines over the worker threads          *)
(* (AsyncBridge), the calls on a filesystem (Namespace), and the calls,    *)
(* readers and writers over HTTP and S3 (WebClient), for every value of    *)
(* the constants.                                                          *)
(***************************************************************************)
EXTENDS Compat, AsyncBridge, Namespace, WebClient, FiniteSetTheorems, SequenceTheorems, TLAPS

-----------------------------------------------------------------------------
(* The bindings' File, the queue of the dropped ones and the fork.         *)

BinRecord ==
    [queue : [Processes -> Seq(Opens)], popped : [Processes -> 0 .. MaxOpens],
     reaper : [Processes -> BOOLEAN], forked : BOOLEAN, inherited : SUBSET Opens,
     copied : 0 .. MaxOpens, closers : [Opens -> SUBSET Processes]]

BindingRecord ==
    [native : 0 .. MaxOpens, failed : BOOLEAN, opening : SUBSET Opens, closing : [Opens -> Nat], next : Nat,
     due : BOOLEAN, clash : SUBSET {"opens", "closes"}]

FileType ==
    /\ binding \in BindingRecord
    /\ handle \in [Opens -> {"none", "opening", "open", "closed"}]
    /\ bin \in BinRecord

\* What a process has to close: the queue, and what its reaper popped.
Waiting(p) == ToSet(bin.queue[p]) \cup {bin.popped[p]}

Kept ==
    binding.clash = {} => \A h \in Opens : handle[h] = "open" => binding.native = h \/ h \in Waiting("parent")

\* The File's own native file is not among the dropped ones: a file is made
\* once, under a number of its own.
Own ==
    /\ \A h \in Waiting("parent") \ {0} : h < binding.next /\ h # binding.native /\ h \notin binding.opening
    /\ binding.native < binding.next /\ \A h \in binding.opening : h < binding.next

\* A caller that waits for each open and each close has one open under way,
\* with nothing open, or one close, of the file that is.
Single ==
    binding.clash = {} => /\ binding.opening # {} => binding.native = 0
                          /\ \A h, k \in binding.opening : h = k
                          /\ \A h \in Opens : binding.closing[h] # 0 => h = binding.native /\ binding.closing[h] = 1

\* The child has nothing before it is forked, and nothing of what was queued
\* in its parent then.
Apart ==
    /\ ~bin.forked => /\ Waiting("child") \subseteq {0} /\ bin.copied = 0
                      /\ \A h \in Opens : "child" \notin bin.closers[h]
    /\ \A h \in bin.inherited : h \notin Waiting("child") /\ h # bin.copied /\ "child" \notin bin.closers[h]

FilesInv == FileType /\ Kept /\ Own /\ Single /\ Apart

LEMMA Constants ==
    /\ MaxOpens \in Nat /\ MaxParts \in Nat /\ MaxCloses \in Nat
    /\ \A k \in JobKinds : k \in JobRecord
  BY CompatAssumption

\* The members of a queue.
LEMMA Members ==
    ASSUME NEW S, NEW s \in Seq(S)
    PROVE  /\ ToSet(s) \subseteq S
           /\ ToSet(<<>>) = {}
           /\ \A x \in S : ToSet(Append(s, x)) = ToSet(s) \cup {x}
           /\ s # <<>> => Head(s) \in S /\ Tail(s) \in Seq(S) /\ ToSet(s) = {Head(s)} \cup ToSet(Tail(s))
<1>1. ToSet(s) \subseteq S /\ ToSet(<<>>) = {}
  BY DEF ToSet
<1>2. ASSUME NEW x \in S PROVE ToSet(Append(s, x)) = ToSet(s) \cup {x}
  <2>1. /\ Append(s, x) \in Seq(S) /\ Len(Append(s, x)) = Len(s) + 1 /\ Append(s, x)[Len(s) + 1] = x
        /\ \A i \in 1 .. Len(s) : Append(s, x)[i] = s[i]
    BY AppendProperties
  <2>2. DOMAIN Append(s, x) = 1 .. Len(s) + 1 /\ DOMAIN s = 1 .. Len(s) /\ Len(s) \in Nat
    BY <2>1
  <2>3. 1 .. Len(s) + 1 = (1 .. Len(s)) \cup {Len(s) + 1}
    BY <2>2
  <2> QED
    BY <2>1, <2>2, <2>3 DEF ToSet
<1>3. ASSUME s # <<>> PROVE Head(s) \in S /\ Tail(s) \in Seq(S) /\ ToSet(s) = {Head(s)} \cup ToSet(Tail(s))
  <2>1. /\ Head(s) \in S /\ Tail(s) \in Seq(S) /\ Len(Tail(s)) = Len(s) - 1
        /\ \A i \in 1 .. Len(Tail(s)) : Tail(s)[i] = s[i + 1]
    BY <1>3, HeadTailProperties
  <2>2. Head(s) = s[1] /\ Len(s) \in Nat \ {0} /\ DOMAIN s = 1 .. Len(s)
    BY <1>3, EmptySeq
  <2>3. DOMAIN Tail(s) = 1 .. Len(s) - 1
    BY <2>1
  <2>4. ASSUME NEW i \in 1 .. Len(s) PROVE s[i] = Head(s) \/ s[i] \in ToSet(Tail(s))
    <3>1. CASE i = 1
      BY <2>2, <3>1
    <3>2. CASE i # 1
      <4>1. i - 1 \in 1 .. Len(s) - 1 /\ (i - 1) + 1 = i
        BY <2>2, <3>2
      <4> QED
        BY <2>1, <2>3, <4>1 DEF ToSet
    <3> QED
      BY <3>1, <3>2
  <2>5. ASSUME NEW i \in 1 .. Len(s) - 1 PROVE Tail(s)[i] \in ToSet(s)
    <3>1. i + 1 \in 1 .. Len(s)
      BY <2>2
    <3> QED
      BY <2>1, <2>2, <3>1 DEF ToSet
  <2>6. Head(s) \in ToSet(s)
    <3>1. 1 \in 1 .. Len(s)
      BY <2>2
    <3> QED
      BY <2>2, <3>1 DEF ToSet
  <2> QED
    BY <2>1, <2>2, <2>3, <2>4, <2>5, <2>6 DEF ToSet
<1> QED
  BY <1>1, <1>2, <1>3

LEMMA ClosedByIs ==
    ASSUME NEW b \in BinRecord, NEW p \in Processes, NEW hs
    PROVE  /\ ClosedBy(b, p, hs) \in BinRecord
           /\ ClosedBy(b, p, hs).queue = b.queue /\ ClosedBy(b, p, hs).popped = b.popped
           /\ ClosedBy(b, p, hs).forked = b.forked /\ ClosedBy(b, p, hs).copied = b.copied
           /\ ClosedBy(b, p, hs).inherited = b.inherited
           /\ \A h \in Opens : ClosedBy(b, p, hs).closers[h] = b.closers[h] \cup (IF h \in hs THEN {p} ELSE {})
<1> DEFINE c == [h \in Opens |-> IF h \in hs THEN b.closers[h] \cup {p} ELSE b.closers[h]]
<1>1. c \in [Opens -> SUBSET Processes]
      /\ \A h \in Opens : c[h] = b.closers[h] \cup (IF h \in hs THEN {p} ELSE {})
  BY DEF BinRecord
<1>2. ClosedBy(b, p, hs) = [b EXCEPT !.closers = c]
  BY DEF ClosedBy
<1> HIDE DEF c
<1> QED
  BY <1>1, <1>2 DEF BinRecord

LEMMA SweptIs ==
    ASSUME NEW b \in BinRecord, NEW p \in Processes
    PROVE  /\ Swept(b, p) \in BinRecord
           /\ Swept(b, p).queue = [b.queue EXCEPT ![p] = <<>>] /\ Swept(b, p).popped = b.popped
           /\ Swept(b, p).forked = b.forked /\ Swept(b, p).copied = b.copied
           /\ Swept(b, p).inherited = b.inherited
           /\ \A h \in Opens : Swept(b, p).closers[h] =
                                 b.closers[h] \cup (IF h \in ToSet(b.queue[p]) THEN {p} ELSE {})
<1> DEFINE c == [b EXCEPT !.queue[p] = <<>>, !.reaper[p] = TRUE]
<1>1. <<>> \in Seq(Opens)
  OBVIOUS
<1>2. [b.queue EXCEPT ![p] = <<>>] \in [Processes -> Seq(Opens)]
  BY <1>1 DEF BinRecord
<1>3. /\ c \in BinRecord /\ c.queue = [b.queue EXCEPT ![p] = <<>>] /\ c.popped = b.popped /\ c.forked = b.forked
      /\ c.copied = b.copied /\ c.inherited = b.inherited /\ c.closers = b.closers
  BY <1>2 DEF BinRecord
<1>4. Swept(b, p) = ClosedBy(c, p, ToSet(b.queue[p]))
  BY DEF Swept
<1> HIDE DEF c
<1> QED
  BY <1>3, <1>4, ClosedByIs

LEMMA FilesStart == CompatInit => FilesInv
<1> SUFFICES ASSUME CompatInit PROVE FilesInv
  OBVIOUS
<1> USE Constants
<1>1. binding.native = 0 /\ binding.opening = {} /\ binding.next = 1 /\ binding.closing = NoneClosing
      /\ binding \in BindingRecord
  <2>1. NoneClosing \in [Opens -> Nat]
    BY DEF NoneClosing
  <2> QED
    BY <2>1 DEF CompatInit, NewFile, BindingRecord
<1>2. handle \in [Opens -> {"none", "opening", "open", "closed"}] /\ \A h \in Opens : handle[h] = "none"
  BY DEF CompatInit
<1>3. /\ [p \in Processes |-> <<>>] \in [Processes -> Seq(Opens)]
      /\ [p \in Processes |-> 0] \in [Processes -> 0 .. MaxOpens]
      /\ [p \in Processes |-> FALSE] \in [Processes -> BOOLEAN]
      /\ [h \in Opens |-> {}] \in [Opens -> SUBSET Processes]
  OBVIOUS
<1>4. /\ bin \in BinRecord /\ bin.queue = [p \in Processes |-> <<>>] /\ bin.popped = [p \in Processes |-> 0]
      /\ bin.forked = FALSE /\ bin.copied = 0 /\ bin.inherited = {} /\ bin.closers = [h \in Opens |-> {}]
  BY <1>3 DEF CompatInit, BinRecord
<1>5. \A p \in Processes : Waiting(p) = {0}
  <2>1. <<>> \in Seq(Opens)
    OBVIOUS
  <2>2. ToSet(<<>>) = {}
    BY <2>1, Members
  <2> QED
    BY <1>4, <2>2 DEF Waiting
<1>6. "parent" \in Processes /\ "child" \in Processes
  BY DEF Processes
<1> QED
  BY <1>1, <1>2, <1>4, <1>5, <1>6 DEF FilesInv, FileType, Kept, Own, Single, Apart, NoneClosing

LEMMA Both == "parent" \in Processes /\ "child" \in Processes /\ "parent" # "child"
  BY DEF Processes

\* What is waiting is a number of a file, or nothing.
LEMMA WaitingIs ==
    ASSUME FileType
    PROVE  /\ \A p \in Processes : Waiting(p) \subseteq 0 .. MaxOpens
           /\ \A p \in Processes : /\ bin.queue[p] \in Seq(Opens) /\ bin.popped[p] \in 0 .. MaxOpens
                                   /\ ToSet(bin.queue[p]) \subseteq Opens
           /\ 0 \notin Opens
<1>1. \A p \in Processes : bin.queue[p] \in Seq(Opens) /\ bin.popped[p] \in 0 .. MaxOpens
  BY DEF FileType, BinRecord
<1>2. \A p \in Processes : ToSet(bin.queue[p]) \subseteq Opens
  BY <1>1, Members
<1>3. Opens \subseteq 0 .. MaxOpens /\ 0 \notin Opens
  BY Constants DEF Opens
<1> QED
  BY <1>1, <1>2, <1>3 DEF Waiting

LEMMA ShutDownIs ==
    ASSUME FileType, NEW hs
    PROVE  /\ ShutDown(hs) \in [Opens -> {"none", "opening", "open", "closed"}]
           /\ \A h \in Opens : ShutDown(hs)[h] = IF h \in hs THEN "closed" ELSE handle[h]
  BY DEF ShutDown, FileType

LEMMA OpenFileStep == FilesInv /\ OpenFile => FilesInv'
<1> SUFFICES ASSUME FilesInv, OpenFile PROVE FilesInv'
  OBVIOUS
<1> FileType /\ Kept /\ Own /\ Single /\ Apart
  BY DEF FilesInv
<1> USE Constants, Both
<1> DEFINE n == binding.next
           q == ToSet(bin.queue["parent"])
<1>1. n \in Nat /\ n <= MaxOpens /\ binding.native = 0 /\ n \in Opens /\ n # 0
  BY DEF OpenFile, FileType, BindingRecord, Opens, Own
<1>2. /\ binding' \in BindingRecord
      /\ binding'.native = 0 /\ binding'.opening = binding.opening \cup {n} /\ binding'.next = n + 1
      /\ binding'.closing = binding.closing
      /\ binding'.clash = {} => binding.clash = {} /\ binding.opening = {}
  <2> DEFINE m == n + 1
             o == binding.opening \cup {n}
             c == IF binding.opening = {} THEN binding.clash ELSE binding.clash \cup {"opens"}
  <2>1. binding' = [binding EXCEPT !.opening = o, !.next = m, !.clash = c]
    BY DEF OpenFile, FileType, BindingRecord
  <2>2. m \in Nat /\ o \in SUBSET Opens /\ c \in SUBSET {"opens", "closes"}
        /\ (c = {} => binding.clash = {} /\ binding.opening = {})
    BY <1>1 DEF FileType, BindingRecord
  <2> HIDE DEF n, m, o, c
  <2>3. /\ binding' \in BindingRecord /\ binding'.native = binding.native /\ binding'.opening = o
        /\ binding'.next = m /\ binding'.closing = binding.closing /\ binding'.clash = c
    BY <2>1, <2>2 DEF FileType, BindingRecord
  <2> QED
    BY <1>1, <2>2, <2>3 DEF m, o
<1>3. /\ handle' \in [Opens -> {"none", "opening", "open", "closed"}]
      /\ \A h \in Opens : handle'[h] = "open" => handle[h] = "open" /\ h \notin q
  <2> DEFINE f == ShutDown(q)
  <2>1. handle' = [f EXCEPT ![n] = "opening"]
    BY DEF OpenFile
  <2>2. /\ f \in [Opens -> {"none", "opening", "open", "closed"}]
        /\ \A h \in Opens : f[h] = IF h \in q THEN "closed" ELSE handle[h]
    BY ShutDownIs
  <2> HIDE DEF f, n, q
  <2>3. handle' \in [Opens -> {"none", "opening", "open", "closed"}]
    BY <2>1, <2>2
  <2>4. \A h \in Opens : handle'[h] = IF h = n THEN "opening" ELSE f[h]
    BY <2>1, <2>2
  <2> QED
    BY <2>2, <2>3, <2>4
<1>4. /\ bin' \in BinRecord /\ bin'.queue = [bin.queue EXCEPT !["parent"] = <<>>] /\ bin'.popped = bin.popped
      /\ bin'.forked = bin.forked /\ bin'.copied = bin.copied /\ bin'.inherited = bin.inherited
      /\ \A h \in Opens : bin'.closers[h] = bin.closers[h] \cup (IF h \in q THEN {"parent"} ELSE {})
  <2>1. bin' = Swept(bin, "parent") /\ bin \in BinRecord
    BY DEF OpenFile, FileType
  <2> QED
    BY <2>1, SweptIs
<1>5. Waiting("parent")' = {bin.popped["parent"]} /\ Waiting("child")' = Waiting("child")
  <2>1. ToSet(<<>>) = {}
    BY Members, WaitingIs
  <2>2. bin.queue \in [Processes -> Seq(Opens)]
    BY DEF FileType, BinRecord
  <2> QED
    BY <1>4, <2>1, <2>2 DEF Waiting
<1> HIDE DEF n, q
<1>6. FileType'
  BY <1>2, <1>3, <1>4 DEF FileType
<1>7. Kept'
  BY <1>1, <1>2, <1>3, <1>5, WaitingIs DEF Kept, Waiting, q
<1>8. Own'
  <2>1. \A h \in Waiting("parent") \ {0} : h \in Nat /\ h < n /\ h \notin binding.opening
    BY WaitingIs DEF Own, n
  <2>2. \A h \in binding.opening : h \in Nat /\ h < n
    BY DEF Own, n, FileType, BindingRecord, Opens
  <2> QED
    BY <1>1, <1>2, <1>5, <2>1, <2>2 DEF Own, Waiting
<1>10. Single'
  <2>1. 0 \notin Opens
    BY DEF Opens
  <2> QED
    BY <1>1, <1>2, <2>1 DEF Single
<1>9. Apart'
  <2>1. bin.inherited \subseteq Opens
    BY DEF FileType, BinRecord
  <2> QED
    BY <1>4, <1>5, <2>1 DEF Apart
<1> QED
  BY <1>6, <1>7, <1>8, <1>9, <1>10 DEF FilesInv

LEMMA OpenedStep == ASSUME NEW h \in Opens, FilesInv, OpenedFile(h) PROVE FilesInv'
<1> FileType /\ Kept /\ Own /\ Single /\ Apart
  BY DEF FilesInv
<1> USE Constants, Both
<1>0. UNCHANGED bin /\ \A p \in Processes : Waiting(p)' = Waiting(p)
  BY DEF OpenedFile, Waiting
<1>1. h \in binding.opening /\ h < binding.next /\ h \in 0 .. MaxOpens
  BY DEF OpenedFile, Opens, Own
<1>2. PICK ok \in BOOLEAN :
        /\ handle' = [handle EXCEPT ![h] = IF ok THEN "open" ELSE "closed"]
        /\ binding' \in BindingRecord /\ binding'.opening = binding.opening \ {h}
        /\ binding'.native = (IF ok THEN h ELSE binding.native)
        /\ binding'.next = binding.next /\ binding'.closing = binding.closing /\ binding'.clash = binding.clash
  <2> DEFINE o == binding.opening \ {h}
  <2>0. o \in SUBSET Opens /\ binding \in BindingRecord
    BY DEF FileType, BindingRecord
  <2>1. CASE /\ handle' = [handle EXCEPT ![h] = "open"]
             /\ binding' = [binding EXCEPT !.opening = @ \ {h}, !.native = h, !.due = TRUE]
    <3>1. binding' = [binding EXCEPT !.opening = o, !.native = h, !.due = TRUE]
      BY <2>0, <2>1 DEF BindingRecord
    <3> HIDE DEF o
    <3>2. /\ binding' \in BindingRecord /\ binding'.opening = o /\ binding'.native = h
          /\ binding'.next = binding.next /\ binding'.closing = binding.closing /\ binding'.clash = binding.clash
      BY <1>1, <2>0, <3>1 DEF BindingRecord
    <3> QED
      BY <2>1, <3>2 DEF o
  <2>2. CASE /\ handle' = [handle EXCEPT ![h] = "closed"]
             /\ binding' = [binding EXCEPT !.opening = @ \ {h}, !.failed = TRUE]
    <3>1. binding' = [binding EXCEPT !.opening = o, !.failed = TRUE]
      BY <2>0, <2>2 DEF BindingRecord
    <3> HIDE DEF o
    <3>2. /\ binding' \in BindingRecord /\ binding'.opening = o /\ binding'.native = binding.native
          /\ binding'.next = binding.next /\ binding'.closing = binding.closing /\ binding'.clash = binding.clash
      BY <2>0, <3>1 DEF BindingRecord
    <3> QED
      BY <2>2, <3>2 DEF o
  <2> QED
    BY <2>1, <2>2 DEF OpenedFile
<1>3. /\ handle' \in [Opens -> {"none", "opening", "open", "closed"}]
      /\ \A x \in Opens : handle'[x] = IF x = h THEN (IF ok THEN "open" ELSE "closed") ELSE handle[x]
  <2>1. handle \in [Opens -> {"none", "opening", "open", "closed"}]
    BY DEF FileType
  <2> QED
    BY <1>1, <1>2, <2>1
<1>7. FileType'
  BY <1>0, <1>2, <1>3 DEF FileType
<1>4. Kept'
  <2> SUFFICES ASSUME binding.clash = {}, NEW x \in Opens, handle'[x] = "open"
               PROVE  binding'.native = x \/ x \in Waiting("parent")
    BY <1>0, <1>2 DEF Kept
  <2>1. CASE x = h
    BY <1>2, <1>3, <2>1
  <2>2. CASE x # h
    <3>1. handle[x] = "open" /\ binding.native = 0
      BY <1>1, <1>3, <2>2 DEF Single
    <3>2. x # 0
      BY DEF Opens
    <3> QED
      BY <3>1, <3>2 DEF Kept
  <2> QED
    BY <2>1, <2>2
<1>5. Own'
  <2>1. \A x \in Waiting("parent") \ {0} : x < binding.next /\ x # h /\ x # binding.native /\ x \notin binding.opening
    BY <1>1 DEF Own
  <2>2. \A x \in binding.opening : x < binding.next
    BY DEF Own
  <2>3. binding'.native < binding.next
    BY <1>1, <1>2 DEF Own
  <2> QED
    BY <1>0, <1>2, <2>1, <2>2, <2>3 DEF Own
<1>8. Single'
  <2> SUFFICES ASSUME binding.clash = {}
               PROVE  /\ binding'.opening # {} => binding'.native = 0
                      /\ \A x, y \in binding'.opening : x = y
                      /\ \A x \in Opens : binding'.closing[x] # 0 => x = binding'.native /\ binding'.closing[x] = 1
    BY <1>2 DEF Single
  <2>1. binding.native = 0 /\ binding'.opening = {}
    BY <1>1, <1>2 DEF Single
  <2>2. \A x \in Opens : binding.closing[x] = 0
    BY <2>1 DEF Single, Opens
  <2> QED
    BY <1>2, <2>1, <2>2
<1>6. Apart'
  BY <1>0 DEF Apart
<1> QED
  BY <1>4, <1>5, <1>6, <1>7, <1>8 DEF FilesInv

LEMMA CloseFileStep == FilesInv /\ CloseFile => FilesInv'
<1> SUFFICES ASSUME FilesInv, CloseFile PROVE FilesInv'
  OBVIOUS
<1> FileType /\ Kept /\ Own /\ Single /\ Apart
  BY DEF FilesInv
<1> USE Constants, Both
<1> DEFINE n == binding.native
<1>0. UNCHANGED <<handle, bin>> /\ (\A p \in Processes : Waiting(p)' = Waiting(p)) /\ n \in Opens
  BY DEF CloseFile, Waiting, FileType, BindingRecord, Opens
<1>1. /\ binding' \in BindingRecord /\ binding'.native = n /\ binding'.opening = binding.opening
      /\ binding'.next = binding.next
      /\ \A h \in Opens : binding'.closing[h] = IF h = n THEN binding.closing[h] + 1 ELSE binding.closing[h]
      /\ binding'.clash = {} => binding.clash = {} /\ binding.closing = NoneClosing
  <2> DEFINE f == [binding.closing EXCEPT ![n] = @ + 1]
             c == IF binding.closing = NoneClosing THEN binding.clash ELSE binding.clash \cup {"closes"}
  <2>0. binding \in BindingRecord /\ binding.closing \in [Opens -> Nat]
    BY DEF FileType, BindingRecord
  <2>1. binding' = [binding EXCEPT !.closing = f, !.due = FALSE, !.clash = c]
    BY <2>0 DEF CloseFile, BindingRecord
  <2>2. /\ f \in [Opens -> Nat]
        /\ \A h \in Opens : f[h] = IF h = n THEN binding.closing[h] + 1 ELSE binding.closing[h]
    BY <1>0, <2>0
  <2>3. c \in SUBSET {"opens", "closes"} /\ (c = {} => binding.clash = {} /\ binding.closing = NoneClosing)
    BY <2>0 DEF BindingRecord
  <2> HIDE DEF f, c
  <2>4. /\ binding' \in BindingRecord /\ binding'.native = binding.native /\ binding'.opening = binding.opening
        /\ binding'.next = binding.next /\ binding'.closing = f /\ binding'.clash = c
    BY <2>0, <2>1, <2>2, <2>3 DEF BindingRecord
  <2> QED
    BY <2>2, <2>3, <2>4
<1>2. FileType'
  BY <1>0, <1>1 DEF FileType
<1>3. Kept'
  BY <1>0, <1>1 DEF Kept
<1>4. Own'
  BY <1>0, <1>1 DEF Own
<1>5. Single'
  <2> SUFFICES ASSUME binding.clash = {}, binding.closing = NoneClosing
               PROVE  /\ binding'.opening # {} => binding'.native = 0
                      /\ \A x, y \in binding'.opening : x = y
                      /\ \A x \in Opens : binding'.closing[x] # 0 => x = binding'.native /\ binding'.closing[x] = 1
    BY <1>1 DEF Single
  <2>1. \A x \in Opens : binding.closing[x] = 0
    BY DEF NoneClosing
  <2> QED
    BY <1>1, <2>1 DEF Single
<1>6. Apart'
  BY <1>0 DEF Apart
<1> QED
  BY <1>2, <1>3, <1>4, <1>5, <1>6 DEF FilesInv

LEMMA ClosedStep == ASSUME NEW k \in Opens, FilesInv, ClosedFile(k) PROVE FilesInv'
<1> FileType /\ Kept /\ Own /\ Single /\ Apart
  BY DEF FilesInv
<1> USE Constants, Both
<1>1. /\ binding' \in BindingRecord /\ binding'.native = 0 /\ binding'.opening = binding.opening
      /\ binding'.next = binding.next /\ binding'.clash = binding.clash
      /\ \A h \in Opens : binding'.closing[h] = IF h = k THEN binding.closing[h] - 1 ELSE binding.closing[h]
  <2> DEFINE f == [binding.closing EXCEPT ![k] = @ - 1]
  <2>0. binding \in BindingRecord /\ binding.closing \in [Opens -> Nat] /\ binding.closing[k] > 0
    BY DEF FileType, BindingRecord, ClosedFile
  <2>1. binding' = [binding EXCEPT !.closing = f, !.native = 0]
    BY <2>0 DEF ClosedFile, BindingRecord
  <2>2. /\ f \in [Opens -> Nat]
        /\ \A h \in Opens : f[h] = IF h = k THEN binding.closing[h] - 1 ELSE binding.closing[h]
    BY <2>0
  <2> HIDE DEF f
  <2>4. 0 \in 0 .. MaxOpens
    OBVIOUS
  <2>3. /\ binding' \in BindingRecord /\ binding'.native = 0 /\ binding'.opening = binding.opening
        /\ binding'.next = binding.next /\ binding'.closing = f /\ binding'.clash = binding.clash
    BY <2>0, <2>1, <2>2, <2>4 DEF BindingRecord
  <2> QED
    BY <2>2, <2>3
<1>2. /\ handle' \in [Opens -> {"none", "opening", "open", "closed"}]
      /\ \A h \in Opens : handle'[h] = "open" => handle[h] = "open" /\ h # k
  <2>1. handle' = ShutDown({k})
    BY DEF ClosedFile
  <2> QED
    BY <2>1, ShutDownIs
<1>3. /\ bin' \in BinRecord /\ bin'.queue = bin.queue /\ bin'.popped = bin.popped
      /\ bin'.forked = bin.forked /\ bin'.copied = bin.copied /\ bin'.inherited = bin.inherited
      /\ \A h \in Opens : bin'.closers[h] \subseteq bin.closers[h] \cup {"parent"}
  <2>1. bin' = ClosedBy(bin, "parent", {k}) /\ bin \in BinRecord
    BY DEF ClosedFile, FileType
  <2> QED
    BY <2>1, ClosedByIs
<1>4. \A p \in Processes : Waiting(p)' = Waiting(p)
  BY <1>3 DEF Waiting
<1>10. binding.closing[k] # 0
  BY DEF ClosedFile, FileType, BindingRecord
<1>5. FileType'
  BY <1>1, <1>2, <1>3 DEF FileType
<1>6. Kept'
  <2> SUFFICES ASSUME binding.clash = {}, NEW x \in Opens, handle'[x] = "open"
               PROVE  x \in Waiting("parent")
    BY <1>1, <1>4 DEF Kept
  <2>1. k = binding.native
    BY <1>10 DEF Single
  <2> QED
    BY <1>2, <2>1 DEF Kept
<1>7. Own'
  <2>1. \A h \in Waiting("parent") \ {0} : h # 0 /\ h < binding.next /\ h \notin binding.opening
    BY DEF Own
  <2>2. 0 < binding.next /\ \A h \in binding.opening : h < binding.next
    BY DEF Own, FileType, BindingRecord
  <2> QED
    BY <1>1, <1>4, <2>1, <2>2 DEF Own
<1>9. Single'
  <2> SUFFICES ASSUME binding.clash = {}
               PROVE  /\ \A x, y \in binding.opening : x = y
                      /\ \A x \in Opens : binding'.closing[x] = 0
    BY <1>1 DEF Single
  <2>1. k = binding.native /\ binding.closing[k] = 1
    BY <1>10 DEF Single
  <2>2. \A x \in Opens : x # k => binding.closing[x] = 0
    BY <2>1 DEF Single
  <2> QED
    BY <1>1, <2>1, <2>2 DEF Single
<1>8. Apart'
  <2>1. bin.inherited \subseteq Opens
    BY DEF FileType, BinRecord
  <2> QED
    BY <1>3, <1>4, <2>1 DEF Apart
<1> QED
  BY <1>5, <1>6, <1>7, <1>8, <1>9 DEF FilesInv

LEMMA CollectStep == FilesInv /\ CollectFile => FilesInv'
<1> SUFFICES ASSUME FilesInv, CollectFile PROVE FilesInv'
  OBVIOUS
<1> FileType /\ Kept /\ Own /\ Single /\ Apart
  BY DEF FilesInv
<1> USE Constants, Both
<1> DEFINE n == binding.native
<1>1. /\ binding' \in BindingRecord /\ binding'.native = 0 /\ binding'.opening = {} /\ binding'.next = binding.next
      /\ binding'.clash = binding.clash /\ binding'.closing = NoneClosing
  <2>1. NoneClosing \in [Opens -> Nat] /\ 0 \in 0 .. MaxOpens
    BY DEF NoneClosing
  <2>2. binding.next \in Nat /\ binding.clash \in SUBSET {"opens", "closes"}
    BY DEF FileType, BindingRecord
  <2>3. binding' = [native |-> 0, failed |-> FALSE, opening |-> {}, closing |-> NoneClosing, next |-> binding.next,
                    due |-> FALSE, clash |-> binding.clash]
    BY DEF CollectFile, NewFile
  <2> QED
    BY <2>1, <2>2, <2>3 DEF BindingRecord
<1>2. UNCHANGED handle /\ n < binding.next /\ n \in 0 .. MaxOpens /\ binding.next \in Nat
  BY DEF CollectFile, FileType, BindingRecord, Own
<1>3. /\ bin' \in BinRecord /\ Waiting("child")' = Waiting("child")
      /\ Waiting("parent")' \ {0} = (Waiting("parent") \cup {n}) \ {0}
      /\ bin'.forked = bin.forked /\ bin'.copied = bin.copied /\ bin'.inherited = bin.inherited
      /\ bin'.closers = bin.closers
  <2>1. CASE n = 0
    <3>1. bin' = bin
      BY <2>1 DEF CollectFile, Dropped
    <3>2. bin' \in BinRecord /\ Waiting("parent")' = Waiting("parent") /\ Waiting("child")' = Waiting("child")
      BY <3>1 DEF FileType, Waiting
    <3> QED
      BY <2>1, <3>1, <3>2
  <2>2. CASE n # 0
    <3> DEFINE s == Append(bin.queue["parent"], n)
               q == [bin.queue EXCEPT !["parent"] = s]
    <3>1. n \in Opens /\ bin.queue \in [Processes -> Seq(Opens)]
      BY <1>2, <2>2 DEF Opens, FileType, BinRecord
    <3>2. s \in Seq(Opens) /\ ToSet(s) = ToSet(bin.queue["parent"]) \cup {n}
      BY <3>1, Members, AppendProperties
    <3>3. bin' = [bin EXCEPT !.queue = q]
      BY <2>2 DEF CollectFile, Dropped, FileType, BinRecord
    <3> HIDE DEF s
    <3>4. q \in [Processes -> Seq(Opens)] /\ q["parent"] = s /\ q["child"] = bin.queue["child"]
      BY <3>1, <3>2
    <3> HIDE DEF q
    <3>5. /\ bin' \in BinRecord /\ bin'.queue = q /\ bin'.popped = bin.popped
          /\ bin'.forked = bin.forked /\ bin'.copied = bin.copied /\ bin'.inherited = bin.inherited
          /\ bin'.closers = bin.closers
      BY <3>3, <3>4 DEF FileType, BinRecord
    <3> QED
      BY <3>2, <3>4, <3>5 DEF Waiting
  <2> QED
    BY <2>1, <2>2
<1> HIDE DEF n
<1>4. FileType'
  BY <1>1, <1>2, <1>3 DEF FileType
<1>5. Kept'
  BY <1>1, <1>2, <1>3, WaitingIs DEF Kept, n
<1>6. Own'
  <2>1. \A h \in Waiting("parent")' \ {0} : h # 0 /\ h < binding.next
    BY <1>2, <1>3 DEF Own
  <2>2. 0 < binding.next
    BY <1>2
  <2> QED
    BY <1>1, <2>1, <2>2 DEF Own
<1>7. Apart'
  BY <1>3 DEF Apart
<1>8. Single'
  BY <1>1 DEF Single, NoneClosing
<1> QED
  BY <1>4, <1>5, <1>6, <1>7, <1>8 DEF FilesInv

\* A reaper's step: one file goes from the queue to its hands.
LEMMA ReaperTakesStep == ASSUME NEW p \in Processes, FilesInv, ReaperTakes(p) PROVE FilesInv'
<1> FileType /\ Kept /\ Own /\ Single /\ Apart
  BY DEF FilesInv
<1> USE Constants, Both
<1> DEFINE s == bin.queue[p]
           q == [bin.queue EXCEPT ![p] = Tail(s)]
           m == [bin.popped EXCEPT ![p] = Head(s)]
<1>1. UNCHANGED <<binding, handle>> /\ s # <<>> /\ bin.popped[p] = 0
  BY DEF ReaperTakes
<1>2. Head(s) \in Opens /\ Tail(s) \in Seq(Opens) /\ ToSet(s) = {Head(s)} \cup ToSet(Tail(s))
  BY <1>1, WaitingIs, Members
<1>3. bin' = [bin EXCEPT !.popped = m, !.queue = q]
  BY DEF ReaperTakes, FileType, BinRecord
<1>4. /\ q \in [Processes -> Seq(Opens)] /\ m \in [Processes -> 0 .. MaxOpens]
      /\ q[p] = Tail(s) /\ m[p] = Head(s)
      /\ \A r \in Processes \ {p} : q[r] = bin.queue[r] /\ m[r] = bin.popped[r]
  <2>1. Head(s) \in 0 .. MaxOpens
    BY <1>2 DEF Opens
  <2> QED
    BY <1>2, <2>1 DEF FileType, BinRecord
<1> HIDE DEF q, m
<1>5. /\ bin' \in BinRecord /\ bin'.queue = q /\ bin'.popped = m
      /\ bin'.forked = bin.forked /\ bin'.copied = bin.copied /\ bin'.inherited = bin.inherited
      /\ bin'.closers = bin.closers
  BY <1>3, <1>4 DEF FileType, BinRecord
<1>6. \A r \in Processes : Waiting(r)' \ {0} = Waiting(r) \ {0}
  <2>1. Waiting(p)' \ {0} = Waiting(p) \ {0}
    BY <1>1, <1>2, <1>4, <1>5, WaitingIs DEF Waiting
  <2>2. \A r \in Processes \ {p} : Waiting(r)' = Waiting(r)
    BY <1>4, <1>5 DEF Waiting
  <2> QED
    BY <2>1, <2>2
<1>7. FileType'
  BY <1>1, <1>5 DEF FileType
<1>8. Kept'
  BY <1>1, <1>6, WaitingIs DEF Kept
<1>9. Own'
  BY <1>1, <1>6 DEF Own
<1>10. Apart'
  <2>1. bin.inherited \subseteq Opens
    BY DEF FileType, BinRecord
  <2>2. \A h \in Opens : h \in Waiting("child")' <=> h \in Waiting("child")
    BY <1>6, WaitingIs
  <2>3. Waiting("child") \subseteq {0} => Waiting("child")' \subseteq {0}
    BY <1>6
  <2> QED
    BY <1>5, <2>1, <2>2, <2>3 DEF Apart
<1>12. Single'
  BY <1>1 DEF Single
<1> QED
  BY <1>7, <1>8, <1>9, <1>10, <1>12 DEF FilesInv

LEMMA ReaperClosesStep == ASSUME NEW p \in Processes, FilesInv, ReaperCloses(p) PROVE FilesInv'
<1> FileType /\ Kept /\ Own /\ Single /\ Apart
  BY DEF FilesInv
<1> USE Constants, Both
<1> DEFINE n == bin.popped[p]
           m == [bin.popped EXCEPT ![p] = 0]
           b == [bin EXCEPT !.popped = m]
<1>1. UNCHANGED binding /\ n # 0 /\ n \in Opens
  BY WaitingIs DEF ReaperCloses, Opens
<1>2. /\ handle' \in [Opens -> {"none", "opening", "open", "closed"}]
      /\ \A h \in Opens : handle'[h] = "open" => handle[h] = "open" /\ h # n
  <2>1. handle' = ShutDown({n})
    BY DEF ReaperCloses
  <2> QED
    BY <2>1, ShutDownIs
<1>3. /\ m \in [Processes -> 0 .. MaxOpens] /\ m[p] = 0 /\ \A r \in Processes \ {p} : m[r] = bin.popped[r]
  BY DEF FileType, BinRecord
<1>4. bin' = ClosedBy(b, p, {n})
  BY DEF ReaperCloses, FileType, BinRecord
<1> HIDE DEF m
<1>5. /\ b \in BinRecord /\ b.queue = bin.queue /\ b.popped = m
      /\ b.forked = bin.forked /\ b.copied = bin.copied /\ b.inherited = bin.inherited
      /\ b.closers = bin.closers
  BY <1>3 DEF FileType, BinRecord
<1> HIDE DEF b, n
<1>6. /\ bin' \in BinRecord /\ bin'.queue = bin.queue /\ bin'.popped = m
      /\ bin'.forked = bin.forked /\ bin'.copied = bin.copied /\ bin'.inherited = bin.inherited
      /\ \A h \in Opens : bin'.closers[h] = bin.closers[h] \cup (IF h \in {n} THEN {p} ELSE {})
  BY <1>4, <1>5, ClosedByIs
<1>7. /\ \A r \in Processes : Waiting(r)' \ {0} \subseteq Waiting(r) \ {0} /\ Waiting(r) \ {0} \subseteq Waiting(r)' \cup {n}
      /\ \A r \in Processes \ {p} : Waiting(r)' = Waiting(r)
  BY <1>3, <1>6 DEF Waiting, n
<1>8. FileType'
  BY <1>1, <1>2, <1>6 DEF FileType
<1>9. Kept'
  BY <1>1, <1>2, <1>7, WaitingIs DEF Kept
<1>10. Own'
  BY <1>1, <1>7 DEF Own
<1>11. Apart'
  <2>1. bin.inherited \subseteq Opens
    BY DEF FileType, BinRecord
  <2>2. n \in Waiting(p)
    BY DEF Waiting, n
  <2>3. p = "child" => bin.forked /\ n \notin bin.inherited
    BY <1>1, <2>2 DEF Apart
  <2>4. \A h \in Opens : h \in Waiting("child")' => h \in Waiting("child")
    BY <1>7, WaitingIs
  <2>5. Waiting("child") \subseteq {0} => Waiting("child")' \subseteq {0}
    BY <1>7
  <2>6. \A h \in Opens : "child" \in bin'.closers[h] => "child" \in bin.closers[h] \/ (p = "child" /\ h = n)
    BY <1>6
  <2> QED
    BY <1>6, <2>1, <2>3, <2>4, <2>5, <2>6 DEF Apart
<1>12. Single'
  BY <1>1 DEF Single
<1> QED
  BY <1>8, <1>9, <1>10, <1>11, <1>12 DEF FilesInv

\* The fork: what the child gets of its parent's queue is nothing.
LEMMA ForkStep == FilesInv /\ Fork => FilesInv'
<1> SUFFICES ASSUME FilesInv, Fork PROVE FilesInv'
  OBVIOUS
<1> FileType /\ Kept /\ Own /\ Single /\ Apart
  BY DEF FilesInv
<1> USE Constants, Both
<1> DEFINE q == [bin.queue EXCEPT !["child"] = <<>>]
           i == (ToSet(bin.queue["parent"]) \cup {bin.popped["parent"]}) \ {0}
           n == binding.native
<1>1. UNCHANGED <<binding, handle>> /\ ~bin.forked
  BY DEF Fork
<1>2. bin' = [bin EXCEPT !.forked = TRUE, !.queue = q, !.copied = n, !.inherited = i]
  BY DEF Fork, Forgotten, FileType, BinRecord
<1>3. q \in [Processes -> Seq(Opens)] /\ q["child"] = <<>> /\ q["parent"] = bin.queue["parent"]
  <2>1. <<>> \in Seq(Opens)
    OBVIOUS
  <2> QED
    BY <2>1 DEF FileType, BinRecord
<1>4. i \in SUBSET Opens /\ n \in 0 .. MaxOpens /\ i = Waiting("parent") \ {0}
  <2>1. i = Waiting("parent") \ {0}
    BY DEF Waiting
  <2>2. i \subseteq (0 .. MaxOpens) \ {0}
    BY <2>1, WaitingIs
  <2>3. (0 .. MaxOpens) \ {0} \subseteq Opens
    BY DEF Opens
  <2> QED
    BY <2>1, <2>2, <2>3 DEF FileType, BindingRecord
<1> HIDE DEF q, i, n
<1>5. /\ bin' \in BinRecord /\ bin'.queue = q /\ bin'.popped = bin.popped
      /\ bin'.forked = TRUE /\ bin'.copied = n /\ bin'.inherited = i
      /\ bin'.closers = bin.closers
  BY <1>2, <1>3, <1>4 DEF FileType, BinRecord
<1>6. Waiting("parent")' = Waiting("parent") /\ Waiting("child")' \subseteq {0}
  <2>1. ToSet(<<>>) = {}
    BY Members, WaitingIs
  <2>2. bin.popped["child"] = 0
    BY <1>1 DEF Apart, Waiting
  <2> QED
    BY <1>3, <1>5, <2>1, <2>2 DEF Waiting
<1>7. FileType'
  BY <1>1, <1>5 DEF FileType
<1>8. Kept' /\ Own'
  BY <1>1, <1>6 DEF Kept, Own
<1>9. Apart'
  <2>1. \A h \in i : h # n /\ h # 0 /\ h \in Opens
    BY <1>4, WaitingIs DEF Own, n
  <2>2. \A h \in Opens : "child" \notin bin.closers[h]
    BY <1>1 DEF Apart
  <2> QED
    BY <1>5, <1>6, <2>1, <2>2 DEF Apart
<1>12. Single'
  BY <1>1 DEF Single
<1> QED
  BY <1>7, <1>8, <1>9, <1>12 DEF FilesInv

LEMMA ChildOpensStep == FilesInv /\ ChildOpens => FilesInv'
<1> SUFFICES ASSUME FilesInv, ChildOpens PROVE FilesInv'
  OBVIOUS
<1> FileType /\ Kept /\ Own /\ Single /\ Apart
  BY DEF FilesInv
<1> USE Constants, Both
<1> DEFINE q == ToSet(bin.queue["child"])
<1>1. UNCHANGED binding /\ bin.forked
  BY DEF ChildOpens
<1>2. /\ handle' \in [Opens -> {"none", "opening", "open", "closed"}]
      /\ \A h \in Opens : handle'[h] = "open" => handle[h] = "open"
  <2>1. handle' = ShutDown(q)
    BY DEF ChildOpens
  <2> QED
    BY <2>1, ShutDownIs
<1>3. /\ bin' \in BinRecord /\ bin'.queue = [bin.queue EXCEPT !["child"] = <<>>] /\ bin'.popped = bin.popped
      /\ bin'.forked = bin.forked /\ bin'.copied = bin.copied /\ bin'.inherited = bin.inherited
      /\ \A h \in Opens : bin'.closers[h] = bin.closers[h] \cup (IF h \in q THEN {"child"} ELSE {})
  <2>1. bin' = Swept(bin, "child") /\ bin \in BinRecord
    BY DEF ChildOpens, FileType
  <2> QED
    BY <2>1, SweptIs
<1>4. Waiting("child")' \subseteq Waiting("child") /\ Waiting("parent")' = Waiting("parent")
  <2>1. ToSet(<<>>) = {}
    BY Members, WaitingIs
  <2>2. bin.queue \in [Processes -> Seq(Opens)]
    BY DEF FileType, BinRecord
  <2> QED
    BY <1>3, <2>1, <2>2 DEF Waiting
<1>5. q \subseteq Waiting("child")
  BY DEF Waiting
<1> HIDE DEF q
<1>6. FileType'
  BY <1>1, <1>2, <1>3 DEF FileType
<1>7. Kept' /\ Own'
  BY <1>1, <1>2, <1>4 DEF Kept, Own
<1>8. Apart'
  <2>1. bin.inherited \subseteq Opens
    BY DEF FileType, BinRecord
  <2> QED
    BY <1>1, <1>3, <1>4, <1>5, <2>1 DEF Apart
<1>12. Single'
  BY <1>1 DEF Single
<1> QED
  BY <1>6, <1>7, <1>8, <1>12 DEF FilesInv

LEMMA ChildCollectsStep == FilesInv /\ ChildCollects => FilesInv'
<1> SUFFICES ASSUME FilesInv, ChildCollects PROVE FilesInv'
  OBVIOUS
<1> FileType /\ Kept /\ Own /\ Single /\ Apart
  BY DEF FilesInv
<1> USE Constants, Both
<1> DEFINE n == bin.copied
           s == Append(bin.queue["child"], n)
           q == [bin.queue EXCEPT !["child"] = s]
<1>1. UNCHANGED <<binding, handle>> /\ n # 0 /\ n \in Opens
  BY DEF ChildCollects, FileType, BinRecord, Opens
<1>2. s \in Seq(Opens) /\ ToSet(s) = ToSet(bin.queue["child"]) \cup {n}
  BY <1>1, Members, WaitingIs, AppendProperties
<1>3. bin' = [bin EXCEPT !.queue = q, !.copied = 0]
  BY DEF ChildCollects, FileType, BinRecord
<1> HIDE DEF s, n
<1>4. q \in [Processes -> Seq(Opens)] /\ q["child"] = s /\ q["parent"] = bin.queue["parent"]
  BY <1>2 DEF FileType, BinRecord
<1> HIDE DEF q
<1>5. /\ bin' \in BinRecord /\ bin'.queue = q /\ bin'.popped = bin.popped
      /\ bin'.forked = bin.forked /\ bin'.copied = 0 /\ bin'.inherited = bin.inherited
      /\ bin'.closers = bin.closers
  <2>1. bin \in BinRecord /\ 0 \in 0 .. MaxOpens
    BY DEF FileType
  <2> QED
    BY <1>3, <1>4, <2>1 DEF BinRecord
<1>6. Waiting("parent")' = Waiting("parent") /\ Waiting("child")' = Waiting("child") \cup {n}
  BY <1>2, <1>4, <1>5 DEF Waiting
<1>7. FileType'
  BY <1>1, <1>5 DEF FileType
<1>8. Kept' /\ Own'
  BY <1>1, <1>6 DEF Kept, Own
<1>9. Apart'
  <2>1. bin.inherited \subseteq Opens /\ 0 \notin Opens
    BY DEF FileType, BinRecord, Opens
  <2>2. bin.forked
    BY <1>1 DEF Apart, n
  <2> QED
    BY <1>5, <1>6, <2>1, <2>2 DEF Apart, n
<1>12. Single'
  BY <1>1 DEF Single
<1> QED
  BY <1>7, <1>8, <1>9, <1>12 DEF FilesInv

\* A job is nobody else's business.
LEMMA JobsOnly == JobNext => UNCHANGED <<binding, handle, bin, delivery, gather>>
  BY DEF JobNext, BeginJob, CopyOnce, CopyLost, CopyFails, RefuseJob, VerifyJob, EndJob, JobsAre

LEMMA FilesKeep == FilesInv /\ [CompatNext]_compatVars => FilesInv'
<1> SUFFICES ASSUME FilesInv, [CompatNext]_compatVars PROVE FilesInv'
  OBVIOUS
<1>1. CASE UNCHANGED <<binding, handle, bin>>
  <2>1. \A p \in Processes : Waiting(p)' = Waiting(p)
    BY <1>1 DEF Waiting
  <2> QED
    BY <1>1, <2>1, Both DEF FilesInv, FileType, Kept, Own, Single, Apart
<1>2. CASE FileNext
  BY <1>2, OpenFileStep, OpenedStep, CloseFileStep, ClosedStep, CollectStep, ReaperTakesStep, ReaperClosesStep, ForkStep,
     ChildOpensStep, ChildCollectsStep DEF FileNext, FileSteps
<1>3. PartNext => UNCHANGED <<binding, handle, bin>>
  BY DEF PartNext, PartSteps, CallBack, GatherOne, PartArrives, Produced, HandOver, GatherEnds
<1>4. JobNext => UNCHANGED <<binding, handle, bin>>
  BY JobsOnly
<1> QED
  BY <1>1, <1>2, <1>3, <1>4 DEF CompatNext, compatVars

-----------------------------------------------------------------------------
(* Callbacks, and listings gathered from several servers.                  *)

Words == [status : {"continue", "ok", "error"}, part : Nat]

DeliveryType ==
    delivery \in [pc : {"idle", "running", "produced"}, chunked : BOOLEAN,
                  sent : Nat, held : Nat, parts : Seq(Words), heard : Seq(Words), raised : BOOLEAN]

\* How many words have been said by now, to the callback or to its queue.
Said(d) ==
    IF d.pc = "produced" THEN (IF d.sent = 0 THEN 1 ELSE d.sent)
    ELSE IF d.sent = 0 THEN 0 ELSE d.sent - 1

\* The word a callback hears i-th: a part, or the last word.
Word(d, i, w) ==
    IF d.pc = "produced" /\ i = Said(d)
    THEN w.status \in {"ok", "error"} /\ (w.status = "ok" => w.part = d.sent)
    ELSE w.status = "continue" /\ w.part = i

Worded ==
    /\ delivery.held = delivery.sent
    /\ Len(delivery.heard) + Len(delivery.parts) = Said(delivery)
    /\ \A i \in 1 .. Len(delivery.heard) : Word(delivery, i, delivery.heard[i])
    /\ \A i \in 1 .. Len(delivery.parts) : Word(delivery, Len(delivery.heard) + i, delivery.parts[i])

\* While nobody has failed, whoever was asked has answered.
Gathered ==
    /\ gather.failures \in Nat
    /\ gather.failures = 0 => gather.listed = Servers \ gather.left
    /\ gather.left \subseteq Servers
    /\ gather.status = "ok" => gather.failures = 0 /\ gather.left = {} /\ gather.pc = "over"
    /\ gather \in [pc : {"idle", "over"}, left : SUBSET Servers, listed : SUBSET Servers,
                   failures : Nat, status : {"none", "not found", "ok", "error", "partial"}]

PartsInv == DeliveryType /\ Worded /\ Gathered

LEMMA PartsStart == CompatInit => PartsInv
<1> SUFFICES ASSUME CompatInit PROVE PartsInv
  OBVIOUS
<1>0. <<>> \in Seq(Words) /\ Len(<<>>) = 0 /\ 0 \in Nat
  OBVIOUS
<1>1. /\ delivery.pc = "idle" /\ delivery.sent = 0 /\ delivery.held = 0 /\ delivery.parts = <<>>
      /\ delivery.heard = <<>>
  BY DEF CompatInit, NoDelivery
<1>2. DeliveryType
  BY <1>0 DEF DeliveryType, CompatInit, NoDelivery
<1>3. Worded
  BY <1>0, <1>1 DEF Worded, Said
<1>4. Gathered
  BY DEF Gathered, CompatInit, NoGather
<1> QED
  BY <1>2, <1>3, <1>4 DEF PartsInv

LEMMA ToldIs ==
    ASSUME NEW status \in {"continue", "ok", "error"}, NEW part \in Nat
    PROVE  Told(status, part) \in Words /\ Told(status, part).status = status /\ Told(status, part).part = part
  BY DEF Told, Words

\* How the words are counted.
LEMMA Counts ==
    ASSUME DeliveryType, Worded
    PROVE  \E a, b \in Nat : /\ a = Len(delivery.heard) /\ b = Len(delivery.parts)
                             /\ a + b = Said(delivery) /\ Said(delivery) \in Nat
                             /\ \A i \in 1 .. a : Word(delivery, i, delivery.heard[i])
                             /\ \A i \in 1 .. b : Word(delivery, a + i, delivery.parts[i])
<1>1. delivery.sent \in Nat /\ Len(delivery.heard) \in Nat /\ Len(delivery.parts) \in Nat
  BY DEF DeliveryType
<1>2. Said(delivery) \in Nat
  BY <1>1 DEF Said
<1> DEFINE a == Len(delivery.heard)
           b == Len(delivery.parts)
<1>3. /\ a + b = Said(delivery)
      /\ \A i \in 1 .. a : Word(delivery, i, delivery.heard[i])
      /\ \A i \in 1 .. b : Word(delivery, a + i, delivery.parts[i])
  BY Zenon DEF Worded
<1> QED
  BY <1>1, <1>2, <1>3, Zenon

\* Arithmetic on those counts.
LEMMA SumStep ==
    ASSUME NEW a \in Nat, NEW b \in Nat, NEW s \in Nat, a + b = s - 1
    PROVE  a + (b + 1) = s
  OBVIOUS

LEMMA SumMore ==
    ASSUME NEW a \in Nat, NEW b \in Nat
    PROVE  /\ b + 1 \in Nat /\ a + (b + 1) = (a + b) + 1 /\ a + b + 1 \notin 1 .. a + b
           /\ \A i \in 1 .. a : i \in 1 .. a + b
           /\ \A i \in 1 .. b : a + i \in 1 .. a + b
           /\ \A i \in 1 .. b + 1 : i \in 1 .. b \/ i = b + 1
  OBVIOUS

LEMMA SumShift ==
    ASSUME NEW a \in Nat, NEW b \in Nat, b # 0
    PROVE  a + 1 \in Nat /\ b - 1 \in Nat /\ (a + 1) + (b - 1) = a + b
  OBVIOUS

\* The same, put together again.
LEMMA Counted ==
    ASSUME NEW a \in Nat, NEW b \in Nat, delivery'.held = delivery'.sent,
           a = Len(delivery'.heard), b = Len(delivery'.parts), a + b = Said(delivery'),
           \A i \in 1 .. a : Word(delivery', i, delivery'.heard[i]),
           \A i \in 1 .. b : Word(delivery', a + i, delivery'.parts[i])
    PROVE  Worded'
  BY Zenon DEF Worded

\* One more part: what was held back is passed on.
LEMMA ArrivesStep == PartsInv /\ PartArrives => PartsInv'
<1> SUFFICES ASSUME PartsInv, PartArrives PROVE PartsInv'
  OBVIOUS
<1> DeliveryType /\ Worded /\ Gathered
  BY DEF PartsInv
<1>0. /\ delivery.pc = "running" /\ UNCHANGED gather /\ delivery.sent \in Nat /\ delivery.held = delivery.sent
      /\ delivery.parts \in Seq(Words) /\ delivery.heard \in Seq(Words)
  BY DEF PartArrives, DeliveryType, Worded
<1> DEFINE w == Told("continue", delivery.held)
           q == IF delivery.held = 0 THEN delivery.parts ELSE Append(delivery.parts, w)
           n == delivery.sent + 1
<1>1. w \in Words /\ w.status = "continue" /\ w.part = delivery.sent
  BY <1>0, ToldIs
<1> HIDE DEF w
<1>2. delivery' = [delivery EXCEPT !.sent = n, !.held = n, !.parts = q]
  <2>1. delivery' = [delivery EXCEPT !.sent = n, !.held = n,
                       !.parts = delivery.parts \o (IF delivery.held = 0 THEN <<>> ELSE <<w>>)]
    BY DEF PartArrives, Arrived, w
  <2>2. delivery.parts \o <<>> = delivery.parts /\ delivery.parts \o <<w>> = Append(delivery.parts, w)
    BY <1>0, <1>1
  <2> QED
    BY <2>1, <2>2
<1>3. n \in Nat \ {0} /\ q \in Seq(Words)
  BY <1>0, <1>1, AppendProperties
<1>4. /\ delivery.sent = 0 => q = delivery.parts
      /\ delivery.sent # 0 => /\ Len(q) = Len(delivery.parts) + 1 /\ q[Len(delivery.parts) + 1] = w
                              /\ \A i \in 1 .. Len(delivery.parts) : q[i] = delivery.parts[i]
  BY <1>0, <1>1, AppendProperties
<1> HIDE DEF q, n
<1>5. /\ DeliveryType' /\ delivery'.pc = "running" /\ delivery'.sent = n /\ delivery'.held = n /\ delivery'.parts = q
      /\ delivery'.heard = delivery.heard
  BY <1>0, <1>2, <1>3 DEF DeliveryType
<1>6. /\ Said(delivery') = delivery.sent
      /\ delivery.sent = 0 => Said(delivery) = 0
      /\ delivery.sent # 0 => Said(delivery) = delivery.sent - 1
  BY <1>0, <1>3, <1>5 DEF Said, n
<1>7. PICK a \in Nat, b \in Nat :
        /\ a = Len(delivery.heard) /\ b = Len(delivery.parts)
        /\ a + b = Said(delivery) /\ Said(delivery) \in Nat
        /\ \A i \in 1 .. a : Word(delivery, i, delivery.heard[i])
        /\ \A i \in 1 .. b : Word(delivery, a + i, delivery.parts[i])
  BY Counts
<1>10. \A i, v : Word(delivery, i, v) => Word(delivery', i, v)
  BY <1>0, <1>5 DEF Word
<1>11. /\ delivery.sent = 0 => a + b = delivery.sent
       /\ delivery.sent # 0 => a + (b + 1) = delivery.sent
  <2>1. delivery.sent = 0 => a + b = delivery.sent
    BY <1>6, <1>7, Zenon
  <2>2. ASSUME delivery.sent # 0 PROVE a + (b + 1) = delivery.sent
    <3>1. a + b = delivery.sent - 1
      BY <1>6, <1>7, <2>2, Zenon
    <3> QED
      BY <1>0, <3>1, SumStep
  <2> QED
    BY <2>1, <2>2
<1> DEFINE m == IF delivery.sent = 0 THEN b ELSE b + 1
<1>12. m \in Nat /\ m = Len(q) /\ a + m = delivery.sent
  <2>1. CASE delivery.sent = 0
    <3>1. m = b /\ Len(q) = b
      BY <1>4, <1>7, <2>1, Zenon
    <3> QED
      BY <1>11, <2>1, <3>1, Zenon
  <2>2. CASE delivery.sent # 0
    <3>1. m = b + 1 /\ Len(q) = b + 1 /\ b + 1 \in Nat
      BY <1>4, <1>7, <2>2, SumMore, Zenon
    <3> QED
      BY <1>11, <2>2, <3>1, Zenon
  <2> QED
    BY <2>1, <2>2
<1>8. Worded'
  <2>2. \A i \in 1 .. a : Word(delivery', i, delivery.heard[i])
    BY <1>7, <1>10
  <2>3. ASSUME NEW i \in 1 .. m PROVE Word(delivery', a + i, q[i])
    <3>1. CASE i \in 1 .. b
      <4>1. q[i] = delivery.parts[i]
        BY <1>4, <1>7, <3>1
      <4> QED
        BY <1>7, <1>10, <3>1, <4>1
    <3>2. CASE i \notin 1 .. b
      <4>1. delivery.sent # 0 /\ i = b + 1 /\ a + i = delivery.sent
        BY <1>11, <1>12, <3>2
      <4>2. q[i] = w
        BY <1>4, <1>7, <4>1
      <4> QED
        BY <1>1, <1>5, <4>1, <4>2 DEF Word
    <3> QED
      BY <3>1, <3>2
  <2> HIDE DEF m
  <2>4. a = Len(delivery'.heard) /\ m = Len(delivery'.parts) /\ a + m = Said(delivery')
    BY <1>5, <1>6, <1>7, <1>12
  <2> QED
    BY <1>5, <1>12, <2>2, <2>3, <2>4, Counted
<1>9. Gathered'
  BY <1>0 DEF Gathered
<1> QED
  BY <1>5, <1>8, <1>9 DEF PartsInv

\* The last word: the last part with it, or the failure.
LEMMA ProducedStep == PartsInv /\ Produced => PartsInv'
<1> SUFFICES ASSUME PartsInv, Produced PROVE PartsInv'
  OBVIOUS
<1> DeliveryType /\ Worded /\ Gathered
  BY DEF PartsInv
<1>0. /\ delivery.pc = "running" /\ UNCHANGED gather /\ delivery.sent \in Nat /\ delivery.held = delivery.sent
      /\ delivery.parts \in Seq(Words) /\ delivery.heard \in Seq(Words)
  BY DEF Produced, DeliveryType, Worded
<1>1. PICK status \in {"ok", "error"} :
        delivery' = [delivery EXCEPT !.pc = "produced",
                       !.parts = Append(@, Told(status, IF status = "ok" THEN delivery.held ELSE 0))]
  BY DEF Produced
<1> DEFINE w == Told(status, IF status = "ok" THEN delivery.held ELSE 0)
           q == Append(delivery.parts, w)
<1>2. w \in Words /\ w.status = status /\ (status = "ok" => w.part = delivery.sent)
  BY <1>0, ToldIs
<1> HIDE DEF w
<1>3. /\ q \in Seq(Words) /\ Len(q) = Len(delivery.parts) + 1 /\ q[Len(delivery.parts) + 1] = w
      /\ \A i \in 1 .. Len(delivery.parts) : q[i] = delivery.parts[i]
  BY <1>0, <1>2, AppendProperties
<1>4. delivery' = [delivery EXCEPT !.pc = "produced", !.parts = q]
  BY <1>1 DEF w
<1> HIDE DEF q
<1>5. /\ DeliveryType' /\ delivery'.pc = "produced" /\ delivery'.sent = delivery.sent
      /\ delivery'.held = delivery.held /\ delivery'.parts = q /\ delivery'.heard = delivery.heard
  BY <1>0, <1>3, <1>4 DEF DeliveryType
<1>6. Said(delivery') = Said(delivery) + 1 /\ Said(delivery) \in Nat
  BY <1>0, <1>5 DEF Said
<1>7. PICK a \in Nat, b \in Nat :
        /\ a = Len(delivery.heard) /\ b = Len(delivery.parts)
        /\ a + b = Said(delivery) /\ Said(delivery) \in Nat
        /\ \A i \in 1 .. a : Word(delivery, i, delivery.heard[i])
        /\ \A i \in 1 .. b : Word(delivery, a + i, delivery.parts[i])
  BY Counts
<1>8. /\ \A v : \A i \in 1 .. a + b : Word(delivery, i, v) => Word(delivery', i, v)
      /\ Said(delivery') = a + b + 1
  <2>1. Said(delivery') = a + b + 1
    BY <1>6, <1>7, Zenon
  <2>2. Said(delivery') \notin 1 .. a + b
    <3>1. a + b + 1 \notin 1 .. a + b
      BY SumMore
    <3> QED
      BY <2>1, <3>1, Zenon
  <2> QED
    BY <1>0, <1>5, <2>1, <2>2, Zenon DEF Word
<1>9. Worded'
  <2>1. ASSUME NEW i \in 1 .. a PROVE Word(delivery', i, delivery.heard[i])
    <3>1. i \in 1 .. a + b
      BY SumMore, Zenon
    <3>2. Word(delivery, i, delivery.heard[i])
      BY <1>7, Zenon
    <3> QED
      BY <1>8, <3>1, <3>2, Zenon
  <2>2. ASSUME NEW i \in 1 .. b + 1 PROVE Word(delivery', a + i, q[i])
    <3>1. CASE i \in 1 .. b
      <4>1. q[i] = delivery.parts[i] /\ a + i \in 1 .. a + b
        BY <1>3, <1>7, <3>1, SumMore, Zenon
      <4> QED
        BY <1>7, <1>8, <3>1, <4>1, Zenon
    <3>2. CASE i \notin 1 .. b
      <4>1. i = b + 1
        BY <3>2, SumMore, Zenon
      <4>2. q[i] = w /\ a + i = Said(delivery')
        BY <1>3, <1>7, <1>8, <4>1, SumMore, Zenon
      <4> QED
        BY <1>2, <1>5, <4>2 DEF Word
    <3> QED
      BY <3>1, <3>2
  <2>3. b + 1 \in Nat /\ b + 1 = Len(delivery'.parts) /\ a = Len(delivery'.heard) /\ a + (b + 1) = Said(delivery')
    BY <1>3, <1>5, <1>7, <1>8, SumMore, Zenon
  <2> DEFINE m == b + 1
  <2>4. m \in Nat /\ m = Len(delivery'.parts) /\ a + m = Said(delivery') /\ \A i \in 1 .. m : Word(delivery', a + i, q[i])
    BY <2>2, <2>3
  <2> HIDE DEF m
  <2> QED
    BY <1>0, <1>5, <2>1, <2>3, <2>4, Counted
<1>10. Gathered'
  BY <1>0 DEF Gathered
<1> QED
  BY <1>5, <1>9, <1>10 DEF PartsInv

\* A word goes from the queue to the callback.
LEMMA HandOverStep == PartsInv /\ HandOver => PartsInv'
<1> SUFFICES ASSUME PartsInv, HandOver PROVE PartsInv'
  OBVIOUS
<1> DeliveryType /\ Worded /\ Gathered
  BY DEF PartsInv
<1>0. /\ UNCHANGED gather /\ delivery.parts # <<>> /\ delivery.parts \in Seq(Words) /\ delivery.heard \in Seq(Words)
  BY DEF HandOver, DeliveryType
<1>1. PICK raises \in BOOLEAN :
        delivery' = [delivery EXCEPT !.parts = Tail(@), !.heard = Append(@, Head(delivery.parts)), !.raised = raises]
  BY DEF HandOver
<1> DEFINE q == Tail(delivery.parts)
           w == Head(delivery.parts)
           h == Append(delivery.heard, w)
<1>2. /\ w \in Words /\ q \in Seq(Words) /\ Len(q) = Len(delivery.parts) - 1 /\ w = delivery.parts[1]
      /\ \A i \in 1 .. Len(q) : q[i] = delivery.parts[i + 1]
  BY <1>0, HeadTailProperties
<1>3. /\ h \in Seq(Words) /\ Len(h) = Len(delivery.heard) + 1 /\ h[Len(delivery.heard) + 1] = w
      /\ \A i \in 1 .. Len(delivery.heard) : h[i] = delivery.heard[i]
  BY <1>0, <1>2, AppendProperties
<1>4. delivery' = [delivery EXCEPT !.parts = q, !.heard = h, !.raised = raises]
  BY <1>1
<1> HIDE DEF q, w, h
<1>5. /\ DeliveryType' /\ delivery'.pc = delivery.pc /\ delivery'.sent = delivery.sent
      /\ delivery'.held = delivery.held /\ delivery'.parts = q /\ delivery'.heard = h
  BY <1>2, <1>3, <1>4 DEF DeliveryType
<1>6. Said(delivery') = Said(delivery) /\ \A i, v : Word(delivery', i, v) <=> Word(delivery, i, v)
  BY <1>5 DEF Said, Word
<1>7. PICK a \in Nat, b \in Nat :
        /\ a = Len(delivery.heard) /\ b = Len(delivery.parts)
        /\ a + b = Said(delivery) /\ Said(delivery) \in Nat
        /\ \A i \in 1 .. a : Word(delivery, i, delivery.heard[i])
        /\ \A i \in 1 .. b : Word(delivery, a + i, delivery.parts[i])
  BY Counts
<1>10. b # 0
  BY <1>0, <1>7, EmptySeq
<1> DEFINE x == a + 1
           y == b - 1
<1>11. x \in Nat /\ y \in Nat /\ x + y = a + b /\ x = Len(h) /\ y = Len(q)
  BY <1>2, <1>3, <1>7, <1>10, SumShift, Zenon
<1>8. Worded'
  <2>1. ASSUME NEW i \in 1 .. x PROVE Word(delivery, i, h[i])
    <3>1. CASE i \in 1 .. a
      BY <1>3, <1>7, <3>1
    <3>2. CASE i \notin 1 .. a
      <4>1. i = a + 1 /\ 1 \in 1 .. b
        BY <1>10, <3>2
      <4>2. Word(delivery, a + 1, delivery.parts[1])
        BY <1>7, <4>1
      <4> QED
        BY <1>2, <1>3, <1>7, <4>1, <4>2
    <3> QED
      BY <3>1, <3>2
  <2>2. ASSUME NEW i \in 1 .. y PROVE Word(delivery, x + i, q[i])
    <3>1. i + 1 \in 1 .. b /\ x + i = a + (i + 1) /\ i \in 1 .. Len(q)
      BY <1>11
    <3>2. Word(delivery, a + (i + 1), delivery.parts[i + 1])
      BY <1>7, <3>1
    <3> QED
      BY <1>2, <3>1, <3>2
  <2>3. x + y = Said(delivery') /\ x = Len(delivery'.heard) /\ y = Len(delivery'.parts)
    BY <1>5, <1>6, <1>7, <1>11
  <2>4. delivery'.held = delivery'.sent
    BY <1>5 DEF Worded
  <2> HIDE DEF x, y
  <2> QED
    BY <1>5, <1>6, <1>11, <2>1, <2>2, <2>3, <2>4, Counted
<1>9. Gathered'
  BY <1>0 DEF Gathered
<1> QED
  BY <1>5, <1>8, <1>9 DEF PartsInv

LEMMA CallBackStep == PartsInv /\ CallBack => PartsInv'
<1> SUFFICES ASSUME PartsInv, CallBack PROVE PartsInv'
  OBVIOUS
<1> DeliveryType /\ Worded /\ Gathered
  BY DEF PartsInv
<1>0. delivery.pc = "idle" /\ UNCHANGED gather
  BY DEF CallBack
<1>1. PICK chunked \in BOOLEAN :
        delivery' = [delivery EXCEPT !.pc = "running", !.chunked = chunked]
  BY DEF CallBack
<1>2. /\ DeliveryType' /\ delivery'.pc = "running" /\ delivery'.sent = delivery.sent
      /\ delivery'.held = delivery.held /\ delivery'.parts = delivery.parts /\ delivery'.heard = delivery.heard
  BY <1>1 DEF DeliveryType
<1>3. Said(delivery') = Said(delivery) /\ \A i, v : Word(delivery', i, v) <=> Word(delivery, i, v)
  BY <1>0, <1>2 DEF Said, Word
<1>4. Worded'
  BY <1>2, <1>3 DEF Worded
<1>5. Gathered'
  BY <1>0 DEF Gathered
<1> QED
  BY <1>2, <1>4, <1>5 DEF PartsInv

LEMMA GatherStep == PartsInv /\ (GatherOne \/ GatherEnds) => PartsInv'
<1> SUFFICES ASSUME PartsInv, GatherOne \/ GatherEnds PROVE PartsInv'
  OBVIOUS
<1> DeliveryType /\ Worded /\ Gathered
  BY DEF PartsInv
<1>0. UNCHANGED delivery /\ gather.pc = "idle" /\ gather.status # "ok"
  BY DEF GatherOne, GatherEnds, Gathered
<1>1. CASE GatherOne
  <2>1. PICK s \in gather.left, ok \in BOOLEAN :
          gather' = [gather EXCEPT !.left = @ \ {s}, !.listed = IF ok THEN @ \cup {s} ELSE @,
                                   !.failures = IF ok THEN @ ELSE @ + 1]
    BY <1>1 DEF GatherOne
  <2> DEFINE L == gather.left \ {s}
             M == IF ok THEN gather.listed \cup {s} ELSE gather.listed
             f == IF ok THEN gather.failures ELSE gather.failures + 1
  <2>2. gather' = [gather EXCEPT !.left = L, !.listed = M, !.failures = f]
    BY <2>1
  <2>3. /\ L \in SUBSET Servers /\ M \in SUBSET Servers /\ f \in Nat
        /\ f = 0 => ok /\ gather.failures = 0
    <3>1. gather.left \subseteq Servers /\ gather.listed \subseteq Servers /\ gather.failures \in Nat
      BY DEF Gathered
    <3> QED
      BY <3>1
  <2>4. f = 0 => M = Servers \ L
    BY <2>3 DEF Gathered
  <2> HIDE DEF L, M, f
  <2>5. /\ gather'.left = L /\ gather'.listed = M /\ gather'.failures = f /\ gather'.status = gather.status
        /\ gather' \in [pc : {"idle", "over"}, left : SUBSET Servers, listed : SUBSET Servers,
                        failures : Nat, status : {"none", "not found", "ok", "error", "partial"}]
    BY <2>2, <2>3 DEF Gathered
  <2>6. Gathered'
    BY <1>0, <2>3, <2>4, <2>5 DEF Gathered
  <2> QED
    BY <1>0, <2>6 DEF PartsInv, DeliveryType, Worded
<1>2. CASE GatherEnds
  <2> DEFINE t == IF Servers = {} THEN "not found" ELSE IF gather.failures = 0 THEN "ok"
                  ELSE IF gather.failures = Cardinality(Servers) THEN "error" ELSE "partial"
  <2>1. gather' = [gather EXCEPT !.pc = "over", !.status = t] /\ gather.left = {}
    BY <1>2 DEF GatherEnds
  <2>2. t \in {"none", "not found", "ok", "error", "partial"} /\ (t = "ok" => gather.failures = 0)
    OBVIOUS
  <2> HIDE DEF t
  <2>3. /\ gather'.left = gather.left /\ gather'.listed = gather.listed /\ gather'.failures = gather.failures
        /\ gather'.status = t /\ gather'.pc = "over"
        /\ gather' \in [pc : {"idle", "over"}, left : SUBSET Servers, listed : SUBSET Servers,
                        failures : Nat, status : {"none", "not found", "ok", "error", "partial"}]
    BY <2>1, <2>2 DEF Gathered
  <2>4. Gathered'
    BY <2>1, <2>2, <2>3 DEF Gathered
  <2> QED
    BY <1>0, <2>4 DEF PartsInv, DeliveryType, Worded
<1> QED
  BY <1>1, <1>2

LEMMA PartsKeep == PartsInv /\ [CompatNext]_compatVars => PartsInv'
<1> SUFFICES ASSUME PartsInv, [CompatNext]_compatVars PROVE PartsInv'
  OBVIOUS
<1>1. CASE UNCHANGED <<delivery, gather>>
  BY <1>1 DEF PartsInv, DeliveryType, Worded, Gathered
<1>2. CASE PartNext
  BY <1>2, CallBackStep, GatherStep, ArrivesStep, ProducedStep, HandOverStep DEF PartNext, PartSteps
<1>3. FileNext => UNCHANGED <<delivery, gather>>
  BY DEF FileNext, FileSteps, OpenFile, CloseFile, ClosedFile, CollectFile, Fork, ChildOpens, ChildCollects, OpenedFile,
         ReaperTakes, ReaperCloses
<1>4. JobNext => UNCHANGED <<delivery, gather>>
  BY JobsOnly
<1> QED
  BY <1>1, <1>2, <1>3, <1>4 DEF CompatNext, compatVars

-----------------------------------------------------------------------------
(* CopyProcess.                                                            *)

Hears == {<< >>, <<"begin">>, <<"begin", "end">>}
JobState ==
    [kind : JobRecord, pc : {"queued", "copy", "verify", "ended", "over"}, tries : Nat, force : BOOLEAN,
     cont : BOOLEAN, target : {"none", "theirs", "empty", "ours in part", "ours"}, corrupt : BOOLEAN,
     status : {"none", "ok", "error", "exists", "cancelled", "invalid", "checksum"}, told : Hears]

\* What one job is: what its handler has heard goes with where it stands; it
\* reports success with its own file whole; only a job that may continue
\* splices it; and until a retry forces it, a job does not touch a file it was
\* not told to.
JobGood(job) ==
    /\ job \in JobState
    /\ job.told = (IF job.pc = "queued" THEN << >> ELSE IF job.pc = "over" THEN <<"begin", "end">> ELSE <<"begin">>)
    /\ job.pc \in {"queued", "copy", "verify"} => job.status = "none"
    /\ job.pc = "verify" => job.target = "ours"
    /\ job.status = "ok" => job.target = "ours" /\ ~(job.corrupt /\ job.kind.check)
    /\ ~job.kind.cont /\ job.kind.policy = "force" => ~job.cont /\ (job.target = "ours" => ~job.corrupt)
    /\ job.kind.there = "theirs" /\ ~job.kind.force /\ ~job.kind.cont /\ job.tries = 0 =>
          job.target = "theirs" /\ ~job.force /\ ~job.cont
    /\ job.target = "empty" => job.kind.there = "empty"

JobsInv == cjobs \in [CopyJobs -> JobState] /\ \A j \in CopyJobs : JobGood(cjobs[j])

LEMMA NewJobGood == ASSUME NEW kind \in JobRecord PROVE JobGood(NewJob(kind))
<1> DEFINE job == NewJob(kind)
<1>1. kind.there \in {"none", "theirs", "empty"} /\ kind.force \in BOOLEAN /\ kind.cont \in BOOLEAN
  BY DEF JobRecord
<1>2. /\ job.kind = kind /\ job.pc = "queued" /\ job.tries = 0 /\ job.force = kind.force /\ job.cont = kind.cont
      /\ job.target = kind.there /\ job.corrupt = FALSE /\ job.status = "none" /\ job.told = << >>
  BY DEF NewJob
<1>3. job \in JobState
  <2>1. << >> \in Hears /\ 0 \in Nat
    BY DEF Hears
  <2> QED
    BY <1>1, <2>1 DEF NewJob, JobState
<1> HIDE DEF job
<1>4. JobGood(job)
  BY <1>2, <1>3 DEF JobGood
<1> QED
  BY <1>4 DEF job

LEMMA JobsStart == CompatInit => JobsInv
<1> SUFFICES ASSUME CompatInit PROVE JobsInv
  OBVIOUS
<1>1. cjobs \in [CopyJobs -> {NewJob(kind) : kind \in JobKinds}] /\ JobKinds \subseteq JobRecord
  BY CompatAssumption DEF CompatInit
<1>2. \A j \in CopyJobs : \E kind \in JobRecord : cjobs[j] = NewJob(kind)
  BY <1>1
<1>3. \A j \in CopyJobs : JobGood(cjobs[j])
  BY <1>2, NewJobGood
<1>4. \A j \in CopyJobs : cjobs[j] \in JobState
  BY <1>3 DEF JobGood
<1> QED
  BY <1>1, <1>3, <1>4 DEF JobsInv

\* A job in a good state replaces another.
LEMMA JobKept ==
    ASSUME JobsInv, NEW j \in CopyJobs, NEW job, JobGood(job), JobsAre(j, job)
    PROVE  JobsInv'
<1>1. cjobs' = [cjobs EXCEPT ![j] = job] /\ job \in JobState
  BY DEF JobsAre, JobGood
<1>2. cjobs' \in [CopyJobs -> JobState] /\ \A k \in CopyJobs : cjobs'[k] = IF k = j THEN job ELSE cjobs[k]
  BY <1>1 DEF JobsInv
<1> QED
  BY <1>2 DEF JobsInv

LEMMA BeginGood ==
    ASSUME NEW job, JobGood(job), job.pc = "queued"
    PROVE  JobGood([job EXCEPT !.pc = "copy", !.told = Append(@, "begin")])
<1> DEFINE new == [job EXCEPT !.pc = "copy", !.told = <<"begin">>]
<1>1. [job EXCEPT !.pc = "copy", !.told = Append(@, "begin")] = new
  <2>1. Append(job.told, "begin") = <<"begin">>
    BY DEF JobGood
  <2> QED
    BY <2>1
<1>2. <<"begin">> \in Hears
  BY DEF Hears
<1>3. /\ new \in JobState /\ new.pc = "copy" /\ new.told = <<"begin">> /\ new.kind = job.kind /\ new.cont = job.cont
      /\ new.corrupt = job.corrupt /\ new.status = job.status /\ new.target = job.target
      /\ new.tries = job.tries /\ new.force = job.force
  BY <1>2 DEF JobGood, JobState
<1> HIDE DEF new
<1>4. JobGood(new)
  BY <1>3 DEF JobGood
<1> QED
  BY <1>1, <1>4

LEMMA EndGood ==
    ASSUME NEW job, JobGood(job), job.pc = "ended"
    PROVE  JobGood([job EXCEPT !.pc = "over", !.told = Append(@, "end")])
<1> DEFINE new == [job EXCEPT !.pc = "over", !.told = <<"begin", "end">>]
<1>1. [job EXCEPT !.pc = "over", !.told = Append(@, "end")] = new
  <2>1. job.told = <<"begin">>
    BY DEF JobGood
  <2>2. Append(<<"begin">>, "end") = <<"begin", "end">>
    <3> DEFINE s == Append(<<"begin">>, "end")
               t == <<"begin", "end">>
    <3>1. <<"begin">> \in Seq({"begin", "end"}) /\ Len(<<"begin">>) = 1 /\ <<"begin">>[1] = "begin"
      OBVIOUS
    <3>2. s \in Seq({"begin", "end"}) /\ Len(s) = 2 /\ s[1] = "begin" /\ s[2] = "end"
      BY <3>1, AppendProperties
    <3>3. t \in Seq({"begin", "end"}) /\ Len(t) = 2 /\ t[1] = "begin" /\ t[2] = "end"
      OBVIOUS
    <3> HIDE DEF s, t
    <3>4. \A i \in 1 .. Len(s) : s[i] = t[i]
      BY <3>2, <3>3
    <3>5. s = t
      BY <3>2, <3>3, <3>4, SeqEqual
    <3> QED
      BY <3>5 DEF s, t
  <2> QED
    BY <2>1, <2>2
<1>2. <<"begin", "end">> \in Hears
  BY DEF Hears
<1>3. /\ new \in JobState /\ new.pc = "over" /\ new.told = <<"begin", "end">> /\ new.kind = job.kind /\ new.cont = job.cont
      /\ new.corrupt = job.corrupt /\ new.status = job.status /\ new.target = job.target
      /\ new.tries = job.tries /\ new.force = job.force
  BY <1>2 DEF JobGood, JobState
<1> HIDE DEF new
<1>4. JobGood(new)
  BY <1>3 DEF JobGood
<1> QED
  BY <1>1, <1>4

LEMMA FailsGood ==
    ASSUME NEW job, JobGood(job), job.pc \in {"copy", "verify"},
           NEW status \in {"error", "exists", "cancelled", "invalid", "checksum"}
    PROVE  JobGood(JobFails(job, status))
<1> DEFINE new == JobFails(job, status)
<1>1. /\ new \in JobState /\ new.pc = "ended" /\ new.told = job.told /\ new.kind = job.kind /\ new.cont = job.cont
      /\ new.corrupt = job.corrupt /\ new.status = status /\ new.target = job.target /\ new.tries = job.tries
      /\ new.force = job.force
  BY DEF JobGood, JobState, JobFails
<1> HIDE DEF new
<1>2. JobGood(new)
  BY <1>1 DEF JobGood
<1> QED
  BY <1>2 DEF new

LEMMA RetriedGood ==
    ASSUME NEW job, JobGood(job), job.pc = "copy"
    PROVE  JobGood(Retried(job))
<1> DEFINE resume == job.kind.policy = "continue"
           more == job.tries + 1
           new == [job EXCEPT !.tries = more, !.force = ~resume, !.cont = resume]
<1>0. job \in JobState /\ more \in Nat /\ more # 0
  <2>1. job \in JobState
    BY DEF JobGood
  <2>2. job.tries \in Nat
    BY <2>1 DEF JobState
  <2> QED
    BY <2>1, <2>2
<1>1. Retried(job) = new /\ resume \in BOOLEAN /\ (job.kind.policy = "force" => ~resume)
  BY <1>0 DEF Retried
<1> HIDE DEF resume, more
<1>2. /\ new \in JobState /\ new.pc = job.pc /\ new.told = job.told /\ new.kind = job.kind /\ new.cont = resume
      /\ new.corrupt = job.corrupt /\ new.status = job.status /\ new.target = job.target /\ new.tries = more
  BY <1>0, <1>1 DEF JobState
<1> HIDE DEF new
<1>3. JobGood(new)
  BY <1>0, <1>1, <1>2 DEF JobGood
<1> QED
  BY <1>1, <1>3

\* A job under way, but for what is at its target.
LEMMA TargetGood ==
    ASSUME NEW job, JobGood(job), job.pc = "copy", NEW pc \in {"copy", "verify"}, NEW corrupt \in BOOLEAN,
           NEW target \in {"none", "ours in part", "ours"}, pc = "verify" => target = "ours",
           ~job.kind.cont /\ job.kind.policy = "force" /\ target = "ours" => ~corrupt,
           job.kind.there = "theirs" => job.target = "none" \/ job.force \/ job.cont
    PROVE  JobGood([job EXCEPT !.pc = pc, !.target = target, !.corrupt = corrupt])
<1> DEFINE new == [job EXCEPT !.pc = pc, !.target = target, !.corrupt = corrupt]
<1>0. job \in JobState
  BY DEF JobGood
<1>1. /\ new \in JobState /\ new.pc = pc /\ new.told = job.told /\ new.kind = job.kind /\ new.cont = job.cont
      /\ new.corrupt = corrupt /\ new.status = job.status /\ new.target = target /\ new.tries = job.tries
  BY <1>0 DEF JobState
<1>2. job.kind.there = "theirs" => job.kind.force \/ job.kind.cont \/ job.tries # 0
  BY <1>0 DEF JobGood
<1> HIDE DEF new
<1>3. job.told = <<"begin">> /\ job.status = "none"
  BY DEF JobGood
<1>4. JobGood(new)
  BY <1>1, <1>2, <1>3 DEF JobGood
<1> QED
  BY <1>4 DEF new

\* What a copy leaves behind, whole, in part or not at all.
LEMMA LeftGood ==
    ASSUME NEW job, JobGood(job), job.pc = "copy", NEW way
    PROVE  /\ \A left \in Left(job, way) : JobGood(left) /\ left.pc = "copy"
           /\ MayWrite(job, way) => JobGood([Completed(job, way) EXCEPT !.pc = "verify"])
<1> DEFINE c == Spliced(job, way)
<1>0. job \in JobState /\ c \in BOOLEAN /\ job.corrupt \in BOOLEAN
  BY DEF JobGood, JobState, Spliced, Continued
<1>1. (~job.kind.cont /\ job.kind.policy = "force") => ~c
  BY DEF JobGood, Spliced, Continued
<1>2. /\ MayWrite(job, way) => job.target = "none" \/ job.force \/ job.cont
      /\ job.target = "empty" => job.kind.there # "theirs"
  BY DEF JobGood, MayWrite
<1> HIDE DEF c
<1>3. ASSUME MayWrite(job, way), NEW gaps \in BOOLEAN
      PROVE  LET part == [job EXCEPT !.target = "ours in part", !.corrupt = gaps \/ c]
             IN JobGood(part) /\ part.pc = "copy"
  <2> DEFINE part == [job EXCEPT !.target = "ours in part", !.corrupt = gaps \/ c]
             same == [job EXCEPT !.pc = "copy", !.target = "ours in part", !.corrupt = gaps \/ c]
  <2>1. part = same /\ same.pc = "copy"
    BY <1>0 DEF JobState
  <2>2. JobGood(same)
    BY <1>0, <1>2, <1>3, TargetGood
  <2> QED
    BY <2>1, <2>2
<1>4. ASSUME MayWrite(job, way) \/ job.target = "empty"
      PROVE  LET bare == [job EXCEPT !.target = "none"] IN JobGood(bare) /\ bare.pc = "copy"
  <2> DEFINE bare == [job EXCEPT !.target = "none"]
             same == [job EXCEPT !.pc = "copy", !.target = "none", !.corrupt = job.corrupt]
  <2>1. bare = same /\ same.pc = "copy"
    BY <1>0 DEF JobState
  <2>2. JobGood(same)
    BY <1>0, <1>2, <1>4, TargetGood
  <2> QED
    BY <2>1, <2>2
<1>5. ASSUME MayWrite(job, way) PROVE JobGood([Completed(job, way) EXCEPT !.pc = "verify"])
  <2> DEFINE whole == [job EXCEPT !.pc = "verify", !.target = "ours", !.corrupt = c]
  <2>1. [Completed(job, way) EXCEPT !.pc = "verify"] = whole
    BY <1>0 DEF Completed, JobState, c
  <2>2. JobGood(whole)
    BY <1>0, <1>1, <1>2, <1>5, TargetGood
  <2> QED
    BY <2>1, <2>2
<1>6. ASSUME NEW left \in Left(job, way) PROVE JobGood(left) /\ left.pc = "copy"
  <2>1. CASE left = job
    BY <2>1
  <2>2. CASE left \in Begun(job, way)
    <3>1. MayWrite(job, way) /\ \E gaps \in BOOLEAN : left = [job EXCEPT !.target = "ours in part", !.corrupt = gaps \/ c]
      BY <2>2 DEF Begun, c
    <3> QED
      BY <1>3, <3>1
  <2>3. CASE left \in Discarded(job, way)
    <3>1. (MayWrite(job, way) \/ job.target = "empty") /\ left = [job EXCEPT !.target = "none"]
      BY <2>3 DEF Discarded
    <3> QED
      BY <1>4, <3>1
  <2> QED
    BY <2>1, <2>2, <2>3 DEF Left
<1> QED
  BY <1>5, <1>6

LEMMA CopyOnceStep ==
    ASSUME JobsInv, NEW j \in CopyJobs, CopyOnce(j) \/ CopyLost(j) \/ CopyFails(j) \/ RefuseJob(j)
    PROVE  JobsInv'
<1> DEFINE job == cjobs[j]
<1>1. JobGood(job) /\ job.pc = "copy"
  BY DEF JobsInv, CopyOnce, CopyLost, CopyFails, RefuseJob
<1>2. CASE CopyOnce(j)
  <2>1. PICK way \in Ways(job) : MayWrite(job, way) /\ JobsAre(j, [Completed(job, way) EXCEPT !.pc = "verify"])
    BY <1>2, Zenon DEF CopyOnce
  <2>2. JobGood([Completed(job, way) EXCEPT !.pc = "verify"])
    BY <1>1, <2>1, LeftGood, Zenon
  <2> QED
    BY <2>1, <2>2, JobKept, Zenon
<1>3. CASE CopyLost(j)
  <2>1. PICK way \in Ways(job) : \E left \in Left(job, way) :
          JobsAre(j, IF left.tries < left.kind.retry THEN Retried(left) ELSE JobFails(left, "error"))
    BY <1>3, Zenon DEF CopyLost
  <2>2. PICK left \in Left(job, way) :
          JobsAre(j, IF left.tries < left.kind.retry THEN Retried(left) ELSE JobFails(left, "error"))
    BY <2>1, Zenon
  <2>3. JobGood(left) /\ left.pc = "copy"
    BY <1>1, LeftGood, Zenon
  <2>4. JobGood(Retried(left)) /\ JobGood(JobFails(left, "error"))
    BY <2>3, RetriedGood, FailsGood
  <2> DEFINE new == IF left.tries < left.kind.retry THEN Retried(left) ELSE JobFails(left, "error")
  <2>5. JobGood(new) /\ JobsAre(j, new)
    BY <2>2, <2>4, Zenon
  <2> HIDE DEF new
  <2> QED
    BY <2>5, JobKept, Zenon
<1>4. CASE CopyFails(j) \/ RefuseJob(j)
  <2>1. PICK way \in Ways(job), status \in {"cancelled", "invalid", "error", "exists"} :
          \E left \in Left(job, way) : JobsAre(j, JobFails(left, status))
    BY <1>4 DEF CopyFails, RefuseJob
  <2>2. PICK left \in Left(job, way) : JobsAre(j, JobFails(left, status))
    BY <2>1, Zenon
  <2>3. JobGood(left) /\ left.pc = "copy"
    BY <1>1, LeftGood, Zenon
  <2>4. JobGood(JobFails(left, status))
    BY <2>3, FailsGood
  <2> QED
    BY <2>2, <2>4, JobKept, Zenon
<1> QED
  BY <1>2, <1>3, <1>4

LEMMA VerifyStep ==
    ASSUME JobsInv, NEW j \in CopyJobs, VerifyJob(j)
    PROVE  JobsInv'
<1> DEFINE job == cjobs[j]
           fine == [job EXCEPT !.pc = "ended", !.status = "ok"]
           f == JobFails(job, "checksum")
           bad == [f EXCEPT !.target = IF job.kind.rm THEN "none" ELSE @]
<1>1. JobGood(job) /\ job.pc = "verify"
  BY DEF JobsInv, VerifyJob
<1>2. \/ (job.kind.check => ~job.corrupt) /\ JobsAre(j, fine)
      \/ job.corrupt /\ JobsAre(j, bad)
      \/ JobsAre(j, JobFails(job, "error"))
  BY Zenon DEF VerifyJob
<1>3. job \in JobState /\ job.target = "ours" /\ job.told = <<"begin">>
  BY <1>1 DEF JobGood
<1> HIDE DEF job
<1>4. ASSUME job.kind.check => ~job.corrupt PROVE JobGood(fine)
  <2>1. /\ fine \in JobState /\ fine.pc = "ended" /\ fine.told = job.told /\ fine.kind = job.kind /\ fine.cont = job.cont
        /\ fine.corrupt = job.corrupt /\ fine.status = "ok" /\ fine.target = job.target /\ fine.tries = job.tries
        /\ fine.force = job.force
    BY <1>3 DEF JobState
  <2> HIDE DEF fine
  <2> QED
    BY <1>1, <1>3, <1>4, <2>1 DEF JobGood
<1>5. JobGood(bad)
  <2> DEFINE t == IF job.kind.rm THEN "none" ELSE f.target
  <2>1. JobGood(f) /\ f.status = "checksum" /\ f.pc = "ended" /\ f.target = "ours"
    BY <1>1, <1>3, FailsGood DEF JobFails, JobState
  <2>2. bad = [f EXCEPT !.target = t] /\ t \in {"none", "ours"}
    BY <2>1
  <2> HIDE DEF f, t, bad
  <2>3. /\ bad \in JobState /\ bad.pc = f.pc /\ bad.told = f.told /\ bad.kind = f.kind /\ bad.cont = f.cont
        /\ bad.corrupt = f.corrupt /\ bad.status = f.status /\ bad.tries = f.tries /\ bad.force = f.force
        /\ bad.target \in {"none", "ours"}
    BY <2>1, <2>2 DEF JobGood, JobState
  <2>4. ~(f.kind.there = "theirs" /\ ~f.kind.force /\ ~f.kind.cont /\ f.tries = 0)
    BY <2>1 DEF JobGood
  <2> QED
    BY <2>1, <2>3, <2>4 DEF JobGood
<1>6. JobGood(JobFails(job, "error"))
  BY <1>1, FailsGood
<1> HIDE DEF fine, bad
<1> QED
  BY <1>2, <1>4, <1>5, <1>6, JobKept, Zenon

LEMMA JobsKeep == JobsInv /\ [CompatNext]_compatVars => JobsInv'
<1> SUFFICES ASSUME JobsInv, [CompatNext]_compatVars PROVE JobsInv'
  OBVIOUS
<1>1. CASE UNCHANGED cjobs
  BY <1>1 DEF JobsInv
<1>2. ASSUME NEW j \in CopyJobs, BeginJob(j) PROVE JobsInv'
  BY <1>2, BeginGood, JobKept DEF BeginJob, JobsInv
<1>4. ASSUME NEW j \in CopyJobs, EndJob(j) PROVE JobsInv'
  BY <1>4, EndGood, JobKept DEF EndJob, JobsInv
<1>5. CASE JobNext
  BY <1>2, <1>4, <1>5, CopyOnceStep, VerifyStep, Zenon DEF JobNext
<1>6. FileNext => UNCHANGED cjobs
  BY DEF FileNext, FileSteps, OpenFile, CloseFile, ClosedFile, CollectFile, Fork, ChildOpens, ChildCollects, OpenedFile,
         ReaperTakes, ReaperCloses
<1>7. PartNext => UNCHANGED cjobs
  BY DEF PartNext, PartSteps, CallBack, GatherOne, PartArrives, Produced, HandOver, GatherEnds
<1> QED
  BY <1>1, <1>5, <1>6, <1>7 DEF CompatNext, compatVars

-----------------------------------------------------------------------------
(* The theorem.                                                            *)

LEMMA CompatAlways == CompatSpec => [](FilesInv /\ PartsInv /\ JobsInv)
<1>1. CompatInit => FilesInv /\ PartsInv /\ JobsInv
  BY FilesStart, PartsStart, JobsStart
<1>2. FilesInv /\ PartsInv /\ JobsInv /\ [CompatNext]_compatVars => (FilesInv /\ PartsInv /\ JobsInv)'
  BY FilesKeep, PartsKeep, JobsKeep
<1> QED
  BY <1>1, <1>2, PTL DEF CompatSpec

LEMMA FilesAre == FilesInv => FilesKept
<1> SUFFICES ASSUME FilesInv PROVE FilesKept
  OBVIOUS
<1>1. Kept /\ Apart /\ FileType
  BY DEF FilesInv
<1> QED
  BY <1>1 DEF FilesKept, Kept, Apart, FileType, BinRecord, Waiting

\* The number of the last word, where there are no parts or some.
LEMMA MaxOne == ASSUME NEW n \in Nat PROVE Max({1, n}) = IF n = 0 THEN 1 ELSE n
<1> DEFINE m == IF n = 0 THEN 1 ELSE n
           Is(x) == x \in {1, n} /\ \A y \in {1, n} : x >= y
<1>1. Is(m) /\ \A x : Is(x) => x = m
  OBVIOUS
<1>2. Max({1, n}) = CHOOSE x \in {1, n} : \A y \in {1, n} : x >= y
  BY DEF Max
<1> QED
  BY <1>1, <1>2

LEMMA CallbacksAre == PartsInv => CallbacksRight
<1> SUFFICES ASSUME PartsInv PROVE CallbacksRight
  OBVIOUS
<1> DeliveryType /\ Worded /\ Gathered
  BY DEF PartsInv
<1>1. PICK a \in Nat, b \in Nat :
        /\ a = Len(delivery.heard) /\ b = Len(delivery.parts)
        /\ a + b = Said(delivery) /\ Said(delivery) \in Nat
        /\ \A i \in 1 .. a : Word(delivery, i, delivery.heard[i])
        /\ \A i \in 1 .. b : Word(delivery, a + i, delivery.parts[i])
  BY Counts
<1>2. DOMAIN delivery.heard = 1 .. a /\ delivery.sent \in Nat
  BY <1>1 DEF DeliveryType
<1>3. ASSUME NEW i \in 1 .. a
      PROVE  /\ delivery.heard[i].status # "continue" => i = a
             /\ delivery.heard[i].status = "continue" => delivery.heard[i].part = i
             /\ delivery.heard[i].status = "ok" => delivery.heard[i].part = delivery.sent /\ i = Max({1, delivery.sent})
  <2>1. Word(delivery, i, delivery.heard[i])
    BY <1>1
  <2>2. CASE delivery.pc = "produced" /\ i = Said(delivery)
    <3>1. i = a
      <4>1. i = a + b
        BY <1>1, <2>2, Zenon
      <4> QED
        BY <4>1
    <3>2. Max({1, delivery.sent}) = (IF delivery.sent = 0 THEN 1 ELSE delivery.sent)
      BY <1>2, MaxOne
    <3>3. Said(delivery) = (IF delivery.sent = 0 THEN 1 ELSE delivery.sent)
      BY <2>2 DEF Said
    <3>4. /\ delivery.heard[i].status \in {"ok", "error"}
          /\ delivery.heard[i].status = "ok" => delivery.heard[i].part = delivery.sent
      BY <2>1, <2>2 DEF Word
    <3>5. i = Max({1, delivery.sent})
      BY <2>2, <3>2, <3>3, Zenon
    <3> QED
      BY <3>1, <3>4, <3>5
  <2>3. CASE ~(delivery.pc = "produced" /\ i = Said(delivery))
    BY <2>1, <2>3 DEF Word
  <2> QED
    BY <2>2, <2>3
<1>4. gather.status = "ok" => gather.listed = Servers
  BY DEF Gathered
<1> QED
  BY <1>1, <1>2, <1>3, <1>4, Zenon DEF CallbacksRight

LEMMA JobsAreRight == JobsInv => JobsRight
<1> SUFFICES ASSUME JobsInv, NEW j \in CopyJobs
             PROVE  LET job == cjobs[j]
                    IN /\ job.told \in {<< >>, <<"begin">>, <<"begin", "end">>}
                       /\ job.status = "ok" => job.target = "ours" /\ (job.corrupt => ~job.kind.check)
                       /\ job.status = "ok" /\ ~job.kind.cont /\ job.kind.policy = "force" => ~job.corrupt
                       /\ job.kind.there = "theirs" /\ ~job.kind.force /\ ~job.kind.cont /\ job.tries = 0
                             => job.target = "theirs"
  BY Zenon DEF JobsRight
<1>1. JobGood(cjobs[j])
  BY DEF JobsInv
<1> QED
  BY <1>1 DEF JobGood

\* The native file of a File whose caller waits for each open and close is
\* never lost, and none that was queued to be closed when the process forked
\* is closed by the child; a callback hears its parts in order and one last
\* word; and a copy job that reports success left its own file whole, spliced
\* from no other if it was checked or never continued, and touched nobody's
\* file untold before a retry (compat/client/file.py, _abandoned.py,
\* _dispatch.py, CopyProcess), whatever the files, parts, servers and jobs.
THEOREM CompatIsRight == CompatSpec => []CompatRight
<1>1. FilesInv /\ PartsInv /\ JobsInv => CompatRight
  BY FilesAre, CallbacksAre, JobsAreRight DEF CompatRight
<1> QED
  BY <1>1, CompatAlways, PTL

-----------------------------------------------------------------------------
(* The coroutines and the jobs they wait for (AsyncBridge).                *)

JobFields == {"steps", "state", "id", "owned", "scope", "late", "failed", "handle", "after"}
CoroFields == {"pc", "shape", "hop", "job", "id", "holds", "after"}

\* One step is left, or it and a flush before it.
One(s, x) == s = <<x>>
Two(s, x) == s = <<"flush", x>>
StepsGood(s) ==
    \/ s = << >>
    \/ \E x \in {"open", "trip", "buffer", "flush", "put", "close", "direct", "begin", "commit"} : One(s, x)
    \/ \E x \in {"put", "close"} : Two(s, x)

\* A sequence, whatever it is of.
Sequential(s) == \E S : s \in Seq(S)

\* What the worker is at, in hop h of a call of this shape.
Fits(shape, h, steps) ==
    /\ shape = "open" => h = 1 /\ One(steps, "open")
    /\ shape = "close" => h = 1 /\ (Two(steps, "close") \/ One(steps, "close"))
    /\ shape = "pieces" => (h = 1 /\ One(steps, "flush")) \/ (h = 2 /\ One(steps, "put"))
    /\ shape = "block" => \/ h = 1 /\ One(steps, "begin")
                          \/ h = 2 /\ One(steps, "direct")
                          \/ h = 3 /\ One(steps, "commit")
    /\ shape \notin {"open", "close", "pieces", "block"} =>
          Two(steps, "put") \/ \E x \in {"trip", "buffer", "flush", "put", "direct"} : One(steps, x)

GoodHop(shape, h) ==
    \/ h = 1
    \/ h = 2 /\ shape \in {"pieces", "walk", "block"}
    \/ h = 3 /\ shape = "block"

Waits(t, j) == coro[t].pc = "await" /\ coro[t].job = j

\* A job: what is left to do and what is known of it.
WorkGood(j) ==
    LET job == pool[j]
    IN /\ DOMAIN job = JobFields /\ StepsGood(job.steps)
       /\ job.state \in {"queued", "running", "done", "spent"}
       /\ job.steps # << >> <=> job.state \in {"queued", "running"}
       /\ job.late \in BOOLEAN /\ job.failed \in BOOLEAN /\ job.scope \in BOOLEAN /\ job.owned \in BOOLEAN
       /\ job.id \in 0 .. aio.calls /\ job.after \subseteq aio.returned
       /\ job.late => One(job.steps, "open") /\ job.state = "running"
       /\ job.failed => job.steps = << >>
       /\ One(job.steps, "open") => job.late \/ \E t \in Tasks : Waits(t, j)
       /\ One(job.steps, "begin") => -1 \in aio.forgone \/ \E t \in Tasks : Waits(t, j)

CoroGood(t) ==
    LET c == coro[t]
        job == pool[c.job]
    IN /\ DOMAIN c = CoroFields /\ c.pc \in {"idle", "await"}
       /\ c.pc = "idle" => c.job = 0
       /\ c.pc = "await" =>
            /\ c.job \in 1 .. Len(pool) /\ job.state # "spent" /\ ~job.late /\ ~job.scope
            /\ c.shape \in DOMAIN Hops /\ GoodHop(c.shape, c.hop)
            /\ job.steps # << >> => Fits(c.shape, c.hop, job.steps)
            /\ job.owned <=> c.shape = "open"
            /\ c.id \in 1 .. aio.calls /\ c.id \notin aio.returned /\ job.id = c.id
            /\ c.after \subseteq aio.returned
            /\ c.shape = "open" /\ job.state = "done" /\ ~job.failed => job.handle = c.job
            /\ c.shape = "close" /\ job.state = "done" /\ ~job.failed => job.handle \in aio.freed

RestType ==
    /\ DOMAIN coro = Tasks
    /\ DOMAIN afile = {"buf", "sent", "journal"} /\ Sequential(afile.buf) /\ Sequential(afile.sent)
    /\ afile.journal \in BOOLEAN
    /\ DOMAIN aio = {"calls", "returned", "handles", "freed", "forgone"} /\ aio.calls \in Nat
    /\ aio.returned \subseteq 1 .. aio.calls
AsyncType == Sequential(pool) /\ RestType

\* Nobody waits for another's job.
OwnJobs ==
    \A t, u \in Tasks : t # u /\ coro[t].pc = "await" /\ coro[u].pc = "await" =>
        coro[t].job # coro[u].job /\ coro[t].id # coro[u].id

BridgeInv ==
    /\ AsyncType /\ OwnJobs
    /\ \A j \in 1 .. Len(pool) : WorkGood(j)
    /\ \A t \in Tasks : CoroGood(t)

\* A job that made a handle is over, and who still waits for it will be given it.
Opened ==
    \A h \in aio.handles :
        /\ h \in 1 .. Len(pool) /\ pool[h].steps = << >>
        /\ \A t \in Tasks : Waits(t, h) => coro[t].shape = "open" /\ ~pool[h].failed

\* What can still reach the server, and for whom.
Live(job) == job.steps # << >> /\ (job.scope => One(job.steps, "buffer"))
Unreturned ==
    \A j \in 1 .. Len(pool) : Live(pool[j]) =>
        /\ pool[j].id \notin aio.returned
        /\ \A t \in Tasks : coro[t].pc = "await" /\ coro[t].id = pool[j].id => coro[t].job = j

\* Nothing in the buffer is older than what is about to be put or was.
FreeOf(buf, after) == \A i \in 1 .. Len(buf) : buf[i] \notin after
PutDue(t) ==
    /\ coro[t].pc = "await" /\ coro[t].shape = "pieces" /\ ~pool[coro[t].job].failed
    /\ coro[t].hop = 2 \/ pool[coro[t].job].state = "done"
SentGood(f) ==
    \A i \in 1 .. Len(f.sent) : ~f.sent[i].raw => FreeOf(f.buf, f.sent[i].after) /\ f.sent[i].after \subseteq aio.returned
Flushes ==
    /\ \A j \in 1 .. Len(pool) : One(pool[j].steps, "put") => FreeOf(afile.buf, pool[j].after)
    /\ \A t \in Tasks : PutDue(t) => FreeOf(afile.buf, coro[t].after)
    /\ SentGood(afile)

\* The journal is that of a block that is still to be left.
InBlock(t) ==
    /\ coro[t].pc = "await" /\ coro[t].shape = "block"
    /\ LET job == pool[coro[t].job]
       IN \/ coro[t].hop = 1 /\ job.state = "done" /\ ~job.failed
          \/ coro[t].hop = 2
          \/ coro[t].hop = 3 /\ job.steps # << >>
Journalled == afile.journal /\ -1 \notin aio.forgone => \E t \in Tasks : InBlock(t)

InOrder(sent) == \A i, j \in 1 .. Len(sent) : i < j /\ ~sent[i].raw => sent[j].id \notin sent[i].after
Ordered == InOrder(afile.sent)

AsyncInv == BridgeInv /\ Opened /\ NoHandleLost /\ Unreturned /\ Flushes /\ Journalled /\ Ordered

-----------------------------------------------------------------------------
(* What the operators of the model do.                                     *)

LEMMA ShapesKnown == Shapes \subseteq DOMAIN Hops
BY DEF Shapes, FileReads, FileWrites, FileRest, FsAsks, FsPrepares, FsLists, FsChanges, FsFiles, Copies, Verbs, Hops

LEMMA StepFacts ==
    /\ \A s, x : One(s, x) => s # << >> /\ Len(s) = 1 /\ Head(s) = x /\ Last(s) = x
    /\ \A s, x : Two(s, x) => s # << >> /\ Len(s) # 1 /\ Head(s) = "flush" /\ Last(s) = x /\ One(Tail(s), x)
    /\ \A s, x, y : One(s, x) /\ One(s, y) => x = y
    /\ \A s, x, y : Two(s, x) /\ Two(s, y) => x = y
    /\ \A s, x, y : ~(One(s, x) /\ Two(s, y))
    /\ \A x : ~One(<< >>, x) /\ ~Two(<< >>, x)
    /\ \A x : One(<<x>>, x)
<1>1. \A s, x : One(s, x) => s # << >> /\ Len(s) = 1 /\ Head(s) = x /\ Last(s) = x
  BY DEF One, Last
<1>2. \A s, x : Two(s, x) => s # << >> /\ Len(s) = 2 /\ Head(s) = "flush" /\ Last(s) = x /\ One(Tail(s), x)
  BY DEF One, Two, Last
<1>3. \A s, x, y : ~(One(s, x) /\ Two(s, y))
  BY <1>1, <1>2
<1>4. \A s, x, y : One(s, x) /\ One(s, y) => x = y
  BY <1>1
<1>5. \A s, x, y : Two(s, x) /\ Two(s, y) => x = y
  BY <1>2
<1>6. \A x : ~One(<< >>, x) /\ ~Two(<< >>, x)
  BY <1>1, <1>2
<1>7. \A x : One(<<x>>, x)
  BY DEF One
<1> QED
  BY <1>1, <1>2, <1>3, <1>4, <1>5, <1>6, <1>7

LEMMA HopsAre ==
    /\ Len(Hops["open"]) = 1 /\ One(Hops["open"][1], "open")
    /\ Len(Hops["trip"]) = 1 /\ One(Hops["trip"][1], "trip")
    /\ Len(Hops["cursor"]) = 1 /\ One(Hops["cursor"][1], "buffer")
    /\ Len(Hops["flush"]) = 1 /\ One(Hops["flush"][1], "flush")
    /\ Len(Hops["direct"]) = 1 /\ One(Hops["direct"][1], "direct")
    /\ Len(Hops["pieces"]) = 2 /\ One(Hops["pieces"][1], "flush") /\ One(Hops["pieces"][2], "put")
    /\ Len(Hops["walk"]) = 2 /\ One(Hops["walk"][1], "trip") /\ One(Hops["walk"][2], "trip")
    /\ Len(Hops["block"]) = 3 /\ One(Hops["block"][1], "begin") /\ One(Hops["block"][2], "direct") /\ One(Hops["block"][3], "commit")
    /\ Len(Hops["flushed"]) = 1 /\ Two(Hops["flushed"][1], "put")
    /\ Len(Hops["close"]) = 1 /\ Two(Hops["close"][1], "close")
    /\ DOMAIN Hops = {"open", "trip", "cursor", "flush", "flushed", "close", "pieces", "direct", "walk", "block"}
<1>1. Len(Hops["open"]) = 1 /\ One(Hops["open"][1], "open")
  <2>1. Hops["open"] = << <<"open">> >>
    BY DEF Hops, FlushFirst
  <2> QED
    BY <2>1 DEF One
<1>2. Len(Hops["trip"]) = 1 /\ One(Hops["trip"][1], "trip")
  <2>1. Hops["trip"] = << <<"trip">> >>
    BY DEF Hops, FlushFirst
  <2> QED
    BY <2>1 DEF One
<1>3. Len(Hops["cursor"]) = 1 /\ One(Hops["cursor"][1], "buffer")
  <2>1. Hops["cursor"] = << <<"buffer">> >>
    BY DEF Hops, FlushFirst
  <2> QED
    BY <2>1 DEF One
<1>4. Len(Hops["flush"]) = 1 /\ One(Hops["flush"][1], "flush")
  <2>1. Hops["flush"] = << <<"flush">> >>
    BY DEF Hops, FlushFirst
  <2> QED
    BY <2>1 DEF One
<1>5. Len(Hops["direct"]) = 1 /\ One(Hops["direct"][1], "direct")
  <2>1. Hops["direct"] = << <<"direct">> >>
    BY DEF Hops, FlushFirst
  <2> QED
    BY <2>1 DEF One
<1>6. Len(Hops["pieces"]) = 2 /\ One(Hops["pieces"][1], "flush") /\ One(Hops["pieces"][2], "put")
  <2>1. Hops["pieces"] = << <<"flush">>, <<"put">> >>
    BY DEF Hops, FlushFirst
  <2> QED
    BY <2>1 DEF One
<1>7. Len(Hops["walk"]) = 2 /\ One(Hops["walk"][1], "trip") /\ One(Hops["walk"][2], "trip")
  <2>1. Hops["walk"] = << <<"trip">>, <<"trip">> >>
    BY DEF Hops, FlushFirst
  <2> QED
    BY <2>1 DEF One
<1>8. Len(Hops["block"]) = 3 /\ One(Hops["block"][1], "begin") /\ One(Hops["block"][2], "direct") /\ One(Hops["block"][3], "commit")
  <2>1. Hops["block"] = << <<"begin">>, <<"direct">>, <<"commit">> >>
    BY DEF Hops, FlushFirst
  <2> QED
    BY <2>1 DEF One
<1>9. Len(Hops["flushed"]) = 1 /\ Two(Hops["flushed"][1], "put")
  <2>1. Hops["flushed"] = << <<"flush", "put">> >>
    BY DEF Hops, FlushFirst
  <2> QED
    BY <2>1 DEF Two
<1>10. Len(Hops["close"]) = 1 /\ Two(Hops["close"][1], "close")
  <2>1. Hops["close"] = << <<"flush", "close">> >>
    BY DEF Hops, FlushFirst
  <2> QED
    BY <2>1 DEF Two
<1>11. DOMAIN Hops = {"open", "trip", "cursor", "flush", "flushed", "close", "pieces", "direct", "walk", "block"}
  BY DEF Hops
<1> QED
  BY <1>1, <1>2, <1>3, <1>4, <1>5, <1>6, <1>7, <1>8, <1>9, <1>10, <1>11

LEMMA HopFits ==
    ASSUME NEW shape \in DOMAIN Hops, NEW h, GoodHop(shape, h)
    PROVE  /\ Fits(shape, h, Hops[shape][h]) /\ StepsGood(Hops[shape][h]) /\ Hops[shape][h] # << >>
           /\ One(Hops[shape][h], "put") => shape = "pieces" /\ h = 2
           /\ h \in Nat /\ (h < Len(Hops[shape]) => GoodHop(shape, h + 1) /\ shape # "open" /\ shape # "close")
<1>1. CASE shape = "open"
  <2>1. h = 1 /\ Len(Hops[shape]) = 1 /\ One(Hops[shape][h], "open")
    BY <1>1, HopsAre DEF GoodHop
  <2> QED
    BY <1>1, <2>1, StepFacts DEF Fits, StepsGood
<1>2. CASE shape \in {"trip", "cursor", "flush", "direct"}
  <2>1. h = 1 /\ Len(Hops[shape]) = 1
    BY <1>2, HopsAre DEF GoodHop
  <2>2. \E x \in {"trip", "buffer", "flush", "direct"} : One(Hops[shape][h], x)
    <3>1. CASE shape = "trip"
      BY <2>1, <3>1, HopsAre
    <3>2. CASE shape = "cursor"
      BY <2>1, <3>2, HopsAre
    <3>3. CASE shape = "flush"
      BY <2>1, <3>3, HopsAre
    <3>4. CASE shape = "direct"
      BY <2>1, <3>4, HopsAre
    <3> QED
      BY <1>2, <3>1, <3>2, <3>3, <3>4
  <2> QED
    BY <1>2, <2>1, <2>2, StepFacts DEF Fits, StepsGood
<1>3. CASE shape = "flushed"
  <2>1. h = 1 /\ Len(Hops[shape]) = 1 /\ Two(Hops[shape][h], "put")
    BY <1>3, HopsAre DEF GoodHop
  <2> QED
    BY <1>3, <2>1, StepFacts DEF Fits, StepsGood
<1>4. CASE shape = "close"
  <2>1. h = 1 /\ Len(Hops[shape]) = 1 /\ Two(Hops[shape][h], "close")
    BY <1>4, HopsAre DEF GoodHop
  <2> QED
    BY <1>4, <2>1, StepFacts DEF Fits, StepsGood
<1>5. CASE shape = "walk"
  <2>1. h \in {1, 2} /\ Len(Hops[shape]) = 2 /\ One(Hops[shape][h], "trip")
    BY <1>5, HopsAre DEF GoodHop
  <2> QED
    BY <1>5, <2>1, StepFacts DEF Fits, StepsGood, GoodHop
<1>6. CASE shape = "pieces"
  <2>1. Len(Hops[shape]) = 2 /\ One(Hops[shape][1], "flush") /\ One(Hops[shape][2], "put") /\ h \in {1, 2}
    BY <1>6, HopsAre DEF GoodHop
  <2> QED
    BY <1>6, <2>1, StepFacts DEF Fits, StepsGood, GoodHop
<1>7. CASE shape = "block"
  <2>1. /\ Len(Hops[shape]) = 3 /\ One(Hops[shape][1], "begin") /\ One(Hops[shape][2], "direct")
        /\ One(Hops[shape][3], "commit") /\ h \in {1, 2, 3}
    BY <1>7, HopsAre DEF GoodHop
  <2> QED
    BY <1>7, <2>1, StepFacts DEF Fits, StepsGood, GoodHop
<1> QED
  BY <1>1, <1>2, <1>3, <1>4, <1>5, <1>6, <1>7, HopsAre

LEMMA JobIs ==
    ASSUME NEW steps, NEW id, NEW owned, NEW h, NEW after
    PROVE  LET x == Job(steps, id, owned, h, after)
           IN /\ DOMAIN x = JobFields /\ x.steps = steps /\ x.state = "queued" /\ x.id = id /\ x.owned = owned
              /\ x.scope = FALSE /\ x.late = FALSE /\ x.failed = FALSE /\ x.handle = h /\ x.after = after
  BY DEF Job, JobFields

LEMMA CloseJobIs ==
    ASSUME NEW h
    PROVE  LET x == Job(<<"close">>, 0, TRUE, h, {})
           IN /\ DOMAIN x = JobFields /\ x.steps = <<"close">> /\ x.state = "queued" /\ x.id = 0 /\ x.owned \in BOOLEAN
              /\ x.scope = FALSE /\ x.late = FALSE /\ x.failed = FALSE /\ x.handle = h /\ x.after = {}
  BY DEF Job, JobFields

LEMMA SpentIs ==
    /\ DOMAIN Spent = JobFields /\ Spent.steps = << >> /\ Spent.state = "spent" /\ Spent.id = 0 /\ Spent.owned = FALSE
    /\ Spent.scope = FALSE /\ Spent.late = FALSE /\ Spent.failed = FALSE /\ Spent.after = {}
  BY DEF Spent, Job, JobFields

LEMMA SubmitIs ==
    ASSUME NEW c, c.shape \in DOMAIN Hops, GoodHop(c.shape, c.hop)
    PROVE  LET x == Submit(c)
           IN /\ DOMAIN x = JobFields /\ StepsGood(x.steps) /\ x.steps # << >> /\ Fits(c.shape, c.hop, x.steps)
              /\ x.state = "queued" /\ x.id = c.id /\ x.owned = (c.shape = "open")
              /\ x.scope = FALSE /\ x.late = FALSE /\ x.failed = FALSE /\ x.after = c.after
              /\ One(x.steps, "put") => c.shape = "pieces" /\ c.hop = 2
<1> DEFINE s == Hops[c.shape][c.hop]
           h == IF c.shape = "close" THEN CHOOSE h \in c.holds : TRUE ELSE 0
           o == (c.shape = "open")
<1>1. /\ StepsGood(s) /\ s # << >> /\ Fits(c.shape, c.hop, s)
      /\ One(s, "put") => c.shape = "pieces" /\ c.hop = 2
  BY HopFits
<1>2. Submit(c) = Job(s, c.id, o, h, c.after)
  BY DEF Submit
<1> HIDE DEF s, h, o
<1>3. LET x == Submit(c)
      IN /\ DOMAIN x = JobFields /\ x.steps = s
         /\ x.state = "queued" /\ x.id = c.id /\ x.owned = o
         /\ x.scope = FALSE /\ x.late = FALSE /\ x.failed = FALSE /\ x.after = c.after
  <2>1. ASSUME NEW x, x = Job(s, c.id, o, h, c.after)
        PROVE  /\ DOMAIN x = JobFields /\ x.steps = s /\ x.state = "queued" /\ x.id = c.id /\ x.owned = o
               /\ x.scope = FALSE /\ x.late = FALSE /\ x.failed = FALSE /\ x.after = c.after
    BY <2>1 DEF Job, JobFields
  <2> QED
    BY <1>2, <2>1
<1> QED
  BY <1>1, <1>3 DEF o

\* The steps of a job go one by one.
LEMMA StepsGo ==
    ASSUME NEW s, StepsGood(s), s # << >>
    PROVE  /\ Len(s) = 1 => One(s, Head(s)) /\ Last(s) = Head(s)
           /\ Len(s) # 1 => Head(s) = "flush" /\ StepsGood(Tail(s)) /\ Tail(s) # << >> /\ Last(Tail(s)) = Last(s)
                            /\ (One(Tail(s), "put") \/ One(Tail(s), "close"))
           /\ Last(s) = "close" <=> One(s, "close") \/ Two(s, "close")
           /\ Last(s) = "commit" <=> One(s, "commit")
           /\ \A shape, h : Fits(shape, h, s) /\ Len(s) # 1 => Fits(shape, h, Tail(s)) /\ shape # "pieces" /\ shape # "block"
<1>1. CASE \E x : One(s, x)
  BY <1>1, StepFacts DEF StepsGood
<1>2. CASE Two(s, "put")
  BY <1>2, StepFacts DEF StepsGood, Fits
<1>3. CASE Two(s, "close")
  BY <1>3, StepFacts DEF StepsGood, Fits
<1> QED
  BY <1>1, <1>2, <1>3 DEF StepsGood

LEMMA AnyAppend ==
    ASSUME NEW s, Sequential(s), NEW x
    PROVE  /\ Sequential(Append(s, x)) /\ Len(s) \in Nat /\ Len(Append(s, x)) = Len(s) + 1
           /\ Append(s, x)[Len(s) + 1] = x
           /\ \A i \in 1 .. Len(s) : Append(s, x)[i] = s[i]
<1>1. PICK S : s \in Seq(S)
  BY DEF Sequential
<1>2. s \in Seq(S \cup {x}) /\ x \in S \cup {x}
  BY <1>1
<1>3. Append(s, x) \in Seq(S \cup {x})
  BY <1>2
<1> QED
  BY <1>2, <1>3 DEF Sequential

-----------------------------------------------------------------------------
(* What a step leaves alone.                                               *)

Grew ==
    /\ aio.calls \in Nat /\ aio'.calls \in Nat /\ aio.calls <= aio'.calls /\ aio.returned \subseteq aio'.returned
    /\ aio.freed \subseteq aio'.freed /\ aio.forgone \subseteq aio'.forgone
Pools == Sequential(pool') /\ Len(pool) \in Nat /\ Len(pool') \in Nat /\ Len(pool) <= Len(pool')

LEMMA Untouched ==
    ASSUME Grew, NEW k, WorkGood(k), pool'[k] = pool[k], \A t \in Tasks : Waits(t, k) => Waits(t, k)'
    PROVE  WorkGood(k)'
<1>1. \A t \in Tasks : Waits(t, k) => Waits(t, k)'
  OBVIOUS
<1> DEFINE w == \E t \in Tasks : Waits(t, k)
<1>2. w => w'
  BY <1>1
<1> HIDE DEF w
<1>3. /\ pool[k].id \in 0 .. aio'.calls /\ pool[k].after \subseteq aio'.returned
      /\ -1 \in aio.forgone => -1 \in aio'.forgone
  BY DEF WorkGood, Grew
<1> QED
  BY <1>2, <1>3 DEF WorkGood, w

LEMMA Unmoved ==
    ASSUME Grew, Pools, NEW u, CoroGood(u), coro'[u] = coro[u],
           coro[u].pc = "await" => pool'[coro[u].job] = pool[coro[u].job] /\ coro[u].id \notin aio'.returned
    PROVE  CoroGood(u)'
<1>1. CASE coro[u].pc # "await"
  BY <1>1 DEF CoroGood
<1>2. CASE coro[u].pc = "await"
  <2>1. /\ coro[u].job \in 1 .. Len(pool') /\ coro[u].id \in 1 .. aio'.calls /\ coro[u].after \subseteq aio'.returned
        /\ pool[coro[u].job].handle \in aio.freed => pool[coro[u].job].handle \in aio'.freed
    BY <1>2 DEF CoroGood, Grew, Pools
  <2> QED
    BY <1>2, <2>1 DEF CoroGood
<1> QED
  BY <1>1, <1>2

LEMMA BridgeStep ==
    ASSUME BridgeInv, Grew, Pools, AsyncType', OwnJobs', NEW J, NEW T,
           \A k \in 1 .. Len(pool) : k \notin J => pool'[k] = pool[k],
           \A k \in 1 .. Len(pool') : k \in J \/ k > Len(pool) => WorkGood(k)',
           \A u \in Tasks : u \notin T =>
               coro'[u] = coro[u] /\ (coro[u].pc = "await" => coro[u].job \notin J /\ coro[u].id \notin aio'.returned),
           \A u \in Tasks : u \in T =>
               CoroGood(u)' /\ (coro[u].pc = "await" => coro[u].job \in J \/ (coro'[u].pc = "await" /\ coro'[u].job = coro[u].job))
    PROVE  BridgeInv'
<1>1. ASSUME NEW k \in 1 .. Len(pool') PROVE WorkGood(k)'
  <2>1. CASE k \in J \/ k > Len(pool)
    BY <2>1
  <2>2. CASE ~(k \in J \/ k > Len(pool))
    <3>1. k \in 1 .. Len(pool)
      BY <2>2 DEF Pools
    <3>2. pool'[k] = pool[k] /\ WorkGood(k)
      BY <2>2, <3>1 DEF BridgeInv
    <3>3. \A t \in Tasks : Waits(t, k) => Waits(t, k)'
      BY <2>2 DEF Waits
    <3> QED
      BY <3>2, <3>3, Untouched
  <2> QED
    BY <2>1, <2>2
<1>2. ASSUME NEW u \in Tasks PROVE CoroGood(u)'
  <2>1. CASE u \in T
    BY <2>1
  <2>2. CASE u \notin T
    <3>1. CoroGood(u) /\ coro'[u] = coro[u]
      BY <2>2 DEF BridgeInv
    <3>2. coro[u].pc = "await" => pool'[coro[u].job] = pool[coro[u].job] /\ coro[u].id \notin aio'.returned
      BY <2>2, <3>1 DEF CoroGood
    <3> QED
      BY <3>1, <3>2, Unmoved
  <2> QED
    BY <2>1, <2>2
<1> QED
  BY <1>1, <1>2 DEF BridgeInv

\* One coroutine goes on to a job of its own, or to none.
LEMMA OwnStep ==
    ASSUME BridgeInv, NEW t \in Tasks, \A u \in Tasks : u # t => coro'[u] = coro[u],
           \/ coro'[t].pc # "await"
           \/ coro'[t].job \notin 1 .. Len(pool) /\ (coro'[t].id = aio.calls + 1 \/ (coro[t].pc = "await" /\ coro'[t].id = coro[t].id))
    PROVE  OwnJobs'
<1>1. \A u \in Tasks : coro[u].pc = "await" => coro[u].job \in 1 .. Len(pool) /\ coro[u].id # aio.calls + 1
  BY DEF BridgeInv, CoroGood, AsyncType, RestType
<1> QED
  BY <1>1 DEF BridgeInv, OwnJobs

LEMMA AnyDomain == ASSUME NEW s, Sequential(s) PROVE DOMAIN s = 1 .. Len(s)
  BY DEF Sequential

-----------------------------------------------------------------------------
(* The steps.                                                              *)

LEMMA AsyncStart == AsyncInit => AsyncInv
<1> SUFFICES ASSUME AsyncInit PROVE AsyncInv
  OBVIOUS
<1>0. << >> \in Seq({}) /\ Len(<< >>) = 0
  OBVIOUS
<1>1. DOMAIN coro = Tasks /\ \A t \in Tasks : DOMAIN coro[t] = CoroFields /\ coro[t].pc = "idle" /\ coro[t].job = 0
  BY DEF AsyncInit, Awaiting, CoroFields
<1>2. Sequential(pool) /\ Len(pool) = 0
  BY <1>0 DEF AsyncInit, Sequential
<1>3. /\ DOMAIN afile = {"buf", "sent", "journal"} /\ Sequential(afile.buf) /\ Sequential(afile.sent)
      /\ afile.journal = FALSE /\ Len(afile.sent) = 0
  BY <1>0 DEF AsyncInit, Sequential
<1>4. /\ DOMAIN aio = {"calls", "returned", "handles", "freed", "forgone"} /\ aio.calls = 0
      /\ aio.returned = {} /\ aio.handles = {}
  BY DEF AsyncInit
<1>5. BridgeInv
  <2>1. AsyncType
    <3>1. aio.calls \in Nat /\ aio.returned \subseteq 1 .. aio.calls
      BY <1>4
    <3>2. afile.journal \in BOOLEAN
      BY <1>3, Zenon
    <3> QED
      BY <1>1, <1>2, <1>3, <1>4, <3>1, <3>2, Zenon DEF AsyncType, RestType
  <2>2. OwnJobs /\ \A t \in Tasks : CoroGood(t)
    BY <1>1 DEF OwnJobs, CoroGood
  <2>3. \A j \in 1 .. Len(pool) : FALSE
    BY <1>2
  <2> QED
    BY <2>1, <2>2, <2>3 DEF BridgeInv
<1>6. (\A j \in 1 .. Len(pool) : FALSE) /\ (\A j \in 1 .. Len(afile.sent) : FALSE)
  BY <1>2, <1>3
<1>7. Opened /\ NoHandleLost /\ Unreturned /\ Flushes
  BY <1>1, <1>4, <1>6 DEF Opened, NoHandleLost, Unreturned, Flushes, SentGood, PutDue
<1>8. Journalled /\ Ordered
  BY <1>3, <1>6 DEF Journalled, Ordered, InOrder
<1> QED
  BY <1>5, <1>7, <1>8 DEF AsyncInv

LEMMA AwaitStep == ASSUME AsyncInv, NEW t \in Tasks, Await(t) PROVE AsyncInv'
<1> USE DEF AsyncInv
<1>0. PICK n : n = Len(pool)
  OBVIOUS
<1>1. PICK shape \in Shapes :
        LET c == [coro[t] EXCEPT !.pc = "await", !.shape = shape, !.hop = 1, !.job = Len(pool) + 1,
                                 !.id = aio.calls + 1, !.after = aio.returned]
        IN coro' = [coro EXCEPT ![t] = c] /\ pool' = Append(pool, Submit(c))
  BY DEF Await
<1> DEFINE c == [coro[t] EXCEPT !.pc = "await", !.shape = shape, !.hop = 1, !.job = Len(pool) + 1,
                                !.id = aio.calls + 1, !.after = aio.returned]
           x == Submit(c)
<1>2. coro[t].pc = "idle" /\ UNCHANGED afile /\ aio' = [aio EXCEPT !.calls = aio.calls + 1]
  BY DEF Await
<1>3. /\ DOMAIN aio' = DOMAIN aio /\ aio'.calls = aio.calls + 1 /\ aio'.returned = aio.returned
      /\ aio'.handles = aio.handles /\ aio'.freed = aio.freed /\ aio'.forgone = aio.forgone /\ aio.calls \in Nat
      /\ aio.returned \subseteq 1 .. aio.calls
  BY <1>2 DEF BridgeInv, AsyncType, RestType
<1>4. Grew /\ aio'.returned \subseteq 1 .. aio'.calls
  BY <1>3 DEF Grew
<1>6. AsyncInv'
  <2>1. shape \in DOMAIN Hops
    BY ShapesKnown
  <2>2. /\ DOMAIN c = CoroFields /\ c.pc = "await" /\ c.shape = shape /\ c.hop = 1 /\ c.job = n + 1 /\ c.id = aio.calls + 1
        /\ c.after = aio.returned /\ c.holds = coro[t].holds
    BY <1>0 DEF BridgeInv, CoroGood, CoroFields
  <2> HIDE DEF c
  <2>3. GoodHop(c.shape, c.hop) /\ ~(c.hop = 2)
    BY <2>2 DEF GoodHop
  <2>4. /\ DOMAIN x = JobFields /\ StepsGood(x.steps) /\ x.steps # << >> /\ Fits(c.shape, c.hop, x.steps)
        /\ x.state = "queued" /\ x.id = c.id /\ x.owned = (c.shape = "open")
        /\ x.scope = FALSE /\ x.late = FALSE /\ x.failed = FALSE /\ x.after = c.after
        /\ ~One(x.steps, "put")
    <3>1. c.shape \in DOMAIN Hops
      BY <2>1, <2>2
    <3> QED
      BY <2>3, <3>1, SubmitIs
  <2> HIDE DEF x
  <2>5. DOMAIN coro' = Tasks /\ coro'[t] = c /\ (\A u \in Tasks : u # t => coro'[u] = coro[u]) /\ pool' = Append(pool, x)
    BY <1>1 DEF BridgeInv, AsyncType, RestType, c, x
  <2>6. /\ Sequential(pool') /\ n \in Nat /\ Len(pool') = n + 1 /\ pool'[n + 1] = x
        /\ \A i \in 1 .. n : pool'[i] = pool[i]
    BY <1>0, <2>5, AnyAppend DEF BridgeInv, AsyncType, RestType
  <2>7. /\ Pools /\ \A k \in 1 .. Len(pool') : k \in 1 .. n \/ k = n + 1
        /\ n = Len(pool) /\ n + 1 \in 1 .. Len(pool')
        /\ n + 1 \notin 1 .. n /\ \A k \in 1 .. Len(pool') : k > Len(pool) <=> k = n + 1
    BY <1>0, <2>6 DEF Pools
  <2>8. AsyncType'
    BY <1>2, <1>3, <1>4, <2>5, <2>6 DEF BridgeInv, AsyncType, RestType
  <2>9. OwnJobs'
    BY <2>2, <2>5, <2>7, OwnStep
  <2>10. WorkGood(n + 1)'
    <3>1. Waits(t, n + 1)'
      BY <2>2, <2>5 DEF Waits
    <3>2. x.id \in 0 .. aio'.calls /\ x.after \subseteq aio'.returned
      BY <1>3, <2>2, <2>4
    <3> QED
      BY <2>4, <2>6, <3>1, <3>2 DEF WorkGood
  <2>11. CoroGood(t)'
    <3>1. c.id \in 1 .. aio'.calls /\ c.id \notin aio'.returned /\ c.after \subseteq aio'.returned
      BY <1>3, <2>2
    <3> QED
      BY <2>1, <2>2, <2>3, <2>4, <2>5, <2>6, <2>7, <3>1 DEF CoroGood
  <2>12. BridgeInv'
    <3>1. \A u \in Tasks : coro[u].pc = "await" => coro[u].id \notin aio'.returned
      BY <1>3 DEF BridgeInv, CoroGood
    <3> DEFINE E == {}
               T == {t}
    <3>3. (\A k : k \notin E) /\ \A u : u \in T <=> u = t
      OBVIOUS
    <3> HIDE DEF E, T
    <3>2. \A k \in 1 .. Len(pool') : k \in E \/ k > Len(pool) => WorkGood(k)'
      BY <2>7, <2>10, <3>3
    <3>4. \A u \in Tasks : u \in T =>
            CoroGood(u)' /\ (coro[u].pc = "await" => coro[u].job \in E \/ (coro'[u].pc = "await" /\ coro'[u].job = coro[u].job))
      BY <1>2, <2>11, <3>3
    <3>5. \A u \in Tasks : u \notin T =>
            coro'[u] = coro[u] /\ (coro[u].pc = "await" => coro[u].job \notin E /\ coro[u].id \notin aio'.returned)
      BY <2>5, <3>1, <3>3
    <3>6. \A k \in 1 .. Len(pool) : k \notin E => pool'[k] = pool[k]
      BY <2>6, <2>7
    <3> QED
      BY <1>4, <2>7, <2>8, <2>9, <3>1, <3>2, <3>3, <3>4, <3>5, <3>6, BridgeStep
  <2>13. \A u \in Tasks : coro[u].pc = "await" => coro[u].job \in 1 .. n /\ u # t /\ coro[u].id # c.id
    BY <1>2, <1>3, <2>2, <2>7 DEF BridgeInv, CoroGood
  <2>14. Opened'
    BY <1>3, <2>2, <2>5, <2>6, <2>7, <2>13 DEF Opened, Waits
  <2>15. NoHandleLost'
    <3>1. ASSUME NEW h \in aio.handles \ (aio.freed \cup aio.forgone)
          PROVE  (\E u \in Tasks : h \in coro'[u].holds) \/ Undelivered(h)' \/ Releasing(h)'
      <4>1. CASE \E u \in Tasks : h \in coro[u].holds
        BY <2>2, <2>5, <4>1
      <4>2. CASE Undelivered(h)
        <5>1. h \in 1 .. n
          BY <2>7 DEF Opened
        <5> QED
          BY <2>5, <2>6, <2>13, <4>2, <5>1 DEF Undelivered
      <4>3. CASE Releasing(h)
        <5>1. PICK k \in DOMAIN pool : pool[k].handle = h /\ pool[k].state \in {"queued", "running"}
                                       /\ pool[k].steps # << >> /\ Last(pool[k].steps) = "close"
          BY <4>3 DEF Releasing
        <5>2. k \in 1 .. n /\ DOMAIN pool' = 1 .. n + 1
          BY <2>6, <2>7, AnyDomain DEF BridgeInv, AsyncType, RestType
        <5>3. k \in DOMAIN pool' /\ pool'[k] = pool[k]
          BY <2>6, <5>2
        <5> QED
          BY <5>1, <5>3 DEF Releasing
      <4> QED
        BY <4>1, <4>2, <4>3 DEF NoHandleLost
    <3> QED
      BY <1>3, <3>1 DEF NoHandleLost
  <2>16. Unreturned'
    <3>1. ASSUME NEW k \in 1 .. Len(pool'), Live(pool'[k])
          PROVE  /\ pool'[k].id \notin aio'.returned
                 /\ \A u \in Tasks : coro'[u].pc = "await" /\ coro'[u].id = pool'[k].id => coro'[u].job = k
      <4>1. CASE k = n + 1
        BY <1>3, <2>2, <2>4, <2>5, <2>6, <2>13, <4>1
      <4>2. CASE k \in 1 .. n
        <5>1. pool'[k] = pool[k] /\ pool[k].id \in 0 .. aio.calls /\ k \in 1 .. Len(pool)
          BY <2>6, <2>7, <4>2 DEF BridgeInv, WorkGood
        <5>2. pool[k].id # c.id
          BY <1>3, <2>2, <5>1
        <5> QED
          BY <1>3, <2>2, <2>5, <3>1, <5>1, <5>2 DEF Unreturned
      <4> QED
        BY <2>7, <4>1, <4>2
    <3> QED
      BY <3>1 DEF Unreturned
  <2>17. Flushes'
    <3>1. \A k \in 1 .. Len(pool') : One(pool'[k].steps, "put") => FreeOf(afile'.buf, pool'[k].after)
      BY <1>2, <2>4, <2>6, <2>7 DEF Flushes, SentGood
    <3>2. \A u \in Tasks : PutDue(u)' => FreeOf(afile'.buf, coro'[u].after)
      BY <1>2, <2>2, <2>3, <2>4, <2>5, <2>6, <2>13 DEF Flushes, SentGood, PutDue
    <3> QED
      BY <1>2, <1>3, <3>1, <3>2 DEF Flushes, SentGood
  <2>18. Journalled' /\ Ordered'
    BY <1>2, <1>3, <2>5, <2>6, <2>13 DEF Journalled, Ordered, InOrder, InBlock
  <2> QED
    BY <2>12, <2>14, <2>15, <2>16, <2>17, <2>18
<1> QED
  BY <1>6

-----------------------------------------------------------------------------
(* One job is changed, and at most one is added.                           *)

Spares(j) == Pools /\ j \in 1 .. Len(pool) /\ \A k \in 1 .. Len(pool) : k # j => pool'[k] = pool[k]

LEMMA PoolPut ==
    ASSUME Sequential(pool), NEW j \in 1 .. Len(pool), NEW y, pool' = [pool EXCEPT ![j] = y]
    PROVE  /\ Spares(j) /\ Sequential(pool') /\ Len(pool) \in Nat /\ Len(pool') = Len(pool) /\ pool'[j] = y
           /\ \A k \in 1 .. Len(pool') : k = j \/ k > Len(pool) => k = j
<1>1. /\ Sequential(pool') /\ Len(pool) \in Nat /\ Len(pool') = Len(pool) /\ pool'[j] = y
      /\ \A k \in 1 .. Len(pool) : k # j => pool'[k] = pool[k]
  <2>1. PICK S : pool \in Seq(S)
    BY DEF Sequential
  <2>2. pool \in Seq(S \cup {y}) /\ y \in S \cup {y}
    BY <2>1
  <2>3. pool' \in Seq(S \cup {y})
    BY <2>2
  <2> QED
    BY <2>2, <2>3 DEF Sequential
<1> QED
  BY <1>1 DEF Spares, Pools

Added(j, y, x, n) ==
    /\ Spares(j) /\ Sequential(pool') /\ n \in Nat /\ Len(pool') = n + 1 /\ pool'[j] = y /\ pool'[n + 1] = x
    /\ j # n + 1 /\ n + 1 \notin 1 .. n /\ n + 1 \in 1 .. Len(pool')
    /\ \A k \in 1 .. Len(pool') : k = j \/ k > Len(pool) => k = j \/ k = n + 1
    /\ \A k \in 1 .. Len(pool') : k = j \/ k = n + 1 \/ k \in 1 .. n
LEMMA PoolAdd ==
    ASSUME Sequential(pool), NEW j \in 1 .. Len(pool), NEW y, NEW x, NEW n, n = Len(pool),
           pool' = Append([pool EXCEPT ![j] = y], x)
    PROVE  Added(j, y, x, n)
<1> DEFINE q == [pool EXCEPT ![j] = y]
<1>1. /\ Sequential(q) /\ Len(pool) \in Nat /\ Len(q) = Len(pool) /\ q[j] = y
      /\ \A k \in 1 .. Len(pool) : k # j => q[k] = pool[k]
  <2>1. PICK S : pool \in Seq(S)
    BY DEF Sequential
  <2>2. pool \in Seq(S \cup {y}) /\ y \in S \cup {y}
    BY <2>1
  <2>3. q \in Seq(S \cup {y})
    BY <2>2
  <2> QED
    BY <2>2, <2>3 DEF Sequential
<1>2. pool' = Append(q, x)
  OBVIOUS
<1> HIDE DEF q
<1>3. /\ Sequential(Append(q, x)) /\ Len(Append(q, x)) = Len(q) + 1 /\ Append(q, x)[Len(q) + 1] = x
      /\ \A k \in 1 .. Len(q) : Append(q, x)[k] = q[k]
  BY <1>1, AnyAppend
<1>4. Sequential(pool') /\ n \in Nat /\ Len(pool') = n + 1 /\ pool'[n + 1] = x /\ pool'[j] = y
  BY <1>1, <1>2, <1>3
<1>5. \A k \in 1 .. Len(pool) : k # j => pool'[k] = pool[k]
  BY <1>1, <1>2, <1>3
<1>6. /\ j # n + 1 /\ n + 1 \notin 1 .. n /\ n + 1 \in 1 .. Len(pool')
      /\ \A k \in 1 .. Len(pool') : k = j \/ k > Len(pool) => k = j \/ k = n + 1
      /\ \A k \in 1 .. Len(pool') : k = j \/ k = n + 1 \/ k \in 1 .. n
  BY <1>4
<1> QED
  BY <1>4, <1>5, <1>6 DEF Added, Spares, Pools

\* A worker's step.
LEMMA WorkStep ==
    ASSUME BridgeInv, Grew, AsyncType', coro' = coro, aio'.returned = aio.returned, NEW j, Spares(j),
           \A k \in 1 .. Len(pool') : k = j \/ k > Len(pool) => WorkGood(k)',
           \A u \in Tasks : Waits(u, j) => CoroGood(u)'
    PROVE  BridgeInv'
<1> DEFINE J == {j}
           T == {u \in Tasks : Waits(u, j)}
<1>1. (\A k : k \in J <=> k = j) /\ \A u \in Tasks : u \in T <=> Waits(u, j)
  OBVIOUS
<1> HIDE DEF J, T
<1>2. OwnJobs'
  BY DEF BridgeInv, OwnJobs
<1>3. Pools /\ \A k \in 1 .. Len(pool) : k \notin J => pool'[k] = pool[k]
  BY <1>1 DEF Spares
<1>4. \A k \in 1 .. Len(pool') : k \in J \/ k > Len(pool) => WorkGood(k)'
  BY <1>1
<1>5. \A u \in Tasks : u \notin T =>
        coro'[u] = coro[u] /\ (coro[u].pc = "await" => coro[u].job \notin J /\ coro[u].id \notin aio'.returned)
  BY <1>1 DEF Waits, BridgeInv, CoroGood
<1>6. \A u \in Tasks : u \in T =>
        CoroGood(u)' /\ (coro[u].pc = "await" => coro[u].job \in J \/ (coro'[u].pc = "await" /\ coro'[u].job = coro[u].job))
  BY <1>1
<1> QED
  BY <1>2, <1>3, <1>4, <1>5, <1>6, BridgeStep

\* A step of the loop, for the coroutine that waits for the job.
LEMMA LoopStep ==
    ASSUME BridgeInv, Grew, AsyncType', OwnJobs', NEW j, Spares(j), NEW t \in Tasks, Waits(t, j),
           \A k \in 1 .. Len(pool') : k = j \/ k > Len(pool) => WorkGood(k)',
           CoroGood(t)', \A u \in Tasks : u # t => coro'[u] = coro[u],
           aio'.returned \subseteq aio.returned \cup {coro[t].id}
    PROVE  BridgeInv'
<1> DEFINE J == {j}
           T == {t}
<1>1. (\A k : k \in J <=> k = j) /\ \A u \in Tasks : u \in T <=> u = t
  OBVIOUS
<1> HIDE DEF J, T
<1>3. Pools /\ \A k \in 1 .. Len(pool) : k \notin J => pool'[k] = pool[k]
  BY <1>1 DEF Spares
<1>4. \A k \in 1 .. Len(pool') : k \in J \/ k > Len(pool) => WorkGood(k)'
  BY <1>1
<1>5. \A u \in Tasks : u \notin T =>
        coro'[u] = coro[u] /\ (coro[u].pc = "await" => coro[u].job \notin J /\ coro[u].id \notin aio'.returned)
  BY <1>1 DEF Waits, BridgeInv, CoroGood, OwnJobs
<1>6. \A u \in Tasks : u \in T =>
        CoroGood(u)' /\ (coro[u].pc = "await" => coro[u].job \in J \/ (coro'[u].pc = "await" /\ coro'[u].job = coro[u].job))
  BY <1>1 DEF Waits
<1> QED
  BY <1>3, <1>4, <1>5, <1>6, BridgeStep

Frees(k, h) ==
    pool[k].handle = h /\ pool[k].state \in {"queued", "running"} /\ pool[k].steps # << >> /\ Last(pool[k].steps) = "close"
Owned(h) == (\E u \in Tasks : h \in coro[u].holds) \/ Undelivered(h) \/ Releasing(h)

LEMMA Releaser ==
    ASSUME AsyncType
    PROVE  /\ \A h : Releasing(h) <=> \E k \in 1 .. Len(pool) : Frees(k, h)
           /\ \A h : Undelivered(h) <=> pool[h].late \/ \E t \in Tasks : Waits(t, h)
           /\ NoHandleLost <=> \A h \in aio.handles \ (aio.freed \cup aio.forgone) : Owned(h)
<1>1. DOMAIN pool = 1 .. Len(pool)
  BY AnyDomain DEF AsyncType, RestType
<1> QED
  BY <1>1 DEF Releasing, Frees, Undelivered, Waits, NoHandleLost, Owned

LEMMA OwnedStep ==
    ASSUME AsyncType, AsyncType', NEW j, Spares(j), NEW h \in 1 .. Len(pool), Owned(h),
           \A u \in Tasks : h \in coro[u].holds => \E v \in Tasks : h \in coro'[v].holds,
           h # j => \A u \in Tasks : Waits(u, h) => Waits(u, h)',
           h = j /\ Undelivered(h) => Owned(h)',
           Frees(j, h) => Owned(h)'
    PROVE  Owned(h)'
<1>1. CASE \E u \in Tasks : h \in coro[u].holds
  BY <1>1 DEF Owned
<1>2. CASE Undelivered(h) /\ h # j
  <2>1. pool'[h] = pool[h]
    BY <1>2 DEF Spares
  <2>2. (pool[h].late \/ \E t \in Tasks : Waits(t, h))
    BY <1>2, Releaser
  <2>3. pool'[h].late \/ \E t \in Tasks : Waits(t, h)'
    BY <1>2, <2>1, <2>2
  <2>4. Undelivered(h)'
    BY <2>3 DEF Undelivered, Waits
  <2> QED
    BY <2>4 DEF Owned
<1>3. CASE Releasing(h)
  <2>1. PICK k \in 1 .. Len(pool) : Frees(k, h)
    BY <1>3, Releaser
  <2>2. CASE k # j
    <3>1. pool'[k] = pool[k] /\ k \in 1 .. Len(pool')
      BY <2>2 DEF Spares, Pools
    <3>2. DOMAIN pool' = 1 .. Len(pool')
      BY AnyDomain DEF AsyncType, RestType
    <3>3. Releasing(h)'
      BY <2>1, <3>1, <3>2 DEF Frees, Releasing
    <3> QED
      BY <3>3 DEF Owned
  <2> QED
    BY <2>1, <2>2
<1> QED
  BY <1>1, <1>2, <1>3 DEF Owned

LEMMA UnreturnedStep ==
    ASSUME BridgeInv, Unreturned, NEW j, Spares(j),
           \A u \in Tasks : coro'[u].pc = "await" =>
               coro[u].pc = "await" /\ coro'[u].id = coro[u].id /\ (coro[u].job # j => coro'[u].job = coro[u].job),
           \A i \in aio'.returned : i \in aio.returned \/ \E u \in Tasks : Waits(u, j) /\ i = coro[u].id,
           \A k \in 1 .. Len(pool') : (k = j \/ k > Len(pool)) /\ Live(pool'[k]) =>
               /\ pool'[k].id \notin aio'.returned
               /\ \A u \in Tasks : coro'[u].pc = "await" /\ coro'[u].id = pool'[k].id => coro'[u].job = k
    PROVE  Unreturned'
<1> SUFFICES ASSUME NEW k \in 1 .. Len(pool'), Live(pool'[k])
             PROVE  /\ pool'[k].id \notin aio'.returned
                    /\ \A u \in Tasks : coro'[u].pc = "await" /\ coro'[u].id = pool'[k].id => coro'[u].job = k
  BY DEF Unreturned
<1>1. CASE k # j /\ ~(k > Len(pool))
  <2>1. k \in 1 .. Len(pool) /\ pool'[k] = pool[k]
    BY <1>1 DEF Spares, Pools
  <2>2. /\ pool[k].id \notin aio.returned
        /\ \A u \in Tasks : coro[u].pc = "await" /\ coro[u].id = pool[k].id => coro[u].job = k
    BY <2>1 DEF Unreturned
  <2> QED
    BY <1>1, <2>1, <2>2 DEF Waits
<1> QED
  BY <1>1

LEMMA FlushesStep ==
    ASSUME Flushes, afile' = afile, aio.returned \subseteq aio'.returned, NEW j, Spares(j),
           \A k \in 1 .. Len(pool') : (k = j \/ k > Len(pool)) /\ One(pool'[k].steps, "put") => FreeOf(afile.buf, pool'[k].after),
           \A u \in Tasks : PutDue(u)' => FreeOf(afile.buf, coro'[u].after)
    PROVE  Flushes'
<1>1. ASSUME NEW k \in 1 .. Len(pool'), One(pool'[k].steps, "put") PROVE FreeOf(afile'.buf, pool'[k].after)
  <2>1. CASE k # j /\ ~(k > Len(pool))
    <3>1. k \in 1 .. Len(pool) /\ pool'[k] = pool[k]
      BY <2>1 DEF Spares, Pools
    <3> QED
      BY <1>1, <3>1 DEF Flushes, SentGood
  <2> QED
    BY <1>1, <2>1
<1> QED
  BY <1>1 DEF Flushes, SentGood

-----------------------------------------------------------------------------
(* A worker takes a job.                                                   *)

LEMMA TakeStep == ASSUME AsyncInv, NEW j \in DOMAIN pool, TakeJob(j) PROVE AsyncInv'
<1> USE DEF AsyncInv
<1> DEFINE y == [pool[j] EXCEPT !.state = "running"]
<1>1. j \in 1 .. Len(pool) /\ pool[j].state = "queued" /\ UNCHANGED <<coro, afile, aio>> /\ WorkGood(j) /\ Sequential(pool)
      /\ AsyncType
  BY AnyDomain DEF TakeJob, BridgeInv, AsyncType, RestType
<1>2. /\ DOMAIN y = JobFields /\ y.steps = pool[j].steps /\ y.state = "running" /\ y.id = pool[j].id /\ y.owned = pool[j].owned
      /\ y.scope = pool[j].scope /\ y.late = pool[j].late /\ y.failed = pool[j].failed /\ y.handle = pool[j].handle
      /\ y.after = pool[j].after
  BY <1>1 DEF WorkGood, JobFields
<1>3. pool' = [pool EXCEPT ![j] = y]
  BY <1>1 DEF TakeJob
<1> HIDE DEF y
<1>4. Spares(j) /\ Len(pool') = Len(pool) /\ pool'[j] = y /\ Len(pool) \in Nat
  BY <1>1, <1>3, PoolPut
<1>5. Grew /\ AsyncType' /\ aio'.returned = aio.returned /\ coro' = coro
  BY <1>1, <1>4 DEF Grew, AsyncType, RestType, Spares, Pools
<1>6. WorkGood(j)'
  BY <1>1, <1>2, <1>4 DEF WorkGood, Waits
<1>7. ASSUME NEW u \in Tasks, Waits(u, j) PROVE CoroGood(u)'
  <2>1. CoroGood(u) /\ coro[u].job = j /\ coro[u].pc = "await" /\ pool[j].state # "done"
    BY <1>1, <1>7 DEF BridgeInv, Waits
  <2> QED
    BY <1>1, <1>2, <1>4, <2>1 DEF CoroGood
<1>8. BridgeInv'
  <2>1. \A k \in 1 .. Len(pool') : k = j \/ k > Len(pool) => WorkGood(k)'
    BY <1>4, <1>6
  <2> QED
    BY <1>4, <1>5, <1>7, <2>1, WorkStep
<1>9. \A k \in 1 .. Len(pool) : /\ pool'[k].steps = pool[k].steps /\ pool'[k].failed = pool[k].failed /\ pool'[k].late = pool[k].late
                                /\ pool'[k].handle = pool[k].handle /\ pool'[k].id = pool[k].id /\ pool'[k].after = pool[k].after
                                /\ pool'[k].scope = pool[k].scope
                                /\ (pool[k].state \in {"queued", "running"} => pool'[k].state \in {"queued", "running"})
                                /\ (pool'[k].state = "done" <=> pool[k].state = "done")
  BY <1>1, <1>2, <1>4 DEF Spares
<1>10. \A u \in Tasks : coro[u].pc = "await" => coro[u].job \in 1 .. Len(pool)
  BY DEF BridgeInv, CoroGood
<1>11. Opened'
  BY <1>1, <1>4, <1>9 DEF Opened, Waits
<1>12. NoHandleLost'
  <2>1. ASSUME NEW h \in aio.handles \ (aio.freed \cup aio.forgone) PROVE Owned(h)'
    <3>1. Owned(h) /\ h \in 1 .. Len(pool)
      BY <1>1, Releaser DEF Opened
    <3>2. h = j /\ Undelivered(h) => Owned(h)'
      BY <1>1, <1>9, <3>1 DEF Undelivered, Owned
    <3>3. Frees(j, h) => Owned(h)'
      <4>1. Frees(j, h) => Frees(j, h)'
        BY <1>1, <1>9 DEF Frees
      <4>2. DOMAIN pool' = 1 .. Len(pool')
        BY <1>5, AnyDomain DEF AsyncType, RestType
      <4> QED
        BY <1>1, <1>4, <4>1, <4>2 DEF Owned, Releasing, Frees
    <3> QED
      BY <1>1, <1>4, <1>5, <3>1, <3>2, <3>3, OwnedStep DEF Waits
  <2> QED
    BY <1>1, <1>5, <2>1 DEF NoHandleLost, Owned
<1>13. Unreturned'
  BY <1>1, <1>4, <1>9 DEF Unreturned, Live
<1>14. Flushes'
  BY <1>1, <1>4, <1>9, <1>10 DEF Flushes, SentGood, PutDue
<1>15. Journalled' /\ Ordered'
  BY <1>1, <1>9, <1>10 DEF Journalled, Ordered, InOrder, InBlock
<1> QED
  BY <1>8, <1>11, <1>12, <1>13, <1>14, <1>15

-----------------------------------------------------------------------------
(* A worker's step, and the file.                                          *)

\* The file after a step: in order, and no fuller of what a put may not overtake.
FileGood(f) ==
    /\ DOMAIN f = {"buf", "sent", "journal"} /\ Sequential(f.buf) /\ Sequential(f.sent) /\ f.journal \in BOOLEAN
    /\ InOrder(f.sent) /\ SentGood(f)
    /\ \A after \in SUBSET aio.returned : FreeOf(afile.buf, after) => FreeOf(f.buf, after)

LEMMA FileAsIs == ASSUME AsyncType, Flushes, Ordered PROVE FileGood(afile)
  BY DEF AsyncType, RestType, Flushes, Ordered, FileGood

LEMMA AnyConcat ==
    ASSUME NEW s, NEW r, Sequential(s), Sequential(r)
    PROVE  /\ Sequential(s \o r) /\ Len(s) \in Nat /\ Len(r) \in Nat /\ Len(s \o r) = Len(s) + Len(r)
           /\ \A i \in 1 .. Len(s) : (s \o r)[i] = s[i]
           /\ \A i \in 1 .. Len(s \o r) : i \in 1 .. Len(s) \/ (i - Len(s) \in 1 .. Len(r) /\ (s \o r)[i] = r[i - Len(s)])
<1>1. PICK S : s \in Seq(S)
  BY DEF Sequential
<1>2. PICK R : r \in Seq(R)
  BY DEF Sequential
<1>3. s \in Seq(S \cup R) /\ r \in Seq(S \cup R)
  BY <1>1, <1>2
<1>4. s \o r \in Seq(S \cup R)
  BY <1>3
<1> QED
  BY <1>3, <1>4 DEF Sequential

LEMMA BufferedIs ==
    ASSUME NEW ids, Sequential(ids)
    PROVE  /\ Sequential(Buffered(ids)) /\ Len(Buffered(ids)) = Len(ids) /\ Len(ids) \in Nat
           /\ \A i \in 1 .. Len(ids) : Buffered(ids)[i].id = ids[i] /\ Buffered(ids)[i].after = {}
<1> DEFINE B == {[id |-> ids[i], after |-> {}, raw |-> FALSE] : i \in DOMAIN ids}
<1>1. DOMAIN ids = 1 .. Len(ids) /\ Len(ids) \in Nat
  BY DEF Sequential
<1>2. Buffered(ids) = [i \in 1 .. Len(ids) |-> [id |-> ids[i], after |-> {}, raw |-> FALSE]]
  BY <1>1 DEF Buffered
<1>3. Buffered(ids) \in [1 .. Len(ids) -> B]
  BY <1>1, <1>2
<1>4. Buffered(ids) \in Seq(B) /\ Len(Buffered(ids)) = Len(ids)
  BY <1>1, <1>3, IsASeq, LenProperties
<1>5. Sequential(Buffered(ids))
  BY <1>4 DEF Sequential
<1>6. ASSUME NEW i \in 1 .. Len(ids), NEW e, e = [id |-> ids[i], after |-> {}, raw |-> FALSE]
      PROVE  e.id = ids[i] /\ e.after = {}
  BY <1>6
<1>7. \A i \in 1 .. Len(ids) : Buffered(ids)[i].id = ids[i] /\ Buffered(ids)[i].after = {}
  BY <1>2, <1>6
<1> QED
  BY <1>1, <1>4, <1>5, <1>7

LEMMA FileFlush == ASSUME AsyncType, Flushes, Ordered PROVE FileGood(Flushed) /\ Flushed.buf = << >> /\ Flushed.journal = afile.journal
<1> DEFINE b == Buffered(afile.buf)
           f == Flushed
<1>1. /\ Sequential(b) /\ Len(b) = Len(afile.buf) /\ Len(b) \in Nat
      /\ \A i \in 1 .. Len(b) : b[i].id = afile.buf[i] /\ b[i].after = {}
  <2>1. Sequential(afile.buf)
    BY DEF AsyncType, RestType
  <2> QED
    BY <2>1, BufferedIs
<1>2. /\ DOMAIN f = {"buf", "sent", "journal"} /\ f.sent = afile.sent \o b /\ f.buf = << >> /\ f.journal = afile.journal
  BY DEF AsyncType, RestType, Flushed
<1> HIDE DEF b, f
<1>3. /\ Sequential(f.sent) /\ Len(afile.sent) \in Nat /\ Len(f.sent) = Len(afile.sent) + Len(b)
      /\ \A i \in 1 .. Len(afile.sent) : f.sent[i] = afile.sent[i]
      /\ \A i \in 1 .. Len(f.sent) : i \in 1 .. Len(afile.sent) \/ (i - Len(afile.sent) \in 1 .. Len(b) /\ f.sent[i] = b[i - Len(afile.sent)])
  <2> DEFINE s == afile.sent
  <2>1. Sequential(s)
    BY DEF AsyncType, RestType
  <2> HIDE DEF s
  <2>2. /\ Sequential(s \o b) /\ Len(s) \in Nat /\ Len(s \o b) = Len(s) + Len(b)
        /\ \A i \in 1 .. Len(s) : (s \o b)[i] = s[i]
    BY <1>1, <2>1, AnyConcat
  <2>3. \A i \in 1 .. Len(s \o b) : i \in 1 .. Len(s) \/ (i - Len(s) \in 1 .. Len(b) /\ (s \o b)[i] = b[i - Len(s)])
    BY <1>1, <2>1, AnyConcat
  <2> QED
    BY <1>2, <2>2, <2>3 DEF s
<1>4. InOrder(f.sent)
  <2> SUFFICES ASSUME NEW i \in 1 .. Len(f.sent), NEW k \in 1 .. Len(f.sent), i < k, ~f.sent[i].raw
               PROVE  f.sent[k].id \notin f.sent[i].after
    BY DEF InOrder
  <2>1. CASE i \notin 1 .. Len(afile.sent)
    BY <1>1, <1>3, <2>1
  <2>2. CASE i \in 1 .. Len(afile.sent) /\ k \in 1 .. Len(afile.sent)
    BY <1>3, <2>2 DEF Ordered, InOrder
  <2>3. CASE i \in 1 .. Len(afile.sent) /\ k \notin 1 .. Len(afile.sent)
    <3>1. PICK m \in 1 .. Len(b) : f.sent[k] = b[m]
      BY <1>3, <2>3
    <3>2. f.sent[k].id = afile.buf[m] /\ m \in 1 .. Len(afile.buf)
      BY <1>1, <3>1
    <3> QED
      BY <1>3, <2>3, <3>2 DEF Flushes, SentGood, FreeOf
  <2> QED
    BY <2>1, <2>2, <2>3
<1>5. \A after : FreeOf(f.buf, after)
  BY <1>2 DEF FreeOf
<1>6. SentGood(f)
  BY <1>1, <1>3, <1>5 DEF SentGood, Flushes
<1>7. Sequential(f.buf) /\ f.journal \in BOOLEAN
  <2>1. << >> \in Seq({})
    OBVIOUS
  <2> QED
    BY <1>2, <2>1 DEF Sequential, AsyncType, RestType
<1>8. FileGood(f)
  BY <1>2, <1>3, <1>4, <1>5, <1>6, <1>7 DEF FileGood
<1> QED
  BY <1>2, <1>8 DEF f

\* A write that has not returned goes into the buffer.
LEMMA FileBuffer ==
    ASSUME NEW f, FileGood(f), NEW id, id \notin aio.returned, NEW g, g = [f EXCEPT !.buf = Append(@, id)]
    PROVE  FileGood(g) /\ g.journal = f.journal
<1>1. DOMAIN g = {"buf", "sent", "journal"} /\ g.sent = f.sent /\ g.journal = f.journal /\ g.buf = Append(f.buf, id)
  BY DEF FileGood
<1>2. /\ Sequential(g.buf) /\ Len(f.buf) \in Nat /\ Len(g.buf) = Len(f.buf) + 1 /\ g.buf[Len(f.buf) + 1] = id
      /\ \A i \in 1 .. Len(f.buf) : g.buf[i] = f.buf[i]
  BY <1>1, AnyAppend DEF FileGood
<1>3. \A after \in SUBSET aio.returned : FreeOf(f.buf, after) => FreeOf(g.buf, after)
  BY <1>2 DEF FreeOf
<1>4. SentGood(g)
  BY <1>1, <1>3 DEF FileGood, SentGood
<1> QED
  BY <1>1, <1>2, <1>3, <1>4 DEF FileGood

\* One that goes past the buffer, or after what was in it.
LEMMA FileSend ==
    ASSUME NEW f, FileGood(f), NEW id, id \notin aio.returned, NEW after, after \subseteq aio.returned, NEW raw \in BOOLEAN,
           ~raw => FreeOf(f.buf, after), NEW g, g = [f EXCEPT !.sent = Append(@, [id |-> id, after |-> after, raw |-> raw])]
    PROVE  FileGood(g) /\ g.journal = f.journal
<1> DEFINE e == [id |-> id, after |-> after, raw |-> raw]
<1>0. e.id = id /\ e.after = after /\ e.raw = raw
  OBVIOUS
<1>1. DOMAIN g = {"buf", "sent", "journal"} /\ g.buf = f.buf /\ g.journal = f.journal /\ g.sent = Append(f.sent, e)
  BY DEF FileGood
<1> HIDE DEF e
<1>2. /\ Sequential(g.sent) /\ Len(f.sent) \in Nat /\ Len(g.sent) = Len(f.sent) + 1 /\ g.sent[Len(f.sent) + 1] = e
      /\ \A i \in 1 .. Len(f.sent) : g.sent[i] = f.sent[i]
  BY <1>1, AnyAppend DEF FileGood
<1>3. \A i \in 1 .. Len(g.sent) : i \in 1 .. Len(f.sent) \/ i = Len(f.sent) + 1
  BY <1>2
<1>4. SentGood(g)
  BY <1>0, <1>1, <1>2, <1>3 DEF FileGood, SentGood
<1>5. InOrder(g.sent)
  <2> SUFFICES ASSUME NEW i \in 1 .. Len(g.sent), NEW k \in 1 .. Len(g.sent), i < k, ~g.sent[i].raw
               PROVE  g.sent[k].id \notin g.sent[i].after
    BY DEF InOrder
  <2>1. i \in 1 .. Len(f.sent)
    BY <1>2, <1>3
  <2>2. CASE k \in 1 .. Len(f.sent)
    BY <1>2, <2>1, <2>2 DEF FileGood, InOrder
  <2>3. CASE k = Len(f.sent) + 1
    BY <1>0, <1>2, <2>1, <2>3 DEF FileGood, SentGood
  <2> QED
    BY <1>3, <2>2, <2>3
<1> QED
  BY <1>1, <1>2, <1>4, <1>5 DEF FileGood

LEMMA FileStep ==
    ASSUME AsyncInv, NEW j \in DOMAIN pool, Step(j)
    PROVE  LET step == Head(pool[j].steps)
           IN /\ FileGood(afile')
              /\ step = "flush" => afile'.buf = << >>
              /\ step # "commit" /\ step # "begin" => afile'.journal = afile.journal
              /\ step = "commit" => ~afile'.journal
<1> USE DEF AsyncInv
<1> DEFINE job == pool[j]
           step == Head(job.steps)
<1>1. /\ j \in 1 .. Len(pool) /\ WorkGood(j) /\ AsyncType /\ job.steps # << >> /\ (job.scope => step = "buffer")
  BY AnyDomain DEF Step, BridgeInv, AsyncType
<1>2. step = "buffer" => One(job.steps, "buffer")
  BY <1>1, StepsGo DEF WorkGood
<1>3. job.id \notin aio.returned /\ job.after \subseteq aio.returned
  BY <1>1, <1>2 DEF WorkGood, Unreturned, Live
<1>4. FileGood(afile) /\ DOMAIN afile = {"buf", "sent", "journal"}
  BY <1>1, FileAsIs DEF AsyncType, RestType
<1>5. FileGood(Flushed) /\ Flushed.buf = << >> /\ Flushed.journal = afile.journal
  BY <1>1, FileFlush
<1>6. CASE step = "buffer"
  <2>1. PICK f \in {afile, Flushed} : afile' = [f EXCEPT !.buf = Append(@, job.id)]
    BY <1>6 DEF Step
  <2>2. FileGood(f) /\ f.journal = afile.journal
    BY <1>4, <1>5, <2>1
  <2>3. FileGood(afile') /\ afile'.journal = f.journal
    BY <1>3, <2>1, <2>2, FileBuffer
  <2> QED
    BY <1>6, <2>2, <2>3
<1>7. CASE step = "flush"
  <2>1. afile' = Flushed
    BY <1>7 DEF Step
  <2> QED
    BY <1>5, <1>7, <2>1
<1>8. CASE step \in {"put", "direct"}
  <2>1. afile' = [afile EXCEPT !.sent = Append(@, [id |-> job.id, after |-> job.after, raw |-> step = "direct"])]
    BY <1>8 DEF Step
  <2> DEFINE raw == step = "direct"
  <2>2. step # "direct" => FreeOf(afile.buf, job.after)
    <3>1. step # "direct" => One(job.steps, "put")
      BY <1>1, <1>8, StepsGo DEF WorkGood
    <3> QED
      BY <1>1, <3>1 DEF Flushes
  <2>3. raw \in BOOLEAN /\ (~raw => FreeOf(afile.buf, job.after))
    BY <2>2
  <2>4. afile' = [afile EXCEPT !.sent = Append(@, [id |-> job.id, after |-> job.after, raw |-> raw])]
    BY <2>1
  <2> HIDE DEF raw
  <2>5. FileGood(afile') /\ afile'.journal = afile.journal
    BY <1>3, <1>4, <2>3, <2>4, FileSend
  <2> QED
    BY <1>8, <2>5
<1>9. CASE step \in {"begin", "commit"}
  <2>1. afile' = [afile EXCEPT !.journal = (step = "begin")]
    <3>1. CASE step = "begin"
      BY <3>1 DEF Step
    <3>2. CASE step = "commit"
      BY <3>2 DEF Step
    <3> QED
      BY <1>9, <3>1, <3>2
  <2>2. /\ DOMAIN afile' = {"buf", "sent", "journal"} /\ afile'.buf = afile.buf /\ afile'.sent = afile.sent
        /\ afile'.journal = (step = "begin")
    BY <1>4, <2>1
  <2>3. FileGood(afile')
    BY <1>4, <2>2 DEF FileGood, SentGood
  <2> QED
    BY <1>9, <2>2, <2>3
<1>10. CASE step \notin {"buffer", "flush", "put", "direct", "begin", "commit"}
  <2>1. afile' = afile
    BY <1>10 DEF Step
  <2> QED
    BY <1>4, <1>10, <2>1
<1> QED
  BY <1>6, <1>7, <1>8, <1>9, <1>10

-----------------------------------------------------------------------------
(* A worker is done with a job.                                            *)

\* What is left of it, and whether its handle is queued for release.
Over(j, h, failed) ==
    /\ Spares(j) /\ pool'[j].steps = << >> /\ (pool'[j].failed => failed)
    /\ \A u \in Tasks : Waits(u, j) => pool'[j].state = "done" /\ pool'[j].failed = failed /\ pool'[j].handle = h
    /\ \A k \in 1 .. Len(pool') : k > Len(pool) =>
          /\ k = Len(pool) + 1 /\ One(pool'[k].steps, "close") /\ pool'[k].steps # << >> /\ pool'[k].state = "queued"
          /\ pool'[k].id = 0 /\ pool'[k].handle = h
    /\ pool[j].late /\ ~failed => Len(pool') = Len(pool) + 1

LEMMA Finish ==
    ASSUME BridgeInv, RestType', Grew, coro' = coro, aio'.returned = aio.returned,
           NEW j \in 1 .. Len(pool), pool[j].state = "running", NEW h, NEW failed \in BOOLEAN, pool' = Finished(j, h, failed),
           ~failed /\ One(pool[j].steps, "open") => h = j,
           ~failed => \E x : One(pool[j].steps, x),
           ~failed /\ One(pool[j].steps, "close") => h \in aio'.freed
    PROVE  BridgeInv' /\ Over(j, h, failed)
<1> DEFINE job == pool[j]
           d == [job EXCEPT !.state = "done", !.handle = h, !.failed = failed, !.steps = << >>]
           x == Job(<<"close">>, 0, TRUE, h, {})
<1>1. WorkGood(j) /\ Sequential(pool) /\ job.steps # << >> /\ Len(pool) \in Nat /\ DOMAIN pool = 1 .. Len(pool) /\ j # 0
  BY AnyAppend, AnyDomain DEF BridgeInv, AsyncType, WorkGood
<1>2. /\ DOMAIN d = JobFields /\ d.steps = << >> /\ d.state = "done" /\ d.id = job.id /\ d.owned = job.owned
      /\ d.scope = job.scope /\ d.late = job.late /\ d.failed = failed /\ d.handle = h /\ d.after = job.after
  BY <1>1 DEF WorkGood, JobFields
<1>3. /\ DOMAIN x = JobFields /\ x.steps = <<"close">> /\ x.state = "queued" /\ x.id = 0 /\ x.owned \in BOOLEAN
      /\ x.scope = FALSE /\ x.late = FALSE /\ x.failed = FALSE /\ x.handle = h /\ x.after = {}
  BY CloseJobIs
<1>4. \A t \in Tasks : coro[t].job = j <=> Waits(t, j)
  BY <1>1 DEF Waits, BridgeInv, CoroGood
<1>5. StepsGood(<< >>) /\ StepsGood(<<"close">>) /\ One(<<"close">>, "close") /\ <<"close">> # << >>
  BY StepFacts DEF StepsGood
<1>6. CASE \E t \in Tasks : Waits(t, j)
  <2>1. PICK t \in Tasks : Waits(t, j)
    BY <1>6
  <2>2. ~job.late
    BY <2>1 DEF Waits, BridgeInv, CoroGood
  <2>3. pool' = [pool EXCEPT ![j] = d]
    BY <1>1, <1>4, <2>1, <2>2 DEF Finished
  <2> HIDE DEF d, x
  <2>4. /\ Spares(j) /\ Sequential(pool') /\ Len(pool) \in Nat /\ Len(pool') = Len(pool) /\ pool'[j] = d
        /\ \A k \in 1 .. Len(pool') : k = j \/ k > Len(pool) => k = j
    BY <1>1, <2>3, PoolPut
  <2>5. AsyncType'
    BY <2>4 DEF AsyncType
  <2>6. WorkGood(j)'
    <3>1. job.id \in 0 .. aio'.calls /\ job.after \subseteq aio'.returned
      BY <1>1 DEF WorkGood, Grew
    <3> QED
      BY <1>1, <1>2, <1>5, <2>2, <2>4, <3>1, StepFacts DEF WorkGood
  <2>7. ASSUME NEW u \in Tasks, Waits(u, j) PROVE CoroGood(u)'
    <3>1. CoroGood(u) /\ coro[u].job = j /\ coro[u].pc = "await" /\ Fits(coro[u].shape, coro[u].hop, job.steps)
      BY <1>1, <2>7 DEF BridgeInv, Waits, CoroGood
    <3>2. coro[u].shape = "open" /\ ~failed => h = j
      BY <3>1 DEF Fits
    <3>3. coro[u].shape = "close" /\ ~failed => h \in aio'.freed
      BY <3>1, StepFacts DEF Fits
    <3>4. coro[u].id \in 1 .. aio'.calls /\ coro[u].after \subseteq aio'.returned /\ coro[u].id \notin aio'.returned
          /\ j \in 1 .. Len(pool')
      BY <2>4, <3>1 DEF CoroGood, Grew
    <3> QED
      BY <1>2, <2>4, <3>1, <3>2, <3>3, <3>4 DEF CoroGood
  <2>8. BridgeInv'
    <3>1. \A k \in 1 .. Len(pool') : k = j \/ k > Len(pool) => WorkGood(k)'
      BY <2>4, <2>6
    <3> QED
      BY <2>4, <2>5, <2>7, <3>1, WorkStep
  <2> QED
    BY <1>2, <2>2, <2>4, <2>8 DEF Over
<1>7. CASE ~\E t \in Tasks : Waits(t, j)
  <2> HIDE DEF d, x
  <2>1. pool'[j] = Spent => WorkGood(j)'
    <3>1. 0 \in 0 .. aio'.calls
      BY DEF Grew
    <3> QED
      BY <1>5, <3>1, SpentIs, StepFacts DEF WorkGood
  <2>2. CASE ~(job.late /\ ~failed)
    <3>1. pool' = [pool EXCEPT ![j] = Spent]
      BY <1>1, <1>4, <1>7, <2>2 DEF Finished
    <3>2. /\ Spares(j) /\ Sequential(pool') /\ Len(pool) \in Nat /\ Len(pool') = Len(pool) /\ pool'[j] = Spent
          /\ \A k \in 1 .. Len(pool') : k = j \/ k > Len(pool) => k = j
      BY <1>1, <3>1, PoolPut
    <3>3. AsyncType'
      BY <3>2 DEF AsyncType
    <3>4. BridgeInv'
      <4>1. \A k \in 1 .. Len(pool') : k = j \/ k > Len(pool) => WorkGood(k)'
        BY <2>1, <3>2
      <4> QED
        BY <1>7, <3>2, <3>3, <4>1, WorkStep
    <3> QED
      BY <1>7, <2>2, <3>2, <3>4, SpentIs DEF Over
  <2>3. CASE job.late /\ ~failed
    <3>0. PICK n : n = Len(pool)
      OBVIOUS
    <3>1. pool' = Append([pool EXCEPT ![j] = Spent], x)
      BY <1>1, <1>4, <1>7, <2>3 DEF Finished, x
    <3>2. /\ Spares(j) /\ Sequential(pool') /\ n \in Nat /\ Len(pool') = n + 1 /\ pool'[j] = Spent /\ pool'[n + 1] = x
          /\ \A k \in 1 .. Len(pool') : k = j \/ k > Len(pool) => k = j \/ k = n + 1
          /\ j # n + 1
      <4>1. Added(j, Spent, x, n)
        BY <1>1, <3>0, <3>1, PoolAdd
      <4> QED
        BY <4>1 DEF Added
    <3>3. AsyncType'
      BY <3>2 DEF AsyncType
    <3>4. WorkGood(n + 1)'
      <4>1. x.id \in 0 .. aio'.calls /\ x.after \subseteq aio'.returned
        BY <1>3 DEF Grew
      <4>2. ~One(x.steps, "open") /\ ~One(x.steps, "begin")
        BY <1>3, <1>5, StepFacts
      <4> QED
        BY <1>3, <1>5, <3>2, <4>1, <4>2 DEF WorkGood
    <3>5. BridgeInv'
      <4>1. \A k \in 1 .. Len(pool') : k = j \/ k > Len(pool) => WorkGood(k)'
        BY <2>1, <3>2, <3>4
      <4> QED
        BY <1>7, <3>2, <3>3, <4>1, WorkStep
    <3>6. \A k \in 1 .. Len(pool') : k > Len(pool) => k = Len(pool) + 1
      BY <3>0, <3>2
    <3> QED
      BY <1>3, <1>5, <1>7, <2>3, <3>0, <3>2, <3>5, <3>6, SpentIs DEF Over
  <2> QED
    BY <2>2, <2>3
<1> QED
  BY <1>6, <1>7

\* What a finished job leaves of the rest, the handle it opened aside.
LEMMA OverKeeps ==
    ASSUME AsyncInv, BridgeInv', Grew, coro' = coro, aio'.returned = aio.returned, NEW j \in 1 .. Len(pool),
           pool[j].steps # << >>, NEW h, NEW failed \in BOOLEAN, Over(j, h, failed),
           \A i \in aio'.handles : i \in aio.handles \/ (i = j /\ h = j /\ ~failed /\ One(pool[j].steps, "open")),
           \A i : Frees(j, i) => i \in aio'.freed \cup aio'.forgone,
           FileGood(afile'), failed \/ (One(pool[j].steps, "flush") => afile'.buf = << >>)
    PROVE  Opened' /\ NoHandleLost' /\ Unreturned' /\ Flushes' /\ Ordered'
<1> USE DEF AsyncInv
<1>1. /\ Spares(j) /\ pool'[j].steps = << >> /\ AsyncType /\ AsyncType' /\ WorkGood(j) /\ Pools /\ Len(pool) <= Len(pool')
      /\ Len(pool) \in Nat /\ Len(pool') \in Nat
  BY DEF BridgeInv, Over, Spares, Pools
<1>2. \A k \in 1 .. Len(pool') : k = j \/ k > Len(pool) \/ (k \in 1 .. Len(pool) /\ k # j /\ pool'[k] = pool[k])
  BY <1>1 DEF Spares
<1>3. ASSUME NEW u \in Tasks, Waits(u, j) PROVE CoroGood(u) /\ Fits(coro[u].shape, coro[u].hop, pool[j].steps)
  BY <1>3 DEF BridgeInv, Waits, CoroGood
<1>4. Opened'
  <2> SUFFICES ASSUME NEW i \in aio'.handles
               PROVE  /\ i \in 1 .. Len(pool') /\ pool'[i].steps = << >>
                      /\ \A t \in Tasks : Waits(t, i) => coro[t].shape = "open" /\ ~pool'[i].failed
    BY DEF Opened, Waits
  <2>1. CASE i \in aio.handles
    <3>1. i \in 1 .. Len(pool) /\ i # j
      BY <2>1 DEF Opened
    <3>2. pool'[i] = pool[i] /\ i \in 1 .. Len(pool')
      BY <1>1, <3>1 DEF Spares
    <3> QED
      BY <2>1, <3>2 DEF Opened
  <2>2. CASE i = j /\ ~failed /\ One(pool[j].steps, "open")
    <3>1. j \in 1 .. Len(pool')
      BY <1>1
    <3>2. ASSUME NEW t \in Tasks, Waits(t, j) PROVE coro[t].shape = "open"
      BY <1>3, <2>2, <3>2, StepFacts DEF Fits
    <3> QED
      BY <1>1, <2>2, <3>1, <3>2 DEF Over
  <2> QED
    BY <2>1, <2>2
<1>5. NoHandleLost'
  <2>1. ASSUME NEW i \in aio'.handles \ (aio'.freed \cup aio'.forgone) PROVE Owned(i)'
    <3>1. CASE i \in aio.handles
      <4>1. i \in 1 .. Len(pool) /\ i # j
        BY <3>1 DEF Opened
      <4>2. Owned(i)
        <5>1. i \in aio.handles \ (aio.freed \cup aio.forgone)
          BY <2>1, <3>1 DEF Grew
        <5> QED
          BY <1>1, <5>1, Releaser
      <4>3. ~Frees(j, i)
        BY <2>1
      <4> QED
        BY <1>1, <4>1, <4>2, <4>3, OwnedStep DEF Waits
    <3>2. CASE i = j /\ h = j /\ ~failed /\ One(pool[j].steps, "open")
      <4>1. CASE \E t \in Tasks : Waits(t, j)
        BY <3>2, <4>1 DEF Owned, Undelivered, Waits
      <4>2. CASE ~\E t \in Tasks : Waits(t, j)
        <5>0. PICK n : n = Len(pool) + 1
          OBVIOUS
        <5>1. pool[j].late
          BY <1>1, <3>2, <4>2 DEF WorkGood
        <5>2. n \in 1 .. Len(pool') /\ n > Len(pool)
          BY <1>1, <3>2, <5>0, <5>1 DEF Over
        <5>3. pool'[n].handle = j /\ pool'[n].state = "queued" /\ pool'[n].steps # << >> /\ One(pool'[n].steps, "close")
          BY <3>2, <5>2 DEF Over
        <5>4. Last(pool'[n].steps) = "close" /\ n \in DOMAIN pool'
          BY <1>1, <5>2, <5>3, StepFacts, AnyDomain DEF AsyncType
        <5> QED
          BY <3>2, <5>3, <5>4 DEF Owned, Releasing
      <4> QED
        BY <4>1, <4>2
    <3> QED
      BY <2>1, <3>1, <3>2
  <2> QED
    BY <2>1 DEF NoHandleLost, Owned
<1>6. Unreturned'
  <2>1. \A k \in 1 .. Len(pool') : (k = j \/ k > Len(pool)) /\ Live(pool'[k]) => pool'[k].id = 0
    BY <1>1 DEF Over, Live
  <2>2. 0 \notin aio'.returned /\ \A u \in Tasks : coro'[u].pc = "await" => coro'[u].id # 0
    BY <1>1 DEF BridgeInv, AsyncType, RestType, CoroGood
  <2> QED
    BY <1>1, <2>1, <2>2, UnreturnedStep
<1>7. \A u \in Tasks : coro[u].pc = "await" => coro[u].after \subseteq aio.returned /\ coro[u].job \in 1 .. Len(pool)
  BY DEF BridgeInv, CoroGood
<1>8. Flushes'
  <2>1. ASSUME NEW k \in 1 .. Len(pool'), One(pool'[k].steps, "put") PROVE FreeOf(afile'.buf, pool'[k].after)
    <3>1. CASE k = j \/ k > Len(pool)
      BY <1>1, <2>1, <3>1, StepFacts DEF Over
    <3>2. CASE k \in 1 .. Len(pool) /\ k # j /\ pool'[k] = pool[k]
      <4>1. FreeOf(afile.buf, pool[k].after) /\ pool[k].after \subseteq aio.returned
        BY <2>1, <3>2 DEF Flushes, BridgeInv, WorkGood
      <4> QED
        BY <3>2, <4>1 DEF FileGood
    <3> QED
      BY <1>2, <3>1, <3>2
  <2>2. ASSUME NEW u \in Tasks, PutDue(u)' PROVE FreeOf(afile'.buf, coro'[u].after)
    <3>1. coro[u].pc = "await" /\ coro[u].shape = "pieces" /\ coro'[u] = coro[u] /\ ~pool'[coro[u].job].failed
      BY <2>2 DEF PutDue
    <3>2. CASE coro[u].job # j
      <4>1. pool'[coro[u].job] = pool[coro[u].job]
        BY <1>1, <1>7, <3>1, <3>2 DEF Spares
      <4>2. PutDue(u)
        BY <2>2, <3>1, <4>1 DEF PutDue
      <4> QED
        BY <1>7, <3>1, <4>2 DEF Flushes, FileGood
    <3>3. CASE coro[u].job = j
      <4>1. Waits(u, j) /\ ~failed /\ Fits("pieces", coro[u].hop, pool[j].steps)
        BY <1>3, <3>1, <3>3 DEF Over, Waits
      <4>2. CASE coro[u].hop = 2
        <5>1. ~pool[j].failed
          BY <1>1 DEF WorkGood
        <5>2. PutDue(u)
          BY <3>1, <3>3, <4>2, <5>1 DEF PutDue
        <5> QED
          BY <1>7, <3>1, <5>2 DEF Flushes, FileGood
      <4>3. CASE coro[u].hop # 2
        <5>1. afile'.buf = << >>
          BY <4>1, <4>3 DEF Fits
        <5> QED
          BY <5>1 DEF FreeOf
      <4> QED
        BY <4>2, <4>3
    <3> QED
      BY <3>2, <3>3
  <2> QED
    BY <2>1, <2>2 DEF Flushes, FileGood, SentGood
<1> QED
  BY <1>4, <1>5, <1>6, <1>8 DEF Ordered, FileGood

-----------------------------------------------------------------------------
(* A worker's step.                                                        *)

LEMMA WorkerStep == ASSUME AsyncInv, NEW j \in DOMAIN pool, Step(j) PROVE AsyncInv'
<1> USE DEF AsyncInv
<1> DEFINE job == pool[j]
           step == Head(job.steps)
<1>1. /\ j \in 1 .. Len(pool) /\ WorkGood(j) /\ AsyncType /\ job.state = "running" /\ job.steps # << >>
      /\ (job.scope => step = "buffer") /\ coro' = coro /\ Sequential(pool) /\ RestType
  BY AnyDomain DEF Step, BridgeInv, AsyncType
<1>2. /\ FileGood(afile') /\ (step = "flush" => afile'.buf = << >>) /\ (step = "commit" => ~afile'.journal)
      /\ step # "commit" /\ step # "begin" => afile'.journal = afile.journal
  BY FileStep
<1>3. /\ DOMAIN aio' = {"calls", "returned", "handles", "freed", "forgone"} /\ aio'.calls = aio.calls
      /\ aio'.returned = aio.returned /\ aio'.forgone = aio.forgone
      /\ aio'.handles = (IF step = "open" THEN aio.handles \cup {j} ELSE aio.handles)
      /\ aio'.freed = (IF step = "close" THEN aio.freed \cup {job.handle} ELSE aio.freed)
  BY <1>1 DEF Step, RestType
<1>4. Grew /\ RestType'
  BY <1>1, <1>2, <1>3 DEF Grew, RestType, FileGood
<1>5. \A u \in Tasks : coro[u].pc = "await" => coro[u].job \in 1 .. Len(pool)
  BY DEF BridgeInv, CoroGood
<1>6. CASE Len(job.steps) = 1
  <2> DEFINE h == IF step = "open" THEN j ELSE job.handle
  <2>1. pool' = Finished(j, h, FALSE)
    BY <1>6 DEF Step
  <2>2. One(job.steps, step)
    BY <1>1, <1>6, StepsGo DEF WorkGood
  <2>3. /\ One(job.steps, "open") <=> step = "open"
        /\ One(job.steps, "close") <=> step = "close"
        /\ One(job.steps, "flush") <=> step = "flush"
        /\ One(job.steps, "begin") <=> step = "begin"
        /\ One(job.steps, "commit") <=> step = "commit"
        /\ Last(job.steps) = step
    BY <2>2, StepFacts
  <2>4. /\ ~FALSE /\ One(pool[j].steps, "open") => h = j
        /\ ~FALSE => \E x : One(pool[j].steps, x)
        /\ ~FALSE /\ One(pool[j].steps, "close") => h \in aio'.freed
    BY <1>3, <2>2, <2>3
  <2> HIDE DEF h
  <2>5. BridgeInv' /\ Over(j, h, FALSE)
    BY <1>1, <1>3, <1>4, <2>1, <2>4, Finish
  <2>6. /\ \A i \in aio'.handles : i \in aio.handles \/ (i = j /\ h = j /\ ~FALSE /\ One(pool[j].steps, "open"))
        /\ \A i : Frees(j, i) => i \in aio'.freed \cup aio'.forgone
    BY <1>3, <2>3 DEF Frees, h
  <2>7. Opened' /\ NoHandleLost' /\ Unreturned' /\ Flushes' /\ Ordered'
    <3>1. FALSE \/ (One(pool[j].steps, "flush") => afile'.buf = << >>)
      BY <1>2, <2>3
    <3> QED
      BY <1>1, <1>2, <1>3, <1>4, <2>5, <2>6, <3>1, OverKeeps
  <2>8. Journalled'
    <3>1. CASE step = "begin"
      <4>1. CASE \E t \in Tasks : Waits(t, j)
        <5>1. PICK t \in Tasks : Waits(t, j)
          BY <4>1
        <5>2. Fits(coro[t].shape, coro[t].hop, job.steps)
          BY <1>1, <5>1 DEF BridgeInv, Waits, CoroGood
        <5>3. coro[t].shape = "block" /\ coro[t].hop = 1
          BY <2>3, <3>1, <5>2, StepFacts DEF Fits
        <5>4. InBlock(t)'
          BY <1>1, <2>5, <5>1, <5>3 DEF Over, Waits, InBlock
        <5> QED
          BY <5>4 DEF Journalled
      <4>2. CASE ~\E t \in Tasks : Waits(t, j)
        BY <1>1, <1>3, <2>3, <3>1, <4>2 DEF WorkGood, Journalled
      <4> QED
        BY <4>1, <4>2
    <3>2. CASE step = "commit"
      BY <1>2, <3>2 DEF Journalled
    <3>3. CASE step # "begin" /\ step # "commit"
      <4>1. ASSUME NEW t \in Tasks, InBlock(t) PROVE InBlock(t)'
        <5>1. coro[t].pc = "await" /\ coro'[t] = coro[t] /\ coro[t].shape = "block" /\ CoroGood(t)
          BY <1>1, <4>1 DEF InBlock, BridgeInv
        <5>2. CASE coro[t].job = j
          <6>1. Fits("block", coro[t].hop, job.steps)
            BY <1>1, <5>1, <5>2 DEF CoroGood
          <6>2. coro[t].hop = 2
            BY <2>3, <3>3, <6>1 DEF Fits
          <6> QED
            BY <5>1, <6>2 DEF InBlock
        <5>3. CASE coro[t].job # j
          <6>1. pool'[coro[t].job] = pool[coro[t].job]
            BY <1>5, <2>5, <5>1, <5>3 DEF Over, Spares
          <6> QED
            BY <4>1, <5>1, <6>1 DEF InBlock
        <5> QED
          BY <5>2, <5>3
      <4> QED
        BY <1>2, <1>3, <3>3, <4>1 DEF Journalled
    <3> QED
      BY <3>1, <3>2, <3>3
  <2> QED
    BY <2>5, <2>7, <2>8
<1>7. CASE Len(job.steps) # 1
  <2> DEFINE y == [job EXCEPT !.steps = Tail(job.steps)]
  <2>1. /\ step = "flush" /\ StepsGood(Tail(job.steps)) /\ Tail(job.steps) # << >> /\ Last(Tail(job.steps)) = Last(job.steps)
        /\ (One(Tail(job.steps), "put") \/ One(Tail(job.steps), "close"))
        /\ \A shape, h : Fits(shape, h, job.steps) => Fits(shape, h, Tail(job.steps))
        /\ ~One(job.steps, "open") /\ ~One(Tail(job.steps), "open") /\ ~One(Tail(job.steps), "begin")
    BY <1>1, <1>7, StepsGo, StepFacts DEF WorkGood
  <2>2. /\ DOMAIN y = JobFields /\ y.steps = Tail(job.steps) /\ y.state = job.state /\ y.id = job.id /\ y.owned = job.owned
        /\ y.scope = job.scope /\ y.late = job.late /\ y.failed = job.failed /\ y.handle = job.handle /\ y.after = job.after
    BY <1>1 DEF WorkGood, JobFields
  <2>3. pool' = [pool EXCEPT ![j] = y]
    BY <1>1, <1>7 DEF Step
  <2> HIDE DEF y
  <2>4. Spares(j) /\ Sequential(pool') /\ Len(pool') = Len(pool) /\ pool'[j] = y /\ Len(pool) \in Nat
    BY <1>1, <2>3, PoolPut
  <2>5. AsyncType' /\ aio'.handles = aio.handles /\ aio'.freed = aio.freed /\ aio'.forgone = aio.forgone
        /\ afile'.journal = afile.journal /\ ~job.scope
    BY <1>1, <1>2, <1>3, <1>4, <2>1, <2>4 DEF AsyncType
  <2>6. WorkGood(j)'
    BY <1>1, <1>3, <2>1, <2>2, <2>4 DEF WorkGood
  <2>7. ASSUME NEW u \in Tasks, Waits(u, j) PROVE CoroGood(u)'
    <3>1. CoroGood(u) /\ coro[u].job = j /\ coro[u].pc = "await"
      BY <2>7 DEF BridgeInv, Waits
    <3>2. Fits(coro[u].shape, coro[u].hop, y.steps)
      BY <1>1, <2>1, <2>2, <3>1 DEF CoroGood
    <3> QED
      BY <1>1, <1>3, <2>2, <2>4, <3>1, <3>2 DEF CoroGood
  <2>8. BridgeInv'
    <3>1. \A k \in 1 .. Len(pool') : k = j \/ k > Len(pool) => WorkGood(k)'
      BY <2>4, <2>6
    <3> QED
      BY <1>1, <1>3, <1>4, <2>4, <2>5, <2>7, <3>1, WorkStep
  <2>9. \A k \in 1 .. Len(pool) : k = j \/ pool'[k] = pool[k]
    BY <2>4 DEF Spares
  <2>10. Opened'
    <3>1. \A h \in aio.handles : h \in 1 .. Len(pool) /\ h # j
      BY <1>1 DEF Opened
    <3> QED
      BY <1>1, <2>4, <2>5, <2>9, <3>1 DEF Opened, Waits
  <2>11. NoHandleLost'
    <3>1. ASSUME NEW h \in aio.handles \ (aio.freed \cup aio.forgone) PROVE Owned(h)'
      <4>1. Owned(h) /\ h \in 1 .. Len(pool) /\ h # j
        BY <1>1, Releaser DEF Opened
      <4>2. Frees(j, h) => Owned(h)'
        <5>1. Frees(j, h) => Frees(j, h)'
          BY <1>1, <2>1, <2>2, <2>4 DEF Frees
        <5>2. DOMAIN pool' = 1 .. Len(pool')
          BY <2>4, AnyDomain
        <5> QED
          BY <1>1, <2>4, <5>1, <5>2 DEF Owned, Releasing, Frees
      <4> QED
        BY <1>1, <2>4, <2>5, <4>1, <4>2, OwnedStep DEF Waits
    <3> QED
      BY <2>5, <3>1 DEF NoHandleLost, Owned
  <2>12. Unreturned'
    <3>1. Live(job)
      BY <1>1, <2>5 DEF Live
    <3> QED
      BY <1>1, <1>3, <2>2, <2>4, <2>9, <3>1 DEF Unreturned
  <2>13. Flushes'
    <3>1. \A after : FreeOf(afile'.buf, after)
      BY <1>2, <2>1 DEF FreeOf
    <3> QED
      BY <1>2, <1>3, <3>1 DEF Flushes, FileGood, SentGood
  <2>14. Journalled'
    <3>1. ASSUME NEW t \in Tasks, InBlock(t) PROVE InBlock(t)'
      <4>1. coro[t].pc = "await" /\ coro[t].job \in 1 .. Len(pool) /\ coro'[t] = coro[t]
        BY <1>1, <1>5, <3>1 DEF InBlock
      <4>2. \A k \in 1 .. Len(pool) : /\ pool'[k].state = pool[k].state /\ pool'[k].failed = pool[k].failed
                                      /\ (pool[k].steps # << >> => pool'[k].steps # << >>)
        BY <2>1, <2>2, <2>4, <2>9
      <4> QED
        BY <3>1, <4>1, <4>2 DEF InBlock
    <3> QED
      BY <2>5, <3>1 DEF Journalled
  <2> QED
    BY <1>2, <2>8, <2>10, <2>11, <2>12, <2>13, <2>14 DEF Ordered, FileGood
<1> QED
  BY <1>6, <1>7

LEMMA FailStep == ASSUME AsyncInv, NEW j \in DOMAIN pool, StepFails(j) PROVE AsyncInv'
<1> USE DEF AsyncInv
<1> DEFINE job == pool[j]
           h == job.handle
           given == IF Last(job.steps) = "close" THEN {job.handle} ELSE IF Last(job.steps) = "commit" THEN {-1} ELSE {}
<1>1. /\ j \in 1 .. Len(pool) /\ WorkGood(j) /\ AsyncType /\ job.state = "running" /\ job.steps # << >>
      /\ coro' = coro /\ afile' = afile /\ Sequential(pool) /\ RestType
  BY AnyDomain DEF StepFails, BridgeInv, AsyncType, WorkGood
<1>2. /\ DOMAIN aio' = {"calls", "returned", "handles", "freed", "forgone"} /\ aio'.calls = aio.calls
      /\ aio'.returned = aio.returned /\ aio'.handles = aio.handles /\ aio'.freed = aio.freed
      /\ aio'.forgone = aio.forgone \cup given
  BY <1>1 DEF StepFails, RestType
<1>3. Last(job.steps) = "close" => h \in aio'.forgone
  BY <1>2
<1>4. Last(job.steps) = "commit" => -1 \in aio'.forgone
  BY <1>2
<1>5. Grew /\ RestType' /\ pool' = Finished(j, h, TRUE)
  BY <1>1, <1>2 DEF Grew, RestType, StepFails
<1> HIDE DEF h, given
<1>6. BridgeInv' /\ Over(j, h, TRUE)
  BY <1>1, <1>2, <1>5, Finish
<1>7. \A i : Frees(j, i) => i \in aio'.freed \cup aio'.forgone
  BY <1>3 DEF Frees, h
<1>8. FileGood(afile')
  BY <1>1, FileAsIs
<1>9. Opened' /\ NoHandleLost' /\ Unreturned' /\ Flushes' /\ Ordered'
  BY <1>1, <1>2, <1>5, <1>6, <1>7, <1>8, OverKeeps
<1>10. Journalled'
  <2>1. ASSUME NEW t \in Tasks, InBlock(t), -1 \notin aio'.forgone PROVE InBlock(t)'
    <3>1. coro[t].pc = "await" /\ coro'[t] = coro[t] /\ coro[t].shape = "block" /\ CoroGood(t)
      BY <1>1, <2>1 DEF InBlock, BridgeInv
    <3>2. CASE coro[t].job = j
      <4>1. Fits("block", coro[t].hop, job.steps)
        BY <1>1, <3>1, <3>2 DEF CoroGood
      <4>2. ~One(job.steps, "commit")
        BY <1>4, <2>1, StepFacts
      <4>3. coro[t].hop = 2
        BY <1>1, <2>1, <3>2, <4>1, <4>2 DEF Fits, InBlock
      <4> QED
        BY <3>1, <4>3 DEF InBlock
    <3>3. CASE coro[t].job # j
      <4>1. pool'[coro[t].job] = pool[coro[t].job]
        BY <1>6, <3>1, <3>3 DEF Over, Spares, CoroGood
      <4> QED
        BY <2>1, <3>1, <4>1 DEF InBlock
    <3> QED
      BY <3>2, <3>3
  <2> QED
    BY <1>1, <1>2, <2>1 DEF Journalled
<1> QED
  BY <1>6, <1>9, <1>10

-----------------------------------------------------------------------------
(* A coroutine goes on.                                                    *)

\* With the next hop of its call, x; y is what its last job is now.
LEMMA GoesOn ==
    ASSUME AsyncInv, afile' = afile, aio' = aio, NEW t \in Tasks, NEW j, Waits(t, j), NEW y, NEW x, NEW n, n = Len(pool),
           Added(j, y, x, n), DOMAIN coro' = Tasks, \A u \in Tasks : u # t => coro'[u] = coro[u],
           NEW c, coro'[t] = c, DOMAIN c = CoroFields, c.pc = "await", c.shape = coro[t].shape, c.hop = coro[t].hop + 1,
           c.job = n + 1, c.id = coro[t].id, c.holds = coro[t].holds, c.after = coro[t].after,
           GoodHop(c.shape, c.hop), c.shape # "open", c.shape # "close", c.shape = "pieces" => FreeOf(afile.buf, c.after),
           WorkGood(j)', ~Live(y), ~One(y.steps, "put"), pool[j].steps = << >> => y.steps = << >>,
           DOMAIN x = JobFields, StepsGood(x.steps), x.steps # << >>, Fits(c.shape, c.hop, x.steps), x.state = "queued",
           x.id = c.id, x.owned = FALSE, x.scope = FALSE, x.late = FALSE, x.failed = FALSE, x.after \subseteq c.after,
           One(x.steps, "put") => FreeOf(afile.buf, x.after)
    PROVE  AsyncInv'
<1> USE DEF AsyncInv
<1>1. /\ Spares(j) /\ Sequential(pool') /\ n \in Nat /\ Len(pool') = n + 1 /\ pool'[j] = y /\ pool'[n + 1] = x
      /\ j # n + 1 /\ n + 1 \notin 1 .. n /\ n + 1 \in 1 .. Len(pool')
      /\ \A k \in 1 .. Len(pool') : k = j \/ k > Len(pool) => k = j \/ k = n + 1
  BY DEF Added
<1>2. CoroGood(t) /\ coro[t].pc = "await" /\ coro[t].job = j /\ AsyncType /\ RestType /\ j \in 1 .. n
  BY DEF BridgeInv, Waits, AsyncType, CoroGood
<1>3. Grew /\ RestType' /\ AsyncType'
  BY <1>1, <1>2 DEF Grew, RestType, AsyncType
<1>4. /\ coro[t].shape \in DOMAIN Hops /\ coro[t].id \in 1 .. aio.calls /\ coro[t].id \notin aio.returned
      /\ coro[t].after \subseteq aio.returned /\ aio.calls \in Nat
  BY <1>2 DEF CoroGood, RestType
<1>5. WorkGood(n + 1)'
  <2>1. Waits(t, n + 1)'
    BY DEF Waits
  <2>2. x.id \in 0 .. aio'.calls /\ x.after \subseteq aio'.returned
    BY <1>4
  <2> QED
    BY <1>1, <2>1, <2>2 DEF WorkGood
<1>6. CoroGood(t)'
  BY <1>1, <1>4 DEF CoroGood
<1>7. OwnJobs'
  BY <1>1, <1>2, OwnStep
<1>8. BridgeInv'
  <2>1. \A k \in 1 .. Len(pool') : k = j \/ k > Len(pool) => WorkGood(k)'
    BY <1>1, <1>5
  <2> QED
    BY <1>1, <1>3, <1>6, <1>7, <2>1, LoopStep
<1>9. \A u \in Tasks : coro[u].pc = "await" /\ u # t => coro[u].job # j /\ coro[u].job \in 1 .. n /\ coro[u].id # coro[t].id
  BY <1>2 DEF BridgeInv, OwnJobs, CoroGood
<1>10. \A k \in 1 .. n : k # j => pool'[k] = pool[k]
  BY <1>1 DEF Spares
<1>11. j \notin aio.handles
  BY <1>2 DEF Opened
<1>12. Opened'
  <2>1. \A h \in aio.handles : h \in 1 .. n /\ h # j /\ h # n + 1 /\ h \in 1 .. Len(pool')
    BY <1>1, <1>11 DEF Opened
  <2> QED
    BY <1>10, <2>1 DEF Opened, Waits
<1>13. NoHandleLost'
  <2>1. ASSUME NEW h \in aio.handles \ (aio.freed \cup aio.forgone) PROVE Owned(h)'
    <3>1. Owned(h) /\ h \in 1 .. Len(pool) /\ h # j
      BY <1>2, <1>11, Releaser DEF Opened
    <3>2. ~Frees(j, h)
      <4>1. pool[j].steps # << >> => Fits(coro[t].shape, coro[t].hop, pool[j].steps) /\ StepsGood(pool[j].steps)
        BY <1>2 DEF CoroGood, BridgeInv, WorkGood
      <4>2. Frees(j, h) => One(pool[j].steps, "close") \/ Two(pool[j].steps, "close")
        BY <4>1, StepsGo DEF Frees
      <4> QED
        BY <4>1, <4>2, StepFacts DEF Fits, Frees
    <3>3. \A u \in Tasks : Waits(u, h) => Waits(u, h)'
      BY <1>2, <3>1 DEF Waits
    <3>4. \A u \in Tasks : h \in coro[u].holds => \E v \in Tasks : h \in coro'[v].holds
      OBVIOUS
    <3> QED
      BY <1>1, <1>2, <1>3, <3>1, <3>2, <3>3, <3>4, OwnedStep
  <2> QED
    BY <2>1 DEF NoHandleLost, Owned
<1>14. Unreturned'
  <2>1. \A u \in Tasks : coro'[u].pc = "await" =>
          coro[u].pc = "await" /\ coro'[u].id = coro[u].id /\ (coro[u].job # j => coro'[u].job = coro[u].job)
    BY <1>2
  <2>2. \A k \in 1 .. Len(pool') : (k = j \/ k > Len(pool)) /\ Live(pool'[k]) =>
          /\ pool'[k].id \notin aio'.returned
          /\ \A u \in Tasks : coro'[u].pc = "await" /\ coro'[u].id = pool'[k].id => coro'[u].job = k
    BY <1>1, <1>4, <1>9
  <2> QED
    BY <1>1, <2>1, <2>2, UnreturnedStep
<1>15. Flushes'
  <2>1. \A k \in 1 .. Len(pool') : (k = j \/ k > Len(pool)) /\ One(pool'[k].steps, "put") => FreeOf(afile.buf, pool'[k].after)
    BY <1>1
  <2>2. \A u \in Tasks : PutDue(u)' => FreeOf(afile.buf, coro'[u].after)
    <3>1. ASSUME NEW u \in Tasks, u # t, PutDue(u)' PROVE FreeOf(afile.buf, coro'[u].after)
      BY <1>9, <1>10, <3>1 DEF PutDue, Flushes
    <3>2. PutDue(t)' => FreeOf(afile.buf, coro'[t].after)
      BY DEF PutDue
    <3> QED
      BY <3>1, <3>2
  <2> QED
    BY <1>1, <2>1, <2>2, FlushesStep
<1>16. Journalled'
  <2>1. ASSUME NEW u \in Tasks, InBlock(u) PROVE InBlock(u)'
    <3>1. CASE u # t
      BY <1>9, <1>10, <2>1, <3>1 DEF InBlock
    <3>2. CASE u = t
      <4>1. GoodHop(coro[t].shape, coro[t].hop) /\ coro[t].shape = "block"
        BY <1>2, <2>1, <3>2 DEF CoroGood, InBlock
      <4>2. c.hop = 2 \/ c.hop = 3
        BY <4>1 DEF GoodHop
      <4> QED
        BY <1>1, <3>2, <4>1, <4>2 DEF InBlock
    <3> QED
      BY <3>1, <3>2
  <2> QED
    BY <2>1 DEF Journalled
<1> QED
  BY <1>8, <1>12, <1>13, <1>14, <1>15, <1>16 DEF Ordered

\* Or it is through with its call, however that ended.
LEMMA Leaves ==
    ASSUME AsyncInv, afile' = afile, NEW t \in Tasks, NEW j, Waits(t, j), Spares(j), Sequential(pool'),
           DOMAIN coro' = Tasks, \A u \in Tasks : u # t => coro'[u] = coro[u],
           NEW c, coro'[t] = c, DOMAIN c = CoroFields, c.pc = "idle", c.job = 0,
           DOMAIN aio' = DOMAIN aio, aio'.calls = aio.calls, aio'.handles = aio.handles, aio'.freed = aio.freed,
           aio.forgone \subseteq aio'.forgone, aio.returned \subseteq aio'.returned,
           aio'.returned \subseteq aio.returned \cup {coro[t].id},
           \A k \in 1 .. Len(pool') : k = j \/ k > Len(pool) => WorkGood(k)',
           \A k \in 1 .. Len(pool') : k > Len(pool) => pool'[k].id = 0 /\ One(pool'[k].steps, "close"),
           pool[j].steps = << >> => pool'[j].steps = << >>,
           Live(pool'[j]) => pool'[j].id = coro[t].id /\ aio'.returned = aio.returned,
           One(pool'[j].steps, "put") => One(pool[j].steps, "put") /\ pool'[j].after = pool[j].after,
           coro[t].holds \subseteq c.holds \cup aio.freed,
           j \in aio.handles \ (aio.freed \cup aio'.forgone) => Owned(j)',
           \A h : Frees(j, h) => h \in aio'.forgone,
           InBlock(t) => -1 \in aio'.forgone
    PROVE  AsyncInv'
<1> USE DEF AsyncInv
<1>1. CoroGood(t) /\ coro[t].pc = "await" /\ coro[t].job = j /\ AsyncType /\ RestType /\ j \in 1 .. Len(pool)
      /\ coro[t].id \in 1 .. aio.calls /\ coro[t].id \notin aio.returned /\ aio.calls \in Nat
      /\ aio.returned \subseteq 1 .. aio.calls
  BY DEF BridgeInv, Waits, AsyncType, RestType, CoroGood
<1>2. Grew /\ RestType' /\ AsyncType' /\ Pools
  <2>1. aio'.returned \subseteq 1 .. aio'.calls
    BY <1>1
  <2> QED
    BY <1>1, <2>1 DEF Grew, RestType, AsyncType, Spares
<1>3. CoroGood(t)' /\ OwnJobs'
  <2>1. OwnJobs'
    BY OwnStep
  <2> QED
    BY <2>1 DEF CoroGood
<1>4. BridgeInv'
  BY <1>2, <1>3, LoopStep
<1>5. \A u \in Tasks : coro[u].pc = "await" /\ u # t =>
        coro[u].job # j /\ coro[u].job \in 1 .. Len(pool) /\ coro[u].id # coro[t].id
  BY <1>1 DEF BridgeInv, OwnJobs, CoroGood
<1>6. \A k \in 1 .. Len(pool) : k # j => pool'[k] = pool[k]
  BY DEF Spares
<1>7. \A k \in 1 .. Len(pool) : k \in 1 .. Len(pool')
  BY <1>2 DEF Pools
<1>8. Opened'
  <2> SUFFICES ASSUME NEW h \in aio.handles
               PROVE  /\ h \in 1 .. Len(pool') /\ pool'[h].steps = << >>
                      /\ \A u \in Tasks : Waits(u, h)' => coro'[u].shape = "open" /\ ~pool'[h].failed
    BY DEF Opened
  <2>1. h \in 1 .. Len(pool) /\ pool[h].steps = << >>
    BY DEF Opened
  <2>2. CASE h # j
    BY <1>6, <1>7, <2>1, <2>2 DEF Opened, Waits
  <2>3. CASE h = j
    <3>1. \A u \in Tasks : ~Waits(u, j)'
      BY <1>1, <1>5 DEF Waits
    <3> QED
      BY <1>7, <2>1, <2>3, <3>1
  <2> QED
    BY <2>2, <2>3
<1>9. NoHandleLost'
  <2>1. ASSUME NEW h \in aio.handles \ (aio.freed \cup aio'.forgone) PROVE Owned(h)'
    <3>1. Owned(h) /\ h \in 1 .. Len(pool)
      <4>1. h \in aio.handles \ (aio.freed \cup aio.forgone)
        OBVIOUS
      <4> QED
        BY <1>1, <4>1, Releaser DEF Opened
    <3>2. ~Frees(j, h)
      BY <2>1
    <3>3. h # j => \A u \in Tasks : Waits(u, h) => Waits(u, h)'
      BY <1>1 DEF Waits
    <3>4. \A u \in Tasks : h \in coro[u].holds => \E v \in Tasks : h \in coro'[v].holds
      BY <2>1
    <3>5. h = j => Owned(h)'
      BY <2>1
    <3> QED
      BY <1>1, <1>2, <3>1, <3>2, <3>3, <3>4, <3>5, OwnedStep
  <2> QED
    BY <2>1 DEF NoHandleLost, Owned
<1>10. Unreturned'
  <2>1. \A u \in Tasks : coro'[u].pc = "await" => u # t /\ coro[u].pc = "await" /\ coro'[u].id = coro[u].id
                                                 /\ coro'[u].job = coro[u].job
    OBVIOUS
  <2>2. \A i \in aio'.returned : i \in aio.returned \/ \E u \in Tasks : Waits(u, j) /\ i = coro[u].id
    OBVIOUS
  <2>3. 0 \notin aio'.returned /\ \A u \in Tasks : coro'[u].pc = "await" => coro'[u].id # 0
    BY <1>1, <1>4 DEF BridgeInv, CoroGood
  <2>4. \A k \in 1 .. Len(pool') : (k = j \/ k > Len(pool)) /\ Live(pool'[k]) =>
          /\ pool'[k].id \notin aio'.returned
          /\ \A u \in Tasks : coro'[u].pc = "await" /\ coro'[u].id = pool'[k].id => coro'[u].job = k
    BY <1>1, <1>5, <2>1, <2>3
  <2> QED
    BY <2>1, <2>2, <2>4, UnreturnedStep
<1>11. Flushes'
  <2>1. \A k \in 1 .. Len(pool') : (k = j \/ k > Len(pool)) /\ One(pool'[k].steps, "put") => FreeOf(afile.buf, pool'[k].after)
    BY <1>1, StepFacts DEF Flushes
  <2>2. ASSUME NEW u \in Tasks, PutDue(u)' PROVE FreeOf(afile.buf, coro'[u].after)
    <3>1. u # t
      BY <2>2 DEF PutDue
    <3> QED
      BY <1>5, <1>6, <2>2, <3>1 DEF PutDue, Flushes
  <2> QED
    BY <2>1, <2>2, FlushesStep
<1>12. Journalled'
  <2>1. ASSUME NEW u \in Tasks, InBlock(u), u # t PROVE InBlock(u)'
    BY <1>5, <1>6, <2>1 DEF InBlock
  <2> QED
    BY <2>1 DEF Journalled
<1> QED
  BY <1>4, <1>8, <1>9, <1>10, <1>11, <1>12 DEF Ordered

\* A spent job, and the commit a block that is left queues.
LEMMA SpentGood == ASSUME NEW j, pool'[j] = Spent, aio'.calls \in Nat PROVE WorkGood(j)' /\ ~Live(Spent) /\ ~One(Spent.steps, "put")
<1>1. 0 \in 0 .. aio'.calls /\ StepsGood(<< >>)
  BY DEF StepsGood
<1>2. ~Live(Spent) /\ ~One(Spent.steps, "put")
  BY SpentIs, StepFacts DEF Live
<1>3. WorkGood(j)'
  BY <1>1, SpentIs, StepFacts DEF WorkGood
<1> QED
  BY <1>2, <1>3

Commits(x, id) ==
    /\ DOMAIN x = JobFields /\ StepsGood(x.steps) /\ x.steps # << >> /\ Fits("block", 3, x.steps) /\ x.state = "queued"
    /\ x.id = id /\ x.owned = FALSE /\ x.scope = FALSE /\ x.late = FALSE /\ x.failed = FALSE /\ x.after = {}
    /\ ~One(x.steps, "put")
LEMMA CommitIs ==
    ASSUME NEW id, NEW x, x = Job(<<"commit">>, id, FALSE, 0, {})
    PROVE  Commits(x, id)
<1>1. /\ DOMAIN x = JobFields /\ x.steps = <<"commit">> /\ x.state = "queued"
      /\ x.id = id /\ x.owned = FALSE /\ x.scope = FALSE /\ x.late = FALSE /\ x.failed = FALSE /\ x.after = {}
  BY DEF Job, JobFields
<1>2. One(x.steps, "commit")
  BY <1>1 DEF One
<1> QED
  BY <1>1, <1>2, StepFacts DEF Commits, StepsGood, Fits

LEMMA DeliverStep == ASSUME AsyncInv, NEW t \in Tasks, Deliver(t) PROVE AsyncInv'
<1> USE DEF AsyncInv
<1>0. PICK n, j : n = Len(pool) /\ j = coro[t].job
  OBVIOUS
<1> DEFINE c == coro[t]
           job == pool[j]
           more == ~job.failed /\ c.hop < Len(Hops[c.shape])
           leave == c.shape = "block" /\ c.hop = 2 /\ job.failed
           next == [c EXCEPT !.hop = c.hop + 1, !.job = n + 1]
<1>1. /\ Waits(t, j) /\ CoroGood(t) /\ AsyncType /\ RestType /\ j \in 1 .. Len(pool) /\ job.state = "done" /\ c.pc = "await"
      /\ WorkGood(j) /\ job.steps = << >> /\ afile' = afile /\ Sequential(pool) /\ aio.calls \in Nat
  BY <1>0 DEF Deliver, Waits, BridgeInv, AsyncType, RestType, CoroGood, WorkGood
<1>2. /\ c.shape \in DOMAIN Hops /\ GoodHop(c.shape, c.hop) /\ ~job.late /\ DOMAIN c = CoroFields
      /\ c.hop \in Nat /\ (c.hop < Len(Hops[c.shape]) => GoodHop(c.shape, c.hop + 1) /\ c.shape # "open" /\ c.shape # "close")
  <2>1. /\ c.shape \in DOMAIN Hops /\ GoodHop(c.shape, c.hop) /\ ~job.late /\ DOMAIN c = CoroFields
    BY <1>0, <1>1 DEF CoroGood
  <2> QED
    BY <2>1, HopFits
<1>3. /\ DOMAIN next = CoroFields /\ next.pc = "await" /\ next.shape = c.shape /\ next.hop = c.hop + 1 /\ next.job = n + 1
      /\ next.id = c.id /\ next.holds = c.holds /\ next.after = c.after
  BY <1>1, <1>2 DEF CoroFields
<1>4. CASE more \/ leave
  <2> DEFINE x == IF more THEN Submit(next) ELSE Job(<<"commit">>, c.id, FALSE, 0, {})
  <2>1. coro' = [coro EXCEPT ![t] = next] /\ pool' = Append([pool EXCEPT ![j] = Spent], x) /\ aio' = aio
    BY <1>0, <1>4 DEF Deliver, Goes
  <2> HIDE DEF next
  <2>2. GoodHop(next.shape, next.hop) /\ next.shape # "open" /\ next.shape # "close"
    <3>1. CASE more
      BY <1>2, <1>3, <3>1
    <3>2. CASE leave
      BY <1>3, <3>2 DEF GoodHop
    <3> QED
      BY <1>4, <3>1, <3>2
  <2>3. more /\ next.shape = "pieces" => FreeOf(afile.buf, next.after)
    <3>1. more /\ next.shape = "pieces" => PutDue(t)
      BY <1>0, <1>1, <1>3 DEF PutDue
    <3> QED
      BY <1>3, <3>1 DEF Flushes
  <2>4. /\ DOMAIN x = JobFields /\ StepsGood(x.steps) /\ x.steps # << >> /\ Fits(next.shape, next.hop, x.steps) /\ x.state = "queued"
        /\ x.id = next.id /\ x.owned = FALSE /\ x.scope = FALSE /\ x.late = FALSE /\ x.failed = FALSE /\ x.after \subseteq next.after
        /\ One(x.steps, "put") => FreeOf(afile.buf, x.after)
    <3>1. CASE more
      <4>1. x = Submit(next) /\ next.shape \in DOMAIN Hops
        BY <1>2, <1>3, <3>1
      <4>2. /\ DOMAIN x = JobFields /\ StepsGood(x.steps) /\ x.steps # << >> /\ Fits(next.shape, next.hop, x.steps)
            /\ x.state = "queued" /\ x.id = next.id /\ x.owned = (next.shape = "open")
            /\ x.scope = FALSE /\ x.late = FALSE /\ x.failed = FALSE /\ x.after = next.after
            /\ One(x.steps, "put") => next.shape = "pieces" /\ next.hop = 2
        BY <2>2, <4>1, SubmitIs
      <4> QED
        BY <2>2, <2>3, <3>1, <4>2
    <3>2. CASE ~more
      <4>1. leave
        BY <1>4, <3>2
      <4>2. next.shape = "block" /\ next.hop = 3
        BY <1>3, <4>1
      <4>3. x = Job(<<"commit">>, c.id, FALSE, 0, {})
        BY <3>2
      <4> HIDE DEF x
      <4>4. Commits(x, c.id)
        BY <4>3, CommitIs
      <4> QED
        BY <1>3, <4>2, <4>4 DEF Commits
    <3> QED
      BY <3>1, <3>2
  <2> HIDE DEF x
  <2>5. DOMAIN coro' = Tasks /\ coro'[t] = next /\ \A u \in Tasks : u # t => coro'[u] = coro[u]
    BY <1>1, <2>1 DEF RestType
  <2>6. Added(j, Spent, x, n)
    BY <1>0, <1>1, <2>1, PoolAdd
  <2>7. WorkGood(j)' /\ ~Live(Spent) /\ ~One(Spent.steps, "put") /\ Spent.steps = << >>
    BY <1>1, <2>1, <2>6, SpentGood, SpentIs DEF Added
  <2>8. next.shape = "pieces" => FreeOf(afile.buf, next.after)
    BY <1>3, <1>4, <2>3
  <2> HIDE DEF more, leave
  <2> QED
    BY <1>0, <1>1, <1>3, <2>1, <2>2, <2>4, <2>5, <2>6, <2>7, <2>8, GoesOn
<1>5. CASE ~(more \/ leave)
  <2> DEFINE d == coro'[t]
  <2>1. /\ coro' = [coro EXCEPT ![t] = [Rests(t) EXCEPT !.holds =
                                          IF job.failed THEN @
                                          ELSE IF c.shape = "open" THEN @ \cup {job.handle}
                                          ELSE IF c.shape = "close" THEN @ \ {job.handle} ELSE @]]
        /\ aio' = [aio EXCEPT !.returned = IF job.failed THEN @ ELSE @ \cup {c.id}]
        /\ pool' = [pool EXCEPT ![j] = Spent]
    BY <1>0, <1>5 DEF Deliver, Goes
  <2>2. /\ DOMAIN coro' = Tasks /\ (\A u \in Tasks : u # t => coro'[u] = coro[u])
        /\ coro'[t] = [Rests(t) EXCEPT !.holds = IF job.failed THEN @
                                                 ELSE IF c.shape = "open" THEN @ \cup {job.handle}
                                                 ELSE IF c.shape = "close" THEN @ \ {job.handle} ELSE @]
    BY <1>1, <2>1 DEF RestType
  <2>3. /\ DOMAIN d = CoroFields /\ d.pc = "idle" /\ d.job = 0
        /\ d.holds = IF job.failed THEN c.holds
                     ELSE IF c.shape = "open" THEN c.holds \cup {job.handle}
                     ELSE IF c.shape = "close" THEN c.holds \ {job.handle} ELSE c.holds
    BY <2>2 DEF Rests, Awaiting, CoroFields
  <2>4. /\ DOMAIN aio' = DOMAIN aio /\ aio'.calls = aio.calls /\ aio'.handles = aio.handles /\ aio'.freed = aio.freed
        /\ aio'.forgone = aio.forgone /\ aio.returned \subseteq aio'.returned
        /\ aio'.returned \subseteq aio.returned \cup {coro[t].id}
    BY <1>1, <2>1 DEF RestType
  <2>5. Spares(j) /\ Sequential(pool') /\ Len(pool') = Len(pool) /\ pool'[j] = Spent /\ Len(pool) \in Nat
    BY <1>1, <2>1, PoolPut
  <2>6. WorkGood(j)' /\ ~Live(Spent) /\ ~One(Spent.steps, "put") /\ Spent.steps = << >>
    BY <1>1, <2>4, <2>5, SpentGood, SpentIs
  <2>7. /\ \A k \in 1 .. Len(pool') : k = j \/ k > Len(pool) => WorkGood(k)'
        /\ \A k \in 1 .. Len(pool') : ~(k > Len(pool))
    BY <2>5, <2>6
  <2>8. coro[t].holds \subseteq d.holds \cup aio.freed
    <3>1. c.shape = "close" /\ ~job.failed => job.handle \in aio.freed
      BY <1>0, <1>1 DEF CoroGood
    <3> QED
      BY <2>3, <3>1
  <2>9. j \in aio.handles => Owned(j)'
    <3>1. j \in aio.handles => c.shape = "open" /\ ~job.failed
      BY <1>1 DEF Opened
    <3>2. c.shape = "open" /\ ~job.failed => job.handle = j
      BY <1>0, <1>1 DEF CoroGood
    <3>3. j \in aio.handles => j \in d.holds
      BY <2>3, <3>1, <3>2
    <3> QED
      BY <3>3 DEF Owned
  <2>10. \A h : ~Frees(j, h)
    BY <1>1 DEF Frees
  <2>11. ~InBlock(t)
    <3>1. c.shape = "block" => Len(Hops[c.shape]) = 3
      BY HopsAre
    <3>2. c.shape = "block" => c.hop = 1 \/ c.hop = 2 \/ c.hop = 3
      BY <1>2 DEF GoodHop
    <3>3. c.shape = "block" => c.hop = 3 \/ (c.hop = 1 /\ job.failed)
      <4>0. 1 < Len(Hops["block"]) /\ 2 < Len(Hops["block"])
        BY HopsAre
      <4>1. c.shape = "block" /\ c.hop = 1 => c.hop < Len(Hops[c.shape])
        BY <4>0, Zenon
      <4>2. c.shape = "block" /\ c.hop = 2 => c.hop < Len(Hops[c.shape])
        BY <4>0, Zenon
      <4>3. ~more /\ ~leave
        BY <1>5
      <4> QED
        BY <3>2, <4>1, <4>2, <4>3, Zenon
    <3> QED
      BY <1>0, <1>1, <3>3 DEF InBlock
  <2> HIDE DEF d
  <2>12. coro'[t] = d
    BY DEF d
  <2> QED
    BY <1>1, <2>2, <2>3, <2>4, <2>5, <2>6, <2>7, <2>8, <2>9, <2>10, <2>11, <2>12, Leaves
<1> QED
  BY <1>4, <1>5

-----------------------------------------------------------------------------
(* A task is cancelled.                                                    *)

\* What becomes of the job it waited for.
LeftAs(j, y) ==
    \/ y = Spent
    \/ pool[j].state = "running" /\ y = [pool[j] EXCEPT !.scope = ~pool[j].owned, !.late = pool[j].owned]
LEMMA AbandonedIs ==
    ASSUME BridgeInv, NEW t \in Tasks, NEW j, Waits(t, j)
    PROVE  \E y : /\ LeftAs(j, y)
                  /\ \/ /\ ~(pool[j].state = "done" /\ pool[j].owned /\ ~pool[j].failed)
                        /\ Abandoned(j) = [pool EXCEPT ![j] = y]
                     \/ /\ pool[j].state = "done" /\ pool[j].owned /\ ~pool[j].failed /\ y = Spent
                        /\ Abandoned(j) = Append([pool EXCEPT ![j] = Spent], Job(<<"close">>, 0, TRUE, pool[j].handle, {}))
<1>1. WorkGood(j) /\ Sequential(pool) /\ j \in DOMAIN pool
  BY AnyDomain DEF BridgeInv, AsyncType, Waits, CoroGood
<1>2. CASE pool[j].state = "running"
  <2>1. Abandoned(j) = [pool EXCEPT ![j] = [pool[j] EXCEPT !.scope = ~pool[j].owned, !.late = pool[j].owned]]
    BY <1>1, <1>2 DEF Abandoned
  <2> QED
    BY <1>2, <2>1 DEF LeftAs
<1>3. CASE pool[j].state = "queued"
  <2>1. Abandoned(j) = [pool EXCEPT ![j] = Spent]
    BY <1>3 DEF Abandoned
  <2> QED
    BY <1>3, <2>1 DEF LeftAs
<1>4. CASE pool[j].state \notin {"running", "queued"} /\ ~(pool[j].state = "done" /\ pool[j].owned /\ ~pool[j].failed)
  <2>1. Abandoned(j) = [pool EXCEPT ![j] = Spent]
    BY <1>4 DEF Abandoned
  <2> QED
    BY <1>4, <2>1 DEF LeftAs
<1>5. CASE pool[j].state = "done" /\ pool[j].owned /\ ~pool[j].failed
  <2>1. Abandoned(j) = Append([pool EXCEPT ![j] = Spent], Job(<<"close">>, 0, TRUE, pool[j].handle, {}))
    BY <1>5 DEF Abandoned
  <2> QED
    BY <1>5, <2>1 DEF LeftAs
<1> QED
  BY <1>2, <1>3, <1>4, <1>5

\* The job itself, whether dropped, abandoned or to be released late.
LEMMA AbandonedGood ==
    ASSUME BridgeInv, Grew, NEW t \in Tasks, NEW j, Waits(t, j), NEW y, pool'[j] = y, LeftAs(j, y),
           coro[t].shape = "block" /\ coro[t].hop = 1 => -1 \in aio'.forgone
    PROVE  /\ WorkGood(j)' /\ (pool[j].steps = << >> => y.steps = << >>)
           /\ (Live(y) => y.id = coro[t].id)
           /\ (One(y.steps, "put") => One(pool[j].steps, "put") /\ y.after = pool[j].after)
           /\ (coro[t].shape = "block" => ~Live(y) /\ ~One(y.steps, "put"))
<1>1. /\ WorkGood(j) /\ CoroGood(t) /\ coro[t].job = j /\ coro[t].pc = "await" /\ pool[j].id = coro[t].id /\ aio'.calls \in Nat
      /\ (pool[j].owned <=> coro[t].shape = "open") /\ (pool[j].steps # << >> => Fits(coro[t].shape, coro[t].hop, pool[j].steps))
  BY DEF BridgeInv, Waits, CoroGood, Grew
<1>2. CASE y = Spent
  BY <1>1, <1>2, SpentGood, SpentIs
<1>3. CASE pool[j].state = "running" /\ y = [pool[j] EXCEPT !.scope = ~pool[j].owned, !.late = pool[j].owned]
  <2>1. pool[j].steps # << >>
    BY <1>1, <1>3 DEF WorkGood
  <2>2. /\ DOMAIN y = JobFields /\ y.steps = pool[j].steps /\ y.state = "running" /\ y.id = pool[j].id /\ y.owned = pool[j].owned
        /\ y.scope = ~pool[j].owned /\ y.late = pool[j].owned /\ y.failed = pool[j].failed /\ y.after = pool[j].after
    BY <1>1, <1>3 DEF WorkGood, JobFields
  <2>3. One(y.steps, "open") <=> coro[t].shape = "open"
    BY <1>1, <2>1, <2>2, StepFacts DEF Fits
  <2>4. One(y.steps, "begin") => -1 \in aio'.forgone
    BY <1>1, <2>1, <2>2, StepFacts DEF Fits
  <2>5. coro[t].shape = "block" => ~One(y.steps, "buffer") /\ ~One(y.steps, "put") /\ y.scope
    BY <1>1, <2>1, <2>2, StepFacts DEF Fits
  <2>6. pool[j].id \in 0 .. aio'.calls /\ pool[j].after \subseteq aio'.returned
    BY <1>1 DEF WorkGood, Grew
  <2>7. y.scope \in BOOLEAN /\ y.late \in BOOLEAN /\ y.owned \in BOOLEAN /\ (y.late <=> coro[t].shape = "open")
    BY <1>1, <2>2 DEF WorkGood
  <2>8. WorkGood(j)'
    BY <1>1, <2>1, <2>2, <2>3, <2>4, <2>6, <2>7 DEF WorkGood
  <2> QED
    BY <1>1, <2>1, <2>2, <2>5, <2>8 DEF Live
<1> QED
  BY <1>2, <1>3 DEF LeftAs

LEMMA CancelStep == ASSUME AsyncInv, NEW t \in Tasks, CancelTask(t) PROVE AsyncInv'
<1> USE DEF AsyncInv
<1>0. PICK n, j : n = Len(pool) /\ j = coro[t].job
  OBVIOUS
<1> DEFINE c == coro[t]
           job == pool[j]
           leave == c.shape = "block" /\ c.hop = 2
           next == [c EXCEPT !.hop = 3, !.job = n + 1]
<1>1. /\ Waits(t, j) /\ CoroGood(t) /\ AsyncType /\ RestType /\ j \in 1 .. Len(pool) /\ c.pc = "await"
      /\ WorkGood(j) /\ afile' = afile /\ Sequential(pool) /\ aio.calls \in Nat /\ DOMAIN c = CoroFields
      /\ job.owned \in BOOLEAN /\ job.failed \in BOOLEAN /\ n \in Nat
  BY <1>0, AnyAppend DEF CancelTask, Waits, BridgeInv, AsyncType, RestType, CoroGood, WorkGood
<1>2. PICK y : /\ LeftAs(j, y)
               /\ \/ /\ ~(job.state = "done" /\ job.owned /\ ~job.failed)
                     /\ Abandoned(j) = [pool EXCEPT ![j] = y]
                  \/ /\ job.state = "done" /\ job.owned /\ ~job.failed /\ y = Spent
                     /\ Abandoned(j) = Append([pool EXCEPT ![j] = Spent], Job(<<"close">>, 0, TRUE, job.handle, {}))
  BY <1>1, AbandonedIs
<1>3. job.owned <=> c.shape = "open"
  BY <1>0, <1>1 DEF CoroGood
<1>4. CASE leave
  <2> DEFINE x == Job(<<"commit">>, c.id, FALSE, 0, {})
  <2>1. Abandoned(j) = [pool EXCEPT ![j] = y]
    BY <1>2, <1>3, <1>4
  <2>2. Len([pool EXCEPT ![j] = y]) = n
    BY <1>0, <1>1 DEF Sequential
  <2>3. coro' = [coro EXCEPT ![t] = next] /\ pool' = Append([pool EXCEPT ![j] = y], x) /\ aio' = aio
    BY <1>0, <1>4, <2>1, <2>2 DEF CancelTask, Goes
  <2>4. /\ DOMAIN next = CoroFields /\ next.pc = "await" /\ next.shape = c.shape /\ next.hop = c.hop + 1 /\ next.job = n + 1
        /\ next.id = c.id /\ next.holds = c.holds /\ next.after = c.after /\ next.shape = "block" /\ next.hop = 3
    BY <1>1, <1>4 DEF CoroFields
  <2>5. Commits(x, c.id)
    BY CommitIs
  <2> HIDE DEF x, next
  <2>6. GoodHop(next.shape, next.hop) /\ next.shape # "open" /\ next.shape # "close" /\ next.shape # "pieces"
    BY <2>4 DEF GoodHop
  <2>7. DOMAIN coro' = Tasks /\ coro'[t] = next /\ \A u \in Tasks : u # t => coro'[u] = coro[u]
    BY <1>1, <2>3 DEF RestType
  <2>8. Added(j, y, x, n) /\ Grew
    BY <1>0, <1>1, <2>3, PoolAdd DEF Grew
  <2>9. WorkGood(j)' /\ (pool[j].steps = << >> => y.steps = << >>) /\ ~Live(y) /\ ~One(y.steps, "put")
    <3>1. pool'[j] = y
      BY <2>8 DEF Added
    <3> QED
      BY <1>1, <1>2, <1>4, <2>8, <3>1, AbandonedGood
  <2>10. /\ DOMAIN x = JobFields /\ StepsGood(x.steps) /\ x.steps # << >> /\ Fits(next.shape, next.hop, x.steps) /\ x.state = "queued"
         /\ x.id = next.id /\ x.owned = FALSE /\ x.scope = FALSE /\ x.late = FALSE /\ x.failed = FALSE /\ x.after \subseteq next.after
         /\ One(x.steps, "put") => FreeOf(afile.buf, x.after)
    BY <2>4, <2>5 DEF Commits
  <2> QED
    BY <1>0, <1>1, <2>3, <2>4, <2>6, <2>7, <2>8, <2>9, <2>10, GoesOn
<1>5. CASE ~leave
  <2> DEFINE d == coro'[t]
  <2>1. /\ coro' = [coro EXCEPT ![t] = Rests(t)] /\ pool' = Abandoned(j)
        /\ aio' = [aio EXCEPT !.forgone = @ \cup (IF c.shape = "close" THEN {job.handle}
                                                  ELSE IF c.shape = "block" THEN {-1} ELSE {})]
    BY <1>0, <1>5 DEF CancelTask, Goes
  <2>2. DOMAIN coro' = Tasks /\ (\A u \in Tasks : u # t => coro'[u] = coro[u]) /\ coro'[t] = Rests(t)
    BY <1>1, <2>1 DEF RestType
  <2>3. DOMAIN d = CoroFields /\ d.pc = "idle" /\ d.job = 0 /\ d.holds = c.holds
    BY <2>2 DEF Rests, Awaiting, CoroFields
  <2>4. /\ DOMAIN aio' = DOMAIN aio /\ aio'.calls = aio.calls /\ aio'.handles = aio.handles /\ aio'.freed = aio.freed
        /\ aio'.returned = aio.returned
        /\ aio'.forgone = aio.forgone \cup (IF c.shape = "close" THEN {job.handle} ELSE IF c.shape = "block" THEN {-1} ELSE {})
    BY <1>1, <2>1 DEF RestType
  <2>5. Grew /\ aio.forgone \subseteq aio'.forgone /\ (c.shape = "block" => -1 \in aio'.forgone)
        /\ (c.shape = "close" => job.handle \in aio'.forgone)
    BY <1>1, <2>4 DEF Grew
  <2> HIDE DEF d
  <2>6. coro'[t] = d /\ coro[t].holds \subseteq d.holds \cup aio.freed
    BY <2>3 DEF d
  <2>7. \A h : Frees(j, h) => h \in aio'.forgone
    <3>1. ASSUME NEW h, Frees(j, h) PROVE h \in aio'.forgone
      <4>1. job.steps # << >> /\ Last(job.steps) = "close" /\ job.handle = h
        BY <3>1 DEF Frees
      <4>2. StepsGood(job.steps) /\ Fits(c.shape, c.hop, job.steps)
        BY <1>0, <1>1, <4>1 DEF WorkGood, CoroGood
      <4>3. One(job.steps, "close") \/ Two(job.steps, "close")
        BY <4>1, <4>2, StepsGo
      <4>4. c.shape = "close"
        BY <4>2, <4>3, StepFacts DEF Fits
      <4> QED
        BY <2>5, <4>1, <4>4
    <3> QED
      BY <3>1
  <2>8. InBlock(t) => -1 \in aio'.forgone
    BY <2>5 DEF InBlock
  <2>9. j \in aio.handles => job.state = "done" /\ job.owned /\ ~job.failed /\ job.handle = j
    <3>1. j \in aio.handles => job.steps = << >> /\ c.shape = "open" /\ ~job.failed
      BY <1>1 DEF Opened
    <3>2. job.steps = << >> => job.state = "done"
      BY <1>0, <1>1 DEF WorkGood, CoroGood
    <3> QED
      BY <1>0, <1>1, <1>3, <3>1, <3>2 DEF CoroGood
  <2>10. CASE ~(job.state = "done" /\ job.owned /\ ~job.failed)
    <3>1. pool' = [pool EXCEPT ![j] = y]
      BY <1>2, <2>1, <2>10
    <3>2. Spares(j) /\ Sequential(pool') /\ Len(pool') = Len(pool) /\ pool'[j] = y /\ Len(pool) \in Nat
      BY <1>1, <3>1, PoolPut
    <3>3. /\ WorkGood(j)' /\ (pool[j].steps = << >> => y.steps = << >>)
          /\ (Live(y) => y.id = coro[t].id)
          /\ (One(y.steps, "put") => One(pool[j].steps, "put") /\ y.after = pool[j].after)
      BY <1>1, <1>2, <2>5, <3>2, AbandonedGood
    <3>4. /\ \A k \in 1 .. Len(pool') : k = j \/ k > Len(pool) => WorkGood(k)'
          /\ \A k \in 1 .. Len(pool') : ~(k > Len(pool))
      BY <3>2, <3>3
    <3>5. j \notin aio.handles
      BY <2>9, <2>10
    <3> QED
      BY <1>1, <2>2, <2>3, <2>4, <2>5, <2>6, <2>7, <2>8, <3>2, <3>3, <3>4, <3>5, Leaves
  <2>11. CASE job.state = "done" /\ job.owned /\ ~job.failed
    <3> DEFINE x == Job(<<"close">>, 0, TRUE, job.handle, {})
    <3>1. pool' = Append([pool EXCEPT ![j] = Spent], x) /\ y = Spent
      BY <1>2, <2>1, <2>11
    <3>2. /\ DOMAIN x = JobFields /\ x.steps = <<"close">> /\ x.state = "queued" /\ x.id = 0 /\ x.owned \in BOOLEAN
          /\ x.scope = FALSE /\ x.late = FALSE /\ x.failed = FALSE /\ x.handle = job.handle /\ x.after = {}
      BY CloseJobIs
    <3> HIDE DEF x
    <3>3. Added(j, Spent, x, n)
      BY <1>0, <1>1, <3>1, PoolAdd
    <3>4. /\ Spares(j) /\ Sequential(pool') /\ n \in Nat /\ Len(pool') = n + 1 /\ pool'[j] = Spent /\ pool'[n + 1] = x
          /\ j # n + 1 /\ n + 1 \in 1 .. Len(pool')
          /\ \A k \in 1 .. Len(pool') : k = j \/ k > Len(pool) => k = j \/ k = n + 1
          /\ \A k \in 1 .. Len(pool') : k > Len(pool) => k = n + 1
      BY <1>0, <1>1, <3>3 DEF Added
    <3>5. WorkGood(j)' /\ ~Live(Spent) /\ ~One(Spent.steps, "put") /\ Spent.steps = << >>
      BY <1>1, <2>4, <3>4, SpentGood, SpentIs
    <3>6. One(x.steps, "close") /\ StepsGood(x.steps) /\ x.steps # << >> /\ Last(x.steps) = "close"
          /\ ~One(x.steps, "open") /\ ~One(x.steps, "begin")
      <4>1. One(x.steps, "close")
        BY <3>2 DEF One
      <4> QED
        BY <4>1, StepFacts DEF StepsGood
    <3>7. WorkGood(n + 1)'
      <4>1. x.id \in 0 .. aio'.calls /\ x.after \subseteq aio'.returned
        BY <1>1, <2>4, <3>2
      <4> QED
        BY <3>2, <3>4, <3>6, <4>1 DEF WorkGood
    <3>8. /\ \A k \in 1 .. Len(pool') : k = j \/ k > Len(pool) => WorkGood(k)'
          /\ \A k \in 1 .. Len(pool') : k > Len(pool) => pool'[k].id = 0 /\ One(pool'[k].steps, "close")
      BY <3>2, <3>4, <3>5, <3>6, <3>7
    <3>9. j \in aio.handles => Owned(j)'
      <4>1. n + 1 \in DOMAIN pool'
        BY <3>4, AnyDomain
      <4> QED
        BY <2>9, <3>2, <3>4, <3>6, <4>1 DEF Owned, Releasing
    <3> QED
      BY <1>1, <2>2, <2>3, <2>4, <2>5, <2>6, <2>7, <2>8, <3>4, <3>5, <3>8, <3>9, Leaves
  <2> QED
    BY <2>10, <2>11
<1> QED
  BY <1>4, <1>5

-----------------------------------------------------------------------------
LEMMA AsyncStutter == ASSUME AsyncInv, UNCHANGED asyncVars PROVE AsyncInv'
<1>1. coro' = coro /\ pool' = pool /\ afile' = afile /\ aio' = aio
  BY DEF asyncVars
<1>2. BridgeInv'
  BY <1>1 DEF AsyncInv, BridgeInv, AsyncType, RestType, OwnJobs, WorkGood, CoroGood, Waits
<1>3. Opened' /\ NoHandleLost' /\ Unreturned'
  BY <1>1 DEF AsyncInv, Opened, NoHandleLost, Undelivered, Releasing, Unreturned, Waits
<1>4. Flushes' /\ Journalled' /\ Ordered'
  BY <1>1 DEF AsyncInv, Flushes, SentGood, PutDue, Journalled, InBlock, Ordered, InOrder
<1> QED
  BY <1>2, <1>3, <1>4 DEF AsyncInv

\* Whatever is cancelled while a worker runs on, a handle an open made has an
\* owner or is being closed, and no put overtakes a write that returned
\* before it was called (_run_owned, _release_late, _flushed of aio.py).
THEOREM AsyncIsSafe == AsyncSpec => []AsyncSafe
<1>1. AsyncInit => AsyncInv
  BY AsyncStart
<1>2. AsyncInv /\ [AsyncNext]_asyncVars => AsyncInv'
  <2> SUFFICES ASSUME AsyncInv, [AsyncNext]_asyncVars PROVE AsyncInv'
    OBVIOUS
  <2>1. ASSUME NEW j \in DOMAIN pool, TakeJob(j) \/ Step(j) \/ StepFails(j) PROVE AsyncInv'
    BY <2>1, TakeStep, WorkerStep, FailStep
  <2>2. ASSUME NEW t \in Tasks, Await(t) \/ Deliver(t) \/ CancelTask(t) PROVE AsyncInv'
    BY <2>2, AwaitStep, DeliverStep, CancelStep
  <2>3. CASE UNCHANGED asyncVars
    BY <2>3, AsyncStutter
  <2> QED
    BY <2>1, <2>2, <2>3 DEF AsyncNext, WorkerSteps
<1>3. AsyncInv => AsyncSafe
  <2> SUFFICES ASSUME AsyncInv PROVE AsyncSafe
    OBVIOUS
  <2>1. DOMAIN afile.sent = 1 .. Len(afile.sent)
    BY AnyDomain DEF AsyncInv, BridgeInv, AsyncType, RestType
  <2>2. afile.journal /\ -1 \notin aio.forgone => \E t \in Tasks : coro[t].shape = "block" /\ coro[t].pc = "await"
    BY DEF AsyncInv, Journalled, InBlock
  <2> QED
    BY <2>1, <2>2 DEF AsyncInv, AsyncSafe, AsyncOrder, Ordered, InOrder
<1> QED
  BY <1>1, <1>2, <1>3, PTL DEF AsyncSpec

-----------------------------------------------------------------------------
(* A call on a root:// filesystem.                                         *)

Kinds == {"none", "file", "dir", "link"}
RmPlaces == {"decide", "ask", "remove", "clear", "next"}
WalkPlaces == {"list", "descend"}
LocatePlaces == {"locate", "located"}
Special == {"rmtree", "walk", "mkdir", "touch", "open", "deep_locate", "scandir_parts"}

\* The namespace: a link stays what it is, and the top is none.
TreeType ==
    /\ DOMAIN ns = DOMAIN NoCall
    /\ DOMAIN fsys = {"kind", "to", "meddled"}
    /\ fsys.kind \in [Nodes -> Kinds] /\ fsys.to \in Nodes /\ fsys.kind["top"] # "link"
    /\ ns.flag \in BOOLEAN /\ gone \subseteq Inside /\ server.dstat \in BOOLEAN

\* Which call is in which place; only one that is over has a result.
Placed ==
    /\ ns.pc \notin {"done", "close"} => ns.result = "none"
    /\ ns.pc = "request" => ns.op \notin Special
    /\ ns.pc \in RmPlaces => ns.op = "rmtree"
    /\ ns.pc \in WalkPlaces => ns.op = "walk"
    /\ ns.pc \in LocatePlaces => ns.op = "deep_locate"
    /\ ns.pc = "part" => ns.op = "scandir_parts"
    /\ ns.pc \in {"mkdir", "isdir"} => ns.op = "mkdir"
    /\ ns.pc \in {"lend", "open"} => ns.op \in {"touch", "open"}
    /\ ns.pc = "close" => ns.op = "touch"

\* rmtree: what it has in hand is in the tree, and no link is listed.
Frames == [name : Inside, todo : SUBSET [n : Inside, dir : BOOLEAN]]
Removing ==
    ns.op = "rmtree" =>
        /\ ns.at \in Inside /\ ns.stack \in Seq(Frames)
        /\ ns.stack # << >> => ns.stack[1].name = "top"
        /\ ns.pc = "clear" => fsys.kind[ns.at] # "link"
        /\ ns.pc \in {"decide", "ask", "clear"} /\ ns.stack = << >> => ns.at = "top"
        /\ ns.pc = "remove" => ns.stack # << >>
        /\ ns.pc = "next" /\ ns.stack = << >> /\ ~ns.flag => fsys.kind["top"] = "none"
        /\ ns.result = "ok" /\ ~ns.flag => fsys.kind["top"] = "none"

\* walk: each directory is listed once for the time it was entered, the top
\* once more; and while links can be told nothing outside is in hand.
Due(n) == IF ns.pc = "list" /\ Follow(ns.at) = n THEN 1 ELSE 0
Entered(n) == (IF n \in ns.seen THEN 1 ELSE 0) + (IF n = "top" THEN 1 ELSE 0)
Walking ==
    ns.op = "walk" =>
        /\ ns.at \in Nodes /\ ns.stack \in Seq(SUBSET Nodes) /\ ns.visits \in [Nodes -> Nat]
        /\ server.ids => \A n \in Nodes : ns.visits[n] + Due(n) <= Entered(n)
        /\ ~ns.flag /\ ns.trust \in {"unasked", "yes"} =>
              /\ ns.at \in Inside /\ ns.stack \in Seq(SUBSET Inside)
              /\ ns.pc = "list" => fsys.kind[ns.at] # "link"
              /\ \A n \in Nodes \ Inside : ns.visits[n] = 0

\* deep_locate: a location heard of waits to be looked at or is noted.
Locations == [role : {"manager", "server"}, host : DOMAIN ns.topology]
Locating ==
    ns.op = "deep_locate" =>
        /\ ns.topology \in Topologies /\ ns.at \in DOMAIN ns.topology
        /\ ns.pending \in Seq(Locations)
        /\ \A h \in DOMAIN ns.found : ns.found[h] \in {"manager", "server"}
        /\ \A loc \in ns.heard : loc.role = "server" =>
              \/ \E i \in 1 .. Len(ns.pending) : ns.pending[i] = loc
              \/ loc.host \in DOMAIN ns.found /\ ns.found[loc.host] = "server"
        /\ ns.result = "ok" => ns.pending = << >>

\* The parts so far are the listing so far, until one is lost.
HandedOn ==
    ns.op = "scandir_parts" =>
        /\ Sequential(ns.handed)
        /\ ns.part \in Nat \ {0}
        /\ ns.pc = "part" => ns.part <= Len(Listing)
        /\ ~ns.started => ns.handed = << >> /\ ns.part = 1 /\ ns.pairs
        /\ ns.started => ns.handed # << >> /\ (ns.pairs <=> server.dstat)
        /\ ~ns.lost => /\ ns.started <=> ns.part # 1
                       /\ Len(ns.handed) = ns.part - 1
                       /\ \A i \in 1 .. ns.part - 1 : ns.handed[i] = Listing[i]
        /\ ns.result = "ok" => ns.part = Len(Listing) + 1

\* The rest: what changes is sent once, and who has the router.
Answering ==
    /\ ns.applied \in {0, 1} /\ (ns.pc = "request" => ns.applied = 0)
    /\ ns.op = "mkdir" => ns.at \in Nodes /\ (ns.result = "ok" => ns.saw = "dir")
    /\ ns.pc # "done" => (ns.lent <=> ns.pc \in {"open", "close"})
    /\ ns.pc = "done" => (ns.lent <=> ns.op = "open" /\ ns.result = "ok")

NsInv == TreeType /\ Placed /\ Removing /\ Walking /\ Locating /\ HandedOn /\ Answering

-----------------------------------------------------------------------------
CallFields == {"op", "pc", "result", "tries", "applied", "flag", "trust", "stack", "at", "dir", "seen", "visits",
               "found", "pending", "heard", "part", "started", "pairs", "handed", "lost", "lent", "saw", "topology"}
LEMMA FieldsOf == DOMAIN NoCall = CallFields
  BY DEF NoCall, CallFields

\* The tree has what a directory of it holds.
LEMMA InsideTree ==
    /\ "top" \in Inside /\ Inside \subseteq Nodes
    /\ \A n \in Nodes : Up[n] \in Inside => n \in Inside
<1>1. "top" \in Inside /\ Inside \subseteq Nodes
  BY NsAssumption DEF Inside
<1>2. ASSUME NEW n \in Nodes, Up[n] \in Inside
      PROVE n \in Inside
  <2> SUFFICES ASSUME NEW S \in SUBSET Nodes, "top" \in S, \A m \in Nodes : Up[m] \in S => m \in S
               PROVE n \in S
    BY <1>2 DEF Inside
  <2>1. Up[n] \in S
    BY <1>2 DEF Inside
  <2> QED BY <2>1
<1> QED BY <1>1, <1>2

LEMMA BelowInside == \A d \in Inside : Below(d) \subseteq Inside
  BY InsideTree DEF Below

\* No plain method has the name of a call with a protocol of its own.
LEMMA PlainMethods == \A sends \in Methods : DOMAIN sends \cap Special = {}
  BY DEF Methods, Special, Interrogation, Listings, Mutations, Attributes, Queries, Located, Xattrs, Helpers

\* A request that may be sent again changes nothing.
LEMMA NotBoth == \A request \in Requests : request.again \in BOOLEAN /\ request.changes = ~request.again
<1>1. \A names : \A r \in Reads(names) : r.again = TRUE /\ r.changes = FALSE
  BY DEF Reads
<1>2. \A names : \A r \in Changes(names) : r.again = FALSE /\ r.changes = TRUE
  BY DEF Changes
<1> QED BY <1>1, <1>2 DEF Requests, PathReads, PathChanges, AttributeRequests, QueryRequests, FattrRequests,
                          SessionRequests

LEMMA NsBegins == NsInit => NsInv
<1> SUFFICES ASSUME NsInit PROVE NsInv
  OBVIOUS
<1>1. TreeType
  BY NsAssumption DEF NsInit, TreeType, NoCall, Kinds
<1>2. ns.op = "none" /\ ns.pc = "idle" /\ ns.result = "none" /\ ns.applied = 0 /\ ns.lent = FALSE
  BY DEF NsInit, NoCall
<1>3. Placed
  BY <1>2 DEF Placed, RmPlaces, WalkPlaces, LocatePlaces
<1>4. Removing /\ Walking /\ Locating /\ HandedOn /\ Answering
  BY <1>2 DEF Removing, Walking, Locating, HandedOn, Answering
<1> QED BY <1>1, <1>3, <1>4 DEF NsInv

-----------------------------------------------------------------------------
\* What a step that leaves the tree alone has to show of its types.
LEMMA TypeKept ==
    ASSUME TreeType, Held, DOMAIN ns' = DOMAIN NoCall, ns'.flag \in BOOLEAN
    PROVE TreeType'
  BY DEF TreeType, Held, NoCall

LEMMA CallGood == NsInv /\ Call => NsInv'
<1> SUFFICES ASSUME NsInv, Call PROVE NsInv'
  OBVIOUS
<1> DEFINE fresh == ns'.result = "none" /\ ns'.applied = 0 /\ ns'.lent = FALSE /\ ns'.flag \in BOOLEAN
                    /\ DOMAIN ns' = DOMAIN NoCall
<1>0. Held /\ TreeType
  BY DEF NsInv, Call
<1>1. ASSUME NEW op, op \notin Special, ns' = [NoCall EXCEPT !.op = op, !.pc = "request"]
      PROVE NsInv'
  <2>1. fresh /\ ns'.op = op /\ ns'.pc = "request"
    BY <1>1 DEF NoCall
  <2>2. TreeType'
    BY <1>0, <2>1, TypeKept
  <2>3. Placed' /\ Answering'
    BY <1>1, <2>1 DEF Placed, Answering, RmPlaces, WalkPlaces, LocatePlaces, Special
  <2>4. (Removing /\ Walking /\ Locating /\ HandedOn)'
    BY <1>1, <2>1 DEF Removing, Walking, Locating, HandedOn, Special
  <2> QED BY <2>2, <2>3, <2>4 DEF NsInv
<1>2. ASSUME ns' = [NoCall EXCEPT !.op = "prepare", !.pc = "done", !.result = "refused"]
      PROVE NsInv'
  <2>1. /\ ns'.result = "refused" /\ ns'.applied = 0 /\ ns'.lent = FALSE /\ ns'.flag \in BOOLEAN
        /\ DOMAIN ns' = DOMAIN NoCall /\ ns'.op = "prepare" /\ ns'.pc = "done"
    BY <1>2 DEF NoCall
  <2>2. TreeType'
    BY <1>0, <2>1, TypeKept
  <2>3. Placed' /\ Answering'
    BY <1>2, <2>1 DEF Placed, Answering, RmPlaces, WalkPlaces, LocatePlaces, Special
  <2>4. (Removing /\ Walking /\ Locating /\ HandedOn)'
    BY <2>1 DEF Removing, Walking, Locating, HandedOn, Special
  <2> QED BY <2>2, <2>3, <2>4 DEF NsInv
<1>3. ASSUME NEW op \in {"rmtree", "walk", "mkdir", "touch", "open"}, NEW flag \in BOOLEAN, NEW at \in Nodes,
             op # "mkdir" => at = "top", NEW pc,
             /\ (op = "rmtree" => pc = "decide") /\ (op = "walk" => pc = "list")
             /\ (op = "mkdir" => pc = "mkdir") /\ (op \in {"touch", "open"} => pc = "lend"),
             ns' = [NoCall EXCEPT !.op = op, !.flag = flag, !.at = at, !.pc = pc]
      PROVE NsInv'
  <2>1. fresh /\ ns'.op = op /\ ns'.pc = pc /\ ns'.at = at /\ ns'.stack = << >> /\ ns'.visits = [n \in Nodes |-> 0]
        /\ ns'.trust = "unasked" /\ ns'.seen = {}
    BY <1>3 DEF NoCall
  <2>2. TreeType'
    BY <1>0, <2>1, TypeKept
  <2>3. Placed' /\ Answering'
    BY <1>3, <2>1 DEF Placed, Answering, RmPlaces, WalkPlaces, LocatePlaces, Special
  <2>4. Removing'
    <3>1. << >> \in Seq(Frames)
      OBVIOUS
    <3>2. ns'.stack \in Seq(Frames) /\ ns'.stack = << >>
      BY <2>1, <3>1
    <3>3. op = "rmtree" => ns'.pc = "decide" /\ ns'.at = "top" /\ ns'.at \in Inside
      BY <1>3, <2>1, InsideTree
    <3> QED BY <2>1, <3>2, <3>3 DEF Removing
  <2>5. Walking'
    <3> SUFFICES ASSUME op = "walk" PROVE Walking'
      BY <2>1 DEF Walking
    <3>1. fsys'.kind["top"] # "link" /\ "top" \in Nodes
      BY <2>2, NsAssumption DEF TreeType
    <3>2. \A n \in Nodes : Due(n)' = IF n = "top" THEN 1 ELSE 0
      BY <2>1, <3>1, <1>3 DEF Due, Follow
    <3>3. \A n \in Nodes : Entered(n)' = IF n = "top" THEN 1 ELSE 0
      BY <2>1 DEF Entered
    <3>4. \A n \in Nodes : ns'.visits[n] = 0
      BY <2>1
    <3>5. ns'.visits \in [Nodes -> Nat] /\ ns'.stack \in Seq(SUBSET Nodes) /\ ns'.stack \in Seq(SUBSET Inside)
      BY <2>1
    <3>6. \A n \in Nodes : (ns'.visits[n] + Due(n)') <= Entered(n)'
      BY <3>2, <3>3, <3>4
    <3> QED BY <1>3, <2>1, <3>1, <3>4, <3>5, <3>6, InsideTree DEF Walking
  <2>6. (Locating /\ HandedOn)'
    BY <1>3, <2>1 DEF Locating, HandedOn
  <2> QED BY <2>2, <2>3, <2>4, <2>5, <2>6 DEF NsInv
<1>4. ASSUME NEW topology \in Topologies,
             ns' = [NoCall EXCEPT !.op = "deep_locate", !.pc = "locate", !.at = "home", !.topology = topology]
      PROVE NsInv'
  <2>1. fresh /\ ns'.op = "deep_locate" /\ ns'.pc = "locate" /\ ns'.at = "home" /\ ns'.topology = topology
        /\ ns'.pending = << >> /\ ns'.heard = {} /\ ns'.found = << >>
    BY <1>4 DEF NoCall
  <2>2. TreeType'
    BY <1>0, <2>1, TypeKept
  <2>3. Placed' /\ Answering'
    BY <1>4, <2>1 DEF Placed, Answering, RmPlaces, WalkPlaces, LocatePlaces, Special
  <2>4. Locating'
    <3>1. << >> \in Seq(Locations') /\ DOMAIN << >> = {}
      OBVIOUS
    <3>2. ns'.pending \in Seq(Locations') /\ DOMAIN ns'.found = {}
      BY <2>1, <3>1
    <3>3. topology \in Topologies /\ "home" \in DOMAIN topology
      BY <1>4, NsAssumption
    <3> QED BY <2>1, <3>2, <3>3 DEF Locating
  <2>5. (Removing /\ Walking /\ HandedOn)'
    BY <2>1 DEF Removing, Walking, HandedOn
  <2> QED BY <2>2, <2>3, <2>4, <2>5 DEF NsInv
<1>5. ASSUME ns' = [NoCall EXCEPT !.op = "scandir_parts", !.pc = "part", !.pairs = TRUE]
      PROVE NsInv'
  <2>1. fresh /\ ns'.op = "scandir_parts" /\ ns'.pc = "part" /\ ns'.pairs = TRUE
        /\ ns'.handed = << >> /\ ns'.part = 1 /\ ns'.started = FALSE /\ ns'.lost = FALSE
    BY <1>5 DEF NoCall
  <2>2. TreeType'
    BY <1>0, <2>1, TypeKept
  <2>3. Placed' /\ Answering'
    BY <1>5, <2>1 DEF Placed, Answering, RmPlaces, WalkPlaces, LocatePlaces, Special
  <2>4. HandedOn'
    <3>1. Len(Listing) \in Nat \ {0}
      BY NsAssumption
    <3>2. Sequential(ns.handed)'
      BY <2>1 DEF Sequential
    <3> QED BY <2>1, <3>1, <3>2 DEF HandedOn
  <2>5. (Removing /\ Walking /\ Locating)'
    BY <2>1 DEF Removing, Walking, Locating
  <2> QED BY <2>2, <2>3, <2>4, <2>5 DEF NsInv
<1>6. CASE \E sends \in Methods : \E op \in DOMAIN sends : ns' = [NoCall EXCEPT !.op = op, !.pc = "request"]
  BY <1>1, <1>6, PlainMethods
<1>7. CASE \E cancel \in BOOLEAN, reqid \in {"none", "empty", "given"} :
              ns' = IF cancel /\ reqid = "given" THEN [NoCall EXCEPT !.op = "cancel_prepare", !.pc = "request"]
                    ELSE [NoCall EXCEPT !.op = "prepare", !.pc = "done", !.result = "refused"]
  <2>1. "cancel_prepare" \notin Special
    BY DEF Special
  <2> QED BY <1>1, <1>2, <1>7, <2>1
<1>8. CASE \E op \in {"rmtree", "walk", "mkdir", "touch", "open"}, flag \in BOOLEAN :
            \E at \in IF op = "mkdir" THEN {n \in Nodes \ {"top"} : Up[n] = "top"} ELSE {"top"} :
              ns' = [NoCall EXCEPT !.op = op, !.flag = flag, !.at = at,
                                   !.pc = CASE op = "rmtree" -> "decide" [] op = "walk" -> "list"
                                            [] op = "mkdir" -> "mkdir" [] OTHER -> "lend"]
  <2>1. PICK op \in {"rmtree", "walk", "mkdir", "touch", "open"}, flag \in BOOLEAN :
            \E at \in IF op = "mkdir" THEN {n \in Nodes \ {"top"} : Up[n] = "top"} ELSE {"top"} :
              ns' = [NoCall EXCEPT !.op = op, !.flag = flag, !.at = at,
                                   !.pc = CASE op = "rmtree" -> "decide" [] op = "walk" -> "list"
                                            [] op = "mkdir" -> "mkdir" [] OTHER -> "lend"]
    BY <1>8
  <2>2. PICK at \in IF op = "mkdir" THEN {n \in Nodes \ {"top"} : Up[n] = "top"} ELSE {"top"} :
              ns' = [NoCall EXCEPT !.op = op, !.flag = flag, !.at = at,
                                   !.pc = CASE op = "rmtree" -> "decide" [] op = "walk" -> "list"
                                            [] op = "mkdir" -> "mkdir" [] OTHER -> "lend"]
    BY <2>1
  <2>3. PICK pc : pc = CASE op = "rmtree" -> "decide" [] op = "walk" -> "list"
                         [] op = "mkdir" -> "mkdir" [] OTHER -> "lend"
    OBVIOUS
  <2>4. /\ (op = "rmtree" => pc = "decide") /\ (op = "walk" => pc = "list")
        /\ (op = "mkdir" => pc = "mkdir") /\ (op \in {"touch", "open"} => pc = "lend")
    BY <2>3
  <2>5. at \in Nodes /\ (op # "mkdir" => at = "top")
    BY <2>2, NsAssumption
  <2>6. ns' = [NoCall EXCEPT !.op = op, !.flag = flag, !.at = at, !.pc = pc]
    BY <2>2, <2>3
  <2> QED BY <1>3, <2>4, <2>5, <2>6
<1> QED BY <1>4, <1>5, <1>6, <1>7, <1>8 DEF Call

-----------------------------------------------------------------------------
(* rmtree.                                                                 *)

\* What no step of rmtree or walk touches.
Same(c) ==
    /\ DOMAIN c = DOMAIN NoCall
    /\ c.op = ns.op /\ c.flag = ns.flag /\ c.applied = ns.applied /\ c.lent = ns.lent

\* What a step of rmtree has to show.
LEMMA RmStep ==
    ASSUME NsInv, ns.pc \in RmPlaces, TreeType', Same(ns'), Removing',
           (ns'.pc \in RmPlaces /\ ns'.result = "none") \/ ns'.pc = "done"
    PROVE NsInv'
<1>1. ns.op = "rmtree" /\ ns'.op = "rmtree"
  BY DEF NsInv, Placed, Same
<1>2. Placed'
  BY <1>1 DEF Placed, RmPlaces, WalkPlaces, LocatePlaces
<1>3. ns'.applied \in {0, 1} /\ ~ns'.lent /\ ns'.pc \notin {"request", "open", "close"}
  BY DEF NsInv, Answering, Same, RmPlaces
<1>4. Answering'
  BY <1>1, <1>3 DEF Answering
<1>5. (Walking /\ Locating /\ HandedOn)'
  BY <1>1 DEF Walking, Locating, HandedOn
<1> QED BY <1>2, <1>4, <1>5 DEF NsInv

\* Where rmtree is, in the terms the steps need.
LEMMA RmAt ==
    ASSUME NsInv, ns.pc \in RmPlaces
    PROVE /\ TreeType /\ Removing /\ ns.op = "rmtree" /\ ns.result = "none"
          /\ ns.at \in Inside /\ ns.at \in Nodes /\ ns.stack \in Seq(Frames)
          /\ DOMAIN ns = CallFields /\ Same(ns)
<1>1. TreeType /\ Removing /\ ns.op = "rmtree" /\ ns.result = "none"
  BY DEF NsInv, Placed, RmPlaces
<1> QED BY <1>1, InsideTree, FieldsOf DEF Removing, TreeType, Same

\* _fail: goes on, or is the end.
LEMMA RmFails ==
    ASSUME NEW c, Same(c), c.result = "none"
    PROVE /\ Same(RmFailed(c)) /\ RmFailed(c).at = c.at /\ RmFailed(c).stack = c.stack
          /\ \/ c.flag /\ RmFailed(c).pc = "next" /\ RmFailed(c).result = "none"
             \/ ~c.flag /\ RmFailed(c).pc = "done" /\ RmFailed(c).result = "error"
  BY FieldsOf DEF RmFailed, Same, CallFields

\* Steps that leave the tree as it is.
LEMMA RmLooks ==
    ASSUME NsInv, ns.pc \in RmPlaces, Held, Same(ns'), ns'.stack \in Seq(Frames), ns'.at \in Inside,
           ns'.stack # << >> => ns'.stack[1].name = "top",
           \/ ns'.result = "none" /\ ns'.pc \in {"decide", "ask", "clear"}
              /\ (ns'.stack = << >> => ns'.at = "top") /\ (ns'.pc = "clear" => fsys.kind[ns'.at] # "link")
           \/ ns'.result = "none" /\ ns'.pc = "remove" /\ ns'.stack # << >>
           \/ ns'.result = "none" /\ ns'.pc = "next" /\ (ns'.flag \/ ns'.stack # << >> \/ fsys.kind["top"] = "none")
           \/ ns'.result = "error" /\ ns'.pc = "done"
    PROVE NsInv'
<1>1. TreeType /\ fsys' = fsys /\ ns.flag \in BOOLEAN
  BY RmAt DEF Held, TreeType
<1>2. TreeType'
  BY <1>1, TypeKept DEF Same
<1>3. Removing'
  BY <1>1 DEF Removing
<1> QED BY <1>2, <1>3, RmStep DEF RmPlaces

LEMMA DecideGood == NsInv /\ Decide => NsInv'
<1> SUFFICES ASSUME NsInv, Decide PROVE NsInv'
  OBVIOUS
<1>0. ns.pc = "decide" /\ ns.pc \in RmPlaces /\ Held
  BY DEF Decide, RmPlaces
<1> USE RmAt, <1>0
<1>r. (ns.stack # << >> => ns.stack[1].name = "top") /\ (ns.stack = << >> => ns.at = "top")
  BY DEF Removing
<1>1. CASE ~AtRoot /\ ~ns.dir
  <2>1. ns' = [ns EXCEPT !.pc = "remove"]
    BY <1>1 DEF Decide, Goto
  <2>2. Same(ns') /\ ns'.pc = "remove" /\ ns'.result = "none" /\ ns'.stack = ns.stack /\ ns'.at = ns.at
    BY <2>1 DEF Same, CallFields
  <2> QED BY <1>1, <1>r, <2>2, RmLooks DEF AtRoot
<1>2. CASE ~(~AtRoot /\ ~ns.dir)
  <2>1. PICK trust \in Trusts :
             LET link == Link(ns.at, trust)
                 c == [ns EXCEPT !.trust = trust]
             IN ns' = IF link = "unknown" THEN [c EXCEPT !.pc = "ask"]
                      ELSE IF link = "not" THEN [c EXCEPT !.pc = "clear"]
                      ELSE IF AtRoot THEN RmFailed(c) ELSE [c EXCEPT !.pc = "remove"]
    BY <1>2 DEF Decide
  <2> DEFINE c == [ns EXCEPT !.trust = trust]
  <2>2. Same(c) /\ c.at = ns.at /\ c.stack = ns.stack /\ c.result = "none"
    BY DEF Same, CallFields
  <2>3. ASSUME NEW pc, ns' = [c EXCEPT !.pc = pc]
        PROVE Same(ns') /\ ns'.pc = pc /\ ns'.result = "none" /\ ns'.stack = ns.stack /\ ns'.at = ns.at
    BY <2>2, <2>3, FieldsOf DEF Same, CallFields
  <2> HIDE DEF c
  <2>4. CASE Link(ns.at, trust) = "unknown"
    <3>1. ns' = [c EXCEPT !.pc = "ask"]
      BY <2>1, <2>4 DEF c
    <3> QED BY <1>r, <2>3, <3>1, RmLooks
  <2>5. CASE Link(ns.at, trust) = "not"
    <3>1. ns' = [c EXCEPT !.pc = "clear"]
      BY <2>1, <2>5 DEF c
    <3>2. fsys.kind[ns.at] # "link"
      BY <2>5 DEF Link
    <3> QED BY <1>r, <2>3, <3>1, <3>2, RmLooks
  <2>6. CASE Link(ns.at, trust) \notin {"unknown", "not"}
    <3>1. CASE AtRoot
      <4>1. ns' = RmFailed(c)
        BY <2>1, <2>6, <3>1 DEF c
      <4>2. c.flag = ns'.flag
        BY <2>2, <4>1, RmFails DEF Same
      <4> QED BY <1>r, <2>2, <4>1, <4>2, RmFails, RmLooks
    <3>2. CASE ~AtRoot
      <4>1. ns' = [c EXCEPT !.pc = "remove"]
        BY <2>1, <2>6, <3>2 DEF c
      <4> QED BY <1>r, <2>3, <3>2, <4>1, RmLooks DEF AtRoot
    <3> QED BY <3>1, <3>2
  <2> QED BY <2>4, <2>5, <2>6
<1> QED BY <1>1, <1>2

\* Something of the tree goes.
LEMMA RmTakes ==
    ASSUME NsInv, ns.pc \in RmPlaces, NEW n \in Inside, Taken(n), Same(ns'), ns'.pc = "next", ns'.result = "none",
           ns'.stack \in Seq(Frames), ns'.at \in Inside, ns'.stack # << >> => ns'.stack[1].name = "top",
           ns'.stack = << >> => n = "top"
    PROVE NsInv'
<1> USE RmAt
<1>1. /\ DOMAIN fsys' = {"kind", "to", "meddled"} /\ fsys'.to = fsys.to
      /\ fsys'.kind = [fsys.kind EXCEPT ![n] = "none"] /\ gone' = gone \cup {n} /\ server' = server
  BY DEF Taken, TreeType
<1>2. n \in Nodes /\ fsys'.kind \in [Nodes -> Kinds] /\ fsys'.kind[n] = "none" /\ fsys'.kind["top"] # "link"
  BY <1>1, InsideTree DEF TreeType, Kinds
<1>3. TreeType'
  BY <1>1, <1>2, InsideTree DEF TreeType, Same
<1>4. Removing'
  BY <1>2 DEF Removing
<1> QED BY <1>3, <1>4, RmStep DEF RmPlaces

LEMMA AskRmdirGood == NsInv /\ AskRmdir => NsInv'
<1> SUFFICES ASSUME NsInv, AskRmdir PROVE NsInv'
  OBVIOUS
<1>0. ns.pc = "ask" /\ ns.pc \in RmPlaces
  BY DEF AskRmdir, RmPlaces
<1> USE RmAt, <1>0
<1>r. (ns.stack # << >> => ns.stack[1].name = "top") /\ (ns.stack = << >> => ns.at = "top")
  BY DEF Removing
<1>1. ASSUME NEW pc, ns' = [ns EXCEPT !.pc = pc]
      PROVE Same(ns') /\ ns'.pc = pc /\ ns'.result = "none" /\ ns'.stack = ns.stack /\ ns'.at = ns.at
  BY <1>1 DEF Same, CallFields
<1>2. CASE fsys.kind[ns.at] = "dir" /\ Taken(ns.at) /\ Goto("next")
  BY <1>1, <1>2, <1>r, RmTakes DEF Goto
<1>3. CASE fsys.kind[ns.at] = "dir" /\ Goto("clear") /\ Held
  BY <1>1, <1>3, <1>r, RmLooks DEF Goto
<1>4. CASE Held /\ ns' = IF AtRoot THEN RmFailed(ns) ELSE [ns EXCEPT !.pc = "remove"]
  <2>1. CASE AtRoot
    <3>1. ns' = RmFailed(ns)
      BY <1>4, <2>1
    <3>2. ns'.flag = ns.flag
      BY <3>1, RmFails DEF Same
    <3>3. /\ Same(ns') /\ ns'.at = ns.at /\ ns'.stack = ns.stack
          /\ \/ ns.flag /\ ns'.pc = "next" /\ ns'.result = "none"
             \/ ns'.pc = "done" /\ ns'.result = "error"
      BY <3>1, RmFails
    <3> QED BY <1>4, <1>r, <3>2, <3>3, RmLooks
  <2>2. CASE ~AtRoot
    BY <1>1, <1>4, <1>r, <2>2, RmLooks DEF AtRoot
  <2> QED BY <2>1, <2>2
<1> QED BY <1>2, <1>3, <1>4 DEF AskRmdir

LEMMA RemoveEntryGood == NsInv /\ RemoveEntry => NsInv'
<1> SUFFICES ASSUME NsInv, RemoveEntry PROVE NsInv'
  OBVIOUS
<1>0. ns.pc = "remove" /\ ns.pc \in RmPlaces
  BY DEF RemoveEntry, RmPlaces
<1> USE RmAt, <1>0
<1>r. ns.stack # << >> /\ ns.stack[1].name = "top"
  BY DEF Removing
<1>1. CASE Taken(ns.at) /\ Goto("next")
  <2>1. Same(ns') /\ ns'.pc = "next" /\ ns'.result = "none" /\ ns'.stack = ns.stack /\ ns'.at = ns.at
    BY <1>1 DEF Goto, Same, CallFields
  <2> QED BY <1>1, <1>r, <2>1, RmTakes
<1>2. CASE ns' = RmFailed(ns) /\ Held
  BY <1>2, <1>r, RmFails, RmLooks
<1> QED BY <1>1, <1>2 DEF RemoveEntry

LEMMA ClearGood == NsInv /\ Clear => NsInv'
<1> SUFFICES ASSUME NsInv, Clear PROVE NsInv'
  OBVIOUS
<1>0. ns.pc = "clear" /\ ns.pc \in RmPlaces /\ Held
  BY DEF Clear, RmPlaces
<1> USE RmAt, <1>0
<1>r. (ns.stack # << >> => ns.stack[1].name = "top") /\ (ns.stack = << >> => ns.at = "top") /\ fsys.kind[ns.at] # "link"
  BY DEF Removing
<1>d. Follow(ns.at) = ns.at
  BY <1>r DEF Follow
<1>1. CASE fsys.kind[ns.at] # "dir"
  <2>1. ns' = RmFailed(ns)
    BY <1>1, <1>d DEF Clear
  <2>2. ns'.flag = ns.flag
    BY <2>1, RmFails DEF Same
  <2> QED BY <1>r, <2>1, <2>2, RmFails, RmLooks
<1>2. CASE fsys.kind[ns.at] = "dir"
  <2> DEFINE todo == {[n |-> n, dir |-> IsDir(n)] : n \in Below(ns.at)}
             frame == [name |-> ns.at, todo |-> todo]
  <2>1. ns' = [ns EXCEPT !.pc = "next", !.stack = Append(ns.stack, frame)]
    BY <1>2, <1>d DEF Clear
  <2>2. frame \in Frames /\ frame.name = ns.at
    <3>1. \A n \in Below(ns.at) : n \in Inside /\ IsDir(n) \in BOOLEAN
      BY BelowInside DEF IsDir
    <3>2. todo \subseteq [n : Inside, dir : BOOLEAN]
      BY <3>1
    <3> QED BY <3>2 DEF Frames
  <2> HIDE DEF frame
  <2>3. /\ Same(ns') /\ ns'.pc = "next" /\ ns'.result = "none" /\ ns'.at = ns.at
        /\ ns'.stack = Append(ns.stack, frame)
    BY <2>1 DEF Same, CallFields
  <2>4. ns'.stack \in Seq(Frames) /\ ns'.stack # << >> /\ ns'.stack[1].name = "top"
    <3>1. CASE ns.stack = << >>
      <4>1. ns'.stack = <<frame>>
        BY <2>3, <3>1
      <4> QED BY <1>r, <2>2, <3>1, <4>1
    <3>2. CASE ns.stack # << >>
      <4>1. Len(ns.stack) \in Nat \ {0} /\ ns'.stack[1] = ns.stack[1]
        BY <2>2, <2>3, <3>2
      <4> QED BY <1>r, <2>2, <2>3, <3>2, <4>1
    <3> QED BY <3>1, <3>2
  <2> QED BY <2>3, <2>4, RmLooks
<1> QED BY <1>1, <1>2

LEMMA NextEntryGood == NsInv /\ NextEntry => NsInv'
<1> SUFFICES ASSUME NsInv, NextEntry PROVE NsInv'
  OBVIOUS
<1>0. ns.pc = "next" /\ ns.pc \in RmPlaces
  BY DEF NextEntry, RmPlaces
<1> USE RmAt, <1>0
<1>r. (ns.stack # << >> => ns.stack[1].name = "top") /\ (ns.stack = << >> /\ ~ns.flag => fsys.kind["top"] = "none")
  BY DEF Removing
<1>1. CASE AtRoot
  <2>1. Held /\ ns' = [ns EXCEPT !.pc = "done", !.result = "ok"]
    BY <1>1 DEF NextEntry, Return
  <2>2. Same(ns') /\ ns'.pc = "done" /\ ns'.stack = << >> /\ ns'.at = ns.at /\ ns'.flag = ns.flag
    BY <1>1, <2>1 DEF Same, CallFields, AtRoot
  <2>3. TreeType' /\ fsys' = fsys
    BY <2>1, <2>2, TypeKept DEF Same, TreeType, Held
  <2>4. Removing'
    <3>1. << >> \in Seq(Frames)
      OBVIOUS
    <3> QED BY <1>1, <1>r, <2>2, <2>3, <3>1 DEF Removing, AtRoot
  <2> QED BY <2>2, <2>3, <2>4, RmStep
<1>2. CASE ~AtRoot
  <2> DEFINE frame == Last(ns.stack)
             front == Front(ns.stack)
             up == [ns EXCEPT !.stack = front]
  <2>1. /\ Len(ns.stack) \in Nat \ {0} /\ frame = ns.stack[Len(ns.stack)] /\ frame \in Frames
        /\ frame.name \in Inside /\ frame.todo \subseteq [n : Inside, dir : BOOLEAN]
    <3>1. Len(ns.stack) \in Nat \ {0}
      BY <1>2 DEF AtRoot
    <3>2. frame = ns.stack[Len(ns.stack)] /\ ns.stack[Len(ns.stack)] \in Frames
      BY <3>1 DEF Last
    <3> HIDE DEF frame
    <3>3. frame.name \in Inside /\ frame.todo \subseteq [n : Inside, dir : BOOLEAN]
      BY <3>2 DEF Frames
    <3> QED BY <3>1, <3>2, <3>3
  <2>2. /\ front \in Seq(Frames) /\ Len(front) = Len(ns.stack) - 1
        /\ \A i \in 1 .. Len(ns.stack) - 1 : front[i] = ns.stack[i]
    BY <2>1 DEF Front
  <2>3. /\ front = << >> => frame.name = "top"
        /\ front # << >> => front[1].name = "top"
    BY <1>r, <2>1, <2>2, <1>2 DEF AtRoot
  <2>4. Same(up) /\ up.stack = front /\ up.at = ns.at /\ up.result = "none" /\ up.pc = "next"
    BY DEF Same, CallFields
  <2>s. \/ \E e \in frame.todo :
             /\ ns' = [ns EXCEPT !.pc = "decide", !.at = e.n, !.dir = IF server.dstat THEN e.dir ELSE IsDir(e.n),
                                 !.stack = Append(front, [frame EXCEPT !.todo = @ \ {e}])]
             /\ Held
        \/ frame.todo = {} /\ Taken(frame.name) /\ ns' = up
        \/ ns' = RmFailed(up) /\ Held
    BY <1>2 DEF NextEntry
  <2> HIDE DEF frame, front, up
  <2>5. ASSUME NEW e \in frame.todo, Held,
               ns' = [ns EXCEPT !.pc = "decide", !.at = e.n, !.dir = IF server.dstat THEN e.dir ELSE IsDir(e.n),
                                !.stack = Append(front, [frame EXCEPT !.todo = @ \ {e}])]
        PROVE NsInv'
    <3> DEFINE less == [frame EXCEPT !.todo = @ \ {e}]
    <3>1. less \in Frames /\ less.name = frame.name
      BY <2>1 DEF Frames
    <3>2. e.n \in Inside
      BY <2>1, <2>5
    <3>3. Same(ns') /\ ns'.pc = "decide" /\ ns'.result = "none" /\ ns'.at = e.n /\ ns'.stack = Append(front, less)
      BY <2>5 DEF Same, CallFields
    <3> HIDE DEF less
    <3>4. ns'.stack \in Seq(Frames) /\ ns'.stack # << >> /\ ns'.stack[1].name = "top"
      <4>1. CASE front = << >>
        <5>1. ns'.stack = <<less>>
          BY <3>3, <4>1
        <5> QED BY <2>3, <3>1, <4>1, <5>1
      <4>2. CASE front # << >>
        <5>1. Len(front) \in Nat \ {0} /\ ns'.stack[1] = front[1]
          BY <2>2, <3>1, <3>3, <4>2
        <5> QED BY <2>2, <2>3, <3>1, <3>3, <4>2, <5>1
      <4> QED BY <4>1, <4>2
    <3> QED BY <2>5, <3>2, <3>3, <3>4, RmLooks
  <2>6. CASE Taken(frame.name) /\ ns' = up
    BY <2>1, <2>2, <2>3, <2>4, <2>6, RmTakes
  <2>7. CASE ns' = RmFailed(up) /\ Held
    <3>1. ns'.flag = ns.flag /\ up.flag = ns.flag
      BY <2>4, <2>7, RmFails DEF Same
    <3> QED BY <2>2, <2>3, <2>4, <2>7, <3>1, RmFails, RmLooks
  <2> QED BY <2>s, <2>5, <2>6, <2>7
<1> QED BY <1>1, <1>2

-----------------------------------------------------------------------------
(* walk.                                                                   *)

\* What a step of walk has to show.
LEMMA WalkStep ==
    ASSUME NsInv, ns.pc \in WalkPlaces, Held, Same(ns'), Walking',
           (ns'.pc \in WalkPlaces /\ ns'.result = "none") \/ ns'.pc = "done"
    PROVE NsInv'
<1>1. ns.op = "walk" /\ ns'.op = "walk"
  BY DEF NsInv, Placed, Same
<1>2. Placed'
  BY <1>1 DEF Placed, RmPlaces, WalkPlaces, LocatePlaces
<1>3. ns'.applied \in {0, 1} /\ ~ns'.lent /\ ns'.pc \notin {"request", "open", "close"}
  BY DEF NsInv, Answering, Same, WalkPlaces
<1>4. Answering'
  BY <1>1, <1>3 DEF Answering
<1>5. (Removing /\ Locating /\ HandedOn)'
  BY <1>1 DEF Removing, Locating, HandedOn
<1>6. TreeType'
  BY TypeKept DEF NsInv, TreeType, Same
<1> QED BY <1>2, <1>4, <1>5, <1>6 DEF NsInv

\* Where a walk is, in the terms the steps need.
LEMMA WalkAt ==
    ASSUME NsInv, ns.pc \in WalkPlaces
    PROVE /\ TreeType /\ Walking /\ ns.op = "walk" /\ ns.result = "none" /\ ns.flag \in BOOLEAN
          /\ ns.at \in Nodes /\ ns.stack \in Seq(SUBSET Nodes) /\ ns.visits \in [Nodes -> Nat]
          /\ DOMAIN ns = CallFields
          /\ server.ids => \A n \in Nodes : ns.visits[n] + Due(n) <= Entered(n)
          /\ ~ns.flag /\ ns.trust \in {"unasked", "yes"} =>
                /\ ns.at \in Inside /\ ns.stack \in Seq(SUBSET Inside)
                /\ ns.pc = "list" => fsys.kind[ns.at] # "link"
                /\ \A n \in Nodes \ Inside : ns.visits[n] = 0
<1>1. TreeType /\ Walking /\ ns.op = "walk" /\ ns.result = "none" /\ ns.flag \in BOOLEAN
  BY DEF NsInv, Placed, WalkPlaces, TreeType
<1>2. DOMAIN ns = CallFields
  BY <1>1, FieldsOf DEF TreeType
<1> QED BY <1>1, <1>2 DEF Walking

LEMMA FollowIn == TreeType => \A n \in Nodes : Follow(n) \in Nodes
  BY DEF TreeType, Follow

LEMMA WalkListGood == NsInv /\ WalkList => NsInv'
<1> SUFFICES ASSUME NsInv, WalkList PROVE NsInv'
  OBVIOUS
<1>0. ns.pc = "list" /\ ns.pc \in WalkPlaces /\ Held /\ fsys' = fsys /\ server' = server
  BY DEF WalkList, WalkPlaces, Held
<1> USE WalkAt, <1>0
<1> DEFINE d == Follow(ns.at)
<1>1. d \in Nodes
  BY FollowIn
<1>2. \A n \in Nodes : Due(n) = IF n = d THEN 1 ELSE 0
  BY DEF Due
<1>3. CASE fsys.kind[d] # "dir"
  <2>1. ns' = [ns EXCEPT !.pc = "descend"]
    BY <1>3 DEF WalkList
  <2>2. /\ Same(ns') /\ ns'.pc = "descend" /\ ns'.result = "none" /\ ns'.at = ns.at /\ ns'.stack = ns.stack
        /\ ns'.visits = ns.visits /\ ns'.seen = ns.seen /\ ns'.trust = ns.trust /\ ns'.flag = ns.flag
    BY <2>1, FieldsOf DEF Same, CallFields
  <2>3. \A n \in Nodes : Due(n)' = 0 /\ Entered(n)' = Entered(n)
    BY <2>2 DEF Due, Entered
  <2>4. server.ids => \A n \in Nodes : ns'.visits[n] + Due(n)' <= Entered(n)'
    <3> SUFFICES ASSUME server.ids, NEW n \in Nodes PROVE ns'.visits[n] + Due(n)' <= Entered(n)'
      OBVIOUS
    <3>1. ns.visits[n] \in Nat /\ Due(n) \in Nat /\ Entered(n) \in Nat /\ ns.visits[n] + Due(n) <= Entered(n)
      BY DEF Due, Entered
    <3> QED BY <2>2, <2>3, <3>1
  <2>5. Walking'
    BY <2>2, <2>4 DEF Walking
  <2> QED BY <2>2, <2>5, WalkStep DEF WalkPlaces
<1>4. CASE fsys.kind[d] = "dir"
  <2> DEFINE dirs == {n \in Below(d) : IsDir(n)}
  <2>1. ns' = [ns EXCEPT !.pc = "descend", !.visits = [ns.visits EXCEPT ![d] = @ + 1], !.stack = Append(ns.stack, dirs)]
    BY <1>4 DEF WalkList
  <2>2. dirs \in SUBSET Nodes /\ (d \in Inside => dirs \in SUBSET Inside)
    BY BelowInside DEF Below
  <2> HIDE DEF dirs
  <2>3. /\ Same(ns') /\ ns'.pc = "descend" /\ ns'.result = "none" /\ ns'.at = ns.at /\ ns'.stack = Append(ns.stack, dirs)
        /\ ns'.visits = [ns.visits EXCEPT ![d] = @ + 1] /\ ns'.seen = ns.seen /\ ns'.trust = ns.trust /\ ns'.flag = ns.flag
    BY <2>1, FieldsOf DEF Same, CallFields
  <2> HIDE DEF d
  <2>4. /\ ns'.visits \in [Nodes -> Nat] /\ ns'.visits[d] = ns.visits[d] + 1
        /\ \A n \in Nodes \ {d} : ns'.visits[n] = ns.visits[n]
    BY <1>1, <2>3
  <2>5. \A n \in Nodes : Due(n)' = 0 /\ Entered(n)' = Entered(n)
    BY <2>3 DEF Due, Entered
  <2>6. server.ids => \A n \in Nodes : ns'.visits[n] + Due(n)' <= Entered(n)'
    <3> SUFFICES ASSUME server.ids, NEW n \in Nodes PROVE ns'.visits[n] + Due(n)' <= Entered(n)'
      OBVIOUS
    <3>1. ns.visits[n] \in Nat /\ Entered(n) \in Nat /\ ns.visits[n] + Due(n) <= Entered(n)
      BY DEF Entered
    <3>2. ns'.visits[n] = ns.visits[n] + Due(n)
      <4>1. CASE n = d
        BY <1>2, <2>4, <4>1
      <4>2. CASE n # d
        <5>1. Due(n) = 0 /\ ns'.visits[n] = ns.visits[n]
          BY <1>2, <2>4, <4>2
        <5> QED BY <3>1, <5>1
      <4> QED BY <4>1, <4>2
    <3>3. Due(n) \in Nat
      BY DEF Due
    <3> QED BY <2>4, <2>5, <3>1, <3>2, <3>3
  <2>7. ns'.stack \in Seq(SUBSET Nodes)
    BY <2>2, <2>3
  <2>8. ~ns.flag /\ ns.trust \in {"unasked", "yes"} => ns'.stack \in Seq(SUBSET Inside)
                                                       /\ \A n \in Nodes \ Inside : ns'.visits[n] = 0
    <3> SUFFICES ASSUME ~ns.flag, ns.trust \in {"unasked", "yes"}
                 PROVE ns'.stack \in Seq(SUBSET Inside) /\ \A n \in Nodes \ Inside : ns'.visits[n] = 0
      OBVIOUS
    <3>1. d = ns.at /\ ns.at \in Inside /\ ns.stack \in Seq(SUBSET Inside) /\ \A n \in Nodes \ Inside : ns.visits[n] = 0
      BY DEF d, Follow
    <3> QED BY <2>2, <2>3, <2>4, <3>1
  <2>9. Walking'
    BY <2>3, <2>4, <2>6, <2>7, <2>8 DEF Walking
  <2> QED BY <2>3, <2>9, WalkStep DEF WalkPlaces
<1> QED BY <1>3, <1>4

\* A question about a link that fails is the end, with nothing done.
LEMMA LinksRaiseGood == NsInv /\ LinksRaise => NsInv'
<1> SUFFICES ASSUME NsInv, LinksRaise PROVE NsInv'
  OBVIOUS
<1>1. CASE ns.pc = "decide"
  <2>0. ns.pc \in RmPlaces /\ Held /\ ns' = [ns EXCEPT !.trust = "yes", !.pc = "done", !.result = "error"]
    BY <1>1 DEF LinksRaise, RmPlaces
  <2> USE RmAt, <2>0
  <2>1. ns.stack # << >> => ns.stack[1].name = "top"
    BY <1>1 DEF Removing
  <2>2. Same(ns') /\ ns'.pc = "done" /\ ns'.result = "error" /\ ns'.stack = ns.stack /\ ns'.at = ns.at
    BY DEF Same, CallFields
  <2> QED BY <2>1, <2>2, RmLooks
<1>2. CASE ns.pc = "descend"
  <2>0. /\ ns.pc \in WalkPlaces /\ Held /\ fsys' = fsys /\ server' = server /\ ~ns.flag
        /\ ns' = [ns EXCEPT !.trust = "yes", !.pc = "done", !.result = "error"]
        /\ ns.trust \in {"unasked", "yes"}
    BY <1>2 DEF LinksRaise, WalkPlaces, Held, Trusts
  <2> USE WalkAt, <2>0
  <2>1. /\ Same(ns') /\ ns'.pc = "done" /\ ns'.at = ns.at /\ ns'.stack = ns.stack
        /\ ns'.visits = ns.visits /\ ns'.seen = ns.seen /\ ns'.trust = "yes" /\ ns'.flag = ns.flag
    BY FieldsOf DEF Same, CallFields
  <2>2. \A n \in Nodes : Due(n) = 0 /\ Due(n)' = 0 /\ Entered(n)' = Entered(n) /\ Entered(n) \in Nat /\ ns.visits[n] \in Nat
    BY <1>2, <2>1 DEF Due, Entered
  <2>3. server.ids => \A n \in Nodes : ns'.visits[n] + Due(n)' <= Entered(n)'
    BY <2>1, <2>2
  <2>4. Walking'
    BY <2>1, <2>3 DEF Walking
  <2> QED BY <2>1, <2>4, WalkStep
<1> QED BY <1>1, <1>2 DEF LinksRaise

LEMMA DescendGood == NsInv /\ Descend => NsInv'
<1> SUFFICES ASSUME NsInv, Descend PROVE NsInv'
  OBVIOUS
<1>0. ns.pc = "descend" /\ ns.pc \in WalkPlaces /\ Held /\ fsys' = fsys /\ server' = server
  BY DEF Descend, WalkPlaces, Held
<1> USE WalkAt, <1>0
<1>d. \A n \in Nodes : ns.visits[n] \in Nat /\ Entered(n) \in Nat /\ (server.ids => ns.visits[n] <= Entered(n))
  <2> SUFFICES ASSUME NEW n \in Nodes
               PROVE ns.visits[n] \in Nat /\ Entered(n) \in Nat /\ (server.ids => ns.visits[n] <= Entered(n))
    OBVIOUS
  <2>1. Due(n) = 0 /\ Entered(n) \in Nat /\ ns.visits[n] \in Nat
    BY DEF Due, Entered
  <2> QED BY <2>1
<1>1. CASE ns.stack = << >>
  <2>1. ns' = [ns EXCEPT !.pc = "done", !.result = "ok"]
    BY <1>1 DEF Descend, Return
  <2>2. /\ Same(ns') /\ ns'.pc = "done" /\ ns'.at = ns.at /\ ns'.stack = ns.stack
        /\ ns'.visits = ns.visits /\ ns'.seen = ns.seen /\ ns'.trust = ns.trust /\ ns'.flag = ns.flag
    BY <2>1, FieldsOf DEF Same, CallFields
  <2>3. \A n \in Nodes : Due(n)' = 0 /\ Entered(n)' = Entered(n)
    BY <2>2 DEF Due, Entered
  <2>4. server.ids => \A n \in Nodes : ns'.visits[n] + Due(n)' <= Entered(n)'
    BY <1>d, <2>2, <2>3
  <2>5. Walking'
    BY <2>2, <2>4 DEF Walking
  <2> QED BY <2>2, <2>5, WalkStep
<1>2. CASE ns.stack # << >>
  <2> DEFINE last == Last(ns.stack)
             front == Front(ns.stack)
  <2>1. Len(ns.stack) \in Nat \ {0}
    BY <1>2
  <2>2. ASSUME NEW S, ns.stack \in Seq(S) PROVE last \in S /\ front \in Seq(S)
    BY <2>1, <2>2 DEF Last, Front
  <2>3. last \in SUBSET Nodes /\ front \in Seq(SUBSET Nodes)
    BY <2>2
  <2>4. ~ns.flag /\ ns.trust \in {"unasked", "yes"} => last \in SUBSET Inside /\ front \in Seq(SUBSET Inside)
    BY <2>2
  <2>s. \/ ns' = [ns EXCEPT !.stack = front]
        \/ \E n \in last, trust \in Trusts :
              LET rest == [ns EXCEPT !.stack = Append(front, last \ {n}), !.trust = IF ns.flag THEN @ ELSE trust]
              IN IF Enters(n, trust)
                 THEN ns' = [rest EXCEPT !.pc = "list", !.at = n, !.seen = IF server.ids THEN @ \cup {Follow(n)} ELSE @]
                 ELSE ns' = rest
    BY <1>2 DEF Descend
  <2> HIDE DEF last, front
  <2>5. CASE ns' = [ns EXCEPT !.stack = front]
    <3>2. /\ Same(ns') /\ ns'.pc = "descend" /\ ns'.at = ns.at /\ ns'.stack = front /\ ns'.result = "none"
          /\ ns'.visits = ns.visits /\ ns'.seen = ns.seen /\ ns'.trust = ns.trust /\ ns'.flag = ns.flag
      BY <2>5, FieldsOf DEF Same, CallFields
    <3>3. \A n \in Nodes : Due(n)' = 0 /\ Entered(n)' = Entered(n)
      BY <3>2 DEF Due, Entered
    <3>4. server.ids => \A n \in Nodes : ns'.visits[n] + Due(n)' <= Entered(n)'
      BY <1>d, <3>2, <3>3
    <3>5. Walking'
      BY <2>3, <2>4, <3>2, <3>4 DEF Walking
    <3> QED BY <3>2, <3>5, WalkStep
  <2>6. ASSUME NEW n \in last, NEW trust \in Trusts,
              LET rest == [ns EXCEPT !.stack = Append(front, last \ {n}), !.trust = IF ns.flag THEN @ ELSE trust]
              IN IF Enters(n, trust)
                 THEN ns' = [rest EXCEPT !.pc = "list", !.at = n, !.seen = IF server.ids THEN @ \cup {Follow(n)} ELSE @]
                 ELSE ns' = rest
        PROVE NsInv'
    <3> DEFINE more == Append(front, last \ {n})
               told == IF ns.flag THEN ns.trust ELSE trust
               rest == [ns EXCEPT !.stack = more, !.trust = told]
    <3>0. rest = [ns EXCEPT !.stack = Append(front, last \ {n}), !.trust = IF ns.flag THEN @ ELSE trust]
      OBVIOUS
    <3>1. n \in Nodes /\ more \in Seq(SUBSET Nodes)
      BY <2>3, <2>6
    <3>2. ~ns.flag /\ told \in {"unasked", "yes"} =>
              /\ n \in Inside /\ more \in Seq(SUBSET Inside) /\ ns.at \in Inside /\ told = "yes" /\ trust = "yes"
              /\ \A m \in Nodes \ Inside : ns.visits[m] = 0
      <4> SUFFICES ASSUME ~ns.flag, trust \in {"unasked", "yes"}
                   PROVE /\ n \in Inside /\ more \in Seq(SUBSET Inside) /\ ns.at \in Inside /\ trust = "yes"
                         /\ \A m \in Nodes \ Inside : ns.visits[m] = 0
        OBVIOUS
      <4>1. ns.trust \in {"unasked", "yes"} /\ trust = "yes"
        BY DEF Trusts
      <4> QED BY <2>4, <4>1
    <3>3. /\ DOMAIN rest = CallFields /\ Same(rest) /\ rest.pc = "descend" /\ rest.at = ns.at /\ rest.stack = more
          /\ rest.result = "none" /\ rest.visits = ns.visits /\ rest.seen = ns.seen /\ rest.trust = told
      BY FieldsOf DEF Same, CallFields
    <3> HIDE DEF more, told
    <3>4. CASE ~Enters(n, trust)
      <4>1. ns' = rest
        BY <2>6, <3>0, <3>4
      <4>2. \A m \in Nodes : Due(m)' = 0 /\ Entered(m)' = Entered(m)
        BY <3>3, <4>1 DEF Due, Entered
      <4>3. server.ids => \A m \in Nodes : ns'.visits[m] + Due(m)' <= Entered(m)'
        BY <1>d, <3>3, <4>1, <4>2
      <4>4. ns'.flag = ns.flag /\ Same(ns')
        BY <3>3, <4>1 DEF Same
      <4>5. Walking'
        BY <3>1, <3>2, <3>3, <4>1, <4>3, <4>4 DEF Walking
      <4> QED BY <3>3, <4>1, <4>4, <4>5, WalkStep
    <3>5. CASE Enters(n, trust)
      <4> DEFINE seen == IF server.ids THEN ns.seen \cup {Follow(n)} ELSE ns.seen
      <4> HIDE DEF rest
      <4>1. ns' = [rest EXCEPT !.pc = "list", !.at = n, !.seen = seen]
        <5>1. ns' = [rest EXCEPT !.pc = "list", !.at = n, !.seen = IF server.ids THEN @ \cup {Follow(n)} ELSE @]
          BY <2>6, <3>0, <3>5
        <5> QED BY <3>3, <5>1 DEF CallFields
      <4> HIDE DEF seen
      <4>2. /\ Same(ns') /\ ns'.pc = "list" /\ ns'.at = n /\ ns'.stack = more /\ ns'.result = "none"
            /\ ns'.visits = ns.visits /\ ns'.seen = seen /\ ns'.trust = told /\ ns'.flag = ns.flag
        BY <3>3, <4>1, FieldsOf DEF Same, CallFields
      <4>3. \A m \in Nodes : Due(m)' = IF m = Follow(n) THEN 1 ELSE 0
        BY <4>2 DEF Due, Follow
      <4>4. server.ids => \A m \in Nodes : Entered(m)' = Entered(m) + (IF m = Follow(n) THEN 1 ELSE 0)
        <5> SUFFICES ASSUME server.ids, NEW m \in Nodes
                     PROVE Entered(m)' = Entered(m) + (IF m = Follow(n) THEN 1 ELSE 0)
          OBVIOUS
        <5>1. Follow(n) \notin ns.seen /\ ns'.seen = ns.seen \cup {Follow(n)}
          BY <3>5, <4>2 DEF Enters, seen
        <5> QED BY <5>1 DEF Entered
      <4>5. server.ids => \A m \in Nodes : ns'.visits[m] + Due(m)' <= Entered(m)'
        BY <1>d, <4>2, <4>3, <4>4
      <4>6. ~ns.flag /\ told = "yes" => fsys.kind[n] # "link"
        BY <3>2, <3>5 DEF Enters, Link
      <4>7. Walking'
        BY <3>1, <3>2, <4>2, <4>5, <4>6 DEF Walking
      <4> QED BY <4>2, <4>7, WalkStep DEF WalkPlaces
    <3> QED BY <3>4, <3>5
  <2> QED BY <2>s, <2>5, <2>6
<1> QED BY <1>1, <1>2

-----------------------------------------------------------------------------
(* One request; deep_locate; listings in parts.                            *)

LEMMA ExecuteGood == NsInv /\ Execute => NsInv'
<1> SUFFICES ASSUME NsInv, Execute PROVE NsInv'
  OBVIOUS
<1>0. ns.pc = "request" /\ Held /\ TreeType /\ ns.op \notin Special /\ ns.result = "none" /\ ns.applied = 0 /\ ~ns.lent
  BY DEF NsInv, Placed, Answering, Execute
<1>1. DOMAIN ns = CallFields
  BY <1>0, FieldsOf DEF TreeType
<1>2. PICK sends \in Methods, request \in Requests, acted \in BOOLEAN, answered \in BOOLEAN :
         /\ ns.op \in DOMAIN sends /\ request.name = sends[ns.op]
         /\ LET now == [ns EXCEPT !.applied = @ + (IF acted /\ request.changes THEN 1 ELSE 0)]
            IN ns' = IF answered THEN [now EXCEPT !.pc = "done", !.result = IF acted THEN "ok" ELSE "error"]
                     ELSE IF request.again /\ ns.tries < NsRetries THEN [now EXCEPT !.tries = @ + 1]
                     ELSE [now EXCEPT !.pc = "done", !.result = "error"]
  BY Zenon DEF Execute
<1> DEFINE more == IF acted /\ request.changes THEN 1 ELSE 0
           now == [ns EXCEPT !.applied = more]
<1>3. /\ more \in {0, 1} /\ (request.again => more = 0)
      /\ now = [ns EXCEPT !.applied = @ + (IF acted /\ request.changes THEN 1 ELSE 0)]
  <2>1. more \in {0, 1} /\ (request.again => more = 0)
    BY NotBoth
  <2>2. ns.applied + more = more
    BY <1>0, <2>1
  <2> QED BY <1>1, <2>1, <2>2 DEF CallFields
<1>4. DOMAIN now = CallFields /\ now.applied = more /\ now.op = ns.op /\ now.pc = "request" /\ now.result = "none"
      /\ now.lent = ns.lent /\ now.flag = ns.flag
  BY <1>0, <1>1 DEF CallFields
<1> HIDE DEF now, more
<1>5. \/ \E result : ns' = [now EXCEPT !.pc = "done", !.result = result]
      \/ request.again /\ \E tries : ns' = [now EXCEPT !.tries = tries]
  <2>1. ns' = IF answered THEN [now EXCEPT !.pc = "done", !.result = IF acted THEN "ok" ELSE "error"]
              ELSE IF request.again /\ ns.tries < NsRetries THEN [now EXCEPT !.tries = @ + 1]
              ELSE [now EXCEPT !.pc = "done", !.result = "error"]
    BY <1>2, <1>3
  <2>2. CASE answered
    BY <2>1, <2>2
  <2>3. CASE ~answered /\ request.again /\ ns.tries < NsRetries
    <3>1. ns' = [now EXCEPT !.tries = now.tries + 1]
      BY <2>1, <2>3
    <3> QED BY <2>3, <3>1
  <2>4. CASE ~answered /\ ~(request.again /\ ns.tries < NsRetries)
    BY <2>1, <2>4
  <2> QED BY <2>2, <2>3, <2>4
<1>6. /\ DOMAIN ns' = CallFields /\ ns'.op = ns.op /\ ns'.applied \in {0, 1} /\ ~ns'.lent /\ ns'.flag = ns.flag
      /\ ns'.pc = "done" \/ (ns'.pc = "request" /\ ns'.result = "none" /\ ns'.applied = 0)
  <2>1. ASSUME NEW result, ns' = [now EXCEPT !.pc = "done", !.result = result]
        PROVE DOMAIN ns' = CallFields /\ ns'.op = now.op /\ ns'.applied = now.applied /\ ns'.lent = now.lent
              /\ ns'.flag = now.flag /\ ns'.pc = "done"
    BY <1>4, <2>1 DEF CallFields
  <2>2. ASSUME NEW tries, ns' = [now EXCEPT !.tries = tries]
        PROVE DOMAIN ns' = CallFields /\ ns'.op = now.op /\ ns'.applied = now.applied /\ ns'.lent = now.lent
              /\ ns'.flag = now.flag /\ ns'.pc = "request" /\ ns'.result = "none"
    BY <1>4, <2>2 DEF CallFields
  <2>3. CASE \E result : ns' = [now EXCEPT !.pc = "done", !.result = result]
    BY <1>0, <1>3, <1>4, <2>1, <2>3
  <2>4. CASE request.again /\ \E tries : ns' = [now EXCEPT !.tries = tries]
    BY <1>0, <1>3, <1>4, <2>2, <2>4
  <2> QED BY <1>5, <2>3, <2>4
<1>7. TreeType'
  BY <1>0, <1>6, TypeKept, FieldsOf DEF TreeType
<1>8. Placed'
  BY <1>0, <1>6 DEF Placed, RmPlaces, WalkPlaces, LocatePlaces, Special
<1>9. (Removing /\ Walking /\ Locating /\ HandedOn /\ Answering)'
  BY <1>0, <1>6 DEF Removing, Walking, Locating, HandedOn, Answering, Special
<1> QED BY <1>7, <1>8, <1>9 DEF NsInv

\* What a step of deep_locate has to show.
LEMMA LocateStep ==
    ASSUME NsInv, ns.pc \in LocatePlaces, Held, Same(ns'), Locating',
           (ns'.pc \in LocatePlaces /\ ns'.result = "none") \/ ns'.pc = "done"
    PROVE NsInv'
<1>1. ns.op = "deep_locate" /\ ns'.op = "deep_locate"
  BY DEF NsInv, Placed, Same
<1>2. Placed'
  BY <1>1 DEF Placed, RmPlaces, WalkPlaces, LocatePlaces
<1>3. ns'.applied \in {0, 1} /\ ~ns'.lent /\ ns'.pc \notin {"request", "open", "close"}
  BY DEF NsInv, Answering, Same, LocatePlaces
<1>4. Answering'
  BY <1>1, <1>3 DEF Answering
<1>5. (Removing /\ Walking /\ HandedOn)'
  BY <1>1 DEF Removing, Walking, HandedOn
<1>6. TreeType'
  BY TypeKept DEF NsInv, TreeType, Same
<1> QED BY <1>2, <1>4, <1>5, <1>6 DEF NsInv

\* Where deep_locate is, in the terms the steps need.
HeardOf(loc, pending, found) ==
    \/ \E i \in 1 .. Len(pending) : pending[i] = loc
    \/ loc.host \in DOMAIN found /\ found[loc.host] = "server"
LEMMA LocateAt ==
    ASSUME NsInv, ns.pc \in LocatePlaces
    PROVE /\ ns.op = "deep_locate" /\ ns.result = "none" /\ DOMAIN ns = CallFields
          /\ ns.topology \in Topologies /\ ns.at \in DOMAIN ns.topology /\ ns.pending \in Seq(Locations)
          /\ \A h \in DOMAIN ns.found : ns.found[h] \in {"manager", "server"}
          /\ \A loc \in ns.heard : loc.role = "server" => HeardOf(loc, ns.pending, ns.found)
<1>1. TreeType /\ Locating /\ ns.op = "deep_locate" /\ ns.result = "none"
  BY DEF NsInv, Placed, LocatePlaces
<1>2. DOMAIN ns = CallFields
  BY <1>1, FieldsOf DEF TreeType
<1> QED BY <1>1, <1>2 DEF Locating, HeardOf

LEMMA LocatingIs ==
    ASSUME ns'.topology \in Topologies, ns'.at \in DOMAIN ns'.topology, ns'.pending \in Seq(Locations'),
           \A h \in DOMAIN ns'.found : ns'.found[h] \in {"manager", "server"},
           \A loc \in ns'.heard : loc.role = "server" => HeardOf(loc, ns'.pending, ns'.found),
           ns'.result = "ok" => ns'.pending = << >>
    PROVE Locating'
  BY DEF Locating, HeardOf

LEMMA LocateGood == NsInv /\ Locate => NsInv'
<1> SUFFICES ASSUME NsInv, Locate PROVE NsInv'
  OBVIOUS
<1>0. ns.pc = "locate" /\ ns.pc \in LocatePlaces /\ Held
  BY DEF Locate, LocatePlaces
<1> USE LocateAt, <1>0
<1> DEFINE more == ns.topology[ns.at]
<1>1. more \in Seq(Locations)
  BY NsAssumption DEF Locations
<1>2. CASE ns' = [ns EXCEPT !.pc = "located", !.pending = ns.pending \o more,
                            !.heard = ns.heard \cup {more[i] : i \in DOMAIN more}]
  <2> HIDE DEF more
  <2>1. /\ Same(ns') /\ ns'.pc = "located" /\ ns'.result = "none" /\ ns'.topology = ns.topology /\ ns'.at = ns.at
        /\ ns'.pending = ns.pending \o more /\ ns'.found = ns.found
        /\ ns'.heard = ns.heard \cup {more[i] : i \in DOMAIN more}
    BY <1>2, FieldsOf DEF Same, CallFields
  <2>2. Locations' = Locations
    BY <2>1 DEF Locations
  <2>3. /\ ns'.pending \in Seq(Locations) /\ Len(ns'.pending) = Len(ns.pending) + Len(more)
        /\ \A i \in 1 .. Len(ns.pending) : ns'.pending[i] = ns.pending[i]
        /\ \A i \in 1 .. Len(more) : ns'.pending[Len(ns.pending) + i] = more[i]
    BY <1>1, <2>1
  <2>4. ASSUME NEW loc \in ns'.heard, loc.role = "server" PROVE HeardOf(loc, ns'.pending, ns'.found)
    <3>0. Len(ns.pending) \in Nat /\ Len(more) \in Nat /\ DOMAIN more = 1 .. Len(more)
      BY <1>1
    <3>1. CASE loc \in ns.heard
      <4>1. CASE \E i \in 1 .. Len(ns.pending) : ns.pending[i] = loc
        <5>1. PICK i \in 1 .. Len(ns.pending) : ns.pending[i] = loc
          BY <4>1
        <5>2. i \in 1 .. Len(ns'.pending) /\ ns'.pending[i] = loc
          BY <2>3, <3>0, <5>1
        <5> QED BY <5>2 DEF HeardOf
      <4>2. CASE loc.host \in DOMAIN ns.found /\ ns.found[loc.host] = "server"
        BY <2>1, <4>2 DEF HeardOf
      <4> QED BY <2>4, <3>1, <4>1, <4>2 DEF HeardOf
    <3>2. CASE loc \notin ns.heard
      <4>1. PICK i \in 1 .. Len(more) : more[i] = loc
        BY <2>1, <2>4, <3>0, <3>2
      <4>2. Len(ns.pending) + i \in 1 .. Len(ns'.pending) /\ ns'.pending[Len(ns.pending) + i] = loc
        BY <2>3, <3>0, <4>1
      <4> QED BY <4>2 DEF HeardOf
    <3> QED BY <3>1, <3>2
  <2>5. Locating'
    BY <2>1, <2>2, <2>3, <2>4, LocatingIs
  <2> QED BY <2>1, <2>5, LocateStep DEF LocatePlaces
<1>3. CASE ns' = IF ns.at = "home" THEN [ns EXCEPT !.pc = "done", !.result = "error"] ELSE [ns EXCEPT !.pc = "located"]
  <2>1. /\ Same(ns') /\ ns'.topology = ns.topology /\ ns'.at = ns.at /\ ns'.pending = ns.pending
        /\ ns'.found = ns.found /\ ns'.heard = ns.heard
        /\ (ns'.pc = "done" /\ ns'.result = "error") \/ (ns'.pc = "located" /\ ns'.result = "none")
    BY <1>3, FieldsOf DEF Same, CallFields
  <2>2. Locations' = Locations
    BY <2>1 DEF Locations
  <2>3. Locating'
    BY <2>1, <2>2, LocatingIs
  <2> QED BY <2>1, <2>3, LocateStep DEF LocatePlaces
<1> QED BY <1>2, <1>3 DEF Locate

LEMMA TakeLocationGood == NsInv /\ TakeLocation => NsInv'
<1> SUFFICES ASSUME NsInv, TakeLocation PROVE NsInv'
  OBVIOUS
<1>0. ns.pc = "located" /\ ns.pc \in LocatePlaces /\ Held
  BY DEF TakeLocation, LocatePlaces
<1> USE LocateAt, <1>0
<1>1. CASE ns.pending = << >>
  <2>1. ns' = [ns EXCEPT !.pc = "done", !.result = "ok"]
    BY <1>1 DEF TakeLocation, Return
  <2>2. /\ Same(ns') /\ ns'.topology = ns.topology /\ ns'.at = ns.at /\ ns'.pending = ns.pending
        /\ ns'.found = ns.found /\ ns'.heard = ns.heard /\ ns'.pc = "done"
    BY <2>1, FieldsOf DEF Same, CallFields
  <2>3. Locations' = Locations
    BY <2>2 DEF Locations
  <2>4. Locating'
    BY <1>1, <2>2, <2>3, LocatingIs
  <2> QED BY <2>2, <2>4, LocateStep
<1>2. CASE ns.pending # << >>
  <2> DEFINE loc == Head(ns.pending)
             rest == Tail(ns.pending)
             next == IF loc.host \notin DOMAIN ns.found /\ loc.role = "manager" THEN "locate" ELSE "located"
  <2>1. /\ Len(ns.pending) \in Nat \ {0} /\ loc = ns.pending[1] /\ loc \in Locations /\ rest \in Seq(Locations)
        /\ Len(rest) = Len(ns.pending) - 1 /\ \A i \in 1 .. Len(rest) : rest[i] = ns.pending[i + 1]
    BY <1>2
  <2>2. loc.host \in DOMAIN ns.topology /\ loc.role \in {"manager", "server"}
    BY <2>1 DEF Locations
  <2>3. PICK found : Noted(loc) = [ns EXCEPT !.found = found]
                     /\ (found = IF loc.host \in DOMAIN ns.found /\ ns.found[loc.host] # "manager" THEN ns.found
                                 ELSE SeenAs(loc))
    BY DEF Noted, CallFields
  <2>4. ns' = [[ns EXCEPT !.found = found] EXCEPT !.pending = Tail(@), !.at = loc.host, !.pc = next]
    BY <1>2, <2>3 DEF TakeLocation
  <2>n. next \in LocatePlaces
    BY DEF LocatePlaces
  <2> HIDE DEF loc, next
  <2>5. /\ Same(ns') /\ ns'.topology = ns.topology /\ ns'.at = loc.host /\ ns'.pending = rest /\ ns'.found = found
        /\ ns'.heard = ns.heard /\ ns'.pc = next /\ ns'.result = "none"
    BY <2>4, FieldsOf DEF Same, CallFields
  <2> HIDE DEF rest
  <2>6. Locations' = Locations
    BY <2>5 DEF Locations
  <2>7. /\ DOMAIN ns.found \subseteq DOMAIN found /\ loc.host \in DOMAIN found
        /\ \A h \in DOMAIN found : found[h] \in {"manager", "server"}
        /\ loc.role = "server" => found[loc.host] = "server"
        /\ \A h \in DOMAIN ns.found : ns.found[h] = "server" => found[h] = "server"
    <3>1. CASE loc.host \in DOMAIN ns.found /\ ns.found[loc.host] # "manager"
      BY <2>3, <3>1
    <3>2. CASE ~(loc.host \in DOMAIN ns.found /\ ns.found[loc.host] # "manager")
      <4>1. found = [h \in DOMAIN ns.found \cup {loc.host} |-> IF h = loc.host THEN loc.role ELSE ns.found[h]]
        BY <2>3, <3>2 DEF SeenAs
      <4> QED BY <2>2, <3>2, <4>1
    <3> QED BY <3>1, <3>2
  <2>8. ASSUME NEW l \in ns'.heard, l.role = "server" PROVE HeardOf(l, ns'.pending, ns'.found)
    <3>1. CASE l = loc
      BY <2>5, <2>7, <2>8, <3>1 DEF HeardOf
    <3>2. CASE l # loc /\ \E i \in 1 .. Len(ns.pending) : ns.pending[i] = l
      <4>1. PICK i \in 1 .. Len(ns.pending) : ns.pending[i] = l
        BY <3>2
      <4>2. i # 1
        BY <2>1, <3>2, <4>1
      <4>3. i - 1 \in 1 .. Len(rest) /\ rest[i - 1] = l
        BY <2>1, <4>1, <4>2
      <4> QED BY <2>5, <4>3 DEF HeardOf
    <3>3. CASE l.host \in DOMAIN ns.found /\ ns.found[l.host] = "server"
      BY <2>5, <2>7, <3>3 DEF HeardOf
    <3> QED BY <2>5, <2>8, <3>1, <3>2, <3>3 DEF HeardOf
  <2>9. Locating'
    BY <2>1, <2>2, <2>5, <2>6, <2>7, <2>8, LocatingIs
  <2> QED BY <2>5, <2>9, <2>n, LocateStep
<1> QED BY <1>1, <1>2

\* What a part of a listing is read as.
LEMMA ParsedIsSeq ==
    ASSUME NEW S, NEW lines \in Seq(S), NEW pairs
    PROVE Parsed(lines, pairs) \in Seq(S)
<1>1. CASE ~pairs \/ lines = << >> \/ Head(lines) # "."
  BY <1>1 DEF Parsed
<1>2. CASE ~(~pairs \/ lines = << >> \/ Head(lines) # ".")
  <2> DEFINE n == Len(lines) \div 2
             names == [i \in 1 .. n |-> lines[2 * i - 1]]
             dots == {i \in DOMAIN names : names[i] = "."}
  <2>1. n \in Nat /\ 2 * n <= Len(lines)
    OBVIOUS
  <2>2. names \in Seq(S) /\ Len(names) = n
    <3>1. \A i \in 1 .. n : lines[2 * i - 1] \in S
      BY <2>1
    <3> QED BY <2>1, <3>1
  <2>3. Cardinality(dots) \in Nat
    <3>1. IsFiniteSet(1 .. n)
      BY <2>1, FS_Interval
    <3>2. dots \subseteq 1 .. n
      BY <2>2
    <3> QED BY <3>1, <3>2, FS_Subset, FS_CardinalityType
  <2> HIDE DEF names, dots
  <2>4. SubSeq(names, Cardinality(dots) + 1, Len(names)) \in Seq(S)
    BY <2>1, <2>2, <2>3
  <2>5. Parsed(lines, pairs) = SubSeq(names, Cardinality(dots) + 1, Len(names))
    BY <1>2 DEF Parsed, names, dots
  <2> QED BY <2>4, <2>5
<1> QED BY <1>1, <1>2

LEMMA Joined2 ==
    ASSUME NEW S, NEW a \in S, NEW b \in S, NEW c \in S, NEW d \in S
    PROVE LET s == <<a, b>> \o <<c, d>>
          IN s \in Seq(S) /\ Len(s) = 4 /\ s[1] = a /\ s[3] = c /\ Head(s) = a
<1> DEFINE u == <<a, b>>
           v == <<c, d>>
           s == u \o v
<1>1. u \in Seq(S) /\ Len(u) = 2 /\ u[1] = a
  OBVIOUS
<1>2. v \in Seq(S) /\ Len(v) = 2 /\ v[1] = c
  OBVIOUS
<1> HIDE DEF u, v
<1>3. s \in Seq(S) /\ Len(s) = 4 /\ s[1] = a /\ s[3] = c
  <2>1. s \in Seq(S) /\ Len(s) = Len(u) + Len(v)
    BY <1>1, <1>2, ConcatProperties
  <2>2. 1 <= Len(u) /\ ~(3 <= Len(u)) /\ 3 - Len(u) = 1 /\ Len(u) + Len(v) = 4
    BY <1>1, <1>2
  <2>3. 1 \in 1 .. Len(u) + Len(v) /\ 3 \in 1 .. Len(u) + Len(v)
    BY <2>2
  <2>4. s[1] = u[1] /\ s[3] = v[1]
    BY <1>1, <1>2, <2>2, <2>3, ConcatProperties
  <2> QED BY <1>1, <1>2, <2>1, <2>2, <2>4
<1>4. Head(s) = s[1]
  BY <1>3
<1> QED BY <1>3, <1>4 DEF u, v

LEMMA PairIsName ==
    ASSUME NEW S, NEW lines \in Seq(S), Len(lines) = 4, lines[1] = ".", lines[3] # "."
    PROVE Parsed(lines, TRUE) = <<lines[3]>>
<1> DEFINE names == [i \in 1 .. Len(lines) \div 2 |-> lines[2 * i - 1]]
           dots == {i \in DOMAIN names : names[i] = "."}
           name == lines[3]
<1>1. Len(lines) \div 2 = 2
  OBVIOUS
<1>2. names \in Seq(S) /\ Len(names) = 2 /\ names[1] = "." /\ names[2] = name
  <2>1. 2 * 1 - 1 = 1 /\ 2 * 2 - 1 = 3 /\ 1 \in 1 .. 2 /\ 2 \in 1 .. 2
    OBVIOUS
  <2>2. names = [i \in 1 .. 2 |-> lines[2 * i - 1]]
    BY <1>1
  <2>3. \A i \in 1 .. 2 : lines[2 * i - 1] \in S
    <3>1. \A i \in 1 .. 2 : 2 * i - 1 \in 1 .. Len(lines)
      OBVIOUS
    <3>2. \A k \in 1 .. Len(lines) : lines[k] \in S
      OBVIOUS
    <3> QED BY <3>1, <3>2
  <2>4. names[1] = "." /\ names[2] = name
    BY <2>1, <2>2
  <2> HIDE DEF names
  <2>5. names \in Seq(S) /\ Len(names) = 2
    BY <2>2, <2>3
  <2> QED BY <2>4, <2>5
<1>3. dots = {1}
  BY <1>2
<1>4. Cardinality(dots) = 1
  BY <1>3, FS_Singleton
<1>5. lines # << >> /\ Head(lines) = "."
  OBVIOUS
<1>6. Parsed(lines, TRUE) = SubSeq(names, Cardinality(dots) + 1, Len(names))
  BY <1>5 DEF Parsed
<1> HIDE DEF names, dots
<1>7. SubSeq(names, 2, 2) \in Seq(S) /\ Len(SubSeq(names, 2, 2)) = 1 /\ SubSeq(names, 2, 2)[1] = name
  BY <1>2, SubSeqProperties
<1>8. <<name>> \in Seq(S) /\ Len(<<name>>) = 1 /\ <<name>>[1] = name
  <2>1. name \in S
    BY <1>2
  <2> QED BY <2>1
<1>9. SubSeq(names, 2, 2) = <<name>>
  <2>1. \A i \in 1 .. Len(SubSeq(names, 2, 2)) : SubSeq(names, 2, 2)[i] = <<name>>[i]
    BY <1>7, <1>8
  <2> QED BY <2>1, <1>7, <1>8, SeqEqual
<1>a. Cardinality(dots) + 1 = 2
  BY <1>4
<1> QED BY <1>2, <1>6, <1>9, <1>a

LEMMA PartRead ==
    ASSUME NEW i \in 1 .. Len(Listing), ~ns.started => i = 1 /\ ns.pairs,
           ns.started => i # 1 /\ (ns.pairs <=> server.dstat), server.dstat \in BOOLEAN
    PROVE Parsed(Batch(Part(i)).lines, Batch(Part(i)).pairs) = <<Listing[i]>> /\ (Batch(Part(i)).pairs <=> server.dstat)
<1>1. Listing[i] # "." /\ Listing[i] \in STRING
  BY NsAssumption
<1> DEFINE name == Listing[i]
           S == {".", "stat", name}
<1>2. CASE ~server.dstat
  <2>1. Part(i) = <<Listing[i]>>
    BY <1>2, <1>1 DEF Part, Dot, Lines
  <2>2. Head(Part(i)) # "."
    BY <1>1, <2>1
  <2>3. Batch(Part(i)).lines = <<Listing[i]>> /\ ~Batch(Part(i)).pairs
    BY <1>2, <2>1, <2>2 DEF Batch
  <2> QED BY <1>2, <2>3 DEF Parsed
<1>3. CASE server.dstat /\ i = 1
  <2>1. Part(i) = <<".", "stat">> \o <<name, "stat">>
    BY <1>3, <1>1 DEF Part, Dot, Lines
  <2>2. Part(i) \in Seq(S) /\ Len(Part(i)) = 4 /\ Part(i)[1] = "." /\ Part(i)[3] = name /\ Head(Part(i)) = "."
    BY <2>1, Joined2
  <2>3. Batch(Part(i)).lines = Part(i) /\ Batch(Part(i)).pairs = TRUE
    BY <1>3, <2>2 DEF Batch
  <2> QED BY <1>1, <1>3, <2>2, <2>3, PairIsName
<1>4. CASE server.dstat /\ i # 1
  <2>1. Part(i) = <<name, "stat">>
    BY <1>4, <1>1 DEF Part, Dot, Lines
  <2> DEFINE lines == <<".", ".">> \o Part(i)
  <2>2. lines \in Seq(S) /\ Len(lines) = 4 /\ lines[1] = "." /\ lines[3] = name
    BY <2>1, Joined2
  <2>3. Batch(Part(i)).lines = lines /\ Batch(Part(i)).pairs = TRUE
    BY <1>4 DEF Batch
  <2> QED BY <1>1, <1>4, <2>2, <2>3, PairIsName
<1> QED BY <1>2, <1>3, <1>4

\* What a step of a listing in parts has to show.
LEMMA PartStep ==
    ASSUME NsInv, ns.pc = "part", Held, Same(ns'), HandedOn',
           (ns'.pc = "part" /\ ns'.result = "none") \/ ns'.pc = "done"
    PROVE NsInv'
<1>1. ns.op = "scandir_parts" /\ ns'.op = "scandir_parts"
  BY DEF NsInv, Placed, Same
<1>2. Placed'
  BY <1>1 DEF Placed, RmPlaces, WalkPlaces, LocatePlaces
<1>3. ns'.applied \in {0, 1} /\ ~ns'.lent /\ ns'.pc \notin {"request", "open", "close"}
  BY DEF NsInv, Answering, Same
<1>4. Answering'
  BY <1>1, <1>3 DEF Answering
<1>5. (Removing /\ Walking /\ Locating)'
  BY <1>1 DEF Removing, Walking, Locating
<1>6. TreeType'
  BY TypeKept DEF NsInv, TreeType, Same
<1> QED BY <1>2, <1>4, <1>5, <1>6 DEF NsInv

LEMMA TakePartGood == NsInv /\ TakePart => NsInv'
<1> SUFFICES ASSUME NsInv, TakePart PROVE NsInv'
  OBVIOUS
<1>0. /\ ns.pc = "part" /\ Held /\ TreeType /\ HandedOn /\ ns.op = "scandir_parts" /\ ns.result = "none"
      /\ server' = server /\ server.dstat \in BOOLEAN
  BY DEF NsInv, Placed, TakePart, Held, TreeType
<1>1. DOMAIN ns = CallFields
  BY <1>0, FieldsOf DEF TreeType
<1>2. /\ Sequential(ns.handed) /\ ns.part \in 1 .. Len(Listing)
      /\ ~ns.started => ns.handed = << >> /\ ns.part = 1 /\ ns.pairs
      /\ ns.started => ns.handed # << >> /\ (ns.pairs <=> server.dstat)
      /\ ~ns.lost => /\ ns.started <=> ns.part # 1
                     /\ Len(ns.handed) = ns.part - 1
                     /\ \A i \in 1 .. ns.part - 1 : ns.handed[i] = Listing[i]
  <2>1. Len(Listing) \in Nat
    BY NsAssumption
  <2> QED BY <1>0, <2>1 DEF HandedOn
<1>3. CASE ns' = IF ns.tries < NsRetries THEN [ns EXCEPT !.tries = @ + 1, !.part = 1, !.lost = ns.handed # << >>]
                 ELSE [ns EXCEPT !.pc = "done", !.result = "error"]
  <2>1. CASE ns.tries < NsRetries
    <3>1. /\ Same(ns') /\ ns'.pc = "part" /\ ns'.result = "none" /\ ns'.part = 1 /\ (ns'.lost <=> ns.handed # << >>)
          /\ ns'.handed = ns.handed /\ ns'.started = ns.started /\ ns'.pairs = ns.pairs
      BY <1>0, <1>1, <1>3, <2>1, FieldsOf DEF Same, CallFields
    <3>2. Sequential(ns.handed)'
      BY <1>2, <3>1 DEF Sequential
    <3>3. Len(Listing) \in Nat \ {0}
      BY <1>2, NsAssumption
    <3>4. ~ns'.lost => ns.handed = << >> /\ ~ns.started /\ Len(ns.handed) = 0
      <4>1. Len(<< >>) = 0
        OBVIOUS
      <4> QED BY <1>2, <3>1, <4>1
    <3>5. HandedOn'
      BY <1>0, <1>2, <3>1, <3>2, <3>3, <3>4 DEF HandedOn
    <3> QED BY <1>0, <3>1, <3>5, PartStep
  <2>2. CASE ~(ns.tries < NsRetries)
    <3>1. /\ Same(ns') /\ ns'.pc = "done" /\ ns'.result = "error" /\ ns'.part = ns.part /\ ns'.lost = ns.lost
          /\ ns'.handed = ns.handed /\ ns'.started = ns.started /\ ns'.pairs = ns.pairs
      BY <1>0, <1>1, <1>3, <2>2, FieldsOf DEF Same, CallFields
    <3>2. Sequential(ns.handed)'
      BY <1>2, <3>1 DEF Sequential
    <3>5. HandedOn'
      BY <1>0, <1>2, <3>1, <3>2 DEF HandedOn
    <3> QED BY <1>0, <3>1, <3>5, PartStep
  <2> QED BY <2>1, <2>2
<1>4. CASE LET batch == Batch(Part(ns.part))
           IN ns' = [ns EXCEPT !.started = TRUE, !.pairs = batch.pairs,
                              !.handed = @ \o Parsed(batch.lines, batch.pairs),
                              !.part = @ + 1, !.pc = IF ns.part = Len(Listing) THEN "done" ELSE "part",
                              !.result = IF ns.part = Len(Listing) THEN "ok" ELSE @]
  <2> DEFINE batch == Batch(Part(ns.part))
             more == Parsed(batch.lines, batch.pairs)
             last == ns.part = Len(Listing)
  <2>1. /\ Same(ns') /\ ns'.started = TRUE /\ ns'.pairs = batch.pairs /\ ns'.handed = ns.handed \o more
        /\ ns'.part = ns.part + 1 /\ ns'.lost = ns.lost
        /\ ns'.pc = (IF last THEN "done" ELSE "part") /\ ns'.result = (IF last THEN "ok" ELSE "none")
    BY <1>0, <1>1, <1>4, FieldsOf DEF Same, CallFields
  <2>2. \E S : ns.handed \in Seq(S) /\ more \in Seq(S)
    <3>1. PICK T : ns.handed \in Seq(T)
      BY <1>2 DEF Sequential
    <3> DEFINE S == T \cup {"stat", ".", Listing[ns.part]}
    <3>3. "stat" \in S /\ "." \in S /\ Listing[ns.part] \in S
      OBVIOUS
    <3> HIDE DEF S
    <3>4. Lines(ns.part) \in Seq(S) /\ Dot \in Seq(S)
      BY <3>3 DEF Lines, Dot
    <3>5. Part(ns.part) \in Seq(S)
      <4>1. << >> \in Seq(S)
        OBVIOUS
      <4> QED BY <3>4, <4>1 DEF Part
    <3>6. batch.lines \in Seq(S)
      <4>1. <<".", ".">> \in Seq(S)
        BY <3>3
      <4>2. <<".", ".">> \o Part(ns.part) \in Seq(S)
        BY <3>5, <4>1, ConcatProperties
      <4> QED BY <3>5, <4>2 DEF Batch
    <3>7. more \in Seq(S)
      BY <3>6, ParsedIsSeq
    <3>8. ns.handed \in Seq(S)
      BY <3>1 DEF S
    <3> QED BY <3>7, <3>8
  <2>3. PICK S : ns.handed \in Seq(S) /\ more \in Seq(S)
    BY <2>2
  <2>4. ~ns.started \/ ns.part # 1 => more = <<Listing[ns.part]>> /\ (batch.pairs <=> server.dstat)
    BY <1>0, <1>2, PartRead
  <2>5. batch.pairs <=> server.dstat
    <3>1. ns.started => (batch.pairs = ns.pairs)
      BY DEF Batch
    <3> QED BY <1>2, <2>4, <3>1
  <2> HIDE DEF batch, more, last
  <2>6. Sequential(ns.handed)'
    BY <2>1, <2>3, ConcatProperties DEF Sequential
  <2>7. ns'.handed # << >>
    <3>0. Len(ns'.handed) = Len(ns.handed) + Len(more) /\ Len(ns.handed) \in Nat /\ Len(more) \in Nat
      BY <2>1, <2>3, ConcatProperties
    <3>1. CASE ns.started
      <4>1. Len(ns.handed) # 0
        BY <1>2, <2>3, <3>1, EmptySeq
      <4> QED BY <3>0, <4>1
    <3>2. CASE ~ns.started
      <4>1. Len(more) = 1
        BY <2>4, <3>2
      <4> QED BY <3>0, <4>1
    <3> QED BY <3>1, <3>2
  <2>8. ASSUME ~ns.lost
        PROVE Len(ns'.handed) = ns'.part - 1 /\ \A i \in 1 .. ns'.part - 1 : ns'.handed[i] = Listing[i]
    <3>1. more = <<Listing[ns.part]>> /\ Len(more) = 1 /\ more[1] = Listing[ns.part]
      BY <1>2, <2>4, <2>8
    <3>2. /\ Len(ns'.handed) = Len(ns.handed) + 1
          /\ \A i \in 1 .. Len(ns.handed) + 1 :
                 ns'.handed[i] = IF i <= Len(ns.handed) THEN ns.handed[i] ELSE more[i - Len(ns.handed)]
      BY <2>1, <2>3, <3>1, ConcatProperties
    <3>3. Len(ns.handed) = ns.part - 1 /\ ns.part \in Nat
      BY <1>2, <2>8
    <3>4. Len(ns'.handed) = ns'.part - 1
      BY <2>1, <3>2, <3>3
    <3>5. ASSUME NEW i \in 1 .. ns'.part - 1 PROVE ns'.handed[i] = Listing[i]
      <4>1. i \in 1 .. Len(ns.handed) + 1
        BY <2>1, <3>3
      <4>2. CASE i <= Len(ns.handed)
        <5>1. i \in 1 .. ns.part - 1
          BY <3>3, <4>1, <4>2
        <5>2. ns'.handed[i] = ns.handed[i]
          BY <3>2, <4>1, <4>2
        <5>3. ns.handed[i] = Listing[i]
          BY <1>2, <2>8, <5>1
        <5> QED BY <5>2, <5>3
      <4>3. CASE ~(i <= Len(ns.handed))
        <5>1. i = ns.part /\ i - Len(ns.handed) = 1
          BY <3>3, <4>1, <4>3
        <5> QED BY <3>1, <3>2, <4>1, <4>3, <5>1
      <4> QED BY <4>2, <4>3
    <3> QED BY <3>4, <3>5
  <2>9. Len(Listing) \in Nat /\ ns.part \in Nat \ {0} /\ ns.part <= Len(Listing) /\ (last <=> ns.part = Len(Listing))
    BY <1>2, NsAssumption DEF last
  <2>a. /\ ns'.part \in Nat \ {0} /\ ns'.part # 1
        /\ (ns'.pc = "part" => ns'.part <= Len(Listing)) /\ (ns'.result = "ok" => ns'.part = Len(Listing) + 1)
    BY <2>1, <2>9
  <2>b. HandedOn'
    BY <1>0, <2>1, <2>5, <2>6, <2>7, <2>8, <2>a DEF HandedOn
  <2> QED BY <1>0, <2>1, <2>b, PartStep
<1> QED BY <1>3, <1>4 DEF TakePart

-----------------------------------------------------------------------------
(* mkdir, touch and open; another program.                                 *)

\* Steps of a call that has none of the long protocols.
LEMMA ShortStep ==
    ASSUME NsInv, TreeType', ns.op \in {"mkdir", "touch", "open"}, ns'.op = ns.op, Placed', Answering'
    PROVE NsInv'
  BY DEF NsInv, Removing, Walking, Locating, HandedOn

LEMMA MkdirGood == NsInv /\ (Mkdir \/ IsDirAfterwards) => NsInv'
<1> SUFFICES ASSUME NsInv, Mkdir \/ IsDirAfterwards PROVE NsInv'
  OBVIOUS
<1>0. /\ ns.pc \in {"mkdir", "isdir"} /\ ns.op = "mkdir" /\ TreeType /\ ns.at \in Nodes /\ ns.applied \in {0, 1}
      /\ ~ns.lent /\ ns.result = "none"
  BY DEF NsInv, Placed, Answering, Mkdir, IsDirAfterwards
<1>1. DOMAIN ns = CallFields
  BY <1>0, FieldsOf DEF TreeType
<1>2. ASSUME Held \/ (fsys' = [fsys EXCEPT !.kind[ns.at] = "dir"] /\ server' = server /\ gone' = gone),
             Same(ns'), ns'.at = ns.at,
             \/ ns'.pc = "isdir" /\ ns'.result = "none"
             \/ ns'.pc = "done" /\ (ns'.result = "ok" => ns'.saw = "dir")
      PROVE NsInv'
  <2>1. ns'.flag \in BOOLEAN /\ DOMAIN ns' = DOMAIN NoCall /\ ns'.op = "mkdir" /\ ns'.applied = ns.applied /\ ~ns'.lent
    BY <1>0, <1>2 DEF Same, TreeType
  <2>2. TreeType'
    <3>1. CASE Held
      BY <1>0, <2>1, <3>1, TypeKept
    <3>2. CASE fsys' = [fsys EXCEPT !.kind[ns.at] = "dir"] /\ server' = server /\ gone' = gone
      <4>1. /\ DOMAIN fsys' = {"kind", "to", "meddled"} /\ fsys'.to = fsys.to
            /\ fsys'.kind = [fsys.kind EXCEPT ![ns.at] = "dir"]
        BY <1>0, <3>2 DEF TreeType
      <4>2. fsys'.kind \in [Nodes -> Kinds] /\ fsys'.kind["top"] # "link"
        BY <1>0, <4>1, NsAssumption DEF TreeType, Kinds
      <4> QED BY <1>0, <2>1, <3>2, <4>1, <4>2 DEF TreeType, NoCall
    <3> QED BY <1>2, <3>1, <3>2
  <2>3. Placed'
    BY <1>2, <2>1 DEF Placed, RmPlaces, WalkPlaces, LocatePlaces
  <2>4. Answering'
    BY <1>0, <1>2, <2>1 DEF Answering
  <2> QED BY <1>0, <2>1, <2>2, <2>3, <2>4, ShortStep
<1>3. ASSUME NEW pc, NEW result, NEW saw,
             ns' = [ns EXCEPT !.pc = pc, !.result = result, !.saw = saw]
      PROVE Same(ns') /\ ns'.at = ns.at /\ ns'.pc = pc /\ ns'.result = result /\ ns'.saw = saw
  BY <1>1, <1>3, FieldsOf DEF Same, CallFields
<1>4. ASSUME NEW result, ns' = [ns EXCEPT !.pc = "done", !.result = result]
      PROVE Same(ns') /\ ns'.at = ns.at /\ ns'.pc = "done" /\ ns'.result = result
  BY <1>1, <1>4, FieldsOf DEF Same, CallFields
<1>5. ASSUME ns' = [ns EXCEPT !.pc = "isdir"]
      PROVE Same(ns') /\ ns'.at = ns.at /\ ns'.pc = "isdir" /\ ns'.result = "none"
  BY <1>0, <1>1, <1>5, FieldsOf DEF Same, CallFields
<1>6. CASE Mkdir
  <2>1. CASE /\ fsys' = [fsys EXCEPT !.kind[ns.at] = "dir"] /\ UNCHANGED <<server, gone>>
             /\ ns' = [ns EXCEPT !.pc = "done", !.result = "ok", !.saw = "dir"]
    BY <1>2, <1>3, <2>1
  <2>2. CASE Held /\ (Goto("isdir") \/ Return("error"))
    BY <1>2, <1>4, <1>5, <2>2 DEF Goto, Return
  <2> QED BY <1>6, <2>1, <2>2 DEF Mkdir
<1>7. CASE IsDirAfterwards
  <2>1. CASE Held /\ ns' = [ns EXCEPT !.pc = "done", !.saw = fsys.kind[Follow(ns.at)],
                                      !.result = IF IsDir(ns.at) THEN "ok" ELSE "error"]
    <3> DEFINE saw == fsys.kind[Follow(ns.at)]
               result == IF IsDir(ns.at) THEN "ok" ELSE "error"
    <3>1. result = "ok" => saw = "dir"
      BY DEF IsDir
    <3> HIDE DEF saw, result
    <3>2. ns' = [ns EXCEPT !.pc = "done", !.saw = saw, !.result = result]
      BY <2>1 DEF saw, result
    <3>3. Same(ns') /\ ns'.at = ns.at /\ ns'.pc = "done" /\ ns'.result = result /\ ns'.saw = saw
      BY <1>1, <3>2, FieldsOf DEF Same, CallFields
    <3> QED BY <1>2, <2>1, <3>1, <3>3
  <2>2. CASE Held /\ Return("error")
    BY <1>2, <1>4, <2>2 DEF Return
  <2> QED BY <1>7, <2>1, <2>2 DEF IsDirAfterwards
<1> QED BY <1>6, <1>7

LEMMA TouchGood == NsInv /\ (Lend \/ OpenIt \/ CloseTouched) => NsInv'
<1> SUFFICES ASSUME NsInv, Lend \/ OpenIt \/ CloseTouched PROVE NsInv'
  OBVIOUS
<1>0. /\ ns.pc \in {"lend", "open", "close"} /\ ns.op \in {"touch", "open"} /\ (ns.pc = "close" => ns.op = "touch")
      /\ TreeType /\ Held /\ ns.applied \in {0, 1} /\ (ns.lent <=> ns.pc # "lend") /\ (ns.pc # "close" => ns.result = "none")
  BY DEF NsInv, Placed, Answering, Lend, OpenIt, CloseTouched
<1>1. DOMAIN ns = CallFields
  BY <1>0, FieldsOf DEF TreeType
<1> DEFINE like == DOMAIN ns' = CallFields /\ ns'.op = ns.op /\ ns'.applied = ns.applied /\ ns'.flag = ns.flag
<1>2. ASSUME like,
             \/ ns'.pc = "open" /\ ns'.lent /\ ns'.result = "none"
             \/ ns'.pc = "close" /\ ns'.lent /\ ns.op = "touch"
             \/ ns'.pc = "done" /\ (ns'.lent <=> ns.op = "open" /\ ns'.result = "ok")
      PROVE NsInv'
  <2>1. TreeType'
    BY <1>0, <1>2, FieldsOf, TypeKept DEF TreeType
  <2>2. Placed'
    BY <1>0, <1>2 DEF Placed, RmPlaces, WalkPlaces, LocatePlaces
  <2>3. Answering'
    BY <1>0, <1>2 DEF Answering
  <2> QED BY <1>0, <1>2, <2>1, <2>2, <2>3, ShortStep
<1>3. ASSUME NEW result, result # "ok" \/ ns.op = "touch", ns' = NotOpened(result) PROVE NsInv'
  <2>1. like /\ ns'.pc = "done" /\ ns'.result = result /\ ns'.lent = FALSE
    BY <1>1, <1>3 DEF NotOpened, CallFields
  <2> QED BY <1>0, <1>2, <1>3, <2>1
<1>4. CASE Lend
  <2>1. like /\ ns'.pc = "open" /\ ns'.lent = TRUE /\ ns'.result = "none"
    BY <1>0, <1>1, <1>4 DEF Lend, CallFields
  <2> QED BY <1>2, <2>1
<1>5. CASE OpenIt
  <2>1. CASE ns' = NotOpened(IF ns.op = "touch" /\ ns.flag THEN "ok" ELSE "error")
    BY <1>3, <2>1
  <2>2. CASE ns' = [ns EXCEPT !.pc = IF ns.op = "touch" THEN "close" ELSE "done", !.result = "ok"]
    <3>1. like /\ ns'.pc = (IF ns.op = "touch" THEN "close" ELSE "done") /\ ns'.result = "ok" /\ ns'.lent = ns.lent
      BY <1>1, <2>2 DEF CallFields
    <3>2. ns.pc = "open"
      BY <1>5 DEF OpenIt
    <3> QED BY <1>0, <1>2, <3>1, <3>2
  <2> QED BY <1>3, <1>5, <2>1, <2>2 DEF OpenIt
<1>6. CASE CloseTouched
  <2>1. ns.op = "touch"
    BY <1>0, <1>6 DEF CloseTouched
  <2> QED BY <1>3, <1>6, <2>1 DEF CloseTouched
<1> QED BY <1>4, <1>5, <1>6

LEMMA MeddleGood == NsInv /\ Meddle => NsInv'
<1> SUFFICES ASSUME NsInv, Meddle PROVE NsInv'
  OBVIOUS
<1>0. TreeType /\ ns' = ns /\ server' = server /\ gone' = gone /\ ns.pc # "done"
  BY DEF NsInv, Meddle
<1>1. PICK n \in Nodes : /\ Up[n] # n /\ fsys.kind[n] \in {"none", "file"}
                         /\ fsys' = [fsys EXCEPT !.kind[n] = IF @ = "none" THEN "file" ELSE "none", !.meddled = TRUE]
  BY DEF Meddle
<1>2. /\ DOMAIN fsys' = {"kind", "to", "meddled"} /\ fsys'.to = fsys.to
      /\ fsys'.kind = [fsys.kind EXCEPT ![n] = IF fsys.kind[n] = "none" THEN "file" ELSE "none"]
  BY <1>0, <1>1 DEF TreeType
<1>3. /\ fsys'.kind \in [Nodes -> Kinds] /\ fsys'.kind["top"] = fsys.kind["top"]
      /\ \A m \in Nodes : (fsys'.kind[m] = "link") <=> (fsys.kind[m] = "link")
  BY <1>0, <1>1, <1>2, NsAssumption DEF TreeType, Kinds
<1>4. TreeType'
  BY <1>0, <1>2, <1>3 DEF TreeType, NoCall
<1>5. Placed' /\ Locating' /\ HandedOn' /\ Answering'
  BY <1>0 DEF NsInv, Placed, Locating, HandedOn, Answering, Locations, Sequential
<1>6. Removing'
  BY <1>0, <1>3, InsideTree DEF NsInv, Removing, Placed
<1>7. Walking'
  <2> SUFFICES ASSUME ns.op = "walk" PROVE Walking'
    BY <1>0 DEF Walking
  <2>1. Walking /\ ns.at \in Nodes
    BY DEF NsInv, Walking
  <2>2. \A m \in Nodes : Due(m)' = Due(m) /\ Entered(m)' = Entered(m)
    BY <1>0, <1>2, <1>3, <2>1 DEF Due, Entered, Follow
  <2> QED BY <1>0, <1>3, <2>1, <2>2 DEF Walking
<1> QED BY <1>4, <1>5, <1>6, <1>7 DEF NsInv

LEMMA NsStep == NsInv /\ [NsNext]_nsVars => NsInv'
<1>1. ASSUME NsInv, UNCHANGED nsVars PROVE NsInv'
  BY <1>1 DEF nsVars, NsInv, TreeType, Placed, Removing, Walking, Locating, HandedOn, Answering,
     Due, Entered, Follow, Locations, Sequential
<1> QED BY <1>1, CallGood, ExecuteGood, DecideGood, LinksRaiseGood, AskRmdirGood, RemoveEntryGood, ClearGood, NextEntryGood,
           WalkListGood, DescendGood, LocateGood, TakeLocationGood, TakePartGood, MkdirGood, TouchGood, MeddleGood
        DEF NsNext, NsSteps

LEMMA WalkFollows == NsInv => WalkSafe
<1> SUFFICES ASSUME NsInv PROVE WalkSafe
  OBVIOUS
<1>1. RmtreeContained
  BY DEF NsInv, TreeType, Removing, RmtreeContained
<1>2. WalkOnce
  <2> SUFFICES ASSUME ns.op = "walk" PROVE WalkOnce
    BY DEF WalkOnce
  <2>1. ASSUME server.ids, NEW n \in Nodes PROVE ns.visits[n] <= (IF n = "top" THEN 2 ELSE 1)
    <3>1. ns.visits[n] \in Nat /\ ns.visits[n] + Due(n) <= Entered(n)
      BY <2>1 DEF NsInv, Walking
    <3>2. Due(n) \in Nat /\ Entered(n) \in Nat /\ Entered(n) <= (IF n = "top" THEN 2 ELSE 1)
      BY DEF Due, Entered
    <3> QED BY <3>1, <3>2
  <2>2. ns.trust = "yes" /\ ~ns.flag => \A n \in Nodes \ Inside : ns.visits[n] = 0
    BY DEF NsInv, Walking
  <2> QED BY <2>1, <2>2 DEF WalkOnce
<1> QED BY <1>1, <1>2 DEF WalkSafe

LEMMA HonestFollows == NsInv => CallHonest
<1> SUFFICES ASSUME NsInv PROVE CallHonest
  OBVIOUS
<1>1. ns.applied <= 1
  BY DEF NsInv, Answering
<1>2. ns.op = "deep_locate" /\ ns.result = "ok" =>
          \A loc \in ns.heard : loc.role = "server" => ns.found[loc.host] = "server"
  BY DEF NsInv, Locating
<1>3. ASSUME ns.op = "scandir_parts", ns.result = "ok", ~ns.lost PROVE ns.handed = Listing
  <2>1. Len(Listing) \in Nat
    BY NsAssumption
  <2>2. /\ Sequential(ns.handed) /\ ns.part = Len(Listing) + 1 /\ Len(ns.handed) = ns.part - 1
        /\ \A i \in 1 .. ns.part - 1 : ns.handed[i] = Listing[i]
    BY <1>3 DEF NsInv, HandedOn
  <2>3. PICK S : ns.handed \in Seq(S)
    BY <2>2 DEF Sequential
  <2>4. Len(ns.handed) = Len(Listing) /\ \A i \in 1 .. Len(ns.handed) : ns.handed[i] = Listing[i]
    BY <2>1, <2>2
  <2>5. ns.handed \in Seq(S \cup STRING) /\ Listing \in Seq(S \cup STRING)
    BY <2>3, NsAssumption
  <2> QED BY <2>4, <2>5, SeqEqual
<1>4. /\ ns.op = "mkdir" /\ ns.result = "ok" => ns.saw = "dir"
      /\ ns.pc = "done" => (ns.lent <=> ns.op = "open" /\ ns.result = "ok")
  BY DEF NsInv, Answering
<1> QED BY <1>1, <1>2, <1>3, <1>4 DEF CallHonest

\* rmtree removes nothing outside the tree it was given, and a walk comes to
\* no directory twice, whatever the tree, its links and what another program
\* does to it meanwhile (_TreeRemoval, _Links, _Descent).
THEOREM WalkIsSafe == NsSpec => []WalkSafe
  BY NsBegins, NsStep, WalkFollows, PTL DEF NsSpec

\* What a filesystem call reports is what happened, for any number of retries,
\* any managers and servers and any listing (Router.execute, _deep_locate,
\* _Batches, mkdir, touch and open).
THEOREM CallIsHonest == NsSpec => []CallHonest
  BY NsBegins, NsStep, HonestFollows, PTL DEF NsSpec

-----------------------------------------------------------------------------
(* WebClient: what is read, uploaded, renamed and told over HTTP and S3.    *)
(* A behaviour has one kind of call; its lane of the invariant says how far *)
(* the call has come, and the other lanes are as they were at the start.    *)

WebFields == {"op", "pc", "result", "step", "tries", "host", "creds", "hops", "asked", "exist_ok", "level", "missing",
              "pos", "body", "size", "eof", "multirange", "spans", "s3", "excl", "buf", "up", "pend",
              "parts", "failure", "wrote"}
SiteFields == {"ranges", "multi", "declares", "framed", "names", "src", "dst", "obj", "uploads", "kind"}
TaleFields == {"applied", "told", "got", "at", "pieces", "cut", "raised", "orphan", "overwrote"}

\* The records keep their fields, and a site the calls it is asked.
WebShape ==
    /\ DOMAIN web = WebFields /\ DOMAIN site = SiteFields /\ DOMAIN tale = TaleFields
    /\ site.kind \in {"call", "mkdir", "rename", "read", "write"}

\* The request a call is at, sent so often; only its last one changes things.
CallAt ==
    /\ web.op \in Requested /\ web.step \in 1 .. Len(Sends(web.op)) /\ web.result = "none"
    /\ web.tries \in {0, 1} /\ tale.applied <= web.tries
    /\ web.tries = 1 => Sends(web.op)[web.step] \in Retryable
    /\ tale.applied > 0 => web.step = Len(Sends(web.op)) /\ Sends(web.op)[web.step] \in Changing

CallLane ==
    /\ web.pc \in {"idle", "send", "over"}
    /\ web.op \notin {"mkdir", "write"}
    /\ web.creds => web.host \in {"home", "trusted"}
    /\ tale.applied \in Nat
    /\ web.pc = "idle" => /\ web.step = 1 /\ web.tries = 0 /\ web.result = "none"
                          /\ tale.applied = 0 /\ tale.told = {}
    /\ web.pc = "send" => CallAt
    /\ CallTold

\* The directories still to be made, the one that was asked for first.
MkdirLane ==
    /\ web.pc \in {"idle", "mkcol", "down", "over"}
    /\ web.op \in {"none", "mkdir"}
    /\ DOMAIN site.names = 1 .. PathDepth
    /\ web.level \in 1 .. PathDepth /\ web.missing \in Seq(1 .. PathDepth)
    /\ IF web.missing = << >> THEN web.level = PathDepth ELSE web.missing[1] = PathDepth
    /\ web.pc # "over" => web.result = "none"
    /\ web.result = "ok" => site.names[PathDepth] = "coll"

RenameLane ==
    /\ web.pc \in {"idle", "copy", "delete", "over"}
    /\ web.pc # "over" => site.src = "data"
    /\ web.pc = "delete" => site.dst = "data"
    /\ "data" \in {site.src, site.dst}

\* A body that is open stands where the caller does, or at the file's end.
ReaderPlace ==
    /\ web.pc \in {"idle", "get", "take", "ranges", "span"}
    /\ web.pos \in Nat /\ web.body \in Int /\ web.size \in Int /\ web.eof \in Int
    /\ web.body # -1 => web.body = Min({web.pos, FileUnits})
    /\ web.pc = "take" => web.body # -1
    /\ web.eof # -1 => web.eof >= FileUnits \/ BodyCut
    /\ web.size >= -1
    /\ web.spans \subseteq Spans

ReadLane == ReaderPlace /\ WebReadRight

Writing == {"write", "begin", "drain", "put", "last", "finish"}

\* What was written, in order: sent, about to be sent, and held.
AllWritten == web.parts \o web.pend \o web.buf
Upto(n) == [i \in 1 .. n |-> i]

WriteTypes ==
    /\ web.pc \in Writing \cup {"idle", "over"}
    /\ web.op = (IF web.pc = "idle" THEN "none" ELSE "write")
    /\ web.wrote \in Nat
    /\ web.parts \in Seq(Nat) /\ web.pend \in Seq(Nat) /\ web.buf \in Seq(Nat)
    /\ web.up \in {"none", "open"}
    /\ web.s3 \in BOOLEAN /\ web.failure \in BOOLEAN /\ tale.raised \in BOOLEAN
    /\ tale.orphan \in BOOLEAN /\ tale.overwrote \in BOOLEAN

\* Where the upload stands at each place of the writer.
WritePlaces ==
    /\ web.pc = "idle" => ~tale.raised /\ ~web.failure /\ web.up = "none"
    /\ web.pc # "over" => site.obj \in {NoObject, Theirs} /\ web.result = "none" /\ ~tale.overwrote
    /\ web.failure => web.s3 /\ web.up = "none"
    /\ web.up = "none" /\ ~web.failure => web.parts = << >> /\ web.pend = << >>
    /\ web.up = "open" => web.buf = << >>
    /\ web.pc \in {"drain", "last", "finish"} => web.up = "open"
    /\ web.pc = "last" => web.pend # << >>
    /\ web.pc = "finish" => web.pend = << >>
    /\ web.pc \in {"put", "begin"} => ~Streaming
    /\ web.pc = "begin" => web.buf # << >>
    /\ web.s3 /\ web.up = "open" => web.parts # << >> \/ web.pend # << >>

\* Nothing written is out of place while it can still arrive.
NothingLost ==
    web.pc \in Writing \cup {"idle"} /\ ((web.s3 /\ ~web.failure) \/ ~tale.raised) => AllWritten = Upto(web.wrote)

\* An upload is there because it is still at work, or its abort was lost.
UploadsNamed ==
    site.uploads # {} => \/ tale.orphan
                         \/ site.uploads = {"ours"} /\ web.s3 /\ web.up = "open" /\ web.pc # "over"

WriteLane == WriteTypes /\ WritePlaces /\ NothingLost /\ UploadsNamed /\ UploadHonest

\* Every kind in its lane, the others untouched.
WebInv ==
    /\ WebShape
    /\ IF site.kind = "call" THEN CallLane ELSE tale.told = {}
    /\ IF site.kind = "mkdir" THEN MkdirLane ELSE web.op # "mkdir"
    /\ site.kind = "rename" => RenameLane
    /\ IF site.kind = "read" THEN ReadLane ELSE tale.got = << >> /\ tale.at = 0 /\ tale.pieces = {}
    /\ IF site.kind = "write" THEN WriteLane ELSE web.op # "write" /\ web.s3 = FALSE /\ tale.overwrote = FALSE

LEMMA SmallerOfTwo ==
    ASSUME NEW a \in Int, NEW b \in Int
    PROVE  Min({a, b}) = IF a <= b THEN a ELSE b
<1> DEFINE least == IF a <= b THEN a ELSE b
<1>1. least \in {a, b} /\ \A y \in {a, b} : least <= y
  OBVIOUS
<1>2. Min({a, b}) \in {a, b} /\ \A y \in {a, b} : Min({a, b}) <= y
  BY <1>1 DEF Min
<1> QED
  BY <1>1, <1>2

LEMMA LargerOfTwo ==
    ASSUME NEW a \in Int, NEW b \in Int
    PROVE  Max({a, b}) = IF a >= b THEN a ELSE b
<1> DEFINE most == IF a >= b THEN a ELSE b
<1>1. most \in {a, b} /\ \A y \in {a, b} : most >= y
  OBVIOUS
<1>2. Max({a, b}) \in {a, b} /\ \A y \in {a, b} : Max({a, b}) >= y
  BY <1>1 DEF Max
<1> QED
  BY <1>1, <1>2

LEMMA ClipInside ==
    ASSUME NEW from \in Nat, NEW n \in Nat, from + n <= FileUnits
    PROVE  /\ Clip(from, from + n) = [i \in 1 .. n |-> from + i]
           /\ Clip(from, from + n) \in Seq(Nat) /\ Len(Clip(from, from + n)) = n
<1>1. from + n \in Int /\ FileUnits \in Int /\ FileUnits \in Nat
  BY WebAssumption
<1>2. Min({from + n, FileUnits}) = from + n
  BY <1>1, SmallerOfTwo
<1>3. Max({0, (from + n) - from}) = n
  BY LargerOfTwo, 0 \in Int, (from + n) - from = n, n \in Int
<1>4. Clip(from, from + n) = [i \in 1 .. n |-> from + i]
  BY <1>2, <1>3 DEF Clip
<1>5. [i \in 1 .. n |-> from + i] \in Seq(Nat) /\ Len([i \in 1 .. n |-> from + i]) = n
  BY IsASeq, \A i \in 1 .. n : from + i \in Nat
<1> QED
  BY <1>4, <1>5

LEMMA ClipPast ==
    ASSUME NEW from \in Nat, NEW to \in Nat, from >= FileUnits
    PROVE  Clip(from, to) = << >>
<1>1. to \in Int /\ FileUnits \in Int /\ FileUnits \in Nat
  BY WebAssumption
<1> DEFINE m == Min({to, FileUnits})
<1>2. m \in Int /\ m <= FileUnits
  BY <1>1, SmallerOfTwo
<1> HIDE DEF m
<1>3. m - from \in Int /\ m - from <= 0
  BY <1>1, <1>2
<1>4. Max({0, m - from}) = 0
  BY <1>3, LargerOfTwo, 0 \in Int
<1>5. Clip(from, to) = [i \in 1 .. 0 |-> from + i]
  BY <1>4 DEF Clip, m
<1>6. 1 .. 0 = {}
  OBVIOUS
<1> QED
  BY <1>5, <1>6

\* No call of one request is a mkdir or a write.
LEMMA CallNames ==
    \A asks \in WebCalls : "mkdir" \notin DOMAIN asks /\ "write" \notin DOMAIN asks
<1>1. \A asks \in DavAsks \cup DavChanges : "mkdir" \notin DOMAIN asks /\ "write" \notin DOMAIN asks
  BY DEF DavAsks, DavChanges, Asks
<1>2. \A asks \in Digests \cup Macaroons \cup DavTape : "mkdir" \notin DOMAIN asks /\ "write" \notin DOMAIN asks
  BY DEF Digests, Macaroons, DavTape, Asks
<1>3. \A asks \in TapeCalls \cup S3Asks : "mkdir" \notin DOMAIN asks /\ "write" \notin DOMAIN asks
  BY DEF TapeCalls, S3Asks, Asks
<1>4. \A asks \in S3Marks \cup S3Changes : "mkdir" \notin DOMAIN asks /\ "write" \notin DOMAIN asks
  BY DEF S3Marks, S3Changes, Asks
<1> QED
  BY <1>1, <1>2, <1>3, <1>4 DEF WebCalls

-----------------------------------------------------------------------------
(* A step within one lane.                                                 *)

\* What a call sends: a request or more, and only the last may change things.
SendsGood(s) == Len(s) \in Nat /\ Len(s) >= 1 /\ \A i \in 1 .. Len(s) - 1 : s[i] \notin Changing

LEMMA SendsIs == \A op \in Requested : SendsGood(Sends(op))
<1>1. /\ SendsGood(<<"OPTIONS">>) /\ SendsGood(<<"PROPFIND">>) /\ SendsGood(<<"PROPFIND", "HEAD">>)
      /\ SendsGood(<<"DELETE">>) /\ SendsGood(<<"PROPFIND", "DELETE">>) /\ SendsGood(<<"MOVE">>)
      /\ SendsGood(<<"PROPFIND", "PUT">>) /\ SendsGood(<<"HEAD">>) /\ SendsGood(<<"POST">>) /\ SendsGood(<<"GET">>)
      /\ SendsGood(<<"HEAD", "GET">>) /\ SendsGood(<<"GET", "GET">>) /\ SendsGood(<<"HEAD", "GET", "PUT">>)
      /\ SendsGood(<<"GET", "DELETE">>) /\ SendsGood(<<"HEAD", "PUT">>)
  BY DEF SendsGood, Changing
<1> HIDE DEF SendsGood
<1>2. \A asks \in DavAsks \cup DavChanges : \A op \in DOMAIN asks : SendsGood(asks[op])
  BY <1>1 DEF DavAsks, DavChanges, Asks
<1>3. \A asks \in Digests \cup Macaroons \cup DavTape : \A op \in DOMAIN asks : SendsGood(asks[op])
  BY <1>1 DEF Digests, Macaroons, DavTape, Asks
<1>4. \A asks \in TapeCalls \cup S3Asks : \A op \in DOMAIN asks : SendsGood(asks[op])
  BY <1>1 DEF TapeCalls, S3Asks, Asks
<1>5. \A asks \in S3Marks \cup S3Changes : \A op \in DOMAIN asks : SendsGood(asks[op])
  BY <1>1 DEF S3Marks, S3Changes, Asks
<1>6. \A asks \in WebCalls : \A op \in DOMAIN asks : SendsGood(asks[op])
  BY <1>2, <1>3, <1>4, <1>5 DEF WebCalls
<1> QED
  BY <1>6 DEF Requested, Sends

LEMMA TimesIs == \A op : Times(op) \in Nat
BY DEF Times

LEMMA CallStep ==
    ASSUME WebInv, site.kind = "call", WebShape', site'.kind = "call", CallLane', web'.s3 = web.s3,
           tale'.got = tale.got, tale'.at = tale.at, tale'.pieces = tale.pieces, tale'.overwrote = tale.overwrote
    PROVE  WebInv'
BY DEF WebInv, CallLane

LEMMA MkdirStep ==
    ASSUME WebInv, site.kind = "mkdir", WebShape', site'.kind = "mkdir", MkdirLane', web'.s3 = web.s3, tale' = tale
    PROVE  WebInv'
BY DEF WebInv, MkdirLane

LEMMA RenameStep ==
    ASSUME WebInv, site.kind = "rename", WebShape', site'.kind = "rename", RenameLane', web'.s3 = web.s3,
           web'.op \notin {"mkdir", "write"}, tale' = tale
    PROVE  WebInv'
BY DEF WebInv, RenameLane

LEMMA ReadStep ==
    ASSUME WebInv, site.kind = "read", WebShape', site'.kind = "read", ReadLane', web'.s3 = web.s3,
           web'.op = web.op, tale'.told = tale.told, tale'.overwrote = tale.overwrote
    PROVE  WebInv'
BY DEF WebInv

LEMMA WriteStep ==
    ASSUME WebInv, site.kind = "write", WebShape', site'.kind = "write", WriteLane',
           tale'.told = tale.told, tale'.got = tale.got, tale'.at = tale.at, tale'.pieces = tale.pieces
    PROVE  WebInv'
BY DEF WebInv, WriteLane, WriteTypes

LEMMA WebStarts ==
    ASSUME WebInit
    PROVE  WebInv
<1>1. web = Resting /\ tale = NothingTold
  BY DEF WebInit
<1>2. PathDepth \in Nat \ {0} /\ FileUnits \in Nat
  BY WebAssumption
<1>3. /\ DOMAIN site = SiteFields /\ site.kind \in {"call", "mkdir", "rename", "read", "write"}
      /\ DOMAIN site.names = 1 .. PathDepth /\ site.src = "data" /\ site.obj = NoObject /\ site.uploads = {}
  <2>1. CASE \E kind \in {"call", "rename", "write"} : site = [AnySite EXCEPT !.kind = kind]
    BY <2>1 DEF AnySite, SiteFields
  <2>2. CASE \E r, m, d, f \in BOOLEAN :
            site = [AnySite EXCEPT !.kind = "read", !.ranges = r, !.multi = m, !.declares = d, !.framed = f]
    BY <2>2 DEF AnySite, SiteFields
  <2>3. CASE \E first \in 1 .. PathDepth, what \in {"none", "coll", "file"} :
            site = [AnySite EXCEPT !.kind = "mkdir",
                       !.names = [l \in 1 .. PathDepth |-> IF l < first THEN "coll" ELSE IF l = first THEN what ELSE "none"]]
    BY <2>3 DEF AnySite, SiteFields
  <2> QED
    BY <2>1, <2>2, <2>3, Zenon DEF WebInit
<1>4. WebShape
  BY <1>1, <1>3 DEF WebShape, Resting, NothingTold, WebFields, TaleFields
<1>5. CallLane /\ RenameLane /\ tale.told = {} /\ web.op \notin {"mkdir", "write"} /\ web.s3 = FALSE /\ tale.overwrote = FALSE
  <2>1. tale.applied = 0 /\ web.result = "none" /\ tale.told = {}
    BY <1>1 DEF Resting, NothingTold
  <2>2. CallTold
    BY <2>1, TimesIs DEF CallTold
  <2> QED
    BY <1>1, <1>3, <2>2 DEF CallLane, RenameLane, Resting, NothingTold
<1>6. tale.got = << >> /\ tale.at = 0 /\ tale.pieces = {}
  BY <1>1 DEF NothingTold
<1>7. MkdirLane
  <2>1. << >> \in Seq(1 .. PathDepth)
    OBVIOUS
  <2> QED
    BY <1>1, <1>2, <1>3, <2>1 DEF MkdirLane, Resting
<1>8. ReadLane
  <2>0. 0 \in Nat /\ 0 + 0 <= FileUnits
    BY <1>2
  <2>1. Clip(0, 0 + 0) = [i \in 1 .. 0 |-> 0 + i]
    BY ONLY <2>0, ClipInside
  <2>2. Clip(0, 0) = << >>
    BY <2>1, 1 .. 0 = {}
  <2>3. WebReadRight
    BY <1>6, <2>2 DEF WebReadRight, Eof
  <2> QED
    BY <1>1, <2>3 DEF ReadLane, ReaderPlace, Resting
<1>9. WriteLane
  <2>1. WriteTypes /\ WritePlaces
    BY <1>1, <1>3, << >> \in Seq(Nat) DEF WriteTypes, WritePlaces, Writing, Resting, NothingTold
  <2>2. Upto(0) = << >> /\ << >> \o << >> \o << >> = << >>
    BY 1 .. 0 = {} DEF Upto
  <2>3. NothingLost
    BY <1>1, <2>2 DEF NothingLost, AllWritten, Resting
  <2>4. UploadsNamed /\ UploadHonest
    BY <1>1, <1>3 DEF UploadsNamed, UploadHonest, Resting, NothingTold
  <2> QED
    BY <2>1, <2>3, <2>4 DEF WriteLane
<1> QED
  BY <1>4, <1>5, <1>6, <1>7, <1>8, <1>9 DEF WebInv

-----------------------------------------------------------------------------
(* One call, one request.                                                  *)

LEMMA CallIsCall ==
    ASSUME WebInv, web.pc = "send"
    PROVE  WebShape /\ site.kind = "call" /\ CallLane
BY DEF WebInv, WebShape, CallLane, MkdirLane, RenameLane, ReadLane, WriteLane, WriteTypes, Writing, ReaderPlace

LEMMA BeginCallKeeps ==
    ASSUME WebInv, BeginCall
    PROVE  WebInv'
<1>1. WebShape /\ CallLane /\ site.kind = "call" /\ site' = site /\ tale' = tale /\ web.pc = "idle"
  BY DEF WebInv, BeginCall
<1>2. CASE \E asks \in WebCalls : \E op \in DOMAIN asks : web' = [web EXCEPT !.op = op, !.pc = "send"]
  <2>1. PICK asks \in WebCalls : \E op \in DOMAIN asks : web' = [web EXCEPT !.op = op, !.pc = "send"]
    BY <1>2
  <2>2. PICK op \in DOMAIN asks : web' = [web EXCEPT !.op = op, !.pc = "send"]
    BY <2>1
  <2>3. op \in Requested /\ op \notin {"mkdir", "write"}
    BY <2>2, CallNames DEF Requested
  <2>4. /\ DOMAIN web' = WebFields /\ web'.op = op /\ web'.pc = "send" /\ web'.s3 = web.s3 /\ web'.step = web.step
        /\ web'.tries = web.tries /\ web'.result = web.result /\ web'.creds = web.creds /\ web'.host = web.host
    BY <1>1, <2>2 DEF WebShape, WebFields
  <2>5. web.step = 1 /\ web.tries = 0 /\ web.result = "none" /\ tale.applied = 0 /\ tale.told = {} /\ tale.applied \in Nat
    BY <1>1 DEF CallLane
  <2>6. Len(Sends(op)) \in Nat /\ Len(Sends(op)) >= 1 /\ Times(op) \in Nat
    BY <2>3, SendsIs, TimesIs DEF SendsGood
  <2>7. CallAt'
    BY <1>1, <2>3, <2>4, <2>5, <2>6 DEF CallAt
  <2>8. CallTold'
    BY <1>1, <2>4, <2>5, <2>6 DEF CallTold
  <2>9. CallLane'
    BY <1>1, <2>3, <2>4, <2>5, <2>7, <2>8 DEF CallLane
  <2> QED
    BY <1>1, <2>4, <2>9, CallStep DEF WebShape
<1> QED
  BY <1>2, Zenon DEF BeginCall

\* A call under way stays in its lane.
LEMMA CallMoves ==
    ASSUME WebInv, web.pc = "send", site' = site,
           DOMAIN web' = WebFields, web'.op = web.op, web'.s3 = web.s3,
           DOMAIN tale' = TaleFields, CallLane',
           tale'.got = tale.got, tale'.at = tale.at, tale'.pieces = tale.pieces, tale'.overwrote = tale.overwrote
    PROVE  WebInv'
<1>1. WebShape /\ site.kind = "call"
  BY CallIsCall
<1>2. WebShape'
  BY <1>1 DEF WebShape
<1> QED
  BY <1>1, <1>2, CallStep

\* What a hop shows, it may show.
LEMMA ShownIs ==
    ASSUME WebInv, web.pc = "send"
    PROVE  /\ DOMAIN Shown = TaleFields /\ Shown.applied = tale.applied
           /\ Shown.told \subseteq {"home", "trusted"} /\ tale.told \subseteq Shown.told
           /\ Shown.got = tale.got /\ Shown.at = tale.at /\ Shown.pieces = tale.pieces /\ Shown.overwrote = tale.overwrote
<1>1. WebShape /\ site.kind = "call" /\ CallLane
  BY CallIsCall
<1>2. tale.told \subseteq {"home", "trusted"} /\ (web.creds => web.host \in {"home", "trusted"})
  BY <1>1 DEF CallLane, CallTold
<1> QED
  BY <1>1, <1>2 DEF Shown, WebShape, TaleFields

\* The request goes on, or the call is over and nothing more was done.
LEMMA CallGoes ==
    ASSUME WebInv, web.pc = "send", site' = site, tale' \in {tale, Shown},
           DOMAIN web' = WebFields, web'.op = web.op, web'.s3 = web.s3,
           web'.creds => web'.host \in {"home", "trusted"},
           \/ web'.pc = "send" /\ web'.step = web.step /\ web'.tries = web.tries /\ web'.result = web.result
           \/ web'.pc = "over" /\ web'.result = "error"
    PROVE  WebInv'
<1>1. WebShape /\ site.kind = "call" /\ CallLane
  BY CallIsCall
<1>2. /\ DOMAIN tale' = TaleFields /\ tale'.applied = tale.applied /\ tale'.told \subseteq {"home", "trusted"}
      /\ tale'.got = tale.got /\ tale'.at = tale.at /\ tale'.pieces = tale.pieces /\ tale'.overwrote = tale.overwrote
  BY <1>1, ShownIs DEF CallLane, CallTold, WebShape
<1>3. CallAt /\ web.op \notin {"mkdir", "write"} /\ tale.applied \in Nat
  BY <1>1 DEF CallLane
<1>4. CallTold'
  BY <1>1, <1>2, <1>3 DEF CallLane, CallTold, CallAt
<1>5. web'.pc = "send" => CallAt'
  BY <1>2, <1>3 DEF CallAt
<1>6. CallLane'
  BY <1>2, <1>3, <1>4, <1>5 DEF CallLane
<1> QED
  BY <1>2, <1>6, CallMoves

LEMMA SendCallKeeps ==
    ASSUME WebInv, SendCall
    PROVE  WebInv'
<1>1. WebShape /\ web.pc = "send" /\ site' = site /\ site.kind = "call" /\ CallLane /\ CallAt
  BY CallIsCall DEF SendCall, CallLane
<1> DEFINE sends == Sends(web.op)
           method == sends[web.step]
           did == method \in Changing /\ web.op \in Once /\ tale.applied > 0
           acts == [Shown EXCEPT !.applied = IF method \in Changing /\ ~did THEN @ + 1 ELSE @]
<1>2. \/ ~did /\ web' \in Answered /\ tale' = acts
      \/ web' = [web EXCEPT !.pc = "over", !.result = "refused"] /\ tale' = Shown
      \/ /\ tale' \in {tale, Shown, acts}
         /\ \/ method \in Retryable /\ web.tries = 0 /\ web' = [web EXCEPT !.tries = 1]
            \/ web' = [web EXCEPT !.pc = "over", !.result = "error"]
  BY DEF SendCall, Ends, CallError
<1>3. /\ Len(sends) \in Nat /\ Len(sends) >= 1 /\ \A i \in 1 .. Len(sends) - 1 : sends[i] \notin Changing
      /\ web.step \in 1 .. Len(sends) /\ web.result = "none" /\ web.op \in Requested
      /\ web.tries \in {0, 1} /\ tale.applied \in Nat /\ tale.applied <= web.tries
      /\ (web.tries = 1 => method \in Retryable)
      /\ (tale.applied > 0 => web.step = Len(sends) /\ method \in Changing)
      /\ web.op \notin {"mkdir", "write"} /\ (web.creds => web.host \in {"home", "trusted"})
  BY <1>1, SendsIs DEF CallAt, CallLane, SendsGood
<1>4. Times(web.op) = IF sends[Len(sends)] \notin Changing THEN 0
                      ELSE IF sends[Len(sends)] \in Retryable /\ web.op \notin Once THEN 2 ELSE 1
  BY DEF Times, Last
<1>5. method \in Changing => web.step = Len(sends)
  BY <1>3
<1>6. /\ DOMAIN acts = TaleFields /\ acts.told = Shown.told
      /\ acts.applied = IF method \in Changing /\ ~did THEN tale.applied + 1 ELSE tale.applied
      /\ acts.got = tale.got /\ acts.at = tale.at /\ acts.pieces = tale.pieces /\ acts.overwrote = tale.overwrote
  BY <1>1, ShownIs DEF TaleFields
<1>7. /\ DOMAIN tale' = TaleFields /\ tale'.told \subseteq {"home", "trusted"}
      /\ tale'.applied \in Nat /\ tale'.applied \in {tale.applied, acts.applied}
      /\ tale'.got = tale.got /\ tale'.at = tale.at /\ tale'.pieces = tale.pieces /\ tale'.overwrote = tale.overwrote
  <2>1. tale' \in {tale, Shown, acts}
    BY <1>2
  <2>2. tale.told \subseteq {"home", "trusted"} /\ DOMAIN tale = TaleFields
    BY <1>1, ShownIs DEF WebShape
  <2> HIDE DEF acts
  <2>3. CASE tale' = tale
    BY <1>3, <2>2, <2>3
  <2>4. CASE tale' = Shown
    BY <1>1, <1>3, <2>4, ShownIs
  <2>5. CASE tale' = acts
    BY <1>1, <1>3, <1>6, <2>5, ShownIs
  <2> QED
    BY <2>1, <2>3, <2>4, <2>5
<1> HIDE DEF sends, acts
<1>8. /\ tale.applied <= Times(web.op) /\ acts.applied <= Times(web.op) /\ Times(web.op) \in Nat
      /\ (method \in Changing /\ ~did => acts.applied > 0)
  <2>1. CASE method \notin Changing
    BY <1>3, <1>4, <1>6, <2>1
  <2>2. CASE method \in Changing
    <3>1. method = sends[Len(sends)]
      BY <1>5, <2>2
    <3>2. Times(web.op) = IF method \in Retryable /\ web.op \notin Once THEN 2 ELSE 1
      BY <1>4, <2>2, <3>1
    <3> QED
      BY <1>3, <1>6, <2>2, <3>2
  <2> QED
    BY <2>1, <2>2
<1>9. ASSUME web' = [web EXCEPT !.pc = "over", !.result = "ok"], tale' = acts, ~did, web.step = Len(sends)
      PROVE  WebInv'
  <2>1. /\ DOMAIN web' = WebFields /\ web'.op = web.op /\ web'.pc = "over" /\ web'.s3 = web.s3
        /\ web'.result = "ok" /\ web'.creds = web.creds /\ web'.host = web.host
    BY <1>1, <1>9 DEF WebShape, WebFields
  <2>2. Times(web.op) > 0 => tale'.applied > 0
    BY <1>4, <1>8, <1>9
  <2>3. CallTold'
    BY <1>1, <1>7, <1>8, <1>9, <2>1, <2>2 DEF CallTold
  <2>4. CallLane'
    BY <1>3, <1>7, <2>1, <2>3 DEF CallLane
  <2> QED
    BY <1>1, <1>7, <2>1, <2>4, CallMoves
<1>10. ASSUME NEW r \in {"ok", "refused"}, web' = [web EXCEPT !.pc = "over", !.result = r], tale' = acts, web.step # Len(sends)
       PROVE  WebInv'
  <2>1. /\ DOMAIN web' = WebFields /\ web'.op = web.op /\ web'.pc = "over" /\ web'.s3 = web.s3
        /\ web'.result = r /\ web'.creds = web.creds /\ web'.host = web.host /\ web'.tries = web.tries
    BY <1>1, <1>10 DEF WebShape, WebFields
  <2>2. tale'.applied = 0 /\ Len(sends) # 1
    BY <1>3, <1>5, <1>6, <1>10
  <2>3. CallTold'
    BY <1>1, <1>7, <1>8, <1>10, <2>1, <2>2 DEF CallTold, sends
  <2>4. CallLane'
    BY <1>3, <1>7, <2>1, <2>3 DEF CallLane
  <2> QED
    BY <1>1, <1>7, <2>1, <2>4, CallMoves
<1>11. ASSUME tale' = acts, web.step # Len(sends),
              web' = [web EXCEPT !.step = @ + 1, !.tries = 0, !.host = "home", !.creds = TRUE, !.hops = 0, !.asked = FALSE]
       PROVE  WebInv'
  <2>1. /\ DOMAIN web' = WebFields /\ web'.op = web.op /\ web'.pc = "send" /\ web'.s3 = web.s3 /\ web'.step = web.step + 1
        /\ web'.result = "none" /\ web'.creds = TRUE /\ web'.host = "home" /\ web'.tries = 0
    BY <1>1, <1>3, <1>11 DEF WebShape, WebFields
  <2>2. tale'.applied = 0
    BY <1>3, <1>5, <1>6, <1>11
  <2>3. web'.step \in 1 .. Len(sends)
    BY <1>3, <1>11, <2>1
  <2>4. CallAt'
    BY <1>3, <2>1, <2>2, <2>3 DEF CallAt, sends
  <2>5. CallTold'
    BY <1>1, <1>7, <1>8, <2>1, <2>2 DEF CallTold
  <2>6. CallLane'
    BY <1>3, <1>7, <2>1, <2>4, <2>5 DEF CallLane
  <2> QED
    BY <1>1, <1>7, <2>1, <2>6, CallMoves
<1>12. ASSUME web' = [web EXCEPT !.pc = "over", !.result = "refused"], tale' = Shown
       PROVE  WebInv'
  <2>1. /\ DOMAIN web' = WebFields /\ web'.op = web.op /\ web'.pc = "over" /\ web'.s3 = web.s3
        /\ web'.result = "refused" /\ web'.creds = web.creds /\ web'.host = web.host /\ web'.tries = web.tries
    BY <1>1, <1>12 DEF WebShape, WebFields
  <2>2. tale'.applied = tale.applied /\ (tale.applied > 0 => web.tries = 1)
    BY <1>1, <1>3, <1>12, ShownIs
  <2>3. CallTold'
    BY <1>1, <1>7, <1>8, <2>1, <2>2 DEF CallTold
  <2>4. CallLane'
    BY <1>3, <1>7, <2>1, <2>3 DEF CallLane
  <2> QED
    BY <1>1, <1>7, <2>1, <2>4, CallMoves
<1>13. ASSUME method \in Retryable, web.tries = 0, web' = [web EXCEPT !.tries = 1]
       PROVE  WebInv'
  <2>1. /\ DOMAIN web' = WebFields /\ web'.op = web.op /\ web'.pc = "send" /\ web'.s3 = web.s3 /\ web'.step = web.step
        /\ web'.result = "none" /\ web'.creds = web.creds /\ web'.host = web.host /\ web'.tries = 1
    BY <1>1, <1>3, <1>13 DEF WebShape, WebFields
  <2>2. tale'.applied <= 1 /\ (tale'.applied > 0 => method \in Changing)
    BY <1>3, <1>6, <1>7, <1>13
  <2>3. CallAt'
    BY <1>3, <1>5, <1>7, <1>13, <2>1, <2>2 DEF CallAt, sends
  <2>4. tale'.applied <= Times(web.op)
    BY <1>7, <1>8
  <2>5. CallTold'
    BY <1>1, <1>7, <2>1, <2>4 DEF CallTold
  <2>6. CallLane'
    BY <1>3, <1>7, <2>1, <2>3, <2>5 DEF CallLane
  <2> QED
    BY <1>1, <1>7, <2>1, <2>6, CallMoves
<1>14. ASSUME web' = [web EXCEPT !.pc = "over", !.result = "error"]
       PROVE  WebInv'
  <2>1. /\ DOMAIN web' = WebFields /\ web'.op = web.op /\ web'.pc = "over" /\ web'.s3 = web.s3
        /\ web'.result = "error" /\ web'.creds = web.creds /\ web'.host = web.host
    BY <1>1, <1>14 DEF WebShape, WebFields
  <2>2. tale'.applied <= Times(web.op)
    BY <1>7, <1>8
  <2>3. CallTold'
    BY <1>1, <1>7, <2>1, <2>2 DEF CallTold
  <2>4. CallLane'
    BY <1>3, <1>7, <2>1, <2>3 DEF CallLane
  <2> QED
    BY <1>1, <1>7, <2>1, <2>4, CallMoves
<1>15. ASSUME ~did, web' \in Answered, tale' = acts PROVE WebInv'
  <2>1. CASE web.step = Len(sends)
    BY <1>9, <1>15, <2>1 DEF Answered, sends
  <2>2. CASE web.step # Len(sends)
    BY <1>10, <1>11, <1>15, <2>2 DEF Answered, sends
  <2> QED
    BY <2>1, <2>2
<1> QED
  BY <1>2, <1>12, <1>13, <1>14, <1>15

LEMMA RedirectedKeeps ==
    ASSUME WebInv, Redirected
    PROVE  WebInv'
<1>1. WebShape /\ web.pc = "send" /\ site' = site /\ tale' = Shown /\ CallLane
  BY CallIsCall DEF Redirected
<1>2. PICK host \in Hosts :
         IF web.hops < RedirectLimit
         THEN web' = [web EXCEPT !.host = host, !.creds = Carries(host), !.hops = @ + 1]
         ELSE CallError
  BY Zenon DEF Redirected
<1>3. CASE web.hops < RedirectLimit
  <2>1. /\ DOMAIN web' = WebFields /\ web'.pc = "send" /\ web'.op = web.op /\ web'.s3 = web.s3 /\ web'.step = web.step
        /\ web'.tries = web.tries /\ web'.result = web.result /\ web'.creds = Carries(host) /\ web'.host = host
    BY <1>1, <1>2, <1>3 DEF WebShape, WebFields
  <2> QED
    BY <1>1, <2>1, CallGoes DEF Carries
<1>4. CASE ~(web.hops < RedirectLimit)
  <2>1. /\ DOMAIN web' = WebFields /\ web'.pc = "over" /\ web'.result = "error" /\ web'.op = web.op /\ web'.s3 = web.s3
        /\ web'.creds = web.creds /\ web'.host = web.host
    BY <1>1, <1>2, <1>4 DEF WebShape, WebFields, CallError
  <2> QED
    BY <1>1, <2>1, CallGoes DEF CallLane
<1> QED
  BY <1>3, <1>4

LEMMA ChallengedKeeps ==
    ASSUME WebInv, Challenged
    PROVE  WebInv'
<1>1. WebShape /\ web.pc = "send" /\ site' = site /\ tale' = Shown /\ CallLane
  BY CallIsCall DEF Challenged
<1>2. /\ DOMAIN web' = WebFields /\ web'.op = web.op /\ web'.s3 = web.s3
      /\ web'.creds = web.creds /\ web'.host = web.host
      /\ \/ web'.pc = "send" /\ web'.step = web.step /\ web'.tries = web.tries /\ web'.result = web.result
         \/ web'.pc = "over" /\ web'.result = "error"
  BY <1>1 DEF WebShape, WebFields, CallError, Challenged
<1> QED
  BY <1>1, <1>2, CallGoes DEF CallLane

-----------------------------------------------------------------------------
(* mkdir(parents) and S3's rename.                                         *)

LEMMA BeginMkdirKeeps ==
    ASSUME WebInv, BeginMkdir
    PROVE  WebInv'
<1>1. WebShape /\ site.kind = "mkdir" /\ MkdirLane /\ site' = site /\ tale' = tale /\ web.pc = "idle"
  BY DEF WebInv, BeginMkdir
<1>2. PICK ok \in BOOLEAN : web' = [web EXCEPT !.op = "mkdir", !.pc = "mkcol", !.exist_ok = ok]
  BY DEF BeginMkdir
<1>3. /\ DOMAIN web' = WebFields /\ web'.op = "mkdir" /\ web'.pc = "mkcol" /\ web'.s3 = web.s3
      /\ web'.level = web.level /\ web'.missing = web.missing /\ web'.result = web.result
  BY <1>1, <1>2 DEF WebShape, WebFields
<1>4. WebShape' /\ MkdirLane'
  BY <1>1, <1>3 DEF WebShape, MkdirLane
<1> QED
  BY <1>1, <1>3, <1>4, MkdirStep

LEMMA MkcolKeeps ==
    ASSUME WebInv, Mkcol
    PROVE  WebInv'
<1>1. WebShape /\ site.kind = "mkdir" /\ MkdirLane /\ tale' = tale /\ web.pc \in {"mkcol", "down"}
  <2>1. web.pc \in {"mkcol", "down"} /\ tale' = tale
    BY DEF Mkcol
  <2> QED
    BY <2>1 DEF WebInv, WebShape, CallLane, RenameLane, ReadLane, WriteLane, WriteTypes, Writing, ReaderPlace
<1> DEFINE l == web.level
           failed == [web EXCEPT !.pc = "over", !.result = "error"]
           higher == [web EXCEPT !.level = l - 1, !.missing = Append(@, l)]
<1>2. \/ site' = [site EXCEPT !.names[l] = "coll"] /\ web' \in {NextMissing, failed}
      \/ site' = site /\ site.names[l] = "coll" /\ web' = NextMissing
      \/ site' = site /\ web' = failed
      \/ site' = site /\ l # 1 /\ web' = higher
  <2>1. CASE /\ site.names[l] = "none" /\ Above(l) /\ site' = [site EXCEPT !.names[l] = "coll"]
             /\ web' \in {NextMissing, IF l # PathDepth \/ web.exist_ok THEN NextMissing ELSE failed}
    BY <2>1
  <2>2. CASE site.names[l] # "none" /\ UNCHANGED site /\ web' = IF Forgiven(l) THEN NextMissing ELSE failed
    BY <2>2 DEF Forgiven
  <2>3. CASE /\ site.names[l] = "none" /\ ~Above(l) /\ UNCHANGED site
             /\ web' = IF l = 1 \/ web.pc = "down" THEN failed
                       ELSE [web EXCEPT !.level = l - 1, !.missing = Append(@, l)]
    BY <2>3
  <2>4. CASE CallError /\ UNCHANGED site
    BY <2>4 DEF CallError
  <2> QED
    BY <2>1, <2>2, <2>3, <2>4, Zenon DEF Mkcol
<1>3. l \in 1 .. PathDepth /\ PathDepth \in Nat
  BY <1>1, WebAssumption DEF MkdirLane
<1>4. /\ DOMAIN site' = SiteFields /\ site'.kind = "mkdir" /\ DOMAIN site'.names = 1 .. PathDepth
      /\ \/ site'.names[l] = "coll" /\ web' = NextMissing
         \/ web' = failed
         \/ site' = site /\ l # 1 /\ web' = higher
  <2>1. CASE site' = [site EXCEPT !.names[l] = "coll"] /\ web' \in {NextMissing, failed}
    <3>1. DOMAIN site' = SiteFields /\ site'.kind = "mkdir" /\ DOMAIN site'.names = 1 .. PathDepth /\ site'.names[l] = "coll"
      BY <1>1, <1>3, <2>1 DEF WebShape, SiteFields, MkdirLane
    <3> QED
      BY <2>1, <3>1
  <2>2. CASE site' = site
    BY <1>1, <1>2, <2>1, <2>2 DEF WebShape, MkdirLane
  <2> QED
    BY <1>2, <2>1, <2>2
<1>5. CASE web' = failed
  <2>1. /\ DOMAIN web' = WebFields /\ web'.op = web.op /\ web'.pc = "over" /\ web'.s3 = web.s3
        /\ web'.level = web.level /\ web'.missing = web.missing /\ web'.result = "error"
    BY <1>1, <1>5 DEF WebShape, WebFields
  <2>2. WebShape' /\ MkdirLane'
    BY <1>1, <1>4, <2>1 DEF WebShape, MkdirLane
  <2> QED
    BY <1>1, <1>4, <2>1, <2>2, MkdirStep
<1>6. CASE site' = site /\ l # 1 /\ web' = higher
  <2>1. /\ DOMAIN web' = WebFields /\ web'.op = web.op /\ web'.pc = web.pc /\ web'.s3 = web.s3
        /\ web'.level = l - 1 /\ web'.missing = Append(web.missing, l) /\ web'.result = web.result
    BY <1>1, <1>6 DEF WebShape, WebFields
  <2>2. l - 1 \in 1 .. PathDepth
    BY <1>3, <1>6
  <2>3. web.missing \in Seq(1 .. PathDepth) /\ (IF web.missing = << >> THEN l = PathDepth ELSE web.missing[1] = PathDepth)
    BY <1>1 DEF MkdirLane
  <2>4. Append(web.missing, l) \in Seq(1 .. PathDepth) /\ Append(web.missing, l) # << >>
    BY <1>3, <2>3, AppendProperties
  <2>5. Append(web.missing, l)[1] = PathDepth
    <3>1. CASE web.missing = << >>
      BY <3>1, <2>3
    <3>2. CASE web.missing # << >>
      <4>1. Len(web.missing) \in Nat /\ Len(web.missing) # 0
        BY <3>2, <2>3, EmptySeq, LenProperties
      <4>2. 1 \in 1 .. Len(web.missing)
        BY <4>1
      <4>3. Append(web.missing, l)[1] = web.missing[1]
        BY <4>2, <2>3, <1>3, AppendProperties
      <4> QED
        BY <4>3, <3>2, <2>3
    <3> QED
      BY <3>1, <3>2
  <2> HIDE DEF l
  <2>6. WebShape' /\ MkdirLane'
    BY <1>1, <1>4, <1>6, <2>1, <2>2, <2>4, <2>5 DEF WebShape, MkdirLane
  <2> QED
    BY <1>1, <1>4, <2>1, <2>6, MkdirStep
<1>7. CASE site'.names[l] = "coll" /\ web' = NextMissing
  <2>2. CASE web.missing = << >>
    <3>1. l = PathDepth
      BY <1>1, <2>2 DEF MkdirLane
    <3>2. /\ DOMAIN web' = WebFields /\ web'.op = web.op /\ web'.pc = "over" /\ web'.s3 = web.s3
          /\ web'.level = web.level /\ web'.missing = web.missing /\ web'.result = "ok"
      BY <1>1, <1>7, <2>2 DEF WebShape, WebFields, NextMissing
    <3>3. WebShape' /\ MkdirLane'
      BY <1>1, <1>4, <1>7, <3>1, <3>2 DEF WebShape, MkdirLane
    <3> QED
      BY <1>1, <1>4, <3>2, <3>3, MkdirStep
  <2>3. CASE web.missing # << >>
    <3> DEFINE m == web.missing
               n == Len(m)
               rest == SubSeq(m, 1, n - 1)
    <3>1. /\ DOMAIN web' = WebFields /\ web'.op = web.op /\ web'.pc = "down" /\ web'.s3 = web.s3
          /\ web'.level = m[n] /\ web'.missing = rest /\ web'.result = web.result
      BY <1>1, <1>7, <2>3 DEF WebShape, WebFields, NextMissing, Last, Front
    <3>2. m \in Seq(1 .. PathDepth) /\ m[1] = PathDepth
      BY <1>1, <2>3 DEF MkdirLane
    <3>3. n \in Nat /\ n >= 1
      BY <2>3, <3>2, EmptySeq, LenProperties
    <3>a. n \in 1 .. n /\ n - 1 \in Int /\ 1 \in Int
      BY <3>3
    <3>b. \A i \in 1 .. n - 1 : i \in 1 .. n
      BY <3>3
    <3> HIDE DEF m
    <3>4. m[n] \in 1 .. PathDepth
      BY <3>2, <3>a, ElementOfSeq
    <3>5. rest \in Seq(1 .. PathDepth) /\ Len(rest) = n - 1 /\ \A i \in 1 .. n - 1 : rest[i] = m[i]
      <4>0. \A i \in 1 .. n - 1 : m[i] \in 1 .. PathDepth
        BY <3>2, <3>b, ElementOfSeq
      <4>1. /\ rest \in Seq(1 .. PathDepth)
            /\ Len(rest) = IF 1 <= n - 1 THEN (n - 1) - 1 + 1 ELSE 0
            /\ \A i \in 1 .. (n - 1) - 1 + 1 : rest[i] = m[1 + i - 1]
        BY <4>0, <3>a, SubSeqProperties
      <4> HIDE DEF rest, n
      <4>2. \A i \in 1 .. n - 1 : 1 + i - 1 = i /\ i \in 1 .. (n - 1) - 1 + 1
        BY <3>3
      <4>3. Len(rest) = n - 1
        BY <4>1, <3>3
      <4> QED
        BY <4>1, <4>2, <4>3
    <3> HIDE DEF rest, n
    <3>6. rest # << >> => rest[1] = PathDepth
      <4>1. rest # << >> => 1 \in 1 .. n - 1
        BY <3>3, <3>5, EmptySeq
      <4> QED
        BY <4>1, <3>5, <3>2
    <3>7. rest = << >> => m[n] = PathDepth
      <4>1. rest = << >> => n = 1
        BY <3>3, <3>5, Len(<< >>) = 0
      <4> QED
        BY <4>1, <3>2
    <3>8. web'.pc # "over" /\ web'.result = "none"
      BY <1>1, <3>1 DEF MkdirLane
    <3>9. WebShape' /\ MkdirLane'
      BY <1>1, <1>4, <3>1, <3>4, <3>5, <3>6, <3>7, <3>8 DEF WebShape, MkdirLane
    <3> QED
      BY <1>1, <1>4, <3>1, <3>9, MkdirStep
  <2> QED
    BY <2>2, <2>3
<1> QED
  BY <1>4, <1>5, <1>6, <1>7

LEMMA RenameOp ==
    ASSUME WebInv, site.kind = "rename"
    PROVE  WebShape /\ RenameLane /\ web.op \notin {"mkdir", "write"}
BY DEF WebInv

LEMMA BeginRenameKeeps ==
    ASSUME WebInv, BeginRename
    PROVE  WebInv'
<1>1. site.kind = "rename" /\ web.pc = "idle" /\ site' = site /\ tale' = tale
  BY DEF BeginRename
<1>2. WebShape /\ RenameLane
  BY <1>1, RenameOp
<1>3. DOMAIN web' = WebFields /\ web'.op = "s3_rename" /\ web'.pc = "copy" /\ web'.s3 = web.s3
  BY <1>2 DEF WebShape, WebFields, BeginRename
<1>4. WebShape' /\ RenameLane'
  BY <1>1, <1>2, <1>3 DEF WebShape, RenameLane
<1> QED
  BY <1>1, <1>3, <1>4, RenameStep

LEMMA CopyObjectKeeps ==
    ASSUME WebInv, CopyObject
    PROVE  WebInv'
<1>1. site.kind = "rename" /\ web.pc = "copy" /\ tale' = tale
  BY DEF CopyObject, WebInv, WebShape, CallLane, MkdirLane, ReadLane, WriteLane, WriteTypes, Writing, ReaderPlace
<1>2. WebShape /\ RenameLane /\ web.op \notin {"mkdir", "write"}
  BY <1>1, RenameOp
<1>3. PICK answer \in {"done", "Error", "lost", "refused"} :
         /\ site' \in IF answer = "done" THEN {[site EXCEPT !.dst = site.src]}
                      ELSE IF answer = "lost" THEN {site, [site EXCEPT !.dst = site.src]} ELSE {site}
         /\ IF CopySaid(answer) THEN Going("delete") ELSE CallError
  BY Zenon DEF CopyObject
<1>4. DOMAIN site' = SiteFields /\ site'.kind = "rename" /\ site'.src = "data" /\ (answer = "done" => site'.dst = "data")
  BY <1>1, <1>2, <1>3 DEF WebShape, SiteFields, RenameLane
<1>5. /\ DOMAIN web' = WebFields /\ web'.op = web.op /\ web'.s3 = web.s3
      /\ web'.pc = (IF answer = "done" THEN "delete" ELSE "over")
  BY <1>2, <1>3 DEF WebShape, WebFields, CopySaid, Going, CallError
<1>6. WebShape' /\ RenameLane'
  BY <1>1, <1>2, <1>4, <1>5 DEF WebShape, RenameLane
<1> QED
  BY <1>1, <1>2, <1>4, <1>5, <1>6, RenameStep

LEMMA DeleteSourceKeeps ==
    ASSUME WebInv, DeleteSource
    PROVE  WebInv'
<1>1. site.kind = "rename" /\ web.pc = "delete" /\ tale' = tale
  BY DEF DeleteSource, WebInv, WebShape, CallLane, MkdirLane, ReadLane, WriteLane, WriteTypes, Writing, ReaderPlace
<1>2. WebShape /\ RenameLane /\ web.op \notin {"mkdir", "write"}
  BY <1>1, RenameOp
<1>3. site' \in {site, [site EXCEPT !.src = "none"]}
  BY DEF DeleteSource
<1>4. DOMAIN site' = SiteFields /\ site'.kind = "rename" /\ site'.dst = "data"
  BY <1>1, <1>2, <1>3 DEF WebShape, SiteFields, RenameLane
<1>5. DOMAIN web' = WebFields /\ web'.op = web.op /\ web'.s3 = web.s3 /\ web'.pc = "over"
  BY <1>2 DEF WebShape, WebFields, DeleteSource, Ends, CallError
<1>6. WebShape' /\ RenameLane'
  BY <1>1, <1>2, <1>4, <1>5 DEF WebShape, RenameLane
<1> QED
  BY <1>1, <1>2, <1>4, <1>5, <1>6, RenameStep

-----------------------------------------------------------------------------
(* Reading.                                                                *)

\* Only a reader is at a reader's places.
LEMMA ReadingIsRead ==
    ASSUME WebInv, site.kind = "read" \/ web.pc \in {"get", "take", "ranges", "span"}
    PROVE  WebShape /\ site.kind = "read" /\ ReaderPlace /\ WebReadRight
BY DEF WebInv, WebShape, CallLane, MkdirLane, RenameLane, ReadLane, WriteLane, WriteTypes, Writing

LEMMA ReaderMoves ==
    ASSUME WebInv, site.kind = "read", site' = site,
           DOMAIN web' = WebFields, web'.s3 = web.s3, web'.op = web.op, ReaderPlace',
           DOMAIN tale' = TaleFields, tale'.told = tale.told, tale'.overwrote = tale.overwrote, WebReadRight'
    PROVE  WebInv'
<1>1. WebShape' /\ ReadLane'
  BY DEF WebShape, WebInv, ReadLane
<1> QED
  BY <1>1, ReadStep

\* What was told stays right as long as it stays what was told.
LEMMA ReaderQuiet ==
    ASSUME WebInv, site.kind = "read", site' = site, tale' = tale,
           DOMAIN web' = WebFields, web'.s3 = web.s3, web'.op = web.op, ReaderPlace'
    PROVE  WebInv'
<1>1. DOMAIN tale' = TaleFields /\ WebReadRight'
  BY ReadingIsRead DEF WebShape, WebReadRight, BodyCut
<1> QED
  BY <1>1, ReaderMoves

LEMMA ReadErrorKeeps ==
    ASSUME WebInv, site.kind = "read", ReadError
    PROVE  WebInv'
<1>1. WebShape /\ ReaderPlace /\ site' = site /\ tale' = tale
  BY ReadingIsRead DEF ReadError
<1>2. /\ DOMAIN web' = WebFields /\ web'.s3 = web.s3 /\ web'.op = web.op
      /\ web'.pc = "idle" /\ web'.pos = web.pos /\ web'.body = -1 /\ web'.size = web.size
      /\ web'.eof = web.eof /\ web'.spans = web.spans
  BY <1>1 DEF ReadError, NoBody, WebShape, WebFields
<1>3. ReaderPlace'
  BY <1>1, <1>2 DEF ReaderPlace, BodyCut
<1> QED
  BY <1>1, <1>2, <1>3, ReaderQuiet

LEMMA ResumeKeeps ==
    ASSUME WebInv, site.kind = "read", Resume
    PROVE  WebInv'
<1>1. CASE web.tries < ReadRetries
  <2>1. WebShape /\ ReaderPlace /\ site' = site /\ tale' = tale
    BY <1>1, ReadingIsRead DEF Resume
  <2>2. /\ DOMAIN web' = WebFields /\ web'.s3 = web.s3 /\ web'.op = web.op
        /\ web'.pc = "get" /\ web'.pos = web.pos /\ web'.body = -1 /\ web'.size = web.size
        /\ web'.eof = web.eof /\ web'.spans = web.spans
    BY <1>1, <2>1 DEF Resume, NoBody, WebShape, WebFields
  <2>3. ReaderPlace'
    BY <2>1, <2>2 DEF ReaderPlace, BodyCut
  <2> QED
    BY <2>1, <2>2, <2>3, ReaderQuiet
<1>2. CASE ~(web.tries < ReadRetries)
  BY <1>2, ReadErrorKeeps DEF Resume
<1> QED
  BY <1>1, <1>2

\* The caller is told something new: what it rests on may only grow.
Retold(at, got) ==
    /\ site' = site /\ DOMAIN tale' = TaleFields /\ tale'.told = tale.told /\ tale'.overwrote = tale.overwrote
    /\ tale'.at = at /\ tale'.got = got /\ tale'.pieces \in {tale.pieces, {}} /\ (tale.cut => tale'.cut)

\* "End of file" is told at a position the file does not reach, or of a body
\* that was cut.
LEMMA EofRight ==
    ASSUME WebInv, site.kind = "read", Retold(web.pos, Eof), web.pos >= FileUnits \/ BodyCut'
    PROVE  WebReadRight'
<1>1. WebReadRight /\ (BodyCut => BodyCut')
  BY ReadingIsRead DEF Retold, BodyCut
<1> QED
  BY <1>1 DEF WebReadRight, Retold

\* A call that begins has told nothing yet.
LEMMA NothingYet ==
    ASSUME WebInv, site.kind = "read", Retold(0, << >>)
    PROVE  WebReadRight'
<1>1. WebReadRight /\ (BodyCut => BodyCut')
  BY ReadingIsRead DEF Retold, BodyCut
<1>2. 0 \in Nat /\ 0 + 0 <= FileUnits
  BY WebAssumption
<1>3. Clip(0, 0 + 0) = [i \in 1 .. 0 |-> 0 + i]
  BY ONLY <1>2, ClipInside
<1>4. Clip(0, 0) = << >>
  BY <1>3, 1 .. 0 = {}
<1> QED
  BY <1>1, <1>4 DEF WebReadRight, Retold, Eof

LEMMA BeginReadKeeps ==
    ASSUME WebInv, BeginRead
    PROVE  WebInv'
<1>1. site.kind = "read" /\ web.pc = "idle" /\ site' = site
  BY DEF BeginRead
<1>2. WebShape /\ ReaderPlace
  BY <1>1, ReadingIsRead
<1>3. CASE web.eof >= 0 /\ web.pos >= web.eof
  <2>1. web' = web /\ tale' = [tale EXCEPT !.at = web.pos, !.got = Eof, !.pieces = {}]
    BY <1>3 DEF BeginRead
  <2>2. Retold(web.pos, Eof) /\ (BodyCut' <=> BodyCut)
    BY <1>1, <1>2, <2>1 DEF WebShape, TaleFields, Retold, BodyCut
  <2>3. web.pos >= FileUnits \/ BodyCut
    BY <1>2, <1>3, WebAssumption DEF ReaderPlace
  <2>4. ReaderPlace' /\ DOMAIN web' = WebFields
    BY <1>2, <2>1, <2>2 DEF ReaderPlace, WebShape
  <2> QED
    BY <1>1, <2>1, <2>2, <2>3, <2>4, EofRight, ReaderMoves DEF Retold
<1>4. CASE ~(web.eof >= 0 /\ web.pos >= web.eof)
  <2>1. /\ web' = [web EXCEPT !.pc = IF web.body < 0 THEN "get" ELSE "take"]
        /\ tale' = [tale EXCEPT !.at = 0, !.got = << >>, !.pieces = {}]
    BY <1>4 DEF BeginRead, Going
  <2>2. /\ DOMAIN web' = WebFields /\ web'.s3 = web.s3 /\ web'.op = web.op
        /\ web'.pc = (IF web.body < 0 THEN "get" ELSE "take") /\ web'.pos = web.pos /\ web'.body = web.body
        /\ web'.size = web.size /\ web'.eof = web.eof /\ web'.spans = web.spans
    BY <1>2, <2>1 DEF WebShape, WebFields
  <2>3. Retold(0, << >>) /\ (BodyCut' <=> BodyCut)
    BY <1>1, <1>2, <2>1 DEF WebShape, TaleFields, Retold, BodyCut
  <2>4. ReaderPlace'
    BY <1>2, <2>2, <2>3 DEF ReaderPlace
  <2> QED
    BY <1>1, <2>2, <2>3, <2>4, NothingYet, ReaderMoves DEF Retold
<1> QED
  BY <1>3, <1>4

LEMMA SkippedAt ==
    ASSUME NEW pos \in Nat
    PROVE  Skipped(pos) = IF site.ranges THEN pos ELSE IF pos <= FileUnits THEN pos ELSE FileUnits
BY SmallerOfTwo, WebAssumption, pos \in Int, FileUnits \in Int DEF Skipped

LEMMA StartGetKeeps ==
    ASSUME WebInv, StartGet
    PROVE  WebInv'
<1>1. web.pc = "get"
  BY DEF StartGet
<1>2. WebShape /\ site.kind = "read" /\ ReaderPlace
  BY <1>1, ReadingIsRead
<1>3. CASE /\ site.ranges /\ web.pos > 0 /\ web.pos >= FileUnits
           /\ tale' = [tale EXCEPT !.at = web.pos, !.got = Eof]
           /\ web' = [web EXCEPT !.pc = "idle", !.tries = 0] /\ UNCHANGED site
  <2>1. /\ DOMAIN web' = WebFields /\ web'.s3 = web.s3 /\ web'.op = web.op
        /\ web'.pc = "idle" /\ web'.pos = web.pos /\ web'.body = web.body
        /\ web'.size = web.size /\ web'.eof = web.eof /\ web'.spans = web.spans
    BY <1>2, <1>3 DEF WebShape, WebFields
  <2>2. Retold(web.pos, Eof) /\ (BodyCut' <=> BodyCut) /\ web.pos >= FileUnits
    BY <1>2, <1>3 DEF WebShape, TaleFields, Retold, BodyCut
  <2>3. ReaderPlace'
    BY <1>2, <2>1, <2>2 DEF ReaderPlace
  <2> QED
    BY <1>2, <2>1, <2>2, <2>3, EofRight, ReaderMoves DEF Retold
<1>4. CASE /\ ~site.ranges \/ web.pos = 0 \/ web.pos < FileUnits
           /\ web' = [web EXCEPT !.pc = "take", !.body = Skipped(web.pos)] /\ UNCHANGED <<site, tale>>
  <2>1. /\ DOMAIN web' = WebFields /\ web'.s3 = web.s3 /\ web'.op = web.op
        /\ web'.pc = "take" /\ web'.pos = web.pos /\ web'.body = Skipped(web.pos)
        /\ web'.size = web.size /\ web'.eof = web.eof /\ web'.spans = web.spans
    BY <1>2, <1>4 DEF WebShape, WebFields
  <2>2. web.pos \in Nat /\ web.pos \in Int /\ FileUnits \in Nat /\ FileUnits \in Int
    BY <1>2, WebAssumption DEF ReaderPlace
  <2>3. Skipped(web.pos) = IF site.ranges THEN web.pos ELSE IF web.pos <= FileUnits THEN web.pos ELSE FileUnits
    BY <2>2, SkippedAt
  <2>4. Min({web.pos, FileUnits}) = IF web.pos <= FileUnits THEN web.pos ELSE FileUnits
    BY <2>2, SmallerOfTwo
  <2>5. Skipped(web.pos) = Min({web.pos, FileUnits}) /\ Skipped(web.pos) \in Nat
    BY <1>4, <2>2, <2>3, <2>4
  <2>6. Skipped(web.pos) \in Int /\ Skipped(web.pos) # -1
    BY <2>5
  <2>8. site' = site /\ tale' = tale
    BY <1>4
  <2>7. ReaderPlace'
    BY <1>2, <2>1, <2>5, <2>6, <2>8 DEF ReaderPlace, BodyCut
  <2> QED
    BY <1>2, <2>1, <2>7, <2>8, ReaderQuiet
<1> QED
  BY <1>2, <1>3, <1>4, ResumeKeeps, ReadErrorKeeps, Zenon DEF StartGet

LEMMA TakeBodyKeeps ==
    ASSUME WebInv, TakeBody
    PROVE  WebInv'
<1>1. web.pc = "take"
  BY DEF TakeBody
<1>2. WebShape /\ site.kind = "read" /\ ReaderPlace /\ WebReadRight
  BY <1>1, ReadingIsRead
<1>3. /\ web.pos \in Nat /\ web.pos \in Int /\ FileUnits \in Nat /\ FileUnits \in Int
      /\ web.body = Min({web.pos, FileUnits})
  BY <1>1, <1>2, WebAssumption DEF ReaderPlace
<1>4. web.body = IF web.pos <= FileUnits THEN web.pos ELSE FileUnits
  BY <1>3, SmallerOfTwo
<1>5. ASSUME NEW n \in 1 .. FileUnits - web.body,
             tale' = [tale EXCEPT !.at = web.pos, !.got = Clip(web.body, web.body + n)],
             web' = [web EXCEPT !.pc = "idle", !.tries = 0, !.body = @ + n, !.pos = @ + n],
             site' = site
      PROVE  WebInv'
  <2>1. n \in Nat /\ n >= 1 /\ web.body = web.pos /\ web.pos + n <= FileUnits /\ web.pos + n \in Nat /\ web.pos + n \in Int
    BY <1>3, <1>4, <1>5
  <2>2. /\ DOMAIN web' = WebFields /\ web'.s3 = web.s3 /\ web'.op = web.op
        /\ web'.pc = "idle" /\ web'.pos = web.pos + n /\ web'.body = web.pos + n
        /\ web'.size = web.size /\ web'.eof = web.eof /\ web'.spans = web.spans
    BY <1>2, <1>5, <2>1 DEF WebShape, WebFields
  <2>3. Min({web.pos + n, FileUnits}) = web.pos + n
    BY <1>3, <2>1, SmallerOfTwo
  <2>0. site' = site /\ tale'.cut = tale.cut
    BY <1>2, <1>5 DEF WebShape, TaleFields
  <2>4. ReaderPlace'
    BY <1>2, <2>0, <2>1, <2>2, <2>3 DEF ReaderPlace, BodyCut
  <2> DEFINE got == Clip(web.pos, web.pos + n)
  <2>5. got = [i \in 1 .. n |-> web.pos + i] /\ Len(got) = n
    BY <1>3, <2>1, ClipInside
  <2>6. got # Eof
    <3>1. got[1] = web.pos + 1
      BY <2>1, <2>5
    <3> QED
      BY <3>1, <1>3 DEF Eof
  <2>7. /\ DOMAIN tale' = TaleFields /\ tale'.told = tale.told /\ tale'.overwrote = tale.overwrote
        /\ tale'.at = web.pos /\ tale'.got = got /\ tale'.pieces = tale.pieces
    BY <1>2, <1>5, <2>1 DEF WebShape, TaleFields
  <2>8. Clip(web.pos, web.pos + Len(got)) = got
    BY <2>5
  <2> HIDE DEF got
  <2>9. WebReadRight'
    BY <1>2, <2>0, <2>6, <2>7, <2>8 DEF WebReadRight, BodyCut
  <2> QED
    BY <1>2, <1>5, <2>2, <2>4, <2>7, <2>9, ReaderMoves
<1>6. ASSUME NEW c, tale' = [tale EXCEPT !.at = web.pos, !.got = Eof, !.cut = c], tale.cut => c,
             web.body >= FileUnits \/ (c /\ ~site.framed),
             web' = [NoBody EXCEPT !.pc = "idle", !.tries = 0, !.size = web.pos, !.eof = web.pos],
             site' = site
      PROVE  WebInv'
  <2>1. Retold(web.pos, Eof) /\ (BodyCut' <=> c /\ ~site.framed)
    BY <1>2, <1>6 DEF Retold, BodyCut, WebShape, TaleFields
  <2>2. web.pos >= FileUnits \/ BodyCut'
    BY <1>3, <1>4, <1>6, <2>1
  <2>3. /\ DOMAIN web' = WebFields /\ web'.s3 = web.s3 /\ web'.op = web.op
        /\ web'.pc = "idle" /\ web'.pos = web.pos /\ web'.body = -1
        /\ web'.size = web.pos /\ web'.eof = web.pos /\ web'.spans = web.spans
    BY <1>2, <1>6 DEF WebShape, WebFields, NoBody
  <2>4. ReaderPlace'
    BY <1>2, <1>3, <2>2, <2>3 DEF ReaderPlace
  <2> QED
    BY <1>2, <2>1, <2>2, <2>3, <2>4, EofRight, ReaderMoves DEF Retold
<1>7. ASSUME NEW n, site' = site, tale' = tale,
             web' = [web EXCEPT !.pc = "idle", !.tries = 0] \/ web' = [web EXCEPT !.tries = n]
      PROVE  WebInv'
  <2>1. /\ DOMAIN web' = WebFields /\ web'.s3 = web.s3 /\ web'.op = web.op
        /\ web'.pc \in {"idle", "take"} /\ web'.pos = web.pos /\ web'.body = web.body
        /\ web'.size = web.size /\ web'.eof = web.eof /\ web'.spans = web.spans
    BY <1>1, <1>2, <1>7 DEF WebShape, WebFields
  <2>2. ReaderPlace'
    BY <1>1, <1>2, <1>7, <2>1 DEF ReaderPlace, BodyCut
  <2> QED
    BY <1>2, <1>7, <2>1, <2>2, ReaderQuiet
<1>8. ASSUME web.body >= FileUnits,
             tale' = [tale EXCEPT !.at = web.pos, !.got = Eof],
             web' = [NoBody EXCEPT !.pc = "idle", !.tries = 0, !.size = web.pos, !.eof = web.pos],
             UNCHANGED site
      PROVE  WebInv'
  <2>1. tale' = [tale EXCEPT !.at = web.pos, !.got = Eof, !.cut = tale.cut]
    BY <1>2, <1>8 DEF WebShape, TaleFields
  <2> QED
    BY <1>6, <1>8, <2>1
<1>9. ASSUME ~site.framed /\ web.body < FileUnits,
             tale' = [tale EXCEPT !.at = web.pos, !.got = Eof, !.cut = TRUE],
             web' = [NoBody EXCEPT !.pc = "idle", !.tries = 0, !.size = web.pos, !.eof = web.pos],
             UNCHANGED site
      PROVE  WebInv'
  BY <1>6, <1>9
<1>10. ASSUME web' = [web EXCEPT !.tries = @ + 1], UNCHANGED <<site, tale>> PROVE WebInv'
  BY <1>7, <1>10
<1>11. ASSUME web' = [web EXCEPT !.pc = "idle", !.tries = 0], UNCHANGED <<site, tale>> PROVE WebInv'
  BY <1>7, <1>11
<1> QED
  BY <1>2, <1>5, <1>8, <1>9, <1>10, <1>11, ResumeKeeps, Zenon DEF TakeBody

LEMMA SeekKeeps ==
    ASSUME WebInv, Seek
    PROVE  WebInv'
<1>1. site.kind = "read" /\ web.pc = "idle" /\ site' = site /\ tale' = tale
  BY DEF Seek
<1>2. WebShape /\ ReaderPlace /\ FileUnits \in Nat
  BY <1>1, ReadingIsRead, WebAssumption
<1>3. ASSUME NEW to \in 0 .. FileUnits + 1, web' = IF to = web.pos THEN web ELSE [NoBody EXCEPT !.pos = to]
      PROVE  WebInv'
  <2>1. to \in Nat
    BY <1>2
  <2>2. /\ DOMAIN web' = WebFields /\ web'.s3 = web.s3 /\ web'.op = web.op
        /\ web'.pc = web.pc /\ web'.pos = to /\ web'.body = (IF to = web.pos THEN web.body ELSE -1)
        /\ web'.size = web.size /\ web'.eof = web.eof /\ web'.spans = web.spans
    BY <1>2, <1>3 DEF WebShape, WebFields, NoBody
  <2>3. ReaderPlace'
    BY <1>1, <1>2, <2>1, <2>2 DEF ReaderPlace, BodyCut
  <2> QED
    BY <1>1, <2>2, <2>3, ReaderQuiet
<1>4. ASSUME web' = IF AskSize.size = web.pos THEN AskSize ELSE [AskSize EXCEPT !.body = -1, !.pos = AskSize.size]
      PROVE  WebInv'
  <2> DEFINE w == AskSize
  <2>1. /\ DOMAIN w = WebFields /\ w.s3 = web.s3 /\ w.op = web.op /\ w.pc = web.pc /\ w.pos = web.pos
        /\ w.body \in {web.body, -1} /\ w.spans = web.spans
        /\ w.size \in Nat /\ w.eof \in {web.eof, FileUnits}
    BY <1>2 DEF WebShape, WebFields, AskSize, NoBody, ReaderPlace
  <2> HIDE DEF w
  <2>2. web' = IF w.size = web.pos THEN w ELSE [w EXCEPT !.body = -1, !.pos = w.size]
    BY <1>4 DEF w
  <2>3. /\ DOMAIN web' = WebFields /\ web'.s3 = web.s3 /\ web'.op = web.op
        /\ web'.pc = web.pc /\ web'.pos = w.size
        /\ (web'.body = web.body /\ web'.pos = web.pos) \/ web'.body = -1
        /\ web'.size = w.size /\ web'.eof = w.eof /\ web'.spans = web.spans
    BY <2>1, <2>2 DEF WebFields
  <2>4. ReaderPlace'
    BY <1>1, <1>2, <2>1, <2>3 DEF ReaderPlace, BodyCut
  <2> QED
    BY <1>1, <2>3, <2>4, ReaderQuiet
<1> QED
  BY <1>3, <1>4, Zenon DEF Seek

LEMMA ReadVEndsKeeps ==
    ASSUME WebInv, site.kind = "read", ReadVEnds, site' = site, tale' = tale
    PROVE  WebInv'
<1>1. WebShape /\ ReaderPlace
  BY ReadingIsRead
<1>2. /\ DOMAIN web' = WebFields /\ web'.s3 = web.s3 /\ web'.op = web.op
      /\ web'.pc = "idle" /\ web'.pos = web.pos /\ web'.body = web.body
      /\ web'.size = web.size /\ web'.eof = web.eof /\ web'.spans = {}
  BY <1>1 DEF WebShape, WebFields, ReadVEnds
<1>3. ReaderPlace'
  BY <1>1, <1>2 DEF ReaderPlace, BodyCut
<1> QED
  BY <1>1, <1>2, <1>3, ReaderQuiet

\* Pieces are told, and the last plain read stays as it was told.
PieceRight(piece, cut) ==
    \/ piece.got = Right(piece.span)
    \/ cut /\ \E n \in 0 .. piece.span.len : piece.got = Clip(piece.span.off, piece.span.off + n)

LEMMA PiecesRight ==
    ASSUME WebInv, site.kind = "read", site' = site, tale.cut => tale'.cut,
           tale'.at = tale.at, tale'.got = tale.got, \A piece \in tale'.pieces : PieceRight(piece, BodyCut')
    PROVE  WebReadRight' /\ (BodyCut => BodyCut')
<1>1. WebReadRight
  BY ReadingIsRead
<1>2. BodyCut => BodyCut'
  BY DEF BodyCut
<1>3. WebReadRight'
  BY <1>1, <1>2 DEF WebReadRight, PieceRight
<1> QED
  BY <1>2, <1>3

LEMMA BeginReadVKeeps ==
    ASSUME WebInv, BeginReadV
    PROVE  WebInv'
<1>1. site.kind = "read" /\ web.pc = "idle" /\ site' = site
      /\ tale' = [tale EXCEPT !.at = 0, !.got = << >>, !.pieces = {}]
  BY DEF BeginReadV
<1>2. WebShape /\ ReaderPlace
  BY <1>1, ReadingIsRead
<1>3. PICK spans \in SUBSET Spans \ {{}} :
         web' = [NoBody EXCEPT !.spans = spans, !.pc = IF web.multirange /\ Cardinality(spans) > 1 THEN "ranges" ELSE "span"]
  BY Zenon DEF BeginReadV
<1>4. /\ DOMAIN web' = WebFields /\ web'.s3 = web.s3 /\ web'.op = web.op
      /\ web'.pc \in {"ranges", "span"} /\ web'.pos = web.pos /\ web'.body = -1
      /\ web'.size = web.size /\ web'.eof = web.eof /\ web'.spans \subseteq Spans
  BY <1>2, <1>3 DEF WebShape, WebFields, NoBody
<1>5. Retold(0, << >>) /\ (BodyCut' <=> BodyCut)
  BY <1>1, <1>2 DEF WebShape, TaleFields, Retold, BodyCut
<1>6. ReaderPlace'
  BY <1>2, <1>4, <1>5 DEF ReaderPlace
<1> QED
  BY <1>1, <1>4, <1>5, <1>6, NothingYet, ReaderMoves DEF Retold

LEMMA TakeRangesKeeps ==
    ASSUME WebInv, TakeRanges
    PROVE  WebInv'
<1>1. web.pc = "ranges" /\ site' = site
  BY DEF TakeRanges
<1>2. WebShape /\ site.kind = "read" /\ ReaderPlace
  BY <1>1, ReadingIsRead
<1>3. ASSUME NEW filled, NEW again, tale' = [tale EXCEPT !.pieces = {Piece(s, Right(s)) : s \in filled}],
             web' = [web EXCEPT !.pc = "span", !.spans = @ \ filled, !.multirange = again]
      PROVE  WebInv'
  <2>1. /\ DOMAIN web' = WebFields /\ web'.s3 = web.s3 /\ web'.op = web.op
        /\ web'.pc = "span" /\ web'.pos = web.pos /\ web'.body = web.body
        /\ web'.size = web.size /\ web'.eof = web.eof /\ web'.spans = web.spans \ filled
    BY <1>2, <1>3 DEF WebShape, WebFields
  <2> DEFINE pieces == {Piece(s, Right(s)) : s \in filled}
  <2>2. \A piece \in pieces : PieceRight(piece, BodyCut')
    BY DEF Piece, PieceRight
  <2> HIDE DEF pieces
  <2>3. /\ DOMAIN tale' = TaleFields /\ tale'.told = tale.told /\ tale'.overwrote = tale.overwrote
        /\ tale'.at = tale.at /\ tale'.got = tale.got /\ tale'.pieces = pieces /\ tale'.cut = tale.cut
    BY <1>2, <1>3 DEF WebShape, TaleFields, pieces
  <2>4. WebReadRight' /\ (BodyCut => BodyCut')
    BY <1>1, <1>2, <2>2, <2>3, PiecesRight
  <2>5. ReaderPlace'
    BY <1>2, <2>1, <2>4 DEF ReaderPlace
  <2> QED
    BY <1>1, <1>2, <2>1, <2>3, <2>4, <2>5, ReaderMoves
<1>4. ASSUME ReadVEnds, tale' = tale
      PROVE  WebInv'
  BY <1>1, <1>2, <1>4, ReadVEndsKeeps
<1> QED
  BY <1>3, <1>4, Zenon DEF TakeRanges

\* A span read on its own is the span, whether the server serves ranges or
\* the whole file has to be skipped through.
LEMMA SpanRight ==
    ASSUME NEW s \in Spans
    PROVE  Clip(Skipped(s.off), Skipped(s.off) + s.len) = Right(s)
<1>1. s.off \in Nat /\ s.len \in Nat /\ FileUnits \in Nat /\ s.off + s.len \in Nat /\ FileUnits + s.len \in Nat
  BY WebAssumption
<1>2. Skipped(s.off) = IF site.ranges THEN s.off ELSE IF s.off <= FileUnits THEN s.off ELSE FileUnits
  BY <1>1, SkippedAt
<1>3. CASE site.ranges \/ s.off <= FileUnits
  BY <1>2, <1>3 DEF Right
<1>4. CASE ~(site.ranges \/ s.off <= FileUnits)
  <2>1. Skipped(s.off) = FileUnits /\ s.off >= FileUnits /\ FileUnits >= FileUnits
    BY <1>1, <1>2, <1>4
  <2>2. Clip(FileUnits, FileUnits + s.len) = << >>
    BY ONLY <1>1, <2>1, ClipPast
  <2>3. Clip(s.off, s.off + s.len) = << >>
    BY ONLY <1>1, <2>1, ClipPast
  <2> QED
    BY <2>1, <2>2, <2>3 DEF Right
<1> QED
  BY <1>3, <1>4

LEMMA TakeSpanKeeps ==
    ASSUME WebInv, TakeSpan
    PROVE  WebInv'
<1>1. web.pc = "span" /\ site' = site
  BY DEF TakeSpan
<1>2. WebShape /\ site.kind = "read" /\ ReaderPlace /\ WebReadRight
  BY <1>1, ReadingIsRead
<1>3. ASSUME NEW s \in web.spans, web' = [web EXCEPT !.spans = @ \ {s}],
             NEW got, tale.cut => tale'.cut, PieceRight(Piece(s, got), BodyCut'),
             DOMAIN tale' = TaleFields, tale'.told = tale.told, tale'.overwrote = tale.overwrote,
             tale'.at = tale.at, tale'.got = tale.got, tale'.pieces = tale.pieces \cup {Piece(s, got)}
      PROVE  WebInv'
  <2>1. /\ DOMAIN web' = WebFields /\ web'.s3 = web.s3 /\ web'.op = web.op
        /\ web'.pc = "span" /\ web'.pos = web.pos /\ web'.body = web.body
        /\ web'.size = web.size /\ web'.eof = web.eof /\ web'.spans = web.spans \ {s}
    BY <1>1, <1>2, <1>3 DEF WebShape, WebFields
  <2>2. BodyCut => BodyCut'
    BY <1>1, <1>3 DEF BodyCut
  <2>3. \A piece \in tale'.pieces : PieceRight(piece, BodyCut')
    BY <1>2, <1>3, <2>2 DEF WebReadRight, PieceRight
  <2>4. WebReadRight' /\ (BodyCut => BodyCut')
    BY <1>1, <1>2, <1>3, <2>3, PiecesRight
  <2>5. ReaderPlace'
    BY <1>2, <2>1, <2>4 DEF ReaderPlace
  <2> QED
    BY <1>1, <1>2, <1>3, <2>1, <2>4, <2>5, ReaderMoves
<1>4. ASSUME ReadVEnds, tale' = tale
      PROVE  WebInv'
  BY <1>1, <1>2, <1>4, ReadVEndsKeeps
<1>5. ASSUME NEW s \in web.spans, web' = [web EXCEPT !.spans = @ \ {s}],
             tale' = [tale EXCEPT !.pieces = @ \cup {Piece(s, Clip(Skipped(s.off), Skipped(s.off) + s.len))}]
      PROVE  WebInv'
  <2>1. s \in Spans
    BY <1>2, <1>5 DEF ReaderPlace
  <2>2. Clip(Skipped(s.off), Skipped(s.off) + s.len) = Right(s)
    BY <2>1, SpanRight
  <2>3. PieceRight(Piece(s, Right(s)), BodyCut')
    BY DEF PieceRight, Piece
  <2>4. /\ DOMAIN tale' = TaleFields /\ tale'.told = tale.told /\ tale'.overwrote = tale.overwrote
        /\ tale'.at = tale.at /\ tale'.got = tale.got /\ tale'.pieces = tale.pieces \cup {Piece(s, Right(s))}
        /\ tale'.cut = tale.cut
    BY <1>2, <1>5, <2>2 DEF WebShape, TaleFields
  <2> QED
    BY <1>3, <1>5, <2>3, <2>4
<1>6. ASSUME NEW s \in web.spans, web' = [web EXCEPT !.spans = @ \ {s}], NEW n \in 0 .. s.len, ~site.framed,
             tale' = [tale EXCEPT !.pieces = @ \cup {Piece(s, Clip(s.off, s.off + n))}, !.cut = TRUE]
      PROVE  WebInv'
  <2>1. /\ DOMAIN tale' = TaleFields /\ tale'.told = tale.told /\ tale'.overwrote = tale.overwrote
        /\ tale'.at = tale.at /\ tale'.got = tale.got /\ tale'.cut = TRUE
        /\ tale'.pieces = tale.pieces \cup {Piece(s, Clip(s.off, s.off + n))}
    BY <1>2, <1>6 DEF WebShape, TaleFields
  <2>2. BodyCut'
    BY <1>1, <1>6, <2>1 DEF BodyCut
  <2>3. PieceRight(Piece(s, Clip(s.off, s.off + n)), BodyCut')
    BY <1>6, <2>2 DEF PieceRight, Piece
  <2> QED
    BY <1>3, <1>6, <2>1, <2>3
<1> QED
  BY <1>4, <1>5, <1>6, Zenon DEF TakeSpan

-----------------------------------------------------------------------------
(* Writing.                                                                *)

LEMMA UptoNext ==
    ASSUME NEW n \in Nat
    PROVE  Upto(n) \in Seq(Nat) /\ Len(Upto(n)) = n /\ Append(Upto(n), n + 1) = Upto(n + 1)
<1>1. \A m \in Nat : Upto(m) \in Seq(Nat) /\ Len(Upto(m)) = m
  BY IsASeq DEF Upto
<1>2. n + 1 \in Nat /\ Upto(n + 1) \in Seq(Nat) /\ Len(Upto(n + 1)) = n + 1 /\ Upto(n) \in Seq(Nat) /\ Len(Upto(n)) = n
  BY <1>1
<1>3. /\ Append(Upto(n), n + 1) \in Seq(Nat) /\ Len(Append(Upto(n), n + 1)) = n + 1
      /\ \A i \in 1 .. n : Append(Upto(n), n + 1)[i] = Upto(n)[i]
      /\ Append(Upto(n), n + 1)[n + 1] = n + 1
  BY <1>2, AppendProperties
<1>4. \A i \in 1 .. n + 1 : Append(Upto(n), n + 1)[i] = Upto(n + 1)[i]
  <2>1. \A i \in 1 .. n + 1 : Upto(n + 1)[i] = i
    BY DEF Upto
  <2>2. \A i \in 1 .. n : Upto(n)[i] = i
    BY DEF Upto
  <2>3. \A i \in 1 .. n + 1 : i \in 1 .. n \/ i = n + 1
    OBVIOUS
  <2> QED
    BY <1>3, <2>1, <2>2, <2>3
<1>5. Append(Upto(n), n + 1) = Upto(n + 1)
  BY ONLY <1>2, <1>3, <1>4, SeqEqual
<1> QED
  BY <1>2, <1>5

\* What is sent, about to be sent and held, put together in order.
LEMMA Joined ==
    ASSUME NEW p \in Seq(Nat), NEW q \in Seq(Nat), NEW b \in Seq(Nat)
    PROVE  /\ (p \o q) \o << >> = p \o q
           /\ p \o << >> = p
           /\ << >> \o b = b
           /\ p \o q \in Seq(Nat) /\ (p \o q) \o b \in Seq(Nat)
<1>1. p \o q \in Seq(Nat) /\ (p \o q) \o b \in Seq(Nat)
  BY ConcatProperties
<1>2. (p \o q) \o << >> = p \o q /\ p \o << >> = p /\ << >> \o b = b
  BY <1>1, ConcatEmptySeq
<1> QED
  BY <1>1, <1>2

LEMMA OneMore ==
    ASSUME NEW b \in Seq(Nat), NEW n \in Nat
    PROVE  Append(b, n) \in Seq(Nat) /\ Append(b, n) # << >>
BY AppendProperties

LEMMA OneMorePending ==
    ASSUME NEW p \in Seq(Nat), NEW q \in Seq(Nat), NEW n \in Nat
    PROVE  p \o Append(q, n) = Append(p \o q, n)
<1>1. <<n>> \in Seq(Nat) /\ p \o q \in Seq(Nat)
  BY ConcatProperties
<1>2. Append(q, n) = q \o <<n>> /\ Append(p \o q, n) = (p \o q) \o <<n>>
  BY <1>1, AppendIsConcat
<1>3. (p \o q) \o <<n>> = p \o (q \o <<n>>)
  BY <1>1, ConcatAssociative
<1> QED
  BY ONLY <1>2, <1>3, Zenon

LEMMA OneMoreHeld ==
    ASSUME NEW p \in Seq(Nat), NEW q \in Seq(Nat), NEW b \in Seq(Nat), NEW n \in Nat
    PROVE  (p \o q) \o Append(b, n) = Append((p \o q) \o b, n)
<1> DEFINE r == p \o q
<1>1. r \in Seq(Nat)
  BY ConcatProperties
<1> HIDE DEF r
<1>2. r \o Append(b, n) = Append(r \o b, n)
  BY <1>1, OneMorePending
<1> QED
  BY <1>2 DEF r

LEMMA WritingIsWrite ==
    ASSUME WebInv, site.kind = "write" \/ web.pc \in Writing
    PROVE  /\ WebShape /\ site.kind = "write"
           /\ WriteTypes /\ WritePlaces /\ NothingLost /\ UploadsNamed /\ UploadHonest
BY DEF WebInv, WebShape, CallLane, MkdirLane, RenameLane, ReadLane, ReaderPlace, WriteLane, Writing

LEMMA WriterMoves ==
    ASSUME WebInv, site.kind = "write",
           DOMAIN web' = WebFields, DOMAIN site' = SiteFields, site'.kind = "write", DOMAIN tale' = TaleFields,
           tale'.told = tale.told, tale'.got = tale.got, tale'.at = tale.at, tale'.pieces = tale.pieces,
           WriteTypes', WritePlaces', NothingLost', UploadsNamed', UploadHonest'
    PROVE  WebInv'
<1>1. WebShape' /\ WriteLane'
  BY DEF WebShape, WriteLane
<1> QED
  BY <1>1, WriteStep

LEMMA OpenWriterKeeps ==
    ASSUME WebInv, OpenWriter
    PROVE  WebInv'
<1>1. site.kind = "write" /\ web.op = "none" /\ site' = site /\ tale' = tale
  BY DEF OpenWriter
<1>2. WebShape /\ WriteTypes /\ WritePlaces /\ NothingLost /\ UploadsNamed
  BY <1>1, WritingIsWrite
<1>3. web.pc = "idle"
  BY <1>1, <1>2 DEF WriteTypes
<1>4. PICK s3, excl \in BOOLEAN :
         web' = [web EXCEPT !.s3 = s3, !.excl = excl, !.op = "write",
                            !.pc = IF excl /\ site.obj # NoObject THEN "over" ELSE "write",
                            !.result = IF excl /\ site.obj # NoObject THEN "error" ELSE @]
  BY DEF OpenWriter
<1>5. /\ DOMAIN web' = WebFields /\ web'.s3 = s3 /\ web'.op = "write"
      /\ \/ web'.pc = "over" /\ web'.result = "error"
         \/ web'.pc = "write" /\ web'.result = web.result
      /\ web'.buf = web.buf /\ web'.up = web.up /\ web'.pend = web.pend /\ web'.parts = web.parts
      /\ web'.failure = web.failure /\ web'.wrote = web.wrote
  BY <1>2, <1>4 DEF WebShape, WebFields
<1>6. /\ ~tale.raised /\ ~web.failure /\ web.up = "none" /\ ~tale.overwrote
      /\ web.result = "none" /\ site.obj \in {NoObject, Theirs}
  BY <1>2, <1>3 DEF WritePlaces
<1>7. WriteTypes'
  BY <1>1, <1>2, <1>5 DEF WriteTypes, Writing
<1>8. WritePlaces'
  BY <1>1, <1>2, <1>5, <1>6 DEF WritePlaces, Streaming
<1>9. NothingLost'
  BY <1>1, <1>2, <1>3, <1>5, <1>6 DEF NothingLost, AllWritten, Writing
<1>10. UploadsNamed'
  BY <1>1, <1>2, <1>5, <1>6 DEF UploadsNamed
<1>11. UploadHonest'
  BY <1>1, <1>2, <1>5, <1>6 DEF UploadHonest, UploadsNamed
<1> QED
  BY <1>1, <1>2, <1>5, <1>7, <1>8, <1>9, <1>10, <1>11, WriterMoves DEF WebShape

LEMMA WriteUnitKeeps ==
    ASSUME WebInv, WriteUnit
    PROVE  WebInv'
<1>1. web.pc = "write" /\ site' = site
  BY DEF WriteUnit
<1>2. WebShape /\ site.kind = "write" /\ WriteTypes /\ WritePlaces /\ NothingLost /\ UploadsNamed
  BY <1>1, WritingIsWrite DEF Writing
<1> DEFINE n == web.wrote + 1
           w == [web EXCEPT !.wrote = n]
<1>3. n \in Nat /\ web.wrote \in Nat /\ web.parts \in Seq(Nat) /\ web.pend \in Seq(Nat) /\ web.buf \in Seq(Nat)
  BY <1>2 DEF WriteTypes
<1>4. \/ web.failure /\ Raise(w)
      \/ /\ web.up # "none" /\ ~web.failure /\ tale' = tale
         /\ web' = [w EXCEPT !.pend = Append(@, n), !.pc = "drain"]
      \/ /\ web.up = "none" /\ ~web.failure /\ tale' = tale
         /\ web' = [w EXCEPT !.buf = Append(@, n), !.pc = IF Len(web.buf) < StreamAfter THEN "write" ELSE "begin"]
  BY DEF WriteUnit, Streaming
<1>5. Append(Upto(web.wrote), n) = Upto(n)
  BY <1>3, UptoNext
<1> HIDE DEF n
<1>6. CASE web.failure /\ Raise(w)
  <2>1. /\ DOMAIN web' = WebFields /\ web'.s3 = web.s3 /\ web'.op = web.op /\ web'.pc = "write" /\ web'.result = web.result
        /\ web'.buf = web.buf /\ web'.up = web.up /\ web'.pend = web.pend /\ web'.parts = web.parts
        /\ web'.failure = web.failure /\ web'.wrote = n
    BY <1>2, <1>6 DEF WebShape, WebFields, Raise
  <2>2. /\ DOMAIN tale' = TaleFields /\ tale'.told = tale.told /\ tale'.got = tale.got /\ tale'.at = tale.at
        /\ tale'.pieces = tale.pieces /\ tale'.raised = TRUE /\ tale'.orphan = tale.orphan /\ tale'.overwrote = tale.overwrote
    BY <1>2, <1>6 DEF WebShape, TaleFields, Raise
  <2>3. WriteTypes'
    BY <1>1, <1>2, <1>3, <2>1, <2>2 DEF WriteTypes, Writing
  <2>4. WritePlaces'
    BY <1>1, <1>2, <2>1, <2>2 DEF WritePlaces, Streaming
  <2>5. NothingLost' /\ UploadsNamed'
    BY <1>1, <1>2, <1>6, <2>1, <2>2 DEF NothingLost, UploadsNamed
  <2>6. UploadHonest'
    BY <2>1, <2>3, <2>4 DEF WriteTypes, WritePlaces, UploadHonest, NoObject, Theirs
  <2> QED
    BY <1>1, <1>2, <2>1, <2>2, <2>3, <2>4, <2>5, <2>6, WriterMoves DEF WebShape
<1>7. CASE /\ web.up # "none" /\ ~web.failure /\ tale' = tale
           /\ web' = [w EXCEPT !.pend = Append(@, n), !.pc = "drain"]
  <2>1. /\ DOMAIN web' = WebFields /\ web'.s3 = web.s3 /\ web'.op = web.op /\ web'.pc = "drain" /\ web'.result = web.result
        /\ web'.buf = web.buf /\ web'.up = web.up /\ web'.pend = Append(web.pend, n) /\ web'.parts = web.parts
        /\ web'.failure = web.failure /\ web'.wrote = n
    BY <1>2, <1>7 DEF WebShape, WebFields
  <2>2. web.up = "open" /\ web.buf = << >> /\ Append(web.pend, n) \in Seq(Nat) /\ Append(web.pend, n) # << >>
    BY <1>2, <1>3, <1>7, OneMore DEF WriteTypes, WritePlaces
  <2>3. WriteTypes'
    BY <1>1, <1>2, <1>3, <1>7, <2>1, <2>2 DEF WriteTypes, Writing
  <2>4. WritePlaces'
    BY <1>1, <1>2, <1>7, <2>1, <2>2 DEF WritePlaces, Streaming
  <2>5. NothingLost'
    <3>1. AllWritten = web.parts \o web.pend
      BY <1>3, <2>2, Joined DEF AllWritten
    <3>2. AllWritten' = web.parts \o Append(web.pend, n)
      BY <1>3, <2>1, <2>2, Joined DEF AllWritten
    <3>3. AllWritten' = Append(AllWritten, n)
      BY <1>3, <3>1, <3>2, OneMorePending
    <3>4. (web.s3 /\ ~web.failure) \/ ~tale.raised => AllWritten = Upto(web.wrote)
      BY <1>1, <1>2 DEF NothingLost, Writing
    <3>5. Upto(web.wrote)' = Upto(n)
      BY <2>1 DEF Upto
    <3> QED
      BY <1>5, <1>7, <2>1, <3>3, <3>4, <3>5 DEF NothingLost
  <2>6. UploadsNamed'
    BY <1>1, <1>2, <1>7, <2>1 DEF UploadsNamed
  <2>7. UploadHonest'
    BY <1>1, <1>7, <2>1, <2>3, <2>4 DEF WriteTypes, WritePlaces, UploadHonest, NoObject, Theirs
  <2> QED
    BY <1>1, <1>2, <1>7, <2>1, <2>3, <2>4, <2>5, <2>6, <2>7, WriterMoves DEF WebShape
<1>8. CASE /\ web.up = "none" /\ ~web.failure /\ tale' = tale
           /\ web' = [w EXCEPT !.buf = Append(@, n), !.pc = IF Len(web.buf) < StreamAfter THEN "write" ELSE "begin"]
  <2>1. /\ DOMAIN web' = WebFields /\ web'.s3 = web.s3 /\ web'.op = web.op /\ web'.pc \in {"write", "begin"} /\ web'.result = web.result
        /\ web'.buf = Append(web.buf, n) /\ web'.up = web.up /\ web'.pend = web.pend /\ web'.parts = web.parts
        /\ web'.failure = web.failure /\ web'.wrote = n
    BY <1>2, <1>8 DEF WebShape, WebFields
  <2>2. Append(web.buf, n) \in Seq(Nat) /\ Append(web.buf, n) # << >>
    BY <1>3, OneMore
  <2>3. WriteTypes'
    BY <1>1, <1>2, <1>3, <1>8, <2>1, <2>2 DEF WriteTypes, Writing
  <2>4. WritePlaces'
    BY <1>1, <1>2, <1>8, <2>1, <2>2 DEF WritePlaces, Streaming
  <2>5. NothingLost'
    <3>1. AllWritten' = (web.parts \o web.pend) \o Append(web.buf, n)
      BY <2>1 DEF AllWritten
    <3>2. AllWritten' = Append(AllWritten, n)
      BY <1>3, <3>1, OneMoreHeld DEF AllWritten
    <3>3. (web.s3 /\ ~web.failure) \/ ~tale.raised => AllWritten = Upto(web.wrote)
      BY <1>1, <1>2 DEF NothingLost, Writing
    <3>4. Upto(web.wrote)' = Upto(n)
      BY <2>1 DEF Upto
    <3> QED
      BY <1>5, <1>8, <2>1, <3>2, <3>3, <3>4 DEF NothingLost
  <2>6. UploadsNamed'
    BY <1>1, <1>2, <1>8, <2>1 DEF UploadsNamed
  <2>7. UploadHonest'
    BY <1>1, <1>8, <2>1, <2>3, <2>4 DEF WriteTypes, WritePlaces, UploadHonest, NoObject, Theirs
  <2> QED
    BY <1>1, <1>2, <1>8, <2>1, <2>3, <2>4, <2>5, <2>6, <2>7, WriterMoves DEF WebShape
<1> QED
  BY <1>4, <1>6, <1>7, <1>8

LEMMA BeginUploadKeeps ==
    ASSUME WebInv, BeginUpload
    PROVE  WebInv'
<1>1. web.pc = "begin"
  BY DEF BeginUpload
<1>2. WebShape /\ site.kind = "write" /\ WriteTypes /\ WritePlaces /\ NothingLost /\ UploadsNamed
  BY <1>1, WritingIsWrite DEF Writing
<1>3. /\ web.up = "none" /\ ~web.failure /\ web.parts = << >> /\ web.pend = << >> /\ web.buf # << >> /\ web.buf \in Seq(Nat)
      /\ << >> \in Seq(Nat)
  BY <1>1, <1>2 DEF WritePlaces, Streaming, WriteTypes
<1>4. site.uploads # {} => tale.orphan
  BY <1>2, <1>3 DEF UploadsNamed
<1>5. AllWritten = web.buf
  BY <1>3, Joined DEF AllWritten
<1>6. (web.s3 /\ ~web.failure) \/ ~tale.raised => web.buf = Upto(web.wrote)
  BY <1>1, <1>2, <1>5 DEF NothingLost, Writing
<1>7. ASSUME web' = [web EXCEPT !.up = "open", !.pend = web.buf, !.buf = << >>, !.pc = "drain"],
             site' = [site EXCEPT !.uploads = IF web.s3 THEN @ \cup {"ours"} ELSE @], tale' = tale
      PROVE  WebInv'
  <2>1. /\ DOMAIN web' = WebFields /\ web'.s3 = web.s3 /\ web'.op = web.op /\ web'.pc = "drain" /\ web'.result = web.result
        /\ web'.buf = << >> /\ web'.up = "open" /\ web'.pend = web.buf /\ web'.parts = web.parts
        /\ web'.failure = web.failure /\ web'.wrote = web.wrote
    BY <1>2, <1>7 DEF WebShape, WebFields
  <2>2. /\ DOMAIN site' = SiteFields /\ site'.kind = "write" /\ site'.obj = site.obj
        /\ site'.uploads = IF web.s3 THEN site.uploads \cup {"ours"} ELSE site.uploads
    BY <1>2, <1>7 DEF WebShape, SiteFields
  <2>3. WriteTypes'
    BY <1>1, <1>2, <1>3, <1>7, <2>1 DEF WriteTypes, Writing
  <2>4. WritePlaces'
    BY <1>1, <1>2, <1>3, <1>7, <2>1, <2>2 DEF WritePlaces, Streaming
  <2>5. NothingLost'
    <3>1. AllWritten' = (<< >> \o web.buf) \o << >>
      BY <1>3, <2>1 DEF AllWritten
    <3>2. AllWritten' = web.buf
      BY <1>3, <3>1, Joined
    <3>3. Upto(web.wrote)' = Upto(web.wrote)
      BY <2>1 DEF Upto
    <3> QED
      BY <1>6, <1>7, <2>1, <3>2, <3>3 DEF NothingLost
  <2>6. UploadsNamed'
    BY <1>4, <1>7, <2>1, <2>2 DEF UploadsNamed
  <2>7. UploadHonest'
    BY <2>1, <2>3, <2>4 DEF WriteTypes, WritePlaces, UploadHonest, NoObject, Theirs
  <2> QED
    BY <1>2, <1>7, <2>1, <2>2, <2>3, <2>4, <2>5, <2>6, <2>7, WriterMoves DEF WebShape
<1>8. ASSUME web' = [web EXCEPT !.pc = "write"], DOMAIN site' = SiteFields, site'.kind = "write", site'.obj = site.obj,
             DOMAIN tale' = TaleFields, tale'.told = tale.told, tale'.got = tale.got, tale'.at = tale.at,
             tale'.pieces = tale.pieces, tale'.raised = TRUE, tale'.overwrote = tale.overwrote,
             tale'.orphan \in BOOLEAN, site'.uploads # {} => tale'.orphan
      PROVE  WebInv'
  <2>1. /\ DOMAIN web' = WebFields /\ web'.s3 = web.s3 /\ web'.op = web.op /\ web'.pc = "write" /\ web'.result = web.result
        /\ web'.buf = web.buf /\ web'.up = web.up /\ web'.pend = web.pend /\ web'.parts = web.parts
        /\ web'.failure = web.failure /\ web'.wrote = web.wrote
    BY <1>2, <1>8 DEF WebShape, WebFields
  <2>2. WriteTypes'
    BY <1>1, <1>2, <1>8, <2>1 DEF WriteTypes, Writing
  <2>3. WritePlaces'
    BY <1>1, <1>2, <1>8, <2>1 DEF WritePlaces, Streaming
  <2>4. NothingLost'
    <3>1. AllWritten' = AllWritten /\ Upto(web.wrote)' = Upto(web.wrote)
      BY <2>1 DEF AllWritten, Upto
    <3> QED
      BY <1>5, <1>6, <1>8, <2>1, <3>1 DEF NothingLost
  <2>5. UploadsNamed'
    BY <1>8 DEF UploadsNamed
  <2>6. UploadHonest'
    BY <2>1, <2>2, <2>3 DEF WriteTypes, WritePlaces, UploadHonest, NoObject, Theirs
  <2> QED
    BY <1>2, <1>8, <2>1, <2>2, <2>3, <2>4, <2>5, <2>6, WriterMoves
<1>9. ASSUME Raise(web), site' = site
      PROVE  WebInv'
  <2>1. /\ DOMAIN tale' = TaleFields /\ tale'.told = tale.told /\ tale'.got = tale.got /\ tale'.at = tale.at
        /\ tale'.pieces = tale.pieces /\ tale'.raised = TRUE /\ tale'.orphan = tale.orphan /\ tale'.overwrote = tale.overwrote
    BY <1>2, <1>9 DEF WebShape, TaleFields, Raise
  <2>2. tale.orphan \in BOOLEAN /\ DOMAIN site = SiteFields
    BY <1>2 DEF WriteTypes, WebShape
  <2>3. web' = [web EXCEPT !.pc = "write"]
    BY <1>9 DEF Raise
  <2> QED
    BY <1>2, <1>4, <1>8, <1>9, <2>1, <2>2, <2>3
<1>10. ASSUME web' = [web EXCEPT !.pc = "write"], site' = [site EXCEPT !.uploads = @ \cup {"unnamed"}],
              tale' = [tale EXCEPT !.raised = TRUE, !.orphan = TRUE]
       PROVE  WebInv'
  <2>1. /\ DOMAIN tale' = TaleFields /\ tale'.told = tale.told /\ tale'.got = tale.got /\ tale'.at = tale.at
        /\ tale'.pieces = tale.pieces /\ tale'.raised = TRUE /\ tale'.orphan = TRUE /\ tale'.overwrote = tale.overwrote
    BY <1>2, <1>10 DEF WebShape, TaleFields
  <2>2. DOMAIN site' = SiteFields /\ site'.kind = "write" /\ site'.obj = site.obj
    BY <1>2, <1>10 DEF WebShape, SiteFields
  <2> QED
    BY <1>8, <1>10, <2>1, <2>2
<1> QED
  BY <1>7, <1>9, <1>10, Zenon DEF BeginUpload

\* A multipart upload that is given up is gone, or the abort was lost too; an
\* upload that is not one has nothing to give up.
LEMMA AbortedEnd ==
    ASSUME WebInv, web.pc \in {"drain", "last", "finish"}, NEW end \in Aborted
    PROVE  /\ DOMAIN end[1] = SiteFields /\ end[1].kind = "write" /\ end[1].obj = site.obj
           /\ DOMAIN end[2] = TaleFields /\ end[2].told = tale.told /\ end[2].got = tale.got /\ end[2].at = tale.at
           /\ end[2].pieces = tale.pieces /\ end[2].raised = tale.raised /\ end[2].overwrote = tale.overwrote
           /\ end[2].orphan \in BOOLEAN
           /\ end[1].uploads # {} => end[2].orphan
<1>1. WebShape /\ site.kind = "write" /\ WriteTypes /\ WritePlaces /\ UploadsNamed
  BY WritingIsWrite DEF Writing
<1>2. PartLost.up = IF web.s3 THEN "none" ELSE web.up
  BY <1>1 DEF PartLost, WebShape, WebFields
<1>3. CASE web.s3
  <2>1. end \in {<<[site EXCEPT !.uploads = @ \ {"ours"}], tale>>, <<site, [tale EXCEPT !.orphan = TRUE]>>}
    BY <1>2, <1>3 DEF Aborted
  <2>2. CASE end = <<[site EXCEPT !.uploads = @ \ {"ours"}], tale>>
    <3>1. end[1] = [site EXCEPT !.uploads = @ \ {"ours"}] /\ end[2] = tale
      BY <2>2
    <3>2. DOMAIN end[1] = SiteFields /\ end[1].kind = "write" /\ end[1].obj = site.obj /\ end[1].uploads = site.uploads \ {"ours"}
      BY <1>1, <3>1 DEF WebShape, SiteFields
    <3>3. end[1].uploads # {} => tale.orphan
      BY <1>1, <3>2 DEF UploadsNamed
    <3> QED
      BY <1>1, <3>1, <3>2, <3>3 DEF WebShape, WriteTypes
  <2>3. CASE end = <<site, [tale EXCEPT !.orphan = TRUE]>>
    <3>1. end[1] = site /\ end[2] = [tale EXCEPT !.orphan = TRUE]
      BY <2>3
    <3> QED
      BY <1>1, <3>1 DEF WebShape, TaleFields
  <2> QED
    BY <2>1, <2>2, <2>3
<1>4. CASE ~web.s3
  <2>1. end = <<site, tale>>
    BY <1>4 DEF Aborted
  <2>2. end[1] = site /\ end[2] = tale
    BY <2>1
  <2> QED
    BY <1>1, <1>4, <2>2 DEF WebShape, WriteTypes, UploadsNamed
<1> QED
  BY <1>3, <1>4

\* What is pending arrives: the same units, in the same order, sent.
LEMMA SentKeeps ==
    ASSUME WebInv, web.pc \in {"drain", "last"}, NEW pc \in {"write", "finish"}, site' = site, tale' = tale,
           web.pend # << >>,
           web' = [web EXCEPT !.parts = @ \o web.pend, !.pend = << >>, !.pc = pc]
    PROVE  WebInv'
<1>1. WebShape /\ site.kind = "write" /\ WriteTypes /\ WritePlaces /\ NothingLost /\ UploadsNamed
  BY WritingIsWrite DEF Writing
<1>2. /\ DOMAIN web' = WebFields /\ web'.s3 = web.s3 /\ web'.op = web.op /\ web'.pc = pc /\ web'.result = web.result
      /\ web'.buf = web.buf /\ web'.up = web.up /\ web'.pend = << >> /\ web'.parts = web.parts \o web.pend
      /\ web'.failure = web.failure /\ web'.wrote = web.wrote
  BY <1>1 DEF WebShape, WebFields
<1>3. web.parts \in Seq(Nat) /\ web.pend \in Seq(Nat) /\ web.buf \in Seq(Nat) /\ << >> \in Seq(Nat)
  BY <1>1 DEF WriteTypes
<1>4. web.up = "open" /\ web.buf = << >> /\ ~web.failure
  BY <1>1 DEF WritePlaces
<1>5. web.parts \o web.pend \in Seq(Nat) /\ web.parts \o web.pend # << >>
  <2>1. web.parts \o web.pend \in Seq(Nat) /\ Len(web.parts \o web.pend) = Len(web.parts) + Len(web.pend)
    BY <1>3, ConcatProperties
  <2>2. Len(web.parts) \in Nat /\ Len(web.pend) \in Nat /\ Len(web.pend) # 0
    BY <1>3, EmptySeq, LenProperties
  <2>a. \A a, b \in Nat : b # 0 => a + b # 0
    OBVIOUS
  <2>b. Len(web.parts) + Len(web.pend) # 0
    BY <2>2, <2>a
  <2>3. Len(web.parts \o web.pend) # 0
    BY ONLY <2>1, <2>b, Zenon
  <2> QED
    BY <2>1, <2>3, EmptySeq
<1>6. WriteTypes'
  BY <1>1, <1>2, <1>3, <1>5 DEF WriteTypes, Writing
<1>7. WritePlaces'
  BY <1>1, <1>2, <1>4, <1>5 DEF WritePlaces, Streaming
<1>8. NothingLost'
  <2>1. AllWritten = web.parts \o web.pend
    BY <1>3, <1>4, Joined DEF AllWritten
  <2>2. AllWritten' = ((web.parts \o web.pend) \o << >>) \o << >>
    BY <1>2, <1>4 DEF AllWritten
  <2>3. AllWritten' = AllWritten
    BY <1>3, <2>1, <2>2, Joined
  <2>4. Upto(web.wrote)' = Upto(web.wrote)
    BY <1>2 DEF Upto
  <2> QED
    BY <1>1, <1>2, <2>3, <2>4 DEF NothingLost, Writing
<1>9. UploadsNamed'
  BY <1>1, <1>2 DEF UploadsNamed
<1>10. UploadHonest'
  BY <1>2, <1>6, <1>7 DEF WriteTypes, WritePlaces, UploadHonest, NoObject, Theirs
<1> QED
  BY <1>1, <1>2, <1>6, <1>7, <1>8, <1>9, <1>10, WriterMoves DEF WebShape

\* A step that moves nothing.
LEMMA WriterGoes ==
    ASSUME WebInv, web.pc \in Writing, NEW pc \in Writing, Going(pc), site' = site, tale' = tale,
           pc \in {"last", "finish"} => web.up = "open",
           pc = "last" => web.pend # << >>,
           pc = "finish" => web.pend = << >>,
           pc = "put" => ~Streaming,
           pc \in {"write", "last", "finish", "put"}
    PROVE  WebInv'
<1>1. WebShape /\ site.kind = "write" /\ WriteTypes /\ WritePlaces /\ NothingLost /\ UploadsNamed
  BY WritingIsWrite
<1>2. /\ DOMAIN web' = WebFields /\ web'.s3 = web.s3 /\ web'.op = web.op /\ web'.pc = pc /\ web'.result = web.result
      /\ web'.buf = web.buf /\ web'.up = web.up /\ web'.pend = web.pend /\ web'.parts = web.parts
      /\ web'.failure = web.failure /\ web'.wrote = web.wrote
  BY <1>1 DEF WebShape, WebFields, Going
<1>3. WriteTypes'
  BY <1>1, <1>2 DEF WriteTypes, Writing
<1>4. WritePlaces'
  BY <1>1, <1>2 DEF WritePlaces, Streaming, Writing
<1>5. NothingLost'
  <2>1. AllWritten' = AllWritten /\ Upto(web.wrote)' = Upto(web.wrote)
    BY <1>2 DEF AllWritten, Upto
  <2> QED
    BY <1>1, <1>2, <2>1 DEF NothingLost
<1>6. UploadsNamed'
  BY <1>1, <1>2 DEF UploadsNamed, Writing
<1>7. UploadHonest'
  BY <1>2, <1>3, <1>4 DEF WriteTypes, WritePlaces, UploadHonest, NoObject, Theirs, Writing
<1> QED
  BY <1>1, <1>2, <1>3, <1>4, <1>5, <1>6, <1>7, WriterMoves DEF WebShape

\* An empty part is never worth sending.
LEMMA WorthIsSome ==
    ASSUME NEW final \in BOOLEAN, WorthSending(final)
    PROVE  web.pend # << >>
<1>1. PartSize \in Nat /\ PartSize # 0 /\ Len(<< >>) = 0
  BY WebAssumption
<1> QED
  BY <1>1 DEF WorthSending

LEMMA DrainKeeps ==
    ASSUME WebInv, Drain
    PROVE  WebInv'
<1>1. web.pc = "drain"
  BY DEF Drain
<1>2. WebShape /\ site.kind = "write" /\ WriteTypes /\ WritePlaces
  BY <1>1, WritingIsWrite DEF Writing
<1>3. ASSUME Going("write"), site' = site, tale' = tale
      PROVE  WebInv'
  BY <1>1, <1>3, WriterGoes DEF Writing
<1>4. ASSUME WorthSending(FALSE),
             web' = [web EXCEPT !.parts = @ \o web.pend, !.pend = << >>, !.pc = "write"], site' = site, tale' = tale
      PROVE  WebInv'
  <2>1. web.pend # << >>
    BY <1>4, WorthIsSome
  <2> QED
    BY <1>1, <1>4, <2>1, SentKeeps
<1>5. ASSUME NEW end \in Aborted, web' = [PartLost EXCEPT !.pc = "write"],
             site' = end[1], tale' = [end[2] EXCEPT !.raised = TRUE]
      PROVE  WebInv'
  <2>1. /\ DOMAIN site' = SiteFields /\ site'.kind = "write" /\ site'.obj = site.obj
        /\ DOMAIN tale' = TaleFields /\ tale'.told = tale.told /\ tale'.got = tale.got /\ tale'.at = tale.at
        /\ tale'.pieces = tale.pieces /\ tale'.raised = TRUE /\ tale'.overwrote = tale.overwrote
        /\ tale'.orphan \in BOOLEAN
        /\ site'.uploads # {} => tale'.orphan
    BY <1>1, <1>5, AbortedEnd DEF TaleFields
  <2>2. /\ DOMAIN web' = WebFields /\ web'.s3 = web.s3 /\ web'.op = web.op /\ web'.pc = "write" /\ web'.result = web.result
        /\ web'.buf = web.buf /\ web'.up = (IF web.s3 THEN "none" ELSE web.up) /\ web'.pend = << >>
        /\ web'.parts = web.parts /\ web'.failure = web.s3 /\ web'.wrote = web.wrote
    BY <1>2, <1>5 DEF WebShape, WebFields, PartLost
  <2>3. WriteTypes'
    BY <1>1, <1>2, <2>1, <2>2, << >> \in Seq(Nat) DEF WriteTypes, Writing
  <2>4. WritePlaces'
    BY <1>1, <1>2, <2>1, <2>2 DEF WritePlaces, Streaming, WriteTypes
  <2>5. NothingLost' /\ UploadsNamed'
    BY <2>1, <2>2 DEF NothingLost, UploadsNamed
  <2>6. UploadHonest'
    BY <2>2, <2>3, <2>4 DEF WriteTypes, WritePlaces, UploadHonest, NoObject, Theirs
  <2> QED
    BY <1>2, <2>1, <2>2, <2>3, <2>4, <2>5, <2>6, WriterMoves
<1> QED
  BY <1>3, <1>4, <1>5, Zenon DEF Drain

\* The writer ends, and nothing is there that was not there before.
LEMMA WriterFails ==
    ASSUME WebInv, web.pc \in Writing,
           DOMAIN web' = WebFields, web'.s3 = web.s3, web'.op = web.op, web'.pc = "over", web'.result = "error",
           web'.buf = web.buf, web'.up \in {"none", web.up}, web'.pend \in {web.pend, << >>}, web'.parts = web.parts,
           web'.failure \in {web.failure, web.s3}, web'.wrote = web.wrote,
           web'.up = "none" /\ ~web'.failure => web'.up = web.up /\ web'.failure = web.failure,
           web'.failure => web'.up = "none" /\ web.s3,
           web'.up = "open" => web'.pend = web.pend \/ ~web.s3,
           DOMAIN site' = SiteFields, site'.kind = "write", site'.obj = site.obj,
           DOMAIN tale' = TaleFields, tale'.told = tale.told, tale'.got = tale.got, tale'.at = tale.at,
           tale'.pieces = tale.pieces, tale'.raised = tale.raised, tale'.overwrote = tale.overwrote,
           tale'.orphan \in BOOLEAN, site'.uploads # {} => tale'.orphan
    PROVE  WebInv'
<1>1. WebShape /\ site.kind = "write" /\ WriteTypes /\ WritePlaces
  BY WritingIsWrite
<1>2. WriteTypes'
  BY <1>1, << >> \in Seq(Nat) DEF WriteTypes, Writing
<1>3. WritePlaces'
  BY <1>1 DEF WritePlaces, Streaming, WriteTypes
<1>4. NothingLost' /\ UploadsNamed'
  BY DEF NothingLost, UploadsNamed, Writing
<1>5. UploadHonest'
  BY <1>1 DEF UploadHonest, WritePlaces, Writing, NoObject, Theirs
<1> QED
  BY <1>1, <1>2, <1>3, <1>4, <1>5, WriterMoves

LEMMA CloseWriterKeeps ==
    ASSUME WebInv, CloseWriter
    PROVE  WebInv'
<1>1. web.pc = "write" /\ site' = site /\ tale' = tale
  BY DEF CloseWriter
<1>2. WebShape /\ site.kind = "write" /\ WriteTypes /\ WritePlaces /\ UploadsNamed
  BY <1>1, WritingIsWrite DEF Writing
<1>3. CASE ~Streaming
  <2>1. Going("put")
    BY <1>3 DEF CloseWriter
  <2> QED
    BY <1>1, <1>3, <2>1, WriterGoes DEF Writing
<1>4. CASE Streaming /\ web.failure
  <2>1. web' = [web EXCEPT !.pc = "over", !.result = "error"]
    BY <1>4 DEF CloseWriter, Ends
  <2>2. /\ DOMAIN web' = WebFields /\ web'.s3 = web.s3 /\ web'.op = web.op /\ web'.pc = "over" /\ web'.result = "error"
        /\ web'.buf = web.buf /\ web'.up = web.up /\ web'.pend = web.pend /\ web'.parts = web.parts
        /\ web'.failure = web.failure /\ web'.wrote = web.wrote
    BY <1>2, <2>1 DEF WebShape, WebFields
  <2>3. web.up = "none" /\ web.s3 /\ (site.uploads # {} => tale.orphan) /\ tale.orphan \in BOOLEAN
    BY <1>2, <1>4 DEF WritePlaces, UploadsNamed, WriteTypes
  <2> QED
    BY <1>1, <1>2, <1>4, <2>2, <2>3, WriterFails DEF WebShape, Writing
<1>5. CASE Streaming /\ ~web.failure
  <2>1. web.up = "open" /\ web.pend \in Seq(Nat)
    BY <1>2, <1>5 DEF Streaming, WriteTypes
  <2>2. CASE WorthSending(TRUE)
    <3>1. Going("last")
      BY <1>5, <2>2 DEF CloseWriter
    <3>2. web.pend # << >>
      BY <2>2, WorthIsSome
    <3> QED
      BY <1>1, <2>1, <3>1, <3>2, WriterGoes DEF Writing
  <2>3. CASE ~WorthSending(TRUE)
    <3>1. Going("finish")
      BY <1>5, <2>3 DEF CloseWriter
    <3>2. web.pend = << >>
      BY <2>3 DEF WorthSending
    <3> QED
      BY <1>1, <2>1, <3>1, <3>2, WriterGoes DEF Writing
  <2> QED
    BY <2>2, <2>3
<1> QED
  BY <1>3, <1>4, <1>5

\* The units are put there, whole: all of them, if nothing was raised, and of
\* an S3 object none out of its place.
LEMMA CommitKeeps ==
    ASSUME WebInv, web.pc \in {"put", "finish"}, NEW units, Commit(units),
           NEW result, web' = [web EXCEPT !.pc = "over", !.result = result],
           units = AllWritten,
           (web.excl /\ site.obj = Theirs) => web.s3 /\ web.parts # << >>
    PROVE  WebInv'
<1>1. WebShape /\ site.kind = "write" /\ WriteTypes /\ WritePlaces /\ NothingLost /\ UploadsNamed
  BY WritingIsWrite DEF Writing
<1>2. /\ DOMAIN web' = WebFields /\ web'.s3 = web.s3 /\ web'.op = web.op /\ web'.pc = "over" /\ web'.result = result
      /\ web'.buf = web.buf /\ web'.up = web.up /\ web'.pend = web.pend /\ web'.parts = web.parts
      /\ web'.failure = web.failure /\ web'.wrote = web.wrote
  BY <1>1 DEF WebShape, WebFields
<1>3. DOMAIN site' = SiteFields /\ site'.kind = "write" /\ site'.obj = units /\ site'.uploads = site.uploads \ {"ours"}
  BY <1>1 DEF WebShape, SiteFields, Commit
<1>4. /\ DOMAIN tale' = TaleFields /\ tale'.told = tale.told /\ tale'.got = tale.got /\ tale'.at = tale.at
      /\ tale'.pieces = tale.pieces /\ tale'.raised = tale.raised /\ tale'.orphan = tale.orphan
      /\ tale'.overwrote = (tale.overwrote \/ (web.excl /\ site.obj = Theirs))
  BY <1>1 DEF WebShape, TaleFields, Commit
<1>5. ~tale.overwrote /\ ~web.failure
  BY <1>1 DEF WritePlaces, Streaming
<1>6. tale'.overwrote \in BOOLEAN /\ (tale'.overwrote => web.s3 /\ web.parts # << >>)
  BY <1>4, <1>5
<1>7. WriteTypes'
  BY <1>1, <1>2, <1>4, <1>6 DEF WriteTypes, Writing
<1>8. WritePlaces'
  BY <1>1, <1>2 DEF WritePlaces, Streaming
<1>9. site'.uploads # {} => tale'.orphan
  BY <1>1, <1>3, <1>4 DEF UploadsNamed
<1>10. NothingLost' /\ UploadsNamed'
  BY <1>2, <1>9 DEF NothingLost, UploadsNamed, Writing
<1>11. web.s3 \/ ~tale.raised => units = Upto(web.wrote)
  BY <1>1, <1>5 DEF NothingLost, Writing
<1>12. web.wrote \in Nat /\ Len(Upto(web.wrote)) = web.wrote /\ \A i \in 1 .. web.wrote : Upto(web.wrote)[i] = i
  BY <1>1, UptoNext DEF WriteTypes, Upto
<1>13. web.s3 => \A i \in 1 .. Len(units) : units[i] = i
  BY <1>11, <1>12
<1>14. ~tale.raised => units = [i \in 1 .. web.wrote |-> i]
  BY <1>11 DEF Upto
<1>15. UploadHonest'
  BY <1>2, <1>3, <1>4, <1>6, <1>9, <1>13, <1>14 DEF UploadHonest
<1> QED
  BY <1>1, <1>2, <1>3, <1>4, <1>7, <1>8, <1>10, <1>15, WriterMoves

LEMMA PutBufferedKeeps ==
    ASSUME WebInv, PutBuffered
    PROVE  WebInv'
<1>1. web.pc = "put"
  BY DEF PutBuffered
<1>2. WebShape /\ site.kind = "write" /\ WriteTypes /\ WritePlaces /\ UploadsNamed
  BY <1>1, WritingIsWrite DEF Writing
<1>3. web.up = "none" /\ ~web.failure /\ web.parts = << >> /\ web.pend = << >> /\ web.buf \in Seq(Nat) /\ << >> \in Seq(Nat)
  BY <1>1, <1>2 DEF WritePlaces, Streaming, WriteTypes
<1>4. AllWritten = web.buf
  BY <1>3, Joined DEF AllWritten
<1>5. ASSUME ~Refuses, Commit(web.buf), Ends("ok") \/ CallError
      PROVE  WebInv'
  <2>1. PICK result : web' = [web EXCEPT !.pc = "over", !.result = result]
    BY <1>5 DEF Ends, CallError
  <2>2. ~(web.excl /\ site.obj = Theirs)
    BY <1>5 DEF Refuses
  <2> QED
    BY <1>1, <1>4, <1>5, <2>1, <2>2, CommitKeeps
<1>6. ASSUME CallError, site' = site, tale' = tale
      PROVE  WebInv'
  <2>1. /\ DOMAIN web' = WebFields /\ web'.s3 = web.s3 /\ web'.op = web.op /\ web'.pc = "over" /\ web'.result = "error"
        /\ web'.buf = web.buf /\ web'.up = web.up /\ web'.pend = web.pend /\ web'.parts = web.parts
        /\ web'.failure = web.failure /\ web'.wrote = web.wrote
    BY <1>2, <1>6 DEF WebShape, WebFields, CallError
  <2>2. (site.uploads # {} => tale.orphan) /\ tale.orphan \in BOOLEAN
    BY <1>2, <1>3 DEF UploadsNamed, WriteTypes
  <2> QED
    BY <1>1, <1>2, <1>3, <1>6, <2>1, <2>2, WriterFails DEF WebShape, Writing
<1> QED
  BY <1>5, <1>6, Zenon DEF PutBuffered

LEMMA LastPartKeeps ==
    ASSUME WebInv, LastPart
    PROVE  WebInv'
<1>1. web.pc = "last"
  BY DEF LastPart
<1>2. WebShape /\ site.kind = "write" /\ WriteTypes /\ WritePlaces
  BY <1>1, WritingIsWrite DEF Writing
<1>3. ASSUME web' = [web EXCEPT !.parts = @ \o web.pend, !.pend = << >>, !.pc = "finish"], site' = site, tale' = tale
      PROVE  WebInv'
  BY <1>1, <1>2, <1>3, SentKeeps DEF WritePlaces
<1>4. ASSUME NEW end \in Aborted, web' = [PartLost EXCEPT !.pc = "over", !.result = "error"],
             site' = end[1], tale' = end[2]
      PROVE  WebInv'
  <2>1. /\ DOMAIN site' = SiteFields /\ site'.kind = "write" /\ site'.obj = site.obj
        /\ DOMAIN tale' = TaleFields /\ tale'.told = tale.told /\ tale'.got = tale.got /\ tale'.at = tale.at
        /\ tale'.pieces = tale.pieces /\ tale'.raised = tale.raised /\ tale'.overwrote = tale.overwrote
        /\ tale'.orphan \in BOOLEAN
        /\ site'.uploads # {} => tale'.orphan
    BY <1>1, <1>4, AbortedEnd
  <2>2. /\ DOMAIN web' = WebFields /\ web'.s3 = web.s3 /\ web'.op = web.op /\ web'.pc = "over" /\ web'.result = "error"
        /\ web'.buf = web.buf /\ web'.up = (IF web.s3 THEN "none" ELSE web.up) /\ web'.pend = << >>
        /\ web'.parts = web.parts /\ web'.failure = web.s3 /\ web'.wrote = web.wrote
    BY <1>2, <1>4 DEF WebShape, WebFields, PartLost
  <2>3. web.up = "open" /\ ~web.failure /\ web.s3 \in BOOLEAN
    BY <1>1, <1>2 DEF WritePlaces, WriteTypes
  <2> QED
    BY <1>1, <2>1, <2>2, <2>3, WriterFails DEF Writing
<1> QED
  BY <1>3, <1>4, Zenon DEF LastPart

LEMMA FinishUploadKeeps ==
    ASSUME WebInv, FinishUpload
    PROVE  WebInv'
<1>1. web.pc = "finish"
  BY DEF FinishUpload
<1>2. WebShape /\ site.kind = "write" /\ WriteTypes /\ WritePlaces
  BY <1>1, WritingIsWrite DEF Writing
<1>3. /\ web.up = "open" /\ ~web.failure /\ web.buf = << >> /\ web.pend = << >> /\ web.parts \in Seq(Nat) /\ << >> \in Seq(Nat)
      /\ web.s3 => web.parts # << >>
  BY <1>1, <1>2 DEF WritePlaces, WriteTypes
<1>4. AllWritten = web.parts
  BY <1>3, Joined DEF AllWritten
<1>5. ASSUME web.s3 \/ ~Refuses, Commit(web.parts), Ends("ok") \/ CallError
      PROVE  WebInv'
  <2>1. PICK result : web' = [web EXCEPT !.pc = "over", !.result = result]
    BY <1>5 DEF Ends, CallError
  <2>2. (web.excl /\ site.obj = Theirs) => web.s3 /\ web.parts # << >>
    BY <1>3, <1>5 DEF Refuses
  <2> QED
    BY <1>1, <1>4, <1>5, <2>1, <2>2, CommitKeeps
<1>6. ASSUME NEW end \in Aborted, CallError, site' = end[1], tale' = end[2]
      PROVE  WebInv'
  <2>1. /\ DOMAIN site' = SiteFields /\ site'.kind = "write" /\ site'.obj = site.obj
        /\ DOMAIN tale' = TaleFields /\ tale'.told = tale.told /\ tale'.got = tale.got /\ tale'.at = tale.at
        /\ tale'.pieces = tale.pieces /\ tale'.raised = tale.raised /\ tale'.overwrote = tale.overwrote
        /\ tale'.orphan \in BOOLEAN
        /\ site'.uploads # {} => tale'.orphan
    BY <1>1, <1>6, AbortedEnd
  <2>2. /\ DOMAIN web' = WebFields /\ web'.s3 = web.s3 /\ web'.op = web.op /\ web'.pc = "over" /\ web'.result = "error"
        /\ web'.buf = web.buf /\ web'.up = web.up /\ web'.pend = web.pend /\ web'.parts = web.parts
        /\ web'.failure = web.failure /\ web'.wrote = web.wrote
    BY <1>2, <1>6 DEF WebShape, WebFields, CallError
  <2> QED
    BY <1>1, <1>3, <2>1, <2>2, WriterFails DEF Writing
<1> QED
  BY <1>5, <1>6, Zenon DEF FinishUpload

LEMMA OtherPutsKeeps ==
    ASSUME WebInv, OtherPuts
    PROVE  WebInv'
<1>1. site.kind = "write" /\ web.pc # "over" /\ web' = web /\ tale' = tale
  BY DEF OtherPuts
<1>2. WebShape /\ WriteTypes /\ WritePlaces /\ NothingLost /\ UploadsNamed
  BY <1>1, WritingIsWrite
<1>3. DOMAIN site' = SiteFields /\ site'.kind = "write" /\ site'.obj = Theirs /\ site'.uploads = site.uploads
  BY <1>1, <1>2 DEF WebShape, SiteFields, OtherPuts
<1>4. WriteTypes' /\ WritePlaces'
  BY <1>1, <1>2, <1>3 DEF WriteTypes, WritePlaces, Streaming
<1>5. NothingLost' /\ UploadsNamed'
  BY <1>1, <1>2, <1>3 DEF NothingLost, AllWritten, Upto, UploadsNamed
<1>6. UploadHonest'
  BY <1>1, <1>4 DEF WriteTypes, WritePlaces, UploadHonest, NoObject, Theirs
<1> QED
  BY <1>1, <1>2, <1>3, <1>4, <1>5, <1>6, WriterMoves DEF WebShape

LEMMA WebInvKept ==
    ASSUME WebInv, [WebNext]_webVars
    PROVE  WebInv'
<1>1. CASE UNCHANGED webVars
  <2>1. web' = web /\ site' = site /\ tale' = tale
    BY <1>1 DEF webVars
  <2> QED
    BY <2>1 DEF WebInv, WebShape, CallLane, CallAt, CallTold, MkdirLane, RenameLane, ReadLane, ReaderPlace,
                WebReadRight, BodyCut, WriteLane, WriteTypes, WritePlaces, Streaming, NothingLost, AllWritten, UploadsNamed, UploadHonest
<1>2. CASE WebSteps
  BY <1>2, SendCallKeeps, RedirectedKeeps, ChallengedKeeps, MkcolKeeps, CopyObjectKeeps, DeleteSourceKeeps,
     StartGetKeeps, TakeBodyKeeps, TakeRangesKeeps, TakeSpanKeeps, BeginUploadKeeps, DrainKeeps,
     PutBufferedKeeps, LastPartKeeps, FinishUploadKeeps, Zenon DEF WebSteps
<1>3. CASE WebNext /\ ~WebSteps
  BY <1>3, BeginCallKeeps, BeginMkdirKeeps, BeginRenameKeeps, BeginReadKeeps, SeekKeeps, BeginReadVKeeps,
     OpenWriterKeeps, WriteUnitKeeps, CloseWriterKeeps, OtherPutsKeeps, Zenon DEF WebNext
<1> QED
  BY <1>1, <1>2, <1>3

LEMMA WebInvRight ==
    ASSUME WebInv
    PROVE  WebRight
<1>1. WebReadRight
  <2>1. CASE site.kind = "read"
    BY <2>1, ReadingIsRead
  <2>2. CASE site.kind # "read"
    <3>1. tale.got = << >> /\ tale.at = 0 /\ tale.pieces = {}
      BY <2>2 DEF WebInv
    <3>2. 0 \in Nat /\ 0 + 0 <= FileUnits
      BY WebAssumption
    <3>3. Clip(0, 0 + 0) = [i \in 1 .. 0 |-> 0 + i]
      BY ONLY <3>2, ClipInside
    <3>4. Clip(0, 0) = << >>
      BY <3>3, 1 .. 0 = {}
    <3> QED
      BY <3>1, <3>4 DEF WebReadRight, Eof
  <2> QED
    BY <2>1, <2>2
<1>2. UploadHonest
  BY DEF WebInv, WriteLane, UploadHonest
<1>3. WebHonest
  <2>1. site.kind = "rename" => "data" \in {site.src, site.dst}
    BY DEF WebInv, RenameLane
  <2>2. web.op = "mkdir" /\ web.result = "ok" => site.names[PathDepth] = "coll"
    BY DEF WebInv, MkdirLane
  <2> QED
    BY <2>1, <2>2 DEF WebHonest
<1>4. CallTold
  BY DEF WebInv, CallLane, CallTold
<1> QED
  BY <1>1, <1>2, <1>3, <1>4 DEF WebRight

\* Whatever drops, is reset, resumed, redirected, retried or aborted: a read
\* returns the file's own bytes at its position and the end only there, but
\* for a body whose end nobody promised, an object is whole when its writer
\* was told so and an S3 object never has a hole, no upload is left behind
\* unknown, a rename loses nothing, a mkdir that returns made its collection,
\* a call changes what it says, a POST at most once, and credentials go to
\* the origin and trusted hosts alone (HTTPRawIO, S3RawIO, HTTPClient).
THEOREM WebIsRight == WebSpec => []WebRight
<1>1. WebInit => WebInv
  BY WebStarts
<1>2. WebInv /\ [WebNext]_webVars => WebInv'
  BY WebInvKept
<1>3. WebInv => WebRight
  BY WebInvRight
<1> QED
  BY <1>1, <1>2, <1>3, PTL DEF WebSpec
=============================================================================
