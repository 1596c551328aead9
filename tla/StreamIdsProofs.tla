--------------------------- MODULE StreamIdsProofs ---------------------------
(***************************************************************************)
(* Proofs about the stream-id pool, for every FirstSid <= MaxSid.          *)
(*                                                                         *)
(* The argument: an id that is handed out was either at the head of _free, *)
(* which OnePlace and FreeOnce keep apart from everything in use, or was   *)
(* checked by the counter branch; and OwedHeld puts everything the server  *)
(* may still answer on among the ids in use.  None of the three is         *)
(* inductive without the others.                                           *)
(***************************************************************************)
EXTENDS StreamIds, Integers, TLAPS

\* What Append and Tail do to a queue of ids, index by index.
LEMMA AppendFree ==
    ASSUME NEW q \in Seq(Sids), NEW s \in Sids
    PROVE  /\ Append(q, s) \in Seq(Sids)
           /\ {Append(q, s)[i] : i \in DOMAIN Append(q, s)}
                 = {q[i] : i \in DOMAIN q} \cup {s}
           /\ DOMAIN Append(q, s) = 1 .. (Len(q) + 1)
           /\ DOMAIN q = 1 .. Len(q)
           /\ \A i \in DOMAIN q : Append(q, s)[i] = q[i]
           /\ Append(q, s)[Len(q) + 1] = s
  OBVIOUS

\* The head of a non-empty queue is its first entry and Tail shifts the rest.
LEMMA TailFree ==
    ASSUME NEW q \in Seq(Sids), q # <<>>
    PROVE  /\ Tail(q) \in Seq(Sids)
           /\ Head(q) \in Sids
           /\ Head(q) = q[1]
           /\ 1 \in DOMAIN q
           /\ \A i \in DOMAIN Tail(q) :
                 i + 1 \in DOMAIN q /\ i \in Nat \ {0} /\ Tail(q)[i] = q[i + 1]
  OBVIOUS

\* The counter stays within the id field when it wraps.
LEMMA AdvancedInRange ==
    ASSUME nextSid \in Sids
    PROVE  Advanced \in Sids
  BY SidRange DEF Advanced, Sids

\* _acquire_sid returns an id nothing holds and the server owes nothing on,
\* and takes it out of the queue for good.
LEMMA AcquireFresh ==
    ASSUME IdsInv, NEW s \in Sids, Acquire(s)
    PROVE  /\ s \notin InUse
           /\ s \notin owed
           /\ free' \in Seq(Sids)
           /\ nextSid' \in Sids
           /\ FreeIds' \subseteq FreeIds
           /\ s \notin FreeIds'
           /\ FreeOnce'
  <1>1. CASE free # <<>> /\ s = Head(free) /\ free' = Tail(free) /\ UNCHANGED nextSid
    <2>1. free \in Seq(Sids) /\ nextSid \in Sids
      BY DEF IdsInv, TypeOK
    <2>2. /\ free' \in Seq(Sids)
          /\ s = free[1] /\ 1 \in DOMAIN free
          /\ \A i \in DOMAIN free' :
                i + 1 \in DOMAIN free /\ i \in Nat \ {0} /\ free'[i] = free[i + 1]
      BY <1>1, <2>1, TailFree
    <2>3. s \in FreeIds
      BY <2>2 DEF FreeIds
    <2>4. s \notin InUse /\ s \notin owed
      BY <2>3 DEF IdsInv, OnePlace, OwedHeld
    <2>5. FreeIds' \subseteq FreeIds
      BY <2>2 DEF FreeIds
    <2>6. s \notin FreeIds'
      <3> SUFFICES ASSUME NEW i \in DOMAIN free', free'[i] = s PROVE FALSE
        BY DEF FreeIds
      <3>1. i + 1 \in DOMAIN free /\ i \in Nat \ {0} /\ free[i + 1] = free[1]
        BY <2>2
      <3>2. i + 1 = 1
        BY <3>1, <2>2 DEF IdsInv, FreeOnce
      <3> QED BY <3>1, <3>2
    <2>7. FreeOnce'
      <3> SUFFICES ASSUME NEW i \in DOMAIN free', NEW j \in DOMAIN free', free'[i] = free'[j]
                   PROVE  i = j
        BY DEF FreeOnce
      <3>1. /\ i + 1 \in DOMAIN free /\ j + 1 \in DOMAIN free
            /\ i \in Nat /\ j \in Nat /\ free[i + 1] = free[j + 1]
        BY <2>2
      <3>2. i + 1 = j + 1
        BY <3>1 DEF IdsInv, FreeOnce
      <3> QED BY <3>1, <3>2
    <2> QED BY <1>1, <2>1, <2>2, <2>4, <2>5, <2>6, <2>7
  <1>2. CASE free = <<>> /\ s = nextSid /\ s \notin InUse /\ nextSid' = Advanced
                /\ UNCHANGED free
    <2>1. nextSid' \in Sids /\ free' \in Seq(Sids)
      BY <1>2, AdvancedInRange DEF IdsInv, TypeOK
    <2>2. FreeIds' = {} /\ FreeOnce'
      BY <1>2 DEF FreeIds, FreeOnce
    <2> QED BY <1>2, <2>1, <2>2 DEF IdsInv, OwedHeld
  <1> QED BY <1>1, <1>2 DEF Acquire

\* Putting an id that is not queued at the end of _free.
LEMMA GiveBack ==
    ASSUME IdsInv, NEW s \in Sids, s \notin FreeIds, free' = Append(free, s)
    PROVE  /\ free' \in Seq(Sids)
           /\ FreeIds' = FreeIds \cup {s}
           /\ FreeOnce'
  <1>1. free \in Seq(Sids)
    BY DEF IdsInv, TypeOK
  <1>2. /\ free' \in Seq(Sids)
        /\ FreeIds' = FreeIds \cup {s}
        /\ DOMAIN free' = 1 .. (Len(free) + 1)
        /\ DOMAIN free = 1 .. Len(free)
        /\ \A i \in DOMAIN free : free'[i] = free[i]
        /\ free'[Len(free) + 1] = s
    BY <1>1, AppendFree DEF FreeIds
  <1>3. FreeOnce'
    <2> SUFFICES ASSUME NEW i \in DOMAIN free', NEW j \in DOMAIN free', free'[i] = free'[j]
                 PROVE  i = j
      BY DEF FreeOnce
    <2>1. Len(free) \in Nat
      BY <1>1
    <2>2. CASE i \in DOMAIN free /\ j \in DOMAIN free
      BY <1>2, <2>2 DEF IdsInv, FreeOnce
    <2>3. CASE i \in DOMAIN free /\ j = Len(free) + 1
      BY <1>2, <2>3 DEF FreeIds
    <2>4. CASE j \in DOMAIN free /\ i = Len(free) + 1
      BY <1>2, <2>4 DEF FreeIds
    <2>5. \A k \in DOMAIN free' : k \in DOMAIN free \/ k = Len(free) + 1
      BY <1>2, <2>1
    <2> QED BY <2>2, <2>3, <2>4, <2>5
  <1> QED BY <1>2, <1>3

\* Putting back the ids of a lost path: a list of ids, each once and none of
\* them queued, behind the others.
LEMMA GiveBackAll ==
    ASSUME IdsInv, NEW S \in SUBSET Sids, S \cap FreeIds = {}, NEW q, ListsOnce(q, S),
           free' = free \o q
    PROVE  /\ free' \in Seq(Sids)
           /\ FreeIds' = FreeIds \cup S
           /\ FreeOnce'
  <1>1. free \in Seq(Sids) /\ q \in Seq(S) /\ q \in Seq(Sids)
    BY DEF IdsInv, TypeOK, ListsOnce
  <1>2. /\ free' \in Seq(Sids)
        /\ Len(free) \in Nat /\ Len(q) \in Nat
        /\ DOMAIN free = 1 .. Len(free)
        /\ DOMAIN q = 1 .. Len(q)
        /\ DOMAIN free' = 1 .. (Len(free) + Len(q))
        /\ \A i \in 1 .. Len(free) : free'[i] = free[i]
        /\ \A i \in 1 .. Len(q) : free'[Len(free) + i] = q[i]
    BY <1>1
  <1>3. \A k \in DOMAIN free' :
           \/ k \in DOMAIN free /\ free'[k] = free[k]
           \/ k - Len(free) \in DOMAIN q /\ free'[k] = q[k - Len(free)]
    <2> SUFFICES ASSUME NEW k \in DOMAIN free', k \notin DOMAIN free
                 PROVE  k - Len(free) \in DOMAIN q /\ free'[k] = q[k - Len(free)]
      BY <1>2
    <2>1. k - Len(free) \in 1 .. Len(q) /\ k = Len(free) + (k - Len(free))
      BY <1>2
    <2> QED BY <1>2, <2>1
  <1>4. FreeIds' = FreeIds \cup S
    <2>1. FreeIds' \subseteq FreeIds \cup S
      BY <1>3 DEF FreeIds, ListsOnce
    <2>2. FreeIds \subseteq FreeIds'
      BY <1>2 DEF FreeIds
    <2>3. ASSUME NEW x \in S PROVE x \in FreeIds'
      <3>1. PICK i \in DOMAIN q : q[i] = x
        BY DEF ListsOnce
      <3>2. Len(free) + i \in DOMAIN free' /\ free'[Len(free) + i] = x
        BY <1>2, <3>1
      <3> QED BY <3>2 DEF FreeIds
    <2> QED BY <2>1, <2>2, <2>3
  <1>5. FreeOnce'
    <2> SUFFICES ASSUME NEW i \in DOMAIN free', NEW j \in DOMAIN free', free'[i] = free'[j]
                 PROVE  i = j
      BY DEF FreeOnce
    <2>1. i \in Int /\ j \in Int
      BY <1>2
    <2>2. CASE i \in DOMAIN free /\ j \in DOMAIN free
      BY <1>2, <2>2 DEF IdsInv, FreeOnce
    <2>3. \A a \in DOMAIN free, b \in DOMAIN q : free[a] # q[b]
      BY DEF FreeIds, ListsOnce
    <2>4. CASE i - Len(free) \in DOMAIN q /\ j - Len(free) \in DOMAIN q
               /\ q[i - Len(free)] = q[j - Len(free)]
      <3>1. i - Len(free) = j - Len(free)
        BY <2>4 DEF ListsOnce
      <3> QED BY <3>1, <2>1, <1>2
    <2> QED BY <1>3, <2>2, <2>3, <2>4
  <1> QED BY <1>2, <1>4, <1>5

\* Every step of the pool keeps the inductive invariant.
LEMMA IdsStep == IdsInv /\ [Next]_vars => IdsInv'
  <1> SUFFICES ASSUME IdsInv, [Next]_vars PROVE IdsInv'
    OBVIOUS
  <1> USE DEF IdsInv, OnePlace, OwedHeld, InUse
  <1>1. CASE Exhausted
    <2>1. nextSid' \in Sids
      BY <1>1, AdvancedInRange DEF Exhausted, TypeOK
    <2> QED BY <1>1, <2>1 DEF Exhausted, TypeOK, FreeIds, FreeOnce
  <1>2. ASSUME NEW s \in Sids, Submit(s) PROVE IdsInv'
    BY <1>2, AcquireFresh DEF Submit, TypeOK
  <1>3. ASSUME NEW s \in Sids, SubmitUnframed(s) PROVE IdsInv'
    BY <1>3, AcquireFresh DEF SubmitUnframed, TypeOK
  <1>4. ASSUME NEW s \in Sids, Lease(s) PROVE IdsInv'
    BY <1>4, AcquireFresh DEF Lease, TypeOK
  <1>5. ASSUME NEW s \in Sids, Issue(s) PROVE IdsInv'
    BY <1>5 DEF Issue, TypeOK, FreeIds, FreeOnce
  <1>6. ASSUME NEW s \in Sids, Resume(s) PROVE IdsInv'
    BY <1>6 DEF Resume, TypeOK, FreeIds, FreeOnce
  <1>7. ASSUME NEW s \in Sids, Release(s) PROVE IdsInv'
    BY <1>7, GiveBack DEF Release, TypeOK
  <1>8. ASSUME NEW s \in Sids, Abandon(s) PROVE IdsInv'
    BY <1>8 DEF Abandon, TypeOK, FreeIds, FreeOnce
  <1>9. ASSUME NEW s \in Sids, ReleaseSid(s) PROVE IdsInv'
    BY <1>9, GiveBack DEF ReleaseSid, TypeOK
  <1>10. ASSUME NEW s \in Sids, RetireSid(s) PROVE IdsInv'
    <2>1. CASE s \in owed
      BY <1>10, <2>1 DEF RetireSid, TypeOK, FreeIds, FreeOnce
    <2>2. CASE s \notin owed
      BY <1>10, <2>2, GiveBack DEF RetireSid, TypeOK
    <2> QED BY <2>1, <2>2
  <1>11. ASSUME NEW s \in Sids, FinalReply(s) PROVE IdsInv'
    <2>1. CASE s \in pending \cup retired
      BY <1>11, <2>1, GiveBack DEF FinalReply, TypeOK
    <2>2. CASE s \notin pending \cup retired
      BY <1>11, <2>2 DEF FinalReply, TypeOK, FreeIds, FreeOnce
    <2> QED BY <2>1, <2>2
  <1>12. ASSUME NEW s \in Sids, LastWord(s) PROVE IdsInv'
    BY <1>12 DEF LastWord, TypeOK, FreeIds, FreeOnce
  <1>13. CASE Disconnect
    BY <1>13 DEF Disconnect, TypeOK, FreeIds, FreeOnce
  <1>14. ASSUME NEW s \in Sids, Close(s) PROVE IdsInv'
    BY <1>14, AcquireFresh DEF Close, TypeOK
  <1>15. ASSUME NEW S \in SUBSET pending, NEW gone \in SUBSET (S \cup retired), NEW q,
                LosePath(S, gone, q)
         PROVE  IdsInv'
    <2>1. S \in SUBSET Sids /\ S \cap FreeIds = {} /\ ListsOnce(q, S) /\ free' = free \o q
      BY <1>15 DEF LosePath, TypeOK
    <2>2. free' \in Seq(Sids) /\ FreeIds' = FreeIds \cup S /\ FreeOnce'
      BY <2>1, GiveBackAll
    <2> QED BY <1>15, <2>2 DEF LosePath, TypeOK
  <1>16. CASE UNCHANGED vars
    BY <1>16 DEF vars, TypeOK, FreeIds, FreeOnce
  <1> QED
    BY <1>1, <1>2, <1>3, <1>4, <1>5, <1>6, <1>7, <1>8, <1>9, <1>10, <1>11, <1>12, <1>16,
       <1>13, <1>14, <1>15
    DEF Next

\* The pool's bookkeeping is sound in every reachable state: every id is in at
\* most one of _pending, _retired, _leased and _free, is queued at most once,
\* and every id the server may still answer on is held by one of the first three.
THEOREM IdsSafe == Spec => []IdsInv
  <1>1. Init => IdsInv
    BY SidRange
    DEF Init, IdsInv, TypeOK, OnePlace, FreeOnce, OwedHeld, InUse, FreeIds, Sids
  <1> QED BY <1>1, IdsStep, PTL DEF Spec

\* The rule machine.py states first for its maintainers: an id is handed out,
\* to a request or to the bulk reader, only when no answer to its previous
\* request can still arrive and nothing else holds it.
THEOREM NeverReusedWhileOwed == Spec => FreshIsQuiet
  <1>1. ASSUME IdsInv, [Next]_vars
        PROVE  [\A s \in Sids :
                  s \in (pending' \cup leased') \ (pending \cup leased)
                     => s \notin owed \cup InUse]_vars
    <2> SUFFICES ASSUME NEW s \in Sids, Next,
                        s \in (pending' \cup leased') \ (pending \cup leased)
                 PROVE  s \notin owed \cup InUse
      BY <1>1
    <2>1. ASSUME NEW t \in Sids, Submit(t) \/ Lease(t) PROVE s \notin owed \cup InUse
      <3>1. t \notin InUse /\ t \notin owed
        BY <1>1, <2>1, AcquireFresh DEF Submit, Lease
      <3>2. s = t
        BY <2>1 DEF Submit, Lease
      <3> QED BY <3>1, <3>2
    <2>2. CASE Exhausted
      BY <2>2 DEF Exhausted
    <2>3. ASSUME NEW t \in Sids,
                 \/ SubmitUnframed(t) \/ Issue(t) \/ Resume(t) \/ Release(t) \/ Abandon(t)
                 \/ ReleaseSid(t) \/ RetireSid(t) \/ FinalReply(t) \/ LastWord(t)
                 \/ Close(t)
          PROVE  FALSE
      BY <2>3 DEF Close, SubmitUnframed, Issue, Resume, Release, Abandon, ReleaseSid, RetireSid,
                  FinalReply, LastWord
    <2>4. CASE Disconnect
      BY <2>4 DEF Disconnect
    <2>5. ASSUME NEW S, NEW gone, NEW q, LosePath(S, gone, q) PROVE FALSE
      BY <2>5 DEF LosePath
    <2> QED BY <2>1, <2>2, <2>3, <2>4, <2>5 DEF Next
  <1> QED BY <1>1, IdsSafe, PTL DEF Spec, FreshIsQuiet

=============================================================================
