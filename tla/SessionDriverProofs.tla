------------------------- MODULE SessionDriverProofs -------------------------
(***************************************************************************)
(* What is proved of SessionDriver for any number of threads, requests and *)
(* stream ids, any sizes of frame and reply, any room in the socket, and   *)
(* whatever of the failures may happen.                                    *)
(***************************************************************************)
EXTENDS SessionDriver, FiniteSetTheorems, SequenceTheorems, TLAPS

Frame == [who : Threads, round : Nat, sid : Sids, num : Nat, size : Nat \ {0}, reply : Nat \ {0}]
Event == [kind : {"nothing", "ok", "wait", "failed", "expired"}, who : Threads \cup {NoThread}, round : Nat]
Piece == [frame : Frame, last : BOOLEAN]
Answer == [kind : {"ok", "wait"}, who : Threads, round : Nat]
Reply == [sid : Sids, last : BOOLEAN, event : Answer]
Serving == [frame : Frame, left : Nat] \cup {Nobody}

ReqType ==
    /\ pc \in [Threads -> Places]
    /\ then \in [Threads -> {"await", "reading", "bulk", "senderr"}]
    /\ begun \in Nat /\ round \in [Threads -> Nat] /\ sid \in [Threads -> Sids \cup {0}]
    /\ box \in [Threads -> Seq(Event)] /\ told \in [Threads -> Event]
MapType ==
    /\ inbox \in [Sids -> Threads \cup {NoThread}]
    /\ pending \in [Sids -> Threads \cup {NoThread}]
    /\ retired \in SUBSET Sids
SendType ==
    /\ outq \in Seq(Frame) /\ sendLock \in Threads \cup {NoThread}
    /\ batch \in [Threads -> Seq(Frame)] /\ framed \in Nat
EnvType ==
    /\ up \in Seq(Piece) /\ Len(up) <= UpCap
    /\ down \in Seq(Reply) /\ Len(down) <= DownCap
    /\ server \in Serving /\ waits \in Nat /\ arrived \in Nat /\ torn \in BOOLEAN
RoleType == reading \in BOOLEAN /\ bulkOwner \in Threads \cup {NoThread}
LinkType ==
    /\ link \in {"up", "eof", "shut"} /\ fd \in {"open", "doomed", "closed"}
    /\ mstate \in {"READY", "CLOSED"} /\ broken \in BOOLEAN

\* A thread with a request that is not over.
Active(t) ==
    \/ pc[t] \in {"await", "parked", "reading", "sitout", "senderr"}
    \/ pc[t] \in {"queue", "drain", "unlock"} /\ then[t] # "bulk"

\* A thread with the reader role: the predicate behind Readers.
Has(t) ==
    \/ pc[t] \in {"reading", "senderr", "bulk"}
    \/ pc[t] \in {"queue", "drain", "unlock"} /\ then[t] # "await"

Begun == \A t \in Threads : Active(t) => sid[t] \in Sids

\* Who has the send lock, and that nobody else has frames in hand.
LockHeld ==
    /\ \A t \in Threads : sendLock = t <=> pc[t] \in {"drain", "unlock", "bulk"}
    /\ \A t \in Threads : batch[t] # <<>> => pc[t] = "drain"

\* Where a thread that sends is bound for.
Bound ==
    \A t \in Threads :
       /\ pc[t] = "reading" => then[t] = "reading"
       /\ pc[t] = "senderr" => then[t] = "senderr"
       /\ pc[t] = "bulk" => then[t] = "bulk"
       /\ pc[t] = "unlock" => then[t] # "bulk"
       /\ pc[t] \in {"await", "parked", "sitout"} => then[t] # "bulk"
       /\ bulkOwner = t <=> then[t] = "bulk" /\ pc[t] \in {"queue", "drain", "bulk"}

\* The role is one thread's, and _reading says whether it is anyone's.
Role ==
    /\ \A t, u \in Threads : Has(t) /\ Has(u) => t = u
    /\ reading <=> \E t \in Threads : Has(t)

\* Nobody sleeps on the condition unless somebody reads, nobody waits for a
\* turn unless a transfer runs, and the descriptor is shut only once the
\* session is over, and closed by the last to read it.
Asleep ==
    /\ ~reading => \A t \in Threads : pc[t] # "parked"
    /\ bulkOwner = NoThread => \A t \in Threads : pc[t] # "turn"
Shut ==
    /\ fd # "open" => mstate = "CLOSED"
    /\ fd = "closed" => ~reading
    /\ fd = "doomed" => reading

Types == ReqType /\ MapType /\ SendType /\ EnvType /\ RoleType /\ LinkType /\ Begun
Roles == LockHeld /\ Bound /\ Role /\ Asleep /\ Shut

\* The inductive invariant behind ReaderSafe.
ReaderInv == Types /\ Roles

-----------------------------------------------------------------------------
(* What the operators of the model do.                                     *)

\* One thread moves and the others stay; or the others that slept wake too.
Moves(t, place) ==
    /\ pc' \in [Threads -> Places] /\ pc'[t] = place
    /\ \A u \in Threads \ {t} : pc'[u] = pc[u]
Wakes(t, place) ==
    /\ pc' \in [Threads -> Places] /\ pc'[t] = place
    /\ \A u \in Threads \ {t} :
         /\ pc[u] = "turn" => pc'[u] = "idle"
         /\ pc[u] = "parked" => pc'[u] = "await"
         /\ pc[u] \notin {"turn", "parked"} => pc'[u] = pc[u]

LEMMA MovesBy ==
    ASSUME ReqType, NEW t \in Threads, NEW place \in Places, pc' = [pc EXCEPT ![t] = place]
    PROVE  Moves(t, place)
  BY DEF Moves, ReqType

LEMMA WakesBy ==
    ASSUME ReqType, NEW t \in Threads, NEW place \in Places \ {"turn", "parked"},
           pc' = Woken([pc EXCEPT ![t] = place])
    PROVE  Wakes(t, place)
  BY DEF Wakes, Woken, ReqType, Places

LEMMA WakesAll ==
    ASSUME ReqType, NEW t \in Threads, pc[t] \notin {"turn", "parked"}, pc' = Woken(pc)
    PROVE  Wakes(t, pc[t])
  BY DEF Wakes, Woken, ReqType, Places

LEMMA ToldType ==
    Told("nothing") \in Event /\ Told("failed") \in Event /\ Told("expired") \in Event
  BY DEF Told, Event

LEMMA FailingType == ASSUME ReqType, NEW own PROVE Failing(own) \in [Threads -> Seq(Event)]
  BY ToldType DEF Failing, ReqType

LEMMA ForgetType == ASSUME MapType, NEW t \in Threads, sid[t] \in Sids, Forget(t) PROVE MapType'
  <1>1. CASE inbox[sid[t]] = t
    BY <1>1 DEF MapType, Forget
  <1>2. CASE inbox[sid[t]] # t
    BY <1>2 DEF MapType, Forget, mapVars
  <1> QED BY <1>1, <1>2

-----------------------------------------------------------------------------
(* The reader role, by how a step moves the threads.                       *)

\* No thread moves, and no role changes hands.
LEMMA RolesStay ==
    ASSUME ReaderInv, UNCHANGED <<pc, then, sendLock, reading, bulkOwner, fd>>, mstate' \in {mstate, "CLOSED"},
           \A t \in Threads : batch'[t] # <<>> => pc[t] = "drain"
    PROVE  Roles'
  <1> USE DEF ReaderInv, Roles
  <1>1. LockHeld'
    BY DEF LockHeld
  <1>2. Bound'
    BY DEF Bound
  <1>3. Role' /\ Asleep'
    BY DEF Role, Has, Asleep
  <1>4. Shut'
    BY DEF Shut
  <1> QED BY <1>1, <1>2, <1>3, <1>4

\* A thread without the role moves to a place without it.
LEMMA RolesPass ==
    ASSUME ReaderInv, NEW t \in Threads, NEW place, Moves(t, place),
           pc[t] \in {"idle", "turn", "await", "parked", "sitout"},
           \/ place \in {"idle", "turn", "await", "parked", "sitout"} /\ UNCHANGED then
           \/ place = "queue" /\ then' = [then EXCEPT ![t] = "await"],
           place = "parked" => reading, place = "turn" => bulkOwner # NoThread,
           place \in {"await", "parked", "sitout"} => pc[t] \in {"await", "parked", "sitout"},
           UNCHANGED <<sendLock, batch, reading, bulkOwner, fd, mstate>>
    PROVE  Roles'
  <1> USE DEF ReaderInv, Types, Roles, Moves
  <1>1. LockHeld'
    BY DEF LockHeld
  <1>2. Bound'
    BY DEF Bound, ReqType
  <1>3. \A u \in Threads : Has(u)' <=> Has(u)
    BY DEF Has, ReqType
  <1>4. Role' /\ Asleep'
    BY <1>3 DEF Role, Asleep
  <1>5. Shut'
    BY DEF Shut
  <1> QED BY <1>1, <1>2, <1>4, <1>5

\* The reader gives the role up, closes what was shut down under it and wakes
\* the sleepers.
LEMMA RolesEnd ==
    ASSUME ReaderInv, NEW t \in Threads, NEW place \in {"idle", "await"}, Wakes(t, place), LetGo,
           pc[t] \in {"reading", "senderr"}, mstate' \in {mstate, "CLOSED"},
           UNCHANGED <<then, sendLock, batch, bulkOwner>>
    PROVE  Roles'
  <1> USE DEF ReaderInv, Types, Roles, Wakes, LetGo
  <1>1. LockHeld'
    BY DEF LockHeld
  <1>2. Bound'
    BY DEF Bound
  <1>3. \A u \in Threads : ~Has(u)'
    BY DEF Has, Role
  <1>4. Role'
    BY <1>3 DEF Role
  <1>5. Asleep'
    BY DEF Asleep, ReqType
  <1>6. Shut'
    BY DEF Shut, LinkType
  <1> QED BY <1>1, <1>2, <1>4, <1>5, <1>6

\* Every step keeps the types.
LEMMA TypesStep == ASSUME ReaderInv, [Next]_vars PROVE Types'
  <1> USE ToldType, DriverAssumption DEF ReaderInv, Types
  <1>1. ASSUME NEW t \in Threads, Start(t) PROVE Types'
    <2> USE <1>1
    <2>1. PICK s \in FreeSids, size \in ReqSizes, reply \in ReplySizes :
            /\ sid' = [sid EXCEPT ![t] = s] /\ inbox' = [inbox EXCEPT ![s] = t]
            /\ pending' = [pending EXCEPT ![s] = t] /\ Queued(t, NewFrame(t, s, size, reply))
      BY DEF Start
    <2>2. NewFrame(t, s, size, reply) \in Frame
      BY DEF NewFrame, Frame, FreeSids, ReqType, SendType
    <2>3. Append(outq, NewFrame(t, s, size, reply)) \in Seq(Frame)
      BY <2>2 DEF SendType
    <2>4. pc' \in [Threads -> Places] /\ sid' \in [Threads -> Sids \cup {0}]
      BY <2>1 DEF Queued, ReqType, Places, FreeSids
    <2>4a. begun + 1 \in Nat /\ <<>> \in Seq(Event)
      BY DEF ReqType
    <2>4b. ReqType'
      BY <2>4, <2>4a DEF Start, ReqType
    <2>5. MapType'
      BY <2>1 DEF Start, MapType, FreeSids
    <2>6. outq' \in Seq(Frame) /\ sendLock' \in Threads \cup {NoThread} /\ batch' \in [Threads -> Seq(Frame)]
      <3>1. CASE sendLock = NoThread
        <4>1. /\ outq' = <<>> /\ sendLock' = t
              /\ batch' = [batch EXCEPT ![t] = Append(outq, NewFrame(t, s, size, reply))]
          BY <2>1, <3>1 DEF Queued
        <4> QED BY <2>3, <4>1 DEF SendType
      <3>2. CASE sendLock # NoThread
        BY <2>1, <2>3, <3>2 DEF Queued, SendType
      <3> QED BY <3>1, <3>2
    <2>6a. SendType'
      BY <2>6 DEF Start, SendType
    <2>7. EnvType' /\ RoleType' /\ LinkType'
      BY DEF Start, EnvType, RoleType, LinkType, envVars, roleVars, linkVars
    <2>8. Begun'
      BY <2>1 DEF Start, Queued, Begun, Active, ReqType, FreeSids
    <2> QED BY <2>4b, <2>5, <2>6a, <2>7, <2>8
  <1>2. ASSUME NEW t \in Threads, TakeTurn(t) PROVE Types'
    <2> USE <1>2
    <2>1. ReqType'
      BY DEF TakeTurn, ReqType, Places
    <2>2. Begun'
      BY DEF TakeTurn, Begun, Active, ReqType, Places
    <2>3. MapType' /\ SendType' /\ EnvType' /\ RoleType' /\ LinkType'
      BY DEF TakeTurn, MapType, SendType, EnvType, RoleType, LinkType, mapVars, sendVars, envVars, roleVars, linkVars
    <2> QED BY <2>1, <2>2, <2>3
  <1>3. ASSUME NEW t \in Threads, StartRefused(t) PROVE Types'
    <2> USE <1>3
    <2>1. ReqType'
      BY DEF StartRefused, ReqType
    <2>2. Begun'
      BY DEF StartRefused, Begun, Active, ReqType
    <2>3. MapType' /\ SendType' /\ EnvType' /\ RoleType' /\ LinkType'
      BY DEF StartRefused, MapType, SendType, EnvType, RoleType, LinkType, mapVars, sendVars, envVars, roleVars, linkVars
    <2> QED BY <2>1, <2>2, <2>3
  <1>4. ASSUME NEW t \in Threads, TakeSendLock(t) PROVE Types'
    <2> USE <1>4
    <2>1. ReqType'
      BY DEF TakeSendLock, ReqType, Places
    <2>2. Begun'
      BY DEF TakeSendLock, Begun, Active, ReqType, Places
    <2>3. SendType'
      BY DEF TakeSendLock, SendType
    <2>4. MapType' /\ EnvType' /\ RoleType' /\ LinkType'
      BY DEF TakeSendLock, MapType, EnvType, RoleType, LinkType, mapVars, envVars, roleVars, linkVars
    <2> QED BY <2>1, <2>2, <2>3, <2>4
  <1>5. ASSUME NEW t \in Threads, TakeOutq(t) PROVE Types'
    <2> USE <1>5
    <2>1. SendType'
      BY DEF TakeOutq, SendType
    <2>2. ReqType' /\ MapType' /\ EnvType' /\ RoleType' /\ LinkType' /\ Begun'
      BY DEF TakeOutq, ReqType, MapType, EnvType, RoleType, LinkType, Begun, Active, reqVars, mapVars, envVars, roleVars, linkVars
    <2> QED BY <2>1, <2>2
  <1>6. ASSUME NEW t \in Threads, SendPiece(t) PROVE Types'
    <2> USE <1>6
    <2>1. Head(batch[t]) \in Frame /\ batch[t] \in Seq(Frame) /\ batch[t] # <<>> /\ Tail(batch[t]) \in Seq(Frame)
      BY DEF SendPiece, SendType
    <2>2. ASSUME Head(batch[t]).size = 1 PROVE EnvType' /\ SendType'
      <3>1. [frame |-> Head(batch[t]), last |-> ~torn] \in Piece
        BY <2>1 DEF Piece
      <3>2. up' = Append(up, [frame |-> Head(batch[t]), last |-> ~torn]) /\ batch' = [batch EXCEPT ![t] = Tail(@)]
        BY <2>2 DEF SendPiece
      <3>3. EnvType'
        BY <3>1, <3>2 DEF SendPiece, EnvType
      <3>4. SendType'
        BY <2>1, <3>2 DEF SendPiece, SendType
      <3> QED BY <3>3, <3>4
    <2>3. ASSUME Head(batch[t]).size # 1 PROVE EnvType' /\ SendType'
      <3>1. [frame |-> Head(batch[t]), last |-> FALSE] \in Piece
        BY <2>1 DEF Piece
      <3>2. /\ up' = Append(up, [frame |-> Head(batch[t]), last |-> FALSE])
            /\ batch' = [batch EXCEPT ![t][1].size = @ - 1]
        BY <2>3 DEF SendPiece
      <3>3. EnvType'
        BY <3>1, <3>2 DEF SendPiece, EnvType
      <3>4. 1 \in 1 .. Len(batch[t]) /\ batch[t][1] \in Frame /\ batch[t][1].size # 1
        BY <2>1, <2>3
      <3>5. [batch[t][1] EXCEPT !.size = @ - 1] \in Frame
        BY <3>4, SMTT(40) DEF Frame
      <3>6. [batch[t] EXCEPT ![1] = [batch[t][1] EXCEPT !.size = @ - 1]] \in Seq(Frame)
        BY <2>1, <3>4, <3>5, ExceptSeq
      <3>7. batch' = [batch EXCEPT ![t] = [batch[t] EXCEPT ![1] = [batch[t][1] EXCEPT !.size = @ - 1]]]
        BY <3>2
      <3>8. SendType'
        BY <3>6, <3>7 DEF SendPiece, SendType
      <3> QED BY <3>3, <3>8
    <2>4. ReqType' /\ MapType' /\ RoleType' /\ LinkType' /\ Begun'
      BY DEF SendPiece, ReqType, MapType, RoleType, LinkType, Begun, Active, reqVars, mapVars, roleVars, linkVars
    <2> QED BY <2>2, <2>3, <2>4
  <1>7. ASSUME NEW t \in Threads, SendFails(t) PROVE Types'
    <2> USE <1>7
    <2>1. Wakes(t, "drain")
      BY WakesAll DEF SendFails
    <2>2. Failing(NoThread) \in [Threads -> Seq(Event)]
      BY FailingType
    <2>3. ReqType'
      BY <2>1, <2>2 DEF SendFails, ReqType, Wakes
    <2>4. SendType'
      BY DEF SendFails, SendType
    <2>5. MapType' /\ EnvType' /\ RoleType' /\ LinkType'
      BY DEF SendFails, MapType, EnvType, RoleType, LinkType, mapVars, envVars, roleVars
    <2>6. Begun'
      BY <2>1 DEF SendFails, Begun, Active, Wakes, ReqType
    <2> QED BY <2>3, <2>4, <2>5, <2>6
  <1>8. ASSUME NEW t \in Threads, SendDone(t) PROVE Types'
    <2> USE <1>8
    <2>1. ReqType'
      BY DEF SendDone, ReqType, Places
    <2>2. Begun'
      BY DEF SendDone, Begun, Active, ReqType, Places
    <2>3. MapType' /\ SendType' /\ EnvType' /\ RoleType' /\ LinkType'
      BY DEF SendDone, MapType, SendType, EnvType, RoleType, LinkType, mapVars, sendVars, envVars, roleVars, linkVars
    <2> QED BY <2>1, <2>2, <2>3
  <1>9. ASSUME NEW t \in Threads, Unlock(t) PROVE Types'
    <2> USE <1>9
    <2>1. ReqType'
      BY DEF Unlock, ReqType, Places
    <2>2. Begun'
      BY DEF Unlock, Begun, Active, ReqType, Places
    <2>3. SendType'
      BY DEF Unlock, SendType
    <2>4. MapType' /\ EnvType' /\ RoleType' /\ LinkType'
      BY DEF Unlock, MapType, EnvType, RoleType, LinkType, mapVars, envVars, roleVars, linkVars
    <2> QED BY <2>1, <2>2, <2>3, <2>4
  <1>10. ASSUME NEW t \in Threads, Consume(t) PROVE Types'
    <2> USE <1>10
    <2>1. Head(box[t]) \in Event /\ Tail(box[t]) \in Seq(Event) /\ <<>> \in Seq(Event) /\ sid[t] \in Sids
      BY DEF Consume, ReqType, Begun, Active
    <2>2. ReqType' /\ MapType' /\ Begun'
      <3>1. CASE Head(box[t]).kind = "wait"
        <4>1. /\ pc' = [pc EXCEPT ![t] = "sitout"] /\ box' = [box EXCEPT ![t] = Tail(@)]
              /\ UNCHANGED <<told, mapVars, then, begun, round, sid>>
          BY <3>1 DEF Consume
        <4>2. ReqType'
          BY <2>1, <4>1 DEF ReqType, Places
        <4>3. MapType' /\ Begun'
          BY <2>1, <4>1 DEF Consume, ReqType, MapType, Begun, Active, mapVars
        <4> QED BY <4>2, <4>3
      <3>2. CASE Head(box[t]).kind # "wait"
        <4>1. MapType'
          BY <2>1, <3>2, ForgetType DEF Consume
        <4>2. /\ pc' = [pc EXCEPT ![t] = "idle"] /\ box' = [box EXCEPT ![t] = <<>>]
              /\ told' = [told EXCEPT ![t] = Head(box[t])] /\ UNCHANGED <<then, begun, round, sid>>
          BY <3>2 DEF Consume
        <4>2a. ReqType'
          BY <2>1, <4>2 DEF ReqType, Places
        <4>3. Begun'
          BY <3>2 DEF Consume, ReqType, Begun, Active
        <4> QED BY <4>1, <4>2a, <4>3
      <3> QED BY <3>1, <3>2
    <2>3. SendType' /\ EnvType' /\ RoleType' /\ LinkType'
      BY DEF Consume, SendType, EnvType, RoleType, LinkType, sendVars, envVars, roleVars, linkVars
    <2> QED BY <2>2, <2>3
  <1>11. ASSUME NEW t \in Threads, Resend(t) PROVE Types'
    <2> USE <1>11
    <2>1. sid[t] \in Sids
      BY DEF Resend, Begun, Active
    <2>2. EnvType' /\ RoleType' /\ LinkType'
      BY DEF Resend, EnvType, RoleType, LinkType, envVars, roleVars, linkVars
    <2>3. CASE box[t] # <<>>
      BY <2>1, <2>2, <2>3, ZenonT(60) DEF Resend, ReqType, MapType, SendType, Begun, Active, Places, mapVars
    <2>4. CASE box[t] = <<>> /\ mstate = "CLOSED"
      <3>1. pc' = [pc EXCEPT ![t] = "idle"] /\ told' = [told EXCEPT ![t] = Told("failed")] /\ Forget(t)
        BY <2>4 DEF Resend
      <3>2. UNCHANGED <<then, begun, round, sid, box, outq, framed, sendLock, batch>>
        BY <2>4 DEF Resend
      <3>3. MapType'
        BY <2>1, <3>1, ForgetType
      <3>4. ReqType' /\ SendType' /\ Begun'
        BY <3>1, <3>2 DEF ReqType, SendType, Begun, Active, Places
      <3> QED BY <2>2, <3>3, <3>4
    <2>5. CASE box[t] = <<>> /\ mstate # "CLOSED"
      <3> DEFINE frame == [who |-> t, round |-> round[t], sid |-> sid[t], num |-> framed + 1, size |-> 1, reply |-> 1]
      <3>1. /\ outq' = Append(outq, frame) /\ framed' = framed + 1
            /\ pc' = [pc EXCEPT ![t] = "queue"] /\ then' = [then EXCEPT ![t] = "await"]
            /\ UNCHANGED <<told, mapVars, begun, round, sid, box, sendLock, batch>>
        BY <2>5 DEF Resend
      <3>2. frame \in Frame
        BY <2>1 DEF Frame, ReqType, SendType
      <3> HIDE DEF frame
      <3>3. SendType'
        BY <3>1, <3>2 DEF SendType
      <3>4. ReqType' /\ MapType' /\ Begun'
        BY <2>1, <3>1 DEF ReqType, MapType, Begun, Active, Places, mapVars
      <3> QED BY <2>2, <3>3, <3>4
    <2> QED BY <2>3, <2>4, <2>5
  <1>12. ASSUME NEW t \in Threads, AwaitClosed(t) PROVE Types'
    <2> USE <1>12
    <2>1. sid[t] \in Sids
      BY DEF AwaitClosed, Begun, Active
    <2>2. MapType'
      BY <2>1, ForgetType DEF AwaitClosed
    <2>3. ReqType'
      BY DEF AwaitClosed, ReqType, Places
    <2>4. Begun'
      BY DEF AwaitClosed, Begun, Active, ReqType, Places
    <2>5. SendType' /\ EnvType' /\ RoleType' /\ LinkType'
      BY DEF AwaitClosed, SendType, EnvType, RoleType, LinkType, sendVars, envVars, roleVars, linkVars
    <2> QED BY <2>2, <2>3, <2>4, <2>5
  <1>13. ASSUME NEW t \in Threads, Follow(t) PROVE Types'
    <2> USE <1>13
    <2>1. ReqType'
      BY DEF Follow, ReqType, Places
    <2>2. Begun'
      BY DEF Follow, Begun, Active, ReqType, Places
    <2>3. MapType' /\ SendType' /\ EnvType' /\ RoleType' /\ LinkType'
      BY DEF Follow, MapType, SendType, EnvType, RoleType, LinkType, mapVars, sendVars, envVars, roleVars, linkVars
    <2> QED BY <2>1, <2>2, <2>3
  <1>14. ASSUME NEW t \in Threads, Lead(t) PROVE Types'
    <2> USE <1>14
    <2>1. ReqType'
      BY DEF Lead, ReqType, Places, ReaderAt
    <2>2. Begun'
      BY DEF Lead, Begun, Active, ReqType, Places, ReaderAt
    <2>3. RoleType'
      BY DEF Lead, RoleType
    <2>4. MapType' /\ SendType' /\ EnvType' /\ LinkType'
      BY DEF Lead, MapType, SendType, EnvType, LinkType, mapVars, sendVars, envVars, linkVars
    <2> QED BY <2>1, <2>2, <2>3, <2>4
  <1>15. ASSUME NEW t \in Threads, Receive(t) PROVE Types'
    <2> USE <1>15
    <2> DEFINE p == Head(down)
               to == IF p.last THEN pending[p.sid] ELSE NoThread
               got == IF to = NoThread THEN box ELSE [box EXCEPT ![inbox[p.sid]] = Append(@, p.event)]
    <2>1. p \in Reply /\ Tail(down) \in Seq(Reply) /\ Len(Tail(down)) <= DownCap /\ sid[t] \in Sids
      BY DEF Receive, EnvType, Begun, Active
    <2>2. p.event \in Event /\ p.sid \in Sids
      BY <2>1 DEF Reply, Answer, Event
    <2>3. got \in [Threads -> Seq(Event)]
      <3>1. ASSUME NEW u \in Threads PROVE Append(box[u], p.event) \in Seq(Event)
        <4>1. box[u] \in Seq(Event)
          BY DEF ReqType
        <4> QED BY <2>2, <4>1
      <3> HIDE DEF p
      <3> QED BY <3>1 DEF ReqType
    <2>4. EnvType' /\ MapType'
      <3>1. EnvType'
        BY <2>1 DEF Receive, EnvType
      <3>2. MapType'
        BY <2>2 DEF Receive, MapType
      <3> QED BY <3>1, <3>2
    <2>5. box' = got
      BY DEF Receive
    <2>6. /\ pc' \in [Threads -> Places]
          /\ \A u \in Threads : Active(u)' => Active(u)
      <3>1. CASE got[t] # <<>>
        <4>1. pc' = Woken([pc EXCEPT ![t] = "await"])
          BY <3>1 DEF Receive
        <4>2. Wakes(t, "await")
          BY <4>1, WakesBy DEF Places
        <4> QED BY <4>2 DEF Receive, Wakes, Active
      <3>2. CASE got[t] = <<>> /\ to = NoThread
        <4>1. pc' = [pc EXCEPT ![t] = ReaderAt(outq)]
          BY <3>2 DEF Receive
        <4> QED BY <4>1 DEF Receive, ReaderAt, Active, ReqType, Places
      <3>3. CASE got[t] = <<>> /\ to # NoThread
        <4>1. pc' = Woken([pc EXCEPT ![t] = ReaderAt(outq)])
          BY <3>3 DEF Receive, Route
        <4>2. Wakes(t, ReaderAt(outq))
          BY <4>1, WakesBy DEF Places, ReaderAt
        <4> QED BY <4>2 DEF Receive, Wakes, Active
      <3> QED BY <3>1, <3>2, <3>3
    <2>7. ReqType' /\ Begun'
      BY <2>3, <2>5, <2>6 DEF Receive, ReqType, Begun
    <2>8. RoleType' /\ LinkType'
      BY DEF Receive, RoleType, LinkType, LetGo
    <2>9. SendType'
      BY DEF Receive, SendType, sendVars
    <2> QED BY <2>4, <2>7, <2>8, <2>9
  <1>16. ASSUME NEW t \in Threads, LeaderExpires(t) PROVE Types'
    <2> USE <1>16
    <2>1. sid[t] \in Sids
      BY DEF LeaderExpires, Begun, Active
    <2>2. MapType'
      BY <2>1, ForgetType DEF LeaderExpires
    <2>3. Wakes(t, "idle")
      BY WakesBy DEF LeaderExpires, Places
    <2>4. ReqType'
      BY <2>3 DEF LeaderExpires, ReqType, Wakes
    <2>5. Begun'
      BY <2>3 DEF LeaderExpires, Begun, Active, Wakes
    <2>6. RoleType' /\ LinkType'
      BY DEF LeaderExpires, OutOfTime, RoleType, LetGo, LinkType
    <2>7. SendType' /\ EnvType'
      BY DEF LeaderExpires, SendType, EnvType, sendVars, envVars
    <2> QED BY <2>2, <2>4, <2>5, <2>6, <2>7
  <1>17. ASSUME NEW t \in Threads, FollowerExpires(t) PROVE Types'
    <2> USE <1>17
    <2>1. sid[t] \in Sids
      BY DEF FollowerExpires, Begun, Active
    <2>2. MapType'
      BY <2>1, ForgetType DEF FollowerExpires
    <2>3. ReqType'
      BY DEF FollowerExpires, ReqType, Places
    <2>4. Begun'
      BY DEF FollowerExpires, Begun, Active, ReqType, Places
    <2>5. SendType' /\ EnvType' /\ RoleType' /\ LinkType'
      BY DEF FollowerExpires, OutOfTime, SendType, EnvType, RoleType, LinkType, sendVars, envVars, roleVars
    <2> QED BY <2>2, <2>3, <2>4, <2>5
  <1>18. ASSUME NEW t \in Threads, SitoutExpires(t) PROVE Types'
    <2> USE <1>18
    <2>1. ReqType'
      BY DEF SitoutExpires, ReqType, Places
    <2>2. Begun'
      BY DEF SitoutExpires, Begun, Active, ReqType, Places
    <2>3. MapType'
      BY DEF SitoutExpires, MapType
    <2>4. SendType' /\ EnvType' /\ RoleType' /\ LinkType'
      BY DEF SitoutExpires, SendType, EnvType, RoleType, LinkType, sendVars, envVars, roleVars, linkVars
    <2> QED BY <2>1, <2>2, <2>3, <2>4
  <1>19. ASSUME NEW t \in Threads, TurnExpires(t) PROVE Types'
    <2> USE <1>19
    <2>1. ReqType'
      BY DEF TurnExpires, ReqType, Places
    <2>2. Begun'
      BY DEF TurnExpires, Begun, Active, ReqType, Places
    <2>3. MapType' /\ SendType' /\ EnvType' /\ RoleType' /\ LinkType'
      BY DEF TurnExpires, MapType, SendType, EnvType, RoleType, LinkType, mapVars, sendVars, envVars, roleVars, linkVars
    <2> QED BY <2>1, <2>2, <2>3
  <1>20. ASSUME NEW t \in Threads, LinkTimesOut(t) PROVE Types'
    <2> USE <1>20
    <2>1. sid[t] \in Sids
      BY DEF LinkTimesOut, Begun, Active
    <2>2. MapType'
      BY <2>1, ForgetType DEF LinkTimesOut
    <2>3. Wakes(t, "idle")
      BY WakesBy DEF LinkTimesOut, Places
    <2>4. Failing(t) \in [Threads -> Seq(Event)] /\ <<>> \in Seq(Event)
      BY FailingType
    <2>5. ReqType'
      BY <2>3, <2>4 DEF LinkTimesOut, ReqType, Wakes
    <2>6. Begun'
      BY <2>3 DEF LinkTimesOut, Begun, Active, Wakes
    <2>7. RoleType' /\ LinkType'
      BY DEF LinkTimesOut, RoleType, LetGo, LinkType
    <2>8. SendType' /\ EnvType'
      BY DEF LinkTimesOut, SendType, EnvType, sendVars, envVars
    <2> QED BY <2>2, <2>5, <2>6, <2>7, <2>8
  <1>21. ASSUME NEW t \in Threads, ReaderSendFailed(t) PROVE Types'
    <2> USE <1>21
    <2>1. sid[t] \in Sids
      BY DEF ReaderSendFailed, Begun, Active
    <2>2. SendType' /\ EnvType' /\ RoleType'
      BY DEF ReaderSendFailed, SendType, EnvType, RoleType, LetGo, sendVars, envVars
    <2>3. CASE mstate = "CLOSED"
      <3>1. Wakes(t, "await")
        BY <2>3, WakesBy DEF ReaderSendFailed, Places
      <3> QED BY <2>1, <2>2, <2>3, <3>1
              DEF ReaderSendFailed, ReqType, MapType, LinkType, Begun, Active, Wakes, LetGo, mapVars
    <2>4. CASE mstate # "CLOSED"
      <3>1. Wakes(t, "idle")
        BY <2>4, WakesBy DEF ReaderSendFailed, Places
      <3>2. Failing(t) \in [Threads -> Seq(Event)] /\ <<>> \in Seq(Event)
        BY FailingType
      <3>3. MapType'
        BY <2>1, <2>4, ForgetType DEF ReaderSendFailed
      <3>4. LinkType'
        BY <2>4 DEF ReaderSendFailed, LinkType, LetGo
      <3>5. box' = [Failing(t) EXCEPT ![t] = <<>>] /\ told' = [told EXCEPT ![t] = Told("failed")]
        BY <2>4 DEF ReaderSendFailed
      <3>5a. ReqType'
        BY <3>1, <3>2, <3>5 DEF ReaderSendFailed, ReqType, Wakes
      <3>6. Begun'
        BY <3>1 DEF ReaderSendFailed, Begun, Active, Wakes
      <3> QED BY <2>2, <3>3, <3>4, <3>5a, <3>6
    <2> QED BY <2>3, <2>4
  <1>22. ASSUME NEW t \in Threads, ReadEof(t) PROVE Types'
    <2> USE <1>22
    <2>1. Wakes(t, "await")
      BY WakesBy DEF ReadEof, Places
    <2>2. Failing(t) \in [Threads -> Seq(Event)]
      BY FailingType
    <2>2a. Append(Failing(t)[t], Told("failed")) \in Seq(Event)
      BY <2>2
    <2>2b. [Failing(t) EXCEPT ![t] = Append(@, Told("failed"))] \in [Threads -> Seq(Event)]
      BY <2>2, <2>2a
    <2>3. ReqType'
      BY <2>1, <2>2b DEF ReadEof, ReqType, Wakes
    <2>4. MapType' /\ RoleType' /\ LinkType'
      BY DEF ReadEof, MapType, RoleType, LinkType, LetGo
    <2>5. SendType' /\ EnvType'
      BY DEF ReadEof, SendType, EnvType, sendVars, envVars
    <2>6. Begun'
      BY <2>1 DEF ReadEof, Begun, Active, Wakes
    <2> QED BY <2>3, <2>4, <2>5, <2>6
  <1>23. ASSUME NEW t \in Threads, ReadClosed(t) PROVE Types'
    <2> USE <1>23
    <2>1. Wakes(t, "await")
      BY WakesBy DEF ReadClosed, Places
    <2>2. ReqType'
      BY <2>1 DEF ReadClosed, ReqType, Wakes
    <2>3. Begun'
      BY <2>1 DEF ReadClosed, Begun, Active, Wakes
    <2>4. RoleType' /\ LinkType'
      BY DEF ReadClosed, RoleType, LetGo, LinkType
    <2>5. MapType' /\ SendType' /\ EnvType'
      BY DEF ReadClosed, MapType, SendType, EnvType, mapVars, sendVars, envVars
    <2> QED BY <2>2, <2>3, <2>4, <2>5
  <1>24. ASSUME NEW t \in Threads, BulkBegin(t) PROVE Types'
    <2> USE <1>24
    <2>1. ReqType'
      BY DEF BulkBegin, ReqType, Places
    <2>2. Begun'
      BY DEF BulkBegin, Begun, Active, ReqType, Places
    <2>3. RoleType'
      BY DEF BulkBegin, RoleType
    <2>4. MapType' /\ SendType' /\ EnvType' /\ LinkType'
      BY DEF BulkBegin, MapType, SendType, EnvType, LinkType, mapVars, sendVars, envVars, linkVars
    <2> QED BY <2>1, <2>2, <2>3, <2>4
  <1>25. ASSUME NEW t \in Threads, BulkEnd(t) PROVE Types'
    <2> USE <1>25
    <2>1. Wakes(t, "idle")
      BY WakesBy DEF BulkEnd, Places
    <2>2. ReqType'
      BY <2>1 DEF BulkEnd, ReqType, Wakes
    <2>3. Begun'
      BY <2>1 DEF BulkEnd, Begun, Active, Wakes
    <2>4. SendType' /\ RoleType' /\ LinkType'
      BY DEF BulkEnd, SendType, RoleType, LetGo, LinkType
    <2>5. MapType' /\ EnvType'
      BY DEF BulkEnd, MapType, EnvType, mapVars, envVars
    <2> QED BY <2>2, <2>3, <2>4, <2>5
  <1>26. CASE ServerReads
    <2> USE <1>26
    <2>1. Head(up) \in Piece /\ Tail(up) \in Seq(Piece) /\ Len(Tail(up)) <= UpCap
      BY DEF ServerReads, EnvType
    <2>2. [frame |-> Head(up).frame, left |-> Head(up).frame.reply] \in Serving /\ Head(up).frame.num \in Nat
      BY <2>1 DEF Serving, Piece, Frame
    <2>3. EnvType'
      BY <2>1, <2>2 DEF ServerReads, EnvType
    <2>4. ReqType' /\ MapType' /\ SendType' /\ RoleType' /\ LinkType' /\ Begun'
      BY DEF ServerReads, ReqType, MapType, SendType, RoleType, LinkType, Begun, Active, reqVars, mapVars, sendVars,
             roleVars, linkVars
    <2> QED BY <2>3, <2>4
  <1>27. CASE ServerWrites
    <2> USE <1>27
    <2>1. server \in [frame : Frame, left : Nat] /\ server.frame \in Frame
      BY DEF ServerWrites, EnvType, Serving, Nobody
    <2>2. [server EXCEPT !.left = @ - 1] \in Serving /\ Nobody \in Serving
      BY <2>1 DEF ServerWrites, Serving
    <2>3. PICK kind \in {"ok", "wait"} :
            /\ down' = Append(down, [sid |-> server.frame.sid, last |-> server.left = 1,
                 event |-> [kind |-> kind, who |-> server.frame.who, round |-> server.frame.round]])
            /\ waits' = IF kind = "wait" THEN waits + 1 ELSE waits
            /\ server' = IF server.left = 1 THEN Nobody ELSE [server EXCEPT !.left = @ - 1]
      BY DEF ServerWrites
    <2>4. [kind |-> kind, who |-> server.frame.who, round |-> server.frame.round] \in Answer
      BY <2>1 DEF Answer, Frame
    <2>5. [sid |-> server.frame.sid, last |-> server.left = 1,
           event |-> [kind |-> kind, who |-> server.frame.who, round |-> server.frame.round]] \in Reply
      BY <2>1, <2>4 DEF Reply, Frame
    <2>6. EnvType'
      BY <2>2, <2>3, <2>5 DEF ServerWrites, EnvType
    <2>7. ReqType' /\ MapType' /\ SendType' /\ RoleType' /\ LinkType' /\ Begun'
      BY DEF ServerWrites, ReqType, MapType, SendType, RoleType, LinkType, Begun, Active, reqVars, mapVars, sendVars,
             roleVars, linkVars
    <2> QED BY <2>6, <2>7
  <1>28. CASE PeerCloses
    <2> USE <1>28
    <2>1. LinkType'
      BY DEF PeerCloses, LinkType
    <2>2. ReqType' /\ MapType' /\ SendType' /\ EnvType' /\ RoleType' /\ Begun'
      BY DEF PeerCloses, ReqType, MapType, SendType, EnvType, RoleType, Begun, Active, reqVars, mapVars, sendVars, envVars, roleVars
    <2> QED BY <2>1, <2>2
  <1>29. CASE Close
    <2> USE <1>29
    <2>1. LinkType'
      BY DEF Close, LinkType
    <2>2. ReqType' /\ MapType' /\ SendType' /\ EnvType' /\ RoleType' /\ Begun'
      BY DEF Close, ReqType, MapType, SendType, EnvType, RoleType, Begun, Active, reqVars, mapVars, sendVars, envVars, roleVars
    <2> QED BY <2>1, <2>2
  <1>30. CASE CloseLink
    <2> USE <1>30
    <2>1. pc' \in [Threads -> Places] /\ \A u \in Threads : Active(u)' => Active(u)
      BY DEF CloseLink, Woken, ReqType, Places, Active
    <2>2. ReqType' /\ Begun'
      BY <2>1 DEF CloseLink, ReqType, Begun
    <2>3. LinkType' /\ SendType'
      BY DEF CloseLink, Discard, LinkType, SendType
    <2>4. MapType' /\ EnvType' /\ RoleType'
      BY DEF CloseLink, MapType, EnvType, RoleType, mapVars, envVars, roleVars
    <2> QED BY <2>2, <2>3, <2>4
  <1>31. CASE UNCHANGED vars
    BY <1>31 DEF vars, ReqType, MapType, SendType, EnvType, RoleType, LinkType, Begun, Active, reqVars, mapVars, sendVars,
           envVars, roleVars, linkVars
  <1> QED BY <1>1, <1>2, <1>3, <1>4, <1>5, <1>6, <1>7, <1>8, <1>9, <1>10, <1>11, <1>12, <1>13, <1>14, <1>15, <1>16, <1>17, <1>18, <1>19, <1>20, <1>21, <1>22, <1>23, <1>24, <1>25, <1>26, <1>27, <1>28, <1>29, <1>30, <1>31 DEF Next, Step, Choice

\* Every step keeps the reader role one thread's.
LEMMA RolesStep == ASSUME ReaderInv, [Next]_vars PROVE Roles'
  <1> USE DEF ReaderInv, Types, Roles
  <1>1. ASSUME NEW t \in Threads, Start(t) PROVE Roles'
    <2> USE <1>1
    <2>1. PICK s \in FreeSids, size \in ReqSizes, reply \in ReplySizes : Queued(t, NewFrame(t, s, size, reply))
      BY DEF Start
    <2>2. LockHeld'
      <3>1. CASE sendLock = NoThread
        BY <2>1, <3>1, DriverAssumption DEF LockHeld, Queued, ReqType, SendType
      <3>2. CASE sendLock # NoThread
        BY <2>1, <3>2, ZenonT(60) DEF Start, LockHeld, Queued, ReqType
      <3> QED BY <3>1, <3>2
    <2>3. /\ pc'[t] \in {"drain", "queue"} /\ then'[t] = "await"
          /\ \A u \in Threads \ {t} : pc'[u] = pc[u] /\ then'[u] = then[u]
      BY <2>1 DEF Start, Queued, ReqType
    <2>4. Bound'
      BY <2>3 DEF Start, Bound, roleVars
    <2>5. \A u \in Threads : Has(u)' <=> Has(u)
      BY <2>3 DEF Start, Has
    <2>6. Role' /\ Asleep' /\ Shut'
      BY <2>3, <2>5 DEF Start, Role, Asleep, Shut, roleVars, linkVars
    <2> QED BY <2>2, <2>4, <2>6
  <1>2. ASSUME NEW t \in Threads, TakeTurn(t) PROVE Roles'
    <2> USE <1>2
    <2>1. Moves(t, "turn")
      BY MovesBy DEF TakeTurn, Places
    <2> QED BY <2>1, RolesPass DEF TakeTurn, sendVars, roleVars, linkVars
  <1>3. ASSUME NEW t \in Threads, StartRefused(t) PROVE Roles'
    <2> USE <1>3
    <2> QED BY RolesStay DEF StartRefused, LockHeld, ReqType, SendType, reqVars, sendVars, roleVars, linkVars
  <1>4. ASSUME NEW t \in Threads, TakeSendLock(t) PROVE Roles'
    <2> USE <1>4
    <2>1. Moves(t, "drain")
      BY MovesBy DEF TakeSendLock, Places
    <2>2. LockHeld'
      BY <2>1, DriverAssumption DEF TakeSendLock, LockHeld, Bound, Moves, Wakes, ReqType, SendType
    <2>3. Bound'
      BY <2>1, DriverAssumption DEF TakeSendLock, Bound, Moves, Wakes, ReqType, RoleType, roleVars
    <2>4. \A u \in Threads : Has(u)' <=> Has(u)
      BY <2>1 DEF TakeSendLock, Has, Bound, Moves, Wakes, ReqType
    <2>5. Role'
      BY <2>1, <2>4 DEF TakeSendLock, Role, roleVars, LetGo
    <2>6. Asleep'
      BY <2>1 DEF TakeSendLock, Asleep, Moves, Wakes, roleVars, LetGo
    <2>7. Shut'
      BY DEF TakeSendLock, Shut, Role, Has, LinkType, roleVars, linkVars, LetGo, Discard
    <2> QED BY <2>2, <2>3, <2>5, <2>6, <2>7
  <1>5. ASSUME NEW t \in Threads, TakeOutq(t) PROVE Roles'
    <2> USE <1>5
    <2> QED BY RolesStay DEF TakeOutq, LockHeld, ReqType, SendType, reqVars, sendVars, roleVars, linkVars
  <1>6. ASSUME NEW t \in Threads, SendPiece(t) PROVE Roles'
    <2> USE <1>6
    <2> QED BY RolesStay DEF SendPiece, LockHeld, ReqType, SendType, reqVars, sendVars, roleVars, linkVars
  <1>7. ASSUME NEW t \in Threads, SendFails(t) PROVE Roles'
    <2> USE <1>7
    <2>1. Wakes(t, "drain")
      BY WakesAll DEF SendFails
    <2>2. LockHeld'
      BY <2>1, ZenonT(60) DEF SendFails, LockHeld, Bound, Moves, Wakes, ReqType, SendType
    <2>3. Bound'
      BY <2>1 DEF SendFails, Bound, Moves, Wakes, ReqType, RoleType, roleVars
    <2>4. \A u \in Threads : Has(u)' <=> Has(u)
      BY <2>1 DEF SendFails, Has, Bound, Moves, Wakes, ReqType
    <2>5. Role'
      BY <2>1, <2>4 DEF SendFails, Role, roleVars, LetGo
    <2>6. Asleep'
      BY <2>1 DEF SendFails, Asleep, Moves, Wakes, roleVars, LetGo
    <2>7. Shut'
      BY DEF SendFails, Shut, Role, Has, LinkType, roleVars, linkVars, LetGo, Discard
    <2> QED BY <2>2, <2>3, <2>5, <2>6, <2>7
  <1>8. ASSUME NEW t \in Threads, SendDone(t) PROVE Roles'
    <2> USE <1>8
    <2>1. Moves(t, IF then[t] = "bulk" THEN "bulk" ELSE "unlock")
      BY MovesBy DEF SendDone, Places
    <2>2. LockHeld'
      BY <2>1 DEF SendDone, LockHeld, Bound, Moves, Wakes, ReqType, SendType, sendVars
    <2>3. Bound'
      BY <2>1 DEF SendDone, Bound, Moves, Wakes, ReqType, RoleType, roleVars, sendVars
    <2>4. \A u \in Threads : Has(u)' <=> Has(u)
      BY <2>1 DEF SendDone, Has, Bound, Moves, Wakes, ReqType
    <2>5. Role'
      BY <2>1, <2>4 DEF SendDone, Role, roleVars, LetGo
    <2>6. Asleep'
      BY <2>1 DEF SendDone, Asleep, Moves, Wakes, roleVars, LetGo
    <2>7. Shut'
      BY DEF SendDone, Shut, Role, Has, LinkType, roleVars, linkVars, LetGo, Discard
    <2> QED BY <2>2, <2>3, <2>5, <2>6, <2>7
  <1>9. ASSUME NEW t \in Threads, Unlock(t) PROVE Roles'
    <2> USE <1>9
    <2>1. Moves(t, then[t]) /\ then[t] \in {"await", "reading", "senderr"}
      BY MovesBy DEF Unlock, Bound, Places, ReqType
    <2>2. LockHeld'
      BY <2>1, DriverAssumption DEF Unlock, LockHeld, Bound, Moves, Wakes, ReqType, SendType
    <2>3. Bound'
      BY <2>1, DriverAssumption DEF Unlock, Bound, Moves, Wakes, ReqType, RoleType, roleVars
    <2>4. \A u \in Threads : Has(u)' <=> Has(u)
      BY <2>1 DEF Unlock, Has, Bound, Moves, Wakes, ReqType
    <2>5. Role'
      BY <2>1, <2>4 DEF Unlock, Role, roleVars, LetGo
    <2>6. Asleep'
      BY <2>1 DEF Unlock, Asleep, Moves, Wakes, roleVars, LetGo
    <2>7. Shut'
      BY DEF Unlock, Shut, Role, Has, LinkType, roleVars, linkVars, LetGo, Discard
    <2> QED BY <2>2, <2>3, <2>5, <2>6, <2>7
  <1>10. ASSUME NEW t \in Threads, Consume(t) PROVE Roles'
    <2> USE <1>10
    <2>1. CASE Head(box[t]).kind = "wait"
      <3>1. Moves(t, "sitout")
        BY <2>1, MovesBy DEF Consume, Places
      <3> QED BY <3>1, RolesPass DEF Consume, sendVars, roleVars, linkVars
    <2>2. CASE Head(box[t]).kind # "wait"
      <3>1. Moves(t, "idle")
        BY <2>2, MovesBy DEF Consume, Places
      <3> QED BY <3>1, RolesPass DEF Consume, sendVars, roleVars, linkVars
    <2> QED BY <2>1, <2>2
  <1>11. ASSUME NEW t \in Threads, Resend(t) PROVE Roles'
    <2> USE <1>11
    <2>1. CASE box[t] # <<>>
      <3>1. Moves(t, "await")
        BY <2>1, MovesBy DEF Resend, Places
      <3> QED BY <2>1, <3>1, RolesPass DEF Resend, roleVars, linkVars
    <2>2. CASE box[t] = <<>> /\ mstate = "CLOSED"
      <3>1. Moves(t, "idle") /\ UNCHANGED then
        BY <2>2, MovesBy DEF Resend, Places
      <3> QED BY <3>1, RolesPass DEF Resend, roleVars, linkVars
    <2>3. CASE box[t] = <<>> /\ mstate # "CLOSED"
      <3>1. Moves(t, "queue") /\ then' = [then EXCEPT ![t] = "await"]
        BY <2>3, MovesBy DEF Resend, Places
      <3> QED BY <3>1, RolesPass DEF Resend, roleVars, linkVars
    <2> QED BY <2>1, <2>2, <2>3
  <1>12. ASSUME NEW t \in Threads, AwaitClosed(t) PROVE Roles'
    <2> USE <1>12
    <2>1. Moves(t, "idle")
      BY MovesBy DEF AwaitClosed, Places
    <2> QED BY <2>1, RolesPass DEF AwaitClosed, sendVars, roleVars, linkVars
  <1>13. ASSUME NEW t \in Threads, Follow(t) PROVE Roles'
    <2> USE <1>13
    <2>1. Moves(t, "parked")
      BY MovesBy DEF Follow, Places
    <2> QED BY <2>1, RolesPass DEF Follow, sendVars, roleVars, linkVars
  <1>14. ASSUME NEW t \in Threads, Lead(t) PROVE Roles'
    <2> USE <1>14
    <2>1. Moves(t, ReaderAt(outq)) /\ ReaderAt(outq) \in {"queue", "reading"}
      BY MovesBy DEF Lead, Places, ReaderAt
    <2>2. LockHeld'
      BY <2>1 DEF Lead, LockHeld, Bound, Moves, Wakes, ReqType, SendType, sendVars
    <2>3. Bound'
      BY <2>1 DEF Lead, Bound, Moves, Wakes, ReqType, RoleType, roleVars, sendVars
    <2>4. Has(t)' /\ \A u \in Threads : Has(u)' => u = t
      BY <2>1 DEF Lead, Has, Role, Moves, ReqType
    <2>5. Role'
      BY <2>1, <2>4 DEF Lead, Role, roleVars, LetGo
    <2>6. Asleep'
      BY <2>1 DEF Lead, Asleep, Moves, Wakes, roleVars, LetGo
    <2>7. Shut'
      BY DEF Lead, Shut, Role, Has, LinkType, roleVars, linkVars, LetGo, Discard
    <2> QED BY <2>2, <2>3, <2>5, <2>6, <2>7
  <1>15. ASSUME NEW t \in Threads, Receive(t) PROVE Roles'
    <2> USE <1>15
    <2> DEFINE p == Head(down)
               to == IF p.last THEN pending[p.sid] ELSE NoThread
               got == IF to = NoThread THEN box ELSE [box EXCEPT ![inbox[p.sid]] = Append(@, p.event)]
    <2>1. ASSUME got[t] # <<>> PROVE Roles'
      <3>1. Wakes(t, "await") /\ LetGo
        BY <2>1, WakesBy DEF Receive, Places
      <3> HIDE DEF p, to, got
      <3> QED BY <3>1, RolesEnd DEF Receive, sendVars
    <2>2. ASSUME got[t] = <<>> PROVE Roles'
      <3>1. UNCHANGED <<reading, fd>> /\ ReaderAt(outq) \in {"queue", "reading"}
        BY <2>2 DEF Receive, ReaderAt
      <3>2. Moves(t, ReaderAt(outq)) \/ Wakes(t, ReaderAt(outq))
        <4>1. CASE to = NoThread
          <5>1. pc' = [pc EXCEPT ![t] = ReaderAt(outq)]
            BY <2>2, <4>1 DEF Receive
          <5> QED BY <3>1, <5>1, MovesBy DEF Places
        <4>2. CASE to # NoThread
          <5>1. pc' = Woken([pc EXCEPT ![t] = ReaderAt(outq)])
            BY <2>2, <4>2 DEF Receive, Route
          <5> QED BY <3>1, <5>1, WakesBy DEF Places
        <4> QED BY <4>1, <4>2
      <3>3. UNCHANGED <<then, sendLock, batch, bulkOwner, mstate>> /\ pc[t] = "reading"
        BY DEF Receive, sendVars
      <3> HIDE DEF p, to, got
      <3>4. LockHeld'
        BY <3>1, <3>2, <3>3 DEF LockHeld, Moves, Wakes
      <3>5. Bound'
        BY <3>1, <3>2, <3>3 DEF Bound, Moves, Wakes
      <3>6. \A u \in Threads : Has(u)' <=> Has(u)
        BY <3>1, <3>2, <3>3 DEF Has, Bound, Moves, Wakes
      <3>7. Role' /\ Asleep' /\ Shut'
        BY <3>1, <3>2, <3>3, <3>6 DEF Role, Asleep, Shut, Moves, Wakes
      <3> QED BY <3>4, <3>5, <3>7
    <2> QED BY <2>1, <2>2
  <1>16. ASSUME NEW t \in Threads, LeaderExpires(t) PROVE Roles'
    <2> USE <1>16
    <2>1. Wakes(t, "idle")
      BY WakesBy DEF LeaderExpires, Places
    <2> QED BY <2>1, RolesEnd DEF LeaderExpires, sendVars
  <1>17. ASSUME NEW t \in Threads, FollowerExpires(t) PROVE Roles'
    <2> USE <1>17
    <2>1. Moves(t, "idle")
      BY MovesBy DEF FollowerExpires, Places
    <2> QED BY <2>1, RolesPass DEF FollowerExpires, sendVars, roleVars, linkVars
  <1>18. ASSUME NEW t \in Threads, SitoutExpires(t) PROVE Roles'
    <2> USE <1>18
    <2>1. Moves(t, "idle")
      BY MovesBy DEF SitoutExpires, Places
    <2> QED BY <2>1, RolesPass DEF SitoutExpires, sendVars, roleVars, linkVars
  <1>19. ASSUME NEW t \in Threads, TurnExpires(t) PROVE Roles'
    <2> USE <1>19
    <2>1. Moves(t, "idle")
      BY MovesBy DEF TurnExpires, Places
    <2> QED BY <2>1, RolesPass DEF TurnExpires, sendVars, roleVars, linkVars
  <1>20. ASSUME NEW t \in Threads, LinkTimesOut(t) PROVE Roles'
    <2> USE <1>20
    <2>1. Wakes(t, "idle")
      BY WakesBy DEF LinkTimesOut, Places
    <2> QED BY <2>1, RolesEnd DEF LinkTimesOut, sendVars
  <1>21. ASSUME NEW t \in Threads, ReaderSendFailed(t) PROVE Roles'
    <2> USE <1>21
    <2>1. CASE mstate = "CLOSED"
      <3>1. Wakes(t, "await")
        BY <2>1, WakesBy DEF ReaderSendFailed, Places
      <3> QED BY <3>1, RolesEnd DEF ReaderSendFailed, sendVars
    <2>2. CASE mstate # "CLOSED"
      <3>1. Wakes(t, "idle")
        BY <2>2, WakesBy DEF ReaderSendFailed, Places
      <3> QED BY <3>1, RolesEnd DEF ReaderSendFailed, sendVars
    <2> QED BY <2>1, <2>2
  <1>22. ASSUME NEW t \in Threads, ReadEof(t) PROVE Roles'
    <2> USE <1>22
    <2>1. Wakes(t, "await")
      BY WakesBy DEF ReadEof, Places
    <2> QED BY <2>1, RolesEnd DEF ReadEof, sendVars
  <1>23. ASSUME NEW t \in Threads, ReadClosed(t) PROVE Roles'
    <2> USE <1>23
    <2>1. Wakes(t, "await")
      BY WakesBy DEF ReadClosed, Places
    <2> QED BY <2>1, RolesEnd DEF ReadClosed, sendVars
  <1>24. ASSUME NEW t \in Threads, BulkBegin(t) PROVE Roles'
    <2> USE <1>24
    <2>1. Moves(t, "queue")
      BY MovesBy DEF BulkBegin, Places
    <2>2. LockHeld'
      BY <2>1, DriverAssumption DEF BulkBegin, LockHeld, Bound, Moves, Wakes, ReqType, SendType, sendVars
    <2>3. Bound'
      BY <2>1, DriverAssumption DEF BulkBegin, Bound, Moves, Wakes, ReqType, RoleType, roleVars, sendVars
    <2>4. Has(t)' /\ \A u \in Threads : Has(u)' => u = t
      BY <2>1 DEF BulkBegin, Has, Role, Moves, ReqType
    <2>5. Role'
      BY <2>1, <2>4 DEF BulkBegin, Role, roleVars, LetGo
    <2>6. Asleep'
      BY <2>1 DEF BulkBegin, Asleep, Moves, Wakes, roleVars, LetGo
    <2>7. Shut'
      BY DEF BulkBegin, Shut, Role, Has, LinkType, roleVars, linkVars, LetGo, Discard
    <2> QED BY <2>2, <2>3, <2>5, <2>6, <2>7
  <1>25. ASSUME NEW t \in Threads, BulkEnd(t) PROVE Roles'
    <2> USE <1>25
    <2>1. Wakes(t, "idle")
      BY WakesBy DEF BulkEnd, Places
    <2>2. LockHeld'
      BY <2>1, DriverAssumption DEF BulkEnd, LockHeld, Bound, Moves, Wakes, ReqType, SendType
    <2>3. Bound'
      BY <2>1, DriverAssumption, ZenonT(60) DEF BulkEnd, Bound, Moves, Wakes, ReqType, RoleType, roleVars
    <2>4. \A u \in Threads : ~Has(u)'
      BY <2>1 DEF BulkEnd, Has, Role, Wakes
    <2>5. Role'
      BY <2>1, <2>4 DEF BulkEnd, Role, roleVars, LetGo
    <2>6. Asleep'
      BY <2>1 DEF BulkEnd, Asleep, Moves, Wakes, roleVars, LetGo
    <2>7. Shut'
      BY DEF BulkEnd, Shut, Role, Has, LinkType, roleVars, linkVars, LetGo, Discard
    <2> QED BY <2>2, <2>3, <2>5, <2>6, <2>7
  <1>26. CASE ServerReads
    <2> USE <1>26
    <2> QED BY RolesStay DEF ServerReads, LockHeld, ReqType, SendType, reqVars, sendVars, roleVars, linkVars
  <1>27. CASE ServerWrites
    <2> USE <1>27
    <2> QED BY RolesStay DEF ServerWrites, LockHeld, ReqType, SendType, reqVars, sendVars, roleVars, linkVars
  <1>28. CASE PeerCloses
    <2> USE <1>28
    <2> QED BY RolesStay DEF PeerCloses, LockHeld, ReqType, SendType, reqVars, sendVars, roleVars, linkVars
  <1>29. CASE Close
    <2> USE <1>29
    <2> QED BY RolesStay DEF Close, LockHeld, ReqType, SendType, reqVars, sendVars, roleVars, linkVars
  <1>30. CASE CloseLink
    <2> USE <1>30
    <2>1. \A u \in Threads : /\ pc[u] = "turn" => pc'[u] = "idle"
                             /\ pc[u] = "parked" => pc'[u] = "await"
                             /\ pc[u] \notin {"turn", "parked"} => pc'[u] = pc[u]
      BY DEF CloseLink, Woken, ReqType
    <2>2. LockHeld'
      BY <2>1 DEF CloseLink, LockHeld, Bound, Moves, Wakes, ReqType, SendType
    <2>3. Bound'
      BY <2>1 DEF CloseLink, Bound, Moves, Wakes, ReqType, RoleType, roleVars
    <2>4. \A u \in Threads : Has(u)' <=> Has(u)
      BY <2>1 DEF CloseLink, Has, Bound, Moves, Wakes, ReqType
    <2>5. Role'
      BY <2>1, <2>4 DEF CloseLink, Role, roleVars, LetGo
    <2>6. Asleep'
      BY <2>1 DEF CloseLink, Asleep, Moves, Wakes, roleVars, LetGo
    <2>7. Shut'
      BY DEF CloseLink, Shut, Role, Has, LinkType, roleVars, linkVars, LetGo, Discard
    <2> QED BY <2>2, <2>3, <2>5, <2>6, <2>7
  <1>31. CASE UNCHANGED vars
    BY <1>31, RolesStay DEF vars, LockHeld, reqVars, sendVars, roleVars, linkVars
  <1> QED BY <1>1, <1>2, <1>3, <1>4, <1>5, <1>6, <1>7, <1>8, <1>9, <1>10, <1>11, <1>12, <1>13, <1>14, <1>15, <1>16, <1>17, <1>18, <1>19, <1>20, <1>21, <1>22, <1>23, <1>24, <1>25, <1>26, <1>27, <1>28, <1>29, <1>30, <1>31 DEF Next, Step, Choice

\* The inductive invariant holds throughout.
THEOREM ReaderAlways == Spec => []ReaderInv
  <1>1. Init => ReaderInv
    <2> SUFFICES ASSUME Init PROVE ReaderInv
      OBVIOUS
    <2> USE ToldType, DriverAssumption DEF Init
    <2>1. ReqType /\ MapType
      BY DEF ReqType, MapType, Places
    <2>2. RoleType /\ LinkType
      BY DEF RoleType, LinkType
    <2>2a. SendType
      BY DEF SendType
    <2>2b. torn \in BOOLEAN
      BY Zenon
    <2>2c. /\ up \in Seq(Piece) /\ Len(up) <= UpCap /\ down \in Seq(Reply) /\ Len(down) <= DownCap
           /\ server \in Serving /\ waits \in Nat /\ arrived \in Nat
      BY DEF Serving
    <2>3. EnvType
      BY <2>2b, <2>2c DEF EnvType
    <2>4. Begun /\ LockHeld /\ Bound /\ Role /\ Asleep /\ Shut
      BY DEF Begun, LockHeld, Bound, Role, Asleep, Shut, Active, Has
    <2> QED BY <2>1, <2>2, <2>2a, <2>3, <2>4 DEF ReaderInv, Types, Roles
  <1>2. ReaderInv /\ [Next]_vars => ReaderInv'
    BY TypesStep, RolesStep DEF ReaderInv
  <1> QED BY <1>1, <1>2, PTL DEF Spec

\* Whatever fails or expires, one thread at a time reads the link, nobody
\* sleeps through its turn, and the descriptor outlives its reader (_lead,
\* _let_go, _follow, _discard).
THEOREM ReaderIsSafe == Spec => []ReaderSafe
  <1>1. ReaderInv => ReaderSafe
    <2> SUFFICES ASSUME ReaderInv PROVE ReaderSafe
      OBVIOUS
    <2> USE DEF ReaderInv, Types, Roles
    <2>1. TypeOK
      BY DEF TypeOK, ReqType, MapType, SendType, EnvType, LockHeld
    <2>2. Readers = {t \in Threads : Has(t)}
      BY DEF Readers, Has
    <2>3. reading <=> Readers # {}
      BY <2>2 DEF Role
    <2>4. Cardinality(Readers) <= 1
      <3>1. CASE Readers = {}
        BY <3>1, FS_EmptySet
      <3>2. ASSUME NEW t \in Readers PROVE Cardinality(Readers) <= 1
        <4>1. Readers = {t}
          BY <2>2, <3>2 DEF Role
        <4>2. Cardinality({t}) = 1
          BY FS_Singleton
        <4> QED BY <4>1, <4>2
      <3> QED BY <3>1, <3>2
    <2>5. NoLostWakeup
      BY DEF NoLostWakeup, Asleep
    <2>6. ClosedUnread
      BY DEF ClosedUnread, Shut, Role, Has
    <2> QED BY <2>1, <2>3, <2>4, <2>5, <2>6 DEF ReaderSafe, OneReader
  <1> QED BY <1>1, ReaderAlways, PTL

-----------------------------------------------------------------------------
(* Frames arrive in the order they were framed.                            *)

\* Along the way out - the queue, the batch in hand, the socket - frames stand
\* in the order of their numbers, and none is behind what has arrived.
QueueOrder ==
    /\ \A i, j \in 1 .. Len(outq) : i < j => outq[i].num < outq[j].num
    /\ \A i \in 1 .. Len(outq) : outq[i].num <= framed /\ arrived <= outq[i].num
BatchOrder ==
    \A t \in Threads :
       /\ \A i, j \in 1 .. Len(batch[t]) : i < j => batch[t][i].num < batch[t][j].num
       /\ \A i \in 1 .. Len(batch[t]) : batch[t][i].num <= framed /\ arrived <= batch[t][i].num
       /\ \A i \in 1 .. Len(batch[t]), j \in 1 .. Len(outq) : batch[t][i].num < outq[j].num
UpOrder ==
    /\ \A i, j \in 1 .. Len(up) : i < j => up[i].frame.num <= up[j].frame.num
    /\ \A i \in 1 .. Len(up) : up[i].frame.num <= framed /\ arrived <= up[i].frame.num
    /\ \A i \in 1 .. Len(up), j \in 1 .. Len(outq) : up[i].frame.num <= outq[j].num
    /\ \A t \in Threads : \A i \in 1 .. Len(up), j \in 1 .. Len(batch[t]) : up[i].frame.num <= batch[t][j].num

\* The inductive invariant behind InOrder.
OrderInv == QueueOrder /\ BatchOrder /\ UpOrder /\ arrived <= framed

LEMMA AppendAt ==
    ASSUME NEW S, NEW q \in Seq(S), NEW x \in S
    PROVE  /\ Append(q, x) \in Seq(S) /\ Len(Append(q, x)) = Len(q) + 1 /\ Len(q) \in Nat
           /\ Append(q, x)[Len(q) + 1] = x
           /\ \A i \in 1 .. Len(q) : Append(q, x)[i] = q[i]
  OBVIOUS

LEMMA TailAt ==
    ASSUME NEW S, NEW q \in Seq(S), q # <<>>
    PROVE  /\ Tail(q) \in Seq(S) /\ Len(Tail(q)) = Len(q) - 1 /\ Len(q) \in Nat \ {0}
           /\ Head(q) = q[1] /\ q[1] \in S
           /\ \A i \in 1 .. Len(Tail(q)) : Tail(q)[i] = q[i + 1] /\ i + 1 \in 1 .. Len(q)
  OBVIOUS

LEMMA ElementOf == ASSUME NEW S, NEW q \in Seq(S), NEW i \in 1 .. Len(q) PROVE q[i] \in S
  OBVIOUS

\* What is on the way is frames, and pieces of frames, and replies.
LEMMA OnTheWay ==
    ASSUME Types
    PROVE  /\ \A i \in 1 .. Len(outq) : outq[i] \in Frame /\ outq[i].num \in Nat /\ outq[i].sid \in Sids
           /\ \A t \in Threads : \A i \in 1 .. Len(batch[t]) :
                batch[t][i] \in Frame /\ batch[t][i].num \in Nat /\ batch[t][i].sid \in Sids
           /\ \A i \in 1 .. Len(up) :
                up[i] \in Piece /\ up[i].frame \in Frame /\ up[i].frame.num \in Nat /\ up[i].frame.sid \in Sids
           /\ \A i \in 1 .. Len(down) : down[i] \in Reply /\ down[i].sid \in Sids /\ down[i].event \in Answer
           /\ Len(outq) \in Nat /\ Len(up) \in Nat /\ Len(down) \in Nat
           /\ \A t \in Threads : batch[t] \in Seq(Frame) /\ Len(batch[t]) \in Nat
  <1>1. /\ outq \in Seq(Frame) /\ up \in Seq(Piece) /\ down \in Seq(Reply)
        /\ \A t \in Threads : batch[t] \in Seq(Frame)
    BY DEF Types, SendType, EnvType
  <1>2. \A f \in Frame : f.num \in Nat /\ f.sid \in Sids
    BY DEF Frame
  <1>3. \A x \in Piece : x.frame \in Frame
    BY DEF Piece
  <1>4. \A x \in Reply : x.sid \in Sids /\ x.event \in Answer
    BY DEF Reply
  <1>5. \A i \in 1 .. Len(outq) : outq[i] \in Frame
    BY <1>1, ElementOf
  <1>6. \A t \in Threads : \A i \in 1 .. Len(batch[t]) : batch[t][i] \in Frame
    BY <1>1, ElementOf
  <1>7. \A i \in 1 .. Len(up) : up[i] \in Piece
    BY <1>1, ElementOf
  <1>8. \A i \in 1 .. Len(down) : down[i] \in Reply
    BY <1>1, ElementOf
  <1>9. Len(outq) \in Nat /\ Len(up) \in Nat /\ Len(down) \in Nat /\ \A t \in Threads : Len(batch[t]) \in Nat
    BY <1>1
  <1> QED BY <1>1, <1>2, <1>3, <1>4, <1>5, <1>6, <1>7, <1>8, <1>9

\* A frame framed now goes to the end of the queue.
LEMMA OrderAppend ==
    ASSUME Types, OrderInv, NEW f \in Frame, f.num = framed + 1, framed' = framed + 1,
           outq' = Append(outq, f), UNCHANGED <<batch, up, arrived>>
    PROVE  OrderInv'
  <1> USE DEF Types, SendType, EnvType
  <1>1. /\ outq' \in Seq(Frame) /\ Len(outq') = Len(outq) + 1 /\ Len(outq) \in Nat
        /\ outq'[Len(outq) + 1] = f /\ \A i \in 1 .. Len(outq) : outq'[i] = outq[i]
    BY AppendAt
  <1>2. \A i \in 1 .. Len(outq') : i \in 1 .. Len(outq) \/ i = Len(outq) + 1
    BY <1>1
  <1> HIDE DEF Types
  <1> USE OnTheWay
  <1>3. framed \in Nat /\ arrived \in Nat
    BY DEF Types
  <1>4. \A i \in 1 .. Len(outq') : outq'[i].num <= framed' /\ arrived' <= outq'[i].num
    BY <1>1, <1>2, <1>3 DEF OrderInv, QueueOrder
  <1>5. \A i, j \in 1 .. Len(outq') : i < j => outq'[i].num < outq'[j].num
    BY <1>1, <1>2, <1>3 DEF OrderInv, QueueOrder
  <1>6. QueueOrder'
    BY <1>4, <1>5 DEF QueueOrder
  <1>7. BatchOrder'
    <2> SUFFICES ASSUME NEW t \in Threads, NEW i \in 1 .. Len(batch[t])
                 PROVE  /\ \A j \in 1 .. Len(batch[t]) : i < j => batch[t][i].num < batch[t][j].num
                        /\ batch[t][i].num <= framed' /\ arrived <= batch[t][i].num
                        /\ \A j \in 1 .. Len(outq') : batch[t][i].num < outq'[j].num
      BY DEF BatchOrder
    <2>1. /\ batch[t][i] \in Frame /\ batch[t][i].num \in Nat
          /\ batch[t][i].num <= framed /\ arrived <= batch[t][i].num
          /\ \A j \in 1 .. Len(outq) : batch[t][i].num < outq[j].num
      BY DEF OrderInv, BatchOrder, Frame
    <2>2. \A j \in 1 .. Len(batch[t]) : i < j => batch[t][i].num < batch[t][j].num
      BY DEF OrderInv, BatchOrder
    <2>3. batch[t][i].num <= framed' /\ batch[t][i].num < f.num
      BY <1>3, <2>1
    <2>4. \A j \in 1 .. Len(outq') : batch[t][i].num < outq'[j].num
      BY <1>1, <1>2, <2>1, <2>3
    <2> QED BY <2>1, <2>2, <2>3, <2>4
  <1>8. UpOrder'
    BY <1>1, <1>2, <1>3, SMTT(40) DEF OrderInv, UpOrder
  <1> QED BY <1>3, <1>6, <1>7, <1>8 DEF OrderInv

\* A sender takes everything queued, into an empty hand.
LEMMA OrderTaken ==
    ASSUME Types, OrderInv, NEW t \in Threads, \A u \in Threads : batch[u] = <<>>,
           batch' = [batch EXCEPT ![t] = outq], outq' = <<>>, UNCHANGED <<framed, up, arrived>>
    PROVE  OrderInv'
  <1> USE DEF Types, SendType, EnvType
  <1>1. batch'[t] = outq /\ \A u \in Threads \ {t} : batch'[u] = <<>>
    OBVIOUS
  <1>2. QueueOrder'
    BY DEF OrderInv, QueueOrder
  <1>3. BatchOrder'
    BY <1>1 DEF OrderInv, BatchOrder, QueueOrder
  <1>4. UpOrder'
    BY <1>1 DEF OrderInv, UpOrder
  <1> QED BY <1>2, <1>3, <1>4 DEF OrderInv

\* A piece of the first frame in hand goes on the wire: what is left in hand is
\* the same frames, or all but the first.
SentBy(t, p, k) ==
    /\ p.frame = batch[t][1] /\ up' = Append(up, p) /\ batch[t] # <<>> /\ (p.last => k = 1)
    /\ Len(batch'[t]) = Len(batch[t]) - k
    /\ \A i \in 1 .. Len(batch'[t]) :
         /\ i + k \in 1 .. Len(batch[t])
         /\ batch'[t][i].num = batch[t][i + k].num /\ batch'[t][i].sid = batch[t][i + k].sid
         /\ batch'[t][i].who = batch[t][i + k].who /\ batch'[t][i].round = batch[t][i + k].round
    /\ \A u \in Threads \ {t} : batch[u] = <<>> /\ batch'[u] = <<>>

LEMMA SentPiece ==
    ASSUME ReaderInv, NEW t \in Threads, SendPiece(t)
    PROVE  \E p \in Piece, k \in {0, 1} : SentBy(t, p, k)
  <1> USE DEF ReaderInv, Types, SendType
  <1>1. /\ batch[t] \in Seq(Frame) /\ Len(batch[t]) \in Nat \ {0} /\ Head(batch[t]) = batch[t][1]
        /\ batch[t][1] \in Frame /\ batch[t] # <<>>
    BY TailAt DEF SendPiece
  <1>2. \A u \in Threads \ {t} : batch[u] = <<>> /\ batch'[u] = <<>>
    BY DEF SendPiece, Roles, LockHeld
  <1>3. CASE batch[t][1].size = 1
    <2>1. [frame |-> batch[t][1], last |-> ~torn] \in Piece
      BY <1>1 DEF Piece
    <2>2. up' = Append(up, [frame |-> batch[t][1], last |-> ~torn]) /\ batch'[t] = Tail(batch[t])
      BY <1>1, <1>3 DEF SendPiece
    <2>3. /\ Len(batch'[t]) = Len(batch[t]) - 1
          /\ \A i \in 1 .. Len(batch'[t]) : batch'[t][i] = batch[t][i + 1] /\ i + 1 \in 1 .. Len(batch[t])
      BY <1>1, <2>2, TailAt
    <2>4. SentBy(t, [frame |-> batch[t][1], last |-> ~torn], 1)
      BY <1>1, <1>2, <2>2, <2>3 DEF SentBy
    <2> QED BY <2>1, <2>4
  <1>4. CASE batch[t][1].size # 1
    <2>1. [frame |-> batch[t][1], last |-> FALSE] \in Piece
      BY <1>1 DEF Piece
    <2>2. /\ up' = Append(up, [frame |-> batch[t][1], last |-> FALSE])
          /\ batch'[t] = [batch[t] EXCEPT ![1].size = @ - 1]
      BY <1>1, <1>4 DEF SendPiece
    <2>3. Len(batch'[t]) = Len(batch[t])
      BY <1>1, <2>2
    <2>4. ASSUME NEW i \in 1 .. Len(batch'[t])
          PROVE  /\ batch'[t][i].num = batch[t][i].num /\ batch'[t][i].sid = batch[t][i].sid
                 /\ batch'[t][i].who = batch[t][i].who /\ batch'[t][i].round = batch[t][i].round
      <3>1. CASE i = 1
        <4>1. 1 \in DOMAIN batch[t]
          BY <1>1
        <4>2. batch'[t][i] = [batch[t][1] EXCEPT !.size = @ - 1]
          BY <2>2, <3>1, <4>1
        <4> QED BY <1>1, <3>1, <4>2 DEF Frame
      <3>2. CASE i # 1
        <4>1. batch'[t][i] = batch[t][i]
          BY <1>1, <2>2, <2>3, <3>2
        <4> QED BY <4>1
      <3> QED BY <3>1, <3>2
    <2>5. \A i \in 1 .. Len(batch'[t]) : i + 0 = i /\ i \in 1 .. Len(batch[t])
      BY <1>1, <2>3
    <2>6. SentBy(t, [frame |-> batch[t][1], last |-> FALSE], 0)
      BY <1>1, <1>2, <2>2, <2>3, <2>4, <2>5 DEF SentBy
    <2> QED BY <2>1, <2>6
  <1> QED BY <1>3, <1>4

LEMMA OrderBoth ==
    ASSUME Types, OrderInv, NEW t \in Threads, NEW f \in Frame, f.num = framed + 1, framed' = framed + 1,
           NEW q, q = Append(outq, f), batch'[t] = q, \A u \in Threads \ {t} : batch'[u] = <<>>, outq' = <<>>,
           UNCHANGED <<up, arrived>>
    PROVE  OrderInv'
  <1> USE OnTheWay
  <1>1. framed \in Nat /\ arrived \in Nat /\ outq \in Seq(Frame)
    BY DEF Types, SendType, EnvType
  <1>3. /\ Len(q) = Len(outq) + 1 /\ q[Len(outq) + 1] = f /\ \A i \in 1 .. Len(outq) : q[i] = outq[i]
        /\ \A i \in 1 .. Len(q) : i \in 1 .. Len(outq) \/ i = Len(outq) + 1
    BY <1>1, AppendAt
  <1>4. QueueOrder'
    BY DEF QueueOrder
  <1>5. \A i, j \in 1 .. Len(q) : i < j => q[i].num < q[j].num
    BY <1>1, <1>3 DEF OrderInv, QueueOrder
  <1>6. \A i \in 1 .. Len(q) : q[i].num <= framed' /\ arrived' <= q[i].num
    <2>1. \A i \in 1 .. Len(outq) : outq[i].num <= framed' /\ arrived' <= outq[i].num
      BY <1>1 DEF OrderInv, QueueOrder
    <2>2. f.num <= framed' /\ arrived' <= f.num
      BY <1>1 DEF OrderInv
    <2> QED BY <1>3, <2>1, <2>2
  <1>6a. Len(outq') = 0 /\ \A u \in Threads \ {t} : Len(batch'[u]) = 0
    OBVIOUS
  <1>7. BatchOrder'
    <2> HIDE OnTheWay
    <2> SUFFICES ASSUME NEW u \in Threads
                 PROVE  (/\ \A i, j \in 1 .. Len(batch[u]) : i < j => batch[u][i].num < batch[u][j].num
                         /\ \A i \in 1 .. Len(batch[u]) : batch[u][i].num <= framed /\ arrived <= batch[u][i].num
                         /\ \A i \in 1 .. Len(batch[u]), j \in 1 .. Len(outq) : batch[u][i].num < outq[j].num)'
      BY DEF BatchOrder
    <2>1. CASE u = t
      BY <1>5, <1>6, <1>6a, <2>1, SMTT(40)
    <2>2. CASE u # t
      BY <1>6a, <2>2
    <2> QED BY <2>1, <2>2
  <1>8. \A i \in 1 .. Len(up) : \A j \in 1 .. Len(q) : up[i].frame.num <= q[j].num
    BY <1>1, <1>3 DEF OrderInv, UpOrder
  <1>8a. \A i \in 1 .. Len(up) : up[i].frame.num <= framed'
    BY <1>1 DEF OrderInv, UpOrder
  <1>9. UpOrder'
    <2> HIDE OnTheWay
    <2>1. \A u \in Threads : \A i \in 1 .. Len(up), j \in 1 .. Len(batch'[u]) : up[i].frame.num <= batch'[u][j].num
      <3> SUFFICES ASSUME NEW u \in Threads, NEW i \in 1 .. Len(up), NEW j \in 1 .. Len(batch'[u])
                   PROVE  up[i].frame.num <= batch'[u][j].num
        OBVIOUS
      <3>1. u = t
        BY <1>6a
      <3> QED BY <1>8, <3>1
    <2> QED BY <1>6a, <1>8a, <2>1 DEF OrderInv, UpOrder
  <1> QED BY <1>1, <1>4, <1>7, <1>9 DEF OrderInv

LEMMA OrderSent == ASSUME ReaderInv, OrderInv, NEW t \in Threads, SendPiece(t) PROVE OrderInv'
  <1>1. Types /\ up \in Seq(Piece)
    BY DEF ReaderInv, Types, EnvType
  <1> USE <1>1, OnTheWay
  <1>2. PICK p \in Piece, k \in {0, 1} : SentBy(t, p, k)
    BY SentPiece
  <1>3. UNCHANGED <<outq, framed, arrived>> /\ framed \in Nat /\ arrived \in Nat
    BY DEF SendPiece, Types, SendType, EnvType
  <1>4. /\ Len(up') = Len(up) + 1 /\ up'[Len(up) + 1] = p /\ \A i \in 1 .. Len(up) : up'[i] = up[i]
        /\ \A i \in 1 .. Len(up') : i \in 1 .. Len(up) \/ i = Len(up) + 1
    BY <1>2, AppendAt DEF SentBy
  <1>5. 1 \in 1 .. Len(batch[t]) /\ p.frame.num \in Nat /\ p.frame = batch[t][1]
    BY <1>2 DEF SentBy
  <1>6. QueueOrder'
    BY <1>3 DEF OrderInv, QueueOrder
  <1>7. /\ \A i \in 1 .. Len(batch'[t]) : i + k \in 1 .. Len(batch[t]) /\ batch'[t][i].num = batch[t][i + k].num
        /\ \A u \in Threads \ {t} : Len(batch'[u]) = 0
    BY <1>2 DEF SentBy
  <1>8. /\ \A i, j \in 1 .. Len(batch[t]) : i < j => batch[t][i].num < batch[t][j].num
        /\ \A i \in 1 .. Len(batch[t]) : batch[t][i].num <= framed /\ arrived <= batch[t][i].num
        /\ \A i \in 1 .. Len(batch[t]), j \in 1 .. Len(outq) : batch[t][i].num < outq[j].num
    BY DEF OrderInv, BatchOrder
  <1>9. BatchOrder'
    <2>1. \A i, j \in 1 .. Len(batch'[t]) : i < j => batch'[t][i].num < batch'[t][j].num
      <3> SUFFICES ASSUME NEW i \in 1 .. Len(batch'[t]), NEW j \in 1 .. Len(batch'[t]), i < j
                   PROVE  batch'[t][i].num < batch'[t][j].num
        OBVIOUS
      <3>1. i + k \in 1 .. Len(batch[t]) /\ j + k \in 1 .. Len(batch[t]) /\ i + k < j + k
        BY <1>7
      <3> QED BY <1>7, <1>8, <3>1
    <2>2. \A i \in 1 .. Len(batch'[t]) : batch'[t][i].num <= framed' /\ arrived' <= batch'[t][i].num
      BY <1>3, <1>7, <1>8
    <2>3. \A i \in 1 .. Len(batch'[t]), j \in 1 .. Len(outq') : batch'[t][i].num < outq'[j].num
      BY <1>3, <1>7, <1>8
    <2> QED BY <1>7, <2>1, <2>2, <2>3, SMTT(40) DEF BatchOrder
  <1>10. UpOrder'
    <2>0. \A i \in 1 .. Len(up) : up[i].frame.num <= p.frame.num
      BY <1>5 DEF OrderInv, UpOrder
    <2>1. \A i \in 1 .. Len(up') : up'[i].frame.num <= p.frame.num
      BY <1>4, <1>5, <2>0
    <2>2. \A j \in 1 .. Len(batch[t]) : p.frame.num <= batch[t][j].num
      <3> SUFFICES ASSUME NEW j \in 1 .. Len(batch[t]) PROVE p.frame.num <= batch[t][j].num
        OBVIOUS
      <3>1. CASE j = 1
        BY <1>5, <3>1
      <3>2. CASE 1 < j
        <4>1. batch[t][1].num < batch[t][j].num
          BY <1>5, <1>8, <3>2
        <4>2. batch[t][j].num \in Nat /\ batch[t][1].num \in Nat /\ p.frame.num = batch[t][1].num
          BY <1>5
        <4> HIDE <1>1, OnTheWay
        <4> QED BY <4>1, <4>2
      <3> QED BY <3>1, <3>2
    <2>3. \A j \in 1 .. Len(batch'[t]) : p.frame.num <= batch'[t][j].num /\ batch'[t][j].num \in Nat
      BY <1>7, <2>2
    <2>4. \A i \in 1 .. Len(up') : up'[i].frame.num \in Nat
      BY <1>4, <1>5
    <2>5. \A i, j \in 1 .. Len(up') : i < j => up'[i].frame.num <= up'[j].frame.num
      <3> SUFFICES ASSUME NEW i \in 1 .. Len(up'), NEW j \in 1 .. Len(up'), i < j
                   PROVE  up'[i].frame.num <= up'[j].frame.num
        OBVIOUS
      <3>1. CASE j \in 1 .. Len(up)
        <4>1. i \in 1 .. Len(up)
          BY <3>1
        <4> QED BY <1>4, <3>1, <4>1 DEF OrderInv, UpOrder
      <3>2. CASE j = Len(up) + 1
        BY <1>4, <2>1, <3>2
      <3> QED BY <1>4, <3>1, <3>2
    <2>6. \A i \in 1 .. Len(up') : up'[i].frame.num <= framed' /\ arrived' <= up'[i].frame.num
      BY <1>3, <1>4, <1>5, <1>8 DEF OrderInv, UpOrder
    <2>7. \A i \in 1 .. Len(up'), j \in 1 .. Len(outq') : up'[i].frame.num <= outq'[j].num
      <3> SUFFICES ASSUME NEW i \in 1 .. Len(up'), NEW j \in 1 .. Len(outq) PROVE up'[i].frame.num <= outq[j].num
        BY <1>3
      <3>1. p.frame.num < outq[j].num
        BY <1>5, <1>8
      <3>2. up'[i].frame.num \in Nat /\ p.frame.num \in Nat /\ outq[j].num \in Nat /\ up'[i].frame.num <= p.frame.num
        BY <1>5, <2>1, <2>4
      <3> HIDE <1>1, OnTheWay
      <3> QED BY <3>1, <3>2
    <2>8. \A i \in 1 .. Len(up'), j \in 1 .. Len(batch'[t]) : up'[i].frame.num <= batch'[t][j].num
      <3> SUFFICES ASSUME NEW i \in 1 .. Len(up'), NEW j \in 1 .. Len(batch'[t])
                   PROVE  up'[i].frame.num <= batch'[t][j].num
        OBVIOUS
      <3>1. up'[i].frame.num <= p.frame.num /\ p.frame.num <= batch'[t][j].num
        BY <2>1, <2>3
      <3>2. up'[i].frame.num \in Nat /\ p.frame.num \in Nat /\ batch'[t][j].num \in Nat
        BY <1>5, <2>3, <2>4
      <3> HIDE <1>1, OnTheWay
      <3> QED BY <3>1, <3>2
    <2> QED BY <1>7, <2>5, <2>6, <2>7, <2>8 DEF UpOrder
  <1> QED BY <1>3, <1>6, <1>9, <1>10 DEF OrderInv

LEMMA OrderRead == ASSUME Types, OrderInv, ServerReads PROVE OrderInv'
  <1> USE OnTheWay
  <1>1. UNCHANGED <<outq, batch, framed>> /\ framed \in Nat /\ arrived \in Nat
    BY DEF ServerReads, sendVars, Types, SendType, EnvType
  <1>2. /\ Len(up') = Len(up) - 1 /\ Head(up) = up[1] /\ 1 \in 1 .. Len(up)
        /\ \A i \in 1 .. Len(up') : up'[i] = up[i + 1] /\ i + 1 \in 1 .. Len(up)
    BY TailAt DEF ServerReads, Types, EnvType
  <1>3. arrived' = arrived \/ arrived' = up[1].frame.num
    BY <1>2 DEF ServerReads
  <1>4. arrived' \in Nat /\ arrived' <= framed
    BY <1>1, <1>2, <1>3 DEF OrderInv, UpOrder
  <1>5. QueueOrder'
    BY <1>1, <1>2, <1>3 DEF OrderInv, QueueOrder, UpOrder
  <1>6. BatchOrder'
    <2>1. \A t \in Threads : \A i \in 1 .. Len(batch[t]) : arrived' <= batch[t][i].num
      BY <1>2, <1>3 DEF OrderInv, BatchOrder, UpOrder
    <2> QED BY <1>1, <2>1 DEF OrderInv, BatchOrder
  <1>7. UpOrder'
    <2>1. \A i \in 1 .. Len(up') : up[1].frame.num <= up'[i].frame.num
      <3> SUFFICES ASSUME NEW i \in 1 .. Len(up') PROVE up[1].frame.num <= up'[i].frame.num
        OBVIOUS
      <3>1. 1 < i + 1 /\ i + 1 \in 1 .. Len(up)
        BY <1>2
      <3> QED BY <1>2, <3>1 DEF OrderInv, UpOrder
    <2>2. \A i \in 1 .. Len(up') : up'[i].frame.num <= framed' /\ arrived' <= up'[i].frame.num
      BY <1>1, <1>2, <1>3, <2>1 DEF OrderInv, UpOrder
    <2>3. \A i, j \in 1 .. Len(up') : i < j => up'[i].frame.num <= up'[j].frame.num
      <3> SUFFICES ASSUME NEW i \in 1 .. Len(up'), NEW j \in 1 .. Len(up'), i < j
                   PROVE  up'[i].frame.num <= up'[j].frame.num
        OBVIOUS
      <3>1. i + 1 < j + 1 /\ i + 1 \in 1 .. Len(up) /\ j + 1 \in 1 .. Len(up)
        BY <1>2
      <3> QED BY <1>2, <3>1 DEF OrderInv, UpOrder
    <2>4. /\ \A i \in 1 .. Len(up'), j \in 1 .. Len(outq') : up'[i].frame.num <= outq'[j].num
          /\ \A t \in Threads : \A i \in 1 .. Len(up'), j \in 1 .. Len(batch'[t]) : up'[i].frame.num <= batch'[t][j].num
      BY <1>1, <1>2 DEF OrderInv, UpOrder
    <2> QED BY <2>2, <2>3, <2>4 DEF UpOrder
  <1> QED BY <1>1, <1>4, <1>5, <1>6, <1>7 DEF OrderInv

\* Every step keeps the order.
LEMMA OrderStep == ASSUME ReaderInv, OrderInv, [Next]_vars PROVE OrderInv'
  <1> USE DEF ReaderInv
  <1>1. ASSUME UNCHANGED <<outq, batch, framed, up, arrived>> PROVE OrderInv'
    BY <1>1 DEF OrderInv, QueueOrder, BatchOrder, UpOrder
  <1>2. ASSUME outq' = <<>>, \A u \in Threads : batch'[u] \in {batch[u], <<>>}, UNCHANGED <<framed, up, arrived>>
        PROVE  OrderInv'
    <2>1. QueueOrder'
      BY <1>2 DEF QueueOrder
    <2>2. BatchOrder'
      BY <1>2 DEF OrderInv, BatchOrder
    <2>3. UpOrder'
      BY <1>2 DEF OrderInv, UpOrder
    <2> QED BY <1>2, <2>1, <2>2, <2>3 DEF OrderInv
  <1>3. ASSUME NEW t \in Threads, Start(t) PROVE OrderInv'
    <2>1. PICK s \in FreeSids, size \in ReqSizes, reply \in ReplySizes : Queued(t, NewFrame(t, s, size, reply))
      BY <1>3 DEF Start
    <2> DEFINE f == NewFrame(t, s, size, reply)
    <2>2. f \in Frame /\ f.num = framed + 1
      BY DriverAssumption DEF NewFrame, Frame, FreeSids, Types, ReqType, SendType
    <2>3. framed' = framed + 1 /\ UNCHANGED <<up, arrived>>
      BY <1>3 DEF Start, envVars
    <2> HIDE DEF f
    <2>4. CASE sendLock # NoThread
      <3>1. outq' = Append(outq, f) /\ UNCHANGED batch
        BY <2>1, <2>4 DEF Queued, f
      <3> QED BY <2>2, <2>3, <3>1, OrderAppend
    <2>5. CASE sendLock = NoThread
      <3>1. outq' = <<>> /\ batch' = [batch EXCEPT ![t] = Append(outq, f)]
        BY <2>1, <2>5 DEF Queued, f
      <3>2. \A u \in Threads : batch[u] = <<>>
        BY <2>5, DriverAssumption DEF Roles, LockHeld
      <3>3. batch'[t] = Append(outq, f) /\ \A u \in Threads \ {t} : batch'[u] = <<>>
        BY <3>1, <3>2 DEF Types, SendType
      <3> QED BY <2>2, <2>3, <3>1, <3>3, OrderBoth
    <2> QED BY <2>4, <2>5
  <1>4. ASSUME NEW t \in Threads, TakeOutq(t) PROVE OrderInv'
    <2>1. \A u \in Threads : batch[u] = <<>>
      BY <1>4 DEF TakeOutq, Roles, LockHeld
    <2> QED BY <1>4, <2>1, OrderTaken DEF TakeOutq, envVars
  <1>5. ASSUME NEW t \in Threads, SendPiece(t) PROVE OrderInv'
    BY <1>5, OrderSent
  <1>6. ASSUME NEW t \in Threads, SendFails(t) PROVE OrderInv'
    BY <1>2, <1>6 DEF SendFails, Types, SendType, envVars
  <1>7. ASSUME NEW t \in Threads, Resend(t) PROVE OrderInv'
    <2> DEFINE f == [who |-> t, round |-> round[t], sid |-> sid[t], num |-> framed + 1, size |-> 1, reply |-> 1]
    <2>1. f \in Frame /\ f.num = framed + 1
      BY <1>7 DEF Resend, Frame, Types, Begun, Active, ReqType, SendType
    <2>2. \/ UNCHANGED <<outq, framed>>
          \/ outq' = Append(outq, f) /\ framed' = framed + 1
      BY <1>7 DEF Resend
    <2>3. UNCHANGED <<batch, up, arrived>>
      BY <1>7 DEF Resend, envVars
    <2> HIDE DEF f
    <2> QED BY <1>1, <2>1, <2>2, <2>3, OrderAppend
  <1>8. CASE CloseLink
    BY <1>2, <1>8 DEF CloseLink, envVars
  <1>9. CASE ServerReads
    BY <1>9, OrderRead
  <1>10. CASE ServerWrites \/ PeerCloses \/ Close \/ UNCHANGED vars
    BY <1>1, <1>10 DEF ServerWrites, PeerCloses, Close, vars, sendVars, envVars
  <1>11. ASSUME NEW t \in Threads,
                \/ TakeTurn(t) \/ StartRefused(t) \/ TakeSendLock(t) \/ SendDone(t) \/ Unlock(t) \/ Consume(t)
                \/ AwaitClosed(t) \/ Follow(t) \/ Lead(t)
         PROVE  OrderInv'
    BY <1>1, <1>11 DEF TakeTurn, StartRefused, TakeSendLock, SendDone, Unlock, Consume, AwaitClosed, Follow, Lead,
                       sendVars, envVars
  <1>12. ASSUME NEW t \in Threads,
                \/ Receive(t) \/ LeaderExpires(t) \/ FollowerExpires(t) \/ SitoutExpires(t) \/ TurnExpires(t)
                \/ LinkTimesOut(t) \/ ReaderSendFailed(t) \/ ReadEof(t) \/ ReadClosed(t) \/ BulkBegin(t) \/ BulkEnd(t)
         PROVE  OrderInv'
    BY <1>1, <1>12 DEF Receive, LeaderExpires, FollowerExpires, SitoutExpires, TurnExpires, LinkTimesOut,
                       ReaderSendFailed, ReadEof, ReadClosed, BulkBegin, BulkEnd, sendVars, envVars
  <1> QED BY <1>3, <1>4, <1>5, <1>6, <1>7, <1>8, <1>9, <1>10, <1>11, <1>12 DEF Next, Step, Choice

LEMMA ArrivedOnlyRead == ASSUME Next, ~ServerReads PROVE UNCHANGED arrived
  <1> USE DEF envVars
  <1>1. CASE ServerWrites \/ PeerCloses \/ Close \/ CloseLink
    BY <1>1 DEF ServerWrites, PeerCloses, Close, CloseLink
  <1>2. ASSUME NEW t \in Threads,
               \/ Start(t) \/ TakeTurn(t) \/ StartRefused(t) \/ TakeSendLock(t) \/ TakeOutq(t) \/ SendPiece(t)
               \/ SendFails(t) \/ SendDone(t) \/ Unlock(t) \/ Consume(t) \/ Resend(t) \/ AwaitClosed(t)
        PROVE  UNCHANGED arrived
    BY <1>2 DEF Start, TakeTurn, StartRefused, TakeSendLock, TakeOutq, SendPiece, SendFails, SendDone, Unlock, Consume,
                Resend, AwaitClosed
  <1>3. ASSUME NEW t \in Threads,
               \/ Follow(t) \/ Lead(t) \/ LeaderExpires(t) \/ FollowerExpires(t) \/ SitoutExpires(t) \/ TurnExpires(t)
               \/ LinkTimesOut(t) \/ ReadClosed(t) \/ BulkBegin(t) \/ BulkEnd(t)
        PROVE  UNCHANGED arrived
    BY <1>3 DEF Follow, Lead, LeaderExpires, FollowerExpires, SitoutExpires, TurnExpires, LinkTimesOut, ReadClosed,
                BulkBegin, BulkEnd
  <1>4. ASSUME NEW t \in Threads, Receive(t) \/ ReaderSendFailed(t) \/ ReadEof(t) PROVE UNCHANGED arrived
    BY <1>4 DEF Receive, ReaderSendFailed, ReadEof
  <1> QED BY <1>1, <1>2, <1>3, <1>4 DEF Next, Step, Choice

\* However many threads queue frames, and whoever sends them, the server reads
\* them in the order they were framed, which the signature sequence numbers
\* depend on (_start, _drain_outq).
THEOREM FramesInOrder == Spec => InOrder
  <1>1. Init => OrderInv
    BY DEF Init, OrderInv, QueueOrder, BatchOrder, UpOrder
  <1>2. ReaderInv /\ OrderInv /\ [Next]_vars => OrderInv'
    BY OrderStep
  <1>3. ReaderInv /\ OrderInv /\ [Next]_vars => [arrived' >= arrived]_vars
    <2> SUFFICES ASSUME ReaderInv, OrderInv, Next PROVE arrived' >= arrived
      OBVIOUS
    <2>1. arrived \in Nat
      BY DEF ReaderInv, Types, EnvType
    <2>2. CASE ServerReads
      <3>1. Head(up) = up[1] /\ 1 \in 1 .. Len(up)
        BY <2>2, TailAt DEF ServerReads, ReaderInv, Types, EnvType
      <3>2. up[1].frame.num \in Nat /\ arrived <= up[1].frame.num
        BY <3>1, OnTheWay DEF OrderInv, UpOrder, ReaderInv
      <3> QED BY <2>1, <2>2, <3>1, <3>2 DEF ServerReads
    <2>3. CASE ~ServerReads
      <3>1. UNCHANGED arrived
        BY <2>3, ArrivedOnlyRead
      <3> QED BY <2>1, <3>1
    <2> QED BY <2>2, <2>3
  <1> QED BY <1>1, <1>2, <1>3, ReaderAlways, PTL DEF Spec, InOrder

-----------------------------------------------------------------------------
(* Mail: every answer goes to its own request, whatever ids were given up  *)
(* and taken again meanwhile, and a bulk transfer has the wire to itself.  *)
(* On top of the reader's invariant.                                       *)

\* Where what is owed on a stream may be: its frame queued, in hand, in the
\* socket or with the server, or its answer on the way back.
InQueue(s) == \E i \in 1 .. Len(outq) : outq[i].sid = s
InHand(s) == \E t \in Threads : \E i \in 1 .. Len(batch[t]) : batch[t][i].sid = s
GoingUp(s) == \E i \in 1 .. Len(up) : up[i].last /\ up[i].frame.sid = s
Served(s) == server.left > 0 /\ server.frame.sid = s
ComingDown(s) == \E i \in 1 .. Len(down) : down[i].last /\ down[i].sid = s
On(s) == InQueue(s) \/ InHand(s) \/ GoingUp(s) \/ Served(s) \/ ComingDown(s)

Final(t) == \E i \in 1 .. Len(box[t]) : box[t][i].kind # "wait"
Waited(t) == pc[t] = "sitout" \/ \E i \in 1 .. Len(box[t]) : box[t][i].kind = "wait"
OnlyFailed(t) == \A i \in 1 .. Len(box[t]) : box[t][i].kind = "failed"

\* A mailbox holds failures, and what its own request was answered; one that
\* nobody waits at, or whose owner is the reader, holds failures at most.
Boxed ==
    /\ \A t \in Threads : \A i \in 1 .. Len(box[t]) :
         \/ box[t][i].kind = "failed"
         \/ box[t][i].kind \in {"ok", "wait"} /\ box[t][i].who = t /\ box[t][i].round = round[t]
    /\ \A t \in Threads : Has(t) \/ pc[t] \in {"idle", "turn"} => OnlyFailed(t)
    /\ \A t \in Threads : pc[t] = "parked" => box[t] = <<>>

\* The machine's streams are of live requests on file, and a live request has
\* its stream, or its end already in its mailbox.
Filed ==
    /\ \A s \in Sids : pending[s] # NoThread =>
         inbox[s] = pending[s] /\ sid[pending[s]] = s /\ Active(pending[s])
    /\ \A s \in retired : pending[s] = NoThread
    /\ mstate = "READY" => \A t \in Threads :
         Active(t) /\ ~Final(t) => inbox[sid[t]] = t /\ pending[sid[t]] = t

\* What is owed on a stream is owed to whoever has it, for that very request,
\* or the stream was given up.
Due(s, who, num) == IF pending[s] = NoThread THEN s \in retired ELSE pending[s] = who /\ round[who] = num
Owed ==
    mstate = "READY" =>
       /\ \A i \in 1 .. Len(outq) : Due(outq[i].sid, outq[i].who, outq[i].round)
       /\ \A t \in Threads : \A i \in 1 .. Len(batch[t]) : Due(batch[t][i].sid, batch[t][i].who, batch[t][i].round)
       /\ \A i \in 1 .. Len(up) : up[i].last => Due(up[i].frame.sid, up[i].frame.who, up[i].frame.round)
       /\ server.left > 0 => Due(server.frame.sid, server.frame.who, server.frame.round)
       /\ \A i \in 1 .. Len(down) : down[i].last => Due(down[i].sid, down[i].event.who, down[i].event.round)

\* One thing at a time is owed on a stream.
Once ==
    /\ \A i, j \in 1 .. Len(outq) : outq[i].sid = outq[j].sid => i = j
    /\ \A t \in Threads : \A i, j \in 1 .. Len(batch[t]) : batch[t][i].sid = batch[t][j].sid => i = j
    /\ \A i, j \in 1 .. Len(up) : up[i].last /\ up[j].last /\ up[i].frame.sid = up[j].frame.sid => i = j
    /\ \A i, j \in 1 .. Len(down) : down[i].last /\ down[j].last /\ down[i].sid = down[j].sid => i = j
Apart ==
    \A s \in Sids : /\ InQueue(s) => ~InHand(s) /\ ~GoingUp(s) /\ ~Served(s) /\ ~ComingDown(s)
                    /\ InHand(s) => ~GoingUp(s) /\ ~Served(s) /\ ~ComingDown(s)
                    /\ GoingUp(s) => ~Served(s) /\ ~ComingDown(s)
                    /\ Served(s) => ~ComingDown(s)

\* A request told to wait has nothing owed; the last piece on the way down
\* ends a reply unless its server is still writing it; and a transfer has the
\* wire only while nothing is owed at all.
Quiet == \A t \in Threads : Active(t) /\ Waited(t) /\ pending[sid[t]] = t => ~On(sid[t])
Whole == down # <<>> /\ ~down[Len(down)].last => server.left > 0
Lent ==
    bulkOwner # NoThread /\ mstate = "READY" => retired = {} /\ \A s \in Sids : pending[s] = NoThread

\* The inductive invariant behind MailSafe and BulkAlone.
MailInv == Boxed /\ RightMail /\ Filed /\ Owed /\ Once /\ Apart /\ Quiet /\ Whole /\ Lent

LEMMA ServerHas ==
    ASSUME Types, server.left > 0
    PROVE  server \in [frame : Frame, left : Nat] /\ server.frame \in Frame /\ server.frame.sid \in Sids
  <1>1. server \in [frame : Frame, left : Nat]
    BY DEF Types, EnvType, Serving, Nobody
  <1> QED BY <1>1 DEF Frame

\* The wire left alone, but for frames that are not to be sent after all.
WireKept ==
    /\ outq' \in {outq, <<>>} /\ \A t \in Threads : batch'[t] \in {batch[t], <<>>}
    /\ UNCHANGED <<up, server, down>>

\* What is said of a stream is said of it under the name a thread has for it.
LEMMA QuietAt ==
    ASSUME NEW u \in Threads, NEW s \in Sids, sid'[u] = s, ~On(s)'
    PROVE  ~On(sid[u])'
  BY DEF On, InQueue, InHand, GoingUp, Served, ComingDown

\* A stream that holds nothing holds nothing after a step that adds nothing.
LEMMA QuietThere ==
    ASSUME NEW u \in Threads, sid[u] \in Sids, sid' = sid, ~On(sid[u]),
           \A s \in Sids : On(s)' => On(s)
    PROVE  ~On(sid[u])'
  BY DEF On, InQueue, InHand, GoingUp, Served, ComingDown

LEMMA WireStays ==
    ASSUME Once, Apart, Whole, WireKept
    PROVE  Once' /\ Apart' /\ Whole' /\ \A s \in Sids : On(s)' => On(s)
  <1>1. Once' /\ Whole'
    BY DEF Once, Whole, WireKept
  <1>2. \A s \in Sids : /\ InQueue(s)' => InQueue(s)
                        /\ InHand(s)' => InHand(s)
                        /\ GoingUp(s)' <=> GoingUp(s)
                        /\ Served(s)' <=> Served(s)
                        /\ ComingDown(s)' <=> ComingDown(s)
    BY DEF InQueue, InHand, GoingUp, Served, ComingDown, WireKept
  <1> QED BY <1>1, <1>2 DEF Apart, On

\* What is owed is still due when no stream it is owed on has changed hands.
LEMMA OwedStays ==
    ASSUME Types, Owed, WireKept, mstate' = "READY" => mstate = "READY",
           \A s \in Sids : \A who, num : On(s) /\ Due(s, who, num) => Due(s, who, num)'
    PROVE  Owed'
  <1> USE OnTheWay DEF WireKept
  <1> SUFFICES ASSUME mstate' = "READY" PROVE Owed'
    BY DEF Owed
  <1>1. \A i \in 1 .. Len(outq') : Due(outq[i].sid, outq[i].who, outq[i].round)'
    <2> SUFFICES ASSUME NEW i \in 1 .. Len(outq), outq' = outq PROVE Due(outq[i].sid, outq[i].who, outq[i].round)'
      OBVIOUS
    <2>1. On(outq[i].sid) /\ outq[i].sid \in Sids /\ Due(outq[i].sid, outq[i].who, outq[i].round)
      BY DEF On, InQueue, Owed
    <2> QED BY <2>1
  <1>2. \A t \in Threads : \A i \in 1 .. Len(batch'[t]) : Due(batch[t][i].sid, batch[t][i].who, batch[t][i].round)'
    <2> SUFFICES ASSUME NEW t \in Threads, NEW i \in 1 .. Len(batch[t]), batch'[t] = batch[t]
                 PROVE  Due(batch[t][i].sid, batch[t][i].who, batch[t][i].round)'
      OBVIOUS
    <2>1. On(batch[t][i].sid) /\ batch[t][i].sid \in Sids /\ Due(batch[t][i].sid, batch[t][i].who, batch[t][i].round)
      BY DEF On, InHand, Owed
    <2> QED BY <2>1
  <1>3. \A i \in 1 .. Len(up') : up'[i].last => Due(up[i].frame.sid, up[i].frame.who, up[i].frame.round)'
    <2> SUFFICES ASSUME NEW i \in 1 .. Len(up), up[i].last
                 PROVE  Due(up[i].frame.sid, up[i].frame.who, up[i].frame.round)'
      OBVIOUS
    <2>1. /\ On(up[i].frame.sid) /\ up[i].frame.sid \in Sids
          /\ Due(up[i].frame.sid, up[i].frame.who, up[i].frame.round)
      BY DEF On, GoingUp, Owed
    <2> QED BY <2>1
  <1>4. server'.left > 0 => Due(server.frame.sid, server.frame.who, server.frame.round)'
    <2> SUFFICES ASSUME server.left > 0 PROVE Due(server.frame.sid, server.frame.who, server.frame.round)'
      OBVIOUS
    <2>1. /\ On(server.frame.sid) /\ server.frame.sid \in Sids
          /\ Due(server.frame.sid, server.frame.who, server.frame.round)
      BY ServerHas DEF On, Served, Owed
    <2> QED BY <2>1
  <1>5. \A i \in 1 .. Len(down') : down'[i].last => Due(down[i].sid, down[i].event.who, down[i].event.round)'
    <2> SUFFICES ASSUME NEW i \in 1 .. Len(down), down[i].last
                 PROVE  Due(down[i].sid, down[i].event.who, down[i].event.round)'
      OBVIOUS
    <2>1. On(down[i].sid) /\ down[i].sid \in Sids /\ Due(down[i].sid, down[i].event.who, down[i].event.round)
      BY DEF On, ComingDown, Owed
    <2> QED BY <2>1
  <1> QED BY <1>1, <1>2, <1>3, <1>4, <1>5 DEF Owed

\* A mailbox that a failure may have been put into.
Grown(t) == box'[t] = box[t] \/ box'[t] = Append(box[t], Told("failed"))

LEMMA ToldFailed == ASSUME NEW x, x = Told("failed") PROVE x.kind = "failed"
  BY DEF Told

LEMMA BoxGrows ==
    ASSUME Types, NEW t \in Threads, Grown(t)
    PROVE  /\ Final(t) => Final(t)'
           /\ OnlyFailed(t) => OnlyFailed(t)'
           /\ \A i \in 1 .. Len(box'[t]) : box'[t][i].kind = "failed" \/ (i \in 1 .. Len(box[t]) /\ box'[t][i] = box[t][i])
  <1>1. CASE box'[t] = box[t]
    BY <1>1 DEF Final, OnlyFailed
  <1>2. CASE box'[t] = Append(box[t], Told("failed"))
    <2>1. box[t] \in Seq(Event) /\ Told("failed") \in Event /\ Told("failed").kind = "failed"
      BY ToldType DEF Types, ReqType, Told
    <2>2. /\ Len(box'[t]) = Len(box[t]) + 1 /\ Len(box[t]) \in Nat
          /\ box'[t][Len(box[t]) + 1] = Told("failed")
          /\ \A i \in 1 .. Len(box[t]) : box'[t][i] = box[t][i]
      BY <1>2, <2>1, AppendAt
    <2>3. \A i \in 1 .. Len(box'[t]) : i \in 1 .. Len(box[t]) \/ i = Len(box[t]) + 1
      BY <2>2
    <2>4. 1 .. Len(box[t]) \subseteq 1 .. Len(box'[t])
      BY <2>2
    <2>5. Final(t) => Final(t)'
      BY <2>2, <2>4 DEF Final
    <2>6. \A i \in 1 .. Len(box'[t]) : box'[t][i].kind = "failed" \/ (i \in 1 .. Len(box[t]) /\ box'[t][i] = box[t][i])
      <3> SUFFICES ASSUME NEW i \in 1 .. Len(box'[t])
                   PROVE  box'[t][i].kind = "failed" \/ (i \in 1 .. Len(box[t]) /\ box'[t][i] = box[t][i])
        OBVIOUS
      <3>1. CASE i \in 1 .. Len(box[t])
        BY <2>2, <3>1
      <3>2. CASE i = Len(box[t]) + 1
        <4>1. box'[t][i] = Told("failed")
          BY <2>2, <3>2
        <4>2. box'[t][i].kind = "failed"
          BY ONLY <4>1, ToldFailed
        <4> QED BY <4>2
      <3> QED BY <2>3, <3>1, <3>2
    <2>7. OnlyFailed(t) => OnlyFailed(t)'
      BY <2>6 DEF OnlyFailed
    <2> QED BY <2>5, <2>6, <2>7
  <1> QED BY <1>1, <1>2 DEF Grown

\* Threads move, or wake, or hear of a failure; no request begins or ends, and
\* no stream changes hands.
LEMMA MailStays ==
    ASSUME ReaderInv, MailInv, UNCHANGED <<round, sid, told, inbox, pending, retired>>, WireKept,
           \A u \in Threads : Grown(u) /\ (Active(u)' <=> Active(u)),
           \A u \in Threads : Has(u)' \/ pc'[u] \in {"idle", "turn"} => OnlyFailed(u),
           \A u \in Threads : pc'[u] = "parked" => box'[u] = <<>>,
           \A u \in Threads : pc'[u] = "sitout" => pc[u] = "sitout",
           mstate' \in {mstate, "CLOSED"}, bulkOwner' \in {bulkOwner, NoThread}
    PROVE  MailInv'
  <1> USE DEF ReaderInv, MailInv
  <1>1. \A u \in Threads :
          /\ Final(u) => Final(u)'
          /\ OnlyFailed(u) => OnlyFailed(u)'
          /\ \A i \in 1 .. Len(box'[u]) : box'[u][i].kind = "failed" \/ (i \in 1 .. Len(box[u]) /\ box'[u][i] = box[u][i])
    BY BoxGrows
  <1>2. Boxed'
    BY <1>1 DEF Boxed
  <1>3. RightMail'
    BY DEF RightMail
  <1>4. Filed'
    BY <1>1 DEF Filed, Types, MapType
  <1>5. Owed'
    BY OwedStays DEF Due
  <1>6. Once' /\ Apart' /\ Whole' /\ \A s \in Sids : On(s)' => On(s)
    BY WireStays
  <1>7. Quiet'
    <2> SUFFICES ASSUME NEW t \in Threads, Active(t)', Waited(t)', pending[sid[t]] = t PROVE ~On(sid[t])'
      BY DEF Quiet
    <2>1. Waited(t)
      BY <1>1 DEF Waited
    <2>2. sid[t] \in Sids /\ ~On(sid[t])
      BY <2>1 DEF Quiet, Types, Begun
    <2> QED BY <1>6, <2>2, QuietThere
  <1>8. Lent'
    BY DEF Lent, Types, LinkType
  <1> QED BY <1>2, <1>3, <1>4, <1>5, <1>6, <1>7, <1>8

\* A request ends: its mailbox comes down and its stream is freed, or given up
\* if something is owed on it - unless the id is another's by now.
GivenUp(t) ==
    /\ \A s \in Sids \ {sid[t]} : inbox'[s] = inbox[s] /\ pending'[s] = pending[s] /\ (s \in retired' <=> s \in retired)
    /\ inbox[sid[t]] # t => UNCHANGED <<inbox, pending, retired>>
    /\ inbox[sid[t]] = t =>
         /\ pending'[sid[t]] = NoThread
         /\ sid[t] \in retired => sid[t] \in retired'
         /\ sid[t] \in retired' => sid[t] \in retired \/ pending[sid[t]] # NoThread
         /\ On(sid[t]) /\ pending[sid[t]] # NoThread => sid[t] \in retired'

LEMMA ForgetGivesUp ==
    ASSUME Types, NEW t \in Threads, sid[t] \in Sids, Forget(t)
    PROVE  GivenUp(t)
  <1>1. CASE inbox[sid[t]] = t
    BY <1>1 DEF Forget, GivenUp, Types, MapType
  <1>2. CASE inbox[sid[t]] # t
    BY <1>2 DEF Forget, GivenUp, mapVars
  <1> QED BY <1>1, <1>2

LEMMA MailDone ==
    ASSUME ReaderInv, MapType', MailInv, NEW t \in Threads, Active(t), GivenUp(t), WireKept,
           ~Active(t)', pc'[t] = "idle", OnlyFailed(t)',
           told'[t].kind = "ok" => told'[t].who = t /\ told'[t].round = round[t],
           \A u \in Threads \ {t} : told'[u] = told[u] /\ Grown(u) /\ (Active(u)' <=> Active(u)),
           \A u \in Threads \ {t} : Has(u)' \/ pc'[u] \in {"idle", "turn"} => OnlyFailed(u),
           \A u \in Threads \ {t} : pc'[u] = "parked" => box'[u] = <<>>,
           \A u \in Threads \ {t} : pc'[u] = "sitout" => pc[u] = "sitout",
           UNCHANGED <<round, sid, mstate, bulkOwner>>
    PROVE  MailInv'
  <1> USE DEF ReaderInv, MailInv
  <1>1. \A u \in Threads \ {t} :
          /\ Final(u) => Final(u)'
          /\ OnlyFailed(u) => OnlyFailed(u)'
          /\ \A i \in 1 .. Len(box'[u]) : box'[u][i].kind = "failed" \/ (i \in 1 .. Len(box[u]) /\ box'[u][i] = box[u][i])
    BY BoxGrows
  <1>2. sid[t] \in Sids
    BY DEF Types, Begun
  <1>3. Boxed'
    <2>1. \A i \in 1 .. Len(box'[t]) : box'[t][i].kind = "failed"
      BY DEF OnlyFailed
    <2> QED BY <1>1, <2>1 DEF Boxed
  <1>4. RightMail'
    BY DEF RightMail
  <1>5. \A s \in Sids : pending[s] = t => s = sid[t] /\ inbox[s] = t
    BY DriverAssumption DEF Filed
  <1>6. \A s \in Sids : pending'[s] # NoThread => pending'[s] = pending[s] /\ inbox'[s] = inbox[s] /\ pending[s] # t
    BY <1>2, <1>5 DEF GivenUp, Types, MapType
  <1>7. Filed'
    <2>1. \A s \in Sids : pending'[s] # NoThread =>
            inbox'[s] = pending'[s] /\ sid'[pending'[s]] = s /\ Active(pending[s])'
      <3> SUFFICES ASSUME NEW s \in Sids, pending'[s] # NoThread
                   PROVE  inbox'[s] = pending'[s] /\ sid'[pending'[s]] = s /\ Active(pending[s])'
        OBVIOUS
      <3>1. pending[s] \in Threads \ {t} /\ pending'[s] = pending[s] /\ inbox'[s] = pending[s]
        BY <1>6 DEF Filed, Types, MapType
      <3>2. sid[pending[s]] = s /\ Active(pending[s])
        BY <3>1, DriverAssumption DEF Filed
      <3>3. \A u \in Threads \ {t} : u = pending'[s] => Active(u)' /\ sid'[u] = s
        BY <3>1, <3>2
      <3> QED BY <3>1, <3>3
    <2>2. \A s \in retired' : pending'[s] = NoThread
      BY <1>2 DEF Filed, GivenUp, MapType
    <2>3. ASSUME mstate' = "READY", NEW u \in Threads, Active(u)', ~Final(u)'
          PROVE  inbox'[sid'[u]] = u /\ pending'[sid'[u]] = u
      <3>1. u # t /\ Active(u) /\ ~Final(u)
        BY <1>1, <2>3
      <3>2. inbox[sid[u]] = u /\ pending[sid[u]] = u /\ sid[u] \in Sids
        BY <2>3, <3>1 DEF Filed, Types, Begun
      <3>3. CASE sid[u] = sid[t]
        BY <3>1, <3>2, <3>3 DEF GivenUp
      <3>4. CASE sid[u] # sid[t]
        BY <3>2, <3>4 DEF GivenUp
      <3> QED BY <3>3, <3>4
    <2> QED BY <2>1, <2>2, <2>3 DEF Filed
  <1>8. Owed'
    <2>1. ASSUME NEW s \in Sids, NEW who, NEW num, On(s), Due(s, who, num) PROVE Due(s, who, num)'
      <3>1. CASE s = sid[t] /\ inbox[s] = t
        <4>1. pending'[s] = NoThread /\ s \in retired'
          BY <2>1, <3>1 DEF GivenUp, Due
        <4> QED BY <4>1 DEF Due
      <3>2. CASE ~(s = sid[t] /\ inbox[s] = t)
        <4>1. pending'[s] = pending[s] /\ (s \in retired' <=> s \in retired)
          BY <3>2 DEF GivenUp
        <4> QED BY <2>1, <4>1 DEF Due
      <3> QED BY <3>1, <3>2
    <2> QED BY <2>1, OwedStays
  <1>9. Once' /\ Apart' /\ Whole' /\ \A s \in Sids : On(s)' => On(s)
    BY WireStays
  <1>10. Quiet'
    <2> SUFFICES ASSUME NEW u \in Threads, Active(u)', Waited(u)', pending'[sid[u]] = u PROVE ~On(sid[u])'
      BY DEF Quiet
    <2>1. u # t /\ Waited(u) /\ Active(u) /\ sid[u] \in Sids
      BY <1>1 DEF Waited, Types, Begun
    <2>2. pending[sid[u]] = u
      BY <1>6, <2>1, DriverAssumption
    <2>3. sid[u] \in Sids /\ ~On(sid[u])
      BY <2>1, <2>2 DEF Quiet
    <2> QED BY <1>9, <2>3, QuietThere
  <1>11. Lent'
    <2> SUFFICES ASSUME bulkOwner # NoThread, mstate = "READY"
                 PROVE  retired' = {} /\ \A s \in Sids : pending'[s] = NoThread
      BY DEF Lent
    <2>1. retired = {} /\ \A s \in Sids : pending[s] = NoThread
      BY DEF Lent
    <2>2. \A s \in Sids : s \notin retired'
      BY <1>2, <2>1 DEF GivenUp
    <2>3. retired' \in SUBSET Sids
      BY DEF MapType
    <2> QED BY <1>6, <2>1, <2>2, <2>3
  <1> QED BY <1>3, <1>4, <1>7, <1>8, <1>9, <1>10, <1>11

\* A thread that has no request takes a number for one that is refused, or
\* takes the wire.
LEMMA MailNumbered ==
    ASSUME ReaderInv, MailInv, NEW t \in Threads, pc[t] \in {"idle", "turn"}, WireKept,
           \A u \in Threads \ {t} : round'[u] = round[u] /\ told'[u] = told[u], told'[t].kind # "ok",
           \A u \in Threads : Active(u)' <=> Active(u),
           \A u \in Threads \ {t} : pc'[u] = pc[u] /\ (Has(u)' <=> Has(u)), pc'[t] \notin {"parked", "sitout"},
           UNCHANGED <<sid, box, inbox, pending, retired, mstate>>,
           bulkOwner' = bulkOwner \/ (retired = {} /\ \A s \in Sids : pending[s] = NoThread)
    PROVE  MailInv'
  <1> USE DEF ReaderInv, MailInv
  <1>1. OnlyFailed(t) /\ ~Active(t)
    BY DEF Boxed, Active
  <1>2. \A s \in Sids : pending[s] # t
    BY <1>1, DriverAssumption DEF Filed
  <1>3. Boxed'
    BY <1>1 DEF Boxed, OnlyFailed
  <1>4. RightMail'
    BY DEF RightMail
  <1>5. Filed'
    BY DEF Filed, Final, Types, MapType
  <1>6. Owed'
    <2>1. ASSUME NEW s \in Sids, NEW who, NEW num, On(s), Due(s, who, num) PROVE Due(s, who, num)'
      <3>1. CASE pending[s] = NoThread
        BY <2>1, <3>1 DEF Due
      <3>2. CASE pending[s] # NoThread
        <4>1. pending[s] \in Threads \ {t} /\ who = pending[s]
          BY <1>2, <2>1, <3>2 DEF Due, Types, MapType
        <4> QED BY <2>1, <3>2, <4>1 DEF Due
      <3> QED BY <3>1, <3>2
    <2> QED BY <2>1, OwedStays
  <1>7. Once' /\ Apart' /\ Whole' /\ \A s \in Sids : On(s)' => On(s)
    BY WireStays
  <1>8. Quiet'
    <2> SUFFICES ASSUME NEW u \in Threads, Active(u)', Waited(u)', pending[sid[u]] = u PROVE ~On(sid[u])'
      BY DEF Quiet
    <2>1. u # t /\ Waited(u) /\ Active(u) /\ sid[u] \in Sids
      BY <1>1 DEF Waited, Types, Begun
    <2>2. ~On(sid[u])
      BY <2>1 DEF Quiet
    <2> QED BY <1>7, <2>1, <2>2, QuietThere
  <1>9. Lent'
    BY DEF Lent
  <1> QED BY <1>3, <1>4, <1>5, <1>6, <1>7, <1>8, <1>9

-----------------------------------------------------------------------------
(* What is owed moves along the wire.                                      *)

LEMMA MailWire ==
    ASSUME ReaderInv, MailInv, Owed', Once', Apart', Whole', \A s \in Sids : On(s)' => On(s),
           UNCHANGED <<pc, then, round, sid, box, told, inbox, pending, retired, mstate, bulkOwner>>
    PROVE  MailInv'
  <1> USE DEF MailInv
  <1>1. Boxed' /\ RightMail' /\ Lent'
    BY DEF Boxed, RightMail, Lent, Has, OnlyFailed
  <1>2. Filed'
    BY DEF Filed, Active, Final
  <1>3. Quiet'
    <2> SUFFICES ASSUME NEW t \in Threads, Active(t)', Waited(t)', pending[sid[t]] = t PROVE ~On(sid[t])'
      BY DEF Quiet
    <2>1. Active(t) /\ Waited(t)
      BY DEF Active, Waited
    <2>2. sid[t] \in Sids /\ ~On(sid[t])
      BY <2>1 DEF Quiet, ReaderInv, Types, Begun
    <2>3. ~On(sid[t])'
      <3> DEFINE s == sid[t]
      <3>1. s \in Sids /\ ~On(s)
        BY <2>2
      <3>2. ~On(s)'
        BY <3>1
      <3> QED BY <3>2 DEF On, InQueue, InHand, GoingUp, Served, ComingDown
    <2> QED BY <2>3
  <1> QED BY <1>1, <1>2, <1>3

\* Due, in the next state.
Later(s, who, num) == IF pending'[s] = NoThread THEN s \in retired' ELSE pending'[s] = who /\ round'[who] = num

LEMMA OwedLater ==
    ASSUME mstate' = "READY" =>
              /\ \A i \in 1 .. Len(outq') : Later(outq'[i].sid, outq'[i].who, outq'[i].round)
              /\ \A t \in Threads : \A i \in 1 .. Len(batch'[t]) :
                   Later(batch'[t][i].sid, batch'[t][i].who, batch'[t][i].round)
              /\ \A i \in 1 .. Len(up') : up'[i].last => Later(up'[i].frame.sid, up'[i].frame.who, up'[i].frame.round)
              /\ server'.left > 0 => Later(server'.frame.sid, server'.frame.who, server'.frame.round)
              /\ \A i \in 1 .. Len(down') :
                   down'[i].last => Later(down'[i].sid, down'[i].event.who, down'[i].event.round)
    PROVE  Owed'
  BY DEF Owed, Due, Later

\* What is owed is due, if the streams have not changed hands.
LEMMA OwedBy ==
    ASSUME \A s, who, num : Due(s, who, num) => Due(s, who, num)',
           \A i \in 1 .. Len(outq') : Due(outq'[i].sid, outq'[i].who, outq'[i].round),
           \A t \in Threads : \A i \in 1 .. Len(batch'[t]) :
              Due(batch'[t][i].sid, batch'[t][i].who, batch'[t][i].round),
           \A i \in 1 .. Len(up') : up'[i].last => Due(up'[i].frame.sid, up'[i].frame.who, up'[i].frame.round),
           server'.left > 0 => Due(server'.frame.sid, server'.frame.who, server'.frame.round),
           \A i \in 1 .. Len(down') : down'[i].last => Due(down'[i].sid, down'[i].event.who, down'[i].event.round)
    PROVE  Owed'
  <1>1. \A s, who, num : Due(s, who, num) => Later(s, who, num)
    BY DEF Due, Later
  <1> QED BY <1>1, OwedLater

\* With the send lock in hand, nobody else has frames in theirs.
LEMMA OneHand ==
    ASSUME ReaderInv, NEW t \in Threads, pc[t] = "drain"
    PROVE  \A u \in Threads \ {t} : batch[u] = <<>>
  BY DEF ReaderInv, Roles, LockHeld

LEMMA MailTaken == ASSUME ReaderInv, MailInv, NEW t \in Threads, TakeOutq(t) PROVE MailInv'
  <1> USE DEF ReaderInv, MailInv
  <1>1. \A u \in Threads : batch[u] = <<>>
    BY OneHand DEF TakeOutq
  <1>2. outq' = <<>> /\ batch'[t] = outq /\ \A u \in Threads \ {t} : batch'[u] = <<>>
    BY <1>1 DEF TakeOutq, Types, SendType
  <1>3. UNCHANGED <<up, server, down, reqVars, mapVars, mstate, bulkOwner>>
    BY DEF TakeOutq, envVars, roleVars, linkVars
  <1>4. \A s \in Sids : /\ ~InQueue(s)' /\ (InHand(s)' => InQueue(s))
                        /\ GoingUp(s)' <=> GoingUp(s)
                        /\ Served(s)' <=> Served(s)
                        /\ ComingDown(s)' <=> ComingDown(s)
    BY <1>2, <1>3 DEF InQueue, InHand, GoingUp, Served, ComingDown
  <1>5. Once' /\ Whole'
    BY <1>2, <1>3 DEF Once, Whole
  <1>6. Apart' /\ \A s \in Sids : On(s)' => On(s)
    BY <1>4 DEF Apart, On
  <1>7. Owed'
    <2>1. \A s, who, num : Due(s, who, num) => Due(s, who, num)'
      BY <1>3 DEF Due, reqVars, mapVars
    <2> QED BY <1>2, <1>3, <2>1 DEF Owed
  <1> QED BY <1>3, <1>5, <1>6, <1>7, MailWire DEF reqVars, mapVars

LEMMA MailSent == ASSUME ReaderInv, MailInv, NEW t \in Threads, SendPiece(t) PROVE MailInv'
  <1> USE DEF ReaderInv, MailInv
  <1>1. PICK p \in Piece, k \in {0, 1} : SentBy(t, p, k)
    BY SentPiece
  <1>2. UNCHANGED <<outq, server, down, reqVars, mapVars, mstate, bulkOwner>>
    BY DEF SendPiece, roleVars, linkVars
  <1>3. /\ up \in Seq(Piece) /\ Len(up') = Len(up) + 1 /\ Len(up) \in Nat
        /\ up'[Len(up) + 1] = p /\ \A i \in 1 .. Len(up) : up'[i] = up[i]
    BY <1>1, AppendAt DEF SentBy, Types, EnvType
  <1>4. \A i \in 1 .. Len(up') : i \in 1 .. Len(up) \/ i = Len(up) + 1
    BY <1>3
  <1>5. /\ Len(batch[t]) \in Nat \ {0} /\ 1 \in 1 .. Len(batch[t]) /\ p.frame = batch[t][1]
        /\ p.frame.sid \in Sids /\ p.last \in BOOLEAN
    <2>1. p.frame = batch[t][1] /\ batch[t] # <<>> /\ batch[t] \in Seq(Frame)
      BY <1>1 DEF SentBy, Types, SendType
    <2>2. Len(batch[t]) \in Nat \ {0}
      BY <2>1, TailAt
    <2>3. p.frame.sid \in Sids /\ p.last \in BOOLEAN
      BY DEF Piece, Frame
    <2> QED BY <2>1, <2>2, <2>3
  <1>6. \A i \in 1 .. Len(batch'[t]) :
          /\ i + k \in 1 .. Len(batch[t]) /\ batch'[t][i].sid = batch[t][i + k].sid
          /\ batch'[t][i].who = batch[t][i + k].who /\ batch'[t][i].round = batch[t][i + k].round
    BY <1>1 DEF SentBy
  <1>7. \A u \in Threads \ {t} : batch[u] = <<>> /\ batch'[u] = <<>>
    BY <1>1 DEF SentBy
  <1>8. p.last => k = 1
    BY <1>1 DEF SentBy
  <1>9. \A s \in Sids : /\ InQueue(s)' <=> InQueue(s)
                        /\ Served(s)' <=> Served(s)
                        /\ ComingDown(s)' <=> ComingDown(s)
    BY <1>2 DEF InQueue, Served, ComingDown
  <1>10. \A s \in Sids : InHand(s)' => InHand(s) /\ (p.last => s # p.frame.sid)
    <2> SUFFICES ASSUME NEW s \in Sids, InHand(s)' PROVE InHand(s) /\ (p.last => s # p.frame.sid)
      OBVIOUS
    <2>1. PICK i \in 1 .. Len(batch'[t]) : batch'[t][i].sid = s
      BY <1>7 DEF InHand
    <2>2. i + k \in 1 .. Len(batch[t]) /\ batch[t][i + k].sid = s
      BY <1>6, <2>1
    <2>3. InHand(s)
      BY <2>2 DEF InHand
    <2>4. ASSUME p.last, s = p.frame.sid PROVE FALSE
      <3>1. i + k = 1
        BY <1>5, <2>2, <2>4 DEF Once
      <3>2. i \in Nat \ {0} /\ k = 1
        BY <1>8, <2>4
      <3> QED BY <3>1, <3>2
    <2> QED BY <2>3, <2>4
  <1>11. \A s \in Sids : GoingUp(s)' => GoingUp(s) \/ (p.last /\ s = p.frame.sid)
    BY <1>3, <1>4 DEF GoingUp
  <1>12. InHand(p.frame.sid)
    BY <1>5 DEF InHand
  <1>13. Apart' /\ \A s \in Sids : On(s)' => On(s)
    BY <1>5, <1>9, <1>10, <1>11, <1>12 DEF Apart, On
  <1>14. Whole'
    BY <1>2 DEF Whole
  <1>15. Once'
    <2>1. \A i, j \in 1 .. Len(outq') : outq'[i].sid = outq'[j].sid => i = j
      BY <1>2 DEF Once
    <2>2. \A i, j \in 1 .. Len(down') : down'[i].last /\ down'[j].last /\ down'[i].sid = down'[j].sid => i = j
      BY <1>2 DEF Once
    <2>3. ASSUME NEW u \in Threads, NEW i \in 1 .. Len(batch'[u]), NEW j \in 1 .. Len(batch'[u]),
                 batch'[u][i].sid = batch'[u][j].sid
          PROVE  i = j
      <3>1. CASE u = t
        <4>1. i + k \in 1 .. Len(batch[t]) /\ j + k \in 1 .. Len(batch[t]) /\ batch[t][i + k].sid = batch[t][j + k].sid
          BY <1>6, <2>3, <3>1
        <4>2. i + k = j + k
          BY <4>1 DEF Once
        <4>3. i \in Int /\ j \in Int /\ k \in Int
          OBVIOUS
        <4> QED BY <4>2, <4>3
      <3>2. CASE u # t
        BY <1>7, <2>3, <3>2
      <3> QED BY <3>1, <3>2
    <2>4. ASSUME NEW i \in 1 .. Len(up'), NEW j \in 1 .. Len(up'), up'[i].last, up'[j].last,
                 up'[i].frame.sid = up'[j].frame.sid
          PROVE  i = j
      <3>1. CASE i \in 1 .. Len(up) /\ j \in 1 .. Len(up)
        BY <1>3, <2>4, <3>1 DEF Once
      <3>2. CASE i = Len(up) + 1 /\ j \in 1 .. Len(up)
        <4>1. GoingUp(p.frame.sid) /\ p.last
          BY <1>3, <2>4, <3>2 DEF GoingUp
        <4> QED BY <1>5, <1>12, <4>1 DEF Apart
      <3>3. CASE j = Len(up) + 1 /\ i \in 1 .. Len(up)
        <4>1. GoingUp(p.frame.sid) /\ p.last
          BY <1>3, <2>4, <3>3 DEF GoingUp
        <4> QED BY <1>5, <1>12, <4>1 DEF Apart
      <3> QED BY <1>4, <3>1, <3>2, <3>3
    <2> QED BY <2>1, <2>2, <2>3, <2>4 DEF Once
  <1>16. Owed'
    <2>1. \A s, who, num : Due(s, who, num) => Due(s, who, num)'
      BY <1>2 DEF Due, reqVars, mapVars
    <2> SUFFICES ASSUME mstate = "READY" PROVE Owed'
      BY <1>2 DEF Owed
    <2>2. ASSUME NEW u \in Threads, NEW i \in 1 .. Len(batch'[u])
          PROVE  Due(batch'[u][i].sid, batch'[u][i].who, batch'[u][i].round)
      <3>1. CASE u = t
        BY <1>6, <3>1 DEF Owed
      <3>2. CASE u # t
        BY <1>7, <3>2
      <3> QED BY <3>1, <3>2
    <2>3. ASSUME NEW i \in 1 .. Len(up'), up'[i].last
          PROVE  Due(up'[i].frame.sid, up'[i].frame.who, up'[i].frame.round)
      <3>1. CASE i \in 1 .. Len(up)
        BY <1>3, <2>3, <3>1 DEF Owed
      <3>2. CASE i = Len(up) + 1
        <4>1. Due(batch[t][1].sid, batch[t][1].who, batch[t][1].round)
          BY <1>5 DEF Owed
        <4>2. up'[i].frame = batch[t][1]
          BY <1>3, <1>5, <3>2
        <4> QED BY <4>1, <4>2
      <3> QED BY <1>4, <3>1, <3>2
    <2>4. (\A i \in 1 .. Len(outq') : Due(outq'[i].sid, outq'[i].who, outq'[i].round))
      BY <1>2 DEF Owed
    <2>5. server'.left > 0 => Due(server'.frame.sid, server'.frame.who, server'.frame.round)
      BY <1>2 DEF Owed
    <2>6. \A i \in 1 .. Len(down') : down'[i].last => Due(down'[i].sid, down'[i].event.who, down'[i].event.round)
      BY <1>2 DEF Owed
    <2> QED BY <2>1, <2>2, <2>3, <2>4, <2>5, <2>6, OwedBy
  <1> QED BY <1>2, <1>13, <1>14, <1>15, <1>16, MailWire DEF reqVars, mapVars

LEMMA MailRead == ASSUME ReaderInv, MailInv, ServerReads PROVE MailInv'
  <1> USE DEF ReaderInv, MailInv
  <1> DEFINE p == up[1]
  <1>1. /\ up' \in Seq(Piece) /\ Len(up') = Len(up) - 1 /\ Len(up) \in Nat \ {0} /\ Head(up) = p /\ p \in Piece
        /\ \A i \in 1 .. Len(up') : up'[i] = up[i + 1] /\ i + 1 \in 1 .. Len(up)
    BY TailAt DEF ServerReads, Types, EnvType
  <1>2. UNCHANGED <<outq, batch, down, reqVars, mapVars, mstate, bulkOwner>>
    BY DEF ServerReads, sendVars, roleVars, linkVars
  <1>3. server.left = 0
    BY DEF ServerReads
  <1>4. IF p.last THEN server' = [frame |-> p.frame, left |-> p.frame.reply] ELSE server' = server
    BY <1>1 DEF ServerReads
  <1>5. p.last \in BOOLEAN /\ p.frame \in Frame /\ p.frame.sid \in Sids /\ p.frame.reply \in Nat \ {0}
    BY <1>1 DEF Piece, Frame
  <1>6. 1 \in 1 .. Len(up) /\ \A i \in 1 .. Len(up') : i + 1 # 1 /\ i \in Int
    BY <1>1
  <1> HIDE DEF p
  <1>7. up[1] = p
    BY DEF p
  <1>8. \A s \in Sids : /\ InQueue(s)' <=> InQueue(s)
                        /\ InHand(s)' <=> InHand(s)
                        /\ ComingDown(s)' <=> ComingDown(s)
    BY <1>2 DEF InQueue, InHand, ComingDown
  <1>9. \A s \in Sids : ~Served(s) /\ (Served(s)' => p.last /\ s = p.frame.sid)
    BY <1>3, <1>4, <1>5 DEF Served
  <1>10. p.last => GoingUp(p.frame.sid)
    BY <1>6, <1>7 DEF GoingUp
  <1>11. \A s \in Sids : GoingUp(s)' => GoingUp(s) /\ (p.last => s # p.frame.sid)
    <2> SUFFICES ASSUME NEW s \in Sids, GoingUp(s)' PROVE GoingUp(s) /\ (p.last => s # p.frame.sid)
      OBVIOUS
    <2>1. PICK i \in 1 .. Len(up') : up'[i].last /\ up'[i].frame.sid = s
      BY DEF GoingUp
    <2>2. i + 1 \in 1 .. Len(up) /\ up[i + 1].last /\ up[i + 1].frame.sid = s
      BY <1>1, <2>1
    <2>3. GoingUp(s)
      BY <2>2 DEF GoingUp
    <2>4. ASSUME p.last, s = p.frame.sid PROVE FALSE
      <3>1. i + 1 = 1
        BY <1>6, <1>7, <2>2, <2>4 DEF Once
      <3> QED BY <1>6, <3>1
    <2> QED BY <2>3, <2>4
  <1>12. Apart' /\ \A s \in Sids : On(s)' => On(s)
    BY <1>5, <1>8, <1>9, <1>10, <1>11 DEF Apart, On
  <1>13. Whole'
    BY <1>2, <1>3 DEF Whole
  <1>14. Once'
    <2>1. \A i, j \in 1 .. Len(outq') : outq'[i].sid = outq'[j].sid => i = j
      BY <1>2 DEF Once
    <2>2. \A i, j \in 1 .. Len(down') : down'[i].last /\ down'[j].last /\ down'[i].sid = down'[j].sid => i = j
      BY <1>2 DEF Once
    <2>3. \A t \in Threads : \A i, j \in 1 .. Len(batch'[t]) : batch'[t][i].sid = batch'[t][j].sid => i = j
      BY <1>2 DEF Once
    <2>4. ASSUME NEW i \in 1 .. Len(up'), NEW j \in 1 .. Len(up'), up'[i].last, up'[j].last,
                 up'[i].frame.sid = up'[j].frame.sid
          PROVE  i = j
      <3>1. /\ i + 1 \in 1 .. Len(up) /\ j + 1 \in 1 .. Len(up)
            /\ up'[i] = up[i + 1] /\ up'[j] = up[j + 1]
        BY <1>1
      <3>2. up[i + 1].last /\ up[j + 1].last /\ up[i + 1].frame.sid = up[j + 1].frame.sid
        BY <2>4, <3>1
      <3>3. i + 1 = j + 1
        BY <3>1, <3>2 DEF Once
      <3> QED BY <1>6, <3>3
    <2> QED BY <2>1, <2>2, <2>3, <2>4 DEF Once
  <1>15. Owed'
    <2>1. \A s, who, num : Due(s, who, num) => Due(s, who, num)'
      BY <1>2 DEF Due, reqVars, mapVars
    <2> SUFFICES ASSUME mstate = "READY" PROVE Owed'
      BY <1>2 DEF Owed
    <2>2. \A t \in Threads : \A i \in 1 .. Len(batch'[t]) : Due(batch'[t][i].sid, batch'[t][i].who, batch'[t][i].round)
      BY <1>2 DEF Owed
    <2>3. \A i \in 1 .. Len(up') : up'[i].last => Due(up'[i].frame.sid, up'[i].frame.who, up'[i].frame.round)
      BY <1>1 DEF Owed
    <2>4. \A i \in 1 .. Len(outq') : Due(outq'[i].sid, outq'[i].who, outq'[i].round)
      BY <1>2 DEF Owed
    <2>5. ASSUME server'.left > 0 PROVE Due(server'.frame.sid, server'.frame.who, server'.frame.round)
      <3>1. p.last /\ server'.frame = p.frame
        BY <1>3, <1>4, <2>5
      <3>2. Due(p.frame.sid, p.frame.who, p.frame.round)
        BY <1>6, <1>7, <3>1 DEF Owed
      <3> QED BY <3>1, <3>2
    <2>6. \A i \in 1 .. Len(down') : down'[i].last => Due(down'[i].sid, down'[i].event.who, down'[i].event.round)
      BY <1>2 DEF Owed
    <2> QED BY <2>1, <2>2, <2>3, <2>4, <2>5, <2>6, OwedBy
  <1> QED BY <1>2, <1>12, <1>13, <1>14, <1>15, MailWire DEF reqVars, mapVars

LEMMA MailWritten == ASSUME ReaderInv, MailInv, ServerWrites PROVE MailInv'
  <1> USE DEF ReaderInv, MailInv
  <1> DEFINE f == server.frame
             fin == server.left = 1
             Says(kind) == [sid |-> f.sid, last |-> fin, event |-> [kind |-> kind, who |-> f.who, round |-> f.round]]
  <1>1. /\ server \in [frame : Frame, left : Nat] /\ server.left > 0 /\ server.left \in Nat
        /\ f \in Frame /\ f.sid \in Sids /\ f.who \in Threads /\ f.round \in Nat
    BY ServerHas DEF ServerWrites, Frame
  <1>2. PICK kind \in {"ok", "wait"} :
          /\ down' = Append(down, Says(kind))
          /\ server' = IF fin THEN Nobody ELSE [server EXCEPT !.left = @ - 1]
    BY DEF ServerWrites
  <1> DEFINE r == Says(kind)
  <1>3. /\ r.sid = f.sid /\ (r.last <=> fin) /\ r.event.who = f.who /\ r.event.round = f.round
    OBVIOUS
  <1>4. r \in Reply
    BY <1>1 DEF Reply, Answer
  <1>5. down' = Append(down, r)
    BY <1>2
  <1> HIDE DEF r
  <1>6. /\ Len(down') = Len(down) + 1 /\ Len(down) \in Nat /\ down' \in Seq(Reply)
        /\ down'[Len(down) + 1] = r /\ \A i \in 1 .. Len(down) : down'[i] = down[i]
    BY <1>4, <1>5, AppendAt DEF Types, EnvType
  <1>7. \A i \in 1 .. Len(down') : i \in 1 .. Len(down) \/ i = Len(down) + 1
    BY <1>6
  <1>8. IF fin THEN server'.left = 0 ELSE server'.left = server.left - 1 /\ server'.left > 0 /\ server'.frame = f
    BY <1>1, <1>2 DEF Nobody
  <1>9. UNCHANGED <<outq, batch, up, reqVars, mapVars, mstate, bulkOwner>>
    BY DEF ServerWrites, sendVars, roleVars, linkVars
  <1> HIDE DEF f, fin
  <1>10. \A s \in Sids : /\ InQueue(s)' <=> InQueue(s)
                         /\ InHand(s)' <=> InHand(s)
                         /\ GoingUp(s)' <=> GoingUp(s)
    BY <1>9 DEF InQueue, InHand, GoingUp
  <1>11. \A s \in Sids : (Served(s) <=> s = f.sid) /\ (Served(s)' => ~fin /\ s = f.sid)
    BY <1>1, <1>8 DEF Served, f
  <1>12. \A s \in Sids : ComingDown(s)' => ComingDown(s) \/ (fin /\ s = f.sid)
    BY <1>3, <1>6, <1>7 DEF ComingDown
  <1>13. Apart' /\ \A s \in Sids : On(s)' => On(s)
    BY <1>1, <1>10, <1>11, <1>12 DEF Apart, On
  <1>14. Whole'
    BY <1>3, <1>6, <1>8 DEF Whole
  <1>15. Once'
    <2>1. \A i, j \in 1 .. Len(outq') : outq'[i].sid = outq'[j].sid => i = j
      BY <1>9 DEF Once
    <2>2. \A i, j \in 1 .. Len(up') : up'[i].last /\ up'[j].last /\ up'[i].frame.sid = up'[j].frame.sid => i = j
      BY <1>9 DEF Once
    <2>3. \A t \in Threads : \A i, j \in 1 .. Len(batch'[t]) : batch'[t][i].sid = batch'[t][j].sid => i = j
      BY <1>9 DEF Once
    <2>4. ASSUME NEW i \in 1 .. Len(down'), NEW j \in 1 .. Len(down'), down'[i].last, down'[j].last,
                 down'[i].sid = down'[j].sid
          PROVE  i = j
      <3>1. CASE i \in 1 .. Len(down) /\ j \in 1 .. Len(down)
        BY <1>6, <2>4, <3>1 DEF Once
      <3>2. CASE i = Len(down) + 1 /\ j \in 1 .. Len(down)
        <4>1. ComingDown(f.sid)
          BY <1>3, <1>6, <2>4, <3>2 DEF ComingDown
        <4> QED BY <1>1, <1>11, <4>1 DEF Apart
      <3>3. CASE j = Len(down) + 1 /\ i \in 1 .. Len(down)
        <4>1. ComingDown(f.sid)
          BY <1>3, <1>6, <2>4, <3>3 DEF ComingDown
        <4> QED BY <1>1, <1>11, <4>1 DEF Apart
      <3> QED BY <1>7, <3>1, <3>2, <3>3
    <2> QED BY <2>1, <2>2, <2>3, <2>4 DEF Once
  <1>16. Owed'
    <2>1. \A s, who, num : Due(s, who, num) => Due(s, who, num)'
      BY <1>9 DEF Due, reqVars, mapVars
    <2> SUFFICES ASSUME mstate = "READY" PROVE Owed'
      BY <1>9 DEF Owed
    <2>2. \A t \in Threads : \A i \in 1 .. Len(batch'[t]) : Due(batch'[t][i].sid, batch'[t][i].who, batch'[t][i].round)
      BY <1>9 DEF Owed
    <2>3. \A i \in 1 .. Len(up') : up'[i].last => Due(up'[i].frame.sid, up'[i].frame.who, up'[i].frame.round)
      BY <1>9 DEF Owed
    <2>4. \A i \in 1 .. Len(outq') : Due(outq'[i].sid, outq'[i].who, outq'[i].round)
      BY <1>9 DEF Owed
    <2>5. Due(f.sid, f.who, f.round)
      BY <1>1 DEF Owed, f
    <2>6. server'.left > 0 => Due(server'.frame.sid, server'.frame.who, server'.frame.round)
      BY <1>8, <2>5
    <2>7. ASSUME NEW i \in 1 .. Len(down'), down'[i].last
          PROVE  Due(down'[i].sid, down'[i].event.who, down'[i].event.round)
      <3>1. CASE i \in 1 .. Len(down)
        BY <1>6, <2>7, <3>1 DEF Owed
      <3>2. CASE i = Len(down) + 1
        BY <1>3, <1>6, <2>5, <3>2
      <3> QED BY <1>7, <3>1, <3>2
    <2> QED BY <2>1, <2>2, <2>3, <2>4, <2>6, <2>7, OwedBy
  <1> QED BY <1>9, <1>13, <1>14, <1>15, <1>16, MailWire DEF reqVars, mapVars

-----------------------------------------------------------------------------
(* A frame is framed, on a stream that nothing is owed on.                 *)

\* What comes of the wire when the frame joins it: nothing else is on its
\* stream, and all that is owed, the frame included, is due.
Joined(f) == Once' /\ Apart' /\ Whole' /\ Owed' /\ \A s \in Sids : On(s)' => On(s) \/ s = f.sid

LEMMA JoinsQueue ==
    ASSUME Types, Once, Apart, Whole, Owed, NEW f \in Frame, ~On(f.sid), mstate' = mstate,
           outq' = Append(outq, f), UNCHANGED <<batch, up, server, down>>, Later(f.sid, f.who, f.round),
           \A s \in Sids : \A who, num : On(s) /\ Due(s, who, num) => Later(s, who, num)
    PROVE  Joined(f)
  <1>1. /\ Len(outq') = Len(outq) + 1 /\ Len(outq) \in Nat
        /\ outq'[Len(outq) + 1] = f /\ \A i \in 1 .. Len(outq) : outq'[i] = outq[i]
    BY AppendAt DEF Types, SendType
  <1>2. \A i \in 1 .. Len(outq') : i \in 1 .. Len(outq) \/ i = Len(outq) + 1
    BY <1>1
  <1>3. f.sid \in Sids
    BY DEF Frame
  <1>4. \A s \in Sids : /\ InQueue(s)' => InQueue(s) \/ s = f.sid
                        /\ InHand(s)' <=> InHand(s)
                        /\ GoingUp(s)' <=> GoingUp(s)
                        /\ Served(s)' <=> Served(s)
                        /\ ComingDown(s)' <=> ComingDown(s)
    BY <1>1, <1>2 DEF InQueue, InHand, GoingUp, Served, ComingDown
  <1>5. Apart' /\ \A s \in Sids : On(s)' => On(s) \/ s = f.sid
    BY <1>4 DEF Apart, On
  <1>6. Whole'
    BY DEF Whole
  <1>7. \A i \in 1 .. Len(outq) : outq[i].sid # f.sid
    BY DEF On, InQueue
  <1>8. Once'
    <2>1. \A i, j \in 1 .. Len(outq') : outq'[i].sid = outq'[j].sid => i = j
      BY <1>1, <1>2, <1>7 DEF Once
    <2> QED BY <2>1 DEF Once
  <1>9. Owed'
    <2> SUFFICES ASSUME mstate = "READY" PROVE Owed'
      BY DEF Owed
    <2>1. ASSUME NEW i \in 1 .. Len(outq') PROVE Later(outq'[i].sid, outq'[i].who, outq'[i].round)
      <3>1. CASE i \in 1 .. Len(outq)
        <4>1. On(outq[i].sid) /\ outq[i].sid \in Sids /\ Due(outq[i].sid, outq[i].who, outq[i].round)
          BY <3>1, OnTheWay DEF On, InQueue, Owed
        <4> QED BY <1>1, <3>1, <4>1
      <3>2. CASE i = Len(outq) + 1
        BY <1>1, <3>2
      <3> QED BY <1>2, <3>1, <3>2
    <2>2. ASSUME NEW t \in Threads, NEW i \in 1 .. Len(batch[t])
          PROVE  Later(batch[t][i].sid, batch[t][i].who, batch[t][i].round)
      BY OnTheWay DEF On, InHand, Owed
    <2>3. ASSUME NEW i \in 1 .. Len(up), up[i].last PROVE Later(up[i].frame.sid, up[i].frame.who, up[i].frame.round)
      BY <2>3, OnTheWay DEF On, GoingUp, Owed
    <2>4. ASSUME server.left > 0 PROVE Later(server.frame.sid, server.frame.who, server.frame.round)
      BY <2>4, ServerHas DEF On, Served, Owed
    <2>5. ASSUME NEW i \in 1 .. Len(down), down[i].last
          PROVE  Later(down[i].sid, down[i].event.who, down[i].event.round)
      BY <2>5, OnTheWay DEF On, ComingDown, Owed
    <2> QED BY <2>1, <2>2, <2>3, <2>4, <2>5, OwedLater
  <1> QED BY <1>5, <1>6, <1>8, <1>9 DEF Joined

LEMMA JoinsHand ==
    ASSUME Types, Once, Apart, Whole, Owed, NEW f \in Frame, ~On(f.sid), mstate' = mstate, NEW t \in Threads,
           NEW q, q = Append(outq, f), batch'[t] = q, \A u \in Threads \ {t} : batch'[u] = <<>>, outq' = <<>>,
           UNCHANGED <<up, server, down>>, Later(f.sid, f.who, f.round), \A u \in Threads : batch[u] = <<>>,
           \A s \in Sids : \A who, num : On(s) /\ Due(s, who, num) => Later(s, who, num)
    PROVE  Joined(f)
  <1>1. /\ Len(q) = Len(outq) + 1 /\ Len(outq) \in Nat
        /\ q[Len(outq) + 1] = f /\ \A i \in 1 .. Len(outq) : q[i] = outq[i]
    BY AppendAt DEF Types, SendType
  <1>2. \A i \in 1 .. Len(q) : i \in 1 .. Len(outq) \/ i = Len(outq) + 1
    BY <1>1
  <1>3. f.sid \in Sids
    BY DEF Frame
  <1>4. \A s \in Sids : InHand(s)' => InQueue(s) \/ s = f.sid
    <2> SUFFICES ASSUME NEW s \in Sids, InHand(s)' PROVE InQueue(s) \/ s = f.sid
      OBVIOUS
    <2>1. PICK i \in 1 .. Len(q) : q[i].sid = s
      BY DEF InHand
    <2> QED BY <1>1, <1>2, <2>1 DEF InQueue
  <1>5. \A s \in Sids : /\ ~InQueue(s)'
                        /\ GoingUp(s)' <=> GoingUp(s)
                        /\ Served(s)' <=> Served(s)
                        /\ ComingDown(s)' <=> ComingDown(s)
    BY DEF InQueue, GoingUp, Served, ComingDown
  <1>6. Apart' /\ \A s \in Sids : On(s)' => On(s) \/ s = f.sid
    BY <1>4, <1>5 DEF Apart, On
  <1>7. Whole'
    BY DEF Whole
  <1>8. \A i \in 1 .. Len(outq) : outq[i].sid # f.sid
    BY DEF On, InQueue
  <1>9. Once'
    <2>1. \A i, j \in 1 .. Len(q) : q[i].sid = q[j].sid => i = j
      BY <1>1, <1>2, <1>8 DEF Once
    <2>2. \A u \in Threads : \A i, j \in 1 .. Len(batch'[u]) : batch'[u][i].sid = batch'[u][j].sid => i = j
      BY <2>1
    <2> QED BY <2>2 DEF Once
  <1>10. Owed'
    <2> SUFFICES ASSUME mstate = "READY" PROVE Owed'
      BY DEF Owed
    <2>1. ASSUME NEW i \in 1 .. Len(q) PROVE Later(q[i].sid, q[i].who, q[i].round)
      <3>1. CASE i \in 1 .. Len(outq)
        <4>1. On(outq[i].sid) /\ outq[i].sid \in Sids /\ Due(outq[i].sid, outq[i].who, outq[i].round)
          BY <3>1, OnTheWay DEF On, InQueue, Owed
        <4> QED BY <1>1, <3>1, <4>1
      <3>2. CASE i = Len(outq) + 1
        BY <1>1, <3>2
      <3> QED BY <1>2, <3>1, <3>2
    <2>2. ASSUME NEW u \in Threads, NEW i \in 1 .. Len(batch'[u])
          PROVE  Later(batch'[u][i].sid, batch'[u][i].who, batch'[u][i].round)
      BY <2>1
    <2>3. ASSUME NEW i \in 1 .. Len(up), up[i].last PROVE Later(up[i].frame.sid, up[i].frame.who, up[i].frame.round)
      BY <2>3, OnTheWay DEF On, GoingUp, Owed
    <2>4. ASSUME server.left > 0 PROVE Later(server.frame.sid, server.frame.who, server.frame.round)
      BY <2>4, ServerHas DEF On, Served, Owed
    <2>5. ASSUME NEW i \in 1 .. Len(down), down[i].last
          PROVE  Later(down[i].sid, down[i].event.who, down[i].event.round)
      BY <2>5, OnTheWay DEF On, ComingDown, Owed
    <2> QED BY <2>2, <2>3, <2>4, <2>5, OwedLater
  <1> QED BY <1>6, <1>7, <1>9, <1>10 DEF Joined

\* The request it is for has its stream and an empty mailbox.
LEMMA MailQueued ==
    ASSUME ReaderInv, MailInv, NEW t \in Threads, NEW f \in Frame, Joined(f), f.sid \in Sids,
           pc'[t] \in {"queue", "drain"}, then'[t] = "await",
           \A u \in Threads \ {t} : pc'[u] = pc[u] /\ then'[u] = then[u] /\ round'[u] = round[u] /\ sid'[u] = sid[u]
                                    /\ box'[u] = box[u] /\ told'[u] = told[u],
           sid'[t] = f.sid, box'[t] = <<>>, told'[t].kind # "ok" \/ (told'[t] = told[t] /\ round'[t] = round[t]),
           pending'[f.sid] = t, inbox'[f.sid] = t,
           \A s \in Sids \ {f.sid} : pending'[s] = pending[s] /\ inbox'[s] = inbox[s] /\ pending[s] # t,
           pending[f.sid] \in {NoThread, t}, f.sid \notin retired, UNCHANGED <<retired, mstate>>, bulkOwner' = NoThread
    PROVE  MailInv'
  <1> USE DEF ReaderInv, MailInv
  <1>1. Active(t)' /\ ~Has(t)' /\ ~Waited(t)' /\ \A u \in Threads \ {t} :
          /\ Active(u)' <=> Active(u)
          /\ Has(u)' <=> Has(u)
          /\ Waited(u)' <=> Waited(u)
          /\ Final(u)' <=> Final(u)
          /\ OnlyFailed(u)' <=> OnlyFailed(u)
    BY DEF Active, Has, Waited, Final, OnlyFailed
  <1>2. Boxed'
    BY <1>1 DEF Boxed
  <1>3. RightMail'
    BY DEF RightMail
  <1>4. t # NoThread
    BY DriverAssumption
  <1>5. Filed'
    <2>1. ASSUME NEW s \in Sids, pending'[s] # NoThread
          PROVE  inbox'[s] = pending'[s] /\ sid'[pending'[s]] = s /\ \A u \in Threads : pending'[s] = u => Active(u)'
      <3>1. CASE s = f.sid
        BY <1>1, <3>1
      <3>2. CASE s # f.sid
        <4>1. pending[s] \in Threads \ {t} /\ pending'[s] = pending[s] /\ inbox'[s] = pending[s]
          BY <2>1, <3>2 DEF Filed, Types, MapType
        <4>2. sid[pending[s]] = s /\ Active(pending[s])
          BY <2>1, <4>1 DEF Filed
        <4> QED BY <1>1, <4>1, <4>2
      <3> QED BY <3>1, <3>2
    <2>2. \A s \in Sids : pending'[s] # NoThread => pending'[s] \in Threads
      BY DEF Types, MapType
    <2>3. \A s \in retired' : pending'[s] = NoThread
      BY DEF Filed, Types, MapType
    <2>4. ASSUME mstate' = "READY", NEW u \in Threads, Active(u)', ~Final(u)'
          PROVE  inbox'[sid'[u]] = u /\ pending'[sid'[u]] = u
      <3>1. CASE u = t
        BY <3>1
      <3>2. CASE u # t
        <4>1. inbox[sid[u]] = u /\ pending[sid[u]] = u /\ sid[u] \in Sids /\ sid'[u] = sid[u]
          BY <1>1, <2>4, <3>2 DEF Filed, Types, Begun
        <4>2. sid[u] # f.sid
          BY <3>2, <4>1, DriverAssumption
        <4> QED BY <4>1, <4>2
      <3> QED BY <3>1, <3>2
    <2>5. \A s \in Sids : pending'[s] # NoThread => Active(pending[s])'
      <3> SUFFICES ASSUME NEW s \in Sids, pending'[s] # NoThread PROVE Active(pending[s])'
        OBVIOUS
      <3>1. PICK u \in Threads : pending'[s] = u
        BY <2>2
      <3>2. Active(u)'
        BY <2>1, <3>1
      <3> QED BY <3>1, <3>2 DEF Active
    <2> QED BY <2>1, <2>3, <2>4, <2>5 DEF Filed
  <1>6. Quiet'
    <2> SUFFICES ASSUME NEW u \in Threads, Active(u)', Waited(u)', pending'[sid'[u]] = u PROVE ~On(sid[u])'
      BY DEF Quiet
    <2>1. u # t /\ Waited(u) /\ Active(u) /\ sid'[u] = sid[u] /\ sid[u] \in Sids
      BY <1>1 DEF Types, Begun
    <2>2. sid[u] # f.sid /\ pending[sid[u]] = u
      BY <2>1
    <2>3. ~On(sid[u])
      BY <2>1, <2>2 DEF Quiet
    <2>4. PICK s \in Sids : ~On(s) /\ s # f.sid /\ sid'[u] = s
      BY <2>1, <2>2, <2>3
    <2>5. ~On(s)'
      BY <2>4 DEF Joined
    <2> QED BY <2>4, <2>5, QuietAt
  <1>7. Lent'
    BY DEF Lent
  <1> QED BY <1>2, <1>3, <1>5, <1>6, <1>7 DEF Joined

LEMMA MailStarted == ASSUME ReaderInv, MailInv, NEW t \in Threads, Start(t) PROVE MailInv'
  <1> USE DEF ReaderInv, MailInv
  <1>1. PICK s \in FreeSids, size \in ReqSizes, reply \in ReplySizes :
          /\ sid' = [sid EXCEPT ![t] = s] /\ inbox' = [inbox EXCEPT ![s] = t] /\ pending' = [pending EXCEPT ![s] = t]
          /\ Queued(t, NewFrame(t, s, size, reply))
    BY DEF Start
  <1>2. PICK f \in Frame : f = NewFrame(t, s, size, reply)
    <2>1. NewFrame(t, s, size, reply) \in Frame
      BY DriverAssumption DEF NewFrame, Frame, FreeSids, Types, ReqType, SendType
    <2> QED BY <2>1
  <1>3. f.sid = s /\ f.who = t /\ f.round = begun + 1 /\ s \in Sids
    BY <1>2 DEF NewFrame, FreeSids
  <1>4. Queued(t, f)
    BY <1>1, <1>2
  <1>5. pc[t] = "idle" /\ mstate = "READY" /\ UNCHANGED <<mstate, up, server, down, retired>>
    BY DEF Start, envVars, linkVars
  <1>6. bulkOwner' = NoThread
    BY DEF Start, roleVars
  <1>7. pending[s] = NoThread /\ s \notin retired
    BY DEF FreeSids
  <1>8. \A who, num : ~Due(s, who, num)
    BY <1>7 DEF Due
  <1>9. ~On(f.sid)
    BY <1>3, <1>5, <1>8 DEF On, InQueue, InHand, GoingUp, Served, ComingDown, Owed
  <1>10. sid'[t] = s /\ inbox'[s] = t /\ pending'[s] = t
    BY <1>1, <1>3 DEF Types, ReqType, MapType
  <1>11. \A x \in Sids \ {s} : inbox'[x] = inbox[x] /\ pending'[x] = pending[x]
    BY <1>1 DEF Types, MapType
  <1>12. \A x \in Sids : pending[x] # t
    BY <1>5, DriverAssumption DEF Filed, Active
  <1>13. /\ then'[t] = "await" /\ round'[t] = begun + 1 /\ box'[t] = <<>> /\ told'[t] = Told("nothing")
         /\ \A u \in Threads \ {t} : then'[u] = then[u] /\ round'[u] = round[u] /\ box'[u] = box[u] /\ told'[u] = told[u]
    BY DEF Start, Types, ReqType
  <1>14. \A u \in Threads \ {t} : sid'[u] = sid[u]
    BY <1>1 DEF Types, ReqType
  <1>15. pc'[t] \in {"queue", "drain"} /\ \A u \in Threads \ {t} : pc'[u] = pc[u]
    BY <1>4 DEF Queued, Types, ReqType
  <1>16. Later(f.sid, f.who, f.round)
    BY <1>3, <1>10, <1>13, DriverAssumption DEF Later
  <1>17. ASSUME NEW x \in Sids, NEW who, NEW num, On(x), Due(x, who, num) PROVE Later(x, who, num)
    <2>1. x # s
      BY <1>3, <1>9, <1>17
    <2>2. pending'[x] = pending[x] /\ (x \in retired' <=> x \in retired)
      BY <1>5, <1>11, <2>1
    <2>3. CASE pending[x] = NoThread
      BY <1>17, <2>2, <2>3 DEF Due, Later
    <2>4. CASE pending[x] # NoThread
      <3>1. pending[x] \in Threads \ {t} /\ who = pending[x] /\ round[who] = num
        BY <1>12, <1>17, <2>4 DEF Due, Types, MapType
      <3>2. round'[who] = round[who]
        BY <1>13, <3>1
      <3> QED BY <2>2, <2>4, <3>1, <3>2 DEF Later
    <2> QED BY <2>3, <2>4
  <1>18. Joined(f)
    <2>1. CASE sendLock # NoThread
      <3>1. outq' = Append(outq, f) /\ UNCHANGED batch
        BY <1>4, <2>1 DEF Queued
      <3> QED BY <1>5, <1>9, <1>16, <1>17, <3>1, JoinsQueue
    <2>2. CASE sendLock = NoThread
      <3>1. outq' = <<>> /\ batch' = [batch EXCEPT ![t] = Append(outq, f)]
        BY <1>4, <2>2 DEF Queued
      <3>2. \A u \in Threads : batch[u] = <<>>
        BY <2>2, DriverAssumption DEF Roles, LockHeld
      <3>3. batch'[t] = Append(outq, f) /\ \A u \in Threads \ {t} : batch'[u] = <<>>
        BY <3>1, <3>2 DEF Types, SendType
      <3> QED BY <1>5, <1>9, <1>16, <1>17, <3>1, <3>2, <3>3, JoinsHand
    <2> QED BY <2>1, <2>2
  <1>19. told'[t].kind # "ok"
    BY <1>13 DEF Told
  <1> QED BY <1>3, <1>5, <1>6, <1>7, <1>10, <1>11, <1>12, <1>13, <1>14, <1>15, <1>18, <1>19, MailQueued

\* The request is sent again, now that its wait is over.
Again(t) ==
    /\ pc[t] = "sitout" /\ box[t] = <<>> /\ mstate = "READY"
    /\ outq' = Append(outq, [who |-> t, round |-> round[t], sid |-> sid[t], num |-> framed + 1, size |-> 1, reply |-> 1])
    /\ pc' = [pc EXCEPT ![t] = "queue"] /\ then' = [then EXCEPT ![t] = "await"]
    /\ UNCHANGED <<round, sid, box, told, mapVars, batch, envVars, roleVars, linkVars>>

LEMMA MailAgain == ASSUME ReaderInv, MailInv, NEW t \in Threads, Again(t) PROVE MailInv'
  <1> USE DEF ReaderInv, MailInv
  <1>1. Active(t) /\ ~Final(t) /\ Waited(t) /\ sid[t] \in Sids
    <2>1. Active(t) /\ Waited(t)
      BY DEF Again, Active, Waited
    <2>2. ~Final(t)
      BY DEF Again, Final
    <2> QED BY <2>1, <2>2 DEF Types, Begun
  <1>2. inbox[sid[t]] = t /\ pending[sid[t]] = t
    BY <1>1 DEF Again, Filed
  <1>3. ~On(sid[t])
    BY <1>1, <1>2 DEF Quiet
  <1>4. PICK f \in Frame :
          f = [who |-> t, round |-> round[t], sid |-> sid[t], num |-> framed + 1, size |-> 1, reply |-> 1]
    <2>1. [who |-> t, round |-> round[t], sid |-> sid[t], num |-> framed + 1, size |-> 1, reply |-> 1] \in Frame
      BY <1>1 DEF Frame, Types, ReqType, SendType
    <2> QED BY <2>1
  <1>5. f.sid = sid[t] /\ f.who = t /\ f.round = round[t] /\ ~On(f.sid)
    BY <1>3, <1>4
  <1>6. outq' = Append(outq, f) /\ UNCHANGED <<batch, up, server, down, mstate>>
    BY <1>4 DEF Again, envVars, linkVars
  <1>7. UNCHANGED <<round, sid, box, told, inbox, pending, retired, bulkOwner>>
    BY DEF Again, mapVars, roleVars
  <1>8. \A s, who, num : Due(s, who, num) => Later(s, who, num)
    BY <1>7 DEF Due, Later
  <1>9. Later(f.sid, f.who, f.round)
    BY <1>2, <1>5, <1>7, DriverAssumption DEF Later
  <1>10. Joined(f)
    BY <1>5, <1>6, <1>8, <1>9, JoinsQueue
  <1>11. \A s \in Sids \ {f.sid} : pending[s] # t
    BY <1>5, DriverAssumption DEF Filed
  <1>12. bulkOwner = NoThread /\ f.sid \notin retired
    BY <1>1, <1>2, <1>5, DriverAssumption DEF Lent, Filed, Again
  <1>13. /\ pc'[t] = "queue" /\ then'[t] = "await" /\ box[t] = <<>>
         /\ \A u \in Threads \ {t} : pc'[u] = pc[u] /\ then'[u] = then[u]
    BY DEF Again, Types, ReqType
  <1> QED BY <1>1, <1>2, <1>5, <1>6, <1>7, <1>10, <1>11, <1>12, <1>13, MailQueued

-----------------------------------------------------------------------------
(* A piece of a reply is read.                                             *)

LEMMA WireReceived ==
    ASSUME Types, Once, Apart, Whole, down # <<>>, down' = Tail(down), UNCHANGED <<outq, batch, up, server>>
    PROVE  /\ Once' /\ Apart' /\ Whole' /\ \A s \in Sids : On(s)' => On(s)
           /\ \A s \in Sids : down[1].last /\ down[1].sid = s => On(s) /\ ~On(s)'
  <1>1. /\ Len(down') = Len(down) - 1 /\ Len(down) \in Nat \ {0} /\ down[1] \in Reply
        /\ \A i \in 1 .. Len(down') : down'[i] = down[i + 1] /\ i + 1 \in 1 .. Len(down)
    BY TailAt DEF Types, EnvType
  <1>2. 1 \in 1 .. Len(down) /\ \A i \in 1 .. Len(down') : i + 1 # 1 /\ i \in Int
    BY <1>1
  <1>3. \A s \in Sids : /\ InQueue(s)' <=> InQueue(s)
                        /\ InHand(s)' <=> InHand(s)
                        /\ GoingUp(s)' <=> GoingUp(s)
                        /\ Served(s)' <=> Served(s)
    BY DEF InQueue, InHand, GoingUp, Served
  <1>4. \A s \in Sids : ComingDown(s)' => ComingDown(s) /\ ~(down[1].last /\ down[1].sid = s)
    <2> SUFFICES ASSUME NEW s \in Sids, ComingDown(s)' PROVE ComingDown(s) /\ ~(down[1].last /\ down[1].sid = s)
      OBVIOUS
    <2>1. PICK i \in 1 .. Len(down') : down'[i].last /\ down'[i].sid = s
      BY DEF ComingDown
    <2>2. i + 1 \in 1 .. Len(down) /\ down[i + 1].last /\ down[i + 1].sid = s
      BY <1>1, <2>1
    <2>3. ComingDown(s)
      BY <2>2 DEF ComingDown
    <2>4. ASSUME down[1].last, down[1].sid = s PROVE FALSE
      <3>1. i + 1 = 1
        BY <1>2, <2>2, <2>4 DEF Once
      <3> QED BY <1>2, <3>1
    <2> QED BY <2>3, <2>4
  <1>5. \A s \in Sids : down[1].last /\ down[1].sid = s => ComingDown(s)
    BY <1>2 DEF ComingDown
  <1>6. Apart' /\ \A s \in Sids : On(s)' => On(s)
    BY <1>3, <1>4 DEF Apart, On
  <1>7. \A s \in Sids : down[1].last /\ down[1].sid = s => On(s) /\ ~On(s)'
    BY <1>3, <1>4, <1>5 DEF Apart, On
  <1>8. Whole'
    <2> SUFFICES ASSUME down' # <<>>, ~down'[Len(down')].last PROVE server'.left > 0
      BY DEF Whole
    <2>1. down' \in Seq(Reply) /\ Len(down') \in Nat \ {0}
      BY <1>1, TailAt DEF Types, EnvType
    <2>2. Len(down') \in 1 .. Len(down') /\ Len(down') + 1 = Len(down)
      BY <1>1, <2>1
    <2>3. down'[Len(down')] = down[Len(down)]
      BY <1>1, <2>2
    <2> QED BY <2>3 DEF Whole
  <1>9. Once'
    <2>1. ASSUME NEW i \in 1 .. Len(down'), NEW j \in 1 .. Len(down'), down'[i].last, down'[j].last,
                 down'[i].sid = down'[j].sid
          PROVE  i = j
      <3>1. /\ i + 1 \in 1 .. Len(down) /\ j + 1 \in 1 .. Len(down)
            /\ down'[i] = down[i + 1] /\ down'[j] = down[j + 1]
        BY <1>1
      <3>2. down[i + 1].last /\ down[j + 1].last /\ down[i + 1].sid = down[j + 1].sid
        BY <2>1, <3>1
      <3>3. i + 1 = j + 1
        BY <3>1, <3>2 DEF Once
      <3> QED BY <1>2, <3>3
    <2> QED BY <2>1 DEF Once
  <1> QED BY <1>6, <1>7, <1>8, <1>9

LEMMA OwedReceived ==
    ASSUME Types, Once, Apart, Whole, Owed, down # <<>>, down' = Tail(down), UNCHANGED <<outq, batch, up, server, mstate>>,
           \A s \in Sids : \A who, num : ~(down[1].last /\ down[1].sid = s) /\ Due(s, who, num) => Later(s, who, num)
    PROVE  Owed'
  <1> SUFFICES ASSUME mstate = "READY" PROVE Owed'
    BY DEF Owed
  <1>1. \A s \in Sids : On(s)' => ~(down[1].last /\ down[1].sid = s)
    BY WireReceived
  <1>2. /\ \A i \in 1 .. Len(down') : down'[i] = down[i + 1] /\ i + 1 \in 1 .. Len(down)
    BY TailAt DEF Types, EnvType
  <1>3. ASSUME NEW i \in 1 .. Len(outq) PROVE Later(outq[i].sid, outq[i].who, outq[i].round)
    <2>1. outq[i].sid \in Sids /\ Due(outq[i].sid, outq[i].who, outq[i].round)
      BY OnTheWay DEF Owed
    <2>2. PICK s \in Sids : s = outq[i].sid
      BY <2>1
    <2>3. On(s)'
      BY <2>2 DEF On, InQueue
    <2> QED BY <1>1, <2>1, <2>2, <2>3
  <1>4. ASSUME NEW t \in Threads, NEW i \in 1 .. Len(batch[t])
        PROVE  Later(batch[t][i].sid, batch[t][i].who, batch[t][i].round)
    <2>1. batch[t][i].sid \in Sids /\ Due(batch[t][i].sid, batch[t][i].who, batch[t][i].round)
      BY OnTheWay DEF Owed
    <2>2. PICK s \in Sids : s = batch[t][i].sid
      BY <2>1
    <2>3. On(s)'
      BY <2>2 DEF On, InHand
    <2> QED BY <1>1, <2>1, <2>2, <2>3
  <1>5. ASSUME NEW i \in 1 .. Len(up), up[i].last PROVE Later(up[i].frame.sid, up[i].frame.who, up[i].frame.round)
    <2>1. up[i].frame.sid \in Sids /\ Due(up[i].frame.sid, up[i].frame.who, up[i].frame.round)
      BY <1>5, OnTheWay DEF Owed
    <2>2. PICK s \in Sids : s = up[i].frame.sid
      BY <2>1
    <2>3. On(s)'
      BY <1>5, <2>2 DEF On, GoingUp
    <2> QED BY <1>1, <2>1, <2>2, <2>3
  <1>6. ASSUME server.left > 0 PROVE Later(server.frame.sid, server.frame.who, server.frame.round)
    <2>1. server.frame.sid \in Sids /\ Due(server.frame.sid, server.frame.who, server.frame.round)
      BY <1>6, ServerHas DEF Owed
    <2>2. PICK s \in Sids : s = server.frame.sid
      BY <2>1
    <2>3. On(s)'
      BY <1>6, <2>2 DEF On, Served
    <2> QED BY <1>1, <2>1, <2>2, <2>3
  <1>7. ASSUME NEW i \in 1 .. Len(down'), down'[i].last
        PROVE  Later(down'[i].sid, down'[i].event.who, down'[i].event.round)
    <2>1. down'[i].sid \in Sids /\ Due(down'[i].sid, down'[i].event.who, down'[i].event.round)
      BY <1>2, <1>7, OnTheWay DEF Owed
    <2>2. PICK s \in Sids : s = down'[i].sid
      BY <2>1
    <2>3. On(s)'
      BY <1>7, <2>2 DEF On, ComingDown
    <2> QED BY <1>1, <2>1, <2>2, <2>3
  <1> QED BY <1>3, <1>4, <1>5, <1>6, <1>7, OwedLater

\* The reader reads on, or wakes the others, or lets go to look at its mail.
LEMMA ReceiveMoves ==
    ASSUME ReaderInv, NEW t \in Threads, Receive(t)
    PROVE  /\ \A x \in Threads : /\ Active(x)' <=> Active(x)
                                 /\ Has(x)' => Has(x)
                                 /\ pc'[x] \in {"idle", "turn"} => pc[x] \in {"idle", "turn"}
                                 /\ pc'[x] = "parked" => pc[x] = "parked"
                                 /\ pc'[x] = "sitout" => pc[x] = "sitout"
           /\ box'[t] # <<>> => pc'[t] = "await"
           /\ down[1].last /\ pending[down[1].sid] # NoThread => \A x \in Threads : pc'[x] # "parked"
  <1> USE DEF ReaderInv, Types
  <1> DEFINE p == Head(down)
             to == IF p.last THEN pending[p.sid] ELSE NoThread
             got == IF to = NoThread THEN box ELSE [box EXCEPT ![inbox[p.sid]] = Append(@, p.event)]
  <1>1. box' = got /\ p = down[1]
    BY TailAt DEF Receive, EnvType
  <1>2. pc[t] = "reading" /\ then[t] = "reading" /\ UNCHANGED then /\ pc \in [Threads -> Places]
    BY DEF Receive, Roles, Bound, ReqType
  <1>3. CASE got[t] # <<>>
    <2>1. Wakes(t, "await")
      BY <1>3, WakesBy DEF Receive, Places
    <2> HIDE DEF p, to, got
    <2> QED BY <1>1, <1>2, <2>1 DEF Wakes, Active, Has
  <1>4. CASE got[t] = <<>>
    <2>1. ReaderAt(outq) \in {"queue", "reading"}
      BY DEF ReaderAt
    <2>2. CASE to = NoThread
      <3>1. pc' = [pc EXCEPT ![t] = ReaderAt(outq)]
        BY <1>4, <2>2 DEF Receive
      <3>2. Moves(t, ReaderAt(outq))
        BY <2>1, <3>1, MovesBy DEF Places
      <3>3. ~(down[1].last /\ pending[down[1].sid] # NoThread)
        BY <1>1, <2>2
      <3> HIDE DEF p, to, got
      <3> QED BY <1>1, <1>2, <1>4, <2>1, <3>2, <3>3 DEF Moves, Active, Has
    <2>3. CASE to # NoThread
      <3>1. pc' = Woken([pc EXCEPT ![t] = ReaderAt(outq)])
        BY <1>4, <2>3 DEF Receive, Route
      <3>2. Wakes(t, ReaderAt(outq))
        BY <2>1, <3>1, WakesBy DEF Places
      <3> HIDE DEF p, to, got
      <3> QED BY <1>1, <1>2, <1>4, <2>1, <3>2 DEF Wakes, Active, Has
    <2> QED BY <2>2, <2>3
  <1> QED BY <1>3, <1>4

\* Nothing is filed: more of the reply is to come, or nobody is on its stream.
LEMMA MailUnfiled ==
    ASSUME ReaderInv, MailInv, NEW t \in Threads, Receive(t), box' = box, pending' = pending,
           retired' \subseteq retired, \A s \in Sids : ~(down[1].last /\ down[1].sid = s) => (s \in retired' <=> s \in retired)
    PROVE  MailInv'
  <1> USE DEF ReaderInv, MailInv
  <1>1. down # <<>> /\ down' = Tail(down) /\ UNCHANGED <<outq, batch, up, server, mstate, round, sid, told, inbox, bulkOwner>>
    BY DEF Receive, sendVars
  <1>2. Once' /\ Apart' /\ Whole' /\ \A s \in Sids : On(s)' => On(s)
    BY <1>1, WireReceived
  <1>3. Owed'
    <2>1. \A s \in Sids : \A who, num : ~(down[1].last /\ down[1].sid = s) /\ Due(s, who, num) => Later(s, who, num)
      BY <1>1 DEF Due, Later
    <2> QED BY <1>1, <2>1, OwedReceived
  <1>4. \A x \in Threads : /\ Active(x)' <=> Active(x)
                           /\ Has(x)' => Has(x)
                           /\ pc'[x] \in {"idle", "turn"} => pc[x] \in {"idle", "turn"}
                           /\ pc'[x] = "parked" => pc[x] = "parked"
                           /\ pc'[x] = "sitout" => pc[x] = "sitout"
    BY ReceiveMoves
  <1>5. \A x \in Threads : (Final(x)' <=> Final(x)) /\ (OnlyFailed(x)' <=> OnlyFailed(x))
    BY DEF Final, OnlyFailed
  <1>6. Boxed'
    BY <1>1, <1>4, <1>5 DEF Boxed
  <1>7. RightMail'
    BY <1>1 DEF RightMail
  <1>8. Filed'
    BY <1>1, <1>4, <1>5 DEF Filed, Types, MapType
  <1>9. Quiet'
    <2> SUFFICES ASSUME NEW x \in Threads, Active(x)', Waited(x)', pending[sid[x]] = x PROVE ~On(sid[x])'
      BY <1>1 DEF Quiet
    <2>1. Waited(x) /\ Active(x) /\ sid[x] \in Sids
      BY <1>1, <1>4 DEF Waited, Types, Begun
    <2>2. PICK s \in Sids : s = sid[x] /\ ~On(s) /\ sid'[x] = s
      BY <1>1, <2>1 DEF Quiet
    <2>3. ~On(s)'
      BY <1>2, <2>2
    <2> QED BY <2>2, <2>3, QuietAt
  <1>10. Lent'
    BY <1>1 DEF Lent
  <1> QED BY <1>2, <1>3, <1>6, <1>7, <1>8, <1>9, <1>10

\* The last piece of an answer, filed with whoever has the stream.
LEMMA MailFiled ==
    ASSUME ReaderInv, MailInv, NEW t \in Threads, Receive(t), down[1].last, NEW s \in Sids, s = down[1].sid,
           NEW u \in Threads, u = pending[s]
    PROVE  MailInv'
  <1> USE DEF ReaderInv, MailInv
  <1> DEFINE e == down[1].event
  <1>1. down # <<>> /\ down' = Tail(down) /\ UNCHANGED <<outq, batch, up, server, mstate, round, sid, told, inbox, bulkOwner>>
    BY DEF Receive, sendVars
  <1>2. Head(down) = down[1] /\ e \in Answer /\ Len(down) \in Nat \ {0} /\ mstate = "READY" /\ pc[t] = "reading"
    <2>1. Head(down) = down[1] /\ down[1] \in Reply /\ Len(down) \in Nat \ {0}
      BY <1>1, TailAt DEF Types, EnvType
    <2> QED BY <2>1 DEF Reply, Receive
  <1>3. e \in Event /\ e.kind \in {"ok", "wait"}
    BY <1>2 DEF Event, Answer
  <1>4. u # NoThread /\ inbox[s] = u /\ sid[u] = s /\ Active(u) /\ s \notin retired
    BY DriverAssumption DEF Filed
  <1>5. e.who = u /\ e.round = round[u]
    <2>1. Due(s, e.who, e.round)
      BY <1>2 DEF Owed
    <2> QED BY <1>4, <2>1 DEF Due
  <1>6. box' = [box EXCEPT ![u] = Append(@, e)]
    BY <1>2, <1>4 DEF Receive
  <1>7. pending' = IF e.kind # "wait" THEN [pending EXCEPT ![s] = NoThread] ELSE pending
    BY <1>2, <1>4 DEF Receive
  <1>8. retired' = retired
    BY <1>2, <1>4 DEF Receive
  <1> HIDE DEF e
  <1>9. \A x \in Threads \ {u} : box'[x] = box[x]
    BY <1>6 DEF Types, ReqType
  <1>10. /\ Len(box'[u]) = Len(box[u]) + 1 /\ Len(box[u]) \in Nat /\ box'[u][Len(box[u]) + 1] = e
         /\ \A i \in 1 .. Len(box[u]) : box'[u][i] = box[u][i]
    <2>1. box[u] \in Seq(Event) /\ box'[u] = Append(box[u], e)
      BY <1>6 DEF Types, ReqType
    <2> HIDE <1>6
    <2> QED BY <1>3, <2>1, AppendAt
  <1>11. \A i \in 1 .. Len(box'[u]) : i \in 1 .. Len(box[u]) \/ i = Len(box[u]) + 1
    BY <1>10
  <1>12. Len(box[u]) + 1 \in 1 .. Len(box'[u]) /\ 1 .. Len(box[u]) \subseteq 1 .. Len(box'[u])
    BY <1>10
  <1>13. /\ \A x \in Sids \ {s} : pending'[x] = pending[x]
         /\ pending'[s] = IF e.kind = "wait" THEN u ELSE NoThread
    BY <1>7 DEF Types, MapType
  <1>14. /\ \A x \in Threads : /\ Active(x)' <=> Active(x)
                               /\ Has(x)' => Has(x)
                               /\ pc'[x] \in {"idle", "turn"} => pc[x] \in {"idle", "turn"}
                               /\ pc'[x] # "parked"
                               /\ pc'[x] = "sitout" => pc[x] = "sitout"
         /\ box'[t] # <<>> => pc'[t] = "await"
    BY <1>4, ReceiveMoves
  <1>15. Once' /\ Apart' /\ Whole' /\ (\A x \in Sids : On(x)' => On(x)) /\ ~On(s)'
    BY <1>1, WireReceived
  <1>16. Owed'
    <2>1. \A x \in Sids : \A who, num : ~(down[1].last /\ down[1].sid = x) /\ Due(x, who, num) => Later(x, who, num)
      BY <1>1, <1>8, <1>13 DEF Due, Later
    <2> QED BY <1>1, <2>1, OwedReceived
  <1>17. \A x \in Threads \ {u} : /\ Final(x)' <=> Final(x)
                                  /\ OnlyFailed(x)' <=> OnlyFailed(x)
                                  /\ Waited(x)' => Waited(x)
    BY <1>9, <1>14 DEF Final, OnlyFailed, Waited
  <1>18. /\ Final(u) => Final(u)'
         /\ e.kind # "wait" => Final(u)'
    <2>1. ASSUME NEW i \in 1 .. Len(box[u]), box[u][i].kind # "wait" PROVE Final(u)'
      <3>1. i \in 1 .. Len(box'[u]) /\ box'[u][i] = box[u][i]
        BY <1>10, <1>12
      <3> QED BY <2>1, <3>1 DEF Final
    <2>2. e.kind # "wait" => Final(u)'
      BY <1>10, <1>12 DEF Final
    <2> QED BY <2>1, <2>2 DEF Final
  <1>19. ~Has(u)' /\ pc'[u] \notin {"idle", "turn"}
    <2>1. CASE u = t
      <3>1. box'[t] # <<>>
        BY <1>10, <2>1
      <3>2. pc'[t] = "await"
        BY <1>14, <3>1
      <3> QED BY <2>1, <3>2 DEF Has
    <2>2. CASE u # t
      <3>1. Has(t)
        BY <1>2 DEF Has
      <3>2. ~Has(u)
        BY <2>2, <3>1 DEF Roles, Role
      <3>3. pc[u] \notin {"idle", "turn"}
        BY <1>4 DEF Active
      <3> QED BY <1>14, <3>2, <3>3
    <2> QED BY <2>1, <2>2
  <1>20. Boxed'
    <2>1. ASSUME NEW i \in 1 .. Len(box'[u])
          PROVE  \/ box'[u][i].kind = "failed"
                 \/ box'[u][i].kind \in {"ok", "wait"} /\ box'[u][i].who = u /\ box'[u][i].round = round[u]
      <3>1. CASE i \in 1 .. Len(box[u])
        <4>1. box'[u][i] = box[u][i]
          BY <1>10, <3>1
        <4>2. \/ box[u][i].kind = "failed"
              \/ box[u][i].kind \in {"ok", "wait"} /\ box[u][i].who = u /\ box[u][i].round = round[u]
          BY <3>1 DEF Boxed
        <4> QED BY <4>1, <4>2
      <3>2. CASE i = Len(box[u]) + 1
        BY <1>3, <1>5, <1>10, <3>2
      <3> QED BY <1>11, <3>1, <3>2
    <2>2. ASSUME NEW x \in Threads, NEW i \in 1 .. Len(box'[x])
          PROVE  \/ box'[x][i].kind = "failed"
                 \/ box'[x][i].kind \in {"ok", "wait"} /\ box'[x][i].who = x /\ box'[x][i].round = round[x]
      BY <1>9, <2>1 DEF Boxed
    <2>3. \A x \in Threads : Has(x)' \/ pc'[x] \in {"idle", "turn"} => OnlyFailed(x)'
      BY <1>14, <1>17, <1>19 DEF Boxed
    <2> QED BY <1>1, <1>14, <2>2, <2>3 DEF Boxed
  <1>21. RightMail'
    BY <1>1 DEF RightMail
  <1>22. \A x \in Sids : pending'[x] # NoThread => pending'[x] = pending[x]
    BY <1>13
  <1>23. Filed'
    <2>1. \A x \in Sids : pending'[x] # NoThread =>
            inbox'[x] = pending'[x] /\ sid'[pending'[x]] = x /\ Active(pending[x])'
      <3> SUFFICES ASSUME NEW x \in Sids, pending'[x] # NoThread
                   PROVE  inbox'[x] = pending'[x] /\ sid'[pending'[x]] = x /\ Active(pending[x])'
        OBVIOUS
      <3>1. PICK y \in Threads : y = pending[x] /\ y = pending'[x]
        BY <1>22 DEF Types, MapType
      <3>2. inbox[x] = y /\ sid[y] = x /\ Active(y)
        BY <3>1, DriverAssumption DEF Filed
      <3>3. Active(y)'
        BY <1>14, <3>2
      <3> QED BY <1>1, <3>1, <3>2, <3>3 DEF Active
    <2>2. \A x \in retired' : pending'[x] = NoThread
      BY <1>4, <1>8, <1>13 DEF Filed, Types, MapType
    <2>3. ASSUME NEW x \in Threads, Active(x)', ~Final(x)'
          PROVE  inbox'[sid'[x]] = x /\ pending'[sid'[x]] = x
      <3>1. inbox[sid[x]] = x /\ pending[sid[x]] = x /\ sid[x] \in Sids
        BY <1>2, <1>14, <1>17, <1>18, <2>3 DEF Filed, Types, Begun
      <3>2. CASE x = u
        BY <1>1, <1>4, <1>13, <1>18, <2>3, <3>1, <3>2
      <3>3. CASE x # u
        BY <1>1, <1>13, <3>1, <3>3
      <3> QED BY <3>2, <3>3
    <2> QED BY <2>1, <2>2, <2>3 DEF Filed
  <1>24. Quiet'
    <2> SUFFICES ASSUME NEW x \in Threads, Active(x)', Waited(x)', pending'[sid'[x]] = x PROVE ~On(sid[x])'
      BY DEF Quiet
    <2>1. PICK y \in Sids : y = sid[x] /\ y = sid'[x]
      BY <1>1, <1>14 DEF Types, Begun
    <2>2. CASE x = u
      <3>1. sid'[x] = s
        BY <1>4, <2>1, <2>2
      <3> QED BY <1>15, <3>1, QuietAt
    <2>3. CASE x # u
      <3>1. pending[sid[x]] = x /\ Waited(x) /\ Active(x)
        BY <1>14, <1>17, <1>22, <2>1, <2>3, DriverAssumption
      <3>2. ~On(y)
        BY <2>1, <3>1 DEF Quiet
      <3>3. ~On(y)'
        BY <1>15, <3>2
      <3> QED BY <2>1, <3>3, QuietAt
    <2> QED BY <2>2, <2>3
  <1>25. Lent'
    BY <1>1, <1>8, <1>22 DEF Lent
  <1> QED BY <1>15, <1>16, <1>20, <1>21, <1>23, <1>24, <1>25

LEMMA MailReceived == ASSUME ReaderInv, MailInv, NEW t \in Threads, Receive(t) PROVE MailInv'
  <1> USE DEF ReaderInv, MailInv
  <1>1. Head(down) = down[1] /\ down[1].sid \in Sids /\ down[1].last \in BOOLEAN
    <2>1. Head(down) = down[1] /\ down[1] \in Reply
      BY TailAt DEF Types, EnvType, Receive
    <2> QED BY <2>1 DEF Reply
  <1>2. CASE ~down[1].last
    BY <1>1, <1>2, MailUnfiled DEF Receive
  <1>3. CASE down[1].last /\ pending[down[1].sid] = NoThread
    BY <1>1, <1>3, MailUnfiled DEF Receive
  <1>4. CASE down[1].last /\ pending[down[1].sid] # NoThread
    <2>1. PICK s \in Sids : s = down[1].sid
      BY <1>1
    <2>2. PICK u \in Threads : u = pending[s]
      BY <1>4, <2>1 DEF Types, MapType
    <2> QED BY <1>4, <2>1, <2>2, MailFiled
  <1> QED BY <1>1, <1>2, <1>3, <1>4

-----------------------------------------------------------------------------
(* The other steps, and the theorems.                                      *)

LEMMA FailingGrows ==
    ASSUME Types, NEW own, NEW u \in Threads
    PROVE  Failing(own)[u] \in {box[u], Append(box[u], Told("failed"))}
  BY DEF Failing

\* One thread moves on, the others stay or wake, and no request ends.
LEMMA MailMoves ==
    ASSUME ReaderInv, MailInv, NEW t \in Threads, NEW place, (Moves(t, place) /\ box' = box) \/ Wakes(t, place),
           \A u \in Threads : Grown(u), \A u \in Threads \ {t} : then'[u] = then[u],
           Active(t)' <=> Active(t), Has(t)' \/ place \in {"idle", "turn"} => OnlyFailed(t),
           place = "parked" => box'[t] = <<>>, place = "sitout" => pc[t] = "sitout",
           UNCHANGED <<round, sid, told, inbox, pending, retired>>, WireKept,
           mstate' \in {mstate, "CLOSED"}, bulkOwner' \in {bulkOwner, NoThread}
    PROVE  MailInv'
  <1>1. \A u \in Threads \ {t} : (Active(u)' <=> Active(u)) /\ (Has(u)' <=> Has(u))
    BY DEF Moves, Wakes, Active, Has
  <1>2. \A u \in Threads : Has(u)' \/ pc'[u] \in {"idle", "turn"} => OnlyFailed(u)
    BY <1>1 DEF Moves, Wakes, MailInv, Boxed
  <1>3. \A u \in Threads : pc'[u] = "parked" => box'[u] = <<>>
    BY DEF Moves, Wakes, MailInv, Boxed
  <1>4. \A u \in Threads : pc'[u] = "sitout" => pc[u] = "sitout"
    BY DEF Moves, Wakes
  <1> QED BY <1>1, <1>2, <1>3, <1>4, MailStays

\* A request ends, and the others stay or wake.
LEMMA MailEnds ==
    ASSUME ReaderInv, MapType', MailInv, NEW t \in Threads, Active(t), GivenUp(t),
           (Moves(t, "idle") /\ \A u \in Threads \ {t} : box'[u] = box[u]) \/ Wakes(t, "idle"),
           \A u \in Threads \ {t} : Grown(u) /\ told'[u] = told[u], OnlyFailed(t)',
           told'[t].kind = "ok" => told'[t].who = t /\ told'[t].round = round[t],
           UNCHANGED <<then, round, sid, mstate, bulkOwner, outq, batch, up, server, down>>
    PROVE  MailInv'
  <1>1. \A u \in Threads \ {t} : (Active(u)' <=> Active(u)) /\ (Has(u)' <=> Has(u))
    BY DEF Moves, Wakes, Active, Has
  <1>2. \A u \in Threads \ {t} : Has(u)' \/ pc'[u] \in {"idle", "turn"} => OnlyFailed(u)
    BY <1>1 DEF Moves, Wakes, MailInv, Boxed
  <1>3. \A u \in Threads \ {t} : pc'[u] = "parked" => box'[u] = <<>>
    BY DEF Moves, Wakes, MailInv, Boxed
  <1>4. \A u \in Threads \ {t} : pc'[u] = "sitout" => pc[u] = "sitout"
    BY DEF Moves, Wakes
  <1>5. pc'[t] = "idle" /\ ~Active(t)'
    BY DEF Moves, Wakes, Active
  <1>6. WireKept
    BY DEF WireKept
  <1> QED BY <1>1, <1>2, <1>3, <1>4, <1>5, <1>6, MailDone

LEMMA NotOk == ASSUME NEW x, x \in {Told("failed"), Told("expired"), Told("nothing")} PROVE x.kind # "ok"
  BY DEF Told

LEMMA MailConsumed == ASSUME ReaderInv, MapType', MailInv, NEW t \in Threads, Consume(t) PROVE MailInv'
  <1> USE DEF ReaderInv, MailInv
  <1>1. /\ box[t] \in Seq(Event) /\ box[t] # <<>> /\ Head(box[t]) = box[t][1] /\ 1 \in 1 .. Len(box[t])
        /\ Len(Tail(box[t])) = Len(box[t]) - 1 /\ Len(box[t]) \in Nat \ {0}
        /\ \A i \in 1 .. Len(Tail(box[t])) : Tail(box[t])[i] = box[t][i + 1] /\ i + 1 \in 1 .. Len(box[t])
    <2>1. box[t] \in Seq(Event) /\ box[t] # <<>>
      BY DEF Consume, Types, ReqType
    <2> QED BY <2>1, TailAt
  <1>2. pc[t] = "await" /\ Active(t) /\ sid[t] \in Sids
    BY DEF Consume, Active, Types, Begun
  <1>3. UNCHANGED <<then, round, sid, mstate, bulkOwner, outq, batch, up, server, down>>
    BY DEF Consume, sendVars, envVars, roleVars, linkVars
  <1>4. CASE box[t][1].kind # "wait"
    <2>1. Moves(t, "idle") /\ Forget(t)
      BY <1>1, <1>4, MovesBy DEF Consume, Places, Types
    <2>2. box'[t] = <<>> /\ told'[t] = box[t][1] /\ \A u \in Threads \ {t} : box'[u] = box[u] /\ told'[u] = told[u]
      BY <1>1, <1>4 DEF Consume, Types, ReqType
    <2>3. GivenUp(t)
      BY <1>2, <2>1, ForgetGivesUp
    <2>4. OnlyFailed(t)'
      BY <2>2 DEF OnlyFailed
    <2>5. told'[t].kind = "ok" => told'[t].who = t /\ told'[t].round = round[t]
      BY <1>1, <2>2 DEF Boxed
    <2> QED BY <1>2, <1>3, <2>1, <2>2, <2>3, <2>4, <2>5, MailEnds DEF Grown
  <1>5. CASE box[t][1].kind = "wait"
    <2>1. Moves(t, "sitout") /\ UNCHANGED <<told, inbox, pending, retired>>
      BY <1>1, <1>5, MovesBy DEF Consume, Places, Types, mapVars
    <2>2. box'[t] = Tail(box[t]) /\ \A u \in Threads \ {t} : box'[u] = box[u]
      BY <1>1, <1>5 DEF Consume, Types, ReqType
    <2>3. \A i \in 1 .. Len(box'[t]) : box'[t][i] = box[t][i + 1] /\ i + 1 \in 1 .. Len(box[t])
      BY <1>1, <2>2
    <2>4. \A u \in Threads : Active(u)' <=> Active(u)
      BY <1>2, <1>3, <2>1 DEF Moves, Active
    <2>5. \A u \in Threads \ {t} : /\ Has(u)' <=> Has(u)
                                   /\ pc'[u] = pc[u]
                                   /\ Final(u)' <=> Final(u)
                                   /\ OnlyFailed(u)' <=> OnlyFailed(u)
                                   /\ Waited(u)' <=> Waited(u)
      BY <1>3, <2>1, <2>2 DEF Moves, Has, Final, OnlyFailed, Waited
    <2>6. ~Has(t)' /\ pc'[t] = "sitout"
      BY <2>1 DEF Moves, Has
    <2>7. Boxed'
      <3>1. ASSUME NEW i \in 1 .. Len(box'[t])
            PROVE  \/ box'[t][i].kind = "failed"
                   \/ box'[t][i].kind \in {"ok", "wait"} /\ box'[t][i].who = t /\ box'[t][i].round = round[t]
        BY <2>3 DEF Boxed
      <3>2. ASSUME NEW u \in Threads \ {t}, NEW i \in 1 .. Len(box'[u])
            PROVE  \/ box'[u][i].kind = "failed"
                   \/ box'[u][i].kind \in {"ok", "wait"} /\ box'[u][i].who = u /\ box'[u][i].round = round[u]
        BY <2>2 DEF Boxed
      <3>3. \A u \in Threads : Has(u)' \/ pc'[u] \in {"idle", "turn"} => OnlyFailed(u)'
        BY <2>5, <2>6 DEF Boxed
      <3>4. \A u \in Threads : pc'[u] = "parked" => box'[u] = <<>>
        BY <2>2, <2>5, <2>6 DEF Boxed
      <3> QED BY <1>3, <3>1, <3>2, <3>3, <3>4 DEF Boxed
    <2>8. RightMail'
      BY <1>3, <2>1 DEF RightMail
    <2>9. Final(t) => Final(t)'
      <3> SUFFICES ASSUME NEW i \in 1 .. Len(box[t]), box[t][i].kind # "wait" PROVE Final(t)'
        BY DEF Final
      <3>1. i # 1
        BY <1>5
      <3>2. i - 1 \in 1 .. Len(box'[t]) /\ (i - 1) + 1 = i
        BY <1>1, <2>2, <3>1
      <3>3. box'[t][i - 1] = box[t][i]
        BY <2>3, <3>2
      <3> QED BY <3>2, <3>3 DEF Final
    <2>10. Filed'
      BY <1>3, <2>1, <2>4, <2>5, <2>9 DEF Filed, Types, MapType
    <2>11. WireKept
      BY <1>3 DEF WireKept
    <2>12. Owed'
      BY <1>3, <2>1, <2>11, OwedStays DEF Due
    <2>13. Once' /\ Apart' /\ Whole' /\ \A s \in Sids : On(s)' => On(s)
      BY <2>11, WireStays
    <2>14. Waited(t)
      BY <1>1, <1>5 DEF Waited
    <2>15. Quiet'
      <3> SUFFICES ASSUME NEW u \in Threads, Active(u)', Waited(u)', pending[sid[u]] = u PROVE ~On(sid[u])'
        BY <1>3, <2>1 DEF Quiet
      <3>1. Waited(u) /\ Active(u) /\ sid[u] \in Sids
        BY <2>4, <2>5, <2>14 DEF Types, Begun
      <3>2. PICK s \in Sids : s = sid[u] /\ ~On(s) /\ sid'[u] = s
        BY <1>3, <3>1 DEF Quiet
      <3>3. ~On(s)'
        BY <2>13, <3>2
      <3> QED BY <3>2, <3>3, QuietAt
    <2>16. Lent'
      BY <1>3, <2>1 DEF Lent
    <2> QED BY <2>7, <2>8, <2>10, <2>12, <2>13, <2>15, <2>16
  <1> QED BY <1>4, <1>5

LEMMA MailLost == ASSUME ReaderInv, MailInv, NEW t \in Threads, ReadEof(t) PROVE MailInv'
  <1> USE DEF ReaderInv, MailInv
  <1>1. /\ pc[t] = "reading" /\ mstate' = "CLOSED" /\ \A s \in Sids : pending'[s] = NoThread
        /\ UNCHANGED <<then, round, sid, told, inbox, retired, outq, batch, up, server, down>>
    BY DEF ReadEof, sendVars, envVars
  <1>2. Wakes(t, "await")
    BY WakesBy DEF ReadEof, Types, Places
  <1>3. \A u \in Threads : Grown(u)
    <2>1. \A u \in Threads \ {t} : box'[u] = Failing(t)[u]
      BY DEF ReadEof, Failing
    <2>2. box'[t] = Append(box[t], Told("failed"))
      BY DEF ReadEof, Failing
    <2> QED BY <2>1, <2>2, FailingGrows DEF Grown
  <1>4. \A u \in Threads :
          /\ OnlyFailed(u) => OnlyFailed(u)'
          /\ \A i \in 1 .. Len(box'[u]) : box'[u][i].kind = "failed" \/ (i \in 1 .. Len(box[u]) /\ box'[u][i] = box[u][i])
    BY <1>3, BoxGrows
  <1>5. \A u \in Threads : Has(u)' \/ pc'[u] \in {"idle", "turn"} => Has(u) \/ pc[u] \in {"idle", "turn"}
    BY <1>1, <1>2 DEF Wakes, Has
  <1>6. \A u \in Threads : pc'[u] # "parked"
    BY <1>2 DEF Wakes, Types, ReqType
  <1>7. Boxed'
    BY <1>1, <1>4, <1>5, <1>6 DEF Boxed
  <1>8. RightMail' /\ Lent' /\ Owed'
    BY <1>1 DEF RightMail, Lent, Owed
  <1>9. Filed'
    BY <1>1 DEF Filed, Types, MapType
  <1>10. Once' /\ Apart' /\ Whole'
    BY <1>1, WireStays DEF WireKept
  <1>11. Quiet'
    <2> SUFFICES ASSUME NEW u \in Threads, Active(u)', pending'[sid'[u]] = u PROVE FALSE
      BY DEF Quiet
    <2>1. sid'[u] \in Sids
      BY <1>1, <1>2 DEF Types, Begun, Active, Wakes
    <2> QED BY <1>1, <2>1, DriverAssumption
  <1> QED BY <1>7, <1>8, <1>9, <1>10, <1>11

LEMMA MailStep == ASSUME ReaderInv, MailInv, [Next]_vars PROVE MailInv'
  <1> USE DEF ReaderInv
  <1>1. MapType' /\ Types
    BY TypesStep DEF Types
  <1>2. \A t \in Threads : Has(t) \/ pc[t] \in {"idle", "turn"} => OnlyFailed(t)
    BY DEF MailInv, Boxed
  <1>3. CASE Close \/ PeerCloses \/ UNCHANGED vars
    <2>1. /\ UNCHANGED <<pc, then, round, sid, box, told, inbox, pending, retired, outq, batch, up, server, down, bulkOwner>>
          /\ mstate' \in {mstate, "CLOSED"}
      BY <1>3 DEF Close, PeerCloses, vars, reqVars, mapVars, sendVars, envVars, roleVars, linkVars
    <2>2. \A u \in Threads : Grown(u) /\ (Active(u)' <=> Active(u)) /\ (Has(u)' <=> Has(u))
      BY <2>1 DEF Grown, Active, Has
    <2>3. WireKept
      BY <2>1 DEF WireKept
    <2> QED BY <1>2, <2>1, <2>2, <2>3, MailStays DEF MailInv, Boxed
  <1>4. CASE CloseLink
    <2>1. /\ UNCHANGED <<then, round, sid, box, told, inbox, pending, retired, batch, up, server, down, bulkOwner, mstate>>
          /\ outq' = <<>> /\ pc' = Woken(pc)
      BY <1>4 DEF CloseLink, mapVars, envVars, roleVars
    <2>2. /\ \A u \in Threads : Grown(u) /\ (Active(u)' <=> Active(u)) /\ (Has(u)' <=> Has(u)) /\ pc'[u] # "parked"
          /\ \A u \in Threads : pc'[u] \in {"idle", "turn"} => pc[u] \in {"idle", "turn"}
          /\ \A u \in Threads : pc'[u] = "sitout" => pc[u] = "sitout"
      BY <2>1 DEF Woken, Grown, Active, Has, Types, ReqType
    <2>3. WireKept
      BY <2>1 DEF WireKept
    <2> QED BY <1>2, <2>1, <2>2, <2>3, MailStays
  <1>5. ASSUME NEW t \in Threads, TakeTurn(t) PROVE MailInv'
    <2>1. Moves(t, "turn")
      BY <1>1, <1>5, MovesBy DEF TakeTurn, Places, Types
    <2>2. pc[t] = "idle" /\ UNCHANGED <<then, round, sid, box, told, inbox, pending, retired, outq, batch, up, server, down, mstate, bulkOwner>>
      BY <1>5 DEF TakeTurn, mapVars, sendVars, envVars, roleVars, linkVars
    <2>3. Active(t)' <=> Active(t)
      BY <2>1, <2>2 DEF Moves, Active
    <2> QED BY <1>2, <2>1, <2>2, <2>3, MailMoves DEF WireKept, Grown
  <1>6. ASSUME NEW t \in Threads, TakeSendLock(t) PROVE MailInv'
    <2>1. Moves(t, "drain")
      BY <1>1, <1>6, MovesBy DEF TakeSendLock, Places, Types
    <2>2. pc[t] = "queue" /\ UNCHANGED <<then, round, sid, box, told, inbox, pending, retired, outq, batch, up, server, down, mstate, bulkOwner>>
      BY <1>6 DEF TakeSendLock, mapVars, sendVars, envVars, roleVars, linkVars
    <2>3. (Active(t)' <=> Active(t)) /\ (Has(t)' => Has(t))
      BY <2>1, <2>2 DEF Moves, Active, Has
    <2> QED BY <1>2, <2>1, <2>2, <2>3, MailMoves DEF WireKept, Grown
  <1>7. ASSUME NEW t \in Threads, SendDone(t) PROVE MailInv'
    <2> DEFINE place == IF then[t] = "bulk" THEN "bulk" ELSE "unlock"
    <2>1. Moves(t, place)
      BY <1>1, <1>7, MovesBy DEF SendDone, Places, Types
    <2>2. pc[t] = "drain" /\ UNCHANGED <<then, round, sid, box, told, inbox, pending, retired, outq, batch, up, server, down, mstate, bulkOwner>>
      BY <1>7 DEF SendDone, mapVars, sendVars, envVars, roleVars, linkVars
    <2>3. (Active(t)' <=> Active(t)) /\ (Has(t)' => Has(t))
      BY <2>1, <2>2 DEF Moves, Active, Has
    <2> QED BY <1>2, <2>1, <2>2, <2>3, MailMoves DEF WireKept, Grown
  <1>8. ASSUME NEW t \in Threads, Unlock(t) PROVE MailInv'
    <2>1. pc[t] = "unlock" /\ then[t] \in {"await", "reading", "senderr"}
      BY <1>8 DEF Unlock, Roles, Bound, Types, ReqType
    <2>2. Moves(t, then[t])
      BY <1>1, <1>8, <2>1, MovesBy DEF Unlock, Places, Types
    <2>3. UNCHANGED <<then, round, sid, box, told, inbox, pending, retired, outq, batch, up, server, down, mstate, bulkOwner>>
      BY <1>8 DEF Unlock, mapVars, envVars, roleVars, linkVars
    <2>4. (Active(t)' <=> Active(t)) /\ (Has(t)' => Has(t))
      BY <2>1, <2>2, <2>3 DEF Moves, Active, Has
    <2> QED BY <1>2, <2>1, <2>2, <2>3, <2>4, MailMoves DEF WireKept, Grown
  <1>9. ASSUME NEW t \in Threads, Follow(t) PROVE MailInv'
    <2>1. Moves(t, "parked")
      BY <1>1, <1>9, MovesBy DEF Follow, Places, Types
    <2>2. /\ pc[t] = "await" /\ box[t] = <<>>
          /\ UNCHANGED <<then, round, sid, box, told, inbox, pending, retired, outq, batch, up, server, down, mstate, bulkOwner>>
      BY <1>9 DEF Follow, mapVars, sendVars, envVars, roleVars, linkVars
    <2>3. (Active(t)' <=> Active(t)) /\ (Has(t)' => Has(t))
      BY <2>1, <2>2 DEF Moves, Active, Has
    <2> QED BY <1>2, <2>1, <2>2, <2>3, MailMoves DEF WireKept, Grown
  <1>10. ASSUME NEW t \in Threads, Lead(t) PROVE MailInv'
    <2>1. Moves(t, ReaderAt(outq)) /\ ReaderAt(outq) \in {"queue", "reading"}
      BY <1>1, <1>10, MovesBy DEF Lead, Places, Types, ReaderAt
    <2>2. /\ pc[t] = "await" /\ box[t] = <<>> /\ then'[t] = "reading" /\ \A u \in Threads \ {t} : then'[u] = then[u]
          /\ UNCHANGED <<round, sid, box, told, inbox, pending, retired, outq, batch, up, server, down, mstate, bulkOwner>>
      BY <1>10 DEF Lead, Types, ReqType, mapVars, sendVars, envVars, linkVars
    <2>3. (Active(t)' <=> Active(t)) /\ OnlyFailed(t)
      BY <2>1, <2>2 DEF Moves, Active, OnlyFailed
    <2> QED BY <2>1, <2>2, <2>3, MailMoves DEF WireKept, Grown
  <1>11. ASSUME NEW t \in Threads, ReadClosed(t) PROVE MailInv'
    <2>1. Wakes(t, "await")
      BY <1>1, <1>11, WakesBy DEF ReadClosed, Places, Types
    <2>2. pc[t] = "reading" /\ UNCHANGED <<then, round, sid, box, told, inbox, pending, retired, outq, batch, up, server, down, mstate, bulkOwner>>
      BY <1>11 DEF ReadClosed, mapVars, sendVars, envVars
    <2>3. (Active(t)' <=> Active(t)) /\ ~Has(t)'
      BY <2>1, <2>2 DEF Wakes, Active, Has
    <2> QED BY <2>1, <2>2, <2>3, MailMoves DEF WireKept, Grown
  <1>12. ASSUME NEW t \in Threads, BulkEnd(t) PROVE MailInv'
    <2>1. Wakes(t, "idle")
      BY <1>1, <1>12, WakesBy DEF BulkEnd, Places, Types
    <2>2. /\ pc[t] = "bulk" /\ bulkOwner' = NoThread
          /\ UNCHANGED <<then, round, sid, box, told, inbox, pending, retired, outq, batch, up, server, down>>
          /\ mstate' \in {mstate, "CLOSED"}
      BY <1>12 DEF BulkEnd, mapVars, envVars
    <2>3. (Active(t)' <=> Active(t)) /\ Has(t)
      BY <2>1, <2>2 DEF Wakes, Active, Has
    <2> QED BY <1>2, <2>1, <2>2, <2>3, MailMoves DEF WireKept, Grown
  <1>13. ASSUME NEW t \in Threads, SendFails(t) PROVE MailInv'
    <2>1. pc[t] = "drain" /\ Wakes(t, pc[t])
      BY <1>1, <1>13, WakesAll DEF SendFails, Places, Types
    <2>2. /\ UNCHANGED <<round, sid, told, inbox, pending, retired, up, server, down, mstate, bulkOwner>>
          /\ outq' = <<>> /\ \A u \in Threads : batch'[u] \in {batch[u], <<>>}
      BY <1>13 DEF SendFails, Types, SendType, mapVars, envVars, roleVars
    <2>3. \A u \in Threads : Grown(u)
      BY <1>1, <1>13, FailingGrows DEF SendFails, Grown
    <2>4. /\ then'[t] = then[t] \/ (then[t] = "reading" /\ then'[t] = "senderr")
          /\ \A u \in Threads \ {t} : then'[u] = then[u]
      BY <1>13 DEF SendFails, Types, ReqType
    <2>5. (Active(t)' <=> Active(t)) /\ (Has(t)' => Has(t))
      BY <2>1, <2>4 DEF Wakes, Active, Has
    <2> QED BY <1>2, <2>1, <2>2, <2>3, <2>4, <2>5, MailMoves DEF WireKept
  <1>14. ASSUME NEW t \in Threads, Resend(t) PROVE MailInv'
    <2>1. pc[t] = "sitout" /\ Active(t) /\ sid[t] \in Sids
      BY <1>14 DEF Resend, Active, Types, Begun
    <2>2. UNCHANGED <<round, sid, box, batch, up, server, down, mstate, bulkOwner>>
      BY <1>14 DEF Resend, envVars, roleVars, linkVars
    <2>3. CASE box[t] # <<>>
      <3>1. UNCHANGED <<then, told, inbox, pending, retired, outq>> /\ pc' = [pc EXCEPT ![t] = "await"]
        BY <1>14, <2>3 DEF Resend, mapVars
      <3>2. Moves(t, "await")
        BY <1>1, <3>1, MovesBy DEF Places, Types
      <3>3. (Active(t)' <=> Active(t)) /\ ~Has(t)'
        BY <2>1, <3>2 DEF Moves, Active, Has
      <3> QED BY <2>2, <3>1, <3>2, <3>3, MailMoves DEF WireKept, Grown
    <2>4. CASE box[t] = <<>> /\ mstate = "CLOSED"
      <3>1. /\ UNCHANGED <<then, outq>> /\ pc' = [pc EXCEPT ![t] = "idle"] /\ Forget(t)
            /\ told' = [told EXCEPT ![t] = Told("failed")]
        BY <1>14, <2>4 DEF Resend
      <3>2. Moves(t, "idle") /\ GivenUp(t)
        BY <1>1, <2>1, <3>1, MovesBy, ForgetGivesUp DEF Places, Types
      <3>3. told'[t] = Told("failed") /\ \A u \in Threads \ {t} : told'[u] = told[u]
        BY <3>1 DEF Types, ReqType
      <3>4. told'[t].kind # "ok" /\ OnlyFailed(t)'
        BY <2>2, <2>4, <3>3, NotOk DEF OnlyFailed
      <3> QED BY <1>1, <2>1, <2>2, <3>1, <3>2, <3>3, <3>4, MailEnds DEF Grown
    <2>5. CASE box[t] = <<>> /\ mstate # "CLOSED"
      <3>1. mstate = "READY"
        BY <2>5 DEF Types, LinkType
      <3>2. Again(t)
        BY <1>14, <2>1, <2>5, <3>1 DEF Resend, Again
      <3> QED BY <3>2, MailAgain
    <2> QED BY <2>3, <2>4, <2>5
  <1>15. ASSUME NEW t \in Threads, AwaitClosed(t) PROVE MailInv'
    <2>1. pc[t] = "await" /\ Active(t) /\ sid[t] \in Sids
      BY <1>15 DEF AwaitClosed, Active, Types, Begun
    <2>2. Moves(t, "idle") /\ GivenUp(t)
      BY <1>1, <1>15, <2>1, MovesBy, ForgetGivesUp DEF AwaitClosed, Places, Types
    <2>3. UNCHANGED <<then, round, sid, outq, batch, up, server, down, mstate, bulkOwner>>
      BY <1>15 DEF AwaitClosed, sendVars, envVars, roleVars, linkVars
    <2>4. told'[t] = Told("failed") /\ \A u \in Threads \ {t} : told'[u] = told[u]
      BY <1>15 DEF AwaitClosed, Types, ReqType
    <2>5. UNCHANGED box /\ OnlyFailed(t)
      BY <1>2, <1>15, <2>1 DEF AwaitClosed, OnlyFailed
    <2>6. OnlyFailed(t)' /\ told'[t].kind # "ok"
      BY <2>4, <2>5, NotOk DEF OnlyFailed
    <2> QED BY <1>1, <2>1, <2>2, <2>3, <2>4, <2>5, <2>6, MailEnds DEF Grown
  <1>16. ASSUME NEW t \in Threads, LeaderExpires(t) PROVE MailInv'
    <2>1. pc[t] = "reading" /\ Active(t) /\ sid[t] \in Sids
      BY <1>16 DEF LeaderExpires, Active, Types, Begun
    <2>2. Wakes(t, "idle") /\ GivenUp(t)
      BY <1>1, <1>16, <2>1, WakesBy, ForgetGivesUp DEF LeaderExpires, Places, Types
    <2>3. UNCHANGED <<then, round, sid, outq, batch, up, server, down, mstate, bulkOwner>>
      BY <1>16 DEF LeaderExpires, sendVars, envVars
    <2>4. told'[t] = Told("expired") /\ \A u \in Threads \ {t} : told'[u] = told[u]
      BY <1>16 DEF LeaderExpires, Types, ReqType
    <2>5. UNCHANGED box /\ OnlyFailed(t)
      BY <1>2, <1>16, <2>1 DEF LeaderExpires, Has
    <2>6. OnlyFailed(t)' /\ told'[t].kind # "ok"
      BY <2>4, <2>5, NotOk DEF OnlyFailed
    <2> QED BY <1>1, <2>1, <2>2, <2>3, <2>4, <2>5, <2>6, MailEnds DEF Grown
  <1>17. ASSUME NEW t \in Threads, FollowerExpires(t) PROVE MailInv'
    <2>1. pc[t] = "parked" /\ Active(t) /\ sid[t] \in Sids
      BY <1>17 DEF FollowerExpires, Active, Types, Begun
    <2>2. Moves(t, "idle") /\ GivenUp(t)
      BY <1>1, <1>17, <2>1, MovesBy, ForgetGivesUp DEF FollowerExpires, Places, Types
    <2>3. UNCHANGED <<then, round, sid, outq, batch, up, server, down, mstate, bulkOwner>>
      BY <1>17 DEF FollowerExpires, sendVars, envVars, roleVars, linkVars
    <2>4. told'[t] = Told("expired") /\ \A u \in Threads \ {t} : told'[u] = told[u]
      BY <1>17 DEF FollowerExpires, Types, ReqType
    <2>5. UNCHANGED box /\ OnlyFailed(t)
      BY <1>2, <1>17, <2>1 DEF FollowerExpires, MailInv, Boxed, OnlyFailed
    <2>6. OnlyFailed(t)' /\ told'[t].kind # "ok"
      BY <2>4, <2>5, NotOk DEF OnlyFailed
    <2> QED BY <1>1, <2>1, <2>2, <2>3, <2>4, <2>5, <2>6, MailEnds DEF Grown
  <1>18. ASSUME NEW t \in Threads, LinkTimesOut(t) PROVE MailInv'
    <2>1. pc[t] = "reading" /\ Active(t) /\ sid[t] \in Sids
      BY <1>18 DEF LinkTimesOut, Active, Types, Begun
    <2>2. Wakes(t, "idle") /\ GivenUp(t)
      BY <1>1, <1>18, <2>1, WakesBy, ForgetGivesUp DEF LinkTimesOut, Places, Types
    <2>3. UNCHANGED <<then, round, sid, outq, batch, up, server, down, mstate, bulkOwner>>
      BY <1>18 DEF LinkTimesOut, sendVars, envVars
    <2>4. told'[t] = Told("failed") /\ \A u \in Threads \ {t} : told'[u] = told[u]
      BY <1>18 DEF LinkTimesOut, Types, ReqType
    <2>5. box'[t] = <<>> /\ \A u \in Threads \ {t} : box'[u] = Failing(t)[u]
      BY <1>18 DEF LinkTimesOut, Failing
    <2>6. \A u \in Threads \ {t} : Grown(u)
      BY <1>1, <2>5, FailingGrows DEF Grown
    <2>7. OnlyFailed(t)' /\ told'[t].kind # "ok"
      BY <2>4, <2>5, NotOk DEF OnlyFailed
    <2> QED BY <1>1, <2>1, <2>2, <2>3, <2>4, <2>6, <2>7, MailEnds
  <1>19. ASSUME NEW t \in Threads, SitoutExpires(t) PROVE MailInv'
    <2>1. pc[t] = "sitout" /\ box[t] = <<>> /\ mstate = "READY" /\ Active(t) /\ Waited(t) /\ sid[t] \in Sids
      BY <1>19 DEF SitoutExpires, Active, Waited, Types, Begun
    <2>2. ~Final(t) /\ OnlyFailed(t)
      BY <2>1 DEF Final, OnlyFailed
    <2>3. inbox[sid[t]] = t /\ pending[sid[t]] = t
      BY <2>1, <2>2 DEF MailInv, Filed
    <2>4. ~On(sid[t])
      BY <2>1, <2>3 DEF MailInv, Quiet
    <2>5. GivenUp(t)
      BY <1>19, <2>1, <2>3, <2>4 DEF SitoutExpires, GivenUp, Types, MapType
    <2>6. Moves(t, "idle")
      BY <1>1, <1>19, MovesBy DEF SitoutExpires, Places, Types
    <2>7. UNCHANGED <<then, round, sid, box, outq, batch, up, server, down, mstate, bulkOwner>>
      BY <1>19 DEF SitoutExpires, sendVars, envVars, roleVars, linkVars
    <2>8. told'[t] = Told("expired") /\ \A u \in Threads \ {t} : told'[u] = told[u]
      BY <1>19 DEF SitoutExpires, Types, ReqType
    <2>9. OnlyFailed(t)' /\ told'[t].kind # "ok"
      BY <2>2, <2>7, <2>8, NotOk DEF OnlyFailed
    <2> QED BY <1>1, <2>1, <2>5, <2>6, <2>7, <2>8, <2>9, MailEnds DEF Grown
  <1>20. ASSUME NEW t \in Threads, ReaderSendFailed(t) PROVE MailInv'
    <2>1. pc[t] = "senderr" /\ Active(t) /\ sid[t] \in Sids
      BY <1>20 DEF ReaderSendFailed, Active, Types, Begun
    <2>2. UNCHANGED <<then, round, sid, outq, batch, up, server, down, mstate, bulkOwner>>
      BY <1>20 DEF ReaderSendFailed, sendVars, envVars
    <2>3. CASE mstate = "CLOSED"
      <3>1. Wakes(t, "await") /\ UNCHANGED <<box, told, inbox, pending, retired>>
        BY <1>1, <1>20, <2>3, WakesBy DEF ReaderSendFailed, Places, Types, mapVars
      <3>2. (Active(t)' <=> Active(t)) /\ ~Has(t)'
        BY <2>1, <3>1 DEF Wakes, Active, Has
      <3> QED BY <2>2, <3>1, <3>2, MailMoves DEF WireKept, Grown
    <2>4. CASE mstate # "CLOSED"
      <3>1. Wakes(t, "idle") /\ GivenUp(t)
        BY <1>1, <1>20, <2>1, <2>4, WakesBy, ForgetGivesUp DEF ReaderSendFailed, Places, Types
      <3>2. told'[t] = Told("failed") /\ \A u \in Threads \ {t} : told'[u] = told[u]
        BY <1>20, <2>4 DEF ReaderSendFailed, Types, ReqType
      <3>3. box'[t] = <<>> /\ \A u \in Threads \ {t} : box'[u] = Failing(t)[u]
        BY <1>20, <2>4 DEF ReaderSendFailed, Failing
      <3>4. \A u \in Threads \ {t} : Grown(u)
        BY <1>1, <3>3, FailingGrows DEF Grown
      <3>5. OnlyFailed(t)' /\ told'[t].kind # "ok"
        BY <3>2, <3>3, NotOk DEF OnlyFailed
      <3> QED BY <1>1, <2>1, <2>2, <3>1, <3>2, <3>4, <3>5, MailEnds
    <2> QED BY <2>3, <2>4
  <1>21. ASSUME NEW t \in Threads, StartRefused(t) PROVE MailInv'
    <2>1. /\ pc[t] = "idle"
          /\ UNCHANGED <<pc, then, sid, box, inbox, pending, retired, outq, batch, up, server, down, mstate, bulkOwner>>
      BY <1>21 DEF StartRefused, mapVars, sendVars, envVars, roleVars, linkVars
    <2>2. told'[t] = Told("failed") /\ \A u \in Threads \ {t} : told'[u] = told[u] /\ round'[u] = round[u]
      BY <1>21 DEF StartRefused, Types, ReqType
    <2>3. told'[t].kind # "ok"
      BY <2>2, NotOk
    <2>4. \A u \in Threads : (Active(u)' <=> Active(u)) /\ (Has(u)' <=> Has(u))
      BY <2>1 DEF Active, Has
    <2> QED BY <2>1, <2>2, <2>3, <2>4, MailNumbered DEF WireKept
  <1>22. ASSUME NEW t \in Threads, TurnExpires(t) PROVE MailInv'
    <2>1. /\ pc[t] = "turn" /\ Moves(t, "idle")
          /\ UNCHANGED <<then, sid, box, inbox, pending, retired, outq, batch, up, server, down, mstate, bulkOwner>>
      BY <1>1, <1>22, MovesBy DEF TurnExpires, Places, Types, mapVars, sendVars, envVars, roleVars, linkVars
    <2>2. told'[t] = Told("expired") /\ \A u \in Threads \ {t} : told'[u] = told[u] /\ round'[u] = round[u]
      BY <1>22 DEF TurnExpires, Types, ReqType
    <2>3. told'[t].kind # "ok"
      BY <2>2, NotOk
    <2>4. /\ \A u \in Threads : Active(u)' <=> Active(u)
          /\ \A u \in Threads \ {t} : pc'[u] = pc[u] /\ (Has(u)' <=> Has(u))
      BY <2>1 DEF Active, Has, Moves
    <2> QED BY <2>1, <2>2, <2>3, <2>4, MailNumbered DEF WireKept, Moves
  <1>23. ASSUME NEW t \in Threads, BulkBegin(t) PROVE MailInv'
    <2>1. /\ pc[t] = "idle" /\ Moves(t, "queue") /\ retired = {} /\ \A s \in Sids : pending[s] = NoThread
          /\ UNCHANGED <<sid, box, inbox, pending, retired, outq, batch, up, server, down, mstate>>
      BY <1>1, <1>23, MovesBy DEF BulkBegin, Places, Types, mapVars, sendVars, envVars, linkVars
    <2>2. /\ told'[t] = Told("nothing") /\ then'[t] = "bulk"
          /\ \A u \in Threads \ {t} : told'[u] = told[u] /\ round'[u] = round[u] /\ then'[u] = then[u]
      BY <1>23 DEF BulkBegin, Types, ReqType
    <2>3. told'[t].kind # "ok"
      BY <2>2, NotOk
    <2>4. /\ \A u \in Threads : Active(u)' <=> Active(u)
          /\ \A u \in Threads \ {t} : pc'[u] = pc[u] /\ (Has(u)' <=> Has(u))
      BY <2>1, <2>2 DEF Active, Has, Moves
    <2> QED BY <2>1, <2>2, <2>3, <2>4, MailNumbered DEF WireKept, Moves
  <1>24. ASSUME NEW t \in Threads,
                Start(t) \/ TakeOutq(t) \/ SendPiece(t) \/ Consume(t) \/ Receive(t) \/ ReadEof(t)
         PROVE  MailInv'
    BY <1>1, <1>24, MailStarted, MailTaken, MailSent, MailConsumed, MailReceived, MailLost
  <1>25. CASE ServerReads \/ ServerWrites
    BY <1>25, MailRead, MailWritten
  <1> QED BY <1>3, <1>4, <1>5, <1>6, <1>7, <1>8, <1>9, <1>10, <1>11, <1>12, <1>13, <1>14, <1>15, <1>16, <1>17, <1>18,
             <1>19, <1>20, <1>21, <1>22, <1>23, <1>24, <1>25 DEF Next, Step, Choice

LEMMA MailInit == ASSUME Init PROVE MailInv
  <1>1. Boxed /\ RightMail
    BY DEF Init, Boxed, RightMail, OnlyFailed, Told
  <1>2. Filed
    BY DEF Init, Filed, Active
  <1>3. Owed /\ Once
    BY DEF Init, Owed, Once, Nobody
  <1>4. \A s \in Sids : ~InQueue(s) /\ ~InHand(s) /\ ~GoingUp(s) /\ ~Served(s) /\ ~ComingDown(s)
    BY DEF Init, InQueue, InHand, GoingUp, Served, ComingDown, Nobody
  <1>5. Apart /\ Quiet /\ Whole /\ Lent
    BY <1>4 DEF Init, Apart, Quiet, Active, Whole, Lent
  <1> QED BY <1>1, <1>2, <1>3, <1>5 DEF MailInv

\* Every frame queued, in hand, on the wire or being answered, and every answer
\* on its way, is for the request that has its stream or for none
\* (sync.py: _start, _forget, _resend_after, _route_event).
THEOREM MailAlways == Spec => []MailInv
  <1>1. ReaderInv /\ MailInv /\ [Next]_vars => MailInv'
    BY MailStep
  <1> QED BY <1>1, MailInit, ReaderAlways, PTL DEF Spec

\* Whatever ids were given up and taken again meanwhile, a request that waits
\* is on file, and an answer it is told is the one to that very request
\* (sync.py: _forget, _route_event).
THEOREM MailIsSafe == Spec => []MailSafe
  <1>1. ReaderInv /\ MailInv => MailSafe
    <2> SUFFICES ASSUME ReaderInv, MailInv PROVE MailSafe
      OBVIOUS
    <2>1. NoneForgotten
      BY DEF NoneForgotten, MailInv, Filed, Active, Final
    <2> QED BY <2>1 DEF MailSafe, MailInv
  <1> QED BY <1>1, ReaderAlways, MailAlways, PTL

\* While a bulk transfer has the wire nobody else sends on it, reads from it or
\* has an answer to come (sync.py: bulk).
THEOREM BulkIsAlone == Spec => []BulkAlone
  <1>1. ReaderInv /\ MailInv => BulkAlone
    <2> SUFFICES ASSUME ReaderInv, MailInv, NEW t \in Threads, pc[t] = "bulk", mstate = "READY"
                 PROVE  /\ sendLock = t /\ outq = <<>> /\ down = <<>> /\ server.left = 0
                        /\ \A s \in Sids : pending[s] = NoThread
      BY DEF BulkAlone
    <2> USE DEF ReaderInv
    <2>1. sendLock = t /\ bulkOwner = t
      BY DEF Roles, LockHeld, Bound
    <2>2. retired = {} /\ \A s \in Sids : pending[s] = NoThread
      BY <2>1, DriverAssumption DEF MailInv, Lent
    <2>3. \A s \in Sids : \A who, num : ~Due(s, who, num)
      BY <2>2 DEF Due
    <2>4. \A i \in 1 .. Len(outq) : FALSE
      BY <2>3, OnTheWay DEF MailInv, Owed
    <2>5. outq = <<>>
      BY <2>4, TailAt DEF Types, SendType
    <2>6. ~(server.left > 0)
      BY <2>3, ServerHas DEF MailInv, Owed
    <2>7. server.left = 0
      BY <2>6 DEF Types, EnvType, Serving, Nobody
    <2>8. down = <<>>
      <3> SUFFICES ASSUME down # <<>> PROVE FALSE
        OBVIOUS
      <3>1. Len(down) \in Nat \ {0} /\ Len(down) \in 1 .. Len(down)
        BY TailAt DEF Types, EnvType
      <3>2. down[Len(down)].last
        BY <2>6 DEF MailInv, Whole
      <3>3. down[Len(down)].sid \in Sids
        BY <3>1, OnTheWay
      <3> QED BY <2>3, <3>1, <3>2, <3>3 DEF MailInv, Owed
    <2> QED BY <2>1, <2>2, <2>5, <2>7, <2>8
  <1> QED BY <1>1, ReaderAlways, MailAlways, PTL
=============================================================================
