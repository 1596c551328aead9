-------------------------- MODULE FileHandleProofs --------------------------
(***************************************************************************)
(* Proofs about a file handle shared by threads (FileHandle), for every    *)
(* number of threads, reads, connections and mishaps: re-opening is one    *)
(* thread's at a time and leaves the others a handle to read with, a       *)
(* writer is never re-opened nor its close excused, and nothing is opened  *)
(* once an abort has returned.                                             *)
(***************************************************************************)
EXTENDS FileHandle, SequenceTheorems, TLAPS

-----------------------------------------------------------------------------
(* The inductive invariant.                                                *)

Conn == [up: BOOLEAN, broken: BOOLEAN, closed: BOOLEAN, open: SUBSET Handles]
Rtr == [conn: Nat, reconnect: BOOLEAN, aborted: BOOLEAN]
File == [router: Nat, handle: Handles \cup {0}, recoveries: Nat,
         aborted: BOOLEAN, recover: BOOLEAN, writing: BOOLEAN]
Thr == [pc: Places, call: {"open", "event", "plane", "close"}, asks: {"open", "read", "close"},
        seen: Nat, attempts: 0..Retries + 1, tries: 0..Retries + 1, rtr: Nat, conn: Nat,
        hdl: Handles \cup {0}, res: Results]

FType ==
    /\ conns \in Seq(Conn) /\ Len(conns) <= MaxConns
    /\ routers \in Seq(Rtr)
    /\ file \in File
    /\ state \in Threads \cup {Nobody}
    /\ th \in [Threads -> Thr]
    /\ abort \in [pc: {"no", "marked", "grabbed", "done"}, rtr: Nat]
    /\ calls \in 0..MaxCalls /\ mishaps \in 0..MaxMishaps
    /\ closing \in [res: Results, had: BOOLEAN, heard: BOOLEAN, taken: BOOLEAN]

(* Every reference to a router or a connection is to one that was made.    *)
Ptrs ==
    /\ \A r \in DOMAIN routers : routers[r].conn <= Len(conns)
    /\ file.router \in DOMAIN routers /\ abort.rtr \in DOMAIN routers
    /\ \A t \in Threads : /\ th[t].rtr \in DOMAIN routers /\ th[t].conn <= Len(conns)
                          /\ th[t].seen <= file.recoveries

(* Which call a thread can be in, and which request it can be making, at
   each of its steps.                                                      *)
Lane(w) ==
    /\ w.pc = "idle" => w.call = "event" /\ w.asks = "read"
    /\ w.pc \in {"top", "router", "handle", "relock", "newrouter", "arm"} =>
          w.call \in {"event", "plane"} /\ w.asks = "read"
    /\ w.pc = "session" => \/ (w.call = "plane" /\ w.asks = "read")
                           \/ (w.call = "close" /\ w.asks = "close")
    /\ w.pc \in {"attempt", "sent"} =>
          \/ (w.call = "event" /\ w.asks \in {"read", "open"})
          \/ (w.call = "plane" /\ w.asks = "open")
          \/ (w.call = "plane" /\ w.asks = "read" /\ w.pc = "sent")
          \/ (w.call = "open" /\ w.asks = "open")
          \/ (w.call = "close" /\ w.asks = "close")
    /\ w.pc \in {"pin", "adopt"} => w.call # "close" /\ w.asks = "open" /\ w.hdl # 0
    /\ w.pc = "release" => w.call = "close" /\ w.asks = "close"
    /\ w.pc = "sent" \/ (w.pc = "handle" /\ w.call = "plane") => w.conn # 0

Lanes == \A t \in Threads : Lane(th[t])

(* _state is held by the thread that is re-opening.                        *)
Locked == \A t \in Threads : state = t <=> Reopening(t)

(* Who opens and who closes, and who reads before and after.               *)
Roles ==
    \A t \in Threads :
        /\ th[t].call = "close" => t = Opener /\ closing.res = "none" /\ closing.taken
        /\ th[t].call = "open" => /\ t = Opener /\ calls = 0 /\ th[t].res = "none"
                                  /\ \A u \in Threads \ {Opener} : th[u].pc = "idle"
        /\ th[t].call \in {"event", "plane"} /\ th[t].pc # "idle" => calls > 0

(* There is no handle before the open has succeeded, nor after one has been
   taken away; and until the open is answered there is one router.         *)
Fresh == calls = 0 /\ th[Opener].res = "none"
Handled ==
    /\ file.handle = 0 /\ ~closing.taken => Fresh
    /\ Fresh /\ th[Opener].pc \notin {"pin", "adopt"} => Len(routers) = 1

(* A writer comes nowhere near a re-open.                                  *)
Writers ==
    file.writing => /\ file.recoveries = 0
                    /\ \A t \in Threads : th[t].pc \notin {"top", "relock", "newrouter", "arm"}

(* What a close under way will say.                                        *)
Closing ==
    \A t \in Threads :
        th[t].pc = "release" /\ th[t].res = "ok" /\ file.writing /\ ~file.aborted =>
            closing.heard \/ ~closing.had

(* Thread t has a kXR_open to send, or sent.                               *)
Asking(t) == th[t].asks = "open" /\ th[t].pc \in {"attempt", "sent"}

(* An open is made on the file's router, which an abort has got hold of, or
   which had the abort passed on to it.                                    *)
Aborting ==
    /\ abort.pc # "no" => file.aborted
    /\ abort.pc = "done" => routers[abort.rtr].aborted
    /\ \A t \in Threads : Asking(t) =>
          /\ th[t].rtr = file.router
          /\ abort.pc \in {"grabbed", "done"} => th[t].rtr = abort.rtr \/ routers[th[t].rtr].aborted

FileInv ==
    FType /\ Ptrs /\ Lanes /\ Locked /\ Roles /\ Handled /\ NeverFoundNone
    /\ Writers /\ Closing /\ CloseHonest /\ Aborting

-----------------------------------------------------------------------------
(* Sequences.                                                              *)

LEMMA PutAt ==
    ASSUME NEW S, NEW s \in Seq(S), NEW i \in DOMAIN s, NEW x \in S
    PROVE  /\ [s EXCEPT ![i] = x] \in Seq(S) /\ Len([s EXCEPT ![i] = x]) = Len(s)
           /\ DOMAIN [s EXCEPT ![i] = x] = DOMAIN s
           /\ \A j \in DOMAIN s : [s EXCEPT ![i] = x][j] = IF j = i THEN x ELSE s[j]
<1>1. i \in 1 .. Len(s) /\ DOMAIN s = 1 .. Len(s)
  OBVIOUS
<1> QED
  BY <1>1, ExceptSeq

LEMMA Longer ==
    ASSUME NEW S, NEW s \in Seq(S), NEW x \in S
    PROVE  /\ Append(s, x) \in Seq(S) /\ Len(Append(s, x)) = Len(s) + 1
           /\ DOMAIN Append(s, x) = 1 .. Len(s) + 1
           /\ \A j \in DOMAIN s : Append(s, x)[j] = s[j]
           /\ Append(s, x)[Len(s) + 1] = x
OBVIOUS

(* Letting a connection go leaves the others as they are.                  *)
LEMMA LettingGo ==
    ASSUME NEW cs \in Seq(Conn), NEW c \in 0 .. Len(cs)
    PROVE  LetGo(cs, c) \in Seq(Conn) /\ Len(LetGo(cs, c)) = Len(cs)
<1>1. Shut \in Conn
  BY DEF Shut, Conn
<1>2. CASE c = 0
  BY <1>2 DEF LetGo
<1>3. CASE c # 0
  <2>1. c \in DOMAIN cs
    BY <1>3
  <2> QED
    BY <1>1, <1>3, <2>1, PutAt DEF LetGo
<1> QED
  BY <1>2, <1>3

(* A router that has let its connection go.                                *)
LEMMA Emptied ==
    ASSUME NEW rs \in Seq(Rtr), NEW r \in DOMAIN rs
    PROVE  /\ [rs EXCEPT ![r].conn = 0] \in Seq(Rtr)
           /\ Len([rs EXCEPT ![r].conn = 0]) = Len(rs)
           /\ DOMAIN [rs EXCEPT ![r].conn = 0] = DOMAIN rs
           /\ \A q \in DOMAIN rs :
                /\ [rs EXCEPT ![r].conn = 0][q].aborted = rs[q].aborted
                /\ [rs EXCEPT ![r].conn = 0][q].reconnect = rs[q].reconnect
                /\ [rs EXCEPT ![r].conn = 0][q].conn = IF q = r THEN 0 ELSE rs[q].conn
<1>1. \A q \in DOMAIN rs : rs[q] \in Rtr
  BY ElementOfSeq
<1> DEFINE new == [rs[r] EXCEPT !.conn = 0]
<1>2. new \in Rtr /\ new.conn = 0 /\ new.aborted = rs[r].aborted /\ new.reconnect = rs[r].reconnect
  BY <1>1 DEF Rtr
<1>3. [rs EXCEPT ![r].conn = 0] = [rs EXCEPT ![r] = new]
  OBVIOUS
<1> HIDE DEF new
<1> QED
  BY <1>2, <1>3, PutAt

-----------------------------------------------------------------------------
(* A step of one thread, seen from outside: the thread comes to stand as w,
   routers and connections may change but not be aborted or replaced, and the
   file changes by its handle at most.                                     *)

HoldsLock(w) ==
    /\ w.call \in {"event", "plane"}
    /\ w.pc \in {"newrouter", "arm", "pin", "adopt"} \/ (w.asks = "open" /\ w.pc \in {"attempt", "sent"})

Mends(cs, rs) ==
    /\ cs \in Seq(Conn) /\ Len(conns) <= Len(cs) /\ Len(cs) <= MaxConns
    /\ rs \in Seq(Rtr) /\ Len(rs) = Len(routers)
    /\ \A r \in DOMAIN routers : rs[r].conn <= Len(cs) /\ rs[r].aborted = routers[r].aborted

Frames ==
    /\ Mends(conns', routers')
    /\ UNCHANGED <<abort, calls>> /\ mishaps' \in 0..MaxMishaps
    /\ file' \in File /\ file'.router = file.router /\ file'.recoveries = file.recoveries
    /\ file'.writing = file.writing /\ file'.aborted = file.aborted
    /\ closing' \in [res: Results, had: BOOLEAN, heard: BOOLEAN, taken: BOOLEAN]
    /\ closing'.res = closing.res /\ closing'.had = closing.had
    /\ closing.taken => closing'.taken

Stands(t, w) ==
    /\ w \in Thr /\ Lane(w) /\ th' = [th EXCEPT ![t] = w]
    /\ w.rtr \in DOMAIN routers /\ w.conn <= Len(conns') /\ w.seen <= file.recoveries

(* The lock is kept, or let go of, or taken.                               *)
Locks(t, w) ==
    \/ state' = state /\ (HoldsLock(w) <=> HoldsLock(th[t]))
    \/ state = t /\ state' = Nobody /\ ~HoldsLock(w)
    \/ state = Nobody /\ state' = t /\ HoldsLock(w)

Plays(t, w) ==
    /\ w.call = "close" => th[t].call = "close"
    /\ w.call = "open" => th[t].call = "open" /\ w.res = th[t].res
    /\ w.call \in {"event", "plane"} /\ w.pc # "idle" =>
          th[t].call \in {"event", "plane"} /\ th[t].pc # "idle"
    /\ closing'.heard = closing.heard \/ th[t].call = "close"

Holds(t, w) ==
    /\ file'.handle = 0 /\ ~closing'.taken =>
          file.handle = 0 /\ ~closing.taken /\ (th[t].res = "none" => w.res = "none")
    /\ w.res = "none" => th[t].res = "none" \/ calls > 0
    /\ w.res = "none" /\ w.pc \notin {"pin", "adopt"} /\ calls = 0 => th[t].pc \notin {"pin", "adopt"}
    /\ w.res = "closed" => closing'.taken
    /\ file.writing => w.pc \notin {"top", "relock", "newrouter", "arm"}
    /\ w.pc = "release" /\ w.res = "ok" /\ file.writing => closing'.heard \/ ~closing.had
    /\ w.asks = "open" /\ w.pc \in {"attempt", "sent"} => Asking(t) /\ w.rtr = th[t].rtr

Goes(t, w) == Frames /\ Stands(t, w) /\ Locks(t, w) /\ Plays(t, w) /\ Holds(t, w)

LEMMA ThreadGoes ==
    ASSUME FileInv, NEW t \in Threads, NEW w, Goes(t, w)
    PROVE  FileInv'
<1> USE DEF FileInv, Goes
<1>0. \A u \in Threads : th'[u] = IF u = t THEN w ELSE th[u]
  BY DEF FType, Stands
<1>1. FType'
  <2>1. th' \in [Threads -> Thr]
    BY DEF FType, Stands
  <2>2. state' \in Threads \cup {Nobody}
    BY DEF FType, Locks
  <2> QED
    BY <2>1, <2>2 DEF FType, Frames, Mends
<1>2. DOMAIN routers' = DOMAIN routers /\ Len(conns) \in Nat /\ Len(conns') \in Nat
  BY DEF FType, Frames, Mends
<1>3. Ptrs'
  <2>1. \A u \in Threads : th[u].conn \in Nat
    BY DEF FType, Thr
  <2>2. \A u \in Threads : /\ th'[u].rtr \in DOMAIN routers /\ th'[u].conn <= Len(conns')
                           /\ th'[u].seen <= file'.recoveries
    BY <1>0, <1>2, <2>1 DEF Ptrs, Stands, Frames, Mends
  <2> QED
    BY <1>2, <2>2 DEF Ptrs, Frames, Mends
<1>4. Lanes'
  BY <1>0 DEF Lanes, Stands
<1>5. Locked'
  <2>1. \A u \in Threads : Reopening(u) <=> HoldsLock(th[u])
    BY DEF Reopening, HoldsLock
  <2>2. \A u \in Threads : Reopening(u)' <=> HoldsLock(th'[u])
    BY DEF Reopening, HoldsLock
  <2>3. Nobody \notin Threads
    BY FileAssumption
  <2> QED
    BY <1>0, <2>1, <2>2, <2>3 DEF Locked, Locks
<1>6. Roles'
  <2>1. \A u \in Threads : th'[u].call = "close" => u = Opener /\ closing'.res = "none" /\ closing'.taken
    BY <1>0 DEF Roles, Plays, Frames
  <2>2. \A u \in Threads : th'[u].call \in {"event", "plane"} /\ th'[u].pc # "idle" => calls' > 0
    BY <1>0 DEF Roles, Plays, Frames
  <2>3. ASSUME NEW u \in Threads, th'[u].call = "open"
        PROVE  /\ u = Opener /\ calls' = 0 /\ th'[u].res = "none"
               /\ \A v \in Threads \ {Opener} : th'[v].pc = "idle"
    <3>1. th[u].call = "open" /\ th'[u].res = th[u].res
      BY <1>0, <2>3 DEF Plays
    <3>2. u = Opener /\ calls = 0 /\ th[u].res = "none" /\ \A v \in Threads \ {Opener} : th[v].pc = "idle"
      BY <3>1 DEF Roles
    <3>3. t # Opener => w.pc = "idle"
      <4> SUFFICES ASSUME t # Opener, w.pc # "idle"
                   PROVE  FALSE
        OBVIOUS
      <4>1. th[t].pc = "idle" /\ th[t].call = "event"
        BY <3>2 DEF Lanes, Lane
      <4>2. w.call \in {"event", "plane", "open", "close"}
        BY DEF Stands, Thr
      <4> QED
        BY <4>1, <4>2 DEF Plays
    <3> QED
      BY <1>0, <3>1, <3>2, <3>3 DEF Frames
  <2> QED
    BY <2>1, <2>2, <2>3 DEF Roles
<1>7. Handled'
  <2>1. Opener \in Threads
    BY FileAssumption
  <2>2. file'.handle = 0 /\ ~closing'.taken => Fresh'
    BY <1>0, <2>1 DEF Handled, Fresh, Holds, Frames
  <2>3. Fresh' /\ th'[Opener].pc \notin {"pin", "adopt"} => Len(routers') = 1
    BY <1>0, <2>1 DEF Handled, Fresh, Holds, Frames, Mends
  <2> QED
    BY <2>2, <2>3 DEF Handled
<1>8. NeverFoundNone'
  BY <1>0 DEF NeverFoundNone, Holds, Frames
<1>9. Writers'
  BY <1>0 DEF Writers, Holds, Frames
<1>10. Closing'
  <2> SUFFICES ASSUME NEW u \in Threads, th'[u].pc = "release", th'[u].res = "ok",
                      file'.writing, ~file'.aborted
               PROVE  closing'.heard \/ ~closing'.had
    BY DEF Closing
  <2>1. CASE u = t
    BY <1>0, <2>1 DEF Holds, Frames
  <2>2. CASE u # t
    <3>1. th[u].pc = "release" /\ th[u].res = "ok"
      BY <1>0, <2>2
    <3>2. th[u].call = "close"
      BY <3>1 DEF Lanes, Lane
    <3>3. th[t].call # "close"
      BY <2>2, <3>2 DEF Roles
    <3> QED
      BY <3>1, <3>3 DEF Closing, Plays, Frames
  <2> QED
    BY <2>1, <2>2
<1>11. CloseHonest'
  BY DEF CloseHonest, Plays, Frames, Roles
<1>12. Aborting'
  <2>1. abort.rtr \in DOMAIN routers /\ \A u \in Threads : th[u].rtr \in DOMAIN routers
    BY DEF Ptrs
  <2>2. abort'.pc = "done" => routers'[abort'.rtr].aborted
    BY <2>1 DEF Aborting, Frames, Mends
  <2>3. ASSUME NEW u \in Threads, Asking(u)'
        PROVE  Asking(u) /\ th'[u].rtr = th[u].rtr
    BY <1>0, <2>3 DEF Asking, Holds
  <2> QED
    BY <2>1, <2>2, <2>3 DEF Aborting, Frames, Mends
<1> QED
  BY <1>1, <1>3, <1>4, <1>5, <1>6, <1>7, <1>8, <1>9, <1>10, <1>11, <1>12

(* A read under way was called for, on a file that was opened.             *)
LEMMA ReadUnderWay ==
    ASSUME FileInv, NEW t \in Threads, th[t].call \in {"event", "plane"}, th[t].pc # "idle"
    PROVE  calls > 0 /\ (file.handle # 0 \/ closing.taken)
<1>1. calls > 0
  BY DEF FileInv, Roles
<1>2. calls # 0
  BY <1>1 DEF FileInv, FType
<1> QED
  BY <1>1, <1>2 DEF FileInv, Handled, Fresh

(* The lock as seen by a thread that ends or begins again.                 *)
LetsGo(t) == (state' = state /\ ~HoldsLock(th[t])) \/ (state = t /\ state' = Nobody)

LEMMA EndsGoes ==
    ASSUME FileInv, NEW t \in Threads, NEW res \in Results \ {"none"}, Ends(t, res),
           Frames, LetsGo(t), closing'.heard = closing.heard,
           file'.handle # 0 \/ closing'.taken, res = "closed" => closing'.taken
    PROVE  Goes(t, Resting(res))
<1> DEFINE w == Resting(res)
<1>0. /\ w.pc = "idle" /\ w.call = "event" /\ w.asks = "read" /\ w.seen = 0 /\ w.rtr = 1
      /\ w.conn = 0 /\ w.res = res
  BY DEF Resting
<1>1. w \in Thr
  <2>1. Retries \in Nat
    BY FileAssumption
  <2> QED
    BY <2>1 DEF Resting, Thr, Places
<1>2. 1 \in DOMAIN routers
  BY DEF FileInv, FType, Ptrs
<1>3. 0 <= Len(conns') /\ 0 <= file.recoveries
  BY DEF FileInv, FType, File, Frames, Mends
<1>4. th' = [th EXCEPT ![t] = w]
  BY DEF Ends
<1> HIDE DEF w
<1>5. Stands(t, w)
  BY <1>0, <1>1, <1>2, <1>3, <1>4 DEF Stands, Lane
<1>6. Locks(t, w)
  BY <1>0 DEF Locks, LetsGo, HoldsLock
<1>7. Plays(t, w)
  BY <1>0 DEF Plays
<1>8. Holds(t, w)
  BY <1>0 DEF Holds
<1> QED
  BY <1>5, <1>6, <1>7, <1>8 DEF Goes, w

(* Going back to the top of _execute's loop.                               *)
LEMMA ExecuteFailedGoes ==
    ASSUME FileInv, NEW t \in Threads, ExecuteFailed(t), th[t].call = "event", th[t].pc # "idle",
           Frames, LetsGo(t), closing'.heard = closing.heard, file'.handle # 0 \/ closing'.taken
    PROVE  \E w : Goes(t, w)
<1>1. CASE recoverable /\ th[t].attempts < Retries
  <2> DEFINE n == th[t].attempts + 1
             w == [th[t] EXCEPT !.pc = "top", !.asks = "read", !.attempts = n]
  <2>0. th[t] \in Thr /\ Retries \in Nat
    BY FileAssumption DEF FileInv, FType
  <2>1. th' = [th EXCEPT ![t] = w]
    <3>1. th' = [th EXCEPT ![t] = [th[t] EXCEPT !.pc = "top", !.asks = "read", !.attempts = @ + 1]]
      BY <1>1 DEF ExecuteFailed
    <3>2. [th[t] EXCEPT !.pc = "top", !.asks = "read", !.attempts = @ + 1] = w
      BY <2>0 DEF Thr
    <3> QED
      BY <3>1, <3>2
  <2>a. n \in 0..Retries + 1
    <3>1. th[t].attempts \in 0..Retries + 1
      BY <2>0 DEF Thr
    <3> QED
      BY <1>1, <2>0, <3>1
  <2> HIDE DEF n
  <2>2. w \in Thr
    BY <2>0, <2>a DEF Thr, Places
  <2>3. /\ w.pc = "top" /\ w.call = "event" /\ w.asks = "read" /\ w.seen = th[t].seen
        /\ w.rtr = th[t].rtr /\ w.conn = th[t].conn /\ w.res = th[t].res
    BY <2>0 DEF Thr
  <2> HIDE DEF w
  <2>4. Stands(t, w)
    <3>1. th[t].conn \in Nat /\ Len(conns) \in Nat /\ Len(conns') \in Nat
      BY <2>0, SMTT(40) DEF Thr, FileInv, FType, Frames, Mends
    <3> QED
      BY <2>1, <2>2, <2>3, <3>1 DEF Stands, Lane, FileInv, Ptrs, Frames, Mends
  <2>5. Locks(t, w)
    BY <2>3 DEF Locks, LetsGo, HoldsLock
  <2>6. Plays(t, w)
    BY <2>3 DEF Plays
  <2>7. ~file.writing /\ calls > 0
    BY <1>1, ReadUnderWay DEF recoverable
  <2>8. Holds(t, w)
    BY <2>3, <2>7 DEF Holds, FileInv, NeverFoundNone, Frames
  <2> QED
    BY <2>4, <2>5, <2>6, <2>8 DEF Goes
<1>2. CASE ~(recoverable /\ th[t].attempts < Retries)
  <2>1. Ends(t, "transient")
    BY <1>2 DEF ExecuteFailed
  <2> QED
    BY <2>1, EndsGoes DEF Results
<1> QED
  BY <1>1, <1>2

(* What was done to the connections and the routers before a failure is
   dealt with, and what is left of the file's state.                       *)
Settles(cs, rs) == conns' = cs /\ routers' = rs /\ UNCHANGED <<abort, calls>> /\ mishaps' \in 0..MaxMishaps

AtRequest(t) == th[t].pc \in {"attempt", "session", "sent"}

LEMMA FrameKept ==
    ASSUME FileInv, Mends(conns', routers'), UNCHANGED <<abort, calls, file, closing>>,
           mishaps' \in 0..MaxMishaps
    PROVE  Frames
BY DEF Frames, FileInv, FType

LEMMA RequestFails ==
    ASSUME FileInv, NEW t \in Threads, NEW why \in {"aborted", "transient", "refused"}, NEW cs, NEW rs,
           Mends(cs, rs), RequestFailed(t, why, cs, rs), AtRequest(t), th[t].call = "plane" => th[t].asks = "open",
           UNCHANGED <<abort, calls>>, mishaps' \in 0..MaxMishaps
    PROVE  \E w : Goes(t, w)
<1>0. th[t] \in Thr /\ why \in Results \ {"none"} /\ why # "closed" /\ why # "ok" /\ Lane(th[t])
  BY DEF FileInv, FType, Results, Lanes
<1>1. CASE th[t].asks = "read"
  <2>1. /\ IF why = "transient" THEN ExecuteFailed(t) ELSE Ends(t, why)
        /\ conns' = cs /\ routers' = rs /\ UNCHANGED <<file, state, closing>>
    BY <1>1 DEF RequestFailed
  <2>2. Frames
    BY <2>1, FrameKept
  <2>3. th[t].call = "event" /\ th[t].pc # "idle"
    BY <1>0, <1>1 DEF Lane, AtRequest
  <2>4. LetsGo(t)
    BY <1>1, <2>1 DEF LetsGo, HoldsLock, AtRequest
  <2>5. file'.handle # 0 \/ closing'.taken
    BY <2>1, <2>3, ReadUnderWay
  <2> QED
    BY <1>0, <2>1, <2>2, <2>3, <2>4, <2>5, ExecuteFailedGoes, EndsGoes
<1>2. CASE th[t].asks = "open" /\ th[t].call = "open"
  <2>1. /\ Ends(t, why) /\ conns' = LetGo(cs, rs[file.router].conn)
        /\ routers' = [rs EXCEPT ![file.router].conn = 0]
        /\ closing' = [closing EXCEPT !.taken = TRUE] /\ UNCHANGED <<file, state>>
    BY <1>2 DEF RequestFailed
  <2>2. file.router \in DOMAIN routers /\ DOMAIN routers = DOMAIN rs /\ rs \in Seq(Rtr)
    BY DEF FileInv, FType, Ptrs, Mends
  <2>3. rs[file.router].conn \in 0 .. Len(cs)
    <3>1. rs[file.router] \in Rtr
      BY <2>2, ElementOfSeq
    <3> QED
      BY <2>2, <3>1 DEF Mends, Rtr
  <2>4. Mends(conns', routers')
    <3>1. conns' \in Seq(Conn) /\ Len(conns') = Len(cs)
      BY <2>1, <2>3, LettingGo DEF Mends
    <3>2. routers' \in Seq(Rtr) /\ Len(routers') = Len(rs)
      BY <2>1, <2>2, Emptied
    <3>3. \A q \in DOMAIN rs : /\ routers'[q].aborted = rs[q].aborted
                               /\ routers'[q].conn = IF q = file.router THEN 0 ELSE rs[q].conn
      BY <2>1, <2>2, Emptied
    <3>4. 0 <= Len(cs)
      BY <2>3
    <3> QED
      BY <2>2, <3>1, <3>2, <3>3, <3>4 DEF Mends
  <2>5. /\ closing' \in [res: Results, had: BOOLEAN, heard: BOOLEAN, taken: BOOLEAN]
        /\ closing'.taken /\ closing'.res = closing.res /\ closing'.had = closing.had
        /\ closing'.heard = closing.heard
    BY <2>1 DEF FileInv, FType
  <2>6. Frames
    BY <2>1, <2>4, <2>5 DEF Frames, FileInv, FType
  <2>7. LetsGo(t)
    BY <1>2, <2>1 DEF LetsGo, HoldsLock
  <2> QED
    BY <1>0, <2>1, <2>5, <2>6, <2>7, EndsGoes
<1>3. CASE th[t].asks = "open" /\ th[t].call # "open"
  <2>1. /\ IF why = "transient" /\ th[t].call = "event" THEN ExecuteFailed(t) ELSE Ends(t, why)
        /\ conns' = cs /\ routers' = rs /\ file' = [file EXCEPT !.handle = 0]
        /\ state' = Nobody /\ closing' = [closing EXCEPT !.taken = TRUE]
    BY <1>3 DEF RequestFailed
  <2>2. /\ closing' \in [res: Results, had: BOOLEAN, heard: BOOLEAN, taken: BOOLEAN]
        /\ closing'.taken /\ closing'.res = closing.res /\ closing'.had = closing.had
        /\ closing'.heard = closing.heard
    BY <2>1 DEF FileInv, FType
  <2>3. /\ file' \in File /\ file'.router = file.router /\ file'.recoveries = file.recoveries
        /\ file'.writing = file.writing /\ file'.aborted = file.aborted
    BY <2>1 DEF FileInv, FType, File
  <2>4. Frames
    BY <2>1, <2>2, <2>3 DEF Frames
  <2>5. th[t].call \in {"event", "plane"} /\ th[t].pc \in {"attempt", "sent"}
    BY <1>0, <1>3 DEF Lane, AtRequest
  <2>6. state = t
    BY <1>3, <2>5 DEF FileInv, Locked, Reopening
  <2>7. LetsGo(t)
    BY <2>1, <2>6 DEF LetsGo
  <2> QED
    BY <1>0, <2>1, <2>2, <2>4, <2>5, <2>7, ExecuteFailedGoes, EndsGoes
<1>4. CASE th[t].asks = "close"
  <2>1. /\ th' = [th EXCEPT ![t].pc = "release", ![t].res = CloseResult(why)]
        /\ conns' = cs /\ routers' = rs /\ UNCHANGED <<file, state, closing>>
    BY <1>4 DEF RequestFailed
  <2> DEFINE res == CloseResult(why)
             w == [th[t] EXCEPT !.pc = "release", !.res = res]
  <2>2. res \in Results \ {"none", "closed"} /\ (file.writing => res # "ok")
    BY <1>0 DEF CloseResult, Results
  <2> HIDE DEF res
  <2>3. th' = [th EXCEPT ![t] = w]
    BY <2>1 DEF FileInv, FType, res
  <2>4. w \in Thr
    BY <1>0, <2>2 DEF Thr, Places
  <2>5. /\ w.pc = "release" /\ w.call = "close" /\ w.asks = "close" /\ w.seen = th[t].seen
        /\ w.rtr = th[t].rtr /\ w.conn = th[t].conn /\ w.res = res
    BY <1>0, <1>4 DEF Thr, Lane, AtRequest
  <2> HIDE DEF w
  <2>6. Frames
    BY <2>1, FrameKept
  <2>7. Stands(t, w)
    <3>1. th[t].conn \in Nat /\ Len(conns) \in Nat /\ Len(conns') \in Nat
      BY <1>0, <2>6, SMTT(40) DEF Thr, FileInv, FType, Frames, Mends
    <3> QED
      BY <2>3, <2>4, <2>5, <2>6, <3>1 DEF Stands, Lane, FileInv, Ptrs, Frames, Mends
  <2>8. th[t].call = "close"
    BY <1>0, <1>4 DEF Lane, AtRequest
  <2>9. Locks(t, w)
    BY <2>1, <2>5, <2>8 DEF Locks, HoldsLock
  <2>10. Plays(t, w)
    BY <2>5, <2>8 DEF Plays
  <2>11. closing.taken
    BY <2>8 DEF FileInv, Roles
  <2>12. Holds(t, w)
    BY <2>1, <2>2, <2>5, <2>11 DEF Holds
  <2> QED
    BY <2>6, <2>7, <2>9, <2>10, <2>12 DEF Goes
<1> QED
  BY <1>0, <1>1, <1>2, <1>3, <1>4 DEF Thr

(* A thread moving to another step of the same call.                       *)
LEMMA MovesOn ==
    ASSUME FileInv, NEW t \in Threads, NEW w, w \in Thr, Lane(w), th' = [th EXCEPT ![t] = w],
           w.rtr \in DOMAIN routers, w.conn <= Len(conns'), w.seen <= file.recoveries,
           Mends(conns', routers'), UNCHANGED <<abort, calls, file, closing>>,
           mishaps' \in 0..MaxMishaps, Locks(t, w), w.call = th[t].call, th[t].pc # "idle",
           w.res = th[t].res,
           w.pc \notin {"top", "relock", "newrouter", "arm", "release"} \/ ~file.writing,
           w.pc = "release" => th[t].pc = "release",
           w.asks = "open" /\ w.pc \in {"attempt", "sent"} => Asking(t) /\ w.rtr = th[t].rtr,
           th[t].pc \notin {"pin", "adopt"}
    PROVE  Goes(t, w)
<1>1. Frames
  BY FrameKept
<1>2. Stands(t, w)
  BY DEF Stands
<1>3. Plays(t, w)
  BY DEF Plays
<1>4. Holds(t, w)
  BY DEF Holds, FileInv, NeverFoundNone, Closing
<1> QED
  BY <1>1, <1>2, <1>3, <1>4 DEF Goes

(* The plane's failure: nothing but the thread has changed.                *)
LEMMA PlaneFails ==
    ASSUME FileInv, NEW t \in Threads, NEW cs, NEW rs, Mends(cs, rs), PlaneFailed(t, cs, rs),
           AtRequest(t), th[t].call = "plane", th[t].asks = "read",
           UNCHANGED <<abort, calls>>, mishaps' \in 0..MaxMishaps
    PROVE  \E w : Goes(t, w)
<1>1. conns' = cs /\ routers' = rs /\ UNCHANGED <<file, state, closing>>
  BY DEF PlaneFailed
<1>2. Frames
  BY <1>1, FrameKept
<1>3. LetsGo(t)
  BY <1>1 DEF LetsGo, HoldsLock, AtRequest
<1>4. file'.handle # 0 \/ closing'.taken
  BY <1>1, ReadUnderWay DEF AtRequest
<1>5. CASE Ends(t, "aborted") \/ Ends(t, "transient")
  BY <1>1, <1>2, <1>3, <1>4, <1>5, EndsGoes DEF Results
<1>6. CASE recoverable /\ th' = [th EXCEPT ![t].pc = "relock"]
  <2> DEFINE w == [th[t] EXCEPT !.pc = "relock"]
  <2>0. th[t] \in Thr
    BY DEF FileInv, FType
  <2>1. th' = [th EXCEPT ![t] = w]
    BY <1>6
  <2>2. w \in Thr
    BY <2>0 DEF Thr, Places
  <2>3. /\ w.pc = "relock" /\ w.call = "plane" /\ w.asks = "read" /\ w.seen = th[t].seen
        /\ w.rtr = th[t].rtr /\ w.conn = th[t].conn /\ w.res = th[t].res
    BY <2>0 DEF Thr
  <2> HIDE DEF w
  <2>4. /\ w.rtr \in DOMAIN routers /\ w.conn <= Len(conns') /\ w.seen <= file.recoveries
    <3>1. th[t].conn \in Nat /\ Len(conns) \in Nat /\ Len(conns') \in Nat
      BY <1>2, <2>0, SMTT(40) DEF Thr, FileInv, FType, Frames, Mends
    <3> QED
      BY <1>1, <2>3, <3>1 DEF FileInv, Ptrs, Mends
  <2>5. Locks(t, w)
    BY <1>1, <2>3 DEF Locks, HoldsLock, AtRequest
  <2>6. ~file.writing
    BY <1>6 DEF recoverable
  <2>7. Lane(w)
    BY <2>3 DEF Lane
  <2> QED
    BY <1>1, <2>1, <2>2, <2>3, <2>4, <2>5, <2>6, <2>7, MovesOn DEF AtRequest
<1> QED
  BY <1>5, <1>6 DEF PlaneFailed

(* Letting go of the connection a router has.                              *)
LEMMA Dropping ==
    ASSUME FileInv, NEW cs, NEW rs, Mends(cs, rs), NEW r \in DOMAIN routers
    PROVE  Mends(LetGo(cs, rs[r].conn), [rs EXCEPT ![r].conn = 0])
<1>1. DOMAIN routers = DOMAIN rs /\ rs \in Seq(Rtr) /\ cs \in Seq(Conn)
  BY DEF FileInv, FType, Mends
<1>2. rs[r].conn \in 0 .. Len(cs)
  <2>1. rs[r] \in Rtr
    BY <1>1, ElementOfSeq
  <2> QED
    BY <1>1, <2>1 DEF Mends, Rtr
<1>3. LetGo(cs, rs[r].conn) \in Seq(Conn) /\ Len(LetGo(cs, rs[r].conn)) = Len(cs)
  BY <1>1, <1>2, LettingGo
<1>4. [rs EXCEPT ![r].conn = 0] \in Seq(Rtr) /\ Len([rs EXCEPT ![r].conn = 0]) = Len(rs)
  BY <1>1, Emptied
<1>5. \A q \in DOMAIN rs : /\ [rs EXCEPT ![r].conn = 0][q].aborted = rs[q].aborted
                           /\ [rs EXCEPT ![r].conn = 0][q].conn = IF q = r THEN 0 ELSE rs[q].conn
  BY <1>1, Emptied
<1> QED
  BY <1>1, <1>2, <1>3, <1>4, <1>5 DEF Mends

LEMMA LinkFails ==
    ASSUME FileInv, NEW t \in Threads, NEW cs, NEW rs, Mends(cs, rs), LinkFailed(t, cs, rs), AtRequest(t),
           UNCHANGED <<abort, calls>>, mishaps' \in 0..MaxMishaps
    PROVE  \E w : Goes(t, w)
<1>0. th[t] \in Thr /\ Lane(th[t]) /\ th[t].rtr \in DOMAIN routers
  BY DEF FileInv, FType, Lanes, Ptrs
<1>1. CASE th[t].call = "plane" /\ th[t].asks = "read"
  BY <1>1, PlaneFails DEF LinkFailed
<1>2. CASE ~(th[t].call = "plane" /\ th[t].asks = "read") /\ Resends(t)
  <2>1. /\ th' = [th EXCEPT ![t] = [th[t] EXCEPT !.pc = "attempt", !.tries = @ + 1]]
        /\ IF Drops(rs, th[t].rtr, th[t].conn)
           THEN conns' = LetGo(cs, rs[th[t].rtr].conn) /\ routers' = [rs EXCEPT ![th[t].rtr].conn = 0]
           ELSE conns' = cs /\ routers' = rs
        /\ UNCHANGED <<file, state, closing>>
    BY <1>2 DEF LinkFailed
  <2>2. Mends(conns', routers')
    BY <1>0, <2>1, Dropping
  <2> DEFINE n == th[t].tries + 1
             w == [th[t] EXCEPT !.pc = "attempt", !.tries = n]
  <2>3. n \in 0..Retries + 1
    <3>1. th[t].tries \in 0..Retries + 1 /\ Retries \in Nat /\ th[t].tries < Retries
      BY <1>0, <1>2, FileAssumption DEF Thr, Resends
    <3> QED
      BY <3>1
  <2>4. th' = [th EXCEPT ![t] = w]
    <3>1. [th[t] EXCEPT !.pc = "attempt", !.tries = @ + 1] = w
      BY <1>0 DEF Thr
    <3> QED
      BY <2>1, <3>1
  <2> HIDE DEF n
  <2>5. w \in Thr
    BY <1>0, <2>3 DEF Thr, Places
  <2>6. /\ w.pc = "attempt" /\ w.call = th[t].call /\ w.asks = th[t].asks /\ w.seen = th[t].seen
        /\ w.rtr = th[t].rtr /\ w.conn = th[t].conn /\ w.res = th[t].res
    BY <1>0 DEF Thr
  <2> HIDE DEF w
  <2>7. /\ w.rtr \in DOMAIN routers /\ w.conn <= Len(conns') /\ w.seen <= file.recoveries
    <3>1. th[t].conn \in Nat /\ Len(conns) \in Nat /\ Len(conns') \in Nat
      BY <1>0, <2>2, SMTT(40) DEF Thr, FileInv, FType, Mends
    <3> QED
      BY <2>2, <2>6, <3>1 DEF FileInv, Ptrs, Mends
  <2>8. th[t].asks # "close" /\ th[t].pc \in {"attempt", "sent"}
    BY <1>0, <1>2 DEF Resends, Idempotent, Lane, AtRequest
  <2>9. Lane(w)
    BY <1>0, <1>2, <2>6, <2>8 DEF Lane
  <2>10. Locks(t, w)
    BY <2>1, <2>6, <2>8 DEF Locks, HoldsLock
  <2> QED
    BY <2>1, <2>2, <2>4, <2>5, <2>6, <2>7, <2>8, <2>9, <2>10, MovesOn DEF Asking
<1>3. CASE ~(th[t].call = "plane" /\ th[t].asks = "read") /\ ~Resends(t)
  <2> DEFINE why == IF routers[th[t].rtr].aborted THEN "aborted" ELSE "transient"
  <2>1. RequestFailed(t, why, cs, rs)
    BY <1>3 DEF LinkFailed
  <2>2. why \in {"aborted", "transient", "refused"}
    OBVIOUS
  <2>3. th[t].call = "plane" => th[t].asks = "open"
    BY <1>0, <1>3 DEF Lane, AtRequest
  <2> HIDE DEF why
  <2> QED
    BY <2>1, <2>2, <2>3, RequestFails
<1> QED
  BY <1>1, <1>2, <1>3

(* Router.session gave a thread a connection.                              *)
LEMMA SessionTaken ==
    ASSUME FileInv, NEW t \in Threads, NEW cs, NEW rs, NEW c \in 1 .. Len(cs), Mends(cs, rs),
           TakeSession(t, cs, rs, c), AtSession(t), UNCHANGED <<abort, calls, mishaps>>
    PROVE  \E w : Goes(t, w)
<1>0. th[t] \in Thr /\ Lane(th[t]) /\ mishaps' \in 0..MaxMishaps /\ AtRequest(t)
  BY DEF FileInv, FType, Lanes, AtSession, AtRequest
<1>1. CASE th[t].call = "close" /\ th[t].pc = "session" /\ cs[c].broken
  <2>1. RequestFailed(t, "transient", cs, rs)
    BY <1>1 DEF TakeSession
  <2> QED
    BY <1>0, <1>1, <2>1, RequestFails
<1>2. CASE ~(th[t].call = "close" /\ th[t].pc = "session" /\ cs[c].broken)
  <2> DEFINE p == Onward(t)
             w == [th[t] EXCEPT !.pc = p, !.conn = c]
  <2>1. /\ th' = [th EXCEPT ![t].pc = p, ![t].conn = c]
        /\ conns' = cs /\ routers' = rs /\ UNCHANGED <<file, state, closing>>
    BY <1>2 DEF TakeSession
  <2>2. /\ th[t].pc = "attempt" => p = "sent"
        /\ th[t].pc = "session" /\ th[t].call = "plane" => p = "handle"
        /\ th[t].pc = "session" /\ th[t].call # "plane" => p = "attempt"
    BY DEF Onward
  <2> HIDE DEF p
  <2>3. p \in Places /\ c \in Nat
    BY <2>2 DEF AtSession, Places
  <2>4. th' = [th EXCEPT ![t] = w]
    BY <2>1 DEF FileInv, FType
  <2>5. w \in Thr
    BY <1>0, <2>3 DEF Thr
  <2>6. /\ w.pc = p /\ w.call = th[t].call /\ w.asks = th[t].asks /\ w.seen = th[t].seen
        /\ w.rtr = th[t].rtr /\ w.conn = c /\ w.res = th[t].res
    BY <1>0 DEF Thr
  <2> HIDE DEF w
  <2>7. /\ w.rtr \in DOMAIN routers /\ w.conn <= Len(conns') /\ w.seen <= file.recoveries
    BY <2>1, <2>6 DEF FileInv, Ptrs, Mends
  <2>8. Lane(w)
    BY <1>0, <2>2, <2>6 DEF Lane, AtSession
  <2>9. Locks(t, w)
    BY <1>0, <2>1, <2>2, <2>6 DEF Locks, HoldsLock, AtSession, Lane
  <2>10. /\ w.pc \notin {"top", "relock", "newrouter", "arm", "release"}
         /\ th[t].pc \notin {"idle", "pin", "adopt"}
    BY <2>2, <2>6 DEF AtSession
  <2>11. w.asks = "open" /\ w.pc \in {"attempt", "sent"} => Asking(t) /\ w.rtr = th[t].rtr
    BY <1>0, <2>2, <2>6 DEF AtSession, Asking, Lane
  <2> QED
    BY <1>0, <2>1, <2>4, <2>5, <2>6, <2>7, <2>8, <2>9, <2>10, <2>11, MovesOn
<1> QED
  BY <1>1, <1>2

-----------------------------------------------------------------------------
(* One lemma for the steps of each kind.                                   *)

LEMMA Unmended ==
    ASSUME FileInv
    PROVE  Mends(conns, routers)
<1>1. Len(conns) \in Nat /\ MaxConns \in Nat
  BY FileAssumption DEF FileInv, FType
<1> QED
  BY <1>1 DEF FileInv, FType, Ptrs, Mends

(* The looks a thread takes at the handle, before it has a request.        *)
LEMMA LookGoes ==
    ASSUME FileInv, NEW t \in Threads,
           Top(t) \/ GrabRouter(t) \/ GrabHandle(t) \/ PlaneDeclined(t) \/ ReopenShared(t)
    PROVE  \E w : Goes(t, w)
<1>0. /\ th[t] \in Thr /\ Lane(th[t]) /\ Retries \in Nat /\ file \in File /\ Len(conns) \in Nat
      /\ mishaps \in 0..MaxMishaps /\ file.router \in DOMAIN routers /\ th[t].rtr \in DOMAIN routers
      /\ th[t].seen <= file.recoveries /\ th[t].conn <= Len(conns) /\ Mends(conns, routers)
  BY FileAssumption, Unmended DEF FileInv, FType, Lanes, Ptrs
<1>1. CASE Top(t)
  <2> DEFINE w == [th[t] EXCEPT !.pc = "relock", !.seen = file.recoveries]
  <2>1. /\ th[t].pc = "top" /\ th' = [th EXCEPT ![t] = w]
        /\ UNCHANGED <<conns, routers, file, state, abort, calls, mishaps, closing>>
    BY <1>1 DEF Top, FileInv, FType
  <2>2. w \in Thr
    BY <1>0 DEF Thr, Places, File
  <2>3. /\ w.pc = "relock" /\ w.call = th[t].call /\ w.asks = th[t].asks /\ w.seen = file.recoveries
        /\ w.rtr = th[t].rtr /\ w.conn = th[t].conn /\ w.res = th[t].res
    BY <1>0 DEF Thr
  <2> HIDE DEF w
  <2>4. Lane(w) /\ Locks(t, w)
    BY <1>0, <2>1, <2>3 DEF Lane, Locks, HoldsLock
  <2>5. ~file.writing
    BY <2>1 DEF FileInv, Writers
  <2>6. /\ w.rtr \in DOMAIN routers /\ w.conn <= Len(conns') /\ w.seen <= file.recoveries
    BY <1>0, <2>1, <2>3 DEF File
  <2>7. Mends(conns', routers') /\ mishaps' \in 0..MaxMishaps
    BY <1>0, <2>1
  <2> QED
    BY <2>1, <2>2, <2>3, <2>4, <2>5, <2>6, <2>7, MovesOn
<1>2. CASE GrabRouter(t)
  <2> DEFINE p == IF th[t].call = "plane" THEN "session" ELSE "handle"
             w == [th[t] EXCEPT !.rtr = file.router, !.conn = 0, !.tries = 0, !.pc = p]
  <2>1. /\ th[t].pc = "router" /\ th' = [th EXCEPT ![t] = w]
        /\ UNCHANGED <<conns, routers, file, state, abort, calls, mishaps, closing>>
    BY <1>2 DEF GrabRouter, FileInv, FType
  <2>a. (p = "session" /\ th[t].call = "plane") \/ (p = "handle" /\ th[t].call # "plane")
    OBVIOUS
  <2> HIDE DEF p
  <2>b. 0 \in 0..Retries + 1 /\ p \in Places /\ file.router \in Nat
    BY <1>0, <2>a DEF Places, File
  <2>2. w \in Thr
    BY <1>0, <2>b DEF Thr
  <2>3. /\ w.pc = p /\ w.call = th[t].call /\ w.asks = th[t].asks /\ w.seen = th[t].seen
        /\ w.rtr = file.router /\ w.conn = 0 /\ w.res = th[t].res
    BY <1>0 DEF Thr
  <2> HIDE DEF w
  <2>4. Lane(w) /\ Locks(t, w)
    BY <1>0, <2>1, <2>3, <2>a DEF Lane, Locks, HoldsLock
  <2>6. /\ w.rtr \in DOMAIN routers /\ w.conn <= Len(conns') /\ w.seen <= file.recoveries
    BY <1>0, <2>1, <2>3
  <2>7. Mends(conns', routers') /\ mishaps' \in 0..MaxMishaps
    BY <1>0, <2>1
  <2> QED
    BY <2>1, <2>2, <2>3, <2>4, <2>6, <2>7, <2>a, MovesOn
<1>3. CASE GrabHandle(t) /\ file.handle = 0
  <2>1. /\ th[t].pc = "handle" /\ Ends(t, "closed")
        /\ UNCHANGED <<conns, routers, file, state, abort, calls, mishaps, closing>>
    BY <1>3 DEF GrabHandle
  <2>2. Frames /\ LetsGo(t)
    BY <1>0, <2>1, FrameKept DEF LetsGo, HoldsLock, Lane
  <2>3. closing.taken
    BY <1>0, <1>3, <2>1, ReadUnderWay DEF Lane
  <2> QED
    BY <2>1, <2>2, <2>3, EndsGoes DEF Results
<1>4. CASE GrabHandle(t) /\ file.handle # 0
  <2> DEFINE p == IF th[t].call = "plane" THEN "sent" ELSE "attempt"
             w == [th[t] EXCEPT !.hdl = file.handle, !.pc = p]
  <2>1. /\ th[t].pc = "handle" /\ th' = [th EXCEPT ![t] = w]
        /\ UNCHANGED <<conns, routers, file, state, abort, calls, mishaps, closing>>
    BY <1>4 DEF GrabHandle, FileInv, FType
  <2>a. (p = "sent" /\ th[t].call = "plane") \/ (p = "attempt" /\ th[t].call # "plane")
    OBVIOUS
  <2> HIDE DEF p
  <2>2. w \in Thr
    BY <1>0, <2>a DEF Thr, Places, File
  <2>3. /\ w.pc = p /\ w.call = th[t].call /\ w.asks = th[t].asks /\ w.seen = th[t].seen
        /\ w.rtr = th[t].rtr /\ w.conn = th[t].conn /\ w.res = th[t].res
    BY <1>0 DEF Thr
  <2> HIDE DEF w
  <2>4. Lane(w) /\ Locks(t, w)
    BY <1>0, <2>1, <2>3, <2>a DEF Lane, Locks, HoldsLock
  <2>5. w.asks = "read"
    BY <1>0, <2>1, <2>3 DEF Lane
  <2> QED
    BY <1>0, <2>1, <2>2, <2>3, <2>4, <2>5, <2>a, MovesOn
<1>5. CASE PlaneDeclined(t)
  <2> DEFINE w == [th[t] EXCEPT !.pc = "router", !.call = "event", !.seen = file.recoveries]
  <2>1. /\ th[t].pc = "sent" /\ th[t].call = "plane" /\ th[t].asks = "read" /\ th' = [th EXCEPT ![t] = w]
        /\ UNCHANGED <<conns, routers, file, state, abort, calls, mishaps, closing>>
    BY <1>5 DEF PlaneDeclined, FileInv, FType
  <2>2. w \in Thr
    BY <1>0 DEF Thr, Places, File
  <2>3. /\ w.pc = "router" /\ w.call = "event" /\ w.asks = th[t].asks /\ w.seen = file.recoveries
        /\ w.rtr = th[t].rtr /\ w.conn = th[t].conn /\ w.res = th[t].res
    BY <1>0 DEF Thr
  <2> HIDE DEF w
  <2>4. Lane(w) /\ Locks(t, w)
    BY <1>0, <2>1, <2>3 DEF Lane, Locks, HoldsLock
  <2>5. file.recoveries \in Nat
    BY <1>0 DEF File
  <2>6. Frames
    BY <1>0, <2>1, FrameKept
  <2>7. Stands(t, w)
    BY <1>0, <2>1, <2>2, <2>3, <2>4, <2>5 DEF Stands
  <2>8. Plays(t, w) /\ Holds(t, w)
    BY <2>1, <2>3 DEF Plays, Holds, FileInv, NeverFoundNone
  <2> QED
    BY <2>4, <2>6, <2>7, <2>8 DEF Goes
<1>6. CASE ReopenShared(t)
  <2> DEFINE w == Back(t)
  <2>1. /\ th[t].pc = "relock" /\ th' = [th EXCEPT ![t] = w]
        /\ UNCHANGED <<conns, routers, file, state, abort, calls, mishaps, closing>>
    BY <1>6 DEF ReopenShared, FileInv, FType
  <2>2. w \in Thr
    BY <1>0 DEF Thr, Places, File, Back
  <2>3. /\ w.pc = "router" /\ w.call = "event" /\ w.asks = "read" /\ w.seen = file.recoveries
        /\ w.rtr = th[t].rtr /\ w.conn = th[t].conn /\ w.res = th[t].res
    BY <1>0 DEF Thr, Back
  <2> HIDE DEF w
  <2>4. Lane(w) /\ Locks(t, w)
    BY <1>0, <2>1, <2>3 DEF Lane, Locks, HoldsLock
  <2>5. file.recoveries \in Nat
    BY <1>0 DEF File
  <2>6. Frames
    BY <1>0, <2>1, FrameKept
  <2>7. Stands(t, w)
    BY <1>0, <2>1, <2>2, <2>3, <2>4, <2>5 DEF Stands
  <2>8. Plays(t, w) /\ Holds(t, w)
    BY <1>0, <2>1, <2>3 DEF Plays, Holds, FileInv, NeverFoundNone, Lane
  <2> QED
    BY <2>4, <2>6, <2>7, <2>8 DEF Goes
<1> QED
  BY <1>1, <1>2, <1>3, <1>4, <1>5, <1>6

(* Router.session.                                                         *)
LEMMA SessionGoes ==
    ASSUME FileInv, NEW t \in Threads,
           \/ SessionAborted(t) \/ SessionLive(t) \/ SessionGone(t)
           \/ SessionDial(t) \/ SessionDialFails(t)
    PROVE  \E w : Goes(t, w)
<1> DEFINE r == th[t].rtr
<1>0. /\ th[t] \in Thr /\ Lane(th[t]) /\ Len(conns) \in Nat /\ conns \in Seq(Conn) /\ routers \in Seq(Rtr)
      /\ mishaps \in 0..MaxMishaps /\ r \in DOMAIN routers /\ Mends(conns, routers)
      /\ MaxConns \in Nat /\ MaxMishaps \in Nat /\ routers[r] \in Rtr /\ routers[r].conn <= Len(conns)
  <2>1. /\ th[t] \in Thr /\ Lane(th[t]) /\ Len(conns) \in Nat /\ conns \in Seq(Conn) /\ routers \in Seq(Rtr)
        /\ mishaps \in 0..MaxMishaps /\ r \in DOMAIN routers /\ Mends(conns, routers)
        /\ MaxConns \in Nat /\ MaxMishaps \in Nat /\ routers[r].conn <= Len(conns)
    BY FileAssumption, Unmended DEF FileInv, FType, Lanes, Ptrs
  <2> QED
    BY <2>1, ElementOfSeq
<1>1. CASE SessionAborted(t)
  <2>1. AtRequest(t) /\ UNCHANGED <<abort, calls, mishaps>> /\ RequestFailed(t, "aborted", conns, routers)
    BY <1>1 DEF SessionAborted, AtSession, AtRequest
  <2>2. CASE ~(th[t].call = "plane" /\ th[t].asks = "read")
    <3>1. th[t].call = "plane" => th[t].asks = "open"
      BY <1>0, <2>1, <2>2 DEF Lane, AtRequest
    <3> QED
      BY <1>0, <2>1, <3>1, RequestFails
  <2>3. CASE th[t].call = "plane" /\ th[t].asks = "read"
    <3>1. Ends(t, "aborted") /\ conns' = conns /\ routers' = routers /\ UNCHANGED <<file, state, closing>>
      BY <2>1, <2>3 DEF RequestFailed
    <3>2. Frames /\ LetsGo(t)
      BY <1>0, <2>1, <2>3, <3>1, FrameKept DEF LetsGo, HoldsLock, AtRequest
    <3>3. file'.handle # 0 \/ closing'.taken
      BY <2>1, <2>3, <3>1, ReadUnderWay DEF AtRequest
    <3> QED
      BY <3>1, <3>2, <3>3, EndsGoes DEF Results
  <2> QED
    BY <2>2, <2>3
<1>2. CASE SessionLive(t)
  <2>1. routers[r].conn \in 1 .. Len(conns)
    BY <1>0, <1>2 DEF SessionLive, Live, Rtr
  <2>2. TakeSession(t, conns, routers, routers[r].conn) /\ AtSession(t) /\ UNCHANGED <<abort, calls, mishaps>>
    BY <1>2 DEF SessionLive
  <2> QED
    BY <1>0, <2>1, <2>2, SessionTaken
<1>3. CASE SessionGone(t)
  BY <1>0, <1>3, LinkFails DEF SessionGone, AtSession, AtRequest
<1>4. CASE SessionDial(t)
  <2> DEFINE c == Len(conns) + 1
             cs == Append(conns, NewConn)
             q == [routers[r] EXCEPT !.conn = c]
             rs == [routers EXCEPT ![r].conn = c]
  <2>1. c <= MaxConns /\ TakeSession(t, cs, rs, c) /\ AtSession(t) /\ UNCHANGED <<abort, calls, mishaps>>
    BY <1>4 DEF SessionDial
  <2>2. cs \in Seq(Conn) /\ Len(cs) = c
    <3>1. NewConn \in Conn
      BY DEF NewConn, Conn
    <3> QED
      BY <1>0, <3>1, Longer
  <2>3. q \in Rtr /\ q.conn = c /\ q.aborted = routers[r].aborted
    BY <1>0, SMTT(40) DEF Rtr
  <2>4. rs = [routers EXCEPT ![r] = q]
    OBVIOUS
  <2> HIDE DEF cs, q, rs
  <2>5. rs \in Seq(Rtr) /\ Len(rs) = Len(routers) /\ \A j \in DOMAIN routers : rs[j] = IF j = r THEN q ELSE routers[j]
    BY <1>0, <2>3, <2>4, PutAt
  <2>6. \A j \in DOMAIN routers : rs[j].conn <= Len(cs) /\ rs[j].aborted = routers[j].aborted
    <3>1. \A j \in DOMAIN routers : routers[j].conn \in Nat /\ routers[j].conn <= Len(conns)
      <4>1. \A j \in DOMAIN routers : routers[j] \in Rtr
        BY <1>0, ElementOfSeq
      <4> QED
        BY <4>1 DEF FileInv, Ptrs, Rtr
    <3> QED
      BY <1>0, <2>2, <2>3, <2>5, <3>1
  <2>7. Mends(cs, rs)
    BY <1>0, <2>1, <2>2, <2>5, <2>6 DEF Mends
  <2>8. c \in 1 .. Len(cs)
    BY <1>0, <2>2
  <2> HIDE DEF c
  <2> QED
    BY <2>1, <2>7, <2>8, SessionTaken
<1>5. CASE SessionDialFails(t)
  <2> DEFINE rs == [routers EXCEPT ![r].conn = 0]
  <2>1. AtRequest(t) /\ LinkFailed(t, conns, rs) /\ UNCHANGED <<abort, calls>>
    BY <1>5 DEF SessionDialFails, AtSession, AtRequest
  <2>2. mishaps' \in 0..MaxMishaps
    BY <1>0, <1>5 DEF SessionDialFails
  <2>3. Mends(conns, rs)
    BY <1>0, Emptied DEF Mends
  <2> HIDE DEF rs
  <2> QED
    BY <2>1, <2>2, <2>3, LinkFails
<1> QED
  BY <1>1, <1>2, <1>3, <1>4, <1>5

(* What becomes of a request that was sent.                                *)
LEMMA AnswerGoes ==
    ASSUME FileInv, NEW t \in Threads,
           AnswerRead(t) \/ AnswerOpen(t) \/ RefuseOpen(t) \/ AnswerClose(t) \/ AnswerLost(t)
    PROVE  \E w : Goes(t, w)
<1> DEFINE c == th[t].conn
<1>0. /\ th[t] \in Thr /\ Lane(th[t]) /\ Len(conns) \in Nat /\ conns \in Seq(Conn) /\ routers \in Seq(Rtr)
      /\ mishaps \in 0..MaxMishaps /\ Mends(conns, routers) /\ MaxMishaps \in Nat /\ MaxConns \in Nat
      /\ th[t].rtr \in DOMAIN routers /\ c <= Len(conns) /\ th[t].seen <= file.recoveries
  BY FileAssumption, Unmended DEF FileInv, FType, Lanes, Ptrs
<1>a. th[t].pc = "sent"
  BY DEF AnswerRead, AnswerOpen, RefuseOpen, AnswerClose, AnswerLost, Served
<1>b. c \in DOMAIN conns /\ conns[c] \in Conn
  <2>1. c \in Nat /\ c # 0
    BY <1>0, <1>a DEF Thr, Lane
  <2>2. c \in DOMAIN conns
    BY <1>0, <2>1
  <2> QED
    BY <1>0, <2>2, ElementOfSeq
(* A connection changed in place mends nothing else.                       *)
<1>c. ASSUME NEW x \in Conn
      PROVE  Mends([conns EXCEPT ![c] = x], routers) /\ Len([conns EXCEPT ![c] = x]) = Len(conns)
  BY <1>0, <1>b, PutAt DEF Mends
<1>1. CASE AnswerRead(t)
  <2> DEFINE res == IF th[t].hdl \in conns[c].open THEN "ok" ELSE "notopen"
  <2>1. /\ th[t].asks = "read" /\ Ends(t, res)
        /\ UNCHANGED <<conns, routers, file, state, abort, calls, mishaps, closing>>
    BY <1>1 DEF AnswerRead
  <2>2. res \in Results \ {"none"} /\ res # "closed"
    BY DEF Results
  <2> HIDE DEF res
  <2>3. Frames /\ LetsGo(t)
    BY <1>0, <1>a, <2>1, FrameKept DEF LetsGo, HoldsLock
  <2>4. th[t].call \in {"event", "plane"}
    BY <1>0, <1>a, <2>1 DEF Lane
  <2>5. file.handle # 0 \/ closing.taken
    BY <1>a, <2>4, ReadUnderWay
  <2> QED
    BY <2>1, <2>2, <2>3, <2>5, EndsGoes
<1>2. CASE AnswerOpen(t)
  <2>1. PICK h \in Handles \ conns[c].open :
           /\ conns' = [conns EXCEPT ![c].open = @ \cup {h}]
           /\ th' = [th EXCEPT ![t].pc = "pin", ![t].hdl = h]
    BY <1>2 DEF AnswerOpen
  <2>2. th[t].asks = "open" /\ UNCHANGED <<routers, file, state, abort, calls, mishaps, closing>>
    BY <1>2 DEF AnswerOpen
  <2> DEFINE x == [conns[c] EXCEPT !.open = @ \cup {h}]
             w == [th[t] EXCEPT !.pc = "pin", !.hdl = h]
  <2>3. x \in Conn /\ conns' = [conns EXCEPT ![c] = x]
    BY <1>b, <2>1 DEF Conn
  <2>4. Mends(conns', routers') /\ Len(conns') = Len(conns)
    <3> HIDE DEF x
    <3>1. Mends([conns EXCEPT ![c] = x], routers) /\ Len([conns EXCEPT ![c] = x]) = Len(conns)
      BY <1>c, <2>3
    <3> QED
      BY <2>2, <2>3, <3>1
  <2>5. th' = [th EXCEPT ![t] = w]
    BY <2>1 DEF FileInv, FType
  <2>6. w \in Thr
    BY <1>0 DEF Thr, Places
  <2>7. /\ w.pc = "pin" /\ w.call = th[t].call /\ w.asks = "open" /\ w.seen = th[t].seen /\ w.hdl = h
        /\ w.rtr = th[t].rtr /\ w.conn = th[t].conn /\ w.res = th[t].res
    BY <1>0, <2>2 DEF Thr
  <2>8. h # 0
    BY FileAssumption
  <2> HIDE DEF w, x
  <2>9. th[t].call # "close"
    BY <1>0, <1>a, <2>2 DEF Lane
  <2>10. Lane(w) /\ Locks(t, w)
    BY <1>a, <2>2, <2>7, <2>8, <2>9 DEF Lane, Locks, HoldsLock
  <2>11. /\ w.rtr \in DOMAIN routers /\ w.conn <= Len(conns') /\ w.seen <= file.recoveries
         /\ mishaps' \in 0..MaxMishaps
    BY <1>0, <2>2, <2>4, <2>7
  <2> QED
    BY <1>a, <2>2, <2>4, <2>5, <2>6, <2>7, <2>10, <2>11, MovesOn
<1>3. CASE RefuseOpen(t)
  <2>1. /\ th[t].asks = "open" /\ RequestFailed(t, "refused", conns, routers) /\ AtRequest(t)
        /\ UNCHANGED <<abort, calls>> /\ mishaps' = mishaps + 1 /\ mishaps < MaxMishaps
    BY <1>3, <1>a DEF RefuseOpen, AtRequest
  <2>2. mishaps' \in 0..MaxMishaps
    BY <1>0, <2>1
  <2> QED
    BY <1>0, <2>1, <2>2, RequestFails
<1>4. CASE AnswerClose(t)
  <2> DEFINE known == th[t].hdl \in conns[c].open
             res == IF known THEN "ok" ELSE "notopen"
             w == [th[t] EXCEPT !.pc = "release", !.res = res]
             x == [conns[c] EXCEPT !.open = @ \ {th[t].hdl}]
  <2>1. /\ th[t].asks = "close" /\ conns' = [conns EXCEPT ![c] = x]
        /\ closing' = [closing EXCEPT !.heard = known]
        /\ th' = [th EXCEPT ![t].pc = "release", ![t].res = res]
        /\ UNCHANGED <<routers, file, state, abort, calls, mishaps>>
    BY <1>4, <1>b DEF AnswerClose
  <2>2. x \in Conn
    BY <1>b DEF Conn
  <2>3. Mends(conns', routers') /\ Len(conns') = Len(conns)
    <3> HIDE DEF x
    <3>1. Mends([conns EXCEPT ![c] = x], routers) /\ Len([conns EXCEPT ![c] = x]) = Len(conns)
      BY <1>c, <2>2
    <3> QED
      BY <2>1, <3>1
  <2>4. (res = "ok" => known) /\ res \in {"ok", "notopen"} /\ known \in BOOLEAN
    OBVIOUS
  <2> HIDE DEF x
  <2>5. th' = [th EXCEPT ![t] = w]
    BY <2>1 DEF FileInv, FType
  <2> HIDE DEF known, res
  <2>6. w \in Thr
    BY <1>0, <2>4, ZenonT(60) DEF Thr, Places, Results
  <2>7. th[t].call = "close"
    BY <1>0, <1>a, <2>1 DEF Lane
  <2>8. /\ w.pc = "release" /\ w.call = "close" /\ w.asks = "close" /\ w.seen = th[t].seen
        /\ w.rtr = th[t].rtr /\ w.conn = th[t].conn /\ w.res = res
    BY <1>0, <2>1, <2>7 DEF Thr
  <2> HIDE DEF w
  <2>9. /\ closing' \in [res: Results, had: BOOLEAN, heard: BOOLEAN, taken: BOOLEAN]
        /\ closing'.taken = closing.taken /\ closing'.res = closing.res /\ closing'.had = closing.had
        /\ closing'.heard = known
    BY <2>1, <2>4 DEF FileInv, FType
  <2>10. Frames
    BY <1>0, <2>1, <2>3, <2>9 DEF Frames, FileInv, FType
  <2>11. Lane(w) /\ Locks(t, w)
    BY <2>1, <2>7, <2>8 DEF Lane, Locks, HoldsLock
  <2>12. Stands(t, w)
    BY <1>0, <2>3, <2>5, <2>6, <2>8, <2>11 DEF Stands
  <2>13. closing.taken
    BY <2>7 DEF FileInv, Roles
  <2>14. Plays(t, w) /\ Holds(t, w)
    BY <2>4, <2>7, <2>8, <2>9, <2>13 DEF Plays, Holds
  <2> QED
    BY <2>10, <2>11, <2>12, <2>14 DEF Goes
<1>5. CASE AnswerLost(t)
  <2>1. mishaps' \in 0..MaxMishaps /\ UNCHANGED <<abort, calls>> /\ AtRequest(t)
    BY <1>0, <1>5 DEF AnswerLost, AtRequest
  <2> DEFINE x == [conns[c] EXCEPT !.broken = TRUE]
  <2>2. LinkFailed(t, LetGo(conns, c), routers) \/ LinkFailed(t, [conns EXCEPT ![c].broken = TRUE], routers)
    BY <1>5 DEF AnswerLost
  <2>3. x \in Conn /\ [conns EXCEPT ![c].broken = TRUE] = [conns EXCEPT ![c] = x]
    BY <1>b DEF Conn
  <2>4. Mends(LetGo(conns, c), routers)
    <3>1. Shut \in Conn /\ c # 0
      BY <1>0, <1>b DEF Shut, Conn
    <3> QED
      BY <1>c, <3>1 DEF LetGo
  <2>5. Mends([conns EXCEPT ![c] = x], routers)
    BY <1>c, <2>3
  <2> QED
    BY <2>1, <2>2, <2>3, <2>4, <2>5, LinkFails
<1> QED
  BY <1>1, <1>2, <1>3, <1>4, <1>5

(* _reopen: refused, begun, and ended with a new handle in place.          *)
LEMMA ReopenGoes ==
    ASSUME FileInv, NEW t \in Threads, ReopenRefused(t) \/ ReopenBegin(t) \/ Adopt(t)
    PROVE  \E w : Goes(t, w)
<1>0. /\ th[t] \in Thr /\ Lane(th[t]) /\ Len(conns) \in Nat /\ conns \in Seq(Conn) /\ routers \in Seq(Rtr)
      /\ mishaps \in 0..MaxMishaps /\ Mends(conns, routers) /\ file.router \in DOMAIN routers
      /\ th[t].rtr \in DOMAIN routers /\ th[t].conn <= Len(conns) /\ th[t].seen <= file.recoveries
  BY FileAssumption, Unmended DEF FileInv, FType, Lanes, Ptrs
<1>1. CASE ReopenRefused(t)
  <2>1. /\ th[t].pc = "relock" /\ Ends(t, "aborted")
        /\ UNCHANGED <<conns, routers, file, state, abort, calls, mishaps, closing>>
    BY <1>1 DEF ReopenRefused
  <2>2. Frames /\ LetsGo(t)
    BY <1>0, <2>1, FrameKept DEF LetsGo, HoldsLock, Lane
  <2>3. file.handle # 0 \/ closing.taken
    BY <1>0, <2>1, ReadUnderWay DEF Lane
  <2> QED
    BY <2>1, <2>2, <2>3, EndsGoes DEF Results
<1>2. CASE ReopenBegin(t)
  <2> DEFINE w == [th[t] EXCEPT !.pc = "newrouter"]
  <2>1. /\ th[t].pc = "relock" /\ state = Nobody /\ state' = t
        /\ conns' = LetGo(conns, routers[file.router].conn)
        /\ routers' = [routers EXCEPT ![file.router].conn = 0]
        /\ th' = [th EXCEPT ![t] = w]
        /\ UNCHANGED <<file, abort, calls, mishaps, closing>>
    BY <1>2 DEF ReopenBegin, FileInv, FType
  <2>2. Mends(conns', routers')
    BY <1>0, <2>1, Dropping
  <2>3. w \in Thr
    BY <1>0 DEF Thr, Places
  <2>4. /\ w.pc = "newrouter" /\ w.call = th[t].call /\ w.asks = th[t].asks /\ w.seen = th[t].seen
        /\ w.rtr = th[t].rtr /\ w.conn = th[t].conn /\ w.res = th[t].res
    BY <1>0 DEF Thr
  <2> HIDE DEF w
  <2>5. Lane(w) /\ Locks(t, w)
    BY <1>0, <2>1, <2>4 DEF Lane, Locks, HoldsLock
  <2>6. ~file.writing
    BY <2>1 DEF FileInv, Writers
  <2>7. /\ w.rtr \in DOMAIN routers /\ w.conn <= Len(conns') /\ w.seen <= file.recoveries
        /\ mishaps' \in 0..MaxMishaps
    <3>1. th[t].conn \in Nat /\ Len(conns') \in Nat
      BY <1>0, <2>2 DEF Thr, Mends
    <3> QED
      BY <1>0, <2>1, <2>2, <2>4, <3>1 DEF Mends
  <2> QED
    BY <2>1, <2>2, <2>3, <2>4, <2>5, <2>6, <2>7, MovesOn
<1>3. CASE Adopt(t)
  <2>1. /\ th[t].pc = "adopt" /\ file' = [file EXCEPT !.handle = th[t].hdl]
        /\ state' = IF th[t].call = "open" THEN state ELSE Nobody
        /\ UNCHANGED <<conns, routers, abort, calls, mishaps, closing>>
    BY <1>3 DEF Adopt
  <2>2. /\ file' \in File /\ file'.router = file.router /\ file'.recoveries = file.recoveries
        /\ file'.writing = file.writing /\ file'.aborted = file.aborted /\ file'.handle = th[t].hdl
    BY <1>0, <2>1 DEF FileInv, FType, File, Thr
  <2>3. th[t].hdl # 0 /\ th[t].call \in {"open", "event", "plane"}
    BY <1>0, <2>1 DEF Lane, Thr
  <2>4. Frames
    BY <1>0, <2>1, <2>2 DEF Frames, FileInv, FType
  <2>5. CASE th[t].call = "open"
    <3>1. Ends(t, "ok") /\ LetsGo(t)
      BY <1>3, <2>1, <2>5 DEF Adopt, Ends, LetsGo, HoldsLock
    <3> QED
      BY <2>1, <2>2, <2>3, <2>4, <3>1, EndsGoes DEF Results
  <2>6. CASE th[t].call \in {"event", "plane"}
    <3> DEFINE w == Back(t)
    <3>1. th' = [th EXCEPT ![t] = w]
      BY <1>3, <2>6 DEF Adopt
    <3>2. state = t
      BY <2>1, <2>6 DEF FileInv, Locked, Reopening
    <3>a. file \in File /\ file.recoveries \in Nat
      BY DEF FileInv, FType, File
    <3>3. w \in Thr
      BY <1>0, <3>a DEF Thr, Places, Back
    <3>4. /\ w.pc = "router" /\ w.call = "event" /\ w.asks = "read" /\ w.seen = file.recoveries
          /\ w.rtr = th[t].rtr /\ w.conn = th[t].conn /\ w.res = th[t].res
      BY <1>0 DEF Thr, Back
    <3> HIDE DEF w
    <3>5. Lane(w) /\ Locks(t, w)
      BY <2>1, <2>6, <3>2, <3>4 DEF Lane, Locks, HoldsLock
    <3>6. Stands(t, w)
      BY <1>0, <2>1, <3>1, <3>3, <3>4, <3>5, <3>a DEF Stands
    <3>7. calls > 0 /\ calls # 0
      <4>1. calls > 0
        BY <2>1, <2>6, ReadUnderWay
      <4> QED
        BY <4>1 DEF FileInv, FType
    <3>8. Plays(t, w) /\ Holds(t, w)
      BY <2>1, <2>2, <2>3, <2>6, <3>4, <3>7 DEF Plays, Holds, FileInv, NeverFoundNone
    <3> QED
      BY <2>4, <3>5, <3>6, <3>8 DEF Goes
  <2> QED
    BY <2>3, <2>5, <2>6
<1> QED
  BY <1>1, <1>2, <1>3

(* While one thread is opening the file, no other has an open to send.     *)
LEMMA OpensAlone ==
    ASSUME FileInv, NEW t \in Threads, NEW u \in Threads \ {t}, th[t].pc # "idle",
           Reopening(t) \/ th[t].call = "open"
    PROVE  ~Asking(u)
<1> SUFFICES ASSUME Asking(u)
             PROVE  FALSE
  OBVIOUS
<1>1. th[u].call \in {"event", "plane", "open"} /\ th[u].pc \in {"attempt", "sent"} /\ th[u].asks = "open"
  BY DEF Asking, FileInv, Lanes, Lane
<1>2. CASE th[u].call = "open"
  <2>1. u = Opener /\ \A v \in Threads \ {Opener} : th[v].pc = "idle"
    BY <1>2 DEF FileInv, Roles
  <2> QED
    BY <2>1
<1>3. CASE th[t].call = "open"
  <2>1. t = Opener /\ \A v \in Threads \ {Opener} : th[v].pc = "idle"
    BY <1>3 DEF FileInv, Roles
  <2> QED
    BY <1>1, <2>1
<1>4. CASE th[u].call \in {"event", "plane"} /\ Reopening(t)
  <2>1. state = t
    BY <1>4 DEF FileInv, Locked
  <2>2. state = u
    BY <1>1, <1>4 DEF FileInv, Locked, Reopening
  <2> QED
    BY <2>1, <2>2
<1> QED
  BY <1>1, <1>2, <1>3, <1>4

(* A router made and put in place by the thread that opens the file.       *)
LEMMA RouterReplaced ==
    ASSUME FileInv, NEW t \in Threads, ReopenRouter(t) \/ Pin(t)
    PROVE  FileInv'
<1> USE DEF FileInv
<1> DEFINE n == Len(routers) + 1
           p == IF ReopenRouter(t) THEN "arm" ELSE "adopt"
           w == [th[t] EXCEPT !.pc = p]
<1>0. /\ th[t] \in Thr /\ Lane(th[t]) /\ routers \in Seq(Rtr) /\ Len(routers) \in Nat /\ Len(conns) \in Nat
      /\ file.router \in DOMAIN routers /\ th[t].rtr \in DOMAIN routers /\ Opener \in Threads
      /\ \A r \in DOMAIN routers : routers[r] \in Rtr
  BY FileAssumption, ElementOfSeq DEF FType, Ptrs, Lanes
<1>a. /\ routers' \in Seq(Rtr) /\ Len(routers') = n /\ DOMAIN routers' = 1 .. n
      /\ \A r \in DOMAIN routers : /\ routers'[r].aborted = routers[r].aborted
                                   /\ routers'[r].conn \in {0, routers[r].conn}
      /\ routers'[n].conn <= Len(conns)
      /\ \A r \in DOMAIN routers : r \in DOMAIN routers' /\ r # n
  <2>1. CASE ReopenRouter(t)
    <3>1. routers' = Append(routers, NewRouter(0, TRUE)) /\ NewRouter(0, TRUE) \in Rtr
      BY <2>1 DEF ReopenRouter, NewRouter, Rtr
    <3> DEFINE new == NewRouter(0, TRUE)
    <3>2. new.conn = 0 /\ 0 <= Len(conns)
      BY <1>0 DEF NewRouter
    <3>3. routers' = Append(routers, new) /\ new \in Rtr
      BY <3>1
    <3> HIDE DEF new
    <3>4. /\ routers' \in Seq(Rtr) /\ Len(routers') = n /\ DOMAIN routers' = 1 .. n
          /\ \A r \in DOMAIN routers : routers'[r] = routers[r]
          /\ routers'[n] = new
      BY <1>0, <3>3, Longer
    <3>5. \A r \in DOMAIN routers : r \in 1 .. n /\ r # n
      BY <1>0
    <3> QED
      BY <3>2, <3>4, <3>5
  <2>2. CASE Pin(t)
    <3> DEFINE new == NewRouter(routers[file.router].conn, FALSE)
               rs == Append(routers, new)
    <3>1. routers' = [rs EXCEPT ![file.router].conn = 0]
      BY <2>2 DEF Pin
    <3>2. new \in Rtr /\ new.conn = routers[file.router].conn
      BY <1>0 DEF NewRouter, Rtr
    <3> HIDE DEF new
    <3>3. /\ rs \in Seq(Rtr) /\ Len(rs) = n /\ DOMAIN rs = 1 .. n
          /\ \A r \in DOMAIN routers : rs[r] = routers[r]
          /\ rs[n] = new
      BY <1>0, <3>2, Longer
    <3> HIDE DEF rs
    <3>4. file.router \in DOMAIN rs /\ \A r \in DOMAIN routers : r \in DOMAIN rs /\ r # n
      BY <1>0, <3>3
    <3>5. /\ routers' \in Seq(Rtr) /\ Len(routers') = n /\ DOMAIN routers' = DOMAIN rs
          /\ \A r \in DOMAIN rs : /\ routers'[r].aborted = rs[r].aborted
                                  /\ routers'[r].conn = IF r = file.router THEN 0 ELSE rs[r].conn
      BY <3>1, <3>3, <3>4, Emptied
    <3>6. routers'[n].conn = routers[file.router].conn
      <4>1. n \in DOMAIN rs /\ n # file.router
        BY <1>0, <3>3, <3>4
      <4> QED
        BY <3>2, <3>3, <3>5, <4>1
    <3>7. routers[file.router].conn <= Len(conns)
      BY DEF Ptrs
    <3> QED
      BY <3>3, <3>4, <3>5, <3>6, <3>7
  <2> QED
    BY <2>1, <2>2
<1>b. /\ th' = [th EXCEPT ![t] = w] /\ file' = [file EXCEPT !.router = n]
      /\ UNCHANGED <<conns, state, abort, calls, mishaps, closing>>
  <2>1. CASE ReopenRouter(t)
    BY <1>a, <2>1 DEF ReopenRouter
  <2>2. CASE Pin(t) /\ ~ReopenRouter(t)
    BY <1>a, <2>2 DEF Pin
  <2> QED
    BY <2>1, <2>2
<1>c. /\ file' \in File /\ file'.router = n /\ file'.recoveries = file.recoveries
      /\ file'.writing = file.writing /\ file'.aborted = file.aborted /\ file'.handle = file.handle
  <2>1. n \in Nat /\ file \in File
    BY <1>0 DEF FType
  <2> HIDE DEF n
  <2> QED
    BY <1>b, <2>1 DEF File
<1>d. \/ p = "arm" /\ th[t].pc = "newrouter"
      \/ p = "adopt" /\ th[t].pc = "pin"
  BY DEF ReopenRouter, Pin
<1> HIDE DEF p
<1>e. w \in Thr
  BY <1>0, <1>d DEF Thr, Places
<1>f. /\ w.pc = p /\ w.call = th[t].call /\ w.asks = th[t].asks /\ w.seen = th[t].seen
      /\ w.rtr = th[t].rtr /\ w.conn = th[t].conn /\ w.res = th[t].res /\ w.hdl = th[t].hdl
  BY <1>0 DEF Thr
<1> HIDE DEF w
<1>g. \A u \in Threads : th'[u] = IF u = t THEN w ELSE th[u]
  BY <1>b DEF FType
<1>h. th[t].pc # "idle" /\ (Reopening(t) \/ th[t].call = "open")
  BY <1>0, <1>d DEF Lane, Reopening, Thr
<1>1. FType'
  BY <1>a, <1>b, <1>c, <1>e DEF FType
<1>2. Ptrs'
  <2>1. \A r \in DOMAIN routers' : routers'[r].conn <= Len(conns')
    <3>1. \A r \in DOMAIN routers : routers'[r].conn <= Len(conns)
      BY <1>0, <1>a DEF Ptrs
    <3>2. \A r \in DOMAIN routers' : r \in DOMAIN routers \/ r = n
      BY <1>0, <1>a
    <3> QED
      BY <1>a, <1>b, <3>1, <3>2
  <2>2. n \in DOMAIN routers' /\ DOMAIN routers \subseteq DOMAIN routers'
    BY <1>0, <1>a
  <2> QED
    BY <1>b, <1>c, <1>f, <1>g, <2>1, <2>2 DEF Ptrs
<1>3. Lanes'
  BY <1>0, <1>d, <1>f, <1>g DEF Lanes, Lane
<1>4. Locked'
  BY <1>b, <1>d, <1>f, <1>g DEF Locked, Reopening
<1>5. Roles'
  <2>1. \A u \in Threads : /\ th'[u].call = th[u].call /\ th'[u].res = th[u].res
                           /\ th'[u].pc = "idle" <=> th[u].pc = "idle"
    BY <1>d, <1>f, <1>g
  <2> QED
    BY <1>b, <2>1 DEF Roles
<1>6. Handled'
  <2>1. \A u \in Threads : th'[u].res = th[u].res
    BY <1>f, <1>g
  <2>2. Fresh' <=> Fresh
    BY <1>0, <1>b, <2>1 DEF Fresh
  <2>3. ASSUME Fresh
        PROVE  th'[Opener].pc = "adopt"
    <3>1. calls = 0
      BY <2>3 DEF Fresh
    <3>2. th[t].call \notin {"event", "plane"}
      BY <1>h, <3>1 DEF Roles
    <3>3. t = Opener /\ th[t].pc # "newrouter"
      BY <1>0, <1>h, <3>2 DEF Roles, Reopening, Lane
    <3> QED
      BY <1>d, <1>f, <1>g, <3>3
  <2> QED
    BY <1>b, <1>c, <2>2, <2>3 DEF Handled
<1>7. NeverFoundNone'
  BY <1>b, <1>f, <1>g DEF NeverFoundNone
<1>8. Writers'
  BY <1>b, <1>c, <1>d, <1>f, <1>g DEF Writers
<1>9. Closing'
  BY <1>b, <1>c, <1>d, <1>f, <1>g DEF Closing
<1>10. CloseHonest'
  BY <1>b, <1>c DEF CloseHonest
<1>11. Aborting'
  <2>1. \A u \in Threads : ~Asking(u)'
    <3> SUFFICES ASSUME NEW u \in Threads
                 PROVE  ~Asking(u)'
      OBVIOUS
    <3>1. CASE u = t
      BY <1>d, <1>f, <1>g, <3>1 DEF Asking
    <3>2. CASE u # t
      <4>1. ~Asking(u)
        BY <1>h, <3>2, OpensAlone
      <4> QED
        BY <1>g, <3>2, <4>1 DEF Asking
    <3> QED
      BY <3>1, <3>2
  <2>2. abort.rtr \in DOMAIN routers
    BY DEF Ptrs
  <2> QED
    BY <1>a, <1>b, <1>c, <2>1, <2>2 DEF Aborting
<1> QED
  BY <1>1, <1>2, <1>3, <1>4, <1>5, <1>6, <1>7, <1>8, <1>9, <1>10, <1>11

(* An abort is passed on to the router a re-open has made.                 *)
LEMMA ReopenArmed ==
    ASSUME FileInv, NEW t \in Threads, ReopenArm(t)
    PROVE  FileInv'
<1> USE DEF FileInv
<1> DEFINE n == file.router
           q == [routers[n] EXCEPT !.aborted = @ \/ file.aborted, !.reconnect = @ /\ ~file.aborted]
           more == file.recoveries + 1
           w == [th[t] EXCEPT !.pc = "attempt", !.asks = "open", !.rtr = n, !.conn = 0, !.tries = 0]
<1>0. /\ th[t] \in Thr /\ Lane(th[t]) /\ routers \in Seq(Rtr) /\ Len(routers) \in Nat /\ Len(conns) \in Nat
      /\ n \in DOMAIN routers /\ routers[n] \in Rtr /\ file \in File /\ Opener \in Threads
      /\ file.aborted \in BOOLEAN /\ Retries \in Nat
  BY FileAssumption, ElementOfSeq DEF FType, Ptrs, Lanes, File
<1>a. th[t].pc = "arm" /\ UNCHANGED <<conns, state, abort, calls, mishaps, closing>>
  BY DEF ReopenArm
<1>b. /\ q \in Rtr /\ q.conn = routers[n].conn /\ q.aborted = (routers[n].aborted \/ file.aborted)
  BY <1>0 DEF Rtr
<1>c. routers' = [routers EXCEPT ![n] = q]
  <2>1. routers' = [routers EXCEPT ![n].aborted = @ \/ file.aborted, ![n].reconnect = @ /\ ~file.aborted]
    BY DEF ReopenArm
  <2> QED
    BY <1>0, <2>1 DEF Rtr
<1>d. th' = [th EXCEPT ![t] = w] /\ file' = [file EXCEPT !.recoveries = more]
  BY DEF ReopenArm
<1>e. w \in Thr
  <2>1. 0 \in 0..Retries + 1 /\ n \in Nat
    BY <1>0 DEF File
  <2> QED
    BY <1>0, <2>1 DEF Thr, Places
<1>f. /\ w.pc = "attempt" /\ w.call = th[t].call /\ w.asks = "open" /\ w.seen = th[t].seen
      /\ w.rtr = n /\ w.conn = 0 /\ w.res = th[t].res
  BY <1>0 DEF Thr
<1>m. more \in Nat /\ \A i \in Nat : i <= file.recoveries => i <= more
  BY <1>0 DEF File
<1> HIDE DEF more
<1>g. /\ file' \in File /\ file'.router = n /\ file'.recoveries = more
      /\ file'.writing = file.writing /\ file'.aborted = file.aborted /\ file'.handle = file.handle
  BY <1>0, <1>d, <1>m DEF File
<1> HIDE DEF w, q
<1>h. \A u \in Threads : th'[u] = IF u = t THEN w ELSE th[u]
  BY <1>d DEF FType
<1>i. /\ routers' \in Seq(Rtr) /\ DOMAIN routers' = DOMAIN routers /\ Len(routers') = Len(routers)
      /\ \A r \in DOMAIN routers : /\ routers'[r].conn = routers[r].conn
                                   /\ routers[r].aborted => routers'[r].aborted
      /\ file.aborted => routers'[n].aborted
  <2>1. /\ routers' \in Seq(Rtr) /\ DOMAIN routers' = DOMAIN routers /\ Len(routers') = Len(routers)
        /\ \A r \in DOMAIN routers : routers'[r] = IF r = n THEN q ELSE routers[r]
    BY <1>0, <1>b, <1>c, PutAt
  <2> QED
    BY <1>0, <1>b, <2>1
<1>j. th[t].call \in {"event", "plane"} /\ Reopening(t)
  BY <1>0, <1>a DEF Lane, Reopening
<1>k. calls > 0 /\ calls # 0
  <2>1. calls > 0
    BY <1>a, <1>j DEF Roles
  <2> QED
    BY <2>1 DEF FType
<1>1. FType'
  BY <1>a, <1>d, <1>e, <1>g, <1>i DEF FType
<1>2. Ptrs'
  <2>1. \A u \in Threads : th[u].seen \in Nat
    BY DEF FType, Thr
  <2>2. \A u \in Threads : /\ th'[u].rtr \in DOMAIN routers /\ th'[u].conn <= Len(conns)
                           /\ th'[u].seen <= more
    BY <1>0, <1>f, <1>h, <1>m, <2>1 DEF Ptrs
  <2> QED
    BY <1>0, <1>a, <1>g, <1>i, <2>2 DEF Ptrs
<1>3. Lanes'
  BY <1>f, <1>h, <1>j DEF Lanes, Lane
<1>4. Locked'
  BY <1>a, <1>f, <1>h, <1>j DEF Locked, Reopening
<1>5. Roles'
  <2>1. \A u \in Threads : /\ th'[u].call = th[u].call /\ th'[u].res = th[u].res
                           /\ (th'[u].pc = "idle" <=> th[u].pc = "idle")
    BY <1>a, <1>f, <1>h
  <2> QED
    BY <1>a, <2>1 DEF Roles
<1>6. Handled'
  BY <1>a, <1>g, <1>k DEF Handled, Fresh
<1>7. NeverFoundNone'
  BY <1>a, <1>f, <1>h DEF NeverFoundNone
<1>8. Writers'
  <2>1. ~file.writing
    BY <1>a DEF Writers
  <2> QED
    BY <1>g, <2>1 DEF Writers
<1>9. Closing'
  BY <1>a, <1>f, <1>g, <1>h DEF Closing
<1>10. CloseHonest'
  BY <1>a, <1>g DEF CloseHonest
<1>11. Aborting'
  <2>1. ASSUME NEW u \in Threads, Asking(u)'
        PROVE  u = t
    <3> SUFFICES ASSUME u # t
                 PROVE  FALSE
      OBVIOUS
    <3>1. ~Asking(u)
      BY <1>a, <1>j, OpensAlone
    <3> QED
      BY <1>h, <2>1, <3>1 DEF Asking
  <2>2. abort.rtr \in DOMAIN routers
    BY DEF Ptrs
  <2>3. abort'.pc # "no" => file'.aborted
    BY <1>a, <1>g DEF Aborting
  <2>4. abort'.pc = "done" => routers'[abort'.rtr].aborted
    BY <1>a, <1>i, <2>2 DEF Aborting
  <2>5. th'[t].rtr = file'.router /\ (abort'.pc \in {"grabbed", "done"} => routers'[th'[t].rtr].aborted)
    BY <1>a, <1>f, <1>g, <1>h, <1>i DEF Aborting
  <2> QED
    BY <2>1, <2>3, <2>4, <2>5 DEF Aborting
<1> QED
  BY <1>1, <1>2, <1>3, <1>4, <1>5, <1>6, <1>7, <1>8, <1>9, <1>10, <1>11

-----------------------------------------------------------------------------
(* The calls of the application.                                           *)

LEMMA Opened ==
    ASSUME FileInv, Open
    PROVE  FileInv'
<1> USE DEF FileInv
<1> DEFINE w == [th[Opener] EXCEPT !.pc = "attempt", !.call = "open", !.asks = "open", !.rtr = file.router]
<1>0. /\ Opener \in Threads /\ th[Opener] \in Thr /\ file.router \in DOMAIN routers /\ file.router \in Nat
      /\ Len(routers) \in Nat /\ routers \in Seq(Rtr)
  BY FileAssumption DEF FType, Ptrs, File
<1>a. /\ th[Opener].pc = "idle" /\ th[Opener].res = "none" /\ calls = 0
      /\ UNCHANGED <<conns, routers, file, state, abort, calls, mishaps, closing>>
      /\ th' = [th EXCEPT ![Opener] = w]
  BY DEF Open
<1>b. w \in Thr
  BY <1>0 DEF Thr, Places
<1>c. /\ w.pc = "attempt" /\ w.call = "open" /\ w.asks = "open" /\ w.seen = th[Opener].seen
      /\ w.rtr = file.router /\ w.conn = th[Opener].conn /\ w.res = "none"
  BY <1>0, <1>a DEF Thr
<1> HIDE DEF w
<1>d. \A u \in Threads : th'[u] = IF u = Opener THEN w ELSE th[u]
  BY <1>a DEF FType
<1>e. \A u \in Threads \ {Opener} : th[u].pc = "idle"
  <2> SUFFICES ASSUME NEW u \in Threads, u # Opener, th[u].pc # "idle"
               PROVE  FALSE
    OBVIOUS
  <2>1. th[u].call \in {"open", "event", "plane", "close"}
    BY DEF FType, Thr
  <2>2. th[u].call \in {"event", "plane"}
    BY <2>1 DEF Roles
  <2>3. calls > 0
    BY <2>2 DEF Roles
  <2> QED
    BY <1>a, <2>3
<1>1. FType'
  BY <1>a, <1>b DEF FType
<1>2. Ptrs'
  BY <1>0, <1>a, <1>c, <1>d DEF Ptrs
<1>3. Lanes'
  BY <1>c, <1>d DEF Lanes, Lane
<1>4. Locked'
  BY <1>a, <1>c, <1>d DEF Locked, Reopening
<1>5. Roles'
  BY <1>a, <1>c, <1>d, <1>e DEF Roles
<1>6. Handled'
  BY <1>0, <1>a, <1>c, <1>d DEF Handled, Fresh
<1>7. NeverFoundNone'
  BY <1>a, <1>c, <1>d DEF NeverFoundNone
<1>8. Writers'
  BY <1>a, <1>c, <1>d DEF Writers
<1>9. Closing'
  BY <1>a, <1>c, <1>d DEF Closing
<1>10. CloseHonest'
  BY <1>a DEF CloseHonest
<1>11. Aborting'
  <2>1. ASSUME NEW u \in Threads, Asking(u)'
        PROVE  u = Opener
    BY <1>d, <1>e, <2>1 DEF Asking
  <2>2. file.router = abort.rtr
    <3>1. Len(routers) = 1
      BY <1>a DEF Handled, Fresh
    <3>2. DOMAIN routers = {1}
      BY <1>0, <3>1
    <3> QED
      BY <3>2 DEF Ptrs
  <2> QED
    BY <1>a, <1>c, <1>d, <2>1, <2>2 DEF Aborting
<1> QED
  BY <1>1, <1>2, <1>3, <1>4, <1>5, <1>6, <1>7, <1>8, <1>9, <1>10, <1>11

LEMMA ReadCalled ==
    ASSUME FileInv, NEW t \in Threads, Read(t)
    PROVE  FileInv'
<1> USE DEF FileInv
<1>0. /\ Opener \in Threads /\ th[t] \in Thr /\ file.recoveries \in Nat /\ calls \in Nat /\ MaxCalls \in Nat
      /\ Lane(th[t])
  BY FileAssumption DEF FType, Lanes, File
<1>a. /\ th[t].pc = "idle" /\ calls < MaxCalls /\ calls' = calls + 1
      /\ th[Opener].res # "none" \/ calls > 0
      /\ UNCHANGED <<conns, routers, file, state, abort, mishaps, closing>>
  BY DEF Read
<1>b. PICK how \in {"event", "plane"} :
        th' = [th EXCEPT ![t] = [@ EXCEPT !.pc = "router", !.call = how, !.seen = file.recoveries,
                                          !.res = "none"]]
  BY DEF Read
<1> DEFINE w == [th[t] EXCEPT !.pc = "router", !.call = how, !.seen = file.recoveries, !.res = "none"]
<1>c. w \in Thr
  BY <1>0, ZenonT(60) DEF Thr, Places, Results
<1>d. /\ w.pc = "router" /\ w.call = how /\ w.asks = th[t].asks /\ w.seen = file.recoveries
      /\ w.rtr = th[t].rtr /\ w.conn = th[t].conn /\ w.res = "none"
  BY <1>0 DEF Thr
<1>e. th' = [th EXCEPT ![t] = w]
  BY <1>b
<1> HIDE DEF w
<1>f. \A u \in Threads : th'[u] = IF u = t THEN w ELSE th[u]
  BY <1>e DEF FType
<1>g. ~Fresh /\ ~Fresh' /\ calls' \in 0..MaxCalls /\ calls' > 0
  BY <1>0, <1>a DEF Fresh
<1>h. th[t].call = "event" /\ th[t].asks = "read"
  BY <1>0, <1>a DEF Lane
<1>1. FType'
  BY <1>a, <1>c, <1>e, <1>g DEF FType
<1>2. Ptrs'
  <2>1. \A u \in Threads : th'[u].seen <= file.recoveries
    BY <1>0, <1>d, <1>f DEF Ptrs
  <2> QED
    BY <1>a, <1>d, <1>f, <2>1 DEF Ptrs
<1>3. Lanes'
  BY <1>d, <1>f, <1>h DEF Lanes, Lane
<1>4. Locked'
  BY <1>a, <1>d, <1>f, <1>h DEF Locked, Reopening
<1>5. Roles'
  <2>1. \A u \in Threads : th'[u].call = "close" => u = Opener /\ closing'.res = "none" /\ closing'.taken
    BY <1>a, <1>d, <1>f DEF Roles
  <2>2. \A u \in Threads : th'[u].call # "open"
    <3> SUFFICES ASSUME NEW u \in Threads, th'[u].call = "open"
                 PROVE  FALSE
      OBVIOUS
    <3>1. th[u].call = "open"
      BY <1>d, <1>f
    <3>2. Fresh
      BY <3>1 DEF Roles, Fresh
    <3> QED
      BY <1>g, <3>2
  <2> QED
    BY <1>g, <2>1, <2>2 DEF Roles
<1>6. Handled'
  BY <1>a, <1>g DEF Handled
<1>7. NeverFoundNone'
  BY <1>a, <1>d, <1>f DEF NeverFoundNone
<1>8. Writers'
  BY <1>a, <1>d, <1>f DEF Writers
<1>9. Closing'
  BY <1>a, <1>d, <1>f DEF Closing
<1>10. CloseHonest'
  BY <1>a DEF CloseHonest
<1>11. Aborting'
  <2>1. \A u \in Threads : Asking(u)' => Asking(u) /\ u # t
    BY <1>d, <1>f, <1>h DEF Asking
  <2> QED
    BY <1>a, <1>f, <2>1 DEF Aborting
<1> QED
  BY <1>1, <1>2, <1>3, <1>4, <1>5, <1>6, <1>7, <1>8, <1>9, <1>10, <1>11

LEMMA CloseCalled ==
    ASSUME FileInv, Close
    PROVE  FileInv'
<1> USE DEF FileInv
<1> DEFINE p == IF file.aborted \/ file.handle = 0 THEN "release" ELSE "session"
           w == [th[Opener] EXCEPT !.pc = p, !.call = "close", !.asks = "close", !.rtr = file.router,
                                   !.hdl = file.handle, !.conn = 0, !.tries = 0, !.res = "ok"]
           had == file.handle # 0
<1>0. /\ Opener \in Threads /\ th[Opener] \in Thr /\ file.router \in DOMAIN routers /\ file \in File
      /\ Retries \in Nat /\ Len(conns) \in Nat
  BY FileAssumption DEF FType, Ptrs
<1>a. /\ th[Opener].pc = "idle" /\ closing.res = "none" /\ th[Opener].res # "none"
      /\ UNCHANGED <<conns, routers, state, abort, calls, mishaps>>
      /\ th' = [th EXCEPT ![Opener] = w] /\ file' = [file EXCEPT !.handle = 0]
      /\ closing' = [closing EXCEPT !.taken = TRUE, !.had = had]
  BY DEF Close
<1>b. p \in {"release", "session"} /\ (p = "release" => file.aborted \/ ~had) /\ had \in BOOLEAN
  BY <1>0 DEF File
<1> HIDE DEF p, had
<1>c. w \in Thr
  <2>1. 0 \in 0..Retries + 1 /\ file.handle \in Handles \cup {0} /\ file.router \in Nat
    BY <1>0 DEF File
  <2>2. p \in Places /\ "ok" \in Results
    BY <1>b DEF Places, Results
  <2> DEFINE v == [th[Opener] EXCEPT !.pc = p, !.call = "close", !.asks = "close", !.rtr = file.router]
  <2>3. v \in Thr
    BY <1>0, <2>1, <2>2 DEF Thr
  <2>4. w = [v EXCEPT !.hdl = file.handle, !.conn = 0, !.tries = 0, !.res = "ok"]
    OBVIOUS
  <2> HIDE DEF v, w
  <2> QED
    BY <2>1, <2>2, <2>3, <2>4 DEF Thr
<1>d. /\ w.pc = p /\ w.call = "close" /\ w.asks = "close" /\ w.seen = th[Opener].seen
      /\ w.rtr = file.router /\ w.conn = 0 /\ w.res = "ok"
  BY <1>0 DEF Thr
<1>e. /\ file' \in File /\ file'.router = file.router /\ file'.recoveries = file.recoveries
      /\ file'.writing = file.writing /\ file'.aborted = file.aborted
  BY <1>0, <1>a DEF File
<1>f. /\ closing' \in [res: Results, had: BOOLEAN, heard: BOOLEAN, taken: BOOLEAN]
      /\ closing'.taken /\ closing'.res = "none" /\ closing'.had = had
  BY <1>a, <1>b DEF FType
<1> HIDE DEF w
<1>g. \A u \in Threads : th'[u] = IF u = Opener THEN w ELSE th[u]
  BY <1>a DEF FType
<1>h. \A u \in Threads \ {Opener} : th'[u] = th[u] /\ th[u].call \in {"event", "plane"} /\ th[u].pc # "release"
  <2>1. \A u \in Threads \ {Opener} : th[u] \in Thr /\ th[u].call # "close" /\ th[u].call # "open"
    BY DEF Roles, FType
  <2> QED
    BY <1>g, <2>1 DEF Lanes, Lane, Thr
<1>1. FType'
  BY <1>a, <1>c, <1>e, <1>f DEF FType
<1>2. Ptrs'
  BY <1>0, <1>a, <1>d, <1>e, <1>g DEF Ptrs
<1>3. Lanes'
  BY <1>b, <1>d, <1>g DEF Lanes, Lane
<1>4. Locked'
  <2>1. ~Reopening(Opener) /\ ~Reopening(Opener)'
    BY <1>0, <1>a, <1>d, <1>g DEF Reopening
  <2>2. \A u \in Threads \ {Opener} : Reopening(u)' <=> Reopening(u)
    BY <1>h DEF Reopening
  <2> QED
    BY <1>a, <2>1, <2>2 DEF Locked
<1>5. Roles'
  <2>1. \A u \in Threads : th'[u].call # "open"
    BY <1>d, <1>g, <1>h
  <2>2. \A u \in Threads : th'[u].call = "close" => u = Opener
    BY <1>h
  <2>3. \A u \in Threads : th'[u].call \in {"event", "plane"} /\ th'[u].pc # "idle" => calls > 0
    BY <1>d, <1>g, <1>h DEF Roles
  <2> QED
    BY <1>a, <1>f, <2>1, <2>2, <2>3 DEF Roles
<1>6. Handled'
  BY <1>0, <1>d, <1>f, <1>g DEF Handled, Fresh
<1>7. NeverFoundNone'
  BY <1>f DEF NeverFoundNone
<1>8. Writers'
  BY <1>b, <1>d, <1>e, <1>g DEF Writers
<1>9. Closing'
  BY <1>b, <1>d, <1>e, <1>f, <1>g, <1>h DEF Closing
<1>10. CloseHonest'
  BY <1>f DEF CloseHonest
<1>11. Aborting'
  <2>1. ~Asking(Opener)'
    BY <1>0, <1>d, <1>g DEF Asking
  <2>2. \A u \in Threads \ {Opener} : (Asking(u)' <=> Asking(u)) /\ th'[u].rtr = th[u].rtr
    BY <1>h DEF Asking
  <2>3. \A u \in Threads : Asking(u)' => u # Opener /\ Asking(u) /\ th'[u].rtr = th[u].rtr
    BY <2>1, <2>2
  <2> HIDE DEF Asking
  <2> QED
    BY <1>a, <1>e, <2>3 DEF Aborting
<1> QED
  BY <1>1, <1>2, <1>3, <1>4, <1>5, <1>6, <1>7, <1>8, <1>9, <1>10, <1>11

LEMMA CloseReleased ==
    ASSUME FileInv, NEW t \in Threads, CloseRelease(t)
    PROVE  FileInv'
<1> USE DEF FileInv
<1> DEFINE res == th[t].res
           w == Resting(res)
<1>0. /\ th[t] \in Thr /\ file.router \in DOMAIN routers /\ Lane(th[t]) /\ Opener \in Threads
      /\ Retries \in Nat /\ 1 \in DOMAIN routers /\ Mends(conns, routers) /\ res \in Results
      /\ Len(conns) \in Nat /\ Len(conns') \in Nat
  <2>1. /\ th[t] \in Thr /\ file.router \in DOMAIN routers /\ Lane(th[t]) /\ Opener \in Threads
        /\ Retries \in Nat /\ Mends(conns, routers)
    BY FileAssumption, Unmended DEF FType, Ptrs, Lanes
  <2>2. Mends(conns', routers')
    BY <2>1, Dropping DEF CloseRelease
  <2>3. res \in Results
    BY <2>1 DEF Thr
  <2>4. Len(conns) \in Nat /\ Len(conns') \in Nat
    BY <2>2 DEF FType, Mends
  <2>5. 1 \in DOMAIN routers
    BY <2>1 DEF FType
  <2> QED
    BY <2>1, <2>3, <2>4, <2>5
<1>a. th[t].pc = "release" /\ UNCHANGED <<file, state, abort, calls, mishaps>> /\ th' = [th EXCEPT ![t] = w]
  BY DEF CloseRelease, Ends
<1>b. Mends(conns', routers') /\ DOMAIN routers' = DOMAIN routers
  <2>1. Mends(conns', routers')
    BY <1>0, Dropping DEF CloseRelease
  <2> QED
    BY <2>1 DEF Mends, FType
<1>c. w \in Thr
  BY <1>0 DEF Resting, Thr, Places
<1>d. /\ w.pc = "idle" /\ w.call = "event" /\ w.asks = "read" /\ w.seen = 0
      /\ w.rtr = 1 /\ w.conn = 0 /\ w.res = res
  BY DEF Resting
<1>e. th[t].call = "close"
  BY <1>0, <1>a DEF Lane
<1>f. /\ closing' \in [res: Results, had: BOOLEAN, heard: BOOLEAN, taken: BOOLEAN]
      /\ closing'.taken = closing.taken /\ closing'.res = res /\ closing'.had = closing.had
      /\ closing'.heard = closing.heard
  <2>1. closing' = [closing EXCEPT !.res = res]
    BY DEF CloseRelease
  <2> HIDE DEF res
  <2> QED
    BY <1>0, <2>1 DEF FType
<1> HIDE DEF w, res
<1>g. \A u \in Threads : th'[u] = IF u = t THEN w ELSE th[u]
  BY <1>a DEF FType
<1>h. t = Opener /\ closing.taken /\ \A u \in Threads \ {t} : th[u].call \notin {"close", "open"}
  <2>1. t = Opener /\ closing.taken
    BY <1>e DEF Roles
  <2>2. \A u \in Threads : th[u].call \in {"close", "open"} => u = Opener
    BY DEF Roles
  <2> QED
    BY <2>1, <2>2
<1>1. FType'
  BY <1>a, <1>b, <1>c, <1>f DEF FType, Mends
<1>2. Ptrs'
  <2>1. \A u \in Threads : th[u].conn \in Nat /\ th[u].conn <= Len(conns)
    BY DEF FType, Thr, Ptrs
  <2>2. \A u \in Threads : th'[u].conn <= Len(conns')
    <3>1. Len(conns) <= Len(conns')
      BY <1>b DEF Mends
    <3>2. \A u \in Threads : th[u].conn <= Len(conns')
      BY <1>0, <2>1, <3>1
    <3> QED
      BY <1>0, <1>d, <1>g, <3>2
  <2>3. file.recoveries \in Nat
    BY DEF FType, File
  <2> QED
    BY <1>0, <1>a, <1>b, <1>d, <1>g, <2>2, <2>3 DEF Ptrs, Mends
<1>3. Lanes'
  BY <1>d, <1>g DEF Lanes, Lane
<1>4. Locked'
  BY <1>a, <1>d, <1>e, <1>g DEF Locked, Reopening
<1>5. Roles'
  <2>1. \A u \in Threads : th'[u].call \notin {"close", "open"}
    BY <1>d, <1>g, <1>h
  <2>2. \A u \in Threads : th'[u].call \in {"event", "plane"} /\ th'[u].pc # "idle" => calls' > 0
    BY <1>a, <1>d, <1>g DEF Roles
  <2> QED
    BY <2>1, <2>2 DEF Roles
<1>6. Handled'
  <2>1. Len(routers') = Len(routers)
    BY <1>b DEF Mends
  <2>2. Fresh' => Fresh /\ th[Opener].pc \notin {"pin", "adopt"}
    BY <1>a, <1>d, <1>g, <1>h DEF Fresh, res
  <2> QED
    BY <1>f, <1>h, <2>1, <2>2 DEF Handled
<1>7. NeverFoundNone'
  BY <1>f, <1>h DEF NeverFoundNone
<1>8. Writers'
  BY <1>a, <1>d, <1>g DEF Writers
<1>9. Closing'
  BY <1>a, <1>d, <1>f, <1>g DEF Closing
<1>10. CloseHonest'
  BY <1>a, <1>f DEF CloseHonest, Closing, res
<1>11. Aborting'
  <2>1. \A u \in Threads : Asking(u)' => Asking(u) /\ u # t
    BY <1>d, <1>g DEF Asking
  <2>2. abort.rtr \in DOMAIN routers /\ \A u \in Threads : th[u].rtr \in DOMAIN routers
    BY DEF Ptrs
  <2> QED
    BY <1>a, <1>b, <1>g, <2>1, <2>2 DEF Aborting, Mends
<1> QED
  BY <1>1, <1>2, <1>3, <1>4, <1>5, <1>6, <1>7, <1>8, <1>9, <1>10, <1>11

(* A server goes, or somebody aborts the file: no thread moves.            *)
LEMMA WorldMoves ==
    ASSUME FileInv, ServerLost \/ AbortMark \/ AbortGrab \/ AbortRouter
    PROVE  FileInv'
<1> USE DEF FileInv
<1>0. /\ file \in File /\ Mends(conns, routers) /\ abort.rtr \in DOMAIN routers /\ routers \in Seq(Rtr)
      /\ conns \in Seq(Conn) /\ mishaps \in 0..MaxMishaps /\ MaxMishaps \in Nat
      /\ file.router \in DOMAIN routers /\ file.router \in Nat /\ Len(conns) \in Nat
      /\ abort \in [pc: {"no", "marked", "grabbed", "done"}, rtr: Nat]
  <2>1. /\ file \in File /\ Mends(conns, routers) /\ abort.rtr \in DOMAIN routers /\ routers \in Seq(Rtr)
        /\ conns \in Seq(Conn) /\ mishaps \in 0..MaxMishaps /\ MaxMishaps \in Nat
        /\ file.router \in DOMAIN routers /\ abort \in [pc: {"no", "marked", "grabbed", "done"}, rtr: Nat]
    BY FileAssumption, Unmended DEF FType, Ptrs
  <2> QED
    BY <2>1 DEF File
<1>1. CASE ServerLost
  <2>1. /\ UNCHANGED <<routers, file, state, th, abort, calls, closing>> /\ mishaps' = mishaps + 1
        /\ mishaps < MaxMishaps
    BY <1>1 DEF ServerLost
  <2>2. PICK c \in DOMAIN conns : conns' = [conns EXCEPT ![c] = [@ EXCEPT !.up = FALSE, !.open = {}]]
    BY <1>1 DEF ServerLost
  <2> DEFINE x == [conns[c] EXCEPT !.up = FALSE, !.open = {}]
  <2>3. conns[c] \in Conn
    BY <1>0, ElementOfSeq
  <2>4. x \in Conn /\ conns' = [conns EXCEPT ![c] = x]
    BY <2>2, <2>3 DEF Conn
  <2> HIDE DEF x
  <2>5. conns' \in Seq(Conn) /\ Len(conns') = Len(conns)
    BY <1>0, <2>4, PutAt
  <2>6. mishaps' \in 0..MaxMishaps
    BY <1>0, <2>1
  <2>7. FType'
    BY <2>1, <2>5, <2>6 DEF FType
  <2>8. Ptrs'
    BY <2>1, <2>5 DEF Ptrs
  <2>9. Lanes' /\ Locked' /\ Roles' /\ Handled' /\ NeverFoundNone' /\ Writers' /\ Closing' /\ CloseHonest'
    BY <2>1 DEF Lanes, Locked, Reopening, Roles, Handled, Fresh, NeverFoundNone, Writers, Closing, CloseHonest
  <2>10. Aborting'
    BY <2>1 DEF Aborting, Asking
  <2> QED
    BY <2>7, <2>8, <2>9, <2>10
<1>2. CASE AbortMark
  <2>1. /\ UNCHANGED <<conns, routers, state, th, calls, mishaps, closing>>
        /\ abort' = [abort EXCEPT !.pc = "marked"] /\ abort.pc = "no"
        /\ file' = [file EXCEPT !.aborted = TRUE, !.recover = FALSE]
    BY <1>2 DEF AbortMark
  <2>2. /\ abort' \in [pc: {"no", "marked", "grabbed", "done"}, rtr: Nat]
        /\ abort'.pc = "marked" /\ abort'.rtr = abort.rtr
    BY <1>0, <2>1
  <2>3. /\ file' \in File /\ file'.router = file.router /\ file'.recoveries = file.recoveries
        /\ file'.writing = file.writing /\ file'.aborted /\ file'.handle = file.handle
    BY <1>0, <2>1 DEF File
  <2>4. FType'
    BY <2>1, <2>2, <2>3 DEF FType
  <2>5. Ptrs'
    BY <2>1, <2>2, <2>3 DEF Ptrs
  <2>6. Lanes' /\ Locked' /\ Roles' /\ Handled' /\ NeverFoundNone'
    BY <2>1, <2>3 DEF Lanes, Locked, Reopening, Roles, Handled, Fresh, NeverFoundNone
  <2>7. Writers' /\ Closing' /\ CloseHonest'
    BY <2>1, <2>3 DEF Writers, Closing, CloseHonest
  <2>8. Aborting'
    BY <2>1, <2>2, <2>3 DEF Aborting, Asking
  <2> QED
    BY <2>4, <2>5, <2>6, <2>7, <2>8
<1>3. CASE AbortGrab
  <2>1. /\ UNCHANGED <<conns, routers, file, state, th, calls, mishaps, closing>>
        /\ abort.pc = "marked" /\ abort' = [pc |-> "grabbed", rtr |-> file.router]
    BY <1>3 DEF AbortGrab
  <2>2. /\ abort' \in [pc: {"no", "marked", "grabbed", "done"}, rtr: Nat]
        /\ abort'.pc = "grabbed" /\ abort'.rtr = file.router
    BY <1>0, <2>1
  <2>3. FType'
    BY <2>1, <2>2 DEF FType
  <2>4. Ptrs'
    BY <2>1, <2>2 DEF Ptrs
  <2>5. Lanes' /\ Locked' /\ Roles' /\ Handled' /\ NeverFoundNone' /\ Writers' /\ Closing' /\ CloseHonest'
    BY <2>1 DEF Lanes, Locked, Reopening, Roles, Handled, Fresh, NeverFoundNone, Writers, Closing, CloseHonest
  <2>6. Aborting'
    BY <2>1, <2>2 DEF Aborting, Asking
  <2> QED
    BY <2>3, <2>4, <2>5, <2>6
<1>4. CASE AbortRouter
  <2> DEFINE q == [conn |-> 0, reconnect |-> FALSE, aborted |-> TRUE]
             r == abort.rtr
  <2>1. /\ UNCHANGED <<file, state, th, calls, mishaps, closing>>
        /\ abort.pc = "grabbed" /\ abort' = [abort EXCEPT !.pc = "done"]
        /\ conns' = LetGo(conns, routers[r].conn) /\ routers' = [routers EXCEPT ![r] = q]
    BY <1>4 DEF AbortRouter
  <2>2. /\ abort' \in [pc: {"no", "marked", "grabbed", "done"}, rtr: Nat]
        /\ abort'.pc = "done" /\ abort'.rtr = r
    BY <1>0, <2>1
  <2>3. q \in Rtr /\ q.aborted = TRUE /\ q.conn = 0
    BY DEF Rtr
  <2> HIDE DEF q
  <2>4. /\ routers' \in Seq(Rtr) /\ Len(routers') = Len(routers) /\ DOMAIN routers' = DOMAIN routers
        /\ \A j \in DOMAIN routers : routers'[j] = IF j = r THEN q ELSE routers[j]
    BY <1>0, <2>1, <2>3, PutAt
  <2>5. conns' \in Seq(Conn) /\ Len(conns') = Len(conns)
    <3>1. routers[r] \in Rtr
      BY <1>0, ElementOfSeq
    <3>2. routers[r].conn \in 0 .. Len(conns)
      BY <1>0, <3>1 DEF Rtr, Ptrs
    <3> QED
      BY <1>0, <2>1, <3>2, LettingGo
  <2>6. FType'
    BY <2>1, <2>2, <2>4, <2>5 DEF FType
  <2>7. Ptrs'
    BY <1>0, <2>1, <2>2, <2>3, <2>4, <2>5 DEF Ptrs
  <2>8. Lanes' /\ Locked' /\ Roles' /\ NeverFoundNone' /\ Writers' /\ Closing' /\ CloseHonest'
    BY <2>1 DEF Lanes, Locked, Reopening, Roles, NeverFoundNone, Writers, Closing, CloseHonest
  <2>9. Handled'
    BY <2>1, <2>4 DEF Handled, Fresh
  <2>10. Aborting'
    <3>1. \A u \in Threads : th[u].rtr \in DOMAIN routers
      BY DEF Ptrs
    <3>2. \A u \in Threads : Asking(u)' => Asking(u)
      BY <2>1 DEF Asking
    <3> QED
      BY <1>0, <2>1, <2>2, <2>3, <2>4, <3>1, <3>2 DEF Aborting
  <2> QED
    BY <2>6, <2>7, <2>8, <2>9, <2>10
<1> QED
  BY <1>1, <1>2, <1>3, <1>4

-----------------------------------------------------------------------------
(* The invariant and what follows from it.                                 *)

LEMMA FileStarts == Init => FileInv
<1> SUFFICES ASSUME Init
             PROVE  FileInv
  OBVIOUS
<1> USE FileAssumption
<1> DEFINE rest == Resting("none")
<1>0. /\ conns = <<>> /\ routers = <<NewRouter(0, TRUE)>> /\ state = Nobody
      /\ th = [t \in Threads |-> rest] /\ abort = [pc |-> "no", rtr |-> 1] /\ calls = 0 /\ mishaps = 0
      /\ closing = [res |-> "none", had |-> FALSE, heard |-> FALSE, taken |-> FALSE]
  BY DEF Init
<1>1. PICK b \in BOOLEAN : file = [router |-> 1, handle |-> 0, recoveries |-> 0,
                                  aborted |-> FALSE, recover |-> TRUE, writing |-> b]
  BY DEF Init
<1>2. /\ rest \in Thr /\ rest.pc = "idle" /\ rest.call = "event" /\ rest.asks = "read" /\ rest.seen = 0
      /\ rest.rtr = 1 /\ rest.conn = 0 /\ rest.res = "none"
  <2>1. Retries \in Nat
    OBVIOUS
  <2> QED
    BY <2>1 DEF Resting, Thr, Places, Results
<1> HIDE DEF rest
<1>3. \A t \in Threads : th[t] = rest
  BY <1>0
<1>4. /\ NewRouter(0, TRUE) \in Rtr /\ NewRouter(0, TRUE).conn = 0
  BY DEF NewRouter, Rtr
<1>5. /\ routers \in Seq(Rtr) /\ DOMAIN routers = {1} /\ Len(routers) = 1 /\ routers[1].conn = 0
  <2> DEFINE new == NewRouter(0, TRUE)
  <2>1. routers = <<new>> /\ new \in Rtr /\ new.conn = 0
    BY <1>0, <1>4
  <2> HIDE DEF new
  <2>2. routers \in Seq(Rtr) /\ Len(routers) = 1 /\ routers[1] = new
    BY <2>1
  <2>3. DOMAIN routers = {1}
    BY <2>2
  <2> QED
    BY <2>1, <2>2, <2>3
<1>6. /\ file \in File /\ file.router = 1 /\ file.recoveries = 0 /\ file.handle = 0 /\ file.aborted = FALSE
  BY <1>1 DEF File
<1>7. /\ conns \in Seq(Conn) /\ Len(conns) = 0
  BY <1>0
<1>8. FType
  <2>1. abort \in [pc: {"no", "marked", "grabbed", "done"}, rtr: Nat]
    BY <1>0
  <2>2. closing \in [res: Results, had: BOOLEAN, heard: BOOLEAN, taken: BOOLEAN]
    BY <1>0 DEF Results
  <2>3. th \in [Threads -> Thr]
    BY <1>0, <1>2
  <2>4. calls \in 0..MaxCalls /\ mishaps \in 0..MaxMishaps /\ Len(conns) <= MaxConns
    BY <1>0, <1>7
  <2> QED
    BY <1>0, <1>5, <1>6, <1>7, <2>1, <2>2, <2>3, <2>4 DEF FType
<1>9. Ptrs
  <2>1. abort.rtr = 1
    BY <1>0
  <2> QED
    BY <1>2, <1>3, <1>5, <1>6, <1>7, <2>1 DEF Ptrs
<1>10. Lanes /\ Locked
  BY <1>0, <1>2, <1>3 DEF Lanes, Lane, Locked, Reopening
<1>11. Roles /\ Handled
  BY <1>0, <1>2, <1>3, <1>5 DEF Roles, Handled, Fresh
<1>12. NeverFoundNone /\ Writers /\ Closing /\ CloseHonest
  BY <1>0, <1>2, <1>3, <1>6 DEF NeverFoundNone, Writers, Closing, CloseHonest
<1>13. Aborting
  BY <1>0, <1>2, <1>3 DEF Aborting, Asking
<1> QED
  BY <1>8, <1>9, <1>10, <1>11, <1>12, <1>13 DEF FileInv

LEMMA FileSteps == FileInv /\ [Next]_vars => FileInv'
<1> SUFFICES ASSUME FileInv, [Next]_vars
             PROVE  FileInv'
  OBVIOUS
<1>1. ASSUME NEW t \in Threads, Read(t) \/ Step(t)
      PROVE  FileInv'
  <2>1. CASE Top(t) \/ GrabRouter(t) \/ GrabHandle(t) \/ PlaneDeclined(t) \/ ReopenShared(t)
    BY <2>1, LookGoes, ThreadGoes
  <2>2. CASE \/ SessionAborted(t) \/ SessionLive(t) \/ SessionGone(t)
             \/ SessionDial(t) \/ SessionDialFails(t)
    BY <2>2, SessionGoes, ThreadGoes
  <2>3. CASE AnswerRead(t) \/ AnswerOpen(t) \/ RefuseOpen(t) \/ AnswerClose(t) \/ AnswerLost(t)
    BY <2>3, AnswerGoes, ThreadGoes
  <2>4. CASE ReopenRefused(t) \/ ReopenBegin(t) \/ Adopt(t)
    BY <2>4, ReopenGoes, ThreadGoes
  <2>5. CASE ReopenRouter(t) \/ Pin(t)
    BY <2>5, RouterReplaced
  <2>6. CASE ReopenArm(t)
    BY <2>6, ReopenArmed
  <2>7. CASE CloseRelease(t)
    BY <2>7, CloseReleased
  <2>8. CASE Read(t)
    BY <2>8, ReadCalled
  <2> QED
    BY <1>1, <2>1, <2>2, <2>3, <2>4, <2>5, <2>6, <2>7, <2>8 DEF Step
<1>2. CASE UNCHANGED vars
  BY <1>2 DEF vars, FileInv, FType, Ptrs, Lanes, Locked, Reopening, Roles, Handled, Fresh,
              NeverFoundNone, Writers, Closing, CloseHonest, Aborting, Asking
<1> QED
  BY <1>1, <1>2, Opened, CloseCalled, WorldMoves DEF Next

(* The handle's bookkeeping holds in every reachable state: every reference
   is to a router or connection that was made, each step is one its call can
   be at, and the lock, the roles and the marks of an abort agree.         *)
THEOREM FileAlways == Spec => []FileInv
<1>1. FileInv /\ [Next]_vars => FileInv'
  BY FileSteps
<1> QED
  BY FileStarts, <1>1, PTL DEF Spec

(* HandleSafe: _state is held by exactly the thread that re-opens, and a read
   finds no handle only after a close or an open that failed (_reopen).    *)
THEOREM HandleIsSafe == Spec => []HandleSafe
<1>1. FileInv => HandleSafe
  <2> SUFFICES ASSUME FileInv
               PROVE  TypeOK
    BY DEF FileInv, HandleSafe
  <2> USE DEF FileInv
  <2>1. routers \in Seq([conn: 0..Len(conns), reconnect: BOOLEAN, aborted: BOOLEAN])
    <3> DEFINE R == [conn: 0..Len(conns), reconnect: BOOLEAN, aborted: BOOLEAN]
    <3>1. routers \in Seq(Rtr) /\ Len(conns) \in Nat
      BY DEF FType
    <3>2. \A r \in 1 .. Len(routers) : routers[r] \in R
      <4> SUFFICES ASSUME NEW r \in 1 .. Len(routers)
                   PROVE  routers[r] \in R
        OBVIOUS
      <4>1. routers[r] \in Rtr /\ routers[r].conn <= Len(conns)
        BY <3>1, ElementOfSeq DEF Ptrs
      <4> QED
        BY <3>1, <4>1 DEF Rtr
    <3> HIDE DEF R
    <3>3. routers \in Seq(R)
      BY <3>1, <3>2
    <3> QED
      BY <3>3 DEF R
  <2>2. file \in [router: 1..Len(routers), handle: Handles \cup {0}, recoveries: Nat,
                  aborted: BOOLEAN, recover: BOOLEAN, writing: BOOLEAN]
    BY DEF FType, Ptrs, File
  <2>3. ASSUME NEW t \in Threads
        PROVE  /\ th[t].pc \in Places
               /\ th[t].call \in {"open", "event", "plane", "close"}
               /\ th[t].asks \in {"open", "read", "close"}
               /\ th[t].seen \in 0..file.recoveries
               /\ th[t].attempts \in 0..Retries + 1 /\ th[t].tries \in 0..Retries + 1
               /\ th[t].rtr \in 1..Len(routers)
               /\ th[t].conn \in 0..Len(conns)
               /\ th[t].hdl \in Handles \cup {0}
               /\ th[t].res \in Results
    <3>1. th[t] \in Thr /\ file.recoveries \in Nat /\ Len(conns) \in Nat /\ routers \in Seq(Rtr)
      BY DEF FType, File
    <3>2. th[t].rtr \in DOMAIN routers /\ th[t].conn <= Len(conns) /\ th[t].seen <= file.recoveries
      BY DEF Ptrs
    <3> QED
      BY <3>1, <3>2 DEF Thr
  <2>4. abort \in [pc: {"no", "marked", "grabbed", "done"}, rtr: 1..Len(routers)]
    BY DEF FType, Ptrs
  <2> QED
    BY <2>1, <2>2, <2>3, <2>4 DEF TypeOK, FType, Locked, Conn
<1> QED
  BY FileAlways, <1>1, PTL

(* WriterSafe: a file opened for writing is never re-opened, and its close
   does not return without raising unless the server heard it, the file was
   aborted or there was nothing to close (recoverable, close).             *)
THEOREM WriterIsSafe == Spec => []WriterSafe
<1>1. FileInv => WriterSafe
  BY DEF FileInv, Writers, WriterSafe, WriterNeverReopened
<1> QED
  BY FileAlways, <1>1, PTL

(* Whatever a request's failure leads to, only its own thread moves, and
   nothing is sent there and then.                                         *)
LEMMA FailureIsQuiet ==
    ASSUME FileInv, NEW u \in Threads, NEW why, NEW cs, NEW rs,
           RequestFailed(u, why, cs, rs) \/ PlaneFailed(u, cs, rs) \/ LinkFailed(u, cs, rs)
    PROVE  \A t \in Threads : th[t].pc # "sent" => th'[t].pc # "sent"
<1> SUFFICES ASSUME NEW t \in Threads, th[t].pc # "sent"
             PROVE  th'[t].pc # "sent"
  OBVIOUS
<1>0. th \in [Threads -> Thr] /\ th[u] \in Thr /\ th[t] \in Thr
  BY DEF FileInv, FType
<1>1. ASSUME NEW res, Ends(u, res)
      PROVE  th'[t].pc # "sent"
  BY <1>0, <1>1 DEF Ends, Resting
<1>2. ASSUME ExecuteFailed(u)
      PROVE  th'[t].pc # "sent"
  <2>1. CASE recoverable /\ th[u].attempts < Retries
    <3>1. th' = [th EXCEPT ![u] = [th[u] EXCEPT !.pc = "top", !.asks = "read", !.attempts = @ + 1]]
      BY <1>2, <2>1 DEF ExecuteFailed
    <3>2. th'[u].pc = "top" \/ th'[u] = th[u]
      BY <1>0, <3>1 DEF Thr
    <3> QED
      BY <1>0, <3>1, <3>2 DEF Thr
  <2>2. CASE ~(recoverable /\ th[u].attempts < Retries)
    BY <1>1, <1>2, <2>2 DEF ExecuteFailed
  <2> QED
    BY <2>1, <2>2
<1>3. ASSUME NEW why2, RequestFailed(u, why2, cs, rs)
      PROVE  th'[t].pc # "sent"
  <2>1. CASE th[u].asks = "read"
    BY <1>1, <1>2, <1>3, <2>1 DEF RequestFailed
  <2>2. CASE th[u].asks = "open" /\ th[u].call = "open"
    BY <1>1, <1>3, <2>2 DEF RequestFailed
  <2>3. CASE th[u].asks = "open" /\ th[u].call # "open"
    <3>1. IF why2 = "transient" /\ th[u].call = "event" THEN ExecuteFailed(u) ELSE Ends(u, why2)
      BY <1>3, <2>3 DEF RequestFailed
    <3> QED
      BY <1>1, <1>2, <3>1
  <2>4. CASE th[u].asks = "close"
    <3>1. th' = [th EXCEPT ![u].pc = "release", ![u].res = CloseResult(why2)]
      BY <1>3, <2>4 DEF RequestFailed
    <3> QED
      BY <1>0, <3>1 DEF Thr
  <2> QED
    BY <1>0, <2>1, <2>2, <2>3, <2>4 DEF Thr
<1>4. ASSUME PlaneFailed(u, cs, rs)
      PROVE  th'[t].pc # "sent"
  <2>1. Ends(u, "aborted") \/ Ends(u, "transient") \/ th' = [th EXCEPT ![u].pc = "relock"]
    BY <1>4 DEF PlaneFailed
  <2>2. CASE th' = [th EXCEPT ![u].pc = "relock"]
    BY <1>0, <2>2 DEF Thr
  <2> QED
    BY <1>1, <2>1, <2>2
<1>5. ASSUME LinkFailed(u, cs, rs)
      PROVE  th'[t].pc # "sent"
  <2>1. CASE th[u].call = "plane" /\ th[u].asks = "read"
    BY <1>4, <1>5, <2>1 DEF LinkFailed
  <2>2. CASE ~(th[u].call = "plane" /\ th[u].asks = "read") /\ Resends(u)
    <3>1. th' = [th EXCEPT ![u] = [th[u] EXCEPT !.pc = "attempt", !.tries = @ + 1]]
      BY <1>5, <2>2 DEF LinkFailed
    <3>2. th'[u].pc = "attempt"
      BY <1>0, <3>1 DEF Thr
    <3> QED
      BY <1>0, <3>1, <3>2 DEF Thr
  <2>3. CASE ~(th[u].call = "plane" /\ th[u].asks = "read") /\ ~Resends(u)
    <3> DEFINE why2 == IF routers[th[u].rtr].aborted THEN "aborted" ELSE "transient"
    <3>1. RequestFailed(u, why2, cs, rs)
      BY <1>5, <2>3 DEF LinkFailed
    <3> HIDE DEF why2
    <3> QED
      BY <1>3, <3>1
  <2> QED
    BY <2>1, <2>2, <2>3
<1> QED
  BY <1>3, <1>4, <1>5

(* A request is sent by the thread that has it, on a router that was not
   aborted.                                                                *)
LEMMA SentOnALiveRouter ==
    ASSUME FileInv, Next, NEW t \in Threads, th[t].pc = "attempt", th'[t].pc = "sent"
    PROVE  ~routers[th[t].rtr].aborted
<1>0. th \in [Threads -> Thr] /\ th[t] \in Thr /\ Opener \in Threads /\ th[Opener] \in Thr
  BY FileAssumption DEF FileInv, FType
<1>1. ~Open /\ ~Close
  <2>1. ASSUME Close
        PROVE  FALSE
    <3> DEFINE p == IF file.aborted \/ file.handle = 0 THEN "release" ELSE "session"
               w == [th[Opener] EXCEPT !.pc = p, !.call = "close", !.asks = "close", !.rtr = file.router,
                                       !.hdl = file.handle, !.conn = 0, !.tries = 0, !.res = "ok"]
    <3>1. th' = [th EXCEPT ![Opener] = w]
      BY <2>1 DEF Close
    <3>2. w.pc # "sent"
      BY <1>0 DEF Thr
    <3> HIDE DEF w
    <3> QED
      BY <1>0, <3>1, <3>2
  <2>2. ASSUME Open
        PROVE  FALSE
    <3>1. th' = [th EXCEPT ![Opener] = [@ EXCEPT !.pc = "attempt", !.call = "open",
                                        !.asks = "open", !.rtr = file.router]]
      BY <2>2 DEF Open
    <3>2. th'[Opener].pc = "attempt"
      BY <1>0, <3>1 DEF Thr
    <3> QED
      BY <1>0, <3>1, <3>2
  <2> QED
    BY <2>1, <2>2
<1>2. ~ServerLost /\ ~AbortMark /\ ~AbortGrab /\ ~AbortRouter
  BY DEF ServerLost, AbortMark, AbortGrab, AbortRouter
<1>3. ASSUME NEW u \in Threads, Read(u) \/ Step(u)
      PROVE  u = t /\ (SessionLive(t) \/ SessionDial(t))
  <2>0. th[u] \in Thr
    BY <1>0
  <2>1. CASE Read(u) \/ Top(u) \/ GrabRouter(u) \/ PlaneDeclined(u)
    BY <1>0, <2>0, <2>1 DEF Read, Top, GrabRouter, PlaneDeclined, Thr
  <2>2. CASE GrabHandle(u)
    BY <1>0, <2>0, <2>2 DEF GrabHandle, Ends, Resting, Thr
  <2>3. CASE \/ SessionAborted(u) \/ SessionGone(u) \/ SessionDialFails(u)
             \/ RefuseOpen(u) \/ AnswerLost(u)
    BY <2>3, FailureIsQuiet DEF SessionAborted, SessionGone, SessionDialFails, RefuseOpen, AnswerLost
  <2>4. ASSUME NEW cs, NEW rs, NEW c, TakeSession(u, cs, rs, c)
        PROVE  u = t
    <3>1. CASE RequestFailed(u, "transient", cs, rs)
      BY <3>1, FailureIsQuiet
    <3>2. CASE th' = [th EXCEPT ![u].pc = Onward(u), ![u].conn = c]
      BY <1>0, <2>0, <3>2 DEF Thr
    <3> QED
      BY <2>4, <3>1, <3>2 DEF TakeSession
  <2>5. CASE SessionLive(u) \/ SessionDial(u)
    BY <2>4, <2>5 DEF SessionLive, SessionDial
  <2>6. CASE AnswerRead(u) \/ ReopenRefused(u) \/ CloseRelease(u)
    BY <1>0, <2>0, <2>6 DEF AnswerRead, ReopenRefused, CloseRelease, Ends, Resting, Thr
  <2>7. CASE AnswerOpen(u) \/ AnswerClose(u)
    BY <1>0, <2>0, <2>7 DEF AnswerOpen, AnswerClose, Thr
  <2>8. CASE ReopenShared(u) \/ Adopt(u)
    BY <1>0, <2>0, <2>8 DEF ReopenShared, Adopt, Back, Resting, Thr
  <2>9. CASE ReopenBegin(u) \/ ReopenRouter(u) \/ ReopenArm(u) \/ Pin(u)
    BY <1>0, <2>0, <2>9 DEF ReopenBegin, ReopenRouter, ReopenArm, Pin, Thr
  <2> QED
    BY <1>3, <2>1, <2>2, <2>3, <2>5, <2>6, <2>7, <2>8, <2>9 DEF Step
<1>4. SessionLive(t) \/ SessionDial(t)
  BY <1>1, <1>2, <1>3 DEF Next
<1> QED
  BY <1>4 DEF SessionLive, SessionDial

(* NoOpenAfterAbort: once abort has returned, no kXR_open is sent for the
   file, whichever router the re-open under way had got to (abort, _reopen). *)
THEOREM NothingOpenedAfterAbort == Spec => NoOpenAfterAbort
<1> DEFINE Quiet == abort.pc = "done" =>
              \A t \in Threads : th[t].asks = "open" /\ th[t].pc = "attempt" => th'[t].pc # "sent"
<1>1. FileInv /\ [Next]_vars => [Quiet]_vars
  <2> SUFFICES ASSUME FileInv, Next, abort.pc = "done",
                      NEW t \in Threads, th[t].asks = "open", th[t].pc = "attempt", th'[t].pc = "sent"
               PROVE  FALSE
    OBVIOUS
  <2>1. abort.rtr \in DOMAIN routers /\ routers[th[t].rtr].aborted
    BY DEF FileInv, Aborting, Asking, Ptrs
  <2> QED
    BY <2>1, SentOnALiveRouter
<1> QED
  BY FileAlways, <1>1, PTL DEF Spec, NoOpenAfterAbort
=============================================================================
