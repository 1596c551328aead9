-------------------------- MODULE ConnectionProofs --------------------------
(***************************************************************************)
(* Proofs about Connections.                                               *)
(***************************************************************************)
EXTENDS Connections, FiniteSetTheorems, SequenceTheorems, WellFoundedInduction, TLAPS

-----------------------------------------------------------------------------
(* An aborted router lets go of everything.                                *)

ThFields == {"pc", "r", "lender", "target", "dest", "c", "new", "id", "raced", "hops", "tries",
             "moved", "home", "spoiled", "next", "links"}
RouterFields == {"st", "url", "c", "loan", "lender", "lent", "sticky", "reconnect", "aborted"}

Shapes ==
    /\ DOMAIN th = Workers /\ \A t \in Threads : DOMAIN th[t] = ThFields
    /\ DOMAIN router = Routers /\ \A r \in Routers : DOMAIN router[r] = RouterFields
    /\ lock \in [Routers -> Threads \cup {Nobody}]
    /\ DOMAIN borrowed = Routers

\* A lender is a filesystem's router, and lends nothing that was lent to it.
Lenders ==
    \A r \in Routers : LET m == router[r].lender IN
       m = 0 \/ (m \in Routers /\ router[r].sticky /\ ~router[m].sticky /\ router[m].st # "none")

\* A thread holds the lock of the router it connects, and of the one that
\* borrows the connection.
Connecting(t) ==
    /\ th[t].pc \notin {"idle", "clear"} => th[t].r \in Routers
    /\ th[t].lender # 0 =>
         /\ th[t].lender \in Routers /\ th[t].lender # th[t].r /\ lock[th[t].r] = t
         /\ ~router[th[t].lender].sticky /\ router[th[t].lender].st # "none"
         /\ th[t].pc \in {"lockwait", "acquire", "identify", "login", "installed"} /\ th[t].target = 0
    /\ th[t].pc \in {"acquire", "identify", "login"} /\ th[t].target = 0 => lock[Top(t)] = t
    /\ th[t].pc = "installed" => lock[Top(t)] = t
    /\ th[t].pc \in {"lockwait", "installed"} => th[t].target = 0
    /\ th[t].next \in {"idle", "recover", "point", "gohome"}

\* An aborted router has a connection only while a thread that has just
\* dialled it looks whether it was aborted.
DialledLate ==
    \A r \in Routers : router[r].aborted /\ router[r].c # 0 =>
       \E t \in Threads : th[t].pc = "installed" /\ Top(t) = r

\* A borrowed connection is some request's.
BorrowedBy ==
    \A r \in Routers : \A c \in borrowed[r] :
       \E t \in Threads : th[t].r = r /\ th[t].pc \in {"away", "return"} /\ th[t].c = c

AbortInv == Shapes /\ Lenders /\ (\A t \in Threads : Connecting(t)) /\ DialledLate /\ BorrowedBy

LEMMA AbortStarts ==
    ASSUME Init
    PROVE  AbortInv
<1>1. Nobody \notin Threads /\ Reaper \notin Threads
  BY ConnectionsAssumption
<1>2. \A t \in Threads : th[t] = AtRest /\ t \in Workers
  BY <1>1 DEF Init, Workers
<1>3. Shapes
  <2>1. DOMAIN th = Workers
    BY DEF Init
  <2>2. DOMAIN router = Routers /\ \A r \in Routers : DOMAIN router[r] = RouterFields
    BY DEF Init, NoRouter, RouterFields
  <2>3. lock \in [Routers -> Threads \cup {Nobody}] /\ DOMAIN borrowed = Routers
    BY DEF Init
  <2>4. \A t \in Threads : DOMAIN th[t] = ThFields
    BY <1>2 DEF AtRest, ThFields
  <2> QED
    BY <2>1, <2>2, <2>3, <2>4 DEF Shapes
<1>4. \A r \in Routers : router[r].lender = 0 /\ router[r].c = 0 /\ borrowed[r] = {}
  BY DEF Init, NoRouter
<1>5. Lenders /\ DialledLate /\ BorrowedBy
  BY <1>4 DEF Lenders, DialledLate, BorrowedBy
<1>6. \A t \in Threads : Connecting(t)
  BY <1>2 DEF Connecting, AtRest
<1> QED
  BY <1>3, <1>5, <1>6 DEF AbortInv

\* What a step may do to the routers: none made is unmade or changes its
\* kind, and none that is aborted gets a connection.
RoutersKept ==
    /\ DOMAIN router' = Routers
    /\ \A m \in Routers :
         /\ DOMAIN router'[m] = RouterFields
         /\ router'[m].aborted /\ router'[m].c # 0 => router[m].aborted /\ router[m].c # 0
         /\ router[m].st # "none" => router'[m].st # "none" /\ router'[m].sticky = router[m].sticky
    /\ Lenders'

\* What a step of thread t may do to the locks and to the other threads.
OnlyMine(t) ==
    /\ DOMAIN th' = Workers /\ DOMAIN th'[t] = ThFields
    /\ \A u \in Threads : u # t => th'[u] = th[u]
    /\ lock' \in [Routers -> Threads \cup {Nobody}]
    /\ \A r \in Routers : lock'[r] # lock[r] => lock[r] \in {t, Nobody}

LEMMA OthersKeep ==
    ASSUME AbortInv, NEW t \in Threads, OnlyMine(t),
           \A m \in Routers : router[m].st # "none" => router'[m].st # "none" /\ router'[m].sticky = router[m].sticky
    PROVE  \A u \in Threads : u # t => Connecting(u)'
<1> SUFFICES ASSUME NEW u \in Threads, u # t
             PROVE  Connecting(u)'
  OBVIOUS
<1>1. th'[u] = th[u] /\ Connecting(u)
  BY DEF OnlyMine, AbortInv
<1>2. u # Nobody /\ \A r \in Routers : lock[r] = u => lock'[r] = u
  BY ConnectionsAssumption DEF OnlyMine
<1>3. Top(u)' = Top(u)
  BY <1>1 DEF Top
<1>4. Top(u) \in Routers \/ th[u].pc \in {"idle", "clear"}
  BY <1>1 DEF Top, Connecting
<1> QED
  BY <1>1, <1>2, <1>3, <1>4 DEF Connecting

\* A step of a thread that has no connection just dialled and keeps what it
\* has borrowed.
LEMMA ThreadMoves ==
    ASSUME AbortInv, NEW t \in Threads, OnlyMine(t), RoutersKept, borrowed' = borrowed,
           th[t].pc # "installed", Connecting(t)',
           th[t].pc \in {"away", "return"} =>
             th'[t].pc \in {"away", "return"} /\ th'[t].r = th[t].r /\ th'[t].c = th[t].c
    PROVE  AbortInv'
<1>1. \A u \in Threads : Connecting(u)'
  BY OthersKeep DEF RoutersKept
<1>2. Shapes'
  BY DEF AbortInv, Shapes, OnlyMine, RoutersKept
<1>3. DialledLate'
  <2> SUFFICES ASSUME NEW r \in Routers, router'[r].aborted, router'[r].c # 0
               PROVE  \E u \in Threads : th'[u].pc = "installed" /\ Top(u)' = r
    BY DEF DialledLate
  <2>1. router[r].aborted /\ router[r].c # 0
    BY DEF RoutersKept
  <2>2. PICK u \in Threads : th[u].pc = "installed" /\ Top(u) = r
    BY <2>1 DEF AbortInv, DialledLate
  <2>3. u # t /\ th'[u] = th[u]
    BY <2>2 DEF OnlyMine
  <2>4. Top(u)' = Top(u)
    BY <2>3 DEF Top
  <2> QED
    BY <2>2, <2>3, <2>4
<1>4. BorrowedBy'
  <2> SUFFICES ASSUME NEW r \in Routers, NEW c \in borrowed[r]
               PROVE  \E u \in Threads : th'[u].r = r /\ th'[u].pc \in {"away", "return"} /\ th'[u].c = c
    BY DEF BorrowedBy
  <2>1. PICK u \in Threads : th[u].r = r /\ th[u].pc \in {"away", "return"} /\ th[u].c = c
    BY DEF AbortInv, BorrowedBy
  <2> QED
    BY <2>1 DEF OnlyMine
<1> QED
  BY <1>1, <1>2, <1>3, <1>4 DEF AbortInv, RoutersKept

LEMMA RoutersSame ==
    ASSUME AbortInv, router' = router
    PROVE  RoutersKept
BY DEF AbortInv, Shapes, Lenders, RoutersKept

\* A router lets go of its connection, and may be aborted or collected then.
LEMMA RouterDrops ==
    ASSUME AbortInv, NEW r \in Routers, DOMAIN router' = Routers, DOMAIN router'[r] = RouterFields,
           \A m \in Routers : m # r => router'[m] = router[m],
           router'[r].c = 0, router'[r].sticky = router[r].sticky, router'[r].lender \in {router[r].lender, 0},
           router[r].st # "none" => router'[r].st # "none"
    PROVE  RoutersKept
<1>1. \A m \in Routers : router'[m].lender \in {router[m].lender, 0} /\ router'[m].sticky = router[m].sticky
                         /\ (router[m].st # "none" => router'[m].st # "none")
  OBVIOUS
<1>2. Lenders'
  BY <1>1 DEF AbortInv, Lenders
<1>3. \A m \in Routers : DOMAIN router'[m] = RouterFields
  BY DEF AbortInv, Shapes
<1> QED
  BY <1>1, <1>2, <1>3 DEF RoutersKept

\* Where a thread's locks do not change, only it does.
LEMMA MyStep ==
    ASSUME AbortInv, NEW t \in Threads, NEW w, th' = [th EXCEPT ![t] = w], DOMAIN w = ThFields, lock' = lock
    PROVE  OnlyMine(t) /\ th'[t] = w
<1>1. t \in Workers
  BY DEF Workers
<1> QED
  BY <1>1 DEF AbortInv, Shapes, OnlyMine

LEMMA RestConnects ==
    ASSUME NEW t \in Threads, th'[t].pc \in {"idle", "clear"}, th'[t].lender = 0,
           th'[t].next \in {"idle", "recover", "point", "gohome"}
    PROVE  Connecting(t)'
BY DEF Connecting

\* A thread that neither dials nor has dialled needs no lock.
LEMMA PlainConnects ==
    ASSUME NEW t \in Threads, th'[t].pc \notin {"lockwait", "acquire", "identify", "login", "installed"}, th'[t].lender = 0,
           th'[t].r \in Routers, th'[t].next \in {"idle", "recover", "point", "gohome"}
    PROVE  Connecting(t)'
BY DEF Connecting

LEMMA AbortFrame ==
    ASSUME AbortInv, UNCHANGED <<router, lock, borrowed, th>>
    PROVE  AbortInv'
BY DEF AbortInv, Shapes, Lenders, Connecting, Top, DialledLate, BorrowedBy

LEMMA AttemptKeeps ==
    ASSUME AbortInv, NEW t \in Threads, Attempt(t)
    PROVE  AbortInv'
<1>1. /\ th[t].pc = "attempt" /\ router' = router /\ lock' = lock /\ borrowed' = borrowed
      /\ DOMAIN th[t] = ThFields /\ Connecting(t)
  BY DEF Attempt, At, AbortInv, Shapes
<1>2. PICK w : /\ th' = [th EXCEPT ![t] = w]
               /\ \/ w = AtRest
                  \/ w = [th[t] EXCEPT !.pc = "acquire"] /\ th[t].target # 0
                  \/ w = [th[t] EXCEPT !.pc = "using", !.c = router[th[t].r].c]
                  \/ w = [th[t] EXCEPT !.pc = "lockwait"] /\ th[t].target = 0
  <2> DEFINE q == router[th[t].r]
             v == CASE q.aborted -> AtRest
                    [] ~q.aborted /\ th[t].target # 0 ->
                         [th[t] EXCEPT !.pc = "acquire"]
                    [] ~q.aborted /\ th[t].target = 0 /\ Alive(q.c) ->
                         [th[t] EXCEPT !.pc = "using", !.c = q.c]
                    [] OTHER -> [th[t] EXCEPT !.pc = "lockwait"]
  <2>1. t \in DOMAIN th
    BY DEF AbortInv, Shapes, Workers
  <2>2. th' = [th EXCEPT ![t] = v]
    BY <2>1 DEF Attempt
  <2>3. \/ v = AtRest
        \/ v = [th[t] EXCEPT !.pc = "acquire"] /\ th[t].target # 0
        \/ v = [th[t] EXCEPT !.pc = "using", !.c = router[th[t].r].c]
        \/ v = [th[t] EXCEPT !.pc = "lockwait"] /\ th[t].target = 0
    OBVIOUS
  <2> HIDE DEF v, q
  <2> QED
    BY <2>2, <2>3
<1>3. DOMAIN w = ThFields
  BY <1>1, <1>2 DEF AtRest, ThFields
<1>4. OnlyMine(t) /\ th'[t] = w
  BY <1>1, <1>2, <1>3, MyStep
<1>5. th[t].r \in Routers /\ th[t].lender = 0 /\ th[t].next \in {"idle", "recover", "point", "gohome"}
  BY <1>1 DEF Connecting
<1>6. /\ w.pc \in {"idle", "acquire", "using", "lockwait"} /\ w.lender = 0
      /\ w.next \in {"idle", "recover", "point", "gohome"}
      /\ w.pc # "idle" => w.r \in Routers
      /\ w.pc = "acquire" => w.target # 0
      /\ w.pc = "lockwait" => w.target = 0
  <2>1. CASE w = AtRest
    BY <2>1 DEF AtRest
  <2>2. CASE w = [th[t] EXCEPT !.pc = "acquire"] /\ th[t].target # 0
    BY <1>1, <1>5, <2>2 DEF ThFields
  <2>3. CASE w = [th[t] EXCEPT !.pc = "using", !.c = router[th[t].r].c]
    BY <1>1, <1>5, <2>3 DEF ThFields
  <2>4. CASE w = [th[t] EXCEPT !.pc = "lockwait"] /\ th[t].target = 0
    BY <1>1, <1>5, <2>4 DEF ThFields
  <2> QED
    BY <1>2, <2>1, <2>2, <2>3, <2>4
<1>7. Connecting(t)'
  BY <1>4, <1>6 DEF Connecting
<1> QED
  BY <1>1, <1>4, <1>7, RoutersSame, ThreadMoves

LEMMA UnlockedMine ==
    ASSUME AbortInv, NEW t \in Threads, NEW w, th' = [th EXCEPT ![t] = w], DOMAIN w = ThFields, lock' = Unlocked(t)
    PROVE  OnlyMine(t) /\ th'[t] = w
<1>1. t \in Workers
  BY DEF Workers
<1> QED
  BY <1>1 DEF AbortInv, Shapes, OnlyMine, Unlocked

LEMMA LockedMine ==
    ASSUME AbortInv, NEW t \in Threads, NEW w, th' = [th EXCEPT ![t] = w], DOMAIN w = ThFields,
           NEW n \in Routers, lock[n] = Nobody, lock' = [lock EXCEPT ![n] = t]
    PROVE  /\ OnlyMine(t) /\ th'[t] = w /\ lock'[n] = t
           /\ \A r \in Routers : lock[r] = t => lock'[r] = t
<1>1. t \in Workers
  BY DEF Workers
<1> QED
  BY <1>1 DEF AbortInv, Shapes, OnlyMine

LEMMA EnterKeeps ==
    ASSUME AbortInv, NEW t \in Threads, Enter(t)
    PROVE  AbortInv'
<1> DEFINE n == Top(t)
           q == router[n]
<1>1. /\ th[t].pc = "lockwait" /\ lock[n] = Nobody /\ borrowed' = borrowed
      /\ DOMAIN th[t] = ThFields /\ Connecting(t) /\ t \in DOMAIN th
  BY DEF Enter, At, AbortInv, Shapes, Workers
<1>2. th[t].r \in Routers /\ th[t].target = 0 /\ n \in Routers /\ t # Nobody /\ 0 \notin Routers
  BY <1>1, ConnectionsAssumption DEF Connecting, Top
<1>3. ASSUME lock' = Unlocked(t), th' = [th EXCEPT ![t] = AtRest], router' = router
      PROVE  AbortInv'
  <2>1. DOMAIN AtRest = ThFields
    BY DEF AtRest, ThFields
  <2>2. OnlyMine(t) /\ th'[t] = AtRest
    BY <1>3, <2>1, UnlockedMine
  <2>3. Connecting(t)'
    BY <2>2, RestConnects DEF AtRest
  <2> QED
    BY <1>1, <1>3, <2>2, <2>3, RoutersSame, ThreadMoves
<1>4. ASSUME lock' = [lock EXCEPT ![n] = t], th' = [th EXCEPT ![t].pc = "installed", ![t].new = q.c], router' = router
      PROVE  AbortInv'
  <2> DEFINE w == [th[t] EXCEPT !.pc = "installed", !.new = q.c]
  <2>1. th' = [th EXCEPT ![t] = w]
    BY <1>1, <1>4
  <2>2. DOMAIN w = ThFields /\ w.pc = "installed" /\ w.r = th[t].r /\ w.lender = th[t].lender /\ w.target = 0 /\ w.next = th[t].next
    BY <1>1, <1>2 DEF ThFields
  <2> HIDE DEF w
  <2>3. OnlyMine(t) /\ th'[t] = w /\ lock'[n] = t /\ \A r \in Routers : lock[r] = t => lock'[r] = t
    BY <1>1, <1>2, <1>4, <2>1, <2>2, LockedMine
  <2>4. Top(t)' = n
    BY <2>2, <2>3 DEF Top
  <2>5. Connecting(t)'
    BY <1>1, <1>2, <1>4, <2>2, <2>3, <2>4 DEF Connecting
  <2> QED
    BY <1>1, <1>4, <2>3, <2>5, RoutersSame, ThreadMoves
<1>5. ASSUME lock' = Unlocked(t), th' = [th EXCEPT ![t].pc = "recover", ![t].lender = 0], router' = router
      PROVE  AbortInv'
  <2> DEFINE w == [th[t] EXCEPT !.pc = "recover", !.lender = 0]
  <2>1. th' = [th EXCEPT ![t] = w]
    BY <1>1, <1>5
  <2>2. DOMAIN w = ThFields /\ w.pc = "recover" /\ w.r = th[t].r /\ w.lender = 0 /\ w.next = th[t].next
    BY <1>1, <1>2 DEF ThFields
  <2> HIDE DEF w
  <2>3. OnlyMine(t) /\ th'[t] = w
    BY <1>5, <2>1, <2>2, UnlockedMine
  <2>4. Connecting(t)'
    BY <1>1, <1>2, <2>2, <2>3, PlainConnects DEF Connecting
  <2> QED
    BY <1>1, <1>5, <2>3, <2>4, RoutersSame, ThreadMoves
<1>6. ASSUME lock' = [lock EXCEPT ![n] = t], router' = [router EXCEPT ![n].c = 0, ![n].loan = 0, ![n].lender = 0],
             th' = [th EXCEPT ![t] = IF q.lender # 0 THEN [@ EXCEPT !.lender = q.lender] ELSE [@ EXCEPT !.pc = "acquire"]]
      PROVE  AbortInv'
  <2> DEFINE w == IF q.lender # 0 THEN [th[t] EXCEPT !.lender = q.lender] ELSE [th[t] EXCEPT !.pc = "acquire"]
  <2>1. th' = [th EXCEPT ![t] = w]
    BY <1>1, <1>6
  <2>2. /\ DOMAIN w = ThFields /\ w.r = th[t].r /\ w.target = 0 /\ w.next = th[t].next
        /\ q.lender # 0 => w.pc = "lockwait" /\ w.lender = q.lender
        /\ q.lender = 0 => w.pc = "acquire" /\ w.lender = th[t].lender
    BY <1>1, <1>2 DEF ThFields
  <2> HIDE DEF w
  <2>3. OnlyMine(t) /\ th'[t] = w /\ lock'[n] = t /\ \A r \in Routers : lock[r] = t => lock'[r] = t
    BY <1>1, <1>2, <1>6, <2>1, <2>2, LockedMine
  <2>4. /\ DOMAIN router' = Routers /\ DOMAIN router'[n] = RouterFields /\ \A m \in Routers : m # n => router'[m] = router[m]
        /\ router'[n].c = 0 /\ router'[n].sticky = router[n].sticky /\ router'[n].lender = 0 /\ router'[n].st = router[n].st
    BY <1>2, <1>6 DEF AbortInv, Shapes, RouterFields
  <2>5. RoutersKept
    BY <1>2, <2>4, RouterDrops
  <2>6. \A m \in Routers : router'[m].sticky = router[m].sticky /\ router'[m].st = router[m].st
    BY <2>4
  <2>7. Connecting(t)'
    <3>1. CASE q.lender # 0
      <4>1. q.lender \in Routers /\ q.sticky /\ ~router[q.lender].sticky /\ router[q.lender].st # "none"
        BY <1>2, <3>1 DEF AbortInv, Lenders
      <4>2. n = th[t].r
        BY <1>1, <4>1 DEF Connecting, Top
      <4> QED
        BY <1>1, <1>2, <2>2, <2>3, <2>6, <3>1, <4>1, <4>2 DEF Connecting
    <3>2. CASE q.lender = 0
      <4>1. Top(t)' = n
        BY <2>2, <2>3, <3>2 DEF Top
      <4> QED
        BY <1>1, <1>2, <2>2, <2>3, <2>6, <3>2, <4>1 DEF Connecting
    <3> QED
      BY <3>1, <3>2
  <2> QED
    BY <1>1, <2>3, <2>5, <2>7, ThreadMoves
<1>7. \/ lock' = Unlocked(t) /\ th' = [th EXCEPT ![t] = AtRest] /\ router' = router
      \/ lock' = [lock EXCEPT ![n] = t] /\ th' = [th EXCEPT ![t].pc = "installed", ![t].new = q.c] /\ router' = router
      \/ lock' = Unlocked(t) /\ th' = [th EXCEPT ![t].pc = "recover", ![t].lender = 0] /\ router' = router
      \/ /\ lock' = [lock EXCEPT ![n] = t] /\ router' = [router EXCEPT ![n].c = 0, ![n].loan = 0, ![n].lender = 0]
         /\ th' = [th EXCEPT ![t] = IF q.lender # 0 THEN [@ EXCEPT !.lender = q.lender] ELSE [@ EXCEPT !.pc = "acquire"]]
  BY DEF Enter
<1> QED
  BY <1>3, <1>4, <1>5, <1>6, <1>7, Zenon

Nexts == {"idle", "recover", "point", "gohome"}
Dialling == {"lockwait", "acquire", "identify", "login", "installed"}

\* The general step of a thread: an aborted router that has a connection had
\* it before and another thread looks at it, or this one does now.
LEMMA ThreadDials ==
    ASSUME AbortInv, NEW t \in Threads, OnlyMine(t), DOMAIN borrowed' = Routers, BorrowedBy',
           DOMAIN router' = Routers, \A m \in Routers : DOMAIN router'[m] = RouterFields, Lenders',
           \A m \in Routers : router[m].st # "none" => router'[m].st # "none" /\ router'[m].sticky = router[m].sticky,
           Connecting(t)',
           \A m \in Routers : router'[m].aborted /\ router'[m].c # 0 =>
              \/ router[m].aborted /\ router[m].c # 0 /\ ~(th[t].pc = "installed" /\ Top(t) = m)
              \/ th'[t].pc = "installed" /\ Top(t)' = m
    PROVE  AbortInv'
<1>1. \A u \in Threads : Connecting(u)'
  BY OthersKeep
<1>2. Shapes'
  BY DEF AbortInv, Shapes, OnlyMine
<1>3. DialledLate'
  <2> SUFFICES ASSUME NEW r \in Routers, router'[r].aborted, router'[r].c # 0,
                      ~(th'[t].pc = "installed" /\ Top(t)' = r)
               PROVE  \E u \in Threads : th'[u].pc = "installed" /\ Top(u)' = r
    BY DEF DialledLate
  <2>1. router[r].aborted /\ router[r].c # 0 /\ ~(th[t].pc = "installed" /\ Top(t) = r)
    OBVIOUS
  <2>2. PICK u \in Threads : th[u].pc = "installed" /\ Top(u) = r
    BY <2>1 DEF AbortInv, DialledLate
  <2>3. u # t /\ th'[u] = th[u]
    BY <2>1, <2>2 DEF OnlyMine
  <2>4. Top(u)' = Top(u)
    BY <2>3 DEF Top
  <2> QED
    BY <2>2, <2>3, <2>4
<1> QED
  BY <1>1, <1>2, <1>3 DEF AbortInv

\* A step after which the thread does not dial.
LEMMA PlainStep ==
    ASSUME AbortInv, NEW t \in Threads, NEW w, th' = [th EXCEPT ![t] = w], DOMAIN w = ThFields,
           w.pc \notin Dialling, w.lender = 0, w.next \in Nexts, w.r \in Routers \/ w.pc \in {"idle", "clear"},
           lock' = lock \/ lock' = Unlocked(t), RoutersKept, borrowed' = borrowed, th[t].pc # "installed",
           th[t].pc \in {"away", "return"} => w.pc \in {"away", "return"} /\ w.r = th[t].r /\ w.c = th[t].c
    PROVE  AbortInv'
<1>1. OnlyMine(t) /\ th'[t] = w
  BY MyStep, UnlockedMine
<1>2. Connecting(t)'
  BY <1>1, RestConnects, PlainConnects DEF Nexts, Dialling
<1> QED
  BY <1>1, <1>2, ThreadMoves

\* What a thread that does not dial has.
LEMMA PlainThread ==
    ASSUME AbortInv, NEW t \in Threads, th[t].pc \notin Dialling
    PROVE  /\ t \in DOMAIN th /\ DOMAIN th[t] = ThFields /\ th[t].lender = 0 /\ th[t].next \in Nexts
           /\ th[t].pc \notin {"idle", "clear"} => th[t].r \in Routers
BY DEF AbortInv, Shapes, Connecting, Dialling, Nexts, Workers

LEMMA RouterStep ==
    ASSUME AbortInv, RoutersKept, UNCHANGED <<th, lock, borrowed>>
    PROVE  AbortInv'
<1>1. Shapes' /\ Lenders'
  BY DEF AbortInv, Shapes, RoutersKept
<1>2. \A t \in Threads : Top(t)' = Top(t)
  BY DEF Top
<1>3. BorrowedBy'
  BY DEF AbortInv, BorrowedBy
<1>4. DialledLate'
  BY <1>2 DEF AbortInv, DialledLate, RoutersKept
<1>5. ASSUME NEW t \in Threads PROVE Connecting(t)'
  <2>1. Connecting(t)
    BY DEF AbortInv
  <2> QED
    BY <1>2, <2>1 DEF Connecting, RoutersKept
<1> QED
  BY <1>1, <1>3, <1>4, <1>5 DEF AbortInv

\* A thread goes on dialling.
LEMMA DialStep ==
    ASSUME AbortInv, NEW t \in Threads, NEW w, th' = [th EXCEPT ![t] = w], DOMAIN w = ThFields,
           th[t].pc \in {"acquire", "identify"}, w.pc \in {"identify", "login"},
           w.r = th[t].r, w.lender = th[t].lender, w.target = th[t].target, w.next = th[t].next,
           lock' = lock, router' = router, borrowed' = borrowed
    PROVE  AbortInv'
<1>1. OnlyMine(t) /\ th'[t] = w /\ Connecting(t)
  BY MyStep DEF AbortInv
<1>2. Top(t)' = Top(t)
  BY <1>1 DEF Top
<1>3. Connecting(t)'
  BY <1>1, <1>2 DEF Connecting
<1> QED
  BY <1>1, <1>3, RoutersSame, ThreadMoves

LEMMA IdentifyKeeps ==
    ASSUME AbortInv, NEW t \in Threads, Identify(t)
    PROVE  AbortInv'
<1> DEFINE w == [th[t] EXCEPT !.pc = "login", !.id = IF PoolSize = 0 THEN 0 ELSE cred]
<1>1. t \in DOMAIN th /\ DOMAIN th[t] = ThFields /\ th[t].pc = "identify"
  BY DEF AbortInv, Shapes, Workers, Identify, At
<1>2. th' = [th EXCEPT ![t] = w] /\ lock' = lock /\ router' = router /\ borrowed' = borrowed
  BY <1>1 DEF Identify
<1>3. /\ DOMAIN w = ThFields /\ w.pc = "login" /\ w.r = th[t].r /\ w.lender = th[t].lender
      /\ w.target = th[t].target /\ w.next = th[t].next
  BY <1>1 DEF ThFields
<1> HIDE DEF w
<1> QED
  BY <1>1, <1>2, <1>3, DialStep

LEMMA LoginFailsKeeps ==
    ASSUME AbortInv, NEW t \in Threads, LoginFails(t)
    PROVE  AbortInv'
<1> DEFINE w == [th[t] EXCEPT !.pc = "recover", !.lender = 0, !.raced = FALSE]
<1>1. t \in DOMAIN th /\ DOMAIN th[t] = ThFields /\ th[t].pc = "login" /\ th[t].r \in Routers /\ th[t].next \in Nexts
  BY DEF AbortInv, Shapes, Workers, LoginFails, At, Connecting, Nexts
<1>2. th' = [th EXCEPT ![t] = w] /\ lock' = Unlocked(t) /\ router' = router /\ borrowed' = borrowed
  BY <1>1 DEF LoginFails
<1>3. DOMAIN w = ThFields /\ w.pc = "recover" /\ w.r = th[t].r /\ w.lender = 0 /\ w.next = th[t].next
  BY <1>1 DEF ThFields
<1>4. w.pc \notin Dialling
  BY <1>3 DEF Dialling
<1> HIDE DEF w
<1> QED
  BY <1>1, <1>2, <1>3, <1>4, RoutersSame, PlainStep

LEMMA OutcomeKeeps ==
    ASSUME AbortInv, NEW t \in Threads, Out(t), NEW next \in Nexts,
           NEW w, th' = [th EXCEPT ![t] = w], DOMAIN w = ThFields,
           w.pc = Outcome(t, next)[t].pc, w.r = Outcome(t, next)[t].r, w.lender = Outcome(t, next)[t].lender,
           w.c = Outcome(t, next)[t].c, w.next = Outcome(t, next)[t].next,
           lock' = lock, router' = router, borrowed' = borrowed
    PROVE  AbortInv'
<1> DEFINE o == Outcome(t, next)[t]
<1>1. th[t].pc \in {"using", "away"}
  BY DEF Out
<1>2. th[t].pc \notin Dialling
  BY <1>1 DEF Dialling
<1>3. t \in DOMAIN th /\ DOMAIN th[t] = ThFields /\ th[t].lender = 0 /\ th[t].next \in Nexts /\ th[t].r \in Routers
  BY <1>1, <1>2, PlainThread
<1>4. \/ o = [th[t] EXCEPT !.pc = "return", !.next = next] /\ th[t].pc = "away"
      \/ o = AtRest /\ th[t].pc = "using"
      \/ o = [th[t] EXCEPT !.pc = next] /\ th[t].pc = "using" /\ next # "idle"
  BY <1>1, <1>3 DEF Outcome
<1>5. /\ o.pc \notin Dialling /\ o.lender = 0 /\ o.next \in Nexts /\ (o.r \in Routers \/ o.pc = "idle")
      /\ th[t].pc = "away" => o.pc = "return" /\ o.r = th[t].r /\ o.c = th[t].c
  <2>1. CASE o = [th[t] EXCEPT !.pc = "return", !.next = next] /\ th[t].pc = "away"
    BY <1>3, <2>1 DEF ThFields, Dialling
  <2>2. CASE o = AtRest /\ th[t].pc = "using"
    BY <2>2 DEF AtRest, Dialling, Nexts
  <2>3. CASE o = [th[t] EXCEPT !.pc = next] /\ th[t].pc = "using" /\ next # "idle"
    BY <1>3, <2>3 DEF ThFields, Dialling, Nexts
  <2> HIDE DEF o
  <2> QED
    BY <1>4, <2>1, <2>2, <2>3
<1> HIDE DEF o
<1>6. w.pc = o.pc /\ w.r = o.r /\ w.lender = o.lender /\ w.c = o.c /\ w.next = o.next
  BY DEF o
<1> QED
  BY <1>1, <1>5, <1>6, RoutersSame, PlainStep

LEMMA OutcomeShape ==
    ASSUME AbortInv, NEW t \in Threads, Out(t), NEW next \in Nexts
    PROVE  Outcome(t, next) = [th EXCEPT ![t] = Outcome(t, next)[t]] /\ DOMAIN Outcome(t, next)[t] = ThFields
<1>1. th[t].pc \in {"using", "away"} /\ t \in DOMAIN th /\ DOMAIN th[t] = ThFields
  BY DEF Out, AbortInv, Shapes, Workers
<1>2. \/ Outcome(t, next)[t] = [th[t] EXCEPT !.pc = "return", !.next = next]
      \/ Outcome(t, next)[t] = AtRest
      \/ Outcome(t, next)[t] = [th[t] EXCEPT !.pc = next]
  BY <1>1 DEF Outcome
<1>3. Outcome(t, next) = [th EXCEPT ![t] = Outcome(t, next)[t]]
  BY <1>1 DEF Outcome
<1> QED
  BY <1>1, <1>2, <1>3 DEF AtRest, ThFields

LEMMA FinishKeeps ==
    ASSUME AbortInv, NEW t \in Threads, Finish(t)
    PROVE  AbortInv'
<1>1. Out(t) /\ th' = Outcome(t, "idle") /\ lock' = lock /\ router' = router /\ borrowed' = borrowed /\ "idle" \in Nexts
  BY DEF Finish, Nexts
<1> QED
  BY <1>1, OutcomeShape, OutcomeKeeps

LEMMA FailsKeeps ==
    ASSUME AbortInv, NEW t \in Threads, Fails(t)
    PROVE  AbortInv'
<1>1. Out(t) /\ th' = Outcome(t, "recover") /\ lock' = lock /\ router' = router /\ borrowed' = borrowed /\ "recover" \in Nexts
  BY DEF Fails, Nexts
<1> QED
  BY <1>1, OutcomeShape, OutcomeKeeps

LEMMA RedirectedKeeps ==
    ASSUME AbortInv, NEW t \in Threads, NEW d \in Servers, Redirected(t, d)
    PROVE  AbortInv'
<1> DEFINE o == Outcome(t, "point")
           w == [o[t] EXCEPT !.dest = d, !.hops = o[t].hops + 1]
<1>1. Out(t) /\ lock' = lock /\ router' = router /\ borrowed' = borrowed /\ "point" \in Nexts /\ t \in DOMAIN th
  BY DEF Redirected, Nexts, AbortInv, Shapes, Workers
<1>2. o = [th EXCEPT ![t] = o[t]] /\ DOMAIN o[t] = ThFields
  BY <1>1, OutcomeShape
<1>3. th' = [o EXCEPT ![t].dest = d, ![t].hops = @ + 1]
  BY DEF Redirected
<1>4. DOMAIN w = ThFields /\ w.pc = o[t].pc /\ w.r = o[t].r /\ w.lender = o[t].lender /\ w.c = o[t].c /\ w.next = o[t].next
  BY <1>2 DEF ThFields
<1>5. th' = [th EXCEPT ![t] = w]
  <2> HIDE DEF o
  <2>1. DOMAIN o = DOMAIN th /\ \A u \in DOMAIN th : u # t => o[u] = th[u]
    BY <1>2
  <2>2. DOMAIN th' = DOMAIN th /\ th'[t] = w /\ \A u \in DOMAIN th : u # t => th'[u] = th[u]
    BY <1>1, <1>3, <2>1
  <2>3. th' = [u \in DOMAIN th |-> th'[u]]
    BY <1>3, <2>1
  <2> QED
    BY <2>2, <2>3
<1> HIDE DEF w, o
<1>6. w.pc = Outcome(t, "point")[t].pc /\ w.r = Outcome(t, "point")[t].r /\ w.lender = Outcome(t, "point")[t].lender
      /\ w.c = Outcome(t, "point")[t].c /\ w.next = Outcome(t, "point")[t].next
  BY <1>4 DEF o
<1> QED
  BY <1>1, <1>4, <1>5, <1>6, OutcomeKeeps

LEMMA RefusedAwayKeeps ==
    ASSUME AbortInv, NEW t \in Threads, RefusedAway(t)
    PROVE  AbortInv'
<1> DEFINE o == Outcome(t, "gohome")
           w == [o[t] EXCEPT !.spoiled = FALSE]
<1>1. Out(t) /\ lock' = lock /\ router' = router /\ borrowed' = borrowed /\ "gohome" \in Nexts /\ t \in DOMAIN th
  BY DEF RefusedAway, Nexts, AbortInv, Shapes, Workers
<1>2. o = [th EXCEPT ![t] = o[t]] /\ DOMAIN o[t] = ThFields
  BY <1>1, OutcomeShape
<1>3. th' = [o EXCEPT ![t].spoiled = FALSE]
  BY DEF RefusedAway
<1>4. DOMAIN w = ThFields /\ w.pc = o[t].pc /\ w.r = o[t].r /\ w.lender = o[t].lender /\ w.c = o[t].c /\ w.next = o[t].next
  BY <1>2 DEF ThFields
<1>5. th' = [th EXCEPT ![t] = w]
  <2> HIDE DEF o
  <2>1. DOMAIN o = DOMAIN th /\ \A u \in DOMAIN th : u # t => o[u] = th[u]
    BY <1>2
  <2>2. DOMAIN th' = DOMAIN th /\ th'[t] = w /\ \A u \in DOMAIN th : u # t => th'[u] = th[u]
    BY <1>1, <1>3, <2>1
  <2>3. th' = [u \in DOMAIN th |-> th'[u]]
    BY <1>3, <2>1
  <2> QED
    BY <2>2, <2>3
<1> HIDE DEF w, o
<1>6. w.pc = Outcome(t, "gohome")[t].pc /\ w.r = Outcome(t, "gohome")[t].r /\ w.lender = Outcome(t, "gohome")[t].lender
      /\ w.c = Outcome(t, "gohome")[t].c /\ w.next = Outcome(t, "gohome")[t].next
  BY <1>4 DEF o
<1> QED
  BY <1>1, <1>4, <1>5, <1>6, OutcomeKeeps

LEMMA BorrowKeeps ==
    ASSUME AbortInv, NEW t \in Threads, Borrow(t)
    PROVE  AbortInv'
<1> DEFINE w == [th[t] EXCEPT !.pc = "away", !.c = th[t].new, !.new = 0]
<1>1. th[t].pc = "borrow" /\ th[t].pc \notin Dialling
  BY DEF Borrow, At, Dialling
<1>2. /\ t \in DOMAIN th /\ DOMAIN th[t] = ThFields /\ th[t].lender = 0 /\ th[t].next \in Nexts /\ th[t].r \in Routers
      /\ DOMAIN borrowed = Routers
  BY <1>1, PlainThread DEF AbortInv, Shapes
<1>3. /\ th' = [th EXCEPT ![t] = w] /\ lock' = lock /\ router' = router
      /\ borrowed' = [borrowed EXCEPT ![th[t].r] = borrowed[th[t].r] \cup {th[t].new}]
  BY <1>2 DEF Borrow
<1>4. DOMAIN w = ThFields /\ w.pc = "away" /\ w.r = th[t].r /\ w.lender = 0 /\ w.next = th[t].next /\ w.c = th[t].new
  BY <1>2 DEF ThFields
<1> HIDE DEF w
<1>5. OnlyMine(t) /\ th'[t] = w
  BY <1>3, <1>4, MyStep
<1>6. Connecting(t)'
  BY <1>2, <1>4, <1>5, PlainConnects DEF Nexts
<1>7. BorrowedBy' /\ DOMAIN borrowed' = Routers
  <2> SUFFICES ASSUME NEW r \in Routers, NEW c \in borrowed'[r]
               PROVE  \E u \in Threads : th'[u].r = r /\ th'[u].pc \in {"away", "return"} /\ th'[u].c = c
    BY <1>2, <1>3 DEF BorrowedBy
  <2>1. CASE r = th[t].r /\ c = th[t].new
    BY <1>4, <1>5, <2>1
  <2>2. CASE c \in borrowed[r]
    <3>1. PICK u \in Threads : th[u].r = r /\ th[u].pc \in {"away", "return"} /\ th[u].c = c
      BY <2>2 DEF AbortInv, BorrowedBy
    <3>2. th'[u] = th[u]
      BY <1>1, <1>5, <3>1 DEF OnlyMine
    <3> QED
      BY <3>1, <3>2
  <2> QED
    BY <1>2, <1>3, <2>1, <2>2
<1>8. RoutersKept
  BY <1>3, RoutersSame
<1> QED
  BY <1>1, <1>5, <1>6, <1>7, <1>8, ThreadDials DEF RoutersKept

LEMMA ReturnKeeps ==
    ASSUME AbortInv, NEW t \in Threads, Return(t)
    PROVE  AbortInv'
<1> DEFINE w == IF th[t].next = "idle" THEN AtRest ELSE [th[t] EXCEPT !.pc = th[t].next]
<1>1. th[t].pc = "return" /\ th[t].pc \notin Dialling
  BY DEF Return, At, Dialling
<1>2. /\ t \in DOMAIN th /\ DOMAIN th[t] = ThFields /\ th[t].lender = 0 /\ th[t].next \in Nexts /\ th[t].r \in Routers
      /\ DOMAIN borrowed = Routers
  BY <1>1, PlainThread DEF AbortInv, Shapes
<1>3. /\ th' = [th EXCEPT ![t] = w] /\ lock' = lock /\ router' = router
      /\ borrowed' = [borrowed EXCEPT ![th[t].r] = borrowed[th[t].r] \ {th[t].c}]
  BY <1>2 DEF Return
<1>4. /\ DOMAIN w = ThFields /\ w.pc \in Nexts /\ (w.r \in Routers \/ w.pc = "idle") /\ w.lender = 0 /\ w.next \in Nexts
  BY <1>2 DEF ThFields, AtRest, Nexts
<1> HIDE DEF w
<1>5. OnlyMine(t) /\ th'[t] = w
  BY <1>3, <1>4, MyStep
<1>6. Connecting(t)'
  BY <1>4, <1>5, PlainConnects, RestConnects DEF Nexts
<1>7. BorrowedBy' /\ DOMAIN borrowed' = Routers
  <2> SUFFICES ASSUME NEW r \in Routers, NEW c \in borrowed'[r]
               PROVE  \E u \in Threads : th'[u].r = r /\ th'[u].pc \in {"away", "return"} /\ th'[u].c = c
    BY <1>2, <1>3 DEF BorrowedBy
  <2>1. c \in borrowed[r] /\ ~(r = th[t].r /\ c = th[t].c)
    BY <1>2, <1>3
  <2>2. PICK u \in Threads : th[u].r = r /\ th[u].pc \in {"away", "return"} /\ th[u].c = c
    BY <2>1 DEF AbortInv, BorrowedBy
  <2>3. th'[u] = th[u]
    BY <1>5, <2>1, <2>2 DEF OnlyMine
  <2> QED
    BY <2>2, <2>3
<1>8. RoutersKept
  BY <1>3, RoutersSame
<1> QED
  BY <1>1, <1>5, <1>6, <1>7, <1>8, ThreadDials DEF RoutersKept

\* Router r's record becomes q, which has no connection.
LEMMA DropKeeps ==
    ASSUME AbortInv, NEW r \in Routers, NEW q, router' = [router EXCEPT ![r] = q], DOMAIN q = RouterFields, q.c = 0,
           q.sticky = router[r].sticky, q.lender = router[r].lender, router[r].st # "none" => q.st # "none"
    PROVE  RoutersKept
<1>1. /\ DOMAIN router' = Routers /\ router'[r] = q /\ \A m \in Routers : m # r => router'[m] = router[m]
  BY DEF AbortInv, Shapes
<1> QED
  BY <1>1, RouterDrops

LEMMA PointKeeps ==
    ASSUME AbortInv, NEW t \in Threads, Point(t)
    PROVE  AbortInv'
<1> DEFINE r == th[t].r
           q == router[r]
           d == th[t].dest
<1>1. th[t].pc = "point" /\ th[t].pc \notin Dialling /\ lock' = lock /\ borrowed' = borrowed
  BY DEF Point, At, Dialling
<1>2. t \in DOMAIN th /\ DOMAIN th[t] = ThFields /\ th[t].lender = 0 /\ th[t].next \in Nexts /\ th[t].r \in Routers
  BY <1>1, PlainThread
<1>3. ASSUME NEW w, th' = [th EXCEPT ![t] = w], DOMAIN w = ThFields, w.pc = "attempt", w.r = th[t].r, w.lender = 0,
             w.next = th[t].next, RoutersKept
      PROVE  AbortInv'
  <2>1. w.pc \notin Dialling
    BY <1>3 DEF Dialling
  <2> QED
    BY <1>1, <1>2, <1>3, <2>1, PlainStep
<1>4. ASSUME Retargeted(t, d), router' = router
      PROVE  AbortInv'
  <2> DEFINE w == [th[t] EXCEPT !.pc = "attempt", !.target = IF d = router[th[t].r].url THEN 0 ELSE d]
  <2>1. th' = [th EXCEPT ![t] = w]
    BY <1>2, <1>4 DEF Retargeted
  <2>2. DOMAIN w = ThFields /\ w.pc = "attempt" /\ w.r = th[t].r /\ w.lender = 0 /\ w.next = th[t].next
    BY <1>2 DEF ThFields
  <2> HIDE DEF w
  <2> QED
    BY <1>3, <1>4, <2>1, <2>2, RoutersSame
<1>5. ASSUME th' = [th EXCEPT ![t].pc = "attempt", ![t].moved = @ \/ d # th[t].home],
             router' = router \/ router' = [router EXCEPT ![r].c = 0, ![r].loan = 0, ![r].url = d]
      PROVE  AbortInv'
  <2> DEFINE w == [th[t] EXCEPT !.pc = "attempt", !.moved = th[t].moved \/ d # th[t].home]
             v == [q EXCEPT !.c = 0, !.loan = 0, !.url = d]
  <2>1. th' = [th EXCEPT ![t] = w]
    BY <1>2, <1>5
  <2>2. DOMAIN w = ThFields /\ w.pc = "attempt" /\ w.r = th[t].r /\ w.lender = 0 /\ w.next = th[t].next
    BY <1>2 DEF ThFields
  <2>3. DOMAIN router = Routers /\ DOMAIN router[r] = RouterFields
    BY <1>2 DEF AbortInv, Shapes
  <2>4. router' = router \/ router' = [router EXCEPT ![r] = v]
    BY <1>2, <1>5, <2>3
  <2>5. DOMAIN v = RouterFields /\ v.c = 0 /\ v.sticky = router[r].sticky /\ v.lender = router[r].lender /\ v.st = router[r].st
    BY <2>3 DEF RouterFields
  <2> HIDE DEF w, v
  <2>6. RoutersKept
    BY <1>2, <2>4, <2>5, DropKeeps, RoutersSame
  <2> HIDE DEF d, q, r
  <2> QED
    BY <1>3, <2>1, <2>2, <2>6
<1>6. \/ Retargeted(t, d) /\ router' = router
      \/ /\ th' = [th EXCEPT ![t].pc = "attempt", ![t].moved = @ \/ d # th[t].home]
         /\ router' = router \/ router' = [router EXCEPT ![r].c = 0, ![r].loan = 0, ![r].url = d]
  BY DEF Point
<1> QED
  BY <1>4, <1>5, <1>6, Zenon

LEMMA RecoverRaisesKeeps ==
    ASSUME AbortInv, NEW t \in Threads, RecoverRaises(t)
    PROVE  AbortInv'
<1>1. th[t].pc = "recover" /\ lock' = lock /\ router' = router /\ borrowed' = borrowed /\ th' = [th EXCEPT ![t] = AtRest]
  BY DEF RecoverRaises, At
<1>2. DOMAIN AtRest = ThFields /\ AtRest.pc = "idle" /\ AtRest.pc \notin Dialling /\ AtRest.lender = 0 /\ AtRest.next \in Nexts
  BY DEF AtRest, ThFields, Dialling, Nexts
<1> QED
  BY <1>1, <1>2, RoutersSame, PlainStep

LEMMA RecoverKeeps ==
    ASSUME AbortInv, NEW t \in Threads, Recover(t)
    PROVE  AbortInv'
<1> DEFINE r == th[t].r
           q == router[r]
<1>1. th[t].pc = "recover" /\ th[t].pc \notin Dialling /\ lock' = lock /\ borrowed' = borrowed
  BY DEF Recover, At, Dialling
<1>2. t \in DOMAIN th /\ DOMAIN th[t] = ThFields /\ th[t].lender = 0 /\ th[t].next \in Nexts /\ th[t].r \in Routers
  BY <1>1, PlainThread
<1>3. DOMAIN router = Routers /\ DOMAIN router[r] = RouterFields
  BY <1>2 DEF AbortInv, Shapes
<1>4. PICK w : /\ th' = [th EXCEPT ![t] = w]
               /\ \/ w = [th[t] EXCEPT !.pc = "gohome", !.spoiled = TRUE, !.tries = th[t].tries + 1]
                  \/ w = [th[t] EXCEPT !.pc = "attempt", !.tries = th[t].tries + 1]
  <2>1. \/ th' = [th EXCEPT ![t].pc = "gohome", ![t].spoiled = TRUE, ![t].tries = @ + 1]
        \/ th' = [th EXCEPT ![t].pc = "attempt", ![t].tries = @ + 1]
    BY DEF Recover
  <2>2. \/ th' = [th EXCEPT ![t] = [th[t] EXCEPT !.pc = "gohome", !.spoiled = TRUE, !.tries = th[t].tries + 1]]
        \/ th' = [th EXCEPT ![t] = [th[t] EXCEPT !.pc = "attempt", !.tries = th[t].tries + 1]]
    BY <1>2, <2>1
  <2> QED
    BY <2>2
<1>5. DOMAIN w = ThFields /\ w.pc \in {"gohome", "attempt"} /\ w.r = th[t].r /\ w.lender = 0 /\ w.next = th[t].next
  BY <1>2, <1>4 DEF ThFields
<1>6. w.pc \notin Dialling
  BY <1>5 DEF Dialling
<1>7. RoutersKept
  <2> DEFINE v == [q EXCEPT !.c = 0, !.loan = 0]
  <2>1. router' = router \/ router' = [router EXCEPT ![r].c = 0, ![r].loan = 0]
    BY DEF Recover
  <2>2. router' = router \/ router' = [router EXCEPT ![r] = v]
    BY <1>2, <1>3, <2>1
  <2>3. DOMAIN v = RouterFields /\ v.c = 0 /\ v.sticky = router[r].sticky /\ v.lender = router[r].lender /\ v.st = router[r].st
    BY <1>3 DEF RouterFields
  <2> HIDE DEF v
  <2> QED
    BY <1>2, <2>2, <2>3, DropKeeps, RoutersSame
<1> HIDE DEF r, q
<1> QED
  BY <1>1, <1>2, <1>4, <1>5, <1>6, <1>7, PlainStep

LEMMA GoHomeKeeps ==
    ASSUME AbortInv, NEW t \in Threads, GoHome(t)
    PROVE  AbortInv'
<1> DEFINE r == th[t].r
           q == router[r]
<1>1. th[t].pc = "gohome" /\ th[t].pc \notin Dialling /\ lock' = lock /\ borrowed' = borrowed
  BY DEF GoHome, At, Dialling
<1>2. t \in DOMAIN th /\ DOMAIN th[t] = ThFields /\ th[t].lender = 0 /\ th[t].next \in Nexts /\ th[t].r \in Routers
  BY <1>1, PlainThread
<1>3. DOMAIN router = Routers /\ DOMAIN router[r] = RouterFields
  BY <1>2 DEF AbortInv, Shapes
<1>4. PICK w : /\ th' = [th EXCEPT ![t] = w]
               /\ \/ w = [th[t] EXCEPT !.pc = "attempt", !.target = 0]
                  \/ w = [th[t] EXCEPT !.pc = "attempt", !.moved = FALSE]
  <2>1. \/ th' = [th EXCEPT ![t].pc = "attempt", ![t].target = 0]
        \/ th' = [th EXCEPT ![t].pc = "attempt", ![t].moved = FALSE]
    BY DEF GoHome
  <2>2. \/ th' = [th EXCEPT ![t] = [th[t] EXCEPT !.pc = "attempt", !.target = 0]]
        \/ th' = [th EXCEPT ![t] = [th[t] EXCEPT !.pc = "attempt", !.moved = FALSE]]
    BY <1>2, <2>1
  <2> QED
    BY <2>2
<1>5. DOMAIN w = ThFields /\ w.pc = "attempt" /\ w.r = th[t].r /\ w.lender = 0 /\ w.next = th[t].next
  BY <1>2, <1>4 DEF ThFields
<1>6. w.pc \notin Dialling
  BY <1>5 DEF Dialling
<1>7. RoutersKept
  <2> DEFINE v == [q EXCEPT !.c = 0, !.loan = 0, !.url = th[t].home]
  <2>1. router' = router \/ router' = [router EXCEPT ![r].c = 0, ![r].loan = 0, ![r].url = th[t].home]
    BY DEF GoHome
  <2>2. router' = router \/ router' = [router EXCEPT ![r] = v]
    BY <1>2, <1>3, <2>1
  <2>3. DOMAIN v = RouterFields /\ v.c = 0 /\ v.sticky = router[r].sticky /\ v.lender = router[r].lender /\ v.st = router[r].st
    BY <1>3 DEF RouterFields
  <2> HIDE DEF v
  <2> QED
    BY <1>2, <2>2, <2>3, DropKeeps, RoutersSame
<1> HIDE DEF r, q
<1> QED
  BY <1>1, <1>2, <1>4, <1>5, <1>6, <1>7, PlainStep

\* A thread at rest begins a call.
LEMMA BeginKeeps ==
    ASSUME AbortInv, NEW t \in Threads, th[t].pc = "idle", NEW w, th' = [th EXCEPT ![t] = w], DOMAIN w = ThFields,
           w.pc \in {"attempt", "abort", "clear"}, w.lender = 0, w.next = "idle", w.r \in Routers \/ w.pc = "clear",
           lock' = lock, RoutersKept, borrowed' = borrowed
    PROVE  AbortInv'
<1>1. w.pc \notin Dialling /\ w.next \in Nexts
  BY DEF Dialling, Nexts
<1> QED
  BY <1>1, PlainStep

LEMMA ExecuteKeeps ==
    ASSUME AbortInv, NEW t \in Threads, Execute(t)
    PROVE  AbortInv'
<1>1. th[t].pc = "idle" /\ lock' = lock /\ borrowed' = borrowed /\ router' = router
  BY DEF Execute, MayCall, At
<1>2. PICK r \in Routers :
        th' = [th EXCEPT ![t] = [AtRest EXCEPT !.pc = "attempt", !.r = r, !.home = router[r].url]]
  BY DEF Execute
<1> DEFINE w == [AtRest EXCEPT !.pc = "attempt", !.r = r, !.home = router[r].url]
<1>3. DOMAIN w = ThFields /\ w.pc = "attempt" /\ w.lender = 0 /\ w.next = "idle" /\ w.r = r
  BY DEF AtRest, ThFields
<1>4. th' = [th EXCEPT ![t] = w]
  BY <1>2
<1> HIDE DEF w
<1> QED
  BY <1>1, <1>3, <1>4, RoutersSame, BeginKeeps

LEMMA AbortKeeps ==
    ASSUME AbortInv, NEW t \in Threads, Abort(t)
    PROVE  AbortInv'
<1>1. th[t].pc = "idle" /\ lock' = lock /\ borrowed' = borrowed /\ router' = router
  BY DEF Abort, MayCall, At
<1>2. PICK r \in Routers :
        th' = [th EXCEPT ![t] = [AtRest EXCEPT !.pc = "abort", !.r = r]]
  BY DEF Abort
<1> DEFINE w == [AtRest EXCEPT !.pc = "abort", !.r = r]
<1>3. DOMAIN w = ThFields /\ w.pc = "abort" /\ w.lender = 0 /\ w.next = "idle" /\ w.r = r
  BY DEF AtRest, ThFields
<1>4. th' = [th EXCEPT ![t] = w]
  BY <1>2
<1> HIDE DEF w
<1> QED
  BY <1>1, <1>3, <1>4, RoutersSame, BeginKeeps

LEMMA ClearKeeps ==
    ASSUME AbortInv, NEW t \in Threads, Clear(t)
    PROVE  AbortInv'
<1>1. th[t].pc = "idle" /\ lock' = lock /\ borrowed' = borrowed /\ router' = router
  BY DEF Clear, MayCall, At
<1> DEFINE w == [AtRest EXCEPT !.pc = "clear"]
<1>3. DOMAIN w = ThFields /\ w.pc = "clear" /\ w.lender = 0 /\ w.next = "idle"
  BY DEF AtRest, ThFields
<1>4. th' = [th EXCEPT ![t] = w]
  BY DEF Clear
<1> HIDE DEF w
<1> QED
  BY <1>1, <1>3, <1>4, RoutersSame, BeginKeeps

LEMMA ClearNowKeeps ==
    ASSUME AbortInv, NEW t \in Threads, ClearNow(t)
    PROVE  AbortInv'
<1>1. th[t].pc = "clear" /\ lock' = lock /\ router' = router /\ borrowed' = borrowed /\ th' = [th EXCEPT ![t] = AtRest]
  BY DEF ClearNow, At
<1>2. DOMAIN AtRest = ThFields /\ AtRest.pc = "idle" /\ AtRest.pc \notin Dialling /\ AtRest.lender = 0 /\ AtRest.next \in Nexts
  BY DEF AtRest, ThFields, Dialling, Nexts
<1> QED
  BY <1>1, <1>2, RoutersSame, PlainStep

\* What an abort makes of its thread, and what cutting a link does.
Aborter(t, w) == w = AtRest \/ \E s : w = [th[t] EXCEPT !.pc = "cut", !.links = s]
Cutter(t, w)  == w = AtRest \/ \E s : w = [th[t] EXCEPT !.links = s]

LEMMA AbortNowIs ==
    ASSUME NEW t \in Threads, AbortNow(t)
    PROVE  \E w : th' = [th EXCEPT ![t] = w] /\ Aborter(t, w)
<1> DEFINE links == borrowed[th[t].r] \cup ({router[th[t].r].c} \ {0})
           w == IF links = {} THEN AtRest ELSE [th[t] EXCEPT !.pc = "cut", !.links = links]
<1>1. th' = [th EXCEPT ![t] = w]
  BY DEF AbortNow
<1>2. Aborter(t, w)
  BY DEF Aborter
<1> QED
  BY <1>1, <1>2

LEMMA CutLinkIs ==
    ASSUME NEW t \in Threads, CutLink(t)
    PROVE  \E w : th' = [th EXCEPT ![t] = w] /\ Cutter(t, w)
<1>1. PICK c \in th[t].links :
          /\ conn' = [conn EXCEPT ![c] = Closed]
          /\ th' = [th EXCEPT ![t] = IF th[t].links = {c} THEN AtRest ELSE [th[t] EXCEPT !.links = @ \ {c}]]
  BY Zenon DEF CutLink
<1> DEFINE w == IF th[t].links = {c} THEN AtRest ELSE [th[t] EXCEPT !.links = @ \ {c}]
<1>2. Cutter(t, w)
  BY DEF Cutter
<1>3. th' = [th EXCEPT ![t] = w]
  BY <1>1
<1> HIDE DEF w
<1> QED
  BY <1>2, <1>3

LEMMA AborterIs ==
    ASSUME NEW t, NEW w, Aborter(t, w), DOMAIN th[t] = ThFields, th[t].lender = 0, th[t].next \in Nexts
    PROVE  /\ DOMAIN w = ThFields /\ w.lender = 0 /\ w.next \in Nexts
           /\ (w = AtRest /\ w.pc = "idle") \/ (w.pc = "cut" /\ w.r = th[t].r /\ w.home = th[t].home)
<1>1. CASE w = AtRest
  BY <1>1 DEF AtRest, ThFields, Nexts
<1>2. ASSUME NEW s, w = [th[t] EXCEPT !.pc = "cut", !.links = s]
      PROVE  /\ DOMAIN w = ThFields /\ w.lender = 0 /\ w.next \in Nexts
             /\ w.pc = "cut" /\ w.r = th[t].r /\ w.home = th[t].home
  BY <1>2 DEF ThFields
<1> QED
  BY <1>1, <1>2 DEF Aborter, AtRest

LEMMA CutterIs ==
    ASSUME NEW t, NEW w, Cutter(t, w), th[t].pc = "cut", DOMAIN th[t] = ThFields, th[t].lender = 0, th[t].next \in Nexts
    PROVE  /\ DOMAIN w = ThFields /\ w.lender = 0 /\ w.next \in Nexts
           /\ (w = AtRest /\ w.pc = "idle") \/ (w.pc = "cut" /\ w.r = th[t].r /\ w.home = th[t].home)
BY DEF Cutter, ThFields, AtRest, Nexts

LEMMA AbortNowKeeps ==
    ASSUME AbortInv, NEW t \in Threads, AbortNow(t)
    PROVE  AbortInv'
<1> DEFINE r == th[t].r
           v == [router[r] EXCEPT !.aborted = TRUE, !.reconnect = FALSE, !.c = 0, !.loan = 0]
<1>1. th[t].pc = "abort" /\ th[t].pc \notin Dialling /\ lock' = lock /\ borrowed' = borrowed
  BY DEF AbortNow, At, Dialling
<1>2. PICK w : th' = [th EXCEPT ![t] = w] /\ Aborter(t, w)
  BY AbortNowIs
<1>21. /\ DOMAIN w = ThFields /\ w.pc \in {"idle", "cut"} /\ w.lender = 0 /\ w.next \in Nexts
       /\ w.r \in Routers \/ w.pc = "idle"
  BY <1>1, <1>2, PlainThread, AborterIs
<1>22. w.pc \notin Dialling
  BY <1>21 DEF Dialling
<1>3. r \in Routers /\ DOMAIN router = Routers /\ DOMAIN router[r] = RouterFields
  BY <1>1, PlainThread DEF AbortInv, Shapes
<1>4. router' = [router EXCEPT ![r] = v]
  BY <1>3 DEF AbortNow
<1>5. DOMAIN v = RouterFields /\ v.c = 0 /\ v.sticky = router[r].sticky /\ v.lender = router[r].lender /\ v.st = router[r].st
  BY <1>3 DEF RouterFields
<1> HIDE DEF v, r
<1>6. RoutersKept
  BY <1>3, <1>4, <1>5, DropKeeps
<1> QED
  BY <1>1, <1>2, <1>21, <1>22, <1>6, PlainStep

LEMMA CutLinkKeeps ==
    ASSUME AbortInv, NEW t \in Threads, CutLink(t)
    PROVE  AbortInv'
<1>1. th[t].pc = "cut" /\ lock' = lock /\ borrowed' = borrowed /\ router' = router /\ th[t].pc \notin Dialling
  BY DEF CutLink, Dialling
<1>2. PICK w : th' = [th EXCEPT ![t] = w] /\ Cutter(t, w)
  BY CutLinkIs
<1>3. /\ DOMAIN w = ThFields /\ w.pc \in {"idle", "cut"} /\ w.lender = 0 /\ w.next \in Nexts
      /\ w.r \in Routers \/ w.pc = "idle"
  BY <1>1, <1>2, PlainThread, CutterIs
<1>4. w.pc \notin Dialling
  BY <1>3 DEF Dialling
<1> QED
  BY <1>1, <1>2, <1>3, <1>4, RoutersSame, PlainStep

LEMMA GiveUpKeeps ==
    ASSUME AbortInv, NEW t, NEW bad, GiveUp(t, bad), UNCHANGED <<th, lock, borrowed>>
    PROVE  AbortInv'
<1>1. PICK r \in Routers : router' = [router EXCEPT ![r].c = 0, ![r].loan = 0]
  BY DEF GiveUp
<1> DEFINE v == [router[r] EXCEPT !.c = 0, !.loan = 0]
<1>2. DOMAIN router = Routers /\ DOMAIN router[r] = RouterFields
  BY DEF AbortInv, Shapes
<1>3. router' = [router EXCEPT ![r] = v]
  BY <1>1, <1>2
<1>4. DOMAIN v = RouterFields /\ v.c = 0 /\ v.sticky = router[r].sticky /\ v.lender = router[r].lender /\ v.st = router[r].st
  BY <1>2 DEF RouterFields
<1> HIDE DEF v
<1> QED
  BY <1>3, <1>4, DropKeeps, RouterStep

LEMMA CollectKeeps ==
    ASSUME AbortInv, NEW r \in Routers, Collect(r)
    PROVE  AbortInv'
<1> DEFINE v == [router[r] EXCEPT !.st = "gone", !.c = 0, !.loan = 0]
<1>1. router' = [router EXCEPT ![r].st = "gone", ![r].c = 0, ![r].loan = 0] /\ UNCHANGED <<th, lock, borrowed>>
  BY DEF Collect
<1>2. DOMAIN router = Routers /\ DOMAIN router[r] = RouterFields
  BY DEF AbortInv, Shapes
<1>3. router' = [router EXCEPT ![r] = v]
  BY <1>1, <1>2
<1>4. DOMAIN v = RouterFields /\ v.c = 0 /\ v.sticky = router[r].sticky /\ v.lender = router[r].lender /\ v.st = "gone"
  BY <1>2 DEF RouterFields
<1> HIDE DEF v
<1> QED
  BY <1>1, <1>3, <1>4, DropKeeps, RouterStep

LEMMA LendKeeps ==
    ASSUME AbortInv, NEW t \in Threads, Lend(t)
    PROVE  AbortInv'
<1>1. th[t].pc = "idle" /\ lock' = lock /\ borrowed' = borrowed
  BY DEF Lend, MayCall, At
<1>2. PICK r, n \in Routers :
        /\ Live(r) /\ ~router[r].sticky /\ Fresh(n)
        /\ router' = [router EXCEPT ![n] = [NoRouter EXCEPT !.st = "live", !.lender = r,
                        !.lent = TRUE, !.sticky = TRUE, !.url = router[r].url]]
        /\ th' = [th EXCEPT ![t] = [AtRest EXCEPT !.pc = "attempt", !.r = n, !.home = router[r].url]]
  BY Zenon DEF Lend
<1> DEFINE w == [AtRest EXCEPT !.pc = "attempt", !.r = n, !.home = router[r].url]
           v == [NoRouter EXCEPT !.st = "live", !.lender = r, !.lent = TRUE, !.sticky = TRUE, !.url = router[r].url]
<1>3. DOMAIN w = ThFields /\ w.pc = "attempt" /\ w.lender = 0 /\ w.next = "idle" /\ w.r = n
  BY DEF AtRest, ThFields
<1>4. DOMAIN v = RouterFields /\ v.st = "live" /\ v.lender = r /\ v.sticky /\ v.c = 0
  BY DEF NoRouter, RouterFields
<1>5. th' = [th EXCEPT ![t] = w] /\ router' = [router EXCEPT ![n] = v]
  BY <1>2
<1> HIDE DEF w, v
<1>6. n # r /\ router[n].st = "none" /\ router[r].st # "none"
  BY <1>2 DEF Live, Fresh
<1>7. DOMAIN router' = Routers /\ router'[n] = v /\ \A m \in Routers : m # n => router'[m] = router[m]
  BY <1>5 DEF AbortInv, Shapes
<1>8. Lenders'
  <2> SUFFICES ASSUME NEW m \in Routers, router'[m].lender # 0
               PROVE  LET k == router'[m].lender IN k \in Routers /\ router'[m].sticky /\ ~router'[k].sticky /\ router'[k].st # "none"
    BY DEF Lenders
  <2>1. CASE m = n
    BY <1>2, <1>4, <1>6, <1>7, <2>1
  <2>2. CASE m # n
    <3>1. LET k == router[m].lender IN k \in Routers /\ router[m].sticky /\ ~router[k].sticky /\ router[k].st # "none"
      BY <1>7, <2>2 DEF AbortInv, Lenders
    <3>2. router[m].lender # n
      BY <1>6, <3>1
    <3> QED
      BY <1>7, <2>2, <3>1, <3>2
  <2> QED
    BY <2>1, <2>2
<1>9. RoutersKept
  BY <1>4, <1>6, <1>7, <1>8 DEF RoutersKept, AbortInv, Shapes
<1> QED
  BY <1>1, <1>3, <1>5, <1>9, BeginKeeps

LEMMA PinKeeps ==
    ASSUME AbortInv, NEW t \in Threads, Pin(t)
    PROVE  AbortInv'
<1>1. UNCHANGED <<th, lock, borrowed>>
  BY DEF Pin
<1>2. PICK r \in Routers, n \in Routers, transfer \in BOOLEAN :
       LET q == router[r]
           over == transfer \/ q.lent
           made == [NoRouter EXCEPT !.st = "live", !.sticky = TRUE, !.reconnect = FALSE,
                                    !.url = q.url, !.c = q.c,
                                    !.loan = IF over THEN q.loan ELSE LoanOf(r)]
       IN /\ Live(r) /\ lock[r] = Nobody /\ q.c # 0 /\ Fresh(n)
          /\ router' = [router EXCEPT ![n] = made,
                                      ![r].c = IF over THEN 0 ELSE @,
                                      ![r].loan = IF over THEN 0 ELSE LoanOf(r)]
          /\ loans' = IF over THEN loans ELSE Shared(r)
  BY Zenon DEF Pin
<1> DEFINE q == router[r]
           over == transfer \/ q.lent
           v == [NoRouter EXCEPT !.st = "live", !.sticky = TRUE, !.reconnect = FALSE, !.url = q.url, !.c = q.c,
                                 !.loan = IF over THEN q.loan ELSE LoanOf(r)]
           x == [q EXCEPT !.c = IF over THEN 0 ELSE q.c, !.loan = IF over THEN 0 ELSE LoanOf(r)]
<1>3. DOMAIN v = RouterFields /\ v.st = "live" /\ v.lender = 0 /\ v.sticky /\ v.aborted = FALSE
  BY DEF NoRouter, RouterFields
<1>4. DOMAIN router = Routers /\ DOMAIN router[r] = RouterFields
  BY DEF AbortInv, Shapes
<1>5. n # r /\ router[n].st = "none" /\ router[r].st # "none"
  BY <1>2 DEF Live, Fresh
<1>6. /\ DOMAIN x = RouterFields /\ x.st = q.st /\ x.lender = q.lender /\ x.sticky = q.sticky /\ x.aborted = q.aborted
      /\ x.c \in {0, q.c}
  BY <1>4 DEF RouterFields
<1>7. router' = [router EXCEPT ![n] = v, ![r].c = IF over THEN 0 ELSE @, ![r].loan = IF over THEN 0 ELSE LoanOf(r)]
  BY <1>2
<1>8. DOMAIN router' = Routers /\ router'[n] = v /\ router'[r] = x /\ \A m \in Routers : m # n /\ m # r => router'[m] = router[m]
  <2> HIDE DEF v, over
  <2> QED
    BY <1>4, <1>5, <1>7
<1> HIDE DEF v, x, over
<1>9. \A m \in Routers : m # n => /\ router'[m].st = router[m].st /\ router'[m].lender = router[m].lender
                                  /\ router'[m].sticky = router[m].sticky /\ router'[m].aborted = router[m].aborted
                                  /\ router'[m].c \in {0, router[m].c} /\ DOMAIN router'[m] = RouterFields
  BY <1>6, <1>8 DEF AbortInv, Shapes
<1>10. Lenders'
  <2> SUFFICES ASSUME NEW m \in Routers, router'[m].lender # 0
               PROVE  LET k == router'[m].lender IN k \in Routers /\ router'[m].sticky /\ ~router'[k].sticky /\ router'[k].st # "none"
    BY DEF Lenders
  <2>1. m # n
    BY <1>3, <1>8
  <2>2. LET k == router[m].lender IN k \in Routers /\ router[m].sticky /\ ~router[k].sticky /\ router[k].st # "none"
    BY <1>9, <2>1 DEF AbortInv, Lenders
  <2>3. router[m].lender # n
    BY <1>5, <2>2
  <2> QED
    BY <1>9, <2>1, <2>2, <2>3
<1>11. RoutersKept
  <2> SUFFICES ASSUME NEW m \in Routers
               PROVE  /\ DOMAIN router'[m] = RouterFields
                      /\ router'[m].aborted /\ router'[m].c # 0 => router[m].aborted /\ router[m].c # 0
                      /\ router[m].st # "none" => router'[m].st # "none" /\ router'[m].sticky = router[m].sticky
    BY <1>8, <1>10 DEF RoutersKept
  <2>1. CASE m = n
    BY <1>3, <1>5, <1>8, <2>1
  <2>2. CASE m # n
    BY <1>9, <2>2
  <2> QED
    BY <2>1, <2>2
<1> QED
  BY <1>1, <1>11, RouterStep

LEMMA DialledKeeps ==
    ASSUME AbortInv, NEW t \in Threads, NEW c, th[t].pc \in {"acquire", "login"}, Dialled(t, c),
           lock' = lock, borrowed' = borrowed
    PROVE  AbortInv'
<1> DEFINE n == Top(t)
           w == [th[t] EXCEPT !.new = c, !.id = 0, !.raced = FALSE, !.pc = IF th[t].target # 0 THEN "borrow" ELSE "installed"]
<1>1. t \in DOMAIN th /\ DOMAIN th[t] = ThFields /\ Connecting(t)
  BY DEF AbortInv, Shapes, Workers
<1>2. th' = [th EXCEPT ![t] = w]
  BY <1>1 DEF Dialled
<1>3. /\ DOMAIN w = ThFields /\ w.r = th[t].r /\ w.lender = th[t].lender /\ w.target = th[t].target /\ w.next = th[t].next
      /\ w.pc = IF th[t].target # 0 THEN "borrow" ELSE "installed"
  BY <1>1 DEF ThFields
<1> HIDE DEF w
<1>4. CASE th[t].target # 0
  <2>1. w.lender = 0 /\ w.r \in Routers /\ w.next \in Nexts /\ w.pc \notin Dialling
    BY <1>1, <1>3, <1>4 DEF Connecting, Nexts, Dialling
  <2>2. RoutersKept
    BY <1>4, RoutersSame DEF Dialled
  <2> QED
    BY <1>2, <1>3, <2>1, <2>2, PlainStep
<1>5. CASE th[t].target = 0
  <2>1. n \in Routers /\ lock[n] = t /\ router' = [router EXCEPT ![n].c = c] /\ w.pc = "installed"
    BY <1>1, <1>3, <1>5 DEF Connecting, Top, Dialled
  <2>2. /\ DOMAIN router' = Routers /\ DOMAIN router'[n] = RouterFields /\ \A m \in Routers : m # n => router'[m] = router[m]
        /\ router'[n].sticky = router[n].sticky /\ router'[n].lender = router[n].lender /\ router'[n].st = router[n].st
    BY <2>1 DEF AbortInv, Shapes, RouterFields
  <2>3. OnlyMine(t) /\ th'[t] = w
    BY <1>2, <1>3, MyStep
  <2>4. Top(t)' = n
    BY <1>3, <2>3 DEF Top
  <2>5. \A m \in Routers : router'[m].sticky = router[m].sticky /\ router'[m].st = router[m].st /\ router'[m].lender = router[m].lender
                           /\ DOMAIN router'[m] = RouterFields
    BY <2>2 DEF AbortInv, Shapes
  <2>6. Lenders'
    BY <2>5 DEF AbortInv, Lenders
  <2>7. BorrowedBy' /\ DOMAIN borrowed' = Routers
    <3> SUFFICES ASSUME NEW r \in Routers, NEW d \in borrowed[r]
                 PROVE  \E u \in Threads : th'[u].r = r /\ th'[u].pc \in {"away", "return"} /\ th'[u].c = d
      BY DEF BorrowedBy, AbortInv, Shapes
    <3>1. PICK u \in Threads : th[u].r = r /\ th[u].pc \in {"away", "return"} /\ th[u].c = d
      BY DEF AbortInv, BorrowedBy
    <3> QED
      BY <2>3, <3>1 DEF OnlyMine
  <2>8. Connecting(t)'
    <3>1. /\ th'[t].r = th[t].r /\ th'[t].lender = th[t].lender /\ th'[t].target = 0 /\ th'[t].next = th[t].next
          /\ th'[t].pc = "installed" /\ lock'[n] = t
      BY <1>3, <1>5, <2>1, <2>3
    <3>2. th[t].r \in Routers
      BY <1>1 DEF Connecting
    <3> QED
      BY <1>1, <2>4, <2>5, <3>1, <3>2 DEF Connecting
  <2>9. \A m \in Routers : router'[m].aborted /\ router'[m].c # 0 =>
              \/ router[m].aborted /\ router[m].c # 0 /\ ~(th[t].pc = "installed" /\ Top(t) = m)
              \/ th'[t].pc = "installed" /\ Top(t)' = m
    BY <2>1, <2>2, <2>3, <2>4
  <2> QED
    BY <2>2, <2>3, <2>5, <2>6, <2>7, <2>8, <2>9, ThreadDials
<1> QED
  BY <1>4, <1>5

LEMMA AcquireKeeps ==
    ASSUME AbortInv, NEW t \in Threads, Acquire(t)
    PROVE  AbortInv'
<1>1. th[t].pc = "acquire" /\ lock' = lock /\ borrowed' = borrowed /\ t \in DOMAIN th /\ DOMAIN th[t] = ThFields
  BY DEF Acquire, At, AbortInv, Shapes, Workers
<1>2. ASSUME NEW c, Dialled(t, c) PROVE AbortInv'
  BY <1>1, <1>2, DialledKeeps
<1>3. ASSUME th' = [th EXCEPT ![t].pc = "identify"], router' = router PROVE AbortInv'
  <2> DEFINE w == [th[t] EXCEPT !.pc = "identify"]
  <2>1. th' = [th EXCEPT ![t] = w]
    BY <1>1, <1>3
  <2>2. /\ DOMAIN w = ThFields /\ w.pc = "identify" /\ w.r = th[t].r /\ w.lender = th[t].lender
        /\ w.target = th[t].target /\ w.next = th[t].next
    BY <1>1 DEF ThFields
  <2> HIDE DEF w
  <2> QED
    BY <1>1, <1>3, <2>1, <2>2, DialStep
<1>4. \/ \E c : Dialled(t, c)
      \/ th' = [th EXCEPT ![t].pc = "identify"] /\ router' = router
  BY Zenon DEF Acquire
<1> QED
  BY <1>2, <1>3, <1>4

LEMMA LoginKeeps ==
    ASSUME AbortInv, NEW t \in Threads, Login(t)
    PROVE  AbortInv'
<1>1. th[t].pc = "login" /\ lock' = lock /\ borrowed' = borrowed
  BY DEF Login, At
<1>2. PICK c \in Conns : Dialled(t, c)
  BY Zenon DEF Login
<1> QED
  BY <1>1, <1>2, DialledKeeps

LEMMA InstalledKeeps ==
    ASSUME AbortInv, NEW t \in Threads, Installed(t)
    PROVE  AbortInv'
<1> DEFINE n == Top(t)
           q == router[n]
           r == th[t].r
<1>1. th[t].pc = "installed" /\ borrowed' = borrowed /\ t \in DOMAIN th /\ DOMAIN th[t] = ThFields /\ Connecting(t)
  BY DEF Installed, At, AbortInv, Shapes, Workers
<1>2. r \in Routers /\ n \in Routers /\ lock[n] = t /\ th[t].target = 0 /\ th[t].next \in Nexts /\ t # Nobody
  BY <1>1, ConnectionsAssumption DEF Connecting, Top, Nexts
<1>3. DOMAIN router = Routers /\ DOMAIN router[n] = RouterFields /\ DOMAIN router[r] = RouterFields
      /\ lock \in [Routers -> Threads \cup {Nobody}]
  BY <1>2 DEF AbortInv, Shapes
<1>4. ASSUME OnlyMine(t) PROVE BorrowedBy' /\ DOMAIN borrowed' = Routers
  <2> SUFFICES ASSUME NEW m \in Routers, NEW d \in borrowed[m]
               PROVE  \E u \in Threads : th'[u].r = m /\ th'[u].pc \in {"away", "return"} /\ th'[u].c = d
    BY <1>1 DEF BorrowedBy, AbortInv, Shapes
  <2>1. PICK u \in Threads : th[u].r = m /\ th[u].pc \in {"away", "return"} /\ th[u].c = d
    BY DEF AbortInv, BorrowedBy
  <2> QED
    BY <1>1, <1>4, <2>1 DEF OnlyMine
<1>5. ASSUME q.aborted, router' = [router EXCEPT ![n].c = 0, ![n].loan = 0], lock' = Unlocked(t), th' = [th EXCEPT ![t] = AtRest]
      PROVE  AbortInv'
  <2> DEFINE v == [router[n] EXCEPT !.c = 0, !.loan = 0]
  <2>1. DOMAIN AtRest = ThFields
    BY DEF AtRest, ThFields
  <2>2. OnlyMine(t) /\ th'[t] = AtRest
    BY <1>5, <2>1, UnlockedMine
  <2>3. Connecting(t)'
    BY <2>2, RestConnects DEF AtRest
  <2>4. router' = [router EXCEPT ![n] = v]
    BY <1>2, <1>3, <1>5
  <2>5. DOMAIN v = RouterFields /\ v.c = 0 /\ v.sticky = router[n].sticky /\ v.lender = router[n].lender /\ v.st = router[n].st
    BY <1>3 DEF RouterFields
  <2> HIDE DEF v
  <2>6. RoutersKept /\ router'[n] = v
    BY <1>2, <1>3, <2>4, <2>5, DropKeeps
  <2>7. \A m \in Routers : router'[m].aborted /\ router'[m].c # 0 =>
              router[m].aborted /\ router[m].c # 0 /\ ~(th[t].pc = "installed" /\ Top(t) = m)
    BY <2>5, <2>6 DEF RoutersKept
  <2> QED
    BY <1>4, <2>2, <2>3, <2>6, <2>7, ThreadDials DEF RoutersKept
<1>6. lock' = [lock EXCEPT ![n] = Nobody] =>
        lock' \in [Routers -> Threads \cup {Nobody}] /\ \A m \in Routers : m # n => lock'[m] = lock[m]
  BY <1>2, <1>3
<1>7. ASSUME ~q.aborted, n = th[t].r, lock' = [lock EXCEPT ![n] = Nobody],
             th' = [th EXCEPT ![t].pc = "using", ![t].c = th[t].new, ![t].new = 0], router' = router
      PROVE  AbortInv'
  <2> DEFINE w == [th[t] EXCEPT !.pc = "using", !.c = th[t].new, !.new = 0]
  <2>1. th' = [th EXCEPT ![t] = w]
    BY <1>1, <1>7
  <2>2. DOMAIN w = ThFields /\ w.pc = "using" /\ w.r = th[t].r /\ w.lender = th[t].lender /\ w.next = th[t].next
    BY <1>1 DEF ThFields
  <2> HIDE DEF w
  <2>3. th[t].lender = 0
    BY <1>1, <1>7 DEF Top, Connecting
  <2>4. OnlyMine(t) /\ th'[t] = w
    <3>1. DOMAIN th = Workers
      BY DEF AbortInv, Shapes
    <3>2. DOMAIN th' = Workers /\ th'[t] = w /\ \A u \in Threads : u # t => th'[u] = th[u]
      BY <1>1, <2>1, <3>1
    <3>3. lock' \in [Routers -> Threads \cup {Nobody}] /\ \A m \in Routers : lock'[m] # lock[m] => m = n
      BY <1>6, <1>7
    <3> QED
      BY <1>2, <2>2, <3>2, <3>3 DEF OnlyMine
  <2>5. Connecting(t)'
    BY <1>2, <2>2, <2>3, <2>4, PlainConnects DEF Nexts
  <2>6. RoutersKept
    BY <1>7, RoutersSame
  <2>7. \A m \in Routers : router'[m].aborted /\ router'[m].c # 0 =>
              router[m].aborted /\ router[m].c # 0 /\ ~(th[t].pc = "installed" /\ Top(t) = m)
    BY <1>7
  <2> QED
    BY <1>4, <2>4, <2>5, <2>6, <2>7, ThreadDials DEF RoutersKept
<1>8. ASSUME ~q.aborted, n # th[t].r,
             router' = [router EXCEPT ![n].loan = LoanOf(n), ![th[t].r].loan = LoanOf(n), ![th[t].r].c = th[t].new],
             lock' = [lock EXCEPT ![n] = Nobody], th' = [th EXCEPT ![t].lender = 0]
      PROVE  AbortInv'
  <2> DEFINE w == [th[t] EXCEPT !.lender = 0]
  <2>1. th' = [th EXCEPT ![t] = w]
    BY <1>1, <1>8
  <2>2. DOMAIN w = ThFields /\ w.pc = "installed" /\ w.r = th[t].r /\ w.lender = 0 /\ w.next = th[t].next /\ w.target = 0
    BY <1>1, <1>2 DEF ThFields
  <2> HIDE DEF w
  <2>3. lock[r] = t
    BY <1>1, <1>8 DEF Top, Connecting
  <2>4. OnlyMine(t) /\ th'[t] = w
    <3>1. DOMAIN th = Workers
      BY DEF AbortInv, Shapes
    <3> QED
      BY <1>1, <1>2, <1>6, <1>8, <2>1, <2>2, <3>1 DEF OnlyMine
  <2>5. Top(t)' = r
    BY <2>2, <2>4 DEF Top
  <2>6. lock'[r] = t
    BY <1>2, <1>6, <1>8, <2>3
  <2>7. Connecting(t)'
    BY <1>2, <2>2, <2>4, <2>5, <2>6 DEF Connecting, Nexts
  <2>8. /\ DOMAIN router' = Routers /\ \A m \in Routers : m # n /\ m # r => router'[m] = router[m]
        /\ router'[n] = [router[n] EXCEPT !.loan = LoanOf(n)]
        /\ router'[r] = [router[r] EXCEPT !.loan = LoanOf(n), !.c = th[t].new]
    <3> HIDE DEF n, q, r
    <3>1. n # r /\ router' = [router EXCEPT ![n].loan = LoanOf(n), ![r].loan = LoanOf(n), ![r].c = th[t].new]
      BY <1>8 DEF n, r
    <3> QED
      BY <1>2, <1>3, <3>1
  <2>9. /\ DOMAIN router'[n] = RouterFields /\ router'[n].sticky = router[n].sticky /\ router'[n].lender = router[n].lender
        /\ router'[n].st = router[n].st /\ router'[n].aborted = router[n].aborted
        /\ DOMAIN router'[r] = RouterFields /\ router'[r].sticky = router[r].sticky /\ router'[r].lender = router[r].lender
        /\ router'[r].st = router[r].st
    BY <1>3, <2>8 DEF RouterFields
  <2>10. \A m \in Routers : router'[m].sticky = router[m].sticky /\ router'[m].st = router[m].st /\ router'[m].lender = router[m].lender
                            /\ DOMAIN router'[m] = RouterFields
    BY <2>8, <2>9 DEF AbortInv, Shapes
  <2>11. Lenders'
    BY <2>10 DEF AbortInv, Lenders
  <2>12. \A m \in Routers : router'[m].aborted /\ router'[m].c # 0 =>
              \/ router[m].aborted /\ router[m].c # 0 /\ ~(th[t].pc = "installed" /\ Top(t) = m)
              \/ th'[t].pc = "installed" /\ Top(t)' = m
    BY <1>8, <2>2, <2>4, <2>5, <2>8, <2>9
  <2> QED
    BY <1>4, <2>4, <2>7, <2>8, <2>10, <2>11, <2>12, ThreadDials
<1>9. \/ /\ q.aborted /\ router' = [router EXCEPT ![n].c = 0, ![n].loan = 0]
         /\ lock' = Unlocked(t) /\ th' = [th EXCEPT ![t] = AtRest]
      \/ /\ ~q.aborted /\ n = th[t].r /\ lock' = [lock EXCEPT ![n] = Nobody]
         /\ th' = [th EXCEPT ![t].pc = "using", ![t].c = th[t].new, ![t].new = 0] /\ router' = router
      \/ /\ ~q.aborted /\ n # th[t].r
         /\ router' = [router EXCEPT ![n].loan = LoanOf(n), ![th[t].r].loan = LoanOf(n), ![th[t].r].c = th[t].new]
         /\ lock' = [lock EXCEPT ![n] = Nobody] /\ th' = [th EXCEPT ![t].lender = 0]
  BY DEF Installed
<1> QED
  BY <1>5, <1>7, <1>8, <1>9, Zenon

LEMMA ChoreKeeps ==
    ASSUME AbortInv, NEW u \in Workers, Chore(u)
    PROVE  AbortInv'
<1>1. UNCHANGED <<router, lock, borrowed, th>>
  BY DEF Chore, LeaveLoan, Reap, KeepIdle, CloseConn
<1> QED
  BY <1>1, AbortFrame

LEMMA StepKeeps ==
    ASSUME AbortInv, NEW t \in Threads, Step(t)
    PROVE  AbortInv'
<1>1. ASSUME NEW d \in Servers, Redirected(t, d) PROVE AbortInv'
  BY <1>1, RedirectedKeeps
<1> QED
  BY <1>1, AttemptKeeps, EnterKeeps, AcquireKeeps, IdentifyKeeps, LoginKeeps, LoginFailsKeeps, InstalledKeeps,
     BorrowKeeps, FinishKeeps, FailsKeeps, RefusedAwayKeeps, ReturnKeeps, PointKeeps, RecoverRaisesKeeps,
     RecoverKeeps, GoHomeKeeps, AbortNowKeeps, CutLinkKeeps, ClearNowKeeps, Zenon DEF Step

LEMMA CallKeeps ==
    ASSUME AbortInv, NEW t \in Threads, Call(t)
    PROVE  AbortInv'
<1>1. ASSUME Close(t) PROVE AbortInv'
  BY <1>1, GiveUpKeeps DEF Close
<1>2. ASSUME Discard(t) PROVE AbortInv'
  BY <1>2, GiveUpKeeps DEF Discard
<1> QED
  BY <1>1, <1>2, ExecuteKeeps, AbortKeeps, LendKeeps, PinKeeps, ClearKeeps, Zenon DEF Call

\* New credentials are noted where a login is under way, and nothing else.
LEMMA CredMarks ==
    ASSUME AbortInv, CredChanges
    PROVE  /\ DOMAIN th' = Workers
           /\ \A t \in Threads :
                /\ DOMAIN th'[t] = ThFields
                /\ th'[t].raced = th[t].raced \/ th'[t].raced = TRUE
                /\ th[t].pc = "login" => th'[t].raced = TRUE
                /\ \A f \in ThFields : f # "raced" => th'[t][f] = th[t][f]
<1>1. th' = [u \in Workers |-> IF th[u].pc = "login" THEN [th[u] EXCEPT !.raced = TRUE] ELSE th[u]]
  BY DEF CredChanges
<1>2. \A t \in Threads : t \in Workers /\ DOMAIN th[t] = ThFields
  BY DEF AbortInv, Shapes, Workers
<1>3. ASSUME NEW t \in Threads
      PROVE  /\ DOMAIN th'[t] = ThFields
             /\ th'[t].raced = th[t].raced \/ th'[t].raced = TRUE
             /\ th[t].pc = "login" => th'[t].raced = TRUE
             /\ \A f \in ThFields : f # "raced" => th'[t][f] = th[t][f]
  <2>1. th'[t] = IF th[t].pc = "login" THEN [th[t] EXCEPT !.raced = TRUE] ELSE th[t]
    BY <1>1, <1>2
  <2>2. "raced" \in ThFields
    BY DEF ThFields
  <2> QED
    BY <1>2, <2>1, <2>2
<1> QED
  BY <1>1, <1>3

LEMMA CredSame ==
    ASSUME AbortInv, CredChanges
    PROVE  \A t \in Threads :
             /\ th'[t].pc = th[t].pc /\ th'[t].r = th[t].r /\ th'[t].lender = th[t].lender
             /\ th'[t].target = th[t].target /\ th'[t].dest = th[t].dest /\ th'[t].c = th[t].c
             /\ th'[t].new = th[t].new /\ th'[t].id = th[t].id /\ th'[t].home = th[t].home
             /\ th'[t].spoiled = th[t].spoiled /\ th'[t].next = th[t].next /\ Top(t)' = Top(t)
<1>1. \A f \in {"pc", "r", "lender", "target", "dest", "c", "new", "id", "home", "spoiled", "next"} :
        f \in ThFields /\ f # "raced"
  BY DEF ThFields
<1> QED
  BY <1>1, CredMarks DEF Top

LEMMA CredChangesKeeps ==
    ASSUME AbortInv, CredChanges
    PROVE  AbortInv'
<1>1. UNCHANGED <<router, lock, borrowed>>
  BY DEF CredChanges
<1>2. Shapes'
  BY <1>1, CredMarks DEF AbortInv, Shapes
<1>3. Lenders'
  BY <1>1 DEF AbortInv, Lenders
<1>4. ASSUME NEW t \in Threads PROVE Connecting(t)'
  <2>1. Connecting(t)
    BY DEF AbortInv
  <2> QED
    BY <1>1, <2>1, CredSame DEF Connecting
<1>5. DialledLate'
  BY <1>1, CredSame DEF AbortInv, DialledLate
<1>6. BorrowedBy'
  BY <1>1, CredSame DEF AbortInv, BorrowedBy
<1> QED
  BY <1>2, <1>3, <1>4, <1>5, <1>6 DEF AbortInv

LEMMA AbortStep ==
    ASSUME AbortInv, [Next]_vars
    PROVE  AbortInv'
<1>1. ASSUME UNCHANGED vars PROVE AbortInv'
  BY <1>1, AbortFrame DEF vars
<1>2. ASSUME TimePasses PROVE AbortInv'
  BY <1>2, AbortFrame DEF TimePasses
<1>3. ASSUME CredChanges PROVE AbortInv'
  BY <1>3, CredChangesKeeps
<1> QED
  BY <1>1, <1>2, <1>3, ChoreKeeps, StepKeeps, CallKeeps, CollectKeeps, Zenon DEF Next

LEMMA AbortFollows ==
    ASSUME AbortInv
    PROVE  AbortedHoldsNothing
<1> SUFFICES ASSUME NEW r \in Routers, router[r].aborted, Busy(r) = {}
             PROVE  router[r].c = 0 /\ borrowed[r] = {}
  BY DEF AbortedHoldsNothing
<1>1. ASSUME router[r].c # 0 PROVE FALSE
  <2>1. PICK t \in Threads : th[t].pc = "installed" /\ Top(t) = r
    BY <1>1 DEF AbortInv, DialledLate
  <2>2. t \in Busy(r)
    BY <2>1 DEF Busy, Top
  <2> QED
    BY <2>2
<1>2. ASSUME NEW c \in borrowed[r] PROVE FALSE
  <2>1. PICK t \in Threads : th[t].r = r /\ th[t].pc \in {"away", "return"} /\ th[t].c = c
    BY DEF AbortInv, BorrowedBy
  <2>2. t \in Busy(r)
    BY <2>1 DEF Busy
  <2> QED
    BY <2>2
<1> QED
  BY <1>1, <1>2

\* An aborted router whose requests have all ended holds no connection, for
\* any number of threads, routers and servers: whoever dialled while the abort
\* waited for the lock looks again before it lets the lock go (_live_session),
\* and what a request borrowed stays named until the request gives it back
\* (_attempt, abort).
THEOREM AbortedLetsGo == Spec => []AbortedHoldsNothing
BY AbortStarts, AbortStep, AbortFollows, PTL DEF Spec

-----------------------------------------------------------------------------
(* One owner for every connection.                                         *)

Entry  == [c : Conns, fresh : BOOLEAN]
Orphan == [c : Conns, loan : Nat, at : Servers]
Loan   == [c : 0 .. MaxConns, at : Servers \cup {0}, holders : Nat, spoiled : BOOLEAN]
Item   == [op : {"leave", "release", "keep", "close"}, loan : Nat, spoiled : BOOLEAN, c : 0 .. MaxConns,
           at : Servers \cup {0}]
Link   == [st : {"unborn", "open", "broken", "dead", "shut"}, at : Servers \cup {0}, who : Idents \cup {0},
           born : Idents \cup {0}, raced : BOOLEAN]

Distinct(s) == \A i, j \in DOMAIN s : s[i].c = s[j].c /\ s[i].c # 0 => i = j

\* A loan, of n, is left by the first thing on a list.
ItemOK(e, i, n) ==
    /\ e.op = "leave" => i = 1 /\ e.c = 0 /\ e.loan \in 1 .. n
    /\ e.op # "leave" => e.loan = 0 /\ e.c # 0
    /\ e.op \in {"release", "keep"} => e.at \in Servers
TodoOK(s, n) == s \in Seq(Item) /\ Distinct(s) /\ \A i \in DOMAIN s : ItemOK(s[i], i, n)

\* The connections, and where they are kept.
Store ==
    /\ conn \in [Conns -> Link]
    /\ idle \in [Keys -> Seq(Entry)] /\ \A k \in Keys : Distinct(idle[k]) /\ Len(idle[k]) <= PoolSize
    /\ DOMAIN todo = Workers /\ \A u \in Workers : TodoOK(todo[u], Len(loans))
    /\ loans \in Seq(Loan) /\ orphans \in Seq(Orphan) /\ cred \in Idents
    /\ \A i \in DOMAIN orphans : orphans[i].loan \in 0 .. Len(loans)
    /\ \A i, j \in DOMAIN orphans : orphans[i].c = orphans[j].c /\ orphans[i].loan = 0 /\ orphans[j].loan = 0 => i = j

RouterOK(r) ==
    /\ router[r].c \in 0 .. MaxConns /\ router[r].loan \in 0 .. Len(loans) /\ router[r].url \in Servers
    /\ router[r].loan # 0 => router[r].c # 0 /\ loans[router[r].loan].c = router[r].c
    /\ router[r].lender # 0 => router[r].c = 0
    /\ router[r].st = "none" => router[r].c = 0 /\ ~router[r].aborted

\* What a thread's record holds, and how it goes with the routers.
Fit(w) ==
    /\ w.c \in 0 .. MaxConns /\ w.new \in 0 .. MaxConns /\ w.target \in Servers \cup {0}
    /\ w.dest \in Servers \cup {0} /\ w.home \in Servers /\ w.id \in Idents \cup {0}
    /\ w.spoiled \in BOOLEAN /\ w.raced \in BOOLEAN
    /\ w.pc = "point" \/ w.next = "point" => w.dest # 0
    /\ w.pc = "borrow" => w.new # 0
    /\ w.pc \in {"away", "return"} => w.c # 0
    /\ w.pc \in {"borrow", "away", "return"} => w.target # 0

ThreadOK(t) ==
    /\ Fit(th[t])
    /\ th[t].pc \notin {"idle", "clear"} => router[th[t].r].st # "none"
    /\ th[t].lender # 0 => router[th[t].r].c = 0 /\ router[th[t].r].loan = 0 /\ router[th[t].r].lender = 0
    /\ th[t].pc \in {"acquire", "identify", "login"} /\ th[t].target = 0 =>
         router[Top(t)].c = 0 /\ router[Top(t)].loan = 0 /\ router[Top(t)].lender = 0
    /\ th[t].pc = "installed" => router[Top(t)].c = th[t].new /\ th[t].new # 0

\* A loan counts its holders.
Leaving(u)   == IF todo[u] = <<>> THEN 0 ELSE todo[u][1].loan
UsersOf(l)   == {r \in Routers : router[r].loan = l}
LostIn(s, l) == {i \in DOMAIN s : s[i].loan = l}
LostOf(l)    == LostIn(orphans, l)
LeaversOf(l) == {u \in Workers : Leaving(u) = l}

LoanOK(l) ==
    /\ loans[l].holders = Cardinality(UsersOf(l)) + Cardinality(LostOf(l)) + Cardinality(LeaversOf(l))
    /\ loans[l].holders > 0 => loans[l].c # 0 /\ loans[l].at \in Servers
    /\ loans[l].holders = 0 => loans[l].c = 0

\* Who can own a connection, and who does.
Slots ==
    ({"idle"} \X Keys) \cup ({"router"} \X Routers) \cup ({"loan"} \X Nat) \cup ({"orphans"} \X {0})
    \cup ({"borrow", "away"} \X Threads) \cup ({"todo"} \X Workers)

Holds(x, c) ==
    \/ x[1] = "idle" /\ c \in Members(idle[x[2]])
    \/ x[1] = "router" /\ router[x[2]].c = c /\ router[x[2]].loan = 0
    \/ x[1] = "loan" /\ x[2] \in DOMAIN loans /\ loans[x[2]].c = c
    \/ x[1] = "orphans" /\ \E i \in DOMAIN orphans : orphans[i].c = c /\ orphans[i].loan = 0
    \/ x[1] = "borrow" /\ th[x[2]].pc = "borrow" /\ th[x[2]].new = c
    \/ x[1] = "away" /\ th[x[2]].pc \in {"away", "return"} /\ th[x[2]].c = c
    \/ x[1] = "todo" /\ c \in Members(todo[x[2]])

Owned(c) ==
    /\ \A x, y \in Slots : Holds(x, c) /\ Holds(y, c) => x = y
    /\ conn[c].st = "open" => \E x \in Slots : Holds(x, c)
    /\ \A x \in Slots : Holds(x, c) => conn[c].st # "unborn"

OwnInv ==
    /\ Store /\ (\A r \in Routers : RouterOK(r)) /\ (\A t \in Threads : ThreadOK(t))
    /\ (\A l \in DOMAIN loans : LoanOK(l)) /\ (\A c \in Conns : Owned(c))
    /\ NeverClosedUnder

LEMMA OwnStarts ==
    ASSUME Init
    PROVE  OwnInv
<1>1. \A t \in Threads : th[t] = AtRest
  BY ConnectionsAssumption DEF Init, Workers
<1>2. /\ orphans = <<>> /\ loans = <<>> /\ cred = 1 /\ idle = [k \in Keys |-> <<>>] /\ todo = [u \in Workers |-> <<>>]
      /\ conn = [c \in Conns |-> Unborn]
  BY Zenon DEF Init
<1>3. \A r \in Routers : router[r].c = 0 /\ router[r].loan = 0 /\ router[r].url = 1 /\ router[r].lender = 0
  BY DEF Init, NoRouter
<1>4. Len(loans) = 0 /\ DOMAIN loans = {} /\ DOMAIN orphans = {} /\ loans \in Seq(Loan) /\ orphans \in Seq(Orphan)
  BY <1>2
<1>5. (\A k \in Keys : idle[k] = <<>>) /\ (\A u \in Workers : todo[u] = <<>>) /\ DOMAIN todo = Workers /\ DOMAIN idle = Keys
  BY <1>2
<1>6. Store
  <2>1. conn \in [Conns -> Link]
    BY <1>2 DEF Link, Unborn
  <2>2. \A s, n : s = <<>> => TodoOK(s, n)
    BY DEF TodoOK, Distinct
  <2>3. \A u \in Workers : TodoOK(todo[u], Len(loans))
    BY <1>5, <2>2
  <2>4. idle \in [Keys -> Seq(Entry)]
    <3>1. <<>> \in Seq(Entry)
      OBVIOUS
    <3> QED
      BY <1>2, <3>1, Zenon
  <2>5. \A k \in Keys : Distinct(idle[k]) /\ Len(idle[k]) <= PoolSize
    BY <1>5, ConnectionsAssumption DEF Distinct
  <2>6. cred \in Idents
    BY <1>2, ConnectionsAssumption
  <2> QED
    BY <1>4, <1>5, <2>1, <2>3, <2>4, <2>5, <2>6, Zenon DEF Store
<1>7. \A r \in Routers : RouterOK(r)
  <2>1. \A r \in Routers : ~router[r].aborted
    BY DEF Init, NoRouter
  <2> QED
    BY <1>3, <1>4, <2>1, ConnectionsAssumption DEF RouterOK
<1>8. \A t \in Threads : ThreadOK(t)
  <2>1. Fit(AtRest) /\ AtRest.pc = "idle" /\ AtRest.lender = 0
    BY ConnectionsAssumption DEF Fit, AtRest
  <2> QED
    BY <1>1, <2>1 DEF ThreadOK
<1>9. \A l \in DOMAIN loans : LoanOK(l)
  BY <1>4
<1>10. \A c \in Conns : Owned(c)
  <2>1. ASSUME NEW c \in Conns PROVE conn[c].st = "unborn"
    BY <1>2 DEF Unborn
  <2> SUFFICES ASSUME NEW c \in Conns, NEW x \in Slots, Holds(x, c)
               PROVE  FALSE
    BY <2>1 DEF Owned
  <2>2. c # 0
    BY ConnectionsAssumption DEF Conns
  <2>3. /\ x[1] = "idle" => x[2] \in Keys
        /\ x[1] = "router" => x[2] \in Routers
        /\ x[1] \in {"borrow", "away"} => x[2] \in Threads
        /\ x[1] = "todo" => x[2] \in Workers
    BY DEF Slots
  <2>4. \A t \in Threads : th[t].pc = "idle"
    BY <1>1 DEF AtRest
  <2>5. Members(<<>>) = {}
    BY DEF Members
  <2> QED
    BY <1>3, <1>4, <1>5, <2>2, <2>3, <2>4, <2>5 DEF Holds
<1>11. NeverClosedUnder
  BY <1>3 DEF NeverClosedUnder
<1> QED
  BY <1>6, <1>7, <1>8, <1>9, <1>10, <1>11 DEF OwnInv

LEMMA SlotKinds ==
    ASSUME NEW x \in Slots
    PROVE  /\ x = <<x[1], x[2]>>
           /\ x[1] \in {"idle", "router", "loan", "orphans", "borrow", "away", "todo"}
           /\ x[1] = "idle" => x[2] \in Keys
           /\ x[1] = "router" => x[2] \in Routers
           /\ x[1] = "loan" => x[2] \in Nat
           /\ x[1] = "orphans" => x[2] = 0
           /\ x[1] \in {"borrow", "away"} => x[2] \in Threads
           /\ x[1] = "todo" => x[2] \in Workers
BY DEF Slots

\* A step that moves connection c about among the slots of A.
LEMMA OwnMoves ==
    ASSUME NEW c \in Conns, Owned(c), NEW A \in SUBSET Slots,
           \A x \in Slots \ A : Holds(x, c)' <=> Holds(x, c),
           \A x \in A : Holds(x, c)' => \E y \in A : Holds(y, c),
           \A x, y \in A : Holds(x, c)' /\ Holds(y, c)' => x = y,
           \A x \in A : conn'[c].st = "open" /\ Holds(x, c) => \E y \in A : Holds(y, c)',
           conn'[c].st = "open" => conn[c].st = "open", conn[c].st # "unborn" => conn'[c].st # "unborn"
    PROVE  Owned(c)'
<1>1. ASSUME NEW x \in Slots, Holds(x, c)'
      PROVE  \E y \in Slots : Holds(y, c) /\ (x \in A => y \in A) /\ (x \notin A => y = x)
  BY <1>1
<1>2. ASSUME NEW x \in Slots, NEW y \in Slots, Holds(x, c)', Holds(y, c)'
      PROVE  x = y
  <2>1. PICK v \in Slots : Holds(v, c) /\ (x \in A => v \in A) /\ (x \notin A => v = x)
    BY <1>1, <1>2
  <2>2. PICK w \in Slots : Holds(w, c) /\ (y \in A => w \in A) /\ (y \notin A => w = y)
    BY <1>1, <1>2
  <2>3. v = w
    BY <2>1, <2>2 DEF Owned
  <2> QED
    BY <1>2, <2>1, <2>2, <2>3
<1>3. ASSUME conn'[c].st = "open" PROVE \E x \in Slots : Holds(x, c)'
  <2>1. PICK x \in Slots : Holds(x, c)
    BY <1>3 DEF Owned
  <2> QED
    BY <1>3, <2>1
<1>4. ASSUME NEW x \in Slots, Holds(x, c)' PROVE conn'[c].st # "unborn"
  BY <1>1, <1>4 DEF Owned
<1> QED
  BY <1>2, <1>3, <1>4 DEF Owned

\* Where the state of a slot does not change, it owns what it did.
LEMMA HoldsFrame ==
    ASSUME NEW c \in Conns, NEW A,
           \A k \in Keys : <<"idle", k>> \in A \/ (c \in Members(idle'[k]) <=> c \in Members(idle[k])),
           \A r \in Routers : <<"router", r>> \in A
              \/ (router'[r].c = c /\ router'[r].loan = 0 <=> router[r].c = c /\ router[r].loan = 0),
           \A l \in Nat : <<"loan", l>> \in A \/ (l \in DOMAIN loans' /\ loans'[l].c = c <=> l \in DOMAIN loans /\ loans[l].c = c),
           <<"orphans", 0>> \in A \/ orphans' = orphans,
           \A t \in Threads : <<"borrow", t>> \in A
              \/ (th'[t].pc = "borrow" /\ th'[t].new = c <=> th[t].pc = "borrow" /\ th[t].new = c),
           \A t \in Threads : <<"away", t>> \in A
              \/ (th'[t].pc \in {"away", "return"} /\ th'[t].c = c <=> th[t].pc \in {"away", "return"} /\ th[t].c = c),
           \A u \in Workers : <<"todo", u>> \in A \/ (c \in Members(todo'[u]) <=> c \in Members(todo[u]))
    PROVE  \A x \in Slots \ A : Holds(x, c)' <=> Holds(x, c)
<1> SUFFICES ASSUME NEW x \in Slots, x \notin A
             PROVE  Holds(x, c)' <=> Holds(x, c)
  OBVIOUS
<1> DEFINE k == x[1]
           v == x[2]
<1>1. x = <<k, v>> /\ k \in {"idle", "router", "loan", "orphans", "borrow", "away", "todo"}
  BY SlotKinds
<1>2. CASE k = "idle"
  <2>1. v \in Keys /\ <<"idle", v>> \notin A
    BY <1>1, <1>2, SlotKinds
  <2> QED
    BY <1>2, <2>1 DEF Holds
<1>3. CASE k = "router"
  <2>1. v \in Routers /\ <<"router", v>> \notin A
    BY <1>1, <1>3, SlotKinds
  <2> QED
    BY <1>3, <2>1 DEF Holds
<1>4. CASE k = "loan"
  <2>1. v \in Nat /\ <<"loan", v>> \notin A
    BY <1>1, <1>4, SlotKinds
  <2> QED
    BY <1>4, <2>1 DEF Holds
<1>5. CASE k = "orphans"
  <2>1. <<"orphans", 0>> \notin A
    BY <1>1, <1>5, SlotKinds
  <2> QED
    BY <1>5, <2>1 DEF Holds
<1>6. CASE k = "borrow"
  <2>1. v \in Threads /\ <<"borrow", v>> \notin A
    BY <1>1, <1>6, SlotKinds
  <2> QED
    BY <1>6, <2>1 DEF Holds
<1>7. CASE k = "away"
  <2>1. v \in Threads /\ <<"away", v>> \notin A
    BY <1>1, <1>7, SlotKinds
  <2> QED
    BY <1>7, <2>1 DEF Holds
<1>8. CASE k = "todo"
  <2>1. v \in Workers /\ <<"todo", v>> \notin A
    BY <1>1, <1>8, SlotKinds
  <2> QED
    BY <1>8, <2>1 DEF Holds
<1> QED
  BY <1>1, <1>2, <1>3, <1>4, <1>5, <1>6, <1>7, <1>8

LEMMA SlotIn ==
    /\ \A k \in Keys : <<"idle", k>> \in Slots
    /\ \A r \in Routers : <<"router", r>> \in Slots
    /\ \A l \in Nat : <<"loan", l>> \in Slots
    /\ <<"orphans", 0>> \in Slots
    /\ \A t \in Threads : <<"borrow", t>> \in Slots /\ <<"away", t>> \in Slots
    /\ \A u \in Workers : <<"todo", u>> \in Slots
BY DEF Slots

\* What each slot owns, before a step and after it.
LEMMA HoldsIs ==
    ASSUME NEW c
    PROVE  /\ \A k : Holds(<<"idle", k>>, c) <=> c \in Members(idle[k])
           /\ \A r : Holds(<<"router", r>>, c) <=> router[r].c = c /\ router[r].loan = 0
           /\ \A l : Holds(<<"loan", l>>, c) <=> l \in DOMAIN loans /\ loans[l].c = c
           /\ Holds(<<"orphans", 0>>, c) <=> \E i \in DOMAIN orphans : orphans[i].c = c /\ orphans[i].loan = 0
           /\ \A t : Holds(<<"borrow", t>>, c) <=> th[t].pc = "borrow" /\ th[t].new = c
           /\ \A t : Holds(<<"away", t>>, c) <=> th[t].pc \in {"away", "return"} /\ th[t].c = c
           /\ \A u : Holds(<<"todo", u>>, c) <=> c \in Members(todo[u])
BY DEF Holds

LEMMA HoldsThen ==
    ASSUME NEW c
    PROVE  /\ \A k : Holds(<<"idle", k>>, c)' <=> c \in Members(idle'[k])
           /\ \A r : Holds(<<"router", r>>, c)' <=> router'[r].c = c /\ router'[r].loan = 0
           /\ \A l : Holds(<<"loan", l>>, c)' <=> l \in DOMAIN loans' /\ loans'[l].c = c
           /\ Holds(<<"orphans", 0>>, c)' <=> \E i \in DOMAIN orphans' : orphans'[i].c = c /\ orphans'[i].loan = 0
           /\ \A t : Holds(<<"borrow", t>>, c)' <=> th'[t].pc = "borrow" /\ th'[t].new = c
           /\ \A t : Holds(<<"away", t>>, c)' <=> th'[t].pc \in {"away", "return"} /\ th'[t].c = c
           /\ \A u : Holds(<<"todo", u>>, c)' <=> c \in Members(todo'[u])
BY DEF Holds

LEMMA TodoHolds ==
    ASSUME NEW c, NEW u
    PROVE  /\ Holds(<<"todo", u>>, c) <=> c \in Members(todo[u])
           /\ Holds(<<"todo", u>>, c)' <=> c \in Members(todo'[u])
BY HoldsIs, HoldsThen

Adrift(s, c) == \E i \in DOMAIN s : s[i].c = c /\ s[i].loan = 0

LEMMA OrphansHold ==
    ASSUME NEW c
    PROVE  /\ Holds(<<"orphans", 0>>, c) <=> Adrift(orphans, c)
           /\ Holds(<<"orphans", 0>>, c)' <=> Adrift(orphans', c)
BY HoldsIs, HoldsThen DEF Adrift

-----------------------------------------------------------------------------
(* Lists of things to do.                                                  *)

Plain(e) == e.op # "leave" /\ e.loan = 0 /\ e.c # 0 /\ (e.op \in {"release", "keep"} => e.at \in Servers)
Rest(s)  == {s[j].c : j \in 2 .. Len(s)}

LEMMA TodoGrows ==
    ASSUME NEW s, NEW n \in Nat, NEW m \in Nat, n <= m, TodoOK(s, n)
    PROVE  TodoOK(s, m)
BY DEF TodoOK, ItemOK

LEMMA JoinAt ==
    ASSUME NEW S, NEW m \in Seq(S), NEW s \in Seq(S), s # <<>>, NEW w, w = m \o Tail(s)
    PROVE  /\ w \in Seq(S) /\ Len(w) = Len(m) + Len(s) - 1 /\ DOMAIN w = 1 .. Len(w)
           /\ \A i \in 1 .. Len(m) : i \in DOMAIN w /\ w[i] = m[i]
           /\ \A i \in 2 .. Len(s) : Len(m) + i - 1 \in DOMAIN w /\ w[Len(m) + i - 1] = s[i]
           /\ \A i \in DOMAIN w : i > Len(m) => i - Len(m) + 1 \in 2 .. Len(s) /\ w[i] = s[i - Len(m) + 1]
<1>1. Tail(s) \in Seq(S) /\ Len(Tail(s)) = Len(s) - 1 /\ \A i \in 1 .. Len(s) - 1 : Tail(s)[i] = s[i + 1]
  OBVIOUS
<1>2. PICK r \in Seq(S) : r = Tail(s)
  BY <1>1
<1>3. Len(r) = Len(s) - 1 /\ \A i \in 1 .. Len(s) - 1 : r[i] = s[i + 1]
  BY <1>1, <1>2
<1>4. /\ m \o r \in Seq(S) /\ Len(m \o r) = Len(m) + Len(r)
      /\ \A i \in 1 .. Len(m) + Len(r) : (m \o r)[i] = IF i <= Len(m) THEN m[i] ELSE r[i - Len(m)]
  OBVIOUS
<1>5. w \in Seq(S) /\ w = m \o r
  BY <1>2, <1>4
<1>6. Len(w) = Len(m) + Len(s) - 1 /\ DOMAIN w = 1 .. Len(w) /\ Len(s) >= 1 /\ Len(m) \in Nat /\ Len(s) \in Nat
  BY <1>3, <1>4, <1>5
<1>7. \A i \in 1 .. Len(m) + Len(s) - 1 : w[i] = IF i <= Len(m) THEN m[i] ELSE r[i - Len(m)]
  BY <1>3, <1>4, <1>5
<1>8. \A i \in 1 .. Len(m) : i \in DOMAIN w /\ w[i] = m[i]
  BY <1>6, <1>7
<1>9. ASSUME NEW i \in 2 .. Len(s) PROVE Len(m) + i - 1 \in DOMAIN w /\ w[Len(m) + i - 1] = s[i]
  <2>1. Len(m) + i - 1 \in 1 .. Len(m) + Len(s) - 1 /\ ~(Len(m) + i - 1 <= Len(m)) /\ (Len(m) + i - 1) - Len(m) = i - 1
    BY <1>6
  <2>2. w[Len(m) + i - 1] = r[i - 1]
    BY <1>7, <2>1
  <2>3. r[i - 1] = s[i]
    <3>1. i - 1 \in 1 .. Len(s) - 1 /\ (i - 1) + 1 = i
      BY <1>6
    <3> QED
      BY <1>3, <3>1
  <2> QED
    BY <1>6, <2>1, <2>2, <2>3
<1>10. ASSUME NEW i \in DOMAIN w, i > Len(m) PROVE i - Len(m) + 1 \in 2 .. Len(s) /\ w[i] = s[i - Len(m) + 1]
  <2>1. i \in 1 .. Len(m) + Len(s) - 1 /\ ~(i <= Len(m)) /\ i - Len(m) \in 1 .. Len(s) - 1
    BY <1>6, <1>10
  <2>2. w[i] = r[i - Len(m)]
    BY <1>7, <2>1
  <2>3. r[i - Len(m)] = s[i - Len(m) + 1]
    BY <1>3, <2>1
  <2> QED
    BY <2>1, <2>2, <2>3, <1>6
<1> QED
  BY <1>2, <1>5, <1>6, <1>8, <1>9, <1>10

\* What is left of a list when other things take the place of its first.
LEMMA JoinTodo ==
    ASSUME NEW n \in Nat, NEW s, TodoOK(s, n), s # <<>>, NEW m \in Seq(Item), Distinct(m),
           \A i \in DOMAIN m : Plain(m[i]), Members(m) \cap Rest(s) = {}
    PROVE  LET w == m \o Tail(s) IN
           /\ TodoOK(w, n) /\ Members(w) = Members(m) \cup Rest(s)
           /\ \A i \in DOMAIN w : Plain(w[i])
           /\ \A i \in DOMAIN w : (\E j \in DOMAIN m : w[i] = m[j]) \/ (\E j \in 2 .. Len(s) : w[i] = s[j])
<1> DEFINE w == m \o Tail(s)
<1>1. s \in Seq(Item) /\ Distinct(s) /\ \A i \in DOMAIN s : ItemOK(s[i], i, n)
  BY DEF TodoOK
<1>2. /\ w \in Seq(Item) /\ Len(w) = Len(m) + Len(s) - 1 /\ DOMAIN w = 1 .. Len(w)
      /\ \A i \in 1 .. Len(m) : i \in DOMAIN w /\ w[i] = m[i]
      /\ \A i \in 2 .. Len(s) : Len(m) + i - 1 \in DOMAIN w /\ w[Len(m) + i - 1] = s[i]
      /\ \A i \in DOMAIN w : i > Len(m) => i - Len(m) + 1 \in 2 .. Len(s) /\ w[i] = s[i - Len(m) + 1]
  BY <1>1, JoinAt
<1> HIDE DEF w
<1>3. DOMAIN m = 1 .. Len(m) /\ DOMAIN s = 1 .. Len(s) /\ Len(m) \in Nat /\ Len(s) \in Nat
  BY <1>1
<1>4. \A j \in 2 .. Len(s) : Plain(s[j]) /\ s[j].c \in Rest(s)
  BY <1>1, <1>3 DEF ItemOK, Plain, Rest
<1>5. \A i \in 1 .. Len(m) : Plain(m[i]) /\ m[i].c \in Members(m)
  BY <1>3 DEF Members
<1>6. \A i \in DOMAIN w : i \in 1 .. Len(m) \/ i > Len(m)
  BY <1>2, <1>3
<1>7. \A i \in DOMAIN w : Plain(w[i])
  BY <1>2, <1>4, <1>5, <1>6
<1>8. \A i \in DOMAIN w : (\E j \in DOMAIN m : w[i] = m[j]) \/ (\E j \in 2 .. Len(s) : w[i] = s[j])
  BY <1>2, <1>3, <1>6
<1>9. Members(w) = Members(m) \cup Rest(s)
  <2>1. ASSUME NEW c \in Members(w) PROVE c \in Members(m) \cup Rest(s)
    <3>1. PICK i \in DOMAIN w : c = w[i].c
      BY DEF Members
    <3> QED
      BY <1>3, <1>4, <1>5, <1>8, <3>1
  <2>2. ASSUME NEW c \in Members(m) PROVE c \in Members(w)
    <3>1. PICK i \in DOMAIN m : c = m[i].c
      BY DEF Members
    <3> QED
      BY <1>2, <1>3, <3>1 DEF Members
  <2>3. ASSUME NEW c \in Rest(s) PROVE c \in Members(w)
    <3>1. PICK i \in 2 .. Len(s) : c = s[i].c
      BY DEF Rest
    <3> QED
      BY <1>2, <3>1 DEF Members
  <2> QED
    BY <2>1, <2>2, <2>3
<1>10. Distinct(w)
  <2> SUFFICES ASSUME NEW i \in DOMAIN w, NEW j \in DOMAIN w, w[i].c = w[j].c, w[i].c # 0
               PROVE  i = j
    BY DEF Distinct
  <2>1. CASE i \in 1 .. Len(m) /\ j \in 1 .. Len(m)
    BY <1>2, <1>3, <2>1 DEF Distinct
  <2>2. CASE i > Len(m) /\ j > Len(m)
    <3>1. /\ i - Len(m) + 1 \in 2 .. Len(s) /\ w[i] = s[i - Len(m) + 1]
          /\ j - Len(m) + 1 \in 2 .. Len(s) /\ w[j] = s[j - Len(m) + 1]
      BY <1>2, <2>2
    <3>2. PICK a \in DOMAIN s : a = i - Len(m) + 1 /\ w[i] = s[a]
      BY <1>3, <3>1
    <3>3. PICK b \in DOMAIN s : b = j - Len(m) + 1 /\ w[j] = s[b]
      BY <1>3, <3>1
    <3>4. a = b
      BY <1>1, <3>2, <3>3 DEF Distinct
    <3> QED
      BY <1>2, <1>3, <3>2, <3>3, <3>4
  <2>3. CASE i \in 1 .. Len(m) /\ j > Len(m)
    <3>1. w[i].c \in Members(m) /\ w[j].c \in Rest(s)
      BY <1>2, <1>4, <1>5, <2>3
    <3> QED
      BY <3>1
  <2>4. CASE j \in 1 .. Len(m) /\ i > Len(m)
    <3>1. w[j].c \in Members(m) /\ w[i].c \in Rest(s)
      BY <1>2, <1>4, <1>5, <2>4
    <3> QED
      BY <3>1
  <2> QED
    BY <1>6, <2>1, <2>2, <2>3, <2>4
<1>11. TodoOK(w, n)
  BY <1>2, <1>7, <1>10 DEF TodoOK, ItemOK, Plain
<1> QED
  BY <1>7, <1>8, <1>9, <1>11 DEF w

\* One thing more, in front.
LEMMA PutFirst ==
    ASSUME NEW n \in Nat, NEW s, TodoOK(s, n), s = <<>> \/ s[1].op # "leave", NEW e \in Item, ItemOK(e, 1, n),
           e.c \notin Members(s)
    PROVE  LET w == <<e>> \o s IN
           /\ TodoOK(w, n) /\ Members(w) = Members(s) \cup {e.c} /\ w # <<>> /\ w[1] = e
           /\ \A i \in DOMAIN w : w[i] = e \/ (\E j \in DOMAIN s : w[i] = s[j])
<1> DEFINE w == <<e>> \o s
<1>1. s \in Seq(Item) /\ Distinct(s) /\ \A i \in DOMAIN s : ItemOK(s[i], i, n)
  BY DEF TodoOK
<1>2. /\ w \in Seq(Item) /\ Len(w) = Len(s) + 1 /\ w[1] = e
      /\ \A i \in 2 .. Len(s) + 1 : w[i] = s[i - 1]
  BY <1>1
<1> HIDE DEF w
<1>3. DOMAIN s = 1 .. Len(s) /\ DOMAIN w = 1 .. Len(s) + 1 /\ Len(s) \in Nat
  BY <1>1, <1>2
<1>4. \A i \in DOMAIN s : s[i].op # "leave"
  BY <1>1, <1>3 DEF ItemOK
<1>5. \A i \in 2 .. Len(s) + 1 : i - 1 \in DOMAIN s /\ w[i] = s[i - 1] /\ w[i].c \in Members(s)
  BY <1>2, <1>3 DEF Members
<1>6. \A i \in DOMAIN w : i = 1 \/ i \in 2 .. Len(s) + 1
  BY <1>3
<1>7. Distinct(w)
  <2> SUFFICES ASSUME NEW i \in DOMAIN w, NEW j \in DOMAIN w, w[i].c = w[j].c, w[i].c # 0
               PROVE  i = j
    BY DEF Distinct
  <2>1. CASE i \in 2 .. Len(s) + 1 /\ j \in 2 .. Len(s) + 1
    <3>1. i - 1 = j - 1
      BY <1>1, <1>5, <2>1 DEF Distinct
    <3> QED
      BY <1>3, <2>1, <3>1
  <2> QED
    BY <1>2, <1>5, <1>6, <2>1
<1>8. \A i \in DOMAIN w : ItemOK(w[i], i, n)
  <2>1. \A i \in 2 .. Len(s) + 1 : ItemOK(s[i - 1], i, n)
    BY <1>1, <1>4, <1>5 DEF ItemOK
  <2> QED
    BY <1>2, <1>5, <1>6, <2>1
<1>9. Members(w) = Members(s) \cup {e.c}
  <2>1. ASSUME NEW c \in Members(w) PROVE c \in Members(s) \cup {e.c}
    BY <1>2, <1>5, <1>6 DEF Members
  <2>2. e.c \in Members(w)
    BY <1>2, <1>3 DEF Members
  <2>3. ASSUME NEW c \in Members(s) PROVE c \in Members(w)
    <3>1. PICK i \in DOMAIN s : c = s[i].c
      BY DEF Members
    <3>2. i + 1 \in DOMAIN w /\ w[i + 1] = s[i]
      <4>1. i + 1 \in 2 .. Len(s) + 1 /\ (i + 1) - 1 = i
        BY <1>3
      <4> QED
        BY <1>2, <1>3, <4>1
    <3> QED
      BY <3>1, <3>2 DEF Members
  <2> QED
    BY <2>1, <2>2, <2>3
<1>10. \A i \in DOMAIN w : w[i] = e \/ (\E j \in DOMAIN s : w[i] = s[j])
  BY <1>2, <1>5, <1>6
<1>11. w # <<>>
  BY <1>2, <1>3
<1> QED
  BY <1>2, <1>7, <1>8, <1>9, <1>10, <1>11 DEF w, TodoOK

\* A list of one thing.
LEMMA OneThing ==
    ASSUME NEW n \in Nat, NEW e \in Item, ItemOK(e, 1, n)
    PROVE  /\ TodoOK(<<e>>, n) /\ Members(<<e>>) = {e.c} /\ <<e>> # <<>> /\ <<e>>[1] = e
           /\ \A i \in DOMAIN <<e>> : <<e>>[i] = e
<1>1. <<e>> \in Seq(Item) /\ Len(<<e>>) = 1 /\ DOMAIN <<e>> = {1} /\ <<e>>[1] = e
  OBVIOUS
<1>2. PICK w \in Seq(Item) : w = <<e>>
  BY <1>1
<1>3. DOMAIN w = {1} /\ w[1] = e
  BY <1>1, <1>2
<1>4. TodoOK(w, n)
  BY <1>3 DEF TodoOK, Distinct
<1>5. Members(w) = {e.c}
  BY <1>3 DEF Members
<1> QED
  BY <1>1, <1>2, <1>3, <1>4, <1>5

LEMMA NoThing ==
    ASSUME NEW n \in Nat
    PROVE  TodoOK(<<>>, n) /\ Members(<<>>) = {} /\ Distinct(<<>>)
BY DEF TodoOK, Distinct, Members

\* All of a set, to be closed.
LEMMA ClosesIs ==
    ASSUME NEW cs \in SUBSET Conns
    PROVE  /\ Closes(cs) \in Seq(Item) /\ Distinct(Closes(cs)) /\ Members(Closes(cs)) = cs
           /\ \A i \in DOMAIN Closes(cs) : Plain(Closes(cs)[i]) /\ Closes(cs)[i].op = "close"
<1> DEFINE S == {Shut(c) : c \in cs}
<1>1. \A c \in Conns : Shut(c) \in Item /\ Shut(c).c = c /\ Plain(Shut(c)) /\ Shut(c).op = "close"
  <2> SUFFICES ASSUME NEW c \in Conns
               PROVE  Shut(c) \in Item /\ Shut(c).c = c /\ Plain(Shut(c)) /\ Shut(c).op = "close"
    OBVIOUS
  <2>1. Shut(c) = [op |-> "close", loan |-> 0, spoiled |-> FALSE, c |-> c, at |-> 0]
    BY DEF Shut, Offer
  <2>2. c # 0 /\ c \in 0 .. MaxConns
    BY ConnectionsAssumption DEF Conns
  <2> HIDE DEF Shut
  <2> QED
    BY <2>1, <2>2 DEF Item, Plain
<1>2. IsFiniteSet(S)
  <2>1. IsFiniteSet(Conns)
    BY FS_Interval, ConnectionsAssumption DEF Conns
  <2>2. IsFiniteSet(cs)
    BY <2>1, FS_Subset
  <2> DEFINE g == [c \in cs |-> Shut(c)]
  <2>3. g \in Surjection(cs, S)
    BY DEF Surjection
  <2> QED
    BY <2>2, <2>3, FS_Surjection
<1> HIDE DEF S
<1>3. Cardinality(S) \in Nat /\ ExistsBijection(1 .. Cardinality(S), S)
  BY <1>2, FS_CardinalityType
<1>4. PICK g \in Bijection(1 .. Cardinality(S), S) : TRUE
  BY <1>3 DEF ExistsBijection
<1>5. g \in [1 .. Cardinality(S) -> S] /\ IsInjective(g)
  BY <1>4 DEF Bijection, Injection, IsInjective
<1>6. SetToSeq(S) \in [1 .. Cardinality(S) -> S] /\ IsInjective(SetToSeq(S))
  BY <1>5, Zenon DEF SetToSeq
<1>7. PICK w : w = SetToSeq(S)
  OBVIOUS
<1>8. w \in Injection(1 .. Cardinality(S), S)
  BY <1>6, <1>7 DEF Injection, IsInjective
<1>9. w \in Surjection(1 .. Cardinality(S), S)
  <2>1. IsFiniteSet(1 .. Cardinality(S)) /\ Cardinality(1 .. Cardinality(S)) = Cardinality(S)
    BY <1>3, FS_Interval
  <2> QED
    BY <1>2, <1>8, <2>1, FS_Injection
<1>10. w \in [1 .. Cardinality(S) -> S] /\ \A e \in S : \E i \in 1 .. Cardinality(S) : w[i] = e
  BY <1>8, <1>9 DEF Surjection, Injection
<1>11. \A i, j \in DOMAIN w : w[i] = w[j] => i = j
  BY <1>6, <1>7 DEF IsInjective
<1>12. \A e \in S : e \in Item /\ Plain(e) /\ e.op = "close" /\ e.c \in cs /\ e = Shut(e.c)
  BY <1>1 DEF S
<1>13. w \in Seq(Item) /\ DOMAIN w = 1 .. Cardinality(S)
  BY <1>3, <1>10, <1>12
<1>14. Distinct(w)
  <2> SUFFICES ASSUME NEW i \in DOMAIN w, NEW j \in DOMAIN w, w[i].c = w[j].c
               PROVE  i = j
    BY DEF Distinct
  <2>1. w[i] = Shut(w[i].c) /\ w[j] = Shut(w[j].c)
    BY <1>10, <1>12, <1>13
  <2> QED
    BY <1>11, <2>1
<1>15. Members(w) = cs
  <2>1. ASSUME NEW c \in cs PROVE c \in Members(w)
    <3>1. Shut(c) \in S /\ Shut(c).c = c
      BY <1>1 DEF S
    <3> QED
      BY <1>10, <1>13, <3>1 DEF Members
  <2>2. ASSUME NEW c \in Members(w) PROVE c \in cs
    BY <1>10, <1>12, <1>13 DEF Members
  <2> QED
    BY <2>1, <2>2
<1>16. \A i \in DOMAIN w : Plain(w[i]) /\ w[i].op = "close"
  BY <1>10, <1>12, <1>13
<1> QED
  BY <1>7, <1>13, <1>14, <1>15, <1>16 DEF Closes, S

-----------------------------------------------------------------------------
(* Counting the holders of a loan.                                         *)

LEMMA OneMore ==
    ASSUME NEW S, IsFiniteSet(S), NEW x, x \notin S, NEW T, T = S \cup {x}
    PROVE  IsFiniteSet(T) /\ Cardinality(T) = Cardinality(S) + 1
BY FS_AddElement

LEMMA OneFewer ==
    ASSUME NEW S, IsFiniteSet(S), NEW x \in S, NEW T, T = S \ {x}
    PROVE  IsFiniteSet(T) /\ Cardinality(T) = Cardinality(S) - 1 /\ Cardinality(S) >= 1
<1>1. Cardinality(T) \in Nat /\ Cardinality(T) = Cardinality(S) - 1 /\ Cardinality(S) \in Nat
  BY FS_RemoveElement, FS_CardinalityType
<1> QED
  BY <1>1, FS_RemoveElement

LEMMA LostFinite ==
    ASSUME NEW S, NEW s \in Seq(S), NEW l
    PROVE  IsFiniteSet(LostIn(s, l)) /\ Cardinality(LostIn(s, l)) \in Nat
<1>1. IsFiniteSet(DOMAIN s)
  <2>1. DOMAIN s = 1 .. Len(s) /\ Len(s) \in Nat
    OBVIOUS
  <2> QED
    BY <2>1, FS_Interval
<1>2. LostIn(s, l) \in SUBSET DOMAIN s
  BY DEF LostIn
<1> QED
  BY <1>1, <1>2, FS_Subset, FS_CardinalityType

LEMMA LostTail ==
    ASSUME NEW S, NEW s \in Seq(S), s # <<>>, NEW l
    PROVE  /\ s[1].loan = l => Cardinality(LostIn(Tail(s), l)) = Cardinality(LostIn(s, l)) - 1 /\ Cardinality(LostIn(s, l)) >= 1
           /\ s[1].loan # l => Cardinality(LostIn(Tail(s), l)) = Cardinality(LostIn(s, l))
<1>1. Len(s) \in Nat /\ DOMAIN s = 1 .. Len(s) /\ Len(s) >= 1
  OBVIOUS
<1>2. PICK w : w = Tail(s)
  OBVIOUS
<1>3. w \in Seq(S) /\ DOMAIN w = 1 .. Len(s) - 1 /\ \A i \in 1 .. Len(s) - 1 : w[i] = s[i + 1]
  BY <1>2
<1> DEFINE B == LostIn(s, l) \ {1}
           C == LostIn(w, l)
           g == [i \in B |-> i - 1]
<1>4. \A i \in B : i \in 2 .. Len(s) /\ s[i].loan = l
  BY <1>1 DEF LostIn
<1>5. \A i \in B : i - 1 \in C
  <2> SUFFICES ASSUME NEW i \in B PROVE i - 1 \in C
    OBVIOUS
  <2>1. i - 1 \in 1 .. Len(s) - 1 /\ (i - 1) + 1 = i
    BY <1>1, <1>4
  <2>2. w[i - 1] = s[i]
    BY <1>3, <2>1
  <2> QED
    BY <1>3, <1>4, <2>1, <2>2 DEF LostIn
<1>6. \A j \in C : j + 1 \in B /\ (j + 1) - 1 = j
  <2> SUFFICES ASSUME NEW j \in C PROVE j + 1 \in B /\ (j + 1) - 1 = j
    OBVIOUS
  <2>1. j \in 1 .. Len(s) - 1 /\ w[j].loan = l
    BY <1>3 DEF LostIn
  <2>2. j + 1 \in 1 .. Len(s) /\ j + 1 # 1 /\ w[j] = s[j + 1]
    BY <1>1, <1>3, <2>1
  <2> QED
    BY <1>1, <2>1, <2>2 DEF LostIn
<1>7. g \in Bijection(B, C)
  <2>1. g \in [B -> C]
    BY <1>5
  <2>2. \A a, b \in B : g[a] = g[b] => a = b
    BY <1>1, <1>4
  <2>3. \A j \in C : \E a \in B : g[a] = j
    <3> SUFFICES ASSUME NEW j \in C PROVE \E a \in B : g[a] = j
      OBVIOUS
    <3>1. j + 1 \in B /\ g[j + 1] = j
      BY <1>6
    <3> QED
      BY <3>1
  <2> HIDE DEF g
  <2> QED
    BY <2>1, <2>2, <2>3 DEF Bijection, Injection, Surjection, IsInjective
<1>8. IsFiniteSet(LostIn(s, l)) /\ Cardinality(LostIn(s, l)) \in Nat
  BY LostFinite
<1>9. IsFiniteSet(B)
  BY <1>8, FS_RemoveElement
<1>10. Cardinality(C) = Cardinality(B)
  BY <1>7, <1>9, FS_Bijection DEF ExistsBijection
<1>11. 1 \in LostIn(s, l) <=> s[1].loan = l
  BY <1>1 DEF LostIn
<1>12. ASSUME s[1].loan = l PROVE Cardinality(B) = Cardinality(LostIn(s, l)) - 1 /\ Cardinality(LostIn(s, l)) >= 1
  BY <1>8, <1>11, <1>12, OneFewer
<1>13. ASSUME s[1].loan # l PROVE B = LostIn(s, l)
  BY <1>11, <1>13
<1> QED
  BY <1>2, <1>10, <1>12, <1>13

LEMMA LostAppend ==
    ASSUME NEW S, NEW s \in Seq(S), NEW e \in S, NEW l
    PROVE  /\ e.loan = l => Cardinality(LostIn(Append(s, e), l)) = Cardinality(LostIn(s, l)) + 1
           /\ e.loan # l => Cardinality(LostIn(Append(s, e), l)) = Cardinality(LostIn(s, l))
<1>1. Len(s) \in Nat /\ DOMAIN s = 1 .. Len(s)
  OBVIOUS
<1>2. PICK w : w = Append(s, e)
  OBVIOUS
<1>3. DOMAIN w = 1 .. Len(s) + 1 /\ w[Len(s) + 1] = e /\ \A i \in 1 .. Len(s) : w[i] = s[i]
  BY <1>2
<1>4. IsFiniteSet(LostIn(s, l)) /\ Len(s) + 1 \notin LostIn(s, l)
  <2>1. IsFiniteSet(LostIn(s, l))
    BY LostFinite
  <2>2. Len(s) + 1 \notin LostIn(s, l)
    BY <1>1 DEF LostIn
  <2> QED
    BY <2>1, <2>2
<1>5. ASSUME e.loan = l PROVE LostIn(w, l) = LostIn(s, l) \cup {Len(s) + 1}
  BY <1>1, <1>3, <1>5 DEF LostIn
<1>6. ASSUME e.loan # l PROVE LostIn(w, l) = LostIn(s, l)
  BY <1>1, <1>3, <1>6 DEF LostIn
<1> QED
  BY <1>2, <1>4, <1>5, <1>6, OneMore

LEMMA HoldersFinite ==
    ASSUME OwnInv, NEW l
    PROVE  /\ IsFiniteSet(UsersOf(l)) /\ Cardinality(UsersOf(l)) \in Nat
           /\ IsFiniteSet(LostOf(l)) /\ Cardinality(LostOf(l)) \in Nat
           /\ IsFiniteSet(LeaversOf(l)) /\ Cardinality(LeaversOf(l)) \in Nat
<1>1. IsFiniteSet(UsersOf(l))
  <2>1. UsersOf(l) \in SUBSET Routers
    BY DEF UsersOf
  <2> QED
    BY <2>1, ConnectionsAssumption, FS_Subset
<1>2. IsFiniteSet(LeaversOf(l))
  <2>1. LeaversOf(l) \in SUBSET Workers
    BY DEF LeaversOf
  <2>2. IsFiniteSet(Workers)
    BY ConnectionsAssumption, FS_AddElement DEF Workers
  <2> QED
    BY <2>1, <2>2, FS_Subset
<1>3. IsFiniteSet(LostOf(l))
  BY LostFinite DEF OwnInv, Store, LostOf
<1> QED
  BY <1>1, <1>2, <1>3, FS_CardinalityType

\* A loan that somebody holds is of a connection.
LEMMA HeldLoan ==
    ASSUME OwnInv, NEW l \in DOMAIN loans
    PROVE  /\ loans[l] \in Loan /\ LoanOK(l) /\ l \in Nat /\ l # 0
           /\ \A r \in Routers : router[r].loan = l => loans[l].holders > 0
           /\ \A u \in Workers : Leaving(u) = l => loans[l].holders > 0
           /\ loans[l].holders = 0 => UsersOf(l) = {} /\ LostOf(l) = {} /\ LeaversOf(l) = {}
<1>1. loans[l] \in Loan /\ LoanOK(l) /\ l \in Nat /\ l # 0
  BY DEF OwnInv, Store
<1>2. loans[l].holders \in Nat
  BY <1>1 DEF Loan
<1>3. loans[l].holders = Cardinality(UsersOf(l)) + Cardinality(LostOf(l)) + Cardinality(LeaversOf(l))
  BY <1>1 DEF LoanOK
<1>4. /\ Cardinality(UsersOf(l)) \in Nat /\ (Cardinality(UsersOf(l)) = 0 <=> UsersOf(l) = {})
      /\ Cardinality(LostOf(l)) \in Nat /\ (Cardinality(LostOf(l)) = 0 <=> LostOf(l) = {})
      /\ Cardinality(LeaversOf(l)) \in Nat /\ (Cardinality(LeaversOf(l)) = 0 <=> LeaversOf(l) = {})
  BY HoldersFinite, FS_EmptySet
<1>5. loans[l].holders = 0 => UsersOf(l) = {} /\ LostOf(l) = {} /\ LeaversOf(l) = {}
  <2>1. \A a, b, d \in Nat : a + b + d = 0 => a = 0 /\ b = 0 /\ d = 0
    OBVIOUS
  <2> QED
    BY <1>3, <1>4, <2>1
<1>6. \A r \in Routers : router[r].loan = l => UsersOf(l) # {}
  BY DEF UsersOf
<1>7. \A u \in Workers : Leaving(u) = l => LeaversOf(l) # {}
  BY DEF LeaversOf
<1> QED
  BY <1>1, <1>2, <1>5, <1>6, <1>7

\* A router's connection is its own or on loan.
LEMMA UserHolds ==
    ASSUME OwnInv, NEW r \in Routers, router[r].c # 0
    PROVE  /\ router[r].c \in Conns
           /\ router[r].loan = 0 => <<"router", r>> \in Slots /\ Holds(<<"router", r>>, router[r].c)
           /\ router[r].loan # 0 => <<"loan", router[r].loan>> \in Slots /\ Holds(<<"loan", router[r].loan>>, router[r].c)
<1>1. RouterOK(r) /\ DOMAIN loans = 1 .. Len(loans) /\ Len(loans) \in Nat
  BY DEF OwnInv, Store
<1>2. router[r].c \in Conns
  BY <1>1, ConnectionsAssumption DEF RouterOK, Conns
<1>3. router[r].loan # 0 => router[r].loan \in DOMAIN loans /\ router[r].loan \in Nat /\ loans[router[r].loan].c = router[r].c
  BY <1>1 DEF RouterOK
<1> QED
  BY <1>2, <1>3, SlotIn, HoldsIs

InUse(t, m) ==
    \E u \in Threads : u # t /\ th[u].pc \notin {"idle", "clear"} /\ m \in {th[u].r, th[u].lender} /\ lock[m] = u

\* What a step leaves alone of the routers other threads have locked.
LEMMA OthersOK ==
    ASSUME AbortInv, OwnInv, NEW t, \A u \in Threads : u # t => th'[u] = th[u],
           \A m \in Routers : router[m].st # "none" => router'[m].st # "none",
           \A m \in Routers : InUse(t, m) => /\ router'[m].c = router[m].c /\ router'[m].loan = router[m].loan
                                             /\ router'[m].lender = router[m].lender
    PROVE  \A u \in Threads : u # t => ThreadOK(u)'
<1> SUFFICES ASSUME NEW u \in Threads, u # t
             PROVE  ThreadOK(u)'
  OBVIOUS
<1>1. th'[u] = th[u] /\ ThreadOK(u) /\ Connecting(u)
  BY DEF OwnInv, AbortInv
<1>2. Top(u)' = Top(u)
  BY <1>1 DEF Top
<1>3. th[u].pc \notin {"idle", "clear"} => th[u].r \in Routers /\ router'[th[u].r].st # "none"
  BY <1>1 DEF Connecting, ThreadOK
<1>4. th[u].lender # 0 => /\ router'[th[u].r].c = router[th[u].r].c /\ router'[th[u].r].loan = router[th[u].r].loan
                          /\ router'[th[u].r].lender = router[th[u].r].lender
  <2> SUFFICES ASSUME th[u].lender # 0 PROVE InUse(t, th[u].r) /\ th[u].r \in Routers
    OBVIOUS
  <2> QED
    BY <1>1 DEF Connecting, InUse
<1>5. th[u].pc = "installed" \/ (th[u].pc \in {"acquire", "identify", "login"} /\ th[u].target = 0) =>
        /\ router'[Top(u)].c = router[Top(u)].c /\ router'[Top(u)].loan = router[Top(u)].loan
        /\ router'[Top(u)].lender = router[Top(u)].lender
  <2> SUFFICES ASSUME th[u].pc = "installed" \/ (th[u].pc \in {"acquire", "identify", "login"} /\ th[u].target = 0)
               PROVE  InUse(t, Top(u)) /\ Top(u) \in Routers
    OBVIOUS
  <2>1. lock[Top(u)] = u /\ Top(u) \in Routers /\ Top(u) \in {th[u].r, th[u].lender}
    BY <1>1 DEF Connecting, Top
  <2> QED
    BY <2>1 DEF InUse
<1> QED
  BY <1>1, <1>2, <1>3, <1>4, <1>5 DEF ThreadOK

\* A step that moves no connection.
LEMMA ThreadOnly ==
    ASSUME AbortInv, OwnInv, NEW t \in Threads, UNCHANGED <<conn, idle, orphans, loans, todo, router>>, cred' \in Idents,
           \A u \in Threads : u # t => th'[u] = th[u], ThreadOK(t)',
           th'[t].pc = "borrow" <=> th[t].pc = "borrow", th[t].pc = "borrow" => th'[t].new = th[t].new,
           th'[t].pc \in {"away", "return"} <=> th[t].pc \in {"away", "return"},
           th[t].pc \in {"away", "return"} => th'[t].c = th[t].c
    PROVE  OwnInv'
<1>1. Store'
  BY DEF OwnInv, Store
<1>2. \A r \in Routers : RouterOK(r)'
  BY DEF OwnInv, RouterOK
<1>3. \A u \in Threads : ThreadOK(u)'
  BY OthersOK
<1>4. \A l \in DOMAIN loans' : LoanOK(l)'
  BY DEF OwnInv, LoanOK, UsersOf, LostOf, LeaversOf, Leaving
<1>5. ASSUME NEW c \in Conns PROVE Owned(c)'
  <2>1. \A x \in Slots \ {} : Holds(x, c)' <=> Holds(x, c)
    BY HoldsFrame
  <2>2. Owned(c) /\ {} \in SUBSET Slots
    BY DEF OwnInv
  <2> QED
    BY <2>1, <2>2, OwnMoves
<1>6. NeverClosedUnder'
  BY DEF OwnInv, NeverClosedUnder
<1> QED
  BY <1>1, <1>2, <1>3, <1>4, <1>5, <1>6 DEF OwnInv

-----------------------------------------------------------------------------
(* Letting go.                                                             *)

\* Where the claims of threads are as they were.
ClaimsKept(t) ==
    /\ th'[t].pc = "borrow" <=> th[t].pc = "borrow"
    /\ th[t].pc = "borrow" => th'[t].new = th[t].new
    /\ th'[t].pc \in {"away", "return"} <=> th[t].pc \in {"away", "return"}
    /\ th[t].pc \in {"away", "return"} => th'[t].c = th[t].c

LEMMA LetGoIs ==
    ASSUME OwnInv, NEW r \in Routers, NEW bad \in BOOLEAN,
           NEW w, w = LetGo(router[r].c, router[r].loan, router[r].url, bad)
    PROVE  /\ TodoOK(w, Len(loans))
           /\ \A c \in Conns : c \in Members(w) <=> router[r].c = c /\ router[r].loan = 0
           /\ (IF w = <<>> THEN 0 ELSE w[1].loan) = router[r].loan
           /\ \A i \in DOMAIN w : w[i].op \in {"release", "keep"} => w[i].c = router[r].c /\ w[i].at = router[r].url
<1> DEFINE q == router[r]
<1>1. RouterOK(r) /\ Len(loans) \in Nat /\ MaxConns \in Nat
  BY ConnectionsAssumption DEF OwnInv, Store
<1>2. q.c \in 0 .. MaxConns /\ q.loan \in 0 .. Len(loans) /\ q.url \in Servers /\ (q.loan # 0 => q.c # 0)
  BY <1>1 DEF RouterOK
<1>3. CASE q.c = 0
  <2>1. w = <<>> /\ q.loan = 0
    BY <1>2, <1>3 DEF LetGo
  <2> QED
    BY <1>1, <1>3, <2>1, NoThing, ConnectionsAssumption DEF Conns
<1>4. CASE q.c # 0 /\ q.loan # 0
  <2> DEFINE e == Leave(q.loan, bad)
  <2>1. w = <<e>>
    BY <1>4 DEF LetGo
  <2>2. e = [op |-> "leave", loan |-> q.loan, spoiled |-> bad, c |-> 0, at |-> 0]
    BY DEF Leave
  <2>3. e \in Item /\ ItemOK(e, 1, Len(loans)) /\ e.c = 0 /\ e.loan = q.loan /\ e.op = "leave"
    BY <1>1, <1>2, <1>4, <2>2 DEF Item, ItemOK
  <2> HIDE DEF e
  <2>4. TodoOK(<<e>>, Len(loans)) /\ Members(<<e>>) = {0} /\ <<e>> # <<>> /\ <<e>>[1] = e /\ \A i \in DOMAIN <<e>> : <<e>>[i] = e
    BY <1>1, <2>3, OneThing
  <2>5. 0 \notin Conns
    BY ConnectionsAssumption DEF Conns
  <2> QED
    BY <1>4, <2>1, <2>3, <2>4, <2>5
<1>5. CASE q.c # 0 /\ q.loan = 0
  <2>1. PICK e : e = IF bad THEN Shut(q.c) ELSE Release(q.c, q.url)
    OBVIOUS
  <2>2. w = <<e>>
    BY <1>5, <2>1 DEF LetGo
  <2>3. e \in Item /\ ItemOK(e, 1, Len(loans)) /\ e.c = q.c /\ e.loan = 0 /\ (e.op \in {"release", "keep"} => e.at = q.url)
    <3>1. CASE bad
      <4>1. e = [op |-> "close", loan |-> 0, spoiled |-> FALSE, c |-> q.c, at |-> 0]
        BY <2>1, <3>1 DEF Shut, Offer
      <4> QED
        BY <1>1, <1>2, <1>5, <4>1 DEF Item, ItemOK
    <3>2. CASE ~bad
      <4>1. e = [op |-> "release", loan |-> 0, spoiled |-> FALSE, c |-> q.c, at |-> q.url]
        BY <2>1, <3>2 DEF Release, Offer
      <4> QED
        BY <1>1, <1>2, <1>5, <4>1 DEF Item, ItemOK
    <3> QED
      BY <3>1, <3>2
  <2>4. TodoOK(<<e>>, Len(loans)) /\ Members(<<e>>) = {q.c} /\ <<e>> # <<>> /\ <<e>>[1] = e /\ \A i \in DOMAIN <<e>> : <<e>>[i] = e
    BY <1>1, <2>3, OneThing
  <2> QED
    BY <1>5, <2>2, <2>3, <2>4
<1> QED
  BY <1>3, <1>4, <1>5

LEMMA LetGoOwn ==
    ASSUME OwnInv, NEW t \in Threads, NEW r \in Routers, todo[t] = <<>>, NEW bad \in BOOLEAN,
           todo' = [todo EXCEPT ![t] = LetGo(router[r].c, router[r].loan, router[r].url, bad)],
           \A m \in Routers : m # r => router'[m] = router[m],
           router'[r].c = 0, router'[r].loan = 0, router'[r].url \in Servers, router'[r].st = "none" => ~router'[r].aborted,
           conn' \in [Conns -> Link], \A c \in Conns : conn'[c].st = "open" => conn[c].st = "open",
           \A c \in Conns : conn[c].st # "unborn" => conn'[c].st # "unborn",
           UNCHANGED <<idle, orphans, loans, cred>>, \A u \in Threads : ClaimsKept(u),
           \A u \in Threads : ThreadOK(u)', NeverClosedUnder'
    PROVE  OwnInv'
<1> DEFINE w == LetGo(router[r].c, router[r].loan, router[r].url, bad)
<1>1. /\ TodoOK(w, Len(loans))
      /\ \A c \in Conns : c \in Members(w) <=> router[r].c = c /\ router[r].loan = 0
      /\ (IF w = <<>> THEN 0 ELSE w[1].loan) = router[r].loan
  BY LetGoIs
<1>2. todo' = [todo EXCEPT ![t] = w]
  OBVIOUS
<1> HIDE DEF w
<1>3. t \in Workers /\ DOMAIN todo = Workers /\ RouterOK(r) /\ loans \in Seq(Loan)
  BY DEF Workers, OwnInv, Store
<1>4. DOMAIN todo' = Workers /\ todo'[t] = w /\ \A u \in Workers : u # t => todo'[u] = todo[u]
  BY <1>2, <1>3
<1>5. Store'
  <2>1. \A u \in Workers : TodoOK(todo'[u], Len(loans'))
    BY <1>1, <1>4 DEF OwnInv, Store
  <2>2. /\ idle' \in [Keys -> Seq(Entry)] /\ (\A k \in Keys : Distinct(idle'[k]) /\ Len(idle'[k]) <= PoolSize)
        /\ loans' \in Seq(Loan) /\ orphans' \in Seq(Orphan) /\ cred' \in Idents
        /\ (\A i \in DOMAIN orphans' : orphans'[i].loan \in 0 .. Len(loans'))
        /\ \A i, j \in DOMAIN orphans' : orphans'[i].c = orphans'[j].c /\ orphans'[i].loan = 0 /\ orphans'[j].loan = 0 => i = j
    BY DEF OwnInv, Store
  <2> QED
    BY <1>4, <2>1, <2>2 DEF Store
<1>6. ASSUME NEW m \in Routers PROVE RouterOK(m)'
  <2>1. CASE m = r
    BY <1>3, <2>1, ConnectionsAssumption DEF RouterOK
  <2>2. CASE m # r
    <3>1. RouterOK(m) /\ router'[m] = router[m]
      BY <2>2 DEF OwnInv
    <3> QED
      BY <3>1 DEF RouterOK
  <2> QED
    BY <2>1, <2>2
<1>7. ASSUME NEW l \in DOMAIN loans' PROVE LoanOK(l)'
  <2>1. LoanOK(l) /\ l # 0 /\ l \in DOMAIN loans
    BY HeldLoan
  <2>2. LostOf(l)' = LostOf(l)
    BY DEF LostOf
  <2>3. Leaving(t) = 0 /\ Leaving(t)' = router[r].loan /\ \A u \in Workers : u # t => Leaving(u)' = Leaving(u)
    BY <1>1, <1>4 DEF Leaving
  <2>4. CASE router[r].loan = l
    <3>1. UsersOf(l)' = UsersOf(l) \ {r} /\ r \in UsersOf(l)
      BY <2>1, <2>4 DEF UsersOf
    <3>2. LeaversOf(l)' = LeaversOf(l) \cup {t} /\ t \notin LeaversOf(l)
      BY <1>3, <2>1, <2>3, <2>4 DEF LeaversOf
    <3>3. /\ IsFiniteSet(UsersOf(l)) /\ Cardinality(UsersOf(l)) \in Nat /\ Cardinality(LostOf(l)) \in Nat
          /\ IsFiniteSet(LeaversOf(l)) /\ Cardinality(LeaversOf(l)) \in Nat
      BY HoldersFinite
    <3>4. Cardinality(UsersOf(l)') = Cardinality(UsersOf(l)) - 1
      BY <3>1, <3>3, OneFewer
    <3>5. Cardinality(LeaversOf(l)') = Cardinality(LeaversOf(l)) + 1
      BY <3>2, <3>3, OneMore
    <3> QED
      BY <2>1, <2>2, <3>3, <3>4, <3>5 DEF LoanOK
  <2>5. CASE router[r].loan # l
    <3>1. UsersOf(l)' = UsersOf(l)
      BY <2>1, <2>5 DEF UsersOf
    <3>2. LeaversOf(l)' = LeaversOf(l)
      BY <2>1, <2>3, <2>5 DEF LeaversOf
    <3> QED
      BY <2>1, <2>2, <3>1, <3>2 DEF LoanOK
  <2> QED
    BY <2>4, <2>5
<1>8. ASSUME NEW c \in Conns PROVE Owned(c)'
  <2> DEFINE A == {<<"router", r>>, <<"todo", t>>}
  <2>1. c # 0 /\ Owned(c) /\ A \in SUBSET Slots
    BY <1>3, SlotIn, ConnectionsAssumption DEF Conns, OwnInv
  <2>2. \A x \in Slots \ A : Holds(x, c)' <=> Holds(x, c)
    <3>1. \A m \in Routers : <<"router", m>> \in A \/ router'[m] = router[m]
      OBVIOUS
    <3>2. \A u \in Workers : <<"todo", u>> \in A \/ todo'[u] = todo[u]
      BY <1>4
    <3>3. \A u \in Threads : /\ th'[u].pc = "borrow" /\ th'[u].new = c <=> th[u].pc = "borrow" /\ th[u].new = c
                             /\ th'[u].pc \in {"away", "return"} /\ th'[u].c = c <=> th[u].pc \in {"away", "return"} /\ th[u].c = c
      BY DEF ClaimsKept
    <3> HIDE DEF A
    <3> QED
      BY <3>1, <3>2, <3>3, HoldsFrame
  <2>3. Holds(<<"router", r>>, c) <=> router[r].c = c /\ router[r].loan = 0
    BY HoldsIs
  <2>4. ~Holds(<<"router", r>>, c)'
    BY <2>1, HoldsThen
  <2>5. ~Holds(<<"todo", t>>, c)
    <3>1. Members(todo[t]) = {}
      BY NoThing
    <3> QED
      BY <3>1, HoldsIs
  <2>6. Holds(<<"todo", t>>, c)' <=> router[r].c = c /\ router[r].loan = 0
    BY <1>1, <1>4, HoldsThen
  <2>7. \A x \in A : x = <<"router", r>> \/ x = <<"todo", t>>
    OBVIOUS
  <2>8. <<"router", r>> \in A /\ <<"todo", t>> \in A
    OBVIOUS
  <2> HIDE DEF A
  <2>9. \A x \in A : Holds(x, c)' => \E y \in A : Holds(y, c)
    BY <2>3, <2>4, <2>6, <2>7, <2>8
  <2>10. \A x, y \in A : Holds(x, c)' /\ Holds(y, c)' => x = y
    BY <2>4, <2>7
  <2>11. \A x \in A : Holds(x, c) => \E y \in A : Holds(y, c)'
    BY <2>3, <2>5, <2>6, <2>7, <2>8
  <2> QED
    BY <2>1, <2>2, <2>9, <2>10, <2>11, OwnMoves
<1> QED
  BY <1>5, <1>6, <1>7, <1>8 DEF OwnInv

-----------------------------------------------------------------------------
(* Steps of a thread that leave every connection where it is.              *)

LEMMA PlainOK ==
    ASSUME NEW t, NEW w, th'[t] = w, Fit(w), w.lender = 0, w.pc # "installed",
           w.pc \in {"acquire", "identify", "login"} => w.target # 0,
           w.pc \in {"idle", "clear"} \/ router'[w.r].st # "none"
    PROVE  ThreadOK(t)'
BY DEF ThreadOK

LEMMA RestFits == Fit(AtRest)
BY ConnectionsAssumption DEF Fit, AtRest

\* Thread t, which is at no connection of its own, takes up w.
LEMMA PlainOwn ==
    ASSUME AbortInv, OwnInv, NEW t \in Threads, NEW w, th' = [th EXCEPT ![t] = w],
           UNCHANGED <<conn, idle, orphans, loans, todo, router, cred>>, Fit(w), w.lender = 0, w.pc # "installed",
           w.pc \in {"acquire", "identify", "login"} => w.target # 0,
           w.pc \in {"idle", "clear"} \/ router[w.r].st # "none",
           w.pc # "borrow", th[t].pc # "borrow",
           w.pc \in {"away", "return"} <=> th[t].pc \in {"away", "return"}, w.pc = "return" => w.c = th[t].c, w.pc # "away"
    PROVE  OwnInv'
<1>1. DOMAIN th = Workers /\ t \in Workers
  BY DEF AbortInv, Shapes, Workers
<1>2. th'[t] = w /\ \A u \in Threads : u # t => th'[u] = th[u]
  BY <1>1
<1>3. ThreadOK(t)'
  BY <1>2, PlainOK
<1>4. cred' \in Idents
  BY DEF OwnInv, Store
<1> QED
  BY <1>2, <1>3, <1>4, ThreadOnly

LEMMA MyThread ==
    ASSUME AbortInv, OwnInv, NEW t \in Threads
    PROVE  /\ t \in DOMAIN th /\ DOMAIN th[t] = ThFields /\ ThreadOK(t) /\ Connecting(t) /\ Fit(th[t])
           /\ th[t].pc \notin {"lockwait", "acquire", "identify", "login", "installed"} => th[t].lender = 0
           /\ th[t].pc \notin {"idle", "clear"} => th[t].r \in Routers /\ router[th[t].r].st # "none" /\ RouterOK(th[t].r)
           /\ DOMAIN router = Routers /\ (\A r \in Routers : DOMAIN router[r] = RouterFields /\ RouterOK(r))
BY DEF AbortInv, Shapes, OwnInv, ThreadOK, Connecting, Workers

LEMMA AttemptOwn ==
    ASSUME AbortInv, OwnInv, NEW t \in Threads, Attempt(t)
    PROVE  OwnInv'
<1> DEFINE q == router[th[t].r]
           w == CASE q.aborted -> AtRest
                  [] ~q.aborted /\ th[t].target # 0 -> [th[t] EXCEPT !.pc = "acquire"]
                  [] ~q.aborted /\ th[t].target = 0 /\ Alive(q.c) -> [th[t] EXCEPT !.pc = "using", !.c = q.c]
                  [] OTHER -> [th[t] EXCEPT !.pc = "lockwait"]
<1>1. th[t].pc = "attempt" /\ UNCHANGED <<conn, idle, orphans, loans, todo, router, cred>>
  BY DEF Attempt, At
<1>2. /\ t \in DOMAIN th /\ DOMAIN th[t] = ThFields /\ Fit(th[t]) /\ th[t].lender = 0 /\ q.c \in 0 .. MaxConns
      /\ router[th[t].r].st # "none"
  BY <1>1, MyThread DEF RouterOK
<1>3. th' = [th EXCEPT ![t] = w]
  BY <1>2 DEF Attempt
<1>4. \/ w = AtRest
      \/ w = [th[t] EXCEPT !.pc = "acquire"] /\ th[t].target # 0
      \/ w = [th[t] EXCEPT !.pc = "using", !.c = q.c]
      \/ w = [th[t] EXCEPT !.pc = "lockwait"]
  OBVIOUS
<1> HIDE DEF w
<1>5. Fit(w) /\ w.lender = 0 /\ w.pc \in {"idle", "acquire", "using", "lockwait"} /\ (w.pc = "acquire" => w.target # 0)
      /\ (w.pc # "idle" => w.r = th[t].r)
  <2>1. CASE w = AtRest
    BY <2>1, RestFits DEF AtRest
  <2>2. CASE w # AtRest
    BY <1>1, <1>2, <1>4, <2>2 DEF Fit, ThFields
  <2> QED
    BY <2>1, <2>2
<1> QED
  BY <1>1, <1>2, <1>3, <1>5, PlainOwn

LEMMA RecoverRaisesOwn ==
    ASSUME AbortInv, OwnInv, NEW t \in Threads, RecoverRaises(t)
    PROVE  OwnInv'
<1>1. th[t].pc = "recover" /\ UNCHANGED <<conn, idle, orphans, loans, todo, router, cred>> /\ th' = [th EXCEPT ![t] = AtRest]
  BY DEF RecoverRaises, At
<1>2. AtRest.pc = "idle" /\ AtRest.lender = 0
  BY DEF AtRest
<1> QED
  BY <1>1, <1>2, RestFits, PlainOwn

LEMMA LoginFailsOwn ==
    ASSUME AbortInv, OwnInv, NEW t \in Threads, LoginFails(t)
    PROVE  OwnInv'
<1> DEFINE w == [th[t] EXCEPT !.pc = "recover", !.lender = 0, !.raced = FALSE]
<1>1. th[t].pc = "login" /\ UNCHANGED <<conn, idle, orphans, loans, todo, router, cred>>
  BY DEF LoginFails, At
<1>2. t \in DOMAIN th /\ DOMAIN th[t] = ThFields /\ Fit(th[t]) /\ router[th[t].r].st # "none"
  BY <1>1, MyThread
<1>3. th' = [th EXCEPT ![t] = w]
  BY <1>2 DEF LoginFails
<1>4. Fit(w) /\ w.pc = "recover" /\ w.lender = 0 /\ w.r = th[t].r
  BY <1>1, <1>2 DEF Fit, ThFields
<1> HIDE DEF w
<1> QED
  BY <1>1, <1>2, <1>3, <1>4, PlainOwn

LEMMA IdentifyOwn ==
    ASSUME AbortInv, OwnInv, NEW t \in Threads, Identify(t)
    PROVE  OwnInv'
<1> DEFINE w == [th[t] EXCEPT !.pc = "login", !.id = IF PoolSize = 0 THEN 0 ELSE cred]
<1>1. th[t].pc = "identify" /\ UNCHANGED <<conn, idle, orphans, loans, todo, router, cred>> /\ cred \in Idents
  BY DEF Identify, At, OwnInv, Store
<1>2. t \in DOMAIN th /\ DOMAIN th[t] = ThFields /\ Fit(th[t]) /\ router[th[t].r].st # "none" /\ ThreadOK(t)
  BY <1>1, MyThread
<1>3. th' = [th EXCEPT ![t] = w]
  BY <1>2 DEF Identify
<1>4. Fit(w) /\ w.pc = "login" /\ w.lender = th[t].lender /\ w.r = th[t].r /\ w.target = th[t].target
  BY <1>1, <1>2 DEF Fit, ThFields
<1> HIDE DEF w
<1>5. th'[t] = w /\ \A u \in Threads : u # t => th'[u] = th[u]
  BY <1>2, <1>3
<1>6. Top(t)' = Top(t)
  BY <1>4, <1>5 DEF Top
<1>7. ThreadOK(t)'
  BY <1>1, <1>2, <1>4, <1>5, <1>6 DEF ThreadOK
<1> QED
  BY <1>1, <1>4, <1>5, <1>7, ThreadOnly

\* The end of an attempt, with what a redirect adds to it.
LEMMA OutcomeOwn ==
    ASSUME AbortInv, OwnInv, NEW t \in Threads, Out(t), NEW next \in {"idle", "recover", "point", "gohome"}, NEW w,
           th' = [th EXCEPT ![t] = w], UNCHANGED <<conn, idle, orphans, loans, todo, router, cred>>, Fit(w),
           w.pc = Outcome(t, next)[t].pc, w.r = Outcome(t, next)[t].r, w.lender = Outcome(t, next)[t].lender,
           w.c = Outcome(t, next)[t].c
    PROVE  OwnInv'
<1>1. th[t].pc \in {"using", "away"}
  BY DEF Out
<1>2. t \in DOMAIN th /\ DOMAIN th[t] = ThFields /\ th[t].lender = 0 /\ router[th[t].r].st # "none"
  BY <1>1, MyThread
<1>3. /\ th[t].pc = "away" => w.pc = "return" /\ w.r = th[t].r /\ w.lender = 0 /\ w.c = th[t].c
      /\ th[t].pc = "using" => w.pc = next /\ w.lender = 0 /\ (next # "idle" => w.r = th[t].r)
  BY <1>1, <1>2 DEF Outcome, AtRest, ThFields
<1> QED
  BY <1>1, <1>2, <1>3, PlainOwn

LEMMA OutcomeFits ==
    ASSUME AbortInv, OwnInv, NEW t \in Threads, Out(t), NEW next \in {"idle", "recover", "gohome"}
    PROVE  Fit(Outcome(t, next)[t])
<1>1. th[t].pc \in {"using", "away"}
  BY DEF Out
<1>2. t \in DOMAIN th /\ DOMAIN th[t] = ThFields /\ Fit(th[t])
  BY MyThread
<1>3. CASE th[t].pc = "away"
  <2>1. Outcome(t, next)[t] = [th[t] EXCEPT !.pc = "return", !.next = next]
    BY <1>2, <1>3 DEF Outcome
  <2> QED
    BY <1>2, <1>3, <2>1 DEF Fit, ThFields
<1>4. CASE th[t].pc = "using" /\ next = "idle"
  <2>1. Outcome(t, next)[t] = AtRest
    BY <1>2, <1>4 DEF Outcome
  <2> QED
    BY <2>1, RestFits
<1>5. CASE th[t].pc = "using" /\ next # "idle"
  <2>1. Outcome(t, next)[t] = [th[t] EXCEPT !.pc = next]
    BY <1>2, <1>5 DEF Outcome
  <2> QED
    BY <1>2, <1>5, <2>1 DEF Fit, ThFields
<1> QED
  BY <1>1, <1>3, <1>4, <1>5

LEMMA FinishOwn ==
    ASSUME AbortInv, OwnInv, NEW t \in Threads, Finish(t)
    PROVE  OwnInv'
<1>1. Out(t) /\ UNCHANGED <<conn, idle, orphans, loans, todo, router, cred>> /\ th' = Outcome(t, "idle") /\ t \in DOMAIN th
  BY MyThread DEF Finish
<1>2. th' = [th EXCEPT ![t] = Outcome(t, "idle")[t]]
  BY <1>1 DEF Outcome
<1> QED
  BY <1>1, <1>2, OutcomeFits, OutcomeOwn

LEMMA RedirectedOwn ==
    ASSUME AbortInv, OwnInv, NEW t \in Threads, NEW d \in Servers, Redirected(t, d)
    PROVE  OwnInv'
<1> DEFINE o == Outcome(t, "point")
           w == [o[t] EXCEPT !.dest = d, !.hops = o[t].hops + 1]
<1>1. Out(t) /\ UNCHANGED <<conn, idle, orphans, loans, todo, router, cred>>
      /\ th' = [o EXCEPT ![t].dest = d, ![t].hops = @ + 1] /\ th[t].pc \in {"using", "away"}
  BY DEF Redirected, Out
<1>2. t \in DOMAIN th /\ DOMAIN th[t] = ThFields /\ Fit(th[t])
  BY MyThread
<1>3. d # 0 /\ DOMAIN o = DOMAIN th /\ \A u \in DOMAIN th : u # t => o[u] = th[u]
  BY ConnectionsAssumption DEF Outcome
<1>4. /\ th[t].pc = "away" => o[t] = [th[t] EXCEPT !.pc = "return", !.next = "point"]
      /\ th[t].pc = "using" => o[t] = [th[t] EXCEPT !.pc = "point"]
  BY <1>2 DEF Outcome
<1>5. DOMAIN o[t] = ThFields /\ th' = [o EXCEPT ![t] = w]
  BY <1>1, <1>2, <1>3, <1>4
<1>6. Fit(w)
  BY <1>1, <1>2, <1>3, <1>4, <1>5 DEF Fit, ThFields
<1>7. w.pc = o[t].pc /\ w.r = o[t].r /\ w.lender = o[t].lender /\ w.c = o[t].c
  BY <1>5 DEF ThFields
<1> HIDE DEF w, o
<1>8. DOMAIN th' = DOMAIN th /\ th'[t] = w /\ \A u \in DOMAIN th : u # t => th'[u] = th[u]
  BY <1>2, <1>3, <1>5
<1>9. th' = [u \in DOMAIN th |-> th'[u]]
  BY <1>3, <1>5
<1>10. th' = [th EXCEPT ![t] = w]
  BY <1>8, <1>9
<1> QED
  BY <1>1, <1>6, <1>7, <1>10, OutcomeOwn DEF o

LEMMA RefusedAwayOwn ==
    ASSUME AbortInv, OwnInv, NEW t \in Threads, RefusedAway(t)
    PROVE  OwnInv'
<1> DEFINE o == Outcome(t, "gohome")
           w == [o[t] EXCEPT !.spoiled = FALSE]
<1>1. Out(t) /\ UNCHANGED <<conn, idle, orphans, loans, todo, router, cred>>
      /\ th' = [o EXCEPT ![t].spoiled = FALSE] /\ th[t].pc \in {"using", "away"}
  BY DEF RefusedAway, Out
<1>2. t \in DOMAIN th /\ DOMAIN th[t] = ThFields /\ Fit(th[t])
  BY MyThread
<1>3. DOMAIN o = DOMAIN th /\ \A u \in DOMAIN th : u # t => o[u] = th[u]
  BY DEF Outcome
<1>4. /\ th[t].pc = "away" => o[t] = [th[t] EXCEPT !.pc = "return", !.next = "gohome"]
      /\ th[t].pc = "using" => o[t] = [th[t] EXCEPT !.pc = "gohome"]
  BY <1>2 DEF Outcome
<1>5. DOMAIN o[t] = ThFields /\ th' = [o EXCEPT ![t] = w]
  BY <1>1, <1>2, <1>3, <1>4
<1>6. Fit(w)
  BY <1>1, <1>2, <1>4, <1>5 DEF Fit, ThFields
<1>7. w.pc = o[t].pc /\ w.r = o[t].r /\ w.lender = o[t].lender /\ w.c = o[t].c
  BY <1>5 DEF ThFields
<1> HIDE DEF w, o
<1>8. DOMAIN th' = DOMAIN th /\ th'[t] = w /\ \A u \in DOMAIN th : u # t => th'[u] = th[u]
  BY <1>2, <1>3, <1>5
<1>9. th' = [u \in DOMAIN th |-> th'[u]]
  BY <1>3, <1>5
<1>10. th' = [th EXCEPT ![t] = w]
  BY <1>8, <1>9
<1> QED
  BY <1>1, <1>6, <1>7, <1>10, OutcomeOwn DEF o

\* A call begins.
LEMMA BeginOwn ==
    ASSUME AbortInv, OwnInv, NEW t \in Threads, th[t].pc = "idle", NEW w, th' = [th EXCEPT ![t] = w],
           UNCHANGED <<conn, idle, orphans, loans, todo, router, cred>>, Fit(w), w.lender = 0, w.pc \in {"attempt", "abort", "clear"},
           w.pc = "clear" \/ router[w.r].st # "none"
    PROVE  OwnInv'
BY PlainOwn

LEMMA ExecuteOwn ==
    ASSUME AbortInv, OwnInv, NEW t \in Threads, Execute(t)
    PROVE  OwnInv'
<1>1. PICK r \in Routers : Live(r) /\ th' = [th EXCEPT ![t] = [AtRest EXCEPT !.pc = "attempt", !.r = r, !.home = router[r].url]]
  BY Zenon DEF Execute
<1> DEFINE w == [AtRest EXCEPT !.pc = "attempt", !.r = r, !.home = router[r].url]
<1>2. th[t].pc = "idle" /\ UNCHANGED <<conn, idle, orphans, loans, todo, router, cred>> /\ router[r].st # "none" /\ RouterOK(r)
  BY <1>1 DEF Execute, MayCall, At, Live, OwnInv
<1>3. Fit(w) /\ w.lender = 0 /\ w.pc = "attempt" /\ w.r = r
  BY <1>2, ConnectionsAssumption DEF Fit, AtRest, RouterOK
<1> HIDE DEF w
<1> QED
  BY <1>1, <1>2, <1>3, BeginOwn DEF w

LEMMA AbortOwn ==
    ASSUME AbortInv, OwnInv, NEW t \in Threads, Abort(t)
    PROVE  OwnInv'
<1>1. PICK r \in Routers : Live(r) /\ ~router[r].aborted /\ th' = [th EXCEPT ![t] = [AtRest EXCEPT !.pc = "abort", !.r = r]]
  BY Zenon DEF Abort
<1> DEFINE w == [AtRest EXCEPT !.pc = "abort", !.r = r]
<1>2. th[t].pc = "idle" /\ UNCHANGED <<conn, idle, orphans, loans, todo, router, cred>> /\ router[r].st # "none"
  BY <1>1 DEF Abort, MayCall, At, Live
<1>3. Fit(w) /\ w.lender = 0 /\ w.pc = "abort" /\ w.r = r
  BY ConnectionsAssumption DEF Fit, AtRest
<1> HIDE DEF w
<1> QED
  BY <1>1, <1>2, <1>3, BeginOwn DEF w

LEMMA ClearOwn ==
    ASSUME AbortInv, OwnInv, NEW t \in Threads, Clear(t)
    PROVE  OwnInv'
<1> DEFINE w == [AtRest EXCEPT !.pc = "clear"]
<1>1. th[t].pc = "idle" /\ UNCHANGED <<conn, idle, orphans, loans, todo, router, cred>> /\ th' = [th EXCEPT ![t] = w]
  BY DEF Clear, MayCall, At
<1>2. Fit(w) /\ w.lender = 0 /\ w.pc = "clear"
  BY ConnectionsAssumption DEF Fit, AtRest
<1> HIDE DEF w
<1> QED
  BY <1>1, <1>2, BeginOwn

-----------------------------------------------------------------------------
(* Steps that let go of a router's connection.                             *)

LEMMA FreeToDrop ==
    ASSUME NEW t, NEW r, lock[r] = Nobody \/ lock[r] = t
    PROVE  ~InUse(t, r)
BY ConnectionsAssumption DEF InUse

\* Router r, which no other thread has locked, becomes q and lets go.
LEMMA LetsGo ==
    ASSUME AbortInv, OwnInv, NEW t \in Threads, NEW r \in Routers, NEW q, NEW bad \in BOOLEAN, todo[t] = <<>>,
           todo' = [todo EXCEPT ![t] = LetGo(router[r].c, router[r].loan, router[r].url, bad)],
           router' = [router EXCEPT ![r] = q], q.c = 0, q.loan = 0, q.url \in Servers,
           q.st = router[r].st, q.aborted = router[r].aborted,
           UNCHANGED <<conn, idle, orphans, loans, cred>>, ~InUse(t, r),
           \A u \in Threads : u # t => th'[u] = th[u], ThreadOK(t)', ClaimsKept(t)
    PROVE  OwnInv'
<1>1. DOMAIN router = Routers
  BY DEF AbortInv, Shapes
<1>2. router'[r] = q /\ \A m \in Routers : m # r => router'[m] = router[m]
  BY <1>1
<1>3. \A u \in Threads : ThreadOK(u)'
  <2>1. \A m \in Routers : router[m].st # "none" => router'[m].st # "none"
    BY <1>2
  <2>2. \A m \in Routers : InUse(t, m) => router'[m] = router[m]
    BY <1>2
  <2> QED
    BY <2>1, <2>2, OthersOK
<1>4. \A u \in Threads : ClaimsKept(u)
  BY DEF ClaimsKept
<1>5. NeverClosedUnder'
  <2> SUFFICES ASSUME \A m \in Routers : ~router'[m].aborted, NEW m \in Routers, router'[m].c # 0
               PROVE  conn'[router'[m].c].st # "shut"
    BY DEF NeverClosedUnder
  <2>1. (\A n \in Routers : ~router[n].aborted) /\ router'[m].c = router[m].c
    BY <1>2
  <2> QED
    BY <2>1 DEF OwnInv, NeverClosedUnder
<1>6. conn' \in [Conns -> Link]
  BY DEF OwnInv, Store
<1>7. q.st = "none" => ~q.aborted
  BY DEF OwnInv, RouterOK
<1>8. router'[r].c = 0 /\ router'[r].loan = 0 /\ router'[r].url \in Servers /\ (router'[r].st = "none" => ~router'[r].aborted)
  BY <1>2, <1>7, Zenon
<1>9. \A c \in Conns : (conn'[c].st = "open" => conn[c].st = "open") /\ (conn[c].st # "unborn" => conn'[c].st # "unborn")
  OBVIOUS
<1> QED
  BY <1>2, <1>3, <1>4, <1>5, <1>6, <1>8, <1>9, LetGoOwn

LEMMA EnterOwn ==
    ASSUME AbortInv, OwnInv, NEW t \in Threads, Enter(t)
    PROVE  OwnInv'
<1> DEFINE n == Top(t)
           q == router[n]
<1>1. /\ th[t].pc = "lockwait" /\ lock[n] = Nobody /\ todo[t] = <<>> /\ UNCHANGED <<conn, idle, orphans, loans, cred>>
      /\ DOMAIN th[t] = ThFields /\ Connecting(t) /\ t \in DOMAIN th /\ Fit(th[t]) /\ ThreadOK(t) /\ DOMAIN router = Routers
  BY MyThread DEF Enter, At
<1>2. /\ th[t].r \in Routers /\ th[t].target = 0 /\ n \in Routers /\ 0 \notin Routers /\ router[th[t].r].st # "none"
      /\ q.c \in 0 .. MaxConns /\ q.url \in Servers /\ DOMAIN q = RouterFields
  BY <1>1, MyThread, ConnectionsAssumption DEF Connecting, Top, RouterOK
<1>3. ASSUME th' = [th EXCEPT ![t] = AtRest], UNCHANGED <<router, todo>>
      PROVE  OwnInv'
  <2>1. AtRest.pc = "idle" /\ AtRest.lender = 0
    BY DEF AtRest
  <2> QED
    BY <1>1, <1>3, <2>1, RestFits, PlainOwn
<1>4. ASSUME Alive(q.c), th' = [th EXCEPT ![t].pc = "installed", ![t].new = q.c], UNCHANGED <<router, todo>>
      PROVE  OwnInv'
  <2> DEFINE w == [th[t] EXCEPT !.pc = "installed", !.new = q.c]
  <2>1. th' = [th EXCEPT ![t] = w] /\ q.c # 0
    BY <1>1, <1>4 DEF Alive
  <2>2. w.pc = "installed" /\ w.r = th[t].r /\ w.lender = th[t].lender /\ w.new = q.c /\ Fit(w)
    BY <1>1, <1>2 DEF ThFields, Fit
  <2> HIDE DEF w
  <2>3. th'[t] = w /\ \A u \in Threads : u # t => th'[u] = th[u]
    BY <1>1, <2>1
  <2>4. Top(t)' = n
    BY <2>2, <2>3 DEF Top
  <2>5. ThreadOK(t)'
    BY <1>1, <1>4, <2>1, <2>2, <2>3, <2>4 DEF ThreadOK
  <2>6. cred' \in Idents
    BY <1>1 DEF OwnInv, Store
  <2> QED
    BY <1>1, <1>4, <2>2, <2>3, <2>5, <2>6, ThreadOnly
<1>5. ASSUME th' = [th EXCEPT ![t].pc = "recover", ![t].lender = 0], UNCHANGED <<router, todo>>
      PROVE  OwnInv'
  <2> DEFINE w == [th[t] EXCEPT !.pc = "recover", !.lender = 0]
  <2>1. th' = [th EXCEPT ![t] = w]
    BY <1>1, <1>5
  <2>2. w.pc = "recover" /\ w.r = th[t].r /\ w.lender = 0 /\ Fit(w)
    BY <1>1, <1>2 DEF ThFields, Fit
  <2> HIDE DEF w
  <2> QED
    BY <1>1, <1>2, <1>5, <2>1, <2>2, PlainOwn
<1>6. ASSUME router' = [router EXCEPT ![n].c = 0, ![n].loan = 0, ![n].lender = 0],
             todo' = [todo EXCEPT ![t] = LetGo(q.c, q.loan, q.url, TRUE)],
             th' = [th EXCEPT ![t] = IF q.lender # 0 THEN [@ EXCEPT !.lender = q.lender] ELSE [@ EXCEPT !.pc = "acquire"]]
      PROVE  OwnInv'
  <2> DEFINE w == IF q.lender # 0 THEN [th[t] EXCEPT !.lender = q.lender] ELSE [th[t] EXCEPT !.pc = "acquire"]
             v == [q EXCEPT !.c = 0, !.loan = 0, !.lender = 0]
  <2>1. th' = [th EXCEPT ![t] = w] /\ router' = [router EXCEPT ![n] = v]
    BY <1>1, <1>2, <1>6
  <2>2. /\ w.r = th[t].r /\ w.target = 0 /\ Fit(w)
        /\ q.lender # 0 => w.pc = "lockwait" /\ w.lender = q.lender
        /\ q.lender = 0 => w.pc = "acquire" /\ w.lender = th[t].lender
    BY <1>1, <1>2 DEF ThFields, Fit
  <2>3. v.c = 0 /\ v.loan = 0 /\ v.lender = 0 /\ v.url = q.url /\ v.st = q.st /\ v.aborted = q.aborted
    BY <1>2 DEF RouterFields
  <2> HIDE DEF w, v
  <2>4. th'[t] = w /\ (\A u \in Threads : u # t => th'[u] = th[u]) /\ router'[n] = v
        /\ \A m \in Routers : m # n => router'[m] = router[m]
    BY <1>1, <1>2, <2>1
  <2>5. ThreadOK(t)'
    <3>1. router'[th[t].r].st # "none"
      BY <1>2, <2>3, <2>4
    <3>2. CASE q.lender # 0
      <4>1. q.sticky
        BY <1>2, <3>2 DEF AbortInv, Lenders
      <4>2. n = th[t].r
        BY <1>1, <4>1 DEF Connecting, Top
      <4> QED
        BY <2>2, <2>3, <2>4, <3>1, <3>2, <4>2 DEF ThreadOK
    <3>3. CASE q.lender = 0
      <4>1. Top(t)' = n
        BY <2>2, <2>4, <3>3 DEF Top
      <4>2. th[t].lender # 0 => th[t].r # n
        BY <1>1 DEF Connecting, Top
      <4> QED
        BY <1>1, <1>2, <2>2, <2>3, <2>4, <3>1, <3>3, <4>1, <4>2 DEF ThreadOK
    <3> QED
      BY <3>2, <3>3
  <2>6. ClaimsKept(t)
    BY <1>1, <2>2, <2>4 DEF ClaimsKept
  <2>7. ~InUse(t, n)
    BY <1>1, FreeToDrop
  <2> HIDE DEF n
  <2> QED
    BY <1>1, <1>2, <1>6, <2>1, <2>3, <2>4, <2>5, <2>6, <2>7, LetsGo
<1>7. \/ th' = [th EXCEPT ![t] = AtRest] /\ UNCHANGED <<router, todo>>
      \/ Alive(q.c) /\ th' = [th EXCEPT ![t].pc = "installed", ![t].new = q.c] /\ UNCHANGED <<router, todo>>
      \/ th' = [th EXCEPT ![t].pc = "recover", ![t].lender = 0] /\ UNCHANGED <<router, todo>>
      \/ /\ router' = [router EXCEPT ![n].c = 0, ![n].loan = 0, ![n].lender = 0]
         /\ todo' = [todo EXCEPT ![t] = LetGo(q.c, q.loan, q.url, TRUE)]
         /\ th' = [th EXCEPT ![t] = IF q.lender # 0 THEN [@ EXCEPT !.lender = q.lender] ELSE [@ EXCEPT !.pc = "acquire"]]
  BY DEF Enter
<1> QED
  BY <1>3, <1>4, <1>5, <1>6, <1>7, Zenon

\* A thread at no connection lets go of router r's and takes up w.
LEMMA PlainLetsGo ==
    ASSUME AbortInv, OwnInv, NEW t \in Threads, NEW r \in Routers, NEW v, NEW bad \in BOOLEAN, NEW w, todo[t] = <<>>,
           todo' = [todo EXCEPT ![t] = LetGo(router[r].c, router[r].loan, router[r].url, bad)],
           router' = [router EXCEPT ![r] = v], v.c = 0, v.loan = 0, v.url \in Servers,
           v.st = router[r].st, v.aborted = router[r].aborted,
           UNCHANGED <<conn, idle, orphans, loans, cred>>, lock[r] \in {Nobody, t},
           th' = [th EXCEPT ![t] = w], Fit(w), w.lender = 0, w.pc \in {"idle", "attempt"},
           w.pc = "idle" \/ (w.r \in Routers /\ router[w.r].st # "none"), th[t].pc \notin {"borrow", "away", "return"}
    PROVE  OwnInv'
<1>1. DOMAIN th = Workers /\ t \in Workers /\ DOMAIN router = Routers
  BY DEF AbortInv, Shapes, Workers
<1>2. th'[t] = w /\ (\A u \in Threads : u # t => th'[u] = th[u]) /\ \A m \in Routers : router'[m].st = router[m].st
  BY <1>1
<1>3. ThreadOK(t)'
  BY <1>2, PlainOK
<1>4. ClaimsKept(t)
  BY <1>2 DEF ClaimsKept
<1>5. ~InUse(t, r)
  BY FreeToDrop
<1> QED
  BY <1>2, <1>3, <1>4, <1>5, LetsGo

LEMMA PointOwn ==
    ASSUME AbortInv, OwnInv, NEW t \in Threads, Point(t)
    PROVE  OwnInv'
<1> DEFINE r == th[t].r
           q == router[r]
           d == th[t].dest
<1>1. th[t].pc = "point" /\ todo[t] = <<>> /\ UNCHANGED <<conn, idle, orphans, loans, cred>>
  BY DEF Point, At
<1>2. /\ t \in DOMAIN th /\ DOMAIN th[t] = ThFields /\ th[t].lender = 0 /\ r \in Routers /\ q.st # "none" /\ Fit(th[t])
      /\ d \in Servers /\ DOMAIN router = Routers /\ DOMAIN q = RouterFields
  BY <1>1, MyThread DEF Fit
<1>3. ASSUME Retargeted(t, d), UNCHANGED <<router, todo>>
      PROVE  OwnInv'
  <2> DEFINE w == [th[t] EXCEPT !.pc = "attempt", !.target = IF d = router[th[t].r].url THEN 0 ELSE d]
  <2>1. th' = [th EXCEPT ![t] = w]
    BY <1>2, <1>3 DEF Retargeted
  <2>2. w.pc = "attempt" /\ w.r = r /\ w.lender = 0 /\ Fit(w)
    BY <1>2 DEF ThFields, Fit
  <2> HIDE DEF w
  <2> QED
    BY <1>1, <1>2, <1>3, <2>1, <2>2, PlainOwn
<1>4. ASSUME th' = [th EXCEPT ![t].pc = "attempt", ![t].moved = @ \/ d # th[t].home],
             \/ UNCHANGED <<router, todo>>
             \/ /\ lock[r] = Nobody /\ router' = [router EXCEPT ![r].c = 0, ![r].loan = 0, ![r].url = d]
                /\ todo' = [todo EXCEPT ![t] = LetGo(q.c, q.loan, q.url, FALSE)]
      PROVE  OwnInv'
  <2> DEFINE w == [th[t] EXCEPT !.pc = "attempt", !.moved = th[t].moved \/ d # th[t].home]
             v == [q EXCEPT !.c = 0, !.loan = 0, !.url = d]
  <2>1. th' = [th EXCEPT ![t] = w]
    BY <1>2, <1>4
  <2>2. w.pc = "attempt" /\ w.r = r /\ w.lender = 0 /\ Fit(w)
    BY <1>2 DEF ThFields, Fit
  <2>3. \/ UNCHANGED <<router, todo>>
        \/ /\ lock[r] = Nobody /\ router' = [router EXCEPT ![r] = v]
           /\ todo' = [todo EXCEPT ![t] = LetGo(q.c, q.loan, q.url, FALSE)]
    BY <1>2, <1>4
  <2>4. v.c = 0 /\ v.loan = 0 /\ v.url = d /\ v.st = q.st /\ v.aborted = q.aborted
    BY <1>2 DEF RouterFields
  <2> HIDE DEF w, v, r, d
  <2>5. CASE UNCHANGED <<router, todo>>
    BY <1>1, <1>2, <2>1, <2>2, <2>5, PlainOwn
  <2> QED
    BY <1>1, <1>2, <2>1, <2>2, <2>3, <2>4, <2>5, PlainLetsGo
<1>5. \/ Retargeted(t, d) /\ UNCHANGED <<router, todo>>
      \/ /\ th' = [th EXCEPT ![t].pc = "attempt", ![t].moved = @ \/ d # th[t].home]
         /\ \/ UNCHANGED <<router, todo>>
            \/ /\ lock[r] = Nobody /\ router' = [router EXCEPT ![r].c = 0, ![r].loan = 0, ![r].url = d]
               /\ todo' = [todo EXCEPT ![t] = LetGo(q.c, q.loan, q.url, FALSE)]
  BY DEF Point
<1> QED
  BY <1>3, <1>4, <1>5, Zenon

LEMMA RecoverOwn ==
    ASSUME AbortInv, OwnInv, NEW t \in Threads, Recover(t)
    PROVE  OwnInv'
<1> DEFINE r == th[t].r
           q == router[r]
           v == [q EXCEPT !.c = 0, !.loan = 0]
<1>1. th[t].pc = "recover" /\ todo[t] = <<>> /\ UNCHANGED <<conn, idle, orphans, loans, cred>>
  BY DEF Recover, At
<1>2. /\ t \in DOMAIN th /\ DOMAIN th[t] = ThFields /\ th[t].lender = 0 /\ r \in Routers /\ q.st # "none" /\ Fit(th[t])
      /\ DOMAIN router = Routers /\ DOMAIN q = RouterFields /\ q.url \in Servers
  BY <1>1, MyThread DEF RouterOK
<1>3. v.c = 0 /\ v.loan = 0 /\ v.url = q.url /\ v.st = q.st /\ v.aborted = q.aborted
  BY <1>2 DEF RouterFields
<1>4. \/ /\ th' = [th EXCEPT ![t].pc = "gohome", ![t].spoiled = TRUE, ![t].tries = @ + 1] /\ UNCHANGED <<router, todo>>
      \/ th' = [th EXCEPT ![t].pc = "attempt", ![t].tries = @ + 1] /\ UNCHANGED <<router, todo>>
      \/ /\ lock[r] = Nobody /\ th' = [th EXCEPT ![t].pc = "attempt", ![t].tries = @ + 1]
         /\ router' = [router EXCEPT ![r].c = 0, ![r].loan = 0]
         /\ todo' = [todo EXCEPT ![t] = LetGo(q.c, q.loan, q.url, TRUE)]
  BY DEF Recover
<1>5. CASE th' = [th EXCEPT ![t].pc = "gohome", ![t].spoiled = TRUE, ![t].tries = @ + 1] /\ UNCHANGED <<router, todo>>
  <2> DEFINE w == [th[t] EXCEPT !.pc = "gohome", !.spoiled = TRUE, !.tries = th[t].tries + 1]
  <2>1. th' = [th EXCEPT ![t] = w]
    BY <1>2, <1>5
  <2>2. w.pc = "gohome" /\ w.r = r /\ w.lender = 0 /\ Fit(w)
    BY <1>2 DEF ThFields, Fit
  <2> HIDE DEF w
  <2> QED
    BY <1>1, <1>2, <1>5, <2>1, <2>2, PlainOwn
<1>6. CASE th' = [th EXCEPT ![t].pc = "attempt", ![t].tries = @ + 1]
  <2> DEFINE w == [th[t] EXCEPT !.pc = "attempt", !.tries = th[t].tries + 1]
  <2>1. th' = [th EXCEPT ![t] = w]
    BY <1>2, <1>6
  <2>2. w.pc = "attempt" /\ w.r = r /\ w.lender = 0 /\ Fit(w)
    BY <1>2 DEF ThFields, Fit
  <2> HIDE DEF w
  <2>3. CASE UNCHANGED <<router, todo>>
    BY <1>1, <1>2, <2>1, <2>2, <2>3, PlainOwn
  <2>4. CASE /\ lock[r] = Nobody /\ router' = [router EXCEPT ![r].c = 0, ![r].loan = 0]
             /\ todo' = [todo EXCEPT ![t] = LetGo(q.c, q.loan, q.url, TRUE)]
    <3>1. router' = [router EXCEPT ![r] = v]
      BY <1>2, <2>4
    <3>2. lock[r] = Nobody /\ todo' = [todo EXCEPT ![t] = LetGo(router[r].c, router[r].loan, router[r].url, TRUE)]
      BY <2>4
    <3> HIDE DEF v, r
    <3> QED
      BY <1>1, <1>2, <1>3, <2>1, <2>2, <3>1, <3>2, PlainLetsGo
  <2>5. CASE th' = [th EXCEPT ![t].pc = "gohome", ![t].spoiled = TRUE, ![t].tries = @ + 1] /\ UNCHANGED <<router, todo>>
    BY <1>5, <2>5
  <2> QED
    BY <1>4, <2>3, <2>4, <2>5
<1> QED
  BY <1>4, <1>5, <1>6

LEMMA GoHomeOwn ==
    ASSUME AbortInv, OwnInv, NEW t \in Threads, GoHome(t)
    PROVE  OwnInv'
<1> DEFINE r == th[t].r
           q == router[r]
           v == [q EXCEPT !.c = 0, !.loan = 0, !.url = th[t].home]
<1>1. th[t].pc = "gohome" /\ todo[t] = <<>> /\ UNCHANGED <<conn, idle, orphans, loans, cred>>
  BY DEF GoHome, At
<1>2. /\ t \in DOMAIN th /\ DOMAIN th[t] = ThFields /\ th[t].lender = 0 /\ r \in Routers /\ q.st # "none" /\ Fit(th[t])
      /\ DOMAIN router = Routers /\ DOMAIN q = RouterFields /\ th[t].home \in Servers /\ th[t].spoiled \in BOOLEAN
  BY <1>1, MyThread DEF Fit
<1>3. v.c = 0 /\ v.loan = 0 /\ v.url = th[t].home /\ v.st = q.st /\ v.aborted = q.aborted
  BY <1>2 DEF RouterFields
<1>4. \/ th' = [th EXCEPT ![t].pc = "attempt", ![t].target = 0] /\ UNCHANGED <<router, todo>>
      \/ /\ lock[r] = Nobody /\ th' = [th EXCEPT ![t].pc = "attempt", ![t].moved = FALSE]
         /\ router' = [router EXCEPT ![r].c = 0, ![r].loan = 0, ![r].url = th[t].home]
         /\ todo' = [todo EXCEPT ![t] = LetGo(q.c, q.loan, q.url, th[t].spoiled)]
  BY DEF GoHome
<1>5. CASE th' = [th EXCEPT ![t].pc = "attempt", ![t].target = 0] /\ UNCHANGED <<router, todo>>
  <2> DEFINE w == [th[t] EXCEPT !.pc = "attempt", !.target = 0]
  <2>1. th' = [th EXCEPT ![t] = w]
    BY <1>2, <1>5
  <2>2. w.pc = "attempt" /\ w.r = r /\ w.lender = 0 /\ Fit(w)
    BY <1>2 DEF ThFields, Fit
  <2> HIDE DEF w
  <2> QED
    BY <1>1, <1>2, <1>5, <2>1, <2>2, PlainOwn
<1>6. CASE /\ lock[r] = Nobody /\ th' = [th EXCEPT ![t].pc = "attempt", ![t].moved = FALSE]
           /\ router' = [router EXCEPT ![r].c = 0, ![r].loan = 0, ![r].url = th[t].home]
           /\ todo' = [todo EXCEPT ![t] = LetGo(q.c, q.loan, q.url, th[t].spoiled)]
  <2> DEFINE w == [th[t] EXCEPT !.pc = "attempt", !.moved = FALSE]
  <2>1. th' = [th EXCEPT ![t] = w] /\ router' = [router EXCEPT ![r] = v]
    BY <1>2, <1>6
  <2>2. w.pc = "attempt" /\ w.r = r /\ w.lender = 0 /\ Fit(w)
    BY <1>2 DEF ThFields, Fit
  <2>3. lock[r] = Nobody /\ todo' = [todo EXCEPT ![t] = LetGo(router[r].c, router[r].loan, router[r].url, th[t].spoiled)]
    BY <1>6
  <2> HIDE DEF w, v, r
  <2> QED
    BY <1>1, <1>2, <1>3, <2>1, <2>2, <2>3, PlainLetsGo
<1> QED
  BY <1>4, <1>5, <1>6

LEMMA GiveUpOwn ==
    ASSUME AbortInv, OwnInv, NEW t \in Threads, NEW bad \in BOOLEAN, GiveUp(t, bad), At(t, "idle"),
           UNCHANGED <<conn, idle, orphans, loans, th, cred>>
    PROVE  OwnInv'
<1>1. PICK r \in Routers :
             /\ Live(r) /\ lock[r] = Nobody /\ (router[r].sticky => Busy(r) = {}) /\ router[r].c # 0
             /\ router' = [router EXCEPT ![r].c = 0, ![r].loan = 0]
             /\ todo' = [todo EXCEPT ![t] = LetGo(router[r].c, router[r].loan, router[r].url, bad)]
  BY Zenon DEF GiveUp
<1> DEFINE v == [router[r] EXCEPT !.c = 0, !.loan = 0]
<1>2. /\ th[t].lender = 0 /\ Fit(th[t]) /\ DOMAIN router = Routers /\ DOMAIN router[r] = RouterFields
      /\ router[r].url \in Servers /\ th[t].pc = "idle" /\ todo[t] = <<>>
  BY MyThread DEF RouterOK, At
<1>3. v.c = 0 /\ v.loan = 0 /\ v.url = router[r].url /\ v.st = router[r].st /\ v.aborted = router[r].aborted
  BY <1>2 DEF RouterFields
<1>4. router' = [router EXCEPT ![r] = v]
  BY <1>1, <1>2
<1>5. lock[r] = Nobody /\ todo' = [todo EXCEPT ![t] = LetGo(router[r].c, router[r].loan, router[r].url, bad)]
  BY <1>1
<1> HIDE DEF v
<1>6. ThreadOK(t)' /\ ClaimsKept(t) /\ ~InUse(t, r)
  BY <1>2, <1>5, PlainOK, FreeToDrop DEF ClaimsKept
<1> QED
  BY <1>2, <1>3, <1>4, <1>5, <1>6, LetsGo

LEMMA AborterFits ==
    ASSUME AbortInv, OwnInv, NEW t \in Threads, NEW w, th[t].pc \in {"abort", "cut"}, Aborter(t, w) \/ Cutter(t, w)
    PROVE  /\ Fit(w) /\ w.lender = 0
           /\ w.pc = "idle" \/ (w.pc \in {"cut", th[t].pc} /\ w.r = th[t].r)
           /\ Aborter(t, w) \/ th[t].pc = "cut" => w.pc \in {"idle", "cut"}
<1>1. DOMAIN th[t] = ThFields /\ Fit(th[t]) /\ th[t].lender = 0
  BY MyThread
<1>2. CASE w = AtRest
  BY <1>2, RestFits DEF AtRest
<1>3. ASSUME NEW s, w = [th[t] EXCEPT !.pc = "cut", !.links = s]
      PROVE  Fit(w) /\ w.lender = 0 /\ w.pc = "cut" /\ w.r = th[t].r
  BY <1>1, <1>3 DEF Fit, ThFields
<1>4. ASSUME NEW s, w = [th[t] EXCEPT !.links = s]
      PROVE  Fit(w) /\ w.lender = 0 /\ w.pc = th[t].pc /\ w.r = th[t].r
  BY <1>1, <1>4 DEF Fit, ThFields
<1> QED
  BY <1>2, <1>3, <1>4 DEF Aborter, Cutter, AtRest

LEMMA AbortNowOwn ==
    ASSUME AbortInv, OwnInv, NEW t \in Threads, AbortNow(t)
    PROVE  OwnInv'
<1> DEFINE r == th[t].r
           q == router[r]
           v == [q EXCEPT !.aborted = TRUE, !.reconnect = FALSE, !.c = 0, !.loan = 0]
<1>1. /\ th[t].pc = "abort" /\ todo[t] = <<>> /\ lock[r] = Nobody
      /\ UNCHANGED <<conn, idle, orphans, loans, cred>> /\ todo' = [todo EXCEPT ![t] = LetGo(q.c, q.loan, q.url, TRUE)]
      /\ router' = [router EXCEPT ![r].aborted = TRUE, ![r].reconnect = FALSE, ![r].c = 0, ![r].loan = 0]
  BY DEF AbortNow, At
<1>2. /\ t \in DOMAIN th /\ r \in Routers /\ DOMAIN router = Routers /\ DOMAIN q = RouterFields /\ q.url \in Servers
      /\ q.st # "none"
  BY <1>1, MyThread DEF RouterOK
<1>3. v.c = 0 /\ v.loan = 0 /\ v.url = q.url /\ v.st = q.st /\ v.aborted
  BY <1>2 DEF RouterFields
<1>4. router' = [router EXCEPT ![r] = v]
  BY <1>1, <1>2
<1>5. PICK w : th' = [th EXCEPT ![t] = w] /\ Aborter(t, w)
  BY AbortNowIs
<1>6. Fit(w) /\ w.lender = 0 /\ (w.pc = "idle" \/ (w.pc = "cut" /\ w.r = r))
  BY <1>1, <1>5, AborterFits
<1> HIDE DEF v
<1>7. router'[r] = v /\ \A m \in Routers : m # r => router'[m] = router[m]
  BY <1>2, <1>4
<1>8. th'[t] = w /\ \A u \in Threads : u # t => th'[u] = th[u]
  BY <1>2, <1>5
<1>9. NeverClosedUnder'
  BY <1>2, <1>3, <1>7 DEF NeverClosedUnder
<1>10. \A u \in Threads : ClaimsKept(u)
  BY <1>1, <1>6, <1>8 DEF ClaimsKept
<1>11. router'[r].c = 0 /\ router'[r].loan = 0 /\ router'[r].url \in Servers /\ router'[r].st # "none"
  BY <1>2, <1>3, <1>7
<1>12. \A u \in Threads : ThreadOK(u)'
  <2>1. ThreadOK(t)'
    BY <1>6, <1>8, <1>11, PlainOK
  <2>2. \A m \in Routers : InUse(t, m) => router'[m] = router[m]
    BY <1>1, <1>7, FreeToDrop
  <2>3. \A m \in Routers : router[m].st # "none" => router'[m].st # "none"
    BY <1>3, <1>7
  <2> QED
    BY <1>8, <2>1, <2>2, <2>3, OthersOK
<1>13. /\ todo[t] = <<>> /\ todo' = [todo EXCEPT ![t] = LetGo(router[r].c, router[r].loan, router[r].url, TRUE)]
       /\ UNCHANGED <<idle, orphans, loans, cred>> /\ conn' \in [Conns -> Link]
       /\ \A c \in Conns : (conn'[c].st = "open" => conn[c].st = "open") /\ (conn[c].st # "unborn" => conn'[c].st # "unborn")
  BY <1>1 DEF OwnInv, Store
<1> HIDE DEF r
<1> QED
  BY <1>2, <1>7, <1>9, <1>10, <1>11, <1>12, <1>13, LetGoOwn

-----------------------------------------------------------------------------
(* Steps that hand a connection from one owner to another.                 *)

\* A connection is in one of two slots before a step, and after it.
LEMMA TwoSlots ==
    ASSUME NEW c \in Conns, Owned(c), NEW a \in Slots, NEW b \in Slots,
           \A x \in Slots \ {a, b} : Holds(x, c)' <=> Holds(x, c),
           Holds(a, c)' \/ Holds(b, c)' => Holds(a, c) \/ Holds(b, c),
           Holds(a, c)' /\ Holds(b, c)' => a = b,
           conn'[c].st = "open" /\ (Holds(a, c) \/ Holds(b, c)) => Holds(a, c)' \/ Holds(b, c)',
           conn'[c].st = "open" => conn[c].st = "open", conn[c].st # "unborn" => conn'[c].st # "unborn"
    PROVE  Owned(c)'
<1> DEFINE A == {a, b}
<1>1. A \in SUBSET Slots /\ a \in A /\ b \in A /\ (\A x \in A : x = a \/ x = b)
      /\ \A x \in Slots \ A : Holds(x, c)' <=> Holds(x, c)
  OBVIOUS
<1> HIDE DEF A
<1>2. \A x \in A : Holds(x, c)' => \E y \in A : Holds(y, c)
  BY <1>1
<1>3. \A x, y \in A : Holds(x, c)' /\ Holds(y, c)' => x = y
  BY <1>1
<1>4. \A x \in A : conn'[c].st = "open" /\ Holds(x, c) => \E y \in A : Holds(y, c)'
  BY <1>1
<1> QED
  BY <1>1, <1>2, <1>3, <1>4, OwnMoves

\* Where no loan changes hands.
LEMMA LoansKept ==
    ASSUME OwnInv, UNCHANGED <<loans, orphans>>, \A r \in Routers : router'[r].loan = router[r].loan,
           \A u \in Workers : Leaving(u)' = Leaving(u)
    PROVE  \A l \in DOMAIN loans' : LoanOK(l)'
<1> SUFFICES ASSUME NEW l \in DOMAIN loans PROVE LoanOK(l)'
  OBVIOUS
<1>1. UsersOf(l)' = UsersOf(l) /\ LeaversOf(l)' = LeaversOf(l) /\ LostOf(l)' = LostOf(l)
  BY DEF UsersOf, LeaversOf, LostOf
<1> QED
  BY <1>1 DEF OwnInv, LoanOK

\* What is a thread's, or on a list, is no router's.
LEMMA NotRouters ==
    ASSUME OwnInv, NEW c \in Conns, NEW x \in Slots, Holds(x, c), x[1] \notin {"router", "loan"}
    PROVE  \A r \in Routers : router[r].c # c
<1> SUFFICES ASSUME NEW r \in Routers, router[r].c = c PROVE FALSE
  OBVIOUS
<1>1. c # 0 /\ Owned(c)
  BY ConnectionsAssumption DEF Conns, OwnInv
<1>2. PICK y \in Slots : Holds(y, c) /\ y[1] \in {"router", "loan"}
  <2>1. <<"router", r>>[1] = "router" /\ <<"loan", router[r].loan>>[1] = "loan"
    OBVIOUS
  <2> QED
    BY <1>1, <2>1, UserHolds
<1> QED
  BY <1>1, <1>2 DEF Owned

LEMMA BorrowOwn ==
    ASSUME AbortInv, OwnInv, NEW t \in Threads, Borrow(t)
    PROVE  OwnInv'
<1> DEFINE w == [th[t] EXCEPT !.pc = "away", !.c = th[t].new, !.new = 0]
<1>1. th[t].pc = "borrow" /\ UNCHANGED <<conn, idle, orphans, router, loans, todo, cred>>
  BY DEF Borrow, At
<1>2. /\ t \in DOMAIN th /\ DOMAIN th[t] = ThFields /\ th[t].lender = 0 /\ Fit(th[t]) /\ router[th[t].r].st # "none"
  BY <1>1, MyThread
<1>3. th' = [th EXCEPT ![t] = w]
  BY <1>2 DEF Borrow
<1>4. w.pc = "away" /\ w.r = th[t].r /\ w.lender = 0 /\ w.c = th[t].new /\ Fit(w)
  BY <1>1, <1>2, ConnectionsAssumption DEF ThFields, Fit
<1> HIDE DEF w
<1>5. th'[t] = w /\ \A u \in Threads : u # t => th'[u] = th[u]
  BY <1>2, <1>3
<1>6. \A u \in Threads : ThreadOK(u)'
  <2>1. ThreadOK(t)'
    BY <1>1, <1>2, <1>4, <1>5, PlainOK
  <2> QED
    BY <1>1, <1>5, <2>1, OthersOK
<1>7. ASSUME NEW c \in Conns PROVE Owned(c)'
  <2> DEFINE A == {<<"borrow", t>>, <<"away", t>>}
  <2>1. \A x \in Slots \ A : Holds(x, c)' <=> Holds(x, c)
    <3>1. \A u \in Threads : (<<"borrow", u>> \in A /\ <<"away", u>> \in A) \/ th'[u] = th[u]
      BY <1>5
    <3> HIDE DEF A
    <3> QED
      BY <1>1, <3>1, HoldsFrame
  <2>2. /\ Holds(<<"borrow", t>>, c) <=> th[t].new = c
        /\ ~Holds(<<"away", t>>, c)
    BY <1>1, HoldsIs
  <2>3. /\ Holds(<<"away", t>>, c)' <=> th[t].new = c
        /\ ~Holds(<<"borrow", t>>, c)'
    <3>1. th'[t].pc = "away" /\ th'[t].c = th[t].new
      BY <1>4, <1>5
    <3> QED
      BY <3>1, HoldsThen
  <2>4. Owned(c) /\ <<"borrow", t>> \in Slots /\ <<"away", t>> \in Slots
    BY SlotIn DEF OwnInv
  <2> QED
    BY <1>1, <2>1, <2>2, <2>3, <2>4, TwoSlots
<1>8. Store'
  BY <1>1 DEF OwnInv, Store
<1>9. \A r \in Routers : RouterOK(r)'
  BY <1>1 DEF OwnInv, RouterOK
<1>10. \A l \in DOMAIN loans' : LoanOK(l)'
  BY <1>1, LoansKept DEF Leaving
<1>11. NeverClosedUnder'
  BY <1>1 DEF OwnInv, NeverClosedUnder
<1> QED
  BY <1>6, <1>7, <1>8, <1>9, <1>10, <1>11 DEF OwnInv

\* Where no more than a list of things to do changes of the store.
LEMMA StoreTodo ==
    ASSUME OwnInv, UNCHANGED <<conn, idle, orphans, loans, cred>>, NEW u \in Workers, DOMAIN todo' = Workers,
           \A v \in Workers : v # u => todo'[v] = todo[v], TodoOK(todo'[u], Len(loans))
    PROVE  Store'
<1>1. \A v \in Workers : TodoOK(todo'[v], Len(loans'))
  BY DEF OwnInv, Store
<1> QED
  BY <1>1 DEF OwnInv, Store

LEMMA ReturnOwn ==
    ASSUME AbortInv, OwnInv, NEW t \in Threads, Return(t)
    PROVE  OwnInv'
<1> DEFINE w == IF th[t].next = "idle" THEN AtRest ELSE [th[t] EXCEPT !.pc = th[t].next]
           e == Release(th[t].c, th[t].target)
<1>1. /\ th[t].pc = "return" /\ todo[t] = <<>> /\ UNCHANGED <<conn, idle, orphans, router, loans, cred>>
      /\ todo' = [todo EXCEPT ![t] = <<e>>]
  BY DEF Return, At
<1>2. /\ t \in DOMAIN th /\ DOMAIN th[t] = ThFields /\ th[t].lender = 0 /\ Fit(th[t]) /\ router[th[t].r].st # "none"
      /\ th[t].next \in {"idle", "recover", "point", "gohome"} /\ t \in Workers /\ DOMAIN todo = Workers
  BY <1>1, MyThread DEF Connecting, Workers, OwnInv, Store
<1>3. th' = [th EXCEPT ![t] = w]
  BY <1>2 DEF Return
<1>4. w.pc \in {"idle", "recover", "point", "gohome"} /\ (w.pc # "idle" => w.r = th[t].r) /\ w.lender = 0 /\ Fit(w)
  <2>1. CASE th[t].next = "idle"
    BY <2>1, RestFits DEF AtRest
  <2>2. CASE th[t].next # "idle"
    BY <1>1, <1>2, <2>2 DEF ThFields, Fit
  <2> QED
    BY <2>1, <2>2
<1> HIDE DEF w
<1>5. th'[t] = w /\ \A u \in Threads : u # t => th'[u] = th[u]
  BY <1>2, <1>3
<1>6. \A u \in Threads : ThreadOK(u)'
  <2>1. ThreadOK(t)'
    BY <1>1, <1>2, <1>4, <1>5, PlainOK
  <2> QED
    BY <1>1, <1>5, <2>1, OthersOK
<1>7. e \in Item /\ ItemOK(e, 1, Len(loans)) /\ e.c = th[t].c /\ e.loan = 0
  <2>1. e = [op |-> "release", loan |-> 0, spoiled |-> FALSE, c |-> th[t].c, at |-> th[t].target]
    BY DEF Release, Offer
  <2>2. th[t].c \in 0 .. MaxConns /\ th[t].c # 0 /\ th[t].target \in Servers
    BY <1>1, <1>2 DEF Fit
  <2> HIDE DEF e
  <2> QED
    BY <2>1, <2>2 DEF Item, ItemOK
<1> HIDE DEF e
<1>8. TodoOK(<<e>>, Len(loans)) /\ Members(<<e>>) = {th[t].c} /\ <<e>> # <<>> /\ <<e>>[1] = e /\ Members(todo[t]) = {}
  <2>1. Len(loans) \in Nat
    BY DEF OwnInv, Store
  <2> QED
    BY <1>1, <1>7, <2>1, OneThing, NoThing
<1>9. DOMAIN todo' = Workers /\ todo'[t] = <<e>> /\ \A u \in Workers : u # t => todo'[u] = todo[u]
  BY <1>1, <1>2
<1>10. Store'
  BY <1>1, <1>2, <1>8, <1>9, StoreTodo
<1>11. \A u \in Workers : Leaving(u)' = Leaving(u)
  BY <1>1, <1>7, <1>8, <1>9 DEF Leaving
<1>12. ASSUME NEW c \in Conns PROVE Owned(c)'
  <2> DEFINE A == {<<"away", t>>, <<"todo", t>>}
  <2>1. \A x \in Slots \ A : Holds(x, c)' <=> Holds(x, c)
    <3>1. \A u \in Threads : <<"away", u>> \in A \/ th'[u] = th[u]
      BY <1>5
    <3>2. \A u \in Threads : th'[u].pc = "borrow" /\ th'[u].new = c <=> th[u].pc = "borrow" /\ th[u].new = c
      BY <1>1, <1>4, <1>5
    <3>3. \A u \in Workers : <<"todo", u>> \in A \/ todo'[u] = todo[u]
      BY <1>9
    <3> HIDE DEF A
    <3> QED
      BY <1>1, <3>1, <3>2, <3>3, HoldsFrame
  <2>2. /\ Holds(<<"away", t>>, c) <=> th[t].c = c
        /\ ~Holds(<<"todo", t>>, c)
    BY <1>1, <1>8, HoldsIs
  <2>3. /\ Holds(<<"todo", t>>, c)' <=> th[t].c = c
        /\ ~Holds(<<"away", t>>, c)'
    <3>1. th'[t].pc \notin {"away", "return"} /\ Members(todo'[t]) = {th[t].c}
      BY <1>4, <1>5, <1>8, <1>9
    <3> QED
      BY <3>1, HoldsThen
  <2>4. Owned(c) /\ <<"away", t>> \in Slots /\ <<"todo", t>> \in Slots
    BY <1>2, SlotIn DEF OwnInv
  <2> QED
    BY <1>1, <2>1, <2>2, <2>3, <2>4, TwoSlots
<1>13. \A r \in Routers : RouterOK(r)'
  BY <1>1 DEF OwnInv, RouterOK
<1>14. \A l \in DOMAIN loans' : LoanOK(l)'
  BY <1>1, <1>11, LoansKept
<1>15. NeverClosedUnder'
  BY <1>1 DEF OwnInv, NeverClosedUnder
<1> QED
  BY <1>6, <1>10, <1>12, <1>13, <1>14, <1>15 DEF OwnInv

LEMMA FailsOwn ==
    ASSUME AbortInv, OwnInv, NEW t \in Threads, Fails(t)
    PROVE  OwnInv'
<1> DEFINE o == Outcome(t, "recover")
           d == th[t].c
<1>1. /\ Out(t) /\ UNCHANGED <<idle, orphans, router, loans, todo, cred>> /\ th' = o /\ th[t].pc \in {"using", "away"}
  BY DEF Fails, Out
<1>2. PICK how \in {"broken", "dead"} :
          conn' = [conn EXCEPT ![th[t].c] = CASE th[t].pc = "away" -> Closed
                                              [] th[t].pc # "away" /\ @.st = "open" -> [@ EXCEPT !.st = how]
                                              [] OTHER -> @]
  BY Zenon DEF Fails
<1>3. /\ t \in DOMAIN th /\ DOMAIN th[t] = ThFields /\ Fit(th[t]) /\ th[t].lender = 0 /\ router[th[t].r].st # "none"
  BY <1>1, MyThread
<1>4. /\ th[t].pc = "away" => o[t] = [th[t] EXCEPT !.pc = "return", !.next = "recover"]
      /\ th[t].pc = "using" => o[t] = [th[t] EXCEPT !.pc = "recover"]
      /\ \A u \in DOMAIN th : u # t => o[u] = th[u]
  BY <1>3 DEF Outcome
<1>5. /\ th[t].pc = "away" => o[t].pc = "return" /\ o[t].c = th[t].c
      /\ th[t].pc = "using" => o[t].pc = "recover"
      /\ o[t].r = th[t].r /\ o[t].lender = 0 /\ Fit(o[t])
  BY <1>1, <1>3, <1>4 DEF Fit, ThFields
<1>6. th'[t] = o[t] /\ \A u \in Threads : u # t => th'[u] = th[u]
  BY <1>1, <1>3, <1>4 DEF AbortInv, Shapes, Workers
<1> HIDE DEF o
<1>7. \A u \in Threads : ThreadOK(u)'
  <2>1. ThreadOK(t)'
    BY <1>1, <1>3, <1>5, <1>6, PlainOK
  <2> QED
    BY <1>1, <1>6, <2>1, OthersOK
<1>8. conn \in [Conns -> Link] /\ Closed \in Link /\ Closed.st = "shut"
  BY DEF OwnInv, Store, Link, Closed, Unborn
<1>9. /\ DOMAIN conn' = Conns /\ \A c \in Conns : c # d => conn'[c] = conn[c]
      /\ d \in Conns => /\ th[t].pc = "away" => conn'[d] = Closed
                        /\ th[t].pc = "using" /\ conn[d].st = "open" => conn'[d] = [conn[d] EXCEPT !.st = how]
                        /\ th[t].pc = "using" /\ conn[d].st # "open" => conn'[d] = conn[d]
  BY <1>1, <1>2, <1>8
<1>10. d \in Conns => /\ conn'[d] \in Link /\ (conn[d].st # "unborn" => conn'[d].st # "unborn")
                      /\ (conn'[d].st = "open" => conn[d].st = "open")
                      /\ (th[t].pc = "using" /\ conn'[d].st = "shut" => conn[d].st = "shut")
  <2> SUFFICES ASSUME d \in Conns
               PROVE  /\ conn'[d] \in Link /\ (conn[d].st # "unborn" => conn'[d].st # "unborn")
                      /\ (conn'[d].st = "open" => conn[d].st = "open")
                      /\ (th[t].pc = "using" /\ conn'[d].st = "shut" => conn[d].st = "shut")
    OBVIOUS
  <2>1. CASE th[t].pc = "away"
    BY <1>8, <1>9, <2>1
  <2>2. CASE th[t].pc = "using" /\ conn[d].st = "open"
    <3>1. conn[d] \in Link /\ conn'[d] = [conn[d] EXCEPT !.st = how]
      BY <1>8, <1>9, <2>2
    <3>2. conn'[d] \in Link /\ conn'[d].st = how
      BY <3>1 DEF Link
    <3> QED
      BY <2>2, <3>2
  <2>3. CASE th[t].pc = "using" /\ conn[d].st # "open"
    BY <1>8, <1>9, <2>3
  <2> QED
    BY <1>1, <2>1, <2>2, <2>3
<1>11. \A c \in Conns : /\ conn'[c] \in Link /\ (conn[c].st # "unborn" => conn'[c].st # "unborn")
                        /\ (conn'[c].st = "open" => conn[c].st = "open")
  BY <1>8, <1>9, <1>10
<1>12. conn' \in [Conns -> Link]
  <2>1. conn' = [c \in Conns |-> conn'[c]]
    BY <1>2, <1>8
  <2> QED
    BY <1>11, <2>1
<1>13. Store'
  BY <1>1, <1>12 DEF OwnInv, Store
<1>14. ASSUME NEW c \in Conns PROVE Owned(c)'
  <2>1. \A u \in Threads : /\ th'[u].pc = "borrow" /\ th'[u].new = c <=> th[u].pc = "borrow" /\ th[u].new = c
                           /\ th'[u].pc \in {"away", "return"} /\ th'[u].c = c <=> th[u].pc \in {"away", "return"} /\ th[u].c = c
    BY <1>1, <1>5, <1>6
  <2>2. \A x \in Slots \ {} : Holds(x, c)' <=> Holds(x, c)
    BY <1>1, <2>1, HoldsFrame
  <2>3. Owned(c) /\ {} \in SUBSET Slots
    BY DEF OwnInv
  <2> QED
    BY <1>11, <2>2, <2>3, OwnMoves
<1>15. \A r \in Routers : RouterOK(r)'
  BY <1>1 DEF OwnInv, RouterOK
<1>16. \A l \in DOMAIN loans' : LoanOK(l)'
  BY <1>1, LoansKept DEF Leaving
<1>17. NeverClosedUnder'
  <2> SUFFICES ASSUME \A m \in Routers : ~router[m].aborted, NEW m \in Routers, router[m].c # 0
               PROVE  conn'[router[m].c].st # "shut"
    BY <1>1 DEF NeverClosedUnder
  <2>1. conn[router[m].c].st # "shut" /\ router[m].c \in Conns
    BY UserHolds DEF OwnInv, NeverClosedUnder
  <2>2. CASE router[m].c # d
    BY <1>9, <2>1, <2>2
  <2>3. CASE router[m].c = d /\ th[t].pc = "using"
    BY <1>10, <2>1, <2>3
  <2>4. CASE router[m].c = d /\ th[t].pc = "away"
    <3>1. Holds(<<"away", t>>, d) /\ <<"away", t>> \in Slots /\ <<"away", t>>[1] \notin {"router", "loan"}
      BY <2>4, HoldsIs, SlotIn
    <3> QED
      BY <2>1, <2>4, <3>1, NotRouters
  <2> QED
    BY <1>1, <2>2, <2>3, <2>4
<1> QED
  BY <1>7, <1>13, <1>14, <1>15, <1>16, <1>17 DEF OwnInv

\* An abort cuts only where its router is aborted already.
Aborting == \A t \in Threads : th[t].pc = "cut" => router[th[t].r].aborted

LEMMA CutLinkOwn ==
    ASSUME AbortInv, OwnInv, Aborting, NEW t \in Threads, CutLink(t)
    PROVE  OwnInv'
<1>1. th[t].pc = "cut" /\ UNCHANGED <<idle, orphans, router, loans, todo, cred>>
  BY DEF CutLink
<1>2. PICK d : conn' = [conn EXCEPT ![d] = Closed]
  BY DEF CutLink
<1>3. PICK w : th' = [th EXCEPT ![t] = w] /\ Cutter(t, w)
  BY CutLinkIs
<1>4. Fit(w) /\ w.lender = 0 /\ (w.pc = "idle" \/ (w.pc = "cut" /\ w.r = th[t].r))
  BY <1>1, <1>3, AborterFits
<1>5. t \in DOMAIN th /\ th[t].r \in Routers /\ router[th[t].r].st # "none" /\ router[th[t].r].aborted
  BY <1>1, MyThread DEF Aborting
<1>6. th'[t] = w /\ \A u \in Threads : u # t => th'[u] = th[u]
  BY <1>3, <1>5
<1>7. \A u \in Threads : ThreadOK(u)'
  <2>1. ThreadOK(t)'
    BY <1>1, <1>4, <1>5, <1>6, PlainOK
  <2> QED
    BY <1>1, <1>6, <2>1, OthersOK
<1>8. conn \in [Conns -> Link] /\ Closed \in Link /\ Closed.st = "shut"
  BY DEF OwnInv, Store, Link, Closed, Unborn
<1>9. conn' \in [Conns -> Link] /\ \A c \in Conns : conn'[c] = conn[c] \/ conn'[c].st = "shut"
  BY <1>2, <1>8
<1>10. Store'
  BY <1>1, <1>9 DEF OwnInv, Store
<1>11. ASSUME NEW c \in Conns PROVE Owned(c)'
  <2>1. \A u \in Threads : /\ th'[u].pc = "borrow" /\ th'[u].new = c <=> th[u].pc = "borrow" /\ th[u].new = c
                           /\ th'[u].pc \in {"away", "return"} /\ th'[u].c = c <=> th[u].pc \in {"away", "return"} /\ th[u].c = c
    BY <1>1, <1>4, <1>6
  <2>2. \A x \in Slots \ {} : Holds(x, c)' <=> Holds(x, c)
    BY <1>1, <2>1, HoldsFrame
  <2>3. Owned(c) /\ {} \in SUBSET Slots
    BY DEF OwnInv
  <2> QED
    BY <1>9, <2>2, <2>3, OwnMoves
<1>12. \A r \in Routers : RouterOK(r)'
  BY <1>1 DEF OwnInv, RouterOK
<1>13. \A l \in DOMAIN loans' : LoanOK(l)'
  BY <1>1, LoansKept DEF Leaving
<1>14. NeverClosedUnder'
  BY <1>1, <1>5 DEF NeverClosedUnder
<1> QED
  BY <1>7, <1>10, <1>11, <1>12, <1>13, <1>14 DEF OwnInv

-----------------------------------------------------------------------------
(* What is on the lists of things to do.                                   *)

LEMMA FirstThing ==
    ASSUME OwnInv, NEW u \in Workers, todo[u] # <<>>, NEW e, e = Head(todo[u])
    PROVE  /\ TodoOK(todo[u], Len(loans)) /\ Len(loans) \in Nat /\ e = todo[u][1] /\ e \in Item /\ ItemOK(e, 1, Len(loans))
           /\ Members(todo[u]) = {e.c} \cup Rest(todo[u]) /\ Leaving(u) = e.loan
           /\ e.c # 0 => e.c \notin Rest(todo[u])
           /\ \A c \in Rest(todo[u]) : c \in Conns
<1>1. TodoOK(todo[u], Len(loans)) /\ Len(loans) \in Nat
  BY DEF OwnInv, Store
<1>2. PICK s \in Seq(Item) : s = todo[u] /\ s # <<>> /\ Distinct(s) /\ \A i \in DOMAIN s : ItemOK(s[i], i, Len(loans))
  BY <1>1 DEF TodoOK
<1>3. Len(s) \in Nat /\ Len(s) >= 1 /\ DOMAIN s = 1 .. Len(s) /\ Head(s) = s[1] /\ s[1] \in Item /\ 1 \in DOMAIN s
  BY <1>2
<1>4. e = s[1] /\ ItemOK(e, 1, Len(loans))
  BY <1>2, <1>3
<1>5. \A i \in DOMAIN s : i = 1 \/ i \in 2 .. Len(s)
  BY <1>3
<1>6. \A i \in 2 .. Len(s) : i \in DOMAIN s /\ i # 1 /\ s[i].c # 0 /\ s[i] \in Item
  BY <1>2, <1>3 DEF ItemOK
<1>7. Members(s) = {e.c} \cup Rest(s)
  <2>1. \A c \in Members(s) : c \in {e.c} \cup Rest(s)
    BY <1>4, <1>5 DEF Members, Rest
  <2>2. \A c \in {e.c} \cup Rest(s) : c \in Members(s)
    BY <1>3, <1>4, <1>6 DEF Members, Rest
  <2> QED
    BY <2>1, <2>2
<1>8. e.c # 0 => e.c \notin Rest(s)
  <2> SUFFICES ASSUME e.c # 0, e.c \in Rest(s) PROVE FALSE
    OBVIOUS
  <2>1. PICK i \in 2 .. Len(s) : s[i].c = e.c
    BY DEF Rest
  <2> QED
    BY <1>2, <1>3, <1>4, <1>6, <2>1 DEF Distinct
<1>9. \A c \in Rest(s) : c \in Conns
  <2> SUFFICES ASSUME NEW c \in Rest(s) PROVE c \in Conns
    OBVIOUS
  <2>1. PICK i \in 2 .. Len(s) : s[i].c = c
    BY DEF Rest
  <2>2. s[i].c # 0 /\ s[i].c \in 0 .. MaxConns
    BY <1>6, <2>1 DEF Item
  <2> QED
    BY <2>1, <2>2, ConnectionsAssumption DEF Conns
<1>10. Leaving(u) = e.loan
  BY <1>2, <1>4 DEF Leaving
<1> QED
  BY <1>1, <1>2, <1>3, <1>4, <1>7, <1>8, <1>9, <1>10

\* A worker does the first thing on its list, which leaves it m to do.
LEMMA TodoStep ==
    ASSUME OwnInv, NEW u \in Workers, todo[u] # <<>>, NEW m \in Seq(Item), todo' = Then(u, m), Distinct(m),
           \A i \in DOMAIN m : Plain(m[i]), Members(m) \cap Rest(todo[u]) = {}
    PROVE  /\ DOMAIN todo' = Workers /\ (\A v \in Workers : v # u => todo'[v] = todo[v]) /\ TodoOK(todo'[u], Len(loans))
           /\ Members(todo'[u]) = Members(m) \cup Rest(todo[u])
           /\ Leaving(u)' = 0 /\ \A v \in Workers : v # u => Leaving(v)' = Leaving(v)
<1>1. DOMAIN todo = Workers /\ TodoOK(todo[u], Len(loans)) /\ Len(loans) \in Nat
  BY DEF OwnInv, Store
<1>2. PICK w : w = m \o Tail(todo[u])
  OBVIOUS
<1>3. TodoOK(w, Len(loans)) /\ Members(w) = Members(m) \cup Rest(todo[u]) /\ \A i \in DOMAIN w : Plain(w[i])
  BY <1>1, <1>2, JoinTodo
<1>4. DOMAIN todo' = Workers /\ todo'[u] = w /\ \A v \in Workers : v # u => todo'[v] = todo[v]
  BY <1>1, <1>2 DEF Then
<1>5. w # <<>> => 1 \in DOMAIN w
  <2>1. w \in Seq(Item)
    BY <1>3 DEF TodoOK
  <2> QED
    BY <2>1
<1>6. Leaving(u)' = 0
  BY <1>3, <1>4, <1>5 DEF Leaving, Plain
<1>7. \A v \in Workers : v # u => Leaving(v)' = Leaving(v)
  BY <1>4 DEF Leaving
<1> QED
  BY <1>3, <1>4, <1>6, <1>7

\* Nothing more.
LEMMA NothingMore ==
    <<>> \in Seq(Item) /\ Distinct(<<>>) /\ (\A i \in DOMAIN <<>> : Plain(<<>>[i])) /\ Members(<<>>) = {}
BY NoThing DEF TodoOK, Distinct

\* One thing more.
LEMMA OneOffer ==
    ASSUME NEW c \in Conns, NEW e, e = Shut(c) \/ (\E at \in Servers : e = Release(c, at) \/ e = Keep(c, at))
    PROVE  /\ <<e>> \in Seq(Item) /\ Distinct(<<e>>) /\ (\A i \in DOMAIN <<e>> : Plain(<<e>>[i])) /\ Members(<<e>>) = {c}
           /\ e \in Item /\ e.c = c /\ e.loan = 0 /\ Plain(e)
<1>1. c # 0 /\ c \in 0 .. MaxConns
  BY ConnectionsAssumption DEF Conns
<1>2. PICK op \in {"close", "release", "keep"}, at \in Servers \cup {0} : e = Offer(op, c, at) /\ (op # "close" => at \in Servers)
  BY DEF Shut, Release, Keep
<1>3. e = [op |-> op, loan |-> 0, spoiled |-> FALSE, c |-> c, at |-> at]
  BY <1>2 DEF Offer
<1>4. e \in Item /\ Plain(e) /\ e.c = c /\ e.loan = 0
  BY <1>1, <1>2, <1>3 DEF Item, Plain
<1>5. ItemOK(e, 1, 0)
  BY <1>4 DEF ItemOK, Plain
<1>6. TodoOK(<<e>>, 0) /\ Members(<<e>>) = {c} /\ \A i \in DOMAIN <<e>> : <<e>>[i] = e
  BY <1>4, <1>5, OneThing
<1> QED
  BY <1>4, <1>6 DEF TodoOK

LEMMA CloseConnOwn ==
    ASSUME AbortInv, OwnInv, NEW u \in Workers, CloseConn(u)
    PROVE  OwnInv'
<1>1. PICK e : e = Head(todo[u])
  OBVIOUS
<1>2. /\ todo[u] # <<>> /\ e.op = "close" /\ conn' = [conn EXCEPT ![e.c] = Closed] /\ todo' = Then(u, <<>>)
      /\ UNCHANGED <<idle, orphans, router, loans, th, cred>>
  BY <1>1 DEF CloseConn, Doing
<1>3. /\ e \in Item /\ ItemOK(e, 1, Len(loans)) /\ Leaving(u) = e.loan /\ (e.c # 0 => e.c \notin Rest(todo[u]))
      /\ Members(todo[u]) = {e.c} \cup Rest(todo[u])
  BY <1>1, <1>2, FirstThing
<1>4. e.c \in Conns /\ Leaving(u) = 0 /\ e.c \notin Rest(todo[u])
  BY <1>2, <1>3, ConnectionsAssumption DEF ItemOK, Item, Conns
<1>5. /\ DOMAIN todo' = Workers /\ (\A v \in Workers : v # u => todo'[v] = todo[v]) /\ TodoOK(todo'[u], Len(loans))
      /\ Members(todo'[u]) = Rest(todo[u]) /\ \A v \in Workers : Leaving(v)' = Leaving(v)
  <2>1. Members(<<>>) \cap Rest(todo[u]) = {}
    BY NothingMore
  <2> QED
    BY <1>2, <1>4, <2>1, NothingMore, TodoStep
<1>6. conn \in [Conns -> Link] /\ Closed \in Link /\ Closed.st = "shut"
  BY DEF OwnInv, Store, Link, Closed, Unborn
<1>7. conn' \in [Conns -> Link] /\ conn'[e.c].st = "shut" /\ \A c \in Conns : c # e.c => conn'[c] = conn[c]
  BY <1>2, <1>4, <1>6
<1>8. Store'
  <2>1. \A v \in Workers : TodoOK(todo'[v], Len(loans'))
    BY <1>2, <1>5 DEF OwnInv, Store
  <2> QED
    BY <1>2, <1>5, <1>7, <2>1 DEF OwnInv, Store
<1>9. ASSUME NEW c \in Conns PROVE Owned(c)'
  <2> DEFINE a == <<"todo", u>>
  <2>1. \A x \in Slots \ {a, a} : Holds(x, c)' <=> Holds(x, c)
    <3> DEFINE A == {a, a}
    <3>1. \A v \in Workers : <<"todo", v>> \in A \/ todo'[v] = todo[v]
      BY <1>5
    <3> HIDE DEF A
    <3>2. \A x \in Slots \ A : Holds(x, c)' <=> Holds(x, c)
      BY <1>2, <3>1, HoldsFrame
    <3> QED
      BY <3>2 DEF A
  <2>2. Holds(a, c) <=> c = e.c \/ c \in Rest(todo[u])
    BY <1>3, HoldsIs
  <2>3. Holds(a, c)' <=> c \in Rest(todo[u])
    <3>1. Members(todo'[u]) = Rest(todo[u])
      BY <1>5
    <3>2. Holds(<<"todo", u>>, c)' <=> c \in Rest(todo[u])
      BY <3>1, TodoHolds
    <3> QED
      BY <3>2
  <2>4. Owned(c) /\ a \in Slots
    BY SlotIn DEF OwnInv
  <2>5. c = e.c => conn'[c].st # "open" /\ conn'[c].st # "unborn"
    BY <1>7
  <2>6. c # e.c => conn'[c] = conn[c]
    BY <1>7
  <2> HIDE DEF a
  <2> QED
    BY <2>1, <2>2, <2>3, <2>4, <2>5, <2>6, TwoSlots
<1>10. \A r \in Routers : RouterOK(r)'
  BY <1>2 DEF OwnInv, RouterOK
<1>11. \A t \in Threads : ThreadOK(t)'
  BY <1>2 DEF OwnInv, ThreadOK, Top
<1>12. \A l \in DOMAIN loans' : LoanOK(l)'
  BY <1>2, <1>5, LoansKept
<1>13. NeverClosedUnder'
  <2> SUFFICES ASSUME \A m \in Routers : ~router[m].aborted, NEW m \in Routers, router[m].c # 0
               PROVE  conn'[router[m].c].st # "shut"
    BY <1>2 DEF NeverClosedUnder
  <2>1. conn[router[m].c].st # "shut" /\ router[m].c \in Conns
    BY UserHolds DEF OwnInv, NeverClosedUnder
  <2>2. Holds(<<"todo", u>>, e.c) /\ <<"todo", u>> \in Slots /\ <<"todo", u>>[1] \notin {"router", "loan"}
    BY <1>3, HoldsIs, SlotIn
  <2>3. router[m].c # e.c
    BY <1>4, <2>2, NotRouters
  <2> QED
    BY <1>7, <2>1, <2>3
<1> QED
  BY <1>8, <1>9, <1>10, <1>11, <1>12, <1>13 DEF OwnInv

LEMMA LeaveLoanOwn ==
    ASSUME AbortInv, OwnInv, NEW u \in Workers, LeaveLoan(u)
    PROVE  OwnInv'
<1>1. PICK e : e = Head(todo[u])
  OBVIOUS
<1> DEFINE l == e.loan
           left == [loans[l] EXCEPT !.holders = @ - 1, !.spoiled = @ \/ e.spoiled]
           m == CASE left.holders > 0 -> <<>>
                  [] left.holders = 0 /\ left.spoiled -> <<Shut(left.c)>>
                  [] OTHER -> <<Release(left.c, left.at)>>
<1>2. /\ todo[u] # <<>> /\ e.op = "leave" /\ loans' = [loans EXCEPT ![l] = IF left.holders = 0 THEN Returned ELSE left]
      /\ todo' = Then(u, m) /\ UNCHANGED <<conn, idle, orphans, router, th, cred>>
  BY <1>1 DEF LeaveLoan, Doing
<1>3. /\ e \in Item /\ ItemOK(e, 1, Len(loans)) /\ Leaving(u) = l /\ Members(todo[u]) = {e.c} \cup Rest(todo[u])
      /\ \A c \in Rest(todo[u]) : c \in Conns
  BY <1>1, <1>2, FirstThing
<1>4. e.c = 0 /\ loans \in Seq(Loan) /\ l \in DOMAIN loans /\ e.spoiled \in BOOLEAN
  <2>1. loans \in Seq(Loan) /\ e.c = 0 /\ l \in 1 .. Len(loans) /\ e.spoiled \in BOOLEAN
    BY <1>2, <1>3 DEF OwnInv, Store, ItemOK, Item
  <2> QED
    BY <2>1
<1>5. loans[l] \in Loan /\ LoanOK(l) /\ l \in Nat /\ l # 0 /\ loans[l].holders > 0
  BY <1>3, <1>4, HeldLoan
<1> DEFINE h == loans[l].holders
<1>6. /\ h \in Nat /\ h > 0 /\ left \in Loan /\ left.holders = h - 1 /\ left.c = loans[l].c /\ left.at = loans[l].at
      /\ left.spoiled \in BOOLEAN /\ loans[l].c \in Conns /\ loans[l].at \in Servers
  <2>1. PICK y \in Loan : y = loans[l]
    BY <1>5
  <2>2. /\ y.holders \in Nat /\ y.holders > 0 /\ y.c \in 0 .. MaxConns /\ y.c # 0 /\ y.at \in Servers /\ y.spoiled \in BOOLEAN
    BY <1>5, <2>1 DEF Loan, LoanOK
  <2>3. PICK sp \in BOOLEAN : sp = (y.spoiled \/ e.spoiled)
    BY <1>4, <2>2
  <2>4. left = [y EXCEPT !.holders = y.holders - 1, !.spoiled = sp]
    BY <2>1, <2>3
  <2> HIDE DEF left
  <2>5. left \in Loan /\ left.holders = y.holders - 1 /\ left.c = y.c /\ left.at = y.at /\ left.spoiled \in BOOLEAN
    <3>1. y.holders - 1 \in Nat
      BY <2>2
    <3>2. PICK n \in Nat : n = y.holders - 1
      BY <3>1
    <3>3. left = [y EXCEPT !.holders = n, !.spoiled = sp]
      BY <2>4, <3>2
    <3>4. left.holders = n /\ left.c = y.c /\ left.at = y.at /\ left.spoiled = sp
      BY <3>3 DEF Loan
    <3>5. left \in Loan
      BY <3>3 DEF Loan
    <3> QED
      BY <3>2, <3>4, <3>5
  <2> QED
    BY <2>1, <2>2, <2>5, ConnectionsAssumption DEF Conns
<1> HIDE DEF left
<1>7. /\ h > 1 => m = <<>> /\ loans' = [loans EXCEPT ![l] = left]
      /\ h = 1 => loans' = [loans EXCEPT ![l] = Returned] /\ \E x : m = <<x>> /\ (x = Shut(left.c) \/ x = Release(left.c, left.at))
  <2>1. CASE h > 1
    <3>1. left.holders > 0 /\ left.holders # 0 /\ h # 1
      BY <1>6, <2>1
    <3>2. m = <<>>
      BY <3>1, Zenon
    <3>3. loans' = [loans EXCEPT ![l] = left]
      BY <1>2, <3>1, Zenon
    <3> QED
      BY <3>1, <3>2, <3>3
  <2>2. CASE h = 1
    <3>1. left.holders = 0 /\ loans' = [loans EXCEPT ![l] = Returned]
      BY <1>2, <1>6, <2>2
    <3>2. m = IF left.spoiled THEN <<Shut(left.c)>> ELSE <<Release(left.c, left.at)>>
      BY <1>6, <3>1
    <3> QED
      BY <2>2, <3>1, <3>2
  <2> QED
    BY <1>6, <2>1, <2>2
<1> HIDE DEF m, h
<1>8. Returned \in Loan /\ Returned.holders = 0 /\ Returned.c = 0
  BY ConnectionsAssumption DEF Returned, Loan
<1>9. /\ loans' \in Seq(Loan) /\ Len(loans') = Len(loans) /\ DOMAIN loans' = DOMAIN loans
      /\ loans'[l] = (IF h = 1 THEN Returned ELSE left) /\ \A k \in DOMAIN loans : k # l => loans'[k] = loans[k]
  <2>1. h = 1 \/ h > 1
    BY <1>6
  <2>2. ASSUME NEW x \in Loan, loans' = [loans EXCEPT ![l] = x]
        PROVE  /\ loans' \in Seq(Loan) /\ Len(loans') = Len(loans) /\ DOMAIN loans' = DOMAIN loans
               /\ loans'[l] = x /\ \A k \in DOMAIN loans : k # l => loans'[k] = loans[k]
    BY <1>4, <2>2
  <2> QED
    BY <1>6, <1>7, <1>8, <2>1, <2>2
<1>10. <<"loan", l>> \in Slots /\ Holds(<<"loan", l>>, loans[l].c) /\ <<"todo", u>> \in Slots
       /\ \A c \in Conns : Holds(<<"todo", u>>, c) <=> c \in Rest(todo[u])
  <2>1. 0 \notin Conns
    BY DEF Conns
  <2> QED
    BY <1>3, <1>4, <1>5, <2>1, SlotIn, HoldsIs
<1>11. loans[l].c \notin Rest(todo[u])
  <2>1. Owned(loans[l].c) /\ <<"loan", l>> # <<"todo", u>>
    BY <1>6 DEF OwnInv
  <2> QED
    BY <1>6, <1>10, <2>1 DEF Owned
<1>12. /\ m \in Seq(Item) /\ Distinct(m) /\ (\A i \in DOMAIN m : Plain(m[i]))
       /\ h > 1 => Members(m) = {}
       /\ h = 1 => Members(m) = {loans[l].c}
  <2>1. CASE h > 1
    BY <1>6, <1>7, <2>1, NothingMore
  <2>2. CASE h = 1
    <3>1. PICK x : m = <<x>> /\ (x = Shut(loans[l].c) \/ x = Release(loans[l].c, loans[l].at))
      BY <1>6, <1>7, <2>2
    <3> QED
      BY <1>6, <2>2, <3>1, OneOffer
  <2> QED
    BY <1>6, <2>1, <2>2
<1>13. /\ DOMAIN todo' = Workers /\ (\A v \in Workers : v # u => todo'[v] = todo[v]) /\ TodoOK(todo'[u], Len(loans))
       /\ Members(todo'[u]) = Members(m) \cup Rest(todo[u])
       /\ Leaving(u)' = 0 /\ \A v \in Workers : v # u => Leaving(v)' = Leaving(v)
  <2>1. Members(m) \cap Rest(todo[u]) = {}
    BY <1>6, <1>11, <1>12
  <2> QED
    BY <1>2, <1>12, <2>1, TodoStep
<1>14. Store'
  <2>1. \A v \in Workers : TodoOK(todo'[v], Len(loans'))
    BY <1>9, <1>13 DEF OwnInv, Store
  <2> QED
    BY <1>2, <1>9, <1>13, <2>1 DEF OwnInv, Store
<1>15. /\ IsFiniteSet(LeaversOf(l)) /\ u \in LeaversOf(l) /\ LeaversOf(l)' = LeaversOf(l) \ {u}
       /\ UsersOf(l)' = UsersOf(l) /\ LostOf(l)' = LostOf(l)
  <2>1. u \in LeaversOf(l) /\ LeaversOf(l)' = LeaversOf(l) \ {u}
    BY <1>3, <1>5, <1>13 DEF LeaversOf
  <2>2. UsersOf(l)' = UsersOf(l) /\ LostOf(l)' = LostOf(l)
    BY <1>2 DEF UsersOf, LostOf
  <2> QED
    BY <2>1, <2>2, HoldersFinite
<1>16. h - 1 = Cardinality(UsersOf(l)') + Cardinality(LostOf(l)') + Cardinality(LeaversOf(l)')
  <2>1. Cardinality(LeaversOf(l)') = Cardinality(LeaversOf(l)) - 1 /\ Cardinality(LeaversOf(l)) \in Nat
    BY <1>15, OneFewer, HoldersFinite
  <2>2. h = Cardinality(UsersOf(l)) + Cardinality(LostOf(l)) + Cardinality(LeaversOf(l))
    BY <1>5 DEF LoanOK, h
  <2>3. Cardinality(UsersOf(l)) \in Nat /\ Cardinality(LostOf(l)) \in Nat
    BY HoldersFinite
  <2> QED
    BY <1>15, <2>1, <2>2, <2>3
<1>17. ASSUME NEW k \in DOMAIN loans' PROVE LoanOK(k)'
  <2>1. CASE k = l
    BY <1>6, <1>8, <1>9, <1>16, <2>1, ConnectionsAssumption DEF LoanOK, Conns
  <2>2. CASE k # l
    <3>1. loans'[k] = loans[k] /\ LoanOK(k) /\ k # 0
      BY <1>9, <2>2, HeldLoan
    <3>2. LeaversOf(k)' = LeaversOf(k)
      BY <1>3, <1>13, <2>2, <3>1 DEF LeaversOf
    <3>3. UsersOf(k)' = UsersOf(k) /\ LostOf(k)' = LostOf(k)
      BY <1>2 DEF UsersOf, LostOf
    <3> QED
      BY <3>1, <3>2, <3>3 DEF LoanOK
  <2> QED
    BY <2>1, <2>2
<1>18. h = 1 => UsersOf(l) = {}
  <2>1. Cardinality(UsersOf(l)) \in Nat /\ Cardinality(LostOf(l)) \in Nat /\ Cardinality(LeaversOf(l)') \in Nat
    <3>1. IsFiniteSet(LeaversOf(l)')
      BY <1>15, OneFewer
    <3> QED
      BY <3>1, HoldersFinite, FS_CardinalityType
  <2>2. h = 1 => Cardinality(UsersOf(l)) = 0
    <3>1. \A a, b, d \in Nat : a + b + d = 0 => a = 0
      OBVIOUS
    <3> QED
      BY <1>15, <1>16, <2>1, <3>1
  <2> QED
    BY <2>2, HoldersFinite, FS_EmptySet
<1>19. ASSUME NEW r \in Routers PROVE RouterOK(r)'
  <2>1. RouterOK(r)
    BY DEF OwnInv
  <2>2. router[r].loan = l => loans'[l].c = loans[l].c
    BY <1>6, <1>9, <1>18 DEF UsersOf
  <2>3. router[r].loan # 0 => router[r].loan \in DOMAIN loans
    BY <1>4, <2>1 DEF RouterOK
  <2>4. router[r].loan # 0 => loans'[router[r].loan].c = loans[router[r].loan].c
    BY <1>9, <2>2, <2>3
  <2> QED
    BY <1>2, <1>9, <2>1, <2>4 DEF RouterOK
<1>20. ASSUME NEW c \in Conns PROVE Owned(c)'
  <2> DEFINE a == <<"loan", l>>
             b == <<"todo", u>>
  <2>1. \A x \in Slots \ {a, b} : Holds(x, c)' <=> Holds(x, c)
    <3> DEFINE A == {a, b}
    <3>1. \A v \in Workers : <<"todo", v>> \in A \/ todo'[v] = todo[v]
      BY <1>13
    <3>2. \A k \in Nat : <<"loan", k>> \in A \/ (k \in DOMAIN loans' /\ loans'[k].c = c <=> k \in DOMAIN loans /\ loans[k].c = c)
      BY <1>9
    <3> HIDE DEF A
    <3>3. \A x \in Slots \ A : Holds(x, c)' <=> Holds(x, c)
      BY <1>2, <3>1, <3>2, HoldsFrame
    <3> QED
      BY <3>3 DEF A
  <2>2. Holds(a, c) <=> c = loans[l].c
    BY <1>4, HoldsIs
  <2>3. Holds(b, c) <=> c \in Rest(todo[u])
    BY <1>10
  <2>4. Holds(b, c)' <=> c \in Members(m) \cup Rest(todo[u])
    BY <1>13, HoldsThen
  <2>5. Holds(a, c)' <=> c = loans[l].c /\ h # 1
    <3>1. 0 \notin Conns
      BY DEF Conns
    <3>2. Holds(a, c)' <=> loans'[l].c = c
      BY <1>4, <1>9, HoldsThen
    <3> QED
      BY <1>6, <1>8, <1>9, <3>1, <3>2
  <2>6. Owned(c) /\ conn' = conn
    BY <1>2 DEF OwnInv
  <2> HIDE DEF a, b
  <2>7. a \in Slots /\ b \in Slots
    BY <1>10 DEF a, b
  <2>8. h = 1 \/ h > 1
    BY <1>6
  <2>9. Holds(a, c)' \/ Holds(b, c)' <=> Holds(a, c) \/ Holds(b, c)
    BY <1>12, <2>2, <2>3, <2>4, <2>5, <2>8
  <2>10. ~(Holds(a, c)' /\ Holds(b, c)')
    BY <1>11, <1>12, <2>4, <2>5, <2>8
  <2> QED
    BY <2>1, <2>6, <2>7, <2>9, <2>10, TwoSlots
<1>21. \A t \in Threads : ThreadOK(t)'
  BY <1>2 DEF OwnInv, ThreadOK, Top
<1>22. NeverClosedUnder'
  BY <1>2 DEF OwnInv, NeverClosedUnder
<1> QED
  BY <1>14, <1>17, <1>19, <1>20, <1>21, <1>22 DEF OwnInv

-----------------------------------------------------------------------------
(* The collector's queue.                                                  *)

LEMMA OrphansTail ==
    ASSUME NEW s \in Seq(Orphan), s # <<>>, NEW w, w = Tail(s),
           \A i, j \in DOMAIN s : s[i].c = s[j].c /\ s[i].loan = 0 /\ s[j].loan = 0 => i = j
    PROVE  /\ w \in Seq(Orphan) /\ s[1] \in Orphan /\ (\A j \in DOMAIN w : \E i \in DOMAIN s : w[j] = s[i])
           /\ \A i, j \in DOMAIN w : w[i].c = w[j].c /\ w[i].loan = 0 /\ w[j].loan = 0 => i = j
           /\ \A c : Adrift(s, c) <=> (s[1].c = c /\ s[1].loan = 0) \/ Adrift(w, c)
           /\ s[1].loan = 0 => ~Adrift(w, s[1].c)
<1>1. /\ w \in Seq(Orphan) /\ Len(s) \in Nat /\ Len(s) >= 1 /\ DOMAIN s = 1 .. Len(s) /\ DOMAIN w = 1 .. Len(s) - 1
      /\ s[1] \in Orphan /\ \A i \in 1 .. Len(s) - 1 : w[i] = s[i + 1]
  OBVIOUS
<1>2. \A i \in DOMAIN w : i + 1 \in DOMAIN s /\ i + 1 # 1 /\ w[i] = s[i + 1]
  BY <1>1
<1>3. \A i \in DOMAIN s : i = 1 \/ (i - 1 \in DOMAIN w /\ w[i - 1] = s[i])
  <2> SUFFICES ASSUME NEW i \in DOMAIN s, i # 1 PROVE i - 1 \in DOMAIN w /\ w[i - 1] = s[i]
    OBVIOUS
  <2>1. i - 1 \in 1 .. Len(s) - 1 /\ (i - 1) + 1 = i
    BY <1>1
  <2> QED
    BY <1>1, <2>1
<1>4. \A i, j \in DOMAIN w : w[i].c = w[j].c /\ w[i].loan = 0 /\ w[j].loan = 0 => i = j
  <2> SUFFICES ASSUME NEW i \in DOMAIN w, NEW j \in DOMAIN w, w[i].c = w[j].c, w[i].loan = 0, w[j].loan = 0 PROVE i = j
    OBVIOUS
  <2>1. i + 1 = j + 1
    BY <1>2
  <2> QED
    BY <1>1, <2>1
<1>5. s[1].loan = 0 => ~Adrift(w, s[1].c)
  <2> SUFFICES ASSUME s[1].loan = 0, NEW i \in DOMAIN w, w[i].c = s[1].c, w[i].loan = 0 PROVE FALSE
    BY DEF Adrift
  <2>1. 1 \in DOMAIN s
    BY <1>1
  <2> QED
    BY <1>2, <2>1
<1>6. ASSUME NEW c
      PROVE  Adrift(s, c) <=> (s[1].c = c /\ s[1].loan = 0) \/ Adrift(w, c)
  <2>1. 1 \in DOMAIN s
    BY <1>1
  <2> QED
    BY <1>2, <1>3, <2>1 DEF Adrift
<1> QED
  BY <1>1, <1>2, <1>4, <1>5, <1>6

LEMMA ReapOwn ==
    ASSUME AbortInv, OwnInv, NEW u \in Workers, Reap(u)
    PROVE  OwnInv'
<1>1. PICK o : o = Head(orphans)
  OBVIOUS
<1>2. PICK e : e = IF o.loan # 0 THEN Leave(o.loan, FALSE) ELSE Keep(o.c, o.at)
  OBVIOUS
<1>3. /\ orphans # <<>> /\ orphans' = Tail(orphans) /\ UNCHANGED <<conn, idle, router, loans, th, cred>>
      /\ todo' = [todo EXCEPT ![u] = <<e>> \o todo[u]]
      /\ todo[u] = <<>> \/ (todo[u] # <<>> /\ Head(todo[u]).op = "release")
  BY <1>1, <1>2 DEF Reap, Reaping, Doing
<1>4. /\ orphans \in Seq(Orphan) /\ (\A i \in DOMAIN orphans : orphans[i].loan \in 0 .. Len(loans))
      /\ (\A i, j \in DOMAIN orphans : orphans[i].c = orphans[j].c /\ orphans[i].loan = 0 /\ orphans[j].loan = 0 => i = j)
      /\ DOMAIN todo = Workers /\ TodoOK(todo[u], Len(loans)) /\ Len(loans) \in Nat
  BY DEF OwnInv, Store
<1>5. o = orphans[1] /\ o \in Orphan /\ o.loan \in 0 .. Len(loans) /\ o.c \in Conns /\ o.at \in Servers
  <2>1. 1 \in DOMAIN orphans /\ orphans[1] \in Orphan /\ Head(orphans) = orphans[1]
    BY <1>3, <1>4
  <2> QED
    BY <1>1, <1>4, <2>1 DEF Orphan
<1>6. /\ orphans' \in Seq(Orphan) /\ (\A j \in DOMAIN orphans' : \E i \in DOMAIN orphans : orphans'[j] = orphans[i])
      /\ \A i, j \in DOMAIN orphans' : orphans'[i].c = orphans'[j].c /\ orphans'[i].loan = 0 /\ orphans'[j].loan = 0 => i = j
      /\ \A c : Adrift(orphans, c) <=> (o.c = c /\ o.loan = 0) \/ Adrift(orphans', c)
      /\ o.loan = 0 => ~Adrift(orphans', o.c)
  <2>1. /\ orphans \in Seq(Orphan) /\ orphans # <<>> /\ orphans' = Tail(orphans)
        /\ \A i, j \in DOMAIN orphans : orphans[i].c = orphans[j].c /\ orphans[i].loan = 0 /\ orphans[j].loan = 0 => i = j
    BY <1>3, <1>4, Zenon
  <2>2. orphans' \in Seq(Orphan)
    BY <2>1, OrphansTail
  <2>3. \A j \in DOMAIN orphans' : \E i \in DOMAIN orphans : orphans'[j] = orphans[i]
    BY <2>1, OrphansTail
  <2>4. \A i, j \in DOMAIN orphans' : orphans'[i].c = orphans'[j].c /\ orphans'[i].loan = 0 /\ orphans'[j].loan = 0 => i = j
    BY <2>1, OrphansTail
  <2>5. ASSUME NEW c
        PROVE  Adrift(orphans, c) <=> (orphans[1].c = c /\ orphans[1].loan = 0) \/ Adrift(orphans', c)
    BY <2>1, OrphansTail
  <2>6. orphans[1].loan = 0 => ~Adrift(orphans', orphans[1].c)
    BY <2>1, OrphansTail
  <2> QED
    BY <1>5, <2>2, <2>3, <2>4, <2>5, <2>6, Zenon
<1>7. \A j \in DOMAIN orphans' : orphans'[j].loan \in 0 .. Len(loans)
  BY <1>4, <1>6
<1>8. Leaving(u) = 0 /\ 0 \notin Members(todo[u]) /\ (todo[u] = <<>> \/ todo[u][1].op # "leave")
  <2>1. CASE todo[u] = <<>>
    BY <1>4, <2>1, NoThing DEF Leaving
  <2>2. CASE todo[u] # <<>> /\ Head(todo[u]).op = "release"
    <3>1. PICK h : h = Head(todo[u])
      OBVIOUS
    <3>2. /\ h = todo[u][1] /\ h.op = "release" /\ ItemOK(h, 1, Len(loans)) /\ Members(todo[u]) = {h.c} \cup Rest(todo[u])
          /\ Leaving(u) = h.loan /\ \A c \in Rest(todo[u]) : c \in Conns
      BY <2>2, <3>1, FirstThing
    <3>3. h.c # 0 /\ h.loan = 0 /\ 0 \notin Conns
      BY <3>2 DEF ItemOK, Conns
    <3> QED
      BY <3>2, <3>3
  <2> QED
    BY <1>3, <2>1, <2>2
<1>9. <<"orphans", 0>> \in Slots /\ <<"todo", u>> \in Slots /\ (o.loan = 0 => Holds(<<"orphans", 0>>, o.c))
  <2>1. o.loan = 0 => Adrift(orphans, o.c)
    BY <1>6
  <2> QED
    BY <2>1, SlotIn, OrphansHold
<1>10. o.loan = 0 => o.c \notin Members(todo[u])
  <2> SUFFICES ASSUME o.loan = 0, o.c \in Members(todo[u]) PROVE FALSE
    OBVIOUS
  <2>1. Holds(<<"todo", u>>, o.c) /\ Owned(o.c)
    BY <1>5, TodoHolds DEF OwnInv
  <2>2. <<"todo", u>> = <<"orphans", 0>>
    BY <1>9, <2>1 DEF Owned
  <2> QED
    BY <2>2
<1>11. e \in Item /\ ItemOK(e, 1, Len(loans)) /\ e.loan = o.loan /\ e.c = (IF o.loan = 0 THEN o.c ELSE 0)
  <2>1. CASE o.loan # 0
    <3>1. e = [op |-> "leave", loan |-> o.loan, spoiled |-> FALSE, c |-> 0, at |-> 0]
      BY <1>2, <2>1 DEF Leave
    <3> QED
      BY <1>4, <1>5, <2>1, <3>1, ConnectionsAssumption DEF Item, ItemOK
  <2>2. CASE o.loan = 0
    <3>1. e = [op |-> "keep", loan |-> 0, spoiled |-> FALSE, c |-> o.c, at |-> o.at]
      BY <1>2, <2>2 DEF Keep, Offer
    <3>2. o.c \in 0 .. MaxConns /\ o.c # 0
      BY <1>5, ConnectionsAssumption DEF Conns
    <3> QED
      BY <1>5, <2>2, <3>1, <3>2 DEF Item, ItemOK
  <2> QED
    BY <2>1, <2>2
<1>12. PICK w : w = <<e>> \o todo[u]
  OBVIOUS
<1>13. TodoOK(w, Len(loans)) /\ Members(w) = Members(todo[u]) \cup {e.c} /\ w # <<>> /\ w[1] = e
  <2>1. e.c \notin Members(todo[u])
    BY <1>8, <1>10, <1>11
  <2> QED
    BY <1>4, <1>8, <1>11, <1>12, <2>1, PutFirst
<1>14. DOMAIN todo' = Workers /\ todo'[u] = w /\ \A v \in Workers : v # u => todo'[v] = todo[v]
  BY <1>3, <1>4, <1>12
<1>15. Leaving(u)' = o.loan /\ \A v \in Workers : v # u => Leaving(v)' = Leaving(v)
  BY <1>11, <1>13, <1>14 DEF Leaving
<1>16. Store'
  <2>1. \A v \in Workers : TodoOK(todo'[v], Len(loans'))
    BY <1>3, <1>13, <1>14 DEF OwnInv, Store
  <2>2. \A i \in DOMAIN orphans' : orphans'[i].loan \in 0 .. Len(loans')
    BY <1>3, <1>7
  <2>3. /\ conn' \in [Conns -> Link] /\ idle' \in [Keys -> Seq(Entry)] /\ (\A k \in Keys : Distinct(idle'[k]) /\ Len(idle'[k]) <= PoolSize)
        /\ loans' \in Seq(Loan) /\ cred' \in Idents
    BY <1>3 DEF OwnInv, Store
  <2> QED
    BY <1>6, <1>14, <2>1, <2>2, <2>3 DEF Store
<1>17. ASSUME NEW l \in DOMAIN loans' PROVE LoanOK(l)'
  <2>1. LoanOK(l) /\ l # 0 /\ loans' = loans /\ UsersOf(l)' = UsersOf(l)
    BY <1>3, HeldLoan DEF UsersOf
  <2>2. /\ IsFiniteSet(LeaversOf(l)) /\ Cardinality(LeaversOf(l)) \in Nat /\ Cardinality(LostOf(l)) \in Nat
        /\ Cardinality(UsersOf(l)) \in Nat
    BY HoldersFinite
  <2>3. CASE o.loan = l
    <3>1. Cardinality(LostOf(l)') = Cardinality(LostOf(l)) - 1
      BY <1>3, <1>4, <1>5, <2>3, LostTail DEF LostOf
    <3>2. LeaversOf(l)' = LeaversOf(l) \cup {u} /\ u \notin LeaversOf(l)
      BY <1>8, <1>15, <2>1, <2>3 DEF LeaversOf
    <3>3. Cardinality(LeaversOf(l)') = Cardinality(LeaversOf(l)) + 1
      BY <2>2, <3>2, OneMore
    <3> QED
      BY <2>1, <2>2, <3>1, <3>3 DEF LoanOK
  <2>4. CASE o.loan # l
    <3>1. Cardinality(LostOf(l)') = Cardinality(LostOf(l))
      BY <1>3, <1>4, <1>5, <2>4, LostTail DEF LostOf
    <3>2. LeaversOf(l)' = LeaversOf(l)
      BY <1>8, <1>15, <2>1, <2>4 DEF LeaversOf
    <3> QED
      BY <2>1, <3>1, <3>2 DEF LoanOK
  <2> QED
    BY <2>3, <2>4
<1>18. ASSUME NEW c \in Conns PROVE Owned(c)'
  <2> DEFINE a == <<"orphans", 0>>
             b == <<"todo", u>>
  <2>1. \A x \in Slots \ {a, b} : Holds(x, c)' <=> Holds(x, c)
    <3> DEFINE A == {a, b}
    <3>1. (\A v \in Workers : <<"todo", v>> \in A \/ todo'[v] = todo[v]) /\ <<"orphans", 0>> \in A
      BY <1>14
    <3> HIDE DEF A
    <3>2. \A x \in Slots \ A : Holds(x, c)' <=> Holds(x, c)
      BY <1>3, <3>1, HoldsFrame
    <3> QED
      BY <3>2 DEF A
  <2>2. Holds(a, c) <=> (o.c = c /\ o.loan = 0) \/ Holds(a, c)'
    BY <1>6, OrphansHold
  <2>3. o.loan = 0 /\ o.c = c => ~Holds(a, c)'
    BY <1>6, OrphansHold
  <2>4. Holds(b, c) <=> c \in Members(todo[u])
    BY TodoHolds
  <2>5. Holds(b, c)' <=> c \in Members(todo[u]) \/ (o.loan = 0 /\ c = o.c)
    <3>1. Members(todo'[u]) = Members(todo[u]) \cup {IF o.loan = 0 THEN o.c ELSE 0} /\ c # 0
      BY <1>11, <1>13, <1>14 DEF Conns
    <3>2. Holds(b, c)' <=> c \in Members(todo'[u])
      BY TodoHolds
    <3> QED
      BY <3>1, <3>2
  <2>6. Owned(c) /\ conn' = conn /\ a # b
    BY <1>3 DEF OwnInv
  <2> HIDE DEF a, b
  <2>7. a \in Slots /\ b \in Slots
    BY <1>9 DEF a, b
  <2>8. Holds(a, c) /\ Holds(b, c) => a = b
    BY <2>6, <2>7 DEF Owned
  <2> QED
    BY <2>1, <2>2, <2>3, <2>4, <2>5, <2>6, <2>7, <2>8, TwoSlots
<1>19. \A r \in Routers : RouterOK(r)'
  BY <1>3 DEF OwnInv, RouterOK
<1>20. \A t \in Threads : ThreadOK(t)'
  BY <1>3 DEF OwnInv, ThreadOK, Top
<1>21. NeverClosedUnder'
  BY <1>3 DEF OwnInv, NeverClosedUnder
<1> QED
  BY <1>16, <1>17, <1>18, <1>19, <1>20, <1>21 DEF OwnInv

-----------------------------------------------------------------------------
(* The buckets of the pool.                                                *)

LEMMA MaxIn ==
    ASSUME NEW n \in Nat, NEW S \in SUBSET (0 .. n), S # {}
    PROVE  Max(S) \in S
<1> DEFINE T == {n - i : i \in S}
           R == {e \in Nat \X Nat : e[1] < e[2]}
<1>1. T \in SUBSET Nat /\ T # {}
  <2>1. PICK i : i \in S
    OBVIOUS
  <2>2. n - i \in T
    BY <2>1
  <2>3. \A j \in S : n - j \in Nat
    OBVIOUS
  <2> QED
    BY <2>2, <2>3
<1>2. IsWellFoundedOn(R, Nat)
  BY NatLessThanWellFounded, Zenon DEF OpToRel
<1>3. PICK x \in T : \A y \in T : ~(<<y, x>> \in R)
  BY <1>1, <1>2, WFMin
<1>4. \A y \in T : y \in Nat /\ x \in Nat /\ (<<y, x>> \in R <=> y < x)
  BY <1>1
<1>5. \A y \in T : y \in Nat /\ ~(y < x)
  BY <1>3, <1>4, Zenon
<1>6. PICK i \in S : x = n - i
  OBVIOUS
<1>7. \A j \in S : i >= j
  <2> SUFFICES ASSUME NEW j \in S PROVE i >= j
    OBVIOUS
  <2>1. n - j \in T /\ i \in 0 .. n /\ j \in 0 .. n
    OBVIOUS
  <2>2. ~(n - j < n - i)
    BY <1>5, <1>6, <2>1
  <2> QED
    BY <2>1, <2>2
<1> QED
  BY <1>6, <1>7 DEF Max

\* A bucket cut in two after its first n entries.
Parts(s, n, e, f) ==
    /\ e \in Seq(Entry) /\ Len(e) = n /\ Distinct(e)
    /\ f \in Seq(Entry) /\ Len(f) = Len(s) - n /\ Distinct(f)
    /\ Members(s) = Members(e) \cup Members(f) /\ Members(e) \cap Members(f) = {} /\ Members(s) \in SUBSET Conns

LEMMA Cut ==
    ASSUME NEW s \in Seq(Entry), Distinct(s), NEW n \in 0 .. Len(s), NEW e, e = SubSeq(s, 1, n),
           NEW f, f = SubSeq(s, n + 1, Len(s))
    PROVE  Parts(s, n, e, f)
<1>1. /\ e \in Seq(Entry) /\ Len(e) = n /\ (\A i \in 1 .. n : e[i] = s[i]) /\ DOMAIN e = 1 .. n /\ DOMAIN s = 1 .. Len(s)
      /\ Len(s) \in Nat /\ n \in Nat
  OBVIOUS
<1>2. f \in Seq(Entry) /\ Len(f) = Len(s) - n /\ (\A i \in 1 .. Len(s) - n : f[i] = s[n + i]) /\ DOMAIN f = 1 .. Len(s) - n
  OBVIOUS
<1>3. \A i \in DOMAIN s : s[i].c # 0 /\ s[i].c \in Conns
  <2>1. ASSUME NEW i \in DOMAIN s PROVE s[i] \in Entry
    BY <1>1
  <2> QED
    BY <2>1, ConnectionsAssumption DEF Entry, Conns
<1>4. \A i \in DOMAIN e : i \in DOMAIN s /\ e[i] = s[i] /\ i <= n
  BY <1>1
<1>5. ASSUME NEW i \in DOMAIN f PROVE n + i \in DOMAIN s /\ f[i] = s[n + i] /\ n + i > n /\ i \in Nat
  <2>1. i \in 1 .. Len(s) - n /\ f[i] = s[n + i]
    BY <1>2, <1>5, Zenon
  <2>2. DOMAIN s = 1 .. Len(s) /\ Len(s) \in Nat /\ n \in Nat
    BY <1>1, Zenon
  <2>3. n + i \in 1 .. Len(s) /\ n + i > n /\ i \in Nat
    BY <2>1, <2>2
  <2> QED
    BY <2>1, <2>2, <2>3, Zenon
<1>6. \A i \in DOMAIN s : i \in DOMAIN e \/ (i - n \in DOMAIN f /\ f[i - n] = s[i])
  <2> SUFFICES ASSUME NEW i \in DOMAIN s, i \notin DOMAIN e PROVE i - n \in DOMAIN f /\ f[i - n] = s[i]
    OBVIOUS
  <2>1. i - n \in 1 .. Len(s) - n /\ n + (i - n) = i
    BY <1>1
  <2> QED
    BY <1>2, <2>1
<1>7. Distinct(e)
  BY <1>4 DEF Distinct
<1>8. Distinct(f)
  <2> SUFFICES ASSUME NEW i \in DOMAIN f, NEW j \in DOMAIN f, f[i].c = f[j].c, f[i].c # 0 PROVE i = j
    BY DEF Distinct
  <2>1. n + i = n + j /\ i \in Nat /\ j \in Nat
    BY <1>5 DEF Distinct
  <2> QED
    BY <1>1, <2>1
<1>9. Members(s) = Members(e) \cup Members(f)
  <2>1. Members(s) \subseteq Members(e) \cup Members(f)
    BY <1>4, <1>6 DEF Members
  <2>2. Members(e) \subseteq Members(s) /\ Members(f) \subseteq Members(s)
    BY <1>4, <1>5 DEF Members
  <2> QED
    BY <2>1, <2>2
<1>10. Members(e) \cap Members(f) = {}
  <2> SUFFICES ASSUME NEW i \in DOMAIN e, NEW j \in DOMAIN f, e[i].c = f[j].c PROVE FALSE
    BY DEF Members
  <2>1. i \in DOMAIN s /\ n + j \in DOMAIN s /\ s[i].c = s[n + j].c /\ s[i].c # 0 /\ i <= n /\ n + j > n
    BY <1>3, <1>4, <1>5
  <2>2. i = n + j
    BY <2>1 DEF Distinct
  <2> QED
    BY <1>1, <2>1, <2>2
<1>11. Members(s) \in SUBSET Conns
  BY <1>3 DEF Members
<1> QED
  BY <1>1, <1>2, <1>7, <1>8, <1>9, <1>10, <1>11 DEF Parts

LEMMA CutAt ==
    ASSUME NEW s \in Seq(Entry), Distinct(s), NEW n \in 0 .. Len(s)
    PROVE  Parts(s, n, SubSeq(s, 1, n), SubSeq(s, n + 1, Len(s)))
BY Cut

LEMMA AddEntry ==
    ASSUME NEW s \in Seq(Entry), Distinct(s), NEW c \in Conns, c \notin Members(s), NEW w, w = Append(s, [c |-> c, fresh |-> TRUE])
    PROVE  w \in Seq(Entry) /\ Distinct(w) /\ Len(w) = Len(s) + 1 /\ Members(w) = Members(s) \cup {c}
<1>1. [c |-> c, fresh |-> TRUE] \in Entry
  BY DEF Entry
<1>2. w \in Seq(Entry) /\ Len(w) = Len(s) + 1 /\ Len(s) \in Nat
  BY <1>1
<1>3. DOMAIN w = 1 .. Len(s) + 1 /\ DOMAIN s = 1 .. Len(s)
  BY <1>2
<1>4. w[Len(s) + 1].c = c /\ \A i \in DOMAIN s : w[i] = s[i] /\ s[i].c # c /\ i \in DOMAIN w
  BY <1>1, <1>3 DEF Members
<1>5. \A i \in DOMAIN w : i \in DOMAIN s \/ i = Len(s) + 1
  BY <1>2, <1>3
<1>6. Len(s) + 1 \in DOMAIN w
  BY <1>2, <1>3
<1>7. Distinct(w)
  BY <1>4, <1>5 DEF Distinct
<1>8. Members(w) = Members(s) \cup {c}
  BY <1>4, <1>5, <1>6 DEF Members
<1> QED
  BY <1>2, <1>7, <1>8

LEMMA ClosesThen ==
    ASSUME NEW cs \in SUBSET Conns, NEW c \in Conns, c \notin cs, NEW m, m = Closes(cs) \o <<Shut(c)>>
    PROVE  m \in Seq(Item) /\ Distinct(m) /\ (\A i \in DOMAIN m : Plain(m[i])) /\ Members(m) = cs \cup {c}
<1>1. PICK q : q = Closes(cs)
  OBVIOUS
<1>2. PICK e : e = Shut(c)
  OBVIOUS
<1>3. q \in Seq(Item) /\ Distinct(q) /\ Members(q) = cs /\ \A i \in DOMAIN q : Plain(q[i])
  BY <1>1, ClosesIs
<1>4. e \in Item /\ e.c = c /\ Plain(e)
  BY <1>2, OneOffer
<1>5. m = q \o <<e>>
  BY <1>1, <1>2
<1>6. Len(q) \in Nat /\ DOMAIN q = 1 .. Len(q)
  BY <1>3
<1>7. m \in Seq(Item) /\ Len(m) = Len(q) + 1
  <2>1. <<e>> \in Seq(Item) /\ Len(<<e>>) = 1
    BY <1>4
  <2>2. \A w \in Seq(Item) : q \o w \in Seq(Item) /\ Len(q \o w) = Len(q) + Len(w)
    BY <1>3, ConcatProperties
  <2>3. q \o <<e>> \in Seq(Item) /\ Len(q \o <<e>>) = Len(q) + Len(<<e>>)
    BY <2>1, <2>2
  <2> QED
    BY <1>5, <2>1, <2>3
<1>8. DOMAIN m = 1 .. Len(q) + 1
  BY <1>7
<1>9. m[Len(q) + 1] = e /\ \A i \in DOMAIN q : m[i] = q[i] /\ i \in DOMAIN m
  BY <1>3, <1>4, <1>5, <1>6, <1>8
<1>10. \A i \in DOMAIN m : i \in DOMAIN q \/ i = Len(q) + 1
  BY <1>6, <1>8
<1>11. Len(q) + 1 \in DOMAIN m
  BY <1>6, <1>8
<1>12. \A i \in DOMAIN q : q[i].c # c
  BY <1>3 DEF Members
<1>13. Distinct(m)
  BY <1>3, <1>4, <1>9, <1>10, <1>12 DEF Distinct
<1>14. Members(m) = cs \cup {c}
  <2>1. Members(m) = Members(q) \cup {c}
    BY <1>4, <1>9, <1>10, <1>11 DEF Members
  <2> QED
    BY <1>3, <2>1
<1>15. \A i \in DOMAIN m : Plain(m[i])
  BY <1>3, <1>4, <1>9, <1>10
<1> QED
  BY <1>7, <1>13, <1>14, <1>15

\* A step that only moves connections between the pool and what is to be done.
LEMMA PoolOwn ==
    ASSUME OwnInv, UNCHANGED <<conn, orphans, router, loans, cred>>, NEW u \in Workers, DOMAIN todo' = Workers,
           \A v \in Workers : v # u => todo'[v] = todo[v], TodoOK(todo'[u], Len(loans)),
           \A v \in Workers : Leaving(v)' = Leaving(v),
           idle' \in [Keys -> Seq(Entry)], \A k \in Keys : Distinct(idle'[k]) /\ Len(idle'[k]) <= PoolSize,
           \A c \in Conns : Owned(c)', \A t \in Threads : ThreadOK(t)'
    PROVE  OwnInv'
<1>1. \A l \in DOMAIN loans' : LoanOK(l)'
  BY LoansKept
<1>2. Store'
  <2>1. \A v \in Workers : TodoOK(todo'[v], Len(loans'))
    BY DEF OwnInv, Store
  <2> QED
    BY <2>1 DEF OwnInv, Store
<1>3. \A r \in Routers : RouterOK(r)'
  BY DEF OwnInv, RouterOK
<1>4. NeverClosedUnder'
  BY DEF OwnInv, NeverClosedUnder
<1> QED
  BY <1>1, <1>2, <1>3, <1>4 DEF OwnInv

LEMMA KeyIs ==
    ASSUME OwnInv, NEW c \in Conns, NEW at \in Servers
    PROVE  KeyFor(c, at) \in Keys
<1>1. conn[c] \in Link /\ cred \in Idents
  BY DEF OwnInv, Store
<1> QED
  BY <1>1 DEF KeyFor, Keys, Link

LEMMA ExpiredIn ==
    ASSUME NEW s \in Seq(Entry)
    PROVE  Expired(s) \in 0 .. Len(s)
<1>1. Len(s) \in Nat /\ {0} \cup {i \in DOMAIN s : ~s[i].fresh} \in SUBSET (0 .. Len(s))
  OBVIOUS
<1> QED
  BY <1>1, MaxIn DEF Expired

LEMMA NewestIn ==
    ASSUME NEW s \in Seq(Entry)
    PROVE  /\ Newest(s) \in 0 .. Len(s)
           /\ Newest(s) # 0 => conn[s[Newest(s)].c].st = "open"
<1> DEFINE S == {0} \cup {i \in DOMAIN s : s[i].fresh /\ conn[s[i].c].st = "open"}
<1>1. Len(s) \in Nat /\ S \in SUBSET (0 .. Len(s)) /\ S # {}
  OBVIOUS
<1>2. Max(S) \in S
  BY <1>1, MaxIn
<1> QED
  BY <1>1, <1>2 DEF Newest

LEMMA KeepIdleOwn ==
    ASSUME AbortInv, OwnInv, NEW u \in Workers, KeepIdle(u)
    PROVE  OwnInv'
<1>1. PICK h : h = Head(todo[u])
  OBVIOUS
<1>2. PICK c : c = h.c
  OBVIOUS
<1>3. PICK k : k = KeyFor(c, h.at)
  OBVIOUS
<1>4. PICK n : n = Expired(idle[k])
  OBVIOUS
<1>5. PICK f : f = SubSeq(idle[k], n + 1, Len(idle[k]))
  OBVIOUS
<1>6. PICK x : x = SubSeq(idle[k], 1, n)
  OBVIOUS
<1>7. PICK room \in BOOLEAN : room <=> Len(f) < PoolSize
  OBVIOUS
<1>8. todo[u] # <<>> /\ h.op \in {"keep", "release"} /\ UNCHANGED <<conn, orphans, router, loans, th, cred>>
  BY <1>1 DEF KeepIdle, Doing
<1>9. \/ todo' = Then(u, <<Shut(c)>>) /\ idle' = idle
      \/ /\ idle' = [idle EXCEPT ![k] = IF Len(f) < PoolSize THEN Append(f, [c |-> c, fresh |-> TRUE]) ELSE f]
         /\ todo' = Then(u, Closes(Members(x)) \o IF Len(f) < PoolSize THEN <<>> ELSE <<Shut(c)>>)
  BY <1>1, <1>2, <1>3, <1>4, <1>5, <1>6, Zenon DEF KeepIdle
<1>10. /\ h \in Item /\ ItemOK(h, 1, Len(loans)) /\ Members(todo[u]) = {c} \cup Rest(todo[u]) /\ Leaving(u) = h.loan
       /\ (c # 0 => c \notin Rest(todo[u]))
  BY <1>1, <1>2, <1>8, FirstThing
<1>11. c \in Conns /\ h.loan = 0 /\ h.at \in Servers /\ c \notin Rest(todo[u])
  BY <1>2, <1>8, <1>10, ConnectionsAssumption DEF Item, ItemOK, Conns
<1>12. k \in Keys
  BY <1>3, <1>11, KeyIs
<1>13. \A t \in Threads : ThreadOK(t)'
  BY <1>8 DEF OwnInv, ThreadOK, Top
<1>14. idle \in [Keys -> Seq(Entry)] /\ DOMAIN idle = Keys /\ \A j \in Keys : Distinct(idle[j]) /\ Len(idle[j]) <= PoolSize
  BY DEF OwnInv, Store
<1>15. CASE todo' = Then(u, <<Shut(c)>>) /\ idle' = idle
  <2>1. PICK m : m = <<Shut(c)>>
    OBVIOUS
  <2>2. m \in Seq(Item) /\ Distinct(m) /\ (\A i \in DOMAIN m : Plain(m[i])) /\ Members(m) = {c}
    BY <1>11, <2>1, OneOffer
  <2>3. todo' = Then(u, m) /\ Members(m) \cap Rest(todo[u]) = {}
    BY <1>11, <1>15, <2>1, <2>2
  <2>4. /\ DOMAIN todo' = Workers /\ (\A v \in Workers : v # u => todo'[v] = todo[v]) /\ TodoOK(todo'[u], Len(loans))
        /\ Members(todo'[u]) = Members(m) \cup Rest(todo[u])
        /\ Leaving(u)' = 0 /\ \A v \in Workers : v # u => Leaving(v)' = Leaving(v)
    BY <1>8, <2>2, <2>3, TodoStep
  <2>5. \A v \in Workers : Leaving(v)' = Leaving(v) /\ Members(todo'[v]) = Members(todo[v])
    BY <1>10, <1>11, <2>2, <2>4
  <2>6. ASSUME NEW d \in Conns PROVE Owned(d)'
    <3>1. \A y \in Slots \ {} : Holds(y, d)' <=> Holds(y, d)
      BY <1>8, <1>15, <2>5, HoldsFrame
    <3> QED
      BY <1>8, <3>1 DEF OwnInv, Owned
  <2> QED
    BY <1>8, <1>13, <1>14, <1>15, <2>4, <2>5, <2>6, PoolOwn
<1>16. ASSUME idle' = [idle EXCEPT ![k] = IF Len(f) < PoolSize THEN Append(f, [c |-> c, fresh |-> TRUE]) ELSE f],
              todo' = Then(u, Closes(Members(x)) \o IF Len(f) < PoolSize THEN <<>> ELSE <<Shut(c)>>)
       PROVE  OwnInv'
  <2>1. n \in 0 .. Len(idle[k]) /\ Len(idle[k]) \in Nat
    BY <1>4, <1>12, <1>14, ExpiredIn
  <2>2. /\ x \in Seq(Entry) /\ f \in Seq(Entry) /\ Distinct(f) /\ Len(f) = Len(idle[k]) - n
        /\ Members(idle[k]) = Members(x) \cup Members(f) /\ Members(x) \cap Members(f) = {} /\ Members(idle[k]) \in SUBSET Conns
    <3>1. PICK s : s = idle[k]
      OBVIOUS
    <3>2. s \in Seq(Entry) /\ Distinct(s) /\ n \in 0 .. Len(s) /\ x = SubSeq(s, 1, n) /\ f = SubSeq(s, n + 1, Len(s))
      BY <1>5, <1>6, <1>12, <1>14, <2>1, <3>1, Zenon
    <3>3. /\ x \in Seq(Entry) /\ f \in Seq(Entry) /\ Distinct(f) /\ Len(f) = Len(s) - n
          /\ Members(s) = Members(x) \cup Members(f) /\ Members(x) \cap Members(f) = {} /\ Members(s) \in SUBSET Conns
      <4>1. Parts(s, n, SubSeq(s, 1, n), SubSeq(s, n + 1, Len(s)))
        BY <3>2, CutAt, Zenon
      <4>2. Parts(s, n, x, f)
        BY <3>2, <4>1, Zenon
      <4> QED
        BY <4>2, Zenon DEF Parts
    <3> QED
      BY <3>1, <3>3, Zenon
  <2>3. Len(f) <= PoolSize /\ Len(f) \in Nat
    BY <1>12, <1>14, <2>1, <2>2, ConnectionsAssumption
  <2>4. <<"idle", k>> \in Slots /\ <<"todo", u>> \in Slots
    BY <1>12, SlotIn
  <2>5. ASSUME NEW d \in Conns, d \in Members(idle[k]), d \in Members(todo[u]) PROVE FALSE
    <3>1. Holds(<<"todo", u>>, d) /\ Owned(d)
      BY <2>5, TodoHolds DEF OwnInv
    <3>2. Holds(<<"idle", k>>, d)
      BY <2>5, HoldsIs
    <3> QED
      BY <2>4, <3>1, <3>2 DEF Owned
  <2>6. c \notin Members(idle[k]) /\ Members(idle[k]) \cap Rest(todo[u]) = {}
    BY <1>10, <1>11, <2>2, <2>5
  <2>7. PICK g : g = IF Len(f) < PoolSize THEN Append(f, [c |-> c, fresh |-> TRUE]) ELSE f
    OBVIOUS
  <2>8. g \in Seq(Entry) /\ Distinct(g) /\ Len(g) <= PoolSize /\ Members(g) = Members(f) \cup (IF room THEN {c} ELSE {})
    <3>1. CASE room
      <4>1. g = Append(f, [c |-> c, fresh |-> TRUE]) /\ c \notin Members(f) /\ Len(f) < PoolSize
        BY <1>7, <2>2, <2>6, <2>7, <3>1
      <4>2. g \in Seq(Entry) /\ Distinct(g) /\ Len(g) = Len(f) + 1 /\ Members(g) = Members(f) \cup {c}
        BY <1>11, <2>2, <4>1, AddEntry
      <4> QED
        <5>1. Len(g) <= PoolSize
          BY <2>3, <4>1, <4>2, ConnectionsAssumption
        <5> QED
          BY <3>1, <4>2, <5>1
    <3>2. CASE ~room
      <4>1. g = f
        BY <1>7, <2>7, <3>2
      <4> QED
        BY <2>2, <2>3, <3>2, <4>1
    <3> QED
      BY <3>1, <3>2
  <2>9. PICK m : m = Closes(Members(x)) \o IF Len(f) < PoolSize THEN <<>> ELSE <<Shut(c)>>
    OBVIOUS
  <2>10. /\ m \in Seq(Item) /\ Distinct(m) /\ (\A i \in DOMAIN m : Plain(m[i]))
         /\ Members(m) = Members(x) \cup (IF room THEN {} ELSE {c})
    <3>1. Members(x) \in SUBSET Conns /\ c \notin Members(x)
      BY <2>2, <2>6
    <3>2. CASE room
      <4>1. PICK q : q = Closes(Members(x))
        OBVIOUS
      <4>2. q \in Seq(Item) /\ Distinct(q) /\ Members(q) = Members(x) /\ \A i \in DOMAIN q : Plain(q[i])
        BY <3>1, <4>1, ClosesIs
      <4>3. m = q \o <<>>
        BY <1>7, <2>9, <3>2, <4>1
      <4>4. m = q
        BY <4>2, <4>3, ConcatEmptySeq
      <4> QED
        BY <3>2, <4>2, <4>4
    <3>3. CASE ~room
      <4>1. m = Closes(Members(x)) \o <<Shut(c)>>
        BY <1>7, <2>9, <3>3
      <4> QED
        BY <1>11, <3>1, <3>3, <4>1, ClosesThen
    <3> QED
      BY <3>2, <3>3
  <2>11. todo' = Then(u, m) /\ Members(m) \cap Rest(todo[u]) = {} /\ idle' = [idle EXCEPT ![k] = g]
    BY <1>11, <1>16, <2>2, <2>6, <2>7, <2>9, <2>10
  <2>12. /\ DOMAIN todo' = Workers /\ (\A v \in Workers : v # u => todo'[v] = todo[v]) /\ TodoOK(todo'[u], Len(loans))
         /\ Members(todo'[u]) = Members(m) \cup Rest(todo[u])
         /\ Leaving(u)' = 0 /\ \A v \in Workers : v # u => Leaving(v)' = Leaving(v)
    BY <1>8, <2>10, <2>11, TodoStep
  <2>13. \A v \in Workers : Leaving(v)' = Leaving(v)
    BY <1>10, <1>11, <2>12
  <2>14. idle' \in [Keys -> Seq(Entry)] /\ idle'[k] = g /\ \A j \in Keys : j # k => idle'[j] = idle[j]
    BY <1>12, <1>14, <2>8, <2>11
  <2>15. \A j \in Keys : Distinct(idle'[j]) /\ Len(idle'[j]) <= PoolSize
    BY <1>14, <2>8, <2>14
  <2>16. ASSUME NEW d \in Conns PROVE Owned(d)'
    <3> DEFINE a == <<"idle", k>>
               b == <<"todo", u>>
    <3>1. \A y \in Slots \ {a, b} : Holds(y, d)' <=> Holds(y, d)
      <4> DEFINE A == {a, b}
      <4>1. /\ \A v \in Workers : <<"todo", v>> \in A \/ todo'[v] = todo[v]
            /\ \A j \in Keys : <<"idle", j>> \in A \/ idle'[j] = idle[j]
        BY <2>12, <2>14
      <4> HIDE DEF A
      <4>2. \A y \in Slots \ A : Holds(y, d)' <=> Holds(y, d)
        BY <1>8, <4>1, HoldsFrame
      <4> QED
        BY <4>2 DEF A
    <3>2. Holds(a, d) <=> d \in Members(x) \cup Members(f)
      BY <2>2, HoldsIs
    <3>3. Holds(a, d)' <=> d \in Members(f) \/ (room /\ d = c)
      <4>1. Holds(a, d)' <=> d \in Members(idle'[k])
        BY HoldsThen
      <4> QED
        BY <2>8, <2>14, <4>1
    <3>4. Holds(b, d) <=> d = c \/ d \in Rest(todo[u])
      BY <1>10, TodoHolds
    <3>5. Holds(b, d)' <=> d \in Members(x) \/ (~room /\ d = c) \/ d \in Rest(todo[u])
      <4>1. Holds(b, d)' <=> d \in Members(todo'[u])
        BY TodoHolds
      <4> QED
        BY <2>10, <2>12, <4>1
    <3>6. Owned(d) /\ conn' = conn
      BY <1>8 DEF OwnInv
    <3>7. /\ d \in Members(x) => d \notin Members(f) /\ d # c /\ d \notin Rest(todo[u])
          /\ d \in Members(f) => d # c /\ d \notin Rest(todo[u])
          /\ d = c => d \notin Rest(todo[u])
      BY <1>11, <2>2, <2>6
    <3> HIDE DEF a, b
    <3>8. a \in Slots /\ b \in Slots
      BY <2>4 DEF a, b
    <3> QED
      BY <3>1, <3>2, <3>3, <3>4, <3>5, <3>6, <3>7, <3>8, TwoSlots
  <2> QED
    BY <1>8, <1>13, <2>12, <2>13, <2>14, <2>15, <2>16, PoolOwn
<1> QED
  BY <1>9, <1>15, <1>16

-----------------------------------------------------------------------------
(* Getting a connection.                                                   *)

LEMMA ThreeSlots ==
    ASSUME NEW c \in Conns, Owned(c), NEW a \in Slots, NEW b \in Slots, NEW y \in Slots,
           \A x \in Slots \ {a, b, y} : Holds(x, c)' <=> Holds(x, c),
           Holds(a, c)' \/ Holds(b, c)' \/ Holds(y, c)' => Holds(a, c) \/ Holds(b, c) \/ Holds(y, c),
           ~(Holds(a, c)' /\ Holds(b, c)'), ~(Holds(a, c)' /\ Holds(y, c)'), ~(Holds(b, c)' /\ Holds(y, c)'),
           conn'[c].st = "open" /\ (Holds(a, c) \/ Holds(b, c) \/ Holds(y, c)) => Holds(a, c)' \/ Holds(b, c)' \/ Holds(y, c)',
           conn' = conn
    PROVE  Owned(c)'
<1> DEFINE A == {a, b, y}
<1>1. \A x \in A : x = a \/ x = b \/ x = y
  OBVIOUS
<1>2. a \in A /\ b \in A /\ y \in A /\ A \in SUBSET Slots
  OBVIOUS
<1>3. \A x \in Slots \ A : Holds(x, c)' <=> Holds(x, c)
  OBVIOUS
<1> HIDE DEF A
<1>4. \A x \in A : Holds(x, c)' => \E z \in A : Holds(z, c)
  BY <1>1, <1>2
<1>5. \A x, z \in A : Holds(x, c)' /\ Holds(z, c)' => x = z
  BY <1>1
<1>6. \A x \in A : conn'[c].st = "open" /\ Holds(x, c) => \E z \in A : Holds(z, c)'
  BY <1>1, <1>2
<1> QED
  BY <1>2, <1>3, <1>4, <1>5, <1>6, OwnMoves

\* Slot y comes to own connection c, and the others keep what they own.
GainsOnly(y, c) ==
    /\ y \in Slots /\ y[1] \in {"router", "borrow"}
    /\ \A d \in Conns : ~Holds(y, d) /\ (Holds(y, d)' <=> d = c)
    /\ \A r \in Routers : <<"router", r>> = y \/ (router'[r].c = router[r].c /\ router'[r].loan = router[r].loan)
    /\ \A u \in Threads : <<"borrow", u>> = y
          \/ ((th'[u].pc = "borrow" <=> th[u].pc = "borrow") /\ (th[u].pc = "borrow" => th'[u].new = th[u].new))
    /\ \A u \in Threads : /\ th'[u].pc \in {"away", "return"} <=> th[u].pc \in {"away", "return"}
                          /\ th[u].pc \in {"away", "return"} => th'[u].c = th[u].c

LEMMA RouterHolds ==
    ASSUME NEW c, NEW r
    PROVE  /\ Holds(<<"router", r>>, c) <=> router[r].c = c /\ router[r].loan = 0
           /\ Holds(<<"router", r>>, c)' <=> router'[r].c = c /\ router'[r].loan = 0
BY DEF Holds

LEMMA IdleHolds ==
    ASSUME NEW c, NEW k
    PROVE  /\ Holds(<<"idle", k>>, c) <=> c \in Members(idle[k])
           /\ Holds(<<"idle", k>>, c)' <=> c \in Members(idle'[k])
BY DEF Holds

LEMMA LoanHolds ==
    ASSUME NEW c, NEW l
    PROVE  /\ Holds(<<"loan", l>>, c) <=> l \in DOMAIN loans /\ loans[l].c = c
           /\ Holds(<<"loan", l>>, c)' <=> l \in DOMAIN loans' /\ loans'[l].c = c
BY DEF Holds

LEMMA TopRouter ==
    ASSUME AbortInv, OwnInv, NEW t \in Threads, th[t].pc \in {"lockwait", "acquire", "identify", "login", "installed"}
    PROVE  Top(t) \in Routers /\ DialUrl(t) \in Servers
<1>1. Connecting(t) /\ Fit(th[t]) /\ \A r \in Routers : RouterOK(r)
  BY MyThread
<1>2. Top(t) \in Routers
  BY <1>1 DEF Connecting, Top
<1> QED
  BY <1>1, <1>2 DEF DialUrl, RouterOK, Fit

LEMMA DialledIs ==
    ASSUME AbortInv, OwnInv, NEW t \in Threads, th[t].pc \in {"acquire", "login"}, NEW c \in Conns, Dialled(t, c), loans' = loans
    PROVE  /\ \A u \in Threads : ThreadOK(u)'
           /\ \A r \in Routers : RouterOK(r)'
           /\ \A r \in Routers : router'[r].loan = router[r].loan /\ router'[r].aborted = router[r].aborted
                                 /\ router'[r].c \in {router[r].c, c}
           /\ \E y : GainsOnly(y, c)
<1> DEFINE w == [th[t] EXCEPT !.new = c, !.id = 0, !.raced = FALSE, !.pc = IF th[t].target # 0 THEN "borrow" ELSE "installed"]
<1>1. PICK n : n = Top(t)
  OBVIOUS
<1>2. /\ t \in DOMAIN th /\ DOMAIN th[t] = ThFields /\ Fit(th[t]) /\ router[th[t].r].st # "none" /\ ThreadOK(t) /\ Connecting(t)
      /\ n \in Routers /\ DOMAIN router = Routers /\ DOMAIN router[n] = RouterFields /\ RouterOK(n) /\ th[t].r \in Routers
  BY <1>1, MyThread, TopRouter
<1>3. th' = [th EXCEPT ![t] = w]
  BY <1>2 DEF Dialled
<1>4. /\ w.pc = (IF th[t].target # 0 THEN "borrow" ELSE "installed") /\ w.new = c /\ w.r = th[t].r /\ w.lender = th[t].lender
      /\ w.target = th[t].target
  BY <1>2 DEF ThFields
<1>5. Fit(w)
  <2>1. c \in 0 .. MaxConns /\ c # 0
    BY ConnectionsAssumption DEF Conns
  <2>2. w.c = th[t].c /\ w.dest = th[t].dest /\ w.home = th[t].home /\ w.id = 0 /\ w.spoiled = th[t].spoiled /\ w.next = th[t].next
        /\ w.raced = FALSE
    BY <1>2 DEF ThFields
  <2> HIDE DEF w
  <2> QED
    BY <1>2, <1>4, <2>1, <2>2 DEF Fit
<1> HIDE DEF w
<1>6. th'[t] = w /\ \A u \in Threads : u # t => th'[u] = th[u]
  BY <1>2, <1>3
<1>7. Top(t)' = n
  BY <1>1, <1>4, <1>6 DEF Top
<1>8. c # 0 /\ c \in 0 .. MaxConns
  BY ConnectionsAssumption DEF Conns
<1>9. CASE th[t].target # 0
  <2>1. router' = router /\ w.pc = "borrow"
    BY <1>4, <1>9 DEF Dialled
  <2>2. th[t].lender = 0
    BY <1>2, <1>9 DEF Connecting
  <2>3. ThreadOK(t)'
    BY <1>2, <1>4, <1>5, <1>6, <2>1, <2>2, PlainOK
  <2>4. \A u \in Threads : ThreadOK(u)'
    BY <1>6, <2>1, <2>3, OthersOK
  <2>5. \A r \in Routers : RouterOK(r)'
    BY <2>1 DEF OwnInv, RouterOK
  <2>6. \A d \in Conns : ~Holds(<<"borrow", t>>, d) /\ (Holds(<<"borrow", t>>, d)' <=> d = c)
    <3>1. th'[t].pc = "borrow" /\ th'[t].new = c /\ th[t].pc # "borrow"
      BY <1>4, <1>6, <2>1
    <3> QED
      BY <3>1, HoldsIs, HoldsThen
  <2>7. <<"borrow", t>> \in Slots /\ <<"borrow", t>>[1] = "borrow"
    BY SlotIn
  <2>8. \A u \in Threads : u = t \/ th'[u] = th[u]
    BY <1>6
  <2>9. th'[t].pc \notin {"away", "return"} /\ th[t].pc \notin {"away", "return"}
    BY <1>6, <2>1
  <2>10. GainsOnly(<<"borrow", t>>, c)
    BY <2>1, <2>6, <2>7, <2>8, <2>9 DEF GainsOnly
  <2> QED
    BY <2>1, <2>4, <2>5, <2>10
<1>10. CASE th[t].target = 0
  <2> DEFINE v == [router[n] EXCEPT !.c = c]
  <2>1. router' = [router EXCEPT ![n] = v] /\ w.pc = "installed"
    BY <1>1, <1>2, <1>4, <1>10 DEF Dialled
  <2>2. v.c = c /\ v.st = router[n].st /\ v.loan = router[n].loan /\ v.lender = router[n].lender /\ v.aborted = router[n].aborted
        /\ v.url = router[n].url
    BY <1>2 DEF RouterFields
  <2> HIDE DEF v
  <2>3. router'[n] = v /\ \A m \in Routers : m # n => router'[m] = router[m]
    BY <1>2, <2>1
  <2>4. lock[n] = t /\ router[n].c = 0 /\ router[n].loan = 0 /\ router[n].lender = 0
    BY <1>1, <1>2, <1>10 DEF Connecting, ThreadOK
  <2>5. th[t].lender # 0 => th[t].r # n
    BY <1>1, <1>2 DEF Connecting, Top
  <2>6. ThreadOK(t)'
    <3>1. router'[th[t].r].st # "none"
      BY <1>2, <2>2, <2>3
    <3>2. th[t].lender # 0 => router'[th[t].r] = router[th[t].r]
      BY <1>2, <2>3, <2>5
    <3> QED
      BY <1>2, <1>4, <1>5, <1>6, <1>7, <1>8, <2>1, <2>2, <2>3, <3>1, <3>2 DEF ThreadOK
  <2>7. \A u \in Threads : ThreadOK(u)'
    <3>1. ~InUse(t, n)
      BY <2>4, FreeToDrop
    <3>2. \A m \in Routers : router[m].st # "none" => router'[m].st # "none"
      BY <2>2, <2>3
    <3>3. \A m \in Routers : InUse(t, m) => /\ router'[m].c = router[m].c /\ router'[m].loan = router[m].loan
                                            /\ router'[m].lender = router[m].lender
      BY <2>3, <3>1
    <3> QED
      BY <1>6, <2>6, <3>2, <3>3, OthersOK
  <2>8. \A r \in Routers : RouterOK(r)'
    <3>1. router[n].st # "none"
      BY <1>1, <1>2 DEF Connecting, Top
    <3>2. RouterOK(n)'
      BY <1>2, <1>8, <2>2, <2>3, <2>4, <3>1 DEF RouterOK
    <3> QED
      BY <2>3, <3>2 DEF OwnInv, RouterOK
  <2>9. \A d \in Conns : ~Holds(<<"router", n>>, d) /\ (Holds(<<"router", n>>, d)' <=> d = c)
    <3>1. router[n].c \notin Conns /\ router'[n].c = c /\ router'[n].loan = 0
      BY <2>2, <2>3, <2>4 DEF Conns
    <3> QED
      BY <3>1, RouterHolds
  <2>10. <<"router", n>> \in Slots /\ <<"router", n>>[1] = "router"
    BY <1>2, SlotIn
  <2>11. th'[t].pc = "installed" /\ th[t].pc \notin {"borrow", "away", "return"}
    BY <1>6, <2>1
  <2>12. GainsOnly(<<"router", n>>, c)
    BY <1>6, <2>3, <2>9, <2>10, <2>11 DEF GainsOnly
  <2>13. \A r \in Routers : router'[r].loan = router[r].loan /\ router'[r].aborted = router[r].aborted /\ router'[r].c \in {router[r].c, c}
    BY <2>2, <2>3
  <2> QED
    BY <2>7, <2>8, <2>12, <2>13
<1> QED
  BY <1>9, <1>10

LEMMA GainFrame ==
    ASSUME NEW d \in Conns, NEW y, NEW c, GainsOnly(y, c), NEW A, y \in A, UNCHANGED <<loans, orphans>>,
           \A k \in Keys : <<"idle", k>> \in A \/ idle'[k] = idle[k],
           \A u \in Workers : <<"todo", u>> \in A \/ todo'[u] = todo[u]
    PROVE  \A x \in Slots \ A : Holds(x, d)' <=> Holds(x, d)
<1>1. \A r \in Routers : <<"router", r>> \in A \/ (router'[r].c = d /\ router'[r].loan = 0 <=> router[r].c = d /\ router[r].loan = 0)
  BY DEF GainsOnly
<1>2. \A u \in Threads : <<"borrow", u>> \in A
         \/ (th'[u].pc = "borrow" /\ th'[u].new = d <=> th[u].pc = "borrow" /\ th[u].new = d)
  BY DEF GainsOnly
<1>3. \A u \in Threads : th'[u].pc \in {"away", "return"} /\ th'[u].c = d <=> th[u].pc \in {"away", "return"} /\ th[u].c = d
  BY DEF GainsOnly
<1> QED
  BY <1>1, <1>2, <1>3, HoldsFrame

LEMMA LoginOwn ==
    ASSUME AbortInv, OwnInv, NEW t \in Threads, Login(t)
    PROVE  OwnInv'
<1>1. PICK c \in Conns :
          /\ conn[c].st = "unborn" /\ \A d \in 1 .. c - 1 : conn[d].st # "unborn"
          /\ conn' = [conn EXCEPT ![c] = [st |-> "open", at |-> DialUrl(t), who |-> cred,
                                          born |-> th[t].id, raced |-> th[t].raced]]
          /\ Dialled(t, c)
  BY Zenon DEF Login
<1>2. th[t].pc = "login" /\ UNCHANGED <<idle, orphans, loans, todo, cred>>
  BY DEF Login, At
<1>3. PICK p : p = [st |-> "open", at |-> DialUrl(t), who |-> cred, born |-> th[t].id, raced |-> th[t].raced]
  OBVIOUS
<1>4. p \in Link /\ p.st = "open"
  <2>1. DialUrl(t) \in Servers /\ cred \in Idents /\ th[t].id \in Idents \cup {0} /\ th[t].raced \in BOOLEAN
    BY <1>2, TopRouter, MyThread DEF OwnInv, Store, Fit
  <2> QED
    BY <1>3, <2>1 DEF Link
<1>5. conn \in [Conns -> Link] /\ conn' = [conn EXCEPT ![c] = p]
  BY <1>1, <1>3 DEF OwnInv, Store
<1>6. conn' \in [Conns -> Link] /\ conn'[c].st = "open" /\ \A d \in Conns : d # c => conn'[d] = conn[d]
  BY <1>4, <1>5
<1>7. /\ \A u \in Threads : ThreadOK(u)'
      /\ \A r \in Routers : RouterOK(r)'
      /\ \A r \in Routers : router'[r].loan = router[r].loan /\ router'[r].aborted = router[r].aborted
                            /\ router'[r].c \in {router[r].c, c}
      /\ \E y : GainsOnly(y, c)
  BY <1>1, <1>2, DialledIs
<1>8. PICK y : GainsOnly(y, c)
  BY <1>7
<1>9. y \in Slots /\ \A d \in Conns : ~Holds(y, d) /\ (Holds(y, d)' <=> d = c)
  BY <1>8 DEF GainsOnly
<1>10. ASSUME NEW d \in Conns PROVE \A x \in Slots : x # y => (Holds(x, d)' <=> Holds(x, d))
  <2>1. PICK A : A = {y}
    OBVIOUS
  <2>2. \A x \in Slots \ A : Holds(x, d)' <=> Holds(x, d)
    BY <1>2, <1>8, <2>1, GainFrame
  <2> QED
    BY <2>1, <2>2
<1>11. ASSUME NEW d \in Conns PROVE Owned(d)'
  <2>1. Owned(d)
    BY DEF OwnInv
  <2>2. CASE d = c
    <3>1. \A x \in Slots : ~Holds(x, c)
      BY <1>1, <2>1, <2>2 DEF Owned
    <3>2. \A x \in Slots : Holds(x, c)' <=> x = y
      BY <1>9, <1>10, <3>1
    <3> QED
      BY <1>6, <1>9, <2>2, <3>2 DEF Owned
  <2>3. CASE d # c
    <3>1. \A x \in Slots : Holds(x, d)' <=> Holds(x, d)
      BY <1>9, <1>10, <2>3
    <3> QED
      BY <1>6, <2>1, <2>3, <3>1 DEF Owned
  <2> QED
    BY <2>2, <2>3
<1>12. Store'
  BY <1>2, <1>6 DEF OwnInv, Store
<1>13. \A l \in DOMAIN loans' : LoanOK(l)'
  BY <1>2, <1>7, LoansKept DEF Leaving
<1>14. NeverClosedUnder'
  <2> SUFFICES ASSUME \A r \in Routers : ~router'[r].aborted, NEW r \in Routers, router'[r].c # 0
               PROVE  conn'[router'[r].c].st # "shut"
    BY DEF NeverClosedUnder
  <2>1. CASE router'[r].c = c
    BY <1>6, <2>1
  <2>2. CASE router'[r].c # c
    <3>1. router'[r].c = router[r].c /\ \A m \in Routers : ~router[m].aborted
      BY <1>7, <2>2
    <3>2. conn[router[r].c].st # "shut" /\ router[r].c \in Conns
      BY <3>1, UserHolds DEF OwnInv, NeverClosedUnder
    <3> QED
      BY <1>6, <2>2, <3>1, <3>2
  <2> QED
    BY <2>1, <2>2
<1> QED
  BY <1>7, <1>11, <1>12, <1>13, <1>14 DEF OwnInv

\* A bucket without its i-th entry and those after it.
Taken(s, i, g, f) ==
    /\ g \in Seq(Entry) /\ Distinct(g) /\ Len(g) <= Len(s) /\ Members(s) \in SUBSET Conns
    /\ Members(g) \subseteq Members(s) /\ Members(f) \subseteq Members(s) /\ Members(g) \cap Members(f) = {}
    /\ i = 0 => Members(s) = Members(f) /\ Members(g) = {}
    /\ i # 0 => /\ Members(s) = Members(g) \cup Members(f) \cup {s[i].c} /\ s[i].c \in Conns
                /\ s[i].c \notin Members(g) /\ s[i].c \notin Members(f)

LEMMA TakeAt ==
    ASSUME NEW s \in Seq(Entry), Distinct(s), NEW i \in 0 .. Len(s)
    PROVE  Taken(s, i, SubSeq(s, 1, i - 1), SubSeq(s, i + 1, Len(s)))
<1>1. PICK f : f = SubSeq(s, i + 1, Len(s))
  OBVIOUS
<1>2. PICK g : g = SubSeq(s, 1, i - 1)
  OBVIOUS
<1>3. PICK e : e = SubSeq(s, 1, i)
  OBVIOUS
<1>4. Parts(s, i, e, f)
  BY <1>1, <1>3, CutAt, Zenon
<1>5. /\ Members(s) = Members(e) \cup Members(f) /\ Members(e) \cap Members(f) = {} /\ Members(s) \in SUBSET Conns
      /\ Distinct(e) /\ e \in Seq(Entry) /\ Len(e) = i
  BY <1>4, Zenon DEF Parts
<1>6. Len(s) \in Nat /\ i \in Nat
  OBVIOUS
<1>7. CASE i = 0
  <2>1. g = <<>> /\ e = <<>>
    BY <1>2, <1>3, <1>7
  <2>2. Members(g) = {} /\ Members(e) = {} /\ Distinct(g) /\ g \in Seq(Entry) /\ Len(g) = 0
    BY <2>1 DEF Members, Distinct
  <2>3. Taken(s, i, g, f)
    BY <1>5, <1>6, <1>7, <2>2 DEF Taken
  <2> QED
    BY <1>1, <1>2, <2>3, Zenon
<1>8. CASE i # 0
  <2>1. g \in Seq(Entry) /\ DOMAIN g = 1 .. i - 1 /\ Len(g) = i - 1 /\ \A j \in 1 .. i - 1 : g[j] = s[j]
    BY <1>2, <1>6, <1>8
  <2>2. DOMAIN e = 1 .. i /\ \A j \in 1 .. i : e[j] = s[j]
    BY <1>3, <1>6, <1>8
  <2>3. i \in DOMAIN e /\ e[i] = s[i] /\ e[i] \in Entry
    BY <1>5, <1>6, <1>8, <2>2
  <2>4. \A j \in DOMAIN g : j \in DOMAIN e /\ j # i /\ g[j] = e[j]
    BY <1>6, <2>1, <2>2
  <2>5. \A j \in DOMAIN e : j = i \/ j \in DOMAIN g
    BY <1>6, <2>1, <2>2
  <2>6. s[i].c \in Conns /\ s[i].c # 0
    BY <2>3, ConnectionsAssumption DEF Entry, Conns
  <2>7. Members(e) = Members(g) \cup {s[i].c}
    BY <2>3, <2>4, <2>5 DEF Members
  <2>8. s[i].c \notin Members(g)
    BY <1>5, <2>3, <2>4, <2>6 DEF Members, Distinct
  <2>9. Distinct(g)
    BY <1>5, <2>4 DEF Distinct
  <2>10. Len(g) <= Len(s)
    BY <1>6, <2>1
  <2>11. /\ Members(g) \subseteq Members(s) /\ Members(f) \subseteq Members(s) /\ Members(g) \cap Members(f) = {}
         /\ Members(s) = Members(g) \cup Members(f) \cup {s[i].c} /\ s[i].c \notin Members(f)
    BY <1>5, <2>7
  <2>12. Taken(s, i, g, f)
    BY <1>5, <1>8, <2>1, <2>6, <2>8, <2>9, <2>10, <2>11 DEF Taken
  <2> QED
    BY <1>1, <1>2, <2>12, Zenon
<1> QED
  BY <1>7, <1>8

LEMMA ClosesTodo ==
    ASSUME NEW cs \in SUBSET Conns, NEW n \in Nat, NEW w, w = Closes(cs)
    PROVE  TodoOK(w, n) /\ Members(w) = cs /\ (IF w = <<>> THEN 0 ELSE w[1].loan) = 0
<1>1. w \in Seq(Item) /\ Distinct(w) /\ Members(w) = cs /\ \A i \in DOMAIN w : Plain(w[i])
  BY ClosesIs
<1>2. \A i \in DOMAIN w : ItemOK(w[i], i, n)
  BY <1>1 DEF Plain, ItemOK
<1>3. w # <<>> => 1 \in DOMAIN w
  BY <1>1
<1> QED
  BY <1>1, <1>2, <1>3 DEF TodoOK, Plain

LEMMA AcquireOwn ==
    ASSUME AbortInv, OwnInv, NEW t \in Threads, Acquire(t)
    PROVE  OwnInv'
<1>1. PICK k : k = <<DialUrl(t), cred>>
  OBVIOUS
<1>2. PICK s : s = IF PoolSize = 0 THEN <<>> ELSE idle[k]
  OBVIOUS
<1>3. PICK i : i = Newest(s)
  OBVIOUS
<1>4. PICK f : f = SubSeq(s, i + 1, Len(s))
  OBVIOUS
<1>5. PICK g : g = SubSeq(s, 1, i - 1)
  OBVIOUS
<1>6. PICK stale : stale = {c \in Members(f) : conn[c].st = "open"}
  OBVIOUS
<1>7. /\ IF i # 0 THEN Dialled(t, s[i].c) ELSE th' = [th EXCEPT ![t].pc = "identify"] /\ UNCHANGED router
      /\ idle' = IF PoolSize = 0 THEN idle ELSE [idle EXCEPT ![k] = g]
      /\ todo' = [todo EXCEPT ![t] = Closes(stale)]
  BY <1>1, <1>2, <1>3, <1>4, <1>5, <1>6, Zenon DEF Acquire
<1>8. th[t].pc = "acquire" /\ todo[t] = <<>> /\ UNCHANGED <<conn, orphans, loans, cred>>
  BY DEF Acquire, At
<1>9. /\ k \in Keys /\ t \in Workers /\ DOMAIN todo = Workers /\ Len(loans) \in Nat
      /\ idle \in [Keys -> Seq(Entry)] /\ \A j \in Keys : Distinct(idle[j]) /\ Len(idle[j]) <= PoolSize
  <2>1. DialUrl(t) \in Servers
    BY <1>8, TopRouter
  <2> QED
    BY <1>1, <2>1 DEF OwnInv, Store, Keys, Workers
<1>10. s = idle[k] /\ s \in Seq(Entry) /\ Distinct(s) /\ Len(s) <= PoolSize /\ Len(s) \in Nat
  <2>1. idle[k] \in Seq(Entry) /\ Distinct(idle[k]) /\ Len(idle[k]) <= PoolSize /\ Len(idle[k]) \in Nat
    BY <1>9
  <2>2. CASE PoolSize = 0
    <3>1. idle[k] = <<>>
      BY <2>1, <2>2
    <3> QED
      BY <1>2, <2>1, <2>2, <3>1
  <2>3. CASE PoolSize # 0
    BY <1>2, <2>1, <2>3
  <2> QED
    BY <2>2, <2>3
<1>11. i \in 0 .. Len(s) /\ (i # 0 => conn[s[i].c].st = "open")
  BY <1>3, <1>10, NewestIn
<1>12. Taken(s, i, g, f)
  BY <1>4, <1>5, <1>10, <1>11, TakeAt, Zenon
<1>13. idle' \in [Keys -> Seq(Entry)] /\ idle'[k] = g /\ \A j \in Keys : j # k => idle'[j] = idle[j]
  <2>1. g \in Seq(Entry)
    BY <1>12, Zenon DEF Taken
  <2>2. CASE PoolSize = 0
    <3>1. s = <<>> /\ Len(s) = 0
      BY <1>2, <2>2
    <3>2. i = 0
      BY <1>11, <3>1
    <3>3. g = <<>>
      BY <1>5, <3>1, <3>2
    <3>4. idle' = idle /\ idle[k] = g
      BY <1>7, <1>10, <2>2, <3>1, <3>3, Zenon
    <3> QED
      BY <1>9, <3>4, Zenon
  <2>3. CASE PoolSize # 0
    BY <1>7, <1>9, <2>1, <2>3
  <2> QED
    BY <2>2, <2>3
<1>14. \A j \in Keys : Distinct(idle'[j]) /\ Len(idle'[j]) <= PoolSize
  <2>1. Distinct(g) /\ Len(g) <= Len(s) /\ Len(g) \in Nat
    BY <1>12 DEF Taken
  <2>2. Len(g) <= PoolSize
    BY <1>10, <2>1, ConnectionsAssumption
  <2> QED
    BY <1>9, <1>13, <2>1, <2>2
<1>15. stale \in SUBSET Conns /\ stale \subseteq Members(f)
  BY <1>6, <1>12 DEF Taken
<1>16. PICK w : w = Closes(stale)
  OBVIOUS
<1>17. TodoOK(w, Len(loans)) /\ Members(w) = stale /\ (IF w = <<>> THEN 0 ELSE w[1].loan) = 0
  BY <1>9, <1>15, <1>16, ClosesTodo
<1>18. DOMAIN todo' = Workers /\ todo'[t] = w /\ \A u \in Workers : u # t => todo'[u] = todo[u]
  BY <1>7, <1>9, <1>16
<1>19. Members(todo[t]) = {} /\ \A u \in Workers : Leaving(u)' = Leaving(u)
  BY <1>8, <1>9, <1>17, <1>18, NoThing DEF Leaving
<1>20. Store'
  <2>1. \A v \in Workers : TodoOK(todo'[v], Len(loans'))
    BY <1>8, <1>17, <1>18 DEF OwnInv, Store
  <2> QED
    BY <1>8, <1>13, <1>14, <1>18, <2>1 DEF OwnInv, Store
<1>21. <<"idle", k>> \in Slots /\ <<"todo", t>> \in Slots
  BY <1>9, SlotIn
<1>22. ASSUME NEW d \in Conns
       PROVE  /\ Holds(<<"idle", k>>, d) <=> d \in Members(s)
              /\ Holds(<<"idle", k>>, d)' <=> d \in Members(g)
              /\ ~Holds(<<"todo", t>>, d)
              /\ Holds(<<"todo", t>>, d)' <=> d \in Members(f) /\ conn[d].st = "open"
  <2>1. Members(todo'[t]) = stale
    BY <1>17, <1>18
  <2> QED
    BY <1>6, <1>10, <1>13, <1>19, <2>1, TodoHolds, IdleHolds
<1>23. CASE i = 0
  <2> DEFINE v == [th[t] EXCEPT !.pc = "identify"]
  <2>1. /\ t \in DOMAIN th /\ DOMAIN th[t] = ThFields /\ Fit(th[t]) /\ router[th[t].r].st # "none" /\ ThreadOK(t)
    BY <1>8, MyThread
  <2>2. th' = [th EXCEPT ![t] = v] /\ router' = router
    BY <1>7, <1>23, <2>1
  <2>3. Fit(v) /\ v.pc = "identify" /\ v.lender = th[t].lender /\ v.r = th[t].r /\ v.target = th[t].target
    BY <1>8, <2>1 DEF Fit, ThFields
  <2> HIDE DEF v
  <2>4. th'[t] = v /\ \A u \in Threads : u # t => th'[u] = th[u]
    BY <2>1, <2>2
  <2>5. Top(t)' = Top(t)
    BY <2>3, <2>4 DEF Top
  <2>6. ThreadOK(t)'
    BY <1>8, <2>1, <2>2, <2>3, <2>4, <2>5 DEF ThreadOK
  <2>7. \A u \in Threads : ThreadOK(u)'
    BY <2>2, <2>4, <2>6, OthersOK
  <2>8. ASSUME NEW d \in Conns PROVE Owned(d)'
    <3> DEFINE a == <<"idle", k>>
               b == <<"todo", t>>
    <3>1. \A y \in Slots \ {a, b} : Holds(y, d)' <=> Holds(y, d)
      <4> DEFINE A == {a, b}
      <4>1. /\ \A u \in Workers : <<"todo", u>> \in A \/ todo'[u] = todo[u]
            /\ \A j \in Keys : <<"idle", j>> \in A \/ idle'[j] = idle[j]
        BY <1>13, <1>18
      <4>2. \A u \in Threads : (th'[u].pc = "borrow" /\ th'[u].new = d <=> th[u].pc = "borrow" /\ th[u].new = d)
               /\ (th'[u].pc \in {"away", "return"} /\ th'[u].c = d <=> th[u].pc \in {"away", "return"} /\ th[u].c = d)
        BY <1>8, <2>3, <2>4
      <4> HIDE DEF A
      <4>3. \A y \in Slots \ A : Holds(y, d)' <=> Holds(y, d)
        BY <1>8, <2>2, <4>1, <4>2, HoldsFrame
      <4> QED
        BY <4>3 DEF A
    <3>2. /\ Holds(a, d) <=> d \in Members(s)
          /\ Holds(a, d)' <=> d \in Members(g)
          /\ ~Holds(b, d)
          /\ Holds(b, d)' <=> d \in Members(f) /\ conn[d].st = "open"
      BY <1>22
    <3>3. Owned(d) /\ conn' = conn /\ Members(s) = Members(f) /\ Members(g) = {}
      BY <1>8, <1>12, <1>23 DEF OwnInv, Taken
    <3> HIDE DEF a, b
    <3>4. a \in Slots /\ b \in Slots
      BY <1>21 DEF a, b
    <3> QED
      BY <3>1, <3>2, <3>3, <3>4, TwoSlots
  <2>9. \A l \in DOMAIN loans' : LoanOK(l)'
    BY <1>8, <1>19, <2>2, LoansKept
  <2>10. \A r \in Routers : RouterOK(r)'
    BY <1>8, <2>2 DEF OwnInv, RouterOK
  <2>11. NeverClosedUnder'
    BY <1>8, <2>2 DEF OwnInv, NeverClosedUnder
  <2> QED
    BY <1>20, <2>7, <2>8, <2>9, <2>10, <2>11 DEF OwnInv
<1>24. CASE i # 0
  <2>1. PICK c : c = s[i].c
    OBVIOUS
  <2>2. /\ c \in Conns /\ Members(s) = Members(g) \cup Members(f) \cup {c} /\ c \notin Members(g) /\ c \notin Members(f)
        /\ Members(g) \cap Members(f) = {}
    BY <1>12, <1>24, <2>1 DEF Taken
  <2>3. conn[c].st = "open" /\ Dialled(t, c)
    BY <1>7, <1>11, <1>24, <2>1
  <2>4. /\ \A u \in Threads : ThreadOK(u)'
        /\ \A r \in Routers : RouterOK(r)'
        /\ \A r \in Routers : router'[r].loan = router[r].loan /\ router'[r].aborted = router[r].aborted
                              /\ router'[r].c \in {router[r].c, c}
        /\ \E y : GainsOnly(y, c)
    BY <1>8, <2>2, <2>3, DialledIs
  <2>5. PICK y : GainsOnly(y, c)
    BY <2>4
  <2>6. y \in Slots /\ \A d \in Conns : ~Holds(y, d) /\ (Holds(y, d)' <=> d = c)
    BY <2>5 DEF GainsOnly
  <2>7. ASSUME NEW d \in Conns PROVE Owned(d)'
    <3> DEFINE a == <<"idle", k>>
               b == <<"todo", t>>
    <3>1. \A x \in Slots \ {a, b, y} : Holds(x, d)' <=> Holds(x, d)
      <4> DEFINE A == {a, b, y}
      <4>1. /\ \A v \in Workers : <<"todo", v>> \in A \/ todo'[v] = todo[v]
            /\ \A j \in Keys : <<"idle", j>> \in A \/ idle'[j] = idle[j]
            /\ y \in A
        BY <1>13, <1>18
      <4> HIDE DEF A
      <4>2. \A x \in Slots \ A : Holds(x, d)' <=> Holds(x, d)
        BY <1>8, <2>5, <4>1, GainFrame
      <4> QED
        BY <4>2 DEF A
    <3>2. /\ Holds(a, d) <=> d \in Members(s)
          /\ Holds(a, d)' <=> d \in Members(g)
          /\ ~Holds(b, d)
          /\ Holds(b, d)' <=> d \in Members(f) /\ conn[d].st = "open"
      BY <1>22
    <3>3. Owned(d) /\ conn' = conn
      BY <1>8 DEF OwnInv
    <3>4. /\ d \in Members(s) <=> d \in Members(g) \/ d \in Members(f) \/ d = c
          /\ ~(d \in Members(g) /\ d \in Members(f)) /\ ~(d \in Members(g) /\ d = c) /\ ~(d \in Members(f) /\ d = c)
      BY <2>2
    <3> HIDE DEF a, b
    <3>5. a \in Slots /\ b \in Slots /\ ~Holds(y, d) /\ (Holds(y, d)' <=> d = c)
      BY <1>21, <2>6 DEF a, b
    <3> QED
      BY <2>6, <3>1, <3>2, <3>3, <3>4, <3>5, ThreeSlots
  <2>8. \A l \in DOMAIN loans' : LoanOK(l)'
    BY <1>8, <1>19, <2>4, LoansKept
  <2>9. NeverClosedUnder'
    <3> SUFFICES ASSUME \A r \in Routers : ~router'[r].aborted, NEW r \in Routers, router'[r].c # 0
                 PROVE  conn'[router'[r].c].st # "shut"
      BY DEF NeverClosedUnder
    <3>1. router'[r].c = c \/ router'[r].c = router[r].c
      BY <2>4
    <3>2. \A m \in Routers : ~router[m].aborted
      BY <2>4
    <3> QED
      BY <1>8, <2>3, <3>1, <3>2 DEF OwnInv, NeverClosedUnder
  <2> QED
    BY <1>20, <2>4, <2>7, <2>8, <2>9 DEF OwnInv
<1> QED
  BY <1>23, <1>24

-----------------------------------------------------------------------------
(* Loans.                                                                  *)

LEMMA LeavingIn ==
    ASSUME OwnInv, NEW u \in Workers
    PROVE  Leaving(u) \in 0 .. Len(loans) /\ Len(loans) \in Nat
<1>1. TodoOK(todo[u], Len(loans)) /\ Len(loans) \in Nat
  BY DEF OwnInv, Store
<1>2. CASE todo[u] = <<>>
  BY <1>1, <1>2 DEF Leaving
<1>3. CASE todo[u] # <<>>
  <2>1. todo[u] \in Seq(Item) /\ 1 \in DOMAIN todo[u]
    BY <1>1, <1>3 DEF TodoOK
  <2>2. ItemOK(todo[u][1], 1, Len(loans)) /\ Leaving(u) = todo[u][1].loan
    BY <1>1, <1>3, <2>1 DEF TodoOK, Leaving
  <2> QED
    BY <1>1, <2>2 DEF ItemOK
<1> QED
  BY <1>2, <1>3

\* Router m joins router n in its loan, or in one made for them.
Joins(n, m) ==
    /\ n # m /\ router[n].c # 0 /\ router[m].c = 0 /\ router[m].loan = 0 /\ loans' = Shared(n)
    /\ \A r \in Routers \ {m, n} : router'[r].c = router[r].c /\ router'[r].loan = router[r].loan
    /\ router'[n].c = router[n].c /\ router'[n].loan = LoanOf(n)
    /\ router'[m].c = router[n].c /\ router'[m].loan = LoanOf(n)

LEMMA JoinsOld ==
    ASSUME OwnInv, NEW n \in Routers, NEW m \in Routers, Joins(n, m), router[n].loan # 0,
           UNCHANGED <<conn, idle, orphans, todo, cred>>, \A u \in Threads : ClaimsKept(u)
    PROVE  /\ Store' /\ (\A l \in DOMAIN loans' : LoanOK(l)') /\ (\A c \in Conns : Owned(c)')
           /\ LoanOf(n) \in 0 .. Len(loans') /\ loans'[LoanOf(n)].c = router[n].c /\ Len(loans) <= Len(loans')
           /\ \A l \in DOMAIN loans : loans'[l].c = loans[l].c
<1>1. PICK l : l = router[n].loan
  OBVIOUS
<1>2. RouterOK(n) /\ loans \in Seq(Loan) /\ Len(loans) \in Nat
  BY DEF OwnInv, Store
<1>3. l \in DOMAIN loans /\ l # 0 /\ loans[l].c = router[n].c /\ LoanOf(n) = l
  BY <1>1, <1>2 DEF RouterOK, LoanOf
<1>4. loans[l] \in Loan /\ LoanOK(l) /\ loans[l].holders > 0
  BY <1>1, <1>3, HeldLoan
<1>5. PICK x : x = [loans[l] EXCEPT !.holders = @ + 1]
  OBVIOUS
<1>6. x \in Loan /\ x.c = loans[l].c /\ x.holders = loans[l].holders + 1 /\ x.at = loans[l].at
  BY <1>4, <1>5 DEF Loan
<1>7. loans' = [loans EXCEPT ![l] = x]
  BY <1>1, <1>3, <1>5 DEF Joins, Shared
<1>8. /\ loans' \in Seq(Loan) /\ Len(loans') = Len(loans) /\ DOMAIN loans' = DOMAIN loans
      /\ loans'[l] = x /\ \A k \in DOMAIN loans : k # l => loans'[k] = loans[k]
  BY <1>2, <1>3, <1>6, <1>7
<1>9. Store'
  BY <1>8 DEF OwnInv, Store
<1>10. UsersOf(l)' = UsersOf(l) \cup {m} /\ m \notin UsersOf(l)
  BY <1>1, <1>3 DEF UsersOf, Joins
<1>11. \A k : LostOf(k)' = LostOf(k) /\ LeaversOf(k)' = LeaversOf(k)
  BY DEF LostOf, LeaversOf, Leaving
<1>12. ASSUME NEW k \in DOMAIN loans' PROVE LoanOK(k)'
  <2>1. CASE k = l
    <3>1. Cardinality(UsersOf(l)') = Cardinality(UsersOf(l)) + 1
      BY <1>10, HoldersFinite, OneMore
    <3>2. Cardinality(UsersOf(l)) \in Nat /\ Cardinality(LostOf(l)) \in Nat /\ Cardinality(LeaversOf(l)) \in Nat
      BY HoldersFinite
    <3> QED
      BY <1>4, <1>6, <1>8, <1>11, <2>1, <3>1, <3>2 DEF LoanOK
  <2>2. CASE k # l
    <3>1. loans'[k] = loans[k] /\ LoanOK(k) /\ k # 0
      BY <1>8, <2>2, HeldLoan
    <3>2. UsersOf(k)' = UsersOf(k)
      BY <1>1, <1>3, <2>2, <3>1 DEF UsersOf, Joins
    <3> QED
      BY <1>11, <3>1, <3>2 DEF LoanOK
  <2> QED
    BY <2>1, <2>2
<1>13. ASSUME NEW c \in Conns PROVE Owned(c)'
  <2>1. \A r \in Routers : router'[r].c = c /\ router'[r].loan = 0 <=> router[r].c = c /\ router[r].loan = 0
    BY <1>1, <1>3 DEF Joins, Conns
  <2>2. \A k \in Nat : k \in DOMAIN loans' /\ loans'[k].c = c <=> k \in DOMAIN loans /\ loans[k].c = c
    BY <1>6, <1>8
  <2>3. \A y \in Slots \ {} : Holds(y, c)' <=> Holds(y, c)
    BY <2>1, <2>2, HoldsFrame DEF ClaimsKept
  <2> QED
    BY <2>3 DEF OwnInv, Owned
<1> QED
  BY <1>2, <1>3, <1>6, <1>8, <1>9, <1>12, <1>13

LEMMA JoinsNew ==
    ASSUME OwnInv, NEW n \in Routers, NEW m \in Routers, Joins(n, m), router[n].loan = 0,
           UNCHANGED <<conn, idle, orphans, todo, cred>>, \A u \in Threads : ClaimsKept(u)
    PROVE  /\ Store' /\ (\A l \in DOMAIN loans' : LoanOK(l)') /\ (\A c \in Conns : Owned(c)')
           /\ LoanOf(n) \in 0 .. Len(loans') /\ loans'[LoanOf(n)].c = router[n].c /\ Len(loans) <= Len(loans')
           /\ \A l \in DOMAIN loans : loans'[l].c = loans[l].c
<1>1. PICK l : l = Len(loans) + 1
  OBVIOUS
<1>2. RouterOK(n) /\ loans \in Seq(Loan) /\ Len(loans) \in Nat /\ LoanOf(n) = l /\ DOMAIN loans = 1 .. Len(loans)
  BY <1>1 DEF OwnInv, Store, LoanOf
<1>3. PICK x : x = [c |-> router[n].c, at |-> router[n].url, holders |-> 2, spoiled |-> FALSE]
  OBVIOUS
<1>4. x \in Loan /\ x.c = router[n].c /\ x.holders = 2 /\ x.at \in Servers
  BY <1>2, <1>3 DEF Loan, RouterOK
<1>5. loans' = Append(loans, x)
  BY <1>3 DEF Joins, Shared
<1>6. loans' \in Seq(Loan) /\ Len(loans') = l /\ loans'[l] = x /\ \A k \in DOMAIN loans : loans'[k] = loans[k]
  BY <1>1, <1>2, <1>4, <1>5
<1>7. l \in Nat /\ l \notin DOMAIN loans /\ l # 0 /\ DOMAIN loans' = DOMAIN loans \cup {l} /\ Len(loans) <= Len(loans')
  BY <1>1, <1>2, <1>6
<1>8. Store'
  <2>1. \A u \in Workers : TodoOK(todo'[u], Len(loans'))
    BY <1>2, <1>6, <1>7, TodoGrows DEF OwnInv, Store
  <2>2. \A i \in DOMAIN orphans' : orphans'[i].loan \in 0 .. Len(loans')
    <3>1. \A i \in DOMAIN orphans : orphans[i].loan \in 0 .. Len(loans)
      BY DEF OwnInv, Store
    <3>2. \A j \in 0 .. Len(loans) : j \in 0 .. Len(loans')
      BY <1>1, <1>2, <1>6
    <3> QED
      BY <3>1, <3>2
  <2> QED
    BY <1>6, <2>1, <2>2 DEF OwnInv, Store
<1>9. \A r \in Routers : router[r].loan # l
  BY <1>1, <1>2 DEF OwnInv, RouterOK
<1>10. UsersOf(l)' = {n, m} /\ n # m
  BY <1>2, <1>9 DEF UsersOf, Joins
<1>11. LostOf(l)' = {} /\ LeaversOf(l)' = {}
  <2>1. \A i \in DOMAIN orphans : orphans[i].loan # l
    BY <1>1, <1>2 DEF OwnInv, Store
  <2>2. \A u \in Workers : Leaving(u) # l
    BY <1>1, <1>2, LeavingIn
  <2> QED
    BY <2>1, <2>2 DEF LostOf, LostIn, LeaversOf, Leaving
<1>12. ASSUME NEW k \in DOMAIN loans' PROVE LoanOK(k)'
  <2>1. CASE k = l
    <3>1. Cardinality({n, m}) = 2 /\ Cardinality({}) = 0
      <4>1. IsFiniteSet({n}) /\ Cardinality({n}) = 1
        BY FS_Singleton
      <4>2. {n, m} = {n} \cup {m} /\ m \notin {n}
        BY <1>10
      <4>3. Cardinality({n, m}) = Cardinality({n}) + 1
        BY <4>1, <4>2, OneMore
      <4>4. Cardinality({}) = 0
        BY FS_EmptySet
      <4> QED
        BY <4>1, <4>3, <4>4
    <3>2. loans'[l].holders = 2 /\ loans'[l].c # 0 /\ loans'[l].at \in Servers
      BY <1>4, <1>6 DEF Joins
    <3>3. Cardinality(UsersOf(l)') = 2 /\ Cardinality(LostOf(l)') = 0 /\ Cardinality(LeaversOf(l)') = 0
      BY <1>10, <1>11, <3>1
    <3> QED
      BY <2>1, <3>2, <3>3 DEF LoanOK
  <2>2. CASE k # l
    <3>1. k \in DOMAIN loans /\ loans'[k] = loans[k] /\ LoanOK(k) /\ k # 0
      BY <1>6, <1>7, <2>2, HeldLoan
    <3>2. UsersOf(k)' = UsersOf(k)
      BY <1>2, <2>2, <3>1 DEF UsersOf, Joins
    <3>3. LostOf(k)' = LostOf(k) /\ LeaversOf(k)' = LeaversOf(k)
      BY DEF LostOf, LeaversOf, Leaving
    <3> QED
      BY <3>1, <3>2, <3>3 DEF LoanOK
  <2> QED
    BY <2>1, <2>2
<1>13. ASSUME NEW c \in Conns PROVE Owned(c)'
  <2> DEFINE a == <<"router", n>>
             b == <<"loan", l>>
  <2>1. \A y \in Slots \ {a, b} : Holds(y, c)' <=> Holds(y, c)
    <3> DEFINE A == {a, b}
    <3>1. \A r \in Routers : <<"router", r>> \in A \/ (router'[r].c = c /\ router'[r].loan = 0 <=> router[r].c = c /\ router[r].loan = 0)
      BY <1>2, <1>7 DEF Joins, Conns
    <3>2. \A k \in Nat : <<"loan", k>> \in A \/ (k \in DOMAIN loans' /\ loans'[k].c = c <=> k \in DOMAIN loans /\ loans[k].c = c)
      BY <1>6, <1>7
    <3> HIDE DEF A
    <3>3. \A y \in Slots \ A : Holds(y, c)' <=> Holds(y, c)
      BY <3>1, <3>2, HoldsFrame DEF ClaimsKept
    <3> QED
      BY <3>3 DEF A
  <2>2. /\ Holds(a, c) <=> c = router[n].c
        /\ ~Holds(a, c)'
    BY <1>2, <1>7, RouterHolds DEF Joins
  <2>3. /\ ~Holds(b, c)
        /\ Holds(b, c)' <=> c = router[n].c
    BY <1>4, <1>6, <1>7, LoanHolds
  <2>4. Owned(c)
    BY DEF OwnInv
  <2> HIDE DEF a, b
  <2>5. a \in Slots /\ b \in Slots
    BY <1>7, SlotIn DEF a, b
  <2> QED
    BY <2>1, <2>2, <2>3, <2>4, <2>5, TwoSlots
<1> QED
  BY <1>2, <1>4, <1>6, <1>7, <1>8, <1>12, <1>13

LEMMA JoinsOwn ==
    ASSUME OwnInv, NEW n \in Routers, NEW m \in Routers, Joins(n, m),
           UNCHANGED <<conn, idle, orphans, todo, cred>>, \A u \in Threads : ClaimsKept(u), \A u \in Threads : ThreadOK(u)',
           \A r \in Routers : r # n /\ r # m => router'[r] = router[r],
           router'[n].url \in Servers, router'[n].lender = 0, router'[n].st # "none",
           router'[m].url \in Servers, router'[m].lender = 0, router'[m].st # "none",
           \A r \in Routers : router[r].aborted => router'[r].aborted
    PROVE  OwnInv'
<1>1. /\ Store' /\ (\A l \in DOMAIN loans' : LoanOK(l)') /\ (\A c \in Conns : Owned(c)')
      /\ LoanOf(n) \in 0 .. Len(loans') /\ loans'[LoanOf(n)].c = router[n].c /\ Len(loans) <= Len(loans')
      /\ \A l \in DOMAIN loans : loans'[l].c = loans[l].c
  BY JoinsOld, JoinsNew
<1>2. /\ n # m /\ router[n].c # 0 /\ router'[n].c = router[n].c /\ router'[n].loan = LoanOf(n)
      /\ router'[m].c = router[n].c /\ router'[m].loan = LoanOf(n)
  BY DEF Joins
<1>3. RouterOK(n) /\ loans \in Seq(Loan) /\ loans' \in Seq(Loan)
  BY <1>1 DEF OwnInv, Store
<1>4. ASSUME NEW r \in Routers PROVE RouterOK(r)'
  <2>1. CASE r \in {n, m}
    <3>1. router[n].c \in 0 .. MaxConns
      BY <1>3 DEF RouterOK
    <3>2. /\ router'[r].c = router[n].c /\ router'[r].loan = LoanOf(n) /\ router'[r].url \in Servers /\ router'[r].lender = 0
          /\ router'[r].st # "none"
      BY <1>2, <2>1
    <3> QED
      BY <1>1, <1>2, <3>1, <3>2 DEF RouterOK
  <2>2. CASE r \notin {n, m}
    <3>1. RouterOK(r) /\ router'[r] = router[r]
      BY <2>2 DEF OwnInv
    <3>2. router[r].loan \in 0 .. Len(loans') /\ (router[r].loan # 0 => router[r].loan \in DOMAIN loans)
      <4>1. router[r].loan \in 0 .. Len(loans) /\ Len(loans) \in Nat /\ Len(loans') \in Nat
        BY <1>3, <3>1 DEF RouterOK
      <4> QED
        BY <1>1, <1>3, <4>1
    <3> QED
      BY <1>1, <3>1, <3>2 DEF RouterOK
  <2> QED
    BY <2>1, <2>2
<1>5. NeverClosedUnder'
  <2> SUFFICES ASSUME \A r \in Routers : ~router'[r].aborted, NEW r \in Routers, router'[r].c # 0
               PROVE  conn[router'[r].c].st # "shut"
    BY DEF NeverClosedUnder
  <2>1. \A s \in Routers : ~router[s].aborted
    OBVIOUS
  <2>2. router'[r].c = router[n].c \/ router'[r].c = router[r].c
    BY <1>2
  <2> QED
    BY <1>2, <2>1, <2>2 DEF OwnInv, NeverClosedUnder
<1> QED
  BY <1>1, <1>4, <1>5 DEF OwnInv

LEMMA InstalledOwn ==
    ASSUME AbortInv, OwnInv, NEW t \in Threads, Installed(t)
    PROVE  OwnInv'
<1>1. PICK n : n = Top(t)
  OBVIOUS
<1>2. PICK q : q = router[n]
  OBVIOUS
<1>3. PICK m : m = th[t].r
  OBVIOUS
<1>4. /\ th[t].pc = "installed" /\ todo[t] = <<>> /\ UNCHANGED <<conn, idle, orphans, cred>>
  BY DEF Installed, At
<1>5. /\ t \in DOMAIN th /\ DOMAIN th[t] = ThFields /\ ThreadOK(t) /\ Connecting(t) /\ Fit(th[t]) /\ m \in Routers
      /\ router[m].st # "none" /\ DOMAIN router = Routers
  BY <1>3, <1>4, MyThread
<1>6. n \in Routers /\ DOMAIN q = RouterFields /\ RouterOK(n) /\ DOMAIN router[m] = RouterFields
  BY <1>1, <1>2, <1>4, <1>5, TopRouter, MyThread
<1>7. lock[n] = t /\ th[t].new = q.c /\ q.c # 0 /\ q.c \in 0 .. MaxConns /\ q.url \in Servers
  BY <1>1, <1>2, <1>4, <1>5, <1>6 DEF Connecting, ThreadOK, RouterOK
<1>8. ASSUME router' = [router EXCEPT ![n].c = 0, ![n].loan = 0],
             todo' = [todo EXCEPT ![t] = LetGo(q.c, q.loan, q.url, TRUE)],
             th' = [th EXCEPT ![t] = AtRest], UNCHANGED loans
      PROVE  OwnInv'
  <2> DEFINE v == [q EXCEPT !.c = 0, !.loan = 0]
             w == AtRest
  <2>1. router' = [router EXCEPT ![n] = v]
    BY <1>2, <1>5, <1>6, <1>8
  <2>2. v.c = 0 /\ v.loan = 0 /\ v.url = q.url /\ v.st = q.st /\ v.aborted = q.aborted
    BY <1>6 DEF RouterFields
  <2>3. w.pc = "idle" /\ w.lender = 0 /\ Fit(w) /\ th' = [th EXCEPT ![t] = w]
    BY <1>8, RestFits DEF AtRest
  <2> HIDE DEF v, w
  <2>4. todo' = [todo EXCEPT ![t] = LetGo(router[n].c, router[n].loan, router[n].url, TRUE)]
    BY <1>2, <1>8
  <2>5. v.url \in Servers /\ v.st = router[n].st /\ v.aborted = router[n].aborted
    BY <1>2, <1>7, <2>2
  <2> QED
    BY <1>4, <1>6, <1>7, <1>8, <2>1, <2>2, <2>3, <2>4, <2>5, PlainLetsGo
<1>9. ASSUME n = m, th' = [th EXCEPT ![t].pc = "using", ![t].c = th[t].new, ![t].new = 0],
             UNCHANGED <<router, loans, todo>>
      PROVE  OwnInv'
  <2> DEFINE w == [th[t] EXCEPT !.pc = "using", !.c = th[t].new, !.new = 0]
  <2>1. th' = [th EXCEPT ![t] = w]
    BY <1>5, <1>9
  <2>2. th[t].lender = 0
    BY <1>1, <1>3, <1>5, <1>9 DEF Connecting, Top
  <2>3. w.pc = "using" /\ w.r = m /\ w.lender = 0 /\ Fit(w)
    BY <1>3, <1>4, <1>5, <2>2, ConnectionsAssumption DEF ThFields, Fit
  <2> HIDE DEF w
  <2> QED
    BY <1>4, <1>5, <1>9, <2>1, <2>3, PlainOwn
<1>10. ASSUME n # m, loans' = Shared(n),
              router' = [router EXCEPT ![n].loan = LoanOf(n), ![m].loan = LoanOf(n), ![m].c = th[t].new],
              th' = [th EXCEPT ![t].lender = 0], UNCHANGED todo
       PROVE  OwnInv'
  <2> DEFINE v == [router[n] EXCEPT !.loan = LoanOf(n)]
             x == [router[m] EXCEPT !.loan = LoanOf(n), !.c = th[t].new]
             w == [th[t] EXCEPT !.lender = 0]
  <2>1. th[t].lender = n /\ n # 0
    BY <1>1, <1>3, <1>6, <1>10, ConnectionsAssumption DEF Top
  <2>2. /\ router[m].c = 0 /\ router[m].loan = 0 /\ router[m].lender = 0 /\ lock[m] = t /\ router[n].st # "none"
        /\ router[n].lender = 0 /\ router[n].c = q.c
    BY <1>2, <1>3, <1>5, <1>6, <1>7, <2>1 DEF ThreadOK, Connecting, RouterOK
  <2>3. th' = [th EXCEPT ![t] = w]
    BY <1>5, <1>10
  <2>4. w.pc = "installed" /\ w.r = m /\ w.lender = 0 /\ w.new = q.c /\ Fit(w)
    BY <1>3, <1>4, <1>5, <1>7 DEF ThFields, Fit
  <2>5. /\ v.loan = LoanOf(n) /\ v.c = router[n].c /\ v.url = router[n].url /\ v.lender = router[n].lender /\ v.st = router[n].st
        /\ v.aborted = router[n].aborted
    BY <1>2, <1>6 DEF RouterFields
  <2>6. /\ x.loan = LoanOf(n) /\ x.c = th[t].new /\ x.url = router[m].url /\ x.lender = router[m].lender /\ x.st = router[m].st
        /\ x.aborted = router[m].aborted
    BY <1>6 DEF RouterFields
  <2>7. router'[n] = v /\ router'[m] = x /\ \A r \in Routers : r # n /\ r # m => router'[r] = router[r]
    BY <1>5, <1>6, <1>10
  <2> HIDE DEF v, x, w
  <2>8. th'[t] = w /\ \A u \in Threads : u # t => th'[u] = th[u]
    BY <1>5, <2>3
  <2>9. Joins(n, m)
    <3>1. router[n].c # 0 /\ router'[n].c = router[n].c /\ router'[n].loan = LoanOf(n)
      BY <1>7, <2>2, <2>5, <2>7
    <3>2. router'[m].c = router[n].c /\ router'[m].loan = LoanOf(n)
      BY <1>7, <2>2, <2>6, <2>7
    <3>3. \A r \in Routers \ {m, n} : router'[r].c = router[r].c /\ router'[r].loan = router[r].loan
      BY <2>7
    <3> QED
      BY <1>10, <2>2, <3>1, <3>2, <3>3 DEF Joins
  <2>10. ThreadOK(t)'
    <3>1. Top(t)' = m
      BY <2>4, <2>8 DEF Top
    <3>2. router'[m].c = q.c /\ router'[m].st # "none"
      BY <1>5, <1>7, <2>6, <2>7
    <3> QED
      BY <1>7, <2>4, <2>8, <3>1, <3>2 DEF ThreadOK
  <2>11. \A u \in Threads : ThreadOK(u)'
    <3>1. ~InUse(t, n) /\ ~InUse(t, m)
      BY <1>7, <2>2, FreeToDrop
    <3>2. \A r \in Routers : router[r].st # "none" => router'[r].st # "none"
      BY <2>5, <2>6, <2>7
    <3>3. \A r \in Routers : InUse(t, r) => router'[r] = router[r]
      BY <2>7, <3>1
    <3> QED
      BY <2>8, <2>10, <3>2, <3>3, OthersOK
  <2>12. \A u \in Threads : ClaimsKept(u)
    BY <1>4, <2>4, <2>8 DEF ClaimsKept
  <2>13. /\ router'[n].url \in Servers /\ router'[n].lender = 0 /\ router'[n].st # "none"
         /\ router'[m].url \in Servers /\ router'[m].lender = 0 /\ router'[m].st # "none"
    <3>1. RouterOK(m)
      BY <1>5 DEF OwnInv
    <3> QED
      BY <1>2, <1>5, <1>7, <2>2, <2>5, <2>6, <2>7, <3>1 DEF RouterOK
  <2>14. \A r \in Routers : router'[r].aborted = router[r].aborted
    BY <2>5, <2>6, <2>7
  <2>15. \A r \in Routers : router[r].aborted => router'[r].aborted
    BY <2>14, Zenon
  <2> QED
    BY <1>4, <1>5, <1>6, <1>10, <2>7, <2>9, <2>11, <2>12, <2>13, <2>15, JoinsOwn
<1>11. \/ /\ router' = [router EXCEPT ![n].c = 0, ![n].loan = 0]
          /\ todo' = [todo EXCEPT ![t] = LetGo(q.c, q.loan, q.url, TRUE)]
          /\ th' = [th EXCEPT ![t] = AtRest] /\ UNCHANGED loans
       \/ /\ n = m /\ th' = [th EXCEPT ![t].pc = "using", ![t].c = th[t].new, ![t].new = 0]
          /\ UNCHANGED <<router, loans, todo>>
       \/ /\ n # m /\ loans' = Shared(n)
          /\ router' = [router EXCEPT ![n].loan = LoanOf(n), ![m].loan = LoanOf(n), ![m].c = th[t].new]
          /\ th' = [th EXCEPT ![t].lender = 0] /\ UNCHANGED todo
  BY <1>1, <1>2, <1>3, Zenon DEF Installed
<1> QED
  BY <1>8, <1>9, <1>10, <1>11, Zenon

\* A router not made yet has no connection, and nobody uses it.
LEMMA Unmade ==
    ASSUME AbortInv, OwnInv, NEW n \in Routers, router[n].st = "none"
    PROVE  /\ router[n].c = 0 /\ router[n].loan = 0 /\ ~router[n].aborted
           /\ \A t : ~InUse(t, n)
<1>1. router[n].c = 0 /\ router[n].loan = 0 /\ ~router[n].aborted
  BY DEF OwnInv, RouterOK
<1>2. ASSUME NEW t, InUse(t, n) PROVE FALSE
  <2>1. PICK u \in Threads : u # t /\ th[u].pc \notin {"idle", "clear"} /\ n \in {th[u].r, th[u].lender} /\ lock[n] = u
    BY <1>2 DEF InUse
  <2>2. ThreadOK(u) /\ Connecting(u)
    BY MyThread
  <2>3. th[u].lender = n => th[u].lender # 0
    BY ConnectionsAssumption
  <2> QED
    BY <2>1, <2>2, <2>3 DEF ThreadOK, Connecting
<1> QED
  BY <1>1, <1>2

\* Router n takes over what router r has.
LEMMA HandsOver ==
    ASSUME OwnInv, NEW r \in Routers, NEW n \in Routers, r # n, router[r].c # 0, router[n].c = 0, router[n].loan = 0,
           router'[n].c = router[r].c, router'[n].loan = router[r].loan, router'[r].c = 0, router'[r].loan = 0,
           \A m \in Routers : m # r /\ m # n => router'[m] = router[m],
           UNCHANGED <<conn, idle, orphans, loans, todo, cred>>, \A u \in Threads : ClaimsKept(u)
    PROVE  Store' /\ (\A l \in DOMAIN loans' : LoanOK(l)') /\ (\A c \in Conns : Owned(c)')
<1>1. Store'
  BY DEF OwnInv, Store
<1>2. ASSUME NEW l \in DOMAIN loans' PROVE LoanOK(l)'
  <2>1. LoanOK(l) /\ l # 0 /\ LostOf(l)' = LostOf(l) /\ LeaversOf(l)' = LeaversOf(l)
    BY HeldLoan DEF LostOf, LeaversOf, Leaving
  <2>2. CASE router[r].loan = l
    <3> DEFINE S == UsersOf(l) \ {r}
    <3>1. IsFiniteSet(S) /\ Cardinality(S) = Cardinality(UsersOf(l)) - 1 /\ Cardinality(UsersOf(l)) \in Nat
      <4>1. r \in UsersOf(l)
        BY <2>2 DEF UsersOf
      <4> QED
        BY <4>1, HoldersFinite, OneFewer
    <3>2. UsersOf(l)' = S \cup {n} /\ n \notin S
      BY <2>1, <2>2 DEF UsersOf
    <3> HIDE DEF S
    <3>3. Cardinality(UsersOf(l)') = Cardinality(UsersOf(l))
      BY <3>1, <3>2, OneMore
    <3> QED
      BY <2>1, <3>3 DEF LoanOK
  <2>3. CASE router[r].loan # l
    <3>1. UsersOf(l)' = UsersOf(l)
      BY <2>1, <2>3 DEF UsersOf
    <3> QED
      BY <2>1, <3>1 DEF LoanOK
  <2> QED
    BY <2>2, <2>3
<1>3. ASSUME NEW c \in Conns PROVE Owned(c)'
  <2> DEFINE a == <<"router", r>>
             b == <<"router", n>>
  <2>1. \A y \in Slots \ {a, b} : Holds(y, c)' <=> Holds(y, c)
    <3> DEFINE A == {a, b}
    <3>1. \A m \in Routers : <<"router", m>> \in A \/ router'[m] = router[m]
      OBVIOUS
    <3> HIDE DEF A
    <3>2. \A y \in Slots \ A : Holds(y, c)' <=> Holds(y, c)
      BY <3>1, HoldsFrame DEF ClaimsKept
    <3> QED
      BY <3>2 DEF A
  <2>2. /\ Holds(a, c) <=> router[r].c = c /\ router[r].loan = 0
        /\ Holds(b, c)' <=> router[r].c = c /\ router[r].loan = 0
        /\ ~Holds(b, c) /\ ~Holds(a, c)'
    BY RouterHolds DEF Conns
  <2>3. Owned(c)
    BY DEF OwnInv
  <2> HIDE DEF a, b
  <2>4. a \in Slots /\ b \in Slots
    BY SlotIn DEF a, b
  <2> QED
    BY <2>1, <2>2, <2>3, <2>4, TwoSlots
<1> QED
  BY <1>1, <1>2, <1>3

LEMMA PinOwn ==
    ASSUME AbortInv, OwnInv, NEW t \in Threads, Pin(t)
    PROVE  OwnInv'
<1>1. PICK r \in Routers, n \in Routers, transfer \in BOOLEAN :
       LET q == router[r]
           over == transfer \/ q.lent
           made == [NoRouter EXCEPT !.st = "live", !.sticky = TRUE, !.reconnect = FALSE,
                                    !.url = q.url, !.c = q.c,
                                    !.loan = IF over THEN q.loan ELSE LoanOf(r)]
       IN /\ Live(r) /\ lock[r] = Nobody /\ q.c # 0 /\ Fresh(n)
          /\ router' = [router EXCEPT ![n] = made,
                                      ![r].c = IF over THEN 0 ELSE @,
                                      ![r].loan = IF over THEN 0 ELSE LoanOf(r)]
          /\ loans' = IF over THEN loans ELSE Shared(r)
  BY Zenon DEF Pin
<1>2. PICK q : q = router[r]
  OBVIOUS
<1>3. PICK over \in BOOLEAN : over <=> transfer \/ q.lent
  OBVIOUS
<1>4. PICK made : made = [NoRouter EXCEPT !.st = "live", !.sticky = TRUE, !.reconnect = FALSE,
                                    !.url = q.url, !.c = q.c,
                                    !.loan = IF over THEN q.loan ELSE LoanOf(r)]
  OBVIOUS
<1>5. /\ q.st = "live" /\ lock[r] = Nobody /\ q.c # 0 /\ router[n].st = "none" /\ r # n
  BY <1>1, <1>2 DEF Live, Fresh
<1>6. /\ router' = [router EXCEPT ![n] = made, ![r].c = IF over THEN 0 ELSE @, ![r].loan = IF over THEN 0 ELSE LoanOf(r)]
      /\ loans' = IF over THEN loans ELSE Shared(r)
  <2>1. over = (transfer \/ q.lent)
    BY <1>3
  <2> QED
    BY <1>1, <1>2, <1>4, <2>1, Zenon
<1>7. UNCHANGED <<conn, idle, orphans, th, todo, cred>> /\ RouterOK(r) /\ DOMAIN router = Routers /\ DOMAIN q = RouterFields
  BY <1>2, MyThread DEF Pin
<1>8. router[n].c = 0 /\ router[n].loan = 0 /\ ~router[n].aborted /\ ~InUse(Nobody, n) /\ ~InUse(Nobody, r)
  BY <1>5, Unmade, FreeToDrop
<1>9. /\ made.st = "live" /\ made.url = q.url /\ made.c = q.c /\ made.loan = (IF over THEN q.loan ELSE LoanOf(r)) /\ made.lender = 0
      /\ ~made.aborted
  BY <1>4 DEF NoRouter
<1>10. PICK v : v = [q EXCEPT !.c = IF over THEN 0 ELSE @, !.loan = IF over THEN 0 ELSE LoanOf(r)]
  OBVIOUS
<1>11. /\ v.c = (IF over THEN 0 ELSE q.c) /\ v.loan = (IF over THEN 0 ELSE LoanOf(r)) /\ v.st = q.st /\ v.url = q.url
       /\ v.lender = q.lender /\ v.aborted = q.aborted
  BY <1>7, <1>10 DEF RouterFields
<1>12. router'[n] = made /\ router'[r] = v /\ \A m \in Routers : m # n /\ m # r => router'[m] = router[m]
  BY <1>2, <1>5, <1>6, <1>7, <1>10
<1>13. \A u \in Threads : ThreadOK(u)'
  <2>1. \A m \in Routers : router[m].st # "none" => router'[m].st # "none"
    BY <1>2, <1>5, <1>9, <1>11, <1>12
  <2>2. \A m \in Routers : InUse(Nobody, m) => router'[m] = router[m]
    BY <1>8, <1>12
  <2> QED
    BY <1>7, <2>1, <2>2, OthersOK, ConnectionsAssumption
<1>14. \A u \in Threads : ClaimsKept(u)
  BY <1>7 DEF ClaimsKept
<1>15. \A m \in Routers : router[m].aborted => router'[m].aborted
  <2>1. router[r].aborted => router'[r].aborted
    BY <1>2, <1>11, <1>12, Zenon
  <2> QED
    BY <1>8, <1>12, <2>1, Zenon
<1>16. q.url \in Servers /\ q.c \in 0 .. MaxConns /\ q.loan \in 0 .. Len(loans) /\ q.lender = 0
  BY <1>2, <1>5, <1>7 DEF RouterOK
<1>17. CASE over
  <2>1. loans' = loans /\ router'[n].c = router[r].c /\ router'[n].loan = router[r].loan /\ router'[r].c = 0 /\ router'[r].loan = 0
    BY <1>2, <1>6, <1>9, <1>11, <1>12, <1>17
  <2>2. Store' /\ (\A l \in DOMAIN loans' : LoanOK(l)') /\ (\A c \in Conns : Owned(c)')
    BY <1>2, <1>5, <1>7, <1>8, <1>12, <1>14, <2>1, HandsOver
  <2>3. ASSUME NEW m \in Routers PROVE RouterOK(m)'
    <3>1. CASE m = n
      <4>1. router'[n].url \in Servers /\ router'[n].st = "live" /\ router'[n].lender = 0
        BY <1>9, <1>12, <1>16
      <4> QED
        BY <1>2, <1>5, <1>7, <2>1, <3>1, <4>1 DEF RouterOK
    <3>2. CASE m = r
      <4>1. router'[r].url \in Servers /\ router'[r].st = "live" /\ Len(loans) \in Nat
        BY <1>5, <1>11, <1>12, <1>16 DEF OwnInv, Store
      <4> QED
        BY <2>1, <3>2, <4>1, ConnectionsAssumption DEF RouterOK
    <3>3. CASE m # n /\ m # r
      BY <1>12, <2>1, <3>3 DEF OwnInv, RouterOK
    <3> QED
      BY <3>1, <3>2, <3>3
  <2>4. NeverClosedUnder'
    <3> SUFFICES ASSUME \A m \in Routers : ~router'[m].aborted, NEW m \in Routers, router'[m].c # 0
                 PROVE  conn[router'[m].c].st # "shut"
      BY <1>7 DEF NeverClosedUnder
    <3>1. \A s \in Routers : ~router[s].aborted
      BY <1>15
    <3>2. router'[m].c = router[r].c \/ router'[m].c = router[m].c
      BY <1>12, <2>1
    <3> QED
      BY <1>2, <1>5, <3>1, <3>2 DEF OwnInv, NeverClosedUnder
  <2> QED
    BY <1>13, <2>2, <2>3, <2>4 DEF OwnInv
<1>18. CASE ~over
  <2>1. Joins(r, n)
    <3>1. loans' = Shared(r)
      BY <1>6, <1>18, Zenon
    <3>2. router'[r].c = router[r].c /\ router'[r].loan = LoanOf(r) /\ router'[n].c = router[r].c /\ router'[n].loan = LoanOf(r)
      BY <1>2, <1>9, <1>11, <1>12, <1>18
    <3> QED
      BY <1>2, <1>5, <1>8, <1>12, <3>1, <3>2 DEF Joins
  <2>2. /\ router'[n].url \in Servers /\ router'[n].lender = 0 /\ router'[n].st # "none"
        /\ router'[r].url \in Servers /\ router'[r].lender = 0 /\ router'[r].st # "none"
    BY <1>5, <1>9, <1>11, <1>12, <1>16
  <2> QED
    BY <1>7, <1>12, <1>13, <1>14, <1>15, <2>1, <2>2, JoinsOwn
<1> QED
  BY <1>17, <1>18

LEMMA LendOwn ==
    ASSUME AbortInv, OwnInv, NEW t \in Threads, Lend(t)
    PROVE  OwnInv'
<1>1. PICK r \in Routers, n \in Routers :
          /\ Live(r) /\ ~router[r].sticky /\ Fresh(n)
          /\ router' = [router EXCEPT ![n] = [NoRouter EXCEPT !.st = "live", !.lender = r,
                          !.lent = TRUE, !.sticky = TRUE, !.url = router[r].url]]
          /\ th' = [th EXCEPT ![t] = [AtRest EXCEPT !.pc = "attempt", !.r = n,
                                                    !.home = router[r].url]]
  BY Zenon DEF Lend
<1>2. PICK v : v = [NoRouter EXCEPT !.st = "live", !.lender = r, !.lent = TRUE, !.sticky = TRUE, !.url = router[r].url]
  OBVIOUS
<1>3. PICK w : w = [AtRest EXCEPT !.pc = "attempt", !.r = n, !.home = router[r].url]
  OBVIOUS
<1>4. UNCHANGED <<conn, idle, orphans, loans, todo, cred>> /\ th[t].pc = "idle" /\ router[n].st = "none" /\ RouterOK(r)
  BY <1>1 DEF Lend, MayCall, At, Fresh, OwnInv
<1>5. v.st = "live" /\ v.c = 0 /\ v.loan = 0 /\ v.url = router[r].url /\ ~v.aborted
  BY <1>2 DEF NoRouter
<1>6. w.pc = "attempt" /\ w.r = n /\ w.lender = 0 /\ Fit(w)
  BY <1>3, <1>4, ConnectionsAssumption DEF AtRest, Fit, RouterOK
<1>7. t \in DOMAIN th /\ DOMAIN router = Routers
  BY MyThread
<1>8. router'[n] = v /\ (\A m \in Routers : m # n => router'[m] = router[m]) /\ th'[t] = w
      /\ \A u \in Threads : u # t => th'[u] = th[u]
  <2>1. router' = [router EXCEPT ![n] = v] /\ th' = [th EXCEPT ![t] = w]
    BY <1>1, <1>2, <1>3, Zenon
  <2> QED
    BY <1>7, <2>1
<1>9. router[n].c = 0 /\ router[n].loan = 0 /\ ~router[n].aborted /\ ~InUse(t, n)
  BY <1>4, Unmade
<1>10. \A u \in Threads : ThreadOK(u)'
  <2>1. ThreadOK(t)'
    <3>1. router'[w.r].st # "none"
      BY <1>5, <1>6, <1>8
    <3> QED
      BY <1>6, <1>8, <3>1, PlainOK
  <2>2. \A m \in Routers : InUse(t, m) => router'[m] = router[m]
    BY <1>8, <1>9
  <2>3. \A m \in Routers : router[m].st # "none" => router'[m].st # "none"
    BY <1>5, <1>8
  <2> QED
    BY <1>8, <2>1, <2>2, <2>3, OthersOK
<1>11. \A m \in Routers : router'[m].c = router[m].c /\ router'[m].loan = router[m].loan
  BY <1>5, <1>8, <1>9
<1>12. \A u \in Threads : ClaimsKept(u)
  BY <1>4, <1>6, <1>8 DEF ClaimsKept
<1>13. ASSUME NEW c \in Conns PROVE Owned(c)'
  <2>1. \A y \in Slots \ {} : Holds(y, c)' <=> Holds(y, c)
    BY <1>4, <1>11, <1>12, HoldsFrame DEF ClaimsKept
  <2> QED
    BY <1>4, <2>1 DEF OwnInv, Owned
<1>14. Store'
  BY <1>4 DEF OwnInv, Store
<1>15. \A l \in DOMAIN loans' : LoanOK(l)'
  BY <1>4, <1>11, LoansKept DEF Leaving
<1>16. ASSUME NEW m \in Routers PROVE RouterOK(m)'
  <2>1. CASE m = n
    <3>1. router'[n].c = 0 /\ router'[n].loan = 0 /\ router'[n].url \in Servers /\ router'[n].st = "live" /\ Len(loans') \in Nat
      BY <1>4, <1>5, <1>8 DEF RouterOK, OwnInv, Store
    <3> QED
      BY <2>1, <3>1, ConnectionsAssumption DEF RouterOK
  <2>2. CASE m # n
    BY <1>4, <1>8, <2>2 DEF OwnInv, RouterOK
  <2> QED
    BY <2>1, <2>2
<1>17. NeverClosedUnder'
  <2> SUFFICES ASSUME \A m \in Routers : ~router'[m].aborted, NEW m \in Routers, router'[m].c # 0
               PROVE  conn[router'[m].c].st # "shut"
    BY <1>4 DEF NeverClosedUnder
  <2>1. \A s \in Routers : ~router[s].aborted
    BY <1>8, <1>9, Zenon
  <2> QED
    BY <1>11, <2>1 DEF OwnInv, NeverClosedUnder
<1> QED
  BY <1>10, <1>13, <1>14, <1>15, <1>16, <1>17 DEF OwnInv

LEMMA OrphansAdd ==
    ASSUME NEW s \in Seq(Orphan), NEW o \in Orphan, NEW w, w = Append(s, o),
           \A i, j \in DOMAIN s : s[i].c = s[j].c /\ s[i].loan = 0 /\ s[j].loan = 0 => i = j,
           o.loan = 0 => ~Adrift(s, o.c)
    PROVE  /\ w \in Seq(Orphan) /\ (\A j \in DOMAIN w : w[j] = o \/ \E i \in DOMAIN s : w[j] = s[i])
           /\ \A i, j \in DOMAIN w : w[i].c = w[j].c /\ w[i].loan = 0 /\ w[j].loan = 0 => i = j
           /\ \A c : Adrift(w, c) <=> (o.c = c /\ o.loan = 0) \/ Adrift(s, c)
<1>1. w \in Seq(Orphan) /\ Len(s) \in Nat /\ DOMAIN s = 1 .. Len(s) /\ DOMAIN w = 1 .. Len(s) + 1
  OBVIOUS
<1>2. w[Len(s) + 1] = o /\ \A i \in DOMAIN s : w[i] = s[i]
  BY <1>1
<1>3. \A i \in DOMAIN w : i \in DOMAIN s \/ i = Len(s) + 1
  BY <1>1
<1>4. Len(s) + 1 \in DOMAIN w /\ \A i \in DOMAIN s : i \in DOMAIN w
  BY <1>1
<1>5. \A i, j \in DOMAIN w : w[i].c = w[j].c /\ w[i].loan = 0 /\ w[j].loan = 0 => i = j
  <2> SUFFICES ASSUME NEW i \in DOMAIN w, NEW j \in DOMAIN w, w[i].c = w[j].c, w[i].loan = 0, w[j].loan = 0 PROVE i = j
    OBVIOUS
  <2>1. CASE i \in DOMAIN s /\ j \in DOMAIN s
    BY <1>2, <2>1
  <2>2. CASE i \in DOMAIN s /\ j = Len(s) + 1
    BY <1>2, <2>2 DEF Adrift
  <2>3. CASE j \in DOMAIN s /\ i = Len(s) + 1
    BY <1>2, <2>3 DEF Adrift
  <2> QED
    BY <1>3, <2>1, <2>2, <2>3
<1>6. ASSUME NEW c
      PROVE  Adrift(w, c) <=> (o.c = c /\ o.loan = 0) \/ Adrift(s, c)
  BY <1>2, <1>3, <1>4 DEF Adrift
<1> QED
  BY <1>1, <1>2, <1>3, <1>5, <1>6

LEMMA CollectOwn ==
    ASSUME AbortInv, OwnInv, NEW r \in Routers, Collect(r)
    PROVE  OwnInv'
<1>1. PICK q : q = router[r]
  OBVIOUS
<1>2. PICK o : o = [c |-> q.c, loan |-> q.loan, at |-> q.url]
  OBVIOUS
<1>3. PICK v : v = [q EXCEPT !.st = "gone", !.c = 0, !.loan = 0]
  OBVIOUS
<1>4. /\ q.c # 0 /\ orphans' = Append(orphans, o) /\ UNCHANGED <<conn, idle, loans, th, todo, cred>> /\ Busy(r) = {}
      /\ router' = [router EXCEPT ![r].st = "gone", ![r].c = 0, ![r].loan = 0]
  BY <1>1, <1>2 DEF Collect
<1>5. DOMAIN router = Routers /\ DOMAIN q = RouterFields /\ RouterOK(r)
  BY <1>1 DEF AbortInv, Shapes, OwnInv
<1>6. v.st = "gone" /\ v.c = 0 /\ v.loan = 0 /\ v.url = q.url /\ v.aborted = q.aborted
  BY <1>3, <1>5 DEF RouterFields
<1>7. router'[r] = v /\ \A m \in Routers : m # r => router'[m] = router[m]
  BY <1>1, <1>3, <1>4, <1>5
<1>8. q.c \in Conns /\ q.loan \in 0 .. Len(loans) /\ q.url \in Servers /\ Len(loans) \in Nat
  <2>1. q.c \in Conns
    BY <1>1, <1>4, UserHolds
  <2>2. q.loan \in 0 .. Len(loans) /\ q.url \in Servers
    BY <1>1, <1>5 DEF RouterOK
  <2> QED
    BY <2>1, <2>2 DEF OwnInv, Store
<1>9. o \in Orphan /\ o.c = q.c /\ o.loan = q.loan
  BY <1>2, <1>8 DEF Orphan
<1>10. <<"orphans", 0>> \in Slots /\ <<"router", r>> \in Slots
  BY SlotIn
<1>11. o.loan = 0 => ~Adrift(orphans, o.c)
  <2> SUFFICES ASSUME o.loan = 0, Adrift(orphans, o.c) PROVE FALSE
    OBVIOUS
  <2>1. Holds(<<"orphans", 0>>, q.c)
    BY <1>9, OrphansHold
  <2>2. Holds(<<"router", r>>, q.c)
    BY <1>1, <1>9, RouterHolds
  <2>3. Owned(q.c)
    BY <1>8 DEF OwnInv
  <2> QED
    BY <1>10, <2>1, <2>2, <2>3 DEF Owned
<1>12. /\ orphans \in Seq(Orphan) /\ (\A i \in DOMAIN orphans : orphans[i].loan \in 0 .. Len(loans))
       /\ (\A i, j \in DOMAIN orphans : orphans[i].c = orphans[j].c /\ orphans[i].loan = 0 /\ orphans[j].loan = 0 => i = j)
  BY DEF OwnInv, Store
<1>13. /\ orphans' \in Seq(Orphan) /\ (\A j \in DOMAIN orphans' : orphans'[j] = o \/ \E i \in DOMAIN orphans : orphans'[j] = orphans[i])
       /\ \A i, j \in DOMAIN orphans' : orphans'[i].c = orphans'[j].c /\ orphans'[i].loan = 0 /\ orphans'[j].loan = 0 => i = j
       /\ \A c : Adrift(orphans', c) <=> (o.c = c /\ o.loan = 0) \/ Adrift(orphans, c)
  <2>1. /\ orphans' = Append(orphans, o) /\ orphans \in Seq(Orphan) /\ o \in Orphan
        /\ \A i, j \in DOMAIN orphans : orphans[i].c = orphans[j].c /\ orphans[i].loan = 0 /\ orphans[j].loan = 0 => i = j
    BY <1>4, <1>9, <1>12, Zenon
  <2>2. orphans' \in Seq(Orphan)
    BY <1>11, <2>1, OrphansAdd
  <2>3. \A j \in DOMAIN orphans' : orphans'[j] = o \/ \E i \in DOMAIN orphans : orphans'[j] = orphans[i]
    BY <1>11, <2>1, OrphansAdd
  <2>4. \A i, j \in DOMAIN orphans' : orphans'[i].c = orphans'[j].c /\ orphans'[i].loan = 0 /\ orphans'[j].loan = 0 => i = j
    BY <1>11, <2>1, OrphansAdd
  <2>5. ASSUME NEW c PROVE Adrift(orphans', c) <=> (o.c = c /\ o.loan = 0) \/ Adrift(orphans, c)
    BY <1>11, <2>1, OrphansAdd
  <2> QED
    BY <2>2, <2>3, <2>4, <2>5, Zenon
<1>14. Store'
  <2>1. \A j \in DOMAIN orphans' : orphans'[j].loan \in 0 .. Len(loans')
    BY <1>4, <1>8, <1>9, <1>12, <1>13
  <2>2. /\ conn' \in [Conns -> Link] /\ idle' \in [Keys -> Seq(Entry)] /\ (\A k \in Keys : Distinct(idle'[k]) /\ Len(idle'[k]) <= PoolSize)
        /\ loans' \in Seq(Loan) /\ cred' \in Idents /\ DOMAIN todo' = Workers /\ \A u \in Workers : TodoOK(todo'[u], Len(loans'))
    BY <1>4 DEF OwnInv, Store
  <2> QED
    BY <1>13, <2>1, <2>2 DEF Store
<1>15. ASSUME NEW l \in DOMAIN loans' PROVE LoanOK(l)'
  <2>1. LoanOK(l) /\ l # 0 /\ LeaversOf(l)' = LeaversOf(l) /\ loans' = loans
    BY <1>4, HeldLoan DEF LeaversOf, Leaving
  <2>2. Cardinality(UsersOf(l)) \in Nat /\ Cardinality(LostOf(l)) \in Nat /\ Cardinality(LeaversOf(l)) \in Nat
    BY HoldersFinite
  <2>3. CASE q.loan = l
    <3>1. Cardinality(UsersOf(l)') = Cardinality(UsersOf(l)) - 1
      <4>1. r \in UsersOf(l) /\ UsersOf(l)' = UsersOf(l) \ {r}
        BY <1>1, <1>6, <1>7, <2>1, <2>3 DEF UsersOf
      <4> QED
        BY <4>1, HoldersFinite, OneFewer
    <3>2. Cardinality(LostOf(l)') = Cardinality(LostOf(l)) + 1
      BY <1>4, <1>9, <1>12, <2>3, LostAppend DEF LostOf
    <3> QED
      BY <2>1, <2>2, <3>1, <3>2 DEF LoanOK
  <2>4. CASE q.loan # l
    <3>1. UsersOf(l)' = UsersOf(l)
      BY <1>1, <1>6, <1>7, <2>1, <2>4 DEF UsersOf
    <3>2. Cardinality(LostOf(l)') = Cardinality(LostOf(l))
      BY <1>4, <1>9, <1>12, <2>4, LostAppend DEF LostOf
    <3> QED
      BY <2>1, <3>1, <3>2 DEF LoanOK
  <2> QED
    BY <2>3, <2>4
<1>16. ASSUME NEW c \in Conns PROVE Owned(c)'
  <2> DEFINE a == <<"orphans", 0>>
             b == <<"router", r>>
  <2>1. \A y \in Slots \ {a, b} : Holds(y, c)' <=> Holds(y, c)
    <3> DEFINE A == {a, b}
    <3>1. (\A m \in Routers : <<"router", m>> \in A \/ router'[m] = router[m]) /\ <<"orphans", 0>> \in A
      BY <1>7
    <3> HIDE DEF A
    <3>2. \A y \in Slots \ A : Holds(y, c)' <=> Holds(y, c)
      BY <1>4, <3>1, HoldsFrame
    <3> QED
      BY <3>2 DEF A
  <2>2. Holds(a, c)' <=> (q.c = c /\ q.loan = 0) \/ Holds(a, c)
    BY <1>9, <1>13, OrphansHold
  <2>3. /\ Holds(b, c) <=> q.c = c /\ q.loan = 0
        /\ ~Holds(b, c)'
    BY <1>1, <1>6, <1>7, RouterHolds DEF Conns
  <2>4. Owned(c) /\ conn' = conn
    BY <1>4 DEF OwnInv
  <2> HIDE DEF a, b
  <2>5. a \in Slots /\ b \in Slots
    BY <1>10 DEF a, b
  <2> QED
    BY <2>1, <2>2, <2>3, <2>4, <2>5, TwoSlots
<1>17. ASSUME NEW m \in Routers PROVE RouterOK(m)'
  <2>1. CASE m = r
    <3>1. router'[r].c = 0 /\ router'[r].loan = 0 /\ router'[r].url \in Servers /\ router'[r].st = "gone" /\ Len(loans') \in Nat
      BY <1>4, <1>6, <1>7, <1>8
    <3> QED
      BY <2>1, <3>1, ConnectionsAssumption DEF RouterOK
  <2>2. CASE m # r
    BY <1>4, <1>7, <2>2 DEF OwnInv, RouterOK
  <2> QED
    BY <2>1, <2>2
<1>18. \A u \in Threads : ThreadOK(u)'
  <2>1. ~InUse(Nobody, r)
    BY <1>4 DEF InUse, Busy
  <2>2. \A m \in Routers : InUse(Nobody, m) => router'[m] = router[m]
    BY <1>7, <2>1
  <2>3. \A m \in Routers : router[m].st # "none" => router'[m].st # "none"
    BY <1>6, <1>7
  <2> QED
    BY <1>4, <2>2, <2>3, OthersOK, ConnectionsAssumption
<1>19. NeverClosedUnder'
  <2> SUFFICES ASSUME \A m \in Routers : ~router'[m].aborted, NEW m \in Routers, router'[m].c # 0
               PROVE  conn[router'[m].c].st # "shut"
    BY <1>4 DEF NeverClosedUnder
  <2>1. \A s \in Routers : ~router[s].aborted
    BY <1>1, <1>6, <1>7, Zenon
  <2>2. router'[m].c = router[m].c
    BY <1>6, <1>7
  <2> QED
    BY <2>1, <2>2 DEF OwnInv, NeverClosedUnder
<1> QED
  BY <1>14, <1>15, <1>16, <1>17, <1>18, <1>19 DEF OwnInv

LEMMA ClearNowOwn ==
    ASSUME AbortInv, OwnInv, NEW t \in Threads, ClearNow(t)
    PROVE  OwnInv'
<1>1. PICK cs : cs = UNION {Members(idle[k]) : k \in Keys}
  OBVIOUS
<1>2. PICK w : w = Closes(cs)
  OBVIOUS
<1>3. /\ th[t].pc = "clear" /\ todo[t] = <<>> /\ UNCHANGED <<conn, orphans, router, loans, cred>>
      /\ todo' = [todo EXCEPT ![t] = w] /\ idle' = [k \in Keys |-> <<>>] /\ th' = [th EXCEPT ![t] = AtRest]
  BY <1>1, <1>2 DEF ClearNow, At
<1>4. t \in Workers /\ DOMAIN todo = Workers /\ Len(loans) \in Nat /\ t \in DOMAIN th
  BY MyThread DEF OwnInv, Store, Workers
<1>5. cs \in SUBSET Conns
  <2>1. ASSUME NEW k \in Keys PROVE Members(idle[k]) \in SUBSET Conns
    <3>1. idle[k] \in Seq(Entry)
      BY DEF OwnInv, Store
    <3>2. \A i \in DOMAIN idle[k] : idle[k][i] \in Entry
      BY <3>1
    <3> QED
      BY <3>2 DEF Members, Entry
  <2> QED
    BY <1>1, <2>1
<1>6. TodoOK(w, Len(loans)) /\ Members(w) = cs /\ (IF w = <<>> THEN 0 ELSE w[1].loan) = 0
  BY <1>2, <1>4, <1>5, ClosesTodo
<1>7. DOMAIN todo' = Workers /\ todo'[t] = w /\ \A u \in Workers : u # t => todo'[u] = todo[u]
  BY <1>3, <1>4
<1>8. Members(todo[t]) = {} /\ \A u \in Workers : Leaving(u)' = Leaving(u)
  BY <1>3, <1>4, <1>6, <1>7, NoThing DEF Leaving
<1>9. idle' \in [Keys -> Seq(Entry)] /\ \A k \in Keys : idle'[k] = <<>>
  <2>1. <<>> \in Seq(Entry)
    OBVIOUS
  <2> QED
    BY <1>3, <2>1
<1>10. \A k \in Keys : Distinct(idle'[k]) /\ Len(idle'[k]) <= PoolSize /\ Members(idle'[k]) = {}
  <2>1. Len(<<>>) = 0 /\ Distinct(<<>>) /\ Members(<<>>) = {}
    BY <1>4, NoThing
  <2> QED
    BY <1>9, <2>1, ConnectionsAssumption
<1>11. th'[t].pc = "idle" /\ \A u \in Threads : u # t => th'[u] = th[u]
  BY <1>3, <1>4 DEF AtRest
<1>12. \A u \in Threads : ThreadOK(u)'
  <2>1. th'[t] = AtRest /\ AtRest.pc = "idle" /\ AtRest.lender = 0
    BY <1>3, <1>4 DEF AtRest
  <2>2. ThreadOK(t)'
    BY <2>1, RestFits, PlainOK
  <2> QED
    BY <1>3, <1>11, <2>2, OthersOK
<1>13. ASSUME NEW c \in Conns PROVE Owned(c)'
  <2> DEFINE A == {<<"idle", k>> : k \in Keys} \cup {<<"todo", t>>}
  <2>1. \A x \in A : (\E k \in Keys : x = <<"idle", k>>) \/ x = <<"todo", t>>
    OBVIOUS
  <2>2. A \in SUBSET Slots /\ <<"todo", t>> \in A /\ \A k \in Keys : <<"idle", k>> \in A
    BY <1>4, SlotIn
  <2>3. \A u \in Workers : <<"todo", u>> \in A \/ todo'[u] = todo[u]
    BY <1>7
  <2> HIDE DEF A
  <2>4. \A u \in Threads : (th'[u].pc = "borrow" /\ th'[u].new = c <=> th[u].pc = "borrow" /\ th[u].new = c)
               /\ (th'[u].pc \in {"away", "return"} /\ th'[u].c = c <=> th[u].pc \in {"away", "return"} /\ th[u].c = c)
    BY <1>3, <1>11
  <2>5. \A x \in Slots \ A : Holds(x, c)' <=> Holds(x, c)
    BY <1>3, <2>2, <2>3, <2>4, HoldsFrame
  <2>6. \A k \in Keys : (Holds(<<"idle", k>>, c) => c \in cs) /\ ~Holds(<<"idle", k>>, c)'
    BY <1>1, <1>10, IdleHolds
  <2>7. c \in cs => \E k \in Keys : Holds(<<"idle", k>>, c)
    BY <1>1, IdleHolds
  <2>8. /\ ~Holds(<<"todo", t>>, c)
        /\ Holds(<<"todo", t>>, c)' <=> c \in cs
    BY <1>6, <1>7, <1>8, TodoHolds
  <2>9. \A x \in A : Holds(x, c)' => x = <<"todo", t>> /\ \E y \in A : Holds(y, c)
    BY <2>1, <2>2, <2>6, <2>7, <2>8
  <2>10. \A x \in A : Holds(x, c) => \E y \in A : Holds(y, c)'
    BY <2>1, <2>2, <2>6, <2>8
  <2>11. Owned(c) /\ conn' = conn
    BY <1>3 DEF OwnInv
  <2> QED
    BY <2>2, <2>5, <2>9, <2>10, <2>11, OwnMoves
<1> QED
  BY <1>3, <1>4, <1>6, <1>7, <1>8, <1>9, <1>10, <1>12, <1>13, PoolOwn

\* A bucket whose entries have all gone stale.
LEMMA GoneStale ==
    ASSUME NEW s \in Seq(Entry), Distinct(s), NEW w, w = [i \in DOMAIN s |-> [s[i] EXCEPT !.fresh = FALSE]]
    PROVE  w \in Seq(Entry) /\ Len(w) = Len(s) /\ Distinct(w) /\ Members(w) = Members(s)
<1>1. Len(s) \in Nat /\ DOMAIN s = 1 .. Len(s) /\ \A i \in DOMAIN s : s[i] \in Entry
  OBVIOUS
<1>2. ASSUME NEW i \in DOMAIN s PROVE w[i] \in Entry /\ w[i].c = s[i].c
  <2>1. s[i] \in Entry /\ w[i] = [s[i] EXCEPT !.fresh = FALSE]
    BY <1>1, <1>2
  <2> QED
    BY <2>1 DEF Entry
<1>3. DOMAIN w = DOMAIN s /\ w \in [DOMAIN s -> Entry]
  BY <1>2
<1>4. w \in Seq(Entry) /\ Len(w) = Len(s)
  <2>1. w \in [1 .. Len(s) -> Entry]
    BY <1>1, <1>3
  <2> QED
    BY <1>1, <2>1
<1>5. Distinct(w)
  BY <1>2, <1>3 DEF Distinct
<1>6. Members(w) = Members(s)
  BY <1>2, <1>3 DEF Members
<1> QED
  BY <1>4, <1>5, <1>6

LEMMA TimePassesOwn ==
    ASSUME AbortInv, OwnInv, TimePasses
    PROVE  OwnInv'
<1>1. /\ UNCHANGED <<conn, orphans, router, loans, th, todo, cred>>
      /\ idle' = [k \in Keys |-> [i \in DOMAIN idle[k] |-> [idle[k][i] EXCEPT !.fresh = FALSE]]]
  BY DEF TimePasses
<1>2. idle \in [Keys -> Seq(Entry)] /\ \A k \in Keys : Distinct(idle[k]) /\ Len(idle[k]) <= PoolSize
  BY DEF OwnInv, Store
<1>3. ASSUME NEW k \in Keys
      PROVE  idle'[k] \in Seq(Entry) /\ Len(idle'[k]) <= PoolSize /\ Distinct(idle'[k]) /\ Members(idle'[k]) = Members(idle[k])
  <2>1. PICK s : s = idle[k]
    OBVIOUS
  <2>2. s \in Seq(Entry) /\ Distinct(s) /\ Len(s) <= PoolSize
    BY <1>2, <2>1
  <2>3. PICK w : w = [i \in DOMAIN s |-> [s[i] EXCEPT !.fresh = FALSE]]
    OBVIOUS
  <2>4. w \in Seq(Entry) /\ Len(w) = Len(s) /\ Distinct(w) /\ Members(w) = Members(s)
    BY <2>2, <2>3, GoneStale
  <2>5. idle'[k] = w
    BY <1>1, <2>1, <2>3
  <2> QED
    BY <2>1, <2>2, <2>4, <2>5
<1>4. DOMAIN idle' = Keys /\ idle' \in [Keys -> Seq(Entry)]
  BY <1>1, <1>3
<1>5. Reaper \in Workers /\ DOMAIN todo' = Workers /\ TodoOK(todo'[Reaper], Len(loans)) /\ \A u \in Workers : Leaving(u)' = Leaving(u)
  BY <1>1 DEF OwnInv, Store, Workers, Leaving
<1>6. ASSUME NEW c \in Conns PROVE Owned(c)'
  <2>1. \A y \in Slots \ {} : Holds(y, c)' <=> Holds(y, c)
    BY <1>1, <1>3, HoldsFrame
  <2> QED
    BY <1>1, <2>1 DEF OwnInv, Owned
<1>7. \A t \in Threads : ThreadOK(t)'
  BY <1>1 DEF OwnInv, ThreadOK, Top
<1> QED
  BY <1>1, <1>3, <1>4, <1>5, <1>6, <1>7, PoolOwn

LEMMA CredChangesOwn ==
    ASSUME AbortInv, OwnInv, CredChanges
    PROVE  OwnInv'
<1>1. UNCHANGED <<conn, idle, orphans, router, loans, todo>> /\ cred' \in Idents
  BY DEF CredChanges
<1>2. Store'
  BY <1>1 DEF OwnInv, Store
<1>3. \A r \in Routers : RouterOK(r)'
  BY <1>1 DEF OwnInv, RouterOK
<1>4. ASSUME NEW t \in Threads PROVE ThreadOK(t)'
  <2>1. ThreadOK(t) /\ Fit(th[t])
    BY DEF OwnInv, ThreadOK
  <2>2. Fit(th[t])'
    BY <2>1, CredSame, CredMarks DEF Fit
  <2> QED
    BY <1>1, <2>1, <2>2, CredSame DEF ThreadOK
<1>5. \A l \in DOMAIN loans' : LoanOK(l)'
  BY <1>1, LoansKept DEF Leaving
<1>6. ASSUME NEW c \in Conns PROVE Owned(c)'
  <2>1. \A y \in Slots \ {} : Holds(y, c)' <=> Holds(y, c)
    BY <1>1, CredSame, HoldsFrame
  <2> QED
    BY <1>1, <2>1 DEF OwnInv, Owned
<1>7. NeverClosedUnder'
  BY <1>1 DEF OwnInv, NeverClosedUnder
<1> QED
  BY <1>2, <1>3, <1>4, <1>5, <1>6, <1>7 DEF OwnInv

LEMMA OwnStutters ==
    ASSUME OwnInv, UNCHANGED vars
    PROVE  OwnInv'
<1>1. UNCHANGED <<conn, idle, orphans, router, loans, th, todo, cred>>
  BY DEF vars
<1>2. Store'
  BY <1>1 DEF OwnInv, Store
<1>3. \A r \in Routers : RouterOK(r)'
  BY <1>1 DEF OwnInv, RouterOK
<1>4. \A t \in Threads : ThreadOK(t)'
  BY <1>1 DEF OwnInv, ThreadOK, Top
<1>5. \A l \in DOMAIN loans' : LoanOK(l)'
  BY <1>1, LoansKept DEF Leaving
<1>6. ASSUME NEW c \in Conns PROVE Owned(c)'
  <2>1. \A y \in Slots \ {} : Holds(y, c)' <=> Holds(y, c)
    BY <1>1, HoldsFrame
  <2> QED
    BY <1>1, <2>1 DEF OwnInv, Owned
<1>7. NeverClosedUnder'
  BY <1>1 DEF OwnInv, NeverClosedUnder
<1> QED
  BY <1>2, <1>3, <1>4, <1>5, <1>6, <1>7 DEF OwnInv

LEMMA AbortingStarts ==
    ASSUME Init
    PROVE  Aborting
<1>1. \A t \in Threads : th[t] = AtRest
  BY ConnectionsAssumption DEF Init, Workers
<1> QED
  BY <1>1 DEF Aborting, AtRest

\* Nothing takes an abort back.
LEMMA AbortedStays ==
    ASSUME AbortInv, OwnInv, [Next]_vars
    PROVE  \A m \in Routers : router[m].aborted => router'[m].aborted
<1> DEFINE Stays == \A m \in Routers : router[m].aborted => router'[m].aborted
<1>1. DOMAIN router = Routers /\ \A m \in Routers : DOMAIN router[m] = RouterFields /\ "aborted" \in DOMAIN router[m]
  BY DEF AbortInv, Shapes, RouterFields
<1>2. ASSUME router' = router PROVE Stays
  BY <1>2
<1>3. ASSUME NEW u \in Workers, Chore(u) PROVE Stays
  BY <1>3 DEF Chore, LeaveLoan, Reap, KeepIdle, CloseConn
<1>4. ASSUME NEW t \in Threads, Step(t) PROVE Stays
  <2>1. ASSUME Enter(t) PROVE Stays
    <3> DEFINE n == Top(t)
               v == [router[n] EXCEPT !.c = 0, !.loan = 0, !.lender = 0]
    <3>1. router' = router \/ router' = [router EXCEPT ![n].c = 0, ![n].loan = 0, ![n].lender = 0]
      BY <2>1 DEF Enter
    <3>2. router' = router \/ router' = [router EXCEPT ![n] = v]
      BY <3>1
    <3>3. n \in Routers => v.aborted = router[n].aborted
      BY <1>1
    <3> QED
      BY <1>1, <3>2, <3>3
  <2>2. ASSUME NEW c, Dialled(t, c) PROVE Stays
    BY <1>1, <2>2 DEF Dialled
  <2>3. ASSUME Acquire(t) PROVE Stays
    <3>1. router' = router \/ \E c : Dialled(t, c)
      BY <2>3 DEF Acquire
    <3> QED
      BY <2>2, <3>1
  <2>4. ASSUME Login(t) PROVE Stays
    <3>1. \E c : Dialled(t, c)
      BY <2>4 DEF Login
    <3> QED
      BY <2>2, <3>1
  <2>5. ASSUME Installed(t) PROVE Stays
    <3> DEFINE n == Top(t)
               v == [router[n] EXCEPT !.c = 0, !.loan = 0]
    <3>1. \/ router' = router \/ router' = [router EXCEPT ![n].c = 0, ![n].loan = 0]
          \/ router' = [router EXCEPT ![n].loan = LoanOf(n), ![th[t].r].loan = LoanOf(n), ![th[t].r].c = th[t].new]
      BY <2>5 DEF Installed
    <3>2. CASE router' = [router EXCEPT ![n].c = 0, ![n].loan = 0]
      BY <1>1, <3>2
    <3>3. CASE router' = [router EXCEPT ![n].loan = LoanOf(n), ![th[t].r].loan = LoanOf(n), ![th[t].r].c = th[t].new]
      BY <1>1, <3>3
    <3> QED
      BY <3>1, <3>2, <3>3
  <2>6. ASSUME Point(t) PROVE Stays
    <3> DEFINE r == th[t].r
    <3>1. router' = router \/ router' = [router EXCEPT ![r].c = 0, ![r].loan = 0, ![r].url = th[t].dest]
      BY <2>6 DEF Point
    <3> QED
      BY <1>1, <3>1
  <2>7. ASSUME Recover(t) PROVE Stays
    <3> DEFINE r == th[t].r
    <3>1. router' = router \/ router' = [router EXCEPT ![r].c = 0, ![r].loan = 0]
      BY <2>7 DEF Recover
    <3> QED
      BY <1>1, <3>1
  <2>8. ASSUME GoHome(t) PROVE Stays
    BY <1>1, <2>8 DEF GoHome
  <2>9. ASSUME AbortNow(t) PROVE Stays
    BY <1>1, <2>9 DEF AbortNow
  <2>10. ASSUME Attempt(t) \/ Identify(t) \/ LoginFails(t) \/ Borrow(t) \/ Finish(t) \/ Fails(t) PROVE router' = router
    BY <2>10 DEF Attempt, Identify, LoginFails, Borrow, Finish, Fails
  <2>11. ASSUME RefusedAway(t) \/ Return(t) \/ RecoverRaises(t) \/ CutLink(t) \/ ClearNow(t) PROVE router' = router
    BY <2>11 DEF RefusedAway, Return, RecoverRaises, CutLink, ClearNow
  <2>12. ASSUME NEW d \in Servers, Redirected(t, d) PROVE router' = router
    BY <2>12 DEF Redirected
  <2> HIDE DEF Stays
  <2> QED
    BY <1>2, <1>4, <2>1, <2>3, <2>4, <2>5, <2>6, <2>7, <2>8, <2>9, <2>10, <2>11, <2>12, Zenon DEF Step
<1>5. ASSUME NEW t \in Threads, Call(t) PROVE Stays
  <2>1. ASSUME NEW bad, GiveUp(t, bad) PROVE Stays
    BY <1>1, <2>1 DEF GiveUp
  <2>2. ASSUME Close(t) \/ Discard(t) PROVE Stays
    BY <2>1, <2>2 DEF Close, Discard
  <2>3. \A m \in Routers : router[m].st = "none" => ~router[m].aborted
    BY DEF OwnInv, RouterOK
  <2>4. ASSUME Lend(t) PROVE Stays
    BY <1>1, <2>3, <2>4 DEF Lend, Fresh
  <2>5. ASSUME Pin(t) PROVE Stays
    BY <1>1, <2>3, <2>5 DEF Pin, Fresh
  <2>6. ASSUME Execute(t) \/ Abort(t) \/ Clear(t) PROVE router' = router
    BY <2>6 DEF Execute, Abort, Clear
  <2> HIDE DEF Stays
  <2> QED
    BY <1>2, <1>5, <2>2, <2>4, <2>5, <2>6, Zenon DEF Call
<1>6. ASSUME NEW r \in Routers, Collect(r) PROVE Stays
  BY <1>1, <1>6 DEF Collect
<1>7. ASSUME TimePasses \/ CredChanges \/ UNCHANGED vars PROVE router' = router
  BY <1>7 DEF TimePasses, CredChanges, vars
<1> HIDE DEF Stays
<1>8. Stays
  BY <1>2, <1>3, <1>4, <1>5, <1>6, <1>7, Zenon DEF Next
<1> QED
  BY <1>8 DEF Stays

\* No step but an abort's sets a thread to cutting.
LEMMA OnlyAborts ==
    ASSUME AbortInv, NEW t \in Threads, Step(t) \/ Call(t)
    PROVE  /\ \A u \in Threads : u # t => th'[u] = th[u]
           /\ th'[t].pc = "cut" => th'[t].r = th[t].r /\ (th[t].pc = "cut" \/ AbortNow(t))
<1> DEFINE Alone == \A u \in Threads : u # t => th'[u] = th[u]
           Fine  == Alone /\ (th'[t].pc = "cut" => th'[t].r = th[t].r /\ (th[t].pc = "cut" \/ AbortNow(t)))
<1>1. t \in DOMAIN th /\ DOMAIN th = Workers /\ DOMAIN th[t] = ThFields /\ "pc" \in DOMAIN th[t] /\ th[t].next \in Nexts
  BY DEF AbortInv, Shapes, ThFields, Workers, Connecting, Nexts
<1>2. ASSUME NEW w, th' = [th EXCEPT ![t] = w], w.pc # "cut" PROVE Fine
  BY <1>1, <1>2
<1>3. ASSUME th' = th PROVE Fine
  BY <1>3
<1>4. AtRest.pc = "idle"
  BY DEF AtRest
<1>5. ASSUME NEW c, Dialled(t, c) PROVE Fine
  <2> DEFINE w == [th[t] EXCEPT !.new = c, !.id = 0, !.raced = FALSE, !.pc = IF th[t].target # 0 THEN "borrow" ELSE "installed"]
  <2>1. th' = [th EXCEPT ![t] = w] /\ w.pc # "cut"
    BY <1>1, <1>5 DEF Dialled
  <2> HIDE DEF w, Fine
  <2> QED
    BY <1>2, <2>1
<1>6. ASSUME NEW next \in Nexts, Out(t), th' = Outcome(t, next) PROVE Fine
  <2>1. th[t].pc \in {"using", "away"} /\ next # "cut"
    BY <1>6 DEF Out, Nexts
  <2> QED
    BY <1>1, <1>4, <1>6, <2>1 DEF Outcome
<1>7. ASSUME Attempt(t) PROVE Fine
  <2> DEFINE q == router[th[t].r]
  <2>1. th' = [th EXCEPT ![t] =
         CASE q.aborted -> AtRest
           [] ~q.aborted /\ th[t].target # 0 -> [th[t] EXCEPT !.pc = "acquire"]
           [] ~q.aborted /\ th[t].target = 0 /\ Alive(q.c) -> [th[t] EXCEPT !.pc = "using", !.c = q.c]
           [] OTHER -> [th[t] EXCEPT !.pc = "lockwait"]]
    BY <1>7 DEF Attempt
  <2> QED
    BY <1>1, <1>4, <2>1
<1>8. ASSUME Enter(t) PROVE Fine
  <2>1. th[t].pc = "lockwait"
    BY <1>8 DEF Enter, At
  <2>2. \/ th' = [th EXCEPT ![t] = AtRest]
        \/ th' = [th EXCEPT ![t].pc = "installed", ![t].new = router[Top(t)].c]
        \/ th' = [th EXCEPT ![t].pc = "recover", ![t].lender = 0]
        \/ th' = [th EXCEPT ![t] = [@ EXCEPT !.lender = router[Top(t)].lender]]
        \/ th' = [th EXCEPT ![t] = [@ EXCEPT !.pc = "acquire"]]
    BY <1>8 DEF Enter
  <2>3. CASE th' = [th EXCEPT ![t].pc = "installed", ![t].new = router[Top(t)].c]
    <3> DEFINE w == [th[t] EXCEPT !.pc = "installed", !.new = router[Top(t)].c]
    <3>1. th' = [th EXCEPT ![t] = w] /\ w.pc # "cut"
      BY <1>1, <2>1, <2>3
    <3> HIDE DEF w, Fine
    <3> QED
      BY <1>2, <3>1
  <2>4. CASE th' = [th EXCEPT ![t].pc = "recover", ![t].lender = 0]
    <3> DEFINE w == [th[t] EXCEPT !.pc = "recover", !.lender = 0]
    <3>1. th' = [th EXCEPT ![t] = w] /\ w.pc # "cut"
      BY <1>1, <2>1, <2>4
    <3> HIDE DEF w, Fine
    <3> QED
      BY <1>2, <3>1
  <2>5. CASE th' = [th EXCEPT ![t] = [@ EXCEPT !.lender = router[Top(t)].lender]]
    <3> DEFINE w == [th[t] EXCEPT !.lender = router[Top(t)].lender]
    <3>1. th' = [th EXCEPT ![t] = w] /\ w.pc # "cut"
      BY <1>1, <2>1, <2>5
    <3> HIDE DEF w, Fine
    <3> QED
      BY <1>2, <3>1
  <2>6. CASE th' = [th EXCEPT ![t] = [@ EXCEPT !.pc = "acquire"]]
    <3> DEFINE w == [th[t] EXCEPT !.pc = "acquire"]
    <3>1. th' = [th EXCEPT ![t] = w] /\ w.pc # "cut"
      BY <1>1, <2>1, <2>6
    <3> HIDE DEF w, Fine
    <3> QED
      BY <1>2, <3>1
  <2> HIDE DEF Fine
  <2> QED
    BY <1>2, <1>4, <2>2, <2>3, <2>4, <2>5, <2>6
<1>9. ASSUME Acquire(t) PROVE Fine
  <2>1. (\E c : Dialled(t, c)) \/ th' = [th EXCEPT ![t].pc = "identify"]
    BY <1>9 DEF Acquire
  <2>2. ASSUME th' = [th EXCEPT ![t].pc = "identify"] PROVE Fine
    BY <1>1, <2>2
  <2> HIDE DEF Fine
  <2> QED
    BY <1>5, <2>1, <2>2
<1>10. ASSUME Login(t) PROVE Fine
  <2>1. \E c : Dialled(t, c)
    BY <1>10 DEF Login
  <2> QED
    BY <1>5, <2>1
<1>11. ASSUME Identify(t) \/ LoginFails(t) \/ Borrow(t) PROVE Fine
  <2>1. \/ th' = [th EXCEPT ![t].pc = "login", ![t].id = IF PoolSize = 0 THEN 0 ELSE cred]
        \/ th' = [th EXCEPT ![t].pc = "recover", ![t].lender = 0, ![t].raced = FALSE]
        \/ th' = [th EXCEPT ![t].pc = "away", ![t].c = th[t].new, ![t].new = 0]
    BY <1>11 DEF Identify, LoginFails, Borrow
  <2>2. CASE th' = [th EXCEPT ![t].pc = "login", ![t].id = IF PoolSize = 0 THEN 0 ELSE cred]
    <3> DEFINE w == [th[t] EXCEPT !.pc = "login", !.id = IF PoolSize = 0 THEN 0 ELSE cred]
    <3>1. th' = [th EXCEPT ![t] = w] /\ w.pc # "cut"
      BY <1>1, <2>2
    <3> HIDE DEF w, Fine
    <3> QED
      BY <1>2, <3>1
  <2>3. CASE th' = [th EXCEPT ![t].pc = "recover", ![t].lender = 0, ![t].raced = FALSE]
    <3> DEFINE w == [th[t] EXCEPT !.pc = "recover", !.lender = 0, !.raced = FALSE]
    <3>1. th' = [th EXCEPT ![t] = w] /\ w.pc # "cut"
      BY <1>1, <2>3
    <3> HIDE DEF w, Fine
    <3> QED
      BY <1>2, <3>1
  <2>4. CASE th' = [th EXCEPT ![t].pc = "away", ![t].c = th[t].new, ![t].new = 0]
    <3> DEFINE w == [th[t] EXCEPT !.pc = "away", !.c = th[t].new, !.new = 0]
    <3>1. th' = [th EXCEPT ![t] = w] /\ w.pc # "cut"
      BY <1>1, <2>4
    <3> HIDE DEF w, Fine
    <3> QED
      BY <1>2, <3>1
  <2> HIDE DEF Fine
  <2> QED
    BY <2>1, <2>2, <2>3, <2>4
<1>12. ASSUME Installed(t) PROVE Fine
  <2>1. th[t].pc = "installed"
    BY <1>12 DEF Installed, At
  <2>2. \/ th' = [th EXCEPT ![t] = AtRest] \/ th' = [th EXCEPT ![t].lender = 0]
        \/ th' = [th EXCEPT ![t].pc = "using", ![t].c = th[t].new, ![t].new = 0]
    BY <1>12 DEF Installed
  <2>3. CASE th' = [th EXCEPT ![t].lender = 0]
    <3> DEFINE w == [th[t] EXCEPT !.lender = 0]
    <3>1. th' = [th EXCEPT ![t] = w] /\ w.pc # "cut"
      BY <1>1, <2>1, <2>3
    <3> HIDE DEF w, Fine
    <3> QED
      BY <1>2, <3>1
  <2>4. CASE th' = [th EXCEPT ![t].pc = "using", ![t].c = th[t].new, ![t].new = 0]
    <3> DEFINE w == [th[t] EXCEPT !.pc = "using", !.c = th[t].new, !.new = 0]
    <3>1. th' = [th EXCEPT ![t] = w] /\ w.pc # "cut"
      BY <1>1, <2>1, <2>4
    <3> HIDE DEF w, Fine
    <3> QED
      BY <1>2, <3>1
  <2> HIDE DEF Fine
  <2> QED
    BY <1>2, <1>4, <2>2, <2>3, <2>4
<1>13. ASSUME Finish(t) \/ Fails(t) PROVE Fine
  <2>1. \E next \in Nexts : th' = Outcome(t, next)
    BY <1>13 DEF Finish, Fails, Nexts
  <2> QED
    BY <1>6, <1>13, <2>1 DEF Finish, Fails
<1>14. ASSUME NEW d, Redirected(t, d) \/ RefusedAway(t) PROVE Fine
  <2>1. PICK next \in Nexts : Out(t) /\ th[t].pc \in {"using", "away"}
           /\ (th' = [Outcome(t, next) EXCEPT ![t].dest = d, ![t].hops = @ + 1] \/ th' = [Outcome(t, next) EXCEPT ![t].spoiled = FALSE])
    BY <1>14 DEF Redirected, RefusedAway, Nexts, Out
  <2>2. DOMAIN Outcome(t, next) = Workers /\ (\A u \in Workers : u # t => Outcome(t, next)[u] = th[u])
        /\ "pc" \in DOMAIN Outcome(t, next)[t] /\ Outcome(t, next)[t].pc # "cut"
    BY <1>1, <2>1 DEF Outcome, AtRest, Nexts
  <2> QED
    BY <1>1, <2>1, <2>2 DEF Workers
<1>15. ASSUME Return(t) PROVE Fine
  BY <1>1, <1>4, <1>15 DEF Return, Nexts
<1>16. ASSUME Point(t) \/ Recover(t) \/ GoHome(t) PROVE Fine
  <2>1. CASE Point(t)
    <3>1. \/ \E x : th' = [th EXCEPT ![t].pc = "attempt", ![t].target = x]
          \/ th' = [th EXCEPT ![t].pc = "attempt", ![t].moved = @ \/ th[t].dest # th[t].home]
      BY <2>1, Zenon DEF Point, Retargeted
    <3>2. ASSUME NEW x, th' = [th EXCEPT ![t].pc = "attempt", ![t].target = x] PROVE Fine
      <4> DEFINE w == [th[t] EXCEPT !.pc = "attempt", !.target = x]
      <4>1. th' = [th EXCEPT ![t] = w] /\ w.pc # "cut"
        BY <1>1, <3>2
      <4> HIDE DEF w, Fine
      <4> QED
        BY <1>2, <4>1
    <3>3. CASE th' = [th EXCEPT ![t].pc = "attempt", ![t].moved = @ \/ th[t].dest # th[t].home]
      <4> DEFINE w == [th[t] EXCEPT !.pc = "attempt", !.moved = @ \/ th[t].dest # th[t].home]
      <4>1. th' = [th EXCEPT ![t] = w] /\ w.pc # "cut"
        BY <1>1, <3>3
      <4> HIDE DEF w, Fine
      <4> QED
        BY <1>2, <4>1
    <3> HIDE DEF Fine
    <3> QED
      BY <3>1, <3>2, <3>3
  <2>2. CASE Recover(t)
    <3>1. \/ th' = [th EXCEPT ![t].pc = "gohome", ![t].spoiled = TRUE, ![t].tries = @ + 1]
          \/ th' = [th EXCEPT ![t].pc = "attempt", ![t].tries = @ + 1]
      BY <2>2, Zenon DEF Recover
    <3>2. CASE th' = [th EXCEPT ![t].pc = "gohome", ![t].spoiled = TRUE, ![t].tries = @ + 1]
      <4> DEFINE w == [th[t] EXCEPT !.pc = "gohome", !.spoiled = TRUE, !.tries = @ + 1]
      <4>1. th' = [th EXCEPT ![t] = w] /\ w.pc # "cut"
        BY <1>1, <3>2
      <4> HIDE DEF w, Fine
      <4> QED
        BY <1>2, <4>1
    <3>3. CASE th' = [th EXCEPT ![t].pc = "attempt", ![t].tries = @ + 1]
      <4> DEFINE w == [th[t] EXCEPT !.pc = "attempt", !.tries = @ + 1]
      <4>1. th' = [th EXCEPT ![t] = w] /\ w.pc # "cut"
        BY <1>1, <3>3
      <4> HIDE DEF w, Fine
      <4> QED
        BY <1>2, <4>1
    <3> HIDE DEF Fine
    <3> QED
      BY <3>1, <3>2, <3>3
  <2>3. CASE GoHome(t)
    <3>1. \/ th' = [th EXCEPT ![t].pc = "attempt", ![t].target = 0]
          \/ th' = [th EXCEPT ![t].pc = "attempt", ![t].moved = FALSE]
      BY <2>3 DEF GoHome
    <3>2. CASE th' = [th EXCEPT ![t].pc = "attempt", ![t].target = 0]
      <4> DEFINE w == [th[t] EXCEPT !.pc = "attempt", !.target = 0]
      <4>1. th' = [th EXCEPT ![t] = w] /\ w.pc # "cut"
        BY <1>1, <3>2
      <4> HIDE DEF w, Fine
      <4> QED
        BY <1>2, <4>1
    <3>3. CASE th' = [th EXCEPT ![t].pc = "attempt", ![t].moved = FALSE]
      <4> DEFINE w == [th[t] EXCEPT !.pc = "attempt", !.moved = FALSE]
      <4>1. th' = [th EXCEPT ![t] = w] /\ w.pc # "cut"
        BY <1>1, <3>3
      <4> HIDE DEF w, Fine
      <4> QED
        BY <1>2, <4>1
    <3> HIDE DEF Fine
    <3> QED
      BY <3>1, <3>2, <3>3
  <2> QED
    BY <1>16, <2>1, <2>2, <2>3
<1>17. ASSUME RecoverRaises(t) \/ ClearNow(t) PROVE Fine
  BY <1>2, <1>4, <1>17 DEF RecoverRaises, ClearNow
<1>18. ASSUME AbortNow(t) PROVE Fine
  <2>1. PICK w : th' = [th EXCEPT ![t] = w] /\ Aborter(t, w)
    BY <1>18, AbortNowIs
  <2>2. w.pc = "idle" \/ w.r = th[t].r
    BY <1>1, <1>4, <2>1 DEF Aborter, ThFields
  <2> QED
    BY <1>1, <1>18, <2>1, <2>2
<1>19. ASSUME CutLink(t) PROVE Fine
  <2>1. PICK w : th' = [th EXCEPT ![t] = w] /\ Cutter(t, w)
    BY <1>19, CutLinkIs
  <2>2. w.pc = "idle" \/ w.r = th[t].r
    BY <1>1, <1>4, <2>1 DEF Cutter, ThFields
  <2> QED
    BY <1>1, <1>19, <2>1, <2>2 DEF CutLink
<1>20. ASSUME Execute(t) \/ Abort(t) \/ Lend(t) \/ Clear(t) PROVE Fine
  <2>1. \/ \E r, h : th' = [th EXCEPT ![t] = [AtRest EXCEPT !.pc = "attempt", !.r = r, !.home = h]]
        \/ \E r : th' = [th EXCEPT ![t] = [AtRest EXCEPT !.pc = "abort", !.r = r]]
        \/ th' = [th EXCEPT ![t] = [AtRest EXCEPT !.pc = "clear"]]
    BY <1>20, Zenon DEF Execute, Abort, Lend, Clear
  <2>2. \E w : th' = [th EXCEPT ![t] = w] /\ w.pc \in {"attempt", "abort", "clear"}
    <3>1. \A r, h : /\ [AtRest EXCEPT !.pc = "attempt", !.r = r, !.home = h].pc = "attempt"
                    /\ [AtRest EXCEPT !.pc = "abort", !.r = r].pc = "abort"
                    /\ [AtRest EXCEPT !.pc = "clear"].pc = "clear"
      BY DEF AtRest
    <3>2. ASSUME NEW r, NEW h, th' = [th EXCEPT ![t] = [AtRest EXCEPT !.pc = "attempt", !.r = r, !.home = h]]
          PROVE  \E w : th' = [th EXCEPT ![t] = w] /\ w.pc \in {"attempt", "abort", "clear"}
      <4> DEFINE w == [AtRest EXCEPT !.pc = "attempt", !.r = r, !.home = h]
      <4>1. w.pc = "attempt"
        BY <3>1
      <4>2. th' = [th EXCEPT ![t] = w]
        BY <3>2
      <4> HIDE DEF w
      <4> QED
        BY <4>1, <4>2
    <3>3. ASSUME NEW r, th' = [th EXCEPT ![t] = [AtRest EXCEPT !.pc = "abort", !.r = r]]
          PROVE  \E w : th' = [th EXCEPT ![t] = w] /\ w.pc \in {"attempt", "abort", "clear"}
      BY <3>1, <3>3
    <3>4. CASE th' = [th EXCEPT ![t] = [AtRest EXCEPT !.pc = "clear"]]
      BY <3>1, <3>4
    <3> QED
      BY <2>1, <3>2, <3>3, <3>4, Zenon
  <2> HIDE DEF Fine
  <2> QED
    BY <1>2, <2>2
<1>21. ASSUME Close(t) \/ Discard(t) \/ Pin(t) PROVE th' = th
  BY <1>21 DEF Close, Discard, Pin
<1>22. Fine
  <2> HIDE DEF Fine
  <2>1. ASSUME Step(t) PROVE Fine
    BY <2>1, <1>7, <1>8, <1>9, <1>10, <1>11, <1>12, <1>13, <1>14, <1>15, <1>16, <1>17, <1>18, <1>19, Zenon DEF Step
  <2>2. ASSUME Call(t) PROVE Fine
    BY <2>2, <1>3, <1>20, <1>21, Zenon DEF Call
  <2> QED
    BY <2>1, <2>2
<1> QED
  BY <1>22

LEMMA AbortingStep ==
    ASSUME AbortInv, OwnInv, Aborting, [Next]_vars
    PROVE  Aborting'
<1>1. \A m \in Routers : router[m].aborted => router'[m].aborted
  BY AbortedStays
<1>2. \A t \in Threads : th[t].pc = "cut" \/ th[t].pc = "abort" => th[t].r \in Routers
  BY DEF AbortInv, Connecting
<1>3. ASSUME NEW t \in Threads, Step(t) \/ Call(t) PROVE Aborting'
  <2> SUFFICES ASSUME NEW u \in Threads, th'[u].pc = "cut" PROVE router'[th'[u].r].aborted
    BY DEF Aborting
  <2>1. CASE u # t \/ th[t].pc = "cut"
    BY <1>1, <1>2, <1>3, <2>1, OnlyAborts DEF Aborting
  <2>2. CASE u = t /\ th[t].pc # "cut"
    <3>1. AbortNow(t) /\ th'[t].r = th[t].r
      BY <1>3, <2>2, OnlyAborts
    <3>2. th[t].r \in Routers /\ DOMAIN router = Routers /\ DOMAIN router[th[t].r] = RouterFields
      BY <1>2, <3>1 DEF AbortNow, At, AbortInv, Shapes
    <3>3. router'[th[t].r].aborted
      BY <3>1, <3>2 DEF AbortNow, RouterFields
    <3> QED
      BY <2>2, <3>1, <3>3
  <2> QED
    BY <2>1, <2>2
<1>4. ASSUME th' = th PROVE Aborting'
  BY <1>1, <1>2, <1>4 DEF Aborting
<1>5. ASSUME CredChanges PROVE Aborting'
  BY <1>1, <1>2, <1>5, CredSame DEF Aborting
<1>6. ASSUME NEW u \in Workers, Chore(u) PROVE th' = th
  BY <1>6 DEF Chore, LeaveLoan, Reap, KeepIdle, CloseConn
<1>7. ASSUME (\E r \in Routers : Collect(r)) \/ TimePasses \/ UNCHANGED vars PROVE th' = th
  BY <1>7 DEF Collect, TimePasses, vars
<1> QED
  BY <1>3, <1>4, <1>5, <1>6, <1>7 DEF Next

LEMMA OwnStep ==
    ASSUME AbortInv, OwnInv, Aborting, [Next]_vars
    PROVE  OwnInv'
<1>1. ASSUME NEW u \in Workers, Chore(u) PROVE OwnInv'
  BY <1>1, LeaveLoanOwn, ReapOwn, KeepIdleOwn, CloseConnOwn DEF Chore
<1>2. ASSUME NEW t \in Threads, Step(t) PROVE OwnInv'
  <2>1. CASE Attempt(t) \/ Enter(t) \/ Acquire(t) \/ Identify(t) \/ Login(t) \/ LoginFails(t)
    BY <2>1, AttemptOwn, EnterOwn, AcquireOwn, IdentifyOwn, LoginOwn, LoginFailsOwn
  <2>2. CASE Installed(t) \/ Borrow(t) \/ Finish(t) \/ Fails(t) \/ RefusedAway(t) \/ Return(t) \/ Point(t)
    BY <2>2, InstalledOwn, BorrowOwn, FinishOwn, FailsOwn, RefusedAwayOwn, ReturnOwn, PointOwn
  <2>3. CASE RecoverRaises(t) \/ Recover(t) \/ GoHome(t) \/ AbortNow(t) \/ CutLink(t) \/ ClearNow(t)
    BY <2>3, RecoverRaisesOwn, RecoverOwn, GoHomeOwn, AbortNowOwn, CutLinkOwn, ClearNowOwn
  <2>4. ASSUME NEW d \in Servers, Redirected(t, d) PROVE OwnInv'
    BY <2>4, RedirectedOwn
  <2> QED
    BY <1>2, <2>1, <2>2, <2>3, <2>4 DEF Step
<1>3. ASSUME NEW t \in Threads, Call(t) PROVE OwnInv'
  <2>1. ASSUME Close(t) PROVE OwnInv'
    BY <2>1, GiveUpOwn DEF Close, MayCall
  <2>2. ASSUME Discard(t) PROVE OwnInv'
    BY <2>2, GiveUpOwn DEF Discard, MayCall
  <2> QED
    BY <1>3, <2>1, <2>2, ExecuteOwn, AbortOwn, LendOwn, PinOwn, ClearOwn DEF Call
<1>4. ASSUME NEW r \in Routers, Collect(r) PROVE OwnInv'
  BY <1>4, CollectOwn
<1> QED
  BY <1>1, <1>2, <1>3, <1>4, TimePassesOwn, CredChangesOwn, OwnStutters DEF Next

-----------------------------------------------------------------------------
(* Counting owners.                                                        *)

IdleWith(c)   == {p \in UNION {{k} \X DOMAIN idle[k] : k \in Keys} : idle[p[1]][p[2]].c = c}
RouterWith(c) == {r \in Routers : router[r].c = c /\ router[r].loan = 0}
LoanWith(c)   == {l \in DOMAIN loans : loans[l].c = c /\ loans[l].holders > 0}
LostWith(c)   == {i \in DOMAIN orphans : orphans[i].c = c /\ orphans[i].loan = 0}
BorrowWith(c) == {t \in Threads : th[t].pc = "borrow" /\ th[t].new = c}
AwayWith(c)   == {t \in Threads : th[t].pc \in {"away", "return"} /\ th[t].c = c}
TodoWith(c)   == {p \in UNION {{u} \X DOMAIN todo[u] : u \in Workers} : todo[p[1]][p[2]].c = c}

\* The slots of one kind own c, or not, as the set of them says.
Counts(S, kind, c) ==
    /\ (\A x \in Slots : x[1] = kind => ~Holds(x, c)) => S = {}
    /\ \A x \in Slots : x[1] = kind /\ Holds(x, c) => \E e : S = {e}

LEMMA OnlySlot ==
    ASSUME OwnInv, NEW c \in Conns, NEW x \in Slots, NEW y \in Slots, Holds(x, c), Holds(y, c)
    PROVE  x = y
BY DEF OwnInv, Owned

LEMMA IdleCounts ==
    ASSUME OwnInv, NEW c \in Conns
    PROVE  Counts(IdleWith(c), "idle", c)
<1>1. ASSUME NEW p \in IdleWith(c)
      PROVE  /\ p = <<p[1], p[2]>> /\ p[1] \in Keys /\ p[2] \in DOMAIN idle[p[1]] /\ idle[p[1]][p[2]].c = c
             /\ Holds(<<"idle", p[1]>>, c) /\ <<"idle", p[1]>> \in Slots
  <2>1. p \in UNION {{k} \X DOMAIN idle[k] : k \in Keys} /\ idle[p[1]][p[2]].c = c
    BY DEF IdleWith
  <2>2. PICK k \in Keys : p \in {k} \X DOMAIN idle[k]
    BY <2>1
  <2>3. p = <<p[1], p[2]>> /\ p[1] = k /\ p[2] \in DOMAIN idle[k]
    BY <2>2
  <2>4. c \in Members(idle[p[1]])
    BY <2>1, <2>3 DEF Members
  <2> QED
    BY <2>1, <2>2, <2>3, <2>4, IdleHolds, SlotIn
<1>2. ASSUME \A x \in Slots : x[1] = "idle" => ~Holds(x, c) PROVE IdleWith(c) = {}
  <2> SUFFICES ASSUME NEW p \in IdleWith(c) PROVE FALSE
    OBVIOUS
  <2>1. Holds(<<"idle", p[1]>>, c) /\ <<"idle", p[1]>> \in Slots /\ <<"idle", p[1]>>[1] = "idle"
    BY <1>1
  <2> QED
    BY <1>2, <2>1
<1>3. ASSUME NEW x \in Slots, x[1] = "idle", Holds(x, c) PROVE \E e : IdleWith(c) = {e}
  <2>1. PICK k \in Keys : x = <<"idle", k>>
    BY <1>3, SlotKinds
  <2>2. c \in Members(idle[k])
    BY <1>3, <2>1, IdleHolds
  <2>3. PICK i \in DOMAIN idle[k] : idle[k][i].c = c
    BY <2>2 DEF Members
  <2>4. <<k, i>> \in IdleWith(c)
    <3>1. <<k, i>> \in {k} \X DOMAIN idle[k]
      OBVIOUS
    <3>2. <<k, i>> \in UNION {{j} \X DOMAIN idle[j] : j \in Keys}
      BY <3>1
    <3> QED
      BY <2>3, <3>2 DEF IdleWith
  <2>5. ASSUME NEW p \in IdleWith(c) PROVE p = <<k, i>>
    <3>1. <<"idle", p[1]>> = <<"idle", k>>
      BY <1>1, <1>3, <2>1, OnlySlot
    <3>2. p[1] = k
      BY <3>1
    <3>3. p[2] \in DOMAIN idle[k] /\ idle[k][p[2]].c = c /\ p = <<p[1], p[2]>>
      BY <1>1, <3>2
    <3>4. Distinct(idle[k]) /\ c # 0
      BY DEF OwnInv, Store, Conns
    <3>5. p[2] = i
      BY <2>3, <3>3, <3>4 DEF Distinct
    <3> QED
      BY <3>2, <3>3, <3>5
  <2> QED
    BY <2>4, <2>5
<1> QED
  BY <1>2, <1>3 DEF Counts

LEMMA TodoCounts ==
    ASSUME OwnInv, NEW c \in Conns
    PROVE  Counts(TodoWith(c), "todo", c)
<1>1. ASSUME NEW p \in TodoWith(c)
      PROVE  /\ p = <<p[1], p[2]>> /\ p[1] \in Workers /\ p[2] \in DOMAIN todo[p[1]] /\ todo[p[1]][p[2]].c = c
             /\ Holds(<<"todo", p[1]>>, c) /\ <<"todo", p[1]>> \in Slots
  <2>1. p \in UNION {{u} \X DOMAIN todo[u] : u \in Workers} /\ todo[p[1]][p[2]].c = c
    BY DEF TodoWith
  <2>2. PICK u \in Workers : p \in {u} \X DOMAIN todo[u]
    BY <2>1
  <2>3. p = <<p[1], p[2]>> /\ p[1] = u /\ p[2] \in DOMAIN todo[u]
    BY <2>2
  <2>4. c \in Members(todo[p[1]])
    BY <2>1, <2>3 DEF Members
  <2> QED
    BY <2>1, <2>2, <2>3, <2>4, TodoHolds, SlotIn
<1>2. ASSUME \A x \in Slots : x[1] = "todo" => ~Holds(x, c) PROVE TodoWith(c) = {}
  <2> SUFFICES ASSUME NEW p \in TodoWith(c) PROVE FALSE
    OBVIOUS
  <2>1. Holds(<<"todo", p[1]>>, c) /\ <<"todo", p[1]>> \in Slots /\ <<"todo", p[1]>>[1] = "todo"
    BY <1>1
  <2> QED
    BY <1>2, <2>1
<1>3. ASSUME NEW x \in Slots, x[1] = "todo", Holds(x, c) PROVE \E e : TodoWith(c) = {e}
  <2>1. PICK u \in Workers : x = <<"todo", u>>
    BY <1>3, SlotKinds
  <2>2. c \in Members(todo[u])
    BY <1>3, <2>1, TodoHolds
  <2>3. PICK i \in DOMAIN todo[u] : todo[u][i].c = c
    BY <2>2 DEF Members
  <2>4. <<u, i>> \in TodoWith(c)
    <3>1. <<u, i>> \in {u} \X DOMAIN todo[u]
      OBVIOUS
    <3>2. <<u, i>> \in UNION {{v} \X DOMAIN todo[v] : v \in Workers}
      BY <3>1
    <3> QED
      BY <2>3, <3>2 DEF TodoWith
  <2>5. ASSUME NEW p \in TodoWith(c) PROVE p = <<u, i>>
    <3>1. <<"todo", p[1]>> = <<"todo", u>>
      BY <1>1, <1>3, <2>1, OnlySlot
    <3>2. p[1] = u
      BY <3>1
    <3>3. p[2] \in DOMAIN todo[u] /\ todo[u][p[2]].c = c /\ p = <<p[1], p[2]>>
      BY <1>1, <3>2
    <3>4. Distinct(todo[u]) /\ c # 0
      BY DEF OwnInv, Store, TodoOK, Conns
    <3>5. p[2] = i
      BY <2>3, <3>3, <3>4 DEF Distinct
    <3> QED
      BY <3>2, <3>3, <3>5
  <2> QED
    BY <2>4, <2>5
<1> QED
  BY <1>2, <1>3 DEF Counts

LEMMA LostCounts ==
    ASSUME OwnInv, NEW c \in Conns
    PROVE  Counts(LostWith(c), "orphans", c)
<1>1. ASSUME NEW x \in Slots, x[1] = "orphans"
      PROVE  Holds(x, c) <=> LostWith(c) # {}
  <2>1. x = <<"orphans", 0>>
    BY <1>1, SlotKinds
  <2> QED
    BY <2>1, OrphansHold DEF Adrift, LostWith
<1>2. ASSUME LostWith(c) # {} PROVE \E e : LostWith(c) = {e}
  <2>1. PICK i : i \in LostWith(c)
    BY <1>2
  <2>2. \A j \in LostWith(c) : j = i
    BY <2>1 DEF LostWith, OwnInv, Store
  <2>3. LostWith(c) = {i}
    BY <2>1, <2>2
  <2> QED
    BY <2>3
<1>3. <<"orphans", 0>> \in Slots /\ <<"orphans", 0>>[1] = "orphans"
  BY SlotIn
<1> QED
  BY <1>1, <1>2, <1>3 DEF Counts

\* A set named by the slots of one kind.
LEMMA NamedCounts ==
    ASSUME OwnInv, NEW c \in Conns, NEW kind, NEW D, NEW S, S \subseteq D, \A d \in D : <<kind, d>> \in Slots,
           \A d \in D : d \in S <=> Holds(<<kind, d>>, c),
           \A x \in Slots : x[1] = kind /\ Holds(x, c) => x[2] \in D /\ x = <<kind, x[2]>>
    PROVE  Counts(S, kind, c)
<1>1. ASSUME \A x \in Slots : x[1] = kind => ~Holds(x, c) PROVE S = {}
  <2>1. \A d \in D : <<kind, d>>[1] = kind
    OBVIOUS
  <2> QED
    BY <1>1, <2>1
<1>2. ASSUME NEW x \in Slots, x[1] = kind, Holds(x, c) PROVE \E e : S = {e}
  <2>1. x[2] \in D /\ x = <<kind, x[2]>> /\ x[2] \in S
    BY <1>2
  <2>2. ASSUME NEW d \in S PROVE d = x[2]
    <3>1. <<kind, d>> = x
      BY <1>2, OnlySlot
    <3> QED
      BY <3>1
  <2>3. S = {x[2]}
    BY <2>1, <2>2
  <2> QED
    BY <2>3
<1> QED
  BY <1>1, <1>2 DEF Counts

LEMMA OtherCounts ==
    ASSUME OwnInv, NEW c \in Conns
    PROVE  /\ Counts(RouterWith(c), "router", c) /\ Counts(LoanWith(c), "loan", c)
           /\ Counts(BorrowWith(c), "borrow", c) /\ Counts(AwayWith(c), "away", c)
<1>1. Counts(RouterWith(c), "router", c)
  <2>1. \A d \in Routers : d \in RouterWith(c) <=> Holds(<<"router", d>>, c)
    BY RouterHolds DEF RouterWith
  <2>2. RouterWith(c) \subseteq Routers /\ \A d \in Routers : <<"router", d>> \in Slots
    BY SlotIn DEF RouterWith
  <2>3. \A x \in Slots : x[1] = "router" /\ Holds(x, c) => x[2] \in Routers /\ x = <<"router", x[2]>>
    BY SlotKinds
  <2> QED
    BY <2>1, <2>2, <2>3, NamedCounts
<1>2. Counts(LoanWith(c), "loan", c)
  <2>1. loans \in Seq(Loan) /\ DOMAIN loans \subseteq Nat
    <3>1. loans \in Seq(Loan)
      BY DEF OwnInv, Store
    <3> QED
      BY <3>1
  <2>2. \A d \in DOMAIN loans : d \in LoanWith(c) <=> Holds(<<"loan", d>>, c)
    <3>1. ASSUME NEW d \in DOMAIN loans, loans[d].c = c PROVE loans[d].holders > 0
      <4>1. loans[d] \in Loan /\ LoanOK(d) /\ c # 0
        BY HeldLoan DEF Conns
      <4> QED
        BY <3>1, <4>1 DEF LoanOK, Loan
    <3> QED
      BY <3>1, LoanHolds DEF LoanWith
  <2>3. LoanWith(c) \subseteq DOMAIN loans /\ \A d \in DOMAIN loans : <<"loan", d>> \in Slots
    BY <2>1, SlotIn DEF LoanWith
  <2>4. ASSUME NEW x \in Slots, x[1] = "loan", Holds(x, c) PROVE x[2] \in DOMAIN loans /\ x = <<"loan", x[2]>>
    <3>1. x = <<"loan", x[2]>>
      BY <2>4, SlotKinds
    <3> QED
      BY <2>4, <3>1, LoanHolds
  <2> QED
    BY <2>2, <2>3, <2>4, NamedCounts
<1>3. Counts(BorrowWith(c), "borrow", c)
  <2>1. \A d \in Threads : d \in BorrowWith(c) <=> Holds(<<"borrow", d>>, c)
    BY HoldsIs DEF BorrowWith
  <2>2. BorrowWith(c) \subseteq Threads /\ \A d \in Threads : <<"borrow", d>> \in Slots
    BY SlotIn DEF BorrowWith
  <2>3. \A x \in Slots : x[1] = "borrow" /\ Holds(x, c) => x[2] \in Threads /\ x = <<"borrow", x[2]>>
    BY SlotKinds
  <2> QED
    BY <2>1, <2>2, <2>3, NamedCounts
<1>4. Counts(AwayWith(c), "away", c)
  <2>1. \A d \in Threads : d \in AwayWith(c) <=> Holds(<<"away", d>>, c)
    BY HoldsIs DEF AwayWith
  <2>2. AwayWith(c) \subseteq Threads /\ \A d \in Threads : <<"away", d>> \in Slots
    BY SlotIn DEF AwayWith
  <2>3. \A x \in Slots : x[1] = "away" /\ Holds(x, c) => x[2] \in Threads /\ x = <<"away", x[2]>>
    BY SlotKinds
  <2> QED
    BY <2>1, <2>2, <2>3, NamedCounts
<1> QED
  BY <1>1, <1>2, <1>3, <1>4

LEMMA OwnerCount ==
    ASSUME OwnInv, NEW c \in Conns, conn[c].st = "open"
    PROVE  Owners(c) = 1
<1>1. PICK x \in Slots : Holds(x, c)
  BY DEF OwnInv, Owned
<1>2. x[1] \in {"idle", "router", "loan", "orphans", "borrow", "away", "todo"}
  BY SlotKinds
<1>3. \A y \in Slots : Holds(y, c) => y[1] = x[1]
  BY <1>1, OnlySlot
<1>4. ASSUME NEW S, NEW kind, Counts(S, kind, c) PROVE Cardinality(S) = IF x[1] = kind THEN 1 ELSE 0
  <2>1. CASE x[1] = kind
    <3>1. PICK e : S = {e}
      BY <1>1, <1>4, <2>1 DEF Counts
    <3> QED
      BY <2>1, <3>1, FS_Singleton
  <2>2. CASE x[1] # kind
    <3>1. S = {}
      BY <1>3, <1>4, <2>2 DEF Counts
    <3> QED
      BY <2>2, <3>1, FS_EmptySet
  <2> QED
    BY <2>1, <2>2
<1>5. /\ Cardinality(IdleWith(c)) = (IF x[1] = "idle" THEN 1 ELSE 0)
      /\ Cardinality(RouterWith(c)) = (IF x[1] = "router" THEN 1 ELSE 0)
      /\ Cardinality(LoanWith(c)) = (IF x[1] = "loan" THEN 1 ELSE 0)
      /\ Cardinality(LostWith(c)) = (IF x[1] = "orphans" THEN 1 ELSE 0)
      /\ Cardinality(BorrowWith(c)) = (IF x[1] = "borrow" THEN 1 ELSE 0)
      /\ Cardinality(AwayWith(c)) = (IF x[1] = "away" THEN 1 ELSE 0)
      /\ Cardinality(TodoWith(c)) = (IF x[1] = "todo" THEN 1 ELSE 0)
  BY <1>4, IdleCounts, TodoCounts, LostCounts, OtherCounts
<1>6. Owners(c) = Cardinality(IdleWith(c)) + Cardinality(RouterWith(c)) + Cardinality(LoanWith(c)) + Cardinality(LostWith(c))
                  + Cardinality(BorrowWith(c)) + Cardinality(AwayWith(c)) + Cardinality(TodoWith(c))
  BY DEF Owners, IdleWith, RouterWith, LoanWith, LostWith, BorrowWith, AwayWith, TodoWith
<1> QED
  BY <1>2, <1>5, <1>6

\* The things on lists that leave loan l, one of each worker that is leaving it.
LeavingItems(l) ==
    {p \in UNION {{u} \X DOMAIN todo[u] : u \in Workers} : todo[p[1]][p[2]].loan = l}

LEMMA LeaversCount ==
    ASSUME OwnInv, NEW l \in DOMAIN loans
    PROVE  Cardinality(LeavingItems(l)) = Cardinality(LeaversOf(l))
<1>1. l # 0
  BY HeldLoan
<1>2. ASSUME NEW u \in Workers
      PROVE  /\ \A i \in DOMAIN todo[u] : todo[u][i].loan = l => i = 1
             /\ Leaving(u) = l <=> (1 \in DOMAIN todo[u] /\ todo[u][1].loan = l)
  <2>1. todo[u] \in Seq(Item) /\ \A i \in DOMAIN todo[u] : ItemOK(todo[u][i], i, Len(loans))
    BY DEF OwnInv, Store, TodoOK
  <2>2. \A i \in DOMAIN todo[u] : todo[u][i].loan = l => i = 1
    BY <1>1, <2>1 DEF ItemOK
  <2>3. todo[u] # <<>> <=> 1 \in DOMAIN todo[u]
    BY <2>1
  <2> QED
    BY <1>1, <2>2, <2>3 DEF Leaving
<1> DEFINE f == [u \in LeaversOf(l) |-> <<u, 1>>]
<1>3. \A u \in LeaversOf(l) : <<u, 1>> \in LeavingItems(l)
  BY <1>2 DEF LeaversOf, LeavingItems
<1>4. \A p \in LeavingItems(l) : \E u \in LeaversOf(l) : p = <<u, 1>>
  <2> SUFFICES ASSUME NEW p \in LeavingItems(l)
               PROVE  \E u \in LeaversOf(l) : p = <<u, 1>>
    OBVIOUS
  <2>1. PICK u \in Workers : p \in {u} \X DOMAIN todo[u]
    BY DEF LeavingItems
  <2>2. PICK i \in DOMAIN todo[u] : p = <<u, i>>
    BY <2>1
  <2>3. todo[u][i].loan = l
    BY <2>2 DEF LeavingItems
  <2>4. i = 1 /\ u \in LeaversOf(l)
    BY <1>2, <2>3 DEF LeaversOf
  <2> QED
    BY <2>2, <2>4
<1>5. f \in Bijection(LeaversOf(l), LeavingItems(l))
  BY <1>3, <1>4 DEF Bijection, Injection, Surjection, IsInjective
<1>6. ExistsBijection(LeaversOf(l), LeavingItems(l))
  BY <1>5 DEF ExistsBijection
<1>7. IsFiniteSet(LeaversOf(l))
  BY HoldersFinite
<1> QED
  BY <1>6, <1>7, FS_Bijection

LEMMA OwnFollows ==
    ASSUME AbortInv, OwnInv
    PROVE  ConnsSafe
<1>1. TypeOK
  <2>1. \A c \in Conns : conn[c].st \in {"unborn", "open", "broken", "dead", "shut"}
    BY DEF OwnInv, Store, Link
  <2>2. \A r \in Routers : router[r].c \in 0 .. MaxConns /\ router[r].loan \in 0 .. Len(loans) /\ router[r].url \in Servers
    BY DEF OwnInv, RouterOK
  <2>3. lock \in [Routers -> Threads \cup {Nobody}]
    BY DEF AbortInv, Shapes
  <2>4. \A k \in Keys : Len(idle[k]) <= PoolSize
    BY DEF OwnInv, Store
  <2> QED
    BY <2>1, <2>2, <2>3, <2>4 DEF TypeOK
<1>2. OwnedOnce
  BY OwnerCount DEF OwnedOnce
<1>3. LoansBalance
  <2>1. ASSUME NEW l \in DOMAIN loans
        PROVE  loans[l].holders = Cardinality(UsersOf(l)) + Cardinality(LostOf(l)) + Cardinality(LeavingItems(l))
    BY LeaversCount, HeldLoan DEF LoanOK
  <2> QED
    BY <2>1 DEF LoansBalance, UsersOf, LostOf, LostIn, LeavingItems
<1>4. NeverClosedUnder
  BY DEF OwnInv
<1> QED
  BY <1>1, <1>2, <1>3, <1>4 DEF ConnsSafe

\* Every live connection is exactly one owner's (the pool's, a router's, a
\* loan's, the collector's queue's, a request's, or a list of what is still to
\* be done with it), every loan counts the routers that use it and those on
\* their way out, and while no router is aborted none is closed under a router
\* that has it (SessionPool, _Loan, Router.reap), for any finite number of
\* threads and routers and any pool size.
THEOREM ConnsAreSafe == Spec => []ConnsSafe
<1> DEFINE Inv == AbortInv /\ OwnInv /\ Aborting
<1>1. Init => Inv
  BY AbortStarts, OwnStarts, AbortingStarts
<1>2. Inv /\ [Next]_vars => Inv'
  BY AbortStep, OwnStep, AbortingStep
<1>3. Inv => ConnsSafe
  BY OwnFollows
<1> HIDE DEF Inv
<1> QED
  BY <1>1, <1>2, <1>3, PTL DEF Spec

-----------------------------------------------------------------------------
(* Where a pooled connection leads, and whose it is.                       *)

\* A connection in order leads to server a.
LeadsTo(x, a) == x.st = "open" => x.at = a

\* A router that never moves, or has yet to borrow its first connection.
Fixed(q) == ~q.sticky \/ q.lender # 0

\* A connection is known by the identity that logged in on it.
KnownAs(c) ==
    conn[c].st = "open" /\ PoolSize # 0 => conn[c].born # 0 /\ (conn[c].who = conn[c].born \/ conn[c].raced)

\* A connection x that bucket k may hand out is the bucket's.
HomeAt(x, k) == x.st = "open" => x.at = k[1] /\ (x.who = k[2] \/ x.raced)

BucketHome(k) == \A c \in Members(idle[k]) : HomeAt(conn[c], k)

RouterHome(r) ==
    /\ router[r].c # 0 => LeadsTo(conn[router[r].c], router[r].url)
    /\ Fixed(router[r]) => router[r].url = 1

LoansHome      == \A l \in DOMAIN loans : loans[l].c # 0 => LeadsTo(conn[loans[l].c], loans[l].at)
LostHome       == \A i \in DOMAIN orphans : orphans[i].loan = 0 => LeadsTo(conn[orphans[i].c], orphans[i].at)
ListHome(s, f) == \A i \in DOMAIN s : s[i].op \in {"release", "keep"} => LeadsTo(f[s[i].c], s[i].at)

ThreadHome(t) ==
    /\ th[t].pc = "borrow" => LeadsTo(conn[th[t].new], th[t].target)
    /\ th[t].pc \in {"away", "return"} => LeadsTo(conn[th[t].c], th[t].target)
    /\ th[t].pc = "login" /\ PoolSize # 0 => th[t].id \in Idents /\ (th[t].id = cred \/ th[t].raced)
    /\ th[t].pc \in {"using", "point"} => th[t].c # 0
    /\ th[t].pc \notin {"idle", "clear"} /\ Fixed(router[th[t].r]) => th[t].home = 1
    /\ th[t].lender # 0 => router[th[t].r].url = 1

HomeInv ==
    /\ (\A c \in Conns : KnownAs(c)) /\ (\A k \in Keys : BucketHome(k)) /\ (\A r \in Routers : RouterHome(r))
    /\ LoansHome /\ LostHome
    /\ (\A u \in Workers : ListHome(todo[u], conn)) /\ (\A t \in Threads : ThreadHome(t))

LEMMA HomeStarts ==
    ASSUME Init
    PROVE  HomeInv
<1>1. \A c \in Conns : KnownAs(c)
  BY DEF Init, Unborn, KnownAs
<1>2. \A k \in Keys : BucketHome(k)
  <2>1. \A k \in Keys : idle[k] = <<>>
    BY DEF Init
  <2> QED
    BY <2>1, NothingMore DEF BucketHome
<1>3. \A r \in Routers : RouterHome(r)
  BY DEF Init, NoRouter, RouterHome
<1>4. LoansHome /\ LostHome
  <2>1. loans = <<>> /\ orphans = <<>>
    BY DEF Init
  <2> QED
    BY <2>1 DEF LoansHome, LostHome
<1>5. \A u \in Workers : ListHome(todo[u], conn)
  <2>1. \A u \in Workers : todo[u] = <<>>
    BY DEF Init
  <2> QED
    BY <2>1 DEF ListHome
<1>6. \A t \in Threads : ThreadHome(t)
  <2> SUFFICES ASSUME NEW t \in Threads
               PROVE  ThreadHome(t)
    OBVIOUS
  <2>1. th[t] = AtRest
    BY ConnectionsAssumption DEF Init, Workers
  <2>2. th[t].pc = "idle" /\ th[t].lender = 0
    BY <2>1 DEF AtRest
  <2> QED
    BY <2>2 DEF ThreadHome
<1> QED
  BY <1>1, <1>2, <1>3, <1>4, <1>5, <1>6 DEF HomeInv

\* No connection that is in order changes, but one that is dialled.
Steady == \A c \in Conns : conn[c].st # "unborn" /\ conn'[c].st = "open" => conn'[c] = conn[c]

Born(c) == c \in Conns /\ conn[c].st # "unborn"

LEMMA HeldBorn ==
    ASSUME OwnInv
    PROVE  /\ \A k \in Keys : \A i \in DOMAIN idle[k] : Born(idle[k][i].c)
           /\ \A r \in Routers : router[r].c # 0 => Born(router[r].c)
           /\ \A l \in DOMAIN loans : loans[l].c # 0 => Born(loans[l].c)
           /\ \A i \in DOMAIN orphans : orphans[i].loan = 0 => Born(orphans[i].c)
           /\ \A u \in Workers : \A i \in DOMAIN todo[u] : todo[u][i].c # 0 => Born(todo[u][i].c)
           /\ \A t \in Threads : /\ th[t].pc = "borrow" => Born(th[t].new)
                                 /\ th[t].pc \in {"away", "return"} => Born(th[t].c)
<1>1. \A x \in Slots, c \in Conns : Holds(x, c) => Born(c)
  BY DEF OwnInv, Owned, Born
<1>2. MaxConns \in Nat /\ \A c \in 0 .. MaxConns : c # 0 => c \in Conns
  BY ConnectionsAssumption DEF Conns
<1>3. ASSUME NEW k \in Keys, NEW i \in DOMAIN idle[k] PROVE Born(idle[k][i].c)
  <2>1. idle[k][i].c \in Conns
    <3>1. idle[k] \in Seq(Entry)
      BY DEF OwnInv, Store
    <3>2. idle[k][i] \in Entry
      BY <3>1
    <3> QED
      BY <3>2 DEF Entry
  <2>2. Holds(<<"idle", k>>, idle[k][i].c)
    BY HoldsIs DEF Members
  <2> QED
    BY <1>1, <2>1, <2>2, SlotIn
<1>4. ASSUME NEW r \in Routers, router[r].c # 0 PROVE Born(router[r].c)
  BY <1>1, <1>4, UserHolds
<1>5. ASSUME NEW l \in DOMAIN loans, loans[l].c # 0 PROVE Born(loans[l].c)
  <2>1. loans[l].c \in Conns /\ l \in Nat
    BY <1>2, <1>5, HeldLoan DEF Loan
  <2>2. Holds(<<"loan", l>>, loans[l].c)
    BY HoldsIs
  <2> QED
    BY <1>1, <2>1, <2>2, SlotIn
<1>6. ASSUME NEW i \in DOMAIN orphans, orphans[i].loan = 0 PROVE Born(orphans[i].c)
  <2>1. orphans[i].c \in Conns
    <3>1. orphans \in Seq(Orphan)
      BY DEF OwnInv, Store
    <3>2. orphans[i] \in Orphan
      BY <3>1
    <3> QED
      BY <3>2 DEF Orphan
  <2>2. Holds(<<"orphans", 0>>, orphans[i].c)
    BY <1>6, OrphansHold DEF Adrift
  <2> QED
    BY <1>1, <2>1, <2>2, SlotIn
<1>7. ASSUME NEW u \in Workers, NEW i \in DOMAIN todo[u], todo[u][i].c # 0 PROVE Born(todo[u][i].c)
  <2>1. todo[u][i] \in Item
    BY DEF OwnInv, Store, TodoOK
  <2>2. todo[u][i].c \in Conns
    BY <1>2, <1>7, <2>1 DEF Item
  <2>3. Holds(<<"todo", u>>, todo[u][i].c)
    BY TodoHolds DEF Members
  <2> QED
    BY <1>1, <2>2, <2>3, SlotIn
<1>8. ASSUME NEW t \in Threads PROVE /\ th[t].pc = "borrow" => Born(th[t].new)
                                     /\ th[t].pc \in {"away", "return"} => Born(th[t].c)
  <2>1. Fit(th[t])
    BY DEF OwnInv, ThreadOK
  <2>2. /\ th[t].pc = "borrow" => th[t].new \in Conns
        /\ th[t].pc \in {"away", "return"} => th[t].c \in Conns
    BY <1>2, <2>1 DEF Fit
  <2>3. /\ th[t].pc = "borrow" => Holds(<<"borrow", t>>, th[t].new)
        /\ th[t].pc \in {"away", "return"} => Holds(<<"away", t>>, th[t].c)
    BY HoldsIs
  <2> QED
    BY <1>1, <2>2, <2>3, SlotIn
<1> QED
  BY <1>3, <1>4, <1>5, <1>6, <1>7, <1>8

LEMMA StillLeads ==
    ASSUME Steady, NEW c, Born(c), NEW a, LeadsTo(conn[c], a)
    PROVE  LeadsTo(conn'[c], a)
BY DEF Steady, Born, LeadsTo

\* What a step leaves alone stays at home.
LEMMA HomeFrame ==
    ASSUME OwnInv, HomeInv, Steady,
           conn' = conn \/ \A c \in Conns : KnownAs(c)',
           (conn' = conn /\ idle' = idle) \/ \A k \in Keys : BucketHome(k)',
           \A r \in Routers : router'[r] = router[r] \/ RouterHome(r)',
           loans' = loans \/ LoansHome', orphans' = orphans \/ LostHome',
           \A u \in Workers : todo'[u] = todo[u] \/ ListHome(todo'[u], conn'),
           \A t \in Threads : ThreadHome(t)'
    PROVE  HomeInv'
<1>1. \A c \in Conns : KnownAs(c)'
  BY DEF HomeInv, KnownAs
<1>2. \A k \in Keys : BucketHome(k)'
  BY DEF HomeInv, BucketHome
<1>3. ASSUME NEW r \in Routers, router'[r] = router[r] PROVE RouterHome(r)'
  <2>1. router[r].c # 0 => LeadsTo(conn'[router[r].c], router[r].url)
    BY HeldBorn, StillLeads DEF HomeInv, RouterHome
  <2>2. Fixed(router[r]) => router[r].url = 1
    BY DEF HomeInv, RouterHome
  <2> QED
    BY <1>3, <2>1, <2>2, Zenon DEF RouterHome, Fixed
<1>4. ASSUME loans' = loans PROVE LoansHome'
  <2>1. \A l \in DOMAIN loans : loans[l].c # 0 => LeadsTo(conn'[loans[l].c], loans[l].at)
    BY HeldBorn, StillLeads DEF HomeInv, LoansHome
  <2> QED
    BY <1>4, <2>1 DEF LoansHome, LeadsTo
<1>5. ASSUME orphans' = orphans PROVE LostHome'
  <2>1. \A i \in DOMAIN orphans : orphans[i].loan = 0 => LeadsTo(conn'[orphans[i].c], orphans[i].at)
    BY HeldBorn, StillLeads DEF HomeInv, LostHome
  <2> QED
    BY <1>5, <2>1 DEF LostHome, LeadsTo
<1>6. ASSUME NEW u \in Workers, todo'[u] = todo[u] PROVE ListHome(todo'[u], conn')
  <2>1. ASSUME NEW i \in DOMAIN todo[u], todo[u][i].op \in {"release", "keep"} PROVE LeadsTo(conn'[todo[u][i].c], todo[u][i].at)
    <3>1. todo[u][i].c # 0
      BY <2>1 DEF OwnInv, Store, TodoOK, ItemOK
    <3>2. LeadsTo(conn[todo[u][i].c], todo[u][i].at)
      BY <2>1 DEF HomeInv, ListHome
    <3> QED
      BY <3>1, <3>2, HeldBorn, StillLeads
  <2> QED
    BY <1>6, <2>1 DEF ListHome
<1>7. (\A u \in Workers : ListHome(todo[u], conn))'
  BY <1>6 DEF ListHome
<1> QED
  BY <1>1, <1>2, <1>3, <1>4, <1>5, <1>7 DEF HomeInv

\* The threads that a step of t leaves alone.
LEMMA OthersHome ==
    ASSUME AbortInv, OwnInv, HomeInv, Steady, cred' = cred, NEW t, \A u \in Threads : u # t => th'[u] = th[u],
           \A m \in Routers : router[m].st # "none" =>
              /\ Fixed(router'[m]) => Fixed(router[m])
              /\ router'[m].url = router[m].url \/ lock[m] \in {t, Nobody}
    PROVE  \A u \in Threads : u # t => ThreadHome(u)'
<1> SUFFICES ASSUME NEW u \in Threads, u # t
             PROVE  ThreadHome(u)'
  OBVIOUS
<1>1. th'[u] = th[u] /\ ThreadHome(u) /\ ThreadOK(u) /\ Connecting(u)
  BY DEF AbortInv, OwnInv, HomeInv
<1>2. th[u].pc = "borrow" => LeadsTo(conn'[th[u].new], th[u].target)
  BY <1>1, HeldBorn, StillLeads DEF ThreadHome
<1>3. th[u].pc \in {"away", "return"} => LeadsTo(conn'[th[u].c], th[u].target)
  BY <1>1, HeldBorn, StillLeads DEF ThreadHome
<1>4. th[u].pc \notin {"idle", "clear"} => th[u].r \in Routers /\ router[th[u].r].st # "none"
  BY <1>1 DEF Connecting, ThreadOK
<1>5. th[u].pc \notin {"idle", "clear"} /\ Fixed(router'[th[u].r]) => th[u].home = 1
  BY <1>1, <1>4 DEF ThreadHome
<1>6. ASSUME th[u].lender # 0 PROVE router'[th[u].r].url = 1
  <2>1. th[u].pc \notin {"idle", "clear"} /\ lock[th[u].r] = u /\ router[th[u].r].url = 1
    BY <1>1, <1>6 DEF Connecting, ThreadHome
  <2> QED
    BY <1>4, <2>1, ConnectionsAssumption
<1> QED
  BY <1>1, <1>2, <1>3, <1>5, <1>6 DEF ThreadHome, LeadsTo, Fixed

\* A thread with no connection of its own in hand.
LEMMA PlainHome ==
    ASSUME HomeInv, NEW t \in Threads, NEW w, th'[t] = w, w.pc \notin {"borrow", "away", "return", "login"}, w.lender = 0,
           w.pc \in {"using", "point"} => w.c # 0,
           \/ w.pc \in {"idle", "clear"}
           \/ w.home = 1
           \/ w.r = th[t].r /\ w.home = th[t].home /\ th[t].pc \notin {"idle", "clear"} /\ (Fixed(router'[w.r]) => Fixed(router[w.r]))
    PROVE  ThreadHome(t)'
<1>1. ThreadHome(t)
  BY DEF HomeInv
<1>2. w.pc \notin {"idle", "clear"} /\ Fixed(router'[w.r]) => w.home = 1
  BY <1>1 DEF ThreadHome
<1> QED
  BY <1>2 DEF ThreadHome, Fixed

\* A step of thread t alone.
LEMMA AloneHome ==
    ASSUME AbortInv, OwnInv, HomeInv, NEW t \in Threads, NEW w, th' = [th EXCEPT ![t] = w], ThreadHome(t)',
           UNCHANGED <<conn, idle, orphans, loans, todo, router, cred>>
    PROVE  HomeInv'
<1>1. t \in DOMAIN th /\ \A u \in Threads : u # t => th'[u] = th[u]
  BY MyThread
<1>2. Steady
  BY DEF Steady
<1>3. \A u \in Threads : ThreadHome(u)'
  BY <1>1, <1>2, OthersHome
<1> QED
  BY <1>2, <1>3, HomeFrame

LEMMA SoloHome ==
    ASSUME AbortInv, OwnInv, HomeInv, NEW t \in Threads, NEW w, th' = [th EXCEPT ![t] = w],
           UNCHANGED <<conn, idle, orphans, loans, todo, router, cred>>,
           w.pc \notin {"borrow", "away", "return", "login"}, w.lender = 0, w.pc \in {"using", "point"} => w.c # 0,
           \/ w.pc \in {"idle", "clear"} \/ w.home = 1
           \/ w.r = th[t].r /\ w.home = th[t].home /\ th[t].pc \notin {"idle", "clear"}
    PROVE  HomeInv'
<1>1. th'[t] = w
  <2>1. t \in DOMAIN th
    BY MyThread
  <2> QED
    BY <2>1
<1>2. Fixed(router'[w.r]) => Fixed(router[w.r])
  OBVIOUS
<1>3. ThreadHome(t)'
  BY <1>1, <1>2, PlainHome
<1> QED
  BY <1>3, AloneHome

LEMMA AttemptHome ==
    ASSUME AbortInv, OwnInv, HomeInv, NEW t \in Threads, Attempt(t)
    PROVE  HomeInv'
<1> DEFINE q == router[th[t].r]
           w == CASE q.aborted -> AtRest
                  [] ~q.aborted /\ th[t].target # 0 -> [th[t] EXCEPT !.pc = "acquire"]
                  [] ~q.aborted /\ th[t].target = 0 /\ Alive(q.c) -> [th[t] EXCEPT !.pc = "using", !.c = q.c]
                  [] OTHER -> [th[t] EXCEPT !.pc = "lockwait"]
<1>1. th[t].pc = "attempt" /\ UNCHANGED <<conn, idle, orphans, loans, todo, router, cred>>
  BY DEF Attempt, At
<1>2. t \in DOMAIN th /\ DOMAIN th[t] = ThFields /\ th[t].lender = 0
  BY <1>1, MyThread
<1>3. th' = [th EXCEPT ![t] = w]
  BY <1>2 DEF Attempt
<1>4. \/ w = AtRest
      \/ w = [th[t] EXCEPT !.pc = "acquire"]
      \/ w = [th[t] EXCEPT !.pc = "using", !.c = q.c] /\ q.c # 0
      \/ w = [th[t] EXCEPT !.pc = "lockwait"]
  BY DEF Alive
<1> HIDE DEF w
<1>5. w.lender = 0 /\ w.pc \in {"idle", "acquire", "using", "lockwait"} /\ (w.pc = "using" => w.c # 0)
      /\ (w.pc # "idle" => w.r = th[t].r /\ w.home = th[t].home)
  <2>1. CASE w = AtRest
    BY <2>1 DEF AtRest
  <2>2. CASE w # AtRest
    BY <1>1, <1>2, <1>4, <2>2 DEF ThFields
  <2> QED
    BY <2>1, <2>2
<1> QED
  BY <1>1, <1>3, <1>5, SoloHome

LEMMA RecoverRaisesHome ==
    ASSUME AbortInv, OwnInv, HomeInv, NEW t \in Threads, RecoverRaises(t)
    PROVE  HomeInv'
<1>1. UNCHANGED <<conn, idle, orphans, loans, todo, router, cred>> /\ th' = [th EXCEPT ![t] = AtRest]
  BY DEF RecoverRaises
<1>2. AtRest.pc = "idle" /\ AtRest.lender = 0
  BY DEF AtRest
<1> QED
  BY <1>1, <1>2, SoloHome

LEMMA LoginFailsHome ==
    ASSUME AbortInv, OwnInv, HomeInv, NEW t \in Threads, LoginFails(t)
    PROVE  HomeInv'
<1> DEFINE w == [th[t] EXCEPT !.pc = "recover", !.lender = 0, !.raced = FALSE]
<1>1. th[t].pc = "login" /\ UNCHANGED <<conn, idle, orphans, loans, todo, router, cred>>
  BY DEF LoginFails, At
<1>2. t \in DOMAIN th /\ DOMAIN th[t] = ThFields
  BY MyThread
<1>3. th' = [th EXCEPT ![t] = w]
  BY <1>2 DEF LoginFails
<1>4. w.pc = "recover" /\ w.lender = 0 /\ w.r = th[t].r /\ w.home = th[t].home
  BY <1>2 DEF ThFields
<1> HIDE DEF w
<1> QED
  BY <1>1, <1>3, <1>4, SoloHome

LEMMA IdentifyHome ==
    ASSUME AbortInv, OwnInv, HomeInv, NEW t \in Threads, Identify(t)
    PROVE  HomeInv'
<1> DEFINE w == [th[t] EXCEPT !.pc = "login", !.id = IF PoolSize = 0 THEN 0 ELSE cred]
<1>1. th[t].pc = "identify" /\ UNCHANGED <<conn, idle, orphans, loans, todo, router, cred>>
  BY DEF Identify, At
<1>2. t \in DOMAIN th /\ DOMAIN th[t] = ThFields /\ ThreadHome(t)
  BY MyThread DEF HomeInv
<1>3. th' = [th EXCEPT ![t] = w]
  BY <1>2 DEF Identify
<1>4. w.pc = "login" /\ w.lender = th[t].lender /\ w.r = th[t].r /\ w.home = th[t].home /\ (PoolSize # 0 => w.id = cred)
      /\ cred \in Idents
  BY <1>2 DEF ThFields, OwnInv, Store
<1> HIDE DEF w
<1>5. th'[t] = w
  BY <1>2, <1>3
<1>6. ThreadHome(t)'
  BY <1>1, <1>2, <1>4, <1>5 DEF ThreadHome
<1> QED
  BY <1>1, <1>3, <1>6, AloneHome

\* The end of an attempt: thread t has w, and still its borrowed connection.
LEMMA OutcomeHome ==
    ASSUME AbortInv, OwnInv, HomeInv, NEW t \in Threads, Out(t), NEW w, th'[t] = w, Steady,
           th[t].pc = "away" => w.pc = "return" /\ w.r = th[t].r /\ w.home = th[t].home /\ w.c = th[t].c /\ w.target = th[t].target,
           th[t].pc = "using" => \/ w.pc = "idle"
                                 \/ w.pc \in {"recover", "point", "gohome"} /\ w.r = th[t].r /\ w.home = th[t].home /\ w.c = th[t].c,
           w.lender = 0, router' = router
    PROVE  ThreadHome(t)'
<1>1. th[t].pc \in {"using", "away"} /\ ThreadHome(t)
  BY DEF Out, HomeInv
<1>2. CASE th[t].pc = "away"
  <2>1. LeadsTo(conn'[th[t].c], th[t].target)
    BY <1>1, <1>2, HeldBorn, StillLeads DEF ThreadHome
  <2> QED
    BY <1>1, <1>2, <2>1 DEF ThreadHome
<1>3. CASE th[t].pc = "using"
  BY <1>1, <1>3 DEF ThreadHome
<1> QED
  BY <1>1, <1>2, <1>3

LEMMA OutcomeIs ==
    ASSUME AbortInv, OwnInv, NEW t \in Threads, Out(t), NEW next \in {"idle", "recover", "point", "gohome"}
    PROVE  LET w == Outcome(t, next)[t] IN
           /\ th[t].pc = "away" => w.pc = "return" /\ w.r = th[t].r /\ w.home = th[t].home /\ w.c = th[t].c /\ w.target = th[t].target
           /\ th[t].pc = "using" => \/ w.pc = "idle"
                                    \/ w.pc \in {"recover", "point", "gohome"} /\ w.r = th[t].r /\ w.home = th[t].home /\ w.c = th[t].c
           /\ w.lender = 0 /\ DOMAIN w = ThFields
<1> DEFINE w == Outcome(t, next)[t]
<1>1. th[t].pc \in {"using", "away"}
  BY DEF Out
<1>2. t \in DOMAIN th /\ DOMAIN th[t] = ThFields /\ th[t].lender = 0
  BY <1>1, MyThread
<1>3. CASE th[t].pc = "away"
  <2>1. w = [th[t] EXCEPT !.pc = "return", !.next = next]
    BY <1>2, <1>3 DEF Outcome
  <2> QED
    BY <1>2, <1>3, <2>1 DEF ThFields
<1>4. CASE th[t].pc = "using" /\ next = "idle"
  <2>1. w = AtRest
    BY <1>2, <1>4 DEF Outcome
  <2> QED
    BY <1>4, <2>1 DEF AtRest, ThFields
<1>5. CASE th[t].pc = "using" /\ next # "idle"
  <2>1. w = [th[t] EXCEPT !.pc = next]
    BY <1>2, <1>5 DEF Outcome
  <2> QED
    BY <1>2, <1>5, <2>1 DEF ThFields
<1> QED
  BY <1>1, <1>3, <1>4, <1>5

LEMMA FinishHome ==
    ASSUME AbortInv, OwnInv, HomeInv, NEW t \in Threads, Finish(t)
    PROVE  HomeInv'
<1>1. Out(t) /\ UNCHANGED <<conn, idle, orphans, loans, todo, router, cred>> /\ th' = Outcome(t, "idle") /\ t \in DOMAIN th
  BY MyThread DEF Finish
<1>2. PICK w : w = Outcome(t, "idle")[t]
  OBVIOUS
<1>3. th' = [th EXCEPT ![t] = w]
  BY <1>1, <1>2 DEF Outcome
<1>4. Steady /\ th'[t] = w
  BY <1>1, <1>3 DEF Steady
<1>5. ThreadHome(t)'
  BY <1>1, <1>2, <1>4, OutcomeIs, OutcomeHome
<1> QED
  BY <1>1, <1>3, <1>5, AloneHome

LEMMA RedirectedHome ==
    ASSUME AbortInv, OwnInv, HomeInv, NEW t \in Threads, NEW d \in Servers, Redirected(t, d)
    PROVE  HomeInv'
<1> DEFINE o == Outcome(t, "point")
           w == [o[t] EXCEPT !.dest = d, !.hops = o[t].hops + 1]
<1>1. Out(t) /\ UNCHANGED <<conn, idle, orphans, loans, todo, router, cred>>
      /\ th' = [o EXCEPT ![t].dest = d, ![t].hops = @ + 1]
  BY DEF Redirected
<1>2. t \in DOMAIN th /\ DOMAIN o = DOMAIN th /\ \A u \in DOMAIN th : u # t => o[u] = th[u]
  BY MyThread DEF Outcome
<1>3. DOMAIN o[t] = ThFields
  BY <1>1, OutcomeIs
<1>4. w.pc = o[t].pc /\ w.r = o[t].r /\ w.lender = o[t].lender /\ w.c = o[t].c /\ w.home = o[t].home /\ w.target = o[t].target
  BY <1>3 DEF ThFields
<1>5. th'[t] = w /\ \A u \in Threads : u # t => th'[u] = th[u]
  BY <1>1, <1>2, <1>3, MyThread
<1>6. /\ th[t].pc = "away" => w.pc = "return" /\ w.r = th[t].r /\ w.home = th[t].home /\ w.c = th[t].c /\ w.target = th[t].target
      /\ th[t].pc = "using" => \/ w.pc = "idle"
                               \/ w.pc \in {"recover", "point", "gohome"} /\ w.r = th[t].r /\ w.home = th[t].home /\ w.c = th[t].c
      /\ w.lender = 0
  BY <1>1, <1>4, OutcomeIs
<1> HIDE DEF w, o
<1>7. Steady
  BY <1>1 DEF Steady
<1>8. ThreadHome(t)'
  BY <1>1, <1>5, <1>6, <1>7, OutcomeHome
<1>9. \A u \in Threads : ThreadHome(u)'
  BY <1>1, <1>5, <1>7, <1>8, OthersHome
<1> QED
  BY <1>1, <1>7, <1>9, HomeFrame

LEMMA RefusedAwayHome ==
    ASSUME AbortInv, OwnInv, HomeInv, NEW t \in Threads, RefusedAway(t)
    PROVE  HomeInv'
<1> DEFINE o == Outcome(t, "gohome")
           w == [o[t] EXCEPT !.spoiled = FALSE]
<1>1. Out(t) /\ UNCHANGED <<conn, idle, orphans, loans, todo, router, cred>> /\ th' = [o EXCEPT ![t].spoiled = FALSE]
  BY DEF RefusedAway
<1>2. t \in DOMAIN th /\ DOMAIN o = DOMAIN th /\ \A u \in DOMAIN th : u # t => o[u] = th[u]
  BY MyThread DEF Outcome
<1>3. DOMAIN o[t] = ThFields
  BY <1>1, OutcomeIs
<1>4. w.pc = o[t].pc /\ w.r = o[t].r /\ w.lender = o[t].lender /\ w.c = o[t].c /\ w.home = o[t].home /\ w.target = o[t].target
  BY <1>3 DEF ThFields
<1>5. th'[t] = w /\ \A u \in Threads : u # t => th'[u] = th[u]
  BY <1>1, <1>2, <1>3, MyThread
<1>6. /\ th[t].pc = "away" => w.pc = "return" /\ w.r = th[t].r /\ w.home = th[t].home /\ w.c = th[t].c /\ w.target = th[t].target
      /\ th[t].pc = "using" => \/ w.pc = "idle"
                               \/ w.pc \in {"recover", "point", "gohome"} /\ w.r = th[t].r /\ w.home = th[t].home /\ w.c = th[t].c
      /\ w.lender = 0
  BY <1>1, <1>4, OutcomeIs
<1> HIDE DEF w, o
<1>7. Steady
  BY <1>1 DEF Steady
<1>8. ThreadHome(t)'
  BY <1>1, <1>5, <1>6, <1>7, OutcomeHome
<1>9. \A u \in Threads : ThreadHome(u)'
  BY <1>1, <1>5, <1>7, <1>8, OthersHome
<1> QED
  BY <1>1, <1>7, <1>9, HomeFrame

LEMMA ExecuteHome ==
    ASSUME AbortInv, OwnInv, HomeInv, NEW t \in Threads, Execute(t)
    PROVE  HomeInv'
<1>1. PICK r \in Routers : Live(r) /\ th' = [th EXCEPT ![t] = [AtRest EXCEPT !.pc = "attempt", !.r = r, !.home = router[r].url]]
  BY Zenon DEF Execute
<1> DEFINE w == [AtRest EXCEPT !.pc = "attempt", !.r = r, !.home = router[r].url]
<1>2. UNCHANGED <<conn, idle, orphans, loans, todo, router, cred>> /\ RouterHome(r) /\ t \in DOMAIN th
  BY <1>1, MyThread DEF Execute, HomeInv
<1>3. w.lender = 0 /\ w.pc = "attempt" /\ w.r = r /\ w.home = router[r].url
  BY DEF AtRest
<1> HIDE DEF w
<1>4. th' = [th EXCEPT ![t] = w] /\ th'[t] = w
  BY <1>1, <1>2 DEF w
<1>5. Fixed(router[r]) => w.home = 1
  BY <1>2, <1>3 DEF RouterHome
<1>6. ThreadHome(t)'
  BY <1>2, <1>3, <1>4, <1>5 DEF ThreadHome
<1> QED
  BY <1>2, <1>4, <1>6, AloneHome

LEMMA AbortHome ==
    ASSUME AbortInv, OwnInv, HomeInv, NEW t \in Threads, Abort(t)
    PROVE  HomeInv'
<1>1. PICK r \in Routers : Live(r) /\ ~router[r].aborted /\ th' = [th EXCEPT ![t] = [AtRest EXCEPT !.pc = "abort", !.r = r]]
  BY Zenon DEF Abort
<1> DEFINE w == [AtRest EXCEPT !.pc = "abort", !.r = r]
<1>2. UNCHANGED <<conn, idle, orphans, loans, todo, router, cred>>
  BY DEF Abort
<1>3. w.lender = 0 /\ w.pc = "abort" /\ w.home = 1
  BY DEF AtRest
<1> HIDE DEF w
<1> QED
  BY <1>1, <1>2, <1>3, SoloHome DEF w

LEMMA ClearHome ==
    ASSUME AbortInv, OwnInv, HomeInv, NEW t \in Threads, Clear(t)
    PROVE  HomeInv'
<1> DEFINE w == [AtRest EXCEPT !.pc = "clear"]
<1>1. UNCHANGED <<conn, idle, orphans, loans, todo, router, cred>> /\ th' = [th EXCEPT ![t] = w]
  BY DEF Clear
<1>2. w.lender = 0 /\ w.pc = "clear"
  BY DEF AtRest
<1> HIDE DEF w
<1> QED
  BY <1>1, <1>2, SoloHome

LEMMA BorrowHome ==
    ASSUME AbortInv, OwnInv, HomeInv, NEW t \in Threads, Borrow(t)
    PROVE  HomeInv'
<1> DEFINE w == [th[t] EXCEPT !.pc = "away", !.c = th[t].new, !.new = 0]
<1>1. th[t].pc = "borrow" /\ UNCHANGED <<conn, idle, orphans, loans, todo, router, cred>>
  BY DEF Borrow, At
<1>2. t \in DOMAIN th /\ DOMAIN th[t] = ThFields /\ ThreadHome(t) /\ th[t].lender = 0
  BY <1>1, MyThread DEF HomeInv
<1>3. th' = [th EXCEPT ![t] = w]
  BY <1>2 DEF Borrow
<1>4. w.pc = "away" /\ w.lender = 0 /\ w.r = th[t].r /\ w.home = th[t].home /\ w.c = th[t].new /\ w.target = th[t].target
  BY <1>2 DEF ThFields
<1> HIDE DEF w
<1>5. th'[t] = w
  BY <1>2, <1>3
<1>6. ThreadHome(t)'
  BY <1>1, <1>2, <1>4, <1>5 DEF ThreadHome
<1> QED
  BY <1>1, <1>3, <1>6, AloneHome

\* What a router lets go of leads where the router was.
LEMMA DroppedHome ==
    ASSUME OwnInv, HomeInv, Steady, NEW r \in Routers, NEW bad \in BOOLEAN
    PROVE  ListHome(LetGo(router[r].c, router[r].loan, router[r].url, bad), conn')
<1>1. PICK w : w = LetGo(router[r].c, router[r].loan, router[r].url, bad)
  OBVIOUS
<1>2. /\ TodoOK(w, Len(loans))
      /\ \A i \in DOMAIN w : w[i].op \in {"release", "keep"} => w[i].c = router[r].c /\ w[i].at = router[r].url
  BY <1>1, LetGoIs
<1>3. \A i \in DOMAIN w : w[i].op \in {"release", "keep"} => w[i].c # 0
  BY <1>2 DEF TodoOK, ItemOK
<1>4. router[r].c # 0 => LeadsTo(conn'[router[r].c], router[r].url)
  BY HeldBorn, StillLeads DEF HomeInv, RouterHome
<1>5. ListHome(w, conn')
  BY <1>2, <1>3, <1>4 DEF ListHome
<1> QED
  BY <1>1, <1>5

\* Thread t lets go of router r's connection; the router becomes v.
LEMMA DropHome ==
    ASSUME AbortInv, OwnInv, HomeInv, Steady, NEW t \in Threads, NEW r \in Routers, NEW v, NEW bad \in BOOLEAN,
           todo' = [todo EXCEPT ![t] = LetGo(router[r].c, router[r].loan, router[r].url, bad)],
           router' = [router EXCEPT ![r] = v], v.c = 0, Fixed(v) => Fixed(router[r]),
           v.url = router[r].url \/ (lock[r] \in {t, Nobody} /\ (Fixed(v) => v.url = 1)),
           conn' = conn \/ ((\A c \in Conns : KnownAs(c)') /\ \A k \in Keys : BucketHome(k)'),
           UNCHANGED <<idle, orphans, loans, cred>>, \A u \in Threads : u # t => th'[u] = th[u], ThreadHome(t)'
    PROVE  HomeInv'
<1>1. DOMAIN router = Routers /\ DOMAIN todo = Workers /\ t \in Workers
  BY DEF AbortInv, Shapes, OwnInv, Store, Workers
<1>2. router'[r] = v /\ \A m \in Routers : m # r => router'[m] = router[m]
  BY <1>1
<1>3. RouterHome(r)'
  <2>1. Fixed(router[r]) => router[r].url = 1
    BY DEF HomeInv, RouterHome
  <2>2. Fixed(v) => v.url = 1
    BY <2>1
  <2> QED
    BY <1>2, <2>2 DEF RouterHome, Fixed
<1>4. \A m \in Routers : router'[m] = router[m] \/ RouterHome(m)'
  BY <1>2, <1>3
<1>5. \A u \in Workers : todo'[u] = todo[u] \/ ListHome(todo'[u], conn')
  BY <1>1, DroppedHome
<1>6. \A u \in Threads : ThreadHome(u)'
  BY <1>2, OthersHome
<1> QED
  BY <1>4, <1>5, <1>6, HomeFrame

LEMMA SameFixed ==
    ASSUME NEW p, NEW q, p.sticky = q.sticky, p.lender = q.lender
    PROVE  Fixed(p) <=> Fixed(q)
BY DEF Fixed

LEMMA EnterHome ==
    ASSUME AbortInv, OwnInv, HomeInv, NEW t \in Threads, Enter(t)
    PROVE  HomeInv'
<1> DEFINE n == Top(t)
           q == router[n]
<1>1. /\ th[t].pc = "lockwait" /\ lock[n] = Nobody /\ todo[t] = <<>> /\ UNCHANGED <<conn, idle, orphans, loans, cred>>
      /\ DOMAIN th[t] = ThFields /\ Connecting(t) /\ t \in DOMAIN th /\ DOMAIN router = Routers /\ ThreadHome(t)
  BY MyThread DEF Enter, At, HomeInv
<1>2. th[t].r \in Routers /\ n \in Routers /\ DOMAIN q = RouterFields
  BY <1>1, MyThread, ConnectionsAssumption DEF Connecting, Top
<1>3. ASSUME th' = [th EXCEPT ![t] = AtRest], UNCHANGED <<router, todo>>
      PROVE  HomeInv'
  <2>1. AtRest.pc = "idle" /\ AtRest.lender = 0
    BY DEF AtRest
  <2> QED
    BY <1>1, <1>3, <2>1, SoloHome
<1>4. ASSUME th' = [th EXCEPT ![t].pc = "installed", ![t].new = q.c], UNCHANGED <<router, todo>>
      PROVE  HomeInv'
  <2> DEFINE w == [th[t] EXCEPT !.pc = "installed", !.new = q.c]
  <2>1. th' = [th EXCEPT ![t] = w]
    BY <1>1, <1>4
  <2>2. w.pc = "installed" /\ w.r = th[t].r /\ w.lender = th[t].lender /\ w.home = th[t].home
    BY <1>1 DEF ThFields
  <2> HIDE DEF w
  <2>3. th'[t] = w
    BY <1>1, <2>1
  <2>4. ThreadHome(t)'
    BY <1>1, <1>4, <2>2, <2>3 DEF ThreadHome
  <2> QED
    BY <1>1, <1>4, <2>1, <2>4, AloneHome
<1>5. ASSUME th' = [th EXCEPT ![t].pc = "recover", ![t].lender = 0], UNCHANGED <<router, todo>>
      PROVE  HomeInv'
  <2> DEFINE w == [th[t] EXCEPT !.pc = "recover", !.lender = 0]
  <2>1. th' = [th EXCEPT ![t] = w]
    BY <1>1, <1>5
  <2>2. w.pc = "recover" /\ w.r = th[t].r /\ w.lender = 0 /\ w.home = th[t].home
    BY <1>1 DEF ThFields
  <2> HIDE DEF w
  <2> QED
    BY <1>1, <1>5, <2>1, <2>2, SoloHome
<1>6. ASSUME router' = [router EXCEPT ![n].c = 0, ![n].loan = 0, ![n].lender = 0],
             todo' = [todo EXCEPT ![t] = LetGo(q.c, q.loan, q.url, TRUE)],
             th' = [th EXCEPT ![t] = IF q.lender # 0 THEN [@ EXCEPT !.lender = q.lender] ELSE [@ EXCEPT !.pc = "acquire"]]
      PROVE  HomeInv'
  <2> DEFINE w == IF q.lender # 0 THEN [th[t] EXCEPT !.lender = q.lender] ELSE [th[t] EXCEPT !.pc = "acquire"]
             v == [q EXCEPT !.c = 0, !.loan = 0, !.lender = 0]
  <2>1. th' = [th EXCEPT ![t] = w] /\ router' = [router EXCEPT ![n] = v]
    BY <1>1, <1>2, <1>6
  <2>2. /\ w.r = th[t].r /\ w.home = th[t].home /\ w.pc \in {"lockwait", "acquire"}
        /\ q.lender = 0 => w.lender = th[t].lender
    BY <1>1 DEF ThFields
  <2>3. v.c = 0 /\ v.lender = 0 /\ v.url = q.url /\ v.sticky = q.sticky
    BY <1>2 DEF RouterFields
  <2> HIDE DEF w, v
  <2>4. th'[t] = w /\ (\A u \in Threads : u # t => th'[u] = th[u]) /\ router'[n] = v
        /\ \A m \in Routers : m # n => router'[m] = router[m]
    BY <1>1, <1>2, <2>1
  <2>5. Fixed(v) => Fixed(q)
    BY <2>3 DEF Fixed
  <2>6. router'[th[t].r].url = router[th[t].r].url /\ (Fixed(router'[th[t].r]) => Fixed(router[th[t].r]))
    BY <1>2, <2>3, <2>4, <2>5
  <2>7. w.lender # 0 => router[th[t].r].url = 1
    <3>1. CASE q.lender # 0
      <4>1. q.sticky /\ q.url = 1
        BY <1>2, <3>1 DEF AbortInv, Lenders, HomeInv, RouterHome, Fixed
      <4>2. n = th[t].r
        BY <1>1, <4>1 DEF Connecting, Top
      <4> QED
        BY <4>1, <4>2
    <3>2. CASE q.lender = 0
      BY <1>1, <2>2, <3>2 DEF ThreadHome
    <3> QED
      BY <3>1, <3>2
  <2>8. Fixed(router'[w.r]) => w.home = 1
    BY <1>1, <2>2, <2>6 DEF ThreadHome
  <2>9. ThreadHome(t)'
    BY <2>2, <2>4, <2>6, <2>7, <2>8 DEF ThreadHome
  <2>10. Steady
    BY <1>1 DEF Steady
  <2> HIDE DEF n
  <2> QED
    BY <1>1, <1>2, <1>6, <2>1, <2>3, <2>4, <2>5, <2>9, <2>10, DropHome
<1>7. \/ th' = [th EXCEPT ![t] = AtRest] /\ UNCHANGED <<router, todo>>
      \/ th' = [th EXCEPT ![t].pc = "installed", ![t].new = q.c] /\ UNCHANGED <<router, todo>>
      \/ th' = [th EXCEPT ![t].pc = "recover", ![t].lender = 0] /\ UNCHANGED <<router, todo>>
      \/ /\ router' = [router EXCEPT ![n].c = 0, ![n].loan = 0, ![n].lender = 0]
         /\ todo' = [todo EXCEPT ![t] = LetGo(q.c, q.loan, q.url, TRUE)]
         /\ th' = [th EXCEPT ![t] = IF q.lender # 0 THEN [@ EXCEPT !.lender = q.lender] ELSE [@ EXCEPT !.pc = "acquire"]]
  BY DEF Enter
<1> QED
  BY <1>3, <1>4, <1>5, <1>6, <1>7, Zenon

\* A thread at no connection lets go of its router's, and goes on as w.
LEMMA PlainDropHome ==
    ASSUME AbortInv, OwnInv, HomeInv, NEW t \in Threads, NEW r \in Routers, NEW v, NEW bad \in BOOLEAN, NEW w,
           todo' = [todo EXCEPT ![t] = LetGo(router[r].c, router[r].loan, router[r].url, bad)],
           router' = [router EXCEPT ![r] = v], v.c = 0, Fixed(v) => Fixed(router[r]),
           v.url = router[r].url \/ (lock[r] \in {t, Nobody} /\ (Fixed(v) => v.url = 1)),
           UNCHANGED <<conn, idle, orphans, loans, cred>>, th' = [th EXCEPT ![t] = w],
           w.pc \notin {"borrow", "away", "return", "login", "using", "point"}, w.lender = 0,
           w.pc = "idle" \/ (r = th[t].r /\ w.r = r /\ w.home = th[t].home /\ th[t].pc \notin {"idle", "clear"})
    PROVE  HomeInv'
<1>1. DOMAIN th = Workers /\ t \in Workers /\ DOMAIN router = Routers
  BY DEF AbortInv, Shapes, Workers
<1>2. th'[t] = w /\ (\A u \in Threads : u # t => th'[u] = th[u]) /\ router'[r] = v
  BY <1>1 DEF Workers
<1>3. ThreadHome(t)'
  BY <1>2, PlainHome
<1>4. Steady
  BY DEF Steady
<1> QED
  BY <1>2, <1>3, <1>4, DropHome

LEMMA PointHome ==
    ASSUME AbortInv, OwnInv, HomeInv, NEW t \in Threads, Point(t)
    PROVE  HomeInv'
<1> DEFINE r == th[t].r
           q == router[r]
           d == th[t].dest
<1>1. th[t].pc = "point" /\ UNCHANGED <<conn, idle, orphans, loans, cred>>
  BY DEF Point, At
<1>2. /\ t \in DOMAIN th /\ DOMAIN th[t] = ThFields /\ th[t].lender = 0 /\ r \in Routers /\ RouterOK(r)
      /\ DOMAIN router = Routers /\ DOMAIN q = RouterFields /\ th[t].c # 0
  BY <1>1, MyThread DEF HomeInv, ThreadHome
<1>3. ASSUME Retargeted(t, d), UNCHANGED <<router, todo>>
      PROVE  HomeInv'
  <2> DEFINE w == [th[t] EXCEPT !.pc = "attempt", !.target = IF d = router[th[t].r].url THEN 0 ELSE d]
  <2>1. th' = [th EXCEPT ![t] = w]
    BY <1>2, <1>3 DEF Retargeted
  <2>2. w.pc = "attempt" /\ w.r = r /\ w.lender = 0 /\ w.home = th[t].home
    BY <1>2 DEF ThFields
  <2> HIDE DEF w
  <2> QED
    BY <1>1, <1>3, <2>1, <2>2, SoloHome
<1>4. ASSUME th' = [th EXCEPT ![t].pc = "attempt", ![t].moved = @ \/ d # th[t].home], q.sticky, q.c = th[t].c,
             \/ UNCHANGED <<router, todo>>
             \/ /\ lock[r] = Nobody /\ router' = [router EXCEPT ![r].c = 0, ![r].loan = 0, ![r].url = d]
                /\ todo' = [todo EXCEPT ![t] = LetGo(q.c, q.loan, q.url, FALSE)]
      PROVE  HomeInv'
  <2> DEFINE w == [th[t] EXCEPT !.pc = "attempt", !.moved = th[t].moved \/ d # th[t].home]
             v == [q EXCEPT !.c = 0, !.loan = 0, !.url = d]
  <2>1. th' = [th EXCEPT ![t] = w]
    BY <1>2, <1>4
  <2>2. w.pc = "attempt" /\ w.r = r /\ w.lender = 0 /\ w.home = th[t].home
    BY <1>2 DEF ThFields
  <2>3. \/ UNCHANGED <<router, todo>>
        \/ /\ lock[r] = Nobody /\ router' = [router EXCEPT ![r] = v]
           /\ todo' = [todo EXCEPT ![t] = LetGo(q.c, q.loan, q.url, FALSE)]
    BY <1>2, <1>4
  <2>4. v.c = 0 /\ v.sticky = q.sticky /\ v.lender = q.lender
    BY <1>2 DEF RouterFields
  <2>5. q.lender = 0
    BY <1>2, <1>4 DEF RouterOK
  <2>6. ~Fixed(q)
    BY <1>4, <2>5, Zenon DEF Fixed
  <2>7. ~Fixed(v)
    BY <2>4, <2>6, SameFixed
  <2> HIDE DEF w, v, r, d
  <2>8. CASE UNCHANGED <<router, todo>>
    BY <1>1, <2>1, <2>2, <2>8, SoloHome DEF r
  <2>9. CASE /\ lock[r] = Nobody /\ router' = [router EXCEPT ![r] = v]
             /\ todo' = [todo EXCEPT ![t] = LetGo(q.c, q.loan, q.url, FALSE)]
    <3>1. r = th[t].r
      BY DEF r
    <3> QED
      BY <1>1, <1>2, <2>1, <2>2, <2>4, <2>7, <2>9, <3>1, PlainDropHome
  <2> QED
    BY <2>3, <2>8, <2>9
<1>5. \/ Retargeted(t, d) /\ UNCHANGED <<router, todo>>
      \/ /\ th' = [th EXCEPT ![t].pc = "attempt", ![t].moved = @ \/ d # th[t].home] /\ q.sticky /\ q.c = th[t].c
         /\ \/ UNCHANGED <<router, todo>>
            \/ /\ lock[r] = Nobody /\ router' = [router EXCEPT ![r].c = 0, ![r].loan = 0, ![r].url = d]
               /\ todo' = [todo EXCEPT ![t] = LetGo(q.c, q.loan, q.url, FALSE)]
  BY DEF Point
<1> QED
  BY <1>3, <1>4, <1>5, Zenon

LEMMA RecoverHome ==
    ASSUME AbortInv, OwnInv, HomeInv, NEW t \in Threads, Recover(t)
    PROVE  HomeInv'
<1> DEFINE r == th[t].r
           q == router[r]
           v == [q EXCEPT !.c = 0, !.loan = 0]
<1>1. th[t].pc = "recover" /\ UNCHANGED <<conn, idle, orphans, loans, cred>>
  BY DEF Recover, At
<1>2. /\ t \in DOMAIN th /\ DOMAIN th[t] = ThFields /\ th[t].lender = 0 /\ r \in Routers
      /\ DOMAIN router = Routers /\ DOMAIN q = RouterFields
  BY <1>1, MyThread
<1>3. v.c = 0 /\ v.url = q.url /\ v.sticky = q.sticky /\ v.lender = q.lender
  BY <1>2 DEF RouterFields
<1>4. \/ /\ th' = [th EXCEPT ![t].pc = "gohome", ![t].spoiled = TRUE, ![t].tries = @ + 1] /\ UNCHANGED <<router, todo>>
      \/ th' = [th EXCEPT ![t].pc = "attempt", ![t].tries = @ + 1] /\ UNCHANGED <<router, todo>>
      \/ /\ th' = [th EXCEPT ![t].pc = "attempt", ![t].tries = @ + 1]
         /\ router' = [router EXCEPT ![r].c = 0, ![r].loan = 0]
         /\ todo' = [todo EXCEPT ![t] = LetGo(q.c, q.loan, q.url, TRUE)]
  BY DEF Recover
<1>5. CASE th' = [th EXCEPT ![t].pc = "gohome", ![t].spoiled = TRUE, ![t].tries = @ + 1] /\ UNCHANGED <<router, todo>>
  <2> DEFINE w == [th[t] EXCEPT !.pc = "gohome", !.spoiled = TRUE, !.tries = th[t].tries + 1]
  <2>1. th' = [th EXCEPT ![t] = w]
    BY <1>2, <1>5
  <2>2. w.pc = "gohome" /\ w.r = r /\ w.lender = 0 /\ w.home = th[t].home
    BY <1>2 DEF ThFields
  <2> HIDE DEF w
  <2> QED
    BY <1>1, <1>5, <2>1, <2>2, SoloHome
<1>6. ASSUME th' = [th EXCEPT ![t].pc = "attempt", ![t].tries = @ + 1],
             \/ UNCHANGED <<router, todo>>
             \/ /\ router' = [router EXCEPT ![r].c = 0, ![r].loan = 0]
                /\ todo' = [todo EXCEPT ![t] = LetGo(q.c, q.loan, q.url, TRUE)]
      PROVE  HomeInv'
  <2> DEFINE w == [th[t] EXCEPT !.pc = "attempt", !.tries = th[t].tries + 1]
  <2>1. th' = [th EXCEPT ![t] = w]
    BY <1>2, <1>6
  <2>2. w.pc = "attempt" /\ w.r = r /\ w.lender = 0 /\ w.home = th[t].home
    BY <1>2 DEF ThFields
  <2> HIDE DEF w
  <2>3. ASSUME UNCHANGED <<router, todo>> PROVE HomeInv'
    BY <1>1, <2>1, <2>2, <2>3, SoloHome
  <2>4. ASSUME /\ router' = [router EXCEPT ![r].c = 0, ![r].loan = 0]
               /\ todo' = [todo EXCEPT ![t] = LetGo(q.c, q.loan, q.url, TRUE)]
        PROVE  HomeInv'
    <3>1. router' = [router EXCEPT ![r] = v] /\ todo' = [todo EXCEPT ![t] = LetGo(router[r].c, router[r].loan, router[r].url, TRUE)]
      BY <1>2, <2>4
    <3>2. Fixed(v) => Fixed(router[r])
      BY <1>3, SameFixed
    <3>3. /\ v.c = 0 /\ v.url = router[r].url /\ r \in Routers /\ UNCHANGED <<conn, idle, orphans, loans, cred>>
          /\ w.pc \notin {"borrow", "away", "return", "login", "using", "point"} /\ w.lender = 0
          /\ r = th[t].r /\ w.r = r /\ w.home = th[t].home /\ th[t].pc \notin {"idle", "clear"}
      BY <1>1, <1>2, <1>3, <2>2
    <3> HIDE DEF v, r
    <3> QED
      BY <2>1, <3>1, <3>2, <3>3, PlainDropHome
  <2> QED
    BY <1>6, <2>3, <2>4
<1> QED
  BY <1>4, <1>5, <1>6, Zenon

LEMMA GoHomeHome ==
    ASSUME AbortInv, OwnInv, HomeInv, NEW t \in Threads, GoHome(t)
    PROVE  HomeInv'
<1> DEFINE r == th[t].r
           q == router[r]
           v == [q EXCEPT !.c = 0, !.loan = 0, !.url = th[t].home]
<1>1. th[t].pc = "gohome" /\ UNCHANGED <<conn, idle, orphans, loans, cred>>
  BY DEF GoHome, At
<1>2. /\ t \in DOMAIN th /\ DOMAIN th[t] = ThFields /\ th[t].lender = 0 /\ r \in Routers
      /\ DOMAIN router = Routers /\ DOMAIN q = RouterFields /\ th[t].spoiled \in BOOLEAN /\ ThreadHome(t)
  BY <1>1, MyThread DEF Fit, HomeInv
<1>3. v.c = 0 /\ v.url = th[t].home /\ v.sticky = q.sticky /\ v.lender = q.lender
  BY <1>2 DEF RouterFields
<1>4. \/ th' = [th EXCEPT ![t].pc = "attempt", ![t].target = 0] /\ UNCHANGED <<router, todo>>
      \/ /\ lock[r] = Nobody /\ th' = [th EXCEPT ![t].pc = "attempt", ![t].moved = FALSE]
         /\ router' = [router EXCEPT ![r].c = 0, ![r].loan = 0, ![r].url = th[t].home]
         /\ todo' = [todo EXCEPT ![t] = LetGo(q.c, q.loan, q.url, th[t].spoiled)]
  BY DEF GoHome
<1>5. CASE th' = [th EXCEPT ![t].pc = "attempt", ![t].target = 0] /\ UNCHANGED <<router, todo>>
  <2> DEFINE w == [th[t] EXCEPT !.pc = "attempt", !.target = 0]
  <2>1. th' = [th EXCEPT ![t] = w]
    BY <1>2, <1>5
  <2>2. w.pc = "attempt" /\ w.r = r /\ w.lender = 0 /\ w.home = th[t].home
    BY <1>2 DEF ThFields
  <2> HIDE DEF w
  <2> QED
    BY <1>1, <1>5, <2>1, <2>2, SoloHome
<1>6. CASE /\ lock[r] = Nobody /\ th' = [th EXCEPT ![t].pc = "attempt", ![t].moved = FALSE]
           /\ router' = [router EXCEPT ![r].c = 0, ![r].loan = 0, ![r].url = th[t].home]
           /\ todo' = [todo EXCEPT ![t] = LetGo(q.c, q.loan, q.url, th[t].spoiled)]
  <2> DEFINE w == [th[t] EXCEPT !.pc = "attempt", !.moved = FALSE]
  <2>1. th' = [th EXCEPT ![t] = w] /\ router' = [router EXCEPT ![r] = v]
    BY <1>2, <1>6
  <2>2. w.pc = "attempt" /\ w.r = r /\ w.lender = 0 /\ w.home = th[t].home
    BY <1>2 DEF ThFields
  <2>3. lock[r] = Nobody /\ todo' = [todo EXCEPT ![t] = LetGo(router[r].c, router[r].loan, router[r].url, th[t].spoiled)]
    BY <1>6
  <2>4. Fixed(v) => Fixed(router[r])
    BY <1>3, SameFixed
  <2> HIDE DEF v
  <2>5. Fixed(v) => v.url = 1
    BY <1>1, <1>2, <1>3, <2>4 DEF ThreadHome
  <2>6. /\ v.c = 0 /\ r \in Routers /\ UNCHANGED <<conn, idle, orphans, loans, cred>> /\ th[t].spoiled \in BOOLEAN
        /\ w.pc \notin {"borrow", "away", "return", "login", "using", "point"} /\ w.lender = 0
        /\ r = th[t].r /\ w.r = r /\ w.home = th[t].home /\ th[t].pc \notin {"idle", "clear"}
    BY <1>1, <1>2, <1>3, <2>2
  <2> HIDE DEF w, r
  <2> QED
    BY <2>1, <2>3, <2>4, <2>5, <2>6, PlainDropHome
<1> QED
  BY <1>4, <1>5, <1>6

LEMMA GiveUpHome ==
    ASSUME AbortInv, OwnInv, HomeInv, NEW t \in Threads, NEW bad \in BOOLEAN, GiveUp(t, bad), At(t, "idle"),
           UNCHANGED <<conn, idle, orphans, loans, th, cred>>
    PROVE  HomeInv'
<1>1. PICK r \in Routers :
             /\ Live(r) /\ lock[r] = Nobody /\ (router[r].sticky => Busy(r) = {}) /\ router[r].c # 0
             /\ router' = [router EXCEPT ![r].c = 0, ![r].loan = 0]
             /\ todo' = [todo EXCEPT ![t] = LetGo(router[r].c, router[r].loan, router[r].url, bad)]
  BY Zenon DEF GiveUp
<1> DEFINE v == [router[r] EXCEPT !.c = 0, !.loan = 0]
<1>2. /\ th[t].lender = 0 /\ DOMAIN router = Routers /\ DOMAIN router[r] = RouterFields /\ th[t].pc = "idle"
  BY MyThread DEF At
<1>3. v.c = 0 /\ v.url = router[r].url /\ v.sticky = router[r].sticky /\ v.lender = router[r].lender
  BY <1>2 DEF RouterFields
<1>4. router' = [router EXCEPT ![r] = v]
  BY <1>1, <1>2
<1>5. Fixed(v) => Fixed(router[r])
  BY <1>3, SameFixed
<1> HIDE DEF v
<1>6. Steady /\ ThreadHome(t)'
  BY <1>2 DEF Steady, ThreadHome
<1> QED
  BY <1>1, <1>3, <1>4, <1>5, <1>6, DropHome

-----------------------------------------------------------------------------
(* Steps that close a connection, and the list of what is to be done.      *)

\* What is in the pool is nobody else's.
LEMMA IdleAlone ==
    ASSUME AbortInv, OwnInv, NEW k \in Keys, NEW c \in Members(idle[k])
    PROVE  /\ c \in Conns /\ (\A r \in Routers : router[r].c # c /\ c \notin borrowed[r])
           /\ (\A t \in Threads : th[t].pc \in {"away", "return"} => th[t].c # c) /\ \A u \in Workers : c \notin Members(todo[u])
<1>1. c \in Conns
  BY HeldBorn DEF Members, Born
<1>2. Holds(<<"idle", k>>, c) /\ <<"idle", k>> \in Slots /\ <<"idle", k>>[1] = "idle"
  BY HoldsIs, SlotIn
<1>3. \A x \in Slots : Holds(x, c) => x[1] = "idle"
  BY <1>1, <1>2 DEF OwnInv, Owned
<1>4. ASSUME NEW r \in Routers PROVE router[r].c # c
  BY <1>1, <1>2, NotRouters
<1>5. ASSUME NEW t \in Threads, th[t].pc \in {"away", "return"}, th[t].c = c PROVE FALSE
  <2>1. Holds(<<"away", t>>, c) /\ <<"away", t>> \in Slots /\ <<"away", t>>[1] = "away"
    BY <1>5, HoldsIs, SlotIn
  <2> QED
    BY <1>3, <2>1
<1>6. ASSUME NEW u \in Workers, c \in Members(todo[u]) PROVE FALSE
  <2>1. Holds(<<"todo", u>>, c) /\ <<"todo", u>> \in Slots /\ <<"todo", u>>[1] = "todo"
    BY <1>6, TodoHolds, SlotIn
  <2> QED
    BY <1>3, <2>1
<1>7. ASSUME NEW r \in Routers, c \in borrowed[r] PROVE FALSE
  BY <1>5, <1>7 DEF AbortInv, BorrowedBy
<1> QED
  BY <1>1, <1>4, <1>5, <1>6, <1>7

\* Connections closed, wherever they are.
LEMMA ClosedHome ==
    ASSUME OwnInv, HomeInv, conn' \in [Conns -> Link], idle' = idle,
           \A c \in Conns : conn'[c] = conn[c] \/ conn'[c].st # "open"
    PROVE  Steady /\ (\A c \in Conns : KnownAs(c)') /\ \A k \in Keys : BucketHome(k)'
<1>1. Steady
  BY DEF Steady
<1>2. \A c \in Conns : KnownAs(c)'
  BY DEF HomeInv, KnownAs
<1>3. ASSUME NEW k \in Keys PROVE BucketHome(k)'
  <2>1. \A c \in Members(idle[k]) : c \in Conns /\ HomeAt(conn[c], k)
    BY HeldBorn DEF Members, Born, HomeInv, BucketHome
  <2>2. \A c \in Members(idle[k]) : HomeAt(conn'[c], k)
    BY <2>1 DEF HomeAt
  <2> QED
    BY <2>2 DEF BucketHome, HomeAt
<1> QED
  BY <1>1, <1>2, <1>3

LEMMA AbortNowHome ==
    ASSUME AbortInv, OwnInv, HomeInv, NEW t \in Threads, AbortNow(t)
    PROVE  HomeInv'
<1> DEFINE r == th[t].r
           q == router[r]
           v == [q EXCEPT !.aborted = TRUE, !.reconnect = FALSE, !.c = 0, !.loan = 0]
<1>1. /\ th[t].pc = "abort"
      /\ UNCHANGED <<conn, idle, orphans, loans, cred>> /\ todo' = [todo EXCEPT ![t] = LetGo(q.c, q.loan, q.url, TRUE)]
      /\ router' = [router EXCEPT ![r].aborted = TRUE, ![r].reconnect = FALSE, ![r].c = 0, ![r].loan = 0]
  BY DEF AbortNow, At
<1>2. /\ t \in DOMAIN th /\ r \in Routers /\ DOMAIN router = Routers /\ DOMAIN q = RouterFields
      /\ DOMAIN th[t] = ThFields /\ th[t].lender = 0 /\ th[t].next \in Nexts
  BY <1>1, MyThread DEF Connecting, Nexts
<1>3. v.c = 0 /\ v.url = q.url /\ v.sticky = q.sticky /\ v.lender = q.lender
  BY <1>2 DEF RouterFields
<1>4. router' = [router EXCEPT ![r] = v]
  BY <1>1, <1>2
<1>5. Fixed(v) => Fixed(router[r])
  BY <1>3, SameFixed
<1> HIDE DEF v
<1>6. PICK w : th' = [th EXCEPT ![t] = w] /\ Aborter(t, w)
  BY AbortNowIs
<1>7. w.lender = 0 /\ (w.pc = "idle" \/ (w.pc = "cut" /\ w.r = r /\ w.home = th[t].home))
  BY <1>2, <1>6, AborterIs
<1>8. th'[t] = w /\ \A u \in Threads : u # t => th'[u] = th[u]
  BY <1>2, <1>6
<1>9. router'[r] = v
  BY <1>2, <1>4
<1>10. ThreadHome(t)'
  BY <1>1, <1>5, <1>7, <1>8, <1>9, PlainHome
<1>11. v.c = 0 /\ v.url = router[r].url /\ todo' = [todo EXCEPT ![t] = LetGo(router[r].c, router[r].loan, router[r].url, TRUE)]
       /\ UNCHANGED <<conn, idle, orphans, loans, cred>> /\ r \in Routers /\ Steady
  BY <1>1, <1>2, <1>3 DEF Steady
<1> HIDE DEF r
<1> QED
  BY <1>4, <1>5, <1>8, <1>10, <1>11, DropHome

LEMMA CutLinkHome ==
    ASSUME AbortInv, OwnInv, HomeInv, NEW t \in Threads, CutLink(t)
    PROVE  HomeInv'
<1>1. th[t].pc = "cut" /\ UNCHANGED <<idle, orphans, router, loans, todo, cred>>
  BY DEF CutLink
<1>2. PICK d : conn' = [conn EXCEPT ![d] = Closed]
  BY DEF CutLink
<1>3. PICK w : th' = [th EXCEPT ![t] = w] /\ Cutter(t, w)
  BY CutLinkIs
<1>4. /\ t \in DOMAIN th /\ DOMAIN th[t] = ThFields /\ th[t].lender = 0 /\ th[t].next \in Nexts
  BY <1>1, MyThread DEF Connecting, Nexts
<1>5. w.lender = 0 /\ (w.pc = "idle" \/ (w.pc = "cut" /\ w.r = th[t].r /\ w.home = th[t].home))
  BY <1>1, <1>3, <1>4, CutterIs
<1>6. th'[t] = w /\ \A u \in Threads : u # t => th'[u] = th[u]
  BY <1>3, <1>4
<1>7. conn \in [Conns -> Link] /\ Closed \in Link /\ Closed.st = "shut"
  BY DEF OwnInv, Store, Link, Closed, Unborn
<1>8. Steady /\ (\A c \in Conns : KnownAs(c)') /\ \A k \in Keys : BucketHome(k)'
  <2>1. conn' \in [Conns -> Link] /\ \A c \in Conns : conn'[c] = conn[c] \/ conn'[c].st # "open"
    BY <1>2, <1>7
  <2> QED
    BY <1>1, <2>1, ClosedHome
<1>9. ThreadHome(t)'
  BY <1>1, <1>5, <1>6, PlainHome
<1>10. \A u \in Threads : ThreadHome(u)'
  BY <1>1, <1>6, <1>8, <1>9, OthersHome
<1> QED
  BY <1>1, <1>8, <1>10, HomeFrame

LEMMA FailsHome ==
    ASSUME AbortInv, OwnInv, HomeInv, NEW t \in Threads, Fails(t)
    PROVE  HomeInv'
<1> DEFINE d == th[t].c
<1>1. Out(t) /\ UNCHANGED <<idle, orphans, router, loans, todo, cred>> /\ th' = Outcome(t, "recover")
      /\ th[t].pc \in {"using", "away"}
  BY DEF Fails, Out
<1>2. PICK how \in {"broken", "dead"} :
          conn' = [conn EXCEPT ![th[t].c] = CASE th[t].pc = "away" -> Closed
                                              [] th[t].pc # "away" /\ @.st = "open" -> [@ EXCEPT !.st = how]
                                              [] OTHER -> @]
  BY Zenon DEF Fails
<1>3. PICK w : w = Outcome(t, "recover")[t]
  OBVIOUS
<1>4. t \in DOMAIN th /\ th'[t] = w /\ \A u \in Threads : u # t => th'[u] = th[u]
  BY <1>1, <1>3, MyThread DEF Outcome
<1>5. conn \in [Conns -> Link] /\ Closed \in Link /\ Closed.st = "shut"
  BY DEF OwnInv, Store, Link, Closed, Unborn
<1>6. d \in Conns
  <2>1. d # 0 /\ d \in 0 .. MaxConns
    BY <1>1, MyThread DEF HomeInv, ThreadHome, Fit
  <2> QED
    BY <2>1, ConnectionsAssumption DEF Conns
<1>7. /\ DOMAIN conn' = Conns /\ \A c \in Conns : c # d => conn'[c] = conn[c]
      /\ th[t].pc = "away" => conn'[d] = Closed
      /\ th[t].pc = "using" /\ conn[d].st = "open" => conn'[d] = [conn[d] EXCEPT !.st = how]
      /\ th[t].pc = "using" /\ conn[d].st # "open" => conn'[d] = conn[d]
  BY <1>1, <1>2, <1>5, <1>6
<1>8. conn'[d] = conn[d] \/ conn'[d].st # "open"
  <2>1. CASE th[t].pc = "using" /\ conn[d].st = "open"
    <3>1. conn[d] \in Link
      BY <1>5, <1>6
    <3>2. DOMAIN conn[d] = {"st", "at", "who", "born", "raced"}
      BY <3>1 DEF Link
    <3> QED
      BY <1>7, <2>1, <3>2
  <2> QED
    BY <1>1, <1>5, <1>7, <2>1
<1>10. conn' \in [Conns -> Link]
  <2>1. OwnInv'
    BY FailsOwn
  <2> QED
    BY <2>1 DEF OwnInv, Store
<1>11. \A c \in Conns : conn'[c] = conn[c] \/ conn'[c].st # "open"
  BY <1>7, <1>8
<1>12. Steady /\ (\A c \in Conns : KnownAs(c)') /\ \A k \in Keys : BucketHome(k)'
  BY <1>1, <1>10, <1>11, ClosedHome
<1>13. ThreadHome(t)'
  BY <1>1, <1>3, <1>4, <1>12, OutcomeIs, OutcomeHome
<1>14. \A u \in Threads : ThreadHome(u)'
  BY <1>1, <1>4, <1>12, <1>13, OthersHome
<1> QED
  BY <1>1, <1>12, <1>14, HomeFrame

\* No thread does anything.
LEMMA ThreadsHome ==
    ASSUME AbortInv, OwnInv, HomeInv, Steady, UNCHANGED <<th, router, cred>>
    PROVE  \A t \in Threads : ThreadHome(t)'
<1>1. Reaper \notin Threads
  BY ConnectionsAssumption
<1> QED
  BY <1>1, OthersHome

\* Worker u goes on to m, and then to the rest of its list.
LEMMA ThenHome ==
    ASSUME OwnInv, HomeInv, Steady, NEW u \in Workers, todo[u] # <<>>, NEW m \in Seq(Item), todo' = Then(u, m), ListHome(m, conn')
    PROVE  \A v \in Workers : todo'[v] = todo[v] \/ ListHome(todo'[v], conn')
<1>1. DOMAIN todo = Workers /\ TodoOK(todo[u], Len(loans)) /\ Len(loans) \in Nat
  BY DEF OwnInv, Store
<1>2. PICK s : s = todo[u]
  OBVIOUS
<1>3. PICK w : w = m \o Tail(s)
  OBVIOUS
<1>4. todo'[u] = w /\ \A v \in Workers : v # u => todo'[v] = todo[v]
  BY <1>1, <1>2, <1>3 DEF Then
<1>5. s \in Seq(Item) /\ s # <<>>
  BY <1>1, <1>2 DEF TodoOK
<1>6. /\ DOMAIN w = 1 .. Len(w) /\ Len(m) \in Nat /\ DOMAIN m = 1 .. Len(m) /\ DOMAIN s = 1 .. Len(s) /\ Len(s) \in Nat
      /\ \A i \in 1 .. Len(m) : i \in DOMAIN w /\ w[i] = m[i]
      /\ \A i \in DOMAIN w : i > Len(m) => i - Len(m) + 1 \in 2 .. Len(s) /\ w[i] = s[i - Len(m) + 1]
  BY <1>3, <1>5, JoinAt
<1>7. \A i \in DOMAIN s : s[i].op \in {"release", "keep"} => LeadsTo(conn'[s[i].c], s[i].at)
  <2> SUFFICES ASSUME NEW i \in DOMAIN s, s[i].op \in {"release", "keep"}
               PROVE  LeadsTo(conn'[s[i].c], s[i].at)
    OBVIOUS
  <2>1. s[i].c # 0
    BY <1>1, <1>2 DEF TodoOK, ItemOK
  <2>2. LeadsTo(conn[s[i].c], s[i].at)
    BY <1>2 DEF HomeInv, ListHome
  <2> QED
    BY <1>2, <2>1, <2>2, HeldBorn, StillLeads
<1>8. ASSUME NEW i \in DOMAIN w, w[i].op \in {"release", "keep"} PROVE LeadsTo(conn'[w[i].c], w[i].at)
  <2>1. CASE i \in 1 .. Len(m)
    BY <1>6, <1>8, <2>1 DEF ListHome
  <2>2. CASE i > Len(m)
    <3>1. PICK j \in DOMAIN s : w[i] = s[j]
      BY <1>6, <2>2
    <3> QED
      BY <1>7, <1>8, <3>1
  <2> QED
    BY <1>6, <2>1, <2>2
<1>9. ListHome(w, conn')
  BY <1>8 DEF ListHome
<1> QED
  BY <1>4, <1>9

LEMMA CloseConnHome ==
    ASSUME AbortInv, OwnInv, HomeInv, NEW u \in Workers, CloseConn(u)
    PROVE  HomeInv'
<1>1. PICK e : e = Head(todo[u])
  OBVIOUS
<1>2. /\ todo[u] # <<>> /\ e.op = "close" /\ conn' = [conn EXCEPT ![e.c] = Closed] /\ todo' = Then(u, <<>>)
      /\ UNCHANGED <<idle, orphans, router, loans, th, cred>>
  BY <1>1 DEF CloseConn, Doing
<1>4. conn \in [Conns -> Link] /\ Closed \in Link /\ Closed.st = "shut"
  BY DEF OwnInv, Store, Link, Closed, Unborn
<1>5. conn' \in [Conns -> Link] /\ \A c \in Conns : conn'[c] = conn[c] \/ conn'[c].st # "open"
  BY <1>2, <1>4
<1>7. Steady /\ (\A c \in Conns : KnownAs(c)') /\ \A k \in Keys : BucketHome(k)'
  BY <1>2, <1>5, ClosedHome
<1>8. ListHome(<<>>, conn') /\ <<>> \in Seq(Item)
  BY NothingMore DEF ListHome
<1>9. \A v \in Workers : todo'[v] = todo[v] \/ ListHome(todo'[v], conn')
  BY <1>2, <1>7, <1>8, ThenHome
<1>10. \A t \in Threads : ThreadHome(t)'
  BY <1>2, <1>7, ThreadsHome
<1> QED
  BY <1>2, <1>7, <1>9, <1>10, HomeFrame

LEMMA OfferHome ==
    ASSUME NEW f, NEW c \in Conns, NEW e, e = Shut(c) \/ (\E at \in Servers : (e = Release(c, at) \/ e = Keep(c, at)) /\ LeadsTo(f[c], at))
    PROVE  <<e>> \in Seq(Item) /\ ListHome(<<e>>, f) /\ e.c = c /\ (e.op \in {"release", "keep"} => LeadsTo(f[e.c], e.at))
<1>1. <<e>> \in Seq(Item)
  BY OneOffer
<1>2. e.c = c /\ (e.op \in {"release", "keep"} => LeadsTo(f[e.c], e.at))
  BY DEF Shut, Release, Keep, Offer
<1>3. DOMAIN <<e>> = {1} /\ <<e>>[1] = e
  OBVIOUS
<1> QED
  BY <1>1, <1>2, <1>3 DEF ListHome

LEMMA LeaveLoanHome ==
    ASSUME AbortInv, OwnInv, HomeInv, NEW u \in Workers, LeaveLoan(u)
    PROVE  HomeInv'
<1>1. PICK e : e = Head(todo[u])
  OBVIOUS
<1> DEFINE l == e.loan
           left == [loans[l] EXCEPT !.holders = @ - 1, !.spoiled = @ \/ e.spoiled]
           m == CASE left.holders > 0 -> <<>>
                  [] left.holders = 0 /\ left.spoiled -> <<Shut(left.c)>>
                  [] OTHER -> <<Release(left.c, left.at)>>
<1>2. /\ todo[u] # <<>> /\ e.op = "leave" /\ loans' = [loans EXCEPT ![l] = IF left.holders = 0 THEN Returned ELSE left]
      /\ todo' = Then(u, m) /\ UNCHANGED <<conn, idle, orphans, router, th, cred>>
  BY <1>1 DEF LeaveLoan, Doing
<1>3. e \in Item /\ ItemOK(e, 1, Len(loans)) /\ Leaving(u) = l
  BY <1>1, <1>2, FirstThing
<1>4. loans \in Seq(Loan) /\ l \in DOMAIN loans
  <2>1. loans \in Seq(Loan) /\ l \in 1 .. Len(loans)
    BY <1>2, <1>3 DEF OwnInv, Store, ItemOK
  <2> QED
    BY <2>1
<1>5. loans[l] \in Loan /\ LoanOK(l) /\ loans[l].holders > 0
  BY <1>3, <1>4, HeldLoan
<1>6. loans[l].c \in Conns /\ loans[l].at \in Servers /\ DOMAIN loans[l] = {"c", "at", "holders", "spoiled"}
  <2>1. loans[l].c # 0 /\ loans[l].at \in Servers /\ loans[l].c \in 0 .. MaxConns
    BY <1>5 DEF LoanOK, Loan
  <2> QED
    BY <1>5, <2>1, ConnectionsAssumption DEF Conns, Loan
<1>7. left.c = loans[l].c /\ left.at = loans[l].at
  BY <1>6
<1> HIDE DEF left
<1>8. m = <<>> \/ m = <<Shut(left.c)>> \/ m = <<Release(left.c, left.at)>>
  OBVIOUS
<1>9. loans' = [loans EXCEPT ![l] = Returned] \/ loans' = [loans EXCEPT ![l] = left]
  BY <1>2
<1> HIDE DEF m
<1>10. LeadsTo(conn[loans[l].c], loans[l].at) /\ conn' = conn
  BY <1>2, <1>4, <1>6 DEF HomeInv, LoansHome, Conns
<1>11. m \in Seq(Item) /\ ListHome(m, conn')
  <2>1. CASE m = <<>>
    BY <2>1, NothingMore DEF ListHome
  <2>2. CASE m # <<>>
    <3>1. PICK x : m = <<x>> /\ (x = Shut(loans[l].c) \/ x = Release(loans[l].c, loans[l].at))
      BY <1>7, <1>8, <2>2
    <3> QED
      BY <1>6, <1>10, <3>1, OfferHome
  <2> QED
    BY <2>1, <2>2
<1>12. LoansHome'
  <2>1. \A j \in DOMAIN loans : loans[j].c # 0 => LeadsTo(conn[loans[j].c], loans[j].at)
    BY DEF HomeInv, LoansHome
  <2>2. Returned.c = 0
    BY DEF Returned
  <2>3. DOMAIN loans' = DOMAIN loans /\ (\A j \in DOMAIN loans : j # l => loans'[j] = loans[j]) /\ (loans'[l] = Returned \/ loans'[l] = left)
    BY <1>4, <1>9
  <2>4. ASSUME NEW j \in DOMAIN loans', loans'[j].c # 0 PROVE LeadsTo(conn'[loans'[j].c], loans'[j].at)
    BY <1>7, <1>10, <2>1, <2>2, <2>3, <2>4
  <2> QED
    BY <2>4 DEF LoansHome, LeadsTo
<1>13. Steady
  BY <1>2 DEF Steady
<1>14. \A v \in Workers : todo'[v] = todo[v] \/ ListHome(todo'[v], conn')
  BY <1>2, <1>11, <1>13, ThenHome
<1>15. \A t \in Threads : ThreadHome(t)'
  BY <1>2, <1>13, ThreadsHome
<1> QED
  BY <1>2, <1>12, <1>13, <1>14, <1>15, HomeFrame

LEMMA FrontAt ==
    ASSUME NEW s \in Seq(Item), NEW e \in Item, NEW w, w = <<e>> \o s
    PROVE  \A i \in DOMAIN w : w[i] = e \/ \E j \in DOMAIN s : w[i] = s[j]
<1>1. w \in Seq(Item) /\ Len(w) = Len(s) + 1 /\ w[1] = e /\ \A i \in 2 .. Len(s) + 1 : w[i] = s[i - 1]
  OBVIOUS
<1>2. DOMAIN s = 1 .. Len(s) /\ DOMAIN w = 1 .. Len(s) + 1 /\ Len(s) \in Nat
  BY <1>1
<1>3. ASSUME NEW i \in DOMAIN w, i # 1 PROVE \E j \in DOMAIN s : w[i] = s[j]
  <2>1. i \in 2 .. Len(s) + 1 /\ i - 1 \in DOMAIN s
    BY <1>2, <1>3
  <2> QED
    BY <1>1, <2>1
<1> QED
  BY <1>1, <1>3

LEMMA ReapHome ==
    ASSUME AbortInv, OwnInv, HomeInv, NEW u \in Workers, Reap(u)
    PROVE  HomeInv'
<1>1. PICK o : o = Head(orphans)
  OBVIOUS
<1>2. PICK e : e = IF o.loan # 0 THEN Leave(o.loan, FALSE) ELSE Keep(o.c, o.at)
  OBVIOUS
<1>3. /\ orphans # <<>> /\ orphans' = Tail(orphans) /\ UNCHANGED <<conn, idle, router, loans, th, cred>>
      /\ todo' = [todo EXCEPT ![u] = <<e>> \o todo[u]]
  BY <1>1, <1>2 DEF Reap
<1>4. /\ orphans \in Seq(Orphan)
      /\ (\A i, j \in DOMAIN orphans : orphans[i].c = orphans[j].c /\ orphans[i].loan = 0 /\ orphans[j].loan = 0 => i = j)
      /\ DOMAIN todo = Workers /\ todo[u] \in Seq(Item)
  BY DEF OwnInv, Store, TodoOK
<1>5. o = orphans[1] /\ 1 \in DOMAIN orphans /\ o \in Orphan
  BY <1>1, <1>3, <1>4
<1>6. \A j \in DOMAIN orphans' : \E i \in DOMAIN orphans : orphans'[j] = orphans[i]
  BY <1>3, <1>4, OrphansTail
<1>7. \A i \in DOMAIN orphans : orphans[i].loan = 0 => LeadsTo(conn[orphans[i].c], orphans[i].at)
  BY DEF HomeInv, LostHome
<1>8. LostHome'
  <2>1. ASSUME NEW j \in DOMAIN orphans', orphans'[j].loan = 0 PROVE LeadsTo(conn'[orphans'[j].c], orphans'[j].at)
    BY <1>3, <1>6, <1>7, <2>1
  <2> QED
    BY <2>1 DEF LostHome, LeadsTo
<1>9. e \in Item /\ (e.op \in {"release", "keep"} => LeadsTo(conn[e.c], e.at))
  <2>1. o.loan \in Nat /\ o.c \in Conns /\ o.at \in Servers /\ o.c \in 0 .. MaxConns
    BY <1>5, ConnectionsAssumption DEF Orphan, Conns
  <2>2. CASE o.loan # 0
    <3>1. e = [op |-> "leave", loan |-> o.loan, spoiled |-> FALSE, c |-> 0, at |-> 0]
      BY <1>2, <2>2 DEF Leave
    <3> QED
      BY <2>1, <3>1, ConnectionsAssumption DEF Item
  <2>3. CASE o.loan = 0
    <3>1. e = [op |-> "keep", loan |-> 0, spoiled |-> FALSE, c |-> o.c, at |-> o.at]
      BY <1>2, <2>3 DEF Keep, Offer
    <3>2. LeadsTo(conn[o.c], o.at)
      BY <1>5, <1>7, <2>3
    <3> QED
      BY <2>1, <3>1, <3>2 DEF Item
  <2> QED
    BY <2>2, <2>3
<1>10. PICK s : s = todo[u]
  OBVIOUS
<1>11. PICK w : w = <<e>> \o s
  OBVIOUS
<1>12. todo'[u] = w /\ \A v \in Workers : v # u => todo'[v] = todo[v]
  BY <1>3, <1>4, <1>10, <1>11
<1>13. \A i \in DOMAIN w : w[i] = e \/ \E j \in DOMAIN s : w[i] = s[j]
  BY <1>4, <1>9, <1>10, <1>11, FrontAt
<1>14. \A j \in DOMAIN s : s[j].op \in {"release", "keep"} => LeadsTo(conn[s[j].c], s[j].at)
  BY <1>10 DEF HomeInv, ListHome
<1>15. ListHome(w, conn')
  <2>1. ASSUME NEW i \in DOMAIN w, w[i].op \in {"release", "keep"} PROVE LeadsTo(conn'[w[i].c], w[i].at)
    BY <1>3, <1>9, <1>13, <1>14, <2>1
  <2> QED
    BY <2>1 DEF ListHome
<1>16. Steady
  BY <1>3 DEF Steady
<1>17. \A t \in Threads : ThreadHome(t)'
  BY <1>3, <1>16, ThreadsHome
<1>18. \A v \in Workers : todo'[v] = todo[v] \/ ListHome(todo'[v], conn')
  BY <1>12, <1>15
<1> QED
  BY <1>3, <1>8, <1>16, <1>17, <1>18, HomeFrame

LEMMA ReturnHome ==
    ASSUME AbortInv, OwnInv, HomeInv, NEW t \in Threads, Return(t)
    PROVE  HomeInv'
<1> DEFINE w == IF th[t].next = "idle" THEN AtRest ELSE [th[t] EXCEPT !.pc = th[t].next]
           e == Release(th[t].c, th[t].target)
<1>1. /\ th[t].pc = "return" /\ UNCHANGED <<conn, idle, orphans, router, loans, cred>>
      /\ todo' = [todo EXCEPT ![t] = <<e>>]
  BY DEF Return, At
<1>2. /\ t \in DOMAIN th /\ DOMAIN th[t] = ThFields /\ th[t].lender = 0 /\ Fit(th[t]) /\ ThreadHome(t)
      /\ th[t].next \in {"idle", "recover", "point", "gohome"} /\ t \in Workers /\ DOMAIN todo = Workers
  BY <1>1, MyThread DEF Connecting, Workers, OwnInv, Store, HomeInv
<1>3. th' = [th EXCEPT ![t] = w]
  BY <1>2 DEF Return
<1>4. th[t].c \in Conns /\ th[t].target \in Servers /\ th[t].c # 0
  <2>1. th[t].c # 0 /\ th[t].target \in Servers /\ th[t].c \in 0 .. MaxConns
    BY <1>1, <1>2 DEF Fit
  <2> QED
    BY <2>1, ConnectionsAssumption DEF Conns
<1>5. w.pc \in {"idle", "recover", "point", "gohome"} /\ w.lender = 0
      /\ (w.pc # "idle" => w.r = th[t].r /\ w.c = th[t].c /\ w.home = th[t].home)
  <2>1. CASE th[t].next = "idle"
    BY <2>1 DEF AtRest
  <2>2. CASE th[t].next # "idle"
    BY <1>2, <2>2 DEF ThFields
  <2> QED
    BY <2>1, <2>2
<1> HIDE DEF w
<1>6. th'[t] = w /\ \A u \in Threads : u # t => th'[u] = th[u]
  BY <1>2, <1>3
<1>7. ThreadHome(t)'
  BY <1>1, <1>4, <1>5, <1>6, PlainHome
<1>8. ListHome(<<e>>, conn')
  <2>1. LeadsTo(conn'[th[t].c], th[t].target)
    BY <1>1, <1>2 DEF ThreadHome
  <2> QED
    BY <1>4, <2>1, OfferHome
<1> HIDE DEF e
<1>9. \A u \in Workers : todo'[u] = todo[u] \/ ListHome(todo'[u], conn')
  <2>1. todo'[t] = <<e>> /\ \A u \in Workers : u # t => todo'[u] = todo[u]
    BY <1>1, <1>2
  <2> QED
    BY <1>8, <2>1
<1>10. Steady
  BY <1>1 DEF Steady
<1>11. \A u \in Threads : ThreadHome(u)'
  BY <1>1, <1>6, <1>7, <1>10, OthersHome
<1> QED
  BY <1>1, <1>9, <1>10, <1>11, HomeFrame

\* Connections to be closed, and perhaps one more.
LEMMA ShutsHome ==
    ASSUME NEW cs \in SUBSET Conns, NEW c \in Conns, NEW z, z = <<>> \/ z = <<Shut(c)>>, NEW m, m = Closes(cs) \o z, NEW f
    PROVE  m \in Seq(Item) /\ ListHome(m, f)
<1>1. PICK q : q = Closes(cs)
  OBVIOUS
<1>2. q \in Seq(Item) /\ \A i \in DOMAIN q : q[i].op = "close"
  BY <1>1, ClosesIs
<1>3. z \in Seq(Item) /\ \A i \in DOMAIN z : z[i].op = "close"
  <2>1. CASE z = <<>>
    BY <2>1, NothingMore
  <2>2. CASE z = <<Shut(c)>>
    <3>1. <<Shut(c)>> \in Seq(Item) /\ Shut(c).op = "close"
      BY OneOffer DEF Shut, Offer
    <3>2. DOMAIN <<Shut(c)>> = {1} /\ <<Shut(c)>>[1] = Shut(c)
      OBVIOUS
    <3> QED
      BY <2>2, <3>1, <3>2
  <2> QED
    BY <2>1, <2>2
<1>4. m = q \o z
  BY <1>1
<1>5. m \in Seq(Item) /\ Len(m) = Len(q) + Len(z) /\ \A i \in 1 .. Len(q) + Len(z) : m[i] = IF i <= Len(q) THEN q[i] ELSE z[i - Len(q)]
  <2>1. \A a, b \in Seq(Item) : /\ a \o b \in Seq(Item) /\ Len(a \o b) = Len(a) + Len(b)
                                /\ \A i \in 1 .. Len(a) + Len(b) : (a \o b)[i] = IF i <= Len(a) THEN a[i] ELSE b[i - Len(a)]
    BY ConcatProperties
  <2> QED
    BY <1>2, <1>3, <1>4, <2>1
<1>6. DOMAIN m = 1 .. Len(q) + Len(z) /\ DOMAIN q = 1 .. Len(q) /\ DOMAIN z = 1 .. Len(z) /\ Len(q) \in Nat /\ Len(z) \in Nat
  BY <1>2, <1>3, <1>5
<1>7. ASSUME NEW i \in DOMAIN m PROVE m[i].op = "close"
  <2>1. CASE i <= Len(q)
    BY <1>2, <1>5, <1>6, <2>1
  <2>2. CASE ~(i <= Len(q))
    <3>1. i - Len(q) \in DOMAIN z /\ m[i] = z[i - Len(q)]
      BY <1>5, <1>6, <2>2
    <3> QED
      BY <1>3, <3>1
  <2> QED
    BY <2>1, <2>2
<1> QED
  BY <1>5, <1>7 DEF ListHome

LEMMA KeepIdleHome ==
    ASSUME AbortInv, OwnInv, HomeInv, NEW u \in Workers, KeepIdle(u)
    PROVE  HomeInv'
<1>1. PICK h : h = Head(todo[u])
  OBVIOUS
<1>2. PICK c : c = h.c
  OBVIOUS
<1>3. PICK k : k = KeyFor(c, h.at)
  OBVIOUS
<1>4. PICK n : n = Expired(idle[k])
  OBVIOUS
<1>5. PICK f : f = SubSeq(idle[k], n + 1, Len(idle[k]))
  OBVIOUS
<1>6. PICK x : x = SubSeq(idle[k], 1, n)
  OBVIOUS
<1>7. todo[u] # <<>> /\ h.op \in {"keep", "release"} /\ UNCHANGED <<conn, orphans, router, loans, th, cred>>
  BY <1>1 DEF KeepIdle, Doing
<1>8. \/ todo' = Then(u, <<Shut(c)>>) /\ idle' = idle
      \/ /\ PoolSize # 0 /\ conn[c].st = "open"
         /\ idle' = [idle EXCEPT ![k] = IF Len(f) < PoolSize THEN Append(f, [c |-> c, fresh |-> TRUE]) ELSE f]
         /\ todo' = Then(u, Closes(Members(x)) \o IF Len(f) < PoolSize THEN <<>> ELSE <<Shut(c)>>)
  BY <1>1, <1>2, <1>3, <1>4, <1>5, <1>6, Zenon DEF KeepIdle
<1>9. h \in Item /\ ItemOK(h, 1, Len(loans)) /\ h = todo[u][1] /\ Members(todo[u]) = {c} \cup Rest(todo[u])
  BY <1>1, <1>2, <1>7, FirstThing
<1>10. c \in Conns /\ h.at \in Servers
  BY <1>2, <1>7, <1>9, ConnectionsAssumption DEF Item, ItemOK, Conns
<1>11. k \in Keys
  BY <1>3, <1>10, KeyIs
<1>12. idle \in [Keys -> Seq(Entry)] /\ DOMAIN idle = Keys /\ \A j \in Keys : Distinct(idle[j])
  BY DEF OwnInv, Store
<1>13. Steady
  BY <1>7 DEF Steady
<1>14. \A t \in Threads : ThreadHome(t)'
  BY <1>7, <1>13, ThreadsHome
<1>15. CASE todo' = Then(u, <<Shut(c)>>) /\ idle' = idle
  <2>1. PICK m : m = <<Shut(c)>>
    OBVIOUS
  <2>2. m \in Seq(Item) /\ ListHome(m, conn') /\ todo' = Then(u, m)
    BY <1>10, <1>15, <2>1, OfferHome
  <2>3. \A v \in Workers : todo'[v] = todo[v] \/ ListHome(todo'[v], conn')
    BY <1>7, <1>13, <2>2, ThenHome
  <2> QED
    BY <1>7, <1>13, <1>14, <1>15, <2>3, HomeFrame
<1>16. ASSUME PoolSize # 0, conn[c].st = "open",
              idle' = [idle EXCEPT ![k] = IF Len(f) < PoolSize THEN Append(f, [c |-> c, fresh |-> TRUE]) ELSE f],
              todo' = Then(u, Closes(Members(x)) \o IF Len(f) < PoolSize THEN <<>> ELSE <<Shut(c)>>)
       PROVE  HomeInv'
  <2>1. n \in 0 .. Len(idle[k])
    BY <1>4, <1>11, <1>12, ExpiredIn
  <2>2. /\ f \in Seq(Entry) /\ Distinct(f)
        /\ Members(idle[k]) = Members(x) \cup Members(f) /\ Members(idle[k]) \in SUBSET Conns
    <3>1. PICK s : s = idle[k]
      OBVIOUS
    <3>2. s \in Seq(Entry) /\ Distinct(s) /\ n \in 0 .. Len(s) /\ x = SubSeq(s, 1, n) /\ f = SubSeq(s, n + 1, Len(s))
      BY <1>5, <1>6, <1>11, <1>12, <2>1, <3>1, Zenon
    <3>3. f \in Seq(Entry) /\ Distinct(f) /\ Members(s) = Members(x) \cup Members(f) /\ Members(s) \in SUBSET Conns
      <4>1. Parts(s, n, SubSeq(s, 1, n), SubSeq(s, n + 1, Len(s)))
        BY <3>2, CutAt, Zenon
      <4>2. Parts(s, n, x, f)
        BY <3>2, <4>1, Zenon
      <4> QED
        BY <4>2, Zenon DEF Parts
    <3> QED
      BY <3>1, <3>3, Zenon
  <2>3. c \notin Members(f)
    <3>1. c \notin Members(idle[k])
      BY <1>9, <1>11, IdleAlone
    <3> QED
      BY <2>2, <3>1
  <2>4. PICK g : g = IF Len(f) < PoolSize THEN Append(f, [c |-> c, fresh |-> TRUE]) ELSE f
    OBVIOUS
  <2>5. Members(g) \subseteq Members(idle[k]) \cup {c}
    <3>1. CASE Len(f) < PoolSize
      <4>1. g = Append(f, [c |-> c, fresh |-> TRUE])
        BY <2>4, <3>1
      <4>2. Members(g) = Members(f) \cup {c}
        BY <1>10, <2>2, <2>3, <4>1, AddEntry
      <4> QED
        BY <2>2, <4>2
    <3>2. CASE ~(Len(f) < PoolSize)
      BY <2>2, <2>4, <3>2
    <3> QED
      BY <3>1, <3>2
  <2>6. idle'[k] = g /\ \A j \in Keys : j # k => idle'[j] = idle[j]
    BY <1>11, <1>12, <1>16, <2>4
  <2>7. HomeAt(conn[c], k)
    <3>1. KnownAs(c) /\ ListHome(todo[u], conn)
      BY <1>10 DEF HomeInv
    <3>2. 1 \in DOMAIN todo[u]
      <4>1. todo[u] \in Seq(Item)
        BY DEF OwnInv, Store, TodoOK
      <4> QED
        BY <1>7, <4>1
    <3>3. LeadsTo(conn[c], h.at)
      BY <1>2, <1>7, <1>9, <3>1, <3>2 DEF ListHome
    <3>4. conn[c].at = h.at /\ (conn[c].who = conn[c].born \/ conn[c].raced) /\ conn[c].born # 0
      BY <1>16, <3>1, <3>3 DEF LeadsTo, KnownAs
    <3>5. k = <<h.at, conn[c].born>>
      BY <1>3, <3>4 DEF KeyFor
    <3>6. k[1] = h.at /\ k[2] = conn[c].born
      BY <3>5
    <3> QED
      BY <3>4, <3>6, Zenon DEF HomeAt
  <2>8. \A j \in Keys : BucketHome(j)'
    <3> SUFFICES ASSUME NEW j \in Keys, NEW d \in Members(idle'[j])
                 PROVE  HomeAt(conn'[d], j)
      BY DEF BucketHome, Members, HomeAt
    <3>1. \A a \in Members(idle[j]) : HomeAt(conn[a], j)
      BY DEF HomeInv, BucketHome
    <3>2. d \in Members(idle[j]) \/ (j = k /\ d = c)
      BY <2>5, <2>6
    <3> QED
      BY <1>7, <2>7, <3>1, <3>2
  <2>9. PICK m : m = Closes(Members(x)) \o IF Len(f) < PoolSize THEN <<>> ELSE <<Shut(c)>>
    OBVIOUS
  <2>10. m \in Seq(Item) /\ ListHome(m, conn')
    <3>1. PICK z : z = IF Len(f) < PoolSize THEN <<>> ELSE <<Shut(c)>>
      OBVIOUS
    <3>2. (z = <<>> \/ z = <<Shut(c)>>) /\ m = Closes(Members(x)) \o z /\ Members(x) \in SUBSET Conns
      BY <2>2, <2>9, <3>1
    <3> QED
      BY <1>10, <3>2, ShutsHome
  <2>11. \A v \in Workers : todo'[v] = todo[v] \/ ListHome(todo'[v], conn')
    <3>1. todo' = Then(u, m)
      BY <1>16, <2>9
    <3> QED
      BY <1>7, <1>13, <2>10, <3>1, ThenHome
  <2> QED
    BY <1>7, <1>13, <1>14, <2>8, <2>11, HomeFrame
<1> QED
  BY <1>8, <1>15, <1>16, Zenon

\* A connection just taken from the pool, or logged in on.
LEMMA DialledHome ==
    ASSUME AbortInv, OwnInv, HomeInv, Steady, NEW t \in Threads, th[t].pc \in {"acquire", "login"}, NEW c \in Conns, Dialled(t, c),
           LeadsTo(conn'[c], DialUrl(t)), cred' = cred
    PROVE  /\ \A u \in Threads : ThreadHome(u)'
           /\ \A r \in Routers : router'[r] = router[r] \/ RouterHome(r)'
<1> DEFINE w == [th[t] EXCEPT !.new = c, !.id = 0, !.raced = FALSE, !.pc = IF th[t].target # 0 THEN "borrow" ELSE "installed"]
<1>1. PICK n : n = Top(t)
  OBVIOUS
<1>2. /\ t \in DOMAIN th /\ DOMAIN th[t] = ThFields /\ ThreadHome(t) /\ Connecting(t)
      /\ n \in Routers /\ DOMAIN router = Routers /\ DOMAIN router[n] = RouterFields /\ th[t].r \in Routers
  BY <1>1, MyThread, TopRouter DEF HomeInv
<1>3. th' = [th EXCEPT ![t] = w]
  BY <1>2 DEF Dialled
<1>4. /\ w.pc = (IF th[t].target # 0 THEN "borrow" ELSE "installed") /\ w.new = c /\ w.r = th[t].r /\ w.lender = th[t].lender
      /\ w.target = th[t].target /\ w.home = th[t].home
  BY <1>2 DEF ThFields
<1> HIDE DEF w
<1>5. th'[t] = w /\ \A u \in Threads : u # t => th'[u] = th[u]
  BY <1>2, <1>3
<1>6. /\ \A r \in Routers : router'[r].url = router[r].url /\ (Fixed(router'[r]) => Fixed(router[r]))
      /\ \A r \in Routers : router'[r] = router[r] \/ RouterHome(r)'
  <2>1. CASE th[t].target # 0
    <3>1. router' = router
      BY <2>1 DEF Dialled
    <3> QED
      BY <3>1
  <2>2. CASE th[t].target = 0
    <3> DEFINE v == [router[n] EXCEPT !.c = c]
    <3>1. router' = [router EXCEPT ![n] = v]
      BY <1>1, <1>2, <2>2 DEF Dialled
    <3>2. v.c = c /\ v.lender = router[n].lender /\ v.sticky = router[n].sticky /\ v.url = router[n].url
      BY <1>2 DEF RouterFields
    <3>3. Fixed(v) => Fixed(router[n])
      BY <3>2, SameFixed
    <3> HIDE DEF v
    <3>4. router'[n] = v /\ \A m \in Routers : m # n => router'[m] = router[m]
      BY <1>2, <3>1
    <3>5. LeadsTo(conn'[c], router[n].url)
      BY <1>1, <2>2 DEF DialUrl
    <3>6. Fixed(v) => v.url = 1
      BY <1>2, <3>2, <3>3 DEF HomeInv, RouterHome
    <3>7. RouterHome(n)'
      BY <3>2, <3>4, <3>5, <3>6 DEF RouterHome, Fixed, LeadsTo
    <3> QED
      BY <3>2, <3>3, <3>4, <3>7
  <2> QED
    BY <2>1, <2>2
<1>7. ThreadHome(t)'
  <2>1. w.pc \notin {"idle", "clear"} /\ Fixed(router'[w.r]) => w.home = 1
    BY <1>2, <1>4, <1>6 DEF ThreadHome
  <2>2. w.lender # 0 => router'[w.r].url = 1
    BY <1>2, <1>4, <1>6 DEF ThreadHome
  <2>3. w.pc = "borrow" => LeadsTo(conn'[w.new], w.target)
    BY <1>4 DEF DialUrl
  <2>4. w.pc \in {"borrow", "installed"}
    BY <1>4
  <2> QED
    BY <1>5, <2>1, <2>2, <2>3, <2>4 DEF ThreadHome, LeadsTo, Fixed
<1>8. \A u \in Threads : ThreadHome(u)'
  BY <1>5, <1>6, <1>7, OthersHome
<1> QED
  BY <1>6, <1>8

LEMMA AcquireHome ==
    ASSUME AbortInv, OwnInv, HomeInv, NEW t \in Threads, Acquire(t)
    PROVE  HomeInv'
<1>1. PICK k : k = <<DialUrl(t), cred>>
  OBVIOUS
<1>2. PICK s : s = IF PoolSize = 0 THEN <<>> ELSE idle[k]
  OBVIOUS
<1>3. PICK i : i = Newest(s)
  OBVIOUS
<1>4. PICK f : f = SubSeq(s, i + 1, Len(s))
  OBVIOUS
<1>5. PICK g : g = SubSeq(s, 1, i - 1)
  OBVIOUS
<1>6. PICK stale : stale = {c \in Members(f) : conn[c].st = "open"}
  OBVIOUS
<1>7. /\ IF i # 0 THEN Dialled(t, s[i].c) ELSE th' = [th EXCEPT ![t].pc = "identify"] /\ UNCHANGED router
      /\ idle' = IF PoolSize = 0 THEN idle ELSE [idle EXCEPT ![k] = g]
      /\ todo' = [todo EXCEPT ![t] = Closes(stale)]
  BY <1>1, <1>2, <1>3, <1>4, <1>5, <1>6, Zenon DEF Acquire
<1>8. th[t].pc = "acquire" /\ UNCHANGED <<conn, orphans, loans, cred>>
  BY DEF Acquire, At
<1>9. /\ k \in Keys /\ k[1] = DialUrl(t) /\ t \in Workers /\ DOMAIN todo = Workers
      /\ idle \in [Keys -> Seq(Entry)] /\ \A j \in Keys : Distinct(idle[j])
  <2>1. DialUrl(t) \in Servers
    BY <1>8, TopRouter
  <2> QED
    BY <1>1, <2>1 DEF OwnInv, Store, Keys, Workers
<1>10. s \in Seq(Entry) /\ Distinct(s) /\ \A c \in Members(s) : c \in Members(idle[k])
  <2>1. CASE PoolSize = 0
    <3>1. s = <<>>
      BY <1>2, <2>1
    <3>2. Members(s) = {} /\ Distinct(s)
      BY <3>1 DEF Members, Distinct
    <3> QED
      BY <3>1, <3>2
  <2>2. CASE PoolSize # 0
    BY <1>2, <1>9, <2>2
  <2> QED
    BY <2>1, <2>2
<1>11. i \in 0 .. Len(s)
  BY <1>3, <1>10, NewestIn
<1>12. Taken(s, i, g, f)
  BY <1>4, <1>5, <1>10, <1>11, TakeAt, Zenon
<1>13. \A j \in Keys : \A c \in Members(idle'[j]) : c \in Members(idle[j])
  <2>1. Members(g) \subseteq Members(s)
    BY <1>12, Zenon DEF Taken
  <2>2. CASE PoolSize = 0
    BY <1>7, <2>2
  <2>3. CASE PoolSize # 0
    <3>1. idle'[k] = g /\ \A j \in Keys : j # k => idle'[j] = idle[j]
      BY <1>7, <1>9, <2>3
    <3> QED
      BY <1>10, <2>1, <3>1
  <2> QED
    BY <2>2, <2>3
<1>14. \A j \in Keys : BucketHome(j)'
  <2>1. \A j \in Keys : \A c \in Members(idle[j]) : HomeAt(conn[c], j)
    BY DEF HomeInv, BucketHome
  <2>2. \A j \in Keys : \A c \in Members(idle'[j]) : HomeAt(conn'[c], j)
    BY <1>8, <1>13, <2>1
  <2> QED
    BY <2>2 DEF BucketHome, Members, HomeAt
<1>15. stale \in SUBSET Conns
  BY <1>6, <1>12 DEF Taken
<1>16. \A u \in Workers : todo'[u] = todo[u] \/ ListHome(todo'[u], conn')
  <2>1. PICK w : w = Closes(stale)
    OBVIOUS
  <2>2. \A j \in DOMAIN w : w[j].op = "close"
    BY <1>15, <2>1, ClosesIs
  <2>3. todo'[t] = w /\ \A u \in Workers : u # t => todo'[u] = todo[u]
    BY <1>7, <1>9, <2>1
  <2>4. ListHome(w, conn')
    BY <2>2 DEF ListHome
  <2> QED
    BY <2>3, <2>4
<1>17. Steady
  BY <1>8 DEF Steady
<1>18. CASE i # 0
  <2>1. PICK c : c = s[i].c
    OBVIOUS
  <2>2. c \in Conns /\ c \in Members(s) /\ Dialled(t, c)
    <3>1. c \in Conns /\ c \in Members(s)
      BY <1>12, <1>18, <2>1, Zenon DEF Taken
    <3> QED
      BY <1>7, <1>18, <2>1, <3>1
  <2>3. LeadsTo(conn'[c], DialUrl(t))
    <3>1. HomeAt(conn[c], k)
      BY <1>9, <1>10, <2>2 DEF HomeInv, BucketHome
    <3> QED
      BY <1>8, <1>9, <3>1 DEF LeadsTo, HomeAt
  <2>4. /\ \A u \in Threads : ThreadHome(u)'
        /\ \A r \in Routers : router'[r] = router[r] \/ RouterHome(r)'
    BY <1>8, <1>17, <2>2, <2>3, DialledHome
  <2> QED
    BY <1>8, <1>14, <1>16, <1>17, <2>4, HomeFrame
<1>19. CASE i = 0
  <2> DEFINE w == [th[t] EXCEPT !.pc = "identify"]
  <2>1. t \in DOMAIN th /\ DOMAIN th[t] = ThFields /\ ThreadHome(t)
    BY MyThread DEF HomeInv
  <2>2. th' = [th EXCEPT ![t] = w] /\ router' = router
    BY <1>7, <1>19, <2>1
  <2>3. w.pc = "identify" /\ w.r = th[t].r /\ w.lender = th[t].lender /\ w.home = th[t].home
    BY <2>1 DEF ThFields
  <2> HIDE DEF w
  <2>4. th'[t] = w /\ \A u \in Threads : u # t => th'[u] = th[u]
    BY <2>1, <2>2
  <2>5. ThreadHome(t)'
    BY <1>8, <2>1, <2>2, <2>3, <2>4 DEF ThreadHome
  <2>6. \A u \in Threads : ThreadHome(u)'
    BY <1>8, <1>17, <2>2, <2>4, <2>5, OthersHome
  <2> QED
    BY <1>8, <1>14, <1>16, <1>17, <2>2, <2>6, HomeFrame
<1> QED
  BY <1>18, <1>19

LEMMA LoginHome ==
    ASSUME AbortInv, OwnInv, HomeInv, NEW t \in Threads, Login(t)
    PROVE  HomeInv'
<1>1. PICK c \in Conns :
          /\ conn[c].st = "unborn" /\ \A d \in 1 .. c - 1 : conn[d].st # "unborn"
          /\ conn' = [conn EXCEPT ![c] = [st |-> "open", at |-> DialUrl(t), who |-> cred,
                                          born |-> th[t].id, raced |-> th[t].raced]]
          /\ Dialled(t, c)
  BY Zenon DEF Login
<1>2. th[t].pc = "login" /\ UNCHANGED <<idle, orphans, loans, todo, cred>>
  BY DEF Login, At
<1>3. PICK p : p = [st |-> "open", at |-> DialUrl(t), who |-> cred, born |-> th[t].id, raced |-> th[t].raced]
  OBVIOUS
<1>4. p.st = "open" /\ p.at = DialUrl(t) /\ p.who = cred /\ p.born = th[t].id /\ p.raced = th[t].raced
  BY <1>3
<1>5. conn \in [Conns -> Link] /\ conn' = [conn EXCEPT ![c] = p]
  BY <1>1, <1>3 DEF OwnInv, Store
<1>6. conn'[c] = p /\ \A d \in Conns : d # c => conn'[d] = conn[d]
  BY <1>5
<1>7. Steady
  BY <1>1, <1>6 DEF Steady
<1>8. \A d \in Conns : KnownAs(d)'
  <2>1. PoolSize # 0 => th[t].id \in Idents /\ (th[t].id = cred \/ th[t].raced)
    BY <1>2 DEF HomeInv, ThreadHome
  <2>2. 0 \notin Idents
    BY ConnectionsAssumption
  <2>3. KnownAs(c)'
    BY <1>4, <1>6, <2>1, <2>2 DEF KnownAs
  <2>4. \A d \in Conns : d # c => KnownAs(d)'
    BY <1>6 DEF HomeInv, KnownAs
  <2> QED
    BY <2>3, <2>4
<1>9. \A k \in Keys : BucketHome(k)'
  <2> SUFFICES ASSUME NEW k \in Keys, NEW d \in Members(idle[k])
               PROVE  HomeAt(conn'[d], k)
    BY <1>2 DEF BucketHome, HomeAt
  <2>1. Born(d)
    BY HeldBorn DEF Members
  <2>2. conn'[d] = conn[d]
    BY <1>1, <1>6, <2>1 DEF Born
  <2> QED
    BY <2>2 DEF HomeInv, BucketHome
<1>10. LeadsTo(conn'[c], DialUrl(t))
  BY <1>4, <1>6 DEF LeadsTo
<1>11. /\ \A u \in Threads : ThreadHome(u)'
       /\ \A r \in Routers : router'[r] = router[r] \/ RouterHome(r)'
  BY <1>1, <1>2, <1>7, <1>10, DialledHome
<1> QED
  BY <1>2, <1>7, <1>8, <1>9, <1>11, HomeFrame

\* The loan of a router's connection.
LEMMA SharedHome ==
    ASSUME OwnInv, HomeInv, NEW n \in Routers, router[n].c # 0, loans' = Shared(n), conn' = conn
    PROVE  LoansHome'
<1>1. \A l \in DOMAIN loans : loans[l].c # 0 => LeadsTo(conn[loans[l].c], loans[l].at)
  BY DEF HomeInv, LoansHome
<1>2. loans \in Seq(Loan) /\ RouterOK(n) /\ LeadsTo(conn[router[n].c], router[n].url) /\ Len(loans) \in Nat
  BY DEF OwnInv, Store, HomeInv, RouterHome
<1>3. CASE router[n].loan # 0
  <2>1. PICK l : l = router[n].loan
    OBVIOUS
  <2>2. l \in DOMAIN loans
    <3>1. l \in 1 .. Len(loans)
      BY <1>2, <1>3, <2>1 DEF RouterOK
    <3> QED
      BY <1>2, <3>1
  <2>3. loans' = [loans EXCEPT ![l].holders = @ + 1]
    BY <1>3, <2>1 DEF Shared
  <2>4. loans[l] \in Loan
    BY <1>2, <2>2
  <2>5. DOMAIN loans[l] = {"c", "at", "holders", "spoiled"}
    BY <2>4 DEF Loan
  <2>6. DOMAIN loans' = DOMAIN loans /\ \A j \in DOMAIN loans : loans'[j].c = loans[j].c /\ loans'[j].at = loans[j].at
    BY <2>2, <2>3, <2>5
  <2> QED
    BY <1>1, <2>6 DEF LoansHome, LeadsTo
<1>4. CASE router[n].loan = 0
  <2>1. PICK x : x = [c |-> router[n].c, at |-> router[n].url, holders |-> 2, spoiled |-> FALSE]
    OBVIOUS
  <2>2. x \in Loan /\ x.c = router[n].c /\ x.at = router[n].url
    BY <1>2, <2>1 DEF Loan, RouterOK
  <2>3. loans' = Append(loans, x)
    BY <1>4, <2>1 DEF Shared
  <2>4. \A j \in DOMAIN loans' : loans'[j] = x \/ (j \in DOMAIN loans /\ loans'[j] = loans[j])
    BY <1>2, <2>2, <2>3
  <2>5. ASSUME NEW j \in DOMAIN loans', loans'[j].c # 0 PROVE LeadsTo(conn'[loans'[j].c], loans'[j].at)
    BY <1>1, <1>2, <2>2, <2>4, <2>5
  <2> QED
    BY <2>5 DEF LoansHome, LeadsTo
<1> QED
  BY <1>3, <1>4

LEMMA InstalledHome ==
    ASSUME AbortInv, OwnInv, HomeInv, NEW t \in Threads, Installed(t)
    PROVE  HomeInv'
<1>1. PICK n : n = Top(t)
  OBVIOUS
<1>2. PICK q : q = router[n]
  OBVIOUS
<1>3. PICK m : m = th[t].r
  OBVIOUS
<1>4. th[t].pc = "installed" /\ UNCHANGED <<conn, idle, orphans, cred>>
  BY DEF Installed, At
<1>5. /\ t \in DOMAIN th /\ DOMAIN th[t] = ThFields /\ ThreadOK(t) /\ Connecting(t) /\ m \in Routers
      /\ DOMAIN router = Routers /\ ThreadHome(t)
  BY <1>3, <1>4, MyThread DEF HomeInv
<1>6. n \in Routers /\ DOMAIN q = RouterFields /\ DOMAIN router[m] = RouterFields
  BY <1>1, <1>2, <1>4, <1>5, TopRouter, MyThread
<1>7. th[t].new = q.c /\ q.c # 0
  BY <1>1, <1>2, <1>4, <1>5 DEF ThreadOK
<1>8. ASSUME router' = [router EXCEPT ![n].c = 0, ![n].loan = 0],
             todo' = [todo EXCEPT ![t] = LetGo(q.c, q.loan, q.url, TRUE)],
             th' = [th EXCEPT ![t] = AtRest], UNCHANGED loans
      PROVE  HomeInv'
  <2> DEFINE v == [q EXCEPT !.c = 0, !.loan = 0]
             w == AtRest
  <2>1. router' = [router EXCEPT ![n] = v]
    BY <1>2, <1>5, <1>6, <1>8
  <2>2. v.c = 0 /\ v.url = q.url /\ v.sticky = q.sticky /\ v.lender = q.lender
    BY <1>6 DEF RouterFields
  <2>3. w.pc = "idle" /\ w.lender = 0 /\ th' = [th EXCEPT ![t] = w]
    BY <1>8 DEF AtRest
  <2>4. Fixed(v) => Fixed(router[n])
    BY <1>2, <2>2, SameFixed
  <2> HIDE DEF v, w
  <2>5. v.url = router[n].url /\ todo' = [todo EXCEPT ![t] = LetGo(router[n].c, router[n].loan, router[n].url, TRUE)]
    BY <1>2, <1>8, <2>2
  <2>6. UNCHANGED <<conn, idle, orphans, loans, cred>> /\ TRUE \in BOOLEAN
    BY <1>4, <1>8
  <2>7. w.pc \notin {"borrow", "away", "return", "login", "using", "point"} /\ v.c = 0
    BY <2>2, <2>3
  <2> QED
    BY <1>6, <2>1, <2>3, <2>4, <2>5, <2>6, <2>7, PlainDropHome
<1>9. ASSUME n = m, th' = [th EXCEPT ![t].pc = "using", ![t].c = th[t].new, ![t].new = 0],
             UNCHANGED <<router, loans, todo>>
      PROVE  HomeInv'
  <2> DEFINE w == [th[t] EXCEPT !.pc = "using", !.c = th[t].new, !.new = 0]
  <2>1. th' = [th EXCEPT ![t] = w]
    BY <1>5, <1>9
  <2>2. th[t].lender = 0
    BY <1>1, <1>3, <1>5, <1>9 DEF Connecting, Top
  <2>3. w.pc = "using" /\ w.r = th[t].r /\ w.lender = 0 /\ w.c # 0 /\ w.home = th[t].home
    BY <1>5, <1>7, <2>2 DEF ThFields
  <2> HIDE DEF w
  <2> QED
    BY <1>4, <1>9, <2>1, <2>3, SoloHome
<1>10. ASSUME n # m, loans' = Shared(n),
              router' = [router EXCEPT ![n].loan = LoanOf(n), ![m].loan = LoanOf(n), ![m].c = th[t].new],
              th' = [th EXCEPT ![t].lender = 0], UNCHANGED todo
       PROVE  HomeInv'
  <2> DEFINE v == [router[n] EXCEPT !.loan = LoanOf(n)]
             x == [router[m] EXCEPT !.loan = LoanOf(n), !.c = th[t].new]
             w == [th[t] EXCEPT !.lender = 0]
  <2>1. th[t].lender = n /\ n # 0
    BY <1>1, <1>3, <1>6, <1>10, ConnectionsAssumption DEF Top
  <2>2. th' = [th EXCEPT ![t] = w]
    BY <1>5, <1>10
  <2>3. w.pc = "installed" /\ w.r = th[t].r /\ w.lender = 0 /\ w.home = th[t].home
    BY <1>4, <1>5 DEF ThFields
  <2>4. v.c = router[n].c /\ v.url = router[n].url /\ v.lender = router[n].lender /\ v.sticky = router[n].sticky
    BY <1>2, <1>6 DEF RouterFields
  <2>5. x.c = th[t].new /\ x.url = router[m].url /\ x.lender = router[m].lender /\ x.sticky = router[m].sticky
    BY <1>6 DEF RouterFields
  <2>6. router'[n] = v /\ router'[m] = x /\ \A r \in Routers : r # n /\ r # m => router'[r] = router[r]
    BY <1>5, <1>6, <1>10
  <2>7. (Fixed(v) => Fixed(router[n])) /\ (Fixed(x) => Fixed(router[m]))
    BY <2>4, <2>5, SameFixed
  <2> HIDE DEF v, x, w
  <2>8. th'[t] = w /\ \A u \in Threads : u # t => th'[u] = th[u]
    BY <1>5, <2>2
  <2>9. RouterHome(n) /\ RouterHome(m)
    BY <1>5, <1>6 DEF HomeInv
  <2>10. router[n].url = 1 /\ router[m].url = 1
    <3>1. ~router[n].sticky
      BY <1>5, <2>1 DEF Connecting
    <3>2. Fixed(router[n])
      BY <3>1, Zenon DEF Fixed
    <3> QED
      BY <1>3, <1>5, <2>1, <2>9, <3>2 DEF RouterHome, ThreadHome
  <2>11. LeadsTo(conn[q.c], 1) /\ conn' = conn
    BY <1>2, <1>4, <1>7, <2>9, <2>10 DEF RouterHome
  <2>12. RouterHome(n)' /\ RouterHome(m)'
    <3>1. v.c = q.c /\ v.url = 1 /\ x.c = q.c /\ x.url = 1
      BY <1>2, <1>7, <2>4, <2>5, <2>10
    <3> QED
      BY <2>6, <2>11, <3>1 DEF RouterHome, LeadsTo
  <2>13. \A r \in Routers : router'[r] = router[r] \/ RouterHome(r)'
    BY <2>6, <2>12
  <2>14. \A r \in Routers : (Fixed(router'[r]) => Fixed(router[r])) /\ router'[r].url = router[r].url
    BY <2>4, <2>5, <2>6, <2>7
  <2>15. Steady
    BY <1>4 DEF Steady
  <2>16. ThreadHome(t)'
    <3>1. Fixed(router'[w.r]) => Fixed(router[w.r])
      BY <1>3, <1>5, <2>3, <2>14
    <3> QED
      BY <1>4, <2>3, <2>8, <3>1, PlainHome
  <2>17. \A u \in Threads : ThreadHome(u)'
    BY <1>4, <2>8, <2>14, <2>15, <2>16, OthersHome
  <2>18. LoansHome'
    BY <1>2, <1>4, <1>6, <1>7, <1>10, SharedHome
  <2> QED
    BY <1>4, <1>10, <2>13, <2>15, <2>17, <2>18, HomeFrame
<1>11. \/ /\ router' = [router EXCEPT ![n].c = 0, ![n].loan = 0]
          /\ todo' = [todo EXCEPT ![t] = LetGo(q.c, q.loan, q.url, TRUE)]
          /\ th' = [th EXCEPT ![t] = AtRest] /\ UNCHANGED loans
       \/ /\ n = m /\ th' = [th EXCEPT ![t].pc = "using", ![t].c = th[t].new, ![t].new = 0]
          /\ UNCHANGED <<router, loans, todo>>
       \/ /\ n # m /\ loans' = Shared(n)
          /\ router' = [router EXCEPT ![n].loan = LoanOf(n), ![m].loan = LoanOf(n), ![m].c = th[t].new]
          /\ th' = [th EXCEPT ![t].lender = 0] /\ UNCHANGED todo
  BY <1>1, <1>2, <1>3, Zenon DEF Installed
<1> QED
  BY <1>8, <1>9, <1>10, <1>11, Zenon

\* Threads that do nothing while the routers keep their servers.
LEMMA RoutersHome ==
    ASSUME AbortInv, OwnInv, HomeInv, UNCHANGED <<conn, th, cred>>,
           \A m \in Routers : router[m].st # "none" => (Fixed(router'[m]) => Fixed(router[m])) /\ router'[m].url = router[m].url
    PROVE  Steady /\ \A t \in Threads : ThreadHome(t)'
<1>1. Reaper \notin Threads /\ Steady
  BY ConnectionsAssumption DEF Steady
<1>2. \A t \in Threads : t # Reaper => ThreadHome(t)'
  BY <1>1, OthersHome
<1> QED
  BY <1>1, <1>2

LEMMA PinHome ==
    ASSUME AbortInv, OwnInv, HomeInv, NEW t \in Threads, Pin(t)
    PROVE  HomeInv'
<1>1. PICK r \in Routers, n \in Routers, transfer \in BOOLEAN :
       LET q == router[r]
           over == transfer \/ q.lent
           made == [NoRouter EXCEPT !.st = "live", !.sticky = TRUE, !.reconnect = FALSE,
                                    !.url = q.url, !.c = q.c,
                                    !.loan = IF over THEN q.loan ELSE LoanOf(r)]
       IN /\ Live(r) /\ lock[r] = Nobody /\ q.c # 0 /\ Fresh(n)
          /\ router' = [router EXCEPT ![n] = made,
                                      ![r].c = IF over THEN 0 ELSE @,
                                      ![r].loan = IF over THEN 0 ELSE LoanOf(r)]
          /\ loans' = IF over THEN loans ELSE Shared(r)
  BY Zenon DEF Pin
<1>2. PICK q : q = router[r]
  OBVIOUS
<1>3. PICK over \in BOOLEAN : over <=> transfer \/ q.lent
  OBVIOUS
<1>4. PICK made : made = [NoRouter EXCEPT !.st = "live", !.sticky = TRUE, !.reconnect = FALSE,
                                    !.url = q.url, !.c = q.c,
                                    !.loan = IF over THEN q.loan ELSE LoanOf(r)]
  OBVIOUS
<1>5. q.st = "live" /\ q.c # 0 /\ router[n].st = "none" /\ r # n
  BY <1>1, <1>2 DEF Live, Fresh
<1>6. /\ router' = [router EXCEPT ![n] = made, ![r].c = IF over THEN 0 ELSE @, ![r].loan = IF over THEN 0 ELSE LoanOf(r)]
      /\ loans' = IF over THEN loans ELSE Shared(r)
  <2>1. over = (transfer \/ q.lent)
    BY <1>3
  <2> QED
    BY <1>1, <1>2, <1>4, <2>1, Zenon
<1>7. UNCHANGED <<conn, idle, orphans, th, todo, cred>> /\ RouterHome(r) /\ DOMAIN router = Routers /\ DOMAIN q = RouterFields
  BY <1>2, MyThread DEF Pin, HomeInv
<1>8. PICK v : v = [q EXCEPT !.c = IF over THEN 0 ELSE q.c, !.loan = IF over THEN 0 ELSE LoanOf(r)]
  OBVIOUS
<1>9. router'[n] = made /\ router'[r] = v /\ \A m \in Routers : m # r /\ m # n => router'[m] = router[m]
  BY <1>2, <1>5, <1>6, <1>7, <1>8
<1>10. v.c \in {0, q.c} /\ v.url = q.url /\ v.sticky = q.sticky /\ v.lender = q.lender
  BY <1>7, <1>8 DEF RouterFields
<1>11. made.c = q.c /\ made.url = q.url /\ made.lender = 0 /\ made.sticky = TRUE
  BY <1>4 DEF NoRouter
<1>12. ~Fixed(made)
  BY <1>11, Zenon DEF Fixed
<1>13. Fixed(v) => Fixed(q)
  BY <1>10, SameFixed
<1>14. LeadsTo(conn[q.c], q.url) /\ (Fixed(q) => q.url = 1) /\ conn' = conn
  BY <1>2, <1>5, <1>7 DEF RouterHome
<1>15. RouterHome(n)'
  BY <1>9, <1>11, <1>12, <1>14 DEF RouterHome, Fixed, LeadsTo
<1>16. RouterHome(r)'
  BY <1>9, <1>10, <1>13, <1>14 DEF RouterHome, Fixed, LeadsTo
<1>17. Steady /\ \A u \in Threads : ThreadHome(u)'
  <2>1. \A m \in Routers : router[m].st # "none" => (Fixed(router'[m]) => Fixed(router[m])) /\ router'[m].url = router[m].url
    BY <1>2, <1>5, <1>9, <1>10, <1>13
  <2> QED
    BY <1>7, <2>1, RoutersHome
<1>18. loans' = loans \/ LoansHome'
  <2>1. CASE over
    BY <1>6, <2>1
  <2>2. CASE ~over
    <3>1. loans' = Shared(r)
      BY <1>6, <2>2
    <3> QED
      BY <1>2, <1>5, <1>7, <3>1, SharedHome
  <2> QED
    BY <2>1, <2>2
<1>19. \A m \in Routers : router'[m] = router[m] \/ RouterHome(m)'
  BY <1>9, <1>15, <1>16
<1> QED
  BY <1>7, <1>17, <1>18, <1>19, HomeFrame

LEMMA LendHome ==
    ASSUME AbortInv, OwnInv, HomeInv, NEW t \in Threads, Lend(t)
    PROVE  HomeInv'
<1>1. PICK r \in Routers, n \in Routers :
          /\ Live(r) /\ ~router[r].sticky /\ Fresh(n)
          /\ router' = [router EXCEPT ![n] = [NoRouter EXCEPT !.st = "live", !.lender = r,
                          !.lent = TRUE, !.sticky = TRUE, !.url = router[r].url]]
          /\ th' = [th EXCEPT ![t] = [AtRest EXCEPT !.pc = "attempt", !.r = n,
                                                    !.home = router[r].url]]
  BY Zenon DEF Lend
<1>2. PICK v : v = [NoRouter EXCEPT !.st = "live", !.lender = r, !.lent = TRUE, !.sticky = TRUE, !.url = router[r].url]
  OBVIOUS
<1>3. PICK w : w = [AtRest EXCEPT !.pc = "attempt", !.r = n, !.home = router[r].url]
  OBVIOUS
<1>4. UNCHANGED <<conn, idle, orphans, loans, todo, cred>> /\ router[n].st = "none" /\ RouterHome(r)
  BY <1>1 DEF Lend, Fresh, HomeInv
<1>5. router[r].url = 1
  <2>1. Fixed(router[r])
    BY <1>1, Zenon DEF Fixed
  <2> QED
    BY <1>4, <2>1 DEF RouterHome
<1>6. v.c = 0 /\ v.url = 1 /\ w.pc = "attempt" /\ w.r = n /\ w.lender = 0 /\ w.home = 1
  BY <1>2, <1>3, <1>5 DEF NoRouter, AtRest
<1>7. t \in DOMAIN th /\ DOMAIN router = Routers
  BY MyThread
<1>8. router'[n] = v /\ (\A m \in Routers : m # n => router'[m] = router[m]) /\ th'[t] = w
      /\ \A u \in Threads : u # t => th'[u] = th[u]
  <2>1. router' = [router EXCEPT ![n] = v] /\ th' = [th EXCEPT ![t] = w]
    BY <1>1, <1>2, <1>3, Zenon
  <2> QED
    BY <1>7, <2>1
<1>9. RouterHome(n)'
  BY <1>6, <1>8 DEF RouterHome
<1>10. ThreadHome(t)'
  BY <1>6, <1>8, PlainHome
<1>11. Steady
  BY <1>4 DEF Steady
<1>12. \A u \in Threads : ThreadHome(u)'
  BY <1>4, <1>8, <1>10, <1>11, OthersHome
<1>13. \A m \in Routers : router'[m] = router[m] \/ RouterHome(m)'
  BY <1>8, <1>9
<1> QED
  BY <1>4, <1>11, <1>12, <1>13, HomeFrame

LEMMA CollectHome ==
    ASSUME AbortInv, OwnInv, HomeInv, NEW r \in Routers, Collect(r)
    PROVE  HomeInv'
<1>1. PICK q : q = router[r]
  OBVIOUS
<1>2. PICK o : o = [c |-> q.c, loan |-> q.loan, at |-> q.url]
  OBVIOUS
<1>3. PICK v : v = [q EXCEPT !.st = "gone", !.c = 0, !.loan = 0]
  OBVIOUS
<1>4. /\ q.c # 0 /\ orphans' = Append(orphans, o) /\ UNCHANGED <<conn, idle, loans, th, todo, cred>>
      /\ router' = [router EXCEPT ![r].st = "gone", ![r].c = 0, ![r].loan = 0]
  BY <1>1, <1>2 DEF Collect
<1>5. DOMAIN router = Routers /\ DOMAIN q = RouterFields /\ RouterHome(r) /\ orphans \in Seq(Orphan)
  BY <1>1 DEF AbortInv, Shapes, OwnInv, Store, HomeInv
<1>6. v.c = 0 /\ v.url = q.url /\ v.sticky = q.sticky /\ v.lender = q.lender
  BY <1>3, <1>5 DEF RouterFields
<1>7. router'[r] = v /\ \A m \in Routers : m # r => router'[m] = router[m]
  BY <1>1, <1>3, <1>4, <1>5
<1>8. Fixed(v) => Fixed(q)
  BY <1>6, SameFixed
<1>9. RouterHome(r)'
  BY <1>1, <1>5, <1>6, <1>7, <1>8 DEF RouterHome, Fixed
<1>10. Steady /\ \A u \in Threads : ThreadHome(u)'
  <2>1. \A m \in Routers : router[m].st # "none" => (Fixed(router'[m]) => Fixed(router[m])) /\ router'[m].url = router[m].url
    BY <1>1, <1>6, <1>7, <1>8
  <2> QED
    BY <1>4, <2>1, RoutersHome
<1>11. LostHome'
  <2>1. \A j \in DOMAIN orphans' : orphans'[j] = o \/ \E i \in DOMAIN orphans : orphans'[j] = orphans[i]
    <3>1. Len(orphans) \in Nat /\ DOMAIN orphans = 1 .. Len(orphans) /\ DOMAIN orphans' = 1 .. Len(orphans) + 1
      BY <1>4, <1>5
    <3>2. orphans'[Len(orphans) + 1] = o /\ \A i \in DOMAIN orphans : orphans'[i] = orphans[i]
      BY <1>4, <1>5, <3>1
    <3>3. \A j \in DOMAIN orphans' : j \in DOMAIN orphans \/ j = Len(orphans) + 1
      BY <3>1
    <3> QED
      BY <3>2, <3>3
  <2>2. LeadsTo(conn[o.c], o.at)
    BY <1>1, <1>2, <1>4, <1>5 DEF RouterHome
  <2>3. \A i \in DOMAIN orphans : orphans[i].loan = 0 => LeadsTo(conn[orphans[i].c], orphans[i].at)
    BY DEF HomeInv, LostHome
  <2>4. ASSUME NEW j \in DOMAIN orphans', orphans'[j].loan = 0 PROVE LeadsTo(conn'[orphans'[j].c], orphans'[j].at)
    BY <1>4, <2>1, <2>2, <2>3, <2>4
  <2> QED
    BY <2>4 DEF LostHome, LeadsTo
<1>12. \A m \in Routers : router'[m] = router[m] \/ RouterHome(m)'
  BY <1>7, <1>9
<1> QED
  BY <1>4, <1>10, <1>11, <1>12, HomeFrame

LEMMA ClearNowHome ==
    ASSUME AbortInv, OwnInv, HomeInv, NEW t \in Threads, ClearNow(t)
    PROVE  HomeInv'
<1>1. PICK cs : cs = UNION {Members(idle[k]) : k \in Keys}
  OBVIOUS
<1>2. PICK w : w = Closes(cs)
  OBVIOUS
<1>3. /\ UNCHANGED <<conn, orphans, router, loans, cred>>
      /\ todo' = [todo EXCEPT ![t] = w] /\ idle' = [k \in Keys |-> <<>>] /\ th' = [th EXCEPT ![t] = AtRest]
  BY <1>1, <1>2 DEF ClearNow
<1>4. t \in Workers /\ DOMAIN todo = Workers /\ t \in DOMAIN th
  BY MyThread DEF OwnInv, Store, Workers
<1>5. cs \in SUBSET Conns
  <2>1. \A k \in Keys : \A c \in Members(idle[k]) : c \in Conns
    BY HeldBorn DEF Members, Born
  <2> QED
    BY <1>1, <2>1
<1>6. ListHome(w, conn')
  <2>1. \A j \in DOMAIN w : w[j].op = "close"
    BY <1>2, <1>5, ClosesIs
  <2> QED
    BY <2>1 DEF ListHome
<1>7. \A u \in Workers : todo'[u] = todo[u] \/ ListHome(todo'[u], conn')
  BY <1>3, <1>4, <1>6
<1>8. \A k \in Keys : BucketHome(k)'
  <2>1. \A k \in Keys : idle'[k] = <<>>
    BY <1>3
  <2> QED
    BY <2>1, NothingMore DEF BucketHome, Members
<1>9. th'[t] = AtRest /\ \A u \in Threads : u # t => th'[u] = th[u]
  BY <1>3, <1>4
<1>10. ThreadHome(t)'
  <2>1. AtRest.pc = "idle" /\ AtRest.lender = 0
    BY DEF AtRest
  <2> QED
    BY <1>9, <2>1, PlainHome
<1>11. Steady
  BY <1>3 DEF Steady
<1>12. \A u \in Threads : ThreadHome(u)'
  BY <1>3, <1>9, <1>10, <1>11, OthersHome
<1> QED
  BY <1>3, <1>7, <1>8, <1>11, <1>12, HomeFrame

LEMMA TimePassesHome ==
    ASSUME AbortInv, OwnInv, HomeInv, TimePasses
    PROVE  HomeInv'
<1>1. /\ UNCHANGED <<conn, orphans, router, loans, th, todo, cred>>
      /\ idle' = [k \in Keys |-> [i \in DOMAIN idle[k] |-> [idle[k][i] EXCEPT !.fresh = FALSE]]]
  BY DEF TimePasses
<1>2. idle \in [Keys -> Seq(Entry)] /\ \A k \in Keys : Distinct(idle[k])
  BY DEF OwnInv, Store
<1>3. ASSUME NEW k \in Keys PROVE Members(idle'[k]) = Members(idle[k])
  <2>1. PICK s : s = idle[k]
    OBVIOUS
  <2>2. PICK w : w = [i \in DOMAIN s |-> [s[i] EXCEPT !.fresh = FALSE]]
    OBVIOUS
  <2>3. Members(w) = Members(s)
    BY <1>2, <2>1, <2>2, GoneStale
  <2>4. idle'[k] = w
    BY <1>1, <2>1, <2>2
  <2> QED
    BY <2>1, <2>3, <2>4
<1>4. ASSUME NEW k \in Keys PROVE BucketHome(k)'
  <2>1. \A c \in Members(idle'[k]) : HomeAt(conn'[c], k)
    BY <1>1, <1>3 DEF HomeInv, BucketHome
  <2> QED
    BY <2>1 DEF BucketHome, Members, HomeAt
<1>5. Steady /\ \A u \in Threads : ThreadHome(u)'
  BY <1>1, RoutersHome
<1> QED
  BY <1>1, <1>4, <1>5, HomeFrame

\* A login under way when the credentials change is marked as raced.
LEMMA CredChangesHome ==
    ASSUME AbortInv, OwnInv, HomeInv, CredChanges
    PROVE  HomeInv'
<1>1. UNCHANGED <<conn, idle, orphans, router, loans, todo>>
  BY DEF CredChanges
<1>2. ASSUME NEW t \in Threads PROVE ThreadHome(t)'
  <2>1. ThreadHome(t)
    BY DEF HomeInv
  <2> QED
    BY <1>1, <2>1, CredSame, CredMarks DEF ThreadHome
<1>3. Steady
  BY <1>1 DEF Steady
<1> QED
  BY <1>1, <1>2, <1>3, HomeFrame

LEMMA HomeStutters ==
    ASSUME AbortInv, OwnInv, HomeInv, UNCHANGED vars
    PROVE  HomeInv'
<1>1. UNCHANGED <<conn, idle, orphans, router, loans, th, todo, cred>>
  BY DEF vars
<1>2. Steady /\ \A u \in Threads : ThreadHome(u)'
  BY <1>1, RoutersHome
<1> QED
  BY <1>1, <1>2, HomeFrame

LEMMA HomeStep ==
    ASSUME AbortInv, OwnInv, HomeInv, [Next]_vars
    PROVE  HomeInv'
<1>1. ASSUME NEW u \in Workers, Chore(u) PROVE HomeInv'
  BY <1>1, LeaveLoanHome, ReapHome, KeepIdleHome, CloseConnHome DEF Chore
<1>2. ASSUME NEW t \in Threads, Step(t) PROVE HomeInv'
  <2>1. CASE Attempt(t) \/ Enter(t) \/ Acquire(t) \/ Identify(t) \/ Login(t) \/ LoginFails(t)
    BY <2>1, AttemptHome, EnterHome, AcquireHome, IdentifyHome, LoginHome, LoginFailsHome
  <2>2. CASE Installed(t) \/ Borrow(t) \/ Finish(t) \/ Fails(t) \/ RefusedAway(t) \/ Return(t) \/ Point(t)
    BY <2>2, InstalledHome, BorrowHome, FinishHome, FailsHome, RefusedAwayHome, ReturnHome, PointHome
  <2>3. CASE RecoverRaises(t) \/ Recover(t) \/ GoHome(t) \/ AbortNow(t) \/ CutLink(t) \/ ClearNow(t)
    BY <2>3, RecoverRaisesHome, RecoverHome, GoHomeHome, AbortNowHome, CutLinkHome, ClearNowHome
  <2>4. ASSUME NEW d \in Servers, Redirected(t, d) PROVE HomeInv'
    BY <2>4, RedirectedHome
  <2> QED
    BY <1>2, <2>1, <2>2, <2>3, <2>4 DEF Step
<1>3. ASSUME NEW t \in Threads, Call(t) PROVE HomeInv'
  <2>1. ASSUME Close(t) PROVE HomeInv'
    BY <2>1, GiveUpHome DEF Close, MayCall
  <2>2. ASSUME Discard(t) PROVE HomeInv'
    BY <2>2, GiveUpHome DEF Discard, MayCall
  <2> QED
    BY <1>3, <2>1, <2>2, ExecuteHome, AbortHome, LendHome, PinHome, ClearHome DEF Call
<1>4. ASSUME NEW r \in Routers, Collect(r) PROVE HomeInv'
  BY <1>4, CollectHome
<1> QED
  BY <1>1, <1>2, <1>3, <1>4, TimePassesHome, CredChangesHome, HomeStutters DEF Next

LEMMA HomeFollows ==
    ASSUME HomeInv
    PROVE  PooledAsItself
<1> SUFFICES ASSUME NEW k \in Keys, NEW i \in DOMAIN idle[k]
             PROVE  HomeAt(conn[idle[k][i].c], k)
  BY DEF PooledAsItself, HomeAt
<1>1. idle[k][i].c \in Members(idle[k])
  BY DEF Members
<1> QED
  BY <1>1 DEF HomeInv, BucketHome

\* A usable connection in the pool is filed under the server it leads to and,
\* unless the credentials changed in the middle of its own dial, the identity
\* that logged in on it (acquire, connect, _release and _key_for): changes of
\* the credentials at any other time, moves, loans, collected routers and
\* aborts hand nobody another's.
THEOREM PooledIsItself == Spec => []PooledAsItself
<1> DEFINE Inv == AbortInv /\ OwnInv /\ Aborting /\ HomeInv
<1>1. Init => Inv
  BY AbortStarts, OwnStarts, AbortingStarts, HomeStarts
<1>2. Inv /\ [Next]_vars => Inv'
  BY AbortStep, OwnStep, AbortingStep, HomeStep
<1>3. Inv => PooledAsItself
  BY HomeFollows
<1> HIDE DEF Inv
<1> QED
  BY <1>1, <1>2, <1>3, PTL DEF Spec
=============================================================================
