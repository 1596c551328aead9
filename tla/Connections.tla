---------------------------- MODULE Connections ----------------------------
(***************************************************************************)
(* Who owns a connection: the routers of                                   *)
(* src/src/xrdclient/session/router.py, the loans through which a          *)
(* filesystem and its files share one, the SessionPool of session/pool.py  *)
(* that keeps it between users, and the queue the garbage collector leaves *)
(* it in.                                                                  *)
(*                                                                         *)
(* Threads make requests through routers: a router dials under its own     *)
(* lock, a request redirected away from a filesystem's router borrows a    *)
(* connection of its own, a file's router moves to the server it was sent  *)
(* to.  What the code does in one hold of a lock is one action; what it    *)
(* does with a connection after the lock is let go (leave a loan, offer it *)
(* to the pool, close it) is a list of things to do, each a step.  A       *)
(* server is a number; server 1 is where every router starts.  An identity *)
(* (the digest of _identity) is a number too; cred is the one the          *)
(* environment and the credential files say at the moment.                 *)
(***************************************************************************)
EXTENDS Integers, Sequences, FiniteSets, Functions, SequencesExt

CONSTANTS
    Threads, Nobody,
    Reaper,         \* the xrd-reaper thread
    Routers,        \* identities of routers: a set of positive numbers
    Namespaces,     \* those of filesystems, made at the start
    Files,          \* those of files opened by themselves, made at the start
    MaxConns,       \* bound: connections dialled
    Servers, Idents,
    PoolSize,       \* pool_size
    RedirectLimit,  \* redirect_limit
    MaxRedirects,   \* bound: redirects met by the requests under way
    Retries,        \* connect_retries
    MaxCalls,       \* bound: calls made by the application
    Calls,          \* the calls it makes: subset of AllCalls
    MaxMishaps      \* bound: failures, expiries and changes of credentials

AllCalls == {"execute", "close", "discard", "abort", "lend", "pin", "clear",
             "collect"}

ASSUME ConnectionsAssumption ==
    /\ Nobody \notin Threads /\ Reaper \notin Threads
    /\ IsFiniteSet(Threads) /\ IsFiniteSet(Routers) /\ Routers \subseteq Nat \ {0}
    /\ Namespaces \subseteq Routers /\ Files \subseteq Routers \ Namespaces
    /\ MaxConns \in Nat
    /\ Servers \subseteq Nat \ {0} /\ 1 \in Servers
    /\ Idents \subseteq Nat \ {0} /\ 1 \in Idents
    /\ PoolSize \in Nat /\ RedirectLimit \in Nat /\ Retries \in Nat
    /\ MaxRedirects \in Nat
    /\ MaxCalls \in Nat /\ MaxMishaps \in Nat
    /\ Calls \subseteq AllCalls

VARIABLES
    conn,       \* each connection: [st, at, who, born], and whether its
                \* credentials changed as it logged in, [raced]
    idle,       \* _idle: the buckets, oldest first
    orphans,    \* _orphans
    router,     \* each router: see NoRouter
    lock,       \* whose hold each router's _lock is in
    borrowed,   \* _borrowed of each router
    loans,      \* every _Loan made: [c, at, holders, spoiled]
    th,         \* each worker's call: see AtRest
    todo,       \* what it still has to do with connections it let go of
    calls,      \* calls made so far
    cred,       \* the identity the ambient credentials stand for
    mishaps     \* what has gone wrong so far, counted

vars == <<conn, idle, orphans, router, lock, borrowed, loans, th, todo, calls, cred,
          mishaps>>

Conns   == 1 .. MaxConns
Workers == Threads \cup {Reaper}
Keys    == Servers \X Idents

\* open; broken (a send or a receive failed); dead (the peer ended it: closed,
\* as the protocol goes, with its descriptor still open); shut (closed by us).
Unborn == [st |-> "unborn", at |-> 0, who |-> 0, born |-> 0, raced |-> FALSE]
Closed == [Unborn EXCEPT !.st = "shut"]

NoRouter == [st |-> "none", url |-> 1, c |-> 0, loan |-> 0, lender |-> 0,
             lent |-> FALSE, sticky |-> FALSE, reconnect |-> TRUE, aborted |-> FALSE]

\* r: the router; lender: the router it borrows from, while it does; target: the
\* server a redirect sent this request to; c: the connection of the last
\* attempt (_Route.session); new: one being dialled; links: those an abort has
\* still to shut down.
AtRest == [pc |-> "idle", r |-> 0, lender |-> 0, target |-> 0, dest |-> 0, c |-> 0,
           new |-> 0, id |-> 0, raced |-> FALSE, hops |-> 0, tries |-> 0, moved |-> FALSE,
           home |-> 1, spoiled |-> FALSE, next |-> "idle", links |-> {}]

Init ==
    /\ conn = [c \in Conns |-> Unborn]
    /\ idle = [k \in Keys |-> <<>>]
    /\ orphans = <<>>
    /\ router = [r \in Routers |->
                   [NoRouter EXCEPT !.st = IF r \in Namespaces \cup Files THEN "live"
                                           ELSE "none",
                                    !.sticky = r \in Files]]
    /\ lock = [r \in Routers |-> Nobody]
    /\ borrowed = [r \in Routers |-> {}]
    /\ loans = <<>>
    /\ th = [u \in Workers |-> IF u = Reaper THEN [AtRest EXCEPT !.pc = "reap"]
                               ELSE AtRest]
    /\ todo = [t \in Workers |-> <<>>]
    /\ calls = 0 /\ cred = 1 /\ mishaps = 0

Mishap == mishaps < MaxMishaps /\ mishaps' = mishaps + 1

-----------------------------------------------------------------------------
(* Letting go of a connection.                                             *)

Leave(l, bad)    == [op |-> "leave", loan |-> l, spoiled |-> bad, c |-> 0, at |-> 0]
Offer(op, c, at) == [op |-> op, loan |-> 0, spoiled |-> FALSE, c |-> c, at |-> at]
Release(c, at)   == Offer("release", c, at)
Keep(c, at)      == Offer("keep", c, at)
Shut(c)          == Offer("close", c, 0)

\* _let_go: leave the loan, else close or offer it to the pool.
LetGo(c, l, at, bad) ==
    CASE c = 0 -> <<>>
      [] c # 0 /\ l # 0 -> <<Leave(l, bad)>>
      [] c # 0 /\ l = 0 /\ bad -> <<Shut(c)>>
      [] OTHER -> <<Release(c, at)>>

\* A loan everyone has left.
Returned == [c |-> 0, at |-> 0, holders |-> 0, spoiled |-> FALSE]

\* An abort shuts its links down before it lets go of anything.
Doing(u, op) == th[u].pc # "cut" /\ todo[u] # <<>> /\ Head(todo[u]).op = op

\* The rest of the list, with more in front.
Then(u, more) == [todo EXCEPT ![u] = more \o Tail(@)]

\* _Loan.leave: the last one out pools the connection, or closes it if any
\* holder saw it fail.
LeaveLoan(u) ==
    /\ Doing(u, "leave")
    /\ LET l == Head(todo[u]).loan
           left == [loans[l] EXCEPT !.holders = @ - 1,
                                    !.spoiled = @ \/ Head(todo[u]).spoiled]
       IN /\ loans' = [loans EXCEPT ![l] = IF left.holders = 0 THEN Returned ELSE left]
          /\ todo' = Then(u, CASE left.holders > 0 -> <<>>
                               [] left.holders = 0 /\ left.spoiled -> <<Shut(left.c)>>
                               [] OTHER -> <<Release(left.c, left.at)>>)
    /\ UNCHANGED <<conn, idle, orphans, router, lock, borrowed, th, calls, cred, mishaps>>

\* A worker inside reap: about to offer a connection, to look for one, to dial
\* or to clear; the reaper thread always is.  adopt commutes with all of
\* these, so the last look at the queue and what follows it are one step.
Reaping(u) ==
    \/ Doing(u, "release")
    \/ todo[u] = <<>> /\ th[u].pc \in {"reap", "acquire", "identify", "clear"}

\* reap, one orphan: it goes where its router's close would have sent it.
Reap(u) ==
    /\ Reaping(u) /\ orphans # <<>>
    /\ LET o == Head(orphans) IN
       todo' = [todo EXCEPT ![u] =
                  <<IF o.loan # 0 THEN Leave(o.loan, FALSE) ELSE Keep(o.c, o.at)>> \o @]
    /\ orphans' = Tail(orphans)
    /\ UNCHANGED <<conn, idle, router, lock, borrowed, loans, th, calls, cred, mishaps>>

\* Mutation: under whatever identity the environment has by now.
KeyForNow(c, at) == <<at, cred>>

\* _key_for: under the identity it logged in as, or, for one not dialled
\* through connect, the present one.
KeyFor(c, at) == <<at, IF conn[c].born # 0 THEN conn[c].born ELSE cred>>

Members(b) == {b[i].c : i \in DOMAIN b}

\* To close them all, in whatever order.
Closes(cs) == SetToSeq({Shut(c) : c \in cs})

\* _prune: how many entries of a bucket have expired.  They are stamped as
\* they come, under the lock, so those come first.
Expired(b) == Max({0} \cup {i \in DOMAIN b : ~b[i].fresh})

\* Mutation: what the pool refuses is left to nobody.
KeepLeaky(u) ==
    /\ Doing(u, "keep") \/ (Doing(u, "release") /\ orphans = <<>>)
    /\ LET c == Head(todo[u]).c
           k == KeyFor(c, Head(todo[u]).at)
           n == Expired(idle[k])
           fresh == SubSeq(idle[k], n + 1, Len(idle[k]))
           expired == SubSeq(idle[k], 1, n)
           room == Len(fresh) < PoolSize
       IN IF PoolSize = 0 \/ conn[c].st # "open"
          THEN todo' = Then(u, <<Shut(c)>>) /\ UNCHANGED idle
          ELSE /\ idle' = [idle EXCEPT ![k] = IF room THEN Append(fresh, [c |-> c, fresh |-> TRUE])
                                              ELSE fresh]
               /\ todo' = Then(u, Closes(Members(expired)))
    /\ UNCHANGED <<conn, orphans, router, lock, borrowed, loans, th, calls, cred, mishaps>>

\* _release: refused to pooling switched off, a connection that failed or a
\* full bucket, and then closed by whoever offered it; the bucket's expired
\* entries are closed on the way.
KeepIdle(u) ==
    /\ Doing(u, "keep") \/ (Doing(u, "release") /\ orphans = <<>>)
    /\ LET c == Head(todo[u]).c
           k == KeyFor(c, Head(todo[u]).at)
           n == Expired(idle[k])
           fresh == SubSeq(idle[k], n + 1, Len(idle[k]))
           expired == SubSeq(idle[k], 1, n)
           room == Len(fresh) < PoolSize
       IN IF PoolSize = 0 \/ conn[c].st # "open"
          THEN todo' = Then(u, <<Shut(c)>>) /\ UNCHANGED idle
          ELSE /\ idle' = [idle EXCEPT ![k] = IF room THEN Append(fresh, [c |-> c, fresh |-> TRUE])
                                              ELSE fresh]
               /\ todo' = Then(u, Closes(Members(expired)) \o IF room THEN <<>> ELSE <<Shut(c)>>)
    /\ UNCHANGED <<conn, orphans, router, lock, borrowed, loans, th, calls, cred, mishaps>>

\* Session.close
CloseConn(u) ==
    /\ Doing(u, "close")
    /\ conn' = [conn EXCEPT ![Head(todo[u]).c] = Closed]
    /\ todo' = Then(u, <<>>)
    /\ UNCHANGED <<idle, orphans, router, lock, borrowed, loans, th, calls, cred, mishaps>>

-----------------------------------------------------------------------------
(* Getting one.                                                            *)

At(t, p) == todo[t] = <<>> /\ th[t].pc = p

\* Not closed, as Session.closed has it.
Alive(c) == c # 0 /\ conn[c].st \in {"open", "broken"}

\* The router a thread is connecting: its own, or the one it borrows from.
Top(t) == IF th[t].lender # 0 THEN th[t].lender ELSE th[t].r

\* The locks a thread lets go of when connecting fails.
Unlocked(t) == [r \in Routers |-> IF lock[r] = t THEN Nobody ELSE lock[r]]

\* _may_send and the head of _attempt: a request with a target of its own
\* dials it; any other uses the router's connection, read without the lock.
Attempt(t) ==
    /\ At(t, "attempt")
    /\ LET q == router[th[t].r] IN
       th' = [th EXCEPT ![t] =
         CASE q.aborted -> AtRest
           [] ~q.aborted /\ th[t].target # 0 ->
                [@ EXCEPT !.pc = "acquire"]
           [] ~q.aborted /\ th[t].target = 0 /\ Alive(q.c) ->
                [@ EXCEPT !.pc = "using", !.c = q.c]
           [] OTHER -> [@ EXCEPT !.pc = "lockwait"]]
    /\ UNCHANGED <<conn, idle, orphans, router, lock, borrowed, loans, todo, calls, cred,
                   mishaps>>

\* _live_session and _connect, with the lock: a live connection is used; a
\* pinned router says its connection was lost; anything else is let go of and
\* replaced, by the lender's if the router was lent.  A lender goes through
\* the same under its own lock (_share), and may have been aborted.
Enter(t) ==
    /\ At(t, "lockwait") /\ lock[Top(t)] = Nobody
    /\ LET n == Top(t)
           q == router[n]
       IN CASE n # th[t].r /\ q.aborted ->
                 /\ lock' = Unlocked(t)
                 /\ th' = [th EXCEPT ![t] = AtRest]
                 /\ UNCHANGED <<router, todo>>
            [] ~(n # th[t].r /\ q.aborted) /\ Alive(q.c) ->
                 /\ lock' = [lock EXCEPT ![n] = t]
                 /\ th' = [th EXCEPT ![t].pc = "installed", ![t].new = q.c]
                 /\ UNCHANGED <<router, todo>>
            [] q.c # 0 /\ ~Alive(q.c) /\ ~q.reconnect ->
                 /\ lock' = Unlocked(t)
                 /\ th' = [th EXCEPT ![t].pc = "recover", ![t].lender = 0]
                 /\ UNCHANGED <<router, todo>>
            [] OTHER ->
                 /\ lock' = [lock EXCEPT ![n] = t]
                 /\ router' = [router EXCEPT ![n].c = 0, ![n].loan = 0, ![n].lender = 0]
                 /\ todo' = [todo EXCEPT ![t] = LetGo(q.c, q.loan, q.url, TRUE)]
                 /\ th' = [th EXCEPT ![t] =
                      IF q.lender # 0 THEN [@ EXCEPT !.lender = q.lender]
                      ELSE [@ EXCEPT !.pc = "acquire"]]
    /\ UNCHANGED <<conn, idle, orphans, borrowed, loans, calls, cred, mishaps>>

\* Where a thread dials.
DialUrl(t) == IF th[t].target # 0 THEN th[t].target ELSE router[Top(t)].url

\* The index of the newest fresh connection of a bucket still in order, or 0.
Newest(b) == Max({0} \cup {i \in DOMAIN b : b[i].fresh /\ conn[b[i].c].st = "open"})

\* A connection in hand: the router's, or lent to one request.
Dialled(t, c) ==
    /\ th' = [th EXCEPT ![t].new = c, ![t].id = 0, ![t].raced = FALSE,
                        ![t].pc = IF th[t].target # 0 THEN "borrow" ELSE "installed"]
    /\ router' = IF th[t].target # 0 THEN router ELSE [router EXCEPT ![Top(t)].c = c]

\* acquire and _take: newest first; one that failed is dropped, one idle too
\* long is closed, once the lock is let go.
Acquire(t) ==
    /\ At(t, "acquire") /\ orphans = <<>>
    /\ LET k == <<DialUrl(t), cred>>
           b == IF PoolSize = 0 THEN <<>> ELSE idle[k]
           i == Newest(b)
           past == SubSeq(b, i + 1, Len(b))
           stale == {c \in Members(past) : conn[c].st = "open"}
       IN /\ IF i # 0 THEN Dialled(t, b[i].c)
             ELSE th' = [th EXCEPT ![t].pc = "identify"] /\ UNCHANGED router
          /\ idle' = IF PoolSize = 0 THEN idle
                     ELSE [idle EXCEPT ![k] = SubSeq(b, 1, i - 1)]
          /\ todo' = [todo EXCEPT ![t] = Closes(stale)]
    /\ UNCHANGED <<conn, orphans, lock, borrowed, loans, calls, cred, mishaps>>

\* connect: the identity is worked out, and then the login reads the
\* credentials for itself.
Identify(t) ==
    /\ At(t, "identify") /\ orphans = <<>>
    /\ th' = [th EXCEPT ![t].pc = "login", ![t].id = IF PoolSize = 0 THEN 0 ELSE cred]
    /\ UNCHANGED <<conn, idle, orphans, router, lock, borrowed, loans, todo, calls, cred,
                   mishaps>>

Login(t) ==
    /\ At(t, "login")
    /\ \E c \in Conns :
          /\ conn[c].st = "unborn" /\ \A d \in 1 .. c - 1 : conn[d].st # "unborn"
          /\ conn' = [conn EXCEPT ![c] = [st |-> "open", at |-> DialUrl(t), who |-> cred,
                                          born |-> th[t].id, raced |-> th[t].raced]]
          /\ Dialled(t, c)
    /\ UNCHANGED <<idle, orphans, lock, borrowed, loans, todo, calls, cred, mishaps>>

LoginFails(t) ==
    /\ At(t, "login") /\ Mishap
    /\ lock' = Unlocked(t)
    /\ th' = [th EXCEPT ![t].pc = "recover", ![t].lender = 0, ![t].raced = FALSE]
    /\ UNCHANGED <<conn, idle, orphans, router, borrowed, loans, todo, calls, cred>>

\* _hold and join: the loan of router n's connection with one holder more.
Shared(n) ==
    IF router[n].loan # 0
    THEN [loans EXCEPT ![router[n].loan].holders = @ + 1]
    ELSE Append(loans, [c |-> router[n].c, at |-> router[n].url, holders |-> 2,
                        spoiled |-> FALSE])

LoanOf(n) == IF router[n].loan # 0 THEN router[n].loan ELSE Len(loans) + 1

\* Mutation: an abort that came while the lock was waited for is overlooked.
InstalledAnyway(t) ==
    /\ At(t, "installed")
    /\ LET n == Top(t) IN
       \/ /\ n = th[t].r
          /\ lock' = [lock EXCEPT ![n] = Nobody]
          /\ th' = [th EXCEPT ![t].pc = "using", ![t].c = th[t].new,
                                 ![t].new = 0]
          /\ UNCHANGED <<router, loans, todo>>
       \/ /\ n # th[t].r
          /\ loans' = Shared(n)
          /\ router' = [router EXCEPT ![n].loan = LoanOf(n),
                                      ![th[t].r].loan = LoanOf(n),
                                      ![th[t].r].c = th[t].new]
          /\ lock' = [lock EXCEPT ![n] = Nobody]
          /\ th' = [th EXCEPT ![t].lender = 0]
          /\ UNCHANGED todo
    /\ UNCHANGED <<conn, idle, orphans, borrowed, calls, cred, mishaps>>

\* The end of _live_session: an abort that came meanwhile drops the
\* connection; a lender's is shared (_share); the request goes out on it.
Installed(t) ==
    /\ At(t, "installed")
    /\ LET n == Top(t)
           q == router[n]
       IN \/ /\ q.aborted
             /\ router' = [router EXCEPT ![n].c = 0, ![n].loan = 0]
             /\ todo' = [todo EXCEPT ![t] = LetGo(q.c, q.loan, q.url, TRUE)]
             /\ lock' = Unlocked(t)
             /\ th' = [th EXCEPT ![t] = AtRest]
             /\ UNCHANGED loans
          \/ /\ ~q.aborted /\ n = th[t].r
             /\ lock' = [lock EXCEPT ![n] = Nobody]
             /\ th' = [th EXCEPT ![t].pc = "using", ![t].c = th[t].new,
                                 ![t].new = 0]
             /\ UNCHANGED <<router, loans, todo>>
          \/ /\ ~q.aborted /\ n # th[t].r
             /\ loans' = Shared(n)
             /\ router' = [router EXCEPT ![n].loan = LoanOf(n),
                                         ![th[t].r].loan = LoanOf(n),
                                         ![th[t].r].c = th[t].new]
             /\ lock' = [lock EXCEPT ![n] = Nobody]
             /\ th' = [th EXCEPT ![t].lender = 0]
             /\ UNCHANGED todo
    /\ UNCHANGED <<conn, idle, orphans, borrowed, calls, cred, mishaps>>

\* _attempt with a target: the connection is named where abort finds it.
Borrow(t) ==
    /\ At(t, "borrow") /\ lock[th[t].r] = Nobody
    /\ borrowed' = [borrowed EXCEPT ![th[t].r] = @ \cup {th[t].new}]
    /\ th' = [th EXCEPT ![t].pc = "away", ![t].c = th[t].new,
                     ![t].new = 0]
    /\ UNCHANGED <<conn, idle, orphans, router, lock, loans, todo, calls, cred, mishaps>>

-----------------------------------------------------------------------------
(* What comes of an attempt.                                               *)

Out(t) == todo[t] = <<>> /\ th[t].pc \in {"using", "away"}

\* A borrowed connection is given back before anything else is done.
Outcome(t, next) ==
    [th EXCEPT ![t] =
       CASE th[t].pc = "away"                    -> [@ EXCEPT !.pc = "return", !.next = next]
         [] th[t].pc = "using" /\ next = "idle"  -> AtRest
         [] OTHER                                -> [@ EXCEPT !.pc = next]]

\* Answered, refused, out of time or out of redirects: the call is over.
Finish(t) ==
    /\ Out(t)
    /\ th' = Outcome(t, "idle")
    /\ UNCHANGED <<conn, idle, orphans, router, lock, borrowed, loans, todo, calls, cred,
                   mishaps>>

\* XrdConnectionError: the connection is broken or gone, or was shut down by
\* someone; a borrowed one is closed on the spot.
Fails(t) ==
    /\ Out(t)
    /\ IF conn[th[t].c].st = "open" THEN Mishap ELSE UNCHANGED mishaps
    /\ \E how \in {"broken", "dead"} :
          conn' = [conn EXCEPT ![th[t].c] =
                     CASE th[t].pc = "away" -> Closed
                       [] th[t].pc # "away" /\ @.st = "open" -> [@ EXCEPT !.st = how]
                       [] OTHER -> @]
    /\ th' = Outcome(t, "recover")
    /\ UNCHANGED <<idle, orphans, router, lock, borrowed, loans, todo, calls, cred>>

\* A redirect to server d within the limit (_redirect).
Redirected(t, d) ==
    /\ Out(t) /\ conn[th[t].c].st = "open"
    /\ th[t].hops < RedirectLimit
    /\ SumFunction([u \in Threads |-> th[u].hops]) < MaxRedirects
    /\ th' = [Outcome(t, "point") EXCEPT ![t].dest = d, ![t].hops = @ + 1]
    /\ UNCHANGED <<conn, idle, orphans, router, lock, borrowed, loans, todo, calls, cred,
                   mishaps>>

\* _retry_at_balancer: a data server's refusal is taken back to the manager.
RefusedAway(t) ==
    /\ Out(t) /\ conn[th[t].c].st = "open"
    /\ th[t].target # 0 \/ th[t].moved
    /\ th[t].hops < RedirectLimit
    /\ th' = [Outcome(t, "gohome") EXCEPT ![t].spoiled = FALSE]
    /\ UNCHANGED <<conn, idle, orphans, router, lock, borrowed, loans, todo, calls, cred,
                   mishaps>>

\* The end of _attempt with a target: the connection goes to the pool.
Return(t) ==
    /\ At(t, "return") /\ lock[th[t].r] = Nobody
    /\ borrowed' = [borrowed EXCEPT ![th[t].r] = @ \ {th[t].c}]
    /\ todo' = [todo EXCEPT ![t] = <<Release(th[t].c, th[t].target)>>]
    /\ th' = [th EXCEPT ![t] = IF th[t].next = "idle" THEN AtRest
                              ELSE [th[t] EXCEPT !.pc = th[t].next]]
    /\ UNCHANGED <<conn, idle, orphans, router, lock, loans, calls, cred, mishaps>>

\* The request alone goes to server d, or, if that is the router's, nowhere.
Retargeted(t, d) ==
    th' = [th EXCEPT ![t].pc = "attempt",
                     ![t].target = IF d = router[th[t].r].url THEN 0 ELSE d]

\* _point and _move: a sticky router moves to the server its request was sent
\* to, leaving its connection behind, if it is still on the one the redirect
\* came in on; any other request goes by itself.
Point(t) ==
    /\ At(t, "point")
    /\ LET r == th[t].r
           q == router[r]
           d == th[t].dest
       IN IF ~(q.sticky /\ th[t].target = 0)
          THEN Retargeted(t, d) /\ UNCHANGED <<router, todo>>
          ELSE /\ lock[r] = Nobody
               /\ IF q.c # th[t].c
                  THEN Retargeted(t, d) /\ UNCHANGED <<router, todo>>
                  ELSE /\ th' = [th EXCEPT ![t].pc = "attempt",
                                           ![t].moved = @ \/ d # th[t].home]
                       /\ IF d = q.url
                          THEN UNCHANGED <<router, todo>>
                          ELSE /\ router' = [router EXCEPT ![r].c = 0, ![r].loan = 0,
                                                           ![r].url = d]
                               /\ todo' = [todo EXCEPT ![t] =
                                             LetGo(q.c, q.loan, q.url, FALSE)]
    /\ UNCHANGED <<conn, idle, orphans, lock, borrowed, loans, calls, cred, mishaps>>

\* _recover, giving up: a pinned router, a request that must not be repeated
\* or too many tries.
RecoverRaises(t) ==
    /\ At(t, "recover")
    /\ th' = [th EXCEPT ![t] = AtRest]
    /\ UNCHANGED <<conn, idle, orphans, router, lock, borrowed, loans, todo, calls, cred,
                   mishaps>>

\* _recover, trying again: from home if it had been sent away, else on a new
\* connection; _drop leaves one that another thread has replaced already.
Recover(t) ==
    /\ At(t, "recover")
    /\ router[th[t].r].reconnect /\ th[t].tries < Retries
    /\ LET r == th[t].r
           q == router[r]
           mine == q.c # 0 /\ (th[t].c = 0 \/ q.c = th[t].c)
       IN IF th[t].target # 0 \/ th[t].moved
          THEN /\ th' = [th EXCEPT ![t].pc = "gohome", ![t].spoiled = TRUE,
                                   ![t].tries = @ + 1]
               /\ UNCHANGED <<router, todo>>
          ELSE /\ lock[r] = Nobody
               /\ th' = [th EXCEPT ![t].pc = "attempt", ![t].tries = @ + 1]
               /\ IF mine
                  THEN /\ router' = [router EXCEPT ![r].c = 0, ![r].loan = 0]
                       /\ todo' = [todo EXCEPT ![t] = LetGo(q.c, q.loan, q.url, TRUE)]
                  ELSE UNCHANGED <<router, todo>>
    /\ UNCHANGED <<conn, idle, orphans, lock, borrowed, loans, calls, cred, mishaps>>

\* _go_home and _return_home: the request goes back to where it started, and
\* so does a router its redirect had moved.
GoHome(t) ==
    /\ At(t, "gohome")
    /\ LET r == th[t].r
           q == router[r]
       IN IF th[t].target # 0
          THEN /\ th' = [th EXCEPT ![t].pc = "attempt", ![t].target = 0]
               /\ UNCHANGED <<router, todo>>
          ELSE /\ lock[r] = Nobody
               /\ th' = [th EXCEPT ![t].pc = "attempt", ![t].moved = FALSE]
               /\ router' = [router EXCEPT ![r].c = 0, ![r].loan = 0,
                                           ![r].url = th[t].home]
               /\ todo' = [todo EXCEPT ![t] = LetGo(q.c, q.loan, q.url, th[t].spoiled)]
    /\ UNCHANGED <<conn, idle, orphans, lock, borrowed, loans, calls, cred, mishaps>>

-----------------------------------------------------------------------------
(* The application's calls.                                                *)

MayCall(t, kind) ==
    /\ At(t, "idle") /\ kind \in Calls /\ calls < MaxCalls
    /\ calls' = calls + 1

Live(r) == router[r].st = "live"

\* The next router not made yet.
Fresh(n) == router[n].st = "none" /\ \A m \in Routers : m < n => router[m].st # "none"

Execute(t) ==
    /\ MayCall(t, "execute")
    /\ \E r \in Routers :
          /\ Live(r)
          /\ th' = [th EXCEPT ![t] = [AtRest EXCEPT !.pc = "attempt", !.r = r,
                                                    !.home = router[r].url]]
    /\ UNCHANGED <<conn, idle, orphans, router, lock, borrowed, loans, todo, cred, mishaps>>

\* Threads with a request out on router r.
Busy(r) == {t \in Threads : th[t].pc # "idle" /\ r \in {th[t].r, th[t].lender}}

\* close and discard: offered, or closed for good.  A file's router is closed
\* by the thread that has it; a filesystem's by any.
GiveUp(t, spoiled) ==
    \E r \in Routers :
       /\ Live(r) /\ lock[r] = Nobody
       /\ router[r].sticky => Busy(r) = {}
       /\ router[r].c # 0
       /\ router' = [router EXCEPT ![r].c = 0, ![r].loan = 0]
       /\ todo' = [todo EXCEPT ![t] = LetGo(router[r].c, router[r].loan, router[r].url,
                                            spoiled)]

Close(t) ==
    /\ MayCall(t, "close") /\ GiveUp(t, FALSE)
    /\ UNCHANGED <<conn, idle, orphans, lock, borrowed, loans, th, cred, mishaps>>

Discard(t) ==
    /\ MayCall(t, "discard") /\ GiveUp(t, TRUE)
    /\ UNCHANGED <<conn, idle, orphans, lock, borrowed, loans, th, cred, mishaps>>

\* abort: it waits for the router's lock ...
Abort(t) ==
    /\ MayCall(t, "abort")
    /\ \E r \in Routers :
          /\ Live(r) /\ ~router[r].aborted
          /\ th' = [th EXCEPT ![t] = [AtRest EXCEPT !.pc = "abort", !.r = r]]
    /\ UNCHANGED <<conn, idle, orphans, router, lock, borrowed, loans, todo, cred, mishaps>>

\* ... takes the router's connection away, and notes what its requests are out
\* on; then, with the lock let go, it shuts each of those down, wherever it
\* has gone in the meantime.
AbortNow(t) ==
    /\ At(t, "abort") /\ lock[th[t].r] = Nobody
    /\ LET r == th[t].r
           q == router[r]
           links == borrowed[r] \cup ({q.c} \ {0})
       IN /\ router' = [router EXCEPT ![r].aborted = TRUE, ![r].reconnect = FALSE,
                                      ![r].c = 0, ![r].loan = 0]
          /\ todo' = [todo EXCEPT ![t] = LetGo(q.c, q.loan, q.url, TRUE)]
          /\ th' = [th EXCEPT ![t] = IF links = {} THEN AtRest
                                     ELSE [@ EXCEPT !.pc = "cut", !.links = links]]
    /\ UNCHANGED <<conn, idle, orphans, lock, borrowed, loans, calls, cred, mishaps>>

CutLink(t) ==
    /\ th[t].pc = "cut"
    /\ \E c \in th[t].links :
          /\ conn' = [conn EXCEPT ![c] = Closed]
          /\ th' = [th EXCEPT ![t] = IF th[t].links = {c} THEN AtRest
                                     ELSE [th[t] EXCEPT !.links = @ \ {c}]]
    /\ UNCHANGED <<idle, orphans, router, lock, borrowed, loans, todo, calls, cred, mishaps>>

\* lend: a sticky router for one open of a filesystem's, which goes out on it.
Lend(t) ==
    /\ MayCall(t, "lend")
    /\ \E r, n \in Routers :
          /\ Live(r) /\ ~router[r].sticky /\ Fresh(n)
          /\ router' = [router EXCEPT ![n] = [NoRouter EXCEPT !.st = "live", !.lender = r,
                          !.lent = TRUE, !.sticky = TRUE, !.url = router[r].url]]
          /\ th' = [th EXCEPT ![t] = [AtRest EXCEPT !.pc = "attempt", !.r = n,
                                                    !.home = router[r].url]]
    /\ UNCHANGED <<conn, idle, orphans, lock, borrowed, loans, todo, cred, mishaps>>

\* pin: a router for the handle an open returned, which takes over the opener's
\* hold on the connection (a lent router's, or one the file owns) or shares it.
Pin(t) ==
    /\ MayCall(t, "pin")
    /\ \E r, n \in Routers, transfer \in BOOLEAN :
       LET q == router[r]
           over == transfer \/ q.lent
           made == [NoRouter EXCEPT !.st = "live", !.sticky = TRUE, !.reconnect = FALSE,
                                    !.url = q.url, !.c = q.c,
                                    !.loan = IF over THEN q.loan ELSE LoanOf(r)]
       IN /\ Live(r) /\ lock[r] = Nobody /\ q.c # 0 /\ Fresh(n)
          /\ router' = [router EXCEPT ![n] = made,
                                      ![r].c = IF over THEN 0 ELSE @,
                                      ![r].loan = IF over THEN 0 ELSE LoanOf(r)]
          /\ loans' = IF over THEN loans ELSE Shared(r)
    /\ UNCHANGED <<conn, idle, orphans, lock, borrowed, th, todo, cred, mishaps>>

\* clear, once it has reaped: everything idle is closed.
Clear(t) ==
    /\ MayCall(t, "clear")
    /\ th' = [th EXCEPT ![t] = [AtRest EXCEPT !.pc = "clear"]]
    /\ UNCHANGED <<conn, idle, orphans, router, lock, borrowed, loans, todo, cred, mishaps>>

ClearNow(t) ==
    /\ At(t, "clear") /\ orphans = <<>>
    /\ todo' = [todo EXCEPT ![t] = Closes(UNION {Members(idle[k]) : k \in Keys})]
    /\ idle' = [k \in Keys |-> <<>>]
    /\ th' = [th EXCEPT ![t] = AtRest]
    /\ UNCHANGED <<conn, orphans, router, lock, borrowed, loans, calls, cred, mishaps>>

\* _abandoned and adopt: the collector takes a router nobody can reach any
\* more, and queues its connection.  (Without one, it is as if it were never
\* called again.)
Collect(r) ==
    /\ "collect" \in Calls /\ calls < MaxCalls /\ calls' = calls + 1
    /\ Live(r) /\ Busy(r) = {} /\ \A n \in Routers : Live(n) => router[n].lender # r
    /\ router[r].c # 0
    /\ router' = [router EXCEPT ![r].st = "gone", ![r].c = 0, ![r].loan = 0]
    /\ orphans' = Append(orphans, [c |-> router[r].c, loan |-> router[r].loan,
                                   at |-> router[r].url])
    /\ UNCHANGED <<conn, idle, lock, borrowed, loans, th, todo, cred, mishaps>>

\* pool_idle_ttl goes by.
TimePasses ==
    /\ Mishap
    /\ \E k \in Keys : \E i \in DOMAIN idle[k] : idle[k][i].fresh
    /\ idle' = [k \in Keys |-> [i \in DOMAIN idle[k] |-> [idle[k][i] EXCEPT !.fresh = FALSE]]]
    /\ UNCHANGED <<conn, orphans, router, lock, borrowed, loans, th, todo, calls, cred>>

\* Another token, ticket or proxy in the environment; a login under way may
\* be one its key was not worked out from.
CredChanges ==
    /\ Mishap
    /\ \E i \in Idents \ {cred} : cred' = i
    /\ th' = [u \in Workers |-> IF th[u].pc = "login" THEN [th[u] EXCEPT !.raced = TRUE] ELSE th[u]]
    /\ UNCHANGED <<conn, idle, orphans, router, lock, borrowed, loans, todo, calls>>

-----------------------------------------------------------------------------
\* What a worker does once it has something to do.
Chore(u) == LeaveLoan(u) \/ Reap(u) \/ KeepIdle(u) \/ CloseConn(u)

Step(t) ==
    \/ Attempt(t) \/ Enter(t) \/ Acquire(t) \/ Identify(t) \/ Login(t) \/ LoginFails(t)
    \/ Installed(t) \/ Borrow(t)
    \/ Finish(t) \/ Fails(t) \/ RefusedAway(t) \/ Return(t) \/ Point(t)
    \/ RecoverRaises(t) \/ Recover(t) \/ GoHome(t) \/ AbortNow(t) \/ CutLink(t) \/ ClearNow(t)
    \/ \E d \in Servers : Redirected(t, d)

Call(t) ==
    \/ Execute(t) \/ Close(t) \/ Discard(t) \/ Abort(t) \/ Lend(t) \/ Pin(t)
    \/ Clear(t)

Next ==
    \/ \E u \in Workers : Chore(u)
    \/ \E t \in Threads : Step(t) \/ Call(t)
    \/ \E r \in Routers : Collect(r)
    \/ TimePasses \/ CredChanges

Spec == Init /\ [][Next]_vars

-----------------------------------------------------------------------------
(* Properties.                                                             *)

\* Types; and a bucket holds no more than pool_size.
TypeOK ==
    /\ \A c \in Conns : conn[c].st \in {"unborn", "open", "broken", "dead", "shut"}
    /\ \A r \in Routers : /\ router[r].c \in 0 .. MaxConns
                          /\ router[r].loan \in 0 .. Len(loans)
                          /\ router[r].url \in Servers
    /\ lock \in [Routers -> Threads \cup {Nobody}]
    /\ \A k \in Keys : Len(idle[k]) <= PoolSize

\* How many times over connection c is somebody's: idle in the pool, a
\* router's alone, on loan, queued by the collector, on its way to the pool or
\* to be closed, or in the hands of the thread that dialled or borrowed it.
Owners(c) ==
      Cardinality({p \in UNION {{k} \X DOMAIN idle[k] : k \in Keys} : idle[p[1]][p[2]].c = c})
    + Cardinality({r \in Routers : router[r].c = c /\ router[r].loan = 0})
    + Cardinality({l \in DOMAIN loans : loans[l].c = c /\ loans[l].holders > 0})
    + Cardinality({i \in DOMAIN orphans : orphans[i].c = c /\ orphans[i].loan = 0})
    + Cardinality({t \in Threads : th[t].pc = "borrow" /\ th[t].new = c})
    + Cardinality({t \in Threads : th[t].pc \in {"away", "return"} /\ th[t].c = c})
    + Cardinality({p \in UNION {{u} \X DOMAIN todo[u] : u \in Workers} : todo[p[1]][p[2]].c = c})

\* A usable connection is always exactly one owner's: never leaked, never
\* pooled twice, never in the pool and in use at once.
OwnedOnce == \A c \in Conns : conn[c].st = "open" => Owners(c) = 1

\* A loan counts its holders: the routers that use it, those of them that were
\* collected, and those on their way out.
LoansBalance ==
    \A l \in DOMAIN loans :
       loans[l].holders =
            Cardinality({r \in Routers : router[r].loan = l})
          + Cardinality({i \in DOMAIN orphans : orphans[i].loan = l})
          + Cardinality({p \in UNION {{u} \X DOMAIN todo[u] : u \in Workers} :
                            todo[p[1]][p[2]].loan = l})

\* A usable connection in the pool is filed under the server it is connected to
\* and the identity it logged in with, unless the credentials changed in the
\* middle of its own dial (connect, _key_for).
PooledAsItself ==
    \A k \in Keys : \A i \in DOMAIN idle[k] :
       LET x == conn[idle[k][i].c] IN
       x.st = "open" => x.at = k[1] /\ (x.who = k[2] \/ x.raced)

\* The bucket a connection goes back to is that of the identity it logged in
\* as: handing one user's authenticated connection to another is the bug the
\* pool must not have (_key_for, pool.py).
PooledAsLoggedIn ==
    \A k \in Keys : \A i \in DOMAIN idle[k] :
       conn[idle[k][i].c].st = "open" => conn[idle[k][i].c].who = k[2]

\* No connection is closed under a router that has it, unless a router that
\* shares it was aborted.
NeverClosedUnder ==
    (\A r \in Routers : ~router[r].aborted)
       => \A r \in Routers : router[r].c # 0 => conn[router[r].c].st # "shut"

\* An aborted router whose requests have all ended holds no connection.
AbortedHoldsNothing ==
    \A r \in Routers : router[r].aborted /\ Busy(r) = {}
       => router[r].c = 0 /\ borrowed[r] = {}

\* Once a router is aborted, no request of its goes out on a live connection.
NothingAfterAbort ==
    [][\A t \in Threads :
         th[t].pc \notin {"using", "away"} /\ th'[t].pc \in {"using", "away"}
            => ~router[th[t].r].aborted \/ conn[th'[t].c].st # "open"]_vars

\* Every live connection has one owner, every loan as many holders as it
\* counts, and none is closed under a router that has it (_Loan, SessionPool).
ConnsSafe == TypeOK /\ OwnedOnce /\ LoansBalance /\ NeverClosedUnder
=============================================================================
