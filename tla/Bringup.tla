------------------------------ MODULE Bringup ------------------------------
(***************************************************************************)
(* How a connection comes up, and how data paths join it: the bring-up     *)
(* half of SessionMachine (src/src/xrdclient/proto/machine.py), the driver *)
(* that runs it (Session.connect, _bringup, _upgrade, bind_data_path and   *)
(* _adopt_path of session/sync.py) and the ladder of mechanisms that       *)
(* auth/__init__.py climbs.                                                *)
(*                                                                         *)
(* Link 0 is the control connection; the others are data paths that        *)
(* threads of the application bind once it is up, each with a socket and a *)
(* bring-up machine of its own, with the session lock let go: the session  *)
(* may be closed or lost under them.  What a mechanism's class makes of    *)
(* files and keys is a choice: usable or not, able to answer a challenge   *)
(* or not.  The server answers the requests of a link one at a time.       *)
(***************************************************************************)
EXTENDS Naturals, Sequences, FiniteSets, SequencesExt

CONSTANTS
    Binds,      \* data paths the application may open: positive numbers
    PathIds,    \* path ids the server gives out
    Supported,  \* _REGISTRY: the mechanisms this client has a class for
    Askable,    \* those whose missing() has a question for a person
    Token,      \* the bearer-token mechanism, "ztn"
    Sites,      \* settings to try: see site
    MaxRounds   \* bound: kXR_authmore challenges in one login

ASSUME BringupAssumption ==
    /\ Binds \subseteq Nat \ {0} /\ PathIds \subseteq Nat \ {0}
    /\ Askable \subseteq Supported
    /\ Token \notin {"handshake", "protocol", "login"}
    /\ MaxRounds \in Nat
    /\ \A s \in Sites :
          /\ s.want \in BOOLEAN /\ s.have \in BOOLEAN /\ s.demand \in BOOLEAN
          /\ s.ztnCleartext \in BOOLEAN /\ s.prompt \in BOOLEAN
          /\ s.order \in Seq(ToSet(s.order)) /\ IsInjective(s.order)
          /\ s.offers \in Seq(ToSet(s.offers)) /\ IsInjective(s.offers)
          /\ s.binds \subseteq Binds

Links == {0} \cup Binds

VARIABLES
    site,       \* want: does the caller want TLS; have, demand: does the server
                \* offer, ask for it; ztnCleartext, prompt, order (auth_order):
                \* the Config; offers: the server's mechanisms, none for a
                \* server without security; binds: paths the application opens
    st,         \* each machine's state
    tls,        \* tls_active
    sock,       \* each transport: none, open or closed
    up, down,   \* requests and replies on their way
    ladder,     \* the select generator and what became of each mechanism
    mechanism,  \* the mechanism the session says it logged in with
    rounds,     \* challenges sent so far
    peer,       \* where the server is with each link
    grants,     \* the path id the server gave each link, or 0
    sess,       \* the session: opening, up, closing, closed or failed
    paths,      \* _paths: the link filed under each path id, or 0
    clear,      \* ghost: what went out on each link unencrypted
    tried       \* ghost: mechanisms sent to the server, in order

vars == <<site, st, tls, sock, up, down, ladder, mechanism, rounds, peer, grants, sess,
          paths, clear, tried>>

None == "none"

Init ==
    /\ site \in Sites
    /\ st = [l \in Links |-> "NEW"]
    /\ tls = [l \in Links |-> FALSE]
    /\ sock = [l \in Links |-> "none"]
    /\ up = [l \in Links |-> <<>>] /\ down = [l \in Links |-> <<>>]
    /\ ladder = [rungs |-> {}, rejected |-> {}, cur |-> None, found |-> FALSE,
               refusal |-> FALSE, error |-> None]
    /\ mechanism = None /\ rounds = 0
    /\ peer = [l \in Links |-> None]
    /\ grants = [l \in Links |-> 0]
    /\ sess = "opening"
    /\ paths = [p \in PathIds |-> 0]
    /\ clear = [l \in Links |-> {}]
    /\ tried = <<>>

ladderVars == <<ladder, mechanism, tried>>
peerVars   == <<rounds, peer, grants>>

-----------------------------------------------------------------------------
(* Starting: connect, and the first half of bind_data_path.                *)

Closed == st[0] \in {"CLOSED", "FAILED"} \/ sock[0] = "closed"

\* want_tls: what the caller asks for, or the session's own state for a path.
WantTls(l) == IF l = 0 THEN site.want ELSE site.want \/ tls[0]

\* Frames for the server, and what of them can be read on the way.
Sent(l, frames, kinds) ==
    /\ up' = [up EXCEPT ![l] = @ \o frames]
    /\ clear' = IF tls'[l] THEN clear ELSE [clear EXCEPT ![l] = @ \cup kinds]

Start(l) ==
    /\ sock[l] = "none"
    /\ l # 0 => l \in site.binds /\ sess = "up" /\ ~Closed
    /\ sock' = [sock EXCEPT ![l] = "open"]
    /\ st' = [st EXCEPT ![l] = "HANDSHAKE"]
    /\ UNCHANGED tls
    /\ Sent(l, <<[op |-> "handshake"], [op |-> "protocol"]>>, {"handshake", "protocol"})
    /\ UNCHANGED <<site, down, ladderVars, peerVars, sess, paths>>

-----------------------------------------------------------------------------
(* The ladder of mechanisms (auth.select, _next_credential).               *)

\* Where a list has n.
Place(s, n) == CHOOSE i \in DOMAIN s : s[i] = n

\* Mutation: the server's order alone.
BeforeServers(m, n) == Place(site.offers, m) < Place(site.offers, n)

\* _offer_order: auth_order first, then the rest in the server's order.
Before(m, n) ==
    IF m \in ToSet(site.order)
    THEN n \in ToSet(site.order) => Place(site.order, m) < Place(site.order, n)
    ELSE n \notin ToSet(site.order) /\ Place(site.offers, m) < Place(site.offers, n)

\* _withhold_cleartext_token: the rung that is taken out.
Withheld ==
    IF ~tls[0] /\ ~site.ztnCleartext THEN {Token} \cap ToSet(site.offers) ELSE {}

\* select: the ladder at its foot, with what it will not be climbed for.
Ladder0 ==
    [rungs |-> ToSet(site.offers) \ Withheld, rejected |-> Withheld, cur |-> None,
     found |-> FALSE, refusal |-> FALSE, error |-> None]

\* The ladder with rung n in play, those before it found unusable
\* (unsupported, nothing to log in with, or no first blob to be had).
AtRung(lad, n) ==
    [lad EXCEPT !.rungs = {m \in @ : Before(n, m)},
                !.rejected = @ \cup {m \in lad.rungs : Before(m, n)},
                !.cur = n, !.found = TRUE]

\* Every rung found unusable.
Exhausted(lad) ==
    [lad EXCEPT !.rungs = {}, !.rejected = @ \cup lad.rungs, !.found = TRUE]

\* _first_prompted: nothing was usable, and a person's answer makes one so.
Prompted(lad) ==
    {[Exhausted(lad) EXCEPT !.cur = n, !.rejected = @ \ {n}] :
        n \in IF site.prompt /\ ~lad.found THEN lad.rungs \cap Askable ELSE {}}

\* _next_credential: the next mechanism's first blob goes out, or the login
\* has failed.
NextCredential(lad) ==
    \/ \E new \in {AtRung(lad, n) : n \in lad.rungs \cap Supported} \cup Prompted(lad) :
          /\ ladder' = new
          /\ mechanism' = new.cur
          /\ tried' = Append(tried, new.cur)
          /\ Sent(0, <<[op |-> "auth", mech |-> new.cur]>>, {new.cur})
          /\ st' = [st EXCEPT ![0] = "AUTH"]
    \/ /\ ladder' = [Exhausted(lad) EXCEPT !.error = IF lad.refusal THEN "ServerError"
                                                   ELSE "NoMechanismError"]
       /\ st' = [st EXCEPT ![0] = "FAILED"]
       /\ UNCHANGED <<mechanism, tried, up, clear>>

\* A mechanism that will not do.
Rejected(n) == [ladder EXCEPT !.rejected = @ \cup {n}]

-----------------------------------------------------------------------------
(* The machine, one reply at a time (_bringup).                            *)

Reply(l, state, statuses) ==
    /\ sock[l] = "open" /\ st[l] = state
    /\ down[l] # <<>> /\ Head(down[l]).status \in statuses
    /\ down' = [down EXCEPT ![l] = Tail(@)]

\* _handshaken
Handshaken(l) ==
    /\ Reply(l, "HANDSHAKE", {"ok"})
    /\ st' = [st EXCEPT ![l] = "PROTOCOL"]
    /\ UNCHANGED <<site, tls, sock, up, ladderVars, peerVars, sess, paths, clear>>

\* _begin_login: kXR_login, or kXR_bind for a data path.
BeginLogin(l) ==
    /\ st' = [st EXCEPT ![l] = IF l = 0 THEN "LOGIN" ELSE "BIND"]
    /\ Sent(l, <<[op |-> IF l = 0 THEN "login" ELSE "bind"]>>,
            {IF l = 0 THEN "login" ELSE "bind"})

\* Mutation: a server without TLS is logged in to all the same.
AfterProtocolLax(l) ==
    IF (WantTls(l) \/ site.demand) /\ site.have
    THEN /\ st' = [st EXCEPT ![l] = "TLS"]
         /\ UNCHANGED <<tls, up, clear>>
    ELSE UNCHANGED tls /\ BeginLogin(l)

\* _after_protocol: TLS when either end asks for it, and no session without
\* it if so.
AfterProtocol(l) ==
    IF WantTls(l) \/ site.demand
    THEN /\ st' = [st EXCEPT ![l] = IF site.have THEN "TLS" ELSE "FAILED"]
         /\ UNCHANGED <<tls, up, clear>>
    ELSE UNCHANGED tls /\ BeginLogin(l)

Negotiated(l) ==
    /\ Reply(l, "PROTOCOL", {"ok"})
    /\ AfterProtocol(l)
    /\ UNCHANGED <<site, sock, ladderVars, peerVars, sess, paths>>

\* _upgrade and tls_established.
Upgrade(l) ==
    /\ sock[l] = "open" /\ st[l] = "TLS"
    /\ tls' = [tls EXCEPT ![l] = TRUE]
    /\ BeginLogin(l)
    /\ UNCHANGED <<site, sock, down, ladderVars, peerVars, sess, paths>>

\* The reply to kXR_login: in, or asked to authenticate.
LoggedIn ==
    /\ Reply(0, "LOGIN", {"ok"})
    /\ UNCHANGED tls
    /\ IF site.offers = <<>>
       THEN /\ st' = [st EXCEPT ![0] = "READY"]
            /\ UNCHANGED <<ladderVars, up, clear>>
       ELSE NextCredential(Ladder0)
    /\ UNCHANGED <<site, sock, peerVars, sess, paths>>

\* _auth_step: the challenge is answered, or the mechanism gives up and the
\* next one is sent.
AuthStep ==
    /\ Reply(0, "AUTH", {"authmore"})
    /\ UNCHANGED tls
    /\ \/ /\ Sent(0, <<[op |-> "auth", mech |-> ladder.cur]>>, {ladder.cur})
          /\ UNCHANGED <<st, ladderVars>>
       \/ NextCredential(Rejected(ladder.cur))
    /\ UNCHANGED <<site, sock, peerVars, sess, paths>>

\* _auth_refused: the server turns the mechanism down; the next one.
AuthRefused ==
    /\ Reply(0, "AUTH", {"error"})
    /\ UNCHANGED tls
    /\ NextCredential([Rejected(ladder.cur) EXCEPT !.cur = None, !.refusal = TRUE])
    /\ UNCHANGED <<site, sock, peerVars, sess, paths>>

\* _become_ready
BecomeReady(l) ==
    /\ Reply(l, IF l = 0 THEN "AUTH" ELSE "BIND", {"ok"})
    /\ st' = [st EXCEPT ![l] = "READY"]
    /\ UNCHANGED <<site, tls, sock, up, ladderVars, peerVars, sess, paths, clear>>

\* _bringup_error outside an exchange, and any status that has no place here.
BringupError(l) ==
    /\ \E s \in {"HANDSHAKE", "PROTOCOL", "LOGIN", "AUTH", "BIND"} :
          Reply(l, s, IF s = "AUTH" THEN {"other"} ELSE {"error", "other"})
    /\ st' = [st EXCEPT ![l] = "FAILED"]
    /\ UNCHANGED <<site, tls, sock, up, ladderVars, peerVars, sess, paths, clear>>

\* The peer has closed the link (_on_eof): once its replies are read.
Eof(l) ==
    /\ sock[l] = "open" /\ down[l] = <<>> /\ peer[l] = "gone"
    /\ st[l] \notin {"TLS", "FAILED", "CLOSED"}
    /\ l # 0 => st[l] # "READY"
    /\ st' = [st EXCEPT ![l] = "CLOSED"]
    /\ UNCHANGED <<site, tls, sock, up, down, ladderVars, peerVars, sess, paths, clear>>

-----------------------------------------------------------------------------
(* The driver.                                                             *)

\* A link whose bring-up is under way.
Rising(l) ==
    sock[l] = "open" /\ IF l = 0 THEN sess = "opening" ELSE \A p \in PathIds : paths[p] # l

\* The driver raises, having closed the transport.
Raise(l) ==
    /\ sock' = [sock EXCEPT ![l] = "closed"]
    /\ sess' = IF l = 0 THEN "failed" ELSE sess
    /\ UNCHANGED <<site, st, tls, up, down, ladderVars, peerVars, paths, clear>>

\* Mutation: only a lost connection is raised.
BringupFailsIfLost(l) == Rising(l) /\ st[l] = "CLOSED" /\ Raise(l)

\* _bringup on a Failed or Disconnected event.
BringupFails(l) == Rising(l) /\ st[l] \in {"FAILED", "CLOSED"} /\ Raise(l)

\* A read that times out or is cancelled, a deadline, a TLS handshake that
\* fails.
BringupTimesOut(l) ==
    /\ Rising(l) /\ down[l] = <<>>
    /\ st[l] \in {"HANDSHAKE", "PROTOCOL", "TLS", "LOGIN", "AUTH", "BIND"}
    /\ Raise(l)

\* connect returns.
Connected ==
    /\ Rising(0) /\ st[0] = "READY"
    /\ sess' = "up"
    /\ UNCHANGED <<site, st, tls, sock, up, down, ladderVars, peerVars, paths, clear>>

\* Mutation: whether the session is still there is not looked at.
AdoptPathBlindly(l) ==
    /\ l # 0 /\ Rising(l) /\ st[l] = "READY"
    /\ IF paths[grants[l]] # 0
       THEN sock' = [sock EXCEPT ![l] = "closed"] /\ UNCHANGED paths
       ELSE paths' = [paths EXCEPT ![grants[l]] = l] /\ UNCHANGED sock
    /\ UNCHANGED <<site, st, tls, up, down, ladderVars, peerVars, sess, clear>>

\* _adopt_path, with the session lock: refused by a session closed meanwhile,
\* or for a path id it has already; a refused path is closed.
AdoptPath(l) ==
    /\ l # 0 /\ Rising(l) /\ st[l] = "READY"
    /\ IF Closed \/ paths[grants[l]] # 0
       THEN sock' = [sock EXCEPT ![l] = "closed"] /\ UNCHANGED paths
       ELSE paths' = [paths EXCEPT ![grants[l]] = l] /\ UNCHANGED sock
    /\ UNCHANGED <<site, st, tls, up, down, ladderVars, peerVars, sess, clear>>

\* close: CLOSED in one hold of the session lock ...
Close ==
    /\ sess = "up"
    /\ sess' = "closing"
    /\ st' = [st EXCEPT ![0] = "CLOSED"]
    /\ UNCHANGED <<site, tls, sock, up, down, ladderVars, peerVars, paths, clear>>

\* ... and every link dropped in another.
CloseLinks ==
    /\ sess = "closing"
    /\ sess' = "closed"
    /\ sock' = [l \in Links |-> IF l = 0 \/ \E p \in PathIds : paths[p] = l
                                THEN "closed" ELSE sock[l]]
    /\ paths' = [p \in PathIds |-> 0]
    /\ UNCHANGED <<site, st, tls, up, down, ladderVars, peerVars, clear>>

\* _close_path, when a read finds the path's peer gone or the path stalls.
ClosePath(p) ==
    /\ paths[p] # 0 /\ sess = "up"
    /\ sock' = [sock EXCEPT ![paths[p]] = "closed"]
    /\ paths' = [paths EXCEPT ![p] = 0]
    /\ UNCHANGED <<site, st, tls, up, down, ladderVars, peerVars, sess, clear>>

-----------------------------------------------------------------------------
(* The server.                                                             *)

\* Path ids no link of the server's has.
FreePaths == {p \in PathIds : \A l \in Binds : grants[l] = p => peer[l] = "gone"}

\* It answers the next request on link l.
Answer(l) ==
    /\ up[l] # <<>> /\ peer[l] # "gone"
    /\ up' = [up EXCEPT ![l] = Tail(@)]
    /\ \E s \in {"ok", "error", "authmore", "other"} :
       LET q == Head(up[l]) IN
       /\ q.op = "handshake" => s = "ok"
       /\ s = "authmore" => q.op = "auth" /\ rounds < MaxRounds
       /\ q.op = "bind" /\ s = "ok" => FreePaths # {}
       /\ down' = [down EXCEPT ![l] = Append(@, [status |-> s])]
       /\ rounds' = IF s = "authmore" THEN rounds + 1 ELSE rounds
       /\ peer' = [peer EXCEPT ![l] =
                     CASE s = "ok" /\ q.op = "auth" -> q.mech
                       [] s = "ok" /\ q.op = "bind" -> "in"
                       [] s = "ok" /\ q.op = "login" /\ site.offers = <<>> -> "in"
                       [] OTHER -> @]
       /\ IF q.op = "bind" /\ s = "ok"
          THEN \E p \in FreePaths : grants' = [grants EXCEPT ![l] = p]
          ELSE UNCHANGED grants
    /\ UNCHANGED <<site, st, tls, sock, ladderVars, sess, paths, clear>>

\* It closes link l.
Hangup(l) ==
    /\ sock[l] # "none" /\ peer[l] # "gone"
    /\ peer' = [peer EXCEPT ![l] = "gone"]
    /\ UNCHANGED <<site, st, tls, sock, up, down, ladderVars, rounds, grants, sess, paths,
                   clear>>

-----------------------------------------------------------------------------
Machine(l) ==
    \/ Handshaken(l) \/ Negotiated(l) \/ BecomeReady(l) \/ BringupError(l) \/ Eof(l)
    \/ l = 0 /\ (LoggedIn \/ AuthStep \/ AuthRefused)

\* Bringing a link up, until it is the session's or closed.
Driver(l) ==
    \/ Machine(l) \/ Upgrade(l) \/ BringupFails(l) \/ AdoptPath(l)
    \/ l = 0 /\ Connected

Next ==
    \/ \E l \in Links : \/ Start(l) \/ Driver(l) \/ BringupTimesOut(l)
                        \/ Answer(l) \/ Hangup(l)
    \/ \E p \in PathIds : ClosePath(p)
    \/ Close \/ CloseLinks

\* A driver with a reply in hand goes on; one without is answered or runs out
\* of time (request_timeout bounds every read).
Fairness ==
    \A l \in Links : /\ WF_vars(Driver(l))
                     /\ WF_vars(Answer(l) \/ BringupTimesOut(l))

Spec == Init /\ [][Next]_vars /\ Fairness

-----------------------------------------------------------------------------
(* Properties.                                                             *)

States == {"NEW", "HANDSHAKE", "PROTOCOL", "TLS", "LOGIN", "AUTH", "BIND", "READY",
           "FAILED", "CLOSED"}

\* Types; and a mechanism in play is one this client has, on a link that is
\* authenticating.
TypeOK ==
    /\ st \in [Links -> States]
    /\ sock \in [Links -> {"none", "open", "closed"}]
    /\ ladder.rejected \subseteq ToSet(site.offers)
    /\ st[0] = "AUTH" => ladder.cur \in Supported \cap ToSet(site.offers)
    /\ paths \in [PathIds -> {0} \cup Binds]

\* When either end asks for TLS nothing but the handshake and kXR_protocol
\* goes out in the clear, on the control link or on a data path; and a bearer
\* token goes out in the clear only where the user allowed it.
NothingInTheClear ==
    /\ \A l \in Links : site.want \/ site.demand \/ (l # 0 /\ tls[0])
          => clear[l] \subseteq {"handshake", "protocol"}
    /\ Token \in clear[0] => site.ztnCleartext

\* Where the user and then the server rank a mechanism.
Rank(n) ==
    IF n \in ToSet(site.order) THEN Place(site.order, n)
    ELSE Len(site.order) + Place(site.offers, n)

\* Mechanisms are tried in the order of auth_order and then of the server's
\* preference, and none of them twice, through refusals by the server and
\* exchanges that break down.
OnceInOrder ==
    \A i, j \in DOMAIN tried : i < j => Rank(tried[i]) < Rank(tried[j])

\* A login fails for want of a mechanism only when each one offered was
\* refused or found unusable, and it has a reason to report for every one.
FailureExplained == ladder.error # None => ladder.rejected = ToSet(site.offers)

\* A session is up only where the server has let it in, and with the mechanism
\* it reports; a data path only where the server bound it.
ReadyIsAccepted ==
    \A l \in Links : sock[l] = "open" /\ st[l] = "READY" /\ peer[l] # "gone"
       => peer[l] = IF l = 0 /\ site.offers # <<>> THEN mechanism ELSE "in"

\* The session's data paths are open links the server bound under that id,
\* and none is in the clear when the session is not.
PathsProper ==
    \A p \in PathIds : paths[p] # 0
       => /\ sock[paths[p]] = "open" /\ grants[paths[p]] = p
          /\ tls[0] => tls[paths[p]]

\* Once a session is closed, or never came up, no socket of its stays open but
\* for a path whose bring-up is still running.
NothingLeaks ==
    sess \in {"closed", "failed"}
       => /\ sock[0] = "closed"
          /\ \A p \in PathIds : paths[p] = 0

\* Every bring-up ends: with a session or a path, or with its socket closed.
EveryBringupEnds == \A l \in Links : Rising(l) ~> ~Rising(l)

\* Nothing that should be encrypted goes out in the clear, on the control link
\* or on a path bound under it (_after_protocol, data_path, _adopt_path).
LinksProper == NothingInTheClear /\ PathsProper

\* The ladder of mechanisms is climbed once, in order, to a login the server
\* accepted or to a failure that names every rung (_next_credential).
LadderRight == TypeOK /\ OnceInOrder /\ FailureExplained /\ ReadyIsAccepted
=============================================================================
