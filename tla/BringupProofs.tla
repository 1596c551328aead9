--------------------------- MODULE BringupProofs ---------------------------
(***************************************************************************)
(* Proofs about Bringup: for every set of sites, mechanisms, data paths    *)
(* and path ids, nothing that should be encrypted goes out in the clear,   *)
(* the ladder of mechanisms is climbed once and in order, and a session    *)
(* that is closed or never came up holds no link.                          *)
(***************************************************************************)
EXTENDS Bringup, SequenceTheorems, TLAPS

Offers == ToSet(site.offers)

Statuses == {"ok", "error", "authmore", "other"}

Requests == [op : {"handshake", "protocol", "login", "bind"}]
            \cup [op : {"auth"}, mech : Supported]

Words == {"handshake", "protocol", "login", "bind"} \cup Supported

BType ==
    /\ site \in Sites
    /\ st \in [Links -> States]
    /\ tls \in [Links -> BOOLEAN]
    /\ sock \in [Links -> {"none", "open", "closed"}]
    /\ up \in [Links -> Seq(Requests)]
    /\ down \in [Links -> Seq([status : Statuses])]
    /\ mechanism \in Supported \cup {None}
    /\ peer \in [Links -> Supported \cup {None, "in", "gone"}]
    /\ grants \in [Links -> {0} \cup PathIds]
    /\ sess \in {"opening", "up", "closing", "closed", "failed"}
    /\ paths \in [PathIds -> {0} \cup Binds]
    /\ clear \in [Links -> SUBSET Words]

\* How far the session is, and what that leaves of its links.
Standing ==
    /\ sess \in {"opening", "failed"} => \A l \in Binds : sock[l] = "none"
    /\ sess \in {"up", "closing", "closed"} => st[0] \in {"READY", "CLOSED"}
    /\ sess \in {"up", "closing"} => sock[0] = "open"
    /\ sess \in {"closed", "failed"} => sock[0] = "closed" /\ \A p \in PathIds : paths[p] = 0

\* A link filed as a data path is open, bound, and filed under its own id.
Filed ==
    \A p \in PathIds : paths[p] # 0
       => sock[paths[p]] = "open" /\ st[paths[p]] = "READY" /\ grants[paths[p]] = p

\* One request of the link is under way, or its reply.
Waits(l, q) ==
    \/ up[l] = <<q>> /\ down[l] = <<>>
    \/ up[l] = <<>> /\ \E s \in Statuses : down[l] = <<[status |-> s]>>

\* What is under way on a link, given where its machine stands.
Talk(l) ==
    /\ st[l] = "NEW" <=> sock[l] = "none"
    /\ st[l] \in {"NEW", "TLS", "READY"} => up[l] = <<>> /\ down[l] = <<>>
    /\ st[l] = "HANDSHAKE" =>
          \/ up[l] = <<[op |-> "handshake"], [op |-> "protocol"]>> /\ down[l] = <<>>
          \/ up[l] = <<[op |-> "protocol"]>> /\ down[l] = <<[status |-> "ok"]>>
          \/ up[l] = <<>> /\ \E s \in Statuses : down[l] = <<[status |-> "ok"], [status |-> s]>>
    /\ st[l] = "PROTOCOL" => Waits(l, [op |-> "protocol"])
    /\ st[l] = "LOGIN" => l = 0 /\ Waits(l, [op |-> "login"])
    /\ st[l] = "BIND" => l # 0 /\ Waits(l, [op |-> "bind"])
    /\ st[l] = "AUTH" => l = 0 /\ Waits(l, [op |-> "auth", mech |-> mechanism])

Talks == \A l \in Links : Talk(l)

\* The link is in, or the reply that lets it in is on its way.
LetIn(l, s) == st[l] = "READY" \/ (st[l] = s /\ down[l] = <<[status |-> "ok"]>>)

\* Whoever is let in was let in by the server.
Admitted ==
    /\ site.offers = <<>> /\ LetIn(0, "LOGIN") => peer[0] \in {"in", "gone"}
    /\ site.offers # <<>> /\ LetIn(0, "AUTH") => peer[0] \in {mechanism, "gone"}
    /\ \A l \in Binds : LetIn(l, "BIND") => peer[l] \in {"in", "gone"} /\ grants[l] \in PathIds

\* The ladder: what was tried ranks before what is left, and every mechanism
\* offered is ahead, in play or turned down.
Ladders ==
    [rungs : SUBSET Offers, rejected : SUBSET Offers, cur : Offers \cup {None},
     found : BOOLEAN, refusal : BOOLEAN, error : {None, "ServerError", "NoMechanismError"}]

LadderType == ladder \in Ladders /\ tried \in Seq(Offers)

AtFoot == st[0] \in {"NEW", "HANDSHAKE", "PROTOCOL", "TLS", "LOGIN"}

Climbing ==
    /\ AtFoot => tried = <<>> /\ ladder.error = None
    /\ st[0] = "AUTH" =>
          /\ ladder.cur \in Supported \cap Offers /\ mechanism = ladder.cur
          /\ ladder.found /\ ladder.error = None
          /\ ladder.rungs \cup ladder.rejected \cup {ladder.cur} = Offers
          /\ \A i \in DOMAIN tried, m \in ladder.rungs : Rank(tried[i]) < Rank(m)
    /\ OnceInOrder
    /\ FailureExplained

\* A link past its login is encrypted where it has to be, and what went out
\* in the clear was allowed to.
Tight(l) == WantTls(l) \/ site.demand

Secure ==
    /\ \A l \in Links : Tight(l) /\ st[l] \in {"LOGIN", "AUTH", "BIND", "READY"} => tls[l]
    /\ \A l \in Links : Tight(l) => clear[l] \subseteq {"handshake", "protocol"}
    /\ \A l \in Links : st[l] = "NEW" => clear[l] = {}
    /\ Token \in clear[0] => site.ztnCleartext
    /\ st[0] = "AUTH" /\ ~tls[0] /\ ~site.ztnCleartext
          => Token \notin ladder.rungs \cup {ladder.cur}

BringupInv ==
    /\ BType /\ Standing /\ Filed /\ Talks /\ Admitted /\ LadderType /\ Climbing /\ Secure

-----------------------------------------------------------------------------
(* Facts about the constants and the initial state.                        *)

LEMMA SiteFacts ==
    ASSUME NEW s \in Sites
    PROVE  /\ s.want \in BOOLEAN /\ s.have \in BOOLEAN /\ s.demand \in BOOLEAN
           /\ s.ztnCleartext \in BOOLEAN /\ s.prompt \in BOOLEAN
           /\ s.order \in Seq(ToSet(s.order)) /\ s.offers \in Seq(ToSet(s.offers))
           /\ s.binds \subseteq Binds
  BY BringupAssumption

LEMMA LinkFacts == 0 \in Links /\ 0 \notin Binds /\ Binds \subseteq Links /\ 0 \notin PathIds
  BY BringupAssumption DEF Links

\* The invariant holds at the start.
LEMMA BringupStarts == Init => BringupInv
<1> SUFFICES ASSUME Init PROVE BringupInv
  OBVIOUS
<1> USE LinkFacts DEF Init
<1>1. BType
  BY DEF BType, States, None
<1>2. Standing /\ Filed
  BY DEF Standing, Filed, Links
<1>3. Talks
  BY DEF Talks, Talk
<1>4. Admitted
  BY DEF Admitted, LetIn
<1>5. LadderType
  BY DEF LadderType, Ladders, None
<1>6. Climbing
  BY DEF Climbing, AtFoot, OnceInOrder, FailureExplained, None
<1>7. Secure
  BY DEF Secure
<1> QED
  BY <1>1, <1>2, <1>3, <1>4, <1>5, <1>6, <1>7 DEF BringupInv

-----------------------------------------------------------------------------
(* What the machine of a link does, whichever reply it reads.              *)

LEMMA MachineMoves ==
    ASSUME BType, Talks, NEW l \in Links, Machine(l) \/ Upgrade(l)
    PROVE  /\ UNCHANGED <<site, sock, sess, paths, peer, grants>>
           /\ sock[l] = "open"
           /\ st[l] \notin {"NEW", "FAILED", "CLOSED"}
           /\ st[l] = "READY" => l = 0 /\ st'[0] = "CLOSED"
           /\ \E s \in States \ {"NEW"} : st' = [st EXCEPT ![l] = s]
<1> USE LinkFacts
<1> USE DEF Reply, peerVars, States
<1>1. CASE Handshaken(l)
  BY <1>1 DEF Handshaken
<1>2. CASE Negotiated(l)
  BY <1>2 DEF Negotiated, AfterProtocol, BeginLogin
<1>3. CASE BecomeReady(l)
  BY <1>3 DEF BecomeReady
<1>4. CASE BringupError(l)
  BY <1>4 DEF BringupError
<1>5. CASE Eof(l)
  BY <1>5 DEF Eof, BType, Talks, Talk
<1>6. CASE l = 0 /\ LoggedIn
  BY <1>6 DEF LoggedIn, NextCredential
<1>7. CASE l = 0 /\ AuthStep
  <2>1. CASE UNCHANGED st
    BY <1>7, <2>1 DEF AuthStep, BType
  <2>2. CASE NextCredential(Rejected(ladder.cur))
    BY <1>7, <2>2 DEF AuthStep, NextCredential
  <2> QED
    BY <1>7, <2>1, <2>2 DEF AuthStep
<1>8. CASE l = 0 /\ AuthRefused
  BY <1>8 DEF AuthRefused, NextCredential
<1>9. CASE Upgrade(l)
  BY <1>9 DEF Upgrade, BeginLogin
<1> QED
  BY <1>1, <1>2, <1>3, <1>4, <1>5, <1>6, <1>7, <1>8, <1>9 DEF Machine

\* The steps there are, by what they may disturb.
LEMMA StepKinds ==
    ASSUME [Next]_vars
    PROVE  \/ UNCHANGED vars
           \/ \E l \in Links : \/ Start(l)
                               \/ Machine(l) \/ Upgrade(l)
                               \/ Rising(l) /\ Raise(l)
                               \/ AdoptPath(l)
                               \/ Answer(l)
                               \/ Hangup(l)
           \/ \E p \in PathIds : ClosePath(p)
           \/ Connected \/ Close \/ CloseLinks
  BY DEF Next, Driver, BringupFails, BringupTimesOut

LEMMA StandingStep == BringupInv /\ [Next]_vars => Standing'
<1> SUFFICES ASSUME BringupInv, [Next]_vars PROVE Standing'
  OBVIOUS
<1> BType /\ Standing /\ Filed /\ Talks
  BY DEF BringupInv
<1> USE LinkFacts
<1>0. UNCHANGED vars => Standing'
  BY DEF vars, Standing
<1>1. ASSUME NEW l \in Links, Start(l) PROVE Standing'
  BY <1>1 DEF Start, Standing, BType, Links, Talks, Talk
<1>2. ASSUME NEW l \in Links, Machine(l) \/ Upgrade(l) PROVE Standing'
  <2>1. PICK s \in States \ {"NEW"} : st' = [st EXCEPT ![l] = s]
    BY <1>2, MachineMoves
  <2> QED
    BY <1>2, <2>1, MachineMoves DEF Standing, BType
<1>3. ASSUME NEW l \in Links, Rising(l), Raise(l) PROVE Standing'
  BY <1>3 DEF Rising, Raise, Standing, Filed, BType, Links
<1>4. ASSUME NEW l \in Links, AdoptPath(l) PROVE Standing'
  BY <1>4 DEF AdoptPath, Rising, Closed, Standing, BType, Links
<1>5. Connected => Standing'
  BY DEF Connected, Rising, Standing, BType
<1>6. ASSUME NEW l \in Links, Answer(l) PROVE Standing'
  BY <1>6 DEF Answer, Standing
<1>7. ASSUME NEW l \in Links, Hangup(l) PROVE Standing'
  BY <1>7 DEF Hangup, Standing
<1>8. ASSUME NEW p \in PathIds, ClosePath(p) PROVE Standing'
  BY <1>8 DEF ClosePath, Standing, BType, Links
<1>9. Close => Standing'
  BY DEF Close, Standing, BType
<1>10. CloseLinks => Standing'
  BY DEF CloseLinks, Standing, BType, Links
<1> QED
  BY <1>0, <1>1, <1>2, <1>3, <1>4, <1>5, <1>6, <1>7, <1>8, <1>9, <1>10, StepKinds

LEMMA FiledStep == BringupInv /\ [Next]_vars => Filed'
<1> SUFFICES ASSUME BringupInv, [Next]_vars PROVE Filed'
  OBVIOUS
<1> BType /\ Standing /\ Filed /\ Talks /\ Admitted
  BY DEF BringupInv
<1> USE LinkFacts
<1>0. UNCHANGED vars => Filed'
  BY DEF vars, Filed
<1>1. ASSUME NEW l \in Links, Start(l) PROVE Filed'
  BY <1>1 DEF Start, peerVars, Filed, BType, Links
<1>2. ASSUME NEW l \in Links, Machine(l) \/ Upgrade(l) PROVE Filed'
  <2>1. PICK s \in States \ {"NEW"} : st' = [st EXCEPT ![l] = s]
    BY <1>2, MachineMoves
  <2>2. UNCHANGED <<paths, sock, grants>> /\ (st[l] = "READY" => l = 0)
    BY <1>2, MachineMoves
  <2>3. SUFFICES ASSUME NEW p \in PathIds, paths[p] # 0 PROVE st'[paths[p]] = "READY"
    BY <2>2 DEF Filed
  <2> QED
    BY <2>1, <2>2, <2>3 DEF Filed, BType, Links
<1>3. ASSUME NEW l \in Links, Rising(l), Raise(l) PROVE Filed'
  BY <1>3 DEF Rising, Raise, peerVars, Filed, Standing, BType, Links
<1>4. ASSUME NEW l \in Links, AdoptPath(l) PROVE Filed'
  <2>1. grants[l] \in PathIds
    BY <1>4 DEF AdoptPath, Admitted, LetIn, Links
  <2>2. UNCHANGED <<st, grants>> /\ l # 0 /\ sock[l] = "open" /\ st[l] = "READY"
    BY <1>4 DEF AdoptPath, peerVars, Rising
  <2>3. \A p \in PathIds : paths[p] # l
    BY <1>4 DEF AdoptPath, Rising
  <2>4. CASE sock' = [sock EXCEPT ![l] = "closed"] /\ UNCHANGED paths
    BY <2>2, <2>3, <2>4 DEF Filed, BType, Links
  <2>5. CASE paths' = [paths EXCEPT ![grants[l]] = l] /\ UNCHANGED sock
    BY <2>1, <2>2, <2>5 DEF Filed, BType
  <2> QED
    BY <1>4, <2>4, <2>5 DEF AdoptPath
<1>5. Connected => Filed'
  BY DEF Connected, peerVars, Filed
<1>6. ASSUME NEW l \in Links, Answer(l) PROVE Filed'
  <2>1. \A p \in PathIds : paths[p] # 0 => paths[p] # l
    BY <1>6 DEF Answer, Filed, Talks, Talk
  <2>2. UNCHANGED <<paths, sock, st>> /\ \A k \in Links : k # l => grants'[k] = grants[k]
    BY <1>6 DEF Answer, BType
  <2> QED
    BY <2>1, <2>2 DEF Filed, BType, Links
<1>7. ASSUME NEW l \in Links, Hangup(l) PROVE Filed'
  BY <1>7 DEF Hangup, Filed
<1>8. ASSUME NEW p \in PathIds, ClosePath(p) PROVE Filed'
  BY <1>8 DEF ClosePath, peerVars, Filed, BType, Links
<1>9. Close => Filed'
  BY DEF Close, peerVars, Filed, BType, Links
<1>10. CloseLinks => Filed'
  BY DEF CloseLinks, Filed, BType, Links
<1> QED
  BY <1>0, <1>1, <1>2, <1>3, <1>4, <1>5, <1>6, <1>7, <1>8, <1>9, <1>10, StepKinds

-----------------------------------------------------------------------------
(* The order of the mechanisms.                                            *)

LEMMA PlaceIs ==
    ASSUME NEW s, NEW n \in ToSet(s)
    PROVE  Place(s, n) \in DOMAIN s /\ s[Place(s, n)] = n
  BY DEF Place, ToSet

\* _offer_order is a total order of what the server offers.
LEMMA RankOrders ==
    ASSUME site \in Sites, NEW m \in Offers, NEW n \in Offers
    PROVE  /\ Rank(m) \in Nat /\ Rank(n) \in Nat
           /\ Before(m, n) <=> Rank(m) < Rank(n)
           /\ Rank(m) = Rank(n) => m = n
<1> DEFINE a == site.order
           b == site.offers
<1>1. a \in Seq(ToSet(a)) /\ b \in Seq(ToSet(b))
  BY SiteFacts
<1>2. Len(a) \in Nat /\ DOMAIN a = 1 .. Len(a) /\ Len(b) \in Nat /\ DOMAIN b = 1 .. Len(b)
  BY <1>1
<1>3. \A x \in ToSet(b) : Place(b, x) \in 1 .. Len(b) /\ b[Place(b, x)] = x
  BY <1>2, PlaceIs
<1>4. \A x \in ToSet(a) : Place(a, x) \in 1 .. Len(a) /\ a[Place(a, x)] = x
  BY <1>2, PlaceIs
<1>5. \A x \in Offers : Rank(x) = IF x \in ToSet(a) THEN Place(a, x) ELSE Len(a) + Place(b, x)
  BY DEF Rank
<1>6. Before(m, n) <=> IF m \in ToSet(a) THEN n \in ToSet(a) => Place(a, m) < Place(a, n)
                       ELSE n \notin ToSet(a) /\ Place(b, m) < Place(b, n)
  BY DEF Before
<1>7. m \in ToSet(b) /\ n \in ToSet(b)
  BY DEF Offers
<1> HIDE DEF a, b
<1> QED
  BY <1>2, <1>3, <1>4, <1>5, <1>6, <1>7

-----------------------------------------------------------------------------
(* Climbing the ladder.                                                    *)

\* A ladder about to be climbed on: nothing in play, and all that was offered
\* ahead or turned down.
Resting(lad) ==
    /\ lad \in Ladders /\ lad.error = None
    /\ lad.rungs \cup lad.rejected = Offers
    /\ ~lad.found => tried = <<>>
    /\ \A i \in DOMAIN tried, m \in lad.rungs : Rank(tried[i]) < Rank(m)
    /\ ~tls[0] /\ ~site.ztnCleartext => Token \notin lad.rungs

\* What goes out with mechanism n in play.
Goes(n) ==
    /\ mechanism' = n
    /\ tried' = Append(tried, n)
    /\ Sent(0, <<[op |-> "auth", mech |-> n]>>, {n})
    /\ st' = [st EXCEPT ![0] = "AUTH"]

\* _next_credential either puts a rung that was ahead in play, or gives up.
LEMMA NextMoves ==
    ASSUME NEW lad \in Ladders, NextCredential(lad)
    PROVE  \/ \E n \in lad.rungs \cap Supported :
                 /\ Goes(n)
                 /\ \/ ladder' = AtRung(lad, n)
                    \/ ~lad.found /\ ladder' = [Exhausted(lad) EXCEPT !.cur = n, !.rejected = @ \ {n}]
           \/ /\ \E e \in {"ServerError", "NoMechanismError"} :
                    ladder' = [Exhausted(lad) EXCEPT !.error = e]
              /\ st' = [st EXCEPT ![0] = "FAILED"]
              /\ UNCHANGED <<mechanism, tried, up, clear>>
<1>1. CASE \E new \in {AtRung(lad, n) : n \in lad.rungs \cap Supported} \cup Prompted(lad) :
             ladder' = new /\ Goes(new.cur)
  <2>1. PICK new \in {AtRung(lad, n) : n \in lad.rungs \cap Supported} \cup Prompted(lad) :
               ladder' = new /\ Goes(new.cur)
    BY <1>1
  <2>2. ASSUME NEW n \in lad.rungs \cap Supported, new = AtRung(lad, n)
        PROVE  new.cur = n
    BY <2>2 DEF AtRung, Ladders
  <2>3. ASSUME NEW n \in lad.rungs \cap Askable, ~lad.found,
               new = [Exhausted(lad) EXCEPT !.cur = n, !.rejected = @ \ {n}]
        PROVE  new.cur = n /\ n \in Supported
    BY <2>3, BringupAssumption DEF Exhausted, Ladders
  <2> QED
    BY <2>1, <2>2, <2>3 DEF Prompted
<1>2. CASE ~ \E new \in {AtRung(lad, n) : n \in lad.rungs \cap Supported} \cup Prompted(lad) :
                ladder' = new /\ Goes(new.cur)
  BY <1>2 DEF NextCredential, Goes
<1> QED
  BY <1>1, <1>2

\* The three places it is called from.
LEMMA FootIsResting ==
    ASSUME BringupInv, st[0] = "LOGIN"
    PROVE  Resting(Ladder0)
  BY DEF BringupInv, Climbing, AtFoot, Resting, Ladder0, Withheld, Ladders, Offers, None

LEMMA RejectedIsResting ==
    ASSUME BringupInv, st[0] = "AUTH"
    PROVE  /\ Resting(Rejected(ladder.cur))
           /\ Resting([Rejected(ladder.cur) EXCEPT !.cur = None, !.refusal = TRUE])
<1> LadderType /\ Climbing /\ Secure
  BY DEF BringupInv
<1> DEFINE one == Rejected(ladder.cur)
           two == [one EXCEPT !.cur = None, !.refusal = TRUE]
<1>1. ladder \in Ladders /\ ladder.cur \in Offers
  BY DEF LadderType, Climbing
<1>2. /\ one \in Ladders /\ one.rungs = ladder.rungs /\ one.error = ladder.error
      /\ one.rejected = ladder.rejected \cup {ladder.cur} /\ one.found = ladder.found
  BY <1>1 DEF Ladders, Rejected
<1>3. /\ two \in Ladders /\ two.rungs = ladder.rungs /\ two.error = ladder.error
      /\ two.rejected = ladder.rejected \cup {ladder.cur} /\ two.found = ladder.found
  BY <1>1 DEF Ladders, Rejected
<1> HIDE DEF one, two
<1>4. Resting(one)
  BY <1>1, <1>2 DEF Resting, Climbing, Secure
<1>5. Resting(two)
  BY <1>1, <1>3 DEF Resting, Climbing, Secure
<1> QED
  BY <1>4, <1>5 DEF one, two

\* The ladder's part of the invariant, after _next_credential.
TokenHeld ==
    st[0] = "AUTH" /\ ~tls[0] /\ ~site.ztnCleartext => Token \notin ladder.rungs \cup {ladder.cur}

LEMMA ClimbsOn ==
    ASSUME BType, LadderType, OnceInOrder, UNCHANGED <<site, tls>>,
           NEW lad, Resting(lad), NextCredential(lad)
    PROVE  LadderType' /\ Climbing' /\ TokenHeld'
<1> USE LinkFacts
<1>0. lad \in Ladders /\ site \in Sites /\ tried \in Seq(Offers) /\ lad.rungs \subseteq Offers
  BY DEF Resting, LadderType, Ladders, BType
<1>1. ASSUME NEW x PROVE Rank(x)' = Rank(x)
  BY DEF Rank
<1>2. Offers' = Offers /\ Ladders' = Ladders
  BY DEF Offers, Ladders
<1>3. ASSUME NEW n \in lad.rungs \cap Supported, Goes(n),
             \/ ladder' = AtRung(lad, n)
             \/ ~lad.found /\ ladder' = [Exhausted(lad) EXCEPT !.cur = n, !.rejected = @ \ {n}]
      PROVE  LadderType' /\ Climbing' /\ TokenHeld'
  <2>1. tried' = Append(tried, n) /\ mechanism' = n /\ st'[0] = "AUTH" /\ n \in Offers
    BY <1>0, <1>3 DEF Goes, BType
  <2>2. /\ tried' \in Seq(Offers) /\ Len(tried') = Len(tried) + 1 /\ tried'[Len(tried) + 1] = n
        /\ \A i \in 1 .. Len(tried) : tried'[i] = tried[i]
    BY <1>0, <2>1
  <2>3. \A i \in DOMAIN tried, m \in lad.rungs : Rank(tried[i]) < Rank(m)
    BY DEF Resting
  <2>4. \A i, j \in DOMAIN tried' : i < j => Rank(tried'[i]) < Rank(tried'[j])
    <3> SUFFICES ASSUME NEW i \in DOMAIN tried', NEW j \in DOMAIN tried', i < j
                 PROVE  Rank(tried'[i]) < Rank(tried'[j])
      OBVIOUS
    <3>1. i \in DOMAIN tried /\ tried'[i] = tried[i]
      BY <1>0, <2>1, <2>2
    <3>2. CASE j = Len(tried) + 1
      BY <2>2, <2>3, <3>1, <3>2, <1>3
    <3>3. CASE j \in DOMAIN tried
      BY <1>0, <2>2, <3>1, <3>3 DEF OnceInOrder
    <3> QED
      BY <1>0, <2>1, <2>2, <3>2, <3>3
  <2>5. OnceInOrder'
    BY <1>1, <2>4 DEF OnceInOrder
  <2>6. /\ ladder' \in Ladders /\ ladder'.cur = n /\ ladder'.found /\ ladder'.error = None
        /\ ladder'.rungs \subseteq {m \in lad.rungs : Before(n, m)}
        /\ ladder'.rungs \cup ladder'.rejected \cup {n} = Offers
    <3>1. \A m \in lad.rungs : m = n \/ Before(n, m) \/ Before(m, n)
      BY <1>0, <2>1, RankOrders
    <3>2. lad.rungs \cup lad.rejected = Offers /\ lad.error = None
      BY DEF Resting
    <3>3. CASE ladder' = AtRung(lad, n)
      BY <1>0, <2>1, <3>1, <3>2, <3>3, ZenonT(60) DEF AtRung, Ladders
    <3>4. CASE ladder' = [Exhausted(lad) EXCEPT !.cur = n, !.rejected = @ \ {n}]
      BY <1>0, <2>1, <3>2, <3>4, ZenonT(60) DEF Exhausted, Ladders
    <3> QED
      BY <1>3, <3>3, <3>4
  <2>7. \A i \in DOMAIN tried', m \in ladder'.rungs : Rank(tried'[i]) < Rank(m)
    <3> SUFFICES ASSUME NEW i \in DOMAIN tried', NEW m \in ladder'.rungs
                 PROVE  Rank(tried'[i]) < Rank(m)
      OBVIOUS
    <3>1. m \in lad.rungs /\ Before(n, m) /\ m \in Offers
      BY <1>0, <2>6
    <3>2. Rank(n) < Rank(m)
      BY <1>0, <2>1, <3>1, RankOrders
    <3>3. CASE i = Len(tried) + 1
      BY <2>2, <3>2, <3>3
    <3>4. CASE i \in DOMAIN tried
      BY <1>0, <2>2, <2>3, <3>1, <3>4
    <3> QED
      BY <1>0, <2>1, <2>2, <3>3, <3>4
  <2>8. LadderType'
    BY <1>2, <2>2, <2>6 DEF LadderType
  <2>9. Climbing'
    BY <1>1, <1>2, <1>3, <2>1, <2>5, <2>6, <2>7 DEF Climbing, AtFoot, FailureExplained, None
  <2>10. TokenHeld'
    BY <1>3, <2>6 DEF TokenHeld, Resting
  <2> QED
    BY <2>8, <2>9, <2>10
<1>4. ASSUME NEW e \in {"ServerError", "NoMechanismError"},
             ladder' = [Exhausted(lad) EXCEPT !.error = e],
             st' = [st EXCEPT ![0] = "FAILED"], UNCHANGED tried
      PROVE  LadderType' /\ Climbing' /\ TokenHeld'
  <2>1. ladder' \in Ladders /\ ladder'.rejected = Offers
    BY <1>0, <1>4 DEF Exhausted, Ladders, Resting
  <2>2. st'[0] = "FAILED"
    BY <1>4 DEF BType
  <2>3. OnceInOrder'
    BY <1>1, <1>4 DEF OnceInOrder
  <2> QED
    BY <1>0, <1>2, <1>4, <2>1, <2>2, <2>3
       DEF LadderType, Climbing, AtFoot, FailureExplained, TokenHeld, Offers
<1> QED
  BY <1>0, <1>3, <1>4, NextMoves

\* A step that leaves the ladder alone and link 0 where its ladder was, at
\* its foot, on it or off it.
LEMMA LadderStays ==
    ASSUME BringupInv, UNCHANGED <<site, ladder, mechanism, tried>>,
           AtFoot' => AtFoot, st'[0] = "AUTH" => st[0] = "AUTH"
    PROVE  LadderType' /\ Climbing'
<1>1. ASSUME NEW x PROVE Rank(x)' = Rank(x)
  BY DEF Rank
<1>2. Offers' = Offers /\ Ladders' = Ladders
  BY DEF Offers, Ladders
<1>3. LadderType'
  BY <1>2 DEF BringupInv, LadderType
<1>4. OnceInOrder'
  BY <1>1 DEF BringupInv, Climbing, OnceInOrder
<1>5. FailureExplained'
  BY DEF BringupInv, Climbing, FailureExplained
<1>6. st'[0] = "AUTH" => \A i \in DOMAIN tried, m \in ladder.rungs : Rank(tried[i])' < Rank(m)'
  BY <1>1 DEF BringupInv, Climbing
<1> QED
  BY <1>2, <1>3, <1>4, <1>5, <1>6 DEF BringupInv, Climbing

LEMMA LadderStep == BringupInv /\ [Next]_vars => LadderType' /\ Climbing' /\ TokenHeld'
<1> SUFFICES ASSUME BringupInv, [Next]_vars PROVE LadderType' /\ Climbing' /\ TokenHeld'
  OBVIOUS
<1> BType /\ Standing /\ Talks /\ LadderType /\ OnceInOrder /\ TokenHeld
  BY DEF BringupInv, Climbing, Secure, TokenHeld
<1> USE LinkFacts
<1>a. ASSUME UNCHANGED <<site, ladder, mechanism, tried>>, AtFoot' => AtFoot,
             st'[0] = "AUTH" => st[0] = "AUTH",
             st'[0] = "AUTH" => tls'[0] = tls[0]
      PROVE  LadderType' /\ Climbing' /\ TokenHeld'
  BY <1>a, LadderStays DEF TokenHeld
<1> USE DEF ladderVars, AtFoot
<1>0. ASSUME UNCHANGED vars PROVE UNCHANGED <<site, ladder, mechanism, tried, st, tls>>
  BY <1>0 DEF vars
<1>1. ASSUME NEW l \in Links, Start(l) PROVE LadderType' /\ Climbing' /\ TokenHeld'
  <2>1. UNCHANGED <<site, ladder, mechanism, tried, tls>> /\ st' = [st EXCEPT ![l] = "HANDSHAKE"]
    BY <1>1 DEF Start
  <2>2. l = 0 => st[0] = "NEW"
    BY <1>1 DEF Start, Talks, Talk
  <2> QED
    BY <1>a, <2>1, <2>2 DEF BType
<1>2. ASSUME NEW l \in Links, Handshaken(l) \/ BecomeReady(l) \/ BringupError(l) \/ Eof(l)
      PROVE  LadderType' /\ Climbing' /\ TokenHeld'
  <2>1. UNCHANGED <<site, ladder, mechanism, tried, tls>>
    BY <1>2 DEF Handshaken, BecomeReady, BringupError, Eof
  <2>2. \E s \in States : /\ st' = [st EXCEPT ![l] = s]
                          /\ s \in {"READY", "FAILED", "CLOSED"} \/ (s = "PROTOCOL" /\ st[l] = "HANDSHAKE")
    BY <1>2 DEF Handshaken, BecomeReady, BringupError, Eof, Reply, States
  <2> QED
    BY <1>a, <2>1, <2>2 DEF BType
<1>3. ASSUME NEW l \in Links, Negotiated(l) \/ Upgrade(l)
      PROVE  LadderType' /\ Climbing' /\ TokenHeld'
  <2>1. UNCHANGED <<site, ladder, mechanism, tried>>
    BY <1>3 DEF Negotiated, Upgrade
  <2>2. /\ st[l] \in {"PROTOCOL", "TLS"}
        /\ \E s \in {"TLS", "FAILED", "LOGIN", "BIND"} : st' = [st EXCEPT ![l] = s]
        /\ l # 0 => tls'[0] = tls[0]
    BY <1>3 DEF Negotiated, Upgrade, AfterProtocol, BeginLogin, Reply, BType
  <2> QED
    BY <1>a, <2>1, <2>2 DEF BType
<1>4. ASSUME LoggedIn PROVE LadderType' /\ Climbing' /\ TokenHeld'
  <2>1. st[0] = "LOGIN" /\ UNCHANGED <<site, tls>>
    BY <1>4 DEF LoggedIn, Reply
  <2>2. CASE NextCredential(Ladder0)
    BY <2>1, <2>2, FootIsResting, ClimbsOn
  <2>3. CASE st' = [st EXCEPT ![0] = "READY"] /\ UNCHANGED ladderVars
    BY <1>a, <2>1, <2>3 DEF BType
  <2> QED
    BY <1>4, <2>2, <2>3 DEF LoggedIn
<1>5. ASSUME AuthStep PROVE LadderType' /\ Climbing' /\ TokenHeld'
  <2>1. st[0] = "AUTH" /\ UNCHANGED <<site, tls>>
    BY <1>5 DEF AuthStep, Reply
  <2>2. CASE NextCredential(Rejected(ladder.cur))
    BY <2>1, <2>2, RejectedIsResting, ClimbsOn
  <2>3. CASE UNCHANGED <<st, ladderVars>>
    BY <1>a, <2>1, <2>3
  <2> QED
    BY <1>5, <2>2, <2>3 DEF AuthStep
<1>6. ASSUME AuthRefused PROVE LadderType' /\ Climbing' /\ TokenHeld'
  <2>1. st[0] = "AUTH" /\ UNCHANGED <<site, tls>>
    BY <1>6 DEF AuthRefused, Reply
  <2> QED
    BY <1>6, <2>1, RejectedIsResting, ClimbsOn DEF AuthRefused
<1>7. ASSUME NEW l \in Links, Raise(l) \/ AdoptPath(l) \/ Answer(l) \/ Hangup(l)
      PROVE  UNCHANGED <<site, ladder, mechanism, tried, st, tls>>
  BY <1>7 DEF Raise, AdoptPath, Answer, Hangup
<1>8. ASSUME Connected \/ CloseLinks \/ \E p \in PathIds : ClosePath(p)
      PROVE  UNCHANGED <<site, ladder, mechanism, tried, st, tls>>
  BY <1>8 DEF Connected, CloseLinks, ClosePath
<1>9. ASSUME Close PROVE LadderType' /\ Climbing' /\ TokenHeld'
  BY <1>a, <1>9 DEF Close, BType
<1>10. ASSUME UNCHANGED <<site, ladder, mechanism, tried, st, tls>>
       PROVE  LadderType' /\ Climbing' /\ TokenHeld'
  BY <1>a, <1>10
<1> QED
  BY <1>0, <1>1, <1>2, <1>3, <1>4, <1>5, <1>6, <1>7, <1>8, <1>9, <1>10, StepKinds DEF Machine

-----------------------------------------------------------------------------
(* What goes out in the clear.                                             *)

\* Words leave link l, which keeps or gains its encryption.
LEMMA SaidSafely ==
    ASSUME BringupInv, UNCHANGED site, NEW l \in Links, NEW s \in States, NEW kinds \in SUBSET Words,
           st' = [st EXCEPT ![l] = s],
           tls' = tls \/ (tls' = [tls EXCEPT ![l] = TRUE] /\ (l = 0 => sess = "opening")),
           clear' = (IF tls'[l] THEN clear ELSE [clear EXCEPT ![l] = @ \cup kinds]),
           s # "NEW",
           s \in {"LOGIN", "AUTH", "BIND", "READY"} => tls'[l] \/ ~Tight(l),
           tls'[l] \/ ~Tight(l) \/ kinds \subseteq {"handshake", "protocol"},
           l = 0 /\ Token \in kinds => tls'[0] \/ site.ztnCleartext,
           TokenHeld'
    PROVE  Secure'
<1> USE LinkFacts
<1> BType /\ Standing /\ Talks /\ Secure
  BY DEF BringupInv
<1>0. st \in [Links -> States] /\ tls \in [Links -> BOOLEAN] /\ clear \in [Links -> SUBSET Words]
  BY DEF BType
<1>1. \A k \in Links : k # l => clear'[k] = clear[k] /\ st'[k] = st[k] /\ tls'[k] = tls[k]
  BY <1>0
<1>2. clear'[l] = (IF tls'[l] THEN clear[l] ELSE clear[l] \cup kinds) /\ st'[l] = s
  BY <1>0
<1>3. tls[l] => tls'[l]
  BY <1>0
<1>4. \A k \in Links : Tight(k)' => Tight(k) \/ st[k] = "NEW"
  <2> SUFFICES ASSUME NEW k \in Links, Tight(k)', st[k] # "NEW" PROVE Tight(k)
    OBVIOUS
  <2>1. CASE k = 0
    BY <2>1 DEF Tight, WantTls
  <2>2. CASE k # 0 /\ tls'[0] = tls[0]
    BY <2>2 DEF Tight, WantTls
  <2>3. CASE k # 0 /\ tls'[0] # tls[0]
    <3>1. sess = "opening"
      BY <1>0, <2>3
    <3> QED
      BY <2>3, <3>1 DEF Standing, Talks, Talk, Links
  <2> QED
    BY <2>1, <2>2, <2>3
<1>5. Tight(l)' => Tight(l)
  BY <1>0, <1>1 DEF Tight, WantTls
<1>6. ASSUME NEW k \in Links, Tight(k)', st'[k] \in {"LOGIN", "AUTH", "BIND", "READY"} PROVE tls'[k]
  <2>1. CASE k = l
    BY <1>2, <1>5, <1>6, <2>1
  <2>2. CASE k # l
    BY <1>1, <1>4, <1>6, <2>2 DEF Secure
  <2> QED
    BY <2>1, <2>2
<1>7. ASSUME NEW k \in Links, Tight(k)' PROVE clear'[k] \subseteq {"handshake", "protocol"}
  <2>1. CASE k = l
    BY <1>2, <1>5, <1>7, <2>1 DEF Secure
  <2>2. CASE k # l
    BY <1>1, <1>4, <1>7, <2>2 DEF Secure
  <2> QED
    BY <2>1, <2>2
<1>8. ASSUME NEW k \in Links, st'[k] = "NEW" PROVE clear'[k] = {}
  BY <1>1, <1>2, <1>8 DEF Secure
<1>9. Token \in clear'[0] => site'.ztnCleartext
  BY <1>1, <1>2 DEF Secure
<1> QED
  BY <1>6, <1>7, <1>8, <1>9 DEF Secure, TokenHeld

\* Nothing leaves any link.
LEMMA NothingSaid ==
    ASSUME BringupInv, UNCHANGED <<site, tls, clear>>, TokenHeld',
           \A k \in Links : st'[k] # st[k] =>
              \/ st'[k] \in {"PROTOCOL", "TLS", "FAILED", "CLOSED"}
              \/ st'[k] = "READY" /\ st[k] \in {"LOGIN", "AUTH", "BIND"}
    PROVE  Secure'
<1> Secure /\ TokenHeld'
  BY DEF BringupInv
<1>1. \A k \in Links : Tight(k)' <=> Tight(k)
  BY DEF Tight, WantTls
<1> QED
  BY <1>1 DEF Secure, TokenHeld

LEMMA SecureStep == BringupInv /\ [Next]_vars => Secure'
<1> SUFFICES ASSUME BringupInv, [Next]_vars PROVE Secure'
  OBVIOUS
<1> BType /\ Standing /\ Talks /\ Climbing /\ LadderType /\ Secure
  BY DEF BringupInv
<1> TokenHeld'
  BY LadderStep
<1> USE LinkFacts
<1>w. {"handshake", "protocol"} \subseteq Words /\ {"login", "bind"} \subseteq Words
  BY DEF Words
<1>0. ASSUME UNCHANGED vars PROVE Secure'
  BY <1>0, NothingSaid DEF vars
<1>1. ASSUME NEW l \in Links, Start(l) PROVE Secure'
  <2>1. /\ UNCHANGED <<site, tls>> /\ st' = [st EXCEPT ![l] = "HANDSHAKE"]
        /\ clear' = IF tls'[l] THEN clear ELSE [clear EXCEPT ![l] = @ \cup {"handshake", "protocol"}]
    BY <1>1 DEF Start, Sent
  <2>2. "HANDSHAKE" \in States
    BY DEF States
  <2>3. Token \notin {"handshake", "protocol"}
    BY BringupAssumption
  <2> QED
    BY <1>w, <2>1, <2>2, <2>3, SaidSafely
<1>2. ASSUME NEW l \in Links, Handshaken(l) \/ BringupError(l) \/ Eof(l) PROVE Secure'
  <2>1. UNCHANGED <<site, tls, clear>>
    BY <1>2 DEF Handshaken, BringupError, Eof
  <2>2. \E s \in {"PROTOCOL", "FAILED", "CLOSED"} : st' = [st EXCEPT ![l] = s]
    BY <1>2 DEF Handshaken, BringupError, Eof
  <2> QED
    BY <2>1, <2>2, NothingSaid DEF BType
<1>3. ASSUME NEW l \in Links, BecomeReady(l) PROVE Secure'
  <2>1. UNCHANGED <<site, tls, clear>> /\ st[l] \in {"AUTH", "BIND"}
    BY <1>3 DEF BecomeReady, Reply
  <2>2. st' = [st EXCEPT ![l] = "READY"]
    BY <1>3 DEF BecomeReady
  <2> QED
    BY <2>1, <2>2, NothingSaid DEF BType
<1>4. ASSUME NEW l \in Links, Negotiated(l) PROVE Secure'
  <2>1. UNCHANGED <<site, tls>>
    BY <1>4 DEF Negotiated, AfterProtocol
  <2>2. CASE Tight(l)
    <3>1. UNCHANGED clear /\ \E s \in {"TLS", "FAILED"} : st' = [st EXCEPT ![l] = s]
      BY <1>4, <2>2 DEF Negotiated, AfterProtocol, Tight
    <3> QED
      BY <2>1, <3>1, NothingSaid DEF BType
  <2>3. CASE ~Tight(l)
    <3>1. BeginLogin(l)
      BY <1>4, <2>3 DEF Negotiated, AfterProtocol, Tight
    <3>2. PICK s \in {"LOGIN", "BIND"}, kinds \in {{"login"}, {"bind"}} :
             /\ st' = [st EXCEPT ![l] = s] /\ (l = 0 => kinds = {"login"})
             /\ clear' = IF tls'[l] THEN clear ELSE [clear EXCEPT ![l] = @ \cup kinds]
      BY <3>1 DEF BeginLogin, Sent
    <3>3. s \in States /\ s # "NEW"
      BY DEF States
    <3>4. Token # "login"
      BY BringupAssumption
    <3> QED
      BY <1>w, <2>1, <2>3, <3>2, <3>3, <3>4, SaidSafely
  <2> QED
    BY <2>2, <2>3
<1>5. ASSUME NEW l \in Links, Upgrade(l) PROVE Secure'
  <2>1. UNCHANGED site /\ tls' = [tls EXCEPT ![l] = TRUE] /\ tls'[l]
    BY <1>5 DEF Upgrade, BType
  <2>2. \E s \in {"LOGIN", "BIND"} : st' = [st EXCEPT ![l] = s]
    BY <1>5 DEF Upgrade, BeginLogin
  <2>3. UNCHANGED clear
    BY <1>5, <2>1 DEF Upgrade, BeginLogin, Sent
  <2>4. l = 0 => sess = "opening"
    BY <1>5 DEF Upgrade, Standing, BType
  <2>5. {"LOGIN", "BIND"} \subseteq States /\ {} \subseteq Words
    BY DEF States
  <2> QED
    BY <2>1, <2>2, <2>3, <2>4, <2>5, SaidSafely
<1>6. ASSUME NEW n \in Supported, st[0] = "AUTH" \/ st[0] = "LOGIN", UNCHANGED <<site, tls>>,
             st' = [st EXCEPT ![0] = "AUTH"],
             clear' = (IF tls'[0] THEN clear ELSE [clear EXCEPT ![0] = @ \cup {n}]),
             n = Token => tls[0] \/ site.ztnCleartext
      PROVE  Secure'
  <2>1. Tight(0) => tls[0]
    BY <1>6 DEF Secure
  <2>2. "AUTH" \in States /\ {n} \subseteq Words
    BY DEF States, Words
  <2> QED
    BY <1>6, <2>1, <2>2, SaidSafely, ZenonT(60)
<1>7. ASSUME NEW lad, Resting(lad), NextCredential(lad), UNCHANGED <<site, tls>>,
             st[0] = "AUTH" \/ st[0] = "LOGIN"
      PROVE  Secure'
  <2>1. lad \in Ladders
    BY <1>7 DEF Resting
  <2>2. ASSUME NEW n \in lad.rungs \cap Supported, Goes(n) PROVE Secure'
    BY <1>6, <1>7, <2>2 DEF Goes, Sent, Resting, BType
  <2>3. ASSUME st' = [st EXCEPT ![0] = "FAILED"], UNCHANGED clear PROVE Secure'
    BY <1>7, <2>3, NothingSaid DEF BType
  <2> QED
    BY <1>7, <2>1, <2>2, <2>3, NextMoves
<1>8. ASSUME LoggedIn PROVE Secure'
  <2>1. st[0] = "LOGIN" /\ UNCHANGED <<site, tls>>
    BY <1>8 DEF LoggedIn, Reply
  <2>2. CASE NextCredential(Ladder0)
    BY <1>7, <2>1, <2>2, FootIsResting
  <2>3. CASE st' = [st EXCEPT ![0] = "READY"] /\ UNCHANGED clear
    BY <2>1, <2>3, NothingSaid DEF BType
  <2> QED
    BY <1>8, <2>2, <2>3 DEF LoggedIn
<1>9. ASSUME AuthStep PROVE Secure'
  <2>1. st[0] = "AUTH" /\ UNCHANGED <<site, tls>>
    BY <1>9 DEF AuthStep, Reply
  <2>2. CASE NextCredential(Rejected(ladder.cur))
    BY <1>7, <2>1, <2>2, RejectedIsResting
  <2>3. CASE Sent(0, <<[op |-> "auth", mech |-> ladder.cur]>>, {ladder.cur}) /\ UNCHANGED st
    <3>1. st' = [st EXCEPT ![0] = "AUTH"]
      BY <2>1, <2>3 DEF BType
    <3>2. ladder.cur \in Supported /\ (ladder.cur = Token => tls[0] \/ site.ztnCleartext)
      BY <2>1 DEF Climbing, Secure, BType
    <3> QED
      BY <1>6, <2>1, <2>3, <3>1, <3>2 DEF Sent
  <2> QED
    BY <1>9, <2>2, <2>3 DEF AuthStep
<1>10. ASSUME AuthRefused PROVE Secure'
  <2>1. st[0] = "AUTH" /\ UNCHANGED <<site, tls>>
    BY <1>10 DEF AuthRefused, Reply
  <2> QED
    BY <1>7, <1>10, <2>1, RejectedIsResting DEF AuthRefused
<1>11. ASSUME NEW l \in Links, Raise(l) \/ AdoptPath(l) \/ Answer(l) \/ Hangup(l)
       PROVE  UNCHANGED <<site, tls, clear, st>>
  BY <1>11 DEF Raise, AdoptPath, Answer, Hangup
<1>12. ASSUME Connected \/ CloseLinks \/ \E p \in PathIds : ClosePath(p)
       PROVE  UNCHANGED <<site, tls, clear, st>>
  BY <1>12 DEF Connected, CloseLinks, ClosePath
<1>13. ASSUME Close PROVE Secure'
  BY <1>13, NothingSaid DEF Close, BType
<1>14. ASSUME UNCHANGED <<site, tls, clear, st>> PROVE Secure'
  BY <1>14, NothingSaid
<1> QED
  BY <1>0, <1>1, <1>2, <1>3, <1>4, <1>5, <1>8, <1>9, <1>10, <1>11, <1>12, <1>13, <1>14,
     StepKinds DEF Machine

-----------------------------------------------------------------------------
(* What is under way on each link.                                         *)

LEMMA Joined ==
    ASSUME NEW q, NEW r
    PROVE  <<>> \o <<q>> = <<q>> /\ <<>> \o <<q, r>> = <<q, r>>
  OBVIOUS

LEMMA Taken ==
    ASSUME NEW q, NEW r
    PROVE  /\ Head(<<q>>) = q /\ Tail(<<q>>) = <<>> /\ <<q>> # <<>>
           /\ Head(<<q, r>>) = q /\ Tail(<<q, r>>) = <<r>> /\ <<q, r>> # <<>>
  OBVIOUS

LEMMA Appended ==
    ASSUME NEW q, NEW r
    PROVE  Append(<<>>, q) = <<q>> /\ Append(<<r>>, q) = <<r, q>>
<1> DEFINE S == {q, r}
           a == Append(<<>>, q)
           b == Append(<<r>>, q)
<1>1. <<>> \in Seq(S) /\ <<r>> \in Seq(S) /\ <<q>> \in Seq(S) /\ <<r, q>> \in Seq(S) /\ q \in S
  OBVIOUS
<1>2. a \in Seq(S) /\ Len(a) = 1 /\ a[1] = q
  BY <1>1, AppendProperties
<1>3. b \in Seq(S) /\ Len(b) = 2 /\ b[1] = r /\ b[2] = q
  BY <1>1, AppendProperties
<1> HIDE DEF a, b, S
<1>4. a = <<q>>
  BY <1>1, <1>2, SeqEqual
<1>5. b = <<r, q>>
  BY <1>1, <1>3, SeqEqual
<1> QED
  BY <1>4, <1>5 DEF a, b

\* A step on link l is none of another link's business.
LEMMA TalkElsewhere ==
    ASSUME Talks, NEW l \in Links, Talk(l)',
           \A k \in Links : k # l => /\ st'[k] = st[k] /\ sock'[k] = sock[k]
                                     /\ up'[k] = up[k] /\ down'[k] = down[k],
           l # 0 => UNCHANGED mechanism
    PROVE  Talks'
<1> SUFFICES ASSUME NEW k \in Links PROVE Talk(k)'
  BY DEF Talks
<1>1. CASE k = l
  BY <1>1
<1>2. CASE k # l
  BY <1>2 DEF Talks, Talk, Waits
<1> QED
  BY <1>1, <1>2

\* The reply that is read leaves nothing under way.
LEMMA ReadReply ==
    ASSUME BType, Talks, NEW l \in Links, NEW s \in {"PROTOCOL", "LOGIN", "BIND", "AUTH"},
           NEW S, Reply(l, s, S)
    PROVE  /\ st[l] = s /\ sock[l] = "open" /\ up[l] = <<>>
           /\ down' = [down EXCEPT ![l] = <<>>]
           /\ \E x \in Statuses \cap S : down[l] = <<[status |-> x]>>
<1>1. st[l] = s /\ sock[l] = "open" /\ down[l] # <<>> /\ down' = [down EXCEPT ![l] = Tail(down[l])]
  BY DEF Reply, BType
<1>2. up[l] = <<>> /\ \E x \in Statuses : down[l] = <<[status |-> x]>>
  BY <1>1 DEF Talks, Talk, Waits
<1>3. PICK x \in Statuses : down[l] = <<[status |-> x]>>
  BY <1>2
<1>4. Tail(down[l]) = <<>> /\ Head(down[l]).status = x
  BY <1>3, Taken
<1> QED
  BY <1>1, <1>2, <1>3, <1>4 DEF Reply

LEMMA TalkStep == BringupInv /\ [Next]_vars => Talks'
<1> SUFFICES ASSUME BringupInv, [Next]_vars PROVE Talks'
  OBVIOUS
<1> BType /\ Standing /\ Filed /\ Talks /\ Climbing /\ LadderType
  BY DEF BringupInv
<1> USE LinkFacts
<1> USE DEF ladderVars
<1>0. ASSUME UNCHANGED vars PROVE Talks'
  BY <1>0 DEF vars, Talks, Talk, Waits
<1>1. ASSUME NEW l \in Links, Start(l) PROVE Talks'
  <2>1. up[l] = <<>> /\ down[l] = <<>>
    BY <1>1 DEF Start, Talks, Talk
  <2>2. /\ up' = [up EXCEPT ![l] = <<[op |-> "handshake"], [op |-> "protocol"]>>]
        /\ sock' = [sock EXCEPT ![l] = "open"] /\ st' = [st EXCEPT ![l] = "HANDSHAKE"]
        /\ UNCHANGED <<down, mechanism>>
    BY <1>1, <2>1, Joined DEF Start, Sent, BType
  <2>3. Talk(l)'
    BY <2>1, <2>2 DEF Talk, BType
  <2> QED
    BY <2>2, <2>3, TalkElsewhere DEF BType
<1>2. ASSUME NEW l \in Links, Handshaken(l) PROVE Talks'
  <2>1. /\ st[l] = "HANDSHAKE" /\ sock[l] = "open" /\ down[l] # <<>>
        /\ down' = [down EXCEPT ![l] = Tail(down[l])]
        /\ st' = [st EXCEPT ![l] = "PROTOCOL"] /\ UNCHANGED <<up, sock, mechanism>>
    BY <1>2 DEF Handshaken, Reply, BType
  <2>2. Waits(l, [op |-> "protocol"])'
    <3>1. CASE up[l] = <<[op |-> "protocol"]>> /\ down[l] = <<[status |-> "ok"]>>
      BY <2>1, <3>1, Taken DEF Waits, BType
    <3>2. CASE up[l] = <<>> /\ \E s \in Statuses : down[l] = <<[status |-> "ok"], [status |-> s]>>
      BY <2>1, <3>2, Taken DEF Waits, BType
    <3> QED
      BY <2>1, <3>1, <3>2 DEF Talks, Talk
  <2>3. Talk(l)'
    BY <2>1, <2>2 DEF Talk, BType
  <2> QED
    BY <2>1, <2>3, TalkElsewhere DEF BType
<1>3. ASSUME NEW l \in Links, UNCHANGED <<sock, up>>, NEW s \in {"FAILED", "CLOSED"},
             sock[l] # "none", l # 0 => UNCHANGED mechanism,
             st' = [st EXCEPT ![l] = s],
             \A k \in Links : k # l => down'[k] = down[k]
      PROVE  Talks'
  <2>1. Talk(l)'
    BY <1>3 DEF Talk, BType
  <2> QED
    BY <1>3, <2>1, TalkElsewhere DEF BType
<1>4. ASSUME NEW l \in Links, BringupError(l) \/ Eof(l) PROVE Talks'
  <2>1. UNCHANGED <<sock, up, mechanism>> /\ sock[l] = "open"
    BY <1>4 DEF BringupError, Eof, Reply
  <2>2. \E s \in {"FAILED", "CLOSED"} : st' = [st EXCEPT ![l] = s]
    BY <1>4 DEF BringupError, Eof
  <2>3. \A k \in Links : k # l => down'[k] = down[k]
    BY <1>4 DEF BringupError, Eof, Reply, BType
  <2> QED
    BY <1>3, <2>1, <2>2, <2>3
<1>5. ASSUME NEW l \in Links, UNCHANGED <<sock, up, mechanism>>, NEW s \in {"TLS", "READY"},
             sock[l] # "none", st' = [st EXCEPT ![l] = s], up[l] = <<>>,
             down' = [down EXCEPT ![l] = <<>>]
      PROVE  Talks'
  <2>1. Talk(l)'
    BY <1>5 DEF Talk, BType
  <2> QED
    BY <1>5, <2>1, TalkElsewhere DEF BType
<1>6. ASSUME NEW l \in Links, BecomeReady(l) PROVE Talks'
  <2>1. UNCHANGED <<sock, up, mechanism>> /\ st' = [st EXCEPT ![l] = "READY"]
    BY <1>6 DEF BecomeReady
  <2>2. up[l] = <<>> /\ down' = [down EXCEPT ![l] = <<>>] /\ sock[l] = "open"
    BY <1>6, ReadReply DEF BecomeReady
  <2> QED
    BY <1>5, <2>1, <2>2
<1>7. ASSUME NEW l \in Links, UNCHANGED sock, sock[l] = "open", up[l] = <<>>,
             down' = [down EXCEPT ![l] = <<>>], UNCHANGED mechanism, BeginLogin(l)
      PROVE  Talks'
  <2>1. /\ st' = [st EXCEPT ![l] = IF l = 0 THEN "LOGIN" ELSE "BIND"]
        /\ up' = [up EXCEPT ![l] = <<[op |-> IF l = 0 THEN "login" ELSE "bind"]>>]
    BY <1>7, Joined DEF BeginLogin, Sent, BType
  <2>2. Talk(l)'
    BY <1>7, <2>1 DEF Talk, Waits, BType
  <2> QED
    BY <1>7, <2>1, <2>2, TalkElsewhere DEF BType
<1>8. ASSUME NEW l \in Links, Negotiated(l) PROVE Talks'
  <2>1. UNCHANGED <<sock, mechanism>>
    BY <1>8 DEF Negotiated
  <2>2. up[l] = <<>> /\ down' = [down EXCEPT ![l] = <<>>] /\ sock[l] = "open"
    BY <1>8, ReadReply DEF Negotiated
  <2>3. CASE BeginLogin(l)
    BY <1>7, <2>1, <2>2, <2>3
  <2>4. CASE UNCHANGED up /\ st' = [st EXCEPT ![l] = "TLS"]
    BY <1>5, <2>1, <2>2, <2>4
  <2>5. CASE UNCHANGED up /\ st' = [st EXCEPT ![l] = "FAILED"]
    BY <1>3, <2>1, <2>2, <2>5 DEF BType
  <2> QED
    BY <1>8, <2>3, <2>4, <2>5 DEF Negotiated, AfterProtocol
<1>9. ASSUME NEW l \in Links, Upgrade(l) PROVE Talks'
  <2>1. UNCHANGED <<sock, mechanism, down>> /\ sock[l] = "open" /\ BeginLogin(l) /\ st[l] = "TLS"
    BY <1>9 DEF Upgrade
  <2>2. up[l] = <<>> /\ down' = [down EXCEPT ![l] = <<>>]
    BY <2>1 DEF Talks, Talk, BType
  <2> QED
    BY <1>7, <2>1, <2>2
<1>10. ASSUME NEW n \in Supported, UNCHANGED sock, sock[0] = "open", up[0] = <<>>,
              down' = [down EXCEPT ![0] = <<>>], mechanism' = n,
              st' = [st EXCEPT ![0] = "AUTH"],
              up' = [up EXCEPT ![0] = @ \o <<[op |-> "auth", mech |-> n]>>]
       PROVE  Talks'
  <2>1. up' = [up EXCEPT ![0] = <<[op |-> "auth", mech |-> n]>>]
    BY <1>10, Joined DEF BType
  <2>2. Talk(0)'
    BY <1>10, <2>1 DEF Talk, Waits, BType
  <2> QED
    BY <1>10, <2>1, <2>2, TalkElsewhere DEF BType
<1>11. ASSUME NEW lad, Resting(lad), NextCredential(lad), UNCHANGED sock, sock[0] = "open",
              up[0] = <<>>, down' = [down EXCEPT ![0] = <<>>]
       PROVE  Talks'
  <2>1. lad \in Ladders
    BY <1>11 DEF Resting
  <2>2. ASSUME NEW n \in lad.rungs \cap Supported, Goes(n) PROVE Talks'
    BY <1>10, <1>11, <2>2 DEF Goes, Sent
  <2>3. ASSUME st' = [st EXCEPT ![0] = "FAILED"], UNCHANGED up PROVE Talks'
    BY <1>3, <1>11, <2>3 DEF BType
  <2> QED
    BY <1>11, <2>1, <2>2, <2>3, NextMoves
<1>12. ASSUME LoggedIn PROVE Talks'
  <2>1. /\ UNCHANGED sock /\ st[0] = "LOGIN" /\ up[0] = <<>> /\ down' = [down EXCEPT ![0] = <<>>]
        /\ sock[0] = "open"
    BY <1>12, ReadReply DEF LoggedIn
  <2>2. CASE NextCredential(Ladder0)
    BY <1>11, <2>1, <2>2, FootIsResting
  <2>3. CASE st' = [st EXCEPT ![0] = "READY"] /\ UNCHANGED <<up, mechanism>>
    BY <1>5, <2>1, <2>3
  <2> QED
    BY <1>12, <2>2, <2>3 DEF LoggedIn
<1>13. ASSUME AuthStep PROVE Talks'
  <2>1. /\ UNCHANGED sock /\ st[0] = "AUTH" /\ up[0] = <<>> /\ down' = [down EXCEPT ![0] = <<>>]
        /\ sock[0] = "open"
    BY <1>13, ReadReply DEF AuthStep
  <2>2. CASE NextCredential(Rejected(ladder.cur))
    BY <1>11, <2>1, <2>2, RejectedIsResting
  <2>3. CASE /\ Sent(0, <<[op |-> "auth", mech |-> ladder.cur]>>, {ladder.cur})
             /\ UNCHANGED <<st, mechanism>>
    <3>1. st' = [st EXCEPT ![0] = "AUTH"] /\ ladder.cur \in Supported /\ mechanism' = ladder.cur
      BY <2>1, <2>3 DEF BType, Climbing
    <3> QED
      BY <1>10, <2>1, <2>3, <3>1 DEF Sent
  <2> QED
    BY <1>13, <2>2, <2>3 DEF AuthStep
<1>14. ASSUME AuthRefused PROVE Talks'
  <2>1. /\ UNCHANGED sock /\ st[0] = "AUTH" /\ up[0] = <<>> /\ down' = [down EXCEPT ![0] = <<>>]
        /\ sock[0] = "open"
    BY <1>14, ReadReply DEF AuthRefused
  <2> QED
    BY <1>11, <1>14, <2>1, RejectedIsResting DEF AuthRefused
<1>15. ASSUME UNCHANGED <<st, up, down, mechanism>>,
              \A k \in Links : sock'[k] # sock[k] => sock'[k] # "none" /\ sock[k] # "none"
       PROVE  Talks'
  BY <1>15 DEF Talks, Talk, Waits
<1>16. ASSUME NEW l \in Links, (Rising(l) /\ Raise(l)) \/ AdoptPath(l) PROVE Talks'
  <2>1. UNCHANGED <<st, up, down, mechanism>>
    BY <1>16 DEF Raise, AdoptPath
  <2>2. sock' = sock \/ (sock' = [sock EXCEPT ![l] = "closed"] /\ sock[l] = "open")
    BY <1>16 DEF Raise, AdoptPath, Rising
  <2> QED
    BY <1>15, <2>1, <2>2 DEF BType
<1>17. ASSUME NEW l \in Links, Answer(l) PROVE Talks'
  <2>1. /\ up[l] # <<>> /\ up' = [up EXCEPT ![l] = Tail(up[l])]
        /\ UNCHANGED <<st, sock, mechanism>>
    BY <1>17 DEF Answer, BType
  <2>2. PICK s \in Statuses : /\ down' = [down EXCEPT ![l] = Append(down[l], [status |-> s])]
                              /\ Head(up[l]).op = "handshake" => s = "ok"
    BY <1>17 DEF Answer, BType, Statuses
  <2> DEFINE d == [status |-> s]
  <2>d. /\ down[l] = <<>> => down'[l] = <<d>>
        /\ \A r : down[l] = <<r>> => down'[l] = <<r, d>>
    BY <2>2, Appended DEF BType
  <2>t. up'[l] = Tail(up[l])
    BY <2>1 DEF BType
  <2>u. ASSUME NEW q, up[l] = <<q>> PROVE up'[l] = <<>>
    BY <2>t, <2>u, Taken
  <2>v. ASSUME NEW q, NEW r, up[l] = <<q, r>> PROVE up'[l] = <<r>> /\ Head(up[l]) = q
    BY <2>t, <2>v, Taken
  <2>3. ASSUME NEW q, Waits(l, q) PROVE Waits(l, q)'
    BY <2>1, <2>3, <2>d, <2>u DEF Waits
  <2>4. st[l] \notin {"NEW", "TLS", "READY"}
    BY <2>1 DEF Talks, Talk
  <2>5. CASE st[l] = "HANDSHAKE"
    <3>1. Talk(l)'
      <4>1. CASE up[l] = <<[op |-> "handshake"], [op |-> "protocol"]>> /\ down[l] = <<>>
        <5>1. up'[l] = <<[op |-> "protocol"]>> /\ down'[l] = <<[status |-> "ok"]>>
          BY <2>2, <2>d, <2>v, <4>1
        <5> QED
          BY <2>1, <2>5, <5>1 DEF Talks, Talk
      <4>2. CASE up[l] = <<[op |-> "protocol"]>> /\ down[l] = <<[status |-> "ok"]>>
        <5>1. up'[l] = <<>> /\ down'[l] = <<[status |-> "ok"], [status |-> s]>>
          BY <2>d, <2>u, <4>2
        <5> QED
          BY <2>1, <2>5, <5>1 DEF Talks, Talk
      <4> QED
        BY <2>1, <2>5, <4>1, <4>2 DEF Talks, Talk
    <3> QED
      BY <2>1, <2>2, <3>1, TalkElsewhere DEF BType
  <2>6. CASE st[l] # "HANDSHAKE"
    <3>1. Talk(l)'
      BY <2>1, <2>3, <2>4, <2>6 DEF Talks, Talk
    <3> QED
      BY <2>1, <2>2, <3>1, TalkElsewhere DEF BType
  <2> QED
    BY <2>5, <2>6
<1>18. ASSUME NEW p \in PathIds, ClosePath(p) PROVE Talks'
  <2>1. UNCHANGED <<st, up, down, mechanism>>
    BY <1>18 DEF ClosePath
  <2>2. sock' = [sock EXCEPT ![paths[p]] = "closed"] /\ sock[paths[p]] = "open"
    BY <1>18 DEF ClosePath, Filed
  <2> QED
    BY <1>15, <2>1, <2>2 DEF BType
<1>19. ASSUME CloseLinks PROVE Talks'
  <2>1. UNCHANGED <<st, up, down, mechanism>>
    BY <1>19 DEF CloseLinks
  <2>2. sock[0] = "open" /\ \A p \in PathIds : paths[p] # 0 => sock[paths[p]] = "open"
    BY <1>19 DEF CloseLinks, Standing, Filed
  <2>3. \A k \in Links : sock'[k] # sock[k] => sock'[k] # "none" /\ sock[k] # "none"
    BY <1>19, <2>2 DEF CloseLinks
  <2> QED
    BY <1>15, <2>1, <2>3
<1>20. ASSUME Close PROVE Talks'
  BY <1>3, <1>20 DEF Close, Standing, BType
<1>21. ASSUME Connected \/ \E l \in Links : Hangup(l) PROVE Talks'
  BY <1>15, <1>21 DEF Connected, Hangup
<1> QED
  BY <1>0, <1>1, <1>2, <1>4, <1>6, <1>8, <1>9, <1>12, <1>13, <1>14, <1>16, <1>17, <1>18,
     <1>19, <1>20, <1>21, StepKinds DEF Machine

-----------------------------------------------------------------------------
(* Whom the server has let in.                                             *)

LEMMA AdmittedStep == BringupInv /\ [Next]_vars => Admitted'
<1> SUFFICES ASSUME BringupInv, [Next]_vars PROVE Admitted'
  OBVIOUS
<1> BType /\ Standing /\ Talks /\ Climbing /\ LadderType /\ Admitted
  BY DEF BringupInv
<1> USE LinkFacts
<1> USE DEF ladderVars, peerVars
<1>a. ASSUME UNCHANGED <<site, peer, grants>>,
             \A k \in Links, s \in {"LOGIN", "AUTH", "BIND"} : LetIn(k, s)' => LetIn(k, s),
             UNCHANGED mechanism \/ ~LetIn(0, "AUTH")'
      PROVE  Admitted'
  BY <1>a DEF Admitted
<1>b. ASSUME UNCHANGED <<site, peer, grants, mechanism>>,
             \A k \in Links : \/ st'[k] = st[k] /\ down'[k] = down[k]
                              \/ st'[k] \in {"HANDSHAKE", "PROTOCOL", "TLS", "FAILED", "CLOSED"}
      PROVE  Admitted'
  BY <1>a, <1>b DEF LetIn
<1>0. ASSUME UNCHANGED vars PROVE Admitted'
  BY <1>0, <1>b DEF vars
<1>1. ASSUME NEW l \in Links, Start(l) PROVE Admitted'
  BY <1>1, <1>b DEF Start, BType
<1>2. ASSUME NEW l \in Links, Handshaken(l) \/ BringupError(l) \/ Eof(l) PROVE Admitted'
  <2>1. UNCHANGED <<site, peer, grants, mechanism>>
    BY <1>2 DEF Handshaken, BringupError, Eof
  <2>2. \E s \in {"PROTOCOL", "FAILED", "CLOSED"} : st' = [st EXCEPT ![l] = s]
    BY <1>2 DEF Handshaken, BringupError, Eof
  <2>3. \A k \in Links : k # l => down'[k] = down[k]
    BY <1>2 DEF Handshaken, BringupError, Eof, Reply, BType
  <2> QED
    BY <1>b, <2>1, <2>2, <2>3 DEF BType
<1>3. ASSUME NEW l \in Links, BecomeReady(l) PROVE Admitted'
  <2>1. /\ UNCHANGED <<site, peer, grants, mechanism>> /\ st' = [st EXCEPT ![l] = "READY"]
        /\ down' = [down EXCEPT ![l] = Tail(@)]
    BY <1>3 DEF BecomeReady, Reply
  <2>2. /\ st[l] = (IF l = 0 THEN "AUTH" ELSE "BIND")
        /\ \E x \in Statuses \cap {"ok"} : down[l] = <<[status |-> x]>>
    BY <1>3, ReadReply DEF BecomeReady
  <2>3. LetIn(l, IF l = 0 THEN "AUTH" ELSE "BIND")
    BY <2>2 DEF LetIn
  <2>4. l = 0 => site.offers # <<>>
    BY <2>2 DEF Climbing, Offers, ToSet
  <2>5. \A k \in Links, s \in {"LOGIN", "AUTH", "BIND"} : k # l => (LetIn(k, s)' => LetIn(k, s))
    BY <2>1 DEF LetIn, BType
  <2> QED
    BY <2>1, <2>3, <2>4, <2>5 DEF Admitted, Links
<1>4. ASSUME NEW l \in Links, UNCHANGED <<site, peer, grants, mechanism>>, BeginLogin(l),
             down' = [down EXCEPT ![l] = <<>>]
      PROVE  Admitted'
  <2>1. st' = [st EXCEPT ![l] = IF l = 0 THEN "LOGIN" ELSE "BIND"]
    BY <1>4 DEF BeginLogin
  <2> QED
    BY <1>4, <1>a, <2>1 DEF LetIn, BType
<1>5. ASSUME NEW l \in Links, Negotiated(l) PROVE Admitted'
  <2>1. UNCHANGED <<site, peer, grants, mechanism>> /\ down' = [down EXCEPT ![l] = <<>>]
    BY <1>5, ReadReply DEF Negotiated
  <2>2. CASE BeginLogin(l)
    BY <1>4, <2>1, <2>2
  <2>3. CASE \E s \in {"TLS", "FAILED"} : st' = [st EXCEPT ![l] = s]
    BY <1>b, <2>1, <2>3 DEF BType
  <2> QED
    BY <1>5, <2>2, <2>3 DEF Negotiated, AfterProtocol
<1>6. ASSUME NEW l \in Links, Upgrade(l) PROVE Admitted'
  <2>1. UNCHANGED <<site, peer, grants, mechanism, down>> /\ BeginLogin(l) /\ down[l] = <<>>
    BY <1>6 DEF Upgrade, Talks, Talk
  <2>2. down' = [down EXCEPT ![l] = <<>>]
    BY <2>1 DEF BType
  <2> QED
    BY <1>4, <2>1, <2>2
<1>7. ASSUME NEW lad, Resting(lad), NextCredential(lad), UNCHANGED <<site, peer, grants>>,
             down' = [down EXCEPT ![0] = <<>>]
      PROVE  Admitted'
  <2>1. lad \in Ladders
    BY <1>7 DEF Resting
  <2>2. \E s \in {"AUTH", "FAILED"} : st' = [st EXCEPT ![0] = s]
    BY <1>7 DEF NextCredential
  <2> QED
    BY <1>7, <1>a, <2>2 DEF LetIn, BType
<1>8. ASSUME LoggedIn PROVE Admitted'
  <2>1. /\ UNCHANGED <<site, peer, grants>> /\ st[0] = "LOGIN" /\ down' = [down EXCEPT ![0] = <<>>]
        /\ \E x \in Statuses \cap {"ok"} : down[0] = <<[status |-> x]>>
    BY <1>8, ReadReply DEF LoggedIn
  <2>2. CASE NextCredential(Ladder0)
    BY <1>7, <2>1, <2>2, FootIsResting
  <2>3. CASE st' = [st EXCEPT ![0] = "READY"] /\ site.offers = <<>>
    <3>1. LetIn(0, "LOGIN")
      BY <2>1 DEF LetIn
    <3>2. \A k \in Links, s \in {"LOGIN", "AUTH", "BIND"} : k # 0 => (LetIn(k, s)' => LetIn(k, s))
      BY <2>1, <2>3 DEF LetIn, BType
    <3> QED
      BY <2>1, <2>3, <3>1, <3>2 DEF Admitted, Links
  <2> QED
    BY <1>8, <2>2, <2>3 DEF LoggedIn
<1>9. ASSUME AuthStep PROVE Admitted'
  <2>1. /\ UNCHANGED <<site, peer, grants>> /\ st[0] = "AUTH" /\ down' = [down EXCEPT ![0] = <<>>]
    BY <1>9, ReadReply DEF AuthStep
  <2>2. CASE NextCredential(Rejected(ladder.cur))
    BY <1>7, <2>1, <2>2, RejectedIsResting
  <2>3. CASE UNCHANGED <<st, mechanism>>
    BY <1>a, <2>1, <2>3 DEF LetIn, BType
  <2> QED
    BY <1>9, <2>2, <2>3 DEF AuthStep
<1>10. ASSUME AuthRefused PROVE Admitted'
  <2>1. /\ UNCHANGED <<site, peer, grants>> /\ st[0] = "AUTH" /\ down' = [down EXCEPT ![0] = <<>>]
    BY <1>10, ReadReply DEF AuthRefused
  <2> QED
    BY <1>7, <1>10, <2>1, RejectedIsResting DEF AuthRefused
<1>11. ASSUME NEW l \in Links, Answer(l) PROVE Admitted'
  <2> DEFINE q == Head(up[l])
  <2>1. up[l] # <<>> /\ UNCHANGED <<site, st, mechanism>>
    BY <1>11 DEF Answer
  <2>2. PICK s \in Statuses :
          /\ down' = [down EXCEPT ![l] = Append(@, [status |-> s])]
          /\ peer' = [peer EXCEPT ![l] =
                        CASE s = "ok" /\ q.op = "auth" -> q.mech
                          [] s = "ok" /\ q.op = "bind" -> "in"
                          [] s = "ok" /\ q.op = "login" /\ site.offers = <<>> -> "in"
                          [] OTHER -> @]
          /\ IF q.op = "bind" /\ s = "ok"
             THEN \E p \in FreePaths : grants' = [grants EXCEPT ![l] = p]
             ELSE UNCHANGED grants
    BY <1>11 DEF Answer, Statuses
  <2>3. \A k \in Links : k # l => down'[k] = down[k] /\ peer'[k] = peer[k] /\ grants'[k] = grants[k]
    BY <2>2 DEF BType
  <2>4. st[l] # "READY"
    BY <2>1 DEF Talks, Talk
  <2>5. ASSUME NEW w, Waits(l, w), down'[l] = <<[status |-> "ok"]>> PROVE q = w /\ s = "ok"
    <3>1. up[l] = <<w>> /\ down[l] = <<>>
      BY <2>1, <2>5 DEF Waits
    <3>2. down'[l] = <<[status |-> s]>>
      BY <2>2, <3>1, Appended DEF BType
    <3>3. [status |-> s] = [status |-> "ok"]
      BY <2>5, <3>2
    <3>4. [status |-> s].status = [status |-> "ok"].status
      BY <3>3
    <3> QED
      BY <3>1, <3>4, Taken
  <2>6. CASE l = 0
    <3>1. \A k \in Binds : (LetIn(k, "BIND")' <=> LetIn(k, "BIND")) /\ k # l
      BY <2>1, <2>3, <2>6 DEF LetIn, Links
    <3>2. ASSUME site.offers = <<>>, LetIn(0, "LOGIN")' PROVE peer'[0] = "in"
      <4>1. st[0] = "LOGIN" /\ down'[0] = <<[status |-> "ok"]>>
        BY <2>1, <2>4, <2>6, <3>2 DEF LetIn
      <4>2. q = [op |-> "login"] /\ s = "ok"
        BY <2>5, <2>6, <4>1 DEF Talks, Talk
      <4>3. q.op = "login"
        BY <4>2
      <4> HIDE DEF q
      <4> QED
        BY <2>2, <2>6, <3>2, <4>2, <4>3 DEF BType
    <3>3. ASSUME LetIn(0, "AUTH")' PROVE peer'[0] = mechanism
      <4>1. st[0] = "AUTH" /\ down'[0] = <<[status |-> "ok"]>>
        BY <2>1, <2>4, <2>6, <3>3 DEF LetIn
      <4>2. q = [op |-> "auth", mech |-> mechanism] /\ s = "ok"
        BY <2>5, <2>6, <4>1 DEF Talks, Talk
      <4>3. q.op = "auth" /\ q.mech = mechanism
        BY <4>2
      <4> HIDE DEF q
      <4> QED
        BY <2>2, <2>6, <4>2, <4>3 DEF BType
    <3> QED
      BY <2>1, <2>3, <3>1, <3>2, <3>3 DEF Admitted, Links
  <2>7. CASE l # 0
    <3>1. \A x \in {"LOGIN", "AUTH"} : LetIn(0, x)' <=> LetIn(0, x)
      BY <2>1, <2>3, <2>7 DEF LetIn
    <3>2. \A k \in Binds : k # l => (LetIn(k, "BIND")' <=> LetIn(k, "BIND"))
      BY <2>1, <2>3 DEF LetIn, Links
    <3>3. ASSUME LetIn(l, "BIND")' PROVE peer'[l] = "in" /\ grants'[l] \in PathIds
      <4>1. st[l] = "BIND" /\ down'[l] = <<[status |-> "ok"]>>
        BY <2>1, <2>4, <3>3 DEF LetIn
      <4>2. q = [op |-> "bind"] /\ s = "ok"
        BY <2>5, <4>1 DEF Talks, Talk
      <4>3. q.op = "bind"
        BY <4>2
      <4> HIDE DEF q
      <4> QED
        BY <2>2, <4>2, <4>3 DEF BType, FreePaths
    <3> QED
      BY <2>1, <2>3, <2>7, <3>1, <3>2, <3>3 DEF Admitted, Links
  <2> QED
    BY <2>6, <2>7
<1>12. ASSUME NEW l \in Links, Hangup(l) PROVE Admitted'
  BY <1>12 DEF Hangup, Admitted, LetIn, BType, Links
<1>13. ASSUME NEW l \in Links, Raise(l) \/ AdoptPath(l) PROVE Admitted'
  BY <1>b, <1>13 DEF Raise, AdoptPath
<1>14. ASSUME Connected \/ CloseLinks \/ \E p \in PathIds : ClosePath(p) PROVE Admitted'
  BY <1>b, <1>14 DEF Connected, CloseLinks, ClosePath
<1>15. ASSUME Close PROVE Admitted'
  BY <1>b, <1>15 DEF Close, BType
<1> QED
  BY <1>0, <1>1, <1>2, <1>3, <1>5, <1>6, <1>8, <1>9, <1>10, <1>11, <1>12, <1>13, <1>14, <1>15,
     StepKinds DEF Machine

-----------------------------------------------------------------------------
(* Types.                                                                  *)

\* What the links' machines and the driver may change.
LinkType ==
    /\ st \in [Links -> States]
    /\ tls \in [Links -> BOOLEAN]
    /\ up \in [Links -> Seq(Requests)]
    /\ down \in [Links -> Seq([status : Statuses])]
    /\ mechanism \in Supported \cup {None}
    /\ clear \in [Links -> SUBSET Words]

LEMMA SentType ==
    ASSUME BType, NEW l \in Links, NEW q, q \in Requests, NEW kinds \in SUBSET Words,
           Sent(l, <<q>>, kinds)
    PROVE  up' \in [Links -> Seq(Requests)] /\ clear' \in [Links -> SUBSET Words]
<1>1. <<q>> \in Seq(Requests) /\ up[l] \in Seq(Requests)
  BY DEF BType
<1>2. up[l] \o <<q>> \in Seq(Requests)
  BY <1>1
<1> QED
  BY <1>2 DEF Sent, BType

LEMMA RepliedType ==
    ASSUME BType, NEW l \in Links, NEW s, NEW S, Reply(l, s, S)
    PROVE  down' \in [Links -> Seq([status : Statuses])]
<1>1. down[l] \in Seq([status : Statuses]) /\ down[l] # <<>>
  BY DEF Reply, BType
<1>2. Tail(down[l]) \in Seq([status : Statuses])
  BY <1>1
<1> QED
  BY <1>2 DEF Reply, BType

LEMMA LinkTypeMachine ==
    ASSUME BringupInv, NEW l \in Links, Machine(l) \/ Upgrade(l) \/ Start(l)
    PROVE  LinkType'
<1> BType /\ LadderType /\ Climbing
  BY DEF BringupInv
<1> USE LinkFacts
<1> USE DEF ladderVars
<1>q. /\ [op |-> "login"] \in Requests /\ [op |-> "bind"] \in Requests
      /\ [op |-> "handshake"] \in Requests /\ [op |-> "protocol"] \in Requests
      /\ \A n \in Supported : [op |-> "auth", mech |-> n] \in Requests
  BY DEF Requests
<1>w. {"login"} \subseteq Words /\ {"bind"} \subseteq Words /\ {"handshake", "protocol"} \subseteq Words
      /\ \A n \in Supported : {n} \subseteq Words
  BY DEF Words
<1>1. CASE Start(l)
  <2>1. <<[op |-> "handshake"], [op |-> "protocol"]>> \in Seq(Requests)
    BY <1>q
  <2>2. up[l] \o <<[op |-> "handshake"], [op |-> "protocol"]>> \in Seq(Requests)
    BY <2>1 DEF BType
  <2> HIDE DEF Requests
  <2>3. up' \in [Links -> Seq(Requests)] /\ clear' \in [Links -> SUBSET Words]
    BY <1>1, <1>w, <2>2 DEF Start, Sent, BType
  <2> QED
    BY <1>1, <2>3 DEF Start, LinkType, BType, States
<1>2. CASE Handshaken(l) \/ BecomeReady(l) \/ BringupError(l)
  <2>1. down' \in [Links -> Seq([status : Statuses])]
    BY <1>2, RepliedType DEF Handshaken, BecomeReady, BringupError
  <2> QED
    BY <1>2, <2>1 DEF Handshaken, BecomeReady, BringupError, LinkType, BType, States
<1>3. CASE Eof(l)
  BY <1>3 DEF Eof, LinkType, BType, States
<1>4. ASSUME BeginLogin(l)
      PROVE  /\ up' \in [Links -> Seq(Requests)] /\ clear' \in [Links -> SUBSET Words]
             /\ st' \in [Links -> States]
  <2>1. \E q \in Requests, kinds \in SUBSET Words : Sent(l, <<q>>, kinds)
    BY <1>4, <1>q, <1>w DEF BeginLogin
  <2> QED
    BY <1>4, <2>1, SentType DEF BeginLogin, BType, States
<1>5. CASE Negotiated(l)
  <2>1. down' \in [Links -> Seq([status : Statuses])]
    BY <1>5, RepliedType DEF Negotiated
  <2>2. CASE BeginLogin(l)
    BY <1>4, <1>5, <2>1, <2>2 DEF Negotiated, AfterProtocol, LinkType, BType
  <2>3. CASE UNCHANGED <<up, clear>> /\ \E s \in {"TLS", "FAILED"} : st' = [st EXCEPT ![l] = s]
    BY <1>5, <2>1, <2>3 DEF Negotiated, AfterProtocol, LinkType, BType, States
  <2> QED
    BY <1>5, <2>2, <2>3 DEF Negotiated, AfterProtocol
<1>6. CASE Upgrade(l)
  <2>1. BeginLogin(l) /\ UNCHANGED <<down, mechanism>> /\ tls' = [tls EXCEPT ![l] = TRUE]
    BY <1>6 DEF Upgrade
  <2> QED
    BY <1>4, <2>1 DEF LinkType, BType
<1>7. ASSUME NEW lad, Resting(lad), NextCredential(lad), UNCHANGED tls,
             down' \in [Links -> Seq([status : Statuses])]
      PROVE  LinkType'
  <2>1. lad \in Ladders
    BY <1>7 DEF Resting
  <2>2. ASSUME NEW n \in lad.rungs \cap Supported, Goes(n) PROVE LinkType'
    <3>1. up' \in [Links -> Seq(Requests)] /\ clear' \in [Links -> SUBSET Words]
      BY <1>q, <1>w, <2>2, SentType DEF Goes
    <3> QED
      BY <1>7, <2>2, <3>1 DEF Goes, LinkType, BType, States
  <2>3. ASSUME st' = [st EXCEPT ![0] = "FAILED"], UNCHANGED <<mechanism, up, clear>> PROVE LinkType'
    BY <1>7, <2>3 DEF LinkType, BType, States
  <2> QED
    BY <1>7, <2>1, <2>2, <2>3, NextMoves
<1>8. CASE LoggedIn
  <2>1. down' \in [Links -> Seq([status : Statuses])] /\ UNCHANGED tls /\ st[0] = "LOGIN"
    BY <1>8, RepliedType DEF LoggedIn, Reply
  <2>2. CASE NextCredential(Ladder0)
    BY <1>7, <2>1, <2>2, FootIsResting
  <2>3. CASE st' = [st EXCEPT ![0] = "READY"] /\ UNCHANGED <<mechanism, up, clear>>
    BY <2>1, <2>3 DEF LinkType, BType, States
  <2> QED
    BY <1>8, <2>2, <2>3 DEF LoggedIn
<1>9. CASE AuthStep
  <2>1. down' \in [Links -> Seq([status : Statuses])] /\ UNCHANGED tls /\ st[0] = "AUTH"
    BY <1>9, RepliedType DEF AuthStep, Reply
  <2>2. CASE NextCredential(Rejected(ladder.cur))
    BY <1>7, <2>1, <2>2, RejectedIsResting
  <2>3. CASE /\ Sent(0, <<[op |-> "auth", mech |-> ladder.cur]>>, {ladder.cur})
             /\ UNCHANGED <<st, mechanism>>
    <3>1. ladder.cur \in Supported
      BY <2>1 DEF Climbing
    <3>2. up' \in [Links -> Seq(Requests)] /\ clear' \in [Links -> SUBSET Words]
      BY <1>q, <1>w, <2>3, <3>1, SentType
    <3> QED
      BY <2>1, <2>3, <3>2 DEF LinkType, BType
  <2> QED
    BY <1>9, <2>2, <2>3 DEF AuthStep
<1>10. CASE AuthRefused
  <2>1. down' \in [Links -> Seq([status : Statuses])] /\ UNCHANGED tls /\ st[0] = "AUTH"
    BY <1>10, RepliedType DEF AuthRefused, Reply
  <2> QED
    BY <1>7, <1>10, <2>1, RejectedIsResting DEF AuthRefused
<1> QED
  BY <1>1, <1>2, <1>3, <1>5, <1>6, <1>8, <1>9, <1>10 DEF Machine

LEMMA TypeStep == BringupInv /\ [Next]_vars => BType'
<1> SUFFICES ASSUME BringupInv, [Next]_vars PROVE BType'
  OBVIOUS
<1> BType /\ Admitted
  BY DEF BringupInv
<1> USE LinkFacts
<1> USE DEF ladderVars, peerVars
<1>0. ASSUME UNCHANGED vars PROVE BType'
  BY <1>0 DEF vars, BType
<1>1. ASSUME NEW l \in Links, Start(l) PROVE BType'
  <2>1. LinkType'
    BY <1>1, LinkTypeMachine
  <2> QED
    BY <1>1, <2>1 DEF Start, LinkType, BType
<1>2. ASSUME NEW l \in Links, Machine(l) \/ Upgrade(l) PROVE BType'
  <2>1. LinkType'
    BY <1>2, LinkTypeMachine
  <2>2. UNCHANGED <<site, sock, sess, paths, peer, grants>>
    BY <1>2, MachineMoves DEF BringupInv
  <2> QED
    BY <2>1, <2>2 DEF LinkType, BType
<1>3. ASSUME NEW l \in Links, Raise(l) PROVE BType'
  BY <1>3 DEF Raise, BType
<1>4. ASSUME NEW l \in Links, AdoptPath(l) PROVE BType'
  BY <1>4 DEF AdoptPath, BType, Links
<1>5. ASSUME NEW l \in Links, Answer(l) PROVE BType'
  <2>1. UNCHANGED <<site, st, tls, sock, mechanism, sess, paths, clear>>
    BY <1>5 DEF Answer
  <2>2. Head(up[l]) \in Requests /\ Tail(up[l]) \in Seq(Requests)
    BY <1>5 DEF Answer, BType
  <2>3. up' \in [Links -> Seq(Requests)]
    <3>1. up' = [up EXCEPT ![l] = Tail(@)] /\ up \in [Links -> Seq(Requests)]
      BY <1>5 DEF Answer, BType
    <3> QED
      BY <2>2, <3>1
  <2>4. grants' \in [Links -> {0} \cup PathIds]
    BY <1>5, ZenonT(60) DEF Answer, BType, FreePaths
  <2>5. PICK s \in Statuses : down' = [down EXCEPT ![l] = Append(@, [status |-> s])]
    BY <1>5 DEF Answer, Statuses
  <2>6. Append(down[l], [status |-> s]) \in Seq([status : Statuses])
    <3> DEFINE d == [status |-> s]
    <3>1. d \in [status : Statuses] /\ down[l] \in Seq([status : Statuses])
      BY DEF BType
    <3> HIDE DEF d
    <3>2. Append(down[l], d) \in Seq([status : Statuses])
      BY <3>1, AppendProperties
    <3> QED
      BY <3>2 DEF d
  <2>7. down' \in [Links -> Seq([status : Statuses])]
    BY <2>5, <2>6 DEF BType
  <2>8. Head(up[l]).op = "auth" => Head(up[l]).mech \in Supported
    BY <2>2 DEF Requests
  <2>9. peer' \in [Links -> Supported \cup {None, "in", "gone"}]
    <3>1. \E x \in Supported \cup {None, "in", "gone"} : peer' = [peer EXCEPT ![l] = x]
      BY <1>5, <2>8 DEF Answer, BType
    <3> QED
      BY <3>1 DEF BType
  <2> QED
    BY <2>1, <2>3, <2>4, <2>7, <2>9 DEF BType
<1>6. ASSUME NEW l \in Links, Hangup(l) PROVE BType'
  BY <1>6 DEF Hangup, BType
<1>7. ASSUME NEW p \in PathIds, ClosePath(p) PROVE BType'
  BY <1>7 DEF ClosePath, BType
<1>8. ASSUME Connected PROVE BType'
  BY <1>8 DEF Connected, BType
<1>9. ASSUME Close PROVE BType'
  BY <1>9 DEF Close, BType, States
<1>10. ASSUME CloseLinks PROVE BType'
  BY <1>10 DEF CloseLinks, BType, Links
<1> QED
  BY <1>0, <1>1, <1>2, <1>3, <1>4, <1>5, <1>6, <1>7, <1>8, <1>9, <1>10, StepKinds

-----------------------------------------------------------------------------
(* The theorems.                                                           *)

\* The invariant holds throughout a session's life, for any sites, mechanisms,
\* data paths and path ids, and any number of challenges.
THEOREM BringupAlways == Spec => []BringupInv
<1>1. Init => BringupInv
  BY BringupStarts
<1>2. BringupInv /\ [Next]_vars => BringupInv'
  BY TypeStep, StandingStep, FiledStep, TalkStep, AdmittedStep, LadderStep, SecureStep
     DEF BringupInv
<1> QED
  BY <1>1, <1>2, PTL DEF Spec

\* Where either end asks for TLS only the handshake and kXR_protocol go out
\* unencrypted, on the control link or a data path; a bearer token does so
\* only where the user allowed it; and every data path the session has filed
\* is open, bound under that id and as well encrypted as the session
\* (_after_protocol, _withhold_cleartext_token, data_path, _adopt_path).
THEOREM LinksAreProper == Spec => []LinksProper
<1>1. BringupInv => LinksProper
  <2> SUFFICES ASSUME BringupInv PROVE LinksProper
    OBVIOUS
  <2> USE LinkFacts
  <2>1. \A l \in Links : site.want \/ site.demand \/ (l # 0 /\ tls[0]) => Tight(l)
    BY DEF Tight, WantTls
  <2>2. NothingInTheClear
    BY <2>1 DEF BringupInv, Secure, NothingInTheClear
  <2>3. \A p \in PathIds : paths[p] # 0 => paths[p] \in Links
    BY DEF BringupInv, BType
  <2>4. PathsProper
    BY <2>1, <2>3 DEF BringupInv, Filed, Secure, PathsProper
  <2> QED
    BY <2>2, <2>4 DEF LinksProper
<1> QED
  BY <1>1, BringupAlways, PTL

\* Mechanisms are tried once each, in the order of auth_order and then of the
\* server's list; a login that fails names a reason for every mechanism
\* offered; and a link counts as up only if the server let it in, with the
\* mechanism the session reports (_next_credential, _auth_step, _auth_refused,
\* _become_ready).
THEOREM LadderIsRight == Spec => []LadderRight
<1>1. BringupInv => LadderRight
  <2> SUFFICES ASSUME BringupInv PROVE LadderRight
    OBVIOUS
  <2> USE LinkFacts
  <2>1. TypeOK
    BY DEF BringupInv, BType, LadderType, Ladders, Climbing, Offers, TypeOK
  <2>2. OnceInOrder /\ FailureExplained
    BY DEF BringupInv, Climbing
  <2>3. ReadyIsAccepted
    BY DEF BringupInv, Admitted, LetIn, ReadyIsAccepted, Links
  <2> QED
    BY <2>1, <2>2, <2>3 DEF LadderRight
<1> QED
  BY <1>1, BringupAlways, PTL

\* A session that was closed, or that never came up, has its control link
\* closed and no data path filed, although paths may still be coming up under
\* it (close, connect, _adopt_path).
THEOREM NothingIsLeaked == Spec => []NothingLeaks
<1>1. BringupInv => NothingLeaks
  BY DEF BringupInv, Standing, NothingLeaks
<1> QED
  BY <1>1, BringupAlways, PTL
=============================================================================
