------------------------------ MODULE Namespace ------------------------------
(***************************************************************************)
(* client/filesystem.py and client/_fsbase.py: one call on a root://       *)
(* filesystem, request by request, against a namespace that another        *)
(* program also changes.                                                   *)
(*                                                                         *)
(* Most calls are one request and differ only in which, and in whether the *)
(* router may send it twice.  The rest are protocols of their own: rmtree  *)
(* and walk, which a symbolic link may lead astray; deep_locate; listings  *)
(* handed on part by part; and mkdir, touch and open, which answer for     *)
(* what was there before.                                                  *)
(***************************************************************************)
EXTENDS Integers, Sequences, FiniteSets, SequencesExt

CONSTANTS
    Nodes,         \* what the namespace can hold; "top" is the tree in question
    Up,            \* each node's directory; a root is its own
    Kinds0,        \* what each node is at first
    LinkTargets,   \* where the symbolic links may point
    Topologies,    \* what each host answers a locate with
    Listing,       \* the names of a listed directory, in the server's order
    NsRetries,     \* config.connect_retries
    MaxDepth       \* bound: how deep a walk is followed

VARIABLES
    fsys,      \* the namespace: [kind, to, meddled]
    server,    \* what this server can do
    ns,        \* the call
    gone       \* history: what the call itself removed

nsVars == <<fsys, server, ns, gone>>

\* The top of the tree is a root and no link; a location names a host that can
\* be asked; and no name in a directory is a dot.
ASSUME NsAssumption ==
    /\ Up \in [Nodes -> Nodes] /\ "top" \in Nodes /\ Up["top"] = "top"
    /\ Kinds0 \in [Nodes -> {"none", "file", "dir", "link"}] /\ Kinds0["top"] # "link"
    /\ LinkTargets \subseteq Nodes
    /\ \A t \in Topologies :
          /\ "home" \in DOMAIN t
          /\ \A h \in DOMAIN t : t[h] \in Seq([role : {"manager", "server"}, host : DOMAIN t])
    /\ Listing \in Seq(STRING) /\ Listing # << >> /\ \A i \in DOMAIN Listing : Listing[i] # "."
    /\ NsRetries \in Nat

-----------------------------------------------------------------------------
(* The requests: whether the router may send one again (Request.idempotent) *)
(* and whether it changes the namespace.                                   *)

Reads(names) == [name : names, again : {TRUE}, changes : {FALSE}]
Changes(names) == [name : names, again : {FALSE}, changes : {TRUE}]

PathReads == Reads({"Stat", "StatVFS", "Statx", "Dirlist", "Locate"})
PathChanges == Changes({"Mkdir", "Rm", "Rmdir", "Mv", "Symlink", "Link"})
AttributeRequests == Reads({"Readlink"}) \cup Changes({"Setattr", "Chmod", "Truncate"})
QueryRequests == Reads({"Query"}) \cup Changes({"Prepare"})
FattrRequests == Reads({"Fattr.get", "Fattr.list"}) \cup Changes({"Fattr.set", "Fattr.delete"})
SessionRequests == Reads({"Ping"}) \cup Changes({"Set"})
Requests == PathReads \cup PathChanges \cup AttributeRequests \cup QueryRequests \cup FattrRequests
            \cup SessionRequests

\* What each public method sends.
Interrogation == [ping |-> "Ping", stat |-> "Stat", statvfs |-> "StatVFS", statx |-> "Statx"]
Listings == [scandir |-> "Dirlist", dirlist |-> "Dirlist"]
Mutations == [rmdir |-> "Rmdir", remove |-> "Rm", rename |-> "Mv", symlink |-> "Symlink", link |-> "Link",
              readlink |-> "Readlink"]
Attributes == [chmod |-> "Chmod", utime |-> "Setattr", chown |-> "Setattr", truncate |-> "Truncate"]
Queries == [query |-> "Query", checksum |-> "Query", query_config |-> "Query", extensions |-> "Query",
            checksum_cancel |-> "Query", query_stats |-> "Query", query_space |-> "Query",
            query_prepare |-> "Query", set_property |-> "Set", appid |-> "Set"]
Located == [locate |-> "Locate", archive_info |-> "Statx", prepare |-> "Prepare", cancel_prepare |-> "Prepare"]
Xattrs == [getxattr |-> "Fattr.get", setxattr |-> "Fattr.set", removexattr |-> "Fattr.delete",
           listxattr |-> "Fattr.list", listxattr_tree |-> "Fattr.list", xattrs |-> "Fattr.list"]
Helpers == [unlink |-> "Rm", move |-> "Mv", hardlink |-> "Link", lstat |-> "Stat", is_symlink |-> "Readlink",
            exists |-> "Stat", isdir |-> "Stat", isfile |-> "Stat", getsize |-> "Stat", listdir |-> "Dirlist",
            iterdir |-> "Dirlist", evict |-> "Prepare"]
Methods == {Interrogation, Listings, Mutations, Attributes, Queries, Located, Xattrs, Helpers}

-----------------------------------------------------------------------------
NoCall == [op |-> "none", pc |-> "idle", result |-> "none", tries |-> 0, applied |-> 0, flag |-> FALSE,
           trust |-> "unasked", stack |-> << >>, at |-> "top", dir |-> TRUE, seen |-> {},
           visits |-> [n \in Nodes |-> 0], found |-> << >>, pending |-> << >>, heard |-> {},
           part |-> 1, started |-> FALSE, pairs |-> FALSE, handed |-> << >>, lost |-> FALSE,
           lent |-> FALSE, saw |-> "none", topology |-> << >>]

NsInit ==
    /\ fsys \in [kind : {Kinds0}, to : LinkTargets, meddled : {FALSE}]
    /\ server \in [readlink : BOOLEAN, dstat : BOOLEAN, unlinks : BOOLEAN, ids : BOOLEAN]
    /\ ns = NoCall
    /\ gone = {}

Goto(pc) == ns' = [ns EXCEPT !.pc = pc]
Return(result) == ns' = [ns EXCEPT !.pc = "done", !.result = result]
Held == UNCHANGED <<fsys, server, gone>>

Follow(n) == IF fsys.kind[n] = "link" THEN fsys.to ELSE n
Below(d) == {n \in Nodes \ {d} : Up[n] = d /\ fsys.kind[n] # "none"}
IsDir(n) == fsys.kind[Follow(n)] = "dir"
Taken(n) == /\ fsys' = [fsys EXCEPT !.kind[n] = "none"] /\ gone' = gone \cup {n} /\ UNCHANGED server

\* A call begins; _cancel refuses a prepare whose request id does not fit.
Call ==
    /\ ns.pc = "idle"
    /\ \/ \E sends \in Methods : \E op \in DOMAIN sends : ns' = [NoCall EXCEPT !.op = op, !.pc = "request"]
       \/ \E cancel \in BOOLEAN, reqid \in {"none", "empty", "given"} :
            /\ cancel \/ reqid # "none"
            /\ ns' = IF cancel /\ reqid = "given" THEN [NoCall EXCEPT !.op = "cancel_prepare", !.pc = "request"]
                     ELSE [NoCall EXCEPT !.op = "prepare", !.pc = "done", !.result = "refused"]
       \/ \E op \in {"rmtree", "walk", "mkdir", "touch", "open"}, flag \in BOOLEAN :
            \E at \in IF op = "mkdir" THEN {n \in Nodes \ {"top"} : Up[n] = "top"} ELSE {"top"} :
              ns' = [NoCall EXCEPT !.op = op, !.flag = flag, !.at = at,
                                   !.pc = CASE op = "rmtree" -> "decide" [] op = "walk" -> "list"
                                            [] op = "mkdir" -> "mkdir" [] OTHER -> "lend"]
       \/ \E topology \in Topologies :
            ns' = [NoCall EXCEPT !.op = "deep_locate", !.pc = "locate", !.at = "home", !.topology = topology]
       \/ ns' = [NoCall EXCEPT !.op = "scandir_parts", !.pc = "part", !.pairs = TRUE]
    /\ Held

\* Router.execute of the one request: answered, refused, or lost with the
\* connection, before or after the server acted on it.
Execute ==
    /\ ns.pc = "request"
    /\ \E sends \in Methods, request \in Requests, acted \in BOOLEAN, answered \in BOOLEAN :
         /\ ns.op \in DOMAIN sends /\ request.name = sends[ns.op]
         /\ LET now == [ns EXCEPT !.applied = @ + (IF acted /\ request.changes THEN 1 ELSE 0)]
            IN ns' = IF answered THEN [now EXCEPT !.pc = "done", !.result = IF acted THEN "ok" ELSE "error"]
                     ELSE IF request.again /\ ns.tries < NsRetries THEN [now EXCEPT !.tries = @ + 1]
                     ELSE [now EXCEPT !.pc = "done", !.result = "error"]
    /\ Held

-----------------------------------------------------------------------------
(* rmtree.                                                                 *)

\* Mutation: an error from kXR_readlink reads as "not a link".
LinkUnlessListed(n, trust) == IF fsys.kind[n] = "link" /\ trust = "yes" THEN "link" ELSE "not"

\* _Links: believed only from a server that lists readlink.
Link(n, trust) ==
    IF trust # "yes" THEN "unknown" ELSE IF fsys.kind[n] = "link" THEN "link" ELSE "not"

\* _Links._decide: asked once, and a query that fails is a no.
Trusts == IF ns.trust # "unasked" THEN {ns.trust}
          ELSE IF server.readlink THEN {"yes", "no"} ELSE {"no"}

\* _TreeRemoval._fail.
RmFailed(c) == IF c.flag THEN [c EXCEPT !.pc = "next"] ELSE [c EXCEPT !.pc = "done", !.result = "error"]
AtRoot == ns.stack = << >>

\* _TreeRemoval.run and _entry: what the node is, before anything is sent to
\* it.  An entry that was listed as no directory is not asked about.
Decide ==
    /\ ns.pc = "decide"
    /\ IF ~AtRoot /\ ~ns.dir THEN Goto("remove")
       ELSE \E trust \in Trusts :
              LET link == Link(ns.at, trust)
                  c == [ns EXCEPT !.trust = trust]
              IN ns' = IF link = "unknown" THEN [c EXCEPT !.pc = "ask"]
                       ELSE IF link = "not" THEN [c EXCEPT !.pc = "clear"]
                       ELSE IF AtRoot THEN RmFailed(c) ELSE [c EXCEPT !.pc = "remove"]
    /\ Held

\* is_symlink raises what is neither "no such link" nor "no such file", and
\* that leaves rmtree and walk, whatever errors they were told to ignore.
LinksRaise ==
    /\ \/ ns.pc = "decide" /\ (AtRoot \/ ns.dir)
       \/ ns.pc = "descend" /\ ns.stack # << >> /\ Last(ns.stack) # {} /\ ~ns.flag
    /\ "yes" \in Trusts
    /\ ns' = [ns EXCEPT !.trust = "yes", !.pc = "done", !.result = "error"]
    /\ Held

\* _full: kXR_rmdir as a question.
AskRmdir ==
    /\ ns.pc = "ask"
    /\ LET real == fsys.kind[ns.at] = "dir"
       IN \/ real /\ Below(ns.at) = {} /\ Taken(ns.at) /\ Goto("next")
          \/ real /\ Below(ns.at) # {} /\ Goto("clear") /\ Held
          \/ ~real /\ Held /\ ns' = IF AtRoot THEN RmFailed(ns) ELSE [ns EXCEPT !.pc = "remove"]

\* kXR_rm: stock xrootd will not unlink a link.
RemoveEntry ==
    /\ ns.pc = "remove"
    /\ \/ /\ fsys.kind[ns.at] = "file" \/ (fsys.kind[ns.at] = "link" /\ server.unlinks)
          /\ Taken(ns.at) /\ Goto("next")
       \/ /\ fsys.kind[ns.at] \in {"dir", "none"} \/ (fsys.kind[ns.at] = "link" /\ ~server.unlinks)
          /\ ns' = RmFailed(ns) /\ Held

\* _clear: the listing, which looks through a link.  Without kXR_dstat each
\* entry is asked about (_stat_or_none).
Clear ==
    /\ ns.pc = "clear"
    /\ LET d == Follow(ns.at)
       IN ns' = IF fsys.kind[d] # "dir" THEN RmFailed(ns)
                ELSE [ns EXCEPT !.pc = "next",
                        !.stack = Append(@, [name |-> ns.at, todo |-> {[n |-> n, dir |-> IsDir(n)] : n \in Below(d)}])]
    /\ Held

\* The next entry of the directory, or the directory itself once it is clear.
NextEntry ==
    /\ ns.pc = "next"
    /\ IF AtRoot THEN Return("ok") /\ Held
       ELSE LET frame == Last(ns.stack)
                up == [ns EXCEPT !.stack = Front(@)]
            IN \/ \E e \in frame.todo :
                    /\ ns' = [ns EXCEPT !.pc = "decide", !.at = e.n, !.dir = IF server.dstat THEN e.dir ELSE IsDir(e.n),
                                        !.stack = Append(Front(@), [frame EXCEPT !.todo = @ \ {e}])]
                    /\ Held
               \/ /\ frame.todo = {}
                  /\ IF fsys.kind[frame.name] = "dir" /\ Below(frame.name) = {}
                     THEN Taken(frame.name) /\ ns' = up
                     ELSE ns' = RmFailed(up) /\ Held

-----------------------------------------------------------------------------
(* walk.                                                                   *)

\* _Descent.enters: whether the walk goes into n.
Enters(n, trust) ==
    /\ ns.flag \/ Link(n, trust) # "link"
    /\ server.ids => Follow(n) \notin ns.seen

\* _walk: one directory is listed, or was gone (_walk_entries).
WalkList ==
    /\ ns.op = "walk" /\ ns.pc = "list"
    /\ LET d == Follow(ns.at)
       IN ns' = IF fsys.kind[d] # "dir" THEN [ns EXCEPT !.pc = "descend"]
                ELSE [ns EXCEPT !.pc = "descend", !.visits[d] = @ + 1,
                                !.stack = Append(@, {n \in Below(d) : IsDir(n)})]
    /\ Held

Descend ==
    /\ ns.pc = "descend"
    /\ IF ns.stack = << >> THEN Return("ok")
       ELSE IF Last(ns.stack) = {} THEN ns' = [ns EXCEPT !.stack = Front(@)]
       ELSE \E n \in Last(ns.stack), trust \in Trusts :
              LET rest == [ns EXCEPT !.stack = Append(Front(@), Last(@) \ {n}), !.trust = IF ns.flag THEN @ ELSE trust]
              IN IF Enters(n, trust)
                 THEN /\ Len(ns.stack) < MaxDepth
                      /\ ns' = [rest EXCEPT !.pc = "list", !.at = n,
                                            !.seen = IF server.ids THEN @ \cup {Follow(n)} ELSE @]
                 ELSE ns' = rest
    /\ Held

-----------------------------------------------------------------------------
(* deep_locate: found is what each address was seen as, in order.          *)

\* The address of loc is seen as loc says.
SeenAs(loc) == [h \in DOMAIN ns.found \cup {loc.host} |-> IF h = loc.host THEN loc.role ELSE ns.found[h]]

\* Mutation: the first answer about an address stands.
NotedFirst(loc) == [ns EXCEPT !.found = IF loc.host \in DOMAIN @ THEN @ ELSE SeenAs(loc)]

\* A node first seen as a manager and then as a server holds the file.
Noted(loc) ==
    [ns EXCEPT !.found = IF loc.host \in DOMAIN @ /\ @[loc.host] # "manager" THEN @ ELSE SeenAs(loc)]

\* locate: the host's answer; a child that cannot be asked is passed over.
Locate ==
    /\ ns.pc = "locate"
    /\ \/ ns' = [ns EXCEPT !.pc = "located", !.pending = @ \o ns.topology[ns.at],
                           !.heard = @ \cup {ns.topology[ns.at][i] : i \in DOMAIN ns.topology[ns.at]}]
       \/ ns' = IF ns.at = "home" THEN [ns EXCEPT !.pc = "done", !.result = "error"] ELSE [ns EXCEPT !.pc = "located"]
    /\ Held

\* _deep_locate: the next location, in the order they were named.
TakeLocation ==
    /\ ns.pc = "located"
    /\ IF ns.pending = << >> THEN Return("ok")
       ELSE LET loc == Head(ns.pending)
                new == loc.host \notin DOMAIN ns.found
            IN ns' = [Noted(loc) EXCEPT !.pending = Tail(@), !.at = loc.host,
                                        !.pc = IF new /\ loc.role = "manager" THEN "locate" ELSE "located"]
    /\ Held

-----------------------------------------------------------------------------
(* _scandir_parts: one name a part.                                        *)

Lines(i) == IF server.dstat THEN <<Listing[i], "stat">> ELSE <<Listing[i]>>
Dot == IF server.dstat THEN <<".", "stat">> ELSE << >>
Part(i) == (IF i = 1 THEN Dot ELSE << >>) \o Lines(i)

\* parse_dirlist: pairs of lines only where a dot entry leads; dots are left
\* out, and none comes after a name.
Parsed(lines, pairs) ==
    IF ~pairs \/ lines = << >> \/ Head(lines) # "." THEN lines
    ELSE LET names == [i \in 1 .. Len(lines) \div 2 |-> lines[2 * i - 1]]
             dots == {i \in DOMAIN names : names[i] = "."}
         IN SubSeq(names, Cardinality(dots) + 1, Len(names))

\* _Batches: the first part decides; a later one is lent a dot entry.
Batch(lines) ==
    IF ~ns.started THEN [pairs |-> ns.pairs /\ Head(lines) = ".", lines |-> lines]
    ELSE [pairs |-> ns.pairs, lines |-> IF ns.pairs THEN <<".", ".">> \o lines ELSE lines]

\* A part arrives, the last one with the whole answer; or the connection is
\* lost and the router sends the listing again from its start.
TakePart ==
    /\ ns.pc = "part"
    /\ \/ LET batch == Batch(Part(ns.part))
          IN ns' = [ns EXCEPT !.started = TRUE, !.pairs = batch.pairs,
                              !.handed = @ \o Parsed(batch.lines, batch.pairs),
                              !.part = @ + 1, !.pc = IF ns.part = Len(Listing) THEN "done" ELSE "part",
                              !.result = IF ns.part = Len(Listing) THEN "ok" ELSE @]
       \/ ns' = IF ns.tries < NsRetries THEN [ns EXCEPT !.tries = @ + 1, !.part = 1, !.lost = ns.handed # << >>]
                ELSE [ns EXCEPT !.pc = "done", !.result = "error"]
    /\ Held

-----------------------------------------------------------------------------
(* mkdir, touch and open.                                                  *)

\* kXR_mkdir; exist_ok then asks what is there.
Mkdir ==
    /\ ns.pc = "mkdir"
    /\ \/ /\ fsys.kind[ns.at] = "none"
          /\ fsys' = [fsys EXCEPT !.kind[ns.at] = "dir"] /\ UNCHANGED <<server, gone>>
          /\ ns' = [ns EXCEPT !.pc = "done", !.result = "ok", !.saw = "dir"]
       \/ /\ fsys.kind[ns.at] # "none" /\ Held
          /\ IF ns.flag THEN Goto("isdir") ELSE Return("error")
       \/ Return("error") /\ Held

IsDirAfterwards ==
    /\ ns.pc = "isdir"
    /\ \/ ns' = [ns EXCEPT !.pc = "done", !.saw = fsys.kind[Follow(ns.at)],
                           !.result = IF IsDir(ns.at) THEN "ok" ELSE "error"]
       \/ Return("error")
    /\ Held

\* touch and open borrow the filesystem's router.
Lend ==
    /\ ns.pc = "lend"
    /\ ns' = [ns EXCEPT !.pc = "open", !.lent = TRUE]
    /\ Held

\* A failed open leaves the lent router to be let go of here.
NotOpened(result) == [ns EXCEPT !.pc = "done", !.result = result, !.lent = FALSE]

\* The open: there already, opened, or failed.  touch closes what it opened.
OpenIt ==
    /\ ns.pc = "open"
    /\ \/ ns' = NotOpened(IF ns.op = "touch" /\ ns.flag THEN "ok" ELSE "error")
       \/ ns' = [ns EXCEPT !.pc = IF ns.op = "touch" THEN "close" ELSE "done", !.result = "ok"]
       \/ ns' = NotOpened("error")
    /\ Held

CloseTouched ==
    /\ ns.pc = "close"
    /\ \E result \in {"ok", "error"} : ns' = NotOpened(result)
    /\ Held

\* Another program makes a file in the tree, or takes one away.  It puts no
\* link in the place of a directory.
Meddle ==
    /\ ns.pc \notin {"idle", "done"} /\ ~fsys.meddled /\ ns.op \in {"rmtree", "walk", "mkdir"}
    /\ \E n \in Nodes :
         /\ Up[n] # n /\ fsys.kind[Up[n]] = "dir" /\ fsys.kind[n] \in {"none", "file"}
         /\ fsys' = [fsys EXCEPT !.kind[n] = IF @ = "none" THEN "file" ELSE "none", !.meddled = TRUE]
    /\ UNCHANGED <<server, ns, gone>>

NsSteps == Execute \/ Decide \/ LinksRaise \/ AskRmdir \/ RemoveEntry \/ Clear \/ NextEntry \/ WalkList \/ Descend
           \/ Locate \/ TakeLocation \/ TakePart \/ Mkdir \/ IsDirAfterwards \/ Lend \/ OpenIt \/ CloseTouched
NsNext == Call \/ NsSteps \/ Meddle
NsSpec == NsInit /\ [][NsNext]_nsVars

-----------------------------------------------------------------------------
(* Properties.                                                             *)

\* The tree at the top: what every set has that has the top and, with a
\* directory, all it holds.
Inside == {n \in Nodes : \A S \in SUBSET Nodes :
               "top" \in S /\ (\A m \in Nodes : Up[m] \in S => m \in S) => n \in S}

\* rmtree removes nothing outside the tree whatever its links point at, on a
\* server that can tell a link from a directory and on one that cannot, and
\* what it reports removed is gone (_TreeRemoval).
RmtreeContained ==
    ns.op = "rmtree" =>
        /\ gone \subseteq Inside
        /\ ns.result = "ok" /\ ~ns.flag => fsys.kind["top"] = "none"

\* A walk goes into no directory twice, links or not, where the server says
\* which directory is which (only the top may come round once more), and a
\* server that tells links apart is not led out of the tree (_Descent).
WalkOnce ==
    ns.op = "walk" =>
        /\ server.ids => \A n \in Nodes : ns.visits[n] <= (IF n = "top" THEN 2 ELSE 1)
        /\ ns.trust = "yes" /\ ~ns.flag => \A n \in Nodes \ Inside : ns.visits[n] = 0

\* What a call reports is what happened: no change was made twice behind a
\* lost connection; every server a located manager named is among the
\* located; the parts of a listing, put together, are the listing; a
\* forgiven mkdir saw a directory; and only an open keeps its router.
CallHonest ==
    /\ ns.applied <= 1
    /\ ns.op = "deep_locate" /\ ns.result = "ok" =>
          \A loc \in ns.heard : loc.role = "server" => ns.found[loc.host] = "server"
    /\ ns.op = "scandir_parts" /\ ns.result = "ok" /\ ~ns.lost => ns.handed = Listing
    /\ ns.op = "mkdir" /\ ns.result = "ok" => ns.saw = "dir"
    /\ ns.pc = "done" => (ns.lent <=> ns.op = "open" /\ ns.result = "ok")

\* A call comes to its end, though links and managers go round in circles.
CallEnds == []((ns.pc # "idle" /\ (ns.op = "walk" => server.ids)) => <>(ns.pc = "done"))

\* A walk over links that lead out of the tree or back into it stays inside,
\* and comes to each directory once (_Descent, _TreeRemoval).
WalkSafe == RmtreeContained /\ WalkOnce
=============================================================================
