# A verification project for xrdclient

xrdclient is a pure-Python client for the XRootD protocol: one connection carries
many requests at once, matched to their answers by a 16-bit stream id; threads
share a connection without a thread of the library's own; a router follows
redirects and retries; a pool keeps connections between users; an open file
survives the loss of its server. On it stand file handles, parallel transfers,
copies between servers, a filesystem API over `root://`, WebDAV and S3, coroutines
and the names of the older Python bindings. This directory holds TLA+ models of all
of these, TLC runs that check them on small instances, and TLAPS proofs of most of the
safety properties for every value of the constants. All paths below are relative to `src/src/xrdclient/`.

`PROJECT.json` has the machine-readable side: which definition models which lines
(`map`), what each run checks (`runs`), a plausible bug each property detects
(`mutants`: the operators marked "Mutation" or standing just before the definition
they vary), the hazards the properties are for, and the theorems.

## 1. Inventory

| part | state | operations | talks to | hard because | correct when |
|---|---|---|---|---|---|
| stream ids (`proto/machine.py`) | `_pending`, `_free`, `_retired`, `_leased`, `_next_sid` | submit, resume, release, abandon, lease, retire, a reply | machine, bulk reader | late replies, wrap at 65 535 | an id is never handed out while an answer to its last user may come |
| session machine (`proto/machine.py`) | the above, `_framers`, `_out`, `_out_path`, buffers of partial answers | submit, receive_data, drain, forget_path, close | driver | answers in pieces, deferred, on another link, with data behind the frame | every request is told its own whole answer |
| bring-up (`proto/machine.py`, `session/sync.py`, `auth/__init__.py`) | `State`, `tls_active`, the `select` generator, `_paths` | connect, upgrade, authenticate, bind | server, mechanisms | TLS policy in the middle, a ladder with failures, paths bound under a closing session | nothing in the clear that should not be; no socket left behind |
| session driver (`session/sync.py`) | `_inbox`, `_reading`, `_parked`, `_outq`, two locks, `_bulk_owner`, `_doomed` | execute, bulk, close | machine, transport | threads hand the reader's role round | no lost wake-up, every request ends, each gets its own mail |
| bulk reader (`session/bulk.py`) | leased ids, replies owed, torn or not | stream, into, gather, write_chunks, settle | driver, machine | stops half-way | the wire is in step, or the connection is not used again |
| router and loans (`session/router.py`) | `_session`, `_loan`, `_borrowed`, `_aborted`, `reconnect` | execute, lend, pin, discard, abort, close | pool, sessions | last one out, aborts during dials | one owner per connection, never closed under a user |
| pool (`session/pool.py`, `_abandoned.py`) | `_idle`, `_born`, `_orphans`, reaper | acquire, release, adopt, clear, reap | routers, garbage collector | credentials change | a connection is reused only as who it logged in as |
| file handle (`client/_handle.py`, `client/_reading.py`) | `_router`, `_handle`, `recoveries`, `_aborted`, `_ahead` | open, read, re-open, abort, close | router, session | attributes read one by one by many threads | one re-open per loss, none for a writer, none after an abort |
| file writing, vectors (`client/_writing.py`, `_vector.py`, `file.py`) | `_stat`, windows of writes, the checkpoint | write, write_pieces, upload, pgwrite, writev, clone, truncate, checkpoint, readv | bulk reader, server | one write of many fails; segments come back out of order | an error is never lost behind a later success; a roll-back restores; each range gets its own bytes |
| bulk transfer (`client/bulk.py`) | spans, `_files`, `halt`, `aborted`, `cursor` | download, stream, upload, stop_now | file handles | workers, recovery, ordered writing | every byte once, in order; a cancel reaches all |
| replica fetch (`copy/replicas.py`) | `_pending`, `_busy`, `_stopped`, replicas tried | locate, take, done, stop, fetch | file handles | readers wait for each other's blocks | no block lost or written twice; all stop |
| copy engine (`copy/engine.py`, `_endpoints.py`, `_fastpath.py`, `_metalink.py`) | plan, offset to continue from, verification | copy, resume, retry, verify, clean up | all of the above, local files | retries that overwrite, somebody else's target | a copy that vouches for its target left it whole; a verified move never loses the only copy |
| copy of trees, local reader (`copy/_tree.py`, `_local.py`) | listing, results, stale handle | copy_tree, sync, prune; read, re-open | copy engine | pruning from an old listing; a source replaced | nothing deleted that was not copied; no spliced file |
| third-party copy (`copy/tpc.py`, `http/tpc.py`) | handles of both ends, the key, the pull's worker | third_party: place, arm, pull, call off, verify | two servers | two servers and a cancel | an honest result, target removed only if it is ours and empty |
| filesystem client (`client/filesystem.py`, `_fsbase.py`) | the router, a listing's batches | every public call; rmtree, walk, deep_locate | router, server | links, cycles, resent requests, parts | nothing removed outside the tree; nothing done twice |
| async bridge (`aio.py`) | jobs on a thread pool, cancel scopes | every public coroutine | the synchronous client | cancellation against a result | what an abandoned open returns is closed; writes in order |
| http, tape, s3 (`http/`, `s3/`) | the stream of a reader, a writer's buffer, an upload | the same API over HTTP | servers, copy engine | resumed GETs, retries, lost parts | bytes as they are; an object is whole or the caller hears |
| compat (`compat/client/`, `_abandoned.py`) | the open file, the queue of dropped ones, jobs | File, FileSystem, CopyProcess | the client, callbacks, fork | callbacks, collection, retries | one callback per call, each job told once, a child closes nothing of its parent's |
| wire format (`proto/frames.py`, `requests.py`, `responses.py`), transport, crypto, mechanisms, cli, compat, fsspec, test servers | little or none | encode, parse, forward | | | tests with vectors serve them better |

`PROJECT.json` lists every part with its status and the reason where it is not modelled.

The interactions that matter: a **driver** thread calls the **machine** only under
the session lock, takes bytes from it and files its events in mailboxes. A
**bulk reader** borrows the socket and some ids from both. A **router** holds a
session, alone or through a **loan**, and gets it from and returns it to the
**pool**. A **file** owns a router, pins it to the server that gave the handle and
replaces it when that server is lost.

## 2. Modules

    StreamIds  <--refines--  SessionMachine          (ids; replies and framing)
                             Bringup                 (before READY, data paths)
                             SessionDriver           (threads on one connection)
                             Connections             (routers, loans, pool)
                             FileHandle              (one open file over a router)
    MCTransfers:  BulkReader, BulkTransfer, Replicas, VectorIO, FileWriting
    MCCopies:     CopyEngine, ThirdParty, CopyTree
    MCClients:    AsyncBridge, Namespace, WebClient, Compat

    StreamIdsProofs       StreamIds
    SessionDriverProofs   SessionDriver: the reader's role, the order of frames,
                          then mail and bulk
    ConnectionProofs      Connections
    BringupProofs         Bringup
    FileHandleProofs      FileHandle
    TransferProofs        BulkReader, BulkTransfer, Replicas, FileWriting
    CopyProofs            ThirdParty, CopyTree, CopyEngine
    ClientProofs          Compat, AsyncBridge, Namespace, WebClient

Each `MCx` module gives an instance of `x` its sets; the `.cfg` files choose the
bounds. A layer is modelled over an abstraction of the one below, and the layer
below is what the module for it checks:

* **StreamIds** - the five fields of the pool, one action for each method that
  touches them, and `owed`: the ids on which the server may still send something,
  which the program cannot see. `SubmitUnframed` is a submit whose request cannot
  be encoded, `LosePath` is `forget_path`, `LastWord` is a reply that leaves
  nothing owed without being final to the machine.
* **SessionMachine** - the READY half of `SessionMachine`. A request is a tag, a
  reply a record with the tag of the request it answers, a body the sequence of
  pieces that made it up. `Send` moves what the machine queued to the server,
  `Serve` lets the server answer a request it has read, `Receive(l)` is one frame
  or one trailer parsed and dispatched: one disjunct for each `_response_*`.
  `Unsolicited` is a frame on an id no request has, which `_dispatch` must drop; no
  other step of the passing instances sends one, so it comes on a bring-up id.
  `ImplementsIds` is the refinement: `pending`, `free`, `retired`, `nextSid` as they
  are, nothing leased, and `owed` computed from the server and the wire.
* **SessionDriver** - threads in `Session.execute` and `Session.bulk`. One hold of
  `_lock` is one action, since nothing blocks inside one but the condition, which
  lets go of it. The send lock is a variable, and a batch leaves piece by piece into
  a socket of bounded capacity. `Lead`, `Follow`, `Park` and `LetGo` are the reader's
  role. A deadline is an action that may happen wherever the code looks at one.
* **Bringup** - `NEW` to `READY` for the control link and for data paths, with the
  driver that runs it. `site` is what the two ends are configured with; the server
  answers, refuses, challenges, hangs up or stays silent. `clear` and `tried` are
  ghosts: what went out unencrypted, and the mechanisms in the order they were sent.
* **Connections** - routers over a pool. A router's lock is a variable; what is
  done with a connection after the lock is let go is in `todo`, a step at a time.
  `who` is whom a connection logged in as, `born` what the pool wrote down.
* **FileHandle** - each look at, and each assignment to, the attributes of a handle
  is a step; routers are reduced to what one file can see of them.

* **BulkReader** - one loan of the wire by `Session.bulk`: requests issued on leased
  ids, frames taken in two steps (header, body) so that a clock may run out between,
  answers in any order, deferred or refused, notices between them, and `settle`, which
  drains, retires or breaks the session. `EventPathDrops` is what the machine does
  afterwards with what was retired.
* **BulkTransfer** - the workers of `download` and `stream`: spans, a handle each,
  recovery from a lost server, the turn to write, the halt after a failure, the watcher
  of a cancel.
* **Replicas** - `locate` over managers that may name each other, then readers sharing
  blocks.
* **VectorIO** - the cutting of ranges into elements and batches and the assembly of the
  segments, as operators (recursive functions), checked for every list of up to three
  ranges and every order of the answer.
* **FileWriting** - one handle's writes on the bulk plane and on the event path, page
  writes and their retries, vector writes, truncation, checkpoints, the cached size.
* **CopyEngine** - one `copy()`: plan, open, move (one stream, in parallel, bulk, from
  replicas), fail, retry or continue, check, clean up, remove the source. The target is
  a sequence of units that are right, old or holes; `OtherWrites` is another program at
  the same target.
* **ThirdParty** - both ends of a pull, the key registered at the source, the worker that
  waits in the second sync beside the thread that may call it off; HTTP COPY.
* **CopyTree** - `copy_tree` with `sync` and `delete`, and `_RecoveringLocalReader`.
* **Namespace** - a table of requests (may the router send it again? does it change
  something?), a table of what each public call sends, and the calls that are protocols
  of their own, over a small tree with a link whose target is chosen in `Init`.
* **WebClient** - the same for WebDAV, tape and S3 calls, with retries, redirects and
  challenges as the policy given to `xrdhttp` has them; then the reader, the writer, and
  S3's multipart upload, of which the parts sent so far are kept as what they hold put
  together.
* **AsyncBridge** - a table of what each coroutine submits, hop by hop, the pool of
  worker threads that runs the jobs, and cancellation at every point.
* **Compat** - the bindings' file with its reaper across a fork, callbacks in parts,
  listings gathered from several servers, and `CopyProcess`.

A table (`FsAsks`, `DavChanges`, `PathReads`, ...) classifies the methods of a stretch of
code by the only thing about them the properties tell apart. The modules of `MCTransfers`,
`MCCopies` and `MCClients` share no state: a behaviour picks one (`task`) and follows
it, so that one run asks one family of questions.

Where the source does something in one hold of a lock the action is the whole
hold; where it reads attributes without one (`client/_handle.py`), each is a step.

## 3. Runs

Passing runs, with distinct states:

| run | instance | shows | states |
|---|---|---|---|
| `stream_ids` | 4 ids | `IdsInv`, `FreshIsQuiet`: no id handed out while its last request may be answered | 18 thousand |
| `machine` | 2 ids; 2 requests of 2 pieces, every status, stray frames, plain, capped and paged; or 3 requests and a data path | `AnswersRight`: own answer, whole body; `FramingInStep`; `NoneStranded`; `ImplementsIds`, the refinement of `StreamIds` | 2.4 million |
| `session_driver` | 2 threads, 3 requests, 2 ids, deadlines, one kXR_wait, peer and local close, timeouts, bulk | `ReaderSafe`: one reader, no lost wake-up, no close under it; `MailSafe`: each answer to its own request, none forgotten; `BulkAlone`; `InOrder`; `EveryRequestEnds` | 550 thousand |
| `connections` | 2 threads and the reaper, 3 routers, 2 connections, 2 servers, 2 identities, pool of 1 | `ConnsSafe`: one owner, loans balance, never closed under a user; `PooledAsItself`; `AbortedHoldsNothing` | 1.14 million |
| `bringup` | every TLS policy and prompt setting x 2 orders x 2 offers, or two paths bound at once | `LinksProper`: nothing in the clear, paths as the session; `LadderRight`: in order, once, accepted or explained; `NothingLeaks`; `EveryBringupEnds` | 292 thousand |
| `file_handle` | 2 threads, an aborter, 2 reads, 3 connections, 2 mishaps | `HandleSafe`; `WriterSafe`: never re-opened, honest close; `NoOpenAfterAbort`; `EveryCallEnds` | 634 thousand |
| `transfers` | 2 ids, 2 chunks of a file that ends inside the second; 2 workers, 2 losses; 3 replicas, 2 managers, 2 blocks; every list of 3 ranges; 2 writes of 3 pieces | `WireSafe`: the wire is in step or not used again; `ReturnHonest`; `BulkRight`: bytes once and in order, a cancel reaches everyone; `NoBlockLost`; `VectorRight`; `WritesRight`: honest results, roll-back restores, the size is not stale; `EveryMoveEnds` | 658 thousand |
| `copies` | every kind of copy the engine plans differently, 2 units, 1 retry; every pull; 2 names, 2 workers; 3 local chunks | `CopySafe`: a copy done at once or verified is whole, a verified move keeps the data; `PullSafe`: key held, target honest; `TreeSafe`: sync right, no splice; `KeepsTheirs`; `EveryCopyEnds` | 417 thousand |
| `clients` | 1 coroutine making 3 calls over 2 workers; a tree of 7 nodes with a link to any of 4; files of 3 units; 2 jobs, 3 opens, a fork | `AsyncSafe`, `WalkSafe`, `CallHonest`, `WebRight`, `CompatRight`, `EveryCallEnds` | 467 thousand |

Why the bounds suffice. The counter of stream ids must wrap with ids in every
place, and all be taken: four ids do that, two where replies are modelled too.
An id reused wrongly needs one request given up on, one that gets its id, and one
late answer: two or three requests. A piece lost or repeated needs two pieces. A
reader's role handed over needs two threads, and one more request than threads
lets a thread come back while the other is still out. A loan's last holder needs a
filesystem, the router it lends and the one pinned from it: three routers. A
second re-open needs two threads and one lost server; the second mishap is a
failure during recovery. The bounds are the constants `Max...`, each named at its
declaration. For the transfers: a reply out of turn needs two ids, a short one a
file that ends inside a chunk; a turn waited for needs two workers, a resumed span two
pieces; a block given back needs two blocks and a replica more than readers. A copy
continued needs one unit landed and one missing. A walk that goes round needs a link to a
directory above; a link out of the tree needs a directory beside it.

Symmetry is used only in `connections`, over the threads, which has no temporal
property. Deadlock is not checked except in `stream_ids`: every other behaviour
really ends, when the bounded calls have been made and the connection is closed;
that nobody is left waiting is checked by the liveness properties and by
`ReaderSafe` and `NoneStranded`.

Fairness, and what justifies it:

* `SessionDriver`: weak fairness of each thread's steps (a runnable thread runs), of
  the server's reading and writing (the property is about a server that works) and
  of finishing a close once begun. Starting requests, deadlines, failures and the
  peer's closing are never forced. Waiting for a `kXR_wait` ends because its clock
  does.
* `Bringup`: weak fairness of each link's driver, and of "answered or out of time",
  since `request_timeout` bounds every read of a bring-up.
* `FileHandle`: weak fairness of each thread's steps, an answer or a timeout
  included; mishaps are bounded, and the retries are by `connect_retries`.
* `MCTransfers`: weak fairness of the reader's steps (every read of `session/bulk.py` is
  under the stall clock), of each worker, of the watcher once it has been asked, of the
  join, of each replica reader.
* `MCCopies`: weak fairness of the copy's own steps, an error being one of them; for a
  pull, of the client's steps, and `PullEnds` asks only for pulls that are cancelled or
  have a patience, since a pull without a limit waits for its server by design.
* `MCClients`: weak fairness of the steps of one call, of the reaper and of callbacks.
  Starting calls, cancelling, forking and what other programs do are never forced. A walk
  is asked to end where the server tells directories apart.

### Where the code and its words disagree

Three runs show a property that a comment or a docstring of the code states and
the code does not keep; `findings` quotes the lines.

* `bug_retired_forever`: a paged read abandoned between its last status header and
  the data behind it leaves its id retired for ever, and `idle()` false
  (`RetiredIsOwed`).
* `bug_abort_dial`: an abort during the dial of a redirected request does not stop
  the request (`NothingAfterAbort`).
* `bug_reopen_twice`: two threads that lose their server re-open the file twice, and
  the second takes the first one's connection away (`ReopenedOnce`).

Met while modelling, and not given a run of their own; where other constants show it,
they are named:

* The trial of arrival routing (`Session._await_arrival`) gives a data path up while a
  server that answers on the control link has its answer on the way there; the id is
  free at once and the next request on it gets that answer. `machine` with `ByArrival =
  FALSE`, the shapes `PlainPaths` and the statuses ok and error violates `AnswersRight`. A
  request on a data path that was put off with kXR_waitresp has the same end: its kXR_attn
  comes on the control link after `forget_path`.
* The reader sends what others queued before it reads, so a large write does meet a
  large reply: `session_driver` with `UpCap = DownCap = 1`, requests and replies of up to
  two units, and no expiries or failures violates `EveryRequestEnds`.
* `_within_cap` releases the id on an answer that is too long before it is complete.
  With `MaxPieces = 3` `machine` violates `AnswersRight` by it; it takes a
  server that breaks the protocol, and the run's server does so only in a last piece.
* `pool.connect` takes the identity before the login reads the credentials. With
  `CredRace = TRUE` and two mishaps `connections` violates `PooledAsItself`.
* `_reopen` publishes the new router before the new handle, so a read beside it may
  take the old handle to the new connection and fail with kXR_FileNotOpen, which is
  not retried (result `notopen` in `FileHandle`).
* `Router.abort` waits for the router's lock, which a dial holds.
* `submit` takes an id before it frames the request: one that cannot be encoded leaves
  its id taken (`SubmitUnframed` in `StreamIds`).
* `resume` sends a request that came in on a data path again on the control link only.
* `_drop(None)`, after a dial that failed, lets go of whatever connection the router
  has by then, another thread's fresh one included.
* `order.remove("ztn")` takes out one entry of an `auth_order` that names it twice.
* `BulkReader.into` counts bytes that landed after a short reply as if there were no gap.
* A resent listing request hands the parts it had handed on already to the caller once
  more (`_scandir_parts`); `CallHonest` asks only for listings that were not resent.
* `walk` does not note the identity of its root, which a link may bring round once more;
  on a server that gives no identities and does not tell links, a cycle never ends.
* `_deep_locate` does not descend into a node first seen as a server and then as a manager.
* `checkpoint()` of the async file enters by `_run`: cancelled at that moment it leaves a
  checkpoint begun. `writev`, `pgwrite` and `clone` there are not flushed first, though
  `_flushed` speaks of positional I/O in general; `AsyncSafe` asks only for those that are.
* `_RETRYABLE` in `http/client.py` has MOVE and DELETE: repeated after a lost answer they
  are refused although the first did its work.
* S3's exclusive create is not conditional when the upload is completed in parts. A
  resumed GET has no `If-Range`. An HTTP writer whose chunk failed may still PUT on close.
* `rmdir` over WebDAV lists, then deletes: a file made in between goes with it.
* A copy that lost its link while it wrote out of order (spans, replicas) is continued from
  the length of the target, holes before it included; only verification finds it.
  `CopySafe` speaks of copies that verify, or that succeed at the first try.
* `_attempts` of the bindings' CopyProcess retries with `force` though the target may be
  another program's.
* Overlapping opens with callbacks on one bindings' File leave one native file unheld; a
  forked child that collects an inherited open File closes the parent's handle.
* `_probe` takes a connection failure for "nothing there"; `_close_both` closes the
  destination before the source.

## 4. Proofs

A theorem here is about the same definition a run checks, for every value of the
constants that its named assumption allows, so for any number of threads, requests,
chunks, retries or names. The assumptions give the constants their types (a count is a
natural number, a chunk is not empty, "no thread" is not a thread); those that say
more are `BringupAssumption`, where a mechanism is named once in `auth_order` and once in
the server's list (section 3 has what becomes of one named twice), `CopyAssumption`,
where a stream the caller hands in is not a target that exists already, and `NsAssumption`,
about the tree, below. TLC evaluates each on its runs. None of the theorems uses fairness.

| module | theorem | property | assumption |
|---|---|---|---|
| `StreamIdsProofs` | `IdsSafe`, `NeverReusedWhileOwed` | `IdsInv`, `FreshIsQuiet` | `SidRange`: `FirstSid <= MaxSid` |
| `SessionDriverProofs` | `ReaderIsSafe`, `FramesInOrder` | `ReaderSafe`, `InOrder` | `DriverAssumption` |
| | `MailIsSafe`, `BulkIsAlone` | `MailSafe`, `BulkAlone` | the same |
| `ConnectionProofs` | `AbortedLetsGo` | `AbortedHoldsNothing` | `ConnectionsAssumption` |
| `ConnectionProofs` | `ConnsAreSafe` | `ConnsSafe` | `ConnectionsAssumption` (finitely many threads and routers) |
| `ConnectionProofs` | `PooledIsItself` | `PooledAsItself` | `ConnectionsAssumption`, and `~CredRace`: the credentials do not change between the identity a login goes by and the login (section 3) |
| `BringupProofs` | `LinksAreProper`, `LadderIsRight`, `NothingIsLeaked` | `LinksProper`, `LadderRight`, `NothingLeaks` | `BringupAssumption` |
| `FileHandleProofs` | `HandleIsSafe`, `WriterIsSafe`, `NothingOpenedAfterAbort` | `HandleSafe`, `WriterSafe`, `NoOpenAfterAbort` | `FileAssumption` |
| `TransferProofs` | `WireIsSafe` | `WireSafe` | `BulkAssumption` |
| | `BulkIsRight` | `BulkRight` | `TransferAssumption` |
| | `NoBlockIsLost` | `NoBlockLost` | `ReplicasAssumption` |
| | `WritesAreRight` | `WritesRight` | `WritingAssumption` |
| `CopyProofs` | `PullIsSafe` | `PullSafe` | `PullsAssumption` |
| | `TreeIsSafe` | `TreeSafe` | `TreeAssumption` |
| | `CopyIsSafe`, `TheirsIsKept` | `CopySafe`, `KeepsTheirs` | `CopyAssumption` |
| `ClientProofs` | `CompatIsRight` | `CompatRight` | `CompatAssumption` |
| | `AsyncIsSafe` | `AsyncSafe` | none |
| | `WalkIsSafe`, `CallIsHonest` | `WalkSafe`, `CallHonest` | `NsAssumption` |
| | `WebIsRight` | `WebRight` | `WebAssumption` |

Every proof has the same shape: an inductive invariant, a lemma that the initial states
satisfy it, one lemma per action that the action keeps it, and the property as a
consequence. What makes the work is the strengthening.

**StreamIds.** `FreshIsQuiet`, the first rule `machine.py` gives its maintainers, cannot be
proved from the types: `_acquire_sid` hands out the head of `_free` without looking at
anything. `IdsInv`: ids are in at most one place (`OnePlace`), are queued once (`FreeOnce`:
two entries would be handed to two requests), and what the server may still answer on is
pending, leased or retired (`OwedHeld`). Then nothing is owed on the head of `_free`, and
popping it leaves it queued nowhere (`AcquireFresh`). The run `machine` checks that the
machine with its replies implements `StreamIds`, which carries the conclusion over to it
on its instance.

**SessionDriver.** `ReaderInv` is `Types` and `Roles`: the reader's role is one thread's and
`_reading` says whether it is anyone's, the send lock is held in exactly the places where
frames are in hand, nobody is parked unless somebody reads, nobody waits for a turn unless
a transfer runs, and the descriptor is shut only once the session is over. `OrderInv`
numbers frames as they are framed and says that along the queue, the batch in hand and the
socket (`QueueOrder`, `BatchOrder`, `UpOrder`) the numbers only grow and none is behind what
has arrived; the action property `InOrder` follows. `MailInv` is about ids that are given up
while something is owed on them - their frame queued, in hand, in the socket, at the
server, or the answer on the way back. Whatever is owed on a stream is owed to the request
that has the id, or the id is retired (`Owed`); one thing is owed at a time and in one place
(`Once`, `Apart`), none while a request sits out a kXR_wait (`Quiet`); a live request is on
file with the machine or has its end in its mailbox (`Boxed`, `Filed`); and a transfer has
the wire only while nothing is pending or retired (`Lent`). `RightMail` then follows from
each delivery.

**Connections.** An abort sets a flag and lets go of the connection in one hold of the
router's lock, but a dial is done outside it and comes back later. `AbortInv` says where a
thread can be while it connects and that it holds the lock of the router it connects for
(`Connecting`), that a router lent another's connection has a filesystem's router for its
lender (`Lenders`), that an aborted router has a connection only while a thread that has just
dialled it looks whether it was aborted (`DialledLate`), and that a borrowed connection is
some request's (`BorrowedBy`).

`ConnsSafe` counts owners, and a count is not inductive: a step that moves a connection
subtracts in one place and adds in another. `OwnInv` says instead that of all the `Slots` that
can own a connection (a bucket of the pool, a router, a loan, the collector's queue, a
thread's hands, a worker's list) no two hold the same one, that an open one is held, that one
not yet dialled is not (`Owned`), and that no list or bucket names one twice (`Distinct`).
Round it: a loan's number is that of the routers that use it, the collected ones queued and the
workers on their way out, who have it first on their list (`LoanOK`, `ItemOK`); a router on
a loan has the loan's connection and one that borrows from a lender has none of its own
(`RouterOK`); a thread that dials for a router, whose lock it holds by `AbortInv`, finds
nothing there to overwrite (`ThreadOK`). Each action has a lemma that says which slot a
connection left and which it went to; the seven cardinalities of `Owners` are then 1 for the
slot that holds it and 0 for the rest (`OwnerCount`).

A connection is filed in the pool under the server its last holder thought it was on, so
`PooledAsItself` needs to know where every holder's connection leads. `HomeInv`: an open
connection that a router, a loan, the collector's queue, a thread or a worker's list has
leads to the server noted beside it (`RouterHome`, `LoansHome`, `LostHome`, `ListHome`,
`ThreadHome`), and while there is a pool it is known by the identity that logged in on it
(`KnownAs`). A router that borrows its lender's connection does not take over the lender's
server with it, so the two must agree: a router that does not follow redirects, or has
yet to borrow its first connection, is at the server it began with (`Fixed`), and a thread
whose router borrows holds its lock, so that it stays there. A closed connection forgets
its server, which is why those in the pool must be nobody else's to close: `IdleAlone`, from
`OwnInv`.

**Bringup.** `BringupInv`: what the state of the session leaves of its links (`Standing`), a
filed path is open, bound and under its own id (`Filed`), which one request or reply is
under way on a link (`Talks`), and let in only by the server (`Admitted`). `Climbing`: what
was tried ranks before every rung that is left, and each mechanism offered is ahead, in
play or turned down. `Secure` is the strengthening for TLS: a link past kXR_protocol is
encrypted where either end asks for it, and the token is no rung of a link in the clear
unless the user allowed it. The ladder is a set of rungs in the order `Rank` of the user's
ranking and the server's offer, rather than a sequence cut down step by step.

**FileHandle.** The steps look at one attribute at a time. `FileInv` says which call and which
request a thread can be at in each place (`Lanes`, `Roles`), that the lock is held by
exactly the thread that re-opens (`Locked`), and that there is no handle only before the
open has succeeded or after a close took it (`Handled`), so that no read finds none in the
middle of a re-open (`NeverFoundNone`). `Writers` keeps a writer away from the places of a
re-open; `Closing` says what a close under way will say. For `NoOpenAfterAbort`, `Aborting`:
whoever has a kXR_open to send has it on the file's router, which the abort has got hold
of or had the abort passed on to.

**BulkReader.** `WireInv` follows an id around: it is free, owed an answer, or answered and
waiting for its turn in a stream (`Sorted`), and whatever is at the server or on the wire
is on an id the reader is owed an answer on, or, after the loan, one the machine has
retired (`Owing`). After the last word on a request nothing more comes on its id
(`OneWord`), so that the id of a final frame in hand is quiet before its body is read
(`InHand`) and may be freed with it. A header without its body, or a request sent
part-way, leaves the wire torn, and a torn wire is never drained (`Torn`). The ids of
`BulkAssumption` leave out 0, which the machine never leases and the server uses for what
nobody asked for. What `Others` keeps of the order of a stream is not needed for any of
this.

**BulkTransfer, Replicas.** `BulkInv`: chunks done lie in their span (`InSpan`), land once
(`LandedOnce`), in a stream at its front (`StreamInOrder`); once joined all have ended
(`Joined`); a cancel finds the files of every worker that reads, those listed after it
included (`CancelFinds`), and a worker lands one piece after it at most (`OneLate`). `FetchInv`: a unit is written, queued or in
the hands of exactly one reader (`Placed`), blocks end where the file does (`InFile`), and
what is counted as busy is the number of readers that hold a block, what is counted as
moved the number of units written (`Counted`): without it a reader might leave while
another still has to give its block back.

**FileWriting.** `WriteInv`: the calls' places (`WhoWrites`: nothing on the plane inside a
checkpoint); `Progress`, one clause per place - on the plane every unit sent is in flight,
put off, or stored, and an upload's count with the two sets makes up what was sent
(`Window`, only while nothing has failed), then put off or stored (`PutOff`), stored up to
here (`OneByOne`), stored and corrupt only where the retries will come (`Paged`);
`Journalling`: what the server has and what it wrote down make up the file the checkpoint
began with; `Cached`: a cached size is right, or a call is under way that drops it or says
so.

**ThirdParty, CopyTree, CopyEngine.** `PullInv` has, for each step of a pull, what is held at
both servers (`HeldAt`) and what the destination's file is (`FileAt`). `TreeInv` says a name is
with a worker or dealt with (`Dealing`) and what is dealt with is as the mode asks
(`DealtRight`); `LocalInv` that the reader's chunks are of one generation of the file.
`CopyInv` is the largest: whose the target is (`Theirs`, `Owned`), when a copy may overwrite
or continue, and by which plan (`Chosen`, `Planned`), that nothing is counted twice and with
everything counted all but the rest has landed (`Counted`, `Landed`, `Streamed`), and what a
transfer that is over left behind (`Vouched`).

**Compat.** Three invariants over disjoint variables: `FilesInv` (`Kept`, `Own`, `Apart`: an open
native file is the File's or waits to be closed, not both, and a child has nothing of what
its parent had queued), `PartsInv` (`Worded`: a callback hears the parts in order and one last
word; `Gathered`: a listing that succeeded has every server's part) and `JobsInv` (`JobGood` of
every job: what its handler heard goes with where it stands, and it reports success with
its own file whole).

**AsyncBridge.** `BridgeInv` ties a job to the coroutine that waits for it: each waits for one
job of its own call and hop, and what is left of the job's steps is the rest of that hop
(`OwnJobs`, `WorkGood`, `CoroGood`). `Opened`: a job that made a handle is over, and what
waits for it is an open, which is why a handle is always in somebody's hands, in a result
not yet delivered, or in the queue to be closed. The order of writes needs two more.
`Unreturned`: whatever can still reach the server on behalf of a call belongs to one that
has not returned, except for an abandoned call, which may only fill the buffer.
`Flushes`: nothing in the buffer is older than what was put or is about to be. `Journalled`:
a journal is that of a block still to be left.

**Namespace.** A directory tree is any function `Up` from nodes to directories, the links go
anywhere, and `Inside` is the smallest set that has the top and with a directory what it
holds. `Removing`: all that rmtree has in hand, its stack of listings included, is inside,
and nothing that is a link is listed; the first frame of the stack is the top, so when the
stack is empty and nothing failed the top is gone. `Walking` counts: a directory has been
listed, or is about to be, no more often than it was entered (`Entered`), once in `_seen`
and once as the root; while links can be told, everything stacked is inside. `Locating`:
a location heard of is still pending or noted as the server it was named as. `HandedOn`:
what was handed on is the listing up to the next part, and the first part has fixed how the
others are read; that every part is parsed to its own name is `PartRead`. `NsAssumption`
says that the top is a root and no link (rmtree refuses one, a walk follows it), that a
location names a host that can be asked, and that no entry of a listing is called ".".

**WebClient.** A behaviour has one kind of call, and `WebInv` a lane for each, the other lanes
being as they began. `ReaderPlace`: an open body stands where the caller does, or at the
end of the file where the caller is past it (a server that ignores ranges is skipped
through), and a known end is not before the file's. `WriteLane`: what was sent, what is
about to be and what is held make up what was written, in this order, as long as nothing
was raised or, for S3, no part was lost (`NothingLost`); where the upload stands at each
place, so that what is committed is all of it (`WritePlaces`); an upload at the server is
the one at work, or its abort or the answer that named it was lost (`UploadsNamed`).
`MkdirLane`: the first of the directories still to be made is the one that was asked for,
so it is the last to be made. `WebAssumption` has a part hold something and a path have a
component.

Facts that several proofs need are lemmas at the head of their modules: what appending to,
dropping from and replacing in a sequence does (`AppendAt`, `TailAt`, `PutAt`), the members
of a queue (`Members`), the minimum and maximum of two (`MinOfTwo`, `MaxOfTwo`), what a
store leaves at the server (`StoredIs`, `StoreUndoes`).

Only model-checked:

* every liveness property: fairness and ENABLED are outside what the prover does;
* `VectorRight`: the cutting and assembling of ranges are recursive functions over data,
  whose results for every input need an induction the provers cannot instantiate; for the
  same reason `ReturnHonest`, which adds up the lengths of replies;

* `AnswersRight`, `FramingInStep`, `NoneStranded` and the refinement `ImplementsIds`: they hold
  under what the run's constants say of the server (see the list in section 3), and their
  invariant relates three queues with the partial answers.

The layers are proved one by one over their abstractions; that the abstraction of a lower
layer is what its module gives is argued in section 2, not proved.

## 5. Not modelled

* Contents: bytes, paths, flags and credentials are model values; the encodings of
  `proto/` and the cryptography have test vectors.
* Clocks: a deadline, a stall or a timeout may happen whenever the code would look.
* Several data paths read at once by different threads, and the caller's side of the
  arrival-routing trial (`SessionDriver` has the control link only).
* The read-ahead block, the extra data streams and the zip view of a file.
* `xrdhttp`, which is not in this repository: its retries and redirects are modelled from
  the policy `http/client.py` gives it.
* `glob`, `list_archive`, whole-file helpers, the fsspec adapter and the command line:
  compositions of calls that are modelled, with no state of their own.
* Exceptions raised asynchronously (KeyboardInterrupt) inside a send.
* The composition of the layers above `SessionMachine` into one state space: each is
  checked over an abstraction of the one below.

## 6. Plan

The modules were written in the order of what depends on what, then the proofs of the
parts where an interleaving or a failure at any point matters most. Next:
the refinement of `StreamIds` by `SessionMachine` under a server that keeps to the protocol.
