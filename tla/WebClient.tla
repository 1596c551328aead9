------------------------------ MODULE WebClient ------------------------------
(***************************************************************************)
(* http/ and s3/: what the client does over HTTP, in four kinds.           *)
(*                                                                         *)
(*  call    one public call, one request: WebDAV, tape, S3 (HTTPClient);   *)
(*  names   the calls of several requests: mkdir(parents), S3's rename;    *)
(*  read    a reader (HTTPRawIO), its GET dropped and resumed;             *)
(*  write   a writer, by PUT, by chunked upload or by S3 multipart upload. *)
(*                                                                         *)
(* Connections, redirects and retries are run by xrdhttp's session, which  *)
(* is not in this repository: it is modelled from the policy it is given.  *)
(* A file is 1, 2, 3, ... and a byte of it its number.                     *)
(***************************************************************************)
EXTENDS Integers, Sequences, FiniteSets, SequencesExt, FiniteSetsExt

CONSTANTS
    FileUnits,       \* bound: how long a file is
    ReadRetries,     \* config.connect_retries
    RedirectLimit,   \* config.redirect_limit
    StreamAfter,     \* config.chunk_size, in units
    PartSize,        \* _part_size: the least an S3 part holds
    PathDepth,       \* bound: components of the path a mkdir is given
    Spans            \* the ranges a vector read may ask for

ASSUME WebAssumption ==
    /\ FileUnits \in Nat /\ PartSize \in Nat \ {0} /\ PathDepth \in Nat \ {0}
    /\ Spans \subseteq [off : Nat, len : Nat]

VARIABLES
    web,     \* the call, or the file object
    site,    \* the server
    tale     \* history: what the caller was told, and what that rests on

webVars == <<web, site, tale>>

-----------------------------------------------------------------------------
(* What each public call sends, by service; an answer on the way may decide *)
(* the call before the rest is sent.                                       *)

Asks(names, methods) == [n \in names |-> methods]

DavAsks == {Asks({"ping"}, <<"OPTIONS">>), Asks({"scandir", "listdir"}, <<"PROPFIND">>),
            Asks({"stat", "statx", "exists", "isdir", "getsize"}, <<"PROPFIND", "HEAD">>)}
DavChanges == {Asks({"remove"}, <<"DELETE">>), Asks({"rmdir"}, <<"PROPFIND", "DELETE">>),
               Asks({"rename"}, <<"MOVE">>), Asks({"touch"}, <<"PROPFIND", "PUT">>)}
Digests == {Asks({"checksum"}, <<"HEAD">>)}
Macaroons == {Asks({"macaroon"}, <<"POST">>)}
DavTape == {Asks({"prepare"}, <<"POST">>), Asks({"query_prepare"}, <<"GET">>), Asks({"cancel_prepare"}, <<"DELETE">>)}
TapeCalls == {Asks({"stage", "cancel_files", "release", "archive_info"}, <<"POST">>),
              Asks({"status", "discover"}, <<"GET">>), Asks({"cancel"}, <<"DELETE">>)}
S3Asks == {Asks({"s3_ping", "s3_checksum"}, <<"HEAD">>), Asks({"s3_stat"}, <<"HEAD", "GET">>),
           Asks({"s3_scandir"}, <<"GET", "GET">>)}
S3Marks == {Asks({"s3_mkdir", "s3_makedirs"}, <<"HEAD", "GET", "PUT">>), Asks({"s3_rmdir"}, <<"GET", "DELETE">>)}
S3Changes == {Asks({"s3_remove"}, <<"DELETE">>), Asks({"s3_touch"}, <<"HEAD", "PUT">>)}
WebCalls == UNION {DavAsks, DavChanges, Digests, Macaroons, DavTape, TapeCalls, S3Asks, S3Marks, S3Changes}

Requested == UNION {DOMAIN asks : asks \in WebCalls}
Sends(op) == (CHOOSE asks \in WebCalls : op \in DOMAIN asks)[op]

Retryable == {"GET", "HEAD", "PUT", "DELETE", "OPTIONS", "PROPFIND", "MKCOL", "MOVE", "COPY"}
Changing == {"PUT", "DELETE", "MKCOL", "MOVE", "COPY", "POST"}

\* What the server refuses once it has done it.
Once == {"remove", "rmdir", "rename", "cancel", "cancel_prepare"}

\* Hosts a redirect may name: the origin, one in a trusted domain, another.
Hosts == {"home", "trusted", "elsewhere"}

-----------------------------------------------------------------------------
NoObject == <<0>>
Theirs == <<-1>>
Eof == <<0>>

Resting == [op |-> "none", pc |-> "idle", result |-> "none", step |-> 1,
            tries |-> 0, host |-> "home", creds |-> TRUE, hops |-> 0, asked |-> FALSE,
            exist_ok |-> FALSE, level |-> PathDepth, missing |-> << >>,
            pos |-> 0, body |-> -1, size |-> -1, eof |-> -1, multirange |-> TRUE, spans |-> {},
            s3 |-> FALSE, excl |-> FALSE, buf |-> << >>, up |-> "none", pend |-> << >>, parts |-> << >>,
            failure |-> FALSE, wrote |-> 0]

NothingTold == [applied |-> 0, told |-> {}, got |-> << >>, at |-> 0, pieces |-> {}, cut |-> FALSE,
                raised |-> FALSE, orphan |-> FALSE, overwrote |-> FALSE]

\* declares: a HEAD says how long the file is; framed: a body says where it
\* ends (Content-Length or chunks), and is not ended by the connection.
AnySite == [ranges |-> TRUE, multi |-> TRUE, declares |-> TRUE, framed |-> TRUE, names |-> [l \in 1 .. PathDepth |-> "none"],
            src |-> "data", dst |-> "none", obj |-> NoObject, uploads |-> {}, kind |-> "call"]

WebInit ==
    /\ web = Resting
    /\ \/ \E kind \in {"call", "rename", "write"} : site = [AnySite EXCEPT !.kind = kind]
       \/ \E r, m, d, f \in BOOLEAN :
            site = [AnySite EXCEPT !.kind = "read", !.ranges = r, !.multi = m, !.declares = d, !.framed = f]
       \/ \E first \in 1 .. PathDepth, what \in {"none", "coll", "file"} :
            site = [AnySite EXCEPT !.kind = "mkdir",
                       !.names = [l \in 1 .. PathDepth |-> IF l < first THEN "coll" ELSE IF l = first THEN what ELSE "none"]]
    /\ tale = NothingTold

Going(pc) == web' = [web EXCEPT !.pc = pc]
Ends(result) == web' = [web EXCEPT !.pc = "over", !.result = result]

-----------------------------------------------------------------------------
(* One call, one request.                                                  *)

\* carries_credentials, _carries: to the origin or a trusted domain alone.
Carries(host) == host \in {"home", "trusted"}

\* A public call begins.  What the service has no request for is refused
\* before anything is sent, and is not among the calls.
BeginCall ==
    /\ site.kind = "call" /\ web.pc = "idle"
    /\ \E asks \in WebCalls : \E op \in DOMAIN asks : web' = [web EXCEPT !.op = op, !.pc = "send"]
    /\ UNCHANGED <<site, tale>>

\* check_status, status_code: an answer that was not asked for is an error.
CallError == web' = [web EXCEPT !.pc = "over", !.result = "error"]

\* A request was answered: the next one is sent, or the answer is enough.
Answered ==
    IF web.step = Len(Sends(web.op)) THEN {[web EXCEPT !.pc = "over", !.result = "ok"]}
    ELSE {[web EXCEPT !.step = @ + 1, !.tries = 0, !.host = "home", !.creds = TRUE, !.hops = 0, !.asked = FALSE],
          [web EXCEPT !.pc = "over", !.result = "ok"], [web EXCEPT !.pc = "over", !.result = "refused"]}

\* _prepare: what goes out on this hop shows the credentials, or does not.
Shown == [tale EXCEPT !.told = IF web.creds THEN @ \cup {web.host} ELSE @]

\* The session carries the request to one host, and the server answers, or
\* is busy, or the connection fails before or after it acted: a verb of
\* Retryable goes once more (__post_init__), one that timed out does not.
SendCall ==
    /\ web.pc = "send"
    /\ LET method == Sends(web.op)[web.step]
           did == method \in Changing /\ web.op \in Once /\ tale.applied > 0
           acts == [Shown EXCEPT !.applied = IF method \in Changing /\ ~did THEN @ + 1 ELSE @]
       IN \/ ~did /\ web' \in Answered /\ tale' = acts
          \/ Ends("refused") /\ tale' = Shown
          \/ /\ tale' \in {tale, Shown, acts}
             /\ \/ method \in Retryable /\ web.tries = 0 /\ web' = [web EXCEPT !.tries = 1]
                \/ CallError
    /\ UNCHANGED site

\* A redirect: each hop is asked anew whether credentials go along (_carries).
Redirected ==
    /\ web.pc = "send"
    /\ \E host \in Hosts :
         IF web.hops < RedirectLimit
         THEN web' = [web EXCEPT !.host = host, !.creds = Carries(host), !.hops = @ + 1]
         ELSE CallError
    /\ tale' = Shown /\ UNCHANGED site

\* _reauth, _ask_for_credentials: a 401 is answered once by another credential,
\* which the same hop shows if it may show any.
Challenged ==
    /\ web.pc = "send"
    /\ \/ ~web.asked /\ web' = [web EXCEPT !.asked = TRUE]
       \/ CallError
    /\ tale' = Shown /\ UNCHANGED site

-----------------------------------------------------------------------------
(* mkdir(parents) and S3's rename.                                         *)

Above(l) == IF l = 1 THEN TRUE ELSE site.names[l - 1] = "coll"

BeginMkdir ==
    /\ site.kind = "mkdir" /\ web.pc = "idle"
    /\ \E ok \in BOOLEAN : web' = [web EXCEPT !.op = "mkdir", !.pc = "mkcol", !.exist_ok = ok]
    /\ UNCHANGED <<site, tale>>

\* Once a collection is there, the next missing one is made, the target last.
NextMissing ==
    IF web.missing = << >> THEN [web EXCEPT !.pc = "over", !.result = "ok"]
    ELSE [web EXCEPT !.level = Last(web.missing), !.missing = Front(@), !.pc = "down"]

\* _mkcol: 405, or 403 from EOS and dCache, is forgiven for a collection.
Forgiven(l) == (l # PathDepth \/ web.exist_ok) /\ site.names[l] = "coll"

\* mkdir: up while the server says the parent is missing, then down again.
Mkcol ==
    /\ web.pc \in {"mkcol", "down"}
    /\ LET l == web.level
           failed == [web EXCEPT !.pc = "over", !.result = "error"]
       IN \/ /\ site.names[l] = "none" /\ Above(l) /\ site' = [site EXCEPT !.names[l] = "coll"]
             \* or the answer is lost, and the session's second MKCOL finds it there
             /\ web' \in {NextMissing, IF l # PathDepth \/ web.exist_ok THEN NextMissing ELSE failed}
          \/ site.names[l] # "none" /\ UNCHANGED site /\ web' = IF Forgiven(l) THEN NextMissing ELSE failed
          \/ /\ site.names[l] = "none" /\ ~Above(l) /\ UNCHANGED site
             /\ web' = IF l = 1 \/ web.pc = "down" THEN failed
                       ELSE [web EXCEPT !.level = l - 1, !.missing = Append(@, l)]
          \/ CallError /\ UNCHANGED site
    /\ UNCHANGED tale

BeginRename ==
    /\ site.kind = "rename" /\ web.pc = "idle"
    /\ web' = [web EXCEPT !.op = "s3_rename", !.pc = "copy"]
    /\ UNCHANGED <<site, tale>>

\* A 200 whose body says Error is no copy.
CopySaid(answer) == answer = "done"

CopyObject ==
    /\ web.pc = "copy"
    /\ \E answer \in {"done", "Error", "lost", "refused"} :
         /\ site' \in IF answer = "done" THEN {[site EXCEPT !.dst = site.src]}
                      ELSE IF answer = "lost" THEN {site, [site EXCEPT !.dst = site.src]} ELSE {site}
         /\ IF CopySaid(answer) THEN Going("delete") ELSE CallError
    /\ UNCHANGED tale

DeleteSource ==
    /\ web.pc = "delete"
    /\ \/ site' = [site EXCEPT !.src = "none"] /\ (Ends("ok") \/ CallError)
       \/ CallError /\ UNCHANGED site
    /\ UNCHANGED tale

-----------------------------------------------------------------------------
(* Reading.                                                                *)

Clip(from, to) == [i \in 1 .. Max({0, Min({to, FileUnits}) - from}) |-> from + i]
NoBody == [web EXCEPT !.body = -1]
ReadError == web' = [NoBody EXCEPT !.pc = "idle", !.tries = 0] /\ UNCHANGED <<site, tale>>

\* readinto: at a known end nothing is sent.
BeginRead ==
    /\ site.kind = "read" /\ web.pc = "idle"
    /\ IF web.eof >= 0 /\ web.pos >= web.eof
       THEN tale' = [tale EXCEPT !.at = web.pos, !.got = Eof, !.pieces = {}] /\ UNCHANGED web
       ELSE Going(IF web.body < 0 THEN "get" ELSE "take") /\ tale' = [tale EXCEPT !.at = 0, !.got = << >>, !.pieces = {}]
    /\ UNCHANGED site

\* A GET that dropped is resumed, so often.
Resume ==
    IF web.tries < ReadRetries THEN web' = [NoBody EXCEPT !.pc = "get", !.tries = @ + 1] /\ UNCHANGED <<site, tale>>
    ELSE ReadError

\* A 200 in place of a 206 is the whole file: skip to the position.
Skipped(pos) == IF site.ranges THEN pos ELSE Min({pos, FileUnits})

\* _stream: a new GET from the position; 416 says there is nothing there.
StartGet ==
    /\ web.pc = "get"
    /\ \/ /\ site.ranges /\ web.pos > 0 /\ web.pos >= FileUnits
          /\ tale' = [tale EXCEPT !.at = web.pos, !.got = Eof]
          /\ web' = [web EXCEPT !.pc = "idle", !.tries = 0] /\ UNCHANGED site
       \/ /\ ~site.ranges \/ web.pos = 0 \/ web.pos < FileUnits
          /\ web' = [web EXCEPT !.pc = "take", !.body = Skipped(web.pos)] /\ UNCHANGED <<site, tale>>
       \/ Resume
       \/ ReadError

\* _read_live: some of the body, or its end.  What breaks off before a
\* promised end is a TransientError, which gives the body up; a reset is
\* not, and the same body is read again.  Without a promise the end of the
\* connection is taken for the end of the file.
TakeBody ==
    /\ web.pc = "take"
    /\ \/ \E n \in 1 .. FileUnits - web.body :
            /\ tale' = [tale EXCEPT !.at = web.pos, !.got = Clip(web.body, web.body + n)]
            /\ web' = [web EXCEPT !.pc = "idle", !.tries = 0, !.body = @ + n, !.pos = @ + n]
            /\ UNCHANGED site
       \/ /\ web.body >= FileUnits
          /\ tale' = [tale EXCEPT !.at = web.pos, !.got = Eof]
          /\ web' = [NoBody EXCEPT !.pc = "idle", !.tries = 0, !.size = web.pos, !.eof = web.pos]
          /\ UNCHANGED site
       \/ /\ ~site.framed /\ web.body < FileUnits
          /\ tale' = [tale EXCEPT !.at = web.pos, !.got = Eof, !.cut = TRUE]
          /\ web' = [NoBody EXCEPT !.pc = "idle", !.tries = 0, !.size = web.pos, !.eof = web.pos]
          /\ UNCHANGED site
       \/ site.framed /\ Resume
       \/ web.tries < ReadRetries /\ web' = [web EXCEPT !.tries = @ + 1] /\ UNCHANGED <<site, tale>>
       \/ \* a stall, or one reset too many, is the caller's, who may read on
          web' = [web EXCEPT !.pc = "idle", !.tries = 0] /\ UNCHANGED <<site, tale>>

\* size: a HEAD, once; an undeclared length is no end to stop at.
AskSize ==
    IF web.size >= 0 THEN web
    ELSE [NoBody EXCEPT !.size = IF site.declares THEN FileUnits ELSE 0, !.eof = IF site.declares THEN FileUnits ELSE @]

\* seek: SEEK_SET and SEEK_CUR, or SEEK_END, which has to ask.
Seek ==
    /\ site.kind = "read" /\ web.pc = "idle"
    /\ \/ \E to \in 0 .. FileUnits + 1 : web' = IF to = web.pos THEN web ELSE [NoBody EXCEPT !.pos = to]
       \/ LET w == AskSize
          IN web' = IF w.size = web.pos THEN w ELSE [w EXCEPT !.body = -1, !.pos = w.size]
    /\ UNCHANGED <<site, tale>>

Piece(span, got) == [span |-> span, got |-> got]
Right(span) == Clip(span.off, span.off + span.len)
ReadVEnds == web' = [web EXCEPT !.pc = "idle", !.spans = {}]

\* readv: the stream is given up, and the ranges go out together if they may.
BeginReadV ==
    /\ site.kind = "read" /\ web.pc = "idle"
    /\ \E spans \in SUBSET Spans \ {{}} :
         web' = [NoBody EXCEPT !.spans = spans, !.pc = IF web.multirange /\ Cardinality(spans) > 1 THEN "ranges" ELSE "span"]
    /\ tale' = [tale EXCEPT !.at = 0, !.got = << >>, !.pieces = {}]
    /\ UNCHANGED site

\* _read_multirange, _take_ranges: every range that lies in the file, one of
\* them, or the whole file, which is not read; 416, for none in the file,
\* leaves the way open, a server that serves only one does not.
TakeRanges ==
    /\ web.pc = "ranges"
    /\ LET inside == {s \in web.spans : s.off < FileUnits}
       IN \/ \E filled \in (IF ~site.ranges \/ inside = {} THEN {{}} ELSE IF site.multi THEN {inside}
                            ELSE {{s} : s \in inside}) :
               /\ tale' = [tale EXCEPT !.pieces = {Piece(s, Right(s)) : s \in filled}]
               /\ web' = [web EXCEPT !.pc = "span", !.spans = @ \ filled,
                                     !.multirange = site.ranges /\ (site.multi \/ filled \in {{}, web.spans})]
          \/ ReadVEnds /\ UNCHANGED tale
    /\ UNCHANGED site

\* _read_span: one range; 416 is empty, 200 is skipped through, and a body
\* without a promised end may break off unseen.
TakeSpan ==
    /\ web.pc = "span"
    /\ \/ web.spans = {} /\ ReadVEnds /\ UNCHANGED tale
       \/ \E s \in web.spans :
            /\ web' = [web EXCEPT !.spans = @ \ {s}]
            /\ \/ tale' = [tale EXCEPT !.pieces = @ \cup {Piece(s, Clip(Skipped(s.off), Skipped(s.off) + s.len))}]
               \/ \E n \in 0 .. s.len :
                    /\ ~site.framed
                    /\ tale' = [tale EXCEPT !.pieces = @ \cup {Piece(s, Clip(s.off, s.off + n))}, !.cut = TRUE]
       \/ web.spans # {} /\ ReadVEnds /\ UNCHANGED tale
    /\ UNCHANGED site

-----------------------------------------------------------------------------
(* Writing.                                                                *)

\* _streaming: a failed multipart upload still counts.
Streaming == web.up # "none" \/ web.failure

Refuses == web.excl /\ site.obj = Theirs

\* __init__, _check_exclusive: only x mode asks anything yet.
OpenWriter ==
    /\ site.kind = "write" /\ web.op = "none"
    /\ \E s3, excl \in BOOLEAN :
         web' = [web EXCEPT !.s3 = s3, !.excl = excl, !.op = "write",
                            !.pc = IF excl /\ site.obj # NoObject THEN "over" ELSE "write",
                            !.result = IF excl /\ site.obj # NoObject THEN "error" ELSE @]
    /\ UNCHANGED <<site, tale>>

Raise(w) == web' = [w EXCEPT !.pc = "write"] /\ tale' = [tale EXCEPT !.raised = TRUE]

\* write: held while it fits, then streamed; after a failed upload it raises.
WriteUnit ==
    /\ web.pc = "write" /\ web.wrote < FileUnits
    /\ LET n == web.wrote + 1
           w == [web EXCEPT !.wrote = n]
       IN IF Streaming
          THEN IF web.failure THEN Raise(w)
               ELSE web' = [w EXCEPT !.pend = Append(@, n), !.pc = "drain"] /\ UNCHANGED tale
          ELSE /\ web' = [w EXCEPT !.buf = Append(@, n), !.pc = IF Len(web.buf) < StreamAfter THEN "write" ELSE "begin"]
               /\ UNCHANGED tale
    /\ UNCHANGED site

\* _begin_upload: what is buffered becomes the first to go; where the upload
\* cannot be begun it stays buffered.
BeginUpload ==
    /\ web.pc = "begin"
    /\ \/ /\ ~(Refuses /\ ~web.s3)
          /\ web' = [web EXCEPT !.up = "open", !.pend = web.buf, !.buf = << >>, !.pc = "drain"]
          /\ site' = [site EXCEPT !.uploads = IF web.s3 THEN @ \cup {"ours"} ELSE @] /\ UNCHANGED tale
       \/ Raise(web) /\ UNCHANGED site
       \/ \* the answer is lost: nobody knows the upload's id
          /\ web.s3 /\ web' = [web EXCEPT !.pc = "write"] /\ site' = [site EXCEPT !.uploads = @ \cup {"unnamed"}]
          /\ tale' = [tale EXCEPT !.raised = TRUE, !.orphan = TRUE]

\* Enough for a part, or the end.
WorthSending(final) == IF web.s3 THEN Len(web.pend) >= PartSize \/ (final /\ web.pend # << >>) ELSE web.pend # << >>

\* Mutation: the bytes are gone and the upload goes on.
PartLostNot == [web EXCEPT !.pend = << >>]

\* _fail, _abort: the first loss ends a multipart upload.
PartLost == [web EXCEPT !.pend = << >>, !.failure = web.s3, !.up = IF web.s3 THEN "none" ELSE @]

\* The parts are thrown away, unless the abort fails too (and is swallowed).
Aborted == IF web.s3 /\ PartLost.up = "none"
           THEN {<<[site EXCEPT !.uploads = @ \ {"ours"}], tale>>, <<site, [tale EXCEPT !.orphan = TRUE]>>}
           ELSE {<<site, tale>>}

\* _drain, _send_chunk: a part or a chunk arrives, or is lost.
Drain ==
    /\ web.pc = "drain"
    /\ \/ ~WorthSending(FALSE) /\ Going("write") /\ UNCHANGED <<site, tale>>
       \/ /\ WorthSending(FALSE)
          /\ \/ web' = [web EXCEPT !.parts = @ \o web.pend, !.pend = << >>, !.pc = "write"] /\ UNCHANGED <<site, tale>>
             \/ \E end \in Aborted :
                  /\ web' = [PartLost EXCEPT !.pc = "write"]
                  /\ site' = end[1] /\ tale' = [end[2] EXCEPT !.raised = TRUE]

\* What a PUT, a chunked upload or a completion puts there.
Commit(units) ==
    /\ site' = [site EXCEPT !.obj = units, !.uploads = @ \ {"ours"}]
    /\ tale' = [tale EXCEPT !.overwrote = @ \/ (web.excl /\ site.obj = Theirs)]

CloseWriter ==
    /\ web.pc = "write"
    /\ IF ~Streaming THEN Going("put") /\ UNCHANGED tale
       ELSE IF web.failure THEN Ends("error") /\ UNCHANGED tale
       ELSE IF WorthSending(TRUE) THEN Going("last") /\ UNCHANGED tale
       ELSE Going("finish") /\ UNCHANGED tale
    /\ UNCHANGED site

\* _put_buffered: one PUT, conditional in x mode.
PutBuffered ==
    /\ web.pc = "put"
    /\ \/ ~Refuses /\ Commit(web.buf) /\ Ends("ok")
       \/ ~Refuses /\ Commit(web.buf) /\ CallError
       \/ CallError /\ UNCHANGED <<site, tale>>

\* _finish_upload: the last part, which S3 lets be small.
LastPart ==
    /\ web.pc = "last"
    /\ \/ web' = [web EXCEPT !.parts = @ \o web.pend, !.pend = << >>, !.pc = "finish"] /\ UNCHANGED <<site, tale>>
       \/ \E end \in Aborted : web' = [PartLost EXCEPT !.pc = "over", !.result = "error"] /\ site' = end[1] /\ tale' = end[2]

\* The trailer or the manifest: accepted, refused (S3: 200 and an Error), or
\* lost.  If-None-Match holds for the PUT and not for S3's completion.
FinishUpload ==
    /\ web.pc = "finish"
    /\ \/ (web.s3 \/ ~Refuses) /\ Commit(web.parts) /\ (Ends("ok") \/ CallError)
       \/ \E end \in Aborted : CallError /\ site' = end[1] /\ tale' = end[2]

\* Another writer makes the object while an exclusive one is at work.
OtherPuts ==
    /\ site.kind = "write" /\ web.excl /\ web.pc # "over" /\ site.obj = NoObject
    /\ site' = [site EXCEPT !.obj = Theirs]
    /\ UNCHANGED <<web, tale>>

WebSteps == SendCall \/ Redirected \/ Challenged \/ Mkcol \/ CopyObject \/ DeleteSource \/ StartGet \/ TakeBody
            \/ TakeRanges \/ TakeSpan \/ BeginUpload \/ Drain \/ PutBuffered \/ LastPart \/ FinishUpload
WebNext == BeginCall \/ BeginMkdir \/ BeginRename \/ BeginRead \/ Seek \/ BeginReadV \/ OpenWriter \/ WriteUnit
           \/ CloseWriter \/ OtherPuts \/ WebSteps

WebSpec == WebInit /\ [][WebNext]_webVars

-----------------------------------------------------------------------------
(* Properties.                                                             *)

\* A read returns the bytes at its position, and "end of file" only there,
\* wherever its GET was dropped, reset and resumed, whether the server serves
\* ranges or ignores them (_stream, _read_live); a vector read likewise.  A
\* body whose end nobody promised may be cut short, but has no wrong bytes.
BodyCut == tale.cut /\ ~site.framed
WebReadRight ==
    /\ tale.got = Eof => tale.at >= FileUnits \/ BodyCut
    /\ tale.got # Eof => tale.got = Clip(tale.at, tale.at + Len(tale.got))
    /\ \A piece \in tale.pieces :
         \/ piece.got = Right(piece.span)
         \/ BodyCut /\ \E n \in 0 .. piece.span.len : piece.got = Clip(piece.span.off, piece.span.off + n)

\* readinto says 0 only at the end of the file.
EofIsTheEnd == tale.got = Eof => tale.at >= FileUnits

\* How often the server may do what a call asks for: a POST goes out once,
\* and what the server refuses to repeat is done once.
Times(op) ==
    LET last == Last(Sends(op))
    IN IF last \notin Changing THEN 0 ELSE IF last \in Retryable /\ op \notin Once THEN 2 ELSE 1

\* What one call reports, through lost answers, retries, redirects and
\* challenges: a call that only asks changes nothing and no POST is done
\* twice, a change that succeeds was made, one that is refused was not made
\* unless it was sent twice, a call with no request shows nothing to anybody,
\* and credentials go to the origin and the trusted hosts alone.
CallTold ==
    site.kind = "call" =>
    /\ web.result = "unsupported" => tale.told = {} /\ tale.applied = 0
    /\ tale.told \subseteq {"home", "trusted"}
    /\ web.op \in Requested =>
         /\ tale.applied <= Times(web.op)
         /\ web.result = "ok" /\ Len(Sends(web.op)) = 1 /\ Times(web.op) > 0 => tale.applied > 0
         /\ web.result = "refused" /\ tale.applied > 0 => web.tries = 1

\* A close that succeeds after writes that all did leaves the object whole;
\* an S3 object never has a hole, whatever was raised; no multipart upload
\* is left behind unless its abort or its beginning was lost too; and an
\* exclusive writer replaces nobody's object, but for S3's completion.
UploadHonest ==
    /\ web.op = "write" /\ web.result = "ok" /\ ~tale.raised => site.obj = [i \in 1 .. web.wrote |-> i]
    /\ web.s3 /\ site.obj \notin {NoObject, Theirs} => \A i \in 1 .. Len(site.obj) : site.obj[i] = i
    /\ web.op = "write" /\ web.pc = "over" /\ site.uploads # {} => tale.orphan
    /\ tale.overwrote => web.s3 /\ web.parts # << >>

\* What a call of several requests reports: an S3 rename never leaves the
\* object at neither name, and a mkdir that returns has made a collection.
WebHonest ==
    /\ site.kind = "rename" => "data" \in {site.src, site.dst}
    /\ web.op = "mkdir" /\ web.result = "ok" => site.names[PathDepth] = "coll"

\* Over HTTP and S3 as over XRootD, what is read, uploaded, renamed or changed
\* is what the caller is told of it (HTTPRawIO, S3RawIO, HTTPClient).
WebRight == WebReadRight /\ UploadHonest /\ WebHonest /\ CallTold
=============================================================================
