# TLA+ models of htcpp

This directory holds TLA+ models of the HTTP server in `src/src/`. It covers
`server.hpp` (`Server`, `Server::Session`), `http.cpp` (`Request::parse`,
`Url::parse`, `removeDotSegments`) and `client.hpp` (`ClientSession`). Alongside the models are TLC
configurations for small instances, TLAPS proofs, and `PROJECT.json`. That
file is a machine-readable index of components, runs, mutants, the
definition-to-source map, findings, hazards and theorems.

## 1. Inventory

### Components and how they interact

| Component | Source | State | Operations |
|---|---|---|---|
| Listener | `server.hpp:370-410` | listen socket, accept address | `accept` (retries until an accept SQE is queued), `handleAccept` (one `Session` per fd, then `accept` again) |
| Server session | `server.hpp:81-368` | `requestHeaderBuffer_`, `requestBodyBuffer_`, `responseBuffer_`, `request_`, `response_`, `recvTimeout_`, `responseSendOffset_`, `keepAlive_`, the connection | `start`/`readRequest`, the header-recv callback, `readRequestBody` and its callback, `processRequest`, `respond` (both overloads), `sendResponse` and its callback, `shutdown` and its callback |
| Responder | `server.hpp:67-77` | a `shared_ptr` to the session | `respond`, once per request (the handler contract) |
| Request codec | `http.cpp:175-259` | none (pure) | `Request::parse` |
| URL parser | `http.cpp:34-172` | none (pure) | `removeDotSegments`, `Url::parse` |
| Client session | `client.hpp` | `connectAddr_`, `callback_`, `requestBuffer_`, `responseBuffer_`, `sendCursor_`, the connection | `resolve`, `connect`, `send` loop, `recvHeader` |
| Connection, IoQueue | not under `src/` (spec 3) | the socket | `recv`, `send`, `shutdown`, `close`, linked read timeouts |

A session runs on the single-threaded io_uring dispatcher. Each step is one
completion callback, run to its end. The session keeps itself alive with the
`shared_from_this()` held by the pending callback. While the handler holds
the `SessionResponder`, no I/O is pending. All requests on one connection
share `recvTimeout_`, which is set once per request in `readRequest`.
Sessions share nothing but the handler and the configuration. One session
together with its peer is therefore the unit of concurrency that matters.

### What is hard

The hard part of this code is the peer and the kernel, not its threads:

- A recv returns any prefix of what was sent.
- A send writes any prefix of the response.
- The peer may pipeline requests, half-close, reset or stall.
- The read deadline may pass at any time.
- Body bytes may arrive with the headers.

The hazards, each at its line, are listed in `PROJECT.json` ("hazards").

## 2. Modules and what they model

### `HttpRequest.tla`: `Request::parse` (`http.cpp:175-259`)

The byte stream is abstracted into units, one per lexical piece the parser
tells apart:

- a request line (`RL`), carrying its version;
- a header line (`H`), carrying its name and value;
- a line terminator (`CRLF`);
- a body byte (`B`).

Each unit carries the index of the request it belongs to. The parser is
modelled step by step:

- the first CRLF (`FirstCRLF`);
- the request-line checks (`RequestLineOK`);
- the `lineStart += 2` skip (`HeaderStart`, `MangledName`), which mangles the
  first header name or skips a blank line that directly follows the request
  line;
- the header loop (`IsHeaderPair`, `HeaderEnd`, `EndsLoop`), which accepts
  the end of the buffer as a normal exit;
- the headers it adds (`ParsedHeaders`).

The Request the parser returns (`Parse`) keeps only what the session reads:

- the request it came from;
- the version;
- the `Connection` and `Content-Length` values;
- the body, which the code never assigns and which is therefore empty.

`HeaderMap::get` and `parseInt` are not under `src/`. They are modelled from
the spec and marked `spec_modelled` in the map.

### `ServerSession.tla`: one `Server::Session` and its peer (`server.hpp:81-368`)

Variables map to the session's members:

| Variable | Member |
|---|---|
| `hdrBuf` | `requestHeaderBuffer_` |
| `bodyBuf` | `requestBodyBuffer_` |
| `request` | `request_` |
| `responses` | every `responseBuffer_` installed |
| `sendOff` | `responseSendOffset_` |
| `keepAlive` | `keepAlive_` |
| `response` | `response_.status` |
| `deadline` | `recvTimeout_` |

`pending` is the operation whose callback is due; at most one is due at any
time. `handling` says the handler holds an unused responder. `closed` and
`shut` record `close` and `shutdown`.

The peer writes requests, chosen from `Shapes`, into `sent`, and receives
response bytes into `rcvd`. A recv consumes `rpos`. The peer may also
half-close (`fin`) or reset the connection (`reset`). A reset is the source
of every transport error.

There is one action per callback outcome. Each action runs the whole callback
and submits the next operation before it returns:

| Code | Actions |
|---|---|
| header recv | `RecvHeader` (parse, then the Content-Length decision in `OnHeader`), `RecvHeaderCancelled` (ECANCELED: shutdown), `RecvHeaderError`, `RecvHeaderEOF` |
| body recv | `RecvBody`, `RecvBodyCancelled`, `RecvBodyError`, `RecvBodyEOF` |
| handler | `HandlerRespond` |
| send | `SendDone` (short, complete with keep-alive, or complete and shut down), `SendFailed` |
| shutdown | `ShutdownDone` |
| timer | `Expire` |

A recv of up to `len` bytes returns `n` units (`RecvCount`). The choice is
any non-empty prefix when `SegmentedRecv` holds, which includes everything
up to `len`. Otherwise it is only everything up to `len`, and only the
violation runs use that restriction, to keep their traces short. Metrics and the access log change no session state and are left
out. `OnHeader` keeps the nesting of the code: the length checks and both
body branches sit under `Parse(buf).cl # "none"` (`if (contentLength)`).
The empty version string of a default `Request` is written `"none"`.

### `ResponseChannel.tla`: what a session promises the peer

The abstract specification of the response side of one connection
(`server.hpp:265-348`), with the reads, the handler and the send loop left
out. `out` is the sequence of response lengths produced, `got` the bytes the
peer has received (a byte is its response's index and its position), `open`
whether the connection is open. `Produce(len)` is `respond()`: it is enabled
only once the previous response has been delivered whole (`Complete`).
`Deliver(n)` is a send completion: the next `n` bytes of the current
response arrive. `Close` is `connection_->close()`.

`ServerSession.tla` instantiates it as `Channel` with the refinement mapping
`out <- ResponseLens` (the lengths of `responses`), `got <- rcvd`,
`open <- ~closed`, and states `ChannelRefined == Channel!Spec`. A step of
`RecvHeader` that answers 400 is a `Produce`, `HandlerRespond` is a
`Produce`, `SendDone` is a `Deliver`, every close path is a `Close`, and
every other step (reads, the deadline, the peer) is a stutter.

### `MC_ServerSession.tla`

Gives the request shapes:

- `MCGet`: a GET with HTTP/1.1;
- `MCPost`: a POST with a two-byte body;
- `MCKeepAlive10`: HTTP/1.0 with keep-alive;
- `MCTooLarge`: a body over the limit;
- `MCBadLength`: a `Content-Length` that does not parse;
- `MCEmpty10`: `Content-Length: 0`;
- `MCBadVersion`: a version the parser rejects;
- `MCCloseFirst` and `MCCloseSecond`: two placements of `Connection: close`.

Each shape drives one branch of the header callback.

### `ClientSession.tla`: one `ClientSession` and its server (`client.hpp:30-260`)

Each action is one call of the user or one completion callback, run to its
end together with the helpers it calls:

| Action | Code |
|---|---|
| `Request` | `request()` (42-56): refused while `callback_` is set; otherwise stores it and calls `connect()` only if `connection_` is null |
| `Connect` (helper) | `connect()` (115-142): resolves when the address is unknown; otherwise `socket()`, whose failure runs the callback *without returning*, then submits the connect on the socket, -1 included |
| `ResolveDone` | the resolve callback (97-112): error or empty list is reported (`ResolveFailed`); else the first address is stored and `connect()` runs again |
| `ConnectDone` | the connect callback (130-140): an error runs the callback and the code goes on to create the connection and `send()` |
| `SendDone` | the send callback (148-171): error and 0 bytes report and close; a short send advances `sendCursor_` (`SendWrote`); the last one starts `recvHeader` |
| `RecvDone` | the recv callback (179-224): error, end of stream, a response that does not parse, an invalid `Content-Length` report and close; otherwise the body is delivered, cut to `Content-Length` if longer, *as it is if shorter*, and `callback_` is cleared |
| `PeerRespond`, `PeerClose`, `PeerReset` | the server: answers once it has the whole request, in segments; closes or resets when those faults are enabled |

State: `callback` (`callback_` set), `accepted`/`issued` (the `request()`
calls that stored a callback / were made), `addr` (`connectAddr_` resolved),
`sock` (`"invalid"` is fd -1), `connected`, `conn` (`connection_`), `closed`,
`pending` (the operation whose callback is due), `sendCursor`, and `calls`:
every invocation of the user callback, tagged with its `request()` call. The
request buffer is `ReqLen` bytes named by position; the server records the
positions it receives in `srvRcvd`. A response is a header block of `hlen`
units and `body` bytes; `Response::parse` is not under `src/` and is modelled
from the spec as "the whole header block is in the buffer"
(`ResponseParses`). `Faults` chooses the failures the environment produces.

`MC_ClientSession.tla` gives four responses (no `Content-Length`, an exact
one, a body longer than declared, an invalid length) and the fault sets.

### `Url.tla`: `Url::parse` and `removeDotSegments` (`http.cpp:34-173`)

A URL is a sequence of one-character strings. `Find`, `RFind` and `SubStr`
are `string_view::find`, `rfind` and `substr` on 0-based positions, with
`npos` a number larger than every position, so `substr(2, npos)` and the
faulty `substr(2, find("/", 2))` mean what they mean in C++. `IsAlphaNum`
is the code's expression on ASCII codes, typo included. `UrlParse` is the
straight-line part of `Url::parse` (`*`, fragment, scheme, authority, query,
params, the leading-slash check); `RemoveDotStep` is one iteration of the
`while` loop of `removeDotSegments` (`ApplySegment` is its `if` chain) and
`RemoveDotEnd` its epilogue. `RFCRemoveDotSegments` is RFC 3986 5.2.4 written
as its own recursive definition, rules A to E in order; `MC_Url.tla` checks it
(an `ASSUME`) against the six scenarios of spec 8. The module declares a
`RECURSIVE` operator and holds no theorem.

## 3. Runs

| Run | Checks | Shows |
|---|---|---|
| `session` (`MC_ServerSession.cfg`) | `TypeOK`, `ResponseStreamIntact`, `NoReadBeforeResponseSent`, `HandlerSeesContentLength`, `NoIOAfterClose`, `SessionEventuallyCloses`, `ChannelRefined` | Checked over every segmentation of recvs and sends, pipelining, reset, half-close and stalls: <br>• every response byte arrives once, in order, and whole; <br>• a keep-alive read starts only after the last byte of the response; <br>• the handler sees exactly Content-Length body bytes, and the body buffer stays within its reservation; <br>• nothing is read or sent after `close`; <br>• every session closes; <br>• the session implements `ResponseChannel`: a response is produced only after the previous one reached the peer whole. |
| `close_header_ignored` (violation) | `ConnectionCloseHonoured` | A complete request whose first header is `Connection: close` is kept alive (`http.cpp:226`). |
| `pipelined_body_lost` (violation) | `HandlerGetsOwnBody` | Body bytes that arrive with the headers are lost. The next request's bytes become the body (`http.cpp:258`). |
| `partial_header_answered` (violation) | `OneResponsePerRequest` | A header block split across recvs is handled as a request and then answered with 400 (`http.cpp:228`). |
| `body_timeout_no_shutdown` (violation) | `GracefulClose` | A body read that times out closes without shutdown (`server.hpp:214`, spec 7). |
| `client_session` (`MC_ClientSession.cfg`) | `TypeOK`, `CallbackAtMostOnce`, `RequestStreamIntact`, `FailedRequestClosesConnection`, `FirstCallbackEventually` | Two `request()` calls, resolver failures, a server that resets or closes at any point: no callback runs twice, the request reaches the server once and in order before the recv starts, a failed exchange closes its connection, and the call that opens the session always gets its callback (under `FairSpec`). |
| `client_callback_twice` (violation) | `CallbackAtMostOnce` | The faults are a `socket()` returning -1 and a refused connect. A refused connect runs the callback, then the send on the unconnected socket runs it again (`client.hpp:133`). A failed `socket()` runs it, and connect and send on fd -1 run it twice more (`client.hpp:124`). |
| `client_reused_session_hangs` (violation) | `CallbackEventually` | A second `request()` after a success is accepted and never sends (`client.hpp:52`; spec 4.4 says it sends). |
| `url_parse` (`MC_Url.cfg`) | `TypeOK`, `PathNormalised`, `RemoveDotSegmentsRFC` | Every URL of up to 6 characters over `/ . a : ? # ; *` that is accepted has a path starting with `/` and free of dot segments (spec 8). Every path whose last segment is not a dot segment is normalised as RFC 3986 5.2.4 says. |
| `dot_segment_trailing_slash` (violation) | `RemoveDotSegmentsMatchesRFC` | `/a/.` gives `/a` (RFC: `/a/`); `/a/b/..` gives `/a` (`http.cpp:55-74`). |
| `request_target_rejected` (violation) | `OriginFormAccepted` | TLC reports `/:`: it is taken as scheme `/` and rejected, because `isAlphaNum` is always true (`http.cpp:85`). So is every path with a colon in it, such as `/a:b`. |
| `absolute_target_rejected` (`MC_Url_authority.cfg`, violation) | `AbsoluteFormAccepted` | Over targets made of `/ . a`, TLC reports `//./`: `substr(2, find("/", 2))` keeps the authority, and the remaining `./` is rejected (`http.cpp:148`). So is every `//host/path`, which makes the client's `request(url)` fail for `http://host/path`. |

### Bounds

- Two requests (`MaxRequests = 2`): enough for keep-alive, for pipelining,
  and for one request's bytes to reach another's buffers.
- A header recv of 9 units: enough for the longest header block, and for a
  block plus its body. The main run lets every recv return any non-empty
  prefix, so whole-buffer recvs are among its behaviours.
- A body limit of 2: the POST body fills it, and `Content-Length: 3` exceeds
  it.
- Responses of 3 bytes: two consecutive short writes can happen.
- A 400 of 1 byte.

- Client: a request of 3 bytes (2 in the violation runs), so
  a send can be short twice; a recv of 4 units, longer than the longest
  header block and shorter than the longest response; two `request()` calls,
  so both a refusal while in flight and a reuse after success happen.
- URLs: every string of up to 6 characters over the eight characters
  `Url::parse` treats specially. This holds paths with two dot segments,
  such as `/./../` and `/a/../`. The violation runs use 4 characters (over
  `/ . a` for the authority run, and 6 over `/ . a` for the RFC comparison).

Each mutant listed in `PROJECT.json` is a plausible bug in the mapped code,
and each is found under these bounds: a dropped size check, an offset reset,
a missing return, an over-long recv, a deadline on the header read only.

### Fairness

`FairSpec` assumes weak fairness of the completions the kernel will deliver:

- a recv with data behind it, a peer close or an expired deadline;
- a send, which assumes the peer reads;
- a shutdown;
- the timer itself;
- the handler's respond, as the `RequestHandler` contract requires.

Errors and every peer action are unfair: the peer may stall for ever. The
one thing this fairness assumes and the code does not enforce is that the
peer reads. `sendResponse` has no timeout, and that hazard stays open.

The client's `FairSpec` assumes weak fairness of its four completions (the
dispatcher runs them once they can complete) and of the server's answer to
a complete request. The user and the faults are unfair. The client has no
receive deadline (`client.hpp:178`), so without the server's fairness a
stalled server would leave the request pending for ever; that hazard is
listed and not checked. The client's liveness is checked with
the faults of the `client_session` run. A failing `socket()` or a refused
connect runs the callback at once (`client.hpp:124, 133`), so on those
paths the callback comes early, and `client_callback_twice` shows it comes
once too often. The URL model's `Spec` has weak fairness of its one
process, which is straight-line code.


## 4. Proofs

Seven modules hold the TLAPS proofs. Every step is checked by `tlapm`.

### `HttpRequestProofs.tla`: what `Request::parse` returns

- `MinNat`: every non-empty set of naturals has a least element, and `Min`
  returns it. It is derived from `WFMin` and `NatLessThanWellFounded`. The
  parser's searches (the first CRLF, the end of the header loop,
  `HeaderMap::get`) are all `Min`s, so they return the first match.
- `HeaderEndFacts`: the header loop stops after `k` whole header lines,
  every one of which was a header line followed by CRLF.
- `ParsedHeadersType`, `GetHeaderType`, `ParseType`: a buffer that parses
  yields the request line's index and version, header values (or `"none"`)
  and an empty body. This holds for any buffer of units.

### `ServerSessionProofs.tla`: `TypeCorrect`, `Spec => []TypeOK`

`TypeOK` is not inductive as it stands, for two reasons:

- the send callback reads `responses[Len(responses)]`, which exists only if
  a response was installed;
- the peer's body write reads `reqs[Len(reqs)]`, which exists only if a
  request was begun.

The inductive invariant `IInv` therefore adds three conjuncts:

- `pending = "send" => responses # << >>`;
- `~bodySent => reqs # << >>`;
- `Len(reqs) <= MaxRequests`, so that request indices stay in `ReqIds`.

The proof has one lemma per group of actions:

- `PeerIInv`: the peer's actions;
- `OnHeaderType` and `RecvHeaderIInv`: each of the five branches of the
  header callback;
- `RecvBodyIInv`;
- `HandlerRespondIInv`;
- `SendDoneIInv`;
- `QuietIInv`: the closing, shutdown and timer callbacks.

These rest on `SliceType` (a recv returns a slice of the stream) and on the
parser lemmas above.

### `ServerSessionBodyProofs.tla`: `BodyLengthCorrect`, `Spec => []HandlerSeesContentLength`

The property is not inductive as it stands: a body read that completes must
know that `clen` is the request's Content-Length. The invariant `HInv`
therefore adds `BodyInv`: while a body is read, `request_` has a
Content-Length and `clen` is its value.

The argument, case by case:

- The body recv asks for at most `clen - Len(bodyBuf)` units, so the buffer
  never exceeds `clen <= MaxBodySize`.
- When the body recv completes the body, it has exactly `clen` units.
- In the header callback:
  - a request without Content-Length has an empty body;
  - a body read starts with `clen` set from `request_`;
  - a body found complete in the header buffer is cut to Content-Length.
- Every other action leaves the body read and the handled requests alone
  (`FrameBody`).

### `ClientSessionProofs.tla`: `ClientTypeCorrect` and `RequestStreamCorrect`

The two theorems are `Spec => []TypeOK` and `Spec => []RequestStreamIntact`
for `ClientSession.tla`. Neither property is inductive as it stands:

- the send callback appends the next `n` positions after `sendCursor`;
  that keeps the server's bytes in order only if `sendCursor` equals what
  the server already has;
- a completed send starts the recv, and the recv's success needs the whole
  request to have gone out.

The inductive invariant `IInv` therefore adds these conjuncts to `TypeOK`:

- `accepted <= issued`, and `accepted >= 1` while an operation is pending,
  so the request index in a callback is in range;
- `InOrder(srvRcvd)`: the server has positions `1..k`;
- before the first connect nothing was sent and the cursor is 0;
- a resolve or connect is pending only before the connection exists, a
  send or recv only after;
- during a send, `Len(srvRcvd) = sendCursor < ReqLen`;
- during a recv, and once a success was delivered, `Len(srvRcvd) = ReqLen`.

TLC checked `IInv` as an invariant of the client runs before it was proved.
There is one lemma per action: `RequestIInv`, `ResolveDoneIInv`,
`ConnectDoneIInv`, `SendDoneIInv`, `RecvDoneIInv` and `PeerIInv`.
`NextIInv` combines them, with the stutter step. They rest on the
following helper lemmas:

- `AppendCall`: a callback record keeps `calls` typed;
- `AppendFailure`: an error never counts as a delivered success;
- `SendPositions` and `PositionsType`: a send of `n` bytes extends
  `1..k` to `1..k+n`;
- `DeliveredBodyType`: the body length of a success is a number. It relies
  on `ParseLengthType` of `HttpRequestProofs.tla`.

### `ServerStreamProofs.tla`: the response stream and close

Three theorems about the send loop of `Server::Session`:

- `StreamIntactCorrect`: `Spec => []ResponseStreamIntact`;
- `ReadAfterSendCorrect`: `Spec => []NoReadBeforeResponseSent`;
- `NoIOAfterCloseCorrect`: `Spec => NoIOAfterClose`, the action property.

`ResponseStreamIntact` is not inductive as it stands. A send completion
appends bytes `sendOff + 1 .. sendOff + n` of the current response. They
continue the stream only if the stream ends exactly where the send stands.
`respond()` appends a response, and its first byte continues the stream
only if every earlier response was sent whole. The inductive invariant
`SInv` therefore adds four conjuncts to `IInv` and the property:

- `SendInProgress`: during a send, `sendOff` is below the response's length.
  The stream ends at byte `sendOff` of the current response or, when
  `sendOff = 0`, at the last byte of the previous one (`SentUpTo`);
- `ReadAfterSent`: while a request is read or handled, every response is
  sent whole (`AllSent`);
- `HandlerIdle`: a handler holds the session only while nothing is pending;
- `ClosedIdle`: after `close()`, nothing is pending and no handler holds the
  session.

TLC checked `SInv` as an invariant of the `session` configuration and of
the two other server configurations before it was proved.

The proof rests on three stream lemmas:

- `AppendResponseStream`: appending a response leaves the successor of
  every received byte unchanged;
- `StartSendStream`: `respond()` from an `AllSent` state starts at offset 0,
  right behind the last byte;
- `SendDoneStream`: a send completion is split at the old end of the
  stream, into the old bytes, the joint and the new bytes.

There is one step lemma per group of actions:

- `StartSendSInv` and `HandlerRespondSInv`;
- `ReadOnSInv`, `RecvHeaderSInv` and `RecvBodySInv`;
- `SendDoneSInv`: its three branches are short, keep-alive and shutdown;
- `CloseSInv` and `QuietSInv`;
- `FrameSInv`: the peer, the deadline and the stutter.

`NextSInv` combines them. `NoReadBeforeResponseSent` follows from
`ReadAfterSent`. `NoIOAfterClose` follows from `ClosedIdle`: in a closed
state every session action is disabled, because each needs a pending
operation or a handler. The peer touches neither `rcvd` nor `rpos`.

### `ServerChannelProofs.tla`: `ChannelCorrect`, `Spec => ChannelRefined`

The session implements the abstract `ResponseChannel` under the mapping
above. The proof uses the invariant `SInv` of `ServerStreamProofs.tla` and
three mapping lemmas:

- `ChannelCurrent`: the abstract `Current` is the session's `Cur`;
- `ChannelDelivered`: during a send, the abstract `Delivered` is `sendOff`.
  This needs `SendInProgress`: the stream ends exactly where the send stands;
- `ChannelComplete`: when every response was sent whole (`AllSent`), the
  abstract `Complete` holds, so `respond()` is an enabled `Produce`.

`InitChannel` maps the initial state. The step lemmas `ProduceStep`,
`DeliverStep`, `CloseStep` and `ChannelStutter` give the shape of each
abstract step, and `NextChannel` has one case per group of session actions:
`RecvHeader` (a `Produce` when it answers 400, otherwise a stutter),
`HandlerRespond` (`Produce`, enabled by `ReadAfterSent`), `SendDone`
(`Deliver`, its size bounded by `SendInProgress`), the close paths
(`Close`, or a stutter once closed), and the rest (stutters). The theorem
combines `InitChannel`, `NextChannel` and `SInvInvariant` by `PTL`.

TLC checks `ChannelRefined` in the `session` run too. A handler that
responds without releasing the session (`HandlerRespondReuse`) produces a
second response before the first is delivered, and TLC reports the broken
refinement.

### `ClientCallbackProofs.tla`: `CallbackOnceCorrect` and `FailedCloseCorrect`

Two theorems for `ClientSession.tla`:

- `CallbackOnceCorrect`: `Spec => []CallbackAtMostOnce`;
- `FailedCloseCorrect`: `Spec => []FailedRequestClosesConnection`.

Both are proved under the hypothesis `EstablishReported`: the fault set
contains neither a failing `socket()` nor a refused connect. The hypothesis
is an `ASSUME` of the theorem, not of the module.

For `CallbackAtMostOnce` the hypothesis is necessary. On those two paths
`connect()` reports the error and carries on (`client.hpp:124, 133`). The
violation run `client_callback_twice` shows the callback running twice.

For `FailedRequestClosesConnection` the hypothesis comes from the proof,
not from the code. Its invariant is built on the one for the callbacks.
No listed run checks it with those faults: the `client_session` run leaves
them out, because `CallbackAtMostOnce` fails under them. With those faults
the property is neither proved nor checked.

The inductive invariant `OInv` is the client's `IInv` plus `CallbackInv`.
`CallbackInv` adds these conjuncts:

- every callback belongs to a call already accepted, and no two to the same
  call;
- a free callback slot means nothing is pending;
- while an operation is pending, the current call has had no callback;
- the socket is never invalid;
- once the current call was reported failed and nothing is pending, the
  connection is closed.

TLC checked `OInv` on three instances before it was proved: the
`client_session` configuration, `ReqLen = 2` with `MaxUserRequests = 3`,
and the instance with no faults.

The proof rests on these lemmas:

- `AppendFresh`: appending a callback for a call with none keeps the calls
  distinct;
- `ReqsGrow`;
- the step-shape lemmas `FailStep`, `PendingStep`, `FrameStep` and
  `ConnectValid`.

There is one lemma per action, and `NextOInv` combines them.

### Assumptions

The proofs use the following assumptions, and TLC evaluates them on every
run:

- `ConstantsAssumption` and `ShapesAssumption` of `ServerSession.tla`;
- `ConstantsAssumption` of `ClientSession.tla`.

### What TLAPS does not prove

The following are checked by TLC only:

- `SessionEventuallyCloses` and the client's `FirstCallbackEventually`: liveness
  under fairness is out of this prover's reach;
- `Url.tla`'s `TypeOK`, `PathNormalised` and `RemoveDotSegmentsRFC`:
  `Url.tla` declares `RECURSIVE` operators, and tlapm has no SMT backend in
  a module that reaches one;
- the violation runs.

What the parser computes for every input, beyond its type, is also checked
only on TLC's bounded buffers.

## 5. Not modelled yet, and the plan

- The client's free function `request(url, ...)` (`client.hpp:262-284`): it
  reads `url->scheme`, `host` and `port`, which `Url::parse` never sets (the
  `Url` record is in `http.hpp`, not under `src/`).
- `serializeRequest` and the response serializer: formatting only; the
  client's request is a buffer of `ReqLen` bytes.
- A response whose body arrives in a later segment than its header block
  (`client.hpp:213-216`). The code logs "READ THE REST" and delivers the
  short body as a success. `RecvGot` models this, and no run calls it
  wrong, because it is the limitation the code itself marks.
- A user callback that calls `request()` on its own session
  (`client.hpp:222-223`): the callback runs inside `RecvDone`.
- Listener: `accept` busy-retries until the SQE is queued. This could be a
  small module with a bounded submission queue, checking that accept is
  always eventually re-armed.
- Proofs: the properties of `Url.tla` need its recursion rewritten as
  recursive functions before TLAPS can reach them.

Liveness and `ENABLED`, induction over data (what a parse returns for every
input) and recursive operators are beyond TLAPS here. They stay with TLC.
