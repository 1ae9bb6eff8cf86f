--------------------------- MODULE ServerSession ---------------------------
(***************************************************************************)
(* One Server<...>::Session of src/src/server.hpp (lines 81-368) and the   *)
(* peer on the other end of its connection.                                *)
(*                                                                         *)
(* The session runs on the single-threaded I/O dispatcher: every action    *)
(* below is one completion callback (or the handler's respond call) run to *)
(* its end, together with the I/O it submits before returning.  `pending`  *)
(* is the operation the session has submitted and whose callback has not  *)
(* yet run.  The peer writes requests (shapes chosen from Shapes) into the *)
(* stream `sent`; a recv returns any non-empty prefix of what is unread,   *)
(* up to its length, which is how TCP segments a stream.                   *)
(***************************************************************************)
EXTENDS Naturals, Sequences, FiniteSets, HttpRequest

CONSTANTS
    MaxHeaderSize,   \* serverConfig_.maxRequestHeaderSize, in units
    MaxBodySize,     \* serverConfig_.maxRequestBodySize, in bytes
    MaxRequests,     \* requests the peer writes on this connection
    Shapes,          \* the requests the peer may write
    Pipelining,      \* whether the peer writes before its response arrived
    ResponseLen,     \* length of a serialized handler response
    BadRequestLen,   \* length of the literal 400 response
    Statuses,        \* status codes the handler responds with
    SegmentedRecv    \* whether a recv may return less than is unread

ASSUME ConstantsAssumption ==
    /\ MaxHeaderSize \in Nat \ {0}
    /\ MaxBodySize \in 0..7
    /\ MaxRequests \in Nat
    /\ Pipelining \in BOOLEAN
    /\ ResponseLen \in Nat \ {0}
    /\ BadRequestLen \in Nat \ {0}
    /\ 400 \notin Statuses
    /\ SegmentedRecv \in BOOLEAN

\* Bounds of the abstract byte stream: request indices and value range.
ReqIds == 1..MaxRequests
MaxValue == MaxBodySize + 2
Unit == Units(ReqIds, MaxValue)

\* A request shape: version, header lines in order, body length.
ShapeRecords ==
    [v : Versions, hdrs : Seq([n : HeaderNames, v : HeaderValues(MaxValue)]),
     body : 0..MaxValue]

ASSUME ShapesAssumption == Shapes \subseteq ShapeRecords

VARIABLES
    \* the peer
    reqs,        \* the requests the peer has begun to write, in order
    bodySent,    \* the body of the last of them has been written
    fin,         \* the peer has half-closed (sent FIN)
    reset,       \* the connection was reset (the source of transport errors)
    sent,        \* every unit the peer has written
    rcvd,        \* every response byte the peer has received
    \* the session (its members, server.hpp:350-367)
    pending,     \* the submitted I/O operation whose callback is due
    rpos,        \* units of `sent` the session's recvs have consumed
    hdrBuf,      \* requestHeaderBuffer_
    bodyBuf,     \* requestBodyBuffer_
    request,     \* request_
    clen,        \* contentLength captured by readRequestBody's callback
    responses,   \* every responseBuffer_ installed so far: length, status
    sendOff,     \* responseSendOffset_
    keepAlive,   \* keepAlive_
    response,    \* response_.status
    deadline,    \* recvTimeout_: "armed" or "passed"
    handling,    \* the handler holds a SessionResponder not yet used
    handled,     \* every request the handler was invoked with
    closed,      \* connection_->close() has been called
    shut         \* connection_->shutdown() has been called

peerVars == <<reqs, bodySent, fin, reset, sent, rcvd>>
bufVars  == <<rpos, hdrBuf, bodyBuf, request, clen>>
sendVars == <<responses, sendOff, keepAlive, response>>
vars == <<peerVars, pending, bufVars, sendVars, deadline, handling, handled,
          closed, shut>>

Ops == {"none", "recv_hdr", "recv_body", "send", "shutdown"}

\* The request_ a Session is constructed with (default Request); its empty
\* version string is written "none", like the absent header values.
NoRequest == [rid |-> 0, ver |-> "none", conn |-> "none", cl |-> "none",
              body |-> << >>]

-----------------------------------------------------------------------------
(* The peer.                                                               *)

\* The bytes of request r with shape sh: request line, header lines, blank
\* line; then its body.
HeaderBlock(r, sh) ==
    << RLUnit(r, sh.v), CRLFUnit(r) >>
    \o [j \in 1..(2 * Len(sh.hdrs)) |->
          IF j % 2 = 1
          THEN HUnit(r, sh.hdrs[(j + 1) \div 2].n, sh.hdrs[(j + 1) \div 2].v)
          ELSE CRLFUnit(r)]
    \o << CRLFUnit(r) >>

BodyBytes(r, sh) == [k \in 1..sh.body |-> BUnit(r, k)]

\* Responses the peer has received completely.
CompletedResponses ==
    Cardinality({j \in 1..Len(rcvd) : rcvd[j].i = responses[rcvd[j].id].len})

PeerSendRequest(sh) ==
    /\ Len(reqs) < MaxRequests
    /\ ~fin
    /\ ~reset
    /\ bodySent
    /\ Pipelining \/ CompletedResponses >= Len(reqs)
    /\ reqs' = Append(reqs, sh)
    /\ sent' = sent \o HeaderBlock(Len(reqs) + 1, sh)
    /\ bodySent' = (sh.body = 0)
    /\ UNCHANGED <<fin, reset, rcvd, pending, bufVars, sendVars, deadline, handling,
                   handled, closed, shut>>

PeerSendBody ==
    /\ ~bodySent
    /\ ~fin
    /\ ~reset
    /\ sent' = sent \o BodyBytes(Len(reqs), reqs[Len(reqs)])
    /\ bodySent' = TRUE
    /\ UNCHANGED <<reqs, fin, reset, rcvd, pending, bufVars, sendVars,
                   deadline, handling, handled, closed, shut>>

PeerClose ==
    /\ ~fin
    /\ fin' = TRUE
    /\ UNCHANGED <<reqs, bodySent, reset, sent, rcvd, pending, bufVars,
                   sendVars, deadline, handling, handled, closed, shut>>

\* The connection is reset (RST, or a local transport failure): from now on
\* recv and send may fail.
PeerReset ==
    /\ ~reset
    /\ reset' = TRUE
    /\ UNCHANGED <<reqs, bodySent, fin, sent, rcvd, pending, bufVars,
                   sendVars, deadline, handling, handled, closed, shut>>

-----------------------------------------------------------------------------
(* Helpers: what the session does at the end of a callback.               *)

\* readRequest (server.hpp:125-133): clear both buffers, arm the deadline,
\* submit the header recv.
ReadRequest ==
    /\ hdrBuf' = << >>
    /\ bodyBuf' = << >>
    /\ deadline' = "armed"
    /\ pending' = "recv_hdr"

\* connection_->close(): no callback, the last self-reference goes away.
Close ==
    /\ closed' = TRUE
    /\ pending' = "none"

\* respond(std::string, keepAlive) and the first sendResponse
\* (server.hpp:276-292).
StartSend(len, status, ka) ==
    /\ responses' = Append(responses, [len |-> len, status |-> status])
    /\ sendOff' = 0
    /\ keepAlive' = ka
    /\ pending' = "send"

\* The literal 400 response with keepAlive false (server.hpp:167,179,186).
Respond400 ==
    /\ StartSend(BadRequestLen, 400, FALSE)
    /\ UNCHANGED <<response, handling, handled>>

\* processRequest (server.hpp:254-263): hand the request to the handler
\* together with a responder holding the session.
ProcessRequest(rq) ==
    /\ handling' = TRUE
    /\ handled' = Append(handled, [rid |-> rq.rid, cl |-> rq.cl,
                                   body |-> rq.body])
    /\ pending' = "none"
    /\ UNCHANGED sendVars

\* getKeepAlive (server.hpp:235-252).
GetKeepAlive(rq) ==
    IF rq.conn = "close" THEN FALSE
    ELSE IF rq.conn = "keep-alive" THEN TRUE
    ELSE rq.ver = "HTTP/1.1"

-----------------------------------------------------------------------------
(* The header recv callback (server.hpp:136-198).                         *)

Unread == Len(sent) - rpos

\* A recv of up to len units returns n of them: any non-empty prefix of the
\* unread stream (which includes all of it up to len); without
\* segmentation, only all of it up to len.
RecvCount(n, len) ==
    /\ n \in 1..len
    /\ n <= Unread
    /\ ~SegmentedRecv => n = Min({len, Unread})

\* Mutant: the maxRequestBodySize check dropped.
LengthAcceptedNoMax(v) == IsDecimal(v)

\* The length parses and does not exceed maxRequestBodySize (server.hpp:176-189).
LengthAccepted(v) == IsDecimal(v) /\ ParseLength(v) <= MaxBodySize

\* The header callback after a successful recv that returned the units buf:
\* parse, then the Content-Length decision.
OnHeader(buf) ==
    /\ hdrBuf' = buf
    /\ \/ /\ ~ParseOK(buf)
          /\ Respond400
          /\ UNCHANGED <<bodyBuf, request, clen>>
       \/ /\ ParseOK(buf)
          /\ Parse(buf).cl = "none"
          /\ request' = Parse(buf)
          /\ ProcessRequest(Parse(buf))
          /\ UNCHANGED <<bodyBuf, clen>>
       \/ /\ ParseOK(buf)
          /\ Parse(buf).cl # "none"
          /\ ~LengthAccepted(Parse(buf).cl)
          /\ request' = Parse(buf)
          /\ Respond400
          /\ UNCHANGED <<bodyBuf, clen>>
       \/ /\ ParseOK(buf)
          /\ Parse(buf).cl # "none"
          /\ LengthAccepted(Parse(buf).cl)
          /\ Len(Parse(buf).body) < ParseLength(Parse(buf).cl)
          \* copy the partial body, clear request_.body, readRequestBody
          /\ bodyBuf' = Parse(buf).body
          /\ request' = [Parse(buf) EXCEPT !.body = << >>]
          /\ clen' = ParseLength(Parse(buf).cl)
          /\ pending' = "recv_body"
          /\ UNCHANGED <<sendVars, handling, handled>>
       \/ /\ ParseOK(buf)
          /\ Parse(buf).cl # "none"
          /\ LengthAccepted(Parse(buf).cl)
          /\ Len(Parse(buf).body) >= ParseLength(Parse(buf).cl)
          /\ request' = [Parse(buf) EXCEPT
                            !.body = SubSeq(Parse(buf).body, 1,
                                            ParseLength(Parse(buf).cl))]
          /\ ProcessRequest(request')
          /\ UNCHANGED <<bodyBuf, clen>>

\* A successful recv of n units (server.hpp:131-133, 161).
RecvHeader(n) ==
    /\ pending = "recv_hdr"
    /\ RecvCount(n, MaxHeaderSize)
    /\ rpos' = rpos + n
    /\ OnHeader(SubSeq(sent, rpos + 1, rpos + n))
    /\ UNCHANGED <<peerVars, deadline, closed, shut>>

\* ECANCELED: the read deadline passed; shutdown, then close.
RecvHeaderCancelled ==
    /\ pending = "recv_hdr"
    /\ deadline = "passed"
    /\ pending' = "shutdown"
    /\ shut' = TRUE
    /\ UNCHANGED <<peerVars, bufVars, sendVars, deadline, handling, handled,
                   closed>>

\* Any other error (ECONNRESET, ...): close without shutdown.
RecvHeaderError ==
    /\ pending = "recv_hdr"
    /\ reset
    /\ Close
    /\ UNCHANGED <<peerVars, bufVars, sendVars, deadline, handling, handled,
                   shut>>

\* Mutant: the return after close() missing; the empty buffer is parsed and
\* answered with 400.
RecvHeaderEOFNoReturn ==
    /\ pending = "recv_hdr"
    /\ fin
    /\ Unread = 0
    /\ closed' = TRUE
    /\ hdrBuf' = << >>
    /\ Respond400
    /\ UNCHANGED <<peerVars, rpos, bodyBuf, request, clen, deadline, shut>>

\* readBytes == 0: the peer closed and everything it wrote has been read.
RecvHeaderEOF ==
    /\ pending = "recv_hdr"
    /\ fin
    /\ Unread = 0
    /\ Close
    /\ UNCHANGED <<peerVars, bufVars, sendVars, deadline, handling, handled,
                   shut>>

-----------------------------------------------------------------------------
(* readRequestBody and its callback (server.hpp:201-233).                 *)

\* Mutant: recvLen = contentLength, forgetting what is already buffered.
RecvBodyFullLen(n) ==
    LET buf == bodyBuf \o SubSeq(sent, rpos + 1, rpos + n)
    IN
    /\ pending = "recv_body"
    /\ RecvCount(n, clen)
    /\ rpos' = rpos + n
    /\ bodyBuf' = buf
    /\ \/ /\ Len(buf) < clen
          /\ UNCHANGED <<pending, request, sendVars, handling, handled>>
       \/ /\ Len(buf) >= clen
          /\ request' = [request EXCEPT !.body = buf]
          /\ ProcessRequest(request')
    /\ UNCHANGED <<peerVars, hdrBuf, clen, deadline, closed, shut>>

RecvBody(n) ==
    LET buf == bodyBuf \o SubSeq(sent, rpos + 1, rpos + n)
    IN
    /\ pending = "recv_body"
    /\ RecvCount(n, clen - Len(bodyBuf))
    /\ rpos' = rpos + n
    /\ bodyBuf' = buf
    /\ \/ /\ Len(buf) < clen
          /\ UNCHANGED <<pending, request, sendVars, handling, handled>>
       \/ /\ Len(buf) >= clen
          /\ request' = [request EXCEPT !.body = buf]
          /\ ProcessRequest(request')
    /\ UNCHANGED <<peerVars, hdrBuf, clen, deadline, closed, shut>>

\* Every error, ECANCELED included, and readBytes == 0 close.
RecvBodyError ==
    /\ pending = "recv_body"
    /\ reset
    /\ Close
    /\ UNCHANGED <<peerVars, bufVars, sendVars, deadline, handling, handled,
                   shut>>

RecvBodyCancelled ==
    /\ pending = "recv_body"
    /\ deadline = "passed"
    /\ Close
    /\ UNCHANGED <<peerVars, bufVars, sendVars, deadline, handling, handled,
                   shut>>

RecvBodyEOF ==
    /\ pending = "recv_body"
    /\ fin
    /\ Unread = 0
    /\ Close
    /\ UNCHANGED <<peerVars, bufVars, sendVars, deadline, handling, handled,
                   shut>>

-----------------------------------------------------------------------------
(* The handler's respond and the send loop (server.hpp:265-348).          *)

\* Mutant: the responder is not used up by respond (SessionResponder has no
\* guard of its own), so a handler may respond again while a send runs.
HandlerRespondReuse(status) ==
    /\ handling
    /\ response' = status
    /\ StartSend(ResponseLen, status, GetKeepAlive(request))
    /\ UNCHANGED <<peerVars, bufVars, deadline, handling, handled, closed, shut>>

\* SessionResponder::respond -> Session::respond(Response&&).
HandlerRespond(status) ==
    /\ handling
    /\ handling' = FALSE
    /\ response' = status
    /\ StartSend(ResponseLen, status, GetKeepAlive(request))
    /\ UNCHANGED <<peerVars, bufVars, deadline, handled, closed, shut>>

\* Mutant: the deadline applied to the header recv only.
ExpireHeaderOnly ==
    /\ pending = "recv_hdr"
    /\ deadline = "armed"
    /\ deadline' = "passed"
    /\ UNCHANGED <<peerVars, pending, bufVars, sendVars, handling, handled,
                   closed, shut>>

\* Mutant: a short send re-sends from the offset it was given, not past it.
SendDoneOffsetReset(n) ==
    LET cur == Len(responses)
        len == responses[cur].len
    IN
    /\ pending = "send"
    /\ n \in 1..(len - sendOff)
    /\ rcvd' = rcvd \o [j \in 1..n |-> [id |-> cur, i |-> sendOff + j]]
    /\ \/ /\ sendOff + n < len
          /\ sendOff' = n
          /\ UNCHANGED <<pending, hdrBuf, bodyBuf, deadline, shut>>
       \/ /\ sendOff + n >= len
          /\ keepAlive
          /\ ReadRequest
          /\ UNCHANGED <<sendOff, shut>>
       \/ /\ sendOff + n >= len
          /\ ~keepAlive
          /\ pending' = "shutdown"
          /\ shut' = TRUE
          /\ UNCHANGED <<sendOff, hdrBuf, bodyBuf, deadline>>
    /\ UNCHANGED <<reqs, bodySent, fin, reset, sent, rpos, request, clen,
                   responses,
                   keepAlive, response, handling, handled, closed>>

\* Mutant: the return after the re-submitted short send missing; the
\* completion path (start or shutdown) runs as well.
SendDoneNoReturn(n) ==
    LET cur == Len(responses)
        len == responses[cur].len
    IN
    /\ pending = "send"
    /\ n \in 1..(len - sendOff)
    /\ rcvd' = rcvd \o [j \in 1..n |-> [id |-> cur, i |-> sendOff + j]]
    /\ \/ /\ sendOff + n < len
          /\ sendOff' = sendOff + n
          /\ UNCHANGED <<pending, hdrBuf, bodyBuf, deadline, shut>>
       \/ /\ keepAlive
          /\ ReadRequest
          /\ UNCHANGED <<sendOff, shut>>
       \/ /\ ~keepAlive
          /\ pending' = "shutdown"
          /\ shut' = TRUE
          /\ UNCHANGED <<sendOff, hdrBuf, bodyBuf, deadline>>
    /\ UNCHANGED <<reqs, bodySent, fin, reset, sent, rpos, request, clen,
                   responses,
                   keepAlive, response, handling, handled, closed>>

\* A send completion with sentBytes = n > 0.  Short: send the rest.  Done:
\* keep-alive starts over (start -> readRequest), otherwise shutdown.
SendDone(n) ==
    LET cur == Len(responses)
        len == responses[cur].len
    IN
    /\ pending = "send"
    /\ n \in 1..(len - sendOff)
    /\ rcvd' = rcvd \o [j \in 1..n |-> [id |-> cur, i |-> sendOff + j]]
    /\ \/ /\ sendOff + n < len
          /\ sendOff' = sendOff + n
          /\ UNCHANGED <<pending, hdrBuf, bodyBuf, deadline, shut>>
       \/ /\ sendOff + n >= len
          /\ keepAlive
          /\ ReadRequest
          /\ UNCHANGED <<sendOff, shut>>
       \/ /\ sendOff + n >= len
          /\ ~keepAlive
          /\ pending' = "shutdown"
          /\ shut' = TRUE
          /\ UNCHANGED <<sendOff, hdrBuf, bodyBuf, deadline>>
    /\ UNCHANGED <<reqs, bodySent, fin, reset, sent, rpos, request, clen,
                   responses,
                   keepAlive, response, handling, handled, closed>>

\* An error, or sentBytes == 0: close.
SendFailed ==
    /\ pending = "send"
    /\ reset \/ fin
    /\ Close
    /\ UNCHANGED <<peerVars, bufVars, sendVars, deadline, handling, handled,
                   shut>>

\* The shutdown callback closes whatever the error.
ShutdownDone ==
    /\ pending = "shutdown"
    /\ Close
    /\ UNCHANGED <<peerVars, bufVars, sendVars, deadline, handling, handled,
                   shut>>

\* The absolute deadline of the current read passes.
Expire ==
    /\ pending \in {"recv_hdr", "recv_body"}
    /\ deadline = "armed"
    /\ deadline' = "passed"
    /\ UNCHANGED <<peerVars, pending, bufVars, sendVars, handling, handled,
                   closed, shut>>

-----------------------------------------------------------------------------

\* The session as handleAccept leaves it: constructed and started
\* (server.hpp:83-110, 402).
Init ==
    /\ reqs = << >>
    /\ bodySent = TRUE
    /\ fin = FALSE
    /\ reset = FALSE
    /\ sent = << >>
    /\ rcvd = << >>
    /\ rpos = 0
    /\ hdrBuf = << >>
    /\ bodyBuf = << >>
    /\ request = NoRequest
    /\ clen = 0
    /\ responses = << >>
    /\ sendOff = 0
    /\ keepAlive = FALSE
    /\ response = 200
    /\ deadline = "armed"
    /\ pending = "recv_hdr"
    /\ handling = FALSE
    /\ handled = << >>
    /\ closed = FALSE
    /\ shut = FALSE

Peer ==
    \/ \E sh \in Shapes : PeerSendRequest(sh)
    \/ PeerSendBody
    \/ PeerClose
    \/ PeerReset

Session ==
    \/ \E n \in 1..MaxHeaderSize : RecvHeader(n)
    \/ RecvHeaderCancelled
    \/ RecvHeaderError
    \/ RecvHeaderEOF
    \/ \E n \in 1..MaxBodySize : RecvBody(n)
    \/ RecvBodyCancelled
    \/ RecvBodyError
    \/ RecvBodyEOF
    \/ \E s \in Statuses : HandlerRespond(s)
    \/ \E n \in 1..Max({ResponseLen, BadRequestLen}) : SendDone(n)
    \/ SendFailed
    \/ ShutdownDone
    \/ Expire

Next == Peer \/ Session

Spec == Init /\ [][Next]_vars

\* The dispatcher runs every completion whose operation can complete: a recv
\* with data, a peer close or an expired deadline behind it, a send the peer
\* reads, a shutdown, and the timer of the deadline itself; the handler
\* eventually responds (the RequestHandler contract).  Errors and the peer
\* are not fair: a peer may stall for ever.
FairSpec ==
    /\ Spec
    /\ WF_vars(\E n \in 1..MaxHeaderSize : RecvHeader(n))
    /\ WF_vars(RecvHeaderCancelled)
    /\ WF_vars(RecvHeaderEOF)
    /\ WF_vars(\E n \in 1..MaxBodySize : RecvBody(n))
    /\ WF_vars(RecvBodyCancelled)
    /\ WF_vars(RecvBodyEOF)
    /\ WF_vars(\E s \in Statuses : HandlerRespond(s))
    /\ WF_vars(\E n \in 1..Max({ResponseLen, BadRequestLen}) : SendDone(n))
    /\ WF_vars(ShutdownDone)
    /\ WF_vars(Expire)

-----------------------------------------------------------------------------
(* Properties.                                                             *)

RequestRecords ==
    [rid : ReqIds \cup {0}, ver : Versions \cup {"none"},
     conn : HeaderValues(MaxValue) \cup {"none"},
     cl : HeaderValues(MaxValue) \cup {"none"}, body : Seq(Unit)]

TypeOK ==
    /\ reqs \in Seq(Shapes)
    /\ bodySent \in BOOLEAN
    /\ fin \in BOOLEAN
    /\ reset \in BOOLEAN
    /\ sent \in Seq(Unit)
    /\ rcvd \in Seq([id : Nat \ {0}, i : Nat \ {0}])
    /\ pending \in Ops
    /\ rpos \in 0..Len(sent)
    /\ hdrBuf \in Seq(Unit)
    /\ bodyBuf \in Seq(Unit)
    /\ request \in RequestRecords
    /\ clen \in 0..MaxBodySize
    /\ responses \in Seq([len : Nat \ {0}, status : Statuses \cup {400}])
    /\ sendOff \in Nat
    /\ keepAlive \in BOOLEAN
    /\ response \in Statuses \cup {200}
    /\ deadline \in {"armed", "passed"}
    /\ handling \in BOOLEAN
    /\ handled \in Seq([rid : ReqIds \cup {0},
                        cl : HeaderValues(MaxValue) \cup {"none"},
                        body : Seq(Unit)])
    /\ closed \in BOOLEAN
    /\ shut \in BOOLEAN

\* The byte the peer receives after byte b of the response stream.
NextByte(b) ==
    IF b.i = responses[b.id].len
    THEN [id |-> b.id + 1, i |-> 1]
    ELSE [id |-> b.id, i |-> b.i + 1]

\* The peer receives the responses of the session in the order they were
\* produced, each byte exactly once and each response whole before the next
\* begins: the partial-send loop of sendResponse (server.hpp:289-319) never
\* skips, repeats or interleaves bytes across short writes and keep-alive.
ResponseStreamIntact ==
    /\ \A j \in 1..Len(rcvd) :
          /\ rcvd[j].id \in 1..Len(responses)
          /\ rcvd[j].i \in 1..responses[rcvd[j].id].len
    /\ Len(rcvd) > 0 => rcvd[1] = [id |-> 1, i |-> 1]
    /\ \A j \in 1..(Len(rcvd) - 1) : rcvd[j + 1] = NextByte(rcvd[j])

\* A keep-alive session reads the next request only once the last byte of
\* its previous response has been sent (server.hpp:315-333): a recv and a
\* send are never outstanding for the same exchange.
NoReadBeforeResponseSent ==
    (pending = "recv_hdr" /\ responses # << >>) =>
        /\ Len(rcvd) > 0
        /\ rcvd[Len(rcvd)] = [id |-> Len(responses),
                              i |-> responses[Len(responses)].len]

\* The handler sees a body of exactly the Content-Length it was sent with (none:
\* empty), and requestBodyBuffer_ never outgrows the maxRequestBodySize it
\* reserved, so request_.body, a view into it, is never invalidated by a
\* reallocation (server.hpp:92, 183, 205-229).
HandlerSeesContentLength ==
    /\ Len(bodyBuf) <= MaxBodySize
    /\ \A k \in 1..Len(handled) :
          Len(handled[k].body) = IF handled[k].cl = "none"
                                 THEN 0 ELSE ParseLength(handled[k].cl)

\* Once connection_->close() has been called the session submits no more
\* I/O: nothing more is read from or written to the connection (every
\* close in server.hpp is followed by a return).
NoIOAfterClose ==
    [][closed => /\ closed'
                 /\ pending' = "none"
                 /\ rcvd' = rcvd
                 /\ rpos' = rpos]_vars

\* Under FairSpec, where the peer may stall its sends but reads what it is
\* sent, every session ends with connection_->close(): the absolute read
\* deadline of readRequest bounds both the header and the body reads
\* (server.hpp:129, 133, 208), so no session, and no Session object,
\* outlives a peer that stops sending.
SessionEventuallyCloses == <>closed

\* The refinement mapping to ResponseChannel: the responses respond()
\* installed, as their lengths; the bytes the peer received; the
\* connection open until connection_->close().
ResponseLens == [k \in 1..Len(responses) |-> responses[k].len]

Channel == INSTANCE ResponseChannel
               WITH out <- ResponseLens, got <- rcvd, open <- ~closed,
                    Lengths <- {ResponseLen, BadRequestLen}

\* The session implements ResponseChannel: respond() installs a response
\* only once the previous one has reached the peer whole, every send
\* completion delivers the next bytes of the current response from where
\* the peer's stream ends (responseSendOffset_ is that position), and
\* nothing is sent after close() (server.hpp:265-348).
ChannelRefined == Channel!Spec

-----------------------------------------------------------------------------
(* Properties the code does not have (violation runs).                     *)

\* A peer that sends "Connection: close" gets no keep-alive: the session
\* shuts down after the response (getKeepAlive, server.hpp:235-252, over the
\* headers Request::parse produced).
ConnectionCloseHonoured ==
    (pending = "send" /\ responses[Len(responses)].status # 400
       /\ [n |-> "Connection", v |-> "close"] \in Range(reqs[request.rid].hdrs))
    => ~keepAlive

\* The handler is given the body bytes of the request it handles, in order
\* (server.hpp:183-194, 229, over the body Request::parse leaves).
HandlerGetsOwnBody ==
    \A k \in 1..Len(handled) :
       \A j \in DOMAIN handled[k].body :
          handled[k].body[j] = BUnit(handled[k].rid, j)

\* The session answers each request at most once: no more responses than the
\* peer has begun requests (one Request::parse per request, http.cpp:228).
OneResponsePerRequest == Len(responses) <= Len(reqs)

\* Unless the peer reset or closed the connection, the session closes it only
\* after an orderly shutdown; in particular an expired read deadline leads to
\* shutdown (spec 7), for the body read as for the header read
\* (server.hpp:147-149, 211-215).
GracefulClose == (closed /\ ~reset /\ ~fin) => shut

=============================================================================
