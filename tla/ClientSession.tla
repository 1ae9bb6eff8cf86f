--------------------------- MODULE ClientSession ---------------------------
(***************************************************************************)
(* One ClientSession<...> of src/src/client.hpp (lines 30-260) and the     *)
(* server on the other end of its connection.                              *)
(*                                                                         *)
(* Like the server session, the client runs on the I/O dispatcher: every  *)
(* action below is one call of the user (request) or one completion        *)
(* callback run to its end, with the I/O it submits before returning;      *)
(* `pending` is the operation whose callback is due.  The serialized      *)
(* request is ReqLen bytes, named by their positions 1..ReqLen; the server *)
(* records the positions it receives.  Its response is a header block of   *)
(* `hlen` units followed by `body` body bytes, written in any number of    *)
(* segments; a recv returns any non-empty prefix of what is unread, up to  *)
(* recvLen (client.hpp:176).  Every user callback invocation is appended   *)
(* to `calls`, tagged with the request() call it belongs to.               *)
(***************************************************************************)
EXTENDS Naturals, Sequences, FiniteSets, HttpRequest

CONSTANTS
    ReqLen,          \* requestBuffer_.size()
    RecvLen,         \* recvLen, the size of the single header recv
    MaxUserRequests, \* request() calls the user makes on the session
    RespShapes,      \* the responses the server may write
    Faults           \* the failures the environment may produce

\* The failures: getaddrinfo fails or returns no address, socket() returns
\* -1, the connect is refused, the server resets or closes the connection.
FaultKinds ==
    {"resolve_error", "resolve_empty", "socket", "connect", "reset", "close"}

\* A response: header-block length, Content-Length text ("none" when the
\* header is absent), body length.
ShapeRecords ==
    [hlen : 1..3, cl : {"none"} \cup HeaderValues(3), body : 0..3]

ASSUME ConstantsAssumption ==
    /\ ReqLen \in Nat \ {0}
    /\ RecvLen \in Nat \ {0}
    /\ MaxUserRequests \in Nat
    /\ RespShapes \subseteq ShapeRecords /\ RespShapes # {}
    /\ Faults \subseteq FaultKinds

VARIABLES
    \* the session (its members, client.hpp:251-259)
    callback,    \* callback_ is set
    accepted,    \* request() calls that stored their callback
    issued,      \* request() calls made
    addr,        \* connectAddr_ holds a resolved address (not AF_UNSPEC)
    sock,        \* the socket of the connect: "none", "valid" or "invalid" (-1)
    connected,   \* the TCP connect succeeded
    conn,        \* connection_ is non-null
    closed,      \* connection_->close() has been called
    pending,     \* the submitted operation whose callback is due
    sendCursor,  \* sendCursor_
    calls,       \* every invocation of the user callback, in order
    \* the server
    srvRcvd,     \* request byte positions the server received, in order
    shape,       \* the response it writes
    respOut,     \* units of the response it has written
    fin,         \* it has closed its end
    reset        \* the connection was reset

peerVars == <<srvRcvd, shape, respOut, fin, reset>>
vars == <<callback, accepted, issued, addr, sock, connected, conn, closed,
          pending, sendCursor, calls, peerVars>>

Ops == {"none", "resolve", "connect", "send", "recv"}

Call(r, ok, body) == [req |-> r, ok |-> ok, body |-> body]

\* callback_(ec, Response()): an error for request r.
Fail(r) == calls' = Append(calls, Call(r, FALSE, 0))

RespTotal(s) == s.hlen + s.body

TypeOK ==
    /\ callback \in BOOLEAN
    /\ accepted \in 0..MaxUserRequests
    /\ issued \in 0..MaxUserRequests
    /\ addr \in BOOLEAN
    /\ sock \in {"none", "valid", "invalid"}
    /\ connected \in BOOLEAN
    /\ conn \in BOOLEAN
    /\ closed \in BOOLEAN
    /\ pending \in Ops
    /\ sendCursor \in 0..ReqLen
    /\ calls \in Seq([req : 1..MaxUserRequests, ok : BOOLEAN, body : Nat])
    /\ srvRcvd \in Seq(1..ReqLen)
    /\ shape \in RespShapes
    /\ respOut \in 0..RespTotal(shape)
    /\ fin \in BOOLEAN
    /\ reset \in BOOLEAN

Init ==
    /\ callback = FALSE
    /\ accepted = 0
    /\ issued = 0
    /\ addr = FALSE
    /\ sock = "none"
    /\ connected = FALSE
    /\ conn = FALSE
    /\ closed = FALSE
    /\ pending = "none"
    /\ sendCursor = 0
    /\ calls = << >>
    /\ srvRcvd = << >>
    /\ shape \in RespShapes
    /\ respOut = 0
    /\ fin = FALSE
    /\ reset = FALSE

-----------------------------------------------------------------------------
(* The session's helpers, run inside the action that calls them.           *)

\* connect() (client.hpp:115-142) for request r, with `known` the value of
\* connectAddr_ at the call: resolve when no address is known; otherwise
\* create a socket, report a failure of socket() to the callback without
\* returning, and submit the connect on the socket, -1 included.
Connect(known, r) ==
    IF ~known
    THEN /\ pending' = "resolve"
         /\ UNCHANGED <<sock, calls>>
    ELSE \E s \in {"valid"} \cup (IF "socket" \in Faults THEN {"invalid"} ELSE {}) :
           /\ sock' = s
           /\ pending' = "connect"
           /\ IF s = "invalid" THEN Fail(r) ELSE calls' = calls

\* The error branches of the send and recv callbacks: report, close, return.
FailAndClose ==
    /\ Fail(accepted)
    /\ closed' = TRUE
    /\ pending' = "none"

-----------------------------------------------------------------------------
(* The user.                                                               *)

\* request() (client.hpp:42-56): refused while a callback is stored;
\* otherwise store it and connect, unless a connection already exists.
Request ==
    /\ issued < MaxUserRequests
    /\ issued' = issued + 1
    /\ IF callback
       THEN UNCHANGED <<callback, accepted, addr, sock, connected, conn,
                        closed, pending, sendCursor, calls, peerVars>>
       ELSE /\ callback' = TRUE
            /\ accepted' = accepted + 1
            /\ IF ~conn
               THEN Connect(addr, accepted + 1)
               ELSE UNCHANGED <<pending, sock, calls>>
            /\ UNCHANGED <<addr, connected, conn, closed, sendCursor, peerVars>>

-----------------------------------------------------------------------------
(* The completion callbacks.                                               *)

\* Mutant: the return after reporting a resolver error missing; the empty
\* address list is then reported as well.
ResolveFailedNoReturn ==
    /\ Faults \cap {"resolve_error", "resolve_empty"} # {}
    /\ calls' = calls \o << Call(accepted, FALSE, 0), Call(accepted, FALSE, 0) >>
    /\ pending' = "none"

\* The failing branches of the resolve callback (client.hpp:99-108): an
\* error or an empty address list is reported, and the callback returns.
ResolveFailed ==
    /\ Faults \cap {"resolve_error", "resolve_empty"} # {}
    /\ Fail(accepted)
    /\ pending' = "none"

\* The resolve callback (client.hpp:97-112): a failure is reported;
\* otherwise the first address is stored and connect() called again.
ResolveDone ==
    /\ pending = "resolve"
    /\ \/ /\ ResolveFailed
          /\ UNCHANGED <<addr, sock>>
       \/ /\ addr' = TRUE
          /\ Connect(TRUE, accepted)
    /\ UNCHANGED <<callback, accepted, issued, connected, conn, closed,
                   sendCursor, peerVars>>

\* The connect callback (client.hpp:130-140): an error is reported and the
\* callback goes on: the connection is created on the socket and send()
\* submitted either way.  A connect on socket -1 always fails.
ConnectDone ==
    /\ pending = "connect"
    /\ \E ok \in (IF sock = "valid" THEN {TRUE} ELSE {})
                 \cup (IF sock = "invalid" \/ "connect" \in Faults THEN {FALSE} ELSE {}) :
         /\ connected' = ok
         /\ IF ok THEN calls' = calls ELSE Fail(accepted)
    /\ conn' = TRUE
    /\ pending' = "send"
    /\ UNCHANGED <<callback, accepted, issued, addr, sock, closed, sendCursor,
                   peerVars>>

\* Mutant: the send length taken as requestBuffer_.size(), forgetting the
\* cursor.
SendLenWhole == ReqLen

\* The length send() submits: requestBuffer_.size() - sendCursor_
\* (client.hpp:146-147).
SendLen == ReqLen - sendCursor

\* Mutant: a short send re-arms without advancing the cursor.
SendWroteStale(n) ==
    /\ srvRcvd' = srvRcvd \o [j \in 1..n |-> sendCursor + j]
    /\ IF sendCursor + n < ReqLen
       THEN /\ UNCHANGED sendCursor
            /\ pending' = "send"
       ELSE /\ pending' = "recv"
            /\ UNCHANGED sendCursor

\* A send of n bytes (client.hpp:163-170): the server receives the bytes at
\* sendCursor_ + 1 .. sendCursor_ + n; a short send advances the cursor and
\* sends the rest, a send that reaches the end starts the header recv.
SendWrote(n) ==
    /\ srvRcvd' = srvRcvd \o [j \in 1..n |-> sendCursor + j]
    /\ IF sendCursor + n < ReqLen
       THEN /\ sendCursor' = sendCursor + n
            /\ pending' = "send"
       ELSE /\ pending' = "recv"
            /\ UNCHANGED sendCursor

\* Mutant: the 0-byte branch reports but does not close.
SendClosedNoClose ==
    /\ Fail(accepted)
    /\ pending' = "none"
    /\ UNCHANGED closed

\* A 0-byte send, the server having closed (client.hpp:156-161).
SendClosed == FailAndClose

\* The send callback (client.hpp:148-171): an error (the connection is not
\* established or was reset) is reported and closes, so is a 0-byte send;
\* otherwise some of the SendLen bytes were written.
SendDone ==
    /\ pending = "send"
    /\ IF ~connected \/ reset
       THEN /\ FailAndClose
            /\ UNCHANGED <<sendCursor, srvRcvd>>
       ELSE IF fin
       THEN /\ SendClosed
            /\ UNCHANGED <<sendCursor, srvRcvd>>
       ELSE \E n \in 1..SendLen :
              /\ SendWrote(n)
              /\ UNCHANGED <<calls, closed>>
    /\ UNCHANGED <<callback, accepted, issued, addr, sock, connected, conn,
                   shape, respOut, fin, reset>>

\* Response::parse, symmetric to Request::parse: it succeeds on a buffer
\* that holds the whole header block; the rest of the buffer is the body.
ResponseParses(n) == n >= shape.hlen

\* Mutant: end of stream closes without reporting to the callback.
RecvClosedSilent ==
    /\ closed' = TRUE
    /\ pending' = "none"
    /\ UNCHANGED calls

\* A 0-byte recv, the server having closed (client.hpp:187-192).
RecvClosed == FailAndClose

\* A recv of n bytes (client.hpp:194-223): a response that does not parse
\* and an invalid Content-Length are reported and close; otherwise a body
\* shorter than Content-Length is delivered as it is ("READ THE REST"), a
\* longer one is cut to it, and the callback slot is cleared.  The
\* connection stays open.
RecvGot(n) ==
    LET got == n - shape.hlen
        cl  == shape.cl
    IN  IF ~ResponseParses(n) \/ (cl # "none" /\ ~IsDecimal(cl))
        THEN /\ FailAndClose
             /\ UNCHANGED callback
        ELSE /\ calls' = Append(calls, Call(accepted, TRUE,
                           IF cl # "none" /\ got >= ParseLength(cl)
                           THEN ParseLength(cl) ELSE got))
             /\ callback' = FALSE
             /\ pending' = "none"
             /\ UNCHANGED closed

\* The recv callback (client.hpp:179-224): an error is reported and closes,
\* so is end of stream; otherwise the recv returned up to recvLen of the
\* unread response.
RecvDone ==
    /\ pending = "recv"
    /\ IF reset
       THEN /\ FailAndClose
            /\ UNCHANGED callback
       ELSE IF respOut = 0
       THEN /\ fin
            /\ RecvClosed
            /\ UNCHANGED callback
       ELSE \E n \in 1..Min({RecvLen, respOut}) : RecvGot(n)
    /\ UNCHANGED <<accepted, issued, addr, sock, connected, conn, sendCursor,
                   peerVars>>

-----------------------------------------------------------------------------
(* The server.                                                             *)

\* Once it has the whole request, the server writes the next segment of
\* its response.
PeerRespond ==
    /\ Len(srvRcvd) = ReqLen
    /\ ~fin /\ ~reset
    /\ \E k \in 1..(RespTotal(shape) - respOut) : respOut' = respOut + k
    /\ UNCHANGED <<srvRcvd, shape, fin, reset>>

\* The server closes its end at any point of the exchange.
PeerClose ==
    /\ "close" \in Faults
    /\ connected /\ ~fin /\ ~reset
    /\ fin' = TRUE
    /\ UNCHANGED <<srvRcvd, shape, respOut, reset>>

\* The connection is reset.
PeerReset ==
    /\ "reset" \in Faults
    /\ connected /\ ~reset
    /\ reset' = TRUE
    /\ UNCHANGED <<srvRcvd, shape, respOut, fin>>

sessionVars == <<callback, accepted, issued, addr, sock, connected, conn,
                 closed, pending, sendCursor, calls>>

Next ==
    \/ Request
    \/ ResolveDone
    \/ ConnectDone
    \/ SendDone
    \/ RecvDone
    \/ (PeerRespond \/ PeerClose \/ PeerReset) /\ UNCHANGED sessionVars

Spec == Init /\ [][Next]_vars

\* The dispatcher runs every submitted operation's callback once it can
\* complete, and the server is assumed to answer a complete request; the
\* user (request) and the faults are not required to act.
FairSpec ==
    /\ Spec
    /\ WF_vars(ResolveDone) /\ WF_vars(ConnectDone)
    /\ WF_vars(SendDone) /\ WF_vars(RecvDone)
    /\ WF_vars(PeerRespond /\ UNCHANGED sessionVars)

-----------------------------------------------------------------------------
(* Properties.                                                             *)

\* The request the session works on has already been reported as failed.
FailedCurrent == \E j \in DOMAIN calls : calls[j].req = accepted /\ ~calls[j].ok

\* Spec 4.4, "the callback is invoked exactly once per request call": no
\* request() call has its callback run twice, whatever path through
\* resolve, socket, connect, send and recv it takes.
CallbackAtMostOnce ==
    \A j, k \in DOMAIN calls : j < k => calls[j].req # calls[k].req

\* The send loop (client.hpp:146-171) delivers the request buffer to the
\* server exactly once and in order, and the header recv starts, and a
\* response is delivered, only after its last byte was sent.
RequestStreamIntact ==
    /\ srvRcvd = [j \in 1..Len(srvRcvd) |-> j]
    /\ (pending = "recv" \/ \E j \in DOMAIN calls : calls[j].ok)
           => Len(srvRcvd) = ReqLen

\* A session whose request has failed and that has no operation left has
\* closed its connection (spec 4.4: an I/O error calls the callback, then
\* closes): no failed exchange leaves its socket open.
FailedRequestClosesConnection ==
    (FailedCurrent /\ conn /\ pending = "none") => closed

\* Spec 4.4: the callback of every accepted request() call eventually runs.
CallbackEventually ==
    \A i \in 1..MaxUserRequests :
        (accepted >= i) ~> (\E j \in DOMAIN calls : calls[j].req = i)

\* Spec 4.4, for the request() call that opens the session: once accepted,
\* its callback eventually runs, over resolve failures, resets and peer
\* closes and while a second request() call is refused or accepted behind
\* it. (A call accepted after the first completed is the subject of
\* CallbackEventually.)
FirstCallbackEventually ==
    (accepted >= 1) ~> (\E j \in DOMAIN calls : calls[j].req = 1)

=============================================================================
