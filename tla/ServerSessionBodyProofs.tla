----------------------- MODULE ServerSessionBodyProofs -----------------------
(***************************************************************************)
(* HandlerSeesContentLength for every value of the constants: the handler *)
(* is given a body of exactly Content-Length bytes, and the body buffer    *)
(* stays within maxRequestBodySize.                                        *)
(***************************************************************************)
EXTENDS ServerSessionProofs, TLAPS

\* The length rule for one request handed to the handler.
BodyLengthOK(rq) ==
    Len(rq.body) = IF rq.cl = "none" THEN 0 ELSE ParseLength(rq.cl)

\* Every request the handler was invoked with obeys the length rule.
HandledOK(h) == \A k \in 1..Len(h) : BodyLengthOK(h[k])

\* While the body is read, request_ carries the Content-Length the body
\* read was started with (readRequestBody(*length), server.hpp:186-188).
BodyInv ==
    pending = "recv_body" =>
        /\ request.cl # "none"
        /\ ParseLength(request.cl) = clen

\* The inductive invariant: the type invariant, the body-read invariant and
\* the property itself.
HInv == IInv /\ BodyInv /\ HandlerSeesContentLength

\* HandlerSeesContentLength, restated with the length rule by name.
LEMMA HandlerSeesContentLengthDef ==
  HandlerSeesContentLength <=> Len(bodyBuf) <= MaxBodySize /\ HandledOK(handled)
BY DEF HandlerSeesContentLength, HandledOK, BodyLengthOK

\* processRequest appends a request that obeys the length rule.
LEMMA AppendHandledOK ==
  ASSUME NEW S, NEW h \in Seq(S), HandledOK(h), NEW rq, BodyLengthOK(rq)
  PROVE  HandledOK(Append(h, [rid |-> rq.rid, cl |-> rq.cl, body |-> rq.body]))
<1>. DEFINE e == [rid |-> rq.rid, cl |-> rq.cl, body |-> rq.body]
            h2 == Append(h, e)
<1>1. Len(h2) = Len(h) + 1 /\ h2[Len(h) + 1] = e
      /\ \A k \in 1..Len(h) : h2[k] = h[k]
  BY AppendProperties
<1>2. BodyLengthOK(e)
  BY DEF BodyLengthOK
<1>. QED BY <1>1, <1>2 DEF HandledOK, BodyLengthOK

\* A step that leaves the body read, the request_ and the handled requests
\* alone, and does not start a body read, keeps both invariants.
LEMMA FrameBody ==
  ASSUME BodyInv, HandlerSeesContentLength,
         UNCHANGED <<request, clen, bodyBuf, handled>>,
         pending' = pending \/ pending' # "recv_body"
  PROVE  BodyInv' /\ HandlerSeesContentLength'
BY DEF BodyInv, HandlerSeesContentLength

\* The peer's writes, the handler's respond, the send loop, the timer and
\* the closing callbacks keep both invariants: none of them touches the
\* body read or hands a request to the handler, and a send that completes
\* with keep-alive clears the body buffer (readRequest).
LEMMA OtherBody ==
  ASSUME BodyInv, HandlerSeesContentLength,
         \/ Peer
         \/ \E s \in Statuses : HandlerRespond(s)
         \/ \E n \in 1..Max({ResponseLen, BadRequestLen}) : SendDone(n)
         \/ RecvHeaderCancelled \/ RecvHeaderError \/ RecvHeaderEOF
         \/ RecvBodyCancelled \/ RecvBodyError \/ RecvBodyEOF
         \/ SendFailed \/ ShutdownDone \/ Expire
  PROVE  BodyInv' /\ HandlerSeesContentLength'
<1>1. CASE Peer
  <2>1. UNCHANGED <<request, clen, bodyBuf, handled, pending>>
    BY <1>1 DEF Peer, PeerSendRequest, PeerSendBody, PeerClose, PeerReset,
                bufVars
  <2>. QED BY <2>1, FrameBody
<1>2. CASE \E s \in Statuses : HandlerRespond(s)
  <2>1. UNCHANGED <<request, clen, bodyBuf, handled>> /\ pending' = "send"
    BY <1>2 DEF HandlerRespond, StartSend, bufVars
  <2>. QED BY <2>1, FrameBody
<1>3. CASE \E n \in 1..Max({ResponseLen, BadRequestLen}) : SendDone(n)
  <2>1. UNCHANGED <<request, clen, handled>>
        /\ pending' \in {"send", "recv_hdr", "shutdown"}
        /\ (bodyBuf' = bodyBuf \/ bodyBuf' = << >>)
    BY <1>3 DEF SendDone, ReadRequest
  <2>2. Len(<< >>) <= MaxBodySize
    BY ConstantsAssumption
  <2>. QED BY <2>1, <2>2 DEF BodyInv, HandlerSeesContentLength
<1>4. CASE \/ RecvHeaderCancelled \/ RecvHeaderError \/ RecvHeaderEOF
           \/ RecvBodyCancelled \/ RecvBodyError \/ RecvBodyEOF
           \/ SendFailed \/ ShutdownDone \/ Expire
  <2>1. UNCHANGED <<request, clen, bodyBuf, handled>>
        /\ (pending' = pending \/ pending' \in {"none", "shutdown"})
    BY <1>4 DEF RecvHeaderCancelled, RecvHeaderError, RecvHeaderEOF,
                RecvBodyCancelled, RecvBodyError, RecvBodyEOF, SendFailed,
                ShutdownDone, Expire, Close, bufVars
  <2>. QED BY <2>1, FrameBody
<1>. QED BY <1>1, <1>2, <1>3, <1>4

\* The body recv keeps both invariants: it asks for at most the bytes still
\* missing (contentLength - requestBodyBuffer_.size(), server.hpp:205), so
\* the buffer never outgrows Content-Length, and the request it completes
\* carries exactly Content-Length bytes.
LEMMA RecvBodyBody ==
  ASSUME HInv, NEW n \in Nat, RecvBody(n)
  PROVE  BodyInv' /\ HandlerSeesContentLength'
<1>. DEFINE slice == SubSeq(sent, rpos + 1, rpos + n)
            buf == bodyBuf \o slice
<1>1. /\ TypeOK /\ BodyInv /\ HandlerSeesContentLength
      /\ pending = "recv_body" /\ bodyBuf' = buf
      /\ UNCHANGED <<clen, hdrBuf>>
  BY DEF HInv, IInv, RecvBody
<1>2. /\ request.cl # "none" /\ ParseLength(request.cl) = clen
  BY <1>1 DEF BodyInv
<1>3. RecvCount(n, clen - Len(bodyBuf))
  BY DEF RecvBody
<1>4. /\ rpos \in Nat /\ sent \in Seq(Unit) /\ bodyBuf \in Seq(Unit)
      /\ clen \in 0..MaxBodySize /\ request \in RequestRecords
  BY <1>1 DEF TypeOK
<1>5. n \in 1..(clen - Len(bodyBuf))
  BY <1>3 DEF RecvCount
<1>6. rpos + n \in 0..Len(sent)
  BY <1>1, <1>3, RecvSliceType
<1>7. slice \in Seq(Unit) /\ Len(slice) = n
  BY <1>4, <1>5, <1>6, SubSeqProperties
<1>8. Len(buf) = Len(bodyBuf) + n
  BY <1>4, <1>7, ConcatProperties
<1>9. Len(buf) <= clen /\ Len(buf) <= MaxBodySize
  BY <1>4, <1>5, <1>8, ConstantsAssumption
<1>10. handled \in Seq(HandledRecords) /\ HandledOK(handled)
  BY <1>1, HandlerSeesContentLengthDef DEF TypeOK, HandledRecords
<1>11. CASE Len(buf) < clen /\ UNCHANGED <<pending, request, sendVars, handling,
                                           handled>>
  BY <1>1, <1>2, <1>9, <1>11 DEF BodyInv, HandlerSeesContentLength
<1>12. CASE Len(buf) >= clen /\ request' = [request EXCEPT !.body = buf]
            /\ ProcessRequest(request')
  <2>1. request'.cl = request.cl /\ request'.body = buf
    BY <1>4, <1>12 DEF RequestRecords
  <2>2. Len(buf) = clen
    BY <1>4, <1>9, <1>12
  <2>3. BodyLengthOK(request')
    BY <1>2, <2>1, <2>2 DEF BodyLengthOK
  <2>4. handled' = Append(handled, [rid |-> request'.rid, cl |-> request'.cl,
                                    body |-> request'.body])
        /\ pending' = "none"
    BY <1>12 DEF ProcessRequest
  <2>5. HandledOK(handled')
    BY <1>10, <2>3, <2>4, AppendHandledOK
  <2>6. BodyInv'
    BY <2>4 DEF BodyInv
  <2>7. HandlerSeesContentLength'
    BY <1>1, <1>9, <2>5 DEF HandlerSeesContentLength, HandledOK, BodyLengthOK
  <2>. QED BY <2>6, <2>7
<1>. QED BY <1>11, <1>12 DEF RecvBody

\* The header recv keeps both invariants: a request without Content-Length
\* has no body, a body read starts with request_ carrying the length it
\* reads to, and a body found complete in the header buffer is cut to
\* Content-Length (request_.body.substr(0, *length), server.hpp:190).
LEMMA RecvHeaderBody ==
  ASSUME HInv, NEW n \in Nat, RecvHeader(n)
  PROVE  BodyInv' /\ HandlerSeesContentLength'
<1>. DEFINE buf == SubSeq(sent, rpos + 1, rpos + n)
            rq  == Parse(buf)
            k   == ParseLength(rq.cl)
<1>1. TypeOK /\ BodyInv /\ HandlerSeesContentLength /\ OnHeader(buf)
  BY DEF HInv, IInv, RecvHeader
<1>2. buf \in Seq(Unit) /\ bodyBuf \in Seq(Unit)
      /\ handled \in Seq(HandledRecords) /\ HandledOK(handled)
  BY <1>1, RecvSliceType, HandlerSeesContentLengthDef
     DEF RecvHeader, TypeOK, HandledRecords
<1>3. ASSUME ParseOK(buf)
      PROVE  rq \in RequestRecords /\ rq.body = << >>
  BY <1>2, <1>3, ParseRequestType, ParseType DEF Unit
<1>4. ASSUME Respond400
      PROVE  UNCHANGED handled /\ pending' = "send"
  BY <1>4 DEF Respond400, StartSend
<1>5. CASE ~ParseOK(buf) /\ Respond400 /\ UNCHANGED <<bodyBuf, request, clen>>
  BY <1>1, <1>4, <1>5, FrameBody
<1>6. CASE ParseOK(buf) /\ rq.cl = "none" /\ request' = rq
           /\ ProcessRequest(rq) /\ UNCHANGED <<bodyBuf, clen>>
  <2>1. BodyLengthOK(rq)
    BY <1>3, <1>6 DEF BodyLengthOK
  <2>2. handled' = Append(handled, [rid |-> rq.rid, cl |-> rq.cl,
                                    body |-> rq.body])
        /\ pending' = "none"
    BY <1>6 DEF ProcessRequest
  <2>3. HandledOK(handled')
    BY <1>2, <2>1, <2>2, AppendHandledOK
  <2>. QED BY <1>1, <1>6, <2>2, <2>3
           DEF BodyInv, HandlerSeesContentLength, HandledOK, BodyLengthOK
<1>7. CASE ParseOK(buf) /\ rq.cl # "none" /\ ~LengthAccepted(rq.cl)
           /\ request' = rq /\ Respond400 /\ UNCHANGED <<bodyBuf, clen>>
  BY <1>1, <1>4, <1>7 DEF BodyInv, HandlerSeesContentLength
<1>8. CASE ParseOK(buf) /\ rq.cl # "none" /\ LengthAccepted(rq.cl)
           /\ Len(rq.body) < k
           /\ bodyBuf' = rq.body /\ request' = [rq EXCEPT !.body = << >>]
           /\ clen' = k /\ pending' = "recv_body"
           /\ UNCHANGED <<sendVars, handling, handled>>
  <2>1. rq \in RequestRecords /\ rq.body = << >>
    BY <1>3, <1>8
  <2>2. request'.cl = rq.cl /\ Len(bodyBuf') = 0
    BY <1>8, <2>1 DEF RequestRecords
  <2>3. BodyInv'
    BY <1>8, <2>2 DEF BodyInv
  <2>4. HandlerSeesContentLength'
    BY <1>1, <1>8, <2>2, ConstantsAssumption DEF HandlerSeesContentLength
  <2>. QED BY <2>3, <2>4
<1>9. CASE ParseOK(buf) /\ rq.cl # "none" /\ LengthAccepted(rq.cl)
           /\ Len(rq.body) >= k
           /\ request' = [rq EXCEPT !.body = SubSeq(rq.body, 1, k)]
           /\ ProcessRequest(request') /\ UNCHANGED <<bodyBuf, clen>>
  <2>1. rq \in RequestRecords /\ rq.body = << >> /\ k \in 0..9
    BY <1>3, <1>9, ParseLengthType DEF LengthAccepted
  <2>2. k = 0 /\ Len(SubSeq(rq.body, 1, k)) = 0
    BY <2>1, <1>9
  <2>3. request'.cl = rq.cl /\ Len(request'.body) = k
    BY <1>9, <2>1, <2>2 DEF RequestRecords
  <2>4. BodyLengthOK(request')
    BY <1>9, <2>3 DEF BodyLengthOK
  <2>5. handled' = Append(handled, [rid |-> request'.rid, cl |-> request'.cl,
                                    body |-> request'.body])
        /\ pending' = "none"
    BY <1>9 DEF ProcessRequest
  <2>6. HandledOK(handled')
    BY <1>2, <2>4, <2>5, AppendHandledOK
  <2>. QED BY <1>1, <1>9, <2>5, <2>6
           DEF BodyInv, HandlerSeesContentLength, HandledOK, BodyLengthOK
<1>. QED BY <1>1, <1>5, <1>6, <1>7, <1>8, <1>9 DEF OnHeader

\* Init satisfies the body invariants: no body read, nothing handled.
LEMMA InitHInv == Init => HInv
<1>. SUFFICES ASSUME Init PROVE HInv
  OBVIOUS
<1>1. BodyInv /\ HandlerSeesContentLength
  BY ConstantsAssumption DEF Init, BodyInv, HandlerSeesContentLength
<1>. QED BY <1>1, InitIInv DEF HInv

\* Every step keeps the inductive invariant.
LEMMA NextHInv ==
  ASSUME HInv, [Next]_vars
  PROVE  HInv'
<1>1. IInv'
  BY NextIInv DEF HInv
<1>2. BodyInv /\ HandlerSeesContentLength
  BY DEF HInv
<1>3. (BodyInv /\ HandlerSeesContentLength)'
  <2>1. CASE \E n \in 1..MaxHeaderSize : RecvHeader(n)
    <3>1. PICK n \in 1..MaxHeaderSize : RecvHeader(n)
      BY <2>1
    <3>. QED BY <3>1, RecvHeaderBody
  <2>2. CASE \E n \in 1..MaxBodySize : RecvBody(n)
    <3>1. PICK n \in 1..MaxBodySize : RecvBody(n)
      BY <2>2
    <3>. QED BY <3>1, RecvBodyBody
  <2>3. CASE UNCHANGED vars
    <3>1. UNCHANGED <<pending, request, clen, bodyBuf, handled>>
      BY <2>3 DEF vars, bufVars
    <3>. QED BY <1>2, <3>1, FrameBody
  <2>4. CASE \/ Peer
             \/ \E s \in Statuses : HandlerRespond(s)
             \/ \E n \in 1..Max({ResponseLen, BadRequestLen}) : SendDone(n)
             \/ RecvHeaderCancelled \/ RecvHeaderError \/ RecvHeaderEOF
             \/ RecvBodyCancelled \/ RecvBodyError \/ RecvBodyEOF
             \/ SendFailed \/ ShutdownDone \/ Expire
    BY <1>2, <2>4, OtherBody
  <2>. QED BY <2>1, <2>2, <2>3, <2>4 DEF Next, Session
<1>. QED BY <1>1, <1>3 DEF HInv

\* HandlerSeesContentLength (checked by the session run) for every value of
\* the constants: each request the handler is invoked with carries exactly
\* Content-Length body bytes (none without the header), whether the body
\* came with the header block or in later recvs, and requestBodyBuffer_
\* never outgrows maxRequestBodySize.
THEOREM BodyLengthCorrect == Spec => []HandlerSeesContentLength
<1>1. Init => HInv
  BY InitHInv
<1>2. HInv /\ [Next]_vars => HInv'
  BY NextHInv
<1>3. HInv => HandlerSeesContentLength
  BY DEF HInv
<1>. QED BY <1>1, <1>2, <1>3, PTL DEF Spec

=============================================================================
