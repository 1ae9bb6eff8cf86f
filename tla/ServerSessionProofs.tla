------------------------- MODULE ServerSessionProofs -------------------------
(***************************************************************************)
(* Proofs about ServerSession for every value of its constants: the type  *)
(* invariant, and that the handler sees exactly Content-Length body bytes. *)
(***************************************************************************)
EXTENDS ServerSession, HttpRequestProofs, TLAPS

-----------------------------------------------------------------------------
(* The byte streams.                                                       *)

\* The bytes the peer writes for one request's header block are units of
\* the stream.
LEMMA HeaderBlockType ==
  ASSUME NEW r \in ReqIds, NEW sh \in ShapeRecords
  PROVE  HeaderBlock(r, sh) \in Seq(Unit)
<1>. DEFINE L == Len(sh.hdrs)
            mid == [j \in 1..(2 * L) |->
                      IF j % 2 = 1
                      THEN HUnit(r, sh.hdrs[(j + 1) \div 2].n,
                                 sh.hdrs[(j + 1) \div 2].v)
                      ELSE CRLFUnit(r)]
<1>1. sh.hdrs \in Seq([n : HeaderNames, v : HeaderValues(MaxValue)])
  BY DEF ShapeRecords
<1>2. L \in Nat
  BY <1>1
<1>3. ASSUME NEW j \in 1..(2 * L), j % 2 = 1
      PROVE  sh.hdrs[(j + 1) \div 2] \in [n : HeaderNames, v : HeaderValues(MaxValue)]
  <2>1. (j + 1) \div 2 \in 1..L
    BY <1>2, <1>3
  <2>. QED BY <1>1, <2>1, ElementOfSeq
<1>4. mid \in Seq(Unit)
  BY <1>2, <1>3 DEF HUnit, CRLFUnit, Unit, Units
<1>5. << RLUnit(r, sh.v), CRLFUnit(r) >> \in Seq(Unit) /\ << CRLFUnit(r) >> \in Seq(Unit)
  BY DEF ShapeRecords, RLUnit, CRLFUnit, Unit, Units
<1>. QED BY <1>4, <1>5, ConcatProperties DEF HeaderBlock

\* The body bytes of a request are units of the stream.
LEMMA BodyBytesType ==
  ASSUME NEW r \in ReqIds, NEW sh \in ShapeRecords
  PROVE  BodyBytes(r, sh) \in Seq(Unit)
<1>1. sh.body \in 0..MaxValue
  BY DEF ShapeRecords
<1>2. \A k \in 1..sh.body : BUnit(r, k) \in Unit
  BY <1>1, ConstantsAssumption DEF MaxValue, BUnit, Unit, Units
<1>. QED BY <1>1, <1>2 DEF BodyBytes

\* What a recv returns is a slice of the stream.
LEMMA SliceType ==
  ASSUME NEW s \in Seq(Unit), NEW a \in Nat, NEW n \in Nat, a + n <= Len(s)
  PROVE  SubSeq(s, a + 1, a + n) \in Seq(Unit)
<1>1. \A i \in (a + 1)..(a + n) : s[i] \in Unit
  BY ElementOfSeq
<1>. QED BY <1>1, SubSeqProperties

\* A prefix of a sequence of units, as SubSeq(body, 1, contentLength).
LEMMA PrefixType ==
  ASSUME NEW s \in Seq(Unit), NEW m \in 0..Len(s)
  PROVE  SubSeq(s, 1, m) \in Seq(Unit)
<1>1. \A i \in 1..m : s[i] \in Unit
  BY ElementOfSeq
<1>. QED BY <1>1, SubSeqProperties

-----------------------------------------------------------------------------
(* The type invariant.                                                     *)

\* TypeOK strengthened by what the send and the body write rely on: a send
\* is outstanding only for an installed response, a body is owed only for a
\* request that was begun, and request indices stay within ReqIds.
IInv ==
    /\ TypeOK
    /\ Len(reqs) <= MaxRequests
    /\ pending = "send" => responses # << >>
    /\ ~bodySent => reqs # << >>

\* A parse result, and a parse result with a body slice, is a request_.
LEMMA ParseRequestType ==
  ASSUME NEW buf \in Seq(Unit), ParseOK(buf), NEW b \in Seq(Unit)
  PROVE  /\ Parse(buf) \in RequestRecords
         /\ [Parse(buf) EXCEPT !.body = b] \in RequestRecords
<1>1. Parse(buf) \in [rid : ReqIds, ver : Versions,
                      conn : HeaderValues(MaxValue) \cup {"none"},
                      cl : HeaderValues(MaxValue) \cup {"none"},
                      body : {<< >>}]
  BY ParseType DEF Unit
<1>2. << >> \in Seq(Unit)
  OBVIOUS
<1>. QED BY <1>1, <1>2 DEF RequestRecords

LEMMA InitIInv == Init => IInv
<1>. SUFFICES ASSUME Init PROVE IInv
  OBVIOUS
<1>1. TypeOK
  <2>1. request \in RequestRecords
    BY DEF Init, NoRequest, RequestRecords
  <2>2. clen \in 0..MaxBodySize
    BY ConstantsAssumption DEF Init
  <2>3. pending \in Ops /\ deadline \in {"armed", "passed"}
    BY DEF Init, Ops
  <2>4. reqs \in Seq(Shapes) /\ sent \in Seq(Unit) /\ rpos \in 0..Len(sent)
    BY DEF Init
  <2>5. /\ rcvd \in Seq([id : Nat \ {0}, i : Nat \ {0}])
        /\ hdrBuf \in Seq(Unit) /\ bodyBuf \in Seq(Unit)
        /\ responses \in Seq([len : Nat \ {0}, status : Statuses \cup {400}])
        /\ handled \in Seq([rid : ReqIds \cup {0},
                            cl : HeaderValues(MaxValue) \cup {"none"},
                            body : Seq(Unit)])
    BY DEF Init
  <2>. QED BY <2>1, <2>2, <2>3, <2>4, <2>5 DEF Init, TypeOK
<1>2. Len(reqs) <= MaxRequests
  BY ConstantsAssumption DEF Init
<1>. QED BY <1>1, <1>2 DEF Init, IInv

\* The peer's writes keep the invariant: a new request stays within
\* ReqIds and appends whole units, a body is written for a begun request.
LEMMA PeerIInv ==
  ASSUME IInv, Peer
  PROVE  IInv'
<1>0. /\ TypeOK /\ Len(reqs) <= MaxRequests
      /\ reqs \in Seq(Shapes) /\ sent \in Seq(Unit) /\ rpos \in 0..Len(sent)
      /\ ~bodySent => reqs # << >>
  BY DEF IInv, TypeOK
<1>1. CASE \E sh \in Shapes : PeerSendRequest(sh)
  <2>1. PICK sh \in Shapes : PeerSendRequest(sh)
    BY <1>1
  <2>2. Len(reqs) \in Nat /\ Len(reqs) < MaxRequests
    BY <1>0, <2>1 DEF PeerSendRequest
  <2>3. sh \in ShapeRecords /\ Len(reqs) + 1 \in ReqIds
    BY <2>2, ShapesAssumption, ConstantsAssumption DEF ReqIds
  <2>4. HeaderBlock(Len(reqs) + 1, sh) \in Seq(Unit)
    BY <2>3, HeaderBlockType
  <2>5. sent' \in Seq(Unit) /\ Len(sent') >= Len(sent)
    BY <1>0, <2>1, <2>4, ConcatProperties DEF PeerSendRequest
  <2>6. reqs' \in Seq(Shapes) /\ Len(reqs') = Len(reqs) + 1
    BY <1>0, <2>1, AppendProperties DEF PeerSendRequest
  <2>7. Len(reqs') <= MaxRequests
    BY <2>2, <2>6, ConstantsAssumption
  <2>10. reqs' # << >>
    BY <2>2, <2>6, ConstantsAssumption
  <2>8. rpos' \in 0..Len(sent')
    BY <1>0, <2>1, <2>5 DEF PeerSendRequest, bufVars
  <2>9. bodySent' \in BOOLEAN
    BY <2>1 DEF PeerSendRequest
  <2>. QED BY <1>0, <2>1, <2>5, <2>6, <2>7, <2>8, <2>9, <2>10
           DEF PeerSendRequest, IInv, TypeOK, bufVars, sendVars
<1>2. CASE PeerSendBody
  <2>1. reqs # << >> /\ Len(reqs) <= MaxRequests /\ reqs \in Seq(Shapes)
    BY <1>0, <1>2 DEF PeerSendBody
  <2>2. Len(reqs) \in ReqIds
    BY <2>1, ConstantsAssumption DEF ReqIds
  <2>3. reqs[Len(reqs)] \in ShapeRecords
    BY <2>1, <2>2, ElementOfSeq, ShapesAssumption DEF ReqIds
  <2>4. BodyBytes(Len(reqs), reqs[Len(reqs)]) \in Seq(Unit)
    BY <2>2, <2>3, BodyBytesType
  <2>5. sent' \in Seq(Unit) /\ Len(sent') >= Len(sent)
    BY <1>0, <1>2, <2>4, ConcatProperties DEF PeerSendBody
  <2>6. rpos' \in 0..Len(sent')
    BY <1>0, <1>2, <2>5 DEF PeerSendBody, bufVars
  <2>. QED BY <1>0, <1>2, <2>5, <2>6
           DEF PeerSendBody, IInv, TypeOK, bufVars, sendVars
<1>3. CASE PeerClose
  BY <1>0, <1>3 DEF PeerClose, IInv, TypeOK, bufVars, sendVars
<1>4. CASE PeerReset
  BY <1>0, <1>4 DEF PeerReset, IInv, TypeOK, bufVars, sendVars
<1>. QED BY <1>1, <1>2, <1>3, <1>4 DEF Peer

\* The record respond() installs for a response.
ResponseRecords == [len : Nat \ {0}, status : Statuses \cup {400}]

\* The record the handler is invoked with.
HandledRecords == [rid : ReqIds \cup {0},
                   cl : HeaderValues(MaxValue) \cup {"none"},
                   body : Seq(Unit)]

\* respond() installs one more response and owes a send of it.
LEMMA StartSendType ==
  ASSUME responses \in Seq(ResponseRecords), NEW len \in Nat \ {0},
         NEW status \in Statuses \cup {400}, NEW ka \in BOOLEAN,
         StartSend(len, status, ka)
  PROVE  /\ responses' \in Seq(ResponseRecords) /\ responses' # << >>
         /\ sendOff' \in Nat /\ keepAlive' \in BOOLEAN /\ pending' = "send"
<1>1. [len |-> len, status |-> status] \in ResponseRecords
  BY DEF ResponseRecords
<1>2. responses' = Append(responses, [len |-> len, status |-> status])
  BY DEF StartSend
<1>3. responses' \in Seq(ResponseRecords) /\ Len(responses') = Len(responses) + 1
  BY <1>1, <1>2, AppendProperties
<1>. QED BY <1>3 DEF StartSend

\* processRequest hands a request_ to the handler: one more handled record.
LEMMA ProcessRequestType ==
  ASSUME handled \in Seq(HandledRecords), NEW rq \in RequestRecords,
         ProcessRequest(rq)
  PROVE  /\ handled' \in Seq(HandledRecords) /\ handling' \in BOOLEAN
         /\ pending' = "none"
         /\ UNCHANGED <<responses, sendOff, keepAlive, response>>
<1>1. [rid |-> rq.rid, cl |-> rq.cl, body |-> rq.body] \in HandledRecords
  BY DEF RequestRecords, HandledRecords
<1>. QED BY <1>1, AppendProperties DEF ProcessRequest, sendVars

\* The handler's respond keeps the invariant.
LEMMA HandlerRespondIInv ==
  ASSUME IInv, NEW status \in Statuses, HandlerRespond(status)
  PROVE  IInv'
<1>1. TypeOK
  BY DEF IInv
<1>2. responses \in Seq(ResponseRecords)
  BY <1>1 DEF TypeOK, ResponseRecords
<1>3. GetKeepAlive(request) \in BOOLEAN /\ ResponseLen \in Nat \ {0}
  BY ConstantsAssumption DEF GetKeepAlive
<1>4. /\ responses' \in Seq(ResponseRecords) /\ responses' # << >>
      /\ sendOff' \in Nat /\ keepAlive' \in BOOLEAN /\ pending' = "send"
  BY <1>2, <1>3, StartSendType DEF HandlerRespond
<1>5. responses' \in Seq([len : Nat \ {0}, status : Statuses \cup {400}])
  BY <1>4 DEF ResponseRecords
<1>. QED BY <1>1, <1>4, <1>5 DEF HandlerRespond, IInv, TypeOK, Ops,
                                  peerVars, bufVars

\* A send completion keeps the invariant: the bytes the peer receives name
\* the installed response, which exists because a send is outstanding.
LEMMA SendDoneIInv ==
  ASSUME IInv, NEW n \in Nat, SendDone(n)
  PROVE  IInv'
<1>. DEFINE cur == Len(responses)
            new == [j \in 1..n |-> [id |-> cur, i |-> sendOff + j]]
<1>1. TypeOK /\ responses # << >> /\ sendOff \in Nat
  BY DEF IInv, TypeOK, SendDone
<1>2. cur \in Nat \ {0}
  BY <1>1 DEF TypeOK
<1>3. new \in Seq([id : Nat \ {0}, i : Nat \ {0}])
  BY <1>1, <1>2
<1>4. rcvd' \in Seq([id : Nat \ {0}, i : Nat \ {0}])
  BY <1>1, <1>3, ConcatProperties DEF SendDone, TypeOK
<1>5. sendOff' \in Nat
  BY <1>1 DEF SendDone
<1>6. pending' \in {"send", "recv_hdr", "shutdown"}
  BY DEF SendDone, ReadRequest
<1>7. /\ hdrBuf' \in Seq(Unit) /\ bodyBuf' \in Seq(Unit)
      /\ deadline' \in {"armed", "passed"} /\ shut' \in BOOLEAN
  <2>1. /\ hdrBuf \in Seq(Unit) /\ bodyBuf \in Seq(Unit)
        /\ deadline \in {"armed", "passed"} /\ shut \in BOOLEAN
    BY <1>1 DEF TypeOK
  <2>2. \/ UNCHANGED <<hdrBuf, bodyBuf, deadline, shut>>
        \/ ReadRequest /\ UNCHANGED shut
        \/ shut' = TRUE /\ UNCHANGED <<hdrBuf, bodyBuf, deadline>>
    BY DEF SendDone
  <2>3. << >> \in Seq(Unit)
    OBVIOUS
  <2>4. CASE UNCHANGED <<hdrBuf, bodyBuf, deadline, shut>>
    BY <2>1, <2>4
  <2>5. CASE ReadRequest /\ UNCHANGED shut
    BY <2>1, <2>3, <2>5 DEF ReadRequest
  <2>6. CASE shut' = TRUE /\ UNCHANGED <<hdrBuf, bodyBuf, deadline>>
    BY <2>1, <2>6
  <2>. QED BY <2>2, <2>4, <2>5, <2>6
<1>8. UNCHANGED <<reqs, bodySent, fin, reset, sent, rpos, request, clen,
                 responses, keepAlive, response, handling, handled, closed>>
  BY DEF SendDone
<1>. QED BY <1>1, <1>4, <1>5, <1>6, <1>7, <1>8 DEF IInv, TypeOK, Ops

\* A recv returns at most what is unread, so the read position stays in
\* the stream and the units read are units of it.
LEMMA RecvSliceType ==
  ASSUME TypeOK, NEW n, NEW len, RecvCount(n, len)
  PROVE  /\ n \in Nat /\ rpos + n \in 0..Len(sent)
         /\ SubSeq(sent, rpos + 1, rpos + n) \in Seq(Unit)
<1>1. n \in Nat /\ rpos \in Nat /\ rpos + n <= Len(sent) /\ sent \in Seq(Unit)
  BY DEF TypeOK, RecvCount, Unread
<1>. QED BY <1>1, SliceType

\* The body recv keeps the invariant: it appends units to the body buffer
\* and, once the body is complete, hands the request to the handler.
LEMMA RecvBodyIInv ==
  ASSUME IInv, NEW n \in Nat, RecvBody(n)
  PROVE  IInv'
<1>. DEFINE buf == bodyBuf \o SubSeq(sent, rpos + 1, rpos + n)
<1>1. TypeOK
  BY DEF IInv
<1>2. rpos' \in 0..Len(sent) /\ SubSeq(sent, rpos + 1, rpos + n) \in Seq(Unit)
  BY <1>1, RecvSliceType DEF RecvBody
<1>3. buf \in Seq(Unit) /\ bodyBuf' = buf
  BY <1>1, <1>2, ConcatProperties DEF TypeOK, RecvBody
<1>4. [request EXCEPT !.body = buf] \in RequestRecords
  BY <1>1, <1>3 DEF TypeOK, RequestRecords
<1>5. /\ request' \in RequestRecords /\ handled' \in Seq(HandledRecords)
      /\ handling' \in BOOLEAN /\ pending' \in {"recv_body", "none"}
      /\ UNCHANGED <<responses, sendOff, keepAlive, response>>
  <2>1. handled \in Seq(HandledRecords) /\ request \in RequestRecords
        /\ handling \in BOOLEAN
    BY <1>1 DEF TypeOK, HandledRecords
  <2>2. CASE UNCHANGED <<pending, request, sendVars, handling, handled>>
    BY <2>1, <2>2 DEF RecvBody, sendVars
  <2>3. CASE request' = [request EXCEPT !.body = buf] /\ ProcessRequest(request')
    BY <1>4, <2>1, <2>3, ProcessRequestType
  <2>. QED BY <2>2, <2>3 DEF RecvBody
<1>6. handled' \in Seq([rid : ReqIds \cup {0},
                        cl : HeaderValues(MaxValue) \cup {"none"},
                        body : Seq(Unit)])
  BY <1>5 DEF HandledRecords
<1>7. UNCHANGED <<reqs, bodySent, fin, reset, sent, rcvd, hdrBuf, clen,
                 deadline, closed, shut>>
  BY DEF RecvBody, peerVars
<1>. QED BY <1>1, <1>2, <1>3, <1>5, <1>6, <1>7 DEF IInv, TypeOK, Ops

\* What the header callback leaves after a recv returned buf.
OnHeaderPost(buf) ==
    /\ hdrBuf' = buf
    /\ request' \in RequestRecords /\ bodyBuf' \in Seq(Unit)
    /\ clen' \in 0..MaxBodySize
    /\ handled' \in Seq(HandledRecords) /\ handling' \in BOOLEAN
    /\ responses' \in Seq(ResponseRecords) /\ sendOff' \in Nat
    /\ keepAlive' \in BOOLEAN /\ response' \in Statuses \cup {200}
    /\ pending' \in {"send", "none", "recv_body"}
    /\ pending' = "send" => responses' # << >>

\* Every branch of the header callback (parse error, no Content-Length,
\* a rejected length, a body to read, a complete body) leaves the buffers,
\* the request_ and the response of their types.
LEMMA OnHeaderType ==
  ASSUME TypeOK, NEW buf \in Seq(Unit), OnHeader(buf)
  PROVE  OnHeaderPost(buf)
<1>. DEFINE rq == Parse(buf)
            k  == ParseLength(rq.cl)
<1>1. /\ responses \in Seq(ResponseRecords) /\ handled \in Seq(HandledRecords)
      /\ request \in RequestRecords /\ bodyBuf \in Seq(Unit)
      /\ clen \in 0..MaxBodySize /\ handling \in BOOLEAN
      /\ sendOff \in Nat /\ keepAlive \in BOOLEAN
      /\ response \in Statuses \cup {200}
  BY DEF TypeOK, ResponseRecords, HandledRecords
<1>0. hdrBuf' = buf
  BY DEF OnHeader
<1>2. BadRequestLen \in Nat \ {0} /\ 400 \in Statuses \cup {400}
  BY ConstantsAssumption
<1>3. ASSUME Respond400
      PROVE  /\ responses' \in Seq(ResponseRecords) /\ responses' # << >>
             /\ sendOff' \in Nat /\ keepAlive' \in BOOLEAN /\ pending' = "send"
             /\ UNCHANGED <<response, handling, handled>>
  <2>1. StartSend(BadRequestLen, 400, FALSE)
    BY <1>3 DEF Respond400
  <2>2. responses \in Seq(ResponseRecords)
    BY <1>1
  <2>3. /\ responses' \in Seq(ResponseRecords) /\ responses' # << >>
        /\ sendOff' \in Nat /\ keepAlive' \in BOOLEAN /\ pending' = "send"
    BY <1>2, <2>1, <2>2, StartSendType
  <2>. QED BY <1>3, <2>3 DEF Respond400
<1>4. ASSUME ParseOK(buf)
      PROVE  rq \in RequestRecords /\ rq.body = << >>
  BY <1>4, ParseRequestType, ParseType DEF Unit
<1>5. CASE ~ParseOK(buf) /\ Respond400 /\ UNCHANGED <<bodyBuf, request, clen>>
  BY <1>1, <1>3, <1>5, <1>0 DEF OnHeaderPost
<1>6. CASE ParseOK(buf) /\ rq.cl = "none" /\ request' = rq
           /\ ProcessRequest(rq) /\ UNCHANGED <<bodyBuf, clen>>
  BY <1>1, <1>4, <1>6, ProcessRequestType, <1>0 DEF OnHeaderPost
<1>7. CASE ParseOK(buf) /\ rq.cl # "none" /\ ~LengthAccepted(rq.cl)
           /\ request' = rq /\ Respond400 /\ UNCHANGED <<bodyBuf, clen>>
  BY <1>1, <1>3, <1>4, <1>7, <1>0 DEF OnHeaderPost
<1>8. CASE ParseOK(buf) /\ rq.cl # "none" /\ LengthAccepted(rq.cl) /\ Len(rq.body) < k
           /\ bodyBuf' = rq.body /\ request' = [rq EXCEPT !.body = << >>]
           /\ clen' = k /\ pending' = "recv_body"
           /\ UNCHANGED <<sendVars, handling, handled>>
  <2>1. k \in 0..MaxBodySize
    BY <1>8, ParseLengthType, ConstantsAssumption DEF LengthAccepted
  <2>2. [rq EXCEPT !.body = << >>] \in RequestRecords
    <3>1. << >> \in Seq(Unit)
      OBVIOUS
    <3>. QED BY <1>8, <3>1, ParseRequestType
  <2>0. rq.body = << >>
    BY <1>4, <1>8
  <2>3. bodyBuf' \in Seq(Unit) /\ request' \in RequestRecords
        /\ clen' \in 0..MaxBodySize /\ pending' = "recv_body"
    BY <2>0, <1>8, <2>1, <2>2
  <2>4. UNCHANGED <<responses, sendOff, keepAlive, response, handling, handled>>
    BY <1>8 DEF sendVars
  <2>. QED BY <1>0, <1>1, <2>3, <2>4 DEF OnHeaderPost
<1>9. CASE ParseOK(buf) /\ rq.cl # "none" /\ LengthAccepted(rq.cl) /\ Len(rq.body) >= k
           /\ request' = [rq EXCEPT !.body = SubSeq(rq.body, 1, k)]
           /\ ProcessRequest(request') /\ UNCHANGED <<bodyBuf, clen>>
  <2>1. k \in Nat /\ k <= Len(rq.body) /\ rq.body \in Seq(Unit)
    BY <1>4, <1>9, ParseLengthType DEF LengthAccepted, RequestRecords
  <2>2. SubSeq(rq.body, 1, k) \in Seq(Unit)
    BY <2>1, PrefixType
  <2>3. request' \in RequestRecords
    BY <1>9, <2>2, ParseRequestType
  <2>. QED BY <1>1, <1>9, <2>3, ProcessRequestType, <1>0 DEF OnHeaderPost
<1>. QED BY <1>5, <1>6, <1>7, <1>8, <1>9 DEF OnHeader

\* The callbacks that close, shut down or let the deadline pass keep the
\* invariant: they touch no buffer, no response and no peer state.
LEMMA QuietIInv ==
  ASSUME IInv,
         \/ RecvHeaderCancelled \/ RecvHeaderError \/ RecvHeaderEOF
         \/ RecvBodyCancelled \/ RecvBodyError \/ RecvBodyEOF
         \/ SendFailed \/ ShutdownDone \/ Expire
  PROVE  IInv'
<1>. USE DEF IInv, TypeOK, peerVars, bufVars, sendVars, Ops
<1>1. CASE RecvHeaderCancelled
  BY <1>1 DEF RecvHeaderCancelled
<1>2. CASE RecvHeaderError
  BY <1>2 DEF RecvHeaderError, Close
<1>3. CASE RecvHeaderEOF
  BY <1>3 DEF RecvHeaderEOF, Close
<1>4. CASE RecvBodyCancelled
  BY <1>4 DEF RecvBodyCancelled, Close
<1>5. CASE RecvBodyError
  BY <1>5 DEF RecvBodyError, Close
<1>6. CASE RecvBodyEOF
  BY <1>6 DEF RecvBodyEOF, Close
<1>7. CASE SendFailed
  BY <1>7 DEF SendFailed, Close
<1>8. CASE ShutdownDone
  BY <1>8 DEF ShutdownDone, Close
<1>9. CASE Expire
  BY <1>9 DEF Expire
<1>. QED BY <1>1, <1>2, <1>3, <1>4, <1>5, <1>6, <1>7, <1>8, <1>9

\* The header recv keeps the invariant: the units it reads are a slice of
\* the stream, and the callback on them leaves everything of its type.
LEMMA RecvHeaderIInv ==
  ASSUME IInv, NEW n \in Nat, RecvHeader(n)
  PROVE  IInv'
<1>. DEFINE buf == SubSeq(sent, rpos + 1, rpos + n)
<1>1. TypeOK
  BY DEF IInv
<1>2. rpos' \in 0..Len(sent) /\ buf \in Seq(Unit)
  BY <1>1, RecvSliceType DEF RecvHeader
<1>3. OnHeaderPost(buf)
  BY <1>1, <1>2, OnHeaderType DEF RecvHeader
<1>4. /\ responses' \in Seq([len : Nat \ {0}, status : Statuses \cup {400}])
      /\ handled' \in Seq([rid : ReqIds \cup {0},
                           cl : HeaderValues(MaxValue) \cup {"none"},
                           body : Seq(Unit)])
  BY <1>3 DEF OnHeaderPost, ResponseRecords, HandledRecords
<1>5. UNCHANGED <<reqs, bodySent, fin, reset, sent, rcvd, deadline, closed,
                 shut>>
  BY DEF RecvHeader, peerVars
<1>6. /\ reqs \in Seq(Shapes) /\ bodySent \in BOOLEAN /\ fin \in BOOLEAN
      /\ reset \in BOOLEAN /\ sent \in Seq(Unit)
      /\ rcvd \in Seq([id : Nat \ {0}, i : Nat \ {0}])
      /\ deadline \in {"armed", "passed"} /\ closed \in BOOLEAN
      /\ shut \in BOOLEAN
  BY <1>1 DEF TypeOK
<1>7. /\ hdrBuf' \in Seq(Unit) /\ bodyBuf' \in Seq(Unit)
      /\ request' \in RequestRecords /\ clen' \in 0..MaxBodySize
      /\ sendOff' \in Nat /\ keepAlive' \in BOOLEAN
      /\ response' \in Statuses \cup {200} /\ handling' \in BOOLEAN
      /\ pending' \in Ops
  BY <1>2, <1>3 DEF OnHeaderPost, Ops
<1>8. TypeOK'
  BY <1>2, <1>4, <1>5, <1>6, <1>7 DEF TypeOK
<1>9. pending' = "send" => responses' # << >>
  BY <1>3 DEF OnHeaderPost
<1>. QED BY <1>5, <1>8, <1>9 DEF IInv

\* Every step of the session or its peer keeps the invariant.
LEMMA NextIInv ==
  ASSUME IInv, [Next]_vars
  PROVE  IInv'
<1>1. CASE Peer
  BY <1>1, PeerIInv
<1>2. CASE \E n \in 1..MaxHeaderSize : RecvHeader(n)
  BY <1>2, RecvHeaderIInv
<1>3. CASE \E n \in 1..MaxBodySize : RecvBody(n)
  BY <1>3, RecvBodyIInv
<1>4. CASE \E s \in Statuses : HandlerRespond(s)
  BY <1>4, HandlerRespondIInv
<1>5. CASE \E n \in 1..Max({ResponseLen, BadRequestLen}) : SendDone(n)
  BY <1>5, SendDoneIInv
<1>6. CASE \/ RecvHeaderCancelled \/ RecvHeaderError \/ RecvHeaderEOF
           \/ RecvBodyCancelled \/ RecvBodyError \/ RecvBodyEOF
           \/ SendFailed \/ ShutdownDone \/ Expire
  BY <1>6, QuietIInv
<1>7. CASE UNCHANGED vars
  BY <1>7 DEF IInv, TypeOK, vars, peerVars, bufVars, sendVars
<1>. QED BY <1>1, <1>2, <1>3, <1>4, <1>5, <1>6, <1>7 DEF Next, Session

\* Type correctness of the session and its peer (TypeOK, checked by the
\* session runs): every callback keeps the buffers, the request_, the
\* responses and the send offset of their types, for all constants.
THEOREM TypeCorrect == Spec => []TypeOK
<1>1. Init => IInv
  BY InitIInv
<1>2. IInv /\ [Next]_vars => IInv'
  BY NextIInv
<1>3. IInv => TypeOK
  BY DEF IInv
<1>. QED BY <1>1, <1>2, <1>3, PTL DEF Spec

=============================================================================
