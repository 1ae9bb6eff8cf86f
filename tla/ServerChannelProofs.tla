------------------------- MODULE ServerChannelProofs -------------------------
(***************************************************************************)
(* The proof that ServerSession implements ResponseChannel under the       *)
(* mapping of ServerSession.tla (responses to their lengths, rcvd to the   *)
(* bytes received, ~closed to open), for every value of the constants.    *)
(* The step argument rests on SInv of ServerStreamProofs: the send offset *)
(* is where the peer's stream ends, and respond() runs only when every    *)
(* response is delivered whole.                                           *)
(***************************************************************************)
EXTENDS ServerStreamProofs

\* The lengths of a sequence of responses, as ResponseLens takes them.
LEMMA LensFacts ==
  ASSUME responses \in Seq(ResponseRecords)
  PROVE  /\ ResponseLens \in Seq(Nat \ {0})
         /\ Len(ResponseLens) = Len(responses)
         /\ \A k \in 1..Len(responses) : ResponseLens[k] = responses[k].len
<1>1. \A k \in 1..Len(responses) : responses[k].len \in Nat \ {0}
  <2>1. SUFFICES ASSUME NEW k \in 1..Len(responses)
                 PROVE  responses[k].len \in Nat \ {0}
    OBVIOUS
  <2>2. responses[k] \in ResponseRecords
    BY ElementOfSeq
  <2>. QED BY <2>2 DEF ResponseRecords
<1>. QED BY <1>1 DEF ResponseLens

\* respond() appends the new length to ResponseLens.
LEMMA LensAppend ==
  ASSUME responses \in Seq(ResponseRecords), NEW r \in ResponseRecords,
         responses' = Append(responses, r)
  PROVE  ResponseLens' = Append(ResponseLens, r.len)
<1>1. /\ responses' \in Seq(ResponseRecords)
      /\ Len(responses') = Len(responses) + 1
      /\ \A k \in 1..Len(responses) : responses'[k] = responses[k]
      /\ responses'[Len(responses) + 1] = r
  BY AppendProperties
<1>2. /\ ResponseLens \in Seq(Nat \ {0}) /\ Len(ResponseLens) = Len(responses)
      /\ \A k \in 1..Len(responses) : ResponseLens[k] = responses[k].len
  BY LensFacts
<1>3. r.len \in Nat \ {0}
  BY DEF ResponseRecords
<1>4. /\ Append(ResponseLens, r.len) \in Seq(Nat \ {0})
      /\ Len(Append(ResponseLens, r.len)) = Len(responses) + 1
      /\ \A k \in 1..Len(responses) : Append(ResponseLens, r.len)[k] = ResponseLens[k]
      /\ Append(ResponseLens, r.len)[Len(responses) + 1] = r.len
  BY <1>2, <1>3, AppendProperties
<1>. QED BY <1>1, <1>2, <1>4 DEF ResponseLens

\* The session starts as the channel does: nothing produced, nothing
\* received, the connection open.
LEMMA InitChannel == Init => Channel!Init
BY DEF Init, Channel!Init, ResponseLens

\* The channel's current response is the session's responseBuffer_.
LEMMA ChannelCurrent ==
  ASSUME TypeOK
  PROVE  Channel!Current = Cur
<1>1. responses \in Seq(ResponseRecords)
  BY DEF TypeOK, ResponseRecords
<1>. QED BY <1>1, LensFacts DEF Channel!Current, Cur

\* During a send, what the channel counts as delivered of the current
\* response is responseSendOffset_.
LEMMA ChannelDelivered ==
  ASSUME SInv, pending = "send"
  PROVE  Channel!Delivered = sendOff
<1>1. TypeOK /\ SentUpTo
  BY DEF SInv, IInv, SendInProgress
<1>2. Channel!Current = Cur
  BY <1>1, ChannelCurrent
<1>3. CASE sendOff = 0 /\ Cur = 1 /\ rcvd = << >>
  BY <1>2, <1>3 DEF Channel!Delivered
<1>4. CASE sendOff = 0 /\ Cur > 1 /\ rcvd # << >> /\ LastByte = EndOf(Cur - 1)
  BY <1>2, <1>4 DEF Channel!Delivered, LastByte, EndOf, Cur
<1>5. CASE sendOff > 0 /\ rcvd # << >> /\ LastByte = [id |-> Cur, i |-> sendOff]
  BY <1>2, <1>5 DEF Channel!Delivered, LastByte
<1>. QED BY <1>1, <1>3, <1>4, <1>5 DEF SentUpTo

\* When every response is sent whole, the channel may produce the next.
LEMMA ChannelComplete ==
  ASSUME TypeOK, AllSent
  PROVE  Channel!Complete
<1>1. responses \in Seq(ResponseRecords)
  BY DEF TypeOK, ResponseRecords
<1>2. /\ Len(ResponseLens) = Len(responses)
      /\ \A k \in 1..Len(responses) : ResponseLens[k] = responses[k].len
  BY <1>1, LensFacts
<1>3. Channel!Current = Cur
  BY ChannelCurrent
<1>4. CASE responses = << >>
  BY <1>1, <1>3, <1>4 DEF Channel!Complete, Cur
<1>5. CASE responses # << >> /\ rcvd # << >> /\ LastByte = EndOf(Cur)
  <2>1. Cur \in 1..Len(responses)
    BY <1>1, <1>5 DEF Cur
  <2>. QED BY <1>2, <1>3, <1>5, <2>1 DEF Channel!Complete, Channel!Delivered,
                                         LastByte, EndOf
<1>. QED BY <1>4, <1>5 DEF AllSent

\* A step that leaves the responses, the peer's stream and close() alone is
\* a stutter of the channel.
LEMMA ChannelStutter ==
  ASSUME UNCHANGED <<responses, rcvd, closed>>
  PROVE  UNCHANGED Channel!chanVars
BY DEF Channel!chanVars, ResponseLens

\* respond() from a state whose responses are all delivered produces a
\* response of the channel.
LEMMA ProduceStep ==
  ASSUME SInv, AllSent, ~closed, closed' = closed, rcvd' = rcvd,
         NEW len \in {ResponseLen, BadRequestLen},
         NEW status \in Statuses \cup {400}, NEW ka, StartSend(len, status, ka)
  PROVE  Channel!Produce(len)
<1>1. TypeOK
  BY DEF SInv, IInv
<1>2. Channel!Complete
  BY <1>1, ChannelComplete
<1>3. [len |-> len, status |-> status] \in ResponseRecords
  BY ConstantsAssumption DEF ResponseRecords
<1>4. responses \in Seq(ResponseRecords)
      /\ responses' = Append(responses, [len |-> len, status |-> status])
  BY <1>1 DEF TypeOK, ResponseRecords, StartSend
<1>5. ResponseLens' = Append(ResponseLens, len)
  BY <1>3, <1>4, LensAppend
<1>. QED BY <1>2, <1>5 DEF Channel!Produce

\* A send completion delivers the next bytes of the current response.
LEMMA DeliverStep ==
  ASSUME SInv, NEW n \in Nat, SendDone(n)
  PROVE  /\ Channel!Current > 0
         /\ n \in 1..ResponseLens[Channel!Current]
         /\ Channel!Deliver(n)
<1>1. /\ TypeOK /\ responses # << >> /\ sendOff \in Nat /\ ~closed
      /\ responses \in Seq(ResponseRecords)
  BY DEF SendDone, SInv, IInv, TypeOK, ClosedIdle, ResponseRecords
<1>2. Channel!Current = Cur /\ Channel!Delivered = sendOff
  BY <1>1, ChannelCurrent, ChannelDelivered DEF SendDone
<1>3. Cur \in 1..Len(responses) /\ ResponseLens[Cur] = responses[Cur].len
  BY <1>1, LensFacts DEF Cur
<1>4. n \in 1..(responses[Cur].len - sendOff)
      /\ rcvd' = rcvd \o [j \in 1..n |-> [id |-> Cur, i |-> sendOff + j]]
      /\ responses' = responses /\ closed' = closed
  BY DEF SendDone, Cur
<1>5. ResponseLens' = ResponseLens
  BY <1>4 DEF ResponseLens
<1>6. responses[Cur].len \in Nat
  <2>1. responses[Cur] \in ResponseRecords
    BY <1>1, <1>3, ElementOfSeq
  <2>. QED BY <2>1 DEF ResponseRecords
<1>. QED BY <1>1, <1>2, <1>3, <1>4, <1>5, <1>6 DEF Channel!Deliver

\* close() is the channel's Close.
LEMMA CloseStep ==
  ASSUME ~closed, closed', UNCHANGED <<responses, rcvd>>
  PROVE  Channel!Close
BY DEF Channel!Close, ResponseLens

\* Every step of the session and its peer is a step of the channel or a
\* stutter of it.
LEMMA NextChannel ==
  ASSUME SInv, [Next]_vars
  PROVE  [Channel!Next]_Channel!chanVars
<1>1. CASE Peer
  <2>1. UNCHANGED <<responses, rcvd, closed>>
    BY <1>1 DEF Peer, PeerSendRequest, PeerSendBody, PeerClose, PeerReset,
                sendVars
  <2>. QED BY <2>1, ChannelStutter
<1>2. CASE \E n \in 1..MaxHeaderSize : RecvHeader(n)
  <2>1. PICK n \in 1..MaxHeaderSize : RecvHeader(n)
    BY <1>2
  <2>2. /\ AllSent /\ ~closed /\ rcvd' = rcvd /\ closed' = closed
        /\ OnHeader(SubSeq(sent, rpos + 1, rpos + n))
    BY <2>1 DEF RecvHeader, SInv, ReadAfterSent, ClosedIdle, peerVars
  <2>3. CASE Respond400
    <3>1. StartSend(BadRequestLen, 400, FALSE)
      BY <2>3 DEF Respond400
    <3>2. Channel!Produce(BadRequestLen)
      BY <2>2, <3>1, ProduceStep
    <3>. QED BY <3>2 DEF Channel!Next
  <2>4. CASE ~Respond400
    <3>1. UNCHANGED responses
      BY <2>2, <2>4 DEF OnHeader, ProcessRequest, sendVars
    <3>. QED BY <2>2, <3>1, ChannelStutter
  <2>. QED BY <2>3, <2>4
<1>3. CASE \E n \in 1..MaxBodySize : RecvBody(n)
  <2>1. UNCHANGED <<responses, rcvd, closed>>
    BY <1>3 DEF RecvBody, ProcessRequest, sendVars, peerVars
  <2>. QED BY <2>1, ChannelStutter
<1>4. CASE \E st \in Statuses : HandlerRespond(st)
  <2>1. PICK st \in Statuses : HandlerRespond(st)
    BY <1>4
  <2>2. /\ AllSent /\ ~closed /\ rcvd' = rcvd /\ closed' = closed
        /\ StartSend(ResponseLen, st, GetKeepAlive(request))
    BY <2>1 DEF HandlerRespond, SInv, ReadAfterSent, ClosedIdle, peerVars
  <2>3. Channel!Produce(ResponseLen)
    BY <2>2, ProduceStep
  <2>. QED BY <2>3 DEF Channel!Next
<1>5. CASE \E n \in 1..Max({ResponseLen, BadRequestLen}) : SendDone(n)
  <2>1. PICK n \in 1..Max({ResponseLen, BadRequestLen}) : SendDone(n)
    BY <1>5
  <2>2. /\ Channel!Current > 0
        /\ n \in 1..ResponseLens[Channel!Current]
        /\ Channel!Deliver(n)
    BY <2>1, DeliverStep
  <2>. QED BY <2>2 DEF Channel!Next
<1>6. CASE \/ RecvHeaderError \/ RecvHeaderEOF
           \/ RecvBodyCancelled \/ RecvBodyError \/ RecvBodyEOF
           \/ SendFailed \/ ShutdownDone
  <2>1. pending # "none" /\ closed' /\ UNCHANGED <<responses, rcvd>>
    BY <1>6 DEF RecvHeaderError, RecvHeaderEOF, RecvBodyCancelled,
                RecvBodyError, RecvBodyEOF, SendFailed, ShutdownDone, Close,
                peerVars, sendVars
  <2>2. ~closed
    BY <2>1 DEF SInv, ClosedIdle
  <2>. QED BY <2>1, <2>2, CloseStep DEF Channel!Next
<1>7. CASE RecvHeaderCancelled \/ Expire
  <2>1. UNCHANGED <<responses, rcvd, closed>>
    BY <1>7 DEF RecvHeaderCancelled, Expire, peerVars, sendVars
  <2>. QED BY <2>1, ChannelStutter
<1>8. CASE UNCHANGED vars
  <2>1. UNCHANGED <<responses, rcvd, closed>>
    BY <1>8 DEF vars, peerVars, sendVars
  <2>. QED BY <2>1, ChannelStutter
<1>. QED BY <1>1, <1>2, <1>3, <1>4, <1>5, <1>6, <1>7, <1>8 DEF Next, Session

\* The session implements what it promises its peer (ChannelRefined,
\* checked by the session run): under the mapping of ServerSession.tla every
\* behaviour of Server::Session is a behaviour of ResponseChannel, so
\* respond() never installs a response before the previous one reached the
\* peer whole, each send completion delivers the next bytes from
\* responseSendOffset_, and nothing is delivered after close()
\* (server.hpp:265-348).
THEOREM ChannelCorrect == Spec => ChannelRefined
<1>1. Init => Channel!Init
  BY InitChannel
<1>2. SInv /\ [Next]_vars => [Channel!Next]_Channel!chanVars
  BY NextChannel
<1>. QED BY <1>1, <1>2, SInvInvariant, PTL DEF Spec, ChannelRefined, Channel!Spec

=============================================================================
