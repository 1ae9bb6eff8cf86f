------------------------- MODULE ServerStreamProofs -------------------------
(***************************************************************************)
(* Proofs about the send loop of ServerSession for every value of its     *)
(* constants: the peer receives the responses whole, in order and each    *)
(* byte once; a keep-alive read starts only after the last byte of the    *)
(* response was sent; and nothing is read or sent after close().           *)
(***************************************************************************)
EXTENDS ServerSessionProofs

\* The index of responseBuffer_, the response installed last.
Cur == Len(responses)

\* The last byte the peer has received.
LastByte == rcvd[Len(rcvd)]

\* The last byte of response k.
EndOf(k) == [id |-> k, i |-> responses[k].len]

\* Every installed response has been sent to its last byte.
AllSent ==
    \/ rcvd = << >> /\ responses = << >>
    \/ rcvd # << >> /\ LastByte = EndOf(Cur)

\* The peer has received the current response up to sendOff, and every
\* earlier response whole.
SentUpTo ==
    \/ /\ sendOff = 0
       /\ \/ Cur = 1 /\ rcvd = << >>
          \/ Cur > 1 /\ rcvd # << >> /\ LastByte = EndOf(Cur - 1)
    \/ /\ sendOff > 0
       /\ rcvd # << >> /\ LastByte = [id |-> Cur, i |-> sendOff]


-----------------------------------------------------------------------------
(* The response stream.                                                    *)

\* A byte of the response stream: which response, which byte of it.
Bytes == [id : Nat \ {0}, i : Nat \ {0}]

\* respond() installs a response behind those the stream already names: the
\* bytes received so far still continue one another.
LEMMA AppendResponseStream ==
  ASSUME TypeOK, ResponseStreamIntact, NEW r \in ResponseRecords,
         responses' = Append(responses, r), rcvd' = rcvd
  PROVE  ResponseStreamIntact'
<1>1. responses \in Seq(ResponseRecords) /\ rcvd \in Seq(Bytes)
  BY DEF TypeOK, ResponseRecords, Bytes
<1>2. /\ Len(responses') = Len(responses) + 1
      /\ \A k \in 1..Len(responses) : responses'[k] = responses[k]
  BY <1>1, AppendProperties
<1>3. \A j \in 1..Len(rcvd) :
         /\ rcvd[j].id \in 1..Len(responses)
         /\ rcvd[j].i \in 1..responses[rcvd[j].id].len
  BY DEF ResponseStreamIntact
<1>4. \A j \in 1..Len(rcvd) :
         /\ rcvd'[j].id \in 1..Len(responses')
         /\ rcvd'[j].i \in 1..responses'[rcvd'[j].id].len
  BY <1>2, <1>3
<1>5. \A j \in 1..(Len(rcvd) - 1) : NextByte(rcvd[j])' = NextByte(rcvd[j])
  BY <1>2, <1>3 DEF NextByte
<1>6. \A j \in 1..(Len(rcvd) - 1) : rcvd[j + 1] = NextByte(rcvd[j])
  BY DEF ResponseStreamIntact
<1>. QED BY <1>4, <1>5, <1>6 DEF ResponseStreamIntact

\* respond() from a state whose responses are all sent whole: the new
\* response starts at offset 0 right behind the last byte of the previous.
LEMMA StartSendStream ==
  ASSUME TypeOK, ResponseStreamIntact, AllSent, NEW len \in Nat \ {0},
         NEW status \in Statuses \cup {400}, NEW ka, StartSend(len, status, ka),
         rcvd' = rcvd
  PROVE  /\ ResponseStreamIntact'
         /\ sendOff' < responses'[Cur'].len
         /\ SentUpTo'
<1>. DEFINE r == [len |-> len, status |-> status]
<1>1. r \in ResponseRecords /\ responses' = Append(responses, r)
      /\ responses \in Seq(ResponseRecords)
  BY DEF ResponseRecords, StartSend, TypeOK
<1>2. /\ Len(responses') = Len(responses) + 1
      /\ \A k \in 1..Len(responses) : responses'[k] = responses[k]
      /\ responses'[Len(responses) + 1] = r
  BY <1>1, AppendProperties
<1>3. ResponseStreamIntact'
  BY <1>1, AppendResponseStream
<1>4. sendOff' = 0 /\ sendOff' < responses'[Cur'].len
  BY <1>2 DEF StartSend, Cur
<1>5. SentUpTo'
  <2>5. CASE responses = << >>
    <3>1. rcvd = << >>
      <4>1. rcvd \in Seq(Bytes)
        BY DEF TypeOK, Bytes
      <4>2. Len(rcvd) > 0 => rcvd[1].id \in 1..Len(responses)
        BY DEF ResponseStreamIntact
      <4>. QED BY <2>5, <4>1, <4>2
    <3>. QED BY <1>2, <1>4, <2>5, <3>1 DEF SentUpTo, Cur
  <2>6. CASE responses # << >>
    <3>1. Cur \in Nat \ {0}
      BY <1>1, <2>6 DEF Cur
    <3>2. rcvd # << >> /\ LastByte = EndOf(Cur)
      BY <2>6 DEF AllSent
    <3>3. Cur' = Cur + 1 /\ responses'[Cur] = responses[Cur]
      BY <1>2, <3>1 DEF Cur
    <3>. QED BY <1>4, <3>1, <3>2, <3>3 DEF SentUpTo, EndOf, LastByte
  <2>. QED BY <2>5, <2>6
<1>. QED BY <1>3, <1>4, <1>5

\* The bytes a send completion of n bytes delivers: sendOff + 1 .. sendOff + n
\* of the current response.
SentBytes(n) == [j \in 1..n |-> [id |-> Cur, i |-> sendOff + j]]

\* A send completion of n bytes continues the stream from where it ends:
\* the bytes sendOff + 1 .. sendOff + n of the current response follow the
\* last byte received, and the stream then ends at sendOff + n.
LEMMA SendDoneStream ==
  ASSUME IInv, ResponseStreamIntact, sendOff < responses[Cur].len, SentUpTo,
         NEW n \in Nat, SendDone(n)
  PROVE  /\ ResponseStreamIntact'
         /\ rcvd' # << >>
         /\ LastByte' = [id |-> Cur, i |-> sendOff + n]
         /\ sendOff + n <= responses[Cur].len
<1>. DEFINE L == Len(rcvd)
            rlen == responses[Cur].len
<1>1. /\ rcvd \in Seq(Bytes) /\ responses \in Seq(ResponseRecords)
      /\ responses # << >> /\ sendOff \in Nat
  BY DEF IInv, TypeOK, Bytes, ResponseRecords, SendDone
<1>2. Cur \in 1..Len(responses) /\ rlen \in Nat \ {0}
  <2>1. Cur \in 1..Len(responses)
    BY <1>1 DEF Cur
  <2>2. responses[Cur] \in ResponseRecords
    BY <1>1, <2>1, ElementOfSeq
  <2>. QED BY <2>1, <2>2 DEF ResponseRecords
<1>3. n \in 1..(rlen - sendOff) /\ responses' = responses
  BY DEF SendDone, Cur
<1>10. rcvd' = rcvd \o SentBytes(n)
  BY DEF SendDone, Cur, SentBytes
<1>4. /\ SentBytes(n) \in Seq(Bytes) /\ Len(SentBytes(n)) = n
      /\ \A j \in 1..n : SentBytes(n)[j] = [id |-> Cur, i |-> sendOff + j]
  <2>1. n \in Nat /\ Cur \in Nat \ {0}
    BY <1>2, <1>3
  <2>2. SentBytes(n) \in [1..n -> Bytes]
    BY <1>1, <2>1 DEF Bytes, SentBytes
  <2>. QED BY <2>1, <2>2 DEF SentBytes
<1>5. /\ rcvd' \in Seq(Bytes) /\ Len(rcvd') = L + n
      /\ \A j \in 1..L : rcvd'[j] = rcvd[j]
      /\ \A j \in (L + 1)..(L + n) : rcvd'[j] = [id |-> Cur, i |-> sendOff + (j - L)]
  <2>0. rcvd \in Seq(Bytes) /\ SentBytes(n) \in Seq(Bytes)
    BY <1>1, <1>4
  <2>1. /\ rcvd \o SentBytes(n) \in Seq(Bytes)
        /\ Len(rcvd \o SentBytes(n)) = Len(rcvd) + Len(SentBytes(n))
        /\ \A j \in 1..(Len(rcvd) + Len(SentBytes(n))) :
              (rcvd \o SentBytes(n))[j] =
                 IF j <= Len(rcvd) THEN rcvd[j]
                 ELSE SentBytes(n)[j - Len(rcvd)]
    BY <2>0, ConcatProperties, Zenon
  <2>. QED BY <1>1, <1>3, <1>4, <1>10, <2>1
<1>6. rcvd' # << >> /\ LastByte' = [id |-> Cur, i |-> sendOff + n]
  BY <1>1, <1>3, <1>5 DEF LastByte
<1>7. \A j \in 1..Len(rcvd') :
         /\ rcvd'[j].id \in 1..Len(responses')
         /\ rcvd'[j].i \in 1..responses'[rcvd'[j].id].len
  <2>1. \A j \in 1..L :
           /\ rcvd[j].id \in 1..Len(responses)
           /\ rcvd[j].i \in 1..responses[rcvd[j].id].len
    BY DEF ResponseStreamIntact
  <2>2. SUFFICES ASSUME NEW j \in 1..(L + n)
                 PROVE  /\ rcvd'[j].id \in 1..Len(responses)
                        /\ rcvd'[j].i \in 1..responses[rcvd'[j].id].len
    BY <1>3, <1>5
  <2>3. CASE j <= L
    BY <1>5, <2>1, <2>3
  <2>4. CASE j > L
    <3>0. j \in (L + 1)..(L + n)
      BY <1>1, <2>4
    <3>1. rcvd'[j] = [id |-> Cur, i |-> sendOff + (j - L)]
      BY <1>5, <3>0
    <3>. QED BY <1>1, <1>2, <1>3, <2>4, <3>1
  <2>. QED BY <1>1, <2>3, <2>4
<1>8. Len(rcvd') > 0 => rcvd'[1] = [id |-> 1, i |-> 1]
  <2>1. CASE L = 0
    <3>1. sendOff = 0 /\ Cur = 1
      BY <1>1, <2>1 DEF SentUpTo
    <3>. QED BY <1>1, <1>3, <1>5, <2>1, <3>1
  <2>2. CASE L > 0
    BY <1>1, <1>5, <2>2 DEF ResponseStreamIntact
  <2>. QED BY <1>1, <2>1, <2>2
<1>9. \A j \in 1..(Len(rcvd') - 1) : rcvd'[j + 1] = NextByte(rcvd[j])'
  <2>1. SUFFICES ASSUME NEW j \in 1..(L + n - 1)
                 PROVE  rcvd'[j + 1] = NextByte(rcvd[j])'
    BY <1>5
  <2>3. CASE j < L
    <3>1. rcvd[j + 1] = NextByte(rcvd[j])
      BY <1>1, <2>3 DEF ResponseStreamIntact
    <3>2. rcvd[j].id \in 1..Len(responses)
      BY <1>1, <2>3 DEF ResponseStreamIntact
    <3>3. rcvd'[j] = rcvd[j] /\ rcvd'[j + 1] = rcvd[j + 1]
      <4>1. j \in 1..L /\ j + 1 \in 1..L
        BY <1>1, <2>1, <2>3
      <4>. QED BY <1>5, <4>1
    <3>. QED BY <1>3, <3>1, <3>3 DEF NextByte
  <2>4. CASE j = L
    <3>1. rcvd # << >> /\ rcvd'[j] = LastByte /\ rcvd'[j + 1] = [id |-> Cur, i |-> sendOff + 1]
      <4>1. j \in 1..L /\ j + 1 \in (L + 1)..(L + n) /\ (j + 1) - L = 1
        BY <1>1, <1>3, <2>1, <2>4
      <4>2. rcvd # << >>
        BY <1>1, <4>1
      <4>3. rcvd'[j] = rcvd[L]
        BY <1>5, <2>4, <4>1
      <4>4. rcvd'[j + 1] = [id |-> Cur, i |-> sendOff + 1]
        BY <1>5, <4>1
      <4>. QED BY <4>2, <4>3, <4>4 DEF LastByte
    <3>2. CASE sendOff = 0
      <4>1. Cur > 1 /\ LastByte = EndOf(Cur - 1)
        BY <3>1, <3>2 DEF SentUpTo
      <4>. QED BY <1>2, <1>3, <3>1, <3>2, <4>1 DEF NextByte, EndOf
    <3>3. CASE sendOff > 0
      <4>1. LastByte = [id |-> Cur, i |-> sendOff]
        BY <3>3 DEF SentUpTo
      <4>. QED BY <1>2, <1>3, <3>1, <4>1 DEF NextByte
    <3>. QED BY <1>1, <3>2, <3>3
  <2>5. CASE j > L
    <3>1. /\ rcvd'[j] = [id |-> Cur, i |-> sendOff + (j - L)]
          /\ rcvd'[j + 1] = [id |-> Cur, i |-> sendOff + (j - L) + 1]
          /\ sendOff + (j - L) < rlen
      <4>1. j \in (L + 1)..(L + n) /\ j + 1 \in (L + 1)..(L + n)
        BY <1>1, <1>3, <2>1, <2>5
      <4>2. j - L < n
        BY <1>1, <1>3, <2>1, <2>5
      <4>3. rcvd'[j] = [id |-> Cur, i |-> sendOff + (j - L)]
        BY <1>5, <4>1
      <4>4. rcvd'[j + 1] = [id |-> Cur, i |-> sendOff + ((j + 1) - L)]
        BY <1>5, <4>1
      <4>5. sendOff + ((j + 1) - L) = sendOff + (j - L) + 1
        BY <1>1, <1>3, <2>1
      <4>. QED BY <1>1, <1>2, <1>3, <4>2, <4>3, <4>4, <4>5
    <3>2. rcvd'[j].i # responses'[rcvd'[j].id].len
      BY <1>1, <1>2, <1>3, <3>1
    <3>. QED BY <1>1, <3>1, <3>2 DEF NextByte
  <2>. QED BY <1>1, <2>1, <2>3, <2>4, <2>5
<1>. QED BY <1>1, <1>2, <1>3, <1>6, <1>7, <1>8, <1>9 DEF ResponseStreamIntact

(***************************************************************************)
(* The inductive invariant.  ResponseStreamIntact alone is not inductive:  *)
(* a send appends the bytes from sendOff + 1 on, which continue the stream *)
(* only if the stream ends exactly at sendOff of the current response (or *)
(* at the end of the previous one when sendOff is 0); and respond()        *)
(* installs a new response only when the previous one is sent whole,      *)
(* which holds while a request is read or handled.  A handler holds the    *)
(* session only while no operation is pending, and close() leaves none.   *)
(***************************************************************************)
\* A request is read or handled only once every response is sent whole.
ReadAfterSent == (pending \in {"recv_hdr", "recv_body"} \/ handling) => AllSent

\* A send in progress is within the current response and continues the
\* stream where it ends.
SendInProgress == pending = "send" => sendOff < responses[Cur].len /\ SentUpTo

\* The handler holds the session only while no I/O is pending.
HandlerIdle == handling => pending = "none"

\* After close() nothing is pending and no handler holds the session.
ClosedIdle == closed => pending = "none" /\ ~handling

SInv ==
    /\ IInv
    /\ ResponseStreamIntact
    /\ ReadAfterSent
    /\ SendInProgress
    /\ HandlerIdle
    /\ ClosedIdle

LEMMA InitSInv == Init => SInv
<1>. SUFFICES ASSUME Init PROVE SInv
  OBVIOUS
<1>1. IInv
  BY InitIInv
<1>. QED BY <1>1 DEF Init, SInv, ResponseStreamIntact, ReadAfterSent, AllSent,
                    SendInProgress, HandlerIdle, ClosedIdle

\* A step that leaves the stream, the responses, the pending operation, the
\* send offset, the handler and close() alone keeps SInv (the peer's
\* writes, the deadline passing, a stutter).
LEMMA FrameSInv ==
  ASSUME SInv, IInv',
         UNCHANGED <<rcvd, responses, pending, sendOff, handling, closed>>
  PROVE  SInv'
BY DEF SInv, ResponseStreamIntact, NextByte, ReadAfterSent, AllSent, LastByte,
       EndOf, Cur, SendInProgress, SentUpTo, HandlerIdle, ClosedIdle

\* respond() with no handler left holding the session, from a state whose
\* responses are all sent, starts a send that keeps SInv.
LEMMA StartSendSInv ==
  ASSUME SInv, IInv', AllSent, ~closed, ~handling', rcvd' = rcvd, closed' = closed,
         NEW len \in Nat \ {0}, NEW status \in Statuses \cup {400}, NEW ka,
         StartSend(len, status, ka)
  PROVE  SInv'
<1>1. TypeOK /\ ResponseStreamIntact
  BY DEF SInv, IInv
<1>2. /\ ResponseStreamIntact'
      /\ sendOff' < responses'[Cur'].len
      /\ SentUpTo'
  BY <1>1, StartSendStream
<1>3. pending' = "send"
  BY DEF StartSend
<1>. QED BY <1>2, <1>3 DEF SInv, ReadAfterSent, SendInProgress, HandlerIdle,
                          ClosedIdle

\* The handler's respond keeps SInv: the handler held the session, so no
\* I/O was pending and every earlier response was sent whole.
LEMMA HandlerRespondSInv ==
  ASSUME SInv, NEW status \in Statuses, HandlerRespond(status)
  PROVE  SInv'
<1>1. IInv'
  BY HandlerRespondIInv DEF SInv
<1>2. handling /\ AllSent /\ ~closed
  BY DEF HandlerRespond, SInv, ReadAfterSent, ClosedIdle
<1>3. ResponseLen \in Nat \ {0} /\ status \in Statuses \cup {400}
  BY ConstantsAssumption
<1>4. ~handling' /\ rcvd' = rcvd /\ closed' = closed
      /\ StartSend(ResponseLen, status, GetKeepAlive(request))
  BY DEF HandlerRespond, peerVars
<1>. QED BY <1>1, <1>2, <1>3, <1>4, StartSendSInv

\* A recv callback that reads on or hands the request to the handler, from
\* a state whose responses are all sent, sends nothing and keeps SInv.
LEMMA ReadOnSInv ==
  ASSUME SInv, IInv', AllSent, ~closed,
         UNCHANGED <<rcvd, responses, sendOff, closed>>,
         \/ pending' = "none" /\ handling'
         \/ pending' = "recv_body" /\ ~handling'
  PROVE  SInv'
<1>1. ResponseStreamIntact' /\ AllSent'
  BY DEF SInv, ResponseStreamIntact, NextByte, AllSent, LastByte, EndOf, Cur
<1>. QED BY <1>1 DEF SInv, ReadAfterSent, SendInProgress, HandlerIdle, ClosedIdle

\* The header recv keeps SInv: a 400 starts a send behind the responses,
\* all sent; a parsed request goes to the handler or to the body read.
LEMMA RecvHeaderSInv ==
  ASSUME SInv, NEW n \in Nat, RecvHeader(n)
  PROVE  SInv'
<1>. DEFINE buf == SubSeq(sent, rpos + 1, rpos + n)
<1>1. IInv'
  BY RecvHeaderIInv DEF SInv
<1>2. AllSent /\ ~handling /\ ~closed
  BY DEF RecvHeader, SInv, ReadAfterSent, HandlerIdle, ClosedIdle
<1>3. rcvd' = rcvd /\ closed' = closed /\ OnHeader(buf)
  BY DEF RecvHeader, peerVars
<1>4. CASE Respond400
  <2>1. StartSend(BadRequestLen, 400, FALSE) /\ handling' = handling
    BY <1>4 DEF Respond400
  <2>2. BadRequestLen \in Nat \ {0} /\ 400 \in Statuses \cup {400}
    BY ConstantsAssumption
  <2>. QED BY <1>1, <1>2, <1>3, <2>1, <2>2, StartSendSInv
<1>5. CASE UNCHANGED <<responses, sendOff>>
           /\ \/ pending' = "none" /\ handling'
              \/ pending' = "recv_body" /\ ~handling'
  BY <1>1, <1>2, <1>3, <1>5, ReadOnSInv
<1>6. Respond400 \/ (UNCHANGED <<responses, sendOff>>
                     /\ \/ pending' = "none" /\ handling'
                        \/ pending' = "recv_body" /\ ~handling')
  BY <1>2, <1>3 DEF OnHeader, ProcessRequest, sendVars
<1>. QED BY <1>4, <1>5, <1>6

\* The body recv keeps SInv: it reads on or hands the request over.
LEMMA RecvBodySInv ==
  ASSUME SInv, NEW n \in Nat, RecvBody(n)
  PROVE  SInv'
<1>1. IInv'
  BY RecvBodyIInv DEF SInv
<1>2. AllSent /\ ~handling /\ ~closed
  BY DEF RecvBody, SInv, ReadAfterSent, HandlerIdle, ClosedIdle
<1>3. /\ UNCHANGED <<rcvd, responses, sendOff, closed>>
      /\ \/ pending' = "none" /\ handling'
         \/ pending' = "recv_body" /\ ~handling'
  BY <1>2 DEF RecvBody, ProcessRequest, peerVars, sendVars
<1>. QED BY <1>1, <1>2, <1>3, ReadOnSInv

\* A send completion keeps SInv: a short send leaves the stream at the new
\* offset; a complete one leaves every response sent whole before the next
\* read (keep-alive) or the shutdown.
LEMMA SendDoneSInv ==
  ASSUME SInv, NEW n \in Nat, SendDone(n)
  PROVE  SInv'
<1>. DEFINE rlen == responses[Cur].len
<1>1. IInv'
  BY SendDoneIInv DEF SInv
<1>2. /\ IInv /\ ResponseStreamIntact /\ sendOff < rlen /\ SentUpTo
      /\ ~handling /\ ~closed
  BY DEF SendDone, SInv, SendInProgress, HandlerIdle, ClosedIdle
<1>3. /\ ResponseStreamIntact'
      /\ rcvd' # << >>
      /\ LastByte' = [id |-> Cur, i |-> sendOff + n]
      /\ sendOff + n <= rlen
  BY <1>2, SendDoneStream
<1>4. /\ UNCHANGED <<responses, handling, closed>>
      /\ n >= 1 /\ sendOff \in Nat /\ rlen \in Nat
  <2>1. responses # << >> /\ responses \in Seq(ResponseRecords)
    BY <1>2 DEF SendDone, IInv, TypeOK, ResponseRecords
  <2>2. responses[Cur] \in ResponseRecords
    BY <2>1, ElementOfSeq DEF Cur
  <2>. QED BY <1>2, <2>2 DEF SendDone, IInv, TypeOK, ResponseRecords, Cur
<1>5. Cur' = Cur /\ responses'[Cur'].len = rlen
  BY <1>4 DEF Cur
<1>6. CASE sendOff + n < rlen /\ sendOff' = sendOff + n /\ pending' = "send"
  <2>1. SendInProgress'
    BY <1>3, <1>4, <1>5, <1>6 DEF SendInProgress, SentUpTo
  <2>. QED BY <1>1, <1>2, <1>3, <1>4, <1>6, <2>1
           DEF SInv, ReadAfterSent, HandlerIdle, ClosedIdle
<1>7. CASE sendOff + n >= rlen /\ pending' = "recv_hdr"
  <2>1. AllSent'
    BY <1>3, <1>4, <1>5, <1>7 DEF AllSent, EndOf
  <2>. QED BY <1>1, <1>2, <1>3, <1>4, <1>7, <2>1
           DEF SInv, ReadAfterSent, SendInProgress, HandlerIdle, ClosedIdle
<1>8. CASE pending' = "shutdown"
  BY <1>1, <1>2, <1>3, <1>4, <1>8
     DEF SInv, ReadAfterSent, SendInProgress, HandlerIdle, ClosedIdle
<1>. QED BY <1>6, <1>7, <1>8 DEF SendDone, ReadRequest, Cur

\* close() from a callback of pending I/O keeps SInv: no handler held the
\* session, and close() leaves nothing pending.
LEMMA CloseSInv ==
  ASSUME SInv, IInv', pending # "none", closed', pending' = "none",
         UNCHANGED <<rcvd, responses, sendOff, handling>>
  PROVE  SInv'
<1>1. ~handling
  BY DEF SInv, HandlerIdle
<1>2. ResponseStreamIntact'
  BY DEF SInv, ResponseStreamIntact, NextByte
<1>. QED BY <1>1, <1>2 DEF SInv, ReadAfterSent, SendInProgress, HandlerIdle,
                          ClosedIdle

\* The callbacks that close, shut down or let the deadline pass keep SInv.
LEMMA QuietSInv ==
  ASSUME SInv,
         \/ RecvHeaderCancelled \/ RecvHeaderError \/ RecvHeaderEOF
         \/ RecvBodyCancelled \/ RecvBodyError \/ RecvBodyEOF
         \/ SendFailed \/ ShutdownDone \/ Expire
  PROVE  SInv'
<1>1. IInv'
  BY QuietIInv DEF SInv
<1>2. CASE RecvHeaderCancelled
  <2>1. ~handling /\ ~closed
    BY <1>2 DEF RecvHeaderCancelled, SInv, HandlerIdle, ClosedIdle
  <2>2. ResponseStreamIntact' /\ AllSent'
    BY <1>2 DEF RecvHeaderCancelled, SInv, ReadAfterSent, ResponseStreamIntact,
                NextByte, AllSent, LastByte, EndOf, Cur, peerVars, sendVars
  <2>. QED BY <1>1, <1>2, <2>1, <2>2
           DEF RecvHeaderCancelled, SInv, ReadAfterSent, SendInProgress,
               HandlerIdle, ClosedIdle
<1>3. CASE \/ RecvHeaderError \/ RecvHeaderEOF
           \/ RecvBodyCancelled \/ RecvBodyError \/ RecvBodyEOF
           \/ SendFailed \/ ShutdownDone
  <2>1. /\ pending # "none" /\ closed' /\ pending' = "none"
        /\ UNCHANGED <<rcvd, responses, sendOff, handling>>
    BY <1>3 DEF RecvHeaderError, RecvHeaderEOF, RecvBodyCancelled,
                RecvBodyError, RecvBodyEOF, SendFailed, ShutdownDone, Close,
                peerVars, sendVars
  <2>. QED BY <1>1, <2>1, CloseSInv
<1>4. CASE Expire
  <2>1. UNCHANGED <<rcvd, responses, pending, sendOff, handling, closed>>
    BY <1>4 DEF Expire, peerVars, sendVars
  <2>. QED BY <1>1, <2>1, FrameSInv
<1>. QED BY <1>2, <1>3, <1>4

\* Every step of the session or its peer keeps SInv.
LEMMA NextSInv ==
  ASSUME SInv, [Next]_vars
  PROVE  SInv'
<1>0. IInv'
  BY NextIInv DEF SInv
<1>1. CASE Peer
  <2>1. UNCHANGED <<rcvd, responses, pending, sendOff, handling, closed>>
    BY <1>1 DEF Peer, PeerSendRequest, PeerSendBody, PeerClose, PeerReset,
                sendVars
  <2>. QED BY <1>0, <2>1, FrameSInv
<1>2. CASE \E n \in 1..MaxHeaderSize : RecvHeader(n)
  BY <1>2, RecvHeaderSInv
<1>3. CASE \E n \in 1..MaxBodySize : RecvBody(n)
  BY <1>3, RecvBodySInv
<1>4. CASE \E s \in Statuses : HandlerRespond(s)
  BY <1>4, HandlerRespondSInv
<1>5. CASE \E n \in 1..Max({ResponseLen, BadRequestLen}) : SendDone(n)
  BY <1>5, SendDoneSInv
<1>6. CASE \/ RecvHeaderCancelled \/ RecvHeaderError \/ RecvHeaderEOF
           \/ RecvBodyCancelled \/ RecvBodyError \/ RecvBodyEOF
           \/ SendFailed \/ ShutdownDone \/ Expire
  BY <1>6, QuietSInv
<1>7. CASE UNCHANGED vars
  <2>1. UNCHANGED <<rcvd, responses, pending, sendOff, handling, closed>>
    BY <1>7 DEF vars, peerVars, sendVars
  <2>. QED BY <1>0, <2>1, FrameSInv
<1>. QED BY <1>1, <1>2, <1>3, <1>4, <1>5, <1>6, <1>7 DEF Next, Session

LEMMA SInvInvariant == Spec => []SInv
<1>1. Init => SInv
  BY InitSInv
<1>2. SInv /\ [Next]_vars => SInv'
  BY NextSInv
<1>. QED BY <1>1, <1>2, PTL DEF Spec

\* The peer receives the responses in the order respond() installed them,
\* each byte exactly once and each response whole before the next
\* (ResponseStreamIntact, checked by the session runs): the partial-send
\* loop of sendResponse (server.hpp:289-319) continues at
\* responseSendOffset_ across short writes, and keep-alive reads the next
\* request only after the last byte, for every value of the constants.
THEOREM StreamIntactCorrect == Spec => []ResponseStreamIntact
BY SInvInvariant, PTL DEF SInv

\* A read for the next request is pending only once the last byte of the
\* previous response has been sent (NoReadBeforeResponseSent): the only path
\* back to readRequest is the completed send of server.hpp:315-333.
THEOREM ReadAfterSendCorrect == Spec => []NoReadBeforeResponseSent
<1>1. SInv => NoReadBeforeResponseSent
  <2>. SUFFICES ASSUME SInv, pending = "recv_hdr", responses # << >>
                PROVE  Len(rcvd) > 0 /\ LastByte = EndOf(Cur)
    BY DEF NoReadBeforeResponseSent, LastByte, EndOf, Cur
  <2>1. AllSent /\ rcvd \in Seq(Bytes)
    BY DEF SInv, ReadAfterSent, IInv, TypeOK, Bytes
  <2>. QED BY <2>1 DEF AllSent
<1>. QED BY <1>1, SInvInvariant, PTL

\* The step relation NoIOAfterClose constrains, as a state-pair predicate.
AfterClose ==
    closed => /\ closed'
              /\ pending' = "none"
              /\ rcvd' = rcvd
              /\ rpos' = rpos

\* Once connection_->close() has run, no step reads from or writes to the
\* connection or submits I/O (NoIOAfterClose, checked by the session runs):
\* every close in server.hpp is followed by a return, so no callback of
\* the session runs again and no handler holds it; only the peer acts.
THEOREM NoIOAfterCloseCorrect == Spec => NoIOAfterClose
<1>1. SInv /\ [Next]_vars => [AfterClose]_vars
  <2>. SUFFICES ASSUME SInv, [Next]_vars, closed
                PROVE  [AfterClose]_vars
    BY DEF AfterClose
  <2>1. pending = "none" /\ ~handling
    BY DEF SInv, ClosedIdle
  <2>2. CASE Peer
    BY <2>1, <2>2 DEF Peer, PeerSendRequest, PeerSendBody, PeerClose, PeerReset,
                AfterClose, bufVars
  <2>3. CASE Session
    BY <2>1, <2>3 DEF Session, RecvHeader, RecvHeaderCancelled,
                      RecvHeaderError, RecvHeaderEOF, RecvBody,
                      RecvBodyCancelled, RecvBodyError, RecvBodyEOF,
                      HandlerRespond, SendDone, SendFailed, ShutdownDone,
                      Expire
  <2>4. CASE UNCHANGED vars
    BY <2>4 DEF vars
  <2>. QED BY <2>2, <2>3, <2>4 DEF Next
<1>. QED BY <1>1, SInvInvariant, PTL DEF Spec, NoIOAfterClose, AfterClose

=============================================================================
