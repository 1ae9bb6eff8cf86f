------------------------ MODULE ClientSessionProofs -------------------------
(***************************************************************************)
(* Proofs about ClientSession for every value of its constants: the type  *)
(* invariant, and that the send loop delivers the request to the server    *)
(* exactly once and in order before the header recv starts.                *)
(***************************************************************************)
EXTENDS ClientSession, HttpRequestProofs, TLAPS

\* The records of `calls`.
CallRec == [req : 1..MaxUserRequests, ok : BOOLEAN, body : Nat]

\* A success has been delivered to the user callback.
OkDelivered(c) == \E j \in DOMAIN c : c[j].ok

\* The bytes the server has are positions 1, 2, ... of the request buffer.
InOrder(s) == s = [j \in 1..Len(s) |-> j]

(***************************************************************************)
(* The inductive invariant.  RequestStreamIntact alone is not inductive:   *)
(* a send step needs to know that what the server has ends exactly at      *)
(* sendCursor_, that no send is pending before connection_ exists (so no  *)
(* byte was sent), and that a connect is never submitted again once it     *)
(* does; and typing `calls` needs every callback to belong to an accepted  *)
(* request() call.                                                         *)
(***************************************************************************)
IInv ==
    /\ TypeOK
    /\ accepted <= issued
    /\ (pending # "none" => accepted >= 1)
    /\ InOrder(srvRcvd)
    /\ (~conn => srvRcvd = << >> /\ sendCursor = 0)
    /\ (pending \in {"resolve", "connect"} => ~conn)
    /\ (pending \in {"send", "recv"} => conn)
    /\ (pending = "send" => Len(srvRcvd) = sendCursor /\ sendCursor < ReqLen)
    /\ ((pending = "recv" \/ OkDelivered(calls)) => Len(srvRcvd) = ReqLen)

-----------------------------------------------------------------------------
(* Lemmas on the operators the model is built from.                        *)

\* Appending a callback record keeps `calls` typed.
LEMMA AppendCall ==
  ASSUME NEW c \in Seq(CallRec), NEW r \in 1..MaxUserRequests,
         NEW ok \in BOOLEAN, NEW b \in Nat
  PROVE  Append(c, Call(r, ok, b)) \in Seq(CallRec)
BY DEF Call, CallRec

\* Appending an error report delivers no success.
LEMMA AppendFailure ==
  ASSUME NEW c \in Seq(CallRec), NEW r
  PROVE  OkDelivered(Append(c, Call(r, FALSE, 0))) <=> OkDelivered(c)
<1>1. DOMAIN Append(c, Call(r, FALSE, 0)) = 1..(Len(c) + 1)
  OBVIOUS
<1>2. \A j \in 1..Len(c) : Append(c, Call(r, FALSE, 0))[j] = c[j]
  OBVIOUS
<1>3. Append(c, Call(r, FALSE, 0))[Len(c) + 1].ok = FALSE
  BY DEF Call
<1>0. DOMAIN c = 1..Len(c)
  OBVIOUS
<1>4. ASSUME NEW j \in DOMAIN Append(c, Call(r, FALSE, 0)),
             Append(c, Call(r, FALSE, 0))[j].ok
      PROVE  j \in DOMAIN c /\ c[j].ok
  <2>1. j \in 1..Len(c)
    <3>1. j # Len(c) + 1
      BY <1>3, <1>4, Zenon
    <3>. QED BY <1>1, <3>1
  <2>2. Append(c, Call(r, FALSE, 0))[j] = c[j]
    BY <2>1, <1>2
  <2>. QED BY <1>0, <2>1, <2>2, <1>4, Zenon
<1>5. ASSUME NEW j \in DOMAIN c, c[j].ok
      PROVE  j \in DOMAIN Append(c, Call(r, FALSE, 0))
             /\ Append(c, Call(r, FALSE, 0))[j].ok
  <2>1. j \in 1..Len(c)
    BY <1>0
  <2>2. Append(c, Call(r, FALSE, 0))[j] = c[j]
    BY <2>1, <1>2
  <2>3. j \in DOMAIN Append(c, Call(r, FALSE, 0))
    BY <1>1, <2>1
  <2>. QED BY <2>2, <2>3, <1>5, Zenon
<1>. QED BY <1>4, <1>5, Zenon DEF OkDelivered

\* The bytes a send writes continue the positions the server has.
LEMMA SendPositions ==
  ASSUME NEW s \in Seq(Nat), NEW n \in Nat, InOrder(s)
  PROVE  InOrder(s \o [j \in 1..n |-> Len(s) + j])
         /\ Len(s \o [j \in 1..n |-> Len(s) + j]) = Len(s) + n
BY DEF InOrder

\* The first k positions of the request buffer.
LEMMA PositionsType ==
  ASSUME NEW k \in 0..ReqLen
  PROVE  [j \in 1..k |-> j] \in Seq(1..ReqLen) /\ Len([j \in 1..k |-> j]) = k
BY ConstantsAssumption

\* The body length a successful recv delivers is a number.
LEMMA DeliveredBodyType ==
  ASSUME NEW n \in Nat, NEW sh \in ShapeRecords, n >= sh.hlen,
         sh.cl # "none" => IsDecimal(sh.cl)
  PROVE  (IF sh.cl # "none" /\ n - sh.hlen >= ParseLength(sh.cl)
          THEN ParseLength(sh.cl) ELSE n - sh.hlen) \in Nat
<1>1. n - sh.hlen \in Nat
  BY DEF ShapeRecords
<1>2. sh.cl # "none" => ParseLength(sh.cl) \in Nat
  BY ParseLengthType
<1>. QED BY <1>1, <1>2

-----------------------------------------------------------------------------
(* The steps.                                                              *)

LEMMA InitIInv == Init => IInv
<1>. SUFFICES ASSUME Init PROVE IInv
  OBVIOUS
<1>1. shape \in ShapeRecords
  BY ConstantsAssumption DEF Init
<1>2. RespTotal(shape) \in Nat
  BY <1>1 DEF RespTotal, ShapeRecords
<1>3. TypeOK
  <2>1. calls \in Seq(CallRec) /\ srvRcvd \in Seq(1..ReqLen)
    BY EmptySeq DEF Init
  <2>2. respOut \in 0..RespTotal(shape)
    BY <1>2 DEF Init
  <2>3. accepted \in 0..MaxUserRequests /\ issued \in 0..MaxUserRequests
        /\ sendCursor \in 0..ReqLen
    BY ConstantsAssumption DEF Init
  <2>. QED BY <2>1, <2>2, <2>3, Zenon DEF Init, TypeOK, Ops, CallRec
<1>4. InOrder(srvRcvd)
  <2>1. srvRcvd = << >>
    BY DEF Init
  <2>2. [j \in 1..Len(<< >>) |-> j] = << >>
    <3>1. Len(<< >>) = 0
      OBVIOUS
    <3>2. [j \in 1..0 |-> j] \in Seq(Nat) /\ Len([j \in 1..0 |-> j]) = 0
      OBVIOUS
    <3>. QED BY <3>1, <3>2, EmptySeq
  <2>. QED BY <2>1, <2>2 DEF InOrder
<1>5. ~OkDelivered(calls)
  BY DEF Init, OkDelivered
<1>. QED BY <1>3, <1>4, <1>5 DEF Init, IInv

\* The server's steps change nothing of the session, nor what it has
\* received.
LEMMA PeerIInv ==
  ASSUME IInv, PeerRespond \/ PeerClose \/ PeerReset, UNCHANGED sessionVars
  PROVE  IInv'
<1>1. respOut' \in 0..RespTotal(shape')
  <2>1. shape \in ShapeRecords /\ respOut \in 0..RespTotal(shape)
    BY ConstantsAssumption DEF IInv, TypeOK
  <2>2. RespTotal(shape) \in Nat
    BY <2>1 DEF RespTotal, ShapeRecords
  <2>. QED BY <2>1, <2>2 DEF PeerRespond, PeerClose, PeerReset
<1>2. fin' \in BOOLEAN /\ reset' \in BOOLEAN /\ shape' = shape /\ srvRcvd' = srvRcvd
  BY DEF IInv, TypeOK, PeerRespond, PeerClose, PeerReset
<1>. QED BY <1>1, <1>2 DEF IInv, TypeOK, sessionVars

\* The facts of IInv every session step uses.
LEMMA IInvFacts ==
  ASSUME IInv
  PROVE  /\ accepted \in 0..MaxUserRequests /\ issued \in 0..MaxUserRequests
         /\ accepted <= issued
         /\ calls \in Seq(CallRec)
         /\ srvRcvd \in Seq(1..ReqLen) /\ InOrder(srvRcvd)
         /\ sendCursor \in 0..ReqLen
BY DEF IInv, TypeOK, CallRec

\* connect() for an accepted request keeps `calls` typed, delivers no
\* success, and submits a resolve or a connect.
LEMMA ConnectType ==
  ASSUME NEW known \in BOOLEAN, NEW r \in 1..MaxUserRequests,
         calls \in Seq(CallRec), Connect(known, r)
  PROVE  /\ calls' \in Seq(CallRec)
         /\ OkDelivered(calls') <=> OkDelivered(calls)
         /\ pending' \in {"resolve", "connect"}
         /\ sock' \in {"none", "valid", "invalid"} \/ sock' = sock
<1>1. CASE ~known
  BY <1>1 DEF Connect
<1>2. CASE known
  <2>. PICK s \in {"valid"} \cup (IF "socket" \in Faults THEN {"invalid"} ELSE {}) :
          /\ sock' = s
          /\ pending' = "connect"
          /\ IF s = "invalid" THEN Fail(r) ELSE calls' = calls
    BY <1>2 DEF Connect
  <2>1. CASE s = "invalid"
    BY <2>1, AppendCall, AppendFailure DEF Fail
  <2>2. CASE s # "invalid"
    BY <2>2
  <2>. QED BY <2>1, <2>2
<1>. QED BY <1>1, <1>2

\* request(): refused while a callback is stored; otherwise the callback
\* stored, and a connect submitted only when there is no connection.
LEMMA RequestIInv ==
  ASSUME IInv, Request
  PROVE  IInv'
<1>0. /\ accepted \in 0..MaxUserRequests /\ issued \in 0..MaxUserRequests
      /\ accepted <= issued /\ issued < MaxUserRequests /\ issued' = issued + 1
      /\ calls \in Seq(CallRec) /\ addr \in BOOLEAN /\ callback \in BOOLEAN
  BY IInvFacts DEF IInv, TypeOK, Request
<1>1. CASE callback
  <2>1. issued' \in 0..MaxUserRequests /\ accepted <= issued'
    BY <1>0, ConstantsAssumption
  <2>. QED BY <1>1, <2>1 DEF Request, IInv, TypeOK, peerVars
<1>2. CASE ~callback
  <2>1. accepted' = accepted + 1 /\ accepted + 1 \in 1..MaxUserRequests
        /\ issued' \in 0..MaxUserRequests /\ accepted' <= issued'
    BY <1>0, <1>2, ConstantsAssumption DEF Request
  <2>2. UNCHANGED <<addr, connected, conn, closed, sendCursor, peerVars>>
        /\ callback' = TRUE
    BY <1>2 DEF Request
  <2>3. CASE ~conn
    <3>1. Connect(addr, accepted + 1)
      BY <1>2, <2>3 DEF Request
    <3>2. /\ calls' \in Seq(CallRec)
          /\ OkDelivered(calls') <=> OkDelivered(calls)
          /\ pending' \in {"resolve", "connect"}
          /\ sock' \in {"none", "valid", "invalid"} \/ sock' = sock
      BY <1>0, <2>1, <3>1, ConnectType
    <3>3. srvRcvd = << >> /\ sendCursor = 0 /\ ~OkDelivered(calls)
      <4>1. srvRcvd = << >> /\ sendCursor = 0
        BY <2>3 DEF IInv
      <4>2. Len(srvRcvd) # ReqLen
        BY <4>1, ConstantsAssumption
      <4>. QED BY <4>1, <4>2 DEF IInv
    <3>4. InOrder(srvRcvd') /\ srvRcvd' \in Seq(1..ReqLen)
      BY <2>2, IInvFacts DEF peerVars
    <3>. QED BY <2>1, <2>2, <2>3, <3>2, <3>3, <3>4
             DEF IInv, TypeOK, peerVars, Ops, CallRec
  <2>4. CASE conn
    <3>1. UNCHANGED <<pending, sock, calls>>
      BY <1>2, <2>4 DEF Request
    <3>. QED BY <2>1, <2>2, <3>1 DEF IInv, TypeOK, peerVars
  <2>. QED BY <2>3, <2>4
<1>. QED BY <1>0, <1>1, <1>2

\* The resolve callback: a failure is reported, or connect() runs with the
\* address now known; either way before any connection exists.
LEMMA ResolveDoneIInv ==
  ASSUME IInv, ResolveDone
  PROVE  IInv'
<1>0. /\ accepted \in 1..MaxUserRequests
      /\ calls \in Seq(CallRec)
      /\ ~conn /\ srvRcvd = << >> /\ sendCursor = 0
      /\ ~OkDelivered(calls)
  <2>1. pending = "resolve"
    BY DEF ResolveDone
  <2>2. accepted \in 1..MaxUserRequests /\ calls \in Seq(CallRec)
    BY <2>1, IInvFacts DEF IInv
  <2>3. ~conn /\ srvRcvd = << >> /\ sendCursor = 0
    BY <2>1 DEF IInv
  <2>4. Len(srvRcvd) # ReqLen
    BY <2>3, ConstantsAssumption
  <2>. QED BY <2>2, <2>3, <2>4 DEF IInv
<1>1. UNCHANGED <<callback, accepted, issued, connected, conn, closed,
                  sendCursor, peerVars>>
  BY DEF ResolveDone
<1>2. /\ calls' \in Seq(CallRec)
      /\ ~OkDelivered(calls')
      /\ pending' \in {"none", "resolve", "connect"}
      /\ sock' \in {"none", "valid", "invalid"} \/ sock' = sock
      /\ addr' \in BOOLEAN
  <2>1. CASE ResolveFailed /\ UNCHANGED <<addr, sock>>
    <3>1. calls' = Append(calls, Call(accepted, FALSE, 0)) /\ pending' = "none"
      BY <2>1 DEF ResolveFailed, Fail
    <3>. QED BY <1>0, <2>1, <3>1, AppendCall, AppendFailure DEF IInv, TypeOK
  <2>2. CASE addr' = TRUE /\ Connect(TRUE, accepted)
    BY <1>0, <2>2, ConnectType
  <2>. QED BY <2>1, <2>2 DEF ResolveDone
<1>3. InOrder(srvRcvd') /\ srvRcvd' \in Seq(1..ReqLen)
  BY <1>1, IInvFacts DEF peerVars
<1>. QED BY <1>0, <1>1, <1>2, <1>3 DEF IInv, TypeOK, peerVars, Ops, CallRec

\* The connect callback: whatever its outcome, the connection is created
\* with nothing yet sent, and the send submitted.
LEMMA ConnectDoneIInv ==
  ASSUME IInv, ConnectDone
  PROVE  IInv'
<1>0. /\ accepted \in 1..MaxUserRequests
      /\ calls \in Seq(CallRec)
      /\ srvRcvd = << >> /\ sendCursor = 0
      /\ ~OkDelivered(calls)
  <2>1. pending = "connect"
    BY DEF ConnectDone
  <2>2. accepted \in 1..MaxUserRequests /\ calls \in Seq(CallRec)
    BY <2>1, IInvFacts DEF IInv
  <2>3. srvRcvd = << >> /\ sendCursor = 0
    BY <2>1 DEF IInv
  <2>4. Len(srvRcvd) # ReqLen
    BY <2>3, ConstantsAssumption
  <2>. QED BY <2>2, <2>3, <2>4 DEF IInv
<1>1. /\ UNCHANGED <<callback, accepted, issued, addr, sock, closed, sendCursor,
                     peerVars>>
      /\ conn' = TRUE /\ pending' = "send"
  BY DEF ConnectDone
<1>2. /\ calls' \in Seq(CallRec)
      /\ ~OkDelivered(calls')
      /\ connected' \in BOOLEAN
  <2>. PICK ok \in (IF sock = "valid" THEN {TRUE} ELSE {})
                 \cup (IF sock = "invalid" \/ "connect" \in Faults THEN {FALSE} ELSE {}) :
          /\ connected' = ok
          /\ IF ok THEN calls' = calls ELSE Fail(accepted)
    BY DEF ConnectDone
  <2>0. ok \in BOOLEAN
    OBVIOUS
  <2>1. CASE ok
    <3>1. calls' = calls
      BY <2>1, Zenon
    <3>. QED BY <3>1, <1>0, <2>0
  <2>2. CASE ~ok
    <3>1. calls' = Append(calls, Call(accepted, FALSE, 0))
      BY <2>2, Zenon DEF Fail
    <3>2. calls' \in Seq(CallRec)
      BY <3>1, <1>0, AppendCall
    <3>3. ~OkDelivered(calls')
      BY <3>1, <1>0, AppendFailure
    <3>. QED BY <3>2, <3>3, <2>0
  <2>. QED BY <2>0, <2>1, <2>2
<1>3. Len(srvRcvd') = sendCursor' /\ sendCursor' < ReqLen
  BY <1>0, <1>1, ConstantsAssumption DEF peerVars
<1>4. InOrder(srvRcvd') /\ srvRcvd' \in Seq(1..ReqLen)
  BY <1>1, IInvFacts DEF peerVars
<1>. QED BY <1>0, <1>1, <1>2, <1>3, <1>4 DEF IInv, TypeOK, peerVars, Ops, CallRec

\* The send callback: an error or a 0-byte send reports and closes; n
\* bytes extend what the server has by the next n positions, and the recv
\* starts exactly when the last one was sent.
LEMMA SendDoneIInv ==
  ASSUME IInv, SendDone
  PROVE  IInv'
<1>0. /\ accepted \in 1..MaxUserRequests
      /\ calls \in Seq(CallRec)
      /\ conn
      /\ sendCursor \in 0..ReqLen /\ Len(srvRcvd) = sendCursor /\ sendCursor < ReqLen
      /\ srvRcvd \in Seq(Nat) /\ InOrder(srvRcvd)
      /\ ~OkDelivered(calls)
  <2>1. pending = "send"
    BY DEF SendDone
  <2>2. accepted \in 1..MaxUserRequests /\ calls \in Seq(CallRec)
        /\ sendCursor \in 0..ReqLen /\ InOrder(srvRcvd)
    BY <2>1, IInvFacts DEF IInv
  <2>3. Len(srvRcvd) = sendCursor /\ sendCursor < ReqLen /\ conn
    BY <2>1 DEF IInv
  <2>4. srvRcvd \in Seq(Nat)
    <3>1. srvRcvd \in Seq(1..ReqLen)
      BY IInvFacts
    <3>2. 1..ReqLen \subseteq Nat
      OBVIOUS
    <3>. QED BY <3>1, <3>2, SeqMonotonic
  <2>5. ~OkDelivered(calls)
    BY <2>1, <2>3 DEF IInv
  <2>. QED BY <2>2, <2>3, <2>4, <2>5
<1>1. UNCHANGED <<callback, accepted, issued, addr, sock, connected, conn,
                  shape, respOut, fin, reset>>
  BY DEF SendDone
<1>2. CASE ~connected \/ reset \/ fin
  <2>1. /\ calls' = Append(calls, Call(accepted, FALSE, 0))
        /\ pending' = "none" /\ closed' = TRUE
        /\ UNCHANGED <<sendCursor, srvRcvd>>
    BY <1>2 DEF SendDone, SendClosed, FailAndClose, Fail
  <2>2. calls' \in Seq(CallRec) /\ ~OkDelivered(calls')
    BY <1>0, <2>1, AppendCall, AppendFailure
  <2>3. srvRcvd' \in Seq(1..ReqLen) /\ InOrder(srvRcvd')
    BY <2>1, IInvFacts
  <2>. QED BY <1>0, <1>1, <2>1, <2>2, <2>3 DEF IInv, TypeOK, Ops, CallRec
<1>3. CASE ~(~connected \/ reset \/ fin)
  <2>0. PICK n \in 1..SendLen : SendWrote(n) /\ UNCHANGED <<calls, closed>>
    BY <1>3 DEF SendDone
  <2>1. n \in Nat /\ n <= ReqLen - sendCursor /\ sendCursor + n \in 0..ReqLen
    BY <1>0, ConstantsAssumption DEF SendLen
  <2>2. srvRcvd' = srvRcvd \o [j \in 1..n |-> Len(srvRcvd) + j]
    BY <1>0, <2>0 DEF SendWrote
  <2>3. InOrder(srvRcvd') /\ Len(srvRcvd') = sendCursor + n
    <3>1. /\ InOrder(srvRcvd \o [j \in 1..n |-> Len(srvRcvd) + j])
          /\ Len(srvRcvd \o [j \in 1..n |-> Len(srvRcvd) + j]) = Len(srvRcvd) + n
      BY <1>0, <2>1, SendPositions
    <3>. QED BY <1>0, <2>2, <3>1
  <2>4. srvRcvd' \in Seq(1..ReqLen)
    <3>1. srvRcvd' = [j \in 1..(sendCursor + n) |-> j]
      BY <2>3 DEF InOrder
    <3>. QED BY <2>1, <3>1, PositionsType
  <2>5. CASE sendCursor + n < ReqLen
    <3>1. sendCursor' = sendCursor + n /\ pending' = "send"
      BY <2>0, <2>5 DEF SendWrote
    <3>. QED BY <1>0, <1>1, <2>0, <2>1, <2>3, <2>4, <2>5, <3>1, ConstantsAssumption
             DEF IInv, TypeOK, Ops, CallRec
  <2>6. CASE ~(sendCursor + n < ReqLen)
    <3>1. sendCursor' = sendCursor /\ pending' = "recv"
      BY <2>0, <2>6 DEF SendWrote
    <3>2. Len(srvRcvd') = ReqLen
      BY <1>0, <2>1, <2>3, <2>6, ConstantsAssumption
    <3>3. TypeOK'
      BY <1>0, <1>1, <2>0, <2>4, <3>1 DEF IInv, TypeOK, Ops, CallRec
    <3>4. conn' /\ accepted' >= 1 /\ accepted' <= issued'
      BY <1>0, <1>1 DEF IInv
    <3>. QED BY <2>3, <3>1, <3>2, <3>3, <3>4 DEF IInv
  <2>. QED BY <2>5, <2>6
<1>. QED BY <1>2, <1>3

\* The recv callback: an error, end of stream or a response that does not
\* parse reports and closes; a response that parses delivers a success with
\* a numeric body.  It only runs once the whole request was sent.
LEMMA RecvDoneIInv ==
  ASSUME IInv, RecvDone
  PROVE  IInv'
<1>0. /\ accepted \in 1..MaxUserRequests
      /\ calls \in Seq(CallRec)
      /\ conn /\ Len(srvRcvd) = ReqLen
      /\ shape \in ShapeRecords
  <2>1. pending = "recv"
    BY DEF RecvDone
  <2>2. accepted \in 1..MaxUserRequests /\ calls \in Seq(CallRec)
    BY <2>1, IInvFacts DEF IInv
  <2>3. conn /\ Len(srvRcvd) = ReqLen
    BY <2>1 DEF IInv
  <2>4. shape \in ShapeRecords
    BY ConstantsAssumption DEF IInv, TypeOK
  <2>. QED BY <2>2, <2>3, <2>4
<1>1. UNCHANGED <<accepted, issued, addr, sock, connected, conn, sendCursor,
                  srvRcvd, shape, respOut, fin, reset>>
  BY DEF RecvDone, peerVars
<1>2. ASSUME calls' = Append(calls, Call(accepted, FALSE, 0)),
             pending' = "none", closed' = TRUE, UNCHANGED callback
      PROVE  IInv'
  <2>1. calls' \in Seq(CallRec)
    BY <1>0, <1>2, AppendCall
  <2>2. TypeOK'
    BY <1>0, <1>1, <1>2, <2>1 DEF IInv, TypeOK, Ops, CallRec
  <2>3. accepted' <= issued' /\ InOrder(srvRcvd') /\ conn' /\ Len(srvRcvd') = ReqLen
    BY <1>0, <1>1 DEF IInv
  <2>. QED BY <1>2, <2>2, <2>3 DEF IInv
<1>3. CASE reset \/ respOut = 0
  <2>1. /\ calls' = Append(calls, Call(accepted, FALSE, 0))
        /\ pending' = "none" /\ closed' = TRUE /\ UNCHANGED callback
    BY <1>3 DEF RecvDone, RecvClosed, FailAndClose, Fail
  <2>. QED BY <2>1, <1>2
<1>4. CASE ~reset /\ respOut # 0
  <2>0. PICK n \in 1..Min({RecvLen, respOut}) : RecvGot(n)
    BY <1>4 DEF RecvDone
  <2>1. n \in Nat
    OBVIOUS
  <2>2. CASE ~ResponseParses(n) \/ (shape.cl # "none" /\ ~IsDecimal(shape.cl))
    <3>1. /\ calls' = Append(calls, Call(accepted, FALSE, 0))
          /\ pending' = "none" /\ closed' = TRUE /\ UNCHANGED callback
      BY <2>0, <2>2 DEF RecvGot, FailAndClose, Fail
    <3>. QED BY <3>1, <1>2
  <2>3. CASE ~(~ResponseParses(n) \/ (shape.cl # "none" /\ ~IsDecimal(shape.cl)))
    <3>. DEFINE b == IF shape.cl # "none" /\ n - shape.hlen >= ParseLength(shape.cl)
                     THEN ParseLength(shape.cl) ELSE n - shape.hlen
    <3>1. /\ calls' = Append(calls, Call(accepted, TRUE, b))
          /\ callback' = FALSE /\ pending' = "none" /\ UNCHANGED closed
      BY <2>0, <2>3 DEF RecvGot
    <3>2. b \in Nat
      <4>1. n >= shape.hlen /\ (shape.cl # "none" => IsDecimal(shape.cl))
        BY <2>3 DEF ResponseParses
      <4>. QED BY <1>0, <2>1, <4>1, DeliveredBodyType
    <3>3. calls' \in Seq(CallRec)
      BY <1>0, <3>1, <3>2, AppendCall
    <3>4. TypeOK'
      BY <1>0, <1>1, <3>1, <3>3 DEF IInv, TypeOK, Ops, CallRec
    <3>5. accepted' <= issued' /\ InOrder(srvRcvd') /\ conn' /\ Len(srvRcvd') = ReqLen
      BY <1>0, <1>1 DEF IInv
    <3>. QED BY <3>1, <3>4, <3>5 DEF IInv
  <2>. QED BY <2>2, <2>3
<1>. QED BY <1>3, <1>4

\* Every step of the session and of its peer, and a stutter, keeps IInv.
LEMMA NextIInv ==
  ASSUME IInv, [Next]_vars
  PROVE  IInv'
<1>1. CASE Request
  BY <1>1, RequestIInv
<1>2. CASE ResolveDone
  BY <1>2, ResolveDoneIInv
<1>3. CASE ConnectDone
  BY <1>3, ConnectDoneIInv
<1>4. CASE SendDone
  BY <1>4, SendDoneIInv
<1>5. CASE RecvDone
  BY <1>5, RecvDoneIInv
<1>6. CASE (PeerRespond \/ PeerClose \/ PeerReset) /\ UNCHANGED sessionVars
  BY <1>6, PeerIInv
<1>7. CASE UNCHANGED vars
  <2>1. /\ callback' = callback /\ accepted' = accepted /\ issued' = issued
        /\ addr' = addr /\ sock' = sock /\ connected' = connected
        /\ conn' = conn /\ closed' = closed /\ pending' = pending
        /\ sendCursor' = sendCursor /\ calls' = calls
        /\ srvRcvd' = srvRcvd /\ shape' = shape /\ respOut' = respOut
        /\ fin' = fin /\ reset' = reset
    BY <1>7 DEF vars, peerVars
  <2>2. TypeOK'
    BY <2>1 DEF IInv, TypeOK
  <2>3. InOrder(srvRcvd') /\ (OkDelivered(calls') <=> OkDelivered(calls))
    BY <2>1 DEF IInv, InOrder, OkDelivered
  <2>. QED BY <2>1, <2>2, <2>3 DEF IInv
<1>. QED BY <1>1, <1>2, <1>3, <1>4, <1>5, <1>6, <1>7 DEF Next

\* Whatever the request length, receive size and number of user calls, the
\* session's variables keep their types (client.hpp Session).
THEOREM ClientTypeCorrect == Spec => []TypeOK
<1>1. IInv => TypeOK
  BY DEF IInv
<1>. QED BY <1>1, InitIInv, NextIInv, PTL DEF Spec

\* Whatever the constants, the server receives the request bytes in order
\* with none skipped or repeated (sendCursor in client.hpp:163-170), and no
\* recv is started and no success delivered before the whole request was
\* sent (client.hpp:171-176).
THEOREM RequestStreamCorrect == Spec => []RequestStreamIntact
<1>1. IInv => RequestStreamIntact
  BY DEF IInv, InOrder, OkDelivered, RequestStreamIntact
<1>. QED BY <1>1, InitIInv, NextIInv, PTL DEF Spec

=============================================================================
