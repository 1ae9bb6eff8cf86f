------------------------ MODULE ClientCallbackProofs ------------------------
(***************************************************************************)
(* Proofs that ClientSession runs the user callback of a request() call   *)
(* at most once, and that a failed exchange closes its connection, for    *)
(* every value of the constants, as long as socket() and connect() do not *)
(* fail: on those two paths connect() reports the error and goes on       *)
(* (client.hpp:124, 133), and the run client_callback_twice shows the     *)
(* callback run again.                                                     *)
(***************************************************************************)
EXTENDS ClientSessionProofs

\* The environment reports every failure through a completion: socket()
\* succeeds and the connect is not refused.
EstablishReported == Faults \cap {"socket", "connect"} = {}

\* No two callbacks in c belong to the same request() call.
Distinct(c) == \A j, k \in DOMAIN c : j < k => c[j].req # c[k].req

\* Every callback in c belongs to one of the first a accepted calls.
ReqsUpTo(c, a) == \A j \in DOMAIN c : c[j].req \in 1..a

\* No callback in c belongs to call r.
NoCallIn(c, r) == \A j \in DOMAIN c : c[j].req # r

\* Call r has been reported as failed in c.
FailedIn(c, r) == \E j \in DOMAIN c : c[j].req = r /\ ~c[j].ok

(***************************************************************************)
(* The inductive invariant.  CallbackAtMostOnce alone is not inductive: a  *)
(* completion appends a callback for the current call, which is new only  *)
(* if that call has had none while an operation is pending; request()     *)
(* starts a call only when the slot is free, which must mean nothing is   *)
(* pending; and the callbacks must all belong to calls already accepted,  *)
(* so that the next call starts with none.  A socket is never -1 under    *)
(* EstablishReported, so connect() reports nothing.                        *)
(***************************************************************************)
CallbackInv ==
    /\ ReqsUpTo(calls, accepted)
    /\ Distinct(calls)
    /\ (~callback => pending = "none")
    /\ (pending # "none" => NoCallIn(calls, accepted))
    /\ sock # "invalid"
    /\ ((FailedIn(calls, accepted) /\ conn /\ pending = "none") => closed)

OInv == IInv /\ CallbackInv

-----------------------------------------------------------------------------
(* Lemmas on the callback log.                                             *)

\* A callback for a call that has had none keeps the log free of repeats
\* and within the accepted calls, and the call counts as failed exactly
\* when the callback reports an error.
LEMMA AppendFresh ==
  ASSUME NEW c \in Seq(CallRec), NEW a \in Nat, NEW r \in 1..a,
         NEW ok \in BOOLEAN, NEW b \in Nat,
         Distinct(c), ReqsUpTo(c, a), NoCallIn(c, r)
  PROVE  /\ Distinct(Append(c, Call(r, ok, b)))
         /\ ReqsUpTo(Append(c, Call(r, ok, b)), a)
         /\ FailedIn(Append(c, Call(r, ok, b)), r) <=> ~ok
<1>. DEFINE d == Append(c, Call(r, ok, b))
            last == Len(c) + 1
<1>1. /\ DOMAIN d = 1..last
      /\ \A j \in 1..Len(c) : d[j] = c[j]
      /\ d[last] = Call(r, ok, b)
  OBVIOUS
<1>2. d[last].req = r /\ d[last].ok = ok
  BY <1>1 DEF Call
<1>3. \A j \in 1..Len(c) : d[j].req # r /\ d[j].req \in 1..a
  BY <1>1 DEF NoCallIn, ReqsUpTo
<1>4. Distinct(d)
  <2>. SUFFICES ASSUME NEW j \in DOMAIN d, NEW k \in DOMAIN d, j < k
                PROVE  d[j].req # d[k].req
    BY DEF Distinct
  <2>1. CASE k = last
    BY <1>1, <1>2, <1>3, <2>1
  <2>2. CASE k # last
    BY <1>1, <2>2 DEF Distinct
  <2>. QED BY <2>1, <2>2
<1>5. ReqsUpTo(d, a)
  BY <1>1, <1>2, <1>3 DEF ReqsUpTo
<1>6. FailedIn(d, r) <=> ~ok
  <2>1. FailedIn(d, r) => ~ok
    <3>. SUFFICES ASSUME NEW j \in DOMAIN d, d[j].req = r, ~d[j].ok
                  PROVE  ~ok
      BY DEF FailedIn
    <3>1. j = last
      BY <1>1, <1>3
    <3>. QED BY <1>2, <3>1
  <2>2. ~ok => FailedIn(d, r)
    BY <1>1, <1>2 DEF FailedIn
  <2>. QED BY <2>1, <2>2
<1>. QED BY <1>4, <1>5, <1>6

\* The next call to be accepted has no callback yet.
LEMMA ReqsGrow ==
  ASSUME NEW c, NEW a \in Nat, ReqsUpTo(c, a)
  PROVE  ReqsUpTo(c, a + 1) /\ NoCallIn(c, a + 1) /\ ~FailedIn(c, a + 1)
BY DEF ReqsUpTo, NoCallIn, FailedIn

-----------------------------------------------------------------------------
(* Three shapes of step.                                                   *)

\* A failure reported for the current call while an operation was pending,
\* after which nothing is pending and the connection, if any, is closed.
LEMMA FailStep ==
  ASSUME OInv, pending # "none",
         calls' = Append(calls, Call(accepted, FALSE, 0)),
         pending' = "none", closed' \/ ~conn',
         UNCHANGED <<callback, accepted, sock>>
  PROVE  CallbackInv'
<1>1. accepted \in 1..MaxUserRequests /\ calls \in Seq(CallRec)
  BY IInvFacts DEF OInv, IInv
<1>2. /\ Distinct(calls) /\ ReqsUpTo(calls, accepted)
      /\ NoCallIn(calls, accepted) /\ sock # "invalid"
  BY DEF OInv, CallbackInv
<1>3. /\ Distinct(calls') /\ ReqsUpTo(calls', accepted)
  <2>1. accepted \in Nat /\ accepted \in 1..accepted /\ FALSE \in BOOLEAN /\ 0 \in Nat
    BY <1>1
  <2>2. /\ Distinct(Append(calls, Call(accepted, FALSE, 0)))
        /\ ReqsUpTo(Append(calls, Call(accepted, FALSE, 0)), accepted)
    BY <1>1, <1>2, <2>1, AppendFresh
  <2>. QED BY <2>2
<1>. QED BY <1>3, <1>2 DEF CallbackInv

\* A step that keeps an operation pending for the same call and reports
\* nothing.
LEMMA PendingStep ==
  ASSUME CallbackInv, pending # "none", pending' # "none", sock' # "invalid",
         UNCHANGED <<callback, accepted, calls>>
  PROVE  CallbackInv'
BY DEF CallbackInv

\* A step that leaves the session's callback state alone.
LEMMA FrameStep ==
  ASSUME CallbackInv,
         UNCHANGED <<callback, accepted, sock, conn, closed, pending, calls>>
  PROVE  CallbackInv'
BY DEF CallbackInv, ReqsUpTo, Distinct, NoCallIn, FailedIn

\* Under EstablishReported, connect() reports nothing and leaves a valid
\* socket or none, with a resolve or a connect pending.
LEMMA ConnectValid ==
  ASSUME EstablishReported, NEW known, NEW r, Connect(known, r), sock # "invalid"
  PROVE  calls' = calls /\ sock' # "invalid" /\ pending' \in {"resolve", "connect"}
<1>1. CASE ~known
  BY <1>1 DEF Connect
<1>2. CASE known
  <2>1. "socket" \notin Faults
    BY DEF EstablishReported
  <2>2. PICK s \in {"valid"} \cup (IF "socket" \in Faults THEN {"invalid"} ELSE {}) :
          /\ sock' = s
          /\ pending' = "connect"
          /\ IF s = "invalid" THEN Fail(r) ELSE calls' = calls
    BY <1>2 DEF Connect
  <2>3. s = "valid"
    BY <2>1, <2>2
  <2>. QED BY <2>2, <2>3
<1>. QED BY <1>1, <1>2

-----------------------------------------------------------------------------
(* The steps.                                                              *)

LEMMA InitOInv == Init => OInv
<1>. SUFFICES ASSUME Init PROVE CallbackInv
  BY InitIInv DEF OInv
<1>. QED BY DEF Init, CallbackInv, ReqsUpTo, Distinct, NoCallIn, FailedIn

\* request(): refused while the slot is taken; otherwise the next call is
\* accepted with no callback yet, and connect() reports nothing.
LEMMA RequestCallback ==
  ASSUME OInv, EstablishReported, Request
  PROVE  CallbackInv'
<1>1. CASE callback
  BY <1>1, FrameStep DEF Request, OInv
<1>2. CASE ~callback
  <2>1. pending = "none" /\ accepted \in Nat /\ sock # "invalid"
        /\ ReqsUpTo(calls, accepted) /\ Distinct(calls)
    BY <1>2, IInvFacts DEF OInv, CallbackInv
  <2>2. /\ ReqsUpTo(calls, accepted + 1) /\ NoCallIn(calls, accepted + 1)
        /\ ~FailedIn(calls, accepted + 1)
    BY <2>1, ReqsGrow
  <2>3. callback' = TRUE /\ accepted' = accepted + 1
    BY <1>2 DEF Request
  <2>4. calls' = calls /\ sock' # "invalid"
    <3>1. CASE ~conn
      <4>1. Connect(addr, accepted + 1)
        BY <1>2, <3>1 DEF Request
      <4>. QED BY <2>1, <4>1, ConnectValid
    <3>2. CASE conn
      BY <1>2, <2>1, <3>2 DEF Request
    <3>. QED BY <3>1, <3>2
  <2>. QED BY <2>1, <2>2, <2>3, <2>4 DEF CallbackInv, Distinct
<1>. QED BY <1>1, <1>2

\* The resolve callback: a failure is reported before any connection
\* exists; a success calls connect(), which reports nothing.
LEMMA ResolveCallback ==
  ASSUME OInv, EstablishReported, ResolveDone
  PROVE  CallbackInv'
<1>0. pending = "resolve" /\ ~conn /\ sock # "invalid"
  BY DEF ResolveDone, OInv, IInv, CallbackInv
<1>1. CASE ResolveFailed /\ UNCHANGED <<addr, sock>>
  <2>1. calls' = Append(calls, Call(accepted, FALSE, 0)) /\ pending' = "none"
    BY <1>1 DEF ResolveFailed, Fail
  <2>2. ~conn' /\ UNCHANGED <<callback, accepted, sock>>
    BY <1>0, <1>1 DEF ResolveDone
  <2>. QED BY <1>0, <2>1, <2>2, FailStep
<1>2. CASE addr' = TRUE /\ Connect(TRUE, accepted)
  <2>1. calls' = calls /\ sock' # "invalid" /\ pending' # "none"
    BY <1>0, <1>2, ConnectValid
  <2>2. UNCHANGED <<callback, accepted>>
    BY DEF ResolveDone
  <2>. QED BY <1>0, <2>1, <2>2, PendingStep DEF OInv
<1>. QED BY <1>1, <1>2 DEF ResolveDone

\* The connect callback: under EstablishReported the connect succeeds and
\* the send is submitted.
LEMMA ConnectCallback ==
  ASSUME OInv, EstablishReported, ConnectDone
  PROVE  CallbackInv'
<1>0. pending = "connect" /\ sock # "invalid" /\ "connect" \notin Faults
  BY DEF ConnectDone, OInv, CallbackInv, EstablishReported
<1>1. PICK ok \in (IF sock = "valid" THEN {TRUE} ELSE {})
                  \cup (IF sock = "invalid" \/ "connect" \in Faults THEN {FALSE} ELSE {}) :
        /\ connected' = ok
        /\ IF ok THEN calls' = calls ELSE Fail(accepted)
  BY DEF ConnectDone
<1>2. ok = TRUE
  BY <1>0, <1>1
<1>3. calls' = calls
  BY <1>1, <1>2
<1>4. pending' = "send" /\ UNCHANGED <<callback, accepted, sock>>
  BY DEF ConnectDone
<1>. QED BY <1>0, <1>3, <1>4, PendingStep DEF OInv

\* The send callback: an error or a 0-byte send reports and closes; a
\* write keeps the send or starts the recv, reporting nothing.
LEMMA SendCallback ==
  ASSUME OInv, SendDone
  PROVE  CallbackInv'
<1>0. pending = "send" /\ UNCHANGED <<callback, accepted, sock>>
  BY DEF SendDone
<1>1. CASE ~connected \/ reset \/ fin
  <2>1. /\ calls' = Append(calls, Call(accepted, FALSE, 0))
        /\ pending' = "none" /\ closed' = TRUE
    BY <1>1 DEF SendDone, SendClosed, FailAndClose, Fail
  <2>. QED BY <1>0, <2>1, FailStep
<1>2. CASE ~(~connected \/ reset \/ fin)
  <2>1. PICK n \in 1..SendLen : SendWrote(n) /\ UNCHANGED <<calls, closed>>
    BY <1>2 DEF SendDone
  <2>2. pending' \in {"send", "recv"}
    BY <2>1 DEF SendWrote
  <2>3. sock # "invalid"
    BY DEF OInv, CallbackInv
  <2>. QED BY <1>0, <2>1, <2>2, <2>3, PendingStep DEF OInv
<1>. QED BY <1>1, <1>2

\* The recv callback: an error, end of stream or a response that does not
\* parse reports and closes; a response that parses delivers a success and
\* frees the slot, with nothing pending.
LEMMA RecvCallback ==
  ASSUME OInv, RecvDone
  PROVE  CallbackInv'
<1>0. /\ pending = "recv" /\ UNCHANGED <<accepted, sock>>
      /\ accepted \in 1..MaxUserRequests /\ calls \in Seq(CallRec)
      /\ shape \in ShapeRecords
  <2>1. pending = "recv" /\ UNCHANGED <<accepted, sock>>
    BY DEF RecvDone
  <2>2. accepted \in 1..MaxUserRequests /\ calls \in Seq(CallRec)
    BY <2>1, IInvFacts DEF OInv, IInv
  <2>3. shape \in ShapeRecords
    BY ConstantsAssumption DEF OInv, IInv, TypeOK
  <2>. QED BY <2>1, <2>2, <2>3
<1>1. ASSUME calls' = Append(calls, Call(accepted, FALSE, 0)),
             pending' = "none", closed' = TRUE, UNCHANGED callback
      PROVE  CallbackInv'
  BY <1>0, <1>1, FailStep
<1>2. CASE reset \/ respOut = 0
  <2>1. /\ calls' = Append(calls, Call(accepted, FALSE, 0))
        /\ pending' = "none" /\ closed' = TRUE /\ UNCHANGED callback
    BY <1>2 DEF RecvDone, RecvClosed, FailAndClose, Fail
  <2>. QED BY <2>1, <1>1
<1>3. CASE ~reset /\ respOut # 0
  <2>0. PICK n \in 1..Min({RecvLen, respOut}) : RecvGot(n)
    BY <1>3 DEF RecvDone
  <2>1. CASE ~ResponseParses(n) \/ (shape.cl # "none" /\ ~IsDecimal(shape.cl))
    <3>1. /\ calls' = Append(calls, Call(accepted, FALSE, 0))
          /\ pending' = "none" /\ closed' = TRUE /\ UNCHANGED callback
      BY <2>0, <2>1 DEF RecvGot, FailAndClose, Fail
    <3>. QED BY <3>1, <1>1
  <2>2. CASE ~(~ResponseParses(n) \/ (shape.cl # "none" /\ ~IsDecimal(shape.cl)))
    <3>. DEFINE b == IF shape.cl # "none" /\ n - shape.hlen >= ParseLength(shape.cl)
                     THEN ParseLength(shape.cl) ELSE n - shape.hlen
    <3>1. /\ calls' = Append(calls, Call(accepted, TRUE, b))
          /\ callback' = FALSE /\ pending' = "none"
      BY <2>0, <2>2 DEF RecvGot
    <3>2. b \in Nat
      <4>1. n \in Nat /\ n >= shape.hlen /\ (shape.cl # "none" => IsDecimal(shape.cl))
        BY <2>2 DEF ResponseParses
      <4>. QED BY <1>0, <4>1, DeliveredBodyType
    <3>3. /\ Distinct(calls) /\ ReqsUpTo(calls, accepted)
          /\ NoCallIn(calls, accepted) /\ sock # "invalid"
      BY <1>0 DEF OInv, CallbackInv
    <3>4. /\ Distinct(Append(calls, Call(accepted, TRUE, b)))
          /\ ReqsUpTo(Append(calls, Call(accepted, TRUE, b)), accepted)
          /\ ~FailedIn(Append(calls, Call(accepted, TRUE, b)), accepted)
      <4>1. accepted \in Nat /\ accepted \in 1..accepted /\ TRUE \in BOOLEAN
        BY <1>0
      <4>. QED BY <1>0, <3>2, <3>3, <4>1, AppendFresh
    <3>. QED BY <1>0, <3>1, <3>3, <3>4 DEF CallbackInv
  <2>. QED BY <2>1, <2>2
<1>. QED BY <1>2, <1>3

\* Every step of the session and of its peer, and a stutter, keeps OInv.
LEMMA NextOInv ==
  ASSUME OInv, EstablishReported, [Next]_vars
  PROVE  OInv'
<1>1. IInv'
  BY NextIInv DEF OInv
<1>2. CallbackInv'
  <2>1. CASE Request
    BY <2>1, RequestCallback
  <2>2. CASE ResolveDone
    BY <2>2, ResolveCallback
  <2>3. CASE ConnectDone
    BY <2>3, ConnectCallback
  <2>4. CASE SendDone
    BY <2>4, SendCallback
  <2>5. CASE RecvDone
    BY <2>5, RecvCallback
  <2>6. CASE (PeerRespond \/ PeerClose \/ PeerReset) /\ UNCHANGED sessionVars
    BY <2>6, FrameStep DEF OInv, sessionVars
  <2>7. CASE UNCHANGED vars
    BY <2>7, FrameStep DEF OInv, vars
  <2>. QED BY <2>1, <2>2, <2>3, <2>4, <2>5, <2>6, <2>7 DEF Next
<1>. QED BY <1>1, <1>2 DEF OInv

\* Spec 4.4, "the callback is invoked exactly once per request call": for
\* every value of the constants, no request() call has its callback run
\* twice on any path through resolve, connect, send and recv
\* (client.hpp:97-224), when socket() and connect() do not fail.
THEOREM CallbackOnceCorrect ==
  ASSUME EstablishReported
  PROVE  Spec => []CallbackAtMostOnce
<1>1. OInv => CallbackAtMostOnce
  BY DEF OInv, CallbackInv, Distinct, CallbackAtMostOnce
<1>2. OInv /\ [Next]_vars => OInv'
  BY NextOInv
<1>. QED BY <1>1, <1>2, InitOInv, PTL DEF Spec

\* Spec 4.4: an I/O error calls the callback and then closes.  For every
\* value of the constants, a session whose current call has failed and that
\* has no operation left has closed its connection (client.hpp:99-108,
\* 148-161, 179-212), when socket() and connect() do not fail.
THEOREM FailedCloseCorrect ==
  ASSUME EstablishReported
  PROVE  Spec => []FailedRequestClosesConnection
<1>1. OInv => FailedRequestClosesConnection
  BY DEF OInv, CallbackInv, FailedIn, FailedCurrent, FailedRequestClosesConnection
<1>2. OInv /\ [Next]_vars => OInv'
  BY NextOInv
<1>. QED BY <1>1, <1>2, InitOInv, PTL DEF Spec

=============================================================================
