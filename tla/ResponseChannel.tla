-------------------------- MODULE ResponseChannel --------------------------
(***************************************************************************)
(* What a Server<...>::Session promises the peer about the responses on    *)
(* one connection (server.hpp:265-348), with the send loop, the reads and  *)
(* the handler abstracted away.  The session produces responses one at a   *)
(* time; the peer receives their bytes in order, in chunks of any size,    *)
(* and a response only once the previous one is whole; once the           *)
(* connection is closed nothing more is produced or received.              *)
(*                                                                         *)
(* `out` holds the length of every response produced, in order; `got` the *)
(* bytes the peer has received, a byte being the index of its response and *)
(* its position in it.                                                     *)
(***************************************************************************)
EXTENDS Naturals, Sequences

CONSTANT Lengths   \* the lengths a response may have

VARIABLES out, got, open

chanVars == <<out, got, open>>

\* The response produced last.
Current == Len(out)

\* How many bytes of the current response the peer has received.
Delivered ==
    IF got = << >> \/ got[Len(got)].id # Current THEN 0 ELSE got[Len(got)].i

\* Every response produced has reached the peer whole.
Complete == Current = 0 \/ Delivered = out[Current]

Init ==
    /\ out = << >>
    /\ got = << >>
    /\ open = TRUE

\* respond(): a new response, only once the previous one is delivered.
Produce(len) ==
    /\ open
    /\ Complete
    /\ out' = Append(out, len)
    /\ UNCHANGED <<got, open>>

\* A send completes: the next n bytes of the current response arrive.
Deliver(n) ==
    /\ open
    /\ Current > 0
    /\ n \in 1..(out[Current] - Delivered)
    /\ got' = got \o [j \in 1..n |-> [id |-> Current, i |-> Delivered + j]]
    /\ UNCHANGED <<out, open>>

\* connection_->close().
Close ==
    /\ open
    /\ open' = FALSE
    /\ UNCHANGED <<out, got>>

Next ==
    \/ \E len \in Lengths : Produce(len)
    \/ Current > 0 /\ \E n \in 1..out[Current] : Deliver(n)
    \/ Close

Spec == Init /\ [][Next]_chanVars

=============================================================================
