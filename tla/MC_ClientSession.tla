------------------------- MODULE MC_ClientSession --------------------------
(***************************************************************************)
(* Model-checking instance of ClientSession: the responses the server     *)
(* writes and the failures the environment produces.                       *)
(***************************************************************************)
EXTENDS ClientSession

\* A two-unit header block without Content-Length and a one-byte body.
MCPlain == [hlen |-> 2, cl |-> "none", body |-> 1]
\* Content-Length 2 and a two-byte body.
MCSized == [hlen |-> 2, cl |-> "2", body |-> 2]
\* Content-Length 1 followed by two bytes more than it declares.
MCLonger == [hlen |-> 1, cl |-> "1", body |-> 2]
\* A Content-Length that parseInt rejects.
MCBadLength == [hlen |-> 1, cl |-> "bad", body |-> 0]

MCShapes == {MCPlain, MCSized, MCLonger, MCBadLength}

\* The failures every path must report once and only once.
MCReportedFaults == {"resolve_error", "resolve_empty", "reset", "close"}

\* Every failure the environment can produce.
MCAllFaults == FaultKinds

\* The failures of establishing the connection: a socket() that returns -1
\* and a connect that is refused.
MCEstablishFaults == {"socket", "connect"}

\* No failures.
MCNoFaults == {}

=============================================================================
