---------------------------- MODULE HttpRequest ----------------------------
(***************************************************************************)
(* The HTTP/1.1 request codec of src/src/http.cpp (Request::parse) over an *)
(* abstract byte stream.                                                   *)
(*                                                                         *)
(* The bytes a peer writes are grouped into units, one per lexical piece  *)
(* the parser distinguishes:                                              *)
(*   RL    a request line "METHOD SP target SP version" (no CRLF)          *)
(*   H     a header line "name: value" (no CRLF)                           *)
(*   CRLF  a line terminator                                               *)
(*   B     one body byte (contains neither ':' nor CRLF)                   *)
(* Every unit carries the index r of the request it belongs to, so that a  *)
(* property can tell which request a byte came from.  A unit counts as one *)
(* byte against the recv lengths of the session.  A recv that cuts a line  *)
(* in two delivers the line without its CRLF, which is what the parser    *)
(* sees in that case; the unit boundaries are therefore enough.            *)
(***************************************************************************)
EXTENDS Naturals, Sequences, FiniteSetsExt

\* The header names the session looks up, as the code spells them.
HeaderNames == {"Host", "Connection", "Content-Length"}

\* The first header line loses its first two bytes (http.cpp:225-226).
MangledName(n) ==
    CASE n = "Host"           -> "st"
      [] n = "Connection"     -> "nnection"
      [] n = "Content-Length" -> "ntent-Length"

\* The names a parsed header may carry.
AllNames == HeaderNames \cup {MangledName(n) : n \in HeaderNames}

\* Versions a peer may put on its request line; only the first two parse.
Versions == {"HTTP/1.0", "HTTP/1.1", "HTTP/2.0"}

\* The decimal text of a length (the model's lengths have one digit).
DecimalText(k) == SubSeq("0123456789", k + 1, k + 1)

\* Header values: a host, the two Connection tokens, Content-Length texts
\* (decimal, or text that parseInt rejects).
HeaderValues(MaxLen) ==
    {"h", "close", "keep-alive", "bad"} \cup {DecimalText(k) : k \in 0..MaxLen}

RLUnit(r, v)      == [t |-> "RL", r |-> r, v |-> v]
HUnit(r, n, v)    == [t |-> "H", r |-> r, n |-> n, v |-> v]
CRLFUnit(r)       == [t |-> "CRLF", r |-> r]
BUnit(r, k)       == [t |-> "B", r |-> r, k |-> k]

\* The units a peer writes: requests from R, lengths up to MaxLen.
Units(R, MaxLen) ==
    [t : {"RL"}, r : R, v : Versions]
    \cup [t : {"H"}, r : R, n : HeaderNames, v : HeaderValues(MaxLen)]
    \cup [t : {"CRLF"}, r : R]
    \cup [t : {"B"}, r : R, k : 1..MaxLen]

(***************************************************************************)
(* Request::parse(requestStr), http.cpp:175-259.                           *)
(***************************************************************************)
\* requestStr.find("\r\n"): the first CRLF, 0 when there is none.
FirstCRLF(s) ==
    IF \E i \in 1..Len(s) : s[i].t = "CRLF"
    THEN Min({i \in 1..Len(s) : s[i].t = "CRLF"})
    ELSE 0

\* The request line must split into a known method, a URL that Url::parse
\* accepts and a version "HTTP/1.0" or "HTTP/1.1" (http.cpp:184-223).  An RL
\* unit has a valid method and URL; any other line has no method token.
RequestLineOK(s, e) ==
    /\ e = 2
    /\ s[1].t = "RL"
    /\ s[1].v \in {"HTTP/1.0", "HTTP/1.1"}

\* lineStart = requestLineEnd + 2; lineStart += 2 (http.cpp:225-226).  When
\* a header line follows it is entered two bytes late (its name mangled);
\* when the blank line follows, it is skipped and parsing continues behind.
HeaderStart(s, e) ==
    IF e + 1 <= Len(s) /\ s[e + 1].t = "CRLF" THEN e + 2 ELSE e + 1

\* The header loop (http.cpp:228-256) consumes "H CRLF" pairs; it stops at
\* the first position that does not hold one.
IsHeaderPair(s, p) ==
    p + 1 <= Len(s) /\ s[p].t = "H" /\ s[p + 1].t = "CRLF"

HeaderEnd(s, p0) ==
    Min({p \in {p0 + 2 * k : k \in 0..Len(s)} : ~IsHeaderPair(s, p)})

\* The loop exits normally at the end of the buffer or at an empty line; a
\* line without CRLF or without ':' makes the parse fail.
EndsLoop(s, q) == IF q > Len(s) THEN TRUE ELSE s[q].t = "CRLF"

HeaderLoopOK(s, p0) == EndsLoop(s, HeaderEnd(s, p0))

\* The headers the loop added, in order; the first is entered two bytes late
\* unless the blank line was the one skipped.
ParsedHeaders(s, e) ==
    LET p0 == HeaderStart(s, e)
        q  == HeaderEnd(s, p0)
        h(p) == IF p = e + 1
                THEN [n |-> MangledName(s[p].n), v |-> s[p].v]
                ELSE [n |-> s[p].n, v |-> s[p].v]
    IN  [j \in 1..((q - p0) \div 2) |-> h(p0 + 2 * (j - 1))]

\* HeaderMap::get(name): the value of the first matching entry, "none" when
\* there is none (spec 3, HeaderMap; not under src/).
GetHeader(hs, name) ==
    IF \E j \in DOMAIN hs : hs[j].n = name
    THEN hs[Min({j \in DOMAIN hs : hs[j].n = name})].v
    ELSE "none"

ParseOK(s) ==
    /\ FirstCRLF(s) # 0
    /\ RequestLineOK(s, FirstCRLF(s))
    /\ HeaderLoopOK(s, HeaderStart(s, FirstCRLF(s)))

\* The Request the parser returns, reduced to what the session reads from it:
\* which request line it came from, the version, the Connection and
\* Content-Length headers.  The parser never assigns req.body, so the body is
\* always empty (http.cpp:258).
Parse(s) ==
    LET e  == FirstCRLF(s)
        hs == ParsedHeaders(s, e)
    IN  [rid  |-> s[1].r,
         ver  |-> s[1].v,
         conn |-> GetHeader(hs, "Connection"),
         cl   |-> GetHeader(hs, "Content-Length"),
         body |-> << >>]

\* parseInt<uint64_t> (util.hpp is not under src/; spec 4.5): whether a
\* Content-Length text is decimal, and the number it denotes.
IsDecimal(v) == \E k \in 0..9 : DecimalText(k) = v

ParseLength(v) == CHOOSE k \in 0..9 : DecimalText(k) = v

=============================================================================
