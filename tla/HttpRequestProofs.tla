------------------------- MODULE HttpRequestProofs --------------------------
(***************************************************************************)
(* Facts about the request codec of HttpRequest: what Request::parse       *)
(* returns for any buffer of units, whatever the buffer holds.             *)
(***************************************************************************)
EXTENDS HttpRequest, SequenceTheorems, WellFoundedInduction, TLAPS

\* The less-than relation on Nat as a set of pairs.
NatLess == OpToRel(<, Nat)

\* Every non-empty set of naturals has a least element, and Min returns it:
\* the searches of Request::parse (find, the header loop, HeaderMap::get)
\* all return the first match.
LEMMA MinNat ==
  ASSUME NEW S \in SUBSET Nat, S # {}
  PROVE  Min(S) \in S /\ \A y \in S : Min(S) <= y
<1>1. \E x \in S : \A y \in S : ~(<<y, x>> \in NatLess)
  BY NatLessThanWellFounded, WFMin DEF NatLess
<1>2. \A x, y \in Nat : y < x => <<y, x>> \in NatLess
  <2>. SUFFICES ASSUME NEW x \in Nat, NEW y \in Nat, y < x
               PROVE  <<y, x>> \in NatLess
    OBVIOUS
  <2>1. <<y, x>> \in Nat \X Nat /\ <<y, x>>[1] < <<y, x>>[2]
    OBVIOUS
  <2>. QED BY <2>1, Zenon DEF NatLess, OpToRel
<1>3. \E x \in S : \A y \in S : x <= y
  <2>1. PICK x \in S : \A y \in S : ~(<<y, x>> \in NatLess)
    BY <1>1
  <2>2. \A y \in S : ~(y < x)
    BY <2>1, <1>2
  <2>. QED BY <2>2
<1>. QED BY <1>3 DEF Min

\* A header-line unit carries a header name and a header value.
LEMMA HeaderUnitFields ==
  ASSUME NEW R, NEW M, NEW u \in Units(R, M), u.t = "H"
  PROVE  u.n \in HeaderNames /\ u.v \in HeaderValues(M)
BY DEF Units

\* A request-line unit carries its request index and a version.
LEMMA RequestLineUnitFields ==
  ASSUME NEW R, NEW M, NEW u \in Units(R, M), u.t = "RL"
  PROVE  u.r \in R /\ u.v \in Versions
BY DEF Units

\* requestStr.find("\r\n") returns 0 (npos) or a position in the buffer.
LEMMA FirstCRLFRange ==
  ASSUME NEW S, NEW s \in Seq(S)
  PROVE  FirstCRLF(s) \in 0..Len(s)
<1>. DEFINE C == {i \in 1..Len(s) : s[i].t = "CRLF"}
<1>1. CASE \E i \in 1..Len(s) : s[i].t = "CRLF"
  <2>1. C \in SUBSET Nat /\ C # {}
    BY <1>1
  <2>2. Min(C) \in C
    BY <2>1, MinNat
  <2>. QED BY <1>1, <2>2 DEF FirstCRLF
<1>2. CASE ~\E i \in 1..Len(s) : s[i].t = "CRLF"
  BY <1>2 DEF FirstCRLF
<1>. QED BY <1>1, <1>2

\* The header loop stops after k whole header lines, k at most the buffer
\* length, and every line it passed over was a header line with its CRLF.
LEMMA HeaderEndFacts ==
  ASSUME NEW S, NEW s \in Seq(S), NEW p0 \in Nat \ {0}
  PROVE  \E k \in 0..Len(s) :
            /\ HeaderEnd(s, p0) = p0 + 2 * k
            /\ \A i \in 0..(k - 1) : IsHeaderPair(s, p0 + 2 * i)
<1>. DEFINE P == {p0 + 2 * k : k \in 0..Len(s)}
            T == {p \in P : ~IsHeaderPair(s, p)}
<1>1. T \in SUBSET Nat
  OBVIOUS
<1>2. p0 + 2 * Len(s) \in T
  BY DEF IsHeaderPair
<1>3. HeaderEnd(s, p0) \in T /\ \A y \in T : HeaderEnd(s, p0) <= y
  BY <1>1, <1>2, MinNat DEF HeaderEnd
<1>4. PICK k \in 0..Len(s) : HeaderEnd(s, p0) = p0 + 2 * k
  BY <1>3
<1>5. \A i \in 0..(k - 1) : IsHeaderPair(s, p0 + 2 * i)
  <2>. SUFFICES ASSUME NEW i \in 0..(k - 1), ~IsHeaderPair(s, p0 + 2 * i)
               PROVE  FALSE
    OBVIOUS
  <2>1. p0 + 2 * i \in T
    OBVIOUS
  <2>2. HeaderEnd(s, p0) <= p0 + 2 * i
    BY <2>1, <1>3
  <2>. QED BY <2>2, <1>4
<1>. QED BY <1>4, <1>5

\* The name of a header line, entered two bytes late or not, is a name a
\* parsed header may carry.
LEMMA MangledNameType ==
  ASSUME NEW n \in HeaderNames
  PROVE  MangledName(n) \in AllNames /\ n \in AllNames
BY DEF MangledName, AllNames, HeaderNames

\* The headers the loop adds are names and values taken from header lines.
LEMMA ParsedHeadersType ==
  ASSUME NEW R, NEW M, NEW s \in Seq(Units(R, M)), NEW e \in Nat
  PROVE  ParsedHeaders(s, e) \in Seq([n : AllNames, v : HeaderValues(M)])
<1>. DEFINE p0 == HeaderStart(s, e)
            q  == HeaderEnd(s, p0)
            Hdr == [n : AllNames, v : HeaderValues(M)]
            h(p) == IF p = e + 1
                    THEN [n |-> MangledName(s[p].n), v |-> s[p].v]
                    ELSE [n |-> s[p].n, v |-> s[p].v]
<1>1. p0 \in Nat \ {0}
  BY DEF HeaderStart
<1>2. PICK k \in 0..Len(s) :
         /\ q = p0 + 2 * k
         /\ \A i \in 0..(k - 1) : IsHeaderPair(s, p0 + 2 * i)
  BY <1>1, HeaderEndFacts
<1>3. (q - p0) \div 2 = k
  BY <1>1, <1>2
<1>4. ASSUME NEW j \in 1..k
      PROVE  h(p0 + 2 * (j - 1)) \in Hdr
  <2>. DEFINE p == p0 + 2 * (j - 1)
  <2>0. IsHeaderPair(s, p)
    <3>1. j - 1 \in 0..(k - 1)
      OBVIOUS
    <3>. QED BY <3>1, <1>2
  <2>1. p \in 1..Len(s) /\ s[p].t = "H"
    BY <1>1, <2>0 DEF IsHeaderPair
  <2>2. s[p] \in Units(R, M)
    BY <2>1, ElementOfSeq
  <2>3. s[p].n \in HeaderNames /\ s[p].v \in HeaderValues(M)
    BY <2>1, <2>2, HeaderUnitFields
  <2>4. MangledName(s[p].n) \in AllNames /\ s[p].n \in AllNames
    BY <2>3, MangledNameType
  <2>. QED BY <2>3, <2>4
<1>5. ParsedHeaders(s, e) = [j \in 1..k |-> h(p0 + 2 * (j - 1))]
  BY <1>3 DEF ParsedHeaders
<1>. QED BY <1>4, <1>5

\* HeaderMap::get returns the value of an entry, or "none".
LEMMA GetHeaderType ==
  ASSUME NEW N, NEW V, NEW hs \in Seq([n : N, v : V]), NEW name
  PROVE  GetHeader(hs, name) \in V \cup {"none"}
<1>. DEFINE J == {j \in DOMAIN hs : hs[j].n = name}
<1>1. CASE \E j \in DOMAIN hs : hs[j].n = name
  <2>1. J \in SUBSET Nat /\ J # {}
    BY <1>1
  <2>2. Min(J) \in DOMAIN hs
    BY <2>1, MinNat
  <2>3. hs[Min(J)] \in [n : N, v : V]
    BY <2>2, LenProperties, ElementOfSeq
  <2>4. hs[Min(J)].v \in V
    BY <2>3
  <2>. QED BY <1>1, <2>4 DEF GetHeader
<1>2. CASE ~\E j \in DOMAIN hs : hs[j].n = name
  BY <1>2 DEF GetHeader
<1>. QED BY <1>1, <1>2

\* A buffer that parses yields a request line's index and version and
\* header values, and no body.
LEMMA ParseType ==
  ASSUME NEW R, NEW M, NEW s \in Seq(Units(R, M)), ParseOK(s)
  PROVE  Parse(s) \in [rid : R, ver : Versions,
                       conn : HeaderValues(M) \cup {"none"},
                       cl : HeaderValues(M) \cup {"none"},
                       body : {<< >>}]
<1>. DEFINE Hdr == [n : AllNames, v : HeaderValues(M)]
            hs == ParsedHeaders(s, FirstCRLF(s))
<1>1. FirstCRLF(s) = 2 /\ s[1].t = "RL"
  BY DEF ParseOK, RequestLineOK
<1>2. 1 \in 1..Len(s)
  BY <1>1, FirstCRLFRange
<1>3. s[1].r \in R /\ s[1].v \in Versions
  BY <1>1, <1>2, ElementOfSeq, RequestLineUnitFields
<1>4. hs \in Seq(Hdr)
  BY <1>1, ParsedHeadersType
<1>5. /\ GetHeader(hs, "Connection") \in HeaderValues(M) \cup {"none"}
      /\ GetHeader(hs, "Content-Length") \in HeaderValues(M) \cup {"none"}
  BY <1>4, GetHeaderType
<1>. QED BY <1>3, <1>5 DEF Parse

\* parseInt of a decimal text returns the digit it spells.
LEMMA ParseLengthType ==
  ASSUME NEW v, IsDecimal(v)
  PROVE  ParseLength(v) \in 0..9
BY DEF IsDecimal, ParseLength

=============================================================================
