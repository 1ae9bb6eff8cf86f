-------------------------------- MODULE Url --------------------------------
(***************************************************************************)
(* Url::parse and removeDotSegments of src/src/http.cpp (lines 33-173).    *)
(*                                                                         *)
(* A URL is a sequence of one-character strings over Alphabet.  The        *)
(* std::string_view operations the code uses (find, rfind, substr) are     *)
(* defined with their C++ semantics on 0-based positions, npos included.   *)
(* Url::parse is straight-line code up to its call of removeDotSegments    *)
(* and is one step (UrlParse); the loop of removeDotSegments is one step   *)
(* per iteration (RemoveDotStep), and its epilogue another (RemoveDotEnd). *)
(* The result is compared with RFC 3986 section 5.2.4, written here as a   *)
(* recursive definition of its own.                                        *)
(***************************************************************************)
EXTENDS Naturals, Sequences, SequencesExt

CONSTANTS
    Alphabet,   \* the characters URLs are made of
    MaxLen      \* the longest URL parsed

\* The ASCII codes of the characters a URL may contain in the model.
Ascii ==
    [c \in {"/", ".", ":", "?", "#", ";", "*", "+", "-", "a", "z", "A", "0"} |->
        CASE c = "/" -> 47 [] c = "." -> 46 [] c = ":" -> 58 [] c = "?" -> 63
          [] c = "#" -> 35 [] c = ";" -> 59 [] c = "*" -> 42 [] c = "+" -> 43
          [] c = "-" -> 45 [] c = "a" -> 97 [] c = "z" -> 122 [] c = "A" -> 65
          [] c = "0" -> 48]

ASSUME ConstantsAssumption ==
    /\ Alphabet \subseteq DOMAIN Ascii
    /\ "/" \in Alphabet
    /\ MaxLen \in Nat

\* std::string_view::npos: larger than every position.
Npos == MaxLen + 1000

\* s.find(c, from) and s.rfind(c).
Find(s, c, from) ==
    LET P == {i \in from..(Len(s) - 1) : s[i + 1] = c}
    IN  IF P = {} THEN Npos ELSE Min(P)

RFind(s, c) ==
    LET P == {i \in 0..(Len(s) - 1) : s[i + 1] = c}
    IN  IF P = {} THEN Npos ELSE Max(P)

\* s.substr(pos, len): at most len characters from position pos.
SubStr(s, pos, len) == SubSeq(s, pos + 1, pos + Min({len, Len(s) - pos}))

\* isAlphaNum and isSchemeChar (http.cpp:83-91), on the character's code.
IsAlphaNum(ch) ==
    LET x == Ascii[ch]
    IN  (x >= 97 /\ x <= 122) \/ (x >= 48 /\ x <= 57) \/ (x >= 65 \/ x <= 90)

IsSchemeChar(ch) == IsAlphaNum(ch) \/ ch \in {"+", ".", "-"}

Slash == << "/" >>
Dot == << "/", "." >>
DotDot == << "/", ".", "." >>

\* The URLs parsed: every string over Alphabet up to MaxLen characters.
Inputs == BoundedSeq(Alphabet, MaxLen)

\* The Url record: the path and the components split off before it.
UrlRecords ==
    [path : Seq(Alphabet), query : Seq(Alphabet), params : Seq(Alphabet),
     fragment : Seq(Alphabet)]

NoUrl == [path |-> << >>, query |-> << >>, params |-> << >>, fragment |-> << >>]

VARIABLES
    raw,     \* urlStr as passed to Url::parse
    phase,   \* "parse", "dots" (the loop), "end" (after it), "done", "failed"
    url,     \* the Url being built
    rdsIn,   \* the argument of removeDotSegments
    input,   \* its local `input`
    output   \* its local `output`

vars == <<raw, phase, url, rdsIn, input, output>>

TypeOK ==
    /\ raw \in Inputs
    /\ phase \in {"parse", "dots", "end", "done", "failed"}
    /\ url \in UrlRecords
    /\ phase = "done" => Len(url.path) \in 1..MaxLen
    /\ rdsIn \in Seq(Alphabet)
    /\ input \in Seq(Alphabet)
    /\ output \in Seq(Alphabet)

Init ==
    /\ raw \in Inputs
    /\ phase = "parse"
    /\ url = NoUrl
    /\ rdsIn = << >>
    /\ input = << >>
    /\ output = << >>

-----------------------------------------------------------------------------
(* Url::parse (http.cpp:94-173) up to removeDotSegments.                   *)

\* The bytes before the colon are all scheme characters (http.cpp:125-141).
HasScheme(s) ==
    LET colon == Find(s, ":", 0)
    IN  colon # Npos /\ \A i \in 0..(colon - 1) : IsSchemeChar(s[i + 1])

\* Drop the scheme and its colon when there is one.
StripScheme(s) == IF HasScheme(s) THEN SubStr(s, Find(s, ":", 0) + 1, Npos) ELSE s

\* http.cpp:144-149: after "//", substr(2, find("/", 2)).
SkipAuthority(s) ==
    IF Len(s) >= 2 /\ SubStr(s, 0, 2) = << "/", "/" >>
    THEN SubStr(s, 2, Find(s, "/", 2))
    ELSE s

\* Split s at the first c: what precedes it, and what follows it.
Before(s, c) == IF Find(s, c, 0) = Npos THEN s ELSE SubStr(s, 0, Find(s, c, 0))
After(s, c)  == IF Find(s, c, 0) = Npos THEN << >> ELSE SubStr(s, Find(s, c, 0) + 1, Npos)

\* "*" is a URL of its own; otherwise split off the fragment, fail on an
\* empty rest, drop the scheme, skip the authority, split off query and
\* params, fail unless a path starting with "/" is left, and hand that
\* path to removeDotSegments.
UrlParse ==
    /\ phase = "parse"
    /\ IF raw = << "*" >>
       THEN /\ url' = [NoUrl EXCEPT !.path = << "*" >>]
            /\ phase' = "done"
            /\ UNCHANGED <<rdsIn, input, output>>
       ELSE LET s1 == Before(raw, "#")
                s3 == SkipAuthority(StripScheme(s1))
                s4 == Before(s3, "?")
                s5 == Before(s4, ";")
            IN  /\ url' = [NoUrl EXCEPT !.fragment = After(raw, "#"),
                                        !.query = After(s3, "?"),
                                        !.params = After(s4, ";")]
                /\ IF s1 # << >> /\ s5 # << >> /\ s5[1] = "/"
                   THEN /\ phase' = "dots"
                        /\ rdsIn' = s5
                        /\ input' = s5
                   ELSE /\ phase' = "failed"
                        /\ UNCHANGED <<rdsIn, input>>
                /\ UNCHANGED output
    /\ UNCHANGED raw

-----------------------------------------------------------------------------
(* removeDotSegments (http.cpp:34-81).                                     *)

\* Mutant: "/." appended like any other segment.
ApplySegmentKeepDot(out, seg) ==
    CASE seg = DotDot -> IF RFind(out, "/") # Npos THEN SubStr(out, 0, RFind(out, "/"))
                                                   ELSE out
      [] OTHER        -> out \o seg

\* Mutant: "/.." truncates the output after its last slash, not at it.
ApplySegmentKeepSlash(out, seg) ==
    CASE seg = Dot    -> out
      [] seg = DotDot -> IF RFind(out, "/") # Npos THEN SubStr(out, 0, RFind(out, "/") + 1)
                                                   ELSE out
      [] OTHER        -> out \o seg

\* One segment applied to the output (http.cpp:55-68): "/." is dropped,
\* "/.." truncates the output at its last slash, any other is appended.
ApplySegment(out, seg) ==
    CASE seg = Dot    -> out
      [] seg = DotDot -> IF RFind(out, "/") # Npos THEN SubStr(out, 0, RFind(out, "/"))
                                                   ELSE out
      [] OTHER        -> out \o seg

\* One iteration of the loop (http.cpp:43-76): a lone "/" is appended and
\* ends the loop; otherwise the segment up to the next slash is applied,
\* and the loop ends with the last segment or goes on after it.
RemoveDotStep ==
    /\ phase = "dots"
    /\ input # << >>
    /\ IF input = Slash
       THEN /\ output' = Append(output, "/")
            /\ phase' = "end"
            /\ UNCHANGED input
       ELSE LET segmentLength == Find(input, "/", 1)
            IN  /\ output' = ApplySegment(output, SubStr(input, 0, segmentLength))
                /\ IF segmentLength = Npos
                   THEN /\ phase' = "end"
                        /\ UNCHANGED input
                   ELSE /\ input' = SubStr(input, segmentLength, Npos)
                        /\ UNCHANGED phase
    /\ UNCHANGED <<raw, url, rdsIn>>

\* Mutant: the empty output returned as it is.
RemoveDotEndNoSlash ==
    /\ phase = "end"
    /\ url' = [url EXCEPT !.path = output]
    /\ phase' = "done"
    /\ UNCHANGED <<raw, rdsIn, input, output>>

\* After the loop (http.cpp:77-80): an empty output becomes "/", and it is
\* the URL's path.  The loop is left only by its breaks: input.substr(
\* segmentLength) still starts with the slash found, so `input` never
\* becomes empty.
RemoveDotEnd ==
    /\ phase = "end"
    /\ url' = [url EXCEPT !.path = IF output = << >> THEN Slash ELSE output]
    /\ phase' = "done"
    /\ UNCHANGED <<raw, rdsIn, input, output>>

Next == UrlParse \/ RemoveDotStep \/ RemoveDotEnd

\* The parse ends: what is left is stuttering.
Spec == Init /\ [][Next]_vars /\ WF_vars(Next)

-----------------------------------------------------------------------------
(* RFC 3986, 5.2.4, as a reference.                                        *)

\* Remove the last segment of out and its preceding "/", if any.
DropLastSegment(out) ==
    IF RFind(out, "/") = Npos THEN << >> ELSE SubStr(out, 0, RFind(out, "/"))

\* The first segment of in: an initial "/" if any and the characters up to
\* the next "/".
FirstSegment(in) ==
    LET n == Find(in, "/", IF in[1] = "/" THEN 1 ELSE 0)
    IN  SubStr(in, 0, n)

\* The loop of 5.2.4 on input buffer `in` and output buffer `out`; its
\* rules A to E are tried in order.
RECURSIVE RFCLoop(_, _)
RFCLoop(in, out) ==
    IF in = << >> THEN out
    ELSE IF IsPrefix(<< ".", ".", "/" >>, in)
         THEN RFCLoop(SubSeq(in, 4, Len(in)), out)
    ELSE IF IsPrefix(<< ".", "/" >>, in)
         THEN RFCLoop(SubSeq(in, 3, Len(in)), out)
    ELSE IF IsPrefix(<< "/", ".", "/" >>, in)
         THEN RFCLoop(Slash \o SubSeq(in, 4, Len(in)), out)
    ELSE IF in = Dot
         THEN RFCLoop(Slash, out)
    ELSE IF IsPrefix(<< "/", ".", ".", "/" >>, in)
         THEN RFCLoop(Slash \o SubSeq(in, 5, Len(in)), DropLastSegment(out))
    ELSE IF in = DotDot
         THEN RFCLoop(Slash, DropLastSegment(out))
    ELSE IF in = << "." >> \/ in = << ".", "." >>
         THEN out
    ELSE RFCLoop(SubSeq(in, Len(FirstSegment(in)) + 1, Len(in)),
                 out \o FirstSegment(in))

RFCRemoveDotSegments(path) == RFCLoop(path, << >>)

-----------------------------------------------------------------------------
(* Properties.                                                             *)

\* Path p has a segment "." or "..".
HasDotSegment(p) ==
    \E i \in 1..Len(p) :
        /\ p[i] = "/"
        /\ \/ SubSeq(p, i, Len(p)) \in {Dot, DotDot}
           \/ IsPrefix(Dot \o Slash, SubSeq(p, i, Len(p)))
           \/ IsPrefix(DotDot \o Slash, SubSeq(p, i, Len(p)))

\* Spec 8: for every URL Url::parse accepts (other than "*"), the path
\* removeDotSegments leaves starts with "/" and has no "." or ".." segment.
PathNormalised ==
    (phase = "done" /\ raw # << "*" >>)
        => url.path[1] = "/" /\ ~HasDotSegment(url.path)

\* The path ends in a "." or ".." segment.
EndsInDotSegment(p) ==
    \E k \in {2, 3} : Len(p) >= k /\ SubSeq(p, Len(p) - k + 1, Len(p)) \in {Dot, DotDot}

\* removeDotSegments computes RFC 3986 5.2.4 on every path whose last
\* segment is not a dot segment.
RemoveDotSegmentsRFC ==
    (phase = "done" /\ rdsIn # << >> /\ ~EndsInDotSegment(rdsIn))
        => url.path = RFCRemoveDotSegments(rdsIn)

\* Spec 1 and 4.1: removeDotSegments implements RFC 3986 5.2.4.
RemoveDotSegmentsMatchesRFC ==
    (phase = "done" /\ rdsIn # << >>) => url.path = RFCRemoveDotSegments(rdsIn)

\* Spec 4.1 step 3: a colon is taken as ending a scheme only when every
\* byte before it is in [A-Za-z0-9+.-], so an origin-form URL (a path
\* starting with a single "/") is accepted, colons in it included. This is
\* what the scheme detection of Url::parse (http.cpp:115-126), through
\* isSchemeChar and isAlphaNum (http.cpp:85-89), must get right.
OriginFormAccepted ==
    (raw # << >> /\ raw[1] = "/" /\ ~IsPrefix(<< "/", "/" >>, raw))
        => phase # "failed"

\* Spec 4.1 step 4 and 9: after "//" the authority is skipped up to the
\* next "/", so "//host/path" is accepted with the path of "/path". This is
\* the authority skip of Url::parse (http.cpp:144-149). The targets are
\* built from "/", "a" and "." only, so no colon brings the scheme
\* detection into play.
AbsoluteFormAccepted ==
    (IsPrefix(<< "/", "/" >>, raw) /\ Find(raw, "/", 2) # Npos
     /\ \A i \in 1..Len(raw) : raw[i] \in {"/", "a", "."})
        => phase # "failed"

=============================================================================
