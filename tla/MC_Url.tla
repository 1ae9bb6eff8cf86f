------------------------------ MODULE MC_Url --------------------------------
(***************************************************************************)
(* Model-checking instances of Url.                                        *)
(***************************************************************************)
EXTENDS Url

\* Paths: slashes, dots and one letter.
MCPathChars == {"/", ".", "a"}

\* URLs: the delimiters Url::parse looks for, too.
MCUrlChars == {"/", ".", "a", ":", "?", "#", ";", "*"}

\* The reference reproduces the remove-dot-segments scenarios of spec 8.
ASSUME RFCScenarios ==
    /\ RFCRemoveDotSegments(<< "/", "a", "/", "b", "/", "c", "/", ".", "/", ".", ".", "/", ".", ".", "/", "g" >>)
           = << "/", "a", "/", "g" >>
    /\ RFCRemoveDotSegments(<< "/", "m", "i", "d", "/", "c", "o", "n", "t", "e", "n", "t", "=", "5", "/", ".", ".", "/", "6" >>)
           = << "/", "m", "i", "d", "/", "6" >>
    /\ RFCRemoveDotSegments(<< "/" >>)
           = << "/" >>
    /\ RFCRemoveDotSegments(<< "/", ".", "/" >>)
           = << "/" >>
    /\ RFCRemoveDotSegments(<< "/", ".", ".", "/" >>)
           = << "/" >>
    /\ RFCRemoveDotSegments(<< "/", "a", "/" >>)
           = << "/", "a", "/" >>

=============================================================================
