------------------------- MODULE MC_ServerSession --------------------------
(***************************************************************************)
(* Model-checking instance of ServerSession: the request shapes the peer   *)
(* writes.  Each exercises one branch of the header callback.              *)
(***************************************************************************)
EXTENDS ServerSession

Hdr(n, v) == [n |-> n, v |-> v]

\* GET, HTTP/1.1, no body: kept alive by the version.
MCGet == [v |-> "HTTP/1.1", hdrs |-> << Hdr("Host", "h") >>, body |-> 0]
\* POST with a two-byte body announced by the second header.
MCPost == [v |-> "HTTP/1.1",
           hdrs |-> << Hdr("Host", "h"), Hdr("Content-Length", "2") >>,
           body |-> 2]
\* HTTP/1.0 asking for keep-alive in its second header.
MCKeepAlive10 == [v |-> "HTTP/1.0",
                  hdrs |-> << Hdr("Host", "h"), Hdr("Connection", "keep-alive") >>,
                  body |-> 0]
\* A body larger than maxRequestBodySize.
MCTooLarge == [v |-> "HTTP/1.1",
               hdrs |-> << Hdr("Host", "h"), Hdr("Content-Length", "3") >>,
               body |-> 0]
\* An unparseable Content-Length.
MCBadLength == [v |-> "HTTP/1.1",
                hdrs |-> << Hdr("Host", "h"), Hdr("Content-Length", "bad") >>,
                body |-> 0]
\* HTTP/1.0 with an empty body announced: Content-Length 0, not kept alive.
MCEmpty10 == [v |-> "HTTP/1.0",
              hdrs |-> << Hdr("Host", "h"), Hdr("Content-Length", "0") >>,
              body |-> 0]
\* A version the parser rejects.
MCBadVersion == [v |-> "HTTP/2.0", hdrs |-> << >>, body |-> 0]

MCShapes == {MCGet, MCPost, MCKeepAlive10, MCTooLarge, MCBadLength,
             MCEmpty10, MCBadVersion}

\* HTTP/1.1 asking to close in its first header.
MCCloseFirst == [v |-> "HTTP/1.1",
                 hdrs |-> << Hdr("Connection", "close"), Hdr("Host", "h") >>,
                 body |-> 0]
\* HTTP/1.1 asking to close in its second header.
MCCloseSecond == [v |-> "HTTP/1.1",
                  hdrs |-> << Hdr("Host", "h"), Hdr("Connection", "close") >>,
                  body |-> 0]

\* The two ways of asking for close.
MCCloseShapes == {MCCloseFirst, MCCloseSecond}

\* A request with a body, and one without.
MCBodyShapes == {MCPost, MCGet}

=============================================================================
