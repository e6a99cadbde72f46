----------------------------- MODULE MCRewriter -----------------------------
EXTENDS Rewriter

CRLF  == <<"CR", "LF">>
Space == <<"SP">>
Request(headers, body, upgrade) ==
  [type |-> "Request", lead |-> <<>>, first |-> <<(<<"G">>), <<"u", "u">>, <<"1">> >>,
   gap |-> Space, eol |-> CRLF, headers |-> headers, body |-> body, upgrade |-> upgrade,
   close |-> FALSE]
Response(status, headers, body) ==
  [type |-> "Response", lead |-> <<>>,
   first |-> <<(<<"1", "1">>), <<"2", "0", "0">> \o status>>,
   gap |-> Space, eol |-> CRLF, headers |-> headers, body |-> body, upgrade |-> "no",
   close |-> FALSE]

Auth  == <<(<<"p", "a">>), Space, <<"s">> >>
Conn  == <<(<<"p", "c">>), Space, <<"k">> >>
Empty == <<(<<"e">>), <<>>, <<>> >>
Below == <<(<<"p", "c">>), CRLF \o Space, <<"k">> >>

\* Requests with what HttpServerDataFlow deletes and renames, an empty header last
\* and not last, a value below its name, two requests on one connection with newlines
\* between or after one that closes, CONNECT and another upgrade with payload behind
\* them; responses with and without a phrase, and behind newlines.
AsExpectedStreams == {
  <<Request(<<Auth, Conn>>, <<>>, "no")>>,
  <<Request(<<Conn, Empty>>, <<"b", "b">>, "no")>>,
  <<Request(<<Empty, Auth>>, <<>>, "no")>>,
  <<Request(<<Below>>, <<>>, "no")>>,
  <<Request(<<>>, <<"b">>, "no"), [Request(<<Conn>>, <<>>, "no") EXCEPT !.lead = CRLF]>>,
  <<[Request(<<>>, <<>>, "no") EXCEPT !.close = TRUE],
    [Request(<<>>, <<>>, "no") EXCEPT !.lead = <<"LF">>]>>,
  <<[Request(<<Auth>>, <<"x", "y">>, "connect") EXCEPT !.lead = CRLF]>>,
  <<Request(<<>>, <<"x", "y", "z", "x", "y", "z", "x", "y", "z">>, "other")>>,
  <<Response(<<"SP", "O">>, <<>>, <<"b">>)>>,
  <<[Response(<<"SP">>, <<Conn>>, <<>>) EXCEPT !.lead = <<"LF">>]>> }

\* Spaces and lines as other programs write them: more spaces, lines ended by LF, a
\* value on two lines, no version, no space behind the code.
Folded  == <<(<<"e">>), <<>>, <<"v", "CR", "LF", "SP", "w">> >>
Version == <<"1", ".", "1">>
OtherStreams == {
  <<[Request(<<Conn>>, <<>>, "no") EXCEPT !.gap = <<"SP", "SP">>]>>,
  <<[Request(<<Conn, Empty>>, <<"b">>, "no") EXCEPT !.eol = <<"LF">>, !.first[3] = Version]>>,
  <<[Request(<<>>, <<"b">>, "no") EXCEPT !.eol = <<"LF">>, !.first[3] = Version]>>,
  <<Request(<<Folded, Conn>>, <<>>, "no")>>,
  <<[Request(<<Conn>>, <<>>, "no") EXCEPT !.first = <<(<<"G">>), <<"u">> >>, !.close = TRUE]>>,
  <<[Response(<<>>, <<Conn>>, <<"b">>) EXCEPT !.eol = <<"LF">>]>>,
  <<[Response(<<"SP", "O">>, <<>>, <<>>) EXCEPT !.eol = <<"LF">>]>>,
  <<[Response(<<>>, <<Folded>>, <<>>) EXCEPT !.lead = CRLF]>> }

Owner(part, text, add) ==
  [part |-> part, text |-> text, drop |-> <<"p", "a">>, old |-> <<"p", "c">>, new |-> <<"c">>,
   add |-> add, again |-> FALSE, refuses |-> "none"]

MCOwners == { Owner("url", <<"/">>, <<>>), Owner("url", <<"/", "l", "o">>, <<>>),
              Owner("version", <<"1", "0">>, <<(<<"a">>), Space, <<"y">> >>),
              [Owner("method", <<"P", "T">>, <<>>) EXCEPT !.refuses = "version"] }
OnlyLooks == [Owner("none", <<>>, <<>>) EXCEPT !.drop = <<>>, !.old = <<>>]

MCCases == (AsExpectedStreams \X MCOwners) \cup (OtherStreams \X {OnlyLooks})

\* HttpServerDataFlow::OnHeaderPair (http_server_data_flow.cc:424), which leaves the
\* headers of CONNECT alone.
PlainStreams == {s \in AsExpectedStreams : \A i \in DOMAIN s : s[i].upgrade # "connect"}
ServerCases  == PlainStreams \X { [Owner("url", <<"/">>, <<>>) EXCEPT !.again = TRUE] }
=============================================================================
