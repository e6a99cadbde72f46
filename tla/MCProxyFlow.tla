---------------------------- MODULE MCProxyFlow -----------------------------
(* Responses to CONNECT that accept, refuse, close or are malformed, one      *)
(* behind a newline; SOCKS5 replies with the three types of address, and with *)
(* each field wrong; a target that waits, one that speaks at once, that sends *)
(* newlines, or something that looks like a response or its beginning.        *)
EXTENDS ProxyFlow

Http == {<<"200", "field", "end">>, <<"200", "close", "end">>, <<"nl", "200", "end">>,
         <<"403", "field", "end">>, <<"200", "x", "end">>}

Method == <<5, 0>>
Socks5 == {Method \o <<5, 0, 0, 1>> \o <<10, 0, 0, 1>> \o <<0, 80>>,
           Method \o <<5, 0, 0, 3>> \o <<2, 97, 98>> \o <<0, 80>>,
           Method \o <<5, 0, 0, 3>> \o <<0>> \o <<0, 80>>,
           Method \o <<5, 0, 0, 4>> \o [i \in 1..16 |-> 1] \o <<0, 80>>,
           <<4, 0>>, <<5, 255>>,
           Method \o <<4, 0, 0, 1>> \o <<10, 0, 0, 1>> \o <<0, 80>>,
           Method \o <<5, 1, 0, 1>> \o <<10, 0, 0, 1>> \o <<0, 80>>,
           Method \o <<5, 0, 7, 1>> \o <<10, 0, 0, 1>> \o <<0, 80>>,
           Method \o <<5, 0, 0, 2>> \o <<10, 0, 0, 1>> \o <<0, 80>>}

Said == [http |-> {<<>>, <<"x", "nl">>, <<"nl", "x">>, <<"nl", "nl">>, <<"end">>,
                   <<"http", "x">>, <<"403", "end", "x">>, <<"200", "field", "nl">>},
         socks5 |-> {<<>>, <<1, 2>>}]

\* Words over two letters.  A reader hands over what ends with the first occurrence
\* of the pattern and keeps the rest, when the pattern is in what it has.
Words(n) == UNION {[1..k -> {"a", "b"}] : k \in 1..n}

FirstOccurrence(r, text, pattern) ==
  LET i == FindFrom(text, pattern, 0)
      n == i - 1 + Len(pattern)
  IN  IF i = 0 THEN ~Satisfied(r) /\ r.buf = text
      ELSE r.out = SubSeq(text, 1, n) /\ r.buf = SubSeq(text, n + 1, Len(text))

ASSUME PatternFoundAtOnce ==
  \A text \in Words(5), pattern \in Words(3) :
    FirstOccurrence(ReadToPattern([NewReader EXCEPT !.buf = text], pattern).reader, text, pattern)

\* When it is not, every way to receive it in two reads: the position kept misses no
\* occurrence, so that one of the places where the search may stop is the right one.
ASSUME PatternMayBeFoundLater ==
  \A text \in Words(5), pattern \in Words(3) : \A k \in 0..Len(text) :
    LET one == ReadToPattern([NewReader EXCEPT !.buf = SubSeq(text, 1, k)], pattern)
    IN  ~Satisfied(one.reader) =>
          \E two \in ArrivedForPattern(one.reader, SubSeq(text, k + 1, Len(text)),
                                       pattern, one.pos) :
            FirstOccurrence(two.reader, text, pattern)
=============================================================================
