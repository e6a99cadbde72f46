------------------------------ MODULE Rewriter ------------------------------
(***************************************************************************)
(* HttpMessageStreamRewriter, which lets its owner change an HTTP stream   *)
(* as it passes (src/utils/http_message_stream_rewriter.cc).  It is all    *)
(* offsets: http_parser looks at the buffer chunk by chunk and calls back, *)
(* the callbacks record where tokens start and end, ask the owner          *)
(* (delegate_) to look at the token or to change it, and move the offsets  *)
(* by what the buffer has grown.  A token that is cut by the end of the    *)
(* buffer is kept and put in front of the next one.                        *)
(*                                                                         *)
(* http_parser (src/third_party/http_parser/http_parser.c) has a state per *)
(* place in the grammar, what it calls there and whether it has moved past *)
(* the character when it is paused.  Messages are well-formed; a word of   *)
(* the grammar is a character or a few, and a tab is a space.  Bodies are  *)
(* of known length.  Offsets are integers: size_t may wrap in between, and *)
(* differences do not see it.                                              *)
(***************************************************************************)
EXTENDS Integers, Sequences, SequencesExt

CONSTANTS
  Cases,      \* pairs of a stream, see HeadOf, and what the owner changes, see OnToken
  MaxToken    \* NEKIT_HTTP_STREAM_REWRITER_MAX_BUFFER_SIZE

VARIABLES
  stream, owner,
  arrived,   \* how many characters of the stream have been given to RewriteBuffer
  w,         \* the rewriter and the buffer it works on, see NewRewriter
  parser,    \* http_parser, see NewParser
  out        \* what has been passed on

vars == <<stream, owner, arrived, w, parser, out>>

Take(s, n) == SubSeq(s, 1, n)
Drop(s, n) == SubSeq(s, n + 1, Len(s))

\* A message is [type, lead, first, gap, eol, headers, body, upgrade, close]: newlines in
\* front of it; the parts of its first line and the spaces between them; how its lines
\* end; headers of a name, the white space behind the colon and a value, which is
\* continued on the next line where it has a newline; the body.  Behind a request that
\* upgrades, to a tunnel with CONNECT or to another protocol, body is what the client
\* sends then.  close: nothing may follow.
Line(h, eol) == h[1] \o <<":">> \o h[2] \o h[3] \o eol
HeadOf(m) ==
  LET Spaced(k) == (IF k = 1 THEN <<>> ELSE m.gap) \o m.first[k]
      HeaderLine(h) == Line(h, m.eol)
  IN  m.lead \o FlattenSeq([k \in DOMAIN m.first |-> Spaced(k)]) \o m.eol
        \o FlattenSeq([i \in DOMAIN m.headers |-> HeaderLine(m.headers[i])]) \o m.eol
Streams == {c[1] : c \in Cases}
CharsOf == [s \in Streams |-> FlattenSeq([i \in DOMAIN s |-> HeadOf(s[i]) \o s[i].body])]
Chars   == CharsOf[stream]
Newline == {"CR", "LF"}

NewRewriter == [buf |-> <<>>, pending |-> <<>>,                \* pending_previous_buffer_
                off |-> 0,                                     \* current_buffer_offset_
                tok |-> 0, tokEnd |-> 0, next |-> 0,           \* current_token_..., next_token_offset_
                hf |-> 0, hfEnd |-> 0, hv |-> 0, hvEnd |-> 0,  \* current_header_...
                state |-> "Init", setTok |-> FALSE, stepBack |-> FALSE,
                headerDone |-> FALSE, msgDone |-> FALSE,       \* process_..._complete_
                stopped |-> FALSE, errored |-> FALSE,
                paused |-> FALSE,                              \* the parser's errno is HPE_PAUSED
                running |-> FALSE,                             \* inside RewriteBuffer
                seen |-> <<>>,                                 \* what the owner was shown
                failed |-> {}]

\* at: the place in the grammar; n: characters of this chunk that are parsed; mark:
\* where the datum of a data callback starts, None without; left: of the body.
None      == -1
\* It starts as Type says, and again behind a message.
Start     == IF stream[1].type = "Request" THEN "start req" ELSE "start res"
NewParser == [at |-> Start, n |-> 0, mark |-> None, msg |-> 1, left |-> 0]
DataPlaces == {"url", "status", "field", "value"}

Init == /\ \E c \in Cases : stream = c[1] /\ owner = c[2]
        /\ arrived = 0 /\ out = <<>> /\ w = NewRewriter /\ parser = NewParser

Check(x, name, holds) == IF holds THEN x ELSE [x EXCEPT !.failed = @ \cup {name}]

-----------------------------------------------------------------------------
(* What the owner may call. *)

\* GetStringFromBuffer, with the assertion of Buffer::GetData.
Inside(x, from, to) == 0 <= from /\ from <= to /\ to <= Len(x.buf)
Text(x, from, to)   == IF Inside(x, from, to) THEN SubSeq(x.buf, from + 1, to) ELSE <<"?">>

CurrentToken(x)  == Text(x, x.tok, x.tokEnd)
CurrentHeader(x) == <<Text(x, x.hf, x.hfEnd), Text(x, x.hv, x.hvEnd)>>

RewriteCurrentToken(x, new) ==
  LET diff == Len(new) - (x.tokEnd - x.tok)
  IN  [x EXCEPT !.buf = Take(@, x.tok) \o new \o Drop(@, x.tokEnd),
                !.tokEnd = @ + diff, !.next = @ + diff, !.off = @ + diff]

DeleteCurrentHeader(x) ==
  LET len == x.tokEnd - x.tok + 2
  IN  [x EXCEPT !.buf = Take(@, x.tok) \o Drop(@, x.tokEnd + 2),
                !.off = @ - len, !.next = @ - len]

AddHeader(x, h) ==
  LET line == Line(h, <<"CR", "LF">>)
      len  == Len(line)
  IN  [x EXCEPT !.buf = Take(@, x.tok) \o line \o Drop(@, x.tok),
                !.off = @ + len, !.tok = @ + len, !.next = @ + len]

\* The owner, as in HttpServerDataFlow: it rewrites a token (owner.part), deletes
\* the headers called owner.drop, renames those called owner.old, and then may add
\* one.  owner.again: it asks for the header again after deleting it, as the code
\* does; the two names differ in length there, so what it reads is never owner.old.
OnToken(x, kind) ==
  IF x.errored THEN x
  ELSE LET y == Check([x EXCEPT !.seen = Append(@, <<kind, CurrentToken(x)>>)],
                      "CurrentToken", Inside(x, x.tok, x.tokEnd))
       IN  IF kind = owner.refuses THEN [y EXCEPT !.errored = TRUE]
           ELSE IF kind = owner.part THEN RewriteCurrentToken(y, owner.text) ELSE y

OnHeaderPair(x) ==
  IF x.errored THEN x
  ELSE LET h == CurrentHeader(x)
           y == Check([x EXCEPT !.seen = Append(@, <<"header", h>>)],
                      "CurrentHeader", Inside(x, x.hf, x.hfEnd) /\ Inside(x, x.hv, x.hvEnd))
           z == DeleteCurrentHeader(y)
       IN  IF h[1] = owner.drop
           THEN IF owner.again
                THEN Check(z, "CurrentHeader", Inside(z, z.hf, z.hfEnd) /\ Inside(z, z.hv, z.hvEnd))
                ELSE z
           ELSE IF h[1] = owner.old
                THEN RewriteCurrentToken(y, owner.new \o <<":", "SP">> \o h[2])
                ELSE y

OnHeaderComplete(x) ==
  IF x.errored THEN x
  ELSE LET y == [x EXCEPT !.seen = Append(@, <<"end">>)]
       IN  IF owner.add = <<>> THEN y ELSE AddHeader(y, owner.add)

-----------------------------------------------------------------------------
(* The parser's callbacks.  loc is FindLocation(data). *)

Pause(x, state) == [x EXCEPT !.paused = TRUE, !.state = state]

OnMessageBegin(x, type) ==
  Check(Pause([x EXCEPT !.setTok = TRUE, !.stepBack = TRUE],
              IF type = "Request" THEN "Method" ELSE "Version"),
        "OnMessageBegin", x.state = "Init")

\* The token before is over, and the next begins at next_token_offset_, where the
\* owner's changes have moved it.
NextToken(x, len) == [x EXCEPT !.tok = x.next, !.tokEnd = x.next + len]

OnUrl(x, loc, len) ==
  IF x.state = "Url" THEN [x EXCEPT !.tokEnd = @ + len]
  ELSE Check(Pause(NextToken(OnToken([x EXCEPT !.next = loc, !.tokEnd = loc - 1], "method"), len),
                   "Url"),
             "OnUrl", x.state = "Method")

\* The status token starts with the code, four characters before the phrase.
OnStatus(x, loc, len) ==
  IF x.state = "Status" THEN [x EXCEPT !.tokEnd = @ + len]
  ELSE Check(Pause(NextToken(OnToken([x EXCEPT !.next = loc - 4, !.tokEnd = loc - 5], "version"),
                             len + 4),
                   "Status"),
             "OnStatus", x.state = "Version" /\ loc > 4)

\* Between the URL and the first header there is the version, and CR LF.  It ends
\* that far before an offset ("next" or "off") that moves with the URL.
UrlAndVersion(x, offset, before) ==
  LET y == OnToken(x, "url")
  IN  OnToken([y EXCEPT !.tok = y.tokEnd + 1, !.tokEnd = y[offset] - before], "version")

OnHeaderField(x, loc, len) ==
  LET here == [x EXCEPT !.next = loc]
      told == CASE x.state = "Url"         -> UrlAndVersion(here, "next", 2)
                [] x.state = "Status"      -> OnToken(here, "status")
                [] x.state = "HeaderValue" -> OnHeaderPair([here EXCEPT !.hvEnd = x.tokEnd])
                [] OTHER                   -> Check(here, "OnHeaderField", FALSE)
      begun == NextToken(told, len)
  IN  IF x.state = "HeaderField" THEN [x EXCEPT !.tokEnd = @ + len, !.hfEnd = @ + len]
      ELSE Pause([begun EXCEPT !.hf = begun.tok, !.hfEnd = begun.tokEnd], "HeaderField")

\* Mutant: an empty value is taken to start where the parser is.
OnHeaderValueNoStep(x, loc, len) ==
  IF x.state = "HeaderValue" THEN [x EXCEPT !.tokEnd = @ + len, !.hvEnd = @ + len]
  ELSE [x EXCEPT !.hv = loc, !.hvEnd = loc + len, !.tokEnd = loc + len, !.state = "HeaderValue"]

\* http_parser reports an empty value two characters late.
OnHeaderValue(x, loc, len) ==
  LET from == IF len = 0 THEN loc - 2 ELSE loc
  IN  IF x.state = "HeaderValue" THEN [x EXCEPT !.tokEnd = @ + len, !.hvEnd = @ + len]
      ELSE Check([x EXCEPT !.hv = from, !.hvEnd = from + len, !.tokEnd = from + len,
                           !.state = "HeaderValue"],
                 "OnHeaderValue", x.state = "HeaderField")

OnHeadersComplete(x) ==
  LET y == OnHeaderPair([x EXCEPT !.next = x.tokEnd + 2])
  IN  IF x.state = "HeaderValue"
      THEN Pause(OnHeaderComplete([y EXCEPT !.tok = y.next]), "Body")
      ELSE Check([x EXCEPT !.headerDone = TRUE, !.paused = TRUE],
                 "OnHeadersComplete", x.state \in {"Url", "Status"})

OnMessageComplete(x) ==
  Check([x EXCEPT !.state = "Init", !.setTok = TRUE, !.msgDone = TRUE, !.paused = TRUE],
        "OnMessageComplete", x.state = "Body")

-----------------------------------------------------------------------------
(* RewriteBuffer. *)

SetToken(x) == IF x.setTok
               THEN [x EXCEPT !.tok = IF x.stepBack THEN x.off - 1 ELSE x.off,
                              !.setTok = FALSE, !.stepBack = FALSE]
               ELSE x

\* The headers are complete and there were none: the parser is at the last LF.
FirstLineDone(x) ==
  LET told == IF x.state = "Url" THEN UrlAndVersion(x, "off", 3) ELSE OnToken(x, "status")
      done == OnHeaderComplete([told EXCEPT !.tok = told.off - 1])
  IN  [done EXCEPT !.tok = done.off, !.state = "Body", !.headerDone = FALSE]

\* The rest of the lambda, when http_parser_execute has returned.
Executed(x, parsed, upgrade) ==
  LET y == [x EXCEPT !.off = @ + parsed, !.paused = FALSE]
      z == SetToken([y EXCEPT !.msgDone = FALSE])
  IN  IF y.errored THEN y
      ELSE IF y.msgDone /\ upgrade # "no" THEN [SetToken(y) EXCEPT !.stopped = TRUE]
      ELSE IF z.headerDone THEN FirstLineDone(z) ELSE z

\* HttpServerDataFlow: behind CONNECT it gives the rewriter nothing more, and an
\* error is the end of the connection.  Behind another upgrade it goes on, and what
\* comes is held or passed on by an offset that was meant for another buffer.
OwnerReads == ~w.errored /\ (w.stopped => Last(stream).upgrade # "connect")

RewriteBuffer(n) ==
  /\ ~w.running /\ OwnerReads /\ arrived + n <= Len(Chars)
  /\ w' = [w EXCEPT !.buf = w.pending \o SubSeq(Chars, arrived + 1, arrived + n),
                    !.off = Len(w.pending), !.pending = <<>>, !.running = TRUE]
  /\ arrived' = arrived + n
  /\ UNCHANGED <<stream, owner, parser, out>>

\* What is left of the loop's condition when no chunk is being parsed.
LoopEnds == parser.n = 0 /\ (w.off = Len(w.buf) \/ w.errored \/ w.stopped)

\* How much is to be kept: below 0, a size_t above any maximum.
Fits == Len(w.buf) - w.tok \in 0..MaxToken

\* Mutant: the offsets stay those of the buffer that was cut off.
FinishKeepsOffsets ==
  /\ w.running /\ LoopEnds /\ ~w.errored /\ Fits
  /\ w' = LET x == [w EXCEPT !.running = FALSE, !.pending = Drop(w.buf, w.tok), !.buf = <<>>]
          IN  IF x.pending = <<>> THEN x ELSE [x EXCEPT !.tok = 0]
  /\ out' = out \o Take(w.buf, w.tok)
  /\ UNCHANGED <<stream, owner, arrived, parser>>

\* The token that is not complete is kept, and what is before it passed on.
Finish ==
  /\ w.running /\ LoopEnds /\ ~w.errored /\ Fits
  /\ w' = LET x == [w EXCEPT !.running = FALSE, !.pending = Drop(w.buf, w.tok), !.buf = <<>>]
          IN  IF x.pending = <<>> THEN x
              ELSE [x EXCEPT !.tokEnd = @ - w.tok, !.hf = @ - w.tok, !.hfEnd = @ - w.tok,
                             !.hv = @ - w.tok, !.hvEnd = @ - w.tok, !.tok = 0]
  /\ out' = out \o Take(w.buf, w.tok)
  /\ UNCHANGED <<stream, owner, arrived, parser>>

\* UserError, or BlockTooLong: the owner drops the connection.
Fail == /\ w.running /\ LoopEnds /\ (w.errored \/ ~Fits)
        /\ w' = [w EXCEPT !.running = FALSE, !.errored = TRUE]
        /\ UNCHANGED <<stream, owner, arrived, parser, out>>

-----------------------------------------------------------------------------
(* http_parser_execute on a chunk, character by character. *)

\* The characters that call nothing: from a place, on a character ("*" any other),
\* to a place.
Quiet == {<<"start req", "CR", "start req">>, <<"start req", "LF", "start req">>,
          <<"method", "SP", "before url">>, <<"method", "*", "method">>,
          <<"before url", "SP", "before url">>, <<"before url", "*", "url">>,
          <<"url", "*", "url">>,
          <<"http", "CR", "line end">>, <<"http", "LF", "field start">>, <<"http", "*", "http">>,
          <<"response", "SP", "before code">>, <<"response", "*", "response">>,
          <<"before code", "SP", "before code">>, <<"before code", "*", "code">>,
          <<"code", "SP", "before status">>, <<"code", "*", "code">>,
          <<"before status", "*", "status">>, <<"status", "*", "status">>,
          <<"line end", "LF", "field start">>,
          <<"field start", "CR", "headers almost">>, <<"field start", "*", "field">>,
          <<"field", "*", "field">>,
          <<"value start", "SP", "value start">>, <<"value start", "CR", "empty CR">>,
          <<"value start", "LF", "empty LF">>, <<"value start", "*", "value">>,
          <<"value", "*", "value">>,
          <<"value CR", "LF", "value LF">>, <<"value LF", "SP", "value">>,
          <<"empty CR", "LF", "empty LF">>, <<"empty LF", "SP", "value start">>,
          <<"dead", "CR", "dead">>, <<"dead", "LF", "dead">>}

\* The characters that end a datum or a part, and so call back.
Calls == {<<"url", "SP">>, <<"field", ":">>, <<"field start", "LF">>}
         \cup {"url", "code", "before status", "status", "value"} \X Newline

Parsing == w.running /\ (parser.n > 0 \/ ~LoopEnds) /\ w.off + parser.n < Len(w.buf)
Ch      == w.buf[w.off + parser.n + 1]
Message == stream[parser.msg]
\* The header's line is over when the next one does not go on with it.
Place   == IF parser.at = "value LF" /\ Ch # "SP" THEN "field start" ELSE parser.at
On(at, ch) == Parsing /\ parser.at = at /\ Ch = ch

Loc   == w.off + (IF parser.mark = None THEN parser.n ELSE parser.mark)
DatumLen == IF parser.mark = None THEN 0 ELSE parser.n - parser.mark

\* A callback has made x of the rewriter, n characters of the chunk are parsed, and
\* the next place is at.  When it was paused or refused, the parser returns.
Called(x, at, n) ==
  IF x.paused \/ x.errored
  THEN /\ w' = Executed(x, n, Message.upgrade)
       /\ parser' = [parser EXCEPT !.at = at, !.n = 0, !.mark = IF at \in DataPlaces THEN 0 ELSE None,
                                   !.msg = IF x.msgDone THEN @ + 1 ELSE @]
  ELSE w' = x /\ parser' = [parser EXCEPT !.at = at, !.n = n, !.mark = None]

untouched == <<stream, owner, arrived, out>>

ParseQuietly ==
  /\ Parsing /\ <<Place, Ch>> \notin Calls
  /\ \E q \in Quiet :
       /\ q[1] = Place
       /\ \/ q[2] = Ch
          \/ q[2] = "*" /\ \A o \in Quiet : o[1] = Place => o[2] # Ch
       /\ parser' = [parser EXCEPT !.at = q[3], !.n = @ + 1,
                                      !.mark = IF q[3] \in DataPlaces /\ q[3] # q[1] THEN parser.n ELSE @]
  /\ UNCHANGED <<w, untouched>>

\* A request begins at its first letter.  A response does too, but each newline in
\* front of it is taken for a beginning as well.
MessageBegins ==
  /\ Parsing
  /\ \/ parser.at = "start req" /\ Ch \notin Newline
        /\ Called(OnMessageBegin(w, "Request"), "method", parser.n + 1)
     \/ parser.at = "start res"
        /\ Called(OnMessageBegin(w, "Response"),
                  IF Ch \in Newline THEN "start res" ELSE "response", parser.n + 1)
  /\ UNCHANGED untouched

LineEnd(ch) == IF ch = "CR" THEN "line end" ELSE "field start"

\* A request may end behind the URL, and a response behind the code.
DatumEnds ==
  /\ \/ On("url", "SP")   /\ Called(OnUrl(w, Loc, DatumLen), "http", parser.n + 1)
     \/ On("field", ":")  /\ Called(OnHeaderField(w, Loc, DatumLen), "value start", parser.n + 1)
     \/ \E ch \in Newline :
          \/ On("url", ch)    /\ Called(OnUrl(w, Loc, DatumLen), LineEnd(ch), parser.n + 1)
          \/ On("status", ch) /\ Called(OnStatus(w, Loc, DatumLen), LineEnd(ch), parser.n + 1)
          \/ (On("code", ch) \/ On("before status", ch))
             /\ Called(OnStatus(w, Loc, 0), LineEnd(ch), parser.n + 1)
          \/ On("value", ch)
             /\ Called(OnHeaderValue(w, Loc, DatumLen),
                       IF ch = "CR" THEN "value CR" ELSE "value LF", parser.n + 1)
  /\ UNCHANGED untouched

\* An empty value is noticed at the first character of the next line, which is
\* looked at again.
EmptyValue ==
  /\ Parsing /\ parser.at = "empty LF" /\ Ch # "SP"
  /\ Called(OnHeaderValue(w, Loc, 0), "field start", parser.n)
  /\ UNCHANGED untouched

\* The last LF is not parsed when the headers are reported as complete.
HeadersEnd ==
  /\ Parsing /\ Place \in {"headers almost", "field start"} /\ Ch = "LF"
  /\ Called(OnHeadersComplete(w), "headers done", parser.n)
  /\ UNCHANGED untouched

BodyBegins ==
  /\ On("headers done", "LF") /\ Message.body # <<>> /\ Message.upgrade = "no"
  /\ parser' = [parser EXCEPT !.at = "body", !.n = @ + 1, !.left = Len(Message.body)]
  /\ UNCHANGED <<w, untouched>>

\* OnBody is called at the end of the body or of the chunk, whichever comes first.
Body ==
  /\ Parsing /\ parser.at = "body" /\ parser.left > 1
  /\ parser' = [parser EXCEPT !.n = @ + 1, !.left = @ - 1]
  /\ w' = [w EXCEPT !.setTok = TRUE]
  /\ UNCHANGED untouched

MessageEnds ==
  /\ \/ On("headers done", "LF") /\ (Message.body = <<>> \/ Message.upgrade # "no")
     \/ Parsing /\ parser.at = "body" /\ parser.left = 1
  /\ Called(OnMessageComplete(w), IF Message.close THEN "dead" ELSE Start, parser.n + 1)
  /\ UNCHANGED untouched

\* HPE_CLOSED_CONNECTION: a message behind one that closes.
BehindClose ==
  /\ Parsing /\ parser.at = "dead" /\ Ch \notin Newline
  /\ w' = Executed([w EXCEPT !.errored = TRUE], parser.n, "no")
  /\ parser' = [parser EXCEPT !.n = 0]
  /\ UNCHANGED untouched

\* A chunk may end anywhere; a datum that is cut is reported in part.
ChunkEnds ==
  /\ w.running /\ parser.n > 0
  /\ LET datum == CASE parser.at = "url"    -> OnUrl(w, Loc, DatumLen)
                    [] parser.at = "status" -> OnStatus(w, Loc, DatumLen)
                    [] parser.at = "field"  -> OnHeaderField(w, Loc, DatumLen)
                    [] parser.at = "value"  -> OnHeaderValue(w, Loc, DatumLen)
                    [] OTHER                -> w
     IN  w' = Executed(datum, parser.n, "no")
  /\ parser' = [parser EXCEPT !.n = 0, !.mark = IF parser.at \in DataPlaces THEN 0 ELSE None]
  /\ UNCHANGED untouched

Parse == ParseQuietly \/ MessageBegins \/ DatumEnds \/ EmptyValue \/ HeadersEnd
           \/ BodyBegins \/ Body \/ MessageEnds \/ BehindClose \/ ChunkEnds

\* The connection is over, or broke.
Over == /\ ~w.running /\ (~OwnerReads \/ arrived = Len(Chars))
        /\ UNCHANGED vars

Next == (\E n \in 1..Len(Chars) : RewriteBuffer(n)) \/ Parse \/ Finish \/ Fail \/ Over

Spec == Init /\ [][Next]_vars

-----------------------------------------------------------------------------
(* What the owner asked for. *)

Parts(m) == IF m.type = "Request" THEN <<"method", "url", "version">> ELSE <<"version", "status">>

Edited(m, o) ==
  LET Kept(h) == h[1] # o.drop
      Renamed(h) == IF h[1] = o.old THEN <<o.new, <<"SP">>, h[3]>> ELSE h
      kept == SelectSeq(m.headers, Kept)
  IN  [m EXCEPT !.first = [k \in DOMAIN @ |-> IF Parts(m)[k] = o.part THEN o.text ELSE @[k]],
                !.headers = [k \in DOMAIN kept |-> Renamed(kept[k])]
                              \o (IF o.add = <<>> THEN <<>> ELSE <<o.add>>)]

\* The stream up to what is sent in another protocol, and that.
WantedOf == [c \in Cases |->
  FlattenSeq([i \in DOMAIN c[1] |->
    HeadOf(Edited(c[1][i], c[2])) \o IF c[1][i].upgrade = "no" THEN c[1][i].body ELSE <<>>])]
Wanted   == WantedOf[<<stream, owner>>]
Behind   == IF Last(stream).upgrade = "no" THEN <<>> ELSE Last(stream).body

Shown(m) == [k \in DOMAIN m.first |-> <<Parts(m)[k], m.first[k]>>]
              \o [k \in DOMAIN m.headers |-> <<"header", <<m.headers[k][1], m.headers[k][3]>>>>]
              \o <<(<<"end">>)>>
ShownOf  == [s \in Streams |-> FlattenSeq([i \in DOMAIN s |-> Shown(s[i])])]

\* Laid out as the callbacks expect: they find the end of a token one character in
\* front of the next, lines end with CR LF, a value is in one piece, and the status
\* code has a space behind it.
Regular(m) ==
  /\ m.gap = <<"SP">> /\ m.eol = <<"CR", "LF">> /\ Len(m.first) = Len(Parts(m))
  /\ \A i \in DOMAIN m.headers : Range(m.headers[i][3]) \cap Newline = {}
  /\ m.type = "Response" => Len(m.first[2]) > 3
AsExpected == \A i \in DOMAIN stream : Regular(stream[i])

Changes(o) == o.part # "none" \/ o.drop # <<>> \/ o.old # <<>> \/ o.add # <<>>

-----------------------------------------------------------------------------
(* Properties. *)

TypeOK == /\ arrived \in 0..Len(Chars) /\ parser.n \in 0..Len(w.buf)
          /\ w.state \in {"Init", "Method", "Url", "Version", "Status", "HeaderField",
                          "HeaderValue", "Body"}

\* However the stream is cut into buffers and chunks, and whatever was changed
\* before, the owner is shown every token and every header of messages that are laid
\* out as expected as it was sent, in order.  However they are laid out, every read of the buffer is
\* inside it, but the one for the version where there is none; and no assertion on the
\* state fails, but the one of OnMessageBegin at a newline in front of a response.
TokensAsSent ==
  /\ TypeOK
  /\ AsExpected => LET all == ShownOf[stream]
                   IN  Len(w.seen) <= Len(all) /\ \A i \in DOMAIN w.seen : w.seen[i] = all[i]
  /\ w.failed \subseteq
       (IF \A i \in DOMAIN stream : Len(stream[i].first) = Len(Parts(stream[i]))
        THEN {} ELSE {"CurrentToken"})
         \cup (IF \E i \in DOMAIN stream : stream[i].type = "Response" /\ stream[i].lead # <<>>
               THEN {"OnMessageBegin"} ELSE {})

\* What is passed on is the stream with the owner's changes and nothing else; when the
\* owner changes nothing, however the messages are laid out.  When everything has
\* arrived, everything has been passed on.  What comes behind an upgrade is kept, and
\* when more of it comes some may be passed on and the rest kept, but none is lost.
StreamAsWanted ==
  AsExpected \/ ~Changes(owner) =>
    /\ IsPrefix(out, Wanted \o Behind)
    /\ ~w.running /\ ~w.errored /\ (arrived = Len(Chars) \/ w.stopped) =>
         /\ out \o w.pending = Wanted \o Take(Behind, Len(Behind) - (Len(Chars) - arrived))
         /\ Last(stream).upgrade # "other" => out = Wanted

\* Buffer::GetData asserts `skip + len <= size()` (buffer.cc:329).  It does not hold
\* of an owner that asks for a header it has deleted.
HeaderIsInBuffer == "CurrentHeader" \notin w.failed
=============================================================================
