------------------------------ MODULE ProxyFlow ------------------------------
(***************************************************************************)
(* Connecting through another proxy: HttpDataFlow and Socks5DataFlow       *)
(* (src/data_flow/http_data_flow.cc, socks5_data_flow.cc), each over a     *)
(* TcpSocket, the latter through a StreamReader.  The proxy is free to     *)
(* split what it sends anywhere, to send it early, to close or to reset;   *)
(* what the target says comes right behind its reply, and may look like    *)
(* another reply.                                                          *)
(*                                                                         *)
(* A failed BOOST_ASSERT is recorded and the run goes on.                  *)
(***************************************************************************)
EXTENDS TcpSocket, StreamReader

CONSTANTS
  HttpReplies,    \* responses to CONNECT: sequences of the tokens below
  Socks5Replies,  \* both replies of a SOCKS5 server, as bytes
  Payloads        \* what the target says first, of either kind

(* What an HTTP proxy and the target behind it send is a sequence of       *)
(* tokens: "200" or "403" (a status line), "field" (of a header), "close"  *)
(* (the field that ends a connection), "end" (CR LF), "nl" (LF alone),     *)
(* "http" (the five bytes that begin a status line, and no more of it) and *)
(* "x" (what a response has nowhere).                                      *)
Byte  == 0..255
Lines == {"200", "403"}
Newlines == {"nl", "end"}
Token == Lines \cup Newlines \cup {"field", "close", "http", "x"}

ASSUME HttpAssumption ==
  HttpReplies \subseteq Seq(Token) /\ Payloads["http"] \subseteq Seq(Token)

ASSUME Socks5Assumption ==
  Socks5Replies \subseteq Seq(Byte) /\ Payloads["socks5"] \subseteq Seq(Byte)

VARIABLES
  kind,      \* "http" or "socks5"
  step,      \* what the flow waits for
  fsm,       \* state_machine_
  sock,      \* data_flow_, the TcpSocket below
  reader,    \* stream_reader_
  answer,    \* the handler given to Connect: "none", "due", "ok", "error"
  canceled,  \* connect_cancelable_ was cancelled by whoever connects
  alive,     \* the flow is not destroyed
  sent,      \* what the proxy sends: its replies, then the payload
  taken,     \* how much of it has been read from the socket
  got,       \* what reads by the tunnel have returned
  fin, reset,\* the proxy has closed, or reset, the connection
  failed     \* the assertions that have failed

peerVars == <<fin, reset>>
vars == <<kind, step, fsm, sock, reader, answer, canceled, alive, sent, taken,
          got, peerVars, failed>>

Steps == {"new", "connecting", "greeting", "response", "method", "requesting",
          "head", "tail", "ended"}

Init == /\ kind \in {"http", "socks5"}
        /\ \E r \in (IF kind = "http" THEN HttpReplies ELSE Socks5Replies),
              p \in Payloads[kind] : sent = r \o p
        /\ step = "new" /\ fsm = NewFlow("Remote") /\ sock = NewSocket("Remote")
        /\ reader = NewReader /\ answer = "none"
        /\ canceled = FALSE /\ alive = TRUE
        /\ taken = 0 /\ got = <<>>
        /\ fin = FALSE /\ reset = FALSE /\ failed = {}

Waiting(op) == sock.cb[op] = "waiting"
Assert(failures) == failed' = failed \cup failures

-----------------------------------------------------------------------------
(* The replies. *)

\* Where http_parser is behind the first i tokens: in a header; behind a response
\* that closes the connection; else where a response may begin.
InHeader(i) == \E j \in 1..i : sent[j] \in Lines /\ \A k \in j + 1..i : sent[k] \notin Newlines
Dead(i) == ~InHeader(i) /\ \E j \in 1..i : sent[j] = "close"

\* What it takes there: a newline is passed over where a response may begin.
Fits(i) ==
  CASE InHeader(i - 1) -> sent[i] \in {"field", "close"} \cup Newlines
    [] Dead(i - 1)     -> sent[i] \in Newlines
    [] OTHER           -> sent[i] \in Lines \cup Newlines \cup {"http"}
                          /\ (i > 1 => sent[i - 1] # "http")
Refused(n) == \E i \in 1..n : ~Fits(i)

\* A body is skipped: a response ends with its header, and the next may begin.
Ends(i) == InHeader(i - 1) /\ sent[i] \in Newlines
Complete(n) == \E i \in 1..n : Ends(i)

\* success_response_ is set by every status line, once something follows it.
Success(n) == \E j \in 1..n - 1 : sent[j] = "200" /\ \A k \in j + 1..n - 1 : sent[k] \notin Lines

\* A newline where a response may begin is the beginning of one to the rewriter
\* (an empty line is two), and the next newline, or the response, another.
BeginsAgain(i) ==
  /\ ~InHeader(i - 1) /\ ~Dead(i - 1) /\ ~Refused(i)
  /\ sent[i] = "end" \/ (i > 1 /\ sent[i - 1] \in Newlines /\ ~Ends(i - 1))

\* The bytes after the first five of a SOCKS5 reply, by the type of address.
TailLength(b) == IF b[4] = 1 THEN 5 ELSE IF b[4] = 3 THEN b[5] + 2 ELSE 17

HeadAccepted(b) == b[1] = 5 /\ b[2] = 0 /\ b[3] = 0 /\ b[4] \in {1, 3, 4}
MethodAccepted(b) == b[1] = 5 /\ b[2] = 0

-----------------------------------------------------------------------------
(* Connect. *)

Connecting ==
  /\ step = "new" /\ alive
  /\ Assert(Check("fsm.ConnectBegin", CanConnectBegin(fsm)))
  /\ fsm' = ConnectBegin(fsm)
  /\ sock' = Connect(sock)
  /\ step' = "connecting" /\ answer' = "due"
  /\ UNCHANGED <<kind, reader, canceled, alive, sent, taken, got, peerVars>>

\* The callback of a step, with the socket and the reader as they are now: cut
\* short when cancelled, else the next step or the end.
GoOn(x, r, to) == /\ sock' = x /\ reader' = r /\ step' = to
                  /\ UNCHANGED <<fsm, answer>>

Refuse(x, r) == /\ sock' = x /\ reader' = r /\ step' = "ended"
                /\ fsm' = Errored(fsm) /\ answer' = "error"

Silent(x, r) == /\ sock' = x /\ reader' = r /\ step' = "ended"
                /\ UNCHANGED <<fsm, answer>>

\* HttpDataFlow is established, Socks5DataFlow only says so.
Accept(x, r) == /\ sock' = x /\ reader' = r /\ step' = "ended"
                /\ answer' = "ok"
                /\ fsm' = IF kind = "http" THEN Connected(fsm) ELSE fsm

unlessStep == <<kind, canceled, alive, sent, got, peerVars>>

\* The flow below is connected: the request, or the hello, is written.
SocketConnected ==
  /\ Waiting("Connect")
  /\ IF canceled THEN Silent(ConnectDone(sock), reader)
     ELSE GoOn(Write(ConnectDone(sock)), reader, "greeting")
  /\ UNCHANGED <<unlessStep, taken, failed>>

ConnectBroke ==
  /\ Waiting("Connect") /\ reset
  /\ IF canceled THEN Silent(ConnectFailed(sock), reader)
     ELSE Refuse(ConnectFailed(sock), reader)
  /\ UNCHANGED <<unlessStep, taken, failed>>

\* stream_reader_.ReadToLength(n), which may need no read.
ReadLength(x, r, n) == LET q == ReadToLength(r, n) IN
                       [reader |-> q, sock |-> IF Satisfied(q) THEN x ELSE Read(x)]

\* Something is written: the answer is read.
Wrote ==
  /\ Waiting("Write") /\ answer = "due"
  /\ Assert(Check("sock.WriteEnd", CanWriteDone(sock)) \cup
            Check("sock.ReadBegin", CanReadBegin(WriteDone(sock).fsm)))
  /\ LET x == WriteDone(sock) IN
       IF canceled THEN Silent(x, reader)
       ELSE IF kind = "http" THEN GoOn(Read(x), reader, "response")
       ELSE LET n == IF step = "greeting" THEN 2 ELSE 5
                q == ReadLength(x, reader, n)
            IN  GoOn(q.sock, q.reader, IF n = 2 THEN "method" ELSE "head")
  /\ UNCHANGED <<unlessStep, taken>>

WriteBroke ==
  /\ Waiting("Write") /\ answer = "due" /\ reset
  /\ IF canceled THEN Silent(WriteFailed(sock), reader)
     ELSE Refuse(WriteFailed(sock), reader)
  /\ UNCHANGED <<unlessStep, taken, failed>>

-----------------------------------------------------------------------------
(* Reading the answer. *)

ReadChecks == Check("sock.ReadEnd", CanReadDone(sock))

\* ReadResponse, HTTP: RewriteBuffer parses all that was read, and everything behind
\* the end of the header with it.  What is left of that is dropped with the buffer
\* of the rewriter, or put aside in pending_payload_, where nothing looks for it.
ResponseRead(n) ==
  /\ step = "response" /\ Waiting("Read") /\ n \in taken + 1..Len(sent)
  /\ taken' = n
  /\ Assert(ReadChecks \cup Check("rewriter.OnMessageBegin",
                                 canceled \/ \A i \in taken + 1..n : ~BeginsAgain(i)))
  /\ LET x == ReadDone(sock) IN
       IF canceled THEN Silent(x, reader)
       ELSE IF Refused(n) THEN Refuse(x, reader)
       ELSE IF ~Complete(n) THEN GoOn(Read(x), reader, "response")
       ELSE IF Success(n) THEN Accept(x, reader) ELSE Refuse(x, reader)
  /\ UNCHANGED unlessStep

\* The reader of a SOCKS5 flow gets bytes: it has enough, or reads again.
ReaderFed(n) ==
  /\ kind = "socks5" /\ answer = "due" /\ Waiting("Read") /\ n \in taken + 1..Len(sent)
  /\ taken' = n
  /\ Assert(ReadChecks)
  /\ LET r == ArrivedForLength(reader, SubSeq(sent, taken + 1, n))
         x == ReadDone(sock)
     IN  GoOn(IF Satisfied(r) THEN x ELSE Read(x), r, step)
  /\ UNCHANGED unlessStep

\* The run loop hands what was read to the negotiation.
MethodRead ==
  /\ step = "method" /\ reader.posted = "waiting"
  /\ LET b == reader.out
         r == Delivered(reader)
     IN  IF canceled THEN Silent(sock, r)
         ELSE IF ~MethodAccepted(b) THEN Refuse(sock, r)
         ELSE GoOn(Write(sock), r, "requesting")
  /\ UNCHANGED <<unlessStep, taken, failed>>

HeadRead ==
  /\ step = "head" /\ reader.posted = "waiting"
  /\ LET b == reader.out
         r == Delivered(reader)
     IN  IF canceled THEN Silent(sock, r)
         ELSE IF ~HeadAccepted(b) THEN Refuse(sock, r)
         ELSE LET q == ReadLength(sock, r, TailLength(b))
              IN  GoOn(q.sock, q.reader, "tail")
  /\ UNCHANGED <<unlessStep, taken, failed>>

\* Mutant: the last callback is not told that it was cancelled.
TailReadUnchecked ==
  /\ step = "tail" /\ reader.posted = "waiting"
  /\ LET r == Delivered(reader) IN
       IF r.buf # <<>> THEN Refuse(sock, ConsumeRemainData(r)) ELSE Accept(sock, r)
  /\ UNCHANGED <<unlessStep, taken, failed>>

\* Bytes behind the reply cannot be passed on: they are an error.
TailRead ==
  /\ step = "tail" /\ reader.posted = "waiting"
  /\ LET r == Delivered(reader) IN
       IF canceled THEN Silent(sock, r)
       ELSE IF r.buf # <<>> THEN Refuse(sock, ConsumeRemainData(r))
       ELSE Accept(sock, r)
  /\ UNCHANGED <<unlessStep, taken, failed>>

\* EOF, or an error, before the answer is complete.
ReadEnded ==
  /\ answer = "due" /\ Waiting("Read") /\ fin /\ taken = Len(sent)
  /\ Assert(ReadChecks \cup Check("sock.ReadClosed", CanReadEof(sock)))
  /\ IF canceled THEN Silent(ReadEof(sock), reader) ELSE Refuse(ReadEof(sock), reader)
  /\ UNCHANGED <<unlessStep, taken>>

ReadBroke ==
  /\ answer = "due" /\ Waiting("Read") /\ reset
  /\ IF canceled THEN Silent(ReadFailed(sock), reader) ELSE Refuse(ReadFailed(sock), reader)
  /\ UNCHANGED <<unlessStep, taken, failed>>

-----------------------------------------------------------------------------
(* The tunnel reads through the flow once it is connected; its writes and    *)
(* half-closes are the socket's own (Tunnel.tla).                            *)

StateMachine == IF fsm.state = "Established" THEN sock.fsm ELSE fsm

TunnelReads ==
  /\ alive /\ answer = "ok" /\ ~Waiting("Read") /\ sock.fsm.state = "Established"
  /\ Assert(Check("flow.IsReadable", IsReadable(StateMachine)) \cup
            Check("sock.ReadBegin", CanReadBegin(sock.fsm)))
  /\ sock' = Read(sock)
  /\ UNCHANGED <<unlessStep, step, fsm, reader, answer, taken>>

TunnelGets(n) ==
  /\ answer = "ok" /\ Waiting("Read") /\ n \in taken + 1..Len(sent)
  /\ sock' = ReadDone(sock)
  /\ taken' = n /\ got' = got \o SubSeq(sent, taken + 1, n)
  /\ UNCHANGED <<kind, step, fsm, reader, answer, canceled, alive, sent, peerVars, failed>>

TunnelGetsEnd ==
  /\ answer = "ok" /\ Waiting("Read")
  /\ \/ fin /\ taken = Len(sent) /\ sock' = ReadEof(sock)
     \/ reset /\ sock' = ReadFailed(sock)
  /\ UNCHANGED <<unlessStep, step, fsm, reader, answer, taken, failed>>

\* Whoever connects cancels, or destroys the flow: its cancelables, then its
\* reader and the flow below.
CancelConnect ==
  /\ answer = "due" /\ ~canceled /\ alive
  /\ canceled' = TRUE
  /\ UNCHANGED <<kind, step, fsm, sock, reader, answer, alive, sent, taken, got,
                 peerVars, failed>>

\* Mutant: the reader's closure is not cancelled.
DestroyButReader == /\ alive /\ alive' = FALSE /\ canceled' = TRUE
                    /\ sock' = Destroy(sock)
                    /\ UNCHANGED <<kind, step, fsm, reader, answer, sent, taken, got,
                                   peerVars, failed>>

DestroyFlow == /\ alive /\ alive' = FALSE /\ canceled' = TRUE
               /\ sock' = Destroy(sock)
               /\ reader' = CancelReader(reader)
               /\ UNCHANGED <<kind, step, fsm, answer, sent, taken, got, peerVars, failed>>

DropCallback ==
  \/ /\ \E op \in Ops : sock.cb[op] = "canceled" /\ sock' = Return(sock, sock.fsm, op)
     /\ UNCHANGED <<unlessStep, step, fsm, reader, answer, taken, failed>>
  \/ /\ reader.posted = "canceled" /\ reader' = Delivered(reader)
     /\ UNCHANGED <<unlessStep, step, fsm, sock, answer, taken, failed>>

\* The proxy closes, after any part of what it had to say, or resets.
PeerCloses == /\ ~fin /\ ~reset /\ fin' = TRUE
              /\ \E n \in taken..Len(sent) : sent' = SubSeq(sent, 1, n)
              /\ UNCHANGED <<kind, step, fsm, sock, reader, answer, canceled, alive,
                             taken, got, reset, failed>>
PeerResets == /\ ~reset /\ reset' = TRUE
              /\ UNCHANGED <<kind, step, fsm, sock, reader, answer, canceled, alive,
                             sent, taken, got, fin, failed>>

Negotiates ==
  \/ SocketConnected \/ ConnectBroke \/ Wrote \/ WriteBroke
  \/ MethodRead \/ HeadRead \/ TailRead \/ ReadEnded \/ ReadBroke
  \/ \E n \in 1..Len(sent) : ResponseRead(n) \/ ReaderFed(n)

\* Nothing is left to happen to a flow that is gone.
Done == ~alive /\ (\A op \in Ops : sock.cb[op] = "none") /\ UNCHANGED vars

Next == \/ Connecting \/ Negotiates
        \/ TunnelReads \/ TunnelGetsEnd \/ \E n \in 1..Len(sent) : TunnelGets(n)
        \/ CancelConnect \/ DestroyFlow \/ DropCallback \/ PeerCloses \/ PeerResets \/ Done

Spec == Init /\ [][Next]_vars

\* The run loop turns, and a proxy that has nothing more to say closes or resets.
LiveSpec == Spec /\ WF_vars(Negotiates) /\ WF_vars(PeerCloses) /\ WF_vars(DropCallback)

-----------------------------------------------------------------------------
(* Properties. *)

TypeOK ==
  /\ kind \in {"http", "socks5"} /\ step \in Steps
  /\ fsm \in Flow /\ sock \in Socket
  /\ reader.posted \in CallbackStates
  /\ answer \in {"none", "due", "ok", "error"}
  /\ {canceled, alive, fin, reset} \subseteq BOOLEAN
  /\ taken \in 0..Len(sent)

\* While the answer is due, exactly one thing is awaited, and it will come: the
\* closure of the reader or the one callback of the socket that the step needs.
OneThingAwaited ==
  answer = "due" /\ ~canceled =>
    /\ step = "connecting" => Waiting("Connect")
    /\ step \in {"greeting", "requesting"} => Waiting("Write") /\ ~Waiting("Read")
    /\ step = "response" => Waiting("Read")
    /\ step \in {"method", "head", "tail"} =>
         (reader.posted = "waiting") # Waiting("Read")
    /\ step # "ended"

\* The machine follows the answer: a flow that failed is closed, and nothing of
\* a flow destroyed will run.
MachineFollows ==
  /\ answer = "due" => fsm.state = "Establishing"
  /\ answer = "error" => fsm.state = "Closed"
  /\ answer = "ok" /\ kind = "http" => fsm.state = "Established"
  /\ ~alive => reader.posted # "waiting" /\ \A op \in Ops : ~Waiting(op)

\* No assertion fails but the one of ConnectedIsReadable and the rewriter's that a
\* message begins once: and that only when a newline stands outside a header.
AssertionsHold ==
  /\ kind = "socks5" => failed \subseteq {"flow.IsReadable"}
  /\ kind = "http" => failed \subseteq {"rewriter.OnMessageBegin"}
  /\ kind = "http" /\ failed # {} =>
       \E i \in 1..taken : sent[i] \in Newlines /\ ~InHeader(i - 1)

RemoteInv == TypeOK /\ OneThingAwaited /\ MachineFollows /\ AssertionsHold

\* The replies as their protocols define them, over all that was sent: whether
\* they accept the connection, and how long they are.
FirstEnd == CHOOSE e \in 1..Len(sent) : Ends(e) /\ \A i \in 1..e - 1 : ~Ends(i)

Reply ==
  IF kind = "http"
  THEN IF ~Complete(Len(sent)) THEN [good |-> FALSE, len |-> 0]
       ELSE [good |-> ~Refused(FirstEnd) /\ Success(FirstEnd), len |-> FirstEnd]
  ELSE LET addr == CASE sent[6] = 1 -> 4              \* an IPv4 address
                     [] sent[6] = 3 -> 1 + sent[7]    \* a name and its length
                     [] sent[6] = 4 -> 16             \* an IPv6 address
           whole == 6 + addr + 2
       IN  IF Len(sent) < 7 \/ sent[6] \notin {1, 3, 4} THEN [good |-> FALSE, len |-> 0]
           ELSE [good |-> SubSeq(sent, 1, 5) = <<5, 0, 5, 0, 0>> /\ Len(sent) >= whole,
                 len  |-> whole]

\* However the bytes were split: the tunnel gets what comes behind a certain place,
\* all of it and in order.  That place is the end of a reply that accepts, unless
\* an HTTP flow read more with it: then what came with the reply is lost, and it
\* was newlines or responses, or the beginning of one, to the last of which the
\* success is owed.  Failure means that the proxy did not accept, that it went
\* away, or that something came in the same read as the end of the reply.
ProxyUnderstood ==
  /\ answer = "ok" =>
       \E m \in Reply.len..taken :
         /\ got = SubSeq(sent, m + 1, taken)
         /\ m = Reply.len => Reply.good
         /\ m # Reply.len => kind = "http" /\ ~Refused(m) /\ Success(m)
  /\ answer = "error" => fin \/ reset \/ ~Reply.good \/ taken > Reply.len

\* Connect is answered at most once, never after it was cancelled or the flow
\* destroyed, and, if it is still wanted, it is answered.
Promise == INSTANCE Answers WITH
             Calls <- {"connect"},
             call  <- [c \in {"connect"} |->
                         IF answer = "none" THEN "idle"
                         ELSE IF answer # "due" THEN "answered"
                         ELSE IF canceled THEN "cancelled" ELSE "open"]
ProxyPromise == Promise!Spec /\ (answer = "due" ~> answer # "due" \/ canceled)

\* BOOST_ASSERT in Tunnel::ForwardRemote (tunnel.cc:188): a remote flow that has
\* reported success can be read from.
ConnectedIsReadable == "flow.IsReadable" \notin failed
=============================================================================
