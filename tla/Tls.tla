-------------------------------- MODULE Tls ---------------------------------
(***************************************************************************)
(* A remote flow over TLS: TlsDataFlow, which moves data between its       *)
(* owner, a TlsTunnel and the TcpSocket below                              *)
(* (src/data_flow/tls_data_flow.cc, src/crypto/tls_tunnel.cc).  The flow   *)
(* with all its parts is one record, and a method that calls the others is *)
(* an operator on it.                                                      *)
(*                                                                         *)
(* OpenSSL is external: it takes records, which arrive in two halves each, *)
(* and emits messages.  Before TLS 1.3 the server ends the handshake, in   *)
(* 1.3 the client does.  A record of data is of any length, and so is what *)
(* is read from the socket; SSL_write never waits for input (it does only  *)
(* in a renegotiation), and behind its close the server sends less than    *)
(* the BIO holds.  A failed BOOST_ASSERT is recorded; the run goes on.     *)
(***************************************************************************)
EXTENDS TcpSocket, Naturals, Sequences, FiniteSetsExt

CONSTANTS
  Streams,    \* what the server sends after the handshake: sequences of
              \* records of data, "close" (close_notify), "bad"
  Chunks      \* what the tunnel writes, chunk by chunk

VARIABLES
  flow,      \* the TlsDataFlow, see NewTls
  tunnel,    \* the two forwarding loops of the tunnel that owns the flow
  records,   \* what the server sends
  taken,     \* how many halves of records have been read from the socket
  heard,     \* the messages the server has got
  fin, reset \* the server closed the connection; reset it

vars == <<flow, tunnel, records, taken, heard, fin, reset>>

\* The server's side of the handshake, before TLS 1.3 and in it.
Handshakes     == {<<"hello done", "server finished">>, <<"server finished, 1.3">>}
Shakes         == {"hello done", "server finished", "server finished, 1.3"}
ServerFinished == {"server finished", "server finished, 1.3"}
ClientAnswers  == {"hello done", "server finished, 1.3"}
Alerts         == {"close", "bad"}

\* What follows the handshake is not taken for a part of it, nor for an error.
ASSUME TlsAssumption == /\ Streams \subseteq Seq(STRING \ (Shakes \cup {"error"}))
                        /\ Chunks \in Seq(STRING)

NewTls == [fsm |-> NewFlow("Remote"), sock |-> NewSocket("Remote"),
           answer |-> "none",      \* connect_handler_: "none", "due", "ok", "error"
           rd |-> "none",          \* read_handler_: "none" or "due"
           wr |-> "none",          \* write_handler_
           postR |-> "none", postW |-> "none",  \* closures that call them
           handed |-> <<>>,        \* what postR carries, <<"error">> for an error
           pending |-> FALSE, reported |-> FALSE,  \* pending_error_, error_reported_
           used |-> 0,             \* records OpenSSL has taken out of its BIO
           agreed |-> FALSE,       \* SSL_connect would succeed
           err |-> FALSE, closed |-> FALSE,        \* error_, closed_
           plain |-> <<>>,         \* pending_read_plain_
           stuck |-> FALSE,        \* pending_write_plain_ is not empty
           bio |-> <<>>,           \* emitted by OpenSSL, not fetched
           out |-> <<>>,           \* pending_read_cipher_
           next |-> <<>>,          \* being written to the socket
           alive |-> TRUE, failed |-> {}]

Init == /\ flow = NewTls
        /\ tunnel = [read |-> "idle", write |-> "idle", got |-> <<>>, writes |-> 0]
        /\ \E h \in Handshakes, s \in Streams : records = h \o s
        /\ taken = 0 /\ heard = <<>> /\ fin = FALSE /\ reset = FALSE

Asserting(t, name, holds) == IF holds THEN t ELSE [t EXCEPT !.failed = @ \cup {name}]
Waiting(op) == flow.sock.cb[op] = "waiting"

-----------------------------------------------------------------------------
(* TlsTunnel. *)

FlushCipherBuffer(t) == [t EXCEPT !.out = @ \o t.bio, !.bio = <<>>]

\* Where OpenSSL may have got to when the records 1..upto are given to it: behind
\* a record of data that does not fill the room SSL_read is given (the loop of
\* FlushPlainBuffer goes on behind one that does), or behind all of them, and
\* never behind an alert.  It is called again while a chunk does not fit its BIO.
Places(t, upto) ==
  {last \in t.used..upto :
     /\ last = upto \/ (last > t.used /\ records[last] \notin Shakes)
     /\ \A i \in t.used + 1..last - 1 : records[i] \notin Alerts}

\* The calls of SSL_read that take the records up to last.  They drive the
\* handshake, and the plain text behind it is kept, that in front of an error too.
SslRead(t, last) ==
  LET Passed(set) == \E i \in t.used + 1..last : records[i] \in set
      behind == {i \in t.used + 1..last : records[i] \notin Shakes}
      u == [t EXCEPT !.used = last, !.agreed = @ \/ Passed(ServerFinished),
                     !.bio = IF Passed(ClientAnswers) THEN Append(@, "finished") ELSE @]
      Plain(to) == [u EXCEPT !.plain = @ \o SubSeq(records, Min(behind), to)]
  IN  IF t.closed THEN t
      ELSE IF behind = {} THEN u
      ELSE IF records[last] = "bad" THEN [Plain(last - 1) EXCEPT !.err = TRUE]
      ELSE IF records[last] = "close" THEN [Plain(last - 1) EXCEPT !.closed = TRUE]
      ELSE Plain(last)

\* Mutant: of what OpenSSL takes at a time, only the last record is kept.
WriteCipherTextDataLast(t, last, again) ==
  SslRead([FlushCipherBuffer(t) EXCEPT !.used = IF last > t.used THEN last - 1 ELSE last], last)

\* WriteCipherTextData, with which OpenSSL gets to last.  What it emits comes
\* after FlushCipherBuffer, and stays in its BIO unless the loop comes again.
WriteCipherTextData(t, last, again) ==
  LET u == SslRead(FlushCipherBuffer(t), last)
  IN  IF t.err THEN t ELSE IF again THEN FlushCipherBuffer(u) ELSE u

\* WritePlainTextData.  After an error OpenSSL takes nothing, and the plain text
\* stays; the result is not looked at.
WritePlainTextData(t, data) ==
  IF t.err THEN FlushCipherBuffer([t EXCEPT !.stuck = TRUE])
  ELSE FlushCipherBuffer([t EXCEPT !.bio = Append(@, data)])

FinishWritingCipherData(t) == ~t.stuck /\ t.out = <<>>

-----------------------------------------------------------------------------
(* TlsDataFlow, Process and what it calls. *)

TryReadNextHop(t) ==
  IF t.sock.fsm.reading THEN t
  ELSE Asserting([t EXCEPT !.sock = Read(@)], "sock.ReadBegin", CanReadBegin(t.sock.fsm))

TryWriteNextHop(t) ==
  IF t.sock.fsm.writing THEN t
  ELSE Asserting([t EXCEPT !.sock = Write(@), !.next = t.out, !.out = <<>>],
                 "sock.WriteBegin", CanWriteBegin(t.sock.fsm))

\* Mutant: the handler is kept when the socket is read again.
TryReadOnce(t) ==
  IF t.rd = "none" THEN t
  ELSE IF t.plain = <<>> THEN t
  ELSE [t EXCEPT !.postR = "waiting", !.rd = "none", !.plain = <<>>, !.handed = t.plain]

\* An error takes the place of the plain text there is; without any plain text
\* it is not noticed.
TryRead(t) ==
  IF t.rd = "none" THEN t
  ELSE IF t.plain = <<>> THEN TryReadNextHop(t)
  ELSE [t EXCEPT !.postR = "waiting", !.rd = "none",
                 !.handed = IF t.err THEN <<"error">> ELSE t.plain,
                 !.plain = IF t.err THEN @ ELSE <<>>]

\* The handler is called when everything is with the socket: a call of Read
\* while the socket still writes answers the write before.
TryWrite(t) ==
  IF ~FinishWritingCipherData(t) THEN TryWriteNextHop(t)
  ELSE IF t.wr = "due" THEN [t EXCEPT !.postW = "waiting", !.wr = "none"]
  ELSE t

\* ~TlsDataFlow, with the socket.
Destroyed(t) == [t EXCEPT !.alive = FALSE, !.sock = Destroy(@),
                          !.postR = IF @ = "waiting" THEN "canceled" ELSE @,
                          !.postW = IF @ = "waiting" THEN "canceled" ELSE @]

\* Mutant: the end of the stream counts as reported, and no handler is called.
ReportErrorLost(t, eof, readFirst) ==
  IF eof THEN [t EXCEPT !.reported = TRUE]
  ELSE Destroyed([t EXCEPT !.rd = "none", !.wr = "none"])

\* ReportError calls a handler of the tunnel, in the middle of the flow's code.
\* At an EOF that answers a read the tunnel goes on; else it releases itself,
\* and the flow writes to members that are gone.
ReportError(t, eof, readFirst) ==
  LET toRead == t.rd = "due" /\ (readFirst \/ t.wr = "none")
      t2 == [t EXCEPT !.rd = IF toRead THEN "none" ELSE @,
                      !.wr = IF toRead THEN @ ELSE "none", !.reported = TRUE]
  IN  IF t.rd = "none" /\ t.wr = "none" THEN [t EXCEPT !.pending = TRUE]
      ELSE IF toRead /\ eof THEN t2
      ELSE Asserting(Destroyed(t2), "used after release", FALSE)

Process(t) == IF t.reported THEN t
              ELSE IF t.pending THEN ReportError(t, FALSE, TRUE)
              ELSE TryWrite(TryRead(t))

-----------------------------------------------------------------------------
(* Connecting. *)

\* What the tunnel does when Connect fails: it releases itself.
Failed(t) == Destroyed([t EXCEPT !.answer = "error"])

SendOut(t) == [t EXCEPT !.sock = Write(@), !.next = t.out, !.out = <<>>]

\* HandShake.  When it has succeeded, what is in the BIO is not fetched.
HandShake(t) ==
  IF t.err THEN Failed([t EXCEPT !.fsm = Errored(@)])
  ELSE IF t.agreed
  THEN IF t.out # <<>> THEN SendOut(t)
       ELSE Asserting([t EXCEPT !.fsm = Connected(@), !.answer = "ok"],
                      "fsm.Connected", CanConnected(t.fsm))
  ELSE LET u == FlushCipherBuffer(t)
       IN  IF u.out # <<>> THEN SendOut(u)
           ELSE Asserting([u EXCEPT !.sock = Read(@)], "sock.ReadBegin", CanReadBegin(u.sock.fsm))

serverVars == <<records, taken, heard, fin, reset>>

ConnectCall ==
  /\ flow.answer = "none" /\ flow.alive
  /\ flow' = Asserting([flow EXCEPT !.fsm = ConnectBegin(@), !.sock = Connect(@), !.answer = "due"],
                       "fsm.ConnectBegin", CanConnectBegin(flow.fsm))
  /\ UNCHANGED <<tunnel, serverVars>>

\* The first call of SSL_connect emits the hello.
SocketConnected ==
  /\ Waiting("Connect")
  /\ flow' = HandShake([flow EXCEPT !.sock = ConnectDone(@), !.bio = <<"hello">>])
  /\ UNCHANGED <<tunnel, serverVars>>

\* The socket's failure is passed on; the flow is not marked as errored.
SocketFailed ==
  /\ Waiting("Connect") /\ reset
  /\ flow' = Failed([flow EXCEPT !.sock = ConnectFailed(@)])
  /\ UNCHANGED <<tunnel, serverVars>>

HandShakeWritten ==
  /\ flow.answer = "due" /\ Waiting("Write")
  /\ flow' = HandShake([flow EXCEPT !.sock = WriteDone(@), !.next = <<>>])
  /\ heard' = heard \o flow.next
  /\ UNCHANGED <<tunnel, records, taken, fin, reset>>

\* The server speaks when it has been spoken to.
MaySend(n) == LET r == (n + 1) \div 2 IN
  /\ n <= 2 * Len(records)
  /\ r = 1 => \E i \in DOMAIN heard : heard[i] = "hello"
  /\ r > 1 => \E i \in DOMAIN heard : heard[i] = "finished"

HandShakeRead(n) ==
  /\ flow.answer = "due" /\ Waiting("Read") /\ n > taken /\ MaySend(n)
  /\ \E last \in Places(flow, n \div 2), again \in BOOLEAN :
       flow' = HandShake(WriteCipherTextData([flow EXCEPT !.sock = ReadDone(@)], last, again))
  /\ taken' = n
  /\ UNCHANGED <<tunnel, records, heard, fin, reset>>

\* EOF, an error of a read, or one of a write.
HandShakeBroke ==
  /\ flow.answer = "due"
  /\ \E x \in {ReadEof(flow.sock), ReadFailed(flow.sock), WriteFailed(flow.sock)} :
       /\ x = ReadEof(flow.sock) => Waiting("Read") /\ fin /\ taken = 2 * Len(records)
       /\ x = ReadFailed(flow.sock) => Waiting("Read") /\ reset
       /\ x = WriteFailed(flow.sock) => Waiting("Write") /\ reset
       /\ flow' = Failed([flow EXCEPT !.sock = x, !.fsm = Errored(@)])
  /\ UNCHANGED <<tunnel, serverVars>>

-----------------------------------------------------------------------------
(* The calls of the tunnel. *)

Start == /\ flow.answer = "ok" /\ flow.alive /\ tunnel.read = "idle"
         /\ tunnel' = [tunnel EXCEPT !.read = "ready", !.write = "ready"]
         /\ UNCHANGED <<flow, serverVars>>

ReadCall ==
  /\ flow.alive /\ tunnel.read = "ready"
  /\ tunnel' = [tunnel EXCEPT !.read = "reading"]
  /\ flow' = Process(Asserting(Asserting([flow EXCEPT !.rd = "due", !.fsm = ReadBegin(@)],
                                         "fsm.ReadBegin", CanReadBegin(flow.fsm)),
                               "error_reported_", ~flow.reported))
  /\ UNCHANGED serverVars

WriteCall ==
  /\ flow.alive /\ tunnel.write = "ready" /\ tunnel.writes < Len(Chunks)
  /\ tunnel' = [tunnel EXCEPT !.write = "writing", !.writes = @ + 1]
  /\ LET t == Asserting(Asserting([flow EXCEPT !.wr = "due", !.fsm = WriteBegin(@)],
                                  "fsm.WriteBegin", CanWriteBegin(flow.fsm)),
                        "error_reported_", ~flow.reported)
         u == Asserting(t, "FinishWritingCipherData", FinishWritingCipherData(t))
     IN  flow' = Process(WritePlainTextData(u, Chunks[tunnel.writes + 1]))
  /\ UNCHANGED serverVars

\* CloseWrite does nothing, and never calls its handler.
CloseWriteCall ==
  /\ flow.alive /\ tunnel.write = "ready" /\ IsWriteClosable(flow.fsm)
  /\ tunnel' = [tunnel EXCEPT !.write = "closing"]
  /\ UNCHANGED <<flow, serverVars>>

-----------------------------------------------------------------------------
(* The callbacks while it forwards. *)

Told(t) == IF ~t.alive THEN [tunnel EXCEPT !.read = "gone", !.write = "gone"]
           ELSE IF flow.rd = "due" /\ t.rd = "none" /\ t.reported
           THEN [tunnel EXCEPT !.read = "ended"] ELSE tunnel

NextHopRead(n) ==
  /\ flow.answer = "ok" /\ Waiting("Read") /\ n > taken /\ MaySend(n)
  /\ \E last \in Places(flow, n \div 2), again \in BOOLEAN :
       flow' = Process(WriteCipherTextData([flow EXCEPT !.sock = ReadDone(@)], last, again))
  /\ taken' = n
  /\ UNCHANGED <<tunnel, records, heard, fin, reset>>

\* EOF of the socket, which is reported as it comes, or an error.
NextHopEnded ==
  /\ flow.answer = "ok" /\ Waiting("Read")
  /\ \/ /\ fin /\ taken = 2 * Len(records)
        /\ flow' = ReportError(Asserting([flow EXCEPT !.sock = ReadEof(@)],
                                         "sock.ReadClosed", CanReadEof(flow.sock)), TRUE, TRUE)
     \/ reset /\ flow' = ReportError([flow EXCEPT !.sock = ReadFailed(@)], FALSE, TRUE)
  /\ tunnel' = Told(flow')
  /\ UNCHANGED serverVars

NextHopWritten ==
  /\ flow.answer = "ok" /\ Waiting("Write")
  /\ flow' = Process([flow EXCEPT !.sock = WriteDone(@), !.next = <<>>])
  /\ heard' = heard \o flow.next
  /\ UNCHANGED <<tunnel, records, taken, fin, reset>>

NextHopWriteBroke ==
  /\ flow.answer = "ok" /\ Waiting("Write") /\ reset
  /\ flow' = ReportError([flow EXCEPT !.sock = WriteFailed(@)], FALSE, FALSE)
  /\ tunnel' = Told(flow')
  /\ UNCHANGED serverVars

\* The posted closures, which call the tunnel's handlers.
ReadPosted ==
  /\ flow.postR = "waiting"
  /\ LET t == Asserting([flow EXCEPT !.postR = "none", !.handed = <<>>, !.fsm = ReadEnd(@)],
                        "fsm.ReadEnd", CanReadEnd(flow.fsm))
     IN  IF flow.handed = <<"error">>
         THEN /\ flow' = Destroyed([t EXCEPT !.fsm = Errored(@)])
              /\ tunnel' = Told(flow')
         ELSE /\ flow' = t
              /\ tunnel' = [tunnel EXCEPT !.read = "ready", !.got = @ \o flow.handed]
  /\ UNCHANGED serverVars

WritePosted ==
  /\ flow.postW = "waiting"
  /\ flow' = Asserting([flow EXCEPT !.postW = "none", !.fsm = WriteEnd(@)],
                       "fsm.WriteEnd", CanWriteEnd(flow.fsm))
  /\ tunnel' = [tunnel EXCEPT !.write = "ready"]
  /\ UNCHANGED serverVars

\* A timeout, CloseAll, or an error of the local side.
TunnelEnds ==
  /\ flow.alive /\ flow.answer # "none"
  /\ flow' = Destroyed(flow)
  /\ tunnel' = [tunnel EXCEPT !.read = "gone", !.write = "gone"]
  /\ UNCHANGED serverVars

DropCallback ==
  /\ \/ \E op \in Ops : /\ flow.sock.cb[op] = "canceled"
                        /\ flow' = [flow EXCEPT !.sock = Return(@, @.fsm, op)]
     \/ flow.postR = "canceled" /\ flow' = [flow EXCEPT !.postR = "none"]
     \/ flow.postW = "canceled" /\ flow' = [flow EXCEPT !.postW = "none"]
  /\ UNCHANGED <<tunnel, serverVars>>

\* What it has not said it will not say.
ServerCloses == /\ ~fin /\ ~reset /\ fin' = TRUE
                /\ \E n \in (taken + 1) \div 2..Len(records) :
                     /\ 2 * n > taken + 1 => MaySend(2 * n)
                     /\ records' = SubSeq(records, 1, n)
                /\ UNCHANGED <<flow, tunnel, taken, heard, reset>>
ServerResets == /\ ~reset /\ reset' = TRUE
                /\ UNCHANGED <<flow, tunnel, records, taken, heard, fin>>

SocketReads  == \/ \E n \in 1..2 * Len(records) : HandShakeRead(n) \/ NextHopRead(n)
                \/ HandShakeBroke \/ NextHopEnded
SocketWrites == HandShakeWritten \/ NextHopWritten \/ NextHopWriteBroke

Next == \/ ConnectCall \/ SocketConnected \/ SocketFailed \/ SocketReads \/ SocketWrites
        \/ Start \/ ReadCall \/ WriteCall \/ CloseWriteCall \/ ReadPosted \/ WritePosted
        \/ TunnelEnds \/ DropCallback \/ ServerCloses \/ ServerResets

Spec == Init /\ [][Next]_vars

\* The run loop turns, the network delivers and accepts, and no server stays
\* for ever.
LiveSpec == Spec /\ WF_vars(SocketConnected) /\ WF_vars(SocketReads) /\ WF_vars(SocketWrites)
                 /\ WF_vars(ReadPosted) /\ WF_vars(WritePosted) /\ WF_vars(ServerCloses)

-----------------------------------------------------------------------------
(* Properties. *)

TypeOK ==
  /\ flow.sock \in Socket /\ flow.answer \in {"none", "due", "ok", "error"}
  /\ {flow.rd, flow.wr} \subseteq {"none", "due"}
  /\ {flow.postR, flow.postW} \subseteq {"none", "waiting", "canceled"}
  /\ flow.used \in 0..taken \div 2 /\ taken \in 0..2 * Len(records)

\* While it connects, exactly one callback of the socket is under way.  Later,
\* as long as no error was reported, a read or a write of the tunnel waits for
\* the socket or has its closure posted, what is to go out waits for a write that
\* is under way, an error is kept only while no one can be told, and the state
\* machine says what the tunnel may call.
NothingForgotten ==
  flow.alive =>
    /\ flow.answer = "due" => \E op \in Ops : \A p \in Ops : Waiting(p) = (p = op)
    /\ flow.answer = "ok" /\ ~flow.reported =>
         /\ flow.fsm.reading = (flow.rd = "due" \/ flow.postR = "waiting")
         /\ flow.fsm.writing = (flow.wr = "due" \/ flow.postW = "waiting")
         /\ flow.rd = "due" <=> Waiting("Read")
         /\ flow.wr = "due" \/ flow.out # <<>> => Waiting("Write")
         /\ flow.pending => flow.rd = "none" /\ flow.wr = "none"

\* Once the flow is gone, no callback will use it.
NoCallbackOutlivesFlow ==
  ~flow.alive => /\ \A op \in Ops : ~Waiting(op)
                 /\ flow.postR # "waiting" /\ flow.postW # "waiting"

\* Of what OpenSSL emitted, only the Finished of TLS 1.3 is left behind when the
\* flow reports that it is connected.
OnlyFinishedWithheld ==
  flow.answer = "ok" /\ flow.bio # <<>> => flow.bio = <<"finished">> /\ Len(flow.out \o flow.next) = 0

\* No assertion fails but two: a write after the end of the stream was reported
\* (tls_data_flow.cc:55), and the members ReportError writes to when the tunnel
\* has released the flow.
OtherAssertionsHold == flow.failed \subseteq {"error_reported_", "used after release"}

TlsInv == TypeOK /\ NothingForgotten /\ NoCallbackOutlivesFlow
          /\ OnlyFinishedWithheld /\ OtherAssertionsHold

\* What OpenSSL has emitted.
Sent == heard \o flow.next \o flow.out \o flow.bio

\* d is the data in the first n records.
IsData(d, n) == \E i, j \in 0..n :
  /\ d = SubSeq(records, i + 1, j)
  /\ \A k \in 1..n : k \in i + 1..j <=> records[k] \notin Shakes \cup Alerts

\* The tunnel reads the records in order, none twice and none left out, up to
\* the one OpenSSL has got to, and while it waits no plain text is there: only
\* what an error comes with is kept from it (tls_tunnel.cc:94).  The server gets
\* the messages and the chunks in the order in which they were made.
StreamsIntact ==
  /\ IsData(tunnel.got \o (IF flow.handed = <<"error">> THEN <<>> ELSE flow.handed) \o flow.plain,
            flow.used)
  /\ flow.alive /\ tunnel.read \in {"reading", "ended"} /\ flow.plain # <<>> =>
       flow.err /\ flow.handed = <<"error">>
  /\ Sent = SubSeq(<<"hello", "finished">> \o Chunks, 1, Len(Sent))
  /\ ~flow.stuck /\ tunnel.writes > 0 => Len(Sent) = 2 + tunnel.writes

\* Connect answers, and so do Read and Write, unless the tunnel ends the flow,
\* the end of the stream was reported while a write was under way, or TLS has
\* failed and a write goes round for ever.
TlsAnswers ==
  /\ flow.answer = "due" ~> flow.answer # "due" \/ ~flow.alive
  /\ flow.rd = "due" ~> flow.rd = "none" \/ ~flow.alive
  /\ tunnel.write = "writing" ~> tunnel.write # "writing" \/ flow.reported \/ flow.stuck
=============================================================================
