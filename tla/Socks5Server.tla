---------------------------- MODULE Socks5Server ----------------------------
(***************************************************************************)
(* data_flow::Socks5ServerDataFlow: the client's hello and request are     *)
(* read byte by byte as they arrive, collected in pending_auth_ and parsed *)
(* when complete.                                                          *)
(***************************************************************************)
EXTENDS ServerFlow, Naturals, Sequences

CONSTANTS
  BufferSize,  \* NEKIT_SOCKS5_SERVER_BUFFER_SIZE
  Hellos,      \* what clients may say first
  Targets,     \* where clients may ask to go: [type, host, port] in bytes
  Malformed    \* requests that ask for something else

Domain == 3

\* The request for target t, as RFC 1928 has it.
Encode(t) == <<5, 1, 0, t.type>>
               \o (IF t.type = Domain THEN <<Len(t.host)>> ELSE <<>>)
               \o t.host \o t.port

NoTarget == [type |-> 0, host |-> <<>>, port |-> <<>>]

VARIABLES
  script,   \* what this client says: [hello, request]
  wire,     \* bytes sent by the client and not read yet
  asked,    \* the client has sent its request
  pending,  \* pending_auth_
  nego,     \* negotiation_state_
  reply,    \* the bytes that answer the hello, once written
  target    \* the endpoint given to the session

negoVars  == <<script, wire, asked, pending, nego, reply, target>>
socksVars == <<vars, negoVars>>

\* What a client may say: a hello, then a request.
Scripts == [hello : Hellos, request : {Encode(t) : t \in Targets} \cup Malformed]

SocksInit == /\ InitFlow
             /\ script \in Scripts
             /\ wire = script.hello /\ asked = FALSE
             /\ pending = <<>> /\ nego = "ReadingVersion"
             /\ reply = <<>> /\ target = NoTarget

-----------------------------------------------------------------------------
(* Parsing p, all that has been collected. *)

HelloMore(p) == \/ Len(p) < 3
                \/ Len(p) >= 3 /\ p[1] = 5 /\ Len(p) < p[2] + 2

HelloOk(p) == /\ Len(p) >= 3 /\ p[1] = 5
              /\ Len(p) = p[2] + 2
              /\ \E i \in 3 .. Len(p) : p[i] = 0

RequestHead(p) == p[1] = 5 /\ p[2] = 1 /\ p[3] = 0 /\ p[4] \in {1, Domain, 4}

\* Mutant: the length byte of a domain is not counted.
RequestLengthShort(p) == IF p[4] = Domain THEN 6 + p[5]
                         ELSE IF p[4] = 1 THEN 10 ELSE 22
RequestLength(p) == IF p[4] = Domain THEN 7 + p[5]
                    ELSE IF p[4] = 1 THEN 10 ELSE 22

RequestMore(p) == \/ Len(p) < 10
                  \/ /\ Len(p) >= 10 /\ RequestHead(p)
                     /\ Len(p) < RequestLength(p)

\* Mutant: bytes after the request are not refused.
RequestOkLonger(p) == Len(p) >= 10 /\ RequestHead(p) /\ Len(p) >= RequestLength(p)
RequestOk(p) == Len(p) >= 10 /\ RequestHead(p) /\ Len(p) = RequestLength(p)

HostFrom(p) == IF p[4] = Domain THEN 6 ELSE 5

Parsed(p) == [type |-> p[4],
              host |-> SubSeq(p, HostFrom(p), Len(p) - 2),
              port |-> SubSeq(p, Len(p) - 1, Len(p))]

-----------------------------------------------------------------------------
(* What clients send. *)

Byte == 0 .. 255

WellFormed(t) ==
  /\ t \in [type : {1, Domain, 4}, host : Seq(Byte), port : Seq(Byte)]
  /\ Len(t.port) = 2 /\ Len(t.host) <= 255
  /\ t.type = 1 => Len(t.host) = 4
  /\ t.type = 4 => Len(t.host) = 16

ASSUME BufferSizeAssumption == BufferSize \in Nat

\* A client does not begin its request before its hello has been answered.
ASSUME HellosAssumption ==
  /\ Hellos \subseteq Seq(Byte)
  /\ \A h \in Hellos : \A i \in 1 .. Len(h) - 1 : HelloOk(SubSeq(h, 1, i)) => h[i + 1] # 5

\* Targets has what every client asks for, if only with its first bytes.
ASSUME RequestsAssumption ==
  /\ \A t \in Targets : WellFormed(t)
  /\ Malformed \subseteq Seq(Byte)
  /\ \A m \in Malformed : \A i \in 10 .. Len(m) :
       LET p == SubSeq(m, 1, i)
       IN  WellFormed(Parsed(p)) /\ p = Encode(Parsed(p)) => Parsed(p) \in Targets

-----------------------------------------------------------------------------
(* NegotiateRead gets n bytes. *)

Arrived(n) == pending \o SubSeq(wire, 1, n)

Negotiating(n) == /\ stage = "opening" /\ Waiting("Read")
                  /\ wire' = SubSeq(wire, n + 1, Len(wire))

Fits(n) == Len(Arrived(n)) <= BufferSize

ReadEndHolds == Check("sock.ReadEnd", CanReadDone(sock))

SocksNegotiateMore(n) ==
  /\ Negotiating(n) /\ Fits(n)
  /\ IF nego = "ReadingVersion" THEN HelloMore(Arrived(n)) ELSE RequestMore(Arrived(n))
  /\ pending' = Arrived(n)
  /\ ReadMore
  /\ UNCHANGED <<tunnelVars, upper, header, posted, clientVars,
                 script, asked, nego, reply, target>>

\* The answer is written into the last buffer read, cut to two bytes.
\* ShrinkBack asserts that there are more, and follows a null pointer otherwise:
\* nothing runs any more, as after a release.
HelloAccepted(n) ==
  /\ nego = "ReadingVersion" /\ Negotiating(n) /\ Fits(n)
  /\ HelloOk(Arrived(n))
  /\ Assert(ReadEndHolds \cup Check("buffer.Shrink", n > 2) \cup
            Check("sock.WriteBegin", CanWriteBegin(ReadDone(sock).fsm)))
  /\ pending' = <<>>
  /\ IF n > 2
     THEN /\ reply' = <<wire[1], 0>>
          /\ sock' = Write(ReadDone(sock))
          /\ UNCHANGED <<tunnelVars, upper, header, posted>>
     ELSE Release(upper, ReadDone(sock)) /\ UNCHANGED reply
  /\ UNCHANGED <<clientVars, script, asked, nego, target>>

\* The tunnel goes on to match rules, with the flow already Connected.
RequestAccepted(n) ==
  /\ nego = "ReadingRequest" /\ Negotiating(n) /\ Fits(n)
  /\ RequestOk(Arrived(n))
  /\ Assert(ReadEndHolds \cup Check("upper.Connected (request)", CanConnected(upper)))
  /\ pending' = Arrived(n)
  /\ target' = Parsed(Arrived(n))
  /\ upper' = Connected(upper)
  /\ sock' = ReadDone(sock)
  /\ stage' = "matching"
  /\ UNCHANGED <<readLoop, writeLoop, header, posted, clientVars,
                 script, asked, nego, reply>>

\* Too long, or neither acceptable nor the beginning of something acceptable.
SocksNegotiateRefused(n) ==
  /\ Negotiating(n)
  /\ LET p == Arrived(n)
     IN Fits(n) => IF nego = "ReadingVersion" THEN ~HelloMore(p) /\ ~HelloOk(p)
                                              ELSE ~RequestMore(p) /\ ~RequestOk(p)
  /\ Assert(ReadEndHolds)
  /\ Fail(ReadDone(sock))
  /\ UNCHANGED <<clientVars, script, asked, pending, nego, reply, target>>

HelloWritten == /\ stage = "opening" /\ Waiting("Write")
                /\ Assert(Check("sock.WriteEnd", CanWriteDone(sock)) \cup
                          Check("sock.ReadBegin", CanReadBegin(WriteDone(sock).fsm)))
                /\ sock' = Read(WriteDone(sock))
                /\ nego' = "ReadingRequest"
                /\ UNCHANGED <<tunnelVars, upper, header, posted, clientVars,
                               script, wire, asked, pending, reply, target>>

HelloBroke == /\ stage = "opening" /\ Waiting("Write") /\ reset
              /\ Assert(Check("sock.WriteEnd", CanWriteDone(sock)))
              /\ Fail(WriteFailed(sock))
              /\ UNCHANGED <<clientVars, negoVars>>

-----------------------------------------------------------------------------
\* The client sends its request when its hello has been answered well.
ClientAsks == /\ reply = <<5, 0>> /\ ~asked /\ ~fin /\ ~reset
              /\ asked' = TRUE
              /\ wire' = wire \o script.request
              /\ UNCHANGED <<vars, script, pending, nego, reply, target>>

\* The tunnel is gone and so are its callbacks.
SocksDone == /\ stage = "released"
             /\ \A op \in Ops : sock.cb[op] = "none"
             /\ UNCHANGED socksVars

NegotiateEof == wire = <<>> /\ NegotiationEnded

SocksShared == \/ OpenCall \/ SocketOpened \/ NegotiateEof \/ NegotiationBroke
               \/ ContinueByWrite \/ AnswerWritten \/ AnswerBroke \/ SocketContinued
               \/ ReadSome \/ ReadEnded \/ ReadBroke \/ Forwarded
               \/ WriteCall \/ Written \/ WriteBroke
               \/ CloseWriteCall \/ WriteClosed \/ CloseWriteBroke
               \/ TunnelEnds \/ DropCallback \/ Client

Negotiate(n) == \/ SocksNegotiateMore(n) \/ HelloAccepted(n) \/ RequestAccepted(n)
                \/ SocksNegotiateRefused(n)

SocksNext == \/ SocksShared /\ UNCHANGED negoVars
             \/ \E n \in 1 .. Len(wire) : Negotiate(n)
             \/ HelloWritten \/ HelloBroke \/ ClientAsks \/ SocksDone

SocksSpec == SocksInit /\ [][SocksNext]_socksVars

\* The run loop runs what is ready; the client does as it likes.
SocksLiveSpec == /\ SocksSpec
                 /\ WF_socksVars(SocketOpened /\ UNCHANGED negoVars)
                 /\ WF_socksVars(NegotiateEof /\ UNCHANGED negoVars)
                 /\ WF_socksVars(\E n \in 1 .. Len(wire) : Negotiate(n))
                 /\ WF_socksVars(HelloWritten)

-----------------------------------------------------------------------------
\* The variables have their types; pending_auth_ never overflows.
SocksTypeOK == /\ FlowTypeOK
               /\ script \in Scripts
               /\ asked \in BOOLEAN
               /\ Len(pending) <= BufferSize
               /\ nego \in {"ReadingVersion", "ReadingRequest"}
               /\ target = NoTarget \/ target \in Targets

\* AssertionsHold, but for the second Connected and for Shrink, see below.
OtherAssertionsHold ==
  failed \ {"upper.Connected", "buffer.Shrink"} # {} =>
    \/ "sock.ReadClosed" \in failed /\ stage = "released"
    \/ reset /\ sock.fsm.write_closed

\* Types, an answer on the way whenever one is due, the two layers in step, no
\* callback left after the flow, and no other assertion failed.
SocksFlowInv == SocksTypeOK /\ AnswerDue /\ LayersAgree /\ NoCallbackOutlivesFlow
                  /\ OtherAssertionsHold

\* However the request was split into reads, the session gets the endpoint the
\* client asked for, and no byte after the request has been consumed.
TargetAsAsked ==
  stage \in {"matching", "continuing", "forwarding"} =>
    target \in Targets /\ script.request = Encode(target) \o wire

\* A hello that offers no authentication, and a request for a target, that fit
\* into pending_auth_ are refused in no way of splitting them into reads.
WellSpoken == /\ HelloOk(script.hello)
              /\ \E t \in Targets : script.request = Encode(t)
              /\ Len(script.hello) <= BufferSize /\ Len(script.request) <= BufferSize

GoodClientNotRefused ==
  [][(\E n \in 1 .. Len(wire) : SocksNegotiateRefused(n)) => ~WellSpoken]_socksVars

\* A client that has sent a request of at least ten bytes, refusable or not, or
\* has closed, does not wait for an answer to Open for ever.  (A request for a
\* domain of one or two characters is shorter: NegotiateRead waits for more.)
SocksOpenAnswered ==
  (stage = "opening" /\ (fin \/ (asked /\ Len(script.request) >= 10)))
    ~> (stage # "opening")

\* The hello is answered with version 5, as README.md:23 has it ("SOCKS5
\* support"): the answer is written into the last fragment of the hello.
HelloAnsweredAsV5 == reply # <<>> => reply[1] = 5

\* BOOST_ASSERT in Connected (flow_state_machine.h:72), reached a second time
\* from socks5_server_data_flow.cc:208.
ConnectedAsserts == "upper.Connected" \notin failed

\* BOOST_ASSERT in Shrink (buffer.cc:264), reached from
\* socks5_server_data_flow.cc:325 when the last read has two bytes or less.
ShrinkAsserts == "buffer.Shrink" \notin failed
=============================================================================
