----------------------------- MODULE ServerFlow -----------------------------
(***************************************************************************)
(* What HttpServerDataFlow and Socks5ServerDataFlow have in common: a      *)
(* local data flow stacked on a TcpSocket, driven by the local half of a   *)
(* tunnel.  It has a state machine of its own above that of the socket;    *)
(* both must step together.  This module has the state, the calls of the   *)
(* tunnel, and the forwarding phase; HttpServer and Socks5Server add the   *)
(* negotiation.                                                            *)
(*                                                                         *)
(* A failed BOOST_ASSERT is recorded and the run goes on, as in a build    *)
(* with NDEBUG.                                                            *)
(***************************************************************************)
EXTENDS TcpSocket

VARIABLES
  stage,      \* where the tunnel is: "new", "opening", "matching" (waits for
              \* the rules and the remote), "continuing", "forwarding",
              \* "released"
  readLoop,   \* ForwardLocal: "idle", "reading", "forwarding", "ended"
  writeLoop,  \* ForwardRemote: "idle", "waiting", "writing", "closing", "ended"
  upper,      \* state_machine_ of the server flow
  sock,       \* data_flow_, the TcpSocket below
  header,     \* first_header_ holds the first request (HttpServerDataFlow)
  posted,     \* callback of a Read answered from first_header_
  failed,     \* the assertions that have failed
  fin, reset  \* the client has closed its sending half; reset the connection

tunnelVars == <<stage, readLoop, writeLoop>>
flowVars   == <<upper, sock, header, posted>>
clientVars == <<fin, reset>>
vars       == <<tunnelVars, flowVars, failed, clientVars>>

InitFlow == /\ stage = "new" /\ readLoop = "idle" /\ writeLoop = "idle"
            /\ upper = NewFlow("Local")
            /\ sock = NewSocket("Local")
            /\ header = FALSE /\ posted = "none"
            /\ failed = {}
            /\ fin = FALSE /\ reset = FALSE

Waiting(op) == sock.cb[op] = "waiting"

\* The assertions that a step has seen fail are kept.
Assert(failures) == failed' = failed \cup failures

\* The tunnel is destroyed, with the flow and its socket x.
Release(u, x) == /\ stage' = "released"
                 /\ readLoop' = "idle" /\ writeLoop' = "idle"
                 /\ upper' = u
                 /\ sock' = Destroy(x)
                 /\ posted' = IF posted = "waiting" THEN "canceled" ELSE posted
                 /\ UNCHANGED header

\* An error answers a call of the tunnel, which then releases itself.
Fail(x) == Release(Errored(upper), x)

-----------------------------------------------------------------------------
(* Open and Continue. *)

OpenCall == /\ stage = "new"
            /\ stage' = "opening"
            /\ Assert(Check("upper.ConnectBegin", CanConnectBegin(upper)) \cup
                      Check("sock.ConnectBegin", CanConnectBegin(sock.fsm)))
            /\ upper' = ConnectBegin(upper)
            /\ sock' = Open(sock)
            /\ UNCHANGED <<readLoop, writeLoop, header, posted, clientVars>>

\* The socket is open: NegotiateRead.
SocketOpened == /\ Waiting("Open")
                /\ Assert(Check("sock.ReadBegin", CanReadBegin(sock.fsm)))
                /\ sock' = Read(OpenDone(sock))
                /\ UNCHANGED <<tunnelVars, upper, header, posted, clientVars>>

\* Mutant: the callback of a read is not followed by another read.
ReadNoMore == /\ Assert(Check("sock.ReadEnd", CanReadDone(sock)))
              /\ sock' = ReadDone(sock)

\* NegotiateRead needs more: it calls itself from its callback.
ReadMore == /\ Assert(Check("sock.ReadEnd", CanReadDone(sock)) \cup
                      Check("sock.ReadBegin", CanReadBegin(ReadDone(sock).fsm)))
            /\ sock' = Read(ReadDone(sock))

\* Mutant: EOF is taken for data that are not enough.
NegotiationReadsOn == /\ stage = "opening" /\ Waiting("Read") /\ fin
                      /\ sock' = Read(ReadEof(sock))
                      /\ UNCHANGED <<tunnelVars, upper, header, posted, failed, clientVars>>

\* NegotiateRead gets EOF.
NegotiationEnded == /\ stage = "opening" /\ Waiting("Read") /\ fin
                    /\ Assert(Check("sock.ReadEnd", CanReadEnd(sock.fsm)) \cup
                              Check("sock.ReadClosed", CanReadEof(sock)))
                    /\ Fail(ReadEof(sock))
                    /\ UNCHANGED clientVars

\* NegotiateRead gets another error.
NegotiationBroke == /\ stage = "opening" /\ Waiting("Read") /\ reset
                    /\ Assert(Check("sock.ReadEnd", CanReadDone(sock)))
                    /\ Fail(ReadFailed(sock))
                    /\ UNCHANGED clientVars

\* Continue with an answer to the client: Write, and Continue when it is done.
ContinueByWrite == /\ stage = "matching"
                   /\ stage' = "continuing"
                   /\ Assert(Check("sock.WriteBegin", CanWriteBegin(sock.fsm)))
                   /\ sock' = Write(sock)
                   /\ UNCHANGED <<readLoop, writeLoop, upper, header, posted, clientVars>>

\* Continue without one.
ContinueAtOnce == /\ stage = "matching"
                  /\ stage' = "continuing"
                  /\ sock' = Continue(sock)
                  /\ UNCHANGED <<readLoop, writeLoop, upper, header, posted,
                                 failed, clientVars>>

AnswerWritten == /\ stage = "continuing" /\ Waiting("Write")
                 /\ Assert(Check("sock.WriteEnd", CanWriteDone(sock)))
                 /\ sock' = Continue(WriteDone(sock))
                 /\ UNCHANGED <<tunnelVars, upper, header, posted, clientVars>>

AnswerBroke == /\ stage = "continuing" /\ Waiting("Write") /\ reset
               /\ Assert(Check("sock.WriteEnd", CanWriteDone(sock)))
               /\ Fail(WriteFailed(sock))
               /\ UNCHANGED clientVars

\* Read on the flow: from first_header_ when there is one, or from x below.
ReadFrom(u, x) == /\ upper' = ReadBegin(u)
                  /\ IF header THEN sock' = x /\ posted' = "waiting"
                     ELSE sock' = Read(x) /\ UNCHANGED posted

ReadChecks(u, x) == Check("upper.IsReadable", IsReadable(u)) \cup
                    Check("sock.ReadBegin", header \/ CanReadBegin(x.fsm))

\* The socket is established: the flow is, and the tunnel begins to forward.
SocketContinued ==
  /\ Waiting("Continue")
  /\ LET u == Connected(upper)
         x == ContinueDone(sock)
     IN /\ Assert(Check("sock.Connected", CanContinueDone(sock)) \cup
                  Check("upper.Connected", CanConnected(upper)) \cup
                  Check("upper.IsWritable", IsWritable(u)) \cup ReadChecks(u, x))
        /\ ReadFrom(u, x)
  /\ stage' = "forwarding"
  /\ readLoop' = "reading" /\ writeLoop' = "waiting"
  /\ UNCHANGED <<header, clientVars>>

-----------------------------------------------------------------------------
(* Forwarding. *)

\* Mutant: first_header_ is copied to the handler, not moved.
HeaderCopied == /\ posted = "waiting"
                /\ Assert(Check("upper.ReadEnd", CanReadEnd(upper)))
                /\ upper' = ReadEnd(upper)
                /\ posted' = "none"
                /\ readLoop' = "forwarding"
                /\ UNCHANGED <<stage, writeLoop, sock, header, clientVars>>

\* The read answered from first_header_.
HeaderRead == /\ posted = "waiting"
              /\ Assert(Check("upper.ReadEnd", CanReadEnd(upper)))
              /\ upper' = ReadEnd(upper)
              /\ posted' = "none" /\ header' = FALSE
              /\ readLoop' = "forwarding"
              /\ UNCHANGED <<stage, writeLoop, sock, clientVars>>

ForwardingRead == stage = "forwarding" /\ Waiting("Read")

ReadEndChecks == Check("sock.ReadEnd", CanReadDone(sock)) \cup
                 Check("upper.ReadEnd", CanReadEnd(upper))

ReadSome == /\ ForwardingRead
            /\ Assert(ReadEndChecks)
            /\ upper' = ReadEnd(upper)
            /\ sock' = ReadDone(sock)
            /\ readLoop' = "forwarding"
            /\ UNCHANGED <<stage, writeLoop, header, posted, clientVars>>

\* After EOF the tunnel closes the other side; this half has been read.
ReadEnded == /\ ForwardingRead /\ fin
             /\ Assert(ReadEndChecks \cup
                       Check("sock.ReadClosed", CanReadEof(sock)) \cup
                       Check("upper.ReadClosed", CanReadClosed(ReadEnd(upper))))
             /\ upper' = ReadClosed(ReadEnd(upper))
             /\ sock' = ReadEof(sock)
             /\ readLoop' = "ended"
             /\ UNCHANGED <<stage, writeLoop, header, posted, clientVars>>

ReadBroke == /\ ForwardingRead /\ reset
             /\ Assert(ReadEndChecks)
             /\ Fail(ReadFailed(sock))
             /\ UNCHANGED clientVars

\* The data read have been written to the remote flow: the loop goes on.
Forwarded == /\ readLoop = "forwarding"
             /\ Assert(ReadChecks(upper, sock))
             /\ ReadFrom(upper, sock)
             /\ readLoop' = "reading"
             /\ UNCHANGED <<stage, writeLoop, header, clientVars>>

\* Data from the remote flow.
WriteCall == /\ writeLoop = "waiting"
             /\ Assert(Check("upper.WriteBegin", CanWriteBegin(upper)) \cup
                       Check("sock.WriteBegin", CanWriteBegin(sock.fsm)))
             /\ upper' = WriteBegin(upper)
             /\ sock' = Write(sock)
             /\ writeLoop' = "writing"
             /\ UNCHANGED <<stage, readLoop, header, posted, clientVars>>

WriteEndChecks == Check("sock.WriteEnd", CanWriteDone(sock)) \cup
                  Check("upper.WriteEnd", CanWriteEnd(upper))

Written == /\ writeLoop = "writing" /\ Waiting("Write")
           /\ Assert(WriteEndChecks \cup
                     Check("upper.IsWritable", IsWritable(WriteEnd(upper))))
           /\ upper' = WriteEnd(upper)
           /\ sock' = WriteDone(sock)
           /\ writeLoop' = "waiting"
           /\ UNCHANGED <<stage, readLoop, header, posted, clientVars>>

WriteBroke == /\ writeLoop = "writing" /\ Waiting("Write") /\ reset
              /\ Assert(WriteEndChecks)
              /\ Fail(WriteFailed(sock))
              /\ UNCHANGED clientVars

\* EOF from the remote flow.
CloseWriteCall ==
  /\ writeLoop = "waiting"
  /\ IF IsWriteClosable(upper)
     THEN /\ Assert(Check("upper.WriteCloseBegin", CanWriteCloseBegin(upper)) \cup
                    Check("sock.WriteCloseBegin", CanWriteCloseBegin(sock.fsm)))
          /\ upper' = WriteCloseBegin(upper)
          /\ sock' = CloseWrite(sock)
          /\ writeLoop' = "closing"
     ELSE writeLoop' = "ended" /\ UNCHANGED <<upper, sock, failed>>
  /\ UNCHANGED <<stage, readLoop, header, posted, clientVars>>

WriteClosed ==
  /\ Waiting("CloseWrite")
  /\ Assert(Check("sock.WriteCloseEnd", CanCloseWriteDone(sock)) \cup
            Check("upper.WriteCloseEnd", CanWriteCloseEnd(upper)))
  /\ upper' = WriteCloseEnd(upper)
  /\ sock' = CloseWriteDone(sock)
  /\ writeLoop' = "ended"
  /\ UNCHANGED <<stage, readLoop, header, posted, clientVars>>

\* shutdown() failed, as it does on a connection the client has reset: the
\* flow is errored, the socket below is not, and the tunnel does not care.
CloseWriteBroke ==
  /\ Waiting("CloseWrite") /\ reset
  /\ Assert(Check("sock.WriteCloseEnd", CanCloseWriteDone(sock)) \cup
            Check("upper.WriteCloseEnd", CanWriteCloseEnd(upper)))
  /\ upper' = Errored(WriteCloseEnd(upper))
  /\ sock' = CloseWriteDone(sock)
  /\ writeLoop' = "ended"
  /\ UNCHANGED <<stage, readLoop, header, posted, clientVars>>

-----------------------------------------------------------------------------
(* The tunnel's end, cancelled callbacks, and the client. *)

\* A timeout, an error elsewhere, CloseAll, or both flows closed.
TunnelEnds == /\ stage \notin {"new", "released"}
              /\ Release(upper, sock)
              /\ UNCHANGED <<failed, clientVars>>

DropCallback == /\ \E op \in Ops : /\ sock.cb[op] = "canceled"
                                   /\ sock' = Return(sock, sock.fsm, op)
                /\ UNCHANGED <<tunnelVars, upper, header, posted, failed, clientVars>>

DropPosted == /\ posted = "canceled"
              /\ posted' = "none"
              /\ UNCHANGED <<tunnelVars, upper, sock, header, failed, clientVars>>

ClientCloses == /\ ~fin /\ ~reset
                /\ fin' = TRUE
                /\ UNCHANGED <<tunnelVars, flowVars, failed, reset>>

ClientResets == /\ ~reset
                /\ reset' = TRUE
                /\ UNCHANGED <<tunnelVars, flowVars, failed, fin>>

Forwarding == \/ HeaderRead \/ ReadSome \/ ReadEnded \/ ReadBroke \/ Forwarded
              \/ WriteCall \/ Written \/ WriteBroke
              \/ CloseWriteCall \/ WriteClosed \/ CloseWriteBroke

Ending == TunnelEnds \/ DropCallback \/ DropPosted

Client == ClientCloses \/ ClientResets

-----------------------------------------------------------------------------
(* Properties of both server flows. *)

\* The variables have their types, the loops run only while the tunnel
\* forwards, and a read is answered from first_header_ only while it is there.
FlowTypeOK ==
  /\ stage \in {"new", "opening", "matching", "continuing", "forwarding", "released"}
  /\ readLoop \in {"idle", "reading", "forwarding", "ended"}
  /\ writeLoop \in {"idle", "waiting", "writing", "closing", "ended"}
  /\ upper \in Flow
  /\ sock \in Socket
  /\ header \in BOOLEAN
  /\ posted \in CallbackStates
  /\ fin \in BOOLEAN /\ reset \in BOOLEAN
  /\ stage # "forwarding" => readLoop = "idle" /\ writeLoop = "idle"
  /\ posted # "none" => header

\* Every call the tunnel has made is going to be answered: some callback that
\* has not been cancelled will run the tunnel's handler or make the next call
\* on the way to it.  Cancelling one half on an error of the other
\* (tcp_socket.cc:131, 187) never silences a call whose caller still waits.
AnswerDue ==
  /\ stage = "opening" => \E op \in {"Open", "Read", "Write"} : Waiting(op)
  /\ stage = "continuing" => Waiting("Write") \/ Waiting("Continue")
  /\ readLoop = "reading" => Waiting("Read") \/ posted = "waiting"
  /\ writeLoop = "writing" => Waiting("Write")
  /\ writeLoop = "closing" => Waiting("CloseWrite")

\* While it forwards, a flow and the socket below it have the same state, but
\* for a read answered from first_header_; only a half-close that failed on a
\* connection reset leaves an errored flow above a socket that is not.
LayersAgree ==
  stage = "forwarding" =>
    \/ upper = [sock.fsm EXCEPT !.reading = @ \/ posted = "waiting"]
    \/ reset /\ sock.fsm.write_closed

\* An assertion fails for two reasons only: the client closes while it is still
\* negotiating (the socket is Establishing, which ReadClosed does not accept),
\* or a half-close failed and the errored flow is used again.  Forwarding in
\* both directions, half-closes included, never makes one fail.
AssertionsHold ==
  failed # {} => \/ failed = {"sock.ReadClosed"} /\ stage = "released"
                 \/ reset /\ sock.fsm.write_closed

\* BOOST_ASSERT in ReadClosed (flow_state_machine.h:88-89), reached from
\* tcp_socket.cc:125 when the client closes during the negotiation.
ReadClosedAsserts == "sock.ReadClosed" \notin failed

\* BOOST_ASSERT in ReadEnd (flow_state_machine.h:83), reached from
\* the Read callback of the server flow after a failed CloseWrite.
ReadEndAsserts == "upper.ReadEnd" \notin failed

\* After the flow is destroyed no callback that waits would run its code.
NoCallbackOutlivesFlow ==
  stage = "released" => /\ \A op \in Ops : ~Waiting(op)
                        /\ posted # "waiting"
=============================================================================
