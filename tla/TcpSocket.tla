----------------------------- MODULE TcpSocket ------------------------------
(***************************************************************************)
(* transport::TcpSocket, the data flow at the end of every chain, as       *)
(* operators on a socket record: its FlowStateMachine and, per operation,  *)
(* the callback it has handed to the run loop.  Read(x) is the call, the   *)
(* operators named ReadDone, ReadEof, ReadFailed are the callback, up to   *)
(* the point where it invokes the owner's handler.  The modules that own   *)
(* sockets (Tunnel, ServerFlow, ProxyFlow, Tls) decide when each happens.  *)
(*                                                                         *)
(* The token a call returns is the one the socket keeps in its own         *)
(* cancelable slot, so cancelling either cancels the callback: it stays in *)
(* the run loop ("canceled") and, when it runs, returns at once.           *)
(***************************************************************************)
EXTENDS FlowStateMachine

Ops == {"Open", "Continue", "Connect", "Read", "Write", "CloseWrite"}

CallbackStates == {"none", "waiting", "canceled"}

Socket == [fsm : Flow, cb : [Ops -> CallbackStates]]

NewSocket(type) == [fsm |-> NewFlow(type), cb |-> [op \in Ops |-> "none"]]

\* The callbacks guarded by each of the socket's slots.
ReadSlot    == {"Read"}                  \* read_cancelable_
WriteSlot   == {"Write", "CloseWrite"}   \* write_cancelable_
ReportSlot  == {"Open", "Continue"}      \* report_cancelable_
ConnectSlot == {"Connect"}               \* connect_cancelable_

\* Cancelable::Cancel on slots: callbacks that wait will do nothing.
Cancel(x, ops) ==
  [x EXCEPT !.cb = [op \in Ops |-> IF op \in ops /\ x.cb[op] = "waiting"
                                   THEN "canceled" ELSE x.cb[op]]]

\* A call hands its callback to the run loop; a callback that runs leaves it.
Call(x, fsm, op)   == [fsm |-> fsm, cb |-> [x.cb EXCEPT ![op] = "waiting"]]
Return(x, fsm, op) == [fsm |-> fsm, cb |-> [x.cb EXCEPT ![op] = "none"]]

-----------------------------------------------------------------------------
(* Calls. *)

Open(x)     == Call(x, ConnectBegin(x.fsm), "Open")
Continue(x) == Call(x, x.fsm, "Continue")
Connect(x)  == Call(x, ConnectBegin(x.fsm), "Connect")
Read(x)     == Call(x, ReadBegin(x.fsm), "Read")
Write(x)    == Call(x, WriteBegin(x.fsm), "Write")

\* The sending half is shut down synchronously; only the report is posted.
CloseWrite(x) == Call(x, WriteCloseBegin(x.fsm), "CloseWrite")

-----------------------------------------------------------------------------
(* Callbacks. *)

OpenDone(x)     == Return(x, x.fsm, "Open")
ContinueDone(x) == Return(x, Connected(x.fsm), "Continue")

ConnectDone(x)   == Return(x, Connected(x.fsm), "Connect")
ConnectFailed(x) == Return(x, Errored(x.fsm), "Connect")

\* Mutant: ReadEnd is forgotten when data arrive.
ReadDoneStillReading(x) == Return(x, x.fsm, "Read")
ReadDone(x) == Return(x, ReadEnd(x.fsm), "Read")
ReadEof(x)  == Return(x, ReadClosed(ReadEnd(x.fsm)), "Read")

\* An error on one half silences the callback of the other half.
ReadFailed(x)  == Cancel(Return(x, Errored(ReadEnd(x.fsm)), "Read"), WriteSlot)
WriteDone(x)   == Return(x, WriteEnd(x.fsm), "Write")
WriteFailed(x) == Cancel(Return(x, Errored(WriteEnd(x.fsm)), "Write"), ReadSlot)

\* Mutant: the writing half is left closing for ever.
CloseWriteDoneStillClosing(x) == Return(x, x.fsm, "CloseWrite")

\* Whether shutdown() failed or not, the writing half is closed.
CloseWriteDone(x) == Return(x, WriteCloseEnd(x.fsm), "CloseWrite")

\* Mutant: report_cancelable_ is forgotten.
DestroyMostly(x) == Cancel(x, ReadSlot \cup WriteSlot \cup ConnectSlot)

\* ~TcpSocket
Destroy(x) == Cancel(x, ReadSlot \cup WriteSlot \cup ReportSlot \cup ConnectSlot)

-----------------------------------------------------------------------------
(* What the assertions reached by a callback require of the state machine. *)

CanContinueDone(x)   == CanConnected(x.fsm)
CanConnectDone(x)    == CanConnected(x.fsm)
CanReadDone(x)       == CanReadEnd(x.fsm)
CanReadEof(x)        == CanReadEnd(x.fsm) /\ CanReadClosed(ReadEnd(x.fsm))
CanWriteDone(x)      == CanWriteEnd(x.fsm)
CanCloseWriteDone(x) == CanWriteCloseEnd(x.fsm)

-----------------------------------------------------------------------------
(* What owners of a socket may count on between two callbacks. *)

\* A socket on which nothing but the callback op (if any) is outstanding,
\* and neither half of which has been used or closed.
At(x, state, op) ==
  /\ x.fsm.state = state
  /\ ~x.fsm.reading /\ ~x.fsm.writing
  /\ ~x.fsm.read_closed /\ ~x.fsm.write_closing /\ ~x.fsm.write_closed
  /\ \A p \in Ops : x.cb[p] = IF p = op THEN "waiting" ELSE "none"

\* The state of a socket in use is determined by its halves, and each of its
\* flags says that the callback of that name is in the run loop.
InUse(x) ==
  /\ x.cb["Open"] = "none" /\ x.cb["Continue"] = "none" /\ x.cb["Connect"] = "none"
  /\ x.cb["Read"] = IF x.fsm.reading THEN "waiting" ELSE "none"
  /\ x.cb["Write"] = IF x.fsm.writing THEN "waiting" ELSE "none"
  /\ x.cb["CloseWrite"] = IF x.fsm.write_closing THEN "waiting" ELSE "none"
  /\ ~(x.fsm.write_closing /\ x.fsm.write_closed)
  /\ x.fsm.state =
       IF x.fsm.read_closed /\ x.fsm.write_closed THEN "Closed"
       ELSE IF x.fsm.read_closed \/ x.fsm.write_closing \/ x.fsm.write_closed
            THEN "Closing" ELSE "Established"
=============================================================================
