-------------------------- MODULE TcpSocketProofs ---------------------------
(***************************************************************************)
(* Facts about the operators on flows and sockets, for the modules that    *)
(* own sockets.                                                            *)
(***************************************************************************)
EXTENDS TcpSocket, TLAPS

\* Every transition of the state machine yields a flow of the same type.
LEMMA FlowType ==
  ASSUME NEW f \in Flow
  PROVE  /\ ConnectBegin(f) \in Flow
         /\ Connected(f) \in Flow
         /\ ReadBegin(f) \in Flow
         /\ ReadEnd(f) \in Flow
         /\ ReadClosed(f) \in Flow
         /\ WriteBegin(f) \in Flow
         /\ WriteEnd(f) \in Flow
         /\ WriteCloseBegin(f) \in Flow
         /\ WriteCloseEnd(f) \in Flow
         /\ Errored(f) \in Flow
  BY DEF Flow, States, ConnectBegin, Connected, ReadBegin, ReadEnd, ReadClosed,
         WriteBegin, WriteEnd, WriteCloseBegin, WriteCloseEnd, Errored

\* What the run loop holds for a socket keeps its shape.
LEMMA CallbackType ==
  ASSUME NEW x \in Socket, NEW f \in Flow, NEW op \in Ops, NEW ops
  PROVE  /\ Call(x, f, op) \in Socket
         /\ Return(x, f, op) \in Socket
         /\ Cancel(x, ops) \in Socket
         /\ Destroy(x) \in Socket
  BY DEF Socket, Call, Return, Cancel, Destroy, CallbackStates

\* A new socket is a socket.
LEMMA NewSocketType ==
  ASSUME NEW type \in Types
  PROVE  NewSocket(type) \in Socket
  BY DEF NewSocket, NewFlow, Socket, Flow, States, CallbackStates

\* Every call and every callback of a socket yields a socket.
LEMMA SocketType ==
  ASSUME NEW x \in Socket
  PROVE  /\ Open(x) \in Socket
         /\ Continue(x) \in Socket
         /\ Connect(x) \in Socket
         /\ Read(x) \in Socket
         /\ Write(x) \in Socket
         /\ CloseWrite(x) \in Socket
         /\ OpenDone(x) \in Socket
         /\ ContinueDone(x) \in Socket
         /\ ConnectDone(x) \in Socket
         /\ ConnectFailed(x) \in Socket
         /\ ReadDone(x) \in Socket
         /\ ReadEof(x) \in Socket
         /\ ReadFailed(x) \in Socket
         /\ WriteDone(x) \in Socket
         /\ WriteFailed(x) \in Socket
         /\ CloseWriteDone(x) \in Socket
         /\ Destroy(x) \in Socket
<1> DEFINE f == x.fsm
<1>1. f \in Flow
  BY DEF Socket
<1>2. /\ ReadEnd(f) \in Flow
      /\ WriteEnd(f) \in Flow
  BY <1>1, FlowType
<1>3. /\ Errored(ReadEnd(f)) \in Flow
      /\ Errored(WriteEnd(f)) \in Flow
      /\ ReadClosed(ReadEnd(f)) \in Flow
  BY <1>2, FlowType
<1>4. {"Open", "Continue", "Connect", "Read", "Write", "CloseWrite"} \subseteq Ops
  BY DEF Ops
<1>5. /\ Open(x) \in Socket
      /\ Continue(x) \in Socket
      /\ Connect(x) \in Socket
      /\ Read(x) \in Socket
      /\ Write(x) \in Socket
      /\ CloseWrite(x) \in Socket
  BY <1>1, <1>4, FlowType, CallbackType
     DEF Open, Continue, Connect, Read, Write, CloseWrite
<1>6. /\ OpenDone(x) \in Socket
      /\ ContinueDone(x) \in Socket
      /\ ConnectDone(x) \in Socket
      /\ ConnectFailed(x) \in Socket
      /\ ReadDone(x) \in Socket
      /\ ReadEof(x) \in Socket
      /\ WriteDone(x) \in Socket
      /\ CloseWriteDone(x) \in Socket
  BY <1>1, <1>2, <1>3, <1>4, FlowType, CallbackType
     DEF OpenDone, ContinueDone, ConnectDone, ConnectFailed, ReadDone, ReadEof,
         WriteDone, CloseWriteDone
<1>7. ReadFailed(x) \in Socket /\ WriteFailed(x) \in Socket
  BY <1>3, <1>4, CallbackType DEF ReadFailed, WriteFailed
<1>8. Destroy(x) \in Socket
  BY <1>1, <1>4, CallbackType
<1> QED
  BY <1>5, <1>6, <1>7, <1>8

-----------------------------------------------------------------------------
(* What a call or a callback does to a socket in use. *)

LEMMA ReadUses ==
  ASSUME NEW x \in Socket, InUse(x), ~x.fsm.reading, ~x.fsm.read_closed
  PROVE  /\ IsReadable(x.fsm)
         /\ InUse(Read(x))
         /\ Read(x).fsm = [x.fsm EXCEPT !.reading = TRUE]
  BY DEF InUse, Read, Call, ReadBegin, IsReadable, Usable, Socket, Flow, Ops

LEMMA WriteUses ==
  ASSUME NEW x \in Socket, InUse(x),
         ~x.fsm.writing, ~x.fsm.write_closing, ~x.fsm.write_closed
  PROVE  /\ IsWritable(x.fsm)
         /\ InUse(Write(x))
         /\ Write(x).fsm = [x.fsm EXCEPT !.writing = TRUE]
  BY DEF InUse, Write, Call, WriteBegin, IsWritable, Usable, Socket, Flow, Ops

LEMMA CloseWriteUses ==
  ASSUME NEW x \in Socket, InUse(x),
         ~x.fsm.writing, ~x.fsm.write_closing, ~x.fsm.write_closed
  PROVE  /\ CanWriteCloseBegin(x.fsm)
         /\ InUse(CloseWrite(x))
         /\ CloseWrite(x).fsm = [x.fsm EXCEPT !.state = "Closing",
                                              !.writing = FALSE,
                                              !.write_closing = TRUE]
  BY DEF InUse, CloseWrite, Call, WriteCloseBegin, CanWriteCloseBegin, Socket,
         Flow, Ops

LEMMA ReadDoneUses ==
  ASSUME NEW x \in Socket, InUse(x), x.cb["Read"] = "waiting"
  PROVE  /\ x.fsm.reading
         /\ InUse(ReadDone(x))
         /\ ReadDone(x).fsm = [x.fsm EXCEPT !.reading = FALSE]
  BY DEF InUse, ReadDone, Return, ReadEnd, Socket, Flow, Ops

LEMMA ReadEofUses ==
  ASSUME NEW x \in Socket, InUse(x), x.cb["Read"] = "waiting",
         ~x.fsm.read_closed
  PROVE  /\ CanReadEof(x)
         /\ InUse(ReadEof(x))
         /\ ReadEof(x).fsm =
              [x.fsm EXCEPT !.reading = FALSE,
                            !.read_closed = TRUE,
                            !.state = IF x.fsm.write_closed THEN "Closed"
                                                            ELSE "Closing"]
  BY DEF InUse, ReadEof, Return, ReadEnd, ReadClosed, CanReadEof, CanReadEnd,
         CanReadClosed, Socket, Flow, Ops

LEMMA WriteDoneUses ==
  ASSUME NEW x \in Socket, InUse(x), x.cb["Write"] = "waiting"
  PROVE  /\ x.fsm.writing
         /\ InUse(WriteDone(x))
         /\ WriteDone(x).fsm = [x.fsm EXCEPT !.writing = FALSE]
  BY DEF InUse, WriteDone, Return, WriteEnd, Socket, Flow, Ops

LEMMA CloseWriteDoneUses ==
  ASSUME NEW x \in Socket, InUse(x), x.cb["CloseWrite"] = "waiting"
  PROVE  /\ x.fsm.write_closing
         /\ InUse(CloseWriteDone(x))
         /\ CloseWriteDone(x).fsm =
              [x.fsm EXCEPT !.write_closing = FALSE,
                            !.write_closed = TRUE,
                            !.state = IF x.fsm.read_closed THEN "Closed"
                                                           ELSE @]
  BY DEF InUse, CloseWriteDone, Return, WriteCloseEnd, Socket, Flow, Ops

\* ~TcpSocket leaves no callback that would run.
LEMMA DestroySilences ==
  ASSUME NEW x \in Socket, NEW op \in Ops
  PROVE  Destroy(x).cb[op] # "waiting"
  BY DEF Destroy, Cancel, Socket, Ops, ReadSlot, WriteSlot, ReportSlot,
         ConnectSlot

-----------------------------------------------------------------------------
(* A socket that does one thing at a time. *)

Silenced(x) == \A op \in Ops : x.cb[op] # "waiting"

\* A socket in use of which nothing has been closed, and on which nothing but
\* op, if anything, is under way.
Doing(x, op) == /\ InUse(x)
                /\ x.fsm.reading <=> op = "Read"
                /\ x.fsm.writing <=> op = "Write"
                /\ ~x.fsm.read_closed /\ ~x.fsm.write_closing /\ ~x.fsm.write_closed

LEMMA DoingCallbacks ==
  ASSUME NEW x, NEW op, Doing(x, op)
  PROVE  /\ \A p \in Ops :
              x.cb[p] = IF p = op /\ op \in {"Read", "Write"} THEN "waiting" ELSE "none"
         /\ op = "-" => Silenced(x)
<1>1. \A p \in Ops : x.cb[p] = IF p = op /\ op \in {"Read", "Write"} THEN "waiting" ELSE "none"
  BY DEF Doing, InUse, Ops
<1> QED
  BY <1>1 DEF Silenced

LEMMA AtCallbacks ==
  ASSUME NEW x, NEW state, NEW op, At(x, state, op)
  PROVE  /\ \A p \in Ops : x.cb[p] = IF p = op THEN "waiting" ELSE "none"
         /\ op = "-" => Silenced(x)
  BY DEF At, Ops, Silenced

LEMMA CallNames ==
  /\ {"Open", "Continue", "Connect", "Read", "Write", "CloseWrite"} = Ops
  /\ "-" \notin Ops
  BY DEF Ops

\* Connect, and its callback.
LEMMA ConnectBegins ==
  ASSUME NEW x \in Socket, At(x, "Init", "-")
  PROVE  /\ Connect(x) \in Socket /\ At(Connect(x), "Establishing", "Connect")
<1>1. Connect(x) \in Socket
  BY SocketType
<1>2. /\ Connect(x).fsm = [x.fsm EXCEPT !.state = "Establishing"]
      /\ \A p \in Ops : Connect(x).cb[p] = IF p = "Connect" THEN "waiting" ELSE x.cb[p]
  BY CallNames DEF Connect, Call, ConnectBegin, Socket
<1>3. \A p \in Ops : Connect(x).cb[p] = IF p = "Connect" THEN "waiting" ELSE "none"
  BY <1>2, CallNames DEF At
<1>4. x.fsm \in Flow
  BY DEF Socket
<1> QED
  BY <1>1, <1>2, <1>3, <1>4 DEF At, Flow

LEMMA ConnectReturns ==
  ASSUME NEW x \in Socket, At(x, "Establishing", "Connect")
  PROVE  /\ ConnectDone(x) \in Socket /\ Doing(ConnectDone(x), "-")
         /\ ConnectFailed(x) \in Socket /\ Silenced(ConnectFailed(x))
<1>1. ConnectDone(x) \in Socket /\ ConnectFailed(x) \in Socket
  BY SocketType
<1>2. /\ ConnectDone(x).fsm = [x.fsm EXCEPT !.state = "Established"]
      /\ \A p \in Ops : /\ ConnectDone(x).cb[p] = IF p = "Connect" THEN "none" ELSE x.cb[p]
                        /\ ConnectFailed(x).cb[p] = IF p = "Connect" THEN "none" ELSE x.cb[p]
  BY CallNames DEF ConnectDone, ConnectFailed, Return, Connected, Socket
<1>3. \A p \in Ops : ConnectDone(x).cb[p] = "none" /\ ConnectFailed(x).cb[p] = "none"
  BY <1>2, AtCallbacks
<1>4. x.fsm \in Flow
  BY DEF Socket
<1>5. Doing(ConnectDone(x), "-")
  BY <1>2, <1>3, <1>4, CallNames DEF At, Flow, Doing, InUse
<1> QED
  BY <1>1, <1>3, <1>5 DEF Silenced

LEMMA DoingCalls ==
  ASSUME NEW x \in Socket, Doing(x, "-")
  PROVE  /\ Read(x) \in Socket /\ CanReadBegin(x.fsm) /\ Doing(Read(x), "Read")
         /\ Write(x) \in Socket /\ Doing(Write(x), "Write")
<1>1. Read(x) \in Socket /\ Write(x) \in Socket /\ x.fsm \in Flow
  BY SocketType DEF Socket
<1>2. /\ IsReadable(x.fsm) /\ InUse(Read(x)) /\ Read(x).fsm = [x.fsm EXCEPT !.reading = TRUE]
      /\ InUse(Write(x)) /\ Write(x).fsm = [x.fsm EXCEPT !.writing = TRUE]
  BY ReadUses, WriteUses DEF Doing
<1> QED
  BY <1>1, <1>2 DEF Doing, CanReadBegin, Flow

LEMMA DoingRead ==
  ASSUME NEW x \in Socket, Doing(x, "Read")
  PROVE  /\ CanReadDone(x) /\ ReadDone(x) \in Socket /\ Doing(ReadDone(x), "-")
         /\ CanReadEof(x) /\ ReadEof(x) \in Socket
         /\ Silenced(ReadEof(x)) /\ ReadEof(x).fsm.state # "Established"
         /\ ReadFailed(x) \in Socket
         /\ Silenced(ReadFailed(x)) /\ ReadFailed(x).fsm.state # "Established"
<1>1. /\ ReadDone(x) \in Socket /\ ReadEof(x) \in Socket /\ ReadFailed(x) \in Socket
      /\ x.fsm \in Flow
  BY SocketType DEF Socket
<1>2. \A p \in Ops : x.cb[p] = IF p = "Read" THEN "waiting" ELSE "none"
  BY DoingCallbacks
<1>3. /\ x.fsm.reading /\ InUse(ReadDone(x)) /\ ReadDone(x).fsm = [x.fsm EXCEPT !.reading = FALSE]
      /\ CanReadEof(x)
      /\ ReadEof(x).fsm = [x.fsm EXCEPT !.reading = FALSE, !.read_closed = TRUE,
                             !.state = IF x.fsm.write_closed THEN "Closed" ELSE "Closing"]
  BY <1>2, CallNames, ReadDoneUses, ReadEofUses DEF Doing
<1>4. \A p \in Ops : /\ ReadEof(x).cb[p] = IF p = "Read" THEN "none" ELSE x.cb[p]
                     /\ ReadFailed(x).cb[p] # "waiting"
  BY <1>2, CallNames DEF ReadEof, ReadFailed, Return, Cancel, Socket
<1>5. ReadFailed(x).fsm.state = "Closed"
  <2>1. ReadFailed(x).fsm = Errored(ReadEnd(x.fsm))
    BY DEF ReadFailed, Cancel, Return
  <2> QED
    BY <1>1, <2>1, FlowType DEF Errored, Flow
<1>6. ReadEof(x).fsm.state # "Established"
  BY <1>1, <1>3 DEF Flow
<1> QED
  BY <1>1, <1>2, <1>3, <1>4, <1>5, <1>6 DEF Doing, CanReadDone, CanReadEnd, Flow, Silenced

LEMMA DoingWrite ==
  ASSUME NEW x \in Socket, Doing(x, "Write")
  PROVE  /\ CanWriteDone(x) /\ WriteDone(x) \in Socket /\ Doing(WriteDone(x), "-")
         /\ WriteFailed(x) \in Socket /\ Silenced(WriteFailed(x))
<1>1. WriteDone(x) \in Socket /\ WriteFailed(x) \in Socket /\ x.fsm \in Flow
  BY SocketType DEF Socket
<1>2. \A p \in Ops : x.cb[p] = IF p = "Write" THEN "waiting" ELSE "none"
  BY DoingCallbacks
<1>3. x.fsm.writing /\ InUse(WriteDone(x)) /\ WriteDone(x).fsm = [x.fsm EXCEPT !.writing = FALSE]
  BY <1>2, CallNames, WriteDoneUses DEF Doing
<1>4. \A p \in Ops : WriteFailed(x).cb[p] # "waiting"
  BY <1>2, CallNames DEF WriteFailed, Return, Cancel, Socket
<1> QED
  BY <1>1, <1>3, <1>4 DEF Doing, CanWriteDone, CanWriteEnd, Flow, Silenced
=============================================================================
