-------------------------- MODULE ServerFlowProofs --------------------------
(***************************************************************************)
(* The server flows of HTTP and SOCKS5 and the socket below each, through  *)
(* negotiation, forwarding and release: every call of the tunnel is going  *)
(* to be answered, the two state machines step together, and nothing       *)
(* outlives the flow.  What ServerFlow has of both is proved once, for any *)
(* set K of assertions that the flow's own negotiation may fail.           *)
(***************************************************************************)
EXTENDS HttpServer, Socks5Server, SequenceTheorems, TcpSocketProofs

-----------------------------------------------------------------------------
(* The inductive invariant: what is true at each stage.                    *)

\* Neither half of f has been used.
Unused(f, state) == /\ f.state = state
                    /\ ~f.reading /\ ~f.writing
                    /\ ~f.read_closed /\ ~f.write_closing /\ ~f.write_closed

\* A socket whose owner negotiates: op, if any, is all that is under way.
Negotiates(x, op) ==
  /\ x.fsm.state = "Establishing"
  /\ x.fsm.reading <=> op = "Read"
  /\ x.fsm.writing <=> op = "Write"
  /\ ~x.fsm.read_closed /\ ~x.fsm.write_closing /\ ~x.fsm.write_closed
  /\ \A p \in Ops : x.cb[p] = IF p = op THEN "waiting" ELSE "none"

Fresh == stage = "new" => Unused(upper, "Init") /\ At(sock, "Init", "-")

Opening == stage = "opening" =>
  /\ Unused(upper, "Establishing")
  /\ \E op \in {"Open", "Read", "Write"} : Negotiates(sock, op)

\* A flow that calls Connected when it has negotiated does so again later.
Ready(K) == \/ Unused(upper, "Establishing")
            \/ Unused(upper, "Established") /\ "upper.Connected" \in K

Matching(K) == stage = "matching" => Ready(K) /\ Negotiates(sock, "-")

Continuing(K) == stage = "continuing" =>
  Ready(K) /\ \E op \in {"Write", "Continue"} : Negotiates(sock, op)

\* Before the tunnel forwards nothing is posted, and nothing else has failed.
Early(K) == stage \notin {"forwarding", "released"} =>
  posted = "none" /\ failed \subseteq K

\* A half-close has failed.
Broken == reset /\ sock.fsm.write_closed

\* Each loop of the tunnel is where the socket's machine says.
ReadPlace ==
  /\ readLoop # "idle"
  /\ header <=> posted = "waiting"
  /\ ~header => posted = "none"
  /\ readLoop = "reading" <=> sock.fsm.reading \/ header
  /\ ~(sock.fsm.reading /\ header)
  /\ readLoop = "ended" <=> sock.fsm.read_closed

WritePlace ==
  /\ writeLoop # "idle"
  /\ writeLoop = "writing" <=> sock.fsm.writing
  /\ writeLoop = "closing" <=> sock.fsm.write_closing
  /\ writeLoop = "ended" <=> sock.fsm.write_closed

\* u has the state of f, but for a read answered from first_header_ (h).
Agree(u, f, h) ==
  /\ u.state = f.state
  /\ u.reading <=> f.reading \/ h
  /\ u.writing = f.writing
  /\ u.read_closed = f.read_closed
  /\ u.write_closing = f.write_closing
  /\ u.write_closed = f.write_closed

Forwards(K) == stage = "forwarding" =>
  /\ InUse(sock)
  /\ ReadPlace /\ WritePlace
  /\ Broken \/ (Agree(upper, sock.fsm, header) /\ failed \subseteq K)

Local == stage # "released" => upper.type = "Local" /\ sock.fsm.type = "Local"

Failures(K) == \/ failed \subseteq K
               \/ stage = "released" /\ failed \subseteq K \cup {"sock.ReadClosed"}
               \/ Broken

Common(K) == /\ FlowTypeOK /\ Local
             /\ Fresh /\ Opening /\ Matching(K) /\ Continuing(K) /\ Early(K)
             /\ Forwards(K) /\ NoCallbackOutlivesFlow /\ Failures(K)

-----------------------------------------------------------------------------
(* A socket whose owner negotiates.                                        *)

\* Parts of a socket after a call and after a callback.
LEMMA CallParts ==
  ASSUME NEW x \in Socket, NEW f, NEW op \in Ops
  PROVE  /\ Call(x, f, op).fsm = f /\ Return(x, f, op).fsm = f
         /\ \A p \in Ops : /\ Call(x, f, op).cb[p] = IF p = op THEN "waiting" ELSE x.cb[p]
                           /\ Return(x, f, op).cb[p] = IF p = op THEN "none" ELSE x.cb[p]
  BY DEF Socket, Call, Return

\* The operations by name.
LEMMA OpNames ==
  /\ "Open" \in Ops /\ "Continue" \in Ops /\ "Connect" \in Ops
  /\ "Read" \in Ops /\ "Write" \in Ops /\ "CloseWrite" \in Ops /\ "-" \notin Ops
  BY DEF Ops

\* Open is the first call.
LEMMA OpenNegotiates ==
  ASSUME NEW x \in Socket, At(x, "Init", "-")
  PROVE  /\ CanConnectBegin(x.fsm)
         /\ Negotiates(Open(x), "Open") /\ Open(x).fsm.type = x.fsm.type
<1>1. x.fsm \in Flow
  BY DEF Socket
<1>2. /\ Open(x).fsm = ConnectBegin(x.fsm)
      /\ \A p \in Ops : Open(x).cb[p] = IF p = "Open" THEN "waiting" ELSE x.cb[p]
  BY CallParts, OpNames DEF Open
<1>3. /\ \A p \in Ops : Open(x).cb[p] = IF p = "Open" THEN "waiting" ELSE "none"
  BY <1>2, OpNames DEF At
<1> QED
  BY <1>1, <1>2, <1>3 DEF At, Negotiates, ConnectBegin, CanConnectBegin, Flow

\* The callback of Open reads.
LEMMA OpenedReads ==
  ASSUME NEW x \in Socket, Negotiates(x, "Open"), x.fsm.type = "Local"
  PROVE  /\ CanReadBegin(x.fsm)
         /\ Negotiates(Read(OpenDone(x)), "Read")
         /\ Read(OpenDone(x)).fsm.type = "Local"
<1> DEFINE y == OpenDone(x)
<1>1. x.fsm \in Flow /\ y \in Socket
  BY SocketType DEF Socket
<1>2. /\ y.fsm = x.fsm
      /\ \A p \in Ops : y.cb[p] = IF p = "Open" THEN "none" ELSE x.cb[p]
  BY CallParts, OpNames DEF OpenDone
<1>3. /\ Read(y).fsm = ReadBegin(x.fsm)
      /\ \A p \in Ops : Read(y).cb[p] = IF p = "Read" THEN "waiting" ELSE y.cb[p]
  BY <1>1, <1>2, CallParts, OpNames DEF Read
<1>4. \A p \in Ops : Read(y).cb[p] = IF p = "Read" THEN "waiting" ELSE "none"
  BY <1>2, <1>3, OpNames DEF Negotiates
<1>5. /\ ReadBegin(x.fsm).state = "Establishing" /\ ReadBegin(x.fsm).reading
      /\ ~ReadBegin(x.fsm).writing /\ ~ReadBegin(x.fsm).read_closed
      /\ ~ReadBegin(x.fsm).write_closing /\ ~ReadBegin(x.fsm).write_closed
      /\ ReadBegin(x.fsm).type = "Local"
  BY <1>1 DEF ReadBegin, Negotiates, Flow
<1>6. CanReadBegin(x.fsm)
  BY DEF Negotiates, CanReadBegin, IsReadable, Usable
<1> QED
  BY <1>3, <1>4, <1>5, <1>6 DEF Negotiates

\* The callback of a read, and then nothing or another call.
LEMMA ReadNegotiates ==
  ASSUME NEW x \in Socket, Negotiates(x, "Read"), x.fsm.type = "Local"
  PROVE  /\ CanReadDone(x) /\ ReadDone(x) \in Socket
         /\ Negotiates(ReadDone(x), "-") /\ ReadDone(x).fsm.type = "Local"
<1>1. x.fsm \in Flow
  BY DEF Socket
<1>2. /\ ReadDone(x).fsm = ReadEnd(x.fsm)
      /\ \A p \in Ops : ReadDone(x).cb[p] = IF p = "Read" THEN "none" ELSE x.cb[p]
  BY CallParts, OpNames DEF ReadDone
<1>3. \A p \in Ops : ReadDone(x).cb[p] = IF p = "-" THEN "waiting" ELSE "none"
  BY <1>2, OpNames DEF Negotiates
<1>4. /\ ReadEnd(x.fsm).state = "Establishing" /\ ~ReadEnd(x.fsm).reading
      /\ ~ReadEnd(x.fsm).writing /\ ~ReadEnd(x.fsm).read_closed
      /\ ~ReadEnd(x.fsm).write_closing /\ ~ReadEnd(x.fsm).write_closed
      /\ ReadEnd(x.fsm).type = "Local"
  BY <1>1 DEF ReadEnd, Negotiates, Flow
<1>5. CanReadDone(x)
  BY DEF Negotiates, CanReadDone, CanReadEnd
<1> QED
  BY <1>2, <1>3, <1>4, <1>5, SocketType DEF Negotiates

\* The callback of a write, likewise.
LEMMA WriteNegotiates ==
  ASSUME NEW x \in Socket, Negotiates(x, "Write"), x.fsm.type = "Local"
  PROVE  /\ CanWriteDone(x) /\ WriteDone(x) \in Socket
         /\ Negotiates(WriteDone(x), "-") /\ WriteDone(x).fsm.type = "Local"
<1>1. x.fsm \in Flow
  BY DEF Socket
<1>2. /\ WriteDone(x).fsm = WriteEnd(x.fsm)
      /\ \A p \in Ops : WriteDone(x).cb[p] = IF p = "Write" THEN "none" ELSE x.cb[p]
  BY CallParts, OpNames DEF WriteDone
<1>3. \A p \in Ops : WriteDone(x).cb[p] = IF p = "-" THEN "waiting" ELSE "none"
  BY <1>2, OpNames DEF Negotiates
<1>4. /\ WriteEnd(x.fsm).state = "Establishing" /\ ~WriteEnd(x.fsm).reading
      /\ ~WriteEnd(x.fsm).writing /\ ~WriteEnd(x.fsm).read_closed
      /\ ~WriteEnd(x.fsm).write_closing /\ ~WriteEnd(x.fsm).write_closed
      /\ WriteEnd(x.fsm).type = "Local"
  BY <1>1 DEF WriteEnd, Negotiates, Flow
<1>5. CanWriteDone(x)
  BY DEF Negotiates, CanWriteDone, CanWriteEnd
<1> QED
  BY <1>2, <1>3, <1>4, <1>5, SocketType DEF Negotiates

\* A socket on which nothing is under way may be called again.
LEMMA IdleCalls ==
  ASSUME NEW x \in Socket, Negotiates(x, "-"), x.fsm.type = "Local"
  PROVE  /\ CanReadBegin(x.fsm) /\ CanWriteBegin(x.fsm)
         /\ Negotiates(Read(x), "Read") /\ Read(x).fsm.type = "Local"
         /\ Negotiates(Write(x), "Write") /\ Write(x).fsm.type = "Local"
         /\ Negotiates(Continue(x), "Continue") /\ Continue(x).fsm.type = "Local"
<1>1. x.fsm \in Flow /\ \A p \in Ops : x.cb[p] = "none"
  BY OpNames DEF Socket, Negotiates
<1>2. /\ Read(x).fsm = ReadBegin(x.fsm)
      /\ Write(x).fsm = WriteBegin(x.fsm)
      /\ Continue(x).fsm = x.fsm
      /\ \A p \in Ops : /\ Read(x).cb[p] = IF p = "Read" THEN "waiting" ELSE "none"
                        /\ Write(x).cb[p] = IF p = "Write" THEN "waiting" ELSE "none"
                        /\ Continue(x).cb[p] = IF p = "Continue" THEN "waiting" ELSE "none"
  BY <1>1, CallParts, OpNames DEF Read, Write, Continue
<1>3. /\ ReadBegin(x.fsm).state = "Establishing" /\ ReadBegin(x.fsm).reading
      /\ ~ReadBegin(x.fsm).writing /\ ~ReadBegin(x.fsm).read_closed
      /\ ~ReadBegin(x.fsm).write_closing /\ ~ReadBegin(x.fsm).write_closed
      /\ ReadBegin(x.fsm).type = "Local"
  BY <1>1 DEF ReadBegin, Negotiates, Flow
<1>4. /\ WriteBegin(x.fsm).state = "Establishing" /\ ~WriteBegin(x.fsm).reading
      /\ WriteBegin(x.fsm).writing /\ ~WriteBegin(x.fsm).read_closed
      /\ ~WriteBegin(x.fsm).write_closing /\ ~WriteBegin(x.fsm).write_closed
      /\ WriteBegin(x.fsm).type = "Local"
  BY <1>1 DEF WriteBegin, Negotiates, Flow
<1>5. CanReadBegin(x.fsm) /\ CanWriteBegin(x.fsm)
  BY DEF Negotiates, CanReadBegin, IsReadable, CanWriteBegin, IsWritable, Usable
<1> QED
  BY <1>2, <1>3, <1>4, <1>5 DEF Negotiates

\* The callback of Continue leaves a socket in use of which nothing has been used.
LEMMA ContinueInUse ==
  ASSUME NEW x \in Socket, Negotiates(x, "Continue")
  PROVE  /\ CanContinueDone(x) /\ ContinueDone(x) \in Socket
         /\ InUse(ContinueDone(x)) /\ Unused(ContinueDone(x).fsm, "Established")
         /\ ContinueDone(x).fsm.type = x.fsm.type
<1>1. x.fsm \in Flow
  BY DEF Socket
<1>2. /\ ContinueDone(x).fsm = Connected(x.fsm)
      /\ \A p \in Ops : ContinueDone(x).cb[p] = IF p = "Continue" THEN "none" ELSE x.cb[p]
  BY CallParts, OpNames DEF ContinueDone
<1>3. \A p \in Ops : ContinueDone(x).cb[p] = "none"
  BY <1>2 DEF Negotiates
<1>4. Unused(Connected(x.fsm), "Established") /\ Connected(x.fsm).type = x.fsm.type
  BY <1>1 DEF Connected, Negotiates, Flow, Unused
<1>5. CanContinueDone(x)
  BY DEF CanContinueDone, CanConnected, Negotiates
<1> QED
  BY <1>2, <1>3, <1>4, <1>5, OpNames, SocketType DEF InUse, Unused

-----------------------------------------------------------------------------
(* Ends and assertions.                                                    *)

\* A destroyed socket has the machine it had, and no callback that will run.
LEMMA DestroyParts ==
  ASSUME NEW x \in Socket
  PROVE  /\ Destroy(x).fsm = x.fsm /\ Destroy(x) \in Socket
         /\ \A op \in Ops : Destroy(x).cb[op] # "waiting"
  BY SocketType DEF Destroy, Cancel, Socket, Ops, ReadSlot, WriteSlot, ReportSlot, ConnectSlot

\* Whatever the stage, a release leaves the flow as it has to.
LEMMA ReleaseStep ==
  ASSUME NEW K, Common(K), NEW u \in Flow, NEW x \in Socket, Release(u, x),
         UNCHANGED clientVars,
         \/ failed' \subseteq K \cup {"sock.ReadClosed"}
         \/ reset /\ x.fsm.write_closed
  PROVE  Common(K)'
<1> USE DEF Common, Release, clientVars
<1>1. sock'.fsm = x.fsm /\ sock' \in Socket /\ \A op \in Ops : sock'.cb[op] # "waiting"
  BY DestroyParts
<1>2. FlowTypeOK'
  BY <1>1 DEF FlowTypeOK, CallbackStates
<1>3. Failures(K)'
  BY <1>1 DEF Failures, Broken
<1>4. NoCallbackOutlivesFlow'
  BY <1>1 DEF NoCallbackOutlivesFlow, Waiting
<1>5. (Local /\ Fresh /\ Opening /\ Matching(K) /\ Continuing(K) /\ Early(K) /\ Forwards(K))'
  BY DEF Local, Fresh, Opening, Matching, Continuing, Early, Forwards
<1> QED
  BY <1>2, <1>3, <1>4, <1>5

\* Before the tunnel forwards, a step to another such stage is fine when the
\* stage is.
LEMMA EarlyStep ==
  ASSUME NEW K, Common(K), stage \notin {"forwarding", "released"},
         stage' \notin {"forwarding", "released"},
         FlowTypeOK', Local', failed' \subseteq K, posted' = posted,
         (Fresh /\ Opening /\ Matching(K) /\ Continuing(K))'
  PROVE  Common(K)'
<1>1. posted = "none"
  BY DEF Common, Early
<1> QED
  BY <1>1 DEF Common, Early, Forwards, NoCallbackOutlivesFlow, Failures

\* While it forwards, a step that keeps what Forwards says keeps all.
LEMMA ForwardingStep ==
  ASSUME NEW K, Common(K), stage' = "forwarding", FlowTypeOK', Local', Forwards(K)'
  PROVE  Common(K)'
  BY DEF Common, Fresh, Opening, Matching, Continuing, Early, Forwards, Failures,
         NoCallbackOutlivesFlow

-----------------------------------------------------------------------------
(* Opening and continuing.                                                 *)

\* At the start nothing has been used.
LEMMA InitCommon == ASSUME NEW K, InitFlow PROVE Common(K)
<1> USE DEF InitFlow
<1>1. upper \in Flow /\ sock \in Socket
  BY NewSocketType DEF Types, NewFlow, Flow, States
<1>2. FlowTypeOK
  BY <1>1 DEF FlowTypeOK, CallbackStates
<1>3. Unused(upper, "Init") /\ At(sock, "Init", "-") /\ Local
  BY OpNames DEF Unused, At, Local, NewFlow, NewSocket
<1> QED
  BY <1>2, <1>3 DEF Common, Fresh, Opening, Matching, Continuing, Early, Forwards,
     NoCallbackOutlivesFlow, Failures

LEMMA OpenCallStep == ASSUME NEW K, Common(K), OpenCall PROVE Common(K)'
<1> USE DEF OpenCall
<1>1. /\ Unused(upper, "Init") /\ At(sock, "Init", "-")
      /\ upper \in Flow /\ upper.type = "Local"
      /\ sock \in Socket /\ sock.fsm.type = "Local"
      /\ failed \subseteq K
  BY DEF Common, Fresh, Early, FlowTypeOK, Local
<1>2. /\ CanConnectBegin(sock.fsm) /\ Negotiates(Open(sock), "Open")
      /\ Open(sock).fsm.type = "Local" /\ Open(sock) \in Socket
  BY <1>1, OpenNegotiates, SocketType
<1>3. /\ CanConnectBegin(upper) /\ Unused(ConnectBegin(upper), "Establishing")
      /\ ConnectBegin(upper).type = "Local" /\ ConnectBegin(upper) \in Flow
  BY <1>1, FlowType DEF Unused, CanConnectBegin, ConnectBegin, Flow
<1>4. failed' \subseteq K
  BY <1>1, <1>2, <1>3 DEF Assert, Check
<1>5. FlowTypeOK' /\ Local'
  BY <1>2, <1>3 DEF Common, FlowTypeOK, Local, clientVars
<1>6. (Fresh /\ Opening /\ Matching(K) /\ Continuing(K))'
  BY <1>2, <1>3 DEF Fresh, Opening, Matching, Continuing
<1> QED
  BY <1>4, <1>5, <1>6, EarlyStep

\* What the callbacks find that only run before the tunnel forwards.
LEMMA OpeningState ==
  ASSUME NEW K, Common(K), stage = "opening"
  PROVE  /\ Unused(upper, "Establishing") /\ upper \in Flow /\ upper.type = "Local"
         /\ sock \in Socket /\ sock.fsm.type = "Local" /\ failed \subseteq K
         /\ \A op \in {"Open", "Read", "Write"} : Waiting(op) => Negotiates(sock, op)
<1>1. PICK op \in {"Open", "Read", "Write"} : Negotiates(sock, op)
  BY DEF Common, Opening
<1>2. \A p \in {"Open", "Read", "Write"} : Waiting(p) => p = op
  BY <1>1, OpNames DEF Negotiates, Waiting
<1> QED
  BY <1>1, <1>2 DEF Common, Opening, Early, FlowTypeOK, Local

LEMMA ContinuingState ==
  ASSUME NEW K, Common(K), stage = "continuing"
  PROVE  /\ Ready(K) /\ upper \in Flow /\ upper.type = "Local"
         /\ sock \in Socket /\ sock.fsm.type = "Local" /\ failed \subseteq K
         /\ \A op \in {"Continue", "Write"} : Waiting(op) => Negotiates(sock, op)
<1>1. PICK op \in {"Continue", "Write"} : Negotiates(sock, op)
  BY DEF Common, Continuing
<1>2. \A p \in {"Continue", "Write"} : Waiting(p) => p = op
  BY <1>1, OpNames DEF Negotiates, Waiting
<1> QED
  BY <1>1, <1>2 DEF Common, Continuing, Early, FlowTypeOK, Local

\* The callbacks of Open, Continue and CloseWrite run at their own stage only.
LEMMA StageOfCallback ==
  ASSUME NEW K, Common(K)
  PROVE  /\ Waiting("Open") => stage = "opening"
         /\ Waiting("Continue") => stage = "continuing"
         /\ Waiting("CloseWrite") => stage = "forwarding"
<1> DEFINE called == \E op \in {"Open", "Continue", "CloseWrite"} : Waiting(op)
<1>1. stage \in {"new", "opening", "matching", "continuing", "forwarding", "released"}
  BY DEF Common, FlowTypeOK
<1>2. stage = "new" => ~called
  BY OpNames DEF Common, Fresh, At, Waiting
<1>3. stage = "opening" => ~Waiting("Continue") /\ ~Waiting("CloseWrite")
  BY OpNames DEF Common, Opening, Negotiates, Waiting
<1>4. stage = "matching" => ~called
  BY OpNames DEF Common, Matching, Negotiates, Waiting
<1>5. stage = "continuing" => ~Waiting("Open") /\ ~Waiting("CloseWrite")
  BY OpNames DEF Common, Continuing, Negotiates, Waiting
<1>6. stage = "forwarding" => ~Waiting("Open") /\ ~Waiting("Continue")
  BY DEF Common, Forwards, InUse, Waiting
<1>7. stage = "released" => ~called
  BY OpNames DEF Common, NoCallbackOutlivesFlow
<1> QED
  BY <1>1, <1>2, <1>3, <1>4, <1>5, <1>6, <1>7

LEMMA SocketOpenedStep == ASSUME NEW K, Common(K), SocketOpened PROVE Common(K)'
<1> USE DEF SocketOpened
<1>1. stage = "opening"
  BY StageOfCallback
<1>2. /\ Unused(upper, "Establishing") /\ Negotiates(sock, "Open")
      /\ sock \in Socket /\ sock.fsm.type = "Local" /\ failed \subseteq K
  BY <1>1, OpeningState
<1>3. /\ CanReadBegin(sock.fsm) /\ Negotiates(Read(OpenDone(sock)), "Read")
      /\ Read(OpenDone(sock)).fsm.type = "Local" /\ Read(OpenDone(sock)) \in Socket
  BY <1>2, OpenedReads, SocketType
<1>4. failed' \subseteq K
  BY <1>2, <1>3 DEF Assert, Check
<1>5. FlowTypeOK' /\ Local'
  BY <1>1, <1>3 DEF Common, FlowTypeOK, Local, clientVars, tunnelVars
<1>6. (Fresh /\ Opening /\ Matching(K) /\ Continuing(K))'
  BY <1>1, <1>2, <1>3 DEF Fresh, Opening, Matching, Continuing, tunnelVars
<1> QED
  BY <1>1, <1>4, <1>5, <1>6, EarlyStep DEF tunnelVars

\* A flow that negotiates and reads or writes next.
LEMMA NegotiationStep ==
  ASSUME NEW K, Common(K), stage = "opening", UNCHANGED <<tunnelVars, upper, posted, clientVars>>,
         failed' \subseteq K, sock' \in Socket, sock'.fsm.type = "Local", header' \in BOOLEAN,
         \E op \in {"Open", "Read", "Write"} : Negotiates(sock', op)
  PROVE  Common(K)'
<1>1. Unused(upper, "Establishing") /\ upper.type = "Local" /\ posted = "none"
  BY OpeningState DEF Common, Early
<1>2. FlowTypeOK' /\ Local'
  BY <1>1 DEF Common, FlowTypeOK, Local, clientVars, tunnelVars
<1>3. (Fresh /\ Opening /\ Matching(K) /\ Continuing(K))'
  BY <1>1 DEF Fresh, Opening, Matching, Continuing, tunnelVars
<1> QED
  BY <1>2, <1>3, EarlyStep DEF tunnelVars

LEMMA ReadMoreStep ==
  ASSUME NEW K, Common(K), stage = "opening", Waiting("Read"), ReadMore,
         UNCHANGED <<tunnelVars, upper, posted, clientVars>>, header' \in BOOLEAN
  PROVE  Common(K)'
<1>1. Negotiates(sock, "Read") /\ sock \in Socket /\ sock.fsm.type = "Local" /\ failed \subseteq K
  BY OpeningState
<1>2. /\ CanReadDone(sock) /\ ReadDone(sock) \in Socket
      /\ Negotiates(ReadDone(sock), "-") /\ ReadDone(sock).fsm.type = "Local"
  BY <1>1, ReadNegotiates
<1>3. /\ CanReadBegin(ReadDone(sock).fsm) /\ Negotiates(Read(ReadDone(sock)), "Read")
      /\ Read(ReadDone(sock)).fsm.type = "Local" /\ Read(ReadDone(sock)) \in Socket
  BY <1>2, IdleCalls, SocketType
<1>4. failed' \subseteq K
  BY <1>1, <1>2, <1>3 DEF ReadMore, Assert, Check
<1> QED
  BY <1>3, <1>4, NegotiationStep DEF ReadMore

\* An error of the flow while nothing but what K has failed.
LEMMA FailStep ==
  ASSUME NEW K, Common(K), NEW x \in Socket, Fail(x), UNCHANGED clientVars,
         failed' \subseteq K \cup {"sock.ReadClosed"}
  PROVE  Common(K)'
<1>1. Errored(upper) \in Flow
  BY FlowType DEF Common, FlowTypeOK
<1> QED
  BY <1>1, ReleaseStep DEF Fail

LEMMA NegotiationEndedStep == ASSUME NEW K, Common(K), NegotiationEnded PROVE Common(K)'
<1> USE DEF NegotiationEnded
<1>1. Negotiates(sock, "Read") /\ sock \in Socket /\ sock.fsm.type = "Local" /\ failed \subseteq K
  BY OpeningState
<1>2. CanReadEnd(sock.fsm) /\ ReadEof(sock) \in Socket
  BY <1>1, ReadNegotiates, SocketType DEF CanReadDone
<1>3. failed' \subseteq K \cup {"sock.ReadClosed"}
  BY <1>1, <1>2 DEF Assert, Check
<1> QED
  BY <1>2, <1>3, FailStep

LEMMA NegotiationBrokeStep == ASSUME NEW K, Common(K), NegotiationBroke PROVE Common(K)'
<1> USE DEF NegotiationBroke
<1>1. Negotiates(sock, "Read") /\ sock \in Socket /\ sock.fsm.type = "Local" /\ failed \subseteq K
  BY OpeningState
<1>2. CanReadDone(sock) /\ ReadFailed(sock) \in Socket
  BY <1>1, ReadNegotiates, SocketType
<1>3. failed' \subseteq K
  BY <1>1, <1>2 DEF Assert, Check
<1> QED
  BY <1>2, <1>3, FailStep

\* A step to a stage that continues.
LEMMA ContinuationStep ==
  ASSUME NEW K, Common(K), stage \in {"matching", "continuing"}, stage' = "continuing",
         UNCHANGED <<readLoop, writeLoop, upper, header, posted, clientVars>>,
         failed' \subseteq K, sock' \in Socket, sock'.fsm.type = "Local",
         \E op \in {"Write", "Continue"} : Negotiates(sock', op)
  PROVE  Common(K)'
<1>1. Ready(K) /\ upper.type = "Local" /\ posted = "none"
  BY DEF Common, Matching, Continuing, Early, Local
<1>2. FlowTypeOK' /\ Local'
  BY <1>1 DEF Common, FlowTypeOK, Local, clientVars
<1>3. Ready(K)'
  BY <1>1 DEF Ready
<1>4. (Fresh /\ Opening /\ Matching(K) /\ Continuing(K))'
  BY <1>3 DEF Fresh, Opening, Matching, Continuing
<1> QED
  BY <1>2, <1>4, EarlyStep

LEMMA MatchingState ==
  ASSUME NEW K, Common(K), stage = "matching"
  PROVE  /\ Ready(K) /\ Negotiates(sock, "-") /\ sock \in Socket
         /\ sock.fsm.type = "Local" /\ failed \subseteq K
  BY DEF Common, Matching, Early, FlowTypeOK, Local

LEMMA ContinueByWriteStep == ASSUME NEW K, Common(K), ContinueByWrite PROVE Common(K)'
<1> USE DEF ContinueByWrite
<1>1. /\ Negotiates(sock, "-") /\ sock \in Socket /\ sock.fsm.type = "Local"
      /\ failed \subseteq K
  BY MatchingState
<1>2. /\ CanWriteBegin(sock.fsm) /\ Negotiates(Write(sock), "Write")
      /\ Write(sock).fsm.type = "Local" /\ Write(sock) \in Socket
  BY <1>1, IdleCalls, SocketType
<1>3. failed' \subseteq K
  BY <1>1, <1>2 DEF Assert, Check
<1> QED
  BY <1>2, <1>3, ContinuationStep

LEMMA ContinueAtOnceStep == ASSUME NEW K, Common(K), ContinueAtOnce PROVE Common(K)'
<1> USE DEF ContinueAtOnce
<1>1. /\ Negotiates(sock, "-") /\ sock \in Socket /\ sock.fsm.type = "Local"
      /\ failed \subseteq K
  BY MatchingState
<1>2. /\ Negotiates(Continue(sock), "Continue")
      /\ Continue(sock).fsm.type = "Local" /\ Continue(sock) \in Socket
  BY <1>1, IdleCalls, SocketType
<1> QED
  BY <1>1, <1>2, ContinuationStep

LEMMA AnswerWrittenStep == ASSUME NEW K, Common(K), AnswerWritten PROVE Common(K)'
<1> USE DEF AnswerWritten
<1>1. /\ Negotiates(sock, "Write") /\ sock \in Socket /\ sock.fsm.type = "Local"
      /\ failed \subseteq K
  BY ContinuingState
<1>2. /\ CanWriteDone(sock) /\ WriteDone(sock) \in Socket
      /\ Negotiates(WriteDone(sock), "-") /\ WriteDone(sock).fsm.type = "Local"
  BY <1>1, WriteNegotiates
<1>3. /\ Negotiates(Continue(WriteDone(sock)), "Continue")
      /\ Continue(WriteDone(sock)).fsm.type = "Local" /\ Continue(WriteDone(sock)) \in Socket
  BY <1>2, IdleCalls, SocketType
<1>4. failed' \subseteq K
  BY <1>1, <1>2 DEF Assert, Check
<1> QED
  BY <1>3, <1>4, ContinuationStep DEF tunnelVars

LEMMA AnswerBrokeStep == ASSUME NEW K, Common(K), AnswerBroke PROVE Common(K)'
<1> USE DEF AnswerBroke
<1>1. /\ Negotiates(sock, "Write") /\ sock \in Socket /\ sock.fsm.type = "Local"
      /\ failed \subseteq K
  BY ContinuingState
<1>2. CanWriteDone(sock) /\ WriteFailed(sock) \in Socket
  BY <1>1, WriteNegotiates, SocketType
<1>3. failed' \subseteq K
  BY <1>1, <1>2 DEF Assert, Check
<1> QED
  BY <1>2, <1>3, FailStep

-----------------------------------------------------------------------------
(* Forwarding.                                                             *)

\* What is known of the flow while the tunnel forwards.
LEMMA ForwardingState ==
  ASSUME NEW K, Common(K), stage = "forwarding"
  PROVE  /\ InUse(sock) /\ ReadPlace /\ WritePlace
         /\ sock \in Socket /\ sock.fsm \in Flow /\ sock.fsm.type = "Local"
         /\ upper \in Flow /\ upper.type = "Local" /\ header \in BOOLEAN
         /\ Broken \/ (Agree(upper, sock.fsm, header) /\ failed \subseteq K)
  BY DEF Common, Forwards, FlowTypeOK, Local, Socket

\* The loops run only then.
LEMMA LoopsForward ==
  ASSUME NEW K, Common(K)
  PROVE  /\ readLoop # "idle" => stage = "forwarding"
         /\ writeLoop # "idle" => stage = "forwarding"
         /\ posted = "waiting" => stage = "forwarding"
<1>1. readLoop # "idle" \/ writeLoop # "idle" => stage = "forwarding"
  BY DEF Common, FlowTypeOK
<1>2. posted = "waiting" => stage = "forwarding"
  BY DEF Common, Early, NoCallbackOutlivesFlow
<1> QED
  BY <1>1, <1>2

\* The state of a flow in use, of either layer, is what its halves make it.
Halves(f) == f.state = IF f.read_closed /\ f.write_closed THEN "Closed"
                       ELSE IF f.read_closed \/ f.write_closing \/ f.write_closed
                       THEN "Closing" ELSE "Established"

LEMMA UpperReads ==
  ASSUME NEW u \in Flow, NEW f \in Flow, NEW h \in BOOLEAN, Halves(f),
         Agree(u, f, FALSE), ~f.reading, ~f.read_closed
  PROVE  /\ IsReadable(u) /\ ReadBegin(u) \in Flow /\ ReadBegin(u).type = u.type
         /\ Agree(ReadBegin(u), f, TRUE)
         /\ Agree(ReadBegin(u), [f EXCEPT !.reading = TRUE], FALSE)
<1>1. IsReadable(u)
  BY DEF Agree, Halves, IsReadable, Usable, Flow
<1>2. ReadBegin(u) \in Flow /\ ReadBegin(u).type = u.type
  BY FlowType DEF ReadBegin, Flow
<1>3. Agree(ReadBegin(u), f, TRUE)
  BY DEF Agree, ReadBegin, Flow
<1>4. Agree(ReadBegin(u), [f EXCEPT !.reading = TRUE], FALSE)
  BY DEF Agree, ReadBegin, Flow
<1> QED
  BY <1>1, <1>2, <1>3, <1>4

\* No transition changes the type of a flow.
LEMMA TypeKept ==
  ASSUME NEW f \in Flow
  PROVE  /\ Connected(f).type = f.type
         /\ ReadBegin(f).type = f.type /\ ReadEnd(f).type = f.type
         /\ ReadClosed(f).type = f.type
         /\ WriteBegin(f).type = f.type /\ WriteEnd(f).type = f.type
         /\ WriteCloseBegin(f).type = f.type /\ WriteCloseEnd(f).type = f.type
         /\ Errored(f).type = f.type
  BY DEF Flow, Connected, ReadBegin, ReadEnd, ReadClosed, WriteBegin, WriteEnd,
         WriteCloseBegin, WriteCloseEnd, Errored

LEMMA UpperReadEnds ==
  ASSUME NEW u \in Flow, NEW f \in Flow, NEW h \in BOOLEAN,
         Agree(u, f, h), f.reading \/ h
  PROVE  /\ CanReadEnd(u)
         /\ ~f.reading => Agree(ReadEnd(u), f, FALSE)
         /\ Agree(ReadEnd(u), [f EXCEPT !.reading = FALSE], FALSE)
<1>1. CanReadEnd(u)
  BY DEF Agree, CanReadEnd
<1>2. ~f.reading => Agree(ReadEnd(u), f, FALSE)
  BY DEF Agree, ReadEnd, Flow
<1>3. Agree(ReadEnd(u), [f EXCEPT !.reading = FALSE], FALSE)
  BY DEF Agree, ReadEnd, Flow
<1> QED
  BY <1>1, <1>2, <1>3

LEMMA UpperReadEof ==
  ASSUME NEW u \in Flow, NEW f \in Flow, Halves(f), Agree(u, f, FALSE), ~f.read_closed
  PROVE  /\ CanReadClosed(ReadEnd(u))
         /\ Agree(ReadClosed(ReadEnd(u)),
                  [f EXCEPT !.reading = FALSE,
                            !.read_closed = TRUE,
                            !.state = IF f.write_closed THEN "Closed" ELSE "Closing"],
                  FALSE)
<1>1. /\ ReadEnd(u).state = f.state /\ ~ReadEnd(u).reading
      /\ ReadEnd(u).writing = f.writing /\ ReadEnd(u).read_closed = f.read_closed
      /\ ReadEnd(u).write_closing = f.write_closing
      /\ ReadEnd(u).write_closed = f.write_closed
      /\ ReadEnd(u) \in Flow
  BY FlowType DEF Agree, ReadEnd, Flow
<1>2. f.state \in {"Established", "Closing"} /\ (f.state = "Established" => ~f.write_closed)
  BY DEF Halves
<1>3. CanReadClosed(ReadEnd(u))
  BY <1>1, <1>2 DEF CanReadClosed
<1>4. Agree(ReadClosed(ReadEnd(u)),
            [f EXCEPT !.reading = FALSE,
                      !.read_closed = TRUE,
                      !.state = IF f.write_closed THEN "Closed" ELSE "Closing"],
            FALSE)
  BY <1>1, <1>2 DEF Agree, ReadClosed, Flow
<1> QED
  BY <1>3, <1>4

LEMMA UpperWrites ==
  ASSUME NEW u \in Flow, NEW f \in Flow, NEW h \in BOOLEAN, Halves(f), Agree(u, f, h),
         ~f.writing, ~f.write_closing, ~f.write_closed
  PROVE  /\ CanWriteBegin(u) /\ IsWriteClosable(u) /\ CanWriteCloseBegin(u)
         /\ Agree(WriteBegin(u), [f EXCEPT !.writing = TRUE], h)
         /\ Agree(WriteCloseBegin(u), [f EXCEPT !.state = "Closing",
                                                !.writing = FALSE,
                                                !.write_closing = TRUE], h)
<1>1. CanWriteBegin(u) /\ IsWriteClosable(u) /\ CanWriteCloseBegin(u)
  BY DEF Agree, Halves, CanWriteBegin, IsWriteClosable, IsWritable, Usable,
         CanWriteCloseBegin
<1>2. Agree(WriteBegin(u), [f EXCEPT !.writing = TRUE], h)
  BY DEF Agree, WriteBegin, Flow
<1>3. Agree(WriteCloseBegin(u), [f EXCEPT !.state = "Closing",
                                          !.writing = FALSE,
                                          !.write_closing = TRUE], h)
  BY DEF Agree, WriteCloseBegin, Flow
<1> QED
  BY <1>1, <1>2, <1>3

LEMMA UpperWriteEnds ==
  ASSUME NEW u \in Flow, NEW f \in Flow, NEW h \in BOOLEAN, Halves(f), Agree(u, f, h),
         f.writing, ~f.write_closing, ~f.write_closed
  PROVE  /\ CanWriteEnd(u) /\ IsWritable(WriteEnd(u))
         /\ Agree(WriteEnd(u), [f EXCEPT !.writing = FALSE], h)
<1>1. Agree(WriteEnd(u), [f EXCEPT !.writing = FALSE], h) /\ WriteEnd(u).state = f.state
  BY DEF Agree, WriteEnd, Flow
<1>2. /\ ~WriteEnd(u).writing /\ ~WriteEnd(u).write_closing
      /\ ~WriteEnd(u).write_closed
  BY DEF Agree, WriteEnd, Flow
<1>3. IsWritable(WriteEnd(u))
  BY <1>1, <1>2 DEF Halves, IsWritable, Usable
<1>4. CanWriteEnd(u)
  BY DEF Agree, CanWriteEnd
<1> QED
  BY <1>1, <1>3, <1>4

LEMMA UpperCloseEnds ==
  ASSUME NEW u \in Flow, NEW f \in Flow, NEW h \in BOOLEAN, Agree(u, f, h), f.write_closing
  PROVE  /\ CanWriteCloseEnd(u)
         /\ Agree(WriteCloseEnd(u), WriteCloseEnd(f), h)
<1>1. CanWriteCloseEnd(u)
  BY DEF Agree, CanWriteCloseEnd
<1>2. Agree(WriteCloseEnd(u), WriteCloseEnd(f), h)
  BY DEF Agree, WriteCloseEnd, Flow
<1> QED
  BY <1>1, <1>2

LEMMA HalvesInUse == ASSUME NEW x, InUse(x) PROVE Halves(x.fsm)
  BY DEF InUse, Halves

\* A step of a loop.
LEMMA LoopStep ==
  ASSUME NEW K, Common(K), stage' = "forwarding", UNCHANGED clientVars,
         sock' \in Socket, sock'.fsm.type = "Local", InUse(sock'),
         upper' \in Flow, upper'.type = "Local",
         header' \in BOOLEAN, posted' \in CallbackStates,
         readLoop' \in {"reading", "forwarding", "ended"},
         writeLoop' \in {"waiting", "writing", "closing", "ended"},
         ReadPlace', WritePlace',
         Broken' \/ (Agree(upper', sock'.fsm, header') /\ failed' \subseteq K)
  PROVE  Common(K)'
<1>1. FlowTypeOK'
  BY DEF Common, FlowTypeOK, clientVars, ReadPlace
<1>2. Local' /\ Forwards(K)'
  BY DEF Local, Forwards
<1> QED
  BY <1>1, <1>2, ForwardingStep

\* Read on the flow, from first_header_ or from below.
LEMMA ReadFromStep ==
  ASSUME NEW u \in Flow, NEW x \in Socket, InUse(x), ~x.fsm.reading, ~x.fsm.read_closed,
         ReadFrom(u, x), header \in BOOLEAN, posted = "none", UNCHANGED header
  PROVE  /\ sock' \in Socket /\ InUse(sock') /\ sock'.fsm.type = x.fsm.type
         /\ sock'.fsm.reading <=> ~header
         /\ sock'.fsm.read_closed = x.fsm.read_closed
         /\ sock'.fsm.writing = x.fsm.writing
         /\ sock'.fsm.write_closing = x.fsm.write_closing
         /\ sock'.fsm.write_closed = x.fsm.write_closed
         /\ posted' = IF header THEN "waiting" ELSE "none"
         /\ upper' \in Flow /\ upper'.type = u.type
         /\ CanReadBegin(x.fsm)
         /\ Agree(u, x.fsm, FALSE) =>
              IsReadable(u) /\ Agree(upper', sock'.fsm, header')
<1> USE DEF ReadFrom
<1>1. x.fsm \in Flow /\ Halves(x.fsm)
  BY HalvesInUse DEF Socket
<1>2. upper' \in Flow /\ upper'.type = u.type
  BY FlowType, TypeKept
<1>3. CanReadBegin(x.fsm)
  BY ReadUses DEF CanReadBegin
<1>4. CASE header
  <2>1. Agree(u, x.fsm, FALSE) => IsReadable(u) /\ Agree(upper', sock'.fsm, TRUE)
    BY <1>1, <1>4, UpperReads
  <2> QED
    BY <1>2, <1>3, <1>4, <2>1
<1>5. CASE ~header
  <2>1. Agree(u, x.fsm, FALSE) =>
          IsReadable(u) /\ Agree(upper', [x.fsm EXCEPT !.reading = TRUE], FALSE)
    BY <1>1, UpperReads
  <2>2. sock' = Read(x) /\ InUse(Read(x)) /\ Read(x).fsm = [x.fsm EXCEPT !.reading = TRUE]
    BY <1>5, ReadUses
  <2>3. /\ sock'.fsm.type = x.fsm.type /\ sock'.fsm.reading
        /\ sock'.fsm.read_closed = x.fsm.read_closed
        /\ sock'.fsm.writing = x.fsm.writing
        /\ sock'.fsm.write_closing = x.fsm.write_closing
        /\ sock'.fsm.write_closed = x.fsm.write_closed
    BY <1>1, <2>2 DEF Flow
  <2>4. posted' = "none" /\ sock' \in Socket
    BY <1>5, <2>2, SocketType
  <2> QED
    BY <1>2, <1>3, <1>5, <2>1, <2>2, <2>3, <2>4
<1> QED
  BY <1>4, <1>5

\* The tunnel begins to forward.
LEMMA SocketContinuedStep == ASSUME NEW K, Common(K), SocketContinued PROVE Common(K)'
<1> DEFINE u == Connected(upper)
           x == ContinueDone(sock)
<1>1. /\ Waiting("Continue") /\ ReadFrom(u, x) /\ stage' = "forwarding"
      /\ readLoop' = "reading" /\ writeLoop' = "waiting"
      /\ UNCHANGED header /\ UNCHANGED clientVars
      /\ Assert(Check("sock.Connected", CanContinueDone(sock)) \cup
                Check("upper.Connected", CanConnected(upper)) \cup
                Check("upper.IsWritable", IsWritable(u)) \cup ReadChecks(u, x))
  BY DEF SocketContinued
<1>2. stage = "continuing"
  BY <1>1, StageOfCallback
<1>3. /\ Ready(K) /\ upper \in Flow /\ upper.type = "Local"
      /\ sock \in Socket /\ sock.fsm.type = "Local" /\ failed \subseteq K
      /\ Negotiates(sock, "Continue") /\ header \in BOOLEAN /\ posted = "none"
  BY <1>1, <1>2, ContinuingState DEF Common, FlowTypeOK, Early
<1>4. /\ CanContinueDone(sock) /\ x \in Socket /\ x.fsm \in Flow
      /\ InUse(x) /\ Unused(x.fsm, "Established") /\ x.fsm.type = "Local"
  BY <1>3, ContinueInUse DEF Socket
<1>5. /\ u \in Flow /\ u.type = "Local" /\ Unused(u, "Established")
      /\ Check("upper.Connected", CanConnected(upper)) \subseteq K
  <2>1. u \in Flow /\ u.type = "Local"
    BY <1>3, FlowType, TypeKept
  <2>2. Unused(u, "Established")
    BY <1>3 DEF Ready, Unused, Connected, Flow
  <2>3. Check("upper.Connected", CanConnected(upper)) \subseteq K
    BY <1>3 DEF Ready, Unused, CanConnected, Check
  <2> QED
    BY <2>1, <2>2, <2>3
<1>6. Agree(u, x.fsm, FALSE) /\ IsWritable(u)
  BY <1>4, <1>5 DEF Unused, Agree, IsWritable, Usable, Flow
<1>7. /\ sock' \in Socket /\ InUse(sock') /\ sock'.fsm.type = "Local"
      /\ sock'.fsm.reading <=> ~header
      /\ ~sock'.fsm.read_closed /\ ~sock'.fsm.writing
      /\ ~sock'.fsm.write_closing /\ ~sock'.fsm.write_closed
      /\ posted' = IF header THEN "waiting" ELSE "none"
      /\ upper' \in Flow /\ upper'.type = "Local"
      /\ CanReadBegin(x.fsm) /\ IsReadable(u) /\ Agree(upper', sock'.fsm, header')
  <2>1. ~x.fsm.reading /\ ~x.fsm.read_closed /\ ~x.fsm.writing /\ ~x.fsm.write_closing
        /\ ~x.fsm.write_closed
    BY <1>4 DEF Unused
  <2> QED
    BY <1>1, <1>3, <1>4, <1>5, <1>6, <2>1, ReadFromStep
<1>8. failed' \subseteq K
  BY <1>1, <1>3, <1>4, <1>5, <1>6, <1>7 DEF Assert, Check, ReadChecks
<1>9. ReadPlace' /\ WritePlace'
  BY <1>1, <1>3, <1>7 DEF ReadPlace, WritePlace
<1> QED
  BY <1>1, <1>3, <1>7, <1>8, <1>9, LoopStep DEF CallbackStates

LEMMA HeaderReadStep == ASSUME NEW K, Common(K), HeaderRead PROVE Common(K)'
<1> USE DEF HeaderRead
<1>1. stage = "forwarding"
  BY LoopsForward
<1>2. /\ InUse(sock) /\ ReadPlace /\ WritePlace
      /\ sock \in Socket /\ sock.fsm \in Flow /\ sock.fsm.type = "Local"
      /\ upper \in Flow /\ upper.type = "Local"
      /\ Broken \/ (Agree(upper, sock.fsm, header) /\ failed \subseteq K)
      /\ header /\ ~sock.fsm.reading /\ readLoop = "reading" /\ ~sock.fsm.read_closed
  BY <1>1, ForwardingState DEF ReadPlace
<1>3. upper' \in Flow /\ upper'.type = "Local"
  BY <1>2, FlowType, TypeKept
<1>4. Broken' \/ (Agree(upper', sock'.fsm, header') /\ failed' \subseteq K)
  <2>1. CASE Broken
    BY <2>1 DEF Broken, clientVars
  <2>2. CASE Agree(upper, sock.fsm, TRUE) /\ failed \subseteq K
    <3>1. CanReadEnd(upper) /\ Agree(ReadEnd(upper), sock.fsm, FALSE)
      BY <1>2, <2>2, UpperReadEnds
    <3> QED
      BY <2>2, <3>1 DEF Assert, Check
  <2> QED
    BY <1>2, <2>1, <2>2
<1>5. ReadPlace' /\ WritePlace'
  BY <1>2 DEF ReadPlace, WritePlace
<1> QED
  BY <1>1, <1>2, <1>3, <1>4, <1>5, LoopStep DEF Common, FlowTypeOK, WritePlace, CallbackStates

\* A callback of a read of the socket, while the tunnel forwards.
LEMMA ReadingState ==
  ASSUME NEW K, Common(K), ForwardingRead
  PROVE  /\ stage = "forwarding" /\ readLoop = "reading"
         /\ sock.cb["Read"] = "waiting" /\ sock.fsm.reading /\ ~sock.fsm.read_closed
         /\ ~header /\ posted = "none" /\ CanReadDone(sock)
         /\ ~Broken => Agree(upper, sock.fsm, FALSE) /\ CanReadEnd(upper) /\ failed \subseteq K
<1>1. /\ stage = "forwarding" /\ sock.cb["Read"] = "waiting"
  BY DEF ForwardingRead, Waiting
<1>2. sock.fsm.reading
  BY <1>1, ForwardingState, ReadDoneUses
<1>3. /\ readLoop = "reading" /\ ~sock.fsm.read_closed /\ ~header /\ posted = "none"
  BY <1>1, <1>2, ForwardingState DEF ReadPlace
<1>4. ~Broken => Agree(upper, sock.fsm, FALSE) /\ failed \subseteq K
  BY <1>1, <1>3, ForwardingState
<1>5. ~Broken => CanReadEnd(upper)
  BY <1>1, <1>2, <1>4 DEF Agree, CanReadEnd
<1> QED
  BY <1>1, <1>2, <1>3, <1>4, <1>5 DEF CanReadDone, CanReadEnd

LEMMA ReadSomeStep == ASSUME NEW K, Common(K), ReadSome PROVE Common(K)'
<1> USE DEF ReadSome
<1>1. /\ stage = "forwarding" /\ readLoop = "reading"
      /\ sock.cb["Read"] = "waiting" /\ sock.fsm.reading /\ ~sock.fsm.read_closed
      /\ ~header /\ posted = "none" /\ CanReadDone(sock)
      /\ ~Broken => Agree(upper, sock.fsm, FALSE) /\ CanReadEnd(upper) /\ failed \subseteq K
  BY ReadingState
<1>2. /\ InUse(sock) /\ WritePlace /\ header = FALSE
      /\ sock \in Socket /\ sock.fsm \in Flow /\ sock.fsm.type = "Local"
      /\ upper \in Flow /\ upper.type = "Local"
  BY <1>1, ForwardingState
<1>3. InUse(sock') /\ sock'.fsm = [sock.fsm EXCEPT !.reading = FALSE] /\ sock' \in Socket
  BY <1>1, <1>2, ReadDoneUses, SocketType
<1>4. /\ ~sock'.fsm.reading /\ sock'.fsm.type = "Local"
      /\ sock'.fsm.writing = sock.fsm.writing
      /\ sock'.fsm.read_closed = sock.fsm.read_closed
      /\ sock'.fsm.write_closing = sock.fsm.write_closing
      /\ sock'.fsm.write_closed = sock.fsm.write_closed
  BY <1>2, <1>3 DEF Flow
<1>5. upper' \in Flow /\ upper'.type = "Local"
  BY <1>2, FlowType, TypeKept
<1>6. Broken' \/ (Agree(upper', sock'.fsm, header') /\ failed' \subseteq K)
  <2>1. CASE Broken
    BY <1>4, <2>1 DEF Broken, clientVars
  <2>2. CASE ~Broken
    <3>1. Agree(ReadEnd(upper), [sock.fsm EXCEPT !.reading = FALSE], FALSE)
      BY <1>1, <1>2, <2>2, UpperReadEnds
    <3> QED
      BY <1>1, <1>2, <1>3, <2>2, <3>1 DEF Assert, Check, ReadEndChecks
  <2> QED
    BY <2>1, <2>2
<1>7. ReadPlace' /\ WritePlace'
  BY <1>1, <1>2, <1>4 DEF ReadPlace, WritePlace
<1> QED
  BY <1>1, <1>2, <1>3, <1>4, <1>5, <1>6, <1>7, LoopStep
     DEF Common, FlowTypeOK, WritePlace, CallbackStates

LEMMA ReadEndedStep == ASSUME NEW K, Common(K), ReadEnded PROVE Common(K)'
<1> USE DEF ReadEnded
<1>1. /\ stage = "forwarding" /\ readLoop = "reading"
      /\ sock.cb["Read"] = "waiting" /\ sock.fsm.reading /\ ~sock.fsm.read_closed
      /\ ~header /\ posted = "none" /\ CanReadDone(sock)
      /\ ~Broken => Agree(upper, sock.fsm, FALSE) /\ CanReadEnd(upper) /\ failed \subseteq K
  BY ReadingState
<1>2. /\ InUse(sock) /\ WritePlace /\ header = FALSE
      /\ sock \in Socket /\ sock.fsm \in Flow /\ sock.fsm.type = "Local"
      /\ upper \in Flow /\ upper.type = "Local"
  BY <1>1, ForwardingState
<1>3. /\ CanReadEof(sock) /\ InUse(sock') /\ sock' \in Socket
      /\ sock'.fsm = [sock.fsm EXCEPT !.reading = FALSE,
                                      !.read_closed = TRUE,
                                      !.state = IF sock.fsm.write_closed THEN "Closed"
                                                                         ELSE "Closing"]
  BY <1>1, <1>2, ReadEofUses, SocketType
<1>4. /\ ~sock'.fsm.reading /\ sock'.fsm.read_closed /\ sock'.fsm.type = "Local"
      /\ sock'.fsm.writing = sock.fsm.writing
      /\ sock'.fsm.write_closing = sock.fsm.write_closing
      /\ sock'.fsm.write_closed = sock.fsm.write_closed
  BY <1>2, <1>3 DEF Flow
<1>5. upper' \in Flow /\ upper'.type = "Local"
  <2>1. ReadEnd(upper) \in Flow /\ ReadEnd(upper).type = "Local"
    BY <1>2, FlowType, TypeKept
  <2> QED
    BY <2>1, FlowType, TypeKept
<1>6. Broken' \/ (Agree(upper', sock'.fsm, header') /\ failed' \subseteq K)
  <2>1. CASE Broken
    BY <1>4, <2>1 DEF Broken, clientVars
  <2>2. CASE ~Broken
    <3>1. Agree(upper, sock.fsm, FALSE) /\ Halves(sock.fsm)
      BY <1>1, <1>2, <2>2, HalvesInUse
    <3>2. /\ CanReadClosed(ReadEnd(upper))
          /\ Agree(ReadClosed(ReadEnd(upper)),
                   [sock.fsm EXCEPT !.reading = FALSE,
                                    !.read_closed = TRUE,
                                    !.state = IF sock.fsm.write_closed THEN "Closed"
                                                                       ELSE "Closing"],
                   FALSE)
      BY <1>1, <1>2, <3>1, UpperReadEof
    <3>3. Agree(upper', sock'.fsm, FALSE)
      BY <1>3, <3>2
    <3> QED
      BY <1>1, <1>2, <1>3, <2>2, <3>2, <3>3 DEF Assert, Check, ReadEndChecks
  <2> QED
    BY <2>1, <2>2
<1>7. ReadPlace' /\ WritePlace'
  BY <1>1, <1>2, <1>4 DEF ReadPlace, WritePlace
<1> QED
  BY <1>1, <1>2, <1>3, <1>4, <1>5, <1>6, <1>7, LoopStep
     DEF Common, FlowTypeOK, WritePlace, CallbackStates

LEMMA ReadBrokeStep == ASSUME NEW K, Common(K), ReadBroke PROVE Common(K)'
<1> USE DEF ReadBroke
<1>1. /\ CanReadDone(sock) /\ sock \in Socket /\ sock.fsm \in Flow /\ upper \in Flow
      /\ ~Broken => CanReadEnd(upper) /\ failed \subseteq K
  BY ReadingState, ForwardingState
<1>2. ReadFailed(sock) \in Socket /\ Errored(upper) \in Flow
  BY <1>1, SocketType, FlowType
<1>3. ReadFailed(sock).fsm.write_closed
  <2>1. ReadFailed(sock).fsm = Errored(ReadEnd(sock.fsm))
    BY <1>1 DEF ReadFailed, Cancel, Return
  <2>2. ReadEnd(sock.fsm) \in Flow
    BY <1>1, FlowType
  <2> QED
    BY <2>1, <2>2 DEF Errored, Flow
<1> QED
  BY <1>2, <1>3, ReleaseStep DEF Fail

LEMMA ForwardedStep == ASSUME NEW K, Common(K), Forwarded PROVE Common(K)'
<1> USE DEF Forwarded
<1>1. stage = "forwarding"
  BY LoopsForward
<1>2. /\ InUse(sock) /\ WritePlace
      /\ sock \in Socket /\ sock.fsm \in Flow /\ sock.fsm.type = "Local"
      /\ upper \in Flow /\ upper.type = "Local"
      /\ ~Broken => Agree(upper, sock.fsm, header) /\ failed \subseteq K
      /\ header = FALSE /\ ~sock.fsm.reading /\ ~sock.fsm.read_closed /\ posted = "none"
  BY <1>1, ForwardingState DEF ReadPlace
<1>3. /\ sock' \in Socket /\ InUse(sock') /\ sock'.fsm.type = "Local"
      /\ sock'.fsm.reading /\ ~sock'.fsm.read_closed
      /\ sock'.fsm.writing = sock.fsm.writing
      /\ sock'.fsm.write_closing = sock.fsm.write_closing
      /\ sock'.fsm.write_closed = sock.fsm.write_closed
      /\ posted' = "none" /\ upper' \in Flow /\ upper'.type = "Local"
      /\ CanReadBegin(sock.fsm)
      /\ Agree(upper, sock.fsm, FALSE) =>
           IsReadable(upper) /\ Agree(upper', sock'.fsm, header')
  BY <1>2, ReadFromStep
<1>4. Broken' \/ (Agree(upper', sock'.fsm, header') /\ failed' \subseteq K)
  <2>1. CASE Broken
    BY <1>3, <2>1 DEF Broken, clientVars
  <2>2. CASE ~Broken
    BY <1>2, <1>3, <2>2 DEF Assert, Check, ReadChecks
  <2> QED
    BY <2>1, <2>2
<1>5. ReadPlace' /\ WritePlace'
  BY <1>2, <1>3 DEF ReadPlace, WritePlace
<1> QED
  BY <1>1, <1>2, <1>3, <1>4, <1>5, LoopStep
     DEF Common, FlowTypeOK, WritePlace, CallbackStates

LEMMA WriteCallStep == ASSUME NEW K, Common(K), WriteCall PROVE Common(K)'
<1> USE DEF WriteCall
<1>1. stage = "forwarding"
  BY LoopsForward
<1>2. /\ InUse(sock) /\ ReadPlace /\ WritePlace /\ header \in BOOLEAN
      /\ sock \in Socket /\ sock.fsm \in Flow /\ sock.fsm.type = "Local"
      /\ upper \in Flow /\ upper.type = "Local"
      /\ Broken \/ (Agree(upper, sock.fsm, header) /\ failed \subseteq K)
      /\ ~sock.fsm.writing /\ ~sock.fsm.write_closing /\ ~sock.fsm.write_closed
  BY <1>1, ForwardingState DEF WritePlace
<1>3. Agree(upper, sock.fsm, header) /\ failed \subseteq K /\ Halves(sock.fsm)
  BY <1>2, HalvesInUse DEF Broken
<1>4. /\ IsWritable(sock.fsm) /\ InUse(sock') /\ sock' \in Socket
      /\ sock'.fsm = [sock.fsm EXCEPT !.writing = TRUE]
  BY <1>2, WriteUses, SocketType
<1>5. /\ sock'.fsm.writing /\ sock'.fsm.type = "Local"
      /\ sock'.fsm.reading = sock.fsm.reading
      /\ sock'.fsm.read_closed = sock.fsm.read_closed
      /\ ~sock'.fsm.write_closing /\ ~sock'.fsm.write_closed
  BY <1>2, <1>4 DEF Flow
<1>6. /\ CanWriteBegin(upper)
      /\ Agree(WriteBegin(upper), [sock.fsm EXCEPT !.writing = TRUE], header)
  BY <1>2, <1>3, UpperWrites
<1>7. upper' \in Flow /\ upper'.type = "Local"
  BY <1>2, FlowType, TypeKept
<1>8. failed' \subseteq K
  BY <1>3, <1>4, <1>6 DEF Assert, Check, CanWriteBegin
<1>9. Agree(upper', sock'.fsm, header')
  BY <1>4, <1>6
<1>10. ReadPlace' /\ WritePlace'
  BY <1>2, <1>5 DEF ReadPlace, WritePlace
<1> QED
  BY <1>1, <1>2, <1>4, <1>5, <1>7, <1>8, <1>9, <1>10, LoopStep
     DEF Common, FlowTypeOK, ReadPlace, CallbackStates

LEMMA WrittenStep == ASSUME NEW K, Common(K), Written PROVE Common(K)'
<1> USE DEF Written
<1>1. stage = "forwarding"
  BY LoopsForward
<1>2. /\ InUse(sock) /\ ReadPlace /\ WritePlace /\ header \in BOOLEAN
      /\ sock \in Socket /\ sock.fsm \in Flow /\ sock.fsm.type = "Local"
      /\ upper \in Flow /\ upper.type = "Local"
      /\ Broken \/ (Agree(upper, sock.fsm, header) /\ failed \subseteq K)
      /\ sock.fsm.writing /\ ~sock.fsm.write_closing /\ ~sock.fsm.write_closed
  BY <1>1, ForwardingState DEF WritePlace
<1>3. Agree(upper, sock.fsm, header) /\ failed \subseteq K /\ Halves(sock.fsm)
  BY <1>2, HalvesInUse DEF Broken
<1>4. /\ CanWriteDone(sock) /\ InUse(sock') /\ sock' \in Socket
      /\ sock'.fsm = [sock.fsm EXCEPT !.writing = FALSE]
  BY <1>2, WriteDoneUses, SocketType DEF Waiting, CanWriteDone, CanWriteEnd
<1>5. /\ ~sock'.fsm.writing /\ sock'.fsm.type = "Local"
      /\ sock'.fsm.reading = sock.fsm.reading
      /\ sock'.fsm.read_closed = sock.fsm.read_closed
      /\ ~sock'.fsm.write_closing /\ ~sock'.fsm.write_closed
  BY <1>2, <1>4 DEF Flow
<1>6. /\ CanWriteEnd(upper) /\ IsWritable(WriteEnd(upper))
      /\ Agree(WriteEnd(upper), [sock.fsm EXCEPT !.writing = FALSE], header)
  BY <1>2, <1>3, UpperWriteEnds
<1>7. upper' \in Flow /\ upper'.type = "Local"
  BY <1>2, FlowType, TypeKept
<1>8. failed' \subseteq K
  BY <1>3, <1>4, <1>6 DEF Assert, Check, WriteEndChecks
<1>9. Agree(upper', sock'.fsm, header')
  BY <1>4, <1>6
<1>10. ReadPlace' /\ WritePlace'
  BY <1>2, <1>5 DEF ReadPlace, WritePlace
<1> QED
  BY <1>1, <1>2, <1>4, <1>5, <1>7, <1>8, <1>9, <1>10, LoopStep
     DEF Common, FlowTypeOK, ReadPlace, CallbackStates

LEMMA WriteBrokeStep == ASSUME NEW K, Common(K), WriteBroke PROVE Common(K)'
<1> USE DEF WriteBroke
<1>1. stage = "forwarding"
  BY LoopsForward
<1>2. /\ sock \in Socket /\ sock.fsm \in Flow /\ upper \in Flow
  BY <1>1, ForwardingState
<1>3. WriteFailed(sock) \in Socket /\ Errored(upper) \in Flow
  BY <1>2, SocketType, FlowType
<1>4. WriteFailed(sock).fsm.write_closed
  <2>1. WriteFailed(sock).fsm = Errored(WriteEnd(sock.fsm))
    BY <1>2 DEF WriteFailed, Cancel, Return
  <2>2. WriteEnd(sock.fsm) \in Flow
    BY <1>2, FlowType
  <2> QED
    BY <2>1, <2>2 DEF Errored, Flow
<1> QED
  BY <1>3, <1>4, ReleaseStep DEF Fail

\* Only a half that has not been closed is closed, so the flow can be.
LEMMA CloseWriteCallStep == ASSUME NEW K, Common(K), CloseWriteCall PROVE Common(K)'
<1> USE DEF CloseWriteCall
<1>1. stage = "forwarding"
  BY LoopsForward
<1>2. /\ InUse(sock) /\ ReadPlace /\ WritePlace /\ header \in BOOLEAN
      /\ sock \in Socket /\ sock.fsm \in Flow /\ sock.fsm.type = "Local"
      /\ upper \in Flow /\ upper.type = "Local"
      /\ Broken \/ (Agree(upper, sock.fsm, header) /\ failed \subseteq K)
      /\ ~sock.fsm.writing /\ ~sock.fsm.write_closing /\ ~sock.fsm.write_closed
  BY <1>1, ForwardingState DEF WritePlace
<1>3. Agree(upper, sock.fsm, header) /\ failed \subseteq K /\ Halves(sock.fsm)
  BY <1>2, HalvesInUse DEF Broken
<1>4. /\ IsWriteClosable(upper) /\ CanWriteCloseBegin(upper)
      /\ Agree(WriteCloseBegin(upper), [sock.fsm EXCEPT !.state = "Closing",
                                                        !.writing = FALSE,
                                                        !.write_closing = TRUE], header)
  BY <1>2, <1>3, UpperWrites
<1>5. /\ CanWriteCloseBegin(sock.fsm) /\ sock' = CloseWrite(sock)
      /\ InUse(sock') /\ sock' \in Socket
      /\ sock'.fsm = [sock.fsm EXCEPT !.state = "Closing",
                                      !.writing = FALSE,
                                      !.write_closing = TRUE]
  BY <1>2, <1>4, CloseWriteUses, SocketType
<1>6. /\ ~sock'.fsm.writing /\ sock'.fsm.write_closing /\ sock'.fsm.type = "Local"
      /\ sock'.fsm.reading = sock.fsm.reading
      /\ sock'.fsm.read_closed = sock.fsm.read_closed
      /\ ~sock'.fsm.write_closed
  BY <1>2, <1>5 DEF Flow
<1>7. /\ upper' = WriteCloseBegin(upper) /\ upper' \in Flow /\ upper'.type = "Local"
      /\ writeLoop' = "closing"
  BY <1>2, <1>4, FlowType, TypeKept
<1>8. failed' \subseteq K
  BY <1>3, <1>4, <1>5 DEF Assert, Check
<1>9. Agree(upper', sock'.fsm, header')
  BY <1>4, <1>5, <1>7
<1>10. ReadPlace' /\ WritePlace'
  BY <1>2, <1>6, <1>7 DEF ReadPlace, WritePlace
<1> QED
  BY <1>1, <1>2, <1>5, <1>6, <1>7, <1>8, <1>9, <1>10, LoopStep
     DEF Common, FlowTypeOK, ReadPlace, CallbackStates

\* The report of a half-close: both machines were closing.
LEMMA ClosingState ==
  ASSUME NEW K, Common(K), Waiting("CloseWrite"), sock' = CloseWriteDone(sock)
  PROVE  /\ stage = "forwarding" /\ ReadPlace /\ WritePlace /\ header \in BOOLEAN
         /\ upper \in Flow /\ upper.type = "Local" /\ failed \subseteq K
         /\ CanCloseWriteDone(sock) /\ CanWriteCloseEnd(upper)
         /\ sock' \in Socket /\ InUse(sock') /\ sock'.fsm.type = "Local"
         /\ ~sock'.fsm.writing /\ ~sock'.fsm.write_closing /\ sock'.fsm.write_closed
         /\ sock'.fsm.reading = sock.fsm.reading
         /\ sock'.fsm.read_closed = sock.fsm.read_closed
         /\ Agree(WriteCloseEnd(upper), sock'.fsm, header)
<1>1. stage = "forwarding"
  BY StageOfCallback
<1>2. /\ InUse(sock) /\ ReadPlace /\ WritePlace /\ header \in BOOLEAN
      /\ sock \in Socket /\ sock.fsm \in Flow /\ sock.fsm.type = "Local"
      /\ upper \in Flow /\ upper.type = "Local"
      /\ Broken \/ (Agree(upper, sock.fsm, header) /\ failed \subseteq K)
  BY <1>1, ForwardingState
<1>3. /\ sock.fsm.write_closing /\ InUse(sock') /\ sock' \in Socket
      /\ sock'.fsm = [sock.fsm EXCEPT !.write_closing = FALSE,
                                      !.write_closed = TRUE,
                                      !.state = IF sock.fsm.read_closed THEN "Closed" ELSE @]
  BY <1>2, CloseWriteDoneUses, SocketType DEF Waiting
<1>4. ~sock.fsm.writing /\ ~sock.fsm.write_closed
  BY <1>2, <1>3 DEF WritePlace
<1>5. Agree(upper, sock.fsm, header) /\ failed \subseteq K
  BY <1>2, <1>4 DEF Broken
<1>6. /\ ~sock'.fsm.writing /\ ~sock'.fsm.write_closing /\ sock'.fsm.write_closed
      /\ sock'.fsm.type = "Local"
      /\ sock'.fsm.reading = sock.fsm.reading
      /\ sock'.fsm.read_closed = sock.fsm.read_closed
  BY <1>2, <1>3, <1>4 DEF Flow
<1>7. CanWriteCloseEnd(upper) /\ Agree(WriteCloseEnd(upper), WriteCloseEnd(sock.fsm), header)
  BY <1>2, <1>3, <1>5, UpperCloseEnds
<1>8. CanCloseWriteDone(sock)
  BY <1>3 DEF CanCloseWriteDone, CanWriteCloseEnd
<1>9. sock'.fsm = WriteCloseEnd(sock.fsm)
  BY <1>2, CallParts, OpNames DEF CloseWriteDone
<1>10. Agree(WriteCloseEnd(upper), sock'.fsm, header)
  BY <1>7, <1>9
<1> QED
  BY <1>1, <1>2, <1>3, <1>5, <1>6, <1>7, <1>8, <1>10

LEMMA WriteClosedStep == ASSUME NEW K, Common(K), WriteClosed PROVE Common(K)'
<1> USE DEF WriteClosed
<1>1. /\ stage = "forwarding" /\ ReadPlace /\ WritePlace /\ header \in BOOLEAN
      /\ upper \in Flow /\ upper.type = "Local" /\ failed \subseteq K
      /\ CanCloseWriteDone(sock) /\ CanWriteCloseEnd(upper)
      /\ sock' \in Socket /\ InUse(sock') /\ sock'.fsm.type = "Local"
      /\ ~sock'.fsm.writing /\ ~sock'.fsm.write_closing /\ sock'.fsm.write_closed
      /\ sock'.fsm.reading = sock.fsm.reading
      /\ sock'.fsm.read_closed = sock.fsm.read_closed
      /\ Agree(WriteCloseEnd(upper), sock'.fsm, header)
  BY ClosingState
<1>2. upper' \in Flow /\ upper'.type = "Local"
  BY <1>1, FlowType, TypeKept
<1>3. failed' \subseteq K
  BY <1>1 DEF Assert, Check
<1>4. ReadPlace' /\ WritePlace'
  BY <1>1 DEF ReadPlace, WritePlace
<1> QED
  BY <1>1, <1>2, <1>3, <1>4, LoopStep DEF Common, FlowTypeOK, ReadPlace, CallbackStates

LEMMA CloseWriteBrokeStep == ASSUME NEW K, Common(K), CloseWriteBroke PROVE Common(K)'
<1> USE DEF CloseWriteBroke
<1>1. /\ stage = "forwarding" /\ ReadPlace /\ WritePlace /\ header \in BOOLEAN
      /\ upper \in Flow /\ upper.type = "Local"
      /\ sock' \in Socket /\ InUse(sock') /\ sock'.fsm.type = "Local"
      /\ ~sock'.fsm.writing /\ ~sock'.fsm.write_closing /\ sock'.fsm.write_closed
      /\ sock'.fsm.reading = sock.fsm.reading
      /\ sock'.fsm.read_closed = sock.fsm.read_closed
  BY ClosingState
<1>2. upper' \in Flow /\ upper'.type = "Local"
  <2>1. WriteCloseEnd(upper) \in Flow /\ WriteCloseEnd(upper).type = "Local"
    BY <1>1, FlowType, TypeKept
  <2> QED
    BY <2>1, FlowType, TypeKept
<1>3. Broken'
  BY <1>1 DEF Broken, clientVars
<1>4. ReadPlace' /\ WritePlace'
  BY <1>1 DEF ReadPlace, WritePlace
<1> QED
  BY <1>1, <1>2, <1>3, <1>4, LoopStep DEF Common, FlowTypeOK, ReadPlace, CallbackStates

-----------------------------------------------------------------------------
(* The end, and the client.                                                *)

LEMMA TunnelEndsStep == ASSUME NEW K, Common(K), TunnelEnds PROVE Common(K)'
<1>1. upper \in Flow /\ sock \in Socket /\ (failed \subseteq K \/ Broken)
  BY DEF Common, FlowTypeOK, Failures, TunnelEnds
<1> QED
  BY <1>1, ReleaseStep DEF TunnelEnds, Broken

\* Only a flow that is gone has cancelled callbacks.
LEMMA CanceledAfterRelease ==
  ASSUME NEW K, Common(K), posted = "canceled" \/ \E op \in Ops : sock.cb[op] = "canceled"
  PROVE  stage = "released"
<1>1. stage \in {"new", "opening", "matching", "continuing", "forwarding", "released"}
  BY DEF Common, FlowTypeOK
<1>2. stage \notin {"forwarding", "released"} =>
        posted = "none" /\ \A op \in Ops : sock.cb[op] \in {"none", "waiting"}
  BY <1>1 DEF Common, Early, Fresh, At, Opening, Matching, Continuing, Negotiates
<1>3. stage = "forwarding" =>
        posted # "canceled" /\ \A op \in Ops : sock.cb[op] \in {"none", "waiting"}
  BY DEF Common, Forwards, ReadPlace, InUse, Ops
<1> QED
  BY <1>1, <1>2, <1>3

\* Once the flow is gone nothing happens but that its callbacks are dropped.
LEMMA GoneStep ==
  ASSUME NEW K, Common(K), stage = "released",
         UNCHANGED <<tunnelVars, upper, header, failed, clientVars>>,
         sock' \in Socket, sock'.fsm = sock.fsm, \A op \in Ops : sock'.cb[op] # "waiting",
         posted' = posted \/ posted' = "none"
  PROVE  Common(K)'
<1> USE DEF Common, tunnelVars, clientVars
<1>1. FlowTypeOK'
  BY DEF FlowTypeOK, CallbackStates
<1>2. Failures(K)'
  BY DEF Failures, Broken
<1>3. NoCallbackOutlivesFlow'
  BY DEF NoCallbackOutlivesFlow, Waiting
<1>4. (Local /\ Fresh /\ Opening /\ Matching(K) /\ Continuing(K) /\ Early(K) /\ Forwards(K))'
  BY DEF Local, Fresh, Opening, Matching, Continuing, Early, Forwards
<1> QED
  BY <1>1, <1>2, <1>3, <1>4

LEMMA DropCallbackStep == ASSUME NEW K, Common(K), DropCallback PROVE Common(K)'
<1>1. PICK op \in Ops : sock.cb[op] = "canceled" /\ sock' = Return(sock, sock.fsm, op)
  BY DEF DropCallback
<1>2. stage = "released"
  BY <1>1, CanceledAfterRelease
<1>3. sock \in Socket /\ sock.fsm \in Flow /\ \A p \in Ops : sock.cb[p] # "waiting"
  BY <1>2 DEF Common, FlowTypeOK, NoCallbackOutlivesFlow, Waiting, Socket
<1>4. sock' \in Socket /\ sock'.fsm = sock.fsm /\ \A p \in Ops : sock'.cb[p] # "waiting"
  <2>1. Return(sock, sock.fsm, op) \in Socket
    BY <1>3, CallbackType
  <2>2. /\ Return(sock, sock.fsm, op).fsm = sock.fsm
        /\ \A p \in Ops : Return(sock, sock.fsm, op).cb[p] =
                             IF p = op THEN "none" ELSE sock.cb[p]
    BY <1>3, CallParts
  <2> QED
    BY <1>1, <1>3, <2>1, <2>2
<1> QED
  BY <1>2, <1>4, GoneStep DEF DropCallback

LEMMA DropPostedStep == ASSUME NEW K, Common(K), DropPosted PROVE Common(K)'
<1>1. stage = "released"
  BY CanceledAfterRelease DEF DropPosted
<1>2. sock \in Socket /\ \A p \in Ops : sock.cb[p] # "waiting"
  BY <1>1 DEF Common, FlowTypeOK, NoCallbackOutlivesFlow, Waiting
<1> QED
  BY <1>1, <1>2, GoneStep DEF DropPosted

\* The client, or nobody: a connection once reset stays so.
LEMMA ClientStep ==
  ASSUME NEW K, Common(K), UNCHANGED <<tunnelVars, flowVars, failed>>,
         fin' \in BOOLEAN, reset' \in BOOLEAN, reset => reset'
  PROVE  Common(K)'
<1> USE DEF Common, tunnelVars, flowVars
<1>1. FlowTypeOK' /\ Local'
  BY DEF FlowTypeOK, Local
<1>2. (Fresh /\ Opening /\ Matching(K) /\ Continuing(K) /\ Early(K))'
  BY DEF Fresh, Opening, Matching, Continuing, Early, Ready
<1>3. Broken => Broken'
  BY DEF Broken
<1>4. Forwards(K)'
  BY <1>3 DEF Forwards, ReadPlace, WritePlace
<1>5. Failures(K)' /\ NoCallbackOutlivesFlow'
  BY <1>3 DEF Failures, NoCallbackOutlivesFlow, Waiting
<1> QED
  BY <1>1, <1>2, <1>4, <1>5

-----------------------------------------------------------------------------
(* What the invariant says of the flow.                                    *)

\* The end of the negotiation: the socket is left with nothing under way.
LEMMA NegotiatedStep ==
  ASSUME NEW K, Common(K), stage = "opening", Waiting("Read"),
         sock' = ReadDone(sock), stage' = "matching",
         upper' \in Flow, upper'.type = "Local", Ready(K)', header' \in BOOLEAN,
         failed' \subseteq K, UNCHANGED <<readLoop, writeLoop, posted, clientVars>>
  PROVE  Common(K)'
<1>1. Negotiates(sock, "Read") /\ sock \in Socket /\ sock.fsm.type = "Local"
  BY OpeningState
<1>2. Negotiates(sock', "-") /\ sock' \in Socket /\ sock'.fsm.type = "Local"
  BY <1>1, ReadNegotiates
<1>3. posted = "none"
  BY DEF Common, Early
<1>4. FlowTypeOK' /\ Local'
  BY <1>2, <1>3 DEF Common, FlowTypeOK, Local, clientVars
<1>5. (Fresh /\ Opening /\ Matching(K) /\ Continuing(K))'
  BY <1>2 DEF Fresh, Opening, Matching, Continuing
<1> QED
  BY <1>4, <1>5, EarlyStep

\* A callback that waits, for each call of the tunnel that does.
LEMMA CommonAnswers == ASSUME NEW K, Common(K) PROVE AnswerDue
<1>1. stage = "opening" => \E op \in {"Open", "Read", "Write"} : Waiting(op)
  BY OpNames DEF Common, Opening, Negotiates, Waiting
<1>2. stage = "continuing" => Waiting("Write") \/ Waiting("Continue")
  BY OpNames DEF Common, Continuing, Negotiates, Waiting
<1>3. readLoop # "idle" \/ writeLoop # "idle" => InUse(sock) /\ ReadPlace /\ WritePlace
  BY DEF Common, FlowTypeOK, Forwards
<1> QED
  BY <1>1, <1>2, <1>3 DEF AnswerDue, InUse, ReadPlace, WritePlace, Waiting

\* The two state machines, field by field.
LEMMA CommonLayers == ASSUME NEW K, Common(K) PROVE LayersAgree
<1> SUFFICES ASSUME stage = "forwarding", ~(reset /\ sock.fsm.write_closed)
             PROVE  upper = [sock.fsm EXCEPT !.reading = @ \/ posted = "waiting"]
  BY DEF LayersAgree
<1>1. /\ Agree(upper, sock.fsm, header) /\ (header <=> posted = "waiting")
      /\ upper \in Flow /\ upper.type = "Local"
      /\ sock.fsm \in Flow /\ sock.fsm.type = "Local"
  BY DEF Common, Forwards, ReadPlace, Broken, FlowTypeOK, Local, Socket
<1>2. upper.reading <=> sock.fsm.reading \/ posted = "waiting"
  BY <1>1 DEF Agree
<1> QED
  BY <1>1, <1>2 DEF Agree, Flow

-----------------------------------------------------------------------------
(* HttpServerDataFlow.                                                     *)

\* With the common invariant, the header is there for a plain request only, and
\* until it is read.
HttpIInv == /\ Common({}) /\ HttpTypeOK
            /\ kind = "connect" /\ header => newline
            /\ kind = "plain" /\ stage = "matching" => header

\* What the two server flows share keeps the invariant; it never brings a
\* header, nor ends the negotiation.
LEMMA HttpSharedStep ==
  ASSUME NEW K, Common(K), HttpShared
  PROVE  /\ Common(K)'
         /\ header' = header \/ header' = FALSE
         /\ stage' = "matching" => stage = "matching" /\ header' = header
<1>1. CASE OpenCall
  BY <1>1, OpenCallStep DEF OpenCall
<1>2. CASE SocketOpened
  BY <1>2, SocketOpenedStep DEF SocketOpened, tunnelVars
<1>3. CASE NegotiationEnded
  BY <1>3, NegotiationEndedStep DEF NegotiationEnded, Fail, Release
<1>4. CASE NegotiationBroke
  BY <1>4, NegotiationBrokeStep DEF NegotiationBroke, Fail, Release
<1>5. CASE AnswerWritten
  BY <1>5, AnswerWrittenStep DEF AnswerWritten, tunnelVars
<1>6. CASE AnswerBroke
  BY <1>6, AnswerBrokeStep DEF AnswerBroke, Fail, Release
<1>7. CASE SocketContinued
  BY <1>7, SocketContinuedStep DEF SocketContinued
<1>8. CASE Forwarding
  <2>1. CASE HeaderRead
    <3>1. stage = "forwarding"
      BY <2>1 DEF Common, Early, NoCallbackOutlivesFlow, HeaderRead
    <3> QED
      BY <2>1, <3>1, HeaderReadStep DEF HeaderRead
  <2>2. CASE ReadSome
    BY <2>2, ReadSomeStep DEF ReadSome, ForwardingRead
  <2>3. CASE ReadEnded
    BY <2>3, ReadEndedStep DEF ReadEnded, ForwardingRead
  <2>4. CASE ReadBroke
    BY <2>4, ReadBrokeStep DEF ReadBroke, Fail, Release
  <2>5. CASE Forwarded
    BY <2>5, ForwardedStep DEF Forwarded
  <2>6. CASE WriteCall
    BY <2>6, WriteCallStep DEF WriteCall
  <2>7. CASE Written
    BY <2>7, WrittenStep DEF Written
  <2>8. CASE WriteBroke
    BY <2>8, WriteBrokeStep DEF WriteBroke, Fail, Release
  <2>9. CASE CloseWriteCall
    BY <2>9, CloseWriteCallStep DEF CloseWriteCall
  <2>10. CASE WriteClosed
    BY <2>10, WriteClosedStep DEF WriteClosed
  <2>11. CASE CloseWriteBroke
    BY <2>11, CloseWriteBrokeStep DEF CloseWriteBroke
  <2> QED
    BY <1>8, <2>1, <2>2, <2>3, <2>4, <2>5, <2>6, <2>7, <2>8, <2>9, <2>10, <2>11
       DEF Forwarding
<1>9. CASE Ending
  <2>1. CASE TunnelEnds
    BY <2>1, TunnelEndsStep DEF TunnelEnds, Release
  <2>2. CASE DropCallback
    BY <2>2, DropCallbackStep DEF DropCallback, tunnelVars
  <2>3. CASE DropPosted
    BY <2>3, DropPostedStep DEF DropPosted, tunnelVars
  <2> QED
    BY <1>9, <2>1, <2>2, <2>3 DEF Ending
<1>10. CASE Client
  <2>1. /\ UNCHANGED <<tunnelVars, flowVars, failed>>
        /\ fin' \in BOOLEAN /\ reset' \in BOOLEAN /\ (reset => reset')
    BY <1>10 DEF Client, ClientCloses, ClientResets, Common, FlowTypeOK
  <2> QED
    BY <2>1, ClientStep DEF tunnelVars, flowVars
<1> QED
  BY <1>1, <1>2, <1>3, <1>4, <1>5, <1>6, <1>7, <1>8, <1>9, <1>10 DEF HttpShared

\* At the start there is no header.
LEMMA HttpStart == HttpInit => HttpIInv
<1> SUFFICES ASSUME HttpInit PROVE HttpIInv
  OBVIOUS
<1>1. Common({})
  BY InitCommon DEF HttpInit
<1> QED
  BY <1>1 DEF Common, HttpIInv, HttpTypeOK, HttpInit, InitFlow

\* What the negotiation keeps of a CONNECT is newlines before it.
LEMMA KeptParts ==
  ASSUME header \in BOOLEAN, newline \in BOOLEAN, kind = "connect" /\ header => newline,
         NEW s \in {"nothing", "method", "message"}, NEW h \in Kept(s)
  PROVE  /\ h \in BOOLEAN
         /\ kind = "connect" /\ h => newline
         /\ s = "message" /\ kind = "plain" => h
<1>1. CASE s = "nothing"
  BY <1>1 DEF Kept
<1>2. CASE s # "nothing"
  BY <1>2 DEF Kept, IsConnect
<1> QED
  BY <1>1, <1>2

LEMMA HttpMoreStep == ASSUME HttpIInv, HttpNegotiateMore PROVE HttpIInv'
<1> USE DEF HttpIInv, HttpNegotiateMore
<1>1. /\ kind' = kind /\ newline' = newline /\ stage' = stage
      /\ seen' \in {"nothing", "method"} /\ header' \in Kept(seen')
  BY DEF tunnelVars
<1>2. header' \in BOOLEAN /\ (kind = "connect" /\ header' => newline)
  BY <1>1, KeptParts DEF HttpTypeOK, FlowTypeOK
<1>3. Common({})'
  BY <1>2, ReadMoreStep DEF Negotiated
<1>5. stage' # "matching"
  BY <1>1 DEF Negotiated
<1>6. HttpTypeOK'
  BY <1>1, <1>3 DEF HttpTypeOK, Common
<1> QED
  BY <1>1, <1>2, <1>3, <1>5, <1>6

LEMMA HttpDoneStep == ASSUME HttpIInv, NegotiateDone PROVE HttpIInv'
<1> USE DEF HttpIInv, NegotiateDone, Negotiated
<1>1. /\ header' \in BOOLEAN /\ UNCHANGED <<kind, newline>>
      /\ kind = "connect" /\ header' => newline
      /\ kind = "plain" => header'
  BY KeptParts DEF HttpTypeOK, FlowTypeOK
<1>2. /\ Unused(upper, "Establishing") /\ upper \in Flow /\ upper.type = "Local"
      /\ Negotiates(sock, "Read") /\ sock \in Socket /\ sock.fsm.type = "Local"
      /\ failed \subseteq {}
  BY OpeningState
<1>3. CanReadDone(sock)
  BY <1>2, ReadNegotiates
<1>4. failed' \subseteq {} /\ Ready({})'
  BY <1>2, <1>3 DEF Assert, Check, Ready
<1>5. Common({})'
  BY <1>1, <1>2, <1>4, NegotiatedStep
<1> QED
  BY <1>1, <1>5 DEF HttpTypeOK, Common

LEMMA HttpRefusedStep == ASSUME HttpIInv, HttpNegotiateRefused PROVE HttpIInv'
<1> USE DEF HttpIInv, HttpNegotiateRefused, Negotiated
<1>1. Negotiates(sock, "Read") /\ sock \in Socket /\ sock.fsm.type = "Local" /\ failed \subseteq {}
  BY OpeningState
<1>2. CanReadDone(sock) /\ ReadDone(sock) \in Socket
  BY <1>1, ReadNegotiates
<1>3. failed' \subseteq {}
  BY <1>1, <1>2 DEF Assert, Check
<1>4. Common({})'
  BY <1>2, <1>3, FailStep
<1>5. header' = header /\ stage' = "released"
  BY DEF Fail, Release
<1> QED
  BY <1>4, <1>5 DEF HttpTypeOK, Common, request

LEMMA HttpContinueStep == ASSUME HttpIInv, ContinueCall PROVE HttpIInv'
<1> USE DEF HttpIInv, ContinueCall
<1>1. Common({})'
  BY ContinueByWriteStep, ContinueAtOnceStep
<1>2. header' = header /\ stage' = "continuing"
  BY DEF ContinueByWrite, ContinueAtOnce
<1> QED
  BY <1>1, <1>2 DEF HttpTypeOK, Common, request

\* A request refused later ends the tunnel; no assertion fails but after a
\* half-close that did.
LEMMA RewriteStep ==
  ASSUME NEW K, Common(K), ForwardingRead, Assert(ReadEndChecks),
         Release(Errored(ReadEnd(upper)), ReadDone(sock)), UNCHANGED clientVars
  PROVE  Common(K)'
<1>1. /\ CanReadDone(sock)
      /\ ~Broken => CanReadEnd(upper) /\ failed \subseteq K
  BY ReadingState
<1>2. sock \in Socket /\ sock.fsm \in Flow /\ upper \in Flow
  BY DEF Common, FlowTypeOK, Socket
<1>3. /\ Errored(ReadEnd(upper)) \in Flow
      /\ ReadDone(sock) \in Socket /\ ReadDone(sock).fsm = ReadEnd(sock.fsm)
      /\ ReadEnd(sock.fsm).write_closed = sock.fsm.write_closed
  <2>1. ReadEnd(upper) \in Flow
    BY <1>2, FlowType
  <2>2. ReadDone(sock).fsm = ReadEnd(sock.fsm)
    BY <1>2, CallParts, OpNames DEF ReadDone
  <2>3. ReadEnd(sock.fsm).write_closed = sock.fsm.write_closed
    BY <1>2 DEF ReadEnd, Flow
  <2> QED
    BY <1>2, <2>1, <2>2, <2>3, FlowType, SocketType
<1>4. \/ failed' \subseteq K \cup {"sock.ReadClosed"}
      \/ reset /\ ReadDone(sock).fsm.write_closed
  BY <1>1, <1>3 DEF Assert, ReadEndChecks, Check, Broken
<1> QED
  BY <1>3, <1>4, ReleaseStep

LEMMA HttpRewriteStep == ASSUME HttpIInv, RewriteRefused PROVE HttpIInv'
<1> USE DEF HttpIInv, RewriteRefused
<1>1. Common({})'
  BY RewriteStep
<1>2. header' = header /\ stage' = "released"
  BY DEF Release
<1> QED
  BY <1>1, <1>2 DEF HttpTypeOK, Common, request

LEMMA HttpSameStep == ASSUME HttpIInv, UNCHANGED httpVars PROVE HttpIInv'
<1> USE DEF HttpIInv
<1>1. UNCHANGED <<tunnelVars, flowVars, failed, fin, reset, kind, newline, seen>>
  BY DEF httpVars, vars, clientVars, request
<1>2. Common({})'
  BY <1>1, ClientStep DEF Common, FlowTypeOK
<1> QED
  BY <1>1, <1>2 DEF HttpTypeOK, Common, tunnelVars, flowVars, request

LEMMA HttpStep == HttpIInv /\ [HttpNext]_httpVars => HttpIInv'
<1> SUFFICES ASSUME HttpIInv, [HttpNext]_httpVars PROVE HttpIInv'
  OBVIOUS
<1>1. CASE HttpShared /\ UNCHANGED request
  <2>1. /\ Common({})'
        /\ header' = header \/ header' = FALSE
        /\ stage' = "matching" => stage = "matching" /\ header' = header
    BY <1>1, HttpSharedStep DEF HttpIInv
  <2> QED
    BY <1>1, <2>1 DEF HttpIInv, HttpTypeOK, Common, request
<1>2. CASE HttpNegotiateMore
  BY <1>2, HttpMoreStep
<1>3. CASE NegotiateDone
  BY <1>3, HttpDoneStep
<1>4. CASE HttpNegotiateRefused
  BY <1>4, HttpRefusedStep
<1>5. CASE ContinueCall
  BY <1>5, HttpContinueStep
<1>6. CASE RewriteRefused
  BY <1>6, HttpRewriteStep
<1>7. CASE HttpDone \/ UNCHANGED httpVars
  BY <1>7, HttpSameStep DEF HttpDone
<1> QED
  BY <1>1, <1>2, <1>3, <1>4, <1>5, <1>6, <1>7 DEF HttpNext

LEMMA HttpInvariant == HttpSpec => []HttpIInv
  BY HttpStart, HttpStep, PTL DEF HttpSpec

\* Every call of the tunnel on an HTTP server flow is going to be answered, the
\* flow and the socket below it step together, and no callback outlives them,
\* however reads, writes, half-closes and errors of the two directions
\* interleave (http_server_data_flow.cc, tcp_socket.cc:82-205).
THEOREM HttpFlow == HttpSpec => []HttpFlowInv
<1>1. HttpIInv => HttpFlowInv
  BY CommonAnswers, CommonLayers DEF HttpIInv, HttpFlowInv, Common
<1> QED
  BY <1>1, HttpInvariant, PTL

\* Of the two machines of an HTTP server flow, an assertion fails only when the
\* client closes during the negotiation or after a half-close that failed
\* (flow_state_machine.h).
THEOREM HttpAssertions == HttpSpec => []AssertionsHold
<1>1. HttpIInv => AssertionsHold
  BY DEF HttpIInv, Common, Failures, Broken, AssertionsHold
<1> QED
  BY <1>1, HttpInvariant, PTL

\* What the tunnel reads of an HTTP server flow begins with the first request,
\* once, and has nothing of a CONNECT but newlines sent before it (first_header_ in
\* NegotiateRead and Read, http_server_data_flow.cc).
THEOREM HttpRequestFirst == HttpSpec => []RequestFirst
<1>1. HttpIInv => RequestFirst
  BY DEF HttpIInv, Common, Forwards, ReadPlace, FlowTypeOK, RequestFirst
<1> QED
  BY <1>1, HttpInvariant, PTL

-----------------------------------------------------------------------------
(* What the client of a Socks5ServerDataFlow sends.                        *)

\* p begins s.
Begins(p, s) == Len(p) <= Len(s) /\ \A i \in 1 .. Len(p) : s[i] = p[i]

\* Bytes, and those after them.
LEMMA Beginning ==
  ASSUME NEW p \in Seq(Byte), NEW w \in Seq(Byte)
  PROVE  /\ p \o w \in Seq(Byte) /\ Begins(p, p \o w)
         /\ Len(p) < Len(p \o w) => w # <<>> /\ (p \o w)[Len(p) + 1] = w[1]
         /\ Len(p) = Len(p \o w) => w = <<>> /\ p \o w = p
         /\ SubSeq(p \o w, 1, Len(p)) = p
<1> DEFINE s == p \o w
<1>1. /\ s \in Seq(Byte) /\ Len(p) \in Nat /\ Len(w) \in Nat
      /\ Len(s) = Len(p) + Len(w)
      /\ \A i \in 1 .. Len(p) + Len(w) : s[i] = IF i <= Len(p) THEN p[i] ELSE w[i - Len(p)]
  BY ConcatProperties, LenProperties
<1>2. \A i \in 1 .. Len(p) : s[i] = p[i] /\ s[i] \in Byte
  <2> TAKE i \in 1 .. Len(p)
  <2>1. i \in 1 .. Len(p) + Len(w) /\ i <= Len(p) /\ p[i] \in Byte
    BY <1>1, ElementOfSeq
  <2> QED
    BY <1>1, <2>1
<1>3. Len(p) < Len(s) => w # <<>> /\ s[Len(p) + 1] = w[1]
  <2> HAVE Len(p) < Len(s)
  <2>1. /\ Len(p) + 1 \in 1 .. Len(p) + Len(w) /\ ~(Len(p) + 1 <= Len(p))
        /\ Len(p) + 1 - Len(p) = 1 /\ Len(w) # 0
    BY <1>1
  <2> QED
    BY <1>1, <2>1, EmptySeq
<1>4. Len(p) = Len(s) => w = <<>> /\ s = p
  BY <1>1, EmptySeq, ConcatEmptySeq
<1>5. SubSeq(s, 1, Len(p)) = p
  <2>1. /\ SubSeq(s, 1, Len(p)) \in Seq(Byte) /\ Len(SubSeq(s, 1, Len(p))) = Len(p)
        /\ \A i \in 1 .. Len(p) : SubSeq(s, 1, Len(p))[i] = s[i]
    <3>1. /\ 1 \in Int /\ Len(p) \in Int
          /\ \A i \in 1 .. Len(p) : s[i] \in Byte
      BY <1>1, <1>2
    <3>2. /\ SubSeq(s, 1, Len(p)) \in Seq(Byte)
          /\ Len(SubSeq(s, 1, Len(p))) = IF 1 <= Len(p) THEN Len(p) - 1 + 1 ELSE 0
          /\ \A i \in 1 .. Len(p) - 1 + 1 : SubSeq(s, 1, Len(p))[i] = s[1 + i - 1]
      BY <3>1, SubSeqProperties
    <3>3. \A i \in 1 .. Len(p) : i \in 1 .. Len(p) - 1 + 1 /\ 1 + i - 1 = i
      BY <1>1
    <3> QED
      BY <1>1, <3>2, <3>3
  <2> QED
    BY <1>2, <2>1, SeqEqual
<1>6. Begins(p, s)
  BY <1>1, <1>2 DEF Begins
<1> QED
  BY <1>1, <1>3, <1>4, <1>5, <1>6

\* A read moves bytes from the wire w to what has been collected, p.
LEMMA ReadingBytes ==
  ASSUME NEW p \in Seq(Byte), NEW w \in Seq(Byte), NEW n \in 1 .. Len(w)
  PROVE  /\ p \o SubSeq(w, 1, n) \in Seq(Byte)
         /\ SubSeq(w, n + 1, Len(w)) \in Seq(Byte)
         /\ (p \o SubSeq(w, 1, n)) \o SubSeq(w, n + 1, Len(w)) = p \o w
<1> DEFINE a == SubSeq(w, 1, n)
           b == SubSeq(w, n + 1, Len(w))
           c == p \o a
           x == c \o b
           y == p \o w
<1>1. /\ Len(w) \in Nat /\ Len(p) \in Nat /\ n \in Nat /\ n >= 1 /\ n <= Len(w)
      /\ \A i \in 1 .. Len(w) : w[i] \in Byte
  BY LenProperties, ElementOfSeq
<1>2. /\ a \in Seq(Byte) /\ Len(a) = n
      /\ \A i \in 1 .. n : a[i] = w[i]
  <2>1. /\ a \in Seq(Byte) /\ Len(a) = IF 1 <= n THEN n - 1 + 1 ELSE 0
        /\ \A i \in 1 .. n - 1 + 1 : a[i] = w[1 + i - 1]
    BY <1>1, SubSeqProperties
  <2>2. n - 1 + 1 = n /\ \A i \in 1 .. n : 1 + i - 1 = i
    BY <1>1
  <2> QED
    BY <1>1, <2>1, <2>2
<1>3. /\ b \in Seq(Byte) /\ Len(b) = Len(w) - n
      /\ \A i \in 1 .. Len(w) - n : b[i] = w[n + i]
  <2>1. /\ b \in Seq(Byte)
        /\ Len(b) = IF n + 1 <= Len(w) THEN Len(w) - (n + 1) + 1 ELSE 0
        /\ \A i \in 1 .. Len(w) - (n + 1) + 1 : b[i] = w[n + 1 + i - 1]
    BY <1>1, SubSeqProperties
  <2>2. Len(w) - (n + 1) + 1 = Len(w) - n /\ \A i \in 1 .. Len(w) - n : n + 1 + i - 1 = n + i
    BY <1>1
  <2>3. (IF n + 1 <= Len(w) THEN Len(w) - n ELSE 0) = Len(w) - n
    BY <1>1
  <2>4. Len(b) = Len(w) - n
    BY <2>1, <2>2, <2>3
  <2>5. \A i \in 1 .. Len(w) - n : b[i] = w[n + i]
    BY <2>1, <2>2
  <2> QED
    BY <2>1, <2>4, <2>5
<1> HIDE DEF a, b
<1>4. /\ c \in Seq(Byte) /\ Len(c) = Len(p) + n
      /\ \A i \in 1 .. Len(p) + n : c[i] = IF i <= Len(p) THEN p[i] ELSE a[i - Len(p)]
  BY <1>2, ConcatProperties
<1> HIDE DEF c
<1>5. /\ x \in Seq(Byte) /\ Len(x) = Len(c) + Len(b)
      /\ \A i \in 1 .. Len(c) + Len(b) : x[i] = IF i <= Len(c) THEN c[i] ELSE b[i - Len(c)]
  BY <1>3, <1>4, ConcatProperties
<1>6. /\ y \in Seq(Byte) /\ Len(y) = Len(p) + Len(w)
      /\ \A i \in 1 .. Len(p) + Len(w) : y[i] = IF i <= Len(p) THEN p[i] ELSE w[i - Len(p)]
  BY ConcatProperties
<1> HIDE DEF x, y
<1>7. Len(x) = Len(y)
  BY <1>1, <1>3, <1>4, <1>5, <1>6
<1>8. ASSUME NEW i \in 1 .. Len(x) PROVE x[i] = y[i]
  <2>1. i \in Nat /\ i >= 1 /\ i <= Len(p) + Len(w)
    BY <1>1, <1>6, <1>7
  <2>2. CASE i <= Len(p)
    <3>1. /\ i \in 1 .. Len(c) + Len(b) /\ i \in 1 .. Len(p) + n /\ i <= Len(c)
          /\ i \in 1 .. Len(p) + Len(w)
      BY <1>1, <1>3, <1>4, <2>1, <2>2
    <3>2. x[i] = c[i] /\ c[i] = p[i]
      BY <1>4, <1>5, <2>2, <3>1
    <3>3. y[i] = p[i]
      BY <1>6, <2>2, <3>1
    <3> QED
      BY <3>2, <3>3
  <2>3. CASE ~(i <= Len(p)) /\ i <= Len(p) + n
    <3>1. /\ i - Len(p) \in 1 .. n
      BY <1>1, <2>1, <2>3
    <3> QED
      BY <1>1, <1>2, <1>3, <1>4, <1>5, <1>6, <2>1, <2>3, <3>1
  <2>4. CASE ~(i <= Len(p) + n)
    <3>1. i - Len(c) \in 1 .. Len(w) - n /\ n + (i - Len(c)) = i - Len(p)
      BY <1>1, <1>4, <2>1, <2>4
    <3>2. x[i] = b[i - Len(c)]
      BY <1>1, <1>3, <1>4, <1>5, <2>1, <2>4
    <3>3. b[i - Len(c)] = w[i - Len(p)]
      BY <1>3, <3>1
    <3>4. y[i] = w[i - Len(p)]
      BY <1>1, <1>6, <2>1, <2>4
    <3> QED
      BY <3>2, <3>3, <3>4
  <2> QED
    BY <2>2, <2>3, <2>4
<1>9. x = y
  BY <1>5, <1>6, <1>7, <1>8, SeqEqual
<1> QED
  BY <1>2, <1>3, <1>4, <1>9 DEF a, b, c, x, y

\* Where the parts of a sequence of bytes made of three are.
LEMMA ThreeParts ==
  ASSUME NEW a \in Seq(Byte), NEW b \in Seq(Byte), NEW c \in Seq(Byte)
  PROVE  LET s == (a \o b) \o c
         IN /\ s \in Seq(Byte) /\ Len(s) = Len(a) + Len(b) + Len(c)
            /\ \A i \in 1 .. Len(a) : s[i] = a[i]
            /\ SubSeq(s, Len(a) + 1, Len(a) + Len(b)) = b
            /\ SubSeq(s, Len(a) + Len(b) + 1, Len(s)) = c
<1> DEFINE ab == a \o b
           s == ab \o c
           m == Len(a) + Len(b)
<1>1. /\ Len(a) \in Nat /\ Len(b) \in Nat /\ Len(c) \in Nat
      /\ \A i \in 1 .. Len(b) : b[i] \in Byte
      /\ \A i \in 1 .. Len(c) : c[i] \in Byte
  BY LenProperties, ElementOfSeq
<1>2. /\ ab \in Seq(Byte) /\ Len(ab) = m
      /\ \A i \in 1 .. m : ab[i] = IF i <= Len(a) THEN a[i] ELSE b[i - Len(a)]
  BY ConcatProperties
<1>4. /\ s \in Seq(Byte) /\ Len(s) = m + Len(c)
      /\ \A i \in 1 .. m + Len(c) : s[i] = IF i <= m THEN ab[i] ELSE c[i - m]
  BY <1>2, ConcatProperties
<1> HIDE DEF ab, s
<1>5. \A i \in 1 .. Len(a) : s[i] = a[i]
  BY <1>1, <1>2, <1>4
<1>6. SubSeq(s, Len(a) + 1, m) = b
  <2>1. \A i \in Len(a) + 1 .. m : s[i] = b[i - Len(a)] /\ s[i] \in Byte
    BY <1>1, <1>2, <1>4
  <2>2. /\ SubSeq(s, Len(a) + 1, m) \in Seq(Byte)
        /\ Len(SubSeq(s, Len(a) + 1, m)) =
             IF Len(a) + 1 <= m THEN m - (Len(a) + 1) + 1 ELSE 0
        /\ \A i \in 1 .. m - (Len(a) + 1) + 1 :
             SubSeq(s, Len(a) + 1, m)[i] = s[Len(a) + 1 + i - 1]
    BY <1>1, <2>1, SubSeqProperties
  <2>3. Len(SubSeq(s, Len(a) + 1, m)) = Len(b)
    BY <1>1, <2>2
  <2>4. ASSUME NEW i \in 1 .. Len(b) PROVE SubSeq(s, Len(a) + 1, m)[i] = b[i]
    <3>1. /\ i \in 1 .. m - (Len(a) + 1) + 1
          /\ Len(a) + 1 + i - 1 \in Len(a) + 1 .. m
          /\ Len(a) + 1 + i - 1 - Len(a) = i
      BY <1>1
    <3>2. SubSeq(s, Len(a) + 1, m)[i] = s[Len(a) + 1 + i - 1]
      BY <2>2, <3>1
    <3>3. s[Len(a) + 1 + i - 1] = b[Len(a) + 1 + i - 1 - Len(a)]
      BY <2>1, <3>1
    <3> QED
      BY <3>1, <3>2, <3>3
  <2> QED
    BY <2>2, <2>3, <2>4, SeqEqual
<1>7. SubSeq(s, m + 1, m + Len(c)) = c
  <2>1. \A i \in m + 1 .. m + Len(c) : s[i] = c[i - m] /\ s[i] \in Byte
    BY <1>1, <1>4
  <2>2. /\ SubSeq(s, m + 1, m + Len(c)) \in Seq(Byte)
        /\ Len(SubSeq(s, m + 1, m + Len(c))) =
             IF m + 1 <= m + Len(c) THEN m + Len(c) - (m + 1) + 1 ELSE 0
        /\ \A i \in 1 .. m + Len(c) - (m + 1) + 1 :
             SubSeq(s, m + 1, m + Len(c))[i] = s[m + 1 + i - 1]
    BY <1>1, <2>1, SubSeqProperties
  <2>3. /\ Len(SubSeq(s, m + 1, m + Len(c))) = Len(c)
        /\ \A i \in 1 .. Len(c) : SubSeq(s, m + 1, m + Len(c))[i] = c[i]
    BY <1>1, <2>1, <2>2
  <2> QED
    BY <2>2, <2>3, SeqEqual
<1> QED
  BY <1>4, <1>5, <1>6, <1>7 DEF s, ab

\* The bytes of each part.
LEMMA ThreePartsAt ==
  ASSUME NEW a \in Seq(Byte), NEW b \in Seq(Byte), NEW c \in Seq(Byte)
  PROVE  /\ \A i \in 1 .. Len(b) : ((a \o b) \o c)[Len(a) + i] = b[i]
         /\ \A i \in 1 .. Len(c) : ((a \o b) \o c)[Len(a) + Len(b) + i] = c[i]
<1> DEFINE ab == a \o b
           s == ab \o c
           m == Len(a) + Len(b)
<1>1. /\ Len(a) \in Nat /\ Len(b) \in Nat /\ Len(c) \in Nat
      /\ \A i \in 1 .. Len(b) : b[i] \in Byte
      /\ \A i \in 1 .. Len(c) : c[i] \in Byte
  BY LenProperties, ElementOfSeq
<1>2. /\ ab \in Seq(Byte) /\ Len(ab) = m
      /\ \A i \in 1 .. m : ab[i] = IF i <= Len(a) THEN a[i] ELSE b[i - Len(a)]
  BY ConcatProperties
<1>4. /\ s \in Seq(Byte) /\ Len(s) = m + Len(c)
      /\ \A i \in 1 .. m + Len(c) : s[i] = IF i <= m THEN ab[i] ELSE c[i - m]
  BY <1>2, ConcatProperties
<1> HIDE DEF ab, s
<1>5. ASSUME NEW i \in 1 .. Len(b) PROVE s[Len(a) + i] = b[i]
  <2>1. /\ Len(a) + i \in 1 .. m + Len(c) /\ Len(a) + i <= m
        /\ ~(Len(a) + i <= Len(a)) /\ Len(a) + i - Len(a) = i
        /\ Len(a) + i \in 1 .. m
    BY <1>1
  <2>2. s[Len(a) + i] = ab[Len(a) + i]
    BY <1>4, <2>1
  <2>3. ab[Len(a) + i] = b[Len(a) + i - Len(a)]
    BY <1>2, <2>1
  <2> QED
    BY <2>1, <2>2, <2>3
<1>6. ASSUME NEW i \in 1 .. Len(c) PROVE s[m + i] = c[i]
  <2>1. m + i \in 1 .. m + Len(c) /\ ~(m + i <= m) /\ m + i - m = i
    BY <1>1
  <2>2. s[m + i] = c[m + i - m]
    BY <1>4, <2>1
  <2> QED
    BY <2>1, <2>2
<1> QED
  BY <1>5, <1>6 DEF s, ab

\* The head of a request, with the length k of a domain.
LEMMA EncodedHead ==
  ASSUME NEW type \in {1, 3, 4}, NEW k \in Byte
  PROVE  LET h == <<5, 1, 0, type>> \o (IF type = Domain THEN <<k>> ELSE <<>>)
         IN /\ h \in Seq(Byte) /\ Len(h) = IF type = 3 THEN 5 ELSE 4
            /\ h[1] = 5 /\ h[2] = 1 /\ h[3] = 0 /\ h[4] = type
            /\ type = 3 => h[5] = k
<1> DEFINE h == <<5, 1, 0, type>> \o (IF type = Domain THEN <<k>> ELSE <<>>)
<1>1. /\ <<5, 1, 0, type>> \in Seq(Byte) /\ <<k>> \in Seq(Byte)
      /\ <<>> \in Seq(Byte)
      /\ Len(<<5, 1, 0, type>>) = 4 /\ Len(<<k>>) = 1 /\ Len(<<>>) = 0
  BY DEF Byte
<1>2. CASE type = 3
  <2>1. h = <<5, 1, 0, type>> \o <<k>>
    BY <1>2 DEF Domain
  <2>2. h \in Seq(Byte) /\ Len(h) = 5
    BY <1>1, <2>1, ConcatProperties
  <2>3. h[1] = 5 /\ h[2] = 1 /\ h[3] = 0 /\ h[4] = type /\ h[5] = k
    BY <2>1
  <2> QED
    BY <1>2, <2>2, <2>3
<1>3. CASE type # 3
  <2>1. h = <<5, 1, 0, type>>
    BY <1>1, <1>3, ConcatEmptySeq DEF Domain
  <2>2. <<5, 1, 0, type>>[4] = type
    OBVIOUS
  <2> QED
    BY <1>1, <1>3, <2>1, <2>2
<1> QED
  BY <1>2, <1>3

\* Parsing gives back what was asked for.
LEMMA ParsedParts ==
  ASSUME NEW type \in {1, 3, 4}, NEW host \in Seq(Byte), NEW port \in Seq(Byte),
         Len(host) \in Byte, Len(port) = 2,
         type = 1 => Len(host) = 4, type = 4 => Len(host) = 16
  PROVE  LET e == ((<<5, 1, 0, type>> \o (IF type = Domain THEN <<Len(host)>> ELSE <<>>))
                     \o host) \o port
         IN /\ e \in Seq(Byte) /\ RequestHead(e) /\ Len(e) = RequestLength(e)
            /\ Parsed(e) = [type |-> type, host |-> host, port |-> port]
<1> DEFINE h == <<5, 1, 0, type>> \o (IF type = Domain THEN <<Len(host)>> ELSE <<>>)
           e == (h \o host) \o port
<1>1. /\ h \in Seq(Byte) /\ Len(h) = IF type = 3 THEN 5 ELSE 4
      /\ h[1] = 5 /\ h[2] = 1 /\ h[3] = 0 /\ h[4] = type
      /\ type = 3 => h[5] = Len(host)
  BY EncodedHead
<1> HIDE DEF h
<1>2. /\ e \in Seq(Byte) /\ Len(e) = Len(h) + Len(host) + 2
      /\ \A i \in 1 .. Len(h) : e[i] = h[i]
      /\ SubSeq(e, Len(h) + 1, Len(h) + Len(host)) = host
      /\ SubSeq(e, Len(h) + Len(host) + 1, Len(e)) = port
  <2>1. /\ e \in Seq(Byte) /\ Len(e) = Len(h) + Len(host) + Len(port)
        /\ \A i \in 1 .. Len(h) : e[i] = h[i]
        /\ SubSeq(e, Len(h) + 1, Len(h) + Len(host)) = host
        /\ SubSeq(e, Len(h) + Len(host) + 1, Len(e)) = port
    BY <1>1, ThreeParts
  <2> QED
    BY <2>1
<1> HIDE DEF e
<1>3. /\ e[1] = 5 /\ e[2] = 1 /\ e[3] = 0 /\ e[4] = type
      /\ type = 3 => e[5] = Len(host)
  <2>1. /\ 1 \in 1 .. Len(h) /\ 2 \in 1 .. Len(h) /\ 3 \in 1 .. Len(h)
        /\ 4 \in 1 .. Len(h) /\ (type = 3 => 5 \in 1 .. Len(h))
    BY <1>1
  <2> QED
    BY <1>1, <1>2, <2>1
<1>4. Len(host) \in Nat
  BY LenProperties
<1>5. RequestHead(e) /\ Len(e) = RequestLength(e)
  <2>1. RequestHead(e)
    BY <1>3 DEF RequestHead, Domain
  <2>2. CASE type = 3
    BY <1>1, <1>2, <1>3, <1>4, <2>1, <2>2 DEF RequestLength, Domain
  <2>3. CASE type = 1
    <3>1. Len(h) = 4
      BY <1>1, <2>3
    <3>2. Len(host) = 4
      BY <2>3
    <3>3. Len(e) = 10
      BY <1>2, <3>1, <3>2
    <3> QED
      BY <1>3, <2>1, <2>3, <3>3 DEF RequestLength, Domain
  <2>4. CASE type = 4
    <3>1. Len(h) = 4
      BY <1>1, <2>4
    <3>2. Len(host) = 16
      BY <2>4
    <3>3. Len(e) = 22
      BY <1>2, <3>1, <3>2
    <3> QED
      BY <1>3, <2>1, <2>4, <3>3 DEF RequestLength, Domain
  <2> QED
    BY <2>2, <2>3, <2>4
<1>6. /\ HostFrom(e) = Len(h) + 1
      /\ Len(e) - 2 = Len(h) + Len(host) /\ Len(e) - 1 = Len(h) + Len(host) + 1
  BY <1>1, <1>2, <1>3, <1>4 DEF HostFrom, Domain
<1>7. SubSeq(e, HostFrom(e), Len(e) - 2) = host /\ SubSeq(e, Len(e) - 1, Len(e)) = port
  BY <1>2, <1>6
<1>8. Parsed(e) = [type |-> type, host |-> host, port |-> port]
  BY <1>3, <1>7 DEF Parsed
<1> QED
  BY <1>2, <1>5, <1>8 DEF e, h

LEMMA ParsedEncode ==
  ASSUME NEW t, WellFormed(t)
  PROVE  /\ Encode(t) \in Seq(Byte) /\ RequestHead(Encode(t))
         /\ Len(Encode(t)) = RequestLength(Encode(t))
         /\ Parsed(Encode(t)) = t
<1>1. PICK type \in {1, 3, 4}, host \in Seq(Byte), port \in Seq(Byte) :
        t = [type |-> type, host |-> host, port |-> port]
  BY DEF WellFormed, Domain
<1>2. Len(host) \in Nat
  BY LenProperties
<1>3. /\ Len(port) = 2 /\ Len(host) <= 255
      /\ (type = 1 => Len(host) = 4) /\ (type = 4 => Len(host) = 16)
  BY <1>1 DEF WellFormed
<1>4. Len(host) \in Byte
  <2>1. \A k \in Nat : k <= 255 => k \in Byte
    BY DEF Byte
  <2> QED
    BY <1>2, <1>3, <2>1
<1> DEFINE e == ((<<5, 1, 0, type>> \o (IF type = Domain THEN <<Len(host)>> ELSE <<>>))
                     \o host) \o port
<1>5. /\ e \in Seq(Byte) /\ RequestHead(e) /\ Len(e) = RequestLength(e)
      /\ Parsed(e) = [type |-> type, host |-> host, port |-> port]
  BY <1>3, <1>4, ParsedParts
<1>6. Encode(t) = e
  BY <1>1 DEF Encode
<1> QED
  BY <1>1, <1>5, <1>6

\* A hello is accepted as a whole or not at all.
LEMMA HelloBeginning ==
  ASSUME NEW p \in Seq(Byte), NEW h \in Seq(Byte), Begins(p, h)
  PROVE  /\ HelloOk(h) => HelloMore(p) \/ HelloOk(p)
         /\ HelloOk(h) /\ HelloOk(p) => Len(p) = Len(h)
<1>1. Len(p) \in Nat /\ Len(h) \in Nat /\ Len(p) <= Len(h)
  BY LenProperties DEF Begins
<1>2. Len(p) >= 3 => h[1] = p[1] /\ h[2] = p[2]
  BY <1>1 DEF Begins
<1>3. Len(p) >= 3 => p[2] \in Nat
  <2>1. Len(p) >= 3 => p[2] \in Byte
    BY <1>1, ElementOfSeq
  <2>2. \A b \in Byte : b \in Nat
    BY DEF Byte
  <2> QED
    BY <2>1, <2>2
<1>4. HelloOk(h) /\ HelloOk(p) => Len(p) = Len(h)
  BY <1>2 DEF HelloOk
<1>5. ASSUME HelloOk(h), ~HelloMore(p) PROVE HelloOk(p)
  <2>1. Len(p) >= 3 /\ h[1] = 5 /\ Len(h) = h[2] + 2
    BY <1>1, <1>5 DEF HelloOk, HelloMore
  <2>2. p[1] = 5 /\ Len(h) = p[2] + 2 /\ ~(Len(p) < p[2] + 2)
    BY <1>2, <1>5, <2>1 DEF HelloMore
  <2>3. Len(p) = Len(h)
    BY <1>1, <1>3, <2>1, <2>2
  <2>4. \A i \in 1 .. Len(p) : p[i] = h[i]
    BY DEF Begins
  <2>5. p = h
    BY <2>3, <2>4, SeqEqual
  <2> QED
    BY <1>5, <2>5
<1> QED
  BY <1>4, <1>5

\* So is a request.
LEMMA RequestBeginning ==
  ASSUME NEW p \in Seq(Byte), NEW e \in Seq(Byte), Begins(p, e),
         RequestHead(e), Len(e) = RequestLength(e)
  PROVE  /\ RequestMore(p) \/ RequestOk(p)
         /\ RequestOk(p) => Len(p) = Len(e)
<1>1. Len(p) \in Nat /\ Len(e) \in Nat /\ Len(p) <= Len(e)
  BY LenProperties DEF Begins
<1>2. CASE Len(p) < 10
  BY <1>1, <1>2 DEF RequestMore, RequestOk
<1>3. CASE Len(p) >= 10
  <2>1. e[1] = p[1] /\ e[2] = p[2] /\ e[3] = p[3] /\ e[4] = p[4] /\ e[5] = p[5]
    BY <1>1, <1>3 DEF Begins
  <2>2. RequestHead(p) /\ RequestLength(p) = RequestLength(e)
    BY <2>1 DEF RequestHead, RequestLength
  <2>3. Len(p) < RequestLength(p) \/ Len(p) = RequestLength(p)
    BY <1>1, <2>2
  <2> QED
    BY <1>3, <2>2, <2>3 DEF RequestMore, RequestOk
<1> QED
  BY <1>1, <1>2, <1>3

\* What is parsed is all there was.
LEMMA EncodeParsed ==
  ASSUME NEW p \in Seq(Byte), RequestOk(p)
  PROVE  Encode(Parsed(p)) = p /\ WellFormed(Parsed(p))
<1> DEFINE host == SubSeq(p, HostFrom(p), Len(p) - 2)
           port == SubSeq(p, Len(p) - 1, Len(p))
           h == <<5, 1, 0, p[4]>> \o (IF p[4] = Domain THEN <<Len(host)>> ELSE <<>>)
           e == (h \o host) \o port
<1>1. /\ Len(p) \in Nat /\ Len(p) >= 10 /\ \A i \in 1 .. Len(p) : p[i] \in Byte
      /\ p[1] = 5 /\ p[2] = 1 /\ p[3] = 0 /\ p[4] \in {1, 3, 4}
      /\ Len(p) = RequestLength(p)
  BY LenProperties, ElementOfSeq DEF RequestOk, RequestHead, Domain
<1>2. HostFrom(p) = IF p[4] = 3 THEN 6 ELSE 5
  BY DEF HostFrom, Domain
<1>3. /\ host \in Seq(Byte) /\ Len(host) = Len(p) - 1 - HostFrom(p)
      /\ \A i \in 1 .. Len(p) - 1 - HostFrom(p) : host[i] = p[HostFrom(p) + i - 1]
  <2>1. HostFrom(p) \in Nat /\ HostFrom(p) >= 5 /\ HostFrom(p) <= 6
    BY <1>1, <1>2
  <2>2. \A i \in HostFrom(p) .. Len(p) - 2 : p[i] \in Byte
    BY <1>1, <2>1
  <2>3. /\ host \in Seq(Byte)
        /\ Len(host) = IF HostFrom(p) <= Len(p) - 2 THEN Len(p) - 2 - HostFrom(p) + 1 ELSE 0
        /\ \A i \in 1 .. Len(p) - 2 - HostFrom(p) + 1 : host[i] = p[HostFrom(p) + i - 1]
    BY <1>1, <2>1, <2>2, SubSeqProperties
  <2>4. HostFrom(p) <= Len(p) - 2 /\ Len(p) - 2 - HostFrom(p) + 1 = Len(p) - 1 - HostFrom(p)
    BY <1>1, <2>1
  <2> QED
    BY <2>3, <2>4
<1>4. /\ port \in Seq(Byte) /\ Len(port) = 2
      /\ port[1] = p[Len(p) - 1] /\ port[2] = p[Len(p)]
  <2>1. \A i \in Len(p) - 1 .. Len(p) : p[i] \in Byte
    BY <1>1
  <2>2. /\ port \in Seq(Byte)
        /\ Len(port) = IF Len(p) - 1 <= Len(p) THEN Len(p) - (Len(p) - 1) + 1 ELSE 0
        /\ \A i \in 1 .. Len(p) - (Len(p) - 1) + 1 : port[i] = p[Len(p) - 1 + i - 1]
    BY <1>1, <2>1, SubSeqProperties
  <2>3. /\ Len(p) - (Len(p) - 1) + 1 = 2 /\ Len(p) - 1 <= Len(p)
        /\ Len(p) - 1 + 1 - 1 = Len(p) - 1 /\ Len(p) - 1 + 2 - 1 = Len(p)
        /\ 1 \in 1 .. 2 /\ 2 \in 1 .. 2
    BY <1>1
  <2> QED
    BY <2>2, <2>3
<1> HIDE DEF host, port
<1>5. Len(host) \in Byte /\ (p[4] = 3 => Len(host) = p[5])
  <2>1. CASE p[4] = 3
    <3>1. Len(p) = 7 + p[5] /\ HostFrom(p) = 6
      BY <1>1, <1>2, <2>1 DEF RequestLength, Domain
    <3>2. p[5] \in Byte /\ \A b \in Byte : b \in Int
      BY <1>1 DEF Byte
    <3>3. Len(host) = p[5]
      BY <1>3, <3>1, <3>2
    <3> QED
      BY <3>2, <3>3
  <2>2. CASE p[4] # 3
    <3>1. Len(host) = 4 \/ Len(host) = 16
      BY <1>1, <1>2, <1>3, <2>2 DEF RequestLength, Domain
    <3> QED
      BY <2>2, <3>1 DEF Byte
  <2> QED
    BY <2>1, <2>2
<1>6. /\ h \in Seq(Byte) /\ Len(h) = HostFrom(p) - 1
      /\ \A i \in 1 .. HostFrom(p) - 1 : h[i] = p[i]
  <2>1. /\ h \in Seq(Byte) /\ Len(h) = IF p[4] = 3 THEN 5 ELSE 4
        /\ h[1] = 5 /\ h[2] = 1 /\ h[3] = 0 /\ h[4] = p[4]
        /\ p[4] = 3 => h[5] = Len(host)
    BY <1>1, <1>5, EncodedHead
  <2> HIDE DEF h
  <2>2. Len(h) = HostFrom(p) - 1
    BY <1>2, <2>1
  <2>3. \A i \in 1 .. HostFrom(p) - 1 : i = 1 \/ i = 2 \/ i = 3 \/ i = 4 \/ (i = 5 /\ p[4] = 3)
    BY <1>2
  <2>4. \A i \in 1 .. HostFrom(p) - 1 : h[i] = p[i]
    BY <1>1, <1>5, <2>1, <2>3
  <2> QED
    BY <2>1, <2>2, <2>4
<1> HIDE DEF h
<1>7. HostFrom(p) \in {5, 6} /\ Len(host) \in Nat
  BY <1>2, <1>3, LenProperties
<1>8. /\ e \in Seq(Byte) /\ Len(e) = Len(p)
      /\ \A i \in 1 .. Len(h) : e[i] = h[i]
      /\ \A i \in 1 .. Len(host) : e[Len(h) + i] = host[i]
      /\ \A i \in 1 .. Len(port) : e[Len(h) + Len(host) + i] = port[i]
  <2>1. /\ e \in Seq(Byte) /\ Len(e) = Len(h) + Len(host) + Len(port)
        /\ \A i \in 1 .. Len(h) : e[i] = h[i]
    BY <1>3, <1>4, <1>6, ThreeParts
  <2>3. /\ \A i \in 1 .. Len(host) : e[Len(h) + i] = host[i]
        /\ \A i \in 1 .. Len(port) : e[Len(h) + Len(host) + i] = port[i]
    BY <1>3, <1>4, <1>6, ThreePartsAt
  <2>2. Len(h) + Len(host) + Len(port) = Len(p)
    BY <1>1, <1>3, <1>4, <1>6, <1>7
  <2> QED
    BY <2>1, <2>2, <2>3
<1> HIDE DEF e
<1>9. ASSUME NEW i \in 1 .. Len(p) PROVE e[i] = p[i]
  <2>1. i \in Nat /\ i >= 1 /\ i <= Len(p)
    BY <1>1
  <2>2. CASE i <= HostFrom(p) - 1
    <3>1. i \in 1 .. HostFrom(p) - 1 /\ i \in 1 .. Len(h)
      BY <1>6, <1>7, <2>1, <2>2
    <3> QED
      BY <1>6, <1>8, <3>1
  <2>3. CASE ~(i <= HostFrom(p) - 1) /\ i <= Len(p) - 2
    <3> DEFINE j == i - Len(h)
    <3>1. /\ j \in 1 .. Len(p) - 1 - HostFrom(p) /\ j \in 1 .. Len(host)
          /\ HostFrom(p) + j - 1 = i /\ Len(h) + j = i
      BY <1>1, <1>3, <1>6, <1>7, <2>1, <2>3
    <3> HIDE DEF j
    <3>2. e[Len(h) + j] = host[j]
      BY <1>8, <3>1
    <3>3. host[j] = p[HostFrom(p) + j - 1]
      BY <1>3, <3>1
    <3> QED
      BY <3>1, <3>2, <3>3
  <2>4. CASE i = Len(p) - 1
    <3>1. Len(h) + Len(host) + 1 = i /\ 1 \in 1 .. Len(port)
      BY <1>1, <1>3, <1>4, <1>6, <1>7, <2>4
    <3> QED
      BY <1>4, <1>8, <2>4, <3>1
  <2>5. CASE i = Len(p)
    <3>1. Len(h) + Len(host) + 2 = i /\ 2 \in 1 .. Len(port)
      BY <1>1, <1>3, <1>4, <1>6, <1>7, <2>5
    <3> QED
      BY <1>4, <1>8, <2>5, <3>1
  <2> QED
    BY <1>1, <2>1, <2>2, <2>3, <2>4, <2>5
<1>10. e = p
  BY <1>8, <1>9, SeqEqual
<1>11. Encode(Parsed(p)) = e
  BY DEF Encode, Parsed, e, h, host, port
<1>12. WellFormed(Parsed(p))
  <2>1. /\ p[4] = 1 => Len(host) = 4
        /\ p[4] = 4 => Len(host) = 16
    BY <1>1, <1>2, <1>3 DEF RequestLength, Domain
  <2>2. Len(host) <= 255
    <3>1. \A k \in Byte : k <= 255
      BY DEF Byte
    <3> QED
      BY <1>5, <3>1
  <2>3. Parsed(p) = [type |-> p[4], host |-> host, port |-> port]
    BY DEF Parsed, host, port
  <2> HIDE DEF host, port
  <2>4. /\ Parsed(p) \in [type : {1, Domain, 4}, host : Seq(Byte), port : Seq(Byte)]
        /\ Parsed(p).type = p[4] /\ Parsed(p).host = host /\ Parsed(p).port = port
    BY <1>1, <1>3, <1>4, <2>3 DEF Domain
  <2> QED
    BY <1>4, <2>1, <2>2, <2>4 DEF WellFormed
<1> QED
  BY <1>10, <1>11, <1>12

-----------------------------------------------------------------------------
(* Socks5ServerDataFlow.                                                   *)

\* The assertions that fail in the negotiation of a client that did no wrong.
Known == {"upper.Connected", "buffer.Shrink"}

\* What the client has sent since the hello was answered, or of the hello.
Stream == pending \o wire

SocksTypes == /\ SocksTypeOK /\ ~header
              /\ pending \in Seq(Byte) /\ wire \in Seq(Byte)

\* The hello is read, then answered, and then the request is read.
HelloAnswer ==
  /\ nego = "ReadingRequest" => reply # <<>>
  /\ reply = <<>> => ~asked
  /\ stage = "new" => reply = <<>>
  /\ stage = "opening" => (Waiting("Write") <=> nego = "ReadingVersion" /\ reply # <<>>)

HelloRead == stage \in {"new", "opening"} /\ reply = <<>> => Stream = script.hello

\* After the answer comes the request, if the hello was accepted as a whole; if
\* only a beginning of it was, then what comes is no request.
RequestRead == stage = "opening" /\ reply # <<>> =>
  \/ Stream = IF asked THEN script.request ELSE <<>>
  \/ ~HelloOk(script.hello) /\ Stream # <<>> /\ Stream[1] # 5

TargetGiven == stage \in {"matching", "continuing", "forwarding"} =>
  asked /\ target \in Targets /\ script.request = Encode(target) \o wire

SocksIInv == /\ Common(Known) /\ SocksTypes
             /\ HelloAnswer /\ HelloRead /\ RequestRead /\ TargetGiven

\* What a client says is bytes.
LEMMA ScriptBytes ==
  ASSUME script \in Scripts
  PROVE  /\ script.hello \in Hellos /\ script.hello \in Seq(Byte)
         /\ script.request \in Seq(Byte)
         /\ script.request \in Malformed \/ \E t \in Targets : script.request = Encode(t)
<1>1. /\ script.hello \in Hellos
      /\ script.request \in {Encode(t) : t \in Targets} \cup Malformed
  BY DEF Scripts
<1>2. \A t \in Targets : Encode(t) \in Seq(Byte)
  BY RequestsAssumption, ParsedEncode
<1> QED
  BY <1>1, <1>2, HellosAssumption, RequestsAssumption

LEMMA SocksStart == SocksInit => SocksIInv
<1> SUFFICES ASSUME SocksInit PROVE SocksIInv
  OBVIOUS
<1> USE DEF SocksInit
<1>1. Common(Known)
  BY InitCommon
<1>2. script.hello \in Seq(Byte)
  BY ScriptBytes
<1>3. SocksTypes
  <2>1. pending \in Seq(Byte) /\ Len(pending) = 0
    BY EmptySeq
  <2>2. Len(pending) <= BufferSize
    BY <2>1, BufferSizeAssumption
  <2> QED
    BY <1>1, <1>2, <2>1, <2>2 DEF Common, SocksTypes, SocksTypeOK, InitFlow
<1>4. Stream = script.hello
  BY <1>2, ConcatEmptySeq DEF Stream
<1> QED
  BY <1>1, <1>3, <1>4 DEF SocksIInv, HelloAnswer, HelloRead, RequestRead, TargetGiven, InitFlow

\* Of what the server flows share, opening the socket is all there is to the
\* negotiation.
LEMMA SocksSharedParts ==
  ASSUME NEW K, Common(K), SocksShared
  PROVE  /\ Common(K)' /\ header' = header
         /\ stage' = "new" => stage = "new"
         /\ stage' = "opening" =>
              /\ stage \in {"new", "opening"}
              /\ Waiting("Write")' <=> stage = "opening" /\ Waiting("Write")
         /\ stage' \in {"matching", "continuing", "forwarding"} =>
              stage \in {"matching", "continuing", "forwarding"}
<1> DEFINE late == {"matching", "continuing", "forwarding"}
<1>1. CASE OpenCall
  <2>1. sock \in Socket /\ At(sock, "Init", "-")
    BY <1>1 DEF Common, Fresh, FlowTypeOK, OpenCall
  <2>2. ~Waiting("Write")'
    BY <1>1, <2>1, OpenNegotiates, OpNames DEF OpenCall, Waiting, Negotiates
  <2> QED
    BY <1>1, <2>2, OpenCallStep DEF OpenCall
<1>2. CASE SocketOpened
  <2>1. stage = "opening" /\ stage' = "opening" /\ header' = header
    BY <1>2, StageOfCallback DEF SocketOpened, tunnelVars
  <2>2. Negotiates(sock, "Open") /\ sock \in Socket /\ sock.fsm.type = "Local"
    BY <1>2, <2>1, OpeningState DEF SocketOpened
  <2>3. ~Waiting("Write") /\ ~Waiting("Write")'
    BY <1>2, <2>2, OpenedReads, OpNames DEF SocketOpened, Waiting, Negotiates
  <2> QED
    BY <1>2, <2>1, <2>3, SocketOpenedStep
<1>3. CASE NegotiateEof \/ NegotiationBroke
  BY <1>3, NegotiationEndedStep, NegotiationBrokeStep
     DEF NegotiateEof, NegotiationEnded, NegotiationBroke, Fail, Release
<1>4. CASE ContinueByWrite
  BY <1>4, ContinueByWriteStep DEF ContinueByWrite
<1>5. CASE AnswerWritten
  BY <1>5, AnswerWrittenStep DEF AnswerWritten, tunnelVars
<1>6. CASE AnswerBroke
  BY <1>6, AnswerBrokeStep DEF AnswerBroke, Fail, Release
<1>7. CASE SocketContinued
  BY <1>7, StageOfCallback, SocketContinuedStep DEF SocketContinued
<1>8. CASE ReadSome
  BY <1>8, ReadSomeStep DEF ReadSome, ForwardingRead
<1>9. CASE ReadEnded
  BY <1>9, ReadEndedStep DEF ReadEnded, ForwardingRead
<1>10. CASE ReadBroke
  BY <1>10, ReadBrokeStep DEF ReadBroke, Fail, Release
<1>11. CASE Forwarded
  BY <1>11, LoopsForward, ForwardedStep DEF Forwarded
<1>12. CASE WriteCall
  BY <1>12, LoopsForward, WriteCallStep DEF WriteCall
<1>13. CASE Written
  BY <1>13, LoopsForward, WrittenStep DEF Written
<1>14. CASE WriteBroke
  BY <1>14, WriteBrokeStep DEF WriteBroke, Fail, Release
<1>15. CASE CloseWriteCall
  BY <1>15, LoopsForward, CloseWriteCallStep DEF CloseWriteCall
<1>16. CASE WriteClosed
  BY <1>16, StageOfCallback, WriteClosedStep DEF WriteClosed
<1>17. CASE CloseWriteBroke
  BY <1>17, StageOfCallback, CloseWriteBrokeStep DEF CloseWriteBroke
<1>18. CASE TunnelEnds
  BY <1>18, TunnelEndsStep DEF TunnelEnds, Release
<1>19. CASE DropCallback
  BY <1>19, CanceledAfterRelease, DropCallbackStep DEF DropCallback, tunnelVars
<1>20. CASE Client
  <2>1. /\ UNCHANGED <<tunnelVars, flowVars, failed>>
        /\ fin' \in BOOLEAN /\ reset' \in BOOLEAN /\ (reset => reset')
    BY <1>20 DEF Client, ClientCloses, ClientResets, Common, FlowTypeOK
  <2>2. Waiting("Write")' <=> Waiting("Write")
    BY <2>1 DEF Waiting, flowVars
  <2> QED
    BY <2>1, <2>2, ClientStep DEF tunnelVars, flowVars
<1> QED
  BY <1>1, <1>2, <1>3, <1>4, <1>5, <1>6, <1>7, <1>8, <1>9, <1>10, <1>11, <1>12,
     <1>13, <1>14, <1>15, <1>16, <1>17, <1>18, <1>19, <1>20 DEF SocksShared

LEMMA SocksSharedStep ==
  ASSUME SocksIInv, SocksShared, UNCHANGED negoVars PROVE SocksIInv'
<1> USE DEF SocksIInv, negoVars
<1>1. /\ Common(Known)' /\ header' = header
      /\ stage' = "new" => stage = "new"
      /\ stage' = "opening" =>
           /\ stage \in {"new", "opening"}
           /\ Waiting("Write")' <=> stage = "opening" /\ Waiting("Write")
      /\ stage' \in {"matching", "continuing", "forwarding"} =>
           stage \in {"matching", "continuing", "forwarding"}
  BY SocksSharedParts
<1>2. SocksTypes'
  BY <1>1 DEF SocksTypes, SocksTypeOK, Common
<1>3. HelloAnswer'
  BY <1>1 DEF HelloAnswer
<1>4. Stream' = Stream
  BY DEF Stream
<1>5. HelloRead' /\ RequestRead'
  BY <1>1, <1>4 DEF HelloRead, RequestRead, HelloAnswer
<1>6. TargetGiven'
  BY <1>1 DEF TargetGiven
<1> QED
  BY <1>1, <1>2, <1>3, <1>5, <1>6

\* Where NegotiateRead is when n more bytes arrive.
LEMMA NegotiatingState ==
  ASSUME SocksIInv, NEW n \in 1 .. Len(wire), Negotiating(n)
  PROVE  /\ stage = "opening" /\ Waiting("Read") /\ ~Waiting("Write")
         /\ Negotiates(sock, "Read") /\ sock \in Socket /\ sock.fsm.type = "Local"
         /\ Unused(upper, "Establishing") /\ upper \in Flow /\ upper.type = "Local"
         /\ failed \subseteq Known /\ posted = "none" /\ header = FALSE
         /\ CanReadDone(sock) /\ ReadDone(sock) \in Socket
         /\ Arrived(n) \in Seq(Byte) /\ wire' \in Seq(Byte)
         /\ Arrived(n) \o wire' = Stream /\ Begins(Arrived(n), Stream)
         /\ nego = "ReadingVersion" => reply = <<>> /\ Stream = script.hello
         /\ nego = "ReadingRequest" => reply # <<>>
<1> USE DEF SocksIInv
<1>1. stage = "opening" /\ Waiting("Read") /\ wire' = SubSeq(wire, n + 1, Len(wire))
  BY DEF Negotiating
<1>2. /\ Negotiates(sock, "Read") /\ sock \in Socket /\ sock.fsm.type = "Local"
      /\ Unused(upper, "Establishing") /\ upper \in Flow /\ upper.type = "Local"
      /\ failed \subseteq Known
  BY <1>1, OpeningState
<1>3. CanReadDone(sock) /\ ReadDone(sock) \in Socket
  BY <1>2, ReadNegotiates
<1>4. ~Waiting("Write")
  BY <1>2, OpNames DEF Negotiates, Waiting
<1>5. posted = "none" /\ header = FALSE
  BY <1>1 DEF Common, Early, FlowTypeOK, SocksTypes
<1>6. pending \in Seq(Byte) /\ wire \in Seq(Byte)
  BY DEF SocksTypes
<1>7. /\ Arrived(n) \in Seq(Byte) /\ wire' \in Seq(Byte) /\ Arrived(n) \o wire' = Stream
  BY <1>1, <1>6, ReadingBytes DEF Arrived, Stream
<1>8. Begins(Arrived(n), Stream)
  BY <1>7, Beginning
<1>9. /\ nego = "ReadingVersion" => reply = <<>>
      /\ nego = "ReadingRequest" => reply # <<>>
  BY <1>1, <1>4 DEF HelloAnswer
<1>10. nego = "ReadingVersion" => Stream = script.hello
  BY <1>1, <1>9 DEF HelloRead
<1> QED
  BY <1>1, <1>2, <1>3, <1>4, <1>5, <1>7, <1>8, <1>9, <1>10

LEMMA SocksMoreStep ==
  ASSUME SocksIInv, NEW n \in 1 .. Len(wire), SocksNegotiateMore(n) PROVE SocksIInv'
<1>1. /\ Negotiating(n) /\ Fits(n) /\ ReadMore /\ pending' = Arrived(n)
      /\ UNCHANGED <<stage, readLoop, writeLoop, upper, header, posted, clientVars,
                     script, asked, nego, reply, target>>
  BY DEF SocksNegotiateMore, tunnelVars
<1>2. /\ stage = "opening" /\ Waiting("Read") /\ ~Waiting("Write")
      /\ Negotiates(sock, "Read") /\ sock \in Socket /\ sock.fsm.type = "Local"
      /\ Arrived(n) \in Seq(Byte) /\ wire' \in Seq(Byte)
      /\ Arrived(n) \o wire' = Stream /\ header = FALSE
  BY <1>1, NegotiatingState
<1>3. Common(Known)'
  <2>1. UNCHANGED <<tunnelVars, upper, posted, clientVars>> /\ header' \in BOOLEAN
    BY <1>1, <1>2 DEF tunnelVars
  <2> QED
    BY <1>1, <1>2, <2>1, ReadMoreStep DEF SocksIInv
<1>4. SocksTypes'
  BY <1>1, <1>2, <1>3 DEF SocksIInv, SocksTypes, SocksTypeOK, Common, Fits
<1>5. ~Waiting("Write")'
  <2>1. ReadDone(sock) \in Socket /\ Negotiates(ReadDone(sock), "-")
        /\ ReadDone(sock).fsm.type = "Local"
    BY <1>2, ReadNegotiates
  <2>2. Negotiates(sock', "Read")
    BY <1>1, <2>1, IdleCalls DEF ReadMore
  <2> QED
    BY <2>2, OpNames DEF Negotiates, Waiting
<1>6. HelloAnswer'
  BY <1>1, <1>2, <1>5 DEF SocksIInv, HelloAnswer
<1>7. Stream' = Stream
  BY <1>1, <1>2 DEF Stream
<1>8. HelloRead' /\ RequestRead' /\ TargetGiven'
  BY <1>1, <1>2, <1>7 DEF SocksIInv, HelloRead, RequestRead, TargetGiven
<1> QED
  BY <1>3, <1>4, <1>6, <1>8 DEF SocksIInv

\* A hello is answered: what comes next is no part of it, or no request.
LEMMA HelloRest ==
  ASSUME script \in Scripts, NEW p \in Seq(Byte), NEW w \in Seq(Byte),
         p \o w = script.hello, HelloOk(p)
  PROVE  w = <<>> \/ (~HelloOk(script.hello) /\ w # <<>> /\ w[1] # 5)
<1> DEFINE h == p \o w
<1>1. /\ h \in Seq(Byte) /\ h \in Hellos /\ h = script.hello
      /\ Begins(p, h) /\ SubSeq(h, 1, Len(p)) = p
      /\ Len(p) < Len(h) => w # <<>> /\ h[Len(p) + 1] = w[1]
      /\ Len(p) = Len(h) => w = <<>>
      /\ Len(p) \in Nat /\ Len(h) \in Nat
  BY Beginning, ScriptBytes, LenProperties
<1> HIDE DEF h
<1>2. CASE Len(p) = Len(h)
  BY <1>1, <1>2
<1>3. CASE Len(p) # Len(h)
  <2>1. Len(p) < Len(h) /\ Len(p) >= 3
    BY <1>1, <1>3 DEF Begins, HelloOk
  <2>2. Len(p) \in 1 .. Len(h) - 1
    BY <1>1, <2>1
  <2>3. h[Len(p) + 1] # 5
    BY <1>1, <2>2, HellosAssumption
  <2>4. ~HelloOk(h)
    BY <1>1, <1>3, HelloBeginning
  <2> QED
    BY <1>1, <2>1, <2>3, <2>4
<1> QED
  BY <1>2, <1>3

LEMMA HelloAcceptedStep ==
  ASSUME SocksIInv, NEW n \in 1 .. Len(wire), HelloAccepted(n) PROVE SocksIInv'
<1> USE DEF SocksIInv
<1>1. /\ nego = "ReadingVersion" /\ Negotiating(n) /\ HelloOk(Arrived(n))
      /\ pending' = <<>>
      /\ UNCHANGED <<clientVars, script, asked, nego, target>>
  BY DEF HelloAccepted
<1>2. /\ stage = "opening" /\ Waiting("Read") /\ ~Waiting("Write")
      /\ Negotiates(sock, "Read") /\ sock \in Socket /\ sock.fsm.type = "Local"
      /\ Unused(upper, "Establishing") /\ upper \in Flow /\ upper.type = "Local"
      /\ failed \subseteq Known /\ posted = "none" /\ header = FALSE
      /\ CanReadDone(sock) /\ ReadDone(sock) \in Socket
      /\ Arrived(n) \in Seq(Byte) /\ wire' \in Seq(Byte)
      /\ Arrived(n) \o wire' = Stream
      /\ reply = <<>> /\ Stream = script.hello
  BY <1>1, NegotiatingState
<1>3. Negotiates(ReadDone(sock), "-") /\ ReadDone(sock).fsm.type = "Local"
  BY <1>2, ReadNegotiates
<1>4. /\ CanWriteBegin(ReadDone(sock).fsm) /\ Negotiates(Write(ReadDone(sock)), "Write")
      /\ Write(ReadDone(sock)).fsm.type = "Local" /\ Write(ReadDone(sock)) \in Socket
  BY <1>2, <1>3, IdleCalls, SocketType
<1>5. failed' \subseteq Known
  BY <1>2, <1>4 DEF HelloAccepted, Assert, Check, ReadEndHolds, Known
<1>6. ~asked /\ script \in Scripts /\ Len(pending') <= BufferSize
  <2>1. Len(<<>>) = 0
    BY EmptySeq
  <2> QED
    BY <1>1, <1>2, <2>1, BufferSizeAssumption DEF HelloAnswer, SocksTypes, SocksTypeOK
<1>7. pending' \in Seq(Byte)
  BY <1>1, EmptySeq
<1>8. CASE n > 2
  <2>1. /\ reply' = <<wire[1], 0>> /\ sock' = Write(ReadDone(sock))
        /\ UNCHANGED <<stage, readLoop, writeLoop, upper, header, posted>>
    BY <1>8 DEF HelloAccepted, tunnelVars
  <2>2. Common(Known)'
    <3>1. FlowTypeOK' /\ Local'
      BY <1>1, <1>2, <1>4, <2>1 DEF Common, FlowTypeOK, Local, clientVars
    <3>2. (Fresh /\ Opening /\ Matching(Known) /\ Continuing(Known))'
      BY <1>2, <1>4, <2>1 DEF Fresh, Opening, Matching, Continuing
    <3> QED
      BY <1>2, <1>5, <2>1, <3>1, <3>2, EarlyStep
  <2>3. SocksTypes'
    BY <1>1, <1>2, <1>6, <1>7, <2>1, <2>2 DEF SocksTypes, SocksTypeOK, Common
  <2>4. reply' # <<>>
    BY <2>1
  <2>5. Waiting("Write")'
    BY <1>4, <2>1, OpNames DEF Negotiates, Waiting
  <2>6. HelloAnswer'
    BY <1>1, <1>2, <2>1, <2>4, <2>5 DEF HelloAnswer
  <2>7. Stream' = wire'
    BY <1>1, <1>2, ConcatEmptySeq DEF Stream
  <2>8. wire' = <<>> \/ (~HelloOk(script.hello) /\ wire' # <<>> /\ wire'[1] # 5)
    BY <1>1, <1>2, <1>6, HelloRest
  <2>9. HelloRead' /\ RequestRead' /\ TargetGiven'
    BY <1>1, <1>2, <1>6, <2>1, <2>4, <2>7, <2>8 DEF HelloRead, RequestRead, TargetGiven
  <2> QED
    BY <2>2, <2>3, <2>6, <2>9
<1>9. CASE ~(n > 2)
  <2>1. Release(upper, ReadDone(sock)) /\ UNCHANGED reply
    BY <1>9 DEF HelloAccepted
  <2>2. Common(Known)'
    BY <1>1, <1>2, <1>5, <2>1, ReleaseStep
  <2>3. stage' = "released" /\ header' = header
    BY <2>1 DEF Release
  <2>4. SocksTypes'
    BY <1>1, <1>2, <1>6, <1>7, <2>2, <2>3 DEF SocksTypes, SocksTypeOK, Common
  <2> QED
    BY <1>1, <1>2, <1>6, <2>1, <2>2, <2>3, <2>4
       DEF HelloAnswer, HelloRead, RequestRead, TargetGiven
<1> QED
  BY <1>8, <1>9

\* What is accepted as a request is the whole of what the client asks for, or of
\* the beginning that counts.
LEMMA RequestRest ==
  ASSUME script \in Scripts, NEW p \in Seq(Byte), NEW w \in Seq(Byte),
         p \o w = script.request, RequestOk(p)
  PROVE  Parsed(p) \in Targets /\ script.request = Encode(Parsed(p)) \o w
<1> DEFINE r == p \o w
<1>1. /\ r \in Seq(Byte) /\ r = script.request
      /\ Begins(p, r) /\ SubSeq(r, 1, Len(p)) = p
      /\ Len(p) = Len(r) => r = p
      /\ Len(p) \in Nat /\ Len(r) \in Nat
  BY Beginning, LenProperties
<1>2. script.request = Encode(Parsed(p)) \o w
  BY EncodeParsed
<1> HIDE DEF r
<1>3. ASSUME NEW t \in Targets, r = Encode(t) PROVE Parsed(p) \in Targets
  <2>1. RequestHead(r) /\ Len(r) = RequestLength(r) /\ Parsed(r) = t
    BY <1>3, RequestsAssumption, ParsedEncode
  <2>2. Len(p) = Len(r)
    BY <1>1, <2>1, RequestBeginning
  <2> QED
    BY <1>1, <1>3, <2>1, <2>2
<1>4. ASSUME r \in Malformed PROVE Parsed(p) \in Targets
  <2>1. Len(p) \in 10 .. Len(r)
    BY <1>1 DEF RequestOk, Begins
  <2>2. WellFormed(Parsed(p)) /\ p = Encode(Parsed(p))
    BY EncodeParsed
  <2> QED
    BY <1>1, <1>4, <2>1, <2>2, RequestsAssumption
<1> QED
  BY <1>1, <1>2, <1>3, <1>4, ScriptBytes

LEMMA RequestAcceptedStep ==
  ASSUME SocksIInv, NEW n \in 1 .. Len(wire), RequestAccepted(n) PROVE SocksIInv'
<1> USE DEF SocksIInv
<1>1. /\ nego = "ReadingRequest" /\ Negotiating(n) /\ Fits(n) /\ RequestOk(Arrived(n))
      /\ pending' = Arrived(n) /\ target' = Parsed(Arrived(n))
      /\ upper' = Connected(upper) /\ sock' = ReadDone(sock) /\ stage' = "matching"
      /\ UNCHANGED <<readLoop, writeLoop, header, posted, clientVars,
                     script, asked, nego, reply>>
  BY DEF RequestAccepted
<1>2. /\ stage = "opening" /\ Waiting("Read")
      /\ Unused(upper, "Establishing") /\ upper \in Flow /\ upper.type = "Local"
      /\ failed \subseteq Known /\ header = FALSE /\ CanReadDone(sock)
      /\ Arrived(n) \in Seq(Byte) /\ wire' \in Seq(Byte)
      /\ Arrived(n) \o wire' = Stream /\ Begins(Arrived(n), Stream)
      /\ reply # <<>>
  BY <1>1, NegotiatingState
<1>3. /\ Unused(upper', "Established") /\ upper' \in Flow /\ upper'.type = "Local"
      /\ CanConnected(upper)
  BY <1>1, <1>2, FlowType DEF Unused, Connected, Flow, CanConnected
<1>4. Common(Known)'
  <2>1. failed' \subseteq Known
    BY <1>2, <1>3 DEF RequestAccepted, ReadEndHolds, Assert, Check
  <2>2. Ready(Known)' /\ header' \in BOOLEAN
    BY <1>1, <1>2, <1>3 DEF Ready, Known
  <2> QED
    BY <1>1, <1>2, <1>3, <2>1, <2>2, NegotiatedStep
<1>5. asked /\ Stream = script.request
  <2>1. Stream # <<>> /\ Stream[1] = 5
    <3>1. Len(Arrived(n)) >= 10 /\ Arrived(n)[1] = 5 /\ Len(Arrived(n)) \in Nat
      BY <1>1, <1>2, LenProperties DEF RequestOk, RequestHead
    <3>2. Stream[1] = Arrived(n)[1] /\ Len(Arrived(n)) <= Len(Stream)
      BY <1>2, <3>1 DEF Begins
    <3>3. Len(Stream) # 0 /\ Len(<<>>) = 0
      BY <1>2, <3>1, <3>2, ConcatProperties, LenProperties, EmptySeq
    <3> QED
      BY <3>1, <3>2, <3>3
  <2> QED
    BY <1>2, <2>1 DEF RequestRead
<1>6. target' \in Targets /\ script.request = Encode(target') \o wire'
  <2>1. script \in Scripts
    BY DEF SocksTypes, SocksTypeOK
  <2> QED
    BY <1>1, <1>2, <1>5, <2>1, RequestRest
<1>7. SocksTypes'
  BY <1>1, <1>2, <1>4, <1>6 DEF SocksTypes, SocksTypeOK, Common, Fits
<1>8. HelloAnswer' /\ HelloRead' /\ RequestRead' /\ TargetGiven'
  BY <1>1, <1>2, <1>5, <1>6 DEF HelloAnswer, HelloRead, RequestRead, TargetGiven
<1> QED
  BY <1>4, <1>7, <1>8

\* The negotiation has failed, and the flow is released.
LEMMA SocksReleased ==
  ASSUME SocksIInv, Common(Known)', stage' = "released", header' = header,
         pending' = pending, wire' \in Seq(Byte), asked => asked',
         UNCHANGED <<script, asked, nego, reply, target>>
  PROVE  SocksIInv'
<1>1. SocksTypes'
  BY DEF SocksIInv, SocksTypes, SocksTypeOK, Common
<1>2. HelloAnswer' /\ HelloRead' /\ RequestRead' /\ TargetGiven'
  BY DEF SocksIInv, HelloAnswer, HelloRead, RequestRead, TargetGiven
<1> QED
  BY <1>1, <1>2 DEF SocksIInv

LEMMA SocksRefusedStep ==
  ASSUME SocksIInv, NEW n \in 1 .. Len(wire), SocksNegotiateRefused(n) PROVE SocksIInv'
<1>1. /\ Negotiating(n) /\ Assert(ReadEndHolds) /\ Fail(ReadDone(sock))
      /\ UNCHANGED <<clientVars, script, asked, pending, nego, reply, target>>
  BY DEF SocksNegotiateRefused
<1>2. /\ failed \subseteq Known /\ CanReadDone(sock) /\ ReadDone(sock) \in Socket
      /\ wire' \in Seq(Byte)
  BY <1>1, NegotiatingState
<1>3. failed' \subseteq Known
  BY <1>1, <1>2 DEF ReadEndHolds, Assert, Check
<1>4. Common(Known)'
  BY <1>1, <1>2, <1>3, FailStep DEF SocksIInv
<1>5. stage' = "released" /\ header' = header
  BY <1>1 DEF Fail, Release
<1> QED
  BY <1>1, <1>2, <1>4, <1>5, SocksReleased

LEMMA HelloBrokeStep == ASSUME SocksIInv, HelloBroke PROVE SocksIInv'
<1>1. /\ stage = "opening" /\ Waiting("Write") /\ Fail(WriteFailed(sock))
      /\ Assert(Check("sock.WriteEnd", CanWriteDone(sock)))
      /\ UNCHANGED <<clientVars, script, wire, asked, pending, nego, reply, target>>
  BY DEF HelloBroke, negoVars
<1>2. Negotiates(sock, "Write") /\ sock \in Socket /\ sock.fsm.type = "Local"
      /\ failed \subseteq Known
  BY <1>1, OpeningState DEF SocksIInv
<1>3. CanWriteDone(sock) /\ WriteFailed(sock) \in Socket
  BY <1>2, WriteNegotiates, SocketType
<1>4. failed' \subseteq Known
  BY <1>1, <1>2, <1>3 DEF Assert, Check
<1>5. Common(Known)'
  BY <1>1, <1>3, <1>4, FailStep DEF SocksIInv
<1>6. stage' = "released" /\ header' = header /\ wire' \in Seq(Byte)
  BY <1>1 DEF Fail, Release, SocksIInv, SocksTypes
<1> QED
  BY <1>1, <1>5, <1>6, SocksReleased

LEMMA HelloWrittenStep == ASSUME SocksIInv, HelloWritten PROVE SocksIInv'
<1> USE DEF SocksIInv
<1>1. /\ stage = "opening" /\ Waiting("Write") /\ sock' = Read(WriteDone(sock))
      /\ nego' = "ReadingRequest"
      /\ UNCHANGED <<stage, readLoop, writeLoop, upper, header, posted, clientVars,
                     script, wire, asked, pending, reply, target>>
  BY DEF HelloWritten, tunnelVars
<1>2. Negotiates(sock, "Write") /\ sock \in Socket /\ sock.fsm.type = "Local"
      /\ failed \subseteq Known
  BY <1>1, OpeningState
<1>3. /\ CanWriteDone(sock) /\ WriteDone(sock) \in Socket
      /\ Negotiates(WriteDone(sock), "-") /\ WriteDone(sock).fsm.type = "Local"
  BY <1>2, WriteNegotiates
<1>4. /\ CanReadBegin(WriteDone(sock).fsm) /\ Negotiates(sock', "Read")
      /\ sock'.fsm.type = "Local" /\ sock' \in Socket
  BY <1>1, <1>3, IdleCalls, SocketType
<1>5. Common(Known)'
  <2>1. failed' \subseteq Known
    BY <1>2, <1>3, <1>4 DEF HelloWritten, Assert, Check
  <2>2. UNCHANGED <<tunnelVars, upper, posted, clientVars>> /\ header' \in BOOLEAN
    BY <1>1 DEF tunnelVars, SocksTypes, Common, FlowTypeOK
  <2> QED
    BY <1>1, <1>4, <2>1, <2>2, NegotiationStep
<1>6. ~Waiting("Write")' /\ reply # <<>>
  BY <1>1, <1>4, OpNames DEF Negotiates, Waiting, HelloAnswer
<1>7. SocksTypes'
  BY <1>1, <1>5 DEF SocksTypes, SocksTypeOK, Common
<1>8. HelloAnswer'
  BY <1>1, <1>6 DEF HelloAnswer
<1>9. Stream' = Stream
  BY <1>1 DEF Stream
<1>10. HelloRead' /\ RequestRead' /\ TargetGiven'
  BY <1>1, <1>6, <1>9 DEF HelloRead, RequestRead, TargetGiven
<1> QED
  BY <1>5, <1>7, <1>8, <1>10

\* What is added at the end leaves the first byte.
LEMMA FirstByte ==
  ASSUME NEW p \in Seq(Byte), NEW w \in Seq(Byte), p # <<>>
  PROVE  p \o w # <<>> /\ (p \o w)[1] = p[1]
<1>1. /\ p \o w \in Seq(Byte) /\ Len(p) \in Nat /\ Len(w) \in Nat
      /\ Len(p \o w) = Len(p) + Len(w)
  BY ConcatProperties, LenProperties
<1>2. Len(p) >= 1
  BY <1>1, EmptySeq
<1>3. Len(p \o w) # 0
  BY <1>1, <1>2
<1>4. p \o w # <<>>
  BY <1>3, EmptySeq
<1>5. Begins(p, p \o w)
  BY Beginning
<1>6. 1 \in 1 .. Len(p)
  BY <1>1, <1>2
<1> QED
  BY <1>4, <1>5, <1>6 DEF Begins

\* What the client sends goes to the end of what it has sent.
LEMMA SendingBytes ==
  ASSUME NEW p \in Seq(Byte), NEW w \in Seq(Byte), NEW r \in Seq(Byte)
  PROVE  /\ w \o r \in Seq(Byte)
         /\ p \o w = <<>> => p \o (w \o r) = r
         /\ p \o w # <<>> => p \o (w \o r) # <<>> /\ (p \o (w \o r))[1] = (p \o w)[1]
<1>1. w \o r \in Seq(Byte)
  BY ConcatProperties
<1>2. CASE p = <<>>
  <2>1. p \o w = w /\ p \o (w \o r) = w \o r
    BY <1>1, <1>2, ConcatEmptySeq
  <2>2. w = <<>> => w \o r = r
    BY ConcatEmptySeq
  <2>3. w # <<>> => w \o r # <<>> /\ (w \o r)[1] = w[1]
    BY FirstByte
  <2> QED
    BY <1>1, <2>1, <2>2, <2>3
<1>3. CASE p # <<>>
  BY <1>1, <1>3, FirstByte
<1> QED
  BY <1>1, <1>2, <1>3

LEMMA ClientAsksStep == ASSUME SocksIInv, ClientAsks PROVE SocksIInv'
<1> USE DEF SocksIInv
<1>1. /\ reply = <<5, 0>> /\ ~asked /\ asked' = TRUE /\ wire' = wire \o script.request
      /\ UNCHANGED <<tunnelVars, flowVars, failed, clientVars,
                     script, pending, nego, reply, target>>
  BY DEF ClientAsks, vars
<1>2. reply # <<>>
  BY <1>1
<1>3. Common(Known)'
  <2>1. fin' \in BOOLEAN /\ reset' \in BOOLEAN /\ (reset => reset')
    BY <1>1 DEF Common, FlowTypeOK, clientVars
  <2> QED
    BY <1>1, <2>1, ClientStep
<1>4. script.request \in Seq(Byte) /\ pending \in Seq(Byte) /\ wire \in Seq(Byte)
  BY ScriptBytes DEF SocksTypes, SocksTypeOK
<1>5. /\ wire' \in Seq(Byte)
      /\ Stream = <<>> => Stream' = script.request
      /\ Stream # <<>> => Stream' # <<>> /\ Stream'[1] = Stream[1]
  BY <1>1, <1>4, SendingBytes DEF Stream
<1>6. SocksTypes'
  BY <1>1, <1>3, <1>5 DEF SocksTypes, SocksTypeOK, Common, flowVars
<1>7. stage' = stage /\ (Waiting("Write")' <=> Waiting("Write"))
  BY <1>1 DEF tunnelVars, flowVars, Waiting
<1>8. HelloAnswer' /\ HelloRead' /\ TargetGiven'
  BY <1>1, <1>2, <1>7 DEF HelloAnswer, HelloRead, TargetGiven
<1>9. RequestRead'
  BY <1>1, <1>5, <1>7 DEF RequestRead
<1> QED
  BY <1>3, <1>6, <1>8, <1>9

LEMMA SocksSameStep == ASSUME SocksIInv, UNCHANGED socksVars PROVE SocksIInv'
<1> USE DEF SocksIInv
<1>1. UNCHANGED <<tunnelVars, flowVars, failed, clientVars, script, wire, asked,
                  pending, nego, reply, target>>
  BY DEF socksVars, vars, negoVars
<1>2. Common(Known)'
  <2>1. fin' \in BOOLEAN /\ reset' \in BOOLEAN /\ (reset => reset')
    BY <1>1 DEF Common, FlowTypeOK, clientVars
  <2> QED
    BY <1>1, <2>1, ClientStep
<1>3. SocksTypes'
  BY <1>1, <1>2 DEF SocksTypes, SocksTypeOK, Common, flowVars
<1>4. Stream' = Stream /\ stage' = stage /\ (Waiting("Write")' <=> Waiting("Write"))
  BY <1>1 DEF Stream, tunnelVars, flowVars, Waiting
<1>5. HelloAnswer' /\ HelloRead' /\ RequestRead' /\ TargetGiven'
  BY <1>1, <1>4 DEF HelloAnswer, HelloRead, RequestRead, TargetGiven
<1> QED
  BY <1>2, <1>3, <1>5

LEMMA SocksStep == SocksIInv /\ [SocksNext]_socksVars => SocksIInv'
<1> SUFFICES ASSUME SocksIInv, [SocksNext]_socksVars PROVE SocksIInv'
  OBVIOUS
<1>1. CASE SocksShared /\ UNCHANGED negoVars
  BY <1>1, SocksSharedStep
<1>2. ASSUME NEW n \in 1 .. Len(wire), Negotiate(n) PROVE SocksIInv'
  BY <1>2, SocksMoreStep, HelloAcceptedStep, RequestAcceptedStep, SocksRefusedStep
     DEF Negotiate
<1>3. CASE HelloWritten \/ HelloBroke
  BY <1>3, HelloWrittenStep, HelloBrokeStep
<1>4. CASE ClientAsks
  BY <1>4, ClientAsksStep
<1>5. CASE SocksDone \/ UNCHANGED socksVars
  BY <1>5, SocksSameStep DEF SocksDone
<1> QED
  BY <1>1, <1>2, <1>3, <1>4, <1>5 DEF SocksNext

LEMMA SocksInvariant == SocksSpec => []SocksIInv
  BY SocksStart, SocksStep, PTL DEF SocksSpec

\* socks5_server_data_flow.cc: in every state of a SOCKS5 flow the variables
\* have their types and pending_auth_ has not overflowed, every call of the
\* tunnel is going to be answered, the flow and its socket have the same state
\* while they forward, no callback outlives the flow, and no assertion fails but
\* the second Connected, Shrink, ReadClosed for a client that closes while it
\* negotiates, and those after a half-close that failed.
THEOREM SocksFlow == SocksSpec => []SocksFlowInv
<1>1. SocksIInv => SocksFlowInv
  <2> SUFFICES ASSUME SocksIInv PROVE SocksFlowInv
    OBVIOUS
  <2>1. AnswerDue /\ LayersAgree
    BY CommonAnswers, CommonLayers DEF SocksIInv
  <2>2. OtherAssertionsHold
    <3>1. Failures(Known)
      BY DEF SocksIInv, Common
    <3>2. failed \subseteq Known => failed \ {"upper.Connected", "buffer.Shrink"} = {}
      BY DEF Known
    <3>3. failed \subseteq Known \cup {"sock.ReadClosed"} =>
            failed \subseteq Known \/ "sock.ReadClosed" \in failed
      OBVIOUS
    <3> QED
      BY <3>1, <3>2, <3>3 DEF OtherAssertionsHold, Failures, Broken
  <2> QED
    BY <2>1, <2>2 DEF SocksFlowInv, SocksIInv, SocksTypes, Common
<1> QED
  BY <1>1, SocksInvariant, PTL

\* NegotiateRead (socks5_server_data_flow.cc:239-460): however the hello and the
\* request are split into reads, the endpoint given to the session is the one
\* the client asked for, and what comes after the request is left to be read.
THEOREM SocksTargetAsAsked == SocksSpec => []TargetAsAsked
<1>1. SocksIInv => TargetAsAsked
  BY DEF SocksIInv, TargetGiven, TargetAsAsked
<1> QED
  BY <1>1, SocksInvariant, PTL

\* In no state does NegotiateRead refuse a client that says nothing wrong.
LEMMA WellSpokenAccepted ==
  ASSUME SocksIInv, WellSpoken, NEW n \in 1 .. Len(wire)
  PROVE  ~SocksNegotiateRefused(n)
<1> SUFFICES ASSUME SocksNegotiateRefused(n) PROVE FALSE
  OBVIOUS
<1> DEFINE p == Arrived(n)
<1>1. Negotiating(n) /\ nego \in {"ReadingVersion", "ReadingRequest"} /\ script \in Scripts
  BY DEF SocksNegotiateRefused, SocksIInv, SocksTypes, SocksTypeOK
<1>2. /\ stage = "opening" /\ p \in Seq(Byte) /\ Begins(p, Stream)
      /\ nego = "ReadingVersion" => Stream = script.hello
      /\ nego = "ReadingRequest" => reply # <<>>
  BY <1>1, NegotiatingState
<1>3. Len(p) >= 1
  <2>1. pending \in Seq(Byte) /\ wire \in Seq(Byte)
    BY DEF SocksIInv, SocksTypes
  <2>2. /\ Len(SubSeq(wire, 1, n)) = n /\ SubSeq(wire, 1, n) \in Seq(Byte)
        /\ Len(pending) \in Nat
    <3>1. /\ 1 \in Int /\ n \in Int /\ Len(wire) \in Nat /\ n <= Len(wire) /\ 1 <= n
          /\ \A i \in 1 .. Len(wire) : wire[i] \in Byte
      BY <2>1, LenProperties, ElementOfSeq
    <3>2. \A i \in 1 .. n : wire[i] \in Byte
      BY <3>1
    <3>3. /\ SubSeq(wire, 1, n) \in Seq(Byte)
          /\ Len(SubSeq(wire, 1, n)) = IF 1 <= n THEN n - 1 + 1 ELSE 0
      BY <3>1, <3>2, SubSeqProperties
    <3> QED
      BY <2>1, <3>1, <3>3, LenProperties
  <2>3. Len(p) = Len(pending) + n
    BY <2>1, <2>2, ConcatProperties DEF Arrived
  <2> QED
    BY <2>2, <2>3
<1>4. CASE nego = "ReadingVersion"
  <2>1. Begins(p, script.hello) /\ script.hello \in Seq(Byte) /\ HelloOk(script.hello)
    BY <1>1, <1>2, <1>4, ScriptBytes DEF WellSpoken
  <2>2. Fits(n)
    BY <1>2, <2>1, BufferSizeAssumption, LenProperties DEF Fits, Begins, WellSpoken
  <2>3. HelloMore(p) \/ HelloOk(p)
    BY <1>2, <2>1, HelloBeginning
  <2> QED
    BY <1>4, <2>2, <2>3 DEF SocksNegotiateRefused
<1>5. CASE nego = "ReadingRequest"
  <2>1. Len(Stream) >= 1 /\ Len(Stream) \in Nat /\ Stream # <<>>
    <3>1. Stream \in Seq(Byte)
      BY ConcatProperties DEF Stream, SocksIInv, SocksTypes
    <3> QED
      BY <1>2, <1>3, <3>1, LenProperties, EmptySeq DEF Begins
  <2>2. Stream = script.request
    BY <1>2, <1>5, <2>1 DEF SocksIInv, RequestRead, WellSpoken
  <2>3. PICK t \in Targets : script.request = Encode(t)
    BY DEF WellSpoken
  <2>4. /\ Encode(t) \in Seq(Byte) /\ RequestHead(Encode(t))
        /\ Len(Encode(t)) = RequestLength(Encode(t))
    BY RequestsAssumption, ParsedEncode
  <2>5. RequestMore(p) \/ RequestOk(p)
    BY <1>2, <2>2, <2>3, <2>4, RequestBeginning
  <2>6. Fits(n)
    BY <1>2, <2>2, BufferSizeAssumption, LenProperties DEF Fits, Begins, WellSpoken
  <2> QED
    BY <1>5, <2>5, <2>6 DEF SocksNegotiateRefused
<1> QED
  BY <1>1, <1>4, <1>5

\* NegotiateRead never refuses a hello that offers no authentication, nor a
\* request for a target, whatever the reads they arrive in.
THEOREM SocksGoodClient == SocksSpec => GoodClientNotRefused
<1>1. SocksIInv => ((\E n \in 1 .. Len(wire) : SocksNegotiateRefused(n)) => ~WellSpoken)
  BY WellSpokenAccepted
<1> QED
  BY <1>1, SocksInvariant, PTL DEF GoodClientNotRefused
=============================================================================
