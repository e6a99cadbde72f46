----------------------------- MODULE TlsProofs ------------------------------
(***************************************************************************)
(* TlsDataFlow over TlsTunnel and a socket: nothing that is due is         *)
(* forgotten, nothing runs once the flow is gone, and the streams are      *)
(* intact, for any records of the server, however they arrive, and any     *)
(* chunks of the tunnel.                                                   *)
(***************************************************************************)
EXTENDS Tls, SequenceTheorems, FiniteSetTheorems, WellFoundedInduction, TcpSocketProofs

-----------------------------------------------------------------------------
(* The inductive invariant. *)

\* The provers know nothing of STRING, not even that it has these in it.
Record  == (STRING \cup Shakes \cup Alerts) \ {"error"}
Data    == Record \ (Shakes \cup Alerts)
Message == STRING \cup {"hello", "finished"}
Names   == {"error_reported_", "used after release"}

TlsFlow == [fsm : Flow, sock : Socket, answer : {"none", "due", "ok", "error"},
            rd : {"none", "due"}, wr : {"none", "due"},
            postR : CallbackStates, postW : CallbackStates,
            handed : Seq(Data) \cup {<<"error">>},
            pending : BOOLEAN, reported : BOOLEAN,
            used : Nat, agreed : BOOLEAN, err : BOOLEAN, closed : BOOLEAN,
            plain : Seq(Data), stuck : BOOLEAN,
            bio : Seq(Message), out : Seq(Message), next : Seq(Message),
            alive : BOOLEAN, failed : SUBSET Names]

Owner == [read : {"idle", "ready", "reading", "ended", "gone"},
          write : {"idle", "ready", "writing", "closing", "gone"},
          got : Seq(Data), writes : 0..Len(Chunks)]

\* What the server says: the handshake, of which OpenSSL answers the first record,
\* and then no more of it.
Speech(r) ==
  /\ r \in Seq(Record)
  /\ \A i \in 1..Len(r) : r[i] \in ClientAnswers <=> i = 1
  /\ \A i, j \in 1..Len(r) : i < j => /\ r[j] \in Shakes => r[i] \in Shakes
                                      /\ r[i] \in ServerFinished => r[j] \notin Shakes

-----------------------------------------------------------------------------
(* The flow at each stage. *)

\* Nothing that the flow has put into the run loop will run.
Silent(t) == ~t.alive /\ Silenced(t.sock) /\ t.postR # "waiting" /\ t.postW # "waiting"

\* It connects: the socket does one thing, and the tunnel has called nothing else.
Shaking(t) ==
  /\ t.alive /\ t.answer = "due"
  /\ t.fsm.state = "Establishing" /\ ~t.fsm.reading /\ ~t.fsm.writing
  /\ t.rd = "none" /\ t.wr = "none" /\ t.postR = "none" /\ t.postW = "none"
  /\ t.handed = <<>> /\ ~t.pending /\ ~t.reported /\ ~t.stuck /\ ~t.err
  /\ t.bio = <<>> /\ t.out = <<>>
  /\ \/ At(t.sock, "Establishing", "Connect") /\ t.next = <<>> /\ t.used = 0
     \/ Doing(t.sock, "Read") /\ t.next = <<>>
     \/ Doing(t.sock, "Write")

\* A socket in use; only the end of the stream closes a half.
Using(x, ended) == /\ InUse(x) /\ ~x.fsm.write_closing /\ ~x.fsm.write_closed
                   /\ x.fsm.read_closed = ended /\ (ended => ~x.fsm.reading)

\* The state machine says what the tunnel has called and not been answered.
Machine(t) ==
  /\ t.fsm.state = "Established"
  /\ t.fsm.writing <=> t.wr = "due" \/ t.postW = "waiting"
  /\ ~(t.wr = "due" /\ t.postW = "waiting")
  /\ ~t.reported => /\ t.fsm.reading <=> t.rd = "due" \/ t.postR = "waiting"
                    /\ ~(t.rd = "due" /\ t.postR = "waiting")
  /\ t.reported => t.rd = "none" /\ t.postR # "waiting"
  /\ t.postR # "waiting" => t.handed = <<>>

\* The socket below, and what is with it.
Below(t) == IF t.pending THEN Silenced(t.sock)
            ELSE /\ Using(t.sock, t.reported)
                 /\ ~t.sock.fsm.writing => t.next = <<>>
                 /\ t.sock.fsm.reading => t.rd = "due" /\ t.plain = <<>>

\* Of what OpenSSL has emitted, only Finished may be left with it.
Left(t) == t.bio # <<>> => t.bio = <<"finished">> /\ t.out = <<>> /\ t.next = <<>>

Withheld(t) == /\ Left(t) /\ (t.bio # <<>> => ~t.sock.fsm.writing)
               /\ t.err => t.bio = <<>>
               /\ t.stuck => t.err

\* No plain text lies there once the end was reported, and beside a closure that
\* will call the tunnel only what an error came with.
Waits(t) == /\ t.reported => t.plain = <<>>
            /\ t.postR = "waiting" /\ t.plain # <<>> => t.err /\ t.handed = <<"error">>

\* Before Process.
Ready(t) == /\ t.alive /\ t.answer = "ok" /\ t.agreed
            /\ Machine(t) /\ Below(t) /\ Withheld(t) /\ Waits(t)
            /\ t.stuck => t.wr = "due"
            /\ t.out # <<>> =>
                 t.wr = "due" \/ (~t.reported /\ ~t.pending /\ ~t.sock.fsm.writing)

\* After it, and between callbacks.
Settled(t) ==
  /\ Ready(t)
  /\ t.out # <<>> => t.wr = "due"
  /\ ~t.reported => IF t.pending THEN t.rd = "none" /\ t.wr = "none"
                    ELSE /\ t.rd = "due" => t.sock.fsm.reading
                         /\ t.wr = "due" => t.sock.fsm.writing

\* At every stage of the connection.
Stage(t, tu, n, got) ==
  /\ t.answer = "none" =>
       /\ t = NewTls /\ n = 0 /\ got = <<>>
       /\ tu = [read |-> "idle", write |-> "idle", got |-> <<>>, writes |-> 0]
  /\ t.answer = "error" => ~t.alive
  /\ ~t.alive => Silent(t)
  /\ t.alive /\ t.answer = "due" => Shaking(t)
  /\ t.alive /\ t.answer = "ok" => Settled(t)
  /\ t.answer = "ok" => Left(t)

\* What the tunnel may call has been answered, and is not called after the end.
Calling(t, tu) ==
  /\ t.answer # "ok" => tu.writes = 0
  /\ t.alive =>
       /\ t.answer = "due" => tu.read = "idle" /\ tu.write = "idle"
       /\ tu.read = "idle" => tu.write = "idle" /\ tu.writes = 0
       /\ tu.read \in {"idle", "ready"} =>
            ~t.reported /\ t.rd = "none" /\ t.postR # "waiting"
       /\ tu.read = "reading" => t.rd = "due" \/ t.postR = "waiting"
       /\ tu.read = "ended" => t.reported
       /\ tu.write \in {"idle", "ready"} => t.wr = "none" /\ t.postW # "waiting"

\* What OpenSSL has made of the records it has taken.
Reached(t) ==
  /\ t.agreed <=> \E i \in 1..t.used : records[i] \in ServerFinished
  /\ (\E i \in 1..t.used : records[i] \in Alerts) => t.err \/ t.closed

Inward(t)  == (IF t.handed = <<"error">> THEN <<>> ELSE t.handed) \o t.plain
Outward(t) == (t.next \o t.out) \o t.bio

\* All that is ever to be emitted, and how much of it has been.
AllSent   == <<"hello", "finished">> \o Chunks
Begins(s) == Len(s) <= Len(AllSent) /\ s = SubSeq(AllSent, 1, Len(s))
Count(t, tu) == IF t.answer = "ok" THEN 2 + tu.writes
                ELSE IF t.answer = "none" \/ t.sock.cb["Connect"] = "waiting" THEN 0
                ELSE IF t.used = 0 THEN 1 ELSE 2

Streaming(t, tu, got) ==
  /\ IsData(tu.got \o Inward(t), t.used)
  /\ Begins(got \o Outward(t))
  /\ (t.alive \/ t.answer = "ok") /\ ~t.stuck => Len(got \o Outward(t)) = Count(t, tu)

\* All of it, of a flow, the tunnel's loops, the halves of records the flow has
\* read, and the messages the server has got.
Sound(t, tu, n, got) ==
  /\ t \in TlsFlow /\ tu \in Owner
  /\ n \in Nat /\ n <= 2 * Len(records) /\ got \in Seq(Message)
  /\ Stage(t, tu, n, got) /\ Calling(t, tu)
  /\ t.used <= n \div 2 /\ Reached(t)
  /\ Streaming(t, tu, got)

TlsIInv == Speech(records) /\ Sound(flow, tunnel, taken, heard)

-----------------------------------------------------------------------------
(* Numbers. *)

\* A set of natural numbers has a least one: of the intervals from 0 to one of
\* them, one has no other within it.
LEMMA LeastElement ==
  ASSUME NEW T \in SUBSET Nat, T # {}
  PROVE  Min(T) \in T /\ \A y \in T : Min(T) <= y
<1> DEFINE W == {0..x : x \in T}
<1>1. W \subseteq FiniteSubsetsOf(Nat) /\ W # {}
  <2>1. ASSUME NEW x \in T PROVE 0..x \in SUBSET Nat /\ IsFiniteSet(0..x)
    BY FS_Interval
  <2> QED
    BY <2>1 DEF FiniteSubsetsOf
<1>2. PICK w \in W : \A v \in W : <<v, w>> \notin StrictSubsetOrdering(Nat)
  <2> HIDE DEF W
  <2> QED
    BY <1>1, FS_StrictSubsetOrderingWellFounded, WFMin
<1>3. PICK x \in T : w = 0..x
  OBVIOUS
<1>4. ASSUME NEW y \in T, y < x PROVE FALSE
  <2>1. /\ 0..y \subseteq 0..x /\ 0..y # 0..x
        /\ 0..y \in SUBSET Nat /\ 0..x \in SUBSET Nat
    <3>1. x \in Nat /\ y \in Nat /\ x \in 0..x /\ x \notin 0..y
      BY <1>4
    <3> QED
      BY <3>1, <1>4
  <2>2. <<0..y, w>> \in StrictSubsetOrdering(Nat)
    BY <1>3, <2>1 DEF StrictSubsetOrdering
  <2> QED
    BY <1>2, <2>2
<1>5. \A y \in T : x <= y
  BY <1>4
<1> QED
  BY <1>5 DEF Min

\* The whole records among n halves.
LEMMA Halves ==
  ASSUME NEW m \in Nat, NEW n \in Nat, NEW l \in Nat, m <= n
  PROVE  /\ n \div 2 \in Nat /\ m \div 2 <= n \div 2
         /\ n <= 2 * l => n \div 2 <= l
         /\ (m + 1) \div 2 <= l => m <= 2 * l /\ m \div 2 <= l
  OBVIOUS

-----------------------------------------------------------------------------
(* The socket below. *)

LEMMA UsingCalls ==
  ASSUME NEW x \in Socket, NEW ended \in BOOLEAN, Using(x, ended)
  PROVE  /\ ~x.fsm.reading /\ ~ended =>
              /\ CanReadBegin(x.fsm) /\ Read(x) \in Socket /\ Using(Read(x), ended)
              /\ Read(x).fsm.reading /\ Read(x).fsm.writing = x.fsm.writing
         /\ ~x.fsm.writing =>
              /\ CanWriteBegin(x.fsm) /\ Write(x) \in Socket /\ Using(Write(x), ended)
              /\ Write(x).fsm.writing /\ Write(x).fsm.reading = x.fsm.reading
<1>1. Read(x) \in Socket /\ Write(x) \in Socket /\ x.fsm \in Flow
  BY SocketType DEF Socket
<1>2. ASSUME ~x.fsm.reading, ~ended
      PROVE  /\ CanReadBegin(x.fsm) /\ Using(Read(x), ended)
             /\ Read(x).fsm.reading /\ Read(x).fsm.writing = x.fsm.writing
  <2>1. IsReadable(x.fsm) /\ InUse(Read(x)) /\ Read(x).fsm = [x.fsm EXCEPT !.reading = TRUE]
    BY <1>2, ReadUses DEF Using
  <2>2. /\ Read(x).fsm.reading
        /\ Read(x).fsm.writing = x.fsm.writing
        /\ Read(x).fsm.read_closed = x.fsm.read_closed
        /\ Read(x).fsm.write_closing = x.fsm.write_closing
        /\ Read(x).fsm.write_closed = x.fsm.write_closed
    BY <1>1, <2>1 DEF Flow
  <2>3. Using(Read(x), ended)
    BY <1>2, <2>1, <2>2 DEF Using
  <2> QED
    BY <1>1, <2>1, <2>2, <2>3 DEF CanReadBegin
<1>3. ASSUME ~x.fsm.writing
      PROVE  /\ CanWriteBegin(x.fsm) /\ Using(Write(x), ended)
             /\ Write(x).fsm.writing /\ Write(x).fsm.reading = x.fsm.reading
  <2>1. IsWritable(x.fsm) /\ InUse(Write(x)) /\ Write(x).fsm = [x.fsm EXCEPT !.writing = TRUE]
    BY <1>3, WriteUses DEF Using
  <2>2. /\ Write(x).fsm.writing
        /\ Write(x).fsm.reading = x.fsm.reading
        /\ Write(x).fsm.read_closed = x.fsm.read_closed
        /\ Write(x).fsm.write_closing = x.fsm.write_closing
        /\ Write(x).fsm.write_closed = x.fsm.write_closed
    BY <1>1, <2>1 DEF Flow
  <2>3. Using(Write(x), ended)
    BY <2>1, <2>2 DEF Using
  <2> QED
    BY <1>1, <2>1, <2>2, <2>3 DEF CanWriteBegin
<1> QED
  BY <1>1, <1>2, <1>3

LEMMA UsingCallbacks ==
  ASSUME NEW x \in Socket, NEW ended \in BOOLEAN, Using(x, ended)
  PROVE  /\ x.cb["Read"] = "waiting" <=> x.fsm.reading
         /\ x.cb["Write"] = "waiting" <=> x.fsm.writing
         /\ \A op \in Ops \ {"Read", "Write"} : x.cb[op] = "none"
         /\ \A op \in Ops : x.cb[op] # "canceled"
  BY DEF Using, InUse, Ops

LEMMA UsingRead ==
  ASSUME NEW x \in Socket, NEW ended \in BOOLEAN, Using(x, ended), x.cb["Read"] = "waiting"
  PROVE  /\ ~ended
         /\ ReadDone(x) \in Socket /\ Using(ReadDone(x), FALSE)
         /\ ~ReadDone(x).fsm.reading /\ ReadDone(x).fsm.writing = x.fsm.writing
         /\ CanReadEof(x) /\ ReadEof(x) \in Socket /\ Using(ReadEof(x), TRUE)
         /\ ReadEof(x).fsm.writing = x.fsm.writing
         /\ ReadFailed(x) \in Socket /\ Silenced(ReadFailed(x))
<1>1. /\ ReadDone(x) \in Socket /\ ReadEof(x) \in Socket /\ ReadFailed(x) \in Socket
      /\ x.fsm \in Flow /\ x.fsm.reading /\ ~ended
  BY SocketType, UsingCallbacks DEF Socket, Using
<1>2. InUse(ReadDone(x)) /\ ReadDone(x).fsm = [x.fsm EXCEPT !.reading = FALSE]
  BY ReadDoneUses DEF Using
<1>3. /\ CanReadEof(x) /\ InUse(ReadEof(x))
      /\ ReadEof(x).fsm = [x.fsm EXCEPT !.reading = FALSE, !.read_closed = TRUE,
                             !.state = IF x.fsm.write_closed THEN "Closed" ELSE "Closing"]
  BY <1>1, ReadEofUses DEF Using
<1>4. \A op \in Ops : ReadFailed(x).cb[op] # "waiting"
  BY UsingCallbacks, CallNames DEF ReadFailed, Return, Cancel, WriteSlot, Socket
<1> QED
  BY <1>1, <1>2, <1>3, <1>4 DEF Using, Flow, Silenced

LEMMA UsingWrite ==
  ASSUME NEW x \in Socket, NEW ended \in BOOLEAN, Using(x, ended), x.cb["Write"] = "waiting"
  PROVE  /\ x.fsm.writing
         /\ WriteDone(x) \in Socket /\ Using(WriteDone(x), ended)
         /\ ~WriteDone(x).fsm.writing /\ WriteDone(x).fsm.reading = x.fsm.reading
         /\ WriteFailed(x) \in Socket /\ Silenced(WriteFailed(x))
<1>1. /\ WriteDone(x) \in Socket /\ WriteFailed(x) \in Socket
      /\ x.fsm \in Flow /\ x.fsm.writing
  BY SocketType, UsingCallbacks DEF Socket
<1>2. InUse(WriteDone(x)) /\ WriteDone(x).fsm = [x.fsm EXCEPT !.writing = FALSE]
  BY WriteDoneUses DEF Using
<1>3. \A op \in Ops : WriteFailed(x).cb[op] # "waiting"
  BY UsingCallbacks, CallNames DEF WriteFailed, Return, Cancel, ReadSlot, Socket
<1> QED
  BY <1>1, <1>2, <1>3 DEF Using, Flow, Silenced

-----------------------------------------------------------------------------
(* Process, and what it calls. *)

\* What Process leaves alone.
Kept(t, u) ==
  /\ u.answer = t.answer /\ u.used = t.used /\ u.agreed = t.agreed /\ u.err = t.err
  /\ u.closed = t.closed /\ u.stuck = t.stuck
  /\ Inward(u) = Inward(t) /\ Outward(u) = Outward(t)

\* No call of the tunnel appears.
NoCalls(t, u) == /\ u.reported = t.reported
                 /\ t.rd = "none" => u.rd = "none" /\ u.postR = t.postR
                 /\ t.rd = "due" => u.rd = "due" \/ u.postR = "waiting"
                 /\ t.wr = "none" => u.wr = "none" /\ u.postW = t.postW

LEMMA Streams2 ==
  ASSUME NEW t \in TlsFlow
  PROVE  /\ t.plain \in Seq(Data) /\ t.plain # <<"error">>
         /\ t.plain \o <<>> = t.plain /\ <<>> \o t.plain = t.plain
         /\ <<>> \in Seq(Data) /\ <<>> # <<"error">>
         /\ (<<>> \o t.out) \o t.bio = t.out \o t.bio /\ (t.out \o <<>>) \o t.bio = t.out \o t.bio
<1>1. t.plain \in Seq(Data) /\ t.out \in Seq(Message)
  BY DEF TlsFlow
<1>2. t.plain # <<"error">>
  <2>1. ASSUME t.plain = <<"error">> PROVE FALSE
    <3>1. Len(t.plain) = 1 /\ t.plain[1] = "error"
      BY <2>1
    <3>2. t.plain[1] \in Data
      BY <1>1, <3>1, ElementOfSeq
    <3> QED
      BY <3>1, <3>2 DEF Data, Record
  <2> QED
    BY <2>1
<1> QED
  BY <1>1, <1>2, ConcatEmptySeq, EmptySeq

LEMMA TryReadKeeps ==
  ASSUME NEW t \in TlsFlow, Ready(t), ~t.reported, ~t.pending
  PROVE  LET u == TryRead(t) IN
         /\ u \in TlsFlow /\ Ready(u) /\ Kept(t, u) /\ NoCalls(t, u)
         /\ ~u.pending /\ u.wr = t.wr
         /\ u.rd = "due" => u.sock.fsm.reading
<1> DEFINE u == TryRead(t)
<1>1. t.sock \in Socket /\ Using(t.sock, FALSE)
  BY DEF TlsFlow, Ready, Below
<1>2. CASE t.rd = "none"
  BY <1>2 DEF TryRead, Kept, NoCalls
<1>3. CASE t.rd = "due" /\ t.plain = <<>>
  <2>1. CASE t.sock.fsm.reading
    BY <1>3, <2>1 DEF TryRead, TryReadNextHop, Kept, NoCalls
  <2>2. CASE ~t.sock.fsm.reading
    <3> DEFINE x == Read(t.sock)
    <3>1. /\ CanReadBegin(t.sock.fsm) /\ x \in Socket /\ Using(x, FALSE)
          /\ x.fsm.reading /\ x.fsm.writing = t.sock.fsm.writing
      BY <1>1, <2>2, UsingCalls
    <3>2. u = [t EXCEPT !.sock = x]
      BY <1>3, <2>2, <3>1 DEF TryRead, TryReadNextHop, Asserting
    <3> HIDE DEF u, x
    <3>3. /\ u \in TlsFlow /\ u.sock = x
          /\ Inward(u) = Inward(t) /\ Outward(u) = Outward(t)
      BY <3>1, <3>2 DEF TlsFlow, Inward, Outward
    <3>4. Machine(u) /\ Below(u) /\ Withheld(u)
      BY <1>3, <3>1, <3>2, <3>3 DEF TlsFlow, Ready, Machine, Below, Withheld, Left
    <3> QED
      BY <1>3, <3>1, <3>2, <3>3, <3>4 DEF TlsFlow, Ready, Kept, NoCalls, u, Waits
  <2> QED
    BY <2>1, <2>2
<1>4. CASE t.rd = "due" /\ t.plain # <<>>
  <2>1. u = [t EXCEPT !.postR = "waiting", !.rd = "none",
                      !.handed = IF t.err THEN <<"error">> ELSE t.plain,
                      !.plain = IF t.err THEN t.plain ELSE <<>>]
    BY <1>4 DEF TryRead
  <2>2. t.handed = <<>> /\ ~t.sock.fsm.reading
    BY <1>4 DEF Ready, Machine, Below
  <2> HIDE DEF u
  <2>3. /\ u \in TlsFlow /\ Inward(u) = Inward(t) /\ Outward(u) = Outward(t)
    BY <2>1, <2>2, Streams2 DEF TlsFlow, Inward, Outward, CallbackStates
  <2>4. Machine(u) /\ Below(u) /\ Withheld(u)
    BY <1>4, <2>1, <2>2, <2>3 DEF TlsFlow, Ready, Machine, Below, Withheld, Left
  <2> QED
    BY <1>4, <2>1, <2>3, <2>4, ZenonT(30) DEF TlsFlow, Ready, Kept, NoCalls, u, Waits
<1> QED
  BY <1>2, <1>3, <1>4 DEF TlsFlow

LEMMA TryWriteKeeps ==
  ASSUME NEW t \in TlsFlow, Ready(t), ~t.reported, ~t.pending,
         t.rd = "due" => t.sock.fsm.reading
  PROVE  LET u == TryWrite(t) IN
         /\ u \in TlsFlow /\ Settled(u) /\ Kept(t, u) /\ NoCalls(t, u)
<1> DEFINE u == TryWrite(t)
<1>1. t.sock \in Socket /\ Using(t.sock, FALSE)
  BY DEF TlsFlow, Ready, Below
<1>2. CASE ~FinishWritingCipherData(t) /\ t.sock.fsm.writing
  <2>1. u = t
    BY <1>2 DEF TryWrite, TryWriteNextHop
  <2>2. t.out # <<>> => t.wr = "due"
    BY <1>2 DEF Ready
  <2> QED
    BY <1>2, <2>1, <2>2 DEF Settled, Kept, NoCalls
<1>3. CASE ~FinishWritingCipherData(t) /\ ~t.sock.fsm.writing
  <2> DEFINE x == Write(t.sock)
  <2>1. /\ CanWriteBegin(t.sock.fsm) /\ x \in Socket /\ Using(x, FALSE)
        /\ x.fsm.writing /\ x.fsm.reading = t.sock.fsm.reading
    BY <1>1, <1>3, UsingCalls
  <2>2. u = [t EXCEPT !.sock = x, !.next = t.out, !.out = <<>>]
    BY <1>3, <2>1 DEF TryWrite, TryWriteNextHop, Asserting
  <2>3. t.next = <<>>
    BY <1>3 DEF Ready, Below
  <2>4. t.bio = <<>>
    <3>1. t.stuck \/ t.out # <<>>
      BY <1>3 DEF FinishWritingCipherData
    <3> QED
      BY <3>1 DEF Ready, Withheld, Left
  <2> HIDE DEF u, x
  <2>5. /\ u \in TlsFlow /\ u.sock = x /\ u.out = <<>> /\ u.next = t.out /\ u.bio = t.bio
        /\ Inward(u) = Inward(t)
    BY <2>1, <2>2, EmptySeq DEF TlsFlow, Inward
  <2>6. Outward(u) = Outward(t)
    BY <2>3, <2>5, Streams2 DEF Outward
  <2>7. Machine(u) /\ Below(u) /\ Withheld(u)
    <3>1. Machine(u)
      BY <2>2 DEF TlsFlow, Ready, Machine
    <3>2. Below(u)
      BY <2>1, <2>2 DEF TlsFlow, Ready, Below
    <3>3. Withheld(u)
      BY <2>2, <2>4, <2>5 DEF TlsFlow, Ready, Withheld, Left
    <3> QED
      BY <3>1, <3>2, <3>3
  <2> QED
    BY <2>1, <2>2, <2>5, <2>6, <2>7, ZenonT(30) DEF TlsFlow, Ready, Settled, Kept, NoCalls, u, Waits
<1>4. CASE FinishWritingCipherData(t) /\ t.wr = "due"
  <2>1. u = [t EXCEPT !.postW = "waiting", !.wr = "none"]
    BY <1>4 DEF TryWrite
  <2> HIDE DEF u
  <2>2. u \in TlsFlow /\ Inward(u) = Inward(t) /\ Outward(u) = Outward(t)
    BY <2>1 DEF TlsFlow, CallbackStates, Inward, Outward
  <2>3. Machine(u) /\ Below(u) /\ Withheld(u)
    BY <1>4, <2>1, <2>2 DEF TlsFlow, Ready, Machine, Below, Withheld, Left
  <2> QED
    BY <1>4, <2>1, <2>2, <2>3
       DEF TlsFlow, Ready, Settled, Kept, NoCalls, FinishWritingCipherData, u, Waits
<1>5. CASE FinishWritingCipherData(t) /\ t.wr # "due"
  BY <1>5 DEF TryWrite, Settled, Kept, NoCalls, FinishWritingCipherData
<1> QED
  BY <1>2, <1>3, <1>4, <1>5

LEMMA DestroyedKeeps ==
  ASSUME NEW t \in TlsFlow
  PROVE  LET u == Destroyed(t) IN
         /\ u \in TlsFlow /\ Silent(u) /\ Kept(t, u)
         /\ u.bio = t.bio /\ u.out = t.out /\ u.next = t.next
<1> DEFINE u == Destroyed(t)
<1>1. Destroy(t.sock) \in Socket /\ Silenced(Destroy(t.sock))
  BY SocketType, DestroySilences DEF TlsFlow, Silenced
<1>2. u = [t EXCEPT !.alive = FALSE, !.sock = Destroy(t.sock),
                    !.postR = IF t.postR = "waiting" THEN "canceled" ELSE t.postR,
                    !.postW = IF t.postW = "waiting" THEN "canceled" ELSE t.postW]
  BY DEF Destroyed
<1> HIDE DEF u
<1>3. u \in TlsFlow
  <2> DEFINE r == IF t.postR = "waiting" THEN "canceled" ELSE t.postR
             w == IF t.postW = "waiting" THEN "canceled" ELSE t.postW
  <2>1. r \in CallbackStates /\ w \in CallbackStates
    BY DEF TlsFlow, CallbackStates
  <2>2. u = [t EXCEPT !.alive = FALSE, !.sock = Destroy(t.sock), !.postR = r, !.postW = w]
    BY <1>2
  <2> HIDE DEF r, w
  <2> QED
    BY <1>1, <2>1, <2>2 DEF TlsFlow
<1>4. Silent(u)
  BY <1>1, <1>2 DEF TlsFlow, Silent
<1> QED
  BY <1>2, <1>3, <1>4 DEF TlsFlow, Kept, Inward, Outward, u

\* An error that can be reported ends the flow.
LEMMA ReportErrorReleases ==
  ASSUME NEW t \in TlsFlow, NEW readFirst \in BOOLEAN, t.rd = "due" \/ t.wr = "due"
  PROVE  LET u == ReportError(t, FALSE, readFirst) IN
         /\ u \in TlsFlow /\ Silent(u) /\ Kept(t, u)
         /\ u.bio = t.bio /\ u.out = t.out /\ u.next = t.next
<1> DEFINE toRead == t.rd = "due" /\ (readFirst \/ t.wr = "none")
           r == IF toRead THEN "none" ELSE t.rd
           w == IF toRead THEN t.wr ELSE "none"
           t2 == [t EXCEPT !.rd = r, !.wr = w, !.reported = TRUE]
           v == Destroyed(t2)
           u == [v EXCEPT !.failed = @ \cup {"used after release"}]
<1>1. ReportError(t, FALSE, readFirst) = u
  BY DEF ReportError, Asserting
<1>2. r \in {"none", "due"} /\ w \in {"none", "due"}
  BY DEF TlsFlow
<1> HIDE DEF toRead, r, w
<1>3. /\ t2 \in TlsFlow /\ Kept(t, t2)
      /\ t2.bio = t.bio /\ t2.out = t.out /\ t2.next = t.next
  BY <1>2 DEF TlsFlow, Kept, Inward, Outward
<1> HIDE DEF t2
<1>4. /\ v \in TlsFlow /\ Silent(v) /\ Kept(t2, v)
      /\ v.bio = t2.bio /\ v.out = t2.out /\ v.next = t2.next
  BY <1>3, DestroyedKeeps
<1> HIDE DEF v
<1>5. /\ u \in TlsFlow /\ Silent(u) /\ Kept(v, u)
      /\ u.bio = v.bio /\ u.out = v.out /\ u.next = v.next
  BY <1>4 DEF TlsFlow, Names, Silent, Kept, Inward, Outward
<1> HIDE DEF u
<1>6. Kept(t, u)
  BY <1>3, <1>4, <1>5 DEF Kept
<1> QED
  BY <1>1, <1>3, <1>4, <1>5, <1>6

\* What Process does, before which an error is pending only if someone is told.
LEMMA ProcessKeeps ==
  ASSUME NEW t \in TlsFlow, Ready(t),
         t.pending /\ ~t.reported => t.rd = "due" \/ t.wr = "due"
  PROVE  LET u == Process(t) IN
         /\ u \in TlsFlow /\ Kept(t, u) /\ Left(u)
         /\ \/ u.alive /\ Settled(u) /\ NoCalls(t, u)
            \/ Silent(u)
<1> DEFINE u == Process(t)
<1>1. CASE t.reported
  <2>1. u = t
    BY <1>1 DEF Process
  <2>2. t.out # <<>> => t.wr = "due"
    BY <1>1 DEF Ready
  <2> QED
    BY <1>1, <2>1, <2>2 DEF Kept, NoCalls, Settled, Ready, Withheld
<1>2. CASE ~t.reported /\ t.pending
  <2>1. u = ReportError(t, FALSE, TRUE)
    BY <1>2 DEF Process
  <2> QED
    BY <1>2, <2>1, ReportErrorReleases DEF Ready, Withheld, Left
<1>3. CASE ~t.reported /\ ~t.pending
  <2> DEFINE v == TryRead(t)
  <2>1. u = TryWrite(v)
    BY <1>3 DEF Process
  <2>2. /\ v \in TlsFlow /\ Ready(v) /\ Kept(t, v) /\ NoCalls(t, v)
        /\ ~v.pending /\ v.wr = t.wr
        /\ v.rd = "due" => v.sock.fsm.reading
    BY <1>3, TryReadKeeps
  <2>3. ~v.reported
    BY <1>3, <2>2 DEF NoCalls
  <2> HIDE DEF u, v
  <2>4. u \in TlsFlow /\ Settled(u) /\ Kept(v, u) /\ NoCalls(v, u)
    BY <2>1, <2>2, <2>3, TryWriteKeeps
  <2>5. Kept(t, u) /\ NoCalls(t, u)
    BY <2>2, <2>4 DEF Kept, NoCalls, TlsFlow
  <2> QED
    BY <2>4, <2>5 DEF Settled, Ready, Withheld, u
<1> QED
  BY <1>1, <1>2, <1>3

-----------------------------------------------------------------------------
(* SSL_read. *)

LEMMA DataBetween ==
  ASSUME NEW d, NEW n \in Nat, NEW i \in 0..n, NEW j \in 0..n,
         d = SubSeq(records, i + 1, j),
         \A k \in 1..n : k \in i + 1..j <=> records[k] \notin Shakes \cup Alerts
  PROVE  IsData(d, n)
  BY DEF IsData

\* A record that is not data adds nothing.
LEMMA DataSkips ==
  ASSUME NEW d, NEW m \in Nat, NEW n \in Nat, m <= n, IsData(d, m),
         \A k \in m + 1..n : records[k] \in Shakes \cup Alerts
  PROVE  IsData(d, n)
<1>1. PICK i \in 0..m, j \in 0..m :
        /\ d = SubSeq(records, i + 1, j)
        /\ \A k \in 1..m : k \in i + 1..j <=> records[k] \notin Shakes \cup Alerts
  BY DEF IsData
<1>2. ASSUME NEW k \in 1..n
      PROVE  k \in i + 1..j <=> records[k] \notin Shakes \cup Alerts
  <2>1. CASE k \in 1..m
    BY <1>1, <2>1
  <2>2. CASE k \in m + 1..n
    BY <2>2
  <2> QED
    BY <2>1, <2>2
<1>3. i \in 0..n /\ j \in 0..n
  OBVIOUS
<1> QED
  BY <1>1, <1>2, <1>3, DataBetween

\* Data come right after the data there are, when no alert was taken.
LEMMA DataExtends ==
  ASSUME NEW d, NEW m \in Nat, NEW lo \in Nat, NEW hi \in Nat, NEW n \in Nat,
         m < lo, lo <= hi, hi <= n, n <= Len(records), Speech(records), IsData(d, m),
         \A k \in m + 1..lo - 1 : records[k] \in Shakes,
         \A k \in lo..hi : records[k] \in Data,
         \A k \in hi + 1..n : records[k] \in Alerts,
         \A k \in 1..m : records[k] \notin Alerts
  PROVE  IsData(d \o SubSeq(records, lo, hi), n)
<1>1. PICK i \in 0..m, j \in 0..m :
        /\ d = SubSeq(records, i + 1, j)
        /\ \A k \in 1..m : k \in i + 1..j <=> records[k] \notin Shakes \cup Alerts
  BY DEF IsData
<1>2. /\ records \in Seq(Record) /\ Len(records) \in Nat
      /\ lo \in 1..Len(records) /\ hi \in 1..Len(records)
      /\ \A a, b \in 1..Len(records) : a < b => (records[b] \in Shakes => records[a] \in Shakes)
  <2>1. records \in Seq(Record) /\ Len(records) \in Nat
    BY LenProperties DEF Speech
  <2> QED
    BY <2>1 DEF Speech
<1>3. \A k \in m + 1..n : k \in lo..hi <=> records[k] \notin Shakes \cup Alerts
  <2> TAKE k \in m + 1..n
  <2>1. k \in m + 1..lo - 1 \/ k \in lo..hi \/ k \in hi + 1..n
    OBVIOUS
  <2> QED
    BY <2>1 DEF Data
<1>4. CASE i < j
  <2>1. records[i + 1] \notin Shakes /\ i + 1 \in 1..Len(records)
    <3>1. i + 1 \in 1..m /\ i + 1 \in i + 1..j
      BY <1>4
    <3> QED
      BY <1>1, <1>2, <3>1
  <2>2. \A k \in i + 1..hi : records[k] \notin Shakes
    <3> TAKE k \in i + 1..hi
    <3>1. k \in 1..Len(records) /\ (k = i + 1 \/ i + 1 < k)
      BY <1>2
    <3> QED
      BY <1>2, <2>1, <3>1
  <2>3. lo = m + 1
    <3>1. ASSUME lo # m + 1 PROVE FALSE
      <4>1. lo - 1 \in m + 1..lo - 1 /\ lo - 1 \in i + 1..hi
        BY <3>1
      <4> QED
        BY <2>2, <4>1
    <3> QED
      BY <3>1
  <2>4. j = m
    <3>1. ASSUME j # m PROVE FALSE
      <4>1. m \in 1..m /\ m \notin i + 1..j /\ m \in i + 1..hi
        BY <1>4, <3>1
      <4> QED
        BY <1>1, <2>2, <4>1
    <3> QED
      BY <3>1
  <2>5. d \o SubSeq(records, lo, hi) = SubSeq(records, i + 1, hi)
    <3>1. i + 1 \in 1..Len(records) + 1 /\ m \in i + 1 - 1..Len(records) /\ hi \in m..Len(records)
      BY <1>2, <1>4, <2>4
    <3> QED
      BY <1>1, <1>2, <2>3, <2>4, <3>1, ConcatAdjacentSubSeq
  <2>6. ASSUME NEW k \in 1..n
        PROVE  k \in i + 1..hi <=> records[k] \notin Shakes \cup Alerts
    <3>1. CASE k \in m + 1..n
      <4>1. k \in i + 1..hi <=> k \in lo..hi
        BY <2>3, <3>1
      <4> QED
        BY <1>3, <3>1, <4>1
    <3>2. CASE k \in 1..m
      <4>1. k \in i + 1..j <=> k \in i + 1..hi
        BY <2>4, <3>2
      <4> QED
        BY <1>1, <3>2, <4>1
    <3> QED
      BY <3>1, <3>2
  <2>7. i \in 0..n /\ hi \in 0..n
    OBVIOUS
  <2> QED
    BY <2>5, <2>6, <2>7, DataBetween
<1>5. CASE ~(i < j)
  <2>1. d \o SubSeq(records, lo, hi) = SubSeq(records, lo, hi)
    <3>1. d = <<>>
      BY <1>1, <1>5, SubSeqEmpty
    <3>2. \A k \in lo..hi : records[k] \in Record
      BY DEF Data
    <3>3. SubSeq(records, lo, hi) \in Seq(Record)
      BY <3>2, SubSeqProperties
    <3> QED
      BY <3>1, <3>3, ConcatEmptySeq
  <2>2. lo - 1 + 1 = lo /\ lo - 1 \in 0..n /\ hi \in 0..n
    OBVIOUS
  <2>3. ASSUME NEW k \in 1..n
        PROVE  k \in lo..hi <=> records[k] \notin Shakes \cup Alerts
    <3>1. CASE k \in m + 1..n
      BY <1>3, <3>1
    <3>2. CASE k \in 1..m
      BY <1>1, <1>5, <3>2
    <3> QED
      BY <3>1, <3>2
  <2> QED
    BY <2>1, <2>2, <2>3, DataBetween
<1> QED
  BY <1>4, <1>5

LEMMA ConcatAppend ==
  ASSUME NEW S, NEW a \in Seq(S), NEW b \in Seq(S), NEW x \in S
  PROVE  a \o Append(b, x) = Append(a \o b, x)
<1>1. <<x>> \in Seq(S) /\ a \o b \in Seq(S)
  OBVIOUS
<1>2. Append(b, x) = b \o <<x>> /\ Append(a \o b, x) = (a \o b) \o <<x>>
  BY <1>1, AppendIsConcat
<1> QED
  BY <1>1, <1>2, ConcatAssociative

\* Four sequences in a row, and what the first two, the two in the middle and the
\* last three of them make.
LEMMA Regroup ==
  ASSUME NEW S, NEW a \in Seq(S), NEW b \in Seq(S), NEW c \in Seq(S), NEW m \in Seq(S)
  PROVE  /\ a \o (b \o c) = (a \o b) \o c
         /\ a \o ((b \o c) \o m) = (a \o (b \o c)) \o m
         /\ a \o ((b \o c) \o m) \in Seq(S)
<1>1. ASSUME NEW x \in Seq(S), NEW y \in Seq(S), NEW z \in Seq(S)
      PROVE  (x \o y) \o z = x \o (y \o z)
  BY ONLY x \in Seq(S), y \in Seq(S), z \in Seq(S), ConcatAssociative, SMTT(30)
<1>2. ASSUME NEW x \in Seq(S), NEW y \in Seq(S)
      PROVE  x \o y \in Seq(S)
  BY ConcatProperties
<1> DEFINE e == b \o c
<1>3. e \in Seq(S)
  BY <1>2, Zenon
<1>4. (a \o b) \o c = a \o e
  BY <1>1, Zenon
<1> HIDE DEF e
<1>5. e \o m \in Seq(S)
  BY <1>2, <1>3, Zenon
<1>6. a \o (e \o m) \in Seq(S)
  BY <1>2, <1>5, Zenon
<1>7. (a \o e) \o m = a \o (e \o m)
  BY <1>1, <1>3, Zenon
<1> QED
  BY <1>4, <1>6, <1>7, Zenon DEF e

\* What OpenSSL leaves alone when it is given records.
Fed(t, u) ==
  /\ u.fsm = t.fsm /\ u.sock = t.sock /\ u.answer = t.answer /\ u.rd = t.rd /\ u.wr = t.wr
  /\ u.postR = t.postR /\ u.postW = t.postW /\ u.handed = t.handed
  /\ u.pending = t.pending /\ u.reported = t.reported /\ u.stuck = t.stuck
  /\ u.next = t.next /\ u.alive = t.alive
  /\ t.agreed => u.agreed
  /\ t.err => u.err

\* The record OpenSSL has got to, and where the data begin.
Behind(t, last) == {i \in t.used + 1..last : records[i] \notin Shakes}

LEMMA PlaceIs ==
  ASSUME NEW t \in TlsFlow, NEW m \in Nat, Speech(records), m <= Len(records),
         t.used <= m, t.used = 0 => m <= 1, NEW last \in Places(t, m)
  PROVE  /\ last \in Nat /\ t.used <= last /\ last <= m
         /\ \A i \in t.used + 1..last - 1 : records[i] \notin Alerts
         /\ Behind(t, last) = {} => \A i \in t.used + 1..last : records[i] \in Shakes
         /\ Behind(t, last) # {} =>
              /\ t.used # 0 /\ Min(Behind(t, last)) \in t.used + 1..last
              /\ \A k \in t.used + 1..Min(Behind(t, last)) - 1 : records[k] \in Shakes
              /\ \A k \in Min(Behind(t, last))..last : records[k] \notin Shakes
<1>1. /\ t.used \in Nat /\ Len(records) \in Nat
      /\ last \in t.used..m /\ \A i \in t.used + 1..last - 1 : records[i] \notin Alerts
  <2>1. records \in Seq(Record)
    BY DEF Speech
  <2> QED
    BY <2>1, LenProperties DEF TlsFlow, Places
<1>2. last \in Nat /\ t.used <= last /\ last <= m
  BY <1>1
<1>3. ASSUME Behind(t, last) # {}
      PROVE  /\ t.used # 0 /\ Min(Behind(t, last)) \in t.used + 1..last
             /\ \A k \in t.used + 1..Min(Behind(t, last)) - 1 : records[k] \in Shakes
             /\ \A k \in Min(Behind(t, last))..last : records[k] \notin Shakes
  <2> DEFINE lo == Min(Behind(t, last))
  <2>1. Behind(t, last) \in SUBSET Nat
    BY <1>1 DEF Behind
  <2>2. lo \in Behind(t, last) /\ \A y \in Behind(t, last) : lo <= y
    BY <1>3, <2>1, LeastElement
  <2> HIDE DEF lo
  <2>3. lo \in t.used + 1..last /\ records[lo] \notin Shakes /\ lo \in Nat
    BY <1>1, <2>2 DEF Behind
  <2>4. \A k \in t.used + 1..lo - 1 : records[k] \in Shakes
    <3> TAKE k \in t.used + 1..lo - 1
    <3>1. k \in t.used + 1..last /\ ~(lo <= k)
      BY <1>1, <1>2, <2>3
    <3>2. k \notin Behind(t, last)
      BY <2>2, <3>1
    <3> QED
      BY <3>1, <3>2 DEF Behind
  <2>5. \A k \in lo..last : records[k] \notin Shakes
    <3> TAKE k \in lo..last
    <3>1. k \in 1..Len(records) /\ lo \in 1..Len(records) /\ (k = lo \/ lo < k)
      BY <1>1, <1>2, <2>3
    <3> QED
      BY <2>3, <3>1 DEF Speech
  <2>6. ASSUME t.used = 0 PROVE FALSE
    <3>1. lo = 1 /\ 1 \in 1..Len(records)
      BY <1>1, <1>2, <2>3, <2>6
    <3>2. records[1] \in ClientAnswers
      BY <3>1 DEF Speech
    <3> QED
      BY <2>3, <3>1, <3>2 DEF Shakes, ClientAnswers
  <2> QED
    BY <2>3, <2>4, <2>5, <2>6 DEF lo
<1> QED
  BY <1>1, <1>2, <1>3 DEF Behind

LEMMA SslReadTakes ==
  ASSUME NEW t \in TlsFlow, NEW m \in Nat, Speech(records), m <= Len(records),
         t.used <= m, t.used = 0 => m <= 1, Reached(t), ~t.err, t.bio = <<>>,
         NEW last \in Places(t, m)
  PROVE  LET u == SslRead(t, last) IN
         /\ u \in TlsFlow /\ Fed(t, u) /\ Reached(u)
         /\ t.used <= u.used /\ u.used <= m
         /\ u.out = t.out
         /\ u.bio = IF t.used = 0 /\ u.used > 0 THEN <<"finished">> ELSE <<>>
         /\ u.err => u.bio = <<>>
         /\ \A d \in Seq(Data) : IsData(d \o t.plain, t.used) => IsData(d \o u.plain, u.used)
<1> DEFINE u == SslRead(t, last)
           behind == Behind(t, last)
           lo == Min(behind)
           hi == IF records[last] \in Alerts THEN last - 1 ELSE last
           seg == SubSeq(records, lo, hi)
           Passed(set) == \E i \in t.used + 1..last : records[i] \in set
           agreed == t.agreed \/ Passed(ServerFinished)
           bio == IF Passed(ClientAnswers) THEN Append(t.bio, "finished") ELSE t.bio
           v == [t EXCEPT !.used = last, !.agreed = agreed, !.bio = bio]
<1>1. CASE t.closed
  <2>1. u = t
    BY <1>1 DEF SslRead
  <2> HIDE DEF u
  <2>2. Fed(t, u) /\ Reached(u)
    BY <2>1 DEF Fed
  <2> QED
    BY <2>1, <2>2 DEF TlsFlow, u
<1>2. CASE ~t.closed
  <2>1. /\ t.used \in Nat /\ Len(records) \in Nat /\ records \in Seq(Record)
        /\ \A i \in 1..Len(records) : records[i] \in Record
    <3>1. records \in Seq(Record)
      BY DEF Speech
    <3> QED
      BY <3>1, ElementOfSeq, LenProperties DEF TlsFlow
  <2>2. /\ last \in Nat /\ t.used <= last /\ last <= m
        /\ \A i \in t.used + 1..last - 1 : records[i] \notin Alerts
        /\ behind = {} => \A i \in t.used + 1..last : records[i] \in Shakes
        /\ behind # {} =>
              /\ t.used # 0 /\ lo \in t.used + 1..last
              /\ \A k \in t.used + 1..lo - 1 : records[k] \in Shakes
              /\ \A k \in lo..last : records[k] \notin Shakes
    BY PlaceIs
  <2>3. u = IF behind = {} THEN v
            ELSE IF records[last] = "bad"
            THEN [v EXCEPT !.plain = t.plain \o SubSeq(records, lo, last - 1), !.err = TRUE]
            ELSE IF records[last] = "close"
            THEN [v EXCEPT !.plain = t.plain \o SubSeq(records, lo, last - 1), !.closed = TRUE]
            ELSE [v EXCEPT !.plain = t.plain \o SubSeq(records, lo, last)]
    <3>1. v.plain = t.plain
      BY DEF TlsFlow
    <3> QED
      BY <1>2, <3>1 DEF SslRead, Behind
  <2> HIDE DEF u, behind, lo
  <2>4. /\ agreed \in BOOLEAN /\ (t.agreed => agreed)
        /\ agreed <=> \E i \in 1..last : records[i] \in ServerFinished
    <3>1. \A i : i \in 1..last <=> i \in 1..t.used \/ i \in t.used + 1..last
      BY <2>1, <2>2
    <3>2. (\E i \in 1..last : records[i] \in ServerFinished)
            <=> \/ \E i \in 1..t.used : records[i] \in ServerFinished
                \/ Passed(ServerFinished)
      BY <3>1, Zenon
    <3> QED
      BY <3>2 DEF Reached, TlsFlow
  <2>5. bio = IF t.used = 0 /\ last > 0 THEN <<"finished">> ELSE <<>>
    <3>1. Passed(ClientAnswers) <=> t.used = 0 /\ last > 0
      <4>1. \A i \in t.used + 1..last : i \in 1..Len(records) /\ (i = 1 => t.used = 0)
        BY <2>1, <2>2
      <4>2. t.used = 0 /\ last > 0 => 1 \in t.used + 1..last
        BY <2>2
      <4>3. \A i \in t.used + 1..last : records[i] \in ClientAnswers <=> i = 1
        BY <4>1 DEF Speech
      <4>4. t.used # 0 => 1 \notin t.used + 1..last
        BY <2>1
      <4>5. t.used = 0 /\ 1 \in t.used + 1..last => last > 0
        BY <2>2
      <4> QED
        BY <4>1, <4>2, <4>3, <4>4, <4>5
    <3>2. Append(<<>>, "finished") = <<"finished">>
      OBVIOUS
    <3> QED
      BY <3>1, <3>2
  <2> HIDE DEF Passed, agreed, bio
  <2>6. bio \in Seq(Message)
    <3>1. <<>> \in Seq(Message) /\ Append(<<>>, "finished") \in Seq(Message)
      <4>1. "finished" \in Message
        BY DEF Message
      <4> HIDE DEF Passed, agreed, bio, v
      <4> QED
        BY <4>1, EmptySeq, AppendProperties
    <3>2. <<"finished">> = Append(<<>>, "finished")
      OBVIOUS
    <3> QED
      BY <2>5, <3>1, <3>2
  <2>7. /\ v \in TlsFlow /\ v.used = last /\ v.agreed = agreed /\ v.bio = bio
        /\ v.out = t.out /\ v.plain = t.plain /\ v.err = t.err /\ v.closed = t.closed
        /\ Fed(t, v)
    BY <2>2, <2>4, <2>6 DEF TlsFlow, Fed
  <2>8. \A i \in 1..t.used : records[i] \notin Alerts
    BY <1>2 DEF Reached
  <2>9. CASE behind = {}
    <3>1. u = v /\ \A i \in t.used + 1..last : records[i] \in Shakes
      BY <2>2, <2>3, <2>9
    <3>2. \A i \in 1..last : records[i] \notin Alerts
      <4> TAKE i \in 1..last
      <4>1. i \in 1..t.used \/ i \in t.used + 1..last
        BY <2>1, <2>2
      <4> QED
        BY <2>8, <3>1, <4>1 DEF Alerts, Shakes
    <3>3. ASSUME NEW d \in Seq(Data), IsData(d \o t.plain, t.used)
          PROVE  IsData(d \o u.plain, u.used)
      BY <2>1, <2>2, <2>7, <3>1, <3>3, DataSkips
    <3> QED
      BY <2>2, <2>4, <2>5, <2>7, <3>1, <3>2, <3>3 DEF Reached, u
  <2>10. CASE behind # {}
    <3>1. /\ lo \in Nat /\ t.used < lo /\ lo <= last /\ lo >= 1 /\ t.used # 0
          /\ hi \in Nat /\ hi <= last /\ last <= hi + 1 /\ lo <= hi + 1
      BY <2>1, <2>2, <2>10
    <3>2. \A k \in lo..hi : records[k] \in Data
      <4> TAKE k \in lo..hi
      <4>1. k \in 1..Len(records) /\ k \in lo..last /\ (k = last \/ k \in t.used + 1..last - 1)
        BY <2>1, <2>2, <3>1
      <4>2. k = last => records[last] \notin Alerts
        BY <2>2, <3>1
      <4> QED
        BY <2>1, <2>2, <2>10, <4>1, <4>2 DEF Data
    <3>3. /\ \A k \in hi + 1..last : records[k] \in Alerts
          /\ hi # last <=> records[last] \in Alerts
      BY <2>2, <3>1
    <3> HIDE DEF hi
    <3>4. seg \in Seq(Data) /\ t.plain \in Seq(Data) /\ t.plain \o seg \in Seq(Data)
      <4>1. seg \in Seq(Data)
        BY <3>1, <3>2, SubSeqProperties
      <4> HIDE DEF seg
      <4> QED
        BY <4>1, ConcatProperties DEF TlsFlow
    <3>5. /\ u.plain = t.plain \o seg /\ u \in TlsFlow /\ u.used = last /\ u.agreed = agreed
          /\ u.bio = bio /\ u.out = t.out /\ Fed(t, u)
          /\ records[last] \in Alerts => u.err \/ u.closed
      <4>1. /\ records[last] = "bad" => hi = last - 1
            /\ records[last] = "close" => hi = last - 1
            /\ records[last] # "bad" /\ records[last] # "close" => hi = last
        BY DEF hi, Alerts
      <4>2. u = IF records[last] = "bad" THEN [v EXCEPT !.plain = t.plain \o seg, !.err = TRUE]
                ELSE IF records[last] = "close"
                THEN [v EXCEPT !.plain = t.plain \o seg, !.closed = TRUE]
                ELSE [v EXCEPT !.plain = t.plain \o seg]
        BY <2>3, <2>10, <4>1
      <4> HIDE DEF v, seg
      <4> QED
        BY <2>7, <3>4, <4>2 DEF TlsFlow, Fed, Alerts
    <3>6. \A i \in 1..last : records[i] \in Alerts => records[last] \in Alerts
      <4> TAKE i \in 1..last
      <4>1. i \in 1..t.used \/ i \in t.used + 1..last - 1 \/ i = last
        BY <2>1, <2>2
      <4> QED
        BY <2>2, <2>8, <4>1
    <3>7. ASSUME NEW d \in Seq(Data), IsData(d \o t.plain, t.used)
          PROVE  IsData(d \o u.plain, u.used)
      <4>1. d \o u.plain = (d \o t.plain) \o seg /\ d \o t.plain \in Seq(Data)
        <5> DEFINE p == t.plain
        <5>1. p \in Seq(Data) /\ seg \in Seq(Data)
          BY <3>4
        <5> HIDE DEF p, seg
        <5>2. d \o (p \o seg) = (d \o p) \o seg /\ d \o p \in Seq(Data)
          BY <5>1, ConcatAssociative, ConcatProperties
        <5> QED
          BY <3>5, <5>2 DEF p
      <4>2. CASE lo <= hi
        <5> DEFINE e == d \o t.plain
        <5>1. last <= Len(records) /\ \A k \in t.used + 1..lo - 1 : records[k] \in Shakes
          BY <2>1, <2>2, <2>10
        <5>2. IsData(e, t.used)
          BY <3>7
        <5> HIDE DEF e
        <5>3. IsData(e \o SubSeq(records, lo, hi), last)
          BY <2>1, <2>2, <2>8, <3>1, <3>2, <3>3, <4>2, <5>1, <5>2, DataExtends
        <5> QED
          BY <3>5, <4>1, <5>3 DEF e
      <4>3. CASE ~(lo <= hi)
        <5>1. seg = <<>> /\ lo = last
          <6>1. lo \in Int /\ hi \in Int /\ hi < lo
            BY <3>1, <4>3
          <6>2. lo = last
            BY <2>2, <3>1, <6>1
          <6> QED
            BY <6>1, <6>2, SubSeqEmpty
        <5>2. d \o u.plain = d \o t.plain
          BY <4>1, <5>1, ConcatEmptySeq
        <5>3. \A k \in t.used + 1..last : records[k] \in Shakes \cup Alerts
          <6> TAKE k \in t.used + 1..last
          <6>1. k \in t.used + 1..lo - 1 \/ k \in hi + 1..last
            BY <2>1, <2>2, <3>1, <4>3, <5>1
          <6> QED
            BY <2>2, <2>10, <3>3, <6>1
        <5> QED
          BY <2>1, <2>2, <3>5, <3>7, <5>2, <5>3, DataSkips
      <4> QED
        BY <4>2, <4>3
    <3>8. bio = <<>>
      BY <2>5, <3>1
    <3> QED
      BY <2>2, <2>4, <2>5, <3>1, <3>5, <3>6, <3>7, <3>8 DEF Reached, u
  <2> QED
    BY <2>9, <2>10
<1> QED
  BY <1>1, <1>2 DEF TlsFlow

\* What OpenSSL emits comes to the end of what is to go out.
Emits(t, u) ==
  LET more == IF t.used = 0 /\ u.used > 0 THEN <<"finished">> ELSE <<>>
  IN  \/ u.out = t.out \o t.bio /\ u.bio = more
      \/ u.out = (t.out \o t.bio) \o more /\ u.bio = <<>>

LEMMA WriteCipherTextDataTakes ==
  ASSUME NEW t \in TlsFlow, NEW n \in Nat, Speech(records), n <= 2 * Len(records),
         t.used <= n \div 2, t.used = 0 => n <= 2, Reached(t), t.err => t.bio = <<>>,
         NEW last \in Places(t, n \div 2), NEW again \in BOOLEAN
  PROVE  LET u == WriteCipherTextData(t, last, again) IN
         /\ u \in TlsFlow /\ Fed(t, u) /\ Reached(u)
         /\ t.used <= u.used /\ u.used <= n \div 2
         /\ Emits(t, u)
         /\ u.err => u.bio = <<>>
         /\ \A d \in Seq(Data) : IsData(d \o t.plain, t.used) => IsData(d \o u.plain, u.used)
<1> DEFINE u == WriteCipherTextData(t, last, again)
           v == FlushCipherBuffer(t)
           w == SslRead(v, last)
<1>1. /\ t.out \in Seq(Message) /\ t.bio \in Seq(Message)
      /\ t.out \o t.bio \in Seq(Message) /\ t.out \o <<>> = t.out
  BY ConcatProperties, ConcatEmptySeq DEF TlsFlow
<1>2. CASE t.err
  BY <1>1, <1>2 DEF WriteCipherTextData, Fed, Emits, TlsFlow
<1>3. CASE ~t.err
  <2>1. u = IF again THEN FlushCipherBuffer(w) ELSE w
    BY <1>3 DEF WriteCipherTextData
  <2>2. v = [t EXCEPT !.out = t.out \o t.bio, !.bio = <<>>]
    BY DEF FlushCipherBuffer
  <2> HIDE DEF u, v, w
  <2>3. /\ v \in TlsFlow /\ v.used = t.used /\ v.plain = t.plain /\ v.bio = <<>>
        /\ v.out = t.out \o t.bio /\ ~v.err /\ Fed(t, v)
        /\ v.agreed = t.agreed /\ v.closed = t.closed
    BY <1>1, <1>3, <2>2, EmptySeq DEF TlsFlow, Fed
  <2>4. Reached(v)
    BY <1>3, <2>3 DEF Reached
  <2>5. n \div 2 \in Nat /\ n \div 2 <= Len(records) /\ (v.used = 0 => n \div 2 <= 1)
    <3>1. Len(records) \in Nat
      BY DEF Speech
    <3> QED
      BY <2>3, <3>1, Halves
  <2>6. last \in Places(v, n \div 2)
    BY <2>3 DEF Places
  <2>7. /\ w \in TlsFlow /\ Fed(v, w) /\ Reached(w)
        /\ v.used <= w.used /\ w.used <= n \div 2
        /\ w.out = v.out
        /\ w.bio = IF v.used = 0 /\ w.used > 0 THEN <<"finished">> ELSE <<>>
        /\ w.err => w.bio = <<>>
        /\ \A d \in Seq(Data) : IsData(d \o v.plain, v.used) => IsData(d \o w.plain, w.used)
    BY <2>3, <2>4, <2>5, <2>6, SslReadTakes DEF w
  <2>8. Fed(t, w)
    BY <2>3, <2>7 DEF Fed
  <2>9. CASE ~again
    BY <2>1, <2>3, <2>7, <2>8, <2>9 DEF u, Emits
  <2>10. CASE again
    <3>1. w.out \o w.bio \in Seq(Message) /\ <<>> \in Seq(Message)
      BY <2>7, ConcatProperties, EmptySeq DEF TlsFlow
    <3>2. u = [w EXCEPT !.out = w.out \o w.bio, !.bio = <<>>]
      BY <2>1, <2>10 DEF FlushCipherBuffer
    <3>3. /\ u \in TlsFlow /\ Fed(w, u) /\ u.used = w.used /\ u.plain = w.plain
          /\ u.out = w.out \o w.bio /\ u.bio = <<>> /\ u.err = w.err
          /\ u.agreed = w.agreed /\ u.closed = w.closed
      BY <2>7, <3>1, <3>2 DEF TlsFlow, Fed
    <3>4. Fed(t, u) /\ Reached(u)
      BY <2>7, <2>8, <3>3 DEF Fed, Reached
    <3> QED
      BY <2>3, <2>7, <3>3, <3>4 DEF u, Emits
  <2> QED
    BY <2>9, <2>10
<1> QED
  BY <1>2, <1>3

-----------------------------------------------------------------------------
(* HandShake, when the socket does nothing. *)

Between(t) ==
  /\ t.alive /\ t.answer = "due"
  /\ t.fsm.state = "Establishing" /\ ~t.fsm.reading /\ ~t.fsm.writing
  /\ t.rd = "none" /\ t.wr = "none" /\ t.postR = "none" /\ t.postW = "none"
  /\ t.handed = <<>> /\ ~t.pending /\ ~t.reported /\ ~t.stuck
  /\ t.next = <<>> /\ Doing(t.sock, "-")
  /\ t.out # <<>> => t.bio = <<>>
  /\ t.agreed /\ t.bio # <<>> => t.bio = <<"finished">>
  /\ t.err => t.bio = <<>>

\* The streams are where they were.
SameStreams(t, u) ==
  /\ u.used = t.used /\ u.agreed = t.agreed /\ u.err = t.err
  /\ u.closed = t.closed /\ u.stuck = t.stuck
  /\ Inward(u) = Inward(t) /\ Outward(u) = Outward(t)

LEMMA FailedKeeps ==
  ASSUME NEW t \in TlsFlow
  PROVE  LET u == Failed(t) IN
         u \in TlsFlow /\ u.answer = "error" /\ Silent(u) /\ SameStreams(t, u)
<1> DEFINE v == [t EXCEPT !.answer = "error"]
           u == Destroyed(v)
<1>1. Failed(t) = u
  BY DEF Failed
<1>2. v \in TlsFlow /\ v.answer = "error" /\ SameStreams(t, v)
  BY DEF TlsFlow, SameStreams, Inward, Outward
<1> HIDE DEF v
<1>3. u \in TlsFlow /\ Silent(u) /\ Kept(v, u)
  BY <1>2, DestroyedKeeps
<1> HIDE DEF u
<1>4. u.answer = "error" /\ SameStreams(t, u)
  BY <1>2, <1>3 DEF Kept, SameStreams
<1> QED
  BY <1>1, <1>3, <1>4

LEMMA HandShakeKeeps ==
  ASSUME NEW t \in TlsFlow, Between(t)
  PROVE  LET u == HandShake(t) IN
         /\ u \in TlsFlow /\ SameStreams(t, u)
         /\ \/ u.answer = "error" /\ Silent(u)
            \/ Shaking(u) /\ ~At(u.sock, "Establishing", "Connect")
            \/ /\ u.answer = "ok" /\ Settled(u) /\ ~u.reported /\ u.rd = "none" /\ u.wr = "none"
               /\ u.postR = "none" /\ u.postW = "none"
<1> DEFINE u == HandShake(t)
           x == t.sock
           o == t.out \o t.bio
<1>1. /\ x \in Socket /\ t.fsm \in Flow /\ t.bio \in Seq(Message) /\ t.out \in Seq(Message)
      /\ <<>> \o <<>> = <<>> /\ t.out \o <<>> = t.out /\ <<>> \o t.out = t.out
      /\ <<>> \o t.bio = t.bio /\ <<>> \in Seq(Message) /\ o \in Seq(Message)
      /\ o \o <<>> = o
  <2>1. x \in Socket /\ t.fsm \in Flow /\ t.bio \in Seq(Message) /\ t.out \in Seq(Message)
    BY DEF TlsFlow
  <2>2. o \in Seq(Message)
    BY <2>1, ConcatProperties
  <2> HIDE DEF o
  <2> QED
    BY <2>1, <2>2, ConcatEmptySeq, EmptySeq
<1>2. Outward(t) = o
  BY <1>1 DEF Outward, Between
<1>9. o = <<>> <=> t.out = <<>> /\ t.bio = <<>>
  BY <1>1 DEF Between
<1>3. CASE t.err
  <2> DEFINE v == [t EXCEPT !.fsm = Errored(t.fsm)]
  <2>1. u = Failed(v)
    BY <1>3 DEF HandShake
  <2>2. v \in TlsFlow /\ SameStreams(t, v)
    BY <1>1, FlowType DEF TlsFlow, SameStreams, Inward, Outward
  <2> HIDE DEF u, v
  <2>3. u \in TlsFlow /\ u.answer = "error" /\ Silent(u) /\ SameStreams(v, u)
    BY <2>1, <2>2, FailedKeeps
  <2>4. SameStreams(t, u)
    BY <2>2, <2>3 DEF SameStreams
  <2> QED
    BY <2>3, <2>4 DEF u
<1>4. CASE ~t.err /\ t.agreed /\ t.out = <<>>
  <2> DEFINE f == Connected(t.fsm)
  <2>1. f \in Flow /\ f.state = "Established" /\ ~f.reading /\ ~f.writing
    BY <1>1, FlowType DEF Connected, Flow, Between
  <2>2. u = [t EXCEPT !.fsm = f, !.answer = "ok"]
    BY <1>4 DEF HandShake, Between, Asserting, CanConnected
  <2> HIDE DEF u, f
  <2>3. u \in TlsFlow /\ SameStreams(t, u)
    BY <2>1, <2>2 DEF TlsFlow, SameStreams, Inward, Outward
  <2>4. /\ u.fsm = f /\ u.answer = "ok" /\ u.sock = t.sock /\ u.alive /\ u.agreed
        /\ u.rd = "none" /\ u.wr = "none" /\ u.postR = "none" /\ u.postW = "none"
        /\ u.handed = <<>> /\ ~u.pending /\ ~u.reported /\ ~u.stuck
        /\ u.out = <<>> /\ u.next = <<>> /\ u.bio = t.bio /\ ~u.err
        /\ u.reported = FALSE
    BY <1>4, <2>2 DEF TlsFlow, Between
  <2>5. Using(u.sock, FALSE) /\ ~u.sock.fsm.reading /\ ~u.sock.fsm.writing
    BY <1>1, <2>4 DEF Between, Doing, Using, Socket, Flow
  <2>6. Machine(u) /\ Below(u)
    BY <2>1, <2>4, <2>5 DEF Machine, Below
  <2>7. Withheld(u)
    BY <1>4, <2>4, <2>5 DEF Withheld, Left, Between
  <2>8. Settled(u)
    BY <2>4, <2>6, <2>7 DEF Settled, Ready, Waits
  <2> QED
    BY <2>3, <2>4, <2>8 DEF u
<1>5. CASE ~t.err /\ o # <<>> /\ (t.agreed => t.out # <<>>)
  <2> DEFINE y == Write(x)
  <2>1. y \in Socket /\ Doing(y, "Write") /\ ~At(y, "Establishing", "Connect")
    <3>1. y \in Socket /\ Doing(y, "Write")
      BY <1>1, DoingCalls DEF Between
    <3> QED
      BY <3>1 DEF Doing, At
  <2>2. u = [t EXCEPT !.sock = y, !.next = o, !.out = <<>>, !.bio = <<>>]
    <3> DEFINE w == IF t.agreed THEN t ELSE FlushCipherBuffer(t)
    <3>1. w = [t EXCEPT !.out = o, !.bio = <<>>]
      <4>1. CASE t.agreed
        <5>1. t.bio = <<>> /\ o = t.out
          BY <1>1, <1>5, <4>1 DEF Between
        <5> HIDE DEF o
        <5> QED
          BY <4>1, <5>1 DEF TlsFlow
      <4>2. CASE ~t.agreed
        BY <4>2 DEF FlushCipherBuffer
      <4> QED
        BY <4>1, <4>2
    <3>2. w.out = o /\ w.sock = x
      <4> HIDE DEF o, w
      <4> QED
        BY <3>1 DEF TlsFlow
    <3>3. u = SendOut(w)
      <4>1. CASE t.agreed
        BY <1>5, <4>1 DEF HandShake
      <4>2. CASE ~t.agreed
        <5> HIDE DEF o
        <5> QED
          BY <1>5, <3>2, <4>2 DEF HandShake
      <4> QED
        BY <4>1, <4>2
    <3> HIDE DEF u, w, y, o
    <3>4. u = [w EXCEPT !.sock = y, !.next = o, !.out = <<>>]
      BY <3>2, <3>3 DEF SendOut, y
    <3> QED
      BY <3>1, <3>4 DEF TlsFlow
  <2> HIDE DEF u, y, o
  <2>3. u \in TlsFlow
    BY <1>1, <2>1, <2>2 DEF TlsFlow
  <2>4. /\ u.sock = y /\ u.next = o /\ u.out = <<>> /\ u.bio = <<>>
        /\ u.used = t.used /\ u.agreed = t.agreed /\ u.err = t.err /\ u.closed = t.closed
        /\ u.stuck = t.stuck /\ u.handed = t.handed /\ u.plain = t.plain
    BY <2>2 DEF TlsFlow
  <2>5. SameStreams(t, u)
    BY <1>1, <1>2, <2>4 DEF SameStreams, Inward, Outward
  <2>6. Shaking(u)
    BY <1>5, <2>1, <2>2, <2>4 DEF TlsFlow, Shaking, Between
  <2> QED
    BY <1>5, <2>1, <2>3, <2>4, <2>5, <2>6 DEF u
<1>6. CASE ~t.err /\ ~t.agreed /\ o = <<>>
  <2> DEFINE y == Read(x)
  <2>1. /\ y \in Socket /\ Doing(y, "Read") /\ ~At(y, "Establishing", "Connect")
        /\ CanReadBegin(x.fsm)
    <3>1. y \in Socket /\ Doing(y, "Read") /\ CanReadBegin(x.fsm)
      BY <1>1, DoingCalls DEF Between
    <3> QED
      BY <3>1 DEF Doing, At
  <2>2. u = [t EXCEPT !.sock = y, !.out = <<>>, !.bio = <<>>]
    <3> DEFINE w == FlushCipherBuffer(t)
    <3>1. w = [t EXCEPT !.out = <<>>, !.bio = <<>>]
      BY <1>1, <1>6, <1>9 DEF FlushCipherBuffer, Between
    <3>2. w.out = <<>> /\ w.sock = x
      BY <3>1 DEF TlsFlow
    <3>3. u = Asserting([w EXCEPT !.sock = Read(@)], "sock.ReadBegin", CanReadBegin(w.sock.fsm))
      BY <1>6, <3>2 DEF HandShake, w
    <3> HIDE DEF u, w, y
    <3>4. u = [w EXCEPT !.sock = y]
      BY <2>1, <3>2, <3>3 DEF Asserting, y
    <3> QED
      BY <3>1, <3>4 DEF TlsFlow
  <2> HIDE DEF u, y
  <2>3. u \in TlsFlow
    BY <1>1, <2>1, <2>2 DEF TlsFlow
  <2>4. /\ u.sock = y /\ u.next = <<>> /\ u.out = <<>> /\ u.bio = <<>>
        /\ SameStreams(t, u)
    BY <1>6, <1>9, <2>2 DEF TlsFlow, SameStreams, Inward, Outward, Between
  <2>5. Shaking(u)
    BY <1>6, <2>1, <2>2, <2>4 DEF TlsFlow, Shaking, Between
  <2> QED
    BY <1>6, <2>1, <2>3, <2>4, <2>5 DEF u
<1> QED
  BY <1>3, <1>4, <1>5, <1>6, <1>9

-----------------------------------------------------------------------------
(* The ends of the actions. *)

\* A flow in use, after Process.
LEMMA ProcessSound ==
  ASSUME NEW t \in TlsFlow, NEW tu \in Owner, NEW n \in Nat, NEW got \in Seq(Message),
         n <= 2 * Len(records), Ready(t), Calling(t, tu), t.used <= n \div 2, Reached(t),
         Streaming(t, tu, got), t.pending /\ ~t.reported => t.rd = "due" \/ t.wr = "due"
  PROVE  Sound(Process(t), tu, n, got)
<1> DEFINE u == Process(t)
<1>1. /\ u \in TlsFlow /\ Kept(t, u) /\ Left(u)
      /\ \/ u.alive /\ Settled(u) /\ NoCalls(t, u)
         \/ Silent(u)
  BY ProcessKeeps
<1>2. t.answer = "ok" /\ t.alive
  BY DEF Ready
<1> HIDE DEF u
<1>3. u.answer = "ok" /\ Stage(u, tu, n, got)
  BY <1>1, <1>2 DEF Kept, Stage, Silent
<1>4. Calling(u, tu)
  <2>1. t.rd \in {"none", "due"}
    BY DEF TlsFlow
  <2> QED
    BY <1>1, <1>2, <1>3, <2>1 DEF Calling, NoCalls, Silent
<1>5. Reached(u)
  BY <1>1 DEF Kept, Reached
<1>6. Streaming(u, tu, got)
  BY <1>1, <1>2, <1>3 DEF Kept, Streaming, Count
<1> QED
  BY <1>1, <1>3, <1>4, <1>5, <1>6 DEF Kept, Sound, u

\* A flow that connects, after HandShake.
LEMMA HandShakeSound ==
  ASSUME NEW t \in TlsFlow, NEW tu \in Owner, NEW n \in Nat, NEW got \in Seq(Message),
         n <= 2 * Len(records), Between(t), Calling(t, tu), t.used <= n \div 2, Reached(t),
         Streaming(t, tu, got)
  PROVE  Sound(HandShake(t), tu, n, got)
<1> DEFINE u == HandShake(t)
<1>1. /\ u \in TlsFlow /\ SameStreams(t, u)
      /\ \/ u.answer = "error" /\ Silent(u)
         \/ Shaking(u) /\ ~At(u.sock, "Establishing", "Connect")
         \/ /\ u.answer = "ok" /\ Settled(u) /\ ~u.reported /\ u.rd = "none" /\ u.wr = "none"
            /\ u.postR = "none" /\ u.postW = "none"
  BY HandShakeKeeps
<1>2. /\ t.answer = "due" /\ t.alive /\ tu.read = "idle" /\ tu.write = "idle" /\ tu.writes = 0
      /\ t.sock.cb["Connect"] # "waiting" /\ ~t.stuck
  BY DEF Between, Calling, Doing, InUse
<1> HIDE DEF u
<1>3. CASE u.answer = "error" /\ Silent(u)
  <2>1. Stage(u, tu, n, got) /\ Calling(u, tu) /\ Reached(u)
    BY <1>1, <1>2, <1>3 DEF SameStreams, Stage, Calling, Reached, Silent
  <2>2. Streaming(u, tu, got)
    BY <1>1, <1>3 DEF SameStreams, Streaming, Silent
  <2> QED
    BY <1>1, <2>1, <2>2 DEF SameStreams, Sound, u
<1>4. CASE Shaking(u) /\ ~At(u.sock, "Establishing", "Connect")
  <2>1. u.sock.cb["Connect"] # "waiting" /\ u.answer = "due" /\ u.alive /\ ~u.reported
    BY <1>4 DEF Shaking, Doing, InUse
  <2>2. Stage(u, tu, n, got) /\ Reached(u)
    BY <1>1, <1>4, <2>1 DEF SameStreams, Stage, Reached
  <2>3. Calling(u, tu)
    BY <1>2, <1>4, <2>1 DEF Calling, Shaking
  <2>4. Streaming(u, tu, got)
    BY <1>1, <1>2, <2>1 DEF SameStreams, Streaming, Count
  <2> QED
    BY <1>1, <2>2, <2>3, <2>4 DEF SameStreams, Sound, u
<1>5. CASE /\ u.answer = "ok" /\ Settled(u) /\ ~u.reported /\ u.rd = "none" /\ u.wr = "none"
           /\ u.postR = "none" /\ u.postW = "none"
  <2>1. u.alive /\ u.agreed /\ Left(u)
    BY <1>5 DEF Settled, Ready, Withheld
  <2>2. Stage(u, tu, n, got) /\ Calling(u, tu) /\ Reached(u)
    BY <1>1, <1>2, <1>5, <2>1 DEF SameStreams, Stage, Calling, Reached
  <2>3. t.used # 0
    <3>1. t.agreed
      BY <1>1, <2>1 DEF SameStreams
    <3> QED
      BY <3>1 DEF Reached
  <2>4. Streaming(u, tu, got)
    BY <1>1, <1>2, <1>5, <2>3 DEF SameStreams, Streaming, Count
  <2> QED
    BY <1>1, <2>2, <2>4 DEF SameStreams, Sound, u
<1> QED
  BY <1>1, <1>3, <1>4, <1>5

\* A flow that has been destroyed.
LEMMA EndSound ==
  ASSUME NEW t, NEW tu, NEW n, NEW got, Sound(t, tu, n, got),
         NEW u \in TlsFlow, NEW tv \in Owner,
         Silent(u), u.answer # "none", u.answer = "ok" => t.answer = "ok" /\ Left(u),
         SameStreams(t, u), tv.got = tu.got, tv.writes = tu.writes,
         u.answer # "ok" => t.answer # "ok"
  PROVE  Sound(u, tv, n, got)
<1>1. Stage(u, tv, n, got) /\ Calling(u, tv) /\ Reached(u)
  BY DEF Sound, SameStreams, Stage, Calling, Reached, Silent
<1>2. Streaming(u, tv, got)
  BY DEF Sound, SameStreams, Streaming, Count, Silent
<1> QED
  BY <1>1, <1>2 DEF Sound, SameStreams

\* Which part of the invariant speaks of a flow whose socket has something to say.
LEMMA Speaks ==
  ASSUME NEW t, NEW tu, NEW n, NEW got, Sound(t, tu, n, got),
         NEW op \in Ops, t.sock.cb[op] = "waiting"
  PROVE  /\ t.alive /\ t.answer \in {"due", "ok"}
         /\ op = "Connect" <=> At(t.sock, "Establishing", "Connect")
         /\ t.answer = "due" =>
              /\ Shaking(t)
              /\ op \in {"Connect", "Read", "Write"}
              /\ op # "Connect" => Doing(t.sock, op)
              /\ op = "Read" => t.next = <<>>
              /\ op = "Connect" => t.next = <<>> /\ t.used = 0
         /\ t.answer = "ok" => /\ Settled(t) /\ ~t.pending /\ op \in {"Read", "Write"}
                               /\ Using(t.sock, t.reported)
<1>1. t.answer # "none"
  BY DEF Sound, Stage, NewTls, NewSocket
<1>2. t.alive
  BY DEF Sound, Stage, Silent, Silenced
<1>3. CASE t.answer = "due"
  <2>1. Shaking(t)
    BY <1>2, <1>3 DEF Sound, Stage
  <2>2. CASE At(t.sock, "Establishing", "Connect")
    <3>1. op = "Connect"
      BY <2>2, AtCallbacks
    <3> QED
      BY <1>2, <1>3, <2>1, <2>2, <3>1 DEF Shaking, At, Doing, InUse
  <2>3. CASE Doing(t.sock, "Read") /\ t.next = <<>>
    <3>1. op = "Read"
      BY <2>3, DoingCallbacks
    <3> QED
      BY <1>2, <1>3, <2>1, <2>3, <3>1 DEF At, Doing
  <2>4. CASE Doing(t.sock, "Write")
    <3>1. op = "Write"
      BY <2>4, DoingCallbacks
    <3> QED
      BY <1>2, <1>3, <2>1, <2>4, <3>1 DEF At, Doing
  <2> QED
    BY <2>1, <2>2, <2>3, <2>4 DEF Shaking
<1>4. CASE t.answer = "ok"
  <2>1. Settled(t)
    BY <1>2, <1>4 DEF Sound, Stage
  <2>2. ~t.pending /\ Using(t.sock, t.reported)
    BY <2>1 DEF Settled, Ready, Below, Silenced
  <2>3. op \in {"Read", "Write"} /\ ~At(t.sock, "Establishing", "Connect")
    BY <2>2 DEF Using, InUse, Ops, At
  <2> QED
    BY <1>2, <1>4, <2>1, <2>2, <2>3
<1> QED
  BY <1>1, <1>2, <1>3, <1>4 DEF Sound, Stage, TlsFlow

-----------------------------------------------------------------------------
(* What is sent. *)

LEMMA NewTlsType == NewTls \in TlsFlow
<1>1. NewFlow("Remote") \in Flow /\ NewSocket("Remote") \in Socket
  BY NewSocketType DEF NewFlow, Flow, Types, States
<1>2. <<>> \in Seq(Data) /\ <<>> \in Seq(Message) /\ "none" \in CallbackStates
  BY EmptySeq DEF CallbackStates
<1> QED
  BY <1>1, <1>2 DEF TlsFlow, NewTls

LEMMA StreamTypes ==
  ASSUME NEW t \in TlsFlow
  PROVE  /\ Inward(t) \in Seq(Data)
         /\ t.next \in Seq(Message) /\ t.out \in Seq(Message) /\ t.bio \in Seq(Message)
         /\ t.next \o t.out \in Seq(Message) /\ Outward(t) \in Seq(Message)
         /\ AllSent \in Seq(Message) /\ Len(AllSent) = 2 + Len(Chunks) /\ Len(Chunks) \in Nat
         /\ AllSent[1] = "hello" /\ AllSent[2] = "finished"
         /\ \A i \in 1..Len(Chunks) : AllSent[2 + i] = Chunks[i] /\ Chunks[i] \in Message
<1>1. Inward(t) \in Seq(Data)
  <2>1. CASE t.handed = <<"error">>
    BY <2>1, Streams2 DEF Inward
  <2>2. CASE t.handed # <<"error">>
    <3>1. t.handed \in Seq(Data) /\ t.plain \in Seq(Data)
      BY <2>2 DEF TlsFlow
    <3> QED
      BY <2>2, <3>1, ConcatProperties DEF Inward
  <2> QED
    BY <2>1, <2>2
<1>2. t.next \in Seq(Message) /\ t.out \in Seq(Message) /\ t.bio \in Seq(Message)
  BY DEF TlsFlow
<1>3. t.next \o t.out \in Seq(Message) /\ Outward(t) \in Seq(Message)
  BY <1>2, ConcatProperties DEF Outward
<1>4. Chunks \in Seq(Message)
  BY TlsAssumption, SeqMonotonic DEF Message
<1>5. <<"hello", "finished">> \in Seq(Message)
  BY DEF Message
<1> QED
  BY <1>1, <1>2, <1>3, <1>4, <1>5, ConcatProperties, ElementOfSeq DEF AllSent

\* What the socket has written the server has got.
LEMMA WrittenArrives ==
  ASSUME NEW t \in TlsFlow, NEW u \in TlsFlow, NEW got \in Seq(Message),
         u.next = <<>>, u.out = t.out, u.bio = t.bio
  PROVE  got \o t.next \in Seq(Message) /\ (got \o t.next) \o Outward(u) = got \o Outward(t)
<1> DEFINE a == t.next
           b == t.out
           c == t.bio
<1>1. a \in Seq(Message) /\ b \in Seq(Message) /\ c \in Seq(Message)
  BY DEF TlsFlow
<1>2. Outward(u) = b \o c /\ Outward(t) = (a \o b) \o c
  BY <1>1, ConcatEmptySeq DEF Outward
<1> HIDE DEF a, b, c
<1>3. b \o c \in Seq(Message) /\ got \o a \in Seq(Message)
  BY <1>1, ConcatProperties
<1>4. (a \o b) \o c = a \o (b \o c)
  BY <1>1, ConcatAssociative
<1>5. (got \o a) \o (b \o c) = got \o (a \o (b \o c))
  BY <1>1, <1>3, ConcatAssociative, SMTT(20)
<1> QED
  BY <1>2, <1>3, <1>4, <1>5 DEF a

LEMMA BeginsMore ==
  ASSUME NEW s \in Seq(Message), Begins(s), Len(s) < 2 + Len(Chunks)
  PROVE  LET u == Append(s, AllSent[Len(s) + 1])
         IN  u \in Seq(Message) /\ Begins(u) /\ Len(u) = Len(s) + 1
<1> DEFINE k == Len(s)
           x == AllSent[k + 1]
           u == Append(s, x)
<1>1. /\ AllSent \in Seq(Message) /\ Len(AllSent) = 2 + Len(Chunks) /\ Len(Chunks) \in Nat
      /\ k \in Nat /\ k + 1 \in 1..Len(AllSent) /\ x \in Message
  <2>1. NewTls \in TlsFlow
    BY NewTlsType
  <2>2. AllSent \in Seq(Message) /\ Len(AllSent) = 2 + Len(Chunks) /\ Len(Chunks) \in Nat
    BY <2>1, StreamTypes
  <2> QED
    BY <2>2, ElementOfSeq
<1>2. u \in Seq(Message) /\ Len(u) = k + 1
  BY <1>1, AppendProperties
<1>3. s = SubSeq(AllSent, 1, k)
  BY DEF Begins
<1>4. SubSeq(AllSent, 1, k + 1) = Append(SubSeq(AllSent, 1, k), AllSent[k + 1])
  <2>1. SubSeq(AllSent, 1, k + 1) = SubSeq(AllSent, 1, k) \o <<AllSent[k + 1]>>
    <3> HIDE DEF k
    <3>1. /\ SubSeq(AllSent, 1, k + 1) = SubSeq(AllSent, 1, (k + 1) - 1) \o <<AllSent[k + 1]>>
          /\ (k + 1) - 1 = k
      BY <1>1, SubSeqRecursiveSecond
    <3> QED
      BY <3>1
  <2>2. SubSeq(AllSent, 1, k) \in Seq(Message)
    BY <1>3
  <2> QED
    BY <1>1, <2>1, <2>2, AppendIsConcat
<1> QED
  BY <1>1, <1>2, <1>3, <1>4 DEF Begins

\* Before OpenSSL has taken a record, it has not sent Finished.
LEMMA FirstFlight ==
  ASSUME NEW t \in TlsFlow, NEW tu, NEW got \in Seq(Message), Streaming(t, tu, got),
         t.alive, t.answer = "due", ~t.stuck, t.used = 0
  PROVE  /\ Len(got \o Outward(t)) <= 1
         /\ \A i \in DOMAIN got : got[i] # "finished"
<1> DEFINE s == got \o Outward(t)
<1>1. Outward(t) \in Seq(Message) /\ AllSent \in Seq(Message) /\ AllSent[1] = "hello"
  BY StreamTypes
<1>2. /\ s \in Seq(Message) /\ Len(s) = Len(got) + Len(Outward(t))
      /\ Len(got) \in Nat /\ Len(Outward(t)) \in Nat
      /\ DOMAIN got = 1..Len(got)
      /\ \A i \in 1..Len(got) : s[i] = got[i]
  BY <1>1, ConcatProperties, LenProperties
<1>3. Len(s) \in {0, 1} /\ Begins(s)
  BY DEF Streaming, Count
<1> HIDE DEF s
<1>4. ASSUME NEW i \in 1..Len(got) PROVE got[i] # "finished"
  <2>1. i = 1 /\ Len(s) = 1
    BY <1>2, <1>3
  <2>2. 1 <= Len(AllSent)
    BY <1>3, <2>1 DEF Begins
  <2>3. s[1] = AllSent[1]
    <3>1. s = SubSeq(AllSent, 1, 1)
      BY <1>3, <2>1 DEF Begins
    <3>2. SubSeq(AllSent, 1, 1)[1] = AllSent[1]
      BY <1>1, <2>2, LenProperties
    <3> QED
      BY <3>1, <3>2
  <2> QED
    BY <1>1, <1>2, <2>1, <2>3
<1> QED
  BY <1>2, <1>3, <1>4 DEF s

\* OpenSSL is given records.
LEMMA FedStreams ==
  ASSUME NEW t \in TlsFlow, NEW u \in TlsFlow, NEW tu \in Owner, NEW got \in Seq(Message),
         Streaming(t, tu, got), Fed(t, u), t.alive, t.used <= u.used,
         Emits(t, u), t.used = 0 => t.answer = "due" /\ ~t.stuck,
         t.answer = "due" => t.sock.cb["Connect"] # "waiting",
         t.answer \in {"due", "ok"},
         \A d \in Seq(Data) : IsData(d \o t.plain, t.used) => IsData(d \o u.plain, u.used)
  PROVE  Streaming(u, tu, got)
<1> DEFINE s == got \o Outward(t)
           h == IF t.handed = <<"error">> THEN <<>> ELSE t.handed
<1>1. /\ Outward(t) \in Seq(Message) /\ t.next \in Seq(Message) /\ t.out \in Seq(Message)
      /\ t.bio \in Seq(Message) /\ t.next \o t.out \in Seq(Message)
      /\ AllSent[2] = "finished"
  BY StreamTypes
<1>2. s \in Seq(Message) /\ Len(s) \in Nat
  BY <1>1, ConcatProperties
<1>3. t.used \in Nat /\ u.used \in Nat
  BY DEF TlsFlow
<1>4. IsData(tu.got \o Inward(u), u.used)
  <2>1. h \in Seq(Data) /\ t.plain \in Seq(Data) /\ u.plain \in Seq(Data) /\ tu.got \in Seq(Data)
    BY EmptySeq DEF TlsFlow, Owner
  <2>2. Inward(t) = h \o t.plain /\ Inward(u) = h \o u.plain
    BY DEF Inward, Fed
  <2> DEFINE g == tu.got
             p == t.plain
             q == u.plain
  <2>3. g \in Seq(Data) /\ p \in Seq(Data) /\ q \in Seq(Data)
    BY <2>1
  <2> HIDE DEF h, g, p, q
  <2>4. g \o h \in Seq(Data)
    BY <2>1, <2>3, ConcatProperties
  <2>5. ASSUME NEW v \in Seq(Data) PROVE (g \o h) \o v = g \o (h \o v)
    <3>1. g \in Seq(Data) /\ h \in Seq(Data)
      BY <2>1, <2>3
    <3> QED
      BY <3>1, ConcatAssociative
  <2>6. /\ tu.got \o Inward(t) = (tu.got \o h) \o t.plain
        /\ tu.got \o Inward(u) = (tu.got \o h) \o u.plain
        /\ tu.got \o h \in Seq(Data)
    BY <2>2, <2>3, <2>4, <2>5 DEF g, p, q
  <2> QED
    BY <2>6 DEF Streaming
<1>5. /\ ~(t.used = 0 /\ u.used > 0) => Outward(u) = Outward(t)
      /\ t.used = 0 /\ u.used > 0 => Outward(u) = Outward(t) \o <<"finished">>
  <2> DEFINE a == t.next
             b == t.out
             c == t.bio
             m == IF t.used = 0 /\ u.used > 0 THEN <<"finished">> ELSE <<>>
  <2>1. /\ a \in Seq(Message) /\ b \in Seq(Message) /\ c \in Seq(Message)
        /\ m \in Seq(Message)
    <3>1. "finished" \in Message
      BY DEF Message
    <3>2. <<"finished">> \in Seq(Message) /\ <<>> \in Seq(Message)
      BY <3>1
    <3> QED
      BY <1>1, <3>2
  <2>2. /\ Outward(t) = (a \o b) \o c
        /\ \/ Outward(u) = (a \o (b \o c)) \o m
           \/ Outward(u) = (a \o ((b \o c) \o m)) \o <<>>
    BY DEF Outward, Fed, Emits
  <2>3. m = IF t.used = 0 /\ u.used > 0 THEN <<"finished">> ELSE <<>>
    OBVIOUS
  <2> HIDE DEF a, b, c, m
  <2>4. /\ a \o (b \o c) = (a \o b) \o c
        /\ a \o ((b \o c) \o m) = (a \o (b \o c)) \o m
        /\ a \o ((b \o c) \o m) \in Seq(Message)
    BY <2>1, Regroup
  <2>6. Outward(u) = Outward(t) \o m
    BY <2>2, <2>4, ConcatEmptySeq
  <2>7. Outward(t) \o <<>> = Outward(t)
    BY <1>1, ConcatEmptySeq
  <2> QED
    BY <2>3, <2>6, <2>7
<1> HIDE DEF s, h
<1>6. CASE ~(t.used = 0 /\ u.used > 0)
  <2>1. Outward(u) = Outward(t)
    BY <1>5, <1>6
  <2>2. Count(u, tu) = Count(t, tu)
    BY <1>3, <1>6 DEF Count, Fed
  <2> QED
    BY <1>4, <2>1, <2>2 DEF Streaming, Fed
<1>7. CASE t.used = 0 /\ u.used > 0
  <2>1. Len(s) = 1 /\ Begins(s)
    BY <1>7 DEF Streaming, Count, s
  <2>2. Append(s, "finished") = got \o Outward(u)
    <3>1. Outward(u) = Append(Outward(t), "finished")
      <4>1. "finished" \in Message
        BY DEF Message
      <4>2. Outward(u) = Outward(t) \o <<"finished">>
        BY <1>5, <1>7
      <4> QED
        BY <1>1, <4>1, <4>2, AppendIsConcat
    <3> DEFINE o == Outward(t)
    <3>2. o \in Seq(Message) /\ "finished" \in Message
      BY <1>1 DEF Message
    <3> HIDE DEF o
    <3>3. got \o Append(o, "finished") = Append(got \o o, "finished")
      BY <3>2, ConcatAppend
    <3> QED
      BY <3>1, <3>3 DEF s, o
  <2>3. Begins(Append(s, "finished")) /\ Len(Append(s, "finished")) = 2
    <3>1. Len(Chunks) \in Nat
      BY StreamTypes
    <3>2. AllSent[Len(s) + 1] = "finished"
      BY <1>1, <2>1
    <3>3. Len(s) < 2 + Len(Chunks)
      BY <2>1, <3>1
    <3>4. LET v == Append(s, AllSent[Len(s) + 1])
          IN  v \in Seq(Message) /\ Begins(v) /\ Len(v) = Len(s) + 1
      BY <1>2, <2>1, <3>3, BeginsMore
    <3> QED
      BY <2>1, <3>2, <3>4
  <2>4. Count(u, tu) = 2
    BY <1>7 DEF Count, Fed
  <2> QED
    BY <1>4, <2>2, <2>3, <2>4 DEF Streaming
<1> QED
  BY <1>6, <1>7

-----------------------------------------------------------------------------
(* Connecting. *)

LEMMA ConnectCallSound ==
  ASSUME NEW t, NEW tu, NEW n, NEW got, Sound(t, tu, n, got), t.answer = "none"
  PROVE  Sound(Asserting([t EXCEPT !.fsm = ConnectBegin(@), !.sock = Connect(@), !.answer = "due"],
                         "fsm.ConnectBegin", CanConnectBegin(t.fsm)), tu, n, got)
<1> DEFINE x == Connect(t.sock)
           f == ConnectBegin(t.fsm)
           u == [t EXCEPT !.fsm = f, !.sock = x, !.answer = "due"]
<1>1. /\ t \in TlsFlow /\ t = NewTls
      /\ tu = [read |-> "idle", write |-> "idle", got |-> <<>>, writes |-> 0]
  BY DEF Sound, Stage
<1>2. /\ t.sock = NewSocket("Remote") /\ t.fsm = NewFlow("Remote") /\ t.sock \in Socket
      /\ t.alive /\ t.rd = "none" /\ t.wr = "none" /\ t.postR = "none" /\ t.postW = "none"
      /\ t.handed = <<>> /\ ~t.pending /\ ~t.reported /\ ~t.stuck /\ ~t.err /\ t.bio = <<>>
      /\ t.out = <<>> /\ t.next = <<>> /\ t.used = 0
  BY <1>1 DEF NewTls, TlsFlow
<1>3. x \in Socket /\ At(x, "Establishing", "Connect")
  <2>1. At(t.sock, "Init", "-")
    BY <1>2, CallNames DEF At, NewSocket, NewFlow
  <2> QED
    BY <1>2, <2>1, ConnectBegins
<1>4. f \in Flow /\ f.state = "Establishing" /\ ~f.reading /\ ~f.writing
  <2>1. t.fsm \in Flow /\ ~t.fsm.reading /\ ~t.fsm.writing
    <3>1. t.fsm \in Flow
      BY <1>1 DEF TlsFlow
    <3>2. ~t.fsm.reading /\ ~t.fsm.writing
      BY <1>2 DEF NewFlow
    <3> QED
      BY <3>1, <3>2
  <2> QED
    BY <2>1, FlowType DEF ConnectBegin, Flow
<1>5. CanConnectBegin(t.fsm)
  BY <1>2 DEF CanConnectBegin, NewFlow
<1> HIDE DEF u, x, f
<1>6. /\ u \in TlsFlow /\ u.fsm = f /\ u.sock = x /\ u.answer = "due" /\ SameStreams(t, u)
      /\ u.alive /\ u.rd = "none" /\ u.wr = "none" /\ u.postR = "none" /\ u.postW = "none"
      /\ u.handed = <<>> /\ ~u.pending /\ ~u.reported /\ ~u.stuck /\ ~u.err /\ u.bio = <<>>
      /\ u.out = <<>> /\ u.next = <<>> /\ u.used = 0
  BY <1>1, <1>2, <1>3, <1>4 DEF TlsFlow, SameStreams, Inward, Outward, u
<1>7. Shaking(u) /\ u.sock.cb["Connect"] = "waiting"
  BY <1>3, <1>4, <1>6, AtCallbacks, CallNames DEF Shaking
<1>8. Stage(u, tu, n, got) /\ Calling(u, tu) /\ Reached(u)
  BY <1>1, <1>6, <1>7 DEF Sound, Stage, Calling, SameStreams, Reached
<1>9. Streaming(u, tu, got)
  <2>1. Count(t, tu) = 0 /\ Count(u, tu) = 0
    BY <1>6, <1>7 DEF Count
  <2> QED
    BY <1>2, <1>6, <2>1 DEF Sound, Streaming, SameStreams
<1>10. Sound(u, tu, n, got)
  BY <1>6, <1>8, <1>9 DEF Sound, SameStreams
<1> QED
  BY <1>5, <1>10 DEF Asserting, u, x, f

LEMMA ConnectedSound ==
  ASSUME NEW t, NEW tu, NEW n, NEW got, Sound(t, tu, n, got), t.sock.cb["Connect"] = "waiting"
  PROVE  Sound(HandShake([t EXCEPT !.sock = ConnectDone(@), !.bio = <<"hello">>]), tu, n, got)
<1> DEFINE x == ConnectDone(t.sock)
           u == [t EXCEPT !.sock = x, !.bio = <<"hello">>]
<1>1. /\ t \in TlsFlow /\ tu \in Owner /\ got \in Seq(Message) /\ n \in Nat
      /\ t.alive /\ t.answer = "due" /\ Shaking(t) /\ t.next = <<>> /\ t.used = 0
      /\ At(t.sock, "Establishing", "Connect")
  BY Speaks, CallNames DEF Sound
<1>2. x \in Socket /\ Doing(x, "-") /\ x.cb["Connect"] # "waiting"
  <2>1. x \in Socket /\ Doing(x, "-")
    BY <1>1, ConnectReturns DEF TlsFlow
  <2> QED
    BY <2>1 DEF Doing, InUse
<1>3. <<"hello">> \in Seq(Message) /\ t.bio = <<>> /\ t.out = <<>> /\ ~t.agreed
  BY <1>1 DEF Message, Shaking, Sound, Reached
<1> HIDE DEF u, x
<1>4. /\ u \in TlsFlow /\ u.sock = x /\ u.bio = <<"hello">> /\ u.out = <<>> /\ u.next = <<>>
      /\ u.used = 0 /\ u.answer = "due" /\ u.alive /\ u.stuck = t.stuck
      /\ ~u.agreed /\ u.err = t.err /\ u.closed = t.closed /\ Inward(u) = Inward(t)
      /\ u.rd = t.rd /\ u.wr = t.wr /\ u.postR = t.postR /\ u.postW = t.postW
      /\ u.reported = t.reported
  BY <1>1, <1>2, <1>3 DEF TlsFlow, Inward, u
<1>5. Between(u)
  BY <1>1, <1>2, <1>3, <1>4 DEF TlsFlow, Shaking, Between, u
<1>6. Calling(u, tu) /\ Reached(u)
  BY <1>1, <1>3, <1>4 DEF Sound, Calling, Reached
<1>7. Streaming(u, tu, got)
  <2>1. Outward(t) = <<>> /\ Outward(u) = <<"hello">>
    <3>1. <<>> \o <<>> = <<>> /\ <<>> \o <<"hello">> = <<"hello">>
      BY <1>3, ConcatEmptySeq
    <3> QED
      BY <1>1, <1>3, <1>4, <3>1 DEF Outward
  <2>2. got = <<>>
    <3>1. Len(got \o Outward(t)) = 0
      BY <1>1 DEF Sound, Streaming, Count, Shaking
    <3>2. got \o Outward(t) = got
      BY <1>1, <2>1, ConcatEmptySeq
    <3> QED
      BY <1>1, <3>1, <3>2, EmptySeq
  <2>3. got \o Outward(u) = <<"hello">> /\ Len(<<"hello">>) = 1 /\ Begins(<<>>)
    <3>1. <<>> \o <<"hello">> = <<"hello">> /\ got \o Outward(t) = <<>>
      BY <1>3, <2>1, <2>2, ConcatEmptySeq
    <3> QED
      BY <2>1, <2>2, <3>1 DEF Sound, Streaming
  <2>4. Begins(<<"hello">>)
    <3>1. AllSent[1] = "hello" /\ Len(Chunks) \in Nat
      BY <1>1, StreamTypes
    <3>2. Len(<<>>) = 0 /\ <<>> \in Seq(Message) /\ Len(<<>>) < 2 + Len(Chunks)
      BY <3>1, EmptySeq
    <3>3. Begins(Append(<<>>, AllSent[Len(<<>>) + 1]))
      BY <2>3, <3>2, BeginsMore
    <3>4. Append(<<>>, AllSent[Len(<<>>) + 1]) = <<"hello">>
      BY <3>1, <3>2
    <3> QED
      BY <3>3, <3>4
  <2>5. Count(u, tu) = 1
    BY <1>2, <1>4 DEF Count
  <2> QED
    BY <1>1, <1>4, <2>3, <2>4, <2>5 DEF Sound, Streaming
<1>8. Sound(HandShake(u), tu, n, got)
  BY <1>1, <1>4, <1>5, <1>6, <1>7, HandShakeSound DEF Sound
<1> QED
  BY <1>8 DEF u, x

\* Whatever has become of the socket and of the state machine.
LEMMA FailedSound ==
  ASSUME NEW t, NEW tu, NEW n, NEW got, Sound(t, tu, n, got), t.answer = "due",
         NEW u \in TlsFlow, SameStreams(t, u)
  PROVE  Sound(Failed(u), tu, n, got)
<1> DEFINE v == Failed(u)
<1>1. v \in TlsFlow /\ v.answer = "error" /\ Silent(v) /\ SameStreams(u, v)
  BY FailedKeeps
<1> HIDE DEF v
<1>2. SameStreams(t, v)
  BY <1>1 DEF SameStreams
<1>3. tu \in Owner
  BY DEF Sound
<1>4. Sound(v, tu, n, got)
  BY <1>1, <1>2, <1>3, EndSound
<1> QED
  BY <1>4 DEF v

LEMMA BrokeSound ==
  ASSUME NEW t, NEW tu, NEW n, NEW got, Sound(t, tu, n, got), t.answer = "due",
         NEW x \in Socket
  PROVE  /\ Sound(Failed([t EXCEPT !.sock = x]), tu, n, got)
         /\ Sound(Failed([t EXCEPT !.sock = x, !.fsm = Errored(@)]), tu, n, got)
<1>1. t \in TlsFlow /\ t.fsm \in Flow /\ Errored(t.fsm) \in Flow
  BY FlowType DEF Sound, TlsFlow
<1> DEFINE u == [t EXCEPT !.sock = x]
           v == [t EXCEPT !.sock = x, !.fsm = Errored(@)]
<1>2. /\ u \in TlsFlow /\ SameStreams(t, u)
      /\ v \in TlsFlow /\ SameStreams(t, v)
  BY <1>1 DEF TlsFlow, SameStreams, Inward, Outward
<1> HIDE DEF u, v
<1>3. Sound(Failed(u), tu, n, got) /\ Sound(Failed(v), tu, n, got)
  BY <1>2, FailedSound
<1> QED
  BY <1>3 DEF u, v

LEMMA ShakeWrittenSound ==
  ASSUME NEW t, NEW tu, NEW n, NEW got, Sound(t, tu, n, got),
         t.answer = "due", t.sock.cb["Write"] = "waiting"
  PROVE  Sound(HandShake([t EXCEPT !.sock = WriteDone(@), !.next = <<>>]), tu, n, got \o t.next)
<1> DEFINE x == WriteDone(t.sock)
           u == [t EXCEPT !.sock = x, !.next = <<>>]
<1>1. /\ t \in TlsFlow /\ tu \in Owner /\ got \in Seq(Message) /\ n \in Nat
      /\ t.alive /\ Shaking(t) /\ Doing(t.sock, "Write")
  BY Speaks, CallNames DEF Sound
<1>2. /\ x \in Socket /\ Doing(x, "-")
      /\ x.cb["Connect"] # "waiting" /\ t.sock.cb["Connect"] # "waiting"
  <2>1. x \in Socket /\ Doing(x, "-")
    BY <1>1, DoingWrite DEF TlsFlow
  <2> QED
    BY <1>1, <2>1 DEF Doing, InUse
<1> HIDE DEF u, x
<1>3. /\ u \in TlsFlow /\ u.sock = x /\ u.next = <<>> /\ u.out = t.out /\ u.bio = t.bio
      /\ u.used = t.used /\ u.answer = t.answer /\ u.alive = t.alive /\ u.stuck = t.stuck
      /\ u.agreed = t.agreed /\ u.err = t.err /\ u.closed = t.closed /\ Inward(u) = Inward(t)
      /\ u.rd = t.rd /\ u.wr = t.wr /\ u.postR = t.postR /\ u.postW = t.postW
      /\ u.reported = t.reported
  BY <1>1, <1>2, EmptySeq DEF TlsFlow, Inward, u
<1>4. Between(u)
  BY <1>1, <1>2, <1>3 DEF TlsFlow, Shaking, Between, u
<1>5. Calling(u, tu) /\ Reached(u)
  BY <1>1, <1>3 DEF Sound, Calling, Reached
<1>6. got \o t.next \in Seq(Message) /\ (got \o t.next) \o Outward(u) = got \o Outward(t)
  BY <1>1, <1>3, WrittenArrives
<1>7. Streaming(u, tu, got \o t.next)
  BY <1>1, <1>2, <1>3, <1>6 DEF Sound, Streaming, Count
<1>8. Sound(HandShake(u), tu, n, got \o t.next)
  BY <1>1, <1>3, <1>4, <1>5, <1>6, <1>7, HandShakeSound DEF Sound
<1> QED
  BY <1>8 DEF u, x

\* How far the server may speak before it is answered.
LEMMA FirstRecord ==
  ASSUME NEW t, NEW tu, NEW n, NEW got, Sound(t, tu, n, got), NEW m \in Nat,
         (m + 1) \div 2 > 1 => \E i \in DOMAIN got : got[i] = "finished",
         t.alive, t.answer \in {"due", "ok"}
  PROVE  /\ t.used = 0 => m <= 2 /\ t.answer = "due" /\ ~t.stuck
         /\ t.answer = "ok" => t.used # 0
<1>1. ASSUME t.used = 0 PROVE t.answer = "due" /\ ~t.stuck
  <2>1. ASSUME t.answer = "ok" PROVE FALSE
    <3>1. t.agreed
      BY <2>1 DEF Sound, Stage, Settled, Ready
    <3> QED
      BY <1>1, <3>1 DEF Sound, Reached
  <2> QED
    BY <2>1 DEF Sound, Stage, Shaking
<1>2. ASSUME t.used = 0 PROVE m <= 2
  <2>1. \A i \in DOMAIN got : got[i] # "finished"
    BY <1>1, <1>2, FirstFlight DEF Sound
  <2>2. (m + 1) \div 2 <= 1
    BY <2>1
  <2> QED
    BY <2>2
<1> QED
  BY <1>1, <1>2

LEMMA ShakeReadSound ==
  ASSUME NEW t, NEW tu, NEW n, NEW got, Sound(t, tu, n, got), Speech(records),
         t.answer = "due", t.sock.cb["Read"] = "waiting",
         NEW m \in Nat, n < m, m <= 2 * Len(records),
         (m + 1) \div 2 > 1 => \E i \in DOMAIN got : got[i] = "finished",
         NEW last \in Places(t, m \div 2), NEW again \in BOOLEAN
  PROVE  Sound(HandShake(WriteCipherTextData([t EXCEPT !.sock = ReadDone(@)], last, again)), tu, m, got)
<1> DEFINE x == ReadDone(t.sock)
           u == [t EXCEPT !.sock = x]
           v == WriteCipherTextData(u, last, again)
<1>1. /\ t \in TlsFlow /\ tu \in Owner /\ got \in Seq(Message) /\ n \in Nat
      /\ t.alive /\ Shaking(t) /\ Doing(t.sock, "Read") /\ t.next = <<>>
  BY Speaks, CallNames DEF Sound
<1>2. /\ x \in Socket /\ Doing(x, "-")
      /\ x.cb["Connect"] # "waiting" /\ t.sock.cb["Connect"] # "waiting"
  <2>1. x \in Socket /\ Doing(x, "-")
    BY <1>1, DoingRead DEF TlsFlow
  <2> QED
    BY <1>1, <2>1 DEF Doing, InUse
<1> HIDE DEF u, v, x
<1>3. /\ u \in TlsFlow /\ u.sock = x /\ u.next = t.next /\ u.out = t.out /\ u.bio = t.bio
      /\ u.used = t.used /\ u.answer = t.answer /\ u.alive = t.alive /\ u.stuck = t.stuck
      /\ u.agreed = t.agreed /\ u.err = t.err /\ u.closed = t.closed
      /\ Inward(u) = Inward(t) /\ Outward(u) = Outward(t)
      /\ u.rd = t.rd /\ u.wr = t.wr /\ u.postR = t.postR /\ u.postW = t.postW
      /\ u.reported = t.reported /\ u.pending = t.pending /\ u.handed = t.handed
      /\ u.fsm = t.fsm
  BY <1>1, <1>2 DEF TlsFlow, Inward, Outward, u
<1>4. t.used = 0 => m <= 2
  BY <1>1, FirstRecord
<1>5. t.used <= m \div 2
  <2>1. t.used \in Nat /\ t.used <= n \div 2 /\ n \div 2 <= m \div 2
        /\ n \div 2 \in Nat /\ m \div 2 \in Nat
    <3>1. Len(records) \in Nat /\ n <= m /\ n \in Nat
      BY <1>1 DEF Speech
    <3>2. t.used \in Nat /\ t.used <= n \div 2
      BY <1>1 DEF Sound, TlsFlow
    <3> QED
      BY <3>1, <3>2, Halves
  <2> QED
    BY <2>1
<1>6. Reached(u) /\ (u.err => u.bio = <<>>) /\ t.bio = <<>> /\ t.out = <<>> /\ ~t.stuck
  BY <1>1, <1>3 DEF Sound, Reached, Shaking
<1>7. Streaming(u, tu, got)
  BY <1>1, <1>2, <1>3 DEF Sound, Streaming, Count
<1>8. /\ v \in TlsFlow /\ Fed(u, v) /\ Reached(v)
      /\ u.used <= v.used /\ v.used <= m \div 2
      /\ Emits(u, v)
      /\ v.err => v.bio = <<>>
      /\ \A d \in Seq(Data) : IsData(d \o u.plain, u.used) => IsData(d \o v.plain, v.used)
  <2>1. last \in Places(u, m \div 2)
    BY <1>3 DEF Places
  <2> QED
    BY <1>3, <1>4, <1>5, <1>6, <2>1, WriteCipherTextDataTakes DEF v
<1>9. Streaming(v, tu, got)
  BY <1>1, <1>2, <1>3, <1>6, <1>7, <1>8, FedStreams
<1>10. Between(v)
  <2>1. /\ v.out # <<>> => v.bio = <<>>
        /\ v.bio # <<>> => v.bio = <<"finished">>
    <3>1. <<>> \o <<>> = <<>>
      OBVIOUS
    <3> QED
      BY <1>3, <1>6, <1>8, <3>1 DEF Emits
  <2> QED
    BY <1>1, <1>2, <1>3, <1>8, <2>1 DEF Fed, Shaking, Between
<1>11. Calling(v, tu)
  BY <1>1, <1>3, <1>8 DEF Sound, Calling, Fed
<1>12. Sound(HandShake(v), tu, m, got)
  BY <1>1, <1>8, <1>9, <1>10, <1>11, HandShakeSound
<1> QED
  BY <1>12 DEF u, v, x

-----------------------------------------------------------------------------
(* The calls of the tunnel. *)

\* A flow whose tunnel may call it is in use.
LEMMA InUseBy ==
  ASSUME NEW t, NEW tu, NEW n, NEW got, Sound(t, tu, n, got), t.alive,
         tu.read = "ready" \/ tu.write = "ready"
  PROVE  t.answer = "ok" /\ Settled(t) /\ tu.read # "idle"
<1>1. t.answer \in {"none", "due", "ok", "error"}
  BY DEF Sound, TlsFlow
<1>2. t.answer = "ok"
  BY <1>1 DEF Sound, Stage, Calling
<1> QED
  BY <1>2 DEF Sound, Stage, Calling

LEMMA ReadCallSound ==
  ASSUME NEW t, NEW tu, NEW n, NEW got, Sound(t, tu, n, got), t.alive, tu.read = "ready"
  PROVE  Sound(Process(Asserting(Asserting([t EXCEPT !.rd = "due", !.fsm = ReadBegin(@)],
                                           "fsm.ReadBegin", CanReadBegin(t.fsm)),
                                 "error_reported_", ~t.reported)),
               [tu EXCEPT !.read = "reading"], n, got)
<1> DEFINE f == ReadBegin(t.fsm)
           u == [t EXCEPT !.rd = "due", !.fsm = f]
           tv == [tu EXCEPT !.read = "reading"]
<1>1. /\ t \in TlsFlow /\ tu \in Owner /\ t.answer = "ok" /\ Settled(t) /\ Machine(t) /\ Ready(t)
      /\ ~t.reported /\ t.rd = "none" /\ t.postR # "waiting" /\ ~t.fsm.reading
      /\ t.fsm.state = "Established"
  BY InUseBy DEF Sound, Calling, Settled, Ready, Machine
<1>2. /\ f \in Flow /\ f.state = "Established" /\ f.reading /\ f.writing = t.fsm.writing
      /\ CanReadBegin(t.fsm)
  <2>1. t.fsm \in Flow
    BY <1>1 DEF TlsFlow
  <2> QED
    BY <1>1, <2>1, FlowType DEF ReadBegin, Flow, CanReadBegin, IsReadable, Usable
<1>3. /\ tv \in Owner /\ tv.got = tu.got /\ tv.writes = tu.writes
      /\ tv.read = "reading" /\ tv.write = tu.write
  BY <1>1 DEF Owner
<1> HIDE DEF u, f, tv
<1>4. /\ u \in TlsFlow /\ u.fsm = f /\ u.rd = "due" /\ u.wr = t.wr /\ u.answer = "ok" /\ u.alive
      /\ u.postR = t.postR /\ u.postW = t.postW /\ u.handed = t.handed /\ u.sock = t.sock
      /\ u.reported = FALSE /\ u.pending = t.pending /\ u.plain = t.plain
      /\ u.out = t.out /\ u.bio = t.bio /\ u.next = t.next
      /\ SameStreams(t, u)
  BY <1>1, <1>2 DEF TlsFlow, SameStreams, Inward, Outward, u
<1>5. Machine(u) /\ Below(u) /\ Withheld(u)
  <2>1. Machine(u)
    BY <1>1, <1>2, <1>4 DEF Machine
  <2>2. Below(u)
    BY <1>1, <1>4 DEF Ready, Below, TlsFlow
  <2>3. Withheld(u)
    BY <1>1, <1>4 DEF Ready, Withheld, Left, SameStreams
  <2> QED
    BY <2>1, <2>2, <2>3
<1>6. Ready(u)
  BY <1>1, <1>4, <1>5 DEF Ready, SameStreams, Waits
<1>7. Calling(u, tv) /\ Reached(u) /\ Streaming(u, tv, got)
  BY <1>1, <1>3, <1>4 DEF Sound, Calling, Reached, Streaming, SameStreams, Count
<1>8. Sound(Process(u), tv, n, got)
  BY <1>3, <1>4, <1>6, <1>7, ProcessSound DEF Sound, SameStreams
<1> QED
  BY <1>1, <1>2, <1>8 DEF Asserting, u, tv, f

LEMMA WriteCallSound ==
  ASSUME NEW t, NEW tu, NEW n, NEW got, Sound(t, tu, n, got), t.alive, tu.write = "ready",
         tu.writes < Len(Chunks)
  PROVE  LET a == Asserting(Asserting([t EXCEPT !.wr = "due", !.fsm = WriteBegin(@)],
                                      "fsm.WriteBegin", CanWriteBegin(t.fsm)),
                            "error_reported_", ~t.reported)
             b == Asserting(a, "FinishWritingCipherData", FinishWritingCipherData(a))
         IN  Sound(Process(WritePlainTextData(b, Chunks[tu.writes + 1])),
                   [tu EXCEPT !.write = "writing", !.writes = @ + 1], n, got)
<1> DEFINE f == WriteBegin(t.fsm)
           fails == t.failed \cup IF t.reported THEN {"error_reported_"} ELSE {}
           u == [t EXCEPT !.wr = "due", !.fsm = f, !.failed = fails]
           c == Chunks[tu.writes + 1]
           v == WritePlainTextData(u, c)
           tv == [tu EXCEPT !.write = "writing", !.writes = tu.writes + 1]
<1>1. /\ t \in TlsFlow /\ tu \in Owner /\ t.answer = "ok" /\ Settled(t) /\ Machine(t) /\ Ready(t)
      /\ t.wr = "none" /\ t.postW # "waiting" /\ ~t.fsm.writing /\ t.fsm.state = "Established"
      /\ t.out = <<>> /\ ~t.stuck /\ tu.read # "idle" /\ got \in Seq(Message)
  BY InUseBy DEF Sound, Calling, Settled, Ready, Machine
<1>2. /\ f \in Flow /\ f.state = "Established" /\ f.writing /\ f.reading = t.fsm.reading
      /\ CanWriteBegin(t.fsm)
  <2>1. t.fsm \in Flow
    BY <1>1 DEF TlsFlow
  <2> QED
    BY <1>1, <2>1, FlowType DEF WriteBegin, Flow, CanWriteBegin, IsWritable, Usable
<1>3. /\ tu.writes \in Nat /\ Len(Chunks) \in Nat /\ tu.writes + 1 \in 1..Len(Chunks)
      /\ c \in Message /\ c = AllSent[2 + (tu.writes + 1)]
  <2>1. tu.writes \in Nat /\ Len(Chunks) \in Nat /\ tu.writes + 1 \in 1..Len(Chunks)
    BY <1>1, StreamTypes DEF Owner
  <2> QED
    BY <1>1, <2>1, StreamTypes
<1>4. /\ tv \in Owner /\ tv.got = tu.got /\ tv.writes = tu.writes + 1
      /\ tv.read = tu.read /\ tv.write = "writing"
  <2>1. tu.writes + 1 \in 0..Len(Chunks)
    BY <1>3
  <2> DEFINE k == tu.writes + 1
  <2> HIDE DEF k
  <2>2. tv = [tu EXCEPT !.write = "writing", !.writes = k]
    BY DEF k
  <2> HIDE DEF tv
  <2> QED
    BY <1>1, <2>1, <2>2 DEF Owner, k
<1> HIDE DEF f, fails, u, v, c, tv
<1>5. /\ u \in TlsFlow /\ u.fsm = f /\ u.wr = "due" /\ u.rd = t.rd /\ u.answer = "ok" /\ u.alive
      /\ u.postR = t.postR /\ u.postW = t.postW /\ u.handed = t.handed /\ u.sock = t.sock
      /\ u.reported = t.reported /\ u.pending = t.pending /\ u.plain = t.plain
      /\ u.out = <<>> /\ u.bio = t.bio /\ u.next = t.next /\ u.used = t.used
      /\ u.agreed = t.agreed /\ u.err = t.err /\ u.closed = t.closed /\ u.stuck = FALSE
      /\ u.failed = fails /\ Inward(u) = Inward(t)
  <2>1. fails \in SUBSET Names
    BY <1>1 DEF TlsFlow, Names, fails
  <2> QED
    BY <1>1, <1>2, <2>1 DEF TlsFlow, Inward, u
<1>6. ASSUME NEW w \in TlsFlow, NEW st, NEW o, w = [u EXCEPT !.stuck = st, !.out = o, !.bio = <<>>],
             w.stuck => t.err,
             Begins(got \o Outward(w)),
             ~w.stuck => Len(got \o Outward(w)) = 2 + tv.writes
      PROVE  Sound(Process(w), tv, n, got)
  <2>1. /\ w.fsm = f /\ w.wr = "due" /\ w.rd = t.rd /\ w.answer = "ok" /\ w.alive
        /\ w.postR = t.postR /\ w.postW = t.postW /\ w.handed = t.handed /\ w.sock = t.sock
        /\ w.reported = t.reported /\ w.pending = t.pending /\ w.plain = t.plain
        /\ w.bio = <<>> /\ w.next = t.next /\ w.used = t.used
        /\ w.agreed = t.agreed /\ w.err = t.err /\ w.closed = t.closed
        /\ Inward(w) = Inward(u)
    <3>1. /\ w.fsm = u.fsm /\ w.wr = u.wr /\ w.rd = u.rd /\ w.answer = u.answer
          /\ w.alive = u.alive /\ w.postR = u.postR /\ w.postW = u.postW
          /\ w.handed = u.handed /\ w.sock = u.sock
          /\ w.reported = u.reported /\ w.pending = u.pending /\ w.plain = u.plain
          /\ w.bio = <<>> /\ w.next = u.next /\ w.used = u.used
          /\ w.agreed = u.agreed /\ w.err = u.err /\ w.closed = u.closed
      BY <1>5, <1>6, ZenonT(30) DEF TlsFlow
    <3> QED
      BY <1>5, <3>1 DEF Inward
  <2>2. Machine(w)
    BY <1>1, <1>2, <2>1 DEF Machine
  <2>3. Below(w)
    BY <1>1, <2>1 DEF Ready, Below
  <2>4. Withheld(w)
    BY <1>1, <1>6, <2>1 DEF Ready, Withheld, Left
  <2>5. Ready(w)
    BY <1>1, <2>1, <2>2, <2>3, <2>4 DEF Ready, Waits
  <2>6. Calling(w, tv)
    BY <1>1, <1>4, <2>1 DEF Sound, Calling
  <2>7. Reached(w)
    BY <2>1 DEF Sound, Reached
  <2>8. Streaming(w, tv, got)
    BY <1>4, <1>5, <1>6, <2>1 DEF Sound, Streaming, Count
  <2> QED
    BY <1>4, <1>6, <2>1, <2>5, <2>6, <2>7, <2>8, ProcessSound DEF Sound
<1>7. /\ t.next \in Seq(Message) /\ t.bio \in Seq(Message)
      /\ t.next \o <<>> = t.next /\ Outward(t) = t.next \o t.bio
      /\ Outward(t) \in Seq(Message)
  <2>1. t.next \in Seq(Message) /\ t.bio \in Seq(Message)
    BY <1>1 DEF TlsFlow
  <2> QED
    BY <1>1, <2>1, ConcatEmptySeq, ConcatProperties DEF Outward
<1>8. ASSUME t.err PROVE Sound(Process(v), tv, n, got)
  <2>1. t.bio = <<>>
    BY <1>1, <1>8 DEF Ready, Withheld
  <2>2. v = [u EXCEPT !.stuck = TRUE, !.out = <<>>, !.bio = <<>>]
    <3> DEFINE w == [u EXCEPT !.stuck = TRUE]
    <3>1. v = FlushCipherBuffer(w)
      BY <1>5, <1>8 DEF WritePlainTextData, v
    <3>2. w.out = <<>> /\ w.bio = <<>> /\ <<>> \o <<>> = <<>>
      BY <1>5, <1>7, <2>1, ConcatEmptySeq DEF TlsFlow
    <3>3. v = [w EXCEPT !.out = <<>>, !.bio = <<>>]
      <4> HIDE DEF w
      <4> QED
        BY <3>1, <3>2 DEF FlushCipherBuffer
    <3> QED
      BY <1>5, <3>3 DEF TlsFlow
  <2>3. v \in TlsFlow /\ v.stuck = TRUE /\ v.out = <<>> /\ v.bio = <<>> /\ v.next = t.next
    BY <1>5, <2>2, EmptySeq DEF TlsFlow
  <2>4. Outward(v) = Outward(t)
    BY <1>1, <2>1, <2>3 DEF Outward
  <2>5. Begins(got \o Outward(v))
    BY <2>4 DEF Sound, Streaming
  <2> QED
    BY <1>6, <1>8, <2>2, <2>3, <2>5
<1>9. ASSUME ~t.err PROVE Sound(Process(v), tv, n, got)
  <2> DEFINE b == Append(t.bio, c)
             s == got \o Outward(t)
  <2>1. b \in Seq(Message) /\ <<>> \o b = b /\ b \o <<>> = b
    BY <1>3, <1>7, AppendProperties, ConcatEmptySeq
  <2> HIDE DEF b, s
  <2>2. v = [u EXCEPT !.stuck = FALSE, !.out = b, !.bio = <<>>]
    <3> DEFINE w == [u EXCEPT !.bio = b]
    <3>1. u.err = FALSE
      BY <1>5, <1>9 DEF TlsFlow
    <3>2. v = FlushCipherBuffer(w)
      BY <1>5, <3>1 DEF WritePlainTextData, TlsFlow, b, v
    <3>3. w.out = <<>> /\ w.bio = b
      BY <1>5 DEF TlsFlow
    <3>4. v = [w EXCEPT !.out = b, !.bio = <<>>]
      <4> HIDE DEF w
      <4> QED
        BY <2>1, <3>2, <3>3 DEF FlushCipherBuffer
    <3> QED
      BY <1>5, <3>4 DEF TlsFlow
  <2>3. v \in TlsFlow /\ v.stuck = FALSE /\ v.out = b /\ v.bio = <<>> /\ v.next = t.next
    BY <1>5, <2>1, <2>2, EmptySeq DEF TlsFlow
  <2>4. Outward(v) = Append(Outward(t), c)
    <3> DEFINE x == t.next
               y == t.bio
    <3>1. x \in Seq(Message) /\ y \in Seq(Message) /\ b = Append(y, c)
      BY <1>7 DEF b
    <3>2. Outward(v) = (x \o b) \o <<>> /\ Outward(t) = x \o y
      BY <1>7, <2>3 DEF Outward
    <3> HIDE DEF x, y
    <3>3. x \o b = Append(x \o y, c)
      BY <1>3, <3>1, ConcatAppend
    <3>4. (x \o b) \o <<>> = x \o b
      <4>1. x \o b \in Seq(Message)
        BY <2>1, <3>1, ConcatProperties
      <4> QED
        BY <4>1, ConcatEmptySeq
    <3> QED
      BY <3>2, <3>3, <3>4
  <2>5. got \o Outward(v) = Append(s, c)
    <3> DEFINE o == Outward(t)
    <3>1. o \in Seq(Message)
      BY <1>7
    <3> HIDE DEF o
    <3>2. got \o Append(o, c) = Append(got \o o, c)
      BY <1>1, <1>3, <3>1, ConcatAppend, SMTT(20)
    <3> QED
      BY <2>4, <3>2 DEF s, o
  <2>6. s \in Seq(Message) /\ Begins(s) /\ Len(s) = 2 + tu.writes
    BY <1>1, <1>7, ConcatProperties DEF Sound, Streaming, Count, s
  <2>7. Begins(Append(s, c)) /\ Len(Append(s, c)) = Len(s) + 1
    <3>1. Len(s) < 2 + Len(Chunks) /\ c = AllSent[Len(s) + 1]
      BY <1>3, <2>6
    <3>2. LET a == Append(s, AllSent[Len(s) + 1])
          IN  a \in Seq(Message) /\ Begins(a) /\ Len(a) = Len(s) + 1
      BY <2>6, <3>1, BeginsMore
    <3> QED
      BY <3>1, <3>2
  <2>8. Len(got \o Outward(v)) = 2 + tv.writes
    BY <1>3, <1>4, <2>5, <2>6, <2>7
  <2> QED
    BY <1>6, <2>2, <2>3, <2>5, <2>7, <2>8
<1>10. Sound(Process(v), tv, n, got)
  BY <1>8, <1>9
<1>11. LET a == Asserting(Asserting([t EXCEPT !.wr = "due", !.fsm = WriteBegin(@)],
                                    "fsm.WriteBegin", CanWriteBegin(t.fsm)),
                          "error_reported_", ~t.reported)
       IN  a = u
  BY <1>1, <1>2 DEF Asserting, TlsFlow, u, f, fails
<1>12. Asserting(u, "FinishWritingCipherData", FinishWritingCipherData(u)) = u
  BY <1>5 DEF Asserting, FinishWritingCipherData
<1> QED
  BY <1>10, <1>11, <1>12 DEF v, c, tv

-----------------------------------------------------------------------------
(* The callbacks while it forwards. *)

LEMMA NextHopReadSound ==
  ASSUME NEW t, NEW tu, NEW n, NEW got, Sound(t, tu, n, got), Speech(records),
         t.answer = "ok", t.sock.cb["Read"] = "waiting",
         NEW m \in Nat, n < m, m <= 2 * Len(records),
         (m + 1) \div 2 > 1 => \E i \in DOMAIN got : got[i] = "finished",
         NEW last \in Places(t, m \div 2), NEW again \in BOOLEAN
  PROVE  Sound(Process(WriteCipherTextData([t EXCEPT !.sock = ReadDone(@)], last, again)), tu, m, got)
<1> DEFINE x == ReadDone(t.sock)
           u == [t EXCEPT !.sock = x]
           v == WriteCipherTextData(u, last, again)
<1>1. /\ t \in TlsFlow /\ tu \in Owner /\ got \in Seq(Message) /\ n \in Nat
      /\ t.alive /\ Settled(t) /\ Ready(t) /\ Machine(t) /\ Below(t) /\ Withheld(t)
      /\ ~t.pending /\ Using(t.sock, t.reported) /\ t.sock \in Socket /\ t.reported \in BOOLEAN
  BY Speaks, CallNames DEF Sound, Settled, Ready, TlsFlow
<1>2. /\ x \in Socket /\ Using(x, FALSE) /\ ~x.fsm.reading /\ x.fsm.writing = t.sock.fsm.writing
      /\ t.reported = FALSE
  <2>1. t.reported = FALSE /\ Using(t.sock, FALSE)
    <3>1. t.sock.fsm.reading
      BY <1>1, UsingCallbacks
    <3> QED
      BY <1>1, <3>1 DEF Using
  <2> QED
    BY <1>1, <2>1, UsingRead
<1> HIDE DEF u, v, x
<1>3. /\ u \in TlsFlow /\ u.sock = x /\ u.next = t.next /\ u.out = t.out /\ u.bio = t.bio
      /\ u.used = t.used /\ u.answer = t.answer /\ u.alive = t.alive /\ u.stuck = t.stuck
      /\ u.agreed = t.agreed /\ u.err = t.err /\ u.closed = t.closed
      /\ Inward(u) = Inward(t) /\ Outward(u) = Outward(t)
      /\ u.rd = t.rd /\ u.wr = t.wr /\ u.postR = t.postR /\ u.postW = t.postW
      /\ u.reported = t.reported /\ u.pending = t.pending /\ u.handed = t.handed
      /\ u.fsm = t.fsm
  BY <1>1, <1>2 DEF TlsFlow, Inward, Outward, u
<1>4. t.used # 0 /\ t.used \in Nat
  <2>1. t.used # 0
    BY <1>1, FirstRecord
  <2> QED
    BY <1>1, <2>1 DEF TlsFlow
<1>5. t.used <= m \div 2
  <2>1. t.used \in Nat /\ t.used <= n \div 2 /\ n \div 2 <= m \div 2
        /\ n \div 2 \in Nat /\ m \div 2 \in Nat
    <3>1. Len(records) \in Nat /\ n <= m /\ n \in Nat
      BY <1>1 DEF Speech
    <3>2. t.used \in Nat /\ t.used <= n \div 2
      BY <1>1 DEF Sound, TlsFlow
    <3> QED
      BY <3>1, <3>2, Halves
  <2> QED
    BY <2>1
<1>6. Reached(u) /\ (u.err => u.bio = <<>>)
  BY <1>1, <1>3 DEF Sound, Reached, Withheld
<1>7. Streaming(u, tu, got)
  BY <1>3 DEF Sound, Streaming, Count
<1>8. /\ v \in TlsFlow /\ Fed(u, v) /\ Reached(v)
      /\ u.used <= v.used /\ v.used <= m \div 2
      /\ Emits(u, v)
      /\ v.err => v.bio = <<>>
      /\ \A d \in Seq(Data) : IsData(d \o u.plain, u.used) => IsData(d \o v.plain, v.used)
  <2>1. last \in Places(u, m \div 2)
    BY <1>3 DEF Places
  <2> QED
    BY <1>3, <1>4, <1>5, <1>6, <2>1, WriteCipherTextDataTakes DEF v
<1>9. Streaming(v, tu, got)
  BY <1>1, <1>3, <1>4, <1>7, <1>8, FedStreams
<1>10. Ready(v)
  <2>9. v.bio = <<>> /\ v.out = t.out \o t.bio
    <3>1. t.out \o t.bio \in Seq(Message)
      BY <1>1, ConcatProperties DEF TlsFlow
    <3> QED
      BY <1>3, <1>4, <1>8, <3>1, ConcatEmptySeq DEF Emits
  <2>1. /\ v.bio = <<>> /\ v.agreed /\ v.alive /\ v.answer = "ok" /\ v.fsm = t.fsm /\ v.sock = x
        /\ v.rd = t.rd /\ v.wr = t.wr /\ v.postR = t.postR /\ v.postW = t.postW
        /\ v.handed = t.handed /\ v.reported = FALSE /\ v.pending = FALSE /\ v.next = t.next
        /\ v.stuck = t.stuck /\ (t.err => v.err)
    BY <1>1, <1>2, <1>3, <1>4, <1>8, <2>9 DEF Fed, Ready, TlsFlow
  <2>2. Machine(v)
    BY <1>1, <1>2, <2>1 DEF Machine
  <2>3. Below(v)
    BY <1>1, <1>2, <2>1 DEF Below
  <2>4. Withheld(v)
    BY <1>1, <2>1 DEF Withheld, Left
  <2>5. v.out # <<>> => v.wr = "due" \/ ~v.sock.fsm.writing
    <3>1. t.out # <<>> => t.wr = "due"
      BY <1>1 DEF Settled
    <3>2. t.bio # <<>> => ~t.sock.fsm.writing
      BY <1>1 DEF Withheld
    <3>3. t.out = <<>> /\ t.bio = <<>> => v.out = <<>>
      BY <2>9, Streams2
    <3> QED
      BY <1>2, <2>1, <3>1, <3>2, <3>3
  <2>6. v.stuck => v.wr = "due"
    BY <1>1, <2>1 DEF Ready
  <2>7. v.postR # "waiting"
    <3>1. t.sock.fsm.reading
      BY <1>1, UsingCallbacks
    <3> QED
      BY <1>1, <1>2, <2>1, <3>1 DEF Below, Machine
  <2> QED
    BY <2>1, <2>2, <2>3, <2>4, <2>5, <2>6, <2>7 DEF Ready, Waits
<1>11. Calling(v, tu) /\ ~v.pending
  BY <1>1, <1>3, <1>8 DEF Sound, Calling, Fed
<1>12. Sound(Process(v), tu, m, got)
  BY <1>1, <1>8, <1>9, <1>10, <1>11, ProcessSound
<1> QED
  BY <1>12 DEF u, v, x

LEMMA NextHopWrittenSound ==
  ASSUME NEW t, NEW tu, NEW n, NEW got, Sound(t, tu, n, got),
         t.answer = "ok", t.sock.cb["Write"] = "waiting"
  PROVE  Sound(Process([t EXCEPT !.sock = WriteDone(@), !.next = <<>>]), tu, n, got \o t.next)
<1> DEFINE x == WriteDone(t.sock)
           u == [t EXCEPT !.sock = x, !.next = <<>>]
<1>1. /\ t \in TlsFlow /\ tu \in Owner /\ got \in Seq(Message) /\ n \in Nat
      /\ t.alive /\ Settled(t) /\ Ready(t) /\ Machine(t) /\ Below(t) /\ Withheld(t)
      /\ ~t.pending /\ Using(t.sock, t.reported) /\ t.sock \in Socket /\ t.reported \in BOOLEAN
  BY Speaks, CallNames DEF Sound, Settled, Ready, TlsFlow
<1>2. /\ x \in Socket /\ Using(x, t.reported) /\ ~x.fsm.writing
      /\ x.fsm.reading = t.sock.fsm.reading /\ t.sock.fsm.writing
  BY <1>1, UsingWrite
<1> HIDE DEF u, x
<1>3. /\ u \in TlsFlow /\ u.sock = x /\ u.next = <<>> /\ u.out = t.out /\ u.bio = t.bio
      /\ u.used = t.used /\ u.answer = t.answer /\ u.alive = t.alive /\ u.stuck = t.stuck
      /\ u.agreed = t.agreed /\ u.err = t.err /\ u.closed = t.closed /\ Inward(u) = Inward(t)
      /\ u.rd = t.rd /\ u.wr = t.wr /\ u.postR = t.postR /\ u.postW = t.postW
      /\ u.reported = t.reported /\ u.pending = t.pending /\ u.handed = t.handed
      /\ u.fsm = t.fsm /\ u.plain = t.plain
  BY <1>1, <1>2, EmptySeq DEF TlsFlow, Inward, u
<1>4. Ready(u)
  <2>1. Machine(u)
    BY <1>1, <1>3 DEF Machine
  <2>2. Below(u)
    BY <1>1, <1>2, <1>3 DEF Below
  <2>3. Withheld(u)
    BY <1>1, <1>2, <1>3 DEF Withheld, Left
  <2>4. u.out # <<>> => u.wr = "due"
    BY <1>1, <1>3 DEF Settled
  <2> QED
    BY <1>1, <1>3, <2>1, <2>2, <2>3, <2>4 DEF Ready, Waits
<1>5. Calling(u, tu) /\ Reached(u)
  BY <1>1, <1>3 DEF Sound, Calling, Reached
<1>6. got \o t.next \in Seq(Message) /\ (got \o t.next) \o Outward(u) = got \o Outward(t)
  BY <1>1, <1>3, WrittenArrives
<1>7. Streaming(u, tu, got \o t.next)
  BY <1>3, <1>6 DEF Sound, Streaming, Count
<1>8. Sound(Process(u), tu, n, got \o t.next)
  BY <1>1, <1>3, <1>4, <1>5, <1>6, <1>7, ProcessSound DEF Sound
<1> QED
  BY <1>8 DEF u, x

\* A flow in use that is neither fed nor called.
LEMMA StaysSound ==
  ASSUME NEW t, NEW tu, NEW n, NEW got, Sound(t, tu, n, got), t.answer = "ok",
         NEW u \in TlsFlow, NEW tv \in Owner, Settled(u), SameStreams(t, u), Calling(u, tv),
         tv.got = tu.got, tv.writes = tu.writes
  PROVE  Sound(u, tv, n, got)
<1>1. u.answer = "ok" /\ u.alive /\ Left(u)
  BY DEF Settled, Ready, Withheld
<1>2. Stage(u, tv, n, got) /\ Reached(u)
  BY <1>1 DEF Sound, SameStreams, Stage, Reached
<1>3. Streaming(u, tv, got)
  BY <1>1 DEF Sound, SameStreams, Streaming, Count
<1> QED
  BY <1>1, <1>2, <1>3 DEF Sound, SameStreams

\* The end of the stream.
LEMMA EofSound ==
  ASSUME NEW t, NEW tu, NEW n, NEW got, Sound(t, tu, n, got),
         t.answer = "ok", t.sock.cb["Read"] = "waiting"
  PROVE  LET u == ReportError(Asserting([t EXCEPT !.sock = ReadEof(@)],
                                        "sock.ReadClosed", CanReadEof(t.sock)), TRUE, TRUE)
         IN  /\ u.alive /\ t.rd = "due" /\ u.rd = "none" /\ u.reported
             /\ Sound(u, [tu EXCEPT !.read = "ended"], n, got)
<1> DEFINE x == ReadEof(t.sock)
           v == [t EXCEPT !.sock = x]
           u == [v EXCEPT !.rd = "none", !.reported = TRUE]
           tv == [tu EXCEPT !.read = "ended"]
<1>1. /\ t \in TlsFlow /\ tu \in Owner /\ got \in Seq(Message) /\ n \in Nat
      /\ t.alive /\ Settled(t) /\ Ready(t) /\ Machine(t) /\ Below(t) /\ Withheld(t)
      /\ ~t.pending /\ Using(t.sock, t.reported) /\ t.sock \in Socket /\ t.reported \in BOOLEAN
  BY Speaks, CallNames DEF Sound, Settled, Ready, TlsFlow
<1>2. /\ CanReadEof(t.sock) /\ x \in Socket /\ Using(x, TRUE)
      /\ x.fsm.writing = t.sock.fsm.writing /\ t.sock.fsm.reading /\ ~t.reported
  <2>1. t.sock.fsm.reading /\ ~t.reported /\ Using(t.sock, FALSE)
    <3>1. t.sock.fsm.reading
      BY <1>1, UsingCallbacks
    <3> QED
      BY <1>1, <3>1 DEF Using
  <2> QED
    BY <1>1, <2>1, UsingRead
<1>3. t.rd = "due" /\ t.postR # "waiting"
  BY <1>1, <1>2 DEF Below, Machine
<1>4. v.rd = "due" /\ v.wr = t.wr
  BY <1>1, <1>3 DEF TlsFlow
<1>5. ReportError(Asserting([t EXCEPT !.sock = ReadEof(@)],
                            "sock.ReadClosed", CanReadEof(t.sock)), TRUE, TRUE)
        = [v EXCEPT !.rd = "none", !.wr = @, !.reported = TRUE]
  BY <1>2, <1>4 DEF Asserting, ReportError
<1>6. [v EXCEPT !.rd = "none", !.wr = @, !.reported = TRUE]
        = [t EXCEPT !.sock = x, !.rd = "none", !.wr = t.wr, !.reported = TRUE]
  BY <1>4
<1>7. /\ tv \in Owner /\ tv.got = tu.got /\ tv.writes = tu.writes
      /\ tv.read = "ended" /\ tv.write = tu.write
  BY <1>1 DEF Owner
<1> DEFINE w == [t EXCEPT !.sock = x, !.rd = "none", !.wr = t.wr, !.reported = TRUE]
<1> HIDE DEF w, x, tv
<1>8. /\ w \in TlsFlow /\ w.sock = x /\ w.rd = "none" /\ w.wr = t.wr /\ w.reported = TRUE
      /\ w.fsm = t.fsm /\ w.alive = t.alive /\ w.answer = t.answer /\ w.handed = t.handed
      /\ w.postR = t.postR /\ w.postW = t.postW /\ w.pending = t.pending /\ w.next = t.next
      /\ w.out = t.out /\ w.bio = t.bio /\ w.plain = t.plain
      /\ SameStreams(t, w)
  BY <1>1, <1>2 DEF TlsFlow, SameStreams, Inward, Outward, w
<1>9. Settled(w)
  <2>1. Machine(w)
    BY <1>1, <1>3, <1>8 DEF Machine
  <2>2. Below(w)
    BY <1>1, <1>2, <1>8 DEF Below, Using
  <2>3. Withheld(w)
    BY <1>1, <1>2, <1>8 DEF Withheld, Left, SameStreams
  <2>4. w.out # <<>> => w.wr = "due"
    BY <1>1, <1>8 DEF Settled
  <2>6. Waits(w)
    BY <1>1, <1>2, <1>3, <1>8 DEF Below, Waits
  <2>5. Ready(w)
    BY <1>1, <1>8, <2>1, <2>2, <2>3, <2>4, <2>6 DEF Ready, SameStreams
  <2> QED
    BY <1>8, <2>4, <2>5 DEF Settled
<1>10. Calling(w, tv)
  BY <1>1, <1>7, <1>8 DEF Sound, Calling
<1>11. Sound(w, tv, n, got)
  BY <1>7, <1>8, <1>9, <1>10, StaysSound
<1> QED
  BY <1>1, <1>3, <1>5, <1>6, <1>8, <1>11, ZenonT(30) DEF w, tv, x

Gone(tu) == [tu EXCEPT !.read = "gone", !.write = "gone"]

LEMMA GoneType ==
  ASSUME NEW tu \in Owner
  PROVE  Gone(tu) \in Owner /\ Gone(tu).got = tu.got /\ Gone(tu).writes = tu.writes
  BY DEF Owner, Gone

\* An error that is reported.
LEMMA ReportedSound ==
  ASSUME NEW t, NEW tu, NEW n, NEW got, Sound(t, tu, n, got), t.answer = "ok",
         NEW x \in Socket, t.rd = "due" \/ t.wr = "due", NEW readFirst \in BOOLEAN
  PROVE  LET u == ReportError([t EXCEPT !.sock = x], FALSE, readFirst)
         IN  ~u.alive /\ Sound(u, Gone(tu), n, got)
<1> DEFINE v == [t EXCEPT !.sock = x]
           u == ReportError(v, FALSE, readFirst)
<1>1. t \in TlsFlow /\ tu \in Owner /\ Left(t)
  BY DEF Sound, Stage
<1>2. /\ v \in TlsFlow /\ SameStreams(t, v) /\ v.rd = t.rd /\ v.wr = t.wr
      /\ v.answer = "ok" /\ v.out = t.out /\ v.bio = t.bio /\ v.next = t.next
  BY <1>1 DEF TlsFlow, SameStreams, Inward, Outward
<1> HIDE DEF v
<1>3. /\ u \in TlsFlow /\ Silent(u) /\ Kept(v, u)
      /\ u.bio = v.bio /\ u.out = v.out /\ u.next = v.next
  BY <1>2, ReportErrorReleases
<1> HIDE DEF u
<1>4. SameStreams(t, u) /\ u.answer = "ok" /\ Left(u)
  BY <1>1, <1>2, <1>3 DEF Kept, SameStreams, Left
<1>5. Sound(u, Gone(tu), n, got)
  BY <1>1, <1>3, <1>4, GoneType, EndSound
<1> QED
  BY <1>3, <1>5 DEF u, v, Silent

LEMMA ReadErrorSound ==
  ASSUME NEW t, NEW tu, NEW n, NEW got, Sound(t, tu, n, got),
         t.answer = "ok", t.sock.cb["Read"] = "waiting"
  PROVE  LET u == ReportError([t EXCEPT !.sock = ReadFailed(@)], FALSE, TRUE)
         IN  ~u.alive /\ Sound(u, Gone(tu), n, got)
<1>1. /\ t \in TlsFlow /\ Settled(t) /\ ~t.pending /\ Using(t.sock, t.reported)
      /\ t.reported \in BOOLEAN
  BY Speaks, CallNames DEF Sound, TlsFlow
<1>2. ReadFailed(t.sock) \in Socket
  BY <1>1, SocketType DEF TlsFlow
<1>3. t.rd = "due"
  BY <1>1, UsingCallbacks DEF Settled, Ready, Below, TlsFlow
<1> QED
  BY <1>2, <1>3, ReportedSound

LEMMA WriteErrorSound ==
  ASSUME NEW t, NEW tu, NEW n, NEW got, Sound(t, tu, n, got),
         t.answer = "ok", t.sock.cb["Write"] = "waiting"
  PROVE  LET u == ReportError([t EXCEPT !.sock = WriteFailed(@)], FALSE, FALSE)
         IN  \/ ~u.alive /\ Sound(u, Gone(tu), n, got)
             \/ u.alive /\ t.rd # "due" /\ Sound(u, tu, n, got)
<1> DEFINE x == WriteFailed(t.sock)
           u == [t EXCEPT !.sock = x, !.pending = TRUE]
<1>1. /\ t \in TlsFlow /\ tu \in Owner /\ t.alive /\ Settled(t) /\ Ready(t)
      /\ Machine(t) /\ Below(t) /\ Withheld(t)
      /\ ~t.pending /\ Using(t.sock, t.reported) /\ t.sock \in Socket /\ t.reported \in BOOLEAN
  BY Speaks, CallNames DEF Sound, Settled, Ready, TlsFlow
<1>2. x \in Socket /\ Silenced(x) /\ t.sock.fsm.writing
  BY <1>1, UsingWrite
<1>3. CASE t.rd = "due" \/ t.wr = "due"
  BY <1>2, <1>3, ReportedSound
<1>4. CASE ~(t.rd = "due" \/ t.wr = "due")
  <2>1. t.rd = "none" /\ t.wr = "none"
    BY <1>1, <1>4 DEF TlsFlow
  <2>2. ReportError([t EXCEPT !.sock = x], FALSE, FALSE) = u
    <3> DEFINE v == [t EXCEPT !.sock = x]
    <3>1. v.rd = "none" /\ v.wr = "none"
      BY <1>1, <2>1 DEF TlsFlow
    <3>2. u = [v EXCEPT !.pending = TRUE]
      OBVIOUS
    <3> HIDE DEF v, u
    <3> QED
      BY <3>1, <3>2 DEF ReportError, v
  <2> HIDE DEF u, x
  <2>3. /\ u \in TlsFlow /\ u.sock = x /\ u.pending = TRUE /\ u.rd = "none" /\ u.wr = "none"
        /\ u.reported = t.reported /\ u.fsm = t.fsm /\ u.alive = t.alive /\ u.answer = t.answer
        /\ u.handed = t.handed /\ u.postR = t.postR /\ u.postW = t.postW /\ u.next = t.next
        /\ u.out = t.out /\ u.bio = t.bio /\ u.plain = t.plain
        /\ SameStreams(t, u)
    BY <1>1, <1>2, <2>1 DEF TlsFlow, SameStreams, Inward, Outward, u
  <2>4. Machine(u)
    BY <1>1, <2>1, <2>3 DEF Machine
  <2>5. Below(u)
    BY <1>2, <2>3 DEF Below
  <2>6. Withheld(u)
    BY <1>1, <1>2, <2>3 DEF Withheld, Left, SameStreams
  <2>7. u.out = <<>> /\ ~u.stuck
    BY <1>1, <2>1, <2>3 DEF Settled, Ready, SameStreams
  <2>8. Settled(u)
    BY <1>1, <2>3, <2>4, <2>5, <2>6, <2>7 DEF Ready, Settled, SameStreams, Waits
  <2>9. Calling(u, tu)
    BY <1>1, <2>1, <2>3 DEF Sound, Calling
  <2>10. Sound(u, tu, n, got)
    BY <1>1, <2>3, <2>8, <2>9, StaysSound
  <2> QED
    BY <1>1, <2>1, <2>2, <2>3, <2>10 DEF x
<1> QED
  BY <1>3, <1>4

\* A closure that is to run belongs to a flow in use.
LEMMA Posted ==
  ASSUME NEW t, NEW tu, NEW n, NEW got, Sound(t, tu, n, got),
         t.postR = "waiting" \/ t.postW = "waiting"
  PROVE  t.alive /\ t.answer = "ok" /\ Settled(t) /\ Ready(t) /\ Machine(t)
<1>1. t.answer \in {"none", "due", "ok", "error"}
  BY DEF Sound, TlsFlow
<1>2. t.alive
  BY DEF Sound, Stage, Silent
<1>3. t.answer # "none"
  BY DEF Sound, Stage, NewTls
<1>4. t.answer # "due"
  BY <1>2 DEF Sound, Stage, Shaking
<1> QED
  BY <1>1, <1>2, <1>3, <1>4 DEF Sound, Stage, Settled, Ready

LEMMA ReadPostedSound ==
  ASSUME NEW t, NEW tu, NEW n, NEW got, Sound(t, tu, n, got), t.postR = "waiting"
  PROVE  LET u == Asserting([t EXCEPT !.postR = "none", !.handed = <<>>, !.fsm = ReadEnd(@)],
                            "fsm.ReadEnd", CanReadEnd(t.fsm))
             v == Destroyed([u EXCEPT !.fsm = Errored(@)])
         IN  IF t.handed = <<"error">>
             THEN ~v.alive /\ Sound(v, Gone(tu), n, got)
             ELSE Sound(u, [tu EXCEPT !.read = "ready", !.got = @ \o t.handed], n, got)
<1> DEFINE f == ReadEnd(t.fsm)
           u == [t EXCEPT !.postR = "none", !.handed = <<>>, !.fsm = f]
           w == [u EXCEPT !.fsm = Errored(f)]
           v == Destroyed(w)
           h == t.handed
           tv == [tu EXCEPT !.read = "ready", !.got = tu.got \o h]
<1>1. /\ t \in TlsFlow /\ tu \in Owner /\ t.alive /\ t.answer = "ok" /\ Settled(t)
      /\ Ready(t) /\ Machine(t) /\ Left(t)
      /\ ~t.reported /\ t.rd = "none" /\ t.fsm.reading /\ t.fsm.state = "Established"
  BY Posted DEF Sound, Stage, Machine, TlsFlow
<1>2. /\ f \in Flow /\ f.state = "Established" /\ ~f.reading /\ f.writing = t.fsm.writing
      /\ Errored(f) \in Flow /\ CanReadEnd(t.fsm)
  <2>1. t.fsm \in Flow
    BY <1>1 DEF TlsFlow
  <2> QED
    BY <1>1, <2>1, FlowType DEF ReadEnd, Flow, CanReadEnd
<1>3. Asserting([t EXCEPT !.postR = "none", !.handed = <<>>, !.fsm = ReadEnd(@)],
                "fsm.ReadEnd", CanReadEnd(t.fsm)) = u
  BY <1>2 DEF Asserting
<1> HIDE DEF u, f
<1>4. /\ u \in TlsFlow /\ u.fsm = f /\ u.postR = "none" /\ u.handed = <<>>
      /\ u.rd = t.rd /\ u.wr = t.wr /\ u.answer = t.answer /\ u.alive = t.alive
      /\ u.postW = t.postW /\ u.sock = t.sock /\ u.reported = t.reported
      /\ u.pending = t.pending /\ u.plain = t.plain /\ u.out = t.out /\ u.bio = t.bio
      /\ u.next = t.next /\ u.used = t.used /\ u.agreed = t.agreed /\ u.err = t.err
      /\ u.closed = t.closed /\ u.stuck = t.stuck /\ Outward(u) = Outward(t)
  BY <1>1, <1>2, EmptySeq DEF TlsFlow, CallbackStates, Outward, u
<1>5. Inward(u) = t.plain
  <2>1. u.plain \in Seq(Data) /\ <<>> \o u.plain = u.plain
    BY <1>4, Streams2
  <2> QED
    BY <1>4, <2>1 DEF Inward
<1> HIDE DEF v, w, h, tv
<1>6. CASE t.handed = <<"error">>
  <2>1. Inward(t) = t.plain
    <3>1. <<>> \o t.plain = t.plain
      BY <1>1, Streams2
    <3> QED
      BY <1>6, <3>1 DEF Inward
  <2>2. /\ w \in TlsFlow /\ w.answer = "ok" /\ w.bio = t.bio /\ w.out = t.out /\ w.next = t.next
        /\ SameStreams(u, w)
    BY <1>1, <1>2, <1>4 DEF TlsFlow, SameStreams, Inward, Outward, w
  <2>3. SameStreams(t, w)
    BY <1>4, <1>5, <2>1, <2>2 DEF SameStreams
  <2>4. /\ v \in TlsFlow /\ Silent(v) /\ Kept(w, v)
        /\ v.bio = w.bio /\ v.out = w.out /\ v.next = w.next
    BY <2>2, DestroyedKeeps DEF v
  <2>5. SameStreams(t, v) /\ v.answer = "ok" /\ Left(v)
    BY <1>1, <2>2, <2>3, <2>4 DEF SameStreams, Kept, Left
  <2>6. Sound(v, Gone(tu), n, got)
    BY <1>1, <2>4, <2>5, GoneType, EndSound
  <2>7. ~v.alive
    BY <2>4 DEF Silent
  <2>8. v = Destroyed([u EXCEPT !.fsm = Errored(@)])
    BY <1>4 DEF v, w
  <2> QED
    BY <1>3, <1>6, <2>6, <2>7, <2>8
<1>7. CASE t.handed # <<"error">>
  <2>1. /\ h \in Seq(Data) /\ tu.got \in Seq(Data) /\ t.plain \in Seq(Data)
        /\ tu.got \o h \in Seq(Data)
    <3>1. h \in Seq(Data) /\ tu.got \in Seq(Data) /\ t.plain \in Seq(Data)
      BY <1>1, <1>7 DEF TlsFlow, Owner, h
    <3> QED
      BY <3>1, ConcatProperties
  <2>2. /\ tv \in Owner /\ tv.got = tu.got \o h /\ tv.writes = tu.writes
        /\ tv.read = "ready" /\ tv.write = tu.write
    BY <1>1, <2>1 DEF Owner, tv
  <2>3. tv.got \o Inward(u) = tu.got \o Inward(t)
    <3> DEFINE g == tu.got
               p == t.plain
    <3>1. Inward(t) = h \o p /\ Inward(u) = p
      BY <1>5, <1>7 DEF Inward, h
    <3>2. g \in Seq(Data) /\ p \in Seq(Data) /\ h \in Seq(Data)
      BY <2>1
    <3> HIDE DEF g, p
    <3>3. (g \o h) \o p = g \o (h \o p)
      BY <3>2, ConcatAssociative
    <3> QED
      BY <2>2, <3>1, <3>3 DEF g
  <2>4. Settled(u)
    <3>1. Machine(u)
      BY <1>1, <1>2, <1>4 DEF Machine
    <3>2. Below(u) /\ Withheld(u)
      BY <1>1, <1>4 DEF Ready, Below, Withheld, Left
    <3> QED
      BY <1>1, <1>4, <3>1, <3>2 DEF Ready, Settled, Waits
  <2>5. Calling(u, tv)
    <3>1. tu.read # "idle"
      BY <1>1 DEF Sound, Calling
    <3> QED
      BY <1>1, <1>4, <2>2, <3>1 DEF Sound, Calling
  <2>6. Stage(u, tv, n, got) /\ Reached(u)
    BY <1>1, <1>4, <2>4 DEF Sound, Stage, Reached, Settled, Ready, Withheld
  <2>7. Streaming(u, tv, got)
    BY <1>1, <1>4, <2>2, <2>3 DEF Sound, Streaming, Count
  <2>8. Sound(u, tv, n, got)
    BY <1>4, <2>2, <2>5, <2>6, <2>7 DEF Sound
  <2>9. tv = [tu EXCEPT !.read = "ready", !.got = @ \o t.handed]
    BY <1>1 DEF Owner, tv, h
  <2> QED
    BY <1>3, <1>7, <2>8, <2>9
<1> QED
  BY <1>6, <1>7

LEMMA WritePostedSound ==
  ASSUME NEW t, NEW tu, NEW n, NEW got, Sound(t, tu, n, got), t.postW = "waiting"
  PROVE  Sound(Asserting([t EXCEPT !.postW = "none", !.fsm = WriteEnd(@)],
                         "fsm.WriteEnd", CanWriteEnd(t.fsm)),
               [tu EXCEPT !.write = "ready"], n, got)
<1> DEFINE f == WriteEnd(t.fsm)
           u == [t EXCEPT !.postW = "none", !.fsm = f]
           tv == [tu EXCEPT !.write = "ready"]
<1>1. /\ t \in TlsFlow /\ tu \in Owner /\ t.alive /\ t.answer = "ok" /\ Settled(t)
      /\ Ready(t) /\ Machine(t)
      /\ t.wr = "none" /\ t.fsm.writing /\ t.fsm.state = "Established"
  BY Posted DEF Sound, Machine, TlsFlow
<1>2. /\ f \in Flow /\ f.state = "Established" /\ ~f.writing /\ f.reading = t.fsm.reading
      /\ CanWriteEnd(t.fsm)
  <2>1. t.fsm \in Flow
    BY <1>1 DEF TlsFlow
  <2> QED
    BY <1>1, <2>1, FlowType DEF WriteEnd, Flow, CanWriteEnd
<1>3. /\ tv \in Owner /\ tv.got = tu.got /\ tv.writes = tu.writes
      /\ tv.read = tu.read /\ tv.write = "ready"
  BY <1>1 DEF Owner
<1> HIDE DEF u, f, tv
<1>4. /\ u \in TlsFlow /\ u.fsm = f /\ u.postW = "none" /\ u.handed = t.handed
      /\ u.rd = t.rd /\ u.wr = t.wr /\ u.answer = t.answer /\ u.alive = t.alive
      /\ u.postR = t.postR /\ u.sock = t.sock /\ u.reported = t.reported
      /\ u.pending = t.pending /\ u.plain = t.plain /\ u.out = t.out /\ u.bio = t.bio
      /\ u.next = t.next /\ SameStreams(t, u)
  BY <1>1, <1>2 DEF TlsFlow, CallbackStates, SameStreams, Inward, Outward, u
<1>5. Settled(u)
  <2>1. Machine(u)
    BY <1>1, <1>2, <1>4 DEF Machine
  <2>2. Below(u) /\ Withheld(u)
    BY <1>1, <1>4 DEF Ready, Below, Withheld, Left, SameStreams
  <2> QED
    BY <1>1, <1>4, <2>1, <2>2 DEF Ready, Settled, SameStreams, Waits
<1>6. Calling(u, tv)
  <2>1. tu.read # "idle"
    BY <1>1 DEF Sound, Calling
  <2> QED
    BY <1>1, <1>3, <1>4, <2>1 DEF Sound, Calling
<1>7. Sound(u, tv, n, got)
  BY <1>1, <1>3, <1>4, <1>5, <1>6, StaysSound
<1> QED
  BY <1>2, <1>7 DEF Asserting, u, f, tv

LEMMA TunnelEndsSound ==
  ASSUME NEW t, NEW tu, NEW n, NEW got, Sound(t, tu, n, got), t.alive, t.answer # "none"
  PROVE  Sound(Destroyed(t), Gone(tu), n, got)
<1> DEFINE u == Destroyed(t)
<1>1. t \in TlsFlow /\ tu \in Owner /\ (t.answer = "ok" => Left(t))
  BY DEF Sound, Stage
<1>2. /\ u \in TlsFlow /\ Silent(u) /\ Kept(t, u)
      /\ u.bio = t.bio /\ u.out = t.out /\ u.next = t.next
  BY <1>1, DestroyedKeeps
<1> HIDE DEF u
<1>3. SameStreams(t, u) /\ u.answer = t.answer /\ (u.answer = "ok" => Left(u))
  BY <1>1, <1>2 DEF Kept, SameStreams, Left
<1>4. Sound(u, Gone(tu), n, got)
  BY <1>1, <1>2, <1>3, GoneType, EndSound
<1> QED
  BY <1>4 DEF u

\* A closure that was canceled leaves the run loop.
LEMMA DropSound ==
  ASSUME NEW t, NEW tu, NEW n, NEW got, Sound(t, tu, n, got)
  PROVE  /\ \A op \in Ops : t.sock.cb[op] = "canceled" =>
              Sound([t EXCEPT !.sock = Return(@, @.fsm, op)], tu, n, got)
         /\ t.postR = "canceled" => Sound([t EXCEPT !.postR = "none"], tu, n, got)
         /\ t.postW = "canceled" => Sound([t EXCEPT !.postW = "none"], tu, n, got)
<1>1. /\ t \in TlsFlow /\ t.sock \in Socket /\ tu \in Owner
      /\ t.answer \in {"none", "due", "ok", "error"}
  BY DEF Sound, TlsFlow
<1>2. ASSUME NEW u \in TlsFlow, SameStreams(t, u), u.answer = t.answer, u.alive = t.alive,
             u.rd = t.rd, u.wr = t.wr, u.reported = t.reported, u.bio = t.bio, u.out = t.out,
             u.next = t.next, t.answer # "none",
             t.alive /\ t.answer = "due" => FALSE,
             u.postR = "waiting" <=> t.postR = "waiting",
             u.postW = "waiting" <=> t.postW = "waiting",
             t.alive /\ t.answer = "ok" => Settled(u),
             ~t.alive => Silent(u)
      PROVE  Sound(u, tu, n, got)
  <2>1. Stage(u, tu, n, got) /\ Calling(u, tu) /\ Reached(u)
    BY <1>2 DEF Sound, Stage, Calling, Reached, SameStreams, Left
  <2>2. Streaming(u, tu, got)
    BY <1>1, <1>2 DEF Sound, Stage, Streaming, SameStreams, Count
  <2> QED
    BY <1>2, <2>1, <2>2 DEF Sound, SameStreams
<1>3. ASSUME NEW op \in Ops, t.sock.cb[op] = "canceled"
      PROVE  Sound([t EXCEPT !.sock = Return(@, @.fsm, op)], tu, n, got)
  <2> DEFINE x == Return(t.sock, t.sock.fsm, op)
             u == [t EXCEPT !.sock = x]
  <2>1. /\ x.fsm = t.sock.fsm /\ x.fsm \in Flow
        /\ x.cb = [t.sock.cb EXCEPT ![op] = "none"]
        /\ \A p \in Ops : x.cb[p] = IF p = op THEN "none" ELSE t.sock.cb[p]
    BY <1>1 DEF Return, Socket
  <2>2. x \in Socket
    BY <1>1 DEF Return, Socket, CallbackStates
  <2> HIDE DEF x, u
  <2>3. /\ u \in TlsFlow /\ u.sock = x /\ SameStreams(t, u) /\ u.answer = t.answer
        /\ u.alive = t.alive /\ u.rd = t.rd /\ u.wr = t.wr /\ u.reported = t.reported
        /\ u.bio = t.bio /\ u.out = t.out /\ u.next = t.next
        /\ u.postR = t.postR /\ u.postW = t.postW /\ u.fsm = t.fsm /\ u.handed = t.handed
        /\ u.pending = t.pending /\ u.plain = t.plain
    BY <1>1, <2>2 DEF TlsFlow, SameStreams, Inward, Outward, u
  <2>4. Silenced(t.sock) => Silenced(x)
    BY <2>1 DEF Silenced
  <2>5. t.answer # "none"
    BY <1>3 DEF Sound, Stage, NewTls, NewSocket
  <2>6. ~(t.alive /\ t.answer = "due")
    <3> SUFFICES ASSUME t.alive, t.answer = "due" PROVE FALSE
      OBVIOUS
    <3>1. Shaking(t)
      BY DEF Sound, Stage
    <3>2. CASE At(t.sock, "Establishing", "Connect")
      BY <1>3, <3>2 DEF At
    <3>3. CASE Doing(t.sock, "Read")
      BY <1>3, <3>3, DoingCallbacks
    <3>4. CASE Doing(t.sock, "Write")
      BY <1>3, <3>4, DoingCallbacks
    <3> QED
      BY <3>1, <3>2, <3>3, <3>4 DEF Shaking
  <2>7. t.alive /\ t.answer = "ok" => Settled(u)
    <3> SUFFICES ASSUME t.alive, t.answer = "ok" PROVE Settled(u)
      OBVIOUS
    <3>1. Settled(t) /\ Ready(t) /\ Below(t) /\ Machine(t) /\ Withheld(t)
      BY DEF Sound, Stage, Settled, Ready
    <3>2. t.pending
      <4>1. ASSUME ~t.pending PROVE FALSE
        <5>1. Using(t.sock, t.reported) /\ t.reported \in BOOLEAN
          BY <1>1, <3>1, <4>1 DEF Below, TlsFlow
        <5>2. t.sock.cb[op] # "canceled"
          BY <1>1, <5>1, UsingCallbacks
        <5> QED
          BY <1>3, <5>2
      <4> QED
        BY <4>1
    <3>3. Below(u)
      BY <2>3, <2>4, <3>1, <3>2 DEF Below
    <3>4. Machine(u) /\ Withheld(u)
      BY <2>1, <2>3, <3>1 DEF Machine, Withheld, Left, SameStreams
    <3>5. t.out # <<>> => t.wr = "due"
      BY <3>1 DEF Settled
    <3> QED
      BY <2>1, <2>3, <3>1, <3>2, <3>3, <3>4, <3>5 DEF Settled, Ready, SameStreams, Waits
  <2>8. ~t.alive => Silent(u)
    BY <2>3, <2>4 DEF Sound, Stage, Silent
  <2>9. Sound(u, tu, n, got)
    BY <1>2, <2>3, <2>5, <2>6, <2>7, <2>8
  <2> QED
    BY <2>9 DEF u, x
<1>4. ASSUME NEW r \in CallbackStates, NEW w \in CallbackStates, t.postR = "canceled" \/ t.postW = "canceled",
             r = "waiting" <=> t.postR = "waiting", w = "waiting" <=> t.postW = "waiting"
      PROVE  Sound([t EXCEPT !.postR = r, !.postW = w], tu, n, got)
  <2> DEFINE u == [t EXCEPT !.postR = r, !.postW = w]
  <2>1. /\ u \in TlsFlow /\ u.sock = t.sock /\ SameStreams(t, u) /\ u.answer = t.answer
        /\ u.alive = t.alive /\ u.rd = t.rd /\ u.wr = t.wr /\ u.reported = t.reported
        /\ u.bio = t.bio /\ u.out = t.out /\ u.next = t.next
        /\ u.postR = r /\ u.postW = w /\ u.fsm = t.fsm /\ u.handed = t.handed
        /\ u.pending = t.pending /\ u.plain = t.plain
    BY <1>1, <1>4 DEF TlsFlow, SameStreams, Inward, Outward
  <2> HIDE DEF u
  <2>2. t.answer # "none" /\ ~(t.alive /\ t.answer = "due")
    BY <1>4 DEF Sound, Stage, NewTls, Shaking
  <2>3. t.alive /\ t.answer = "ok" => Settled(u)
    <3> SUFFICES ASSUME t.alive, t.answer = "ok" PROVE Settled(u)
      OBVIOUS
    <3>1. Settled(t) /\ Ready(t) /\ Below(t) /\ Machine(t) /\ Withheld(t)
      BY DEF Sound, Stage, Settled, Ready
    <3>2. Machine(u)
      BY <1>4, <2>1, <3>1 DEF Machine
    <3>3. Below(u) /\ Withheld(u)
      BY <2>1, <3>1 DEF Below, Withheld, Left, SameStreams
    <3> QED
      BY <1>4, <2>1, <3>1, <3>2, <3>3 DEF Settled, Ready, SameStreams, Waits
  <2>4. ~t.alive => Silent(u)
    BY <1>4, <2>1 DEF Sound, Stage, Silent
  <2>5. Sound(u, tu, n, got)
    BY <1>2, <1>4, <2>1, <2>2, <2>3, <2>4
  <2> QED
    BY <2>5 DEF u
<1>5. ASSUME t.postR = "canceled" PROVE Sound([t EXCEPT !.postR = "none"], tu, n, got)
  <2>1. "none" \in CallbackStates /\ t.postW \in CallbackStates
    BY <1>1 DEF TlsFlow, CallbackStates
  <2>2. Sound([t EXCEPT !.postR = "none", !.postW = t.postW], tu, n, got)
    BY <1>4, <1>5, <2>1
  <2>3. [t EXCEPT !.postR = "none", !.postW = t.postW] = [t EXCEPT !.postR = "none"]
    BY <1>1 DEF TlsFlow
  <2> QED
    BY <2>2, <2>3
<1>6. ASSUME t.postW = "canceled" PROVE Sound([t EXCEPT !.postW = "none"], tu, n, got)
  <2>1. "none" \in CallbackStates /\ t.postR \in CallbackStates
    BY <1>1 DEF TlsFlow, CallbackStates
  <2>2. Sound([t EXCEPT !.postR = t.postR, !.postW = "none"], tu, n, got)
    BY <1>4, <1>6, <2>1
  <2>3. [t EXCEPT !.postR = t.postR, !.postW = "none"] = [t EXCEPT !.postW = "none"]
    BY <1>1 DEF TlsFlow
  <2> QED
    BY <2>2, <2>3
<1> QED
  BY <1>3, <1>5, <1>6

LEMMA LoopsSound ==
  ASSUME NEW t, NEW tu, NEW n, NEW got, Sound(t, tu, n, got), t.alive
  PROVE  /\ t.answer = "ok" /\ tu.read = "idle" =>
              Sound(t, [tu EXCEPT !.read = "ready", !.write = "ready"], n, got)
         /\ tu.write = "ready" => Sound(t, [tu EXCEPT !.write = "closing"], n, got)
<1>1. t \in TlsFlow /\ tu \in Owner /\ SameStreams(t, t)
  BY DEF Sound, SameStreams
<1>2. ASSUME t.answer = "ok", tu.read = "idle"
      PROVE  Sound(t, [tu EXCEPT !.read = "ready", !.write = "ready"], n, got)
  <2> DEFINE tv == [tu EXCEPT !.read = "ready", !.write = "ready"]
  <2>1. /\ tv \in Owner /\ tv.got = tu.got /\ tv.writes = tu.writes
        /\ tv.read = "ready" /\ tv.write = "ready"
    BY <1>1 DEF Owner
  <2> HIDE DEF tv
  <2>2. Settled(t) /\ Calling(t, tv)
    BY <1>2, <2>1 DEF Sound, Stage, Calling
  <2>3. Sound(t, tv, n, got)
    BY <1>1, <1>2, <2>1, <2>2, StaysSound
  <2> QED
    BY <2>3 DEF tv
<1>3. ASSUME tu.write = "ready" PROVE Sound(t, [tu EXCEPT !.write = "closing"], n, got)
  <2> DEFINE tv == [tu EXCEPT !.write = "closing"]
  <2>1. /\ tv \in Owner /\ tv.got = tu.got /\ tv.writes = tu.writes
        /\ tv.read = tu.read /\ tv.write = "closing"
    BY <1>1 DEF Owner
  <2>2. t.answer = "ok" /\ Settled(t) /\ tu.read # "idle"
    BY <1>3, InUseBy
  <2> HIDE DEF tv
  <2>3. Calling(t, tv)
    BY <2>1, <2>2 DEF Sound, Calling
  <2>4. Sound(t, tv, n, got)
    BY <1>1, <2>1, <2>2, <2>3, StaysSound
  <2> QED
    BY <2>4 DEF tv
<1> QED
  BY <1>2, <1>3

-----------------------------------------------------------------------------
(* The server. *)

\* Some of the records have been read: the server leaves out of the others those
\* at the end.
Cut(r, s, m) == /\ s \in Seq(Record) /\ Len(s) = m /\ m <= Len(r)
                /\ \A i \in 1..m : s[i] = r[i]

LEMMA CutIs ==
  ASSUME NEW r \in Seq(Record), NEW m \in 0..Len(r)
  PROVE  Cut(r, SubSeq(r, 1, m), m)
<1>1. \A i \in 1..m : r[i] \in Record
  BY LenProperties
<1>2. Len(r) \in Nat
  BY LenProperties
<1>3. /\ SubSeq(r, 1, m) \in Seq(Record)
      /\ Len(SubSeq(r, 1, m)) = IF 1 <= m THEN m - 1 + 1 ELSE 0
      /\ \A i \in 1..m - 1 + 1 : SubSeq(r, 1, m)[i] = r[1 + i - 1]
  BY <1>1, SubSeqProperties
<1>4. \A i \in 1..m : i \in 1..m - 1 + 1 /\ 1 + i - 1 = i
  BY <1>2
<1> QED
  BY <1>2, <1>3, <1>4 DEF Cut

LEMMA CutSpeech ==
  ASSUME NEW r, NEW s, NEW m \in Nat, Speech(r), Cut(r, s, m)
  PROVE  Speech(s)
<1>1. Len(r) \in Nat /\ \A i \in 1..m : i \in 1..Len(r)
  BY LenProperties DEF Speech, Cut
<1> QED
  BY <1>1 DEF Speech, Cut

DataIn(r, d, n) == \E i, j \in 0..n :
  /\ d = SubSeq(r, i + 1, j)
  /\ \A k \in 1..n : k \in i + 1..j <=> r[k] \notin Shakes \cup Alerts

LEMMA CutData ==
  ASSUME NEW r \in Seq(Record), NEW s, NEW m \in Nat, Cut(r, s, m),
         NEW d, NEW n \in Nat, n <= m, DataIn(r, d, n)
  PROVE  DataIn(s, d, n)
<1>1. PICK i \in 0..n, j \in 0..n :
        /\ d = SubSeq(r, i + 1, j)
        /\ \A k \in 1..n : k \in i + 1..j <=> r[k] \notin Shakes \cup Alerts
  BY DEF DataIn
<1>2. /\ s \in Seq(Record) /\ Len(r) \in Nat /\ m <= Len(r) /\ Len(s) = m
      /\ \A k \in 1..m : s[k] = r[k]
  BY LenProperties DEF Cut
<1>3. SubSeq(s, i + 1, j) = SubSeq(r, i + 1, j)
  <2> DEFINE a == SubSeq(s, i + 1, j)
             b == SubSeq(r, i + 1, j)
  <2>1. \A k \in i + 1..j : k \in 1..m /\ s[k] = r[k] /\ s[k] \in Record /\ r[k] \in Record
    BY <1>2, ElementOfSeq
  <2>2. /\ a \in Seq(Record)
        /\ Len(a) = IF i + 1 <= j THEN j - (i + 1) + 1 ELSE 0
        /\ \A k \in 1..j - (i + 1) + 1 : a[k] = s[i + 1 + k - 1]
    BY <2>1, SubSeqProperties
  <2>3. /\ b \in Seq(Record)
        /\ Len(b) = IF i + 1 <= j THEN j - (i + 1) + 1 ELSE 0
        /\ \A k \in 1..j - (i + 1) + 1 : b[k] = r[i + 1 + k - 1]
    BY <2>1, SubSeqProperties
  <2>4. \A k \in 1..Len(a) : k \in 1..j - (i + 1) + 1 /\ i + 1 + k - 1 \in i + 1..j
    BY <2>2
  <2> HIDE DEF a, b
  <2>5. \A k \in 1..Len(a) : a[k] = b[k]
    BY <2>1, <2>2, <2>3, <2>4
  <2> QED
    BY <2>2, <2>3, <2>5, SeqEqual DEF a, b
<1>4. ASSUME NEW k \in 1..n PROVE k \in i + 1..j <=> s[k] \notin Shakes \cup Alerts
  <2>1. s[k] = r[k]
    BY <1>2
  <2> QED
    BY <1>1, <2>1
<1> QED
  BY <1>1, <1>3, <1>4 DEF DataIn

LEMMA ServerClosesSound ==
  ASSUME TlsIInv, ServerCloses
  PROVE  TlsIInv'
<1>1. PICK m \in (taken + 1) \div 2..Len(records) : records' = SubSeq(records, 1, m)
  BY DEF ServerCloses
<1> DEFINE s == SubSeq(records, 1, m)
<1>2. /\ taken \in Nat /\ Len(records) \in Nat /\ records \in Seq(Record) /\ Speech(records)
      /\ flow.used \in Nat /\ flow.used <= taken \div 2
  BY LenProperties DEF TlsIInv, Sound, Speech, TlsFlow
<1>3. m \in Nat /\ m \in 0..Len(records) /\ taken <= 2 * m /\ flow.used <= m
  <2>1. m \in Nat /\ (taken + 1) \div 2 <= m /\ m <= Len(records)
    BY <1>2
  <2>2. taken <= 2 * m /\ taken \div 2 <= m /\ taken \div 2 \in Nat
    BY <1>2, <2>1, Halves
  <2> QED
    BY <1>2, <2>1, <2>2
<1>4. Cut(records, s, m) /\ Speech(s) /\ Len(s) = m
  BY <1>2, <1>3, CutIs, CutSpeech DEF Cut
<1>5. DataIn(s, tunnel.got \o Inward(flow), flow.used)
  <2>1. DataIn(records, tunnel.got \o Inward(flow), flow.used)
    BY DEF TlsIInv, Sound, Streaming, IsData, DataIn
  <2> QED
    BY <1>2, <1>3, <1>4, <2>1, CutData
<1>6. \A i \in 1..flow.used : s[i] = records[i]
  BY <1>2, <1>3, <1>4 DEF Cut
<1> HIDE DEF s
<1>7. records' = s /\ flow' = flow /\ tunnel' = tunnel /\ taken' = taken /\ heard' = heard
  BY <1>1 DEF ServerCloses, s
<1>8. Stage(flow, tunnel, taken, heard)' /\ Calling(flow, tunnel)'
  BY <1>7 DEF TlsIInv, Sound, Stage, Calling
<1>9. Reached(flow)'
  BY <1>6, <1>7 DEF TlsIInv, Sound, Reached
<1>10. Streaming(flow, tunnel, heard)'
  <2>1. IsData(tunnel.got \o Inward(flow), flow.used)'
    BY <1>5, <1>7 DEF IsData, DataIn, Inward
  <2>2. Begins(heard \o Outward(flow))' /\ Outward(flow)' = Outward(flow)
    BY <1>7 DEF TlsIInv, Sound, Streaming, Outward
  <2>3. Count(flow, tunnel)' = Count(flow, tunnel)
    BY <1>7 DEF Count
  <2> QED
    BY <1>7, <2>1, <2>2, <2>3 DEF TlsIInv, Sound, Streaming
<1>11. /\ Speech(records)' /\ (taken <= 2 * Len(records))'
       /\ (flow \in TlsFlow)' /\ (tunnel \in Owner)' /\ (taken \in Nat)'
       /\ (heard \in Seq(Message))' /\ (flow.used <= taken \div 2)'
  BY <1>2, <1>3, <1>4, <1>7 DEF TlsIInv, Sound
<1> QED
  BY <1>8, <1>9, <1>10, <1>11 DEF TlsIInv, Sound

\* A step of the others.
LEMMA OthersSound ==
  ASSUME TlsIInv, records' = records, Sound(flow', tunnel', taken', heard')
  PROVE  TlsIInv'
<1>1. Stage(flow, tunnel, taken, heard)' /\ Calling(flow, tunnel)'
  BY DEF Sound, Stage, Calling
<1>2. Reached(flow)'
  BY DEF Sound, Reached
<1>3. Streaming(flow, tunnel, heard)'
  BY DEF Sound, Streaming, IsData, Inward, Outward, Count
<1>4. Speech(records)'
  BY DEF TlsIInv
<1> QED
  BY <1>1, <1>2, <1>3, <1>4 DEF TlsIInv, Sound

-----------------------------------------------------------------------------
(* The invariant. *)

LEMMA Tuples ==
  ASSUME NEW S, NEW a \in S, NEW b \in S
  PROVE  <<a>> \in Seq(S) /\ <<a, b>> \in Seq(S)
  OBVIOUS

LEMMA SpeechInit ==
  ASSUME NEW h \in Handshakes, NEW s \in Streams
  PROVE  Speech(h \o s)
<1>1. s \in Seq(STRING \ (Shakes \cup {"error"}))
  BY TlsAssumption
<1>2. s \in Seq(Record) /\ \A i \in 1..Len(s) : s[i] \notin Shakes
  <2>1. STRING \ (Shakes \cup {"error"}) \subseteq Record
    BY DEF Record
  <2>2. s \in Seq(Record)
    BY <1>1, <2>1, SeqMonotonic
  <2> QED
    BY <1>1, <2>2, ElementOfSeq
<1>3. /\ h \in Seq(Record) /\ Len(h) \in {1, 2}
      /\ h[1] \in ClientAnswers /\ h[1] \in Shakes
      /\ Len(h) = 1 => h[1] \in ServerFinished
      /\ Len(h) = 2 => /\ h[2] \notin ClientAnswers /\ h[2] \in Shakes
                       /\ h[1] \notin ServerFinished /\ h[2] \in ServerFinished
  <2>1. CASE h = <<"hello done", "server finished">>
    <3>1. h[1] = "hello done" /\ h[2] = "server finished" /\ Len(h) = 2
      BY <2>1
    <3>2. "hello done" \in Record /\ "server finished" \in Record
      BY DEF Record, Shakes
    <3>3. h \in Seq(Record)
      BY <2>1, <3>2, Tuples
    <3> QED
      BY <3>1, <3>3 DEF Shakes, ServerFinished, ClientAnswers
  <2>2. CASE h = <<"server finished, 1.3">>
    <3>1. h[1] = "server finished, 1.3"
      BY <2>2
    <3>2. "server finished, 1.3" \in Record
      BY DEF Record, Shakes
    <3>3. h \in Seq(Record)
      BY <2>2, <3>2, Tuples
    <3>4. h[1] \in Shakes /\ h[1] \in ServerFinished /\ h[1] \in ClientAnswers
      BY <3>1 DEF Shakes, ServerFinished, ClientAnswers
    <3>5. Len(h) = 1
      BY <2>2
    <3>6. Len(h) \in {1, 2} /\ ~(Len(h) = 2)
      BY <3>5
    <3> QED
      BY <3>3, <3>4, <3>6
  <2> QED
    BY <2>1, <2>2 DEF Handshakes
<1> DEFINE r == h \o s
<1>4. /\ r \in Seq(Record) /\ Len(r) = Len(h) + Len(s) /\ Len(s) \in Nat
      /\ \A i \in 1..Len(r) : IF i <= Len(h) THEN r[i] = h[i] ELSE r[i] \notin Shakes
  <2>1. /\ r \in Seq(Record) /\ Len(r) = Len(h) + Len(s) /\ Len(s) \in Nat /\ Len(h) \in Nat
        /\ \A i \in 1..Len(h) + Len(s) : r[i] = IF i <= Len(h) THEN h[i] ELSE s[i - Len(h)]
    BY <1>2, <1>3, ConcatProperties, LenProperties
  <2> HIDE DEF r
  <2>2. ASSUME NEW i \in 1..Len(r), ~(i <= Len(h)) PROVE r[i] \notin Shakes
    <3>1. i - Len(h) \in 1..Len(s) /\ i \in 1..Len(h) + Len(s)
      BY <2>1, <2>2
    <3> QED
      BY <1>2, <2>1, <2>2, <3>1
  <2> QED
    BY <2>1, <2>2
<1> HIDE DEF r
<1>5. ClientAnswers \subseteq Shakes /\ ServerFinished \subseteq Shakes
  BY DEF ClientAnswers, ServerFinished, Shakes
<1>6. ASSUME NEW i \in 1..Len(r) PROVE r[i] \in ClientAnswers <=> i = 1
  <2>1. i = 1 \/ (i = 2 /\ Len(h) = 2) \/ ~(i <= Len(h))
    BY <1>3, <1>4
  <2> QED
    BY <1>3, <1>4, <1>5, <2>1
<1>7. ASSUME NEW i \in 1..Len(r), NEW j \in 1..Len(r), i < j
      PROVE  /\ r[j] \in Shakes => r[i] \in Shakes
             /\ r[i] \in ServerFinished => r[j] \notin Shakes
  <2>1. (i = 1 /\ j = 2 /\ Len(h) = 2) \/ ~(j <= Len(h))
    BY <1>3, <1>4, <1>7
  <2>2. CASE i = 1 /\ j = 2 /\ Len(h) = 2
    BY <1>3, <1>4, <2>2
  <2>3. CASE ~(j <= Len(h))
    BY <1>4, <2>3
  <2> QED
    BY <2>1, <2>2, <2>3
<1> QED
  BY <1>4, <1>6, <1>7 DEF Speech, r

LEMMA InitInductive == Init => TlsIInv
<1> SUFFICES ASSUME Init PROVE TlsIInv
  OBVIOUS
<1>1. Speech(records) /\ Len(records) \in Nat
  <2>1. Speech(records)
    BY SpeechInit DEF Init
  <2> QED
    BY <2>1, LenProperties DEF Speech
<1>2. /\ flow \in TlsFlow /\ flow = NewTls /\ taken = 0 /\ heard = <<>>
      /\ tunnel = [read |-> "idle", write |-> "idle", got |-> <<>>, writes |-> 0]
  BY NewTlsType DEF Init
<1>3. tunnel \in Owner /\ heard \in Seq(Message) /\ 0 \div 2 = 0
  <2>1. <<>> \in Seq(Data) /\ <<>> \in Seq(Message) /\ 0 \in 0..Len(Chunks)
    BY <1>2, StreamTypes, EmptySeq
  <2> QED
    BY <1>2, <2>1 DEF Owner
<1>4. /\ flow.answer = "none" /\ flow.alive /\ flow.used = 0 /\ ~flow.agreed
      /\ flow.rd = "none" /\ flow.wr = "none" /\ flow.postR = "none" /\ flow.postW = "none"
      /\ ~flow.reported /\ flow.handed = <<>> /\ flow.plain = <<>> /\ ~flow.stuck
      /\ flow.next = <<>> /\ flow.out = <<>> /\ flow.bio = <<>>
  BY <1>2 DEF NewTls
<1>5. Stage(flow, tunnel, taken, heard) /\ Calling(flow, tunnel)
  BY <1>2, <1>4 DEF Stage, Calling
<1>6. Reached(flow)
  BY <1>4 DEF Reached
<1>7. Streaming(flow, tunnel, heard)
  <2>1. <<>> \o <<>> = <<>> /\ Len(<<>>) = 0 /\ <<>> # <<"error">>
    BY <1>2, Streams2, EmptySeq, ConcatEmptySeq
  <2>2. Inward(flow) = <<>> /\ Outward(flow) = <<>> /\ tunnel.got = <<>>
    BY <1>2, <1>4, <2>1 DEF Inward, Outward
  <2>3. IsData(<<>>, 0)
    <3>1. SubSeq(records, 0 + 1, 0) = <<>>
      BY SubSeqEmpty
    <3>2. 0 \in Nat /\ 0 \in 0..0 /\ 1..0 = {}
      OBVIOUS
    <3>3. \A k \in 1..0 : k \in 0 + 1..0 <=> records[k] \notin Shakes \cup Alerts
      BY <3>2
    <3> QED
      BY <3>1, <3>2, <3>3 DEF IsData
  <2>4. Begins(<<>>)
    <3>1. SubSeq(AllSent, 1, 0) = <<>> /\ Len(AllSent) = 2 + Len(Chunks) /\ Len(Chunks) \in Nat
      BY <1>2, SubSeqEmpty, StreamTypes
    <3> QED
      BY <2>1, <3>1 DEF Begins
  <2>5. Count(flow, tunnel) = 0
    BY <1>4 DEF Count
  <2> QED
    BY <1>2, <1>4, <2>1, <2>2, <2>3, <2>4, <2>5 DEF Streaming
<1> QED
  BY <1>1, <1>2, <1>3, <1>4, <1>5, <1>6, <1>7 DEF TlsIInv, Sound

LEMMA StepInductive == TlsIInv /\ [Next]_vars => TlsIInv'
<1> SUFFICES ASSUME TlsIInv, [Next]_vars PROVE TlsIInv'
  OBVIOUS
<1> DEFINE Done == records' = records /\ Sound(flow', tunnel', taken', heard')
<1>1. Speech(records) /\ Sound(flow, tunnel, taken, heard)
  BY DEF TlsIInv
<1>2. flow \in TlsFlow /\ flow.sock \in Socket /\ tunnel \in Owner
  BY <1>1 DEF Sound, TlsFlow
<1> USE DEF serverVars
<1>3. CASE ConnectCall
  <2>1. Done
    BY <1>1, <1>3, ConnectCallSound DEF ConnectCall
  <2> QED
    BY <2>1, OthersSound
<1>4. CASE SocketConnected
  <2>1. Done
    BY <1>1, <1>4, ConnectedSound DEF SocketConnected, Waiting
  <2> QED
    BY <2>1, OthersSound
<1>5. CASE SocketFailed
  <2>1. flow.answer = "due" /\ ConnectFailed(flow.sock) \in Socket
    BY <1>1, <1>2, <1>5, Speaks, CallNames, SocketType DEF SocketFailed, Waiting
  <2>2. Done
    BY <1>1, <1>5, <2>1, BrokeSound DEF SocketFailed
  <2> QED
    BY <2>2, OthersSound
<1>6. CASE HandShakeWritten
  <2>1. Done
    BY <1>1, <1>6, ShakeWrittenSound DEF HandShakeWritten, Waiting
  <2> QED
    BY <2>1, OthersSound
<1>7. ASSUME NEW n \in 1..2 * Len(records), HandShakeRead(n) \/ NextHopRead(n) PROVE TlsIInv'
  <2>1. /\ n \in Nat /\ taken < n /\ n <= 2 * Len(records)
        /\ (n + 1) \div 2 > 1 => \E i \in DOMAIN heard : heard[i] = "finished"
        /\ flow.sock.cb["Read"] = "waiting"
    <3>1. Len(records) \in Nat /\ taken \in Nat
      BY <1>1, LenProperties DEF Speech, Sound
    <3> QED
      BY <1>7, <3>1 DEF HandShakeRead, NextHopRead, MaySend, Waiting
  <2>2. CASE HandShakeRead(n)
    <3>1. PICK last \in Places(flow, n \div 2), again \in BOOLEAN :
            flow' = HandShake(WriteCipherTextData([flow EXCEPT !.sock = ReadDone(@)], last, again))
      BY <2>2 DEF HandShakeRead
    <3>2. Done
      BY <1>1, <2>1, <2>2, <3>1, ShakeReadSound DEF HandShakeRead
    <3> QED
      BY <3>2, OthersSound
  <2>3. CASE NextHopRead(n)
    <3>1. PICK last \in Places(flow, n \div 2), again \in BOOLEAN :
            flow' = Process(WriteCipherTextData([flow EXCEPT !.sock = ReadDone(@)], last, again))
      BY <2>3 DEF NextHopRead
    <3>2. Done
      BY <1>1, <2>1, <2>3, <3>1, NextHopReadSound DEF NextHopRead
    <3> QED
      BY <3>2, OthersSound
  <2> QED
    BY <1>7, <2>2, <2>3
<1>8. CASE HandShakeBroke
  <2>1. PICK x \in {ReadEof(flow.sock), ReadFailed(flow.sock), WriteFailed(flow.sock)} :
          flow' = Failed([flow EXCEPT !.sock = x, !.fsm = Errored(@)])
    BY <1>8 DEF HandShakeBroke
  <2>2. x \in Socket
    BY <1>2, SocketType
  <2>3. Done
    BY <1>1, <1>8, <2>1, <2>2, BrokeSound DEF HandShakeBroke
  <2> QED
    BY <2>3, OthersSound
<1>9. CASE NextHopEnded
  <2>1. CASE flow' = ReportError(Asserting([flow EXCEPT !.sock = ReadEof(@)],
                                           "sock.ReadClosed", CanReadEof(flow.sock)), TRUE, TRUE)
    <3>1. /\ flow'.alive /\ flow.rd = "due" /\ flow'.rd = "none" /\ flow'.reported
          /\ Sound(flow', [tunnel EXCEPT !.read = "ended"], taken, heard)
      BY <1>1, <1>9, <2>1, EofSound DEF NextHopEnded, Waiting
    <3>2. Done
      BY <1>9, <3>1 DEF NextHopEnded, Told
    <3> QED
      BY <3>2, OthersSound
  <2>2. CASE flow' = ReportError([flow EXCEPT !.sock = ReadFailed(@)], FALSE, TRUE)
    <3>1. ~flow'.alive /\ Sound(flow', Gone(tunnel), taken, heard)
      BY <1>1, <1>9, <2>2, ReadErrorSound DEF NextHopEnded, Waiting
    <3>2. Done
      BY <1>9, <3>1 DEF NextHopEnded, Told, Gone
    <3> QED
      BY <3>2, OthersSound
  <2> QED
    BY <1>9, <2>1, <2>2 DEF NextHopEnded
<1>10. CASE NextHopWritten
  <2>1. Done
    BY <1>1, <1>10, NextHopWrittenSound DEF NextHopWritten, Waiting
  <2> QED
    BY <2>1, OthersSound
<1>11. CASE NextHopWriteBroke
  <2>1. \/ ~flow'.alive /\ Sound(flow', Gone(tunnel), taken, heard)
        \/ flow'.alive /\ flow.rd # "due" /\ Sound(flow', tunnel, taken, heard)
    BY <1>1, <1>11, WriteErrorSound DEF NextHopWriteBroke, Waiting
  <2>2. Done
    BY <1>11, <2>1 DEF NextHopWriteBroke, Told, Gone
  <2> QED
    BY <2>2, OthersSound
<1>12. CASE Start
  <2>1. Done
    BY <1>1, <1>12, LoopsSound DEF Start
  <2> QED
    BY <2>1, OthersSound
<1>13. CASE ReadCall
  <2>1. Done
    BY <1>1, <1>13, ReadCallSound DEF ReadCall
  <2> QED
    BY <2>1, OthersSound
<1>14. CASE WriteCall
  <2>1. Done
    BY <1>1, <1>14, WriteCallSound DEF WriteCall
  <2> QED
    BY <2>1, OthersSound
<1>15. CASE CloseWriteCall
  <2>1. Done
    BY <1>1, <1>15, LoopsSound DEF CloseWriteCall
  <2> QED
    BY <2>1, OthersSound
<1>16. CASE ReadPosted
  <2> DEFINE u == Asserting([flow EXCEPT !.postR = "none", !.handed = <<>>, !.fsm = ReadEnd(@)],
                            "fsm.ReadEnd", CanReadEnd(flow.fsm))
             v == Destroyed([u EXCEPT !.fsm = Errored(@)])
  <2>1. IF flow.handed = <<"error">>
        THEN ~v.alive /\ Sound(v, Gone(tunnel), taken, heard)
        ELSE Sound(u, [tunnel EXCEPT !.read = "ready", !.got = @ \o flow.handed], taken, heard)
    BY <1>1, <1>16, ReadPostedSound DEF ReadPosted
  <2>2. /\ IF flow.handed = <<"error">> THEN flow' = v /\ tunnel' = Told(flow')
           ELSE /\ flow' = u
                /\ tunnel' = [tunnel EXCEPT !.read = "ready", !.got = @ \o flow.handed]
        /\ records' = records /\ taken' = taken /\ heard' = heard
    BY <1>16 DEF ReadPosted
  <2> HIDE DEF u, v
  <2>3. Done
    BY <2>1, <2>2 DEF Told, Gone
  <2> QED
    BY <2>3, OthersSound
<1>17. CASE WritePosted
  <2>1. Done
    BY <1>1, <1>17, WritePostedSound DEF WritePosted
  <2> QED
    BY <2>1, OthersSound
<1>18. CASE TunnelEnds
  <2>1. Done
    BY <1>1, <1>18, TunnelEndsSound DEF TunnelEnds, Gone
  <2> QED
    BY <2>1, OthersSound
<1>19. CASE DropCallback
  <2>1. /\ \A op \in Ops : flow.sock.cb[op] = "canceled" =>
              Sound([flow EXCEPT !.sock = Return(@, @.fsm, op)], tunnel, taken, heard)
        /\ flow.postR = "canceled" => Sound([flow EXCEPT !.postR = "none"], tunnel, taken, heard)
        /\ flow.postW = "canceled" => Sound([flow EXCEPT !.postW = "none"], tunnel, taken, heard)
    BY <1>1, DropSound
  <2>2. /\ \/ \E op \in Ops : /\ flow.sock.cb[op] = "canceled"
                              /\ flow' = [flow EXCEPT !.sock = Return(@, @.fsm, op)]
           \/ flow.postR = "canceled" /\ flow' = [flow EXCEPT !.postR = "none"]
           \/ flow.postW = "canceled" /\ flow' = [flow EXCEPT !.postW = "none"]
        /\ tunnel' = tunnel /\ records' = records /\ taken' = taken /\ heard' = heard
    BY <1>19 DEF DropCallback
  <2>3. Sound(flow', tunnel, taken, heard)
    <3>1. CASE flow.postR = "canceled" /\ flow' = [flow EXCEPT !.postR = "none"]
      BY <2>1, <3>1
    <3>2. CASE flow.postW = "canceled" /\ flow' = [flow EXCEPT !.postW = "none"]
      BY <2>1, <3>2
    <3>3. ASSUME NEW op \in Ops, flow.sock.cb[op] = "canceled",
                 flow' = [flow EXCEPT !.sock = Return(@, @.fsm, op)]
          PROVE  Sound(flow', tunnel, taken, heard)
      BY <2>1, <3>3
    <3> QED
      BY <2>2, <3>1, <3>2, <3>3
  <2>4. Done
    BY <2>2, <2>3
  <2> QED
    BY <2>4, OthersSound
<1>20. CASE ServerCloses
  BY <1>20, ServerClosesSound
<1>21. CASE ServerResets \/ UNCHANGED vars
  <2>1. Done
    BY <1>1, <1>21 DEF ServerResets, vars
  <2> QED
    BY <2>1, OthersSound
<1> QED
  BY <1>3, <1>4, <1>5, <1>6, <1>7, <1>8, <1>9, <1>10, <1>11, <1>12, <1>13, <1>14, <1>15, <1>16,
     <1>17, <1>18, <1>19, <1>20, <1>21 DEF Next, SocketReads, SocketWrites

-----------------------------------------------------------------------------
(* What it implies. *)

LEMMA TlsTypes == TlsIInv => TypeOK
<1> SUFFICES ASSUME TlsIInv PROVE TypeOK
  OBVIOUS
<1>1. /\ flow \in TlsFlow /\ Len(records) \in Nat /\ taken \in Nat /\ taken <= 2 * Len(records)
      /\ flow.used \in Nat /\ flow.used <= taken \div 2
  BY LenProperties DEF TlsIInv, Sound, Speech, TlsFlow
<1>2. flow.used \in 0..taken \div 2 /\ taken \in 0..2 * Len(records)
  BY <1>1
<1> QED
  BY <1>1, <1>2 DEF TypeOK, TlsFlow, CallbackStates

LEMMA NothingIsForgotten == TlsIInv => NothingForgotten
<1> SUFFICES ASSUME TlsIInv, flow.alive PROVE NothingForgotten
  BY DEF NothingForgotten
<1>1. /\ flow \in TlsFlow /\ flow.sock \in Socket /\ flow.fsm \in Flow
      /\ flow.answer = "due" => Shaking(flow)
      /\ flow.answer = "ok" => Settled(flow)
  BY DEF TlsIInv, Sound, Stage, TlsFlow
<1>2. ASSUME flow.answer = "due"
      PROVE  \E op \in Ops : \A p \in Ops : Waiting(p) = (p = op)
  <2>1. \/ At(flow.sock, "Establishing", "Connect")
        \/ Doing(flow.sock, "Read") \/ Doing(flow.sock, "Write")
    BY <1>1, <1>2 DEF Shaking
  <2>2. PICK op \in Ops : \A p \in Ops :
          flow.sock.cb[p] = IF p = op THEN "waiting" ELSE "none"
    BY <2>1, AtCallbacks, DoingCallbacks, CallNames
  <2> QED
    BY <2>2 DEF Waiting
<1>3. ASSUME flow.answer = "ok", ~flow.reported
      PROVE  /\ flow.fsm.reading = (flow.rd = "due" \/ flow.postR = "waiting")
             /\ flow.fsm.writing = (flow.wr = "due" \/ flow.postW = "waiting")
             /\ flow.rd = "due" <=> Waiting("Read")
             /\ flow.wr = "due" \/ flow.out # <<>> => Waiting("Write")
             /\ flow.pending => flow.rd = "none" /\ flow.wr = "none"
  <2>1. Settled(flow) /\ Machine(flow) /\ Below(flow)
    BY <1>1, <1>3 DEF Settled, Ready
  <2>2. /\ flow.fsm.reading = (flow.rd = "due" \/ flow.postR = "waiting")
        /\ flow.fsm.writing = (flow.wr = "due" \/ flow.postW = "waiting")
    BY <1>1, <1>3, <2>1 DEF Machine, Flow
  <2>3. CASE flow.pending
    BY <1>3, <2>1, <2>2, <2>3, CallNames DEF Settled, Below, Silenced, Waiting
  <2>4. CASE ~flow.pending
    <3>1. Using(flow.sock, FALSE)
      BY <1>1, <1>3, <2>1, <2>4 DEF Below, TlsFlow
    <3>2. /\ Waiting("Read") <=> flow.sock.fsm.reading
          /\ Waiting("Write") <=> flow.sock.fsm.writing
      BY <1>1, <3>1, UsingCallbacks DEF Waiting
    <3>3. /\ flow.rd = "due" <=> flow.sock.fsm.reading
          /\ flow.wr = "due" => flow.sock.fsm.writing
          /\ flow.out # <<>> => flow.wr = "due"
      BY <1>3, <2>1, <2>4 DEF Settled, Below
    <3> QED
      BY <2>2, <2>4, <3>2, <3>3
  <2> QED
    BY <2>3, <2>4
<1> QED
  BY <1>2, <1>3 DEF NothingForgotten

LEMMA TlsImplied == TlsIInv => TlsInv
<1> SUFFICES ASSUME TlsIInv PROVE TlsInv
  OBVIOUS
<1>1. TypeOK /\ NothingForgotten
  BY TlsTypes, NothingIsForgotten
<1>2. NoCallbackOutlivesFlow
  BY DEF TlsIInv, Sound, Stage, Silent, Silenced, NoCallbackOutlivesFlow, Waiting
<1>3. OnlyFinishedWithheld
  <2>1. <<>> \o <<>> = <<>> /\ Len(<<>>) = 0
    BY NewTlsType, Streams2, EmptySeq, ConcatEmptySeq
  <2>2. flow.answer = "ok" /\ flow.bio # <<>> =>
          flow.bio = <<"finished">> /\ flow.out = <<>> /\ flow.next = <<>>
    BY DEF TlsIInv, Sound, Stage, Left
  <2> QED
    BY <2>1, <2>2 DEF OnlyFinishedWithheld
<1>4. OtherAssertionsHold
  BY DEF TlsIInv, Sound, TlsFlow, Names, OtherAssertionsHold
<1> QED
  BY <1>1, <1>2, <1>3, <1>4 DEF TlsInv

LEMMA StreamsImplied == TlsIInv => StreamsIntact
<1> SUFFICES ASSUME TlsIInv PROVE StreamsIntact
  OBVIOUS
<1>1. /\ flow \in TlsFlow /\ tunnel \in Owner /\ heard \in Seq(Message)
      /\ Streaming(flow, tunnel, heard) /\ Calling(flow, tunnel)
  BY DEF TlsIInv, Sound
<1>2. IsData(tunnel.got \o (IF flow.handed = <<"error">> THEN <<>> ELSE flow.handed) \o flow.plain,
             flow.used)
  <2> DEFINE a == tunnel.got
             b == IF flow.handed = <<"error">> THEN <<>> ELSE flow.handed
             c == flow.plain
  <2>1. a \in Seq(Data) /\ b \in Seq(Data) /\ c \in Seq(Data)
    BY <1>1, EmptySeq DEF TlsFlow, Owner
  <2>2. IsData(a \o (b \o c), flow.used)
    BY <1>1 DEF Streaming, Inward
  <2> HIDE DEF a, b, c
  <2>3. (a \o b) \o c = a \o (b \o c)
    BY <2>1, ConcatAssociative
  <2>4. IsData((a \o b) \o c, flow.used)
    BY <2>2, <2>3
  <2> QED
    BY <2>4 DEF a, b, c
<1>3. Sent = heard \o Outward(flow)
  <2> DEFINE a == flow.next
             b == flow.out
             c == flow.bio
  <2>1. a \in Seq(Message) /\ b \in Seq(Message) /\ c \in Seq(Message)
    BY <1>1 DEF TlsFlow
  <2>2. Sent = ((heard \o a) \o b) \o c /\ heard \o Outward(flow) = heard \o ((a \o b) \o c)
    BY DEF Sent, Outward
  <2> HIDE DEF a, b, c
  <2>3. a \o b \in Seq(Message)
    BY <2>1, ConcatProperties
  <2>4. (heard \o a) \o b = heard \o (a \o b)
    BY <1>1, <2>1, ConcatAssociative
  <2>5. (heard \o (a \o b)) \o c = heard \o ((a \o b) \o c)
    BY <1>1, <2>1, <2>3, ConcatAssociative, SMTT(20)
  <2> QED
    BY <2>2, <2>4, <2>5
<1>4. Sent = SubSeq(<<"hello", "finished">> \o Chunks, 1, Len(Sent))
  BY <1>1, <1>3 DEF Streaming, Begins, AllSent
<1>5. ~flow.stuck /\ tunnel.writes > 0 => Len(Sent) = 2 + tunnel.writes
  <2>1. ASSUME ~flow.stuck, tunnel.writes > 0 PROVE Len(Sent) = 2 + tunnel.writes
    <3>1. tunnel.writes # 0
      BY <2>1
    <3>2. flow.answer = "ok"
      BY <1>1, <3>1 DEF Calling
    <3>3. Count(flow, tunnel) = 2 + tunnel.writes
      BY <3>2 DEF Count
    <3> QED
      BY <1>1, <1>3, <2>1, <3>2, <3>3 DEF Streaming
  <2> QED
    BY <2>1
<1>6. ASSUME flow.alive, tunnel.read \in {"reading", "ended"}, flow.plain # <<>>
      PROVE  flow.err /\ flow.handed = <<"error">>
  <2>1. flow.answer = "ok"
    <3>1. flow.answer \in {"none", "due", "ok", "error"}
      BY <1>1 DEF TlsFlow
    <3> QED
      BY <1>6, <3>1 DEF TlsIInv, Sound, Stage, Calling, NewTls
  <2>2. Settled(flow) /\ Ready(flow) /\ Machine(flow) /\ Below(flow) /\ Waits(flow)
    BY <1>6, <2>1 DEF TlsIInv, Sound, Stage, Settled, Ready
  <2>3. ~flow.reported
    BY <1>6, <2>2 DEF Waits
  <2>4. flow.rd = "due" \/ flow.postR = "waiting"
    BY <1>1, <1>6, <2>3 DEF Calling
  <2>5. flow.rd # "due"
    BY <1>6, <2>2, <2>3 DEF Settled, Below
  <2> QED
    BY <1>6, <2>2, <2>4, <2>5 DEF Waits
<1> QED
  BY <1>2, <1>4, <1>5, <1>6 DEF StreamsIntact

-----------------------------------------------------------------------------
(* The theorems. *)

\* Whatever the socket, the server, the tunnel and OpenSSL do, the flow stays
\* between callbacks in one of the stages of TlsIInv: every exit of HandShake and
\* of Process leaves a callback of the socket under way, a handler of the tunnel
\* posted, or nothing that is due.
THEOREM TlsInductive == Spec => []TlsIInv
  BY InitInductive, StepInductive, PTL DEF Spec

\* While it connects the flow waits for exactly one callback of the socket; later
\* a call of Read or Write waits for the socket or has its handler posted until an
\* error is reported; after ~TlsDataFlow no callback runs; HandShake leaves only
\* the Finished of TLS 1.3 in the BIO; and no assertion of the code fails but the
\* two that OtherAssertionsHold names.
THEOREM TlsSafe == Spec => []TlsInv
  BY TlsInductive, TlsImplied, PTL

\* What Process hands to the tunnel is the data of the records OpenSSL has taken,
\* in their order, none twice and none left out, and what FlushCipherBuffer and
\* TryWriteNextHop bring to the server is what OpenSSL has emitted, in its order:
\* for any records, cut up in any way, and any chunks.  No plain text waits while
\* the socket is read, but what ReadPlainTextData hands an error in place of.
THEOREM StreamsAreIntact == Spec => []StreamsIntact
  BY TlsInductive, StreamsImplied, PTL
=============================================================================
