---------------------------- MODULE TunnelProofs ----------------------------
(***************************************************************************)
(* Theorems about Tunnel, for every bound on the data the peers send.      *)
(***************************************************************************)
EXTENDS TunnelInv, TcpSocketProofs

-----------------------------------------------------------------------------
(* Types. *)

LEMMA OtherType == \A s \in Sides : Other(s) \in Sides /\ Other(Other(s)) = s
  BY DEF Sides, Other

\* The initial state has its types.
LEMMA InitType == Init => TypeOK
<1> SUFFICES ASSUME Init PROVE TypeOK
  OBVIOUS
<1>1. sock \in [Sides -> Socket]
  BY NewSocketType DEF Init, Types
<1>2. hasRemote \in BOOLEAN /\ asserted \in BOOLEAN
  BY Zenon DEF Init
<1>3. 0 \in 0 .. MaxChunks
  BY MaxChunksAssumption
<1>4. /\ sent \in [Sides -> 0 .. MaxChunks]
      /\ got \in [Sides -> 0 .. MaxChunks]
      /\ recv \in [Sides -> 0 .. MaxChunks]
  BY <1>3 DEF Init
<1>5. /\ status \in {"new", "alive", "finished", "aborted"}
      /\ rule \in CallbackStates
      /\ timer \in {"armed", "off"}
      /\ expiry \in SUBSET {"live", "stale"}
      /\ fin \in SUBSET Sides /\ finTo \in SUBSET Sides
  BY DEF Init, CallbackStates
<1> QED
  BY <1>1, <1>2, <1>4, <1>5 DEF TypeOK

\* Releasing and keeping on preserve types, whatever sockets they are given.
LEMMA HelperType ==
  ASSUME TypeOK, NEW ss \in [Sides -> Socket],
         NEW how \in {"finished", "aborted"}, 
         Release(how, ss) \/ KeepOn(ss) \/ CheckTunnelStatus(ss)
  PROVE  /\ status' \in {"new", "alive", "finished", "aborted"}
         /\ sock' \in [Sides -> Socket]
         /\ hasRemote' \in BOOLEAN
         /\ rule' \in CallbackStates
         /\ timer' \in {"armed", "off"}
         /\ expiry' \in SUBSET {"live", "stale"}
<1>1. Stale(expiry) \in SUBSET {"live", "stale"}
  BY DEF Stale
<1>2. ASSUME NEW h \in {"finished", "aborted"}, Release(h, ss)
      PROVE  /\ status' \in {"new", "alive", "finished", "aborted"}
             /\ sock' \in [Sides -> Socket]
             /\ hasRemote' \in BOOLEAN
             /\ rule' \in CallbackStates
             /\ timer' \in {"armed", "off"}
             /\ expiry' \in SUBSET {"live", "stale"}
  <2>1. sock' \in [Sides -> Socket]
    BY <1>2, SocketType DEF Release
  <2> QED
    BY <1>1, <1>2, <2>1 DEF TypeOK, Release, CancelRule, CallbackStates
<1>3. CASE KeepOn(ss)
  BY <1>1, <1>3 DEF TypeOK, KeepOn, ResetTimer
<1>4. CASE Release(how, ss)
  BY <1>2, <1>4
<1>5. CASE CheckTunnelStatus(ss)
  BY <1>2, <1>3, <1>5 DEF CheckTunnelStatus
<1> QED
  BY <1>3, <1>4, <1>5

\* What TypeOK says of the tunnel's own variables, and of the data.
TunnelType == /\ status \in {"new", "alive", "finished", "aborted"}
              /\ sock \in [Sides -> Socket]
              /\ hasRemote \in BOOLEAN
              /\ rule \in CallbackStates
              /\ timer \in {"armed", "off"}
              /\ expiry \in SUBSET {"live", "stale"}

DataType == /\ sent \in [Sides -> 0 .. MaxChunks]
            /\ got \in [Sides -> 0 .. MaxChunks]
            /\ recv \in [Sides -> 0 .. MaxChunks]
            /\ fin \in SUBSET Sides
            /\ finTo \in SUBSET Sides

LEMMA TypeSplit == TypeOK <=> TunnelType /\ DataType /\ asserted \in BOOLEAN
  BY DEF TypeOK, TunnelType, DataType

LEMMA AssertType ==
  ASSUME asserted \in BOOLEAN, NEW holds, Assert(holds) \/ UNCHANGED asserted
  PROVE  asserted' \in BOOLEAN
  BY Zenon DEF Assert

LEMMA SideTypes ==
  ASSUME sock \in [Sides -> Socket], NEW s \in Sides
  PROVE  sock[s] \in Socket /\ sock[Other(s)] \in Socket
  BY OtherType

\* The sockets of a step that calls or runs callbacks are sockets.
LEMMA UpdateType ==
  ASSUME NEW ss \in [Sides -> Socket], NEW s \in Sides, NEW x \in Socket
  PROVE  [ss EXCEPT ![s] = x] \in [Sides -> Socket]
  OBVIOUS

\* Setting the tunnel up preserves the types of the tunnel's variables.
LEMMA SetupType ==
  ASSUME TypeOK, Setup
  PROVE  TunnelType' /\ UNCHANGED dataVars
<1> USE TypeSplit
<1>0. sock["local"] \in Socket /\ sock["remote"] \in Socket
  BY DEF TunnelType, Sides
<1>a. Stale(expiry) \in SUBSET {"live", "stale"}
  BY DEF Stale
<1>b. NewSocket("Remote") \in Socket /\ Connect(NewSocket("Remote")) \in Socket
  BY NewSocketType, SocketType DEF Types
<1>1. CASE BuildAndOpen
  <2>1. sock' \in [Sides -> Socket]
    BY <1>0, <1>1, SocketType, UpdateType DEF BuildAndOpen, TunnelType, Sides
  <2> QED
    BY <1>1, <1>a, <2>1 DEF BuildAndOpen, TunnelType, ResetTimer
<1>2. CASE Opened
  <2>1. sock' \in [Sides -> Socket]
    BY <1>0, <1>2, SocketType, UpdateType DEF Opened, TunnelType, Sides
  <2> QED
    BY <1>2, <1>a, <2>1 DEF Opened, TunnelType, ResetTimer, CallbackStates
<1>3. CASE Matched
  <2>1. sock' \in [Sides -> Socket]
    BY <1>0, <1>3, <1>b, SocketType, UpdateType DEF Matched, TunnelType, Sides
  <2>2. hasRemote' \in BOOLEAN
    BY <1>3 DEF Matched
  <2> QED
    BY <1>3, <1>a, <2>1, <2>2 DEF Matched, TunnelType, ResetTimer, CallbackStates
<1>4. CASE MatchFailed
  <2>1. sock' \in [Sides -> Socket]
    BY <1>4, SocketType DEF MatchFailed, TunnelType
  <2> QED
    BY <1>4, <1>a, <2>1 DEF MatchFailed, TunnelType, CallbackStates
<1>5. CASE ConnectedToRemote
  <2>1. [sock EXCEPT !["remote"] = ConnectDone(@), !["local"] = Continue(@)]
          \in [Sides -> Socket]
    BY <1>0, SocketType, UpdateType DEF TunnelType, Sides
  <2> QED
    BY <1>5, <2>1, HelperType DEF ConnectedToRemote, TunnelType
<1>6. CASE ConnectToRemoteFailed
  <2>1. [sock EXCEPT !["remote"] = ConnectFailed(@)] \in [Sides -> Socket]
    BY <1>0, SocketType, UpdateType DEF TunnelType, Sides
  <2> QED
    BY <1>6, <2>1, HelperType DEF ConnectToRemoteFailed, TunnelType
<1>7. ASSUME NEW op \in {"Open", "Continue"}, NegotiationFailed(op)
      PROVE  TunnelType' /\ UNCHANGED dataVars
  <2>1. Errored(sock["local"].fsm) \in Flow
    BY <1>0, FlowType DEF Socket
  <2>2. Return(sock["local"], Errored(sock["local"].fsm), op) \in Socket
    BY <1>0, <2>1, CallbackType DEF Ops
  <2>3. [sock EXCEPT !["local"] = Return(@, Errored(@.fsm), op)]
          \in [Sides -> Socket]
    BY <2>2, UpdateType DEF TunnelType, Sides
  <2> QED
    BY <1>7, <2>3, HelperType DEF NegotiationFailed, TunnelType
<1>8. CASE Continued
  <2> DEFINE ready == [sock EXCEPT !["local"] = ContinueDone(@)]
  <2>1. ready \in [Sides -> Socket]
    BY <1>0, SocketType, UpdateType DEF TunnelType, Sides
  <2>2. Forward(ready, "local") \in [Sides -> Socket]
    BY <2>1, SocketType, UpdateType DEF Forward, Sides
  <2>3. Forward(Forward(ready, "local"), "remote") \in [Sides -> Socket]
    BY <2>2, SocketType, UpdateType DEF Forward, Sides
  <2> QED
    BY <1>8, <2>3, HelperType DEF Continued, TunnelType
<1> QED
  BY <1>1, <1>2, <1>3, <1>4, <1>5, <1>6, <1>7, <1>8 DEF Setup

\* Forwarding preserves the types of the tunnel's variables and of the data.
LEMMA ForwardingType ==
  ASSUME TypeOK, NEW s \in Sides, Forwarding(s)
  PROVE  TunnelType' /\ DataType'
<1> USE TypeSplit
<1>0. /\ sock \in [Sides -> Socket]
      /\ sock[s] \in Socket /\ sock[Other(s)] \in Socket
      /\ Other(s) \in Sides
  BY SideTypes, OtherType DEF TunnelType
<1>1. CASE ReadSome(s)
  <2>1. [sock EXCEPT ![s] = ReadDone(@), ![Other(s)] = Write(@)]
          \in [Sides -> Socket]
    <3>1. ReadDone(sock[s]) \in Socket
      BY <1>0, SocketType
    <3>2. Write(sock[Other(s)]) \in Socket
      BY <1>0, SocketType
    <3> QED
      BY <1>0, <3>1, <3>2
  <2>2. got' \in [Sides -> 0 .. MaxChunks]
    <3>1. PICK n \in 1 .. MaxChunks : got[s] + n <= sent[s]
                                     /\ got' = [got EXCEPT ![s] = @ + n]
      BY <1>1 DEF ReadSome
    <3>2. got[s] + n \in 0 .. MaxChunks
      BY <3>1, MaxChunksAssumption DEF DataType
    <3> QED
      BY <3>1, <3>2 DEF DataType
  <2>3. TunnelType'
    BY <1>1, <2>1, HelperType DEF ReadSome, TunnelType
  <2> QED
    BY <1>1, <2>2, <2>3 DEF ReadSome, DataType
<1>2. CASE ReadEnded(s)
  <2> DEFINE ss == [sock EXCEPT ![s] = ReadEof(@)]
  <2>1. ss \in [Sides -> Socket]
    BY <1>0, SocketType, UpdateType
  <2>2. [ss EXCEPT ![Other(s)] = CloseWrite(@)] \in [Sides -> Socket]
    <3>1. ss[Other(s)] \in Socket
      BY <1>0, <2>1
    <3>2. CloseWrite(ss[Other(s)]) \in Socket
      BY <3>1, SocketType
    <3> QED
      BY <1>0, <2>1, <3>2, UpdateType
  <2>3. \/ KeepOn([ss EXCEPT ![Other(s)] = CloseWrite(@)])
        \/ CheckTunnelStatus(ss)
    BY <1>2 DEF ReadEnded
  <2>4. TunnelType'
    BY <2>1, <2>2, <2>3, HelperType DEF TunnelType
  <2>5. finTo' = finTo \cup {Other(s)} \/ UNCHANGED finTo
    BY <1>2 DEF ReadEnded
  <2> QED
    BY <1>0, <1>2, <2>4, <2>5 DEF ReadEnded, DataType
<1>3. CASE ReadBroke(s)
  <2>1. [sock EXCEPT ![s] = ReadFailed(@)] \in [Sides -> Socket]
    BY <1>0, SocketType, UpdateType
  <2> QED
    BY <1>3, <2>1, HelperType DEF ReadBroke, TunnelType, DataType, dataVars
<1>4. CASE Written(s)
  <2> DEFINE ss == [sock EXCEPT ![s] = WriteDone(@)]
  <2>1. ss \in [Sides -> Socket]
    BY <1>0, SocketType, UpdateType
  <2>2. Forward(ss, Other(s)) \in [Sides -> Socket]
    <3>1. Read(ss[Other(s)]) \in Socket
      BY <1>0, <2>1, SocketType
    <3> QED
      BY <1>0, <2>1, <3>1, UpdateType DEF Forward
  <2> QED
    BY <1>4, <2>2, HelperType DEF Written, TunnelType, DataType, dataVars
<1>5. CASE WriteBroke(s)
  <2>1. [sock EXCEPT ![s] = WriteFailed(@)] \in [Sides -> Socket]
    BY <1>0, SocketType, UpdateType
  <2> QED
    BY <1>5, <2>1, HelperType DEF WriteBroke, TunnelType, DataType, dataVars
<1>6. CASE WriteClosed(s)
  <2>1. [sock EXCEPT ![s] = CloseWriteDone(@)] \in [Sides -> Socket]
    BY <1>0, SocketType, UpdateType
  <2> QED
    BY <1>6, <2>1, HelperType DEF WriteClosed, TunnelType, DataType, dataVars
<1> QED
  BY <1>1, <1>2, <1>3, <1>4, <1>5, <1>6 DEF Forwarding

\* So does every way of shutting the tunnel down.
LEMMA ShutdownType ==
  ASSUME TypeOK, Shutdown
  PROVE  TunnelType' /\ UNCHANGED dataVars
<1> USE TypeSplit
<1>a. Stale(expiry) \in SUBSET {"live", "stale"}
  BY DEF Stale
<1>b. [s \in Sides |-> Destroy(sock[s])] \in [Sides -> Socket]
  BY SocketType DEF TunnelType
<1>1. CASE TimerExpires
  BY <1>1 DEF TimerExpires, TunnelType
<1>2. CASE TimedOut
  BY <1>2, <1>b DEF TimedOut, TunnelType, CancelRule, CallbackStates
<1>3. CASE CloseAll
  BY <1>3, HelperType DEF CloseAll, TunnelType
<1>4. CASE DropRuleCallback
  BY <1>4 DEF DropRuleCallback, TunnelType, CallbackStates
<1>5. CASE DropExpiry
  BY <1>5 DEF DropExpiry, TunnelType
<1>6. ASSUME NEW s \in Sides, NEW op \in Ops, DropSocketCallback(s, op)
      PROVE  TunnelType' /\ UNCHANGED dataVars
  <2>1. sock[s] \in Socket /\ sock[s].fsm \in Flow
    BY DEF TunnelType, Socket
  <2>2. Return(sock[s], sock[s].fsm, op) \in Socket
    BY <2>1, CallbackType
  <2> QED
    BY <1>6, <2>2 DEF DropSocketCallback, TunnelType
<1> QED
  BY <1>1, <1>2, <1>3, <1>4, <1>5, <1>6 DEF Shutdown

\* The peers and the kernel only change the data.
LEMMA EnvironmentType ==
  ASSUME TypeOK, NEW s \in Sides, Environment(s)
  PROVE  UNCHANGED tunnelVars /\ DataType'
<1> USE TypeSplit
<1>1. CASE PeerSends(s)
  <2>1. sent[s] + 1 \in 0 .. MaxChunks
    BY <1>1, MaxChunksAssumption DEF PeerSends, DataType
  <2> QED
    BY <1>1, <2>1 DEF PeerSends, DataType
<1>2. CASE PeerCloses(s)
  BY <1>2 DEF PeerCloses, DataType
<1>3. CASE KernelTakes(s)
  <2>1. recv[s] + 1 \in 0 .. MaxChunks
    BY <1>3, OtherType, MaxChunksAssumption DEF KernelTakes, DataType
  <2> QED
    BY <1>3, <2>1 DEF KernelTakes, DataType
<1> QED
  BY <1>1, <1>2, <1>3 DEF Environment

\* Every step keeps every variable in its type.
LEMMA TypeStep == TypeOK /\ [Next]_vars => TypeOK'
<1> SUFFICES ASSUME TypeOK, [Next]_vars PROVE TypeOK'
  OBVIOUS
<1>0. TunnelType /\ DataType /\ asserted \in BOOLEAN
  BY TypeSplit
<1>1. asserted' \in BOOLEAN
  BY <1>0, AssertType, Zenon
     DEF Next, Setup, Shutdown, Done, Forwarding, Environment, BuildAndOpen,
         Opened, Matched, MatchFailed, ConnectedToRemote,
         ConnectToRemoteFailed, NegotiationFailed, Continued, ReadSome,
         ReadEnded, ReadBroke, Written, WriteBroke, WriteClosed,
         TimerExpires, TimedOut, CloseAll, DropSocketCallback,
         DropRuleCallback, DropExpiry, PeerSends, PeerCloses, KernelTakes,
         vars, tunnelVars
<1>2. TunnelType' /\ DataType'
  <2>1. CASE Setup
    BY <1>0, <2>1, SetupType DEF DataType, dataVars
  <2>2. CASE Shutdown
    BY <1>0, <2>2, ShutdownType DEF DataType, dataVars
  <2>3. ASSUME NEW s \in Sides, Forwarding(s)
        PROVE  TunnelType' /\ DataType'
    BY <2>3, ForwardingType
  <2>4. ASSUME NEW s \in Sides, Environment(s)
        PROVE  TunnelType' /\ DataType'
    BY <1>0, <2>4, EnvironmentType DEF TunnelType, tunnelVars
  <2>5. CASE UNCHANGED vars
    BY <1>0, <2>5 DEF vars, tunnelVars, dataVars, TunnelType, DataType
  <2> QED
    BY <2>1, <2>2, <2>3, <2>4, <2>5 DEF Next, Done
<1> QED
  BY <1>1, <1>2 DEF TypeOK, TunnelType, DataType

\* Every variable keeps its type (the type invariant of the tunnel).
THEOREM TypeCorrect == Spec => []TypeOK
<1> QED
  BY InitType, TypeStep, PTL DEF Spec

-----------------------------------------------------------------------------
(* The inductive invariant.  SafetyPart is what it says besides types and  *)
(* the record of the assertions.                                           *)

SafetyPart == /\ StageInv
              /\ status = "finished" => finTo = Sides
              /\ NoCallbackOutlivesTunnel
              /\ HalfCloseAfterData
              /\ TimerGuards
              /\ TimerStops

LEMMA IInvSplit == IInv <=> TypeOK /\ asserted /\ SafetyPart
  BY DEF IInv, SafetyPart

\* The tunnel exists when one of its callbacks is due.
LEMMA DueMeansAlive ==
  ASSUME TypeOK, SafetyPart,
         \/ \E s \in Sides, op \in Ops : sock[s].cb[op] = "waiting"
         \/ rule = "waiting"
  PROVE  status = "alive"
<1>1. CASE New
  <2>1. /\ \A op \in Ops : sock["local"].cb[op] = "none"
        /\ \A op \in Ops : sock["remote"].cb[op] = "none"
        /\ rule = "none"
    BY <1>1 DEF New, At, L, Rm, Ops
  <2> QED
    BY <2>1 DEF Sides
<1>2. CASE Released
  BY <1>2 DEF SafetyPart, NoCallbackOutlivesTunnel, Released
<1> QED
  BY <1>1, <1>2 DEF SafetyPart, StageInv

LEMMA NothingLive == "live" \notin Stale(expiry)
  BY DEF Stale

\* Releasing the tunnel silences every callback and leaves the data alone.
LEMMA ReleaseKeeps ==
  ASSUME TypeOK, SafetyPart, NEW ss \in [Sides -> Socket],
         NEW how \in {"finished", "aborted"},
         how = "finished" => finTo = Sides,
         Release(how, ss), UNCHANGED dataVars
  PROVE  SafetyPart'
<1>1. \A s \in Sides, op \in Ops : sock'[s].cb[op] # "waiting"
  BY DestroySilences DEF Release
<1>2. rule' # "waiting"
  BY DEF Release, CancelRule
<1>3. NoCallbackOutlivesTunnel'
  BY <1>1, <1>2, NothingLive DEF NoCallbackOutlivesTunnel, Release
<1>4. HalfCloseAfterData'
  BY DEF SafetyPart, HalfCloseAfterData, dataVars
<1>5. status' = how
  BY DEF Release
<1> QED
  BY <1>3, <1>4, <1>5
     DEF SafetyPart, StageInv, Released, TimerGuards, TimerStops, dataVars, Release

\* What a step that does not release the tunnel does to the timer.
TimerStep == \/ ResetTimer
             \/ /\ status = "alive" /\ TimerGuards
                /\ \/ UNCHANGED <<timer, expiry>>
                   \/ TimerExpires
                   \/ DropExpiry /\ UNCHANGED timer

\* A tunnel that lives on keeps the invariant if it is in a proper stage.
LEMMA AliveKeeps ==
  ASSUME status' = "alive", TimerStep, (Preparing \/ Running)',
         HalfCloseAfterData'
  PROVE  SafetyPart'
<1>1. TimerGuards'
  BY NothingLive DEF TimerStep, ResetTimer, TimerGuards, TimerExpires, DropExpiry
<1> QED
  BY <1>1 DEF SafetyPart, StageInv, NoCallbackOutlivesTunnel, TimerStops

LEMMA UntouchedKeeps ==
  ASSUME Untouched, UNCHANGED dataVars
  PROVE  Untouched' /\ HalfCloseAfterData'
  BY DEF Untouched, HalfCloseAfterData, dataVars

\* Each step of the negotiation leads to the next stage.
LEMMA BuildAndOpenStep ==
  ASSUME TypeOK, SafetyPart, BuildAndOpen
  PROVE  SafetyPart' /\ CanConnectBegin(sock["local"].fsm)
<1>1. New
  BY DEF SafetyPart, StageInv, BuildAndOpen, Released
<1>2. sock["local"] \in Socket /\ sock["remote"] \in Socket
  BY DEF TypeOK, Sides
<1>3. At(Open(sock["local"]), "Establishing", "Open")
  BY <1>1, <1>2 DEF New, L, At, Open, Call, ConnectBegin, Socket, Flow, Ops
<1>4. Preparing'
  BY <1>1, <1>2, <1>3, UntouchedKeeps
     DEF BuildAndOpen, New, Preparing, L, Rm, TypeOK, Sides
<1> QED
  BY <1>1, <1>4, UntouchedKeeps, AliveKeeps
     DEF BuildAndOpen, New, L, At, CanConnectBegin, TimerStep

LEMMA OpenedStep ==
  ASSUME TypeOK, SafetyPart, Opened
  PROVE  SafetyPart'
<1>1. sock["local"] \in Socket /\ sock["remote"] \in Socket
  BY DEF TypeOK, Sides
<1>2. status = "alive"
  BY DueMeansAlive DEF Opened, Sides, Ops
<1>3. Untouched /\ ~hasRemote
      /\ At(L, "Establishing", "Open") /\ At(Rm, "Init", "-")
  BY <1>2 DEF SafetyPart, StageInv, New, Released, Preparing, Running, At, InUse,
              Opened, L, Sides, Ops
<1>4. At(OpenDone(sock["local"]), "Establishing", "-")
  BY <1>1, <1>3 DEF L, At, OpenDone, Return, Socket, Flow, Ops
<1>5. Preparing'
  BY <1>1, <1>3, <1>4, UntouchedKeeps DEF Opened, Preparing, L, Rm, TypeOK, Sides
<1> QED
  BY <1>2, <1>3, <1>5, UntouchedKeeps, AliveKeeps DEF Opened, TimerStep

\* Which stage a callback of the negotiation finds the tunnel in.
LEMMA StageOfRule ==
  ASSUME TypeOK, SafetyPart, rule = "waiting"
  PROVE  /\ status = "alive" /\ Untouched /\ ~hasRemote
         /\ At(L, "Establishing", "-") /\ At(Rm, "Init", "-")
<1>1. status = "alive"
  BY DueMeansAlive
<1> QED
  BY <1>1 DEF SafetyPart, StageInv, New, Released, Preparing, Running

LEMMA StageOfConnect ==
  ASSUME TypeOK, SafetyPart, sock["remote"].cb["Connect"] = "waiting"
  PROVE  /\ status = "alive" /\ Untouched /\ hasRemote /\ rule = "none"
         /\ At(L, "Establishing", "-") /\ At(Rm, "Establishing", "Connect")
<1>1. status = "alive"
  BY DueMeansAlive DEF Sides, Ops
<1>2. ~Running
  BY DEF Running, InUse, Sides
<1> QED
  BY <1>1, <1>2 DEF SafetyPart, StageInv, New, Released, Preparing, At, Rm, Ops

LEMMA StageOfContinue ==
  ASSUME TypeOK, SafetyPart, sock["local"].cb["Continue"] = "waiting"
  PROVE  /\ status = "alive" /\ Untouched /\ hasRemote /\ rule = "none"
         /\ At(L, "Establishing", "Continue") /\ At(Rm, "Established", "-")
<1>1. status = "alive"
  BY DueMeansAlive DEF Sides, Ops
<1>2. ~Running
  BY DEF Running, InUse, Sides
<1> QED
  BY <1>1, <1>2 DEF SafetyPart, StageInv, New, Released, Preparing, At, L, Ops

LEMMA MatchedStep ==
  ASSUME TypeOK, SafetyPart, Matched
  PROVE  SafetyPart' /\ CanConnectBegin(NewSocket("Remote").fsm)
<1>1. /\ status = "alive" /\ Untouched
      /\ At(L, "Establishing", "-")
  BY StageOfRule DEF Matched
<1>2. At(Connect(NewSocket("Remote")), "Establishing", "Connect")
  BY DEF At, Connect, Call, ConnectBegin, NewSocket, NewFlow, Ops
<1>3. Preparing'
  BY <1>1, <1>2, UntouchedKeeps DEF Matched, Preparing, L, Rm, TypeOK, Sides
<1>4. CanConnectBegin(NewSocket("Remote").fsm)
  BY DEF CanConnectBegin, NewSocket, NewFlow
<1> QED
  BY <1>1, <1>3, <1>4, UntouchedKeeps, AliveKeeps DEF Matched, TimerStep

LEMMA MatchFailedStep ==
  ASSUME TypeOK, SafetyPart, MatchFailed
  PROVE  SafetyPart'
<1>1. \A s \in Sides, op \in Ops : sock'[s].cb[op] # "waiting"
  BY DestroySilences DEF MatchFailed, TypeOK
<1>2. NoCallbackOutlivesTunnel'
  BY <1>1, NothingLive DEF NoCallbackOutlivesTunnel, MatchFailed
<1>3. HalfCloseAfterData'
  BY DEF SafetyPart, HalfCloseAfterData, dataVars, MatchFailed
<1> QED
  BY <1>2, <1>3 DEF SafetyPart, StageInv, Released, TimerGuards, TimerStops, MatchFailed

LEMMA ConnectedToRemoteStep ==
  ASSUME TypeOK, SafetyPart, ConnectedToRemote
  PROVE  SafetyPart' /\ CanConnectDone(sock["remote"])
<1>1. /\ status = "alive" /\ Untouched /\ hasRemote /\ rule = "none"
      /\ At(L, "Establishing", "-") /\ At(Rm, "Establishing", "Connect")
  BY StageOfConnect DEF ConnectedToRemote
<1>2. sock["local"] \in Socket /\ sock["remote"] \in Socket
  BY DEF TypeOK, Sides
<1>3. At(ConnectDone(sock["remote"]), "Established", "-")
  BY <1>1, <1>2 DEF Rm, At, ConnectDone, Return, Connected, Socket, Flow, Ops
<1>4. At(Continue(sock["local"]), "Establishing", "Continue")
  BY <1>1, <1>2 DEF L, At, Continue, Call, Socket, Flow, Ops
<1>5. Preparing'
  BY <1>1, <1>2, <1>3, <1>4, UntouchedKeeps
     DEF ConnectedToRemote, KeepOn, Preparing, L, Rm, TypeOK, Sides
<1>6. CanConnectDone(sock["remote"])
  BY <1>1 DEF CanConnectDone, CanConnected, At, Rm
<1> QED
  BY <1>1, <1>5, <1>6, UntouchedKeeps, AliveKeeps
     DEF ConnectedToRemote, KeepOn, TimerStep

LEMMA NegotiationFailedStep ==
  ASSUME TypeOK, SafetyPart,
         \/ ConnectToRemoteFailed
         \/ \E op \in {"Open", "Continue"} : NegotiationFailed(op)
  PROVE  SafetyPart'
<1>0. /\ sock \in [Sides -> Socket]
      /\ sock["local"] \in Socket /\ sock["remote"] \in Socket
      /\ sock["local"].fsm \in Flow
  BY DEF TypeOK, Sides, Socket
<1>1. CASE ConnectToRemoteFailed
  <2>1. [sock EXCEPT !["remote"] = ConnectFailed(@)] \in [Sides -> Socket]
    BY <1>0, SocketType, UpdateType DEF Sides
  <2> QED
    BY <1>1, <2>1, ReleaseKeeps DEF ConnectToRemoteFailed
<1>2. ASSUME NEW op \in {"Open", "Continue"}, NegotiationFailed(op)
      PROVE  SafetyPart'
  <2>1. Return(sock["local"], Errored(sock["local"].fsm), op) \in Socket
    BY <1>0, FlowType, CallbackType DEF Ops
  <2>2. [sock EXCEPT !["local"] = Return(@, Errored(@.fsm), op)]
          \in [Sides -> Socket]
    BY <1>0, <2>1, UpdateType DEF Sides
  <2> QED
    BY <1>2, <2>2, ReleaseKeeps DEF NegotiationFailed
<1> QED
  BY <1>1, <1>2

LEMMA ContinuedStep ==
  ASSUME TypeOK, SafetyPart, Continued
  PROVE  LET ready == [sock EXCEPT !["local"] = ContinueDone(@)]
         IN /\ SafetyPart'
            /\ CanContinueDone(sock["local"])
            /\ CanForward(ready, "local")
            /\ CanForward(Forward(ready, "local"), "remote")
<1> DEFINE ready == [sock EXCEPT !["local"] = ContinueDone(@)]
           first == Forward(ready, "local")
           both  == Forward(first, "remote")
           x     == ContinueDone(sock["local"])
           y     == sock["remote"]
<1>1. /\ status = "alive" /\ Untouched /\ hasRemote /\ rule = "none"
      /\ At(L, "Establishing", "Continue") /\ At(Rm, "Established", "-")
  BY StageOfContinue DEF Continued
<1>2. sock["local"] \in Socket /\ y \in Socket /\ x \in Socket
  BY SocketType DEF TypeOK, Sides
<1>3. /\ InUse(x) /\ x.fsm.state = "Established"
      /\ ~x.fsm.reading /\ ~x.fsm.writing /\ ~x.fsm.read_closed
      /\ ~x.fsm.write_closing /\ ~x.fsm.write_closed
  BY <1>1, <1>2 DEF L, At, InUse, ContinueDone, Return, Connected, Socket,
                    Flow, Ops
<1>4. /\ InUse(y) /\ y.fsm.state = "Established"
      /\ ~y.fsm.reading /\ ~y.fsm.writing /\ ~y.fsm.read_closed
      /\ ~y.fsm.write_closing /\ ~y.fsm.write_closed
  BY <1>1, <1>2 DEF Rm, At, InUse, Ops
<1>5. /\ ready["local"] = x /\ ready["remote"] = y
      /\ first["local"] = Read(x) /\ first["remote"] = y
      /\ both["local"] = Read(x) /\ both["remote"] = Read(y)
  BY DEF TypeOK, Sides, Forward
<1>6. /\ IsReadable(x.fsm) /\ InUse(Read(x))
      /\ Read(x).fsm = [x.fsm EXCEPT !.reading = TRUE]
  BY <1>2, <1>3, ReadUses
<1>7. /\ IsReadable(y.fsm) /\ InUse(Read(y))
      /\ Read(y).fsm = [y.fsm EXCEPT !.reading = TRUE]
  BY <1>2, <1>4, ReadUses
<1>8. IsWritable(y.fsm) /\ IsWritable(Read(x).fsm)
  BY <1>2, <1>3, <1>4, <1>6 DEF IsWritable, Usable, Socket, Flow
<1>9. sock' = both /\ UNCHANGED <<status, hasRemote, rule>> /\ ResetTimer
      /\ UNCHANGED dataVars
  BY DEF Continued, KeepOn
<1>10. /\ CanContinueDone(sock["local"])
       /\ CanForward(ready, "local")
       /\ CanForward(first, "remote")
  <2>1. CanContinueDone(sock["local"])
    BY <1>1 DEF L, At, CanContinueDone, CanConnected
  <2>2. CanForward(ready, "local")
    BY <1>3, <1>5, <1>6, <1>8 DEF CanForward, BothClosed, Other
  <2>3. Read(x).fsm.state = "Established"
    BY <1>2, <1>3, <1>6 DEF Socket, Flow
  <2>4. CanForward(first, "remote")
    BY <1>5, <1>7, <1>8, <2>3 DEF CanForward, BothClosed, Other
  <2> QED
    BY <2>1, <2>2, <2>4
<1>11. Running'
  <2>1. /\ sock'["local"] = Read(x) /\ sock'["remote"] = Read(y)
    BY <1>5, <1>9
  <2>2. InUse(sock'["local"]) /\ InUse(sock'["remote"])
    BY <1>6, <1>7, <2>1
  <2>3. /\ Read(x).fsm.reading /\ ~Read(x).fsm.writing
        /\ ~Read(x).fsm.read_closed /\ ~Read(x).fsm.write_closing
        /\ ~Read(x).fsm.write_closed /\ Read(x).fsm.state = "Established"
    BY <1>2, <1>3, <1>6 DEF Socket, Flow
  <2>4. /\ Read(y).fsm.reading /\ ~Read(y).fsm.writing
        /\ ~Read(y).fsm.read_closed /\ ~Read(y).fsm.write_closing
        /\ ~Read(y).fsm.write_closed
    BY <1>2, <1>4, <1>7 DEF Socket, Flow
  <2>5. /\ LoopPlace(sock'["local"], sock'["remote"])
        /\ LoopPlace(sock'["remote"], sock'["local"])
    BY <2>1, <2>3, <2>4 DEF LoopPlace
  <2>6. \A s \in Sides : LoopData(s)'
    BY <1>1, <1>9, <2>1, <2>3, <2>4
       DEF LoopData, Untouched, dataVars, TypeOK, Sides, Other
  <2>7. ~BothClosed(sock)'
    BY <2>1, <2>3 DEF BothClosed
  <2> QED
    BY <1>1, <1>9, <2>2, <2>5, <2>6, <2>7 DEF Running, Sides, Other
<1> QED
  BY <1>1, <1>9, <1>10, <1>11, UntouchedKeeps, AliveKeeps DEF TimerStep

-----------------------------------------------------------------------------
(* Forwarding. *)

LEMMA TwoSides ==
  \A s, t \in Sides : Other(s) # s /\ (t = s \/ t = Other(s))
  BY DEF Sides, Other

LEMMA StageOfForwarding ==
  ASSUME TypeOK, SafetyPart, NEW s \in Sides,
         NEW op \in {"Read", "Write", "CloseWrite"}, sock[s].cb[op] = "waiting"
  PROVE  /\ status = "alive" /\ Running
         /\ sock[s] \in Socket /\ sock[Other(s)] \in Socket
         /\ InUse(sock[s]) /\ InUse(sock[Other(s)])
         /\ LoopPlace(sock[s], sock[Other(s)])
         /\ LoopPlace(sock[Other(s)], sock[s])
         /\ LoopData(s) /\ LoopData(Other(s))
<1>1. status = "alive"
  BY DueMeansAlive DEF Ops
<1>2. ~Preparing
  BY DEF Preparing, At, L, Rm, Sides, Ops
<1>3. Running
  BY <1>1, <1>2 DEF SafetyPart, StageInv, New, Released
<1> QED
  BY <1>1, <1>3, OtherType, SideTypes DEF Running, TypeOK

\* Running is symmetric in the two sides.
LEMMA RunningNext ==
  ASSUME TypeOK', NEW s \in Sides, status' = "alive", TimerStep,
         rule' = "none", hasRemote',
         InUse(sock'[s]), InUse(sock'[Other(s)]),
         LoopPlace(sock'[s], sock'[Other(s)]),
         LoopPlace(sock'[Other(s)], sock'[s]),
         LoopData(s)', LoopData(Other(s))', ~BothClosed(sock')
  PROVE  SafetyPart'
<1>1. \A t \in Sides : /\ InUse(sock'[t])
                       /\ LoopPlace(sock'[t], sock'[Other(t)])
                       /\ LoopData(t)'
  <2> TAKE t \in Sides
  <2>1. CASE t = s
    BY <2>1
  <2>2. CASE t = Other(s)
    BY <2>2, OtherType
  <2> QED
    BY <2>1, <2>2, TwoSides
<1>2. ~BothClosed(sock)'
  BY DEF BothClosed
<1>3. Running'
  BY <1>1, <1>2 DEF Running
<1>4. HalfCloseAfterData'
  <2> SUFFICES ASSUME NEW t \in finTo'
               PROVE  Other(t) \in fin' /\ recv'[t] = sent'[Other(t)]
    BY DEF HalfCloseAfterData
  <2>1. t \in Sides /\ Other(t) \in Sides /\ Other(Other(t)) = t
    BY OtherType DEF TypeOK
  <2>2. LoopData(Other(t))' /\ LoopPlace(sock'[Other(t)], sock'[t])
    BY <1>1, <2>1
  <2>3. /\ (t \in finTo' <=> sock'[Other(t)].fsm.read_closed)
        /\ (~sock'[t].fsm.writing => recv'[t] = got'[Other(t)])
        /\ (sock'[Other(t)].fsm.read_closed =>
               Other(t) \in fin' /\ got'[Other(t)] = sent'[Other(t)])
    BY <2>1, <2>2 DEF LoopData
  <2>4. sock'[Other(t)].fsm.read_closed => ~sock'[t].fsm.writing
    BY <2>2 DEF LoopPlace
  <2> QED
    BY <2>3, <2>4
<1> QED
  BY <1>3, <1>4, AliveKeeps

LEMMA OneOpen ==
  ASSUME hasRemote, NEW s \in Sides, NEW ss, ss[s].fsm.state # "Closed"
  PROVE  ~BothClosed(ss)
  BY DEF BothClosed, Sides

\* Data read are written to the other side.
LEMMA ReadSomeStep ==
  ASSUME TypeOK, TypeOK', SafetyPart, NEW s \in Sides, ReadSome(s)
  PROVE  SafetyPart' /\ CanReadDone(sock[s]) /\ CanWriteBegin(sock[Other(s)].fsm)
<1> DEFINE o == Other(s)
           x == sock[s]
           y == sock[o]
<1>1. /\ status = "alive" /\ Running /\ x \in Socket /\ y \in Socket
      /\ InUse(x) /\ InUse(y) /\ LoopPlace(x, y) /\ LoopPlace(y, x)
      /\ LoopData(s) /\ LoopData(o)
  BY StageOfForwarding DEF ReadSome
<1>2. o \in Sides /\ o # s /\ Other(o) = s
  BY OtherType, TwoSides
<1>3. /\ x.fsm.reading /\ InUse(ReadDone(x))
      /\ ReadDone(x).fsm = [x.fsm EXCEPT !.reading = FALSE]
  BY <1>1, ReadDoneUses DEF ReadSome
<1>4. ~y.fsm.writing /\ ~y.fsm.write_closing /\ ~y.fsm.write_closed
      /\ ~x.fsm.read_closed
  BY <1>1, <1>3 DEF LoopPlace
<1>5. /\ IsWritable(y.fsm) /\ InUse(Write(y))
      /\ Write(y).fsm = [y.fsm EXCEPT !.writing = TRUE]
  BY <1>1, <1>4, WriteUses
<1>6. /\ sock' = [sock EXCEPT ![s] = ReadDone(x), ![o] = Write(y)]
      /\ ResetTimer /\ UNCHANGED <<status, hasRemote, rule, sent, fin, recv, finTo>>
  BY DEF ReadSome, KeepOn
<1>7. sock'[s] = ReadDone(x) /\ sock'[o] = Write(y)
  BY <1>2, <1>6 DEF TypeOK
<1>8. /\ ~sock'[s].fsm.reading /\ sock'[o].fsm.writing
      /\ sock'[s].fsm.state = x.fsm.state
      /\ sock'[s].fsm.writing = x.fsm.writing
      /\ sock'[s].fsm.read_closed = x.fsm.read_closed
      /\ sock'[s].fsm.write_closing = x.fsm.write_closing
      /\ sock'[s].fsm.write_closed = x.fsm.write_closed
      /\ sock'[o].fsm.reading = y.fsm.reading
      /\ sock'[o].fsm.read_closed = y.fsm.read_closed
      /\ sock'[o].fsm.write_closing = y.fsm.write_closing
      /\ sock'[o].fsm.write_closed = y.fsm.write_closed
  BY <1>1, <1>3, <1>5, <1>7 DEF Socket, Flow
<1>9. /\ LoopPlace(sock'[s], sock'[o]) /\ LoopPlace(sock'[o], sock'[s])
  BY <1>1, <1>3, <1>4, <1>8 DEF LoopPlace
<1>10. PICK n \in 1 .. MaxChunks : /\ got[s] + n <= sent[s]
                                  /\ got' = [got EXCEPT ![s] = @ + n]
  BY DEF ReadSome
<1>11. LoopData(s)'
  BY <1>1, <1>2, <1>4, <1>6, <1>8, <1>10, MaxChunksAssumption DEF LoopData, TypeOK
<1>12. LoopData(o)'
  BY <1>1, <1>2, <1>6, <1>8, <1>10 DEF LoopData, TypeOK
<1>13. x.fsm.state # "Closed"
  BY <1>1, <1>4 DEF InUse
<1>14. ~BothClosed(sock') /\ rule' = "none" /\ hasRemote'
  BY <1>1, <1>6, <1>8, <1>13, OneOpen DEF Running, BothClosed, Sides
<1>15. SafetyPart'
  BY <1>1, <1>3, <1>5, <1>6, <1>7, <1>9, <1>11, <1>12, <1>14, RunningNext DEF TimerStep
<1> QED
  BY <1>3, <1>5, <1>15 DEF CanReadDone, CanReadEnd, CanWriteBegin

\* The buffer is written: the loop reads again.
LEMMA WrittenStep ==
  ASSUME TypeOK, TypeOK', SafetyPart, NEW s \in Sides, Written(s)
  PROVE  /\ SafetyPart'
         /\ CanWriteDone(sock[s])
         /\ CanForward([sock EXCEPT ![s] = WriteDone(@)], Other(s))
<1> DEFINE o == Other(s)
           x == sock[s]
           y == sock[o]
           ss == [sock EXCEPT ![s] = WriteDone(@)]
<1>1. /\ status = "alive" /\ Running /\ x \in Socket /\ y \in Socket
      /\ InUse(x) /\ InUse(y) /\ LoopPlace(x, y) /\ LoopPlace(y, x)
      /\ LoopData(s) /\ LoopData(o)
  BY StageOfForwarding DEF Written
<1>2. o \in Sides /\ o # s /\ Other(o) = s
  BY OtherType, TwoSides
<1>3. /\ x.fsm.writing /\ InUse(WriteDone(x)) /\ WriteDone(x) \in Socket
      /\ WriteDone(x).fsm = [x.fsm EXCEPT !.writing = FALSE]
  BY <1>1, WriteDoneUses, SocketType DEF Written
<1>4. /\ ~y.fsm.reading /\ ~y.fsm.read_closed
      /\ ~x.fsm.write_closing /\ ~x.fsm.write_closed
  BY <1>1, <1>3 DEF LoopPlace
<1>5. /\ IsReadable(y.fsm) /\ InUse(Read(y))
      /\ Read(y).fsm = [y.fsm EXCEPT !.reading = TRUE]
  BY <1>1, <1>4, ReadUses
<1>6. /\ ss[s] = WriteDone(x) /\ ss[o] = y
      /\ Forward(ss, o) = [ss EXCEPT ![o] = Read(y)]
  BY <1>2 DEF TypeOK, Forward
<1>7. /\ sock' = Forward(ss, o)
      /\ ResetTimer /\ UNCHANGED <<status, hasRemote, rule, dataVars>>
  BY DEF Written, KeepOn
<1>8. sock'[s] = WriteDone(x) /\ sock'[o] = Read(y)
  BY <1>2, <1>6, <1>7 DEF TypeOK
<1>9. /\ ~sock'[s].fsm.writing /\ sock'[o].fsm.reading
      /\ sock'[o].fsm.state = y.fsm.state
      /\ sock'[s].fsm.reading = x.fsm.reading
      /\ sock'[s].fsm.read_closed = x.fsm.read_closed
      /\ sock'[s].fsm.write_closing = x.fsm.write_closing
      /\ sock'[s].fsm.write_closed = x.fsm.write_closed
      /\ sock'[o].fsm.writing = y.fsm.writing
      /\ sock'[o].fsm.read_closed = y.fsm.read_closed
      /\ sock'[o].fsm.write_closing = y.fsm.write_closing
      /\ sock'[o].fsm.write_closed = y.fsm.write_closed
  BY <1>1, <1>3, <1>5, <1>8 DEF Socket, Flow
<1>10. /\ LoopPlace(sock'[s], sock'[o]) /\ LoopPlace(sock'[o], sock'[s])
  BY <1>1, <1>3, <1>4, <1>9 DEF LoopPlace
<1>11. recv[s] = got[o]
  BY DEF Written
<1>12. LoopData(s)' /\ LoopData(o)'
  BY <1>1, <1>2, <1>7, <1>9, <1>11 DEF LoopData, dataVars
<1>13. y.fsm.state # "Closed"
  BY <1>1, <1>4 DEF InUse
<1>14. ~BothClosed(sock') /\ rule' = "none" /\ hasRemote'
  BY <1>1, <1>2, <1>7, <1>9, <1>13 DEF Running, BothClosed, Sides
<1>15. SafetyPart'
  BY <1>1, <1>3, <1>5, <1>7, <1>8, <1>10, <1>12, <1>14, RunningNext DEF TimerStep
<1>16. ~BothClosed(ss)
  BY <1>1, <1>2, <1>6, <1>13, OneOpen DEF Running
<1>17. IsWritable(ss[s].fsm)
  <2>1. x.fsm.state \in {"Established", "Closing"}
    BY <1>1, <1>4 DEF InUse
  <2> QED
    BY <1>1, <1>3, <1>4, <1>6, <2>1 DEF IsWritable, Usable, Socket, Flow
<1> QED
  BY <1>2, <1>3, <1>5, <1>6, <1>15, <1>16, <1>17
     DEF CanWriteDone, CanWriteEnd, CanForward

\* EOF: nothing has closed the other side's writing half before, so it can be
\* closed now.
LEMMA ReadEndedStep ==
  ASSUME TypeOK, TypeOK', SafetyPart, NEW s \in Sides, ReadEnded(s)
  PROVE  LET ss == [sock EXCEPT ![s] = ReadEof(@)]
         IN /\ SafetyPart'
            /\ CanReadEof(sock[s])
            /\ IsWriteClosable(ss[Other(s)].fsm)
            /\ CanWriteCloseBegin(ss[Other(s)].fsm)
            /\ finTo' = finTo \cup {Other(s)}
            /\ Other(s) \notin finTo
            /\ recv[Other(s)] = sent[s]
            /\ status' = "alive"
<1> DEFINE o == Other(s)
           x == sock[s]
           y == sock[o]
           ss == [sock EXCEPT ![s] = ReadEof(@)]
<1>1. /\ status = "alive" /\ Running /\ x \in Socket /\ y \in Socket
      /\ InUse(x) /\ InUse(y) /\ LoopPlace(x, y) /\ LoopPlace(y, x)
      /\ LoopData(s) /\ LoopData(o)
  BY StageOfForwarding DEF ReadEnded
<1>2. o \in Sides /\ o # s /\ Other(o) = s
  BY OtherType, TwoSides
<1>3. x.fsm.reading
  BY <1>1 DEF InUse, ReadEnded
<1>4. /\ ~y.fsm.writing /\ ~y.fsm.write_closing /\ ~y.fsm.write_closed
      /\ ~x.fsm.read_closed
  BY <1>1, <1>3 DEF LoopPlace
<1>5. /\ CanReadEof(x) /\ InUse(ReadEof(x))
      /\ ReadEof(x).fsm =
           [x.fsm EXCEPT !.reading = FALSE,
                         !.read_closed = TRUE,
                         !.state = IF x.fsm.write_closed THEN "Closed"
                                                         ELSE "Closing"]
  BY <1>1, <1>4, ReadEofUses DEF ReadEnded
<1>6. /\ IsWriteClosable(y.fsm) /\ CanWriteCloseBegin(y.fsm)
      /\ InUse(CloseWrite(y))
      /\ CloseWrite(y).fsm = [y.fsm EXCEPT !.state = "Closing",
                                           !.writing = FALSE,
                                           !.write_closing = TRUE]
  BY <1>1, <1>4, WriteUses, CloseWriteUses DEF IsWriteClosable
<1>7. ss[s] = ReadEof(x) /\ ss[o] = y
  BY <1>2 DEF TypeOK
<1>8. /\ sock' = [ss EXCEPT ![o] = CloseWrite(y)]
      /\ finTo' = finTo \cup {o}
      /\ ResetTimer /\ UNCHANGED <<status, hasRemote, rule, sent, fin, got, recv>>
      /\ s \in fin /\ got[s] = sent[s]
  BY <1>6, <1>7 DEF ReadEnded, KeepOn
<1>9. sock'[s] = ReadEof(x) /\ sock'[o] = CloseWrite(y)
  BY <1>2, <1>7, <1>8 DEF TypeOK
<1>10s. /\ ~sock'[s].fsm.reading /\ sock'[s].fsm.read_closed
        /\ sock'[s].fsm.writing = x.fsm.writing
        /\ sock'[s].fsm.write_closing = x.fsm.write_closing
        /\ sock'[s].fsm.write_closed = x.fsm.write_closed
  <2> x.fsm \in Flow
    BY <1>1 DEF Socket
  <2> QED
    BY <1>5, <1>9 DEF Flow
<1>10o. /\ ~sock'[o].fsm.writing /\ sock'[o].fsm.write_closing
        /\ sock'[o].fsm.state = "Closing"
        /\ sock'[o].fsm.reading = y.fsm.reading
        /\ sock'[o].fsm.read_closed = y.fsm.read_closed
        /\ sock'[o].fsm.write_closed = y.fsm.write_closed
  <2> y.fsm \in Flow
    BY <1>1 DEF Socket
  <2> QED
    BY <1>6, <1>9 DEF Flow
<1>11. /\ LoopPlace(sock'[s], sock'[o]) /\ LoopPlace(sock'[o], sock'[s])
  BY <1>1, <1>3, <1>4, <1>10s, <1>10o DEF LoopPlace
<1>12. /\ recv[o] = got[s] /\ o \notin finTo
       /\ s \in finTo' <=> y.fsm.read_closed
  BY <1>1, <1>2, <1>4, <1>8 DEF LoopData
<1>13. LoopData(s)' /\ LoopData(o)'
  BY <1>1, <1>2, <1>8, <1>10s, <1>10o, <1>12 DEF LoopData
<1>14. ~BothClosed(sock') /\ rule' = "none" /\ hasRemote'
  BY <1>1, <1>2, <1>8, <1>10s, <1>10o DEF Running, BothClosed, Sides
<1>15. SafetyPart'
  BY <1>1, <1>5, <1>6, <1>8, <1>9, <1>11, <1>13, <1>14, RunningNext DEF TimerStep
<1> QED
  BY <1>1, <1>5, <1>6, <1>7, <1>8, <1>12, <1>15

\* The last of the two closes ends the tunnel, no earlier one does.
LEMMA WriteClosedStep ==
  ASSUME TypeOK, TypeOK', SafetyPart, NEW s \in Sides, WriteClosed(s)
  PROVE  /\ SafetyPart'
         /\ CanCloseWriteDone(sock[s])
         /\ status = "alive"
         /\ \/ status' = "alive"
            \/ status' = "finished" /\ finTo = Sides
<1> DEFINE o == Other(s)
           x == sock[s]
           y == sock[o]
           ss == [sock EXCEPT ![s] = CloseWriteDone(@)]
<1>1. /\ status = "alive" /\ Running /\ x \in Socket /\ y \in Socket
      /\ InUse(x) /\ InUse(y) /\ LoopPlace(x, y) /\ LoopPlace(y, x)
      /\ LoopData(s) /\ LoopData(o)
  BY StageOfForwarding DEF WriteClosed
<1>2. o \in Sides /\ o # s /\ Other(o) = s
  BY OtherType, TwoSides
<1>3. /\ x.fsm.write_closing /\ InUse(CloseWriteDone(x))
      /\ CloseWriteDone(x) \in Socket
      /\ CloseWriteDone(x).fsm =
           [x.fsm EXCEPT !.write_closing = FALSE,
                         !.write_closed = TRUE,
                         !.state = IF x.fsm.read_closed THEN "Closed" ELSE @]
  BY <1>1, CloseWriteDoneUses, SocketType DEF WriteClosed
<1>4. /\ ss \in [Sides -> Socket]
      /\ ss[s] = CloseWriteDone(x) /\ ss[o] = y
  BY <1>2, <1>3 DEF TypeOK
<1>5. s \in finTo
  BY <1>1, <1>2, <1>3 DEF LoopData, LoopPlace
<1>6. CheckTunnelStatus(ss) /\ UNCHANGED dataVars
  BY DEF WriteClosed
<1>7. CASE BothClosed(ss)
  <2>1. Release("finished", ss)
    BY <1>6, <1>7 DEF CheckTunnelStatus
  <2>2. ss[s].fsm.state = "Closed"
    BY <1>1, <1>7 DEF BothClosed, Running, Sides
  <2>3. x.fsm.read_closed
    <3>1. ss[s].fsm.state = IF x.fsm.read_closed THEN "Closed" ELSE x.fsm.state
      <4> x.fsm \in Flow
        BY <1>1 DEF Socket
      <4> QED
        BY <1>3, <1>4 DEF Flow
    <3>2. ~x.fsm.read_closed => x.fsm.state # "Closed"
      BY <1>1 DEF InUse
    <3> QED
      BY <2>2, <3>1, <3>2
  <2>4. o \in finTo
    BY <1>1, <2>3 DEF LoopData
  <2>5. finTo = Sides
    BY <1>2, <1>5, <2>4, TwoSides DEF TypeOK
  <2>6. SafetyPart'
    BY <1>4, <1>6, <2>1, <2>5, ReleaseKeeps
  <2> QED
    BY <1>1, <1>3, <2>1, <2>5, <2>6
       DEF Release, CanCloseWriteDone, CanWriteCloseEnd
<1>8. CASE ~BothClosed(ss)
  <2>1. /\ sock' = ss
        /\ ResetTimer /\ UNCHANGED <<status, hasRemote, rule, dataVars>>
    BY <1>6, <1>8 DEF CheckTunnelStatus, KeepOn
  <2>2. /\ ~sock'[s].fsm.write_closing /\ sock'[s].fsm.write_closed
        /\ sock'[s].fsm.reading = x.fsm.reading
        /\ sock'[s].fsm.writing = x.fsm.writing
        /\ sock'[s].fsm.read_closed = x.fsm.read_closed
        /\ sock'[o] = y
    <3> x.fsm \in Flow
      BY <1>1 DEF Socket
    <3> QED
      BY <1>3, <1>4, <2>1 DEF Flow
  <2>3. /\ LoopPlace(sock'[s], sock'[o]) /\ LoopPlace(sock'[o], sock'[s])
    BY <1>1, <1>3, <2>2 DEF LoopPlace
  <2>4. LoopData(s)' /\ LoopData(o)'
    BY <1>1, <1>2, <2>1, <2>2 DEF LoopData, dataVars
  <2>5. ~BothClosed(sock') /\ rule' = "none" /\ hasRemote'
    BY <1>1, <1>8, <2>1 DEF Running, BothClosed
  <2>6. SafetyPart'
    BY <1>1, <1>3, <1>4, <2>1, <2>2, <2>3, <2>4, <2>5, RunningNext DEF TimerStep
  <2> QED
    BY <1>1, <1>3, <2>1, <2>6 DEF CanCloseWriteDone, CanWriteCloseEnd
<1> QED
  BY <1>7, <1>8

\* An error on either side releases the tunnel.
LEMMA BrokenStep ==
  ASSUME TypeOK, SafetyPart, NEW s \in Sides, ReadBroke(s) \/ WriteBroke(s)
  PROVE  SafetyPart' /\ UNCHANGED dataVars /\ status = "alive"
         /\ status' = "aborted"
<1>1. sock \in [Sides -> Socket] /\ sock[s] \in Socket
  BY DEF TypeOK
<1>2. /\ [sock EXCEPT ![s] = ReadFailed(@)] \in [Sides -> Socket]
      /\ [sock EXCEPT ![s] = WriteFailed(@)] \in [Sides -> Socket]
  BY <1>1, SocketType, UpdateType
<1>3. /\ \/ Release("aborted", [sock EXCEPT ![s] = ReadFailed(@)])
         \/ Release("aborted", [sock EXCEPT ![s] = WriteFailed(@)])
      /\ UNCHANGED dataVars
  BY DEF ReadBroke, WriteBroke
<1>4. status = "alive"
  BY StageOfForwarding DEF ReadBroke, WriteBroke
<1> QED
  BY <1>2, <1>3, <1>4, ReleaseKeeps DEF Release

\* The socket whose transfer completes expects that.
LEMMA BrokenAsserts ==
  ASSUME TypeOK, SafetyPart, NEW s \in Sides
  PROVE  /\ ReadBroke(s) => CanReadDone(sock[s])
         /\ WriteBroke(s) => CanWriteDone(sock[s])
<1>1. ASSUME ReadBroke(s) PROVE CanReadDone(sock[s])
  <2>1. sock[s] \in Socket /\ InUse(sock[s]) /\ sock[s].cb["Read"] = "waiting"
    BY <1>1, StageOfForwarding DEF ReadBroke
  <2> QED
    BY <2>1, ReadDoneUses DEF CanReadDone, CanReadEnd
<1>2. ASSUME WriteBroke(s) PROVE CanWriteDone(sock[s])
  <2>1. sock[s] \in Socket /\ InUse(sock[s]) /\ sock[s].cb["Write"] = "waiting"
    BY <1>2, StageOfForwarding DEF WriteBroke
  <2> QED
    BY <2>1, WriteDoneUses DEF CanWriteDone, CanWriteEnd
<1> QED
  BY <1>1, <1>2

\* The stage depends neither on the timer nor on what is due in a released
\* tunnel.
LEMMA StageKeeps ==
  ASSUME TypeOK, StageInv, status # "new",
         UNCHANGED <<status, sock, hasRemote, rule, dataVars>>
  PROVE  StageInv' /\ (HalfCloseAfterData => HalfCloseAfterData')
<1>1. Untouched <=> Untouched'
  BY DEF Untouched, dataVars
<1>2. Preparing => Preparing'
  BY <1>1 DEF Preparing, L, Rm
<1>3. Running => Running'
  <2>1. \A s \in Sides : LoopData(s) => LoopData(s)'
    BY DEF LoopData, dataVars
  <2>2. BothClosed(sock)' <=> BothClosed(sock)
    BY DEF BothClosed
  <2> QED
    BY <2>1, <2>2 DEF Running
<1>4. HalfCloseAfterData => HalfCloseAfterData'
  BY DEF HalfCloseAfterData, dataVars
<1> QED
  BY <1>2, <1>3, <1>4 DEF StageInv, New, Released

\* The clock, TunnelManager and the callbacks that were cancelled.
LEMMA ShutdownStep ==
  ASSUME TypeOK, SafetyPart, Shutdown
  PROVE  SafetyPart'
<1>1. ASSUME TimerExpires \/ DropExpiry PROVE SafetyPart'
  <2>1. status # "new" /\ (TimerExpires => status = "alive")
    BY <1>1 DEF SafetyPart, StageInv, New, Released, TimerExpires, DropExpiry,
                TimerStops
  <2>2. UNCHANGED <<status, sock, hasRemote, rule, dataVars>>
    BY <1>1 DEF TimerExpires, DropExpiry
  <2>3. StageInv' /\ HalfCloseAfterData'
    BY <2>1, <2>2, StageKeeps DEF SafetyPart
  <2>4. TimerGuards' /\ TimerStops'
    BY <1>1, <2>1, <2>2
       DEF SafetyPart, TimerGuards, TimerStops, TimerExpires, DropExpiry
  <2>5. NoCallbackOutlivesTunnel'
    BY <1>1, <2>1, <2>2
       DEF SafetyPart, NoCallbackOutlivesTunnel, TimerExpires, DropExpiry
  <2> QED
    BY <2>2, <2>3, <2>4, <2>5 DEF SafetyPart, dataVars
<1>2. CASE TimedOut
  <2>1. \A s \in Sides, op \in Ops : sock'[s].cb[op] # "waiting"
    BY <1>2, DestroySilences DEF TimedOut, TypeOK
  <2>2. NoCallbackOutlivesTunnel'
    BY <1>2, <2>1 DEF NoCallbackOutlivesTunnel, TimedOut, CancelRule
  <2>3. HalfCloseAfterData'
    BY <1>2 DEF SafetyPart, HalfCloseAfterData, dataVars, TimedOut
  <2> QED
    BY <1>2, <2>2, <2>3
       DEF SafetyPart, StageInv, Released, TimerGuards, TimerStops, TimedOut
<1>3. CASE CloseAll
  BY <1>3, ReleaseKeeps DEF CloseAll, TypeOK
<1>4. ASSUME rule = "canceled" \/ \E s \in Sides, op \in Ops :
                                     sock[s].cb[op] = "canceled"
      PROVE  Released
  <2>1. ~New /\ ~Preparing
    BY <1>4 DEF New, Preparing, At, L, Rm, Sides
  <2>2. ~Running
    BY <1>4 DEF Running, InUse, Ops
  <2> QED
    BY <2>1, <2>2 DEF SafetyPart, StageInv
<1>5. ASSUME Released, UNCHANGED <<status, timer, expiry, dataVars>>,
             rule' # "waiting",
             \A s \in Sides, op \in Ops : sock'[s].cb[op] # "waiting"
      PROVE  SafetyPart'
  BY <1>5 DEF SafetyPart, StageInv, Released, TimerGuards, TimerStops, dataVars,
              HalfCloseAfterData, NoCallbackOutlivesTunnel
<1>6. CASE DropRuleCallback
  <2>1. Released
    BY <1>4, <1>6 DEF DropRuleCallback
  <2>2. \A s \in Sides, op \in Ops : sock'[s].cb[op] # "waiting"
    BY <1>6, <2>1 DEF SafetyPart, NoCallbackOutlivesTunnel, Released,
                      DropRuleCallback
  <2> QED
    BY <1>5, <1>6, <2>1, <2>2 DEF DropRuleCallback
<1>7. ASSUME NEW s \in Sides, NEW op \in Ops, DropSocketCallback(s, op)
      PROVE  SafetyPart'
  <2>1. Released
    BY <1>4, <1>7 DEF DropSocketCallback
  <2>2. /\ rule # "waiting"
        /\ \A t \in Sides, p \in Ops : sock[t].cb[p] # "waiting"
    BY <2>1 DEF SafetyPart, NoCallbackOutlivesTunnel, Released
  <2>3. \A p \in Ops : Return(sock[s], sock[s].fsm, op).cb[p] # "waiting"
    BY <2>2 DEF Return, TypeOK, Socket
  <2>4. \A t \in Sides, p \in Ops : sock'[t].cb[p] # "waiting"
    BY <1>7, <2>2, <2>3 DEF DropSocketCallback, TypeOK
  <2> QED
    BY <1>5, <1>7, <2>1, <2>2, <2>4 DEF DropSocketCallback
<1> QED
  BY <1>1, <1>2, <1>3, <1>6, <1>7 DEF Shutdown

\* The peers and the kernel.
LEMMA EnvironmentStep ==
  ASSUME TypeOK, TypeOK', SafetyPart, NEW s \in Sides, Environment(s)
  PROVE  SafetyPart'
<1>0. UNCHANGED tunnelVars
  BY EnvironmentType
<1>1. status = "alive"
  BY DueMeansAlive
     DEF Environment, PeerSends, PeerCloses, PeerPresent, KernelTakes, Ops
<1>2. UNCHANGED <<got, finTo>>
  BY DEF Environment, PeerSends, PeerCloses, KernelTakes
<1>3. (TimerGuards /\ TimerStops /\ NoCallbackOutlivesTunnel)'
  BY <1>0, <1>1 DEF SafetyPart, TimerGuards, TimerStops, tunnelVars,
                    NoCallbackOutlivesTunnel
<1>4. CASE Preparing
  <2>1. ~KernelTakes(s)
    BY <1>4 DEF Preparing, At, L, Rm, KernelTakes, Sides, Ops
  <2>2. Preparing' /\ HalfCloseAfterData'
    BY <1>0, <1>2, <1>4, <2>1
       DEF Preparing, Untouched, L, Rm, tunnelVars, Environment, PeerSends,
           PeerCloses, HalfCloseAfterData
  <2> QED
    BY <1>0, <1>1, <1>3, <2>2 DEF SafetyPart, StageInv, tunnelVars
<1>5. CASE Running
  <2> DEFINE o == Other(s)
  <2>1. /\ o \in Sides /\ o # s /\ Other(o) = s
        /\ InUse(sock[s]) /\ InUse(sock[o])
        /\ LoopPlace(sock[s], sock[o]) /\ LoopPlace(sock[o], sock[s])
        /\ LoopData(s) /\ LoopData(o)
        /\ rule = "none" /\ hasRemote /\ ~BothClosed(sock)
    BY <1>5, OtherType, TwoSides DEF Running
  <2>2. LoopData(s)' /\ LoopData(o)'
    <3>1. CASE PeerSends(s)
      BY <1>0, <1>2, <2>1, <3>1 DEF PeerSends, LoopData, TypeOK, tunnelVars
    <3>2. CASE PeerCloses(s)
      BY <1>0, <1>2, <2>1, <3>2 DEF PeerCloses, LoopData, TypeOK, tunnelVars
    <3>3. CASE KernelTakes(s)
      <4>1. sock[s].fsm.writing
        BY <2>1, <3>3 DEF KernelTakes, InUse
      <4> QED
        BY <1>0, <1>2, <2>1, <3>3, <4>1
           DEF KernelTakes, LoopData, TypeOK, tunnelVars
    <3> QED
      BY <3>1, <3>2, <3>3 DEF Environment
  <2>3. sock' = sock /\ status' = "alive" /\ rule' = "none" /\ hasRemote'
        /\ ~BothClosed(sock')
    BY <1>0, <1>1, <2>1 DEF tunnelVars, BothClosed
  <2>4. TimerStep
    BY <1>0, <1>1 DEF SafetyPart, TimerStep, tunnelVars
  <2> QED
    BY <2>1, <2>2, <2>3, <2>4, RunningNext
<1> QED
  BY <1>1, <1>4, <1>5 DEF SafetyPart, StageInv, New, Released

-----------------------------------------------------------------------------
(* The theorems. *)

LEMMA InitSafe == Init => IInv
<1> SUFFICES ASSUME Init PROVE IInv
  OBVIOUS
<1>1. At(L, "Init", "-") /\ At(Rm, "Init", "-")
  BY DEF Init, At, L, Rm, NewSocket, NewFlow, Sides, Ops
<1>2. Untouched
  BY DEF Init, Untouched
<1>3. New
  BY <1>1, <1>2 DEF Init, New
<1>4. SafetyPart
  BY <1>3 DEF Init, SafetyPart, StageInv, NoCallbackOutlivesTunnel,
              HalfCloseAfterData, TimerGuards, TimerStops
<1>5. asserted
  BY DEF Init
<1> QED
  BY <1>4, <1>5, InitType, IInvSplit

\* One callback, or one step of the peers, preserves the invariant, and every
\* assertion it reaches holds.
LEMMA StepSafe == IInv /\ [Next]_vars => IInv'
<1> SUFFICES ASSUME IInv, [Next]_vars PROVE IInv'
  OBVIOUS
<1>0. TypeOK /\ TypeOK' /\ asserted /\ SafetyPart
  BY IInvSplit, TypeStep
<1>1. ASSUME NEW holds, holds, Assert(holds) PROVE asserted'
  BY <1>0, <1>1 DEF Assert
<1>2. SafetyPart' /\ asserted'
  <2>1. CASE BuildAndOpen
    BY <1>0, <1>1, <2>1, BuildAndOpenStep DEF BuildAndOpen
  <2>2. CASE Opened
    BY <1>0, <2>2, OpenedStep DEF Opened
  <2>3. CASE Matched
    BY <1>0, <1>1, <2>3, MatchedStep DEF Matched
  <2>4. CASE MatchFailed
    BY <1>0, <2>4, MatchFailedStep DEF MatchFailed
  <2>5. CASE ConnectedToRemote
    BY <1>0, <1>1, <2>5, ConnectedToRemoteStep DEF ConnectedToRemote
  <2>6. CASE \/ ConnectToRemoteFailed
             \/ NegotiationFailed("Open") \/ NegotiationFailed("Continue")
    BY <1>0, <2>6, NegotiationFailedStep
       DEF ConnectToRemoteFailed, NegotiationFailed
  <2>7. CASE Continued
    BY <1>0, <1>1, <2>7, ContinuedStep DEF Continued
  <2>8. ASSUME NEW s \in Sides, Forwarding(s) PROVE SafetyPart' /\ asserted'
    <3>1. CASE ReadSome(s)
      BY <1>0, <1>1, <3>1, ReadSomeStep DEF ReadSome
    <3>2. CASE ReadEnded(s)
      BY <1>0, <1>1, <3>2, ReadEndedStep DEF ReadEnded
    <3>3. CASE ReadBroke(s)
      BY <1>0, <1>1, <3>3, BrokenStep, BrokenAsserts DEF ReadBroke
    <3>4. CASE Written(s)
      BY <1>0, <1>1, <3>4, WrittenStep DEF Written
    <3>5. CASE WriteBroke(s)
      BY <1>0, <1>1, <3>5, BrokenStep, BrokenAsserts DEF WriteBroke
    <3>6. CASE WriteClosed(s)
      BY <1>0, <1>1, <3>6, WriteClosedStep DEF WriteClosed
    <3> QED
      BY <2>8, <3>1, <3>2, <3>3, <3>4, <3>5, <3>6 DEF Forwarding
  <2>9. CASE Shutdown
    BY <1>0, <2>9, ShutdownStep
       DEF Shutdown, TimerExpires, TimedOut, CloseAll, DropRuleCallback,
           DropExpiry, DropSocketCallback
  <2>10. ASSUME NEW s \in Sides, Environment(s) PROVE SafetyPart' /\ asserted'
    BY <1>0, <2>10, EnvironmentStep, EnvironmentType DEF tunnelVars
  <2>11. CASE UNCHANGED vars
    BY <1>0, <2>11
       DEF vars, tunnelVars, dataVars, SafetyPart, StageInv, New, Preparing,
           Running, Released, Untouched, L, Rm, LoopData, BothClosed,
           NoCallbackOutlivesTunnel, HalfCloseAfterData, TimerGuards, TimerStops
  <2> QED
    BY <2>1, <2>2, <2>3, <2>4, <2>5, <2>6, <2>7, <2>8, <2>9, <2>10, <2>11
       DEF Next, Setup, Done
<1> QED
  BY <1>0, <1>2 DEF IInv, SafetyPart

\* The inductive invariant holds in every reachable state.
THEOREM Inductive == Spec => []IInv
<1> QED
  BY InitSafe, StepSafe, PTL DEF Spec

\* No BOOST_ASSERT of FlowStateMachine or of the forwarding loops can fail,
\* and no loop goes on after the tunnel was destroyed.
THEOREM NoAssertionFails == Spec => []AssertionsHold
<1>1. IInv => AssertionsHold
  BY DEF IInv, AssertionsHold
<1> QED
  BY <1>1, Inductive, PTL

\* Every callback of a destroyed tunnel is cancelled.
THEOREM NoCallbackOutlives == Spec => []NoCallbackOutlivesTunnel
<1>1. IInv => NoCallbackOutlivesTunnel
  BY DEF IInv
<1> QED
  BY <1>1, Inductive, PTL

\* A half-close is passed on only after all the data before it.
THEOREM HalfCloseOrdered == Spec => []HalfCloseAfterData
<1>1. IInv => HalfCloseAfterData
  BY DEF IInv
<1> QED
  BY <1>1, Inductive, PTL

\* A tunnel whose flows are both closed has been released.
THEOREM NoZombieTunnel == Spec => []NoZombie
<1>1. IInv => NoZombie
  BY DEF IInv, NoZombie, StageInv, New, Released, Preparing, Running, At, L,
         BothClosed
<1> QED
  BY <1>1, Inductive, PTL

\* A living tunnel is always guarded by its timer.
THEOREM TimerGuarded == Spec => []TimerGuards
<1>1. IInv => TimerGuards
  BY DEF IInv
<1> QED
  BY <1>1, Inductive, PTL

\* A tunnel both of whose flows are closed is not left alive, and a living one
\* has exactly one of an armed timer and a posted expiry that still counts.
THEOREM AlwaysGuarded == Spec => []Guarded
<1>1. NoZombie /\ TimerGuards => Guarded
  BY DEF Guarded
<1> QED
  BY <1>1, NoZombieTunnel, TimerGuarded, PTL

-----------------------------------------------------------------------------
(* The tunnel implements the relay. *)

LEMMA RelayInit == Init => R!Init
  BY DEF Init, R!Init, Sides, R!Sides

\* Every step of the tunnel is a step of the relay or invisible to it.
LEMMA RelayStep == IInv /\ [Next]_vars => [R!Next]_(R!vars)
<1> SUFFICES ASSUME IInv, [Next]_vars PROVE [R!Next]_(R!vars)
  OBVIOUS
<1>0. TypeOK /\ TypeOK' /\ SafetyPart
  BY IInvSplit, TypeStep
<1>s. R!Sides = Sides /\ \A s \in Sides : R!Other(s) = Other(s)
  BY DEF R!Sides, Sides, R!Other, Other
<1>1. CASE BuildAndOpen
  BY <1>1 DEF BuildAndOpen, dataVars, R!Next, R!Start
<1>2. CASE Opened \/ Matched \/ ConnectedToRemote \/ Continued
  BY <1>2 DEF Opened, Matched, ConnectedToRemote, Continued, KeepOn, dataVars,
              R!vars
<1>3. ASSUME status = "alive", status' = "aborted", UNCHANGED dataVars
      PROVE  R!Abort
  BY <1>3 DEF dataVars, R!Abort
<1>4. CASE MatchFailed
  BY <1>0, <1>3, <1>4, StageOfRule DEF MatchFailed, R!Next
<1>5. CASE ConnectToRemoteFailed
  BY <1>0, <1>3, <1>5, StageOfConnect DEF ConnectToRemoteFailed, Release, R!Next
<1>6. CASE NegotiationFailed("Open") \/ NegotiationFailed("Continue")
  <2>1. status = "alive"
    BY <1>0, <1>6, DueMeansAlive DEF NegotiationFailed, Sides, Ops
  <2> QED
    BY <1>3, <1>6, <2>1 DEF NegotiationFailed, Release, R!Next
<1>7. ASSUME NEW s \in Sides, Forwarding(s) PROVE [R!Next]_(R!vars)
  <2>1. CASE ReadSome(s) \/ Written(s)
    BY <2>1 DEF ReadSome, Written, KeepOn, dataVars, R!vars
  <2>2. CASE ReadEnded(s)
    <3>1. R!PassClose(Other(s))
      <4>1. /\ status = "alive" /\ status' = "alive"
            /\ finTo' = finTo \cup {Other(s)} /\ Other(s) \notin finTo
            /\ recv[Other(s)] = sent[s]
        BY <1>0, <2>2, ReadEndedStep, StageOfForwarding DEF ReadEnded
      <4>2. s \in fin /\ UNCHANGED <<sent, fin, recv>>
        BY <2>2 DEF ReadEnded
      <4>3. R!Other(Other(s)) = s
        BY <1>s, OtherType
      <4> QED
        BY <4>1, <4>2, <4>3 DEF R!PassClose
    <3> QED
      BY <1>s, <3>1, OtherType DEF R!Next
  <2>3. CASE ReadBroke(s) \/ WriteBroke(s)
    BY <1>0, <1>3, <2>3, BrokenStep DEF R!Next
  <2>4. CASE WriteClosed(s)
    <3>1. /\ status = "alive" /\ UNCHANGED dataVars
          /\ \/ status' = "alive"
             \/ status' = "finished" /\ finTo = Sides
      BY <1>0, <2>4, WriteClosedStep DEF WriteClosed
    <3> QED
      BY <1>s, <3>1 DEF R!Next, R!Finish, R!vars, dataVars
  <2> QED
    BY <1>7, <2>1, <2>2, <2>3, <2>4 DEF Forwarding
<1>8. CASE Shutdown
  <2>1. CASE TimedOut
    <3>1. status = "alive"
      BY <1>0, <2>1 DEF TimedOut, SafetyPart, StageInv, New, Released,
                        NoCallbackOutlivesTunnel
    <3> QED
      BY <1>3, <2>1, <3>1 DEF TimedOut, R!Next
  <2>2. CASE CloseAll
    BY <1>3, <2>2 DEF CloseAll, Release, R!Next
  <2>3. CASE \/ TimerExpires \/ DropRuleCallback \/ DropExpiry
             \/ \E s \in Sides, op \in Ops : DropSocketCallback(s, op)
    BY <2>3 DEF TimerExpires, DropRuleCallback, DropExpiry, DropSocketCallback,
                dataVars, R!vars
  <2> QED
    BY <1>8, <2>1, <2>2, <2>3 DEF Shutdown
<1>9. ASSUME NEW s \in Sides, Environment(s) PROVE [R!Next]_(R!vars)
  <2>1. CASE PeerSends(s)
    BY <1>s, <2>1 DEF PeerSends, PeerPresent, tunnelVars, R!Next, R!Send
  <2>2. CASE PeerCloses(s)
    BY <1>s, <2>2 DEF PeerCloses, PeerPresent, tunnelVars, R!Next, R!Close
  <2>3. CASE KernelTakes(s)
    <3> DEFINE o == Other(s)
    <3>1. /\ status = "alive" /\ sock[s] \in Socket /\ InUse(sock[s])
          /\ LoopPlace(sock[o], sock[s]) /\ LoopData(o)
      BY <1>0, <2>3, StageOfForwarding DEF KernelTakes
    <3>2. o \in Sides /\ Other(o) = s
      BY OtherType
    <3>3. sock[s].fsm.writing
      BY <2>3, <3>1 DEF KernelTakes, InUse
    <3>4. s \notin finTo
      BY <3>1, <3>2, <3>3 DEF LoopPlace, LoopData
    <3>5. recv[s] < sent[o]
      BY <1>0, <2>3, <3>1, <3>2 DEF KernelTakes, LoopData, TypeOK
    <3>6. R!Deliver(s)
      BY <1>s, <2>3, <3>1, <3>4, <3>5 DEF KernelTakes, tunnelVars, R!Deliver
    <3> QED
      BY <1>s, <3>6 DEF R!Next
  <2> QED
    BY <1>9, <2>1, <2>2, <2>3 DEF Environment
<1>10. CASE UNCHANGED vars
  BY <1>10 DEF vars, tunnelVars, dataVars, R!vars
<1> QED
  BY <1>1, <1>2, <1>4, <1>5, <1>6, <1>7, <1>8, <1>9, <1>10 DEF Next, Setup, Done

\* The tunnel implements the abstract relay: nothing is lost, duplicated or
\* overtaken by a close, and it finishes only when both closes got through.
THEOREM ImplementsRelay == Spec => RelaySpec
<1> QED
  BY RelayInit, RelayStep, Inductive, PTL DEF Spec, RelaySpec, R!Spec

-----------------------------------------------------------------------------
(* Each socket lives the documented life of a data flow.                   *)

\* How a step may change one flow: what FlowLifecycle says of a state and the
\* two halves.
HalvesKept(f, g) == /\ g.read_closed <=> f.read_closed
                    /\ g.write_closed <=> f.write_closed

LifeKept(f, g)    == HalvesKept(f, g) /\ g.state = f.state
LifeForward(f, g) == /\ HalvesKept(f, g)
                     /\ \/ f.state = "Init" /\ g.state = "Establishing"
                        \/ f.state = "Establishing" /\ g.state = "Established"
                        \/ f.state = "Established" /\ g.state = "Closing"
LifeReadCloses(f, g) == /\ f.state \in {"Established", "Closing"}
                        /\ ~f.read_closed /\ g.read_closed
                        /\ g.write_closed <=> f.write_closed
                        /\ g.state = IF f.write_closed THEN "Closed" ELSE "Closing"
LifeWriteCloses(f, g) == /\ f.state = "Closing"
                         /\ ~f.write_closed /\ g.write_closed
                         /\ g.read_closed <=> f.read_closed
                         /\ g.state = IF f.read_closed THEN "Closed" ELSE "Closing"
LifeEnds(f, g) == /\ f.state # "Closed" /\ g.state = "Closed"
                  /\ g.read_closed /\ g.write_closed

LifeStep(f, g) == \/ LifeKept(f, g) \/ LifeForward(f, g)
                  \/ LifeReadCloses(f, g) \/ LifeWriteCloses(f, g) \/ LifeEnds(f, g)

\* Only the flags change when a transfer begins or ends, and when the socket is
\* connected or fails the step is the one of its name.
LEMMA FlowLife ==
  ASSUME NEW f \in Flow
  PROVE  /\ LifeStep(f, f)
         /\ LifeKept(f, ReadBegin(f)) /\ LifeKept(f, ReadEnd(f))
         /\ LifeKept(f, WriteBegin(f)) /\ LifeKept(f, WriteEnd(f))
         /\ f.state = "Init" => LifeForward(f, ConnectBegin(f))
         /\ f.state = "Establishing" => LifeForward(f, Connected(f))
         /\ f.state # "Closed" => LifeEnds(f, Errored(f))
  BY DEF Flow, LifeStep, LifeKept, LifeForward, LifeEnds, HalvesKept, ReadBegin,
         ReadEnd, WriteBegin, WriteEnd, ConnectBegin, Connected, Errored

\* Destroying a socket and cancelling its callbacks leave its flow alone.
LEMMA FlowOfSockets ==
  ASSUME NEW ss \in [Sides -> Socket], NEW how \in {"finished", "aborted"},
         Release(how, ss) \/ KeepOn(ss) \/ CheckTunnelStatus(ss), NEW s \in Sides
  PROVE  sock'[s].fsm = ss[s].fsm
<1>1. Destroy(ss[s]).fsm = ss[s].fsm
  BY DEF Destroy, Cancel, Socket
<1> QED
  BY <1>1 DEF Release, KeepOn, CheckTunnelStatus

\* Both flows, when a flow of one side is replaced.
LEMMA LifeOfOne ==
  ASSUME sock \in [Sides -> Socket], NEW s \in Sides, NEW x \in Socket,
         NEW how \in {"finished", "aborted"},
         LET ss == [sock EXCEPT ![s] = x]
         IN  Release(how, ss) \/ KeepOn(ss) \/ CheckTunnelStatus(ss) \/ sock' = ss,
         LifeStep(sock[s].fsm, x.fsm)
  PROVE  \A t \in Sides : LifeStep(sock[t].fsm, sock'[t].fsm)
<1> DEFINE ss == [sock EXCEPT ![s] = x]
<1>1. ss \in [Sides -> Socket] /\ ss[s] = x /\ \A t \in Sides \ {s} : ss[t] = sock[t]
  OBVIOUS
<1>2. \A t \in Sides : sock'[t].fsm = ss[t].fsm
  BY <1>1, FlowOfSockets
<1>3. \A t \in Sides : LifeStep(sock[t].fsm, sock[t].fsm)
  BY FlowLife DEF Socket
<1> QED
  BY <1>1, <1>2, <1>3

\* Setting a tunnel up: each flow is begun and established once, or fails.
LEMMA SetupLife ==
  ASSUME TypeOK, SafetyPart, Setup, NEW t \in Sides
  PROVE  LifeStep(sock[t].fsm, sock'[t].fsm)
<1> DEFINE l == sock["local"]
           r == sock["remote"]
<1>0. /\ sock \in [Sides -> Socket] /\ "local" \in Sides /\ "remote" \in Sides
      /\ l \in Socket /\ r \in Socket /\ l.fsm \in Flow /\ r.fsm \in Flow
  BY DEF TypeOK, Sides, Socket
<1>k. \A x \in Socket : LifeStep(x.fsm, x.fsm)
  BY FlowLife DEF Socket
<1>1. CASE BuildAndOpen
  <2>1. l.fsm.state = "Init"
    BY <1>1 DEF BuildAndOpen, SafetyPart, StageInv, New, Released, At, L
  <2>2. Open(l) \in Socket /\ LifeStep(l.fsm, Open(l).fsm)
    BY <1>0, <2>1, SocketType, FlowLife DEF Open, Call, LifeStep
  <2> QED
    BY <1>0, <1>1, <2>2, LifeOfOne DEF BuildAndOpen
<1>2. CASE Opened
  <2>1. OpenDone(l) \in Socket /\ LifeStep(l.fsm, OpenDone(l).fsm)
    BY <1>0, <1>k, SocketType DEF OpenDone, Return
  <2> QED
    BY <1>0, <1>2, <2>1, LifeOfOne DEF Opened
<1>3. CASE Matched
  <2> DEFINE x == Connect(NewSocket("Remote"))
  <2>1. At(r, "Init", "-")
    BY <1>0, <1>3, StageOfRule DEF Matched, Rm
  <2>2. x \in Socket
    BY NewSocketType, SocketType DEF Types
  <2>3. LifeForward(r.fsm, x.fsm)
    BY <2>1 DEF At, Connect, Call, ConnectBegin, NewSocket, NewFlow, LifeForward,
                HalvesKept
  <2> QED
    BY <1>0, <1>3, <2>2, <2>3, LifeOfOne DEF Matched, LifeStep
<1>4. CASE MatchFailed
  <2>1. Destroy(sock[t]).fsm = sock[t].fsm
    BY <1>0 DEF Destroy, Cancel, Socket
  <2> QED
    BY <1>0, <1>4, <1>k, <2>1 DEF MatchFailed
<1>5. CASE ConnectedToRemote
  <2> DEFINE ss == [sock EXCEPT !["remote"] = ConnectDone(@), !["local"] = Continue(@)]
  <2>1. r.fsm.state = "Establishing"
    BY <1>0, <1>5, StageOfConnect DEF ConnectedToRemote, At, Rm
  <2>2. /\ Continue(l) \in Socket /\ LifeStep(l.fsm, Continue(l).fsm)
        /\ ConnectDone(r) \in Socket /\ LifeStep(r.fsm, ConnectDone(r).fsm)
    BY <1>0, <1>k, <2>1, SocketType, FlowLife
       DEF Continue, Call, ConnectDone, Return, LifeStep
  <2>3. /\ ss \in [Sides -> Socket]
        /\ ss["remote"] = ConnectDone(r) /\ ss["local"] = Continue(l)
    BY <1>0, <2>2
  <2>4. sock'[t].fsm = ss[t].fsm
    BY <1>5, <2>3, FlowOfSockets DEF ConnectedToRemote
  <2> QED
    BY <2>2, <2>3, <2>4 DEF Sides
<1>6. CASE ConnectToRemoteFailed
  <2>1. r.fsm.state = "Establishing"
    BY <1>0, <1>6, StageOfConnect DEF ConnectToRemoteFailed, At, Rm
  <2>2. ConnectFailed(r) \in Socket /\ LifeStep(r.fsm, ConnectFailed(r).fsm)
    BY <1>0, <2>1, SocketType, FlowLife DEF ConnectFailed, Return, LifeStep
  <2> QED
    BY <1>0, <1>6, <2>2, LifeOfOne DEF ConnectToRemoteFailed
<1>7. ASSUME NEW op \in {"Open", "Continue"}, NegotiationFailed(op)
      PROVE  LifeStep(sock[t].fsm, sock'[t].fsm)
  <2> DEFINE x == Return(l, Errored(l.fsm), op)
  <2>1. status = "alive" /\ ~Running
    BY <1>0, <1>7, DueMeansAlive DEF NegotiationFailed, Ops, Running, InUse
  <2>2. l.fsm.state = "Establishing"
    BY <2>1 DEF SafetyPart, StageInv, New, Released, Preparing, At, L
  <2>3. x \in Socket /\ LifeStep(l.fsm, x.fsm)
    <3>1. Errored(l.fsm) \in Flow /\ op \in Ops
      BY <1>0, FlowType DEF Ops
    <3>2. x.fsm = Errored(l.fsm)
      BY DEF Return
    <3> QED
      BY <1>0, <2>2, <3>1, <3>2, CallbackType, FlowLife DEF LifeStep
  <2> QED
    BY <1>0, <1>7, <2>3, LifeOfOne DEF NegotiationFailed
<1>8. CASE Continued
  <2> DEFINE x     == ContinueDone(l)
             ready == [sock EXCEPT !["local"] = ContinueDone(@)]
             both  == Forward(Forward(ready, "local"), "remote")
  <2>1. l.fsm.state = "Establishing"
    BY <1>0, <1>8, StageOfContinue DEF Continued, At, L
  <2>2. x \in Socket /\ Read(x) \in Socket /\ Read(r) \in Socket
    BY <1>0, SocketType
  <2>3. /\ both \in [Sides -> Socket]
        /\ both["local"] = Read(x) /\ both["remote"] = Read(r)
    BY <1>0, <2>2 DEF Forward
  <2>4. x.fsm = Connected(l.fsm) /\ x.fsm \in Flow
    BY <1>0, FlowType DEF ContinueDone, Return
  <2>5. Read(x).fsm = ReadBegin(x.fsm) /\ Read(r).fsm = ReadBegin(r.fsm)
    BY DEF Read, Call
  <2>6. LifeForward(l.fsm, x.fsm) /\ LifeKept(x.fsm, ReadBegin(x.fsm))
    BY <1>0, <2>1, <2>4, FlowLife
  <2>7. LifeForward(l.fsm, Read(x).fsm) /\ LifeKept(r.fsm, Read(r).fsm)
    BY <1>0, <2>5, <2>6, FlowLife DEF LifeForward, LifeKept, HalvesKept
  <2>8. sock'[t].fsm = both[t].fsm
    BY <1>8, <2>3, FlowOfSockets DEF Continued
  <2> QED
    BY <2>3, <2>7, <2>8 DEF Sides, LifeStep
<1> QED
  BY <1>1, <1>2, <1>3, <1>4, <1>5, <1>6, <1>7, <1>8 DEF Setup

\* Forwarding: a half closes once, and a flow is Closing from the first request or
\* close to the second.
LEMMA ForwardingLife ==
  ASSUME TypeOK, TypeOK', SafetyPart, NEW s \in Sides, Forwarding(s), NEW t \in Sides
  PROVE  LifeStep(sock[t].fsm, sock'[t].fsm)
<1> DEFINE o == Other(s)
           x == sock[s]
           y == sock[o]
<1>0. /\ sock \in [Sides -> Socket] /\ o \in Sides /\ o # s /\ t \in {s, o}
      /\ x \in Socket /\ y \in Socket /\ x.fsm \in Flow /\ y.fsm \in Flow
  BY OtherType, TwoSides DEF TypeOK, Socket
<1>k. LifeStep(x.fsm, x.fsm) /\ LifeStep(y.fsm, y.fsm)
  BY <1>0, FlowLife
<1>2s. ASSUME NEW u \in Socket, NEW v \in Socket, LifeStep(x.fsm, u.fsm),
              LifeStep(y.fsm, v.fsm), KeepOn([sock EXCEPT ![s] = u, ![o] = v])
       PROVE  LifeStep(sock[t].fsm, sock'[t].fsm)
  <2> DEFINE ss == [sock EXCEPT ![s] = u, ![o] = v]
  <2>1. ss \in [Sides -> Socket] /\ ss[s] = u /\ ss[o] = v
    BY <1>0
  <2>2. sock'[t].fsm = ss[t].fsm
    BY <1>2s, <2>1, FlowOfSockets
  <2> QED
    BY <1>0, <1>2s, <2>1, <2>2
<1>1. CASE ReadSome(s)
  <2>1. /\ ReadDone(x) \in Socket /\ LifeStep(x.fsm, ReadDone(x).fsm)
        /\ Write(y) \in Socket /\ LifeStep(y.fsm, Write(y).fsm)
    BY <1>0, SocketType, FlowLife DEF ReadDone, Return, Write, Call, LifeStep
  <2>2. KeepOn([sock EXCEPT ![s] = ReadDone(x), ![o] = Write(y)])
    BY <1>1 DEF ReadSome
  <2> QED
    BY <1>2s, <2>1, <2>2
<1>2. CASE ReadEnded(s)
  <2> DEFINE ss == [sock EXCEPT ![s] = ReadEof(@)]
  <2>1. /\ InUse(x) /\ InUse(y) /\ LoopPlace(x, y) /\ x.fsm.reading
    BY <1>2, StageOfForwarding DEF ReadEnded, InUse
  <2>2. ~x.fsm.read_closed /\ ~y.fsm.write_closing /\ ~y.fsm.write_closed
    BY <2>1 DEF LoopPlace
  <2>3. IsWriteClosable(ss[o].fsm)
    BY <1>2, ReadEndedStep
  <2>4. ss[s] = ReadEof(x) /\ ss[o] = y
    BY <1>0
  <2>5. KeepOn([ss EXCEPT ![o] = CloseWrite(y)])
    BY <1>2, <2>3, <2>4 DEF ReadEnded
  <2>6. KeepOn([sock EXCEPT ![s] = ReadEof(x), ![o] = CloseWrite(y)])
    BY <2>5
  <2>7. ReadEof(x) \in Socket /\ CloseWrite(y) \in Socket
    BY <1>0, SocketType
  <2>8. LifeReadCloses(x.fsm, ReadEof(x).fsm)
    <3>1. x.fsm.state \in {"Established", "Closing"}
      BY <2>1, <2>2 DEF InUse
    <3>2. x.fsm.state = "Established" => ~x.fsm.write_closed
      BY <2>1, <2>2 DEF InUse
    <3>3. ReadEof(x).fsm = ReadClosed(ReadEnd(x.fsm))
      BY DEF ReadEof, Return
    <3> QED
      BY <1>0, <2>2, <3>1, <3>2, <3>3 DEF Flow, ReadClosed, ReadEnd, LifeReadCloses
  <2>9. LifeStep(y.fsm, CloseWrite(y).fsm)
    <3>1. y.fsm.state = IF y.fsm.read_closed THEN "Closing" ELSE "Established"
      BY <2>1, <2>2 DEF InUse
    <3>2. CloseWrite(y).fsm = WriteCloseBegin(y.fsm)
      BY DEF CloseWrite, Call
    <3> QED
      BY <1>0, <3>1, <3>2
         DEF Flow, WriteCloseBegin, LifeStep, LifeKept, LifeForward, HalvesKept
  <2> QED
    BY <1>2s, <2>6, <2>7, <2>8, <2>9 DEF LifeStep
<1>3. CASE ReadBroke(s)
  <2>1. /\ InUse(x) /\ LoopPlace(x, y) /\ x.fsm.reading
    BY <1>3, StageOfForwarding DEF ReadBroke, InUse
  <2>2. x.fsm.state # "Closed"
    BY <2>1 DEF InUse, LoopPlace
  <2>3. ReadFailed(x) \in Socket /\ ReadFailed(x).fsm = Errored(ReadEnd(x.fsm))
    BY <1>0, SocketType DEF ReadFailed, Cancel, Return
  <2>4. LifeEnds(x.fsm, ReadFailed(x).fsm)
    BY <1>0, <2>2, <2>3 DEF LifeEnds, Errored, ReadEnd, Flow
  <2> QED
    BY <1>0, <1>3, <2>3, <2>4, LifeOfOne DEF ReadBroke, LifeStep
<1>4. CASE Written(s)
  <2> DEFINE ss == [sock EXCEPT ![s] = WriteDone(@)]
  <2>1. /\ WriteDone(x) \in Socket /\ LifeStep(x.fsm, WriteDone(x).fsm)
        /\ Read(y) \in Socket /\ LifeStep(y.fsm, Read(y).fsm)
    BY <1>0, SocketType, FlowLife DEF WriteDone, Return, Read, Call, LifeStep
  <2>2. ss[o] = y
    BY <1>0
  <2>3. KeepOn(Forward(ss, o))
    BY <1>4 DEF Written
  <2>4. KeepOn([sock EXCEPT ![s] = WriteDone(x), ![o] = Read(y)])
    BY <2>2, <2>3 DEF Forward
  <2> QED
    BY <1>2s, <2>1, <2>4
<1>5. CASE WriteBroke(s)
  <2>1. /\ InUse(x) /\ LoopPlace(y, x) /\ x.fsm.writing
    BY <1>5, StageOfForwarding DEF WriteBroke, InUse
  <2>2. x.fsm.state # "Closed"
    BY <2>1 DEF InUse, LoopPlace
  <2>3. WriteFailed(x) \in Socket /\ WriteFailed(x).fsm = Errored(WriteEnd(x.fsm))
    BY <1>0, SocketType DEF WriteFailed, Cancel, Return
  <2>4. LifeEnds(x.fsm, WriteFailed(x).fsm)
    BY <1>0, <2>2, <2>3 DEF LifeEnds, Errored, WriteEnd, Flow
  <2> QED
    BY <1>0, <1>5, <2>3, <2>4, LifeOfOne DEF WriteBroke, LifeStep
<1>6. CASE WriteClosed(s)
  <2>1. InUse(x) /\ x.fsm.write_closing
    BY <1>6, StageOfForwarding DEF WriteClosed, InUse
  <2>2. ~x.fsm.write_closed /\ x.fsm.state = "Closing"
    BY <2>1 DEF InUse
  <2>3. CloseWriteDone(x) \in Socket /\ CloseWriteDone(x).fsm = WriteCloseEnd(x.fsm)
    BY <1>0, SocketType DEF CloseWriteDone, Return
  <2>4. LifeWriteCloses(x.fsm, CloseWriteDone(x).fsm)
    BY <1>0, <2>2, <2>3 DEF LifeWriteCloses, WriteCloseEnd, Flow
  <2> QED
    BY <1>0, <1>6, <2>3, <2>4, LifeOfOne DEF WriteClosed, LifeStep
<1> QED
  BY <1>1, <1>2, <1>3, <1>4, <1>5, <1>6 DEF Forwarding

\* Every step takes each of the two flows one step on, or leaves it.
LEMMA LifeGoesOn ==
  ASSUME IInv, [Next]_vars, NEW t \in Sides
  PROVE  LifeStep(sock[t].fsm, sock'[t].fsm)
<1>0. TypeOK /\ TypeOK' /\ SafetyPart /\ sock \in [Sides -> Socket]
  BY IInvSplit, TypeStep DEF TypeOK
<1>k. \A u \in Sides : LifeStep(sock[u].fsm, sock[u].fsm)
  BY <1>0, FlowLife DEF Socket
<1>1. CASE Setup
  BY <1>0, <1>1, SetupLife
<1>2. ASSUME NEW s \in Sides, Forwarding(s)
      PROVE  LifeStep(sock[t].fsm, sock'[t].fsm)
  BY <1>0, <1>2, ForwardingLife
<1>3. CASE Shutdown
  <2>1. CASE TimedOut
    <3>1. Destroy(sock[t]).fsm = sock[t].fsm
      BY <1>0 DEF Destroy, Cancel, Socket
    <3> QED
      BY <1>0, <1>k, <2>1, <3>1 DEF TimedOut
  <2>2. CASE CloseAll
    BY <1>0, <1>k, <2>2, FlowOfSockets DEF CloseAll
  <2>3. CASE TimerExpires \/ DropRuleCallback \/ DropExpiry
    BY <1>k, <2>3 DEF TimerExpires, DropRuleCallback, DropExpiry
  <2>4. ASSUME NEW s \in Sides, NEW op \in Ops, DropSocketCallback(s, op)
        PROVE  LifeStep(sock[t].fsm, sock'[t].fsm)
    <3>1. Return(sock[s], sock[s].fsm, op).fsm = sock[s].fsm
      BY DEF Return
    <3> QED
      BY <1>0, <1>k, <2>4, <3>1 DEF DropSocketCallback
  <2> QED
    BY <1>3, <2>1, <2>2, <2>3, <2>4 DEF Shutdown
<1>4. ASSUME NEW s \in Sides, Environment(s)
      PROVE  LifeStep(sock[t].fsm, sock'[t].fsm)
  BY <1>0, <1>k, <1>4, EnvironmentType DEF tunnelVars
<1>5. CASE Done \/ UNCHANGED vars
  BY <1>k, <1>5 DEF Done, vars, tunnelVars
<1> QED
  BY <1>1, <1>2, <1>3, <1>4, <1>5 DEF Next

\* A step in the life of a flow is a step of FlowLifecycle.
LEMMA LocalLifeStep == IInv /\ [Next]_vars => [LocalLife!Next]_(LocalLife!vars)
<1> SUFFICES ASSUME IInv, [Next]_vars PROVE [LocalLife!Next]_(LocalLife!vars)
  OBVIOUS
<1>1. /\ LifeStep(sock["local"].fsm, sock'["local"].fsm)
      /\ sock["local"].fsm \in Flow /\ sock'["local"].fsm \in Flow
  BY LifeGoesOn, IInvSplit, TypeStep DEF TypeOK, Sides, Socket
<1> QED
  BY <1>1 DEF LifeStep, LifeKept, LifeForward, LifeReadCloses, LifeWriteCloses,
     LifeEnds, HalvesKept, LocalLife!Next, LocalLife!vars, LocalLife!Begin,
     LocalLife!Establish, LocalLife!RequestClose, LocalLife!ReadCloses,
     LocalLife!WriteCloses, LocalLife!Error, Flow

\* The same for the remote flow.
LEMMA RemoteLifeStep == IInv /\ [Next]_vars => [RemoteLife!Next]_(RemoteLife!vars)
<1> SUFFICES ASSUME IInv, [Next]_vars PROVE [RemoteLife!Next]_(RemoteLife!vars)
  OBVIOUS
<1>1. /\ LifeStep(sock["remote"].fsm, sock'["remote"].fsm)
      /\ sock["remote"].fsm \in Flow /\ sock'["remote"].fsm \in Flow
  BY LifeGoesOn, IInvSplit, TypeStep DEF TypeOK, Sides, Socket
<1> QED
  BY <1>1 DEF LifeStep, LifeKept, LifeForward, LifeReadCloses, LifeWriteCloses,
     LifeEnds, HalvesKept, RemoteLife!Next, RemoteLife!vars, RemoteLife!Begin,
     RemoteLife!Establish, RemoteLife!RequestClose, RemoteLife!ReadCloses,
     RemoteLife!WriteCloses, RemoteLife!Error, Flow

\* Both flows of a new tunnel are at the beginning of their life.
LEMMA LifeInit == Init => LocalLife!Init /\ RemoteLife!Init
  BY DEF Init, NewSocket, NewFlow, Sides, LocalLife!Init, RemoteLife!Init

\* For any number of chunks, each of the two sockets of a tunnel goes through
\* the life the README gives a data flow: it is established once, each of its
\* directions closes once, it is Closing from the first of these closings or the
\* request for it until both are done, and nothing follows Closed.
THEOREM LifeCorrect == Spec => Lifecycles
<1>1. Init => LocalLife!Init /\ RemoteLife!Init
  BY LifeInit
<1>2. IInv /\ [Next]_vars => [LocalLife!Next]_(LocalLife!vars)
  BY LocalLifeStep
<1>3. IInv /\ [Next]_vars => [RemoteLife!Next]_(RemoteLife!vars)
  BY RemoteLifeStep
<1>4. Spec => []IInv
  BY Inductive
<1> QED
  BY <1>1, <1>2, <1>3, <1>4, PTL DEF Spec, Lifecycles, LocalLifecycle,
     RemoteLifecycle, LocalLife!Spec, RemoteLife!Spec
=============================================================================
