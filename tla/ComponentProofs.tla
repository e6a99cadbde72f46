-------------------------- MODULE ComponentProofs ---------------------------
(***************************************************************************)
(* Three components that stand alone.                                      *)
(*                                                                         *)
(* Speed: its invariants, and that it implements Race, for any finite      *)
(* number of branches.                                                     *)
(*                                                                         *)
(* TcpConnector: for any number of connectors, over any addresses,         *)
(* reachable or not, and any endpoint they share, a connector ends with    *)
(* the first address that accepts or after all have failed, the name is    *)
(* asked for once, and a connector keeps the promise of Answers.tla.       *)
(*                                                                         *)
(* Buffer: for any bytes and any bound on their number, the chunks are     *)
(* the text that the calls made, however they are read.                    *)
(***************************************************************************)
EXTENDS Speed, TcpConnector, Buffer,
        FiniteSetTheorems, SequenceTheorems, WellFoundedInduction, TLAPS

-----------------------------------------------------------------------------
(* SpeedDataFlow. *)

\* The transitions of the state machine that a race makes keep its type.
LEMMA UpperType ==
  ASSUME NEW f \in Flow
  PROVE  /\ ConnectBegin(f) \in Flow
         /\ ConnectBegin(f).state = "Establishing"
         /\ Connected(f) \in Flow
         /\ Connected(f).state = "Established"
  BY DEF Flow, States, ConnectBegin, Connected

\* A new flow is in state SpeedInit.
LEMMA NewFlowType == NewFlow("Remote") \in Flow /\ NewFlow("Remote").state = "Init"
  BY DEF NewFlow, Flow, States, Types

\* One more failure makes the count of the branches left smaller by one, and
\* it is zero exactly when every branch has failed.
LEMMA Count ==
  ASSUME NEW F \in SUBSET Branches, NEW i \in Branches \ F,
         NEW n, n = Cardinality(Branches \ F)
  PROVE  /\ n \in 1 .. Cardinality(Branches)
         /\ n - 1 \in 0 .. Cardinality(Branches)
         /\ n - 1 = Cardinality(Branches \ (F \cup {i}))
         /\ n - 1 = 0 <=> F \cup {i} = Branches
<1> DEFINE S == Branches \ F
           T == Branches \ (F \cup {i})
<1>1. IsFiniteSet(Branches) /\ Cardinality(Branches) \in Nat
  BY BranchesAssumption, FS_CardinalityType
<1>2. IsFiniteSet(S) /\ Cardinality(S) <= Cardinality(Branches)
  BY <1>1, FS_Subset
<1>3. T = S \ {i} /\ i \in S
  OBVIOUS
<1>4. IsFiniteSet(T) /\ Cardinality(T) = Cardinality(S) - 1
  <2> HIDE DEF S, T
  <2>1. /\ IsFiniteSet(S \ {i})
        /\ Cardinality(S \ {i}) = IF i \in S THEN Cardinality(S) - 1 ELSE Cardinality(S)
    BY <1>2, FS_RemoveElement
  <2> QED
    BY <1>3, <2>1
<1>5. Cardinality(S) \in Nat /\ Cardinality(T) \in Nat
  BY <1>2, <1>4, FS_CardinalityType
<1>6. Cardinality(T) = 0 <=> T = {}
  BY <1>4, FS_EmptySet
<1>7. T = {} <=> F \cup {i} = Branches
  OBVIOUS
<1> QED
  BY <1>1, <1>2, <1>4, <1>5, <1>6, <1>7

\* The count of all branches, with which a race begins.
LEMMA CountAll == /\ Cardinality(Branches) \in 0 .. Cardinality(Branches)
                  /\ Branches \ {} = Branches
<1>1. Cardinality(Branches) \in Nat
  BY BranchesAssumption, FS_CardinalityType
<1> QED
  BY <1>1

-----------------------------------------------------------------------------
(* The invariant is inductive. *)

\* No race has begun.
LEMMA InitIInv == SpeedInit => SpeedIInv
<1>1. 0 \in 0 .. Cardinality(Branches)
  BY BranchesAssumption, FS_CardinalityType
<1> QED
  BY <1>1, NewFlowType DEF SpeedInit, SpeedIInv, SpeedTypeOK, New

\* Connect arms every timer and counts every branch.
LEMMA ConnectIInv == ASSUME SpeedIInv, Connect PROVE SpeedIInv'
<1>1. New /\ SpeedTypeOK
  BY DEF SpeedIInv, Connect
<1>2. SpeedTypeOK'
  BY <1>1, CountAll, UpperType DEF SpeedTypeOK, Connect, New
<1>3. Racing'
  BY <1>1, CountAll, UpperType, NewFlowType, BranchesAssumption
     DEF SpeedTypeOK, Connect, New, Racing, Silent
<1> QED
  BY <1>2, <1>3 DEF SpeedIInv, Connect

\* What a timer or a cancelled callback does changes no count and no answer.
LEMMA QuietIInv ==
  ASSUME SpeedIInv, NEW i \in Branches,
         TimerExpires(i) \/ BranchStarts(i) \/ DropExpiry(i) \/ DropConnect(i)
  PROVE  SpeedIInv'
<1>1. SpeedTypeOK'
  BY DEF SpeedIInv, SpeedTypeOK, TimerExpires, BranchStarts, DropExpiry, DropConnect
<1>2. CASE TimerExpires(i) \/ BranchStarts(i)
  <2>1. stage = "racing"
    BY <1>2 DEF SpeedIInv, SpeedTypeOK, New, Answered, Destroyed, Silent, TimerExpires, BranchStarts
  <2>2. Racing'
    BY <1>2, <2>1 DEF SpeedIInv, SpeedTypeOK, Racing, Silent, TimerExpires, BranchStarts
  <2> QED
    BY <1>1, <1>2, <2>1, <2>2 DEF SpeedIInv, TimerExpires, BranchStarts
<1>3. CASE DropExpiry(i) \/ DropConnect(i)
  <2>1. \A j \in Branches : Silent(j) => Silent(j)'
    BY <1>3 DEF SpeedIInv, SpeedTypeOK, Silent, DropExpiry, DropConnect
  <2>2. stage # "new"
    BY <1>3 DEF SpeedIInv, New, DropExpiry, DropConnect
  <2>3. stage = "racing" => Racing'
    BY <1>3, <2>1 DEF SpeedIInv, SpeedTypeOK, Racing, DropExpiry, DropConnect
  <2>4. stage = "answered" => Answered'
    BY <1>3, <2>1 DEF SpeedIInv, Answered, DropExpiry, DropConnect
  <2>5. stage = "destroyed" => Destroyed'
    BY <1>3, <2>1 DEF SpeedIInv, Destroyed, AnswerIsTrue, DropExpiry, DropConnect
  <2> QED
    BY <1>1, <1>3, <2>2, <2>3, <2>4, <2>5 DEF SpeedIInv, DropExpiry, DropConnect
<1> QED
  BY <1>2, <1>3

\* A branch that waits for its connection does so in a race, and has not failed.
LEMMA WaitingRaces ==
  ASSUME SpeedIInv, NEW i \in Branches, conn[i] = "waiting"
  PROVE  stage = "racing" /\ Racing /\ i \notin failed /\ timer[i] = "off"
<1>1. stage = "racing"
  BY DEF SpeedIInv, SpeedTypeOK, New, Answered, Destroyed, Silent
<1> QED
  BY <1>1 DEF SpeedIInv, Racing, Silent

\* The last failure ends the race; another one lowers the count.
LEMMA BranchFailsIInv ==
  ASSUME SpeedIInv, NEW i \in Branches, BranchFails(i)
  PROVE  SpeedIInv'
<1>1. /\ stage = "racing" /\ Racing /\ SpeedTypeOK
      /\ i \in Branches \ failed /\ timer[i] = "off"
  BY WaitingRaces DEF SpeedIInv, BranchFails
<1>2. failed \in SUBSET Branches /\ active = Cardinality(Branches \ failed)
  BY <1>1 DEF SpeedTypeOK, Racing
<1>3. /\ active - 1 \in 0 .. Cardinality(Branches)
      /\ active - 1 = Cardinality(Branches \ (failed \cup {i}))
      /\ active - 1 = 0 <=> failed \cup {i} = Branches
  BY <1>1, <1>2, Count
<1>4. SpeedTypeOK'
  BY <1>1, <1>3 DEF SpeedTypeOK, BranchFails, ReportFailure
<1>5. conn'[i] = "none" /\ \A j \in Branches \ {i} : conn'[j] = conn[j]
  BY <1>1 DEF SpeedTypeOK, BranchFails
<1>6. CASE active - 1 = 0
  <2>1. \A j \in Branches : Silent(j)'
    BY <1>1, <1>3, <1>5, <1>6 DEF Racing, Silent, BranchFails
  <2>2. Answered'
    BY <1>1, <1>3, <1>6, <2>1 DEF Racing, Answered, BranchFails, ReportFailure
  <2> QED
    BY <1>4, <1>6, <2>2 DEF SpeedIInv, BranchFails, ReportFailure
<1>7. CASE active - 1 # 0
  <2>1. Racing'
    BY <1>1, <1>3, <1>5, <1>7 DEF Racing, Silent, BranchFails, ReportFailure
  <2> QED
    BY <1>1, <1>4, <1>7, <2>1 DEF SpeedIInv, BranchFails, ReportFailure
<1> QED
  BY <1>6, <1>7

\* A branch that connects ends the race and silences the others.
LEMMA BranchConnectsIInv ==
  ASSUME SpeedIInv, NEW i \in Branches, BranchConnects(i)
  PROVE  SpeedIInv'
<1>1. stage = "racing" /\ Racing /\ SpeedTypeOK /\ i \in Branches \ failed
  BY WaitingRaces DEF SpeedIInv, BranchConnects
<1>2. failed \in SUBSET Branches /\ active = Cardinality(Branches \ failed)
  BY <1>1 DEF SpeedTypeOK, Racing
<1>3. active - 1 \in 0 .. Cardinality(Branches)
  BY <1>1, <1>2, Count
<1>4. SpeedTypeOK'
  BY <1>1, <1>3, UpperType DEF SpeedTypeOK, BranchConnects, ClearTimers
<1>5. \A j \in Branches : Silent(j)'
  BY <1>1 DEF SpeedTypeOK, Silent, BranchConnects, ClearTimers
<1>6. Answered'
  BY <1>1, <1>5, UpperType DEF SpeedTypeOK, Answered, BranchConnects
<1> QED
  BY <1>4, <1>6 DEF SpeedIInv, BranchConnects

\* Destruction silences every branch.
LEMMA DestroyIInv == ASSUME SpeedIInv, Destroy PROVE SpeedIInv'
<1>1. SpeedTypeOK'
  BY DEF SpeedIInv, SpeedTypeOK, Destroy, ClearTimers, DestroyFlows
<1>2. \A j \in Branches : Silent(j)'
  BY DEF SpeedIInv, SpeedTypeOK, Silent, Destroy, ClearTimers, DestroyFlows
<1>3. AnswerIsTrue'
  BY BranchesAssumption
     DEF SpeedIInv, SpeedTypeOK, New, Racing, Answered, AnswerIsTrue, Destroy
<1> QED
  BY <1>1, <1>2, <1>3 DEF SpeedIInv, Destroyed, Destroy

\* SpeedIInv holds in every reachable state.
THEOREM SpeedInductive == SpeedSpec => []SpeedIInv
<1>1. SpeedIInv /\ [SpeedNext]_speedVars => SpeedIInv'
  <2> SUFFICES ASSUME SpeedIInv, [SpeedNext]_speedVars PROVE SpeedIInv'
    OBVIOUS
  <2>1. CASE Connect
    BY <2>1, ConnectIInv
  <2>2. CASE Destroy
    BY <2>2, DestroyIInv
  <2>3. ASSUME NEW i \in Branches, Branch(i) PROVE SpeedIInv'
    BY <2>3, QuietIInv, BranchFailsIInv, BranchConnectsIInv DEF Branch
  <2>4. CASE UNCHANGED speedVars
    BY <2>4 DEF speedVars, SpeedIInv, SpeedTypeOK, New, Racing, Answered, Destroyed, Silent,
                AnswerIsTrue
  <2> QED
    BY <2>1, <2>2, <2>3, <2>4 DEF SpeedNext, Done
<1> QED
  BY <1>1, InitIInv, PTL DEF SpeedSpec

-----------------------------------------------------------------------------
(* What follows. *)

\* Every reachable state is well-typed; the count never goes below zero
\* (current_active_connection_ is a size_t).
THEOREM TypeCorrect == SpeedSpec => []SpeedTypeOK
<1>1. SpeedIInv => SpeedTypeOK
  BY DEF SpeedIInv
<1> QED
  BY <1>1, SpeedInductive, PTL

\* No handler uses a branch that has been moved out or destroyed.
THEOREM IndexAlwaysValid == SpeedSpec => []IndexValid
<1>1. SpeedIInv => IndexValid
  BY DEF SpeedIInv, SpeedTypeOK, New, Racing, Answered, Destroyed, Silent, IndexValid
<1> QED
  BY <1>1, SpeedInductive, PTL

\* Connected() never asserts, and StateMachine() always has what it returns.
THEOREM StateMachineAlwaysValid == SpeedSpec => []StateMachineValid
<1>1. SpeedIInv => StateMachineValid
  <2> SUFFICES ASSUME SpeedIInv PROVE StateMachineValid
    OBVIOUS
  <2>1. ASSUME NEW i \in Branches, conn[i] = "waiting" PROVE CanConnected(upper)
    BY <2>1, WaitingRaces DEF Racing, CanConnected
  <2>2. ASSUME upper.state \notin {"Init", "Establishing", "Closed"}, stage # "destroyed"
        PROVE  kept # {}
    BY <2>2, NewFlowType DEF SpeedIInv, SpeedTypeOK, New, Racing, Answered
  <2> QED
    BY <2>1, <2>2 DEF StateMachineValid
<1> QED
  BY <1>1, SpeedInductive, PTL

\* The answer of a race is true, whatever the order of its branches.
THEOREM AnswerAlwaysTrue == SpeedSpec => []AnswerIsTrue
<1>1. SpeedIInv => AnswerIsTrue
  BY BranchesAssumption
     DEF SpeedIInv, SpeedTypeOK, New, Racing, Answered, Destroyed, AnswerIsTrue
<1> QED
  BY <1>1, SpeedInductive, PTL

\* No handler uses a branch that is gone, Connected() never asserts,
\* StateMachine() has what it returns, and the answer is true.
THEOREM AlwaysSafe == SpeedSpec => []RaceSafe
<1>1. IndexValid /\ StateMachineValid /\ AnswerIsTrue => RaceSafe
  BY DEF RaceSafe
<1> QED
  BY <1>1, IndexAlwaysValid, StateMachineAlwaysValid, AnswerAlwaysTrue, PTL

\* Every step of a race is a step of the abstract one, or none.
LEMMA RaceStep ==
  ASSUME SpeedIInv, [SpeedNext]_speedVars
  PROVE  [Abstract!Next]_(Abstract!vars)
<1> USE DEF Abstract!Next, Abstract!vars
<1>1. CASE Connect
  BY <1>1 DEF Connect, Abstract!Begin
<1>2. CASE Destroy
  BY <1>2 DEF SpeedIInv, SpeedTypeOK, Destroy, Abstract!Abandon, Answered
<1>3. ASSUME NEW i \in Branches, BranchFails(i) PROVE Abstract!Lose(i)
  <2>1. stage = "racing" /\ Racing /\ i \in Branches \ failed /\ failed \in SUBSET Branches
    BY <1>3, WaitingRaces DEF SpeedIInv, SpeedTypeOK, BranchFails
  <2>2. active - 1 = 0 <=> failed \cup {i} = Branches
    BY <2>1, Count DEF Racing
  <2>3. failed \cup {i} = Branches <=> Branches \ failed = {i}
    BY <2>1
  <2> QED
    BY <1>3, <2>1, <2>2, <2>3 DEF BranchFails, ReportFailure, Abstract!Lose
<1>4. ASSUME NEW i \in Branches, BranchConnects(i) PROVE Abstract!Win(i)
  <2>1. stage = "racing" /\ i \in Branches \ failed
    BY <1>4, WaitingRaces DEF BranchConnects
  <2> QED
    BY <1>4, <2>1 DEF BranchConnects, Abstract!Win
<1>5. ASSUME NEW i \in Branches,
             TimerExpires(i) \/ BranchStarts(i) \/ DropExpiry(i) \/ DropConnect(i)
      PROVE  UNCHANGED Abstract!vars
  BY <1>5 DEF TimerExpires, BranchStarts, DropExpiry, DropConnect
<1>6. CASE UNCHANGED speedVars
  BY <1>6 DEF speedVars
<1> QED
  BY <1>1, <1>2, <1>3, <1>4, <1>5, <1>6 DEF SpeedNext, Branch, Done

\* SpeedDataFlow implements Race: one answer, the first success or the last
\* failure.
THEOREM ImplementsRace == SpeedSpec => RaceSpec
<1>1. SpeedInit => Abstract!Init
  BY DEF SpeedInit, Abstract!Init
<1>2. SpeedIInv /\ [SpeedNext]_speedVars => [Abstract!Next]_(Abstract!vars)
  BY RaceStep
<1> QED
  BY <1>1, <1>2, SpeedInductive, PTL DEF SpeedSpec, RaceSpec, Abstract!Spec

-----------------------------------------------------------------------------
(* TcpConnector. *)

-----------------------------------------------------------------------------
(* The inductive invariant. *)

ConnectorTypes ==
  /\ via \in [Connectors -> {"addresses", "endpoint"}]
  /\ addrs \in [Connectors -> Targets \cup {<<>>}]
  /\ ind \in [Connectors -> Nat \ {0}]
  /\ phase \in [Connectors -> Phases]
  /\ canceled \in [Connectors -> BOOLEAN]
  /\ ep \in Records
  /\ asked \in [times : {0, 1}, valid : BOOLEAN] /\ asked.valid

\* The shared endpoint has been asked for its name never, now or before; it keeps
\* what it was told.
EndpointStage ==
  \/ /\ asked.times = 0 /\ ~ep.resolving /\ ~ep.resolved
     /\ (ep.type = "Domain") <=> (ep.addrs = <<>>)
  \/ asked.times = 1 /\ ep.resolving /\ ~ep.resolved /\ ep.type = "Domain" /\ ep.addrs = <<>>
  \/ asked.times = 1 /\ ~ep.resolving /\ ep.resolved /\ ep.type = "Domain"

\* Only one connector waits for the name.
OneResolves ==
  /\ \A c \in Connectors : phase[c] = "resolving" => ep.resolving
  /\ \A c, d \in Connectors : phase[c] = "resolving" /\ phase[d] = "resolving" => c = d

\* Which addresses a connector has, and that those before the present one refuse.
Progress(c) ==
  /\ \A i \in DOMAIN addrs[c] : i < ind[c] => addrs[c][i] \notin reach
  /\ phase[c] = "new" => /\ ~canceled[c] /\ ind[c] = 1
                         /\ (via[c] = "addresses") <=> (addrs[c] # <<>>)
  /\ phase[c] \in {"resolving", "posted"} => addrs[c] = <<>> /\ via[c] = "endpoint"
  /\ phase[c] \in {"connecting", "connected"} => addrs[c] # <<>> /\ ind[c] <= Len(addrs[c])
  /\ phase[c] = "connected" => addrs[c][ind[c]] \in reach
  /\ phase[c] = "failed" => addrs[c] = <<>> \/ ind[c] > Len(addrs[c])
  /\ phase[c] = "silent" => canceled[c]

ConnectorIInv == ConnectorTypes /\ EndpointStage /\ OneResolves /\ \A c \in Connectors : Progress(c)

\* What an action leaves alone of every connector but one.
OthersKeep(c) == \A d \in Connectors \ {c} :
  /\ via'[d] = via[d] /\ addrs'[d] = addrs[d] /\ ind'[d] = ind[d]
  /\ phase'[d] = phase[d] /\ canceled'[d] = canceled[d]

LEMMA OthersProgress ==
  ASSUME NEW c \in Connectors, \A d \in Connectors : Progress(d), OthersKeep(c),
         reach' = reach, Progress(c)'
  PROVE  \A d \in Connectors : Progress(d)'
BY DEF OthersKeep, Progress

-----------------------------------------------------------------------------
(* It is inductive. *)

\* A connector's addresses are a sequence, and one to try is at least one.
LEMMA AddressSequences ==
  ASSUME NEW route \in Targets \cup {<<>>}
  PROVE  route \in Seq(Addresses) /\ Len(route) \in Nat /\ DOMAIN route = 1..Len(route)
         /\ (route # <<>> => Len(route) >= 1)
<1>1. route \in Seq(Addresses)
  BY TargetsAssumption, EmptySeq
<1>2. route # <<>> => Len(route) \in Nat \ {0}
  BY <1>1, EmptySeq
<1>3. Len(route) \in Nat /\ DOMAIN route = 1..Len(route)
  BY <1>1
<1> QED
  BY <1>1, <1>2, <1>3

LEMMA InitInv == ConnectorInit => ConnectorIInv
<1> SUFFICES ASSUME ConnectorInit PROVE ConnectorIInv
  OBVIOUS
<1>0. PICK e \in Endpoints : ep = Dup(e)
  BY DEF ConnectorInit
<1>1. ConnectorTypes
  <2>1. ep \in Records
    BY <1>0, EndpointsAssumption DEF Dup, Records, EndpointRecords
  <2> QED
    BY <2>1 DEF ConnectorInit, ConnectorTypes, Phases
<1>2. EndpointStage
  BY <1>0, EndpointsAssumption DEF ConnectorInit, EndpointStage, Dup, Records, EndpointRecords
<1>3. OneResolves
  BY DEF ConnectorInit, OneResolves
<1>4. ASSUME NEW c \in Connectors PROVE Progress(c)
  <2>1. DOMAIN addrs[c] \subseteq Nat \ {0}
    BY <1>1, AddressSequences DEF ConnectorTypes
  <2> QED
    BY <2>1 DEF ConnectorInit, Progress
<1> QED
  BY <1>1, <1>2, <1>3, <1>4 DEF ConnectorIInv

\* A connector begins to try the addresses as, of which none has been tried.
LEMMA DoConnectFirst ==
  ASSUME ConnectorIInv, NEW c \in Connectors, NEW route \in Targets, DoConnect(c, route, 1),
         phase[c] \in {"new", "resolving"}, ~canceled[c], UNCHANGED <<via, canceled, reach>>
  PROVE  /\ addrs' \in [Connectors -> Targets \cup {<<>>}]
         /\ ind' \in [Connectors -> Nat \ {0}]
         /\ phase' = [phase EXCEPT ![c] = "connecting"]
         /\ \A d \in Connectors : Progress(d)'
<1>0. ConnectorTypes /\ Progress(c)
  BY DEF ConnectorIInv
<1>1. /\ route \in Seq(Addresses) /\ route # <<>>
      /\ Len(route) \in Nat /\ Len(route) >= 1 /\ DOMAIN route = 1..Len(route)
  <2>1. route # <<>> /\ route \in Targets \cup {<<>>}
    BY TargetsAssumption
  <2> QED
    BY <2>1, AddressSequences
<1>2. phase' = [phase EXCEPT ![c] = "connecting"]
  <2>1. ~(1 > Len(route))
    BY <1>1
  <2> QED
    BY <2>1 DEF DoConnect, Become
<1>3. /\ addrs' \in [Connectors -> Targets \cup {<<>>}]
      /\ ind' \in [Connectors -> Nat \ {0}]
  <2>1. addrs' = [addrs EXCEPT ![c] = route] /\ ind' = [ind EXCEPT ![c] = 1]
    BY DEF DoConnect
  <2> QED
    BY <1>0, <2>1 DEF ConnectorTypes
<1>4. Progress(c)'
  <2>1. addrs'[c] = route /\ ind'[c] = 1 /\ phase'[c] = "connecting"
    BY <1>0, <1>2 DEF ConnectorTypes, DoConnect
  <2>2. \A i \in DOMAIN route : ~(i < 1)
    BY <1>1
  <2> QED
    BY <1>1, <2>1, <2>2 DEF Progress
<1>5. OthersKeep(c)
  BY <1>2 DEF ConnectorIInv, ConnectorTypes, DoConnect, OthersKeep
<1> QED
  BY <1>2, <1>3, <1>4, <1>5, OthersProgress DEF ConnectorIInv

\* Connecting without resolving begins with addresses that are there.
LEMMA Directly ==
  ASSUME ConnectorIInv, NEW c \in Connectors, ConnectDirectly(c)
  PROVE  \E route \in Targets : DoConnect(c, route, 1)
<1>0. ConnectorTypes /\ EndpointStage /\ Progress(c)
  BY DEF ConnectorIInv
<1>1. CASE via[c] = "endpoint"
  <2>1. ep.addrs # <<>>
    BY <1>0, <1>1 DEF ConnectDirectly, EndpointStage, IsAddressAvailable
  <2>2. ep.addrs \in Targets
    BY <1>0, <2>1 DEF ConnectorTypes, Records, EndpointRecords
  <2> QED
    BY <1>1, <2>2 DEF ConnectDirectly
<1>2. CASE via[c] = "addresses"
  <2>1. addrs[c] \in Targets
    BY <1>0, <1>2 DEF ConnectDirectly, Progress, ConnectorTypes
  <2> QED
    BY <1>2, <2>1 DEF ConnectDirectly
<1> QED
  BY <1>0, <1>1, <1>2 DEF ConnectorTypes

LEMMA StepInv == ConnectorIInv /\ [ConnectorNext]_connectorVars => ConnectorIInv'
<1> SUFFICES ASSUME ConnectorIInv, [ConnectorNext]_connectorVars PROVE ConnectorIInv'
  OBVIOUS
<1> USE DEF ConnectorIInv
<1>1. ASSUME NEW c \in Connectors, ConnectDirectly(c) PROVE ConnectorIInv'
  <2>1. PICK route \in Targets : DoConnect(c, route, 1)
    BY <1>1, Directly
  <2>2. ~canceled[c] /\ phase[c] = "new"
    BY <1>1 DEF ConnectDirectly, Progress
  <2>3. /\ addrs' \in [Connectors -> Targets \cup {<<>>}]
        /\ ind' \in [Connectors -> Nat \ {0}]
        /\ phase' = [phase EXCEPT ![c] = "connecting"]
        /\ \A d \in Connectors : Progress(d)'
    BY <1>1, <2>1, <2>2, DoConnectFirst DEF ConnectDirectly
  <2> QED
    BY <1>1, <2>3 DEF ConnectDirectly, ConnectorTypes, Phases, EndpointStage, OneResolves
<1>2. ASSUME NEW c \in Connectors, ConnectUnresolvable(c) PROVE ConnectorIInv'
  <2>1. phase' = [phase EXCEPT ![c] = "posted"] /\ OthersKeep(c)
    BY <1>2 DEF ConnectUnresolvable, Become, OthersKeep, ConnectorTypes
  <2>2. Progress(c)'
    BY <1>2, <2>1 DEF ConnectUnresolvable, ConnectorTypes, Progress
  <2>3. \A d \in Connectors : Progress(d)'
    BY <1>2, <2>1, <2>2, OthersProgress DEF ConnectUnresolvable
  <2> QED
    BY <1>2, <2>1, <2>3 DEF ConnectUnresolvable, ConnectorTypes, Phases, EndpointStage, OneResolves
<1>3. ASSUME NEW c \in Connectors, ConnectResolving(c) PROVE ConnectorIInv'
  <2>1. phase' = [phase EXCEPT ![c] = "resolving"] /\ OthersKeep(c)
    BY <1>3 DEF ConnectResolving, Become, OthersKeep, ConnectorTypes
  <2>2. Progress(c)'
    BY <1>3, <2>1 DEF ConnectResolving, ConnectorTypes, Progress
  <2>3. \A d \in Connectors : Progress(d)'
    BY <1>3, <2>1, <2>2, OthersProgress DEF ConnectResolving
  <2>4. asked.times = 0 /\ ~ep.resolved /\ ep.type = "Domain" /\ ep.addrs = <<>>
    BY <1>3 DEF ConnectResolving, EndpointStage, ConnectorTypes, IsAddressAvailable, IsResolvable
  <2>5. /\ ep' \in Records /\ ep'.resolving /\ ~ep'.resolved
        /\ ep'.type = "Domain" /\ ep'.addrs = <<>>
    BY <1>3, <2>4 DEF ConnectResolving, ForceResolve, ConnectorTypes, Records, EndpointRecords
  <2>5a. asked' \in [times : {0, 1}, valid : BOOLEAN] /\ asked'.valid /\ asked'.times = 1
    BY <1>3, <2>4 DEF ConnectResolving, CanResolve, ConnectorTypes, Records, EndpointRecords
  <2>5b. EndpointStage' /\ ConnectorTypes'
    BY <1>3, <2>1, <2>5, <2>5a DEF ConnectResolving, EndpointStage, ConnectorTypes, Phases
  <2>6. OneResolves'
    BY <1>3, <2>1 DEF ConnectResolving, OneResolves, ConnectorTypes, ForceResolve
  <2> QED
    BY <2>3, <2>5b, <2>6
<1>4. ASSUME NEW c \in Connectors, ResolveEnds(c) PROVE ConnectorIInv'
  <2>1. PICK route \in Targets \cup {<<>>} :
          /\ ep' = Resolved(ep, route)
          /\ IF canceled[c] \/ route = <<>>
             THEN /\ Become(c, IF canceled[c] THEN "silent" ELSE "failed")
                  /\ UNCHANGED <<addrs, ind>>
             ELSE DoConnect(c, route, 1)
    BY <1>4 DEF ResolveEnds
  <2>2. phase[c] = "resolving" /\ UNCHANGED <<via, canceled, reach, asked>>
    BY <1>4 DEF ResolveEnds
  <2>3. EndpointStage' /\ ep'.type = ep.type
    BY <2>1, <2>2 DEF EndpointStage, ConnectorTypes, OneResolves, Resolved, Records, EndpointRecords
  <2>4. ep' \in Records /\ ~ep'.resolving
    BY <2>1 DEF ConnectorTypes, Resolved, Records, EndpointRecords
  <2>5. CASE canceled[c] \/ route = <<>>
    <3>1. /\ phase' = [phase EXCEPT ![c] = IF canceled[c] THEN "silent" ELSE "failed"]
          /\ OthersKeep(c) /\ UNCHANGED <<addrs, ind>>
      BY <2>1, <2>2, <2>5 DEF Become, OthersKeep, ConnectorTypes
    <3>2. Progress(c)'
      BY <2>2, <3>1 DEF ConnectorTypes, Progress
    <3>3. \A d \in Connectors : Progress(d)'
      BY <2>2, <3>1, <3>2, OthersProgress
    <3> QED
      BY <2>2, <2>3, <2>4, <3>1, <3>3 DEF ConnectorTypes, Phases, OneResolves
  <2>6. CASE ~canceled[c] /\ route # <<>>
    <3>1. route \in Targets /\ DoConnect(c, route, 1)
      BY <2>1, <2>6
    <3>2. /\ addrs' \in [Connectors -> Targets \cup {<<>>}]
          /\ ind' \in [Connectors -> Nat \ {0}]
          /\ phase' = [phase EXCEPT ![c] = "connecting"]
          /\ \A d \in Connectors : Progress(d)'
      BY <2>2, <2>6, <3>1, DoConnectFirst
    <3> QED
      BY <2>2, <2>3, <2>4, <3>2 DEF ConnectorTypes, Phases, OneResolves
  <2> QED
    BY <2>5, <2>6
<1>5. ASSUME NEW c \in Connectors, ReportResolveError(c) PROVE ConnectorIInv'
  <2>1. /\ phase' = [phase EXCEPT ![c] = IF canceled[c] THEN "silent" ELSE "failed"]
        /\ OthersKeep(c)
    BY <1>5 DEF ReportResolveError, Become, OthersKeep, ConnectorTypes
  <2>2. Progress(c)'
    BY <1>5, <2>1 DEF ReportResolveError, ConnectorTypes, Progress
  <2>3. \A d \in Connectors : Progress(d)'
    BY <1>5, <2>1, <2>2, OthersProgress DEF ReportResolveError
  <2> QED
    BY <1>5, <2>1, <2>3 DEF ReportResolveError, ConnectorTypes, Phases, EndpointStage, OneResolves
<1>6. ASSUME NEW c \in Connectors, AttemptFails(c) PROVE ConnectorIInv'
  <2>1. /\ phase' = [phase EXCEPT ![c] = IF canceled[c] THEN "silent"
                                        ELSE IF ind[c] + 1 > Len(addrs[c]) THEN "failed"
                                        ELSE "connecting"]
        /\ addrs' = addrs /\ ind' = [ind EXCEPT ![c] = ind[c] + 1] /\ OthersKeep(c)
    BY <1>6 DEF AttemptFails, DoConnect, Become, OthersKeep, ConnectorTypes
  <2>2. addrs[c] \in Seq(Addresses) /\ addrs[c] # <<>> /\ ind[c] \in Nat \ {0}
    BY <1>6, TargetsAssumption DEF AttemptFails, ConnectorTypes, Progress
  <2>3. Progress(c)'
    BY <1>6, <2>1, <2>2 DEF AttemptFails, ConnectorTypes, Progress
  <2>4. \A d \in Connectors : Progress(d)'
    BY <1>6, <2>1, <2>3, OthersProgress DEF AttemptFails
  <2> QED
    BY <1>6, <2>1, <2>2, <2>4 DEF AttemptFails, ConnectorTypes, Phases, EndpointStage, OneResolves
<1>7. ASSUME NEW c \in Connectors, AttemptSucceeds(c) PROVE ConnectorIInv'
  <2>1. /\ phase' = [phase EXCEPT ![c] = IF canceled[c] THEN "silent" ELSE "connected"]
        /\ OthersKeep(c)
    BY <1>7 DEF AttemptSucceeds, Become, OthersKeep, ConnectorTypes
  <2>2. Progress(c)'
    BY <1>7, <2>1 DEF AttemptSucceeds, ConnectorTypes, Progress
  <2>3. \A d \in Connectors : Progress(d)'
    BY <1>7, <2>1, <2>2, OthersProgress DEF AttemptSucceeds
  <2> QED
    BY <1>7, <2>1, <2>3 DEF AttemptSucceeds, ConnectorTypes, Phases, EndpointStage, OneResolves
<1>8. ASSUME NEW c \in Connectors, Cancel(c) PROVE ConnectorIInv'
  <2>1. canceled' = [canceled EXCEPT ![c] = TRUE] /\ OthersKeep(c)
    BY <1>8 DEF Cancel, OthersKeep, ConnectorTypes
  <2>2. Progress(c)'
    BY <1>8, <2>1 DEF Cancel, ConnectorTypes, Progress
  <2>3. \A d \in Connectors : Progress(d)'
    BY <1>8, <2>1, <2>2, OthersProgress DEF Cancel
  <2> QED
    BY <1>8, <2>1, <2>3 DEF Cancel, ConnectorTypes, EndpointStage, OneResolves
<1>9. CASE UNCHANGED connectorVars
  BY <1>9 DEF connectorVars, ConnectorTypes, EndpointStage, OneResolves, Progress
<1> QED
  BY <1>1, <1>2, <1>3, <1>4, <1>5, <1>6, <1>7, <1>8, <1>9 DEF ConnectorNext, Completes

\* The stages of every connector and of the endpoint hold in every reachable state.
THEOREM ConnectorInductive == ConnectorSpec => []ConnectorIInv
<1> QED
  BY InitInv, StepInv, PTL DEF ConnectorSpec

-----------------------------------------------------------------------------
(* What follows. *)

\* A connection is to the first address that accepts, failure means that none
\* does, and a shared endpoint is resolved once, without an assertion failing.
THEOREM ConnectorSafe == ConnectorSpec => []ConnectorInv
<1>1. ConnectorIInv => ConnectorInv
  <2> SUFFICES ASSUME ConnectorIInv PROVE ConnectorInv
    OBVIOUS
  <2>1. \A c \in Connectors : addrs[c] = <<>> \/ addrs[c] \in Seq(Addresses)
    BY TargetsAssumption DEF ConnectorIInv, ConnectorTypes
  <2>2. ConnectorTypeOK
    BY <2>1 DEF ConnectorIInv, ConnectorTypes, Progress, ConnectorTypeOK
  <2>3. FirstThatAccepts
    BY <2>1 DEF ConnectorIInv, ConnectorTypes, Progress, FirstThatAccepts
  <2>4. AskedOnce
    BY DEF ConnectorIInv, ConnectorTypes, AskedOnce
  <2> QED
    BY <2>2, <2>3, <2>4 DEF ConnectorInv
<1> QED
  BY <1>1, ConnectorInductive, PTL

-----------------------------------------------------------------------------
(* The promise of Answers.tla. *)

Calls == [c \in Connectors |-> CallOf(c)]
MayBecome(from, to) == \/ to = from
                       \/ from = "idle" /\ to = "open"
                       \/ from = "open" /\ to \in {"answered", "cancelled"}

\* What becomes of the call of one connector makes a step of Answers.
LEMMA CallStep ==
  ASSUME NEW c \in Connectors, \A d \in Connectors \ {c} : CallOf(d)' = CallOf(d),
         MayBecome(CallOf(c), CallOf(c)')
  PROVE  [Promise!Next]_Calls
<1>0. Calls' = [Calls EXCEPT ![c] = CallOf(c)'] /\ Calls[c] = CallOf(c)
  BY DEF Calls
<1>1. CASE CallOf(c)' = CallOf(c)
  BY <1>1 DEF Calls
<1>2. CASE CallOf(c) = "idle" /\ CallOf(c)' = "open"
  <2>1. Promise!Ask(c)
    BY <1>0, <1>2 DEF Promise!Ask, Calls
  <2> QED
    BY <2>1 DEF Promise!Next
<1>3. CASE CallOf(c) = "open" /\ CallOf(c)' = "answered"
  <2>1. Promise!Answer(c)
    BY <1>0, <1>3 DEF Promise!Answer, Calls
  <2> QED
    BY <2>1 DEF Promise!Next
<1>4. CASE CallOf(c) = "open" /\ CallOf(c)' = "cancelled"
  <2>1. Promise!Cancel({c})
    BY <1>4 DEF Promise!Cancel
  <2> QED
    BY <2>1 DEF Promise!Next
<1> QED
  BY <1>1, <1>2, <1>3, <1>4 DEF MayBecome

LEMMA PromiseStep == ConnectorIInv /\ [ConnectorNext]_connectorVars => [Promise!Next]_Calls
<1> SUFFICES ASSUME ConnectorIInv, [ConnectorNext]_connectorVars PROVE [Promise!Next]_Calls
  OBVIOUS
<1>0. /\ phase \in [Connectors -> Phases] /\ canceled \in [Connectors -> BOOLEAN]
      /\ \A c \in Connectors : Progress(c)
  BY DEF ConnectorIInv, ConnectorTypes
<1>1. ASSUME NEW c \in Connectors, ConnectDirectly(c) PROVE [Promise!Next]_Calls
  <2>1. PICK route \in Targets : DoConnect(c, route, 1)
    BY <1>1, Directly
  <2>2. phase[c] = "new" /\ ~canceled[c] /\ canceled' = canceled
    BY <1>0, <1>1 DEF ConnectDirectly, Progress
  <2>3. phase' = [phase EXCEPT ![c] = "connecting"]
    BY <1>1, <2>1, <2>2, DoConnectFirst DEF ConnectDirectly
  <2> QED
    BY <1>0, <2>2, <2>3, CallStep DEF CallOf, MayBecome
<1>2. ASSUME NEW c \in Connectors, ConnectUnresolvable(c) \/ ConnectResolving(c)
      PROVE  [Promise!Next]_Calls
  <2>1. phase[c] = "new" /\ ~canceled[c] /\ canceled' = canceled
    BY <1>0, <1>2 DEF ConnectUnresolvable, ConnectResolving, Progress
  <2>2. \E p \in {"posted", "resolving"} : phase' = [phase EXCEPT ![c] = p]
    BY <1>2 DEF ConnectUnresolvable, ConnectResolving, Become
  <2> QED
    BY <1>0, <2>1, <2>2, CallStep DEF CallOf, MayBecome
<1>3. ASSUME NEW c \in Connectors, Completes(c) PROVE [Promise!Next]_Calls
  <2>1. phase[c] \in {"resolving", "posted", "connecting"} /\ canceled' = canceled
    BY <1>3 DEF Completes, ResolveEnds, ReportResolveError, AttemptFails, AttemptSucceeds
  <2>2. CASE canceled[c]
    <3>1. phase' = [phase EXCEPT ![c] = "silent"]
      BY <1>3, <2>2 DEF Completes, ResolveEnds, ReportResolveError, AttemptFails,
                        AttemptSucceeds, DoConnect, Become
    <3> QED
      BY <1>0, <2>1, <2>2, <3>1, CallStep DEF CallOf, MayBecome
  <2>3. CASE ~canceled[c]
    <3>1. \E p \in {"connecting", "connected", "failed"} : phase' = [phase EXCEPT ![c] = p]
      BY <1>3, <2>3 DEF Completes, ResolveEnds, ReportResolveError, AttemptFails,
                        AttemptSucceeds, DoConnect, Become
    <3> QED
      BY <1>0, <2>1, <2>3, <3>1, CallStep DEF CallOf, MayBecome
  <2> QED
    BY <2>2, <2>3
<1>4. ASSUME NEW c \in Connectors, Cancel(c) PROVE [Promise!Next]_Calls
  <2>1. /\ phase[c] # "new" /\ ~canceled[c] /\ phase' = phase
        /\ canceled' = [canceled EXCEPT ![c] = TRUE]
    BY <1>4 DEF Cancel
  <2> QED
    BY <1>0, <2>1, CallStep DEF CallOf, MayBecome
<1>5. CASE UNCHANGED connectorVars
  BY <1>5 DEF connectorVars, Calls, CallOf
<1> QED
  BY <1>1, <1>2, <1>3, <1>4, <1>5 DEF ConnectorNext

\* A connector implements Answers: it answers at most once, and not after it was
\* cancelled, whatever it was waiting for.
THEOREM KeepsPromise == ConnectorSpec => ConnectPromise
<1>1. ConnectorInit => Promise!Init
  BY DEF ConnectorInit, Promise!Init, CallOf
<1>2. ConnectorIInv /\ [ConnectorNext]_connectorVars => [Promise!Next]_Calls
  BY PromiseStep
<1> QED
  BY <1>1, <1>2, ConnectorInductive, PTL DEF ConnectorSpec, ConnectPromise, Promise!Spec, Calls

-----------------------------------------------------------------------------
(* Buffer. *)

\* A set of naturals that is not empty has a least element.
LEMMA LeastElement ==
  ASSUME NEW T \in SUBSET Nat, T # {}
  PROVE  \E x \in T : \A y \in T : x <= y
<1> DEFINE W == {0..x : x \in T}
<1>1. W \subseteq FiniteSubsetsOf(Nat) /\ W # {}
  <2>1. ASSUME NEW x \in T PROVE 0..x \in SUBSET Nat /\ IsFiniteSet(0..x)
    BY FS_Interval
  <2> QED
    BY <2>1 DEF FiniteSubsetsOf
<1>2. PICK w \in W : \A v \in W : <<v, w>> \notin StrictSubsetOrdering(Nat)
  <2> HIDE DEF W
  <2> QED
    BY <1>1, FS_StrictSubsetOrderingWellFounded, WFMin
<1>3. PICK x \in T : w = 0..x
  OBVIOUS
<1>4. ASSUME NEW y \in T, y < x PROVE FALSE
  <2>1. /\ 0..y \subseteq 0..x /\ 0..y # 0..x
        /\ 0..y \in SUBSET Nat /\ 0..x \in SUBSET Nat
    <3>1. x \in Nat /\ y \in Nat /\ x \in 0..x /\ x \notin 0..y
      BY <1>4
    <3> QED
      BY <3>1, <1>4
  <2>2. <<0..y, w>> \in StrictSubsetOrdering(Nat)
    BY <1>3, <2>1 DEF StrictSubsetOrdering
  <2> QED
    BY <1>2, <2>2
<1> QED
  BY <1>4

\* What holds of 0, and of n + 1 when it holds of n, holds of every
\* natural: induction, with a set in place of a predicate.
LEMMA Induct ==
  ASSUME NEW S, 0 \in S, \A n \in Nat : n \in S => n + 1 \in S
  PROVE  Nat \subseteq S
<1> SUFFICES ASSUME Nat \ S # {} PROVE FALSE
  OBVIOUS
<1>1. PICK x \in Nat \ S : \A y \in Nat \ S : x <= y
  BY LeastElement
<1>2. x # 0 /\ x - 1 \in Nat /\ x - 1 < x
  BY <1>1
<1>3. x - 1 \in S
  BY <1>1, <1>2
<1> QED BY <1>2, <1>3

-----------------------------------------------------------------------------
(* Sequences. *)

\* Three parts of a sequence, grouped the other way.
Associates(S) == \A l, k, r \in Seq(S) : (l \o k) \o r = l \o (k \o r)

LEMMA GroupedAgain == ASSUME NEW S PROVE Associates(S)
BY ConcatAssociative DEF Associates

\* A sequence is its first n elements and the others.
LEMMA TakeDrop ==
  ASSUME NEW S, NEW s \in Seq(S), NEW n \in 0..Len(s)
  PROVE  /\ Take(s, n) \in Seq(S) /\ Len(Take(s, n)) = n
         /\ \A i \in 1..n : Take(s, n)[i] = s[i]
         /\ Drop(s, n) \in Seq(S) /\ Len(Drop(s, n)) = Len(s) - n
         /\ \A i \in 1..Len(s) - n : Drop(s, n)[i] = s[n + i]
         /\ Take(s, n) \o Drop(s, n) = s
<1>1. Len(s) \in Nat /\ n \in Int /\ n <= Len(s) /\ 0 <= n
  BY LenProperties
<1>2. \A i \in 1..n : s[i] \in S
  BY <1>1, ElementOfSeq
<1>3. \A i \in n + 1..Len(s) : s[i] \in S
  BY <1>1, ElementOfSeq
<1>4. /\ Take(s, n) \in Seq(S) /\ Len(Take(s, n)) = n
      /\ \A i \in 1..n : Take(s, n)[i] = s[i]
  <2>1. /\ SubSeq(s, 1, n) \in Seq(S)
        /\ Len(SubSeq(s, 1, n)) = IF 1 <= n THEN n - 1 + 1 ELSE 0
        /\ \A i \in 1..n - 1 + 1 : SubSeq(s, 1, n)[i] = s[1 + i - 1]
    BY <1>1, <1>2, SubSeqProperties
  <2> QED
    BY <1>1, <2>1 DEF Take
<1>5. /\ Drop(s, n) \in Seq(S) /\ Len(Drop(s, n)) = Len(s) - n
      /\ \A i \in 1..Len(s) - n : Drop(s, n)[i] = s[n + i]
  <2>1. /\ SubSeq(s, n + 1, Len(s)) \in Seq(S)
        /\ Len(SubSeq(s, n + 1, Len(s))) = IF n + 1 <= Len(s) THEN Len(s) - (n + 1) + 1 ELSE 0
        /\ \A i \in 1..Len(s) - (n + 1) + 1 : SubSeq(s, n + 1, Len(s))[i] = s[n + 1 + i - 1]
    BY <1>1, <1>3, SubSeqProperties
  <2> QED
    BY <1>1, <2>1 DEF Drop
<1>6. Take(s, n) \o Drop(s, n) = s
  <2>1. SubSeq(s, 1, n) \o SubSeq(s, n + 1, Len(s)) = SubSeq(s, 1, Len(s))
    <3>1. 1 \in 1..Len(s) + 1 /\ n \in 1 - 1..Len(s) /\ Len(s) \in n..Len(s)
      BY <1>1
    <3> QED
      BY <3>1, ConcatAdjacentSubSeq
  <2> QED
    BY <2>1, SubSeqFull DEF Take, Drop
<1> QED
  BY <1>4, <1>5, <1>6

\* Where one part of a sequence ends and the next one begins.
LEMMA SplitAt ==
  ASSUME NEW S, NEW s \in Seq(S), NEW t \in Seq(S)
  PROVE  Take(s \o t, Len(s)) = s /\ Drop(s \o t, Len(s)) = t
<1> DEFINE r == s \o t
           a == Take(r, Len(s))
           b == Drop(r, Len(s))
<1>1. /\ r \in Seq(S) /\ Len(r) = Len(s) + Len(t) /\ Len(s) \in Nat /\ Len(t) \in Nat
      /\ \A i \in 1..Len(s) + Len(t) : r[i] = IF i <= Len(s) THEN s[i] ELSE t[i - Len(s)]
  BY ConcatProperties, LenProperties
<1> HIDE DEF r
<1>2. /\ a \in Seq(S) /\ Len(a) = Len(s) /\ \A i \in 1..Len(s) : a[i] = r[i]
      /\ b \in Seq(S) /\ Len(b) = Len(t) /\ \A i \in 1..Len(t) : b[i] = r[Len(s) + i]
  <2>1. Len(s) \in 0..Len(r) /\ Len(r) - Len(s) = Len(t)
    BY <1>1
  <2>2. /\ a \in Seq(S) /\ Len(a) = Len(s) /\ \A i \in 1..Len(s) : a[i] = r[i]
        /\ b \in Seq(S) /\ Len(b) = Len(r) - Len(s)
        /\ \A i \in 1..Len(r) - Len(s) : b[i] = r[Len(s) + i]
    BY <1>1, <2>1, TakeDrop
  <2> HIDE DEF a, b
  <2> QED
    BY <2>1, <2>2
<1> HIDE DEF a, b
<1>3. \A i \in 1..Len(s) : a[i] = s[i]
  BY <1>1, <1>2
<1>4. \A i \in 1..Len(t) : b[i] = t[i]
  <2> TAKE i \in 1..Len(t)
  <2>1. Len(s) + i \in 1..Len(s) + Len(t) /\ ~(Len(s) + i <= Len(s)) /\ Len(s) + i - Len(s) = i
    BY <1>1
  <2>2. b[i] = r[Len(s) + i]
    BY <1>2
  <2>3. r[Len(s) + i] = t[Len(s) + i - Len(s)]
    BY <1>1, <2>1
  <2> QED
    BY <2>1, <2>2, <2>3
<1>5. a = s
  BY <1>2, <1>3, SeqEqual
<1>6. b = t
  BY <1>2, <1>4, SeqEqual
<1> QED
  BY <1>5, <1>6 DEF a, b, r

\* A place inside the middle part.
SplitsIn(a, m, z, p) == /\ Take(a \o (m \o z), Len(a) + p) = a \o Take(m, p)
                        /\ Drop(a \o (m \o z), Len(a) + p) = Drop(m, p) \o z

\* Taking and dropping up to a place inside the middle part.
LEMMA SplitIn ==
  ASSUME NEW S, NEW a \in Seq(S), NEW m \in Seq(S), NEW z \in Seq(S), NEW p \in 0..Len(m)
  PROVE  SplitsIn(a, m, z, p)
<1> DEFINE h == Take(m, p)
           t == Drop(m, p)
<1>1. h \in Seq(S) /\ t \in Seq(S) /\ Len(h) = p /\ m = h \o t
  BY TakeDrop
<1> HIDE DEF h, t
<1>2. (h \o t) \o z = h \o (t \o z)
  <2>1. Associates(S)
    BY GroupedAgain
  <2> QED
    BY <1>1, <2>1, Zenon DEF Associates
<1>3. t \o z \in Seq(S) /\ a \o h \in Seq(S) /\ Len(a \o h) = Len(a) + p
  BY <1>1, ConcatProperties
<1> DEFINE u == a \o h
           v == t \o z
<1>4. a \o (h \o v) = u \o v
  <2>1. v \in Seq(S) /\ a \in Seq(S) /\ h \in Seq(S)
    BY <1>1, <1>3
  <2> HIDE DEF v
  <2>2. (a \o h) \o v = a \o (h \o v)
    <3>1. Associates(S)
      BY GroupedAgain
    <3> QED
      BY <2>1, <3>1, Zenon DEF Associates
  <2> QED
    BY <2>2
<1>5. Take(u \o v, Len(u)) = u /\ Drop(u \o v, Len(u)) = v
  <2> HIDE DEF u, v
  <2>1. u \in Seq(S) /\ v \in Seq(S)
    BY <1>3 DEF u, v
  <2> QED
    BY <2>1, SplitAt
<1> QED
  BY <1>1, <1>2, <1>3, <1>4, <1>5 DEF h, t, SplitsIn

-----------------------------------------------------------------------------
(* Flattening. *)

\* What FlattenSeq computes part by part.
Joins(f, w, n) == f = [i \in 1..n |-> IF i = 1 THEN w[i] ELSE f[i - 1] \o w[i]]

\* The parts of any list can be joined, one after another.
LEMMA JoinExists ==
  ASSUME NEW w, NEW n \in Nat
  PROVE  \E f : Joins(f, w, n)
<1> DEFINE N == {k \in Nat : \E f : Joins(f, w, k)}
<1>1. 0 \in N
  <2> DEFINE f == [i \in 1..0 |-> <<>>]
  <2>1. Joins(f, w, 0)
    BY DEF Joins
  <2> QED
    BY <2>1
<1>2. ASSUME NEW k \in Nat, k \in N PROVE k + 1 \in N
  <2>1. PICK f : Joins(f, w, k)
    BY <1>2
  <2> DEFINE g == [i \in 1..k + 1 |-> IF i <= k THEN f[i]
                                      ELSE IF i = 1 THEN w[i] ELSE f[i - 1] \o w[i]]
  <2>2. \A i \in 1..k : f[i] = IF i = 1 THEN w[i] ELSE f[i - 1] \o w[i]
    BY <2>1 DEF Joins
  <2>3. ASSUME NEW i \in 1..k + 1 PROVE g[i] = IF i = 1 THEN w[i] ELSE g[i - 1] \o w[i]
    <3>1. CASE i = 1
      <4>1. i <= k => f[i] = w[i]
        BY <2>2, <3>1
      <4> QED
        BY <3>1, <4>1
    <3>2. CASE i # 1
      <4>1. i - 1 \in 1..k + 1 /\ i - 1 <= k
        BY <3>2
      <4>2. g[i - 1] = f[i - 1]
        BY <4>1
      <4>3. ASSUME i <= k PROVE f[i] = f[i - 1] \o w[i]
        <5>1. i \in 1..k
          BY <4>3
        <5> QED
          BY <2>2, <3>2, <5>1
      <4> QED
        BY <3>2, <4>2, <4>3
    <3> QED
      BY <3>1, <3>2
  <2>4. g = [i \in 1..k + 1 |-> IF i = 1 THEN w[i] ELSE g[i - 1] \o w[i]]
    <3>1. g = [i \in 1..k + 1 |-> g[i]]
      OBVIOUS
    <3> HIDE DEF g
    <3> QED
      BY <2>3, <3>1
  <2> HIDE DEF g
  <2>5. Joins(g, w, k + 1)
    BY <2>4 DEF Joins
  <2> QED
    BY <2>5
<1>3. Nat \subseteq N
  <2> HIDE DEF N
  <2> QED
    BY <1>1, <1>2, Induct
<1> QED
  BY <1>3

\* FlattenSeq joins the parts of a list.
LEMMA FlattenIs ==
  ASSUME NEW w, Len(w) \in Nat, Len(w) # 0
  PROVE  \E f : Joins(f, w, Len(w)) /\ FlattenSeq(w) = f[Len(w)]
<1> DEFINE F == CHOOSE f : f = [i \in 1..Len(w) |-> IF i = 1 THEN w[i] ELSE f[i - 1] \o w[i]]
<1>1. \E f : f = [i \in 1..Len(w) |-> IF i = 1 THEN w[i] ELSE f[i - 1] \o w[i]]
  BY JoinExists DEF Joins
<1>2. F = [i \in 1..Len(w) |-> IF i = 1 THEN w[i] ELSE F[i - 1] \o w[i]]
  BY <1>1
<1>3. FlattenSeq(w) = F[Len(w)]
  BY DEF FlattenSeq
<1> HIDE DEF F
<1>4. Joins(F, w, Len(w))
  BY <1>2 DEF Joins
<1> QED
  BY <1>3, <1>4

\* No parts, no text.
LEMMA FlattenEmpty == FlattenSeq(<<>>) = <<>>
<1>1. Len(<<>>) = 0
  BY EmptySeq
<1> QED
  BY <1>1 DEF FlattenSeq

\* One more part comes after the others.
LEMMA FlattenAppend ==
  ASSUME NEW C, NEW v \in Seq(Seq(C)), NEW d \in Seq(C)
  PROVE  FlattenSeq(Append(v, d)) = FlattenSeq(v) \o d
<1> DEFINE w == Append(v, d)
           n == Len(v)
<1>1. /\ n \in Nat /\ Len(w) = n + 1 /\ w[n + 1] = d
      /\ \A i \in 1..n : w[i] = v[i]
  BY LenProperties, AppendProperties
<1> HIDE DEF w
<1>2. PICK f : Joins(f, w, n + 1) /\ FlattenSeq(w) = f[n + 1]
  <2>1. Len(w) \in Nat /\ Len(w) # 0
    BY <1>1
  <2>2. \E f : Joins(f, w, Len(w)) /\ FlattenSeq(w) = f[Len(w)]
    BY <2>1, FlattenIs
  <2> QED
    BY <1>1, <2>2
<1>3. \A i \in 1..n + 1 : f[i] = IF i = 1 THEN w[i] ELSE f[i - 1] \o w[i]
  BY <1>2 DEF Joins
<1>4. CASE n = 0
  <2>1. v = <<>> /\ <<>> \o d = d
    BY <1>4, EmptySeq, ConcatEmptySeq
  <2>2. f[1] = w[1]
    BY <1>1, <1>3, <1>4
  <2> QED
    BY <1>1, <1>2, <1>4, <2>1, <2>2, FlattenEmpty DEF w
<1>5. CASE n # 0
  <2>1. PICK g : Joins(g, v, n) /\ FlattenSeq(v) = g[n]
    BY <1>1, <1>5, FlattenIs
  <2>2. \A i \in 1..n : g[i] = IF i = 1 THEN v[i] ELSE g[i - 1] \o v[i]
    BY <2>1 DEF Joins
  <2> DEFINE N == {k \in Nat : k + 1 \in 1..n => f[k + 1] = g[k + 1]}
  <2>3. 0 \in N
    BY <1>1, <1>3, <1>5, <2>2
  <2>4. ASSUME NEW k \in Nat, k \in N PROVE k + 1 \in N
    <3>1. ASSUME (k + 1) + 1 \in 1..n PROVE f[(k + 1) + 1] = g[(k + 1) + 1]
      <4>1. k + 1 \in 1..n /\ (k + 1) + 1 # 1 /\ ((k + 1) + 1) - 1 = k + 1 /\ (k + 1) + 1 \in 1..n + 1
        BY <1>1, <3>1
      <4>2. f[k + 1] = g[k + 1]
        BY <2>4, <4>1
      <4>3. f[(k + 1) + 1] = f[((k + 1) + 1) - 1] \o w[(k + 1) + 1]
        BY <1>3, <4>1
      <4>4. g[(k + 1) + 1] = g[((k + 1) + 1) - 1] \o v[(k + 1) + 1]
        BY <2>2, <3>1, <4>1
      <4> QED
        BY <1>1, <3>1, <4>1, <4>2, <4>3, <4>4
    <3> QED
      BY <3>1
  <2>5. Nat \subseteq N
    <3> HIDE DEF N
    <3> QED
      BY <2>3, <2>4, Induct
  <2>6. f[n] = g[n]
    <3>1. n - 1 \in Nat /\ (n - 1) + 1 = n /\ n \in 1..n
      BY <1>1, <1>5
    <3>2. n - 1 \in N
      BY <2>5, <3>1
    <3> QED
      BY <3>1, <3>2
  <2>7. f[n + 1] = f[n] \o w[n + 1]
    <3>1. n + 1 \in 1..n + 1 /\ n + 1 # 1 /\ (n + 1) - 1 = n
      BY <1>1, <1>5
    <3>2. f[n + 1] = f[(n + 1) - 1] \o w[n + 1]
      BY <1>3, <3>1
    <3> QED
      BY <3>1, <3>2
  <2> QED
    BY <1>1, <1>2, <2>1, <2>6, <2>7 DEF w
<1> QED
  BY <1>4, <1>5

\* Parts over a set flatten to a sequence over it.
LEMMA FlattenType ==
  ASSUME NEW C, NEW w \in Seq(Seq(C))
  PROVE  FlattenSeq(w) \in Seq(C)
<1> DEFINE N == {n \in Nat : \A v \in Seq(Seq(C)) : Len(v) = n => FlattenSeq(v) \in Seq(C)}
<1>1. 0 \in N
  <2>1. ASSUME NEW v \in Seq(Seq(C)), Len(v) = 0 PROVE FlattenSeq(v) \in Seq(C)
    BY <2>1, EmptySeq, FlattenEmpty
  <2> QED
    BY <2>1
<1>2. ASSUME NEW n \in Nat, n \in N PROVE n + 1 \in N
  <2>1. ASSUME NEW v \in Seq(Seq(C)), Len(v) = n + 1 PROVE FlattenSeq(v) \in Seq(C)
    <3>1. v # <<>>
      BY <1>2, <2>1, EmptySeq
    <3>2. PICK x \in Seq(Seq(C)), d \in Seq(C) : v = Append(x, d)
      BY <3>1, SequenceEmptyOrAppend
    <3>3. Len(x) = n
      <4>1. Len(v) = Len(x) + 1 /\ Len(x) \in Nat
        BY <3>2, AppendProperties, LenProperties
      <4> QED
        BY <1>2, <2>1, <4>1
    <3>4. FlattenSeq(x) \in Seq(C)
      BY <1>2, <3>3
    <3> QED
      BY <3>2, <3>4, FlattenAppend, ConcatProperties
  <2> QED
    BY <2>1
<1>3. Nat \subseteq N
  <2> HIDE DEF N
  <2> QED
    BY <1>1, <1>2, Induct
<1> QED
  BY <1>3, LenProperties

\* Two lists, one after the other, flatten to one text after the other.
LEMMA FlattenConcat ==
  ASSUME NEW C, NEW u \in Seq(Seq(C)), NEW w \in Seq(Seq(C))
  PROVE  FlattenSeq(u \o w) = FlattenSeq(u) \o FlattenSeq(w)
<1> DEFINE N == {n \in Nat : \A v \in Seq(Seq(C)) :
                   Len(v) = n => FlattenSeq(u \o v) = FlattenSeq(u) \o FlattenSeq(v)}
<1>1. 0 \in N
  <2>1. ASSUME NEW v \in Seq(Seq(C)), Len(v) = 0
        PROVE  FlattenSeq(u \o v) = FlattenSeq(u) \o FlattenSeq(v)
    <3>1. v = <<>> /\ u \o <<>> = u
      BY <2>1, EmptySeq, ConcatEmptySeq
    <3>2. FlattenSeq(u) \o <<>> = FlattenSeq(u)
      BY FlattenType, ConcatEmptySeq
    <3> QED
      BY <3>1, <3>2, FlattenEmpty
  <2> QED
    BY <2>1
<1>2. ASSUME NEW n \in Nat, n \in N PROVE n + 1 \in N
  <2>1. ASSUME NEW v \in Seq(Seq(C)), Len(v) = n + 1
        PROVE  FlattenSeq(u \o v) = FlattenSeq(u) \o FlattenSeq(v)
    <3>1. v # <<>>
      BY <1>2, <2>1, EmptySeq
    <3>2. PICK x \in Seq(Seq(C)), d \in Seq(C) : v = Append(x, d)
      BY <3>1, SequenceEmptyOrAppend
    <3>3. Len(x) = n
      <4>1. Len(v) = Len(x) + 1 /\ Len(x) \in Nat
        BY <3>2, AppendProperties, LenProperties
      <4> QED
        BY <1>2, <2>1, <4>1
    <3>4. FlattenSeq(u \o x) = FlattenSeq(u) \o FlattenSeq(x)
      BY <1>2, <3>3
    <3>5. u \o x \in Seq(Seq(C)) /\ u \o Append(x, d) = Append(u \o x, d)
      <4>1. u \o x \in Seq(Seq(C)) /\ <<d>> \in Seq(Seq(C))
        BY ConcatProperties
      <4>2. Append(x, d) = x \o <<d>> /\ Append(u \o x, d) = (u \o x) \o <<d>>
        BY <4>1, AppendIsConcat
      <4>3. (u \o x) \o <<d>> = u \o (x \o <<d>>)
        <5>1. Associates(Seq(C))
          BY GroupedAgain
        <5> QED
          BY <4>1, <5>1, Zenon DEF Associates
      <4> QED
        BY <4>1, <4>2, <4>3
    <3>6. FlattenSeq(Append(u \o x, d)) = FlattenSeq(u \o x) \o d
      BY <3>5, FlattenAppend
    <3>7. FlattenSeq(Append(x, d)) = FlattenSeq(x) \o d
      BY FlattenAppend
    <3>8. (FlattenSeq(u) \o FlattenSeq(x)) \o d = FlattenSeq(u) \o (FlattenSeq(x) \o d)
      <4> DEFINE p == FlattenSeq(u)
                 q == FlattenSeq(x)
      <4>1. p \in Seq(C) /\ q \in Seq(C)
        BY FlattenType
      <4> HIDE DEF p, q
      <4>2. (p \o q) \o d = p \o (q \o d)
        <5>1. Associates(C)
          BY GroupedAgain
        <5> QED
          BY <4>1, <5>1, Zenon DEF Associates
      <4> QED
        BY <4>2 DEF p, q
    <3> QED
      BY <3>2, <3>4, <3>5, <3>6, <3>7, <3>8
  <2> QED
    BY <2>1
<1>3. Nat \subseteq N
  <2> HIDE DEF N
  <2> QED
    BY <1>1, <1>2, Induct
<1> QED
  BY <1>3, LenProperties

\* One part is its own text.
LEMMA FlattenOne ==
  ASSUME NEW C, NEW d \in Seq(C)
  PROVE  FlattenSeq(<<d>>) = d
<1>1. <<>> \in Seq(Seq(C)) /\ Append(<<>>, d) = <<d>> /\ <<>> \o d = d
  BY EmptySeq, ConcatEmptySeq
<1> QED
  BY <1>1, FlattenAppend, FlattenEmpty

-----------------------------------------------------------------------------
(* Chunks. *)

Char  == Bytes \cup {Junk}
Chunk == [front : Nat, data : Seq(Char) \ {<<>>}, spare : Nat]

DataOf(chunks) == [i \in 1..Len(chunks) |-> chunks[i].data]

\* The data of chunks are their parts.
LEMMA DataType ==
  ASSUME NEW cs \in Seq(Chunk)
  PROVE  /\ DataOf(cs) \in Seq(Seq(Char)) /\ Len(DataOf(cs)) = Len(cs)
         /\ \A i \in 1..Len(cs) : DataOf(cs)[i] = cs[i].data
<1>1. \A i \in 1..Len(cs) : cs[i].data \in Seq(Char)
  <2> TAKE i \in 1..Len(cs)
  <2>1. cs[i] \in Chunk
    BY ElementOfSeq
  <2> QED
    BY <2>1 DEF Chunk
<1>2. Len(cs) \in Nat
  BY LenProperties
<1> QED
  BY <1>1, <1>2 DEF DataOf

\* The text of chunks is a sequence of bytes.
LEMMA TextType ==
  ASSUME NEW cs \in Seq(Chunk)
  PROVE  TextOf(cs) \in Seq(Char) /\ Len(TextOf(cs)) \in Nat /\ Len(cs) \in Nat
<1>1. TextOf(cs) \in Seq(Char)
  BY DataType, FlattenType DEF TextOf, DataOf
<1> QED
  BY <1>1, LenProperties

\* The text of chunks one after the other.
LEMMA TextConcat ==
  ASSUME NEW cs \in Seq(Chunk), NEW ds \in Seq(Chunk)
  PROVE  cs \o ds \in Seq(Chunk) /\ TextOf(cs \o ds) = TextOf(cs) \o TextOf(ds)
<1> DEFINE es == cs \o ds
           x  == DataOf(cs)
           y  == DataOf(ds)
           z  == DataOf(es)
<1>1. /\ es \in Seq(Chunk) /\ Len(es) = Len(cs) + Len(ds) /\ Len(cs) \in Nat /\ Len(ds) \in Nat
      /\ \A i \in 1..Len(cs) + Len(ds) : es[i] = IF i <= Len(cs) THEN cs[i] ELSE ds[i - Len(cs)]
  BY ConcatProperties, LenProperties
<1> HIDE DEF es
<1>2. /\ x \in Seq(Seq(Char)) /\ Len(x) = Len(cs) /\ \A i \in 1..Len(cs) : x[i] = cs[i].data
      /\ y \in Seq(Seq(Char)) /\ Len(y) = Len(ds) /\ \A i \in 1..Len(ds) : y[i] = ds[i].data
      /\ z \in Seq(Seq(Char)) /\ Len(z) = Len(es) /\ \A i \in 1..Len(es) : z[i] = es[i].data
  BY <1>1, DataType
<1> HIDE DEF x, y, z
<1>3. /\ x \o y \in Seq(Seq(Char)) /\ Len(x \o y) = Len(cs) + Len(ds)
      /\ \A i \in 1..Len(cs) + Len(ds) : (x \o y)[i] = IF i <= Len(cs) THEN x[i] ELSE y[i - Len(cs)]
  <2>1. /\ x \o y \in Seq(Seq(Char)) /\ Len(x \o y) = Len(x) + Len(y)
        /\ \A i \in 1..Len(x) + Len(y) : (x \o y)[i] = IF i <= Len(x) THEN x[i] ELSE y[i - Len(x)]
    <3>1. x \in Seq(Seq(Char)) /\ y \in Seq(Seq(Char))
      BY <1>2
    <3> QED
      BY <3>1, ConcatProperties
  <2>2. Len(x) = Len(cs) /\ Len(y) = Len(ds)
    BY <1>2
  <2> QED
    BY <2>1, <2>2
<1>4. \A i \in 1..Len(z) : z[i] = (x \o y)[i]
  <2> TAKE i \in 1..Len(z)
  <2>1. i \in 1..Len(cs) + Len(ds)
    BY <1>1, <1>2
  <2>2. CASE i <= Len(cs)
    <3>1. i \in 1..Len(cs)
      BY <1>1, <2>1, <2>2
    <3> QED
      BY <1>1, <1>2, <1>3, <2>1, <2>2, <3>1
  <2>3. CASE ~(i <= Len(cs))
    <3>1. i - Len(cs) \in 1..Len(ds)
      BY <1>1, <2>1, <2>3
    <3> QED
      BY <1>1, <1>2, <1>3, <2>1, <2>3, <3>1
  <2> QED
    BY <2>2, <2>3
<1>5. z = x \o y
  BY <1>1, <1>2, <1>3, <1>4, SeqEqual
<1>6. FlattenSeq(x \o y) = FlattenSeq(x) \o FlattenSeq(y)
  BY <1>2, FlattenConcat
<1> QED
  BY <1>1, <1>5, <1>6 DEF TextOf, DataOf, x, y, z, es

\* The text of one chunk is its data.
LEMMA TextOne ==
  ASSUME NEW c \in Chunk
  PROVE  <<c>> \in Seq(Chunk) /\ TextOf(<<c>>) = c.data /\ Len(<<c>>) = 1 /\ Len(c.data) \in Nat \ {0}
<1>1. <<c>> \in Seq(Chunk) /\ Len(<<c>>) = 1 /\ <<c>>[1] = c
  OBVIOUS
<1>2. c.data \in Seq(Char) /\ c.data # <<>>
  BY DEF Chunk
<1>3. DataOf(<<c>>) = <<c.data>>
  BY <1>1 DEF DataOf
<1> QED
  BY <1>1, <1>2, <1>3, FlattenOne, EmptySeq DEF TextOf, DataOf

\* The text of no chunk is empty.
LEMMA TextEmpty == <<>> \in Seq(Chunk) /\ TextOf(<<>>) = <<>> /\ Len(<<>>) = 0
<1>1. <<>> \in Seq(Chunk) /\ Len(<<>>) = 0
  BY EmptySeq
<1>2. DataOf(<<>>) = <<>>
  BY <1>1, DataType, EmptySeq
<1> QED
  BY <1>1, <1>2, FlattenEmpty DEF TextOf, DataOf

\* Around one chunk.
LEMMA Middle ==
  ASSUME NEW cs \in Seq(Chunk), NEW i \in 1..Len(cs)
  PROVE  LET c == cs[i]  pre == Take(cs, i - 1)  post == Drop(cs, i) IN
         /\ c \in Chunk /\ c.data \in Seq(Char) /\ Len(c.data) \in Nat \ {0}
         /\ pre \in Seq(Chunk) /\ Len(pre) = i - 1 /\ post \in Seq(Chunk) /\ Len(post) = Len(cs) - i
         /\ TextOf(pre) \in Seq(Char) /\ TextOf(post) \in Seq(Char)
         /\ TextOf(cs) = TextOf(pre) \o (c.data \o TextOf(post))
         /\ TextOf(Take(cs, i)) = TextOf(pre) \o c.data
<1> DEFINE c == cs[i]
           pre == Take(cs, i - 1)
           post == Drop(cs, i)
           upto == Take(cs, i)
<1>1. /\ c \in Chunk /\ Len(cs) \in Nat /\ i \in Nat /\ i - 1 \in 0..Len(cs) /\ i \in 0..Len(cs)
      /\ <<c>> \in Seq(Chunk) /\ TextOf(<<c>>) = c.data /\ Len(c.data) \in Nat \ {0}
  <2>1. c \in Chunk /\ Len(cs) \in Nat
    BY ElementOfSeq, LenProperties
  <2> HIDE DEF c
  <2>2. <<c>> \in Seq(Chunk) /\ TextOf(<<c>>) = c.data /\ Len(c.data) \in Nat \ {0}
    BY <2>1, TextOne
  <2> QED
    BY <2>1, <2>2
<1>2. /\ pre \in Seq(Chunk) /\ Len(pre) = i - 1
      /\ upto \in Seq(Chunk) /\ post \in Seq(Chunk) /\ Len(post) = Len(cs) - i
      /\ upto \o post = cs
  BY <1>1, TakeDrop
<1>3. upto = pre \o <<c>>
  <2>1. i \in 1..Len(cs) /\ 1 \in 1..Len(cs) /\ i \in 1..Len(cs)
    BY <1>1
  <2>2. SubSeq(cs, 1, i) = SubSeq(cs, 1, i - 1) \o <<cs[i]>>
    BY <2>1, SubSeqRecursiveSecond
  <2> QED
    BY <2>2 DEF Take
<1> HIDE DEF c, pre, post, upto
<1>4. TextOf(upto) = TextOf(pre) \o c.data
  <2>1. TextOf(pre \o <<c>>) = TextOf(pre) \o TextOf(<<c>>)
    BY <1>1, <1>2, TextConcat
  <2> QED
    BY <1>1, <1>3, <2>1
<1>5. TextOf(cs) = (TextOf(pre) \o c.data) \o TextOf(post)
  BY <1>2, <1>4, TextConcat
<1>6. TextOf(pre) \in Seq(Char) /\ TextOf(post) \in Seq(Char) /\ c.data \in Seq(Char)
  BY <1>1, <1>2, TextType DEF Chunk
<1>7. (TextOf(pre) \o c.data) \o TextOf(post) = TextOf(pre) \o (c.data \o TextOf(post))
  <2> DEFINE x == TextOf(pre)
             y == c.data
             z == TextOf(post)
  <2>1. x \in Seq(Char) /\ y \in Seq(Char) /\ z \in Seq(Char)
    BY <1>6
  <2> HIDE DEF x, y, z
  <2>2. (x \o y) \o z = x \o (y \o z)
    <3>1. Associates(Char)
      BY GroupedAgain
    <3> QED
      BY <2>1, <3>1, Zenon DEF Associates
  <2> QED
    BY <2>2 DEF x, y, z
<1> QED
  BY <1>1, <1>2, <1>4, <1>5, <1>6, <1>7 DEF c, pre, post, upto

Buffers == [chunks : Seq(Chunk), tail : Nat, size : Nat]

\* What a buffer keeps of itself.
Consistent(b) == b \in Buffers /\ b.tail = Len(b.chunks) /\ b.size = Len(Text(b))

\* The bytes before each chunk, counted along the list.
LEMMA Places ==
  ASSUME NEW b, Consistent(b)
  PROVE  /\ b.size \in Nat /\ Len(b.chunks) \in Nat
         /\ Before(b, 1) = 0 /\ Before(b, Len(b.chunks) + 1) = b.size
         /\ \A i \in 1..Len(b.chunks) + 1 : Before(b, i) \in Nat
         /\ \A i \in 1..Len(b.chunks) :
              /\ Before(b, i + 1) = Before(b, i) + Len(b.chunks[i].data)
              /\ Len(b.chunks[i].data) \in Nat \ {0}
              /\ Before(b, i + 1) <= b.size
<1> DEFINE cs == b.chunks
<1>1. cs \in Seq(Chunk) /\ b.size = Len(TextOf(cs)) /\ b.size \in Nat /\ Len(cs) \in Nat
  BY LenProperties DEF Consistent, Buffers, Text
<1>2. Before(b, 1) = 0
  <2>1. Take(cs, 1 - 1) = <<>>
    BY SubSeqEmpty DEF Take
  <2> QED
    BY <2>1, TextEmpty, EmptySeq DEF Before
<1>3. Before(b, Len(cs) + 1) = b.size
  <2>1. (Len(cs) + 1) - 1 = Len(cs)
    BY <1>1
  <2>2. Take(cs, Len(cs)) = cs
    BY <1>1, SubSeqFull DEF Take
  <2> QED
    BY <1>1, <2>1, <2>2 DEF Before
<1>4. ASSUME NEW i \in 1..Len(cs) + 1 PROVE Before(b, i) \in Nat
  <2>1. i - 1 \in 0..Len(cs)
    BY <1>1
  <2> QED
    BY <1>1, <2>1, TakeDrop, TextType DEF Before
<1>5. ASSUME NEW i \in 1..Len(cs)
      PROVE  /\ Before(b, i + 1) = Before(b, i) + Len(cs[i].data)
             /\ Len(cs[i].data) \in Nat \ {0} /\ Before(b, i + 1) <= b.size
  <2> DEFINE x == TextOf(Take(cs, i - 1))
             y == cs[i].data
             z == TextOf(Drop(cs, i))
  <2>1. /\ x \in Seq(Char) /\ y \in Seq(Char) /\ z \in Seq(Char) /\ Len(y) \in Nat \ {0}
        /\ TextOf(cs) = x \o (y \o z) /\ TextOf(Take(cs, i)) = x \o y
    BY <1>1, Middle
  <2>2. Before(b, i) = Len(x) /\ Before(b, i + 1) = Len(TextOf(Take(cs, i)))
    <3>1. (i + 1) - 1 = i
      BY <1>1
    <3> QED
      BY <3>1 DEF Before
  <2> HIDE DEF x, y, z, cs
  <2>3. /\ Len(x) \in Nat /\ Len(z) \in Nat /\ Len(x \o y) = Len(x) + Len(y)
        /\ Len(x \o (y \o z)) = Len(x) + (Len(y) + Len(z))
    <3>1. y \o z \in Seq(Char) /\ Len(y \o z) = Len(y) + Len(z)
      BY <2>1, ConcatProperties
    <3> QED
      BY <2>1, <3>1, ConcatProperties, LenProperties
  <2>4. Before(b, i + 1) = Len(x) + Len(y) /\ b.size = Len(x) + (Len(y) + Len(z))
    BY <1>1, <2>1, <2>2, <2>3
  <2> QED
    BY <2>1, <2>2, <2>3, <2>4 DEF y
<1> QED
  BY <1>1, <1>2, <1>3, <1>4, <1>5

\* The walks end at a chunk.
LEMMA ChunkAtIs ==
  ASSUME NEW b, Consistent(b), NEW skip \in Nat, skip < b.size
  PROVE  /\ ChunkAt(b, skip) \in 1..Len(b.chunks)
         /\ Before(b, ChunkAt(b, skip)) <= skip /\ skip < Before(b, ChunkAt(b, skip) + 1)
<1> DEFINE L == Len(b.chunks)
           P(i) == Before(b, i)
           T == {i \in 1..L : skip < P(i + 1)}
<1>1. /\ L \in Nat /\ P(1) = 0 /\ P(L + 1) = b.size /\ \A i \in 1..L + 1 : P(i) \in Nat
      /\ DOMAIN b.chunks = 1..L
  <2>1. b.chunks \in Seq(Chunk)
    BY DEF Consistent, Buffers
  <2> QED
    BY <2>1, Places, LenProperties
<1> HIDE DEF P, L
<1>2. L \in T
  <2>1. L # 0
    BY <1>1
  <2> QED
    BY <1>1, <2>1
<1>3. PICK i \in T : \A j \in T : i <= j
  <2>1. T \in SUBSET Nat /\ T # {}
    <3>1. T # {}
      BY <1>2
    <3>2. T \subseteq 1..L
      OBVIOUS
    <3> QED
      BY <3>1, <3>2
  <2> HIDE DEF T
  <2> QED
    BY <2>1, LeastElement
<1>4. i \in 1..L /\ P(i) <= skip /\ skip < P(i + 1)
  <2>1. CASE i = 1
    BY <1>1, <2>1
  <2>2. CASE i # 1
    <3>1. i - 1 \in 1..L /\ ~(i <= i - 1) /\ (i - 1) + 1 = i
      BY <1>1, <2>2
    <3>2. i - 1 \notin T
      BY <1>3, <3>1
    <3>3. ~(skip < P(i))
      BY <3>1, <3>2
    <3> QED
      BY <1>1, <3>1, <3>3
  <2> QED
    BY <2>1, <2>2
<1>5. \E k \in DOMAIN b.chunks : Before(b, k) <= skip /\ skip < Before(b, k + 1)
  BY <1>1, <1>4 DEF P
<1> QED
  BY <1>1, <1>5 DEF ChunkAt, L

\* At a border of two chunks this walk ends at the earlier one.
LEMMA ChunkUpToIs ==
  ASSUME NEW b, Consistent(b), NEW pos \in Nat, pos # 0, pos <= b.size
  PROVE  /\ ChunkUpTo(b, pos) \in 1..Len(b.chunks)
         /\ Before(b, ChunkUpTo(b, pos)) < pos /\ pos <= Before(b, ChunkUpTo(b, pos) + 1)
<1> DEFINE at == pos - 1
           i == ChunkAt(b, at)
<1>1. at \in Nat /\ at < b.size
  BY Places
<1>2. i \in 1..Len(b.chunks) /\ Before(b, i) <= at /\ at < Before(b, i + 1)
  BY <1>1, ChunkAtIs
<1>3. Before(b, i) \in Nat /\ Before(b, i + 1) \in Nat
  <2>1. i \in 1..Len(b.chunks) + 1 /\ i + 1 \in 1..Len(b.chunks) + 1
    BY <1>2, Places
  <2> QED
    BY <2>1, Places
<1>4. Before(b, i) < pos /\ pos <= Before(b, i + 1)
  <2> HIDE DEF i
  <2> QED
    BY <1>2, <1>3
<1>5. i \in DOMAIN b.chunks /\ DOMAIN b.chunks = 1..Len(b.chunks)
  <2>1. b.chunks \in Seq(Chunk)
    BY DEF Consistent, Buffers
  <2> QED
    BY <1>2, <2>1, LenProperties
<1>6. \E k \in DOMAIN b.chunks : Before(b, k) < pos /\ pos <= Before(b, k + 1)
  BY <1>4, <1>5
<1> QED
  BY <1>5, <1>6 DEF ChunkUpTo

\* A chunk replaced by another.
IsReplaced(r, cs, i, c) ==
  /\ r \in Seq(Chunk) /\ Len(r) = Len(cs) /\ r[i] = c
  /\ \A j \in 1..Len(cs) : j # i => r[j] = cs[j]
  /\ Take(r, i - 1) = Take(cs, i - 1) /\ Drop(r, i) = Drop(cs, i)
  /\ TextOf(r) = TextOf(Take(cs, i - 1)) \o (c.data \o TextOf(Drop(cs, i)))

\* A chunk replaced stays one of a list of chunks, between the same ones.
LEMMA Replaced ==
  ASSUME NEW cs \in Seq(Chunk), NEW i \in 1..Len(cs), NEW c \in Chunk
  PROVE  IsReplaced([cs EXCEPT ![i] = c], cs, i, c)
<1> DEFINE r == [cs EXCEPT ![i] = c]
<1>1. /\ r \in Seq(Chunk) /\ Len(r) = Len(cs) /\ Len(cs) \in Nat /\ i \in Nat
      /\ \A j \in 1..Len(cs) : r[j] = IF j = i THEN c ELSE cs[j]
  BY ExceptSeq, LenProperties
<1> HIDE DEF r
<1>2. i - 1 \in 0..Len(cs) /\ i \in 0..Len(cs) /\ i - 1 \in 0..Len(r) /\ i \in 0..Len(r)
  BY <1>1
<1>3. Take(r, i - 1) = Take(cs, i - 1)
  <2> DEFINE x == Take(r, i - 1)
             y == Take(cs, i - 1)
  <2>1. /\ x \in Seq(Chunk) /\ Len(x) = i - 1 /\ \A j \in 1..i - 1 : x[j] = r[j]
        /\ y \in Seq(Chunk) /\ Len(y) = i - 1 /\ \A j \in 1..i - 1 : y[j] = cs[j]
    BY <1>1, <1>2, TakeDrop
  <2> HIDE DEF x, y
  <2>2. \A j \in 1..i - 1 : x[j] = y[j]
    <3> TAKE j \in 1..i - 1
    <3>1. j \in 1..Len(cs) /\ j # i
      BY <1>1
    <3> QED
      BY <1>1, <2>1, <3>1
  <2>3. x = y
    BY <2>1, <2>2, SeqEqual
  <2> QED
    BY <2>3 DEF x, y
<1>4. Drop(r, i) = Drop(cs, i)
  <2> DEFINE x == Drop(r, i)
             y == Drop(cs, i)
  <2>1. /\ x \in Seq(Chunk) /\ Len(x) = Len(cs) - i
        /\ \A j \in 1..Len(cs) - i : x[j] = r[i + j]
    <3>1. /\ x \in Seq(Chunk) /\ Len(x) = Len(r) - i
          /\ \A j \in 1..Len(r) - i : x[j] = r[i + j]
      BY <1>1, <1>2, TakeDrop
    <3> HIDE DEF x
    <3> QED
      BY <1>1, <3>1
  <2>2. /\ y \in Seq(Chunk) /\ Len(y) = Len(cs) - i
        /\ \A j \in 1..Len(cs) - i : y[j] = cs[i + j]
    BY <1>2, TakeDrop
  <2> HIDE DEF x, y
  <2>3. \A j \in 1..Len(cs) - i : x[j] = y[j]
    <3> TAKE j \in 1..Len(cs) - i
    <3>1. i + j \in 1..Len(cs) /\ i + j # i
      BY <1>1
    <3> QED
      BY <1>1, <2>1, <2>2, <3>1
  <2>4. x = y
    BY <2>1, <2>2, <2>3, SeqEqual
  <2> QED
    BY <2>4 DEF x, y
<1>5. r[i] = c /\ i \in 1..Len(r)
  BY <1>1
<1>6. TextOf(r) = TextOf(Take(r, i - 1)) \o (r[i].data \o TextOf(Drop(r, i)))
  BY <1>1, <1>5, Middle
<1>7. \A j \in 1..Len(cs) : j # i => r[j] = cs[j]
  BY <1>1
<1> QED
  BY <1>1, <1>3, <1>4, <1>5, <1>6, <1>7 DEF r, IsReplaced

-----------------------------------------------------------------------------
(* What is inserted. *)

Grouped(a, b, c, d) == /\ (a \o b) \o c = a \o (b \o c)
                       /\ (a \o b) \o (c \o d) = a \o (b \o (c \o d))
                       /\ ((a \o b) \o c) \o d = a \o (b \o (c \o d))
                       /\ (a \o (b \o c)) \o d = a \o (b \o (c \o d))

\* Parts grouped in the ways that are needed.
LEMMA Regroup ==
  ASSUME NEW S, NEW a \in Seq(S), NEW b \in Seq(S), NEW c \in Seq(S), NEW d \in Seq(S)
  PROVE  Grouped(a, b, c, d)
<1> DEFINE x == a \o b
           y == c \o d
           z == b \o c
<1>1. x \in Seq(S) /\ y \in Seq(S) /\ z \in Seq(S)
  BY ConcatProperties
<1>2. Associates(S)
  BY GroupedAgain
<1>3. (a \o b) \o c = a \o (b \o c) /\ (b \o c) \o d = b \o (c \o d)
  BY <1>2, Zenon DEF Associates
<1>4. x \o c = a \o z /\ z \o d = b \o y
  BY <1>3
<1>5. x \o y = a \o (b \o y)
  <2>1. y \in Seq(S)
    BY <1>1
  <2> HIDE DEF y
  <2>2. (a \o b) \o y = a \o (b \o y)
    BY <1>2, <2>1, Zenon DEF Associates
  <2> QED
    BY <2>2
<1>6. (x \o c) \o d = x \o y
  <2>1. x \in Seq(S)
    BY <1>1
  <2> HIDE DEF x
  <2>2. (x \o c) \o d = x \o (c \o d)
    BY <1>2, <2>1, Zenon DEF Associates
  <2> QED
    BY <2>2
<1>7. (a \o z) \o d = a \o (z \o d)
  <2>1. z \in Seq(S)
    BY <1>1
  <2> HIDE DEF z
  <2> QED
    BY <1>2, <2>1, Zenon DEF Associates
<1> QED
  BY <1>1, <1>4, <1>5, <1>6, <1>7 DEF Grouped

\* What is spliced into a sequence makes it longer, and at an end is put
\* there.
LEMMA Splices ==
  ASSUME NEW S, NEW s \in Seq(S), NEW new \in Seq(S)
  PROVE  /\ \A p \in 0..Len(s) : /\ Spliced(s, p, new) \in Seq(S)
                                 /\ Len(Spliced(s, p, new)) = Len(s) + Len(new)
         /\ Spliced(s, Len(s), new) = s \o new
         /\ Spliced(s, 0, new) = new \o s
         /\ new = <<>> => \A p \in 0..Len(s) : Spliced(s, p, new) = s
<1>1. Len(s) \in Nat /\ Len(new) \in Nat
  BY LenProperties
<1>2. ASSUME NEW p \in 0..Len(s)
      PROVE  /\ Spliced(s, p, new) \in Seq(S) /\ Len(Spliced(s, p, new)) = Len(s) + Len(new)
             /\ new = <<>> => Spliced(s, p, new) = s
  <2> DEFINE x == Take(s, p)
             y == Drop(s, p)
  <2>1. x \in Seq(S) /\ y \in Seq(S) /\ Len(x) = p /\ Len(y) = Len(s) - p /\ x \o y = s
    BY TakeDrop
  <2>2. Spliced(s, p, new) = (x \o new) \o y
    BY DEF Spliced
  <2> HIDE DEF x, y
  <2>3. x \o new \in Seq(S) /\ Len(x \o new) = p + Len(new)
    BY <2>1, ConcatProperties
  <2>4. (x \o new) \o y \in Seq(S) /\ Len((x \o new) \o y) = p + Len(new) + (Len(s) - p)
    <3> DEFINE u == x \o new
    <3> HIDE DEF u
    <3>1. u \in Seq(S) /\ Len(u) = p + Len(new)
      BY <2>3 DEF u
    <3>2. u \o y \in Seq(S) /\ Len(u \o y) = Len(u) + Len(y)
      BY <2>1, <3>1, ConcatProperties
    <3> QED
      BY <2>1, <3>1, <3>2 DEF u
  <2>5. new = <<>> => (x \o new) \o y = s
    BY <2>1, ConcatEmptySeq
  <2> QED
    BY <1>1, <2>1, <2>2, <2>4, <2>5
<1>3. Spliced(s, Len(s), new) = s \o new
  <2>1. Take(s, Len(s)) = s
    BY SubSeqFull DEF Take
  <2>2. Drop(s, Len(s)) = <<>>
    BY <1>1, SubSeqEmpty DEF Drop
  <2>3. s \o new \in Seq(S)
    BY ConcatProperties
  <2> QED
    BY <2>1, <2>2, <2>3, ConcatEmptySeq DEF Spliced
<1>4. Spliced(s, 0, new) = new \o s
  <2>1. Take(s, 0) = <<>>
    BY SubSeqEmpty DEF Take
  <2>2. Drop(s, 0) = s
    BY SubSeqFull DEF Drop
  <2> QED
    BY <2>1, <2>2, ConcatEmptySeq DEF Spliced
<1> QED
  BY <1>2, <1>3, <1>4

\* Splicing at the two ends.
LEMMA SplicedEnds ==
  ASSUME NEW S, NEW s \in Seq(S), NEW new \in Seq(S)
  PROVE  Spliced(s, Len(s), new) = s \o new /\ Spliced(s, 0, new) = new \o s
BY Splices

\* In the middle part of a sequence.
SplicesIn(a, m, z, w, p) ==
  Spliced(a \o (m \o z), Len(a) + p, w) = a \o (Take(m, p) \o (w \o (Drop(m, p) \o z)))

\* Splicing in the middle part.
LEMMA SplicedIn ==
  ASSUME NEW S, NEW a \in Seq(S), NEW m \in Seq(S), NEW z \in Seq(S), NEW w \in Seq(S),
         NEW p \in 0..Len(m)
  PROVE  SplicesIn(a, m, z, w, p)
<1> DEFINE h == Take(m, p)
           t == Drop(m, p)
           v == t \o z
<1>1. h \in Seq(S) /\ t \in Seq(S)
  BY TakeDrop
<1>2. v \in Seq(S)
  BY <1>1, ConcatProperties
<1>3. Take(a \o (m \o z), Len(a) + p) = a \o h /\ Drop(a \o (m \o z), Len(a) + p) = v
  <2>1. /\ Take(a \o (m \o z), Len(a) + p) = a \o Take(m, p)
        /\ Drop(a \o (m \o z), Len(a) + p) = Drop(m, p) \o z
    <3>1. SplitsIn(a, m, z, p)
      BY SplitIn
    <3> QED
      BY <3>1 DEF SplitsIn
  <2> QED
    BY <2>1
<1> HIDE DEF h, t, v
<1>4. ((a \o h) \o w) \o v = a \o (h \o (w \o v))
  <2>1. a \in Seq(S) /\ h \in Seq(S) /\ w \in Seq(S) /\ v \in Seq(S)
    BY <1>1, <1>2
  <2>2. Grouped(a, h, w, v)
    BY <2>1, Regroup
  <2> QED
    BY <2>2 DEF Grouped
<1> QED
  BY <1>3, <1>4 DEF Spliced, h, t, v, SplicesIn

\* What inserting means.
Inserts(r, b, pos, new) == Consistent(r) /\ Text(r) = Spliced(Text(b), pos, new)

\* What consistency says, in the terms of the chunks and the text.
LEMMA BufferText ==
  ASSUME NEW b, Consistent(b)
  PROVE  /\ b.chunks \in Seq(Chunk) /\ b.tail = Len(b.chunks) /\ Len(b.chunks) \in Nat
         /\ Text(b) = TextOf(b.chunks) /\ Text(b) \in Seq(Char) /\ b.size = Len(Text(b))
         /\ b.size \in Nat
         /\ b.size = 0 => Text(b) = <<>>
<1>1. b.chunks \in Seq(Chunk) /\ b.tail = Len(b.chunks) /\ b.size = Len(Text(b))
  BY DEF Consistent, Buffers
<1>2. Text(b) = TextOf(b.chunks) /\ Text(b) \in Seq(Char) /\ Len(b.chunks) \in Nat
  BY <1>1, TextType DEF Text
<1> QED
  BY <1>1, <1>2, EmptySeq, LenProperties

\* A new buffer holds the bytes it is made of.
LEMMA NewBufferIs ==
  ASSUME NEW data \in Seq(Char)
  PROVE  LET b == NewBuffer(data) IN
         Consistent(b) /\ Text(b) = data /\ b.size = Len(data)
<1> DEFINE b == NewBuffer(data)
<1>1. CASE data = <<>>
  <2>1. b = [chunks |-> <<>>, tail |-> 0, size |-> 0]
    BY <1>1 DEF NewBuffer
  <2> HIDE DEF b
  <2>2. b \in Buffers /\ Text(b) = <<>> /\ b.size = 0 /\ b.tail = Len(b.chunks)
    BY <2>1, TextEmpty DEF Buffers, Text
  <2> QED
    BY <1>1, <2>2, EmptySeq DEF Consistent, b
<1>2. CASE data # <<>>
  <2> DEFINE c == NewBuf(data)
  <2>1. c \in Chunk /\ c.data = data
    BY <1>2 DEF NewBuf, Chunk
  <2>2. b = [chunks |-> <<c>>, tail |-> 1, size |-> Len(data)]
    BY <1>2 DEF NewBuffer
  <2> HIDE DEF b, c
  <2>3. <<c>> \in Seq(Chunk) /\ TextOf(<<c>>) = data /\ Len(<<c>>) = 1 /\ Len(data) \in Nat
    BY <2>1, TextOne
  <2>4. b \in Buffers /\ Text(b) = data /\ b.size = Len(data) /\ b.tail = Len(b.chunks)
    BY <2>2, <2>3 DEF Buffers, Text
  <2> QED
    BY <2>4 DEF Consistent, b
<1> QED
  BY <1>1, <1>2

\* Bytes never written.
LEMMA FreshIs ==
  ASSUME NEW n \in Nat
  PROVE  Fresh(n) \in Seq(Char) /\ Len(Fresh(n)) = n /\ (n = 0 => Fresh(n) = <<>>)
<1>1. Fresh(n) \in Seq(Char) /\ Len(Fresh(n)) = n
  BY DEF Fresh, Char
<1> QED
  BY <1>1, EmptySeq

\* Room in two parts is room.
LEMMA FreshSplits ==
  ASSUME NEW m \in Nat, NEW n \in Nat
  PROVE  Fresh(m) \o Fresh(n) = Fresh(m + n)
<1> DEFINE x == Fresh(m)
           y == Fresh(n)
           z == Fresh(m + n)
<1>1. /\ x \in Seq(Char) /\ Len(x) = m /\ \A i \in 1..m : x[i] = Junk
      /\ y \in Seq(Char) /\ Len(y) = n /\ \A i \in 1..n : y[i] = Junk
      /\ z \in Seq(Char) /\ Len(z) = m + n /\ \A i \in 1..m + n : z[i] = Junk
  <2>1. m + n \in Nat
    OBVIOUS
  <2> QED
    BY <2>1, FreshIs DEF Fresh
<1> HIDE DEF x, y, z
<1>2. /\ x \o y \in Seq(Char) /\ Len(x \o y) = Len(x) + Len(y)
      /\ \A i \in 1..Len(x) + Len(y) : (x \o y)[i] = IF i <= Len(x) THEN x[i] ELSE y[i - Len(x)]
  BY <1>1, ConcatProperties
<1>3. \A i \in 1..Len(z) : z[i] = (x \o y)[i]
  <2> TAKE i \in 1..Len(z)
  <2>1. i \in 1..m + n /\ i \in 1..Len(x) + Len(y)
    BY <1>1
  <2>2. CASE i <= Len(x)
    <3>1. i \in 1..m
      BY <1>1, <2>1, <2>2
    <3> QED
      BY <1>1, <1>2, <2>1, <2>2, <3>1
  <2>3. CASE ~(i <= Len(x))
    <3>1. i - Len(x) \in 1..n
      BY <1>1, <2>1, <2>3
    <3> QED
      BY <1>1, <1>2, <2>1, <2>3, <3>1
  <2> QED
    BY <2>2, <2>3
<1>4. z = x \o y
  BY <1>1, <1>2, <1>3, SeqEqual
<1> QED
  BY <1>4 DEF x, y, z

\* Two lists of chunks joined, with the tail and the size that belong to
\* them.
LEMMA Joined ==
  ASSUME NEW cs \in Seq(Chunk), NEW ds \in Seq(Chunk), NEW tail, NEW size,
         tail = Len(cs) + Len(ds), size = Len(TextOf(cs)) + Len(TextOf(ds))
  PROVE  LET r == [chunks |-> cs \o ds, tail |-> tail, size |-> size] IN
         Consistent(r) /\ Text(r) = TextOf(cs) \o TextOf(ds)
<1> DEFINE r == [chunks |-> cs \o ds, tail |-> tail, size |-> size]
           x == TextOf(cs)
           y == TextOf(ds)
<1>1. cs \o ds \in Seq(Chunk) /\ Len(cs \o ds) = tail /\ tail \in Nat
  BY ConcatProperties, LenProperties
<1>2. x \in Seq(Char) /\ y \in Seq(Char) /\ Len(x) \in Nat /\ Len(y) \in Nat
  BY TextType
<1>3. TextOf(cs \o ds) = x \o y
  BY TextConcat
<1>4. size = Len(x \o y) /\ size \in Nat
  <2> HIDE DEF x, y
  <2>1. Len(x \o y) = Len(x) + Len(y)
    BY <1>2, ConcatProperties
  <2> QED
    BY <1>2, <2>1 DEF x, y
<1>5. r.chunks = cs \o ds /\ r.tail = tail /\ r.size = size /\ Text(r) = x \o y
  BY <1>3 DEF Text
<1>6. r \in Buffers
  BY <1>1, <1>4 DEF Buffers
<1> QED
  BY <1>1, <1>4, <1>5, <1>6 DEF Consistent

\* InsertBack(buffer) puts the text behind.
LEMMA InsertBackIs ==
  ASSUME NEW b, Consistent(b), NEW new, Consistent(new)
  PROVE  Inserts(InsertBackBuffer(b, new), b, b.size, Text(new))
<1>1. Spliced(Text(b), b.size, Text(new)) = Text(b) \o Text(new)
  <2> DEFINE x == Text(b)
             y == Text(new)
  <2>1. x \in Seq(Char) /\ y \in Seq(Char) /\ b.size = Len(x)
    BY BufferText
  <2> HIDE DEF x, y
  <2>2. Spliced(x, Len(x), y) = x \o y
    BY <2>1, SplicedEnds
  <2> QED
    BY <2>1, <2>2 DEF x, y
<1>2. CASE new.size = 0
  <2>1. InsertBackBuffer(b, new) = b
    BY <1>2 DEF InsertBackBuffer
  <2>2. Text(b) \o Text(new) = Text(b)
    BY <1>2, BufferText, ConcatEmptySeq
  <2> QED
    BY <1>1, <2>1, <2>2 DEF Inserts
<1>3. CASE new.size # 0
  <2> DEFINE r == [chunks |-> b.chunks \o new.chunks, tail |-> b.tail + new.tail,
                   size |-> b.size + new.size]
  <2>1. Take(b.chunks, b.tail) = b.chunks
    BY BufferText, SubSeqFull DEF Take
  <2>2. InsertBackBuffer(b, new) = r
    BY <1>3, <2>1 DEF InsertBackBuffer
  <2>3. Consistent(r) /\ Text(r) = TextOf(b.chunks) \o TextOf(new.chunks)
    <3>1. /\ b.chunks \in Seq(Chunk) /\ new.chunks \in Seq(Chunk)
          /\ b.tail + new.tail = Len(b.chunks) + Len(new.chunks)
          /\ b.size + new.size = Len(TextOf(b.chunks)) + Len(TextOf(new.chunks))
      BY BufferText
    <3> QED
      BY <3>1, Joined
  <2> HIDE DEF r
  <2> QED
    BY <1>1, <2>2, <2>3, BufferText DEF Inserts
<1> QED
  BY <1>2, <1>3

\* InsertFront(buffer) puts the text in front.
LEMMA InsertFrontIs ==
  ASSUME NEW b, Consistent(b), NEW new, Consistent(new)
  PROVE  Inserts(InsertFrontBuffer(b, new), b, 0, Text(new))
<1>1. Spliced(Text(b), 0, Text(new)) = Text(new) \o Text(b)
  <2> DEFINE x == Text(b)
             y == Text(new)
  <2>1. x \in Seq(Char) /\ y \in Seq(Char)
    BY BufferText
  <2> HIDE DEF x, y
  <2>2. Spliced(x, 0, y) = y \o x
    BY <2>1, SplicedEnds
  <2> QED
    BY <2>2 DEF x, y
<1>2. CASE new.size = 0
  <2>1. InsertFrontBuffer(b, new) = b
    BY <1>2 DEF InsertFrontBuffer
  <2>2. Text(new) \o Text(b) = Text(b)
    BY <1>2, BufferText, ConcatEmptySeq
  <2> QED
    BY <1>1, <2>1, <2>2 DEF Inserts
<1>3. CASE new.size # 0
  <2> DEFINE t == IF b.tail = 0 THEN new.tail ELSE b.tail + Len(new.chunks)
             r == [chunks |-> new.chunks \o b.chunks, tail |-> t, size |-> b.size + new.size]
  <2>1. InsertFrontBuffer(b, new) = r
    BY <1>3 DEF InsertFrontBuffer
  <2>2. Consistent(r) /\ Text(r) = TextOf(new.chunks) \o TextOf(b.chunks)
    <3>1. /\ b.chunks \in Seq(Chunk) /\ new.chunks \in Seq(Chunk)
          /\ t = Len(new.chunks) + Len(b.chunks)
          /\ b.size + new.size = Len(TextOf(new.chunks)) + Len(TextOf(b.chunks))
      <4>1. /\ b.chunks \in Seq(Chunk) /\ b.tail = Len(b.chunks) /\ b.tail \in Nat
            /\ new.chunks \in Seq(Chunk) /\ new.tail = Len(new.chunks) /\ new.tail \in Nat
        BY BufferText
      <4>2. b.size + new.size = Len(TextOf(new.chunks)) + Len(TextOf(b.chunks))
        <5>1. /\ b.size = Len(TextOf(b.chunks)) /\ new.size = Len(TextOf(new.chunks))
              /\ b.size \in Nat /\ new.size \in Nat
          BY BufferText
        <5> QED
          BY <5>1
      <4>3. t = Len(new.chunks) + Len(b.chunks)
        <5>1. CASE b.tail = 0
          BY <4>1, <5>1
        <5>2. CASE b.tail # 0
          <6>1. t = b.tail + Len(new.chunks)
            BY <5>2
          <6>2. Len(b.chunks) \in Nat /\ Len(new.chunks) \in Nat
            BY <4>1
          <6> HIDE DEF t, r
          <6>3. t = Len(b.chunks) + Len(new.chunks)
            BY <4>1, <6>1
          <6>4. \A m, n \in Nat : m + n = n + m
            OBVIOUS
          <6> QED
            BY <6>2, <6>3, <6>4, Zenon
        <5> QED
          BY <5>1, <5>2
      <4> HIDE DEF t
      <4> QED
        BY <4>1, <4>2, <4>3
    <3> HIDE DEF t
    <3> QED
      BY <3>1, Joined
  <2> HIDE DEF r
  <2> QED
    BY <1>1, <2>1, <2>2, BufferText DEF Inserts
<1> QED
  BY <1>2, <1>3

\* The text around a chunk.
Around(b, i, x, d, z) ==
  /\ x \in Seq(Char) /\ d \in Seq(Char) /\ z \in Seq(Char)
  /\ Len(x) \in Nat /\ Len(d) \in Nat \ {0} /\ Len(z) \in Nat
  /\ d = b.chunks[i].data /\ x = TextOf(Take(b.chunks, i - 1)) /\ z = TextOf(Drop(b.chunks, i))
  /\ TextOf(Take(b.chunks, i)) = x \o d
  /\ Text(b) = x \o (d \o z)
  /\ Before(b, i) = Len(x) /\ Before(b, i + 1) = Len(x) + Len(d)
  /\ b.size = Len(x) + (Len(d) + Len(z))

SumsUp(x, d, z) == /\ Len(x \o (d \o z)) = Len(x) + (Len(d) + Len(z))
                   /\ Len(x) \in Nat /\ Len(d) \in Nat /\ Len(z) \in Nat

\* The lengths of three parts and of what they make.
LEMMA SumOfLengths ==
  ASSUME NEW S, NEW x \in Seq(S), NEW d \in Seq(S), NEW z \in Seq(S)
  PROVE  SumsUp(x, d, z)
<1>1. d \o z \in Seq(S) /\ Len(d \o z) = Len(d) + Len(z)
  BY ConcatProperties
<1> DEFINE y == d \o z
<1> HIDE DEF y
<1>2. y \in Seq(S) /\ Len(y) = Len(d) + Len(z)
  BY <1>1 DEF y
<1>3. x \o y \in Seq(S) /\ Len(x \o y) = Len(x) + Len(y)
  BY <1>2, ConcatProperties
<1> QED
  BY <1>2, <1>3, LenProperties DEF y, SumsUp

\* Every chunk has a text before it and one behind it.
LEMMA AroundIs ==
  ASSUME NEW b, Consistent(b), NEW i \in 1..Len(b.chunks)
  PROVE  \E x, d, z : Around(b, i, x, d, z)
<1> DEFINE x == TextOf(Take(b.chunks, i - 1))
           d == b.chunks[i].data
           z == TextOf(Drop(b.chunks, i))
<1>1. b.chunks \in Seq(Chunk) /\ Text(b) = TextOf(b.chunks) /\ b.size = Len(Text(b))
  BY BufferText
<1>2. /\ x \in Seq(Char) /\ d \in Seq(Char) /\ z \in Seq(Char) /\ Len(d) \in Nat \ {0}
      /\ TextOf(b.chunks) = x \o (d \o z) /\ TextOf(Take(b.chunks, i)) = x \o d
  BY <1>1, Middle
<1>3. Before(b, i) = Len(x)
  BY DEF Before
<1>4. Before(b, i + 1) = Before(b, i) + Len(d)
  BY Places
<1>5. /\ Len(x \o (d \o z)) = Len(x) + (Len(d) + Len(z))
      /\ Len(x) \in Nat /\ Len(z) \in Nat
  <2>1. x \in Seq(Char) /\ d \in Seq(Char) /\ z \in Seq(Char)
    BY <1>2
  <2> HIDE DEF x, d, z
  <2>2. SumsUp(x, d, z)
    BY <2>1, SumOfLengths
  <2> QED
    BY <2>2 DEF SumsUp
<1>6. Around(b, i, x, d, z)
  <2>1. d = b.chunks[i].data /\ x = TextOf(Take(b.chunks, i - 1)) /\ z = TextOf(Drop(b.chunks, i))
    OBVIOUS
  <2> HIDE DEF x, d, z
  <2>2. Text(b) = x \o (d \o z)
    BY <1>1, <1>2
  <2>3. b.size = Len(x) + (Len(d) + Len(z))
    BY <1>1, <2>2, <1>5
  <2>4. Before(b, i) = Len(x) /\ Before(b, i + 1) = Len(x) + Len(d)
    BY <1>3, <1>4
  <2>5. Len(x) \in Nat /\ Len(d) \in Nat \ {0} /\ Len(z) \in Nat
    BY <1>2, <1>5
  <2>6. x \in Seq(Char) /\ d \in Seq(Char) /\ z \in Seq(Char) /\ TextOf(Take(b.chunks, i)) = x \o d
    BY <1>2
  <2> QED
    BY <2>1, <2>2, <2>3, <2>4, <2>5, <2>6 DEF Around
<1> QED
  BY <1>6

\* One chunk and the size of a buffer updated.
LEMMA RecordWith ==
  ASSUME NEW A, NEW B, NEW C, NEW b \in [chunks : A, tail : B, size : C], NEW i, NEW c,
         NEW n \in C, [b.chunks EXCEPT ![i] = c] \in A
  PROVE  LET r == [b EXCEPT !.chunks[i] = c, !.size = n] IN
         /\ r \in [chunks : A, tail : B, size : C]
         /\ r.chunks = [b.chunks EXCEPT ![i] = c] /\ r.tail = b.tail /\ r.size = n
OBVIOUS

\* A chunk of a buffer replaced.
ChunkSet(r, b, i, c, size, x, z) ==
  /\ Consistent(r) /\ Text(r) = x \o (c.data \o z)
  /\ r.chunks = [b.chunks EXCEPT ![i] = c] /\ r.size = size /\ r.tail = b.tail
  /\ Around(r, i, x, c.data, z)

\* A buffer with one chunk replaced is consistent once size_ is corrected.
LEMMA WithChunk ==
  ASSUME NEW b, Consistent(b), NEW i \in 1..Len(b.chunks), NEW c \in Chunk,
         NEW x, NEW d, NEW z, Around(b, i, x, d, z),
         NEW size, size = Len(x) + (Len(c.data) + Len(z))
  PROVE  ChunkSet([b EXCEPT !.chunks[i] = c, !.size = size], b, i, c, size, x, z)
<1> DEFINE r == [b EXCEPT !.chunks[i] = c, !.size = size]
           cs == [b.chunks EXCEPT ![i] = c]
<1>1. /\ b.chunks \in Seq(Chunk) /\ b.tail = Len(b.chunks) /\ Len(b.chunks) \in Nat
      /\ b \in Buffers
  BY BufferText DEF Consistent
<1>3. /\ cs \in Seq(Chunk) /\ Len(cs) = Len(b.chunks) /\ cs[i] = c
      /\ TextOf(cs) = TextOf(Take(b.chunks, i - 1)) \o (c.data \o TextOf(Drop(b.chunks, i)))
  <2>1. b.chunks \in Seq(Chunk) /\ i \in 1..Len(b.chunks)
    BY <1>1
  <2>2. IsReplaced(cs, b.chunks, i, c)
    BY <2>1, Replaced
  <2> QED
    BY <2>2 DEF IsReplaced
<1> HIDE DEF cs
<1>4. TextOf(cs) = x \o (c.data \o z)
  BY <1>3 DEF Around
<1>5. size = Len(TextOf(cs)) /\ size \in Nat
  <2>1. x \in Seq(Char) /\ c.data \in Seq(Char) /\ z \in Seq(Char)
    BY DEF Around, Chunk
  <2> DEFINE y == c.data
  <2>2. y \in Seq(Char)
    BY <2>1
  <2> HIDE DEF y
  <2>3. Len(x \o (y \o z)) = Len(x) + (Len(y) + Len(z)) /\ Len(x) \in Nat /\ Len(y) \in Nat /\ Len(z) \in Nat
    <3>1. SumsUp(x, y, z)
      BY <2>1, <2>2, SumOfLengths
    <3> QED
      BY <3>1 DEF SumsUp
  <2> QED
    BY <1>4, <2>3 DEF y
<1>2. r \in Buffers /\ r.chunks = cs /\ r.size = size /\ r.tail = b.tail
  <2>1. b \in [chunks : Seq(Chunk), tail : Nat, size : Nat] /\ [b.chunks EXCEPT ![i] = c] \in Seq(Chunk)
    BY <1>1, <1>3 DEF Buffers, cs
  <2> QED
    BY <1>5, <2>1, RecordWith DEF Buffers, cs
<1>6. Consistent(r) /\ Text(r) = TextOf(cs)
  <2> HIDE DEF r
  <2>2. Text(r) = TextOf(cs)
    BY <1>2 DEF Text
  <2> QED
    BY <1>1, <1>2, <1>3, <1>5, <2>2 DEF Consistent
<1>7. Around(r, i, x, c.data, z)
  <2>1. i \in 1..Len(r.chunks)
    BY <1>2, <1>3
  <2> HIDE DEF r
  <2>2. PICK p, q, s : Around(r, i, p, q, s)
    BY <1>6, <2>1, AroundIs
  <2>3. Take(cs, i - 1) = Take(b.chunks, i - 1) /\ Drop(cs, i) = Drop(b.chunks, i)
    <3>1. IsReplaced(cs, b.chunks, i, c)
      BY <1>1, Replaced DEF cs
    <3> QED
      BY <3>1 DEF IsReplaced
  <2>4. p = x /\ q = c.data /\ s = z
    BY <1>2, <1>3, <2>2, <2>3 DEF Around
  <2> QED
    BY <2>2, <2>4
<1> QED
  BY <1>2, <1>4, <1>6, <1>7 DEF cs, ChunkSet

SplicesAround(x, d, z, f) ==
  /\ Spliced(x \o (d \o z), Len(x) + Len(d), f) = x \o ((d \o f) \o z)
  /\ Spliced(x \o (d \o z), Len(x), f) = x \o ((f \o d) \o z)

\* Splicing at the two ends of a middle part.
LEMMA SplicedAround ==
  ASSUME NEW S, NEW x \in Seq(S), NEW d \in Seq(S), NEW z \in Seq(S), NEW f \in Seq(S)
  PROVE  SplicesAround(x, d, z, f)
<1>1. Len(x) \in Nat /\ Len(d) \in Nat /\ Len(d) \in 0..Len(d) /\ 0 \in 0..Len(d)
  BY LenProperties
<1>2. SplicesIn(x, d, z, f, Len(d))
  BY <1>1, SplicedIn
<1>3. SplicesIn(x, d, z, f, 0)
  BY <1>1, SplicedIn
<1>4. Take(d, Len(d)) = d /\ Drop(d, 0) = d
  BY SubSeqFull DEF Take, Drop
<1>5. Take(d, 0) = <<>> /\ Drop(d, Len(d)) = <<>>
  BY <1>1, SubSeqEmpty DEF Take, Drop
<1>6. <<>> \o z = z
  BY ConcatEmptySeq
<1>7. Len(x) + 0 = Len(x)
  BY <1>1
<1> DEFINE u == d \o z
           v == f \o z
           w == f \o u
<1>8. u \in Seq(S) /\ v \in Seq(S)
  BY ConcatProperties
<1>9. w \in Seq(S) /\ <<>> \o w = w
  <2> HIDE DEF u
  <2>1. w \in Seq(S)
    BY <1>8, ConcatProperties
  <2> HIDE DEF w
  <2> QED
    BY <2>1, ConcatEmptySeq
<1>10. d \o v = (d \o f) \o z
  <2>1. Grouped(d, f, z, z)
    BY Regroup
  <2> QED
    BY <2>1 DEF Grouped
<1>11. w = (f \o d) \o z
  <2>1. Grouped(f, d, z, z)
    BY Regroup
  <2> QED
    BY <2>1 DEF Grouped
<1>12. Spliced(x \o u, Len(x) + Len(d), f) = x \o (d \o v)
  BY <1>2, <1>4, <1>5, <1>6, Zenon DEF SplicesIn
<1>13. Spliced(x \o u, Len(x), f) = x \o w
  <2>1. Spliced(x \o u, Len(x) + 0, f) = x \o (<<>> \o w)
    BY <1>3, <1>4, <1>5, Zenon DEF SplicesIn
  <2> QED
    BY <1>7, <1>9, <2>1, Zenon
<1> QED
  BY <1>10, <1>11, <1>12, <1>13, Zenon DEF SplicesAround

\* Room taken by a chunk.
LEMMA Grown ==
  ASSUME NEW c \in Chunk, NEW n \in Nat
  PROVE  /\ n <= c.spare => /\ GrownBack(c, n) \in Chunk
                            /\ GrownBack(c, n).data = c.data \o Fresh(n)
                            /\ GrownBack(c, n).front = c.front
         /\ n <= c.front => /\ GrownFront(c, n) \in Chunk
                            /\ GrownFront(c, n).data = Fresh(n) \o c.data
                            /\ GrownFront(c, n).spare = c.spare
<1>1. c.data \in Seq(Char) /\ c.data # <<>> /\ c.front \in Nat /\ c.spare \in Nat
  BY DEF Chunk
<1>2. Fresh(n) \in Seq(Char)
  BY FreshIs
<1> DEFINE d == c.data
           f == Fresh(n)
<1>3. d \in Seq(Char) /\ Len(d) \in Nat \ {0} /\ f \in Seq(Char) /\ Len(f) \in Nat
  BY <1>1, <1>2, EmptySeq, LenProperties
<1>4. /\ d \o f \in Seq(Char) \ {<<>>} /\ f \o d \in Seq(Char) \ {<<>>}
  <2> HIDE DEF d, f
  <2>1. d \o f \in Seq(Char) /\ Len(d \o f) = Len(d) + Len(f)
    BY <1>3, ConcatProperties
  <2>2. f \o d \in Seq(Char) /\ Len(f \o d) = Len(f) + Len(d)
    BY <1>3, ConcatProperties
  <2>3. Len(d \o f) # 0 /\ Len(f \o d) # 0
    BY <1>3, <2>1, <2>2
  <2>4. Len(<<>>) = 0
    BY EmptySeq
  <2> QED
    BY <2>1, <2>2, <2>3, <2>4
<1>5. ASSUME n <= c.spare
      PROVE  /\ GrownBack(c, n) \in Chunk /\ GrownBack(c, n).data = d \o f
             /\ GrownBack(c, n).front = c.front
  <2>1. c.spare - n \in Nat
    BY <1>1, <1>5
  <2> DEFINE e == d \o f
  <2>2. GrownBack(c, n) = [c EXCEPT !.data = e, !.spare = c.spare - n]
    BY DEF GrownBack
  <2>3. e \in Seq(Char) \ {<<>>}
    BY <1>4
  <2> HIDE DEF e
  <2> QED
    BY <2>1, <2>2, <2>3 DEF Chunk, e
<1>6. ASSUME n <= c.front
      PROVE  /\ GrownFront(c, n) \in Chunk /\ GrownFront(c, n).data = f \o d
             /\ GrownFront(c, n).spare = c.spare
  <2>1. c.front - n \in Nat
    BY <1>1, <1>6
  <2> DEFINE e == f \o d
  <2>2. GrownFront(c, n) = [c EXCEPT !.data = e, !.front = c.front - n]
    BY DEF GrownFront
  <2>3. e \in Seq(Char) \ {<<>>}
    BY <1>4
  <2> HIDE DEF e
  <2> QED
    BY <2>1, <2>2, <2>3 DEF Chunk, e
<1> QED
  BY <1>5, <1>6

TakesRoom(r, b, i, c, pos, n) ==
  /\ Inserts(r, b, pos, Fresh(n))
  /\ r.chunks = [b.chunks EXCEPT ![i] = c] /\ r.size = b.size + n
  /\ Before(r, i + 1) = Before(b, i + 1) + n

\* A chunk that takes room behind inserts it before the next chunk.
LEMMA GrownBackIs ==
  ASSUME NEW b, Consistent(b), NEW i \in 1..Len(b.chunks), NEW n \in Nat, n <= b.chunks[i].spare
  PROVE  TakesRoom([b EXCEPT !.chunks[i] = GrownBack(@, n), !.size = @ + n], b, i,
                   GrownBack(b.chunks[i], n), Before(b, i + 1), n)
<1> DEFINE c == b.chunks[i]
           f == Fresh(n)
           r == [b EXCEPT !.chunks[i] = GrownBack(@, n), !.size = @ + n]
<1>1. c \in Chunk /\ b.chunks \in Seq(Chunk)
  BY BufferText, ElementOfSeq
<1>2. PICK x, d, z : Around(b, i, x, d, z)
  BY AroundIs
<1>3. GrownBack(c, n) \in Chunk /\ GrownBack(c, n).data = d \o f
  <2> HIDE DEF c
  <2>1. n <= c.spare
    BY DEF c
  <2>2. d = c.data
    BY <1>2 DEF Around, c
  <2> QED
    BY <1>1, <2>1, <2>2, Grown
<1>4. /\ x \in Seq(Char) /\ d \in Seq(Char) /\ z \in Seq(Char) /\ f \in Seq(Char) /\ Len(f) = n
      /\ Len(x) \in Nat /\ Len(d) \in Nat /\ Len(z) \in Nat
      /\ Text(b) = x \o (d \o z) /\ Before(b, i + 1) = Len(x) + Len(d)
      /\ b.size = Len(x) + (Len(d) + Len(z))
  BY <1>2, FreshIs DEF Around
<1> HIDE DEF f, c
<1>5. Len(d \o f) = Len(d) + n
  BY <1>4, ConcatProperties
<1> DEFINE g == GrownBack(c, n)
           s == b.size + n
<1>6. r = [b EXCEPT !.chunks[i] = g, !.size = s]
  BY DEF c
<1> HIDE DEF r, g, s
<1>7. s = Len(x) + (Len(g.data) + Len(z)) /\ g \in Chunk /\ g.data = d \o f
  BY <1>3, <1>4, <1>5 DEF g, s
<1>8. /\ Consistent(r) /\ Text(r) = x \o (g.data \o z) /\ r.chunks = [b.chunks EXCEPT ![i] = g]
      /\ r.size = s /\ Around(r, i, x, g.data, z)
  <2>1. ChunkSet(r, b, i, g, s, x, z)
    BY <1>2, <1>6, <1>7, WithChunk
  <2> QED
    BY <2>1 DEF ChunkSet
<1>9. Text(r) = Spliced(Text(b), Before(b, i + 1), f)
  <2>1. Spliced(x \o (d \o z), Len(x) + Len(d), f) = x \o ((d \o f) \o z)
    <3>1. SplicesAround(x, d, z, f)
      BY <1>4, SplicedAround
    <3> QED
      BY <3>1 DEF SplicesAround
  <2> QED
    BY <1>4, <1>7, <1>8, <2>1, Zenon
<1>10. Before(r, i + 1) = Before(b, i + 1) + n
  <2>1. Before(r, i + 1) = Len(x) + Len(g.data)
    BY <1>8 DEF Around
  <2>2. Len(g.data) = Len(d) + n
    BY <1>5, <1>7
  <2> QED
    BY <1>4, <2>1, <2>2
<1> QED
  BY <1>8, <1>9, <1>10 DEF TakesRoom, Inserts, f, r, s, g, c

\* A chunk that takes room in front inserts it before its own bytes.
LEMMA GrownFrontIs ==
  ASSUME NEW b, Consistent(b), NEW i \in 1..Len(b.chunks), NEW n \in Nat, n <= b.chunks[i].front
  PROVE  TakesRoom([b EXCEPT !.chunks[i] = GrownFront(@, n), !.size = @ + n], b, i,
                   GrownFront(b.chunks[i], n), Before(b, i), n)
<1> DEFINE c == b.chunks[i]
           f == Fresh(n)
           r == [b EXCEPT !.chunks[i] = GrownFront(@, n), !.size = @ + n]
<1>1. c \in Chunk /\ b.chunks \in Seq(Chunk)
  BY BufferText, ElementOfSeq
<1>2. PICK x, d, z : Around(b, i, x, d, z)
  BY AroundIs
<1>3. GrownFront(c, n) \in Chunk /\ GrownFront(c, n).data = f \o d
  <2> HIDE DEF c
  <2>1. n <= c.front
    BY DEF c
  <2>2. d = c.data
    BY <1>2 DEF Around, c
  <2> QED
    BY <1>1, <2>1, <2>2, Grown
<1>4. /\ x \in Seq(Char) /\ d \in Seq(Char) /\ z \in Seq(Char) /\ f \in Seq(Char) /\ Len(f) = n
      /\ Len(x) \in Nat /\ Len(d) \in Nat /\ Len(z) \in Nat
      /\ Text(b) = x \o (d \o z) /\ Before(b, i) = Len(x)
      /\ Before(b, i + 1) = Len(x) + Len(d)
      /\ b.size = Len(x) + (Len(d) + Len(z))
  BY <1>2, FreshIs DEF Around
<1> HIDE DEF f, c
<1>5. Len(f \o d) = n + Len(d)
  BY <1>4, ConcatProperties
<1> DEFINE g == GrownFront(c, n)
           s == b.size + n
<1>6. r = [b EXCEPT !.chunks[i] = g, !.size = s]
  BY DEF c
<1> HIDE DEF r, g, s
<1>7. s = Len(x) + (Len(g.data) + Len(z)) /\ g \in Chunk /\ g.data = f \o d
  <2>1. Len(g.data) = n + Len(d) /\ g \in Chunk /\ g.data = f \o d
    BY <1>3, <1>5 DEF g
  <2>2. s = (Len(x) + (Len(d) + Len(z))) + n
    BY <1>4 DEF s
  <2>3. \A k, l, m \in Nat : (k + (l + m)) + n = k + ((n + l) + m)
    OBVIOUS
  <2>4. s = Len(x) + ((n + Len(d)) + Len(z))
    BY <1>4, <2>2, <2>3
  <2>5. s = Len(x) + (Len(g.data) + Len(z))
    BY <2>1, <2>4, Zenon
  <2> QED
    BY <2>1, <2>5
<1>8. /\ Consistent(r) /\ Text(r) = x \o (g.data \o z) /\ r.chunks = [b.chunks EXCEPT ![i] = g]
      /\ r.size = s /\ Around(r, i, x, g.data, z)
  <2>1. ChunkSet(r, b, i, g, s, x, z)
    BY <1>2, <1>6, <1>7, WithChunk
  <2> QED
    BY <2>1 DEF ChunkSet
<1>9. Text(r) = Spliced(Text(b), Before(b, i), f)
  <2>1. Spliced(x \o (d \o z), Len(x), f) = x \o ((f \o d) \o z)
    <3>1. SplicesAround(x, d, z, f)
      BY <1>4, SplicedAround
    <3> QED
      BY <3>1 DEF SplicesAround
  <2> QED
    BY <1>4, <1>7, <1>8, <2>1, Zenon
<1>10. Before(r, i + 1) = Before(b, i + 1) + n
  <2>1. Before(r, i + 1) = Len(x) + Len(g.data)
    BY <1>8 DEF Around
  <2>2. Len(g.data) = n + Len(d)
    BY <1>5, <1>7
  <2> QED
    BY <1>4, <2>1, <2>2
<1> QED
  BY <1>8, <1>9, <1>10 DEF TakesRoom, Inserts, f, r, s, g, c

\* InsertBack(size), in a chunk with room or in a new one.
LEMMA InsertBackRoomIs ==
  ASSUME NEW b, Consistent(b), NEW n \in Nat
  PROVE  Inserts(InsertBackRoom(b, n), b, b.size, Fresh(n))
<1>1. b.tail = Len(b.chunks) /\ Len(b.chunks) \in Nat /\ Before(b, Len(b.chunks) + 1) = b.size
  BY BufferText, Places
<1>2. CASE b.tail # 0 /\ b.chunks[b.tail].spare >= n
  <2> DEFINE t == b.tail
             r == [b EXCEPT !.chunks[t] = GrownBack(@, n), !.size = @ + n]
  <2>1. InsertBackRoom(b, n) = r
    BY <1>2 DEF InsertBackRoom
  <2>2. t \in 1..Len(b.chunks) /\ n <= b.chunks[t].spare
    <3>1. t \in 1..Len(b.chunks)
      BY <1>1, <1>2
    <3>2. b.chunks[t] \in Chunk
      BY <3>1, BufferText, ElementOfSeq
    <3>3. b.chunks[t].spare \in Nat
      BY <3>2 DEF Chunk
    <3> QED
      BY <1>2, <3>1, <3>3
  <2> HIDE DEF t
  <2>3. TakesRoom(r, b, t, GrownBack(b.chunks[t], n), Before(b, t + 1), n)
    BY <2>2, GrownBackIs
  <2> HIDE DEF r
  <2>4. Before(b, t + 1) = b.size
    BY <1>1 DEF t
  <2> QED
    BY <2>1, <2>3, <2>4 DEF TakesRoom
<1>3. CASE ~(b.tail # 0 /\ b.chunks[b.tail].spare >= n)
  <2> DEFINE new == NewBuffer(Fresh(n))
  <2>1. InsertBackRoom(b, n) = InsertBackBuffer(b, new)
    BY <1>3 DEF InsertBackRoom
  <2>2. Consistent(new) /\ Text(new) = Fresh(n)
    BY FreshIs, NewBufferIs
  <2> HIDE DEF new
  <2> QED
    BY <2>1, <2>2, InsertBackIs
<1> QED
  BY <1>2, <1>3

\* InsertFront(size), in a chunk with room or in a new one.
LEMMA InsertFrontRoomIs ==
  ASSUME NEW b, Consistent(b), NEW n \in Nat
  PROVE  Inserts(InsertFrontRoom(b, n), b, 0, Fresh(n))
<1>1. b.chunks \in Seq(Chunk) /\ Len(b.chunks) \in Nat /\ Before(b, 1) = 0
  BY BufferText, Places
<1>2. CASE b.chunks # <<>> /\ b.chunks[1].front >= n
  <2> DEFINE r == [b EXCEPT !.chunks[1] = GrownFront(@, n), !.size = @ + n]
  <2>1. InsertFrontRoom(b, n) = r
    BY <1>2 DEF InsertFrontRoom
  <2>2. 1 \in 1..Len(b.chunks) /\ n <= b.chunks[1].front
    <3>1. 1 \in 1..Len(b.chunks)
      BY <1>1, <1>2, EmptySeq
    <3>2. b.chunks[1] \in Chunk
      BY <1>1, <3>1, ElementOfSeq
    <3>3. b.chunks[1].front \in Nat
      BY <3>2 DEF Chunk
    <3> QED
      BY <1>2, <3>1, <3>3
  <2>3. TakesRoom(r, b, 1, GrownFront(b.chunks[1], n), Before(b, 1), n)
    BY <2>2, GrownFrontIs
  <2> HIDE DEF r
  <2> QED
    BY <1>1, <2>1, <2>3 DEF TakesRoom
<1>3. CASE ~(b.chunks # <<>> /\ b.chunks[1].front >= n)
  <2> DEFINE new == NewBuffer(Fresh(n))
  <2>1. InsertFrontRoom(b, n) = InsertFrontBuffer(b, new)
    BY <1>3 DEF InsertFrontRoom
  <2>2. Consistent(new) /\ Text(new) = Fresh(n)
    BY FreshIs, NewBufferIs
  <2> HIDE DEF new
  <2> QED
    BY <2>1, <2>2, InsertFrontIs
<1> QED
  BY <1>2, <1>3

JoinsThree(r, as, cs, ds) ==
  Consistent(r) /\ Text(r) = TextOf(as) \o (TextOf(cs) \o TextOf(ds))

\* Three lists of chunks joined.
LEMMA JoinedThree ==
  ASSUME NEW as \in Seq(Chunk), NEW cs \in Seq(Chunk), NEW ds \in Seq(Chunk), NEW tail, NEW size,
         tail = Len(as) + (Len(cs) + Len(ds)),
         size = Len(TextOf(as)) + (Len(TextOf(cs)) + Len(TextOf(ds)))
  PROVE  JoinsThree([chunks |-> as \o cs \o ds, tail |-> tail, size |-> size], as, cs, ds)
<1> DEFINE es == cs \o ds
           x == TextOf(as)
           y == TextOf(cs)
           z == TextOf(ds)
<1>1. es \in Seq(Chunk) /\ Len(es) = Len(cs) + Len(ds) /\ TextOf(es) = y \o z
  BY TextConcat, ConcatProperties
<1>2. x \in Seq(Char) /\ y \in Seq(Char) /\ z \in Seq(Char)
  BY TextType
<1>3. Len(y \o z) = Len(y) + Len(z)
  <2> HIDE DEF y, z
  <2> QED
    BY <1>2, ConcatProperties
<1>4. tail = Len(as) + Len(es) /\ size = Len(x) + Len(TextOf(es))
  BY <1>1, <1>3
<1>5. (as \o cs) \o ds = as \o es
  <2>1. Grouped(as, cs, ds, ds)
    BY Regroup
  <2> QED
    BY <2>1 DEF Grouped
<1> HIDE DEF es
<1>6. LET r == [chunks |-> as \o es, tail |-> tail, size |-> size] IN
      Consistent(r) /\ Text(r) = TextOf(as) \o TextOf(es)
  BY <1>1, <1>4, Joined
<1> QED
  BY <1>1, <1>5, <1>6 DEF JoinsThree

\* The parts of a chunk that is broken.
LEMMA KeptIs ==
  ASSUME NEW c \in Chunk, NEW pos \in 1..Len(c.data)
  PROVE  KeptTo(c, pos) \in Chunk /\ KeptTo(c, pos).data = Take(c.data, pos)
<1> DEFINE d == c.data
           h == Take(d, pos)
           s == c.spare + Len(d) - pos
<1>1. d \in Seq(Char) /\ Len(d) \in Nat /\ c.front \in Nat /\ c.spare \in Nat
  BY LenProperties DEF Chunk
<1>2. h \in Seq(Char) /\ Len(h) = pos /\ pos \in Nat /\ pos # 0
  <2>1. pos \in 1..Len(d)
    OBVIOUS
  <2> HIDE DEF d
  <2>2. pos \in 0..Len(d) /\ pos \in Nat /\ pos # 0
    BY <1>1, <2>1
  <2> QED
    BY <1>1, <2>2, TakeDrop
<1>3. h # <<>>
  <2> HIDE DEF h
  <2> QED
    BY <1>2, EmptySeq
<1>4. s \in Nat
  BY <1>1, <1>2
<1>5. KeptTo(c, pos) = [c EXCEPT !.data = h, !.spare = s]
  BY DEF KeptTo
<1> HIDE DEF h, s
<1> QED
  BY <1>2, <1>3, <1>4, <1>5 DEF Chunk, h

RestOf(rest) == IF rest = <<>> THEN <<>> ELSE <<NewBuf(rest)>>

\* What a broken chunk hands over is a chunk, or nothing.
LEMMA RestIs ==
  ASSUME NEW rest \in Seq(Char)
  PROVE  RestOf(rest) \in Seq(Chunk) /\ TextOf(RestOf(rest)) = rest
<1>1. CASE rest = <<>>
  BY <1>1, TextEmpty DEF RestOf
<1>2. CASE rest # <<>>
  <2> DEFINE c == NewBuf(rest)
  <2>1. c \in Chunk /\ c.data = rest
    BY <1>2 DEF NewBuf, Chunk
  <2>2. RestOf(rest) = <<c>>
    BY <1>2 DEF RestOf
  <2> HIDE DEF c
  <2> QED
    BY <2>1, <2>2, TextOne
<1> QED
  BY <1>1, <1>2

\* A buffer put into a chunk that is broken for it.
LEMMA InsertBufAtIs ==
  ASSUME NEW b, Consistent(b), NEW new, Consistent(new), NEW i \in 1..Len(b.chunks),
         NEW pos \in 1..Len(b.chunks[i].data)
  PROVE  Inserts(InsertBufAt(b, i, new, pos), b, Before(b, i) + pos, Text(new))
<1> DEFINE c    == b.chunks[i]
           w    == Text(new)
           pre  == Take(b.chunks, i - 1)
           post == Drop(b.chunks, i)
           k    == KeptTo(c, pos)
           mid  == Broken(b, i, new, pos)
           rest == Drop(c.data, pos)
           last == RestOf(rest)
           tail == b.tail + Len(mid) - 1
           size == b.size + new.size
           r    == InsertBufAt(b, i, new, pos)
<1>1. PICK x, d, z : Around(b, i, x, d, z)
  BY AroundIs
<1>2. /\ x \in Seq(Char) /\ d \in Seq(Char) /\ z \in Seq(Char) /\ d = c.data
      /\ Len(x) \in Nat /\ Len(d) \in Nat /\ Len(z) \in Nat
      /\ x = TextOf(pre) /\ z = TextOf(post)
      /\ Text(b) = x \o (d \o z) /\ Before(b, i) = Len(x)
      /\ b.size = Len(x) + (Len(d) + Len(z))
  BY <1>1 DEF Around
<1>3. c \in Chunk /\ b.chunks \in Seq(Chunk) /\ b.tail = Len(b.chunks) /\ Len(b.chunks) \in Nat
  BY BufferText, ElementOfSeq
<1>4. /\ pre \in Seq(Chunk) /\ Len(pre) = i - 1 /\ post \in Seq(Chunk)
      /\ Len(post) = Len(b.chunks) - i
  <2>1. i - 1 \in 0..Len(b.chunks) /\ i \in 0..Len(b.chunks)
    BY <1>3
  <2> QED
    BY <1>3, <2>1, TakeDrop
<1>5. /\ new.chunks \in Seq(Chunk) /\ TextOf(new.chunks) = w /\ w \in Seq(Char)
      /\ new.size = Len(w) /\ Len(w) \in Nat
  BY BufferText
<1>6. pos \in 1..Len(d) /\ pos \in 0..Len(d)
  <2>1. pos \in 1..Len(d)
    BY <1>2
  <2> HIDE DEF c
  <2> QED
    BY <1>2, <2>1
<1>7. k \in Chunk /\ k.data = Take(d, pos) /\ rest = Drop(d, pos)
  <2>1. pos \in 1..Len(c.data)
    BY <1>2, <1>6
  <2> HIDE DEF c
  <2> QED
    BY <1>2, <1>3, <2>1, KeptIs
<1>8. /\ Take(d, pos) \in Seq(Char) /\ Len(Take(d, pos)) = pos
      /\ Drop(d, pos) \in Seq(Char) /\ Len(Drop(d, pos)) = Len(d) - pos
  BY <1>2, <1>6, TakeDrop
<1>9. last \in Seq(Chunk) /\ TextOf(last) = Drop(d, pos)
  BY <1>7, <1>8, RestIs
<1>10. mid = <<k>> \o new.chunks \o last
  BY DEF Broken, RestOf
<1> HIDE DEF c, k, rest, last, pre, post, w, mid
<1>11. /\ mid \in Seq(Chunk) /\ TextOf(mid) = Take(d, pos) \o (w \o Drop(d, pos))
  <2>1. <<k>> \in Seq(Chunk) /\ TextOf(<<k>>) = Take(d, pos)
    BY <1>7, TextOne
  <2> DEFINE n == new.chunks
             u == <<k>>
  <2>2. n \in Seq(Chunk) /\ TextOf(n) = w
    BY <1>5
  <2> HIDE DEF n, u
  <2>3. u \o n \in Seq(Chunk) /\ TextOf(u \o n) = Take(d, pos) \o w
    BY <2>1, <2>2, TextConcat DEF u
  <2>4. (u \o n) \o last \in Seq(Chunk) /\ TextOf((u \o n) \o last) = (Take(d, pos) \o w) \o Drop(d, pos)
    <3> DEFINE v == u \o n
    <3> HIDE DEF v
    <3>1. v \in Seq(Chunk) /\ TextOf(v) = Take(d, pos) \o w
      BY <2>3 DEF v
    <3>2. v \o last \in Seq(Chunk) /\ TextOf(v \o last) = TextOf(v) \o TextOf(last)
      BY <1>9, <3>1, TextConcat
    <3> QED
      BY <1>9, <3>1, <3>2 DEF v
  <2>5. (Take(d, pos) \o w) \o Drop(d, pos) = Take(d, pos) \o (w \o Drop(d, pos))
    <3>1. Grouped(Take(d, pos), w, Drop(d, pos), w)
      BY <1>5, <1>8, Regroup
    <3> QED
      BY <3>1 DEF Grouped
  <2>6. mid = (u \o n) \o last
    BY <1>10 DEF u, n
  <2> QED
    BY <2>4, <2>5, <2>6
<1>12. Len(mid) \in Nat /\ Len(TextOf(mid)) = pos + (Len(w) + (Len(d) - pos))
  <2> DEFINE p == Take(d, pos)
             q == Drop(d, pos)
  <2>1. p \in Seq(Char) /\ q \in Seq(Char) /\ Len(p) = pos /\ Len(q) = Len(d) - pos
    BY <1>8
  <2> HIDE DEF p, q
  <2>2. Len(p \o (w \o q)) = Len(p) + (Len(w) + Len(q))
    <3>1. SumsUp(p, w, q)
      BY <1>5, <2>1, SumOfLengths
    <3> QED
      BY <3>1 DEF SumsUp
  <2>3. Len(mid) \in Nat
    BY <1>11, LenProperties
  <2> QED
    BY <1>11, <2>1, <2>2, <2>3 DEF p, q
<1>13. tail = Len(pre) + (Len(mid) + Len(post)) /\ size = Len(TextOf(pre)) + (Len(TextOf(mid)) + Len(TextOf(post)))
  <2>1. tail = Len(pre) + (Len(mid) + Len(post))
    <3>1. i \in Nat
      BY <1>3
    <3> QED
      BY <1>3, <1>4, <1>12, <3>1
  <2>2. size = (Len(x) + (Len(d) + Len(z))) + Len(w)
    BY <1>2, <1>5
  <2>3. pos \in Nat
    BY <1>6
  <2>4. \A l, m, n, o \in Nat : (l + (m + n)) + o = l + ((pos + (o + (m - pos))) + n)
    BY <2>3
  <2>5. (Len(x) + (Len(d) + Len(z))) + Len(w) = Len(x) + ((pos + (Len(w) + (Len(d) - pos))) + Len(z))
    BY <1>2, <1>5, <2>4
  <2> HIDE DEF size, tail
  <2>6. size = Len(x) + (Len(TextOf(mid)) + Len(z))
    BY <1>12, <2>2, <2>5, Zenon
  <2> QED
    BY <1>2, <2>1, <2>6
<1>14. r = [chunks |-> pre \o mid \o post, tail |-> tail, size |-> size]
  BY DEF InsertBufAt, pre, mid, post
<1> HIDE DEF tail, size, r
<1>15. Consistent(r) /\ Text(r) = x \o ((Take(d, pos) \o (w \o Drop(d, pos))) \o z)
  <2>1. JoinsThree([chunks |-> pre \o mid \o post, tail |-> tail, size |-> size], pre, mid, post)
    BY <1>4, <1>11, <1>13, JoinedThree
  <2> QED
    BY <1>2, <1>11, <1>14, <2>1, Zenon DEF JoinsThree
<1>16. (Take(d, pos) \o (w \o Drop(d, pos))) \o z = Take(d, pos) \o (w \o (Drop(d, pos) \o z))
  <2>1. Grouped(Take(d, pos), w, Drop(d, pos), z)
    BY <1>2, <1>5, <1>8, Regroup
  <2> QED
    BY <2>1 DEF Grouped
<1>17. Spliced(Text(b), Len(x) + pos, w) = x \o (Take(d, pos) \o (w \o (Drop(d, pos) \o z)))
  <2>1. SplicesIn(x, d, z, w, pos)
    BY <1>2, <1>5, <1>6, SplicedIn
  <2> QED
    BY <1>2, <2>1, Zenon DEF SplicesIn
<1>18. Text(r) = Spliced(Text(b), Before(b, i) + pos, w)
  BY <1>2, <1>15, <1>16, <1>17, Zenon
<1> QED
  BY <1>15, <1>18 DEF Inserts, r, w

\* Insert(buffer, pos) is splicing.
LEMMA InsertBufferIs ==
  ASSUME NEW b, Consistent(b), NEW new, Consistent(new), NEW pos \in Nat, pos <= b.size
  PROVE  Inserts(InsertBuffer(b, new, pos), b, pos, Text(new))
<1>1. CASE pos = b.size
  BY <1>1, InsertBackIs DEF InsertBuffer
<1>2. CASE pos # b.size /\ pos = 0
  BY <1>2, InsertFrontIs DEF InsertBuffer
<1>3. CASE pos # b.size /\ pos # 0
  <2> DEFINE i == ChunkUpTo(b, pos)
             at == pos - Before(b, i)
  <2>1. /\ i \in 1..Len(b.chunks) /\ Before(b, i) < pos /\ pos <= Before(b, i + 1)
    BY <1>3, ChunkUpToIs
  <2>2. InsertBuffer(b, new, pos) = InsertBufAt(b, i, new, at)
    BY <1>3 DEF InsertBuffer
  <2> HIDE DEF i
  <2>3. /\ Before(b, i + 1) = Before(b, i) + Len(b.chunks[i].data)
        /\ Before(b, i) \in Nat /\ Len(b.chunks[i].data) \in Nat
    <3>1. i \in 1..Len(b.chunks) + 1
      BY <2>1, BufferText
    <3> QED
      BY <2>1, <3>1, Places
  <2>4. at \in 1..Len(b.chunks[i].data) /\ Before(b, i) + at = pos
    BY <2>1, <2>3
  <2> HIDE DEF at
  <2>5. Inserts(InsertBufAt(b, i, new, at), b, Before(b, i) + at, Text(new))
    BY <2>1, <2>4, InsertBufAtIs
  <2> QED
    BY <2>2, <2>4, <2>5
<1> QED
  BY <1>1, <1>2, <1>3

SplicesTwice(s, p, f, g) == Spliced(Spliced(s, p, f), p + Len(f), g) = Spliced(s, p, f \o g)

\* Two pieces spliced at one place, the second behind the first.
LEMMA SplicedTwice ==
  ASSUME NEW S, NEW s \in Seq(S), NEW p \in 0..Len(s), NEW f \in Seq(S), NEW g \in Seq(S)
  PROVE  SplicesTwice(s, p, f, g)
<1> DEFINE x == Take(s, p)
           y == Drop(s, p)
<1>1. x \in Seq(S) /\ y \in Seq(S) /\ Len(x) = p
  BY TakeDrop
<1>2. Spliced(s, p, f) = (x \o f) \o y /\ Spliced(s, p, f \o g) = (x \o (f \o g)) \o y
  BY DEF Spliced
<1> HIDE DEF x, y
<1>3. (x \o f) \o y = x \o (f \o y) /\ (x \o (f \o g)) \o y = x \o (f \o (g \o y))
  <2>1. Grouped(x, f, y, y) /\ Grouped(x, f, g, y)
    BY <1>1, Regroup
  <2> QED
    BY <2>1 DEF Grouped
<1>4. Spliced(x \o (f \o y), Len(x) + Len(f), g) = x \o ((f \o g) \o y)
  <2>1. SplicesAround(x, f, y, g)
    BY <1>1, SplicedAround
  <2> QED
    BY <2>1 DEF SplicesAround
<1>5. (f \o g) \o y = f \o (g \o y)
  <2>1. Grouped(f, g, y, y)
    BY <1>1, Regroup
  <2> QED
    BY <2>1 DEF Grouped
<1> QED
  BY <1>1, <1>2, <1>3, <1>4, <1>5, Zenon DEF SplicesTwice

\* Two chunks updated, one after the other.
LEMMA RecordTwice ==
  ASSUME NEW A, NEW B, NEW C, NEW b \in [chunks : A, tail : B, size : C],
         NEW i, NEW c, NEW j, NEW d, NEW m, NEW n
  PROVE  [[b EXCEPT !.chunks[i] = c, !.size = m] EXCEPT !.chunks[j] = d, !.size = n]
           = [b EXCEPT !.chunks[i] = c, !.chunks[j] = d, !.size = n]
OBVIOUS

\* The room between two chunks.
LEMMA GrownTwice ==
  ASSUME NEW b, Consistent(b), NEW i \in 1..Len(b.chunks), i + 1 \in 1..Len(b.chunks),
         NEW m \in Nat, NEW n \in Nat, m <= b.chunks[i].spare, n <= b.chunks[i + 1].front
  PROVE  Inserts([b EXCEPT !.chunks[i] = GrownBack(b.chunks[i], m),
                           !.chunks[i + 1] = GrownFront(b.chunks[i + 1], n),
                           !.size = b.size + (m + n)],
                 b, Before(b, i + 1), Fresh(m + n))
<1> DEFINE c == GrownBack(b.chunks[i], m)
           d == GrownFront(b.chunks[i + 1], n)
           p == Before(b, i + 1)
           a == [b EXCEPT !.chunks[i] = c, !.size = b.size + m]
           e == [a EXCEPT !.chunks[i + 1] = d, !.size = a.size + n]
           r == [b EXCEPT !.chunks[i] = c, !.chunks[i + 1] = d, !.size = b.size + (m + n)]
<1>1. TakesRoom(a, b, i, c, p, m)
  BY GrownBackIs
<1>2. /\ b.chunks \in Seq(Chunk) /\ Len(b.chunks) \in Nat /\ i \in Nat /\ i # i + 1
      /\ b \in [chunks : Seq(Chunk), tail : Nat, size : Nat] /\ b.size \in Nat
      /\ Text(b) \in Seq(Char) /\ b.size = Len(Text(b))
  BY BufferText DEF Consistent, Buffers
<1>3. p \in 0..Len(Text(b))
  <2>1. p \in Nat /\ p <= b.size
    <3>1. i + 1 \in 1..Len(b.chunks) + 1
      BY <1>2
    <3> QED
      BY <3>1, Places
  <2> QED
    BY <1>2, <2>1
<1> HIDE DEF a, p
<1>4. /\ Consistent(a) /\ Text(a) = Spliced(Text(b), p, Fresh(m))
      /\ a.chunks = [b.chunks EXCEPT ![i] = c] /\ a.size = b.size + m
      /\ Before(a, i + 1) = p + m
  BY <1>1 DEF TakesRoom, Inserts, p
<1>5. Len(a.chunks) = Len(b.chunks) /\ a.chunks[i + 1] = b.chunks[i + 1]
  <2> HIDE DEF c
  <2>1. a.chunks \in Seq(Chunk)
    BY <1>4, BufferText
  <2>2. DOMAIN a.chunks = DOMAIN b.chunks /\ a.chunks[i + 1] = b.chunks[i + 1]
    <3>1. i + 1 \in DOMAIN b.chunks
      BY <1>2, LenProperties
    <3> QED
      BY <1>2, <1>4, <3>1
  <2> QED
    BY <1>2, <2>1, <2>2, LenProperties
<1>6. TakesRoom(e, a, i + 1, d, p + m, n)
  <2>1. i + 1 \in 1..Len(a.chunks) /\ n <= a.chunks[i + 1].front /\ d = GrownFront(a.chunks[i + 1], n)
    BY <1>5
  <2> HIDE DEF d
  <2> DEFINE j == i + 1
  <2>2. j \in 1..Len(a.chunks) /\ n <= a.chunks[j].front /\ d = GrownFront(a.chunks[j], n)
    BY <2>1
  <2>3. Before(a, j) = p + m
    BY <1>4
  <2> HIDE DEF j
  <2>4. TakesRoom([a EXCEPT !.chunks[j] = GrownFront(@, n), !.size = @ + n], a, j,
                  GrownFront(a.chunks[j], n), Before(a, j), n)
    BY <1>4, <2>2, GrownFrontIs
  <2>5. e = [a EXCEPT !.chunks[j] = GrownFront(@, n), !.size = @ + n]
    BY <2>2 DEF j
  <2> HIDE DEF e
  <2> QED
    BY <2>2, <2>3, <2>4, <2>5 DEF j
<1>7. e = r
  <2> DEFINE s == a.size + n
  <2>1. s = b.size + (m + n)
    <3>1. b.size + m + n = b.size + (m + n)
      BY <1>2
    <3> QED
      BY <1>4, <3>1
  <2> HIDE DEF c, d, s
  <2>2. [[b EXCEPT !.chunks[i] = c, !.size = b.size + m] EXCEPT !.chunks[i + 1] = d, !.size = s]
           = [b EXCEPT !.chunks[i] = c, !.chunks[i + 1] = d, !.size = s]
    BY <1>2, RecordTwice
  <2>3. [a EXCEPT !.chunks[i + 1] = d, !.size = s] = [b EXCEPT !.chunks[i] = c, !.chunks[i + 1] = d, !.size = s]
    BY <2>2 DEF a
  <2>4. e = [a EXCEPT !.chunks[i + 1] = d, !.size = s]
    BY DEF s
  <2> HIDE DEF e
  <2> QED
    BY <2>1, <2>3, <2>4
<1> HIDE DEF e, r, c, d
<1>8. Consistent(r) /\ Text(r) = Spliced(Spliced(Text(b), p, Fresh(m)), p + m, Fresh(n))
  BY <1>4, <1>6, <1>7 DEF TakesRoom, Inserts
<1>9. Spliced(Spliced(Text(b), p, Fresh(m)), p + m, Fresh(n)) = Spliced(Text(b), p, Fresh(m) \o Fresh(n))
  <2> DEFINE f == Fresh(m)
             g == Fresh(n)
             t == Text(b)
  <2>1. f \in Seq(Char) /\ Len(f) = m /\ g \in Seq(Char) /\ t \in Seq(Char) /\ p \in 0..Len(t)
    BY <1>2, <1>3, FreshIs
  <2> HIDE DEF f, g, t
  <2>2. Spliced(Spliced(t, p, f), p + Len(f), g) = Spliced(t, p, f \o g)
    <3>1. SplicesTwice(t, p, f, g)
      BY <2>1, SplicedTwice
    <3> QED
      BY <3>1 DEF SplicesTwice
  <2> QED
    BY <2>1, <2>2 DEF f, g, t
<1>10. Fresh(m) \o Fresh(n) = Fresh(m + n)
  BY FreshSplits
<1> QED
  BY <1>8, <1>9, <1>10 DEF Inserts, r, c, d, p

\* Insert(skip, len) is splicing, wherever the room is found.
LEMMA InsertRoomIs ==
  ASSUME NEW b, Consistent(b), NEW skip \in Nat, skip <= b.size, NEW n \in Nat
  PROVE  Inserts(InsertRoom(b, skip, n), b, skip, Fresh(n))
<1>1. CASE n = 0
  <2>1. InsertRoom(b, skip, n) = b
    BY <1>1 DEF InsertRoom
  <2>2. Spliced(Text(b), skip, Fresh(n)) = Text(b)
    <3> DEFINE t == Text(b)
               f == Fresh(n)
    <3>1. t \in Seq(Char) /\ f \in Seq(Char) /\ f = <<>> /\ skip \in 0..Len(t)
      <4>1. t \in Seq(Char) /\ b.size = Len(t) /\ b.size \in Nat
        BY BufferText
      <4> QED
        BY <1>1, <4>1, FreshIs
    <3> HIDE DEF t, f
    <3>2. Spliced(t, skip, f) = t
      BY <3>1, Splices
    <3> QED
      BY <3>2 DEF t, f
  <2> QED
    BY <2>1, <2>2 DEF Inserts
<1>2. CASE n # 0 /\ skip = b.size
  BY <1>2, InsertBackRoomIs DEF InsertRoom
<1>3. CASE n # 0 /\ skip # b.size /\ skip = 0
  BY <1>3, InsertFrontRoomIs DEF InsertRoom
<1>4. CASE n # 0 /\ skip # b.size /\ skip # 0
  <2> DEFINE i    == ChunkUpTo(b, skip)
             here == MinOf(n, b.chunks[i].spare)
             at   == skip - Before(b, i)
             new  == NewBuffer(Fresh(n))
             fits == skip = Before(b, i + 1) /\ b.chunks[i].spare + b.chunks[i + 1].front >= n
             r    == [b EXCEPT !.chunks[i] = GrownBack(@, here),
                               !.chunks[i + 1] = GrownFront(@, n - here), !.size = @ + n]
  <2>1. i \in 1..Len(b.chunks) /\ Before(b, i) < skip /\ skip <= Before(b, i + 1)
    BY <1>4, ChunkUpToIs
  <2>2. InsertRoom(b, skip, n) = IF fits THEN r ELSE InsertBufAt(b, i, new, at)
    BY <1>4 DEF InsertRoom
  <2> HIDE DEF i
  <2>3. /\ Before(b, i + 1) = Before(b, i) + Len(b.chunks[i].data)
        /\ Before(b, i) \in Nat /\ Len(b.chunks[i].data) \in Nat
        /\ Len(b.chunks) \in Nat /\ Before(b, Len(b.chunks) + 1) = b.size
    <3>1. i \in 1..Len(b.chunks) + 1
      BY <2>1, BufferText
    <3> QED
      BY <2>1, <3>1, Places
  <2>4. CASE fits
    <3>1. i + 1 \in 1..Len(b.chunks) /\ i # i + 1 /\ i \in Nat
      <4>1. i # Len(b.chunks)
        BY <1>4, <2>3, <2>4
      <4> QED
        BY <2>1, <2>3, <4>1
    <3>2. b.chunks[i] \in Chunk /\ b.chunks[i + 1] \in Chunk
      BY <2>1, <3>1, BufferText, ElementOfSeq
    <3>3. b.chunks[i].spare \in Nat /\ b.chunks[i + 1].front \in Nat
      BY <3>2 DEF Chunk
    <3> DEFINE m == n - here
    <3>4. /\ here \in Nat /\ m \in Nat /\ here + m = n /\ here <= b.chunks[i].spare
          /\ m <= b.chunks[i + 1].front
      BY <2>4, <3>3 DEF MinOf
    <3>5. r = [b EXCEPT !.chunks[i] = GrownBack(b.chunks[i], here),
                        !.chunks[i + 1] = GrownFront(b.chunks[i + 1], m),
                        !.size = b.size + (here + m)]
      <4>1. r = [b EXCEPT !.chunks[i] = GrownBack(b.chunks[i], here),
                          !.chunks[i + 1] = GrownFront(b.chunks[i + 1], m), !.size = b.size + n]
        <5>1. b \in [chunks : Seq(Chunk), tail : Nat, size : Nat]
          BY DEF Consistent, Buffers
        <5> QED
          BY <3>1, <5>1
      <4> QED
        BY <3>4, <4>1
    <3> HIDE DEF r, here, m
    <3>6. Inserts(r, b, Before(b, i + 1), Fresh(here + m))
      BY <2>1, <3>1, <3>4, <3>5, GrownTwice
    <3> QED
      BY <2>2, <2>4, <3>4, <3>6
  <2>5. CASE ~fits
    <3>1. at \in 1..Len(b.chunks[i].data) /\ Before(b, i) + at = skip
      BY <2>1, <2>3
    <3>2. Consistent(new) /\ Text(new) = Fresh(n)
      BY FreshIs, NewBufferIs
    <3>3. InsertRoom(b, skip, n) = InsertBufAt(b, i, new, at)
      BY <2>2, <2>5
    <3> HIDE DEF at, new
    <3>4. Inserts(InsertBufAt(b, i, new, at), b, Before(b, i) + at, Text(new))
      BY <2>1, <3>1, <3>2, InsertBufAtIs
    <3> QED
      BY <3>1, <3>2, <3>3, <3>4
  <2> QED
    BY <2>4, <2>5
<1> QED
  BY <1>1, <1>2, <1>3, <1>4

-----------------------------------------------------------------------------
(* What is removed. *)

\* Later chunks are further on.
LEMMA BeforeGrows ==
  ASSUME NEW b, Consistent(b), NEW i \in 1..Len(b.chunks) + 1, NEW j \in 1..Len(b.chunks) + 1, i <= j
  PROVE  Before(b, i) <= Before(b, j)
<1> DEFINE L == Len(b.chunks)
           P(k) == Before(b, k)
           N == {k \in Nat : i + k <= L + 1 => P(i) <= P(i + k)}
<1>1. /\ L \in Nat /\ i \in Nat /\ j \in Nat /\ \A k \in 1..L + 1 : P(k) \in Nat
      /\ \A k \in 1..L : P(k + 1) = P(k) + Len(b.chunks[k].data) /\ Len(b.chunks[k].data) \in Nat
  BY BufferText, Places
<1>2. /\ i \in 1..L + 1 /\ j \in 1..L + 1
  OBVIOUS
<1> HIDE DEF L, P
<1>3. 0 \in N
  BY <1>1, <1>2
<1>4. ASSUME NEW k \in Nat, k \in N PROVE k + 1 \in N
  <2>1. CASE i + (k + 1) <= L + 1
    <3>1. i + k \in 1..L /\ (i + k) + 1 = i + (k + 1) /\ i + k \in 1..L + 1
      BY <1>1, <1>2, <2>1
    <3>2. P(i) <= P(i + k)
      BY <1>1, <1>4, <3>1
    <3>3. P((i + k) + 1) = P(i + k) + Len(b.chunks[i + k].data) /\ Len(b.chunks[i + k].data) \in Nat
      BY <1>1, <3>1
    <3>4. P(i) \in Nat /\ P(i + k) \in Nat
      BY <1>1, <1>2, <3>1
    <3>5. P(i) <= P((i + k) + 1)
      BY <3>2, <3>3, <3>4
    <3> QED
      BY <3>1, <3>5
  <2>2. CASE ~(i + (k + 1) <= L + 1)
    BY <2>2
  <2> QED
    BY <2>1, <2>2
<1>5. Nat \subseteq N
  <2> HIDE DEF N
  <2> QED
    BY <1>3, <1>4, Induct
<1>6. j - i \in N /\ i + (j - i) = j
  <2>1. j - i \in Nat /\ i + (j - i) = j
    BY <1>1
  <2> HIDE DEF N
  <2> QED
    BY <1>5, <2>1
<1> QED
  BY <1>1, <1>2, <1>6 DEF P

\* The text up to a chunk.
LEMMA TextUpTo ==
  ASSUME NEW b, Consistent(b), NEW i \in 1..Len(b.chunks) + 1
  PROVE  /\ Take(b.chunks, i - 1) \in Seq(Chunk) /\ Len(Take(b.chunks, i - 1)) = i - 1
         /\ Take(Text(b), Before(b, i)) = TextOf(Take(b.chunks, i - 1))
         /\ Before(b, i) = Len(TextOf(Take(b.chunks, i - 1)))
<1> DEFINE h == Take(b.chunks, i - 1)
           t == Drop(b.chunks, i - 1)
<1>1. b.chunks \in Seq(Chunk) /\ i - 1 \in 0..Len(b.chunks) /\ Text(b) = TextOf(b.chunks)
  BY BufferText
<1>2. h \in Seq(Chunk) /\ t \in Seq(Chunk) /\ h \o t = b.chunks /\ Len(h) = i - 1
  BY <1>1, TakeDrop
<1>3. Before(b, i) = Len(TextOf(h))
  BY DEF Before
<1> HIDE DEF h, t
<1> DEFINE x == TextOf(h)
           y == TextOf(t)
<1>4. Text(b) = x \o y /\ x \in Seq(Char) /\ y \in Seq(Char)
  BY <1>1, <1>2, TextConcat, TextType
<1> HIDE DEF x, y
<1>5. Take(x \o y, Len(x)) = x
  BY <1>4, SplitAt
<1>6. Take(Text(b), Before(b, i)) = x
  BY <1>3, <1>4, <1>5 DEF x
<1> QED
  BY <1>2, <1>3, <1>6 DEF h, x

\* A chunk that releases its front.
LEMMA CutFrontIs ==
  ASSUME NEW c \in Chunk, NEW n \in 0..Len(c.data) - 1
  PROVE  CutFront(c, n) \in Chunk /\ CutFront(c, n).data = Drop(c.data, n)
<1> DEFINE d == c.data
           h == Drop(d, n)
           s == c.front + n
<1>1. d \in Seq(Char) /\ Len(d) \in Nat /\ c.front \in Nat /\ c.spare \in Nat
  BY LenProperties DEF Chunk
<1>2. h \in Seq(Char) /\ Len(h) # 0 /\ n \in Nat
  <2>1. n \in 0..Len(d) - 1
    OBVIOUS
  <2> HIDE DEF d
  <2>2. n \in 0..Len(d) /\ n \in Nat /\ Len(d) - n # 0
    BY <1>1, <2>1
  <2>3. h \in Seq(Char) /\ Len(h) = Len(d) - n
    BY <1>1, <2>2, TakeDrop
  <2> QED
    BY <2>2, <2>3
<1>3. h # <<>>
  <2> HIDE DEF h
  <2> QED
    BY <1>2, EmptySeq
<1>4. s \in Nat
  BY <1>1, <1>2
<1>5. CutFront(c, n) = [c EXCEPT !.data = h, !.front = s]
  BY DEF CutFront
<1> HIDE DEF h, s
<1> QED
  BY <1>2, <1>3, <1>4, <1>5 DEF Chunk, h

\* A chunk that loses bytes behind its first.
LEMMA CutOutIs ==
  ASSUME NEW c \in Chunk, NEW at \in Nat, at # 0, NEW n \in Nat, at + n <= Len(c.data)
  PROVE  /\ CutOut(c, at, n) \in Chunk
         /\ CutOut(c, at, n).data = Take(c.data, at) \o Drop(c.data, at + n)
         /\ Len(CutOut(c, at, n).data) = Len(c.data) - n
<1> DEFINE d == c.data
           u == Take(d, at)
           v == Drop(d, at + n)
           h == u \o v
           s == c.spare + n
<1>1. d \in Seq(Char) /\ Len(d) \in Nat /\ c.front \in Nat /\ c.spare \in Nat /\ at + n <= Len(d)
  BY LenProperties DEF Chunk
<1> HIDE DEF d
<1>2. /\ u \in Seq(Char) /\ Len(u) = at /\ v \in Seq(Char) /\ Len(v) = Len(d) - (at + n)
  <2>1. at \in 0..Len(d) /\ at + n \in 0..Len(d)
    BY <1>1
  <2> QED
    BY <1>1, <2>1, TakeDrop
<1> HIDE DEF u, v
<1>3. h \in Seq(Char) /\ Len(h) = Len(d) - n
  <2>1. h \in Seq(Char) /\ Len(h) = Len(u) + Len(v)
    BY <1>2, ConcatProperties
  <2> QED
    BY <1>1, <1>2, <2>1
<1>4. h # <<>>
  <2> HIDE DEF h
  <2>1. Len(h) # 0
    BY <1>1, <1>3
  <2> QED
    BY <2>1, EmptySeq
<1>5. s \in Nat
  BY <1>1
<1>6. CutOut(c, at, n) = [c EXCEPT !.data = h, !.spare = s]
  BY DEF CutOut, d, u, v
<1> HIDE DEF h, s
<1>7. CutOut(c, at, n) \in Chunk /\ CutOut(c, at, n).data = h
  BY <1>3, <1>4, <1>5, <1>6 DEF Chunk
<1> QED
  BY <1>3, <1>7 DEF h, u, v, d

\* What removing means.
Cuts(r, b, skip, n) == Consistent(r) /\ Text(r) = Cut(Text(b), skip, n)

\* The loop of Shrink removes the n bytes behind the border where it
\* starts.
LEMMA ShrinkFromIs ==
  ASSUME NEW b, Consistent(b), NEW i \in 1..Len(b.chunks) + 1, NEW n \in Nat,
         Before(b, i) + n <= b.size
  PROVE  Cuts(ShrinkFrom(b, i, n), b, Before(b, i), n)
<1> DEFINE L == Len(b.chunks)
           gone(j) == Before(b, j) - Before(b, i)
           stops(j) == gone(j) <= n /\ (j <= L => n < gone(j + 1))
           first == CHOOSE j \in i..L + 1 : stops(j)
           left == n - gone(first)
           stays == IF first > L THEN <<>> ELSE <<CutFront(b.chunks[first], left)>> \o Drop(b.chunks, first)
           head == Take(b.chunks, i - 1)
           tail == IF stays = <<>> THEN i - 1 ELSE b.tail - (first - i)
           size == b.size - n
           target == Before(b, i) + n
           r == ShrinkFrom(b, i, n)
<1>1. /\ b.chunks \in Seq(Chunk) /\ L \in Nat /\ b.tail = L /\ b.size \in Nat /\ i \in Nat
      /\ Text(b) \in Seq(Char) /\ b.size = Len(Text(b))
      /\ \A j \in 1..L + 1 : Before(b, j) \in Nat
      /\ Before(b, L + 1) = b.size /\ Before(b, i) \in Nat
  BY BufferText, Places
<1>2. r = [chunks |-> head \o stays, tail |-> tail, size |-> size]
  BY DEF ShrinkFrom
<1> HIDE DEF r
<1>3. \E j \in i..L + 1 : stops(j)
  <2>1. CASE target = b.size
    <3>1. stops(L + 1) /\ L + 1 \in i..L + 1
      BY <1>1, <2>1
    <3> QED
      BY <3>1
  <2>2. CASE target # b.size
    <3> DEFINE j == ChunkAt(b, target)
    <3>1. target \in Nat /\ target < b.size
      BY <1>1, <2>2
    <3>2. j \in 1..L /\ Before(b, j) <= target /\ target < Before(b, j + 1)
      BY <3>1, ChunkAtIs
    <3> HIDE DEF j
    <3>3. j \in 1..L + 1 /\ j + 1 \in 1..L + 1 /\ j \in Nat
      BY <1>1, <3>2
    <3>4. i <= j
      <4>1. ASSUME j + 1 <= i PROVE FALSE
        <5>1. Before(b, j + 1) <= Before(b, i)
          BY <3>3, <4>1, BeforeGrows
        <5> QED
          BY <1>1, <3>2, <3>3, <5>1
      <4> QED
        BY <1>1, <3>3, <4>1
    <3>5. stops(j)
      BY <1>1, <3>2, <3>3
    <3> QED
      BY <1>1, <3>3, <3>4, <3>5
  <2> QED
    BY <2>1, <2>2
<1>4. first \in i..L + 1 /\ stops(first)
  <2> HIDE DEF stops
  <2> QED
    BY <1>3
<1> HIDE DEF first
<1>5. first \in 1..L + 1 /\ first \in Nat /\ Before(b, first) \in Nat
  BY <1>1, <1>4
<1>6. /\ head \in Seq(Chunk) /\ Len(head) = i - 1
      /\ Take(Text(b), Before(b, i)) = TextOf(head) /\ Before(b, i) = Len(TextOf(head))
  BY TextUpTo
<1>7. size \in Nat /\ target \in 0..Len(Text(b)) /\ target \in Nat
  BY <1>1
<1>8. CASE first > L
  <2>1. first = L + 1 /\ stays = <<>>
    BY <1>1, <1>5, <1>8
  <2>2. Before(b, first) = b.size
    BY <1>1, <2>1
  <2>3. target = b.size /\ size = Before(b, i)
    <3>1. b.size - Before(b, i) <= n
      BY <1>4, <2>2
    <3>2. Before(b, i) + n <= b.size /\ b.size \in Nat /\ Before(b, i) \in Nat
      BY <1>1
    <3>3. \A k, m \in Nat : k - m <= n /\ m + n <= k => m + n = k /\ k - n = m
      OBVIOUS
    <3> QED
      BY <3>1, <3>2, <3>3
  <2>4. tail = i - 1
    BY <2>1
  <2> HIDE DEF head, stays, tail, size, target
  <2>5. /\ head \o stays = head /\ tail = Len(head) + Len(stays)
        /\ size = Len(TextOf(head)) + Len(TextOf(stays)) /\ stays \in Seq(Chunk)
    BY <1>1, <1>6, <2>1, <2>3, <2>4, TextEmpty, ConcatEmptySeq
  <2>6. Consistent(r) /\ Text(r) = TextOf(head) \o TextOf(stays)
    BY <1>2, <1>6, <2>5, Joined
  <2>7. Drop(Text(b), target) = <<>>
    BY <1>1, <2>3, SubSeqEmpty DEF Drop
  <2>8. Cut(Text(b), Before(b, i), n) = TextOf(head) \o <<>>
    BY <1>6, <2>7 DEF Cut, target
  <2> QED
    BY <2>1, <2>6, <2>8, TextEmpty, Zenon DEF Cuts, r
<1>9. CASE ~(first > L)
  <2>1. first \in 1..L
    BY <1>1, <1>5, <1>9
  <2>2. PICK x, d, z : Around(b, first, x, d, z)
    BY <2>1, AroundIs
  <2>3. /\ x \in Seq(Char) /\ d \in Seq(Char) /\ z \in Seq(Char)
        /\ d = b.chunks[first].data /\ z = TextOf(Drop(b.chunks, first))
        /\ Len(x) \in Nat /\ Len(d) \in Nat /\ Len(z) \in Nat
        /\ Text(b) = x \o (d \o z) /\ Before(b, first) = Len(x) /\ Before(b, first + 1) = Len(x) + Len(d)
        /\ b.size = Len(x) + (Len(d) + Len(z))
    BY <2>2 DEF Around
  <2>4. left \in 0..Len(d) - 1 /\ target = Len(x) + left
    <3>1. first <= L
      BY <1>1, <1>5, <1>9
    <3>2. Len(x) - Before(b, i) <= n /\ n < (Len(x) + Len(d)) - Before(b, i)
      BY <1>4, <2>3, <3>1
    <3>3. left = n - (Len(x) - Before(b, i)) /\ target = Before(b, i) + n
      BY <2>3
    <3>4. \A k, l, m \in Nat : k - m <= n /\ n < (k + l) - m =>
            /\ n - (k - m) \in 0..l - 1 /\ m + n = k + (n - (k - m))
      OBVIOUS
    <3>5. Len(x) \in Nat /\ Len(d) \in Nat /\ Before(b, i) \in Nat
      BY <1>1, <2>3
    <3> HIDE DEF left, target
    <3> QED
      BY <3>2, <3>3, <3>4, <3>5
  <2> DEFINE c == CutFront(b.chunks[first], left)
             post == Drop(b.chunks, first)
  <2>5. c \in Chunk /\ c.data = Drop(d, left)
    <3>1. b.chunks[first] \in Chunk
      BY <1>1, <2>1, ElementOfSeq
    <3> HIDE DEF left
    <3> QED
      BY <2>3, <2>4, <3>1, CutFrontIs
  <2>6. post \in Seq(Chunk) /\ Len(post) = L - first
    <3>1. first \in 0..L
      BY <1>1, <2>1
    <3> QED
      BY <1>1, <3>1, TakeDrop
  <2>7. stays = <<c>> \o post
    BY <1>9
  <2> HIDE DEF c, post
  <2>8. /\ stays \in Seq(Chunk) /\ Len(stays) = 1 + (L - first) /\ TextOf(stays) = Drop(d, left) \o z
        /\ stays # <<>>
    <3> DEFINE u == <<c>>
    <3>1. u \in Seq(Chunk) /\ Len(u) = 1 /\ TextOf(u) = Drop(d, left)
      BY <2>5, TextOne
    <3> HIDE DEF u
    <3>2. /\ u \o post \in Seq(Chunk) /\ Len(u \o post) = Len(u) + Len(post)
          /\ TextOf(u \o post) = TextOf(u) \o TextOf(post)
      BY <2>6, <3>1, TextConcat, ConcatProperties
    <3>3. TextOf(post) = z
      BY <2>3 DEF post
    <3>4. stays = u \o post
      BY <2>7 DEF u
    <3> HIDE DEF stays, left
    <3>5. stays \in Seq(Chunk) /\ Len(stays) = 1 + (L - first) /\ TextOf(stays) = Drop(d, left) \o z
      BY <2>6, <3>1, <3>2, <3>3, <3>4
    <3>6. Len(stays) # 0
      BY <1>1, <2>1, <3>5
    <3> QED
      BY <3>5, <3>6, EmptySeq
  <2>9. tail = b.tail - (first - i)
    BY <2>8
  <2>10. /\ Drop(d, left) \in Seq(Char) /\ Len(Drop(d, left)) = Len(d) - left /\ left \in Nat
         /\ left \in 0..Len(d)
    <3>1. left \in 0..Len(d) /\ left \in Nat
      BY <2>3, <2>4
    <3> QED
      BY <2>3, <3>1, TakeDrop
  <2> HIDE DEF stays, head, tail, left, target, size
  <2>11. tail = Len(head) + Len(stays)
    <3>1. L - (first - i) = (i - 1) + (1 + (L - first))
      BY <1>1, <1>5
    <3> QED
      BY <1>1, <1>6, <2>8, <2>9, <3>1
  <2>12. size = Len(TextOf(head)) + Len(TextOf(stays))
    <3> DEFINE v == Drop(d, left)
    <3>1. v \in Seq(Char) /\ Len(v) = Len(d) - left
      BY <2>10
    <3>2. TextOf(stays) = v \o z
      BY <2>8
    <3> HIDE DEF v
    <3>3. Len(v \o z) = Len(v) + Len(z)
      <4>1. z \in Seq(Char)
        BY <2>3
      <4> QED
        BY <3>1, <4>1, ConcatProperties
    <3>4. Len(TextOf(stays)) = (Len(d) - left) + Len(z)
      BY <3>1, <3>2, <3>3
    <3>5. size = (Len(x) + (Len(d) + Len(z))) - n /\ Before(b, i) + n = Len(x) + left
      BY <2>3, <2>4 DEF size, target
    <3>6. size = Before(b, i) + ((Len(d) - left) + Len(z))
      <4>1. \A k, l, m, o, p \in Nat : p + n = k + o => (k + (l + m)) - n = p + ((l - o) + m)
        OBVIOUS
      <4>2. Len(x) \in Nat /\ Len(d) \in Nat /\ Len(z) \in Nat /\ left \in Nat /\ Before(b, i) \in Nat
        BY <1>1, <2>3, <2>10
      <4> QED
        BY <3>5, <4>1, <4>2
    <3> QED
      BY <1>6, <3>4, <3>6
  <2>13. Consistent(r) /\ Text(r) = TextOf(head) \o TextOf(stays)
    BY <1>2, <1>6, <2>8, <2>11, <2>12, Joined
  <2>14. Drop(Text(b), target) = Drop(d, left) \o z
    <3>1. SplitsIn(x, d, z, left)
      BY <2>3, <2>10, SplitIn
    <3> QED
      BY <2>3, <2>4, <3>1, Zenon DEF SplitsIn
  <2>15. Cut(Text(b), Before(b, i), n) = TextOf(head) \o (Drop(d, left) \o z)
    BY <1>6, <2>14, Zenon DEF Cut, target
  <2> QED
    BY <2>8, <2>13, <2>15, Zenon DEF Cuts, r
<1> QED
  BY <1>8, <1>9

\* Dropping twice.
LEMMA DropTwice ==
  ASSUME NEW S, NEW s \in Seq(S), NEW p \in Nat, NEW q \in Nat, p + q <= Len(s)
  PROVE  Drop(Drop(s, p), q) = Drop(s, p + q)
<1> DEFINE t == Drop(s, p)
           u == Drop(t, q)
           v == Drop(s, p + q)
<1>1. Len(s) \in Nat /\ p \in 0..Len(s) /\ p + q \in 0..Len(s)
  BY LenProperties
<1>2. t \in Seq(S) /\ Len(t) = Len(s) - p /\ \A i \in 1..Len(s) - p : t[i] = s[p + i]
  BY <1>1, TakeDrop
<1>3. v \in Seq(S) /\ Len(v) = Len(s) - (p + q) /\ \A i \in 1..Len(s) - (p + q) : v[i] = s[(p + q) + i]
  BY <1>1, TakeDrop
<1> HIDE DEF t, v
<1>4. u \in Seq(S) /\ Len(u) = Len(t) - q /\ \A i \in 1..Len(t) - q : u[i] = t[q + i]
  <2>1. q \in 0..Len(t)
    BY <1>1, <1>2
  <2> QED
    BY <1>2, <2>1, TakeDrop
<1> HIDE DEF u
<1>5. Len(u) = Len(v)
  BY <1>1, <1>2, <1>3, <1>4
<1>6. \A i \in 1..Len(u) : u[i] = v[i]
  <2> TAKE i \in 1..Len(u)
  <2>1. /\ i \in 1..Len(t) - q /\ i \in 1..Len(s) - (p + q) /\ q + i \in 1..Len(s) - p
        /\ p + (q + i) = (p + q) + i
    BY <1>1, <1>2, <1>4
  <2>2. u[i] = t[q + i] /\ v[i] = s[(p + q) + i] /\ t[q + i] = s[p + (q + i)]
    BY <1>2, <1>3, <1>4, <2>1
  <2> QED
    BY <2>1, <2>2
<1>7. u = v
  BY <1>3, <1>4, <1>5, <1>6, SeqEqual
<1> QED
  BY <1>7 DEF u, v, t

CutsTwice(s, p, m, n) == Cut(Cut(s, p, m), p, n) = Cut(s, p, m + n)

\* Cutting twice at one place.
LEMMA CutTwice ==
  ASSUME NEW S, NEW s \in Seq(S), NEW p \in Nat, NEW m \in Nat, NEW n \in Nat, p + (m + n) <= Len(s)
  PROVE  CutsTwice(s, p, m, n)
<1> DEFINE x == Take(s, p)
           y == Drop(s, p + m)
<1>1. Len(s) \in Nat /\ p \in 0..Len(s) /\ p + m \in Nat /\ p + m \in 0..Len(s)
  BY LenProperties
<1>2. x \in Seq(S) /\ Len(x) = p /\ y \in Seq(S) /\ Len(y) = Len(s) - (p + m)
  BY <1>1, TakeDrop
<1>3. Cut(s, p, m) = x \o y
  BY DEF Cut
<1>4. Drop(y, n) = Drop(s, (p + m) + n)
  <2>1. (p + m) + n <= Len(s)
    BY <1>1
  <2> QED
    BY <1>1, <2>1, DropTwice
<1> HIDE DEF x, y
<1>5. n \in 0..Len(y) /\ (p + m) + n = p + (m + n)
  BY <1>1, <1>2
<1>6. Take(x \o y, Len(x)) = x
  BY <1>2, SplitAt
<1>7. Drop(x \o y, Len(x) + n) = Drop(y, n)
  <2>1. SplitsIn(x, y, <<>>, n)
    <3>1. <<>> \in Seq(S)
      BY EmptySeq
    <3> QED
      BY <1>2, <1>5, <3>1, SplitIn
  <2>2. y \o <<>> = y /\ Drop(y, n) \o <<>> = Drop(y, n)
    <3>1. Drop(y, n) \in Seq(S)
      BY <1>2, <1>5, TakeDrop
    <3> QED
      BY <1>2, <3>1, ConcatEmptySeq
  <2> QED
    BY <2>1, <2>2 DEF SplitsIn
<1>8. Cut(x \o y, p, n) = x \o Drop(s, p + (m + n))
  BY <1>2, <1>4, <1>5, <1>6, <1>7 DEF Cut
<1>9. Cut(s, p, m + n) = x \o Drop(s, p + (m + n))
  BY DEF Cut, x
<1> QED
  BY <1>3, <1>8, <1>9 DEF CutsTwice

\* Bytes cut out of a chunk that keeps its front.
CutsOut(r, b, i, at, n) ==
  /\ Cuts(r, b, Before(b, i) + at, n)
  /\ Len(r.chunks) = Len(b.chunks) /\ r.size = b.size - n
  /\ Before(r, i + 1) = Before(b, i + 1) - n

\* Bytes cut out of a chunk are cut out of the text.
LEMMA CutOutOf ==
  ASSUME NEW b, Consistent(b), NEW i \in 1..Len(b.chunks), NEW at \in Nat, at # 0, NEW n \in Nat,
         at + n <= Len(b.chunks[i].data)
  PROVE  CutsOut([b EXCEPT !.chunks[i] = CutOut(@, at, n), !.size = @ - n], b, i, at, n)
<1> DEFINE c == b.chunks[i]
           g == CutOut(c, at, n)
           s == b.size - n
           r == [b EXCEPT !.chunks[i] = CutOut(@, at, n), !.size = @ - n]
<1>1. c \in Chunk /\ b.chunks \in Seq(Chunk)
  BY BufferText, ElementOfSeq
<1>2. PICK x, d, z : Around(b, i, x, d, z)
  BY AroundIs
<1>3. /\ x \in Seq(Char) /\ d \in Seq(Char) /\ z \in Seq(Char) /\ d = c.data
      /\ Len(x) \in Nat /\ Len(d) \in Nat /\ Len(z) \in Nat
      /\ Text(b) = x \o (d \o z) /\ Before(b, i) = Len(x) /\ Before(b, i + 1) = Len(x) + Len(d)
      /\ b.size = Len(x) + (Len(d) + Len(z))
  BY <1>2 DEF Around
<1> DEFINE u == Take(d, at)
           v == Drop(d, at + n)
<1>4. g \in Chunk /\ g.data = u \o v /\ Len(g.data) = Len(d) - n
  <2>1. at + n <= Len(c.data)
    OBVIOUS
  <2> HIDE DEF c
  <2> QED
    BY <1>1, <1>3, <2>1, CutOutIs
<1>5. r = [b EXCEPT !.chunks[i] = g, !.size = s]
  OBVIOUS
<1>6. at + n <= Len(d) /\ at \in 0..Len(d) /\ at + n \in 0..Len(d)
  <2>1. at + n <= Len(d)
    BY <1>3
  <2> HIDE DEF c
  <2> QED
    BY <1>3, <2>1
<1> HIDE DEF g, c, r, s
<1>7. s = Len(x) + (Len(g.data) + Len(z))
  <2>1. \A k, l, m \in Nat : (k + (l + m)) - n = k + ((l - n) + m)
    OBVIOUS
  <2>2. s = (Len(x) + (Len(d) + Len(z))) - n
    BY <1>3 DEF s
  <2>3. s = Len(x) + ((Len(d) - n) + Len(z))
    BY <1>3, <2>1, <2>2
  <2> QED
    BY <1>4, <2>3
<1>8. ChunkSet(r, b, i, g, s, x, z)
  BY <1>2, <1>4, <1>5, <1>7, WithChunk
<1>9. /\ Consistent(r) /\ Text(r) = x \o ((u \o v) \o z) /\ r.size = s
      /\ r.chunks = [b.chunks EXCEPT ![i] = g] /\ Before(r, i + 1) = Len(x) + Len(g.data)
  BY <1>4, <1>8 DEF ChunkSet, Around
<1>10. Len(r.chunks) = Len(b.chunks)
  <2>1. IsReplaced(r.chunks, b.chunks, i, g)
    BY <1>1, <1>4, <1>9, Replaced
  <2> QED
    BY <2>1 DEF IsReplaced
<1>11. Before(r, i + 1) = Before(b, i + 1) - n
  <2>1. \A k, l \in Nat : k + (l - n) = (k + l) - n
    OBVIOUS
  <2> QED
    BY <1>3, <1>4, <1>9, <2>1
<1>12. u \in Seq(Char) /\ v \in Seq(Char)
  BY <1>3, <1>6, TakeDrop
<1>13. Take(Text(b), Len(x) + at) = x \o u
  <2>1. SplitsIn(x, d, z, at)
    BY <1>3, <1>6, SplitIn
  <2> QED
    BY <1>3, <2>1 DEF SplitsIn
<1>14. Drop(Text(b), Len(x) + (at + n)) = v \o z
  <2>1. SplitsIn(x, d, z, at + n)
    BY <1>3, <1>6, SplitIn
  <2> QED
    BY <1>3, <2>1 DEF SplitsIn
<1> HIDE DEF u, v
<1>15. (x \o u) \o (v \o z) = x \o ((u \o v) \o z)
  <2>1. Grouped(x, u, v, z) /\ Grouped(u, v, z, z)
    BY <1>3, <1>12, Regroup
  <2> QED
    BY <2>1 DEF Grouped
<1>16. (Len(x) + at) + n = Len(x) + (at + n)
  BY <1>3
<1>17. Cut(Text(b), Len(x) + at, n) = (x \o u) \o (v \o z)
  BY <1>13, <1>14, <1>16, Zenon DEF Cut
<1>18. Cuts(r, b, Before(b, i) + at, n)
  BY <1>3, <1>9, <1>15, <1>17, Zenon DEF Cuts
<1> QED
  BY <1>9, <1>10, <1>11, <1>18 DEF CutsOut, r, s

\* Shrink(skip, len) removes exactly those bytes.
LEMMA ShrinkIs ==
  ASSUME NEW b, Consistent(b), NEW skip \in Nat, skip < b.size, NEW n \in Nat, skip + n <= b.size
  PROVE  Cuts(Shrink(b, skip, n), b, skip, n)
<1> DEFINE i == ChunkAt(b, skip)
           at == skip - Before(b, i)
           c == b.chunks[i]
           remain == Len(c.data) - at
           cut(m) == [b EXCEPT !.chunks[i] = CutOut(@, at, m), !.size = @ - m]
<1>1. Shrink(b, skip, n) = IF at = 0 THEN ShrinkFrom(b, i, n)
                           ELSE IF n < remain THEN cut(n)
                           ELSE ShrinkFrom(cut(remain), i + 1, n - remain)
  BY DEF Shrink
<1>2. i \in 1..Len(b.chunks) /\ Before(b, i) <= skip /\ skip < Before(b, i + 1)
  BY ChunkAtIs
<1> HIDE DEF i
<1>3. /\ Before(b, i + 1) = Before(b, i) + Len(c.data) /\ Before(b, i) \in Nat /\ Len(c.data) \in Nat
      /\ i \in 1..Len(b.chunks) + 1 /\ i \in Nat /\ b.size \in Nat /\ Len(b.chunks) \in Nat
      /\ i + 1 \in 1..Len(b.chunks) + 1
  <2>1. i \in 1..Len(b.chunks) + 1 /\ Len(b.chunks) \in Nat /\ i \in Nat /\ i + 1 \in 1..Len(b.chunks) + 1
    BY <1>2, BufferText
  <2> QED
    BY <1>2, <2>1, Places
<1>4. at \in Nat /\ Before(b, i) + at = skip /\ remain \in Nat /\ at + remain = Len(c.data)
  <2>1. \A k, l \in Nat : k <= skip /\ skip < k + l =>
          /\ skip - k \in Nat /\ k + (skip - k) = skip
          /\ l - (skip - k) \in Nat /\ (skip - k) + (l - (skip - k)) = l
    OBVIOUS
  <2> DEFINE p == Before(b, i)
             l == Len(c.data)
  <2>2. p \in Nat /\ l \in Nat /\ p <= skip /\ skip < p + l
    BY <1>2, <1>3
  <2>3. at = skip - p /\ remain = l - (skip - p)
    OBVIOUS
  <2> HIDE DEF p, l, at, remain
  <2>4. at \in Nat /\ p + at = skip /\ remain \in Nat /\ at + remain = l
    BY <2>1, <2>2, <2>3
  <2> QED
    BY <2>4 DEF p, l
<1>5. CASE at = 0
  <2>1. Before(b, i) = skip
    BY <1>3, <1>4, <1>5
  <2>2. Cuts(ShrinkFrom(b, i, n), b, Before(b, i), n)
    BY <1>3, <2>1, ShrinkFromIs
  <2> QED
    BY <1>1, <1>5, <2>1, <2>2
<1>6. CASE at # 0 /\ n < remain
  <2>1. at + n <= Len(b.chunks[i].data)
    BY <1>3, <1>4, <1>6
  <2> HIDE DEF at, remain
  <2>2. CutsOut(cut(n), b, i, at, n)
    BY <1>2, <1>4, <1>6, <2>1, CutOutOf
  <2>3. Shrink(b, skip, n) = cut(n)
    BY <1>1, <1>6
  <2> HIDE DEF cut
  <2> QED
    BY <1>4, <2>2, <2>3 DEF CutsOut
<1>7. CASE at # 0 /\ ~(n < remain)
  <2> DEFINE a == cut(remain)
             m == n - remain
             r == ShrinkFrom(a, i + 1, m)
  <2>1. m \in Nat /\ remain + m = n
    BY <1>4, <1>7
  <2>2. Shrink(b, skip, n) = r
    BY <1>1, <1>7
  <2>3. CutsOut(a, b, i, at, remain)
    <3>1. at + remain <= Len(b.chunks[i].data)
      BY <1>3, <1>4
    <3> HIDE DEF at, remain
    <3> QED
      BY <1>2, <1>4, <1>7, <3>1, CutOutOf
  <2> HIDE DEF at, a, m, cut, remain
  <2>4. /\ Consistent(a) /\ Text(a) = Cut(Text(b), skip, remain)
        /\ Len(a.chunks) = Len(b.chunks) /\ a.size = b.size - remain
        /\ Before(a, i + 1) = Before(b, i + 1) - remain
    BY <1>4, <2>3 DEF CutsOut, Cuts
  <2>5. Before(a, i + 1) = skip
    BY <1>3, <1>4, <2>4
  <2>6. Before(a, i + 1) + m <= a.size
    BY <1>3, <1>4, <2>1, <2>4, <2>5
  <2>7. Cuts(r, a, Before(a, i + 1), m)
    BY <1>3, <2>1, <2>4, <2>6, ShrinkFromIs
  <2> HIDE DEF r
  <2>8. Consistent(r) /\ Text(r) = Cut(Cut(Text(b), skip, remain), skip, m)
    BY <2>4, <2>5, <2>7 DEF Cuts
  <2>9. Cut(Cut(Text(b), skip, remain), skip, m) = Cut(Text(b), skip, n)
    <3> DEFINE t == Text(b)
    <3>1. t \in Seq(Char) /\ skip + (remain + m) <= Len(t)
      BY <2>1, BufferText
    <3> HIDE DEF t
    <3>2. CutsTwice(t, skip, remain, m)
      BY <1>4, <2>1, <3>1, CutTwice
    <3> QED
      BY <2>1, <3>2 DEF CutsTwice, t
  <2> QED
    BY <2>2, <2>8, <2>9 DEF Cuts
<1> QED
  BY <1>5, <1>6, <1>7

\* Where a chunk that is broken is.
LEMMA UpToAt ==
  ASSUME NEW b, Consistent(b), NEW skip \in Nat, skip # 0, skip <= b.size
  PROVE  \E i \in 1..Len(b.chunks), at \in Nat :
           /\ i = ChunkUpTo(b, skip) /\ at = skip - Before(b, i)
           /\ at \in 1..Len(b.chunks[i].data) /\ Before(b, i) + at = skip
<1> DEFINE i == ChunkUpTo(b, skip)
           p == Before(b, i)
           l == Len(b.chunks[i].data)
<1>1. i \in 1..Len(b.chunks) /\ p < skip /\ skip <= Before(b, i + 1)
  BY ChunkUpToIs
<1> HIDE DEF i
<1>2. Before(b, i + 1) = p + l /\ l \in Nat /\ p \in Nat
  <2>1. i \in 1..Len(b.chunks) + 1
    BY <1>1, BufferText
  <2> QED
    BY <1>1, <2>1, Places
<1> HIDE DEF p, l
<1>3. skip - p \in Nat /\ skip - p \in 1..l /\ p + (skip - p) = skip
  BY <1>1, <1>2
<1> QED
  BY <1>1, <1>3 DEF i, p, l

\* What Break leaves is the text up to the place.
LEMMA BreakHeadIs ==
  ASSUME NEW b, Consistent(b), NEW skip \in Nat, skip # 0, skip <= b.size
  PROVE  Consistent(BreakHead(b, skip)) /\ Text(BreakHead(b, skip)) = Take(Text(b), skip)
<1>1. PICK i \in 1..Len(b.chunks), at \in Nat :
        /\ i = ChunkUpTo(b, skip) /\ at = skip - Before(b, i)
        /\ at \in 1..Len(b.chunks[i].data) /\ Before(b, i) + at = skip
  BY UpToAt
<1> DEFINE pre == Take(b.chunks, i - 1)
           c == b.chunks[i]
           k == KeptTo(c, at)
           u == <<k>>
           r == BreakHead(b, skip)
<1>2. r = [chunks |-> pre \o u, tail |-> i, size |-> skip]
  BY <1>1 DEF BreakHead
<1> HIDE DEF r
<1>3. PICK x, d, z : Around(b, i, x, d, z)
  BY AroundIs
<1>4. /\ x \in Seq(Char) /\ d \in Seq(Char) /\ z \in Seq(Char) /\ d = c.data
      /\ Len(x) \in Nat /\ Len(d) \in Nat
      /\ x = TextOf(pre) /\ Text(b) = x \o (d \o z) /\ Before(b, i) = Len(x)
  BY <1>3 DEF Around
<1>5. c \in Chunk /\ pre \in Seq(Chunk) /\ Len(pre) = i - 1 /\ i \in Nat
  <2>1. b.chunks \in Seq(Chunk) /\ i - 1 \in 0..Len(b.chunks) /\ i \in Nat
    BY BufferText
  <2> QED
    BY <2>1, TakeDrop, ElementOfSeq
<1>6. k \in Chunk /\ k.data = Take(d, at)
  <2>1. at \in 1..Len(c.data)
    BY <1>1
  <2> HIDE DEF c
  <2> QED
    BY <1>4, <1>5, <2>1, KeptIs
<1>7. at \in 0..Len(d) /\ Len(x) + at = skip
  <2>1. Len(d) = Len(b.chunks[i].data)
    BY <1>4
  <2>2. at \in 1..Len(d)
    BY <1>1, <2>1
  <2>3. Len(x) + at = skip
    BY <1>1, <1>4
  <2> QED
    BY <2>2, <2>3
<1>8. Take(d, at) \in Seq(Char) /\ Len(Take(d, at)) = at
  BY <1>4, <1>7, TakeDrop
<1> HIDE DEF k, c, pre
<1>9. u \in Seq(Chunk) /\ Len(u) = 1 /\ TextOf(u) = Take(d, at)
  BY <1>6, TextOne
<1> HIDE DEF u
<1>10. i = Len(pre) + Len(u) /\ skip = Len(TextOf(pre)) + Len(TextOf(u))
  BY <1>4, <1>5, <1>7, <1>8, <1>9
<1>11. Consistent(r) /\ Text(r) = TextOf(pre) \o TextOf(u)
  BY <1>2, <1>5, <1>9, <1>10, Joined
<1>12. Take(Text(b), Len(x) + at) = x \o Take(d, at)
  <2>1. SplitsIn(x, d, z, at)
    BY <1>4, <1>7, SplitIn
  <2> QED
    BY <1>4, <2>1 DEF SplitsIn
<1>13. Text(r) = Take(Text(b), skip)
  BY <1>4, <1>7, <1>9, <1>11, <1>12, Zenon
<1> QED
  BY <1>11, <1>13 DEF r

\* What Break returns is the rest of the text.
LEMMA BreakTailIs ==
  ASSUME NEW b, Consistent(b), NEW skip \in Nat, skip # 0, skip <= b.size
  PROVE  Consistent(BreakTail(b, skip)) /\ Text(BreakTail(b, skip)) = Drop(Text(b), skip)
<1>1. PICK i \in 1..Len(b.chunks), at \in Nat :
        /\ i = ChunkUpTo(b, skip) /\ at = skip - Before(b, i)
        /\ at \in 1..Len(b.chunks[i].data) /\ Before(b, i) + at = skip
  BY UpToAt
<1> DEFINE c == b.chunks[i]
           rest == Drop(c.data, at)
           u == RestOf(rest)
           post == Drop(b.chunks, i)
           size == b.size - skip
           r == BreakTail(b, skip)
<1>2. r = [chunks |-> u \o post, tail |-> Len(u \o post), size |-> size]
  BY <1>1 DEF BreakTail, RestOf
<1> HIDE DEF r
<1>3. PICK x, d, z : Around(b, i, x, d, z)
  BY AroundIs
<1>4. /\ x \in Seq(Char) /\ d \in Seq(Char) /\ z \in Seq(Char) /\ d = c.data
      /\ Len(x) \in Nat /\ Len(d) \in Nat /\ Len(z) \in Nat
      /\ z = TextOf(post) /\ Text(b) = x \o (d \o z) /\ Before(b, i) = Len(x)
      /\ b.size = Len(x) + (Len(d) + Len(z))
  BY <1>3 DEF Around
<1>5. post \in Seq(Chunk)
  <2>1. b.chunks \in Seq(Chunk) /\ i \in 0..Len(b.chunks)
    BY BufferText
  <2> QED
    BY <2>1, TakeDrop
<1>6. at \in 0..Len(d) /\ Len(x) + at = skip
  <2>1. Len(d) = Len(b.chunks[i].data)
    BY <1>4
  <2>2. at \in 1..Len(d)
    BY <1>1, <2>1
  <2>3. Len(x) + at = skip
    BY <1>1, <1>4
  <2> QED
    BY <2>2, <2>3
<1>7. rest \in Seq(Char) /\ Len(rest) = Len(d) - at /\ rest = Drop(d, at)
  <2>1. rest = Drop(d, at)
    BY <1>4
  <2> HIDE DEF rest
  <2> QED
    BY <1>4, <1>6, <2>1, TakeDrop
<1>8. u \in Seq(Chunk) /\ TextOf(u) = rest
  <2> HIDE DEF rest
  <2> QED
    BY <1>7, RestIs
<1> HIDE DEF rest, u, post, c
<1>9. u \o post \in Seq(Chunk) /\ Len(u \o post) = Len(u) + Len(post)
  BY <1>5, <1>8, ConcatProperties
<1>10. size = Len(TextOf(u)) + Len(TextOf(post))
  <2>1. \A k, l, m \in Nat : (k + (l + m)) - (k + at) = (l - at) + m
    OBVIOUS
  <2>2. size = (Len(x) + (Len(d) + Len(z))) - (Len(x) + at)
    BY <1>4, <1>6
  <2>3. size = (Len(d) - at) + Len(z)
    BY <1>4, <2>1, <2>2
  <2> QED
    BY <1>4, <1>7, <1>8, <2>3
<1> HIDE DEF size
<1>11. Consistent(r) /\ Text(r) = TextOf(u) \o TextOf(post)
  BY <1>2, <1>5, <1>8, <1>9, <1>10, Joined
<1>12. Drop(Text(b), Len(x) + at) = Drop(d, at) \o z
  <2>1. SplitsIn(x, d, z, at)
    BY <1>4, <1>6, SplitIn
  <2> QED
    BY <1>4, <2>1 DEF SplitsIn
<1>13. Text(r) = Drop(Text(b), skip)
  BY <1>4, <1>6, <1>7, <1>8, <1>11, <1>12, Zenon
<1> QED
  BY <1>11, <1>13 DEF r

-----------------------------------------------------------------------------
(* What is written. *)

\* The bytes of a chunk, in the text.
LEMMA CharAt ==
  ASSUME NEW b, Consistent(b), NEW i \in 1..Len(b.chunks), NEW j \in 1..Len(b.chunks[i].data)
  PROVE  Text(b)[Before(b, i) + j] = b.chunks[i].data[j] /\ Before(b, i) + j \in 1..b.size
<1>1. PICK x, d, z : Around(b, i, x, d, z)
  BY AroundIs
<1>2. /\ x \in Seq(Char) /\ d \in Seq(Char) /\ z \in Seq(Char) /\ d = b.chunks[i].data
      /\ Len(x) \in Nat /\ Len(d) \in Nat /\ Len(z) \in Nat
      /\ Text(b) = x \o (d \o z) /\ Before(b, i) = Len(x)
      /\ b.size = Len(x) + (Len(d) + Len(z))
  BY <1>1 DEF Around
<1>3. j \in 1..Len(d)
  BY <1>2
<1> DEFINE y == d \o z
<1>4. y \in Seq(Char) /\ Len(y) = Len(d) + Len(z) /\ y[j] = d[j]
  <2>1. j \in 1..Len(d) + Len(z) /\ j <= Len(d)
    BY <1>2, <1>3
  <2> QED
    BY <1>2, <2>1, ConcatProperties
<1> HIDE DEF y
<1>5. (x \o y)[Len(x) + j] = y[j]
  <2>1. Len(x) + j \in 1..Len(x) + Len(y) /\ ~(Len(x) + j <= Len(x)) /\ (Len(x) + j) - Len(x) = j
    BY <1>2, <1>3, <1>4
  <2> QED
    BY <1>2, <1>4, <2>1, ConcatProperties
<1>6. Len(x) + j \in 1..Len(x) + (Len(d) + Len(z))
  BY <1>2, <1>3
<1> QED
  BY <1>2, <1>4, <1>5, <1>6 DEF y

\* The text r is s, with data over it from skip on.
Overlays(r, s, skip, data) ==
  /\ r \in Seq(Char) /\ Len(r) = Len(s)
  /\ \A p \in 1..Len(s) : r[p] = IF p - skip \in DOMAIN data THEN data[p - skip] ELSE s[p]

\* Overlaid keeps the length, and writes data from skip on.
LEMMA Overlay ==
  ASSUME NEW s \in Seq(Char), NEW skip \in Nat, NEW data \in Seq(Char)
  PROVE  Overlays(Overlaid(s, skip, data), s, skip, data)
<1> DEFINE v(p) == IF p - skip \in DOMAIN data THEN data[p - skip] ELSE s[p]
           r == [p \in 1..Len(s) |-> v(p)]
<1>1. Len(s) \in Nat /\ DOMAIN s = 1..Len(s) /\ DOMAIN data = 1..Len(data)
  BY LenProperties
<1>2. Overlaid(s, skip, data) = r
  BY <1>1 DEF Overlaid
<1>3. \A p \in 1..Len(s) : v(p) \in Char
  <2> TAKE p \in 1..Len(s)
  <2>1. s[p] \in Char
    BY ElementOfSeq
  <2>2. p - skip \in DOMAIN data => data[p - skip] \in Char
    BY <1>1, ElementOfSeq
  <2> QED
    BY <2>1, <2>2
<1>4. r \in Seq(Char) /\ Len(r) = Len(s)
  <2> HIDE DEF v
  <2> QED
    BY <1>1, <1>3
<1>5. \A p \in 1..Len(s) : r[p] = IF p - skip \in DOMAIN data THEN data[p - skip] ELSE s[p]
  OBVIOUS
<1> QED
  BY <1>2, <1>4, <1>5 DEF Overlays

\* The chunks keep their places.
LEMMA SamePlaces ==
  ASSUME NEW b, Consistent(b), NEW r, Consistent(r), Len(r.chunks) = Len(b.chunks),
         \A i \in 1..Len(b.chunks) : Len(r.chunks[i].data) = Len(b.chunks[i].data)
  PROVE  \A i \in 1..Len(b.chunks) + 1 : Before(r, i) = Before(b, i)
<1> DEFINE L == Len(b.chunks)
           N == {k \in Nat : k <= L => Before(r, k + 1) = Before(b, k + 1)}
<1>1. L \in Nat /\ Before(b, 1) = 0 /\ Before(r, 1) = 0
  BY BufferText, Places
<1>2. 0 \in N
  BY <1>1
<1>3. ASSUME NEW k \in Nat, k \in N PROVE k + 1 \in N
  <2>1. ASSUME k + 1 <= L PROVE Before(r, (k + 1) + 1) = Before(b, (k + 1) + 1)
    <3>1. k + 1 \in 1..L /\ k <= L
      BY <1>1, <2>1
    <3>2. Before(r, k + 1) = Before(b, k + 1)
      BY <1>3, <3>1
    <3>3. Before(b, (k + 1) + 1) = Before(b, k + 1) + Len(b.chunks[k + 1].data)
      BY <3>1, Places
    <3>4. Before(r, (k + 1) + 1) = Before(r, k + 1) + Len(r.chunks[k + 1].data)
      BY <3>1, Places
    <3> QED
      BY <3>1, <3>2, <3>3, <3>4
  <2> QED
    BY <2>1
<1>4. Nat \subseteq N
  <2> HIDE DEF N
  <2> QED
    BY <1>2, <1>3, Induct
<1>5. ASSUME NEW i \in 1..L + 1 PROVE Before(r, i) = Before(b, i)
  <2>1. i - 1 \in Nat /\ i - 1 <= L /\ (i - 1) + 1 = i
    BY <1>1
  <2>2. i - 1 \in N
    BY <1>4, <2>1
  <2> QED
    BY <2>1, <2>2
<1> QED
  BY <1>5

\* SetData writes data over the text, chunk by chunk.
LEMMA SetDataIs ==
  ASSUME NEW b, Consistent(b), NEW skip \in Nat, NEW data \in Seq(Char)
  PROVE  /\ Consistent(SetData(b, skip, data))
         /\ Text(SetData(b, skip, data)) = Overlaid(Text(b), skip, data)
<1> DEFINE L == Len(b.chunks)
           v(i, j) == LET at == Before(b, i) + j - skip
                      IN  IF at \in DOMAIN data THEN data[at] ELSE b.chunks[i].data[j]
           e(i) == [j \in DOMAIN b.chunks[i].data |-> v(i, j)]
           c(i) == [b.chunks[i] EXCEPT !.data = e(i)]
           cs == [i \in 1..L |-> c(i)]
           r == SetData(b, skip, data)
           q == [chunks |-> cs, tail |-> b.tail, size |-> Len(TextOf(cs))]
<1>1. /\ b.chunks \in Seq(Chunk) /\ L \in Nat /\ b.tail = L /\ DOMAIN b.chunks = 1..L
      /\ b \in Buffers /\ b.size \in Nat /\ Text(b) \in Seq(Char) /\ b.size = Len(Text(b))
      /\ Before(b, L + 1) = b.size
  BY BufferText, LenProperties, Places DEF Consistent
<1>2. r = [b EXCEPT !.chunks = cs]
  BY <1>1 DEF SetData
<1>3. ASSUME NEW i \in 1..L
      PROVE  /\ c(i) \in Chunk /\ c(i).data = e(i) /\ Len(e(i)) = Len(b.chunks[i].data)
             /\ \A j \in 1..Len(b.chunks[i].data) : e(i)[j] = v(i, j)
  <2> DEFINE d == b.chunks[i].data
  <2>1. b.chunks[i] \in Chunk
    BY <1>1, ElementOfSeq
  <2>2. d \in Seq(Char) /\ d # <<>>
    BY <2>1 DEF Chunk
  <2>3. Len(d) \in Nat /\ Len(d) # 0 /\ DOMAIN d = 1..Len(d)
    BY <2>2, LenProperties, EmptySeq
  <2>4. \A j \in 1..Len(d) : v(i, j) \in Char
    <3> TAKE j \in 1..Len(d)
    <3>1. d[j] \in Char
      BY <2>2, ElementOfSeq
    <3>2. \A at : at \in DOMAIN data => data[at] \in Char
      BY LenProperties, ElementOfSeq
    <3> QED
      BY <3>1, <3>2
  <2>5. e(i) = [j \in 1..Len(d) |-> v(i, j)]
    BY <2>3
  <2> HIDE DEF v, d
  <2>6. [j \in 1..Len(d) |-> v(i, j)] \in Seq(Char) /\ Len([j \in 1..Len(d) |-> v(i, j)]) = Len(d)
    BY <2>3, <2>4
  <2>7. \A j \in 1..Len(d) : [k \in 1..Len(d) |-> v(i, k)][j] = v(i, j)
    OBVIOUS
  <2> DEFINE ei == e(i)
  <2> HIDE DEF e
  <2>8. e(i) \in Seq(Char) /\ Len(e(i)) = Len(d) /\ \A j \in 1..Len(d) : e(i)[j] = v(i, j)
    BY <2>5, <2>6, <2>7
  <2>9. e(i) # <<>>
    BY <2>3, <2>8, EmptySeq
  <2>10. c(i) \in Chunk /\ c(i).data = e(i)
    <3> HIDE DEF ei
    <3>1. ei \in Seq(Char) \ {<<>>}
      BY <2>8, <2>9 DEF ei
    <3>2. [b.chunks[i] EXCEPT !.data = ei] \in Chunk /\ [b.chunks[i] EXCEPT !.data = ei].data = ei
      BY <2>1, <3>1 DEF Chunk
    <3> QED
      BY <3>2 DEF ei
  <2> QED
    BY <2>8, <2>10 DEF d
<1> HIDE DEF v, e, c
<1>4. cs \in Seq(Chunk) /\ Len(cs) = L /\ \A i \in 1..L : cs[i] = c(i)
  BY <1>1, <1>3
<1> HIDE DEF cs, r
<1>5. /\ Consistent(q) /\ Len(q.chunks) = L
      /\ \A i \in 1..L : Len(q.chunks[i].data) = Len(b.chunks[i].data)
  <2>1. Len(TextOf(cs)) \in Nat
    BY <1>4, TextType
  <2>2. q \in Buffers /\ q.chunks = cs /\ q.tail = L /\ Text(q) = TextOf(cs) /\ q.size = Len(TextOf(cs))
    BY <1>1, <1>4, <2>1 DEF Buffers, Text
  <2> HIDE DEF q
  <2> QED
    BY <1>3, <1>4, <2>2 DEF Consistent
<1>6. Before(q, L + 1) = q.size /\ Before(q, L + 1) = b.size
  <2>1. Before(q, L + 1) = Before(b, L + 1)
    <3>1. L + 1 \in 1..L + 1
      BY <1>1
    <3> HIDE DEF q
    <3> QED
      BY <1>5, <3>1, SamePlaces
  <2> HIDE DEF q
  <2> QED
    BY <1>1, <1>5, <2>1, Places
<1>7. r = q
  <2>1. PICK h, t, s : b = [chunks |-> h, tail |-> t, size |-> s]
    BY <1>1 DEF Buffers
  <2>2. r = [chunks |-> cs, tail |-> b.tail, size |-> b.size]
    BY <1>2, <2>1
  <2>3. b.size = Len(TextOf(cs))
    BY <1>6
  <2> QED
    BY <2>2, <2>3
<1> HIDE DEF q
<1>8. Consistent(r) /\ r.chunks = cs /\ r.size = b.size
  <2>1. r.chunks = cs
    BY <1>7 DEF q
  <2> QED
    BY <1>5, <1>6, <1>7, <2>1
<1>9. \A i \in 1..L + 1 : Before(r, i) = Before(b, i)
  BY <1>5, <1>7, SamePlaces
<1>10. Text(r) \in Seq(Char) /\ Len(Text(r)) = Len(Text(b))
  BY <1>1, <1>8, BufferText
<1>11. ASSUME NEW p \in 1..Len(Text(b))
       PROVE  Text(r)[p] = IF p - skip \in DOMAIN data THEN data[p - skip] ELSE Text(b)[p]
  <2>1. p \in Nat /\ p # 0 /\ p <= b.size
    BY <1>1
  <2>2. PICK i \in 1..Len(b.chunks), at \in Nat :
          at \in 1..Len(b.chunks[i].data) /\ Before(b, i) + at = p
    BY <2>1, UpToAt
  <2>3. Text(b)[p] = b.chunks[i].data[at]
    BY <2>2, CharAt
  <2>4. r.chunks[i] = c(i) /\ c(i).data = e(i) /\ Len(e(i)) = Len(b.chunks[i].data)
        /\ e(i)[at] = v(i, at) /\ i \in 1..Len(r.chunks) /\ i \in 1..L + 1
    BY <1>1, <1>3, <1>4, <1>8, <2>2
  <2>5. Text(r)[p] = v(i, at)
    <3>1. at \in 1..Len(r.chunks[i].data)
      BY <2>2, <2>4
    <3>2. Text(r)[Before(r, i) + at] = r.chunks[i].data[at]
      BY <1>8, <2>4, <3>1, CharAt
    <3> QED
      BY <1>9, <2>2, <2>4, <3>2
  <2>6. v(i, at) = IF p - skip \in DOMAIN data THEN data[p - skip] ELSE b.chunks[i].data[at]
    <3>1. v(i, at) = IF Before(b, i) + (at - skip) \in DOMAIN data
                     THEN data[Before(b, i) + (at - skip)] ELSE b.chunks[i].data[at]
      BY DEF v
    <3>2. Before(b, i) + (at - skip) = p - skip
      <4>1. Before(b, i) \in Nat
        BY <1>1, <2>4, Places
      <4>2. \A k \in Nat : k + (at - skip) = (k + at) - skip
        OBVIOUS
      <4> QED
        BY <2>2, <4>1, <4>2
    <3> QED
      BY <3>1, <3>2
  <2> QED
    BY <2>3, <2>5, <2>6
<1>12. Text(r) = Overlaid(Text(b), skip, data)
  <2> DEFINE s == Overlaid(Text(b), skip, data)
             t == Text(b)
             u == Text(r)
  <2>1. s \in Seq(Char) /\ Len(s) = Len(t) /\ \A p \in 1..Len(t) : s[p] =
              IF p - skip \in DOMAIN data THEN data[p - skip] ELSE t[p]
    <3>1. Text(b) \in Seq(Char)
      BY <1>1
    <3>2. Overlays(s, t, skip, data)
      BY <3>1, Overlay
    <3> QED
      BY <3>2 DEF Overlays
  <2>2. u \in Seq(Char) /\ Len(u) = Len(t) /\ \A p \in 1..Len(t) : u[p] =
              IF p - skip \in DOMAIN data THEN data[p - skip] ELSE t[p]
    BY <1>10, <1>11
  <2> HIDE DEF s, t, u
  <2>3. \A p \in 1..Len(u) : u[p] = s[p]
    BY <2>1, <2>2
  <2>4. u = s
    BY <2>1, <2>2, <2>3, SeqEqual
  <2> QED
    BY <2>4 DEF s, t, u
<1> QED
  BY <1>8, <1>12 DEF r

-----------------------------------------------------------------------------
(* What is read. *)

\* A part of a chunk is a part of the text.
LEMMA Part ==
  ASSUME NEW b, Consistent(b), NEW i \in 1..Len(b.chunks),
         NEW m \in Nat, m # 0, NEW n \in Nat, n <= Len(b.chunks[i].data)
  PROVE  SubSeq(Text(b), Before(b, i) + m, Before(b, i) + n) = SubSeq(b.chunks[i].data, m, n)
<1>1. PICK x, d, z : Around(b, i, x, d, z)
  BY AroundIs
<1>2. /\ x \in Seq(Char) /\ d \in Seq(Char) /\ z \in Seq(Char) /\ d = b.chunks[i].data
      /\ Len(x) \in Nat /\ Len(d) \in Nat /\ Len(z) \in Nat
      /\ Text(b) = x \o (d \o z) /\ Before(b, i) = Len(x)
  BY <1>1 DEF Around
<1>3. CASE n < m
  <2>1. Len(x) + n < Len(x) + m /\ Len(x) + n \in Int /\ Len(x) + m \in Int
    BY <1>2, <1>3
  <2>2. SubSeq(Text(b), Len(x) + m, Len(x) + n) = <<>>
    BY <2>1, SubSeqEmpty
  <2>3. SubSeq(d, m, n) = <<>>
    BY <1>3, SubSeqEmpty
  <2> QED
    BY <1>2, <2>2, <2>3
<1>4. CASE ~(n < m)
  <2> DEFINE y == d \o z
  <2>1. m \in 1..Len(d) /\ n \in 1..Len(d)
    BY <1>2, <1>4
  <2>2. y \in Seq(Char) /\ Len(y) = Len(d) + Len(z) /\ SubSeq(y, m, n) = SubSeq(d, m, n)
    BY <1>2, <2>1, ConcatProperties, SubSeqOfConcat1
  <2> HIDE DEF y
  <2>3. /\ Len(x) + m \in Len(x) + 1..Len(x) + Len(y) /\ Len(x) + n \in Len(x) + 1..Len(x) + Len(y)
        /\ (Len(x) + m) - Len(x) = m /\ (Len(x) + n) - Len(x) = n
    BY <1>2, <2>1, <2>2
  <2>4. SubSeq(x \o y, Len(x) + m, Len(x) + n) = SubSeq(y, (Len(x) + m) - Len(x), (Len(x) + n) - Len(x))
    BY <1>2, <2>2, <2>3, SubSeqOfConcat2
  <2> QED
    BY <1>2, <2>2, <2>3, <2>4 DEF y
<1> QED
  BY <1>3, <1>4

\* A walk over the chunks sees the rest of the text.
LEMMA WalkedIs ==
  ASSUME NEW b, Consistent(b), NEW from \in Nat, from <= b.size
  PROVE  FlattenSeq(Walked(b, from)) = Drop(Text(b), from)
<1>1. /\ b.chunks \in Seq(Chunk) /\ Len(b.chunks) \in Nat /\ b.size \in Nat
      /\ Text(b) \in Seq(Char) /\ b.size = Len(Text(b))
  BY BufferText
<1>2. CASE from = b.size
  <2>1. Walked(b, from) = <<>>
    BY <1>2 DEF Walked
  <2>2. Drop(Text(b), from) = <<>>
    BY <1>1, <1>2, SubSeqEmpty DEF Drop
  <2> QED
    BY <2>1, <2>2, FlattenEmpty
<1>3. CASE from # b.size
  <2> DEFINE i == ChunkAt(b, from)
             at == from - Before(b, i)
             c == b.chunks[i]
             post == Drop(b.chunks, i)
             w == [j \in 1..Len(b.chunks) - i |-> b.chunks[i + j].data]
             u == <<Drop(c.data, at)>>
  <2>1. Walked(b, from) = u \o w
    BY <1>3 DEF Walked
  <2>2. i \in 1..Len(b.chunks) /\ Before(b, i) <= from /\ from < Before(b, i + 1)
    BY <1>1, <1>3, ChunkAtIs
  <2> HIDE DEF i
  <2>3. PICK x, d, z : Around(b, i, x, d, z)
    BY <2>2, AroundIs
  <2>4. /\ x \in Seq(Char) /\ d \in Seq(Char) /\ z \in Seq(Char) /\ d = c.data
        /\ Len(x) \in Nat /\ Len(d) \in Nat /\ z = TextOf(post)
        /\ Text(b) = x \o (d \o z) /\ Before(b, i) = Len(x) /\ Before(b, i + 1) = Len(x) + Len(d)
    BY <2>3 DEF Around
  <2>5. at \in 0..Len(d) /\ Len(x) + at = from
    BY <2>2, <2>4
  <2>6. post \in Seq(Chunk) /\ w = DataOf(post)
    <3>1. i \in 0..Len(b.chunks)
      BY <1>1, <2>2
    <3>2. /\ post \in Seq(Chunk) /\ Len(post) = Len(b.chunks) - i
          /\ \A j \in 1..Len(b.chunks) - i : post[j] = b.chunks[i + j]
      BY <1>1, <3>1, TakeDrop
    <3> HIDE DEF post
    <3>3. DataOf(post) = [j \in 1..Len(b.chunks) - i |-> post[j].data]
      BY <3>2 DEF DataOf
    <3> QED
      BY <3>2, <3>3
  <2>7. FlattenSeq(w) = z /\ w \in Seq(Seq(Char))
    <3> HIDE DEF post, w
    <3> QED
      BY <2>4, <2>6, DataType DEF TextOf, DataOf
  <2>8. Drop(d, at) \in Seq(Char)
    BY <2>4, <2>5, TakeDrop
  <2>9. u \in Seq(Seq(Char)) /\ FlattenSeq(u) = Drop(d, at)
    <3> DEFINE v == Drop(d, at)
    <3>1. v \in Seq(Char) /\ u = <<v>>
      BY <2>4, <2>8
    <3> HIDE DEF v, u
    <3> QED
      BY <3>1, FlattenOne DEF v
  <2> HIDE DEF u, w, at
  <2>10. FlattenSeq(u \o w) = Drop(d, at) \o z
    BY <2>7, <2>9, FlattenConcat
  <2>11. Drop(Text(b), from) = Drop(d, at) \o z
    <3>1. SplitsIn(x, d, z, at)
      BY <2>4, <2>5, SplitIn
    <3> QED
      BY <2>4, <2>5, <3>1 DEF SplitsIn
  <2> QED
    BY <2>1, <2>10, <2>11
<1> QED
  BY <1>2, <1>3

\* operator[] reads the text while no chunk has released its front.
LEMMA IndexIs ==
  ASSUME NEW b, Consistent(b), NEW p \in 1..b.size, \A i \in DOMAIN b.chunks : b.chunks[i].front = 0
  PROVE  Index(b, p - 1) = Text(b)[p]
<1> DEFINE index == p - 1
           i == ChunkAt(b, index)
           at == index - Before(b, i)
           c == b.chunks[i]
<1>1. /\ b.chunks \in Seq(Chunk) /\ Len(b.chunks) \in Nat /\ b.size \in Nat
      /\ index \in Nat /\ index < b.size
  BY BufferText
<1>2. Index(b, index) = IF at < c.front THEN Junk ELSE c.data[at - c.front + 1]
  BY DEF Index
<1>3. i \in 1..Len(b.chunks) /\ Before(b, i) <= index /\ index < Before(b, i + 1)
  BY <1>1, ChunkAtIs
<1> HIDE DEF i
<1>4. c.front = 0
  BY <1>1, <1>3, LenProperties
<1>5. /\ Before(b, i + 1) = Before(b, i) + Len(c.data) /\ Before(b, i) \in Nat /\ Len(c.data) \in Nat
  <2>1. i \in 1..Len(b.chunks) + 1
    BY <1>1, <1>3
  <2> QED
    BY <1>3, <2>1, Places
<1>6. at \in Nat /\ at + 1 \in 1..Len(c.data) /\ Before(b, i) + (at + 1) = p
  BY <1>1, <1>3, <1>5
<1>7. Index(b, index) = c.data[at + 1]
  <2> HIDE DEF at, index, c
  <2>1. ~(at < 0) /\ at - 0 + 1 = at + 1
    BY <1>6
  <2> QED
    BY <1>2, <1>4, <2>1
<1>8. Text(b)[Before(b, i) + (at + 1)] = c.data[at + 1]
  BY <1>3, <1>6, CharAt
<1> QED
  BY <1>6, <1>7, <1>8

\* GetData copies the part of the text that is asked for.
LEMMA GetDataIs ==
  ASSUME NEW b, Consistent(b), NEW skip \in Nat, skip < b.size, NEW n \in Nat, skip + n <= b.size
  PROVE  GetData(b, skip, n) = SubSeq(Text(b), skip + 1, skip + n)
<1> DEFINE L == Len(b.chunks)
           i == ChunkAt(b, skip)
           P(j) == Before(b, j)
           d(j) == b.chunks[j].data
           at(j) == IF j = i THEN skip - Before(b, i) ELSE 0
           left(j) == IF j = i THEN n ELSE skip + n - Before(b, j)
           copied(j) == SubSeq(b.chunks[j].data, at(j) + 1, MinOf(Len(b.chunks[j].data), at(j) + left(j)))
           w(m) == [k \in 1..m |-> copied(i + k - 1)]
           T == Text(b)
           end == skip + n
           N == {m \in Nat : m # 0 /\ i + m <= L + 1 =>
                   FlattenSeq(w(m)) = SubSeq(T, skip + 1, MinOf(end, P(i + m)))}
<1>1. GetData(b, skip, n) = IF n = 0 THEN <<>> ELSE FlattenSeq(w(L - i + 1))
  BY DEF GetData
<1>2. /\ b.chunks \in Seq(Chunk) /\ L \in Nat /\ b.size \in Nat /\ T \in Seq(Char) /\ b.size = Len(T)
      /\ P(L + 1) = b.size /\ \A j \in 1..L + 1 : P(j) \in Nat
      /\ \A j \in 1..L : P(j + 1) = P(j) + Len(d(j)) /\ Len(d(j)) \in Nat \ {0} /\ P(j + 1) <= b.size
  BY BufferText, Places
<1>3. i \in 1..L /\ P(i) <= skip /\ skip < P(i + 1)
  BY ChunkAtIs
<1>4. \A j \in 1..L : d(j) \in Seq(Char)
  <2> TAKE j \in 1..L
  <2>1. b.chunks[j] \in Chunk
    BY <1>2, ElementOfSeq
  <2> QED
    BY <2>1 DEF Chunk
<1>5. ASSUME NEW j \in 1..L, NEW m \in Nat, m # 0, NEW k \in Nat, k <= Len(d(j))
      PROVE  SubSeq(T, P(j) + m, P(j) + k) = SubSeq(d(j), m, k)
  BY <1>5, Part
<1>6. \A j \in 1..L : copied(j) \in Seq(Char)
  <2> TAKE j \in 1..L
  <2> DEFINE lo == at(j) + 1
             hi == MinOf(Len(d(j)), at(j) + left(j))
  <2>1. P(i) \in Nat /\ P(j) \in Nat
    BY <1>2, <1>3
  <2>2. lo \in Int /\ hi \in Int /\ lo >= 1 /\ hi <= Len(d(j))
    <3>1. at(j) \in Nat
      BY <1>3, <2>1
    <3>2. left(j) \in Int
      BY <2>1
    <3>3. Len(d(j)) \in Nat
      BY <1>2
    <3>4. \A l, a \in Nat, f \in Int : /\ a + 1 \in Int /\ a + 1 >= 1
                                      /\ MinOf(l, a + f) \in Int /\ MinOf(l, a + f) <= l
      BY DEF MinOf
    <3> HIDE DEF at, left, d
    <3> QED
      BY <3>1, <3>2, <3>3, <3>4
  <2>3. copied(j) = SubSeq(d(j), lo, hi)
    OBVIOUS
  <2> DEFINE s == d(j)
  <2>4. s \in Seq(Char) /\ hi <= Len(s)
    BY <1>4, <2>2
  <2> HIDE DEF lo, hi, s
  <2>5. \A k \in lo..hi : s[k] \in Char
    <3> TAKE k \in lo..hi
    <3>1. k \in 1..Len(s)
      BY <2>2, <2>4, LenProperties
    <3> QED
      BY <2>4, <3>1, ElementOfSeq
  <2>6. SubSeq(s, lo, hi) \in Seq(Char)
    BY <2>2, <2>5, SubSeqProperties
  <2> HIDE DEF copied
  <2> QED
    BY <2>3, <2>6 DEF s
<1>7. ASSUME NEW m \in Nat, m # 0, i + m <= L + 1
      PROVE  w(m) \in Seq(Seq(Char)) /\ Len(w(m)) = m
  <2> HIDE DEF copied, i
  <2>1. \A k \in 1..m : copied(i + k - 1) \in Seq(Char)
    <3> TAKE k \in 1..m
    <3>1. i + k - 1 \in 1..L
      BY <1>2, <1>3, <1>7
    <3> QED
      BY <1>6, <3>1
  <2> QED
    BY <2>1
<1>8. end \in Nat /\ end <= Len(T) /\ skip + 1 \in 1..Len(T) + 1
  BY <1>2
<1>9. 1 \in N
  <2>1. ASSUME i + 1 <= L + 1 PROVE FlattenSeq(w(1)) = SubSeq(T, skip + 1, MinOf(end, P(i + 1)))
    <3> DEFINE a == skip - P(i)
               lo == a + 1
               hi == MinOf(Len(d(i)), a + n)
    <3>1. copied(i) = SubSeq(d(i), lo, hi)
      OBVIOUS
    <3>2. /\ P(i) \in Nat /\ Len(d(i)) \in Nat /\ P(i + 1) = P(i) + Len(d(i)) /\ P(i) <= skip
          /\ i \in Nat
      BY <1>2, <1>3
    <3>3. /\ lo \in Nat /\ lo # 0 /\ hi \in Nat /\ hi <= Len(d(i)) /\ P(i) + lo = skip + 1
          /\ P(i) + hi = MinOf(end, P(i + 1))
      <4>1. \A p, l \in Nat : p <= skip =>
              LET h == IF l < (skip - p) + n THEN l ELSE (skip - p) + n
              IN  /\ (skip - p) + 1 \in Nat /\ (skip - p) + 1 # 0 /\ h \in Nat /\ h <= l
                  /\ p + ((skip - p) + 1) = skip + 1
                  /\ p + h = IF skip + n < p + l THEN skip + n ELSE p + l
        OBVIOUS
      <4> DEFINE p == P(i)
                 l == Len(d(i))
      <4>2. lo = (skip - p) + 1 /\ hi = (IF l < (skip - p) + n THEN l ELSE (skip - p) + n)
        BY DEF MinOf
      <4>3. MinOf(end, P(i + 1)) = IF skip + n < p + l THEN skip + n ELSE p + l
        BY <3>2 DEF MinOf
      <4>4. p \in Nat /\ l \in Nat /\ p <= skip
        BY <3>2
      <4> HIDE DEF p, l, lo, hi
      <4>5. lo \in Nat /\ lo # 0 /\ hi \in Nat /\ hi <= l /\ p + lo = skip + 1
        BY <4>1, <4>2, <4>4
      <4>6. p + hi = IF skip + n < p + l THEN skip + n ELSE p + l
        BY <4>1, <4>2, <4>4
      <4> QED
        BY <4>3, <4>5, <4>6 DEF p, l
    <3>4. SubSeq(T, P(i) + lo, P(i) + hi) = SubSeq(d(i), lo, hi)
      <4> HIDE DEF lo, hi
      <4> QED
        BY <1>3, <1>5, <3>3
    <3>5. w(1) = <<copied(i)>>
      <4>1. \A k \in 1..1 : i + k - 1 = i
        BY <3>2
      <4> HIDE DEF copied, i
      <4>2. w(1) = [k \in 1..1 |-> copied(i)]
        BY <4>1
      <4> QED
        BY <4>2
    <3>6. copied(i) \in Seq(Char)
      BY <1>3, <1>6
    <3> DEFINE v == copied(i)
    <3> HIDE DEF lo, hi, copied
    <3>7. FlattenSeq(w(1)) = v
      <4> HIDE DEF w
      <4> QED
        BY <3>5, <3>6, FlattenOne
    <3> QED
      BY <3>1, <3>3, <3>4, <3>7
  <2> QED
    BY <2>1
<1>10. ASSUME NEW m \in Nat, m \in N PROVE m + 1 \in N
  <2>1. CASE m = 0
    BY <1>9, <2>1
  <2>2. CASE m # 0 /\ i + (m + 1) <= L + 1
    <3> DEFINE j == i + m
               p == P(j)
               l == Len(d(j))
               v == copied(j)
    <3>1. /\ i \in Nat /\ j \in 1..L /\ j # i /\ j + 1 = i + (m + 1) /\ i + m <= L + 1
          /\ i + 1 \in 1..L + 1 /\ j \in 1..L + 1 /\ i + 1 <= j
      <4> DEFINE K == L
      <4>1. K \in Nat /\ i \in 1..K /\ i + (m + 1) <= K + 1 /\ m # 0
        BY <1>2, <1>3, <2>2
      <4> HIDE DEF i, K, P, d
      <4>2. i \in Nat /\ j \in 1..K /\ j # i
        BY <4>1
      <4>3. j + 1 = i + (m + 1) /\ i + m <= K + 1
        BY <4>1, <4>2
      <4>4. i + 1 \in 1..K + 1 /\ j \in 1..K + 1 /\ i + 1 <= j
        BY <4>1, <4>2
      <4> QED
        BY <4>2, <4>3, <4>4 DEF K
    <3>2. /\ p \in Nat /\ l \in Nat /\ P(j + 1) = p + l /\ p + l <= Len(T) /\ skip < p
      <4>1. P(i + 1) <= P(j) /\ P(i + 1) \in Nat
        BY <1>2, <3>1, BeforeGrows
      <4>2. P(j) \in Nat /\ Len(d(j)) \in Nat /\ P(j + 1) = P(j) + Len(d(j)) /\ P(j + 1) <= Len(T)
        BY <1>2, <3>1
      <4> HIDE DEF P, d
      <4> QED
        BY <1>3, <4>1, <4>2
    <3>3. FlattenSeq(w(m)) = SubSeq(T, skip + 1, MinOf(end, p))
      BY <1>10, <2>2, <3>1
    <3>4. v = SubSeq(d(j), 1, MinOf(l, end - p))
      <4>1. at(j) = 0 /\ left(j) = skip + (n - p)
        BY <3>1
      <4>2. 0 + 1 = 1 /\ 0 + (skip + (n - p)) = end - p
        <5> HIDE DEF p
        <5> QED
          BY <3>2
      <4> QED
        BY <4>1, <4>2
    <3>5. w(m + 1) = Append(w(m), v)
      <4>1. m + 1 # 0 /\ i + (m + 1) - 1 = j
        BY <3>1
      <4>2. w(m + 1) \in Seq(Seq(Char)) /\ Len(w(m + 1)) = m + 1
        BY <1>7, <2>2, <4>1
      <4>3. w(m) \in Seq(Seq(Char)) /\ Len(w(m)) = m
        BY <1>7, <2>2, <3>1
      <4>4. v \in Seq(Char)
        BY <1>6, <3>1
      <4> HIDE DEF copied, i
      <4>5. \A k \in 1..m + 1 : w(m + 1)[k] = copied(i + k - 1)
        OBVIOUS
      <4>6. \A k \in 1..m : w(m)[k] = copied(i + k - 1)
        OBVIOUS
      <4> DEFINE x == w(m)
                 y == w(m + 1)
                 z == Append(x, v)
      <4>7. y[m + 1] = v
        BY <4>1, <4>5
      <4>8. \A k \in 1..m : y[k] = x[k]
        <5> TAKE k \in 1..m
        <5>1. k \in 1..m + 1
          OBVIOUS
        <5> QED
          BY <4>5, <4>6, <5>1
      <4> HIDE DEF w, v
      <4>9. x \in Seq(Seq(Char)) /\ y \in Seq(Seq(Char)) /\ Len(x) = m /\ Len(y) = m + 1
        BY <4>2, <4>3
      <4> HIDE DEF x, y
      <4>10. z \in Seq(Seq(Char)) /\ Len(z) = m + 1 /\ z[m + 1] = v /\ \A k \in 1..m : z[k] = x[k]
        BY <4>4, <4>9, AppendProperties
      <4> HIDE DEF z
      <4>11. \A k \in 1..Len(y) : y[k] = z[k]
        <5> TAKE k \in 1..Len(y)
        <5>1. k \in 1..m \/ k = m + 1
          BY <4>9
        <5> QED
          BY <4>7, <4>8, <4>10, <5>1
      <4>12. y = z
        BY <4>9, <4>10, <4>11, SeqEqual
      <4> QED
        BY <4>12 DEF x, y, z
    <3>6. FlattenSeq(w(m + 1)) = FlattenSeq(w(m)) \o v
      <4>1. w(m) \in Seq(Seq(Char))
        BY <1>7, <2>2, <3>1
      <4>2. v \in Seq(Char)
        BY <1>6, <3>1
      <4> HIDE DEF w, v
      <4> QED
        BY <3>5, <4>1, <4>2, FlattenAppend
    <3>7. SubSeq(T, skip + 1, MinOf(end, p)) \o v = SubSeq(T, skip + 1, MinOf(end, p + l))
      <4> HIDE DEF v
      <4>1. CASE end < p
        <5> HIDE DEF p, l
        <5>1. MinOf(end, p) = end /\ MinOf(end, p + l) = end /\ MinOf(l, end - p) = end - p
          BY <1>8, <3>2, <4>1 DEF MinOf
        <5>2. v = <<>>
          <6>1. end - p \in Int /\ end - p < 1
            BY <1>8, <3>2, <4>1
          <6>2. SubSeq(d(j), 1, end - p) = <<>>
            BY <6>1, SubSeqEmpty
          <6> QED
            BY <3>4, <5>1, <6>2
        <5> DEFINE s == SubSeq(T, skip + 1, end)
        <5>3. s \in Seq(Char)
          <6>1. \A k \in skip + 1..end : T[k] \in Char
            <7> TAKE k \in skip + 1..end
            <7>1. k \in 1..Len(T)
              BY <1>2, <1>8
            <7> QED
              BY <1>2, <7>1, ElementOfSeq
          <6>2. skip + 1 \in Int /\ end \in Int
            BY <1>8
          <6> HIDE DEF end, T
          <6> QED
            BY <6>1, <6>2, SubSeqProperties
        <5> HIDE DEF s
        <5>4. s \o <<>> = s
          BY <5>3, ConcatEmptySeq
        <5> QED
          BY <5>1, <5>2, <5>4 DEF s
      <4>2. CASE ~(end < p)
        <5> DEFINE e == MinOf(l, end - p)
                   f == MinOf(end, p + l)
        <5>1. e \in Nat /\ e <= l /\ p + e = f /\ MinOf(end, p) = p
          <6> HIDE DEF p, l, end
          <6> QED
            BY <1>8, <3>2, <4>2 DEF MinOf
        <5>2. SubSeq(T, p + 1, p + e) = SubSeq(d(j), 1, e)
          <6> HIDE DEF e
          <6>1. 1 \in Nat /\ 1 # 0
            OBVIOUS
          <6> QED
            BY <1>5, <3>1, <5>1, <6>1
        <5>3. p \in skip + 1 - 1..Len(T) /\ f \in p..Len(T)
          <6> HIDE DEF e, f, p, l, end, T
          <6> QED
            BY <1>2, <1>8, <3>2, <5>1
        <5>4. SubSeq(T, skip + 1, p) \o SubSeq(T, p + 1, f) = SubSeq(T, skip + 1, f)
          <6> HIDE DEF p, f, T
          <6> QED
            BY <1>2, <1>8, <5>3, ConcatAdjacentSubSeq
        <5> HIDE DEF e, f, p, l, T, end
        <5> QED
          BY <3>4, <5>1, <5>2, <5>4 DEF e, f
      <4> QED
        BY <4>1, <4>2
    <3>8. FlattenSeq(w(m + 1)) = SubSeq(T, skip + 1, MinOf(end, P(i + (m + 1))))
      <4> HIDE DEF w, v, T, end
      <4>1. P(i + (m + 1)) = p + l
        BY <3>1, <3>2
      <4> HIDE DEF p, l, P
      <4> QED
        BY <3>3, <3>6, <3>7, <4>1
    <3> QED
      BY <3>8
  <2>3. CASE ~(i + (m + 1) <= L + 1)
    BY <2>3
  <2> QED
    BY <2>1, <2>2, <2>3
<1>11. Nat \subseteq N
  <2>1. 0 \in N
    OBVIOUS
  <2> HIDE DEF N
  <2> QED
    BY <1>10, <2>1, Induct
<1>12. CASE n = 0
  <2>1. SubSeq(T, skip + 1, skip + n) = <<>>
    BY <1>12, SubSeqEmpty
  <2> QED
    BY <1>1, <1>12, <2>1
<1>13. CASE n # 0
  <2> DEFINE m == L - i + 1
  <2>1. m \in Nat /\ m # 0 /\ i + m = L + 1
    BY <1>2, <1>3
  <2>2. m \in N
    BY <1>11, <2>1
  <2>3. FlattenSeq(w(m)) = SubSeq(T, skip + 1, MinOf(end, P(i + m)))
    <3>1. i + m <= L + 1
      <4> HIDE DEF m, i
      <4> QED
        BY <1>2, <2>1
    <3>2. m # 0 /\ i + m <= L + 1 =>
            FlattenSeq(w(m)) = SubSeq(T, skip + 1, MinOf(end, P(i + m)))
      <4> HIDE DEF w, P, T, end, i, L, m
      <4> QED
        BY <2>2
    <3> HIDE DEF w, P, T, end, i, L, m
    <3> QED
      BY <2>1, <3>1, <3>2
  <2>4. MinOf(end, P(i + m)) = end
    <3>1. P(i + m) = Len(T) /\ Len(T) \in Nat
      BY <1>2, <2>1
    <3> HIDE DEF P, T, end
    <3> QED
      BY <1>8, <3>1 DEF MinOf
  <2> HIDE DEF w
  <2> QED
    BY <1>1, <1>13, <2>3, <2>4
<1> QED
  BY <1>12, <1>13

-----------------------------------------------------------------------------
(* The buffer and its text. *)

\* The buffer keeps track of its last chunk and of its size, no chunk is empty,
\* and its bytes, read along the chunks, are the text.
BufferIInv == Consistent(buffer) /\ text = Text(buffer)

\* The buffers that come in are consistent.
LEMMA IncomingIs ==
  ASSUME NEW new \in Incoming
  PROVE  Consistent(new)
<1>1. ASSUME NEW x \in Bytes PROVE Consistent(NewBuffer(<<x>>))
  <2>1. <<x>> \in Seq(Char)
    BY DEF Char
  <2> QED
    BY <2>1, NewBufferIs
<1>2. ASSUME NEW x \in Bytes, NEW y \in Bytes
      PROVE  Consistent(InsertBackBuffer(NewBuffer(<<x>>), NewBuffer(<<y>>)))
  <2> DEFINE a == NewBuffer(<<x>>)
             b == NewBuffer(<<y>>)
  <2>1. Consistent(a) /\ Consistent(b)
    BY <1>1
  <2> HIDE DEF a, b
  <2>2. Consistent(InsertBackBuffer(a, b))
    BY <2>1, InsertBackIs DEF Inserts
  <2> QED
    BY <2>2 DEF a, b
<1>3. CASE new \in {NewBuffer(<<x>>) : x \in Bytes}
  <2>1. PICK x \in Bytes : new = NewBuffer(<<x>>)
    BY <1>3
  <2> QED
    BY <1>1, <2>1
<1>4. CASE new \in {InsertBackBuffer(NewBuffer(<<x>>), NewBuffer(<<y>>)) : x, y \in Bytes}
  <2> DEFINE two(x, y) == InsertBackBuffer(NewBuffer(<<x>>), NewBuffer(<<y>>))
  <2>0. new \in {two(x, y) : x, y \in Bytes}
    BY <1>4
  <2> HIDE DEF two
  <2>1. PICK x \in Bytes, y \in Bytes : new = two(x, y)
    BY <2>0
  <2> QED
    BY <1>2, <2>1, Zenon DEF two
<1> QED
  BY <1>3, <1>4 DEF Incoming

\* A new buffer is consistent.
LEMMA BufferStart == Init => BufferIInv
<1> SUFFICES ASSUME Init PROVE BufferIInv
  OBVIOUS
<1>1. <<>> \in Seq(Char)
  BY EmptySeq
<1>2. Consistent(NewBuffer(<<>>)) /\ Text(NewBuffer(<<>>)) = <<>>
  BY <1>1, NewBufferIs
<1> QED
  BY <1>2 DEF Init, BufferIInv

\* Every operation keeps the buffer consistent, and does to its text what
\* it is said to do.
LEMMA BufferStep == BufferIInv /\ [Next]_vars => BufferIInv'
<1> SUFFICES ASSUME BufferIInv, [Next]_vars PROVE BufferIInv'
  OBVIOUS
<1>1. Consistent(buffer) /\ text = Text(buffer) /\ buffer.size \in Nat
  BY BufferText DEF BufferIInv
<1>2. ASSUME NEW b, Consistent(b), buffer' = b, text' = Text(b) PROVE BufferIInv'
  BY <1>2 DEF BufferIInv, Consistent, Buffers, Text
<1>3. ASSUME NEW at \in 0..MaxSize, NEW new \in Incoming, Insert(at, new) PROVE BufferIInv'
  <2>1. at \in Nat /\ at <= buffer.size
    BY <1>3 DEF Insert
  <2>2. Inserts(InsertBuffer(buffer, new, at), buffer, at, Text(new))
    BY <1>1, <2>1, IncomingIs, InsertBufferIs
  <2> QED
    BY <1>1, <1>2, <1>3, <2>2 DEF Insert, Inserts
<1>4. ASSUME NEW at \in 0..MaxSize, NEW n \in 0..MaxSize, MakeRoom(at, n) PROVE BufferIInv'
  <2>1. at \in Nat /\ at <= buffer.size /\ n \in Nat
    BY <1>4 DEF MakeRoom
  <2>2. Inserts(InsertRoom(buffer, at, n), buffer, at, Fresh(n))
    BY <1>1, <2>1, InsertRoomIs
  <2> QED
    BY <1>1, <1>2, <1>4, <2>2 DEF MakeRoom, Inserts
<1>5. ASSUME NEW at \in 0..MaxSize, NEW n \in 0..MaxSize, ShrinkBy(at, n) PROVE BufferIInv'
  <2>1. at \in Nat /\ at < buffer.size /\ n \in Nat /\ at + n <= buffer.size
    BY <1>5 DEF ShrinkBy
  <2>2. Cuts(Shrink(buffer, at, n), buffer, at, n)
    BY <1>1, <2>1, ShrinkIs
  <2> QED
    BY <1>1, <1>2, <1>5, <2>2 DEF ShrinkBy, Cuts
<1>6. ASSUME NEW at \in 0..MaxSize, NEW data \in Seq(Char), Put(at, data) PROVE BufferIInv'
  <2>1. /\ Consistent(SetData(buffer, at, data))
        /\ Text(SetData(buffer, at, data)) = Overlaid(Text(buffer), at, data)
    BY <1>1, SetDataIs
  <2> QED
    BY <1>1, <1>2, <1>6, <2>1 DEF Put
<1>7. ASSUME NEW at \in 0..MaxSize, BreakAt(at) PROVE BufferIInv'
  <2>1. at \in Nat /\ at # 0 /\ at <= buffer.size
    BY <1>1, <1>7 DEF BreakAt
  <2>2. /\ Consistent(BreakHead(buffer, at)) /\ Text(BreakHead(buffer, at)) = Take(text, at)
        /\ Consistent(BreakTail(buffer, at)) /\ Text(BreakTail(buffer, at)) = Drop(text, at)
    BY <1>1, <2>1, BreakHeadIs, BreakTailIs
  <2> QED
    BY <1>2, <1>7, <2>2 DEF BreakAt
<1>8. ASSUME UNCHANGED vars PROVE BufferIInv'
  BY <1>1, <1>2, <1>8 DEF vars
<1>9. \A x, y \in Bytes : <<x>> \in Seq(Char) /\ <<x, y>> \in Seq(Char)
  BY DEF Char
<1> QED
  BY <1>3, <1>4, <1>5, <1>6, <1>7, <1>8, <1>9, BufferAssumption DEF Next

\* A consistent buffer is read as its text.
LEMMA BufferReads == BufferIInv => BufferIsText
<1> SUFFICES ASSUME BufferIInv PROVE BufferIsText
  OBVIOUS
<1>1. /\ Consistent(buffer) /\ text = Text(buffer) /\ buffer.size \in Nat
      /\ buffer.chunks \in Seq(Chunk) /\ buffer.tail = Len(buffer.chunks) /\ buffer.size = Len(text)
      /\ DOMAIN buffer.chunks = 1..Len(buffer.chunks)
  BY BufferText, LenProperties DEF BufferIInv
<1>2. ASSUME NEW i \in DOMAIN buffer.chunks
      PROVE  /\ buffer.chunks[i].data # <<>> /\ i \in 1..Len(buffer.chunks)
             /\ DOMAIN buffer.chunks[i].data = 1..Len(buffer.chunks[i].data)
  <2>1. i \in 1..Len(buffer.chunks) /\ buffer.chunks[i] \in Chunk
    BY <1>1, ElementOfSeq
  <2>2. buffer.chunks[i].data \in Seq(Char) /\ buffer.chunks[i].data # <<>>
    BY <2>1 DEF Chunk
  <2> QED
    BY <2>1, <2>2, LenProperties
<1>3. WellFormed
  BY <1>1, <1>2 DEF WellFormed
<1>4. \A from \in 0..buffer.size : FlattenSeq(Walked(buffer, from)) = Drop(text, from)
  BY <1>1, WalkedIs
<1>5. \A skip \in 0..buffer.size - 1 : \A n \in 0..buffer.size - skip :
        GetData(buffer, skip, n) = SubSeq(text, skip + 1, skip + n)
  <2> TAKE skip \in 0..buffer.size - 1
  <2> TAKE n \in 0..buffer.size - skip
  <2>1. skip \in Nat /\ skip < buffer.size /\ n \in Nat /\ skip + n <= buffer.size
    BY <1>1
  <2> QED
    BY <1>1, <2>1, GetDataIs
<1>6. \A i \in DOMAIN buffer.chunks : \A j \in DOMAIN buffer.chunks[i].data :
        text[FindLocation(buffer, i, j) + 1] = buffer.chunks[i].data[j]
  <2> TAKE i \in DOMAIN buffer.chunks
  <2> TAKE j \in DOMAIN buffer.chunks[i].data
  <2>1. i \in 1..Len(buffer.chunks) /\ j \in 1..Len(buffer.chunks[i].data)
    BY <1>2
  <2>2. text[Before(buffer, i) + j] = buffer.chunks[i].data[j]
    BY <1>1, <2>1, CharAt
  <2>3. FindLocation(buffer, i, j) + 1 = Before(buffer, i) + j
    <3>1. Before(buffer, i) \in Nat
      <4>1. i \in 1..Len(buffer.chunks) + 1
        BY <2>1, BufferText, <1>1
      <4> QED
        BY <1>1, <4>1, Places
    <3>2. FindLocation(buffer, i, j) = Before(buffer, i) + (j - 1)
      BY DEF FindLocation
    <3>3. \A k \in Nat : (k + (j - 1)) + 1 = k + j
      <4>1. j \in Int
        BY <2>1
      <4> QED
        BY <4>1
    <3> QED
      BY <3>1, <3>2, <3>3
  <2> QED
    BY <2>2, <2>3
<1>7. (\A i \in DOMAIN buffer.chunks : buffer.chunks[i].front = 0) =>
        \A i \in 1..buffer.size : Index(buffer, i - 1) = text[i]
  BY <1>1, IndexIs
<1> QED
  BY <1>1, <1>3, <1>4, <1>5, <1>6, <1>7 DEF ReadsAgree, BufferIsText

\* Whatever is inserted, removed, written and broken, in any order, for any bytes
\* and any size: every way of reading the chunks sees the one sequence of bytes
\* that the calls made (buffer.cc).
THEOREM BufferKeepsText == Spec => []BufferIsText
<1>1. Init => BufferIInv
  BY BufferStart
<1>2. BufferIInv /\ [Next]_vars => BufferIInv'
  BY BufferStep
<1>3. BufferIInv => BufferIsText
  BY BufferReads
<1> QED
  BY <1>1, <1>2, <1>3, PTL DEF Spec
=============================================================================
