-------------------------------- MODULE Speed -------------------------------
(***************************************************************************)
(* data_flow::SpeedDataFlow: several remote flows, each with a timer after *)
(* which it begins to connect; the first that connects is kept.            *)
(*                                                                         *)
(* The timers may expire in any order, whatever their delays.  A branch is *)
(* any remote flow whose destructor silences its callbacks.                *)
(***************************************************************************)
EXTENDS FlowStateMachine, Integers, FiniteSets

CONSTANT Branches  \* the indices of data_flows_

ASSUME BranchesAssumption == IsFiniteSet(Branches) /\ Branches # {}

VARIABLES
  stage,    \* "new", "racing", "answered" or "destroyed"
  answer,   \* what the handler of Connect has been given: "none", "success",
            \* "failure"
  upper,    \* state_machine_
  flows,    \* branches still in data_flows_
  kept,     \* data_flow_, as a set of at most one branch
  timer,    \* of each branch: "off", "armed", "expired" (its handler is in the
            \* run loop), "canceled" (the same, but will do nothing)
  conn,     \* callback of each branch's Connect: "none", "waiting", "canceled"
  active,   \* current_active_connection_
  failed    \* branches that have failed to connect

speedVars == <<stage, answer, upper, flows, kept, timer, conn, active, failed>>

SpeedInit == /\ stage = "new" /\ answer = "none"
             /\ upper = NewFlow("Remote")
             /\ flows = Branches /\ kept = {}
             /\ timer = [i \in Branches |-> "off"]
             /\ conn = [i \in Branches |-> "none"]
             /\ active = 0
             /\ failed = {}

\* connect_timers_.clear(): ~Timer cancels what it has put into the run loop.
ClearTimers ==
  timer' = [i \in Branches |-> IF timer[i] = "armed" THEN "off"
                               ELSE IF timer[i] = "expired" THEN "canceled"
                               ELSE timer[i]]

\* Mutant: the callbacks of destroyed flows still run.
LeaveFlows(S) == UNCHANGED conn

\* Destroying flows silences the callbacks that their Connect left behind.
DestroyFlows(S) ==
  conn' = [i \in Branches |-> IF i \in S /\ conn[i] = "waiting" THEN "canceled"
                              ELSE conn[i]]

Connect == /\ stage = "new"
           /\ stage' = "racing"
           /\ upper' = ConnectBegin(upper)
           /\ timer' = [i \in Branches |-> "armed"]
           /\ active' = Cardinality(flows)
           /\ UNCHANGED <<answer, flows, kept, conn, failed>>

TimerExpires(i) == /\ timer[i] = "armed"
                   /\ timer' = [timer EXCEPT ![i] = "expired"]
                   /\ UNCHANGED <<stage, answer, upper, flows, kept, conn, active, failed>>

BranchStarts(i) == /\ timer[i] = "expired"
                   /\ timer' = [timer EXCEPT ![i] = "off"]
                   /\ conn' = [conn EXCEPT ![i] = "waiting"]
                   /\ UNCHANGED <<stage, answer, upper, flows, kept, active, failed>>

\* Mutant: the first failure is reported while others may still connect.
ReportFirstFailure ==
  /\ answer' = "failure"
  /\ stage' = "answered"

\* Mutant: the count is compared before it is decremented.
ReportFailureLate ==
  IF active = 0 THEN answer' = "failure" /\ stage' = "answered"
                ELSE UNCHANGED <<answer, stage>>

\* Failure is reported when no branch is left.
ReportFailure ==
  IF active - 1 = 0 THEN answer' = "failure" /\ stage' = "answered"
                    ELSE UNCHANGED <<answer, stage>>

BranchFails(i) == /\ conn[i] = "waiting"
                  /\ conn' = [conn EXCEPT ![i] = "none"]
                  /\ failed' = failed \cup {i}
                  /\ active' = active - 1
                  /\ ReportFailure
                  /\ UNCHANGED <<upper, flows, kept, timer>>

\* Mutant: the other flows are not destroyed.
BranchConnectsOthersOn(i) ==
  /\ conn[i] = "waiting"
  /\ active' = active - 1
  /\ kept' = {i} /\ flows' = flows \ {i}
  /\ ClearTimers
  /\ conn' = [conn EXCEPT ![i] = "none"]
  /\ upper' = Connected(upper)
  /\ answer' = "success" /\ stage' = "answered"
  /\ UNCHANGED failed

\* The branch is moved out of data_flows_; the others are destroyed.
BranchConnects(i) ==
  /\ conn[i] = "waiting"
  /\ active' = active - 1
  /\ kept' = {i} /\ flows' = {}
  /\ ClearTimers
  /\ conn' = [j \in Branches |-> IF j = i THEN "none"
                                 ELSE IF conn[j] = "waiting" THEN "canceled"
                                 ELSE conn[j]]
  /\ upper' = Connected(upper)
  /\ answer' = "success" /\ stage' = "answered"
  /\ UNCHANGED failed

\* ~SpeedDataFlow, by its owner: when Connect failed, or at any other time.
Destroy == /\ stage # "destroyed"
           /\ stage' = "destroyed"
           /\ flows' = {} /\ kept' = {}
           /\ ClearTimers
           /\ DestroyFlows(Branches)
           /\ UNCHANGED <<answer, upper, active, failed>>

DropExpiry(i) == /\ timer[i] = "canceled"
                 /\ timer' = [timer EXCEPT ![i] = "off"]
                 /\ UNCHANGED <<stage, answer, upper, flows, kept, conn, active, failed>>

DropConnect(i) == /\ conn[i] = "canceled"
                  /\ conn' = [conn EXCEPT ![i] = "none"]
                  /\ UNCHANGED <<stage, answer, upper, flows, kept, timer, active, failed>>

\* Nothing is left in the run loop and the owner has what it asked for.
Done == /\ stage = "destroyed"
        /\ \A i \in Branches : timer[i] = "off" /\ conn[i] = "none"
        /\ UNCHANGED speedVars

Branch(i) == \/ TimerExpires(i) \/ BranchStarts(i)
             \/ BranchFails(i) \/ BranchConnects(i)
             \/ DropExpiry(i) \/ DropConnect(i)

SpeedNext == Connect \/ Destroy \/ Done \/ \E i \in Branches : Branch(i)

SpeedSpec == SpeedInit /\ [][SpeedNext]_speedVars

\* Time passes, the run loop runs, and each branch answers one way or another.
SpeedLiveSpec ==
  SpeedSpec /\ \A i \in Branches : /\ WF_speedVars(TimerExpires(i))
                                   /\ WF_speedVars(BranchStarts(i))
                                   /\ WF_speedVars(BranchFails(i) \/ BranchConnects(i))

-----------------------------------------------------------------------------
\* The variables have their types.
SpeedTypeOK == /\ stage \in {"new", "racing", "answered", "destroyed"}
               /\ answer \in {"none", "success", "failure"}
               /\ upper \in Flow
               /\ flows \subseteq Branches
               /\ kept \subseteq Branches
               /\ timer \in [Branches -> {"off", "armed", "expired", "canceled"}]
               /\ conn \in [Branches -> {"none", "waiting", "canceled"}]
               /\ active \in 0 .. Cardinality(Branches)
               /\ failed \subseteq Branches

\* A handler that runs finds its branch in data_flows_ (data_flows_[i] in the
\* timer's handler and in the callback of Connect, speed_data_flow.cc:87, 105),
\* and a flow that is not destroyed.
IndexValid ==
  \A i \in Branches : timer[i] \in {"armed", "expired"} \/ conn[i] = "waiting"
                        => i \in flows /\ stage # "destroyed"

\* Connected() is called on a flow that connects, and StateMachine() finds
\* data_flow_ whenever it does not answer with the flow's own state machine.
StateMachineValid ==
  /\ \A i \in Branches : conn[i] = "waiting" => CanConnected(upper)
  /\ upper.state \notin {"Init", "Establishing", "Closed"} /\ stage # "destroyed"
       => kept # {}

\* The failure of a branch is final only when it is the last: a branch that
\* waits for its timer or for its connection still counts, although the count
\* is only of failures.
AnswerIsTrue ==
  /\ answer = "failure" => failed = Branches
  /\ answer = "none" => failed # Branches
  /\ answer = "success" => \E i \in Branches \ failed :
                             kept = IF stage = "destroyed" THEN {} ELSE {i}

\* Nothing that runs finds its flow gone or in the wrong state, and what the owner
\* is told is so.
RaceSafe == IndexValid /\ StateMachineValid /\ AnswerIsTrue

\* If every branch answers, so does the race, unless it is destroyed.
RaceEnds == (stage = "racing") ~> (stage # "racing")

\* The race implements its abstract promise.
Abstract == INSTANCE Race WITH
  outcome   <- IF stage = "answered" THEN answer ELSE stage,
  remaining <- Branches \ failed,
  winner    <- kept

RaceSpec == Abstract!Spec
-----------------------------------------------------------------------------
(* The inductive invariant: what holds at each stage. *)

\* Nothing that waits in the run loop would still run code of branch i.
Silent(i) == timer[i] \in {"off", "canceled"} /\ conn[i] # "waiting"

New == /\ answer = "none" /\ upper = NewFlow("Remote")
       /\ flows = Branches /\ kept = {} /\ failed = {}
       /\ \A i \in Branches : timer[i] = "off" /\ conn[i] = "none"

\* current_active_connection_ counts the branches that have not failed.
Racing == /\ answer = "none" /\ upper.state = "Establishing"
          /\ flows = Branches /\ kept = {}
          /\ active = Cardinality(Branches \ failed) /\ failed # Branches
          /\ \A i \in Branches :
                /\ i \in failed => Silent(i)
                /\ conn[i] = "waiting" => timer[i] = "off"

Answered == /\ \A i \in Branches : Silent(i)
            /\ \/ /\ answer = "failure" /\ failed = Branches
                  /\ kept = {} /\ upper.state = "Establishing"
               \/ /\ answer = "success" /\ upper.state = "Established"
                  /\ \E i \in Branches \ failed : kept = {i}

Destroyed == /\ \A i \in Branches : Silent(i)
             /\ kept = {} /\ AnswerIsTrue

\* A branch's callbacks, the count and the answer agree at every stage.
SpeedIInv == /\ SpeedTypeOK
             /\ stage = "new" => New
             /\ stage = "racing" => Racing
             /\ stage = "answered" => Answered
             /\ stage = "destroyed" => Destroyed
=============================================================================
