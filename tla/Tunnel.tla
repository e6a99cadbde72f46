------------------------------- MODULE Tunnel -------------------------------
(***************************************************************************)
(* transport::Tunnel and TunnelManager: one tunnel between a local and a   *)
(* remote TcpSocket, on the single-threaded run loop.  Every asynchronous  *)
(* call leaves a callback in the run loop; an action below runs one        *)
(* callback to its end: the socket's part, then the handler the tunnel     *)
(* gave it, with every call that handler makes.  The remaining actions are *)
(* the two peers, the kernel, the clock and TunnelManager::CloseAll.       *)
(*                                                                         *)
(* Data are counted, not represented: the tunnel keeps one buffer per      *)
(* direction in flight, so a count is enough to tell loss, duplication and *)
(* a close that overtakes data.                                            *)
(***************************************************************************)
EXTENDS TcpSocket, Naturals

CONSTANT MaxChunks  \* the chunks a peer may send, per direction

ASSUME MaxChunksAssumption == MaxChunks \in Nat

VARIABLES
  status,     \* "new" before TunnelManager::Build, "alive" while in tunnels_,
              \* then how it was released: "finished" by CheckTunnelStatus,
              \* "aborted" by anything else
  sock,       \* local_data_flow_ and remote_data_flow_
  hasRemote,  \* remote_data_flow_ is not null
  rule,       \* callback of RuleManager::Match, held by rule_cancelable_
  timer,      \* timeout_timer_: "armed" or "off"
  expiry,     \* expiries in the run loop: "live", or "stale" once cancelled
  asserted,   \* every BOOST_ASSERT reached so far has held
  sent, fin,  \* what each peer has sent; the peers that sent EOF
  got,        \* chunks read from each side
  recv,       \* chunks the kernel has taken for each side
  finTo       \* sides whose sending half the tunnel has shut down

tunnelVars == <<status, sock, hasRemote, rule, timer, expiry, asserted>>
dataVars   == <<sent, fin, got, recv, finTo>>
vars       == <<tunnelVars, dataVars>>

Sides == {"local", "remote"}

Other(s) == IF s = "local" THEN "remote" ELSE "local"

Init == /\ status = "new"
        /\ sock = [s \in Sides |->
                     NewSocket(IF s = "local" THEN "Local" ELSE "Remote")]
        /\ hasRemote = FALSE
        /\ rule = "none"
        /\ timer = "off"
        /\ expiry = {}
        /\ asserted = TRUE
        /\ sent = [s \in Sides |-> 0]
        /\ fin = {}
        /\ got = [s \in Sides |-> 0]
        /\ recv = [s \in Sides |-> 0]
        /\ finTo = {}

-----------------------------------------------------------------------------
(* The timer, the release of the tunnel, and the two loops' entry. *)

\* Mutant: an expiry already in the run loop is not cancelled.
StaleKept(e) == e

\* Timer::Wait and ~Timer cancel an expiry that is already in the run loop.
Stale(e) == IF e = {} THEN {} ELSE {"stale"}

\* Mutant: the timer is cancelled and not started again.
ResetTimerWithoutWait == timer' = "off" /\ expiry' = Stale(expiry)

\* Tunnel::ResetTimer
ResetTimer == timer' = "armed" /\ expiry' = Stale(expiry)

\* Mutant: the destructor forgets rule_cancelable_.
CancelRuleForgotten(r) == r
CancelRule(r) == IF r = "waiting" THEN "canceled" ELSE r

\* Tunnel::ReleaseTunnel: NotifyClosed erases the tunnel, which destroys it
\* and both its flows; ss are the sockets as the running callback left them.
Release(how, ss) == /\ status' = how
                    /\ sock' = [s \in Sides |-> Destroy(ss[s])]
                    /\ rule' = CancelRule(rule)
                    /\ timer' = "off"
                    /\ expiry' = Stale(expiry)
                    /\ UNCHANGED hasRemote

\* The tunnel lives on with sockets ss, its timer restarted.
KeepOn(ss) == sock' = ss /\ ResetTimer /\ UNCHANGED <<status, hasRemote, rule>>

\* Mutant: one half closed is taken for both.
BothClosing(ss) == \A s \in Sides : ss[s].fsm.state \in {"Closing", "Closed"}

\* Tunnel::CheckTunnelStatus
BothClosed(ss) == /\ ss["local"].fsm.state = "Closed"
                  /\ \/ ~hasRemote
                     \/ ss["remote"].fsm.state = "Closed"

CheckTunnelStatus(ss) == IF BothClosed(ss) THEN Release("finished", ss)
                                           ELSE KeepOn(ss)

\* ForwardLocal and ForwardRemote on sockets ss, reading side s.  They call
\* CheckTunnelStatus first and go on to use the tunnel whatever it did.
CanForward(ss, s) == /\ ~BothClosed(ss)
                     /\ IsReadable(ss[s].fsm)
                     /\ IsWritable(ss[Other(s)].fsm)

Forward(ss, s) == [ss EXCEPT ![s] = Read(@)]

Assert(holds) == asserted' = (asserted /\ holds)

-----------------------------------------------------------------------------
(* Setting the tunnel up. *)

\* The listener's handler: TunnelManager::Build and Tunnel::Open.
BuildAndOpen == /\ status = "new"
                /\ status' = "alive"
                /\ Assert(CanConnectBegin(sock["local"].fsm))
                /\ sock' = [sock EXCEPT !["local"] = Open(@)]
                /\ ResetTimer
                /\ UNCHANGED <<hasRemote, rule, dataVars>>

\* The handler of Open: MatchRule.
Opened == /\ sock["local"].cb["Open"] = "waiting"
          /\ sock' = [sock EXCEPT !["local"] = OpenDone(@)]
          /\ rule' = "waiting"
          /\ ResetTimer
          /\ UNCHANGED <<status, hasRemote, asserted, dataVars>>

\* The handler of Match: GetDataFlow and ConnectToRemote.
Matched == /\ rule = "waiting"
           /\ rule' = "none"
           /\ hasRemote' = TRUE
           /\ Assert(CanConnectBegin(NewSocket("Remote").fsm))
           /\ sock' = [sock EXCEPT !["remote"] = Connect(NewSocket("Remote"))]
           /\ ResetTimer
           /\ UNCHANGED <<status, dataVars>>

\* No rule matched: LocalReportError, which is ReleaseTunnel.
MatchFailed == /\ rule = "waiting"
               /\ status' = "aborted"
               /\ sock' = [s \in Sides |-> Destroy(sock[s])]
               /\ rule' = "none"
               /\ timer' = "off"
               /\ expiry' = Stale(expiry)
               /\ UNCHANGED <<hasRemote, asserted, dataVars>>

\* The handler of Connect: FinishLocalNegotiation.
ConnectedToRemote ==
  /\ sock["remote"].cb["Connect"] = "waiting"
  /\ Assert(CanConnectDone(sock["remote"]))
  /\ KeepOn([sock EXCEPT !["remote"] = ConnectDone(@), !["local"] = Continue(@)])
  /\ UNCHANGED dataVars

ConnectToRemoteFailed ==
  /\ sock["remote"].cb["Connect"] = "waiting"
  /\ Release("aborted", [sock EXCEPT !["remote"] = ConnectFailed(@)])
  /\ UNCHANGED <<asserted, dataVars>>

\* A TcpSocket never fails Open or Continue; a flow stacked on one does, and
\* the tunnel's handlers treat both failures alike.
NegotiationFailed(op) ==
  /\ sock["local"].cb[op] = "waiting"
  /\ Release("aborted",
             [sock EXCEPT !["local"] = Return(@, Errored(@.fsm), op)])
  /\ UNCHANGED <<asserted, dataVars>>

\* The handler of Continue: BeginForward.
Continued ==
  /\ sock["local"].cb["Continue"] = "waiting"
  /\ LET ready == [sock EXCEPT !["local"] = ContinueDone(@)]
         first == Forward(ready, "local")
     IN /\ Assert(/\ CanContinueDone(sock["local"])
                  /\ CanForward(ready, "local")
                  /\ CanForward(first, "remote"))
        /\ KeepOn(Forward(first, "remote"))
  /\ UNCHANGED dataVars

-----------------------------------------------------------------------------
(* Forwarding.  s is the side that is read, Other(s) the side written. *)

\* A read that got data hands all of it to Write on the other side.
ReadSome(s) ==
  /\ sock[s].cb["Read"] = "waiting"
  /\ \E n \in 1 .. MaxChunks :
        /\ got[s] + n <= sent[s]
        /\ got' = [got EXCEPT ![s] = @ + n]
  /\ Assert(CanReadDone(sock[s]) /\ CanWriteBegin(sock[Other(s)].fsm))
  /\ KeepOn([sock EXCEPT ![s] = ReadDone(@), ![Other(s)] = Write(@)])
  /\ UNCHANGED <<sent, fin, recv, finTo>>

\* A read that got EOF closes the other side's writing half, or, when that
\* is not possible, only looks whether the tunnel is over.
ReadEnded(s) ==
  /\ sock[s].cb["Read"] = "waiting"
  /\ s \in fin /\ got[s] = sent[s]
  /\ LET ss == [sock EXCEPT ![s] = ReadEof(@)]
         o  == Other(s)
     IN IF IsWriteClosable(ss[o].fsm)
        THEN /\ Assert(CanReadEof(sock[s]) /\ CanWriteCloseBegin(ss[o].fsm))
             /\ KeepOn([ss EXCEPT ![o] = CloseWrite(@)])
             /\ finTo' = finTo \cup {o}
        ELSE /\ Assert(CanReadEof(sock[s]))
             /\ CheckTunnelStatus(ss)
             /\ UNCHANGED finTo
  /\ UNCHANGED <<sent, fin, got, recv>>

\* Any other read error: ReleaseTunnel, directly or by LocalReportError.
ReadBroke(s) ==
  /\ sock[s].cb["Read"] = "waiting"
  /\ Assert(CanReadDone(sock[s]))
  /\ Release("aborted", [sock EXCEPT ![s] = ReadFailed(@)])
  /\ UNCHANGED dataVars

\* Mutant: Write reports before the whole buffer has been taken.
WrittenInPart(s) ==
  /\ sock[s].cb["Write"] = "waiting"
  /\ LET ss == [sock EXCEPT ![s] = WriteDone(@)]
     IN /\ Assert(CanWriteDone(sock[s]) /\ CanForward(ss, Other(s)))
        /\ KeepOn(Forward(ss, Other(s)))
  /\ UNCHANGED dataVars

\* The kernel has taken the whole buffer: the loop that reads Other(s) goes on.
Written(s) ==
  /\ sock[s].cb["Write"] = "waiting"
  /\ recv[s] = got[Other(s)]
  /\ LET ss == [sock EXCEPT ![s] = WriteDone(@)]
     IN /\ Assert(CanWriteDone(sock[s]) /\ CanForward(ss, Other(s)))
        /\ KeepOn(Forward(ss, Other(s)))
  /\ UNCHANGED dataVars

WriteBroke(s) ==
  /\ sock[s].cb["Write"] = "waiting"
  /\ Assert(CanWriteDone(sock[s]))
  /\ Release("aborted", [sock EXCEPT ![s] = WriteFailed(@)])
  /\ UNCHANGED dataVars

\* The handler of CloseWrite ignores the result.
WriteClosed(s) ==
  /\ sock[s].cb["CloseWrite"] = "waiting"
  /\ Assert(CanCloseWriteDone(sock[s]))
  /\ CheckTunnelStatus([sock EXCEPT ![s] = CloseWriteDone(@)])
  /\ UNCHANGED dataVars

-----------------------------------------------------------------------------
(* Timer, TunnelManager, and callbacks that were cancelled. *)

\* 300 s have passed since the last ResetTimer: asio queues the expiry.
TimerExpires == /\ timer = "armed"
                /\ timer' = "off"
                /\ expiry' = expiry \cup {"live"}
                /\ UNCHANGED <<status, sock, hasRemote, rule, asserted, dataVars>>

TimedOut == /\ "live" \in expiry
            /\ status' = "aborted"
            /\ sock' = [s \in Sides |-> Destroy(sock[s])]
            /\ rule' = CancelRule(rule)
            /\ timer' = "off"
            /\ expiry' = expiry \ {"live"}
            /\ UNCHANGED <<hasRemote, asserted, dataVars>>

\* TunnelManager::CloseAll
CloseAll == /\ status = "alive"
            /\ Release("aborted", sock)
            /\ UNCHANGED <<asserted, dataVars>>

\* A cancelled callback leaves the run loop without touching anything.
DropSocketCallback(s, op) ==
  /\ sock[s].cb[op] = "canceled"
  /\ sock' = [sock EXCEPT ![s] = Return(@, @.fsm, op)]
  /\ UNCHANGED <<status, hasRemote, rule, timer, expiry, asserted, dataVars>>

DropRuleCallback ==
  /\ rule = "canceled"
  /\ rule' = "none"
  /\ UNCHANGED <<status, sock, hasRemote, timer, expiry, asserted, dataVars>>

DropExpiry ==
  /\ "stale" \in expiry
  /\ expiry' = expiry \ {"stale"}
  /\ UNCHANGED <<status, sock, hasRemote, rule, timer, asserted, dataVars>>

-----------------------------------------------------------------------------
(* The peers and the kernel. *)

\* The local peer is connected from the start, the remote one once Connect
\* has succeeded.
PeerPresent(s) ==
  /\ status = "alive"
  /\ s = "remote" => sock[s].fsm.state \notin {"Init", "Establishing"}

PeerSends(s) == /\ PeerPresent(s)
                /\ s \notin fin
                /\ sent[s] < MaxChunks
                /\ sent' = [sent EXCEPT ![s] = @ + 1]
                /\ UNCHANGED <<tunnelVars, fin, got, recv, finTo>>

PeerCloses(s) == /\ PeerPresent(s)
                 /\ s \notin fin
                 /\ fin' = fin \cup {s}
                 /\ UNCHANGED <<tunnelVars, sent, got, recv, finTo>>

\* The kernel accepts the next chunk of the buffer being written to s.
KernelTakes(s) == /\ sock[s].cb["Write"] = "waiting"
                  /\ recv[s] < got[Other(s)]
                  /\ recv' = [recv EXCEPT ![s] = @ + 1]
                  /\ UNCHANGED <<tunnelVars, sent, fin, got, finTo>>

-----------------------------------------------------------------------------
\* A released tunnel whose callbacks have all left the run loop.
Done == /\ status \in {"finished", "aborted"}
        /\ \A s \in Sides, op \in Ops : sock[s].cb[op] = "none"
        /\ rule = "none" /\ expiry = {}
        /\ UNCHANGED vars

Setup == \/ BuildAndOpen \/ Opened \/ Matched \/ MatchFailed
         \/ ConnectedToRemote \/ ConnectToRemoteFailed
         \/ NegotiationFailed("Open") \/ NegotiationFailed("Continue")
         \/ Continued

Forwarding(s) == \/ ReadSome(s) \/ ReadEnded(s) \/ ReadBroke(s)
                 \/ Written(s) \/ WriteBroke(s) \/ WriteClosed(s)

Shutdown == \/ TimerExpires \/ TimedOut \/ CloseAll
            \/ DropRuleCallback \/ DropExpiry
            \/ \E s \in Sides, op \in Ops : DropSocketCallback(s, op)

Environment(s) == PeerSends(s) \/ PeerCloses(s) \/ KernelTakes(s)

Next == \/ Setup \/ Shutdown \/ Done
        \/ \E s \in Sides : Forwarding(s) \/ Environment(s)

Spec == Init /\ [][Next]_vars

-----------------------------------------------------------------------------
(* Fairness.  The run loop runs every callback that is ready; asio makes   *)
(* progress on a transfer the peer lets progress; the clock advances.      *)

CallbackFairness ==
  /\ WF_vars(BuildAndOpen)
  /\ WF_vars(Opened)
  /\ WF_vars(Matched)
  /\ WF_vars(ConnectedToRemote)
  /\ WF_vars(Continued)
  /\ \A s \in Sides : /\ WF_vars(ReadSome(s))
                      /\ WF_vars(ReadEnded(s))
                      /\ WF_vars(Written(s))
                      /\ WF_vars(WriteClosed(s))
                      /\ WF_vars(KernelTakes(s))

TimerFairness == WF_vars(TimerExpires) /\ WF_vars(TimedOut)

-----------------------------------------------------------------------------
(* Properties. *)

TypeOK == /\ status \in {"new", "alive", "finished", "aborted"}
          /\ sock \in [Sides -> Socket]
          /\ hasRemote \in BOOLEAN
          /\ rule \in CallbackStates
          /\ timer \in {"armed", "off"}
          /\ expiry \in SUBSET {"live", "stale"}
          /\ asserted \in BOOLEAN
          /\ sent \in [Sides -> 0 .. MaxChunks]
          /\ got \in [Sides -> 0 .. MaxChunks]
          /\ recv \in [Sides -> 0 .. MaxChunks]
          /\ fin \in SUBSET Sides
          /\ finTo \in SUBSET Sides

\* No callback interleaving makes an assertion of FlowStateMachine or of the
\* forwarding loops fail, or makes a loop go on after CheckTunnelStatus
\* destroyed the tunnel (tunnel.cc:137-141, 182-186).
AssertionsHold == asserted

\* After ~Tunnel no callback that still waits in the run loop would run code
\* of the destroyed tunnel or sockets: each of them has been cancelled.
NoCallbackOutlivesTunnel ==
  status \in {"finished", "aborted"} =>
    /\ \A s \in Sides, op \in Ops : sock[s].cb[op] # "waiting"
    /\ rule # "waiting"
    /\ "live" \notin expiry

\* A side is told that the other has finished only when it has every chunk
\* the other sent: a half-close never overtakes data or drops any.
HalfCloseAfterData ==
  \A s \in finTo : Other(s) \in fin /\ recv[s] = sent[Other(s)]

\* A tunnel whose flows are both Closed does not linger in TunnelManager.
NoZombie == status = "alive" => ~BothClosed(sock)

\* A living tunnel is always guarded by its timer: it is either armed, or
\* has expired with nothing done since and the expiry is on its way.  So an
\* expiry never ends a tunnel that was active after the interval ran out.
TimerGuards == status = "alive" => (timer = "armed") # ("live" \in expiry)

\* No tunnel is left to itself: one that is finished is released, one that is
\* not will hear from its timer.
Guarded == NoZombie /\ TimerGuards

\* The tunnel implements the abstract relay.
R == INSTANCE Relay
RelaySpec == R!Spec

\* Each socket goes through the documented life of a data flow.
LocalLife == INSTANCE FlowLifecycle WITH
               state     <- sock["local"].fsm.state,
               readOpen  <- ~sock["local"].fsm.read_closed,
               writeOpen <- ~sock["local"].fsm.write_closed
RemoteLife == INSTANCE FlowLifecycle WITH
               state     <- sock["remote"].fsm.state,
               readOpen  <- ~sock["remote"].fsm.read_closed,
               writeOpen <- ~sock["remote"].fsm.write_closed
LocalLifecycle  == LocalLife!Spec
RemoteLifecycle == RemoteLife!Spec
Lifecycles      == LocalLifecycle /\ RemoteLifecycle

\* The end of one direction gets through, whatever the other direction does:
\* a peer's EOF reaches the other peer unless the tunnel is released.
EofPassesThrough ==
  \A s \in Sides : (s \in fin) ~> (Other(s) \in finTo \/ status # "alive")

\* When both peers have closed, the tunnel is released without the timeout.
BothEofsRelease == (fin = Sides) ~> (status # "alive")

\* Both, if transfers progress; the timer may never be needed.
EofsPass == CallbackFairness => EofPassesThrough /\ BothEofsRelease

\* A tunnel on which everything stalls is released by its timer: nothing but the
\* clock is assumed to progress.
StalledTunnelReleased == TimerFairness => ((status = "alive") ~> (status # "alive"))
=============================================================================
