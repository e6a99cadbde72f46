----------------------------- MODULE TunnelInv ------------------------------
(***************************************************************************)
(* The inductive invariant of Tunnel: what holds between two callbacks, in *)
(* each stage of a tunnel's life.                                          *)
(***************************************************************************)
EXTENDS Tunnel

L == sock["local"]
Rm == sock["remote"]

Untouched == /\ \A s \in Sides : got[s] = 0 /\ recv[s] = 0
             /\ finTo = {}

\* The stages before forwarding: Open, Match, Connect or Continue is due.
Preparing ==
  /\ Untouched
  /\ \/ /\ At(L, "Establishing", "Open") /\ At(Rm, "Init", "-")
        /\ rule = "none" /\ ~hasRemote
     \/ /\ At(L, "Establishing", "-") /\ At(Rm, "Init", "-")
        /\ rule = "waiting" /\ ~hasRemote
     \/ /\ At(L, "Establishing", "-") /\ At(Rm, "Establishing", "Connect")
        /\ rule = "none" /\ hasRemote
     \/ /\ At(L, "Establishing", "Continue") /\ At(Rm, "Established", "-")
        /\ rule = "none" /\ hasRemote

\* The loop that reads s is at exactly one place: waiting for data from s,
\* writing them to the other side, or past the EOF of s.
LoopPlace(x, y) ==
  /\ x.fsm.reading \/ y.fsm.writing \/ x.fsm.read_closed
  /\ ~(x.fsm.reading /\ y.fsm.writing)
  /\ ~(x.fsm.reading /\ x.fsm.read_closed)
  /\ ~(y.fsm.writing /\ x.fsm.read_closed)
  /\ x.fsm.read_closed <=> (y.fsm.write_closing \/ y.fsm.write_closed)

\* What the loop that reads s has done with the data.
LoopData(s) ==
  LET o == Other(s)
  IN /\ recv[o] <= got[s] /\ got[s] <= sent[s]
     /\ ~sock[o].fsm.writing => recv[o] = got[s]
     /\ sock[s].fsm.read_closed => s \in fin /\ got[s] = sent[s]
     /\ o \in finTo <=> sock[s].fsm.read_closed

Running ==
  /\ rule = "none" /\ hasRemote
  /\ \A s \in Sides : /\ InUse(sock[s])
                      /\ LoopPlace(sock[s], sock[Other(s)])
                      /\ LoopData(s)
  /\ ~BothClosed(sock)

New == /\ status = "new"
       /\ At(L, "Init", "-") /\ At(Rm, "Init", "-")
       /\ rule = "none" /\ ~hasRemote /\ expiry = {}
       /\ Untouched

Released == status \in {"finished", "aborted"}

StageInv == \/ New
            \/ status = "alive" /\ (Preparing \/ Running)
            \/ Released

\* Only a living tunnel has an armed timer.
TimerStops == status # "alive" => timer = "off"

\* The strengthening of the safety properties that every step preserves.
IInv == /\ TypeOK
        /\ asserted
        /\ StageInv
        /\ status = "finished" => finTo = Sides
        /\ NoCallbackOutlivesTunnel
        /\ HalfCloseAfterData
        /\ TimerGuards
        /\ TimerStops
=============================================================================
