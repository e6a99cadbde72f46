------------------------------- MODULE Relay --------------------------------
(***************************************************************************)
(* What a tunnel promises, without sockets, callbacks or timers (README,   *)
(* "Tunnel": it forwards data back and forth between local and remote      *)
(* until both sides are closed or an error is encountered).  Each side     *)
(* sends chunks and may close its sending half; the relay passes the       *)
(* chunks on in order, passes the close on only after every chunk, and     *)
(* ends well only when it has passed both closes on.                       *)
(***************************************************************************)
EXTENDS Naturals

VARIABLES
  status,  \* "new", "alive", "finished" (both closed) or "aborted"
  sent,    \* chunks each peer has sent
  fin,     \* peers that have closed their sending half
  recv,    \* chunks the relay has delivered to each peer
  finTo    \* peers to which the relay has closed its sending half

vars == <<status, sent, fin, recv, finTo>>

Sides == {"local", "remote"}

Other(s) == IF s = "local" THEN "remote" ELSE "local"

Init == /\ status = "new"
        /\ sent = [s \in Sides |-> 0]
        /\ fin = {}
        /\ recv = [s \in Sides |-> 0]
        /\ finTo = {}

Start == /\ status = "new"
         /\ status' = "alive"
         /\ UNCHANGED <<sent, fin, recv, finTo>>

Send(s) == /\ status = "alive"
           /\ s \notin fin
           /\ sent' = [sent EXCEPT ![s] = @ + 1]
           /\ UNCHANGED <<status, fin, recv, finTo>>

Close(s) == /\ status = "alive"
            /\ s \notin fin
            /\ fin' = fin \cup {s}
            /\ UNCHANGED <<status, sent, recv, finTo>>

\* The next chunk of the other side reaches s.
Deliver(s) == /\ status = "alive"
              /\ s \notin finTo
              /\ recv[s] < sent[Other(s)]
              /\ recv' = [recv EXCEPT ![s] = @ + 1]
              /\ UNCHANGED <<status, sent, fin, finTo>>

\* The other side's close reaches s, after everything it sent.
PassClose(s) == /\ status = "alive"
                /\ s \notin finTo
                /\ Other(s) \in fin
                /\ recv[s] = sent[Other(s)]
                /\ finTo' = finTo \cup {s}
                /\ UNCHANGED <<status, sent, fin, recv>>

Finish == /\ status = "alive"
          /\ finTo = Sides
          /\ status' = "finished"
          /\ UNCHANGED <<sent, fin, recv, finTo>>

Abort == /\ status = "alive"
         /\ status' = "aborted"
         /\ UNCHANGED <<sent, fin, recv, finTo>>

Next == \/ Start \/ Finish \/ Abort
        \/ \E s \in Sides : Send(s) \/ Close(s) \/ Deliver(s) \/ PassClose(s)

Spec == Init /\ [][Next]_vars
=============================================================================
