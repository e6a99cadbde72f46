------------------------------ MODULE Answers -------------------------------
(***************************************************************************)
(* What every asynchronous call of the library promises its caller: it is  *)
(* answered at most once, never after it was cancelled through the         *)
(* Cancelable it returned, and never after what was asked is destroyed.    *)
(* SystemResolver, RuleManager and TcpConnector are shown to implement it. *)
(***************************************************************************)

CONSTANT Calls

VARIABLE call

Init == call = [c \in Calls |-> "idle"]

Ask(c) == call[c] = "idle" /\ call' = [call EXCEPT ![c] = "open"]

Answer(c) == call[c] = "open" /\ call' = [call EXCEPT ![c] = "answered"]

\* The owner of some calls cancels them, or is destroyed and does.  A call that
\* was dropped may still be cancelled, to no effect.
Cancel(C) == /\ \A c \in C : call[c] \in {"open", "dropped"}
             /\ call' = [c \in Calls |-> IF c \in C THEN "cancelled" ELSE call[c]]

\* What was asked is destroyed, and some calls with it.
Drop(C) == /\ \A c \in C : call[c] = "open"
           /\ call' = [c \in Calls |-> IF c \in C THEN "dropped" ELSE call[c]]

Next == \/ \E c \in Calls : Ask(c) \/ Answer(c)
        \/ \E C \in SUBSET Calls : Cancel(C) \/ Drop(C)

Spec == Init /\ [][Next]_call
=============================================================================
