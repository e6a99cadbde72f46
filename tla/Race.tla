-------------------------------- MODULE Race --------------------------------
(***************************************************************************)
(* What a SpeedDataFlow promises, without timers or callbacks: of several  *)
(* ways to connect, the first to succeed is taken and the race is over; it *)
(* fails when, and only when, each of them has failed.                     *)
(***************************************************************************)

CONSTANT Branches

VARIABLES
  outcome,    \* "new", "racing", "success", "failure" or "destroyed"
  remaining,  \* branches that have not failed
  winner      \* the branch taken and kept, as a set of at most one

vars == <<outcome, remaining, winner>>

Init == outcome = "new" /\ remaining = Branches /\ winner = {}

Begin == /\ outcome = "new"
         /\ outcome' = "racing"
         /\ UNCHANGED <<remaining, winner>>

Lose(i) == /\ outcome = "racing" /\ i \in remaining
           /\ remaining' = remaining \ {i}
           /\ outcome' = IF remaining = {i} THEN "failure" ELSE "racing"
           /\ UNCHANGED winner

Win(i) == /\ outcome = "racing" /\ i \in remaining
          /\ outcome' = "success"
          /\ winner' = {i}
          /\ UNCHANGED remaining

\* The owner destroys the flow and the branch it has kept.
Abandon == /\ outcome # "destroyed"
           /\ outcome' = "destroyed"
           /\ winner' = {}
           /\ UNCHANGED remaining

Next == Begin \/ Abandon \/ \E i \in Branches : Lose(i) \/ Win(i)

Spec == Init /\ [][Next]_vars
=============================================================================
