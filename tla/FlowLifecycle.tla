--------------------------- MODULE FlowLifecycle ----------------------------
(***************************************************************************)
(* The life of one data flow as the README's "State Transition of          *)
(* DataFlow" describes it: it is established once, each direction closes   *)
(* once, it is Closing as soon as a direction is closed or asked to close, *)
(* Closed when both are, and an error ends it from any state.  (The code   *)
(* has no Errored state apart from Closed.)                                *)
(***************************************************************************)
VARIABLES state, readOpen, writeOpen

vars == <<state, readOpen, writeOpen>>

Init == state = "Init" /\ readOpen = TRUE /\ writeOpen = TRUE

Begin == /\ state = "Init"
         /\ state' = "Establishing"
         /\ UNCHANGED <<readOpen, writeOpen>>

Establish == /\ state = "Establishing"
             /\ state' = "Established"
             /\ UNCHANGED <<readOpen, writeOpen>>

RequestClose == /\ state = "Established"
                /\ state' = "Closing"
                /\ UNCHANGED <<readOpen, writeOpen>>

ReadCloses == /\ state \in {"Established", "Closing"}
              /\ readOpen /\ readOpen' = FALSE
              /\ state' = IF writeOpen THEN "Closing" ELSE "Closed"
              /\ UNCHANGED writeOpen

\* Writing is closed by request: the flow is Closing before it completes.
WriteCloses == /\ state = "Closing"
               /\ writeOpen /\ writeOpen' = FALSE
               /\ state' = IF readOpen THEN "Closing" ELSE "Closed"
               /\ UNCHANGED readOpen

Error == /\ state # "Closed"
         /\ state' = "Closed"
         /\ readOpen' = FALSE
         /\ writeOpen' = FALSE

Next == Begin \/ Establish \/ RequestClose \/ ReadCloses \/ WriteCloses \/ Error

Spec == Init /\ [][Next]_vars
=============================================================================
