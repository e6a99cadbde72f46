-------------------------- MODULE FlowStateMachine --------------------------
(***************************************************************************)
(* The state every data flow keeps about itself                            *)
(* (include/nekit/data_flow/flow_state_machine.h).  A flow is a record;    *)
(* each method of the class is an operator on it.  A method that starts    *)
(* with BOOST_ASSERT has a companion Can... predicate holding exactly what *)
(* it asserts: a module that calls the method records whether it held.     *)
(***************************************************************************)

Types  == {"Local", "Remote"}
States == {"Init", "Establishing", "Established", "Closing", "Closed"}

Flow == [type          : Types,
         state         : States,
         reading       : BOOLEAN,
         writing       : BOOLEAN,
         read_closed   : BOOLEAN,
         write_closing : BOOLEAN,
         write_closed  : BOOLEAN]

NewFlow(type) == [type          |-> type,
                  state         |-> "Init",
                  reading       |-> FALSE,
                  writing       |-> FALSE,
                  read_closed   |-> FALSE,
                  write_closing |-> FALSE,
                  write_closed  |-> FALSE]

\* The assertion of this name, unless what it asserts holds.
Check(name, holds) == IF holds THEN {} ELSE {name}

-----------------------------------------------------------------------------
(* Queries. *)

\* A local flow may be used while it is still negotiating with its peer.
Usable(f) == \/ f.state = "Established"
             \/ f.state = "Establishing" /\ f.type = "Local"

IsReadable(f) == /\ ~f.reading
                 /\ \/ Usable(f)
                    \/ f.state = "Closing" /\ ~f.read_closed

IsWritable(f) == /\ ~f.writing
                 /\ \/ Usable(f)
                    \/ /\ f.state = "Closing"
                       /\ ~f.write_closed /\ ~f.write_closing

\* Mutant: only the first of the two halves to end may be closed.
IsWriteClosableOnce(f) == f.state = "Established" /\ ~f.writing
IsWriteClosable(f) == IsWritable(f)

-----------------------------------------------------------------------------
(* Transitions, each after what it asserts. *)

CanConnectBegin(f) == f.state = "Init"
ConnectBegin(f)    == [f EXCEPT !.state = "Establishing"]

CanConnected(f) == f.state \in {"Init", "Establishing"}
Connected(f)    == [f EXCEPT !.state = "Established"]

CanReadBegin(f) == IsReadable(f)
ReadBegin(f)    == [f EXCEPT !.reading = TRUE]

CanReadEnd(f) == f.reading
ReadEnd(f)    == [f EXCEPT !.reading = FALSE]

CanReadClosed(f) == f.state \in {"Established", "Closing"} /\ ~f.read_closed
\* Mutant: the end of reading closes the flow, whatever the writing half does.
ReadClosedForBoth(f) == [f EXCEPT !.read_closed = TRUE,
                                  !.reading     = FALSE,
                                  !.state       = "Closed"]
ReadClosed(f) ==
  [f EXCEPT !.read_closed = TRUE,
            !.reading     = FALSE,
            !.state       = IF @ = "Established" THEN "Closing"
                            ELSE IF f.write_closed THEN "Closed" ELSE @]

CanWriteBegin(f) == IsWritable(f)
WriteBegin(f)    == [f EXCEPT !.writing = TRUE]

CanWriteEnd(f) == f.writing
WriteEnd(f)    == [f EXCEPT !.writing = FALSE]

CanWriteCloseBegin(f) ==
  f.state \in {"Established", "Closing"} /\ ~f.write_closed /\ ~f.write_closing
WriteCloseBegin(f) == [f EXCEPT !.state         = "Closing",
                                !.writing       = FALSE,
                                !.write_closing = TRUE]

CanWriteCloseEnd(f) == f.write_closing
WriteCloseEnd(f) ==
  [f EXCEPT !.write_closing = FALSE,
            !.write_closed  = TRUE,
            !.state         = IF f.read_closed THEN "Closed" ELSE @]

\* Errored() is Closed(): the class has no separate errored state.
Errored(f) == [f EXCEPT !.reading       = FALSE,
                        !.writing       = FALSE,
                        !.write_closing = FALSE,
                        !.write_closed  = TRUE,
                        !.read_closed   = TRUE,
                        !.state         = "Closed"]
=============================================================================
