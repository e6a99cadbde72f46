------------------------------ MODULE Endpoint ------------------------------
(***************************************************************************)
(* A host and what is known of its addresses (src/utils/endpoint.cc and    *)
(* include/nekit/utils/endpoint.h).  An endpoint is a record; its methods  *)
(* are operators on it.  "addrs" stands for address_ or, for a domain, for *)
(* resolved_addresses_, the empty sequence for the null pointer: the       *)
(* system never resolves a name to no address.                             *)
(***************************************************************************)
EXTENDS Sequences

EndpointOf(type, host, addrs) == [type |-> type, host |-> host, addrs |-> addrs,
                                  resolved |-> FALSE, resolving |-> FALSE]

\* Endpoints of some hosts, which have some addresses or none.
EndpointRecords(hosts, lists) ==
  [type : {"Domain", "Address"}, host : hosts, addrs : lists \cup {<<>>},
   resolved : BOOLEAN, resolving : BOOLEAN]

IsAddressAvailable(e) == e.type = "Address" \/ e.addrs # <<>>

IsResolvable(e) == e.type = "Address" \/ ~(e.resolved /\ e.addrs = <<>>)

FrontAddress(e) == Head(e.addrs)

\* What Resolve asserts, and what it and ForceResolve do: the resolver is asked.
CanResolve(e)   == ~e.resolved /\ ~e.resolving
ForceResolve(e) == [e EXCEPT !.resolving = TRUE]

\* The resolver has answered, with addresses or (the empty sequence) an error.
Resolved(e, addrs) == [e EXCEPT !.resolving = FALSE, !.resolved = TRUE,
                                !.addrs = addrs]

\* A copy knows nothing of what its original has resolved.
Dup(e) == [e EXCEPT !.resolved = FALSE, !.resolving = FALSE,
                    !.addrs = IF e.type = "Domain" THEN <<>> ELSE e.addrs]
=============================================================================
