---------------------------- MODULE TcpConnector ----------------------------
(***************************************************************************)
(* Connecting to a host (src/transport/tcp_connector.cc): by an address, a *)
(* list of addresses tried one after the other, or an endpoint, which may  *)
(* have to be resolved first and which several connectors may use.  The    *)
(* destructor of a connector does what cancelling does; that it also       *)
(* closes the socket only makes the silenced callback come sooner.         *)
(***************************************************************************)
EXTENDS Endpoint, Naturals

CONSTANTS
  Connectors,
  Targets,   \* sequences of addresses a connector may be made with
  Endpoints  \* endpoints the connectors may share

Addresses == UNION {{t[i] : i \in DOMAIN t} : t \in Targets}

\* There is always an address to try, and an endpoint made from an address has it.
ASSUME TargetsAssumption == Targets \subseteq Seq(Addresses) \ {<<>>}
Records == EndpointRecords({e.host : e \in Endpoints}, Targets)
ASSUME EndpointsAssumption ==
  Endpoints \subseteq {e \in Records : e.type = "Address" => e.addrs # <<>>}

VARIABLES
  via,       \* what a connector was made with: "addresses" or "endpoint"
  addrs,     \* addresses_, or address_ as a sequence of one
  ind,       \* current_ind_, from 1
  phase,     \* what a connector waits for, or how it ended
  canceled,  \* cancelable_
  ep,        \* the endpoint shared by the connectors made with one
  reach,     \* addresses that accept connections
  asked      \* history: resolutions asked for, and whether one could assert

connectorVars == <<via, addrs, ind, phase, canceled, ep, reach, asked>>

Phases == {"new", "resolving", "posted", "connecting", "connected", "failed", "silent"}

ConnectorTypeOK == /\ addrs \in [Connectors -> Targets \cup {<<>>}]
                   /\ phase \in [Connectors -> Phases]
                   /\ \A c \in Connectors : phase[c] \in {"connecting", "connected"} =>
                                              ind[c] \in DOMAIN addrs[c]

ConnectorInit == /\ via \in [Connectors -> {"addresses", "endpoint"}]
                 /\ addrs \in [Connectors -> Targets \cup {<<>>}]
                 /\ \A c \in Connectors : (addrs[c] = <<>>) <=> (via[c] = "endpoint")
                 /\ ind = [c \in Connectors |-> 1]
                 /\ phase = [c \in Connectors |-> "new"]
                 /\ canceled = [c \in Connectors |-> FALSE]
                 /\ ep \in {Dup(e) : e \in Endpoints}
                 /\ reach \in SUBSET Addresses
                 /\ asked = [times |-> 0, valid |-> TRUE]

Become(c, p) == phase' = [phase EXCEPT ![c] = p]

\* DoConnect, with the addresses as and the index i: the next attempt is begun,
\* or all of them have failed.
DoConnect(c, route, i) ==
  /\ addrs' = [addrs EXCEPT ![c] = route] /\ ind' = [ind EXCEPT ![c] = i]
  /\ Become(c, IF canceled[c] THEN "silent"
               ELSE IF i > Len(route) THEN "failed" ELSE "connecting")

-----------------------------------------------------------------------------

\* Connect without an endpoint, or with one whose addresses are known.
ConnectDirectly(c) ==
  /\ phase[c] = "new"
  /\ via[c] = "endpoint" => IsAddressAvailable(ep)
  /\ DoConnect(c, IF via[c] = "endpoint" THEN ep.addrs ELSE addrs[c], 1)
  /\ UNCHANGED <<via, canceled, ep, reach, asked>>

\* Connect with an endpoint known not to resolve: the old error is posted.
ConnectUnresolvable(c) ==
  /\ phase[c] = "new" /\ via[c] = "endpoint"
  /\ ~IsAddressAvailable(ep) /\ ~IsResolvable(ep)
  /\ Become(c, "posted")
  /\ UNCHANGED <<via, addrs, ind, canceled, ep, reach, asked>>

\* Connect with an endpoint to be resolved.  Whoever shares an endpoint must not
\* connect through it while it is being resolved: Resolve asserts it.
ConnectResolving(c) ==
  /\ phase[c] = "new" /\ via[c] = "endpoint" /\ ~ep.resolving
  /\ ~IsAddressAvailable(ep) /\ IsResolvable(ep)
  /\ asked' = [times |-> asked.times + 1, valid |-> asked.valid /\ CanResolve(ep)]
  /\ ep' = ForceResolve(ep)
  /\ Become(c, "resolving")
  /\ UNCHANGED <<via, addrs, ind, canceled, reach>>

\* Mutant: the callback is not told that its connector was cancelled.
ResolveEndsUnchecked(c) ==
  /\ phase[c] = "resolving"
  /\ \E route \in Targets \cup {<<>>} :
       /\ ep' = Resolved(ep, route)
       /\ IF route = <<>> THEN Become(c, "failed") /\ UNCHANGED <<addrs, ind>>
          ELSE DoConnect(c, route, 1)
  /\ UNCHANGED <<via, canceled, reach, asked>>

\* The endpoint's resolution ends, with an error or with addresses.
ResolveEnds(c) ==
  /\ phase[c] = "resolving"
  /\ \E route \in Targets \cup {<<>>} :
       /\ ep' = Resolved(ep, route)
       /\ IF canceled[c] \/ route = <<>>
          THEN /\ Become(c, IF canceled[c] THEN "silent" ELSE "failed")
               /\ UNCHANGED <<addrs, ind>>
          ELSE DoConnect(c, route, 1)
  /\ UNCHANGED <<via, canceled, reach, asked>>

\* Mutant: the old error is not reported.
ReportResolveErrorNever(c) ==
  /\ phase[c] = "posted"
  /\ Become(c, "silent")
  /\ UNCHANGED <<via, addrs, ind, canceled, ep, reach, asked>>

ReportResolveError(c) ==
  /\ phase[c] = "posted"
  /\ Become(c, IF canceled[c] THEN "silent" ELSE "failed")
  /\ UNCHANGED <<via, addrs, ind, canceled, ep, reach, asked>>

\* Mutant: a failed attempt ends it all.
AttemptFailsAtOnce(c) ==
  /\ phase[c] = "connecting" /\ addrs[c][ind[c]] \notin reach
  /\ Become(c, IF canceled[c] THEN "silent" ELSE "failed")
  /\ UNCHANGED <<via, addrs, ind, canceled, ep, reach, asked>>

\* async_connect fails: the next address is tried.
AttemptFails(c) ==
  /\ phase[c] = "connecting" /\ addrs[c][ind[c]] \notin reach
  /\ DoConnect(c, addrs[c], ind[c] + 1)
  /\ UNCHANGED <<via, canceled, ep, reach, asked>>

AttemptSucceeds(c) ==
  /\ phase[c] = "connecting" /\ addrs[c][ind[c]] \in reach
  /\ Become(c, IF canceled[c] THEN "silent" ELSE "connected")
  /\ UNCHANGED <<via, addrs, ind, canceled, ep, reach, asked>>

Cancel(c) == /\ phase[c] # "new" /\ ~canceled[c]
             /\ canceled' = [canceled EXCEPT ![c] = TRUE]
             /\ UNCHANGED <<via, addrs, ind, phase, ep, reach, asked>>

Completes(c) == \/ ResolveEnds(c) \/ ReportResolveError(c)
                \/ AttemptFails(c) \/ AttemptSucceeds(c)

ConnectorNext == \E c \in Connectors : \/ ConnectDirectly(c) \/ ConnectUnresolvable(c)
                                       \/ ConnectResolving(c) \/ Completes(c) \/ Cancel(c)

ConnectorSpec == ConnectorInit /\ [][ConnectorNext]_connectorVars

\* The resolver answers, the network accepts or refuses, the run loop turns.
ConnectorLiveSpec == ConnectorSpec /\ \A c \in Connectors : WF_connectorVars(Completes(c))

-----------------------------------------------------------------------------
(* Properties. *)

\* The connection made is to the first address that accepts one, and failure
\* after an attempt means that every address was tried and none does.
FirstThatAccepts ==
  \A c \in Connectors :
    /\ phase[c] = "connected" => addrs[c][ind[c]] \in reach
    /\ \A i \in DOMAIN addrs[c] : i < ind[c] => addrs[c][i] \notin reach
    /\ phase[c] = "failed" /\ addrs[c] # <<>> =>
         \A i \in DOMAIN addrs[c] : addrs[c][i] \notin reach

\* However many connectors use an endpoint, one after the other, its name is
\* asked for once and the outcome kept: a failure too, which all that come later
\* share, and Endpoint::Resolve never asserts.
AskedOnce == asked.times <= 1 /\ asked.valid

\* All of it, and the types.
ConnectorInv == ConnectorTypeOK /\ FirstThatAccepts /\ AskedOnce

\* A connector answers at most once and never after it was cancelled, whatever
\* it was waiting for.
CallOf(c) == IF phase[c] = "new" THEN "idle"
             ELSE IF phase[c] \in {"connected", "failed"} THEN "answered"
             ELSE IF canceled[c] THEN "cancelled" ELSE "open"
Promise == INSTANCE Answers WITH
             Calls <- Connectors, call <- [c \in Connectors |-> CallOf(c)]
ConnectPromise == Promise!Spec

\* Every attempt that is still wanted ends with an answer.
ConnectEnds == \A c \in Connectors :
  phase[c] \in {"resolving", "posted", "connecting"} ~>
    phase[c] \in {"connected", "failed"} \/ canceled[c]
=============================================================================
