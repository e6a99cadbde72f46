------------------------------- MODULE Server -------------------------------
(***************************************************************************)
(* A running instance: listeners accept connections, each becomes a tunnel *)
(* that asks the manager's resolver for a name, and the whole is stopped   *)
(* and destroyed (src/instance.cc, src/proxy_manager.cc,                   *)
(* src/transport/tcp_listener.cc, over SystemResolver).  What a tunnel     *)
(* does is in Tunnel.tla; here it is what holds a request of the resolver. *)
(* A request and the tunnel that makes it have the same name.              *)
(***************************************************************************)
EXTENDS SystemResolver

CONSTANT Listeners

VARIABLES
  loop,      \* the run loop of the program
  ready,     \* ready_
  listener,  \* what async_accept of a listener is at
  backlog,   \* connections waiting in the kernel, and the listener of each
  tunnel     \* tunnel_manager_'s tunnels

serverVars == <<loop, ready, listener, backlog, tunnel>>
allVars == <<vars, serverVars>>

ServerInit == /\ Init
              /\ loop = "new" /\ ready = TRUE
              /\ listener = [l \in Listeners |-> "bound"]
              /\ backlog = [l \in Listeners |-> {}]
              /\ tunnel = [r \in Requests |-> "none"]

ServerTypeOK ==
  /\ TypeOK
  /\ loop \in {"new", "running", "stopped", "crashed", "destroyed"}
  /\ ready \in BOOLEAN
  /\ listener \in [Listeners -> {"bound", "accepting", "closed"}]
  /\ backlog \in [Listeners -> SUBSET Requests]
  /\ tunnel \in [Requests -> {"none", "open", "closed"}]

Arrived == UNION {backlog[l] : l \in Listeners} \cup {r \in Requests : tunnel[r] # "none"}

-----------------------------------------------------------------------------
(* The run loop. *)

\* Instance::Run: the managers' listeners begin to accept, the loop is entered.
Run == /\ loop = "new" /\ ready
       /\ loop' = "running"
       /\ listener' = [l \in Listeners |-> "accepting"]
       /\ UNCHANGED <<vars, ready, backlog, tunnel>>

\* A peer connects.
Arrive(l, r) == /\ listener[l] # "closed" /\ r \notin Arrived
                /\ backlog' = [backlog EXCEPT ![l] = @ \cup {r}]
                /\ UNCHANGED <<vars, loop, ready, listener, tunnel>>

\* Mutant: the listener accepts one connection and no more.
AcceptOnce(l, r) ==
  /\ loop = "running" /\ listener[l] = "accepting" /\ r \in backlog[l]
  /\ backlog' = [backlog EXCEPT ![l] = @ \ {r}]
  /\ tunnel' = [tunnel EXCEPT ![r] = "open"]
  /\ listener' = [listener EXCEPT ![l] = "bound"]
  /\ UNCHANGED <<vars, loop, ready>>

\* async_accept succeeds: the handler builds and opens a tunnel, then the
\* listener accepts again.
Accept(l, r) ==
  /\ loop = "running" /\ listener[l] = "accepting" /\ r \in backlog[l]
  /\ backlog' = [backlog EXCEPT ![l] = @ \ {r}]
  /\ tunnel' = [tunnel EXCEPT ![r] = "open"]
  /\ UNCHANGED <<vars, loop, ready, listener>>

\* async_accept fails (out of descriptors, say): the handler logs the error and
\* goes on to use the flow that is not there, which ends the program.
AcceptFails(l) ==
  /\ loop = "running" /\ listener[l] = "accepting" /\ backlog[l] # {}
  /\ loop' = "crashed"
  /\ UNCHANGED <<vars, ready, listener, backlog, tunnel>>

\* A tunnel needs a name resolved; at most once in its life here.
Ask(r) == /\ loop = "running" /\ tunnel[r] = "open" /\ Resolve(r)
          /\ UNCHANGED serverVars

Answered(r) == /\ loop = "running" /\ Deliver(r)
               /\ UNCHANGED serverVars

\* A tunnel is released: its endpoint cancels the resolution it waits for.
Close(r) == /\ loop = "running" /\ tunnel[r] = "open"
            /\ tunnel' = [tunnel EXCEPT ![r] = "closed"]
            /\ canceled' = [canceled EXCEPT ![r] = where[r] # "idle"]
            /\ UNCHANGED <<where, queue, thread, guarded, lifetime, owner,
                           loop, ready, listener, backlog>>

-----------------------------------------------------------------------------
(* Stopping and destroying, from the outside of every callback. *)

\* Instance::Stop: the loop is stopped, then the manager joins the resolver's
\* threads; no callback runs any more.
StopInstance == /\ loop = "running" /\ Stop
                /\ loop' = "stopped"
                /\ UNCHANGED <<ready, listener, backlog, tunnel>>

\* ... and then closes the listeners, and the instance cannot run again.
StopEnds == /\ owner = "stopping" /\ Joined
            /\ listener' = [l \in Listeners |-> "closed"]
            /\ backlog' = [l \in Listeners |-> {}]
            /\ ready' = FALSE
            /\ UNCHANGED <<loop, tunnel>>

\* Mutant: the tunnels are destroyed after the resolver they use.
DestroyInstanceResolverFirst ==
  /\ loop \in {"new", "stopped"} /\ owner \in {"up", "stopped"}
  /\ Destroy
  /\ loop' = "destroyed"
  /\ listener' = [l \in Listeners |-> "closed"]
  /\ backlog' = [l \in Listeners |-> {}]
  /\ UNCHANGED <<ready, tunnel>>

\* ~Instance, when the loop is left: the tunnels go first, then the listeners,
\* then the resolver, whose destructor joins its threads once more.
DestroyInstance ==
  /\ loop \in {"new", "stopped"} /\ owner \in {"up", "stopped"}
  /\ tunnel' = [r \in Requests |-> IF tunnel[r] = "open" THEN "closed" ELSE tunnel[r]]
  /\ canceled' = [r \in Requests |-> canceled[r] \/ (tunnel[r] = "open" /\ where[r] # "idle")]
  /\ listener' = [l \in Listeners |-> "closed"]
  /\ backlog' = [l \in Listeners |-> {}]
  /\ owner' = "destroying" /\ guarded' = FALSE
  /\ loop' = "destroyed"
  /\ UNCHANGED <<where, queue, thread, lifetime, ready>>

DestroyEnds == owner = "destroying" /\ Joined /\ UNCHANGED serverVars

\* The resolver's threads go their own way, unless the program is gone.
ThreadStep(t) == /\ loop # "crashed"
                 /\ Take(t) \/ Found(t) \/ Exit(t)
                 /\ UNCHANGED serverVars

ServerNext ==
  \/ Run \/ StopInstance \/ StopEnds \/ DestroyInstance \/ DestroyEnds
  \/ \E l \in Listeners : AcceptFails(l) \/ \E r \in Requests : Arrive(l, r) \/ Accept(l, r)
  \/ \E r \in Requests : Ask(r) \/ Answered(r) \/ Close(r)
  \/ \E t \in Threads : ThreadStep(t)

ServerSpec == ServerInit /\ [][ServerNext]_allVars

\* The run loop and the threads are scheduled; the system answers.
ServerFairness ==
  /\ WF_allVars(StopEnds) /\ WF_allVars(DestroyEnds)
  /\ \A l \in Listeners, r \in Requests : WF_allVars(Accept(l, r))
  /\ \A r \in Requests : WF_allVars(Answered(r))
  /\ \A t \in Threads : WF_allVars(ThreadStep(t))

LiveServer == ServerSpec /\ ServerFairness

-----------------------------------------------------------------------------
(* Properties. *)

\* Stopping and destroying leave nothing behind: when Stop has returned no
\* thread is left and no listener open, and a tunnel never outlives the
\* resolver its endpoints point to, nor a thread the resolver.
StopsClean ==
  /\ owner \in {"stopped", "gone"} =>
       /\ \A t \in Threads : thread[t] = "exited"
       /\ \A l \in Listeners : listener[l] = "closed"
  /\ owner \in {"destroying", "gone"} => \A r \in Requests : tunnel[r] # "open"

\* The variables have their types, a request is in one place, and stopping is clean.
ServerInv == ServerTypeOK /\ OnePlace /\ StopsClean

\* While the instance runs and no accept has failed, every connection becomes a
\* tunnel and every question is answered; and once asked to, it stops.
Serves ==
  /\ \A r \in Requests :
       /\ r \in Arrived /\ loop = "running" ~> tunnel[r] # "none" \/ loop # "running"
       /\ where[r] = "queued" /\ loop = "running" ~>
            where[r] = "called" \/ tunnel[r] = "closed" \/ loop # "running"
  /\ owner \in {"stopping", "destroying"} ~> owner \in {"stopped", "gone"}
=============================================================================
