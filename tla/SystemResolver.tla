-------------------------- MODULE SystemResolver ----------------------------
(***************************************************************************)
(* The resolver that asks the operating system                             *)
(* (src/utils/system_resolver.cc).  Names are resolved on threads of its   *)
(* own, which take requests from a second run loop and post what they find *)
(* to the run loop of the program.  The program's thread issues, cancels   *)
(* and receives; while it is in Stop it does nothing else, because Stop    *)
(* joins the threads.                                                      *)
(***************************************************************************)
EXTENDS Naturals, Sequences

CONSTANTS Requests,  \* calls of Resolve
          Threads    \* threads of thread_group_

ASSUME ThreadsAssumption == Threads # {}
ASSUME RequestsAssumption == "waiting" \notin Requests /\ "exited" \notin Requests

VARIABLES
  where,     \* where the closure of a request is
  canceled,  \* the flag behind the Cancelable a request returned
  queue,     \* closures posted to resolve_runloop_ and not taken
  thread,    \* what a thread does: a request, "waiting" or "exited"
  guarded,   \* whether work_guard_ still holds
  lifetime,  \* lifetime_ was cancelled
  owner      \* what the program's thread does to the resolver

vars == <<where, canceled, queue, thread, guarded, lifetime, owner>>

TypeOK ==
  /\ where \in [Requests -> {"idle", "queued", "resolving", "posted",
                             "called", "dropped"}]
  /\ canceled \in [Requests -> BOOLEAN]
  /\ queue \in Seq(Requests)
  /\ thread \in [Threads -> Requests \cup {"waiting", "exited"}]
  /\ guarded \in BOOLEAN /\ lifetime \in BOOLEAN
  /\ owner \in {"up", "stopping", "stopped", "destroying", "gone"}

Init == /\ where = [r \in Requests |-> "idle"]
        /\ canceled = [r \in Requests |-> FALSE]
        /\ queue = <<>>
        /\ thread = [t \in Threads |-> "waiting"]
        /\ guarded = TRUE /\ lifetime = FALSE
        /\ owner = "up"

Move(r, to) == where' = [where EXCEPT ![r] = to]

-----------------------------------------------------------------------------
(* The program's thread. *)

Resolve(r) == /\ owner \in {"up", "stopped"} /\ where[r] = "idle"
              /\ Move(r, "queued")
              /\ queue' = Append(queue, r)
              /\ UNCHANGED <<canceled, thread, guarded, lifetime, owner>>

\* A caller keeps the Cancelable, and may use it even when all is over.
Cancel(r) == /\ owner \in {"up", "stopped", "gone"}
             /\ where[r] # "idle" /\ ~canceled[r]
             /\ canceled' = [canceled EXCEPT ![r] = TRUE]
             /\ UNCHANGED <<where, queue, thread, guarded, lifetime, owner>>

\* Mutant: the posted answer does not look at the flag a second time.
DeliverUnchecked(r) ==
  /\ owner \in {"up", "stopped", "gone"} /\ where[r] = "posted"
  /\ Move(r, IF lifetime THEN "dropped" ELSE "called")
  /\ UNCHANGED <<canceled, queue, thread, guarded, lifetime, owner>>

\* The run loop runs the closure a thread has posted.  It outlives the
\* resolver.
Deliver(r) ==
  /\ owner \in {"up", "stopped", "gone"} /\ where[r] = "posted"
  /\ Move(r, IF canceled[r] \/ lifetime THEN "dropped" ELSE "called")
  /\ UNCHANGED <<canceled, queue, thread, guarded, lifetime, owner>>

Stop == /\ owner = "up"
        /\ owner' = "stopping" /\ guarded' = FALSE
        /\ UNCHANGED <<where, canceled, queue, thread, lifetime>>

\* The destructor stops too, which after Stop has nothing left to join.
Destroy == /\ owner \in {"up", "stopped"}
           /\ owner' = "destroying" /\ guarded' = FALSE
           /\ UNCHANGED <<where, canceled, queue, thread, lifetime>>

\* join_all() returns.
Joined == /\ owner \in {"stopping", "destroying"}
          /\ \A t \in Threads : thread[t] = "exited"
          /\ owner' = IF owner = "stopping" THEN "stopped" ELSE "gone"
          /\ lifetime' = (owner = "destroying")
          /\ UNCHANGED <<where, canceled, queue, thread, guarded>>

-----------------------------------------------------------------------------
(* The resolver's threads, each in io_context::run(). *)

\* A thread takes a closure and looks whether it is still wanted.  The flag is
\* a plain bool the other thread writes: what was just written may be missed.
Take(t) ==
  /\ thread[t] = "waiting" /\ queue # <<>>
  /\ LET r == Head(queue) IN
       \E seen \in {canceled[r], FALSE} :
         /\ Move(r, IF seen \/ lifetime THEN "dropped" ELSE "resolving")
         /\ thread' = IF seen \/ lifetime THEN thread
                      ELSE [thread EXCEPT ![t] = r]
  /\ queue' = Tail(queue)
  /\ UNCHANGED <<canceled, guarded, lifetime, owner>>

\* The system answers, with addresses or an error: either is posted.
Found(t) ==
  /\ thread[t] \in Requests
  /\ thread' = [thread EXCEPT ![t] = "waiting"]
  /\ Move(thread[t], "posted")
  /\ UNCHANGED <<canceled, queue, guarded, lifetime, owner>>

\* run() returns when nothing keeps it: no guard, no closure queued, none
\* being run by any thread.
Exit(t) ==
  /\ thread[t] = "waiting" /\ ~guarded
  /\ queue = <<>> /\ \A u \in Threads : thread[u] \notin Requests
  /\ thread' = [thread EXCEPT ![t] = "exited"]
  /\ UNCHANGED <<where, canceled, queue, guarded, lifetime, owner>>

-----------------------------------------------------------------------------

Next == \/ Stop \/ Destroy \/ Joined
        \/ \E r \in Requests : Resolve(r) \/ Cancel(r) \/ Deliver(r)
        \/ \E t \in Threads : Take(t) \/ Found(t) \/ Exit(t)

Spec == Init /\ [][Next]_vars

-----------------------------------------------------------------------------
(* Properties. *)

\* A request is held in one place: in the queue once, or by one thread, or it is
\* past both.  A closure run twice would answer twice.
OnePlace ==
  /\ \A i, j \in DOMAIN queue : queue[i] = queue[j] => i = j
  /\ \A r \in Requests :
       /\ (where[r] = "queued") <=> \E i \in DOMAIN queue : queue[i] = r
       /\ (where[r] = "resolving") <=> \E t \in Threads : thread[t] = r
  /\ \A t, u \in Threads : thread[t] = thread[u] /\ t # u => thread[t] \notin Requests

IInv == TypeOK /\ OnePlace

\* A request, seen as a call to the resolver.
CallOf(r) == IF where[r] = "idle" THEN "idle"
             ELSE IF where[r] = "called" THEN "answered"
             ELSE IF canceled[r] THEN "cancelled"
             ELSE IF lifetime THEN "dropped" ELSE "open"

\* Each call of Resolve is answered at most once, never after it was cancelled
\* and never after the resolver is gone, whichever thread wins the race.
Promise == INSTANCE Answers WITH Calls <- Requests, call <- [r \in Requests |-> CallOf(r)]
ResolvePromise == Promise!Spec
=============================================================================
