---------------------------- MODULE ServerProofs ----------------------------
(***************************************************************************)
(* For any requests, threads and listeners: the resolver loses no request  *)
(* and runs none twice, stopping leaves nothing behind, and the resolver   *)
(* keeps the promise of Answers.tla.                                       *)
(***************************************************************************)
EXTENDS Server, TLAPS

-----------------------------------------------------------------------------
(* The resolver. *)

Places == TypeOK /\ OnePlace

\* The queue after a closure is posted, and after one is taken.
LEMMA Appended ==
  ASSUME NEW r \in Requests, queue \in Seq(Requests)
  PROVE  /\ Append(queue, r) \in Seq(Requests)
         /\ Len(Append(queue, r)) = Len(queue) + 1 /\ Len(queue) \in Nat
         /\ DOMAIN queue = 1..Len(queue)
         /\ DOMAIN Append(queue, r) = 1..Len(queue) + 1
         /\ Append(queue, r)[Len(queue) + 1] = r
         /\ \A i \in 1..Len(queue) : Append(queue, r)[i] = queue[i]
OBVIOUS

LEMMA Taken ==
  ASSUME queue \in Seq(Requests), queue # <<>>
  PROVE  /\ Tail(queue) \in Seq(Requests) /\ Head(queue) = queue[1]
         /\ Head(queue) \in Requests
         /\ Len(queue) \in Nat /\ Len(queue) >= 1 /\ Len(Tail(queue)) = Len(queue) - 1
         /\ DOMAIN queue = 1..Len(queue) /\ DOMAIN Tail(queue) = 1..Len(queue) - 1
         /\ \A i \in 1..Len(queue) - 1 : Tail(queue)[i] = queue[i + 1]
OBVIOUS

LEMMA ResolveStep == ASSUME Places, NEW r \in Requests, Resolve(r) PROVE Places'
<1> USE DEF Resolve, Move, Places
<1>0. queue' = Append(queue, r) /\ where' = [where EXCEPT ![r] = "queued"] /\ where[r] = "idle"
  OBVIOUS
<1>1. TypeOK'
  <2>1. queue' \in Seq(Requests)
    BY Appended DEF TypeOK
  <2> QED
    BY <2>1 DEF TypeOK
<1>2. /\ Len(queue) \in Nat /\ DOMAIN queue = 1..Len(queue)
      /\ DOMAIN queue' = 1..Len(queue) + 1 /\ queue'[Len(queue) + 1] = r
      /\ \A i \in 1..Len(queue) : queue'[i] = queue[i]
  BY <1>0, Appended DEF TypeOK
<1>3. \A i \in DOMAIN queue : queue[i] # r
  BY <1>0, <1>2 DEF OnePlace, TypeOK
<1>4. \A i, j \in DOMAIN queue' : queue'[i] = queue'[j] => i = j
  <2>1. \A i, j \in 1..Len(queue) : queue[i] = queue[j] => i = j
    BY <1>2 DEF OnePlace
  <2> QED
    BY <1>2, <1>3, <2>1
<1>5. ASSUME NEW d \in Requests
      PROVE  (where'[d] = "queued") <=> \E i \in DOMAIN queue' : queue'[i] = d
  <2>1. where'[d] = IF d = r THEN "queued" ELSE where[d]
    BY <1>0 DEF TypeOK
  <2>2. (\E i \in DOMAIN queue' : queue'[i] = d) <=> d = r \/ \E i \in DOMAIN queue : queue[i] = d
    BY <1>2
  <2> QED
    BY <2>1, <2>2 DEF OnePlace
<1>6. ASSUME NEW d \in Requests
      PROVE  (where'[d] = "resolving") <=> \E t \in Threads : thread'[t] = d
  BY <1>0 DEF OnePlace, TypeOK
<1> QED
  BY <1>1, <1>4, <1>5, <1>6 DEF OnePlace

LEMMA TakeStep == ASSUME Places, NEW t \in Threads, Take(t) PROVE Places'
<1> USE DEF Places
<1> DEFINE r == Head(queue)
<1>0. /\ queue # <<>> /\ queue' = Tail(queue) /\ thread[t] = "waiting"
      /\ r \in Requests
  BY Taken DEF TypeOK, Take
<1>1. \/ where' = [where EXCEPT ![r] = "dropped"] /\ thread' = thread
      \/ where' = [where EXCEPT ![r] = "resolving"] /\ thread' = [thread EXCEPT ![t] = r]
  BY DEF Take, Move
<1>2. /\ Len(queue) \in Nat /\ Len(queue) >= 1 /\ DOMAIN queue = 1..Len(queue)
      /\ DOMAIN queue' = 1..Len(queue) - 1 /\ queue[1] = r /\ queue' \in Seq(Requests)
      /\ \A i \in 1..Len(queue) - 1 : queue'[i] = queue[i + 1]
  BY <1>0, Taken DEF TypeOK
<1> HIDE DEF r
<1>3. TypeOK'
  BY <1>0, <1>1, <1>2 DEF TypeOK, Take
<1>4. \A i, j \in 1..Len(queue) : queue[i] = queue[j] => i = j
  BY <1>2 DEF OnePlace
<1>5. \A i, j \in DOMAIN queue' : queue'[i] = queue'[j] => i = j
  BY <1>2, <1>4
<1>6. ASSUME NEW d \in Requests
      PROVE  /\ (where'[d] = "queued") <=> \E i \in DOMAIN queue' : queue'[i] = d
             /\ (where'[d] = "resolving") <=> \E u \in Threads : thread'[u] = d
  <2>1. CASE d = r
    <3>1. ~ \E i \in DOMAIN queue' : queue'[i] = r
      BY <1>2, <1>4
    <3>2. where[r] = "queued" /\ where'[r] \in {"dropped", "resolving"}
      BY <1>0, <1>1, <1>2 DEF OnePlace, TypeOK
    <3>3. ~ \E u \in Threads : thread[u] = r
      BY <1>0, <3>2 DEF OnePlace
    <3> QED
      BY <1>0, <1>1, <2>1, <3>1, <3>2, <3>3 DEF TypeOK
  <2>2. CASE d # r
    <3>1. where'[d] = where[d]
      BY <1>1, <2>2 DEF TypeOK
    <3>2. (\E i \in DOMAIN queue' : queue'[i] = d) <=> \E i \in DOMAIN queue : queue[i] = d
      <4>1. ASSUME NEW i \in DOMAIN queue, queue[i] = d PROVE \E k \in DOMAIN queue' : queue'[k] = d
        <5>1. i # 1 /\ i - 1 \in DOMAIN queue'
          BY <1>2, <2>2, <4>1
        <5> QED
          BY <1>2, <4>1, <5>1
      <4> QED
        BY <1>2, <4>1
    <3>3. (\E u \in Threads : thread'[u] = d) <=> \E u \in Threads : thread[u] = d
      BY <1>0, <1>1, <2>2, RequestsAssumption DEF TypeOK
    <3> QED
      BY <3>1, <3>2, <3>3 DEF OnePlace
  <2> QED
    BY <2>1, <2>2
<1>7. \A u, v \in Threads : thread'[u] = thread'[v] /\ u # v => thread'[u] \notin Requests
  <2>1. where[r] = "queued"
    BY <1>0, <1>2 DEF OnePlace
  <2>2. \A u \in Threads : thread[u] # r
    BY <1>0, <2>1 DEF OnePlace
  <2> QED
    BY <1>0, <1>1, <2>2 DEF OnePlace, TypeOK
<1> QED
  BY <1>3, <1>5, <1>6, <1>7 DEF OnePlace

LEMMA FoundStep == ASSUME Places, NEW t \in Threads, Found(t) PROVE Places'
<1> USE DEF Places
<1> DEFINE r == thread[t]
<1>0. /\ r \in Requests /\ where' = [where EXCEPT ![r] = "posted"]
      /\ thread' = [thread EXCEPT ![t] = "waiting"] /\ queue' = queue
      /\ UNCHANGED <<canceled, guarded, lifetime, owner>> /\ thread[t] = r
  BY DEF Found, Move
<1> HIDE DEF r
<1>1. TypeOK'
  BY <1>0 DEF TypeOK
<1>2. where[r] = "resolving"
  BY <1>0 DEF OnePlace
<1>3. \A u \in Threads : u # t => thread[u] # r
  BY <1>0 DEF OnePlace
<1>4. ASSUME NEW d \in Requests
      PROVE  /\ (where'[d] = "queued") <=> \E i \in DOMAIN queue' : queue'[i] = d
             /\ (where'[d] = "resolving") <=> \E u \in Threads : thread'[u] = d
  <2>1. CASE d = r
    <3>1. where'[d] = "posted"
      BY <1>0, <2>1 DEF TypeOK
    <3>2. \A u \in Threads : thread'[u] # d
      BY <1>0, <1>3, <2>1, RequestsAssumption DEF TypeOK
    <3> QED
      BY <1>0, <1>2, <2>1, <3>1, <3>2 DEF OnePlace
  <2>2. CASE d # r
    <3>1. where'[d] = where[d]
      BY <1>0, <2>2 DEF TypeOK
    <3>2. (\E u \in Threads : thread'[u] = d) <=> \E u \in Threads : thread[u] = d
      BY <1>0, <2>2, RequestsAssumption DEF TypeOK
    <3> QED
      BY <1>0, <3>1, <3>2 DEF OnePlace
  <2> QED
    BY <2>1, <2>2
<1>5. \A u, v \in Threads : thread'[u] = thread'[v] /\ u # v => thread'[u] \notin Requests
  BY <1>0, RequestsAssumption DEF OnePlace, TypeOK
<1> QED
  BY <1>0, <1>1, <1>4, <1>5 DEF OnePlace

LEMMA ExitStep == ASSUME Places, NEW t \in Threads, Exit(t) PROVE Places'
<1> USE DEF Exit, Places
<1>1. TypeOK'
  BY DEF TypeOK
<1>2. \A d \in Requests : (\E u \in Threads : thread'[u] = d) <=> \E u \in Threads : thread[u] = d
  BY RequestsAssumption DEF TypeOK
<1>3. \A u, v \in Threads : thread'[u] = thread'[v] /\ u # v => thread'[u] \notin Requests
  BY RequestsAssumption DEF OnePlace, TypeOK
<1> QED
  BY <1>1, <1>2, <1>3 DEF OnePlace

\* A closure that was posted is run: the rest stays.
LEMMA DeliverStep == ASSUME Places, NEW r \in Requests, Deliver(r) PROVE Places'
<1> USE DEF Deliver, Move, Places
<1>1. TypeOK'
  BY DEF TypeOK
<1>2. \A d \in Requests : /\ (where'[d] = "queued") <=> (where[d] = "queued")
                          /\ (where'[d] = "resolving") <=> (where[d] = "resolving")
  BY DEF TypeOK
<1> QED
  BY <1>1, <1>2 DEF OnePlace

\* Flags and the owner's progress are nothing to the places.
LEMMA OwnerStep ==
  ASSUME Places, UNCHANGED <<where, queue, thread>>, canceled' \in [Requests -> BOOLEAN],
         guarded' \in BOOLEAN, lifetime' \in BOOLEAN,
         owner' \in {"up", "stopping", "stopped", "destroying", "gone"}
  PROVE  Places'
BY DEF Places, TypeOK, OnePlace

-----------------------------------------------------------------------------
(* The instance. *)

\* How far the program, the resolver and its threads are.
Order ==
  /\ owner = "up" => loop \in {"new", "running", "crashed"}
  /\ owner \in {"stopping", "stopped"} => loop = "stopped"
  /\ owner \in {"destroying", "gone"} => /\ loop = "destroyed"
                                         /\ \A l \in Listeners : listener[l] = "closed"
                                         /\ \A r \in Requests : tunnel[r] # "open"
  /\ owner = "stopped" => \A l \in Listeners : listener[l] = "closed"
  /\ owner \in {"stopped", "gone"} => \A t \in Threads : thread[t] = "exited"
  /\ lifetime <=> owner = "gone"
  /\ \A r \in Requests : canceled[r] => where[r] # "idle"

ServerVarsOK ==
  /\ loop \in {"new", "running", "stopped", "crashed", "destroyed"}
  /\ ready \in BOOLEAN
  /\ listener \in [Listeners -> {"bound", "accepting", "closed"}]
  /\ backlog \in [Listeners -> SUBSET Requests]
  /\ tunnel \in [Requests -> {"none", "open", "closed"}]

ServerIInv == Places /\ ServerVarsOK /\ Order

LEMMA InitInv == ServerInit => ServerIInv
<1> SUFFICES ASSUME ServerInit PROVE ServerIInv
  OBVIOUS
<1> USE DEF ServerInit, Init
<1>1. TypeOK
  <2>1. queue \in Seq(Requests)
    OBVIOUS
  <2>2. thread \in [Threads -> Requests \cup {"waiting", "exited"}]
    OBVIOUS
  <2>3. canceled \in [Requests -> BOOLEAN]
    OBVIOUS
  <2> QED
    BY <2>1, <2>2, <2>3 DEF TypeOK
<1>2. OnePlace
  BY RequestsAssumption DEF OnePlace
<1>3. ServerVarsOK
  BY DEF ServerVarsOK
<1>4. Order
  BY DEF Order
<1> QED
  BY <1>1, <1>2, <1>3, <1>4 DEF ServerIInv, Places

\* What the steps of the program's own thread do to the resolver.
LEMMA LoopSteps ==
  ASSUME ServerIInv, NEW r \in Requests, Ask(r) \/ Answered(r) \/ Close(r)
  PROVE  ServerIInv'
<1> USE DEF ServerIInv
<1>1. ASSUME Ask(r) PROVE ServerIInv'
  <2>1. Places'
    BY <1>1, ResolveStep DEF Ask
  <2>2. Order'
    BY <1>1 DEF Ask, Resolve, Move, serverVars, Order, Places, TypeOK
  <2> QED
    BY <1>1, <2>1, <2>2 DEF Ask, serverVars, ServerVarsOK
<1>2. ASSUME Answered(r) PROVE ServerIInv'
  <2>1. Places'
    BY <1>2, DeliverStep DEF Answered
  <2>2. Order'
    BY <1>2 DEF Answered, Deliver, Move, serverVars, Order, Places, TypeOK
  <2> QED
    BY <1>2, <2>1, <2>2 DEF Answered, serverVars, ServerVarsOK
<1>3. ASSUME Close(r) PROVE ServerIInv'
  <2>1. Places'
    BY <1>3, OwnerStep DEF Close, Places, TypeOK
  <2>2. Order'
    BY <1>3 DEF Close, Order, Places, TypeOK, ServerVarsOK
  <2> QED
    BY <1>3, <2>1, <2>2 DEF Close, ServerVarsOK
<1> QED
  BY <1>1, <1>2, <1>3

LEMMA ThreadSteps == ASSUME ServerIInv, NEW t \in Threads, ThreadStep(t) PROVE ServerIInv'
<1> USE DEF ServerIInv
<1>1. Places'
  BY TakeStep, FoundStep, ExitStep DEF ThreadStep
<1>2. ServerVarsOK'
  BY DEF ThreadStep, serverVars, ServerVarsOK
<1>3. Order'
  <2>1. UNCHANGED <<loop, listener, tunnel, owner, lifetime, canceled>>
    BY DEF ThreadStep, serverVars, Take, Found, Exit
  <2>2. owner \in {"stopped", "gone"} => \A u \in Threads : thread'[u] = "exited"
    BY RequestsAssumption DEF Order, ThreadStep, Take, Found, Exit, Places, TypeOK
  <2>3. \A r \in Requests : where[r] # "idle" => where'[r] # "idle"
    BY Taken DEF ThreadStep, Take, Found, Exit, Move, Places, TypeOK
  <2> QED
    BY <2>1, <2>2, <2>3 DEF Order
<1> QED
  BY <1>1, <1>2, <1>3

\* What the program does from outside of every callback, and the listeners.
LEMMA OtherSteps ==
  ASSUME ServerIInv,
         \/ Run \/ StopInstance \/ StopEnds \/ DestroyInstance \/ DestroyEnds
         \/ \E l \in Listeners : AcceptFails(l) \/ \E r \in Requests : Arrive(l, r) \/ Accept(l, r)
         \/ UNCHANGED allVars
  PROVE  ServerIInv'
<1> USE DEF ServerIInv
<1>0. TypeOK
  BY DEF Places
<1>1. CASE Run
  BY <1>1 DEF Run, vars, Places, TypeOK, OnePlace, ServerVarsOK, Order
<1>2. CASE StopInstance
  <2>1. Places'
    BY <1>0, <1>2, OwnerStep DEF StopInstance, Stop, TypeOK
  <2>2. ServerVarsOK' /\ Order'
    BY <1>2 DEF StopInstance, Stop, ServerVarsOK, Order
  <2> QED
    BY <2>1, <2>2
<1>3. CASE StopEnds
  <2>1. /\ owner = "stopping" /\ owner' = "stopped" /\ ~lifetime' /\ loop' = loop
        /\ \A t \in Threads : thread'[t] = "exited"
        /\ UNCHANGED <<where, canceled, queue, thread, guarded, tunnel>>
        /\ listener' = [l \in Listeners |-> "closed"]
        /\ backlog' = [l \in Listeners |-> {}] /\ ready' = FALSE
    BY <1>3 DEF StopEnds, Joined
  <2>2. Places'
    BY <1>0, <1>3, <2>1, OwnerStep DEF StopEnds, Joined, TypeOK
  <2>3. ServerVarsOK'
    BY <2>1 DEF ServerVarsOK
  <2>4. Order'
    BY <2>1 DEF Order
  <2> QED
    BY <2>2, <2>3, <2>4
<1>4. CASE DestroyInstance
  <2>1. canceled' \in [Requests -> BOOLEAN]
    <3>1. \A r \in Requests : canceled[r] \in BOOLEAN
      BY <1>0 DEF TypeOK
    <3>2. \A r \in Requests : (canceled[r] \/ (tunnel[r] = "open" /\ where[r] # "idle")) \in BOOLEAN
      OBVIOUS
    <3> QED
      BY <1>4, <3>1, <3>2 DEF DestroyInstance
  <2>2. Places'
    BY <1>0, <1>4, <2>1, OwnerStep DEF DestroyInstance, TypeOK
  <2>3. tunnel' \in [Requests -> {"none", "open", "closed"}]
        /\ \A r \in Requests : tunnel'[r] # "open"
    BY <1>4 DEF DestroyInstance, ServerVarsOK
  <2>4. ServerVarsOK'
    BY <1>4, <2>3 DEF DestroyInstance, ServerVarsOK
  <2>5. \A r \in Requests : canceled'[r] => where'[r] # "idle"
    BY <1>4 DEF DestroyInstance, Order
  <2>6. /\ owner' = "destroying" /\ loop' = "destroyed" /\ lifetime' = lifetime
        /\ owner \in {"up", "stopped"} /\ \A l \in Listeners : listener'[l] = "closed"
    BY <1>4 DEF DestroyInstance
  <2>7. Order'
    BY <2>3, <2>5, <2>6 DEF Order
  <2> QED
    BY <2>2, <2>4, <2>7
<1>5. CASE DestroyEnds
  <2>1. /\ owner = "destroying" /\ owner' = "gone" /\ lifetime'
        /\ \A t \in Threads : thread'[t] = "exited"
        /\ UNCHANGED <<where, canceled, queue, thread, guarded>> /\ UNCHANGED serverVars
    BY <1>5 DEF DestroyEnds, Joined
  <2>2. Places'
    BY <1>0, <1>5, <2>1, OwnerStep DEF DestroyEnds, Joined, TypeOK
  <2>3. ServerVarsOK' /\ Order'
    BY <2>1 DEF ServerVarsOK, Order, serverVars
  <2> QED
    BY <2>2, <2>3
<1>6. ASSUME NEW l \in Listeners, AcceptFails(l) PROVE ServerIInv'
  <2>1. UNCHANGED vars
    BY <1>6 DEF AcceptFails
  <2>2. Places'
    BY <2>1 DEF vars, Places, TypeOK, OnePlace
  <2> QED
    BY <1>6, <2>1, <2>2 DEF AcceptFails, vars, ServerVarsOK, Order
<1>7. ASSUME NEW l \in Listeners, NEW r \in Requests, Arrive(l, r) \/ Accept(l, r)
      PROVE  ServerIInv'
  <2>1. UNCHANGED vars /\ loop' = loop /\ ready' = ready /\ listener' = listener
    BY <1>7 DEF Arrive, Accept
  <2>2. Places'
    BY <2>1 DEF vars, Places, TypeOK, OnePlace
  <2>3. backlog' \in [Listeners -> SUBSET Requests]
    BY <1>7 DEF Arrive, Accept, ServerVarsOK
  <2>4. tunnel' \in [Requests -> {"none", "open", "closed"}]
    BY <1>7 DEF Arrive, Accept, ServerVarsOK
  <2>5. loop # "running" => tunnel' = tunnel
    BY <1>7 DEF Arrive, Accept
  <2>6. Order'
    BY <2>1, <2>5 DEF vars, Order
  <2> QED
    BY <2>1, <2>2, <2>3, <2>4, <2>6 DEF ServerVarsOK
<1>8. CASE UNCHANGED allVars
  BY <1>8 DEF allVars, vars, serverVars, Places, TypeOK, OnePlace, ServerVarsOK, Order
<1> QED
  BY <1>1, <1>2, <1>3, <1>4, <1>5, <1>6, <1>7, <1>8

LEMMA StepInv == ServerIInv /\ [ServerNext]_allVars => ServerIInv'
BY LoopSteps, ThreadSteps, OtherSteps DEF ServerNext

\* For any number of requests, threads and listeners, whatever the order of the
\* threads' steps (resolve_runloop_, thread_group_, Stop and the destructors).
THEOREM Inductive == ServerSpec => []ServerIInv
BY InitInv, StepInv, PTL DEF ServerSpec

\* A request is in one place, and when the instance has stopped or is being
\* destroyed nothing is left that would use what is gone (Instance::Stop,
\* ProxyManager::Stop, SystemResolver::Stop and their destructors).
THEOREM ServerSafe == ServerSpec => []ServerInv
<1>1. ServerIInv => ServerInv
  BY DEF ServerIInv, Places, ServerVarsOK, Order, ServerInv, ServerTypeOK, StopsClean
<1> QED
  BY <1>1, Inductive, PTL

-----------------------------------------------------------------------------
(* The resolver keeps the promise of Answers.tla. *)

Questions == [r \in Requests |-> CallOf(r)]

\* One call changes, in a way the promise allows.
LEMMA QuestionStep ==
  ASSUME NEW r \in Requests, \A d \in Requests \ {r} : CallOf(d)' = CallOf(d),
         \/ CallOf(r)' = CallOf(r)
         \/ CallOf(r) = "idle" /\ CallOf(r)' = "open"
         \/ CallOf(r) = "open" /\ CallOf(r)' = "answered"
         \/ CallOf(r) \in {"open", "dropped"} /\ CallOf(r)' = "cancelled"
  PROVE  [Promise!Next]_Questions
<1>0. Questions' = [Questions EXCEPT ![r] = CallOf(r)'] /\ Questions[r] = CallOf(r)
  BY DEF Questions
<1>1. CASE CallOf(r)' = CallOf(r)
  BY <1>1 DEF Questions
<1>2. CASE CallOf(r) = "idle" /\ CallOf(r)' = "open"
  <2>1. Promise!Ask(r)
    BY <1>0, <1>2 DEF Promise!Ask, Questions
  <2> QED
    BY <2>1 DEF Promise!Next
<1>3. CASE CallOf(r) = "open" /\ CallOf(r)' = "answered"
  <2>1. Promise!Answer(r)
    BY <1>0, <1>3 DEF Promise!Answer, Questions
  <2> QED
    BY <2>1 DEF Promise!Next
<1>4. CASE CallOf(r) \in {"open", "dropped"} /\ CallOf(r)' = "cancelled"
  <2>1. Promise!Cancel({r})
    BY <1>4 DEF Promise!Cancel
  <2> QED
    BY <2>1 DEF Promise!Next
<1> QED
  BY <1>1, <1>2, <1>3, <1>4

\* The threads are nothing to the caller.
LEMMA ThreadsUnseen ==
  ASSUME ServerIInv, NEW t \in Threads, ThreadStep(t)
  PROVE  [Promise!Next]_Questions
<1>1. UNCHANGED <<canceled, lifetime>> /\ Places /\ TypeOK
  BY DEF ThreadStep, Take, Found, Exit, ServerIInv, Places
<1>2. ASSUME NEW r \in Requests
      PROVE  \/ where'[r] = where[r]
             \/ where[r] \notin {"idle", "called"} /\ where'[r] \notin {"idle", "called"}
  <2>1. CASE Take(t)
    <3>1. queue # <<>> /\ Head(queue) \in Requests /\ where[Head(queue)] = "queued"
      BY <1>1, <2>1, Taken DEF Take, OnePlace, Places, TypeOK
    <3> QED
      BY <1>1, <2>1, <3>1 DEF Take, Move, TypeOK
  <2>2. CASE Found(t)
    <3>1. thread[t] \in Requests /\ where[thread[t]] = "resolving"
      BY <1>1, <2>2 DEF Found, OnePlace, Places
    <3> QED
      BY <1>1, <2>2, <3>1 DEF Found, Move, TypeOK
  <2>3. CASE Exit(t)
    BY <2>3 DEF Exit
  <2> QED
    BY <2>1, <2>2, <2>3 DEF ThreadStep
<1>3. \A r \in Requests : CallOf(r)' = CallOf(r)
  BY <1>1, <1>2 DEF CallOf
<1> QED
  BY <1>3 DEF Questions

\* Several calls end at once when the instance is destroyed.
LEMMA DestroySteps ==
  ASSUME ServerIInv, DestroyInstance \/ DestroyEnds
  PROVE  [Promise!Next]_Questions
<1>1. TypeOK /\ Order
  BY DEF ServerIInv, Places
<1>2. CASE DestroyInstance
  <2>1. PICK C \in SUBSET Requests : \A r \in Requests :
          r \in C <=> CallOf(r) \in {"open", "dropped"} /\ tunnel[r] = "open"
    <3> DEFINE dead == {r \in Requests : CallOf(r) \in {"open", "dropped"} /\ tunnel[r] = "open"}
    <3>1. dead \in SUBSET Requests /\ \A r \in Requests :
            r \in dead <=> CallOf(r) \in {"open", "dropped"} /\ tunnel[r] = "open"
      OBVIOUS
    <3> QED
      BY <3>1
  <2>2. \A r \in Requests : CallOf(r)' = IF r \in C THEN "cancelled" ELSE CallOf(r)
    BY <1>1, <1>2, <2>1 DEF DestroyInstance, CallOf, TypeOK
  <2>3. Promise!Cancel(C)
    BY <2>1, <2>2 DEF Promise!Cancel
  <2> QED
    BY <2>3 DEF Promise!Next
<1>3. CASE DestroyEnds
  <2>1. PICK C \in SUBSET Requests : \A r \in Requests : r \in C <=> CallOf(r) = "open"
    <3> DEFINE open == {r \in Requests : CallOf(r) = "open"}
    <3>1. open \in SUBSET Requests /\ \A r \in Requests : r \in open <=> CallOf(r) = "open"
      OBVIOUS
    <3> QED
      BY <3>1
  <2>2. lifetime' /\ UNCHANGED <<where, canceled>>
    BY <1>3 DEF DestroyEnds, Joined
  <2>3. \A r \in Requests : CallOf(r)' = IF r \in C THEN "dropped" ELSE CallOf(r)
    BY <2>1, <2>2 DEF CallOf
  <2>4. Promise!Drop(C)
    BY <2>1, <2>3 DEF Promise!Drop
  <2> QED
    BY <2>4 DEF Promise!Next
<1> QED
  BY <1>2, <1>3

LEMMA PromiseStep == ServerIInv /\ [ServerNext]_allVars => [Promise!Next]_Questions
<1> SUFFICES ASSUME ServerIInv, [ServerNext]_allVars PROVE [Promise!Next]_Questions
  OBVIOUS
<1>0. TypeOK /\ Order
  BY DEF ServerIInv, Places
<1>1. ASSUME NEW r \in Requests, Ask(r) PROVE [Promise!Next]_Questions
  BY <1>0, <1>1, QuestionStep DEF Ask, Resolve, Move, CallOf, TypeOK, Order
<1>2. ASSUME NEW r \in Requests, Answered(r) PROVE [Promise!Next]_Questions
  BY <1>0, <1>2, QuestionStep DEF Answered, Deliver, Move, CallOf, TypeOK
<1>3. ASSUME NEW r \in Requests, Close(r) PROVE [Promise!Next]_Questions
  BY <1>0, <1>3, QuestionStep DEF Close, CallOf, TypeOK, Order
<1>4. ASSUME UNCHANGED <<where, canceled, lifetime>> PROVE [Promise!Next]_Questions
  BY <1>4 DEF Questions, CallOf
<1>5. ASSUME NEW l \in Listeners, NEW r \in Requests,
             Arrive(l, r) \/ Accept(l, r)
      PROVE  [Promise!Next]_Questions
  BY <1>4, <1>5 DEF Arrive, Accept, vars
<1>6. ASSUME NEW l \in Listeners, AcceptFails(l) PROVE [Promise!Next]_Questions
  BY <1>4, <1>6 DEF AcceptFails, vars
<1>7. CASE StopEnds
  <2>1. ~lifetime /\ ~lifetime' /\ UNCHANGED <<where, canceled>>
    BY <1>0, <1>7 DEF StopEnds, Joined, Order
  <2>2. \A r \in Requests : CallOf(r)' = CallOf(r)
    BY <2>1 DEF CallOf
  <2> QED
    BY <2>2 DEF Questions
<1>8. CASE Run \/ StopInstance \/ UNCHANGED allVars
  BY <1>4, <1>8 DEF Run, StopInstance, Stop, allVars, vars
<1> QED
  BY <1>1, <1>2, <1>3, <1>5, <1>6, <1>7, <1>8, ThreadsUnseen, DestroySteps DEF ServerNext

\* Whichever thread wins: a question is answered at most once, and neither after its
\* Cancelable was cancelled nor after the resolver is gone (the two looks at the
\* flags in SystemResolver::Resolve).
THEOREM KeepsPromise == ServerSpec => ResolvePromise
<1>1. ServerInit => Promise!Init
  BY DEF ServerInit, Init, Promise!Init, CallOf
<1>2. ServerIInv /\ [ServerNext]_allVars => [Promise!Next]_Questions
  BY PromiseStep
<1> QED
  BY <1>1, <1>2, Inductive, PTL DEF ServerSpec, ResolvePromise, Promise!Spec, Questions
=============================================================================
