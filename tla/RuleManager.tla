----------------------------- MODULE RuleManager ----------------------------
(***************************************************************************)
(* The walk over the rules that chooses how a session is connected         *)
(* (src/rule/rule_manager.cc).  A walk is posted to the run loop, goes     *)
(* from rule to rule, and is suspended while the name is resolved; the     *)
(* session's owner may cancel it and the manager may be destroyed at any   *)
(* time.  The resolver is the one that Answers.tla promises, which         *)
(* SystemResolver.tla implements.                                          *)
(***************************************************************************)
EXTENDS Rules, Naturals

CONSTANTS
  Sessions,   \* sessions being matched at once
  Hosts,      \* what a session may name: a set of endpoints
  RuleLists,  \* lists of rules the manager may hold
  Answered    \* what the system may know of a name: sequences of addresses

\* The lists are sequences of rules of the kinds there are.  The endpoint of a new
\* session is new, and has an address only if it was made from one.
Records == EndpointRecords({e.host : e \in Hosts}, {e.addrs : e \in Hosts} \cup Answered)
ASSUME RulesAssumption == \A list \in RuleLists :
  /\ Len(list) \in Nat /\ DOMAIN list = 1..Len(list)
  /\ \A k \in DOMAIN list : list[k].kind \in NameKinds \cup AskerKinds \cup {"all"}
ASSUME HostsAssumption == Hosts \subseteq
  {e \in Records : /\ ~e.resolved /\ ~e.resolving
                   /\ (e.type = "Address") <=> (e.addrs # <<>>)}

VARIABLES
  rules,   \* rules_, complete before the first session comes
  truth,   \* what the system answers for a name, <<>> for an error
  ep,      \* the endpoint of each session
  cache,   \* the country code cached in each session
  walk,    \* where a walk is
  iter,    \* the rule a suspended walk continues with
  chosen,  \* the rule an ended walk answered, Len(rules) + 1 for no match
  canceled, alive,  \* of the Cancelable of a walk; of the manager
  resolves \* history: how often a walk asked, and whether Resolve could assert

vars == <<rules, truth, ep, cache, walk, iter, chosen, canceled, alive, resolves>>

WalkStates == {"idle", "posted", "resolving", "answered", "silent"}

TypeOK ==
  /\ rules \in RuleLists
  /\ walk \in [Sessions -> WalkStates]
  /\ iter \in [Sessions -> 1..Len(rules) + 1]
  /\ chosen \in [Sessions -> 0..Len(rules) + 1]
  /\ canceled \in [Sessions -> BOOLEAN] /\ alive \in BOOLEAN

Init ==
  /\ rules \in RuleLists
  /\ truth \in [Sessions -> Answered \cup {<<>>}]
  /\ ep \in [Sessions -> Hosts]
  /\ cache = [s \in Sessions |-> NoCode]
  /\ walk = [s \in Sessions |-> "idle"]
  /\ iter = [s \in Sessions |-> 1]
  /\ chosen = [s \in Sessions |-> 0]
  /\ canceled = [s \in Sessions |-> FALSE] /\ alive = TRUE
  /\ resolves = [s \in Sessions |-> [asked |-> 0, valid |-> TRUE]]

-----------------------------------------------------------------------------

\* The first rule from i on that does not say NotMatch, or the end.
Reached(s, i, e) == CHOOSE j \in i..Len(rules) + 1 :
  /\ j <= Len(rules) => MatchOf(rules[j], e, cache[s]) # "NotMatch"
  /\ \A k \in i..j - 1 : MatchOf(rules[k], e, cache[s]) = "NotMatch"

\* Whether a walk from i to j asks a country rule about a known address.
LooksUp(s, i, j, e) == /\ cache[s] = NoCode /\ IsAddressAvailable(e)
                       /\ \E k \in i..j : k <= Len(rules) /\ rules[k].kind = "geo"

\* Mutant: the country cached is that of an address that was not looked up.
CacheAfterLast(s, i, j, e) == IF LooksUp(s, i, j, e)
                              THEN CountryOf[e.addrs[Len(e.addrs)]] ELSE cache[s]

\* Looking a country up leaves it in the session.
CacheAfter(s, i, j, e) == IF LooksUp(s, i, j, e)
                          THEN CountryOf[FrontAddress(e)] ELSE cache[s]

\* The handler is called, with rule j or, past the last, with NoMatch.
Choose(s, j, e) == /\ walk' = [walk EXCEPT ![s] = "answered"]
                   /\ chosen' = [chosen EXCEPT ![s] = j]
                   /\ ep' = [ep EXCEPT ![s] = e]
                   /\ UNCHANGED <<iter, resolves>>

\* The session's endpoint is asked to resolve, and rule j is kept for later.
SuspendAt(s, j, e) ==
  /\ walk' = [walk EXCEPT ![s] = "resolving"]
  /\ iter' = [iter EXCEPT ![s] = j]
  /\ ep' = [ep EXCEPT ![s] = ForceResolve(e)]
  /\ resolves' = [resolves EXCEPT ![s] = [asked |-> @.asked + 1,
                                          valid |-> @.valid /\ CanResolve(e)]]
  /\ UNCHANGED chosen

\* Mutant: the rule that asked is skipped when the walk is resumed.
SuspendPast(s, j, e)   == SuspendAt(s, j + 1, e)
Suspend(s, j, e)       == SuspendAt(s, j, e)

\* MatchIterator, from rule i, with what is now known of the session's host.
MatchIterator(s, i, e) ==
  LET j == Reached(s, i, e)
  IN  /\ cache' = [cache EXCEPT ![s] = CacheAfter(s, i, j, e)]
      /\ IF j <= Len(rules) /\ MatchOf(rules[j], e, cache[s]) = "ResolveNeeded"
         THEN Suspend(s, j, e) ELSE Choose(s, j, e)

Silenced(s) == canceled[s] \/ ~alive

Silence(s) == /\ walk' = [walk EXCEPT ![s] = "silent"]
              /\ UNCHANGED <<cache, chosen, iter, resolves>>

Match(s) == /\ alive /\ walk[s] = "idle"
            /\ walk' = [walk EXCEPT ![s] = "posted"]
            /\ UNCHANGED <<rules, truth, ep, cache, iter, chosen, canceled, alive, resolves>>

\* The run loop runs what Match has posted.
Begin(s) == /\ walk[s] = "posted"
            /\ IF Silenced(s) THEN Silence(s) /\ UNCHANGED ep
               ELSE MatchIterator(s, 1, ep[s])
            /\ UNCHANGED <<rules, truth, canceled, alive>>

\* Mutant: the walk continues without a look at its flags.
ResumeUnchecked(s) ==
  /\ walk[s] = "resolving"
  /\ MatchIterator(s, iter[s], Resolved(ep[s], truth[s]))
  /\ UNCHANGED <<rules, truth, canceled, alive>>

\* Mutant: the walk is given up when the name is not resolved.
ResumeIfFound(s) ==
  /\ walk[s] = "resolving"
  /\ LET e == Resolved(ep[s], truth[s]) IN
       IF Silenced(s) \/ truth[s] = <<>>
       THEN Silence(s) /\ ep' = [ep EXCEPT ![s] = e]
       ELSE MatchIterator(s, iter[s], e)
  /\ UNCHANGED <<rules, truth, canceled, alive>>

\* The resolver has answered.  The endpoint, which the suspended walk keeps
\* alive, notes the answer whether or not the walk is still wanted.
Resume(s) ==
  /\ walk[s] = "resolving"
  /\ LET e == Resolved(ep[s], truth[s]) IN
       IF Silenced(s) THEN Silence(s) /\ ep' = [ep EXCEPT ![s] = e]
       ELSE MatchIterator(s, iter[s], e)
  /\ UNCHANGED <<rules, truth, canceled, alive>>

Cancel(s) == /\ walk[s] # "idle" /\ ~canceled[s]
             /\ canceled' = [canceled EXCEPT ![s] = TRUE]
             /\ UNCHANGED <<rules, truth, ep, cache, walk, iter, chosen, alive, resolves>>

Destroy == /\ alive /\ alive' = FALSE
           /\ UNCHANGED <<rules, truth, ep, cache, walk, iter, chosen, canceled, resolves>>

Next == Destroy \/ \E s \in Sessions : Match(s) \/ Begin(s) \/ Resume(s) \/ Cancel(s)

Spec == Init /\ [][Next]_vars

\* The run loop turns, and the resolver answers what it is asked.
LiveSpec == Spec /\ \A s \in Sessions : WF_vars(Begin(s)) /\ WF_vars(Resume(s))

-----------------------------------------------------------------------------
(* Properties. *)

\* A rule read as a statement about a host of which everything is known.
HoldsOf(rule, type, host, known) ==
  CASE rule.kind = "all"       -> TRUE
    [] rule.kind = "dns_fail"  -> known = <<>>
    [] rule.kind \in NameKinds -> type = "Domain" /\ host \in rule.of
    [] rule.kind = "subnet"    -> known # <<>> /\ Head(known) \in rule.of
    [] rule.kind = "geo"       -> known # <<>> /\
           (CountryOf[Head(known)] = rule.code) = rule.match

KnownOf(s)     == IF ep[s].type = "Address" THEN ep[s].addrs ELSE truth[s]
Holds(rule, s) == HoldsOf(rule, ep[s].type, ep[s].host, KnownOf(s))

\* Resolving late, being suspended and caching a country never change the
\* choice: it is the first rule that holds of the host, or no match.
FirstRuleThatHolds ==
  \A s \in Sessions : walk[s] = "answered" =>
    /\ \A k \in 1..chosen[s] - 1 : ~Holds(rules[k], s)
    /\ chosen[s] <= Len(rules) => Holds(rules[chosen[s]], s)

\* A name is sent to the resolver only when a rule before any match asks for its
\* addresses: a name taken by an earlier rule over names is never sent out.
NoNeedlessQuery ==
  \A s \in Sessions : resolves[s].asked > 0 =>
    /\ ep[s].type = "Domain"
    /\ \E j \in DOMAIN rules : /\ rules[j].kind \in AskerKinds
                               /\ \A k \in 1..j - 1 : ~Holds(rules[k], s)

\* Types; and a walk asks at most once, and Endpoint::Resolve never finds the endpoint
\* resolving or resolved (the assertion at its start).
ResolvesOnce == TypeOK /\ \A s \in Sessions : resolves[s].asked <= 1 /\ resolves[s].valid

\* The country in a session is that of the address the session has.
CacheAgrees == \A s \in Sessions : cache[s] # NoCode =>
                 IsAddressAvailable(ep[s]) /\ cache[s] = CountryOf[FrontAddress(ep[s])]

\* Nothing is asked twice or in vain, and no cached country is stale.
WalkInv == ResolvesOnce /\ NoNeedlessQuery /\ CacheAgrees

\* A walk, seen as a call to the manager.
CallOf(s) == IF walk[s] \in {"idle", "answered"} THEN walk[s]
             ELSE IF canceled[s] THEN "cancelled"
             ELSE IF alive THEN "open" ELSE "dropped"

\* A walk is answered at most once, never after it was cancelled or the manager
\* destroyed: the flags are looked at again after each wait.
Promise == INSTANCE Answers WITH Calls <- Sessions, call <- [s \in Sessions |-> CallOf(s)]
MatchPromise == Promise!Spec

\* Every walk that is still wanted ends with an answer.
WalkEnds == \A s \in Sessions : walk[s] = "posted" ~> walk[s] = "answered" \/ Silenced(s)
=============================================================================
