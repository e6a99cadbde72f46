----------------------------- MODULE RuleProofs -----------------------------
(***************************************************************************)
(* For any lists of rules, any hosts and whatever the system knows of      *)
(* them: the walk answers with the first rule that holds, asks only when   *)
(* it must, and keeps the promise of Answers.tla.                          *)
(***************************************************************************)
EXTENDS RuleManager, WellFoundedInduction, TLAPS

-----------------------------------------------------------------------------
(* One rule, on an endpoint e of which known is all there is to know. *)

\* What an endpoint shows is true, and so is a country that was cached.
Shows(e, known) ==
  /\ (e.type = "Address") <=> (e.type # "Domain")
  /\ e.type = "Address" => e.addrs # <<>>
  /\ IsAddressAvailable(e) => e.addrs = known
  /\ ~IsAddressAvailable(e) /\ ~IsResolvable(e) => known = <<>>

CacheTrue(e, code) == code # NoCode => IsAddressAvailable(e) /\ code = CountryOf[FrontAddress(e)]

KindIsKnown(rule) == rule.kind \in NameKinds \cup AskerKinds \cup {"all"}

\* What each kind of rule answers, by kind.
LEMMA MatchByKind ==
  ASSUME NEW rule, NEW e, NEW code
  PROVE  /\ rule.kind = "all" => MatchOf(rule, e, code) = "Match"
         /\ rule.kind = "dns_fail" => MatchOf(rule, e, code) = DnsFailMatch(rule, e)
         /\ rule.kind \in NameKinds => MatchOf(rule, e, code) = MatchName(rule, e)
         /\ rule.kind = "subnet" => MatchOf(rule, e, code) = SubnetMatch(rule, e)
         /\ rule.kind = "geo" => MatchOf(rule, e, code) = GeoMatch(rule, e, code)
BY Zenon DEF MatchOf, NameKinds

LEMMA HoldsByKind ==
  ASSUME NEW rule, NEW type, NEW host, NEW known
  PROVE  /\ rule.kind = "all" => HoldsOf(rule, type, host, known)
         /\ rule.kind = "dns_fail" => (HoldsOf(rule, type, host, known) <=> known = <<>>)
         /\ rule.kind \in NameKinds =>
              (HoldsOf(rule, type, host, known) <=> type = "Domain" /\ host \in rule.of)
         /\ rule.kind = "subnet" =>
              (HoldsOf(rule, type, host, known) <=> known # <<>> /\ Head(known) \in rule.of)
         /\ rule.kind = "geo" =>
              (HoldsOf(rule, type, host, known) <=>
                 known # <<>> /\ (CountryOf[Head(known)] = rule.code) = rule.match)
BY Zenon DEF HoldsOf, NameKinds

\* A rule that matches holds, one that does not match does not, and one that asks
\* for the name looks at addresses that can still be had.
LEMMA RuleSound ==
  ASSUME NEW rule, KindIsKnown(rule), NEW e, NEW known, NEW code, Shows(e, known),
         CacheTrue(e, code)
  PROVE  LET m == MatchOf(rule, e, code)
             h == HoldsOf(rule, e.type, e.host, known)
         IN  /\ m \in {"Match", "NotMatch", "ResolveNeeded"}
             /\ m = "Match" => h
             /\ m = "NotMatch" => ~h
             /\ m = "ResolveNeeded" => /\ rule.kind \in AskerKinds
                                       /\ ~IsAddressAvailable(e) /\ IsResolvable(e)
<1> DEFINE m == MatchOf(rule, e, code)
           h == HoldsOf(rule, e.type, e.host, known)
<1>1. CASE rule.kind = "all"
  BY <1>1, MatchByKind, HoldsByKind
<1>2. CASE rule.kind = "dns_fail"
  <2>1. m = DnsFailMatch(rule, e) /\ (h <=> known = <<>>)
    BY <1>2, MatchByKind, HoldsByKind
  <2>2. IsAddressAvailable(e) => known # <<>>
    BY DEF Shows, IsAddressAvailable
  <2> QED
    BY <1>2, <2>1, <2>2 DEF DnsFailMatch, Shows, AskerKinds
<1>3. CASE rule.kind \in NameKinds
  <2>1. m = MatchName(rule, e) /\ (h <=> e.type = "Domain" /\ e.host \in rule.of)
    BY <1>3, MatchByKind, HoldsByKind
  <2> QED
    BY <2>1 DEF MatchName, MatchIf
<1>4. CASE rule.kind = "subnet"
  <2>1. m = SubnetMatch(rule, e) /\ (h <=> known # <<>> /\ Head(known) \in rule.of)
    BY <1>4, MatchByKind, HoldsByKind
  <2>2. IsAddressAvailable(e) => known # <<>> /\ FrontAddress(e) = Head(known)
    BY DEF Shows, IsAddressAvailable, FrontAddress
  <2> QED
    BY <1>4, <2>1, <2>2 DEF SubnetMatch, MatchIf, Shows, AskerKinds
<1>5. CASE rule.kind = "geo"
  <2>1. /\ m = GeoMatch(rule, e, code)
        /\ h <=> known # <<>> /\ (CountryOf[Head(known)] = rule.code) = rule.match
    BY <1>5, MatchByKind, HoldsByKind
  <2>2. CASE IsAddressAvailable(e)
    <3>1. known # <<>> /\ FrontAddress(e) = Head(known)
      BY <2>2 DEF Shows, IsAddressAvailable, FrontAddress
    <3>2. CountryFor(e, code) = CountryOf[Head(known)]
      BY <2>2, <3>1 DEF CountryFor, CacheTrue
    <3> QED
      BY <2>1, <2>2, <3>1, <3>2 DEF GeoMatch, MatchIf
  <2>3. CASE ~IsAddressAvailable(e)
    <3>1. code = NoCode
      BY <2>3 DEF CacheTrue
    <3> QED
      BY <1>5, <2>1, <2>3, <3>1 DEF GeoMatch, Shows, AskerKinds
  <2> QED
    BY <2>2, <2>3
<1> QED
  BY <1>1, <1>2, <1>3, <1>4, <1>5 DEF KindIsKnown, NameKinds, AskerKinds

-----------------------------------------------------------------------------
(* The first rule that does not say NotMatch is found. *)

\* A set of numbers that is not empty has a least one.
LEMMA Least ==
  ASSUME NEW S \in SUBSET Nat, S # {}
  PROVE  \E x \in S : \A y \in S : x <= y
<1> DEFINE Less == OpToRel(<, Nat)
<1>1. IsWellFoundedOn(Less, Nat)
  BY NatLessThanWellFounded
<1>2. PICK x \in S : \A y \in S : <<y, x>> \notin Less
  BY <1>1, WFMin
<1>3. \A y \in S : ~(y < x)
  BY <1>2 DEF OpToRel
<1> QED
  BY <1>3

LEMMA ReachedFirst ==
  ASSUME NEW s, NEW e, Len(rules) \in Nat, NEW i \in 1..Len(rules) + 1
  PROVE  LET j == Reached(s, i, e)
         IN  /\ j \in i..Len(rules) + 1
             /\ j <= Len(rules) => MatchOf(rules[j], e, cache[s]) # "NotMatch"
             /\ \A k \in i..j - 1 : MatchOf(rules[k], e, cache[s]) = "NotMatch"
<1> DEFINE Stops(k) == k <= Len(rules) => MatchOf(rules[k], e, cache[s]) # "NotMatch"
           S == {k \in i..Len(rules) + 1 : Stops(k)}
<1>1. S \in SUBSET Nat /\ Len(rules) + 1 \in S
  OBVIOUS
<1>2. PICK j \in S : \A k \in S : j <= k
  <2> HIDE DEF S
  <2> QED
    BY <1>1, Least
<1>3. /\ j \in i..Len(rules) + 1 /\ Stops(j)
      /\ \A k \in i..j - 1 : k \in i..Len(rules) + 1 /\ ~(j <= k)
  BY <1>2
<1>4. \A k \in i..j - 1 : MatchOf(rules[k], e, cache[s]) = "NotMatch"
  BY <1>2, <1>3
<1>5. \E x \in i..Len(rules) + 1 :
        /\ x <= Len(rules) => MatchOf(rules[x], e, cache[s]) # "NotMatch"
        /\ \A k \in i..x - 1 : MatchOf(rules[k], e, cache[s]) = "NotMatch"
  BY <1>3, <1>4
<1> QED
  BY <1>5 DEF Reached

-----------------------------------------------------------------------------
(* The inductive invariant. *)

Types ==
  /\ rules \in RuleLists
  /\ truth \in [Sessions -> Answered \cup {<<>>}]
  /\ ep \in [Sessions -> Records]
  /\ cache = [s \in Sessions |-> cache[s]]
  /\ walk \in [Sessions -> WalkStates]
  /\ iter \in [Sessions -> 1..Len(rules) + 1]
  /\ chosen \in [Sessions -> 0..Len(rules) + 1]
  /\ canceled \in [Sessions -> BOOLEAN] /\ alive \in BOOLEAN
  /\ resolves \in [Sessions -> [asked : {0, 1}, valid : BOOLEAN]]

\* An endpoint e of session s, which has been resolved once or not yet.
EndpointOk(s, e) ==
  /\ e \in Records
  /\ e.type = "Address" => ~e.resolved /\ e.addrs # <<>>
  /\ e.type = "Domain" => e.addrs = IF e.resolved THEN truth[s] ELSE <<>>

NoneBefore(s, j) == \A k \in 1..j - 1 : ~Holds(rules[k], s)

Needed(s) == /\ ep[s].type = "Domain"
             /\ \E j \in DOMAIN rules : rules[j].kind \in AskerKinds /\ NoneBefore(s, j)

Session(s) ==
  /\ EndpointOk(s, ep[s]) /\ CacheTrue(ep[s], cache[s])
  /\ resolves[s].valid
  /\ ep[s].resolving <=> walk[s] = "resolving"
  /\ resolves[s].asked = 1 <=> ep[s].resolving \/ ep[s].resolved
  /\ ~(ep[s].resolving /\ ep[s].resolved)
  /\ resolves[s].asked = 1 => Needed(s)
  /\ walk[s] \in {"idle", "posted"} => resolves[s].asked = 0
  /\ walk[s] = "resolving" => NoneBefore(s, iter[s])
  /\ walk[s] = "answered" =>
       /\ NoneBefore(s, chosen[s])
       /\ chosen[s] <= Len(rules) => Holds(rules[chosen[s]], s)
  /\ walk[s] = "answered" => chosen[s] # 0

IInv == Types /\ \A s \in Sessions : Session(s)

\* What an action leaves alone of the sessions but one.
OthersKeep(s) == \A d \in Sessions \ {s} :
  /\ ep'[d] = ep[d] /\ cache'[d] = cache[d] /\ walk'[d] = walk[d] /\ iter'[d] = iter[d]
  /\ chosen'[d] = chosen[d] /\ resolves'[d] = resolves[d]

LEMMA OthersHold ==
  ASSUME NEW s \in Sessions, \A d \in Sessions : Session(d), OthersKeep(s),
         UNCHANGED <<rules, truth>>, Session(s)'
  PROVE  \A d \in Sessions : Session(d)'
<1> SUFFICES ASSUME NEW d \in Sessions, d # s PROVE Session(d)'
  OBVIOUS
<1>1. \A rule : Holds(rule, d)' <=> Holds(rule, d)
  BY DEF OthersKeep, Holds, KnownOf
<1>2. /\ ep'[d] = ep[d] /\ cache'[d] = cache[d] /\ walk'[d] = walk[d] /\ iter'[d] = iter[d]
      /\ chosen'[d] = chosen[d] /\ resolves'[d] = resolves[d]
      /\ rules' = rules /\ truth' = truth
  BY DEF OthersKeep
<1>3. EndpointOk(d, ep[d])' /\ CacheTrue(ep[d], cache[d])'
  BY <1>2 DEF Session, EndpointOk, CacheTrue
<1>4. \A j : NoneBefore(d, j)' <=> NoneBefore(d, j)
  BY <1>1, <1>2 DEF NoneBefore
<1>5. Needed(d)' <=> Needed(d)
  BY <1>2, <1>4 DEF Needed
<1> QED
  BY <1>1, <1>2, <1>3, <1>4, <1>5 DEF Session

\* The endpoint of a session shows what is true of its host.
LEMMA EndpointShows ==
  ASSUME NEW s \in Sessions, NEW e, EndpointOk(s, e), e.type = ep[s].type,
         e.type = "Address" => e.addrs = ep[s].addrs
  PROVE  Shows(e, KnownOf(s))
BY DEF EndpointOk, Records, EndpointRecords, Shows, KnownOf, IsAddressAvailable, IsResolvable

LEMMA RulesKnown ==
  ASSUME Types
  PROVE  /\ Len(rules) \in Nat /\ DOMAIN rules = 1..Len(rules)
         /\ \A k \in 1..Len(rules) : KindIsKnown(rules[k])
BY RulesAssumption DEF Types, KindIsKnown

-----------------------------------------------------------------------------
(* Walking on. *)

\* A walk of session s that goes on from rule i with endpoint e, none of the rules
\* before i holding.
MayWalk(s, i, e) ==
  /\ i \in 1..Len(rules) + 1 /\ NoneBefore(s, i)
  /\ EndpointOk(s, e) /\ ~e.resolving /\ CacheTrue(e, cache[s])
  /\ e.type = ep[s].type /\ e.host = ep[s].host
  /\ e.type = "Address" => e.addrs = ep[s].addrs
  /\ resolves[s].asked = 1 <=> e.resolved
  /\ resolves[s].valid /\ (resolves[s].asked = 1 => Needed(s))

LEMMA WalksOn ==
  ASSUME Types, NEW s \in Sessions, NEW i, NEW e, MayWalk(s, i, e)
  PROVE  LET j == Reached(s, i, e)
         IN  /\ j \in 1..Len(rules) + 1 /\ NoneBefore(s, j)
             /\ IF j <= Len(rules) /\ MatchOf(rules[j], e, cache[s]) = "ResolveNeeded"
                THEN /\ rules[j].kind \in AskerKinds
                     /\ ~IsAddressAvailable(e) /\ ~e.resolved /\ e.type = "Domain"
                ELSE j <= Len(rules) => Holds(rules[j], s)
<1> DEFINE j == Reached(s, i, e)
<1>0. Len(rules) \in Nat /\ i \in 1..Len(rules) + 1
  BY RulesKnown DEF MayWalk
<1>1. /\ j \in i..Len(rules) + 1
      /\ j <= Len(rules) => MatchOf(rules[j], e, cache[s]) # "NotMatch"
      /\ \A k \in i..j - 1 : MatchOf(rules[k], e, cache[s]) = "NotMatch"
  BY <1>0, ReachedFirst
<1>2. Shows(e, KnownOf(s)) /\ CacheTrue(e, cache[s])
  BY EndpointShows DEF MayWalk
<1>3. ASSUME NEW k \in 1..Len(rules)
      PROVE  /\ MatchOf(rules[k], e, cache[s]) \in {"Match", "NotMatch", "ResolveNeeded"}
             /\ MatchOf(rules[k], e, cache[s]) = "Match" => Holds(rules[k], s)
             /\ MatchOf(rules[k], e, cache[s]) = "NotMatch" => ~Holds(rules[k], s)
             /\ MatchOf(rules[k], e, cache[s]) = "ResolveNeeded" =>
                  /\ rules[k].kind \in AskerKinds
                  /\ ~IsAddressAvailable(e) /\ IsResolvable(e)
  <2>1. KindIsKnown(rules[k])
    BY RulesKnown
  <2>2. e.type = ep[s].type /\ e.host = ep[s].host
    BY DEF MayWalk
  <2> HIDE DEF j
  <2> QED
    BY <1>2, <2>1, <2>2, RuleSound DEF Holds
<1>4. NoneBefore(s, j)
  <2> SUFFICES ASSUME NEW k \in 1..j - 1 PROVE ~Holds(rules[k], s)
    BY DEF NoneBefore
  <2>1. CASE k < i
    BY <1>0, <1>1, <2>1 DEF MayWalk, NoneBefore
  <2>2. CASE k >= i
    <3>1. k \in i..j - 1 /\ k \in 1..Len(rules)
      BY <1>0, <1>1, <2>2
    <3> QED
      BY <1>1, <1>3, <3>1
  <2> QED
    BY <1>0, <1>1, <2>1, <2>2
<1>5. j \in 1..Len(rules) + 1
  BY <1>0, <1>1
<1>6. CASE j <= Len(rules)
  <2>1. j \in 1..Len(rules)
    BY <1>0, <1>5, <1>6
  <2>2. ~IsAddressAvailable(e) /\ IsResolvable(e) => ~e.resolved /\ e.type = "Domain"
    BY DEF IsAddressAvailable, IsResolvable, MayWalk, EndpointOk, Records, EndpointRecords
  <2>3. MatchOf(rules[j], e, cache[s]) \in {"Match", "ResolveNeeded"}
    BY <1>1, <1>3, <1>6, <2>1
  <2> QED
    BY <1>3, <1>4, <1>5, <1>6, <2>1, <2>2, <2>3
<1> QED
  BY <1>4, <1>5, <1>6

\* The country that is cached behind a walk with endpoint e is that of its address.
LEMMA CacheStaysTrue ==
  ASSUME NEW s, NEW i, NEW j, NEW e, CacheTrue(e, cache[s])
  PROVE  CacheTrue(e, CacheAfter(s, i, j, e))
BY DEF CacheTrue, CacheAfter, LooksUp

LEMMA SuspendStep ==
  ASSUME IInv, NEW s \in Sessions, NEW i, NEW e, MayWalk(s, i, e), NEW j, Suspend(s, j, e),
         j \in 1..Len(rules), rules[j].kind \in AskerKinds, NoneBefore(s, j),
         ~IsAddressAvailable(e), ~e.resolved, e.type = "Domain", NEW code, CacheTrue(e, code),
         cache' = [cache EXCEPT ![s] = code], UNCHANGED <<rules, truth, canceled, alive>>
  PROVE  IInv'
<1> USE DEF Suspend, SuspendAt
<1>0. Types /\ Session(s) /\ Len(rules) \in Nat
  BY RulesKnown DEF IInv
<1>1. resolves[s].asked = 0 /\ resolves[s].valid /\ CanResolve(e)
  BY <1>0 DEF Types, MayWalk, CanResolve
<1>2. /\ resolves' \in [Sessions -> [asked : {0, 1}, valid : BOOLEAN]]
      /\ resolves'[s].asked = 1 /\ resolves'[s].valid
  BY <1>0, <1>1 DEF Types, CanResolve
<1>3. /\ ep' \in [Sessions -> Records] /\ ep'[s] = ForceResolve(e)
      /\ EndpointOk(s, ep[s])' /\ ep'[s].resolving /\ ~ep'[s].resolved
      /\ ep'[s].type = ep[s].type /\ ep'[s].host = ep[s].host /\ ep'[s].type = "Domain"
  BY <1>0 DEF Types, MayWalk, EndpointOk, ForceResolve, Records, EndpointRecords
<1>4. \A rule : Holds(rule, s)' <=> Holds(rule, s)
  BY <1>3 DEF Holds, KnownOf
<1>5. CacheTrue(ep[s], cache[s])'
  <2>1. code = NoCode
    BY DEF CacheTrue
  <2>2. cache'[s] = NoCode
    BY <1>0, <2>1 DEF Types
  <2> QED
    BY <2>2 DEF CacheTrue
<1>6. /\ walk' \in [Sessions -> WalkStates] /\ walk'[s] = "resolving"
      /\ iter' \in [Sessions -> 1..Len(rules) + 1] /\ iter'[s] = j
  BY <1>0 DEF Types, WalkStates
<1>6a. cache' = [d \in Sessions |-> cache'[d]]
  <2>1. cache = [d \in Sessions |-> cache[d]]
    BY <1>0 DEF Types
  <2> QED
    BY <2>1
<1>7. NoneBefore(s, j)'
  BY <1>4 DEF NoneBefore
<1>8. Needed(s)'
  BY <1>0, <1>3, <1>7, RulesKnown DEF Needed, NoneBefore
<1>9. Session(s)'
  BY <1>2, <1>3, <1>5, <1>6, <1>7, <1>8 DEF Session, NoneBefore
<1>10. OthersKeep(s)
  BY <1>0 DEF OthersKeep, Types
<1>11. Types'
  BY <1>0, <1>2, <1>3, <1>6, <1>6a DEF Types
<1> QED
  BY <1>9, <1>10, <1>11, OthersHold DEF IInv

LEMMA ChooseStep ==
  ASSUME IInv, NEW s \in Sessions, NEW i, NEW e, MayWalk(s, i, e), NEW j, Choose(s, j, e),
         j \in 1..Len(rules) + 1, NoneBefore(s, j), j <= Len(rules) => Holds(rules[j], s),
         NEW code, CacheTrue(e, code), cache' = [cache EXCEPT ![s] = code],
         UNCHANGED <<rules, truth, canceled, alive>>
  PROVE  IInv'
<1> USE DEF Choose
<1>0. Types /\ Session(s) /\ Len(rules) \in Nat
  BY RulesKnown DEF IInv
<1>3. /\ ep' \in [Sessions -> Records] /\ ep'[s] = e
      /\ EndpointOk(s, ep[s])' /\ ~ep'[s].resolving
      /\ ep'[s].type = ep[s].type /\ ep'[s].host = ep[s].host
      /\ ep'[s].type = "Address" => ep'[s].addrs = ep[s].addrs
  BY <1>0 DEF Types, MayWalk, EndpointOk
<1>4. \A rule : Holds(rule, s)' <=> Holds(rule, s)
  BY <1>3 DEF Holds, KnownOf
<1>5. cache'[s] = code /\ CacheTrue(ep[s], cache[s])'
  BY <1>0, <1>3 DEF Types, CacheTrue
<1>6. /\ walk' \in [Sessions -> WalkStates] /\ walk'[s] = "answered"
      /\ chosen' \in [Sessions -> 0..Len(rules) + 1] /\ chosen'[s] = j
  BY <1>0 DEF Types, WalkStates
<1>6a. cache' = [d \in Sessions |-> cache'[d]]
  <2>1. cache = [d \in Sessions |-> cache[d]]
    BY <1>0 DEF Types
  <2> QED
    BY <2>1
<1>7. NoneBefore(s, j)' /\ (j <= Len(rules) => Holds(rules[j], s)')
  BY <1>4 DEF NoneBefore
<1>8. Needed(s) => Needed(s)'
  BY <1>3, <1>4 DEF Needed, NoneBefore
<1>9. Session(s)'
  BY <1>0, <1>3, <1>5, <1>6, <1>7, <1>8 DEF Session, NoneBefore, MayWalk
<1>10. OthersKeep(s)
  BY <1>0 DEF OthersKeep, Types
<1>11. Types'
  BY <1>0, <1>3, <1>6, <1>6a DEF Types
<1> QED
  BY <1>9, <1>10, <1>11, OthersHold DEF IInv

LEMMA IteratorStep ==
  ASSUME IInv, NEW s \in Sessions, NEW i, NEW e, MayWalk(s, i, e), MatchIterator(s, i, e),
         UNCHANGED <<rules, truth, canceled, alive>>
  PROVE  IInv'
<1> DEFINE j == Reached(s, i, e)
           code == CacheAfter(s, i, j, e)
<1>0. Types /\ Len(rules) \in Nat
  BY RulesKnown DEF IInv
<1>1. CacheTrue(e, code) /\ cache' = [cache EXCEPT ![s] = code]
  BY CacheStaysTrue DEF MatchIterator, MayWalk
<1>2. CASE j <= Len(rules) /\ MatchOf(rules[j], e, cache[s]) = "ResolveNeeded"
  <2>1. /\ j \in 1..Len(rules) + 1 /\ NoneBefore(s, j) /\ rules[j].kind \in AskerKinds
        /\ ~IsAddressAvailable(e) /\ ~e.resolved /\ e.type = "Domain"
    BY <1>0, <1>2, WalksOn
  <2>2. Suspend(s, j, e) /\ j \in 1..Len(rules)
    BY <1>0, <1>2, <2>1 DEF MatchIterator
  <2> HIDE DEF j, code
  <2> QED
    BY <1>1, <2>1, <2>2, SuspendStep
<1>3. CASE ~(j <= Len(rules) /\ MatchOf(rules[j], e, cache[s]) = "ResolveNeeded")
  <2>1. /\ j \in 1..Len(rules) + 1 /\ NoneBefore(s, j)
        /\ j <= Len(rules) => Holds(rules[j], s)
    BY <1>0, <1>3, WalksOn
  <2>2. Choose(s, j, e)
    BY <1>3 DEF MatchIterator
  <2> HIDE DEF j, code
  <2> QED
    BY <1>1, <2>1, <2>2, ChooseStep
<1> QED
  BY <1>2, <1>3

-----------------------------------------------------------------------------
(* The other steps. *)

LEMMA InitInv == Init => IInv
<1> SUFFICES ASSUME Init PROVE IInv
  OBVIOUS
<1>0. /\ rules \in RuleLists /\ Len(rules) \in Nat
      /\ truth \in [Sessions -> Answered \cup {<<>>}] /\ ep \in [Sessions -> Hosts]
      /\ walk = [s \in Sessions |-> "idle"] /\ cache = [s \in Sessions |-> NoCode]
      /\ resolves = [s \in Sessions |-> [asked |-> 0, valid |-> TRUE]]
  BY RulesAssumption DEF Init
<1>1. Types
  <2>1. ep \in [Sessions -> Records] /\ cache = [s \in Sessions |-> cache[s]]
    BY <1>0, HostsAssumption
  <2>2. resolves \in [Sessions -> [asked : {0, 1}, valid : BOOLEAN]]
    BY <1>0
  <2> QED
    BY <1>0, <2>1, <2>2 DEF Init, Types, WalkStates
<1>2. ASSUME NEW s \in Sessions PROVE Session(s)
  <2>1. /\ ep[s] \in Records /\ ~ep[s].resolved /\ ~ep[s].resolving
        /\ (ep[s].type = "Address") <=> (ep[s].addrs # <<>>)
    BY <1>0, HostsAssumption
  <2>2. EndpointOk(s, ep[s])
    BY <2>1 DEF EndpointOk, Records, EndpointRecords
  <2>3. cache[s] = NoCode /\ CacheTrue(ep[s], cache[s])
    BY <1>0 DEF CacheTrue
  <2>4. resolves[s].asked = 0 /\ resolves[s].valid /\ walk[s] = "idle"
    BY <1>0
  <2> QED
    BY <2>1, <2>2, <2>3, <2>4 DEF Session
<1> QED
  BY <1>1, <1>2 DEF IInv

\* A walk may begin, and may go on once the resolver has answered.
LEMMA MayBegin ==
  ASSUME IInv, NEW s \in Sessions, walk[s] = "posted"
  PROVE  MayWalk(s, 1, ep[s])
<1>1. Session(s) /\ Types /\ Len(rules) \in Nat
  BY RulesKnown DEF IInv
<1>2. ~ep[s].resolving /\ ~ep[s].resolved /\ resolves[s].asked = 0
  BY <1>1 DEF Session, Types
<1> QED
  BY <1>1, <1>2 DEF Session, MayWalk, NoneBefore

LEMMA MayResume ==
  ASSUME IInv, NEW s \in Sessions, walk[s] = "resolving"
  PROVE  LET e == Resolved(ep[s], truth[s])
         IN  /\ MayWalk(s, iter[s], e)
             /\ EndpointOk(s, e) /\ e.resolved /\ ~e.resolving /\ e.type = "Domain"
             /\ e.host = ep[s].host /\ ep[s].type = "Domain" /\ resolves[s].asked = 1
<1> DEFINE e == Resolved(ep[s], truth[s])
<1>1. Session(s) /\ Types /\ Len(rules) \in Nat
  BY RulesKnown DEF IInv
<1>2. ep[s].resolving /\ ~ep[s].resolved /\ resolves[s].asked = 1 /\ ep[s].type = "Domain"
  BY <1>1 DEF Session, Needed
<1>3. ep[s].addrs = <<>> /\ ep[s] \in Records /\ truth[s] \in Answered \cup {<<>>}
  BY <1>1, <1>2 DEF Session, EndpointOk, Types
<1>4. /\ e \in Records /\ e.type = "Domain" /\ e.host = ep[s].host
      /\ e.resolved /\ ~e.resolving /\ e.addrs = truth[s]
  BY <1>2, <1>3 DEF Records, EndpointRecords, Resolved
<1>5. cache[s] = NoCode
  BY <1>1, <1>2, <1>3 DEF Session, CacheTrue, IsAddressAvailable
<1>6. iter[s] \in 1..Len(rules) + 1 /\ NoneBefore(s, iter[s]) /\ resolves[s].valid /\ Needed(s)
  BY <1>1, <1>2 DEF Session, Types
<1>7. EndpointOk(s, e) /\ CacheTrue(e, cache[s])
  BY <1>4, <1>5 DEF EndpointOk, CacheTrue
<1> HIDE DEF e
<1>8. MayWalk(s, iter[s], e)
  BY <1>2, <1>4, <1>6, <1>7 DEF MayWalk
<1> QED
  BY <1>2, <1>4, <1>7, <1>8 DEF e

\* A walk that is not wanted any more ends without a word.
LEMMA SilenceStep ==
  ASSUME IInv, NEW s \in Sessions, Silence(s), NEW e, EndpointOk(s, e), ~e.resolving,
         e.type = ep[s].type, e.host = ep[s].host,
         e.type = "Address" => e.addrs = ep[s].addrs, CacheTrue(e, cache[s]),
         resolves[s].asked = 1 <=> e.resolved,
         ep' = [ep EXCEPT ![s] = e], UNCHANGED <<rules, truth, canceled, alive>>
  PROVE  IInv'
<1> USE DEF Silence
<1>0. Types /\ Session(s)
  BY DEF IInv
<1>1. ep' \in [Sessions -> Records] /\ ep'[s] = e
  BY <1>0 DEF Types, EndpointOk
<1>2. walk' \in [Sessions -> WalkStates] /\ walk'[s] = "silent"
  BY <1>0 DEF Types, WalkStates
<1>3. \A rule : Holds(rule, s)' <=> Holds(rule, s)
  BY <1>1 DEF Holds, KnownOf
<1>4. Needed(s) => Needed(s)'
  BY <1>1, <1>3 DEF Needed, NoneBefore
<1>5. EndpointOk(s, ep[s])' /\ CacheTrue(ep[s], cache[s])'
  BY <1>1 DEF EndpointOk, CacheTrue
<1>6. Session(s)'
  BY <1>0, <1>1, <1>2, <1>4, <1>5 DEF Session
<1>7. OthersKeep(s)
  BY <1>0 DEF OthersKeep, Types
<1>8. Types'
  <2>1. cache' = [d \in Sessions |-> cache'[d]]
    BY <1>0 DEF Types
  <2> QED
    BY <1>0, <1>1, <1>2, <2>1 DEF Types
<1> QED
  BY <1>6, <1>7, <1>8, OthersHold DEF IInv

LEMMA MatchStep == ASSUME IInv, NEW s \in Sessions, Match(s) PROVE IInv'
<1> USE DEF Match
<1>0. Types /\ Session(s)
  BY DEF IInv
<1>1. walk' \in [Sessions -> WalkStates] /\ walk'[s] = "posted"
  BY <1>0 DEF Types, WalkStates
<1>2. Needed(s)' <=> Needed(s)
  BY DEF Needed, NoneBefore, Holds, KnownOf
<1>3. EndpointOk(s, ep[s])' /\ CacheTrue(ep[s], cache[s])'
  BY <1>0 DEF Session, EndpointOk, CacheTrue
<1>4. Session(s)'
  BY <1>0, <1>1, <1>2, <1>3 DEF Session
<1>5. OthersKeep(s) /\ Types'
  BY <1>0, <1>1 DEF OthersKeep, Types
<1> QED
  BY <1>4, <1>5, OthersHold DEF IInv

\* What the invariant says does not look at the flags.
LEMMA FlagStep ==
  ASSUME IInv, UNCHANGED <<rules, truth, ep, cache, walk, iter, chosen, resolves>>,
         canceled' \in [Sessions -> BOOLEAN], alive' \in BOOLEAN
  PROVE  IInv'
<1>1. Types'
  BY DEF IInv, Types
<1>2. ASSUME NEW s \in Sessions PROVE Session(s)'
  <2>1. Session(s)
    BY DEF IInv
  <2>2. \A rule : Holds(rule, s)' <=> Holds(rule, s)
    BY DEF Holds, KnownOf
  <2>3. \A j : NoneBefore(s, j)' <=> NoneBefore(s, j)
    BY <2>2 DEF NoneBefore
  <2>4. Needed(s)' <=> Needed(s)
    BY <2>3 DEF Needed
  <2>5. EndpointOk(s, ep[s])' /\ CacheTrue(ep[s], cache[s])'
    BY <2>1 DEF Session, EndpointOk, CacheTrue
  <2> QED
    BY <2>1, <2>2, <2>3, <2>4, <2>5 DEF Session
<1> QED
  BY <1>1, <1>2 DEF IInv

LEMMA StepInv == IInv /\ [Next]_vars => IInv'
<1> SUFFICES ASSUME IInv, [Next]_vars PROVE IInv'
  OBVIOUS
<1>0. Types /\ \A s \in Sessions : Session(s)
  BY DEF IInv
<1>1. ASSUME NEW s \in Sessions, Begin(s) PROVE IInv'
  <2>1. walk[s] = "posted" /\ MayWalk(s, 1, ep[s]) /\ UNCHANGED <<rules, truth, canceled, alive>>
    BY <1>1, MayBegin DEF Begin
  <2>2. CASE Silenced(s)
    <3>1. Silence(s) /\ ep' = [ep EXCEPT ![s] = ep[s]]
      BY <1>0, <1>1, <2>2 DEF Begin, Types
    <3> QED
      BY <2>1, <3>1, SilenceStep DEF MayWalk
  <2>3. CASE ~Silenced(s)
    BY <1>1, <2>1, <2>3, IteratorStep DEF Begin
  <2> QED
    BY <2>2, <2>3
<1>2. ASSUME NEW s \in Sessions, Resume(s) PROVE IInv'
  <2> DEFINE e == Resolved(ep[s], truth[s])
  <2>1. /\ MayWalk(s, iter[s], e) /\ EndpointOk(s, e) /\ e.resolved /\ ~e.resolving
        /\ e.type = "Domain" /\ e.host = ep[s].host /\ ep[s].type = "Domain"
        /\ resolves[s].asked = 1
    BY <1>2, MayResume DEF Resume
  <2>2. UNCHANGED <<rules, truth, canceled, alive>>
    BY <1>2 DEF Resume
  <2>3. CASE Silenced(s)
    <3>1. Silence(s) /\ ep' = [ep EXCEPT ![s] = e]
      BY <1>2, <2>3 DEF Resume
    <3> HIDE DEF e
    <3> QED
      BY <2>1, <2>2, <3>1, SilenceStep DEF MayWalk
  <2>4. CASE ~Silenced(s)
    <3>1. MatchIterator(s, iter[s], e)
      BY <1>2, <2>4 DEF Resume
    <3> HIDE DEF e
    <3> QED
      BY <2>1, <2>2, <3>1, IteratorStep
  <2> QED
    BY <2>3, <2>4
<1>3. ASSUME NEW s \in Sessions, Match(s) PROVE IInv'
  BY <1>3, MatchStep
<1>4. ASSUME NEW s \in Sessions, Cancel(s) PROVE IInv'
  <2>1. canceled' \in [Sessions -> BOOLEAN] /\ alive' \in BOOLEAN
    BY <1>0, <1>4 DEF Cancel, Types
  <2> QED
    BY <1>4, <2>1, FlagStep DEF Cancel
<1>5. CASE Destroy
  <2>1. canceled' \in [Sessions -> BOOLEAN] /\ alive' \in BOOLEAN
    BY <1>0, <1>5 DEF Destroy, Types
  <2> QED
    BY <1>5, <2>1, FlagStep DEF Destroy
<1>6. CASE UNCHANGED vars
  <2>1. canceled' \in [Sessions -> BOOLEAN] /\ alive' \in BOOLEAN
    BY <1>0, <1>6 DEF vars, Types
  <2> QED
    BY <1>6, <2>1, FlagStep DEF vars
<1> QED
  BY <1>1, <1>2, <1>3, <1>4, <1>5, <1>6 DEF Next

\* Whatever the walks, cancellations and answers: the invariant above holds
\* (MatchIterator and the handlers around it).
THEOREM Inductive == Spec => []IInv
BY InitInv, StepInv, PTL DEF Spec

-----------------------------------------------------------------------------
(* What follows. *)

\* For any rules and hosts: a walk asks the resolver at most once and only when a
\* rule before any match looks at addresses, and the country that is cached in a
\* session is that of its address (RuleManager::MatchIterator, GeoRule::Match).
THEOREM RuleSafe == Spec => []WalkInv
<1>1. IInv => WalkInv
  <2> SUFFICES ASSUME IInv PROVE WalkInv
    OBVIOUS
  <2>0. Types /\ \A s \in Sessions : Session(s)
    BY DEF IInv
  <2>1. TypeOK
    BY <2>0 DEF Types, TypeOK
  <2>2. \A s \in Sessions : resolves[s].asked <= 1 /\ resolves[s].valid
    <3>1. ASSUME NEW s \in Sessions PROVE resolves[s].asked <= 1
      <4>1. resolves[s].asked \in {0, 1}
        BY <2>0 DEF Types
      <4> QED
        BY <4>1
    <3>2. \A s \in Sessions : resolves[s].valid
      BY <2>0 DEF Session
    <3> QED
      BY <3>1, <3>2
  <2>3. ASSUME NEW s \in Sessions, resolves[s].asked > 0 PROVE Needed(s)
    <3>1. resolves[s].asked = 1
      BY <2>0, <2>3 DEF Types
    <3> QED
      BY <2>0, <3>1 DEF Session
  <2>4. NoNeedlessQuery
    BY <2>3 DEF NoNeedlessQuery, Needed, NoneBefore
  <2>5. CacheAgrees
    BY <2>0 DEF CacheAgrees, Session, CacheTrue
  <2> QED
    BY <2>1, <2>2, <2>4, <2>5 DEF WalkInv, ResolvesOnce
<1> QED
  BY <1>1, Inductive, PTL

\* For any rules and hosts: a walk that is answered is answered with the first
\* rule that holds of the host, suspended or not (RuleManager::MatchIterator).
THEOREM FirstRule == Spec => []FirstRuleThatHolds
<1>1. IInv => FirstRuleThatHolds
  BY DEF IInv, Session, NoneBefore, FirstRuleThatHolds
<1> QED
  BY <1>1, Inductive, PTL

-----------------------------------------------------------------------------
(* A walk is a call that keeps the promise of Answers.tla. *)

\* A walk that was never asked for was never cancelled.
Flags == /\ walk \in [Sessions -> WalkStates] /\ canceled \in [Sessions -> BOOLEAN]
         /\ \A s \in Sessions : walk[s] = "idle" => ~canceled[s]

Walks == [s \in Sessions |-> CallOf(s)]

\* Begin and Resume end in one of three ways.
LEMMA HandlerEnds ==
  ASSUME NEW s \in Sessions, Begin(s) \/ Resume(s)
  PROVE  /\ walk[s] \in {"posted", "resolving"} /\ canceled' = canceled /\ alive' = alive
         /\ \/ Silenced(s) /\ walk' = [walk EXCEPT ![s] = "silent"]
            \/ ~Silenced(s) /\ \E w \in {"resolving", "answered"} : walk' = [walk EXCEPT ![s] = w]
BY DEF Begin, Resume, Silence, MatchIterator, Suspend, SuspendAt, Choose

LEMMA FlagsStep == Flags /\ [Next]_vars => Flags'
<1> SUFFICES ASSUME Flags, [Next]_vars PROVE Flags'
  OBVIOUS
<1> USE DEF Flags, WalkStates
<1>1. ASSUME NEW s \in Sessions, Begin(s) \/ Resume(s) PROVE Flags'
  BY <1>1, HandlerEnds
<1>2. ASSUME NEW s \in Sessions, Match(s) \/ Cancel(s) PROVE Flags'
  BY <1>2 DEF Match, Cancel
<1>3. CASE Destroy \/ UNCHANGED vars
  BY <1>3 DEF Destroy, vars
<1> QED
  BY <1>1, <1>2, <1>3 DEF Next

\* One call changes, in a way the promise allows.
LEMMA WalkCallStep ==
  ASSUME NEW s \in Sessions, \A d \in Sessions \ {s} : CallOf(d)' = CallOf(d),
         \/ CallOf(s)' = CallOf(s)
         \/ CallOf(s) = "idle" /\ CallOf(s)' = "open"
         \/ CallOf(s) = "open" /\ CallOf(s)' = "answered"
         \/ CallOf(s) \in {"open", "dropped"} /\ CallOf(s)' = "cancelled"
  PROVE  [Promise!Next]_Walks
<1>0. Walks' = [Walks EXCEPT ![s] = CallOf(s)'] /\ Walks[s] = CallOf(s)
  BY DEF Walks
<1>1. CASE CallOf(s)' = CallOf(s)
  BY <1>1 DEF Walks
<1>2. CASE CallOf(s) = "idle" /\ CallOf(s)' = "open"
  <2>1. Promise!Ask(s)
    BY <1>0, <1>2 DEF Promise!Ask, Walks
  <2> QED
    BY <2>1 DEF Promise!Next
<1>3. CASE CallOf(s) = "open" /\ CallOf(s)' = "answered"
  <2>1. Promise!Answer(s)
    BY <1>0, <1>3 DEF Promise!Answer, Walks
  <2> QED
    BY <2>1 DEF Promise!Next
<1>4. CASE CallOf(s) \in {"open", "dropped"} /\ CallOf(s)' = "cancelled"
  <2>1. Promise!Cancel({s})
    BY <1>4 DEF Promise!Cancel
  <2> QED
    BY <2>1 DEF Promise!Next
<1> QED
  BY <1>1, <1>2, <1>3, <1>4

LEMMA WalkPromiseStep == Flags /\ [Next]_vars => [Promise!Next]_Walks
<1> SUFFICES ASSUME Flags, [Next]_vars PROVE [Promise!Next]_Walks
  OBVIOUS
<1> USE DEF Flags, WalkStates, CallOf
<1>1. ASSUME NEW s \in Sessions, Begin(s) \/ Resume(s) PROVE [Promise!Next]_Walks
  BY <1>1, HandlerEnds, WalkCallStep DEF Silenced
<1>2. ASSUME NEW s \in Sessions, Match(s) PROVE [Promise!Next]_Walks
  BY <1>2, WalkCallStep DEF Match
<1>3. ASSUME NEW s \in Sessions, Cancel(s) PROVE [Promise!Next]_Walks
  BY <1>3, WalkCallStep DEF Cancel
<1>4. CASE Destroy
  <2>1. PICK C \in SUBSET Sessions : \A s \in Sessions : s \in C <=> CallOf(s) = "open"
    <3> DEFINE open == {s \in Sessions : CallOf(s) = "open"}
    <3>1. open \in SUBSET Sessions /\ \A s \in Sessions : s \in open <=> CallOf(s) = "open"
      OBVIOUS
    <3> QED
      BY <3>1
  <2>2. \A s \in Sessions : CallOf(s)' = IF s \in C THEN "dropped" ELSE CallOf(s)
    BY <1>4, <2>1 DEF Destroy
  <2>3. Promise!Drop(C)
    BY <2>1, <2>2 DEF Promise!Drop
  <2> QED
    BY <2>3 DEF Promise!Next
<1>5. CASE UNCHANGED vars
  BY <1>5 DEF vars, Walks
<1> QED
  BY <1>1, <1>2, <1>3, <1>4, <1>5 DEF Next

\* Whatever is cancelled or destroyed between two rules: a walk is answered at most
\* once, and neither after its Cancelable was cancelled nor after the manager was
\* destroyed (the checks at the start of each posted or resumed step).
THEOREM KeepsPromise == Spec => MatchPromise
<1>1. Init => Promise!Init /\ Flags
  BY DEF Init, Promise!Init, CallOf, Flags, WalkStates
<1>2. Flags /\ [Next]_vars => Flags' /\ [Promise!Next]_Walks
  BY FlagsStep, WalkPromiseStep
<1> QED
  BY <1>1, <1>2, PTL DEF Spec, MatchPromise, Promise!Spec, Walks
=============================================================================
