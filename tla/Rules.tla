-------------------------------- MODULE Rules -------------------------------
(***************************************************************************)
(* The rules of src/rule: each looks at a session and matches, does not    *)
(* match, or needs the name resolved first.  What a rule lists (domains,   *)
(* affixes, expressions, subnets, a country) is abstracted to the set of   *)
(* hosts or addresses it takes: rule.of.                                   *)
(***************************************************************************)
EXTENDS Endpoint

CONSTANT CountryOf  \* what the Maxmind database says of each address

NoCode == "no code"

\* Rules that look at the name only, and those that ask for its addresses.
NameKinds  == {"domain", "prefix", "suffix", "regex"}
AskerKinds == {"subnet", "geo", "dns_fail"}

MatchIf(b) == IF b THEN "Match" ELSE "NotMatch"

\* The four rules over names: an address is never matched, even by its text.
MatchName(rule, e) == MatchIf(e.type = "Domain" /\ e.host \in rule.of)

DnsFailMatch(rule, e) == IF IsAddressAvailable(e) THEN "NotMatch"
                         ELSE IF IsResolvable(e) THEN "ResolveNeeded" ELSE "Match"

\* Only the first address counts.
SubnetMatch(rule, e) == IF IsAddressAvailable(e)
                        THEN MatchIf(FrontAddress(e) \in rule.of)
                        ELSE IF IsResolvable(e) THEN "ResolveNeeded" ELSE "NotMatch"

\* The country GeoRule compares: the one cached in the session, or looked up.
CountryFor(e, code) == IF code # NoCode THEN code ELSE CountryOf[FrontAddress(e)]

GeoMatch(rule, e, code) == IF code # NoCode \/ IsAddressAvailable(e)
                           THEN MatchIf((CountryFor(e, code) = rule.code) = rule.match)
                           ELSE IF IsResolvable(e) THEN "ResolveNeeded" ELSE "NotMatch"

\* RuleInterface::Match.
MatchOf(rule, e, code) ==
  CASE rule.kind = "all"        -> "Match"
    [] rule.kind = "dns_fail"   -> DnsFailMatch(rule, e)
    [] rule.kind \in NameKinds  -> MatchName(rule, e)
    [] rule.kind = "subnet"     -> SubnetMatch(rule, e)
    [] rule.kind = "geo"        -> GeoMatch(rule, e, code)
=============================================================================
