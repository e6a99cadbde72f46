---------------------------- MODULE MCRuleManager ---------------------------
(* Two sessions; lists of two or three rules in which a rule over names, one *)
(* over addresses, one over countries and one over failures come in several  *)
(* orders; a name the rules list, one they do not, and an address.           *)
EXTENDS RuleManager

Country == [a |-> "us", b |-> "cn"]
HostSet == {EndpointOf("Domain", "listed", <<>>), EndpointOf("Domain", "other", <<>>),
            EndpointOf("Address", "text", <<"b">>)}
Known   == {<<"a">>, <<"b", "a">>}

name    == [kind |-> "domain", of |-> {"listed", "text"}]
net     == [kind |-> "subnet", of |-> {"a"}]
geo     == [kind |-> "geo", code |-> "cn", match |-> TRUE]
abroad  == [kind |-> "geo", code |-> "us", match |-> FALSE]
fail    == [kind |-> "dns_fail"]
any     == [kind |-> "all"]
Lists   == {<<name, net>>, <<net, name, any>>, <<fail, name>>, <<geo, net, fail>>,
            <<name, geo, abroad>>, <<abroad, geo, any>>, <<net, fail, geo>>}
=============================================================================
