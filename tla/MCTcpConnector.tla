--------------------------- MODULE MCTcpConnector ---------------------------
(* Three connectors, so that two come after the one that resolves a shared   *)
(* endpoint; one and three addresses; an endpoint that is a name or an       *)
(* address.                                                                  *)
EXTENDS TcpConnector

TargetSet   == {<<"a">>, <<"b", "a", "c">>}
EndpointSet == {EndpointOf("Domain", "name", <<>>), EndpointOf("Address", "text", <<"a">>)}
=============================================================================
