---------------------------- MODULE MCConversions ----------------------------
(* Small inputs of Conversions for TLC.                                    *)
EXTENDS Conversions

(* As shipped: main.go leaves ClusterDomain empty.                         *)
UnsetDomain == <<"">>
MCApps == {"app1", "app2", "api"}

(* Every form of a host name and its near misses, with each scheme; a host *)
(* that cannot be parsed, and an empty one.                                *)
HostParts ==
  {<<>>, <<"", "ns">>, <<"app1">>, <<"app2">>, <<"app1", "ns">>, <<"app1", "other">>,
   <<"app1", "ns", "svc">>, <<"app1", "ns", "svc", "">>, <<"app1", "other", "svc", "">>,
   <<"app1", "ns", "svc", "cluster", "local">>,
   <<"app1", "other", "svc", "cluster", "local">>, <<"app1", "ns", "svc", "example", "com">>,
   <<"api", "example", "com">>, <<"api", "other", "com">>}
MCBackends == [scheme : {"http", "https"}, parts : HostParts]
              \cup {[scheme |-> None, parts |-> <<>>]}
MCLabels == {"", "svc", "ns", "other", "app1", "app2", "api", "cluster", "local", "example", "com"}
MCJwkUrls == {<<>>, <<<<"idp", "com">>>>, <<None, <<"idp", "com">>>>}

Host(h, paths) == [host |-> h, paths |-> paths]
MCHosts == {<<>>, <<Host("h1", <<>>)>>, <<Host("h1", <<"/">>)>>, <<Host("h1", <<"/x">>)>>,
            <<Host("h1", <<"/x">>), Host("h2", <<"/">>)>>, <<Host("h1", <<"/", "/x">>)>>}
MCSettings == [enabled : {<<>>, <<"true">>}, hosts : MCHosts, ingressHost : {<<>>, <<"h3">>},
               replicaCount : {<<>>, <<"1">>}, tag : {<<>>, <<"latest">>}]

(* Maps of two levels over two keys, with one of two leaves.               *)
MCKeys == {"a", "b"}
Maps(nodes) == UNION {[ks -> nodes] : ks \in SUBSET MCKeys}
MCTrees == UNION {Maps({Leaf(v)} \cup {Map(f) : f \in Maps({Leaf(v)})}) : v \in {<<"x">>, <<"y">>}}
=============================================================================
