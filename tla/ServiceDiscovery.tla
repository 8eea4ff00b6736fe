--------------------------- MODULE ServiceDiscovery ---------------------------
(***************************************************************************)
(* appsInNamespace of the ApiEndpoints controller: which applications of   *)
(* the namespace the backend hosts of an ApiEndpoints name.                *)
(*                                                                         *)
(* A backend host is [scheme, parts], parts being the labels of the host   *)
(* name (<<>> for an empty one); scheme is None if url.Parse fails.        *)
(***************************************************************************)
EXTENDS Cluster

CONSTANT ClusterDomain    \* the labels of r.ClusterDomain; <<"">> as long as it is not
                          \* set, which main.go does not do

(* Mutant: the namespace of a full service name is not compared.           *)
AppOfAnyNamespace(host) ==
  LET parts == host.parts
      hit   == \/ Len(parts) = 1
               \/ Len(parts) = 2 /\ parts[2] = Namespace
               \/ Len(parts) > 3 /\ SubSeq(parts, 3, Len(parts)) = <<"svc">> \o ClusterDomain
  IN  IF host.scheme = "http" /\ hit /\ parts[1] # "" THEN parts[1] ELSE None

(* Only http is discovered: http://app, http://app.ns and                  *)
(* http://app.ns.svc.<domain>; three labels never match.                   *)
App(host) ==
  LET parts == host.parts
      hit   == \/ Len(parts) = 1
               \/ Len(parts) = 2 /\ parts[2] = Namespace
               \/ /\ Len(parts) > 3
                  /\ parts[2] = Namespace
                  /\ SubSeq(parts, 3, Len(parts)) = <<"svc">> \o ClusterDomain
  IN  IF host.scheme = "http" /\ hit /\ parts[1] # "" THEN parts[1] ELSE None

(* The distinct applications; the open endpoints are not looked at.        *)
appsInNamespace(spec) ==
  {App(spec.endpoints[i].backendHost) : i \in DOMAIN spec.endpoints} \ {None}

ASSUME AppsAssumption == \A s \in ESpecs : appsInNamespace(s) \subseteq Apps
=============================================================================
