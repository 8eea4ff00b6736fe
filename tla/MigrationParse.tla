--------------------------- MODULE MigrationParse ---------------------------
(***************************************************************************)
(* pkg/migration/parse: the conversion of a Krakend and its ApiEndpoints   *)
(* into a nais Application and the ConfigMaps it mounts.                   *)
(***************************************************************************)
EXTENDS ServiceDiscovery

(* The ApiEndpoints that have this Krakend as an owner; those being        *)
(* deleted are not left out.                                               *)
Owned(name, k, snap) ==
  [n \in {m \in DOMAIN snap : snap[m].phase # "absent" /\ snap[m].owner = <<name, k.uid>>} |->
     snap[n].spec]

(* ToPartialsConfig: the routes, or None for the error.                    *)
ToPartialsConfig(k, items) ==
  IF Convertible(k.spec, items) THEN ToKrakendEndpoints(k.spec, items) ELSE None

-----------------------------------------------------------------------------
(* An Application's outbound rules: the names of apps and external hosts   *)
(* (sequences of labels).  `seen' holds the names of both kinds.           *)
NoEgress == [seen |-> {}, apps |-> {}, external |-> {}]

(* Mutant: names of either kind are told apart by their first label only.  *)
FirstLabel(host) == <<host.parts[1]>>

(* The name by which a backend is remembered: its first label for http,    *)
(* whatever namespace or domain follows, else the whole host name.         *)
SeenAs(host) == IF host.scheme = "http" THEN <<host.parts[1]>> ELSE host.parts

(* One turn of getEgresses' loop over the backends of the authenticated    *)
(* endpoints (open ones are not looked at), in list order.  A host that    *)
(* cannot be parsed, or is empty, is skipped.                              *)
AddEgress(acc, host) ==
  IF host.scheme = None \/ host.parts = <<>> THEN acc
  ELSE LET name == SeenAs(host)
       IN  IF name = <<"">> \/ name \in acc.seen THEN acc
           ELSE [seen |-> acc.seen \cup {name},
                 apps |-> IF host.scheme = "http" THEN acc.apps \cup {name[1]} ELSE acc.apps,
                 external |-> IF host.scheme = "http" THEN acc.external
                              ELSE acc.external \cup {name}]

(* The hosts of the providers' jwkUrl; one that cannot be parsed is None.  *)
getEgressesFromAuth(jwkUrls) == {jwkUrls[i] : i \in DOMAIN jwkUrls} \ {None}

(* Mutant: "/" is put after the host, too.                                 *)
KeepRoot(host) == [host |-> host.host, path |-> host.paths]

(* One ingress per host: https://, the host, and all its paths but "/" put *)
(* one after the other.                                                    *)
ToIngress(host) == [host |-> host.host, path |-> SelectSeq(host.paths, LAMBDA p : p # "/")]

(* ingress.hosts only: ingressHost is not looked at.                       *)
getIngresses(hosts) == {ToIngress(hosts[i]) : i \in DOMAIN hosts}

(* egress is what getEgresses returns for the backends.                    *)
ToApp(hosts, replicaCount, jwkUrls, egress) ==
  [ingresses |-> getIngresses(hosts),
   replicas  |-> replicaCount,
   apps      |-> egress.apps,
   external  |-> getEgressesFromAuth(jwkUrls) \cup egress.external]
=============================================================================
