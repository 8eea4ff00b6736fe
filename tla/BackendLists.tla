----------------------------- MODULE BackendLists -----------------------------
(***************************************************************************)
(* What is made of the backend hosts of a namespace's endpoints: network   *)
(* policies by the operator, access rules of an Application by the         *)
(* migration tool.  A step is one turn of the loops over the endpoints, so *)
(* the properties are about every list of hosts.                           *)
(***************************************************************************)
EXTENDS MigrationParse, NetworkPolicies

CONSTANTS
  Backends, MaxBackends,   \* backend hosts, and how many one list may have
  Labels,                  \* of host names
  JwkUrls,                 \* lists of the hosts of auth providers
  Elsewhere                \* another namespace

(* A host that has a name has a label that is not empty.                   *)
ASSUME BackendsAssumption ==
  \A host \in Backends : host.parts \in Seq(Labels) /\ host.parts # <<"">>

ASSUME LabelsAssumption ==
  /\ ClusterDomain \in Seq(Labels) /\ ClusterDomain # <<>> /\ "svc" \in Labels
  /\ Namespace \in Labels /\ Namespace # None /\ Namespace # Elsewhere
  /\ Apps \subseteq Labels \ {""}
  /\ None # 443

VARIABLES
  jwkUrls,     \* of the Krakend
  backends,    \* the hosts the loops have passed
  egress       \* what getEgresses has collected from them

listVars == <<jwkUrls, backends, egress>>

ListInit == jwkUrls \in JwkUrls /\ backends = <<>> /\ egress = NoEgress

AddBackend(host) ==
  /\ Len(backends) < MaxBackends
  /\ backends' = Append(backends, host)
  /\ egress' = AddEgress(egress, host)
  /\ UNCHANGED jwkUrls

ListNext == \E host \in Backends : AddBackend(host)

ListSpec == ListInit /\ [][ListNext]_listVars

-----------------------------------------------------------------------------
(* The host names by which the operator discovers an application: its      *)
(* name, name and namespace, or both with "svc" and the cluster domain the *)
(* operator is given.                                                      *)
HostNames(app) ==
  {<<app>>, <<app, Namespace>>, <<app, Namespace, "svc">> \o ClusterDomain}

(* The policies both controllers create for the list.                      *)
Policies ==
  {KrakendNetpol(Namespace)} \cup
  {AppAllowKrakendIngressNetpol(Namespace, app) :
     app \in appsInNamespace(
       [endpoints |-> [i \in DOMAIN backends |-> [backendHost |-> backends[i]]]])}

GatewayPod(ns) == Pod(ns, Label("app.kubernetes.io/name", "krakend"))
AppPod(app) == Pod(Namespace, Label("app", app))

(* With the policies both controllers create (apiendpoints_controller.go,  *)
(* lines 190-280; netpol.go), the gateway reaches exactly the applications *)
(* some http backend names in one of the forms of HostNames, nobody else   *)
(* reaches one through them, and outside the cluster the gateway reaches   *)
(* public addresses by https only: a plain http backend there is cut off.  *)
(* As shipped the cluster domain is empty (main.go, lines 121-126), and    *)
(* the full service name is then not among the forms: see                  *)
(* DocumentedNamesReached.                                                 *)
BackendsReached ==
  /\ \A app \in Apps :
       Connects(Policies, GatewayPod(Namespace), AppPod(app), 80) <=>
         \E i \in DOMAIN backends :
           backends[i].scheme = "http" /\ backends[i].parts \in HostNames(app)
  /\ \A app, other \in Apps : ~AdmittedAt(Policies, AppPod(other), AppPod(app), 80)
  /\ \A app \in Apps : ~AdmittedAt(Policies, GatewayPod(Elsewhere), AppPod(app), 80)
  /\ \A kind \in {"public", "private"}, port \in {80, 443} :
       Connects(Policies, GatewayPod(Namespace), Address(kind), port)
         <=> kind = "public" /\ port = 443

(* A backend with a host name; http needs a first label.                   *)
Named(host) == /\ host.scheme # None /\ host.parts # <<>>
               /\ host.scheme = "http" => host.parts[1] # ""

Http == {i \in DOMAIN backends : Named(backends[i]) /\ backends[i].scheme = "http"}
Other == {i \in DOMAIN backends : Named(backends[i]) /\ backends[i].scheme # "http"}

(* The names of an application's service inside the cluster, for the       *)
(* domain a cluster has unless configured otherwise.                       *)
ServiceNames(app) ==
  {<<app>>, <<app, Namespace>>, <<app, Namespace, "svc">>,
   <<app, Namespace, "svc", "cluster", "local">>}

(* Which of the backends its gateway calls the migrated application may    *)
(* call (app.go, lines 84-122 and 132-180).  Every provider and every      *)
(* https backend has a rule for its host name, every http backend that     *)
(* names a service of the namespace a rule for that application, unless an *)
(* earlier backend of the other kind has taken the name, as both kinds     *)
(* share one set of names.  An http backend anywhere else, http://app1.ns2 *)
(* or http://api.example.com, is cut off, as the tool looks at its first   *)
(* label only (lines 157-169): it may be called only if a provider or an   *)
(* https backend has the same host.  No rule is without a backend or       *)
(* provider.                                                               *)
EgressComplete ==
  LET app == ToApp(<<>>, <<>>, jwkUrls, egress)
      idps == {jwkUrls[i] : i \in DOMAIN jwkUrls} \ {None}
      Own(i) == backends[i].parts \in ServiceNames(backends[i].parts[1])
  IN  /\ \A i \in Http : Own(i) =>
           \/ backends[i].parts[1] \in app.apps
           \/ \E j \in Other : j < i /\ backends[j].parts = <<backends[i].parts[1]>>
      /\ \A i \in Http : ~Own(i) =>
           (backends[i].parts \in app.external
              <=> backends[i].parts \in idps \cup {backends[j].parts : j \in Other})
      /\ \A i \in Other :
           \/ backends[i].parts \in app.external
           \/ \E j \in Http : j < i /\ backends[i].parts = <<backends[j].parts[1]>>
      /\ app.apps \subseteq {backends[i].parts[1] : i \in Http}
      /\ idps \subseteq app.external
      /\ app.external \subseteq idps \cup {backends[i].parts : i \in Other}

-----------------------------------------------------------------------------
(* What a comment and a test say and the operator as shipped does not do:  *)
(* "e.g. http://app1 or http://app1.ns1 or                                 *)
(* http://app1.ns1.svc.cluster.local" (apiendpoints_controller.go, line    *)
(* 258): the gateway reaches an application by each of these names.        *)
DocumentedNamesReached ==
  \A i \in DOMAIN backends, app \in Apps :
    /\ backends[i].scheme = "http"
    /\ backends[i].parts \in {<<app>>, <<app, Namespace>>,
                               <<app, Namespace, "svc", "cluster", "local">>}
    => Connects(Policies, GatewayPod(Namespace), AppPod(app), 80)
=============================================================================
