---------------------------- MODULE BackendProofs ----------------------------
(***************************************************************************)
(* The proofs that for every list of backend hosts, of any length, the     *)
(* operator's policies and the migration tool's access rules let through   *)
(* what the hosts name.                                                    *)
(***************************************************************************)
EXTENDS BackendLists, SequenceTheorems, TLAPS

-----------------------------------------------------------------------------
(* Tuples are sequences.                                                   *)
LEMMA Tuples ==
  ASSUME NEW S, NEW a \in S, NEW b \in S, NEW c \in S
  PROVE  /\ <<a>> \in Seq(S) /\ Len(<<a>>) = 1 /\ <<a>>[1] = a
         /\ <<a, b>> \in Seq(S) /\ Len(<<a, b>>) = 2 /\ <<a, b>>[1] = a /\ <<a, b>>[2] = b
         /\ <<a, b, c>> \in Seq(S) /\ Len(<<a, b, c>>) = 3
         /\ <<a, b, c>>[1] = a /\ <<a, b, c>>[2] = b /\ <<a, b, c>>[3] = c
OBVIOUS

(* App returns an application for exactly the host names of it.            *)
LEMMA FullName ==
  ASSUME NEW parts \in Seq(Labels), NEW app \in Labels
  PROVE  parts = <<app, Namespace, "svc">> \o ClusterDomain <=>
           /\ Len(parts) > 3 /\ parts[1] = app /\ parts[2] = Namespace
           /\ SubSeq(parts, 3, Len(parts)) = <<"svc">> \o ClusterDomain
<1> DEFINE full == <<app, Namespace, "svc">> \o ClusterDomain
           rest == <<"svc">> \o ClusterDomain
           n == Len(ClusterDomain)
<1>1. /\ ClusterDomain \in Seq(Labels) /\ ClusterDomain # <<>>
      /\ Namespace \in Labels /\ "svc" \in Labels /\ n \in Nat \ {0}
  BY LabelsAssumption, EmptySeq
<1>2. /\ full \in Seq(Labels) /\ Len(full) = n + 3
      /\ full[1] = app /\ full[2] = Namespace /\ full[3] = "svc"
      /\ \A i \in 1..n : full[i + 3] = ClusterDomain[i]
  <2>1. /\ <<app, Namespace, "svc">> \in Seq(Labels) /\ Len(<<app, Namespace, "svc">>) = 3
        /\ <<app, Namespace, "svc">>[1] = app /\ <<app, Namespace, "svc">>[2] = Namespace
        /\ <<app, Namespace, "svc">>[3] = "svc"
    BY <1>1, Tuples
  <2>2. QED
    BY <1>1, <2>1
<1>3. /\ rest \in Seq(Labels) /\ Len(rest) = n + 1 /\ rest[1] = "svc"
      /\ \A i \in 1..n : rest[i + 1] = ClusterDomain[i]
  <2>1. <<"svc">> \in Seq(Labels) /\ Len(<<"svc">>) = 1 /\ <<"svc">>[1] = "svc"
    BY <1>1, Tuples
  <2>2. QED
    BY <1>1, <2>1
<1>4. \A i \in 1..(n + 1) : full[i + 2] = rest[i]
  <2>1. SUFFICES ASSUME NEW i \in 1..(n + 1) PROVE full[i + 2] = rest[i]
    OBVIOUS
  <2>2. CASE i = 1
    BY <1>2, <1>3, <2>2
  <2>3. CASE i # 1
    <3>1. i - 1 \in 1..n /\ (i - 1) + 3 = i + 2 /\ (i - 1) + 1 = i
      BY <1>1, <2>3
    <3>2. QED
      BY <1>2, <1>3, <3>1
  <2>4. QED
    BY <2>2, <2>3
<1>5. ASSUME parts = full
      PROVE  /\ Len(parts) > 3 /\ parts[1] = app /\ parts[2] = Namespace
             /\ SubSeq(parts, 3, Len(parts)) = rest
  <2>1. SubSeq(parts, 3, Len(parts)) \in Seq(Labels) /\ Len(SubSeq(parts, 3, Len(parts))) = n + 1
    BY <1>1, <1>2, <1>5
  <2>2. \A i \in 1..(n + 1) : SubSeq(parts, 3, Len(parts))[i] = parts[i + 2]
    BY <1>1, <1>2, <1>5
  <2>3. SubSeq(parts, 3, Len(parts)) = rest
    BY <1>3, <1>4, <1>5, <2>1, <2>2
  <2>4. QED
    BY <1>1, <1>2, <1>5, <2>3
<1>6. ASSUME Len(parts) > 3, parts[1] = app, parts[2] = Namespace,
             SubSeq(parts, 3, Len(parts)) = rest
      PROVE  parts = full
  <2>1. Len(parts) \in Nat /\ Len(parts) = n + 3
    BY <1>1, <1>3, <1>6
  <2>2. \A i \in 1..(n + 1) : parts[i + 2] = rest[i]
    BY <1>1, <1>6, <2>1
  <2>3. \A i \in 3..(n + 3) : parts[i] = full[i]
    <3>1. SUFFICES ASSUME NEW i \in 3..(n + 3) PROVE parts[i] = full[i]
      OBVIOUS
    <3>2. i - 2 \in 1..(n + 1) /\ (i - 2) + 2 = i
      BY <1>1
    <3>3. QED
      BY <1>4, <2>2, <3>2
  <2>4. \A i \in 1..(n + 3) : parts[i] = full[i]
    BY <1>1, <1>2, <1>6, <2>3
  <2>5. QED
    BY <1>2, <2>1, <2>4, SeqEqual
<1>7. QED
  BY <1>5, <1>6

LEMMA AppNamed ==
  ASSUME NEW host, host.parts \in Seq(Labels), NEW app \in Apps
  PROVE  App(host) = app <=> host.scheme = "http" /\ host.parts \in HostNames(app)
<1> DEFINE parts == host.parts
<1>1. app \in Labels /\ app # "" /\ app # None
  BY LabelsAssumption, ClusterAssumption
<1>2. parts = <<app>> <=> Len(parts) = 1 /\ parts[1] = app
  <2>1. <<app>> \in Seq(Labels) /\ Len(<<app>>) = 1 /\ <<app>>[1] = app
    BY <1>1, Tuples
  <2>2. ASSUME Len(parts) = 1, parts[1] = app PROVE parts = <<app>>
    BY <2>1, <2>2, SeqEqual
  <2>3. QED
    BY <2>1, <2>2
<1>3. parts = <<app, Namespace>> <=> Len(parts) = 2 /\ parts[1] = app /\ parts[2] = Namespace
  <2>1. /\ <<app, Namespace>> \in Seq(Labels) /\ Len(<<app, Namespace>>) = 2
        /\ <<app, Namespace>>[1] = app /\ <<app, Namespace>>[2] = Namespace
    BY <1>1, LabelsAssumption, Tuples
  <2>2. ASSUME Len(parts) = 2, parts[1] = app, parts[2] = Namespace PROVE parts = <<app, Namespace>>
    <3>1. \A i \in 1..2 : parts[i] = <<app, Namespace>>[i]
      BY <2>1, <2>2
    <3>2. QED
      BY <2>1, <2>2, <3>1, SeqEqual
  <2>3. QED
    BY <2>1, <2>2
<1>4. parts = <<app, Namespace, "svc">> \o ClusterDomain <=>
        /\ Len(parts) > 3 /\ parts[1] = app /\ parts[2] = Namespace
        /\ SubSeq(parts, 3, Len(parts)) = <<"svc">> \o ClusterDomain
  BY <1>1, FullName
<1>5. QED
  BY <1>1, <1>2, <1>3, <1>4 DEF App, HostNames

-----------------------------------------------------------------------------
(* Which policies select a pod, and whom their rules admit.                *)
LEMMA LabelsMatch ==
  ASSUME NEW ns, NEW app, NEW other
  PROVE  /\ Matches(Label("app.kubernetes.io/name", "krakend"), GatewayPod(ns))
         /\ ~Matches(Label("app.kubernetes.io/name", "krakend"), AppPod(app))
         /\ ~Matches(Label("app", app), GatewayPod(ns))
         /\ Matches(Label("app", app), AppPod(other)) <=> app = other
         /\ Matches(<<>>, AppPod(app))
BY DEF Matches, Label, GatewayPod, AppPod, Pod

(* The policy that stands for app.                                         *)
AppPolicy(app) == AppAllowKrakendIngressNetpol(Namespace, app)
Discovered == appsInNamespace(
  [endpoints |-> [i \in DOMAIN backends |-> [backendHost |-> backends[i]]]])

LEMMA DiscoveredNamed ==
  ASSUME backends \in Seq(Backends), NEW app \in Apps
  PROVE  app \in Discovered <=> \E i \in DOMAIN backends :
           backends[i].scheme = "http" /\ backends[i].parts \in HostNames(app)
<1>1. app # None
  BY ClusterAssumption
<1>2. app \in Discovered <=> \E i \in DOMAIN backends : App(backends[i]) = app
  BY <1>1 DEF Discovered, appsInNamespace
<1>3. \A i \in DOMAIN backends : backends[i].parts \in Seq(Labels)
  <2>1. \A i \in DOMAIN backends : backends[i] \in Backends
    BY LenProperties, ElementOfSeq
  <2>2. QED
    BY <2>1, BackendsAssumption
<1>4. \A i \in DOMAIN backends : App(backends[i]) = app <=>
        backends[i].scheme = "http" /\ backends[i].parts \in HostNames(app)
  BY <1>3, AppNamed
<1>5. QED
  BY <1>2, <1>4

(* An application's pod is selected by its own policy only.                *)
LEMMA SelectedForApp ==
  ASSUME NEW app
  PROVE  Selected(Policies, AppPod(app)) = IF app \in Discovered THEN {AppPolicy(app)} ELSE {}
<1>1. Policies = {KrakendNetpol(Namespace)} \cup {AppPolicy(a) : a \in Discovered}
  BY DEF Policies, AppPolicy, Discovered
<1>2. KrakendNetpol(Namespace) \notin Selected(Policies, AppPod(app))
  BY LabelsMatch DEF Selected, KrakendNetpol
<1>3. ASSUME NEW a \in Discovered
      PROVE  AppPolicy(a) \in Selected(Policies, AppPod(app)) <=> a = app
  <2>1. AppPolicy(a).ns = Namespace /\ AppPolicy(a).labels = Label("app", a) /\ AppPod(app).ns = Namespace
    BY DEF AppPolicy, AppAllowKrakendIngressNetpol, AppPod, Pod
  <2>2. QED
    BY <1>1, <2>1, LabelsMatch DEF Selected
<1>4. Selected(Policies, AppPod(app)) \subseteq Policies
  BY DEF Selected
<1>5. QED
  BY <1>1, <1>2, <1>3, <1>4

(* The gateway's pod is selected by the gateway's policy only.             *)
LEMMA SelectedForGateway ==
  Selected(Policies, GatewayPod(Namespace)) = {KrakendNetpol(Namespace)}
<1>1. Policies = {KrakendNetpol(Namespace)} \cup {AppPolicy(a) : a \in Discovered}
  BY DEF Policies, AppPolicy, Discovered
<1>2. KrakendNetpol(Namespace) \in Selected(Policies, GatewayPod(Namespace))
  <2>1. /\ KrakendNetpol(Namespace).ns = Namespace /\ GatewayPod(Namespace).ns = Namespace
        /\ KrakendNetpol(Namespace).labels = Label("app.kubernetes.io/name", "krakend")
    BY DEF KrakendNetpol, GatewayPod, Pod
  <2>2. QED
    BY <1>1, <2>1, LabelsMatch DEF Selected
<1>3. ASSUME NEW a \in Discovered PROVE AppPolicy(a) \notin Selected(Policies, GatewayPod(Namespace))
  <2>1. AppPolicy(a).labels = Label("app", a)
    BY DEF AppPolicy, AppAllowKrakendIngressNetpol
  <2>2. QED
    BY <2>1, LabelsMatch DEF Selected
<1>4. Selected(Policies, GatewayPod(Namespace)) \subseteq Policies
  BY DEF Selected
<1>5. QED
  BY <1>1, <1>2, <1>3, <1>4

(* Who may come in at an application: the gateway of the namespace.        *)
LEMMA AdmittedAtApp ==
  ASSUME NEW app, NEW src, NEW port
  PROVE  AdmittedAt(Policies, src, AppPod(app), port) <=>
           /\ app \in Discovered /\ src.kind = "pod" /\ src.ns = Namespace
           /\ Matches(Label("app.kubernetes.io/name", "krakend"), src)
<1>1. AppPod(app).kind = "pod"
  BY DEF AppPod, Pod
<1>2. AppPolicy(app).ingress = {PodRule(Namespace, Label("app.kubernetes.io/name", "krakend"))}
  BY DEF AppPolicy, AppAllowKrakendIngressNetpol, KrakendNameLabel
<1>3. Admits(PodRule(Namespace, Label("app.kubernetes.io/name", "krakend")), src, port) <=>
        /\ src.kind = "pod" /\ src.ns = Namespace
        /\ Matches(Label("app.kubernetes.io/name", "krakend"), src)
  BY LabelsAssumption DEF Admits, PodRule
<1>4. QED
  BY <1>1, <1>2, <1>3, SelectedForApp DEF AdmittedAt

(* Where the gateway may go out to.                                        *)
LEMMA GatewayGoes ==
  ASSUME NEW dst, NEW port
  PROVE  (\E p \in Selected(Policies, GatewayPod(Namespace)) : \E r \in p.egress : Admits(r, dst, port))
           <=> dst.kind = "pod" \/ (dst.kind = "public" /\ port = 443)
<1> DEFINE out == [kind |-> "public", ns |-> None, labels |-> <<>>, port |-> 443]
<1>1. KrakendNetpol(Namespace).egress = {out, PodRule(None, <<>>)}
  BY DEF KrakendNetpol
<1>2. Matches(<<>>, dst)
  BY DEF Matches
<1>3. Admits(out, dst, port) <=> dst.kind = "public" /\ port = 443
  BY <1>2, LabelsAssumption DEF Admits
<1>4. Admits(PodRule(None, <<>>), dst, port) <=> dst.kind = "pod"
  BY <1>2 DEF Admits, PodRule
<1>5. QED
  BY <1>1, <1>3, <1>4, SelectedForGateway

LEMMA ReachedIfListed ==
  ASSUME backends \in Seq(Backends)
  PROVE  BackendsReached
<1>1. ASSUME NEW app \in Apps
      PROVE  Connects(Policies, GatewayPod(Namespace), AppPod(app), 80) <=>
               \E i \in DOMAIN backends :
                 backends[i].scheme = "http" /\ backends[i].parts \in HostNames(app)
  <2>1. /\ AppPod(app).kind = "pod" /\ GatewayPod(Namespace).kind = "pod"
        /\ GatewayPod(Namespace).ns = Namespace
    BY DEF AppPod, GatewayPod, Pod
  <2>2. AdmittedAt(Policies, GatewayPod(Namespace), AppPod(app), 80) <=> app \in Discovered
    BY <2>1, AdmittedAtApp, LabelsMatch
  <2>3. \E p \in Selected(Policies, GatewayPod(Namespace)) : \E r \in p.egress : Admits(r, AppPod(app), 80)
    BY <2>1, GatewayGoes
  <2>4. QED
    BY <2>2, <2>3, DiscoveredNamed DEF Connects
<1>2. ASSUME NEW app \in Apps, NEW other \in Apps
      PROVE  ~AdmittedAt(Policies, AppPod(other), AppPod(app), 80)
  <2>1. ~Matches(Label("app.kubernetes.io/name", "krakend"), AppPod(other))
    BY LabelsMatch
  <2>2. QED
    BY <2>1, AdmittedAtApp
<1>3. ASSUME NEW app \in Apps PROVE ~AdmittedAt(Policies, GatewayPod(Elsewhere), AppPod(app), 80)
  <2>1. GatewayPod(Elsewhere).ns # Namespace
    BY LabelsAssumption DEF GatewayPod, Pod
  <2>2. QED
    BY <2>1, AdmittedAtApp
<1>4. ASSUME NEW kind \in {"public", "private"}, NEW port \in {80, 443}
      PROVE  Connects(Policies, GatewayPod(Namespace), Address(kind), port)
               <=> kind = "public" /\ port = 443
  <2>1. Address(kind).kind = kind /\ kind # "pod"
    BY DEF Address
  <2>2. AdmittedAt(Policies, GatewayPod(Namespace), Address(kind), port)
    BY <2>1 DEF AdmittedAt
  <2>3. (\E p \in Selected(Policies, GatewayPod(Namespace)) :
            \E r \in p.egress : Admits(r, Address(kind), port))
          <=> Address(kind).kind = "pod" \/ (Address(kind).kind = "public" /\ port = 443)
    BY GatewayGoes
  <2>4. QED
    BY <2>1, <2>2, <2>3 DEF Connects
<1>5. QED
  BY <1>1, <1>2, <1>3, <1>4 DEF BackendsReached

-----------------------------------------------------------------------------
(* The loop invariant of getEgresses: the names seen are those of the      *)
(* rules, every named backend has been seen, and every rule has a backend. *)
SeenRules == egress.seen = {<<a>> : a \in egress.apps} \cup egress.external

RulesHaveBackends ==
  /\ egress.apps \subseteq {backends[i].parts[1] : i \in Http}
  /\ egress.external \subseteq {backends[i].parts : i \in Other}

BackendsHaveRules ==
  /\ \A i \in Http :
       \/ backends[i].parts[1] \in egress.apps
       \/ \E j \in Other : j < i /\ backends[j].parts = <<backends[i].parts[1]>>
  /\ \A i \in Other :
       \/ backends[i].parts \in egress.external
       \/ \E j \in Http : j < i /\ backends[i].parts = <<backends[j].parts[1]>>

ListInv ==
  /\ backends \in Seq(Backends)
  /\ egress = [seen |-> egress.seen, apps |-> egress.apps, external |-> egress.external]
  /\ SeenRules /\ RulesHaveBackends /\ BackendsHaveRules

LEMMA ListInitInv == ListInit => ListInv
<1> SUFFICES ASSUME ListInit PROVE ListInv
  OBVIOUS
<1>1. backends = <<>> /\ egress = [seen |-> {}, apps |-> {}, external |-> {}]
  BY DEF ListInit, NoEgress
<1>2. backends \in Seq(Backends) /\ DOMAIN backends = {}
  BY <1>1, EmptySeq, LenProperties
<1>3. QED
  BY <1>1, <1>2 DEF ListInv, SeenRules, RulesHaveBackends, BackendsHaveRules, Http, Other

(* A turn of the loop keeps the hosts passed and adds one.                 *)
LEMMA ListGrows ==
  ASSUME ListInv, NEW host \in Backends, AddBackend(host)
  PROVE  LET n == Len(backends) + 1
         IN  /\ backends' \in Seq(Backends) /\ n \in Nat
             /\ DOMAIN backends' = DOMAIN backends \cup {n}
             /\ \A i \in DOMAIN backends : i \in Nat /\ i < n /\ backends'[i] = backends[i]
             /\ backends'[n] = host
<1>1. backends \in Seq(Backends) /\ backends' = Append(backends, host)
  BY DEF ListInv, AddBackend
<1>2. Len(backends) \in Nat /\ DOMAIN backends = 1..Len(backends)
  BY <1>1, LenProperties
<1>3. /\ backends' \in Seq(Backends) /\ Len(backends') = Len(backends) + 1
      /\ \A i \in 1..Len(backends) : backends'[i] = backends[i]
      /\ backends'[Len(backends) + 1] = host
  BY <1>1
<1>4. DOMAIN backends' = 1..(Len(backends) + 1)
  BY <1>3, LenProperties
<1>5. QED
  BY <1>2, <1>3, <1>4

LEMMA KindsGrow ==
  ASSUME ListInv, NEW host \in Backends, AddBackend(host)
  PROVE  LET n == Len(backends) + 1
         IN  /\ Http' = Http \cup (IF Named(host) /\ host.scheme = "http" THEN {n} ELSE {})
             /\ Other' = Other \cup (IF Named(host) /\ host.scheme # "http" THEN {n} ELSE {})
BY ListGrows DEF Http, Other

LEMMA ListStep == ListInv /\ [ListNext]_listVars => ListInv'
<1> SUFFICES ASSUME ListInv, [ListNext]_listVars PROVE ListInv'
  OBVIOUS
<1>1. CASE UNCHANGED listVars
  BY <1>1 DEF ListInv, SeenRules, RulesHaveBackends, BackendsHaveRules, Http, Other, listVars
<1>2. CASE ListNext
  <2>1. PICK host \in Backends : AddBackend(host)
    BY <1>2 DEF ListNext
  <2> DEFINE n == Len(backends) + 1
             name == SeenAs(host)
             new == Named(host) /\ name \notin egress.seen
  <2>2. /\ backends' \in Seq(Backends) /\ n \in Nat
        /\ DOMAIN backends' = DOMAIN backends \cup {n}
        /\ \A i \in DOMAIN backends : i \in Nat /\ i < n /\ backends'[i] = backends[i]
        /\ backends'[n] = host
        /\ Http' = Http \cup (IF Named(host) /\ host.scheme = "http" THEN {n} ELSE {})
        /\ Other' = Other \cup (IF Named(host) /\ host.scheme # "http" THEN {n} ELSE {})
    BY <2>1, ListGrows, KindsGrow
  <2>3. Http \subseteq DOMAIN backends /\ Other \subseteq DOMAIN backends
    BY DEF Http, Other
  <2>4. host.parts \in Seq(Labels) /\ host.parts # <<"">>
    BY BackendsAssumption
  <2>5. Named(host) <=> host.scheme # None /\ host.parts # <<>> /\ name # <<"">>
    <3>1. host.scheme = "http" => (host.parts[1] # "" <=> name # <<"">>)
      BY DEF SeenAs
    <3>2. host.scheme # "http" => name # <<"">>
      BY <2>4 DEF SeenAs
    <3>3. QED
      BY <3>1, <3>2 DEF Named
  <2>6. egress' = AddEgress(egress, host)
    BY <2>1 DEF AddBackend
  <2>7. \A i \in Http \cup Other : i < n /\ i # n /\ backends'[i] = backends[i]
    BY <2>2, <2>3
  <2>8. CASE ~Named(host)
    <3>1. egress' = egress
      BY <2>5, <2>6, <2>8 DEF AddEgress
    <3>2. Http' = Http /\ Other' = Other
      BY <2>2, <2>8
    <3>3. \A i \in Http \cup Other : backends'[i] = backends[i]
      BY <2>2, <2>3
    <3>4. RulesHaveBackends'
      BY <3>1, <3>2, <3>3 DEF ListInv, RulesHaveBackends
    <3>5. ASSUME NEW i \in Http
          PROVE  \/ backends'[i].parts[1] \in egress'.apps
                 \/ \E j \in Other' : j < i /\ backends'[j].parts = <<backends'[i].parts[1]>>
      BY <3>1, <3>2, <3>3 DEF ListInv, BackendsHaveRules
    <3>6. ASSUME NEW i \in Other
          PROVE  \/ backends'[i].parts \in egress'.external
                 \/ \E j \in Http' : j < i /\ backends'[i].parts = <<backends'[j].parts[1]>>
      BY <3>1, <3>2, <3>3 DEF ListInv, BackendsHaveRules
    <3>7. BackendsHaveRules'
      BY <3>2, <3>5, <3>6 DEF BackendsHaveRules
    <3>8. QED
      BY <2>2, <3>1, <3>4, <3>7 DEF ListInv, SeenRules
  <2>9. CASE Named(host) /\ host.scheme = "http"
    <3>1. name = <<host.parts[1]>> /\ name[1] = host.parts[1]
      BY <2>9 DEF SeenAs
    <3>2. Http' = Http \cup {n} /\ Other' = Other
      BY <2>2, <2>9
    <3>3. CASE name \in egress.seen
      <4>1. egress' = egress
        BY <2>5, <2>6, <2>9, <3>3 DEF AddEgress
      <4>2. host.parts[1] \in egress.apps \/ name \in egress.external
        BY <3>1, <3>3 DEF ListInv, SeenRules
      <4>3. name \in egress.external => \E j \in Other : j < n /\ backends[j].parts = name
        BY <2>2, <2>3 DEF ListInv, RulesHaveBackends
      <4>4. BackendsHaveRules'
        <5>1. ASSUME NEW i \in Http
              PROVE  \/ backends'[i].parts[1] \in egress'.apps
                     \/ \E j \in Other' : j < i /\ backends'[j].parts = <<backends'[i].parts[1]>>
          BY <2>7, <3>2, <4>1 DEF ListInv, BackendsHaveRules
        <5>2. \/ backends'[n].parts[1] \in egress'.apps
              \/ \E j \in Other' : j < n /\ backends'[j].parts = <<backends'[n].parts[1]>>
          BY <2>2, <2>7, <3>1, <3>2, <4>1, <4>2, <4>3
        <5>3. ASSUME NEW i \in Other
              PROVE  \/ backends'[i].parts \in egress'.external
                     \/ \E j \in Http' : j < i /\ backends'[i].parts = <<backends'[j].parts[1]>>
          BY <2>7, <3>2, <4>1 DEF ListInv, BackendsHaveRules
        <5>4. QED
          BY <3>2, <5>1, <5>2, <5>3 DEF BackendsHaveRules
      <4>5. RulesHaveBackends'
        BY <2>2, <2>3, <3>2, <4>1 DEF ListInv, RulesHaveBackends
      <4>6. QED
        BY <2>2, <4>1, <4>4, <4>5 DEF ListInv, SeenRules
    <3>4. CASE name \notin egress.seen
      <4>1. egress' = [seen |-> egress.seen \cup {name}, apps |-> egress.apps \cup {host.parts[1]},
                       external |-> egress.external]
        BY <2>5, <2>6, <2>9, <3>1, <3>4 DEF AddEgress
      <4>2. SeenRules'
        BY <3>1, <4>1 DEF ListInv, SeenRules
      <4>3. BackendsHaveRules'
        <5>1. ASSUME NEW i \in Http
              PROVE  \/ backends'[i].parts[1] \in egress'.apps
                     \/ \E j \in Other' : j < i /\ backends'[j].parts = <<backends'[i].parts[1]>>
          BY <2>7, <3>2, <4>1 DEF ListInv, BackendsHaveRules
        <5>2. ASSUME NEW i \in Other
              PROVE  \/ backends'[i].parts \in egress'.external
                     \/ \E j \in Http' : j < i /\ backends'[i].parts = <<backends'[j].parts[1]>>
          BY <2>7, <3>2, <4>1 DEF ListInv, BackendsHaveRules
        <5>3. backends'[n].parts[1] \in egress'.apps
          BY <2>2, <4>1
        <5>4. QED
          BY <3>2, <5>1, <5>2, <5>3 DEF BackendsHaveRules
      <4>4. RulesHaveBackends'
        <5>1. egress.apps \subseteq {backends'[i].parts[1] : i \in Http}
          BY <2>7 DEF ListInv, RulesHaveBackends
        <5>2. egress.external \subseteq {backends'[i].parts : i \in Other}
          BY <2>7 DEF ListInv, RulesHaveBackends
        <5>3. QED
          BY <2>2, <3>2, <4>1, <5>1, <5>2 DEF RulesHaveBackends
      <4>5. QED
        BY <2>2, <4>1, <4>2, <4>3, <4>4 DEF ListInv
    <3>5. QED
      BY <3>3, <3>4
  <2>10. CASE Named(host) /\ host.scheme # "http"
    <3>1. name = host.parts
      BY <2>10 DEF SeenAs
    <3>2. Http' = Http /\ Other' = Other \cup {n}
      BY <2>2, <2>10
    <3>3. CASE name \in egress.seen
      <4>1. egress' = egress
        BY <2>5, <2>6, <2>10, <3>3 DEF AddEgress
      <4>2. host.parts \in egress.external \/ \E a \in egress.apps : host.parts = <<a>>
        BY <3>1, <3>3 DEF ListInv, SeenRules
      <4>3. (\E a \in egress.apps : host.parts = <<a>>) =>
              \E j \in Http : j < n /\ host.parts = <<backends[j].parts[1]>>
        BY <2>2, <2>3 DEF ListInv, RulesHaveBackends
      <4>4. BackendsHaveRules'
        <5>1. ASSUME NEW i \in Http
              PROVE  \/ backends'[i].parts[1] \in egress'.apps
                     \/ \E j \in Other' : j < i /\ backends'[j].parts = <<backends'[i].parts[1]>>
          BY <2>7, <3>2, <4>1 DEF ListInv, BackendsHaveRules
        <5>2. ASSUME NEW i \in Other
              PROVE  \/ backends'[i].parts \in egress'.external
                     \/ \E j \in Http' : j < i /\ backends'[i].parts = <<backends'[j].parts[1]>>
          BY <2>7, <3>2, <4>1 DEF ListInv, BackendsHaveRules
        <5>3. \/ backends'[n].parts \in egress'.external
              \/ \E j \in Http' : j < n /\ backends'[n].parts = <<backends'[j].parts[1]>>
          BY <2>2, <2>7, <3>2, <4>1, <4>2, <4>3
        <5>4. QED
          BY <3>2, <5>1, <5>2, <5>3 DEF BackendsHaveRules
      <4>5. RulesHaveBackends'
        BY <2>2, <2>3, <3>2, <4>1 DEF ListInv, RulesHaveBackends
      <4>6. QED
        BY <2>2, <4>1, <4>4, <4>5 DEF ListInv, SeenRules
    <3>4. CASE name \notin egress.seen
      <4>1. egress' = [seen |-> egress.seen \cup {name}, apps |-> egress.apps,
                       external |-> egress.external \cup {host.parts}]
        BY <2>5, <2>6, <2>10, <3>1, <3>4 DEF AddEgress
      <4>2. SeenRules'
        BY <3>1, <4>1 DEF ListInv, SeenRules
      <4>3. BackendsHaveRules'
        <5>1. ASSUME NEW i \in Http
              PROVE  \/ backends'[i].parts[1] \in egress'.apps
                     \/ \E j \in Other' : j < i /\ backends'[j].parts = <<backends'[i].parts[1]>>
          BY <2>7, <3>2, <4>1 DEF ListInv, BackendsHaveRules
        <5>2. ASSUME NEW i \in Other
              PROVE  \/ backends'[i].parts \in egress'.external
                     \/ \E j \in Http' : j < i /\ backends'[i].parts = <<backends'[j].parts[1]>>
          BY <2>7, <3>2, <4>1 DEF ListInv, BackendsHaveRules
        <5>3. backends'[n].parts \in egress'.external
          BY <2>2, <4>1
        <5>4. QED
          BY <3>2, <5>1, <5>2, <5>3 DEF BackendsHaveRules
      <4>4. RulesHaveBackends'
        <5>1. egress.apps \subseteq {backends'[i].parts[1] : i \in Http}
          BY <2>7 DEF ListInv, RulesHaveBackends
        <5>2. egress.external \subseteq {backends'[i].parts : i \in Other}
          BY <2>7 DEF ListInv, RulesHaveBackends
        <5>3. QED
          BY <2>2, <3>2, <4>1, <5>1, <5>2 DEF RulesHaveBackends
      <4>5. QED
        BY <2>2, <4>1, <4>2, <4>3, <4>4 DEF ListInv
    <3>5. QED
      BY <3>3, <3>4
  <2>11. QED
    BY <2>8, <2>9, <2>10
<1>3. QED
  BY <1>1, <1>2

-----------------------------------------------------------------------------
(* For every list of backend hosts, of any length, and every namespace and *)
(* cluster domain: the gateway reaches exactly the applications the hosts  *)
(* name, nobody else reaches one, and only https leaves the cluster        *)
(* (apiendpoints_controller.go, lines 190-280; netpol.go).                 *)
THEOREM PoliciesReach == ListSpec => []BackendsReached
<1>1. ListInv => BackendsReached
  BY ReachedIfListed DEF ListInv
<1>2. QED
  BY <1>1, ListInitInv, ListStep, PTL DEF ListSpec

(* For every list of backend hosts and of providers: the rules getEgresses *)
(* collects, with those of the providers, cover every provider, every      *)
(* https backend and every http backend that names a service of the        *)
(* namespace, except for a name both kinds share; an http backend anywhere *)
(* else only if an https one or a provider has its host; and nothing else  *)
(* (app.go, lines 84-180).                                                 *)
THEOREM EgressesComplete == ListSpec => []EgressComplete
<1>1. ASSUME ListInv PROVE EgressComplete
  <2> DEFINE app == ToApp(<<>>, <<>>, jwkUrls, egress)
             idps == {jwkUrls[i] : i \in DOMAIN jwkUrls} \ {None}
             Own(i) == backends[i].parts \in ServiceNames(backends[i].parts[1])
             others == {backends[j].parts : j \in Other}
  <2>1. app.apps = egress.apps /\ app.external = idps \cup egress.external
    BY DEF ToApp, getEgressesFromAuth
  <2>2. RulesHaveBackends /\ BackendsHaveRules
    BY <1>1 DEF ListInv
  <2>3. ASSUME NEW i \in Http, ~Own(i)
        PROVE  backends[i].parts \in app.external <=> backends[i].parts \in idps \cup others
    <3>1. backends[i].parts \in egress.external => backends[i].parts \in others
      BY <2>2 DEF RulesHaveBackends
    <3>2. ASSUME NEW j \in Other, backends[i].parts = backends[j].parts
          PROVE  backends[i].parts \in egress.external
      <4>1. ASSUME NEW k \in Http, backends[j].parts = <<backends[k].parts[1]>>
            PROVE  FALSE
        <5>1. backends[i].parts = <<backends[i].parts[1]>>
          BY <3>2, <4>1
        <5>2. QED
          BY <2>3, <5>1 DEF ServiceNames
      <4>2. QED
        BY <2>2, <3>2, <4>1 DEF BackendsHaveRules
    <3>3. QED
      BY <2>1, <3>1, <3>2
  <2>4. QED
    BY <2>1, <2>2, <2>3 DEF EgressComplete, RulesHaveBackends, BackendsHaveRules
<1>2. QED
  BY <1>1, ListInitInv, ListStep, PTL DEF ListSpec
=============================================================================
