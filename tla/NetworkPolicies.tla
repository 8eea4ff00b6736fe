-------------------------- MODULE NetworkPolicies --------------------------
(***************************************************************************)
(* internal/netpol: what the two kinds of policies the controllers create  *)
(* let through.  An end of a connection is a pod with its namespace and    *)
(* labels, or an address outside the cluster, public or in one of the      *)
(* ranges KrakendNetpol excepts.  A rule admits a kind of end ("pod" in    *)
(* namespace ns, None for all, with the given labels; or "public") on a    *)
(* port (None for all).                                                    *)
(***************************************************************************)
EXTENDS ServiceDiscovery

KrakendNameLabel == "krakend"

(* A set of one label.                                                     *)
Label(key, value) == [l \in {key} |-> value]

Pod(ns, labels) == [kind |-> "pod", ns |-> ns, labels |-> labels]
Address(kind) == [kind |-> kind, ns |-> None, labels |-> <<>>]

PodRule(ns, labels) == [kind |-> "pod", ns |-> ns, labels |-> labels, port |-> None]

(* The gateway's policy: from all pods; to public addresses by port 443    *)
(* and to all pods.                                                        *)
KrakendNetpol(ns) ==
  [ns |-> ns, labels |-> Label("app.kubernetes.io/name", "krakend"),
   ingress |-> {PodRule(None, <<>>)},
   egress |-> {[kind |-> "public", ns |-> None, labels |-> <<>>, port |-> 443],
               PodRule(None, <<>>)}]

(* The policy of an application: from the gateway's pods in the namespace. *)
AppAllowKrakendIngressNetpol(ns, app) ==
  [ns |-> ns, labels |-> Label("app", app),
   ingress |-> {PodRule(ns, Label("app.kubernetes.io/name", KrakendNameLabel))},
   egress |-> {}]

-----------------------------------------------------------------------------
Matches(labels, end) ==
  \A l \in DOMAIN labels : l \in DOMAIN end.labels /\ end.labels[l] = labels[l]

Admits(rule, end, port) ==
  /\ rule.kind = end.kind /\ rule.ns \in {None, end.ns} /\ rule.port \in {None, port}
  /\ Matches(rule.labels, end)

Selected(policies, pod) == {p \in policies : p.ns = pod.ns /\ Matches(p.labels, pod)}

(* The cluster's own default denies what no policy admits at either end.   *)
AdmittedAt(policies, src, dst, port) ==
  dst.kind = "pod" => \E p \in Selected(policies, dst) : \E r \in p.ingress : Admits(r, src, port)

Connects(policies, src, dst, port) ==
  /\ \E p \in Selected(policies, src) : \E r \in p.egress : Admits(r, dst, port)
  /\ AdmittedAt(policies, src, dst, port)
=============================================================================
