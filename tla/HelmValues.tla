----------------------------- MODULE HelmValues -----------------------------
(***************************************************************************)
(* How the settings of a Krakend reach the templates of the chart:         *)
(* prepareValues and toMap of the Krakend controller, render and           *)
(* overrideValues of internal/helm.                                        *)
(*                                                                         *)
(* Settings are [enabled, hosts, ingressHost, replicaCount, tag], the      *)
(* fields users most often give (the others are handled alike).  A setting *)
(* is a sequence: <<v>> for a scalar, <<>> for Go's zero value (false, 0,  *)
(* "", nil); hosts is a sequence of [host, paths].                         *)
(*                                                                         *)
(* A value of a map[string]any is a node: a leaf with its val, or a map    *)
(* with its sub, a function from keys to nodes.                            *)
(***************************************************************************)
EXTENDS Naturals, Sequences, TLC

Leaf(v) == [map |-> FALSE, val |-> v, sub |-> <<>>]
Map(f)  == [map |-> TRUE, val |-> <<>>, sub |-> f]
Empty   == <<>>     \* the map without keys

(* Mutant: maps are replaced, not merged.                                  *)
ShallowOverride(target, overrides) == overrides @@ target

(* overrideValues(target, overrides): what target is afterwards.           *)
RECURSIVE overrideValues(_, _)
overrideValues(target, overrides) ==
  [key \in DOMAIN target \cup DOMAIN overrides |->
     IF key \notin DOMAIN overrides THEN target[key]
     ELSE IF ~overrides[key].map THEN overrides[key]
     ELSE Map(overrideValues(IF key \in DOMAIN target /\ target[key].map
                             THEN target[key].sub ELSE Empty,
                             overrides[key].sub))]

(* Mutant: zero values are marshalled, too (no omitempty).                 *)
KeepZero(fields) == fields

(* A struct through JSON: every scalar and list field is tagged omitempty, *)
(* so zero values are dropped; structs are kept.                           *)
toMap(fields) == [key \in {f \in DOMAIN fields : fields[f].map \/ fields[f].val # <<>>} |->
                    fields[key]]

(* Neither ingress.hosts nor ingressHost: prepareValues returns an error.  *)
Hostless(s) == s.hosts = <<>> /\ s.ingressHost = <<>>

(* ingressHost counts only if ingress.hosts is empty.                      *)
IngressHosts(s) ==
  IF s.hosts # <<>> THEN s.hosts
  ELSE <<[host |-> s.ingressHost[1], paths |-> <<"/">>]>>

(* The fields of the types Ingress and KrakendDeployment.                  *)
IngressFields(s) == "enabled" :> Leaf(s.enabled) @@ "hosts" :> Leaf(IngressHosts(s))

DeploymentFields(s) ==
  "replicaCount" :> Leaf(s.replicaCount) @@ "image" :> Map(toMap("tag" :> Leaf(s.tag)))

prepareValues(s) == "ingress" :> Map(toMap(IngressFields(s))) @@ toMap(DeploymentFields(s))

(* What installer/krakend/values.yaml says of these fields.                *)
ChartValues ==
  "krakend" :> Map(
       "ingress" :> Map("enabled" :> Leaf(<<"true">>))
    @@ "replicaCount" :> Leaf(<<"2">>)
    @@ "image" :> Map("tag" :> Leaf(<<"2.5.1">>)))

(* chartutil.ToRenderValues: the given values over those of the chart.     *)
RECURSIVE Coalesce(_, _)
Coalesce(values, defaults) ==
  [key \in DOMAIN values \cup DOMAIN defaults |->
     IF key \notin DOMAIN values THEN defaults[key]
     ELSE IF key \in DOMAIN defaults /\ values[key].map /\ defaults[key].map
     THEN Map(Coalesce(values[key].sub, defaults[key].sub))
     ELSE values[key]]

(* render: the values the engine gets.  overrideValues writes the given    *)
(* ones beside "Values"; templates read only what is below it.             *)
render(values) ==
  overrideValues("Values" :> Map(Coalesce(values, ChartValues)), values)

(* The node at a path of keys; a leaf of the zero value if there is none.  *)
RECURSIVE At(_, _)
At(m, path) ==
  IF Head(path) \notin DOMAIN m THEN Leaf(<<>>)
  ELSE IF Len(path) = 1 THEN m[Head(path)]
  ELSE IF m[Head(path)].map THEN At(m[Head(path)].sub, Tail(path))
  ELSE Leaf(<<>>)

(* What a template of the krakend chart reads for a Krakend's settings.    *)
TemplateReads(s, path) ==
  At(render("krakend" :> Map(prepareValues(s))), <<"Values", "krakend">> \o path).val
=============================================================================
