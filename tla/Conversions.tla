----------------------------- MODULE Conversions -----------------------------
(***************************************************************************)
(* The pure conversions of the operator and of the migration tool, each    *)
(* with inputs of its own: the backend lists of BackendLists; the settings *)
(* of a Krakend on their way to the chart's templates and to the migrated  *)
(* Application; maps of values that are put over others.                   *)
(***************************************************************************)
EXTENDS BackendLists, HelmValues

CONSTANTS
  Settings,                \* settings of a Krakend
  Trees, Keys              \* maps of values, and the keys they may use

VARIABLE input    \* which conversion, and what it is given

Init ==
  \/ ListInit /\ input = [kind |-> "backends"]
  \/ /\ jwkUrls = <<>> /\ backends = <<>> /\ egress = NoEgress
     /\ \/ \E s \in Settings : input = [kind |-> "settings", settings |-> s]
        \/ \E t, o \in Trees : input = [kind |-> "values", target |-> t, overrides |-> o]

NextBackend == input.kind = "backends" /\ ListNext /\ UNCHANGED input

ChangeSettings(s) ==
  /\ input.kind = "settings"
  /\ input' = [input EXCEPT !.settings = s]
  /\ UNCHANGED listVars

(* What was merged is the target of further overrides.                     *)
OverrideAgain(o) ==
  /\ input.kind = "values"
  /\ input' = [input EXCEPT !.target = overrideValues(@, input.overrides), !.overrides = o]
  /\ UNCHANGED listVars

Next == \/ NextBackend
        \/ \E s \in Settings : ChangeSettings(s)
        \/ \E o \in Trees : OverrideAgain(o)

Spec == Init /\ [][Next]_<<listVars, input>>

-----------------------------------------------------------------------------
(* The migrated application is reached where the operator's ingress is: at *)
(* every host, and at its path if it has just one (app.go, lines 182-198;  *)
(* several are run together).  A Krakend with only the shortcut            *)
(* ingressHost is the exception: the application gets no ingress at all.   *)
IngressesKept ==
  input.kind = "settings" /\ ~Hostless(input.settings) /\ input.settings.hosts # <<>> =>
    LET s == input.settings
        rendered == TemplateReads(s, <<"ingress", "hosts">>)
    IN  \A i \in DOMAIN rendered :
          \E ing \in ToApp(s.hosts, s.replicaCount, <<>>, NoEgress).ingresses :
            /\ ing.host = rendered[i].host
            /\ Len(rendered[i].paths) = 1 =>
                 ing.path = IF rendered[i].paths = <<"/">> THEN <<>> ELSE rendered[i].paths

(* Every setting reaches the chart's templates through JSON, the chart's   *)
(* defaults and two merges (krakend_controller.go, lines 197-230 and 285;  *)
(* helm.go, 64-94), except a zero value: where the chart has a default,    *)
(* "enabled: false" and "replicaCount: 0" cannot be asked for, as the      *)
(* types drop them (krakend_types.go, lines 38 and 49).                    *)
SettingsReach ==
  input.kind = "settings" /\ ~Hostless(input.settings) =>
    LET s == input.settings
        Default(path) == At(ChartValues, <<"krakend">> \o path).val
        Given(v, path) == TemplateReads(s, path) = IF v = <<>> THEN Default(path) ELSE v
    IN  /\ Given(s.enabled, <<"ingress", "enabled">>)
        /\ Given(s.replicaCount, <<"replicaCount">>)
        /\ Given(s.tag, <<"image", "tag">>)
        /\ TemplateReads(s, <<"ingress", "hosts">>) # <<>>
        /\ s.hosts # <<>> => TemplateReads(s, <<"ingress", "hosts">>) = s.hosts

PathsOf(keys) == {<<k>> : k \in keys} \cup {<<k, l>> : k, l \in keys}

(* overrideValues is a deep merge (helm.go, lines 81-94): at every path    *)
(* the result has the leaf of the overrides, or else that of the target    *)
(* unless the overrides put a leaf above it or a map in its place.         *)
MergeIsDeep ==
  input.kind = "values" =>
    LET t == input.target
        o == input.overrides
        merged == overrideValues(t, o)
        Hidden(path) == At(o, path).map \/ At(o, <<Head(path)>>).val # <<>>
    IN  \A path \in PathsOf(Keys) :
          At(merged, path).val =
            IF At(o, path).val # <<>> THEN At(o, path).val
            ELSE IF Hidden(path) THEN <<>> ELSE At(t, path).val
=============================================================================
