---------------------------- MODULE MCApiEndpoints ----------------------------
(* Small instances of ApiEndpointsController, and of Migration on top of   *)
(* it, for TLC.                                                            *)
EXTENDS Migration, TLC

CONSTANTS n1, n2     \* the two ApiEndpoints names (model values)

Host(app)     == [scheme |-> "http", parts |-> <<app>>]
ServiceHost(app) == [scheme |-> "http", parts |-> <<app, "ns">>]
Provider(p, i) == [name |-> p, issuer |-> i]
Endpoint(p, h)    == [path |-> p, backendHost |-> h]

ESpec(k, auth, open, closed) ==
  [krakend |-> k, auth |-> [name |-> auth, claims |-> "c"], rateLimit |-> None,
   endpoints |-> closed, openEndpoints |-> open]

(* Two specs that share no path, and one that shares a path with the first. *)
SpecA == ESpec(None, "p", <<>>, <<Endpoint("/a", Host("app1"))>>)
SpecB == ESpec(None, "p", <<Endpoint("/b", Host("app2"))>>, <<>>)
SpecC == ESpec(None, "p", <<Endpoint("/a", Host("app2"))>>, <<Endpoint("/c", ServiceHost("app1"))>>)
SpecD == ESpec(None, "p", <<>>, <<Endpoint("/d", Host("app1")), Endpoint("/e", ServiceHost("app2"))>>)
SpecQ == ESpec(None, "q", <<>>, <<Endpoint("/q", Host("app1"))>>)

OneKrakend == {"ns"}
KSpecP == [authProviders |-> <<Provider("p", "i1")>>]
KSpecPQ == [authProviders |-> <<Provider("p", "i1"), Provider("q", "i2")>>]

MCNames == {n1, n2}
Symmetry == Permutations(MCNames)

TwoKrakends == {"ns", "other"}
SpecOther == ESpec("other", "p", <<>>, <<Endpoint("/a", Host("app1"))>>)

SpecsAB == {SpecA, SpecB}
SpecsAC == {SpecA, SpecC}
SpecsAD == {SpecA, SpecD}
SpecsAQ == {SpecA, SpecQ}
SpecsTwo == {SpecB, SpecOther}
OnlyP == {KSpecP}
PAndPQ == {KSpecP, KSpecPQ}
MCApps == {"app1", "app2"}
UnsetDomain == <<"">>    \* main.go does not set it

Bounds(op, krakendOp, fault, restart, resync, gc) ==
  [op |-> op, krakendOp |-> krakendOp, fault |-> fault, restart |-> restart,
   resync |-> resync, gc |-> gc]

ReconcileBound == Bounds(3, 0, 1, 1, 0, 0)
KrakendBound   == Bounds(2, 1, 0, 0, 0, 0)
NetpolBound    == Bounds(2, 0, 0, 0, 1, 1)
ThreeOps       == Bounds(3, 0, 0, 0, 0, 1)
TwoOps         == Bounds(2, 0, 0, 0, 0, 0)
=============================================================================
