------------------------------ MODULE MCKrakend ------------------------------
(* Small instances of KrakendController for TLC.                           *)
EXTENDS KrakendController, TLC

CONSTANTS i1, i2, i3, deployment, ingress    \* issuers and resources (model values)

KSpec(i) == [authProviders |-> <<[name |-> "p", issuer |-> i]>>]
MCSpecs == {KSpec(i1), KSpec(i2)}
MCSpecsBad == MCSpecs \cup {KSpec(i3)}
MCNoHost == {KSpec(i3)}
NoSpecs == {}
MCESpecs ==
  {[krakend |-> None, auth |-> [name |-> "p", claims |-> "c"], rateLimit |-> None,
    endpoints |-> <<[path |-> "/a", backendHost |-> None]>>, openEndpoints |-> <<>>]}
OneKrakend == {"ns"}
OneName == {"a"}
OneResource == {deployment}
TwoResources == {deployment, ingress}
Symmetry == Permutations({i1, i2})

Bounds(op, krakendOp, fault, restart, resync, gc) ==
  [op |-> op, krakendOp |-> krakendOp, fault |-> fault, restart |-> restart,
   resync |-> resync, gc |-> gc]

InstallBound == Bounds(1, 3, 1, 1, 1, 1)
StaleBound   == Bounds(1, 1, 1, 0, 0, 0)
=============================================================================
