------------------------------ MODULE MCOperator ------------------------------
(* Small instances of Operator for TLC: one Krakend, one ApiEndpoints.     *)
EXTENDS Operator, TLC

Host(app) == [scheme |-> "http", parts |-> <<app>>]
Endpoint(p, h) == [path |-> p, backendHost |-> h]

(* An open endpoint and one that needs the auth provider "p".               *)
MCESpec == [krakend |-> None, auth |-> [name |-> "p", claims |-> "c"], rateLimit |-> None,
            endpoints |-> <<Endpoint("/a", Host("app"))>>,
            openEndpoints |-> <<Endpoint("/b", Host("app"))>>]
MCESpecs == {MCESpec}
OneApp == {"app"}
KSpec(i) == [authProviders |-> <<[name |-> "p", issuer |-> i]>>]
OneKSpec == {KSpec("i")}
NoSpecs == {}
OneName == {"n"}
OneKrakend == {"ns"}
NoResource == {}
UnsetDomain == <<"">>    \* main.go does not set it

Bounds(op, krakendOp, fault, restart, resync, gc) ==
  [op |-> op, krakendOp |-> krakendOp, fault |-> fault, restart |-> restart,
   resync |-> resync, gc |-> gc]

SafetyBound == Bounds(1, 2, 1, 1, 0, 1)
LiveBound   == Bounds(2, 2, 1, 1, 0, 0)

(* The Krakend is installed at first.                                      *)
Installed == OperatorInit /\ K!Current.phase = "live"

InstalledSpec == Installed /\ [][OperatorNext]_operatorVars

(* A failed call or a restart, not both.                                   *)
OneIncident == used'["fault"] + used'["restart"] <= 1

LiveSpec == Installed /\ [][OperatorNext /\ OneIncident]_operatorVars /\ OperatorFairness
=============================================================================
