------------------------------- MODULE Cluster -------------------------------
(***************************************************************************)
(* The Kubernetes API server and the shared informer caches of the         *)
(* operator's manager, as the operator uses them (external code).          *)
(*                                                                         *)
(* All objects of one kind in one namespace are kept in a log (module      *)
(* Log), whose snapshots map names to objects.                             *)
(*                                                                         *)
(* An object carries a resource version rv that every write increases; an  *)
(* update made with an older rv is refused (conflict).  uid counts the     *)
(* incarnations of a name.                                                 *)
(***************************************************************************)
EXTENDS Gateway, Log

CONSTANTS Names,      \* names of ApiEndpoints resources in the namespace
          Krakends,   \* names of Krakend resources in the namespace
          Namespace,  \* the namespace's own name
          ESpecs,     \* the ApiEndpointsSpec values users write
          KSpecs,     \* the KrakendSpec values users write
          Apps        \* names of applications in the namespace

(* spec.krakend, defaulting to the namespace's name.                       *)
krakendName(spec) == IF spec.krakend = None THEN Namespace ELSE spec.krakend

(* hashstructure.Hash of a spec, printed in hex; collisions of the 64-bit  *)
(* hash are ignored.                                                       *)
hashEndpoints(spec) == <<"hash", spec>>

(* Krakends holds every name a spec can ask for, whether it exists or not. *)
ASSUME ClusterAssumption ==
  /\ None \notin Names /\ None \notin Krakends /\ None \notin Apps
  /\ None \notin ESpecs /\ None \notin KSpecs
  /\ \A s \in ESpecs : krakendName(s) \in Krakends
  /\ \A s \in ESpecs : hashEndpoints(s) # None

(* No owner reference is nil.                                              *)
ASSUME OwnerAssumption == None \notin Krakends \X Nat

-----------------------------------------------------------------------------
Phase == {"absent", "live", "deleting"}   \* deleting: deletionTimestamp set

(* api/v1 ApiEndpoints: spec, the one finalizer the operator uses, the     *)
(* owner reference (a Krakend name and uid), status.synchronizationHash.   *)
ApiEndpoints ==
  {e \in [phase : Phase, rv : Nat, uid : Nat, spec : ESpecs \cup {None},
          finalizer : BOOLEAN, owner : (Krakends \X Nat) \cup {None},
          hash : {hashEndpoints(s) : s \in ESpecs} \cup {None}] :
     e.phase = "absent" \/ e.spec # None}

GoneEndpoints(rv, uid) ==
  [phase |-> "absent", rv |-> rv, uid |-> uid, spec |-> None,
   finalizer |-> FALSE, owner |-> None, hash |-> None]

NewEndpoints(e, s) ==
  [phase |-> "live", rv |-> e.rv + 1, uid |-> e.uid + 1, spec |-> s,
   finalizer |-> FALSE, owner |-> None, hash |-> None]

(* DELETE: an object without finalizers disappears, one with a finalizer   *)
(* gets a deletion timestamp.                                              *)
DeletedEndpoints(e) ==
  IF e.finalizer THEN [e EXCEPT !.phase = "deleting", !.rv = @ + 1]
                 ELSE GoneEndpoints(e.rv + 1, e.uid)

(* api/v1 Krakend; hash is status.synchronizationHash, here the spec it is *)
(* the hash of.                                                            *)
Krakend ==
  {k \in [phase : {"absent", "live"}, rv : Nat, uid : Nat,
          spec : KSpecs \cup {None}, hash : KSpecs \cup {None}] :
     k.phase = "absent" \/ k.spec # None}

GoneKrakend(k) ==
  [phase |-> "absent", rv |-> k.rv + 1, uid |-> k.uid, spec |-> None, hash |-> None]

NoKrakend == [phase |-> "absent", rv |-> 0, uid |-> 0, spec |-> None, hash |-> None]

(* The routes a partials ConfigMap can hold.                               *)
Route == {ChartRoute} \cup
         UNION {parseKrakendEndpointsSpec(k, n, s) : k \in KSpecs, n \in Names, s \in ESpecs}

(* The ConfigMap <krakend>-krakend-partials; owner is the uid of the       *)
(* Krakend it was rendered for, data the value of key endpoints.tmpl.      *)
ConfigMap == [phase : {"absent", "live"}, rv : Nat, owner : Nat, data : SUBSET Route]

NoConfigMap == [phase |-> "absent", rv |-> 0, owner |-> 0, data |-> {}]

(* The NetworkPolicy allow-<krakend>-<app>, with its owner reference.      *)
NetworkPolicy == [phase : {"absent", "live"}, rv : Nat, owner : (Names \X Nat) \cup {None}]

(* Mutant: deleted objects are kept.                                       *)
AllSpecs(snap) == [n \in {m \in DOMAIN snap : snap[m].phase # "absent"} |-> snap[n].spec]

(* The live ApiEndpoints of a snapshot: those without deletion timestamp.  *)
LiveSpecs(snap) ==
  [n \in {m \in DOMAIN snap : snap[m].phase = "live"} |-> snap[n].spec]
=============================================================================
