-------------------------- MODULE ApiEndpointsProofs --------------------------
(***************************************************************************)
(* Proofs about ApiEndpointsController: type correctness, that it          *)
(* implements Admission, and that policies come before the status.         *)
(***************************************************************************)
EXTENDS ApiEndpointsController, AdmissionProofs

DeletionPath == {"getKrakend", "getConfigMap", "list", "updateConfigMap", "removeFinalizer"}

(* Reconcile's copy is at most as new as the cache.                        *)
LocalOld ==
  pc # "idle" =>
    /\ local.rv <= Cached(epsLog)[req].rv
    /\ local.rv = Cached(epsLog)[req].rv => local = Cached(epsLog)[req]

(* The copy of the Krakend is of the stored incarnation or an earlier one. *)
KrakendKnown == krak # None => krakCopy.uid <= Stored(krLog)[krak].uid

(* Only the deletion path runs without a hash, and it alone ends in the    *)
(* removal of the finalizer.                                               *)
PathOK ==
  /\ pc # "idle" /\ hash = None => pc \in DeletionPath /\ local.phase = "deleting"
  /\ pc = "removeFinalizer" => local.phase = "deleting"

ControllerInv == AdmissionInv /\ TypeOK /\ LocalOld /\ KrakendKnown /\ PathOK

-----------------------------------------------------------------------------
LEMMA SnapshotTypes ==
  ASSUME TypeOK
  PROVE  /\ epsLog \in Seq([Names -> ApiEndpoints]) /\ epsLog # <<>>
         /\ Len(epsLog) \in Nat \ {0}
         /\ Stored(epsLog) \in [Names -> ApiEndpoints]
         /\ Cached(epsLog) \in [Names -> ApiEndpoints]
         /\ Stored(epsLog) = epsLog[Len(epsLog)] /\ Cached(epsLog) = epsLog[1]
         /\ Stored(krLog) \in [Krakends -> Krakend] /\ Cached(krLog) \in [Krakends -> Krakend]
         /\ Stored(cmLog) \in [Krakends -> ConfigMap] /\ Cached(cmLog) \in [Krakends -> ConfigMap]
         /\ Stored(npLog) \in [NetpolKeys -> NetworkPolicy]
         /\ Cached(npLog) \in [NetpolKeys -> NetworkPolicy]
<1>1. epsLog \in Seq([Names -> ApiEndpoints]) /\ epsLog # <<>>
  BY DEF TypeOK, AdmissionTypeOK
<1>2. krLog \in Seq([Krakends -> Krakend]) /\ krLog # <<>>
  BY DEF TypeOK, AdmissionTypeOK
<1>3. cmLog \in Seq([Krakends -> ConfigMap]) /\ cmLog # <<>>
  BY DEF TypeOK
<1>4. npLog \in Seq([NetpolKeys -> NetworkPolicy]) /\ npLog # <<>>
  BY DEF TypeOK
<1>5. QED
  BY <1>1, <1>2, <1>3, <1>4 DEF Stored, Cached

(* An update the API server accepts was made from the stored object.       *)
LEMMA UpToDateMeans ==
  ASSUME ControllerInv, pc # "idle", Stored(epsLog)[req].rv = local.rv
  PROVE  /\ req \in Names
         /\ local = Stored(epsLog)[req]
         /\ \A i \in 1..Len(epsLog) : epsLog[i][req] = local
<1>1. req \in Names
  BY DEF ControllerInv, TypeOK
<1>2. /\ Len(epsLog) \in Nat \ {0}
      /\ \A i \in 1..Len(epsLog) : epsLog[i][req].rv \in Nat
      /\ Stored(epsLog) = epsLog[Len(epsLog)] /\ Cached(epsLog) = epsLog[1]
  BY <1>1, SnapshotTypes DEF ControllerInv, ApiEndpoints
<1>3. local.rv <= epsLog[1][req].rv /\ local.rv \in Nat
  BY <1>2 DEF ControllerInv, LocalOld, TypeOK, ApiEndpoints
<1>4. ASSUME NEW i \in 1..Len(epsLog) PROVE epsLog[i][req] = local
  <2>1. /\ epsLog[1][req].rv <= epsLog[i][req].rv
        /\ epsLog[i][req].rv <= epsLog[Len(epsLog)][req].rv
        /\ epsLog[1][req].rv = epsLog[i][req].rv => epsLog[1][req] = epsLog[i][req]
    BY <1>1, <1>2 DEF ControllerInv, AdmissionInv, VersionsGrow
  <2>2. epsLog[1][req].rv = local.rv /\ epsLog[i][req].rv = local.rv
    BY <1>2, <1>3, <2>1
  <2>3. QED
    BY <1>2, <2>1, <2>2 DEF ControllerInv, LocalOld
<1>5. QED
  BY <1>1, <1>2, <1>4

(* Every step of the controller and its environment is a step of           *)
(* Admission or leaves its variables alone.                                *)
LEMMA RefinementStep ==
  ASSUME ControllerInv, [Next]_vars
  PROVE  [AdmissionNext]_admissionVars
<1>1. ASSUME NEW n \in Names, NEW outside \in BOOLEAN, Start(n, outside)
      PROVE  [AdmissionNext]_admissionVars
  <2>1. UNCHANGED <<epsLog, krLog, inflight, history>> /\ (UNCHANGED used \/ Spend("resync"))
    BY <1>1 DEF Start
  <2>2. QED
    BY <2>1 DEF AdmissionNext, admissionVars
<1>2. CASE GetKrakend \/ GetConfigMap \/ ListEndpoints \/ Refetch \/ AdmitFinalizer
  BY <1>2 DEF GetKrakend, GetConfigMap, ListEndpoints, Refetch, AdmitFinalizer, clusterVars
<1>3. CASE UpdateConfigMap \/ \E app \in apps : EnsureNetpol(app)
  BY <1>3 DEF UpdateConfigMap, EnsureNetpol
<1>4. CASE AddFinalizer
  <2>1. CASE UNCHANGED epsLog
    BY <1>4, <2>1 DEF AddFinalizer, admissionVars
  <2>2. CASE UpToDate(local) /\ Write([local EXCEPT !.finalizer = TRUE,
                    !.owner = IF @ = None THEN <<krak, krakCopy.uid>> ELSE @])
    <3> DEFINE e == Stored(epsLog)[req]
               o == IF e.owner = None THEN <<krak, krakCopy.uid>> ELSE e.owner
    <3>1. req \in Names /\ local = e /\ e \in ApiEndpoints /\ e.phase # "absent"
      BY <1>4, <2>2, UpToDateMeans, SnapshotTypes DEF AddFinalizer, UpToDate, ControllerInv
    <3>2. /\ krak \in Krakends /\ krakCopy.uid <= Stored(krLog)[krak].uid
          /\ krakCopy.uid \in Nat /\ Stored(krLog)[krak].uid \in Nat
      BY <1>4, SnapshotTypes DEF AddFinalizer, ControllerInv, TypeOK, KrakendKnown, PCs, Krakend
    <3>3. o \in {e.owner} \cup Incarnations
      BY <3>2 DEF Incarnations
    <3>4. [[local EXCEPT !.finalizer = TRUE,
                    !.owner = IF @ = None THEN <<krak, krakCopy.uid>> ELSE @] EXCEPT !.rv = @ + 1]
          = [e EXCEPT !.finalizer = TRUE, !.owner = o, !.hash = e.hash, !.rv = @ + 1]
      BY <3>1 DEF ApiEndpoints
    <3>5. epsLog' = Put(epsLog, req, [e EXCEPT !.finalizer = TRUE, !.owner = o,
                                               !.hash = e.hash, !.rv = @ + 1])
      BY <2>2, <3>4 DEF Write
    <3>6. ControllerWrites(req)
      <4> HIDE DEF o
      <4> QED BY <1>4, <3>1, <3>3, <3>5 DEF ControllerWrites, AddFinalizer
    <3>7. QED
      BY <3>1, <3>6 DEF AdmissionNext
  <2>3. QED
    BY <1>4, <2>1, <2>2 DEF AddFinalizer
<1>5. CASE UpdateStatus
  <2>1. CASE UNCHANGED epsLog
    BY <1>5, <2>1 DEF UpdateStatus, admissionVars
  <2>2. CASE UpToDate(local) /\ Write([local EXCEPT !.hash = hash])
    <3> DEFINE e == Stored(epsLog)[req]
    <3>1. req \in Names /\ local = e /\ e \in ApiEndpoints /\ e.phase # "absent"
      BY <1>5, <2>2, UpToDateMeans, SnapshotTypes DEF UpdateStatus, UpToDate, ControllerInv
    <3>2. hash \in {hashEndpoints(s) : s \in ESpecs}
      BY <1>5 DEF UpdateStatus, ControllerInv, TypeOK, PathOK, DeletionPath
    <3>3. [[local EXCEPT !.hash = hash] EXCEPT !.rv = @ + 1]
          = [e EXCEPT !.finalizer = e.finalizer, !.owner = e.owner, !.hash = hash, !.rv = @ + 1]
      BY <3>1 DEF ApiEndpoints
    <3>4. epsLog' = Put(epsLog, req, [e EXCEPT !.finalizer = e.finalizer, !.owner = e.owner,
                                               !.hash = hash, !.rv = @ + 1])
      BY <2>2, <3>3 DEF Write
    <3>5. ControllerWrites(req)
      BY <1>5, <3>1, <3>2, <3>4 DEF ControllerWrites, UpdateStatus
    <3>6. QED
      BY <3>1, <3>5 DEF AdmissionNext
  <2>3. QED
    BY <1>5, <2>1, <2>2 DEF UpdateStatus
<1>6. CASE RemoveFinalizer
  <2>1. CASE UNCHANGED epsLog
    BY <1>6, <2>1 DEF RemoveFinalizer, admissionVars
  <2>2. CASE UpToDate(local) /\ epsLog' = Put(epsLog, req, GoneEndpoints(local.rv + 1, local.uid))
    <3>1. req \in Names /\ local = Stored(epsLog)[req] /\ local.phase = "deleting"
      BY <1>6, <2>2, UpToDateMeans DEF RemoveFinalizer, UpToDate, ControllerInv, PathOK
    <3>2. ControllerWrites(req)
      BY <1>6, <2>2, <3>1 DEF ControllerWrites, RemoveFinalizer
    <3>3. QED
      BY <3>1, <3>2 DEF AdmissionNext
  <2>3. QED
    BY <1>6, <2>1, <2>2 DEF RemoveFinalizer
<1>7. CASE UserStep \/ Restart \/ ObserveEndpoints \/ ObserveKrakends
  BY <1>7 DEF AdmissionNext, Restart, ObserveEndpoints, ObserveKrakends
<1>8. CASE Fault \/ Resync
  BY <1>8 DEF Fault, Resync, AdmissionNext
<1>9. CASE ObserveConfigMaps \/ ObserveNetpols \/ \E k \in Krakends : GcConfigMap(k)
  BY <1>9 DEF ObserveConfigMaps, ObserveNetpols, GcConfigMap
<1>10. ASSUME NEW key \in NetpolKeys, GcNetpol(key) PROVE [AdmissionNext]_admissionVars
  BY <1>10 DEF GcNetpol, AdmissionNext
<1>11. CASE UNCHANGED vars
  BY <1>11 DEF vars, admissionVars
<1>12. QED
  BY <1>1, <1>2, <1>3, <1>4, <1>5, <1>6, <1>7, <1>8, <1>9, <1>10, <1>11
  DEF Next, Reconcile, Environment

-----------------------------------------------------------------------------
LEMMA PutConfigMap ==
  ASSUME cmLog \in Seq([Krakends -> ConfigMap]), cmLog # <<>>,
         NEW k \in Krakends, NEW obj \in ConfigMap
  PROVE  LET new == Put(cmLog, k, obj)
         IN  /\ new \in Seq([Krakends -> ConfigMap]) /\ new # <<>>
             /\ Stored(new) = [Stored(cmLog) EXCEPT ![k] = obj]
  BY DEF Put, Stored

LEMMA PutNetpol ==
  ASSUME npLog \in Seq([NetpolKeys -> NetworkPolicy]), npLog # <<>>,
         NEW key \in NetpolKeys, NEW obj \in NetworkPolicy
  PROVE  Put(npLog, key, obj) \in Seq([NetpolKeys -> NetworkPolicy]) /\ Put(npLog, key, obj) # <<>>
  BY SMTT(30) DEF Put, Stored

(* The generated routes have their type, and come from live objects.       *)
LEMMA RoutesFacts ==
  ASSUME NEW ks \in KSpecs, NEW snap \in [Names -> ApiEndpoints]
  PROVE  /\ ToKrakendEndpoints(ks, LiveSpecs(snap)) \subseteq Route
         /\ \A r \in ToKrakendEndpoints(ks, LiveSpecs(snap)) :
              r.src \in Names /\ snap[r.src].phase = "live"
<1> DEFINE items == LiveSpecs(snap)
<1>1. DOMAIN items = {m \in Names : snap[m].phase = "live"}
  BY DEF LiveSpecs
<1>2. \A n \in DOMAIN items : items[n] \in ESpecs
  <2>1. \A n \in Names : snap[n] \in ApiEndpoints
    OBVIOUS
  <2>2. QED
    BY <1>1, <2>1 DEF LiveSpecs, ApiEndpoints
<1>3. SUFFICES ASSUME NEW n \in DOMAIN items, NEW r \in parseKrakendEndpointsSpec(ks, n, items[n])
               PROVE  r \in Route /\ r.src = n
  <2> HIDE DEF items
  <2> QED BY <1>1 DEF ToKrakendEndpoints, items
<1>4. r \in Route
  BY <1>1, <1>2 DEF Route
<1>5. r.src = n
  BY DEF parseKrakendEndpointsSpec, parseEndpoint
<1>6. QED
  BY <1>4, <1>5

LEMMA ReturnType ==
  ASSUME TypeOK, Return, AdmissionTypeOK',
         cmLog' \in Seq([Krakends -> ConfigMap]), cmLog' # <<>>,
         npLog' \in Seq([NetpolKeys -> NetworkPolicy]), npLog' # <<>>,
         queue' \subseteq Names
  PROVE  TypeOK' /\ LocalOld' /\ KrakendKnown' /\ PathOK'
<1>1. NoEndpoints \in ApiEndpoints
  BY DEF NoEndpoints, GoneEndpoints, ApiEndpoints, Phase
<1>2. NoKrakend \in Krakend /\ NoConfigMap \in ConfigMap
  BY DEF NoKrakend, Krakend, NoConfigMap, ConfigMap
<1>3. TypeOK'
  BY <1>1, <1>2, ClusterAssumption DEF Return, TypeOK, PCs
<1>4. QED
  BY <1>3 DEF Return, LocalOld, KrakendKnown, PathOK

LEMMA FailType ==
  ASSUME ControllerInv, AdmissionTypeOK', Fail \/ Done, pc # "idle",
         cmLog' \in Seq([Krakends -> ConfigMap]), cmLog' # <<>>,
         npLog' \in Seq([NetpolKeys -> NetworkPolicy]), npLog' # <<>>
  PROVE  TypeOK' /\ LocalOld' /\ KrakendKnown' /\ PathOK'
<1>1. Return /\ queue' \subseteq Names
  BY DEF Fail, Done, ControllerInv, TypeOK
<1>2. QED
  BY <1>1, ReturnType DEF ControllerInv

(* The worker's own invariants survive when it does not move.              *)
LEMMA WorkUnchanged ==
  ASSUME ControllerInv, [Next]_vars, AdmissionInv', UNCHANGED workVars,
         pc = "idle" \/ Cached(epsLog)' = Cached(epsLog) \/ (Len(epsLog) > 1 /\ epsLog' = Deliver(epsLog)),
         cmLog' \in Seq([Krakends -> ConfigMap]), cmLog' # <<>>,
         npLog' \in Seq([NetpolKeys -> NetworkPolicy]), npLog' # <<>>,
         queue' \subseteq Names,
         \A k \in Krakends : Stored(krLog)'[k].uid = Stored(krLog)[k].uid
  PROVE  TypeOK' /\ LocalOld' /\ KrakendKnown' /\ PathOK'
<1>1. TypeOK'
  BY DEF ControllerInv, TypeOK, AdmissionInv, workVars
<1>2. KrakendKnown'
  BY DEF ControllerInv, KrakendKnown, TypeOK, workVars
<1>3. PathOK'
  BY DEF ControllerInv, PathOK, workVars
<1>4. LocalOld'
  <2>1. CASE pc = "idle"
    BY <2>1 DEF LocalOld, workVars
  <2>2. CASE Cached(epsLog)' = Cached(epsLog)
    BY <2>2 DEF ControllerInv, LocalOld, workVars
  <2>3. CASE pc # "idle" /\ Len(epsLog) > 1 /\ epsLog' = Deliver(epsLog)
    <3>1. epsLog \in Seq([Names -> ApiEndpoints]) /\ req \in Names
      BY <2>3 DEF ControllerInv, TypeOK, AdmissionTypeOK
    <3>2. Cached(epsLog)' = epsLog[2] /\ Cached(epsLog) = epsLog[1]
      BY <2>3, <3>1 DEF Cached, Deliver
    <3>3. /\ epsLog[1][req].rv <= epsLog[2][req].rv
          /\ epsLog[1][req].rv = epsLog[2][req].rv => epsLog[1][req] = epsLog[2][req]
      <4>1. VersionsGrow
        BY DEF ControllerInv, AdmissionInv
      <4>2. 1 \in 1..Len(epsLog) /\ 2 \in 1..Len(epsLog) /\ 1 <= 2
        BY <2>3, <3>1
      <4>3. QED
        BY <3>1, <4>1, <4>2 DEF VersionsGrow
    <3>4. epsLog[1][req].rv \in Nat /\ epsLog[2][req].rv \in Nat /\ local.rv \in Nat
      <4>1. epsLog[1][req] \in ApiEndpoints /\ epsLog[2][req] \in ApiEndpoints
            /\ local \in ApiEndpoints
        BY <2>3, <3>1 DEF ControllerInv, TypeOK
      <4>2. QED
        BY <4>1 DEF ApiEndpoints
    <3>5. local.rv <= epsLog[1][req].rv /\ (local.rv = epsLog[1][req].rv => local = epsLog[1][req])
      BY <2>3, <3>2 DEF ControllerInv, LocalOld
    <3>6. local.rv <= epsLog[2][req].rv /\ (local.rv = epsLog[2][req].rv => local = epsLog[2][req])
      BY <3>3, <3>4, <3>5
    <3>7. QED
      BY <3>2, <3>6 DEF LocalOld, workVars
  <2>4. QED
    BY <2>1, <2>2, <2>3
<1>5. QED
  BY <1>1, <1>2, <1>3, <1>4

(* A write is not in the cache yet.                                        *)
LEMMA CachedPut ==
  ASSUME NEW n, NEW obj, epsLog \in Seq([Names -> ApiEndpoints]), epsLog # <<>>,
         epsLog' = Put(epsLog, n, obj)
  PROVE  Cached(epsLog)' = Cached(epsLog)
  BY DEF Put, Cached

LEMMA UserKeepsCache ==
  ASSUME AdmissionTypeOK, UserStep
  PROVE  Cached(epsLog)' = Cached(epsLog)
<1>1. epsLog \in Seq([Names -> ApiEndpoints]) /\ epsLog # <<>>
  BY DEF AdmissionTypeOK
<1>2. ASSUME UNCHANGED epsLog PROVE Cached(epsLog)' = Cached(epsLog)
  BY <1>2 DEF Cached
<1>3. ASSUME NEW n, NEW obj, epsLog' = Put(epsLog, n, obj) PROVE Cached(epsLog)' = Cached(epsLog)
  BY <1>1, <1>3, CachedPut
<1>4. \/ UNCHANGED epsLog
      \/ \E w \in inflight : Commit(w)
      \/ \E n \in Names : DeleteEndpoints(n)
  BY DEF UserStep, UserApply, UserDelete, GcEndpoints, KrakendApply, KrakendDelete
<1>5. QED
  BY <1>2, <1>3, <1>4 DEF Commit, DeleteEndpoints

-----------------------------------------------------------------------------
(* One step of Reconcile that returns or moves on keeps the invariant.     *)
LEMMA ControllerInvStep ==
  ASSUME ControllerInv, [Next]_vars
  PROVE  ControllerInv'
<1> DEFINE Goal == TypeOK' /\ LocalOld' /\ KrakendKnown' /\ PathOK'
<1>a. AdmissionInv' /\ AdmissionTypeOK'
  BY RefinementStep, AdmissionInvStep DEF ControllerInv, AdmissionInv
<1>b. \A k \in Krakends : Stored(krLog)'[k].uid = Stored(krLog)[k].uid
  BY RefinementStep, StoredKrakendStep DEF ControllerInv, AdmissionInv
<1>c. /\ cmLog \in Seq([Krakends -> ConfigMap]) /\ cmLog # <<>>
      /\ npLog \in Seq([NetpolKeys -> NetworkPolicy]) /\ npLog # <<>>
      /\ queue \subseteq Names
  BY DEF ControllerInv, TypeOK
<1>d. /\ Stored(epsLog) \in [Names -> ApiEndpoints] /\ Cached(epsLog) \in [Names -> ApiEndpoints]
      /\ Cached(krLog) \in [Krakends -> Krakend] /\ Stored(krLog) \in [Krakends -> Krakend]
      /\ Cached(cmLog) \in [Krakends -> ConfigMap] /\ Stored(cmLog) \in [Krakends -> ConfigMap]
      /\ Stored(npLog) \in [NetpolKeys -> NetworkPolicy]
  BY SnapshotTypes DEF ControllerInv
<1>e. pc # "idle" => /\ req \in Names /\ local \in ApiEndpoints /\ local.phase # "absent"
                     /\ local.spec \in ESpecs
  BY DEF ControllerInv, TypeOK, ApiEndpoints
<1>1. ASSUME NEW n \in Names, NEW outside \in BOOLEAN, Start(n, outside) PROVE Goal
  <2>1. pc = "idle" /\ UNCHANGED <<epsLog, cmLog, npLog>> /\ queue' \subseteq Names
    BY <1>1, <1>c DEF Start
  <2>2. CASE UNCHANGED workVars
    BY <1>a, <1>b, <1>c, <2>1, <2>2, WorkUnchanged
  <2>3. CASE ~UNCHANGED workVars
    <3> DEFINE e == Cached(epsLog)[n]
    <3>1. /\ pc' = "getKrakend" /\ req' = n /\ local' = e
          /\ hash' = IF e.phase = "live" THEN hashEndpoints(e.spec) ELSE None
          /\ UNCHANGED <<krak, krakCopy, cm, apps>>
          /\ e.phase \in {"live", "deleting"}
      BY <1>1, <2>3 DEF Start
    <3>2. e \in ApiEndpoints /\ e.spec \in ESpecs
      BY <1>d, <3>1 DEF ApiEndpoints
    <3>3. hash' \in {hashEndpoints(s) : s \in ESpecs} \cup {None}
      BY <3>1, <3>2
    <3>4. TypeOK'
      BY <1>a, <2>1, <3>1, <3>2, <3>3 DEF ControllerInv, TypeOK, PCs
    <3>5. LocalOld'
      <4>1. Cached(epsLog)' = Cached(epsLog)
        BY <2>1 DEF Cached
      <4>2. e.rv \in Nat
        BY <3>2 DEF ApiEndpoints
      <4>3. QED
        BY <3>1, <4>1, <4>2 DEF LocalOld
    <3>6. KrakendKnown'
      BY <1>b, <3>1 DEF ControllerInv, TypeOK, KrakendKnown
    <3>7. PathOK'
      <4>1. \A s \in ESpecs : hashEndpoints(s) # None
        BY ClusterAssumption
      <4>2. QED
        BY <3>1, <3>2, <4>1 DEF PathOK, DeletionPath
    <3>8. QED
      BY <3>4, <3>5, <3>6, <3>7
  <2>4. QED
    BY <2>2, <2>3
<1>2. ASSUME GetKrakend PROVE Goal
  <2> DEFINE k == krakendName(local.spec)
             o == Cached(krLog)[k]
  <2>1. pc = "getKrakend" /\ UNCHANGED <<epsLog, krLog, cmLog, npLog>>
    BY <1>2 DEF GetKrakend, clusterVars, admissionVars
  <2>2. k \in Krakends /\ o \in Krakend
    BY <1>d, <1>e, <2>1, ClusterAssumption
  <2>3. CASE Fail
    BY <1>a, <1>c, <2>1, <2>3, FailType
  <2>4. CASE o.phase = "live" /\ krak' = k /\ krakCopy' = o /\ pc' = "getConfigMap"
             /\ UNCHANGED <<queue, req, local, hash, cm, apps>>
    <3>1. TypeOK'
      BY <1>a, <1>c, <2>1, <2>2, <2>4, ClusterAssumption DEF ControllerInv, TypeOK, PCs
    <3>2. KrakendKnown'
      <4>1. o.uid <= Stored(krLog)[k].uid
        <5>1. krLog \in Seq([Krakends -> Krakend]) /\ krLog # <<>>
          BY DEF ControllerInv, TypeOK, AdmissionTypeOK
        <5>2. Len(krLog) \in Nat \ {0}
          BY <5>1
        <5>3. QED
          BY <2>2, <5>2 DEF ControllerInv, AdmissionInv, KrakendsAge, Cached
      <4>2. QED
        BY <1>b, <2>2, <2>4, <4>1 DEF KrakendKnown
    <3>3. LocalOld' /\ PathOK'
      BY <2>1, <2>4 DEF ControllerInv, LocalOld, PathOK, DeletionPath, Cached
    <3>4. QED
      BY <3>1, <3>2, <3>3
  <2>5. CASE local.phase = "deleting" /\ pc' = "removeFinalizer"
             /\ UNCHANGED <<queue, req, local, hash, krak, krakCopy, cm, apps>>
    <3>1. TypeOK'
      BY <1>a, <1>c, <2>1, <2>5 DEF ControllerInv, TypeOK, PCs
    <3>2. KrakendKnown'
      BY <1>b, <2>5 DEF ControllerInv, TypeOK, KrakendKnown
    <3>3. LocalOld' /\ PathOK'
      BY <2>1, <2>5 DEF ControllerInv, LocalOld, PathOK, DeletionPath, Cached
    <3>4. QED
      BY <3>1, <3>2, <3>3
  <2>6. QED
    BY <1>2, <2>3, <2>4, <2>5 DEF GetKrakend
<1>3. ASSUME GetConfigMap PROVE Goal
  <2>1. pc = "getConfigMap" /\ UNCHANGED <<epsLog, krLog, cmLog, npLog>>
    BY <1>3 DEF GetConfigMap, clusterVars, admissionVars
  <2>2. krak \in Krakends /\ Cached(cmLog)[krak] \in ConfigMap
    BY <1>d, <2>1 DEF ControllerInv, TypeOK, PCs
  <2>3. CASE Fail
    BY <1>a, <1>c, <2>1, <2>3, FailType
  <2>4. CASE cm' = Cached(cmLog)[krak] /\ pc' = "list"
             /\ UNCHANGED <<queue, req, local, hash, krak, krakCopy, apps>>
    <3>1. TypeOK'
      BY <1>a, <1>c, <2>1, <2>2, <2>4 DEF ControllerInv, TypeOK, PCs
    <3>2. KrakendKnown'
      BY <1>b, <2>2, <2>4 DEF ControllerInv, KrakendKnown
    <3>3. LocalOld' /\ PathOK'
      BY <2>1, <2>4 DEF ControllerInv, LocalOld, PathOK, DeletionPath, Cached
    <3>4. QED
      BY <3>1, <3>2, <3>3
  <2>5. QED
    BY <1>3, <2>3, <2>4 DEF GetConfigMap
<1>4. ASSUME ListEndpoints PROVE Goal
  <2> DEFINE routes == ToKrakendEndpoints(krakCopy.spec, LiveSpecs(Cached(epsLog)))
  <2>1. pc = "list" /\ UNCHANGED <<epsLog, krLog, cmLog, npLog>>
    BY <1>4 DEF ListEndpoints, clusterVars, admissionVars
  <2>2. krak \in Krakends /\ krakCopy \in Krakend /\ krakCopy.spec \in KSpecs
    BY <2>1 DEF ControllerInv, TypeOK, PCs, Krakend
  <2>3. CASE Fail
    BY <1>a, <1>c, <2>1, <2>3, FailType
  <2>4. CASE cm' = [cm EXCEPT !.data = routes] /\ pc' = "updateConfigMap"
             /\ UNCHANGED <<queue, req, local, hash, krak, krakCopy, apps>>
    <3>0. cm' \in ConfigMap
      <4>1. routes \subseteq Route
        BY <1>d, <2>2, RoutesFacts
      <4>2. cm \in ConfigMap
        BY DEF ControllerInv, TypeOK
      <4> HIDE DEF routes
      <4>3. QED
        BY <2>4, <4>1, <4>2 DEF ConfigMap
    <3>1. TypeOK'
      BY <1>a, <1>c, <2>1, <2>2, <2>4, <3>0 DEF ControllerInv, TypeOK, PCs
    <3>2. KrakendKnown'
      BY <1>b, <2>2, <2>4 DEF ControllerInv, KrakendKnown
    <3>3. LocalOld' /\ PathOK'
      BY <2>1, <2>4 DEF ControllerInv, LocalOld, PathOK, DeletionPath, Cached
    <3>4. QED
      BY <3>1, <3>2, <3>3
  <2>5. QED
    BY <1>4, <2>3, <2>4 DEF ListEndpoints
<1>5. ASSUME UpdateConfigMap PROVE Goal
  <2>1. pc = "updateConfigMap" /\ UNCHANGED <<epsLog, krLog, npLog>>
    BY <1>5 DEF UpdateConfigMap, admissionVars
  <2>2. krak \in Krakends /\ cm \in ConfigMap
    BY <2>1 DEF ControllerInv, TypeOK, PCs
  <2>3. CASE Fail /\ UNCHANGED cmLog
    BY <1>a, <1>c, <2>1, <2>3, FailType
  <2>4. CASE /\ cmLog' = IF cm.data = Stored(cmLog)[krak].data THEN cmLog
                         ELSE Put(cmLog, krak, [cm EXCEPT !.rv = @ + 1])
             /\ AfterConfigMap
             /\ UNCHANGED <<queue, req, local, hash, krak, krakCopy, cm>>
    <3>1. cmLog' \in Seq([Krakends -> ConfigMap]) /\ cmLog' # <<>>
      <4> DEFINE obj == [cm EXCEPT !.rv = @ + 1]
      <4>1. obj \in ConfigMap
        <5>1. cm.rv + 1 \in Nat
          BY <2>2 DEF ConfigMap
        <5>2. QED
          BY <2>2, <5>1 DEF ConfigMap
      <4>2. cmLog' = cmLog \/ cmLog' = Put(cmLog, krak, obj)
        BY <2>4
      <4> HIDE DEF obj
      <4>3. QED
        BY <1>c, <2>2, <4>1, <4>2, PutConfigMap
    <3>2. apps' \subseteq Apps
      BY <1>e, <2>1, <2>4, AppsAssumption DEF AfterConfigMap
    <3>3. /\ pc' \in {"removeFinalizer", "ensureNetpol", "refetch"}
          /\ pc' = "removeFinalizer" <=> local.phase = "deleting"
      BY <2>4 DEF AfterConfigMap
    <3>4. TypeOK'
      BY <1>a, <1>c, <2>1, <2>2, <2>4, <3>1, <3>2, <3>3 DEF ControllerInv, TypeOK, PCs
    <3>5. KrakendKnown'
      BY <1>b, <2>2, <2>4 DEF ControllerInv, KrakendKnown
    <3>6. LocalOld' /\ PathOK'
      BY <2>1, <2>4, <3>3 DEF ControllerInv, LocalOld, PathOK, DeletionPath, Cached
    <3>7. QED
      BY <3>4, <3>5, <3>6
  <2>5. QED
    BY <1>5, <2>3, <2>4 DEF UpdateConfigMap
<1>6. ASSUME NEW app \in apps, EnsureNetpol(app) PROVE Goal
  <2> DEFINE key == <<krakendName(local.spec), app>>
             obj == [phase |-> "live", rv |-> Stored(npLog)[key].rv + 1,
                     owner |-> <<req, local.uid>>]
  <2>1. pc = "ensureNetpol" /\ UNCHANGED <<epsLog, krLog, cmLog>>
    BY <1>6 DEF EnsureNetpol, admissionVars
  <2>2. krak \in Krakends
    BY <2>1 DEF ControllerInv, TypeOK, PCs
  <2>3. key \in NetpolKeys
    BY <1>e, <2>1, ClusterAssumption DEF ControllerInv, TypeOK, NetpolKeys
  <2>4. obj \in NetworkPolicy
    <3>1. Stored(npLog)[key].rv + 1 \in Nat
      BY <1>d, <2>3 DEF NetworkPolicy
    <3>2. local.uid \in Nat
      BY <1>e, <2>1 DEF ApiEndpoints
    <3>3. QED
      BY <1>e, <2>1, <3>1, <3>2 DEF NetworkPolicy
  <2>5. npLog' = npLog \/ npLog' = Put(npLog, key, obj)
    BY <1>6 DEF EnsureNetpol
  <2>6. \/ Done
        \/ /\ apps' = apps \ {app}
           /\ pc' = IF apps = {app} THEN "refetch" ELSE pc
           /\ UNCHANGED <<queue, req, local, hash, krak, krakCopy, cm>>
    BY <1>6 DEF EnsureNetpol
  <2> HIDE DEF obj, key
  <2>7. npLog' \in Seq([NetpolKeys -> NetworkPolicy]) /\ npLog' # <<>>
    BY <1>c, <2>3, <2>4, <2>5, PutNetpol
  <2>8. CASE Done
    BY <1>a, <1>c, <2>1, <2>7, <2>8, FailType
  <2>9. CASE /\ apps' = apps \ {app}
             /\ pc' = IF apps = {app} THEN "refetch" ELSE pc
             /\ UNCHANGED <<queue, req, local, hash, krak, krakCopy, cm>>
    <3>1. TypeOK'
      BY <1>a, <1>c, <2>1, <2>2, <2>7, <2>9 DEF ControllerInv, TypeOK, PCs
    <3>2. KrakendKnown'
      BY <1>b, <2>2, <2>9 DEF ControllerInv, KrakendKnown
    <3>3. LocalOld' /\ PathOK'
      BY <2>1, <2>9 DEF ControllerInv, LocalOld, PathOK, DeletionPath, Cached
    <3>4. QED
      BY <3>1, <3>2, <3>3
  <2>10. QED
    BY <2>6, <2>8, <2>9
<1>7. ASSUME Refetch PROVE Goal
  <2> DEFINE e == Cached(epsLog)[req]
  <2>1. pc \in {"refetch", "refetchStatus"} /\ UNCHANGED <<epsLog, krLog, cmLog, npLog>>
    BY <1>7 DEF Refetch, clusterVars, admissionVars
  <2>2. krak \in Krakends /\ req \in Names /\ e \in ApiEndpoints /\ e.rv \in Nat
    BY <1>d, <1>e, <2>1 DEF ControllerInv, TypeOK, PCs, ApiEndpoints
  <2>3. CASE Fail
    BY <1>a, <1>c, <2>1, <2>3, FailType
  <2>4. CASE /\ e.phase # "absent" /\ local' = e
             /\ pc' \in {"updateStatus", "admitFinalizer", "refetchStatus"}
             /\ UNCHANGED <<queue, req, hash, krak, krakCopy, cm, apps>>
    <3>1. TypeOK'
      BY <1>a, <1>c, <2>1, <2>2, <2>4 DEF ControllerInv, TypeOK, PCs
    <3>2. KrakendKnown'
      BY <1>b, <2>2, <2>4 DEF ControllerInv, KrakendKnown
    <3>3. LocalOld'
      BY <2>1, <2>2, <2>4 DEF LocalOld, Cached
    <3>4. PathOK'
      BY <2>1, <2>4 DEF ControllerInv, PathOK, DeletionPath
    <3>5. QED
      BY <3>1, <3>2, <3>3, <3>4
  <2>5. QED
    BY <1>7, <2>3, <2>4 DEF Refetch
<1>8. ASSUME AdmitFinalizer PROVE Goal
  <2>1. pc = "admitFinalizer" /\ UNCHANGED <<epsLog, krLog, cmLog, npLog>>
    BY <1>8 DEF AdmitFinalizer, clusterVars, admissionVars
  <2>2. krak \in Krakends
    BY <2>1 DEF ControllerInv, TypeOK, PCs
  <2>3. CASE Fail
    BY <1>a, <1>c, <2>1, <2>3, FailType
  <2>4. CASE pc' = "addFinalizer" /\ UNCHANGED <<queue, req, local, hash, krak, krakCopy, cm, apps>>
    <3>1. TypeOK'
      BY <1>a, <1>c, <2>1, <2>2, <2>4 DEF ControllerInv, TypeOK, PCs
    <3>2. KrakendKnown'
      BY <1>b, <2>2, <2>4 DEF ControllerInv, KrakendKnown
    <3>3. LocalOld' /\ PathOK'
      BY <2>1, <2>4 DEF ControllerInv, LocalOld, PathOK, DeletionPath, Cached
    <3>4. QED
      BY <3>1, <3>2, <3>3
  <2>5. QED
    BY <1>8, <2>3, <2>4 DEF AdmitFinalizer
<1>9. ASSUME AddFinalizer PROVE Goal
  <2>1. pc = "addFinalizer" /\ UNCHANGED <<krLog, cmLog, npLog>>
    BY <1>9 DEF AddFinalizer
  <2>2. krak \in Krakends /\ req \in Names
    BY <1>e, <2>1 DEF ControllerInv, TypeOK, PCs
  <2>3. CASE Fail
    BY <1>a, <1>c, <2>1, <2>3, FailType
  <2>4. CASE /\ Write([local EXCEPT !.finalizer = TRUE,
                         !.owner = IF @ = None THEN <<krak, krakCopy.uid>> ELSE @])
             /\ pc' = "refetchStatus"
             /\ UNCHANGED <<queue, req, local, hash, krak, krakCopy, cm, apps>>
    <3>1. TypeOK'
      BY <1>a, <1>c, <2>1, <2>2, <2>4 DEF ControllerInv, TypeOK, PCs
    <3>2. KrakendKnown'
      BY <1>b, <2>2, <2>4 DEF ControllerInv, KrakendKnown
    <3>3. Cached(epsLog)' = Cached(epsLog)
      BY <2>4, CachedPut DEF Write, ControllerInv, TypeOK, AdmissionTypeOK
    <3>4. LocalOld' /\ PathOK'
      BY <2>1, <2>4, <3>3 DEF ControllerInv, LocalOld, PathOK, DeletionPath
    <3>5. QED
      BY <3>1, <3>2, <3>4
  <2>5. QED
    BY <1>9, <2>3, <2>4 DEF AddFinalizer
<1>10. ASSUME UpdateStatus \/ RemoveFinalizer PROVE Goal
  <2>1. pc # "idle" /\ (Fail \/ Done) /\ UNCHANGED <<cmLog, npLog>>
    BY <1>10 DEF UpdateStatus, RemoveFinalizer
  <2>2. QED
    BY <1>a, <1>c, <2>1, FailType
<1>11. ASSUME Fault PROVE Goal
  <2>1. pc # "idle" /\ (Fail \/ Done) /\ UNCHANGED <<cmLog, npLog>>
    BY <1>11 DEF Fault
  <2>2. QED
    BY <1>a, <1>c, <2>1, FailType
<1>12. ASSUME Restart PROVE Goal
  <2>1. Return /\ cmLog' = Relist(cmLog) /\ npLog' = Relist(npLog) /\ queue' \subseteq Names
    BY <1>12 DEF Restart
  <2>2. /\ cmLog' \in Seq([Krakends -> ConfigMap]) /\ cmLog' # <<>>
        /\ npLog' \in Seq([NetpolKeys -> NetworkPolicy]) /\ npLog' # <<>>
    BY <1>c, <1>d, <2>1 DEF Relist
  <2>3. QED
    BY <1>a, <2>1, <2>2, ReturnType DEF ControllerInv
<1>13. ASSUME UserStep, UNCHANGED <<cmLog, npLog, queue, workVars>> PROVE Goal
  <2>1. Cached(epsLog)' = Cached(epsLog)
    BY <1>13, UserKeepsCache DEF ControllerInv, TypeOK
  <2>2. QED
    BY <1>a, <1>b, <1>c, <1>13, <2>1, WorkUnchanged
<1>14. ASSUME Resync \/ ObserveKrakends PROVE Goal
  <2>1. /\ UNCHANGED <<epsLog, cmLog, npLog, workVars>>
        /\ queue' \subseteq Names
    BY <1>14, <1>c DEF Resync, ObserveKrakends, DeliverKrakends
  <2>2. Cached(epsLog)' = Cached(epsLog)
    BY <2>1 DEF Cached
  <2>3. QED
    BY <1>a, <1>b, <1>c, <2>1, <2>2, WorkUnchanged
<1>15. ASSUME ObserveEndpoints PROVE Goal
  <2>1. /\ Len(epsLog) > 1 /\ epsLog' = Deliver(epsLog)
        /\ UNCHANGED <<cmLog, npLog, workVars>>
    BY <1>15 DEF ObserveEndpoints, DeliverEndpoints
  <2>2. queue' \subseteq Names
    <3>1. DOMAIN epsLog[1] = Names
      BY <1>d DEF Cached
    <3>2. QED
      BY <1>c, <1>15, <3>1 DEF ObserveEndpoints, Notified
  <2>3. QED
    BY <1>a, <1>b, <1>c, <2>1, <2>2, WorkUnchanged
<1>16. ASSUME ObserveConfigMaps \/ ObserveNetpols PROVE Goal
  <2>1. /\ UNCHANGED <<epsLog, queue, workVars>>
        /\ cmLog' = cmLog \/ (Len(cmLog) > 1 /\ cmLog' = Deliver(cmLog))
        /\ npLog' = npLog \/ (Len(npLog) > 1 /\ npLog' = Deliver(npLog))
    BY <1>16 DEF ObserveConfigMaps, ObserveNetpols, admissionVars
  <2>2. /\ cmLog' \in Seq([Krakends -> ConfigMap]) /\ cmLog' # <<>>
        /\ npLog' \in Seq([NetpolKeys -> NetworkPolicy]) /\ npLog' # <<>>
    <3>1. ASSUME Len(cmLog) > 1
          PROVE  Deliver(cmLog) \in Seq([Krakends -> ConfigMap]) /\ Deliver(cmLog) # <<>>
      BY <1>c, <3>1, DeliverFacts
    <3>2. ASSUME Len(npLog) > 1
          PROVE  Deliver(npLog) \in Seq([NetpolKeys -> NetworkPolicy]) /\ Deliver(npLog) # <<>>
      BY <1>c, <3>2, DeliverFacts
    <3>3. QED
      BY <1>c, <2>1, <3>1, <3>2
  <2>3. Cached(epsLog)' = Cached(epsLog)
    BY <2>1 DEF Cached
  <2>4. QED
    BY <1>a, <1>b, <1>c, <2>1, <2>2, <2>3, WorkUnchanged
<1>17. ASSUME NEW k \in Krakends, GcConfigMap(k) PROVE Goal
  <2> DEFINE o == Stored(cmLog)[k]
             obj == [o EXCEPT !.phase = "absent", !.rv = @ + 1, !.data = {}]
  <2>1. UNCHANGED <<epsLog, npLog, queue, workVars>> /\ cmLog' = Put(cmLog, k, obj)
    BY <1>17 DEF GcConfigMap, admissionVars
  <2>2. obj \in ConfigMap
    <3>1. o \in ConfigMap /\ o.rv + 1 \in Nat
      BY <1>d DEF ConfigMap
    <3>2. QED
      BY <3>1 DEF ConfigMap
  <2> HIDE DEF obj
  <2>3. cmLog' \in Seq([Krakends -> ConfigMap]) /\ cmLog' # <<>>
    BY <1>c, <2>1, <2>2, PutConfigMap
  <2>4. Cached(epsLog)' = Cached(epsLog)
    BY <2>1 DEF Cached
  <2>5. QED
    BY <1>a, <1>b, <1>c, <2>1, <2>3, <2>4, WorkUnchanged
<1>18. ASSUME NEW key \in NetpolKeys, GcNetpol(key) PROVE Goal
  <2> DEFINE obj == [phase |-> "absent", rv |-> Stored(npLog)[key].rv + 1, owner |-> None]
  <2>1. UNCHANGED <<epsLog, cmLog, queue, workVars>> /\ npLog' = Put(npLog, key, obj)
    BY <1>18 DEF GcNetpol
  <2>2. obj \in NetworkPolicy
    BY <1>d DEF NetworkPolicy
  <2> HIDE DEF obj
  <2>3. npLog' \in Seq([NetpolKeys -> NetworkPolicy]) /\ npLog' # <<>>
    BY <1>c, <2>1, <2>2, PutNetpol
  <2>4. Cached(epsLog)' = Cached(epsLog)
    BY <2>1 DEF Cached
  <2>5. QED
    BY <1>a, <1>b, <1>c, <2>1, <2>3, <2>4, WorkUnchanged
<1>19. ASSUME UNCHANGED vars PROVE Goal
  <2>1. UNCHANGED <<epsLog, cmLog, npLog, queue, workVars>>
    BY <1>19 DEF vars, admissionVars
  <2>2. Cached(epsLog)' = Cached(epsLog)
    BY <2>1 DEF Cached
  <2>3. QED
    BY <1>a, <1>b, <1>c, <2>1, <2>2, WorkUnchanged
<1>20. QED
  <2> HIDE DEF Goal
  <2>1. Goal
    BY <1>1, <1>2, <1>3, <1>4, <1>5, <1>6, <1>7, <1>8, <1>9, <1>10, <1>11, <1>12, <1>13,
       <1>14, <1>15, <1>16, <1>17, <1>18, <1>19 DEF Next, Reconcile, Environment
  <2>2. QED
    BY <1>a, <2>1 DEF Goal, ControllerInv

-----------------------------------------------------------------------------
LEMMA ControllerInit == Init => ControllerInv
<1> SUFFICES ASSUME Init PROVE ControllerInv
  OBVIOUS
<1>1. AdmissionInv
  BY AdmissionInitInv DEF Init
<1>2. AdmissionTypeOK /\ Stored(krLog) \in [Krakends -> Krakend]
  BY <1>1, LogFacts DEF AdmissionInv, AdmissionTypeOK
<1>3. cmLog \in Seq([Krakends -> ConfigMap]) /\ cmLog # <<>>
  <2> DEFINE first(k) == IF Stored(krLog)[k].phase = "absent" THEN NoConfigMap
                         ELSE [phase |-> "live", rv |-> 1, owner |-> Stored(krLog)[k].uid,
                               data |-> {ChartRoute}]
  <2>1. \A k \in Krakends : first(k) \in ConfigMap
    BY <1>2 DEF NoConfigMap, ConfigMap, Krakend, Route
  <2>2. cmLog = <<[k \in Krakends |-> first(k)]>>
    BY DEF Init
  <2> HIDE DEF first
  <2>3. QED
    BY <2>1, <2>2
<1>4. npLog \in Seq([NetpolKeys -> NetworkPolicy]) /\ npLog # <<>>
  <2>1. NoNetpol \in NetworkPolicy
    BY DEF NoNetpol, NetworkPolicy
  <2>2. QED
    BY <2>1 DEF Init
<1>5. NoEndpoints \in ApiEndpoints
  BY DEF NoEndpoints, GoneEndpoints, ApiEndpoints, Phase
<1>6. NoKrakend \in Krakend /\ NoConfigMap \in ConfigMap
  BY DEF NoKrakend, Krakend, NoConfigMap, ConfigMap
<1>7. TypeOK
  BY <1>2, <1>3, <1>4, <1>5, <1>6, ClusterAssumption DEF Init, TypeOK, PCs
<1>8. LocalOld /\ KrakendKnown /\ PathOK
  BY DEF Init, LocalOld, KrakendKnown, PathOK
<1>9. QED
  BY <1>1, <1>7, <1>8 DEF ControllerInv

(* Reconcile's locals and the cluster keep their types: no step of the     *)
(* controller reads a copy it has not fetched.                             *)
THEOREM TypeCorrect == Spec => []TypeOK
<1>1. Init => ControllerInv
  BY ControllerInit
<1>2. ControllerInv /\ [Next]_vars => ControllerInv'
  BY ControllerInvStep
<1>3. ControllerInv => TypeOK
  BY DEF ControllerInv
<1>4. QED
  BY <1>1, <1>2, <1>3, PTL DEF Spec

(* Whatever stale copies Reconcile works with, all it does to the stored   *)
(* ApiEndpoints is what ControllerWrites allows: it never changes a spec,  *)
(* never brings an object back, and lets go only of an object that is      *)
(* being deleted.                                                          *)
THEOREM Implements == Spec => AdmissionSpec
<1>1. Init => ControllerInv /\ AdmissionInit
  BY ControllerInit DEF Init
<1>2. ControllerInv /\ [Next]_vars => ControllerInv' /\ [AdmissionNext]_admissionVars
  BY ControllerInvStep, RefinementStep
<1>3. QED
  BY <1>1, <1>2, PTL DEF Spec, AdmissionSpec

(* With the real controller, too, two ApiEndpoints share a path only if    *)
(* their admissions raced.                                                 *)
THEOREM ControllerDuplicates == Spec => []DuplicateOnlyByRace
  BY Implements, DuplicatesNeedRace, PTL
-----------------------------------------------------------------------------
(* An ApiEndpoints is marked as synchronized only after the network was    *)
(* opened for every application behind it.                                 *)

(* Every application the spec discovers has, or once had, its policy.      *)
Opened(s) == \A app \in appsInNamespace(s) : Stored(npLog)[<<krakendName(s), app>>].rv > 0

(* A policy that exists has been written.                                  *)
LiveWritten == \A key \in NetpolKeys : Stored(npLog)[key].phase = "live" => Stored(npLog)[key].rv > 0

(* Until the policies are done, the hash is that of the copy ...           *)
BeforePolicies == {"getKrakend", "getConfigMap", "list", "updateConfigMap", "ensureNetpol"}

HashOfCopy ==
  /\ pc \in BeforePolicies /\ local.phase = "live" => hash = hashEndpoints(local.spec)
  /\ pc = "ensureNetpol" => local.phase = "live"

(* ... ensureAppIngressNetpol leaves behind the policies it has visited ...*)
VisitedOpened ==
  pc = "ensureNetpol" => \A app \in appsInNamespace(local.spec) \ apps :
                           Stored(npLog)[<<krakendName(local.spec), app>>].rv > 0

(* ... and from then on the copy may be replaced by one with another spec, *)
(* but the hash stays that of a spec whose policies were made ...          *)
AfterPolicies == {"refetch", "admitFinalizer", "addFinalizer", "refetchStatus", "updateStatus"}

WorkOpened ==
  pc \in AfterPolicies => \A s \in ESpecs : hash = hashEndpoints(s) => Opened(s)

(* ... which is what makes every stored hash one.                          *)
StoredOpened ==
  \A n \in Names, s \in ESpecs : Stored(epsLog)[n].hash = hashEndpoints(s) => Opened(s)

PolicyInv == ControllerInv /\ LiveWritten /\ HashOfCopy /\ VisitedOpened /\ WorkOpened /\ StoredOpened

-----------------------------------------------------------------------------
LEMMA PolicyTypes ==
  ASSUME ControllerInv
  PROVE  /\ TypeOK
         /\ epsLog \in Seq([Names -> ApiEndpoints]) /\ epsLog # <<>>
         /\ Stored(epsLog) \in [Names -> ApiEndpoints]
         /\ npLog \in Seq([NetpolKeys -> NetworkPolicy]) /\ npLog # <<>>
         /\ Stored(npLog) \in [NetpolKeys -> NetworkPolicy]
         /\ \A key \in NetpolKeys : Stored(npLog)[key].rv \in Nat
         /\ pc # "idle" => /\ req \in Names /\ local \in ApiEndpoints
                           /\ local.phase \in {"live", "deleting"} /\ local.spec \in ESpecs
  BY SnapshotTypes DEF ControllerInv, TypeOK, NetworkPolicy, ApiEndpoints, Phase

(* A spec's policies have keys, and its hash is its own.                   *)
LEMMA SpecFacts ==
  ASSUME NEW s \in ESpecs
  PROVE  /\ \A app \in appsInNamespace(s) : <<krakendName(s), app>> \in NetpolKeys
         /\ \A t \in ESpecs : hashEndpoints(t) = hashEndpoints(s) => t = s
         /\ hashEndpoints(s) # None
<1>1. \A app \in appsInNamespace(s) : <<krakendName(s), app>> \in NetpolKeys
  BY AppsAssumption, ClusterAssumption DEF NetpolKeys
<1>2. \A t \in ESpecs : hashEndpoints(t) = hashEndpoints(s) => t = s
  BY DEF hashEndpoints
<1>3. QED
  BY <1>1, <1>2, ClusterAssumption

(* The versions of the policies grow; one that exists has been written.    *)
LEMMA NetpolStep ==
  ASSUME ControllerInv, LiveWritten, [Next]_vars
  PROVE  /\ LiveWritten'
         /\ \A key \in NetpolKeys : Stored(npLog)[key].rv > 0 => Stored(npLog)'[key].rv > 0
<1> DEFINE Goal == /\ LiveWritten'
                   /\ \A key \in NetpolKeys : Stored(npLog)[key].rv > 0 => Stored(npLog)'[key].rv > 0
<1>0. /\ TypeOK /\ npLog \in Seq([NetpolKeys -> NetworkPolicy]) /\ npLog # <<>>
      /\ Stored(npLog) \in [NetpolKeys -> NetworkPolicy]
      /\ \A key \in NetpolKeys : Stored(npLog)[key].rv \in Nat
  BY PolicyTypes
<1>1. ASSUME Follows(npLog', npLog) PROVE Goal
  <2>1. Stored(npLog)' = Stored(npLog)
    <3>1. Stored(npLog') = Stored(npLog)
      BY <1>0, <1>1, FollowsFacts
    <3>2. QED
      BY <3>1 DEF Stored
  <2>2. QED
    BY <2>1 DEF LiveWritten
<1>2. ASSUME NEW key \in NetpolKeys, NEW obj \in NetworkPolicy, npLog' = Put(npLog, key, obj),
             obj.rv = Stored(npLog)[key].rv + 1
      PROVE  Goal
  <2>1. npLog' = Append(npLog, [Stored(npLog) EXCEPT ![key] = obj])
    BY <1>2 DEF Put
  <2>2. Stored(npLog)' = [Stored(npLog) EXCEPT ![key] = obj]
    BY <1>0, <2>1 DEF Stored
  <2>3. obj.rv > 0
    BY <1>0, <1>2
  <2>4. QED
    BY <1>0, <2>2, <2>3 DEF LiveWritten
<1>3. ASSUME NEW app \in apps, EnsureNetpol(app) PROVE Goal
  <2> DEFINE key == <<krakendName(local.spec), app>>
             obj == [phase |-> "live", rv |-> Stored(npLog)[key].rv + 1,
                     owner |-> <<req, local.uid>>]
  <2>1. pc = "ensureNetpol" /\ (npLog' = npLog \/ npLog' = Put(npLog, key, obj))
    BY <1>3 DEF EnsureNetpol
  <2>2. local \in ApiEndpoints /\ local.spec \in ESpecs /\ req \in Names /\ app \in Apps
    BY <1>0, <2>1, PolicyTypes DEF TypeOK
  <2>3. key \in NetpolKeys
    BY <2>2, ClusterAssumption DEF NetpolKeys
  <2>4. obj \in NetworkPolicy /\ obj.rv = Stored(npLog)[key].rv + 1
    <3>1. Stored(npLog)[key].rv + 1 \in Nat /\ local.uid \in Nat
      BY <1>0, <2>2, <2>3 DEF ApiEndpoints
    <3>2. QED
      BY <2>2, <3>1 DEF NetworkPolicy
  <2> HIDE DEF key, obj
  <2>5. QED
    BY <1>1, <1>2, <2>1, <2>3, <2>4 DEF Follows
<1>4. ASSUME NEW key \in NetpolKeys, GcNetpol(key) PROVE Goal
  <2> DEFINE obj == [phase |-> "absent", rv |-> Stored(npLog)[key].rv + 1, owner |-> None]
  <2>1. npLog' = Put(npLog, key, obj)
    BY <1>4 DEF GcNetpol
  <2>2. obj \in NetworkPolicy /\ obj.rv = Stored(npLog)[key].rv + 1
    BY <1>0 DEF NetworkPolicy
  <2> HIDE DEF obj
  <2>3. QED
    BY <1>2, <2>1, <2>2
<1>5. \/ Follows(npLog', npLog)
      \/ \E app \in apps : EnsureNetpol(app)
      \/ \E key \in NetpolKeys : GcNetpol(key)
  <2>1. ASSUME NEW n \in Names, NEW outside \in BOOLEAN, Start(n, outside) PROVE UNCHANGED npLog
    BY <2>1 DEF Start
  <2>2. ASSUME Reconcile PROVE UNCHANGED npLog \/ \E app \in apps : EnsureNetpol(app)
    BY <2>2 DEF Reconcile, GetKrakend, GetConfigMap, ListEndpoints, UpdateConfigMap, Refetch,
                AdmitFinalizer, AddFinalizer, UpdateStatus, RemoveFinalizer, clusterVars
  <2>3. ASSUME Environment
        PROVE  \/ UNCHANGED npLog
               \/ Len(npLog) > 1 /\ npLog' = Deliver(npLog)
               \/ npLog' = Relist(npLog)
               \/ \E key \in NetpolKeys : GcNetpol(key)
    BY <2>3 DEF Environment, Fault, Restart, Resync, ObserveEndpoints, ObserveKrakends,
                ObserveConfigMaps, ObserveNetpols, GcConfigMap
  <2>4. QED
    BY <2>1, <2>2, <2>3 DEF Next, vars, Follows
<1>6. QED
  <2> HIDE DEF Goal
  <2>1. Goal
    BY <1>1, <1>3, <1>4, <1>5
  <2>2. QED
    BY <2>1 DEF Goal

LEMMA OpenedStep ==
  ASSUME ControllerInv, LiveWritten, [Next]_vars, NEW s \in ESpecs, Opened(s)
  PROVE  Opened(s)'
  BY NetpolStep, SpecFacts DEF Opened

-----------------------------------------------------------------------------
(* What a step does to the work on the copy: nothing, it ends it or turns  *)
(* to the finalizer, starts it, goes on before or after the policies, or   *)
(* is one of the two calls between.                                        *)
Goes == \/ UNCHANGED <<pc, local, hash, apps>>
        \/ pc' \in {"idle", "removeFinalizer"}
        \/ /\ pc' = "getKrakend"
           /\ local'.phase = "live" => hash' = hashEndpoints(local'.spec)
        \/ /\ pc \in BeforePolicies /\ pc' \in BeforePolicies \ {"ensureNetpol"}
           /\ UNCHANGED <<local, hash>>
        \/ pc \in AfterPolicies /\ pc' \in AfterPolicies /\ UNCHANGED hash

LEMMA GoesStep ==
  ASSUME ControllerInv, [Next]_vars
  PROVE  \/ Goes
         \/ UpdateConfigMap /\ AfterConfigMap /\ UNCHANGED <<local, hash>>
         \/ \E app \in apps : EnsureNetpol(app) /\ UNCHANGED <<local, hash>>
<1> DEFINE Goal == \/ Goes
                   \/ UpdateConfigMap /\ AfterConfigMap /\ UNCHANGED <<local, hash>>
                   \/ \E app \in apps : EnsureNetpol(app) /\ UNCHANGED <<local, hash>>
<1>1. ASSUME NEW n \in Names, NEW outside \in BOOLEAN, Start(n, outside) PROVE Goes
  BY <1>1 DEF Start, workVars, Goes
<1>2. ASSUME Fail \/ Done \/ Return PROVE Goes
  BY <1>2 DEF Fail, Done, Return, Goes
<1>3. ASSUME GetKrakend \/ GetConfigMap \/ ListEndpoints PROVE Goes
  BY <1>2, <1>3 DEF GetKrakend, GetConfigMap, ListEndpoints, Goes, BeforePolicies
<1>4. ASSUME Refetch PROVE Goes
  BY <1>2, <1>4 DEF Refetch, Goes, AfterPolicies
<1>5. ASSUME AdmitFinalizer \/ AddFinalizer \/ UpdateStatus \/ RemoveFinalizer PROVE Goes
  BY <1>2, <1>5 DEF AdmitFinalizer, AddFinalizer, UpdateStatus, RemoveFinalizer, Goes, AfterPolicies
<1>6. ASSUME UpdateConfigMap PROVE Goal
  BY <1>2, <1>6 DEF UpdateConfigMap
<1>7. ASSUME NEW app \in apps, EnsureNetpol(app) PROVE Goal
  BY <1>2, <1>7 DEF EnsureNetpol
<1>8. ASSUME Environment PROVE Goes
  <2>1. ASSUME UNCHANGED workVars PROVE Goes
    BY <2>1 DEF workVars, Goes
  <2>2. QED
    BY <1>2, <1>8, <2>1 DEF Environment, Fault, Restart, Resync, ObserveEndpoints, ObserveKrakends,
                ObserveConfigMaps, ObserveNetpols, GcConfigMap, GcNetpol
<1>9. ASSUME UNCHANGED vars PROVE Goes
  BY <1>9 DEF vars, workVars, Goes
<1>10. QED
  <2> HIDE DEF Goal
  <2>1. Goes => Goal
    BY DEF Goal
  <2>2. Goal
    BY <1>1, <1>3, <1>4, <1>5, <1>6, <1>7, <1>8, <1>9, <2>1 DEF Next, Reconcile
  <2>3. QED
    BY <2>2 DEF Goal

-----------------------------------------------------------------------------
(* The policy of an app is there after its turn of the loop.               *)
LEMMA VisitOpens ==
  ASSUME ControllerInv, LiveWritten, NEW app \in apps, EnsureNetpol(app), pc' # "idle",
         NEW key, key = <<krakendName(local.spec), app>>
  PROVE  /\ Stored(npLog)'[key].rv > 0
         /\ apps' = apps \ {app}
         /\ pc' = IF apps = {app} THEN "refetch" ELSE "ensureNetpol"
<1> DEFINE obj == [phase |-> "live", rv |-> Stored(npLog)[key].rv + 1, owner |-> <<req, local.uid>>]
<1>1. pc = "ensureNetpol" /\ ~Done
  BY DEF EnsureNetpol, Done, Return
<1>2. /\ npLog \in Seq([NetpolKeys -> NetworkPolicy]) /\ npLog # <<>>
      /\ Stored(npLog) \in [NetpolKeys -> NetworkPolicy] /\ Stored(npLog)[key].rv \in Nat
      /\ key \in NetpolKeys
  <2>1. local.spec \in ESpecs /\ app \in Apps
    BY <1>1, PolicyTypes DEF TypeOK
  <2>2. key \in NetpolKeys
    BY <2>1, ClusterAssumption DEF NetpolKeys
  <2>3. QED
    BY <2>2, PolicyTypes
<1>3. /\ \/ npLog' = Put(npLog, key, obj)
         \/ npLog' = npLog /\ Stored(npLog)[key].phase = "live"
      /\ apps' = apps \ {app}
      /\ pc' = IF apps = {app} THEN "refetch" ELSE "ensureNetpol"
  BY <1>1 DEF EnsureNetpol
<1>4. obj.rv > 0
  BY <1>2
<1> HIDE DEF obj
<1>5. CASE npLog' = Put(npLog, key, obj)
  <2>1. npLog' = Append(npLog, [Stored(npLog) EXCEPT ![key] = obj])
    BY <1>5 DEF Put
  <2>2. Stored(npLog)' = [Stored(npLog) EXCEPT ![key] = obj]
    BY <1>2, <2>1 DEF Stored
  <2>3. QED
    BY <1>2, <1>3, <1>4, <2>2
<1>6. CASE npLog' = npLog /\ Stored(npLog)[key].phase = "live"
  <2>1. Stored(npLog)' = Stored(npLog)
    BY <1>6 DEF Stored
  <2>2. QED
    BY <1>2, <1>3, <1>6, <2>1 DEF LiveWritten
<1>7. QED
  BY <1>3, <1>5, <1>6

LEMMA HashOfCopyStep ==
  ASSUME PolicyInv, [Next]_vars
  PROVE  HashOfCopy'
<1>0. ControllerInv /\ HashOfCopy
  BY DEF PolicyInv
<1>1. CASE Goes
  BY <1>0, <1>1 DEF Goes, HashOfCopy, BeforePolicies, AfterPolicies
<1>2. CASE UpdateConfigMap /\ AfterConfigMap /\ UNCHANGED <<local, hash>>
  <2>1. pc = "updateConfigMap" /\ local.phase \in {"live", "deleting"}
    BY <1>0, <1>2, PolicyTypes DEF UpdateConfigMap
  <2>2. QED
    BY <1>0, <1>2, <2>1 DEF AfterConfigMap, HashOfCopy, BeforePolicies
<1>3. ASSUME NEW app \in apps, EnsureNetpol(app), UNCHANGED <<local, hash>> PROVE HashOfCopy'
  <2>1. pc = "ensureNetpol" /\ pc' \in {"idle", "refetch", "ensureNetpol"}
    BY <1>3 DEF EnsureNetpol, Done, Return
  <2>2. QED
    BY <1>0, <1>3, <2>1 DEF HashOfCopy, BeforePolicies
<1>4. QED
  BY <1>0, <1>1, <1>2, <1>3, GoesStep

LEMMA VisitedOpenedStep ==
  ASSUME PolicyInv, [Next]_vars
  PROVE  VisitedOpened'
<1> SUFFICES ASSUME pc' = "ensureNetpol",
                    NEW app \in appsInNamespace(local'.spec) \ apps'
             PROVE  Stored(npLog)'[<<krakendName(local'.spec), app>>].rv > 0
  BY DEF VisitedOpened
<1>0. ControllerInv /\ LiveWritten /\ HashOfCopy /\ VisitedOpened
  BY DEF PolicyInv
<1>1. CASE Goes
  <2>1. pc = "ensureNetpol" /\ UNCHANGED <<local, apps>>
    BY <1>1 DEF Goes, BeforePolicies, AfterPolicies
  <2>2. local.spec \in ESpecs
    BY <1>0, <2>1, PolicyTypes
  <2>3. <<krakendName(local.spec), app>> \in NetpolKeys
    BY <2>1, <2>2, SpecFacts
  <2>4. Stored(npLog)[<<krakendName(local.spec), app>>].rv > 0
    BY <1>0, <2>1 DEF VisitedOpened
  <2>5. QED
    BY <1>0, <2>1, <2>3, <2>4, NetpolStep
<1>2. CASE UpdateConfigMap /\ AfterConfigMap /\ UNCHANGED <<local, hash>>
  BY <1>2 DEF AfterConfigMap
<1>3. ASSUME NEW a \in apps, EnsureNetpol(a), UNCHANGED <<local, hash>>
      PROVE  Stored(npLog)'[<<krakendName(local'.spec), app>>].rv > 0
  <2>1. pc = "ensureNetpol" /\ apps' = apps \ {a}
        /\ Stored(npLog)'[<<krakendName(local.spec), a>>].rv > 0
    BY <1>0, <1>3, VisitOpens DEF EnsureNetpol
  <2>2. CASE app = a
    BY <1>3, <2>1, <2>2
  <2>3. CASE app # a
    <3>1. local.spec \in ESpecs /\ app \in appsInNamespace(local.spec) \ apps
      BY <1>0, <1>3, <2>1, <2>3, PolicyTypes
    <3>2. <<krakendName(local.spec), app>> \in NetpolKeys
      BY <3>1, SpecFacts
    <3>3. Stored(npLog)[<<krakendName(local.spec), app>>].rv > 0
      BY <1>0, <2>1, <3>1 DEF VisitedOpened
    <3>4. QED
      BY <1>0, <1>3, <3>2, <3>3, NetpolStep
  <2>4. QED
    BY <2>2, <2>3
<1>4. QED
  BY <1>0, <1>1, <1>2, <1>3, GoesStep

LEMMA WorkOpenedStep ==
  ASSUME PolicyInv, NetpolEnabled, [Next]_vars
  PROVE  WorkOpened'
<1> SUFFICES ASSUME pc' \in AfterPolicies, NEW s \in ESpecs, hash' = hashEndpoints(s)
             PROVE  Opened(s)'
  BY DEF WorkOpened
<1>0. ControllerInv /\ LiveWritten /\ HashOfCopy /\ VisitedOpened /\ WorkOpened
  BY DEF PolicyInv
<1>1. CASE Goes
  <2>1. pc \in AfterPolicies /\ hash' = hash
    BY <1>1 DEF Goes, BeforePolicies, AfterPolicies
  <2>2. Opened(s)
    BY <1>0, <2>1 DEF WorkOpened
  <2>3. QED
    BY <1>0, <2>2, OpenedStep
<1>2. CASE UpdateConfigMap /\ AfterConfigMap /\ UNCHANGED <<local, hash>>
  <2>1. pc = "updateConfigMap" /\ local.phase \in {"live", "deleting"} /\ local.spec \in ESpecs
    BY <1>0, <1>2, PolicyTypes DEF UpdateConfigMap
  <2>2. local.phase = "live" /\ appsInNamespace(local.spec) = {}
    BY <1>2, <2>1 DEF AfterConfigMap, AfterPolicies
  <2>3. hash = hashEndpoints(local.spec)
    BY <1>0, <2>1, <2>2 DEF HashOfCopy, BeforePolicies
  <2>4. s = local.spec
    BY <1>2, <2>1, <2>3, SpecFacts
  <2>5. QED
    BY <2>2, <2>4 DEF Opened
<1>3. ASSUME NEW a \in apps, EnsureNetpol(a), UNCHANGED <<local, hash>>
      PROVE  Opened(s)'
  <2>1. pc = "ensureNetpol" /\ pc' # "idle" /\ pc' # "ensureNetpol"
    BY <1>3 DEF EnsureNetpol, AfterPolicies
  <2>2. apps = {a} /\ Stored(npLog)'[<<krakendName(local.spec), a>>].rv > 0
    BY <1>0, <1>3, <2>1, VisitOpens
  <2>3. local.phase = "live" /\ local.spec \in ESpecs
    BY <1>0, <2>1, PolicyTypes DEF HashOfCopy
  <2>4. hash = hashEndpoints(local.spec)
    BY <1>0, <2>1, <2>3 DEF HashOfCopy, BeforePolicies
  <2>5. s = local.spec
    BY <1>3, <2>3, <2>4, SpecFacts
  <2>6. ASSUME NEW app \in appsInNamespace(s) PROVE Stored(npLog)'[<<krakendName(s), app>>].rv > 0
    <3>1. CASE app = a
      BY <2>2, <2>5, <3>1
    <3>2. CASE app # a
      <4>1. Stored(npLog)[<<krakendName(s), app>>].rv > 0
        BY <1>0, <2>1, <2>2, <2>5, <3>2 DEF VisitedOpened
      <4>2. <<krakendName(s), app>> \in NetpolKeys
        BY SpecFacts
      <4>3. QED
        BY <1>0, <4>1, <4>2, NetpolStep
    <3>3. QED
      BY <3>1, <3>2
  <2>7. QED
    BY <2>6 DEF Opened
<1>4. QED
  BY <1>0, <1>1, <1>2, <1>3, GoesStep

-----------------------------------------------------------------------------
(* A stored hash is new only when Reconcile has just written its own.      *)
LEMMA HashStep ==
  ASSUME ControllerInv, [Next]_vars, NEW n \in Names
  PROVE  \/ Stored(epsLog)'[n].hash \in {None, Stored(epsLog)[n].hash}
         \/ pc = "updateStatus" /\ Stored(epsLog)'[n].hash = hash
<1> DEFINE Goal == \/ Stored(epsLog)'[n].hash \in {None, Stored(epsLog)[n].hash}
                   \/ pc = "updateStatus" /\ Stored(epsLog)'[n].hash = hash
<1>0. /\ epsLog \in Seq([Names -> ApiEndpoints]) /\ epsLog # <<>>
      /\ Stored(epsLog) \in [Names -> ApiEndpoints]
      /\ pc # "idle" => req \in Names /\ local \in ApiEndpoints
  BY PolicyTypes
<1>1. ASSUME Follows(epsLog', epsLog) PROVE Goal
  <2>1. Stored(epsLog)' = Stored(epsLog)
    <3>1. Stored(epsLog') = Stored(epsLog)
      BY <1>0, <1>1, FollowsFacts
    <3>2. QED
      BY <3>1 DEF Stored
  <2>2. QED
    BY <2>1
<1>2. ASSUME NEW m \in Names, NEW obj, epsLog' = Put(epsLog, m, obj),
             \/ obj.hash \in {None, Stored(epsLog)[m].hash}
             \/ pc = "updateStatus" /\ obj.hash = hash
      PROVE  Goal
  <2>1. epsLog' = Append(epsLog, [Stored(epsLog) EXCEPT ![m] = obj])
    BY <1>2 DEF Put
  <2>2. Stored(epsLog)' = [Stored(epsLog) EXCEPT ![m] = obj]
    BY <1>0, <2>1 DEF Stored
  <2>3. QED
    BY <1>0, <1>2, <2>2
<1>3. ASSUME NEW w \in inflight, Commit(w) PROVE Goal
  <2> DEFINE e == Stored(epsLog)[w.name]
             obj == IF e.phase = "absent" THEN NewEndpoints(e, w.spec)
                    ELSE [e EXCEPT !.spec = w.spec, !.rv = @ + 1]
  <2>1. w.name \in Names /\ e \in ApiEndpoints
    BY <1>0 DEF ControllerInv, TypeOK, AdmissionTypeOK, Request
  <2>2. epsLog' = epsLog \/ epsLog' = Put(epsLog, w.name, obj)
    BY <1>3 DEF Commit
  <2>3. obj.hash \in {None, e.hash}
    BY <2>1 DEF NewEndpoints, ApiEndpoints
  <2> HIDE DEF obj
  <2>4. QED
    BY <1>1, <1>2, <2>1, <2>2, <2>3 DEF Follows
<1>4. ASSUME NEW m \in Names, DeleteEndpoints(m) PROVE Goal
  <2> DEFINE e == Stored(epsLog)[m]
             obj == DeletedEndpoints(e)
  <2>1. epsLog' = Put(epsLog, m, obj) /\ e \in ApiEndpoints
    BY <1>0, <1>4 DEF DeleteEndpoints
  <2>2. obj.hash \in {None, e.hash}
    BY <2>1 DEF DeletedEndpoints, GoneEndpoints, ApiEndpoints
  <2> HIDE DEF obj
  <2>3. QED
    BY <1>2, <2>1, <2>2
<1>5. ASSUME AddFinalizer PROVE Goal
  <2> DEFINE obj == [[local EXCEPT !.finalizer = TRUE,
                    !.owner = IF @ = None THEN <<krak, krakCopy.uid>> ELSE @] EXCEPT !.rv = @ + 1]
  <2>1. epsLog' = epsLog \/ (UpToDate(local) /\ epsLog' = Put(epsLog, req, obj))
    BY <1>5 DEF AddFinalizer, Write
  <2>2. pc # "idle" /\ req \in Names /\ obj.hash = local.hash
    BY <1>0, <1>5 DEF AddFinalizer, ApiEndpoints
  <2>3. UpToDate(local) => local = Stored(epsLog)[req]
    BY <2>2, UpToDateMeans DEF UpToDate
  <2> HIDE DEF obj
  <2>4. QED
    BY <1>1, <1>2, <2>1, <2>2, <2>3 DEF Follows
<1>6. ASSUME UpdateStatus PROVE Goal
  <2> DEFINE obj == [[local EXCEPT !.hash = hash] EXCEPT !.rv = @ + 1]
  <2>1. pc = "updateStatus" /\ (epsLog' = epsLog \/ epsLog' = Put(epsLog, req, obj))
    BY <1>6 DEF UpdateStatus, Write
  <2>2. req \in Names /\ obj.hash = hash
    BY <1>0, <2>1 DEF ApiEndpoints
  <2> HIDE DEF obj
  <2>3. QED
    BY <1>1, <1>2, <2>1, <2>2 DEF Follows
<1>7. ASSUME RemoveFinalizer PROVE Goal
  <2> DEFINE obj == GoneEndpoints(local.rv + 1, local.uid)
  <2>1. pc # "idle" /\ (epsLog' = epsLog \/ epsLog' = Put(epsLog, req, obj))
    BY <1>7 DEF RemoveFinalizer
  <2>2. req \in Names /\ obj.hash = None
    BY <1>0, <2>1 DEF GoneEndpoints
  <2> HIDE DEF obj
  <2>3. QED
    BY <1>1, <1>2, <2>1, <2>2 DEF Follows
<1>8. \/ Follows(epsLog', epsLog)
      \/ \E w \in inflight : Commit(w)
      \/ \E m \in Names : DeleteEndpoints(m)
      \/ AddFinalizer \/ UpdateStatus \/ RemoveFinalizer
  <2>1. ASSUME NEW m \in Names, NEW outside \in BOOLEAN, Start(m, outside) PROVE UNCHANGED epsLog
    BY <2>1 DEF Start
  <2>2. ASSUME Reconcile PROVE UNCHANGED epsLog \/ AddFinalizer \/ UpdateStatus \/ RemoveFinalizer
    BY <2>2 DEF Reconcile, GetKrakend, GetConfigMap, ListEndpoints, UpdateConfigMap, EnsureNetpol,
                Refetch, AdmitFinalizer, clusterVars, admissionVars
  <2>3. ASSUME UserStep
        PROVE  \/ UNCHANGED epsLog
               \/ \E w \in inflight : Commit(w)
               \/ \E m \in Names : DeleteEndpoints(m)
    BY <2>3 DEF UserStep, UserApply, UserDelete, GcEndpoints, KrakendApply, KrakendDelete
  <2>4. ASSUME ObserveEndpoints \/ Restart PROVE Follows(epsLog', epsLog)
    BY <2>4 DEF ObserveEndpoints, DeliverEndpoints, Restart, RelistCaches, Follows
  <2>5. ASSUME \/ Fault \/ Resync \/ ObserveKrakends \/ ObserveConfigMaps \/ ObserveNetpols
               \/ \E k \in Krakends : GcConfigMap(k)
               \/ \E key \in NetpolKeys : GcNetpol(key)
               \/ UNCHANGED vars
        PROVE  UNCHANGED epsLog
    BY <2>5 DEF Fault, Resync, ObserveKrakends, DeliverKrakends, ObserveConfigMaps, ObserveNetpols,
                GcConfigMap, GcNetpol, vars, admissionVars
  <2>6. QED
    BY <2>1, <2>2, <2>3, <2>4, <2>5 DEF Next, Environment, Follows
<1>9. QED
  <2> HIDE DEF Goal
  <2>1. Goal
    BY <1>1, <1>3, <1>4, <1>5, <1>6, <1>7, <1>8
  <2>2. QED
    BY <2>1 DEF Goal

LEMMA StoredOpenedStep ==
  ASSUME PolicyInv, [Next]_vars
  PROVE  StoredOpened'
<1> SUFFICES ASSUME NEW n \in Names, NEW s \in ESpecs, Stored(epsLog)'[n].hash = hashEndpoints(s)
             PROVE  Opened(s)'
  BY DEF StoredOpened
<1>1. hashEndpoints(s) # None
  BY SpecFacts
<1>2. \/ Stored(epsLog)[n].hash = hashEndpoints(s)
      \/ pc = "updateStatus" /\ hash = hashEndpoints(s)
  BY <1>1, HashStep DEF PolicyInv
<1>3. Opened(s)
  BY <1>2 DEF PolicyInv, StoredOpened, WorkOpened, AfterPolicies
<1>4. QED
  BY <1>3, OpenedStep DEF PolicyInv

LEMMA PolicyInit == Init => PolicyInv
<1> SUFFICES ASSUME Init PROVE PolicyInv
  OBVIOUS
<1>1. ControllerInv
  BY ControllerInit
<1>2. pc = "idle" /\ \A key \in NetpolKeys : Stored(npLog)[key] = NoNetpol
  BY DEF Init, Stored
<1>3. LiveWritten
  BY <1>2 DEF LiveWritten, NoNetpol
<1>4. HashOfCopy /\ VisitedOpened /\ WorkOpened
  BY <1>2 DEF HashOfCopy, VisitedOpened, WorkOpened, BeforePolicies, AfterPolicies
<1>5. \A n \in Names : Stored(epsLog)[n].hash = None
  BY DEF Init, AdmissionInit, Stored, GoneEndpoints
<1>6. StoredOpened
  BY <1>5, SpecFacts DEF StoredOpened
<1>7. QED
  BY <1>1, <1>3, <1>4, <1>6 DEF PolicyInv

(* With network policies enabled, no ApiEndpoints ever carries the hash of *)
(* its spec before a policy was created for every application the spec     *)
(* discovers (lines 134-139 before 174), although the spec may change, the *)
(* copy may be replaced and calls may fail in between.                     *)
THEOREM PoliciesComeFirst == Spec => []PolicyBeforeSync
<1>1. CASE NetpolEnabled
  <2>1. PolicyInv /\ [Next]_vars => PolicyInv'
    <3> SUFFICES ASSUME PolicyInv, [Next]_vars PROVE PolicyInv'
      OBVIOUS
    <3>1. ControllerInv' /\ LiveWritten'
      BY ControllerInvStep, NetpolStep DEF PolicyInv
    <3>2. HashOfCopy' /\ VisitedOpened' /\ WorkOpened' /\ StoredOpened'
      BY <1>1, HashOfCopyStep, VisitedOpenedStep, WorkOpenedStep, StoredOpenedStep
    <3>3. QED
      BY <3>1, <3>2 DEF PolicyInv
  <2>2. PolicyInv => PolicyBeforeSync
    <3> SUFFICES ASSUME PolicyInv, NEW n \in Names, InSync(Stored(epsLog)[n]),
                        NEW app \in appsInNamespace(Stored(epsLog)[n].spec)
                 PROVE  Stored(npLog)[<<krakendName(Stored(epsLog)[n].spec), app>>].rv > 0
      BY DEF PolicyBeforeSync
    <3>1. Stored(epsLog)[n].spec \in ESpecs
      <4>1. Stored(epsLog)[n] \in ApiEndpoints
        BY PolicyTypes DEF PolicyInv
      <4>2. QED
        BY <4>1 DEF InSync, ApiEndpoints
    <3>2. QED
      BY <3>1 DEF PolicyInv, StoredOpened, Opened, InSync
  <2>3. QED
    BY <2>1, <2>2, PolicyInit, PTL DEF Spec
<1>2. CASE ~NetpolEnabled
  <2>1. PolicyBeforeSync
    BY <1>2 DEF PolicyBeforeSync
  <2>2. QED
    BY <2>1, PTL
<1>3. QED
  BY <1>1, <1>2
=============================================================================
