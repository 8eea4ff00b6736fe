------------------------------ MODULE RouteProofs ------------------------------
(***************************************************************************)
(* What the partials hold.  First, for a namespace with one Krakend: no    *)
(* gateway serves the routes of an ApiEndpoints that its finalizer has     *)
(* released, and the controller implements Registry.  Then: no route       *)
(* without a validator that its ApiEndpoints did not ask for, and, once    *)
(* nothing is left to reconcile, exactly the routes the stored             *)
(* ApiEndpoints ask for.                                                   *)
(***************************************************************************)
EXTENDS ApiEndpointsProofs

(* Every source of a route still exists or left without a finalizer.       *)
Guarded(routes) ==
  \A r \in routes :
    r.src = None \/ r.src \in unguarded \/ Stored(epsLog)[r.src].phase # "absent"

(* Once the finalizer has been removed no event and no cache shows the     *)
(* object as live any more.                                                *)
Released ==
  \A n \in Names : Stored(epsLog)[n].phase = "absent" /\ n \notin unguarded =>
    \A i \in 1..Len(epsLog) : epsLog[i][n].phase # "live"

(* The list about to be published, and if it is published for a deleted    *)
(* object that nobody has touched since, it is without that object.        *)
Pending ==
  pc = "updateConfigMap" =>
    /\ Guarded(cm.data)
    /\ local.phase = "deleting" /\ Stored(epsLog)[req].rv = local.rv =>
         \A r \in cm.data : r.src # req

(* The finalizer is only removed when the routes are gone.                 *)
ReleaseClean ==
  pc = "removeFinalizer" /\ Stored(epsLog)[req].rv = local.rv =>
    \A k \in Krakends : Serving(k) => \A r \in Stored(cmLog)[k].data : r.src # req

GhostInv == ControllerInv /\ KrakendsLeave /\ Released /\ Pending /\ ReleaseClean /\ GhostFree

-----------------------------------------------------------------------------
(* A route may be served for n.                                            *)
Present(n) == n \in unguarded \/ Stored(epsLog)[n].phase # "absent"

(* What a write does to the log of the ApiEndpoints.                       *)
LEMMA WriteFacts ==
  ASSUME epsLog \in Seq([Names -> ApiEndpoints]), epsLog # <<>>,
         NEW n \in Names, NEW obj, epsLog' = Put(epsLog, n, obj)
  PROVE  /\ Stored(epsLog)' = [Stored(epsLog) EXCEPT ![n] = obj]
         /\ \A i \in 1..Len(epsLog') :
              epsLog'[i] = Stored(epsLog)' \/ (i \in 1..Len(epsLog) /\ epsLog'[i] = epsLog[i])
  BY DEF Put, Stored

(* The four ways a step can touch the ApiEndpoints: not at all, a write    *)
(* that leaves the object there, a deletion without finalizer, and the     *)
(* removal of the finalizer.                                               *)
Untouched == /\ unguarded' = unguarded
             /\ \/ epsLog' = epsLog
                \/ Len(epsLog) > 1 /\ epsLog' = Deliver(epsLog)
                \/ epsLog' = Relist(epsLog)

Written(n, obj) == /\ epsLog' = Put(epsLog, n, obj) /\ obj.phase # "absent"
                   /\ unguarded' \in {unguarded, unguarded \ {n}}

Lost(n, obj) == epsLog' = Put(epsLog, n, obj) /\ unguarded' = unguarded \cup {n}

ReleasedNow == /\ pc = "removeFinalizer" /\ Stored(epsLog)[req].rv = local.rv
               /\ epsLog' = Put(epsLog, req, GoneEndpoints(local.rv + 1, local.uid))
               /\ unguarded' = unguarded

LEMMA TouchStep ==
  ASSUME ControllerInv, [Next]_vars
  PROVE  \/ Untouched
         \/ \E n \in Names : \E obj : Written(n, obj)
         \/ \E n \in Names : \E obj : Lost(n, obj)
         \/ ReleasedNow
<1> DEFINE Goal == \/ Untouched
                   \/ \E n \in Names : \E obj : Written(n, obj)
                   \/ \E n \in Names : \E obj : Lost(n, obj)
                   \/ ReleasedNow
<1>0. /\ Stored(epsLog) \in [Names -> ApiEndpoints]
      /\ pc # "idle" => req \in Names /\ local \in ApiEndpoints /\ local.phase # "absent"
  BY SnapshotTypes DEF ControllerInv, TypeOK
<1>1. ASSUME UNCHANGED <<epsLog, unguarded>> PROVE Goal
  BY <1>1 DEF Untouched
<1>2. ASSUME NEW w \in inflight, Commit(w) PROVE Goal
  <2> DEFINE e == Stored(epsLog)[w.name]
             obj == IF e.phase = "absent" THEN NewEndpoints(e, w.spec)
                    ELSE [e EXCEPT !.spec = w.spec, !.rv = @ + 1]
  <2>1. w.name \in Names
    BY DEF ControllerInv, TypeOK, AdmissionTypeOK, Request
  <2>2. CASE w.rv # e.rv
    BY <1>1, <1>2, <2>2 DEF Commit, history
  <2>3. CASE w.rv = e.rv
    <3>1. epsLog' = Put(epsLog, w.name, obj) /\ unguarded' = unguarded \ {w.name}
      BY <1>2, <2>3 DEF Commit
    <3>2. obj.phase # "absent"
      BY <1>0, <2>1 DEF NewEndpoints, ApiEndpoints
    <3> HIDE DEF obj
    <3>3. Written(w.name, obj)
      BY <3>1, <3>2 DEF Written
    <3>4. QED
      BY <2>1, <3>3
  <2>4. QED
    BY <2>2, <2>3
<1>3. ASSUME NEW n \in Names, DeleteEndpoints(n) PROVE Goal
  <2> DEFINE e == Stored(epsLog)[n]
             obj == DeletedEndpoints(e)
  <2>1. epsLog' = Put(epsLog, n, obj) /\ e \in ApiEndpoints
    BY <1>0, <1>3 DEF DeleteEndpoints
  <2>2. CASE e.finalizer
    <3>1. obj.phase # "absent" /\ unguarded' = unguarded
      BY <1>3, <2>1, <2>2 DEF DeleteEndpoints, DeletedEndpoints, ApiEndpoints
    <3> HIDE DEF obj
    <3>2. QED
      BY <2>1, <3>1 DEF Written
  <2>3. CASE ~e.finalizer
    <3>1. unguarded' = unguarded \cup {n}
      BY <1>3, <2>3 DEF DeleteEndpoints
    <3> HIDE DEF obj
    <3>2. QED
      BY <2>1, <3>1 DEF Lost
  <2>4. QED
    BY <2>2, <2>3
<1>4. ASSUME AddFinalizer PROVE Goal
  <2> DEFINE obj == [[local EXCEPT !.finalizer = TRUE,
                    !.owner = IF @ = None THEN <<krak, krakCopy.uid>> ELSE @] EXCEPT !.rv = @ + 1]
  <2>1. unguarded' = unguarded /\ (epsLog' = epsLog \/ epsLog' = Put(epsLog, req, obj))
    BY <1>4 DEF AddFinalizer, Write, history
  <2>2. req \in Names /\ obj.phase # "absent"
    BY <1>0, <1>4 DEF AddFinalizer, ApiEndpoints
  <2> HIDE DEF obj
  <2>3. QED
    BY <2>1, <2>2 DEF Untouched, Written
<1>5. ASSUME UpdateStatus PROVE Goal
  <2> DEFINE obj == [[local EXCEPT !.hash = hash] EXCEPT !.rv = @ + 1]
  <2>1. unguarded' = unguarded /\ (epsLog' = epsLog \/ epsLog' = Put(epsLog, req, obj))
    BY <1>5 DEF UpdateStatus, Write, history
  <2>2. req \in Names /\ obj.phase # "absent"
    BY <1>0, <1>5 DEF UpdateStatus, ApiEndpoints
  <2> HIDE DEF obj
  <2>3. QED
    BY <2>1, <2>2 DEF Untouched, Written
<1>6. ASSUME RemoveFinalizer PROVE Goal
  BY <1>6 DEF RemoveFinalizer, UpToDate, ReleasedNow, Untouched, history
<1>7. ASSUME ObserveEndpoints \/ Restart PROVE Goal
  BY <1>7 DEF ObserveEndpoints, DeliverEndpoints, Restart, RelistCaches, Untouched, history
<1>8. \/ UNCHANGED <<epsLog, unguarded>>
      \/ \E w \in inflight : Commit(w)
      \/ \E n \in Names : DeleteEndpoints(n)
      \/ AddFinalizer \/ UpdateStatus \/ RemoveFinalizer \/ ObserveEndpoints \/ Restart
  <2>1. ASSUME NEW n \in Names, NEW outside \in BOOLEAN, Start(n, outside)
        PROVE  UNCHANGED <<epsLog, unguarded>>
    BY <2>1 DEF Start, history
  <2>2. ASSUME GetKrakend \/ GetConfigMap \/ ListEndpoints \/ Refetch \/ AdmitFinalizer
        PROVE  UNCHANGED <<epsLog, unguarded>>
    BY <2>2 DEF GetKrakend, GetConfigMap, ListEndpoints, Refetch, AdmitFinalizer, clusterVars,
                admissionVars, history
  <2>3. ASSUME UpdateConfigMap \/ \E app \in apps : EnsureNetpol(app)
        PROVE  UNCHANGED <<epsLog, unguarded>>
    BY <2>3 DEF UpdateConfigMap, EnsureNetpol, admissionVars, history
  <2>4. ASSUME UserStep
        PROVE  \/ UNCHANGED <<epsLog, unguarded>>
               \/ \E w \in inflight : Commit(w)
               \/ \E n \in Names : DeleteEndpoints(n)
    BY <2>4 DEF UserStep, UserApply, UserDelete, GcEndpoints, KrakendApply, KrakendDelete, history
  <2>5. ASSUME \/ Fault \/ Resync \/ ObserveKrakends \/ ObserveConfigMaps \/ ObserveNetpols
               \/ \E k \in Krakends : GcConfigMap(k)
               \/ \E key \in NetpolKeys : GcNetpol(key)
               \/ UNCHANGED vars
        PROVE  UNCHANGED <<epsLog, unguarded>>
    BY <2>5 DEF Fault, Resync, ObserveKrakends, DeliverKrakends, ObserveConfigMaps, ObserveNetpols,
                GcConfigMap, GcNetpol, vars, admissionVars, history
  <2>6. QED
    BY <2>1, <2>2, <2>3, <2>4, <2>5 DEF Next, Reconcile, Environment
<1>9. QED
  <2> HIDE DEF Goal
  <2>1. Goal
    BY <1>1, <1>2, <1>3, <1>4, <1>5, <1>6, <1>7, <1>8
  <2>2. QED
    BY <2>1 DEF Goal

(* An untouched log only loses snapshots.                                  *)
LEMMA UntouchedFacts ==
  ASSUME epsLog \in Seq([Names -> ApiEndpoints]), epsLog # <<>>, Untouched
  PROVE  /\ Stored(epsLog)' = Stored(epsLog)
         /\ \A i \in 1..Len(epsLog') : \E j \in 1..Len(epsLog) : epsLog'[i] = epsLog[j]
<1>1. CASE epsLog' = epsLog
  BY <1>1 DEF Stored
<1>2. CASE Len(epsLog) > 1 /\ epsLog' = Deliver(epsLog)
  <2>1. Stored(epsLog)' = Stored(epsLog)
    BY <1>2 DEF Deliver, Stored
  <2>2. Len(epsLog') = Len(epsLog) - 1
    BY <1>2 DEF Deliver
  <2>3. ASSUME NEW i \in 1..Len(epsLog') PROVE \E j \in 1..Len(epsLog) : epsLog'[i] = epsLog[j]
    <3>1. i + 1 \in 1..Len(epsLog) /\ epsLog'[i] = epsLog[i + 1]
      BY <1>2, <2>2 DEF Deliver
    <3>2. QED
      BY <3>1
  <2>4. QED
    BY <2>1, <2>3
<1>3. CASE epsLog' = Relist(epsLog)
  <2>1. Len(epsLog) \in 1..Len(epsLog) /\ Len(epsLog') = 1 /\ epsLog'[1] = epsLog[Len(epsLog)]
    BY <1>3 DEF Relist, Stored
  <2>2. QED
    BY <1>3, <2>1 DEF Relist, Stored
<1>4. QED
  BY <1>1, <1>2, <1>3 DEF Untouched

(* Only the removal of its finalizer takes an object away for good.        *)
LEMMA PresentStep ==
  ASSUME ControllerInv, [Next]_vars, NEW n \in Names, Present(n)
  PROVE  \/ Present(n)'
         \/ pc = "removeFinalizer" /\ n = req /\ Stored(epsLog)[req].rv = local.rv
<1>0. /\ epsLog \in Seq([Names -> ApiEndpoints]) /\ epsLog # <<>>
      /\ Stored(epsLog) \in [Names -> ApiEndpoints]
      /\ pc # "idle" => req \in Names
  BY SnapshotTypes DEF ControllerInv, TypeOK
<1>1. CASE Untouched
  BY <1>0, <1>1, UntouchedFacts DEF Untouched, Present
<1>2. ASSUME NEW m \in Names, NEW obj, Written(m, obj) PROVE Present(n)'
  <2>1. Stored(epsLog)' = [Stored(epsLog) EXCEPT ![m] = obj]
    BY <1>0, <1>2, WriteFacts DEF Written
  <2>2. QED
    BY <1>0, <1>2, <2>1 DEF Written, Present
<1>3. ASSUME NEW m \in Names, NEW obj, Lost(m, obj) PROVE Present(n)'
  <2>1. Stored(epsLog)' = [Stored(epsLog) EXCEPT ![m] = obj]
    BY <1>0, <1>3, WriteFacts DEF Lost
  <2>2. QED
    BY <1>0, <1>3, <2>1 DEF Lost, Present
<1>4. CASE ReleasedNow
  <2> DEFINE obj == GoneEndpoints(local.rv + 1, local.uid)
  <2>1. epsLog' = Put(epsLog, req, obj) /\ req \in Names
    BY <1>0, <1>4 DEF ReleasedNow
  <2> HIDE DEF obj
  <2>2. Stored(epsLog)' = [Stored(epsLog) EXCEPT ![req] = obj]
    BY <1>0, <2>1, WriteFacts
  <2>3. QED
    BY <1>0, <1>4, <2>1, <2>2 DEF ReleasedNow, Present
<1>5. QED
  BY <1>1, <1>2, <1>3, <1>4, TouchStep

LEMMA ReleasedStep ==
  ASSUME ControllerInv, [Next]_vars, Released
  PROVE  Released'
<1>0. /\ epsLog \in Seq([Names -> ApiEndpoints]) /\ epsLog # <<>>
      /\ Stored(epsLog) \in [Names -> ApiEndpoints]
      /\ pc # "idle" => req \in Names
  BY SnapshotTypes DEF ControllerInv, TypeOK
<1>1. CASE Untouched
  <2>1. unguarded' = unguarded /\ Stored(epsLog)' = Stored(epsLog)
        /\ \A i \in 1..Len(epsLog') : \E j \in 1..Len(epsLog) : epsLog'[i] = epsLog[j]
    BY <1>0, <1>1, UntouchedFacts DEF Untouched
  <2>2. QED
    BY <2>1 DEF Released
<1>2. ASSUME NEW m \in Names, NEW obj, Written(m, obj) PROVE Released'
  <2>1. /\ Stored(epsLog)' = [Stored(epsLog) EXCEPT ![m] = obj]
        /\ \A i \in 1..Len(epsLog') :
             epsLog'[i] = Stored(epsLog)' \/ (i \in 1..Len(epsLog) /\ epsLog'[i] = epsLog[i])
    BY <1>0, <1>2, WriteFacts DEF Written
  <2>2. \A n \in Names : Stored(epsLog)'[n].phase = "absent" /\ n \notin unguarded' =>
          n # m /\ Stored(epsLog)[n].phase = "absent" /\ n \notin unguarded
    BY <1>0, <1>2, <2>1 DEF Written
  <2>3. QED
    BY <2>1, <2>2 DEF Released
<1>3. ASSUME NEW m \in Names, NEW obj, Lost(m, obj) PROVE Released'
  <2>1. /\ Stored(epsLog)' = [Stored(epsLog) EXCEPT ![m] = obj]
        /\ \A i \in 1..Len(epsLog') :
             epsLog'[i] = Stored(epsLog)' \/ (i \in 1..Len(epsLog) /\ epsLog'[i] = epsLog[i])
    BY <1>0, <1>3, WriteFacts DEF Lost
  <2>2. \A n \in Names : Stored(epsLog)'[n].phase = "absent" /\ n \notin unguarded' =>
          n # m /\ Stored(epsLog)[n].phase = "absent" /\ n \notin unguarded
    BY <1>0, <1>3, <2>1 DEF Lost
  <2>3. QED
    BY <2>1, <2>2 DEF Released
<1>4. CASE ReleasedNow
  <2> DEFINE obj == GoneEndpoints(local.rv + 1, local.uid)
  <2>1. /\ epsLog' = Put(epsLog, req, obj) /\ req \in Names
        /\ unguarded' = unguarded /\ obj.phase = "absent"
    BY <1>0, <1>4 DEF ReleasedNow, GoneEndpoints
  <2>2. \A i \in 1..Len(epsLog) : epsLog[i][req].phase = "deleting"
    BY <1>4, UpToDateMeans DEF ReleasedNow, ControllerInv, PathOK
  <2> HIDE DEF obj
  <2>3. /\ Stored(epsLog)' = [Stored(epsLog) EXCEPT ![req] = obj]
        /\ \A i \in 1..Len(epsLog') :
             epsLog'[i] = Stored(epsLog)' \/ (i \in 1..Len(epsLog) /\ epsLog'[i] = epsLog[i])
    BY <1>0, <2>1, WriteFacts
  <2>4. ASSUME NEW n \in Names, Stored(epsLog)'[n].phase = "absent", n \notin unguarded',
               NEW i \in 1..Len(epsLog')
        PROVE  epsLog'[i][n].phase # "live"
    <3>1. CASE n = req
      BY <1>0, <2>1, <2>2, <2>3, <3>1
    <3>2. CASE n # req
      <4>1. Stored(epsLog)[n].phase = "absent" /\ n \notin unguarded
        BY <1>0, <2>1, <2>3, <2>4, <3>2
      <4>2. QED
        BY <2>3, <2>4, <4>1 DEF Released
    <3>3. QED
      BY <3>1, <3>2
  <2>5. QED
    BY <2>4 DEF Released
<1>5. QED
  BY <1>1, <1>2, <1>3, <1>4, TouchStep

-----------------------------------------------------------------------------
(* The steps that touch the partials ConfigMaps.                           *)
LEMMA ConfigMapCalls ==
  ASSUME [Next]_vars
  PROVE  \/ UNCHANGED cmLog \/ UpdateConfigMap
         \/ Len(cmLog) > 1 /\ cmLog' = Deliver(cmLog)
         \/ cmLog' = Relist(cmLog)
         \/ \E l \in Krakends : GcConfigMap(l)
<1>1. ASSUME NEW n \in Names, NEW outside \in BOOLEAN, Start(n, outside) PROVE UNCHANGED cmLog
  BY <1>1 DEF Start
<1>2. ASSUME Reconcile PROVE UNCHANGED cmLog \/ UpdateConfigMap
  BY <1>2 DEF Reconcile, GetKrakend, GetConfigMap, ListEndpoints, EnsureNetpol, Refetch,
              AdmitFinalizer, AddFinalizer, UpdateStatus, RemoveFinalizer, clusterVars
<1>3. ASSUME Environment
      PROVE  \/ UNCHANGED cmLog
             \/ Len(cmLog) > 1 /\ cmLog' = Deliver(cmLog)
             \/ cmLog' = Relist(cmLog)
             \/ \E l \in Krakends : GcConfigMap(l)
  BY <1>3 DEF Environment, Fault, Restart, Resync, ObserveEndpoints, ObserveKrakends,
              ObserveConfigMaps, ObserveNetpols, GcNetpol
<1>4. QED
  BY <1>1, <1>2, <1>3 DEF Next, vars

(* What an update of the partials that succeeds does: the list is stored,  *)
(* in an object that keeps the copy's phase and owner.                     *)
LEMMA PublishFacts ==
  ASSUME ControllerInv, UpdateConfigMap, pc' # "idle"
  PROVE  /\ pc = "updateConfigMap" /\ krak \in Krakends
         /\ AfterConfigMap /\ UNCHANGED <<epsLog, krLog, req, local, hash, krak, krakCopy, cm>>
         /\ Stored(cmLog)[krak].phase = "live" /\ Stored(cmLog)[krak].rv = cm.rv
         /\ \/ cmLog' = cmLog
            \/ \E obj \in ConfigMap :
                 /\ cmLog' = Put(cmLog, krak, obj) /\ obj.rv = cm.rv + 1
                 /\ obj.phase = cm.phase /\ obj.owner = cm.owner
         /\ Stored(cmLog)'[krak].data = cm.data
<1>0. /\ cmLog \in Seq([Krakends -> ConfigMap]) /\ cmLog # <<>>
      /\ Stored(cmLog) \in [Krakends -> ConfigMap] /\ cm \in ConfigMap
  BY SnapshotTypes DEF ControllerInv, TypeOK
<1>1. /\ pc = "updateConfigMap" /\ AfterConfigMap
      /\ UNCHANGED <<epsLog, krLog, req, local, hash, krak, krakCopy, cm>>
      /\ Stored(cmLog)[krak].phase = "live" /\ Stored(cmLog)[krak].rv = cm.rv
      /\ cmLog' = IF cm.data = Stored(cmLog)[krak].data THEN cmLog
                  ELSE Put(cmLog, krak, [cm EXCEPT !.rv = @ + 1])
  BY DEF UpdateConfigMap, Fail, Return, admissionVars
<1>2. krak \in Krakends
  BY <1>1 DEF ControllerInv, TypeOK, PCs
<1>3. CASE cm.data = Stored(cmLog)[krak].data
  BY <1>1, <1>2, <1>3 DEF Stored
<1>4. CASE cm.data # Stored(cmLog)[krak].data
  <2> DEFINE obj == [cm EXCEPT !.rv = @ + 1]
  <2>1. /\ obj \in ConfigMap /\ obj.rv = cm.rv + 1 /\ obj.data = cm.data
        /\ obj.phase = cm.phase /\ obj.owner = cm.owner
    <3>1. cm.rv + 1 \in Nat
      BY <1>0 DEF ConfigMap
    <3>2. QED
      BY <1>0, <3>1 DEF ConfigMap
  <2>2. cmLog' = Put(cmLog, krak, obj)
    BY <1>1, <1>4
  <2> HIDE DEF obj
  <2>3. Stored(Put(cmLog, krak, obj)) = [Stored(cmLog) EXCEPT ![krak] = obj]
    BY <1>0, <1>2, <2>1, PutConfigMap
  <2>4. Stored(cmLog)' = [Stored(cmLog) EXCEPT ![krak] = obj]
    BY <2>2, <2>3 DEF Stored
  <2>5. QED
    BY <1>0, <1>1, <1>2, <2>1, <2>2, <2>4
<1>5. QED
  BY <1>3, <1>4

(* A gateway starts to read other routes only when Reconcile updates its   *)
(* ConfigMap; it never comes back.                                         *)
LEMMA ServingStep ==
  ASSUME ControllerInv, [Next]_vars, NEW k \in Krakends, Serving(k)'
  PROVE  \/ Serving(k) /\ Stored(cmLog)'[k].data = Stored(cmLog)[k].data
         \/ pc = "updateConfigMap" /\ k = krak /\ Stored(cmLog)'[k].data = cm.data
<1>0. /\ cmLog \in Seq([Krakends -> ConfigMap]) /\ cmLog # <<>>
      /\ Stored(cmLog) \in [Krakends -> ConfigMap]
      /\ Stored(krLog) \in [Krakends -> Krakend]
      /\ cm \in ConfigMap
  BY SnapshotTypes DEF ControllerInv, TypeOK
<1>1. /\ Stored(krLog)'[k].uid = Stored(krLog)[k].uid
      /\ Stored(krLog)'[k].phase = "live" => Stored(krLog)[k].phase = "live"
  <2>1. /\ Stored(krLog)'[k].uid = Stored(krLog)[k].uid
        /\ Stored(krLog)[k].phase = "absent" => Stored(krLog)'[k].phase = "absent"
    BY RefinementStep, StoredKrakendStep DEF ControllerInv, AdmissionInv
  <2>2. Stored(krLog)[k].phase \in {"absent", "live"}
    BY <1>0 DEF Krakend
  <2>3. QED
    BY <2>1, <2>2
<1>2. ASSUME Stored(cmLog)' = Stored(cmLog)
      PROVE  Serving(k) /\ Stored(cmLog)'[k].data = Stored(cmLog)[k].data
  <2>1. Stored(cmLog)'[k] = Stored(cmLog)[k]
    BY <1>2
  <2>2. QED
    BY <1>1, <2>1 DEF Serving, KrakendExists
<1>3. CASE UNCHANGED cmLog
  BY <1>2, <1>3 DEF Stored
<1>4. CASE Len(cmLog) > 1 /\ cmLog' = Deliver(cmLog)
  <2>1. Stored(cmLog)' = Stored(cmLog)
    BY <1>0, <1>4 DEF Deliver, Stored
  <2>2. QED
    BY <1>2, <2>1
<1>5. CASE cmLog' = Relist(cmLog)
  <2>1. Stored(cmLog)' = Stored(cmLog)
    BY <1>0, <1>5 DEF Relist, Stored
  <2>2. QED
    BY <1>2, <2>1
<1>6. CASE UpdateConfigMap /\ cmLog' # cmLog
  <2> DEFINE obj == [cm EXCEPT !.rv = @ + 1]
  <2>1. pc = "updateConfigMap" /\ cmLog' = Put(cmLog, krak, obj)
    BY <1>6 DEF UpdateConfigMap
  <2>2. krak \in Krakends
    BY <2>1 DEF ControllerInv, TypeOK, PCs
  <2>3. obj.data = cm.data /\ obj \in ConfigMap
    <3>1. cm.rv + 1 \in Nat
      BY <1>0 DEF ConfigMap
    <3>2. QED
      BY <1>0, <3>1 DEF ConfigMap
  <2> HIDE DEF obj
  <2>4. Stored(cmLog)' = [Stored(cmLog) EXCEPT ![krak] = obj]
    <3>1. Stored(Put(cmLog, krak, obj)) = [Stored(cmLog) EXCEPT ![krak] = obj]
      BY <1>0, <2>2, <2>3, PutConfigMap
    <3>2. QED
      BY <2>1, <3>1 DEF Stored
  <2>5. CASE k = krak
    BY <1>0, <2>1, <2>2, <2>3, <2>4, <2>5
  <2>6. CASE k # krak
    BY <1>0, <1>1, <2>4, <2>6 DEF Serving, KrakendExists
  <2>7. QED
    BY <2>5, <2>6
<1>7. ASSUME NEW l \in Krakends, GcConfigMap(l)
      PROVE  Serving(k) /\ Stored(cmLog)'[k].data = Stored(cmLog)[k].data
  <2> DEFINE o == Stored(cmLog)[l]
             obj == [o EXCEPT !.phase = "absent", !.rv = @ + 1, !.data = {}]
  <2>1. cmLog' = Put(cmLog, l, obj)
    BY <1>7 DEF GcConfigMap
  <2>2. obj \in ConfigMap /\ obj.phase = "absent"
    <3>1. o \in ConfigMap /\ o.rv + 1 \in Nat
      BY <1>0, SMTT(30) DEF ConfigMap
    <3>2. QED
      BY <3>1 DEF ConfigMap
  <2> HIDE DEF obj
  <2>3. Stored(cmLog)' = [Stored(cmLog) EXCEPT ![l] = obj]
    <3>1. Stored(Put(cmLog, l, obj)) = [Stored(cmLog) EXCEPT ![l] = obj]
      BY <1>0, <2>2, PutConfigMap
    <3>2. QED
      BY <2>1, <3>1 DEF Stored
  <2>4. k # l
    BY <1>0, <2>2, <2>3 DEF Serving
  <2>5. QED
    BY <1>0, <1>1, <2>3, <2>4 DEF Serving, KrakendExists
<1>8. QED
  BY <1>3, <1>4, <1>5, <1>6, <1>7, ConfigMapCalls

(* The copy stays at most as new as the stored object.                     *)
LEMMA VersionStep ==
  ASSUME ControllerInv, [Next]_vars, pc # "idle",
         Stored(epsLog)'[req].rv = local.rv
  PROVE  Stored(epsLog)[req].rv = local.rv
<1>1. /\ req \in Names /\ local.rv \in Nat
      /\ Stored(epsLog) \in [Names -> ApiEndpoints] /\ Cached(epsLog) \in [Names -> ApiEndpoints]
      /\ Len(epsLog) \in Nat \ {0}
  BY SnapshotTypes DEF ControllerInv, TypeOK, ApiEndpoints
<1>2. Stored(epsLog)[req].rv \in Nat /\ Cached(epsLog)[req].rv \in Nat
  BY <1>1 DEF ApiEndpoints
<1>3. local.rv <= Cached(epsLog)[req].rv
  BY DEF ControllerInv, LocalOld
<1>4. Cached(epsLog)[req].rv <= Stored(epsLog)[req].rv
  BY <1>1 DEF ControllerInv, AdmissionInv, VersionsGrow, Stored, Cached
<1>5. Stored(epsLog)'[req].rv \in {Stored(epsLog)[req].rv, Stored(epsLog)[req].rv + 1}
  <2>1. [AdmissionNext]_admissionVars /\ AdmissionTypeOK
    BY RefinementStep DEF ControllerInv, AdmissionInv
  <2>2. QED
    BY <1>1, <2>1, StoredStep
<1>6. QED
  BY <1>1, <1>2, <1>3, <1>4, <1>5

(* Routes come from ApiEndpoints or from the chart.                        *)
LEMMA RouteSource == \A r \in Route : r.src = None \/ r.src \in Names
  BY DEF Route, ChartRoute, parseKrakendEndpointsSpec, parseEndpoint

LEMMA GuardedStep ==
  ASSUME ControllerInv, [Next]_vars, NEW routes \in SUBSET Route, Guarded(routes),
         pc = "removeFinalizer" /\ Stored(epsLog)[req].rv = local.rv =>
           \A r \in routes : r.src # req
  PROVE  Guarded(routes)'
<1>1. ASSUME NEW r \in routes, r.src # None
      PROVE  Present(r.src)'
  <2>1. r.src \in Names /\ Present(r.src)
    BY <1>1, RouteSource DEF Guarded, Present
  <2>2. QED
    BY <2>1, PresentStep
<1>2. QED
  BY <1>1 DEF Guarded, Present

-----------------------------------------------------------------------------
(* How Reconcile comes to the two calls the invariant is about.            *)
LEMMA WorkStep ==
  ASSUME [Next]_vars, pc' \in {"updateConfigMap", "removeFinalizer"}
  PROVE  \/ UNCHANGED workVars
         \/ pc' = "updateConfigMap" /\ ListEndpoints
         \/ pc' = "removeFinalizer" /\ (GetKrakend \/ UpdateConfigMap)
<1> DEFINE Goal == \/ UNCHANGED workVars
                   \/ pc' = "updateConfigMap" /\ ListEndpoints
                   \/ pc' = "removeFinalizer" /\ (GetKrakend \/ UpdateConfigMap)
<1>1. ASSUME NEW n \in Names, NEW outside \in BOOLEAN, Start(n, outside) PROVE Goal
  BY <1>1 DEF Start
<1>2. ASSUME Fail \/ Done \/ Return PROVE FALSE
  BY <1>2 DEF Fail, Done, Return
<1>3. ASSUME Reconcile PROVE Goal
  <2>1. ASSUME NEW app \in apps, EnsureNetpol(app) PROVE FALSE
    BY <1>2, <2>1 DEF EnsureNetpol
  <2>2. ASSUME \/ GetConfigMap \/ Refetch \/ AdmitFinalizer \/ AddFinalizer
               \/ UpdateStatus \/ RemoveFinalizer
        PROVE  FALSE
    BY <1>2, <2>2 DEF GetConfigMap, Refetch, AdmitFinalizer, AddFinalizer, UpdateStatus,
                      RemoveFinalizer
  <2>3. ASSUME GetKrakend PROVE pc' = "removeFinalizer"
    BY <1>2, <2>3 DEF GetKrakend
  <2>4. ASSUME ListEndpoints PROVE pc' = "updateConfigMap"
    BY <1>2, <2>4 DEF ListEndpoints
  <2>5. ASSUME UpdateConfigMap PROVE pc' = "removeFinalizer"
    BY <1>2, <2>5 DEF UpdateConfigMap, AfterConfigMap
  <2>6. QED
    BY <1>3, <2>1, <2>2, <2>3, <2>4, <2>5 DEF Reconcile
<1>4. ASSUME Environment PROVE Goal
  <2>1. ~Fault /\ ~Restart
    BY <1>2 DEF Fault, Restart
  <2>2. QED
    BY <1>4, <2>1 DEF Environment, Resync, ObserveEndpoints, ObserveKrakends, ObserveConfigMaps,
                      ObserveNetpols, GcConfigMap, GcNetpol
<1>5. ASSUME UNCHANGED vars PROVE Goal
  BY <1>5 DEF vars
<1>6. QED
  BY <1>1, <1>3, <1>4, <1>5 DEF Next

LEMMA PendingStep ==
  ASSUME ControllerInv, Released, Pending, [Next]_vars
  PROVE  Pending'
<1> SUFFICES ASSUME pc' = "updateConfigMap" PROVE Pending'
  BY DEF Pending
<1>0. ControllerInv /\ TypeOK /\ cm \in ConfigMap
  BY DEF ControllerInv, TypeOK
<1>1. CASE UNCHANGED workVars
  <2>1. pc = "updateConfigMap" /\ UNCHANGED <<req, local, cm>>
    BY <1>1 DEF workVars
  <2>2. cm.data \in SUBSET Route
    BY <1>0 DEF ConfigMap
  <2>3. Guarded(cm.data)
    BY <2>1 DEF Pending
  <2>4. Guarded(cm.data)'
    BY <1>0, <2>1, <2>2, <2>3, GuardedStep DEF Guarded
  <2>5. ASSUME local'.phase = "deleting", Stored(epsLog)'[req'].rv = local'.rv
        PROVE  \A r \in cm'.data : r.src # req'
    <3>1. Stored(epsLog)[req].rv = local.rv
      BY <1>0, <2>1, <2>5, VersionStep
    <3>2. QED
      BY <2>1, <2>5, <3>1 DEF Pending
  <2>6. QED
    BY <2>4, <2>5 DEF Pending
<1>2. CASE ListEndpoints
  <2> DEFINE routes == ToKrakendEndpoints(krakCopy.spec, LiveSpecs(Cached(epsLog)))
  <2>1. /\ pc = "list" /\ UNCHANGED <<epsLog, unguarded, req, local>>
        /\ cm' = [cm EXCEPT !.data = routes]
    BY <1>2 DEF ListEndpoints, Fail, Return, clusterVars, admissionVars, history
  <2>2. krakCopy.spec \in KSpecs
    BY <1>0, <2>1 DEF TypeOK, PCs, Krakend
  <2>3. Cached(epsLog) \in [Names -> ApiEndpoints] /\ Len(epsLog) \in Nat \ {0}
    BY <1>0, SnapshotTypes
  <2>4. \A r \in routes : r.src \in Names /\ Cached(epsLog)[r.src].phase = "live"
    BY <2>2, <2>3, RoutesFacts
  <2> HIDE DEF routes
  <2>5. cm'.data = routes
    BY <1>0, <2>1 DEF ConfigMap
  <2>6. Guarded(cm.data)'
    <3>1. ASSUME NEW r \in routes PROVE r.src \in unguarded \/ Stored(epsLog)[r.src].phase # "absent"
      BY <2>3, <2>4 DEF Released, Cached
    <3>2. Stored(epsLog)' = Stored(epsLog)
      BY <2>1 DEF Stored
    <3>3. QED
      BY <2>1, <2>5, <3>1, <3>2 DEF Guarded
  <2>7. ASSUME local'.phase = "deleting", Stored(epsLog)'[req'].rv = local'.rv
        PROVE  \A r \in cm'.data : r.src # req'
    <3>1. Stored(epsLog)[req].rv = local.rv
      BY <2>1, <2>7 DEF Stored
    <3>2. \A i \in 1..Len(epsLog) : epsLog[i][req] = local
      BY <1>0, <2>1, <3>1, UpToDateMeans
    <3>3. Cached(epsLog)[req].phase = "deleting"
      BY <2>1, <2>3, <2>7, <3>2 DEF Cached
    <3>4. QED
      BY <2>1, <2>4, <2>5, <3>3
  <2>8. QED
    BY <2>6, <2>7 DEF Pending
<1>3. QED
  BY <1>1, <1>2, WorkStep

(* This is where one Krakend per namespace is needed: the list is only     *)
(* published in the ConfigMap of the Krakend the spec names last.          *)
LEMMA ReleaseCleanStep ==
  ASSUME GhostInv, [Next]_vars, NEW K, Krakends = {K}
  PROVE  ReleaseClean'
<1> SUFFICES ASSUME pc' = "removeFinalizer", Stored(epsLog)'[req'].rv = local'.rv,
                    NEW k \in Krakends, Serving(k)'
             PROVE  \A r \in Stored(cmLog)'[k].data : r.src # req'
  BY DEF ReleaseClean
<1>0. ControllerInv /\ TypeOK /\ cm \in ConfigMap
  BY DEF GhostInv, ControllerInv, TypeOK
<1>1. CASE UNCHANGED workVars
  <2>1. pc = "removeFinalizer" /\ UNCHANGED <<req, local>>
    BY <1>1 DEF workVars
  <2>2. Stored(epsLog)[req].rv = local.rv
    BY <1>0, <2>1, VersionStep
  <2>3. Serving(k) /\ Stored(cmLog)'[k].data = Stored(cmLog)[k].data
    BY <1>0, <2>1, ServingStep
  <2>4. QED
    BY <2>1, <2>2, <2>3 DEF GhostInv, ReleaseClean
<1>2. CASE GetKrakend
  <2>1. /\ pc = "getKrakend" /\ UNCHANGED krLog
        /\ Cached(krLog)[krakendName(local.spec)].phase = "absent"
    BY <1>2 DEF GetKrakend, Fail, Return, clusterVars, admissionVars
  <2>2. local.spec \in ESpecs
    BY <1>0, <2>1 DEF TypeOK, ApiEndpoints
  <2>3. krakendName(local.spec) = k
    BY <2>2, ClusterAssumption
  <2>4. krLog[1][k].phase = "absent" => krLog[Len(krLog)][k].phase = "absent"
    <3>1. Len(krLog) \in Nat \ {0}
      BY <1>0 DEF TypeOK, AdmissionTypeOK
    <3>2. QED
      BY <3>1 DEF GhostInv, KrakendsLeave
  <2>5. Stored(krLog)'[k].phase = "absent"
    BY <2>1, <2>3, <2>4 DEF Stored, Cached
  <2>6. QED
    BY <2>5 DEF Serving, KrakendExists
<1>3. CASE UpdateConfigMap
  <2>1. /\ pc = "updateConfigMap" /\ UNCHANGED <<epsLog, req, local>>
        /\ local.phase = "deleting" /\ Stored(cmLog)'[krak].data = cm.data
        /\ krak \in Krakends /\ krak = k
    BY <1>0, <1>3, PublishFacts DEF AfterConfigMap
  <2>2. Stored(epsLog)[req].rv = local.rv
    BY <2>1 DEF Stored
  <2>3. \A r \in cm.data : r.src # req
    BY <2>1, <2>2 DEF GhostInv, Pending
  <2>4. QED
    BY <2>1, <2>3
<1>4. QED
  BY <1>1, <1>2, <1>3, WorkStep

LEMMA GhostFreeStep ==
  ASSUME GhostInv, [Next]_vars
  PROVE  GhostFree'
<1>0. ControllerInv /\ TypeOK /\ cm \in ConfigMap
  BY DEF GhostInv, ControllerInv, TypeOK
<1>1. ASSUME NEW k \in Krakends, Serving(k)' PROVE Guarded(Stored(cmLog)[k].data)'
  <2> DEFINE now == Stored(cmLog)[k].data
  <2>1. CASE Serving(k) /\ Stored(cmLog)'[k].data = now
    <3>1. now \in SUBSET Route
      BY <1>0, SnapshotTypes DEF ConfigMap
    <3>2. Guarded(now)
      BY <2>1 DEF GhostInv, GhostFree, Guarded
    <3>3. pc = "removeFinalizer" /\ Stored(epsLog)[req].rv = local.rv => \A r \in now : r.src # req
      BY <2>1 DEF GhostInv, ReleaseClean
    <3>4. QED
      BY <1>0, <2>1, <3>1, <3>2, <3>3, GuardedStep DEF Guarded
  <2>2. CASE pc = "updateConfigMap" /\ Stored(cmLog)'[k].data = cm.data
    <3>1. cm.data \in SUBSET Route
      BY <1>0 DEF ConfigMap
    <3>2. Guarded(cm.data)
      BY <2>2 DEF GhostInv, Pending
    <3>3. QED
      BY <1>0, <2>2, <3>1, <3>2, GuardedStep DEF Guarded
  <2>3. QED
    BY <1>0, <1>1, <2>1, <2>2, ServingStep
<1>2. QED
  BY <1>1 DEF GhostFree, Guarded

LEMMA GhostInit == Init => GhostInv
<1> SUFFICES ASSUME Init PROVE GhostInv
  OBVIOUS
<1>1. ControllerInv /\ KrakendsLeave
  BY ControllerInit, KrakendsLeaveInit DEF Init
<1>2. Released
  <2>1. epsLog = <<[n \in Names |-> GoneEndpoints(0, 0)]>>
    BY DEF Init, AdmissionInit
  <2>2. \A i \in 1..Len(epsLog) : \A n \in Names : epsLog[i][n].phase = "absent"
    BY <2>1 DEF GoneEndpoints
  <2>3. QED
    BY <2>2 DEF Released
<1>3. Pending /\ ReleaseClean
  BY DEF Init, Pending, ReleaseClean
<1>4. GhostFree
  <2>1. \A k \in Krakends : Stored(cmLog)[k].data \in {{}, {ChartRoute}}
    BY DEF Init, Stored, NoConfigMap
  <2>2. QED
    BY <2>1 DEF GhostFree, ChartRoute
<1>5. QED
  BY <1>1, <1>2, <1>3, <1>4 DEF GhostInv

LEMMA GhostStep ==
  ASSUME NEW K, Krakends = {K}, GhostInv, [Next]_vars
  PROVE  GhostInv'
<1>0. KrakendsLeave'
  BY RefinementStep, KrakendsLeaveStep DEF GhostInv, ControllerInv, AdmissionInv
<1>1. ControllerInv' /\ Released'
  BY ControllerInvStep, ReleasedStep DEF GhostInv
<1>2. Pending' /\ GhostFree'
  BY PendingStep, GhostFreeStep DEF GhostInv
<1>3. ReleaseClean'
  BY ReleaseCleanStep
<1>4. QED
  BY <1>0, <1>1, <1>2, <1>3 DEF GhostInv

(* For any number of ApiEndpoints, specs and applications, and through any *)
(* number of writes, conflicts, failed calls and restarts, a gateway never *)
(* serves the routes of an ApiEndpoints whose finalizer the controller has *)
(* removed (controller, lines 77-104), if the namespace has one Krakend.   *)
(* Without that assumption it fails: spec.krakend may change.              *)
THEOREM NoGhosts ==
  ASSUME NEW K, Krakends = {K}
  PROVE  Spec => []GhostFree
<1>1. GhostInv /\ [Next]_vars => GhostInv'
  BY GhostStep
<1>2. GhostInv => GhostFree
  BY DEF GhostInv
<1>3. QED
  BY <1>1, <1>2, GhostInit, PTL DEF Spec

-----------------------------------------------------------------------------
(* The refinement of Registry.  A step of the life of an ApiEndpoints      *)
(* leaves Krakends and partials alone: it is created, written to without a *)
(* change of phase, deleted, or released.                                  *)
Life(n, obj) ==
  LET e == Stored(epsLog)[n]
  IN  /\ Stored(epsLog)' = [Stored(epsLog) EXCEPT ![n] = obj]
      /\ UNCHANGED <<cmLog, krLog>>
      /\ \/ /\ e.phase = "absent" /\ obj.phase = "live" /\ ~obj.finalizer
            /\ unguarded' = unguarded \ {n}
         \/ /\ e.phase # "absent" /\ obj.phase = e.phase /\ (e.finalizer => obj.finalizer)
            /\ unguarded' \in {unguarded, unguarded \ {n}}
         \/ /\ e.phase = "live" /\ ~e.finalizer /\ obj.phase = "absent"
            /\ unguarded' = unguarded \cup {n}
         \/ /\ e.phase = "live" /\ e.finalizer /\ obj.phase = "deleting"
            /\ unguarded' = unguarded
         \/ /\ e.phase = "deleting" /\ obj.phase = "absent"
            /\ pc = "removeFinalizer" /\ n = req /\ e.rv = local.rv
            /\ unguarded' = unguarded

StoredSame == Stored(epsLog)' = Stored(epsLog) /\ unguarded' = unguarded

LEMMA LifeStep ==
  ASSUME ControllerInv, [Next]_vars
  PROVE  \/ StoredSame
         \/ \E n \in Names : \E obj \in ApiEndpoints : Life(n, obj)
<1> DEFINE Goal == \/ StoredSame
                   \/ \E n \in Names : \E obj \in ApiEndpoints : Life(n, obj)
<1>0. /\ epsLog \in Seq([Names -> ApiEndpoints]) /\ epsLog # <<>>
      /\ Stored(epsLog) \in [Names -> ApiEndpoints]
      /\ pc # "idle" => req \in Names /\ local \in ApiEndpoints
  BY SnapshotTypes DEF ControllerInv, TypeOK
<1>1. ASSUME Untouched PROVE Goal
  BY <1>0, <1>1, UntouchedFacts DEF Untouched, StoredSame
<1>2. ASSUME NEW w \in inflight, Commit(w), UNCHANGED <<cmLog, krLog>> PROVE Goal
  <2> DEFINE e == Stored(epsLog)[w.name]
             obj == IF e.phase = "absent" THEN NewEndpoints(e, w.spec)
                    ELSE [e EXCEPT !.spec = w.spec, !.rv = @ + 1]
  <2>1. w.name \in Names /\ w.spec \in ESpecs /\ e \in ApiEndpoints
    BY <1>0 DEF ControllerInv, TypeOK, AdmissionTypeOK, Request
  <2>2. CASE w.rv # e.rv
    BY <1>1, <1>2, <2>2 DEF Commit, history, Untouched
  <2>3. CASE w.rv = e.rv
    <3>1. epsLog' = Put(epsLog, w.name, obj) /\ unguarded' = unguarded \ {w.name}
      BY <1>2, <2>3 DEF Commit
    <3>2. obj \in ApiEndpoints
      BY <2>1, ObjectTypes
    <3>3. /\ e.phase = "absent" => obj.phase = "live" /\ ~obj.finalizer
          /\ e.phase # "absent" => obj.phase = e.phase /\ obj.finalizer = e.finalizer
      BY <2>1 DEF NewEndpoints, ApiEndpoints
    <3> HIDE DEF obj
    <3>4. Stored(epsLog)' = [Stored(epsLog) EXCEPT ![w.name] = obj]
      BY <1>0, <2>1, <3>1, WriteFacts
    <3>5. Life(w.name, obj)
      BY <1>2, <3>1, <3>3, <3>4 DEF Life
    <3>6. QED
      BY <2>1, <3>2, <3>5
  <2>4. QED
    BY <2>2, <2>3
<1>3. ASSUME NEW n \in Names, DeleteEndpoints(n), UNCHANGED <<cmLog, krLog>> PROVE Goal
  <2> DEFINE e == Stored(epsLog)[n]
             obj == DeletedEndpoints(e)
  <2>1. epsLog' = Put(epsLog, n, obj) /\ e \in ApiEndpoints /\ e.phase = "live"
    BY <1>0, <1>3 DEF DeleteEndpoints
  <2>2. e.spec \in ESpecs
    BY <2>1 DEF ApiEndpoints
  <2>3. obj \in ApiEndpoints
    BY <2>1, <2>2, ObjectTypes
  <2>4. /\ e.finalizer => obj.phase = "deleting" /\ unguarded' = unguarded
        /\ ~e.finalizer => obj.phase = "absent" /\ unguarded' = unguarded \cup {n}
    BY <1>3, <2>1 DEF DeleteEndpoints, DeletedEndpoints, GoneEndpoints, ApiEndpoints
  <2> HIDE DEF obj
  <2>5. Stored(epsLog)' = [Stored(epsLog) EXCEPT ![n] = obj]
    BY <1>0, <2>1, WriteFacts
  <2>6. Life(n, obj)
    BY <1>3, <2>1, <2>4, <2>5 DEF Life
  <2>7. QED
    BY <2>3, <2>6
<1>4. ASSUME NEW obj, epsLog' = Put(epsLog, req, obj), UpToDate(local), pc # "idle",
             obj \in ApiEndpoints, obj.phase = local.phase, local.finalizer => obj.finalizer,
             UNCHANGED <<cmLog, krLog, unguarded>>
      PROVE  Goal
  <2>1. req \in Names /\ local = Stored(epsLog)[req] /\ local.phase # "absent"
    BY <1>4, UpToDateMeans DEF UpToDate
  <2>2. Stored(epsLog)' = [Stored(epsLog) EXCEPT ![req] = obj]
    BY <1>0, <1>4, <2>1, WriteFacts
  <2>3. Life(req, obj)
    BY <1>4, <2>1, <2>2 DEF Life
  <2>4. QED
    BY <1>4, <2>1, <2>3
<1>5. ASSUME AddFinalizer PROVE Goal
  <2> DEFINE o == IF local.owner = None THEN <<krak, krakCopy.uid>> ELSE local.owner
             obj == [[local EXCEPT !.finalizer = TRUE,
                    !.owner = IF @ = None THEN <<krak, krakCopy.uid>> ELSE @] EXCEPT !.rv = @ + 1]
  <2>1. CASE UNCHANGED epsLog
    BY <1>1, <1>5, <2>1 DEF AddFinalizer, Untouched, history
  <2>2. CASE UpToDate(local) /\ epsLog' = Put(epsLog, req, obj)
    <3>1. /\ pc = "addFinalizer" /\ local \in ApiEndpoints /\ local.phase # "absent"
          /\ krak \in Krakends /\ krakCopy \in Krakend
          /\ UNCHANGED <<cmLog, krLog, unguarded>>
      BY <1>5 DEF AddFinalizer, ControllerInv, TypeOK, PCs, history
    <3>2. o \in (Krakends \X Nat) \cup {None}
      BY <3>1 DEF ApiEndpoints, Krakend
    <3>3. obj = [local EXCEPT !.finalizer = TRUE, !.owner = o, !.hash = local.hash, !.rv = @ + 1]
      BY <3>1 DEF ApiEndpoints
    <3>4. local.hash \in {hashEndpoints(s) : s \in ESpecs} \cup {None}
      BY <3>1 DEF ApiEndpoints
    <3>5. obj \in ApiEndpoints
      <4> HIDE DEF o, obj
      <4> QED BY <3>1, <3>2, <3>3, <3>4, WriteType
    <3>6. obj.phase = local.phase /\ obj.finalizer
      BY <3>1 DEF ApiEndpoints
    <3> HIDE DEF obj
    <3>7. QED
      BY <1>4, <2>2, <3>1, <3>5, <3>6
  <2>3. QED
    BY <1>5, <2>1, <2>2 DEF AddFinalizer, Write
<1>6. ASSUME UpdateStatus PROVE Goal
  <2> DEFINE obj == [[local EXCEPT !.hash = hash] EXCEPT !.rv = @ + 1]
  <2>1. CASE UNCHANGED epsLog
    BY <1>1, <1>6, <2>1 DEF UpdateStatus, Untouched, history
  <2>2. CASE UpToDate(local) /\ epsLog' = Put(epsLog, req, obj)
    <3>1. /\ pc = "updateStatus" /\ local \in ApiEndpoints /\ local.phase # "absent"
          /\ hash \in {hashEndpoints(s) : s \in ESpecs} \cup {None}
          /\ UNCHANGED <<cmLog, krLog, unguarded>>
      BY <1>6 DEF UpdateStatus, ControllerInv, TypeOK, history
    <3>2. obj = [local EXCEPT !.finalizer = local.finalizer, !.owner = local.owner, !.hash = hash,
                              !.rv = @ + 1]
      BY <3>1 DEF ApiEndpoints
    <3>3. local.finalizer \in BOOLEAN /\ local.owner \in (Krakends \X Nat) \cup {None}
      BY <3>1 DEF ApiEndpoints
    <3>4. obj \in ApiEndpoints
      <4> HIDE DEF obj
      <4> QED BY <3>1, <3>2, <3>3, WriteType
    <3>5. obj.phase = local.phase /\ obj.finalizer = local.finalizer
      BY <3>1 DEF ApiEndpoints
    <3> HIDE DEF obj
    <3>6. QED
      BY <1>4, <2>2, <3>1, <3>4, <3>5
  <2>3. QED
    BY <1>6, <2>1, <2>2 DEF UpdateStatus, Write
<1>7. ASSUME RemoveFinalizer PROVE Goal
  <2> DEFINE obj == GoneEndpoints(local.rv + 1, local.uid)
  <2>1. CASE UNCHANGED epsLog
    BY <1>1, <1>7, <2>1 DEF RemoveFinalizer, Untouched, history
  <2>2. CASE UpToDate(local) /\ epsLog' = Put(epsLog, req, obj)
    <3>1. pc = "removeFinalizer" /\ UNCHANGED <<cmLog, krLog, unguarded>>
      BY <1>7 DEF RemoveFinalizer, history
    <3>2. /\ req \in Names /\ local = Stored(epsLog)[req] /\ local.phase = "deleting"
          /\ local \in ApiEndpoints /\ local.spec \in ESpecs
      BY <1>0, <2>2, <3>1, UpToDateMeans DEF UpToDate, ControllerInv, PathOK, ApiEndpoints
    <3>3. obj \in ApiEndpoints /\ obj.phase = "absent"
      BY <3>2, ObjectTypes DEF GoneEndpoints
    <3> HIDE DEF obj
    <3>4. Stored(epsLog)' = [Stored(epsLog) EXCEPT ![req] = obj]
      BY <1>0, <2>2, <3>2, WriteFacts
    <3>5. Life(req, obj)
      BY <2>2, <3>1, <3>2, <3>3, <3>4 DEF Life, UpToDate
    <3>6. QED
      BY <3>2, <3>3, <3>5
  <2>3. QED
    BY <1>7, <2>1, <2>2 DEF RemoveFinalizer
<1>8. \/ Untouched
      \/ \E w \in inflight : Commit(w) /\ UNCHANGED <<cmLog, krLog>>
      \/ \E n \in Names : DeleteEndpoints(n) /\ UNCHANGED <<cmLog, krLog>>
      \/ AddFinalizer \/ UpdateStatus \/ RemoveFinalizer
  <2>0. ASSUME UNCHANGED <<epsLog, unguarded>> PROVE Untouched
    BY <2>0 DEF Untouched
  <2>1. ASSUME NEW n \in Names, NEW outside \in BOOLEAN, Start(n, outside)
        PROVE  UNCHANGED <<epsLog, unguarded>>
    BY <2>1 DEF Start, history
  <2>2. ASSUME GetKrakend \/ GetConfigMap \/ ListEndpoints \/ Refetch \/ AdmitFinalizer
        PROVE  UNCHANGED <<epsLog, unguarded>>
    BY <2>2 DEF GetKrakend, GetConfigMap, ListEndpoints, Refetch, AdmitFinalizer, clusterVars,
                admissionVars, history
  <2>3. ASSUME UpdateConfigMap \/ \E app \in apps : EnsureNetpol(app)
        PROVE  UNCHANGED <<epsLog, unguarded>>
    BY <2>3 DEF UpdateConfigMap, EnsureNetpol, admissionVars, history
  <2>4. ASSUME UserStep, UNCHANGED cmLog
        PROVE  \/ UNCHANGED <<epsLog, unguarded>>
               \/ \E w \in inflight : Commit(w) /\ UNCHANGED <<cmLog, krLog>>
               \/ \E n \in Names : DeleteEndpoints(n) /\ UNCHANGED <<cmLog, krLog>>
    <3>1. \/ UNCHANGED <<epsLog, unguarded>>
          \/ \E w \in inflight : Commit(w)
          \/ \E n \in Names : DeleteEndpoints(n)
      BY <2>4 DEF UserStep, UserApply, UserDelete, GcEndpoints, KrakendApply, KrakendDelete, history
    <3>2. \A w \in inflight : Commit(w) => UNCHANGED krLog
      BY DEF Commit
    <3>3. \A n \in Names : DeleteEndpoints(n) => UNCHANGED krLog
      BY DEF DeleteEndpoints
    <3>4. QED
      BY <2>4, <3>1, <3>2, <3>3
  <2>5. ASSUME \/ Fault \/ Resync \/ ObserveKrakends \/ ObserveConfigMaps \/ ObserveNetpols
               \/ \E k \in Krakends : GcConfigMap(k)
               \/ \E key \in NetpolKeys : GcNetpol(key)
               \/ UNCHANGED vars
        PROVE  UNCHANGED <<epsLog, unguarded>>
    BY <2>5 DEF Fault, Resync, ObserveKrakends, DeliverKrakends, ObserveConfigMaps, ObserveNetpols,
                GcConfigMap, GcNetpol, vars, admissionVars, history
  <2>6. ASSUME ObserveEndpoints \/ Restart PROVE Untouched
    BY <2>6 DEF ObserveEndpoints, DeliverEndpoints, Restart, RelistCaches, Untouched, history
  <2>7. QED
    BY <2>0, <2>1, <2>2, <2>3, <2>4, <2>5, <2>6 DEF Next, Reconcile, Environment
<1>9. QED
  <2> HIDE DEF Goal
  <2>1. Goal
    BY <1>1, <1>2, <1>3, <1>5, <1>6, <1>7, <1>8
  <2>2. QED
    BY <2>1 DEF Goal

(* A name the operator let go of without a finalizer is absent.            *)
OrphansGone == \A n \in unguarded : Stored(epsLog)[n].phase = "absent"

RegistryInv == GhostInv /\ OrphansGone

LEMMA OrphansGoneStep ==
  ASSUME ControllerInv, OrphansGone, [Next]_vars
  PROVE  OrphansGone'
<1>0. Stored(epsLog) \in [Names -> ApiEndpoints] /\ unguarded \subseteq Names
  BY SnapshotTypes DEF ControllerInv, TypeOK, AdmissionTypeOK
<1>1. CASE StoredSame
  BY <1>1 DEF StoredSame, OrphansGone
<1>2. ASSUME NEW n \in Names, NEW obj \in ApiEndpoints, Life(n, obj) PROVE OrphansGone'
  <2>1. Stored(epsLog)' = [Stored(epsLog) EXCEPT ![n] = obj]
    BY <1>2 DEF Life
  <2>2. obj.phase # "absent" => n \notin unguarded'
    BY <1>2 DEF Life, OrphansGone
  <2>3. unguarded' \subseteq unguarded \cup {n}
    BY <1>2 DEF Life
  <2>4. QED
    BY <1>0, <2>1, <2>2, <2>3 DEF OrphansGone
<1>3. QED
  BY <1>1, <1>2, LifeStep

(* The mapping of ApiEndpointsController's R.                              *)
StateOf(e) == CASE e.phase = "absent" -> "absent"
                [] e.phase = "deleting" -> "leaving"
                [] e.phase = "live" -> IF e.finalizer THEN "held" ELSE "loose"

States == [n \in Names |-> StateOf(Stored(epsLog)[n])]

Served == {r.src : r \in UNION {Stored(cmLog)[k].data : k \in {x \in Krakends : Serving(x)}}}
            \ {None}

(* Replacing one object replaces its state.                                *)
LEMMA StatesStep ==
  ASSUME Stored(epsLog) \in [Names -> ApiEndpoints], NEW n \in Names, NEW obj,
         Stored(epsLog)' = [Stored(epsLog) EXCEPT ![n] = obj]
  PROVE  States' = [States EXCEPT ![n] = StateOf(obj)]
<1>1. \A m \in Names : StateOf(Stored(epsLog)'[m]) =
                         IF m = n THEN StateOf(obj) ELSE StateOf(Stored(epsLog)[m])
  OBVIOUS
<1>2. States' = [m \in Names |-> StateOf(Stored(epsLog)'[m])]
  BY DEF States, StateOf
<1> HIDE DEF StateOf
<1>3. QED
  BY <1>1, <1>2 DEF States

(* What is served exists or is an orphan: this is GhostFree.               *)
ServedKnown == Served \subseteq unguarded \cup {n \in Names : States[n] # "absent"}

LEMMA ServedExist == TypeOK /\ GhostFree => ServedKnown
<1> SUFFICES ASSUME TypeOK, GhostFree PROVE ServedKnown
  OBVIOUS
<1>1. ASSUME NEW k \in Krakends, Serving(k), NEW r \in Stored(cmLog)[k].data, r.src # None
      PROVE  r.src \in unguarded \cup {n \in Names : States[n] # "absent"}
  <2>1. r.src \in Names
    <3>1. r \in Route
      BY <1>1, SnapshotTypes DEF ConfigMap
    <3>2. QED
      BY <1>1, <3>1, RouteSource
  <2>2. r.src \in unguarded \/ Stored(epsLog)[r.src].phase # "absent"
    BY <1>1 DEF GhostFree
  <2>3. Stored(epsLog)[r.src].phase \in {"absent", "live", "deleting"}
    BY <2>1, SnapshotTypes DEF ApiEndpoints, Phase
  <2>4. QED
    BY <2>1, <2>2, <2>3 DEF States, StateOf
<1>2. QED
  BY <1>1 DEF Served, ServedKnown

LEMMA RegistryStep ==
  ASSUME RegistryInv, [Next]_vars, GhostFree', TypeOK'
  PROVE  [R!RegistryNext]_(R!registryVars)
<1>0. /\ ControllerInv /\ TypeOK /\ Stored(epsLog) \in [Names -> ApiEndpoints]
      /\ \A n \in Names : Stored(epsLog)[n].phase \in {"absent", "live", "deleting"}
  BY SnapshotTypes DEF RegistryInv, GhostInv, ControllerInv, ApiEndpoints, Phase
<1>1. CASE StoredSame
  <2>1. Stored(epsLog)' = Stored(epsLog) /\ unguarded' = unguarded
    BY <1>1 DEF StoredSame
  <2>2. States' = States
    BY <2>1 DEF States, StateOf
  <2>3. Served' \subseteq unguarded' \cup {n \in Names : States'[n] # "absent"}
    <3>1. ServedKnown'
      BY ServedExist, PTL
    <3>2. QED
      BY <3>1 DEF ServedKnown
  <2>4. R!Serve
    BY <2>1, <2>2, <2>3 DEF R!Serve, States, StateOf, Served
  <2>5. QED
    BY <2>4 DEF R!RegistryNext
<1>2. ASSUME NEW n \in Names, NEW obj \in ApiEndpoints, Life(n, obj)
      PROVE  [R!RegistryNext]_(R!registryVars)
  <2> DEFINE e == Stored(epsLog)[n]
  <2>1. Stored(epsLog)' = [Stored(epsLog) EXCEPT ![n] = obj]
    BY <1>2 DEF Life
  <2>2. States' = [States EXCEPT ![n] = StateOf(obj)] /\ States[n] = StateOf(e)
    BY <1>0, <2>1, StatesStep DEF States
  <2>3. Served' = Served
    <3>1. cmLog' = cmLog /\ krLog' = krLog
      BY <1>2 DEF Life
    <3>2. QED
      BY <3>1 DEF Served, Serving, KrakendExists, Stored
  <2>4. CASE /\ e.phase = "absent" /\ obj.phase = "live" /\ ~obj.finalizer
             /\ unguarded' = unguarded \ {n}
    <3>1. StateOf(e) = "absent" /\ StateOf(obj) = "loose"
      BY <2>4 DEF StateOf
    <3>2. R!Create(n)
      BY <2>2, <2>3, <2>4, <3>1 DEF R!Create, States, StateOf, Served
    <3>3. QED
      BY <3>2 DEF R!RegistryNext
  <2>5. CASE /\ e.phase # "absent" /\ obj.phase = e.phase /\ (e.finalizer => obj.finalizer)
             /\ unguarded' \in {unguarded, unguarded \ {n}}
    <3>1. unguarded' = unguarded
      BY <2>5 DEF RegistryInv, OrphansGone
    <3>2. \/ StateOf(obj) = StateOf(e)
          \/ StateOf(e) = "loose" /\ StateOf(obj) = "held"
      BY <1>0, <2>5 DEF StateOf
    <3>3. CASE StateOf(obj) = StateOf(e)
      <4>1. States' = States
        BY <2>2, <3>3 DEF States
      <4>2. QED
        BY <2>3, <3>1, <4>1 DEF R!registryVars, States, StateOf, Served
    <3>4. CASE StateOf(e) = "loose" /\ StateOf(obj) = "held"
      <4>1. R!Hold(n)
        BY <2>2, <2>3, <3>1, <3>4 DEF R!Hold, States, StateOf, Served
      <4>2. QED
        BY <4>1 DEF R!RegistryNext
    <3>5. QED
      BY <3>2, <3>3, <3>4
  <2>6. CASE /\ e.phase = "live" /\ ~e.finalizer /\ obj.phase = "absent"
             /\ unguarded' = unguarded \cup {n}
    <3>1. StateOf(e) = "loose" /\ StateOf(obj) = "absent"
      BY <2>6 DEF StateOf
    <3>2. R!Delete(n)
      BY <2>2, <2>3, <2>6, <3>1 DEF R!Delete, States, StateOf, Served
    <3>3. QED
      BY <3>2 DEF R!RegistryNext
  <2>7. CASE /\ e.phase = "live" /\ e.finalizer /\ obj.phase = "deleting"
             /\ unguarded' = unguarded
    <3>1. StateOf(e) = "held" /\ StateOf(obj) = "leaving"
      BY <2>7 DEF StateOf
    <3>2. R!Delete(n)
      BY <2>2, <2>3, <2>7, <3>1 DEF R!Delete, States, StateOf, Served
    <3>3. QED
      BY <3>2 DEF R!RegistryNext
  <2>8. CASE /\ e.phase = "deleting" /\ obj.phase = "absent"
             /\ pc = "removeFinalizer" /\ n = req /\ e.rv = local.rv
             /\ unguarded' = unguarded
    <3>1. StateOf(e) = "leaving" /\ StateOf(obj) = "absent"
      BY <2>8 DEF StateOf
    <3>2. n \notin Served
      BY <2>8 DEF RegistryInv, GhostInv, ReleaseClean, Served
    <3>3. R!Release(n)
      BY <2>2, <2>3, <2>8, <3>1, <3>2 DEF R!Release, States, StateOf, Served
    <3>4. QED
      BY <3>3 DEF R!RegistryNext
  <2>9. QED
    BY <1>2, <2>4, <2>5, <2>6, <2>7, <2>8 DEF Life
<1>3. QED
  BY <1>0, <1>1, <1>2, LifeStep

LEMMA RegistryInitMaps == Init => RegistryInv /\ R!RegistryInit
<1> SUFFICES ASSUME Init PROVE RegistryInv /\ R!RegistryInit
  OBVIOUS
<1>1. RegistryInv
  BY GhostInit DEF Init, AdmissionInit, RegistryInv, OrphansGone
<1>2. \A n \in Names : Stored(epsLog)[n].phase = "absent"
  BY DEF Init, AdmissionInit, Stored, GoneEndpoints
<1>3. States = [n \in Names |-> "absent"]
  BY <1>2 DEF States, StateOf
<1>4. \A k \in Krakends : Stored(cmLog)[k].data \in {{}, {ChartRoute}}
  BY DEF Init, Stored, NoConfigMap
<1>5. Served = {}
  BY <1>4 DEF Served, ChartRoute
<1>6. unguarded = {}
  BY DEF Init, AdmissionInit
<1>7. QED
  BY <1>1, <1>3, <1>5, <1>6 DEF R!RegistryInit, States, StateOf, Served

(* Every behaviour of the controller, its caches, its users and its        *)
(* failures is one of the few steps Registry allows: an ApiEndpoints the   *)
(* operator holds is released only when the gateway does not serve it, and *)
(* what the gateway serves exists (controller, lines 77-104 and 141-166),  *)
(* for any names, specs and bounds, if the namespace has one Krakend.      *)
THEOREM RefinesRegistry ==
  ASSUME NEW K, Krakends = {K}
  PROVE  Spec => ImplementsRegistry
<1>1. RegistryInv /\ [Next]_vars => RegistryInv' /\ [R!RegistryNext]_(R!registryVars)
  <2>1. SUFFICES ASSUME RegistryInv, [Next]_vars
                 PROVE  RegistryInv' /\ [R!RegistryNext]_(R!registryVars)
    OBVIOUS
  <2>2. GhostInv'
    BY <2>1, GhostStep DEF RegistryInv
  <2>3. OrphansGone'
    BY <2>1, OrphansGoneStep DEF RegistryInv, GhostInv
  <2>4. QED
    BY <2>1, <2>2, <2>3, RegistryStep DEF RegistryInv, GhostInv, ControllerInv
<1>2. QED
  BY <1>1, RegistryInitMaps, PTL DEF Spec, ImplementsRegistry, R!RegistrySpec

-----------------------------------------------------------------------------
(* Routes that converge, and their authentication.                         *)

(* The routes of n, as far as its own spec determines them, and what an    *)
(* object asks for.                                                        *)
Part(routes, n) == {OwnPart(r) : r \in {x \in routes : x.src = n}}

Ask(e) ==
  IF e.phase # "live" THEN {}
  ELSE Asks(e.spec, e.spec.endpoints, FALSE) \cup Asks(e.spec, e.spec.openEndpoints, TRUE)

(* Every snapshot, and every hash, is of a spec its name has carried.      *)
CarriedSpecs ==
  \A i \in 1..Len(epsLog) : \A n \in Names :
    epsLog[i][n].phase # "absent" => epsLog[i][n].spec \in carried[n]

HashesCarried ==
  \A n \in Names : \A s \in ESpecs :
    /\ Stored(epsLog)[n].hash = hashEndpoints(s) => s \in carried[n]
    /\ pc # "idle" /\ req = n /\ hash = hashEndpoints(s) => s \in carried[n]

(* Unless a spec is given back, it is carried without a break.             *)
NoReturn ==
  \A n \in Names \ reverted : \A i, m, j \in 1..Len(epsLog) :
    /\ i <= m /\ m <= j
    /\ epsLog[i][n].phase = "live" /\ epsLog[j][n].phase = "live"
    /\ epsLog[i][n].spec = epsLog[j][n].spec
    => epsLog[m][n].phase = "live" /\ epsLog[m][n].spec = epsLog[j][n].spec

(* The controller has worked on the spec n has now: its hash is stored, or *)
(* Reconcile holds it.  The cache then shows that spec, and nothing else   *)
(* is on its way.                                                          *)
Synced(n) == Stored(epsLog)[n].phase = "live"
             /\ Stored(epsLog)[n].hash = hashEndpoints(Stored(epsLog)[n].spec)

Working(n) == /\ pc # "idle" /\ req = n /\ Stored(epsLog)[n].phase = "live"
              /\ hash = hashEndpoints(Stored(epsLog)[n].spec)

Fresh(n) == \A i \in 1..Len(epsLog) : epsLog[i][n].phase = "live"
                                      /\ epsLog[i][n].spec = Stored(epsLog)[n].spec

KnownFresh == \A n \in Names \ reverted : Synced(n) \/ Working(n) => Fresh(n)

(* So the list about to be published is right for n, and what has been     *)
(* published is.                                                           *)
ListKnown ==
  pc = "updateConfigMap" => \A n \in Names \ reverted :
    Synced(n) \/ Working(n) => Part(cm.data, n) = Ask(Stored(epsLog)[n])

PrePublish == {"getKrakend", "getConfigMap", "list", "updateConfigMap"}

KnownPublished ==
  \A n \in Names \ reverted : Synced(n) \/ (Working(n) /\ pc \notin PrePublish) =>
    \A k \in Krakends : Serving(k) => Part(Stored(cmLog)[k].data, n) = Ask(Stored(epsLog)[n])

(* Nothing about n is on its way to the controller.                        *)
Still(n) == n \notin queue /\ \A i \in 1..Len(epsLog) : epsLog[i][n] = Stored(epsLog)[n]

(* Such an n is listed as it is stored, and unless Reconcile is about to   *)
(* publish it, it has been published.                                      *)
ListCurrent ==
  pc = "updateConfigMap" => \A n \in Names :
    Still(n) => Part(cm.data, n) = Ask(Stored(epsLog)[n])

NothingMissed ==
  \A n \in Names \ (unguarded \cup reverted) :
    Still(n) /\ ~(pc \in PrePublish /\ req = n) =>
      \A k \in Krakends : Serving(k) => Part(Stored(cmLog)[k].data, n) = Ask(Stored(epsLog)[n])

(* A route without validator is one an earlier or the present spec lists   *)
(* as open.                                                                *)
OpenAsked(routes) ==
  \A r \in routes : r.src # None /\ r.auth = None =>
    \E s \in carried[r.src] : OwnPart(r) \in Asks(s, s.openEndpoints, TRUE)

ListAsked == pc = "updateConfigMap" => OpenAsked(cm.data)

HistoryInv == ControllerInv /\ CarriedSpecs /\ HashesCarried /\ NoReturn /\ KnownFresh

RouteInv == /\ RegistryInv /\ HistoryInv
            /\ ListKnown /\ KnownPublished /\ ListCurrent /\ NothingMissed

-----------------------------------------------------------------------------
(* A conversion that succeeds renders for every live object what it asks   *)
(* for, and nothing for the others.                                        *)
LEMMA SpecPart ==
  ASSUME NEW ks, NEW n, NEW s, findAuthProvider(ks, s.auth) # None
  PROVE  {OwnPart(r) : r \in parseKrakendEndpointsSpec(ks, n, s)}
           = Asks(s, s.endpoints, FALSE) \cup Asks(s, s.openEndpoints, TRUE)
<1> DEFINE auth == findAuthProvider(ks, s.auth)
           closed == {parseEndpoint(n, s.endpoints[i], auth, s.rateLimit) : i \in DOMAIN s.endpoints}
           open == {parseEndpoint(n, s.openEndpoints[i], None, s.rateLimit) :
                      i \in DOMAIN s.openEndpoints}
<1>1. \A e : OwnPart(parseEndpoint(n, e, auth, s.rateLimit)) =
               [endpoint |-> e.path, host |-> e.backendHost, qos |-> s.rateLimit, open |-> FALSE]
  BY DEF OwnPart, parseEndpoint
<1>2. \A e : OwnPart(parseEndpoint(n, e, None, s.rateLimit)) =
               [endpoint |-> e.path, host |-> e.backendHost, qos |-> s.rateLimit, open |-> TRUE]
  BY DEF OwnPart, parseEndpoint
<1>3. parseKrakendEndpointsSpec(ks, n, s) = closed \cup open
  BY DEF parseKrakendEndpointsSpec
<1>4. {OwnPart(r) : r \in closed} = Asks(s, s.endpoints, FALSE)
  <2> HIDE DEF auth
  <2> QED BY <1>1 DEF Asks
<1>5. {OwnPart(r) : r \in open} = Asks(s, s.openEndpoints, TRUE)
  BY <1>2 DEF Asks
<1>6. QED
  <2> HIDE DEF closed, open
  <2> QED BY <1>3, <1>4, <1>5

LEMMA ItemsPart ==
  ASSUME NEW ks, NEW items, Convertible(ks, items), NEW n
  PROVE  Part(ToKrakendEndpoints(ks, items), n) =
           IF n \in DOMAIN items
           THEN Asks(items[n], items[n].endpoints, FALSE)
                  \cup Asks(items[n], items[n].openEndpoints, TRUE)
           ELSE {}
<1> DEFINE routes == ToKrakendEndpoints(ks, items)
<1>1. \A m \in DOMAIN items : \A r \in parseKrakendEndpointsSpec(ks, m, items[m]) : r.src = m
  BY DEF parseKrakendEndpointsSpec, parseEndpoint
<1>2. \A r : r \in routes <=> \E m \in DOMAIN items : r \in parseKrakendEndpointsSpec(ks, m, items[m])
  BY DEF ToKrakendEndpoints
<1> HIDE DEF routes
<1>3. CASE n \in DOMAIN items
  <2>1. {x \in routes : x.src = n} = parseKrakendEndpointsSpec(ks, n, items[n])
    BY <1>1, <1>2, <1>3
  <2>2. findAuthProvider(ks, items[n].auth) # None
    BY <1>3 DEF Convertible
  <2>3. QED
    BY <1>3, <2>1, <2>2, SpecPart DEF Part, routes
<1>4. CASE n \notin DOMAIN items
  <2>1. {x \in routes : x.src = n} = {}
    BY <1>1, <1>2, <1>4
  <2>2. QED
    BY <1>4, <2>1 DEF Part, routes
<1>5. QED
  BY <1>3, <1>4

LEMMA ListPart ==
  ASSUME NEW ks \in KSpecs, NEW snap \in [Names -> ApiEndpoints],
         Convertible(ks, LiveSpecs(snap)), NEW n \in Names
  PROVE  Part(ToKrakendEndpoints(ks, LiveSpecs(snap)), n) = Ask(snap[n])
<1> DEFINE items == LiveSpecs(snap)
<1>1. /\ n \in DOMAIN items <=> snap[n].phase = "live"
      /\ n \in DOMAIN items => items[n] = snap[n].spec
  BY DEF LiveSpecs
<1>2. QED
  <2> HIDE DEF items
  <2> QED BY <1>1, ItemsPart DEF Ask, items

(* What Converged says in these terms.                                     *)
LEMMA PartMeans ==
  ASSUME NEW n \in Names, NEW k \in Krakends
  PROVE  Published(n, k) = Part(Stored(cmLog)[k].data, n) /\ Wanted(n) = Ask(Stored(epsLog)[n])
  BY DEF Published, Part, Wanted, Ask

-----------------------------------------------------------------------------
(* What a step does to the stored ApiEndpoints: nothing, or a user's write *)
(* is committed, or metadata, status or the object itself changes.         *)
Quiet == /\ UNCHANGED epsLog \/ ObserveEndpoints \/ Restart
         /\ UNCHANGED <<carried, reverted>>

Committed(n, obj) ==
  /\ epsLog' = Put(epsLog, n, obj) /\ UNCHANGED <<cmLog, krLog, queue, pc, req, hash, cm>>
  /\ obj.phase # "absent" /\ obj.rv = Stored(epsLog)[n].rv + 1 /\ obj.spec \in ESpecs
  /\ obj.hash \in {None, Stored(epsLog)[n].hash}
  /\ carried' = [carried EXCEPT ![n] = @ \cup {obj.spec}]
  /\ reverted' = IF obj.spec \in carried[n] THEN reverted \cup {n} ELSE reverted

Rewritten(n, obj) ==
  LET e == Stored(epsLog)[n]
  IN  /\ epsLog' = Put(epsLog, n, obj) /\ UNCHANGED <<cmLog, krLog, carried, reverted>>
      /\ obj.rv = e.rv + 1
      /\ obj.phase # "absent" => e.phase # "absent" /\ obj.spec = e.spec
      /\ obj.phase = "live" => e.phase = "live"
      /\ \/ obj.hash \in {None, e.hash}
         \/ pc = "updateStatus" /\ n = req /\ obj.hash = hash

LEMMA StoreStep ==
  ASSUME ControllerInv, [Next]_vars
  PROVE  \/ Quiet
         \/ \E n \in Names : \E obj \in ApiEndpoints : Committed(n, obj) \/ Rewritten(n, obj)
<1> DEFINE Goal == \/ Quiet
                   \/ \E n \in Names : \E obj \in ApiEndpoints : Committed(n, obj) \/ Rewritten(n, obj)
<1>0. /\ TypeOK /\ Stored(epsLog) \in [Names -> ApiEndpoints]
      /\ pc # "idle" => req \in Names /\ local \in ApiEndpoints
  BY PolicyTypes
<1>1. ASSUME UNCHANGED <<epsLog, carried, reverted>> PROVE Goal
  BY <1>1 DEF Quiet
<1>2. ASSUME NEW w \in inflight, Commit(w), UNCHANGED <<cmLog, queue, workVars>> PROVE Goal
  <2> DEFINE e == Stored(epsLog)[w.name]
             obj == IF e.phase = "absent" THEN NewEndpoints(e, w.spec)
                    ELSE [e EXCEPT !.spec = w.spec, !.rv = @ + 1]
  <2>1. w.name \in Names /\ w.spec \in ESpecs /\ e \in ApiEndpoints
    BY <1>0 DEF TypeOK, AdmissionTypeOK, Request
  <2>2. CASE w.rv # e.rv
    BY <1>1, <1>2, <2>2 DEF Commit, history
  <2>3. CASE w.rv = e.rv
    <3>1. /\ epsLog' = Put(epsLog, w.name, obj) /\ UNCHANGED krLog
          /\ carried' = [carried EXCEPT ![w.name] = @ \cup {w.spec}]
          /\ reverted' = IF w.spec \in carried[w.name] THEN reverted \cup {w.name} ELSE reverted
      BY <1>2, <2>3 DEF Commit
    <3>2. obj \in ApiEndpoints
      BY <2>1, ObjectTypes
    <3>3. /\ obj.phase # "absent" /\ obj.rv = e.rv + 1 /\ obj.spec = w.spec
          /\ obj.hash \in {None, e.hash}
      BY <2>1 DEF NewEndpoints, ApiEndpoints
    <3> HIDE DEF obj
    <3>4. Committed(w.name, obj)
      BY <1>2, <2>1, <3>1, <3>3 DEF Committed, workVars
    <3>5. QED
      BY <2>1, <3>2, <3>4
  <2>4. QED
    BY <2>2, <2>3
<1>3. ASSUME NEW n \in Names, DeleteEndpoints(n), UNCHANGED cmLog PROVE Goal
  <2> DEFINE e == Stored(epsLog)[n]
             obj == DeletedEndpoints(e)
  <2>1. /\ epsLog' = Put(epsLog, n, obj) /\ e \in ApiEndpoints /\ e.phase = "live"
        /\ UNCHANGED <<krLog, carried, reverted>>
    BY <1>0, <1>3 DEF DeleteEndpoints
  <2>2. e.spec \in ESpecs
    BY <2>1 DEF ApiEndpoints
  <2>3. obj \in ApiEndpoints
    BY <2>1, <2>2, ObjectTypes
  <2>4. /\ obj.rv = e.rv + 1 /\ obj.phase # "live" /\ obj.hash \in {None, e.hash}
        /\ obj.phase # "absent" => obj.spec = e.spec
    BY <2>1 DEF DeletedEndpoints, GoneEndpoints, ApiEndpoints
  <2> HIDE DEF obj
  <2>5. Rewritten(n, obj)
    BY <1>3, <2>1, <2>4 DEF Rewritten
  <2>6. QED
    BY <2>3, <2>5
<1>4. ASSUME NEW obj \in ApiEndpoints, epsLog' = Put(epsLog, req, obj), UpToDate(local), pc # "idle",
             UNCHANGED <<krLog, cmLog, carried, reverted>>, obj.rv = local.rv + 1,
             obj.phase # "absent" => obj.spec = local.spec,
             obj.phase = "live" => local.phase = "live",
             obj.hash \in {None, local.hash} \/ (pc = "updateStatus" /\ obj.hash = hash)
      PROVE  Goal
  <2>1. req \in Names /\ local = Stored(epsLog)[req] /\ local.phase # "absent"
    BY <1>4, UpToDateMeans DEF UpToDate
  <2>2. Rewritten(req, obj)
    BY <1>4, <2>1 DEF Rewritten
  <2>3. QED
    BY <2>1, <2>2
<1>5. ASSUME AddFinalizer PROVE Goal
  <2> DEFINE o == IF local.owner = None THEN <<krak, krakCopy.uid>> ELSE local.owner
             obj == [[local EXCEPT !.finalizer = TRUE,
                    !.owner = IF @ = None THEN <<krak, krakCopy.uid>> ELSE @] EXCEPT !.rv = @ + 1]
  <2>1. CASE UNCHANGED epsLog
    BY <1>1, <1>5, <2>1 DEF AddFinalizer, history
  <2>2. CASE UpToDate(local) /\ epsLog' = Put(epsLog, req, obj)
    <3>1. /\ pc = "addFinalizer" /\ local \in ApiEndpoints /\ local.phase # "absent"
          /\ krak \in Krakends /\ krakCopy \in Krakend
          /\ UNCHANGED <<cmLog, krLog, carried, reverted>>
      BY <1>0, <1>5 DEF AddFinalizer, TypeOK, PCs, history
    <3>2. o \in (Krakends \X Nat) \cup {None}
      BY <3>1 DEF ApiEndpoints, Krakend
    <3>3. obj = [local EXCEPT !.finalizer = TRUE, !.owner = o, !.hash = local.hash, !.rv = @ + 1]
      BY <3>1 DEF ApiEndpoints
    <3>4. local.hash \in {hashEndpoints(s) : s \in ESpecs} \cup {None}
      BY <3>1 DEF ApiEndpoints
    <3>5. obj \in ApiEndpoints
      <4> HIDE DEF o, obj
      <4> QED BY <3>1, <3>2, <3>3, <3>4, WriteType
    <3>6. /\ obj.phase = local.phase /\ obj.rv = local.rv + 1 /\ obj.spec = local.spec
          /\ obj.hash = local.hash
      BY <3>1 DEF ApiEndpoints
    <3> HIDE DEF obj
    <3>7. QED
      BY <1>4, <2>2, <3>1, <3>5, <3>6
  <2>3. QED
    BY <1>5, <2>1, <2>2 DEF AddFinalizer, Write
<1>6. ASSUME UpdateStatus PROVE Goal
  <2> DEFINE obj == [[local EXCEPT !.hash = hash] EXCEPT !.rv = @ + 1]
  <2>1. CASE UNCHANGED epsLog
    BY <1>1, <1>6, <2>1 DEF UpdateStatus, history
  <2>2. CASE UpToDate(local) /\ epsLog' = Put(epsLog, req, obj)
    <3>1. /\ pc = "updateStatus" /\ local \in ApiEndpoints /\ local.phase # "absent"
          /\ hash \in {hashEndpoints(s) : s \in ESpecs} \cup {None}
          /\ UNCHANGED <<cmLog, krLog, carried, reverted>>
      BY <1>0, <1>6 DEF UpdateStatus, TypeOK, history
    <3>2. obj = [local EXCEPT !.finalizer = local.finalizer, !.owner = local.owner, !.hash = hash,
                              !.rv = @ + 1]
      BY <3>1 DEF ApiEndpoints
    <3>3. local.finalizer \in BOOLEAN /\ local.owner \in (Krakends \X Nat) \cup {None}
      BY <3>1 DEF ApiEndpoints
    <3>4. obj \in ApiEndpoints
      <4> HIDE DEF obj
      <4> QED BY <3>1, <3>2, <3>3, WriteType
    <3>5. /\ obj.phase = local.phase /\ obj.rv = local.rv + 1 /\ obj.spec = local.spec
          /\ obj.hash = hash
      BY <3>1 DEF ApiEndpoints
    <3> HIDE DEF obj
    <3>6. QED
      BY <1>4, <2>2, <3>1, <3>4, <3>5
  <2>3. QED
    BY <1>6, <2>1, <2>2 DEF UpdateStatus, Write
<1>7. ASSUME RemoveFinalizer PROVE Goal
  <2> DEFINE obj == GoneEndpoints(local.rv + 1, local.uid)
  <2>1. CASE UNCHANGED epsLog
    BY <1>1, <1>7, <2>1 DEF RemoveFinalizer, history
  <2>2. CASE UpToDate(local) /\ epsLog' = Put(epsLog, req, obj)
    <3>1. /\ pc = "removeFinalizer" /\ UNCHANGED <<cmLog, krLog, carried, reverted>>
          /\ local \in ApiEndpoints /\ local.phase # "absent"
      BY <1>0, <1>7 DEF RemoveFinalizer, TypeOK, history
    <3>2. local.spec \in ESpecs
      BY <3>1 DEF ApiEndpoints
    <3>3. obj \in ApiEndpoints /\ obj.phase = "absent" /\ obj.rv = local.rv + 1 /\ obj.hash = None
      BY <3>1, <3>2, ObjectTypes DEF GoneEndpoints
    <3> HIDE DEF obj
    <3>4. QED
      BY <1>4, <2>2, <3>1, <3>3
  <2>3. QED
    BY <1>7, <2>1, <2>2 DEF RemoveFinalizer
<1>8. \/ Quiet
      \/ \E w \in inflight : Commit(w) /\ UNCHANGED <<cmLog, queue, workVars>>
      \/ \E n \in Names : DeleteEndpoints(n) /\ UNCHANGED cmLog
      \/ AddFinalizer \/ UpdateStatus \/ RemoveFinalizer
  <2>0. ASSUME UNCHANGED <<epsLog, carried, reverted>> PROVE Quiet
    BY <2>0 DEF Quiet
  <2>1. ASSUME NEW n \in Names, NEW outside \in BOOLEAN, Start(n, outside)
        PROVE  UNCHANGED <<epsLog, carried, reverted>>
    BY <2>1 DEF Start, history
  <2>2. ASSUME GetKrakend \/ GetConfigMap \/ ListEndpoints \/ Refetch \/ AdmitFinalizer
        PROVE  UNCHANGED <<epsLog, carried, reverted>>
    BY <2>2 DEF GetKrakend, GetConfigMap, ListEndpoints, Refetch, AdmitFinalizer, clusterVars,
                admissionVars, history
  <2>3. ASSUME UpdateConfigMap \/ \E app \in apps : EnsureNetpol(app)
        PROVE  UNCHANGED <<epsLog, carried, reverted>>
    BY <2>3 DEF UpdateConfigMap, EnsureNetpol, admissionVars, history
  <2>4. ASSUME UserStep, UNCHANGED <<cmLog, queue, workVars>>
        PROVE  \/ UNCHANGED <<epsLog, carried, reverted>>
               \/ \E w \in inflight : Commit(w) /\ UNCHANGED <<cmLog, queue, workVars>>
               \/ \E n \in Names : DeleteEndpoints(n) /\ UNCHANGED cmLog
    BY <2>4 DEF UserStep, UserApply, UserDelete, GcEndpoints, KrakendApply, KrakendDelete, history
  <2>5. ASSUME \/ Fault \/ Resync \/ ObserveKrakends \/ ObserveConfigMaps \/ ObserveNetpols
               \/ \E k \in Krakends : GcConfigMap(k)
               \/ \E key \in NetpolKeys : GcNetpol(key)
               \/ UNCHANGED vars
        PROVE  UNCHANGED <<epsLog, carried, reverted>>
    BY <2>5 DEF Fault, Resync, ObserveKrakends, DeliverKrakends, ObserveConfigMaps, ObserveNetpols,
                GcConfigMap, GcNetpol, vars, admissionVars, history
  <2>6. ASSUME ObserveEndpoints \/ Restart PROVE Quiet
    BY <2>6 DEF ObserveEndpoints, DeliverEndpoints, Restart, RelistCaches, Quiet, history
  <2>7. QED
    BY <2>0, <2>1, <2>2, <2>3, <2>4, <2>5, <2>6 DEF Next, Reconcile, Environment
<1>9. QED
  <2> HIDE DEF Goal
  <2>1. Goal
    BY <1>2, <1>3, <1>5, <1>6, <1>7, <1>8 DEF Goal
  <2>2. QED
    BY <2>1 DEF Goal

-----------------------------------------------------------------------------
LEMMA QuietFacts ==
  ASSUME ControllerInv, Quiet
  PROVE  /\ Stored(epsLog)' = Stored(epsLog)
         /\ \E d \in Nat : /\ d < Len(epsLog) /\ Len(epsLog') = Len(epsLog) - d
                           /\ \A i \in 1..Len(epsLog') :
                                i + d \in 1..Len(epsLog) /\ epsLog'[i] = epsLog[i + d]
<1>1. epsLog \in Seq([Names -> ApiEndpoints]) /\ epsLog # <<>> /\ Follows(epsLog', epsLog)
  BY PolicyTypes DEF Quiet, Follows, ObserveEndpoints, DeliverEndpoints, Restart, RelistCaches
<1>2. /\ Stored(epsLog') = Stored(epsLog)
      /\ \E d \in Nat : /\ d < Len(epsLog) /\ Len(epsLog') = Len(epsLog) - d
                        /\ \A i \in 1..Len(epsLog') :
                             i + d \in 1..Len(epsLog) /\ epsLog'[i] = epsLog[i + d]
  BY <1>1, FollowsFacts
<1>3. QED
  BY <1>2 DEF Stored

LEMMA PutLogFacts ==
  ASSUME ControllerInv, NEW n \in Names, NEW obj, epsLog' = Put(epsLog, n, obj)
  PROVE  /\ Stored(epsLog)' = [Stored(epsLog) EXCEPT ![n] = obj]
         /\ Len(epsLog') = Len(epsLog) + 1
         /\ \A i \in 1..Len(epsLog) : epsLog'[i] = epsLog[i]
         /\ epsLog'[Len(epsLog) + 1] = Stored(epsLog)'
<1>1. /\ epsLog \in Seq([Names -> ApiEndpoints]) /\ epsLog # <<>>
      /\ epsLog' = Append(epsLog, [Stored(epsLog) EXCEPT ![n] = obj])
  BY PolicyTypes DEF Put
<1>2. QED
  BY <1>1 DEF Stored

(* Reconcile keeps the name and the hash it started with.                  *)
LEMMA HeldStep ==
  ASSUME [Next]_vars, pc' # "idle"
  PROVE  \/ pc # "idle" /\ UNCHANGED <<req, hash>>
         \/ /\ pc = "idle" /\ pc' = "getKrakend" /\ req' \in Names
            /\ hash' = IF Cached(epsLog)[req'].phase = "live"
                       THEN hashEndpoints(Cached(epsLog)[req'].spec) ELSE None
            /\ UNCHANGED <<epsLog, krLog, cmLog, history>>
<1> DEFINE Goal == \/ pc # "idle" /\ UNCHANGED <<req, hash>>
                   \/ /\ pc = "idle" /\ pc' = "getKrakend" /\ req' \in Names
                      /\ hash' = IF Cached(epsLog)[req'].phase = "live"
                                 THEN hashEndpoints(Cached(epsLog)[req'].spec) ELSE None
                      /\ UNCHANGED <<epsLog, krLog, cmLog, history>>
<1>1. ASSUME NEW n \in Names, NEW outside \in BOOLEAN, Start(n, outside) PROVE Goal
  BY <1>1 DEF Start, workVars
<1>2. ASSUME Fail \/ Done \/ Return PROVE FALSE
  BY <1>2 DEF Fail, Done, Return
<1>3. ASSUME Reconcile PROVE Goal
  <2>1. ASSUME NEW app \in apps, EnsureNetpol(app) PROVE Goal
    BY <1>2, <2>1 DEF EnsureNetpol
  <2>2. ASSUME \/ GetKrakend \/ GetConfigMap \/ ListEndpoints \/ UpdateConfigMap \/ Refetch
               \/ AdmitFinalizer \/ AddFinalizer \/ UpdateStatus \/ RemoveFinalizer
        PROVE  Goal
    BY <1>2, <2>2 DEF GetKrakend, GetConfigMap, ListEndpoints, UpdateConfigMap, Refetch,
                      AdmitFinalizer, AddFinalizer, UpdateStatus, RemoveFinalizer
  <2>3. QED
    BY <1>3, <2>1, <2>2 DEF Reconcile
<1>4. ASSUME UNCHANGED workVars PROVE Goal
  BY <1>4 DEF workVars
<1>5. ASSUME Environment PROVE UNCHANGED workVars
  <2>1. ~Fault /\ ~Restart
    BY <1>2 DEF Fault, Restart
  <2>2. QED
    BY <1>5, <2>1 DEF Environment, Resync, ObserveEndpoints, ObserveKrakends, ObserveConfigMaps,
                      ObserveNetpols, GcConfigMap, GcNetpol
<1>6. QED
  BY <1>1, <1>3, <1>4, <1>5 DEF Next, vars

LEMMA CarriedStep ==
  ASSUME HistoryInv, [Next]_vars
  PROVE  /\ CarriedSpecs'
         /\ \A n \in Names : carried[n] \subseteq carried'[n]
<1>0. /\ ControllerInv /\ CarriedSpecs /\ carried \in [Names -> SUBSET ESpecs]
      /\ Stored(epsLog) \in [Names -> ApiEndpoints] /\ Len(epsLog) \in Nat \ {0}
      /\ Stored(epsLog) = epsLog[Len(epsLog)]
  BY SnapshotTypes DEF HistoryInv, ControllerInv, TypeOK, AdmissionTypeOK
<1>1. CASE Quiet
  <2>1. carried' = carried /\ \A i \in 1..Len(epsLog') : \E j \in 1..Len(epsLog) : epsLog'[i] = epsLog[j]
    BY <1>0, <1>1, QuietFacts DEF Quiet
  <2>2. QED
    BY <1>0, <2>1 DEF CarriedSpecs
<1>2. ASSUME NEW n \in Names, NEW obj \in ApiEndpoints, Committed(n, obj) \/ Rewritten(n, obj)
      PROVE  /\ CarriedSpecs'
             /\ \A m \in Names : carried[m] \subseteq carried'[m]
  <2>1. epsLog' = Put(epsLog, n, obj)
    BY <1>2 DEF Committed, Rewritten
  <2>2. /\ Stored(epsLog)' = [Stored(epsLog) EXCEPT ![n] = obj]
        /\ Len(epsLog') = Len(epsLog) + 1
        /\ \A i \in 1..Len(epsLog) : epsLog'[i] = epsLog[i]
        /\ epsLog'[Len(epsLog) + 1] = Stored(epsLog)'
    BY <1>0, <2>1, PutLogFacts
  <2>3. \A m \in Names : carried[m] \subseteq carried'[m]
    BY <1>0, <1>2 DEF Committed, Rewritten
  <2>4. \A m \in Names : Stored(epsLog)[m].phase # "absent" => Stored(epsLog)[m].spec \in carried[m]
    BY <1>0 DEF CarriedSpecs
  <2>5. obj.phase # "absent" => obj.spec \in carried'[n]
    BY <1>0, <1>2, <2>4 DEF Committed, Rewritten
  <2>6. ASSUME NEW i \in 1..Len(epsLog'), NEW m \in Names, epsLog'[i][m].phase # "absent"
        PROVE  epsLog'[i][m].spec \in carried'[m]
    <3>1. CASE i \in 1..Len(epsLog)
      BY <1>0, <2>2, <2>3, <2>6, <3>1 DEF CarriedSpecs
    <3>2. CASE i = Len(epsLog) + 1
      BY <1>0, <2>2, <2>3, <2>4, <2>5, <2>6, <3>2
    <3>3. QED
      BY <1>0, <2>2, <3>1, <3>2
  <2>7. QED
    BY <2>3, <2>6 DEF CarriedSpecs
<1>3. QED
  BY <1>0, <1>1, <1>2, StoreStep

LEMMA HashesCarriedStep ==
  ASSUME HistoryInv, [Next]_vars
  PROVE  HashesCarried'
<1>0. ControllerInv /\ HashesCarried /\ CarriedSpecs /\ TypeOK
  BY PolicyTypes DEF HistoryInv
<1>1. ASSUME NEW n \in Names, NEW s \in ESpecs, Stored(epsLog)'[n].hash = hashEndpoints(s)
      PROVE  s \in carried'[n]
  <2>0. /\ Stored(epsLog) \in [Names -> ApiEndpoints] /\ hashEndpoints(s) # None
        /\ carried[n] \subseteq carried'[n]
    BY <1>0, PolicyTypes, SpecFacts, CarriedStep
  <2>1. CASE Quiet
    BY <1>0, <1>1, <2>0, <2>1, QuietFacts DEF HashesCarried
  <2>2. ASSUME NEW m \in Names, NEW obj \in ApiEndpoints, Committed(m, obj) \/ Rewritten(m, obj)
        PROVE  s \in carried[n]
    <3>1. Stored(epsLog)' = [Stored(epsLog) EXCEPT ![m] = obj]
      BY <1>0, <2>2, PutLogFacts DEF Committed, Rewritten
    <3>2. CASE n # m
      BY <1>0, <1>1, <2>0, <3>1, <3>2 DEF HashesCarried
    <3>3. CASE n = m
      <4>1. obj.hash = hashEndpoints(s)
        BY <1>1, <2>0, <3>1, <3>3
      <4>2. \/ Stored(epsLog)[n].hash = hashEndpoints(s)
            \/ pc = "updateStatus" /\ req = n /\ hash = hashEndpoints(s)
        BY <2>0, <2>2, <3>3, <4>1 DEF Committed, Rewritten
      <4>3. QED
        BY <1>0, <4>2 DEF HashesCarried
    <3>4. QED
      BY <3>2, <3>3
  <2>3. QED
    BY <1>0, <2>0, <2>1, <2>2, StoreStep
<1>2. ASSUME pc' # "idle", NEW s \in ESpecs, hash' = hashEndpoints(s), req' \in Names
      PROVE  s \in carried'[req']
  <2>0. hashEndpoints(s) # None /\ carried[req'] \subseteq carried'[req']
    BY <1>2, SpecFacts, CarriedStep
  <2>1. CASE pc # "idle" /\ UNCHANGED <<req, hash>>
    BY <1>0, <1>2, <2>0, <2>1 DEF HashesCarried
  <2>2. CASE hash' = IF Cached(epsLog)[req'].phase = "live"
                     THEN hashEndpoints(Cached(epsLog)[req'].spec) ELSE None
    <3>1. Cached(epsLog)[req'] \in ApiEndpoints /\ Cached(epsLog) = epsLog[1] /\ Len(epsLog) \in Nat \ {0}
      BY <1>0, <1>2, SnapshotTypes
    <3>2. Cached(epsLog)[req'].phase = "live" /\ Cached(epsLog)[req'].spec \in ESpecs
      BY <1>2, <2>0, <2>2, <3>1 DEF ApiEndpoints
    <3>3. Cached(epsLog)[req'].spec = s
      BY <1>2, <2>2, <3>2, SpecFacts
    <3>4. QED
      BY <1>0, <1>2, <2>0, <3>1, <3>2, <3>3 DEF CarriedSpecs
  <2>3. QED
    BY <1>2, <2>1, <2>2, HeldStep
<1>3. QED
  BY <1>1, <1>2 DEF HashesCarried

LEMMA NoReturnStep ==
  ASSUME HistoryInv, [Next]_vars
  PROVE  NoReturn'
<1>0. /\ ControllerInv /\ NoReturn /\ CarriedSpecs /\ Stored(epsLog) \in [Names -> ApiEndpoints]
      /\ Len(epsLog) \in Nat \ {0} /\ Stored(epsLog) = epsLog[Len(epsLog)]
  BY SnapshotTypes DEF HistoryInv, ControllerInv
<1>1. CASE Quiet
  <2>1. PICK d \in Nat : /\ d < Len(epsLog) /\ Len(epsLog') = Len(epsLog) - d
                         /\ \A i \in 1..Len(epsLog') :
                              i + d \in 1..Len(epsLog) /\ epsLog'[i] = epsLog[i + d]
    BY <1>0, <1>1, QuietFacts
  <2>2. SUFFICES ASSUME NEW n \in Names \ reverted', NEW i \in 1..Len(epsLog'),
                        NEW m \in 1..Len(epsLog'), NEW j \in 1..Len(epsLog'),
                        i <= m, m <= j,
                        epsLog'[i][n].phase = "live", epsLog'[j][n].phase = "live",
                        epsLog'[i][n].spec = epsLog'[j][n].spec
                 PROVE  epsLog'[m][n].phase = "live" /\ epsLog'[m][n].spec = epsLog'[j][n].spec
    BY DEF NoReturn
  <2>3. n \in Names \ reverted
    BY <1>1, <2>2 DEF Quiet
  <2>4. i + d <= m + d /\ m + d <= j + d
    BY <2>1, <2>2
  <2>5. /\ i + d \in 1..Len(epsLog) /\ m + d \in 1..Len(epsLog) /\ j + d \in 1..Len(epsLog)
        /\ epsLog'[i] = epsLog[i + d] /\ epsLog'[m] = epsLog[m + d] /\ epsLog'[j] = epsLog[j + d]
    BY <2>1, <2>2
  <2>6. QED
    BY <1>0, <2>2, <2>3, <2>4, <2>5 DEF NoReturn
<1>2. ASSUME NEW o \in Names, NEW obj \in ApiEndpoints, Committed(o, obj) \/ Rewritten(o, obj)
      PROVE  NoReturn'
  <2>1. /\ Stored(epsLog)' = [Stored(epsLog) EXCEPT ![o] = obj]
        /\ Len(epsLog') = Len(epsLog) + 1
        /\ \A i \in 1..Len(epsLog) : epsLog'[i] = epsLog[i]
        /\ epsLog'[Len(epsLog) + 1] = Stored(epsLog)'
    BY <1>0, <1>2, PutLogFacts DEF Committed, Rewritten
  <2>2. SUFFICES ASSUME NEW n \in Names \ reverted', NEW i \in 1..Len(epsLog'),
                        NEW m \in 1..Len(epsLog'), NEW j \in 1..Len(epsLog'),
                        i <= m, m <= j,
                        epsLog'[i][n].phase = "live", epsLog'[j][n].phase = "live",
                        epsLog'[i][n].spec = epsLog'[j][n].spec
                 PROVE  epsLog'[m][n].phase = "live" /\ epsLog'[m][n].spec = epsLog'[j][n].spec
    BY DEF NoReturn
  <2>3. n \in Names \ reverted
    BY <1>2, <2>2 DEF Committed, Rewritten
  <2>4. CASE m = j
    BY <2>2, <2>4
  <2>5. CASE j \in 1..Len(epsLog)
    <3>1. i \in 1..Len(epsLog) /\ m \in 1..Len(epsLog)
      BY <1>0, <2>1, <2>2, <2>5
    <3>2. epsLog'[i] = epsLog[i] /\ epsLog'[m] = epsLog[m] /\ epsLog'[j] = epsLog[j]
      BY <2>1, <2>5, <3>1
    <3>3. QED
      BY <1>0, <2>2, <2>3, <2>5, <3>1, <3>2 DEF NoReturn
  <2>6. CASE j = Len(epsLog) + 1 /\ m # j
    <3>1. i \in 1..Len(epsLog) /\ m \in 1..Len(epsLog) /\ Len(epsLog) \in 1..Len(epsLog)
          /\ m <= Len(epsLog)
      BY <1>0, <2>1, <2>2, <2>6
    <3>2. epsLog'[i] = epsLog[i] /\ epsLog'[m] = epsLog[m] /\ epsLog'[j] = Stored(epsLog)'
      BY <2>1, <2>6, <3>1
    <3>3. Stored(epsLog)[n].phase = "live" /\ Stored(epsLog)[n].spec = epsLog'[j][n].spec
      <4>1. CASE n # o
        BY <1>0, <2>1, <2>2, <3>2, <4>1
      <4>2. CASE n = o
        <5>1. obj = epsLog'[j][n] /\ obj.phase = "live" /\ obj.spec = epsLog[i][n].spec
          BY <1>0, <2>1, <2>2, <3>2, <4>2
        <5>2. obj.spec \in carried[n]
          BY <1>0, <2>2, <3>1, <3>2, <5>1 DEF CarriedSpecs
        <5>3. ~Committed(o, obj)
          BY <2>2, <4>2, <5>2 DEF Committed
        <5>4. QED
          BY <1>2, <4>2, <5>1, <5>3 DEF Rewritten
      <4>3. QED
        BY <4>1, <4>2
    <3>4. QED
      BY <1>0, <2>2, <2>3, <3>1, <3>2, <3>3 DEF NoReturn
  <2>7. QED
    BY <1>0, <2>1, <2>4, <2>5, <2>6
<1>3. QED
  BY <1>0, <1>1, <1>2, StoreStep

(* How the controller comes to know the spec of n: it starts to work on    *)
(* it, and later stores its hash.                                          *)
Starting(n) ==
  /\ pc = "idle" /\ pc' = "getKrakend" /\ UNCHANGED <<epsLog, krLog, cmLog, history>>
  /\ Cached(epsLog)[n].phase = "live" /\ Stored(epsLog)[n].phase = "live"
  /\ Cached(epsLog)[n].spec = Stored(epsLog)[n].spec

SpecKept(n) == /\ Stored(epsLog)[n].phase = "live" /\ Stored(epsLog)'[n].phase = "live"
               /\ Stored(epsLog)'[n].spec = Stored(epsLog)[n].spec

LEMMA KnownStep ==
  ASSUME HistoryInv, [Next]_vars, NEW n \in Names \ reverted', Synced(n)' \/ Working(n)'
  PROVE  /\ SpecKept(n) /\ n \notin reverted
         /\ Synced(n)' => Synced(n) \/ (Working(n) /\ pc = "updateStatus")
         /\ Working(n)' => Working(n) \/ Starting(n)
<1>0. /\ ControllerInv /\ HashesCarried /\ TypeOK /\ Stored(epsLog) \in [Names -> ApiEndpoints]
      /\ Cached(epsLog) \in [Names -> ApiEndpoints]
  BY SnapshotTypes DEF HistoryInv, ControllerInv
<1>1. n \notin reverted
  <2>1. CASE Quiet
    BY <2>1 DEF Quiet
  <2>2. ASSUME NEW m \in Names, NEW obj \in ApiEndpoints, Committed(m, obj) \/ Rewritten(m, obj)
        PROVE  n \notin reverted
    BY <2>2 DEF Committed, Rewritten
  <2>3. QED
    BY <1>0, <2>1, <2>2, StoreStep
<1>2. /\ Stored(epsLog)'[n].phase = "live"
      /\ \/ Stored(epsLog)'[n].hash = hashEndpoints(Stored(epsLog)'[n].spec)
         \/ pc' # "idle" /\ req' = n /\ hash' = hashEndpoints(Stored(epsLog)'[n].spec)
  BY DEF Synced, Working
<1>3. SpecKept(n) /\ (Synced(n)' => Synced(n) \/ (Working(n) /\ pc = "updateStatus"))
  <2>1. ASSUME Stored(epsLog)'[n] = Stored(epsLog)[n]
        PROVE  SpecKept(n) /\ (Synced(n)' => Synced(n))
    BY <1>2, <2>1 DEF SpecKept, Synced
  <2>2. CASE Quiet
    BY <1>0, <2>1, <2>2, QuietFacts
  <2>3. ASSUME NEW m \in Names, NEW obj \in ApiEndpoints, m # n,
               Committed(m, obj) \/ Rewritten(m, obj)
        PROVE  Stored(epsLog)'[n] = Stored(epsLog)[n]
    BY <1>0, <2>3, PutLogFacts DEF Committed, Rewritten
  <2>4. ASSUME NEW obj \in ApiEndpoints, Committed(n, obj) PROVE FALSE
    <3>1. Stored(epsLog)'[n] = obj /\ obj.spec \notin carried[n] /\ obj.spec \in ESpecs
      BY <1>0, <2>4, PutLogFacts DEF Committed
    <3>2. \/ Stored(epsLog)[n].hash = hashEndpoints(obj.spec)
          \/ pc # "idle" /\ req = n /\ hash = hashEndpoints(obj.spec)
      BY <1>2, <2>4, <3>1, SpecFacts DEF Committed
    <3>3. QED
      BY <1>0, <3>1, <3>2 DEF HashesCarried
  <2>5. ASSUME NEW obj \in ApiEndpoints, Rewritten(n, obj)
        PROVE  SpecKept(n) /\ (Synced(n)' => Synced(n) \/ (Working(n) /\ pc = "updateStatus"))
    <3>1. Stored(epsLog)'[n] = obj
      BY <1>0, <2>5, PutLogFacts DEF Rewritten
    <3>2. SpecKept(n) /\ obj.spec \in ESpecs
      BY <1>2, <2>5, <3>1 DEF Rewritten, SpecKept, ApiEndpoints
    <3>3. ASSUME Synced(n)' PROVE Synced(n) \/ (Working(n) /\ pc = "updateStatus")
      <4>1. obj.hash = hashEndpoints(obj.spec) /\ obj.hash # None
            /\ obj.spec = Stored(epsLog)[n].spec /\ Stored(epsLog)[n].phase = "live"
        BY <3>1, <3>2, <3>3, SpecFacts DEF Synced, SpecKept
      <4>2. Stored(epsLog)[n].hash = obj.hash \/ (pc = "updateStatus" /\ n = req /\ obj.hash = hash)
        BY <2>5, <4>1 DEF Rewritten
      <4>3. QED
        BY <4>1, <4>2 DEF Synced, Working
    <3>4. QED
      BY <3>2, <3>3
  <2>6. QED
    BY <1>0, <2>1, <2>2, <2>3, <2>4, <2>5, StoreStep
<1>4. ASSUME Working(n)' PROVE Working(n) \/ Starting(n)
  <2>1. pc' # "idle" /\ req' = n /\ hash' = hashEndpoints(Stored(epsLog)'[n].spec)
    BY <1>4 DEF Working
  <2>2. CASE pc # "idle" /\ UNCHANGED <<req, hash>>
    BY <1>3, <2>1, <2>2 DEF SpecKept, Working
  <2>3. CASE /\ pc = "idle" /\ pc' = "getKrakend" /\ req' \in Names
             /\ hash' = IF Cached(epsLog)[req'].phase = "live"
                        THEN hashEndpoints(Cached(epsLog)[req'].spec) ELSE None
             /\ UNCHANGED <<epsLog, krLog, cmLog, history>>
    <3>1. Stored(epsLog)[n].spec \in ESpecs /\ Stored(epsLog)[n].phase = "live"
          /\ hash' = hashEndpoints(Stored(epsLog)[n].spec)
      <4>1. Stored(epsLog)[n] \in ApiEndpoints
        BY <1>0
      <4>2. QED
        BY <1>3, <2>1, <4>1 DEF SpecKept, ApiEndpoints
    <3>2. Cached(epsLog)[n].phase = "live" /\ Cached(epsLog)[n].spec \in ESpecs
      <4>1. Cached(epsLog)[n].phase = "live"
        BY <2>1, <2>3, <3>1, SpecFacts
      <4>2. QED
        BY <1>0, <4>1 DEF ApiEndpoints
    <3>3. Cached(epsLog)[n].spec = Stored(epsLog)[n].spec
      BY <2>1, <2>3, <3>1, <3>2, SpecFacts
    <3>4. QED
      BY <2>3, <3>1, <3>2, <3>3 DEF Starting
  <2>4. QED
    BY <2>1, <2>2, <2>3, HeldStep
<1>5. QED
  BY <1>1, <1>3, <1>4

LEMMA KnownFreshStep ==
  ASSUME HistoryInv, [Next]_vars
  PROVE  KnownFresh'
<1>0. /\ ControllerInv /\ NoReturn /\ KnownFresh /\ Stored(epsLog) \in [Names -> ApiEndpoints]
      /\ Len(epsLog) \in Nat \ {0} /\ Stored(epsLog) = epsLog[Len(epsLog)]
      /\ Cached(epsLog) = epsLog[1]
  BY SnapshotTypes DEF HistoryInv, ControllerInv
<1> SUFFICES ASSUME NEW n \in Names \ reverted', Synced(n)' \/ Working(n)' PROVE Fresh(n)'
  BY DEF KnownFresh
<1>1. /\ SpecKept(n) /\ n \notin reverted
      /\ Synced(n) \/ Working(n) \/ Starting(n)
  BY KnownStep
<1>2. Fresh(n)
  <2>1. CASE Starting(n)
    <3>1. ASSUME NEW i \in 1..Len(epsLog)
          PROVE  epsLog[i][n].phase = "live" /\ epsLog[i][n].spec = Stored(epsLog)[n].spec
      <4>1. 1 \in 1..Len(epsLog) /\ Len(epsLog) \in 1..Len(epsLog) /\ 1 <= i /\ i <= Len(epsLog)
        BY <1>0
      <4>2. QED
        BY <1>0, <1>1, <2>1, <4>1 DEF NoReturn, Starting
    <3>2. QED
      BY <3>1 DEF Fresh
  <2>2. QED
    BY <1>0, <1>1, <2>1 DEF KnownFresh
<1>3. CASE Quiet
  <2>1. \A i \in 1..Len(epsLog') : \E j \in 1..Len(epsLog) : epsLog'[i] = epsLog[j]
    BY <1>0, <1>3, QuietFacts
  <2>2. QED
    BY <1>1, <1>2, <2>1 DEF Fresh, SpecKept
<1>4. ASSUME NEW m \in Names, NEW obj \in ApiEndpoints, Committed(m, obj) \/ Rewritten(m, obj)
      PROVE  Fresh(n)'
  <2>1. /\ Len(epsLog') = Len(epsLog) + 1
        /\ \A i \in 1..Len(epsLog) : epsLog'[i] = epsLog[i]
        /\ epsLog'[Len(epsLog) + 1] = Stored(epsLog)'
    BY <1>0, <1>4, PutLogFacts DEF Committed, Rewritten
  <2>2. ASSUME NEW i \in 1..Len(epsLog')
        PROVE  epsLog'[i][n].phase = "live" /\ epsLog'[i][n].spec = Stored(epsLog)'[n].spec
    <3>1. CASE i \in 1..Len(epsLog)
      BY <1>1, <1>2, <2>1, <3>1 DEF Fresh, SpecKept
    <3>2. CASE i = Len(epsLog) + 1
      BY <1>1, <2>1, <3>2 DEF SpecKept
    <3>3. QED
      BY <1>0, <2>1, <3>1, <3>2
  <2>3. QED
    BY <2>2 DEF Fresh
<1>5. QED
  BY <1>0, <1>3, <1>4, StoreStep

-----------------------------------------------------------------------------
(* The list Reconcile makes is that of the cache.                          *)
LEMMA ListedFacts ==
  ASSUME ControllerInv, ListEndpoints, pc' = "updateConfigMap"
  PROVE  /\ pc = "list" /\ UNCHANGED <<epsLog, carried, queue, req, hash>>
         /\ \A n \in Names : Part(cm'.data, n) = Ask(Cached(epsLog)[n])
         /\ cm'.data = ToKrakendEndpoints(krakCopy.spec, LiveSpecs(Cached(epsLog)))
<1> DEFINE routes == ToKrakendEndpoints(krakCopy.spec, LiveSpecs(Cached(epsLog)))
<1>1. /\ pc = "list" /\ UNCHANGED <<epsLog, carried, queue, req, hash>>
      /\ cm' = [cm EXCEPT !.data = routes]
      /\ Convertible(krakCopy.spec, LiveSpecs(Cached(epsLog)))
  BY DEF ListEndpoints, Fail, Return, clusterVars, admissionVars, history
<1>2. krakCopy.spec \in KSpecs /\ cm \in ConfigMap
  BY <1>1 DEF ControllerInv, TypeOK, PCs, Krakend
<1>3. Cached(epsLog) \in [Names -> ApiEndpoints]
  BY SnapshotTypes DEF ControllerInv
<1>4. \A n \in Names : Part(routes, n) = Ask(Cached(epsLog)[n])
  BY <1>1, <1>2, <1>3, ListPart
<1> HIDE DEF routes
<1>5. cm'.data = routes
  BY <1>1, <1>2 DEF ConfigMap
<1>6. QED
  BY <1>1, <1>4, <1>5 DEF routes

(* Between its first read and the publication Reconcile goes on, or leaves *)
(* the name on the queue, or publishes the list; this is where one Krakend *)
(* is needed.                                                              *)
LEMMA PreStep ==
  ASSUME [Next]_vars, pc \in PrePublish
  PROVE  \/ pc' \in PrePublish /\ req' = req
         \/ pc' = "idle" /\ (req \in queue' \/ Restart)
         \/ pc' \notin PrePublish \cup {"idle"} /\ (GetKrakend \/ UpdateConfigMap)
<1> DEFINE Goal == \/ pc' \in PrePublish /\ req' = req
                   \/ pc' = "idle" /\ (req \in queue' \/ Restart)
                   \/ pc' \notin PrePublish \cup {"idle"} /\ (GetKrakend \/ UpdateConfigMap)
<1>1. ASSUME NEW n \in Names, NEW outside \in BOOLEAN, Start(n, outside) PROVE Goal
  BY <1>1 DEF Start, PrePublish
<1>2. ASSUME Fail \/ Restart PROVE Goal
  BY <1>2 DEF Fail, Restart, Return
<1>3. ASSUME GetKrakend \/ GetConfigMap \/ ListEndpoints PROVE Goal
  BY <1>2, <1>3 DEF GetKrakend, GetConfigMap, ListEndpoints, PrePublish
<1>4. ASSUME UpdateConfigMap PROVE Goal
  BY <1>2, <1>4 DEF UpdateConfigMap, AfterConfigMap, PrePublish
<1>5. ASSUME Fault PROVE Goal
  BY <1>2, <1>5 DEF Fault, PrePublish
<1>6. ASSUME UNCHANGED workVars PROVE Goal
  BY <1>6 DEF workVars
<1>7. ASSUME Reconcile PROVE GetKrakend \/ GetConfigMap \/ ListEndpoints \/ UpdateConfigMap
  BY <1>7 DEF Reconcile, EnsureNetpol, Refetch, AdmitFinalizer, AddFinalizer, UpdateStatus,
              RemoveFinalizer, PrePublish
<1>8. ASSUME Environment PROVE Fault \/ Restart \/ UNCHANGED workVars
  BY <1>8 DEF Environment, Resync, ObserveEndpoints, ObserveKrakends, ObserveConfigMaps,
              ObserveNetpols, GcConfigMap, GcNetpol
<1>9. QED
  <2> HIDE DEF Goal
  <2>1. Goal
    BY <1>1, <1>2, <1>3, <1>4, <1>5, <1>6, <1>7, <1>8 DEF Next, vars
  <2>2. QED
    BY <2>1 DEF Goal

LEMMA Publishes ==
  ASSUME ControllerInv, KrakendsLeave, [Next]_vars, NEW K, Krakends = {K},
         NEW k \in Krakends, Serving(k)', pc \in PrePublish, pc' \notin PrePublish \cup {"idle"}
  PROVE  pc = "updateConfigMap" /\ Stored(cmLog)'[k].data = cm.data
<1>0. TypeOK
  BY DEF ControllerInv
<1>1. ASSUME GetKrakend PROVE FALSE
  <2>1. /\ pc = "getKrakend" /\ UNCHANGED krLog
        /\ Cached(krLog)[krakendName(local.spec)].phase = "absent"
    BY <1>1 DEF GetKrakend, Fail, Return, clusterVars, admissionVars, PrePublish
  <2>2. local.spec \in ESpecs
    BY <1>0, <2>1 DEF TypeOK, ApiEndpoints
  <2>3. krakendName(local.spec) = k
    BY <2>2, ClusterAssumption
  <2>4. krLog[1][k].phase = "absent" => krLog[Len(krLog)][k].phase = "absent"
    <3>1. Len(krLog) \in Nat \ {0}
      BY <1>0 DEF TypeOK, AdmissionTypeOK
    <3>2. QED
      BY <3>1 DEF KrakendsLeave
  <2>5. Stored(krLog)'[k].phase = "absent"
    BY <2>1, <2>3, <2>4 DEF Stored, Cached
  <2>6. QED
    BY <2>5 DEF Serving, KrakendExists
<1>2. CASE UpdateConfigMap
  BY <1>2, PublishFacts
<1>3. QED
  BY <1>1, <1>2, PreStep DEF PrePublish

LEMMA AskKept ==
  ASSUME NEW n \in Names, SpecKept(n)
  PROVE  Ask(Stored(epsLog)'[n]) = Ask(Stored(epsLog)[n])
  BY DEF SpecKept, Ask

LEMMA ListKnownStep ==
  ASSUME HistoryInv, ListKnown, [Next]_vars
  PROVE  ListKnown'
<1>0. ControllerInv /\ KnownFresh
  BY DEF HistoryInv
<1> SUFFICES ASSUME pc' = "updateConfigMap", NEW n \in Names \ reverted', Synced(n)' \/ Working(n)'
             PROVE  Part(cm'.data, n) = Ask(Stored(epsLog)'[n])
  BY DEF ListKnown
<1>1. /\ SpecKept(n) /\ n \in Names \ reverted /\ (Synced(n) \/ Working(n))
      /\ Ask(Stored(epsLog)'[n]) = Ask(Stored(epsLog)[n])
  BY <1>0, KnownStep, AskKept DEF Starting
<1>2. CASE UNCHANGED workVars
  BY <1>0, <1>1, <1>2 DEF ListKnown, workVars
<1>3. CASE ListEndpoints
  <2>1. Cached(epsLog)[n].phase = "live" /\ Cached(epsLog)[n].spec = Stored(epsLog)[n].spec
    <3>1. Fresh(n)
      BY <1>0, <1>1 DEF KnownFresh
    <3>2. Cached(epsLog) = epsLog[1] /\ 1 \in 1..Len(epsLog)
      BY <1>0, SnapshotTypes DEF ControllerInv
    <3>3. QED
      BY <3>1, <3>2 DEF Fresh
  <2>2. Ask(Cached(epsLog)[n]) = Ask(Stored(epsLog)[n])
    BY <1>1, <2>1 DEF Ask, SpecKept
  <2>3. QED
    BY <1>0, <1>1, <1>3, <2>2, ListedFacts
<1>4. QED
  BY <1>2, <1>3, WorkStep

LEMMA KnownPublishedStep ==
  ASSUME RouteInv, [Next]_vars, NEW K, Krakends = {K}
  PROVE  KnownPublished'
<1>0. ControllerInv /\ KrakendsLeave /\ HistoryInv /\ ListKnown /\ KnownPublished
  BY DEF RouteInv, HistoryInv, RegistryInv, GhostInv
<1> SUFFICES ASSUME NEW n \in Names \ reverted',
                    Synced(n)' \/ (Working(n)' /\ pc' \notin PrePublish),
                    NEW k \in Krakends, Serving(k)'
             PROVE  Part(Stored(cmLog)'[k].data, n) = Ask(Stored(epsLog)'[n])
  BY DEF KnownPublished
<1>1. /\ SpecKept(n) /\ n \in Names \ reverted
      /\ Synced(n)' => Synced(n) \/ (Working(n) /\ pc = "updateStatus")
      /\ Working(n)' => Working(n) \/ Starting(n)
      /\ Ask(Stored(epsLog)'[n]) = Ask(Stored(epsLog)[n])
  BY <1>0, KnownStep, AskKept
<1>2. CASE pc = "updateConfigMap" /\ Stored(cmLog)'[k].data = cm.data
  BY <1>0, <1>1, <1>2 DEF ListKnown, Starting
<1>3. CASE Serving(k) /\ Stored(cmLog)'[k].data = Stored(cmLog)[k].data
  <2>1. CASE Synced(n)'
    BY <1>0, <1>1, <1>3, <2>1 DEF KnownPublished, PrePublish
  <2>2. CASE Working(n)' /\ pc' \notin PrePublish
    <3>1. Working(n) /\ pc' # "idle"
      BY <1>1, <2>2 DEF Starting, PrePublish, Working
    <3>2. CASE pc \notin PrePublish
      BY <1>0, <1>1, <1>3, <3>1, <3>2 DEF KnownPublished
    <3>3. CASE pc \in PrePublish
      BY <1>0, <1>2, <2>2, <3>1, <3>3, Publishes
    <3>4. QED
      BY <3>2, <3>3
  <2>3. QED
    BY <2>1, <2>2
<1>4. QED
  BY <1>0, <1>2, <1>3, ServingStep

(* A name leaves the queue when Reconcile starts to work on it, or when    *)
(* the manager is restarted.                                               *)
LEMMA QueueStep ==
  ASSUME [Next]_vars
  PROVE  \/ queue \subseteq queue'
         \/ Restart
         \/ \E n \in Names, outside \in BOOLEAN : Start(n, outside)
<1>1. ASSUME Reconcile \/ Fault PROVE queue \subseteq queue'
  BY <1>1 DEF Reconcile, Fault, GetKrakend, GetConfigMap, ListEndpoints, UpdateConfigMap,
              EnsureNetpol, Refetch, AdmitFinalizer, AddFinalizer, UpdateStatus, RemoveFinalizer,
              Fail, Done
<1>2. ASSUME Environment PROVE Fault \/ Restart \/ queue \subseteq queue'
  BY <1>2 DEF Environment, Resync, ObserveEndpoints, ObserveKrakends, ObserveConfigMaps,
              ObserveNetpols, GcConfigMap, GcNetpol
<1>3. QED
  BY <1>1, <1>2 DEF Next, vars

LEMMA StillStep ==
  ASSUME ControllerInv, [Next]_vars, NEW n \in Names, Still(n)'
  PROVE  \/ Still(n) /\ Stored(epsLog)'[n] = Stored(epsLog)[n]
         \/ \E outside \in BOOLEAN : Start(n, outside)
         \/ Restart
<1>0. /\ Stored(epsLog) \in [Names -> ApiEndpoints] /\ Len(epsLog) \in Nat \ {0}
      /\ epsLog \in Seq([Names -> ApiEndpoints]) /\ Stored(epsLog) = epsLog[Len(epsLog)]
      /\ Stored(epsLog)[n].rv \in Nat
  BY SnapshotTypes DEF ControllerInv, ApiEndpoints
<1> SUFFICES ASSUME ~Restart, ~\E outside \in BOOLEAN : Start(n, outside)
             PROVE  Still(n) /\ Stored(epsLog)'[n] = Stored(epsLog)[n]
  OBVIOUS
<1>1. n \notin queue' /\ \A i \in 1..Len(epsLog') : epsLog'[i][n] = Stored(epsLog)'[n]
  BY DEF Still
<1>2. n \notin queue
  BY <1>1, QueueStep DEF Start
<1>3. CASE UNCHANGED epsLog
  BY <1>1, <1>2, <1>3 DEF Still, Stored
<1>4. CASE ObserveEndpoints
  <2>1. /\ Len(epsLog) > 1 /\ epsLog' = Deliver(epsLog) /\ queue' = queue \cup Notified(epsLog)
    BY <1>4 DEF ObserveEndpoints, DeliverEndpoints
  <2>2. /\ Len(epsLog') = Len(epsLog) - 1
        /\ \A i \in 1..(Len(epsLog) - 1) : epsLog'[i] = epsLog[i + 1]
        /\ Stored(epsLog)' = Stored(epsLog)
    BY <1>0, <2>1 DEF Deliver, Stored
  <2>3. epsLog[2][n] = epsLog[1][n]
    <3>1. DOMAIN epsLog[1] = Names
      BY <1>0
    <3>2. QED
      BY <1>1, <2>1, <3>1 DEF Notified
  <2>4. ASSUME NEW i \in 1..Len(epsLog), i # 1 PROVE epsLog[i][n] = Stored(epsLog)[n]
    <3>1. i - 1 \in 1..Len(epsLog') /\ epsLog'[i - 1] = epsLog[i]
      BY <1>0, <2>2, <2>4
    <3>2. QED
      BY <1>1, <2>2, <3>1
  <2>5. epsLog[1][n] = Stored(epsLog)[n]
    BY <1>0, <2>1, <2>3, <2>4
  <2>6. QED
    BY <1>2, <2>2, <2>4, <2>5 DEF Still
<1>5. ASSUME NEW m \in Names, NEW obj \in ApiEndpoints, Committed(m, obj) \/ Rewritten(m, obj)
      PROVE  Still(n) /\ Stored(epsLog)'[n] = Stored(epsLog)[n]
  <2>1. /\ Stored(epsLog)' = [Stored(epsLog) EXCEPT ![m] = obj]
        /\ Len(epsLog') = Len(epsLog) + 1
        /\ \A i \in 1..Len(epsLog) : epsLog'[i] = epsLog[i]
        /\ obj.rv = Stored(epsLog)[m].rv + 1
    BY <1>5, PutLogFacts DEF Committed, Rewritten
  <2>2. \A i \in 1..Len(epsLog) : epsLog[i][n] = Stored(epsLog)'[n]
    BY <1>0, <1>1, <2>1
  <2>3. Stored(epsLog)[n] = Stored(epsLog)'[n]
    BY <1>0, <2>2
  <2>4. QED
    BY <1>2, <2>2, <2>3 DEF Still
<1>6. QED
  BY <1>3, <1>4, <1>5, StoreStep DEF Quiet

LEMMA ListCurrentStep ==
  ASSUME RouteInv, [Next]_vars
  PROVE  ListCurrent'
<1>0. ControllerInv /\ ListCurrent
  BY DEF RouteInv, HistoryInv
<1> SUFFICES ASSUME pc' = "updateConfigMap", NEW n \in Names, Still(n)'
             PROVE  Part(cm'.data, n) = Ask(Stored(epsLog)'[n])
  BY DEF ListCurrent
<1>1. Still(n) /\ Stored(epsLog)'[n] = Stored(epsLog)[n]
  <2>1. ~Restart
    BY DEF Restart, Return
  <2>2. ASSUME NEW outside \in BOOLEAN, Start(n, outside) PROVE FALSE
    BY <2>2 DEF Start, workVars
  <2>3. QED
    BY <1>0, <2>1, <2>2, StillStep
<1>2. CASE UNCHANGED workVars
  BY <1>0, <1>1, <1>2 DEF ListCurrent, workVars
<1>3. CASE ListEndpoints
  <2>1. Cached(epsLog) = epsLog[1] /\ 1 \in 1..Len(epsLog)
    BY <1>0, SnapshotTypes DEF ControllerInv
  <2>2. Cached(epsLog)[n] = Stored(epsLog)[n]
    BY <1>1, <2>1 DEF Still
  <2>3. QED
    BY <1>0, <1>1, <1>3, <2>2, ListedFacts
<1>4. QED
  BY <1>2, <1>3, WorkStep

LEMMA NothingMissedStep ==
  ASSUME RouteInv, [Next]_vars, NEW K, Krakends = {K}, GhostFree', TypeOK'
  PROVE  NothingMissed'
<1>0. /\ ControllerInv /\ ListCurrent /\ KnownPublished /\ NothingMissed /\ OrphansGone
      /\ Stored(epsLog) \in [Names -> ApiEndpoints] /\ KrakendsLeave
  BY PolicyTypes DEF RouteInv, HistoryInv, RegistryInv, GhostInv
<1> SUFFICES ASSUME NEW n \in Names \ (unguarded' \cup reverted'), Still(n)',
                    ~(pc' \in PrePublish /\ req' = n), NEW k \in Krakends, Serving(k)'
             PROVE  Part(Stored(cmLog)'[k].data, n) = Ask(Stored(epsLog)'[n])
  BY DEF NothingMissed
<1>1. CASE Stored(epsLog)'[n].phase = "absent"
  <2>1. \A r \in Stored(cmLog)'[k].data : r.src # n
    <3>1. n # None
      BY ClusterAssumption
    <3>2. QED
      BY <1>1, <3>1 DEF GhostFree
  <2>2. QED
    BY <1>1, <2>1 DEF Part, Ask
<1>2. ASSUME Stored(epsLog)'[n].phase # "absent" PROVE ~Restart
  <2>1. ASSUME Restart PROVE FALSE
    <3>1. /\ epsLog' = Relist(epsLog)
          /\ queue' = {m \in Names : Stored(epsLog)[m].phase # "absent"}
      BY <2>1 DEF Restart, RelistCaches
    <3>2. Stored(epsLog)' = Stored(epsLog)
      BY <3>1 DEF Relist, Stored
    <3>3. QED
      BY <1>2, <3>1, <3>2 DEF Still
  <2>2. QED
    BY <2>1
<1>3. n \notin reverted
  <2>1. CASE Quiet
    BY <2>1 DEF Quiet
  <2>2. ASSUME NEW m \in Names, NEW obj \in ApiEndpoints, Committed(m, obj) \/ Rewritten(m, obj)
        PROVE  n \notin reverted
    BY <2>2 DEF Committed, Rewritten
  <2>3. QED
    BY <1>0, <2>1, <2>2, StoreStep
<1>4. ASSUME Stored(epsLog)'[n].phase # "absent", NEW outside \in BOOLEAN, Start(n, outside)
      PROVE  Part(Stored(cmLog)'[k].data, n) = Ask(Stored(epsLog)'[n])
  <2>1. UNCHANGED <<epsLog, cmLog, krLog>>
    BY <1>4 DEF Start
  <2>2. Cached(epsLog)[n] = Stored(epsLog)[n]
    <3>1. Cached(epsLog) = epsLog[1] /\ 1 \in 1..Len(epsLog)
      BY <1>0, SnapshotTypes DEF ControllerInv
    <3>2. QED
      BY <2>1, <3>1 DEF Still, Stored
  <2>3. Stored(epsLog)'[n] = Stored(epsLog)[n] /\ Stored(cmLog)'[k] = Stored(cmLog)[k]
    BY <2>1 DEF Stored
  <2>4. Synced(n)
    BY <1>4, <2>2, <2>3 DEF Start, Synced, PrePublish
  <2>5. Serving(k)
    BY <2>1, <2>3 DEF Serving, KrakendExists, Stored
  <2>6. QED
    BY <1>0, <1>3, <2>3, <2>4, <2>5 DEF KnownPublished
<1>5. ASSUME Stored(epsLog)'[n].phase # "absent", Still(n),
             Stored(epsLog)'[n] = Stored(epsLog)[n]
      PROVE  Part(Stored(cmLog)'[k].data, n) = Ask(Stored(epsLog)'[n])
  <2>1. CASE pc = "updateConfigMap" /\ Stored(cmLog)'[k].data = cm.data
    BY <1>0, <1>5, <2>1 DEF ListCurrent
  <2>2. CASE Serving(k) /\ Stored(cmLog)'[k].data = Stored(cmLog)[k].data
    <3>1. n \notin unguarded
      BY <1>0, <1>5 DEF OrphansGone
    <3>2. CASE ~(pc \in PrePublish /\ req = n)
      BY <1>0, <1>3, <1>5, <2>2, <3>1, <3>2 DEF NothingMissed
    <3>3. CASE pc \in PrePublish /\ req = n
      <4>1. n \notin queue'
        BY DEF Still
      <4>2. pc' \notin PrePublish \cup {"idle"}
        BY <1>2, <1>5, <3>3, <4>1, PreStep
      <4>3. QED
        BY <1>0, <2>1, <3>3, <4>2, Publishes
    <3>4. QED
      BY <3>2, <3>3
  <2>3. QED
    BY <1>0, <2>1, <2>2, ServingStep
<1>6. QED
  BY <1>0, <1>1, <1>2, <1>4, <1>5, StillStep

-----------------------------------------------------------------------------
(* In the initial state there are no ApiEndpoints, and the partials hold   *)
(* at most the chart's route.                                              *)
LEMMA RouteInit == Init => RouteInv
<1> SUFFICES ASSUME Init PROVE RouteInv
  OBVIOUS
<1>1. /\ Len(epsLog) = 1 /\ pc = "idle" /\ Stored(epsLog) = epsLog[1]
      /\ \A n \in Names : epsLog[1][n] = GoneEndpoints(0, 0)
  BY DEF Init, AdmissionInit, Stored
<1>2. /\ \A i \in 1..Len(epsLog) : \A n \in Names : epsLog[i][n].phase = "absent"
      /\ \A n \in Names : Stored(epsLog)[n].phase = "absent" /\ Stored(epsLog)[n].hash = None
  BY <1>1 DEF GoneEndpoints
<1>3. ControllerInv /\ RegistryInv
  BY ControllerInit, RegistryInitMaps
<1>4. \A n \in Names : ~Synced(n) /\ ~Working(n)
  BY <1>2 DEF Synced, Working
<1>5. HistoryInv
  <2>1. CarriedSpecs /\ NoReturn
    BY <1>2 DEF CarriedSpecs, NoReturn
  <2>2. HashesCarried
    BY <1>1, <1>2, SpecFacts DEF HashesCarried
  <2>3. KnownFresh
    BY <1>4 DEF KnownFresh
  <2>4. QED
    BY <1>3, <2>1, <2>2, <2>3 DEF HistoryInv
<1>6. ListKnown /\ ListCurrent /\ KnownPublished
  BY <1>1, <1>4 DEF ListKnown, ListCurrent, KnownPublished
<1>7. NothingMissed
  <2>1. SUFFICES ASSUME NEW n \in Names, NEW k \in Krakends
                 PROVE  Part(Stored(cmLog)[k].data, n) = Ask(Stored(epsLog)[n])
    BY DEF NothingMissed
  <2>2. Stored(cmLog)[k].data \in {{}, {ChartRoute}}
    BY DEF Init, Stored, NoConfigMap
  <2>3. \A r \in Stored(cmLog)[k].data : r.src # n
    BY <2>2, ClusterAssumption DEF ChartRoute
  <2>4. Part(Stored(cmLog)[k].data, n) = {}
    BY <2>3 DEF Part
  <2>5. QED
    BY <1>2, <2>4 DEF Ask
<1>8. QED
  BY <1>3, <1>5, <1>6, <1>7 DEF RouteInv

LEMMA HistoryStep ==
  ASSUME HistoryInv, [Next]_vars
  PROVE  HistoryInv'
<1>1. ControllerInv'
  BY ControllerInvStep DEF HistoryInv
<1>2. CarriedSpecs' /\ HashesCarried' /\ NoReturn' /\ KnownFresh'
  BY CarriedStep, HashesCarriedStep, NoReturnStep, KnownFreshStep
<1>3. QED
  BY <1>1, <1>2 DEF HistoryInv

LEMMA RouteStep ==
  ASSUME NEW K, Krakends = {K}, RouteInv, [Next]_vars
  PROVE  RouteInv'
<1>1. RegistryInv /\ GhostInv /\ ControllerInv /\ OrphansGone /\ HistoryInv
  BY DEF RouteInv, RegistryInv, GhostInv
<1>2. GhostInv' /\ OrphansGone'
  BY <1>1, GhostStep, OrphansGoneStep
<1>3. RegistryInv' /\ GhostFree' /\ TypeOK'
  BY <1>2 DEF RegistryInv, GhostInv, ControllerInv
<1>4. HistoryInv'
  BY <1>1, HistoryStep
<1>5. ListKnown' /\ KnownPublished' /\ ListCurrent'
  BY ListKnownStep, KnownPublishedStep, ListCurrentStep DEF RouteInv
<1>6. NothingMissed'
  BY <1>3, NothingMissedStep
<1>7. QED
  BY <1>3, <1>4, <1>5, <1>6 DEF RouteInv

(* At rest nothing is on its way about any name.                           *)
LEMMA RestConverged == RouteInv => Converged
<1> SUFFICES ASSUME RouteInv, Quiescent, NEW k \in Krakends, Serving(k),
                    NEW n \in Names \ (unguarded \cup reverted)
             PROVE  Published(n, k) = Wanted(n)
  BY DEF Converged
<1>1. TypeOK /\ NothingMissed
  BY PolicyTypes DEF RouteInv, HistoryInv
<1>2. Len(epsLog) = 1 /\ Stored(epsLog) = epsLog[1] /\ queue = {} /\ pc = "idle"
  BY <1>1, SnapshotTypes DEF Quiescent
<1>3. Still(n)
  BY <1>2 DEF Still
<1>4. Part(Stored(cmLog)[k].data, n) = Ask(Stored(epsLog)[n])
  BY <1>1, <1>2, <1>3 DEF NothingMissed, PrePublish
<1>5. QED
  BY <1>4, PartMeans

(* Whenever the queue is empty, the worker idle and the cache up to date,  *)
(* the gateway serves exactly the routes the stored ApiEndpoints ask for:  *)
(* the hash in the status (controller, lines 113-115 and 174) skips no     *)
(* reconcile that was still needed, and no stale list, conflict, failed    *)
(* call or restart loses an update (lines 117-181 and 286-330).  For any   *)
(* names, specs and bounds, if the namespace has one Krakend; excused are  *)
(* the names deleted before they had their finalizer and those given a     *)
(* spec they had carried before.                                           *)
THEOREM RoutesConverge ==
  ASSUME NEW K, Krakends = {K}
  PROVE  Spec => []Converged
<1>1. RouteInv /\ [Next]_vars => RouteInv'
  BY RouteStep
<1>2. QED
  BY <1>1, RestConverged, RouteInit, PTL DEF Spec

-----------------------------------------------------------------------------
(* What a ConfigMap holds changes only when Reconcile publishes its list   *)
(* or the garbage collector takes it away.                                 *)
LEMMA DataStep ==
  ASSUME ControllerInv, [Next]_vars, NEW k \in Krakends
  PROVE  \/ Stored(cmLog)'[k].data \in {Stored(cmLog)[k].data, {}}
         \/ pc = "updateConfigMap" /\ Stored(cmLog)'[k].data = cm.data
<1>0. /\ cmLog \in Seq([Krakends -> ConfigMap]) /\ cmLog # <<>>
      /\ Stored(cmLog) \in [Krakends -> ConfigMap] /\ cm \in ConfigMap
  BY SnapshotTypes DEF ControllerInv, TypeOK
<1>1. ASSUME NEW l \in Krakends, NEW obj \in ConfigMap, cmLog' = Put(cmLog, l, obj)
      PROVE  Stored(cmLog)'[k] = IF k = l THEN obj ELSE Stored(cmLog)[k]
  <2>1. Stored(Put(cmLog, l, obj)) = [Stored(cmLog) EXCEPT ![l] = obj]
    BY <1>0, PutConfigMap
  <2>2. QED
    BY <1>0, <1>1, <2>1 DEF Stored
<1>2. CASE cmLog' = cmLog \/ (Len(cmLog) > 1 /\ cmLog' = Deliver(cmLog)) \/ cmLog' = Relist(cmLog)
  <2>1. Follows(cmLog', cmLog)
    BY <1>2 DEF Follows
  <2>2. Stored(cmLog') = Stored(cmLog)
    BY <1>0, <2>1, FollowsFacts
  <2>3. QED
    BY <2>2 DEF Stored
<1>3. CASE UpdateConfigMap /\ cmLog' # cmLog
  <2> DEFINE obj == [cm EXCEPT !.rv = @ + 1]
  <2>1. pc = "updateConfigMap" /\ cmLog' = Put(cmLog, krak, obj) /\ krak \in Krakends
    BY <1>3 DEF UpdateConfigMap, ControllerInv, TypeOK, PCs
  <2>2. obj.data = cm.data /\ obj \in ConfigMap
    <3>1. cm.rv + 1 \in Nat
      BY <1>0 DEF ConfigMap
    <3>2. QED
      BY <1>0, <3>1 DEF ConfigMap
  <2> HIDE DEF obj
  <2>3. QED
    BY <1>1, <2>1, <2>2
<1>4. ASSUME NEW l \in Krakends, GcConfigMap(l)
      PROVE  Stored(cmLog)'[k].data \in {Stored(cmLog)[k].data, {}}
  <2> DEFINE o == Stored(cmLog)[l]
             obj == [o EXCEPT !.phase = "absent", !.rv = @ + 1, !.data = {}]
  <2>1. cmLog' = Put(cmLog, l, obj)
    BY <1>4 DEF GcConfigMap
  <2>2. obj \in ConfigMap /\ obj.data = {}
    <3>1. o \in ConfigMap /\ o.rv + 1 \in Nat
      BY <1>0, SMTT(30) DEF ConfigMap
    <3>2. QED
      BY <3>1 DEF ConfigMap
  <2> HIDE DEF obj
  <2>3. QED
    BY <1>1, <2>1, <2>2
<1>5. QED
  BY <1>2, <1>3, <1>4, ConfigMapCalls

(* A spec once carried stays carried, so what was asked for stays so.      *)
LEMMA AskedStep ==
  ASSUME HistoryInv, [Next]_vars, NEW routes \in SUBSET Route, OpenAsked(routes)
  PROVE  OpenAsked(routes)'
<1>1. \A n \in Names : carried[n] \subseteq carried'[n]
  BY CarriedStep
<1>2. SUFFICES ASSUME NEW r \in routes, r.src # None, r.auth = None
               PROVE  \E s \in carried'[r.src] : OwnPart(r) \in Asks(s, s.openEndpoints, TRUE)
  BY DEF OpenAsked
<1>3. r.src \in Names
  BY <1>2, RouteSource
<1>4. PICK s \in carried[r.src] : OwnPart(r) \in Asks(s, s.openEndpoints, TRUE)
  BY <1>2 DEF OpenAsked
<1>5. QED
  BY <1>1, <1>3, <1>4

LEMMA ListAskedStep ==
  ASSUME HistoryInv, ListAsked, [Next]_vars
  PROVE  ListAsked'
<1>0. /\ ControllerInv /\ CarriedSpecs /\ cm \in ConfigMap
      /\ Cached(epsLog) \in [Names -> ApiEndpoints] /\ Cached(epsLog) = epsLog[1]
      /\ 1 \in 1..Len(epsLog)
  BY SnapshotTypes DEF HistoryInv, ControllerInv, TypeOK
<1> SUFFICES ASSUME pc' = "updateConfigMap" PROVE OpenAsked(cm.data)'
  BY DEF ListAsked
<1>1. CASE UNCHANGED workVars
  <2>1. pc = "updateConfigMap" /\ cm' = cm /\ cm.data \in SUBSET Route
    BY <1>0, <1>1 DEF workVars, ConfigMap
  <2>2. QED
    BY <2>1, AskedStep DEF ListAsked, OpenAsked
<1>2. CASE ListEndpoints
  <2>1. /\ pc = "list" /\ carried' = carried
        /\ \A n \in Names : Part(cm'.data, n) = Ask(Cached(epsLog)[n])
        /\ cm'.data = ToKrakendEndpoints(krakCopy.spec, LiveSpecs(Cached(epsLog)))
    BY <1>0, <1>2, ListedFacts
  <2>2. krakCopy.spec \in KSpecs
    BY <1>0, <2>1 DEF ControllerInv, TypeOK, PCs, Krakend
  <2>3. SUFFICES ASSUME NEW r \in cm'.data, r.src # None, r.auth = None
                 PROVE  \E s \in carried[r.src] : OwnPart(r) \in Asks(s, s.openEndpoints, TRUE)
    BY <2>1 DEF OpenAsked
  <2> DEFINE s == Cached(epsLog)[r.src].spec
  <2>4. r.src \in Names /\ Cached(epsLog)[r.src].phase = "live"
    BY <1>0, <2>1, <2>2, <2>3, RoutesFacts
  <2>5. s \in carried[r.src]
    BY <1>0, <2>4 DEF CarriedSpecs
  <2>6. OwnPart(r) \in Ask(Cached(epsLog)[r.src])
    BY <2>1, <2>3, <2>4 DEF Part
  <2>7. OwnPart(r) \in Asks(s, s.endpoints, FALSE) \cup Asks(s, s.openEndpoints, TRUE)
    BY <2>4, <2>6 DEF Ask
  <2>8. OwnPart(r) \notin Asks(s, s.endpoints, FALSE)
    BY <2>3 DEF OwnPart, Asks
  <2>9. QED
    BY <2>5, <2>7, <2>8
<1>3. QED
  BY <1>1, <1>2, WorkStep

LEMMA AuthenticatedStep ==
  ASSUME HistoryInv, ListAsked, Authenticated, [Next]_vars
  PROVE  Authenticated'
<1>0. /\ ControllerInv /\ cm.data \in SUBSET Route
      /\ \A k \in Krakends : Stored(cmLog)[k].data \in SUBSET Route
  BY SnapshotTypes DEF HistoryInv, ControllerInv, TypeOK, ConfigMap
<1>1. SUFFICES ASSUME NEW k \in Krakends PROVE OpenAsked(Stored(cmLog)[k].data)'
  BY DEF Authenticated, OpenAsked
<1>2. OpenAsked(Stored(cmLog)[k].data)
  BY DEF Authenticated, OpenAsked
<1>3. CASE Stored(cmLog)'[k].data = {}
  BY <1>3 DEF OpenAsked
<1>4. CASE Stored(cmLog)'[k].data = Stored(cmLog)[k].data
  <2> DEFINE routes == Stored(cmLog)[k].data
  <2>1. PICK old : old = routes
    OBVIOUS
  <2>2. old \in SUBSET Route /\ OpenAsked(old) /\ Stored(cmLog)'[k].data = old
    BY <1>0, <1>2, <1>4, <2>1
  <2>3. QED
    BY <2>2, AskedStep DEF OpenAsked
<1>5. CASE pc = "updateConfigMap" /\ Stored(cmLog)'[k].data = cm.data
  BY <1>0, <1>5, AskedStep DEF ListAsked, OpenAsked
<1>6. QED
  BY <1>0, <1>3, <1>4, <1>5, DataStep

(* No route is ever published without a validator unless a spec its        *)
(* ApiEndpoints has carried lists it as open: an auth provider that is     *)
(* changed, removed or read from an old copy of the Krakend makes the      *)
(* conversion fail and never opens a route (parser, lines 74-78 and 149;   *)
(* controller, lines 302 and 313).  For any number of Krakends.            *)
THEOREM OpenOnlyIfAsked == Spec => []Authenticated
<1> DEFINE AskedInv == HistoryInv /\ ListAsked /\ Authenticated
<1>1. Init => AskedInv
  <2> SUFFICES ASSUME Init PROVE AskedInv
    OBVIOUS
  <2>1. HistoryInv /\ ListAsked
    BY RouteInit DEF RouteInv, Init, ListAsked
  <2>2. \A k \in Krakends : Stored(cmLog)[k].data \in {{}, {ChartRoute}}
    BY DEF Init, Stored, NoConfigMap
  <2>3. Authenticated
    BY <2>2 DEF Authenticated, ChartRoute
  <2>4. QED
    BY <2>1, <2>3
<1>2. AskedInv /\ [Next]_vars => AskedInv'
  BY HistoryStep, ListAskedStep, AuthenticatedStep
<1>3. AskedInv => Authenticated
  OBVIOUS
<1>4. QED
  BY <1>1, <1>2, <1>3, PTL DEF Spec
=============================================================================
