--------------------------- MODULE MigrationProofs ---------------------------
(***************************************************************************)
(* The proof that the migration tool, run at any moment, writes the routes *)
(* the gateway serves for the ApiEndpoints that are synchronized: those    *)
(* have the owner reference the tool goes by, and their routes are out.    *)
(***************************************************************************)
EXTENDS RouteProofs, Migration

(* Only objects with a finalizer stay while they are deleted.              *)
DeletingHeld ==
  /\ \A i \in 1..Len(epsLog) : \A n \in Names :
       epsLog[i][n].phase = "deleting" => epsLog[i][n].finalizer
  /\ pc # "idle" /\ local.phase = "deleting" => local.finalizer

(* An owner reference names the stored Krakend's incarnation.              *)
OwnersKnown ==
  \A n \in Names : LET o == Stored(epsLog)[n].owner
                   IN  o # None => o[2] = Stored(krLog)[o[1]].uid

(* An object keeps its owner while it exists.                              *)
OwnerStays ==
  \A n \in Names : \A i \in 1..Len(epsLog) :
    /\ epsLog[i][n].owner # None
    /\ \A m \in 1..Len(epsLog) : i <= m => epsLog[m][n].phase # "absent"
    => Stored(epsLog)[n].owner # None

(* The status is written only after the owner.                             *)
SyncedOwned ==
  \A n \in Names \ reverted :
    Synced(n) \/ (Working(n) /\ pc \in {"refetchStatus", "updateStatus"}) =>
      Stored(epsLog)[n].owner # None

(* Without policies Reconcile ends with an error, which requeues the name, *)
(* or with a write, which does: a name that nothing is on its way about    *)
(* has no work left.                                                       *)
NoPolicies == pc # "ensureNetpol"

Rests ==
  \A n \in Names : Still(n) /\ ~(pc # "idle" /\ req = n) =>
    Stored(epsLog)[n].phase = "absent" \/ Synced(n)

(* Nobody creates a Krakend here, so that Reconcile's copy is of the       *)
(* incarnation that is stored.                                             *)
CopyCurrent == krak # None => krakCopy.uid = Stored(krLog)[krak].uid

MigrationInv == /\ RouteInv /\ CopyCurrent
                /\ DeletingHeld /\ OwnersKnown /\ OwnerStays /\ SyncedOwned
                /\ NetpolEnabled = FALSE => NoPolicies /\ Rests

-----------------------------------------------------------------------------
(* What a write, whoever makes it, does to finalizer and owner: the owner  *)
(* is set once, to the Krakend Reconcile has a copy of.                    *)
Kept(e, obj) ==
  /\ obj.phase = "deleting" => obj.finalizer = TRUE \/ (e.phase = "deleting" /\ e.finalizer # TRUE)
  /\ \/ obj.owner \in {None, e.owner}
     \/ /\ e.owner = None /\ obj.owner = <<krak, krakCopy.uid>>
        /\ pc = "addFinalizer" /\ UNCHANGED <<krLog, cmLog, krak, krakCopy>>
  /\ e.phase # "absent" /\ obj.phase # "absent" /\ e.owner # None => obj.owner = e.owner

LEMMA KeptStep ==
  ASSUME ControllerInv, [Next]_vars
  PROVE  \/ Follows(epsLog', epsLog)
         \/ \E n \in Names : \E obj \in ApiEndpoints :
              epsLog' = Put(epsLog, n, obj) /\ Kept(Stored(epsLog)[n], obj)
<1> DEFINE Goal == \/ Follows(epsLog', epsLog)
                   \/ \E n \in Names : \E obj \in ApiEndpoints :
                        epsLog' = Put(epsLog, n, obj) /\ Kept(Stored(epsLog)[n], obj)
<1>0. AdmissionTypeOK /\ Stored(epsLog) \in [Names -> ApiEndpoints]
  BY SnapshotTypes DEF ControllerInv, AdmissionInv
<1>1. ASSUME UNCHANGED epsLog PROVE Goal
  BY <1>1 DEF Follows
<1>2. ASSUME NEW w \in inflight, Commit(w) PROVE Goal
  <2> DEFINE e == Stored(epsLog)[w.name]
             obj == IF e.phase = "absent" THEN NewEndpoints(e, w.spec)
                    ELSE [e EXCEPT !.spec = w.spec, !.rv = @ + 1]
  <2>1. w.name \in Names /\ w.spec \in ESpecs /\ e \in ApiEndpoints
    BY <1>0 DEF AdmissionTypeOK, Request
  <2>2. obj \in ApiEndpoints
    BY <2>1, ObjectTypes
  <2>3. Kept(e, obj)
    BY <2>1 DEF Kept, NewEndpoints, ApiEndpoints
  <2>4. epsLog' = epsLog \/ epsLog' = Put(epsLog, w.name, obj)
    BY <1>2 DEF Commit
  <2>5. QED
    <3> HIDE DEF obj
    <3> QED BY <1>1, <2>1, <2>2, <2>3, <2>4
<1>3. ASSUME NEW n \in Names, DeleteEndpoints(n) PROVE Goal
  <2> DEFINE e == Stored(epsLog)[n]
             obj == DeletedEndpoints(e)
  <2>1. e \in ApiEndpoints /\ e.phase = "live" /\ epsLog' = Put(epsLog, n, obj)
    BY <1>0, <1>3 DEF DeleteEndpoints
  <2>2. e.spec \in ESpecs
    BY <2>1 DEF ApiEndpoints
  <2>3. obj \in ApiEndpoints
    BY <2>1, <2>2, ObjectTypes
  <2>4. Kept(e, obj)
    BY <2>1 DEF Kept, DeletedEndpoints, GoneEndpoints, ApiEndpoints
  <2>5. QED
    <3> HIDE DEF obj
    <3> QED BY <2>1, <2>3, <2>4
<1>4. ASSUME pc \in {"addFinalizer", "updateStatus", "removeFinalizer"}, UpToDate(local)
      PROVE  /\ req \in Names /\ local \in ApiEndpoints /\ local.spec \in ESpecs
             /\ local = Stored(epsLog)[req] /\ local.phase # "absent"
  <2>1. req \in Names /\ local = Stored(epsLog)[req] /\ local.phase # "absent"
    BY <1>4, UpToDateMeans DEF UpToDate, ControllerInv, TypeOK
  <2>2. QED
    BY <1>0, <2>1 DEF ApiEndpoints
<1>5. ASSUME AddFinalizer PROVE Goal
  <2> DEFINE o == IF local.owner = None THEN <<krak, krakCopy.uid>> ELSE local.owner
             obj == [local EXCEPT !.finalizer = TRUE, !.owner = o, !.hash = local.hash, !.rv = @ + 1]
  <2>0. CASE UNCHANGED epsLog
    BY <1>1, <2>0
  <2>1. CASE UpToDate(local) /\ pc' = "refetchStatus"
    <3>1. /\ pc = "addFinalizer" /\ krak \in Krakends /\ krakCopy.uid \in Nat
          /\ UNCHANGED <<krLog, cmLog, krak, krakCopy>>
      BY <1>5, <2>1 DEF AddFinalizer, Fail, Return, ControllerInv, TypeOK, PCs, Krakend
    <3>2. /\ req \in Names /\ local \in ApiEndpoints /\ local = Stored(epsLog)[req]
          /\ local.phase # "absent"
      BY <1>4, <2>1, <3>1
    <3>3. epsLog' = Put(epsLog, req, obj)
      BY <1>5, <2>1, <3>2 DEF AddFinalizer, Write, Fail, Return, ApiEndpoints
    <3>4. o \in (Krakends \X Nat) \cup {None}
      BY <3>1, <3>2 DEF ApiEndpoints
    <3>5. obj \in ApiEndpoints
      <4>1. local.hash \in {hashEndpoints(s) : s \in ESpecs} \cup {None}
        BY <3>2 DEF ApiEndpoints
      <4>2. QED
        BY <3>2, <3>4, <4>1, WriteType
    <3>6. obj.phase = local.phase /\ obj.finalizer = TRUE /\ obj.owner = o
      BY <3>2 DEF ApiEndpoints
    <3> HIDE DEF obj
    <3>7. Kept(local, obj)
      BY <3>1, <3>6 DEF Kept
    <3>8. QED
      BY <3>2, <3>3, <3>5, <3>7
  <2>2. QED
    BY <1>5, <2>0, <2>1 DEF AddFinalizer
<1>6. ASSUME UpdateStatus PROVE Goal
  <2> DEFINE obj == [local EXCEPT !.finalizer = local.finalizer, !.owner = local.owner,
                               !.hash = hash, !.rv = @ + 1]
  <2>0. CASE UNCHANGED epsLog
    BY <1>1, <2>0
  <2>1. CASE UpToDate(local) /\ Write([local EXCEPT !.hash = hash])
    <3>2. /\ req \in Names /\ local \in ApiEndpoints /\ local = Stored(epsLog)[req]
          /\ local.phase # "absent"
      BY <1>4, <1>6, <2>1 DEF UpdateStatus
    <3>3. epsLog' = Put(epsLog, req, obj)
      BY <2>1, <3>2 DEF Write, ApiEndpoints
    <3>5. obj \in ApiEndpoints
      <4>1. hash \in {hashEndpoints(s) : s \in ESpecs} \cup {None}
        BY DEF ControllerInv, TypeOK
      <4>2. local.owner \in (Krakends \X Nat) \cup {None} /\ local.finalizer \in BOOLEAN
        BY <3>2 DEF ApiEndpoints
      <4>3. QED
        BY <3>2, <4>1, <4>2, WriteType
    <3>6. obj.phase = local.phase /\ obj.finalizer = local.finalizer /\ obj.owner = local.owner
      BY <3>2 DEF ApiEndpoints
    <3> HIDE DEF obj
    <3>7. Kept(local, obj)
      BY <3>2, <3>6 DEF Kept, ApiEndpoints
    <3>8. QED
      BY <3>2, <3>3, <3>5, <3>7
  <2>2. QED
    BY <1>6, <2>0, <2>1 DEF UpdateStatus
<1>7. ASSUME RemoveFinalizer PROVE Goal
  <2> DEFINE obj == GoneEndpoints(local.rv + 1, local.uid)
  <2>0. CASE UNCHANGED epsLog
    BY <1>1, <2>0
  <2>1. CASE UpToDate(local) /\ epsLog' = Put(epsLog, req, obj)
    <3>1. req \in Names /\ local \in ApiEndpoints /\ local.spec \in ESpecs
      BY <1>4, <1>7, <2>1 DEF RemoveFinalizer
    <3>2. obj \in ApiEndpoints
      BY <3>1, ObjectTypes
    <3>3. Kept(Stored(epsLog)[req], obj)
      BY DEF Kept, GoneEndpoints
    <3>4. QED
      <4> HIDE DEF obj
      <4> QED BY <2>1, <3>1, <3>2, <3>3
  <2>2. QED
    BY <1>7, <2>0, <2>1 DEF RemoveFinalizer
<1>8. ASSUME ObserveEndpoints \/ Restart PROVE Goal
  BY <1>8 DEF ObserveEndpoints, Restart, DeliverEndpoints, RelistCaches, Follows
<1>9. ASSUME Environment
      PROVE  \/ UNCHANGED epsLog \/ ObserveEndpoints \/ Restart
             \/ \E w \in inflight : Commit(w)
             \/ \E n \in Names : DeleteEndpoints(n)
  BY <1>9 DEF Environment, UserStep, UserApply, UserDelete, GcEndpoints, KrakendApply,
              KrakendDelete, DeliverKrakends, Fault, Resync, ObserveKrakends,
              ObserveConfigMaps, ObserveNetpols, GcConfigMap, GcNetpol, admissionVars
<1>10. ASSUME Reconcile
       PROVE  UNCHANGED epsLog \/ AddFinalizer \/ UpdateStatus \/ RemoveFinalizer
  BY <1>10 DEF Reconcile, GetKrakend, GetConfigMap, ListEndpoints, UpdateConfigMap, EnsureNetpol,
               Refetch, AdmitFinalizer, clusterVars, admissionVars
<1>11. ASSUME NEW n \in Names, NEW outside \in BOOLEAN, Start(n, outside) PROVE UNCHANGED epsLog
  BY <1>11 DEF Start
<1>12. UNCHANGED vars => UNCHANGED epsLog
  BY DEF vars, clusterVars, admissionVars
<1>13. QED
  <2> HIDE DEF Goal
  <2>1. Goal
    BY <1>1, <1>2, <1>3, <1>5, <1>6, <1>7, <1>8, <1>9, <1>10, <1>11, <1>12 DEF Next
  <2>2. QED
    BY <2>1 DEF Goal

(* An object that stays keeps its owner.                                   *)
LEMMA OwnerKept ==
  ASSUME ControllerInv, [Next]_vars, NEW n \in Names, Stored(epsLog)[n].owner # None,
         Stored(epsLog)[n].phase # "absent", Stored(epsLog)'[n].phase # "absent"
  PROVE  Stored(epsLog)'[n].owner = Stored(epsLog)[n].owner
<1>0. epsLog \in Seq([Names -> ApiEndpoints]) /\ epsLog # <<>>
      /\ Stored(epsLog) \in [Names -> ApiEndpoints]
  BY PolicyTypes
<1>1. CASE Follows(epsLog', epsLog)
  <2>1. Stored(epsLog') = Stored(epsLog)
    BY <1>0, <1>1, FollowsFacts
  <2>2. QED
    BY <2>1 DEF Stored
<1>2. ASSUME NEW m \in Names, NEW obj \in ApiEndpoints, epsLog' = Put(epsLog, m, obj),
             Kept(Stored(epsLog)[m], obj)
      PROVE  Stored(epsLog)'[n].owner = Stored(epsLog)[n].owner
  <2>1. Stored(epsLog)' = [Stored(epsLog) EXCEPT ![m] = obj]
    BY <1>2, PutLogFacts
  <2>2. QED
    BY <1>0, <1>2, <2>1 DEF Kept
<1>3. QED
  BY <1>1, <1>2, KeptStep

-----------------------------------------------------------------------------
(* Reconcile's copy is one of the cache.                                   *)
LEMMA CopyStep ==
  ASSUME [Next]_vars, pc' # "idle"
  PROVE  \/ pc # "idle" /\ local' = local
         \/ req' \in Names /\ local' = Cached(epsLog)[req'] /\ UNCHANGED epsLog
         \/ pc # "idle" /\ req' = req /\ local' = Cached(epsLog)[req] /\ UNCHANGED epsLog
<1> DEFINE Goal == \/ pc # "idle" /\ local' = local
                   \/ req' \in Names /\ local' = Cached(epsLog)[req'] /\ UNCHANGED epsLog
                   \/ pc # "idle" /\ req' = req /\ local' = Cached(epsLog)[req] /\ UNCHANGED epsLog
<1>1. ASSUME NEW n \in Names, NEW outside \in BOOLEAN, Start(n, outside) PROVE Goal
  BY <1>1 DEF Start, workVars
<1>2. ASSUME Fail \/ Done \/ Return PROVE FALSE
  BY <1>2 DEF Fail, Done, Return
<1>3. ASSUME Reconcile PROVE Goal
  <2>1. ASSUME NEW app \in apps, EnsureNetpol(app) PROVE Goal
    BY <1>2, <2>1 DEF EnsureNetpol
  <2>2. ASSUME Refetch PROVE Goal
    BY <1>2, <2>2 DEF Refetch, clusterVars, admissionVars
  <2>3. ASSUME \/ GetKrakend \/ GetConfigMap \/ ListEndpoints \/ UpdateConfigMap
               \/ AdmitFinalizer \/ AddFinalizer \/ UpdateStatus \/ RemoveFinalizer
        PROVE  Goal
    BY <1>2, <2>3 DEF GetKrakend, GetConfigMap, ListEndpoints, UpdateConfigMap,
                      AdmitFinalizer, AddFinalizer, UpdateStatus, RemoveFinalizer
  <2>4. QED
    BY <1>3, <2>1, <2>2, <2>3 DEF Reconcile
<1>4. ASSUME UNCHANGED workVars PROVE Goal
  BY <1>4 DEF workVars
<1>5. ASSUME Environment PROVE UNCHANGED workVars
  <2>1. ~Fault /\ ~Restart
    BY <1>2 DEF Fault, Restart
  <2>2. QED
    BY <1>5, <2>1 DEF Environment, Resync, ObserveEndpoints, ObserveKrakends, ObserveConfigMaps,
                      ObserveNetpols, GcConfigMap, GcNetpol
<1>6. QED
  BY <1>1, <1>3, <1>4, <1>5 DEF Next, vars

LEMMA DeletingHeldStep ==
  ASSUME ControllerInv, DeletingHeld, [Next]_vars
  PROVE  DeletingHeld'
<1>0. /\ epsLog \in Seq([Names -> ApiEndpoints]) /\ epsLog # <<>> /\ Len(epsLog) \in Nat \ {0}
      /\ Stored(epsLog) \in [Names -> ApiEndpoints] /\ Stored(epsLog) = epsLog[Len(epsLog)]
      /\ Cached(epsLog) = epsLog[1] /\ 1 \in 1..Len(epsLog) /\ Len(epsLog) \in 1..Len(epsLog)
      /\ pc # "idle" => req \in Names
  BY SnapshotTypes DEF ControllerInv, TypeOK
<1>1. \A i \in 1..Len(epsLog') : \A n \in Names :
        epsLog'[i][n].phase = "deleting" => epsLog'[i][n].finalizer
  <2>1. CASE Follows(epsLog', epsLog)
    <3>1. \A i \in 1..Len(epsLog') : \E j \in 1..Len(epsLog) : epsLog'[i] = epsLog[j]
      BY <1>0, <2>1, FollowsFacts
    <3>2. QED
      BY <3>1 DEF DeletingHeld
  <2>2. ASSUME NEW m \in Names, NEW obj \in ApiEndpoints, epsLog' = Put(epsLog, m, obj),
               Kept(Stored(epsLog)[m], obj),
               NEW i \in 1..Len(epsLog'), NEW n \in Names, epsLog'[i][n].phase = "deleting"
        PROVE  epsLog'[i][n].finalizer
    <3>1. /\ Stored(epsLog)' = [Stored(epsLog) EXCEPT ![m] = obj]
          /\ Len(epsLog') = Len(epsLog) + 1
          /\ \A j \in 1..Len(epsLog) : epsLog'[j] = epsLog[j]
          /\ epsLog'[Len(epsLog) + 1] = Stored(epsLog)'
      BY <2>2, PutLogFacts
    <3>2. CASE i \in 1..Len(epsLog)
      BY <2>2, <3>1, <3>2 DEF DeletingHeld
    <3>3. CASE i = Len(epsLog) + 1 /\ n # m
      BY <1>0, <2>2, <3>1, <3>3 DEF DeletingHeld
    <3>4. CASE i = Len(epsLog) + 1 /\ n = m
      <4>1. epsLog'[i][n] = obj
        BY <1>0, <3>1, <3>4
      <4>2. Stored(epsLog)[m].phase = "deleting" => Stored(epsLog)[m].finalizer
        BY <1>0 DEF DeletingHeld
      <4>3. obj.finalizer = TRUE
        BY <1>0, <2>2, <4>1, <4>2 DEF Kept, ApiEndpoints
      <4>4. QED
        BY <4>1, <4>3
    <3>5. QED
      BY <1>0, <3>1, <3>2, <3>3, <3>4
  <2>3. QED
    BY <2>1, <2>2, KeptStep
<1>2. ASSUME pc' # "idle", local'.phase = "deleting" PROVE local'.finalizer
  BY <1>0, <1>2, CopyStep DEF DeletingHeld
<1>3. QED
  BY <1>1, <1>2 DEF DeletingHeld

(* Reconcile's copy of the Krakend is one of the cache.                    *)
LEMMA KrakendCopyStep ==
  ASSUME [Next]_vars
  PROVE  \/ krak' = None
         \/ UNCHANGED <<krak, krakCopy>>
         \/ /\ pc = "getKrakend" /\ pc' = "getConfigMap"
            /\ krak' = krakendName(local.spec) /\ krakCopy' = Cached(krLog)[krak']
            /\ UNCHANGED <<clusterVars, queue, req, local, hash, cm, apps>>
<1> DEFINE Goal == \/ krak' = None
                   \/ UNCHANGED <<krak, krakCopy>>
                   \/ /\ pc = "getKrakend" /\ pc' = "getConfigMap"
                      /\ krak' = krakendName(local.spec) /\ krakCopy' = Cached(krLog)[krak']
                      /\ UNCHANGED <<clusterVars, queue, req, local, hash, cm, apps>>
<1>1. ASSUME Fail \/ Done \/ Return \/ UNCHANGED workVars PROVE Goal
  BY <1>1 DEF Fail, Done, Return, workVars
<1>2. ASSUME NEW n \in Names, NEW outside \in BOOLEAN, Start(n, outside) PROVE Goal
  BY <1>2 DEF Start, workVars
<1>3. ASSUME GetKrakend PROVE Goal
  BY <1>1, <1>3 DEF GetKrakend
<1>4. ASSUME \/ GetConfigMap \/ ListEndpoints \/ UpdateConfigMap \/ Refetch
             \/ AdmitFinalizer \/ AddFinalizer \/ UpdateStatus \/ RemoveFinalizer
      PROVE  Goal
  BY <1>1, <1>4 DEF GetConfigMap, ListEndpoints, UpdateConfigMap, Refetch,
                    AdmitFinalizer, AddFinalizer, UpdateStatus, RemoveFinalizer
<1>5. ASSUME NEW app \in apps, EnsureNetpol(app) PROVE Goal
  BY <1>1, <1>5 DEF EnsureNetpol
<1>6. ASSUME Environment PROVE Goal
  BY <1>1, <1>6 DEF Environment, Fault, Restart, Resync, ObserveEndpoints, ObserveKrakends,
                    ObserveConfigMaps, ObserveNetpols, GcConfigMap, GcNetpol
<1>7. QED
  <2> HIDE DEF Goal
  <2>1. Goal
    BY <1>1, <1>2, <1>3, <1>4, <1>5, <1>6 DEF Next, Reconcile, vars
  <2>2. QED
    BY <2>1 DEF Goal

LEMMA CopyCurrentStep ==
  ASSUME ControllerInv, KrakendsLeave, CopyCurrent, [Next]_vars
  PROVE  CopyCurrent'
<1> SUFFICES ASSUME krak' # None PROVE krakCopy'.uid = Stored(krLog)'[krak'].uid
  BY DEF CopyCurrent
<1>1. \A k \in Krakends : Stored(krLog)'[k].uid = Stored(krLog)[k].uid
  BY RefinementStep, StoredKrakendStep DEF ControllerInv, AdmissionInv
<1>2. CASE UNCHANGED <<krak, krakCopy>>
  BY <1>1, <1>2 DEF CopyCurrent, ControllerInv, TypeOK
<1>3. CASE /\ pc = "getKrakend" /\ krak' = krakendName(local.spec)
           /\ krakCopy' = Cached(krLog)[krak']
  <2>1. krak' \in Krakends
    <3>1. local.spec \in ESpecs
      BY <1>3, PolicyTypes
    <3>2. QED
      BY <1>3, <3>1, ClusterAssumption
  <2>2. /\ 1 \in 1..Len(krLog) /\ Len(krLog) \in 1..Len(krLog) /\ 1 <= Len(krLog)
        /\ Cached(krLog) = krLog[1] /\ Stored(krLog) = krLog[Len(krLog)]
    BY LogFacts DEF ControllerInv, AdmissionInv, AdmissionTypeOK, Stored, Cached
  <2>3. Cached(krLog)[krak'].uid = Stored(krLog)[krak'].uid
    BY <2>1, <2>2 DEF KrakendsLeave
  <2>4. QED
    BY <1>1, <1>3, <2>1, <2>3
<1>4. QED
  BY <1>2, <1>3, KrakendCopyStep

LEMMA OwnersKnownStep ==
  ASSUME ControllerInv, CopyCurrent, OwnersKnown, [Next]_vars
  PROVE  OwnersKnown'
<1>0. /\ epsLog \in Seq([Names -> ApiEndpoints]) /\ epsLog # <<>>
      /\ Stored(epsLog) \in [Names -> ApiEndpoints]
      /\ \A k \in Krakends : Stored(krLog)'[k].uid = Stored(krLog)[k].uid
  BY PolicyTypes, RefinementStep, StoredKrakendStep DEF ControllerInv, AdmissionInv
<1>1. ASSUME NEW o, o \in (Krakends \X Nat) \cup {None}, o # None => o[2] = Stored(krLog)[o[1]].uid
      PROVE  o # None => o[2] = Stored(krLog)'[o[1]].uid
  BY <1>0, <1>1
<1>2. \A n \in Names : Stored(epsLog)[n].owner \in (Krakends \X Nat) \cup {None}
  BY <1>0 DEF ApiEndpoints
<1>3. CASE Follows(epsLog', epsLog)
  <2>1. Stored(epsLog') = Stored(epsLog)
    BY <1>0, <1>3, FollowsFacts
  <2>2. Stored(epsLog)' = Stored(epsLog)
    BY <2>1 DEF Stored
  <2>3. QED
    BY <1>1, <1>2, <2>2 DEF OwnersKnown
<1>4. ASSUME NEW m \in Names, NEW obj \in ApiEndpoints, epsLog' = Put(epsLog, m, obj),
             Kept(Stored(epsLog)[m], obj)
      PROVE  OwnersKnown'
  <2>1. Stored(epsLog)' = [Stored(epsLog) EXCEPT ![m] = obj]
    BY <1>4, PutLogFacts
  <2>2. obj.owner \in (Krakends \X Nat) \cup {None}
    BY DEF ApiEndpoints
  <2>3. obj.owner # None => obj.owner[2] = Stored(krLog)[obj.owner[1]].uid
    <3>1. pc = "addFinalizer" => krak # None
      BY DEF ControllerInv, TypeOK, PCs
    <3>2. CASE obj.owner \in {None, Stored(epsLog)[m].owner}
      BY <3>2 DEF OwnersKnown
    <3>3. CASE obj.owner = <<krak, krakCopy.uid>> /\ pc = "addFinalizer"
      BY <3>1, <3>3 DEF CopyCurrent
    <3>4. QED
      BY <1>4, <3>2, <3>3 DEF Kept
  <2>4. ASSUME NEW n \in Names
        PROVE  LET o == Stored(epsLog)'[n].owner IN o # None => o[2] = Stored(krLog)'[o[1]].uid
    <3>1. CASE n = m
      BY <1>0, <1>1, <2>1, <2>2, <2>3, <3>1
    <3>2. CASE n # m
      BY <1>0, <1>1, <1>2, <2>1, <3>2 DEF OwnersKnown
    <3>3. QED
      BY <3>1, <3>2
  <2>5. QED
    BY <2>4 DEF OwnersKnown
<1>5. QED
  BY <1>3, <1>4, KeptStep

LEMMA OwnerStaysStep ==
  ASSUME ControllerInv, OwnerStays, [Next]_vars
  PROVE  OwnerStays'
<1>0. /\ epsLog \in Seq([Names -> ApiEndpoints]) /\ epsLog # <<>> /\ Len(epsLog) \in Nat \ {0}
      /\ Stored(epsLog) \in [Names -> ApiEndpoints] /\ Stored(epsLog) = epsLog[Len(epsLog)]
  BY SnapshotTypes DEF ControllerInv
<1> SUFFICES ASSUME NEW n \in Names, NEW i \in 1..Len(epsLog'), epsLog'[i][n].owner # None,
                    \A m \in 1..Len(epsLog') : i <= m => epsLog'[m][n].phase # "absent"
             PROVE  Stored(epsLog)'[n].owner # None
  BY DEF OwnerStays
<1>1. CASE Follows(epsLog', epsLog)
  <2>1. PICK d \in Nat : /\ d < Len(epsLog) /\ Len(epsLog') = Len(epsLog) - d
                         /\ \A j \in 1..Len(epsLog') :
                              j + d \in 1..Len(epsLog) /\ epsLog'[j] = epsLog[j + d]
    BY <1>0, <1>1, FollowsFacts
  <2>2. Stored(epsLog)' = Stored(epsLog)
    <3>1. Stored(epsLog') = Stored(epsLog)
      BY <1>0, <1>1, FollowsFacts
    <3>2. QED
      BY <3>1 DEF Stored
  <2>3. i + d \in 1..Len(epsLog) /\ epsLog[i + d][n].owner # None
    BY <2>1
  <2>4. ASSUME NEW m \in 1..Len(epsLog), i + d <= m PROVE epsLog[m][n].phase # "absent"
    <3>1. m - d \in 1..Len(epsLog') /\ i <= m - d /\ (m - d) + d = m
      BY <1>0, <2>1, <2>4
    <3>2. QED
      BY <2>1, <3>1
  <2>5. QED
    BY <2>2, <2>3, <2>4 DEF OwnerStays
<1>2. ASSUME NEW k \in Names, NEW obj \in ApiEndpoints, epsLog' = Put(epsLog, k, obj)
      PROVE  Stored(epsLog)'[n].owner # None
  <2>1. /\ Len(epsLog') = Len(epsLog) + 1
        /\ \A j \in 1..Len(epsLog) : epsLog'[j] = epsLog[j]
        /\ epsLog'[Len(epsLog) + 1] = Stored(epsLog)'
    BY <1>2, PutLogFacts
  <2>2. CASE i = Len(epsLog) + 1
    BY <2>1, <2>2
  <2>3. CASE i \in 1..Len(epsLog)
    <3>1. \A m \in 1..Len(epsLog) : i <= m => epsLog[m][n].phase # "absent"
      BY <1>0, <2>1
    <3>2. Stored(epsLog)[n].owner # None
      BY <2>1, <2>3, <3>1 DEF OwnerStays
    <3>3. Stored(epsLog)[n].phase # "absent" /\ Stored(epsLog)'[n].phase # "absent"
      BY <1>0, <2>1, <2>3, <3>1
    <3>4. QED
      BY <3>2, <3>3, OwnerKept
  <2>4. QED
    BY <1>0, <2>1, <2>2, <2>3
<1>3. QED
  BY <1>1, <1>2, KeptStep

-----------------------------------------------------------------------------
(* Reconcile comes to the status from a copy that has an owner, or from    *)
(* the write that gives it one.                                            *)
LEMMA StatusEntry ==
  ASSUME ControllerInv, [Next]_vars,
         pc' \in {"refetchStatus", "updateStatus"}, pc \notin {"refetchStatus", "updateStatus"}
  PROVE  \/ UNCHANGED epsLog /\ Cached(epsLog)[req].owner # None
         \/ Stored(epsLog)'[req].owner # None
<1> DEFINE Goal == \/ UNCHANGED epsLog /\ Cached(epsLog)[req].owner # None
                   \/ Stored(epsLog)'[req].owner # None
<1>1. ASSUME Refetch PROVE Goal
  BY <1>1 DEF Refetch, Fail, Return, clusterVars, admissionVars
<1>2. ASSUME AddFinalizer PROVE Goal
  <2> DEFINE o == IF local.owner = None THEN <<krak, krakCopy.uid>> ELSE local.owner
             obj == [[local EXCEPT !.finalizer = TRUE,
                    !.owner = IF @ = None THEN <<krak, krakCopy.uid>> ELSE @] EXCEPT !.rv = @ + 1]
  <2>1. /\ pc = "addFinalizer" /\ epsLog' = Put(epsLog, req, obj)
        /\ local \in ApiEndpoints /\ req \in Names /\ krak \in Krakends /\ krakCopy \in Krakend
    BY <1>2 DEF AddFinalizer, Write, Fail, Return, ControllerInv, TypeOK, PCs
  <2>2. obj.owner = o /\ <<krak, krakCopy.uid>> \in Krakends \X Nat
    BY <2>1 DEF ApiEndpoints, Krakend
  <2>3. o # None
    BY <2>2, OwnerAssumption
  <2> HIDE DEF o, obj
  <2>4. Stored(epsLog)' = [Stored(epsLog) EXCEPT ![req] = obj]
    BY <2>1, PutLogFacts
  <2>5. QED
    BY <2>1, <2>2, <2>3, <2>4, PolicyTypes
<1>3. ASSUME NEW n \in Names, NEW outside \in BOOLEAN, Start(n, outside) PROVE FALSE
  BY <1>3 DEF Start, workVars
<1>4. ASSUME Fail \/ Done \/ Return \/ UNCHANGED workVars PROVE FALSE
  BY <1>4 DEF Fail, Done, Return, workVars
<1>5. ASSUME \/ GetKrakend \/ GetConfigMap \/ ListEndpoints \/ AdmitFinalizer
             \/ UpdateStatus \/ RemoveFinalizer
      PROVE  FALSE
  BY <1>4, <1>5 DEF GetKrakend, GetConfigMap, ListEndpoints, AdmitFinalizer, UpdateStatus,
                    RemoveFinalizer
<1>6. ASSUME UpdateConfigMap \/ \E app \in apps : EnsureNetpol(app) PROVE FALSE
  BY <1>4, <1>6 DEF UpdateConfigMap, AfterConfigMap, EnsureNetpol
<1>7. ~Environment
  BY <1>4 DEF Environment, Fault, Restart, Resync, ObserveEndpoints, ObserveKrakends,
              ObserveConfigMaps, ObserveNetpols, GcConfigMap, GcNetpol
<1>8. QED
  BY <1>1, <1>2, <1>3, <1>4, <1>5, <1>6, <1>7 DEF Next, Reconcile, vars

LEMMA SyncedOwnedStep ==
  ASSUME HistoryInv, OwnerStays, SyncedOwned, [Next]_vars
  PROVE  SyncedOwned'
<1> DEFINE Late == {"refetchStatus", "updateStatus"}
<1>0. /\ ControllerInv /\ KnownFresh /\ Cached(epsLog) = epsLog[1] /\ 1 \in 1..Len(epsLog)
  BY SnapshotTypes DEF HistoryInv, ControllerInv
<1> SUFFICES ASSUME NEW n \in Names \ reverted', Synced(n)' \/ (Working(n)' /\ pc' \in Late)
             PROVE  Stored(epsLog)'[n].owner # None
  BY DEF SyncedOwned
<1>1. /\ SpecKept(n) /\ n \in Names \ reverted
      /\ Synced(n)' => Synced(n) \/ (Working(n) /\ pc \in Late)
      /\ Working(n)' /\ pc' \in Late => Working(n)
  BY KnownStep DEF Starting
<1>2. Stored(epsLog)[n].phase # "absent" /\ Stored(epsLog)'[n].phase # "absent"
  BY <1>1 DEF SpecKept
<1>3. CASE Synced(n) \/ (Working(n) /\ pc \in Late)
  BY <1>0, <1>1, <1>2, <1>3, OwnerKept DEF SyncedOwned
<1>4. CASE Working(n) /\ pc \notin Late /\ pc' \in Late
  <2>1. req = n
    BY <1>4 DEF Working
  <2>2. CASE UNCHANGED epsLog /\ Cached(epsLog)[req].owner # None
    <3>1. Fresh(n)
      BY <1>0, <1>1, <1>4 DEF KnownFresh
    <3>2. Stored(epsLog)[n].owner # None
      BY <1>0, <2>1, <2>2, <3>1 DEF Fresh, OwnerStays
    <3>3. QED
      BY <1>0, <1>2, <3>2, OwnerKept
  <2>3. QED
    BY <1>0, <1>4, <2>1, <2>2, StatusEntry
<1>5. QED
  BY <1>1, <1>3, <1>4

LEMMA NoPoliciesStep ==
  ASSUME ControllerInv, NoPolicies, NetpolEnabled = FALSE, [Next]_vars
  PROVE  NoPolicies'
<1>1. CASE Goes
  BY <1>1 DEF Goes, NoPolicies, BeforePolicies, AfterPolicies
<1>2. CASE UpdateConfigMap /\ AfterConfigMap
  BY <1>2 DEF AfterConfigMap, NoPolicies
<1>3. ASSUME NEW app \in apps, EnsureNetpol(app) PROVE FALSE
  BY <1>3 DEF EnsureNetpol, NoPolicies
<1>4. QED
  BY <1>1, <1>2, <1>3, GoesStep

-----------------------------------------------------------------------------
(* When Reconcile ends the name is requeued, by the error or, later, by    *)
(* the event of the write; or it has found nothing to remove.              *)
LEMMA EndStep ==
  ASSUME ControllerInv, NoPolicies, [Next]_vars, pc # "idle", pc' = "idle"
  PROVE  \/ Restart
         \/ req \in queue'
         \/ Stored(epsLog)'[req] # Stored(epsLog)[req]
         \/ RemoveFinalizer /\ ~local.finalizer
<1> DEFINE Goal == \/ Restart
                   \/ req \in queue'
                   \/ Stored(epsLog)'[req] # Stored(epsLog)[req]
                   \/ RemoveFinalizer /\ ~local.finalizer
<1>1. ASSUME Fail PROVE Goal
  BY <1>1 DEF Fail
<1>2. ASSUME NEW obj, UpToDate(local), epsLog' = Put(epsLog, req, obj), obj.rv = local.rv + 1
      PROVE  Goal
  <2>1. req \in Names /\ local.rv \in Nat /\ Stored(epsLog)[req].rv = local.rv
    BY <1>2 DEF UpToDate, ControllerInv, TypeOK, ApiEndpoints
  <2>2. Stored(epsLog)' = [Stored(epsLog) EXCEPT ![req] = obj] /\ DOMAIN Stored(epsLog) = Names
    BY <1>2, <2>1, PutLogFacts, PolicyTypes
  <2>3. Stored(epsLog)'[req].rv = local.rv + 1
    BY <1>2, <2>1, <2>2
  <2>4. QED
    BY <2>1, <2>3
<1>3. ASSUME UpdateStatus PROVE Goal
  <2> DEFINE obj == [[local EXCEPT !.hash = hash] EXCEPT !.rv = @ + 1]
  <2>1. Fail \/ (UpToDate(local) /\ epsLog' = Put(epsLog, req, obj))
    BY <1>3 DEF UpdateStatus, Write
  <2>2. obj.rv = local.rv + 1
    BY DEF ControllerInv, TypeOK, ApiEndpoints
  <2> HIDE DEF obj
  <2>3. QED
    BY <1>1, <1>2, <2>1, <2>2
<1>4. ASSUME RemoveFinalizer PROVE Goal
  <2> DEFINE obj == GoneEndpoints(local.rv + 1, local.uid)
  <2>1. Fail \/ (UpToDate(local) /\ epsLog' = Put(epsLog, req, obj)) \/ ~local.finalizer
    BY <1>4 DEF RemoveFinalizer
  <2>2. obj.rv = local.rv + 1
    BY DEF GoneEndpoints
  <2> HIDE DEF obj
  <2>3. QED
    BY <1>1, <1>2, <1>4, <2>1, <2>2
<1>5. ASSUME GetKrakend \/ GetConfigMap \/ ListEndpoints \/ Refetch \/ AdmitFinalizer \/ AddFinalizer
      PROVE  Fail
  BY <1>5 DEF GetKrakend, GetConfigMap, ListEndpoints, Refetch, AdmitFinalizer, AddFinalizer
<1>6. ASSUME UpdateConfigMap PROVE Fail
  BY <1>6 DEF UpdateConfigMap, AfterConfigMap
<1>7. ASSUME NEW app \in apps, EnsureNetpol(app) PROVE FALSE
  BY <1>7 DEF EnsureNetpol, NoPolicies
<1>8. ASSUME NEW n \in Names, NEW outside \in BOOLEAN, Start(n, outside) PROVE FALSE
  BY <1>8 DEF Start
<1>9. ASSUME Environment PROVE Fail \/ Restart
  <2>1. ~UNCHANGED workVars
    BY DEF workVars
  <2>2. ASSUME Fault PROVE Fail
    BY <2>2 DEF Fault, NoPolicies
  <2>3. QED
    BY <1>9, <2>1, <2>2 DEF Environment, Resync, ObserveEndpoints, ObserveKrakends,
                            ObserveConfigMaps, ObserveNetpols, GcConfigMap, GcNetpol
<1>10. ~UNCHANGED vars
  BY DEF vars, workVars
<1>11. QED
  BY <1>1, <1>3, <1>4, <1>5, <1>6, <1>7, <1>8, <1>9, <1>10 DEF Next, Reconcile

LEMMA RestsStep ==
  ASSUME ControllerInv, DeletingHeld, NoPolicies, Rests, [Next]_vars
  PROVE  Rests'
<1>0. /\ epsLog \in Seq([Names -> ApiEndpoints]) /\ epsLog # <<>>
      /\ Cached(epsLog) = epsLog[1] /\ 1 \in 1..Len(epsLog)
  BY SnapshotTypes DEF ControllerInv
<1> SUFFICES ASSUME NEW n \in Names, Still(n)', ~(pc' # "idle" /\ req' = n)
             PROVE  Stored(epsLog)'[n].phase = "absent" \/ Synced(n)'
  BY DEF Rests
<1>1. CASE Restart
  <2>1. Follows(epsLog', epsLog) /\ n \notin queue'
        /\ queue' = {m \in Names : Stored(epsLog)[m].phase # "absent"}
    BY <1>1 DEF Restart, RelistCaches, Follows, Still
  <2>2. Stored(epsLog') = Stored(epsLog)
    BY <1>0, <2>1, FollowsFacts
  <2>3. QED
    BY <2>1, <2>2 DEF Stored
<1>2. ASSUME NEW outside \in BOOLEAN, Start(n, outside)
      PROVE  Stored(epsLog)'[n].phase = "absent" \/ Synced(n)'
  <2>1. /\ epsLog' = epsLog
        /\ \/ Cached(epsLog)[n].phase = "absent"
           \/ /\ Cached(epsLog)[n].phase = "live"
              /\ Cached(epsLog)[n].hash = hashEndpoints(Cached(epsLog)[n].spec)
    BY <1>2 DEF Start
  <2>2. Stored(epsLog)' = Stored(epsLog) /\ Cached(epsLog)[n] = Stored(epsLog)[n]
    BY <1>0, <2>1 DEF Still, Stored
  <2>3. QED
    BY <2>1, <2>2 DEF Synced
<1>3. ASSUME ~Restart, Still(n), Stored(epsLog)'[n] = Stored(epsLog)[n]
      PROVE  Stored(epsLog)'[n].phase = "absent" \/ Synced(n)'
  <2>1. ~(pc # "idle" /\ req = n)
    <3>1. SUFFICES ASSUME pc # "idle", req = n PROVE FALSE
      OBVIOUS
    <3>2. pc' = "idle" /\ n \notin queue'
      BY <3>1, HeldStep DEF Still
    <3>3. RemoveFinalizer /\ ~local.finalizer
      BY <1>3, <3>1, <3>2, EndStep
    <3>4. local.phase = "deleting"
      BY <3>3 DEF RemoveFinalizer, ControllerInv, PathOK
    <3>5. QED
      BY <3>1, <3>3, <3>4 DEF DeletingHeld
  <2>2. Stored(epsLog)[n].phase = "absent" \/ Synced(n)
    BY <1>3, <2>1 DEF Rests
  <2>3. QED
    BY <1>3, <2>2 DEF Synced
<1>4. QED
  BY <1>1, <1>2, <1>3, StillStep

-----------------------------------------------------------------------------
LEMMA MigrationInit == Init => MigrationInv
<1> SUFFICES ASSUME Init PROVE MigrationInv
  OBVIOUS
<1>0. CopyCurrent
  BY DEF Init, CopyCurrent
<1>1. /\ Len(epsLog) = 1 /\ pc = "idle" /\ Stored(epsLog) = epsLog[1]
      /\ \A n \in Names : epsLog[1][n] = GoneEndpoints(0, 0)
  BY DEF Init, AdmissionInit, Stored
<1>2. /\ \A i \in 1..Len(epsLog) : \A n \in Names : epsLog[i][n].phase = "absent"
      /\ \A n \in Names : Stored(epsLog)[n].phase = "absent" /\ Stored(epsLog)[n].owner = None
  BY <1>1 DEF GoneEndpoints
<1>3. DeletingHeld /\ OwnersKnown /\ NoPolicies /\ Rests
  BY <1>1, <1>2 DEF DeletingHeld, OwnersKnown, NoPolicies, Rests
<1>4. OwnerStays
  BY <1>2 DEF OwnerStays
<1>5. SyncedOwned
  BY <1>2 DEF SyncedOwned, Synced, Working
<1>6. QED
  BY <1>0, <1>3, <1>4, <1>5, RouteInit DEF MigrationInv

LEMMA MigrationStep ==
  ASSUME NEW K, Krakends = {K}, MigrationInv, [Next]_vars
  PROVE  MigrationInv'
<1>1. RouteInv /\ HistoryInv /\ ControllerInv /\ KrakendsLeave
  BY DEF MigrationInv, RouteInv, HistoryInv, RegistryInv, GhostInv
<1>2. RouteInv'
  BY <1>1, RouteStep
<1>3. CopyCurrent' /\ DeletingHeld' /\ OwnersKnown' /\ OwnerStays'
  BY <1>1, CopyCurrentStep, DeletingHeldStep, OwnersKnownStep, OwnerStaysStep DEF MigrationInv
<1>4. SyncedOwned'
  BY <1>1, SyncedOwnedStep DEF MigrationInv
<1>5. NetpolEnabled = FALSE => NoPolicies' /\ Rests'
  BY <1>1, NoPoliciesStep, RestsStep DEF MigrationInv
<1>6. QED
  BY <1>2, <1>3, <1>4, <1>5 DEF MigrationInv

(* A synchronized object is owned by the one Krakend, whichever moment     *)
(* that was listed at.                                                     *)
LEMMA SyncedOwner ==
  ASSUME NEW K, Krakends = {K}, MigrationInv, NEW k \in Krakends, NEW i \in 1..Len(krLog),
         NEW n \in Names \ reverted, Synced(n)
  PROVE  Stored(epsLog)[n].owner = <<k, krLog[i][k].uid>>
<1> DEFINE o == Stored(epsLog)[n].owner
<1>1. ControllerInv /\ OwnersKnown /\ SyncedOwned
  BY DEF MigrationInv, RouteInv, HistoryInv
<1>2. o \in Krakends \X Nat
  <2>1. o \in (Krakends \X Nat) \cup {None}
    BY <1>1, PolicyTypes DEF ApiEndpoints
  <2>2. QED
    BY <1>1, <2>1 DEF SyncedOwned
<1>3. o # None
  BY <1>2, OwnerAssumption
<1>4. o[1] = k /\ o[2] = Stored(krLog)[k].uid
  BY <1>1, <1>2, <1>3 DEF OwnersKnown
<1>5. krLog[i][k].uid = Stored(krLog)[k].uid
  <2>1. Len(krLog) \in 1..Len(krLog) /\ Stored(krLog) = krLog[Len(krLog)]
    BY <1>1, LogFacts DEF ControllerInv, AdmissionInv, AdmissionTypeOK, Stored
  <2>2. KrakendsLeave
    BY DEF MigrationInv, RouteInv, RegistryInv, GhostInv
  <2>3. i <= Len(krLog)
    BY <2>1
  <2>4. QED
    BY <2>1, <2>2, <2>3 DEF KrakendsLeave
<1>6. QED
  BY <1>2, <1>4, <1>5

(* What the tool writes for a Krakend it found.                            *)
LEMMA ConvertPart ==
  ASSUME NEW krs, NEW snap \in [Names -> ApiEndpoints], NEW k \in DOMAIN krs, krs[k].phase = "live",
         ConvertKrakends(krs, snap) # None, NEW n \in Names,
         snap[n].phase = "absent" \/ (snap[n].phase = "live" /\ snap[n].owner = <<k, krs[k].uid>>)
  PROVE  Part(ConvertKrakends(krs, snap)[k], n) = Ask(snap[n])
<1> DEFINE items == Owned(k, krs[k], snap)
<1>1. /\ n \in DOMAIN items <=> snap[n].phase = "live"
      /\ n \in DOMAIN items => items[n] = snap[n].spec
  BY DEF Owned
<1>2. /\ Convert(k, krs[k], snap) # None
      /\ ConvertKrakends(krs, snap)[k] = Convert(k, krs[k], snap)
  BY DEF ConvertKrakends
<1>3. /\ Convertible(krs[k].spec, items)
      /\ ConvertKrakends(krs, snap)[k] = ToKrakendEndpoints(krs[k].spec, items)
  BY <1>2 DEF Convert, ToPartialsConfig
<1> HIDE DEF items
<1>4. Part(ToKrakendEndpoints(krs[k].spec, items), n) =
        IF n \in DOMAIN items
        THEN Asks(items[n], items[n].endpoints, FALSE) \cup Asks(items[n], items[n].openEndpoints, TRUE)
        ELSE {}
  BY <1>3, ItemsPart
<1>5. CASE snap[n].phase = "live"
  BY <1>1, <1>3, <1>4, <1>5 DEF Ask
<1>6. CASE snap[n].phase = "absent"
  BY <1>1, <1>3, <1>4, <1>6 DEF Ask
<1>7. QED
  BY <1>5, <1>6

(* At every moment, whatever the controller, its caches and the users are  *)
(* in the middle of, the migrated partials hold the routes the gateway     *)
(* serves for every ApiEndpoints that is synchronized and none for one     *)
(* that is gone, although the tool selects by owner references (app.go,    *)
(* lines 32-39; controller, lines 147-166 before 174), does not leave out  *)
(* objects that are being deleted, and may have listed the Krakends        *)
(* earlier (migration.go, lines 17-26).  Without network policies, at      *)
(* rest, that is every ApiEndpoints; with them one whose policy failed     *)
(* never gets its owner (lines 134-139).  For any names, specs and bounds, *)
(* with and without policies, if the namespace has one Krakend.            *)
THEOREM MigrationKeepsRoutes ==
  ASSUME NEW K, Krakends = {K}
  PROVE  Spec => []MigrationFaithful
<1>1. MigrationInv /\ [Next]_vars => MigrationInv'
  BY MigrationStep
<1>2. MigrationInv => MigrationFaithful
  <2> DEFINE out(i) == ConvertKrakends(krLog[i], Stored(epsLog))
             e(n) == Stored(epsLog)[n]
  <2> SUFFICES ASSUME MigrationInv, NEW i \in DOMAIN krLog, out(i) # None,
                      NEW k \in DOMAIN out(i), Serving(k), NEW n \in Names \ (unguarded \cup reverted),
                      e(n).phase = "absent" \/ InSync(e(n)) \/ (Quiescent /\ ~NetpolEnabled)
               PROVE  Part(out(i)[k], n) = Published(n, k)
    BY DEF MigrationFaithful, Part
  <2>1. RouteInv /\ ControllerInv /\ GhostFree /\ KnownPublished
    BY DEF MigrationInv, RouteInv, HistoryInv, RegistryInv, GhostInv
  <2>2. /\ krLog \in Seq([Krakends -> Krakend]) /\ DOMAIN krLog = 1..Len(krLog)
        /\ Stored(epsLog) \in [Names -> ApiEndpoints]
    BY <2>1, PolicyTypes DEF ControllerInv, AdmissionInv, AdmissionTypeOK
  <2>3. k \in DOMAIN krLog[i] /\ krLog[i][k].phase = "live" /\ k \in Krakends
    BY <2>2 DEF ConvertKrakends
  <2>4. e(n).phase = "absent" \/ Synced(n)
    <3>1. CASE Quiescent /\ ~NetpolEnabled
      <4>1. Rests
        BY <3>1, NetpolAssumption DEF MigrationInv
      <4>2. Len(epsLog) = 1 /\ Stored(epsLog) = epsLog[1] /\ queue = {} /\ pc = "idle"
        BY <2>1, <3>1, SnapshotTypes DEF Quiescent, ControllerInv
      <4>3. Still(n)
        BY <4>2 DEF Still
      <4>4. QED
        BY <4>1, <4>2, <4>3 DEF Rests
    <3>2. QED
      BY <3>1 DEF InSync, Synced
  <2>5. Published(n, k) = Ask(e(n))
    <3>1. CASE e(n).phase = "absent"
      <4>1. \A r \in Stored(cmLog)[k].data : r.src # n
        BY <2>1, <2>3, <3>1, ClusterAssumption DEF GhostFree
      <4>2. QED
        BY <3>1, <4>1 DEF Published, Ask
    <3>2. CASE Synced(n)
      <4>1. Part(Stored(cmLog)[k].data, n) = Ask(e(n))
        BY <2>1, <2>3, <3>2 DEF KnownPublished
      <4>2. QED
        BY <2>3, <4>1, PartMeans
    <3>3. QED
      BY <2>4, <3>1, <3>2
  <2>6. \/ e(n).phase = "absent"
        \/ e(n).phase = "live" /\ e(n).owner = <<k, krLog[i][k].uid>>
    BY <2>2, <2>3, <2>4, SyncedOwner DEF Synced
  <2>7. QED
    BY <2>2, <2>3, <2>5, <2>6, ConvertPart
<1>3. QED
  BY <1>1, <1>2, MigrationInit, PTL DEF Spec
=============================================================================
