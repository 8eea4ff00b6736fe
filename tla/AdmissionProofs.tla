--------------------------- MODULE AdmissionProofs ---------------------------
(***************************************************************************)
(* Proofs about Admission: type correctness, the growth of the logs, and   *)
(* that two ApiEndpoints share a path only if their admissions raced.      *)
(***************************************************************************)
EXTENDS Admission, ClusterProofs

(* Snapshots are ordered by resource version, which identifies the object. *)
VersionsGrow ==
  \A n \in Names : \A i, j \in 1..Len(epsLog) : i <= j =>
    /\ epsLog[i][n].rv <= epsLog[j][n].rv
    /\ epsLog[i][n].rv = epsLog[j][n].rv => epsLog[i][n] = epsLog[j][n]

(* No snapshot shows an incarnation newer than the stored one.             *)
KrakendsAge ==
  \A k \in Krakends : \A i \in 1..Len(krLog) : krLog[i][k].uid <= Stored(krLog)[k].uid

(* Here, where nobody creates one, a Krakend keeps its uid, and once gone  *)
(* it does not come back.                                                  *)
KrakendsLeave ==
  \A k \in Krakends : \A i, j \in 1..Len(krLog) : i <= j =>
    /\ krLog[i][k].uid = krLog[j][k].uid
    /\ krLog[i][k].phase = "absent" => krLog[j][k].phase = "absent"

(* An admitted write that still applies was validated against its view,    *)
(* or is for an object that is being deleted.                              *)
Validated(w) ==
  /\ ~Repeats(w.spec)
  /\ \A m \in Names \ {w.name} : w.view[m] # None =>
       ~Collide(w.spec, w.view[m]) /\ ~Collide(w.view[m], w.spec)

RequestsValid ==
  \A w \in inflight :
    /\ w.rv <= Stored(epsLog)[w.name].rv
    /\ w.rv = Stored(epsLog)[w.name].rv =>
         Stored(epsLog)[w.name].phase = "deleting" \/ Validated(w)

AdmissionInv ==
  /\ AdmissionTypeOK
  /\ VersionsGrow
  /\ KrakendsAge
  /\ RequestsValid
  /\ DuplicateOnlyByRace

-----------------------------------------------------------------------------
(* The objects the API server builds have their type.                      *)
LEMMA ObjectTypes ==
  ASSUME NEW e \in ApiEndpoints, NEW s \in ESpecs
  PROVE  /\ NewEndpoints(e, s) \in ApiEndpoints
         /\ e.phase = "live" => DeletedEndpoints(e) \in ApiEndpoints
         /\ GoneEndpoints(e.rv + 1, e.uid) \in ApiEndpoints
         /\ [e EXCEPT !.spec = s, !.rv = @ + 1] \in ApiEndpoints
<1> USE ClusterAssumption DEF ApiEndpoints, Phase
<1>1. e.rv + 1 \in Nat /\ e.uid \in Nat /\ e.uid + 1 \in Nat
  OBVIOUS
<1>2. GoneEndpoints(e.rv + 1, e.uid) \in ApiEndpoints
  BY <1>1 DEF GoneEndpoints
<1>3. NewEndpoints(e, s) \in ApiEndpoints
  BY <1>1 DEF NewEndpoints
<1>4. ASSUME e.phase = "live" PROVE DeletedEndpoints(e) \in ApiEndpoints
  <2>1. [e EXCEPT !.phase = "deleting", !.rv = @ + 1] \in ApiEndpoints
    BY <1>1, <1>4
  <2>2. QED
    BY <1>2, <2>1 DEF DeletedEndpoints
<1>5. [e EXCEPT !.spec = s, !.rv = @ + 1] \in ApiEndpoints
  BY <1>1
<1>6. QED
  BY <1>2, <1>3, <1>4, <1>5

(* What the controller may write keeps the type.                           *)
LEMMA WriteType ==
  ASSUME NEW e \in ApiEndpoints, NEW f \in BOOLEAN, e.phase # "absent",
         NEW o \in (Krakends \X Nat) \cup {None},
         NEW h \in {hashEndpoints(s) : s \in ESpecs} \cup {None}
  PROVE  [e EXCEPT !.finalizer = f, !.owner = o, !.hash = h, !.rv = @ + 1] \in ApiEndpoints
<1>1. e.rv + 1 \in Nat
  BY DEF ApiEndpoints
<1>2. QED
  BY <1>1 DEF ApiEndpoints

LEMMA KrakendType ==
  ASSUME NEW o \in Krakend, NEW s \in KSpecs
  PROVE  /\ o.phase = "live" => [o EXCEPT !.spec = s, !.rv = @ + 1] \in Krakend
         /\ GoneKrakend(o) \in Krakend
<1>1. o.rv + 1 \in Nat
  BY DEF Krakend
<1>2. QED
  BY <1>1, ClusterAssumption DEF Krakend, GoneKrakend

LEMMA IncarnationsType ==
  ASSUME Stored(krLog) \in [Krakends -> Krakend]
  PROVE  Incarnations \subseteq Krakends \X Nat
<1>1. \A k \in Krakends : Stored(krLog)[k].uid \in Nat
  BY DEF Krakend
<1>2. QED
  BY <1>1 DEF Incarnations

(* The log lemmas for the logs of this module.                             *)
LEMMA PutEndpoints ==
  ASSUME epsLog \in Seq([Names -> ApiEndpoints]), epsLog # <<>>,
         NEW n \in Names, NEW obj \in ApiEndpoints
  PROVE  LET new == Put(epsLog, n, obj)
         IN  /\ new \in Seq([Names -> ApiEndpoints]) /\ new # <<>>
             /\ Len(new) = Len(epsLog) + 1
             /\ \A i \in 1..Len(epsLog) : new[i] = epsLog[i]
             /\ new[Len(epsLog) + 1] = [Stored(epsLog) EXCEPT ![n] = obj]
             /\ Stored(new) = [Stored(epsLog) EXCEPT ![n] = obj]
             /\ Cached(new) = Cached(epsLog)
  BY DEF Put, Stored, Cached

LEMMA PutKrakend ==
  ASSUME krLog \in Seq([Krakends -> Krakend]), krLog # <<>>,
         NEW k \in Krakends, NEW obj \in Krakend
  PROVE  LET new == Put(krLog, k, obj)
         IN  /\ new \in Seq([Krakends -> Krakend]) /\ new # <<>>
             /\ Len(new) = Len(krLog) + 1
             /\ \A i \in 1..Len(krLog) : new[i] = krLog[i]
             /\ new[Len(krLog) + 1] = [Stored(krLog) EXCEPT ![k] = obj]
             /\ Stored(new) = [Stored(krLog) EXCEPT ![k] = obj]
             /\ Cached(new) = Cached(krLog)
  BY DEF Put, Stored, Cached

LEMMA AdmissionInitType == AdmissionInit => AdmissionTypeOK
<1> SUFFICES ASSUME AdmissionInit PROVE AdmissionTypeOK
  OBVIOUS
<1>1. GoneEndpoints(0, 0) \in ApiEndpoints
  BY DEF ApiEndpoints, GoneEndpoints, Phase
<1>2. epsLog \in Seq([Names -> ApiEndpoints]) /\ epsLog # <<>>
  BY <1>1 DEF AdmissionInit
<1>3. krLog \in Seq([Krakends -> Krakend]) /\ krLog # <<>>
  <2>1. PICK ks \in [Krakends -> KSpecs \cup {None}] :
          krLog = <<[k \in Krakends |->
                      [phase |-> IF ks[k] = None THEN "absent" ELSE "live",
                       rv |-> 1, uid |-> 1, spec |-> ks[k], hash |-> ks[k]]]>>
    BY DEF AdmissionInit
  <2>2. \A k \in Krakends : [phase |-> IF ks[k] = None THEN "absent" ELSE "live",
                             rv |-> 1, uid |-> 1, spec |-> ks[k], hash |-> ks[k]] \in Krakend
    BY <2>1 DEF Krakend
  <2>3. QED
    BY <2>1, <2>2
<1>4. QED
  BY <1>2, <1>3 DEF AdmissionInit, AdmissionTypeOK, BoundKinds

LEMMA SpendType ==
  ASSUME used \in [BoundKinds -> Nat], NEW kind \in BoundKinds, Spend(kind)
  PROVE  used' \in [BoundKinds -> Nat]
  BY DEF Spend

LEMMA AdmissionStepType ==
  ASSUME AdmissionTypeOK, [AdmissionNext]_admissionVars
  PROVE  AdmissionTypeOK'
<1> USE DEF AdmissionTypeOK
<1>0. Stored(epsLog) \in [Names -> ApiEndpoints] /\ Cached(epsLog) \in [Names -> ApiEndpoints]
      /\ Stored(krLog) \in [Krakends -> Krakend]
  BY LogFacts
<1>1. ASSUME NEW n \in Names, NEW s \in ESpecs, UserApply(n, s) PROVE AdmissionTypeOK'
  <2>1. Others(Cached(epsLog), n) \in [Names -> ESpecs \cup {None}]
    BY <1>0 DEF Others, ApiEndpoints
  <2>2. Stored(epsLog)[n].rv \in Nat
    BY <1>0 DEF ApiEndpoints
  <2>3. QED
    BY <1>1, <2>1, <2>2, SpendType, SMTT(30) DEF UserApply, Request, history, BoundKinds
<1>2. ASSUME NEW w \in inflight, Commit(w) PROVE AdmissionTypeOK'
  <2> DEFINE e == Stored(epsLog)[w.name]
             obj == IF e.phase = "absent" THEN NewEndpoints(e, w.spec)
                    ELSE [e EXCEPT !.spec = w.spec, !.rv = @ + 1]
  <2>1. w \in Request
    OBVIOUS
  <2>2. w.name \in Names /\ w.spec \in ESpecs
    BY <2>1 DEF Request
  <2>3. obj \in ApiEndpoints
    BY <1>0, <2>2, ObjectTypes
  <2>4. Put(epsLog, w.name, obj) \in Seq([Names -> ApiEndpoints])
        /\ Put(epsLog, w.name, obj) # <<>>
    <3> HIDE DEF obj
    <3> QED BY <2>2, <2>3, PutEndpoints
  <2>5. CASE w.rv # e.rv
    BY <1>2, <2>5 DEF Commit, history
  <2>6. CASE w.rv = e.rv
    <3>1. /\ epsLog' = Put(epsLog, w.name, obj)
          /\ inflight' = inflight \ {w}
          /\ unguarded' = unguarded \ {w.name}
          /\ unseen' = [unseen EXCEPT ![w.name] =
                 {m \in Names \ {w.name} : w.view[m] # Others(Stored(epsLog), w.name)[m]}]
          /\ carried' = [carried EXCEPT ![w.name] = @ \cup {w.spec}]
          /\ reverted' = IF w.spec \in carried[w.name] THEN reverted \cup {w.name} ELSE reverted
          /\ UNCHANGED <<krLog, used>>
      BY <1>2, <2>6 DEF Commit
    <3>2. unseen' \in [Names -> SUBSET Names]
      BY <3>1, <2>2
    <3>3. carried' \in [Names -> SUBSET ESpecs]
      BY <3>1, <2>2
    <3>4. reverted' \subseteq Names
      BY <3>1, <2>2
    <3>5. QED
      BY <3>1, <3>2, <3>3, <3>4, <2>4
  <2>7. QED
    BY <2>5, <2>6
<1>3. ASSUME NEW n \in Names, DeleteEndpoints(n), used' \in [BoundKinds -> Nat]
      PROVE AdmissionTypeOK'
  <2>1. Stored(epsLog)[n].phase = "live"
    BY <1>3 DEF DeleteEndpoints
  <2>2. DeletedEndpoints(Stored(epsLog)[n]) \in ApiEndpoints
    <3>1. Stored(epsLog)[n] \in ApiEndpoints
      BY <1>0
    <3>2. Stored(epsLog)[n].spec \in ESpecs
      BY <3>1, <2>1 DEF ApiEndpoints
    <3>3. QED
      BY <3>1, <3>2, <2>1, ObjectTypes
  <2>3. QED
    BY <1>3, <2>2, PutEndpoints DEF DeleteEndpoints
<1>4. ASSUME NEW n \in Names, UserDelete(n) PROVE AdmissionTypeOK'
  BY <1>3, <1>4, SpendType DEF UserDelete, BoundKinds
<1>5. ASSUME NEW n \in Names, GcEndpoints(n) PROVE AdmissionTypeOK'
  BY <1>3, <1>5 DEF GcEndpoints
<1>6. ASSUME NEW k \in Krakends, NEW s \in KSpecs, KrakendApply(k, s) PROVE AdmissionTypeOK'
  <2>1. [Stored(krLog)[k] EXCEPT !.spec = s, !.rv = @ + 1] \in Krakend
    <3>1. Stored(krLog)[k] \in Krakend
      BY <1>0
    <3>2. QED
      BY <3>1, <1>6, KrakendType DEF KrakendApply
  <2>2. QED
    BY <1>6, <2>1, PutKrakend, SpendType DEF KrakendApply, history, BoundKinds
<1>7. ASSUME NEW k \in Krakends, KrakendDelete(k) PROVE AdmissionTypeOK'
  <2>1. GoneKrakend(Stored(krLog)[k]) \in Krakend
    BY <1>0 DEF Krakend, GoneKrakend
  <2>2. QED
    BY <1>7, <2>1, PutKrakend, SpendType DEF KrakendDelete, history, BoundKinds
<1>8. CASE DeliverEndpoints
  BY <1>8, DeliverFacts DEF DeliverEndpoints, history
<1>9. CASE DeliverKrakends
  BY <1>9, DeliverFacts DEF DeliverKrakends, history
<1>10. CASE RelistCaches
  BY <1>10, RelistFacts, SpendType DEF RelistCaches, history, BoundKinds
<1>11. ASSUME NEW n \in Names, ControllerWrites(n) PROVE AdmissionTypeOK'
  <2> DEFINE e == Stored(epsLog)[n]
  <2>1. CASE e.phase = "deleting" /\ epsLog' = Put(epsLog, n, GoneEndpoints(e.rv + 1, e.uid))
    <3>1. e.spec \in ESpecs
      BY <1>0, <2>1 DEF ApiEndpoints
    <3>2. GoneEndpoints(e.rv + 1, e.uid) \in ApiEndpoints
      BY <1>0, <3>1, ObjectTypes
    <3>3. QED
      BY <1>11, <2>1, <3>2, PutEndpoints DEF ControllerWrites, history
  <2>2. CASE e.phase # "absent" /\ \E f \in {TRUE, e.finalizer},
                  o \in {e.owner} \cup Incarnations,
                  h \in {e.hash} \cup {hashEndpoints(s) : s \in ESpecs} :
                 epsLog' = Put(epsLog, n, [e EXCEPT !.finalizer = f, !.owner = o,
                                                    !.hash = h, !.rv = @ + 1])
    <3>1. PICK f \in {TRUE, e.finalizer},
                  o \in {e.owner} \cup Incarnations,
                  h \in {e.hash} \cup {hashEndpoints(s) : s \in ESpecs} :
                 epsLog' = Put(epsLog, n, [e EXCEPT !.finalizer = f, !.owner = o,
                                                    !.hash = h, !.rv = @ + 1])
      BY <2>2
    <3>2. o \in (Krakends \X Nat) \cup {None}
      BY <1>0, IncarnationsType DEF ApiEndpoints
    <3>3. [e EXCEPT !.finalizer = f, !.owner = o, !.hash = h, !.rv = @ + 1] \in ApiEndpoints
      <4>1. e \in ApiEndpoints /\ f \in BOOLEAN
        BY <1>0 DEF ApiEndpoints
      <4>2. h \in {hashEndpoints(s) : s \in ESpecs} \cup {None}
        BY <4>1 DEF ApiEndpoints
      <4>3. QED
        BY <4>1, <4>2, <3>2, <2>2, WriteType
    <3>4. QED
      BY <1>11, <3>1, <3>3, PutEndpoints DEF ControllerWrites, history
  <2>3. QED
    BY <1>11, <2>1, <2>2 DEF ControllerWrites
<1>12. ASSUME NEW kind \in {"fault", "resync", "gc"}, Spend(kind),
              UNCHANGED <<epsLog, krLog, inflight, history>> PROVE AdmissionTypeOK'
  BY <1>12, SpendType DEF history, BoundKinds
<1>13. CASE UNCHANGED admissionVars
  BY <1>13 DEF admissionVars, history
<1>14. QED
  BY <1>1, <1>2, <1>4, <1>5, <1>6, <1>7, <1>8, <1>9, <1>10, <1>11, <1>12, <1>13
  DEF AdmissionNext, UserStep

(* Type correctness of the webhook's model.                                *)
THEOREM AdmissionTypeCorrect == AdmissionSpec => []AdmissionTypeOK
<1>1. AdmissionTypeOK /\ [AdmissionNext]_admissionVars => AdmissionTypeOK'
  BY AdmissionStepType
<1>2. QED
  BY AdmissionInitType, <1>1, PTL DEF AdmissionSpec

-----------------------------------------------------------------------------
(* Every write to an ApiEndpoints increases its resource version by one.   *)
LEMMA EndpointsLogStep ==
  ASSUME AdmissionTypeOK, [AdmissionNext]_admissionVars
  PROVE  \/ UNCHANGED epsLog
         \/ \E n \in Names, obj \in ApiEndpoints :
              obj.rv = Stored(epsLog)[n].rv + 1 /\ epsLog' = Put(epsLog, n, obj)
         \/ Len(epsLog) > 1 /\ epsLog' = Deliver(epsLog)
         \/ epsLog' = Relist(epsLog)
<1> DEFINE Goal ==
       \/ UNCHANGED epsLog
       \/ \E n \in Names, obj \in ApiEndpoints :
            obj.rv = Stored(epsLog)[n].rv + 1 /\ epsLog' = Put(epsLog, n, obj)
       \/ Len(epsLog) > 1 /\ epsLog' = Deliver(epsLog)
       \/ epsLog' = Relist(epsLog)
<1>0. Stored(epsLog) \in [Names -> ApiEndpoints] /\ Stored(krLog) \in [Krakends -> Krakend]
  BY LogFacts DEF AdmissionTypeOK
<1>1. ASSUME NEW n \in Names, NEW s \in ESpecs, UserApply(n, s) PROVE Goal
  BY <1>1 DEF UserApply
<1>2. ASSUME NEW w \in inflight, Commit(w) PROVE Goal
  <2> DEFINE e == Stored(epsLog)[w.name]
             obj == IF e.phase = "absent" THEN NewEndpoints(e, w.spec)
                    ELSE [e EXCEPT !.spec = w.spec, !.rv = @ + 1]
  <2>1. w.name \in Names /\ w.spec \in ESpecs
    BY DEF AdmissionTypeOK, Request
  <2>2. e \in ApiEndpoints
    BY <1>0, <2>1
  <2>3. obj \in ApiEndpoints
    BY <2>1, <2>2, ObjectTypes
  <2>4. obj.rv = e.rv + 1
    BY <2>2 DEF NewEndpoints, ApiEndpoints
  <2>5. epsLog' = epsLog \/ epsLog' = Put(epsLog, w.name, obj)
    BY <1>2 DEF Commit
  <2>6. QED
    <3> HIDE DEF obj
    <3> QED BY <2>1, <2>3, <2>4, <2>5
<1>3. ASSUME NEW n \in Names, DeleteEndpoints(n) PROVE Goal
  <2>1. Stored(epsLog)[n] \in ApiEndpoints /\ Stored(epsLog)[n].phase = "live"
    BY <1>0, <1>3 DEF DeleteEndpoints
  <2>2. Stored(epsLog)[n].spec \in ESpecs
    BY <2>1 DEF ApiEndpoints
  <2>3. DeletedEndpoints(Stored(epsLog)[n]) \in ApiEndpoints
    BY <2>1, <2>2, ObjectTypes
  <2>4. DeletedEndpoints(Stored(epsLog)[n]).rv = Stored(epsLog)[n].rv + 1
    BY <2>1 DEF DeletedEndpoints, GoneEndpoints, ApiEndpoints
  <2>5. QED
    BY <1>3, <2>3, <2>4 DEF DeleteEndpoints
<1>4. ASSUME NEW n \in Names, UserDelete(n) \/ GcEndpoints(n) PROVE Goal
  BY <1>3, <1>4 DEF UserDelete, GcEndpoints
<1>5. ASSUME NEW k \in Krakends, NEW s \in KSpecs, KrakendApply(k, s) \/ KrakendDelete(k)
      PROVE Goal
  BY <1>5 DEF KrakendApply, KrakendDelete
<1>6. ASSUME NEW k \in Krakends, KrakendDelete(k) PROVE Goal
  BY <1>6 DEF KrakendDelete
<1>7. CASE DeliverEndpoints \/ DeliverKrakends \/ RelistCaches
  BY <1>7 DEF DeliverEndpoints, DeliverKrakends, RelistCaches
<1>8. ASSUME NEW n \in Names, ControllerWrites(n) PROVE Goal
  <2> DEFINE e == Stored(epsLog)[n]
  <2>0. e \in ApiEndpoints
    BY <1>0
  <2>1. CASE e.phase = "deleting" /\ epsLog' = Put(epsLog, n, GoneEndpoints(e.rv + 1, e.uid))
    <3>1. e.spec \in ESpecs
      BY <2>0, <2>1 DEF ApiEndpoints
    <3>2. GoneEndpoints(e.rv + 1, e.uid) \in ApiEndpoints
      BY <2>0, <3>1, ObjectTypes
    <3>3. QED
      BY <2>1, <3>2 DEF GoneEndpoints
  <2>2. ASSUME NEW f \in {TRUE, e.finalizer},
               NEW o \in {e.owner} \cup Incarnations,
               NEW h \in {e.hash} \cup {hashEndpoints(s) : s \in ESpecs},
               e.phase # "absent",
               epsLog' = Put(epsLog, n, [e EXCEPT !.finalizer = f, !.owner = o,
                                                  !.hash = h, !.rv = @ + 1])
        PROVE Goal
    <3> DEFINE obj == [e EXCEPT !.finalizer = f, !.owner = o, !.hash = h, !.rv = @ + 1]
    <3>1. o \in (Krakends \X Nat) \cup {None}
      BY <1>0, <2>0, IncarnationsType DEF ApiEndpoints
    <3>2. f \in BOOLEAN /\ h \in {hashEndpoints(s) : s \in ESpecs} \cup {None}
      BY <2>0 DEF ApiEndpoints
    <3>3. obj \in ApiEndpoints
      BY <2>0, <2>2, <3>1, <3>2, WriteType
    <3>4. obj.rv = e.rv + 1
      BY <2>0 DEF ApiEndpoints
    <3>5. epsLog' = Put(epsLog, n, obj)
      BY <2>2
    <3>6. QED
      <4> HIDE DEF obj
      <4> QED BY <3>3, <3>4, <3>5
  <2>3. QED
    BY <1>8, <2>1, <2>2 DEF ControllerWrites
<1>9. CASE UNCHANGED <<epsLog, krLog, inflight, history>>
  BY <1>9
<1>10. CASE UNCHANGED admissionVars
  BY <1>10 DEF admissionVars
<1>11. QED
  BY <1>1, <1>2, <1>4, <1>5, <1>6, <1>7, <1>8, <1>9, <1>10 DEF AdmissionNext, UserStep

LEMMA VersionsGrowStep ==
  ASSUME AdmissionTypeOK, VersionsGrow, [AdmissionNext]_admissionVars
  PROVE  VersionsGrow'
<1>0. epsLog \in Seq([Names -> ApiEndpoints]) /\ epsLog # <<>>
  BY DEF AdmissionTypeOK
<1>1. /\ Len(epsLog) \in Nat \ {0}
      /\ \A i \in 1..Len(epsLog), n \in Names : epsLog[i][n].rv \in Nat
      /\ Stored(epsLog) = epsLog[Len(epsLog)]
      /\ Stored(epsLog) \in [Names -> ApiEndpoints]
  BY <1>0, LogFacts DEF ApiEndpoints, Stored
<1>2. CASE UNCHANGED epsLog
  BY <1>2 DEF VersionsGrow
<1>3. ASSUME NEW n \in Names, NEW obj \in ApiEndpoints,
             obj.rv = Stored(epsLog)[n].rv + 1, epsLog' = Put(epsLog, n, obj)
      PROVE VersionsGrow'
  <2> SUFFICES ASSUME NEW m \in Names, NEW i \in 1..Len(epsLog'), NEW j \in 1..Len(epsLog'),
                      i <= j
               PROVE  /\ epsLog'[i][m].rv <= epsLog'[j][m].rv
                      /\ epsLog'[i][m].rv = epsLog'[j][m].rv => epsLog'[i][m] = epsLog'[j][m]
    BY DEF VersionsGrow
  <2>1. /\ Len(epsLog') = Len(epsLog) + 1
        /\ \A x \in 1..Len(epsLog) : epsLog'[x] = epsLog[x]
        /\ epsLog'[Len(epsLog) + 1] = [Stored(epsLog) EXCEPT ![n] = obj]
    BY <1>0, <1>3, PutEndpoints
  <2>2. CASE j \in 1..Len(epsLog)
    BY <1>1, <2>1, <2>2 DEF VersionsGrow
  <2>3. CASE i = Len(epsLog) + 1
    <3>1. i = j
      BY <1>1, <2>1, <2>3
    <3>2. epsLog'[i][m].rv \in Nat
      BY <1>1, <2>1, <2>3 DEF ApiEndpoints
    <3>3. QED
      BY <3>1, <3>2
  <2>4. CASE i \in 1..Len(epsLog) /\ j = Len(epsLog) + 1
    <3>1. /\ epsLog[i][m].rv <= Stored(epsLog)[m].rv
          /\ epsLog[i][m].rv = Stored(epsLog)[m].rv => epsLog[i][m] = Stored(epsLog)[m]
      BY <1>1, <2>4 DEF VersionsGrow
    <3>2. epsLog[i][m].rv \in Nat /\ Stored(epsLog)[m].rv \in Nat
      BY <1>1, <2>4
    <3>3. CASE m = n
      BY <1>1, <1>3, <2>1, <2>4, <3>1, <3>2, <3>3, SMTT(30)
    <3>4. CASE m # n
      BY <1>1, <2>1, <2>4, <3>1, <3>2, <3>4
    <3>5. QED
      BY <3>3, <3>4
  <2>5. QED
    BY <1>1, <2>1, <2>2, <2>3, <2>4
<1>4. CASE Len(epsLog) > 1 /\ epsLog' = Deliver(epsLog)
  <2>1. /\ Len(epsLog') = Len(epsLog) - 1
        /\ \A i \in 1..(Len(epsLog) - 1) : epsLog'[i] = epsLog[i + 1]
    BY <1>0, <1>4 DEF Deliver
  <2> SUFFICES ASSUME NEW m \in Names, NEW i \in 1..Len(epsLog'), NEW j \in 1..Len(epsLog'),
                      i <= j
               PROVE  /\ epsLog'[i][m].rv <= epsLog'[j][m].rv
                      /\ epsLog'[i][m].rv = epsLog'[j][m].rv => epsLog'[i][m] = epsLog'[j][m]
    BY DEF VersionsGrow
  <2>2. i + 1 \in 1..Len(epsLog) /\ j + 1 \in 1..Len(epsLog) /\ i + 1 <= j + 1
    BY <1>1, <2>1
  <2>3. epsLog'[i] = epsLog[i + 1] /\ epsLog'[j] = epsLog[j + 1]
    BY <1>1, <2>1
  <2>4. QED
    BY <2>2, <2>3 DEF VersionsGrow
<1>5. CASE epsLog' = Relist(epsLog)
  <2>1. Len(epsLog') = 1 /\ epsLog'[1] = Stored(epsLog)
    BY <1>0, <1>5, RelistFacts
  <2>2. \A i, j \in 1..Len(epsLog') : i = 1 /\ j = 1
    BY <2>1
  <2>3. \A n \in Names : Stored(epsLog)[n].rv \in Nat
    BY <1>1
  <2>4. QED
    BY <2>1, <2>2, <2>3 DEF VersionsGrow
<1>6. QED
  BY <1>2, <1>3, <1>4, <1>5, EndpointsLogStep

-----------------------------------------------------------------------------
(* What a step does to the stored ApiEndpoints.                            *)
LEMMA StoredStep ==
  ASSUME AdmissionTypeOK, [AdmissionNext]_admissionVars
  PROVE  \/ Stored(epsLog)' = Stored(epsLog)
         \/ \E n \in Names, obj \in ApiEndpoints :
              /\ obj.rv = Stored(epsLog)[n].rv + 1
              /\ Stored(epsLog)' = [Stored(epsLog) EXCEPT ![n] = obj]
<1>0. epsLog \in Seq([Names -> ApiEndpoints]) /\ epsLog # <<>>
  BY DEF AdmissionTypeOK
<1>1. CASE UNCHANGED epsLog
  BY <1>1 DEF Stored
<1>2. ASSUME NEW n \in Names, NEW obj \in ApiEndpoints,
             obj.rv = Stored(epsLog)[n].rv + 1, epsLog' = Put(epsLog, n, obj)
      PROVE  Stored(epsLog)' = [Stored(epsLog) EXCEPT ![n] = obj]
  <2>1. Stored(Put(epsLog, n, obj)) = [Stored(epsLog) EXCEPT ![n] = obj]
    BY <1>0, PutEndpoints
  <2>2. QED
    BY <1>2, <2>1 DEF Stored
<1>3. CASE Len(epsLog) > 1 /\ epsLog' = Deliver(epsLog)
  BY <1>0, <1>3 DEF Deliver, Stored
<1>4. CASE epsLog' = Relist(epsLog)
  BY <1>0, <1>4 DEF Relist, Stored
<1>5. QED
  BY <1>1, <1>2, <1>3, <1>4, EndpointsLogStep

(* A write the webhook admits was validated against the specs it listed.   *)
LEMMA ValidateMeans ==
  ASSUME NEW n \in Names, NEW s \in ESpecs, Cached(epsLog) \in [Names -> ApiEndpoints],
         validate(n, s), NEW w, w.name = n, w.spec = s, w.view = Others(Cached(epsLog), n)
  PROVE  Validated(w)
<1> DEFINE items == LiveSpecs(Cached(epsLog))
           merged == [m \in DOMAIN items \cup {n} |-> IF m = n THEN s ELSE items[m]]
<1>1. uniquePaths(merged)
  BY DEF validate, validateEndpointsList
<1>2. DOMAIN items = {m \in Names : Cached(epsLog)[m].phase = "live"}
  BY DEF LiveSpecs
<1>3. n \in DOMAIN merged /\ merged[n] = s
  OBVIOUS
<1>4. ~Repeats(s)
  BY <1>1, <1>3 DEF uniquePaths
<1>5. ASSUME NEW m \in Names \ {n}, w.view[m] # None
      PROVE  ~Collide(s, w.view[m]) /\ ~Collide(w.view[m], s)
  <2>1. Cached(epsLog)[m].phase = "live" /\ w.view[m] = Cached(epsLog)[m].spec
    BY <1>5 DEF Others
  <2>2. m \in DOMAIN merged /\ merged[m] = w.view[m]
    BY <1>2, <2>1 DEF LiveSpecs
  <2>3. QED
    <3> HIDE DEF merged
    <3> QED BY <1>1, <1>3, <1>5, <2>2 DEF uniquePaths
<1>6. QED
  BY <1>4, <1>5 DEF Validated

LEMMA RequestsValidStep ==
  ASSUME AdmissionTypeOK, RequestsValid, [AdmissionNext]_admissionVars
  PROVE  RequestsValid'
<1> DEFINE st == Stored(epsLog)
<1>0. st \in [Names -> ApiEndpoints] /\ Cached(epsLog) \in [Names -> ApiEndpoints]
  BY LogFacts DEF AdmissionTypeOK
<1>1. \A n \in Names : st[n].rv \in Nat
  BY <1>0 DEF ApiEndpoints
<1>2. \A w \in inflight : w.name \in Names /\ w.rv \in Nat
  BY DEF AdmissionTypeOK, Request
<1>3. ASSUME inflight' \subseteq inflight PROVE RequestsValid'
  <2> SUFFICES ASSUME NEW w \in inflight'
               PROVE  /\ w.rv <= Stored(epsLog)'[w.name].rv
                      /\ w.rv = Stored(epsLog)'[w.name].rv =>
                           Stored(epsLog)'[w.name].phase = "deleting" \/ Validated(w)
    BY DEF RequestsValid, Validated
  <2>1. /\ w \in inflight
        /\ w.rv <= st[w.name].rv
        /\ w.rv = st[w.name].rv => st[w.name].phase = "deleting" \/ Validated(w)
    BY <1>3 DEF RequestsValid
  <2>2. CASE Stored(epsLog)' = st
    BY <2>1, <2>2
  <2>3. ASSUME NEW n \in Names, NEW obj \in ApiEndpoints, obj.rv = st[n].rv + 1,
               Stored(epsLog)' = [st EXCEPT ![n] = obj]
        PROVE  /\ w.rv <= Stored(epsLog)'[w.name].rv
               /\ w.rv = Stored(epsLog)'[w.name].rv =>
                    Stored(epsLog)'[w.name].phase = "deleting" \/ Validated(w)
    <3> HIDE DEF st
    <3>1. CASE w.name = n
      <4>1. Stored(epsLog)'[w.name].rv = st[n].rv + 1
        BY <1>0, <2>3, <3>1
      <4>2. QED
        BY <1>1, <1>2, <2>1, <3>1, <4>1
    <3>2. CASE w.name # n
      <4>1. Stored(epsLog)'[w.name] = st[w.name]
        BY <1>0, <1>2, <2>1, <2>3, <3>2
      <4>2. QED
        BY <2>1, <4>1
    <3>3. QED
      BY <3>1, <3>2
  <2>4. QED
    BY <2>2, <2>3, StoredStep
<1>4. ASSUME NEW n \in Names, NEW s \in ESpecs, UserApply(n, s) PROVE RequestsValid'
  <2> DEFINE new == [name |-> n, spec |-> s, rv |-> st[n].rv, view |-> Others(Cached(epsLog), n)]
  <2>1. inflight' = inflight \cup {new} /\ epsLog' = epsLog /\ Handle(n, st[n], s)
    BY <1>4 DEF UserApply
  <2>2. st[n].phase = "deleting" \/ Validated(new)
    <3>1. ASSUME validate(n, s) PROVE Validated(new)
      BY <1>0, <3>1, ValidateMeans
    <3>2. QED
      BY <2>1, <3>1 DEF Handle
  <2>3. new.name = n /\ new.rv = st[n].rv
    OBVIOUS
  <2>4. Stored(epsLog)' = st
    BY <2>1 DEF Stored
  <2> HIDE DEF new, st
  <2>5. QED
    BY <1>1, <2>1, <2>2, <2>3, <2>4 DEF RequestsValid, Validated
<1>5. inflight' \subseteq inflight \/ \E n \in Names, s \in ESpecs : UserApply(n, s)
  BY DEF AdmissionNext, UserStep, Commit, UserDelete, GcEndpoints, DeleteEndpoints, KrakendApply,
         KrakendDelete, DeliverEndpoints, DeliverKrakends, RelistCaches, ControllerWrites,
         admissionVars
<1>6. QED
  BY <1>3, <1>4, <1>5

-----------------------------------------------------------------------------
(* DuplicateOnlyByRace, said of the stored objects themselves.             *)
Raced(snap, seen) ==
  \A n \in Names : snap[n].phase = "live" =>
    /\ ~Repeats(snap[n].spec)
    /\ \A m \in Names \ {n} :
         snap[m].phase = "live" /\ Collide(snap[n].spec, snap[m].spec)
           => m \in seen[n] \/ n \in seen[m]

LEMMA RacedForm ==
  ASSUME NEW snap \in [Names -> ApiEndpoints], NEW seen \in [Names -> SUBSET Names]
  PROVE  (LET live == LiveSpecs(snap)
          IN  \A n \in DOMAIN live :
                /\ ~Repeats(live[n])
                /\ \A m \in DOMAIN live \ {n} :
                     Collide(live[n], live[m]) => m \in seen[n] \/ n \in seen[m])
         <=> Raced(snap, seen)
<1>1. DOMAIN snap = Names
  OBVIOUS
<1>2. DOMAIN LiveSpecs(snap) = {m \in Names : snap[m].phase = "live"}
  BY <1>1 DEF LiveSpecs
<1>3. \A m \in Names : snap[m].phase = "live" => LiveSpecs(snap)[m] = snap[m].spec
  BY <1>1 DEF LiveSpecs
<1>4. QED
  BY <1>2, <1>3 DEF Raced

(* Only a stored write makes an object live or changes a live spec.        *)
LEMMA LiveStep ==
  ASSUME AdmissionTypeOK, [AdmissionNext]_admissionVars
  PROVE  \/ /\ unseen' = unseen
            /\ \A n \in Names : Stored(epsLog)'[n].phase = "live" =>
                 /\ Stored(epsLog)[n].phase = "live"
                 /\ Stored(epsLog)'[n].spec = Stored(epsLog)[n].spec
         \/ \E w \in inflight : Commit(w) /\ w.rv = Stored(epsLog)[w.name].rv
<1> DEFINE st == Stored(epsLog)
           Same == /\ unseen' = unseen
                   /\ \A n \in Names : Stored(epsLog)'[n].phase = "live" =>
                        st[n].phase = "live" /\ Stored(epsLog)'[n].spec = st[n].spec
<1>0. /\ epsLog \in Seq([Names -> ApiEndpoints]) /\ epsLog # <<>>
      /\ st \in [Names -> ApiEndpoints] /\ Stored(krLog) \in [Krakends -> Krakend]
  BY LogFacts DEF AdmissionTypeOK
<1>1. ASSUME NEW n \in Names, NEW obj \in ApiEndpoints, epsLog' = Put(epsLog, n, obj),
             obj.phase = "live" => st[n].phase = "live" /\ obj.spec = st[n].spec,
             unseen' = unseen
      PROVE Same
  <2>1. Stored(epsLog)' = [st EXCEPT ![n] = obj]
    <3>1. Stored(Put(epsLog, n, obj)) = [Stored(epsLog) EXCEPT ![n] = obj]
      BY <1>0, PutEndpoints
    <3>2. QED
      BY <1>1, <3>1 DEF Stored
  <2>2. QED
    <3> HIDE DEF st
    <3> QED BY <1>0, <1>1, <2>1
<1>2. ASSUME epsLog' = epsLog, unseen' = unseen PROVE Same
  BY <1>2 DEF Stored
<1>3. ASSUME NEW w \in inflight, Commit(w), w.rv # st[w.name].rv PROVE Same
  BY <1>2, <1>3 DEF Commit, history
<1>4. ASSUME NEW n \in Names, DeleteEndpoints(n) PROVE Same
  <2>1. st[n] \in ApiEndpoints /\ st[n].phase = "live"
    BY <1>0, <1>4 DEF DeleteEndpoints
  <2>2. st[n].spec \in ESpecs
    BY <2>1 DEF ApiEndpoints
  <2>3. DeletedEndpoints(st[n]) \in ApiEndpoints
    BY <2>1, <2>2, ObjectTypes
  <2>4. DeletedEndpoints(st[n]).phase # "live"
    BY <2>1 DEF DeletedEndpoints, GoneEndpoints, ApiEndpoints
  <2>5. QED
    BY <1>1, <1>4, <2>3, <2>4 DEF DeleteEndpoints
<1>5. ASSUME NEW n \in Names, ControllerWrites(n) PROVE Same
  <2> DEFINE e == st[n]
  <2>0. e \in ApiEndpoints /\ unseen' = unseen
    BY <1>0, <1>5 DEF ControllerWrites, history
  <2>1. CASE e.phase = "deleting" /\ epsLog' = Put(epsLog, n, GoneEndpoints(e.rv + 1, e.uid))
    <3>1. e.spec \in ESpecs
      BY <2>0, <2>1 DEF ApiEndpoints
    <3>2. GoneEndpoints(e.rv + 1, e.uid) \in ApiEndpoints
      BY <2>0, <3>1, ObjectTypes
    <3>3. GoneEndpoints(e.rv + 1, e.uid).phase # "live"
      BY DEF GoneEndpoints
    <3>4. QED
      BY <1>1, <2>0, <2>1, <3>2, <3>3
  <2>2. ASSUME NEW f \in {TRUE, e.finalizer},
               NEW o \in {e.owner} \cup Incarnations,
               NEW h \in {e.hash} \cup {hashEndpoints(s) : s \in ESpecs},
               e.phase # "absent",
               epsLog' = Put(epsLog, n, [e EXCEPT !.finalizer = f, !.owner = o,
                                                  !.hash = h, !.rv = @ + 1])
        PROVE Same
    <3> DEFINE obj == [e EXCEPT !.finalizer = f, !.owner = o, !.hash = h, !.rv = @ + 1]
    <3>1. o \in (Krakends \X Nat) \cup {None}
      BY <1>0, <2>0, IncarnationsType DEF ApiEndpoints
    <3>2. f \in BOOLEAN /\ h \in {hashEndpoints(s) : s \in ESpecs} \cup {None}
      BY <2>0 DEF ApiEndpoints
    <3>3. obj \in ApiEndpoints
      BY <2>0, <2>2, <3>1, <3>2, WriteType
    <3>4. obj.phase = e.phase /\ obj.spec = e.spec
      BY <2>0 DEF ApiEndpoints
    <3>5. epsLog' = Put(epsLog, n, obj)
      BY <2>2
    <3>6. QED
      <4> HIDE DEF obj
      <4> QED BY <1>1, <2>0, <3>3, <3>4, <3>5
  <2>3. QED
    BY <1>5, <2>1, <2>2 DEF ControllerWrites
<1>6. ASSUME DeliverEndpoints PROVE Same
  <2>1. Stored(epsLog)' = st
    BY <1>0, <1>6 DEF DeliverEndpoints, Deliver, Stored
  <2>2. QED
    BY <1>6, <2>1 DEF DeliverEndpoints, history
<1>7. ASSUME RelistCaches PROVE Same
  <2>1. Stored(epsLog)' = st
    BY <1>0, <1>7 DEF RelistCaches, Relist, Stored
  <2>2. QED
    BY <1>7, <2>1 DEF RelistCaches, history
<1>8. ASSUME NEW n \in Names, UserDelete(n) \/ GcEndpoints(n) PROVE Same
  BY <1>4, <1>8 DEF UserDelete, GcEndpoints
<1>9. ASSUME UNCHANGED <<epsLog, history>> PROVE Same
  BY <1>2, <1>9 DEF history
<1>10. \/ Same
       \/ \E w \in inflight : Commit(w) /\ w.rv = st[w.name].rv
  <2>1. ASSUME NEW n \in Names, NEW s \in ESpecs, UserApply(n, s) PROVE Same
    BY <1>9, <2>1 DEF UserApply
  <2>2. ASSUME NEW k \in Krakends, NEW s \in KSpecs, KrakendApply(k, s) PROVE Same
    BY <1>9, <2>2 DEF KrakendApply
  <2>3. ASSUME NEW k \in Krakends, KrakendDelete(k) PROVE Same
    BY <1>9, <2>3 DEF KrakendDelete
  <2>4. CASE DeliverKrakends
    BY <1>9, <2>4 DEF DeliverKrakends
  <2>5. CASE UNCHANGED <<epsLog, krLog, inflight, history>>
    BY <1>9, <2>5
  <2>6. CASE UNCHANGED admissionVars
    BY <1>9, <2>6 DEF admissionVars
  <2>7. CASE \E w \in inflight : Commit(w)
    BY <1>3, <2>7
  <2> HIDE DEF Same, st
  <2>8. CASE UserStep
    BY <1>8, <2>1, <2>2, <2>3, <2>7, <2>8 DEF UserStep
  <2>9. QED
    BY <1>5, <1>6, <1>7, <2>4, <2>5, <2>6, <2>8 DEF AdmissionNext
<1>11. QED
  BY <1>10

LEMMA DuplicateStep ==
  ASSUME AdmissionTypeOK, AdmissionTypeOK', RequestsValid, DuplicateOnlyByRace,
         [AdmissionNext]_admissionVars
  PROVE  DuplicateOnlyByRace'
<1> DEFINE st == Stored(epsLog)
<1>0. /\ epsLog \in Seq([Names -> ApiEndpoints]) /\ epsLog # <<>>
      /\ st \in [Names -> ApiEndpoints] /\ st' \in [Names -> ApiEndpoints]
      /\ unseen \in [Names -> SUBSET Names] /\ unseen' \in [Names -> SUBSET Names]
  <2>1. Stored(epsLog') \in [Names -> ApiEndpoints] /\ Stored(epsLog) \in [Names -> ApiEndpoints]
    BY LogFacts DEF AdmissionTypeOK
  <2>2. QED
    BY <2>1 DEF AdmissionTypeOK, Stored
<1>1. Raced(st, unseen)
  BY <1>0, RacedForm DEF DuplicateOnlyByRace
<1>2. SUFFICES Raced(st', unseen')
  BY <1>0, RacedForm DEF DuplicateOnlyByRace
<1>3. CASE /\ unseen' = unseen
           /\ \A n \in Names : st'[n].phase = "live" =>
                st[n].phase = "live" /\ st'[n].spec = st[n].spec
  BY <1>1, <1>3 DEF Raced
<1>4. ASSUME NEW w \in inflight, Commit(w), w.rv = st[w.name].rv PROVE Raced(st', unseen')
  <2> DEFINE e == st[w.name]
             obj == IF e.phase = "absent" THEN NewEndpoints(e, w.spec)
                    ELSE [e EXCEPT !.spec = w.spec, !.rv = @ + 1]
  <2>1. w.name \in Names /\ w.spec \in ESpecs /\ w.view \in [Names -> ESpecs \cup {None}]
    BY DEF AdmissionTypeOK, Request
  <2>2. e \in ApiEndpoints /\ obj \in ApiEndpoints
    BY <1>0, <2>1, ObjectTypes
  <2>3. st' = [st EXCEPT ![w.name] = obj]
    <3>1. epsLog' = Put(epsLog, w.name, obj)
      BY <1>4 DEF Commit
    <3>2. Stored(Put(epsLog, w.name, obj)) = [Stored(epsLog) EXCEPT ![w.name] = obj]
      <4> HIDE DEF obj
      <4> QED BY <1>0, <2>1, <2>2, PutEndpoints
    <3>3. QED
      BY <3>1, <3>2 DEF Stored
  <2>4. unseen' = [unseen EXCEPT ![w.name] =
            {m \in Names \ {w.name} : w.view[m] # Others(st, w.name)[m]}]
    BY <1>4 DEF Commit
  <2>5. obj.phase = "live" => obj.spec = w.spec /\ e.phase # "deleting"
    BY <2>2 DEF NewEndpoints, ApiEndpoints
  <2>6. obj.phase = "live" => Validated(w)
    BY <1>4, <2>5 DEF RequestsValid
  <2>7. ASSUME obj.phase = "live", NEW m \in Names \ {w.name}, st[m].phase = "live",
               m \notin unseen'[w.name]
        PROVE  ~Collide(w.spec, st[m].spec) /\ ~Collide(st[m].spec, w.spec)
    <3>1. w.view[m] = Others(st, w.name)[m]
      BY <1>0, <2>1, <2>4, <2>7
    <3>2. Others(st, w.name)[m] = st[m].spec
      BY <2>7 DEF Others
    <3>3. st[m].spec # None
      <4>1. st[m] \in ApiEndpoints
        BY <1>0
      <4>2. QED
        BY <4>1, <2>7 DEF ApiEndpoints
    <3>4. QED
      BY <2>6, <2>7, <3>1, <3>2, <3>3 DEF Validated
  <2>8. st'[w.name] = obj /\ \A m \in Names \ {w.name} : st'[m] = st[m]
    <3> HIDE DEF obj
    <3> QED BY <1>0, <2>1, <2>3
  <2>9. \A m \in Names \ {w.name} : unseen'[m] = unseen[m]
    BY <1>0, <2>1, <2>4
  <2>10. QED
    <3> SUFFICES ASSUME NEW n \in Names, st'[n].phase = "live"
                 PROVE  /\ ~Repeats(st'[n].spec)
                        /\ \A m \in Names \ {n} :
                             st'[m].phase = "live" /\ Collide(st'[n].spec, st'[m].spec)
                               => m \in unseen'[n] \/ n \in unseen'[m]
      BY DEF Raced
    <3> HIDE DEF obj, st, e
    <3>1. CASE n = w.name
      BY <2>5, <2>6, <2>7, <2>8, <3>1 DEF Validated
    <3>2. CASE n # w.name
      <4>1. ~Repeats(st'[n].spec)
        BY <1>1, <2>8, <3>2 DEF Raced
      <4>2. ASSUME NEW m \in Names \ {n}, st'[m].phase = "live",
                   Collide(st'[n].spec, st'[m].spec)
            PROVE  m \in unseen'[n] \/ n \in unseen'[m]
        <5>1. CASE m = w.name
          BY <2>5, <2>7, <2>8, <3>2, <4>2, <5>1
        <5>2. CASE m # w.name
          BY <1>1, <2>8, <2>9, <3>2, <4>2, <5>2 DEF Raced
        <5>3. QED
          BY <5>1, <5>2
      <4>3. QED
        BY <4>1, <4>2
    <3>3. QED
      BY <3>1, <3>2
<1>5. QED
  BY <1>3, <1>4, LiveStep

-----------------------------------------------------------------------------
(* What a step does to the Krakends: nothing, or a write that keeps uid    *)
(* and raises no one from the dead.                                        *)
LEMMA KrakendsStep ==
  ASSUME AdmissionTypeOK, [AdmissionNext]_admissionVars
  PROVE  \/ Follows(krLog', krLog)
         \/ \E k \in Krakends : \E obj \in Krakend :
              /\ krLog' = Put(krLog, k, obj)
              /\ obj.uid = Stored(krLog)[k].uid /\ Stored(krLog)[k].phase = "live"
<1>1. Stored(krLog) \in [Krakends -> Krakend]
  BY LogFacts DEF AdmissionTypeOK
<1>2. ASSUME NEW k \in Krakends, NEW s \in KSpecs, KrakendApply(k, s)
      PROVE  \E obj \in Krakend : /\ krLog' = Put(krLog, k, obj)
                                   /\ obj.uid = Stored(krLog)[k].uid
                                   /\ Stored(krLog)[k].phase = "live"
  <2> DEFINE o == Stored(krLog)[k]
             obj == [o EXCEPT !.spec = s, !.rv = @ + 1]
  <2>1. o \in Krakend /\ o.phase = "live" /\ krLog' = Put(krLog, k, obj)
    BY <1>1, <1>2 DEF KrakendApply
  <2>2. obj \in Krakend
    BY <2>1, KrakendType
  <2>3. obj.uid = o.uid
    BY <2>1 DEF Krakend
  <2>4. QED
    <3> HIDE DEF obj
    <3> QED BY <2>1, <2>2, <2>3
<1>3. ASSUME NEW k \in Krakends, KrakendDelete(k)
      PROVE  \E obj \in Krakend : /\ krLog' = Put(krLog, k, obj)
                                   /\ obj.uid = Stored(krLog)[k].uid
                                   /\ Stored(krLog)[k].phase = "live"
  <2> DEFINE o == Stored(krLog)[k]
  <2>1. o \in Krakend /\ o.phase = "live" /\ krLog' = Put(krLog, k, GoneKrakend(o))
    BY <1>1, <1>3 DEF KrakendDelete
  <2>2. GoneKrakend(o) \in Krakend /\ GoneKrakend(o).uid = o.uid
    BY <2>1 DEF Krakend, GoneKrakend
  <2>3. QED
    BY <2>1, <2>2
<1>4. \/ Follows(krLog', krLog)
      \/ \E k \in Krakends, s \in KSpecs : KrakendApply(k, s)
      \/ \E k \in Krakends : KrakendDelete(k)
  BY DEF AdmissionNext, UserStep, UserApply, Commit, UserDelete, GcEndpoints, DeleteEndpoints,
         DeliverEndpoints, DeliverKrakends, RelistCaches, ControllerWrites, admissionVars, Follows
<1>5. QED
  BY <1>2, <1>3, <1>4

(* What such a write does to the log.                                      *)
LEMMA KrakendWriteFacts ==
  ASSUME AdmissionTypeOK, NEW k \in Krakends, NEW obj \in Krakend, krLog' = Put(krLog, k, obj)
  PROVE  /\ Len(krLog) \in Nat \ {0} /\ Stored(krLog) = krLog[Len(krLog)]
         /\ Stored(krLog) \in [Krakends -> Krakend]
         /\ Stored(krLog)' = [Stored(krLog) EXCEPT ![k] = obj]
         /\ Len(krLog') = Len(krLog) + 1
         /\ \A x \in 1..Len(krLog) : krLog'[x] = krLog[x]
         /\ krLog'[Len(krLog) + 1] = Stored(krLog)'
<1>1. krLog \in Seq([Krakends -> Krakend]) /\ krLog # <<>>
  BY DEF AdmissionTypeOK
<1>2. Stored(Put(krLog, k, obj)) = [Stored(krLog) EXCEPT ![k] = obj]
  BY <1>1, PutKrakend
<1>3. Stored(krLog)' = [Stored(krLog) EXCEPT ![k] = obj]
  BY <1>2 DEF Stored
<1>4. QED
  BY <1>1, <1>3, PutKrakend, LogFacts DEF Stored

(* Delivered events and restarts keep what holds of all pairs.             *)
LEMMA KrakendFollows ==
  ASSUME AdmissionTypeOK, Follows(krLog', krLog)
  PROVE  /\ Stored(krLog)' = Stored(krLog)
         /\ \E d \in Nat : /\ d < Len(krLog) /\ Len(krLog') = Len(krLog) - d
                           /\ \A i \in 1..Len(krLog') :
                                i + d \in 1..Len(krLog) /\ krLog'[i] = krLog[i + d]
<1>1. krLog \in Seq([Krakends -> Krakend]) /\ krLog # <<>>
  BY DEF AdmissionTypeOK
<1>2. Stored(krLog') = Stored(krLog)
  BY <1>1, FollowsFacts
<1>3. Stored(krLog)' = Stored(krLog)
  BY <1>2 DEF Stored
<1>4. QED
  BY <1>1, <1>3, FollowsFacts

LEMMA KrakendsAgeStep ==
  ASSUME AdmissionTypeOK, KrakendsAge, [AdmissionNext]_admissionVars
  PROVE  KrakendsAge'
<1>1. CASE Follows(krLog', krLog)
  <2>1. PICK d \in Nat : /\ d < Len(krLog) /\ Len(krLog') = Len(krLog) - d
                         /\ \A i \in 1..Len(krLog') :
                              i + d \in 1..Len(krLog) /\ krLog'[i] = krLog[i + d]
    BY <1>1, KrakendFollows
  <2>2. QED
    BY <1>1, <2>1, KrakendFollows DEF KrakendsAge
<1>2. ASSUME NEW k \in Krakends, NEW obj \in Krakend, krLog' = Put(krLog, k, obj),
             obj.uid = Stored(krLog)[k].uid
      PROVE  KrakendsAge'
  <2>1. \A m \in Krakends : Stored(krLog)'[m].uid = Stored(krLog)[m].uid
                             /\ Stored(krLog)[m].uid \in Nat
    BY <1>2, KrakendWriteFacts DEF Krakend
  <2> SUFFICES ASSUME NEW m \in Krakends, NEW i \in 1..Len(krLog')
               PROVE  krLog'[i][m].uid <= Stored(krLog)'[m].uid
    BY DEF KrakendsAge
  <2>2. CASE i \in 1..Len(krLog)
    BY <1>2, <2>1, <2>2, KrakendWriteFacts DEF KrakendsAge
  <2>3. CASE i = Len(krLog) + 1
    BY <1>2, <2>1, <2>3, KrakendWriteFacts
  <2>4. QED
    BY <1>2, <2>2, <2>3, KrakendWriteFacts
<1>3. QED
  BY <1>1, <1>2, KrakendsStep

LEMMA KrakendsLeaveStep ==
  ASSUME AdmissionTypeOK, KrakendsLeave, [AdmissionNext]_admissionVars
  PROVE  KrakendsLeave'
<1>1. CASE Follows(krLog', krLog)
  <2>1. PICK d \in Nat : /\ d < Len(krLog) /\ Len(krLog') = Len(krLog) - d
                         /\ \A i \in 1..Len(krLog') :
                              i + d \in 1..Len(krLog) /\ krLog'[i] = krLog[i + d]
    BY <1>1, KrakendFollows
  <2> SUFFICES ASSUME NEW m \in Krakends, NEW i \in 1..Len(krLog'), NEW j \in 1..Len(krLog'),
                      i <= j
               PROVE  /\ krLog'[i][m].uid = krLog'[j][m].uid
                      /\ krLog'[i][m].phase = "absent" => krLog'[j][m].phase = "absent"
    BY DEF KrakendsLeave
  <2>2. i + d \in 1..Len(krLog) /\ j + d \in 1..Len(krLog) /\ i + d <= j + d
    BY <2>1
  <2>3. krLog'[i] = krLog[i + d] /\ krLog'[j] = krLog[j + d]
    BY <2>1
  <2>4. QED
    BY <2>2, <2>3 DEF KrakendsLeave
<1>2. ASSUME NEW k \in Krakends, NEW obj \in Krakend, krLog' = Put(krLog, k, obj),
             obj.uid = Stored(krLog)[k].uid, Stored(krLog)[k].phase = "live"
      PROVE  KrakendsLeave'
  <2> SUFFICES ASSUME NEW m \in Krakends, NEW i \in 1..Len(krLog'), NEW j \in 1..Len(krLog'),
                      i <= j
               PROVE  /\ krLog'[i][m].uid = krLog'[j][m].uid
                      /\ krLog'[i][m].phase = "absent" => krLog'[j][m].phase = "absent"
    BY DEF KrakendsLeave
  <2>1. /\ Len(krLog) \in Nat \ {0} /\ Stored(krLog) = krLog[Len(krLog)]
        /\ Stored(krLog) \in [Krakends -> Krakend]
        /\ Len(krLog') = Len(krLog) + 1
        /\ \A x \in 1..Len(krLog) : krLog'[x] = krLog[x]
        /\ krLog'[Len(krLog) + 1] = [Stored(krLog) EXCEPT ![k] = obj]
    BY <1>2, KrakendWriteFacts
  <2>2. CASE j \in 1..Len(krLog)
    BY <2>1, <2>2 DEF KrakendsLeave
  <2>3. CASE i = Len(krLog) + 1
    BY <2>1, <2>3
  <2>4. CASE i \in 1..Len(krLog) /\ j = Len(krLog) + 1
    <3>1. /\ krLog[i][m].uid = Stored(krLog)[m].uid
          /\ krLog[i][m].phase = "absent" => Stored(krLog)[m].phase = "absent"
      BY <2>1, <2>4 DEF KrakendsLeave
    <3>2. CASE m = k
      BY <1>2, <2>1, <2>4, <3>1, <3>2
    <3>3. CASE m # k
      BY <2>1, <2>4, <3>1, <3>3
    <3>4. QED
      BY <3>2, <3>3
  <2>5. QED
    BY <2>1, <2>2, <2>3, <2>4
<1>3. QED
  BY <1>1, <1>2, KrakendsStep

LEMMA KrakendsLeaveInit == AdmissionInit => KrakendsLeave
<1>1. AdmissionInit => \A i, j \in 1..Len(krLog) : i = j
  BY DEF AdmissionInit
<1>2. QED
  BY <1>1 DEF KrakendsLeave

(* A stored Krakend keeps its uid; a missing one stays away.               *)
LEMMA StoredKrakendStep ==
  ASSUME AdmissionTypeOK, [AdmissionNext]_admissionVars
  PROVE  \A k \in Krakends :
           /\ Stored(krLog)'[k].uid = Stored(krLog)[k].uid
           /\ Stored(krLog)[k].phase = "absent" => Stored(krLog)'[k].phase = "absent"
<1>1. CASE Follows(krLog', krLog)
  BY <1>1, KrakendFollows
<1>2. ASSUME NEW k \in Krakends, NEW obj \in Krakend, krLog' = Put(krLog, k, obj),
             obj.uid = Stored(krLog)[k].uid, Stored(krLog)[k].phase = "live",
             NEW m \in Krakends
      PROVE  /\ Stored(krLog)'[m].uid = Stored(krLog)[m].uid
             /\ Stored(krLog)[m].phase = "absent" => Stored(krLog)'[m].phase = "absent"
  BY <1>2, KrakendWriteFacts
<1>3. QED
  BY <1>1, <1>2, KrakendsStep

-----------------------------------------------------------------------------
LEMMA AdmissionInitInv == AdmissionInit => AdmissionInv
<1> SUFFICES ASSUME AdmissionInit PROVE AdmissionInv
  OBVIOUS
<1>1. AdmissionTypeOK
  BY AdmissionInitType
<1>2. Len(epsLog) = 1 /\ \A n \in Names : epsLog[1][n] = GoneEndpoints(0, 0)
  BY DEF AdmissionInit
<1>3. VersionsGrow
  <2>1. \A i \in 1..Len(epsLog) : i = 1
    BY <1>2
  <2>2. \A n \in Names : epsLog[1][n].rv = 0
    BY <1>2 DEF GoneEndpoints
  <2>3. QED
    BY <2>1, <2>2 DEF VersionsGrow
<1>4. KrakendsAge
  <2>1. Len(krLog) = 1
    BY DEF AdmissionInit
  <2>2. \A i \in 1..Len(krLog) : i = 1
    BY <2>1
  <2>3. \A k \in Krakends : krLog[1][k].uid \in Nat
    BY DEF AdmissionInit
  <2>4. QED
    BY <2>1, <2>2, <2>3 DEF KrakendsAge, Stored
<1>5. RequestsValid
  BY DEF AdmissionInit, RequestsValid
<1>6. DuplicateOnlyByRace
  <2>1. Stored(epsLog) \in [Names -> ApiEndpoints] /\ unseen \in [Names -> SUBSET Names]
    BY <1>1, LogFacts DEF AdmissionTypeOK
  <2>2. \A n \in Names : Stored(epsLog)[n].phase = "absent"
    BY <1>2 DEF Stored, GoneEndpoints
  <2>3. Raced(Stored(epsLog), unseen)
    BY <2>2 DEF Raced
  <2>4. QED
    BY <2>1, <2>3, RacedForm DEF DuplicateOnlyByRace
<1>7. QED
  BY <1>1, <1>3, <1>4, <1>5, <1>6 DEF AdmissionInv

LEMMA AdmissionInvStep == AdmissionInv /\ [AdmissionNext]_admissionVars => AdmissionInv'
<1> SUFFICES ASSUME AdmissionInv, [AdmissionNext]_admissionVars PROVE AdmissionInv'
  OBVIOUS
<1>1. AdmissionTypeOK'
  BY AdmissionStepType DEF AdmissionInv
<1>2. QED
  BY <1>1, VersionsGrowStep, KrakendsAgeStep, RequestsValidStep, DuplicateStep DEF AdmissionInv

(* For any number of ApiEndpoints, users and specs, and whatever the       *)
(* controller writes: two stored ApiEndpoints share a path only if one was *)
(* stored while its admission had not seen the other (webhook, 78-122).    *)
THEOREM DuplicatesNeedRace == AdmissionSpec => []DuplicateOnlyByRace
<1>1. AdmissionInv => DuplicateOnlyByRace
  BY DEF AdmissionInv
<1>2. QED
  BY AdmissionInitInv, AdmissionInvStep, <1>1, PTL DEF AdmissionSpec
=============================================================================
