----------------------------- MODULE KrakendProofs -----------------------------
(***************************************************************************)
(* Proofs about KrakendController: type correctness, and that a Krakend is *)
(* completely installed whenever its reconciler comes to rest.             *)
(*                                                                         *)
(* The inductive invariant has three layers: how old the copies are that   *)
(* caches and worker hold (Ordered, LocalOld, OwnersOld), which of them    *)
(* can still be written (OwnedStays, Marked, InStep), and what has been    *)
(* applied (PartialsDone, ResourcesDone).                                  *)
(***************************************************************************)
EXTENDS KrakendController, ClusterProofs

(* Copy a of the Krakend is no newer than copy b.                          *)
Older(a, b) == /\ a.rv <= b.rv /\ a.uid <= b.uid
               /\ a.rv = b.rv => a = b

Ordered == \A i, j \in 1..Len(krLog) : i <= j => Older(krLog[i][Self], krLog[j][Self])

(* Reconcile's copy is no newer than the cache.                            *)
LocalOld == pc # "idle" => \A i \in 1..Len(krLog) : Older(local, krLog[i][Self])

(* Partials were rendered for a Krakend the cache and the worker know.     *)
OwnersOld ==
  \A i \in 1..Len(cmLog) :
    /\ \A j \in 1..Len(krLog) : cmLog[i][Self].owner <= krLog[j][Self].uid
    /\ pc # "idle" => cmLog[i][Self].owner <= local.uid

(* Partials of the present incarnation are not taken away or handed over.  *)
OwnedStays ==
  \A i \in 1..Len(cmLog) :
    Current.phase = "live" /\ cmLog[i][Self].phase = "live" /\ cmLog[i][Self].owner = Current.uid
      => Installed.phase = "live" /\ Installed.owner = Current.uid

(* Without a stale read Reconcile creates partials only where none are.    *)
FreshCreate == pc = "createPartials" /\ ~staleRead => Installed.phase = "absent"

(* The status holds the hash of a spec the Krakend has carried.            *)
HashCarried ==
  Current.phase = "live" => Current.spec \in carried /\ Current.hash \in carried \cup {None}

(* Once a status is written, nobody works on an earlier incarnation ...    *)
Marked ==
  Current.phase = "live" /\ Current.hash # None =>
    /\ \A i \in 1..Len(krLog) : krLog[i][Self].uid = Current.uid
    /\ pc # "idle" => local.uid = Current.uid

(* ... and while it has the hash of the spec, nobody on an earlier spec.   *)
InStep ==
  Current.phase = "live" /\ Current.hash = hash(Current.spec) /\ ~reverted =>
    /\ \A i \in 1..Len(krLog) : krLog[i][Self].spec = Current.spec
    /\ pc # "idle" => local.spec = Current.spec

(* Work is not forgotten: it is queued, or the event that queues it is on  *)
(* its way.                                                                *)
WorkQueued ==
  pc = "idle" /\ ~queue /\ NeedsWork(Cached(krLog)[Self], FALSE) => Cached(krLog)[Self] # Current

(* The partials of incarnation u are there, or Reconcile knows why not.    *)
Settled(u) ==
  adopted \/ Partials \in failed \/ (Installed.phase = "live" /\ Installed.owner = u)

PartialsDone ==
  Current.phase = "live" =>
    /\ Current.hash # None => Settled(Current.uid)
    /\ pc # "idle" /\ Partials \notin todo /\ local.uid = Current.uid => Settled(Current.uid)

ResourcesDone ==
  Current.phase = "live" =>
    /\ Current.hash = hash(Current.spec) /\ ~reverted =>
         \A x \in Resources \ failed :
           res[x] = [phase |-> "live", owner |-> Current.uid, spec |-> Current.spec]
    /\ pc # "idle" /\ local.uid = Current.uid =>
         \A x \in Resources \ (todo \cup failed) : res[x] = Rendered

InstallInv ==
  /\ TypeOK /\ Ordered /\ LocalOld /\ OwnersOld /\ OwnedStays
  /\ FreshCreate /\ RoutesLostByStaleReadOnly
  /\ HashCarried /\ Marked /\ InStep /\ WorkQueued
  /\ PartialsDone /\ ResourcesDone

-----------------------------------------------------------------------------
LEMMA SnapshotTypes ==
  ASSUME TypeOK
  PROVE  /\ krLog \in Seq([Krakends -> Krakend]) /\ krLog # <<>>
         /\ cmLog \in Seq([Krakends -> ConfigMap]) /\ cmLog # <<>>
         /\ Len(krLog) \in Nat \ {0} /\ Len(cmLog) \in Nat \ {0}
         /\ \A i \in 1..Len(krLog) : krLog[i] \in [Krakends -> Krakend]
         /\ \A i \in 1..Len(cmLog) : cmLog[i] \in [Krakends -> ConfigMap]
         /\ Stored(krLog) \in [Krakends -> Krakend] /\ Stored(krLog) = krLog[Len(krLog)]
         /\ Cached(krLog) \in [Krakends -> Krakend] /\ Cached(krLog) = krLog[1]
         /\ Stored(cmLog) \in [Krakends -> ConfigMap] /\ Stored(cmLog) = cmLog[Len(cmLog)]
         /\ Cached(cmLog) \in [Krakends -> ConfigMap] /\ Cached(cmLog) = cmLog[1]
         /\ Self \in Krakends
         /\ Current \in Krakend /\ Current = krLog[Len(krLog)][Self]
         /\ Installed \in ConfigMap /\ Installed = cmLog[Len(cmLog)][Self]
         /\ Cached(krLog)[Self] \in Krakend /\ Cached(cmLog)[Self] \in ConfigMap
<1>1. /\ krLog \in Seq([Krakends -> Krakend]) /\ krLog # <<>>
      /\ cmLog \in Seq([Krakends -> ConfigMap]) /\ cmLog # <<>>
      /\ Self \in Krakends
  BY KrakendAssumption DEF TypeOK
<1>2. /\ Len(krLog) \in Nat \ {0}
      /\ \A i \in 1..Len(krLog) : krLog[i] \in [Krakends -> Krakend]
      /\ Stored(krLog) \in [Krakends -> Krakend] /\ Stored(krLog) = krLog[Len(krLog)]
      /\ Cached(krLog) \in [Krakends -> Krakend] /\ Cached(krLog) = krLog[1]
  BY <1>1 DEF Stored, Cached
<1>3. /\ Len(cmLog) \in Nat \ {0}
      /\ \A i \in 1..Len(cmLog) : cmLog[i] \in [Krakends -> ConfigMap]
      /\ Stored(cmLog) \in [Krakends -> ConfigMap] /\ Stored(cmLog) = cmLog[Len(cmLog)]
      /\ Cached(cmLog) \in [Krakends -> ConfigMap] /\ Cached(cmLog) = cmLog[1]
  BY <1>1 DEF Stored, Cached
<1>4. QED
  BY <1>1, <1>2, <1>3 DEF Current, Installed

(* What a step can do to the stored Krakend: nothing, or one of three      *)
(* writes, each of which raises the version.                               *)
StatusWritten ==
  /\ pc = "updateStatus" /\ Current.phase = "live" /\ Current.rv = local.rv
  /\ krLog' = Put(krLog, Self, [local EXCEPT !.hash = hash(local.spec), !.rv = @ + 1])
  /\ pc' = "idle" /\ UNCHANGED <<cmLog, res, queue, history>>

LEMMA KrakendEffect ==
  ASSUME TypeOK, [Next]_vars
  PROVE  \/ Follows(krLog', krLog) /\ UNCHANGED <<carried, reverted>>
         \/ StatusWritten
         \/ \E s \in KSpecs : UserApply(s)
         \/ UserDelete
<1> DEFINE Goal == \/ Follows(krLog', krLog) /\ UNCHANGED <<carried, reverted>>
                   \/ StatusWritten
                   \/ \E s \in KSpecs : UserApply(s)
                   \/ UserDelete
<1>1. ASSUME UNCHANGED <<krLog, carried, reverted>> PROVE Goal
  BY <1>1 DEF Follows
<1>2. ASSUME NEW outside \in BOOLEAN, Start(outside) PROVE Goal
  BY <1>1, <1>2 DEF Start, history
<1>3. ASSUME NEW x, createOrUpdate(x) \/ ApplyFails(x) PROVE Goal
  BY <1>1, <1>3 DEF createOrUpdate, ApplyFails
<1>4. ASSUME GetPartials \/ CreatePartials \/ ensureKrakendNetpol \/ Fault \/ Resync PROVE Goal
  BY <1>1, <1>4 DEF GetPartials, CreatePartials, ensureKrakendNetpol, Fault, Resync, history
<1>5. ASSUME UpdateStatus PROVE Goal
  <2>1. CASE UNCHANGED krLog
    BY <1>1, <1>5, <2>1 DEF UpdateStatus, history
  <2>2. CASE ~UNCHANGED krLog
    BY <1>5, <2>2 DEF UpdateStatus, StatusWritten, Done, Return
  <2>3. QED
    BY <2>1, <2>2
<1>6. ASSUME ObserveKrakend \/ Restart PROVE Goal
  BY <1>6 DEF ObserveKrakend, Restart, Follows, history
<1>7. ASSUME ObservePartials \/ ObserveNetpol \/ GcPartials \/ GcNetpol PROVE Goal
  BY <1>1, <1>7 DEF ObservePartials, ObserveNetpol, GcPartials, GcNetpol, history
<1>8. ASSUME NEW n, NEW s, Publish(n, s) PROVE Goal
  BY <1>1, <1>8 DEF Publish, history
<1>9. ASSUME NEW x, GcResource(x) PROVE Goal
  BY <1>1, <1>9 DEF GcResource, history
<1>10. ASSUME UNCHANGED vars PROVE Goal
  BY <1>1, <1>10 DEF vars, history
<1>11. ASSUME UserDelete \/ \E s \in KSpecs : UserApply(s) PROVE Goal
  BY <1>11
<1>12. QED
  <2> HIDE DEF Goal
  <2>1. Goal
    BY <1>2, <1>3, <1>4, <1>5, <1>6, <1>7, <1>8, <1>9, <1>10, <1>11
    DEF Next, Reconcile, Environment
  <2>2. QED
    BY <2>1 DEF Goal

(* The writes to the Krakend are well-typed and raise its version.         *)
NewVersion(obj) ==
  /\ krLog' = Put(krLog, Self, obj)
  /\ obj \in Krakend /\ obj.rv = Current.rv + 1
  /\ obj.uid >= Current.uid

LEMMA ApplyVersion ==
  ASSUME TypeOK, NEW s \in KSpecs, UserApply(s)
  PROVE  \E obj :
           /\ NewVersion(obj)
           /\ obj.phase = "live" /\ obj.spec = s
           /\ Current.phase = "absent" => obj.uid = Current.uid + 1 /\ obj.hash = None
           /\ Current.phase = "live" => obj.uid = Current.uid /\ obj.hash = Current.hash
<1> DEFINE new == Current.phase = "absent"
           obj == [phase |-> "live", rv |-> Current.rv + 1,
                   uid |-> IF new THEN Current.uid + 1 ELSE Current.uid,
                   spec |-> s, hash |-> IF new THEN None ELSE Current.hash]
<1>1. /\ Current.rv \in Nat /\ Current.uid \in Nat /\ Current.phase \in {"absent", "live"}
      /\ Current.hash \in KSpecs \cup {None}
  BY SnapshotTypes DEF Krakend
<1>2. obj \in Krakend
  BY <1>1, ClusterAssumption DEF Krakend
<1>3. krLog' = Put(krLog, Self, obj)
  BY DEF UserApply
<1>4. obj.rv = Current.rv + 1 /\ obj.uid >= Current.uid
  BY <1>1
<1>5. NewVersion(obj)
  BY <1>2, <1>3, <1>4 DEF NewVersion
<1>6. /\ obj.phase = "live" /\ obj.spec = s
      /\ Current.phase = "absent" => obj.uid = Current.uid + 1 /\ obj.hash = None
      /\ Current.phase = "live" => obj.uid = Current.uid /\ obj.hash = Current.hash
  OBVIOUS
<1>7. QED
  <2> HIDE DEF obj
  <2> QED BY <1>5, <1>6

LEMMA DeleteVersion ==
  ASSUME TypeOK, UserDelete
  PROVE  \E obj : NewVersion(obj) /\ obj.phase = "absent" /\ obj.uid = Current.uid
<1>1. Current.rv \in Nat /\ Current.uid \in Nat
  BY SnapshotTypes DEF Krakend
<1>2. /\ GoneKrakend(Current) \in Krakend
      /\ GoneKrakend(Current).rv = Current.rv + 1 /\ GoneKrakend(Current).uid = Current.uid
      /\ GoneKrakend(Current).phase = "absent"
  BY <1>1 DEF GoneKrakend, Krakend
<1>3. NewVersion(GoneKrakend(Current))
  BY <1>1, <1>2 DEF NewVersion, UserDelete
<1>4. QED
  BY <1>2, <1>3

(* The copy the status is written with is the stored Krakend.              *)
LEMMA StatusVersion ==
  ASSUME TypeOK, LocalOld, StatusWritten
  PROVE  /\ local = Current /\ local.spec \in KSpecs
         /\ \A i \in 1..Len(krLog) : Older(local, krLog[i][Self])
         /\ \E obj : /\ NewVersion(obj)
                     /\ obj.phase = "live" /\ obj.uid = Current.uid
                     /\ obj.spec = Current.spec /\ obj.hash = Current.spec
<1> DEFINE obj == [local EXCEPT !.hash = hash(local.spec), !.rv = @ + 1]
<1>1. /\ \A i \in 1..Len(krLog) : Older(local, krLog[i][Self])
      /\ Current = krLog[Len(krLog)][Self] /\ Len(krLog) \in 1..Len(krLog)
  BY SnapshotTypes DEF StatusWritten, LocalOld
<1>2. local = Current
  BY <1>1 DEF Older, StatusWritten
<1>3. local \in Krakend /\ local.phase = "live" /\ local.spec \in KSpecs
  BY DEF TypeOK, StatusWritten
<1>4. local.rv + 1 \in Nat /\ local.uid \in Nat /\ local.rv \in Nat
  BY <1>3 DEF Krakend
<1>5. obj \in Krakend
  BY <1>3, <1>4, ClusterAssumption DEF Krakend, hash
<1>6. /\ obj.rv = local.rv + 1 /\ obj.uid = local.uid /\ obj.phase = "live"
      /\ obj.spec = local.spec /\ obj.hash = local.spec
  BY <1>3 DEF Krakend, hash
<1>7. NewVersion(obj)
  <2>1. krLog' = Put(krLog, Self, obj)
    BY DEF StatusWritten
  <2> HIDE DEF obj
  <2>2. QED
    BY <1>2, <1>4, <1>5, <1>6, <2>1 DEF NewVersion
<1>8. QED
  <2> HIDE DEF obj
  <2> QED BY <1>1, <1>2, <1>3, <1>6, <1>7

(* Without the age of the copy, which the type invariant does not know.    *)
LEMMA StatusType ==
  ASSUME TypeOK, StatusWritten
  PROVE  \E obj \in Krakend : krLog' = Put(krLog, Self, obj)
<1> DEFINE obj == [local EXCEPT !.hash = hash(local.spec), !.rv = @ + 1]
<1>1. local \in Krakend /\ local.phase = "live" /\ local.spec \in KSpecs
  BY DEF TypeOK, StatusWritten
<1>2. local.rv + 1 \in Nat
  BY <1>1 DEF Krakend
<1>3. obj \in Krakend
  BY <1>1, <1>2, ClusterAssumption DEF Krakend, hash
<1>4. QED
  BY <1>3 DEF StatusWritten

LEMMA KrakendLogType ==
  ASSUME TypeOK, [Next]_vars
  PROVE  krLog' \in Seq([Krakends -> Krakend]) /\ krLog' # <<>>
<1>0. krLog \in Seq([Krakends -> Krakend]) /\ krLog # <<>> /\ Self \in Krakends
  BY SnapshotTypes
<1>1. ASSUME NEW obj \in Krakend, krLog' = Put(krLog, Self, obj)
      PROVE  krLog' \in Seq([Krakends -> Krakend]) /\ krLog' # <<>>
  <2>1. [Stored(krLog) EXCEPT ![Self] = obj] \in [Krakends -> Krakend]
    BY SnapshotTypes
  <2>2. QED
    BY <1>0, <1>1, <2>1, PutFacts
<1>2. CASE Follows(krLog', krLog)
  BY <1>0, <1>2, FollowsFacts
<1>3. CASE StatusWritten
  BY <1>1, <1>3, StatusType
<1>4. CASE \E s \in KSpecs : UserApply(s)
  BY <1>1, <1>4, ApplyVersion DEF NewVersion
<1>5. CASE UserDelete
  BY <1>1, <1>5, DeleteVersion DEF NewVersion
<1>6. QED
  BY <1>2, <1>3, <1>4, <1>5, KrakendEffect

LEMMA NewVersionFacts ==
  ASSUME TypeOK, NEW obj, NewVersion(obj)
  PROVE  /\ Current' = obj
         /\ Len(krLog') = Len(krLog) + 1
         /\ \A i \in 1..Len(krLog) : krLog'[i] = krLog[i]
         /\ krLog'[Len(krLog) + 1][Self] = obj
         /\ Cached(krLog)' = Cached(krLog)
<1>1. /\ krLog \in Seq([Krakends -> Krakend]) /\ krLog # <<>> /\ Self \in Krakends
      /\ Stored(krLog) \in [Krakends -> Krakend]
  BY SnapshotTypes
<1>2. [Stored(krLog) EXCEPT ![Self] = obj] \in [Krakends -> Krakend]
      /\ [Stored(krLog) EXCEPT ![Self] = obj][Self] = obj
  BY <1>1 DEF NewVersion
<1>3. /\ Len(krLog') = Len(krLog) + 1
      /\ \A i \in 1..Len(krLog) : krLog'[i] = krLog[i]
      /\ krLog'[Len(krLog) + 1] = [Stored(krLog) EXCEPT ![Self] = obj]
      /\ Stored(krLog') = [Stored(krLog) EXCEPT ![Self] = obj]
      /\ Cached(krLog') = Cached(krLog)
  <2> DEFINE snap == [Stored(krLog) EXCEPT ![Self] = obj]
  <2>1. krLog' = Append(krLog, snap) /\ snap \in [Krakends -> Krakend]
    BY <1>2 DEF NewVersion, Put
  <2> HIDE DEF snap
  <2>2. /\ krLog' \in Seq([Krakends -> Krakend]) /\ krLog' # <<>>
        /\ Len(krLog') = Len(krLog) + 1
        /\ \A i \in 1..Len(krLog) : krLog'[i] = krLog[i]
        /\ krLog'[Len(krLog) + 1] = snap
        /\ Stored(krLog') = snap
        /\ Cached(krLog') = Cached(krLog)
    BY <1>1, <2>1, AppendFacts
  <2>3. QED
    BY <2>2 DEF snap
<1>4. Stored(krLog')[Self] = obj /\ krLog'[Len(krLog) + 1][Self] = obj
  BY <1>2, <1>3
<1>5. Current' = Stored(krLog')[Self] /\ Cached(krLog)' = Cached(krLog')
  BY DEF Current, Stored, Cached
<1>6. QED
  BY <1>3, <1>4, <1>5

LEMMA KrakendKept ==
  ASSUME TypeOK, Follows(krLog', krLog)
  PROVE  /\ Current' = Current
         /\ \A i \in 1..Len(krLog') : \E j \in 1..Len(krLog) : krLog'[i] = krLog[j]
<1>1. krLog \in Seq([Krakends -> Krakend]) /\ krLog # <<>>
  BY SnapshotTypes
<1>2. /\ Stored(krLog') = Stored(krLog)
      /\ \E d \in Nat : /\ d < Len(krLog) /\ Len(krLog') = Len(krLog) - d
                        /\ \A i \in 1..Len(krLog') : i + d \in 1..Len(krLog) /\ krLog'[i] = krLog[i + d]
  BY <1>1, FollowsFacts
<1>3. Current = Stored(krLog)[Self] /\ Current' = Stored(krLog')[Self]
  BY DEF Current, Stored
<1>4. ASSUME NEW i \in 1..Len(krLog') PROVE \E j \in 1..Len(krLog) : krLog'[i] = krLog[j]
  BY <1>2
<1>5. QED
  BY <1>2, <1>3, <1>4

(* What a step can do to the stored partials.                              *)
NewPartials(obj) == cmLog' = Put(cmLog, Self, obj) /\ obj \in ConfigMap

LEMMA NewPartialsFacts ==
  ASSUME TypeOK, NEW obj, NewPartials(obj)
  PROVE  /\ Installed' = obj
         /\ \A i \in 1..Len(cmLog') :
              cmLog'[i][Self] = obj \/ (i \in 1..Len(cmLog) /\ cmLog'[i] = cmLog[i])
         /\ cmLog' \in Seq([Krakends -> ConfigMap]) /\ cmLog' # <<>>
<1>1. /\ cmLog \in Seq([Krakends -> ConfigMap]) /\ cmLog # <<>> /\ Self \in Krakends
      /\ Stored(cmLog) \in [Krakends -> ConfigMap] /\ Len(cmLog) \in Nat
  BY SnapshotTypes
<1>2. [Stored(cmLog) EXCEPT ![Self] = obj] \in [Krakends -> ConfigMap]
      /\ [Stored(cmLog) EXCEPT ![Self] = obj][Self] = obj
  BY <1>1 DEF NewPartials
<1>3. /\ cmLog' \in Seq([Krakends -> ConfigMap]) /\ cmLog' # <<>>
      /\ Len(cmLog') = Len(cmLog) + 1
      /\ \A i \in 1..Len(cmLog) : cmLog'[i] = cmLog[i]
      /\ cmLog'[Len(cmLog) + 1] = [Stored(cmLog) EXCEPT ![Self] = obj]
      /\ Stored(cmLog') = [Stored(cmLog) EXCEPT ![Self] = obj]
  <2> DEFINE snap == [Stored(cmLog) EXCEPT ![Self] = obj]
  <2>1. cmLog' = Append(cmLog, snap) /\ snap \in [Krakends -> ConfigMap]
    BY <1>2 DEF NewPartials, Put
  <2> HIDE DEF snap
  <2>2. /\ cmLog' \in Seq([Krakends -> ConfigMap]) /\ cmLog' # <<>>
        /\ Len(cmLog') = Len(cmLog) + 1
        /\ \A i \in 1..Len(cmLog) : cmLog'[i] = cmLog[i]
        /\ cmLog'[Len(cmLog) + 1] = snap
        /\ Stored(cmLog') = snap
        /\ Cached(cmLog') = Cached(cmLog)
    BY <1>1, <2>1, AppendFacts
  <2>3. QED
    BY <2>2 DEF snap
<1>4. \A i \in 1..Len(cmLog') : i \in 1..Len(cmLog) \/ i = Len(cmLog) + 1
  BY <1>1, <1>3
<1>5. Stored(cmLog')[Self] = obj /\ cmLog'[Len(cmLog) + 1][Self] = obj
  BY <1>2, <1>3
<1>6. Installed' = Stored(cmLog')[Self]
  BY DEF Installed, Stored
<1>7. QED
  BY <1>3, <1>4, <1>5, <1>6

LEMMA PartialsKept ==
  ASSUME TypeOK, Follows(cmLog', cmLog)
  PROVE  /\ Installed' = Installed
         /\ \A i \in 1..Len(cmLog') : \E j \in 1..Len(cmLog) : cmLog'[i] = cmLog[j]
         /\ cmLog' \in Seq([Krakends -> ConfigMap]) /\ cmLog' # <<>>
<1>1. cmLog \in Seq([Krakends -> ConfigMap]) /\ cmLog # <<>>
  BY SnapshotTypes
<1>2. /\ cmLog' \in Seq([Krakends -> ConfigMap]) /\ cmLog' # <<>>
      /\ Stored(cmLog') = Stored(cmLog)
      /\ \E d \in Nat : /\ d < Len(cmLog) /\ Len(cmLog') = Len(cmLog) - d
                        /\ \A i \in 1..Len(cmLog') : i + d \in 1..Len(cmLog) /\ cmLog'[i] = cmLog[i + d]
  BY <1>1, FollowsFacts
<1>3. Installed = Stored(cmLog)[Self] /\ Installed' = Stored(cmLog')[Self]
  BY DEF Installed, Stored
<1>4. ASSUME NEW i \in 1..Len(cmLog') PROVE \E j \in 1..Len(cmLog) : cmLog'[i] = cmLog[j]
  BY <1>2
<1>5. QED
  BY <1>2, <1>3, <1>4

(* The chart's sample, new routes for the partials that are there, or      *)
(* their removal.                                                          *)
Sampled(obj) ==
  /\ CreatePartials /\ NewPartials(obj)
  /\ obj.phase = "live" /\ obj.owner = local.uid

Published(obj) ==
  /\ NewPartials(obj)
  /\ obj.phase = Installed.phase /\ obj.owner = Installed.owner
  /\ UNCHANGED <<krLog, res, queue, workVars, history>>

Collected(obj) ==
  /\ NewPartials(obj) /\ Orphan(Installed)
  /\ obj.phase = "absent" /\ obj.owner = Installed.owner
  /\ UNCHANGED <<krLog, res, queue, workVars, history>>

LEMMA PartialsEffect ==
  ASSUME TypeOK, [Next]_vars
  PROVE  \/ Follows(cmLog', cmLog)
         \/ \E obj : Sampled(obj)
         \/ \E obj : Published(obj)
         \/ \E obj : Collected(obj)
<1> DEFINE Goal == \/ Follows(cmLog', cmLog)
                   \/ \E obj : Sampled(obj)
                   \/ \E obj : Published(obj)
                   \/ \E obj : Collected(obj)
<1>0. /\ Installed \in ConfigMap /\ Installed.rv + 1 \in Nat
      /\ local \in Krakend /\ local.uid \in Nat /\ Cached(krLog)[Self] \in Krakend
  <2>1. Installed \in ConfigMap /\ local \in Krakend /\ Cached(krLog)[Self] \in Krakend
    BY SnapshotTypes DEF TypeOK
  <2>2. QED
    BY <2>1 DEF Krakend, ConfigMap
<1>1. ASSUME UNCHANGED cmLog PROVE Goal
  BY <1>1 DEF Follows
<1>2. ASSUME NEW outside \in BOOLEAN, Start(outside) PROVE Goal
  BY <1>1, <1>2 DEF Start
<1>3. ASSUME NEW x, createOrUpdate(x) \/ ApplyFails(x) \/ GcResource(x) PROVE Goal
  BY <1>1, <1>3 DEF createOrUpdate, ApplyFails, GcResource
<1>4. ASSUME GetPartials \/ ensureKrakendNetpol \/ UpdateStatus \/ Fault \/ Resync PROVE Goal
  BY <1>1, <1>4 DEF GetPartials, ensureKrakendNetpol, UpdateStatus, Fault, Resync
<1>5. ASSUME CreatePartials PROVE Goal
  <2> DEFINE obj == [phase |-> "live", rv |-> Installed.rv + 1, owner |-> local.uid,
                     data |-> {ChartRoute}]
  <2>1. obj \in ConfigMap /\ obj.phase = "live" /\ obj.owner = local.uid
    BY <1>0 DEF ConfigMap, Route
  <2>2. UNCHANGED cmLog \/ cmLog' = Put(cmLog, Self, obj)
    BY <1>5 DEF CreatePartials
  <2> HIDE DEF obj
  <2>3. QED
    BY <1>1, <1>5, <2>1, <2>2 DEF Sampled, NewPartials
<1>6. ASSUME ObservePartials \/ Restart PROVE Goal
  BY <1>6 DEF ObservePartials, Restart, Follows
<1>7. ASSUME ObserveKrakend \/ ObserveNetpol \/ GcNetpol \/ UserDelete PROVE Goal
  BY <1>1, <1>7 DEF ObserveKrakend, ObserveNetpol, GcNetpol, UserDelete
<1>8. ASSUME NEW s, UserApply(s) PROVE Goal
  BY <1>1, <1>8 DEF UserApply
<1>9. ASSUME NEW n \in Names, NEW s \in ESpecs, Publish(n, s) PROVE Goal
  <2> DEFINE new == parseKrakendEndpointsSpec(Cached(krLog)[Self].spec, n, s)
             obj == [Installed EXCEPT !.data = new, !.rv = @ + 1]
  <2>1. Cached(krLog)[Self].spec \in KSpecs
    BY <1>0, <1>9 DEF Publish, Krakend
  <2>2. new \subseteq Route
    BY <2>1 DEF Route
  <2>3. cmLog' = Put(cmLog, Self, obj) /\ UNCHANGED <<krLog, res, queue, workVars, history>>
    BY <1>9 DEF Publish
  <2> HIDE DEF new
  <2>4. obj \in ConfigMap /\ obj.phase = Installed.phase /\ obj.owner = Installed.owner
    BY <1>0, <2>2 DEF ConfigMap
  <2> HIDE DEF obj
  <2>5. QED
    BY <2>3, <2>4 DEF Published, NewPartials
<1>10. ASSUME GcPartials PROVE Goal
  <2> DEFINE obj == [Installed EXCEPT !.phase = "absent", !.rv = @ + 1, !.data = {}]
  <2>1. /\ cmLog' = Put(cmLog, Self, obj) /\ UNCHANGED <<krLog, res, queue, workVars, history>>
        /\ Orphan(Installed)
    BY <1>10 DEF GcPartials
  <2>2. obj \in ConfigMap /\ obj.phase = "absent" /\ obj.owner = Installed.owner
    BY <1>0 DEF ConfigMap
  <2> HIDE DEF obj
  <2>3. QED
    BY <2>1, <2>2 DEF Collected, NewPartials
<1>11. ASSUME UNCHANGED vars PROVE Goal
  BY <1>1, <1>11 DEF vars
<1>12. QED
  <2> HIDE DEF Goal
  <2>1. Goal
    BY <1>2, <1>3, <1>4, <1>5, <1>6, <1>7, <1>8, <1>9, <1>10, <1>11
    DEF Next, Reconcile, Environment
  <2>2. QED
    BY <2>1 DEF Goal

LEMMA PartialsLogType ==
  ASSUME TypeOK, [Next]_vars
  PROVE  cmLog' \in Seq([Krakends -> ConfigMap]) /\ cmLog' # <<>>
  BY PartialsEffect, PartialsKept, NewPartialsFacts DEF Sampled, Published, Collected

LEMMA NetpolLogType ==
  ASSUME TypeOK, [Next]_vars
  PROVE  npLog' \in Seq([phase : {"absent", "live"}, owner : Nat]) /\ npLog' # <<>>
<1> DEFINE Policy == [phase : {"absent", "live"}, owner : Nat]
<1>0. npLog \in Seq(Policy) /\ npLog # <<>>
  BY DEF TypeOK
<1>1. \/ Follows(npLog', npLog)
      \/ npLog' = Append(npLog, [phase |-> "live", owner |-> local.uid])
      \/ npLog' = Append(npLog, [phase |-> "absent", owner |-> 0])
  BY DEF Next, Reconcile, Environment, Start, createOrUpdate, ApplyFails, GetPartials,
         CreatePartials, ensureKrakendNetpol, UpdateStatus, Fault, Restart, Resync,
         ObserveKrakend, ObservePartials, ObserveNetpol, Publish, UserApply, UserDelete,
         GcResource, GcPartials, GcNetpol, vars, Follows
<1>2. local.uid \in Nat
  BY DEF TypeOK, Krakend
<1>3. [phase |-> "live", owner |-> local.uid] \in Policy /\ [phase |-> "absent", owner |-> 0] \in Policy
  BY <1>2
<1> HIDE DEF Policy
<1>4. npLog' \in Seq(Policy) /\ npLog' # <<>>
  BY <1>0, <1>1, <1>3, FollowsFacts, AppendFacts
<1>5. QED
  BY <1>4 DEF Policy

(* What a step can do to the rendered resources.                           *)
LEMMA ResourcesEffect ==
  ASSUME TypeOK, [Next]_vars
  PROVE  \/ UNCHANGED res
         \/ \E x \in Resources : createOrUpdate(x)
         \/ \E x \in Resources : GcResource(x)
<1>1. ASSUME NEW outside \in BOOLEAN, Start(outside) PROVE UNCHANGED res
  BY <1>1 DEF Start
<1>2. ASSUME GetPartials \/ CreatePartials \/ ensureKrakendNetpol \/ UpdateStatus PROVE UNCHANGED res
  BY <1>2 DEF GetPartials, CreatePartials, ensureKrakendNetpol, UpdateStatus
<1>3. ASSUME \/ Fault \/ Restart \/ Resync \/ ObserveKrakend \/ ObservePartials \/ ObserveNetpol
             \/ UserDelete \/ GcPartials \/ GcNetpol \/ UNCHANGED vars
      PROVE  UNCHANGED res
  BY <1>3 DEF Fault, Restart, Resync, ObserveKrakend, ObservePartials, ObserveNetpol,
              UserDelete, GcPartials, GcNetpol, vars
<1>4. ASSUME NEW s, UserApply(s) PROVE UNCHANGED res
  BY <1>4 DEF UserApply
<1>5. ASSUME NEW n, NEW s, Publish(n, s) PROVE UNCHANGED res
  BY <1>5 DEF Publish
<1>6. ASSUME NEW x, ApplyFails(x) PROVE UNCHANGED res
  BY <1>6 DEF ApplyFails
<1>7. QED
  BY <1>1, <1>2, <1>3, <1>4, <1>5, <1>6 DEF Next, Reconcile, Environment

LEMMA ResourcesType ==
  ASSUME TypeOK, [Next]_vars
  PROVE  res' \in [Resources -> Resource]
<1>0. res \in [Resources -> Resource]
  BY DEF TypeOK
<1>1. ASSUME NEW x \in Resources, createOrUpdate(x) PROVE res' \in [Resources -> Resource]
  <2>1. local \in Krakend /\ local.spec \in KSpecs
    BY <1>1 DEF createOrUpdate, TypeOK
  <2>2. Rendered \in Resource
    BY <2>1 DEF Rendered, Resource, Krakend
  <2>3. QED
    BY <1>0, <1>1, <2>2 DEF createOrUpdate, Replace
<1>2. ASSUME NEW x \in Resources, GcResource(x) PROVE res' \in [Resources -> Resource]
  <2>1. Absent \in Resource
    BY DEF Absent, Resource
  <2>2. QED
    BY <1>0, <1>2, <2>1 DEF GcResource
<1>3. QED
  BY <1>0, <1>1, <1>2, ResourcesEffect

(* What a step can do to the worker.                                       *)
Started ==
  /\ pc = "idle" /\ pc' = "apply"
  /\ local' = Cached(krLog)[Self] /\ todo' = Resources \cup {Partials}
  /\ local'.phase = "live" /\ local'.spec \notin NoHost
  /\ UNCHANGED <<krLog, cmLog, res, history>>

Handled(x) == pc \in {"apply", "createPartials"} /\ x \in todo /\ Continue(x)

LEMMA ContinueType ==
  ASSUME TypeOK, NEW x, Handled(x)
  PROVE  /\ pc' \in {"apply", "netpol", "updateStatus"} /\ pc # "idle" /\ local' = local
         /\ todo' \subseteq Resources \cup {Partials} /\ todo' = todo \ {x}
         /\ pc' = "apply" => todo' # {}
         /\ pc' # "apply" => todo' = {}
<1>1. pc' \in {"apply", "netpol", "updateStatus"} /\ local' = local /\ todo' = todo \ {x}
  BY DEF Handled, Continue, AfterLoop
<1>2. pc' = "apply" <=> todo # {x}
  BY DEF Handled, Continue, AfterLoop
<1>3. todo' = {} <=> todo = {x}
  BY <1>1 DEF Handled
<1>4. QED
  BY <1>1, <1>2, <1>3 DEF TypeOK, Handled

LEMMA WorkerEffect ==
  ASSUME TypeOK, [Next]_vars
  PROVE  \/ UNCHANGED workVars
         \/ Return
         \/ Started
         \/ \E x : Handled(x)
         \/ pc = "apply" /\ Partials \in todo /\ pc' = "createPartials" /\ UNCHANGED <<local, todo>>
         \/ pc = "netpol" /\ pc' = "updateStatus" /\ UNCHANGED <<local, todo>>
<1> DEFINE Goal == \/ UNCHANGED workVars
                   \/ Return
                   \/ Started
                   \/ \E x : Handled(x)
                   \/ pc = "apply" /\ Partials \in todo /\ pc' = "createPartials" /\ UNCHANGED <<local, todo>>
                   \/ pc = "netpol" /\ pc' = "updateStatus" /\ UNCHANGED <<local, todo>>
<1>1. ASSUME NEW outside \in BOOLEAN, Start(outside) PROVE Goal
  BY <1>1 DEF Start, Started, NeedsWork, prepareValues
<1>2. ASSUME NEW x, createOrUpdate(x) PROVE Goal
  BY <1>2 DEF createOrUpdate, Handled
<1>3. ASSUME NEW x, ApplyFails(x) PROVE Goal
  BY <1>3 DEF ApplyFails, Handled, TypeOK
<1>4. ASSUME GetPartials PROVE Goal
  BY <1>4 DEF GetPartials, Handled
<1>5. ASSUME CreatePartials PROVE Goal
  BY <1>5 DEF CreatePartials, Handled, TypeOK
<1>6. ASSUME ensureKrakendNetpol PROVE Goal
  BY <1>6 DEF ensureKrakendNetpol, Fail
<1>7. ASSUME UpdateStatus \/ Fault \/ Restart PROVE Goal
  BY <1>7 DEF UpdateStatus, Fault, Restart, Fail, Done
<1>8. ASSUME \/ Resync \/ ObserveKrakend \/ ObservePartials \/ ObserveNetpol
             \/ UserDelete \/ GcPartials \/ GcNetpol \/ UNCHANGED vars
      PROVE  Goal
  BY <1>8 DEF Resync, ObserveKrakend, ObservePartials, ObserveNetpol, UserDelete, GcPartials,
              GcNetpol, vars
<1>9. ASSUME NEW s, UserApply(s) PROVE Goal
  BY <1>9 DEF UserApply
<1>10. ASSUME NEW n, NEW s, Publish(n, s) PROVE Goal
  BY <1>10 DEF Publish
<1>11. ASSUME NEW x, GcResource(x) PROVE Goal
  BY <1>11 DEF GcResource
<1>12. QED
  <2> HIDE DEF Goal
  <2>1. Goal
    BY <1>1, <1>2, <1>3, <1>4, <1>5, <1>6, <1>7, <1>8, <1>9, <1>10, <1>11
    DEF Next, Reconcile, Environment
  <2>2. QED
    BY <2>1 DEF Goal

WorkerOK ==
  /\ pc \in {"idle", "apply", "createPartials", "netpol", "updateStatus"}
  /\ local \in Krakend
  /\ pc # "idle" => local.phase = "live" /\ local.spec \in KSpecs \ NoHost
  /\ todo \subseteq Resources \cup {Partials}
  /\ pc = "apply" => todo # {}
  /\ pc = "createPartials" => Partials \in todo
  /\ pc \in {"idle", "netpol", "updateStatus"} => todo = {}

LEMMA WorkerType ==
  ASSUME TypeOK, [Next]_vars
  PROVE  WorkerOK'
<1>0. WorkerOK
  BY DEF TypeOK, WorkerOK
<1>1. CASE UNCHANGED workVars
  BY <1>0, <1>1 DEF WorkerOK, workVars
<1>2. CASE Return
  <2>1. NoKrakend \in Krakend
    BY DEF NoKrakend, Krakend
  <2>2. QED
    BY <1>2, <2>1 DEF WorkerOK, Return
<1>3. CASE Started
  <2>1. local' \in Krakend /\ local'.phase = "live" /\ local'.spec \notin NoHost
    BY <1>3, SnapshotTypes DEF Started
  <2>2. local'.spec \in KSpecs
    BY <2>1 DEF Krakend
  <2>3. QED
    BY <1>3, <2>1, <2>2 DEF WorkerOK, Started
<1>4. CASE \E x : Handled(x)
  <2>1. PICK x : Handled(x)
    BY <1>4
  <2>2. QED
    BY <1>0, <2>1, ContinueType DEF WorkerOK
<1>5. CASE pc = "apply" /\ Partials \in todo /\ pc' = "createPartials" /\ UNCHANGED <<local, todo>>
  BY <1>0, <1>5 DEF WorkerOK
<1>6. CASE pc = "netpol" /\ pc' = "updateStatus" /\ UNCHANGED <<local, todo>>
  BY <1>0, <1>6 DEF WorkerOK
<1>7. QED
  BY <1>1, <1>2, <1>3, <1>4, <1>5, <1>6, WorkerEffect

HistoryOK ==
  /\ queue \in BOOLEAN
  /\ used \in [BoundKinds -> Nat]
  /\ failed \subseteq Resources \cup {Partials}
  /\ carried \subseteq KSpecs
  /\ {reverted, adopted, staleRead, lost} \subseteq BOOLEAN

LEMMA SpendType ==
  ASSUME used \in [BoundKinds -> Nat], NEW kind \in BoundKinds, Spend(kind)
  PROVE  used' \in [BoundKinds -> Nat]
  BY DEF Spend

LEMMA HistoryType ==
  ASSUME TypeOK, [Next]_vars
  PROVE  HistoryOK'
<1>0. HistoryOK /\ todo \subseteq Resources \cup {Partials}
  BY DEF TypeOK, HistoryOK
<1>1. \A kind \in BoundKinds : Spend(kind) => used' \in [BoundKinds -> Nat]
  BY <1>0, SpendType DEF HistoryOK
<1>2. {"op", "krakendOp", "fault", "restart", "resync", "gc"} \subseteq BoundKinds
  BY DEF BoundKinds
<1>3. ASSUME NEW outside \in BOOLEAN, Start(outside) PROVE HistoryOK'
  BY <1>0, <1>1, <1>2, <1>3 DEF Start, HistoryOK, history
<1>4. ASSUME NEW x, createOrUpdate(x) PROVE HistoryOK'
  BY <1>0, <1>4 DEF createOrUpdate, Continue, HistoryOK
<1>5. ASSUME NEW x \in Resources \cup {Partials}, ApplyFails(x) PROVE HistoryOK'
  BY <1>0, <1>1, <1>2, <1>5 DEF ApplyFails, Continue, HistoryOK
<1>6. ASSUME GetPartials PROVE HistoryOK'
  BY <1>0, <1>6 DEF GetPartials, Continue, HistoryOK
<1>7. ASSUME CreatePartials PROVE HistoryOK'
  BY <1>0, <1>7 DEF CreatePartials, Continue, HistoryOK
<1>8. ASSUME ensureKrakendNetpol \/ UpdateStatus PROVE HistoryOK'
  BY <1>0, <1>8 DEF ensureKrakendNetpol, UpdateStatus, Fail, Done, HistoryOK, history
<1>9. ASSUME Fault \/ Restart \/ Resync PROVE HistoryOK'
  BY <1>0, <1>1, <1>2, <1>9 DEF Fault, Restart, Resync, Fail, HistoryOK, history
<1>10. ASSUME ObserveKrakend \/ ObservePartials \/ ObserveNetpol PROVE HistoryOK'
  BY <1>0, <1>10 DEF ObserveKrakend, ObservePartials, ObserveNetpol, HistoryOK, history
<1>11. ASSUME NEW n, NEW s, Publish(n, s) PROVE HistoryOK'
  BY <1>0, <1>1, <1>2, <1>11 DEF Publish, HistoryOK, history
<1>12. ASSUME NEW s \in KSpecs, UserApply(s) PROVE HistoryOK'
  BY <1>0, <1>1, <1>2, <1>12 DEF UserApply, HistoryOK
<1>13. ASSUME UserDelete \/ GcPartials \/ GcNetpol PROVE HistoryOK'
  BY <1>0, <1>1, <1>2, <1>13 DEF UserDelete, GcPartials, GcNetpol, HistoryOK, history
<1>14. ASSUME NEW x, GcResource(x) PROVE HistoryOK'
  BY <1>0, <1>1, <1>2, <1>14 DEF GcResource, HistoryOK, history
<1>15. ASSUME UNCHANGED vars PROVE HistoryOK'
  BY <1>0, <1>15 DEF vars, HistoryOK, history
<1>16. QED
  BY <1>3, <1>4, <1>5, <1>6, <1>7, <1>8, <1>9, <1>10, <1>11, <1>12, <1>13, <1>14, <1>15
  DEF Next, Reconcile, Environment

LEMMA TypeStep ==
  ASSUME TypeOK, [Next]_vars
  PROVE  TypeOK'
  BY KrakendLogType, PartialsLogType, NetpolLogType, ResourcesType, WorkerType, HistoryType
  DEF TypeOK, WorkerOK, HistoryOK

LEMMA TypeInit == Init => TypeOK
<1> SUFFICES ASSUME Init PROVE TypeOK
  OBVIOUS
<1> DEFINE first == [NoKrakend EXCEPT !.rv = 1, !.uid = 1]
<1>1. NoKrakend \in Krakend /\ first \in Krakend
  BY DEF NoKrakend, Krakend
<1>2. krLog \in Seq([Krakends -> Krakend]) /\ krLog # <<>>
  <2>1. krLog = <<[k \in Krakends |-> first]>>
    BY DEF Init
  <2> HIDE DEF first
  <2>2. QED
    BY <1>1, <2>1
<1>3. NoConfigMap \in ConfigMap
  BY DEF NoConfigMap, ConfigMap
<1>4. cmLog \in Seq([Krakends -> ConfigMap]) /\ cmLog # <<>>
  BY <1>3 DEF Init
<1>5. npLog \in Seq([phase : {"absent", "live"}, owner : Nat]) /\ npLog # <<>>
  BY DEF Init
<1>6. res \in [Resources -> Resource]
  BY DEF Init, Absent, Resource
<1>7. QED
  BY <1>1, <1>2, <1>4, <1>5, <1>6 DEF Init, TypeOK

(* Whatever the caches show and whichever calls fail, Reconcile renders    *)
(* only specs with a host and never reads a copy it has not fetched.       *)
THEOREM KrakendTypeCorrect == Spec => []TypeOK
  BY TypeInit, TypeStep, PTL DEF Spec

-----------------------------------------------------------------------------
LEMMA WorkerKeeps ==
  ASSUME TypeOK, [Next]_vars, pc' # "idle"
  PROVE  Started \/ (pc # "idle" /\ local' = local)
  BY WorkerEffect, ContinueType DEF workVars, Return

LEMMA VersionEffect ==
  ASSUME TypeOK, LocalOld, [Next]_vars
  PROVE  Follows(krLog', krLog) \/ \E obj : NewVersion(obj)
  BY KrakendEffect, StatusVersion, ApplyVersion, DeleteVersion

LEMMA NumbersOK ==
  ASSUME TypeOK
  PROVE  /\ \A i \in 1..Len(krLog) : krLog[i][Self].rv \in Nat /\ krLog[i][Self].uid \in Nat
         /\ \A i \in 1..Len(cmLog) : cmLog[i][Self].owner \in Nat
         /\ local.rv \in Nat /\ local.uid \in Nat
         /\ Current.rv \in Nat /\ Current.uid \in Nat
         /\ Current.phase \in {"absent", "live"}
         /\ Installed.owner \in Nat /\ Installed.phase \in {"absent", "live"}
<1>1. \A i \in 1..Len(krLog) : krLog[i][Self] \in Krakend
  BY SnapshotTypes
<1>2. \A i \in 1..Len(cmLog) : cmLog[i][Self] \in ConfigMap
  BY SnapshotTypes
<1>3. local \in Krakend /\ Current \in Krakend /\ Installed \in ConfigMap
  BY SnapshotTypes DEF TypeOK
<1>4. QED
  BY <1>1, <1>2, <1>3 DEF Krakend, ConfigMap

LEMMA OrderedStep ==
  ASSUME TypeOK, Ordered, LocalOld, [Next]_vars
  PROVE  Ordered'
<1>0. /\ Len(krLog) \in Nat \ {0} /\ Current = krLog[Len(krLog)][Self]
      /\ krLog \in Seq([Krakends -> Krakend]) /\ krLog # <<>>
  BY SnapshotTypes
<1>1. CASE Follows(krLog', krLog)
  <2>1. PICK d \in Nat : /\ d < Len(krLog) /\ Len(krLog') = Len(krLog) - d
                         /\ \A i \in 1..Len(krLog') : i + d \in 1..Len(krLog) /\ krLog'[i] = krLog[i + d]
    BY <1>0, <1>1, FollowsFacts
  <2> SUFFICES ASSUME NEW i \in 1..Len(krLog'), NEW j \in 1..Len(krLog'), i <= j
               PROVE  Older(krLog'[i][Self], krLog'[j][Self])
    BY DEF Ordered
  <2>2. /\ i + d \in 1..Len(krLog) /\ j + d \in 1..Len(krLog) /\ i + d <= j + d
        /\ krLog'[i] = krLog[i + d] /\ krLog'[j] = krLog[j + d]
    BY <1>0, <2>1
  <2>3. QED
    BY <2>2 DEF Ordered
<1>2. ASSUME NEW obj, NewVersion(obj) PROVE Ordered'
  <2> SUFFICES ASSUME NEW i \in 1..Len(krLog'), NEW j \in 1..Len(krLog'), i <= j
               PROVE  Older(krLog'[i][Self], krLog'[j][Self])
    BY DEF Ordered
  <2>1. /\ Len(krLog') = Len(krLog) + 1
        /\ \A x \in 1..Len(krLog) : krLog'[x] = krLog[x]
        /\ krLog'[Len(krLog) + 1][Self] = obj
    BY <1>2, NewVersionFacts
  <2>2. obj.rv = Current.rv + 1 /\ obj.uid >= Current.uid /\ obj.rv \in Nat /\ obj.uid \in Nat
    BY <1>2 DEF NewVersion, Krakend
  <2>3. CASE j \in 1..Len(krLog)
    BY <1>0, <2>1, <2>3 DEF Ordered
  <2>4. CASE i = Len(krLog) + 1 /\ j = Len(krLog) + 1
    BY <2>1, <2>2, <2>4 DEF Older
  <2>5. CASE i \in 1..Len(krLog) /\ j = Len(krLog) + 1
    <3>1. krLog[i][Self].rv <= Current.rv /\ krLog[i][Self].uid <= Current.uid
      BY <1>0, <2>5 DEF Ordered, Older
    <3>2. krLog[i][Self].rv < obj.rv /\ krLog[i][Self].uid <= obj.uid
      BY <2>2, <2>5, <3>1, NumbersOK
    <3>3. QED
      BY <2>1, <2>2, <2>5, <3>2, NumbersOK DEF Older
  <2>6. QED
    BY <1>0, <2>1, <2>3, <2>4, <2>5
<1>3. QED
  BY <1>1, <1>2, VersionEffect

LEMMA LocalOldStep ==
  ASSUME TypeOK, Ordered, LocalOld, [Next]_vars
  PROVE  LocalOld'
<1>0. /\ Len(krLog) \in Nat \ {0} /\ Current = krLog[Len(krLog)][Self]
      /\ Cached(krLog) = krLog[1]
  BY SnapshotTypes
<1>1. CASE pc' = "idle"
  BY <1>1 DEF LocalOld
<1>2. CASE Started
  BY <1>0, <1>2 DEF Started, LocalOld, Ordered
<1>3. CASE pc # "idle" /\ local' = local
  <2>0. \A i \in 1..Len(krLog) : Older(local, krLog[i][Self])
    BY <1>3 DEF LocalOld
  <2>1. CASE Follows(krLog', krLog)
    BY <1>3, <2>0, <2>1, KrakendKept DEF LocalOld
  <2>2. ASSUME NEW obj, NewVersion(obj) PROVE LocalOld'
    <3>1. /\ Len(krLog') = Len(krLog) + 1
          /\ \A x \in 1..Len(krLog) : krLog'[x] = krLog[x]
          /\ krLog'[Len(krLog) + 1][Self] = obj
      BY <2>2, NewVersionFacts
    <3>2. obj.rv = Current.rv + 1 /\ obj.uid >= Current.uid /\ obj.rv \in Nat /\ obj.uid \in Nat
      BY <2>2 DEF NewVersion, Krakend
    <3>3. local.rv <= Current.rv /\ local.uid <= Current.uid
      BY <1>0, <2>0 DEF Older
    <3>4. Older(local, obj)
      BY <3>2, <3>3, NumbersOK DEF Older
    <3>5. \A i \in 1..Len(krLog') : i \in 1..Len(krLog) \/ i = Len(krLog) + 1
      BY <1>0, <3>1
    <3>6. QED
      BY <1>3, <2>0, <3>1, <3>4, <3>5 DEF LocalOld
  <2>3. QED
    BY <2>1, <2>2, VersionEffect
<1>4. QED
  BY <1>1, <1>2, <1>3, WorkerKeeps

(* The oldest copy around bounds the owner of every stored ConfigMap.      *)
LEMMA OwnersOldStep ==
  ASSUME TypeOK, Ordered, LocalOld, OwnersOld, [Next]_vars
  PROVE  OwnersOld'
<1>0. /\ Len(krLog) \in Nat \ {0} /\ Current = krLog[Len(krLog)][Self]
      /\ Len(cmLog) \in Nat \ {0} /\ Installed = cmLog[Len(cmLog)][Self]
      /\ Cached(krLog) = krLog[1]
  BY SnapshotTypes
<1>1. ASSUME NEW o \in Nat, \A j \in 1..Len(krLog) : o <= krLog[j][Self].uid
      PROVE  \A j \in 1..Len(krLog') : o <= krLog'[j][Self].uid
  <2>1. CASE Follows(krLog', krLog)
    BY <1>1, <2>1, KrakendKept
  <2>2. ASSUME NEW obj, NewVersion(obj) PROVE \A j \in 1..Len(krLog') : o <= krLog'[j][Self].uid
    <3>1. /\ Len(krLog') = Len(krLog) + 1
          /\ \A x \in 1..Len(krLog) : krLog'[x] = krLog[x]
          /\ krLog'[Len(krLog) + 1][Self] = obj
      BY <2>2, NewVersionFacts
    <3>2. obj.uid >= Current.uid /\ obj.uid \in Nat /\ o <= Current.uid
      BY <1>0, <1>1, <2>2 DEF NewVersion, Krakend
    <3>3. \A i \in 1..Len(krLog') : i \in 1..Len(krLog) \/ i = Len(krLog) + 1
      BY <1>0, <3>1
    <3>4. o <= obj.uid
      BY <3>2, NumbersOK
    <3>5. QED
      BY <1>1, <3>1, <3>3, <3>4
  <2>3. QED
    BY <2>1, <2>2, VersionEffect
<1>2. ASSUME NEW o \in Nat, \A j \in 1..Len(krLog) : o <= krLog[j][Self].uid,
             pc # "idle" => o <= local.uid
      PROVE  pc' # "idle" => o <= local'.uid
  BY <1>0, <1>2, WorkerKeeps DEF Started
<1>3. ASSUME NEW o \in Nat, \A j \in 1..Len(krLog) : o <= krLog[j][Self].uid,
             pc # "idle" => o <= local.uid
      PROVE  /\ \A j \in 1..Len(krLog') : o <= krLog'[j][Self].uid
             /\ pc' # "idle" => o <= local'.uid
  BY <1>1, <1>2, <1>3
<1>4. ASSUME NEW i \in 1..Len(cmLog)
      PROVE  /\ \A j \in 1..Len(krLog') : cmLog[i][Self].owner <= krLog'[j][Self].uid
             /\ pc' # "idle" => cmLog[i][Self].owner <= local'.uid
  BY <1>3, <1>4, NumbersOK DEF OwnersOld
<1>5. CASE Follows(cmLog', cmLog)
  BY <1>4, <1>5, PartialsKept DEF OwnersOld
<1>6. ASSUME NEW obj, NewPartials(obj),
             /\ \A j \in 1..Len(krLog') : obj.owner <= krLog'[j][Self].uid
             /\ pc' # "idle" => obj.owner <= local'.uid
      PROVE  OwnersOld'
  <2>1. \A i \in 1..Len(cmLog') :
          cmLog'[i][Self] = obj \/ (i \in 1..Len(cmLog) /\ cmLog'[i] = cmLog[i])
    BY <1>6, NewPartialsFacts
  <2>2. QED
    BY <1>4, <1>6, <2>1 DEF OwnersOld
<1>7. ASSUME NEW obj, Sampled(obj) PROVE OwnersOld'
  <2>1. obj.owner = local.uid /\ pc # "idle" /\ NewPartials(obj)
    BY <1>7 DEF Sampled, CreatePartials
  <2>2. \A j \in 1..Len(krLog) : local.uid <= krLog[j][Self].uid
    BY <2>1 DEF LocalOld, Older
  <2>3. local.uid <= local.uid
    BY NumbersOK
  <2>4. QED
    BY <1>3, <1>6, <2>1, <2>2, <2>3, NumbersOK
<1>8. ASSUME NEW obj, Published(obj) \/ Collected(obj) PROVE OwnersOld'
  <2>1. obj.owner = Installed.owner /\ NewPartials(obj)
    BY <1>8 DEF Published, Collected
  <2>2. QED
    BY <1>0, <1>4, <1>6, <2>1
<1>9. QED
  BY <1>5, <1>7, <1>8, PartialsEffect

-----------------------------------------------------------------------------
(* The same writes, by what they do to the stored Krakend.                 *)
Untouched == Follows(krLog', krLog) /\ Current' = Current /\ UNCHANGED <<carried, reverted>>

Removed ==
  /\ \E obj : NewVersion(obj)
  /\ Current'.phase = "absent" /\ UNCHANGED <<cmLog, res, queue, workVars, history>>

Created ==
  /\ \E obj : NewVersion(obj)
  /\ Current'.phase = "live" /\ Current'.uid = Current.uid + 1 /\ Current'.hash = None
  /\ Current'.spec \in carried'
  /\ UNCHANGED <<cmLog, res, queue, workVars, failed, adopted, staleRead, lost>>

Respecified ==
  /\ \E obj : NewVersion(obj)
  /\ Current.phase = "live" /\ Current'.phase = "live"
  /\ Current'.uid = Current.uid /\ Current'.hash = Current.hash
  /\ carried' = carried \cup {Current'.spec} /\ (Current'.spec \in carried => reverted')
  /\ UNCHANGED <<cmLog, res, queue, workVars, failed, adopted, staleRead, lost>>

Confirmed ==
  /\ \E obj : NewVersion(obj)
  /\ pc = "updateStatus" /\ pc' = "idle" /\ local = Current
  /\ \A i \in 1..Len(krLog) : Older(local, krLog[i][Self])
  /\ Current.phase = "live" /\ Current'.phase = "live"
  /\ Current'.uid = Current.uid /\ Current'.spec = Current.spec /\ Current'.hash = Current.spec
  /\ UNCHANGED <<cmLog, res, queue, history>>

LEMMA CurrentEffect ==
  ASSUME TypeOK, LocalOld, [Next]_vars
  PROVE  Untouched \/ Removed \/ Created \/ Respecified \/ Confirmed
<1>1. CASE Follows(krLog', krLog) /\ UNCHANGED <<carried, reverted>>
  BY <1>1, KrakendKept DEF Untouched
<1>2. CASE StatusWritten
  <2>1. PICK obj : /\ NewVersion(obj)
                   /\ obj.phase = "live" /\ obj.uid = Current.uid
                   /\ obj.spec = Current.spec /\ obj.hash = Current.spec
    BY <1>2, StatusVersion
  <2>2. Current' = obj
    BY <2>1, NewVersionFacts
  <2>3. QED
    BY <1>2, <2>1, <2>2, StatusVersion DEF Confirmed, StatusWritten
<1>3. ASSUME NEW s \in KSpecs, UserApply(s) PROVE Created \/ Respecified
  <2>1. PICK obj : /\ NewVersion(obj)
                   /\ obj.phase = "live" /\ obj.spec = s
                   /\ Current.phase = "absent" => obj.uid = Current.uid + 1 /\ obj.hash = None
                   /\ Current.phase = "live" => obj.uid = Current.uid /\ obj.hash = Current.hash
    BY <1>3, ApplyVersion
  <2>2. Current' = obj
    BY <2>1, NewVersionFacts
  <2>3. CASE Current.phase = "absent"
    <3>1. carried' = {s} /\ UNCHANGED <<cmLog, res, queue, workVars, failed, adopted, staleRead, lost>>
      BY <1>3, <2>3 DEF UserApply
    <3>2. QED
      BY <2>1, <2>2, <2>3, <3>1 DEF Created
  <2>4. CASE Current.phase = "live"
    <3>1. /\ carried' = carried \cup {s} /\ (s \in carried => reverted')
          /\ UNCHANGED <<cmLog, res, queue, workVars, failed, adopted, staleRead, lost>>
      BY <1>3, <2>4 DEF UserApply
    <3>2. QED
      BY <2>1, <2>2, <2>4, <3>1 DEF Respecified
  <2>5. QED
    BY <2>3, <2>4, NumbersOK
<1>4. CASE UserDelete
  <2>1. PICK obj : NewVersion(obj) /\ obj.phase = "absent"
    BY <1>4, DeleteVersion
  <2>2. Current' = obj
    BY <2>1, NewVersionFacts
  <2>3. QED
    BY <1>4, <2>1, <2>2 DEF Removed, UserDelete
<1>5. QED
  BY <1>1, <1>2, <1>3, <1>4, KrakendEffect

LEMMA OwnedStaysStep ==
  ASSUME TypeOK, LocalOld, OwnersOld, OwnedStays, [Next]_vars
  PROVE  OwnedStays'
<1>0. /\ Len(krLog) \in Nat \ {0} /\ Current = krLog[Len(krLog)][Self]
      /\ Len(cmLog) \in Nat \ {0} /\ Installed = cmLog[Len(cmLog)][Self]
  BY SnapshotTypes
<1>1. ASSUME Removed \/ Created \/ Respecified \/ Confirmed PROVE OwnedStays'
  <2>1. cmLog' = cmLog /\ Installed' = Installed
    BY <1>1 DEF Removed, Created, Respecified, Confirmed, Installed
  <2>2. CASE Removed
    BY <2>2 DEF Removed, OwnedStays
  <2>3. CASE Created
    <3>1. \A i \in 1..Len(cmLog) : cmLog[i][Self].owner <= Current.uid
      BY <1>0 DEF OwnersOld
    <3>2. \A i \in 1..Len(cmLog) : cmLog[i][Self].owner # Current.uid + 1
      BY <3>1, NumbersOK
    <3>3. QED
      BY <2>1, <2>3, <3>2 DEF Created, OwnedStays
  <2>4. CASE Respecified \/ Confirmed
    BY <2>1, <2>4 DEF Respecified, Confirmed, OwnedStays
  <2>5. QED
    BY <1>1, <2>2, <2>3, <2>4
<1>2. ASSUME Current' = Current, Follows(cmLog', cmLog) PROVE OwnedStays'
  BY <1>2, PartialsKept DEF OwnedStays
<1>3. ASSUME NEW obj, Sampled(obj), Current' = Current PROVE OwnedStays'
  <2>1. /\ Installed' = obj
        /\ \A i \in 1..Len(cmLog') :
             cmLog'[i][Self] = obj \/ (i \in 1..Len(cmLog) /\ cmLog'[i] = cmLog[i])
    BY <1>3, NewPartialsFacts DEF Sampled
  <2>2. obj.phase = "live" /\ obj.owner = local.uid /\ pc # "idle"
    BY <1>3 DEF Sampled, CreatePartials
  <2>3. local.uid <= Current.uid
    BY <1>0, <2>2 DEF LocalOld, Older
  <2>4. \A i \in 1..Len(cmLog) : cmLog[i][Self].owner <= local.uid
    BY <2>2 DEF OwnersOld
  <2>5. \A i \in 1..Len(cmLog) : cmLog[i][Self].owner = Current.uid => obj.owner = Current.uid
    BY <2>2, <2>3, <2>4, NumbersOK
  <2>6. QED
    BY <1>3, <2>1, <2>2, <2>5 DEF OwnedStays
<1>4. ASSUME NEW obj, Published(obj) \/ Collected(obj), Current' = Current PROVE OwnedStays'
  <2>1. /\ Installed' = obj
        /\ \A i \in 1..Len(cmLog') :
             cmLog'[i][Self] = obj \/ (i \in 1..Len(cmLog) /\ cmLog'[i] = cmLog[i])
    BY <1>4, NewPartialsFacts DEF Published, Collected
  <2>2. CASE Published(obj)
    BY <1>0, <1>4, <2>1, <2>2 DEF Published, OwnedStays
  <2>3. CASE Collected(obj)
    <3>1. obj.phase = "absent" /\ (Current.phase = "absent" \/ Current.uid # Installed.owner)
      BY <2>3 DEF Collected, Orphan
    <3>2. QED
      BY <1>0, <1>4, <2>1, <3>1 DEF OwnedStays
  <2>4. QED
    BY <1>4, <2>2, <2>3
<1>5. QED
  BY <1>1, <1>2, <1>3, <1>4, CurrentEffect, PartialsEffect DEF Untouched

(* Only the worker creates partials, and it has looked.                    *)
LEMMA FreshCreateStep ==
  ASSUME TypeOK, FreshCreate, [Next]_vars
  PROVE  FreshCreate'
<1>1. CASE GetPartials
  <2>1. cmLog' = cmLog /\ Installed' = Installed
    BY <1>1 DEF GetPartials, Installed
  <2>2. pc' = "createPartials" /\ ~staleRead' =>
          Cached(cmLog)[Self].phase # "live" /\ ~(Cached(cmLog)[Self].phase = "absent" /\ Installed.phase = "live")
    BY <1>1 DEF GetPartials, Continue, AfterLoop, Skip
  <2>3. Cached(cmLog)[Self].phase \in {"absent", "live"}
    BY SnapshotTypes DEF ConfigMap
  <2>4. QED
    BY <2>1, <2>2, <2>3, NumbersOK DEF FreshCreate
<1>2. CASE pc' # "createPartials"
  BY <1>2 DEF FreshCreate
<1>3. ASSUME ~GetPartials, pc' = "createPartials" PROVE UNCHANGED <<pc, staleRead>>
  <2>1. ASSUME NEW outside \in BOOLEAN, Start(outside) PROVE UNCHANGED <<pc, staleRead>>
    BY <1>3, <2>1 DEF Start, workVars, history
  <2>2. ASSUME NEW x, createOrUpdate(x) \/ ApplyFails(x) PROVE FALSE
    BY <1>3, <2>2 DEF createOrUpdate, ApplyFails, Continue, AfterLoop
  <2>3. ASSUME CreatePartials \/ ensureKrakendNetpol \/ UpdateStatus \/ Fault \/ Restart PROVE FALSE
    BY <1>3, <2>3 DEF CreatePartials, ensureKrakendNetpol, UpdateStatus, Fault, Restart, Continue,
                      AfterLoop, Fail, Done, Return
  <2>4. ASSUME \/ Resync \/ ObserveKrakend \/ ObservePartials \/ ObserveNetpol
               \/ UserDelete \/ GcPartials \/ GcNetpol \/ UNCHANGED vars
        PROVE  UNCHANGED <<pc, staleRead>>
    BY <2>4 DEF Resync, ObserveKrakend, ObservePartials, ObserveNetpol, UserDelete, GcPartials,
                GcNetpol, vars, workVars, history
  <2>5. ASSUME NEW s, UserApply(s) PROVE UNCHANGED <<pc, staleRead>>
    BY <2>5 DEF UserApply, workVars
  <2>6. ASSUME NEW n, NEW s, Publish(n, s) PROVE UNCHANGED <<pc, staleRead>>
    BY <2>6 DEF Publish, workVars, history
  <2>7. ASSUME NEW x, GcResource(x) PROVE UNCHANGED <<pc, staleRead>>
    BY <2>7 DEF GcResource, workVars, history
  <2>8. QED
    BY <1>3, <2>1, <2>2, <2>3, <2>4, <2>5, <2>6, <2>7 DEF Next, Reconcile, Environment
<1>4. CASE ~GetPartials /\ pc' = "createPartials"
  <2>1. UNCHANGED <<pc, staleRead>>
    BY <1>3, <1>4
  <2>2. CASE Follows(cmLog', cmLog)
    BY <2>1, <2>2, PartialsKept DEF FreshCreate
  <2>3. ASSUME NEW obj, Sampled(obj) PROVE FALSE
    BY <1>4, <2>3 DEF Sampled, CreatePartials, Continue, AfterLoop
  <2>4. ASSUME NEW obj, Published(obj) \/ Collected(obj) PROVE FreshCreate'
    <3>1. Installed' = obj /\ (obj.phase = Installed.phase \/ obj.phase = "absent")
      BY <2>4, NewPartialsFacts DEF Published, Collected
    <3>2. QED
      BY <2>1, <3>1 DEF FreshCreate
  <2>5. QED
    BY <2>2, <2>3, <2>4, PartialsEffect
<1>5. QED
  BY <1>1, <1>2, <1>4

LEMMA LostStep ==
  ASSUME TypeOK, FreshCreate, RoutesLostByStaleReadOnly, [Next]_vars
  PROVE  RoutesLostByStaleReadOnly'
<1>1. ASSUME UNCHANGED <<staleRead, lost>> PROVE RoutesLostByStaleReadOnly'
  BY <1>1 DEF RoutesLostByStaleReadOnly
<1>2. ASSUME NEW outside \in BOOLEAN, Start(outside) PROVE UNCHANGED <<staleRead, lost>>
  BY <1>2 DEF Start, history
<1>3. ASSUME NEW x, createOrUpdate(x) \/ ApplyFails(x) \/ GcResource(x)
      PROVE  UNCHANGED <<staleRead, lost>>
  BY <1>3 DEF createOrUpdate, ApplyFails, GcResource, history
<1>4. ASSUME GetPartials PROVE RoutesLostByStaleReadOnly'
  <2>1. lost' = lost
    BY <1>4 DEF GetPartials
  <2>2. staleRead' = staleRead
        \/ staleRead' = (staleRead \/ (Cached(cmLog)[Self].phase = "absent" /\ Installed.phase = "live"))
    BY <1>4 DEF GetPartials
  <2>3. QED
    BY <2>1, <2>2 DEF RoutesLostByStaleReadOnly, TypeOK
<1>5. ASSUME CreatePartials PROVE RoutesLostByStaleReadOnly'
  BY <1>5 DEF CreatePartials, FreshCreate, RoutesLostByStaleReadOnly
<1>6. ASSUME \/ ensureKrakendNetpol \/ UpdateStatus \/ Fault \/ Restart
             \/ Resync \/ ObserveKrakend \/ ObservePartials \/ ObserveNetpol
             \/ UserDelete \/ GcPartials \/ GcNetpol \/ UNCHANGED vars
      PROVE  UNCHANGED <<staleRead, lost>>
  BY <1>6 DEF ensureKrakendNetpol, UpdateStatus, Fault, Restart, Resync, ObserveKrakend,
              ObservePartials, ObserveNetpol, UserDelete, GcPartials, GcNetpol, vars, history
<1>7. ASSUME NEW s, UserApply(s) PROVE UNCHANGED <<staleRead, lost>>
  BY <1>7 DEF UserApply
<1>8. ASSUME NEW n, NEW s, Publish(n, s) PROVE UNCHANGED <<staleRead, lost>>
  BY <1>8 DEF Publish, history
<1>9. QED
  BY <1>1, <1>2, <1>3, <1>4, <1>5, <1>6, <1>7, <1>8 DEF Next, Reconcile, Environment

LEMMA HashCarriedStep ==
  ASSUME TypeOK, LocalOld, HashCarried, [Next]_vars
  PROVE  HashCarried'
<1>1. CASE Untouched
  BY <1>1 DEF Untouched, HashCarried
<1>2. CASE Removed
  BY <1>2 DEF Removed, HashCarried
<1>3. CASE Created
  BY <1>3 DEF Created, HashCarried
<1>4. CASE Respecified
  BY <1>4 DEF Respecified, HashCarried
<1>5. CASE Confirmed
  BY <1>5 DEF Confirmed, HashCarried, history
<1>6. QED
  BY <1>1, <1>2, <1>3, <1>4, <1>5, CurrentEffect

(* Snapshots after a write.                                                *)
LEMMA SnapshotsAfterWrite ==
  ASSUME TypeOK, NEW obj, NewVersion(obj)
  PROVE  \A i \in 1..Len(krLog') :
           krLog'[i][Self] = Current' \/ (i \in 1..Len(krLog) /\ krLog'[i] = krLog[i])
<1>1. /\ Current' = obj /\ Len(krLog') = Len(krLog) + 1 /\ Len(krLog) \in Nat
      /\ \A i \in 1..Len(krLog) : krLog'[i] = krLog[i]
      /\ krLog'[Len(krLog) + 1][Self] = obj
  BY NewVersionFacts, SnapshotTypes
<1>2. \A i \in 1..Len(krLog') : i \in 1..Len(krLog) \/ i = Len(krLog) + 1
  BY <1>1
<1>3. QED
  BY <1>1, <1>2

(* When the status is written every cache and event shows the same object. *)
LEMMA ConfirmedFacts ==
  ASSUME TypeOK, Ordered, Confirmed
  PROVE  \A i \in 1..Len(krLog) : krLog[i][Self] = Current
<1>0. Len(krLog) \in Nat \ {0} /\ Current = krLog[Len(krLog)][Self]
  BY SnapshotTypes
<1> TAKE i \in 1..Len(krLog)
<1>1. krLog[i][Self].rv <= Current.rv /\ (krLog[i][Self].rv = Current.rv => krLog[i][Self] = Current)
  BY <1>0 DEF Ordered, Older
<1>2. local.rv <= krLog[i][Self].rv /\ local.rv = Current.rv
  BY DEF Confirmed, Older
<1>3. QED
  BY <1>1, <1>2, NumbersOK

LEMMA MarkedStep ==
  ASSUME TypeOK, Ordered, LocalOld, Marked, [Next]_vars
  PROVE  Marked'
<1>0. /\ Len(krLog) \in Nat \ {0} /\ Cached(krLog) = krLog[1]
  BY SnapshotTypes
<1>1. CASE Untouched
  <2> SUFFICES ASSUME Current.phase = "live", Current.hash # None
               PROVE  /\ \A i \in 1..Len(krLog') : krLog'[i][Self].uid = Current.uid
                      /\ pc' # "idle" => local'.uid = Current.uid
    BY <1>1 DEF Untouched, Marked
  <2>1. \A i \in 1..Len(krLog) : krLog[i][Self].uid = Current.uid
    BY DEF Marked
  <2>2. \A i \in 1..Len(krLog') : krLog'[i][Self].uid = Current.uid
    BY <1>1, <2>1, KrakendKept DEF Untouched
  <2>3. pc' # "idle" => local'.uid = Current.uid
    BY <1>0, <2>1, WorkerKeeps DEF Started, Marked
  <2>4. QED
    BY <2>2, <2>3
<1>2. CASE Removed \/ Created
  BY <1>2 DEF Removed, Created, Marked
<1>3. CASE Respecified
  BY <1>3, SnapshotsAfterWrite DEF Respecified, Marked, workVars
<1>4. CASE Confirmed
  <2>1. \A i \in 1..Len(krLog) : krLog[i][Self] = Current
    BY <1>4, ConfirmedFacts
  <2>2. QED
    BY <1>4, <2>1, SnapshotsAfterWrite DEF Confirmed, Marked
<1>5. QED
  BY <1>1, <1>2, <1>3, <1>4, CurrentEffect

(* A changed spec that has the stored hash had been carried before.        *)
LEMMA RespecifiedFacts ==
  ASSUME TypeOK, HashCarried, Respecified, TypeOK', Current'.hash = hash(Current'.spec)
  PROVE  reverted'
<1>1. Current'.spec \in KSpecs
  <2>1. carried' \subseteq KSpecs
    BY DEF TypeOK
  <2>2. QED
    BY <2>1 DEF Respecified
<1>2. Current.hash \in carried \cup {None} /\ Current.hash = Current'.spec
  BY DEF HashCarried, Respecified, hash
<1>3. QED
  BY <1>1, <1>2, ClusterAssumption DEF Respecified

LEMMA InStepStep ==
  ASSUME TypeOK, TypeOK', Ordered, LocalOld, HashCarried, InStep, [Next]_vars
  PROVE  InStep'
<1>0. /\ Len(krLog) \in Nat \ {0} /\ Cached(krLog) = krLog[1]
  BY SnapshotTypes
<1>1. CASE Untouched
  <2> SUFFICES ASSUME Current.phase = "live", Current.hash = hash(Current.spec), ~reverted
               PROVE  /\ \A i \in 1..Len(krLog') : krLog'[i][Self].spec = Current.spec
                      /\ pc' # "idle" => local'.spec = Current.spec
    BY <1>1 DEF Untouched, InStep, hash
  <2>1. \A i \in 1..Len(krLog) : krLog[i][Self].spec = Current.spec
    BY DEF InStep
  <2>2. \A i \in 1..Len(krLog') : krLog'[i][Self].spec = Current.spec
    BY <1>1, <2>1, KrakendKept DEF Untouched
  <2>3. pc' # "idle" => local'.spec = Current.spec
    BY <1>0, <2>1, WorkerKeeps DEF Started, InStep
  <2>4. QED
    BY <2>2, <2>3
<1>2. CASE Removed
  BY <1>2 DEF Removed, InStep
<1>3. CASE Created
  <2>1. Current'.spec \in KSpecs
    <3>1. carried' \subseteq KSpecs
      BY DEF TypeOK
    <3>2. QED
      BY <1>3, <3>1 DEF Created
  <2>2. Current'.hash # Current'.spec
    BY <1>3, <2>1, ClusterAssumption DEF Created
  <2>3. QED
    BY <2>2 DEF InStep, hash
<1>4. CASE Respecified
  <2>1. Current'.hash = hash(Current'.spec) => reverted'
    BY <1>4, RespecifiedFacts
  <2>2. QED
    BY <2>1 DEF InStep, hash
<1>5. CASE Confirmed
  <2>1. \A i \in 1..Len(krLog) : krLog[i][Self] = Current
    BY <1>5, ConfirmedFacts
  <2>2. QED
    BY <1>5, <2>1, SnapshotsAfterWrite DEF Confirmed, InStep
<1>6. QED
  BY <1>1, <1>2, <1>3, <1>4, <1>5, CurrentEffect

(* A write is an event that the cache still has to see.                    *)
LEMMA CacheBehindWrite ==
  ASSUME TypeOK, Ordered, NEW obj, NewVersion(obj)
  PROVE  Cached(krLog)'[Self] # Current'
<1>1. /\ Len(krLog) \in Nat \ {0} /\ Cached(krLog) = krLog[1] /\ Current = krLog[Len(krLog)][Self]
  BY SnapshotTypes
<1>2. krLog[1][Self].rv <= Current.rv
  BY <1>1 DEF Ordered, Older
<1>3. Current' = obj /\ obj.rv = Current.rv + 1 /\ Cached(krLog)' = Cached(krLog)
  BY NewVersionFacts DEF NewVersion
<1>4. krLog[1][Self].rv # obj.rv
  BY <1>1, <1>2, <1>3, NumbersOK
<1>5. QED
  BY <1>1, <1>3, <1>4

LEMMA WorkQueuedStep ==
  ASSUME TypeOK, Ordered, LocalOld, WorkQueued, [Next]_vars
  PROVE  WorkQueued'
<1> DEFINE k == Cached(krLog)[Self]
<1>0. /\ krLog \in Seq([Krakends -> Krakend]) /\ krLog # <<>> /\ Len(krLog) \in Nat \ {0}
      /\ Cached(krLog) = krLog[1] /\ Self \in Krakends /\ Cached(krLog) \in [Krakends -> Krakend]
  BY SnapshotTypes
<1>1. ASSUME pc' # "idle" \/ queue' PROVE WorkQueued'
  BY <1>1 DEF WorkQueued
<1>2. ASSUME NEW obj, NewVersion(obj) PROVE WorkQueued'
  BY <1>2, CacheBehindWrite DEF WorkQueued
<1>3. ASSUME UNCHANGED <<krLog, pc, queue>> PROVE WorkQueued'
  BY <1>3 DEF WorkQueued, Current, Cached, Stored, NeedsWork, hash
<1>4. ASSUME NEW outside \in BOOLEAN, Start(outside) PROVE WorkQueued'
  <2>1. krLog' = krLog
    BY <1>4 DEF Start
  <2>2. pc' # "idle" \/ queue' \/ ~NeedsWork(k, outside)
    BY <1>4 DEF Start
  <2>3. ~NeedsWork(k, outside) => ~NeedsWork(k, FALSE)
    BY DEF NeedsWork
  <2>4. QED
    BY <1>1, <2>1, <2>2, <2>3 DEF WorkQueued, Cached, NeedsWork, hash
<1>5. ASSUME NEW x, createOrUpdate(x) \/ ApplyFails(x) PROVE pc' # "idle"
  BY <1>5 DEF createOrUpdate, ApplyFails, Continue, AfterLoop
<1>6. ASSUME GetPartials \/ CreatePartials PROVE pc' # "idle"
  BY <1>6 DEF GetPartials, CreatePartials, Continue, AfterLoop
<1>7. ASSUME ensureKrakendNetpol \/ Fault PROVE pc' # "idle" \/ queue'
  BY <1>7 DEF ensureKrakendNetpol, Fault, Fail
<1>8. ASSUME UpdateStatus PROVE WorkQueued'
  <2>1. queue' \/ StatusWritten
    BY <1>8 DEF UpdateStatus, Fail, StatusWritten, Done, Return
  <2>2. QED
    BY <1>1, <1>2, <2>1, StatusVersion
<1>9. ASSUME Restart PROVE WorkQueued'
  <2>1. krLog' = Relist(krLog) /\ queue' = (Current.phase = "live")
    BY <1>9 DEF Restart
  <2>2. Cached(krLog') = Stored(krLog)
    BY <2>1 DEF Relist, Cached
  <2>3. Cached(krLog)'[Self] = Current
    BY <2>2 DEF Cached, Current
  <2>4. ~queue' => ~NeedsWork(Cached(krLog)[Self], FALSE)'
    BY <2>1, <2>3 DEF NeedsWork
  <2>5. QED
    BY <2>4 DEF WorkQueued
<1>10. ASSUME Resync PROVE WorkQueued'
  <2>1. UNCHANGED <<krLog, pc>> /\ queue' = (queue \/ k.phase = "live")
    BY <1>10 DEF Resync, workVars
  <2>2. queue => queue'
    BY <2>1
  <2>3. QED
    BY <2>1, <2>2 DEF WorkQueued, Current, Cached, Stored, NeedsWork, hash
<1>11. ASSUME ObserveKrakend PROVE WorkQueued'
  <2>1. /\ Len(krLog) > 1 /\ krLog' = Deliver(krLog) /\ pc' = pc
        /\ queue' = (queue \/ Self \in Notified(krLog))
    BY <1>11 DEF ObserveKrakend, workVars
  <2>2. Follows(krLog', krLog)
    BY <2>1 DEF Follows
  <2>3. Current' = Current
    BY <2>2, KrakendKept
  <2>4. Cached(krLog)' = krLog[2]
    BY <1>0, <2>1 DEF Cached, Deliver
  <2>5. ~queue' => ~queue /\ krLog[2][Self] = krLog[1][Self]
    <3>1. DOMAIN krLog[1] = Krakends
      BY <1>0
    <3>2. QED
      BY <1>0, <2>1, <3>1 DEF Notified
  <2>6. QED
    BY <1>0, <2>1, <2>3, <2>4, <2>5 DEF WorkQueued, NeedsWork, hash
<1>12. ASSUME \/ ObservePartials \/ ObserveNetpol \/ GcPartials \/ GcNetpol \/ UNCHANGED vars
       PROVE  UNCHANGED <<krLog, pc, queue>>
  BY <1>12 DEF ObservePartials, ObserveNetpol, GcPartials, GcNetpol, vars, workVars
<1>13. ASSUME NEW n, NEW s, Publish(n, s) PROVE UNCHANGED <<krLog, pc, queue>>
  BY <1>13 DEF Publish, workVars
<1>14. ASSUME NEW x, GcResource(x) PROVE UNCHANGED <<krLog, pc, queue>>
  BY <1>14 DEF GcResource, workVars
<1>15. ASSUME UserDelete \/ \E s \in KSpecs : UserApply(s) PROVE WorkQueued'
  BY <1>2, <1>15, ApplyVersion, DeleteVersion
<1>16. QED
  BY <1>1, <1>3, <1>4, <1>5, <1>6, <1>7, <1>8, <1>9, <1>10, <1>11, <1>12, <1>13, <1>14, <1>15
  DEF Next, Reconcile, Environment

-----------------------------------------------------------------------------
(* A step that is not the worker's turn with the partials leaves alone     *)
(* what is known about them.                                               *)
PartialsTurn ==
  \/ GetPartials /\ Skip(Cached(cmLog)[Self]) /\ pc' # "createPartials"
  \/ CreatePartials
  \/ ApplyFails(Partials)

NoPartialsTurn ==
  /\ adopted' = adopted /\ (Partials \in failed => Partials \in failed')
  /\ pc' # "idle" /\ Partials \notin todo' => pc # "idle" /\ Partials \notin todo /\ local' = local
  /\ ~CreatePartials

LEMMA TurnEffect ==
  ASSUME TypeOK, [Next]_vars
  PROVE  PartialsTurn \/ NoPartialsTurn
<1> DEFINE Goal == PartialsTurn \/ NoPartialsTurn
<1>0. Partials \notin Resources
  BY KrakendAssumption
<1>1. ASSUME UNCHANGED <<adopted, failed, workVars>>, ~CreatePartials PROVE Goal
  BY <1>1 DEF NoPartialsTurn, workVars
<1>2. ASSUME UNCHANGED <<adopted, failed>>, pc' = "idle", ~CreatePartials PROVE Goal
  BY <1>2 DEF NoPartialsTurn
<1>3. ASSUME CreatePartials PROVE Goal
  BY <1>3 DEF PartialsTurn
<1>4. ASSUME NEW outside \in BOOLEAN, Start(outside) PROVE Goal
  <2>1. UNCHANGED <<adopted, failed>> /\ (UNCHANGED workVars \/ Partials \in todo')
    BY <1>4 DEF Start, history
  <2>2. ~CreatePartials
    BY <1>4 DEF Start, CreatePartials
  <2>3. QED
    BY <1>1, <2>1, <2>2 DEF NoPartialsTurn
<1>5. ASSUME NEW x \in Resources, createOrUpdate(x) PROVE Goal
  <2>1. /\ adopted' = adopted /\ failed' = failed \ {x} /\ todo' = todo \ {x} /\ local' = local
        /\ pc = "apply"
    BY <1>5 DEF createOrUpdate, Continue
  <2>2. QED
    BY <1>0, <2>1 DEF NoPartialsTurn, CreatePartials
<1>6. ASSUME NEW x \in Resources \cup {Partials}, ApplyFails(x) PROVE Goal
  <2>1. CASE x = Partials
    BY <1>6, <2>1 DEF PartialsTurn
  <2>2. CASE x # Partials
    <3>1. /\ adopted' = adopted /\ failed' = failed \cup {x} /\ todo' = todo \ {x} /\ local' = local
          /\ pc = "apply"
      BY <1>6, <2>2 DEF ApplyFails, Continue
    <3>2. QED
      BY <2>2, <3>1 DEF NoPartialsTurn, CreatePartials
  <2>3. QED
    BY <2>1, <2>2
<1>7. ASSUME GetPartials PROVE Goal
  <2>1. CASE Skip(Cached(cmLog)[Self])
    <3>1. pc' # "createPartials"
      BY <1>7, <2>1 DEF GetPartials, Continue, AfterLoop
    <3>2. QED
      BY <1>7, <2>1, <3>1 DEF PartialsTurn
  <2>2. CASE ~Skip(Cached(cmLog)[Self])
    BY <1>7, <2>2 DEF GetPartials, NoPartialsTurn, CreatePartials
  <2>3. QED
    BY <2>1, <2>2
<1>8. ASSUME ensureKrakendNetpol PROVE Goal
  BY <1>8 DEF ensureKrakendNetpol, NoPartialsTurn, Fail, Return, history, CreatePartials
<1>9. ASSUME UpdateStatus \/ Fault PROVE Goal
  <2>1. UNCHANGED <<adopted, failed>> /\ pc' = "idle"
    BY <1>9 DEF UpdateStatus, Fault, Fail, Done, Return, history
  <2>2. ~CreatePartials
    BY <2>1 DEF CreatePartials, Continue, AfterLoop
  <2>3. QED
    BY <1>2, <2>1, <2>2
<1>10. ASSUME Restart PROVE Goal
  <2>1. UNCHANGED <<adopted, failed>> /\ pc' = "idle"
    BY <1>10 DEF Restart, Return, history
  <2>2. ~CreatePartials
    BY <2>1 DEF CreatePartials, Continue, AfterLoop
  <2>3. QED
    BY <1>2, <2>1, <2>2
<1>11. ASSUME \/ Resync \/ ObserveKrakend \/ ObservePartials \/ ObserveNetpol \/ UserDelete
              \/ GcPartials \/ GcNetpol \/ UNCHANGED vars
       PROVE  UNCHANGED <<adopted, failed, workVars>>
  BY <1>11 DEF Resync, ObserveKrakend, ObservePartials, ObserveNetpol, UserDelete, GcPartials,
               GcNetpol, vars, history
<1>12. ASSUME NEW s, UserApply(s) PROVE UNCHANGED <<adopted, failed, workVars>>
  BY <1>12 DEF UserApply
<1>13. ASSUME NEW n, NEW s, Publish(n, s) PROVE UNCHANGED <<adopted, failed, workVars>>
  BY <1>13 DEF Publish, history
<1>14. ASSUME NEW x, GcResource(x) PROVE UNCHANGED <<adopted, failed, workVars>>
  BY <1>14 DEF GcResource, history
<1>15. QED
  <2> HIDE DEF Goal
  <2>1. Goal
    BY <1>1, <1>3, <1>4, <1>5, <1>6, <1>7, <1>8, <1>9, <1>10, <1>11, <1>12, <1>13, <1>14
    DEF Next, Reconcile, Environment
  <2>2. QED
    BY <2>1 DEF Goal

(* Partials that are settled stay so while nobody turns to them.           *)
LEMMA SettledStays ==
  ASSUME TypeOK, [Next]_vars, Current.phase = "live", Settled(Current.uid), NoPartialsTurn
  PROVE  /\ adopted' \/ Partials \in failed'
            \/ (Installed'.phase = "live" /\ Installed'.owner = Current.uid)
<1>1. CASE adopted \/ Partials \in failed
  BY <1>1 DEF NoPartialsTurn
<1>2. CASE Installed.phase = "live" /\ Installed.owner = Current.uid
  <2>1. CASE Follows(cmLog', cmLog)
    BY <1>2, <2>1, PartialsKept
  <2>2. ASSUME NEW obj, Sampled(obj) PROVE FALSE
    BY <2>2 DEF Sampled, NoPartialsTurn
  <2>3. ASSUME NEW obj, Published(obj) \/ Collected(obj)
        PROVE  Installed'.phase = "live" /\ Installed'.owner = Current.uid
    BY <1>2, <2>3, NewPartialsFacts DEF Published, Collected, Orphan
  <2>4. QED
    BY <2>1, <2>2, <2>3, PartialsEffect
<1>3. QED
  BY <1>1, <1>2 DEF Settled

(* The worker settles the partials of the incarnation it works on.         *)
LEMMA TurnSettles ==
  ASSUME TypeOK, OwnedStays, PartialsTurn, Current.phase = "live", local.uid = Current.uid
  PROVE  \/ adopted' \/ Partials \in failed'
         \/ (Installed'.phase = "live" /\ Installed'.owner = Current.uid)
<1>1. CASE GetPartials /\ Skip(Cached(cmLog)[Self]) /\ pc' # "createPartials"
  <2> DEFINE c == Cached(cmLog)[Self]
  <2>1. cmLog' = cmLog /\ Installed' = Installed
    BY <1>1 DEF GetPartials, Installed
  <2>2. c.phase = "live" /\ adopted' = (c.phase = "live" /\ c.owner # local.uid)
    BY <1>1 DEF GetPartials, Skip
  <2>3. CASE c.owner # local.uid
    BY <2>2, <2>3
  <2>4. CASE c.owner = local.uid
    <3>1. 1 \in 1..Len(cmLog) /\ c = cmLog[1][Self]
      BY SnapshotTypes
    <3>2. QED
      BY <2>1, <2>2, <2>4, <3>1 DEF OwnedStays
  <2>5. QED
    BY <2>3, <2>4
<1>2. CASE CreatePartials
  <2> DEFINE obj == [phase |-> "live", rv |-> Installed.rv + 1, owner |-> local.uid,
                     data |-> {ChartRoute}]
  <2>1. \/ cmLog' = cmLog /\ Installed.phase = "live" /\ Installed.owner = local.uid
        \/ cmLog' = Put(cmLog, Self, obj)
    BY <1>2 DEF CreatePartials
  <2>2. CASE cmLog' = cmLog /\ Installed.phase = "live" /\ Installed.owner = local.uid
    BY <2>2 DEF Installed
  <2>3. CASE cmLog' = Put(cmLog, Self, obj)
    <3>1. Installed.rv \in Nat /\ local.uid \in Nat
      <4>1. Installed \in ConfigMap
        BY SnapshotTypes
      <4>2. QED
        BY <4>1, NumbersOK DEF ConfigMap
    <3>2. obj \in ConfigMap /\ obj.phase = "live" /\ obj.owner = local.uid
      BY <3>1 DEF ConfigMap, Route
    <3> HIDE DEF obj
    <3>3. Installed' = obj
      BY <2>3, <3>2, NewPartialsFacts DEF NewPartials
    <3>4. QED
      BY <3>2, <3>3
  <2>4. QED
    BY <2>1, <2>2, <2>3
<1>3. CASE ApplyFails(Partials)
  BY <1>3 DEF ApplyFails
<1>4. QED
  BY <1>1, <1>2, <1>3 DEF PartialsTurn

LEMMA PartialsDoneStep ==
  ASSUME TypeOK, LocalOld, OwnedStays, Marked, PartialsDone, [Next]_vars
  PROVE  PartialsDone'
<1>0. /\ Len(krLog) \in Nat \ {0} /\ Current = krLog[Len(krLog)][Self]
  BY SnapshotTypes
<1>1. CASE Untouched
  <2>1. CASE NoPartialsTurn
    BY <1>1, <2>1, SettledStays DEF Untouched, NoPartialsTurn, PartialsDone, Settled
  <2>2. CASE PartialsTurn
    <3>1. pc # "idle" /\ local' = local
      BY <2>2 DEF PartialsTurn, GetPartials, CreatePartials, ApplyFails, Continue
    <3>2. Current.phase = "live" /\ (Current.hash # None \/ local.uid = Current.uid) =>
            \/ adopted' \/ Partials \in failed'
            \/ (Installed'.phase = "live" /\ Installed'.owner = Current.uid)
      BY <2>2, <3>1, TurnSettles DEF Marked
    <3>3. QED
      BY <1>1, <3>1, <3>2 DEF Untouched, PartialsDone, Settled
  <2>3. QED
    BY <2>1, <2>2, TurnEffect
<1>2. CASE Removed
  BY <1>2 DEF Removed, PartialsDone
<1>3. CASE Created
  <2>1. pc # "idle" => local.uid <= Current.uid
    BY <1>0 DEF LocalOld, Older
  <2>2. pc' # "idle" => local'.uid # Current'.uid
    BY <1>3, <2>1, NumbersOK DEF Created, workVars
  <2>3. QED
    BY <1>3, <2>2 DEF Created, PartialsDone
<1>4. CASE Respecified
  <2>1. Installed' = Installed
    BY <1>4 DEF Respecified, Installed
  <2>2. QED
    BY <1>4, <2>1 DEF Respecified, PartialsDone, Settled, workVars
<1>5. CASE Confirmed
  <2>1. Installed' = Installed /\ UNCHANGED <<adopted, failed>>
    BY <1>5 DEF Confirmed, Installed, history
  <2>2. Partials \notin todo
    BY <1>5 DEF Confirmed, TypeOK
  <2>3. Settled(Current.uid)
    BY <1>5, <2>2 DEF Confirmed, PartialsDone
  <2>4. QED
    BY <1>5, <2>1, <2>3 DEF Confirmed, PartialsDone, Settled
<1>6. QED
  BY <1>1, <1>2, <1>3, <1>4, <1>5, CurrentEffect

-----------------------------------------------------------------------------
(* The steps that do not render leave alone what is known about the        *)
(* resources.                                                              *)
Quiet ==
  /\ res' = res
  /\ \A x \in Resources : x \in failed => x \in failed'
  /\ pc' # "idle" => \A x \in Resources :
       x \notin todo' /\ x \notin failed' => pc # "idle" /\ x \notin todo /\ local' = local

LEMMA RenderEffect ==
  ASSUME TypeOK, [Next]_vars
  PROVE  \/ Quiet
         \/ \E x \in Resources : createOrUpdate(x)
         \/ \E x \in Resources : GcResource(x)
<1>0. Partials \notin Resources
  BY KrakendAssumption
<1>1. ASSUME UNCHANGED <<res, failed, workVars>> PROVE Quiet
  BY <1>1 DEF Quiet, workVars
<1>2. ASSUME NEW outside \in BOOLEAN, Start(outside) PROVE Quiet
  <2>1. UNCHANGED <<res, failed>> /\ (UNCHANGED workVars \/ Resources \subseteq todo')
    BY <1>2 DEF Start, history
  <2>2. QED
    BY <1>1, <2>1 DEF Quiet
<1>3. ASSUME NEW x, ApplyFails(x) PROVE Quiet
  <2>1. /\ res' = res /\ failed' = failed \cup {x} /\ todo' = todo \ {x} /\ local' = local
        /\ pc # "idle"
    BY <1>3 DEF ApplyFails, Continue
  <2>2. QED
    BY <2>1 DEF Quiet
<1>4. ASSUME GetPartials \/ CreatePartials PROVE Quiet
  <2>1. /\ res' = res /\ (failed' = failed \/ failed' = failed \ {Partials})
        /\ (todo' = todo \/ todo' = todo \ {Partials}) /\ local' = local /\ pc # "idle"
    BY <1>4 DEF GetPartials, CreatePartials, Continue
  <2>2. QED
    BY <1>0, <2>1 DEF Quiet
<1>5. ASSUME ensureKrakendNetpol \/ UpdateStatus \/ Fault \/ Restart PROVE Quiet
  <2>1. /\ UNCHANGED <<res, failed>>
        /\ pc' = "idle" \/ (UNCHANGED <<local, todo>> /\ pc # "idle")
    BY <1>5 DEF ensureKrakendNetpol, UpdateStatus, Fault, Restart, Fail, Done, Return, history
  <2>2. QED
    BY <2>1 DEF Quiet
<1>6. ASSUME \/ Resync \/ ObserveKrakend \/ ObservePartials \/ ObserveNetpol \/ UserDelete
              \/ GcPartials \/ GcNetpol \/ UNCHANGED vars
       PROVE  UNCHANGED <<res, failed, workVars>>
  BY <1>6 DEF Resync, ObserveKrakend, ObservePartials, ObserveNetpol, UserDelete, GcPartials,
               GcNetpol, vars, history
<1>7. ASSUME NEW s, UserApply(s) PROVE UNCHANGED <<res, failed, workVars>>
  BY <1>7 DEF UserApply
<1>8. ASSUME NEW n, NEW s, Publish(n, s) PROVE UNCHANGED <<res, failed, workVars>>
  BY <1>8 DEF Publish, history
<1>9. QED
  BY <1>1, <1>2, <1>3, <1>4, <1>5, <1>6, <1>7, <1>8 DEF Next, Reconcile, Environment

LEMMA ResourcesDoneStep ==
  ASSUME TypeOK, TypeOK', LocalOld, HashCarried, Marked, InStep, ResourcesDone, [Next]_vars
  PROVE  ResourcesDone'
<1> DEFINE Match(k) == [phase |-> "live", owner |-> k.uid, spec |-> k.spec]
<1>0. /\ Len(krLog) \in Nat \ {0} /\ Current = krLog[Len(krLog)][Self]
      /\ res \in [Resources -> Resource]
      /\ Current \in Krakend
  BY SnapshotTypes DEF TypeOK
<1>1. CASE Untouched
  <2> SUFFICES ASSUME Current.phase = "live"
               PROVE  /\ Current.hash = hash(Current.spec) /\ ~reverted =>
                           \A x \in Resources \ failed' : res'[x] = Match(Current)
                      /\ pc' # "idle" /\ local'.uid = Current.uid =>
                           \A x \in Resources \ (todo' \cup failed') : res'[x] = Match(local)'
    BY <1>1 DEF Untouched, ResourcesDone, Rendered, hash
  <2>1. Current.hash = hash(Current.spec) /\ ~reverted =>
          \A x \in Resources \ failed : res[x] = Match(Current)
    BY DEF ResourcesDone
  <2>2. pc # "idle" /\ local.uid = Current.uid =>
          \A x \in Resources \ (todo \cup failed) : res[x] = Match(local)
    BY DEF ResourcesDone, Rendered
  <2>3. CASE Quiet
    BY <2>1, <2>2, <2>3 DEF Quiet
  <2>4. ASSUME NEW x \in Resources, createOrUpdate(x)
        PROVE  /\ Current.hash = hash(Current.spec) /\ ~reverted =>
                    \A y \in Resources \ failed' : res'[y] = Match(Current)
               /\ pc' # "idle" /\ local'.uid = Current.uid =>
                    \A y \in Resources \ (todo' \cup failed') : res'[y] = Match(local)'
    <3>1. /\ res' = [res EXCEPT ![x] = Match(local)] /\ failed' = failed \ {x}
          /\ todo' = todo \ {x} /\ local' = local /\ pc # "idle"
      BY <2>4 DEF createOrUpdate, Continue, Replace, Rendered
    <3>2. res'[x] = Match(local) /\ \A y \in Resources \ {x} : res'[y] = res[y]
      BY <1>0, <3>1
    <3>3. ASSUME Current.hash = hash(Current.spec), ~reverted PROVE Match(local) = Match(Current)
      <4>1. Current.spec # None
        BY <1>0 DEF Krakend
      <4>2. local.uid = Current.uid /\ local.spec = Current.spec
        BY <3>1, <3>3, <4>1 DEF Marked, InStep, hash
      <4>3. QED
        BY <4>2
    <3> HIDE DEF Match
    <3>4. ASSUME Current.hash = hash(Current.spec), ~reverted, NEW y \in Resources \ failed'
          PROVE  res'[y] = Match(Current)
      BY <2>1, <3>1, <3>2, <3>3, <3>4
    <3>5. ASSUME local.uid = Current.uid, NEW y \in Resources \ (todo' \cup failed')
          PROVE  res'[y] = Match(local)
      BY <2>2, <3>1, <3>2, <3>5
    <3>6. Match(local)' = Match(local)
      BY <3>1 DEF Match
    <3>7. QED
      BY <3>1, <3>4, <3>5, <3>6
  <2>5. ASSUME NEW x \in Resources, GcResource(x)
        PROVE  /\ Current.hash = hash(Current.spec) /\ ~reverted =>
                    \A y \in Resources \ failed' : res'[y] = Match(Current)
               /\ pc' # "idle" /\ local'.uid = Current.uid =>
                    \A y \in Resources \ (todo' \cup failed') : res'[y] = Match(local)'
    <3>1. /\ res' = [res EXCEPT ![x] = Absent] /\ Current.uid # res[x].owner
          /\ UNCHANGED <<failed, todo, local, pc>>
      BY <2>5 DEF GcResource, Orphan, workVars, history
    <3>2. \A y \in Resources \ {x} : res'[y] = res[y]
      BY <1>0, <3>1
    <3>3. res[x] # Match(Current) /\ (local.uid = Current.uid => res[x] # Match(local))
      BY <3>1
    <3>4. Match(local)' = Match(local)
      BY <3>1
    <3> HIDE DEF Match
    <3>5. QED
      BY <2>1, <2>2, <3>1, <3>2, <3>3, <3>4
  <2>6. QED
    <3> HIDE DEF Match
    <3> QED BY <2>3, <2>4, <2>5, RenderEffect
<1>2. CASE Removed
  BY <1>2 DEF Removed, ResourcesDone
<1>3. CASE Created
  <2>1. pc # "idle" => local.uid <= Current.uid
    BY <1>0 DEF LocalOld, Older
  <2>2. pc' # "idle" => local'.uid # Current'.uid
    BY <1>3, <2>1, NumbersOK DEF Created, workVars
  <2>3. Current'.spec \in KSpecs
    <3>1. carried' \subseteq KSpecs
      BY DEF TypeOK
    <3>2. QED
      BY <1>3, <3>1 DEF Created
  <2>4. Current'.hash # Current'.spec
    BY <1>3, <2>3, ClusterAssumption DEF Created
  <2>5. QED
    BY <2>2, <2>4 DEF ResourcesDone, hash
<1>4. CASE Respecified
  <2>1. Current'.hash = hash(Current'.spec) => reverted'
    BY <1>4, RespecifiedFacts
  <2>2. /\ UNCHANGED <<res, failed, todo, local, pc>> /\ Current.phase = "live"
        /\ Current'.uid = Current.uid
    BY <1>4 DEF Respecified, workVars
  <2>3. QED
    BY <2>1, <2>2 DEF ResourcesDone, Rendered, hash
<1>5. CASE Confirmed
  <2>1. todo = {} /\ pc # "idle"
    BY <1>5 DEF Confirmed, TypeOK
  <2>2. /\ local = Current /\ Current.phase = "live" /\ pc' = "idle" /\ UNCHANGED <<res, failed>>
        /\ Current'.uid = Current.uid /\ Current'.spec = Current.spec
    BY <1>5 DEF Confirmed, history
  <2>3. \A x \in Resources \ failed : res[x] = Match(Current)
    BY <2>1, <2>2 DEF ResourcesDone, Rendered
  <2>4. QED
    BY <2>2, <2>3 DEF ResourcesDone
<1>6. QED
  BY <1>1, <1>2, <1>3, <1>4, <1>5, CurrentEffect

-----------------------------------------------------------------------------
LEMMA InstallInit == Init => InstallInv
<1> SUFFICES ASSUME Init PROVE InstallInv
  OBVIOUS
<1>1. TypeOK
  BY TypeInit
<1>2. /\ Self \in Krakends /\ pc = "idle" /\ Len(krLog) = 1 /\ Len(cmLog) = 1
      /\ krLog[1][Self] = [NoKrakend EXCEPT !.rv = 1, !.uid = 1]
      /\ cmLog[1][Self] = NoConfigMap
  BY KrakendAssumption DEF Init
<1>3. krLog[1][Self].phase = "absent" /\ krLog[1][Self].rv = 1 /\ krLog[1][Self].uid = 1
  BY <1>2 DEF NoKrakend
<1>4. Current.phase = "absent" /\ Cached(krLog)[Self].phase = "absent"
  BY <1>2, <1>3 DEF Current, Stored, Cached
<1>5. \A i \in 1..Len(krLog) : i = 1
  BY <1>2
<1>6. \A i \in 1..Len(cmLog) : i = 1
  BY <1>2
<1>7. Ordered
  BY <1>3, <1>5 DEF Ordered, Older
<1>8. OwnersOld
  <2>1. cmLog[1][Self].owner = 0
    BY <1>2 DEF NoConfigMap
  <2>2. cmLog[1][Self].owner <= krLog[1][Self].uid
    BY <1>3, <2>1
  <2>3. QED
    BY <1>2, <1>5, <1>6, <2>2 DEF OwnersOld
<1>9. LocalOld /\ FreshCreate /\ RoutesLostByStaleReadOnly
  BY <1>2 DEF Init, LocalOld, FreshCreate, RoutesLostByStaleReadOnly
<1>10. OwnedStays /\ HashCarried /\ Marked /\ InStep /\ PartialsDone /\ ResourcesDone
  BY <1>4 DEF OwnedStays, HashCarried, Marked, InStep, PartialsDone, ResourcesDone
<1>11. WorkQueued
  BY <1>4 DEF WorkQueued, NeedsWork
<1>12. QED
  BY <1>1, <1>7, <1>8, <1>9, <1>10, <1>11 DEF InstallInv

LEMMA InstallStep ==
  ASSUME InstallInv, [Next]_vars
  PROVE  InstallInv'
<1>1. TypeOK'
  BY TypeStep DEF InstallInv
<1>2. Ordered' /\ LocalOld' /\ OwnersOld' /\ OwnedStays'
  BY OrderedStep, LocalOldStep, OwnersOldStep, OwnedStaysStep DEF InstallInv
<1>3. FreshCreate' /\ RoutesLostByStaleReadOnly'
  BY FreshCreateStep, LostStep DEF InstallInv
<1>4. HashCarried' /\ Marked' /\ InStep' /\ WorkQueued'
  BY <1>1, HashCarriedStep, MarkedStep, InStepStep, WorkQueuedStep DEF InstallInv
<1>5. PartialsDone' /\ ResourcesDone'
  BY <1>1, PartialsDoneStep, ResourcesDoneStep DEF InstallInv
<1>6. QED
  BY <1>1, <1>2, <1>3, <1>4, <1>5 DEF InstallInv

(* A step of others, who at most publish other routes in the partials,     *)
(* keeps the invariant, too.                                               *)
LEMMA OtherStep ==
  ASSUME InstallInv, used' \in [BoundKinds -> Nat],
         UNCHANGED <<krLog, npLog, res, queue, workVars, history>>,
         UNCHANGED cmLog \/ \E obj : Published(obj)
  PROVE  InstallInv'
<1>0. /\ TypeOK /\ Installed = cmLog[Len(cmLog)][Self] /\ Len(cmLog) \in 1..Len(cmLog)
  BY SnapshotTypes DEF InstallInv
<1>1. /\ Installed'.phase = Installed.phase /\ Installed'.owner = Installed.owner
      /\ \A i \in 1..Len(cmLog') :
           \/ cmLog'[i][Self].phase = Installed.phase /\ cmLog'[i][Self].owner = Installed.owner
           \/ i \in 1..Len(cmLog) /\ cmLog'[i] = cmLog[i]
      /\ cmLog' \in Seq([Krakends -> ConfigMap]) /\ cmLog' # <<>>
  <2>1. CASE UNCHANGED cmLog
    BY <1>0, <2>1 DEF TypeOK, Installed, Stored
  <2>2. ASSUME NEW obj, Published(obj)
        PROVE  /\ Installed'.phase = Installed.phase /\ Installed'.owner = Installed.owner
               /\ \A i \in 1..Len(cmLog') :
                    \/ cmLog'[i][Self].phase = Installed.phase
                       /\ cmLog'[i][Self].owner = Installed.owner
                    \/ i \in 1..Len(cmLog) /\ cmLog'[i] = cmLog[i]
               /\ cmLog' \in Seq([Krakends -> ConfigMap]) /\ cmLog' # <<>>
    BY <1>0, <2>2, NewPartialsFacts DEF Published
  <2>3. QED
    BY <2>1, <2>2
<1>2. UNCHANGED <<krLog, npLog, res, queue, pc, local, todo, failed, carried, reverted,
                  adopted, staleRead, lost>>
  BY DEF workVars, history
<1>3. Current' = Current
  BY <1>2 DEF Current, Stored
<1>4. TypeOK'
  BY <1>0, <1>1, <1>2 DEF TypeOK
<1>5. Ordered' /\ LocalOld'
  BY <1>2 DEF InstallInv, Ordered, LocalOld, Older
<1>6. OwnersOld'
  BY <1>0, <1>1, <1>2 DEF InstallInv, OwnersOld
<1>7. OwnedStays'
  BY <1>0, <1>1, <1>2, <1>3 DEF InstallInv, OwnedStays
<1>8. FreshCreate' /\ RoutesLostByStaleReadOnly'
  BY <1>1, <1>2 DEF InstallInv, FreshCreate, RoutesLostByStaleReadOnly
<1>9. HashCarried' /\ Marked' /\ InStep'
  BY <1>2, <1>3 DEF InstallInv, HashCarried, Marked, InStep, hash
<1>10. WorkQueued'
  BY <1>2, <1>3 DEF InstallInv, WorkQueued, NeedsWork, Cached
<1>11. PartialsDone'
  BY <1>1, <1>2, <1>3 DEF InstallInv, PartialsDone, Settled
<1>12. ResourcesDone'
  BY <1>2, <1>3 DEF InstallInv, ResourcesDone, Rendered, hash
<1>13. QED
  BY <1>4, <1>5, <1>6, <1>7, <1>8, <1>9, <1>10, <1>11, <1>12 DEF InstallInv

(* At rest the cache shows the stored Krakend, so its hash is up to date.  *)
LEMMA RestMeansHashed ==
  ASSUME InstallInv, Quiescent, Current.phase = "live"
  PROVE  Current.hash = hash(Current.spec) /\ Current.hash # None
<1>1. TypeOK /\ WorkQueued
  BY DEF InstallInv
<1>2. Cached(krLog)[Self] = Current
  BY DEF Quiescent, Cached, Current, Stored
<1>3. ~NeedsWork(Current, FALSE)
  BY <1>1, <1>2 DEF Quiescent, WorkQueued
<1>4. Current.spec \in KSpecs
  <2>1. Current \in Krakend
    BY <1>1, SnapshotTypes
  <2>2. QED
    BY <2>1 DEF Krakend
<1>5. QED
  BY <1>3, <1>4, ClusterAssumption DEF NeedsWork, hash

(* For any set of specs and rendered resources, any number of users'       *)
(* changes, failed calls, restarts and collections: once the reconciler is *)
(* at rest every resource whose last createOrUpdate did not fail is that   *)
(* of the stored spec and incarnation (lines 73-85, 143-181).              *)
THEOREM AppliedAtRest == Spec => []Applied
<1>1. InstallInv => Applied
  BY RestMeansHashed DEF InstallInv, ResourcesDone, Applied
<1>2. QED
  BY InstallInit, InstallStep, <1>1, PTL DEF Spec

(* ... and the partials ConfigMap is there and owned by this incarnation,  *)
(* unless Reconcile adopted an older one or failed to create it.           *)
THEOREM PartialsAtRest == Spec => []PartialsInstalled
<1>1. InstallInv => PartialsInstalled
  BY RestMeansHashed DEF InstallInv, PartialsDone, Settled, PartialsInstalled
<1>2. QED
  BY InstallInit, InstallStep, <1>1, PTL DEF Spec

(* The chart's sample replaces published routes only after a read of the   *)
(* cache that missed stored partials (lines 143-157).                      *)
THEOREM OnlyStaleReadsLoseRoutes == Spec => []RoutesLostByStaleReadOnly
<1>1. InstallInv => RoutesLostByStaleReadOnly
  BY DEF InstallInv
<1>2. QED
  BY InstallInit, InstallStep, <1>1, PTL DEF Spec
=============================================================================
