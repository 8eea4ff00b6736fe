---------------------------- MODULE OperatorProofs ----------------------------
(***************************************************************************)
(* The proof that, when both controllers rest, the gateway serves exactly  *)
(* what the stored ApiEndpoints ask for, although Krakends are deleted and *)
(* created again and both controllers write the partials.                  *)
(***************************************************************************)
EXTENDS Operator, MigrationProofs

KP == INSTANCE KrakendProofs WITH
        npLog <- kNpLog, queue <- kQueue, pc <- kPc, local <- kLocal,
        carried <- kCarried, reverted <- kReverted

(* The Krakend and its partials, as stored.                                *)
Current == Stored(krLog)[Self]
Installed == Stored(cmLog)[Self]

-----------------------------------------------------------------------------
(* The constants of the Krakend controller are as it assumes.              *)
LEMMA Assumptions == KP!KrakendAssumption /\ KP!ClusterAssumption /\ KP!OwnerAssumption
BY OperatorAssumption, ClusterAssumption, OwnerAssumption, BoundAssumption, NetpolAssumption
   DEF KP!KrakendAssumption, KP!ClusterAssumption, KP!OwnerAssumption, KP!Partials, KP!BoundKinds,
       BoundKinds, KP!krakendName, krakendName, KP!hashEndpoints, hashEndpoints

(* Every step of the Krakend controller is one its proofs are about.       *)
LEMMA SameStart == ASSUME NEW o \in BOOLEAN, K!Start(o) PROVE KP!Start(o)
BY DEF K!Start, KP!Start, K!Cached, KP!Cached, K!hash, KP!hash, K!Spend, KP!Spend,
       K!NeedsWork, KP!NeedsWork, K!prepareValues, KP!prepareValues, K!workVars,
       KP!workVars, K!Partials, KP!Partials, K!history, KP!history

LEMMA SameContinue == ASSUME NEW x PROVE K!Continue(x) <=> KP!Continue(x)
BY DEF K!Continue, KP!Continue, K!AfterLoop, KP!AfterLoop

LEMMA SameReconcile == ASSUME K!Reconcile PROVE KP!Reconcile
<1>1. ASSUME NEW x \in Resources, K!createOrUpdate(x) PROVE KP!createOrUpdate(x)
  BY <1>1, SameContinue DEF K!createOrUpdate, KP!createOrUpdate, K!Replace, KP!Replace,
     K!Rendered, KP!Rendered, K!Partials, KP!Partials
<1>2. ASSUME K!GetPartials PROVE KP!GetPartials
  <2>1. K!Continue("partials") <=> KP!Continue("partials")
    BY SameContinue
  <2>2. QED
    BY <1>2, <2>1 DEF K!GetPartials, KP!GetPartials, K!Cached, KP!Cached, K!Skip, KP!Skip,
       K!Partials, KP!Partials, K!Installed, KP!Installed, K!Stored, KP!Stored
<1>3. ASSUME K!CreatePartials PROVE KP!CreatePartials
  <2>1. K!Continue("partials") <=> KP!Continue("partials")
    BY SameContinue
  <2>2. QED
    BY <1>3, <2>1 DEF K!CreatePartials, KP!CreatePartials, K!Partials, KP!Partials, K!Installed,
       KP!Installed, K!Stored, KP!Stored, K!Put, KP!Put, K!ChartRoute, KP!ChartRoute
<1>4. ASSUME K!ensureKrakendNetpol PROVE KP!ensureKrakendNetpol
  BY <1>4 DEF K!ensureKrakendNetpol, KP!ensureKrakendNetpol, K!Cached, KP!Cached, K!Stored,
     KP!Stored, K!Fail, KP!Fail, K!Return, KP!Return, K!NoKrakend, KP!NoKrakend, K!history, KP!history
<1>5. ASSUME K!UpdateStatus PROVE KP!UpdateStatus
  BY <1>5 DEF K!UpdateStatus, KP!UpdateStatus, K!Current, KP!Current, K!Stored, KP!Stored, K!Put,
     KP!Put, K!Done, KP!Done, K!Fail, KP!Fail, K!Return, KP!Return, K!NoKrakend, KP!NoKrakend, K!hash, KP!hash, K!history,
     KP!history
<1>6. QED
  BY <1>1, <1>2, <1>3, <1>4, <1>5 DEF K!Reconcile, KP!Reconcile

LEMMA SameFaults ==
  ASSUME K!Fault \/ K!Resync \/ K!Restart
  PROVE  KP!Fault \/ KP!Resync \/ KP!Restart
BY DEF K!Fault, KP!Fault, K!Resync, KP!Resync, K!Restart, KP!Restart, K!Spend, KP!Spend,
       K!Fail, KP!Fail, K!Return, KP!Return, K!NoKrakend, KP!NoKrakend, K!Relist, KP!Relist, K!Cached, KP!Cached,
       K!Stored, KP!Stored, K!Current, KP!Current, K!Partials, KP!Partials, K!workVars,
       KP!workVars, K!history, KP!history

LEMMA SameApplyFails == ASSUME NEW x, K!ApplyFails(x) PROVE KP!ApplyFails(x)
BY SameContinue DEF K!ApplyFails, KP!ApplyFails, K!Spend, KP!Spend, K!Partials, KP!Partials

LEMMA SameDeliveries ==
  ASSUME K!ObserveKrakend \/ K!ObservePartials \/ K!ObserveNetpol
  PROVE  KP!ObserveKrakend \/ KP!ObservePartials \/ KP!ObserveNetpol
BY DEF K!ObserveKrakend, KP!ObserveKrakend, K!ObservePartials, KP!ObservePartials,
       K!ObserveNetpol, KP!ObserveNetpol, K!Deliver, KP!Deliver, K!Notified, KP!Notified,
       K!workVars, KP!workVars, K!history, KP!history

LEMMA SameUserApply == ASSUME NEW s \in KSpecs, K!UserApply(s) PROVE KP!UserApply(s)
BY DEF K!UserApply, KP!UserApply, K!Spend, KP!Spend, K!Current, KP!Current, K!Stored,
       KP!Stored, K!Put, KP!Put, K!workVars, KP!workVars

LEMMA SameUserDelete == ASSUME K!UserDelete PROVE KP!UserDelete
BY DEF K!UserDelete, KP!UserDelete, K!Spend, KP!Spend, K!Current, KP!Current, K!Stored,
       KP!Stored, K!Put, KP!Put, K!GoneKrakend, KP!GoneKrakend, K!workVars, KP!workVars,
       K!history, KP!history

LEMMA SameGcResource == ASSUME NEW x \in Resources, K!GcResource(x) PROVE KP!GcResource(x)
BY DEF K!GcResource, KP!GcResource, K!Orphan, KP!Orphan, K!Spend, KP!Spend, K!Current,
       KP!Current, K!Stored, KP!Stored, K!Absent, KP!Absent, K!workVars, KP!workVars,
       K!history, KP!history

LEMMA SameGc == ASSUME K!GcPartials \/ K!GcNetpol PROVE KP!GcPartials \/ KP!GcNetpol
BY DEF K!GcPartials, KP!GcPartials, K!GcNetpol, KP!GcNetpol, K!Orphan, KP!Orphan,
       K!Installed, KP!Installed, K!Spend, KP!Spend, K!Current, KP!Current, K!Stored,
       KP!Stored, K!Put, KP!Put, K!workVars, KP!workVars, K!history, KP!history

(* What a step of the Krakend controller, of the users of Krakends or of   *)
(* the collector of what they own does to the objects both controllers     *)
(* use: nothing; the Krakend changes, goes or comes back; its partials are *)
(* created or overwritten with the chart's sample; or they are collected.  *)
KrakendWritten(obj) ==
  /\ krLog' = Put(krLog, Self, obj) /\ UNCHANGED <<cmLog, lost>>
  /\ \/ Current.phase = "live" /\ obj.uid = Current.uid
     \/ Current.phase = "absent" /\ obj.phase = "live" /\ obj.uid = Current.uid + 1

Sampled(obj) ==
  /\ cmLog' = Put(cmLog, Self, obj) /\ UNCHANGED krLog
  /\ kPc # "idle" /\ obj.owner = kLocal.uid /\ obj.phase = "live"
  /\ obj.rv = Installed.rv + 1 /\ obj.data = {ChartRoute}
  /\ lost' = (lost \/ (Installed.phase = "live" /\ Installed.data # {ChartRoute}))

Collected(obj) ==
  /\ cmLog' = Put(cmLog, Self, obj) /\ UNCHANGED <<krLog, lost>>
  /\ ~Serving(Self) /\ obj.phase = "absent" /\ obj.rv = Installed.rv + 1 /\ obj.data = {}

KrakendMove ==
  /\ UNCHANGED endpointsOnly /\ used' \in [BoundKinds -> Nat] /\ KP!InstallInv'
  /\ \/ UNCHANGED <<krLog, cmLog, lost>>
     \/ \E obj \in Krakend : KrakendWritten(obj)
     \/ \E obj \in ConfigMap : Sampled(obj) \/ Collected(obj)

(* What a step of the ApiEndpoints controller, of the users of             *)
(* ApiEndpoints or of the caches does: the Krakend stays, and the partials *)
(* change only when Reconcile publishes its list.                          *)
Publishing == UpdateConfigMap /\ pc' # "idle"

EndpointsMove ==
  /\ [Next]_vars /\ Follows(krLog', krLog) /\ UNCHANGED lost
  /\ Follows(cmLog', cmLog) \/ Publishing
  /\ misplaced' = IF Publishing THEN cm.owner # krakCopy.uid ELSE misplaced

(* Resource versions of the partials grow along the log, and one version   *)
(* is one object.                                                          *)
PartialsGrow ==
  \A i, j \in 1..Len(cmLog) : i <= j =>
    /\ cmLog[i][Self].rv <= cmLog[j][Self].rv
    /\ cmLog[i][Self].rv = cmLog[j][Self].rv => cmLog[i][Self] = cmLog[j][Self]

(* The partials Reconcile has read, while it works on them: no newer than  *)
(* any the log shows, and of the same owner if of the same version.        *)
PartialsCopy ==
  pc \in {"list", "updateConfigMap"} => \A i \in 1..Len(cmLog) :
    /\ cm.rv <= cmLog[i][Self].rv
    /\ cm.rv = cmLog[i][Self].rv => cm.owner = cmLog[i][Self].owner /\ cm.phase = cmLog[i][Self].phase

-----------------------------------------------------------------------------
LEMMA SameTypes == KP!Krakend = Krakend /\ KP!ConfigMap = ConfigMap /\ KP!BoundKinds = BoundKinds
<1>1. KP!Krakend = Krakend
  BY DEF KP!Krakend, Krakend
<1>2. ASSUME NEW k, NEW n, NEW e
      PROVE  KP!parseKrakendEndpointsSpec(k, n, e) = parseKrakendEndpointsSpec(k, n, e)
  BY DEF KP!parseKrakendEndpointsSpec, parseKrakendEndpointsSpec, KP!parseEndpoint, parseEndpoint,
         KP!findAuthProvider, findAuthProvider
<1>3. KP!ChartRoute = ChartRoute
  BY DEF KP!ChartRoute, ChartRoute
<1>4. KP!Route = Route
  BY <1>2, <1>3 DEF KP!Route, Route
<1>5. QED
  BY <1>1, <1>4 DEF KP!ConfigMap, ConfigMap, KP!BoundKinds, BoundKinds

(* What the Krakend controller's invariant says, in the terms used here.   *)
LEMMA InstallFacts ==
  ASSUME KP!InstallInv
  PROVE  /\ krLog \in Seq([Krakends -> Krakend]) /\ krLog # <<>> /\ Len(krLog) \in Nat \ {0}
         /\ cmLog \in Seq([Krakends -> ConfigMap]) /\ cmLog # <<>> /\ Len(cmLog) \in Nat \ {0}
         /\ used \in [BoundKinds -> Nat] /\ Self \in Krakends
         /\ Current = krLog[Len(krLog)][Self] /\ Cached(krLog) = krLog[1]
         /\ Installed = cmLog[Len(cmLog)][Self] /\ Cached(cmLog) = cmLog[1]
         /\ \A i \in 1..Len(krLog) : krLog[i][Self] \in Krakend /\ krLog[i][Self].uid \in Nat
         /\ \A i \in 1..Len(cmLog) : cmLog[i][Self] \in ConfigMap /\ cmLog[i][Self].owner \in Nat
                                     /\ cmLog[i][Self].rv \in Nat
         /\ \A i, j \in 1..Len(krLog) : i <= j => krLog[i][Self].uid <= krLog[j][Self].uid
         /\ \A i \in 1..Len(cmLog) : \A j \in 1..Len(krLog) : cmLog[i][Self].owner <= krLog[j][Self].uid
         /\ kLocal \in Krakend /\ kLocal.uid \in Nat
         /\ kPc # "idle" => /\ kLocal.phase = "live" /\ kLocal.spec \in KSpecs
                            /\ kLocal.uid <= Current.uid /\ Installed.owner <= kLocal.uid
                            /\ kLocal.rv = Current.rv => kLocal = Current
<1>1. /\ krLog \in Seq([Krakends -> Krakend]) /\ krLog # <<>>
      /\ cmLog \in Seq([Krakends -> ConfigMap]) /\ cmLog # <<>>
      /\ used \in [BoundKinds -> Nat] /\ kLocal \in Krakend
      /\ kPc # "idle" => kLocal.phase = "live" /\ kLocal.spec \in KSpecs \ NoHost
  BY SameTypes DEF KP!InstallInv, KP!TypeOK
<1>2. /\ Len(krLog) \in Nat \ {0} /\ \A i \in 1..Len(krLog) : krLog[i] \in [Krakends -> Krakend]
      /\ Len(cmLog) \in Nat \ {0} /\ \A i \in 1..Len(cmLog) : cmLog[i] \in [Krakends -> ConfigMap]
  BY <1>1, LogFacts
<1>3. Self \in Krakends
  BY OperatorAssumption
<1>4. /\ \A i \in 1..Len(krLog) : krLog[i][Self] \in Krakend
      /\ \A i \in 1..Len(cmLog) : cmLog[i][Self] \in ConfigMap
  BY <1>2, <1>3
<1>5. /\ \A i \in 1..Len(krLog) : krLog[i][Self].uid \in Nat
      /\ \A i \in 1..Len(cmLog) : cmLog[i][Self].owner \in Nat /\ cmLog[i][Self].rv \in Nat
      /\ kLocal.uid \in Nat
  BY <1>1, <1>4 DEF Krakend, ConfigMap
<1>6. /\ Current = krLog[Len(krLog)][Self] /\ Cached(krLog) = krLog[1]
      /\ Installed = cmLog[Len(cmLog)][Self] /\ Cached(cmLog) = cmLog[1]
  BY DEF Current, Installed, Stored, Cached
<1>7. \A i, j \in 1..Len(krLog) : i <= j => krLog[i][Self].uid <= krLog[j][Self].uid
  BY DEF KP!InstallInv, KP!Ordered, KP!Older
<1>8. /\ \A i \in 1..Len(cmLog) :
           /\ \A j \in 1..Len(krLog) : cmLog[i][Self].owner <= krLog[j][Self].uid
           /\ kPc # "idle" => cmLog[i][Self].owner <= kLocal.uid
      /\ kPc # "idle" => \A i \in 1..Len(krLog) :
           kLocal.uid <= krLog[i][Self].uid /\ (kLocal.rv = krLog[i][Self].rv => kLocal = krLog[i][Self])
  BY DEF KP!InstallInv, KP!OwnersOld, KP!LocalOld, KP!Older
<1>9. Len(krLog) \in 1..Len(krLog) /\ Len(cmLog) \in 1..Len(cmLog)
  BY <1>2
<1>10. QED
  BY <1>1, <1>2, <1>3, <1>4, <1>5, <1>6, <1>7, <1>8, <1>9

KrakendActs ==
  \/ \E o \in BOOLEAN : K!Start(o)
  \/ K!Reconcile \/ K!Fault \/ K!Resync \/ K!ObserveNetpol
  \/ \E x \in Resources \cup {K!Partials} : K!ApplyFails(x)
  \/ (\E s \in KSpecs : K!UserApply(s)) \/ K!UserDelete
  \/ K!GcPartials \/ K!GcNetpol \/ \E x \in Resources : K!GcResource(x)

LEMMA KrakendMoves ==
  ASSUME KP!InstallInv, KrakendActs, UNCHANGED endpointsOnly
  PROVE  KrakendMove
<1> DEFINE Goal == \/ UNCHANGED <<krLog, cmLog, lost>>
                   \/ \E obj \in Krakend : KrakendWritten(obj)
                   \/ \E obj \in ConfigMap : Sampled(obj) \/ Collected(obj)
<1>0. /\ Self \in Krakends /\ Current \in Krakend /\ Current.uid \in Nat /\ Current.rv \in Nat
      /\ Installed \in ConfigMap /\ Installed.rv \in Nat /\ Installed.owner \in Nat
      /\ Current.phase \in {"absent", "live"}
  BY InstallFacts DEF Krakend, ConfigMap
<1>1. KP!Next
  BY SameStart, SameReconcile, SameFaults, SameApplyFails, SameDeliveries, SameUserApply,
     SameUserDelete, SameGcResource, SameGc
     DEF KrakendActs, KP!Next, KP!Environment, K!Partials, KP!Partials
<1>2. KP!InstallInv'
  BY <1>1, Assumptions, KP!InstallStep
<1>3. used' \in [BoundKinds -> Nat]
  BY <1>2, SameTypes DEF KP!InstallInv, KP!TypeOK
<1>4. ASSUME \/ \E o \in BOOLEAN : K!Start(o)
             \/ K!Fault \/ K!Resync \/ K!ObserveNetpol \/ K!GcNetpol
             \/ \E x \in Resources \cup {K!Partials} : K!ApplyFails(x)
             \/ \E x \in Resources : K!GcResource(x)
             \/ (\E x \in Resources : K!createOrUpdate(x)) \/ K!GetPartials \/ K!ensureKrakendNetpol
      PROVE  UNCHANGED <<krLog, cmLog, lost>>
  BY <1>4 DEF K!Start, K!Fault, K!Resync, K!ObserveNetpol, K!GcNetpol, K!ApplyFails, K!GcResource,
              K!createOrUpdate, K!GetPartials, K!ensureKrakendNetpol, K!history
<1>5. ASSUME K!CreatePartials PROVE Goal
  <2> DEFINE obj == [phase |-> "live", rv |-> Installed.rv + 1, owner |-> kLocal.uid,
                     data |-> {ChartRoute}]
  <2>1. /\ kPc = "createPartials" /\ UNCHANGED krLog
        /\ cmLog' = IF /\ Installed.phase = "live" /\ Installed.owner = kLocal.uid
                       /\ Installed.data = {ChartRoute}
                    THEN cmLog ELSE Put(cmLog, Self, obj)
        /\ lost' = (lost \/ (Installed.phase = "live" /\ Installed.data # {ChartRoute}))
    BY <1>5 DEF K!CreatePartials, K!Installed, Installed, K!Stored, Stored, K!Put, Put,
                K!ChartRoute, ChartRoute
  <2>2. obj \in ConfigMap
    BY <1>0, InstallFacts DEF ConfigMap, Route
  <2>3. CASE Installed.phase = "live" /\ Installed.owner = kLocal.uid /\ Installed.data = {ChartRoute}
    <3>1. lost \in BOOLEAN
      BY DEF KP!InstallInv, KP!TypeOK
    <3>2. lost' = lost
      BY <2>1, <2>3, <3>1
    <3>3. QED
      BY <2>1, <2>3, <3>2
  <2>4. CASE ~(Installed.phase = "live" /\ Installed.owner = kLocal.uid
               /\ Installed.data = {ChartRoute})
    <3>1. cmLog' = Put(cmLog, Self, obj)
      BY <2>1, <2>4
    <3>2. Sampled(obj)
      BY <2>1, <3>1 DEF Sampled
    <3>3. QED
      BY <2>2, <3>2
  <2>5. QED
    BY <2>3, <2>4
<1>6. ASSUME K!UpdateStatus PROVE Goal
  <2> DEFINE obj == [kLocal EXCEPT !.hash = kLocal.spec, !.rv = @ + 1]
  <2>1. CASE K!Fail /\ UNCHANGED krLog
    BY <1>6, <2>1 DEF K!UpdateStatus, K!history
  <2>2. CASE Current.phase = "live" /\ Current.rv = kLocal.rv
    <3>1. kPc # "idle" /\ krLog' = Put(krLog, Self, obj) /\ UNCHANGED <<cmLog, lost>>
      BY <1>6, <2>2 DEF K!UpdateStatus, K!Current, Current, K!Stored, Stored, K!Put, Put, K!hash,
                        K!history
    <3>2. kLocal = Current /\ kLocal \in Krakend /\ kLocal.spec \in KSpecs
      BY <2>2, <3>1, InstallFacts
    <3>3. obj \in Krakend /\ obj.uid = Current.uid
      <4>1. kLocal.rv + 1 \in Nat /\ kLocal.spec # None /\ Current.uid = kLocal.uid
        BY <3>2, ClusterAssumption DEF Krakend
      <4>2. QED
        BY <3>2, <4>1 DEF Krakend
    <3> HIDE DEF obj
    <3>4. KrakendWritten(obj)
      BY <2>2, <3>1, <3>3 DEF KrakendWritten
    <3>5. QED
      BY <3>3, <3>4
  <2>3. QED
    BY <1>6, <2>1, <2>2 DEF K!UpdateStatus, K!Current, Current, K!Stored, Stored
<1>7. ASSUME NEW s \in KSpecs, K!UserApply(s) PROVE Goal
  <2> DEFINE new == Current.phase = "absent"
             obj == [phase |-> "live", rv |-> Current.rv + 1,
                     uid |-> IF new THEN Current.uid + 1 ELSE Current.uid,
                     spec |-> s, hash |-> IF new THEN None ELSE Current.hash]
  <2>1. krLog' = Put(krLog, Self, obj) /\ UNCHANGED <<cmLog, lost>>
    BY <1>7 DEF K!UserApply, K!Current, Current, K!Stored, Stored, K!Put, Put
  <2>2. /\ obj.phase = "live" /\ obj.rv = Current.rv + 1 /\ obj.spec = s
        /\ obj.uid = IF new THEN Current.uid + 1 ELSE Current.uid
    OBVIOUS
  <2>3. obj \in Krakend
    <3>1. Current.hash \in KSpecs \cup {None} /\ s # None
      BY <1>0, ClusterAssumption DEF Krakend
    <3>2. QED
      BY <1>0, <3>1 DEF Krakend
  <2> HIDE DEF obj
  <2>4. KrakendWritten(obj)
    BY <1>0, <2>1, <2>2 DEF KrakendWritten
  <2>5. QED
    BY <2>3, <2>4
<1>8. ASSUME K!UserDelete PROVE Goal
  <2> DEFINE obj == GoneKrakend(Current)
  <2>1. krLog' = Put(krLog, Self, obj) /\ UNCHANGED <<cmLog, lost>> /\ Current.phase = "live"
    BY <1>8 DEF K!UserDelete, K!Current, Current, K!Stored, Stored, K!Put, Put, K!GoneKrakend,
                GoneKrakend, K!history
  <2>2. obj \in Krakend /\ obj.uid = Current.uid
    BY <1>0 DEF GoneKrakend, Krakend
  <2> HIDE DEF obj
  <2>3. KrakendWritten(obj)
    BY <2>1, <2>2 DEF KrakendWritten
  <2>4. QED
    BY <2>2, <2>3
<1>9. ASSUME K!GcPartials PROVE Goal
  <2> DEFINE obj == [Installed EXCEPT !.phase = "absent", !.rv = @ + 1, !.data = {}]
  <2>1. cmLog' = Put(cmLog, Self, obj) /\ UNCHANGED <<krLog, lost>>
        /\ (Current.phase = "absent" \/ Current.uid # Installed.owner)
    BY <1>9 DEF K!GcPartials, K!Current, Current, K!Installed, Installed, K!Stored, Stored, K!Put,
                Put, K!Orphan, K!history
  <2>2. ~Serving(Self)
    BY <2>1 DEF Serving, KrakendExists, Current, Installed
  <2>3. /\ obj \in ConfigMap /\ obj.phase = "absent" /\ obj.rv = Installed.rv + 1
        /\ obj.data = {}
    <3>1. Installed.rv + 1 \in Nat /\ {} \in SUBSET Route
      BY <1>0
    <3>2. QED
      BY <1>0, <3>1 DEF ConfigMap
  <2> HIDE DEF obj
  <2>4. Collected(obj)
    BY <2>1, <2>2, <2>3 DEF Collected
  <2>5. QED
    BY <2>3, <2>4
<1>10. Goal
  <2> HIDE DEF Goal
  <2>1. ASSUME UNCHANGED <<krLog, cmLog, lost>> PROVE Goal
    BY <2>1 DEF Goal
  <2>2. QED
    BY <1>4, <1>5, <1>6, <1>7, <1>8, <1>9, <2>1 DEF KrakendActs, K!Reconcile
<1>11. QED
  BY <1>2, <1>3, <1>10 DEF KrakendMove

(* The steps of the ApiEndpoints controller, its users and the caches.     *)
Alone ==
  /\ \/ \E n \in Names, outside \in BOOLEAN : Start(n, outside)
     \/ Fault \/ Resync \/ ObserveEndpoints \/ ObserveNetpols
     \/ \E key \in NetpolKeys : GcNetpol(key)
     \/ UserStep /\ UNCHANGED <<cmLog, npLog, queue, workVars>>
  /\ UNCHANGED <<krLog, krakendOnly, misplaced>>

Together ==
  /\ \/ Restart /\ K!Restart
     \/ ObserveKrakends /\ K!ObserveKrakend
     \/ ObserveConfigMaps /\ K!ObservePartials
  /\ UNCHANGED misplaced

LEMMA OperatorActs ==
  ASSUME [OperatorNext]_operatorVars
  PROVE  \/ KrakendActs /\ UNCHANGED endpointsOnly
         \/ Alone \/ EndpointsWorker \/ Together \/ UNCHANGED operatorVars
<1>1. ASSUME Workers PROVE (KrakendActs /\ UNCHANGED endpointsOnly) \/ Alone \/ EndpointsWorker
  <2>1. ASSUME NEW n \in Names, NEW outside \in BOOLEAN, Start(n, outside),
               UNCHANGED <<krakendOnly, misplaced>>
        PROVE  Alone
    <3>1. UNCHANGED krLog
      BY <2>1 DEF Start
    <3>2. QED
      BY <2>1, <3>1 DEF Alone
  <2>2. QED
    BY <1>1, <2>1 DEF Workers, KrakendWorker, KrakendActs
<1>2. ASSUME Faults PROVE (KrakendActs /\ UNCHANGED endpointsOnly) \/ Alone
  BY <1>2 DEF Faults, KrakendActs, Alone, Fault, Resync
<1>3. ASSUME RestartManager PROVE Together
  BY <1>3 DEF RestartManager, Together
<1>4. ASSUME Deliveries PROVE (KrakendActs /\ UNCHANGED endpointsOnly) \/ Alone \/ Together
  <2>1. ObserveEndpoints \/ ObserveNetpols => UNCHANGED krLog
    BY DEF ObserveEndpoints, ObserveNetpols, DeliverEndpoints, admissionVars
  <2>2. QED
    BY <1>4, <2>1 DEF Deliveries, KrakendActs, Alone, Together
<1>5. ASSUME \/ \E n \in Names, s \in ESpecs : UserApply(n, s)
             \/ \E n \in Names : UserDelete(n) \/ GcEndpoints(n)
             \/ \E w \in inflight : Commit(w),
             UNCHANGED usersOnly
      PROVE  Alone
  <2>1. UserStep
    BY <1>5 DEF UserStep
  <2>2. UNCHANGED krLog
    BY <1>5 DEF UserApply, UserDelete, GcEndpoints, DeleteEndpoints, Commit
  <2>3. QED
    BY <1>5, <2>1, <2>2 DEF usersOnly, Alone
<1>6. ASSUME Users PROVE (KrakendActs /\ UNCHANGED endpointsOnly) \/ Alone
  BY <1>5, <1>6 DEF Users, StoreAdmitted, KrakendActs
<1>7. ASSUME GarbageCollector PROVE (KrakendActs /\ UNCHANGED endpointsOnly) \/ Alone
  <2>1. ASSUME NEW key \in NetpolKeys, GcNetpol(key), UNCHANGED <<krakendOnly, misplaced>> PROVE Alone
    <3>1. UNCHANGED krLog
      BY <2>1 DEF GcNetpol
    <3>2. QED
      BY <2>1, <3>1 DEF Alone
  <2>2. QED
    BY <1>5, <1>7, <2>1 DEF GarbageCollector, KrakendActs
<1>8. QED
  BY <1>1, <1>2, <1>3, <1>4, <1>6, <1>7 DEF OperatorNext

(* What others do to the Krakend controller's world keeps its invariant.   *)
LEMMA InstallKept ==
  ASSUME KP!InstallInv, used' \in [BoundKinds -> Nat], UNCHANGED <<krLog, krakendOnly>>,
         \/ UNCHANGED cmLog
         \/ \E obj \in ConfigMap :
              /\ cmLog' = Put(cmLog, Self, obj)
              /\ obj.phase = Installed.phase /\ obj.owner = Installed.owner
  PROVE  KP!InstallInv'
<1>1. UNCHANGED <<krLog, kNpLog, res, kQueue, KP!workVars, KP!history>>
  BY DEF krakendOnly, KP!workVars, KP!history
<1>2. ASSUME NEW obj \in ConfigMap, cmLog' = Put(cmLog, Self, obj), obj.phase = Installed.phase,
             obj.owner = Installed.owner
      PROVE  KP!Published(obj)
  BY <1>1, <1>2, SameTypes DEF KP!Published, KP!NewPartials, KP!Put, Put, KP!Stored, Stored,
                               KP!Installed, Installed
<1>3. used' \in [KP!BoundKinds -> Nat] /\ (UNCHANGED cmLog \/ \E obj : KP!Published(obj))
  BY <1>2, SameTypes
<1>4. QED
  BY <1>1, <1>3, Assumptions, KP!OtherStep

LEMMA PublishingMoves ==
  ASSUME Publishing
  PROVE  pc = "updateConfigMap" /\ pc' \in {"removeFinalizer", "ensureNetpol", "refetch"}
BY DEF Publishing, UpdateConfigMap, AfterConfigMap, Fail, Return

(* The partials Reconcile updates are those it read.                       *)
LEMMA PublishedObject ==
  ASSUME ControllerInv, KP!InstallInv, PartialsCopy, Krakends = {Self}, Publishing
  PROVE  /\ krak = Self /\ cm.owner = Installed.owner
         /\ Installed.phase = "live" /\ Installed.rv = cm.rv
         /\ UNCHANGED <<epsLog, krLog, history, req, local, hash, krak, krakCopy, cm>>
         /\ Stored(cmLog)'[Self].data = cm.data
         /\ \/ UNCHANGED cmLog
            \/ \E obj \in ConfigMap :
                 /\ cmLog' = Put(cmLog, Self, obj) /\ obj.rv = Installed.rv + 1
                 /\ obj.phase = Installed.phase /\ obj.owner = Installed.owner
<1>1. /\ pc = "updateConfigMap" /\ krak \in Krakends
      /\ UNCHANGED <<epsLog, krLog, req, local, hash, krak, krakCopy, cm>>
      /\ Stored(cmLog)[krak].phase = "live" /\ Stored(cmLog)[krak].rv = cm.rv
      /\ \/ cmLog' = cmLog
         \/ \E obj \in ConfigMap :
              /\ cmLog' = Put(cmLog, krak, obj) /\ obj.rv = cm.rv + 1
              /\ obj.phase = cm.phase /\ obj.owner = cm.owner
      /\ Stored(cmLog)'[krak].data = cm.data
  BY PublishFacts DEF Publishing
<1>2. krak = Self /\ Installed.phase = "live" /\ Installed.rv = cm.rv
  BY <1>1 DEF Installed
<1>3. cm.owner = Installed.owner /\ cm.phase = Installed.phase
  <2>1. Len(cmLog) \in 1..Len(cmLog) /\ Installed = cmLog[Len(cmLog)][Self]
    BY InstallFacts
  <2>2. QED
    BY <1>1, <1>2, <2>1 DEF PartialsCopy
<1>4. UNCHANGED history
  BY DEF Publishing, UpdateConfigMap, admissionVars
<1>5. QED
  BY <1>1, <1>2, <1>3, <1>4

LEMMA EndpointsMoves ==
  ASSUME ControllerInv, KP!InstallInv, PartialsCopy, Krakends = {Self},
         Alone \/ EndpointsWorker \/ Together \/ UNCHANGED operatorVars
  PROVE  EndpointsMove /\ KP!InstallInv'
<1>0. ASSUME [Next]_vars PROVE used' \in [BoundKinds -> Nat]
  BY <1>0, ControllerInvStep DEF ControllerInv, AdmissionInv, AdmissionTypeOK
<1>1. CASE Alone
  <2>1. Next
    BY <1>1 DEF Alone, Next, Environment
  <2>2. UNCHANGED <<krLog, cmLog, krakendOnly, misplaced>>
    BY <1>1 DEF Alone, Start, Fault, Resync, ObserveEndpoints, ObserveNetpols, GcNetpol
  <2>3. ~Publishing
    <3>1. SUFFICES ASSUME Publishing PROVE FALSE
      OBVIOUS
    <3>2. pc = "updateConfigMap" /\ pc' \notin {pc, "idle"}
      BY <3>1, PublishingMoves
    <3>3. QED
      BY <1>1, <3>2 DEF Alone, Start, Fault, Fail, Return, Resync, ObserveEndpoints, ObserveNetpols,
                        GcNetpol, workVars
  <2>4. EndpointsMove
    BY <2>1, <2>2, <2>3 DEF EndpointsMove, Follows, krakendOnly
  <2>5. KP!InstallInv'
    BY <1>0, <2>1, <2>2, InstallKept
  <2>6. QED
    BY <2>4, <2>5
<1>2. CASE EndpointsWorker
  <2>1. Reconcile /\ Next /\ UNCHANGED krakendOnly
    BY <1>2 DEF EndpointsWorker, Next
  <2>2. UNCHANGED krLog
    BY <2>1 DEF Reconcile, GetKrakend, GetConfigMap, ListEndpoints, UpdateConfigMap, EnsureNetpol,
                Refetch, AdmitFinalizer, AddFinalizer, UpdateStatus, RemoveFinalizer, clusterVars,
                admissionVars
  <2>3. UNCHANGED cmLog \/ Publishing
    <3>1. UNCHANGED cmLog \/ UpdateConfigMap
      BY <2>1 DEF Reconcile, GetKrakend, GetConfigMap, ListEndpoints, EnsureNetpol,
                  Refetch, AdmitFinalizer, AddFinalizer, UpdateStatus, RemoveFinalizer, clusterVars
    <3>2. UpdateConfigMap => UNCHANGED cmLog \/ pc' # "idle"
      BY DEF UpdateConfigMap, AfterConfigMap
    <3>3. QED
      BY <3>1, <3>2 DEF Publishing
  <2>4. pc = "updateConfigMap" /\ pc' # "idle" <=> Publishing
    <3>1. pc = "updateConfigMap" => UpdateConfigMap
      BY <2>1 DEF Reconcile, GetKrakend, GetConfigMap, ListEndpoints, EnsureNetpol,
                  Refetch, AdmitFinalizer, AddFinalizer, UpdateStatus, RemoveFinalizer
    <3>2. QED
      BY <3>1, PublishingMoves DEF Publishing
  <2>5. EndpointsMove
    BY <1>2, <2>1, <2>2, <2>3, <2>4 DEF EndpointsMove, EndpointsWorker, Follows, krakendOnly
  <2>6. KP!InstallInv'
    BY <1>0, <2>1, <2>2, <2>3, InstallKept, PublishedObject
  <2>7. QED
    BY <2>5, <2>6
<1>3. CASE Together
  <2>1. Next /\ KP!Next
    BY <1>3, SameFaults, SameDeliveries DEF Together, Next, Environment, KP!Next, KP!Environment,
       K!Restart, K!ObserveKrakend, K!ObservePartials
  <2>2. /\ Follows(krLog', krLog) /\ Follows(cmLog', cmLog) /\ UNCHANGED misplaced
    BY <1>3 DEF Together, Restart, RelistCaches, ObserveKrakends, DeliverKrakends,
                ObserveConfigMaps, Follows, admissionVars
  <2>3. UNCHANGED lost
    BY <1>3 DEF Together, K!Restart, K!ObserveKrakend, K!ObservePartials, K!history
  <2>4. ~Publishing
    <3>1. SUFFICES ASSUME Publishing PROVE FALSE
      OBVIOUS
    <3>2. pc = "updateConfigMap" /\ pc' \notin {pc, "idle"}
      BY <3>1, PublishingMoves
    <3>3. QED
      BY <1>3, <3>2 DEF Together, Restart, Return, ObserveKrakends, ObserveConfigMaps, workVars
  <2>5. EndpointsMove
    BY <2>1, <2>2, <2>3, <2>4 DEF EndpointsMove
  <2>6. KP!InstallInv'
    BY <2>1, Assumptions, KP!InstallStep
  <2>7. QED
    BY <2>5, <2>6
<1>4. CASE UNCHANGED operatorVars
  <2>1. UNCHANGED <<vars, krLog, cmLog, krakendOnly, misplaced, pc>>
    BY <1>4 DEF operatorVars, vars, admissionVars, workVars
  <2>2. ~Publishing
    BY <2>1, PublishingMoves
  <2>3. EndpointsMove
    BY <2>1, <2>2 DEF EndpointsMove, Follows, krakendOnly
  <2>4. KP!InstallInv'
    BY <1>0, <2>1, InstallKept
  <2>5. QED
    BY <2>3, <2>4
<1>5. QED
  BY <1>1, <1>2, <1>3, <1>4

-----------------------------------------------------------------------------
(* What the moves do to the two logs.                                      *)
LEMMA KrakendPut ==
  ASSUME KP!InstallInv, NEW obj \in Krakend, krLog' = Put(krLog, Self, obj)
  PROVE  /\ Current' = obj /\ Len(krLog') = Len(krLog) + 1
         /\ \A i \in 1..Len(krLog) : krLog'[i] = krLog[i]
         /\ krLog'[Len(krLog) + 1][Self] = obj
         /\ Cached(krLog)' = Cached(krLog)
<1>1. /\ krLog \in Seq([Krakends -> Krakend]) /\ krLog # <<>> /\ Self \in Krakends
      /\ Stored(krLog) \in [Krakends -> Krakend]
  BY InstallFacts, LogFacts
<1>2. /\ Stored(krLog') = [Stored(krLog) EXCEPT ![Self] = obj]
      /\ Len(krLog') = Len(krLog) + 1 /\ \A i \in 1..Len(krLog) : krLog'[i] = krLog[i]
      /\ krLog'[Len(krLog) + 1] = [Stored(krLog) EXCEPT ![Self] = obj]
      /\ Cached(krLog') = Cached(krLog)
  BY <1>1 DEF Put, Stored, Cached
<1>3. Current' = Stored(krLog')[Self] /\ Cached(krLog)' = Cached(krLog')
  BY DEF Current, Stored, Cached
<1>4. QED
  BY <1>1, <1>2, <1>3

LEMMA PartialsPut ==
  ASSUME KP!InstallInv, NEW obj \in ConfigMap, cmLog' = Put(cmLog, Self, obj)
  PROVE  /\ Installed' = obj /\ Len(cmLog') = Len(cmLog) + 1
         /\ \A i \in 1..Len(cmLog) : cmLog'[i] = cmLog[i]
         /\ cmLog'[Len(cmLog) + 1][Self] = obj
<1>1. /\ cmLog \in Seq([Krakends -> ConfigMap]) /\ cmLog # <<>> /\ Self \in Krakends
      /\ Stored(cmLog) \in [Krakends -> ConfigMap]
  BY InstallFacts, LogFacts
<1>2. [Stored(cmLog) EXCEPT ![Self] = obj] \in [Krakends -> ConfigMap]
  BY <1>1
<1>3. /\ Stored(cmLog') = [Stored(cmLog) EXCEPT ![Self] = obj]
      /\ Len(cmLog') = Len(cmLog) + 1 /\ \A i \in 1..Len(cmLog) : cmLog'[i] = cmLog[i]
      /\ cmLog'[Len(cmLog) + 1] = [Stored(cmLog) EXCEPT ![Self] = obj]
  <2> DEFINE S == [Krakends -> ConfigMap]
  <2>1. cmLog \in Seq(S) /\ cmLog # <<>> /\ [Stored(cmLog) EXCEPT ![Self] = obj] \in S
    BY <1>1, <1>2
  <2>2. QED
    BY <2>1 DEF Put, Stored
<1>4. Installed' = Stored(cmLog')[Self]
  BY DEF Installed, Stored
<1>5. QED
  BY <1>1, <1>3, <1>4

LEMMA KrakendFollowed ==
  ASSUME KP!InstallInv, Follows(krLog', krLog)
  PROVE  /\ Current' = Current /\ Stored(krLog)' = Stored(krLog)
         /\ \E d \in Nat : /\ d < Len(krLog) /\ Len(krLog') = Len(krLog) - d
                           /\ \A i \in 1..Len(krLog') :
                                i + d \in 1..Len(krLog) /\ krLog'[i] = krLog[i + d]
<1>1. krLog \in Seq([Krakends -> Krakend]) /\ krLog # <<>>
  BY InstallFacts
<1>2. Stored(krLog)' = Stored(krLog') /\ Current' = Stored(krLog')[Self] /\ Current = Stored(krLog)[Self]
  BY DEF Stored, Current
<1>3. QED
  BY <1>1, <1>2, FollowsFacts

LEMMA PartialsFollowed ==
  ASSUME KP!InstallInv, Follows(cmLog', cmLog)
  PROVE  /\ Installed' = Installed
         /\ \E d \in Nat : /\ d < Len(cmLog) /\ Len(cmLog') = Len(cmLog) - d
                           /\ \A i \in 1..Len(cmLog') :
                                i + d \in 1..Len(cmLog) /\ cmLog'[i] = cmLog[i + d]
<1>1. cmLog \in Seq([Krakends -> ConfigMap]) /\ cmLog # <<>>
  BY InstallFacts
<1>2. Installed' = Stored(cmLog')[Self] /\ Installed = Stored(cmLog)[Self]
  BY DEF Stored, Installed
<1>3. QED
  BY <1>1, <1>2, FollowsFacts

(* What a write of the Krakend and its partials leaves of the versions.    *)
LEMMA PartialsWritten ==
  ASSUME KP!InstallInv, PartialsGrow, NEW obj \in ConfigMap,
         cmLog' = Put(cmLog, Self, obj), obj.rv = Installed.rv + 1
  PROVE  PartialsGrow'
<1>0. /\ Len(cmLog) \in Nat \ {0} /\ Installed = cmLog[Len(cmLog)][Self]
      /\ \A i \in 1..Len(cmLog) : cmLog[i][Self].rv \in Nat
  BY InstallFacts
<1>1. /\ Len(cmLog') = Len(cmLog) + 1 /\ \A i \in 1..Len(cmLog) : cmLog'[i] = cmLog[i]
      /\ cmLog'[Len(cmLog) + 1][Self] = obj
  BY PartialsPut
<1> SUFFICES ASSUME NEW i \in 1..Len(cmLog'), NEW j \in 1..Len(cmLog'), i <= j
             PROVE  /\ cmLog'[i][Self].rv <= cmLog'[j][Self].rv
                    /\ cmLog'[i][Self].rv = cmLog'[j][Self].rv => cmLog'[i][Self] = cmLog'[j][Self]
  BY DEF PartialsGrow
<1>2. CASE j \in 1..Len(cmLog)
  BY <1>0, <1>1, <1>2 DEF PartialsGrow
<1>3. CASE i \in 1..Len(cmLog) /\ j = Len(cmLog) + 1
  <2>1. cmLog[i][Self].rv <= Installed.rv /\ Installed.rv \in Nat /\ cmLog[i][Self].rv \in Nat
    BY <1>0, <1>3 DEF PartialsGrow
  <2>2. QED
    BY <1>1, <1>3, <2>1
<1>4. CASE i = Len(cmLog) + 1 /\ j = Len(cmLog) + 1
  <2>1. obj.rv <= obj.rv
    BY <1>0
  <2>2. QED
    BY <1>1, <1>4, <2>1
<1>5. QED
  BY <1>0, <1>1, <1>2, <1>3, <1>4

LEMMA PartialsGrowStep ==
  ASSUME ControllerInv, KP!InstallInv, PartialsCopy, PartialsGrow, Krakends = {Self},
         EndpointsMove \/ KrakendMove
  PROVE  PartialsGrow'
<1>1. CASE Follows(cmLog', cmLog)
  <2>1. PICK d \in Nat : /\ d < Len(cmLog) /\ Len(cmLog') = Len(cmLog) - d
                         /\ \A i \in 1..Len(cmLog') :
                              i + d \in 1..Len(cmLog) /\ cmLog'[i] = cmLog[i + d]
    BY <1>1, PartialsFollowed
  <2>2. Len(cmLog) \in Nat
    BY InstallFacts
  <2>3. QED
    BY <2>1, <2>2 DEF PartialsGrow
<1>2. CASE Publishing
  <2>1. CASE UNCHANGED cmLog
    BY <1>1, <2>1 DEF Follows
  <2>2. QED
    BY <1>2, <2>1, PublishedObject, PartialsWritten
<1>3. ASSUME KrakendMove PROVE PartialsGrow'
  BY <1>1, <1>3, PartialsWritten DEF KrakendMove, KrakendWritten, Sampled, Collected, Follows
<1>4. QED
  BY <1>1, <1>2, <1>3 DEF EndpointsMove

(* The rest of the invariant.  A Krakend that comes back is a later        *)
(* incarnation, and no copy and no owner reference is of a later one than  *)
(* any the cache will show.                                                *)
Returns ==
  \A i, j \in 1..Len(krLog) :
    i <= j /\ krLog[i][Self].phase = "absent" /\ krLog[j][Self].phase = "live" =>
      krLog[i][Self].uid < krLog[j][Self].uid

CopyKnown == krak # None => \A i \in 1..Len(krLog) : krakCopy.uid <= krLog[i][Self].uid

OwnersPast ==
  \A n \in Names : LET o == Stored(epsLog)[n].owner
                   IN  o # None => /\ \A i \in 1..Len(krLog) : o[2] <= krLog[i][Self].uid
                                   /\ krak # None => o[2] <= krakCopy.uid

(* The gateway runs: the partials are those of the stored incarnation.     *)
LEMMA ServingMeans ==
  Serving(Self) <=> /\ Installed.phase = "live" /\ Current.phase = "live"
                    /\ Current.uid = Installed.owner
BY DEF Serving, KrakendExists, Installed, Current

(* What the two kinds of step do to what the gateway reads.                *)
LEMMA EndpointsEffect ==
  ASSUME ControllerInv, KP!InstallInv, PartialsCopy, Krakends = {Self}, EndpointsMove
  PROVE  /\ Current' = Current /\ (Serving(Self)' <=> Serving(Self))
         /\ Installed'.phase = Installed.phase /\ Installed'.owner = Installed.owner
         /\ ~Publishing => Installed' = Installed /\ (misplaced' <=> misplaced)
         /\ Publishing => /\ Installed'.data = cm.data /\ krak = Self
                          /\ (misplaced' <=> Installed.owner # krakCopy.uid)
<1>1. Current' = Current
  BY KrakendFollowed DEF EndpointsMove
<1>2. /\ Installed'.phase = Installed.phase /\ Installed'.owner = Installed.owner
      /\ ~Publishing => Installed' = Installed /\ (misplaced' <=> misplaced)
      /\ Publishing => /\ Installed'.data = cm.data /\ krak = Self
                       /\ (misplaced' <=> Installed.owner # krakCopy.uid)
  <2>1. CASE Publishing
    <3>1. Installed'.data = cm.data /\ krak = Self /\ cm.owner = Installed.owner
      BY <2>1, PublishedObject DEF Installed
    <3>2. Installed'.phase = Installed.phase /\ Installed'.owner = Installed.owner
      <4>1. CASE UNCHANGED cmLog
        BY <4>1 DEF Installed
      <4>2. QED
        BY <2>1, <4>1, PublishedObject, PartialsPut
    <3>3. QED
      BY <2>1, <3>1, <3>2 DEF EndpointsMove
  <2>2. CASE ~Publishing
    <3>1. Installed' = Installed
      BY <2>2, PartialsFollowed DEF EndpointsMove
    <3>2. QED
      BY <2>2, <3>1 DEF EndpointsMove
  <2>3. QED
    BY <2>1, <2>2
<1>3. Serving(Self)' <=> /\ Installed'.phase = "live" /\ Current'.phase = "live"
                         /\ Current'.uid = Installed'.owner
  BY DEF Serving, KrakendExists, Installed, Current
<1>4. Serving(Self)' <=> Serving(Self)
  BY <1>1, <1>2, <1>3, ServingMeans
<1>5. QED
  BY <1>1, <1>2, <1>4

LEMMA KrakendEffect ==
  ASSUME KP!InstallInv, KrakendMove
  PROVE  /\ UNCHANGED <<epsLog, inflight, history, npLog, queue, pc, req, local, hash, krak, krakCopy,
                        cm, apps, misplaced>>
         /\ Serving(Self)' <=> /\ Installed'.phase = "live" /\ Current'.phase = "live"
                               /\ Current'.uid = Installed'.owner
         /\ \/ UNCHANGED <<krLog, cmLog, lost>> /\ Current' = Current /\ Installed' = Installed
            \/ \E obj \in Krakend :
                 KrakendWritten(obj) /\ Current' = obj /\ Installed' = Installed
            \/ \E obj \in ConfigMap :
                 (Sampled(obj) \/ Collected(obj)) /\ Current' = Current /\ Installed' = obj
<1>1. UNCHANGED <<epsLog, inflight, history, npLog, queue, pc, req, local, hash, krak, krakCopy,
                  cm, apps, misplaced>>
  BY DEF KrakendMove, endpointsOnly, workVars
<1>2. Serving(Self)' <=> /\ Installed'.phase = "live" /\ Current'.phase = "live"
                         /\ Current'.uid = Installed'.owner
  BY DEF Serving, KrakendExists, Installed, Current
<1>3. ASSUME UNCHANGED krLog PROVE Current' = Current
  BY <1>3 DEF Current
<1>4. ASSUME UNCHANGED cmLog PROVE Installed' = Installed
  BY <1>4 DEF Installed
<1>5. ASSUME NEW obj \in Krakend, KrakendWritten(obj)
      PROVE  Current' = obj /\ Installed' = Installed
  BY <1>4, <1>5, KrakendPut DEF KrakendWritten
<1>6. ASSUME NEW obj \in ConfigMap, Sampled(obj) \/ Collected(obj)
      PROVE  Current' = Current /\ Installed' = obj
  BY <1>3, <1>6, PartialsPut DEF Sampled, Collected
<1>7. \/ UNCHANGED <<krLog, cmLog, lost>> /\ Current' = Current /\ Installed' = Installed
      \/ \E obj \in Krakend : KrakendWritten(obj) /\ Current' = obj /\ Installed' = Installed
      \/ \E obj \in ConfigMap :
           (Sampled(obj) \/ Collected(obj)) /\ Current' = Current /\ Installed' = obj
  BY <1>3, <1>4, <1>5, <1>6 DEF KrakendMove
<1>8. QED
  BY <1>1, <1>2, <1>7

(* Reconcile's copy of the partials is one of the cache, except for the    *)
(* routes it is given.                                                     *)
LEMMA PartialsCopyMoves ==
  ASSUME [Next]_vars, pc' \in {"list", "updateConfigMap"}
  PROVE  \/ /\ pc \in {"list", "updateConfigMap"}
            /\ cm' = cm \/ \E d : cm' = [cm EXCEPT !.data = d]
         \/ pc = "getConfigMap" /\ cm' = Cached(cmLog)[krak] /\ UNCHANGED cmLog
<1> DEFINE Goal == \/ /\ pc \in {"list", "updateConfigMap"}
                      /\ cm' = cm \/ \E d : cm' = [cm EXCEPT !.data = d]
                   \/ pc = "getConfigMap" /\ cm' = Cached(cmLog)[krak] /\ UNCHANGED cmLog
<1>1. ASSUME UNCHANGED workVars PROVE Goal
  BY <1>1 DEF workVars
<1>2. ASSUME Fail \/ Done \/ Return PROVE FALSE
  BY <1>2 DEF Fail, Done, Return
<1>3. ASSUME NEW n \in Names, NEW outside \in BOOLEAN, Start(n, outside) PROVE Goal
  BY <1>1, <1>3 DEF Start
<1>4. ASSUME GetConfigMap PROVE Goal
  BY <1>2, <1>4 DEF GetConfigMap, clusterVars
<1>5. ASSUME ListEndpoints PROVE Goal
  BY <1>2, <1>5 DEF ListEndpoints
<1>6. ASSUME \/ GetKrakend \/ UpdateConfigMap \/ (\E app \in apps : EnsureNetpol(app)) \/ Refetch
             \/ AdmitFinalizer \/ AddFinalizer \/ UpdateStatus \/ RemoveFinalizer
      PROVE  FALSE
  BY <1>2, <1>6 DEF GetKrakend, UpdateConfigMap, AfterConfigMap, EnsureNetpol, Refetch,
                    AdmitFinalizer, AddFinalizer, UpdateStatus, RemoveFinalizer
<1>7. ASSUME Environment PROVE Goal
  BY <1>1, <1>2, <1>7 DEF Environment, Fault, Restart, Resync, ObserveEndpoints, ObserveKrakends,
                          ObserveConfigMaps, ObserveNetpols, GcConfigMap, GcNetpol
<1>8. Goal
  <2> HIDE DEF Goal
  <2>1. QED
    BY <1>1, <1>3, <1>4, <1>5, <1>6, <1>7 DEF Next, Reconcile, vars
<1>9. QED
  BY <1>8

LEMMA PartialsCopyStep ==
  ASSUME ControllerInv, KP!InstallInv, PartialsCopy, PartialsGrow, Krakends = {Self},
         EndpointsMove \/ KrakendMove
  PROVE  PartialsCopy'
<1> SUFFICES ASSUME pc' \in {"list", "updateConfigMap"}, NEW i \in 1..Len(cmLog')
             PROVE  /\ cm'.rv <= cmLog'[i][Self].rv
                    /\ cm'.rv = cmLog'[i][Self].rv =>
                         cm'.owner = cmLog'[i][Self].owner /\ cm'.phase = cmLog'[i][Self].phase
  BY DEF PartialsCopy
<1>0. /\ Len(cmLog) \in Nat \ {0} /\ cm \in ConfigMap /\ cm.rv \in Nat
      /\ \A j \in 1..Len(cmLog) : cmLog[j][Self].rv \in Nat
      /\ Cached(cmLog) = cmLog[1] /\ Installed = cmLog[Len(cmLog)][Self]
  BY InstallFacts DEF ControllerInv, TypeOK, ConfigMap
<1>1. CASE EndpointsMove
  <2>1. Follows(cmLog', cmLog)
    BY <1>1, PublishingMoves DEF EndpointsMove
  <2>2. PICK d \in Nat : /\ d < Len(cmLog) /\ Len(cmLog') = Len(cmLog) - d
                         /\ \A j \in 1..Len(cmLog') :
                              j + d \in 1..Len(cmLog) /\ cmLog'[j] = cmLog[j + d]
    BY <2>1, PartialsFollowed
  <2>3. PICK j \in 1..Len(cmLog) : cmLog'[i] = cmLog[j]
    BY <2>2
  <2>4. CASE /\ pc \in {"list", "updateConfigMap"}
             /\ cm' = cm \/ \E x : cm' = [cm EXCEPT !.data = x]
    <3>1. cm'.rv = cm.rv /\ cm'.owner = cm.owner /\ cm'.phase = cm.phase
      BY <1>0, <2>4 DEF ConfigMap
    <3>2. QED
      BY <2>3, <2>4, <3>1 DEF PartialsCopy
  <2>5. CASE pc = "getConfigMap" /\ cm' = Cached(cmLog)[krak]
    <3>1. krak = Self
      BY <2>5 DEF ControllerInv, TypeOK, PCs
    <3>2. cm' = cmLog[1][Self] /\ 1 \in 1..Len(cmLog) /\ 1 <= j
      BY <1>0, <2>5, <3>1
    <3>3. QED
      BY <2>3, <3>2 DEF PartialsGrow
  <2>6. QED
    BY <1>1, <2>4, <2>5, PartialsCopyMoves DEF EndpointsMove
<1>2. CASE KrakendMove
  <2>1. UNCHANGED <<pc, cm>>
    BY <1>2, KrakendEffect
  <2>2. CASE UNCHANGED cmLog
    BY <2>1, <2>2 DEF PartialsCopy
  <2>3. ASSUME NEW obj \in ConfigMap, cmLog' = Put(cmLog, Self, obj), obj.rv = Installed.rv + 1
        PROVE  /\ cm'.rv <= cmLog'[i][Self].rv
               /\ cm'.rv = cmLog'[i][Self].rv =>
                    cm'.owner = cmLog'[i][Self].owner /\ cm'.phase = cmLog'[i][Self].phase
    <3>1. /\ Len(cmLog') = Len(cmLog) + 1 /\ \A j \in 1..Len(cmLog) : cmLog'[j] = cmLog[j]
          /\ cmLog'[Len(cmLog) + 1][Self] = obj
      BY <2>3, PartialsPut
    <3>2. CASE i \in 1..Len(cmLog)
      BY <2>1, <3>1, <3>2 DEF PartialsCopy
    <3>3. CASE i = Len(cmLog) + 1
      <4>1. cm.rv <= Installed.rv /\ Installed.rv \in Nat
        BY <1>0, <2>1 DEF PartialsCopy
      <4>2. QED
        BY <1>0, <2>1, <2>3, <3>1, <3>3, <4>1
    <3>4. QED
      BY <1>0, <3>1, <3>2, <3>3
  <2>4. QED
    BY <1>2, <2>2, <2>3 DEF KrakendMove, KrakendWritten, Sampled, Collected
<1>3. QED
  BY <1>1, <1>2

(* What a step does to the incarnations: nothing but their events are      *)
(* delivered, the stored one changes or goes, or the next one comes.       *)
LEMMA IncarnationStep ==
  ASSUME KP!InstallInv, EndpointsMove \/ KrakendMove
  PROVE  \/ \A i \in 1..Len(krLog') : \E j \in 1..Len(krLog) :
              krLog'[i] = krLog[j] /\ j - i = Len(krLog) - Len(krLog')
         \/ \E obj \in Krakend :
              /\ Len(krLog') = Len(krLog) + 1 /\ krLog'[Len(krLog) + 1][Self] = obj
              /\ \A i \in 1..Len(krLog) : krLog'[i] = krLog[i]
              /\ obj.uid \in Nat /\ Current' = obj
              /\ \/ Current.phase = "live" /\ obj.uid = Current.uid
                 \/ Current.phase = "absent" /\ obj.phase = "live" /\ obj.uid = Current.uid + 1
<1>1. CASE Follows(krLog', krLog)
  <2>1. PICK d \in Nat : /\ d < Len(krLog) /\ Len(krLog') = Len(krLog) - d
                         /\ \A i \in 1..Len(krLog') :
                              i + d \in 1..Len(krLog) /\ krLog'[i] = krLog[i + d]
    BY <1>1, KrakendFollowed
  <2>2. Len(krLog) \in Nat
    BY InstallFacts
  <2>3. \A i \in 1..Len(krLog') : i + d - i = Len(krLog) - Len(krLog')
    BY <2>1, <2>2
  <2>4. QED
    BY <2>1, <2>3
<1>2. ASSUME NEW obj \in Krakend, KrakendWritten(obj)
      PROVE  /\ Len(krLog') = Len(krLog) + 1 /\ krLog'[Len(krLog) + 1][Self] = obj
             /\ \A i \in 1..Len(krLog) : krLog'[i] = krLog[i]
             /\ obj.uid \in Nat /\ Current' = obj
             /\ \/ Current.phase = "live" /\ obj.uid = Current.uid
                \/ Current.phase = "absent" /\ obj.phase = "live" /\ obj.uid = Current.uid + 1
  <2>1. obj.uid \in Nat
    BY DEF Krakend
  <2>2. krLog' = Put(krLog, Self, obj)
    BY <1>2 DEF KrakendWritten
  <2>3. QED
    BY <1>2, <2>1, <2>2, KrakendPut DEF KrakendWritten
<1>3. CASE KrakendMove
  <2>1. CASE UNCHANGED krLog
    BY <1>1, <2>1 DEF Follows
  <2>2. QED
    BY <1>2, <1>3, <2>1 DEF KrakendMove, Sampled, Collected
<1>4. QED
  BY <1>1, <1>3 DEF EndpointsMove

LEMMA ReturnsStep ==
  ASSUME KP!InstallInv, Returns, EndpointsMove \/ KrakendMove
  PROVE  Returns'
<1> SUFFICES ASSUME NEW i \in 1..Len(krLog'), NEW j \in 1..Len(krLog'), i <= j,
                    krLog'[i][Self].phase = "absent", krLog'[j][Self].phase = "live"
             PROVE  krLog'[i][Self].uid < krLog'[j][Self].uid
  BY DEF Returns
<1>0. /\ Len(krLog) \in Nat \ {0} /\ Current = krLog[Len(krLog)][Self]
      /\ \A x \in 1..Len(krLog) : krLog[x][Self].uid \in Nat
      /\ \A x \in 1..Len(krLog) : krLog[x][Self].uid <= Current.uid
  BY InstallFacts
<1>1. CASE \A x \in 1..Len(krLog') : \E y \in 1..Len(krLog) :
             krLog'[x] = krLog[y] /\ y - x = Len(krLog) - Len(krLog')
  <2>1. PICK x \in 1..Len(krLog) : krLog'[i] = krLog[x] /\ x - i = Len(krLog) - Len(krLog')
    BY <1>1
  <2>2. PICK y \in 1..Len(krLog) : krLog'[j] = krLog[y] /\ y - j = Len(krLog) - Len(krLog')
    BY <1>1
  <2>3. x <= y
    BY <2>1, <2>2
  <2>4. QED
    BY <2>1, <2>2, <2>3 DEF Returns
<1>2. CASE \E obj \in Krakend :
             /\ Len(krLog') = Len(krLog) + 1 /\ krLog'[Len(krLog) + 1][Self] = obj
             /\ \A x \in 1..Len(krLog) : krLog'[x] = krLog[x]
             /\ obj.uid \in Nat
             /\ \/ Current.phase = "live" /\ obj.uid = Current.uid
                \/ Current.phase = "absent" /\ obj.phase = "live" /\ obj.uid = Current.uid + 1
  <2>1. PICK obj \in Krakend :
             /\ Len(krLog') = Len(krLog) + 1 /\ krLog'[Len(krLog) + 1][Self] = obj
             /\ \A x \in 1..Len(krLog) : krLog'[x] = krLog[x]
             /\ obj.uid \in Nat
             /\ \/ Current.phase = "live" /\ obj.uid = Current.uid
                \/ Current.phase = "absent" /\ obj.phase = "live" /\ obj.uid = Current.uid + 1
    BY <1>2
  <2>2. CASE j \in 1..Len(krLog)
    BY <1>0, <2>1, <2>2 DEF Returns
  <2>3. CASE j = Len(krLog) + 1
    <3>1. i # j
      BY DEF Returns
    <3>2. i \in 1..Len(krLog)
      BY <1>0, <2>1, <2>3, <3>1
    <3>3. krLog[i][Self].phase = "absent" /\ krLog[i][Self].uid <= Current.uid
      BY <1>0, <2>1, <3>2
    <3>4. CASE Current.phase = "live" /\ obj.uid = Current.uid
      <4>1. krLog[i][Self].uid < Current.uid
        BY <1>0, <3>2, <3>3, <3>4 DEF Returns
      <4>2. QED
        BY <2>1, <2>3, <3>2, <3>4, <4>1
    <3>5. CASE obj.uid = Current.uid + 1
      BY <1>0, <2>1, <2>3, <3>2, <3>3, <3>5
    <3>6. QED
      BY <2>1, <3>4, <3>5
  <2>4. QED
    BY <1>0, <2>1, <2>2, <2>3
<1>3. QED
  BY <1>1, <1>2, IncarnationStep

(* An incarnation no later than those of the log stays so.                 *)
LEMMA PastStays ==
  ASSUME KP!InstallInv, EndpointsMove \/ KrakendMove, NEW u \in Nat,
         \A i \in 1..Len(krLog) : u <= krLog[i][Self].uid
  PROVE  \A i \in 1..Len(krLog') : u <= krLog'[i][Self].uid
<1>0. /\ Len(krLog) \in Nat \ {0} /\ Current = krLog[Len(krLog)][Self] /\ Current.uid \in Nat
      /\ u <= Current.uid
  BY InstallFacts
<1>1. CASE \A x \in 1..Len(krLog') : \E y \in 1..Len(krLog) :
             krLog'[x] = krLog[y] /\ y - x = Len(krLog) - Len(krLog')
  BY <1>1
<1>2. CASE \E obj \in Krakend :
             /\ Len(krLog') = Len(krLog) + 1 /\ krLog'[Len(krLog) + 1][Self] = obj
             /\ \A x \in 1..Len(krLog) : krLog'[x] = krLog[x]
             /\ obj.uid \in Nat /\ obj.uid >= Current.uid
  BY <1>0, <1>2
<1>3. QED
  BY <1>0, <1>1, <1>2, IncarnationStep

LEMMA CopyKnownStep ==
  ASSUME ControllerInv, KP!InstallInv, CopyKnown, Krakends = {Self}, EndpointsMove \/ KrakendMove
  PROVE  CopyKnown'
<1> SUFFICES ASSUME krak' # None
             PROVE  \A i \in 1..Len(krLog') : krakCopy'.uid <= krLog'[i][Self].uid
  BY DEF CopyKnown
<1>1. krakCopy.uid \in Nat
  BY DEF ControllerInv, TypeOK, Krakend
<1>2. CASE UNCHANGED <<krak, krakCopy>>
  BY <1>1, <1>2, PastStays DEF CopyKnown
<1>3. CASE EndpointsMove /\ ~UNCHANGED <<krak, krakCopy>>
  <2>1. /\ pc = "getKrakend" /\ krak' = krakendName(local.spec) /\ krakCopy' = Cached(krLog)[krak']
        /\ UNCHANGED krLog
    BY <1>3, KrakendCopyStep DEF EndpointsMove, clusterVars, admissionVars
  <2>2. krak' = Self
    <3>1. local.spec \in ESpecs
      BY <2>1, PolicyTypes
    <3>2. QED
      BY <2>1, <3>1, ClusterAssumption
  <2>3. krakCopy' = krLog[1][Self] /\ \A i \in 1..Len(krLog) : krLog[1][Self].uid <= krLog[i][Self].uid
    <3>1. /\ Len(krLog) \in Nat \ {0} /\ Cached(krLog) = krLog[1]
          /\ \A i, j \in 1..Len(krLog) : i <= j => krLog[i][Self].uid <= krLog[j][Self].uid
      BY InstallFacts
    <3>2. QED
      BY <2>1, <2>2, <3>1
  <2>4. QED
    BY <2>1, <2>3
<1>4. QED
  BY <1>2, <1>3, KrakendEffect

(* An owner reference is new only when Reconcile adds it.                  *)
LEMMA OwnerStep ==
  ASSUME ControllerInv, [Next]_vars, NEW n \in Names
  PROVE  \/ Stored(epsLog)'[n].owner \in {None, Stored(epsLog)[n].owner}
         \/ /\ Stored(epsLog)'[n].owner = <<krak, krakCopy.uid>>
            /\ pc = "addFinalizer" /\ UNCHANGED <<krLog, cmLog, krak, krakCopy>>
<1>0. epsLog \in Seq([Names -> ApiEndpoints]) /\ epsLog # <<>> /\ Stored(epsLog) \in [Names -> ApiEndpoints]
  BY PolicyTypes
<1>1. CASE Follows(epsLog', epsLog)
  <2>1. Stored(epsLog') = Stored(epsLog)
    BY <1>0, <1>1, FollowsFacts
  <2>2. QED
    BY <2>1 DEF Stored
<1>2. ASSUME NEW m \in Names, NEW obj \in ApiEndpoints, epsLog' = Put(epsLog, m, obj),
             Kept(Stored(epsLog)[m], obj)
      PROVE  \/ Stored(epsLog)'[n].owner \in {None, Stored(epsLog)[n].owner}
             \/ /\ Stored(epsLog)'[n].owner = <<krak, krakCopy.uid>>
                /\ pc = "addFinalizer" /\ UNCHANGED <<krLog, cmLog, krak, krakCopy>>
  <2>1. Stored(epsLog)' = [Stored(epsLog) EXCEPT ![m] = obj]
    BY <1>2, PutLogFacts
  <2>2. CASE n # m
    BY <1>0, <2>1, <2>2
  <2>3. CASE n = m
    <3>1. Stored(epsLog)'[n] = obj
      BY <1>0, <2>1, <2>3
    <3>2. QED
      BY <1>2, <2>3, <3>1 DEF Kept
  <2>4. QED
    BY <2>2, <2>3
<1>3. QED
  BY <1>1, <1>2, KeptStep

(* With one Krakend, every owner reference is to it.                       *)
LEMMA OwnerIsSelf ==
  ASSUME ControllerInv, Krakends = {Self}, NEW n \in Names, Stored(epsLog)[n].owner # None
  PROVE  \E u \in Nat : Stored(epsLog)[n].owner = <<Self, u>>
<1>1. Stored(epsLog)[n] \in ApiEndpoints
  BY PolicyTypes
<1>2. Stored(epsLog)[n].owner \in Krakends \X Nat
  BY <1>1 DEF ApiEndpoints
<1>3. QED
  BY <1>2

LEMMA OwnersPastStep ==
  ASSUME ControllerInv, KP!InstallInv, CopyKnown, OwnersPast, Krakends = {Self},
         EndpointsMove \/ KrakendMove, CopyKnown'
  PROVE  OwnersPast'
<1> SUFFICES ASSUME NEW n \in Names, Stored(epsLog)'[n].owner # None
             PROVE  /\ \A i \in 1..Len(krLog') : Stored(epsLog)'[n].owner[2] <= krLog'[i][Self].uid
                    /\ krak' # None => Stored(epsLog)'[n].owner[2] <= krakCopy'.uid
  BY DEF OwnersPast
<1>1. CASE Stored(epsLog)'[n].owner = Stored(epsLog)[n].owner
  <2>1. PICK u \in Nat : Stored(epsLog)[n].owner = <<Self, u>>
    BY <1>1, OwnerIsSelf
  <2>2. /\ \A i \in 1..Len(krLog) : u <= krLog[i][Self].uid
        /\ krak # None => u <= krakCopy.uid
    <3>1. Stored(epsLog)[n].owner # None
      BY <1>1
    <3>2. /\ \A i \in 1..Len(krLog) : Stored(epsLog)[n].owner[2] <= krLog[i][Self].uid
          /\ krak # None => Stored(epsLog)[n].owner[2] <= krakCopy.uid
      BY <3>1 DEF OwnersPast
    <3>3. Stored(epsLog)[n].owner[2] = u
      BY <2>1
    <3>4. QED
      BY <3>2, <3>3
  <2>3. \A i \in 1..Len(krLog') : u <= krLog'[i][Self].uid
    BY <2>2, PastStays
  <2>4. ASSUME krak' # None PROVE u <= krakCopy'.uid
    <3>1. CASE UNCHANGED <<krak, krakCopy>>
      BY <2>2, <2>4, <3>1
    <3>2. CASE EndpointsMove /\ ~UNCHANGED <<krak, krakCopy>>
      <4>1. /\ pc = "getKrakend" /\ krak' = krakendName(local.spec)
            /\ krakCopy' = Cached(krLog)[krak']
        BY <2>4, <3>2, KrakendCopyStep DEF EndpointsMove
      <4>2. krak' = Self
        <5>1. local.spec \in ESpecs
          BY <4>1, PolicyTypes
        <5>2. QED
          BY <4>1, <5>1, ClusterAssumption
      <4>3. Len(krLog) \in Nat \ {0} /\ Cached(krLog) = krLog[1]
        BY InstallFacts
      <4>4. QED
        BY <2>2, <4>1, <4>2, <4>3
    <3>3. QED
      BY <3>1, <3>2, KrakendEffect
  <2>5. QED
    BY <1>1, <2>1, <2>3, <2>4
<1>2. CASE /\ Stored(epsLog)'[n].owner = <<krak, krakCopy.uid>>
           /\ pc = "addFinalizer" /\ UNCHANGED <<krLog, cmLog, krak, krakCopy>>
  <2>1. krak # None /\ krakCopy.uid \in Nat
    BY <1>2 DEF ControllerInv, TypeOK, PCs, Krakend
  <2>2. QED
    BY <1>2, <2>1 DEF CopyKnown
<1>3. CASE KrakendMove
  <2>1. Stored(epsLog)' = Stored(epsLog)
    BY <1>3, KrakendEffect DEF Stored
  <2>2. QED
    BY <1>1, <2>1
<1>4. QED
  BY <1>1, <1>2, <1>3, OwnerStep DEF EndpointsMove

(* Reconcile has published its list, for a live object.                    *)
Post == {"ensureNetpol"} \cup AfterPolicies

(* While the stored incarnation has no partials, nothing refers to it.     *)
OwnedServed ==
  Current.phase = "live" /\ ~misplaced /\ ~Serving(Self) =>
    /\ \A n \in Names : Stored(epsLog)[n].owner # <<Self, Current.uid>>
    /\ pc \in Post => krakCopy.uid # Current.uid

(* While the cache shows an earlier incarnation, the partials hold the     *)
(* chart's sample.                                                         *)
SampleOnly ==
  ~misplaced /\ Serving(Self) /\ Cached(krLog)[Self].uid < Current.uid =>
    \A r \in Installed.data : r.src = None

(* ReleaseClean and GhostFree for the one Krakend.                         *)
ReleaseCleanly ==
  /\ pc = "removeFinalizer" /\ Stored(epsLog)[req].rv = local.rv
  /\ ~misplaced /\ Serving(Self)
  => \A r \in Installed.data : r.src # req

NoGhostRoutes == ~misplaced /\ Serving(Self) => Guarded(Installed.data)

(* The routes of a spec Reconcile has published for the incarnation that   *)
(* is stored are in its partials.                                          *)
PublishedFor(n) ==
  \/ Synced(n) /\ Stored(epsLog)[n].owner = <<Self, Current.uid>>
  \/ Working(n) /\ pc \in Post /\ krakCopy.uid = Current.uid

KnownServed ==
  ~lost /\ ~misplaced /\ Serving(Self) => \A n \in Names \ reverted :
    PublishedFor(n) => Part(Installed.data, n) = Ask(Stored(epsLog)[n])

LEMMA PostEntry ==
  ASSUME ControllerInv, [Next]_vars, pc' \in Post
  PROVE  (pc \in Post /\ UNCHANGED <<krak, krakCopy>>) \/ Publishing
<1>1. pc' \notin {"idle", "removeFinalizer", "getKrakend", "getConfigMap"} \cup (BeforePolicies \ {"ensureNetpol"})
  BY DEF Post, AfterPolicies, BeforePolicies
<1>2. ASSUME Goes PROVE pc \in Post
  BY <1>1, <1>2 DEF Goes, Post
<1>3. ASSUME NEW app \in apps, EnsureNetpol(app) PROVE pc \in Post
  BY <1>3 DEF EnsureNetpol, Post
<1>4. ASSUME UpdateConfigMap PROVE Publishing
  BY <1>1, <1>4 DEF Publishing
<1>5. ASSUME pc \in Post PROVE UNCHANGED <<krak, krakCopy>>
  <2>1. krak' # None
    <3>1. TypeOK'
      BY ControllerInvStep DEF ControllerInv
    <3>2. QED
      BY <3>1 DEF TypeOK, Post, AfterPolicies, PCs
  <2>2. pc # "getKrakend"
    BY <1>5 DEF Post, AfterPolicies
  <2>3. QED
    BY <2>1, <2>2, KrakendCopyStep
<1>6. QED
  BY <1>2, <1>3, <1>4, <1>5, GoesStep

(* What is read of a Krakend that Reconcile has a copy of.                 *)
LEMMA PostFacts ==
  ASSUME ControllerInv, KP!InstallInv, CopyKnown, OwnersPast, Krakends = {Self}
  PROVE  /\ pc \in Post \cup {"updateConfigMap"} => krak = Self /\ krak # None
         /\ krakCopy.uid \in Nat /\ Current.uid \in Nat /\ Installed.owner \in Nat
         /\ krak # None => krakCopy.uid <= Current.uid /\ krakCopy.uid <= Cached(krLog)[Self].uid
         /\ \A n \in Names : \A u \in Nat : Stored(epsLog)[n].owner = <<Self, u>> =>
              u <= Current.uid /\ (krak # None => u <= krakCopy.uid)
         /\ Installed.owner <= Current.uid
<1>1. /\ Len(krLog) \in Nat \ {0} /\ Current = krLog[Len(krLog)][Self] /\ Cached(krLog) = krLog[1]
      /\ \A i \in 1..Len(krLog) : krLog[i][Self].uid \in Nat
  BY InstallFacts
<1>2. Current.uid \in Nat /\ Installed.owner \in Nat /\ Installed.owner <= Current.uid
  BY InstallFacts
<1>3. krakCopy.uid \in Nat
  BY DEF ControllerInv, TypeOK, Krakend
<1>4. krak # None => krakCopy.uid <= Current.uid /\ krakCopy.uid <= Cached(krLog)[Self].uid
  BY <1>1 DEF CopyKnown
<1>5. ASSUME NEW n \in Names, NEW u \in Nat, Stored(epsLog)[n].owner = <<Self, u>>
      PROVE  u <= Current.uid /\ (krak # None => u <= krakCopy.uid)
  <2>1. Stored(epsLog)[n].owner # None
    BY <1>5, OwnerAssumption, OperatorAssumption
  <2>2. /\ \A i \in 1..Len(krLog) : Stored(epsLog)[n].owner[2] <= krLog[i][Self].uid
        /\ krak # None => Stored(epsLog)[n].owner[2] <= krakCopy.uid
    BY <2>1 DEF OwnersPast
  <2>3. Stored(epsLog)[n].owner[2] = u
    BY <1>5
  <2>4. QED
    BY <1>1, <2>2, <2>3
<1>6. pc \in Post \cup {"updateConfigMap"} => krak = Self /\ krak # None
  BY DEF ControllerInv, TypeOK, PCs, Post, AfterPolicies
<1>7. QED
  BY <1>2, <1>3, <1>4, <1>5, <1>6

(* A step of the Krakend controller leaves a gateway that runs as it was,  *)
(* or has installed the sample.                                            *)
LEMMA KrakendServes ==
  ASSUME KP!InstallInv, KrakendMove, Serving(Self)'
  PROVE  \/ /\ Serving(Self) /\ Installed' = Installed /\ Current'.uid = Current.uid /\ lost' = lost
         \/ /\ Installed'.data = {ChartRoute} /\ Current' = Current
            /\ Serving(Self) /\ ~lost' => ~lost /\ Installed.data = {ChartRoute}
<1>1. Installed'.phase = "live" /\ Current'.phase = "live" /\ Current'.uid = Installed'.owner
  BY KrakendEffect
<1>2. CASE UNCHANGED <<krLog, cmLog, lost>> /\ Current' = Current /\ Installed' = Installed
  BY <1>1, <1>2, ServingMeans
<1>3. ASSUME NEW obj \in Krakend, KrakendWritten(obj), Current' = obj, Installed' = Installed
      PROVE  /\ Serving(Self) /\ Installed' = Installed /\ Current'.uid = Current.uid /\ lost' = lost
  <2>1. Current.uid \in Nat /\ Installed.owner <= Current.uid /\ Installed.owner \in Nat
    BY InstallFacts
  <2>2. obj.uid # Current.uid + 1
    BY <1>1, <1>3, <2>1
  <2>3. QED
    BY <1>1, <1>3, <2>2, ServingMeans DEF KrakendWritten
<1>4. ASSUME NEW obj \in ConfigMap, Sampled(obj) \/ Collected(obj), Current' = Current, Installed' = obj
      PROVE  /\ Installed'.data = {ChartRoute} /\ Current' = Current
             /\ Serving(Self) /\ ~lost' => ~lost /\ Installed.data = {ChartRoute}
  BY <1>1, <1>4, ServingMeans DEF Sampled, Collected
<1>5. QED
  BY <1>2, <1>3, <1>4, KrakendEffect

LEMMA OwnedServedStep ==
  ASSUME ControllerInv, KP!InstallInv, PartialsCopy, CopyKnown, OwnersPast, OwnedServed,
         Krakends = {Self}, EndpointsMove \/ KrakendMove
  PROVE  OwnedServed'
<1> SUFFICES ASSUME Current'.phase = "live", ~misplaced', ~Serving(Self)'
             PROVE  /\ \A n \in Names : Stored(epsLog)'[n].owner # <<Self, Current'.uid>>
                    /\ pc' \in Post => krakCopy'.uid # Current'.uid
  BY DEF OwnedServed
<1>0. /\ pc \in Post \cup {"updateConfigMap"} => krak = Self /\ krak # None
      /\ krakCopy.uid \in Nat /\ Current.uid \in Nat /\ Installed.owner \in Nat
      /\ krak # None => krakCopy.uid <= Current.uid
      /\ \A n \in Names : \A u \in Nat : Stored(epsLog)[n].owner = <<Self, u>> =>
           u <= Current.uid /\ (krak # None => u <= krakCopy.uid)
      /\ \A u \in Nat : <<Self, u>> # None
  BY PostFacts, OwnerAssumption, OperatorAssumption
<1>1. CASE EndpointsMove /\ Publishing
  <2>1. /\ Current' = Current /\ ~Serving(Self) /\ Current.phase = "live" /\ Installed.phase = "live"
        /\ Installed.owner = krakCopy.uid /\ UNCHANGED <<epsLog, krakCopy>>
        /\ pc = "updateConfigMap"
    BY <1>1, EndpointsEffect, PublishedObject, PublishingMoves
  <2>2. krakCopy.uid # Current.uid
    BY <2>1, ServingMeans
  <2>3. krakCopy.uid < Current.uid /\ krak # None
    BY <1>0, <2>1, <2>2
  <2>4. \A n \in Names : Stored(epsLog)[n].owner # <<Self, Current.uid>>
    BY <1>0, <2>3
  <2>5. QED
    BY <2>1, <2>2, <2>4 DEF Stored
<1>2. CASE EndpointsMove /\ ~Publishing
  <2>1. Current' = Current /\ ~misplaced /\ ~Serving(Self) /\ Current.phase = "live"
    BY <1>2, EndpointsEffect
  <2>2. /\ \A n \in Names : Stored(epsLog)[n].owner # <<Self, Current.uid>>
        /\ pc \in Post => krakCopy.uid # Current.uid
    BY <2>1 DEF OwnedServed
  <2>3. pc' \in Post => krakCopy'.uid # Current'.uid
    BY <1>2, <2>1, <2>2, PostEntry DEF EndpointsMove
  <2>4. ASSUME NEW n \in Names PROVE Stored(epsLog)'[n].owner # <<Self, Current.uid>>
    <3>1. CASE Stored(epsLog)'[n].owner \in {None, Stored(epsLog)[n].owner}
      BY <1>0, <2>2, <3>1
    <3>2. CASE Stored(epsLog)'[n].owner = <<krak, krakCopy.uid>> /\ pc = "addFinalizer"
      BY <2>2, <3>2 DEF Post, AfterPolicies
    <3>3. QED
      BY <1>2, <3>1, <3>2, OwnerStep DEF EndpointsMove
  <2>5. QED
    BY <2>1, <2>3, <2>4
<1>3. CASE KrakendMove
  <2>1. UNCHANGED <<epsLog, pc, krakCopy, misplaced>> /\ Stored(epsLog)' = Stored(epsLog)
    BY <1>3, KrakendEffect DEF Stored
  <2>2. ASSUME Current.phase = "live", Current'.uid = Current.uid, ~Serving(Self)
        PROVE  /\ \A n \in Names : Stored(epsLog)'[n].owner # <<Self, Current'.uid>>
               /\ pc' \in Post => krakCopy'.uid # Current'.uid
    BY <2>1, <2>2 DEF OwnedServed
  <2>3. CASE Current' = Current /\ Installed' = Installed
    BY <1>3, <2>2, <2>3, KrakendEffect, ServingMeans
  <2>4. ASSUME NEW obj \in Krakend, KrakendWritten(obj), Current' = obj, Installed' = Installed
        PROVE  /\ \A n \in Names : Stored(epsLog)'[n].owner # <<Self, Current'.uid>>
               /\ pc' \in Post => krakCopy'.uid # Current'.uid
    <3>1. CASE Current.phase = "live" /\ obj.uid = Current.uid
      BY <1>3, <2>2, <2>4, <3>1, KrakendEffect, ServingMeans
    <3>2. CASE obj.uid = Current.uid + 1
      <4>1. \A n \in Names : Stored(epsLog)[n].owner # <<Self, Current.uid + 1>>
        BY <1>0
      <4>2. pc \in Post => krakCopy.uid # Current.uid + 1
        BY <1>0
      <4>3. QED
        BY <2>1, <2>4, <3>2, <4>1, <4>2
    <3>3. QED
      BY <2>4, <3>1, <3>2 DEF KrakendWritten
  <2>5. ASSUME NEW obj \in ConfigMap, Sampled(obj) \/ Collected(obj), Current' = Current,
               Installed' = obj
        PROVE  ~Serving(Self)
    <3>1. CASE Collected(obj)
      BY <3>1 DEF Collected
    <3>2. CASE Sampled(obj)
      <4>1. SUFFICES ASSUME Serving(Self) PROVE FALSE
        OBVIOUS
      <4>2. /\ Installed.owner <= kLocal.uid /\ kLocal.uid <= Current.uid /\ kLocal.uid \in Nat
        BY <3>2, InstallFacts DEF Sampled
      <4>3. kLocal.uid = Current.uid
        BY <1>0, <4>1, <4>2, ServingMeans
      <4>4. QED
        BY <1>3, <2>5, <3>2, <4>3, KrakendEffect DEF Sampled
    <3>3. QED
      BY <2>5, <3>1, <3>2
  <2>6. QED
    BY <1>3, <2>2, <2>3, <2>4, <2>5, KrakendEffect
<1>4. QED
  BY <1>1, <1>2, <1>3

LEMMA CachedKrakend ==
  ASSUME KP!InstallInv, EndpointsMove \/ KrakendMove
  PROVE  /\ Cached(krLog)[Self].uid \in Nat
         /\ KP!InstallInv' => Cached(krLog)[Self].uid <= Cached(krLog)'[Self].uid
<1>1. /\ Len(krLog) \in Nat \ {0} /\ Cached(krLog) = krLog[1]
      /\ \A i \in 1..Len(krLog) : krLog[i][Self].uid \in Nat
      /\ \A i, j \in 1..Len(krLog) : i <= j => krLog[i][Self].uid <= krLog[j][Self].uid
  BY InstallFacts
<1>2. krLog[1][Self].uid \in Nat /\ \A i \in 1..Len(krLog) : krLog[1][Self].uid <= krLog[i][Self].uid
  BY <1>1
<1>3. \A i \in 1..Len(krLog') : krLog[1][Self].uid <= krLog'[i][Self].uid
  BY <1>2, PastStays
<1>4. ASSUME KP!InstallInv' PROVE 1 \in 1..Len(krLog')
  <2>1. krLog' \in Seq([Krakends -> Krakend]) /\ krLog' # <<>>
    BY <1>4, SameTypes DEF KP!InstallInv, KP!TypeOK
  <2>2. QED
    BY <2>1, LogFacts
<1>5. Cached(krLog)' = krLog'[1]
  BY DEF Cached
<1>6. QED
  BY <1>1, <1>2, <1>3, <1>4, <1>5

LEMMA SampleOnlyStep ==
  ASSUME ControllerInv, KP!InstallInv, PartialsCopy, CopyKnown, OwnersPast, SampleOnly,
         Krakends = {Self}, EndpointsMove \/ KrakendMove, KP!InstallInv'
  PROVE  SampleOnly'
<1> SUFFICES ASSUME ~misplaced', Serving(Self)', Cached(krLog)'[Self].uid < Current'.uid
             PROVE  \A r \in Installed'.data : r.src = None
  BY DEF SampleOnly
<1>1. /\ Cached(krLog)[Self].uid \in Nat /\ Cached(krLog)'[Self].uid \in Nat /\ Current.uid \in Nat
      /\ Cached(krLog)[Self].uid <= Cached(krLog)'[Self].uid
  <2>1. Cached(krLog)'[Self].uid \in Nat
    <3>1. krLog' \in Seq([Krakends -> Krakend]) /\ krLog' # <<>>
      BY SameTypes DEF KP!InstallInv, KP!TypeOK
    <3>2. Cached(krLog') \in [Krakends -> Krakend] /\ Cached(krLog)' = Cached(krLog')
      BY <3>1, LogFacts DEF Cached
    <3>3. QED
      BY <3>2, OperatorAssumption DEF Krakend
  <2>2. Current.uid \in Nat
    BY InstallFacts
  <2>3. QED
    BY <2>1, <2>2, CachedKrakend
<1>2. CASE EndpointsMove /\ Publishing
  <2>1. /\ Current' = Current /\ Serving(Self) /\ Installed.owner = krakCopy.uid
        /\ pc = "updateConfigMap" /\ UNCHANGED krLog
    BY <1>2, EndpointsEffect, PublishedObject, PublishingMoves
  <2>2. krakCopy.uid <= Cached(krLog)[Self].uid /\ krakCopy.uid \in Nat
    BY <2>1, PostFacts
  <2>3. QED
    BY <1>1, <2>1, <2>2, ServingMeans
<1>3. CASE EndpointsMove /\ ~Publishing
  <2>1. Current' = Current /\ Serving(Self) /\ Installed' = Installed /\ ~misplaced
    BY <1>3, EndpointsEffect
  <2>2. Cached(krLog)[Self].uid < Current.uid
    BY <1>1, <2>1
  <2>3. QED
    BY <2>1, <2>2 DEF SampleOnly
<1>4. CASE KrakendMove
  <2>1. UNCHANGED misplaced
    BY <1>4, KrakendEffect
  <2>2. CASE Installed'.data = {ChartRoute}
    BY <2>2 DEF ChartRoute
  <2>3. CASE Serving(Self) /\ Installed' = Installed /\ Current'.uid = Current.uid
    BY <1>1, <2>1, <2>3 DEF SampleOnly
  <2>4. QED
    BY <1>4, <2>2, <2>3, KrakendServes
<1>5. QED
  BY <1>2, <1>3, <1>4

LEMMA ReleaseCleanlyStep ==
  ASSUME ControllerInv, KP!InstallInv, PartialsCopy, Returns, SampleOnly, Pending, ReleaseCleanly,
         Krakends = {Self}, EndpointsMove \/ KrakendMove
  PROVE  ReleaseCleanly'
<1> SUFFICES ASSUME pc' = "removeFinalizer", Stored(epsLog)'[req'].rv = local'.rv, ~misplaced',
                    Serving(Self)'
             PROVE  \A r \in Installed'.data : r.src # req'
  BY DEF ReleaseCleanly
<1>1. CASE EndpointsMove /\ UNCHANGED workVars
  <2>1. UNCHANGED <<pc, req, local>> /\ pc = "removeFinalizer" /\ pc # "idle"
    BY <1>1 DEF workVars
  <2>2. ~Publishing
    BY <2>1, PublishingMoves
  <2>3. Serving(Self) /\ Installed' = Installed /\ ~misplaced
    BY <1>1, <2>2, EndpointsEffect
  <2>4. Stored(epsLog)[req].rv = local.rv
    BY <1>1, <2>1, VersionStep DEF EndpointsMove
  <2>5. QED
    BY <2>1, <2>3, <2>4 DEF ReleaseCleanly
<1>2. CASE EndpointsMove /\ GetKrakend
  <2>1. /\ pc = "getKrakend" /\ Cached(krLog)[krakendName(local.spec)].phase = "absent"
        /\ UNCHANGED req
    BY <1>2 DEF GetKrakend, Fail, Return
  <2>2. krakendName(local.spec) = Self /\ req \in Names
    <3>1. local.spec \in ESpecs /\ req \in Names
      BY <2>1, PolicyTypes
    <3>2. QED
      BY <3>1, ClusterAssumption
  <2>3. ~Publishing
    BY <2>1, PublishingMoves
  <2>4. Serving(Self) /\ Installed' = Installed /\ ~misplaced /\ Current.phase = "live"
    BY <1>2, <2>3, EndpointsEffect, ServingMeans
  <2>5. Cached(krLog)[Self].uid < Current.uid
    <3>1. /\ Len(krLog) \in Nat \ {0} /\ Cached(krLog) = krLog[1]
          /\ Current = krLog[Len(krLog)][Self]
      BY InstallFacts
    <3>2. QED
      BY <2>1, <2>2, <2>4, <3>1 DEF Returns
  <2>6. \A r \in Installed.data : r.src = None
    BY <2>4, <2>5 DEF SampleOnly
  <2>7. QED
    BY <2>1, <2>2, <2>4, <2>6, ClusterAssumption
<1>3. CASE EndpointsMove /\ UpdateConfigMap
  <2>1. Publishing
    BY <1>3 DEF Publishing
  <2>2. /\ pc = "updateConfigMap" /\ Installed'.data = cm.data
        /\ UNCHANGED <<epsLog, req, local>> /\ AfterConfigMap
    BY <1>3, <2>1, EndpointsEffect, PublishFacts DEF Publishing
  <2>3. local.phase = "deleting"
    BY <2>2 DEF AfterConfigMap
  <2>4. Stored(epsLog)' = Stored(epsLog)
    BY <2>2 DEF Stored
  <2>5. QED
    BY <2>2, <2>3, <2>4 DEF Pending
<1>4. CASE KrakendMove
  <2>1. UNCHANGED <<epsLog, pc, req, local, misplaced>> /\ Stored(epsLog)' = Stored(epsLog)
    BY <1>4, KrakendEffect DEF Stored
  <2>2. CASE Installed'.data = {ChartRoute}
    <3>1. req \in Names
      BY <2>1, PolicyTypes
    <3>2. QED
      BY <2>1, <2>2, <3>1, ClusterAssumption DEF ChartRoute
  <2>3. CASE Serving(Self) /\ Installed' = Installed
    BY <2>1, <2>3 DEF ReleaseCleanly
  <2>4. QED
    BY <1>4, <2>2, <2>3, KrakendServes
<1>5. QED
  BY <1>1, <1>2, <1>3, <1>4, WorkStep DEF EndpointsMove

LEMMA NoGhostRoutesStep ==
  ASSUME ControllerInv, KP!InstallInv, PartialsCopy, Pending, ReleaseCleanly, NoGhostRoutes,
         Krakends = {Self}, EndpointsMove \/ KrakendMove
  PROVE  NoGhostRoutes'
<1> SUFFICES ASSUME ~misplaced', Serving(Self)' PROVE Guarded(Installed.data)'
  BY DEF NoGhostRoutes
<1>0. Installed.data \in SUBSET Route /\ cm.data \in SUBSET Route
  <2>1. Installed \in ConfigMap
    BY InstallFacts
  <2>2. QED
    BY <2>1 DEF ControllerInv, TypeOK, ConfigMap
<1>1. CASE EndpointsMove /\ Publishing
  <2>1. pc = "updateConfigMap" /\ Installed'.data = cm.data /\ cm' = cm
    BY <1>1, EndpointsEffect, PublishedObject, PublishingMoves
  <2>2. Guarded(cm.data)
    BY <2>1 DEF Pending
  <2>3. Guarded(cm.data)'
    BY <1>0, <1>1, <2>1, <2>2, GuardedStep DEF EndpointsMove
  <2>4. QED
    BY <2>1, <2>3 DEF Guarded
<1>2. CASE EndpointsMove /\ ~Publishing
  <2>1. Serving(Self) /\ Installed' = Installed /\ ~misplaced
    BY <1>2, EndpointsEffect
  <2>2. Guarded(Installed.data)
    BY <2>1 DEF NoGhostRoutes
  <2>3. pc = "removeFinalizer" /\ Stored(epsLog)[req].rv = local.rv =>
          \A r \in Installed.data : r.src # req
    BY <2>1 DEF ReleaseCleanly
  <2>4. Guarded(Installed.data)' <=> \A r \in Installed.data :
          r.src = None \/ r.src \in unguarded' \/ Stored(epsLog)'[r.src].phase # "absent"
    BY <2>1 DEF Guarded
  <2>5. \A r \in Installed.data :
          r.src = None \/ r.src \in unguarded' \/ Stored(epsLog)'[r.src].phase # "absent"
    <3> DEFINE routes == Installed.data
    <3>1. /\ routes \in SUBSET Route /\ Guarded(routes) /\ [Next]_vars
          /\ pc = "removeFinalizer" /\ Stored(epsLog)[req].rv = local.rv =>
               \A r \in routes : r.src # req
      BY <1>0, <1>2, <2>2, <2>3 DEF EndpointsMove
    <3> HIDE DEF routes
    <3>2. QED
      BY <3>1, GuardedStep DEF Guarded, routes
  <2>6. QED
    BY <2>4, <2>5
<1>3. CASE KrakendMove
  <2>1. UNCHANGED <<unguarded, misplaced>> /\ Stored(epsLog)' = Stored(epsLog)
    BY <1>3, KrakendEffect DEF Stored, history
  <2>2. CASE Installed'.data = {ChartRoute}
    BY <2>2 DEF Guarded, ChartRoute
  <2>3. CASE Serving(Self) /\ Installed' = Installed
    BY <2>1, <2>3 DEF NoGhostRoutes, Guarded
  <2>4. QED
    BY <1>3, <2>2, <2>3, KrakendServes
<1>4. QED
  BY <1>1, <1>2, <1>3

LEMMA KnownServedStep ==
  ASSUME HistoryInv, KP!InstallInv, PartialsCopy, CopyKnown, OwnersPast, OwnedServed, ListKnown,
         SyncedOwned, KnownServed, Krakends = {Self}, EndpointsMove \/ KrakendMove
  PROVE  KnownServed'
<1> SUFFICES ASSUME ~lost', ~misplaced', Serving(Self)', NEW n \in Names, n \notin reverted',
                    PublishedFor(n)'
             PROVE  Part(Installed'.data, n) = Ask(Stored(epsLog)'[n])
  BY DEF KnownServed, Part, Ask, OwnPart, Asks
<1>0. ControllerInv
  BY DEF HistoryInv
<1>1. CASE EndpointsMove
  <2>1. Synced(n)' \/ Working(n)'
    BY DEF PublishedFor
  <2>2. /\ SpecKept(n) /\ n \notin reverted
        /\ Synced(n)' => Synced(n) \/ (Working(n) /\ pc = "updateStatus")
        /\ Working(n)' => Working(n) \/ Starting(n)
    BY <1>1, <2>1, KnownStep DEF EndpointsMove
  <2>3. Ask(Stored(epsLog)'[n]) = Ask(Stored(epsLog)[n])
    BY <2>2, AskKept
  <2>4. Current' = Current /\ Serving(Self) /\ ~lost
    BY <1>0, <1>1, EndpointsEffect DEF EndpointsMove
  <2>5. CASE Publishing
    <3>1. pc = "updateConfigMap" /\ Installed'.data = cm.data
      BY <1>0, <1>1, <2>5, EndpointsEffect, PublishingMoves
    <3>2. Synced(n) \/ Working(n)
      BY <2>1, <2>2, <3>1 DEF Starting
    <3>3. QED
      BY <2>2, <2>3, <3>1, <3>2 DEF ListKnown
  <2>6. CASE ~Publishing
    <3>1. Installed' = Installed /\ ~misplaced
      BY <1>0, <1>1, <2>6, EndpointsEffect
    <3>2. PublishedFor(n)
      <4>1. CASE Synced(n)' /\ Stored(epsLog)'[n].owner = <<Self, Current.uid>>
        <5>1. Stored(epsLog)[n].owner # None
          BY <2>2, <4>1 DEF SyncedOwned
        <5>2. Stored(epsLog)[n].owner = <<Self, Current.uid>>
          BY <1>0, <1>1, <2>2, <4>1, <5>1, OwnerKept DEF EndpointsMove, SpecKept
        <5>3. CASE Synced(n)
          BY <5>2, <5>3 DEF PublishedFor
        <5>4. CASE Working(n) /\ pc = "updateStatus"
          <6>1. pc \in Post
            BY <5>4 DEF Post, AfterPolicies
          <6>2. Current.uid <= krakCopy.uid /\ krakCopy.uid <= Current.uid /\ krakCopy.uid \in Nat
                /\ Current.uid \in Nat
            BY <1>0, <5>2, <6>1, PostFacts
          <6>3. krakCopy.uid = Current.uid
            BY <6>2
          <6>4. QED
            BY <5>4, <6>1, <6>3 DEF PublishedFor
        <5>5. QED
          BY <2>2, <4>1, <5>3, <5>4
      <4>2. CASE Working(n)' /\ pc' \in Post /\ krakCopy'.uid = Current.uid
        <5>1. pc \in Post /\ UNCHANGED krakCopy
          BY <1>0, <1>1, <2>6, <4>2, PostEntry DEF EndpointsMove
        <5>2. Working(n)
          BY <2>2, <4>2, <5>1 DEF Starting, Post, AfterPolicies
        <5>3. QED
          BY <4>2, <5>1, <5>2 DEF PublishedFor
      <4>3. QED
        BY <2>4, <4>1, <4>2 DEF PublishedFor
    <3>3. QED
      BY <2>2, <2>3, <2>4, <3>1, <3>2 DEF KnownServed
  <2>7. QED
    BY <2>5, <2>6
<1>2. CASE KrakendMove
  <2>1. /\ UNCHANGED <<epsLog, reverted, pc, req, hash, krakCopy, misplaced>>
        /\ Stored(epsLog)' = Stored(epsLog)
    BY <1>2, KrakendEffect DEF Stored, history
  <2>2. ASSUME Current'.uid = Current.uid PROVE PublishedFor(n)
    <3>1. (Synced(n)' <=> Synced(n)) /\ (Working(n)' <=> Working(n))
      BY <2>1 DEF Synced, Working
    <3>2. QED
      BY <2>1, <2>2, <3>1 DEF PublishedFor
  <2>3. CASE Serving(Self) /\ Installed' = Installed /\ Current'.uid = Current.uid /\ lost' = lost
    BY <2>1, <2>2, <2>3 DEF KnownServed
  <2>4. CASE /\ Installed'.data = {ChartRoute} /\ Current' = Current
             /\ Serving(Self) /\ ~lost' => ~lost /\ Installed.data = {ChartRoute}
    <3>1. CASE Serving(Self)
      BY <2>1, <2>2, <2>4, <3>1 DEF KnownServed
    <3>2. CASE ~Serving(Self)
      <4>1. Current.phase = "live"
        BY <1>2, <2>4, KrakendEffect
      <4>2. /\ Stored(epsLog)[n].owner # <<Self, Current.uid>>
            /\ pc \in Post => krakCopy.uid # Current.uid
        BY <2>1, <3>2, <4>1 DEF OwnedServed
      <4>3. QED
        BY <2>2, <2>4, <4>2 DEF PublishedFor
    <3>3. QED
      BY <3>1, <3>2
  <2>5. QED
    BY <1>2, <2>3, <2>4, KrakendServes
<1>3. QED
  BY <1>1, <1>2

-----------------------------------------------------------------------------
(* What the ApiEndpoints controller alone has to know, whatever happens to *)
(* Krakends and partials.                                                  *)
EndpointsInv ==
  /\ HistoryInv /\ ListKnown /\ Released /\ Pending /\ OrphansGone
  /\ DeletingHeld /\ OwnerStays /\ SyncedOwned /\ ListAsked
  /\ NetpolEnabled = FALSE => NoPolicies /\ Rests
  /\ NetpolEnabled = TRUE => PolicyInv

LEMMA ControllerKept ==
  ASSUME ControllerInv, KP!InstallInv, CopyKnown, CopyKnown', Krakends = {Self}, KrakendMove
  PROVE  ControllerInv'
<1>1. /\ UNCHANGED <<epsLog, inflight, history, npLog, queue, pc, req, local, hash, krak, krakCopy,
                     cm, apps>>
      /\ Stored(epsLog)' = Stored(epsLog) /\ Cached(epsLog)' = Cached(epsLog)
  BY KrakendEffect DEF Stored, Cached
<1>2. /\ krLog' \in Seq([Krakends -> Krakend]) /\ krLog' # <<>>
      /\ cmLog' \in Seq([Krakends -> ConfigMap]) /\ cmLog' # <<>>
      /\ used' \in [BoundKinds -> Nat]
  BY SameTypes DEF KrakendMove, KP!InstallInv, KP!TypeOK
<1>3. AdmissionTypeOK'
  BY <1>1, <1>2 DEF ControllerInv, AdmissionInv, AdmissionTypeOK, history
<1>4. Stored(krLog)' = krLog'[Len(krLog')] /\ Len(krLog') \in 1..Len(krLog')
  BY <1>2, LogFacts DEF Stored
<1>5. KrakendsAge'
  <2>1. \A i, j \in 1..Len(krLog') : i <= j => krLog'[i][Self].uid <= krLog'[j][Self].uid
    BY DEF KrakendMove, KP!InstallInv, KP!Ordered, KP!Older
  <2>2. \A i \in 1..Len(krLog') : i <= Len(krLog')
    BY <1>4
  <2>3. QED
    BY <1>4, <2>1, <2>2 DEF KrakendsAge
<1>6. KrakendKnown'
  <2>1. krak' # None => krak' = Self
    BY <1>1 DEF ControllerInv, TypeOK
  <2>2. QED
    BY <1>4, <2>1 DEF KrakendKnown, CopyKnown
<1>7. VersionsGrow' /\ RequestsValid'
  BY <1>1 DEF ControllerInv, AdmissionInv, VersionsGrow, RequestsValid, Validated
<1>8. DuplicateOnlyByRace'
  BY <1>1 DEF ControllerInv, AdmissionInv, DuplicateOnlyByRace, history
<1>9. LocalOld' /\ PathOK'
  BY <1>1 DEF ControllerInv, LocalOld, PathOK
<1>10. TypeOK'
  BY <1>1, <1>2, <1>3 DEF ControllerInv, TypeOK
<1>11. QED
  BY <1>3, <1>5, <1>6, <1>7, <1>8, <1>9, <1>10 DEF ControllerInv, AdmissionInv

LEMMA EndpointsKept ==
  ASSUME EndpointsInv, KP!InstallInv, CopyKnown, CopyKnown', Krakends = {Self}, KrakendMove
  PROVE  EndpointsInv'
<1>1. /\ UNCHANGED <<epsLog, unguarded, carried, reverted, npLog, queue, pc, req, local, hash, krak,
                     krakCopy, cm, apps>>
      /\ Stored(epsLog)' = Stored(epsLog) /\ Cached(epsLog)' = Cached(epsLog)
      /\ Stored(npLog)' = Stored(npLog)
  BY KrakendEffect DEF Stored, Cached, history
<1>2. ControllerInv'
  BY ControllerKept DEF EndpointsInv, HistoryInv
<1>3. ASSUME NEW n \in Names
      PROVE  /\ Synced(n)' <=> Synced(n)
             /\ Working(n)' <=> Working(n)
             /\ Fresh(n)' <=> Fresh(n)
             /\ Still(n)' <=> Still(n)
  BY <1>1 DEF Synced, Working, Fresh, Still
<1>4. CarriedSpecs' /\ HashesCarried' /\ NoReturn'
  BY <1>1 DEF EndpointsInv, HistoryInv, CarriedSpecs, HashesCarried, NoReturn
<1>5. KnownFresh'
  BY <1>1, <1>3 DEF EndpointsInv, HistoryInv, KnownFresh
<1>6. ListKnown'
  <2>1. \A n \in Names : Part(cm.data, n)' = Part(cm.data, n)
                         /\ Ask(Stored(epsLog)[n])' = Ask(Stored(epsLog)[n])
    BY <1>1 DEF Part, Ask
  <2>2. QED
    BY <1>1, <1>3, <2>1 DEF EndpointsInv, ListKnown
<1>7. Released' /\ Pending' /\ OrphansGone'
  BY <1>1 DEF EndpointsInv, Released, Pending, Guarded, OrphansGone
<1>8. DeletingHeld' /\ OwnerStays'
  BY <1>1 DEF EndpointsInv, DeletingHeld, OwnerStays
<1>9. SyncedOwned'
  BY <1>1, <1>3 DEF EndpointsInv, SyncedOwned
<1>10. ListAsked'
  BY <1>1 DEF EndpointsInv, ListAsked, OpenAsked
<1>11. NetpolEnabled = FALSE => NoPolicies' /\ Rests'
  BY <1>1, <1>3 DEF EndpointsInv, NoPolicies, Rests
<1>12. NetpolEnabled = TRUE => PolicyInv'
  <2>1. ASSUME NEW s PROVE Opened(s)' <=> Opened(s)
    BY <1>1 DEF Opened
  <2>2. NetpolEnabled = TRUE => LiveWritten' /\ HashOfCopy' /\ VisitedOpened'
    BY <1>1 DEF EndpointsInv, PolicyInv, LiveWritten, HashOfCopy, VisitedOpened
  <2>3. NetpolEnabled = TRUE => WorkOpened' /\ StoredOpened'
    BY <1>1, <2>1 DEF EndpointsInv, PolicyInv, WorkOpened, StoredOpened
  <2>4. QED
    BY <1>2, <2>2, <2>3 DEF PolicyInv
<1>13. QED
  BY <1>2, <1>4, <1>5, <1>6, <1>7, <1>8, <1>9, <1>10, <1>11, <1>12 DEF EndpointsInv, HistoryInv

LEMMA EndpointsInvStep ==
  ASSUME EndpointsInv, [Next]_vars
  PROVE  EndpointsInv'
<1>0. ControllerInv
  BY DEF EndpointsInv, HistoryInv
<1>1. HistoryInv' /\ ListKnown' /\ ListAsked'
  BY HistoryStep, ListKnownStep, ListAskedStep DEF EndpointsInv
<1>2. Released' /\ Pending' /\ OrphansGone'
  BY <1>0, ReleasedStep, PendingStep, OrphansGoneStep DEF EndpointsInv
<1>3. DeletingHeld' /\ OwnerStays' /\ SyncedOwned'
  BY <1>0, DeletingHeldStep, OwnerStaysStep, SyncedOwnedStep DEF EndpointsInv
<1>4. NetpolEnabled = FALSE => NoPolicies' /\ Rests'
  BY <1>0, NoPoliciesStep, RestsStep DEF EndpointsInv
<1>5. ASSUME NetpolEnabled = TRUE PROVE PolicyInv'
  <2>1. PolicyInv
    BY <1>5 DEF EndpointsInv
  <2>2. ControllerInv' /\ LiveWritten'
    BY <1>0, <2>1, ControllerInvStep, NetpolStep DEF PolicyInv
  <2>3. HashOfCopy' /\ VisitedOpened' /\ StoredOpened'
    BY <2>1, HashOfCopyStep, VisitedOpenedStep, StoredOpenedStep
  <2>4. WorkOpened'
    BY <1>5, <2>1, WorkOpenedStep
  <2>5. QED
    BY <2>2, <2>3, <2>4 DEF PolicyInv
<1>6. QED
  BY <1>1, <1>2, <1>3, <1>4, <1>5 DEF EndpointsInv

-----------------------------------------------------------------------------
(* The inductive invariant: what is known of the Krakend controller, of    *)
(* the ApiEndpoints controller, and of what they share.                    *)
OperatorInv ==
  /\ KP!InstallInv /\ EndpointsInv /\ Authenticated
  /\ PartialsGrow /\ PartialsCopy /\ Returns /\ CopyKnown /\ OwnersPast
  /\ OwnedServed /\ SampleOnly /\ ReleaseCleanly /\ NoGhostRoutes /\ KnownServed

(* At the start the Krakend is absent or installed as its spec says.       *)
LEMMA InstalledAtFirst == OperatorInit => KP!InstallInv
<1> SUFFICES ASSUME OperatorInit PROVE KP!InstallInv
  OBVIOUS
<1>1. PICK ks \in [Krakends -> KSpecs \cup {None}] :
        krLog = <<[k \in Krakends |-> [phase |-> IF ks[k] = None THEN "absent" ELSE "live",
                                       rv |-> 1, uid |-> 1, spec |-> ks[k], hash |-> ks[k]]]>>
  BY DEF OperatorInit, Init, AdmissionInit
<1>2. /\ Self \in Krakends /\ Len(krLog) = 1 /\ Len(cmLog) = 1
      /\ Stored(krLog) = krLog[1] /\ Cached(krLog) = krLog[1] /\ Stored(cmLog) = cmLog[1]
      /\ Current = krLog[1][Self] /\ Installed = cmLog[1][Self]
  BY <1>1, OperatorAssumption DEF OperatorInit, Init, Stored, Cached, Current, Installed
<1>3. Current = [phase |-> IF ks[Self] = None THEN "absent" ELSE "live",
                 rv |-> 1, uid |-> 1, spec |-> ks[Self], hash |-> ks[Self]]
  BY <1>1, <1>2
<1>4. /\ Current.uid = 1 /\ Current.rv = 1 /\ Current.hash = Current.spec
      /\ Current.phase \in {"absent", "live"} /\ Current.spec \in KSpecs \cup {None}
      /\ Current.phase = "live" <=> Current.spec # None
  BY <1>2, <1>3
<1>5. /\ Installed.phase = Current.phase
      /\ Installed.owner = IF Current.phase = "absent" THEN 0 ELSE 1
  <2>1. Installed = IF Current.phase = "absent" THEN NoConfigMap
                    ELSE [phase |-> "live", rv |-> 1, owner |-> Current.uid, data |-> {ChartRoute}]
    BY <1>2 DEF OperatorInit, Init, Current
  <2>2. QED
    BY <1>4, <2>1 DEF NoConfigMap
<1>6. /\ kPc = "idle" /\ kQueue = FALSE /\ kLocal = NoKrakend /\ todo = {} /\ failed = {}
      /\ kCarried = {Current.spec} \ {None}
      /\ kReverted = FALSE /\ adopted = FALSE /\ staleRead = FALSE /\ lost = FALSE
      /\ kNpLog = <<[phase |-> IF NetpolEnabled THEN Current.phase ELSE "absent", owner |-> Current.uid]>>
      /\ res = [x \in Resources |-> [phase |-> Current.phase, owner |-> Current.uid,
                                     spec |-> Current.spec]]
  BY DEF OperatorInit, Current
<1>7. KP!Current = Current /\ KP!Installed = Installed
  BY DEF KP!Current, Current, KP!Installed, Installed, KP!Stored, Stored
<1>8. KP!TypeOK
  <2>1. ControllerInv
    BY ControllerInit DEF OperatorInit
  <2>2. /\ krLog \in Seq([Krakends -> Krakend]) /\ krLog # <<>>
        /\ cmLog \in Seq([Krakends -> ConfigMap]) /\ cmLog # <<>>
        /\ used \in [BoundKinds -> Nat]
    BY <2>1 DEF ControllerInv, TypeOK, AdmissionTypeOK
  <2>3. /\ res \in [Resources -> KP!Resource]
        /\ kNpLog \in Seq([phase : {"absent", "live"}, owner : Nat]) /\ kNpLog # <<>>
    <3>1. [phase |-> Current.phase, owner |-> Current.uid, spec |-> Current.spec] \in KP!Resource
      BY <1>4 DEF KP!Resource
    <3>2. [phase |-> IF NetpolEnabled THEN Current.phase ELSE "absent", owner |-> Current.uid]
            \in [phase : {"absent", "live"}, owner : Nat]
      BY <1>4
    <3>3. QED
      BY <1>6, <3>1, <3>2
  <2>4. NoKrakend \in Krakend
    BY DEF NoKrakend, Krakend
  <2>5. kCarried \subseteq KSpecs
    BY <1>4, <1>6
  <2>6. QED
    BY <1>6, <2>2, <2>3, <2>4, <2>5, SameTypes DEF KP!TypeOK
<1>9. \A i \in 1..Len(krLog) : i = 1
  BY <1>2
<1>10. \A i \in 1..Len(cmLog) : i = 1
  BY <1>2
<1>11. KP!Ordered
  BY <1>2, <1>4, <1>9 DEF KP!Ordered, KP!Older
<1>12. KP!OwnersOld
  <2>1. cmLog[1][Self].owner <= krLog[1][Self].uid
    BY <1>2, <1>4, <1>5
  <2>2. QED
    BY <1>6, <1>9, <1>10, <2>1 DEF KP!OwnersOld
<1>13. KP!LocalOld /\ KP!FreshCreate /\ KP!RoutesLostByStaleReadOnly
  BY <1>6 DEF KP!LocalOld, KP!FreshCreate, KP!RoutesLostByStaleReadOnly
<1>14. KP!OwnedStays
  BY <1>2, <1>7, <1>10 DEF KP!OwnedStays
<1>15. KP!HashCarried /\ KP!Marked /\ KP!InStep
  BY <1>2, <1>4, <1>6, <1>7, <1>9 DEF KP!HashCarried, KP!Marked, KP!InStep
<1>16. KP!WorkQueued
  BY <1>2, <1>4 DEF KP!WorkQueued, KP!NeedsWork, KP!Cached, Cached, KP!hash
<1>17. KP!PartialsDone
  BY <1>4, <1>5, <1>6, <1>7 DEF KP!PartialsDone, KP!Settled
<1>18. KP!ResourcesDone
  BY <1>6, <1>7 DEF KP!ResourcesDone, KP!hash
<1>19. QED
  BY <1>8, <1>11, <1>12, <1>13, <1>14, <1>15, <1>16, <1>17, <1>18 DEF KP!InstallInv

LEMMA OperatorInitInv == OperatorInit => OperatorInv
<1> SUFFICES ASSUME OperatorInit PROVE OperatorInv
  OBVIOUS
<1>0. Init /\ misplaced = FALSE /\ lost = FALSE
  BY DEF OperatorInit
<1>1. KP!InstallInv
  BY InstalledAtFirst
<1>2. RouteInv /\ MigrationInv /\ PolicyInv
  BY <1>0, RouteInit, MigrationInit, PolicyInit
<1>3. /\ pc = "idle" /\ krak = None /\ krakCopy = NoKrakend
      /\ Len(krLog) = 1 /\ Len(cmLog) = 1
      /\ \A n \in Names : Stored(epsLog)[n] = GoneEndpoints(0, 0)
  BY <1>0 DEF Init, AdmissionInit, Stored
<1>4. EndpointsInv
  BY <1>2, <1>3 DEF EndpointsInv, RouteInv, RegistryInv, GhostInv, MigrationInv, ListAsked
<1>5. \A k \in Krakends : Stored(cmLog)[k].data \in {{}, {ChartRoute}}
  BY <1>0 DEF Init, Stored, NoConfigMap
<1>6. Authenticated
  BY <1>5 DEF Authenticated, ChartRoute
<1>7. \A r \in Installed.data : r.src = None
  BY <1>5, OperatorAssumption DEF Installed, ChartRoute
<1>8. \A n \in Names : Stored(epsLog)[n].owner = None /\ Stored(epsLog)[n].phase = "absent"
  BY <1>3 DEF GoneEndpoints
<1>9. PartialsGrow
  <2>1. cmLog[1][Self].rv \in Nat
    BY <1>1, <1>3, InstallFacts
  <2>2. \A i \in 1..Len(cmLog) : i = 1
    BY <1>3
  <2>3. QED
    BY <2>1, <2>2 DEF PartialsGrow
<1>10. PartialsCopy /\ CopyKnown /\ OwnersPast /\ ReleaseCleanly
  BY <1>3, <1>8 DEF PartialsCopy, CopyKnown, OwnersPast, ReleaseCleanly
<1>11. Returns
  <2>1. \A i \in 1..Len(krLog) : i = 1
    BY <1>3
  <2>2. QED
    BY <2>1 DEF Returns
<1>12. OwnedServed
  <2>1. <<Self, Current.uid>> # None
    BY <1>1, InstallFacts, OwnerAssumption
  <2>2. QED
    BY <1>3, <1>8, <2>1 DEF OwnedServed, Post, AfterPolicies
<1>13. SampleOnly /\ NoGhostRoutes
  BY <1>7 DEF SampleOnly, NoGhostRoutes, Guarded
<1>14. KnownServed
  BY <1>3, <1>8 DEF KnownServed, PublishedFor, Synced, Working
<1>15. QED
  BY <1>1, <1>4, <1>6, <1>9, <1>10, <1>11, <1>12, <1>13, <1>14 DEF OperatorInv

LEMMA OperatorStep ==
  ASSUME Krakends = {Self}, OperatorInv, [OperatorNext]_operatorVars
  PROVE  OperatorInv'
<1>0. /\ KP!InstallInv /\ EndpointsInv /\ Authenticated
      /\ PartialsGrow /\ PartialsCopy /\ Returns /\ CopyKnown /\ OwnersPast
      /\ OwnedServed /\ SampleOnly /\ ReleaseCleanly /\ NoGhostRoutes /\ KnownServed
  BY DEF OperatorInv
<1>1. HistoryInv /\ ControllerInv /\ Pending /\ ListKnown /\ SyncedOwned /\ ListAsked
  BY <1>0 DEF EndpointsInv, HistoryInv
<1>2. \/ KrakendMove
      \/ EndpointsMove /\ KP!InstallInv'
  BY <1>0, <1>1, OperatorActs, KrakendMoves, EndpointsMoves
<1>3. KP!InstallInv'
  BY <1>2 DEF KrakendMove
<1>4. EndpointsMove \/ KrakendMove
  BY <1>2
<1>5. PartialsGrow' /\ PartialsCopy' /\ Returns' /\ CopyKnown'
  BY <1>0, <1>1, <1>4, PartialsGrowStep, PartialsCopyStep, ReturnsStep, CopyKnownStep
<1>6. OwnersPast' /\ OwnedServed' /\ SampleOnly'
  BY <1>0, <1>1, <1>3, <1>4, <1>5, OwnersPastStep, OwnedServedStep, SampleOnlyStep
<1>7. ReleaseCleanly' /\ NoGhostRoutes' /\ KnownServed'
  BY <1>0, <1>1, <1>4, ReleaseCleanlyStep, NoGhostRoutesStep, KnownServedStep
<1>8. EndpointsInv'
  <2>1. CASE KrakendMove
    BY <1>0, <1>5, <2>1, EndpointsKept
  <2>2. CASE EndpointsMove
    BY <1>0, <2>2, EndpointsInvStep DEF EndpointsMove
  <2>3. QED
    BY <1>4, <2>1, <2>2
<1>9. Authenticated'
  <2>1. CASE EndpointsMove
    BY <1>0, <1>1, <2>1, AuthenticatedStep DEF EndpointsMove
  <2>2. CASE KrakendMove
    <3>1. UNCHANGED carried
      BY <1>0, <2>2, KrakendEffect DEF history
    <3>2. Installed'.data \in {Installed.data, {ChartRoute}, {}}
      BY <1>0, <2>2, KrakendEffect DEF Sampled, Collected
    <3>3. OpenAsked(Installed.data)
      BY <1>0 DEF Authenticated, OpenAsked, Installed
    <3>4. OpenAsked(Installed.data)'
      <4>1. CASE Installed'.data = Installed.data
        BY <3>1, <3>3, <4>1 DEF OpenAsked
      <4>2. CASE \A r \in Installed'.data : r.src = None
        BY <4>2 DEF OpenAsked
      <4>3. QED
        BY <3>2, <4>1, <4>2 DEF ChartRoute
    <3>5. QED
      BY <3>4 DEF Authenticated, OpenAsked, Installed
  <2>3. QED
    BY <1>4, <2>1, <2>2
<1>10. QED
  BY <1>3, <1>5, <1>6, <1>7, <1>8, <1>9 DEF OperatorInv

-----------------------------------------------------------------------------
LEMMA RestServes ==
  ASSUME Krakends = {Self}, OperatorInv
  PROVE  GatewayServes
<1> SUFFICES ASSUME AtRest, Installable, ~lost, ~misplaced
             PROVE  /\ Serving(Self)
                    /\ \A n \in Names \ (unguarded \cup reverted) :
                         LET e == Stored(epsLog)[n]
                         IN  e.phase = "absent" \/ InSync(e) \/ ~NetpolEnabled =>
                               Published(n, Self) = Wanted(n)
  BY DEF GatewayServes
<1>0. KP!InstallInv /\ EndpointsInv /\ ControllerInv /\ NoGhostRoutes /\ KnownServed /\ SyncedOwned
  BY DEF OperatorInv, EndpointsInv, HistoryInv
<1>1. Serving(Self)
  <2>1. KP!Current = Current /\ K!Current = Current /\ KP!Installed = Installed
    BY DEF KP!Current, K!Current, Current, KP!Installed, Installed, KP!Stored, K!Stored, Stored
  <2>2. KP!Quiescent /\ Current.phase = "live" /\ ~adopted /\ KP!Partials \notin failed
    BY <2>1 DEF AtRest, Installable, K!Quiescent, KP!Quiescent, K!Partials, KP!Partials
  <2>3. KP!Current.hash # None
    BY <1>0, <2>1, <2>2, Assumptions, KP!RestMeansHashed
  <2>4. KP!Settled(Current.uid)
    BY <1>0, <2>1, <2>2, <2>3 DEF KP!InstallInv, KP!PartialsDone
  <2>5. Installed.phase = "live" /\ Installed.owner = Current.uid
    BY <2>1, <2>2, <2>4 DEF KP!Settled
  <2>6. QED
    BY <2>2, <2>5, ServingMeans
<1>2. ASSUME NEW n \in Names, n \notin unguarded, n \notin reverted
      PROVE  Stored(epsLog)[n].phase = "absent" \/ InSync(Stored(epsLog)[n]) \/ ~NetpolEnabled =>
               Published(n, Self) = Wanted(n)
  <2>1. Published(n, Self) = Part(Installed.data, n) /\ Wanted(n) = Ask(Stored(epsLog)[n])
    BY PartMeans, OperatorAssumption DEF Installed
  <2>2. CASE Stored(epsLog)[n].phase = "absent"
    <3>1. Guarded(Installed.data) /\ n # None
      BY <1>0, <1>1, ClusterAssumption DEF NoGhostRoutes
    <3>2. \A r \in Installed.data : r.src # n
      BY <1>2, <2>2, <3>1 DEF Guarded
    <3>3. Part(Installed.data, n) = {}
      BY <3>2 DEF Part
    <3>4. Ask(Stored(epsLog)[n]) = {}
      BY <2>2 DEF Ask
    <3>5. QED
      BY <2>1, <3>3, <3>4
  <2>3. CASE Synced(n)
    <3>1. Stored(epsLog)[n].owner # None
      BY <1>0, <1>2, <2>3 DEF SyncedOwned
    <3>2. PICK u \in Nat : Stored(epsLog)[n].owner = <<Self, u>>
      BY <1>0, <3>1, OwnerIsSelf
    <3>3. KrakendExists(Stored(epsLog)[n].owner)
      BY <3>1 DEF AtRest
    <3>4. u = Current.uid
      BY <3>2, <3>3 DEF KrakendExists, Current
    <3>5. PublishedFor(n)
      BY <2>3, <3>2, <3>4 DEF PublishedFor
    <3>6. QED
      BY <1>0, <1>1, <1>2, <2>1, <3>5 DEF KnownServed
  <2>4. InSync(Stored(epsLog)[n]) => Synced(n)
    BY DEF InSync, Synced
  <2>5. ASSUME ~NetpolEnabled PROVE Stored(epsLog)[n].phase = "absent" \/ Synced(n)
    <3>1. NetpolEnabled = FALSE
      BY <2>5, NetpolAssumption
    <3>2. Rests
      BY <1>0, <3>1 DEF EndpointsInv
    <3>3. pc = "idle" /\ queue = {} /\ Len(epsLog) = 1
      BY DEF AtRest, Quiescent
    <3>4. Still(n)
      BY <3>3 DEF Still, Stored
    <3>5. QED
      BY <3>2, <3>3, <3>4 DEF Rests
  <2>6. QED
    BY <2>2, <2>3, <2>4, <2>5
<1>3. QED
  BY <1>1, <1>2

(* When both controllers rest, the gateway of an installable Krakend reads *)
(* partials of its own incarnation that hold exactly the routes the stored *)
(* ApiEndpoints ask for, although the Krakend may have been deleted and    *)
(* created again, both controllers write the partials from caches that     *)
(* lag, and calls fail and the manager restarts in between (krakend        *)
(* controller, lines 140-160; apiendpoints controller, 77-181 and 282-330).*)
(* For any names, specs, resources and bounds, if the namespace has one    *)
(* Krakend; GatewayServes says what is excused.                            *)
THEOREM GatewayServesAtRest ==
  ASSUME Krakends = {Self}
  PROVE  OperatorSpec => []GatewayServes
<1>1. OperatorInv /\ [OperatorNext]_operatorVars => OperatorInv'
  BY OperatorStep
<1>2. OperatorInv => GatewayServes
  BY RestServes
<1>3. QED
  BY <1>1, <1>2, OperatorInitInv, PTL DEF OperatorSpec

(* With Krakends that come and go, too, the gateway never serves a route   *)
(* of an ApiEndpoints whose finalizer was removed: a missing Krakend lets  *)
(* the controller skip the partials (lines 77-104), and it may miss only a *)
(* new one, whose partials are still the chart's.  Excused is the time     *)
(* after routes were published in the partials of another incarnation.     *)
THEOREM NoGhostsAcrossIncarnations ==
  ASSUME Krakends = {Self}
  PROVE  OperatorSpec => [](~misplaced => GhostFree)
<1>1. OperatorInv /\ [OperatorNext]_operatorVars => OperatorInv'
  BY OperatorStep
<1>2. OperatorInv => (~misplaced => GhostFree)
  BY DEF OperatorInv, NoGhostRoutes, GhostFree, Guarded, Installed
<1>3. QED
  BY <1>1, <1>2, OperatorInitInv, PTL DEF OperatorSpec

(* What was proved of the ApiEndpoints controller beside Krakends that     *)
(* only leave holds beside the real Krakend controller: only races let     *)
(* paths collide, no route is open unless a spec asks for it, and policies *)
(* come before the status.                                                 *)
THEOREM EndpointsSafeBesideKrakends ==
  ASSUME Krakends = {Self}
  PROVE  OperatorSpec => [](DuplicateOnlyByRace /\ Authenticated /\ PolicyBeforeSync)
<1>1. OperatorInv /\ [OperatorNext]_operatorVars => OperatorInv'
  BY OperatorStep
<1>2. OperatorInv => DuplicateOnlyByRace /\ Authenticated
  BY DEF OperatorInv, EndpointsInv, HistoryInv, ControllerInv, AdmissionInv
<1>3. OperatorInv => PolicyBeforeSync
  <2> SUFFICES ASSUME OperatorInv, NetpolEnabled, NEW n \in Names, InSync(Stored(epsLog)[n]),
                      NEW app \in appsInNamespace(Stored(epsLog)[n].spec)
               PROVE  Stored(npLog)[<<krakendName(Stored(epsLog)[n].spec), app>>].rv > 0
    BY DEF PolicyBeforeSync
  <2>1. PolicyInv
    BY NetpolAssumption DEF OperatorInv, EndpointsInv
  <2>2. Stored(epsLog)[n].spec \in ESpecs
    <3>1. Stored(epsLog)[n] \in ApiEndpoints
      BY <2>1, PolicyTypes DEF PolicyInv
    <3>2. QED
      BY <3>1 DEF ApiEndpoints, InSync
  <2>3. Opened(Stored(epsLog)[n].spec)
    BY <2>1, <2>2 DEF PolicyInv, StoredOpened, InSync
  <2>4. QED
    BY <2>3 DEF Opened
<1>4. QED
  BY <1>1, <1>2, <1>3, OperatorInitInv, PTL DEF OperatorSpec

(* What was proved of the Krakend controller beside users who publish      *)
(* holds beside the real ApiEndpoints controller: at rest the resources    *)
(* and the partials are installed, and only stale reads lose routes.       *)
THEOREM KrakendSafeBesideEndpoints ==
  ASSUME Krakends = {Self}
  PROVE  OperatorSpec => [](K!Applied /\ K!PartialsInstalled /\ K!RoutesLostByStaleReadOnly)
<1>1. OperatorInv /\ [OperatorNext]_operatorVars => OperatorInv'
  BY OperatorStep
<1>2. ASSUME OperatorInv
      PROVE  K!Applied /\ K!PartialsInstalled /\ K!RoutesLostByStaleReadOnly
  <2>1. KP!InstallInv
    BY <1>2 DEF OperatorInv
  <2>2. /\ KP!Current = K!Current /\ KP!Installed = K!Installed /\ KP!Partials = K!Partials
        /\ KP!Quiescent <=> K!Quiescent
    BY DEF KP!Current, K!Current, KP!Installed, K!Installed, KP!Stored, K!Stored, KP!Quiescent,
           K!Quiescent, KP!Partials, K!Partials
  <2>3. ASSUME K!Quiescent, K!Current.phase = "live"
        PROVE  KP!Current.hash = KP!hash(KP!Current.spec) /\ KP!Current.hash # None
    BY <2>1, <2>2, <2>3, Assumptions, KP!RestMeansHashed
  <2>4. K!Applied
    BY <2>1, <2>2, <2>3 DEF K!Applied, KP!InstallInv, KP!ResourcesDone
  <2>5. K!PartialsInstalled
    BY <2>1, <2>2, <2>3 DEF K!PartialsInstalled, KP!InstallInv, KP!PartialsDone, KP!Settled
  <2>6. K!RoutesLostByStaleReadOnly
    BY <2>1 DEF KP!InstallInv, KP!RoutesLostByStaleReadOnly, K!RoutesLostByStaleReadOnly
  <2>7. QED
    BY <2>4, <2>5, <2>6
<1>3. QED
  BY <1>1, <1>2, OperatorInitInv, PTL DEF OperatorSpec

=============================================================================
