------------------------ MODULE ApiEndpointsController ------------------------
(***************************************************************************)
(* internal/controller/apiendpoints_controller.go: the reconciler that     *)
(* publishes the ApiEndpoints of a namespace in the partials ConfigMap of  *)
(* their Krakend and opens the network for the applications behind them.   *)
(*                                                                         *)
(* controller-runtime runs Reconcile in one worker fed by a work queue     *)
(* that holds each name at most once.  Every call to the API server or to  *)
(* the informer caches is a step of its own; pc names the call Reconcile   *)
(* makes next.  A returned error puts the name back on the queue.          *)
(***************************************************************************)
EXTENDS Admission, ServiceDiscovery

CONSTANT NetpolEnabled

ASSUME NetpolAssumption == NetpolEnabled \in BOOLEAN

VARIABLES
  cmLog,       \* log of the partials ConfigMaps, by Krakend name
  npLog,       \* log of the NetworkPolicies, by <<Krakend name, app>>
  queue,       \* names waiting to be reconciled
  pc,          \* the call Reconcile makes next; "idle" between reconciles
  req,         \* the name being reconciled
  local,       \* Reconcile's copy `endpoints'
  hash,        \* hash of the spec read first
  krak,        \* name of the Krakend read, None before
  krakCopy,    \* the copy of it
  cm,          \* updateKrakendConfigMap's copy of the ConfigMap
  apps         \* apps for which ensureAppIngressNetpol still has to run

workVars == <<pc, req, local, hash, krak, krakCopy, cm, apps>>
vars == <<admissionVars, cmLog, npLog, queue, workVars>>

PCs == {"idle", "getKrakend", "getConfigMap", "list", "updateConfigMap",
        "ensureNetpol", "refetch", "admitFinalizer", "addFinalizer",
        "refetchStatus", "updateStatus", "removeFinalizer"}

NoEndpoints == GoneEndpoints(0, 0)
NoNetpol == [phase |-> "absent", rv |-> 0, owner |-> None]

NetpolKeys == Krakends \X Apps

-----------------------------------------------------------------------------
(* Reconcile returns: its locals are gone; an error requeues the name.     *)
Return ==
  /\ pc' = "idle" /\ req' = None /\ local' = NoEndpoints /\ hash' = None
  /\ krak' = None /\ krakCopy' = NoKrakend /\ cm' = NoConfigMap
  /\ apps' = {}

Done == Return /\ UNCHANGED queue

Fail == Return /\ queue' = queue \cup {req}

(* Reads leave the cluster alone; writes say what they change.             *)
clusterVars == <<admissionVars, cmLog, npLog>>

-----------------------------------------------------------------------------
(* Mutant: a missing object is an error (client.IgnoreNotFound dropped).   *)
StartMissingFails(n, outside) ==
  LET e == Cached(epsLog)[n]
  IN  /\ pc = "idle" /\ n \in queue /\ ~outside
      /\ queue' = IF e.phase = "absent" THEN queue ELSE queue \ {n}
      /\ \/ /\ e.phase = "absent" \/ (e.phase = "live" /\ e.hash = hashEndpoints(e.spec))
            /\ UNCHANGED workVars
         \/ /\ e.phase = "deleting" \/ (e.phase = "live" /\ e.hash # hashEndpoints(e.spec))
            /\ pc' = "getKrakend" /\ req' = n /\ local' = e
            /\ hash' = IF e.phase = "live" THEN hashEndpoints(e.spec) ELSE None
            /\ UNCHANGED <<krak, krakCopy, cm, apps>>
      /\ UNCHANGED clusterVars

(* The worker takes a name off the queue and reads it from the cache.  An  *)
(* object whose status has the hash of its spec is skipped unless the sync *)
(* interval has passed since; `outside' says that it has.                  *)
Start(n, outside) ==
  LET e == Cached(epsLog)[n]
  IN  /\ pc = "idle" /\ n \in queue
      /\ queue' = queue \ {n}
      /\ IF outside
         THEN /\ e.phase = "live" /\ e.hash = hashEndpoints(e.spec)
              /\ Spend("resync")
         ELSE UNCHANGED used
      /\ \/ /\ \/ e.phase = "absent"
               \/ e.phase = "live" /\ e.hash = hashEndpoints(e.spec) /\ ~outside
            /\ UNCHANGED workVars
         \/ /\ \/ e.phase = "deleting"
               \/ e.phase = "live" /\ (e.hash # hashEndpoints(e.spec) \/ outside)
            /\ pc' = "getKrakend" /\ req' = n /\ local' = e
            /\ hash' = IF e.phase = "live" THEN hashEndpoints(e.spec) ELSE None
            /\ UNCHANGED <<krak, krakCopy, cm, apps>>
      /\ UNCHANGED <<epsLog, krLog, inflight, history, cmLog, npLog>>


(* A missing Krakend is an error, except that a deleted object then only   *)
(* loses its finalizer.                                                    *)
GetKrakend ==
  LET k == krakendName(local.spec)
      o == Cached(krLog)[k]
  IN  /\ pc = "getKrakend"
      /\ \/ /\ o.phase = "live"
            /\ krak' = k /\ krakCopy' = o /\ pc' = "getConfigMap"
            /\ UNCHANGED <<queue, req, local, hash, cm, apps>>
         \/ /\ o.phase = "absent" /\ local.phase = "deleting"
            /\ pc' = "removeFinalizer"
            /\ UNCHANGED <<queue, req, local, hash, krak, krakCopy, cm, apps>>
         \/ o.phase = "absent" /\ local.phase = "live" /\ Fail
      /\ UNCHANGED clusterVars

(* Mutant: the policies are not waited for.                                *)
SkipPolicies ==
  /\ apps' = {}
  /\ pc' = IF local.phase = "deleting" THEN "removeFinalizer" ELSE "refetch"

(* What follows updateKrakendConfigMap: a deleted object loses its         *)
(* finalizer; for a live one the network policies are next.                *)
AfterConfigMap ==
  LET todo == IF NetpolEnabled /\ local.phase = "live"
              THEN appsInNamespace(local.spec) ELSE {}
  IN  /\ apps' = todo
      /\ pc' = CASE local.phase = "deleting" -> "removeFinalizer"
                 [] local.phase # "deleting" /\ todo # {} -> "ensureNetpol"
                 [] OTHER -> "refetch"

(* Mutant: without partials there is nothing to update, and no error.      *)
GetConfigMapMissingOk ==
  LET o == Cached(cmLog)[krak]
  IN  /\ pc = "getConfigMap"
      /\ \/ /\ o.phase = "live"
            /\ cm' = o /\ pc' = "list"
            /\ UNCHANGED <<queue, req, local, hash, krak, krakCopy, apps>>
         \/ /\ o.phase = "absent" /\ AfterConfigMap
            /\ UNCHANGED <<queue, req, local, hash, krak, krakCopy, cm>>
      /\ UNCHANGED clusterVars

GetConfigMap ==
  LET o == Cached(cmLog)[krak]
  IN  /\ pc = "getConfigMap"
      /\ \/ /\ o.phase = "live"
            /\ cm' = o /\ pc' = "list"
            /\ UNCHANGED <<queue, req, local, hash, krak, krakCopy, apps>>
         \/ o.phase = "absent" /\ Fail
      /\ UNCHANGED clusterVars

(* List every ApiEndpoints of the namespace, drop the deleted ones and     *)
(* convert the others.                                                     *)
ListEndpoints ==
  LET items == LiveSpecs(Cached(epsLog))
  IN  /\ pc = "list"
      /\ \/ /\ Convertible(krakCopy.spec, items)
            /\ cm' = [cm EXCEPT !.data = ToKrakendEndpoints(krakCopy.spec, items)]
            /\ pc' = "updateConfigMap"
            /\ UNCHANGED <<queue, req, local, hash, krak, krakCopy, apps>>
         \/ ~Convertible(krakCopy.spec, items) /\ Fail
      /\ UNCHANGED clusterVars

(* An update that changes nothing is not a write.                          *)
UpdateConfigMap ==
  LET o == Stored(cmLog)[krak]
  IN  /\ pc = "updateConfigMap"
      /\ \/ /\ o.phase = "live" /\ o.rv = cm.rv
            /\ cmLog' = IF cm.data = o.data THEN cmLog
                        ELSE Put(cmLog, krak, [cm EXCEPT !.rv = @ + 1])
            /\ AfterConfigMap
            /\ UNCHANGED <<queue, req, local, hash, krak, krakCopy, cm>>
         \/ /\ o.phase = "absent" \/ o.rv # cm.rv
            /\ Fail
            /\ UNCHANGED cmLog
      /\ UNCHANGED <<admissionVars, npLog>>

(* One turn of the loop in ensureAppIngressNetpol; the loop may visit the  *)
(* apps in any order.  The policy is read and then created, or updated     *)
(* without change; as nothing but the lagging cache can tell the read from *)
(* the write they are one step.  An error ends Reconcile, which reports    *)
(* none: the name is not requeued.                                         *)
EnsureNetpol(app) ==
  LET key == <<krakendName(local.spec), app>>
      c == Cached(npLog)[key]
      o == Stored(npLog)[key]
      absent == c.phase = "absent" /\ o.phase = "absent"
      same == c.phase = "live" /\ c = o
  IN  /\ pc = "ensureNetpol" /\ app \in apps
      /\ npLog' = IF absent
                  THEN Put(npLog, key, [phase |-> "live", rv |-> o.rv + 1,
                                        owner |-> <<req, local.uid>>])
                  ELSE npLog
      /\ \/ /\ absent \/ same
            /\ apps' = apps \ {app}
            /\ pc' = IF apps = {app} THEN "refetch" ELSE pc
            /\ UNCHANGED <<queue, req, local, hash, krak, krakCopy, cm>>
         \/ ~absent /\ ~same /\ Done
      /\ UNCHANGED <<admissionVars, cmLog>>

(* Mutant: the error of the refetch is not looked at.                      *)
RefetchUnchecked ==
  LET e == Cached(epsLog)[req]
  IN  /\ pc \in {"refetch", "refetchStatus"}
      /\ local' = e
      /\ pc' = IF pc = "refetchStatus" THEN "updateStatus" ELSE "admitFinalizer"
      /\ UNCHANGED <<queue, req, hash, krak, krakCopy, cm, apps, clusterVars>>

(* Both refetches read the cache, which need not have seen the update made *)
(* in between.                                                             *)
Refetch ==
  LET e == Cached(epsLog)[req]
  IN  /\ pc \in {"refetch", "refetchStatus"}
      /\ \/ /\ e.phase # "absent"
            /\ local' = e
            /\ pc' = CASE pc = "refetchStatus" -> "updateStatus"
                       [] pc = "refetch" /\ (~e.finalizer \/ e.owner = None) -> "admitFinalizer"
                       [] OTHER -> "refetchStatus"
            /\ UNCHANGED <<queue, req, hash, krak, krakCopy, cm, apps>>
         \/ e.phase = "absent" /\ Fail
      /\ UNCHANGED clusterVars

(* The update that adds finalizer and owner passes the webhook too.        *)
AdmitFinalizer ==
  /\ pc = "admitFinalizer"
  /\ \/ /\ Handle(req, local, local.spec)
        /\ pc' = "addFinalizer"
        /\ UNCHANGED <<queue, req, local, hash, krak, krakCopy, cm, apps>>
     \/ ~Handle(req, local, local.spec) /\ Fail
  /\ UNCHANGED clusterVars

(* Mutant: the update carries no resource version.                         *)
Exists(e) == Stored(epsLog)[req].phase # "absent"

(* The object the API server stores for the controller's copy e; a copy    *)
(* older than the stored object is refused.                                *)
UpToDate(e) == Stored(epsLog)[req].phase # "absent" /\ Stored(epsLog)[req].rv = e.rv

Write(obj) == epsLog' = Put(epsLog, req, [obj EXCEPT !.rv = @ + 1])

(* Mutant: the owner reference is forgotten.                               *)
AddFinalizerOnly ==
  /\ pc = "addFinalizer"
  /\ \/ /\ UpToDate(local)
        /\ Write([local EXCEPT !.finalizer = TRUE])
        /\ pc' = "refetchStatus"
        /\ UNCHANGED <<queue, req, local, hash, krak, krakCopy, cm, apps>>
     \/ ~UpToDate(local) /\ Fail /\ UNCHANGED epsLog
  /\ UNCHANGED <<krLog, inflight, used, history, cmLog, npLog>>

AddFinalizer ==
  /\ pc = "addFinalizer"
  /\ \/ /\ UpToDate(local)
        /\ Write([local EXCEPT !.finalizer = TRUE,
                    !.owner = IF @ = None THEN <<krak, krakCopy.uid>> ELSE @])
        /\ pc' = "refetchStatus"
        /\ UNCHANGED <<queue, req, local, hash, krak, krakCopy, cm, apps>>
     \/ ~UpToDate(local) /\ Fail /\ UNCHANGED epsLog
  /\ UNCHANGED <<krLog, inflight, used, history, cmLog, npLog>>

(* Mutant: the hash is that of the spec read last.                         *)
StatusOfRefetched ==
  /\ pc = "updateStatus"
  /\ \/ /\ UpToDate(local)
        /\ Write([local EXCEPT !.hash = hashEndpoints(local.spec)]) /\ Done
     \/ ~UpToDate(local) /\ Fail /\ UNCHANGED epsLog
  /\ UNCHANGED <<krLog, inflight, used, history, cmLog, npLog>>

(* Status().Update: the hash is that of the spec read first.               *)
UpdateStatus ==
  /\ pc = "updateStatus"
  /\ \/ UpToDate(local) /\ Write([local EXCEPT !.hash = hash]) /\ Done
     \/ ~UpToDate(local) /\ Fail /\ UNCHANGED epsLog
  /\ UNCHANGED <<krLog, inflight, used, history, cmLog, npLog>>

(* Without its last finalizer a deleted object is gone.                    *)
RemoveFinalizer ==
  /\ pc = "removeFinalizer"
  /\ \/ /\ local.finalizer /\ UpToDate(local)
        /\ epsLog' = Put(epsLog, req, GoneEndpoints(local.rv + 1, local.uid))
        /\ Done
     \/ local.finalizer /\ ~UpToDate(local) /\ Fail /\ UNCHANGED epsLog
     \/ ~local.finalizer /\ Done /\ UNCHANGED epsLog
  /\ UNCHANGED <<krLog, inflight, used, history, cmLog, npLog>>

Reconcile ==
  \/ GetKrakend \/ GetConfigMap \/ ListEndpoints \/ UpdateConfigMap
  \/ \E app \in apps : EnsureNetpol(app)
  \/ Refetch \/ AdmitFinalizer \/ AddFinalizer \/ UpdateStatus
  \/ RemoveFinalizer

-----------------------------------------------------------------------------
(* Any call may fail (API server or network error).  A write that succeeds *)
(* but whose answer is lost is a write followed by a failure of the next   *)
(* call.  In ensureAppIngressNetpol the error is swallowed.                *)
Fault ==
  /\ pc # "idle"
  /\ Spend("fault")
  /\ IF pc = "ensureNetpol" THEN Done ELSE Fail
  /\ UNCHANGED <<epsLog, krLog, inflight, history, cmLog, npLog>>

(* The manager is killed at any point and comes back: new caches, and      *)
(* every listed object is reconciled.                                      *)
Restart ==
  /\ RelistCaches
  /\ Return
  /\ cmLog' = Relist(cmLog) /\ npLog' = Relist(npLog)
  /\ queue' = {n \in Names : Stored(epsLog)[n].phase # "absent"}

(* The informer's periodic resync hands every cached object to the queue.  *)
Resync ==
  /\ Spend("resync")
  /\ queue' = queue \cup {n \in Names : Cached(epsLog)[n].phase # "absent"}
  /\ UNCHANGED <<epsLog, krLog, inflight, history, cmLog, npLog, workVars>>

(* For(&ApiEndpoints{}): every event about an ApiEndpoints is queued.      *)
ObserveEndpoints ==
  /\ DeliverEndpoints
  /\ queue' = queue \cup Notified(epsLog)
  /\ UNCHANGED <<cmLog, npLog, workVars>>

(* Events of the other kinds only change the cache.                        *)
ObserveKrakends == DeliverKrakends /\ UNCHANGED <<cmLog, npLog, queue, workVars>>

ObserveConfigMaps ==
  /\ Len(cmLog) > 1 /\ cmLog' = Deliver(cmLog)
  /\ UNCHANGED <<admissionVars, npLog, queue, workVars>>

ObserveNetpols ==
  /\ Len(npLog) > 1 /\ npLog' = Deliver(npLog)
  /\ UNCHANGED <<admissionVars, cmLog, queue, workVars>>

(* The garbage collector deletes what a deleted owner leaves behind.       *)
GcConfigMap(k) ==
  LET o == Stored(cmLog)[k]
  IN  /\ o.phase = "live" /\ ~KrakendExists(<<k, o.owner>>)
      /\ cmLog' = Put(cmLog, k, [o EXCEPT !.phase = "absent", !.rv = @ + 1, !.data = {}])
      /\ UNCHANGED <<admissionVars, npLog, queue, workVars>>

EndpointsExist(owner) ==
  LET e == Stored(epsLog)[owner[1]] IN e.phase # "absent" /\ e.uid = owner[2]

GcNetpol(key) ==
  LET o == Stored(npLog)[key]
  IN  /\ o.phase = "live" /\ ~EndpointsExist(o.owner)
      /\ Spend("gc")
      /\ npLog' = Put(npLog, key, [phase |-> "absent", rv |-> o.rv + 1, owner |-> None])
      /\ UNCHANGED <<epsLog, krLog, inflight, history, cmLog, queue, workVars>>

Environment ==
  \/ UserStep /\ UNCHANGED <<cmLog, npLog, queue, workVars>>
  \/ Fault \/ Restart \/ Resync
  \/ ObserveEndpoints \/ ObserveKrakends \/ ObserveConfigMaps \/ ObserveNetpols
  \/ \E k \in Krakends : GcConfigMap(k)
  \/ \E key \in NetpolKeys : GcNetpol(key)

-----------------------------------------------------------------------------
(* Installed Krakends have their partials ConfigMap with the chart's       *)
(* sample endpoint.                                                        *)
Init ==
  /\ AdmissionInit
  /\ cmLog = <<[k \in Krakends |->
                IF Stored(krLog)[k].phase = "absent" THEN NoConfigMap
                ELSE [phase |-> "live", rv |-> 1, owner |-> Stored(krLog)[k].uid,
                      data |-> {ChartRoute}]]>>
  /\ npLog = <<[key \in NetpolKeys |-> NoNetpol]>>
  /\ queue = {}
  /\ pc = "idle" /\ req = None /\ local = NoEndpoints /\ hash = None
  /\ krak = None /\ krakCopy = NoKrakend /\ cm = NoConfigMap /\ apps = {}

Next ==
  \/ \E n \in Names, outside \in BOOLEAN : Start(n, outside)
  \/ Reconcile
  \/ Environment

Spec == Init /\ [][Next]_vars

(* Scheduling: the worker keeps running, the watches keep delivering, the  *)
(* API server answers.  The queue is first in, first out, but which of the *)
(* names the worker takes next turns out not to matter.                    *)
Fairness ==
  /\ WF_vars((\E n \in Names : Start(n, FALSE)) \/ Reconcile)
  /\ WF_vars(ObserveEndpoints) /\ WF_vars(ObserveKrakends)
  /\ WF_vars(ObserveConfigMaps) /\ WF_vars(ObserveNetpols)
  /\ WF_vars((\E w \in inflight : Commit(w)) /\ UNCHANGED <<cmLog, npLog, queue, workVars>>)

FairSpec == Spec /\ Fairness

-----------------------------------------------------------------------------
TypeOK ==
  /\ AdmissionTypeOK
  /\ cmLog \in Seq([Krakends -> ConfigMap]) /\ cmLog # <<>>
  /\ npLog \in Seq([NetpolKeys -> NetworkPolicy]) /\ npLog # <<>>
  /\ queue \subseteq Names
  /\ pc \in PCs
  /\ req \in IF pc = "idle" THEN {None} ELSE Names
  /\ local \in ApiEndpoints
  /\ pc # "idle" => local.phase # "absent"
  /\ hash \in {hashEndpoints(s) : s \in ESpecs} \cup {None}
  /\ krak \in Krakends \cup {None}
  /\ krakCopy \in Krakend
  /\ krak # None => krakCopy.phase = "live"
  /\ pc \in PCs \ {"idle", "getKrakend", "removeFinalizer"} => krak # None
  /\ cm \in ConfigMap
  /\ apps \subseteq Apps

Quiescent == pc = "idle" /\ queue = {} /\ Len(epsLog) = 1 /\ inflight = {}

(* The partials ConfigMap a running gateway reads.                         *)
Serving(k) ==
  LET o == Stored(cmLog)[k] IN o.phase = "live" /\ KrakendExists(<<k, o.owner>>)

(* The gateway never serves a route of an ApiEndpoints that is gone,       *)
(* unless the object was deleted before it got its finalizer: what the     *)
(* finalizer is for (controller, lines 77-104 and 147), in spite of stale  *)
(* caches, conflicts, failed calls and restarts.                           *)
GhostFree ==
  \A k \in Krakends : Serving(k) =>
    \A r \in Stored(cmLog)[k].data :
      \/ r.src = None
      \/ r.src \in unguarded
      \/ Stored(epsLog)[r.src].phase # "absent"

(* The controller keeps the promise of Registry: an object is held while   *)
(* its finalizer is set, and it is released only after its routes are out  *)
(* of the partials, so that every interleaving of stale lists, conflicting *)
(* updates, failed calls and restarts is a sequence of the few steps a     *)
(* user needs to know (lines 77-104 and 141-166).                          *)
R == INSTANCE Registry WITH
       state <- [n \in Names |->
                   LET e == Stored(epsLog)[n]
                   IN  CASE e.phase = "absent" -> "absent"
                         [] e.phase = "deleting" -> "leaving"
                         [] e.phase = "live" -> IF e.finalizer THEN "held" ELSE "loose"],
       served <- {r.src : r \in UNION {Stored(cmLog)[k].data : k \in {x \in Krakends : Serving(x)}}}
                   \ {None},
       orphans <- unguarded

ImplementsRegistry == R!RegistrySpec

(* The part of a route its own ApiEndpoints determines: where it leads,    *)
(* its rate limit, and whether it is open to everybody.                    *)
OwnPart(r) == [endpoint |-> r.endpoint, host |-> r.host, qos |-> r.qos, open |-> r.auth = None]

Published(n, k) == {OwnPart(r) : r \in {x \in Stored(cmLog)[k].data : x.src = n}}

Asks(spec, list, open) ==
  {[endpoint |-> list[i].path, host |-> list[i].backendHost, qos |-> spec.rateLimit,
    open |-> open] : i \in DOMAIN list}

Wanted(n) ==
  LET e == Stored(epsLog)[n]
  IN  IF e.phase # "live" THEN {}
      ELSE Asks(e.spec, e.spec.endpoints, FALSE) \cup Asks(e.spec, e.spec.openEndpoints, TRUE)

(* When nothing is left to reconcile the gateway serves exactly the routes *)
(* the stored ApiEndpoints ask for: no update is lost to a stale cache, a  *)
(* conflict, an error or a restart.  Excused are the names that were       *)
(* deleted before they got their finalizer, and those that were given a    *)
(* spec they had carried before (the hash of the status then matches       *)
(* although another spec may be published; lines 113-115).                 *)
Converged ==
  Quiescent => \A k \in Krakends : Serving(k) =>
    \A n \in Names \ (unguarded \cup reverted) : Published(n, k) = Wanted(n)

(* No route is published without a validator unless a spec of its          *)
(* ApiEndpoints lists it as open, although auth providers are changed and  *)
(* removed while reconciles work on older copies of the Krakend, and no    *)
(* change of the providers renders the routes anew (parser, lines 74-78    *)
(* and 149; controller, lines 302 and 313).                                *)
Authenticated ==
  \A k \in Krakends : \A r \in Stored(cmLog)[k].data :
    r.src # None /\ r.auth = None =>
      \E s \in carried[r.src] : OwnPart(r) \in Asks(s, s.openEndpoints, TRUE)

InSync(e) == e.phase = "live" /\ e.hash = hashEndpoints(e.spec)

(* An ApiEndpoints is marked as synchronized only after a policy had been  *)
(* created for every application it discovers (lines 134-139 before 174).  *)
PolicyBeforeSync ==
  NetpolEnabled => \A n \in Names :
    LET e == Stored(epsLog)[n]
    IN  InSync(e) => \A app \in appsInNamespace(e.spec) :
            Stored(npLog)[<<krakendName(e.spec), app>>].rv > 0

(* Every existing Krakend can authenticate every live ApiEndpoints.        *)
Healthy ==
  \A k \in Krakends :
    LET o == Stored(krLog)[k]
    IN  o.phase = "live" => Convertible(o.spec, LiveSpecs(Stored(epsLog)))

(* Reconciliation comes to rest: status and finalizer updates do not       *)
(* trigger it for ever ("we need this check to avoid infinite loop", line  *)
(* 112).  Two ApiEndpoints that share a path are the exception: the        *)
(* webhook keeps refusing the finalizer of the later one.                  *)
Settles == <>[](Quiescent \/ ~uniquePaths(LiveSpecs(Stored(epsLog))))

-----------------------------------------------------------------------------
(* What comments and tests of the repository say and the code does not     *)
(* keep; each is the subject of a run that finds the counterexample.       *)

(* spec.krakend "is the name of the Krakend instance" an ApiEndpoints      *)
(* belongs to (apiendpoints_types.go:60): no Krakend's partials hold a     *)
(* route of an ApiEndpoints that never named it.  They do, as the list of  *)
(* line 302 is that of the namespace.                                      *)
OwnKrakendOnly ==
  \A k \in Krakends : \A r \in Stored(cmLog)[k].data :
    r.src # None => \E s \in carried[r.src] : krakendName(s) = k

(* "should create netpols for endpoints containing apps in same namespace" *)
(* (apiendpoints_controller_test.go:46): once all is quiet the policies of *)
(* every synchronized ApiEndpoints exist.  Not if two share an app: line   *)
(* 233 leaves the policy to the one that made it, and it is collected with *)
(* that one.  The property looks only at objects in their first life, so   *)
(* that no stale copy of an earlier one (line 225) is to blame.            *)
PolicyKept ==
  Quiescent => \A n \in Names :
    LET e == Stored(epsLog)[n]
    IN  InSync(e) /\ e.uid = 1 => \A app \in appsInNamespace(e.spec) :
          Stored(npLog)[<<krakendName(e.spec), app>>].phase = "live"
=============================================================================
