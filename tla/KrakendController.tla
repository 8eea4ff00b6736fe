--------------------------- MODULE KrakendController ---------------------------
(***************************************************************************)
(* internal/controller/krakend_controller.go: the reconciler that installs *)
(* the gateway of a Krakend resource: it renders the helm chart, applies   *)
(* every rendered resource and the gateway's network policy, and records   *)
(* the hash of the spec in the status.                                     *)
(*                                                                         *)
(* This is what it does for one Krakend, Self: all that Reconcile touches  *)
(* is named after it.  The partials ConfigMap is the one resource it       *)
(* shares with the ApiEndpoints controller, of which Publish is an         *)
(* abstraction; module Operator puts the real one in its place.            *)
(*                                                                         *)
(* Typed objects (the Krakend, the ConfigMaps, the policy) are read from   *)
(* the cache and so kept in logs; the rendered resources are unstructured, *)
(* which the manager's client reads from the API server.                   *)
(***************************************************************************)
EXTENDS Cluster

CONSTANTS
  Self,           \* the Krakend
  NoHost,         \* specs with neither ingressHost nor ingress.hosts
  Resources,      \* what the chart renders besides the partials ConfigMap
  NetpolEnabled,
  Bound           \* how often each bounded kind of event may happen

Partials == "partials"
BoundKinds == {"op", "krakendOp", "fault", "restart", "resync", "gc"}

ASSUME KrakendAssumption ==
  /\ Self \in Krakends /\ NoHost \subseteq KSpecs /\ Partials \notin Resources
  /\ NetpolEnabled \in BOOLEAN /\ Bound \in [BoundKinds -> Nat]

VARIABLES
  krLog,      \* log of the Krakends
  cmLog,      \* log of the partials ConfigMaps
  npLog,      \* log of the policy <krakend>-krakend
  res,        \* the other rendered resources, as stored
  queue,      \* TRUE if the Krakend waits to be reconciled
  pc,         \* the call Reconcile makes next; "idle" between reconciles
  local,      \* Reconcile's copy k
  todo,       \* rendered resources the loop has not reached
  used,       \* how many events of each bounded kind have happened
  \* History variables:
  failed,     \* resources whose last createOrUpdate failed
  carried,    \* the specs this incarnation of the Krakend has carried
  reverted,   \* it was given a spec it had carried before
  adopted,    \* the last reconcile left the partials of another incarnation
  staleRead,  \* a reconcile missed stored partials that the cache lacked
  lost        \* published routes were overwritten by the chart's sample

workVars == <<pc, local, todo>>
history == <<failed, carried, reverted, adopted, staleRead, lost>>
vars == <<krLog, cmLog, npLog, res, queue, workVars, used, history>>

Spend(kind) == /\ used[kind] < Bound[kind]
               /\ used' = [used EXCEPT ![kind] = @ + 1]

Resource == [phase : {"absent", "live"}, owner : Nat, spec : KSpecs \cup {None}]
Absent == [phase |-> "absent", owner |-> 0, spec |-> None]

Current == Stored(krLog)[Self]     \* the Krakend and its partials, as stored
Installed == Stored(cmLog)[Self]

-----------------------------------------------------------------------------
Return == pc' = "idle" /\ local' = NoKrakend /\ todo' = {}
Done == Return /\ UNCHANGED queue
Fail == Return /\ queue' = TRUE

(* hashstructure.Hash of the spec, injective here: the spec itself.        *)
hash(spec) == spec

(* The spec needs work: its hash is new, or the sync interval has passed   *)
(* since the last reconcile (`outside').                                   *)
NeedsWork(k, outside) == k.phase = "live" /\ (k.hash # hash(k.spec) \/ outside)

(* Mutant: the error is not looked at.                                     *)
PrepareUnchecked(spec) == TRUE

(* prepareValues returns an error for a spec without a host; with one, the *)
(* chart's values, and so what it renders, are a function of the spec.     *)
prepareValues(spec) == spec \notin NoHost

(* The worker reads the Krakend from the cache.  A spec without a host is  *)
(* an error of prepareValues; otherwise the chart is rendered.             *)
Start(outside) ==
  LET k == Cached(krLog)[Self]
  IN  /\ pc = "idle" /\ queue
      /\ IF outside THEN k.hash = hash(k.spec) /\ k.phase = "live" /\ Spend("resync")
                    ELSE UNCHANGED used
      /\ \/ queue' = FALSE /\ ~NeedsWork(k, outside) /\ UNCHANGED workVars
         \/ queue' = TRUE /\ NeedsWork(k, outside) /\ ~prepareValues(k.spec) /\ UNCHANGED workVars
         \/ /\ NeedsWork(k, outside) /\ prepareValues(k.spec)
            /\ queue' = FALSE
            /\ pc' = "apply" /\ local' = k /\ todo' = Resources \cup {Partials}
      /\ UNCHANGED <<krLog, cmLog, npLog, res, history>>

(* The loop is done with x; it visits the resources in any order, as       *)
(* ToUnstructured ranges over a map.                                       *)
AfterLoop == IF NetpolEnabled THEN "netpol" ELSE "updateStatus"

Continue(x) ==
  /\ todo' = todo \ {x}
  /\ pc' = IF todo = {x} THEN AfterLoop ELSE "apply"
  /\ UNCHANGED <<local, queue>>

Rendered == [phase |-> "live", owner |-> local.uid, spec |-> local.spec]

(* Mutant: an existing resource is left as it is.                          *)
CreateOnly(x) == IF res[x].phase = "live" THEN res ELSE [res EXCEPT ![x] = Rendered]

(* Create, or read the existing object's version and replace it.           *)
Replace(x) == [res EXCEPT ![x] = Rendered]

createOrUpdate(x) ==
  /\ pc = "apply" /\ x \in todo \ {Partials}
  /\ res' = Replace(x)
  /\ failed' = failed \ {x}
  /\ Continue(x)
  /\ UNCHANGED <<krLog, cmLog, npLog, used, carried, reverted, adopted, staleRead, lost>>

(* Mutants: the partials are skipped whether they exist or not, or never.  *)
SkipAlways(c) == TRUE
SkipNever(c) == FALSE

(* The partials are skipped if the cache shows them, whoever owns them.    *)
Skip(c) == c.phase = "live"

GetPartials ==
  LET c == Cached(cmLog)[Self]
  IN  /\ pc = "apply" /\ Partials \in todo
      /\ \/ /\ Skip(c)
            /\ adopted' = (c.phase = "live" /\ c.owner # local.uid)
            /\ failed' = failed \ {Partials}
            /\ Continue(Partials)
            /\ UNCHANGED staleRead
         \/ /\ ~Skip(c)
            /\ pc' = "createPartials"
            /\ staleRead' = (staleRead \/ (c.phase = "absent" /\ Installed.phase = "live"))
            /\ UNCHANGED <<todo, local, queue, adopted, failed>>
      /\ UNCHANGED <<krLog, cmLog, npLog, res, used, carried, reverted, lost>>

(* createOrUpdate of the partials: by now they may exist.  An update that  *)
(* changes nothing is not a write.                                         *)
CreatePartials ==
  LET o == Installed
  IN  /\ pc = "createPartials"
      /\ cmLog' = IF o.phase = "live" /\ o.owner = local.uid /\ o.data = {ChartRoute} THEN cmLog
                  ELSE Put(cmLog, Self, [phase |-> "live", rv |-> o.rv + 1, owner |-> local.uid,
                                         data |-> {ChartRoute}])
      /\ lost' = (lost \/ (o.phase = "live" /\ o.data # {ChartRoute}))
      /\ adopted' = FALSE
      /\ failed' = failed \ {Partials}
      /\ Continue(Partials)
      /\ UNCHANGED <<krLog, npLog, res, used, carried, reverted, staleRead>>

(* createOrUpdate fails: Reconcile reports an event and goes on.           *)
ApplyFails(x) ==
  /\ \/ pc = "apply" /\ x \in todo \ {Partials}
     \/ pc = "createPartials" /\ x = Partials
  /\ Spend("fault")
  /\ failed' = failed \cup {x}
  /\ Continue(x)
  /\ UNCHANGED <<krLog, cmLog, npLog, res, carried, reverted, adopted, staleRead, lost>>

(* The policy is created if the cache lacks it and replaced otherwise; an  *)
(* error is returned.                                                      *)
ensureKrakendNetpol ==
  LET c == Cached(npLog)
      o == Stored(npLog)
      np == [phase |-> "live", owner |-> local.uid]
  IN  /\ pc = "netpol"
      /\ \/ /\ c.phase = o.phase
            /\ npLog' = IF o = np THEN npLog ELSE Append(npLog, np)
            /\ pc' = "updateStatus"
            /\ UNCHANGED <<local, todo, queue>>
         \/ c.phase # o.phase /\ Fail /\ UNCHANGED npLog
      /\ UNCHANGED <<krLog, cmLog, res, used, history>>

(* The status is written with the copy read first; if the Krakend has      *)
(* changed since, the update is refused.                                   *)
UpdateStatus ==
  /\ pc = "updateStatus"
  /\ \/ /\ Current.phase = "live" /\ Current.rv = local.rv
        /\ krLog' = Put(krLog, Self, [local EXCEPT !.hash = hash(local.spec), !.rv = @ + 1])
        /\ Done
     \/ /\ Current.phase = "absent" \/ Current.rv # local.rv
        /\ Fail /\ UNCHANGED krLog
  /\ UNCHANGED <<cmLog, npLog, res, used, history>>

Reconcile ==
  \/ \E x \in Resources : createOrUpdate(x)
  \/ GetPartials \/ CreatePartials \/ ensureKrakendNetpol \/ UpdateStatus

-----------------------------------------------------------------------------
(* A call that is not createOrUpdate fails.                                *)
Fault ==
  /\ pc \in {"netpol", "updateStatus"} \/ (pc = "apply" /\ Partials \in todo)
  /\ Spend("fault")
  /\ Fail
  /\ UNCHANGED <<krLog, cmLog, npLog, res, history>>

Restart ==
  /\ Spend("restart")
  /\ krLog' = Relist(krLog) /\ cmLog' = Relist(cmLog) /\ npLog' = Relist(npLog)
  /\ queue' = (Current.phase = "live")
  /\ Return
  /\ UNCHANGED <<res, history>>

Resync ==
  /\ Spend("resync")
  /\ queue' = (queue \/ Cached(krLog)[Self].phase = "live")
  /\ UNCHANGED <<krLog, cmLog, npLog, res, workVars, history>>

(* For(&Krakend{}): only events about the Krakend are queued.              *)
ObserveKrakend ==
  /\ Len(krLog) > 1 /\ krLog' = Deliver(krLog)
  /\ queue' = (queue \/ Self \in Notified(krLog))
  /\ UNCHANGED <<cmLog, npLog, res, workVars, used, history>>

ObservePartials ==
  /\ Len(cmLog) > 1 /\ cmLog' = Deliver(cmLog)
  /\ UNCHANGED <<krLog, npLog, res, queue, workVars, used, history>>

ObserveNetpol ==
  /\ Len(npLog) > 1 /\ npLog' = Deliver(npLog)
  /\ UNCHANGED <<krLog, cmLog, res, queue, workVars, used, history>>

(* The ApiEndpoints controller publishes routes in the partials it reads   *)
(* from the cache.                                                         *)
Publish(n, s) ==
  LET k == Cached(krLog)[Self]
      new == parseKrakendEndpointsSpec(k.spec, n, s)
  IN  /\ k.phase = "live" /\ Cached(cmLog)[Self].phase = "live"
      /\ Installed.rv = Cached(cmLog)[Self].rv /\ Installed.data # new
      /\ Spend("op")
      /\ cmLog' = Put(cmLog, Self, [Installed EXCEPT !.data = new, !.rv = @ + 1])
      /\ UNCHANGED <<krLog, npLog, res, queue, workVars, history>>

(* Users write Krakends; neither webhook nor finalizer is involved.        *)
UserApply(s) ==
  LET o == Current
      new == o.phase = "absent"
  IN  /\ Spend("krakendOp") /\ s # o.spec
      /\ krLog' = Put(krLog, Self,
           [phase |-> "live", rv |-> o.rv + 1, uid |-> IF new THEN o.uid + 1 ELSE o.uid,
            spec |-> s, hash |-> IF new THEN None ELSE o.hash])
      /\ carried' = IF new THEN {s} ELSE carried \cup {s}
      /\ reverted' = (~new /\ (reverted \/ s \in carried))
      /\ UNCHANGED <<cmLog, npLog, res, queue, workVars, failed, adopted, staleRead, lost>>

UserDelete ==
  /\ Spend("krakendOp") /\ Current.phase = "live"
  /\ krLog' = Put(krLog, Self, GoneKrakend(Current))
  /\ UNCHANGED <<cmLog, npLog, res, queue, workVars, history>>

(* The garbage collector deletes what another incarnation owns.            *)
Orphan(o) == o.phase = "live" /\ (Current.phase = "absent" \/ Current.uid # o.owner)

GcResource(x) ==
  /\ Orphan(res[x]) /\ Spend("gc")
  /\ res' = [res EXCEPT ![x] = Absent]
  /\ UNCHANGED <<krLog, cmLog, npLog, queue, workVars, history>>

GcPartials ==
  /\ Orphan(Installed) /\ Spend("gc")
  /\ cmLog' = Put(cmLog, Self, [Installed EXCEPT !.phase = "absent", !.rv = @ + 1, !.data = {}])
  /\ UNCHANGED <<krLog, npLog, res, queue, workVars, history>>

GcNetpol ==
  /\ Orphan(Stored(npLog)) /\ Spend("gc")
  /\ npLog' = Append(npLog, [phase |-> "absent", owner |-> 0])
  /\ UNCHANGED <<krLog, cmLog, res, queue, workVars, history>>

Environment ==
  \/ \E s \in KSpecs : UserApply(s)
  \/ UserDelete
  \/ \E x \in Resources \cup {Partials} : ApplyFails(x)
  \/ Fault \/ Restart \/ Resync
  \/ ObserveKrakend \/ ObservePartials \/ ObserveNetpol
  \/ \E n \in Names, s \in ESpecs : Publish(n, s)
  \/ \E x \in Resources : GcResource(x)
  \/ GcPartials \/ GcNetpol

-----------------------------------------------------------------------------
Init ==
  /\ krLog = <<[k \in Krakends |-> [NoKrakend EXCEPT !.rv = 1, !.uid = 1]]>>
  /\ cmLog = <<[k \in Krakends |-> NoConfigMap]>>
  /\ npLog = <<[phase |-> "absent", owner |-> 0]>>
  /\ res = [x \in Resources |-> Absent]
  /\ queue = FALSE
  /\ pc = "idle" /\ local = NoKrakend /\ todo = {}
  /\ used = [kind \in BoundKinds |-> 0]
  /\ failed = {} /\ carried = {} /\ reverted = FALSE /\ adopted = FALSE
  /\ staleRead = FALSE /\ lost = FALSE

Next == (\E outside \in BOOLEAN : Start(outside)) \/ Reconcile \/ Environment

Spec == Init /\ [][Next]_vars

-----------------------------------------------------------------------------
TypeOK ==
  /\ krLog \in Seq([Krakends -> Krakend]) /\ krLog # <<>>
  /\ cmLog \in Seq([Krakends -> ConfigMap]) /\ cmLog # <<>>
  /\ npLog \in Seq([phase : {"absent", "live"}, owner : Nat]) /\ npLog # <<>>
  /\ res \in [Resources -> Resource]
  /\ queue \in BOOLEAN
  /\ pc \in {"idle", "apply", "createPartials", "netpol", "updateStatus"}
  /\ local \in Krakend
  /\ pc # "idle" => local.phase = "live" /\ local.spec \in KSpecs \ NoHost
  /\ todo \subseteq Resources \cup {Partials}
  /\ pc = "apply" => todo # {}
  /\ pc = "createPartials" => Partials \in todo
  /\ pc \in {"idle", "netpol", "updateStatus"} => todo = {}
  /\ used \in [BoundKinds -> Nat]
  /\ failed \subseteq Resources \cup {Partials}
  /\ carried \subseteq KSpecs
  /\ {reverted, adopted, staleRead, lost} \subseteq BOOLEAN

Quiescent == pc = "idle" /\ ~queue /\ Len(krLog) = 1

(* When nothing is left to reconcile, every rendered resource is that of   *)
(* the stored spec and belongs to this incarnation of the Krakend, so that *)
(* no spec is lost to a stale copy, a conflict or a restart (lines 73-85   *)
(* and 176-181).  Excused are resources whose createOrUpdate failed (lines *)
(* 163-166) and a Krakend that got back a spec it had before: its status   *)
(* may still hold that spec's hash.                                        *)
Applied ==
  Quiescent /\ Current.phase = "live" /\ ~reverted =>
    \A x \in Resources \ failed :
      res[x] = [phase |-> "live", owner |-> Current.uid, spec |-> Current.spec]

(* ... and the partials ConfigMap exists and is not about to be collected, *)
(* unless Reconcile found that of an earlier incarnation (line 154 does    *)
(* not look at the owner) or could not create it.                          *)
PartialsInstalled ==
  Quiescent /\ Current.phase = "live" =>
    \/ adopted
    \/ Partials \in failed
    \/ Installed.phase = "live" /\ Installed.owner = Current.uid

(* Reconcile overwrites published routes only if it had read a cache that  *)
(* did not show the ConfigMap yet (lines 143-157).                         *)
RoutesLostByStaleReadOnly == lost => staleRead

-----------------------------------------------------------------------------
(* What a comment says and the code does not keep.                         *)

(* "skip updating partials configmap if it already exists to avoid         *)
(* deleting existing apiendpoints" (lines 152-153).                        *)
RoutesKept == ~lost
=============================================================================
