------------------------------ MODULE Admission ------------------------------
(***************************************************************************)
(* internal/webhook/apiendpoints_webhook.go: the validating webhook for    *)
(* ApiEndpoints, together with the users whose requests it judges and the  *)
(* API server that stores the admitted ones.                               *)
(*                                                                         *)
(* A request is judged on the manager's caches and committed later:        *)
(* between the two other requests may be judged or committed.  What the    *)
(* ApiEndpoints controller does to the stored objects is the abstract      *)
(* ControllerWrites; ApiEndpointsController implements it.                 *)
(***************************************************************************)
EXTENDS Cluster

CONSTANT Bound        \* how often each bounded kind of event may happen

BoundKinds == {"op", "krakendOp", "fault", "restart", "resync", "gc"}

ASSUME BoundAssumption == Bound \in [BoundKinds -> Nat]

VARIABLES
  epsLog,      \* log of the ApiEndpoints in the namespace
  krLog,       \* log of the Krakends in the namespace
  inflight,    \* admitted writes that are not yet committed
  used,        \* how many events of each bounded kind have happened
  \* History variables:
  unseen,      \* per name, the others whose current spec the admission of the
               \* name's last write had not seen when it was stored
  unguarded,   \* names whose last incarnation left without a finalizer
  carried,     \* the specs each name has ever carried
  reverted     \* names that were given a spec they had carried before

history == <<unseen, unguarded, carried, reverted>>
admissionVars == <<epsLog, krLog, inflight, used, history>>

Spend(kind) == /\ used[kind] < Bound[kind]
               /\ used' = [used EXCEPT ![kind] = @ + 1]

-----------------------------------------------------------------------------
(* The webhook's decision.                                                 *)

validateAuth(k, auth) == \E i \in DOMAIN k.authProviders : k.authProviders[i].name = auth.name

(* The paths of a spec, authenticated endpoints first.                     *)
Paths(spec) == [i \in 1..(Len(spec.endpoints) + Len(spec.openEndpoints)) |->
                  (spec.endpoints \o spec.openEndpoints)[i].path]

(* Two specs list the same path, or one spec lists a path twice.           *)
Collide(s, t) == \E i \in DOMAIN Paths(s), j \in DOMAIN Paths(t) : Paths(s)[i] = Paths(t)[j]

Repeats(s) == \E i, j \in DOMAIN Paths(s) : i # j /\ Paths(s)[i] = Paths(s)[j]

(* No path occurs twice in a list of live ApiEndpoints (names to specs).   *)
uniquePaths(items) ==
  \A n \in DOMAIN items :
    /\ ~Repeats(items[n])
    /\ \A m \in DOMAIN items \ {n} : ~Collide(items[n], items[m])

(* Mutant: an object that is listed already is not replaced.               *)
ValidateListedOnly(items, n, spec) ==
  uniquePaths([m \in DOMAIN items \cup {n} |-> IF m \in DOMAIN items THEN items[m] ELSE spec])

(* The listed object with the request's name is replaced by the request.   *)
validateEndpointsList(items, n, spec) ==
  uniquePaths([m \in DOMAIN items \cup {n} |-> IF m = n THEN spec ELSE items[m]])

validate(n, spec) ==
  LET k == Cached(krLog)[krakendName(spec)]
  IN  /\ k.phase = "live"
      /\ validateAuth(k.spec, spec.auth)
      /\ validateEndpointsList(LiveSpecs(Cached(epsLog)), n, spec)

(* An object with a deletion timestamp is allowed without validation.      *)
Handle(n, obj, spec) == obj.phase = "deleting" \/ validate(n, spec)

-----------------------------------------------------------------------------
(* The other live objects, as seen in a snapshot.                          *)
Others(snap, n) ==
  [m \in Names |-> IF m # n /\ snap[m].phase = "live" THEN snap[m].spec ELSE None]

(* A user creates n, or replaces its spec: the API server builds the new   *)
(* object from the stored one and asks the webhook.                        *)
UserApply(n, s) ==
  LET base == Stored(epsLog)[n]
  IN  /\ Spend("op")
      /\ s # base.spec
      /\ Handle(n, base, s)
      /\ inflight' = inflight \cup
           {[name |-> n, spec |-> s, rv |-> base.rv, view |-> Others(Cached(epsLog), n)]}
      /\ UNCHANGED <<epsLog, krLog, history>>

(* The API server stores an admitted write, unless the object has changed  *)
(* since (conflict, or already exists).                                    *)
Commit(req) ==
  LET e == Stored(epsLog)[req.name]
  IN  /\ inflight' = inflight \ {req}
      /\ IF req.rv # e.rv
         THEN UNCHANGED <<epsLog, history>>
         ELSE /\ epsLog' = Put(epsLog, req.name,
                   IF e.phase = "absent" THEN NewEndpoints(e, req.spec)
                   ELSE [e EXCEPT !.spec = req.spec, !.rv = @ + 1])
              /\ unseen' = [unseen EXCEPT ![req.name] =
                   {m \in Names \ {req.name} : req.view[m] # Others(Stored(epsLog), req.name)[m]}]
              /\ unguarded' = unguarded \ {req.name}
              /\ carried' = [carried EXCEPT ![req.name] = @ \cup {req.spec}]
              /\ reverted' = IF req.spec \in carried[req.name]
                             THEN reverted \cup {req.name} ELSE reverted
      /\ UNCHANGED <<krLog, used>>

DeleteEndpoints(n) ==
  LET e == Stored(epsLog)[n]
  IN  /\ e.phase = "live"
      /\ epsLog' = Put(epsLog, n, DeletedEndpoints(e))
      /\ unguarded' = IF e.finalizer THEN unguarded ELSE unguarded \cup {n}
      /\ UNCHANGED <<krLog, inflight, unseen, carried, reverted>>

(* A user deletes n; the webhook is not asked about deletions.             *)
UserDelete(n) == Spend("op") /\ DeleteEndpoints(n)

(* Krakend resources have no webhook and no finalizer.                     *)
KrakendApply(k, s) ==
  LET o == Stored(krLog)[k]
  IN  /\ Spend("krakendOp")
      /\ o.phase = "live" /\ o.spec # s
      /\ krLog' = Put(krLog, k, [o EXCEPT !.spec = s, !.rv = @ + 1])
      /\ UNCHANGED <<epsLog, inflight, history>>

KrakendDelete(k) ==
  LET o == Stored(krLog)[k]
  IN  /\ Spend("krakendOp")
      /\ o.phase = "live"
      /\ krLog' = Put(krLog, k, GoneKrakend(o))
      /\ UNCHANGED <<epsLog, inflight, history>>

KrakendExists(owner) ==
  LET k == Stored(krLog)[owner[1]] IN k.phase = "live" /\ k.uid = owner[2]

(* The garbage collector deletes an ApiEndpoints whose owner is gone.      *)
GcEndpoints(n) ==
  /\ Stored(epsLog)[n].owner # None
  /\ ~KrakendExists(Stored(epsLog)[n].owner)
  /\ DeleteEndpoints(n)
  /\ UNCHANGED used

UserStep ==
  \/ \E n \in Names, s \in ESpecs : UserApply(n, s)
  \/ \E req \in inflight : Commit(req)
  \/ \E n \in Names : UserDelete(n) \/ GcEndpoints(n)
  \/ \E k \in Krakends, s \in KSpecs : KrakendApply(k, s)
  \/ \E k \in Krakends : KrakendDelete(k)

-----------------------------------------------------------------------------
(* Watch events reach the caches; a restarted manager lists everything.    *)
DeliverEndpoints ==
  /\ Len(epsLog) > 1
  /\ epsLog' = Deliver(epsLog)
  /\ UNCHANGED <<krLog, inflight, used, history>>

DeliverKrakends ==
  /\ Len(krLog) > 1
  /\ krLog' = Deliver(krLog)
  /\ UNCHANGED <<epsLog, inflight, used, history>>

RelistCaches ==
  /\ Spend("restart")
  /\ epsLog' = Relist(epsLog)
  /\ krLog' = Relist(krLog)
  /\ UNCHANGED <<inflight, history>>

(* The Krakends that exist or have existed, each with a uid of its own.    *)
Incarnations == UNION {{k} \X (0..Stored(krLog)[k].uid) : k \in Krakends}

(* What the controller may do to the stored ApiEndpoints: write metadata   *)
(* and status without touching the spec, the owner being any Krakend its   *)
(* cache ever showed, or remove its finalizer from an object that is being *)
(* deleted.                                                                *)
ControllerWrites(n) ==
  LET e == Stored(epsLog)[n]
  IN  /\ \/ /\ e.phase # "absent"
            /\ \E f \in {TRUE, e.finalizer},
                  o \in {e.owner} \cup Incarnations,
                  h \in {e.hash} \cup {hashEndpoints(s) : s \in ESpecs} :
                 epsLog' = Put(epsLog, n, [e EXCEPT !.finalizer = f, !.owner = o,
                                                    !.hash = h, !.rv = @ + 1])
         \/ /\ e.phase = "deleting"
            /\ epsLog' = Put(epsLog, n, GoneEndpoints(e.rv + 1, e.uid))
      /\ UNCHANGED <<krLog, inflight, used, history>>

-----------------------------------------------------------------------------
(* The namespace starts without ApiEndpoints; every Krakend either is      *)
(* installed already or does not exist.                                    *)
AdmissionInit ==
  /\ epsLog = <<[n \in Names |-> GoneEndpoints(0, 0)]>>
  /\ \E ks \in [Krakends -> KSpecs \cup {None}] :
       krLog = <<[k \in Krakends |->
                   [phase |-> IF ks[k] = None THEN "absent" ELSE "live",
                    rv |-> 1, uid |-> 1, spec |-> ks[k], hash |-> ks[k]]]>>
  /\ inflight = {}
  /\ used = [kind \in BoundKinds |-> 0]
  /\ unseen = [n \in Names |-> {}]
  /\ unguarded = {}
  /\ carried = [n \in Names |-> {}]
  /\ reverted = {}

AdmissionNext ==
  \/ UserStep
  \/ DeliverEndpoints
  \/ DeliverKrakends
  \/ RelistCaches
  \/ \E n \in Names : ControllerWrites(n)
  \/ /\ \E kind \in {"fault", "resync", "gc"} : Spend(kind)
     /\ UNCHANGED <<epsLog, krLog, inflight, history>>

AdmissionSpec == AdmissionInit /\ [][AdmissionNext]_admissionVars

-----------------------------------------------------------------------------
Request == [name : Names, spec : ESpecs, rv : Nat, view : [Names -> ESpecs \cup {None}]]

AdmissionTypeOK ==
  /\ epsLog \in Seq([Names -> ApiEndpoints]) /\ epsLog # <<>>
  /\ krLog \in Seq([Krakends -> Krakend]) /\ krLog # <<>>
  /\ inflight \subseteq Request
  /\ used \in [BoundKinds -> Nat]
  /\ unseen \in [Names -> SUBSET Names]
  /\ unguarded \subseteq Names
  /\ carried \in [Names -> SUBSET ESpecs]
  /\ reverted \subseteq Names

(* Two stored ApiEndpoints share a path only if the admission of the later *)
(* write of one of them had not seen the other's spec, and no single one   *)
(* repeats a path: what validateEndpointsList guarantees although it reads *)
(* a cache (webhook, lines 78-122).                                        *)
DuplicateOnlyByRace ==
  LET live == LiveSpecs(Stored(epsLog))
  IN  \A n \in DOMAIN live :
        /\ ~Repeats(live[n])
        /\ \A m \in DOMAIN live \ {n} :
             Collide(live[n], live[m]) => m \in unseen[n] \/ n \in unseen[m]

(* A path "must be unique" in a KrakenD instance (apiendpoints_types.go:9): *)
(* not kept, a run shows how two concurrent admissions break it.           *)
UniquePaths == uniquePaths(LiveSpecs(Stored(epsLog)))
=============================================================================
