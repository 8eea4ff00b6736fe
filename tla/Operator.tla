------------------------------- MODULE Operator -------------------------------
(***************************************************************************)
(* cmd/main.go: the manager that runs both reconcilers and the webhook in  *)
(* one process.  The ApiEndpoints controller is extended, the Krakend      *)
(* controller instantiated for the Krakend Self; they share the stored     *)
(* objects, the informer caches (one log per kind) and the fate of the     *)
(* process.  Here Krakends are created, changed, deleted and created again *)
(* while ApiEndpoints come and go, and the partials ConfigMap is written   *)
(* by both controllers.                                                    *)
(***************************************************************************)
EXTENDS ApiEndpointsController

CONSTANTS Self, NoHost, Resources      \* see KrakendController

ASSUME OperatorAssumption ==
  Self \in Krakends /\ NoHost \subseteq KSpecs /\ "partials" \notin Resources

VARIABLES
  kNpLog, res, kQueue, kPc, kLocal, todo,                      \* of the Krakend controller
  failed, kCarried, kReverted, adopted, staleRead, lost,       \* and its history
  misplaced    \* history: the ApiEndpoints controller last published routes in
               \* the partials of another incarnation of the Krakend

K == INSTANCE KrakendController WITH
       npLog <- kNpLog, queue <- kQueue, pc <- kPc, local <- kLocal,
       carried <- kCarried, reverted <- kReverted

(* What only one of the controllers, or only the users, change.            *)
krakendOnly == <<kNpLog, res, kQueue, kPc, kLocal, todo, failed, kCarried, kReverted,
                 adopted, staleRead, lost>>
endpointsOnly == <<epsLog, inflight, history, npLog, queue, workVars, misplaced>>
usersOnly == <<cmLog, npLog, queue, workVars, krakendOnly, misplaced>>

operatorVars == <<vars, krakendOnly, misplaced>>

-----------------------------------------------------------------------------
EndpointsWorker ==
  /\ Reconcile
  /\ misplaced' = IF pc = "updateConfigMap" /\ pc' # "idle" THEN cm.owner # krakCopy.uid
                  ELSE misplaced
  /\ UNCHANGED krakendOnly

KrakendWorker == K!Reconcile /\ UNCHANGED endpointsOnly

(* Each controller has a worker of its own.                                *)
Workers ==
  \/ \E n \in Names, outside \in BOOLEAN : Start(n, outside) /\ UNCHANGED <<krakendOnly, misplaced>>
  \/ \E outside \in BOOLEAN : K!Start(outside) /\ UNCHANGED endpointsOnly
  \/ EndpointsWorker
  \/ KrakendWorker

Faults ==
  \/ (Fault \/ Resync) /\ UNCHANGED <<krakendOnly, misplaced>>
  \/ (K!Fault \/ K!Resync) /\ UNCHANGED endpointsOnly
  \/ \E x \in Resources \cup {K!Partials} : K!ApplyFails(x) /\ UNCHANGED endpointsOnly

(* One process: both controllers restart, on caches listed anew.           *)
RestartManager == Restart /\ K!Restart /\ UNCHANGED misplaced

(* One cache: an event reaches both controllers.                           *)
Deliveries ==
  \/ ObserveEndpoints /\ UNCHANGED <<krakendOnly, misplaced>>
  \/ ObserveKrakends /\ K!ObserveKrakend /\ UNCHANGED misplaced
  \/ ObserveConfigMaps /\ K!ObservePartials /\ UNCHANGED misplaced
  \/ ObserveNetpols /\ UNCHANGED <<krakendOnly, misplaced>>
  \/ K!ObserveNetpol /\ UNCHANGED endpointsOnly

StoreAdmitted ==
  /\ \E w \in inflight : Commit(w)
  /\ UNCHANGED usersOnly

Users ==
  \/ /\ \/ \E n \in Names, s \in ESpecs : UserApply(n, s)
        \/ \E n \in Names : UserDelete(n)
     /\ UNCHANGED usersOnly
  \/ StoreAdmitted
  \/ ((\E s \in KSpecs : K!UserApply(s)) \/ K!UserDelete) /\ UNCHANGED endpointsOnly

GarbageCollector ==
  \/ /\ \E n \in Names : GcEndpoints(n)
     /\ UNCHANGED usersOnly
  \/ \E key \in NetpolKeys : GcNetpol(key) /\ UNCHANGED <<krakendOnly, misplaced>>
  \/ (K!GcPartials \/ K!GcNetpol \/ \E x \in Resources : K!GcResource(x)) /\ UNCHANGED endpointsOnly

(* The Krakend does not exist, or it is installed.                         *)
OperatorInit ==
  /\ Init
  /\ LET k == Stored(krLog)[Self]
     IN  /\ k.spec \notin NoHost
         /\ kNpLog = <<[phase |-> IF NetpolEnabled THEN k.phase ELSE "absent", owner |-> k.uid]>>
         /\ res = [x \in Resources |-> [phase |-> k.phase, owner |-> k.uid, spec |-> k.spec]]
         /\ kCarried = {k.spec} \ {None}
  /\ kQueue = FALSE /\ kPc = "idle" /\ kLocal = NoKrakend /\ todo = {}
  /\ failed = {} /\ kReverted = FALSE /\ adopted = FALSE /\ staleRead = FALSE /\ lost = FALSE
  /\ misplaced = FALSE

OperatorNext ==
  Workers \/ Faults \/ RestartManager \/ Deliveries \/ Users \/ GarbageCollector

(* As for each controller alone: both workers run, watches deliver, the    *)
(* API server answers.  Nothing is assumed of the garbage collector.       *)
OperatorFairness ==
  /\ WF_operatorVars(\/ \E n \in Names : Start(n, FALSE) /\ UNCHANGED <<krakendOnly, misplaced>>
                     \/ EndpointsWorker)
  /\ WF_operatorVars((K!Start(FALSE) \/ K!Reconcile) /\ UNCHANGED endpointsOnly)
  /\ WF_operatorVars(Deliveries)
  /\ WF_operatorVars(StoreAdmitted)

OperatorSpec == OperatorInit /\ [][OperatorNext]_operatorVars /\ OperatorFairness

-----------------------------------------------------------------------------
(* Neither controller has anything to do and no ApiEndpoints waits for the *)
(* garbage collector.                                                      *)
AtRest ==
  /\ Quiescent /\ K!Quiescent
  /\ \A n \in Names : LET o == Stored(epsLog)[n].owner IN o = None \/ KrakendExists(o)

(* The Krakend exists, can be rendered, and its partials were neither      *)
(* taken over from an earlier incarnation nor impossible to create.        *)
Installable ==
  /\ K!Current.phase = "live" /\ K!Current.spec \notin NoHost
  /\ ~adopted /\ K!Partials \notin failed

(* When both controllers rest, the gateway of an installable Krakend reads *)
(* partials that hold exactly the routes the stored ApiEndpoints ask for,  *)
(* whichever controller wrote them last: the Krakend controller creates    *)
(* them (krakend_controller.go, lines 140-160), the other fills them       *)
(* (apiendpoints_controller.go, 282-330), and neither undoes the other,    *)
(* except through the stale read that RoutesLostByStaleReadOnly isolates.  *)
(* With policies only synchronized ApiEndpoints count: an error there ends *)
(* Reconcile for good (apiendpoints_controller.go, line 137).              *)
GatewayServes ==
  AtRest /\ Installable /\ ~lost /\ ~misplaced =>
    /\ Serving(Self)
    /\ \A n \in Names \ (unguarded \cup reverted) :
         LET e == Stored(epsLog)[n]
         IN  e.phase = "absent" \/ InSync(e) \/ ~NetpolEnabled => Published(n, Self) = Wanted(n)


=============================================================================
