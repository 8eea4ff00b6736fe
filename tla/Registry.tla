------------------------------- MODULE Registry -------------------------------
(***************************************************************************)
(* What the operator promises its users about an ApiEndpoints and the      *)
(* gateway, without caches, reconciles, conflicts or restarts: an object   *)
(* that the operator holds (its finalizer is set) leaves only when the     *)
(* gateway does not serve it any more, and what the gateway serves exists. *)
(* Objects deleted before the operator holds them are the exception the    *)
(* promise names: they may be served for ever (orphans).                   *)
(*                                                                         *)
(* ApiEndpointsController implements this for one Krakend.                 *)
(***************************************************************************)
CONSTANT Names

VARIABLES state,     \* per name: absent, loose, held, or leaving (being deleted)
          served,    \* names with a route in the gateway
          orphans    \* absent names nobody will withdraw

registryVars == <<state, served, orphans>>

RegistryInit ==
  /\ state = [n \in Names |-> "absent"]
  /\ served = {} /\ orphans = {}

Create(n) ==
  /\ state[n] = "absent" /\ state' = [state EXCEPT ![n] = "loose"]
  /\ orphans' = orphans \ {n}
  /\ UNCHANGED served

Hold(n) ==
  /\ state[n] = "loose" /\ state' = [state EXCEPT ![n] = "held"]
  /\ UNCHANGED <<served, orphans>>

Delete(n) ==
  /\ \/ /\ state[n] = "loose" /\ state' = [state EXCEPT ![n] = "absent"]
        /\ orphans' = orphans \cup {n}
     \/ /\ state[n] = "held" /\ state' = [state EXCEPT ![n] = "leaving"]
        /\ UNCHANGED orphans
  /\ UNCHANGED served

Release(n) ==
  /\ state[n] = "leaving" /\ n \notin served
  /\ state' = [state EXCEPT ![n] = "absent"]
  /\ UNCHANGED <<served, orphans>>

(* The gateway's routes are replaced; without a Krakend it serves none.    *)
Serve ==
  /\ served' \in SUBSET (orphans \cup {n \in Names : state[n] # "absent"})
  /\ UNCHANGED <<state, orphans>>

RegistryNext ==
  \/ \E n \in Names : Create(n) \/ Hold(n) \/ Delete(n) \/ Release(n)
  \/ Serve

RegistrySpec == RegistryInit /\ [][RegistryNext]_registryVars
=============================================================================
