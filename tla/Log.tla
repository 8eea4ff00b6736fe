-------------------------------- MODULE Log --------------------------------
(***************************************************************************)
(* What the API server stores of one kind of object and what the informer  *)
(* cache of the operator's manager shows of it (external code): a log, a   *)
(* non-empty sequence of snapshots.  The last snapshot is what is stored,  *)
(* the first is what r.Get and r.List read, and the ones in between are    *)
(* watch events still to be delivered.  A write appends, a delivered event *)
(* drops the head, a restarted manager lists what is stored.               *)
(***************************************************************************)
EXTENDS Naturals, Sequences

Cached(log) == log[1]
Stored(log) == log[Len(log)]
Deliver(log) == Tail(log)
Relist(log) == <<Stored(log)>>

(* Snapshots that map keys to objects: a write changes one of them.        *)
Put(log, key, obj) == Append(log, [Stored(log) EXCEPT ![key] = obj])

(* The keys whose cached object changes when the next event is delivered.  *)
Notified(log) == {key \in DOMAIN log[1] : log[2][key] # log[1][key]}
=============================================================================
