---------------------------- MODULE ClusterProofs ----------------------------
(***************************************************************************)
(* What the log operators of Cluster do, for every log: the facts the      *)
(* proofs about the webhook and the controller rest on.                    *)
(***************************************************************************)
EXTENDS Cluster, TLAPS

(* A delivered event drops the oldest snapshot; the store does not change. *)
LEMMA DeliverFacts ==
  ASSUME NEW Keys, NEW Objs, NEW log \in Seq([Keys -> Objs]), Len(log) > 1
  PROVE  /\ Deliver(log) \in Seq([Keys -> Objs])
         /\ Deliver(log) # <<>>
         /\ Len(Deliver(log)) = Len(log) - 1
         /\ \A i \in 1..(Len(log) - 1) : Deliver(log)[i] = log[i + 1]
         /\ Stored(Deliver(log)) = Stored(log)
         /\ Cached(Deliver(log)) = log[2]
  BY DEF Deliver, Stored, Cached

(* After a restart cache and store agree.                                  *)
LEMMA RelistFacts ==
  ASSUME NEW Keys, NEW Objs, NEW log \in Seq([Keys -> Objs]), log # <<>>
  PROVE  /\ Relist(log) \in Seq([Keys -> Objs])
         /\ Relist(log) # <<>>
         /\ Len(Relist(log)) = 1
         /\ Relist(log)[1] = Stored(log)
         /\ Stored(Relist(log)) = Stored(log)
         /\ Cached(Relist(log)) = Stored(log)
<1>1. Stored(log) \in [Keys -> Objs]
  BY DEF Stored
<1>2. QED
  BY <1>1 DEF Relist, Stored, Cached

(* Store and cache are snapshots of the log.                               *)
LEMMA LogFacts ==
  ASSUME NEW Keys, NEW Objs, NEW log \in Seq([Keys -> Objs]), log # <<>>
  PROVE  /\ Len(log) \in Nat \ {0}
         /\ 1 \in 1..Len(log) /\ Len(log) \in 1..Len(log)
         /\ \A i \in 1..Len(log) : log[i] \in [Keys -> Objs]
         /\ Stored(log) \in [Keys -> Objs]
         /\ Cached(log) \in [Keys -> Objs]
  BY DEF Stored, Cached

(* The log after events were delivered, or after a restart: what remains   *)
(* is the end of it.                                                       *)
Follows(new, log) == \/ new = log
                     \/ Len(log) > 1 /\ new = Deliver(log)
                     \/ new = Relist(log)

LEMMA FollowsFacts ==
  ASSUME NEW S, NEW log \in Seq(S), log # <<>>, NEW new, Follows(new, log)
  PROVE  /\ new \in Seq(S) /\ new # <<>>
         /\ Stored(new) = Stored(log)
         /\ \E d \in Nat : /\ d < Len(log) /\ Len(new) = Len(log) - d
                           /\ \A i \in 1..Len(new) : i + d \in 1..Len(log) /\ new[i] = log[i + d]
<1>0. Len(log) \in Nat \ {0} /\ Stored(log) = log[Len(log)] /\ Stored(log) \in S
  BY DEF Stored
<1>1. CASE new = log
  <2>1. \A i \in 1..Len(new) : i + 0 \in 1..Len(log) /\ new[i] = log[i + 0]
    BY <1>0, <1>1
  <2>2. 0 \in Nat /\ 0 < Len(log) /\ Len(new) = Len(log) - 0
    BY <1>0, <1>1
  <2>3. QED
    BY <1>1, <2>1, <2>2
<1>2. CASE Len(log) > 1 /\ new = Deliver(log)
  <2>1. new \in Seq(S) /\ Len(new) = Len(log) - 1
    BY <1>0, <1>2 DEF Deliver
  <2>2. \A i \in 1..Len(new) : i + 1 \in 1..Len(log) /\ new[i] = log[i + 1]
    BY <1>0, <1>2, <2>1 DEF Deliver
  <2>3. new # <<>> /\ Stored(new) = Stored(log)
    BY <1>0, <1>2, <2>1, <2>2 DEF Stored
  <2>4. QED
    BY <1>0, <1>2, <2>1, <2>2, <2>3
<1>3. CASE new = Relist(log)
  <2>1. /\ new = <<Stored(log)>> /\ new \in Seq(S) /\ Len(new) = 1
        /\ new[1] = Stored(log) /\ new # <<>> /\ Stored(new) = Stored(log)
    BY <1>0, <1>3 DEF Relist, Stored
  <2> DEFINE d == Len(log) - 1
  <2>2. d \in Nat /\ d < Len(log) /\ Len(new) = Len(log) - d
    BY <1>0, <2>1
  <2>3. \A i \in 1..Len(new) : i + d \in 1..Len(log) /\ new[i] = log[i + d]
    BY <1>0, <2>1
  <2>4. QED
    BY <2>1, <2>2, <2>3
<1>4. QED
  BY <1>1, <1>2, <1>3 DEF Follows

(* A write appends a snapshot.                                             *)
LEMMA AppendFacts ==
  ASSUME NEW S, NEW log \in Seq(S), log # <<>>, NEW snap \in S
  PROVE  LET new == Append(log, snap)
         IN  /\ new \in Seq(S) /\ new # <<>>
             /\ Len(new) = Len(log) + 1
             /\ \A i \in 1..Len(log) : new[i] = log[i]
             /\ new[Len(log) + 1] = snap
             /\ Stored(new) = snap
             /\ Cached(new) = Cached(log)
  BY DEF Stored, Cached

LEMMA PutFacts ==
  ASSUME NEW S, NEW log \in Seq(S), log # <<>>, NEW key, NEW obj,
         [Stored(log) EXCEPT ![key] = obj] \in S
  PROVE  /\ Put(log, key, obj) \in Seq(S) /\ Put(log, key, obj) # <<>>
         /\ Len(Put(log, key, obj)) = Len(log) + 1
         /\ \A i \in 1..Len(log) : Put(log, key, obj)[i] = log[i]
         /\ Put(log, key, obj)[Len(log) + 1] = [Stored(log) EXCEPT ![key] = obj]
         /\ Stored(Put(log, key, obj)) = [Stored(log) EXCEPT ![key] = obj]
         /\ Cached(Put(log, key, obj)) = Cached(log)
<1> DEFINE snap == [Stored(log) EXCEPT ![key] = obj]
<1>1. snap \in S /\ Put(log, key, obj) = Append(log, snap)
  BY DEF Put
<1>2. LET new == Append(log, snap)
      IN  /\ new \in Seq(S) /\ new # <<>>
          /\ Len(new) = Len(log) + 1
          /\ \A i \in 1..Len(log) : new[i] = log[i]
          /\ new[Len(log) + 1] = snap
          /\ Stored(new) = snap
          /\ Cached(new) = Cached(log)
  <2> HIDE DEF snap
  <2> QED BY <1>1, AppendFacts
<1>3. QED
  BY <1>1, <1>2
=============================================================================
