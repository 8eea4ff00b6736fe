------------------------------ MODULE Migration ------------------------------
(***************************************************************************)
(* pkg/migration: ConvertKrakends, run beside the operator, and what its   *)
(* output owes to the state the operator keeps.                            *)
(***************************************************************************)
EXTENDS ApiEndpointsController, MigrationParse

Convert(name, k, snap) == ToPartialsConfig(k, Owned(name, k, snap))

(* Krakends and ApiEndpoints are listed one after the other, so krs may be *)
(* older than eps; the error of one Krakend is that of all.                *)
ConvertKrakends(krs, eps) ==
  LET live == {k \in DOMAIN krs : krs[k].phase = "live"}
  IN  IF \E k \in live : Convert(k, krs[k], eps) = None THEN None
      ELSE [k \in live |-> Convert(k, krs[k], eps)]

(* At every moment, also in the middle of a reconcile, the migrated        *)
(* partials of a Krakend hold the routes its gateway serves for every      *)
(* ApiEndpoints that is marked as synchronized, and none for one that is   *)
(* gone; without network policies, at rest, for all.  The tool goes by the *)
(* owner references the controller sets before the mark (app.go, lines     *)
(* 32-39), the operator by the namespace, and the Krakends were listed at  *)
(* some earlier moment (migration.go, lines 17-26).  Not covered is an     *)
(* ApiEndpoints whose policy failed: the controller gives up without error *)
(* (apiendpoints_controller.go, line 137) before it sets the owner, and    *)
(* the tool leaves out routes that are served.  Excused as in Converged.   *)
MigrationFaithful ==
  \A i \in DOMAIN krLog :
    LET out == ConvertKrakends(krLog[i], Stored(epsLog))
    IN  out # None => \A k \in DOMAIN out : Serving(k) =>
          \A n \in Names \ (unguarded \cup reverted) :
            LET e == Stored(epsLog)[n]
            IN  e.phase = "absent" \/ InSync(e) \/ (Quiescent /\ ~NetpolEnabled)
                  => {OwnPart(r) : r \in {x \in out[k] : x.src = n}} = Published(n, k)
=============================================================================
