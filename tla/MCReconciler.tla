---------------------------- MODULE MCReconciler ----------------------------
(***************************************************************************)
(* Specs that make the reconciler create, update, replace and prune: a     *)
(* StatefulSet with an autoscaler, the same StatefulSet with another       *)
(* immutable field and another autoscaler, a DaemonSet instead, and an     *)
(* instance that is not managed.                                           *)
(***************************************************************************)
EXTENDS Reconciler

CONSTANTS statefulSet, daemonSet, hpa, u1, u2, u3, u4, u5, u6

MCObject == {statefulSet, daemonSet, hpa}

MCListed == {statefulSet, daemonSet}

MCWorkload == {statefulSet, daemonSet}

MCUID == {u1, u2, u3, u4, u5, u6}

MCSpecs == {"scaled", "replaced", "daemon", "unmanaged"}

MCManaged == MCSpecs \ {"unmanaged"}

V(selector, body) == [selector |-> selector, body |-> body]

MCDesired ==
    [s \in MCSpecs |->
        CASE s = "scaled"   -> [o \in {statefulSet, hpa} |-> V("a", "a")]
          [] s = "replaced" -> [o \in {statefulSet, hpa} |->
                                   IF o = hpa THEN V("a", "b") ELSE V("b", "b")]
          [] OTHER          -> [o \in {daemonSet} |-> V("a", "b")]]

MCStatusOf ==
    [s \in MCSpecs |-> IF s \in {"scaled", "replaced"} THEN statefulSet ELSE NoObject]
=============================================================================
