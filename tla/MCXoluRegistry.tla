--------------------------- MODULE MCXoluRegistry ---------------------------
(***************************************************************************)
(* XoluRegistry with two concurrent callers, one GlobalID, two owners and  *)
(* a subscriber with room for one event.                                   *)
(***************************************************************************)
EXTENDS XoluRegistry, TLC

ref(instance, tenant, name) ==
    [instance |-> instance, tenant |-> tenant, name |-> name, local |-> 1]

MCLocalRefs == {ref("a", 1, "acme"), ref("b", 1, "")}

MCSymmetry == Permutations(Callers)
=============================================================================
