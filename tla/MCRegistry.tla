----------------------------- MODULE MCRegistry -----------------------------
(***************************************************************************)
(* Registry on two GlobalIDs of different types, two owners and one        *)
(* channel with room for two events: three changes without a Receive       *)
(* overflow it, and it may be cancelled and subscribed again.              *)
(***************************************************************************)
EXTENDS Registry, TLC

CONSTANTS g1, g2

ref(instance, tenant, name) ==
    [instance |-> instance, tenant |-> tenant, name |-> name, local |-> 1]

MCLocalRefs == {ref("a", 1, "acme"), ref("b", 1, "")}

MCTypeOf == (g1 :> "devices") @@ (g2 :> "shelves")

filter(gids, types) == [gids |-> gids, types |-> types]

MCFilters == {filter({}, {}), filter({g1}, {}), filter({}, {"shelves"})}
=============================================================================
