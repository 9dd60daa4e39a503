--------------------------- MODULE MCXoluHotswap ---------------------------
(***************************************************************************)
(* Hotswaps of one tenant, tenant 1 on instance a, to instance b.          *)
(***************************************************************************)
EXTENDS XoluHotswap, TLC

CONSTANTS g1, g2

ref(instance, tenant, name) ==
    [instance |-> instance, tenant |-> tenant, name |-> name, local |-> 1]

MCLocalRefs == {ref("a", 1, "acme"), ref("b", 2, "")}

Outward == {[source |-> [instance |-> "a", tenant |-> 1, name |-> "acme"],
             target |-> [instance |-> "b", tenant |-> 2, name |-> "acme"]]}

OneEntity == g1 :> NewRecord(ref("a", 1, "acme"))

TwoEntities == OneEntity @@ (g2 :> NewRecord(ref("a", 1, "acme")))
=============================================================================
