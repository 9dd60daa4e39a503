-------------------------- MODULE MCHotswapMemory --------------------------
(***************************************************************************)
(* Hotswaps from instance a to instance b: of a tenant that is number 1 on *)
(* a and 2 on b, and of its neighbour, number 9 on a and 8 on b.           *)
(***************************************************************************)
EXTENDS HotswapMemory, TLC

CONSTANTS g1, g2, g3

ref(instance, tenant, name) ==
    [instance |-> instance, tenant |-> tenant, name |-> name, local |-> 1]

MCLocalRefs == {ref("a", 1, "acme"), ref("a", 1, ""), ref("b", 2, "")}

\* With another tenant of the source instance.
TwoTenantRefs == MCLocalRefs \cup {ref("a", 9, "other"), ref("a", 9, ""), ref("b", 8, "")}

AtA == [instance |-> "a", tenant |-> 1, name |-> "acme"]
AtB == [instance |-> "b", tenant |-> 2, name |-> "acme"]

Outward == {[source |-> AtA, target |-> AtB]}

Neighbours ==
    Outward \cup {[source |-> [instance |-> "a", tenant |-> 9, name |-> "other"],
                   target |-> [instance |-> "b", tenant |-> 8, name |-> "other"]]}

OneEntity == g1 :> NewRecord(ref("a", 1, "acme"))

TwoEntities == OneEntity @@ (g2 :> NewRecord(ref("a", 1, "acme")))

TwoTenants == TwoEntities @@ (g3 :> NewRecord(ref("a", 9, "other")))

MCProtocols == Hotswaps \cup {ClientProtocol}
=============================================================================
