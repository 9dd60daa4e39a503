------------------------------ MODULE Records ------------------------------
(***************************************************************************)
(* Ownership records and what the registry's operations do to a map of     *)
(* them.  Shared by the modules that hold such a map (Ownership, Registry, *)
(* XoluRegistry) and by those that drive a registry (HotswapMemory).       *)
(*                                                                         *)
(* A LocalRef is abstracted to the four things the code tells apart: the   *)
(* instance URL, the tenant ID (0 = unscoped), the tenant name ("" = not   *)
(* known) and the local entity (entity type and local ID).  Timestamps,    *)
(* HistoryFrom and the retire reason are never read back by a decision and *)
(* are left out.                                                           *)
(***************************************************************************)
EXTENDS Naturals, Sequences

CONSTANTS
    GlobalIDs,   \* the GlobalIDs MintGlobalID may return
    LocalRefs,   \* the LocalRefs callers use
    Protocols,   \* the Protocol strings of transfer requests
    MaxHistory   \* bound: transfers per GlobalID

ASSUME LocalRefsAssumption ==
    \A r \in LocalRefs :
        /\ r = [instance |-> r.instance, tenant |-> r.tenant,
                name |-> r.name, local |-> r.local]
        /\ r.tenant \in Nat

ASSUME MaxHistoryAssumption == MaxHistory \in Nat

Statuses == {"active", "retired"}

TransferEntry == [from : LocalRefs, to : LocalRefs, protocol : Protocols]

Record == [current : LocalRefs, history : Seq(TransferEntry), status : Statuses]

-----------------------------------------------------------------------------
(* Operators on a map of records.                                          *)

NewRecord(owner) == [current |-> owner, history |-> <<>>, status |-> "active"]

Put(recs, g, rec) ==
    [x \in DOMAIN recs \cup {g} |-> IF x = g THEN rec ELSE recs[x]]

\* Variant: without the From check.
MayTransfer_AnyFrom(recs, g, from) ==
    g \in DOMAIN recs /\ recs[g].status # "retired"

\* Transfer succeeds on a registered, active entity whose current owner is
\* exactly the From of the request (the whole struct is compared).
MayTransfer(recs, g, from) ==
    /\ g \in DOMAIN recs
    /\ recs[g].status # "retired"
    /\ recs[g].current = from

Transferred(rec, from, to, protocol) ==
    [current |-> to,
     history |-> Append(rec.history, [from |-> from, to |-> to,
                                      protocol |-> protocol]),
     status  |-> rec.status]

MayRetire(recs, g) == g \in DOMAIN recs /\ recs[g].status # "retired"

\* Variant: the record is rebuilt without its history.
Retired_NoHistory(rec) ==
    [current |-> rec.current, history |-> <<>>, status |-> "retired"]

Retired(rec) == [rec EXCEPT !.status = "retired"]

ListByInstanceAndTenant(recs, instance, tenant) ==
    {g \in DOMAIN recs : /\ recs[g].status = "active"
                         /\ recs[g].current.instance = instance
                         /\ recs[g].current.tenant = tenant}

\* How many operations have been committed on the record of g.
Version(recs, g) ==
    IF g \notin DOMAIN recs THEN 0
    ELSE 1 + Len(recs[g].history) + (IF recs[g].status = "retired" THEN 1 ELSE 0)
=============================================================================
