----------------------------- MODULE Ownership -----------------------------
(***************************************************************************)
(* What nolu's registry promises about ownership records, whatever stores  *)
(* them: a GlobalID is minted once and never deleted, has one current      *)
(* LocalRef, and every change of owner is recorded together with the new   *)
(* owner (the design invariants of pkg/registry/registry.go).  Registry    *)
(* and XoluRegistry are shown to implement this specification.             *)
(***************************************************************************)
EXTENDS Records

VARIABLE records  \* map GlobalID -> Record; its domain is what was registered

-----------------------------------------------------------------------------
Init == records = << >>

Register(g, owner) ==
    /\ g \notin DOMAIN records
    /\ records' = Put(records, g, NewRecord(owner))

Transfer(g, from, to, protocol) ==
    /\ MayTransfer(records, g, from)
    /\ Len(records[g].history) < MaxHistory
    /\ records' = Put(records, g, Transferred(records[g], from, to, protocol))

Retire(g) ==
    /\ MayRetire(records, g)
    /\ records' = Put(records, g, Retired(records[g]))

Next ==
    \E g \in GlobalIDs :
        \/ \E owner \in LocalRefs : Register(g, owner)
        \/ \E from, to \in LocalRefs, protocol \in Protocols :
               Transfer(g, from, to, protocol)
        \/ Retire(g)

Spec == Init /\ [][Next]_records

-----------------------------------------------------------------------------
\* Only minted GlobalIDs have a record, and every record is well formed
\* (registry.go, Record and Status).
TypeOK ==
    /\ DOMAIN records \subseteq GlobalIDs
    /\ records \in [DOMAIN records -> Record]

\* The history of a record is an unbroken chain of custody: each transfer
\* starts where the one before ended, and the last one ended at the current
\* owner ("every ownership transition is recorded atomically with the new
\* LocalRef", registry.go design invariants 2 and 3).
ChainOfCustody ==
    \A g \in DOMAIN records :
        LET h == records[g].history
        IN  /\ \A i \in 1..Len(h) - 1 : h[i].to = h[i + 1].from
            /\ h # <<>> => h[Len(h)].to = records[g].current

\* No step forgets a GlobalID, rewrites a past transfer, or changes anything
\* about a retired entity (registry.go design invariant 1 and StatusRetired).
AppendOnly ==
    [][\A g \in DOMAIN records :
          /\ g \in DOMAIN records'
          /\ \A i \in 1..Len(records[g].history) :
                 records'[g].history[i] = records[g].history[i]
          /\ Len(records'[g].history) >= Len(records[g].history)
          /\ records[g].status = "retired" => records'[g] = records[g]]_records
=============================================================================
