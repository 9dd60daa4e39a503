-------------------------- MODULE TenantDirectory --------------------------
(***************************************************************************)
(* TenantDirectory (pkg/registry/directory.go) following a MemoryRegistry  *)
(* through its subscription channel.  Every registry operation runs under  *)
(* the registry's mutex and offers its event to the channel, which drops   *)
(* it when full; the directory's goroutine takes events one by one and     *)
(* applies each under the directory's own mutex.                           *)
(*                                                                         *)
(* A TenantEntry is abstracted to its EntityCount, and byName, a map of    *)
(* pointers to entries, to the instance of the entry pointed to.  The      *)
(* TenantID of an entry (a function of instance and name), its FirstSeen,  *)
(* LastSeen and StableUntil stamps and InvalidateTenant, which only writes *)
(* StableUntil, are left out.                                              *)
(***************************************************************************)
EXTENDS Records, FiniteSets

CONSTANTS
    Moves,        \* the <<from, to>> of the transfers clients ask for
    NumericName,  \* tenant ID -> "tenant-<ID>"
    ChanCap       \* capacity of the directory's channel (256 in the code)

DirectoryAssumption ==
    /\ Moves \subseteq LocalRefs \X LocalRefs
    /\ \A r \in LocalRefs : r.tenant # 0 => r.tenant \in DOMAIN NumericName
    /\ ChanCap \in Nat \ {0}

VARIABLES
    records,  \* the registry
    phase,    \* where Start is: "new", "subscribed", "running"
    chan,     \* the directory's channel
    skewed,   \* whether a change happened that the counts get wrong
    byKey,    \* d.byKey: <<instance, name>> -> EntityCount
    byName    \* d.byName: name -> instance of the entry pointed to

vars == <<records, phase, chan, skewed, byKey, byName>>

tenantNameFromRef(ref) ==
    IF ref.tenant = 0 THEN ""
    ELSE IF ref.name # "" THEN ref.name ELSE NumericName[ref.tenant]

\* handleEvent ignores an event whose reference has no tenant.
Scoped(ref) == tenantNameFromRef(ref) # ""

KeyOf(ref) == <<ref.instance, tenantNameFromRef(ref)>>

Names(counts) == {k[2] : k \in DOMAIN counts}

Tracked == {r \in LocalRefs : Scoped(r)}

Keys == {KeyOf(r) : r \in Tracked}

\* What handleEvent looks at: the kind, the current reference, and for a
\* transfer the From of the last history entry.
Event ==      [kind : {"registered", "retired"}, ref : LocalRefs]
         \cup [kind : {"transferred"}, ref : LocalRefs, from : LocalRefs]

-----------------------------------------------------------------------------
(* Operators on d = [byKey, byName], with the mutex held.                  *)

\* The candidate takes over when it has at least as many entities.
updateByNameLocked(counts, names, key) ==
    IF \/ key[2] \notin DOMAIN names
       \/ counts[key] >= counts[<<names[key[2]], key[2]>>]
    THEN Put(names, key[2], key[1])
    ELSE names

\* Starting over from byKey, in the order of a Go map: any entry with the
\* highest count may be the one left for its name.
rebuildByNameLocked(counts) ==
    {names \in [Names(counts) -> {k[1] : k \in DOMAIN counts}] :
        \A n \in Names(counts) :
            /\ <<names[n], n>> \in DOMAIN counts
            /\ \A k \in DOMAIN counts :
                   k[2] = n => counts[k] <= counts[<<names[n], n>>]}

Increment(d, key) ==
    LET counts == Put(d.byKey, key, IF key \in DOMAIN d.byKey THEN d.byKey[key] + 1 ELSE 1)
    IN  [byKey |-> counts, byName |-> updateByNameLocked(counts, d.byName, key)]

\* One entity less under key: the entry goes when its count is no longer
\* positive.  The set of possible outcomes.
Decrement(d, key) ==
    IF key \notin DOMAIN d.byKey THEN {d}
    ELSE IF d.byKey[key] <= 1
    THEN LET counts == [k \in DOMAIN d.byKey \ {key} |-> d.byKey[k]]
         IN  {[byKey |-> counts, byName |-> names] : names \in rebuildByNameLocked(counts)}
    ELSE LET counts == Put(d.byKey, key, d.byKey[key] - 1)
         IN  {[byKey |-> counts, byName |-> updateByNameLocked(counts, d.byName, key)]}

\* Variant: the entity is not taken away from where it was.
handleEvent_NoRemoval(d, ev) ==
    CASE ~Scoped(ev.ref) -> {d}
      [] ev.kind \in {"registered", "transferred"} -> {Increment(d, KeyOf(ev.ref))}
      [] ev.kind = "retired" -> Decrement(d, KeyOf(ev.ref))

\* The set of possible outcomes of handleEvent.  An event whose current
\* reference is unscoped is ignored altogether; a transfer takes the entity
\* from the old key only when it differs from the new one, and always adds
\* it to the new one.
handleEvent(d, ev) ==
    LET key == KeyOf(ev.ref)
        Left == IF Scoped(ev.from) /\ KeyOf(ev.from) # key
                THEN Decrement(d, KeyOf(ev.from)) ELSE {d}
    IN  CASE ~Scoped(ev.ref) -> {d}
          [] Scoped(ev.ref) /\ ev.kind = "registered" -> {Increment(d, key)}
          [] Scoped(ev.ref) /\ ev.kind = "transferred" -> {Increment(e, key) : e \in Left}
          [] Scoped(ev.ref) /\ ev.kind = "retired" -> Decrement(d, key)

-----------------------------------------------------------------------------
Init ==
    /\ records = << >>
    /\ phase = "new"
    /\ chan = <<>>
    /\ skewed = FALSE
    /\ byKey = << >>
    /\ byName = << >>

\* A transfer of a tenant's entity that handleEvent only half applies: to a
\* place of the same tenant and instance, or out of all tenants.
Miscounted(ev) ==
    /\ ev.kind = "transferred"
    /\ Scoped(ev.from)
    /\ KeyOf(ev.from) = KeyOf(ev.ref) \/ ~Scoped(ev.ref)

\* publishLocked of the registry, for the directory's subscription.  The
\* counts are skewed by an event that is dropped because the channel is full,
\* by one that is also in the scan, and by a transfer that is miscounted.
publishLocked(ev) ==
    /\ IF phase # "new" /\ Len(chan) < ChanCap
       THEN chan' = Append(chan, ev) ELSE UNCHANGED chan
    /\ skewed' = (skewed \/ phase = "subscribed"
                         \/ (phase = "running" /\ (Len(chan) = ChanCap \/ Miscounted(ev))))

Register(g, owner) ==
    /\ g \notin DOMAIN records
    /\ records' = Put(records, g, NewRecord(owner))
    /\ publishLocked([kind |-> "registered", ref |-> owner])
    /\ UNCHANGED <<phase, byKey, byName>>

Transfer(g, from, to, protocol) ==
    /\ MayTransfer(records, g, from)
    /\ Len(records[g].history) < MaxHistory
    /\ records' = Put(records, g, Transferred(records[g], from, to, protocol))
    /\ publishLocked([kind |-> "transferred", ref |-> to, from |-> from])
    /\ UNCHANGED <<phase, byKey, byName>>

Retire(g) ==
    /\ MayRetire(records, g)
    /\ records' = Put(records, g, Retired(records[g]))
    /\ publishLocked([kind |-> "retired", ref |-> records[g].current])
    /\ UNCHANGED <<phase, byKey, byName>>

\* Start subscribes first ...
Subscribe ==
    /\ phase = "new"
    /\ phase' = "subscribed"
    /\ UNCHANGED <<records, chan, skewed, byKey, byName>>

\* The active entities under a key.
ActiveAt(key) ==
    {g \in DOMAIN records : /\ records[g].status # "retired"
                            /\ Scoped(records[g].current)
                            /\ KeyOf(records[g].current) = key}

\* An Upsert of each count into an empty directory, in the order of a Go map:
\* byName is chosen as when it is rebuilt.
Upserted(counts) ==
    {[byKey |-> counts, byName |-> names] : names \in rebuildByNameLocked(counts)}

\* ... and then scans the registry, which is locked meanwhile: SeedDirectory
\* counts the active entities of every key and Upserts each count.
Seed ==
    /\ phase = "subscribed"
    /\ phase' = "running"
    /\ LET counts == [k \in {k \in Keys : ActiveAt(k) # {}} |-> Cardinality(ActiveAt(k))]
       IN  \E d \in Upserted(counts) : byKey' = d.byKey /\ byName' = d.byName
    /\ UNCHANGED <<records, chan, skewed>>

\* Variant: the goroutine returns at an event without a tenant.
HandleEvent_Returns ==
    /\ phase = "running"
    /\ chan # <<>> /\ Scoped(Head(chan).ref)
    /\ \E d \in handleEvent([byKey |-> byKey, byName |-> byName], Head(chan)) :
           byKey' = d.byKey /\ byName' = d.byName
    /\ chan' = Tail(chan)
    /\ UNCHANGED <<records, phase, skewed>>

\* The goroutine of Start takes the next event.
HandleEvent ==
    /\ phase = "running"
    /\ chan # <<>>
    /\ \E d \in handleEvent([byKey |-> byKey, byName |-> byName], Head(chan)) :
           byKey' = d.byKey /\ byName' = d.byName
    /\ chan' = Tail(chan)
    /\ UNCHANGED <<records, phase, skewed>>

Next ==
    \/ \E g \in GlobalIDs :
          \/ \E owner \in LocalRefs : Register(g, owner)
          \/ \E m \in Moves, protocol \in Protocols : Transfer(g, m[1], m[2], protocol)
          \/ Retire(g)
    \/ Subscribe \/ Seed \/ HandleEvent

Spec == Init /\ [][Next]_vars

\* main calls Start, and the event goroutine is scheduled again and again.
FairSpec == Spec /\ WF_vars(Subscribe) /\ WF_vars(Seed) /\ WF_vars(HandleEvent)

-----------------------------------------------------------------------------
\* The directory has entries only for instances and tenant names that some
\* LocalRef has (tenantNameFromRef), and the channel never exceeds its capacity.
TypeOK ==
    /\ DOMAIN records \subseteq GlobalIDs
    /\ records \in [DOMAIN records -> Record]
    /\ phase \in {"new", "subscribed", "running"}
    /\ chan \in Seq(Event) /\ Len(chan) <= ChanCap
    /\ skewed \in BOOLEAN
    /\ DOMAIN byKey \subseteq Keys
    /\ byKey \in [DOMAIN byKey -> Nat]
    /\ DOMAIN byName \subseteq {k[2] : k \in Keys}
    /\ byName \in [DOMAIN byName -> {k[1] : k \in Keys}]

\* The two maps agree after any sequence of events, dropped and double-counted
\* ones included: Locate answers for exactly the tenants that have an entry
\* somewhere, never with an entry that was deleted, and no entry has a count
\* below one.
Coherent ==
    /\ DOMAIN byName = Names(byKey)
    /\ \A n \in DOMAIN byName : <<byName[n], n>> \in DOMAIN byKey
    /\ \A k \in DOMAIN byKey : byKey[k] >= 1

Caught == phase = "running" /\ chan = <<>>

\* Once the directory has caught up with a registry of which no event was
\* dropped, no call came during Start and no transfer was miscounted, every
\* entry counts the active entities of its tenant on its instance, and every
\* such tenant has an entry (EntityCount, directory.go:30-32; "eventually
\* consistent", directory.go:57-58).
CountsExact ==
    (Caught /\ ~skewed) =>
        /\ \A k \in DOMAIN byKey : byKey[k] = Cardinality(ActiveAt(k))
        /\ \A k \in Keys : ActiveAt(k) # {} => k \in DOMAIN byKey

\* What Locate and the counts can be relied on for.
DirectoryExact == Coherent /\ CountsExact

\* When the clients stop, the directory empties its channel, and its counts
\* stay exact unless they were skewed.
CatchesUp == <>[](Caught /\ CountsExact)
=============================================================================
