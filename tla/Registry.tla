------------------------------ MODULE Registry ------------------------------
(***************************************************************************)
(* MemoryRegistry (pkg/registry/memory.go): the records, the in-process    *)
(* subscriptions and the asynchronous hand-over to the event bus.  Every   *)
(* method holds the registry's mutex for its whole body, so it is a single *)
(* action; what happens outside the mutex, a subscriber draining its       *)
(* channel and a goroutine calling bus.Publish, are actions of their own.  *)
(* A call that returns an error changes nothing and is not a step.         *)
(***************************************************************************)
EXTENDS Records, FiniteSets

CONSTANTS
    Channels,    \* channels subscribers pass to Subscribe
    Filters,     \* the subscription filters used, see Filter
    TypeOf,      \* the entity type in each GlobalID
    ChanCap      \* capacity of every channel

ASSUME ChanCapAssumption == ChanCap \in Nat \ {0}

ASSUME FiltersAssumption ==
    \A f \in Filters :
        f = [gids |-> f.gids, types |-> f.types]

VARIABLES
    records,   \* r.records
    subs,      \* r.subs: channel -> filter, for the channels subscribed
    chan,      \* the buffer of each channel
    seen,      \* per channel and GlobalID: version of the last event received
    lost,      \* channels that were full when an event was sent to them
    inflight   \* events whose publish goroutine has not reached the bus yet

vars == <<records, subs, chan, seen, lost, inflight>>

Kinds == {"registered", "transferred", "retired"}

Event == [kind : Kinds, gid : GlobalIDs, record : Record]

-----------------------------------------------------------------------------
\* The filter tests GlobalIDs and entity types; InstanceURLs is not looked at.
matchFilter(f, ev) ==
    /\ f.gids # {} => ev.gid \in f.gids
    /\ f.types # {} => TypeOf[ev.gid] \in f.types

\* The position of an event in the life of its GlobalID (see Version).
EventVersion(ev) == Version([g \in {ev.gid} |-> ev.record], ev.gid)

\* The channels an event is sent to, and among them those with room.
Wanted(ev) == {c \in DOMAIN subs : matchFilter(subs[c], ev)}
HasRoom(ev) == {c \in Wanted(ev) : Len(chan[c]) < ChanCap}

\* A non-blocking send to every matching subscriber, dropped when the channel
\* is full, then a goroutine that will call bus.Publish.
publishLocked(ev) ==
    /\ chan' = [c \in Channels |-> IF c \in HasRoom(ev)
                                   THEN Append(chan[c], ev) ELSE chan[c]]
    /\ lost' = lost \cup (Wanted(ev) \ HasRoom(ev))
    /\ inflight' = inflight \cup {ev}

-----------------------------------------------------------------------------
Init ==
    /\ records = << >>
    /\ subs = << >>
    /\ chan = [c \in Channels |-> <<>>]
    /\ seen = [c \in Channels |-> [g \in GlobalIDs |-> 0]]
    /\ lost = {}
    /\ inflight = {}

Register(g, owner) ==
    /\ g \notin DOMAIN records
    /\ LET rec == NewRecord(owner)
       IN  /\ records' = Put(records, g, rec)
           /\ publishLocked([kind |-> "registered", gid |-> g, record |-> rec])
    /\ UNCHANGED <<subs, seen>>

\* Variant: only the existence of the record is checked.
Transfer_Unchecked(g, from, to, protocol) ==
    /\ g \in DOMAIN records
    /\ Len(records[g].history) < MaxHistory
    /\ LET rec == Transferred(records[g], from, to, protocol)
       IN  /\ records' = Put(records, g, rec)
           /\ publishLocked([kind |-> "transferred", gid |-> g, record |-> rec])
    /\ UNCHANGED <<subs, seen>>

Transfer(g, from, to, protocol) ==
    /\ MayTransfer(records, g, from)
    /\ Len(records[g].history) < MaxHistory
    /\ LET rec == Transferred(records[g], from, to, protocol)
       IN  /\ records' = Put(records, g, rec)
           /\ publishLocked([kind |-> "transferred", gid |-> g, record |-> rec])
    /\ UNCHANGED <<subs, seen>>

\* Variant: retiring publishes nothing.
Retire_Silent(g) ==
    /\ MayRetire(records, g)
    /\ records' = Put(records, g, Retired(records[g]))
    /\ UNCHANGED <<subs, chan, seen, lost, inflight>>

Retire(g) ==
    /\ MayRetire(records, g)
    /\ LET rec == Retired(records[g])
       IN  /\ records' = Put(records, g, rec)
           /\ publishLocked([kind |-> "retired", gid |-> g, record |-> rec])
    /\ UNCHANGED <<subs, seen>>

\* A subscriber makes a fresh channel for each subscription.  The version of
\* every record at that moment is what it has "seen": the events it is owed
\* are the later ones.
Subscribe(c, f) ==
    /\ c \notin DOMAIN subs
    /\ subs' = Put(subs, c, f)
    /\ chan' = [chan EXCEPT ![c] = <<>>]
    /\ seen' = [seen EXCEPT ![c] = [g \in GlobalIDs |-> Version(records, g)]]
    /\ lost' = lost \ {c}
    /\ UNCHANGED <<records, inflight>>

\* The cancel function returned by Subscribe; what is buffered stays readable.
Cancel(c) ==
    /\ c \in DOMAIN subs
    /\ subs' = [x \in DOMAIN subs \ {c} |-> subs[x]]
    /\ UNCHANGED <<records, chan, seen, lost, inflight>>

Receive(c) ==
    /\ chan[c] # <<>>
    /\ LET ev == Head(chan[c])
       IN  seen' = [seen EXCEPT ![c][ev.gid] = EventVersion(ev)]
    /\ chan' = [chan EXCEPT ![c] = Tail(@)]
    /\ UNCHANGED <<records, subs, lost, inflight>>

\* The goroutine of publishLocked runs bus.Publish; its error is ignored.
BusPublish(ev) ==
    /\ inflight' = inflight \ {ev}
    /\ UNCHANGED <<records, subs, chan, seen, lost>>

Next ==
    \/ \E g \in GlobalIDs :
          \/ \E owner \in LocalRefs : Register(g, owner)
          \/ \E from, to \in LocalRefs, protocol \in Protocols :
                 Transfer(g, from, to, protocol)
          \/ Retire(g)
    \/ \E c \in Channels :
          \/ \E f \in Filters : Subscribe(c, f)
          \/ Cancel(c)
          \/ Receive(c)
    \/ \E ev \in inflight : BusPublish(ev)

Spec == Init /\ [][Next]_vars

-----------------------------------------------------------------------------
\* Records, subscriptions, buffers and events in flight are well formed: what
\* publishLocked hands to a channel is a whole record of a minted GlobalID.
TypeOK ==
    /\ DOMAIN records \subseteq GlobalIDs
    /\ records \in [DOMAIN records -> Record]
    /\ DOMAIN subs \subseteq Channels
    /\ subs \in [DOMAIN subs -> Filters]
    /\ chan \in [Channels -> Seq(Event)]
    /\ seen \in [Channels -> [GlobalIDs -> Nat]]
    /\ lost \subseteq Channels
    /\ inflight \subseteq Event

\* The positions of the events of g in the buffer of c.
Pending(c, g) == {i \in 1..Len(chan[c]) : chan[c][i].gid = g}

\* A subscriber that lost no event is exactly its buffer behind the registry:
\* for every GlobalID its filter lets through, the k-th event of that GlobalID
\* still buffered is the k-th change after the one it last received, and the
\* last buffered one is the current record.  Events are neither reordered nor
\* duplicated nor skipped, and they carry the record as it was (publishLocked
\* under the mutex, with a clone of the record).
SubscribersKeepUp ==
    \A c \in DOMAIN subs \ lost : \A g \in GlobalIDs :
        matchFilter(subs[c], [gid |-> g]) =>
            /\ seen[c][g] + Cardinality(Pending(c, g)) = Version(records, g)
            /\ \A i \in Pending(c, g) :
                   EventVersion(chan[c][i]) =
                       seen[c][g] + Cardinality(Pending(c, g) \cap 1..i)

\* A record snapshot handed out in an event stays a prefix of the record's
\* life: whatever later operations do to the record, the events buffered for
\* subscribers and on their way to the bus never show a transfer that the
\* registry does not have in the same place (clone deep-copies History).
SnapshotsArePrefixes ==
    \A ev \in inflight \cup UNION {{chan[c][i] : i \in 1..Len(chan[c])} : c \in Channels} :
        /\ ev.gid \in DOMAIN records
        /\ Len(ev.record.history) <= Len(records[ev.gid].history)
        /\ \A i \in 1..Len(ev.record.history) :
               ev.record.history[i] = records[ev.gid].history[i]

Abstract == INSTANCE Ownership

\* MemoryRegistry implements the ownership specification: whatever subscribers
\* and the bus do, the records change by whole Register, Transfer and Retire
\* operations only (memory.go, each under the mutex).
ImplementsOwnership == Abstract!Spec
=============================================================================
