--------------------------- MODULE RegistryProofs ---------------------------
(***************************************************************************)
(* MemoryRegistry is well typed and implements the ownership               *)
(* specification, the records it hands out in events stay prefixes of the  *)
(* stored ones, and its subscribers keep up with it, for any number of     *)
(* entities, channels and filters.                                         *)
(***************************************************************************)
EXTENDS Registry, RecordsProofs, FiniteSetTheorems

\* The records change only by a Register, a Transfer or a Retire.
LEMMA RecordsStep ==
    ASSUME [Next]_vars
    PROVE  \/ UNCHANGED records
           \/ \E g \in GlobalIDs, owner \in LocalRefs : Register(g, owner)
           \/ \E g \in GlobalIDs, from, to \in LocalRefs, protocol \in Protocols :
                  Transfer(g, from, to, protocol)
           \/ \E g \in GlobalIDs : Retire(g)
  BY DEF Next, vars, Subscribe, Cancel, Receive, BusPublish

\* MemoryRegistry implements the ownership specification: subscribers and the
\* bus never touch the records (memory.go, the mutex of every operation).
THEOREM MemoryImplementsOwnership == Spec => ImplementsOwnership
  <1>1. Init => Abstract!Init
    BY DEF Init, Abstract!Init
  <1>2. [Next]_vars => [Abstract!Next]_records
    <2> SUFFICES ASSUME [Next]_vars PROVE [Abstract!Next]_records
      OBVIOUS
    <2>1. ASSUME NEW g \in GlobalIDs, NEW owner \in LocalRefs, Register(g, owner)
          PROVE  Abstract!Next
      <3>1. Abstract!Register(g, owner)
        BY <2>1 DEF Register, Abstract!Register, Put, Abstract!Put, NewRecord, Abstract!NewRecord
      <3> QED
        BY <3>1 DEF Abstract!Next
    <2>2. ASSUME NEW g \in GlobalIDs, NEW from \in LocalRefs, NEW to \in LocalRefs,
                 NEW protocol \in Protocols, Transfer(g, from, to, protocol)
          PROVE  Abstract!Next
      <3>1. Abstract!Transfer(g, from, to, protocol)
        BY <2>2 DEF Transfer, Abstract!Transfer, MayTransfer, Abstract!MayTransfer,
                    Put, Abstract!Put, Transferred, Abstract!Transferred
      <3> QED
        BY <3>1 DEF Abstract!Next
    <2>3. ASSUME NEW g \in GlobalIDs, Retire(g) PROVE Abstract!Next
      <3>1. Abstract!Retire(g)
        BY <2>3 DEF Retire, Abstract!Retire, MayRetire, Abstract!MayRetire,
                    Put, Abstract!Put, Retired, Abstract!Retired
      <3> QED
        BY <3>1 DEF Abstract!Next
    <2> QED
      BY <2>1, <2>2, <2>3, RecordsStep
  <1> QED
    BY <1>1, <1>2, PTL DEF Spec, ImplementsOwnership, Abstract!Spec
-----------------------------------------------------------------------------
\* What publishing an event does to the buffers and to what the bus is owed.
LEMMA PublishType ==
    ASSUME TypeOK, NEW ev \in Event, publishLocked(ev)
    PROVE  /\ chan' \in [Channels -> Seq(Event)]
           /\ lost' \subseteq Channels
           /\ inflight' \subseteq Event
  <1>1. \A c \in Channels : chan[c] \in Seq(Event)
    BY DEF TypeOK
  <1>2. \A c \in Channels : Append(chan[c], ev) \in Seq(Event)
    BY <1>1
  <1>3. chan' \in [Channels -> Seq(Event)]
    BY <1>1, <1>2 DEF publishLocked
  <1>4. lost' \subseteq Channels /\ inflight' \subseteq Event
    BY DEF publishLocked, Wanted, TypeOK
  <1> QED
    BY <1>3, <1>4

\* Versions are natural numbers.
LEMMA VersionType ==
    ASSUME NEW recs, NEW g, g \in DOMAIN recs => recs[g] \in Record
    PROVE  Version(recs, g) \in Nat
  <1>1. CASE g \notin DOMAIN recs
    BY <1>1 DEF Version
  <1>2. CASE g \in DOMAIN recs
    <2> DEFINE n == Len(recs[g].history)
    <2>1. n \in Nat
      BY <1>2 DEF Record
    <2>2. Version(recs, g) \in {1 + n + 0, 1 + n + 1}
      BY <1>2 DEF Version
    <2> HIDE DEF n
    <2> QED
      BY <2>1, <2>2
  <1> QED
    BY <1>1, <1>2

\* Type correctness of MemoryRegistry: whatever is published is a whole record.
THEOREM MemoryTypeCorrect == Spec => []TypeOK
  <1>1. Init => TypeOK
    <2> SUFFICES ASSUME Init PROVE TypeOK
      OBVIOUS
    <2>1. chan \in [Channels -> Seq(Event)]
      BY DEF Init
    <2>2. seen \in [Channels -> [GlobalIDs -> Nat]]
      BY DEF Init
    <2> QED
      BY <2>1, <2>2 DEF Init, TypeOK
  <1>2. TypeOK /\ [Next]_vars => TypeOK'
    <2> SUFFICES ASSUME TypeOK, [Next]_vars PROVE TypeOK'
      OBVIOUS
    <2>0. \A g \in DOMAIN records : records[g] \in Record
      BY DEF TypeOK
    <2>1. ASSUME NEW g \in GlobalIDs, NEW owner \in LocalRefs, Register(g, owner)
          PROVE  TypeOK'
      <3> DEFINE rec == NewRecord(owner)
                 ev == [kind |-> "registered", gid |-> g, record |-> rec]
      <3>1. rec \in Record
        BY NewRecordType
      <3> HIDE DEF rec
      <3>2. ev \in Event
        BY <3>1 DEF Event, Kinds
      <3>3. records' = Put(records, g, rec) /\ publishLocked(ev) /\ UNCHANGED <<subs, seen>>
        BY <2>1 DEF Register, rec
      <3> HIDE DEF ev
      <3>4. chan' \in [Channels -> Seq(Event)] /\ lost' \subseteq Channels /\ inflight' \subseteq Event
        BY <3>2, <3>3, PublishType
      <3> QED
        BY <3>1, <3>3, <3>4, PutType DEF TypeOK
    <2>2. ASSUME NEW g \in GlobalIDs, NEW from \in LocalRefs, NEW to \in LocalRefs,
                 NEW protocol \in Protocols, Transfer(g, from, to, protocol)
          PROVE  TypeOK'
      <3> DEFINE rec == Transferred(records[g], from, to, protocol)
                 ev == [kind |-> "transferred", gid |-> g, record |-> rec]
      <3>0. records[g] \in Record
        BY <2>0, <2>2 DEF Transfer, MayTransfer
      <3>1. rec \in Record
        BY <3>0, TransferredRecord
      <3> HIDE DEF rec
      <3>2. ev \in Event
        BY <3>1 DEF Event, Kinds
      <3>3. records' = Put(records, g, rec) /\ publishLocked(ev) /\ UNCHANGED <<subs, seen>>
        BY <2>2 DEF Transfer, rec
      <3> HIDE DEF ev
      <3>4. chan' \in [Channels -> Seq(Event)] /\ lost' \subseteq Channels /\ inflight' \subseteq Event
        BY <3>2, <3>3, PublishType
      <3> QED
        BY <3>1, <3>3, <3>4, PutType DEF TypeOK
    <2>3. ASSUME NEW g \in GlobalIDs, Retire(g) PROVE TypeOK'
      <3> DEFINE rec == Retired(records[g])
                 ev == [kind |-> "retired", gid |-> g, record |-> rec]
      <3>0. records[g] \in Record
        BY <2>0, <2>3 DEF Retire, MayRetire
      <3>1. rec \in Record
        BY <3>0, RetiredRecord
      <3> HIDE DEF rec
      <3>2. ev \in Event
        BY <3>1 DEF Event, Kinds
      <3>3. records' = Put(records, g, rec) /\ publishLocked(ev) /\ UNCHANGED <<subs, seen>>
        BY <2>3 DEF Retire, rec
      <3> HIDE DEF ev
      <3>4. chan' \in [Channels -> Seq(Event)] /\ lost' \subseteq Channels /\ inflight' \subseteq Event
        BY <3>2, <3>3, PublishType
      <3> QED
        BY <3>1, <3>3, <3>4, PutType DEF TypeOK
    <2>4. ASSUME NEW c \in Channels, NEW f \in Filters, Subscribe(c, f) PROVE TypeOK'
      <3>1. [g \in GlobalIDs |-> Version(records, g)] \in [GlobalIDs -> Nat]
        BY <2>0, VersionType
      <3>2. seen' \in [Channels -> [GlobalIDs -> Nat]]
        BY <2>4, <3>1 DEF Subscribe, TypeOK
      <3>3. chan' \in [Channels -> Seq(Event)]
        <4>1. <<>> \in Seq(Event)
          OBVIOUS
        <4> QED
          BY <2>4, <4>1 DEF Subscribe, TypeOK
      <3>4. DOMAIN subs' \subseteq Channels /\ subs' \in [DOMAIN subs' -> Filters]
        BY <2>4 DEF Subscribe, TypeOK, Put
      <3> QED
        BY <2>4, <3>2, <3>3, <3>4 DEF Subscribe, TypeOK
    <2>5. ASSUME NEW c \in Channels, Cancel(c) PROVE TypeOK'
      BY <2>5 DEF Cancel, TypeOK
    <2>6. ASSUME NEW c \in Channels, Receive(c) PROVE TypeOK'
      <3> DEFINE ev == Head(chan[c])
      <3>1. chan[c] \in Seq(Event) /\ chan[c] # <<>>
        BY <2>6 DEF Receive, TypeOK
      <3>2. ev \in Event /\ Tail(chan[c]) \in Seq(Event)
        BY <3>1
      <3>3. chan' \in [Channels -> Seq(Event)]
        BY <2>6, <3>2 DEF Receive, TypeOK
      <3>4. seen' = [seen EXCEPT ![c][ev.gid] = EventVersion(ev)]
        BY <2>6 DEF Receive
      <3> HIDE DEF ev
      <3>5. EventVersion(ev) \in Nat
        <4>1. ev.record \in Record
          BY <3>2 DEF Event
        <4> QED
          BY <4>1, VersionType DEF EventVersion
      <3>6. seen' \in [Channels -> [GlobalIDs -> Nat]]
        BY <3>4, <3>5 DEF TypeOK
      <3> QED
        BY <2>6, <3>3, <3>6 DEF Receive, TypeOK
    <2>7. ASSUME NEW ev \in inflight, BusPublish(ev) PROVE TypeOK'
      BY <2>7 DEF BusPublish, TypeOK
    <2>8. CASE UNCHANGED vars
      BY <2>8 DEF vars, TypeOK
    <2> QED
      BY <2>1, <2>2, <2>3, <2>4, <2>5, <2>6, <2>7, <2>8 DEF Next
  <1> QED
    BY <1>1, <1>2, PTL DEF Spec
-----------------------------------------------------------------------------
\* The events buffered for subscribers or on their way to the bus.
Waiting == inflight \cup UNION {{chan[c][i] : i \in 1..Len(chan[c])} : c \in Channels}

\* rec shows the first transfers of the record of g, and no others.
PrefixOf(rec, g) ==
    /\ g \in DOMAIN records
    /\ Len(rec.history) <= Len(records[g].history)
    /\ \A i \in 1..Len(rec.history) : rec.history[i] = records[g].history[i]

\* A step keeps every record's history or adds to its end.
LEMMA HistoriesGrow ==
    ASSUME TypeOK, [Next]_vars, NEW x \in DOMAIN records
    PROVE  /\ x \in DOMAIN records'
           /\ Len(records'[x].history) \in Nat
           /\ Len(records[x].history) <= Len(records'[x].history)
           /\ \A i \in 1..Len(records[x].history) :
                  records'[x].history[i] = records[x].history[i]
  <1>0. records[x] \in Record /\ records[x].history \in Seq(TransferEntry)
    BY DEF TypeOK, Record
  <1>1. CASE x \in DOMAIN records' /\ records'[x] = records[x]
    BY <1>0, <1>1
  <1>2. ASSUME NEW from \in LocalRefs, NEW to \in LocalRefs, NEW protocol \in Protocols,
               Transfer(x, from, to, protocol)
        PROVE  /\ x \in DOMAIN records'
               /\ Len(records'[x].history) \in Nat
               /\ Len(records[x].history) <= Len(records'[x].history)
               /\ \A i \in 1..Len(records[x].history) :
                      records'[x].history[i] = records[x].history[i]
    <2> DEFINE e == [from |-> from, to |-> to, protocol |-> protocol]
    <2>1. /\ x \in DOMAIN records'
          /\ records'[x] = Transferred(records[x], from, to, protocol)
      BY <1>2 DEF Transfer, Put
    <2>2. records'[x].history = Append(records[x].history, e) /\ e \in TransferEntry
      BY <1>0, <2>1, TransferredRecord DEF TransferEntry
    <2> HIDE DEF e
    <2> QED
      BY <1>0, <2>1, <2>2
  <1>3. CASE Retire(x)
    <2>1. x \in DOMAIN records' /\ records'[x] = Retired(records[x])
      BY <1>3 DEF Retire, Put
    <2>2. records'[x].history = records[x].history
      BY <1>0, <2>1, RetiredRecord
    <2> QED
      BY <1>0, <2>1, <2>2
  <1>4. ASSUME NEW g \in GlobalIDs, NEW owner \in LocalRefs, Register(g, owner)
        PROVE  x \in DOMAIN records' /\ records'[x] = records[x]
    BY <1>4 DEF Register, Put
  <1>5. ASSUME NEW g \in GlobalIDs, g # x, NEW from \in LocalRefs, NEW to \in LocalRefs,
               NEW protocol \in Protocols, Transfer(g, from, to, protocol)
        PROVE  x \in DOMAIN records' /\ records'[x] = records[x]
    BY <1>5 DEF Transfer, Put
  <1>6. ASSUME NEW g \in GlobalIDs, g # x, Retire(g)
        PROVE  x \in DOMAIN records' /\ records'[x] = records[x]
    BY <1>6 DEF Retire, Put
  <1> QED
    BY <1>1, <1>2, <1>3, <1>4, <1>5, <1>6, RecordsStep

\* Publishing adds at most the event itself to what is waiting.
LEMMA PublishWaiting ==
    ASSUME TypeOK, NEW ev \in Event, publishLocked(ev), NEW w \in Waiting'
    PROVE  w \in Waiting \/ w = ev
  <1>1. ASSUME NEW c \in Channels, NEW i \in 1..Len(chan'[c])
        PROVE  chan'[c][i] = ev \/ (i \in 1..Len(chan[c]) /\ chan'[c][i] = chan[c][i])
    <2>1. chan[c] \in Seq(Event)
      BY DEF TypeOK
    <2>2. chan'[c] = chan[c] \/ chan'[c] = Append(chan[c], ev)
      BY DEF publishLocked
    <2>3. CASE chan'[c] = chan[c]
      BY <2>3
    <2>4. CASE chan'[c] = Append(chan[c], ev)
      <3>1. Len(chan[c]) \in Nat /\ i \in 1..Len(chan[c]) + 1
        BY <2>1, <2>4
      <3>2. CASE i = Len(chan[c]) + 1
        BY <2>1, <2>4, <3>2
      <3>3. CASE i \in 1..Len(chan[c])
        BY <2>1, <2>4, <3>3
      <3> QED
        BY <3>1, <3>2, <3>3
    <2> QED
      BY <2>2, <2>3, <2>4
  <1> QED
    BY <1>1 DEF Waiting, publishLocked

\* An event that is waiting after a step was waiting before, or carries the
\* record as it is stored now.
LEMMA WaitingStep ==
    ASSUME TypeOK, [Next]_vars, NEW w \in Waiting'
    PROVE  \/ w \in Waiting
           \/ w.gid \in DOMAIN records' /\ w.record = records'[w.gid]
  <1>0. \A g \in DOMAIN records : records[g] \in Record
    BY DEF TypeOK
  <1>1. ASSUME NEW g \in GlobalIDs, NEW rec \in Record, NEW kind \in Kinds,
               records' = Put(records, g, rec),
               publishLocked([kind |-> kind, gid |-> g, record |-> rec])
        PROVE  w \in Waiting \/ (w.gid \in DOMAIN records' /\ w.record = records'[w.gid])
    <2> DEFINE ev == [kind |-> kind, gid |-> g, record |-> rec]
    <2>1. ev \in Event
      BY DEF Event
    <2>2. w \in Waiting \/ w = ev
      BY <1>1, <2>1, PublishWaiting
    <2> QED
      BY <1>1, <2>2 DEF Put
  <1>2. ASSUME NEW g \in GlobalIDs, NEW owner \in LocalRefs, Register(g, owner)
        PROVE  w \in Waiting \/ (w.gid \in DOMAIN records' /\ w.record = records'[w.gid])
    BY <1>1, <1>2, NewRecordType DEF Register, Kinds
  <1>3. ASSUME NEW g \in GlobalIDs, NEW from \in LocalRefs, NEW to \in LocalRefs,
               NEW protocol \in Protocols, Transfer(g, from, to, protocol)
        PROVE  w \in Waiting \/ (w.gid \in DOMAIN records' /\ w.record = records'[w.gid])
    <2>1. Transferred(records[g], from, to, protocol) \in Record
      BY <1>0, <1>3, TransferredRecord DEF Transfer, MayTransfer
    <2> QED
      BY <1>1, <1>3, <2>1 DEF Transfer, Kinds
  <1>4. ASSUME NEW g \in GlobalIDs, Retire(g)
        PROVE  w \in Waiting \/ (w.gid \in DOMAIN records' /\ w.record = records'[w.gid])
    <2>1. Retired(records[g]) \in Record
      BY <1>0, <1>4, RetiredRecord DEF Retire, MayRetire
    <2> QED
      BY <1>1, <1>4, <2>1 DEF Retire, Kinds
  <1>5. ASSUME NEW c \in Channels, NEW f \in Filters, Subscribe(c, f) PROVE w \in Waiting
    <2>1. \A d \in Channels : chan'[d] = chan[d] \/ chan'[d] = <<>>
      BY <1>5 DEF Subscribe, TypeOK
    <2>2. \A d \in Channels : \A i \in 1..Len(chan'[d]) : chan'[d] = chan[d]
      BY <2>1
    <2> QED
      BY <1>5, <2>2 DEF Subscribe, Waiting
  <1>6. ASSUME NEW c \in Channels, Receive(c) PROVE w \in Waiting
    <2>1. ASSUME NEW d \in Channels, NEW i \in 1..Len(chan'[d])
          PROVE  \E j \in 1..Len(chan[d]) : chan'[d][i] = chan[d][j]
      <3>1. CASE d # c
        BY <1>6, <3>1 DEF Receive, TypeOK
      <3>2. CASE d = c
        <4>1. chan[c] \in Seq(Event) /\ chan[c] # <<>> /\ chan'[c] = Tail(chan[c])
          BY <1>6 DEF Receive, TypeOK
        <4>2. i + 1 \in 1..Len(chan[c]) /\ chan'[c][i] = chan[c][i + 1]
          BY <3>2, <4>1
        <4> QED
          BY <3>2, <4>2
      <3> QED
        BY <3>1, <3>2
    <2> QED
      BY <1>6, <2>1 DEF Receive, Waiting
  <1>7. CASE UNCHANGED chan /\ inflight' \subseteq inflight
    BY <1>7 DEF Waiting
  <1> QED
    BY <1>2, <1>3, <1>4, <1>5, <1>6, <1>7 DEF Next, vars, Cancel, BusPublish

\* The snapshots handed out in events stay prefixes of the stored records,
\* however long an event waits in a channel or for its goroutine.
THEOREM SnapshotsStayPrefixes == Spec => []SnapshotsArePrefixes
  <1>0. SnapshotsArePrefixes <=> \A w \in Waiting : PrefixOf(w.record, w.gid)
    BY DEF SnapshotsArePrefixes, Waiting, PrefixOf
  <1>1. Init => SnapshotsArePrefixes
    <2> SUFFICES ASSUME Init PROVE SnapshotsArePrefixes
      OBVIOUS
    <2>1. Waiting = {}
      BY DEF Init, Waiting
    <2> QED
      BY <1>0, <2>1
  <1>2. TypeOK /\ TypeOK' /\ SnapshotsArePrefixes /\ [Next]_vars => SnapshotsArePrefixes'
    <2> SUFFICES ASSUME TypeOK, TypeOK', SnapshotsArePrefixes, [Next]_vars
                 PROVE  SnapshotsArePrefixes'
      OBVIOUS
    <2>1. \A w \in Waiting : w \in Event
      <3>1. \A c \in Channels : chan[c] \in Seq(Event)
        BY DEF TypeOK
      <3>2. \A c \in Channels : \A i \in 1..Len(chan[c]) : chan[c][i] \in Event
        BY <3>1
      <3> QED
        BY <3>2 DEF Waiting, TypeOK
    <2>2. ASSUME NEW w \in Waiting' PROVE PrefixOf(w.record, w.gid)'
      <3>1. CASE w \in Waiting
        <4>1. /\ w.gid \in DOMAIN records
              /\ Len(w.record.history) <= Len(records[w.gid].history)
              /\ \A i \in 1..Len(w.record.history) :
                     w.record.history[i] = records[w.gid].history[i]
          BY <1>0, <3>1 DEF PrefixOf
        <4>2. w.record \in Record /\ records[w.gid] \in Record
          BY <2>1, <3>1, <4>1 DEF Event, TypeOK
        <4>3. Len(w.record.history) \in Nat /\ Len(records[w.gid].history) \in Nat
          BY <4>2 DEF Record
        <4>4. /\ w.gid \in DOMAIN records'
              /\ Len(records'[w.gid].history) \in Nat
              /\ Len(records[w.gid].history) <= Len(records'[w.gid].history)
              /\ \A i \in 1..Len(records[w.gid].history) :
                     records'[w.gid].history[i] = records[w.gid].history[i]
          BY <4>1, HistoriesGrow
        <4> QED
          BY <4>1, <4>3, <4>4 DEF PrefixOf
      <3>2. CASE w.gid \in DOMAIN records' /\ w.record = records'[w.gid]
        <4>1. records'[w.gid] \in Record
          BY <3>2 DEF TypeOK
        <4>2. Len(records'[w.gid].history) \in Nat
          BY <4>1 DEF Record
        <4> QED
          BY <3>2, <4>2 DEF PrefixOf
      <3> QED
        BY <3>1, <3>2, WaitingStep
    <2> QED
      BY <2>2 DEF SnapshotsArePrefixes, Waiting, PrefixOf
  <1> QED
    BY <1>1, <1>2, MemoryTypeCorrect, PTL DEF Spec

-----------------------------------------------------------------------------
(* Counting the positions of a buffer.                                     *)

LEMMA PositionsFinite ==
    ASSUME NEW n \in Nat, NEW P \in SUBSET (1..n)
    PROVE  IsFiniteSet(P) /\ Cardinality(P) \in Nat
  <1>1. IsFiniteSet(1..n)
    BY FS_Interval
  <1>2. IsFiniteSet(P)
    BY <1>1, FS_Subset
  <1> QED
    BY <1>2, FS_CardinalityType

\* When the first position is taken away and the others move up, one less is
\* counted if the first one was.
LEMMA ShiftCount ==
    ASSUME NEW n \in Nat, NEW P \in SUBSET (1..n), NEW Q, Q = {i \in 1..(n - 1) : i + 1 \in P}
    PROVE  Cardinality(P) = Cardinality(Q) + (IF 1 \in P THEN 1 ELSE 0)
  <1> DEFINE R == P \ {1}
             f == [i \in Q |-> i + 1]
  <1>1. IsFiniteSet(P) /\ Cardinality(P) \in Nat
    BY PositionsFinite
  <1>2. /\ IsFiniteSet(R)
        /\ Cardinality(R) = IF 1 \in P THEN Cardinality(P) - 1 ELSE Cardinality(P)
    BY <1>1, FS_RemoveElement
  <1>3. Q \in SUBSET (1..n)
    OBVIOUS
  <1>4. IsFiniteSet(Q) /\ Cardinality(Q) \in Nat
    BY <1>3, PositionsFinite
  <1>5. f \in [Q -> R]
    OBVIOUS
  <1>6. \A x, y \in Q : f[x] = f[y] => x = y
    OBVIOUS
  <1>7. \A y \in R : \E x \in Q : f[x] = y
    <2> SUFFICES ASSUME NEW y \in R PROVE \E x \in Q : f[x] = y
      OBVIOUS
    <2>1. y - 1 \in Q /\ f[y - 1] = y
      OBVIOUS
    <2> QED
      BY <2>1
  <1> HIDE DEF f, R
  <1>8. f \in Bijection(Q, R)
    <2>1. DOMAIN f = Q
      BY <1>5
    <2>2. f \in Injection(Q, R)
      BY <1>5, <1>6, <2>1 DEF Injection, IsInjective
    <2>3. f \in Surjection(Q, R)
      BY <1>5, <1>7 DEF Surjection
    <2> QED
      BY <2>2, <2>3 DEF Bijection
  <1>9. Cardinality(R) = Cardinality(Q)
    BY <1>4, <1>8, FS_Bijection DEF ExistsBijection
  <1> QED
    BY <1>1, <1>2, <1>4, <1>9

\* The positions of the events of g in a buffer.
PositionsOf(s, g) == {i \in 1..Len(s) : s[i].gid = g}

\* What a send does to the positions of the events of g.
LEMMA SendPositions ==
    ASSUME NEW g, NEW s \in Seq(Event), NEW ev \in Event
    PROVE  PositionsOf(Append(s, ev), g) =
               IF ev.gid = g THEN PositionsOf(s, g) \cup {Len(s) + 1} ELSE PositionsOf(s, g)
  <1> DEFINE n == Len(s)
             t == Append(s, ev)
  <1>1. /\ n \in Nat /\ Len(t) = n + 1 /\ t[n + 1] = ev
        /\ \A i \in 1..n : t[i] = s[i]
    OBVIOUS
  <1> HIDE DEF n, t
  <1>2. /\ PositionsOf(s, g) = {i \in 1..n : s[i].gid = g}
        /\ PositionsOf(t, g) = {i \in 1..(n + 1) : t[i].gid = g}
    BY <1>1 DEF PositionsOf, n
  <1>3. PositionsOf(t, g) = IF ev.gid = g THEN PositionsOf(s, g) \cup {n + 1} ELSE PositionsOf(s, g)
    BY <1>1, <1>2
  <1> QED
    BY <1>3 DEF n, t

\* The events sent before keep their places in the count; a new one of g is
\* the last.
LEMMA SendCount ==
    ASSUME NEW n \in Nat, NEW P \in SUBSET (1..n)
    PROVE  /\ Cardinality(P \cup {n + 1}) = Cardinality(P) + 1
           /\ (P \cup {n + 1}) \cap 1..(n + 1) = P \cup {n + 1}
           /\ \A i \in P : (P \cup {n + 1}) \cap 1..i = P \cap 1..i
  <1>1. IsFiniteSet(P)
    BY PositionsFinite
  <1>2. n + 1 \notin P
    OBVIOUS
  <1>3. Cardinality(P \cup {n + 1}) = Cardinality(P) + 1
    BY <1>1, <1>2, FS_AddElement
  <1>4. (P \cup {n + 1}) \cap 1..(n + 1) = P \cup {n + 1}
    <2>1. n + 1 \in 1..(n + 1) /\ \A i \in P : i \in 1..(n + 1)
      OBVIOUS
    <2> QED
      BY <2>1, Zenon
  <1>5. \A i \in P : (P \cup {n + 1}) \cap 1..i = P \cap 1..i
    OBVIOUS
  <1> QED
    BY <1>3, <1>4, <1>5

\* What a receive does to them.
LEMMA ReceivePositions ==
    ASSUME NEW g, NEW s \in Seq(Event), s # <<>>
    PROVE  /\ PositionsOf(Tail(s), g) = {i \in 1..(Len(s) - 1) : i + 1 \in PositionsOf(s, g)}
           /\ 1 \in PositionsOf(s, g) <=> Head(s).gid = g
           /\ Len(s) - 1 \in Nat
           /\ \A i \in 1..(Len(s) - 1) : Tail(s)[i] = s[i + 1]
  <1> DEFINE n == Len(s)
             t == Tail(s)
  <1>1. /\ n \in Nat /\ n >= 1 /\ Len(t) = n - 1 /\ Head(s) = s[1]
        /\ \A i \in 1..(n - 1) : t[i] = s[i + 1]
    OBVIOUS
  <1> HIDE DEF n, t
  <1>2. /\ PositionsOf(s, g) = {i \in 1..n : s[i].gid = g}
        /\ PositionsOf(t, g) = {i \in 1..(n - 1) : t[i].gid = g}
    BY <1>1 DEF PositionsOf, n
  <1>3. PositionsOf(t, g) = {i \in 1..(n - 1) : i + 1 \in PositionsOf(s, g)}
    BY <1>1, <1>2
  <1>4. 1 \in PositionsOf(s, g) <=> Head(s).gid = g
    BY <1>1, <1>2
  <1> QED
    BY <1>1, <1>3, <1>4 DEF n, t

\* The count up to a position is one less when the first one was counted.
LEMMA ReceiveCount ==
    ASSUME NEW n \in Nat, NEW P \in SUBSET (1..n), NEW Q, Q = {i \in 1..(n - 1) : i + 1 \in P},
           NEW i \in Q
    PROVE  /\ Cardinality(Q \cap 1..i) \in Nat
           /\ Cardinality(P \cap 1..(i + 1)) =
                  Cardinality(Q \cap 1..i) + (IF 1 \in P THEN 1 ELSE 0)
  <1> DEFINE A == P \cap 1..(i + 1)
             B == Q \cap 1..i
  <1>1. A \in SUBSET (1..n) /\ B \in SUBSET (1..n) /\ B = {j \in 1..(n - 1) : j + 1 \in A}
    OBVIOUS
  <1>2. 1 \in A <=> 1 \in P
    OBVIOUS
  <1> HIDE DEF A, B
  <1>3. Cardinality(A) = Cardinality(B) + (IF 1 \in A THEN 1 ELSE 0)
    BY <1>1, ShiftCount
  <1>4. Cardinality(B) \in Nat
    BY <1>1, PositionsFinite
  <1> QED
    BY <1>2, <1>3, <1>4 DEF A, B

-----------------------------------------------------------------------------
(* Subscribers keep up.                                                    *)

\* A subscriber's buffer for g continues what it has seen, without a gap, up
\* to the stored record: the matrix of SubscribersKeepUp.
InOrder(c, g) ==
    /\ seen[c][g] + Cardinality(Pending(c, g)) = Version(records, g)
    /\ \A i \in Pending(c, g) :
           EventVersion(chan[c][i]) = seen[c][g] + Cardinality(Pending(c, g) \cap 1..i)

\* An event carries the version of the record that was stored with it, and the
\* other records keep theirs.
LEMMA PublishedVersion ==
    ASSUME NEW recs, NEW ev
    PROVE  /\ EventVersion(ev) = Version(Put(recs, ev.gid, ev.record), ev.gid)
           /\ \A h : h # ev.gid => Version(Put(recs, ev.gid, ev.record), h) = Version(recs, h)
  <1>1. /\ ev.gid \in DOMAIN Put(recs, ev.gid, ev.record)
        /\ Put(recs, ev.gid, ev.record)[ev.gid] = ev.record
        /\ \A h : h # ev.gid => /\ h \in DOMAIN Put(recs, ev.gid, ev.record) <=> h \in DOMAIN recs
                                /\ h \in DOMAIN recs => Put(recs, ev.gid, ev.record)[h] = recs[h]
    BY DEF Put
  <1>2. EventVersion(ev) = 1 + Len(ev.record.history) + (IF ev.record.status = "retired" THEN 1 ELSE 0)
    BY DEF EventVersion, Version
  <1>3. Version(Put(recs, ev.gid, ev.record), ev.gid) =
            1 + Len(ev.record.history) + (IF ev.record.status = "retired" THEN 1 ELSE 0)
    BY <1>1, Zenon DEF Version
  <1>4. ASSUME NEW h, h # ev.gid PROVE Version(Put(recs, ev.gid, ev.record), h) = Version(recs, h)
    BY <1>1, <1>4, Zenon DEF Version
  <1> QED
    BY <1>2, <1>3, <1>4

\* The commits of the three operations raise the version of the record by one.
LEMMA CommitVersion ==
    ASSUME NEW recs, NEW g
    PROVE  /\ \A owner : g \notin DOMAIN recs =>
                  Version(Put(recs, g, NewRecord(owner)), g) = Version(recs, g) + 1
           /\ \A from, to, protocol : MayTransfer(recs, g, from) /\ recs[g] \in Record =>
                  Version(Put(recs, g, Transferred(recs[g], from, to, protocol)), g) =
                      Version(recs, g) + 1
           /\ MayRetire(recs, g) /\ recs[g] \in Record =>
                  Version(Put(recs, g, Retired(recs[g])), g) = Version(recs, g) + 1
  <1>1. ASSUME NEW owner, g \notin DOMAIN recs
        PROVE  Version(Put(recs, g, NewRecord(owner)), g) = Version(recs, g) + 1
    <2> DEFINE rec == NewRecord(owner)
    <2>1. Version(recs, g) = 0
      BY <1>1 DEF Version
    <2>2. rec.history = <<>> /\ rec.status = "active" /\ Len(rec.history) = 0
      BY DEF NewRecord
    <2> HIDE DEF rec
    <2>3. Version(Put(recs, g, rec), g) = 1 + Len(rec.history) + 0
      BY <2>2 DEF Version, Put
    <2> QED
      BY <2>1, <2>2, <2>3 DEF rec
  <1>2. ASSUME NEW from, NEW to, NEW protocol, MayTransfer(recs, g, from), recs[g] \in Record
        PROVE  Version(Put(recs, g, Transferred(recs[g], from, to, protocol)), g) =
                   Version(recs, g) + 1
    <2> DEFINE rec == Transferred(recs[g], from, to, protocol)
               e == [from |-> from, to |-> to, protocol |-> protocol]
    <2>1. rec.history = Append(recs[g].history, e) /\ rec.status = recs[g].status
      BY DEF Transferred
    <2>2. recs[g].history \in Seq(TransferEntry) /\ recs[g].status # "retired" /\ g \in DOMAIN recs
      BY <1>2 DEF MayTransfer, Record
    <2>3. Len(rec.history) = Len(recs[g].history) + 1 /\ Len(recs[g].history) \in Nat
      BY <2>1, <2>2
    <2>4. Version(recs, g) = 1 + Len(recs[g].history) + 0
      BY <2>2 DEF Version
    <2> HIDE DEF rec
    <2>5. Version(Put(recs, g, rec), g) = 1 + Len(rec.history) + 0
      BY <2>1, <2>2 DEF Version, Put
    <2>6. Version(Put(recs, g, rec), g) = Version(recs, g) + 1
      BY <2>3, <2>4, <2>5
    <2> QED
      BY <2>6 DEF rec
  <1>3. ASSUME MayRetire(recs, g), recs[g] \in Record
        PROVE  Version(Put(recs, g, Retired(recs[g])), g) = Version(recs, g) + 1
    <2> DEFINE rec == Retired(recs[g])
    <2>1. rec.history = recs[g].history /\ rec.status = "retired" /\ Len(recs[g].history) \in Nat
      BY <1>3 DEF Retired, Record
    <2>2. recs[g].status # "retired" /\ g \in DOMAIN recs
      BY <1>3 DEF MayRetire
    <2>3. Version(recs, g) = 1 + Len(recs[g].history) + 0
      BY <2>2 DEF Version
    <2> HIDE DEF rec
    <2>4. Version(Put(recs, g, rec), g) = 1 + Len(recs[g].history) + 1
      BY <2>1 DEF Version, Put
    <2>5. Version(Put(recs, g, rec), g) = Version(recs, g) + 1
      BY <2>1, <2>3, <2>4
    <2> QED
      BY <2>5 DEF rec
  <1> QED
    BY <1>1, <1>2, <1>3

\* A commit and its publication leave every subscriber in order or recorded as
\* having lost an event.
LEMMA PublishKeepsUp ==
    ASSUME TypeOK, SubscribersKeepUp, NEW ev \in Event,
           records' = Put(records, ev.gid, ev.record), publishLocked(ev), UNCHANGED <<subs, seen>>,
           Version(Put(records, ev.gid, ev.record), ev.gid) = Version(records, ev.gid) + 1
    PROVE  SubscribersKeepUp'
  <1> SUFFICES ASSUME NEW c \in DOMAIN subs \ lost', NEW g \in GlobalIDs,
                      matchFilter(subs[c], [gid |-> g])
               PROVE  InOrder(c, g)'
    BY DEF SubscribersKeepUp, InOrder, matchFilter
  <1>1. c \in Channels /\ c \in DOMAIN subs \ lost /\ chan[c] \in Seq(Event)
    BY DEF TypeOK, publishLocked
  <1>2. InOrder(c, g)
    BY <1>1 DEF SubscribersKeepUp, InOrder
  <1>3. seen'[c][g] = seen[c][g] /\ seen[c][g] \in Nat
    BY <1>1 DEF TypeOK
  <1>4. Cardinality(Pending(c, g)) \in Nat
    <2>1. Len(chan[c]) \in Nat /\ Pending(c, g) \in SUBSET (1..Len(chan[c]))
      BY <1>1 DEF Pending
    <2> QED
      BY <2>1, PositionsFinite
  <1>5. CASE g = ev.gid
    <2>1. matchFilter(subs[c], ev)
      BY <1>5 DEF matchFilter
    <2>2. c \in HasRoom(ev)
      BY <1>1, <2>1 DEF publishLocked, Wanted
    <2>3. chan'[c] = Append(chan[c], ev)
      BY <1>1, <2>2 DEF publishLocked
    <2> DEFINE n == Len(chan[c])
               P == Pending(c, g)
               Q == Pending(c, g)'
    <2>4. P = PositionsOf(chan[c], g) /\ Q = PositionsOf(chan'[c], g)
      BY DEF Pending, PositionsOf
    <2>5. /\ n \in Nat /\ P \in SUBSET (1..n) /\ chan'[c][n + 1] = ev
          /\ \A i \in 1..n : chan'[c][i] = chan[c][i]
      BY <1>1, <2>3 DEF Pending
    <2>6. Q = P \cup {n + 1}
      BY <1>1, <1>5, <2>4, <2>3, SendPositions
    <2>7. Version(records', g) = Version(records, g) + 1
      BY <1>5
    <2>8. EventVersion(ev) = Version(records', g)
      BY <1>5, PublishedVersion
    <2>9. /\ seen[c][g] + Cardinality(P) = Version(records, g)
          /\ \A i \in P : EventVersion(chan[c][i]) = seen[c][g] + Cardinality(P \cap 1..i)
      BY <1>2 DEF InOrder
    <2> HIDE DEF n, P, Q
    <2>10. /\ Cardinality(Q) = Cardinality(P) + 1 /\ Q \cap 1..(n + 1) = Q
           /\ \A i \in P : Q \cap 1..i = P \cap 1..i
      BY <2>5, <2>6, SendCount
    <2>11. seen[c][g] + Cardinality(Q) = Version(records', g)
      BY <1>3, <1>4, <2>7, <2>9, <2>10 DEF P
    <2>12. ASSUME NEW i \in Q
          PROVE  EventVersion(chan'[c][i]) = seen[c][g] + Cardinality(Q \cap 1..i)
      <3>1. CASE i = n + 1
        BY <2>5, <2>8, <2>11, <2>10, <3>1
      <3>2. CASE i \in P
        BY <2>5, <2>9, <2>10, <3>2
      <3> QED
        BY <2>6, <3>1, <3>2
    <2> QED
      BY <1>3, <2>11, <2>12 DEF InOrder, Q, EventVersion, Version
  <1>6. CASE g # ev.gid
    <2>1. Version(records', g) = Version(records, g)
      BY <1>6, PublishedVersion
    <2>2. chan'[c] = Append(chan[c], ev) \/ chan'[c] = chan[c]
      BY <1>1 DEF publishLocked
    <2>3. Pending(c, g)' = Pending(c, g) /\ \A i \in Pending(c, g) : chan'[c][i] = chan[c][i]
      <3>1. CASE chan'[c] = Append(chan[c], ev)
        <4>1. PositionsOf(chan'[c], g) = PositionsOf(chan[c], g)
          BY <1>1, <1>6, <3>1, SendPositions
        <4>2. \A i \in 1..Len(chan[c]) : chan'[c][i] = chan[c][i]
          BY <1>1, <3>1
        <4> QED
          BY <4>1, <4>2 DEF Pending, PositionsOf
      <3>2. CASE chan'[c] = chan[c]
        BY <3>2 DEF Pending
      <3> QED
        BY <2>2, <3>1, <3>2
    <2> QED
      BY <1>2, <1>3, <2>1, <2>3 DEF InOrder, EventVersion, Version
  <1> QED
    BY <1>5, <1>6

\* Receiving the first event of the buffer leaves the rest in order.
LEMMA ReceiveKeepsUp ==
    ASSUME TypeOK, SubscribersKeepUp, NEW d \in Channels, Receive(d)
    PROVE  SubscribersKeepUp'
  <1> SUFFICES ASSUME NEW c \in DOMAIN subs' \ lost', NEW g \in GlobalIDs,
                      matchFilter(subs'[c], [gid |-> g])
               PROVE  InOrder(c, g)'
    BY DEF SubscribersKeepUp, InOrder, matchFilter
  <1>0. UNCHANGED <<records, subs, lost>>
    BY DEF Receive
  <1>1. c \in Channels /\ chan[c] \in Seq(Event) /\ seen[c][g] \in Nat
    BY <1>0 DEF TypeOK
  <1>2. InOrder(c, g)
    BY <1>0 DEF SubscribersKeepUp, InOrder
  <1>3. CASE c # d
    <2>1. chan'[c] = chan[c] /\ seen'[c] = seen[c]
      BY <1>1, <1>3 DEF Receive, TypeOK
    <2> QED
      BY <1>0, <1>2, <2>1 DEF InOrder, Pending, EventVersion, Version
  <1>4. CASE c = d
    <2> DEFINE s == chan[c]
               t == chan'[c]
               P == PositionsOf(s, g)
               Q == PositionsOf(t, g)
               one == IF 1 \in P THEN 1 ELSE 0
               now == seen'[c][g]
    <2>1. s \in Seq(Event) /\ s # <<>> /\ t = Tail(s)
      BY <1>1, <1>4 DEF Receive, TypeOK
    <2>2. Pending(c, g) = P /\ Pending(c, g)' = Q
      BY DEF Pending, PositionsOf
    <2>3. Head(s) \in Event /\ Head(s) = s[1]
      BY <2>1
    <2>4. now = IF Head(s).gid = g THEN EventVersion(s[1]) ELSE seen[c][g]
      <3>1. seen' = [seen EXCEPT ![c] = [seen[c] EXCEPT ![Head(s).gid] = EventVersion(Head(s))]]
        BY <1>4 DEF Receive
      <3>2. seen[c] \in [GlobalIDs -> Nat] /\ seen \in [Channels -> [GlobalIDs -> Nat]]
        BY <1>1 DEF TypeOK
      <3> HIDE DEF s
      <3> QED
        BY <1>1, <2>3, <3>1, <3>2
    <2>5. /\ seen[c][g] + Cardinality(P) = Version(records, g)
          /\ \A i \in P : EventVersion(s[i]) = seen[c][g] + Cardinality(P \cap 1..i)
      BY <1>2, <2>2 DEF InOrder
    <2>6. Len(s) \in Nat /\ P \in SUBSET (1..Len(s))
      BY <2>1 DEF PositionsOf
    <2> HIDE DEF s, t
    <2>7. /\ Q = {i \in 1..(Len(s) - 1) : i + 1 \in P}
          /\ 1 \in P <=> Head(s).gid = g
          /\ \A i \in 1..(Len(s) - 1) : t[i] = s[i + 1]
      BY <2>1, ReceivePositions
    <2> HIDE DEF P, Q, now
    <2>8. Cardinality(P) = Cardinality(Q) + one /\ Cardinality(Q) \in Nat
      <3>1. Q \in SUBSET (1..Len(s))
        BY <2>6, <2>7
      <3>2. Cardinality(Q) \in Nat
        BY <2>6, <3>1, PositionsFinite
      <3>3. Cardinality(P) = Cardinality(Q) + one
        BY <2>6, <2>7, ShiftCount
      <3> QED
        BY <3>2, <3>3
    <2>9. now = seen[c][g] + one /\ one \in Nat
      <3>1. CASE 1 \in P
        <4>1. P \cap 1..1 = {1}
          BY <3>1
        <4>2. Cardinality(P \cap 1..1) = 1
          BY <4>1, FS_Singleton
        <4> QED
          BY <2>4, <2>5, <2>7, <3>1, <4>2
      <3>2. CASE 1 \notin P
        BY <1>1, <2>4, <2>7, <3>2
      <3> QED
        BY <3>1, <3>2
    <2>10. ASSUME NEW i \in Q
           PROVE  EventVersion(t[i]) = now + Cardinality(Q \cap 1..i)
      <3>1. i + 1 \in P /\ t[i] = s[i + 1]
        BY <2>7
      <3>2. EventVersion(t[i]) = seen[c][g] + Cardinality(P \cap 1..(i + 1))
        BY <2>5, <3>1
      <3>3. /\ Cardinality(Q \cap 1..i) \in Nat
            /\ Cardinality(P \cap 1..(i + 1)) = Cardinality(Q \cap 1..i) + one
        BY <2>6, <2>7, ReceiveCount
      <3> HIDE DEF one
      <3> QED
        BY <1>1, <2>9, <3>2, <3>3
    <2> HIDE DEF one
    <2>11. now + Cardinality(Q) = Version(records, g)
      BY <1>1, <2>5, <2>8, <2>9
    <2> QED
      BY <1>0, <2>2, <2>10, <2>11 DEF InOrder, now, t, EventVersion, Version
  <1> QED
    BY <1>3, <1>4

\* A new subscription starts at the stored records, with an empty buffer.
LEMMA SubscribeKeepsUp ==
    ASSUME TypeOK, TypeOK', SubscribersKeepUp, NEW d \in Channels, NEW f \in Filters, Subscribe(d, f)
    PROVE  SubscribersKeepUp'
  <1> SUFFICES ASSUME NEW c \in DOMAIN subs' \ lost', NEW g \in GlobalIDs,
                      matchFilter(subs'[c], [gid |-> g])
               PROVE  InOrder(c, g)'
    BY DEF SubscribersKeepUp, InOrder, matchFilter
  <1>1. c \in Channels /\ UNCHANGED records
    BY DEF TypeOK, Subscribe
  <1>2. CASE c = d
    <2>1. chan'[c] = <<>> /\ seen'[c][g] = Version(records, g)
      BY <1>1, <1>2 DEF Subscribe, TypeOK
    <2>2. Pending(c, g)' = {}
      BY <2>1 DEF Pending
    <2>3. Cardinality(Pending(c, g)') = 0
      BY <2>2, FS_EmptySet
    <2>4. Version(records, g) \in Nat
      BY VersionType DEF TypeOK
    <2>5. seen'[c][g] + Cardinality(Pending(c, g)') = Version(records', g)
      BY <1>1, <2>1, <2>3, <2>4
    <2> QED
      BY <2>2, <2>5, Zenon DEF InOrder, Version
  <1>3. CASE c # d
    <2>1. c \in DOMAIN subs \ lost /\ subs'[c] = subs[c]
      BY <1>3 DEF Subscribe, Put
    <2>2. chan'[c] = chan[c] /\ seen'[c] = seen[c]
      BY <1>1, <1>3 DEF Subscribe, TypeOK
    <2>3. InOrder(c, g)
      BY <2>1 DEF SubscribersKeepUp, InOrder
    <2> QED
      BY <1>1, <2>2, <2>3 DEF InOrder, Pending, EventVersion, Version
  <1> QED
    BY <1>2, <1>3

\* A subscriber that lost no event is exactly its buffer behind the registry
\* (publishLocked and Subscribe under one mutex): no event is skipped, repeated
\* or reordered, for any number of channels, filters and capacities.
THEOREM SubscribersNeverSkip == Spec => []SubscribersKeepUp
  <1>1. Init => SubscribersKeepUp
    BY DEF Init, SubscribersKeepUp
  <1>2. TypeOK /\ TypeOK' /\ SubscribersKeepUp /\ [Next]_vars => SubscribersKeepUp'
    <2> SUFFICES ASSUME TypeOK, TypeOK', SubscribersKeepUp, [Next]_vars
                 PROVE  SubscribersKeepUp'
      OBVIOUS
    <2>1. ASSUME NEW g \in GlobalIDs, NEW owner \in LocalRefs, Register(g, owner)
          PROVE  SubscribersKeepUp'
      <3> DEFINE rec == NewRecord(owner)
                 ev == [kind |-> "registered", gid |-> g, record |-> rec]
      <3>1. rec \in Record
        BY NewRecordType
      <3>2. Version(Put(records, g, rec), g) = Version(records, g) + 1
        BY <2>1, CommitVersion DEF Register
      <3>3. records' = Put(records, g, rec) /\ publishLocked(ev) /\ UNCHANGED <<subs, seen>>
        BY <2>1 DEF Register
      <3> HIDE DEF rec
      <3>4. ev \in Event /\ ev.gid = g /\ ev.record = rec
        BY <3>1 DEF Event, Kinds
      <3> HIDE DEF ev
      <3> QED
        BY <3>2, <3>3, <3>4, PublishKeepsUp
    <2>2. ASSUME NEW g \in GlobalIDs, NEW from \in LocalRefs, NEW to \in LocalRefs,
                 NEW protocol \in Protocols, Transfer(g, from, to, protocol)
          PROVE  SubscribersKeepUp'
      <3> DEFINE rec == Transferred(records[g], from, to, protocol)
                 ev == [kind |-> "transferred", gid |-> g, record |-> rec]
      <3>1. records[g] \in Record /\ MayTransfer(records, g, from)
        BY <2>2 DEF Transfer, MayTransfer, TypeOK
      <3>2. Version(Put(records, g, rec), g) = Version(records, g) + 1
        BY <3>1, CommitVersion
      <3>3. records' = Put(records, g, rec) /\ publishLocked(ev) /\ UNCHANGED <<subs, seen>>
        BY <2>2 DEF Transfer
      <3>4. rec \in Record
        BY <3>1, TransferredRecord
      <3> HIDE DEF rec
      <3>5. ev \in Event /\ ev.gid = g /\ ev.record = rec
        BY <3>4 DEF Event, Kinds
      <3> HIDE DEF ev
      <3> QED
        BY <3>2, <3>3, <3>5, PublishKeepsUp
    <2>3. ASSUME NEW g \in GlobalIDs, Retire(g) PROVE SubscribersKeepUp'
      <3> DEFINE rec == Retired(records[g])
                 ev == [kind |-> "retired", gid |-> g, record |-> rec]
      <3>1. records[g] \in Record /\ MayRetire(records, g)
        BY <2>3 DEF Retire, MayRetire, TypeOK
      <3>2. Version(Put(records, g, rec), g) = Version(records, g) + 1
        BY <3>1, CommitVersion
      <3>3. records' = Put(records, g, rec) /\ publishLocked(ev) /\ UNCHANGED <<subs, seen>>
        BY <2>3 DEF Retire
      <3>4. rec \in Record
        BY <3>1, RetiredRecord
      <3> HIDE DEF rec
      <3>5. ev \in Event /\ ev.gid = g /\ ev.record = rec
        BY <3>4 DEF Event, Kinds
      <3> HIDE DEF ev
      <3> QED
        BY <3>2, <3>3, <3>5, PublishKeepsUp
    <2>4. ASSUME UNCHANGED <<records, chan, seen, lost>>, DOMAIN subs' \subseteq DOMAIN subs,
                 \A d \in DOMAIN subs' : subs'[d] = subs[d]
          PROVE  SubscribersKeepUp'
      <3> SUFFICES ASSUME NEW c \in DOMAIN subs' \ lost', NEW g \in GlobalIDs,
                          matchFilter(subs'[c], [gid |-> g])
                   PROVE  InOrder(c, g)'
        BY DEF SubscribersKeepUp, InOrder, matchFilter
      <3>1. c \in DOMAIN subs \ lost /\ matchFilter(subs[c], [gid |-> g])
        BY <2>4
      <3>2. InOrder(c, g)
        BY <3>1 DEF SubscribersKeepUp, InOrder
      <3> QED
        BY <2>4, <3>2 DEF InOrder, Pending, EventVersion, Version
    <2>5. ASSUME NEW c \in Channels, Cancel(c) PROVE SubscribersKeepUp'
      BY <2>4, <2>5 DEF Cancel
    <2>6. CASE UNCHANGED <<records, subs, chan, seen, lost>>
      BY <2>4, <2>6
    <2> QED
      BY <2>1, <2>2, <2>3, <2>5, <2>6, ReceiveKeepsUp, SubscribeKeepsUp
      DEF Next, vars, BusPublish
  <1> QED
    BY <1>1, <1>2, MemoryTypeCorrect, PTL DEF Spec
=============================================================================
