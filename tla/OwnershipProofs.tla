-------------------------- MODULE OwnershipProofs --------------------------
(***************************************************************************)
(* The ownership specification keeps its type, its chain of custody and    *)
(* its append-only history, for any sets of GlobalIDs, LocalRefs and       *)
(* protocols and any bound on the history.                                 *)
(***************************************************************************)
EXTENDS Ownership, RecordsProofs

\* Type correctness of the ownership records.
THEOREM TypeCorrect == Spec => []TypeOK
  <1>1. Init => TypeOK
    BY DEF Init, TypeOK
  <1>2. TypeOK /\ [Next]_records => TypeOK'
    <2> SUFFICES ASSUME TypeOK, [Next]_records PROVE TypeOK'
      OBVIOUS
    <2>1. ASSUME NEW g \in GlobalIDs, NEW owner \in LocalRefs, Register(g, owner)
          PROVE  TypeOK'
      BY <2>1, NewRecordType, PutType DEF Register, TypeOK
    <2>2. ASSUME NEW g \in GlobalIDs, NEW from \in LocalRefs, NEW to \in LocalRefs,
                 NEW protocol \in Protocols, Transfer(g, from, to, protocol)
          PROVE  TypeOK'
      <3>1. records[g] \in Record
        BY <2>2 DEF Transfer, MayTransfer, TypeOK
      <3> QED
        BY <2>2, <3>1, TransferredRecord, PutType DEF Transfer, TypeOK
    <2>3. ASSUME NEW g \in GlobalIDs, Retire(g) PROVE TypeOK'
      <3>1. records[g] \in Record
        BY <2>3 DEF Retire, MayRetire, TypeOK
      <3> QED
        BY <2>3, <3>1, RetiredRecord, PutType DEF Retire, TypeOK
    <2>4. CASE UNCHANGED records
      BY <2>4 DEF TypeOK
    <2> QED
      BY <2>1, <2>2, <2>3, <2>4 DEF Next
  <1> QED
    BY <1>1, <1>2, PTL DEF Spec

\* Whether one record's history is an unbroken chain to its current owner.
Chained(rec) ==
    /\ \A i \in 1..Len(rec.history) - 1 : rec.history[i].to = rec.history[i + 1].from
    /\ rec.history # <<>> => rec.history[Len(rec.history)].to = rec.current

\* A transfer out of the current owner extends the chain.
LEMMA TransferredChained ==
    ASSUME NEW rec \in Record, NEW to \in LocalRefs, NEW protocol \in Protocols,
           Chained(rec)
    PROVE  Chained(Transferred(rec, rec.current, to, protocol))
  <1> DEFINE e == [from |-> rec.current, to |-> to, protocol |-> protocol]
             new == Transferred(rec, rec.current, to, protocol)
             h == rec.history
  <1>1. /\ rec.current \in LocalRefs
        /\ h \in Seq(TransferEntry)
        /\ e \in TransferEntry
    BY DEF Record, TransferEntry
  <1>2. new.current = to /\ new.history = Append(h, e)
    BY <1>1, TransferredRecord
  <1>3. /\ Len(new.history) = Len(h) + 1
        /\ new.history[Len(h) + 1] = e
        /\ \A i \in 1..Len(h) : new.history[i] = h[i]
    BY <1>1, <1>2
  <1>4. \A i \in 1..Len(new.history) - 1 : new.history[i].to = new.history[i + 1].from
    <2> SUFFICES ASSUME NEW i \in 1..Len(new.history) - 1
                 PROVE  new.history[i].to = new.history[i + 1].from
      OBVIOUS
    <2>1. Len(h) \in Nat /\ i \in 1..Len(h)
      BY <1>1, <1>3
    <2>2. CASE i = Len(h)
      <3>1. h # <<>>
        BY <1>1, <2>1
      <3> QED
        BY <1>3, <2>1, <2>2, <3>1 DEF Chained
    <2>3. CASE i # Len(h)
      <3>1. i \in 1..Len(h) - 1 /\ i + 1 \in 1..Len(h)
        BY <2>1, <2>3
      <3> QED
        BY <1>3, <2>1, <3>1 DEF Chained
    <2> QED
      BY <2>2, <2>3
  <1>5. new.history[Len(new.history)].to = new.current
    BY <1>2, <1>3
  <1> QED
    BY <1>4, <1>5 DEF Chained

\* The chain of custody is never broken: every transfer starts at the owner
\* the one before ended at (MemoryRegistry.Transfer, the From check).
THEOREM CustodyIsUnbroken == Spec => []ChainOfCustody
  <1>0. ChainOfCustody <=> \A g \in DOMAIN records : Chained(records[g])
    BY DEF ChainOfCustody, Chained
  <1>1. Init => ChainOfCustody
    BY DEF Init, ChainOfCustody
  <1>2. ChainOfCustody /\ TypeOK /\ [Next]_records => ChainOfCustody'
    <2> SUFFICES ASSUME ChainOfCustody, TypeOK, [Next]_records PROVE ChainOfCustody'
      OBVIOUS
    <2>0. \A g \in DOMAIN records : records[g] \in Record /\ Chained(records[g])
      BY <1>0 DEF TypeOK
    <2>1. SUFFICES \A g \in DOMAIN records' : Chained(records'[g])
      BY DEF ChainOfCustody, Chained
    <2>2. ASSUME NEW g \in GlobalIDs, NEW owner \in LocalRefs, Register(g, owner)
          PROVE  \A x \in DOMAIN records' : Chained(records'[x])
      <3>1. Chained(NewRecord(owner))
        BY DEF Chained, NewRecord
      <3>3. \A x \in DOMAIN records' :
               records'[x] = NewRecord(owner) \/ (x \in DOMAIN records /\ records'[x] = records[x])
        BY <2>2, PutCases DEF Register
      <3> QED
        BY <2>0, <3>1, <3>3
    <2>3. ASSUME NEW g \in GlobalIDs, NEW from \in LocalRefs, NEW to \in LocalRefs,
                 NEW protocol \in Protocols, Transfer(g, from, to, protocol)
          PROVE  \A x \in DOMAIN records' : Chained(records'[x])
      <3>1. g \in DOMAIN records /\ from = records[g].current
        BY <2>3 DEF Transfer, MayTransfer
      <3>2. Chained(Transferred(records[g], from, to, protocol))
        BY <2>0, <3>1, TransferredChained
      <3>3. \A x \in DOMAIN records' :
               records'[x] = Transferred(records[g], from, to, protocol) \/ (x \in DOMAIN records /\ records'[x] = records[x])
        BY <2>3, PutCases DEF Transfer
      <3> QED
        BY <2>0, <3>2, <3>3
    <2>4. ASSUME NEW g \in GlobalIDs, Retire(g)
          PROVE  \A x \in DOMAIN records' : Chained(records'[x])
      <3>1. g \in DOMAIN records
        BY <2>4 DEF Retire, MayRetire
      <3>2. Chained(Retired(records[g]))
        BY <2>0, <3>1, RetiredRecord DEF Chained
      <3>3. \A x \in DOMAIN records' :
               records'[x] = Retired(records[g]) \/ (x \in DOMAIN records /\ records'[x] = records[x])
        BY <2>4, PutCases DEF Retire
      <3> QED
        BY <2>0, <3>2, <3>3
    <2>5. CASE UNCHANGED records
      BY <2>0, <2>5
    <2> QED
      BY <2>2, <2>3, <2>4, <2>5 DEF Next
  <1> QED
    BY <1>1, <1>2, TypeCorrect, PTL DEF Spec

\* No step forgets a GlobalID, rewrites a recorded transfer or touches a
\* retired entity.
THEOREM HistoryIsAppendOnly == Spec => AppendOnly
  <1> DEFINE Keeps(old, new) ==
               /\ \A i \in 1..Len(old.history) : new.history[i] = old.history[i]
               /\ Len(new.history) >= Len(old.history)
               /\ old.status = "retired" => new = old
             Step == \A g \in DOMAIN records :
                        /\ g \in DOMAIN records'
                        /\ \A i \in 1..Len(records[g].history) :
                               records'[g].history[i] = records[g].history[i]
                        /\ Len(records'[g].history) >= Len(records[g].history)
                        /\ records[g].status = "retired" => records'[g] = records[g]
  <1>1. ASSUME TypeOK, Next PROVE Step
    <2>0. \A g \in DOMAIN records : records[g] \in Record /\ Keeps(records[g], records[g])
      BY <1>1 DEF TypeOK, Record
    <2> SUFFICES \A x \in DOMAIN records : x \in DOMAIN records' /\ Keeps(records[x], records'[x])
      OBVIOUS
    <2> HIDE DEF Keeps
    <2>1. ASSUME NEW g \in GlobalIDs, NEW owner \in LocalRefs, Register(g, owner)
          PROVE  \A x \in DOMAIN records : x \in DOMAIN records' /\ Keeps(records[x], records'[x])
      <3>1. \A x \in DOMAIN records : x \in DOMAIN records' /\ records'[x] = records[x]
        BY <2>1 DEF Register, Put
      <3> QED
        BY <2>0, <3>1
    <2>2. ASSUME NEW g \in GlobalIDs, NEW from \in LocalRefs, NEW to \in LocalRefs,
                 NEW protocol \in Protocols, Transfer(g, from, to, protocol)
          PROVE  \A x \in DOMAIN records : x \in DOMAIN records' /\ Keeps(records[x], records'[x])
      <3> DEFINE new == Transferred(records[g], from, to, protocol)
                 e == [from |-> from, to |-> to, protocol |-> protocol]
      <3>1. g \in DOMAIN records /\ records[g] \in Record /\ records[g].status # "retired"
        BY <2>0, <2>2 DEF Transfer, MayTransfer
      <3>2. new.history = Append(records[g].history, e)
        BY <3>1, TransferredRecord
      <3>3. records[g].history \in Seq(TransferEntry) /\ e \in TransferEntry
        BY <3>1 DEF Record, TransferEntry
      <3>4. Keeps(records[g], new)
        BY <3>1, <3>2, <3>3 DEF Keeps
      <3>5. \A x \in DOMAIN records : x \in DOMAIN records' /\
               ((x = g /\ records'[x] = new) \/ records'[x] = records[x])
        BY <2>2 DEF Transfer, Put
      <3> QED
        BY <2>0, <3>4, <3>5
    <2>3. ASSUME NEW g \in GlobalIDs, Retire(g)
          PROVE  \A x \in DOMAIN records : x \in DOMAIN records' /\ Keeps(records[x], records'[x])
      <3>1. g \in DOMAIN records /\ records[g] \in Record /\ records[g].status # "retired"
        BY <2>0, <2>3 DEF Retire, MayRetire
      <3>2. Keeps(records[g], Retired(records[g]))
        BY <3>1, RetiredRecord DEF Keeps, Record
      <3>5. \A x \in DOMAIN records : x \in DOMAIN records' /\
               ((x = g /\ records'[x] = Retired(records[g])) \/ records'[x] = records[x])
        BY <2>3 DEF Retire, Put
      <3> QED
        BY <2>0, <3>2, <3>5
    <2> QED
      BY <1>1, <2>1, <2>2, <2>3 DEF Next
  <1>2. TypeOK /\ [Next]_records => [Step]_records
    BY <1>1
  <1>3. []TypeOK /\ [][Next]_records => [][Step]_records
    BY <1>2, PTL
  <1> QED
    BY <1>3, TypeCorrect, PTL DEF Spec, AppendOnly
=============================================================================
