--------------------------- MODULE RecordsProofs ---------------------------
(***************************************************************************)
(* What the operators of Records do to a record and to a map of records:   *)
(* the facts the proofs about the modules that keep such maps rest on.     *)
(***************************************************************************)
EXTENDS Records, TLAPS

\* After a Put each record is the one written or one kept as it was.
LEMMA PutCases ==
    ASSUME NEW recs, NEW g, NEW rec, NEW x \in DOMAIN Put(recs, g, rec)
    PROVE  \/ x = g /\ Put(recs, g, rec)[x] = rec
           \/ x # g /\ x \in DOMAIN recs /\ Put(recs, g, rec)[x] = recs[x]
    BY DEF Put

\* Put keeps a well-typed map well typed.
LEMMA PutType ==
    ASSUME NEW recs, NEW g \in GlobalIDs, NEW rec \in Record,
           DOMAIN recs \subseteq GlobalIDs,
           recs \in [DOMAIN recs -> Record]
    PROVE  /\ DOMAIN Put(recs, g, rec) \subseteq GlobalIDs
           /\ Put(recs, g, rec) \in [DOMAIN Put(recs, g, rec) -> Record]
    BY DEF Put

\* The records that Register, Transfer and Retire write are well typed.
LEMMA NewRecordType ==
    ASSUME NEW owner \in LocalRefs
    PROVE  NewRecord(owner) \in Record
    BY DEF NewRecord, Record, Statuses

\* Transferred keeps a record well typed; it appends one entry and moves the
\* current owner.
LEMMA TransferredRecord ==
    ASSUME NEW rec \in Record, NEW from \in LocalRefs, NEW to \in LocalRefs,
           NEW protocol \in Protocols
    PROVE  /\ Transferred(rec, from, to, protocol) \in Record
           /\ Transferred(rec, from, to, protocol).current = to
           /\ Transferred(rec, from, to, protocol).status = rec.status
           /\ Transferred(rec, from, to, protocol).history =
                  Append(rec.history, [from |-> from, to |-> to, protocol |-> protocol])
  <1> DEFINE e == [from |-> from, to |-> to, protocol |-> protocol]
             h == Append(rec.history, e)
  <1>1. e \in TransferEntry /\ rec.history \in Seq(TransferEntry)
    BY DEF Record, TransferEntry
  <1>2. h \in Seq(TransferEntry)
    BY <1>1
  <1>3. Transferred(rec, from, to, protocol) =
            [current |-> to, history |-> h, status |-> rec.status]
    BY DEF Transferred
  <1> HIDE DEF h
  <1>4. rec.status \in Statuses
    BY DEF Record
  <1>5. Transferred(rec, from, to, protocol) \in Record
    BY <1>2, <1>3, <1>4 DEF Record
  <1> QED
    BY <1>3, <1>5 DEF h

\* Retired changes the status only.
LEMMA RetiredRecord ==
    ASSUME NEW rec \in Record
    PROVE  /\ Retired(rec) \in Record
           /\ Retired(rec).current = rec.current
           /\ Retired(rec).history = rec.history
    BY DEF Retired, Record, Statuses
\* An entry of a history after a transfer is an old entry or the new one.
LEMMA TransferredEntries ==
    ASSUME NEW recs, recs \in [DOMAIN recs -> Record], NEW g \in DOMAIN recs,
           NEW from \in LocalRefs, NEW to \in LocalRefs, NEW protocol \in Protocols,
           NEW after, after = Put(recs, g, Transferred(recs[g], from, to, protocol)),
           NEW x \in DOMAIN after, NEW i \in 1..Len(after[x].history)
    PROVE  \/ /\ x \in DOMAIN recs /\ i \in 1..Len(recs[x].history)
              /\ after[x].history[i] = recs[x].history[i]
           \/ /\ x = g
              /\ after[x].history[i] = [from |-> from, to |-> to, protocol |-> protocol]
  <1>1. CASE x # g
    BY <1>1 DEF Put
  <1>2. CASE x = g
    <2> DEFINE e == [from |-> from, to |-> to, protocol |-> protocol]
    <2>1. recs[g] \in Record /\ recs[g].history \in Seq(TransferEntry) /\ e \in TransferEntry
      BY DEF Record, TransferEntry
    <2>2. after[g].history = Append(recs[g].history, e)
      BY <2>1, TransferredRecord DEF Put
    <2> HIDE DEF e
    <2>3. i \in 1..Len(recs[g].history) + 1
      BY <1>2, <2>1, <2>2
    <2>4. CASE i = Len(recs[g].history) + 1
      BY <1>2, <2>1, <2>2, <2>4 DEF e
    <2>5. CASE i # Len(recs[g].history) + 1
      BY <1>2, <2>1, <2>2, <2>3, <2>5
    <2> QED
      BY <2>4, <2>5
  <1> QED
    BY <1>1, <1>2
=============================================================================
