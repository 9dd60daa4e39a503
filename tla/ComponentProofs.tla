-------------------------- MODULE ComponentProofs --------------------------
(***************************************************************************)
(* Theorems about the components around the registry and the entity        *)
(* store, each with the inductive invariant it takes: the negotiator's     *)
(* proposals and the registry's records tell the same story, the tenant    *)
(* directory counts what the registry holds, the event bus delivers,       *)
(* xolu's graph persister forgets no change, the outcomes of query jobs    *)
(* are kept, and the proxy's reads reach their tenants.  The components    *)
(* run by themselves; each has variables of its own here.                  *)
(***************************************************************************)
EXTENDS Edge, Xolu, RecordsProofs, FiniteSetTheorems, SequenceTheorems, WellFoundedInduction

-----------------------------------------------------------------------------
(* The transfer negotiator.                                                *)

\* The transfer a proposal asks for.
Entry(p) == [from |-> p.from, to |-> p.to, protocol |-> p.protocol]

\* A commit appends the entry of the proposal to the record it is about and
\* leaves every other record alone.
LEMMA CommitEffect ==
    ASSUME TypeOK, NEW p, p.gid \in GlobalIDs, p.from \in LocalRefs, p.to \in LocalRefs,
           p.protocol \in Protocols, Commit(p)
    PROVE  /\ DOMAIN records' = DOMAIN records
           /\ p.gid \in DOMAIN records
           /\ records' \in [DOMAIN records -> Record]
           /\ records'[p.gid].history = Append(records[p.gid].history, Entry(p))
           /\ \A g \in DOMAIN records \ {p.gid} : records'[g] = records[g]
  <1> DEFINE rec == Transferred(records[p.gid], p.from, p.to, p.protocol)
  <1>1. p.gid \in DOMAIN records /\ records[p.gid] \in Record
    BY DEF Commit, MayTransfer, TypeOK
  <1>2. rec \in Record /\ rec.history = Append(records[p.gid].history, Entry(p))
    BY <1>1, TransferredRecord, SMTT(30) DEF Entry
  <1>3. records' = Put(records, p.gid, rec)
    BY DEF Commit
  <1> HIDE DEF rec
  <1> QED
    BY <1>1, <1>2, <1>3 DEF Put, TypeOK

\* The histories stay within reach of lost: a commit keeps the places named
\* there, and the new place is not among them.
LEMMA LostPlaces ==
    ASSUME TypeOK, NEW g \in DOMAIN records
    PROVE  /\ records[g].history \in Seq(TransferEntry)
           /\ Len(records[g].history) \in Nat
           /\ <<g, Len(records[g].history) + 1>> \notin lost
  <1>1. records[g] \in Record
    BY DEF TypeOK
  <1>2. records[g].history \in Seq(TransferEntry)
    BY <1>1 DEF Record
  <1>3. Len(records[g].history) \in Nat
    BY <1>2
  <1>4. ASSUME <<g, Len(records[g].history) + 1>> \in lost PROVE FALSE
    <2>1. Len(records[g].history) + 1 \in 1..Len(records[g].history)
      BY <1>4 DEF TypeOK
    <2> QED
      BY <1>3, <2>1
  <1> QED
    BY <1>2, <1>3, <1>4

\* Places named in lost exist after a commit, and so does the new one.
LEMMA LostAfterCommit ==
    ASSUME TypeOK, NEW p, p.gid \in GlobalIDs, p.from \in LocalRefs, p.to \in LocalRefs,
           p.protocol \in Protocols, Commit(p),
           NEW l \in lost \cup {<<p.gid, Len(records[p.gid].history) + 1>>}
    PROVE  l[1] \in DOMAIN records' /\ l[2] \in 1..Len(records'[l[1]].history)
  <1> DEFINE g == p.gid
             h == records[g].history
  <1>1. /\ DOMAIN records' = DOMAIN records /\ g \in DOMAIN records
        /\ records'[g].history = Append(h, Entry(p))
        /\ \A x \in DOMAIN records \ {g} : records'[x] = records[x]
    BY CommitEffect
  <1>2. h \in Seq(TransferEntry) /\ Len(h) \in Nat
    BY <1>1, LostPlaces
  <1>3. Entry(p) \in TransferEntry
    BY DEF Entry, TransferEntry
  <1>4. Len(records'[g].history) = Len(h) + 1
    BY <1>1, <1>2, <1>3
  <1>5. CASE l \in lost
    <2>1. l[1] \in DOMAIN records /\ l[2] \in 1..Len(records[l[1]].history)
      BY <1>5 DEF TypeOK
    <2>2. CASE l[1] = g
      BY <1>1, <1>2, <1>4, <2>1, <2>2
    <2>3. CASE l[1] # g
      BY <1>1, <2>1, <2>3
    <2> QED
      BY <2>2, <2>3
  <1>6. CASE l = <<g, Len(h) + 1>>
    BY <1>1, <1>2, <1>4, <1>6
  <1> QED
    BY <1>5, <1>6

\* A change of state keeps proposals well formed.
LEMMA StateType ==
    ASSUME TypeOK, NEW id \in DOMAIN proposals, NEW s \in ProposalStates
    PROVE  LET new == [proposals EXCEPT ![id].state = s]
           IN  /\ DOMAIN new = DOMAIN proposals
               /\ new \in [DOMAIN proposals -> Proposal]
  BY DEF TypeOK, Proposal

\* Type correctness of the negotiator: proposals stay in their lifecycle and
\* records stay well formed, whoever else uses the registry.
THEOREM NegotiatorTypeCorrect == Spec => []TypeOK
  <1>1. Init => TypeOK
    BY NegotiatorAssumption DEF Init, TypeOK
  <1>2. TypeOK /\ [Next]_vars => TypeOK'
    <2> SUFFICES ASSUME TypeOK, [Next]_vars PROVE TypeOK'
      OBVIOUS
    <2>0. \A id \in DOMAIN proposals : proposals[id] \in Proposal
      BY DEF TypeOK
    <2>1. ASSUME NEW id \in ProposalIDs, NEW g \in GlobalIDs, NEW from \in LocalRefs,
                 NEW to \in LocalRefs, NEW protocol \in Protocols \ {ClientProtocol},
                 Propose(id, g, from, to, protocol)
          PROVE  TypeOK'
      BY <2>1 DEF Propose, TypeOK, Put, Proposal, ProposalStates
    <2>2. ASSUME NEW id \in DOMAIN proposals, Accept(id) PROVE TypeOK'
      <3> DEFINE p == proposals[id]
      <3>1. p.gid \in GlobalIDs /\ p.from \in LocalRefs /\ p.to \in LocalRefs
            /\ p.protocol \in Protocols /\ Commit(p)
        BY <2>0, <2>2 DEF Accept, Proposal
      <3>2. DOMAIN records' = DOMAIN records /\ records' \in [DOMAIN records -> Record]
        BY <3>1, CommitEffect
      <3>3. \A l \in lost : l[1] \in DOMAIN records' /\ l[2] \in 1..Len(records'[l[1]].history)
        BY <3>1, LostAfterCommit
      <3>4. DOMAIN proposals' = DOMAIN proposals /\ proposals' \in [DOMAIN proposals -> Proposal]
        BY <2>2, StateType DEF Accept, ProposalStates
      <3> QED
        BY <2>2, <3>2, <3>3, <3>4 DEF Accept, TypeOK
    <2>3. ASSUME NEW id \in DOMAIN proposals, AcceptReplyLost(id) PROVE TypeOK'
      <3> DEFINE p == proposals[id]
      <3>1. p.gid \in GlobalIDs /\ p.from \in LocalRefs /\ p.to \in LocalRefs
            /\ p.protocol \in Protocols /\ Commit(p)
        BY <2>0, <2>3 DEF AcceptReplyLost, Proposal
      <3>2. DOMAIN records' = DOMAIN records /\ records' \in [DOMAIN records -> Record]
        BY <3>1, CommitEffect
      <3>3. \A l \in lost' : l[1] \in DOMAIN records' /\ l[2] \in 1..Len(records'[l[1]].history)
        BY <2>3, <3>1, LostAfterCommit DEF AcceptReplyLost
      <3> QED
        BY <2>3, <3>2, <3>3 DEF AcceptReplyLost, TypeOK
    <2>4. ASSUME NEW id \in DOMAIN proposals, Reject(id) \/ Cancel(id) \/ Complete(id)
          PROVE  TypeOK'
      <3>1. DOMAIN proposals' = DOMAIN proposals /\ proposals' \in [DOMAIN proposals -> Proposal]
        BY <2>4, StateType DEF Reject, Cancel, Complete, ProposalStates
      <3> QED
        BY <2>4, <3>1 DEF Reject, Cancel, Complete, TypeOK
    <2>5. ASSUME NEW g \in GlobalIDs, Client(g) PROVE TypeOK'
      <3>1. CASE \E from, to \in LocalRefs :
                     Commit([gid |-> g, from |-> from, to |-> to, protocol |-> ClientProtocol])
        <4> PICK from \in LocalRefs, to \in LocalRefs :
                Commit([gid |-> g, from |-> from, to |-> to, protocol |-> ClientProtocol])
          BY <3>1
        <4> DEFINE p == [gid |-> g, from |-> from, to |-> to, protocol |-> ClientProtocol]
        <4>1. p.gid \in GlobalIDs /\ p.from \in LocalRefs /\ p.to \in LocalRefs
              /\ p.protocol \in Protocols /\ Commit(p)
          BY NegotiatorAssumption
        <4> HIDE DEF p
        <4>2. DOMAIN records' = DOMAIN records /\ records' \in [DOMAIN records -> Record]
          BY <4>1, CommitEffect
        <4>3. \A l \in lost : l[1] \in DOMAIN records' /\ l[2] \in 1..Len(records'[l[1]].history)
          BY <4>1, LostAfterCommit
        <4> QED
          BY <2>5, <4>2, <4>3 DEF Client, TypeOK
      <3>2. CASE MayRetire(records, g) /\ records' = Put(records, g, Retired(records[g]))
        <4>1. g \in DOMAIN records /\ records[g] \in Record
          BY <3>2 DEF MayRetire, TypeOK
        <4>2. Retired(records[g]) \in Record /\ Retired(records[g]).history = records[g].history
          BY <4>1, RetiredRecord
        <4>3. /\ DOMAIN records' = DOMAIN records /\ records' \in [DOMAIN records -> Record]
              /\ \A x \in DOMAIN records : records'[x].history = records[x].history
          BY <3>2, <4>1, <4>2 DEF Put, TypeOK
        <4> QED
          BY <2>5, <4>3 DEF Client, TypeOK
      <3> QED
        BY <2>5, <3>1, <3>2 DEF Client
    <2>6. CASE UNCHANGED vars
      BY <2>6 DEF vars, TypeOK
    <2> QED
      BY <2>1, <2>2, <2>3, <2>4, <2>5, <2>6 DEF Next
  <1> QED
    BY <1>1, <1>2, PTL DEF Spec
-----------------------------------------------------------------------------
\* Only finitely many proposals have been made.
FiniteProposals == IsFiniteSet(DOMAIN proposals)

\* Claims and Occurrences are finite, so that their sizes can be compared.
LEMMA FiniteStory ==
    ASSUME TypeOK, FiniteProposals, NEW g, NEW e
    PROVE  IsFiniteSet(Claims(g, e)) /\ IsFiniteSet(Occurrences(g, e))
  <1>1. IsFiniteSet(Claims(g, e))
    <2>1. Claims(g, e) \in SUBSET DOMAIN proposals
      BY DEF Claims
    <2> QED
      BY <2>1, FS_Subset DEF FiniteProposals
  <1>2. CASE g \in DOMAIN records
    <2>1. Len(records[g].history) \in Nat
      BY <1>2, LostPlaces
    <2>2. IsFiniteSet(1..Len(records[g].history))
      BY <2>1, FS_Interval
    <2>3. Occurrences(g, e) \in SUBSET (1..Len(records[g].history))
      BY <1>2 DEF Occurrences
    <2> QED
      BY <1>1, <2>2, <2>3, FS_Subset
  <1>3. CASE g \notin DOMAIN records
    <2>1. Occurrences(g, e) = {}
      BY <1>3 DEF Occurrences
    <2> QED
      BY <1>1, <2>1, FS_EmptySet
  <1> QED
    BY <1>2, <1>3

\* Where a transfer occurs after a commit: at the new place too, if it is the
\* one committed and the answer was not lost.
LEMMA OccurrencesAfterCommit ==
    ASSUME TypeOK, NEW p, p.gid \in GlobalIDs, p.from \in LocalRefs, p.to \in LocalRefs,
           p.protocol \in Protocols, Commit(p), NEW g, NEW e,
           lost' = lost \/ lost' = lost \cup {<<p.gid, Len(records[p.gid].history) + 1>>}
    PROVE  LET new == Len(records[p.gid].history) + 1
           IN  /\ new \notin Occurrences(g, e)
                     \/ g # p.gid
               /\ Occurrences(g, e)' =
                     IF g = p.gid /\ e = Entry(p) /\ lost' = lost
                     THEN Occurrences(g, e) \cup {new} ELSE Occurrences(g, e)
  <1> DEFINE h == records[p.gid].history
             new == Len(h) + 1
  <1>1. /\ DOMAIN records' = DOMAIN records /\ p.gid \in DOMAIN records
        /\ records'[p.gid].history = Append(h, Entry(p))
        /\ \A x \in DOMAIN records \ {p.gid} : records'[x] = records[x]
    BY CommitEffect
  <1>2. h \in Seq(TransferEntry) /\ Len(h) \in Nat /\ <<p.gid, new>> \notin lost
    BY <1>1, LostPlaces
  <1>3. Entry(p) \in TransferEntry
    BY DEF Entry, TransferEntry
  <1>4. CASE g # p.gid
    <2>1. \A i : <<g, i>> \in lost' <=> <<g, i>> \in lost
      BY <1>4
    <2>2. CASE g \in DOMAIN records
      <3>1. g \in DOMAIN records' /\ records'[g] = records[g]
        BY <1>1, <1>4, <2>2
      <3> QED
        BY <1>4, <2>1, <2>2, <3>1 DEF Occurrences
    <2>3. CASE g \notin DOMAIN records
      BY <1>1, <1>4, <2>3 DEF Occurrences
    <2> QED
      BY <2>2, <2>3
  <1>5. CASE g = p.gid
    <2>1. /\ Len(Append(h, Entry(p))) = new
          /\ 1..new = 1..Len(h) \cup {new}
          /\ new \notin 1..Len(h)
          /\ \A i \in 1..Len(h) : Append(h, Entry(p))[i] = h[i]
          /\ Append(h, Entry(p))[new] = Entry(p)
      <3>1. \A n \in Nat : 1..n + 1 = 1..n \cup {n + 1} /\ n + 1 \notin 1..n
        OBVIOUS
      <3>2. 1..new = 1..Len(h) \cup {new} /\ new \notin 1..Len(h)
        BY <1>2, <3>1
      <3> HIDE DEF h
      <3> QED
        BY <1>2, <1>3, <3>2, AppendProperties
    <2>2. \A i \in 1..Len(h) : <<g, i>> \in lost' <=> <<g, i>> \in lost
      BY <1>2, <2>1
    <2>3. <<g, new>> \in lost' <=> lost' # lost
      BY <1>2, <1>5
    <2>4. Occurrences(g, e) = {i \in 1..Len(h) : h[i] = e /\ <<g, i>> \notin lost}
      BY <1>1, <1>5 DEF Occurrences
    <2>5. Occurrences(g, e)' =
              {i \in 1..new : Append(h, Entry(p))[i] = e /\ <<g, i>> \notin lost'}
      BY <1>1, <1>5, <2>1 DEF Occurrences
    <2> HIDE DEF h, new
    <2>6. new \notin Occurrences(g, e)
      BY <2>1, <2>4
    <2>7. Occurrences(g, e)' =
              IF e = Entry(p) /\ lost' = lost
              THEN Occurrences(g, e) \cup {new} ELSE Occurrences(g, e)
      BY <2>1, <2>2, <2>3, <2>4, <2>5
    <2> QED
      BY <1>5, <2>6, <2>7 DEF new, h
  <1> QED
    BY <1>4, <1>5

\* The negotiator and the registry tell the same story: each negotiated
\* transfer belongs to one accepted proposal and each accepted proposal to one
\* transfer, for any number of competing proposals, clients and lost answers
\* (transfer/memory.go:19-20).
THEOREM StoriesAgree == Spec => []RecordMatchesProposals
  <1> DEFINE Inv == FiniteProposals /\ RecordMatchesProposals
  <1>1. Init => Inv
    <2> SUFFICES ASSUME Init PROVE Inv
      OBVIOUS
    <2>1. DOMAIN proposals = {}
      BY DEF Init
    <2>2. FiniteProposals
      BY <2>1, FS_EmptySet DEF FiniteProposals
    <2>3. ASSUME NEW g, NEW e PROVE Claims(g, e) = {} /\ Occurrences(g, e) = {}
      <3>1. Claims(g, e) = {}
        BY <2>1 DEF Claims
      <3>2. g \in DOMAIN records => 1..Len(records[g].history) = {}
        BY NegotiatorAssumption DEF Init
      <3> QED
        BY <3>1, <3>2 DEF Occurrences
    <2> QED
      BY <2>2, <2>3 DEF RecordMatchesProposals
  <1>2. TypeOK /\ Inv /\ [Next]_vars => Inv'
    <2> SUFFICES ASSUME TypeOK, Inv, [Next]_vars PROVE Inv'
      OBVIOUS
    <2>0. /\ \A id \in DOMAIN proposals : proposals[id] \in Proposal
          /\ FiniteProposals
          /\ \A g \in GlobalIDs : \A e \in TransferEntry : e.protocol # ClientProtocol =>
                 Cardinality(Claims(g, e)) = Cardinality(Occurrences(g, e))
      BY DEF TypeOK, RecordMatchesProposals
    \* The steps that change neither side of the comparison.
    <2>a. ASSUME FiniteProposals',
                 \A g \in GlobalIDs : \A e \in TransferEntry : e.protocol # ClientProtocol =>
                     Claims(g, e)' = Claims(g, e) /\ Occurrences(g, e)' = Occurrences(g, e)
          PROVE  Inv'
      BY <2>0, <2>a DEF RecordMatchesProposals
    <2>1. ASSUME NEW id \in ProposalIDs, NEW g \in GlobalIDs, NEW from \in LocalRefs,
                 NEW to \in LocalRefs, NEW protocol \in Protocols \ {ClientProtocol},
                 Propose(id, g, from, to, protocol)
          PROVE  Inv'
      <3>1. DOMAIN proposals' = DOMAIN proposals \cup {id} /\ id \notin DOMAIN proposals
        BY <2>1 DEF Propose, Put
      <3>2. FiniteProposals'
        BY <2>0, <3>1, FS_AddElement DEF FiniteProposals
      <3>3. /\ proposals'[id].state = "proposed"
            /\ \A x \in DOMAIN proposals : proposals'[x] = proposals[x]
        BY <2>1 DEF Propose, Put
      <3>4. ASSUME NEW x, NEW e PROVE Claims(x, e)' = Claims(x, e)
        BY <3>1, <3>3 DEF Claims
      <3>5. ASSUME NEW x, NEW e PROVE Occurrences(x, e)' = Occurrences(x, e)
        BY <2>1 DEF Propose, Occurrences
      <3> QED
        BY <2>a, <3>2, <3>4, <3>5
    <2>2. ASSUME NEW id \in DOMAIN proposals, Accept(id) PROVE Inv'
      <3> DEFINE p == proposals[id]
                 new == Len(records[p.gid].history) + 1
      <3>1. p.gid \in GlobalIDs /\ p.from \in LocalRefs /\ p.to \in LocalRefs
            /\ p.protocol \in Protocols /\ Commit(p) /\ lost' = lost
        BY <2>0, <2>2 DEF Accept, Proposal
      <3>2. /\ DOMAIN proposals' = DOMAIN proposals
            /\ \A x \in DOMAIN proposals \ {id} : proposals'[x] = proposals[x]
            /\ p.state = "proposed" /\ proposals'[id].state = "accepted"
            /\ proposals'[id].gid = p.gid /\ proposals'[id].from = p.from
            /\ proposals'[id].to = p.to /\ proposals'[id].protocol = p.protocol
        BY <2>0, <2>2 DEF Accept, Proposal
      <3>3. FiniteProposals'
        BY <2>0, <3>2 DEF FiniteProposals
      <3>4. ASSUME NEW g \in GlobalIDs, NEW e \in TransferEntry, e.protocol # ClientProtocol
            PROVE  Cardinality(Claims(g, e)') = Cardinality(Occurrences(g, e)')
        <4>1. /\ new \notin Occurrences(g, e) \/ g # p.gid
              /\ Occurrences(g, e)' = IF g = p.gid /\ e = Entry(p)
                                      THEN Occurrences(g, e) \cup {new} ELSE Occurrences(g, e)
          BY <3>1, OccurrencesAfterCommit
        <4>2. id \notin Claims(g, e)
          BY <3>2 DEF Claims
        <4>3. Claims(g, e)' = IF g = p.gid /\ e = Entry(p)
                              THEN Claims(g, e) \cup {id} ELSE Claims(g, e)
          BY <3>2 DEF Claims, Entry
        <4>4. IsFiniteSet(Claims(g, e)) /\ IsFiniteSet(Occurrences(g, e))
          BY <2>0, FiniteStory
        <4>5. Cardinality(Claims(g, e)) = Cardinality(Occurrences(g, e))
          BY <2>0, <3>4
        <4> HIDE DEF p, new
        <4>6. CASE g = p.gid /\ e = Entry(p)
          <5>1. Cardinality(Claims(g, e) \cup {id}) = Cardinality(Claims(g, e)) + 1
            BY <4>2, <4>4, FS_AddElement
          <5>2. Cardinality(Occurrences(g, e) \cup {new}) = Cardinality(Occurrences(g, e)) + 1
            BY <4>1, <4>4, <4>6, FS_AddElement
          <5> QED
            BY <4>1, <4>3, <4>5, <4>6, <5>1, <5>2
        <4>7. CASE ~(g = p.gid /\ e = Entry(p))
          BY <4>1, <4>3, <4>5, <4>7
        <4> QED
          BY <4>6, <4>7
      <3> QED
        BY <3>3, <3>4 DEF RecordMatchesProposals
    <2>3. ASSUME NEW id \in DOMAIN proposals, AcceptReplyLost(id) PROVE Inv'
      <3> DEFINE p == proposals[id]
      <3>1. p.gid \in GlobalIDs /\ p.from \in LocalRefs /\ p.to \in LocalRefs
            /\ p.protocol \in Protocols /\ Commit(p)
            /\ lost' = lost \cup {<<p.gid, Len(records[p.gid].history) + 1>>}
            /\ proposals' = proposals
        BY <2>0, <2>3 DEF AcceptReplyLost, Proposal
      <3>2. lost' # lost
        <4>1. p.gid \in DOMAIN records
          BY <3>1, CommitEffect
        <4> QED
          BY <3>1, <4>1, LostPlaces
      <3>3. ASSUME NEW g, NEW e PROVE Occurrences(g, e)' = Occurrences(g, e)
        BY <3>1, <3>2, OccurrencesAfterCommit
      <3>4. ASSUME NEW g, NEW e PROVE Claims(g, e)' = Claims(g, e)
        BY <3>1 DEF Claims
      <3>5. FiniteProposals'
        BY <2>0, <3>1 DEF FiniteProposals
      <3> QED
        BY <2>a, <3>3, <3>4, <3>5
    <2>4. ASSUME NEW id \in DOMAIN proposals, Reject(id) \/ Cancel(id) \/ Complete(id)
          PROVE  Inv'
      <3> DEFINE Done(s) == s \in {"accepted", "completed"}
      <3>1. /\ DOMAIN proposals' = DOMAIN proposals
            /\ \A x \in DOMAIN proposals :
                   /\ proposals'[x].gid = proposals[x].gid
                   /\ proposals'[x].from = proposals[x].from
                   /\ proposals'[x].to = proposals[x].to
                   /\ proposals'[x].protocol = proposals[x].protocol
                   /\ Done(proposals'[x].state) <=> Done(proposals[x].state)
            /\ records' = records /\ lost' = lost
        BY <2>0, <2>4 DEF Reject, Cancel, Complete, Proposal
      <3>2. ASSUME NEW g, NEW e PROVE Claims(g, e)' = Claims(g, e)
        BY <3>1 DEF Claims
      <3>3. ASSUME NEW g, NEW e PROVE Occurrences(g, e)' = Occurrences(g, e)
        BY <3>1 DEF Occurrences
      <3>4. FiniteProposals'
        BY <2>0, <3>1 DEF FiniteProposals
      <3> QED
        BY <2>a, <3>2, <3>3, <3>4
    <2>5. ASSUME NEW g \in GlobalIDs, Client(g) PROVE Inv'
      <3>1. proposals' = proposals /\ lost' = lost
        BY <2>5 DEF Client
      <3>2. ASSUME NEW x, NEW e PROVE Claims(x, e)' = Claims(x, e)
        BY <3>1 DEF Claims
      <3>3. FiniteProposals'
        BY <2>0, <3>1 DEF FiniteProposals
      <3>4. ASSUME NEW x, NEW e \in TransferEntry, e.protocol # ClientProtocol
            PROVE  Occurrences(x, e)' = Occurrences(x, e)
        <4>1. CASE \E from, to \in LocalRefs :
                       Commit([gid |-> g, from |-> from, to |-> to, protocol |-> ClientProtocol])
          <5> PICK from \in LocalRefs, to \in LocalRefs :
                  Commit([gid |-> g, from |-> from, to |-> to, protocol |-> ClientProtocol])
            BY <4>1
          <5> DEFINE p == [gid |-> g, from |-> from, to |-> to, protocol |-> ClientProtocol]
          <5>1. p.gid \in GlobalIDs /\ p.from \in LocalRefs /\ p.to \in LocalRefs
                /\ p.protocol \in Protocols /\ Commit(p)
            BY NegotiatorAssumption
          <5>2. e # Entry(p)
            BY <3>4 DEF Entry
          <5> HIDE DEF p
          <5> QED
            BY <3>1, <5>1, <5>2, OccurrencesAfterCommit
        <4>2. CASE MayRetire(records, g) /\ records' = Put(records, g, Retired(records[g]))
          <5>1. g \in DOMAIN records /\ records[g] \in Record
            BY <4>2 DEF MayRetire, TypeOK
          <5>2. Retired(records[g]).history = records[g].history
            BY <5>1, RetiredRecord
          <5>3. /\ DOMAIN records' = DOMAIN records
                /\ \A y \in DOMAIN records : records'[y].history = records[y].history
            BY <4>2, <5>1, <5>2 DEF Put
          <5> QED
            BY <3>1, <5>3 DEF Occurrences
        <4> QED
          BY <2>5, <4>1, <4>2 DEF Client
      <3> QED
        BY <2>a, <3>2, <3>3, <3>4
    <2>6. CASE UNCHANGED vars
      <3>1. ASSUME NEW g, NEW e
            PROVE  Claims(g, e)' = Claims(g, e) /\ Occurrences(g, e)' = Occurrences(g, e)
        BY <2>6 DEF vars, Claims, Occurrences
      <3>2. FiniteProposals'
        BY <2>0, <2>6 DEF vars, FiniteProposals
      <3> QED
        BY <2>a, <3>1, <3>2
    <2> QED
      BY <2>1, <2>2, <2>3, <2>4, <2>5, <2>6 DEF Next
  <1> QED
    BY <1>1, <1>2, NegotiatorTypeCorrect, PTL DEF Spec

\* A settled proposal never changes again, and an accepted one can only be
\* completed (the state checks of Accept, Reject, Cancel and Complete).
THEOREM ProposalsSettle == Spec => Settled
  <1> DEFINE Kept(id) ==
          proposals'[id] # proposals[id] =>
              \/ proposals[id].state = "proposed"
              \/ /\ proposals[id].state = "accepted"
                 /\ proposals'[id] = [proposals[id] EXCEPT !.state = "completed"]
  <1>1. TypeOK /\ [Next]_vars => [\A id \in DOMAIN proposals : Kept(id)]_vars
    <2> SUFFICES ASSUME TypeOK, [Next]_vars, NEW id \in DOMAIN proposals PROVE Kept(id)
      OBVIOUS
    <2>0. proposals[id] \in Proposal
      BY DEF TypeOK
    <2>1. ASSUME NEW x \in ProposalIDs, NEW g \in GlobalIDs, NEW from \in LocalRefs,
                 NEW to \in LocalRefs, NEW protocol \in Protocols \ {ClientProtocol},
                 Propose(x, g, from, to, protocol)
          PROVE  Kept(id)
      BY <2>1 DEF Propose, Put
    <2>2. ASSUME NEW x \in DOMAIN proposals,
                 Accept(x) \/ AcceptReplyLost(x) \/ Reject(x) \/ Cancel(x) \/ Complete(x)
          PROVE  Kept(id)
      BY <2>0, <2>2 DEF Accept, AcceptReplyLost, Reject, Cancel, Complete, TypeOK
    <2>3. ASSUME NEW g \in GlobalIDs, Client(g) PROVE Kept(id)
      BY <2>3 DEF Client
    <2>4. CASE UNCHANGED vars
      BY <2>4 DEF vars
    <2> QED
      BY <2>1, <2>2, <2>3, <2>4 DEF Next
  <1> QED
    BY <1>1, NegotiatorTypeCorrect, PTL DEF Spec, Settled

-----------------------------------------------------------------------------
(* The tenant directory.                                                   *)

\* What a coherent pair of maps is, d standing for [byKey, byName].
CoherentMaps(d) ==
    /\ DOMAIN d.byKey \subseteq D!Keys
    /\ \A k \in DOMAIN d.byKey : d.byKey[k] \in Nat \ {0}
    /\ DOMAIN d.byName = D!Names(d.byKey)
    /\ \A n \in DOMAIN d.byName : <<d.byName[n], n>> \in DOMAIN d.byKey

\* The count under a key, 0 without an entry.
CountOf(counts, k) == IF k \in DOMAIN counts THEN counts[k] ELSE 0

\* The keys an event adds an entity to and takes one from.
Gains(ev, k) == D!Scoped(ev.ref) /\ ev.kind # "retired" /\ k = D!KeyOf(ev.ref)
Loses(ev, k) ==
    /\ D!Scoped(ev.ref)
    /\ \/ ev.kind = "retired" /\ k = D!KeyOf(ev.ref)
       \/ ev.kind = "transferred" /\ D!Scoped(ev.from) /\ k = D!KeyOf(ev.from) /\ k # D!KeyOf(ev.ref)

\* after is what ev makes of the number of entities under k.
Counted(before, after, ev, k) ==
    /\ Loses(ev, k) => before >= 1
    /\ after = before + (IF Gains(ev, k) THEN 1 ELSE 0) - (IF Loses(ev, k) THEN 1 ELSE 0)

\* An instance and a tenant name make up a key.
LEMMA KeysArePairs == \A k \in D!Keys : k = <<k[1], k[2]>>
  BY DEF D!Keys, D!KeyOf

\* The entry put into byName is one of byKey, and no name is left out.
LEMMA UpdatedNames ==
    ASSUME NEW counts, NEW names, NEW key \in DOMAIN counts, DOMAIN counts \subseteq D!Keys,
           DOMAIN names \cup {key[2]} = D!Names(counts),
           \A n \in DOMAIN names : <<names[n], n>> \in DOMAIN counts,
           NEW new, new = D!updateByNameLocked(counts, names, key)
    PROVE  /\ DOMAIN new = D!Names(counts)
           /\ \A n \in DOMAIN new : <<new[n], n>> \in DOMAIN counts
  <1>1. key = <<key[1], key[2]>>
    BY KeysArePairs
  <1>2. CASE new = D!Put(names, key[2], key[1])
    BY <1>1, <1>2 DEF D!Put
  <1>3. CASE new = names /\ key[2] \in DOMAIN names
    BY <1>3
  <1> QED
    BY <1>2, <1>3 DEF D!updateByNameLocked

\* rebuildByNameLocked leaves out no name and invents none.
LEMMA RebuiltNames ==
    ASSUME NEW counts, NEW names \in D!rebuildByNameLocked(counts)
    PROVE  /\ DOMAIN names = D!Names(counts)
           /\ \A n \in DOMAIN names : <<names[n], n>> \in DOMAIN counts
  BY DEF D!rebuildByNameLocked

\* An increment adds one entity under its key and keeps the maps coherent.
LEMMA Incremented ==
    ASSUME NEW d, CoherentMaps(d), NEW key \in D!Keys, NEW e, e = D!Increment(d, key)
    PROVE  /\ CoherentMaps(e)
           /\ \A k \in D!Keys : CountOf(e.byKey, k) = CountOf(d.byKey, k) + (IF k = key THEN 1 ELSE 0)
  <1>1. PICK v : v = IF key \in DOMAIN d.byKey THEN d.byKey[key] + 1 ELSE 1
    OBVIOUS
  <1>2. PICK counts : counts = D!Put(d.byKey, key, v)
    OBVIOUS
  <1>3. PICK names : names = D!updateByNameLocked(counts, d.byName, key)
    OBVIOUS
  <1>4. e = [byKey |-> counts, byName |-> names]
    BY <1>1, <1>2, <1>3 DEF D!Increment
  <1>5. v \in Nat \ {0}
    BY <1>1 DEF CoherentMaps
  <1>6. /\ DOMAIN counts = DOMAIN d.byKey \cup {key}
        /\ \A k \in DOMAIN counts : counts[k] = IF k = key THEN v ELSE d.byKey[k]
    BY <1>2 DEF D!Put
  <1>7. DOMAIN counts \subseteq D!Keys /\ key \in DOMAIN counts
    BY <1>6 DEF CoherentMaps
  <1>8. DOMAIN d.byName \cup {key[2]} = D!Names(counts)
    BY <1>6 DEF CoherentMaps, D!Names
  <1>9. \A n \in DOMAIN d.byName : <<d.byName[n], n>> \in DOMAIN counts
    BY <1>6 DEF CoherentMaps
  <1>10. /\ DOMAIN names = D!Names(counts)
         /\ \A n \in DOMAIN names : <<names[n], n>> \in DOMAIN counts
    BY <1>3, <1>7, <1>8, <1>9, UpdatedNames
  <1>11. \A k \in DOMAIN counts : counts[k] \in Nat \ {0}
    BY <1>5, <1>6 DEF CoherentMaps
  <1>12. CoherentMaps(e)
    BY <1>4, <1>7, <1>10, <1>11 DEF CoherentMaps
  <1>13. \A k \in D!Keys : CountOf(counts, k) = CountOf(d.byKey, k) + (IF k = key THEN 1 ELSE 0)
    BY <1>1, <1>6 DEF CountOf, CoherentMaps
  <1> QED
    BY <1>4, <1>12, <1>13

\* A decrement takes one entity from under its key, if there is one, and keeps
\* the maps coherent.
LEMMA Decremented ==
    ASSUME NEW d, CoherentMaps(d), NEW key \in D!Keys, NEW e \in D!Decrement(d, key)
    PROVE  /\ CoherentMaps(e)
           /\ CountOf(d.byKey, key) >= 1 =>
                  \A k \in D!Keys : CountOf(e.byKey, k) = CountOf(d.byKey, k) - (IF k = key THEN 1 ELSE 0)
  <1>1. CASE key \notin DOMAIN d.byKey
    BY <1>1 DEF D!Decrement, CountOf
  <1>2. CASE key \in DOMAIN d.byKey /\ d.byKey[key] <= 1
    <2>1. PICK counts : counts = [k \in DOMAIN d.byKey \ {key} |-> d.byKey[k]]
      OBVIOUS
    <2>2. PICK names \in D!rebuildByNameLocked(counts) : e = [byKey |-> counts, byName |-> names]
      BY <1>2, <2>1 DEF D!Decrement
    <2>3. CoherentMaps(e)
      BY <2>1, <2>2, RebuiltNames DEF CoherentMaps
    <2>4. d.byKey[key] = 1
      BY <1>2 DEF CoherentMaps
    <2>5. \A k \in D!Keys : CountOf(counts, k) = CountOf(d.byKey, k) - (IF k = key THEN 1 ELSE 0)
      BY <1>2, <2>1, <2>4 DEF CountOf, CoherentMaps
    <2> QED
      BY <2>2, <2>3, <2>5
  <1>3. CASE key \in DOMAIN d.byKey /\ ~(d.byKey[key] <= 1)
    <2>1. PICK counts : counts = D!Put(d.byKey, key, d.byKey[key] - 1)
      OBVIOUS
    <2>2. PICK names : names = D!updateByNameLocked(counts, d.byName, key)
      OBVIOUS
    <2>3. e = [byKey |-> counts, byName |-> names]
      BY <1>3, <2>1, <2>2 DEF D!Decrement
    <2>4. /\ DOMAIN counts = DOMAIN d.byKey
          /\ \A k \in DOMAIN counts : counts[k] = IF k = key THEN d.byKey[k] - 1 ELSE d.byKey[k]
      BY <1>3, <2>1 DEF D!Put
    <2>5. \A k \in DOMAIN counts : counts[k] \in Nat \ {0}
      BY <1>3, <2>4 DEF CoherentMaps
    <2>6. DOMAIN d.byName \cup {key[2]} = D!Names(counts)
      BY <1>3, <2>4 DEF CoherentMaps, D!Names
    <2>7. /\ DOMAIN names = D!Names(counts)
          /\ \A n \in DOMAIN names : <<names[n], n>> \in DOMAIN counts
      BY <1>3, <2>2, <2>4, <2>6, UpdatedNames DEF CoherentMaps
    <2>8. CoherentMaps(e)
      BY <2>3, <2>4, <2>5, <2>7 DEF CoherentMaps
    <2>9. \A k \in D!Keys : CountOf(counts, k) = CountOf(d.byKey, k) - (IF k = key THEN 1 ELSE 0)
      BY <1>3, <2>4 DEF CountOf, CoherentMaps
    <2> QED
      BY <2>3, <2>8, <2>9
  <1> QED
    BY <1>1, <1>2, <1>3

\* The key of a reference with a tenant is one the directory can hold.
LEMMA TrackedKeys == \A ref \in Places : D!Scoped(ref) => D!KeyOf(ref) \in D!Keys
  BY DEF D!Keys, D!Tracked

\* An event keeps the maps coherent, and moves the counts as it moves the
\* entity when there is an entry to take it from.
LEMMA EventHandled ==
    ASSUME NEW d, CoherentMaps(d), NEW ev \in D!Event, NEW e \in D!handleEvent(d, ev)
    PROVE  /\ CoherentMaps(e)
           /\ (\A k \in D!Keys : Loses(ev, k) => CountOf(d.byKey, k) >= 1) =>
                  \A k \in D!Keys : Counted(CountOf(d.byKey, k), CountOf(e.byKey, k), ev, k)
  <1>0. \A k \in D!Keys : CountOf(d.byKey, k) \in Nat
    BY DEF CountOf, CoherentMaps
  <1>1. CASE ~D!Scoped(ev.ref)
    <2>1. e = d
      BY <1>1 DEF D!handleEvent
    <2> QED
      BY <1>0, <1>1, <2>1 DEF Counted, Gains, Loses
  <1>2. CASE D!Scoped(ev.ref) /\ ev.kind = "registered"
    <2>1. D!KeyOf(ev.ref) \in D!Keys
      BY <1>2, TrackedKeys DEF D!Event
    <2>2. e = D!Increment(d, D!KeyOf(ev.ref))
      BY <1>2 DEF D!handleEvent
    <2> QED
      BY <1>0, <1>2, <2>1, <2>2, Incremented DEF Counted, Gains, Loses
  <1>3. CASE D!Scoped(ev.ref) /\ ev.kind = "retired"
    <2>1. D!KeyOf(ev.ref) \in D!Keys
      BY <1>3, TrackedKeys DEF D!Event
    <2>2. e \in D!Decrement(d, D!KeyOf(ev.ref))
      BY <1>3 DEF D!handleEvent
    <2> QED
      BY <1>0, <1>3, <2>1, <2>2, Decremented DEF Counted, Gains, Loses
  <1>4. CASE D!Scoped(ev.ref) /\ ev.kind = "transferred"
    <2>1. D!KeyOf(ev.ref) \in D!Keys /\ ev.from \in Places
      BY <1>4, TrackedKeys DEF D!Event
    <2>2. CASE D!Scoped(ev.from) /\ D!KeyOf(ev.from) # D!KeyOf(ev.ref)
      <3>1. PICK c \in D!Decrement(d, D!KeyOf(ev.from)) : e = D!Increment(c, D!KeyOf(ev.ref))
        BY <1>4, <2>2 DEF D!handleEvent
      <3>2. D!KeyOf(ev.from) \in D!Keys
        BY <2>1, <2>2, TrackedKeys
      <3>3. CoherentMaps(c)
        BY <3>2, Decremented
      <3>4. CoherentMaps(e) /\ \A k \in D!Keys :
                CountOf(e.byKey, k) = CountOf(c.byKey, k) + (IF k = D!KeyOf(ev.ref) THEN 1 ELSE 0)
        BY <2>1, <3>1, <3>3, Incremented
      <3>5. ASSUME \A k \in D!Keys : Loses(ev, k) => CountOf(d.byKey, k) >= 1
            PROVE  \A k \in D!Keys : Counted(CountOf(d.byKey, k), CountOf(e.byKey, k), ev, k)
        <4>1. CountOf(d.byKey, D!KeyOf(ev.from)) >= 1
          BY <1>4, <2>2, <3>2, <3>5 DEF Loses
        <4>2. \A k \in D!Keys :
                  CountOf(c.byKey, k) = CountOf(d.byKey, k) - (IF k = D!KeyOf(ev.from) THEN 1 ELSE 0)
          BY <3>1, <3>2, <4>1, Decremented
        <4> QED
          BY <1>0, <1>4, <2>2, <3>4, <4>1, <4>2 DEF Counted, Gains, Loses
      <3> QED
        BY <3>4, <3>5
    <2>3. CASE ~(D!Scoped(ev.from) /\ D!KeyOf(ev.from) # D!KeyOf(ev.ref))
      <3>1. e = D!Increment(d, D!KeyOf(ev.ref))
        BY <1>4, <2>3 DEF D!handleEvent
      <3> QED
        BY <1>0, <1>4, <2>1, <2>3, <3>1, Incremented DEF Counted, Gains, Loses
    <2> QED
      BY <2>2, <2>3
  <1> QED
    BY <1>1, <1>2, <1>3, <1>4 DEF D!Event

-----------------------------------------------------------------------------
\* The numbers of active entities between the events of the channel: those of
\* the directory before the first one, those of the registry after the last.
Accounted(S) ==
    /\ S \in [0..Len(chan) -> [D!Keys -> Nat]]
    /\ \A k \in D!Keys : S[0][k] = CountOf(byKey, k)
    /\ \A k \in D!Keys : S[Len(chan)][k] = Cardinality(D!ActiveAt(k))
    /\ \A i \in 1..Len(chan), k \in D!Keys : Counted(S[i - 1][k], S[i][k], chan[i], k)

Maps == [byKey |-> byKey, byName |-> byName]

\* The registry as far as the directory needs it.
Owners(recs) == IsFiniteSet(DOMAIN recs) /\ \A g \in DOMAIN recs : recs[g].current \in Places

DirectoryInv ==
    /\ Owners(drecords)
    /\ phase \in {"new", "subscribed", "running"} /\ skewed \in BOOLEAN
    /\ chan \in Seq(D!Event) /\ Len(chan) <= ChanCap
    /\ CoherentMaps(Maps)
    /\ phase # "running" /\ ~skewed => chan = <<>>
    /\ phase = "running" /\ ~skewed => \E S : Accounted(S)

\* The model counts with the operator that the library's theorems are about.
LEMMA DirectoryCardinality == \A S : D!Cardinality(S) = Cardinality(S)
  BY DEF D!Cardinality, Cardinality

\* Sets of entities of a finite registry are finite.
LEMMA FinitelyMany ==
    ASSUME NEW recs, Owners(recs), NEW A \in SUBSET DOMAIN recs
    PROVE  IsFiniteSet(A) /\ Cardinality(A) \in Nat /\ (Cardinality(A) = 0 <=> A = {})
  BY FS_Subset, FS_CardinalityType, FS_EmptySet DEF Owners

\* The active entities under a key are finitely many.
LEMMA ActiveFinite ==
    ASSUME Owners(drecords), NEW k
    PROVE  IsFiniteSet(D!ActiveAt(k)) /\ Cardinality(D!ActiveAt(k)) \in Nat
           /\ (Cardinality(D!ActiveAt(k)) = 0 <=> D!ActiveAt(k) = {})
  <1>1. D!ActiveAt(k) \in SUBSET DOMAIN drecords
    BY DEF D!ActiveAt
  <1> QED
    BY <1>1, FinitelyMany

\* What a registry operation that publishes ev does to the channel and to the
\* numbers.
LEMMA Published ==
    ASSUME D!DirectoryAssumption, DirectoryInv, NEW ev \in D!Event, D!publishLocked(ev), UNCHANGED <<phase, byKey, byName>>,
           Owners(drecords)',
           ~D!Miscounted(ev) => \A k \in D!Keys : Counted(Cardinality(D!ActiveAt(k)), Cardinality(D!ActiveAt(k))', ev, k)
    PROVE  DirectoryInv'
  <1>0. ChanCap \in Nat
    BY DEF D!DirectoryAssumption
  <1>1. chan' \in Seq(D!Event) /\ Len(chan') <= ChanCap /\ skewed' \in BOOLEAN
    BY <1>0, AppendProperties, LenProperties DEF DirectoryInv, D!publishLocked
  <1>2. phase' # "running" /\ ~skewed' => chan' = <<>>
    BY DEF DirectoryInv, D!publishLocked
  <1>3. ASSUME phase = "running", ~skewed' PROVE \E S : Accounted(S)'
    <2>1. ~skewed /\ Len(chan) # ChanCap /\ ~D!Miscounted(ev)
      BY <1>3 DEF DirectoryInv, D!publishLocked
    <2>2. PICK S : Accounted(S)
      BY <1>3, <2>1 DEF DirectoryInv
    <2>3. CASE chan' = Append(chan, ev)
      <3>1. /\ Len(chan) \in Nat
            /\ Len(chan') = Len(chan) + 1
            /\ \A i \in 1..Len(chan) : chan'[i] = chan[i]
            /\ chan'[Len(chan) + 1] = ev
        BY <2>3, AppendProperties, LenProperties DEF DirectoryInv
      <3>2. PICK A : A = [k \in D!Keys |-> Cardinality(D!ActiveAt(k))']
        OBVIOUS
      <3>3. A \in [D!Keys -> Nat]
        <4>1. ASSUME NEW k \in D!Keys PROVE Cardinality(D!ActiveAt(k))' \in Nat
          <5>1. D!ActiveAt(k)' \in SUBSET DOMAIN drecords'
            BY DEF D!ActiveAt
          <5>2. Owners(drecords')
            BY DEF Owners
          <5> QED
            BY <5>1, <5>2, FinitelyMany
        <4> QED
          BY <3>2, <4>1
      <3>4. PICK W : W = [i \in 0..Len(chan') |-> IF i = Len(chan') THEN A ELSE S[i]]
        OBVIOUS
      <3>5. W \in [0..Len(chan') -> [D!Keys -> Nat]]
        BY <2>2, <3>1, <3>3, <3>4 DEF Accounted
      <3>6. \A k \in D!Keys : W[0][k] = CountOf(byKey', k)
        BY <2>2, <3>1, <3>4 DEF Accounted
      <3>7. \A k \in D!Keys : W[Len(chan')][k] = Cardinality(D!ActiveAt(k))'
        BY <3>1, <3>2, <3>4
      <3>8. \A i \in 1..Len(chan'), k \in D!Keys : Counted(W[i - 1][k], W[i][k], chan'[i], k)
        <4> SUFFICES ASSUME NEW i \in 1..Len(chan'), NEW k \in D!Keys
                     PROVE  Counted(W[i - 1][k], W[i][k], chan'[i], k)
          OBVIOUS
        <4>1. CASE i = Len(chan')
          <5>1. W[i] = A /\ W[i - 1] = S[Len(chan)] /\ chan'[i] = ev
            BY <3>1, <3>4, <4>1
          <5>2. A[k] = Cardinality(D!ActiveAt(k))' /\ S[Len(chan)][k] = Cardinality(D!ActiveAt(k))
            BY <2>2, <3>2 DEF Accounted
          <5>3. Counted(Cardinality(D!ActiveAt(k)), Cardinality(D!ActiveAt(k))', ev, k)
            BY <2>1
          <5> QED
            BY <5>1, <5>2, <5>3
        <4>2. CASE i # Len(chan')
          <5>1. i \in 1..Len(chan) /\ W[i] = S[i] /\ W[i - 1] = S[i - 1] /\ chan'[i] = chan[i]
            BY <3>1, <3>4, <4>2
          <5> QED
            BY <2>2, <5>1 DEF Accounted
        <4> QED
          BY <4>1, <4>2
      <3> QED
        BY <3>5, <3>6, <3>7, <3>8 DEF Accounted
    <2>4. phase # "new" /\ Len(chan) < ChanCap
      BY <1>0, <1>3, <2>1, LenProperties DEF DirectoryInv
    <2> QED
      BY <2>3, <2>4 DEF D!publishLocked
  <1> QED
    BY <1>1, <1>2, <1>3 DEF DirectoryInv, Maps

-----------------------------------------------------------------------------
\* Register changes the numbers as its event says.
LEMMA RegisterCounted ==
    ASSUME D!DirectoryAssumption, DirectoryInv, NEW g, NEW owner \in Places, D!Register(g, owner)
    PROVE  DirectoryInv'
  <1>1. PICK ev : ev = [kind |-> "registered", ref |-> owner]
    OBVIOUS
  <1>2. ev \in D!Event /\ ev.kind = "registered" /\ ev.ref = owner
    BY <1>1 DEF D!Event
  <1>3. DOMAIN drecords' = DOMAIN drecords \cup {g} /\ g \notin DOMAIN drecords
    BY DEF D!Register, D!Put
  <1>4. /\ drecords'[g].current = owner /\ drecords'[g].status = "active"
        /\ \A x \in DOMAIN drecords : drecords'[x] = drecords[x]
    BY <1>3 DEF D!Register, D!Put, D!NewRecord
  <1>5. Owners(drecords)'
    BY <1>3, <1>4, FS_AddElement DEF DirectoryInv, Owners
  <1>6. ASSUME NEW k \in D!Keys
        PROVE  Counted(Cardinality(D!ActiveAt(k)), Cardinality(D!ActiveAt(k))', ev, k)
    <2>1. IsFiniteSet(D!ActiveAt(k)) /\ Cardinality(D!ActiveAt(k)) \in Nat
      BY ActiveFinite DEF DirectoryInv
    <2>2. CASE D!Scoped(owner) /\ D!KeyOf(owner) = k
      <3>1. D!ActiveAt(k)' = D!ActiveAt(k) \cup {g} /\ g \notin D!ActiveAt(k)
        BY <1>3, <1>4, <2>2 DEF D!ActiveAt
      <3>2. Cardinality(D!ActiveAt(k))' = Cardinality(D!ActiveAt(k)) + 1
        BY <2>1, <3>1, FS_AddElement
      <3> QED
        BY <1>2, <2>1, <2>2, <3>1, <3>2 DEF Counted, Gains, Loses
    <2>3. CASE ~(D!Scoped(owner) /\ D!KeyOf(owner) = k)
      <3>1. D!ActiveAt(k)' = D!ActiveAt(k)
        BY <1>3, <1>4, <2>3 DEF D!ActiveAt
      <3> QED
        BY <1>2, <2>1, <2>3, <3>1 DEF Counted, Gains, Loses
    <2> QED
      BY <2>2, <2>3
  <1>7. D!publishLocked(ev) /\ UNCHANGED <<phase, byKey, byName>>
    BY <1>1 DEF D!Register
  <1> QED
    BY <1>2, <1>5, <1>6, <1>7, Published

\* Transfer changes the numbers as its event says, unless the event is one of
\* those that handleEvent cannot count.
LEMMA TransferCounted ==
    ASSUME D!DirectoryAssumption, DirectoryInv, NEW g, NEW from \in Places, NEW to \in Places, NEW protocol,
           D!Transfer(g, from, to, protocol)
    PROVE  DirectoryInv'
  <1>1. PICK ev : ev = [kind |-> "transferred", ref |-> to, from |-> from]
    OBVIOUS
  <1>2. ev \in D!Event /\ ev.kind = "transferred" /\ ev.ref = to /\ ev.from = from
    BY <1>1 DEF D!Event
  <1>3. DOMAIN drecords' = DOMAIN drecords /\ g \in DOMAIN drecords
    BY DEF D!Transfer, D!Put, D!MayTransfer
  <1>4. /\ drecords[g].current = from /\ drecords[g].status # "retired"
        /\ drecords'[g].current = to /\ drecords'[g].status = drecords[g].status
        /\ \A x \in DOMAIN drecords \ {g} : drecords'[x] = drecords[x]
    BY <1>3 DEF D!Transfer, D!Put, D!MayTransfer, D!Transferred
  <1>5. Owners(drecords)'
    BY <1>3, <1>4 DEF DirectoryInv, Owners
  <1>6. ASSUME ~D!Miscounted(ev), NEW k \in D!Keys
        PROVE  Counted(Cardinality(D!ActiveAt(k)), Cardinality(D!ActiveAt(k))', ev, k)
    <2>1. IsFiniteSet(D!ActiveAt(k)) /\ Cardinality(D!ActiveAt(k)) \in Nat
          /\ (Cardinality(D!ActiveAt(k)) = 0 <=> D!ActiveAt(k) = {})
      BY ActiveFinite DEF DirectoryInv
    <2>2. D!Scoped(from) => D!Scoped(to) /\ D!KeyOf(from) # D!KeyOf(to)
      BY <1>2, <1>6 DEF D!Miscounted
    <2>3. CASE D!Scoped(to) /\ D!KeyOf(to) = k
      <3>1. D!ActiveAt(k)' = D!ActiveAt(k) \cup {g} /\ g \notin D!ActiveAt(k)
        BY <1>3, <1>4, <2>2, <2>3 DEF D!ActiveAt
      <3>2. Cardinality(D!ActiveAt(k))' = Cardinality(D!ActiveAt(k)) + 1
        BY <2>1, <3>1, FS_AddElement
      <3> QED
        BY <1>2, <2>1, <2>3, <3>1, <3>2 DEF Counted, Gains, Loses
    <2>4. CASE D!Scoped(from) /\ D!KeyOf(from) = k
      <3>1. D!ActiveAt(k)' = D!ActiveAt(k) \ {g} /\ g \in D!ActiveAt(k)
        BY <1>3, <1>4, <2>2, <2>4 DEF D!ActiveAt
      <3>2. Cardinality(D!ActiveAt(k))' = Cardinality(D!ActiveAt(k)) - 1
        BY <2>1, <3>1, FS_RemoveElement
      <3> QED
        BY <1>2, <2>1, <2>2, <2>4, <3>1, <3>2 DEF Counted, Gains, Loses
    <2>5. CASE ~(D!Scoped(to) /\ D!KeyOf(to) = k) /\ ~(D!Scoped(from) /\ D!KeyOf(from) = k)
      <3>1. D!ActiveAt(k)' = D!ActiveAt(k)
        BY <1>3, <1>4, <2>5 DEF D!ActiveAt
      <3> QED
        BY <1>2, <2>1, <2>5, <3>1 DEF Counted, Gains, Loses
    <2> QED
      BY <2>3, <2>4, <2>5
  <1>7. D!publishLocked(ev) /\ UNCHANGED <<phase, byKey, byName>>
    BY <1>1 DEF D!Transfer
  <1> QED
    BY <1>2, <1>5, <1>6, <1>7, Published

\* Retire changes the numbers as its event says.
LEMMA RetireCounted ==
    ASSUME D!DirectoryAssumption, DirectoryInv, NEW g, D!Retire(g)
    PROVE  DirectoryInv'
  <1>1. PICK ev : ev = [kind |-> "retired", ref |-> drecords[g].current]
    OBVIOUS
  <1>2. ev \in D!Event /\ ev.kind = "retired" /\ ev.ref = drecords[g].current
    BY <1>1 DEF D!Event, D!Retire, D!MayRetire, DirectoryInv, Owners
  <1>3. DOMAIN drecords' = DOMAIN drecords /\ g \in DOMAIN drecords
    BY DEF D!Retire, D!Put, D!MayRetire
  <1>4. /\ drecords[g].status # "retired"
        /\ drecords'[g] = [drecords[g] EXCEPT !.status = "retired"]
        /\ \A x \in DOMAIN drecords \ {g} : drecords'[x] = drecords[x]
    BY <1>3 DEF D!Retire, D!Put, D!MayRetire, D!Retired
  <1>8. drecords'[g].current = drecords[g].current /\ ~(drecords'[g].status # "retired")
    BY <1>4
  <1>5. Owners(drecords)'
    BY <1>3, <1>4, <1>8 DEF DirectoryInv, Owners
  <1>6. ASSUME NEW k \in D!Keys
        PROVE  Counted(Cardinality(D!ActiveAt(k)), Cardinality(D!ActiveAt(k))', ev, k)
    <2>1. IsFiniteSet(D!ActiveAt(k)) /\ Cardinality(D!ActiveAt(k)) \in Nat
          /\ (Cardinality(D!ActiveAt(k)) = 0 <=> D!ActiveAt(k) = {})
      BY ActiveFinite DEF DirectoryInv
    <2>2. CASE D!Scoped(ev.ref) /\ D!KeyOf(ev.ref) = k
      <3>1. D!ActiveAt(k)' = D!ActiveAt(k) \ {g} /\ g \in D!ActiveAt(k)
        BY <1>2, <1>3, <1>4, <1>8, <2>2, ZenonT(60) DEF D!ActiveAt
      <3>2. Cardinality(D!ActiveAt(k))' = Cardinality(D!ActiveAt(k)) - 1
        BY <2>1, <3>1, FS_RemoveElement
      <3> QED
        BY <1>2, <2>1, <2>2, <3>1, <3>2 DEF Counted, Gains, Loses
    <2>3. CASE ~(D!Scoped(ev.ref) /\ D!KeyOf(ev.ref) = k)
      <3>1. D!ActiveAt(k)' = D!ActiveAt(k)
        BY <1>2, <1>3, <1>4, <1>8, <2>3 DEF D!ActiveAt
      <3> QED
        BY <1>2, <2>1, <2>3, <3>1 DEF Counted, Gains, Loses
    <2> QED
      BY <2>2, <2>3
  <1>7. D!publishLocked(ev) /\ UNCHANGED <<phase, byKey, byName>>
    BY <1>1 DEF D!Retire
  <1> QED
    BY <1>2, <1>5, <1>6, <1>7, Published

-----------------------------------------------------------------------------
\* bootstrap makes the counts those of the registry, with no event behind them.
LEMMA Seeded ==
    ASSUME D!DirectoryAssumption, DirectoryInv, D!Seed
    PROVE  DirectoryInv'
  <1>1. PICK counts : counts = [k \in {k \in D!Keys : D!ActiveAt(k) # {}} |-> Cardinality(D!ActiveAt(k))]
    OBVIOUS
  <1>2. PICK names \in D!rebuildByNameLocked(counts) : byKey' = counts /\ byName' = names
    BY <1>1, DirectoryCardinality DEF D!Seed, D!Upserted
  <1>3. \A k \in D!Keys : Cardinality(D!ActiveAt(k)) \in Nat /\ (Cardinality(D!ActiveAt(k)) = 0 <=> D!ActiveAt(k) = {})
    BY ActiveFinite DEF DirectoryInv
  <1>4. DOMAIN counts \subseteq D!Keys /\ \A k \in DOMAIN counts : counts[k] \in Nat \ {0}
    BY <1>1, <1>3
  <1>5. CoherentMaps(Maps)'
    BY <1>2, <1>4, RebuiltNames DEF CoherentMaps, Maps
  <1>6. UNCHANGED <<drecords, chan, skewed>> /\ phase' = "running" /\ phase = "subscribed"
    BY DEF D!Seed
  <1>7. ASSUME ~skewed' PROVE \E S : Accounted(S)'
    <2>1. chan' = <<>> /\ Len(chan') = 0
      BY <1>6, <1>7 DEF DirectoryInv
    <2>2. PICK A : A = [k \in D!Keys |-> Cardinality(D!ActiveAt(k))]
      OBVIOUS
    <2>3. PICK S : S = [i \in 0..0 |-> A]
      OBVIOUS
    <2>4. A \in [D!Keys -> Nat]
      BY <1>3, <2>2
    <2>5. S \in [0..Len(chan') -> [D!Keys -> Nat]] /\ S[0] = A
      BY <2>1, <2>3, <2>4
    <2>6. \A k \in D!Keys : A[k] = CountOf(byKey', k)
      BY <1>1, <1>2, <1>3, <2>2 DEF CountOf
    <2>7. \A k \in D!Keys : D!ActiveAt(k)' = D!ActiveAt(k)
      BY <1>6 DEF D!ActiveAt
    <2>8. \A k \in D!Keys : A[k] = Cardinality(D!ActiveAt(k))'
      BY <2>2, <2>7
    <2>9. 1..Len(chan') = {}
      BY <2>1
    <2> QED
      BY <2>1, <2>5, <2>6, <2>8, <2>9 DEF Accounted
  <1> QED
    BY <1>5, <1>6, <1>7 DEF DirectoryInv

\* Handling the first event of the channel moves the directory to the numbers
\* that follow it.
LEMMA HandledInOrder ==
    ASSUME D!DirectoryAssumption, DirectoryInv, D!HandleEvent
    PROVE  DirectoryInv'
  <1>1. PICK ev : ev = Head(chan)
    OBVIOUS
  <1>2. PICK e \in D!handleEvent(Maps, ev) : byKey' = e.byKey /\ byName' = e.byName
    BY <1>1 DEF D!HandleEvent, Maps
  <1>3. chan # <<>> /\ phase = "running" /\ chan' = Tail(chan) /\ UNCHANGED <<drecords, phase, skewed>>
    BY DEF D!HandleEvent
  <1>4. ev \in D!Event
    BY <1>1, <1>3, HeadTailProperties DEF DirectoryInv
  <1>5. CoherentMaps(e)
    BY <1>2, <1>4, EventHandled DEF DirectoryInv
  <1>6. CoherentMaps(Maps)'
    BY <1>2, <1>5 DEF CoherentMaps, Maps
  <1>7. /\ chan' \in Seq(D!Event) /\ Len(chan') <= ChanCap /\ Len(chan) \in Nat \ {0} /\ Len(chan') = Len(chan) - 1
        /\ \A i \in 1..Len(chan') : chan'[i] = chan[i + 1]
        /\ ev = chan[1]
    BY <1>1, <1>3, HeadTailProperties, EmptySeq DEF DirectoryInv, D!DirectoryAssumption
  <1>8. ASSUME ~skewed PROVE \E S : Accounted(S)'
    <2>1. PICK S : Accounted(S)
      BY <1>3, <1>8 DEF DirectoryInv
    <2>2. PICK W : W = [i \in 0..Len(chan') |-> S[i + 1]]
      OBVIOUS
    <2>3. W \in [0..Len(chan') -> [D!Keys -> Nat]]
      BY <1>7, <2>1, <2>2 DEF Accounted
    <2>4. \A k \in D!Keys : Counted(CountOf(byKey, k), S[1][k], ev, k) /\ S[1][k] \in Nat
      <3>1. 1 \in 1..Len(chan) /\ 1 - 1 = 0 /\ 1 \in 0..Len(chan)
        BY <1>7
      <3> QED
        BY <1>7, <2>1, <3>1 DEF Accounted
    <2>5. \A k \in D!Keys : Counted(CountOf(byKey, k), CountOf(byKey', k), ev, k)
      <3>1. \A k \in D!Keys : Loses(ev, k) => CountOf(Maps.byKey, k) >= 1
        BY <2>4 DEF Counted, Maps
      <3> QED
        BY <1>2, <1>4, <3>1, EventHandled DEF DirectoryInv, Maps
    <2>6. \A k \in D!Keys : S[1][k] = CountOf(byKey', k)
      BY <2>4, <2>5 DEF Counted
    <2>7. \A k \in D!Keys : W[0][k] = CountOf(byKey', k)
      BY <1>7, <2>2, <2>6
    <2>8. W[Len(chan')] = S[Len(chan)]
      BY <1>7, <2>2
    <2>9. \A k \in D!Keys : D!ActiveAt(k)' = D!ActiveAt(k)
      BY <1>3 DEF D!ActiveAt
    <2>10. \A k \in D!Keys : W[Len(chan')][k] = Cardinality(D!ActiveAt(k))'
      BY <2>1, <2>8, <2>9 DEF Accounted
    <2>11. ASSUME NEW i \in 1..Len(chan'), NEW k \in D!Keys
           PROVE  Counted(W[i - 1][k], W[i][k], chan'[i], k)
      <3>1. i + 1 \in 1..Len(chan) /\ W[i - 1] = S[(i + 1) - 1] /\ W[i] = S[i + 1] /\ chan'[i] = chan[i + 1]
        BY <1>7, <2>2
      <3> QED
        BY <2>1, <3>1 DEF Accounted
    <2> QED
      BY <2>3, <2>7, <2>10, <2>11 DEF Accounted
  <1> QED
    BY <1>3, <1>6, <1>7, <1>8 DEF DirectoryInv

\* After any events the two maps point at the same entries, and the counts are
\* those of the registry unless an event was dropped or could not be counted
\* (handleEvent, updateByNameLocked, rebuildByNameLocked).
THEOREM DirectoryIsExact == D!Spec => []DirectoryExact
  <1> D!DirectoryAssumption
    BY EdgeAssumption
  <1>1. D!Init => DirectoryInv
    <2> SUFFICES ASSUME D!Init PROVE DirectoryInv
      OBVIOUS
    <2>1. DOMAIN drecords = {} /\ DOMAIN byKey = {} /\ DOMAIN byName = {}
      BY DEF D!Init
    <2>2. Owners(drecords)
      BY <2>1, FS_EmptySet DEF Owners
    <2>3. CoherentMaps(Maps)
      BY <2>1 DEF CoherentMaps, Maps, D!Names
    <2>4. chan \in Seq(D!Event) /\ Len(chan) <= ChanCap
      BY EmptySeq DEF D!Init, D!DirectoryAssumption
    <2>5. phase = "new" /\ chan = <<>> /\ skewed \in BOOLEAN
      BY DEF D!Init
    <2>6. phase \in {"new", "subscribed", "running"} /\ phase # "running"
      BY <2>5
    <2> QED
      BY <2>2, <2>3, <2>4, <2>5, <2>6 DEF DirectoryInv
  <1>2. DirectoryInv /\ [D!Next]_D!vars => DirectoryInv'
    <2> SUFFICES ASSUME DirectoryInv, [D!Next]_D!vars PROVE DirectoryInv'
      OBVIOUS
    <2>1. ASSUME NEW g \in GlobalIDs, NEW owner \in Places, D!Register(g, owner) PROVE DirectoryInv'
      BY <2>1, RegisterCounted
    <2>2. ASSUME NEW g \in GlobalIDs, NEW m \in Moves, NEW protocol \in DirectoryProtocols, D!Transfer(g, m[1], m[2], protocol)
          PROVE  DirectoryInv'
      <3>1. m[1] \in Places /\ m[2] \in Places
        BY DEF D!DirectoryAssumption
      <3> QED
        BY <2>2, <3>1, TransferCounted
    <2>3. ASSUME NEW g \in GlobalIDs, D!Retire(g) PROVE DirectoryInv'
      BY <2>3, RetireCounted
    <2>4. CASE D!Subscribe
      BY <2>4 DEF D!Subscribe, DirectoryInv, Maps
    <2>5. CASE D!Seed
      BY <2>5, Seeded
    <2>6. CASE D!HandleEvent
      BY <2>6, HandledInOrder
    <2>7. CASE UNCHANGED D!vars
      <3>1. \A k \in D!Keys : D!ActiveAt(k)' = D!ActiveAt(k)
        BY <2>7 DEF D!ActiveAt, D!vars
      <3> QED
        BY <2>7, <3>1 DEF D!vars, DirectoryInv, Accounted, Maps
    <2> QED
      BY <2>1, <2>2, <2>3, <2>4, <2>5, <2>6, <2>7 DEF D!Next
  <1>3. DirectoryInv => D!Coherent
    BY DEF DirectoryInv, CoherentMaps, Maps, D!Coherent
  <1>4. DirectoryInv => D!CountsExact
    <2> SUFFICES ASSUME D!DirectoryAssumption, DirectoryInv, D!Caught, ~skewed
                 PROVE  /\ \A k \in DOMAIN byKey : byKey[k] = Cardinality(D!ActiveAt(k))
                        /\ \A k \in D!Keys : D!ActiveAt(k) # {} => k \in DOMAIN byKey
      BY DirectoryCardinality DEF D!CountsExact
    <2>1. PICK S : Accounted(S)
      BY DEF DirectoryInv, D!Caught
    <2>2. \A k \in D!Keys : CountOf(byKey, k) = Cardinality(D!ActiveAt(k))
      BY <2>1 DEF Accounted, D!Caught
    <2>3. DOMAIN byKey \subseteq D!Keys
      BY DEF DirectoryInv, CoherentMaps, Maps
    <2>4. \A k \in D!Keys : Cardinality(D!ActiveAt(k)) = 0 <=> D!ActiveAt(k) = {}
      BY ActiveFinite DEF DirectoryInv
    <2> QED
      BY <2>2, <2>3, <2>4 DEF CountOf
  <1> QED
    BY <1>1, <1>2, <1>3, <1>4, PTL DEF D!Spec, DirectoryExact, D!DirectoryExact

-----------------------------------------------------------------------------
(* The event bus.                                                          *)

\* The slice of a subject lists its subscribed consumers, each once.
Slice(s) ==
    /\ array[s] \in Seq(DOMAIN Consumers) /\ length[s] \in Nat /\ length[s] <= Len(array[s])
    /\ \A j \in 1..length[s] : array[s][j] \in member /\ Consumers[array[s][j]].subject = s
    /\ \A j, k \in 1..length[s] : array[s][j] = array[s][k] => j = k
    /\ \A c \in member : Consumers[c].subject = s => \E j \in 1..length[s] : array[s][j] = c

\* The consumers that a running Publish has called: those of the subjects that
\* are behind it, and the first i of the subject it is at.
Called(e, c) ==
    /\ c \in member
    /\ Consumers[c].subject \in B!Matching(e) \ pub[e].left
    /\ Consumers[c].subject = pub[e].subject => \E j \in 1..pub[e].i : array[pub[e].subject][j] = c

\* A publication that no subscription has disturbed.
Undisturbed(e) ==
    /\ pub[e].pc \in {"run", "done"}
    /\ pub[e].pc = "run" =>
           /\ pub[e].left \subseteq B!Matching(e)
           /\ \A c \in DOMAIN Consumers : c \in present[e] <=> c \in member /\ Consumers[c].subject \in B!Matching(e)
           /\ pub[e].i <= pub[e].n
           /\ \/ pub[e].subject \in B!Matching(e) \ pub[e].left /\ pub[e].n = length[pub[e].subject]
              \/ pub[e].left = B!Matching(e) /\ pub[e].i = 0 /\ pub[e].n = 0
           /\ \A c \in DOMAIN Consumers : got[<<e, c>>] = IF Called(e, c) THEN 1 ELSE 0
    /\ pub[e].pc = "done" =>
           \A c \in DOMAIN Consumers : got[<<e, c>>] = IF c \in present[e] THEN 1 ELSE 0

Publication == [pc : {"new", "run", "done"}, left : SUBSET B!Subjects, subject : B!Subjects \cup {<<>>},
                i : Nat, n : Nat]

MemoryInv ==
    /\ member \subseteq DOMAIN Consumers
    /\ DOMAIN array = B!Subjects /\ DOMAIN length = B!Subjects
    /\ pub \in [DOMAIN Events -> Publication]
    /\ DOMAIN present = DOMAIN Events
    /\ got \in [(DOMAIN Events) \X (DOMAIN Consumers) -> Nat]
    /\ quiet \subseteq DOMAIN Events
    /\ quiet # {} => bus = "memory"
    /\ bus = "memory" => \A s \in B!Subjects : Slice(s)
    /\ bus = "memory" => \A e \in DOMAIN Events : pub[e].pc = "new" =>
           e \notin quiet /\ pub[e].i = 0 /\ pub[e].n = 0 /\ \A c \in DOMAIN Consumers : got[<<e, c>>] = 0
    /\ \A e \in quiet : Undisturbed(e)

\* A set of indexes has a first one, which a cancel looks for.
LEMMA LeastNatural ==
    ASSUME NEW S \in SUBSET Nat, S # {}
    PROVE  \E m \in S : \A k \in S : m <= k
  <1>1. PICK m \in S : \A k \in S : ~(<<k, m>> \in OpToRel(<, Nat))
    BY NatLessThanWellFounded, WFMin
  <1>2. ASSUME NEW k \in S PROVE m <= k
    <2>1. m \in Nat /\ k \in Nat
      OBVIOUS
    <2>2. ~(k < m)
      BY <1>1, <2>1 DEF OpToRel
    <2> QED
      BY <2>1, <2>2
  <1> QED
    BY <1>2

\* A consumer's subject is one that the bus has a slice for.
LEMMA SubjectOf == \A c \in DOMAIN Consumers : Consumers[c].subject \in B!Subjects
  BY DEF B!Subjects

\* Publish walks the slices of the subjects that match the event.
LEMMA Matches == \A e : \A c \in DOMAIN Consumers : B!matches(c, e) <=> Consumers[c].subject \in B!Matching(e)
  BY DEF B!Subjects, B!Matching, B!matches

\* The array after an append to its first n places, and what these are then.
AppendedTo(a, n, c) == SubSeq(a, 1, n) \o <<c>> \o SubSeq(a, n + 2, Len(a))

\* append(subs[:i], subs[i+1:]...) closes the gap at i and leaves the rest in order.
LEMMA Spliced ==
    ASSUME NEW S, NEW a \in Seq(S), NEW n \in Nat, n <= Len(a), NEW i \in 1..n,
           NEW b, b = B!splice(a, n, i)
    PROVE  /\ b \in Seq(S) /\ Len(b) = Len(a)
           /\ \A j \in 1..n - 1 : b[j] = IF j < i THEN a[j] ELSE a[j + 1]
  <1>1. Len(a) \in Nat /\ DOMAIN a = 1..Len(a) /\ \A j \in 1..Len(a) : a[j] \in S
    BY LenProperties, ElementOfSeq
  <1>2. b = [j \in 1..Len(a) |-> IF j >= i /\ j < n THEN a[j + 1] ELSE a[j]]
    BY <1>1 DEF B!splice
  <1>3. b \in [1..Len(a) -> S]
    BY <1>1, <1>2
  <1>4. b \in Seq(S) /\ Len(b) = Len(a)
    BY <1>1, <1>3
  <1> QED
    BY <1>1, <1>2, <1>4

-----------------------------------------------------------------------------
\* An append to the slice of a subject keeps it a list of the subscribed.
LEMMA SubscribeKeeps ==
    ASSUME MemoryInv, NEW c \in DOMAIN Consumers, B!Subscribe(c)
    PROVE  MemoryInv'
  <1>1. PICK s : s = Consumers[c].subject
    OBVIOUS
  <1>2. /\ bus = "memory" /\ c \notin member /\ member' = member \cup {c}
        /\ array' = [array EXCEPT ![s] = AppendedTo(@, length[s], c)]
        /\ length' = [length EXCEPT ![s] = @ + 1]
        /\ B!Disturb /\ UNCHANGED <<pub, present, got, bus>>
    BY <1>1 DEF B!Subscribe, B!memory, AppendedTo
  <1>3. s \in B!Subjects /\ Slice(s)
    BY <1>1, <1>2, SubjectOf DEF MemoryInv
  <1>4. PICK n : n = length[s]
    OBVIOUS
  <1>5. /\ array'[s] \in Seq(DOMAIN Consumers) /\ n + 1 <= Len(array'[s])
        /\ \A j \in 1..n : array'[s][j] = array[s][j]
        /\ array'[s][n + 1] = c
    <2>1. array'[s] = AppendedTo(array[s], n, c)
      BY <1>2, <1>3, <1>4 DEF MemoryInv
    <2>2. array[s] \in Seq(DOMAIN Consumers) /\ n \in Nat /\ n <= Len(array[s])
      BY <1>3, <1>4 DEF Slice
    <2>3. PICK a : a = array[s]
      OBVIOUS
    <2>4. PICK b : b = array'[s]
      OBVIOUS
    <2>5. a \in Seq(DOMAIN Consumers) /\ n \in Nat /\ n <= Len(a) /\ b = AppendedTo(a, n, c)
      BY <2>1, <2>2, <2>3, <2>4
    <2>6. Len(a) \in Nat /\ \A i \in 1..Len(a) : a[i] \in DOMAIN Consumers
      BY <2>5, LenProperties, ElementOfSeq
    <2>7. PICK p : p = SubSeq(a, 1, n)
      OBVIOUS
    <2>8. p \in Seq(DOMAIN Consumers) /\ Len(p) = n /\ \A i \in 1..n : p[i] = a[i]
      BY <2>5, <2>6, <2>7, SubSeqProperties
    <2>9. PICK q : q = SubSeq(a, n + 2, Len(a))
      OBVIOUS
    <2>10. q \in Seq(DOMAIN Consumers) /\ Len(q) \in Nat
      <3>1. \A i \in n + 2..Len(a) : a[i] \in DOMAIN Consumers
        BY <2>5, <2>6
      <3>2. n + 2 \in Int /\ Len(a) \in Int
        BY <2>5, <2>6
      <3>3. q \in Seq(DOMAIN Consumers)
        BY <2>9, <3>1, <3>2, SubSeqProperties
      <3> QED
        BY <3>3, LenProperties
    <2>11. PICK r : r = p \o <<c>>
      OBVIOUS
    <2>12. <<c>> \in Seq(DOMAIN Consumers) /\ Len(<<c>>) = 1 /\ <<c>>[1] = c
      OBVIOUS
    <2>13. r \in Seq(DOMAIN Consumers) /\ Len(r) = n + 1 /\ \A i \in 1..n + 1 : r[i] = IF i <= n THEN p[i] ELSE <<c>>[i - n]
      BY <2>8, <2>11, <2>12, ConcatProperties
    <2>14. b = r \o q
      BY <2>5, <2>7, <2>9, <2>11 DEF AppendedTo
    <2>15. b \in Seq(DOMAIN Consumers) /\ Len(b) = Len(r) + Len(q) /\ \A i \in 1..Len(r) + Len(q) : b[i] = IF i <= Len(r) THEN r[i] ELSE q[i - Len(r)]
      <3>1. r \in Seq(DOMAIN Consumers) /\ q \in Seq(DOMAIN Consumers)
        BY <2>10, <2>13
      <3> QED
        BY <2>14, <3>1, ConcatProperties
    <2>16. Len(r) = n + 1 /\ Len(q) \in Nat
      BY <2>10, <2>13
    <2>17. \A i \in 1..n + 1 : b[i] = r[i]
      BY <2>15, <2>16
    <2>18. \A i \in 1..n : r[i] = a[i]
      BY <2>8, <2>13
    <2>19. r[n + 1] = c
      BY <2>5, <2>12, <2>13
    <2>20. b \in Seq(DOMAIN Consumers) /\ n + 1 <= Len(b) /\ b[n + 1] = c /\ \A j \in 1..n : b[j] = a[j]
      BY <2>15, <2>16, <2>17, <2>18, <2>19, <2>5
    <2> QED
      BY <2>3, <2>4, <2>20
  <1>6. length'[s] = n + 1 /\ n \in Nat
    BY <1>2, <1>3, <1>4 DEF MemoryInv, Slice
  <1>7. Slice(s)'
    <2>0. member' = member \cup {c} /\ c \notin member
      BY <1>2
    <2>1. ASSUME NEW j \in 1..n + 1
          PROVE  array'[s][j] \in member' /\ Consumers[array'[s][j]].subject = s /\ (j <= n => array'[s][j] # c)
      <3>1. CASE j = n + 1
        BY <1>1, <1>5, <1>6, <2>0, <3>1
      <3>2. CASE j \in 1..n
        BY <1>3, <1>4, <1>5, <2>0, <3>2 DEF Slice
      <3> QED
        BY <1>6, <3>1, <3>2
    <2>2. ASSUME NEW j \in 1..n + 1, NEW k \in 1..n + 1, array'[s][j] = array'[s][k] PROVE j = k
      <3>1. CASE j \in 1..n /\ k \in 1..n
        BY <1>3, <1>4, <1>5, <2>2, <3>1 DEF Slice
      <3>2. CASE j = n + 1 \/ k = n + 1
        BY <1>5, <1>6, <2>1, <2>2, <3>2
      <3> QED
        BY <1>6, <3>1, <3>2
    <2>3. ASSUME NEW d \in member', Consumers[d].subject = s PROVE \E j \in 1..n + 1 : array'[s][j] = d
      <3>1. CASE d = c
        BY <1>5, <1>6, <3>1
      <3>2. CASE d \in member
        <4>1. PICK j \in 1..n : array[s][j] = d
          BY <1>3, <1>4, <2>3, <3>2 DEF Slice
        <4> QED
          BY <1>5, <1>6, <4>1
      <3> QED
        BY <1>2, <3>1, <3>2
    <2> QED
      BY <1>5, <1>6, <2>1, <2>2, <2>3 DEF Slice
  <1>8. ASSUME NEW t \in B!Subjects, t # s PROVE Slice(t)'
    <2>1. array'[t] = array[t] /\ length'[t] = length[t]
      BY <1>2, <1>8 DEF MemoryInv
    <2>2. Slice(t)
      BY <1>2 DEF MemoryInv
    <2> QED
      BY <1>1, <1>2, <1>8, <2>1, <2>2 DEF Slice
  <1>9. DOMAIN array' = B!Subjects /\ DOMAIN length' = B!Subjects
    BY <1>2 DEF MemoryInv
  <1>10. \A e \in quiet' : e \in quiet /\ pub[e].pc # "run"
    BY <1>2 DEF B!Disturb
  <1>11. \A e \in quiet' : Undisturbed(e)'
    BY <1>2, <1>10 DEF MemoryInv, Undisturbed
  <1> QED
    BY <1>2, <1>7, <1>8, <1>9, <1>10, <1>11 DEF MemoryInv

\* A cancel removes one consumer from the slice of its subject and no other.
LEMMA CancelKeeps ==
    ASSUME MemoryInv, NEW c \in DOMAIN Consumers, B!Cancel(c)
    PROVE  MemoryInv'
  <1>1. PICK s : s = Consumers[c].subject
    OBVIOUS
  <1>2. s \in B!Subjects /\ Slice(s) /\ bus = "memory"
    BY <1>1, SubjectOf DEF MemoryInv, B!Cancel
  <1>3. PICK n : n = length[s]
    OBVIOUS
  <1>4. PICK named : named = {i \in 1..n : Consumers[array[s][i]].name = Consumers[c].name}
    OBVIOUS
  <1>5. named \in SUBSET Nat /\ named \subseteq 1..n /\ named # {}
    <2>1. n \in Nat
      BY <1>2, <1>3 DEF Slice
    <2>2. named # {}
      BY <1>1, <1>3, <1>4, Zenon DEF B!Cancel
    <2> QED
      BY <1>4, <2>1, <2>2
  <1>6. PICK i : i = CHOOSE k \in named : \A j \in named : k <= j
    OBVIOUS
  <1>7. i \in 1..n
    BY <1>5, <1>6, LeastNatural
  <1>8. /\ array' = [array EXCEPT ![s] = B!splice(@, n, i)]
        /\ member' = member \ {array[s][i]}
        /\ length' = [length EXCEPT ![s] = @ - 1]
        /\ present' = [e \in DOMAIN Events |->
                          IF pub[e].pc = "run" THEN present[e] \cap member' ELSE present[e]]
        /\ B!Disturb /\ UNCHANGED <<pub, got, bus>>
    BY <1>1, <1>3, <1>4, <1>6 DEF B!Cancel, B!memory
  <1>9. /\ array'[s] \in Seq(DOMAIN Consumers) /\ n <= Len(array'[s])
        /\ \A j \in 1..n - 1 : array'[s][j] = IF j < i THEN array[s][j] ELSE array[s][j + 1]
    <2>1. array'[s] = B!splice(array[s], n, i)
      BY <1>2, <1>8 DEF MemoryInv
    <2>2. array[s] \in Seq(DOMAIN Consumers) /\ n \in Nat /\ n <= Len(array[s])
      BY <1>2, <1>3 DEF Slice
    <2> QED
      BY <1>7, <2>1, <2>2, Spliced
  <1>10. length'[s] = n - 1 /\ n \in Nat /\ n - 1 \in Nat
    BY <1>2, <1>3, <1>7, <1>8 DEF MemoryInv, Slice
  <1>11. Slice(s)'
    <2>1. ASSUME NEW j \in 1..n - 1
          PROVE  array'[s][j] \in member' /\ Consumers[array'[s][j]].subject = s
      <3>1. PICK m \in 1..n : m # i /\ array'[s][j] = array[s][m]
        BY <1>7, <1>9, <1>10
      <3> QED
        BY <1>2, <1>3, <1>7, <1>8, <3>1 DEF Slice
    <2>2. ASSUME NEW j \in 1..n - 1, NEW k \in 1..n - 1, array'[s][j] = array'[s][k] PROVE j = k
      <3>1. PICK m : m = IF j < i THEN j ELSE j + 1
        OBVIOUS
      <3>2. PICK l : l = IF k < i THEN k ELSE k + 1
        OBVIOUS
      <3>3. m \in 1..n /\ l \in 1..n /\ array[s][m] = array[s][l]
        BY <1>7, <1>9, <1>10, <2>2, <3>1, <3>2
      <3>4. m = l
        BY <1>2, <1>3, <3>3 DEF Slice
      <3> QED
        BY <1>7, <1>10, <3>1, <3>2, <3>4
    <2>3. ASSUME NEW d \in member', Consumers[d].subject = s PROVE \E j \in 1..n - 1 : array'[s][j] = d
      <3>1. PICK m \in 1..n : array[s][m] = d
        BY <1>2, <1>3, <1>8, <2>3 DEF Slice
      <3>2. m # i
        BY <1>8, <3>1
      <3>3. PICK j : j = IF m < i THEN m ELSE m - 1
        OBVIOUS
      <3>4. j \in 1..n - 1 /\ array'[s][j] = d
        BY <1>7, <1>9, <1>10, <3>1, <3>2, <3>3, SMTT(30)
      <3> QED
        BY <3>4
    <2>4. length'[s] <= Len(array'[s])
      BY <1>9, <1>10, LenProperties
    <2> QED
      BY <1>9, <1>10, <2>1, <2>2, <2>3, <2>4 DEF Slice
  <1>12. ASSUME NEW t \in B!Subjects, t # s PROVE Slice(t)'
    <2>1. array'[t] = array[t] /\ length'[t] = length[t]
      BY <1>8, <1>12 DEF MemoryInv
    <2>2. Slice(t)
      BY <1>2 DEF MemoryInv
    <2>3. Consumers[array[s][i]].subject = s
      BY <1>2, <1>3, <1>7 DEF Slice
    <2> QED
      BY <1>8, <1>12, <2>1, <2>2, <2>3 DEF Slice
  <1>13. DOMAIN array' = B!Subjects /\ DOMAIN length' = B!Subjects /\ DOMAIN present' = DOMAIN Events
    BY <1>8 DEF MemoryInv
  <1>14. \A e \in quiet' : e \in quiet /\ pub[e].pc # "run"
    BY <1>8 DEF B!Disturb
  <1>15. \A e \in quiet' : Undisturbed(e)'
    BY <1>8, <1>14 DEF MemoryInv, Undisturbed
  <1> QED
    BY <1>2, <1>8, <1>11, <1>12, <1>13, <1>14, <1>15 DEF MemoryInv

-----------------------------------------------------------------------------
\* A step of one publication leaves the others as they are.
LEMMA OtherPublications ==
    ASSUME MemoryInv, NEW e \in DOMAIN Events, bus = "memory",
           UNCHANGED <<bus, member, array, length>>,
           pub' \in [DOMAIN Events -> Publication], DOMAIN present' = DOMAIN Events,
           got' \in [(DOMAIN Events) \X (DOMAIN Consumers) -> Nat],
           quiet' \subseteq quiet \cup {e},
           \A d \in DOMAIN Events \ {e} :
               /\ pub'[d] = pub[d] /\ present'[d] = present[d]
               /\ \A c \in DOMAIN Consumers : got'[<<d, c>>] = got[<<d, c>>],
           pub'[e].pc # "new", e \in quiet' => Undisturbed(e)'
    PROVE  MemoryInv'
  <1>1. \A s \in B!Subjects : Slice(s)'
    BY DEF MemoryInv, Slice
  <1>2. ASSUME NEW d \in quiet' PROVE Undisturbed(d)'
    <2>1. CASE d # e
      <3>1. d \in quiet /\ d \in DOMAIN Events /\ Undisturbed(d)
        BY <2>1 DEF MemoryInv
      <3>2. /\ pub'[d] = pub[d] /\ present'[d] = present[d]
            /\ \A c \in DOMAIN Consumers : got'[<<d, c>>] = got[<<d, c>>]
        BY <2>1, <3>1
      <3>3. \A c \in DOMAIN Consumers : Called(d, c)' <=> Called(d, c)
        BY <3>2 DEF Called
      <3> QED
        BY <3>1, <3>2, <3>3 DEF Undisturbed
    <2> QED
      BY <1>2, <2>1
  <1>3. \A d \in DOMAIN Events : pub'[d].pc = "new" =>
            d \notin quiet' /\ pub'[d].i = 0 /\ pub'[d].n = 0 /\ \A c \in DOMAIN Consumers : got'[<<d, c>>] = 0
    BY DEF MemoryInv
  <1> QED
    BY <1>1, <1>2, <1>3 DEF MemoryInv

\* A publication starts with no consumer called.
LEMMA PublishKeeps ==
    ASSUME MemoryInv, NEW e \in DOMAIN Events, B!Publish(e)
    PROVE  MemoryInv'
  <1>1. PICK p : p = [pub[e] EXCEPT !.pc = "run", !.left = B!Matching(e)]
    OBVIOUS
  <1>2. pub[e] \in Publication /\ pub[e].pc = "new" /\ pub[e].i = 0 /\ pub[e].n = 0
    BY DEF B!Publish, MemoryInv
  <1>3. p \in Publication /\ p.pc = "run" /\ p.left = B!Matching(e) /\ p.i = 0 /\ p.n = 0
    BY <1>1, <1>2 DEF Publication, B!Matching
  <1>4. pub' = [pub EXCEPT ![e] = p]
    BY <1>1 DEF B!Publish, MemoryInv
  <1>5. /\ bus = "memory" /\ quiet' = quiet \cup {e} /\ UNCHANGED <<bus, member, array, length, got>>
        /\ present' = [present EXCEPT ![e] = {c \in member : B!matches(c, e)}]
    BY DEF B!Publish, B!memory
  <1>6. pub' \in [DOMAIN Events -> Publication] /\ pub'[e] = p
    BY <1>3, <1>4 DEF MemoryInv
  <1>7. \A c \in DOMAIN Consumers : c \in present'[e] <=> c \in member /\ Consumers[c].subject \in B!Matching(e)
    BY <1>5, Matches DEF MemoryInv
  <1>8. \A c \in DOMAIN Consumers : got[<<e, c>>] = 0 /\ ~Called(e, c)'
    BY <1>2, <1>3, <1>5, <1>6 DEF MemoryInv, Called
  <1>9. Undisturbed(e)'
    BY <1>3, <1>5, <1>6, <1>7, <1>8 DEF Undisturbed
  <1>10. \A d \in DOMAIN Events \ {e} : pub'[d] = pub[d] /\ present'[d] = present[d]
    BY <1>4, <1>5 DEF MemoryInv
  <1>11. DOMAIN present' = DOMAIN Events
    BY <1>5 DEF MemoryInv
  <1>12. got' \in [(DOMAIN Events) \X (DOMAIN Consumers) -> Nat]
    BY <1>5 DEF MemoryInv
  <1> QED
    BY <1>3, <1>5, <1>6, <1>9, <1>10, <1>11, <1>12, OtherPublications

\* Publish goes on to a subject when it has called everyone of the last one.
LEMMA RangeOverKeeps ==
    ASSUME MemoryInv, NEW e \in DOMAIN Events, NEW s \in B!Subjects, B!RangeOver(e, s)
    PROVE  MemoryInv'
  <1>1. PICK p : p = [pub[e] EXCEPT !.left = pub[e].left \ {s}, !.subject = s, !.i = 0, !.n = length[s]]
    OBVIOUS
  <1>2. /\ pub[e] \in Publication /\ pub[e].pc = "run" /\ pub[e].i = pub[e].n /\ s \in pub[e].left
        /\ Slice(s)
    BY DEF B!RangeOver, MemoryInv
  <1>3. /\ p \in Publication /\ p.pc = "run" /\ p.left = pub[e].left \ {s} /\ p.subject = s
        /\ p.i = 0 /\ p.n = length[s]
    BY <1>1, <1>2 DEF Publication, Slice
  <1>4. pub' = [pub EXCEPT ![e] = p]
    BY <1>1 DEF B!RangeOver
  <1>5. bus = "memory" /\ UNCHANGED <<bus, member, array, length, got, present, quiet>>
    BY DEF B!RangeOver, B!memory
  <1>6. pub' \in [DOMAIN Events -> Publication] /\ pub'[e] = p
    BY <1>3, <1>4 DEF MemoryInv
  <1>7. ASSUME e \in quiet PROVE Undisturbed(e)'
    <2>1. Undisturbed(e)
      BY <1>7 DEF MemoryInv
    <2>2. \A t \in B!Subjects : Slice(t)
      BY <1>5 DEF MemoryInv
    <2>3. ASSUME NEW c \in DOMAIN Consumers PROVE Called(e, c)' <=> Called(e, c)
      <3>1. Called(e, c)' <=> /\ c \in member
                              /\ Consumers[c].subject \in B!Matching(e) \ (pub[e].left \ {s})
                              /\ Consumers[c].subject # s
        <4>1. 1..0 = {}
          OBVIOUS
        <4> QED
          BY <1>3, <1>5, <1>6, <4>1 DEF Called
      <3>2. CASE pub[e].left = B!Matching(e)
        BY <1>2, <2>1, <3>1, <3>2 DEF Called, Undisturbed
      <3>3. CASE pub[e].subject \in B!Matching(e) \ pub[e].left /\ pub[e].n = length[pub[e].subject]
        <4>1. pub[e].subject # s
          BY <1>2, <3>3
        <4>2. c \in member /\ Consumers[c].subject = pub[e].subject =>
                  \E j \in 1..pub[e].i : array[pub[e].subject][j] = c
          <5>1. pub[e].subject \in B!Subjects
            BY <3>3 DEF B!Matching
          <5> QED
            BY <1>2, <2>2, <3>3, <5>1 DEF Slice
        <4> QED
          BY <1>2, <3>1, <3>3, <4>1, <4>2 DEF Called
      <3> QED
        BY <1>2, <2>1, <3>2, <3>3 DEF Undisturbed
    <2>4. p.left \subseteq B!Matching(e) /\ s \in B!Matching(e) \ p.left
      BY <1>2, <1>3, <2>1 DEF Undisturbed
    <2>5. p.i <= p.n
      BY <1>2, <1>3 DEF Slice
    <2> QED
      BY <1>2, <1>3, <1>5, <1>6, <2>1, <2>3, <2>4, <2>5 DEF Undisturbed
  <1>8. \A d \in DOMAIN Events \ {e} : pub'[d] = pub[d]
    BY <1>4 DEF MemoryInv
  <1>9. DOMAIN present' = DOMAIN Events /\ got' \in [(DOMAIN Events) \X (DOMAIN Consumers) -> Nat]
    BY <1>5 DEF MemoryInv
  <1> QED
    BY <1>3, <1>5, <1>6, <1>7, <1>8, <1>9, OtherPublications

\* Publish calls the next consumer of its subject, which it has not called yet.
LEMMA CallKeeps ==
    ASSUME MemoryInv, NEW e \in DOMAIN Events, B!Call(e)
    PROVE  MemoryInv'
  <1>1. PICK c : c = array[pub[e].subject][pub[e].i + 1]
    OBVIOUS
  <1>2. PICK p : p = [pub[e] EXCEPT !.i = @ + 1]
    OBVIOUS
  <1>3. pub[e] \in Publication /\ pub[e].pc = "run" /\ pub[e].i < pub[e].n
    BY DEF B!Call, MemoryInv
  <1>4. /\ p \in Publication /\ p.pc = "run" /\ p.left = pub[e].left /\ p.subject = pub[e].subject
        /\ p.i = pub[e].i + 1 /\ p.n = pub[e].n
    BY <1>2, <1>3 DEF Publication
  <1>5. pub' = [pub EXCEPT ![e] = p] /\ got' = [got EXCEPT ![<<e, c>>] = @ + 1]
    BY <1>1, <1>2 DEF B!Call
  <1>6. bus = "memory" /\ UNCHANGED <<bus, member, array, length, present, quiet>>
    BY DEF B!Call, B!memory
  <1>7. pub' \in [DOMAIN Events -> Publication] /\ pub'[e] = p
    BY <1>4, <1>5 DEF MemoryInv
  <1>8. got' \in [(DOMAIN Events) \X (DOMAIN Consumers) -> Nat]
    <2>1. CASE c \in DOMAIN Consumers
      BY <1>5, <2>1 DEF MemoryInv
    <2>2. CASE c \notin DOMAIN Consumers
      <3>1. <<e, c>> \notin (DOMAIN Events) \X (DOMAIN Consumers)
        BY <2>2
      <3> QED
        BY <1>5, <3>1 DEF MemoryInv
    <2> QED
      BY <2>1, <2>2
  <1>9. \A d \in DOMAIN Events, x \in DOMAIN Consumers : d # e \/ x # c => got'[<<d, x>>] = got[<<d, x>>]
    BY <1>5 DEF MemoryInv
  <1>10. ASSUME e \in quiet PROVE Undisturbed(e)'
    <2>1. Undisturbed(e)
      BY <1>10 DEF MemoryInv
    <2>2. PICK s : s = pub[e].subject
      OBVIOUS
    <2>3. s \in B!Matching(e) \ pub[e].left /\ pub[e].n = length[s]
      BY <1>3, <2>1, <2>2 DEF Undisturbed, Publication
    <2>4. Slice(s)
      BY <1>6, <2>3 DEF MemoryInv, B!Matching
    <2>5. PICK i \in Nat : i = pub[e].i
      BY <1>3 DEF Publication
    <2>6. c = array[s][i + 1] /\ i + 1 \in 1..length[s] /\ i + 1 <= length[s]
      BY <1>1, <1>3, <2>2, <2>3, <2>4, <2>5 DEF Slice
    <2>7. c \in DOMAIN Consumers /\ c \in member /\ Consumers[c].subject = s
      BY <2>4, <2>6 DEF Slice, MemoryInv
    <2>8. ~ \E j \in 1..i : array[s][j] = c
      BY <2>4, <2>5, <2>6 DEF Slice
    <2>9. ~Called(e, c)
      BY <2>2, <2>5, <2>7, <2>8 DEF Called
    <2>10. got[<<e, c>>] = 0 /\ got'[<<e, c>>] = 1
      BY <1>3, <1>5, <2>1, <2>7, <2>9 DEF Undisturbed, MemoryInv
    <2>11. Called(e, c)'
      <3>1. i + 1 \in 1..i + 1
        BY <2>5
      <3> QED
        BY <1>4, <1>6, <1>7, <2>2, <2>3, <2>5, <2>6, <2>7, <3>1 DEF Called
    <2>12. ASSUME NEW x \in DOMAIN Consumers, x # c PROVE Called(e, x)' <=> Called(e, x)
      <3>1. (\E j \in 1..i + 1 : array[s][j] = x) <=> (\E j \in 1..i : array[s][j] = x)
        <4>1. \A j \in 1..i + 1 : j # i + 1 => j \in 1..i
          BY <2>5
        <4>2. \A j \in 1..i : j \in 1..i + 1
          BY <2>5
        <4> QED
          BY <2>6, <2>12, <4>1, <4>2
      <3> QED
        BY <1>4, <1>6, <1>7, <2>2, <2>5, <3>1 DEF Called
    <2>13. p.i <= p.n
      BY <1>4, <2>3, <2>5, <2>6
    <2>14. \A x \in DOMAIN Consumers : got'[<<e, x>>] = IF Called(e, x)' THEN 1 ELSE 0
      BY <1>3, <1>9, <2>1, <2>10, <2>11, <2>12 DEF Undisturbed
    <2> QED
      BY <1>3, <1>4, <1>6, <1>7, <2>1, <2>2, <2>3, <2>13, <2>14 DEF Undisturbed
  <1>11. \A d \in DOMAIN Events \ {e} : pub'[d] = pub[d]
    BY <1>5 DEF MemoryInv
  <1>12. DOMAIN present' = DOMAIN Events
    BY <1>6 DEF MemoryInv
  <1> QED
    BY <1>4, <1>6, <1>7, <1>8, <1>9, <1>10, <1>11, <1>12, OtherPublications

\* When Publish returns, everyone it found subscribed has been called once.
LEMMA ReturnKeeps ==
    ASSUME MemoryInv, NEW e \in DOMAIN Events, B!Return(e)
    PROVE  MemoryInv'
  <1>1. PICK p : p = [pub[e] EXCEPT !.pc = "done", !.subject = <<>>, !.i = 0, !.n = 0]
    OBVIOUS
  <1>2. pub[e] \in Publication /\ pub[e].pc = "run" /\ pub[e].i = pub[e].n /\ pub[e].left = {}
    BY DEF B!Return, MemoryInv
  <1>3. p \in Publication /\ p.pc = "done"
    BY <1>1, <1>2 DEF Publication
  <1>4. pub' = [pub EXCEPT ![e] = p]
    BY <1>1 DEF B!Return
  <1>5. bus = "memory" /\ UNCHANGED <<bus, member, array, length, got, present, quiet>>
    BY DEF B!Return, B!memory
  <1>6. pub' \in [DOMAIN Events -> Publication] /\ pub'[e] = p
    BY <1>3, <1>4 DEF MemoryInv
  <1>7. ASSUME e \in quiet PROVE Undisturbed(e)'
    <2>1. Undisturbed(e)
      BY <1>7 DEF MemoryInv
    <2>2. \A t \in B!Subjects : Slice(t)
      BY <1>5 DEF MemoryInv
    <2>3. ASSUME NEW c \in DOMAIN Consumers PROVE Called(e, c) <=> c \in present[e]
      <3>1. c \in present[e] => Consumers[c].subject \in B!Matching(e) /\ c \in member
        BY <1>2, <2>1 DEF Undisturbed
      <3>2. c \in member /\ Consumers[c].subject = pub[e].subject /\ Consumers[c].subject \in B!Matching(e) =>
                \E j \in 1..pub[e].i : array[pub[e].subject][j] = c
        <4>1. Consumers[c].subject \in B!Subjects
          BY SubjectOf
        <4> QED
          BY <1>2, <2>1, <2>2, <4>1 DEF Slice, Undisturbed
      <3> QED
        BY <1>2, <2>1, <3>1, <3>2 DEF Called, Undisturbed
    <2> QED
      BY <1>2, <1>3, <1>5, <1>6, <2>1, <2>3 DEF Undisturbed
  <1>8. \A d \in DOMAIN Events \ {e} : pub'[d] = pub[d]
    BY <1>4 DEF MemoryInv
  <1>9. DOMAIN present' = DOMAIN Events /\ got' \in [(DOMAIN Events) \X (DOMAIN Consumers) -> Nat]
    BY <1>5 DEF MemoryInv
  <1> QED
    BY <1>3, <1>5, <1>6, <1>7, <1>8, <1>9, OtherPublications

-----------------------------------------------------------------------------
\* JetStream owes an event to the durables of the consumers that were there,
\* and has an acknowledgement only for one that a consumer has handled.
NATSInv ==
    bus = "nats" =>
        /\ \A e \in DOMAIN Events : pub[e].pc = "done" =>
               \A c \in present[e] : <<e, Consumers[c].name>> \in DOMAIN tries
        /\ \A x \in acked : \E d \in DOMAIN Consumers : Consumers[d].name = x[2] /\ got[<<x[1], d>>] > 0

BusInv == MemoryInv /\ NATSInv

\* JetStream stores an event for every durable whose filter matches it.
LEMMA PublishDurableStep ==
    ASSUME BusInv, NEW e \in DOMAIN Events, B!PublishDurable(e)
    PROVE  BusInv'
  <1>1. bus = "nats" /\ UNCHANGED <<bus, array, length, quiet, got, acked, member>>
    BY DEF B!PublishDurable, B!nats
  <1>2. quiet = {} /\ bus # "memory"
    BY <1>1 DEF BusInv, MemoryInv
  <1>3. PICK owing : owing = {n \in DOMAIN durable : B!matchSubject(durable[n], Events[e])}
    OBVIOUS
  <1>4. /\ pub' = [pub EXCEPT ![e].pc = "done"]
        /\ tries' = [x \in DOMAIN tries \cup ({e} \X owing) |-> IF x \in DOMAIN tries THEN tries[x] ELSE 0]
        /\ present' = [present EXCEPT ![e] = {d \in DOMAIN Consumers : Consumers[d].name \in owing}]
    BY <1>3 DEF B!PublishDurable
  <1>5. pub' \in [DOMAIN Events -> Publication] /\ \A d \in DOMAIN Events \ {e} : pub'[d] = pub[d]
    BY <1>4, ZenonT(60) DEF BusInv, MemoryInv, Publication
  <1>6. DOMAIN present' = DOMAIN Events /\ \A d \in DOMAIN Events \ {e} : present'[d] = present[d]
    BY <1>4 DEF BusInv, MemoryInv
  <1>7. DOMAIN tries' = DOMAIN tries \cup ({e} \X owing)
    BY <1>4
  <1>8. \A d \in present'[e] : <<e, Consumers[d].name>> \in DOMAIN tries'
    BY <1>4, <1>7 DEF BusInv, MemoryInv
  <1>9. NATSInv'
    BY <1>1, <1>5, <1>6, <1>7, <1>8 DEF BusInv, NATSInv
  <1> QED
    BY <1>1, <1>2, <1>5, <1>6, <1>9 DEF BusInv, MemoryInv

\* A message is acknowledged only after its handler has returned without error.
LEMMA DeliverStep ==
    ASSUME BusInv, NEW e \in DOMAIN Events, NEW c \in DOMAIN Consumers,
           NEW ok \in BOOLEAN, NEW dropped \in BOOLEAN, B!Deliver(e, c, ok, dropped)
    PROVE  BusInv'
  <1>1. PICK x : x = <<e, Consumers[c].name>>
    OBVIOUS
  <1>2. /\ bus = "nats" /\ UNCHANGED <<bus, array, length, quiet, member, pub, present>>
        /\ tries' = [tries EXCEPT ![x] = @ + 1]
        /\ got' = IF ok THEN [got EXCEPT ![<<e, c>>] = @ + 1] ELSE got
        /\ acked' = IF dropped THEN acked ELSE B!ackedAfter(x, ok)
    BY <1>1, Zenon DEF B!Deliver, B!nats
  <1>3. quiet = {} /\ bus # "memory"
    BY <1>2 DEF BusInv, MemoryInv
  <1>4. /\ got' \in [(DOMAIN Events) \X (DOMAIN Consumers) -> Nat]
        /\ \A d \in (DOMAIN Events) \X (DOMAIN Consumers) : got[d] > 0 => got'[d] > 0
        /\ ok => got'[<<e, c>>] > 0
    <2>1. got \in [(DOMAIN Events) \X (DOMAIN Consumers) -> Nat]
      BY DEF BusInv, MemoryInv
    <2>2. CASE ok
      <3>1. got' = [got EXCEPT ![<<e, c>>] = @ + 1]
        BY <1>2, <2>2
      <3> QED
        BY <2>1, <3>1
    <2>3. CASE ~ok
      <3>1. got' = got
        BY <1>2, <2>3
      <3> QED
        BY <2>1, <2>3, <3>1
    <2> QED
      BY <2>2, <2>3
  <1>5. \A y \in acked' : y \in acked \/ (y = x /\ ok)
    BY <1>2 DEF B!ackedAfter
  <1>6. DOMAIN tries' = DOMAIN tries
    BY <1>2
  <1>7. \A y \in acked' : \E d \in DOMAIN Consumers : Consumers[d].name = y[2] /\ got'[<<y[1], d>>] > 0
    <2> SUFFICES ASSUME NEW y \in acked' PROVE \E d \in DOMAIN Consumers : Consumers[d].name = y[2] /\ got'[<<y[1], d>>] > 0
      OBVIOUS
    <2>1. CASE y \in acked
      BY <1>2, <1>4, <2>1 DEF BusInv, NATSInv
    <2>2. CASE y = x /\ ok
      BY <1>1, <1>4, <2>2
    <2> QED
      BY <1>5, <2>1, <2>2
  <1>8. NATSInv'
    BY <1>2, <1>6, <1>7 DEF BusInv, NATSInv
  <1> QED
    BY <1>2, <1>3, <1>4, <1>8 DEF BusInv, MemoryInv

\* The slices of MemoryBus name every subscribed consumer once, and a durable
\* keeps what it owes: each bus delivers what it promises.
THEOREM EventsReachConsumers == B!Spec => []BusDelivers
  <1>1. B!Init => BusInv
    <2> SUFFICES ASSUME B!Init PROVE BusInv
      OBVIOUS
    <2>1. /\ member = {} /\ quiet = {} /\ acked = {}
          /\ DOMAIN array = B!Subjects /\ DOMAIN length = B!Subjects /\ DOMAIN present = DOMAIN Events
          /\ \A s \in B!Subjects : array[s] = <<>> /\ length[s] = 0
          /\ got = [x \in (DOMAIN Events) \X (DOMAIN Consumers) |-> 0]
      BY DEF B!Init
    <2>2. PICK p : p = [pc |-> "new", left |-> {}, subject |-> <<>>, i |-> 0, n |-> 0]
      OBVIOUS
    <2>3. pub = [e \in DOMAIN Events |-> p]
      BY <2>2 DEF B!Init
    <2>4. p \in Publication /\ p.pc = "new" /\ p.i = 0 /\ p.n = 0
      BY <2>2 DEF Publication
    <2>5. \A s \in B!Subjects : Slice(s)
      <3>1. ASSUME NEW s \in B!Subjects PROVE Slice(s)
        <4>1. array[s] \in Seq(DOMAIN Consumers) /\ Len(array[s]) = 0 /\ 1..length[s] = {} /\ length[s] = 0
          <5>1. array[s] = <<>> /\ length[s] = 0
            BY <2>1
          <5>2. <<>> \in Seq(DOMAIN Consumers) /\ Len(<<>>) = 0 /\ 1..0 = {}
            BY EmptySeq
          <5> QED
            BY <5>1, <5>2
        <4>2. member = {}
          BY <2>1
        <4> QED
          BY <4>1, <4>2 DEF Slice
      <3> QED
        BY <3>1
    <2>6. MemoryInv
      BY <2>1, <2>3, <2>4, <2>5 DEF MemoryInv
    <2>7. NATSInv
      BY <2>1, <2>3, <2>4 DEF NATSInv
    <2> QED
      BY <2>6, <2>7 DEF BusInv
  <1>2. BusInv /\ [B!Next]_B!vars => BusInv'
    <2> SUFFICES ASSUME BusInv, [B!Next]_B!vars PROVE BusInv'
      OBVIOUS
    <2>1. ASSUME bus = "memory", bus' = bus, MemoryInv' PROVE BusInv'
      BY <2>1, SMTT(30) DEF BusInv, NATSInv
    <2>2. ASSUME NEW c \in DOMAIN Consumers, B!Subscribe(c) PROVE BusInv'
      BY <2>1, <2>2, SubscribeKeeps DEF BusInv, B!Subscribe, B!memory
    <2>3. ASSUME NEW c \in DOMAIN Consumers, B!Cancel(c) PROVE BusInv'
      BY <2>1, <2>3, CancelKeeps DEF BusInv, B!Cancel, B!memory
    <2>4. ASSUME NEW e \in DOMAIN Events, B!Publish(e) PROVE BusInv'
      BY <2>1, <2>4, PublishKeeps DEF BusInv, B!Publish, B!memory
    <2>5. ASSUME NEW e \in DOMAIN Events, NEW s \in B!Subjects, B!RangeOver(e, s) PROVE BusInv'
      BY <2>1, <2>5, RangeOverKeeps DEF BusInv, B!RangeOver, B!memory
    <2>6. ASSUME NEW e \in DOMAIN Events, B!Call(e) PROVE BusInv'
      BY <2>1, <2>6, CallKeeps DEF BusInv, B!Call, B!memory
    <2>7. ASSUME NEW e \in DOMAIN Events, B!Return(e) PROVE BusInv'
      BY <2>1, <2>7, ReturnKeeps DEF BusInv, B!Return, B!memory
    <2>8. ASSUME NEW c \in DOMAIN Consumers, B!SubscribeDurable(c) \/ B!Stop(c) PROVE BusInv'
      <3>1. bus = "nats" /\ UNCHANGED <<bus, array, length, quiet, got, acked, pub, present, tries>>
        BY <2>8 DEF B!SubscribeDurable, B!Stop, B!nats
      <3>2. quiet = {} /\ member' \subseteq DOMAIN Consumers
        BY <2>8, <3>1 DEF BusInv, MemoryInv, B!SubscribeDurable, B!Stop
      <3> QED
        BY <3>1, <3>2 DEF BusInv, MemoryInv, NATSInv
    <2>9. ASSUME NEW e \in DOMAIN Events, B!PublishDurable(e) PROVE BusInv'
      BY <2>9, PublishDurableStep
    <2>10. ASSUME NEW e \in DOMAIN Events, NEW c \in DOMAIN Consumers, NEW ok \in BOOLEAN, NEW dropped \in BOOLEAN,
                  B!Deliver(e, c, ok, dropped)
           PROVE  BusInv'
      BY <2>10, DeliverStep
    <2>11. CASE UNCHANGED B!vars
      <3>1. (\A s \in B!Subjects : Slice(s)' <=> Slice(s)) /\ (\A e \in quiet : Undisturbed(e)' <=> Undisturbed(e))
        BY <2>11 DEF B!vars, Slice, Undisturbed, Called
      <3> QED
        BY <2>11, <3>1 DEF B!vars, BusInv, MemoryInv, NATSInv
    <2>12. CASE B!Next
      BY <2>12, <2>2, <2>3, <2>4, <2>5, <2>6, <2>7, <2>8, <2>9, <2>10, Zenon DEF B!Next
    <2> QED
      BY <2>11, <2>12
  <1>3. BusInv => B!MemoryExactlyOnce
    BY DEF BusInv, MemoryInv, Undisturbed, B!MemoryExactlyOnce
  <1>4. BusInv => B!NATSKeeps
    BY DEF BusInv, NATSInv, B!NATSKeeps
  <1> QED
    BY <1>1, <1>2, <1>3, <1>4, PTL DEF B!Spec, BusDelivers, B!BusDelivers

-----------------------------------------------------------------------------
(* The process and its graph persister.                                    *)

\* What the persister knows of the graph: a save under way has read it as it
\* is, or the graph is dirty.
KnownToSave ==
    /\ loop \in {"wait", "save", "write", "stopped"}
    /\ loop \in {"wait", "stopped"} => dirty \/ file = nodes
    /\ loop = "write" => dirty \/ snap = nodes

ProcessInv ==
    /\ loop \in {"wait", "save", "write", "stopped"}
    /\ DOMAIN req = Requests
    /\ /\ L!Alive
       /\ \E r \in Requests : req[r] # "none"
       /\ \A r \in Requests : ~L!Busy(r)
       => KnownToSave

\* A step that ends no request.
LEMMA StillBusy ==
    ASSUME ProcessInv, NEW r \in Requests, NEW s \in {"stored", "changed"},
           req' = [req EXCEPT ![r] = s], UNCHANGED loop
    PROVE  ProcessInv'
  BY DEF ProcessInv, L!Busy, KnownToSave

\* The mark of a changed graph, set at any moment of a save, is seen by the
\* next one: what MarkDirty, Start and Save do to dirty keeps every change.
THEOREM NoChangeForgotten == L!Spec => []SavedOrDirty
  <1> USE DEF L!Alive
  <1>1. L!Init => ProcessInv
    BY DEF L!Init, ProcessInv, KnownToSave
  <1>2. ProcessInv /\ [L!Next]_L!vars => ProcessInv'
    <2> SUFFICES ASSUME ProcessInv, [L!Next]_L!vars PROVE ProcessInv'
      OBVIOUS
    <2>1. ASSUME NEW r \in Requests, NEW e \in Documents, L!Store(r, e) PROVE ProcessInv'
      BY <2>1, StillBusy DEF L!Store
    <2>2. ASSUME NEW r \in Requests, L!Change(r) PROVE ProcessInv'
      BY <2>2, StillBusy DEF L!Change
    <2>3. ASSUME NEW r \in Requests, L!MarkDirty(r) PROVE ProcessInv'
      BY <2>3 DEF L!MarkDirty, ProcessInv, KnownToSave
    <2>4. CASE L!Tick
      BY <2>4 DEF L!Tick, ProcessInv, KnownToSave, L!Busy
    <2>5. CASE L!LastTick
      BY <2>5 DEF L!LastTick, ProcessInv, KnownToSave, L!Busy
    <2>6. CASE L!Snapshot
      BY <2>6 DEF L!Snapshot, ProcessInv, KnownToSave, L!Busy
    <2>7. CASE L!Written
      BY <2>7 DEF L!Written, ProcessInv, KnownToSave, L!Busy
    <2>8. CASE L!WriteFails
      BY <2>8 DEF L!WriteFails, ProcessInv, KnownToSave, L!Busy
    <2>9. CASE L!Signal \/ L!Drained \/ L!DrainTimeout \/ L!Stopped \/ L!Exit \/ L!Crash
      BY <2>9 DEF L!Signal, L!Drained, L!DrainTimeout, L!Stopped, L!Exit, L!Crash,
                  ProcessInv, KnownToSave, L!Busy
    <2>10. CASE L!Restart
      BY <2>10 DEF L!Restart, ProcessInv
    <2>11. CASE UNCHANGED L!vars
      BY <2>11 DEF L!vars, ProcessInv, KnownToSave, L!Busy
    <2> QED
      BY <2>1, <2>2, <2>3, <2>4, <2>5, <2>6, <2>7, <2>8, <2>9, <2>10, <2>11 DEF L!Next
  <1>3. ProcessInv => SavedOrDirty
    BY DEF SavedOrDirty, ProcessInv, KnownToSave, L!SavedOrDirty
  <1> QED
    BY <1>1, <1>2, <1>3, PTL DEF L!Spec

-----------------------------------------------------------------------------
(* The query jobs.                                                         *)

\* A job that a goroutine still works on is in the map, was changed within the
\* last query's time and is shown as under way; the outcome of one that has
\* ended is there for TTL, and was its last change.
UnderWay == {"lookup", "reset", "load", "recheck", "execute"}

IsJob(r) == r = [status |-> r.status, created |-> r.created, updated |-> r.updated]

JobOK(j) ==
    /\ pc[j] \in {"new", "start", "end"} \cup UnderWay
    /\ pc[j] \in {"start"} \cup UnderWay =>
           /\ j \in DOMAIN jobs
           /\ jobs[j].status \in {"pending", "running"}
           /\ jobs[j].updated \in Nat
           /\ IsJob(jobs[j])
    /\ pc[j] = "start" => now = jobs[j].updated
    /\ pc[j] \in UnderWay => now <= jobs[j].updated + MaxQuery
    /\ pc[j] = "end" =>
           /\ ended[j].at \in Nat
           /\ now <= ended[j].at + TTL =>
                  /\ j \in DOMAIN jobs
                  /\ jobs[j].status = ended[j].status /\ jobs[j].updated = ended[j].at

JobsInv ==
    /\ now \in Nat
    /\ DOMAIN pc = Jobs /\ DOMAIN ended = Jobs
    /\ \A j \in Jobs : JobOK(j)

\* What one job's goroutine does to its own entry leaves the other jobs alone.
LEMMA OtherJobs ==
    ASSUME JobsInv, NEW j \in Jobs, UNCHANGED now,
           DOMAIN pc' = Jobs, DOMAIN ended' = Jobs,
           \A i \in Jobs \ {j} :
               /\ pc'[i] = pc[i] /\ ended'[i] = ended[i]
               /\ i \in DOMAIN jobs => i \in DOMAIN jobs' /\ jobs'[i] = jobs[i],
           JobOK(j)'
    PROVE  JobsInv'
  <1>1. ASSUME NEW i \in Jobs \ {j} PROVE JobOK(i)'
    BY DEF JobsInv, JobOK
  <1> QED
    BY <1>1 DEF JobsInv

\* A step from one place to another before the end.
LEMMA Advance ==
    ASSUME JobsInv, NEW j \in Jobs, pc[j] \in UnderWay, NEW l \in UnderWay,
           J!goto(j, l), UNCHANGED <<now, jobs, ended>>
    PROVE  JobsInv'
  <1>1. JobOK(j)'
    BY DEF JobsInv, JobOK, J!goto, UnderWay
  <1> QED
    BY <1>1, OtherJobs DEF J!goto, JobsInv

\* A query that ends records its outcome in the entry, which is still there.
LEMMA Finish ==
    ASSUME J!JobsAssumption, JobsInv, NEW j \in Jobs, pc[j] \in UnderWay, NEW s,
           J!finish(j, s), UNCHANGED now
    PROVE  JobsInv'
  <1>1. j \in DOMAIN jobs
    BY DEF JobsInv, JobOK
  <1>2. PICK r : r = [jobs[j] EXCEPT !.status = s, !.updated = now]
    OBVIOUS
  <1>7. r = [status |-> s, created |-> jobs[j].created, updated |-> now]
    <2>1. jobs[j] = [status |-> jobs[j].status, created |-> jobs[j].created, updated |-> jobs[j].updated]
      BY DEF JobsInv, JobOK, IsJob
    <2>2. PICK c, s0, u0 : jobs[j] = [status |-> s0, created |-> c, updated |-> u0]
      BY <2>1
    <2> QED
      BY <1>2, <2>2
  <1>3. jobs' = [i \in DOMAIN jobs |-> IF i = j THEN r ELSE jobs[i]]
    BY <1>1, <1>2 DEF J!finish, J!written, J!setJob
  <1>4. pc' = [pc EXCEPT ![j] = "end"] /\ ended' = [ended EXCEPT ![j] = [at |-> now, status |-> s]]
    BY DEF J!finish, J!goto
  <1>5. JobOK(j)'
    <2>1. j \in DOMAIN jobs' /\ jobs'[j] = r /\ r.status = s /\ r.updated = now
      BY <1>1, <1>3, <1>7
    <2>2. pc'[j] = "end" /\ ended'[j] = [at |-> now, status |-> s]
      BY <1>4 DEF JobsInv
    <2>3. ended'[j].at = now /\ ended'[j].status = s /\ now \in Nat
      BY <2>2 DEF JobsInv
    <2> QED
      BY <2>1, <2>2, <2>3 DEF JobOK, UnderWay
  <1> QED
    BY <1>3, <1>4, <1>5, OtherJobs DEF JobsInv

\* The outcome of a query is found for TTL after its end: neither manager's
\* cleanup prunes a job that still runs, nor one that ended less than TTL ago.
THEOREM OutcomesAreKept == J!Spec => []OutcomesKept
  <1> J!JobsAssumption
    BY XoluAssumption
  <1>1. J!Init => JobsInv
    BY DEF J!Init, JobsInv, JobOK, UnderWay
  <1>2. JobsInv /\ [J!Next]_J!vars => JobsInv'
    <2> SUFFICES ASSUME JobsInv, [J!Next]_J!vars PROVE JobsInv'
      OBVIOUS
    <2>1. ASSUME NEW j \in Jobs, NEW e, J!Submit(j, e) PROVE JobsInv'
      <3>1. JobOK(j)'
        BY <2>1 DEF J!Submit, J!setJob, J!goto, JobsInv, JobOK, IsJob, UnderWay
      <3> QED
        BY <2>1, <3>1, OtherJobs DEF J!Submit, J!setJob, J!goto, JobsInv
    <2>2. ASSUME NEW j \in Jobs, J!Start(j) PROVE JobsInv'
      <3>1. JobOK(j)'
        BY <2>2 DEF J!Start, J!written, J!setJob, J!goto, JobsInv, JobOK, IsJob, UnderWay, J!JobsAssumption
      <3> QED
        BY <2>2, <3>1, OtherJobs DEF J!Start, J!written, J!setJob, J!goto, JobsInv
    <2>3. ASSUME NEW j \in Jobs, J!Lookup(j) \/ J!Reset(j) \/ J!Load(j) PROVE JobsInv'
      <3>1. \E l \in UnderWay : J!goto(j, l)
        BY <2>3 DEF J!Lookup, J!Reset, J!Load, UnderWay
      <3> QED
        BY <2>3, <3>1, Advance DEF J!Lookup, J!Reset, J!Load, UnderWay
    <2>4. ASSUME NEW j \in Jobs, J!Recheck(j) PROVE JobsInv'
      BY <2>4, Advance, Finish DEF J!Recheck, UnderWay
    <2>5. ASSUME NEW j \in Jobs, NEW s, J!Execute(j, s) PROVE JobsInv'
      BY <2>5, Finish DEF J!Execute, UnderWay
    <2>6. CASE J!Cleanup
      <3>1. ASSUME NEW j \in Jobs PROVE JobOK(j)'
        <4>1. j \in DOMAIN jobs /\ ~J!expired(j) => j \in DOMAIN jobs' /\ jobs'[j] = jobs[j]
          BY <2>6 DEF J!Cleanup
        <4>2. pc[j] = "start" => ~J!expired(j)
          BY DEF J!expired, JobsInv, JobOK, J!JobsAssumption
        <4>3. pc[j] \in UnderWay => ~J!expired(j)
          BY DEF J!expired, JobsInv, JobOK, J!JobsAssumption
        <4>4. pc[j] = "end" /\ now <= ended[j].at + TTL => ~J!expired(j)
          BY DEF J!expired, JobsInv, JobOK, J!JobsAssumption
        <4> QED
          BY <2>6, <4>1, <4>2, <4>3, <4>4 DEF J!Cleanup, JobsInv, JobOK
      <3> QED
        BY <2>6, <3>1 DEF J!Cleanup, JobsInv
    <2>7. CASE J!Tick
      <3>1. ASSUME NEW j \in Jobs PROVE JobOK(j)'
        <4>1. pc[j] \in UnderWay => now < jobs[j].updated + MaxQuery
          BY <2>7 DEF J!Tick, UnderWay
        <4>2. pc[j] # "start" /\ now' = now + 1 /\ now \in Nat /\ UNCHANGED <<jobs, pc, ended>>
          BY <2>7 DEF J!Tick, JobsInv
        <4> QED
          BY <4>1, <4>2 DEF JobsInv, JobOK, J!JobsAssumption, UnderWay
      <3> QED
        BY <2>7, <3>1 DEF J!Tick, JobsInv
    <2>8. CASE UNCHANGED <<now, jobs, pc, ended>>
      BY <2>8 DEF JobsInv, JobOK
    <2> QED
      BY <2>1, <2>2, <2>3, <2>4, <2>5, <2>6, <2>7, <2>8 DEF J!Next, J!step, J!CreateEntity, J!vars
  <1>3. JobsInv => OutcomesKept
    BY DEF OutcomesKept, JobsInv, JobOK, J!OutcomesKept
  <1> QED
    BY <1>1, <1>2, <1>3, PTL DEF J!Spec

-----------------------------------------------------------------------------
(* The proxy.                                                              *)

CachedLocation == [key : P!Known, value : Instances, expires : Int]

In(e, c) == \E i \in 1..Len(c) : c[i] = e

\* The list of a location cache: the map has one entry for each key.
List(c) ==
    /\ c \in Seq(CachedLocation)
    /\ \A i, j \in 1..Len(c) : c[i].key = c[j].key => i = j

\* The cache without the entry of a key (list.Remove, delete).
LEMMA WithoutList ==
    ASSUME NEW c, List(c), NEW key, NEW d, d = P!Without(c, key)
    PROVE  /\ List(d) /\ Len(d) \in Nat
           /\ Len(d) <= Len(c)
           /\ key \in P!Keys(c) => Len(d) < Len(c)
           /\ \A e : In(e, d) => In(e, c) /\ e.key # key
  <1>0. c \in Seq(CachedLocation) /\ Len(c) \in Nat /\ DOMAIN c = 1..Len(c)
    BY LenProperties DEF List
  <1>1. CASE key \notin P!Keys(c)
    BY <1>0, <1>1 DEF P!Without, P!Keys, In
  <1>2. CASE key \in P!Keys(c)
    <2>1. PICK k : k = P!At(c, key)
      OBVIOUS
    <2>2. k \in 1..Len(c) /\ c[k].key = key
      BY <1>0, <1>2, <2>1 DEF P!Keys, P!At
    <2>3. PICK p : p = SubSeq(c, 1, k - 1)
      OBVIOUS
    <2>4. PICK q : q = SubSeq(c, k + 1, Len(c))
      OBVIOUS
    <2>5. d = p \o q
      BY <1>2, <2>1, <2>3, <2>4 DEF P!Without, P!RemoveAt
    <2>6. \A i \in 1..Len(c) : c[i] \in CachedLocation
      BY <1>0, ElementOfSeq
    <2>7. p \in Seq(CachedLocation) /\ Len(p) = k - 1 /\ \A i \in 1..k - 1 : p[i] = c[i]
      <3>1. 1 \in Int /\ k - 1 \in Int /\ (\A i \in 1..k - 1 : c[i] \in CachedLocation) /\ k - 1 + 1 - 1 = k - 1
        BY <1>0, <2>2, <2>6
      <3> QED
        BY <2>2, <2>3, <3>1, SubSeqProperties
    <2>8. q \in Seq(CachedLocation) /\ Len(q) = Len(c) - k /\ \A i \in 1..Len(c) - k : q[i] = c[k + i]
      <3>1. k + 1 \in Int /\ Len(c) \in Int /\ (\A i \in k + 1..Len(c) : c[i] \in CachedLocation)
        BY <1>0, <2>2, <2>6
      <3>2. q \in Seq(CachedLocation) /\ Len(q) = (IF k + 1 <= Len(c) THEN Len(c) - (k + 1) + 1 ELSE 0)
            /\ \A i \in 1..Len(c) - (k + 1) + 1 : q[i] = c[(k + 1) + i - 1]
        BY <2>4, <3>1, SubSeqProperties
      <3>3. Len(c) - (k + 1) + 1 = Len(c) - k /\ (k + 1 <= Len(c) \/ Len(c) - k = 0)
        <4>1. \A m \in Nat : \A l \in 1..m : m - (l + 1) + 1 = m - l /\ (l + 1 <= m \/ m - l = 0)
          OBVIOUS
        <4>2. Len(c) \in Nat /\ k \in 1..Len(c)
          BY <1>0, <2>2, SMTT(30)
        <4> QED
          BY <4>1, <4>2
      <3>4. Len(q) = Len(c) - k
        BY <1>0, <2>2, <3>2, <3>3
      <3>5. ASSUME NEW i \in 1..Len(c) - k PROVE q[i] = c[k + i]
        <4>1. (k + 1) + i - 1 = k + i
          BY <1>0, <2>2
        <4>2. q[i] = c[(k + 1) + i - 1]
          BY <3>2, <3>3
        <4> QED
          BY <4>1, <4>2
      <3> QED
        BY <3>2, <3>4, <3>5
    <2>9. d \in Seq(CachedLocation) /\ Len(d) = Len(p) + Len(q)
          /\ \A i \in 1..Len(p) + Len(q) : d[i] = IF i <= Len(p) THEN p[i] ELSE q[i - Len(p)]
      BY <2>5, <2>7, <2>8, ConcatProperties
    <2>10. Len(d) = Len(c) - 1 /\ \A i \in 1..Len(d) : d[i] = c[IF i < k THEN i ELSE i + 1]
      <3>1. \A n \in Nat : \A l \in 1..n : (l - 1) + (n - l) = n - 1 /\ l - 1 \in Nat
        OBVIOUS
      <3>2. Len(c) \in Nat /\ k \in 1..Len(c)
        BY <1>0, <2>2
      <3>3. Len(p) + Len(q) = Len(c) - 1 /\ Len(p) = k - 1
        BY <2>7, <2>8, <3>1, <3>2
      <3>4. ASSUME NEW i \in 1..Len(c) - 1 PROVE d[i] = c[IF i < k THEN i ELSE i + 1]
        <4>1. d[i] = IF i <= k - 1 THEN p[i] ELSE q[i - (k - 1)]
          BY <2>9, <3>3
        <4>2. CASE i < k
          <5>1. i \in 1..k - 1 /\ i <= k - 1
            BY <3>2, <4>2
          <5> QED
            BY <2>7, <4>1, <4>2, <5>1
        <4>3. CASE ~(i < k)
          <5>1. i - (k - 1) \in 1..Len(c) - k /\ k + (i - (k - 1)) = i + 1 /\ ~(i <= k - 1)
            BY <3>2, <4>3
          <5>2. q[i - (k - 1)] = c[k + (i - (k - 1))]
            BY <2>8, <5>1
          <5> QED
            BY <4>1, <4>3, <5>1, <5>2
        <4> QED
          BY <4>2, <4>3
      <3> QED
        BY <2>9, <3>3, <3>4
    <2>11. List(d)
      <3> SUFFICES ASSUME NEW i \in 1..Len(d), NEW j \in 1..Len(d), d[i].key = d[j].key PROVE i = j
        BY <2>9 DEF List
      <3>1. (IF i < k THEN i ELSE i + 1) \in 1..Len(c) /\ (IF j < k THEN j ELSE j + 1) \in 1..Len(c)
        BY <1>0, <2>2, <2>10
      <3>2. (IF i < k THEN i ELSE i + 1) = (IF j < k THEN j ELSE j + 1)
        BY <2>10, <3>1 DEF List
      <3> QED
        BY <2>2, <3>2
    <2>12. ASSUME NEW e, In(e, d) PROVE In(e, c) /\ e.key # key
      <3>1. PICK i \in 1..Len(d) : d[i] = e
        BY <2>12 DEF In
      <3>2. PICK j : j = IF i < k THEN i ELSE i + 1
        OBVIOUS
      <3>3. j \in 1..Len(c) /\ c[j] = e /\ j # k
        BY <1>0, <2>2, <2>10, <3>1, <3>2
      <3> QED
        BY <2>2, <3>3 DEF In, List
    <2> QED
      BY <1>0, <2>10, <2>11, <2>12
  <1> QED
    BY <1>1, <1>2

\* The cache without its last entry (the eviction of setWithTTL).
LEMMA FrontList ==
    ASSUME NEW c, List(c), Len(c) > 0, NEW d, d = P!Front(c)
    PROVE  /\ List(d) /\ Len(d) = Len(c) - 1
           /\ \A e : In(e, d) => In(e, c)
  <1>0. c \in Seq(CachedLocation) /\ Len(c) \in Nat
    BY LenProperties DEF List
  <1>1. \A i \in 1..Len(c) - 1 : c[i] \in CachedLocation
    BY <1>0, ElementOfSeq
  <1>2. d \in Seq(CachedLocation) /\ Len(d) = Len(c) - 1 /\ \A i \in 1..Len(c) - 1 : d[i] = c[i]
    <2>1. 1 \in Int /\ Len(c) - 1 \in Int
      BY <1>0
    <2>2. d = SubSeq(c, 1, Len(c) - 1)
      BY DEF P!Front
    <2>3. d \in Seq(CachedLocation) /\ Len(d) = (IF 1 <= Len(c) - 1 THEN Len(c) - 1 - 1 + 1 ELSE 0)
          /\ \A i \in 1..Len(c) - 1 - 1 + 1 : d[i] = c[1 + i - 1]
      BY <1>1, <2>1, <2>2, SubSeqProperties
    <2>4. Len(c) - 1 - 1 + 1 = Len(c) - 1 /\ (1 <= Len(c) - 1 \/ Len(c) - 1 = 0)
      <3>1. \A m \in Nat : m > 0 => m - 1 - 1 + 1 = m - 1 /\ (1 <= m - 1 \/ m - 1 = 0)
        OBVIOUS
      <3>2. Len(c) \in Nat /\ Len(c) > 0
        BY <1>0, SMTT(30)
      <3> QED
        BY <3>1, <3>2
    <2>5. Len(d) = Len(c) - 1
      BY <2>3, <2>4
    <2>6. ASSUME NEW i \in 1..Len(c) - 1 PROVE d[i] = c[i]
      <3>1. 1 + i - 1 = i
        BY SMTT(30)
      <3>2. d[i] = c[1 + i - 1]
        BY <2>3, <2>4
      <3> QED
        BY <3>1, <3>2
    <2> QED
      BY <2>3, <2>5, <2>6
  <1>3. 1..Len(c) - 1 \subseteq 1..Len(c)
    BY <1>0
  <1> QED
    BY <1>0, <1>2, <1>3 DEF List, In

\* The cache with a new first entry (PushFront, MoveToFront).
LEMMA PushedList ==
    ASSUME NEW c, List(c), NEW e \in CachedLocation, \A x : In(x, c) => x.key # e.key,
           NEW d, d = <<e>> \o c
    PROVE  /\ List(d) /\ Len(d) = Len(c) + 1
           /\ \A x : In(x, d) => x = e \/ In(x, c)
  <1>0. c \in Seq(CachedLocation) /\ Len(c) \in Nat
    BY LenProperties DEF List
  <1>1. <<e>> \in Seq(CachedLocation) /\ Len(<<e>>) = 1 /\ <<e>>[1] = e
    OBVIOUS
  <1>2. d \in Seq(CachedLocation) /\ Len(d) = Len(<<e>>) + Len(c)
        /\ \A i \in 1..Len(<<e>>) + Len(c) : d[i] = IF i <= Len(<<e>>) THEN <<e>>[i] ELSE c[i - Len(<<e>>)]
    BY <1>0, <1>1, ConcatProperties
  <1>3. Len(d) = Len(c) + 1 /\ \A i \in 1..Len(c) + 1 : d[i] = IF i = 1 THEN e ELSE c[i - 1]
    BY <1>0, <1>1, <1>2
  <1>4. ASSUME NEW i \in 1..Len(d), i # 1 PROVE i - 1 \in 1..Len(c) /\ d[i] = c[i - 1] /\ In(d[i], c)
    <2>1. i \in 1..Len(c) + 1 /\ i - 1 \in 1..Len(c)
      BY <1>0, <1>3, <1>4
    <2>2. d[i] = c[i - 1]
      BY <1>3, <1>4, <2>1
    <2> QED
      BY <2>1, <2>2 DEF In
  <1>5. List(d)
    <2> SUFFICES ASSUME NEW i \in 1..Len(d), NEW j \in 1..Len(d), d[i].key = d[j].key PROVE i = j
      BY <1>2 DEF List
    <2>1. CASE i = 1 /\ j = 1
      BY <2>1
    <2>2. CASE i = 1 /\ j # 1
      BY <1>3, <1>4, <2>2
    <2>3. CASE i # 1 /\ j = 1
      BY <1>3, <1>4, <2>3
    <2>4. CASE i # 1 /\ j # 1
      <3>1. i - 1 \in 1..Len(c) /\ j - 1 \in 1..Len(c) /\ d[i] = c[i - 1] /\ d[j] = c[j - 1]
        BY <1>4, <2>4
      <3>2. c[i - 1].key = c[j - 1].key
        BY <3>1
      <3>3. i - 1 = j - 1
        BY <3>1, <3>2 DEF List
      <3>4. i \in Int /\ j \in Int
        OBVIOUS
      <3> QED
        BY <3>3, <3>4
    <2> QED
      BY <2>1, <2>2, <2>3, <2>4
  <1>6. ASSUME NEW x, In(x, d) PROVE x = e \/ In(x, c)
    BY <1>3, <1>4, <1>6 DEF In
  <1> QED
    BY <1>3, <1>5, <1>6

\* get only reorders the entries, and drops expired ones.
LEMMA GetList ==
    ASSUME NEW c, List(c), Len(c) <= CacheSize, CacheSize \in Nat, NEW key, NEW d, d = P!afterGet(c, key)
    PROVE  /\ List(d) /\ Len(d) <= CacheSize
           /\ \A e : In(e, d) => In(e, c)
  <1>0. c \in Seq(CachedLocation) /\ Len(c) \in Nat /\ DOMAIN c = 1..Len(c)
    BY LenProperties DEF List
  <1>1. CASE key \notin P!Keys(c)
    BY <1>1 DEF P!afterGet
  <1>2. PICK w : w = P!Without(c, key)
    OBVIOUS
  <1>3. List(w) /\ Len(w) \in Nat /\ (key \in P!Keys(c) => Len(w) < Len(c)) /\ \A e : In(e, w) => In(e, c) /\ e.key # key
    BY <1>2, WithoutList
  <1>4. CASE key \in P!Keys(c) /\ P!hit(c, key)
    <2>1. PICK k : k = P!At(c, key)
      OBVIOUS
    <2>2. k \in 1..Len(c) /\ c[k].key = key
      BY <1>0, <1>4, <2>1 DEF P!Keys, P!At
    <2>3. c[k] \in CachedLocation /\ In(c[k], c)
      BY <1>0, <2>2, ElementOfSeq DEF In
    <2>4. d = <<c[k]>> \o w
      BY <1>2, <1>4, <2>1 DEF P!afterGet
    <2>5. List(d) /\ Len(d) = Len(w) + 1 /\ \A x : In(x, d) => x = c[k] \/ In(x, w)
      BY <1>3, <2>2, <2>3, <2>4, PushedList
    <2> QED
      BY <1>0, <1>3, <1>4, <2>3, <2>5
  <1>5. CASE key \in P!Keys(c) /\ ~P!hit(c, key)
    <2>1. d = w
      BY <1>2, <1>5 DEF P!afterGet
    <2> QED
      BY <1>0, <1>3, <1>5, <2>1
  <1> QED
    BY <1>1, <1>4, <1>5

\* setWithTTL replaces the entry of its key, or evicts another at capacity.
LEMMA SetList ==
    ASSUME NEW c, List(c), Len(c) <= CacheSize, CacheSize \in Nat \ {0}, pnow \in Int,
           NEW key \in P!Known, NEW value \in Instances, NEW ttl \in Int, NEW d, d = P!setWithTTL(c, key, value, ttl)
    PROVE  /\ List(d) /\ Len(d) <= CacheSize
           /\ \A e : In(e, d) => \/ e = [key |-> key, value |-> value, expires |-> pnow + ttl]
                                 \/ In(e, c) /\ e.key # key
  <1>0. c \in Seq(CachedLocation) /\ Len(c) \in Nat /\ DOMAIN c = 1..Len(c)
    BY LenProperties DEF List
  <1>1. PICK entry : entry = [key |-> key, value |-> value, expires |-> pnow + ttl]
    OBVIOUS
  <1>2. entry \in CachedLocation /\ entry.key = key
    BY <1>1 DEF CachedLocation
  <1>3. PICK w : w = IF key \in P!Keys(c) THEN P!Without(c, key) ELSE IF Len(c) >= CacheSize THEN P!Front(c) ELSE c
    OBVIOUS
  <1>4. d = <<entry>> \o w
    BY <1>1, <1>3 DEF P!setWithTTL
  <1>5. List(w) /\ Len(w) < CacheSize /\ Len(w) \in Nat /\ \A e : In(e, w) => In(e, c) /\ e.key # key
    <2>1. CASE key \in P!Keys(c)
      BY <1>0, <1>3, <2>1, WithoutList
    <2>2. CASE key \notin P!Keys(c)
      <3>1. \A e : In(e, c) => e.key # key
        BY <1>0, <2>2 DEF In, P!Keys
      <3>2. CASE Len(c) >= CacheSize
        <4>1. w = P!Front(c) /\ Len(c) > 0
          BY <1>0, <1>3, <2>2, <3>2
        <4> QED
          BY <1>0, <3>1, <4>1, FrontList
      <3>3. CASE ~(Len(c) >= CacheSize)
        BY <1>0, <1>3, <2>2, <3>1, <3>3
      <3> QED
        BY <3>2, <3>3
    <2> QED
      BY <2>1, <2>2
  <1>6. List(d) /\ Len(d) = Len(w) + 1 /\ \A x : In(x, d) => x = entry \/ In(x, w)
    BY <1>2, <1>4, <1>5, PushedList
  <1> QED
    BY <1>1, <1>5, <1>6

-----------------------------------------------------------------------------
\* The tenant of a request, and the requests with a goroutine that is at work.
TenantOf(r) == P!Last(requests[r].path)
InFlight(r) == preq[r].pc \in {"resolve", "locate", "store", "send"}

ProxyCall == [pc : {"new", "resolve", "locate", "store", "send", "done"}, redirects : Nat,
              loc : [instance : Instances \cup {"none"}, StableUntil : Int],
              spent : BOOLEAN, calm : BOOLEAN, status : Nat]

ProxyTypeOK ==
    /\ deploy \in Deployments /\ requests \in Menus
    /\ preq \in [RequestIDs -> ProxyCall]
    /\ serving \in [P!Known -> Instances \cup {"none"}]
    /\ DOMAIN dir \subseteq P!Known
    /\ \A t \in DOMAIN dir : dir[t] \in [instance : Instances, StableUntil : Int]
    /\ changed \in [P!Known -> Nat] /\ pnow \in Nat
    /\ List(pcache) /\ Len(pcache) <= CacheSize
    /\ \A r \in RequestIDs : InFlight(r) => P!parsed(deploy, requests, r) # <<>>
    /\ \A r \in RequestIDs : preq[r].pc \in {"store", "send"} => preq[r].loc.instance \in Instances

\* What a request's goroutine leaves alone.
Alone(r) ==
    /\ UNCHANGED <<deploy, requests, serving, dir, changed, pnow>>
    /\ \A q \in RequestIDs \ {r} : preq'[q] = preq[q]

\* The tenant that parsePath finds is the one at the end of the path.
LEMMA KnownTenant ==
    ASSUME P!MenuAssumption, ProxyTypeOK, NEW r \in RequestIDs, P!parsed(deploy, requests, r) # <<>>
    PROVE  P!tenant(r) = TenantOf(r)
  BY DEF P!MenuAssumption, ProxyTypeOK, P!tenant, TenantOf

\* The names that the requests end with are the tenants there are.
LEMMA TenantsKnown == \A r \in RequestIDs : TenantOf(r) \in P!Known
  BY DEF TenantOf, P!Known

\* A step of one request keeps the types when its own record has them.
LEMMA UpdatedCall ==
    ASSUME ProxyTypeOK, NEW r \in RequestIDs, NEW rec \in ProxyCall, P!Update(r, rec),
           UNCHANGED <<deploy, requests, serving, dir, changed, pnow>>,
           List(pcache'), Len(pcache') <= CacheSize,
           rec.pc \in {"resolve", "locate", "store", "send"} => P!parsed(deploy, requests, r) # <<>>,
           rec.pc \in {"store", "send"} => rec.loc.instance \in Instances
    PROVE  ProxyTypeOK' /\ Alone(r) /\ preq'[r] = rec
  <1>1. preq' = [preq EXCEPT ![r] = rec]
    BY DEF P!Update
  <1>2. preq' \in [RequestIDs -> ProxyCall] /\ preq'[r] = rec /\ \A q \in RequestIDs \ {r} : preq'[q] = preq[q]
    BY <1>1 DEF ProxyTypeOK
  <1>3. List(pcache)' /\ P!Known' = P!Known
    BY DEF List, P!Known, CachedLocation
  <1>4. ASSUME NEW q \in RequestIDs
        PROVE  /\ InFlight(q)' => P!parsed(deploy', requests', q) # <<>>
               /\ preq'[q].pc \in {"store", "send"} => preq'[q].loc.instance \in Instances
    BY <1>2 DEF ProxyTypeOK, InFlight
  <1>5. (P!parsed(deploy, requests, r) # <<>>)' <=> P!parsed(deploy', requests', r) # <<>>
    OBVIOUS
  <1> QED
    BY <1>2, <1>3, <1>4 DEF ProxyTypeOK, Alone

\* The record of a request that was answered.
Answered(calm, status) == [P!Idle EXCEPT !.pc = "done", !.calm = calm, !.status = status]

\* An answered request is well formed.
LEMMA AnsweredCall ==
    ASSUME NEW b \in BOOLEAN, NEW s \in Nat
    PROVE  /\ Answered(b, s) \in ProxyCall /\ Answered(b, s).pc = "done" /\ Answered(b, s).calm = b
           /\ Answered(b, s).status = s
  <1>1. PICK loc : loc = [instance |-> "none", StableUntil |-> 0]
    OBVIOUS
  <1>2. loc \in [instance : Instances \cup {"none"}, StableUntil : Int]
    BY <1>1
  <1>3. PICK f \in BOOLEAN : f = FALSE
    OBVIOUS
  <1>4. P!Idle = [pc |-> "new", redirects |-> 0, loc |-> loc, spent |-> f, calm |-> f, status |-> 0]
    BY <1>1, <1>3, Zenon DEF P!Idle
  <1>5. PICK rec : rec = Answered(b, s)
    OBVIOUS
  <1>6. rec = [P!Idle EXCEPT !.pc = "done", !.calm = b, !.status = s]
    BY <1>5 DEF Answered
  <1>7. rec = [pc |-> "done", redirects |-> 0, loc |-> loc, spent |-> f, calm |-> b, status |-> s]
    BY <1>4, <1>6
  <1>8. rec \in ProxyCall /\ rec.pc = "done" /\ rec.calm = b /\ rec.status = s
    BY <1>2, <1>7 DEF ProxyCall
  <1> QED
    BY <1>5, <1>8

\* Arrive refuses a path or promises an answer when the directory is right.
LEMMA ArriveEffect ==
    ASSUME P!MenuAssumption, ProxyTypeOK, NEW r \in RequestIDs, P!Arrive(r)
    PROVE  /\ ProxyTypeOK' /\ Alone(r) /\ pcache' = pcache /\ preq[r].pc = "new"
           /\ \/ preq'[r].pc = "done" /\ (preq'[r].calm <=> preq[r].calm)
              \/ /\ preq'[r].pc = "resolve" /\ preq'[r].redirects = preq[r].redirects
                 /\ preq'[r].calm => TenantOf(r) \in DOMAIN dir /\ dir[TenantOf(r)].instance = serving[TenantOf(r)]
  <1>0. preq[r] \in ProxyCall
    BY DEF ProxyTypeOK
  <1>1. CASE P!parsed(deploy, requests, r) = <<>>
    <2>1. PICK rec : rec = [P!Idle EXCEPT !.pc = "done", !.calm = preq[r].calm, !.status = 400]
      OBVIOUS
    <2>2. rec \in ProxyCall /\ rec.pc = "done" /\ rec.calm = preq[r].calm
      <3>1. preq[r].calm \in BOOLEAN
        BY <1>0 DEF ProxyCall
      <3>2. PICK b \in BOOLEAN : b = preq[r].calm
        BY <3>1
      <3>3. rec = Answered(b, 400)
        BY <2>1, <3>2, Zenon DEF Answered
      <3>4. rec \in ProxyCall /\ rec.pc = "done" /\ rec.calm = b
        <4>1. 400 \in Nat
          OBVIOUS
        <4> QED
          BY <3>3, <4>1, AnsweredCall
      <3> QED
        BY <3>2, <3>4, Zenon
    <2>3. P!Update(r, rec)
      BY <1>1, <2>1 DEF P!Arrive, P!Answer
    <2> QED
      BY <2>2, <2>3, UpdatedCall DEF P!Arrive, ProxyTypeOK
  <1>2. CASE P!parsed(deploy, requests, r) # <<>>
    <2>0. P!tenant(r) = TenantOf(r)
      BY <1>2, KnownTenant
    <2>1. PICK b \in BOOLEAN : b <=> TenantOf(r) \in DOMAIN dir /\ dir[TenantOf(r)].instance = serving[TenantOf(r)]
      BY Zenon
    <2>2. PICK rec : rec = [preq[r] EXCEPT !.pc = "resolve",
                                           !.calm = TenantOf(r) \in DOMAIN dir /\ dir[TenantOf(r)].instance = serving[TenantOf(r)]]
      OBVIOUS
    <2>3. rec = [preq[r] EXCEPT !.pc = "resolve", !.calm = b]
      BY <2>1, <2>2
    <2>4. rec \in ProxyCall /\ rec.pc = "resolve" /\ rec.calm = b /\ rec.redirects = preq[r].redirects
      BY <1>0, <2>3 DEF ProxyCall
    <2>5. P!Update(r, rec)
      BY <1>2, <2>0, <2>2 DEF P!Arrive
    <2> QED
      BY <1>2, <2>1, <2>4, <2>5, UpdatedCall DEF P!Arrive, ProxyTypeOK
  <1> QED
    BY <1>1, <1>2

\* Resolve gives up past the limit, asks, or takes a cached location.
LEMMA ResolveEffect ==
    ASSUME P!ProxyAssumption, P!MenuAssumption, ProxyTypeOK, NEW r \in RequestIDs, P!Resolve(r)
    PROVE  /\ ProxyTypeOK' /\ Alone(r) /\ preq[r].pc = "resolve"
           /\ (preq'[r].calm <=> preq[r].calm) /\ \A e : In(e, pcache') => In(e, pcache)
           /\ \/ preq'[r].pc = "done" /\ preq[r].redirects > MaxRedirects
              \/ preq'[r].pc = "locate" /\ preq'[r].redirects = preq[r].redirects
              \/ /\ preq'[r].pc = "send" /\ preq'[r].redirects = preq[r].redirects
                 /\ \E e : In(e, pcache) /\ e.key = TenantOf(r) /\ preq'[r].loc.instance = e.value
  <1>0. preq[r] \in ProxyCall /\ preq[r].pc = "resolve"
    BY DEF ProxyTypeOK, P!Resolve
  <1>1. P!parsed(deploy, requests, r) # <<>> /\ P!tenant(r) = TenantOf(r)
    BY <1>0, KnownTenant DEF ProxyTypeOK, InFlight
  <1>2. List(pcache) /\ Len(pcache) <= CacheSize /\ CacheSize \in Nat
    BY DEF ProxyTypeOK, P!ProxyAssumption
  <1>3. CASE preq[r].redirects > MaxRedirects
    <2>1. PICK rec : rec = [P!Idle EXCEPT !.pc = "done", !.calm = preq[r].calm, !.status = 502]
      OBVIOUS
    <2>2. rec \in ProxyCall /\ rec.pc = "done" /\ rec.calm = preq[r].calm
      <3>1. preq[r].calm \in BOOLEAN
        BY <1>0 DEF ProxyCall
      <3>2. PICK b \in BOOLEAN : b = preq[r].calm
        BY <3>1
      <3>3. rec = Answered(b, 502)
        BY <2>1, <3>2, Zenon DEF Answered
      <3>4. rec \in ProxyCall /\ rec.pc = "done" /\ rec.calm = b
        <4>1. 502 \in Nat
          OBVIOUS
        <4> QED
          BY <3>3, <4>1, AnsweredCall
      <3> QED
        BY <3>2, <3>4, Zenon
    <2>3. P!Update(r, rec) /\ pcache' = pcache
      BY <1>3, <2>1 DEF P!Resolve, P!Answer
    <2> QED
      BY <1>0, <1>2, <1>3, <2>2, <2>3, UpdatedCall DEF P!Resolve
  <1>4. CASE ~(preq[r].redirects > MaxRedirects) /\ P!hit(pcache, TenantOf(r))
    <2>1. PICK k : k = P!At(pcache, TenantOf(r))
      OBVIOUS
    <2>2. DOMAIN pcache = 1..Len(pcache) /\ TenantOf(r) \in P!Keys(pcache)
      BY <1>2, <1>4, LenProperties DEF List, P!hit
    <2>3. k \in 1..Len(pcache) /\ pcache[k].key = TenantOf(r)
      BY <2>1, <2>2 DEF P!Keys, P!At
    <2>4. pcache[k] \in CachedLocation /\ In(pcache[k], pcache)
      BY <1>2, <2>3, ElementOfSeq DEF In, List
    <2>5. PICK loc : loc = [instance |-> pcache[k].value, StableUntil |-> 0]
      OBVIOUS
    <2>6. PICK rec : rec = [preq[r] EXCEPT !.pc = "send", !.loc = loc]
      OBVIOUS
    <2>7. /\ rec \in ProxyCall /\ rec.pc = "send" /\ rec.calm = preq[r].calm
          /\ rec.redirects = preq[r].redirects /\ rec.loc = loc /\ loc.instance = pcache[k].value /\ loc.instance \in Instances
      <3>1. loc \in [instance : Instances \cup {"none"}, StableUntil : Int] /\ loc.instance = pcache[k].value
            /\ loc.instance \in Instances
        BY <2>4, <2>5 DEF CachedLocation
      <3> QED
        BY <1>0, <2>6, <3>1 DEF ProxyCall
    <2>8. P!Update(r, rec) /\ pcache' = P!afterGet(pcache, TenantOf(r))
      BY <1>1, <1>4, <2>1, <2>5, <2>6 DEF P!Resolve
    <2>9. List(pcache') /\ Len(pcache') <= CacheSize /\ \A e : In(e, pcache') => In(e, pcache)
      BY <1>2, <2>8, GetList
    <2>10. ProxyTypeOK' /\ Alone(r) /\ preq'[r] = rec
      BY <1>1, <2>7, <2>8, <2>9, UpdatedCall DEF P!Resolve
    <2> QED
      BY <1>0, <2>3, <2>4, <2>7, <2>9, <2>10
  <1>5. CASE ~(preq[r].redirects > MaxRedirects) /\ ~P!hit(pcache, TenantOf(r))
    <2>1. PICK rec : rec = [preq[r] EXCEPT !.pc = "locate"]
      OBVIOUS
    <2>2. rec \in ProxyCall /\ rec.pc = "locate" /\ rec.calm = preq[r].calm /\ rec.redirects = preq[r].redirects
      BY <1>0, <2>1 DEF ProxyCall
    <2>3. P!Update(r, rec) /\ pcache' = P!afterGet(pcache, TenantOf(r))
      BY <1>1, <1>5, <2>1 DEF P!Resolve
    <2>4. List(pcache') /\ Len(pcache') <= CacheSize /\ \A e : In(e, pcache') => In(e, pcache)
      BY <1>2, <2>3, GetList
    <2> QED
      BY <1>0, <1>1, <2>2, <2>3, <2>4, UpdatedCall DEF P!Resolve
  <1> QED
    BY <1>3, <1>4, <1>5

\* A request that is answered keeps whether it was promised an answer.
LEMMA AnswerEffect ==
    ASSUME ProxyTypeOK, NEW r \in RequestIDs, NEW s \in Nat, P!Answer(r, s), pcache' = pcache,
           UNCHANGED <<deploy, requests, serving, dir, changed, pnow>>
    PROVE  ProxyTypeOK' /\ Alone(r) /\ preq'[r].pc = "done" /\ (preq'[r].calm <=> preq[r].calm) /\ preq'[r].status = s
  <1>1. preq[r] \in ProxyCall
    BY DEF ProxyTypeOK
  <1>2. PICK b \in BOOLEAN : b = preq[r].calm
    BY <1>1 DEF ProxyCall
  <1>3. PICK rec : rec = Answered(b, s)
    OBVIOUS
  <1>4. P!Update(r, rec)
    BY <1>2, <1>3, Zenon DEF P!Answer, Answered
  <1>5. rec \in ProxyCall /\ rec.pc = "done" /\ rec.calm = b /\ rec.status = s
    BY <1>3, AnsweredCall
  <1>6. List(pcache') /\ Len(pcache') <= CacheSize
    BY DEF ProxyTypeOK
  <1>7. ProxyTypeOK' /\ Alone(r) /\ preq'[r] = rec
    BY <1>4, <1>5, <1>6, UpdatedCall
  <1> QED
    BY <1>2, <1>5, <1>7

\* When the entry would expire that the answer a request holds would leave now.
Worth(r) == IF deploy.embedded THEN pnow + CacheTTL ELSE preq[r].loc.StableUntil

\* Locate keeps what the directory answers, or fails for an unknown tenant.
LEMMA LocateEffect ==
    ASSUME P!MenuAssumption, ProxyTypeOK, NEW r \in RequestIDs, P!Locate(r)
    PROVE  /\ ProxyTypeOK' /\ Alone(r) /\ pcache' = pcache /\ preq[r].pc = "locate"
           /\ (preq'[r].calm <=> preq[r].calm)
           /\ \/ preq'[r].pc = "done" /\ TenantOf(r) \notin DOMAIN dir
              \/ /\ preq'[r].pc = "store" /\ TenantOf(r) \in DOMAIN dir /\ preq'[r].redirects = preq[r].redirects
                 /\ preq'[r].loc = dir[TenantOf(r)]
  <1>0. preq[r] \in ProxyCall /\ preq[r].pc = "locate"
    BY DEF ProxyTypeOK, P!Locate
  <1>1. P!parsed(deploy, requests, r) # <<>> /\ P!tenant(r) = TenantOf(r)
    BY <1>0, KnownTenant DEF ProxyTypeOK, InFlight
  <1>2. pcache' = pcache /\ UNCHANGED <<deploy, requests, serving, dir, changed, pnow>>
    BY DEF P!Locate
  <1>3. CASE TenantOf(r) \notin DOMAIN dir
    <2>1. P!Answer(r, 502) /\ 502 \in Nat
      BY <1>1, <1>3 DEF P!Locate
    <2> QED
      BY <1>0, <1>2, <1>3, <2>1, AnswerEffect
  <1>4. CASE TenantOf(r) \in DOMAIN dir
    <2>1. dir[TenantOf(r)] \in [instance : Instances, StableUntil : Int]
      BY <1>4 DEF ProxyTypeOK
    <2>2. PICK rec : rec = [preq[r] EXCEPT !.pc = "store", !.loc = dir[TenantOf(r)]]
      OBVIOUS
    <2>3. /\ rec \in ProxyCall /\ rec.pc = "store" /\ rec.calm = preq[r].calm
          /\ rec.redirects = preq[r].redirects /\ rec.loc = dir[TenantOf(r)] /\ rec.loc.instance \in Instances
      BY <1>0, <2>1, <2>2 DEF ProxyCall
    <2>4. P!Update(r, rec)
      BY <1>1, <1>4, <2>2 DEF P!Locate
    <2>5. List(pcache') /\ Len(pcache') <= CacheSize
      BY <1>2 DEF ProxyTypeOK
    <2>6. ProxyTypeOK' /\ Alone(r) /\ preq'[r] = rec
      BY <1>1, <1>2, <2>3, <2>4, <2>5, UpdatedCall
    <2> QED
      BY <1>0, <1>2, <1>4, <2>3, <2>6
  <1> QED
    BY <1>3, <1>4

\* Store leaves the directory's answer in the cache for as long as it is worth.
LEMMA StoreEffect ==
    ASSUME P!ProxyAssumption, P!MenuAssumption, ProxyTypeOK, NEW r \in RequestIDs, P!Store(r)
    PROVE  /\ ProxyTypeOK' /\ Alone(r) /\ preq[r].pc = "store" /\ preq'[r].pc = "send"
           /\ (preq'[r].calm <=> preq[r].calm) /\ preq'[r].redirects = preq[r].redirects
           /\ preq'[r].loc.instance = preq[r].loc.instance
           /\ \A e : In(e, pcache') =>
                  \/ In(e, pcache)
                  \/ e.key = TenantOf(r) /\ e.value = preq[r].loc.instance /\ e.expires = Worth(r)
  <1>0. preq[r] \in ProxyCall /\ preq[r].pc = "store" /\ preq[r].loc.instance \in Instances
    BY DEF ProxyTypeOK, P!Store
  <1>1. P!parsed(deploy, requests, r) # <<>> /\ P!tenant(r) = TenantOf(r) /\ TenantOf(r) \in P!Known
    BY <1>0, KnownTenant, TenantsKnown DEF ProxyTypeOK, InFlight
  <1>2. List(pcache) /\ Len(pcache) <= CacheSize /\ CacheSize \in Nat \ {0} /\ pnow \in Int /\ CacheTTL \in Int
    BY DEF ProxyTypeOK, P!ProxyAssumption
  <1>3. PICK rec : rec = [preq[r] EXCEPT !.pc = "send", !.loc.StableUntil = 0]
    OBVIOUS
  <1>4. /\ rec \in ProxyCall /\ rec.pc = "send" /\ rec.calm = preq[r].calm
        /\ rec.redirects = preq[r].redirects /\ rec.loc.instance = preq[r].loc.instance
    <2>1. PICK l : l = preq[r].loc
      OBVIOUS
    <2>2. PICK loc : loc = [l EXCEPT !.StableUntil = 0]
      OBVIOUS
    <2>3. l \in [instance : Instances \cup {"none"}, StableUntil : Int]
      BY <1>0, <2>1 DEF ProxyCall
    <2>4. loc \in [instance : Instances \cup {"none"}, StableUntil : Int] /\ loc.instance = l.instance
      BY <2>2, <2>3
    <2>5. PICK rec1 : rec1 = [preq[r] EXCEPT !.pc = "send"]
      OBVIOUS
    <2>6. rec1 \in ProxyCall /\ rec1.pc = "send" /\ rec1.calm = preq[r].calm /\ rec1.redirects = preq[r].redirects /\ rec1.loc = l
      BY <1>0, <2>1, <2>5 DEF ProxyCall
    <2>7. rec = [rec1 EXCEPT !.loc = loc]
      BY <1>3, <2>2, <2>5, <2>6
    <2> QED
      BY <2>1, <2>4, <2>6, <2>7 DEF ProxyCall
  <1>5. P!Update(r, rec)
    BY <1>3 DEF P!Store
  <1>6. preq[r].loc.StableUntil \in Int
    BY <1>0 DEF ProxyCall
  <1>7. /\ List(pcache') /\ Len(pcache') <= CacheSize
        /\ \A e : In(e, pcache') =>
                  \/ In(e, pcache)
                  \/ e.key = TenantOf(r) /\ e.value = preq[r].loc.instance /\ e.expires = Worth(r)
    <2>1. CASE deploy.embedded
      <3>1. pcache' = P!setWithTTL(pcache, TenantOf(r), preq[r].loc.instance, CacheTTL)
        BY <1>1, <2>1 DEF P!Store, P!storedEmbedded
      <3>2. List(pcache') /\ Len(pcache') <= CacheSize
            /\ \A e : In(e, pcache') => \/ e = [key |-> TenantOf(r), value |-> preq[r].loc.instance, expires |-> pnow + CacheTTL]
                                        \/ In(e, pcache) /\ e.key # TenantOf(r)
        <4>1. PICK ttl \in Int : ttl = CacheTTL
          BY <1>2
        <4>2. pcache' = P!setWithTTL(pcache, TenantOf(r), preq[r].loc.instance, ttl)
          BY <3>1, <4>1
        <4>3. List(pcache') /\ Len(pcache') <= CacheSize
              /\ \A e : In(e, pcache') => \/ e = [key |-> TenantOf(r), value |-> preq[r].loc.instance, expires |-> pnow + ttl]
                                          \/ In(e, pcache) /\ e.key # TenantOf(r)
          BY <1>0, <1>1, <1>2, <4>2, SetList
        <4> QED
          BY <4>1, <4>3
      <3> QED
        BY <2>1, <3>2 DEF Worth
    <2>2. CASE ~deploy.embedded /\ preq[r].loc.StableUntil > pnow
      <3>1. PICK ttl : ttl = preq[r].loc.StableUntil - pnow
        OBVIOUS
      <3>2. ttl \in Int /\ pnow + ttl = preq[r].loc.StableUntil
        BY <1>2, <1>6, <3>1
      <3>3. pcache' = P!setWithTTL(pcache, TenantOf(r), preq[r].loc.instance, ttl)
        BY <1>1, <2>2, <3>1 DEF P!Store, P!storedSidecar
      <3>4. List(pcache') /\ Len(pcache') <= CacheSize
            /\ \A e : In(e, pcache') => \/ e = [key |-> TenantOf(r), value |-> preq[r].loc.instance, expires |-> pnow + ttl]
                                        \/ In(e, pcache) /\ e.key # TenantOf(r)
        BY <1>0, <1>1, <1>2, <3>2, <3>3, SetList
      <3> QED
        BY <2>2, <3>2, <3>4 DEF Worth
    <2>3. CASE ~deploy.embedded /\ ~(preq[r].loc.StableUntil > pnow)
      <3>1. pcache' = pcache
        BY <2>3 DEF P!Store, P!storedSidecar
      <3> QED
        BY <1>2, <3>1
    <2> QED
      BY <2>1, <2>2, <2>3
  <1>8. ProxyTypeOK' /\ Alone(r) /\ preq'[r] = rec
    BY <1>0, <1>1, <1>4, <1>5, <1>7, UpdatedCall DEF P!Store
  <1> QED
    BY <1>0, <1>4, <1>7, <1>8

\* Send answers, or goes back with one redirect more and no entry of the tenant.
LEMMA SendEffect ==
    ASSUME P!ProxyAssumption, P!MenuAssumption, ProxyTypeOK, NEW r \in RequestIDs, P!Send(r)
    PROVE  /\ ProxyTypeOK' /\ Alone(r) /\ preq[r].pc = "send" /\ (preq'[r].calm <=> preq[r].calm)
           /\ \/ pcache' = pcache /\ preq'[r].pc = "done" /\ (requests[r].write \/ preq'[r].status = 200)
              \/ /\ preq'[r].pc = "resolve" /\ preq'[r].redirects = preq[r].redirects + 1
                 /\ preq[r].loc.instance # serving[TenantOf(r)]
                 /\ \A e : In(e, pcache') => In(e, pcache) /\ e.key # TenantOf(r)
  <1>0. preq[r] \in ProxyCall /\ preq[r].pc = "send"
    BY DEF ProxyTypeOK, P!Send
  <1>1. P!parsed(deploy, requests, r) # <<>> /\ P!tenant(r) = TenantOf(r)
    BY <1>0, KnownTenant DEF ProxyTypeOK, InFlight
  <1>2. UNCHANGED <<deploy, requests, serving, dir, changed, pnow>>
    BY DEF P!Send
  <1>3. CASE requests[r].write /\ preq[r].spent
    <2>1. P!Answer(r, 502) /\ 502 \in Nat /\ pcache' = pcache
      BY <1>3 DEF P!Send
    <2> QED
      BY <1>0, <1>2, <1>3, <2>1, AnswerEffect
  <1>4. CASE ~(requests[r].write /\ preq[r].spent) /\ serving[TenantOf(r)] = preq[r].loc.instance
    <2>1. P!Answer(r, 200) /\ 200 \in Nat /\ pcache' = pcache
      BY <1>1, <1>4 DEF P!Send
    <2> QED
      BY <1>0, <1>2, <2>1, AnswerEffect
  <1>5. CASE ~(requests[r].write /\ preq[r].spent) /\ serving[TenantOf(r)] # preq[r].loc.instance
    <2>1. PICK b \in BOOLEAN : b = TRUE
      OBVIOUS
    <2>2. PICK loc : loc = [instance |-> "none", StableUntil |-> 0]
      OBVIOUS
    <2>3. loc \in [instance : Instances \cup {"none"}, StableUntil : Int]
      BY <2>2
    <2>4. P!Idle.loc = loc
      BY <2>2 DEF P!Idle
    <2>5. PICK rec : rec = P!Redirected(r)
      OBVIOUS
    <2>6. rec = [preq[r] EXCEPT !.pc = "resolve", !.loc = loc, !.redirects = preq[r].redirects + 1, !.spent = b]
      BY <2>1, <2>4, <2>5 DEF P!Redirected
    <2>7. /\ rec \in ProxyCall /\ rec.pc = "resolve" /\ rec.calm = preq[r].calm
          /\ rec.redirects = preq[r].redirects + 1
      <3>1. PICK rec1 : rec1 = [preq[r] EXCEPT !.pc = "resolve", !.loc = loc]
        OBVIOUS
      <3>2. /\ rec1 \in ProxyCall /\ rec1.pc = "resolve" /\ rec1.calm = preq[r].calm
            /\ rec1.redirects = preq[r].redirects
        BY <1>0, <2>3, <3>1 DEF ProxyCall
      <3>3. PICK rec2 : rec2 = [rec1 EXCEPT !.redirects = preq[r].redirects + 1]
        OBVIOUS
      <3>4. /\ rec2 \in ProxyCall /\ rec2.pc = "resolve" /\ rec2.calm = preq[r].calm
            /\ rec2.redirects = preq[r].redirects + 1
        <4>1. preq[r].redirects + 1 \in Nat
          BY <1>0 DEF ProxyCall
        <4> QED
          BY <3>2, <3>3, <4>1 DEF ProxyCall
      <3>5. rec = [rec2 EXCEPT !.spent = b]
        BY <1>0, <2>6, <3>1, <3>3 DEF ProxyCall
      <3> QED
        BY <3>4, <3>5 DEF ProxyCall
    <2>8. P!Update(r, rec) /\ pcache' = P!Without(pcache, TenantOf(r))
      BY <1>1, <1>5, <2>5 DEF P!Send, P!Invalidate
    <2>9. List(pcache) /\ Len(pcache) <= CacheSize /\ CacheSize \in Int
      BY DEF ProxyTypeOK, P!ProxyAssumption
    <2>10. List(pcache') /\ Len(pcache') <= Len(pcache) /\ \A e : In(e, pcache') => In(e, pcache) /\ e.key # TenantOf(r)
      BY <2>8, <2>9, WithoutList
    <2>11. ProxyTypeOK' /\ Alone(r) /\ preq'[r] = rec
      BY <1>1, <1>2, <2>7, <2>8, <2>9, <2>10, UpdatedCall
    <2> QED
      BY <1>0, <1>5, <2>7, <2>10, <2>11
  <1> QED
    BY <1>3, <1>4, <1>5

\* The record of a request that failed.
Failed(status) == [P!Idle EXCEPT !.pc = "done", !.status = status]

\* A failed request was promised nothing.
LEMMA FailedCall ==
    ASSUME NEW s \in Nat
    PROVE  Failed(s) \in ProxyCall /\ Failed(s).pc = "done" /\ ~Failed(s).calm
  <1>1. PICK f \in BOOLEAN : f = FALSE
    OBVIOUS
  <1>2. PICK rec : rec = Failed(s)
    OBVIOUS
  <1>3. PICK loc : loc = [instance |-> "none", StableUntil |-> 0]
    OBVIOUS
  <1>4. P!Idle = [pc |-> "new", redirects |-> 0, loc |-> loc, spent |-> f, calm |-> f, status |-> 0]
    BY <1>1, <1>3, Zenon DEF P!Idle
  <1>5. rec = [P!Idle EXCEPT !.pc = "done", !.status = s]
    BY <1>2 DEF Failed
  <1>6. rec = [pc |-> "done", redirects |-> 0, loc |-> loc, spent |-> f, calm |-> f, status |-> s]
    BY <1>4, <1>5
  <1>7. loc \in [instance : Instances \cup {"none"}, StableUntil : Int]
    BY <1>3
  <1>8. rec \in ProxyCall /\ rec.pc = "done" /\ rec.calm = f
    BY <1>6, <1>7 DEF ProxyCall
  <1> QED
    BY <1>1, <1>2, <1>8

\* A transport error or timeout ends the request and its promise.
LEMMA FaultEffect ==
    ASSUME ProxyTypeOK, NEW r \in RequestIDs, P!Fault(r)
    PROVE  ProxyTypeOK' /\ Alone(r) /\ pcache' = pcache /\ preq'[r].pc = "done" /\ ~preq'[r].calm
  <1>1. PICK s \in Nat : P!Update(r, Failed(s))
    <2>1. \E s \in {502, 504} : P!Update(r, Failed(s))
      BY Zenon DEF P!Fault, Failed
    <2> QED
      BY <2>1
  <1>2. Failed(s) \in ProxyCall /\ Failed(s).pc = "done" /\ ~Failed(s).calm
    BY FailedCall
  <1>3. pcache' = pcache /\ UNCHANGED <<deploy, requests, serving, dir, changed, pnow>> /\ List(pcache') /\ Len(pcache') <= CacheSize
    BY DEF P!Fault, ProxyTypeOK
  <1>4. ProxyTypeOK' /\ Alone(r) /\ preq'[r] = Failed(s)
    BY <1>1, <1>2, <1>3, UpdatedCall
  <1> QED
    BY <1>2, <1>3, <1>4

-----------------------------------------------------------------------------
\* A cache has one entry for a key.
LEMMA OneEntry ==
    ASSUME NEW c, List(c), NEW e, NEW f, In(e, c), In(f, c), e.key = f.key
    PROVE  e = f
  BY DEF List, In

\* What the instances, the directory and the clock leave alone.
Outside ==
    /\ UNCHANGED <<deploy, requests, pcache>>
    /\ \A r \in RequestIDs :
          /\ preq'[r].pc = preq[r].pc /\ preq'[r].redirects = preq[r].redirects
          /\ preq'[r].loc = preq[r].loc /\ preq'[r].status = preq[r].status
          /\ preq'[r].calm => preq[r].calm

\* A hotswap takes back what the requests for its tenant were promised.
LEMMA DisturbedCalls ==
    ASSUME ProxyTypeOK, NEW t, preq' = P!Disturbed(t), UNCHANGED <<deploy, requests, pcache>>
    PROVE  Outside /\ preq' \in [RequestIDs -> ProxyCall] /\ \A r \in RequestIDs : preq'[r].calm => TenantOf(r) # t
  <1>1. ASSUME NEW r \in RequestIDs
        PROVE  /\ preq'[r] \in ProxyCall
               /\ preq'[r].pc = preq[r].pc /\ preq'[r].redirects = preq[r].redirects
               /\ preq'[r].loc = preq[r].loc /\ preq'[r].status = preq[r].status
               /\ preq'[r].calm => preq[r].calm /\ TenantOf(r) # t
    <2>1. preq[r] \in ProxyCall
      BY DEF ProxyTypeOK
    <2>2. PICK b \in BOOLEAN : b <=> preq[r].calm /\ TenantOf(r) # t
      OBVIOUS
    <2>3. preq'[r] = [preq[r] EXCEPT !.calm = preq[r].calm /\ TenantOf(r) # t]
      BY Zenon DEF P!Disturbed, TenantOf
    <2>4. b = (preq[r].calm /\ TenantOf(r) # t)
      BY <2>2, Zenon
    <2>5. preq'[r] = [preq[r] EXCEPT !.calm = b]
      BY <2>3, <2>4, Zenon
    <2> QED
      BY <2>1, <2>2, <2>5 DEF ProxyCall
  <1>2. preq' = [r \in RequestIDs |-> preq'[r]]
    BY Zenon DEF P!Disturbed
  <1> QED
    BY <1>1, <1>2 DEF Outside

\* The types survive what happens outside.
LEMMA OutsideTyped ==
    ASSUME ProxyTypeOK, Outside, preq' \in [RequestIDs -> ProxyCall],
           serving' \in [P!Known -> Instances \cup {"none"}],
           DOMAIN dir' \subseteq P!Known,
           \A t \in DOMAIN dir' : dir'[t] \in [instance : Instances, StableUntil : Int],
           changed' \in [P!Known -> Nat], pnow' \in Nat
    PROVE  ProxyTypeOK'
  <1>1. P!Known' = P!Known /\ List(pcache)'
    BY DEF Outside, ProxyTypeOK, List, P!Known, CachedLocation
  <1>2. ASSUME NEW r \in RequestIDs
        PROVE  /\ InFlight(r)' => P!parsed(deploy', requests', r) # <<>>
               /\ preq'[r].pc \in {"store", "send"} => preq'[r].loc.instance \in Instances
    BY DEF ProxyTypeOK, InFlight, Outside
  <1> QED
    BY <1>1, <1>2 DEF ProxyTypeOK, Outside

\* A hotswap that begins shortens the life of the directory's entry.
LEMMA QuiesceEffect ==
    ASSUME P!ProxyAssumption, ProxyTypeOK, NEW t \in P!Known, P!Quiesce(t)
    PROVE  /\ ProxyTypeOK' /\ Outside /\ pnow' = pnow /\ changed' = changed /\ DOMAIN dir' = DOMAIN dir
           /\ \A u \in DOMAIN dir : dir'[u].instance = dir[u].instance
           /\ \A u \in DOMAIN dir : dir'[u].StableUntil \in {dir[u].StableUntil, pnow + UnstableTTL}
           /\ \A r \in RequestIDs : preq'[r].calm => serving'[TenantOf(r)] = serving[TenantOf(r)]
  <1>1. /\ preq' = P!Disturbed(t) /\ UNCHANGED <<deploy, requests, changed, pcache, pnow>>
        /\ serving' = [serving EXCEPT ![t] = "none"]
        /\ dir' = IF t \in DOMAIN dir THEN [dir EXCEPT ![t].StableUntil = pnow + UnstableTTL] ELSE dir
    BY DEF P!Quiesce
  <1>2. Outside /\ preq' \in [RequestIDs -> ProxyCall] /\ \A r \in RequestIDs : preq'[r].calm => TenantOf(r) # t
    BY <1>1, DisturbedCalls
  <1>3. serving' \in [P!Known -> Instances \cup {"none"}] /\ \A u \in P!Known \ {t} : serving'[u] = serving[u]
    BY <1>1 DEF ProxyTypeOK
  <1>4. pnow + UnstableTTL \in Int
    BY DEF ProxyTypeOK, P!ProxyAssumption
  <1>5. DOMAIN dir' = DOMAIN dir
    BY <1>1
  <1>6. ASSUME NEW u \in DOMAIN dir
        PROVE  /\ dir'[u] \in [instance : Instances, StableUntil : Int]
               /\ dir'[u].instance = dir[u].instance
               /\ dir'[u].StableUntil \in {dir[u].StableUntil, pnow + UnstableTTL}
    <2>1. dir[u] \in [instance : Instances, StableUntil : Int]
      BY DEF ProxyTypeOK
    <2>2. CASE u = t
      <3>1. dir'[u] = [dir[u] EXCEPT !.StableUntil = pnow + UnstableTTL]
        BY <1>1, <2>2
      <3> QED
        BY <1>4, <2>1, <3>1
    <2>3. CASE u # t
      BY <1>1, <2>1, <2>3
    <2> QED
      BY <2>2, <2>3
  <1>7. ProxyTypeOK'
    BY <1>1, <1>2, <1>3, <1>5, <1>6, OutsideTyped DEF ProxyTypeOK
  <1> QED
    BY <1>1, <1>2, <1>3, <1>5, <1>6, <1>7, TenantsKnown

\* A tenant that an instance takes was served by none.
LEMMA ActivateEffect ==
    ASSUME P!ProxyAssumption, ProxyTypeOK, NEW t \in P!Known, NEW i \in Instances, P!Activate(t, i)
    PROVE  /\ ProxyTypeOK' /\ Outside /\ UNCHANGED <<pnow, changed, dir>>
           /\ \A u \in P!Known : serving'[u] # serving[u] => serving[u] = "none"
  <1>1. /\ UNCHANGED <<deploy, requests, changed, pcache, pnow, preq, dir>>
        /\ serving' = [serving EXCEPT ![t] = i] /\ serving[t] = "none"
    BY DEF P!Activate
  <1>2. Outside /\ preq' \in [RequestIDs -> ProxyCall]
    BY <1>1 DEF Outside, ProxyTypeOK
  <1>3. serving' \in [P!Known -> Instances \cup {"none"}] /\ \A u \in P!Known \ {t} : serving'[u] = serving[u]
    BY <1>1 DEF ProxyTypeOK
  <1>4. ProxyTypeOK'
    BY <1>1, <1>2, <1>3, OutsideTyped DEF ProxyTypeOK
  <1> QED
    BY <1>1, <1>2, <1>3, <1>4

\* The directory takes over where the tenant is served, and notes when that
\* was news.
LEMMA LearnEffect ==
    ASSUME P!ProxyAssumption, ProxyTypeOK, NEW t \in P!Known, P!Learn(t)
    PROVE  /\ ProxyTypeOK' /\ Outside /\ UNCHANGED <<pnow, serving>>
           /\ DOMAIN dir \subseteq DOMAIN dir'
           /\ \A u \in DOMAIN dir' : \/ dir'[u].StableUntil = pnow + DirectoryTTL
                                     \/ u \in DOMAIN dir /\ dir'[u].StableUntil = dir[u].StableUntil
           /\ \A u \in DOMAIN dir' : \/ changed'[u] = pnow
                                     \/ /\ changed'[u] = changed[u] /\ u \in DOMAIN dir
                                        /\ dir'[u].instance = dir[u].instance
           /\ \A u \in DOMAIN dir' : \/ dir'[u].instance = serving[u]
                                     \/ u \in DOMAIN dir /\ dir'[u].instance = dir[u].instance
  <1>1. /\ UNCHANGED <<deploy, requests, serving, pcache, pnow, preq>> /\ serving[t] # "none"
        /\ dir' = [u \in DOMAIN dir \cup {t} |->
                       IF u = t THEN [instance |-> serving[t], StableUntil |-> pnow + DirectoryTTL] ELSE dir[u]]
        /\ changed' = IF t \in DOMAIN dir /\ dir[t].instance = serving[t] THEN changed
                      ELSE [changed EXCEPT ![t] = pnow]
    BY DEF P!Learn
  <1>2. Outside /\ preq' \in [RequestIDs -> ProxyCall]
    BY <1>1 DEF Outside, ProxyTypeOK
  <1>3. serving[t] \in Instances /\ pnow + DirectoryTTL \in Int
    BY <1>1 DEF ProxyTypeOK, P!ProxyAssumption
  <1>4. PICK new : new = [instance |-> serving[t], StableUntil |-> pnow + DirectoryTTL]
    OBVIOUS
  <1>5. new \in [instance : Instances, StableUntil : Int] /\ new.instance = serving[t] /\ new.StableUntil = pnow + DirectoryTTL
    BY <1>3, <1>4
  <1>6. /\ DOMAIN dir' = DOMAIN dir \cup {t} /\ dir'[t] = new
        /\ \A u \in DOMAIN dir \ {t} : dir'[u] = dir[u]
    BY <1>1, <1>4
  <1>7. changed' \in [P!Known -> Nat]
    BY <1>1 DEF ProxyTypeOK
  <1>8. \A u \in DOMAIN dir' : dir'[u] \in [instance : Instances, StableUntil : Int]
    BY <1>5, <1>6 DEF ProxyTypeOK
  <1>9. ProxyTypeOK'
    BY <1>1, <1>2, <1>6, <1>7, <1>8, OutsideTyped DEF ProxyTypeOK
  <1>10. ASSUME NEW u \in DOMAIN dir'
         PROVE  \/ changed'[u] = pnow
                \/ changed'[u] = changed[u] /\ u \in DOMAIN dir /\ dir'[u].instance = dir[u].instance
    BY <1>1, <1>5, <1>6 DEF ProxyTypeOK
  <1>11. ASSUME NEW u \in DOMAIN dir'
         PROVE  /\ \/ dir'[u].StableUntil = pnow + DirectoryTTL
                   \/ u \in DOMAIN dir /\ dir'[u].StableUntil = dir[u].StableUntil
                /\ \/ dir'[u].instance = serving[u]
                   \/ u \in DOMAIN dir /\ dir'[u].instance = dir[u].instance
    <2>1. CASE u = t
      BY <1>5, <1>6, <2>1
    <2>2. CASE u # t
      BY <1>6, <2>2
    <2> QED
      BY <2>1, <2>2
  <1>12. UNCHANGED <<pnow, serving>> /\ DOMAIN dir \subseteq DOMAIN dir' /\ Outside
    BY <1>1, <1>2, <1>6
  <1> QED
    BY <1>9, <1>10, <1>11, <1>12

\* An entry of the directory goes, and with it what was promised about it.
LEMMA ForgetEffect ==
    ASSUME P!ProxyAssumption, ProxyTypeOK, NEW t \in P!Known, P!Forget(t)
    PROVE  /\ ProxyTypeOK' /\ Outside /\ UNCHANGED <<pnow, serving, changed>>
           /\ DOMAIN dir' = DOMAIN dir \ {t} /\ \A u \in DOMAIN dir' : dir'[u] = dir[u]
           /\ \A r \in RequestIDs : preq'[r].calm => TenantOf(r) # t
  <1>1. /\ preq' = P!Disturbed(t) /\ UNCHANGED <<deploy, requests, serving, changed, pcache, pnow>>
        /\ dir' = [u \in DOMAIN dir \ {t} |-> dir[u]]
    BY DEF P!Forget
  <1>2. Outside /\ preq' \in [RequestIDs -> ProxyCall] /\ \A r \in RequestIDs : preq'[r].calm => TenantOf(r) # t
    BY <1>1, DisturbedCalls
  <1>3. DOMAIN dir' = DOMAIN dir \ {t} /\ \A u \in DOMAIN dir' : dir'[u] = dir[u]
    BY <1>1
  <1>4. ProxyTypeOK'
    BY <1>1, <1>2, <1>3, OutsideTyped DEF ProxyTypeOK
  <1> QED
    BY <1>1, <1>2, <1>3, <1>4

\* Time passes while no in-process answer is about to be stored.
LEMMA TickEffect ==
    ASSUME P!ProxyAssumption, ProxyTypeOK, P!Tick
    PROVE  /\ ProxyTypeOK' /\ Outside /\ UNCHANGED <<serving, dir, changed>> /\ pnow' = pnow + 1
           /\ deploy.embedded => \A r \in RequestIDs : preq[r].pc # "store"
  <1>1. UNCHANGED <<deploy, requests, serving, dir, changed, pcache, preq>> /\ pnow' = pnow + 1
        /\ (deploy.embedded => \A r \in RequestIDs : preq[r].pc # "store")
    BY DEF P!Tick
  <1>2. Outside /\ preq' \in [RequestIDs -> ProxyCall]
    BY <1>1 DEF Outside, ProxyTypeOK
  <1>3. ProxyTypeOK'
    BY <1>1, <1>2, OutsideTyped DEF ProxyTypeOK
  <1> QED
    BY <1>1, <1>2, <1>3
-----------------------------------------------------------------------------
\* When the entry would expire that a request's answer would leave now, the
\* longest an entry lives, and what holds of one until then: it is right, or
\* the directory has known better for a bounded time only.
Bound == IF deploy.embedded THEN CacheTTL ELSE DirectoryTTL
Fresh(t, v, x) ==
    /\ x <= pnow + Bound
    /\ (t \in DOMAIN dir /\ v # dir[t].instance) => x <= changed[t] + Bound

TimeInv ==
    /\ \A t \in DOMAIN dir : dir[t].StableUntil <= pnow + DirectoryTTL
    /\ \A e : In(e, pcache) => Fresh(e.key, e.value, e.expires)
    /\ \A r \in RequestIDs : preq[r].pc = "store" => Fresh(TenantOf(r), preq[r].loc.instance, Worth(r))

\* The other requests for the tenant of r that are about to put a stale answer
\* back; whether r has met a stale location or will meet one next.
Threats(r) == {q \in RequestIDs \ {r} : TenantOf(q) = TenantOf(r) /\ preq[q].pc = "store" /\ preq[q].loc.instance # serving[TenantOf(r)]}
Stale(r) == \/ preq[r].pc = "send" /\ preq[r].loc.instance # serving[TenantOf(r)]
            \/ \E e : In(e, pcache) /\ e.key = TenantOf(r) /\ e.value # serving[TenantOf(r)]
Met(r) == IF Stale(r) THEN 1 ELSE 0

\* A promised read is on its way to the instance, and enough redirects are
\* left for the stale locations that it may still meet.
Reaching(r) ==
    /\ TenantOf(r) \in DOMAIN dir /\ dir[TenantOf(r)].instance = serving[TenantOf(r)]
    /\ preq[r].pc = "store" => preq[r].loc.instance = serving[TenantOf(r)]
    /\ preq[r].redirects + Met(r) + Cardinality(Threats(r)) <= MaxRedirects

ReadsInv ==
    /\ P!ReadsReach
    /\ \A r \in RequestIDs : preq[r].pc = "new" => ~preq[r].calm /\ preq[r].redirects = 0
    /\ \A r \in RequestIDs : (InFlight(r) /\ preq[r].calm) => Reaching(r)

\* A deadline reckoned from an earlier time holds from a later one.
LEMMA LaterStill ==
    \A x \in Int : \A n, m, b \in Nat : (x <= n + b /\ m >= n) => x <= m + b
  OBVIOUS

\* The bound is a number of seconds.
LEMMA BoundNatural == ASSUME P!ProxyAssumption PROVE Bound \in Nat
  BY DEF Bound, P!ProxyAssumption

\* An entry that lives until x stays fresh when time passes or the directory
\* learns: what it learns now is not late.
LEMMA StaysFresh ==
    ASSUME P!ProxyAssumption, ProxyTypeOK, ProxyTypeOK', deploy' = deploy, NEW t \in P!Known, NEW v, NEW x \in Int,
           Fresh(t, v, x), pnow' >= pnow,
           t \in DOMAIN dir' => \/ changed'[t] = pnow' /\ x <= pnow' + Bound
                                \/ changed'[t] = changed[t] /\ t \in DOMAIN dir /\ dir'[t].instance = dir[t].instance
    PROVE  Fresh(t, v, x)'
  <1>1. Bound \in Nat /\ Bound' = Bound
    BY BoundNatural DEF Bound
  <1>2. pnow \in Nat /\ pnow' \in Nat
    BY DEF ProxyTypeOK
  <1>3. x <= pnow' + Bound
    <2>1. x <= pnow + Bound
      BY DEF Fresh
    <2> QED
      BY <1>1, <1>2, <2>1, LaterStill
  <1>4. (t \in DOMAIN dir' /\ v # dir'[t].instance) => x <= changed'[t] + Bound
    BY <1>3 DEF Fresh
  <1> QED
    BY <1>1, <1>3, <1>4 DEF Fresh

\* Locations stay fresh, whatever happens outside.
LEMMA OutsideTime ==
    ASSUME P!ProxyAssumption, ProxyTypeOK, ProxyTypeOK', TimeInv, Outside, pnow' >= pnow,
           deploy.embedded => pnow' = pnow \/ \A r \in RequestIDs : preq[r].pc # "store",
           \A t \in DOMAIN dir' : dir'[t].StableUntil <= pnow' + DirectoryTTL,
           \A t \in DOMAIN dir' : \/ changed'[t] = pnow'
                                  \/ /\ changed'[t] = changed[t] /\ t \in DOMAIN dir
                                     /\ dir'[t].instance = dir[t].instance
    PROVE  TimeInv'
  <1>0. deploy' = deploy /\ pcache' = pcache /\ requests' = requests /\ Bound \in Nat /\ pnow \in Nat /\ pnow' \in Nat
    BY BoundNatural DEF Outside, ProxyTypeOK
  <1>1. ASSUME NEW t \in P!Known, NEW v, NEW x \in Int, Fresh(t, v, x) PROVE Fresh(t, v, x)'
    <2>1. x <= pnow' + Bound
      <3>1. x <= pnow + Bound
        BY <1>1 DEF Fresh
      <3> QED
        BY <1>0, <3>1, LaterStill
    <2> QED
      BY <1>0, <1>1, <2>1, StaysFresh
  <1>2. ASSUME NEW e, In(e, pcache)' PROVE Fresh(e.key, e.value, e.expires)'
    <2>1. In(e, pcache)
      BY <1>0, <1>2 DEF In
    <2>2. e \in CachedLocation
      BY <2>1, ElementOfSeq DEF In, ProxyTypeOK, List
    <2>3. e.key \in P!Known /\ e.expires \in Int
      BY <2>2 DEF CachedLocation
    <2> QED
      BY <1>1, <2>1, <2>3 DEF TimeInv
  <1>3. ASSUME NEW r \in RequestIDs, preq'[r].pc = "store"
        PROVE  Fresh(TenantOf(r), preq[r].loc.instance, Worth(r))'
    <2>1. preq[r].pc = "store" /\ preq'[r].loc = preq[r].loc /\ TenantOf(r)' = TenantOf(r)
      BY <1>0, <1>3 DEF Outside, TenantOf
    <2>2. preq[r].loc.StableUntil \in Int /\ CacheTTL \in Int
      BY SMTT(30) DEF ProxyTypeOK, ProxyCall, P!ProxyAssumption
    <2>3. Worth(r) \in Int
      BY <1>0, <2>2 DEF Worth
    <2>4. Worth(r)' = Worth(r)
      BY <1>0, <2>1 DEF Worth
    <2>5. Fresh(TenantOf(r), preq[r].loc.instance, Worth(r))
      BY <2>1 DEF TimeInv
    <2>6. TenantOf(r) \in P!Known
      BY TenantsKnown
    <2>7. PICK t, v, x : t = TenantOf(r) /\ v = preq[r].loc.instance /\ x = Worth(r)
      OBVIOUS
    <2>8. Fresh(t, v, x)'
      BY <1>1, <2>3, <2>5, <2>6, <2>7
    <2>9. t = TenantOf(r)' /\ v = preq'[r].loc.instance /\ x = Worth(r)'
      BY <2>1, <2>4, <2>7
    <2> QED
      BY <2>8, <2>9 DEF Fresh
  <1> QED
    BY <1>2, <1>3 DEF TimeInv

\* A step of a request leaves fresh locations and takes only a fresh one.
LEMMA RequestTime ==
    ASSUME P!ProxyAssumption, ProxyTypeOK, TimeInv, NEW q \in RequestIDs, Alone(q),
           \A e : In(e, pcache') => In(e, pcache) \/ Fresh(e.key, e.value, e.expires),
           preq'[q].pc = "store" => Fresh(TenantOf(q), preq'[q].loc.instance, Worth(q)')
    PROVE  TimeInv'
  <1>0. /\ UNCHANGED <<deploy, requests, serving, dir, changed, pnow>>
        /\ \A r \in RequestIDs \ {q} : preq'[r] = preq[r]
    BY DEF Alone
  <1>1. ASSUME NEW t, NEW v, NEW x PROVE Fresh(t, v, x)' <=> Fresh(t, v, x)
    BY <1>0 DEF Fresh, Bound
  <1>2. ASSUME NEW e, In(e, pcache)' PROVE Fresh(e.key, e.value, e.expires)'
    <2>1. In(e, pcache')
      BY <1>2 DEF In
    <2>2. Fresh(e.key, e.value, e.expires)
      BY <2>1 DEF TimeInv
    <2> QED
      BY <1>1, <2>2
  <1>3. ASSUME NEW r \in RequestIDs, preq'[r].pc = "store"
        PROVE  Fresh(TenantOf(r), preq[r].loc.instance, Worth(r))'
    <2>1. PICK t, v, x : t = TenantOf(r) /\ v = preq'[r].loc.instance /\ x = Worth(r)'
      OBVIOUS
    <2>2. TenantOf(r)' = TenantOf(r)
      BY <1>0 DEF TenantOf
    <2>3. Fresh(t, v, x)
      <3>1. CASE r = q
        BY <1>3, <2>1, <3>1
      <3>2. CASE r # q
        <4>1. preq'[r] = preq[r] /\ Worth(r)' = Worth(r)
          BY <1>0, <3>2 DEF Worth
        <4> QED
          BY <1>3, <2>1, <4>1 DEF TimeInv
      <3> QED
        BY <3>1, <3>2
    <2>4. Fresh(t, v, x)'
      BY <1>1, <2>3
    <2> QED
      BY <2>1, <2>2, <2>4 DEF Fresh
  <1>4. \A t \in DOMAIN dir' : dir'[t].StableUntil <= pnow' + DirectoryTTL
    BY <1>0 DEF TimeInv
  <1> QED
    BY <1>2, <1>3, <1>4 DEF TimeInv

\* The proxy's specification counts as this module does.
LEMMA ProxyCardinality == \A S : P!Cardinality(S) = Cardinality(S) /\ (P!IsFiniteSet(S) <=> IsFiniteSet(S))
  BY DEF P!Cardinality, Cardinality, P!IsFiniteSet, IsFiniteSet

\* The requests for the tenant of r that are under way.
Rivals(r) == {q \in RequestIDs : TenantOf(q) = TenantOf(r) /\ InFlight(q)}

\* Fewer requests are under way than redirects are allowed.
LEMMA FewRivals ==
    ASSUME P!FewAtOnce, ProxyTypeOK, NEW r \in RequestIDs
    PROVE  /\ IsFiniteSet(Rivals(r)) /\ Cardinality(Rivals(r)) \in Nat
           /\ Cardinality(Rivals(r)) <= MaxRedirects
           /\ IsFiniteSet(Threats(r)) /\ Cardinality(Threats(r)) \in Nat
  <1>1. PICK S : S = {q \in RequestIDs : P!Last(requests[q].path) = P!Last(requests[r].path)
                                          /\ preq[q].pc \notin {"new", "done"}}
    OBVIOUS
  <1>2. P!IsFiniteSet(S) /\ P!Cardinality(S) <= MaxRedirects
    BY <1>1, Zenon DEF P!FewAtOnce
  <1>3. \A q \in RequestIDs : InFlight(q) <=> preq[q].pc \notin {"new", "done"}
    BY DEF ProxyTypeOK, ProxyCall, InFlight
  <1>4. S = Rivals(r)
    BY <1>1, <1>3 DEF Rivals, TenantOf
  <1>5. IsFiniteSet(Rivals(r)) /\ Cardinality(Rivals(r)) <= MaxRedirects
    BY <1>2, <1>4, ProxyCardinality
  <1>6. Threats(r) \subseteq Rivals(r)
    BY DEF Threats, Rivals, InFlight
  <1> QED
    BY <1>5, <1>6, FS_Subset, FS_CardinalityType

\* The same of every request, as a formula.
LEMMA FewEverywhere ==
    P!FewAtOnce /\ ProxyTypeOK =>
        \A r \in RequestIDs : IsFiniteSet(Rivals(r)) /\ Cardinality(Rivals(r)) <= MaxRedirects
  BY FewRivals

\* The tenant of a request never changes.
LEMMA SameTenant ==
    ASSUME NEW r \in RequestIDs, requests' = requests
    PROVE  TenantOf(r)' = TenantOf(r)
  BY DEF TenantOf

\* A finite set without one of its elements has one element fewer.
LEMMA OneFewer ==
    ASSUME NEW S, IsFiniteSet(S), NEW x \in S, NEW R, R = S \ {x}
    PROVE  /\ Cardinality(S) \in Nat /\ Cardinality(R) \in Nat
           /\ Cardinality(R) = Cardinality(S) - 1
  BY FS_RemoveElement, FS_CardinalityType

\* A step of the request itself: a redirect is paid for by the stale location
\* it met.
LEMMA OwnReach ==
    ASSUME P!ProxyAssumption, P!FewAtOnce, ProxyTypeOK, NEW q \in RequestIDs, Alone(q), Reaching(q),
           preq'[q].pc = "store" => preq'[q].loc.instance = serving[TenantOf(q)],
           \/ preq'[q].redirects = preq[q].redirects /\ (Stale(q)' => Stale(q))
           \/ preq'[q].redirects = preq[q].redirects + 1 /\ Stale(q) /\ ~Stale(q)'
    PROVE  Reaching(q)'
  <1>1. /\ UNCHANGED <<deploy, requests, serving, dir, changed, pnow>>
        /\ \A r \in RequestIDs \ {q} : preq'[r] = preq[r]
    BY DEF Alone
  <1>2. TenantOf(q)' = TenantOf(q)
    BY <1>1, SameTenant
  <1>3. Threats(q)' = Threats(q)
    <2>1. \A r \in RequestIDs : TenantOf(r)' = TenantOf(r)
      BY <1>1, SameTenant
    <2> QED
      BY <1>1, <2>1 DEF Threats
  <1>4. preq[q].redirects \in Nat /\ Met(q) \in {0, 1} /\ Met(q)' \in {0, 1}
    BY DEF ProxyTypeOK, ProxyCall, Met
  <1>5. Cardinality(Threats(q)) \in Nat /\ MaxRedirects \in Nat
    BY FewRivals DEF P!ProxyAssumption
  <1>6. preq'[q].redirects + Met(q)' <= preq[q].redirects + Met(q) /\ preq'[q].redirects \in Nat
    BY <1>4 DEF Met
  <1>7. preq'[q].redirects + Met(q)' + Cardinality(Threats(q)) <= MaxRedirects
    <2>1. PICK a, b, c, d \in Nat : a = preq'[q].redirects /\ b = Met(q)' /\ c = preq[q].redirects /\ d = Met(q)
      BY <1>4, <1>6
    <2>2. c + d + Cardinality(Threats(q)) <= MaxRedirects /\ a + b <= c + d
      BY <1>6, <2>1 DEF Reaching
    <2>3. a + b + Cardinality(Threats(q)) <= MaxRedirects
      BY <1>5, <2>2
    <2> QED
      BY <2>1, <2>3
  <1> QED
    BY <1>1, <1>2, <1>3, <1>7 DEF Reaching

\* A step of another request: a stale answer that it puts back was counted.
LEMMA OtherReach ==
    ASSUME P!ProxyAssumption, P!FewAtOnce, ProxyTypeOK, NEW q \in RequestIDs, Alone(q),
           NEW r \in RequestIDs \ {q}, Reaching(r),
           preq[q].pc = "store" => preq'[q].pc # "store",
           preq'[q].pc = "store" => preq'[q].loc = dir[TenantOf(q)],
           \A e : In(e, pcache') => \/ In(e, pcache)
                                    \/ e.key = TenantOf(q) /\ preq[q].pc = "store" /\ e.value = preq[q].loc.instance
    PROVE  Reaching(r)'
  <1>1. /\ UNCHANGED <<deploy, requests, serving, dir, changed, pnow>>
        /\ \A s \in RequestIDs \ {q} : preq'[s] = preq[s]
    BY DEF Alone
  <1>2. \A s \in RequestIDs : TenantOf(s)' = TenantOf(s)
    BY <1>1, SameTenant
  <1>3. dir[TenantOf(r)].instance = serving[TenantOf(r)]
    BY DEF Reaching
  <1>4. preq'[r] = preq[r] /\ preq[r].redirects \in Nat /\ Met(r) \in {0, 1} /\ Met(r)' \in {0, 1}
    BY <1>1 DEF ProxyTypeOK, ProxyCall, Met
  <1>5. q \notin Threats(r)'
    BY <1>1, <1>2, <1>3 DEF Threats
  <1>6. \A s : s \in Threats(r)' => s \in Threats(r) \ {q}
    BY <1>1, <1>2, <1>5 DEF Threats
  <1>7. \A s : s \in Threats(r) \ {q} => s \in Threats(r)'
    BY <1>1, <1>2 DEF Threats
  <1>8. Threats(r)' = Threats(r) \ {q}
    BY <1>6, <1>7
  <1>9. IsFiniteSet(Threats(r)) /\ Cardinality(Threats(r)) \in Nat /\ MaxRedirects \in Nat
    BY FewRivals DEF P!ProxyAssumption
  <1>10. Cardinality(Threats(r)') \in Nat /\ Met(r)' + Cardinality(Threats(r)') <= Met(r) + Cardinality(Threats(r))
    <2>1. CASE q \in Threats(r)
      <3>1. Cardinality(Threats(r)') \in Nat /\ Cardinality(Threats(r)') = Cardinality(Threats(r)) - 1
        BY <1>8, <1>9, <2>1, OneFewer
      <3>2. \A a, b \in {0, 1} : \A n, m \in Nat : n = m - 1 => a + n <= b + m
        OBVIOUS
      <3> QED
        BY <1>4, <1>9, <3>1, <3>2
    <2>2. CASE q \notin Threats(r)
      <3>1. Threats(r)' = Threats(r)
        BY <1>8, <2>2
      <3>2. Stale(r)' => Stale(r)
        <4>1. ASSUME NEW e, In(e, pcache'), e.key = TenantOf(r), e.value # serving[TenantOf(r)] PROVE In(e, pcache)
          <5>1. CASE e.key = TenantOf(q) /\ preq[q].pc = "store" /\ e.value = preq[q].loc.instance
            BY <2>2, <4>1, <5>1 DEF Threats
          <5> QED
            BY <4>1, <5>1
        <4>2. ASSUME NEW e, In(e, pcache)' PROVE In(e, pcache')
          BY <4>2 DEF In
        <4> QED
          BY <1>1, <1>2, <1>4, <4>1, <4>2 DEF Stale
      <3> QED
        BY <1>9, <3>1, <3>2 DEF Met
    <2> QED
      BY <2>1, <2>2
  <1>11. preq'[r].redirects + Met(r)' + Cardinality(Threats(r)') <= MaxRedirects
    <2>1. PICK a, b, c, d, n, m \in Nat : /\ a = preq[r].redirects /\ b = Met(r)' /\ c = Met(r)
                                           /\ d = Cardinality(Threats(r)') /\ n = Cardinality(Threats(r))
                                           /\ m = MaxRedirects
      BY <1>4, <1>9, <1>10
    <2>2. a + c + n <= m /\ b + d <= c + n
      BY <1>10, <2>1 DEF Reaching
    <2>3. a + b + d <= m
      BY <2>2
    <2> QED
      BY <1>4, <2>1, <2>3
  <1>12. preq'[r].pc = "store" => preq'[r].loc.instance = serving[TenantOf(r)]
    BY <1>4 DEF Reaching
  <1>13. TenantOf(r) \in DOMAIN dir
    BY DEF Reaching
  <1> QED
    BY <1>1, <1>2, <1>3, <1>11, <1>12, <1>13 DEF Reaching

\* What a step of one request does to the promises made to all of them.
LEMMA RequestReads ==
    ASSUME P!ProxyAssumption, P!FewAtOnce, ProxyTypeOK, ReadsInv, NEW q \in RequestIDs, Alone(q),
           preq'[q].pc # "new",
           (preq'[q].pc = "done" /\ preq'[q].calm /\ ~requests[q].write) => preq'[q].status = 200,
           (preq'[q].pc # "done" /\ preq'[q].calm) => Reaching(q)',
           preq[q].pc = "store" => preq'[q].pc # "store",
           preq'[q].pc = "store" => preq'[q].loc = dir[TenantOf(q)],
           \A e : In(e, pcache') =>
               \/ In(e, pcache)
               \/ e.key = TenantOf(q) /\ preq[q].pc = "store" /\ e.value = preq[q].loc.instance
    PROVE  ReadsInv'
  <1>1. /\ UNCHANGED <<deploy, requests, serving, dir, changed, pnow>>
        /\ \A r \in RequestIDs \ {q} : preq'[r] = preq[r]
    BY DEF Alone
  <1>2. ASSUME NEW r \in RequestIDs, preq'[r].pc = "done", preq'[r].calm, ~requests[r].write PROVE preq'[r].status = 200
    <2>1. CASE r = q
      BY <1>2, <2>1
    <2>2. CASE r # q
      BY <1>1, <1>2, <2>2 DEF ReadsInv, P!ReadsReach
    <2> QED
      BY <2>1, <2>2
  <1>3. ASSUME NEW r \in RequestIDs, preq'[r].pc = "new" PROVE ~preq'[r].calm /\ preq'[r].redirects = 0
    BY <1>1, <1>3 DEF ReadsInv
  <1>4. ASSUME NEW r \in RequestIDs, InFlight(r)', preq'[r].calm PROVE Reaching(r)'
    <2>1. CASE r = q
      <3>1. preq'[q].pc # "done"
        BY <1>4, <2>1 DEF InFlight
      <3> QED
        BY <1>4, <2>1, <3>1
    <2>2. CASE r # q
      <3>1. preq'[r] = preq[r]
        BY <1>1, <2>2
      <3>2. Reaching(r)
        BY <1>4, <3>1 DEF InFlight, ReadsInv
      <3> QED
        BY <2>2, <3>2, OtherReach
    <2> QED
      BY <2>1, <2>2
  <1>6. P!ReadsReach'
    BY <1>1, <1>2 DEF P!ReadsReach
  <1>7. \A r \in RequestIDs : preq'[r].pc = "new" => ~preq'[r].calm /\ preq'[r].redirects = 0
    BY <1>3
  <1>8. \A r \in RequestIDs : (InFlight(r)' /\ preq'[r].calm) => Reaching(r)'
    BY <1>4
  <1> QED
    BY <1>6, <1>7, <1>8 DEF ReadsInv

\* Nothing outside breaks a promise that it does not take back.
LEMMA OutsideReads ==
    ASSUME ProxyTypeOK, ReadsInv, Outside,
           \A r \in RequestIDs : (preq'[r].calm /\ Reaching(r)) =>
               /\ serving'[TenantOf(r)] = serving[TenantOf(r)]
               /\ TenantOf(r) \in DOMAIN dir' /\ dir'[TenantOf(r)].instance = serving[TenantOf(r)]
    PROVE  ReadsInv'
  <1>1. /\ UNCHANGED <<deploy, requests, pcache>>
        /\ \A r \in RequestIDs :
              /\ preq'[r].pc = preq[r].pc /\ preq'[r].redirects = preq[r].redirects
              /\ preq'[r].loc = preq[r].loc /\ preq'[r].status = preq[r].status
              /\ preq'[r].calm => preq[r].calm
    BY DEF Outside
  <1>2. P!ReadsReach'
    BY <1>1 DEF ReadsInv, P!ReadsReach
  <1>3. \A r \in RequestIDs : preq'[r].pc = "new" => ~preq'[r].calm /\ preq'[r].redirects = 0
    BY <1>1 DEF ReadsInv
  <1>4. ASSUME NEW r \in RequestIDs, InFlight(r)', preq'[r].calm PROVE Reaching(r)'
    <2>1. Reaching(r)
      BY <1>1, <1>4 DEF InFlight, ReadsInv
    <2>2. serving'[TenantOf(r)] = serving[TenantOf(r)] /\ TenantOf(r) \in DOMAIN dir' /\ dir'[TenantOf(r)].instance = serving[TenantOf(r)]
      BY <1>4, <2>1
    <2>3. TenantOf(r)' = TenantOf(r)
      BY <1>1, SameTenant
    <2>4. Threats(r)' = Threats(r)
      <3>1. \A q \in RequestIDs : TenantOf(q)' = TenantOf(q)
        BY <1>1, SameTenant
      <3> QED
        BY <1>1, <2>2, <3>1 DEF Threats
    <2>5. Met(r)' = Met(r)
      <3>1. \A e : In(e, pcache)' <=> In(e, pcache)
        BY <1>1 DEF In
      <3> QED
        BY <1>1, <2>2, <2>3, <3>1 DEF Met, Stale
    <2>6. preq'[r].redirects + Met(r)' + Cardinality(Threats(r)') <= MaxRedirects
      BY <1>1, <2>1, <2>3, <2>4, <2>5 DEF Reaching
    <2>7. preq'[r].pc = "store" => preq'[r].loc.instance = serving[TenantOf(r)]
      BY <1>1, <2>1 DEF Reaching
    <2> QED
      BY <2>2, <2>3, <2>6, <2>7 DEF Reaching
  <1>6. \A r \in RequestIDs : (InFlight(r)' /\ preq'[r].calm) => Reaching(r)'
    BY <1>4
  <1> QED
    BY <1>2, <1>3, <1>6 DEF ReadsInv

\* A step of a request caches only fresh locations.
LEMMA RequestTimed ==
    ASSUME P!ProxyAssumption, P!MenuAssumption, ProxyTypeOK, TimeInv, NEW q \in RequestIDs, P!Step(q) \/ P!Fault(q)
    PROVE  ProxyTypeOK' /\ TimeInv'
  <1>1. CASE P!Arrive(q)
    <2>1. ProxyTypeOK' /\ Alone(q) /\ pcache' = pcache /\ preq'[q].pc # "store"
      BY <1>1, ArriveEffect
    <2> QED
      BY <2>1, RequestTime
  <1>2. CASE P!Resolve(q)
    <2>1. ProxyTypeOK' /\ Alone(q) /\ preq'[q].pc # "store" /\ \A e : In(e, pcache') => In(e, pcache)
      BY <1>2, ResolveEffect
    <2> QED
      BY <2>1, RequestTime
  <1>3. CASE P!Locate(q)
    <2>1. /\ ProxyTypeOK' /\ Alone(q) /\ pcache' = pcache
          /\ preq'[q].pc = "store" => TenantOf(q) \in DOMAIN dir /\ preq'[q].loc = dir[TenantOf(q)]
      BY <1>3, LocateEffect
    <2>2. ASSUME preq'[q].pc = "store" PROVE Fresh(TenantOf(q), preq'[q].loc.instance, Worth(q)')
      <3>1. TenantOf(q) \in DOMAIN dir /\ preq'[q].loc = dir[TenantOf(q)]
        BY <2>1, <2>2
      <3>2. dir[TenantOf(q)].StableUntil <= pnow + DirectoryTTL
        BY <3>1 DEF TimeInv
      <3>3. pnow \in Nat /\ CacheTTL \in Nat
        BY DEF ProxyTypeOK, P!ProxyAssumption
      <3>4. Worth(q)' <= pnow + Bound
        <4>1. deploy' = deploy /\ pnow' = pnow
          BY <2>1 DEF Alone
        <4> QED
          BY <3>1, <3>2, <3>3, <4>1 DEF Worth, Bound
      <3> QED
        BY <3>1, <3>4 DEF Fresh
    <2> QED
      BY <2>1, <2>2, RequestTime
  <1>4. CASE P!Store(q)
    <2>1. /\ ProxyTypeOK' /\ Alone(q) /\ preq[q].pc = "store" /\ preq'[q].pc # "store"
          /\ \A e : In(e, pcache') =>
                 \/ In(e, pcache)
                 \/ e.key = TenantOf(q) /\ e.value = preq[q].loc.instance /\ e.expires = Worth(q)
      BY <1>4, StoreEffect
    <2>2. Fresh(TenantOf(q), preq[q].loc.instance, Worth(q))
      BY <2>1 DEF TimeInv
    <2>3. ASSUME NEW e, In(e, pcache') PROVE In(e, pcache) \/ Fresh(e.key, e.value, e.expires)
      <3>1. CASE e.key = TenantOf(q) /\ e.value = preq[q].loc.instance /\ e.expires = Worth(q)
        BY <2>2, <3>1 DEF Fresh
      <3> QED
        BY <2>1, <2>3, <3>1
    <2> QED
      BY <2>1, <2>3, RequestTime
  <1>5. CASE P!Send(q)
    <2>1. ProxyTypeOK' /\ Alone(q) /\ preq'[q].pc # "store" /\ \A e : In(e, pcache') => In(e, pcache)
      BY <1>5, SendEffect
    <2> QED
      BY <2>1, RequestTime
  <1>6. CASE P!Fault(q)
    <2>1. ProxyTypeOK' /\ Alone(q) /\ pcache' = pcache /\ preq'[q].pc # "store"
      BY <1>6, FaultEffect
    <2> QED
      BY <2>1, RequestTime
  <1> QED
    BY <1>1, <1>2, <1>3, <1>4, <1>5, <1>6 DEF P!Step

\* The steps of the instances, the directory and the clock.
Elsewhere ==
    \/ \E t \in P!Known : P!Quiesce(t) \/ P!Learn(t) \/ P!Forget(t) \/ \E i \in Instances : P!Activate(t, i)
    \/ P!Tick

\* Cached locations stay fresh while the world outside changes.
LEMMA ElsewhereTimed ==
    ASSUME P!ProxyAssumption, ProxyTypeOK, TimeInv, Elsewhere
    PROVE  ProxyTypeOK' /\ TimeInv'
  <1>0. pnow \in Nat
    BY DEF ProxyTypeOK
  <1>1. UnstableTTL \in Nat /\ DirectoryTTL \in Nat /\ UnstableTTL <= DirectoryTTL
    BY DEF P!ProxyAssumption
  <1>2. \A t \in DOMAIN dir : dir[t].StableUntil <= pnow + DirectoryTTL /\ dir[t].StableUntil \in Int
    BY DEF TimeInv, ProxyTypeOK
  <1>3. ASSUME NEW t \in P!Known, P!Quiesce(t) PROVE ProxyTypeOK' /\ TimeInv'
    <2>1. /\ ProxyTypeOK' /\ Outside /\ pnow' = pnow /\ changed' = changed /\ DOMAIN dir' = DOMAIN dir
          /\ \A u \in DOMAIN dir : dir'[u].instance = dir[u].instance
          /\ \A u \in DOMAIN dir : dir'[u].StableUntil \in {dir[u].StableUntil, pnow + UnstableTTL}
      BY <1>3, QuiesceEffect
    <2>2. pnow + UnstableTTL <= pnow + DirectoryTTL
      BY <1>0, <1>1
    <2>3. \A u \in DOMAIN dir' : dir'[u].StableUntil <= pnow' + DirectoryTTL
      BY <1>2, <2>1, <2>2
    <2> QED
      BY <1>0, <2>1, <2>3, OutsideTime
  <1>4. ASSUME NEW t \in P!Known, P!Learn(t) PROVE ProxyTypeOK' /\ TimeInv'
    <2>1. /\ ProxyTypeOK' /\ Outside /\ pnow' = pnow
          /\ \A u \in DOMAIN dir' : \/ dir'[u].StableUntil = pnow + DirectoryTTL
                                    \/ u \in DOMAIN dir /\ dir'[u].StableUntil = dir[u].StableUntil
          /\ \A u \in DOMAIN dir' : \/ changed'[u] = pnow
                                    \/ /\ changed'[u] = changed[u] /\ u \in DOMAIN dir
                                       /\ dir'[u].instance = dir[u].instance
      BY <1>4, LearnEffect
    <2>2. pnow + DirectoryTTL \in Int
      BY <1>0, <1>1
    <2>3. \A u \in DOMAIN dir' : dir'[u].StableUntil <= pnow' + DirectoryTTL
      BY <1>2, <2>1, <2>2
    <2> QED
      BY <1>0, <2>1, <2>3, OutsideTime
  <1>5. ASSUME NEW t \in P!Known, P!Forget(t) PROVE ProxyTypeOK' /\ TimeInv'
    <2>1. /\ ProxyTypeOK' /\ Outside /\ UNCHANGED <<pnow, changed>>
          /\ DOMAIN dir' = DOMAIN dir \ {t} /\ \A u \in DOMAIN dir' : dir'[u] = dir[u]
      BY <1>5, ForgetEffect
    <2>2. \A u \in DOMAIN dir' : dir'[u].StableUntil <= pnow' + DirectoryTTL
      BY <1>2, <2>1
    <2> QED
      BY <1>0, <2>1, <2>2, OutsideTime
  <1>6. ASSUME NEW t \in P!Known, NEW i \in Instances, P!Activate(t, i) PROVE ProxyTypeOK' /\ TimeInv'
    <2>1. ProxyTypeOK' /\ Outside /\ UNCHANGED <<pnow, changed, dir>>
      BY <1>6, ActivateEffect
    <2> QED
      BY <1>0, <1>2, <2>1, OutsideTime
  <1>7. ASSUME P!Tick PROVE ProxyTypeOK' /\ TimeInv'
    <2>1. /\ ProxyTypeOK' /\ Outside /\ UNCHANGED <<dir, changed>> /\ pnow' = pnow + 1
          /\ deploy.embedded => \A r \in RequestIDs : preq[r].pc # "store"
      BY <1>7, TickEffect
    <2>2. \A u \in DOMAIN dir' : dir'[u].StableUntil <= pnow' + DirectoryTTL
      BY <1>0, <1>1, <1>2, <2>1
    <2> QED
      BY <1>0, <2>1, <2>2, OutsideTime
  <1> QED
    BY <1>3, <1>4, <1>5, <1>6, <1>7 DEF Elsewhere

\* A step that changes nothing of the proxy.
LEMMA AtRest ==
    ASSUME ProxyTypeOK, UNCHANGED P!vars
    PROVE  ProxyTypeOK' /\ Outside /\ UNCHANGED <<serving, dir, changed, preq, pnow>>
  <1>1. UNCHANGED <<deploy, requests, serving, dir, changed, pcache, preq, pnow>>
    BY DEF P!vars
  <1>2. Outside /\ preq' \in [RequestIDs -> ProxyCall]
    BY <1>1 DEF Outside, ProxyTypeOK
  <1>3. ProxyTypeOK'
    BY <1>1, <1>2, OutsideTyped DEF ProxyTypeOK
  <1> QED
    BY <1>1, <1>2, <1>3

-----------------------------------------------------------------------------
\* What was promised to a request that arrives.
LEMMA ArriveReads ==
    ASSUME P!ProxyAssumption, P!MenuAssumption, P!FewAtOnce, P!FewAtOnce', ProxyTypeOK, ReadsInv,
           NEW q \in RequestIDs, P!Arrive(q)
    PROVE  ReadsInv'
  <1>1. /\ ProxyTypeOK' /\ Alone(q) /\ pcache' = pcache /\ preq[q].pc = "new"
        /\ \/ preq'[q].pc = "done" /\ (preq'[q].calm <=> preq[q].calm)
           \/ /\ preq'[q].pc = "resolve" /\ preq'[q].redirects = preq[q].redirects
              /\ preq'[q].calm => TenantOf(q) \in DOMAIN dir /\ dir[TenantOf(q)].instance = serving[TenantOf(q)]
    BY ArriveEffect
  <1>2. ~preq[q].calm /\ preq[q].redirects = 0
    BY <1>1 DEF ReadsInv
  <1>3. ASSUME preq'[q].pc # "done", preq'[q].calm PROVE Reaching(q)'
    <2>0. /\ UNCHANGED <<deploy, requests, serving, dir, changed, pnow>>
          /\ \A r \in RequestIDs \ {q} : preq'[r] = preq[r]
      BY <1>1 DEF Alone
    <2>1. preq'[q].pc = "resolve" /\ preq'[q].redirects = 0 /\ TenantOf(q) \in DOMAIN dir /\ dir[TenantOf(q)].instance = serving[TenantOf(q)]
      BY <1>1, <1>2, <1>3
    <2>2. TenantOf(q)' = TenantOf(q)
      BY <2>0, SameTenant
    <2>3. PICK R : R = Rivals(q)'
      OBVIOUS
    <2>4. IsFiniteSet(R) /\ Cardinality(R) <= MaxRedirects
      <3>1. (\A r \in RequestIDs : IsFiniteSet(Rivals(r)) /\ Cardinality(Rivals(r)) <= MaxRedirects)'
        BY <1>1, FewEverywhere, PTL
      <3> QED
        BY <2>3, <3>1
    <2>5. q \in R
      BY <2>1, <2>3 DEF Rivals, InFlight
    <2>6. PICK S : S = R \ {q}
      OBVIOUS
    <2>7. Cardinality(R) \in Nat /\ Cardinality(S) \in Nat /\ Cardinality(S) = Cardinality(R) - 1 /\ IsFiniteSet(S)
      BY <2>4, <2>5, <2>6, OneFewer, FS_Subset
    <2>8. Threats(q)' \subseteq S
      BY <2>0, <2>3, <2>6 DEF Threats, Rivals, InFlight
    <2>9. Cardinality(Threats(q)') \in Nat /\ Cardinality(Threats(q)') <= Cardinality(S)
      BY <2>7, <2>8, FS_Subset, FS_CardinalityType
    <2>10. Met(q)' \in {0, 1} /\ MaxRedirects \in Nat
      BY DEF Met, P!ProxyAssumption
    <2>11. preq'[q].redirects + Met(q)' + Cardinality(Threats(q)') <= MaxRedirects
      BY <2>1, <2>4, <2>7, <2>9, <2>10
    <2> QED
      BY <2>0, <2>1, <2>2, <2>11 DEF Reaching
  <1> QED
    BY <1>1, <1>2, <1>3, RequestReads

\* A promised read has a redirect left, so the limit does not stop it.
LEMMA ResolveReads ==
    ASSUME P!ProxyAssumption, P!MenuAssumption, P!FewAtOnce, ProxyTypeOK, ReadsInv, NEW q \in RequestIDs, P!Resolve(q)
    PROVE  ReadsInv'
  <1>1. /\ ProxyTypeOK' /\ Alone(q) /\ preq[q].pc = "resolve"
        /\ (preq'[q].calm <=> preq[q].calm) /\ \A e : In(e, pcache') => In(e, pcache)
        /\ \/ preq'[q].pc = "done" /\ preq[q].redirects > MaxRedirects
           \/ preq'[q].pc = "locate" /\ preq'[q].redirects = preq[q].redirects
           \/ /\ preq'[q].pc = "send" /\ preq'[q].redirects = preq[q].redirects
              /\ \E e : In(e, pcache) /\ e.key = TenantOf(q) /\ preq'[q].loc.instance = e.value
    BY ResolveEffect
  <1>2. preq[q].calm => Reaching(q)
    BY <1>1 DEF ReadsInv, InFlight
  <1>4. ~(preq'[q].pc = "done" /\ preq'[q].calm)
    <2> SUFFICES ASSUME preq'[q].pc = "done", preq[q].calm PROVE FALSE
      BY <1>1
    <2>1. preq[q].redirects > MaxRedirects /\ preq[q].redirects \in Nat /\ MaxRedirects \in Nat /\ Met(q) \in Nat
      BY <1>1 DEF ProxyTypeOK, ProxyCall, P!ProxyAssumption, Met
    <2>2. Cardinality(Threats(q)) \in Nat
      BY FewRivals
    <2>3. preq[q].redirects + Met(q) + Cardinality(Threats(q)) <= MaxRedirects
      BY <1>2 DEF Reaching
    <2>4. \A a, b, c, m \in Nat : ~(a > m /\ a + b + c <= m)
      OBVIOUS
    <2> QED
      BY <2>1, <2>2, <2>3, <2>4
  <1>5. ASSUME preq'[q].pc # "done", preq'[q].calm PROVE Reaching(q)'
    <2>1. Reaching(q) /\ preq'[q].redirects = preq[q].redirects /\ preq'[q].pc # "store"
      BY <1>1, <1>2, <1>5
    <2>2. serving' = serving /\ TenantOf(q)' = TenantOf(q)
      BY <1>1, SameTenant DEF Alone
    <2>3. Stale(q)' => Stale(q)
      <3>1. \A e : In(e, pcache)' => In(e, pcache)
        BY <1>1 DEF In
      <3> QED
        BY <1>1, <1>5, <2>2, <3>1 DEF Stale
    <2> QED
      BY <1>1, <2>1, <2>3, OwnReach
  <1> QED
    BY <1>1, <1>4, <1>5, RequestReads

\* A promised read is told where its tenant is.
LEMMA LocateReads ==
    ASSUME P!ProxyAssumption, P!MenuAssumption, P!FewAtOnce, ProxyTypeOK, ReadsInv, NEW q \in RequestIDs, P!Locate(q)
    PROVE  ReadsInv'
  <1>1. /\ ProxyTypeOK' /\ Alone(q) /\ pcache' = pcache /\ preq[q].pc = "locate"
        /\ (preq'[q].calm <=> preq[q].calm)
        /\ \/ preq'[q].pc = "done" /\ TenantOf(q) \notin DOMAIN dir
           \/ /\ preq'[q].pc = "store" /\ TenantOf(q) \in DOMAIN dir /\ preq'[q].redirects = preq[q].redirects
              /\ preq'[q].loc = dir[TenantOf(q)]
    BY LocateEffect
  <1>2. preq[q].calm => Reaching(q)
    BY <1>1 DEF ReadsInv, InFlight
  <1>5. ASSUME preq'[q].pc # "done", preq'[q].calm PROVE Reaching(q)'
    <2>1. Reaching(q) /\ preq'[q].redirects = preq[q].redirects /\ preq'[q].pc = "store"
      BY <1>1, <1>2, <1>5
    <2>2. serving' = serving /\ TenantOf(q)' = TenantOf(q)
      BY <1>1, SameTenant DEF Alone
    <2>3. Stale(q)' => Stale(q)
      BY <1>1, <2>1, <2>2 DEF Stale, In
    <2>4. preq'[q].loc.instance = serving[TenantOf(q)]
      BY <1>1, <2>1 DEF Reaching
    <2> QED
      BY <1>1, <2>1, <2>3, <2>4, OwnReach
  <1>6. ~(preq'[q].pc = "done" /\ preq'[q].calm)
    BY <1>1, <1>2 DEF Reaching
  <1> QED
    BY <1>1, <1>5, <1>6, RequestReads

\* A promised read puts a right entry into the cache.
LEMMA StoreReads ==
    ASSUME P!ProxyAssumption, P!MenuAssumption, P!FewAtOnce, ProxyTypeOK, ReadsInv, NEW q \in RequestIDs, P!Store(q)
    PROVE  ReadsInv'
  <1>1. /\ ProxyTypeOK' /\ Alone(q) /\ preq[q].pc = "store" /\ preq'[q].pc = "send"
        /\ (preq'[q].calm <=> preq[q].calm) /\ preq'[q].redirects = preq[q].redirects
        /\ preq'[q].loc.instance = preq[q].loc.instance
        /\ \A e : In(e, pcache') =>
               \/ In(e, pcache)
               \/ e.key = TenantOf(q) /\ e.value = preq[q].loc.instance /\ e.expires = Worth(q)
    BY StoreEffect
  <1>2. preq[q].calm => Reaching(q)
    BY <1>1 DEF ReadsInv, InFlight
  <1>6. ASSUME preq'[q].calm PROVE Reaching(q)'
    <2>1. Reaching(q)
      BY <1>1, <1>2, <1>6
    <2>2. serving' = serving /\ TenantOf(q)' = TenantOf(q)
      BY <1>1, SameTenant DEF Alone
    <2>3. preq'[q].loc.instance = serving[TenantOf(q)]
      BY <1>1, <2>1 DEF Reaching
    <2>4. Stale(q)' => Stale(q)
      <3>1. \A e : In(e, pcache)' => In(e, pcache')
        BY DEF In
      <3> QED
        BY <1>1, <2>2, <2>3, <3>1 DEF Stale
    <2> QED
      BY <1>1, <2>1, <2>4, OwnReach
  <1> QED
    BY <1>1, <1>6, RequestReads

\* A promised read that meets a 307 has met a stale location that was counted.
LEMMA SendReads ==
    ASSUME P!ProxyAssumption, P!MenuAssumption, P!FewAtOnce, ProxyTypeOK, ReadsInv, NEW q \in RequestIDs, P!Send(q)
    PROVE  ReadsInv'
  <1>1. /\ ProxyTypeOK' /\ Alone(q) /\ preq[q].pc = "send" /\ (preq'[q].calm <=> preq[q].calm)
        /\ \/ pcache' = pcache /\ preq'[q].pc = "done" /\ (requests[q].write \/ preq'[q].status = 200)
           \/ /\ preq'[q].pc = "resolve" /\ preq'[q].redirects = preq[q].redirects + 1
              /\ preq[q].loc.instance # serving[TenantOf(q)]
              /\ \A e : In(e, pcache') => In(e, pcache) /\ e.key # TenantOf(q)
    BY SendEffect
  <1>2. preq[q].calm => Reaching(q)
    BY <1>1 DEF ReadsInv, InFlight
  <1>4. ASSUME preq'[q].pc # "done", preq'[q].calm PROVE Reaching(q)'
    <2>1. /\ Reaching(q) /\ preq'[q].redirects = preq[q].redirects + 1 /\ preq'[q].pc = "resolve"
          /\ preq[q].loc.instance # serving[TenantOf(q)] /\ \A e : In(e, pcache') => e.key # TenantOf(q)
      BY <1>1, <1>2, <1>4
    <2>2. serving' = serving /\ TenantOf(q)' = TenantOf(q)
      BY <1>1, SameTenant DEF Alone
    <2>3. Stale(q)
      BY <1>1, <2>1 DEF Stale
    <2>4. ~Stale(q)'
      <3>1. \A e : In(e, pcache)' => In(e, pcache')
        BY DEF In
      <3> QED
        BY <2>1, <2>2, <3>1 DEF Stale
    <2> QED
      BY <1>1, <2>1, <2>3, <2>4, OwnReach
  <1> QED
    BY <1>1, <1>4, RequestReads

\* A failed request is promised nothing.
LEMMA FaultReads ==
    ASSUME P!ProxyAssumption, P!FewAtOnce, ProxyTypeOK, ReadsInv, NEW q \in RequestIDs, P!Fault(q)
    PROVE  ReadsInv'
  <1>1. ProxyTypeOK' /\ Alone(q) /\ pcache' = pcache /\ preq'[q].pc = "done" /\ ~preq'[q].calm
    BY FaultEffect
  <1> QED
    BY <1>1, RequestReads

\* What happens elsewhere keeps the promises that it does not take back.
LEMMA ElsewhereReads ==
    ASSUME P!ProxyAssumption, ProxyTypeOK, ReadsInv, Elsewhere
    PROVE  ReadsInv'
  <1>1. \A r \in RequestIDs : Reaching(r) =>
            /\ TenantOf(r) \in DOMAIN dir /\ dir[TenantOf(r)].instance = serving[TenantOf(r)] /\ serving[TenantOf(r)] # "none" /\ TenantOf(r) \in P!Known
    BY TenantsKnown DEF Reaching, ProxyTypeOK, P!ProxyAssumption
  <1>2. ASSUME NEW t \in P!Known, P!Quiesce(t) PROVE ReadsInv'
    <2>1. /\ Outside /\ DOMAIN dir' = DOMAIN dir /\ \A u \in DOMAIN dir : dir'[u].instance = dir[u].instance
          /\ \A r \in RequestIDs : preq'[r].calm => serving'[TenantOf(r)] = serving[TenantOf(r)]
      BY <1>2, QuiesceEffect
    <2> QED
      BY <1>1, <2>1, OutsideReads
  <1>3. ASSUME NEW t \in P!Known, P!Learn(t) PROVE ReadsInv'
    <2>1. /\ Outside /\ serving' = serving /\ DOMAIN dir \subseteq DOMAIN dir'
          /\ \A u \in DOMAIN dir' : \/ dir'[u].instance = serving[u]
                                    \/ u \in DOMAIN dir /\ dir'[u].instance = dir[u].instance
      BY <1>3, LearnEffect
    <2> QED
      BY <1>1, <2>1, OutsideReads
  <1>4. ASSUME NEW t \in P!Known, P!Forget(t) PROVE ReadsInv'
    <2>1. /\ Outside /\ serving' = serving /\ DOMAIN dir' = DOMAIN dir \ {t} /\ \A u \in DOMAIN dir' : dir'[u] = dir[u]
          /\ \A r \in RequestIDs : preq'[r].calm => TenantOf(r) # t
      BY <1>4, ForgetEffect
    <2> QED
      BY <1>1, <2>1, OutsideReads
  <1>5. ASSUME NEW t \in P!Known, NEW i \in Instances, P!Activate(t, i) PROVE ReadsInv'
    <2>1. Outside /\ dir' = dir /\ \A u \in P!Known : serving'[u] # serving[u] => serving[u] = "none"
      BY <1>5, ActivateEffect
    <2> QED
      BY <1>1, <2>1, OutsideReads
  <1>6. ASSUME P!Tick PROVE ReadsInv'
    <2>1. Outside /\ UNCHANGED <<serving, dir>>
      BY <1>6, TickEffect
    <2> QED
      BY <1>1, <2>1, OutsideReads
  <1> QED
    BY <1>2, <1>3, <1>4, <1>5, <1>6 DEF Elsewhere

\* At first the cache is empty and nothing is promised.
LEMMA ProxyStarts == ASSUME P!ProxyAssumption, P!Init PROVE ProxyTypeOK /\ TimeInv /\ ReadsInv
  <1>1. PICK i : i = CHOOSE j \in Instances : TRUE
    OBVIOUS
  <1>2. i \in Instances
    BY <1>1 DEF P!ProxyAssumption
  <1>3. PICK idle : idle = P!Idle
    OBVIOUS
  <1>4. idle \in ProxyCall /\ idle.pc = "new" /\ ~idle.calm /\ idle.redirects = 0
    <2>1. PICK f \in BOOLEAN : f = FALSE
      OBVIOUS
    <2>2. PICK loc : loc = [instance |-> "none", StableUntil |-> 0]
      OBVIOUS
    <2>3. idle = [pc |-> "new", redirects |-> 0, loc |-> loc, spent |-> f, calm |-> f, status |-> 0]
      BY <1>3, <2>1, <2>2, Zenon DEF P!Idle
    <2>4. loc \in [instance : Instances \cup {"none"}, StableUntil : Int]
      BY <2>2
    <2>5. idle \in ProxyCall /\ idle.pc = "new" /\ idle.calm = f /\ idle.redirects = 0
      BY <2>3, <2>4 DEF ProxyCall
    <2> QED
      BY <2>1, <2>5
  <1>5. /\ deploy \in Deployments /\ requests \in Menus /\ pcache = <<>> /\ pnow = 0
        /\ serving = [t \in P!Known |-> i]
        /\ changed = [t \in P!Known |-> 0]
        /\ preq = [r \in RequestIDs |-> idle]
    BY <1>1, <1>3 DEF P!Init
  <1>6. DOMAIN dir = P!Known /\ \A t \in P!Known : dir[t] = [instance |-> serving[t], StableUntil |-> DirectoryTTL]
    BY DEF P!Init
  <1>7. DirectoryTTL \in Nat /\ CacheSize \in Nat
    BY DEF P!ProxyAssumption
  <1>8. serving \in [P!Known -> Instances \cup {"none"}] /\ changed \in [P!Known -> Nat] /\ preq \in [RequestIDs -> ProxyCall]
    BY <1>2, <1>4, <1>5
  <1>9. \A t \in DOMAIN dir : dir[t] \in [instance : Instances, StableUntil : Int] /\ dir[t].StableUntil = DirectoryTTL
    <2>1. \A t \in P!Known : serving[t] \in Instances
      BY <1>2, <1>5
    <2> QED
      BY <1>6, <1>7, <2>1
  <1>10. List(pcache) /\ Len(pcache) = 0 /\ \A e : ~In(e, pcache)
    BY <1>5 DEF List, In
  <1>11. \A r \in RequestIDs : preq[r].pc = "new" /\ ~preq[r].calm /\ preq[r].redirects = 0
    BY <1>4, <1>5
  <1>12. ProxyTypeOK
    BY <1>5, <1>6, <1>7, <1>8, <1>9, <1>10, <1>11 DEF ProxyTypeOK, InFlight
  <1>13. TimeInv
    BY <1>5, <1>7, <1>9, <1>10, <1>11 DEF TimeInv
  <1>14. ReadsInv
    BY <1>10, <1>11 DEF ReadsInv, P!ReadsReach, InFlight
  <1> QED
    BY <1>12, <1>13, <1>14

\* An entry that is served has not outlived its time.
LEMMA FreshBounded == ASSUME P!ProxyAssumption, ProxyTypeOK, TimeInv PROVE P!StaleBounded
  <1>2. List(pcache) /\ Len(pcache) <= CacheSize /\ pnow \in Nat /\ changed \in [P!Known -> Nat]
        /\ CacheSize \in Nat
    BY DEF ProxyTypeOK, P!ProxyAssumption
  <1>3. DOMAIN pcache = 1..Len(pcache) /\ pcache \in Seq(CachedLocation)
    BY <1>2, LenProperties DEF List
  <1>4. ASSUME NEW i \in DOMAIN pcache, NEW t, t = pcache[i].key,
               t \in DOMAIN dir, P!hit(pcache, t), pcache[i].value # dir[t].instance
        PROVE  pnow <= changed[t] + (IF deploy.embedded THEN CacheTTL ELSE DirectoryTTL)
    <2>1. PICK k : k = P!At(pcache, t)
      OBVIOUS
    <2>2. k \in DOMAIN pcache /\ pcache[k].key = t
      BY <1>4, <2>1 DEF P!At
    <2>3. k = i
      BY <1>2, <1>3, <1>4, <2>2 DEF List
    <2>4. pcache[i] \in CachedLocation /\ In(pcache[i], pcache)
      BY <1>3, ElementOfSeq DEF In
    <2>5. pcache[i].expires \in Int /\ t \in P!Known
      BY <1>4, <2>4 DEF CachedLocation
    <2>6. ~(pnow > pcache[i].expires)
      BY <1>4, <2>1, <2>3 DEF P!hit, P!expired
    <2>7. pcache[i].expires <= changed[t] + Bound
      BY <1>4, <2>4 DEF TimeInv, Fresh
    <2>8. Bound \in Nat /\ changed[t] \in Nat
      BY <1>2, <2>5, BoundNatural
    <2>9. pnow <= changed[t] + Bound
      BY <1>2, <2>5, <2>6, <2>7, <2>8
    <2> QED
      BY <2>9 DEF Bound
  <1> QED
    BY <1>2, <1>3, <1>4 DEF P!StaleBounded, List

\* A location is served for a bounded time after the directory has learned
\* better, for any number of requests and moves, and the LRU list keeps its
\* shape (locationCache, HTTPResolver.Locate, RegistryResolver.Locate).
THEOREM LocationsExpire == P!Spec => [](ProxyTypeOK /\ TimeInv /\ P!StaleBounded)
  <1> P!ProxyAssumption /\ P!MenuAssumption
    BY EdgeAssumption
  <1>1. P!Init => ProxyTypeOK /\ TimeInv
    BY ProxyStarts
  <1>2. ProxyTypeOK /\ TimeInv /\ [P!Next]_P!vars => ProxyTypeOK' /\ TimeInv'
    <2> SUFFICES ASSUME ProxyTypeOK, TimeInv, [P!Next]_P!vars PROVE ProxyTypeOK' /\ TimeInv'
      OBVIOUS
    <2>1. CASE UNCHANGED P!vars
      <3>1. ProxyTypeOK' /\ Outside /\ UNCHANGED <<dir, changed, pnow>>
        BY <2>1, AtRest
      <3>2. pnow' >= pnow
        BY <3>1 DEF ProxyTypeOK
      <3> QED
        BY <3>1, <3>2, OutsideTime DEF TimeInv
    <2>2. ASSUME NEW q \in RequestIDs, P!Step(q) \/ P!Fault(q) PROVE ProxyTypeOK' /\ TimeInv'
      BY <2>2, RequestTimed
    <2>3. CASE Elsewhere
      BY <2>3, ElsewhereTimed
    <2> QED
      BY <2>1, <2>2, <2>3 DEF P!Next, Elsewhere
  <1>3. ProxyTypeOK /\ TimeInv => P!StaleBounded
    BY FreshBounded
  <1> QED
    BY <1>1, <1>2, <1>3, PTL DEF P!Spec

\* A promised read succeeds though other requests put stale answers back into
\* the cache, as long as no more requests for a tenant are under way at once
\* than redirects are allowed (ServeHTTP, forward).
THEOREM ReadsSucceed == P!Spec /\ []P!FewAtOnce => []ProxyReads
  <1> P!ProxyAssumption /\ P!MenuAssumption
    BY EdgeAssumption
  <1>1. P!Init => ReadsInv
    BY ProxyStarts
  <1>2. ProxyTypeOK /\ ReadsInv /\ P!FewAtOnce /\ P!FewAtOnce' /\ [P!Next]_P!vars => ReadsInv'
    <2> SUFFICES ASSUME ProxyTypeOK, ReadsInv, P!FewAtOnce, P!FewAtOnce', [P!Next]_P!vars PROVE ReadsInv'
      OBVIOUS
    <2>1. CASE UNCHANGED P!vars
      BY <2>1, AtRest, OutsideReads DEF Reaching
    <2>2. ASSUME NEW q \in RequestIDs, P!Step(q) \/ P!Fault(q) PROVE ReadsInv'
      BY <2>2, ArriveReads, ResolveReads, LocateReads, StoreReads, SendReads, FaultReads DEF P!Step
    <2>3. CASE Elsewhere
      BY <2>3, ElsewhereReads
    <2> QED
      BY <2>1, <2>2, <2>3 DEF P!Next, Elsewhere
  <1>3. ReadsInv /\ P!StaleBounded => ProxyReads
    BY DEF ProxyReads, ReadsInv, P!ProxyReads
  <1> QED
    BY <1>1, <1>2, <1>3, LocationsExpire, PTL DEF P!Spec
=============================================================================
