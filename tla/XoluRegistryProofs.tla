------------------------- MODULE XoluRegistryProofs -------------------------
(***************************************************************************)
(* The xolu-backed registry implements the ownership specification, for    *)
(* any number of concurrent callers, lost answers and crashes, and what it *)
(* tells callers, subscribers and the event log is never undone.           *)
(*                                                                         *)
(* The argument: a call that is about to write either creates a document   *)
(* for a GlobalID that only it has, or holds a version not newer than the  *)
(* stored one, and when it is the stored one then what it is about to      *)
(* write is a legal change of what is stored (CallsInv).  xolu accepts the *)
(* write only when the versions agree.                                     *)
(***************************************************************************)
EXTENDS XoluRegistry, RecordsProofs

\* Put keeps the documents well typed.
LEMMA PutDocType ==
    ASSUME NEW g \in GlobalIDs, NEW doc \in Doc, TypeOK
    PROVE  /\ DOMAIN Put(docs, g, doc) \subseteq GlobalIDs
           /\ Put(docs, g, doc) \in [DOMAIN Put(docs, g, doc) -> Doc]
    BY DEF Put, TypeOK

\* What a call about to write holds, and what the write stores.
LEMMA WriterType ==
    ASSUME TypeOK, NEW p \in Callers, calls[p].at \in {"create", "save"}
    PROVE  /\ calls[p].gid \in GlobalIDs
           /\ calls[p].rec \in Record
           /\ calls[p].at = "save" => calls[p].version \in Nat
           /\ DOMAIN Written(calls[p]) \subseteq GlobalIDs
           /\ Written(calls[p]) \in [DOMAIN Written(calls[p]) -> Doc]
  <1>1. calls[p] \in Call
    BY DEF TypeOK
  <1>2. /\ calls[p].gid \in GlobalIDs
        /\ calls[p].rec \in Record
        /\ calls[p].at = "save" => calls[p].version \in Nat
    BY <1>1 DEF Call
  <1>3. CASE calls[p].at = "create"
    <2>1. [rec |-> calls[p].rec, version |-> 1] \in Doc
      BY <1>2 DEF Doc
    <2> QED
      BY <1>2, <1>3, <2>1, PutDocType DEF Written
  <1>4. CASE calls[p].at = "save"
    <2>1. [rec |-> calls[p].rec, version |-> calls[p].version + 1] \in Doc
      BY <1>2, <1>4 DEF Doc
    <2> QED
      BY <1>2, <1>4, <2>1, PutDocType DEF Written
  <1> QED
    BY <1>3, <1>4

\* Neither answer has a field of a Record, so what is told has an empty one.
LEMMA OutcomeType ==
    ASSUME NEW call, call.gid \in GlobalIDs, call.rec \in Record
    PROVE  Outcome(call) \in Snapshot
  <1>1. fromXoluResult(Answer(call)) = EmptyRecord
    BY DEF fromXoluResult, Answer, EmptyRecord
  <1> QED
    BY <1>1 DEF Outcome, Snapshot

\* Type correctness of the xolu-backed registry.
THEOREM XoluTypeCorrect == Spec => []TypeOK
  <1> USE XoluBoundsAssumption
  <1>1. Init => TypeOK
    BY DEF Init, TypeOK, Call, Idle
  <1>2. TypeOK /\ [Next]_vars => TypeOK'
    <2> SUFFICES ASSUME TypeOK, [Next]_vars PROVE TypeOK'
      OBVIOUS
    <2>0. Idle \in Call
      BY DEF Idle, Call
    <2>1. ASSUME NEW p \in Callers, NEW g \in GlobalIDs, NEW owner \in LocalRefs,
                 RegisterCheck(p, g, owner)
          PROVE  TypeOK'
      <3>1. [at |-> "create", gid |-> g, rec |-> NewRecord(owner)] \in Call
        BY NewRecordType DEF Call
      <3> QED
        BY <2>1, <3>1 DEF RegisterCheck, TypeOK
    <2>2. ASSUME NEW p \in Callers, NEW g \in GlobalIDs, NEW from \in LocalRefs,
                 NEW to \in LocalRefs, NEW protocol \in Protocols,
                 TransferCheck(p, g, from, to, protocol)
          PROVE  TypeOK'
      <3>1. docs[g] \in Doc
        BY <2>2 DEF TransferCheck, MayTransfer, Stored, TypeOK
      <3>2. docs[g].rec \in Record /\ docs[g].version \in Nat
        BY <3>1 DEF Doc
      <3>3. Transferred(docs[g].rec, from, to, protocol) \in Record
        BY <3>2, TransferredRecord
      <3>4. [at |-> "save", gid |-> g, version |-> docs[g].version,
             rec |-> Transferred(docs[g].rec, from, to, protocol)] \in Call
        BY <3>2, <3>3 DEF Call
      <3> QED
        BY <2>2, <3>4 DEF TransferCheck, TypeOK
    <2>3. ASSUME NEW p \in Callers, NEW g \in GlobalIDs, RetireCheck(p, g)
          PROVE  TypeOK'
      <3>1. docs[g] \in Doc
        BY <2>3 DEF RetireCheck, MayRetire, Stored, TypeOK
      <3>2. docs[g].rec \in Record /\ docs[g].version \in Nat
        BY <3>1 DEF Doc
      <3>3. Retired(docs[g].rec) \in Record
        BY <3>2, RetiredRecord
      <3>4. [at |-> "save", gid |-> g, version |-> docs[g].version,
             rec |-> Retired(docs[g].rec)] \in Call
        BY <3>2, <3>3 DEF Call
      <3> QED
        BY <2>3, <3>4 DEF RetireCheck, TypeOK
    <2>4. ASSUME NEW p \in Callers, WriteOK(p) PROVE TypeOK'
      <3>1. calls[p].at \in {"create", "save"}
        BY <2>4 DEF WriteOK
      <3>2. [at |-> "send", what |-> Outcome(calls[p]), todo |-> subs] \in Call
        BY <3>1, WriterType, OutcomeType DEF Call, TypeOK
      <3>3. /\ DOMAIN docs' \subseteq GlobalIDs
            /\ docs' \in [DOMAIN docs' -> Doc]
        BY <2>4, <3>1, WriterType DEF WriteOK
      <3> QED
        BY <2>4, <3>2, <3>3 DEF WriteOK, TypeOK
    <2>5. ASSUME NEW p \in Callers, WriteConflict(p) \/ WriteFails(p) PROVE TypeOK'
      BY <2>0, <2>5 DEF WriteConflict, WriteFails, TypeOK
    <2>6. ASSUME NEW p \in Callers, WriteReplyLost(p) PROVE TypeOK'
      <3>1. /\ DOMAIN docs' \subseteq GlobalIDs
            /\ docs' \in [DOMAIN docs' -> Doc]
        BY <2>6, WriterType DEF WriteReplyLost
      <3> QED
        BY <2>0, <2>6, <3>1 DEF WriteReplyLost, TypeOK
    <2>7. ASSUME NEW p \in Callers, NEW c \in Channels, Send(p, c) PROVE TypeOK'
      <3>1. calls[p] \in Call /\ calls[p].at = "send"
        BY <2>7 DEF Send, TypeOK
      <3>2. /\ calls[p].what \in Snapshot
            /\ calls[p].todo \subseteq Channels
            /\ [calls[p] EXCEPT !.todo = @ \ {c}] \in Call
        BY <3>1 DEF Call
      <3>4. chan' \in [Channels -> Seq(Snapshot)]
        BY <2>7, <3>2 DEF Send, TypeOK
      <3>5. calls' \in [Callers -> Call]
        BY <2>7, <3>2 DEF Send, TypeOK
      <3> QED
        BY <2>7, <3>4, <3>5 DEF Send, TypeOK
    <2>8. ASSUME NEW p \in Callers, Return(p) PROVE TypeOK'
      <3>1. calls[p] \in Call /\ calls[p].at = "send"
        BY <2>8 DEF Return, TypeOK
      <3>2. calls[p].what \in Snapshot
        BY <3>1 DEF Call
      <3> QED
        BY <2>0, <2>8, <3>2 DEF Return, TypeOK
    <2>9. ASSUME NEW c \in Channels, Subscribe(c) \/ Cancel(c) PROVE TypeOK'
      <3>1. <<>> \in Seq(Snapshot)
        OBVIOUS
      <3>2. chan' \in [Channels -> Seq(Snapshot)] /\ subs' \subseteq Channels
        BY <2>9, <3>1 DEF Subscribe, Cancel, TypeOK
      <3> QED
        BY <2>9, <3>2 DEF Subscribe, Cancel, TypeOK
    <2>10. ASSUME NEW c \in Channels, Receive(c) PROVE TypeOK'
      <3>1. chan' \in [Channels -> Seq(Snapshot)]
        BY <2>10 DEF Receive, TypeOK
      <3> QED
        BY <2>10, <3>1 DEF Receive, TypeOK
    <2>11. ASSUME NEW what \in appending, AppendEvent(what) PROVE TypeOK'
      BY <2>11 DEF AppendEvent, TypeOK
    <2>12. CASE Crash
      BY <2>0, <2>12 DEF Crash, TypeOK
    <2>13. CASE UNCHANGED vars
      BY <2>13 DEF vars, TypeOK
    <2> QED
      BY <2>1, <2>2, <2>3, <2>4, <2>5, <2>6, <2>7, <2>8, <2>9, <2>10, <2>11,
         <2>12, <2>13 DEF Next
  <1> QED
    BY <1>1, <1>2, PTL DEF Spec

-----------------------------------------------------------------------------
\* What the write of a call makes of the documents when xolu accepts it.
LEMMA WrittenDocs ==
    ASSUME TypeOK, CallsInv, NEW p \in Callers, calls[p].at \in {"create", "save"},
           Accepts(calls[p])
    PROVE  LET new == Written(calls[p])
               gid == calls[p].gid
           IN  /\ DOMAIN new = DOMAIN docs \cup {gid}
               /\ new[gid].rec = calls[p].rec
               /\ calls[p].at = "save" =>
                      gid \in DOMAIN docs /\ new[gid].version = docs[gid].version + 1
               /\ \A g \in DOMAIN docs \ {gid} : new[g] = docs[g]
  <1>1. CASE calls[p].at = "create"
    BY <1>1 DEF Written, Put
  <1>2. CASE calls[p].at = "save"
    <2>1. calls[p].gid \in DOMAIN docs
      BY <1>2 DEF CallsInv, SavesAreLegal
    <2>2. docs[calls[p].gid].version = calls[p].version
      BY <1>2 DEF Accepts
    <2> QED
      BY <1>2, <2>1, <2>2 DEF Written, Put
  <1> QED
    BY <1>1, <1>2

\* A step that only lets calls leave their writing stage keeps CallsInv.
LEMMA LeavingKeepsCallsInv ==
    ASSUME CallsInv, UNCHANGED <<docs, minted>>,
           \A q \in Callers : calls'[q] = calls[q] \/ calls'[q].at \notin {"create", "save"}
    PROVE  CallsInv'
  <1>1. CreatesAreFresh'
    BY DEF CallsInv, CreatesAreFresh
  <1>2. SavesAreLegal'
    BY DEF CallsInv, SavesAreLegal
  <1> QED
    BY <1>1, <1>2 DEF CallsInv

\* So does an accepted write.
LEMMA WritingKeepsCallsInv ==
    ASSUME TypeOK, CallsInv, NEW p \in Callers, calls[p].at \in {"create", "save"},
           Accepts(calls[p]), docs' = Written(calls[p]), UNCHANGED minted,
           calls'[p].at \notin {"create", "save"},
           \A q \in Callers \ {p} : calls'[q] = calls[q]
    PROVE  CallsInv'
  <1> DEFINE gid == calls[p].gid
  <1>1. /\ DOMAIN docs' = DOMAIN docs \cup {gid}
        /\ calls[p].at = "save" =>
               gid \in DOMAIN docs /\ docs'[gid].version = docs[gid].version + 1
        /\ \A g \in DOMAIN docs \ {gid} : docs'[g] = docs[g]
    BY WrittenDocs
  <1>2. gid \in minted
    BY <1>1 DEF CallsInv, CreatesAreFresh
  <1>3. DOMAIN docs' \subseteq minted'
    BY <1>1, <1>2 DEF CallsInv
  <1>4. CreatesAreFresh'
    <2> SUFFICES ASSUME NEW q \in Callers, calls'[q].at = "create"
                 PROVE  /\ calls'[q].gid \in minted' \ DOMAIN docs'
                        /\ \E owner \in LocalRefs : calls'[q].rec = NewRecord(owner)
                        /\ \A r \in Callers : (calls'[r].at = "create" /\ calls'[r].gid = calls'[q].gid) => r = q
      BY DEF CreatesAreFresh
    <2>1. q # p /\ calls'[q] = calls[q]
      OBVIOUS
    <2>2. calls[q].gid # gid
      BY <1>1, <2>1 DEF CallsInv, CreatesAreFresh
    <2> QED
      BY <1>1, <2>1, <2>2 DEF CallsInv, CreatesAreFresh
  <1>5. SavesAreLegal'
    <2> SUFFICES ASSUME NEW q \in Callers, calls'[q].at = "save"
                 PROVE  /\ calls'[q].gid \in DOMAIN docs'
                        /\ calls'[q].version <= docs'[calls'[q].gid].version
                        /\ calls'[q].version = docs'[calls'[q].gid].version =>
                               LegalChange(docs'[calls'[q].gid].rec, calls'[q].rec)
      BY DEF SavesAreLegal
    <2>1. calls'[q] = calls[q]
      OBVIOUS
    <2>2. /\ calls[q].gid \in DOMAIN docs
          /\ calls[q].version <= docs[calls[q].gid].version
          /\ calls[q].version = docs[calls[q].gid].version =>
                 LegalChange(docs[calls[q].gid].rec, calls[q].rec)
      BY <2>1 DEF CallsInv, SavesAreLegal
    <2>3. CASE calls[q].gid # gid
      BY <1>1, <2>1, <2>2, <2>3
    <2>4. CASE calls[q].gid = gid
      <3>1. calls[p].at = "save"
        BY <2>2, <2>4 DEF CallsInv, CreatesAreFresh
      <3>2. docs[gid].version \in Nat /\ calls[q].version \in Nat
        <4>1. docs[gid] \in Doc
          BY <2>2, <2>4 DEF TypeOK
        <4>2. calls[q].version \in Nat
          BY <2>1, WriterType
        <4> QED
          BY <4>1, <4>2 DEF Doc
      <3>3. docs'[gid].version = docs[gid].version + 1
        BY <1>1, <3>1
      <3>4. calls[q].version < docs'[gid].version
        BY <2>2, <2>4, <3>2, <3>3
      <3> QED
        BY <1>1, <2>1, <2>4, <3>2, <3>3, <3>4
    <2> QED
      BY <2>3, <2>4
  <1> QED
    BY <1>3, <1>4, <1>5 DEF CallsInv

\* The calls invariant: see CallsInv in XoluRegistry.
THEOREM CallsAreLegal == Spec => []CallsInv
  <1>1. Init => CallsInv
    BY DEF Init, Idle, CallsInv, CreatesAreFresh, SavesAreLegal
  <1>2. TypeOK /\ CallsInv /\ [Next]_vars => CallsInv'
    <2> SUFFICES ASSUME TypeOK, CallsInv, [Next]_vars PROVE CallsInv'
      OBVIOUS
    <2>0. DOMAIN calls = Callers
      BY DEF TypeOK
    <2>1. ASSUME NEW p \in Callers, NEW g \in GlobalIDs, NEW owner \in LocalRefs,
                 RegisterCheck(p, g, owner)
          PROVE  CallsInv'
      <3>1. /\ g \notin minted /\ g \notin DOMAIN docs
            /\ minted' = minted \cup {g} /\ docs' = docs
            /\ calls'[p] = [at |-> "create", gid |-> g, rec |-> NewRecord(owner)]
            /\ \A q \in Callers \ {p} : calls'[q] = calls[q]
        BY <2>0, <2>1 DEF RegisterCheck
      <3>2. \A q \in Callers \ {p} : calls[q].at = "create" => calls[q].gid # g
        BY <3>1 DEF CallsInv, CreatesAreFresh
      <3>3. CreatesAreFresh'
        BY <3>1, <3>2 DEF CallsInv, CreatesAreFresh
      <3>4. SavesAreLegal'
        BY <3>1 DEF CallsInv, SavesAreLegal
      <3> QED
        BY <3>1, <3>3, <3>4 DEF CallsInv
    <2>2. ASSUME NEW p \in Callers, NEW g \in GlobalIDs, NEW from \in LocalRefs,
                 NEW to \in LocalRefs, NEW protocol \in Protocols,
                 TransferCheck(p, g, from, to, protocol)
          PROVE  CallsInv'
      <3>1. /\ g \in DOMAIN docs
            /\ UNCHANGED <<minted, docs>>
            /\ calls'[p] = [at |-> "save", gid |-> g, version |-> docs[g].version,
                            rec |-> Transferred(docs[g].rec, from, to, protocol)]
            /\ \A q \in Callers \ {p} : calls'[q] = calls[q]
        BY <2>0, <2>2 DEF TransferCheck, MayTransfer, Stored
      <3>2. LegalChange(docs[g].rec, Transferred(docs[g].rec, from, to, protocol))
        BY <2>2 DEF TransferCheck, MayTransfer, Stored, LegalChange
      <3>3. docs[g].version <= docs[g].version
        <4>1. docs[g] \in Doc
          BY <3>1 DEF TypeOK
        <4> QED
          BY <4>1 DEF Doc
      <3>4. CreatesAreFresh'
        BY <3>1 DEF CallsInv, CreatesAreFresh
      <3>5. SavesAreLegal'
        BY <3>1, <3>2, <3>3 DEF CallsInv, SavesAreLegal
      <3> QED
        BY <3>1, <3>4, <3>5 DEF CallsInv
    <2>3. ASSUME NEW p \in Callers, NEW g \in GlobalIDs, RetireCheck(p, g)
          PROVE  CallsInv'
      <3>1. /\ g \in DOMAIN docs
            /\ UNCHANGED <<minted, docs>>
            /\ calls'[p] = [at |-> "save", gid |-> g, version |-> docs[g].version,
                            rec |-> Retired(docs[g].rec)]
            /\ \A q \in Callers \ {p} : calls'[q] = calls[q]
        BY <2>0, <2>3 DEF RetireCheck, MayRetire, Stored
      <3>2. LegalChange(docs[g].rec, Retired(docs[g].rec))
        BY <2>3 DEF RetireCheck, MayRetire, Stored, LegalChange
      <3>3. docs[g].version <= docs[g].version
        <4>1. docs[g] \in Doc
          BY <3>1 DEF TypeOK
        <4> QED
          BY <4>1 DEF Doc
      <3>4. CreatesAreFresh'
        BY <3>1 DEF CallsInv, CreatesAreFresh
      <3>5. SavesAreLegal'
        BY <3>1, <3>2, <3>3 DEF CallsInv, SavesAreLegal
      <3> QED
        BY <3>1, <3>4, <3>5 DEF CallsInv
    <2>4. ASSUME NEW p \in Callers, WriteOK(p) \/ WriteReplyLost(p) PROVE CallsInv'
      <3>1. /\ calls[p].at \in {"create", "save"}
            /\ Accepts(calls[p])
            /\ docs' = Written(calls[p])
            /\ UNCHANGED minted
        BY <2>4 DEF WriteOK, WriteReplyLost
      <3>2. /\ calls'[p].at \notin {"create", "save"}
            /\ \A q \in Callers \ {p} : calls'[q] = calls[q]
        BY <2>0, <2>4 DEF WriteOK, WriteReplyLost, Idle
      <3> QED
        BY <3>1, <3>2, WritingKeepsCallsInv
    <2>5. ASSUME NEW p \in Callers,
                 WriteConflict(p) \/ WriteFails(p) \/ Return(p)
                    \/ \E c \in Channels : Send(p, c)
          PROVE  CallsInv'
      <3>1. \A q \in Callers : calls'[q] = calls[q] \/ calls'[q].at \notin {"create", "save"}
        <4>1. CASE WriteConflict(p) \/ WriteFails(p) \/ Return(p)
          BY <2>0, <4>1 DEF WriteConflict, WriteFails, Return, Idle
        <4>2. ASSUME NEW c \in Channels, Send(p, c)
              PROVE  \A q \in Callers :
                         calls'[q] = calls[q] \/ calls'[q].at \notin {"create", "save"}
          <5>1. calls[p] \in Call /\ calls[p].at = "send"
            BY <4>2 DEF Send, TypeOK
          <5>2. [calls[p] EXCEPT !.todo = @ \ {c}].at = "send"
            BY <5>1 DEF Call
          <5>3. calls' = [calls EXCEPT ![p] = [calls[p] EXCEPT !.todo = @ \ {c}]]
            BY <4>2 DEF Send
          <5> QED
            BY <2>0, <5>2, <5>3
        <4> QED
          BY <2>5, <4>1, <4>2
      <3> QED
        BY <2>5, <3>1, LeavingKeepsCallsInv DEF WriteConflict, WriteFails, Return, Send
    <2>6. CASE (\E c \in Channels : Subscribe(c) \/ Cancel(c) \/ Receive(c))
               \/ (\E what \in appending : AppendEvent(what)) \/ UNCHANGED vars
      BY <2>6, LeavingKeepsCallsInv DEF Subscribe, Cancel, Receive, AppendEvent, vars
    <2>7. CASE Crash
      BY <2>7, LeavingKeepsCallsInv DEF Crash, Idle
    <2> QED
      BY <2>1, <2>2, <2>3, <2>4, <2>5, <2>6, <2>7 DEF Next
  <1> QED
    BY <1>1, <1>2, XoluTypeCorrect, PTL DEF Spec
-----------------------------------------------------------------------------
\* The documents change only by the write of a call that xolu accepts.
LEMMA DocsStep ==
    ASSUME [Next]_vars
    PROVE  \/ UNCHANGED docs
           \/ \E p \in Callers : /\ calls[p].at \in {"create", "save"}
                                 /\ Accepts(calls[p])
                                 /\ docs' = Written(calls[p])
  <1>1. ASSUME NEW p \in Callers, WriteOK(p) \/ WriteReplyLost(p)
        PROVE  /\ calls[p].at \in {"create", "save"}
               /\ Accepts(calls[p])
               /\ docs' = Written(calls[p])
    BY <1>1 DEF WriteOK, WriteReplyLost
  <1>2. ASSUME NEW p \in Callers,
               \/ WriteConflict(p) \/ WriteFails(p) \/ Return(p)
               \/ \E c \in Channels : Send(p, c)
        PROVE  UNCHANGED docs
    BY <1>2 DEF WriteConflict, WriteFails, Return, Send
  <1>3. ASSUME NEW p \in Callers, NEW g \in GlobalIDs,
               \/ \E owner \in LocalRefs : RegisterCheck(p, g, owner)
               \/ \E from, to \in LocalRefs, protocol \in Protocols :
                      TransferCheck(p, g, from, to, protocol)
               \/ RetireCheck(p, g)
        PROVE  UNCHANGED docs
    BY <1>3 DEF RegisterCheck, TransferCheck, RetireCheck
  <1>4. ASSUME \/ \E c \in Channels : Subscribe(c) \/ Cancel(c) \/ Receive(c)
               \/ \E what \in appending : AppendEvent(what)
               \/ Crash
               \/ UNCHANGED vars
        PROVE  UNCHANGED docs
    BY <1>4 DEF Subscribe, Cancel, Receive, AppendEvent, Crash, vars
  <1> QED
    BY <1>1, <1>2, <1>3, <1>4, Zenon DEF Next

\* A stored record is kept or legally changed by every step.
LEMMA RecordStep ==
    ASSUME TypeOK, CallsInv, [Next]_vars, NEW g \in DOMAIN docs
    PROVE  /\ g \in DOMAIN docs'
           /\ docs'[g] = docs[g] \/ LegalChange(docs[g].rec, docs'[g].rec)
  <1>1. CASE UNCHANGED docs
    BY <1>1
  <1>2. ASSUME NEW p \in Callers, calls[p].at \in {"create", "save"}, Accepts(calls[p]),
               docs' = Written(calls[p])
        PROVE  /\ g \in DOMAIN docs'
               /\ docs'[g] = docs[g] \/ LegalChange(docs[g].rec, docs'[g].rec)
    <2>1. /\ g \in DOMAIN docs'
          /\ docs'[calls[p].gid].rec = calls[p].rec
          /\ g # calls[p].gid => docs'[g] = docs[g]
      BY <1>2, WrittenDocs
    <2>2. CASE g = calls[p].gid
      <3>1. calls[p].at = "save"
        BY <1>2, <2>2 DEF CallsInv, CreatesAreFresh
      <3>2. LegalChange(docs[g].rec, calls[p].rec)
        BY <1>2, <2>2, <3>1 DEF CallsInv, SavesAreLegal, Accepts
      <3> QED
        BY <2>1, <2>2, <3>2
    <2> QED
      BY <2>1, <2>2
  <1> QED
    BY <1>1, <1>2, DocsStep

\* The xolu-backed registry implements the ownership specification: an
\* accepted write is a Register, Transfer or Retire of the stored records
\* and every other step leaves them alone.
THEOREM XoluImplementsOwnership == Spec => ImplementsOwnership
  <1>1. Init => Abstract!Init
    BY DEF Init, Abstract!Init, Stored
  <1>2. TypeOK /\ CallsInv /\ [Next]_vars => [Abstract!Next]_Stored
    <2> SUFFICES ASSUME TypeOK, CallsInv, [Next]_vars
                 PROVE  Abstract!Next \/ UNCHANGED Stored
      OBVIOUS
    <2>1. CASE UNCHANGED docs
      BY <2>1 DEF Stored
    <2>2. ASSUME NEW p \in Callers, calls[p].at \in {"create", "save"}, Accepts(calls[p]),
                 docs' = Written(calls[p])
          PROVE  Abstract!Next
      <3> DEFINE gid == calls[p].gid
                 rec == calls[p].rec
      <3>1. gid \in GlobalIDs
        BY <2>2, WriterType
      <3>2. Stored' = Abstract!Put(Stored, gid, rec)
        <4>1. /\ DOMAIN docs' = DOMAIN docs \cup {gid}
              /\ docs'[gid].rec = rec
              /\ \A g \in DOMAIN docs \ {gid} : docs'[g] = docs[g]
          BY <2>2, WrittenDocs
        <4> QED
          BY <4>1 DEF Stored, Abstract!Put
      <3>3. CASE calls[p].at = "create"
        <4>1. gid \notin DOMAIN Stored
          BY <3>3 DEF CallsInv, CreatesAreFresh, Stored
        <4>2. PICK owner \in LocalRefs : rec = NewRecord(owner)
          BY <3>3 DEF CallsInv, CreatesAreFresh
        <4>3. Abstract!Register(gid, owner)
          BY <3>2, <4>1, <4>2 DEF Abstract!Register, Abstract!NewRecord, NewRecord
        <4> QED
          BY <3>1, <4>3 DEF Abstract!Next
      <3>4. CASE calls[p].at = "save"
        <4>1. gid \in DOMAIN docs /\ LegalChange(docs[gid].rec, rec)
          BY <2>2, <3>4 DEF CallsInv, SavesAreLegal, Accepts
        <4>2. gid \in DOMAIN Stored /\ Stored[gid] = docs[gid].rec
          BY <4>1 DEF Stored
        <4>3. ASSUME NEW from \in LocalRefs, NEW to \in LocalRefs, NEW protocol \in Protocols,
                     Len(docs[gid].rec.history) < MaxHistory,
                     docs[gid].rec.current = from,
                     rec = Transferred(docs[gid].rec, from, to, protocol)
              PROVE  Abstract!Next
          <5>1. Abstract!Transfer(gid, from, to, protocol)
            BY <3>2, <4>1, <4>2, <4>3
               DEF LegalChange, Abstract!Transfer, Abstract!MayTransfer,
                   Abstract!Transferred, Transferred
          <5>2. SUFFICES \E g \in GlobalIDs : \E x, y \in LocalRefs, z \in Protocols :
                             Abstract!Transfer(g, x, y, z)
            BY DEF Abstract!Next
          <5> WITNESS gid \in GlobalIDs
          <5> WITNESS from \in LocalRefs, to \in LocalRefs, protocol \in Protocols
          <5> QED
            BY <5>1, Zenon
        <4>4. CASE rec = Retired(docs[gid].rec)
          <5>1. Abstract!Retire(gid)
            BY <3>2, <4>1, <4>2, <4>4
               DEF LegalChange, Abstract!Retire, Abstract!MayRetire, Abstract!Retired, Retired
          <5> QED
            BY <3>1, <5>1, Zenon DEF Abstract!Next
        <4> QED
          BY <4>1, <4>3, <4>4 DEF LegalChange
      <3> QED
        BY <2>2, <3>3, <3>4
    <2> QED
      BY <2>1, <2>2, DocsStep
  <1> QED
    BY <1>1, <1>2, XoluTypeCorrect, CallsAreLegal, PTL
       DEF Spec, ImplementsOwnership, Abstract!Spec
-----------------------------------------------------------------------------
\* What the calls that are sending events tell of has happened too.
SendersTold ==
    \A p \in Callers : calls[p].at = "send" => StageOf(calls[p].what.at, calls[p].what.gid)

\* A legal change of a record keeps its stages.
LEMMA ChangeKeepsStages ==
    ASSUME NEW old \in Record, NEW new, LegalChange(old, new)
    PROVE  /\ old.status # "retired"
           /\ Len(old.history) <= Len(new.history)
           /\ \A i \in 1..Len(old.history) : new.history[i] = old.history[i]
  <1>1. old.history \in Seq(TransferEntry)
    BY DEF Record
  <1>2. ASSUME NEW from \in LocalRefs, NEW to \in LocalRefs, NEW protocol \in Protocols,
               new = Transferred(old, from, to, protocol)
        PROVE  /\ Len(old.history) <= Len(new.history)
               /\ \A i \in 1..Len(old.history) : new.history[i] = old.history[i]
    <2> DEFINE e == [from |-> from, to |-> to, protocol |-> protocol]
    <2>1. e \in TransferEntry
      BY DEF TransferEntry
    <2>2. new.history = Append(old.history, e)
      BY <1>2, TransferredRecord
    <2> HIDE DEF e
    <2> QED
      BY <1>1, <2>1, <2>2
  <1>3. CASE new = Retired(old)
    <2>1. new.history = old.history
      BY <1>3, RetiredRecord
    <2> QED
      BY <1>1, <2>1 DEF LegalChange
  <1> QED
    BY <1>2, <1>3 DEF LegalChange

\* A stage of a stored record stays one.
LEMMA StagesStay ==
    ASSUME TypeOK, CallsInv, [Next]_vars,
           NEW g, NEW rec \in Record, StageOf(rec, g)
    PROVE  StageOf(rec, g)'
  <1>1. /\ g \in DOMAIN docs
        /\ Len(rec.history) <= Len(docs[g].rec.history)
        /\ \A i \in 1..Len(rec.history) : rec.history[i] = docs[g].rec.history[i]
        /\ rec.status = "retired" => docs[g].rec = rec
    BY DEF StageOf
  <1>2. /\ g \in DOMAIN docs'
        /\ docs'[g] = docs[g] \/ LegalChange(docs[g].rec, docs'[g].rec)
    BY <1>1, RecordStep
  <1>3. CASE docs'[g] = docs[g]
    BY <1>1, <1>2, <1>3 DEF StageOf
  <1>4. CASE LegalChange(docs[g].rec, docs'[g].rec)
    <2> DEFINE old == docs[g].rec
               new == docs'[g].rec
    <2>1. docs[g] \in Doc /\ docs'[g] = docs'[g]
      BY <1>1 DEF TypeOK
    <2>2. old \in Record
      BY <2>1 DEF Doc
    <2>3. /\ old.status # "retired"
          /\ Len(old.history) <= Len(new.history)
          /\ \A i \in 1..Len(old.history) : new.history[i] = old.history[i]
      BY <1>4, <2>2, ChangeKeepsStages
    <2>4. /\ Len(rec.history) \in Nat
          /\ Len(old.history) \in Nat
      BY <2>2 DEF Record
    <2>5. rec.status # "retired"
      BY <1>1, <2>3
    <2>6. Len(new.history) \in Nat
      <3>1. old.history \in Seq(TransferEntry)
        BY <2>2 DEF Record
      <3>2. CASE new = Retired(old)
        BY <2>2, <2>4, <3>2, RetiredRecord
      <3>3. ASSUME NEW from \in LocalRefs, NEW to \in LocalRefs, NEW protocol \in Protocols,
                   new = Transferred(old, from, to, protocol)
            PROVE  Len(new.history) \in Nat
        <4> HIDE DEF old, new
        <4>1. Transferred(old, from, to, protocol) \in Record
          BY <2>2, TransferredRecord
        <4>2. new \in Record
          BY <3>3, <4>1
        <4> QED
          BY <4>2 DEF Record
      <3> QED
        BY <1>4, <3>2, <3>3 DEF LegalChange
    <2>7. Len(rec.history) <= Len(new.history)
      <3> DEFINE a == Len(rec.history)
                 b == Len(old.history)
                 c == Len(new.history)
      <3>1. a \in Nat /\ b \in Nat /\ c \in Nat /\ a <= b /\ b <= c
        BY <1>1, <2>3, <2>4, <2>6, Zenon
      <3> HIDE DEF a, b, c
      <3>2. a <= c
        BY <3>1
      <3> QED
        BY <3>2 DEF a, c
    <2>8. \A i \in 1..Len(rec.history) : rec.history[i] = new.history[i]
      <3>1. \A i \in 1..Len(rec.history) : i \in 1..Len(old.history)
        BY <1>1, <2>4
      <3> QED
        BY <1>1, <2>3, <3>1
    <2> QED
      BY <1>2, <2>5, <2>7, <2>8 DEF StageOf
  <1> QED
    BY <1>2, <1>3, <1>4

\* An accepted write makes what was written a stage of the stored record.
LEMMA WrittenIsStage ==
    ASSUME TypeOK, CallsInv, NEW p \in Callers, calls[p].at \in {"create", "save"},
           Accepts(calls[p]), docs' = Written(calls[p])
    PROVE  \A g, rec : g = calls[p].gid /\ rec = calls[p].rec => StageOf(rec, g)'
  <1>1. /\ calls[p].gid \in DOMAIN docs'
        /\ docs'[calls[p].gid].rec = calls[p].rec
    BY WrittenDocs
  <1>2. Len(calls[p].rec.history) \in Nat
    <2>1. calls[p].rec \in Record
      BY WriterType
    <2> QED
      BY <2>1 DEF Record
  <1> QED
    BY <1>1, <1>2 DEF StageOf

\* What is told after a step was told before, or is told by a sending call.
LEMMA ToldStep ==
    ASSUME TypeOK, [Next]_vars, NEW s \in Told'
    PROVE  \/ s \in Told
           \/ \E p \in Callers : calls[p].at = "send" /\ s = calls[p].what
  <1>1. CASE UNCHANGED <<acked, eventLog, appending, chan>>
    BY <1>1 DEF Told, Buffered
  <1>2. ASSUME NEW p \in Callers, Return(p)
        PROVE  s \in Told \/ (calls[p].at = "send" /\ s = calls[p].what)
    BY <1>2 DEF Return, Told, Buffered
  <1>3. ASSUME NEW p \in Callers, NEW c \in Channels, Send(p, c)
        PROVE  s \in Told \/ (calls[p].at = "send" /\ s = calls[p].what)
    <2> DEFINE e == calls[p].what
    <2>0. calls[p].at = "send" /\ UNCHANGED <<acked, eventLog, appending>>
      BY <1>3 DEF Send
    <2>1. chan \in [Channels -> Seq(Snapshot)] /\ calls[p] \in Call
      BY DEF TypeOK
    <2>2. e \in Snapshot
      BY <2>0, <2>1 DEF Call
    <2>3. chan' = chan \/ chan' = [chan EXCEPT ![c] = Append(chan[c], e)]
      BY <1>3 DEF Send
    <2> HIDE DEF e
    <2>4. \A d \in Channels : \A i \in 1..Len(chan'[d]) : chan'[d][i] = e \/ chan'[d][i] \in Buffered(d)
      <3> SUFFICES ASSUME NEW d \in Channels, NEW i \in 1..Len(chan'[d])
                   PROVE  chan'[d][i] = e \/ chan'[d][i] \in Buffered(d)
        OBVIOUS
      <3>1. CASE chan'[d] = chan[d]
        BY <3>1 DEF Buffered
      <3>2. CASE chan'[d] = Append(chan[d], e)
        <4>1. chan[d] \in Seq(Snapshot)
          BY <2>1
        <4>2. i \in 1..Len(chan[d]) + 1
          BY <2>2, <3>2, <4>1
        <4>3. CASE i = Len(chan[d]) + 1
          BY <2>2, <3>2, <4>1, <4>3
        <4>4. CASE i \in 1..Len(chan[d])
          BY <2>2, <3>2, <4>1, <4>4 DEF Buffered
        <4>5. Len(chan[d]) \in Nat
          BY <4>1
        <4> QED
          BY <4>2, <4>3, <4>4, <4>5
      <3> QED
        BY <2>1, <2>3, <3>1, <3>2
    <2>5. s \in Told \/ s = e
      BY <2>0, <2>4 DEF Told, Buffered
    <2> QED
      BY <2>0, <2>5 DEF e
  <1>4. ASSUME NEW c \in Channels, Subscribe(c) PROVE s \in Told
    <2>1. \A d \in Channels : chan'[d] = chan[d] \/ chan'[d] = <<>>
      BY <1>4 DEF Subscribe, TypeOK
    <2>2. \A d \in Channels : \A i \in 1..Len(chan'[d]) : chan'[d][i] \in Buffered(d)
      BY <2>1 DEF Buffered
    <2> QED
      BY <1>4, <2>2 DEF Subscribe, Told, Buffered
  <1>5. ASSUME NEW c \in Channels, Receive(c) PROVE s \in Told
    <2>1. chan \in [Channels -> Seq(Snapshot)]
      BY DEF TypeOK
    <2>2. \A d \in Channels : \A i \in 1..Len(chan'[d]) : chan'[d][i] \in Buffered(d)
      <3> SUFFICES ASSUME NEW d \in Channels, NEW i \in 1..Len(chan'[d])
                   PROVE  chan'[d][i] \in Buffered(d)
        OBVIOUS
      <3>1. CASE d # c
        BY <1>5, <2>1, <3>1 DEF Receive, Buffered
      <3>2. CASE d = c
        <4>1. chan[c] \in Seq(Snapshot) /\ chan[c] # <<>> /\ chan'[c] = Tail(chan[c])
          BY <1>5, <2>1 DEF Receive
        <4>2. i + 1 \in 1..Len(chan[c]) /\ chan'[c][i] = chan[c][i + 1]
          BY <3>2, <4>1
        <4> QED
          BY <3>2, <4>2 DEF Buffered
      <3> QED
        BY <3>1, <3>2
    <2> QED
      BY <1>5, <2>2 DEF Receive, Told, Buffered
  <1>6. ASSUME NEW what \in appending, AppendEvent(what) PROVE s \in Told
    BY <1>6 DEF AppendEvent, Told, Buffered
  <1>7. CASE Crash
    <2>1. \A d \in Channels : chan'[d] = <<>>
      BY <1>7 DEF Crash
    <2>2. \A d \in Channels : Buffered(d)' = {}
      BY <2>1 DEF Buffered
    <2> QED
      BY <1>7, <2>2 DEF Crash, Told
  <1> QED
    BY <1>1, <1>2, <1>3, <1>4, <1>5, <1>6, <1>7
       DEF Next, vars, RegisterCheck, TransferCheck, RetireCheck, WriteOK, WriteConflict,
           WriteFails, WriteReplyLost, Cancel

\* A call that is sending after a step was before, or has just written.
LEMMA SenderStep ==
    ASSUME TypeOK, [Next]_vars, NEW p \in Callers, calls'[p].at = "send"
    PROVE  \/ calls[p].at = "send" /\ calls'[p].what = calls[p].what
           \/ /\ calls[p].at \in {"create", "save"}
              /\ Accepts(calls[p])
              /\ docs' = Written(calls[p])
              /\ calls'[p].what = Outcome(calls[p])
  <1>0. DOMAIN calls = Callers
    BY DEF TypeOK
  <1>1. CASE calls'[p] = calls[p]
    BY <1>1
  <1>2. CASE calls'[p] # calls[p] /\ WriteOK(p)
    BY <1>0, <1>2 DEF WriteOK
  <1>3. ASSUME NEW c \in Channels, Send(p, c)
        PROVE  calls[p].at = "send" /\ calls'[p].what = calls[p].what
    <2>1. calls[p] \in Call /\ calls[p].at = "send"
      BY <1>3 DEF Send, TypeOK
    <2>2. calls'[p] = [calls[p] EXCEPT !.todo = @ \ {c}]
      BY <1>0, <1>3 DEF Send
    <2> QED
      BY <2>1, <2>2 DEF Call
  <1>4. \/ calls'[p] = calls[p] \/ WriteOK(p) \/ (\E c \in Channels : Send(p, c))
    <2>2. ASSUME NEW q \in Callers, NEW g \in GlobalIDs, NEW owner \in LocalRefs,
                 RegisterCheck(q, g, owner)
          PROVE  calls'[p] = calls[p]
      BY <1>0, <2>2 DEF RegisterCheck
    <2>3. ASSUME NEW q \in Callers, NEW g \in GlobalIDs, NEW from \in LocalRefs,
                 NEW to \in LocalRefs, NEW protocol \in Protocols,
                 TransferCheck(q, g, from, to, protocol)
          PROVE  calls'[p] = calls[p]
      BY <1>0, <2>3 DEF TransferCheck
    <2>4. ASSUME NEW q \in Callers, NEW g \in GlobalIDs, RetireCheck(q, g)
          PROVE  calls'[p] = calls[p]
      BY <1>0, <2>4 DEF RetireCheck
    <2>5. ASSUME NEW q \in Callers,
                 WriteConflict(q) \/ WriteFails(q) \/ WriteReplyLost(q) \/ Return(q)
          PROVE  calls'[p] = calls[p]
      BY <1>0, <2>5 DEF WriteConflict, WriteFails, WriteReplyLost, Return, Idle
    <2>6. ASSUME NEW q \in Callers, WriteOK(q) PROVE WriteOK(p) \/ calls'[p] = calls[p]
      BY <1>0, <2>6 DEF WriteOK
    <2>7. ASSUME NEW q \in Callers, NEW c \in Channels, Send(q, c)
          PROVE  Send(p, c) \/ calls'[p] = calls[p]
      BY <1>0, <2>7 DEF Send
    <2>8. ASSUME UNCHANGED calls PROVE calls'[p] = calls[p]
      BY <2>8
    <2>9. CASE Crash
      BY <2>9 DEF Crash, Idle
    <2> QED
      BY <2>2, <2>3, <2>4, <2>5, <2>6, <2>7, <2>8, <2>9
         DEF Next, vars, Subscribe, Cancel, Receive, AppendEvent
  <1> QED
    BY <1>1, <1>2, <1>3, <1>4

\* Nothing a caller, a subscriber or the event log was told is ever undone.
THEOREM ToldIsNeverUndone == Spec => []ToldHappened
  <1> DEFINE Inv == ToldHappened /\ SendersTold
  <1>1. Init => Inv
    <2> SUFFICES ASSUME Init PROVE Inv
      OBVIOUS
    <2>1. \A c \in Channels : Buffered(c) = {}
      BY DEF Init, Buffered
    <2>2. Told = {}
      BY <2>1 DEF Init, Told
    <2> QED
      BY <2>2 DEF Init, ToldHappened, SendersTold, Idle
  <1>2. TypeOK /\ TypeOK' /\ CallsInv /\ Inv /\ [Next]_vars => Inv'
    <2> SUFFICES ASSUME TypeOK, TypeOK', CallsInv, Inv, [Next]_vars PROVE Inv'
      OBVIOUS
    <2>1. \A t \in Told : t.at \in Record
      <3>1. \A c \in Channels : Buffered(c) \subseteq Snapshot
        <4> SUFFICES ASSUME NEW c \in Channels PROVE Buffered(c) \subseteq Snapshot
          OBVIOUS
        <4>1. chan[c] \in Seq(Snapshot)
          BY DEF TypeOK
        <4> QED
          BY <4>1 DEF Buffered
      <3>2. Told \subseteq Snapshot
        BY <3>1 DEF Told, TypeOK
      <3> QED
        BY <3>2 DEF Snapshot
    <2>2. \A p \in Callers : calls[p].at = "send" => calls[p].what.at \in Record
      <3> SUFFICES ASSUME NEW p \in Callers, calls[p].at = "send"
                   PROVE  calls[p].what.at \in Record
        OBVIOUS
      <3>1. calls[p] \in Call
        BY DEF TypeOK
      <3>2. calls[p].what \in Snapshot
        BY <3>1 DEF Call
      <3> QED
        BY <3>2 DEF Snapshot
    <2>3. \A p \in Callers : calls[p].at = "send" =>
              \A x, y : x = calls[p].what.at /\ y = calls[p].what.gid => StageOf(x, y)'
      BY <2>2, StagesStay DEF SendersTold
    <2>4. ASSUME NEW s \in Told' PROVE StageOf(s.at, s.gid)'
      <3>1. CASE s \in Told
        BY <2>1, <3>1, StagesStay DEF ToldHappened
      <3>2. ASSUME NEW p \in Callers, calls[p].at = "send", s = calls[p].what
            PROVE  StageOf(s.at, s.gid)'
        BY <2>3, <3>2
      <3> QED
        BY <3>1, <3>2, ToldStep
    <2>5. ASSUME NEW p \in Callers, calls'[p].at = "send"
          PROVE  \A x, y : x = calls'[p].what.at /\ y = calls'[p].what.gid => StageOf(x, y)'
      <3>1. CASE calls[p].at = "send" /\ calls'[p].what = calls[p].what
        BY <2>3, <3>1
      <3>2. CASE /\ calls[p].at \in {"create", "save"}
                 /\ Accepts(calls[p])
                 /\ docs' = Written(calls[p])
                 /\ calls'[p].what = Outcome(calls[p])
        <4>1. calls'[p].what.at = calls[p].rec /\ calls'[p].what.gid = calls[p].gid
          BY <3>2 DEF Outcome
        <4> QED
          BY <3>2, <4>1, WrittenIsStage
      <3> QED
        BY <2>5, <3>1, <3>2, SenderStep
    <2> QED
      BY <2>4, <2>5 DEF ToldHappened, SendersTold
  <1> QED
    BY <1>1, <1>2, XoluTypeCorrect, CallsAreLegal, PTL DEF Spec
-----------------------------------------------------------------------------
(* With the refinement, what OwnershipProofs proves of any map of records  *)
(* holds of the stored ones.                                               *)

Theory == INSTANCE OwnershipProofs WITH records <- Stored

\* The two instances of the ownership specification are the same.
LEMMA SameSpec == Abstract!Spec => Theory!Spec
  <1>1. Abstract!Init => Theory!Init
    BY DEF Abstract!Init, Theory!Init
  <1>2. [Abstract!Next]_Stored => [Theory!Next]_Stored
    BY Zenon DEF Abstract!Next, Abstract!Register, Abstract!Transfer, Abstract!Retire,
           Abstract!MayTransfer, Abstract!MayRetire, Abstract!Put, Abstract!NewRecord,
           Abstract!Transferred, Abstract!Retired,
           Theory!Next, Theory!Register, Theory!Transfer, Theory!Retire,
           Theory!MayTransfer, Theory!MayRetire, Theory!Put, Theory!NewRecord,
           Theory!Transferred, Theory!Retired
  <1> QED
    BY <1>1, <1>2, PTL DEF Abstract!Spec, Theory!Spec

\* The chain of custody of every stored record is unbroken, whichever calls
\* raced to extend it.
THEOREM XoluCustody == Spec => []ChainOfCustody
  <1>1. Theory!Spec => []Theory!ChainOfCustody
    BY Theory!CustodyIsUnbroken, MaxHistoryAssumption, LocalRefsAssumption, PTL
  <1>2. Theory!ChainOfCustody => ChainOfCustody
    BY DEF Theory!ChainOfCustody, ChainOfCustody, Abstract!ChainOfCustody
  <1> QED
    BY <1>1, <1>2, SameSpec, XoluImplementsOwnership, PTL DEF ImplementsOwnership

\* No write, however late, forgets or rewrites what another call has stored.
THEOREM XoluAppendOnly == Spec => AppendOnly
  <1>1. Theory!Spec => Theory!AppendOnly
    BY Theory!HistoryIsAppendOnly, MaxHistoryAssumption, LocalRefsAssumption, PTL
  <1>2. Theory!AppendOnly => AppendOnly
    BY PTL DEF Theory!AppendOnly, AppendOnly, Abstract!AppendOnly
  <1> QED
    BY <1>1, <1>2, SameSpec, XoluImplementsOwnership, PTL DEF ImplementsOwnership
=============================================================================
