--------------------------- MODULE HotswapProofs ---------------------------
(***************************************************************************)
(* What MemoryManager guarantees for any number of hotswaps, tenants,      *)
(* entities, Aborts and registry clients: no hotswap is left without a     *)
(* goroutine, and no hotswap has two forward ones.  And what its protocol  *)
(* guarantees when nobody aborts: the source is blocked while data moves   *)
(* and free afterwards, FAILED means untouched, tenants do not meet, and   *)
(* an end is final and true.                                               *)
(***************************************************************************)
EXTENDS HotswapMemory, RecordsProofs

-----------------------------------------------------------------------------
(* What the helpers of the actions do.                                     *)

\* A goroutine in order: well formed, of a hotswap that exists, working on
\* registered entities.
ThreadOK(u) ==
    /\ u \in Threads
    /\ u.h \in DOMAIN hs
    /\ u.todo \subseteq DOMAIN records
    /\ u.got # <<>> => u.got[1] \in DOMAIN records

LEMMA TypeParts ==
    TypeOK <=> /\ DOMAIN hs \subseteq Hotswaps /\ hs \in [DOMAIN hs -> Hotswap]
               /\ \A u \in threads : ThreadOK(u)
               /\ started \in [Hotswaps -> Nat]
               /\ DOMAIN records \subseteq GlobalIDs /\ records \in [DOMAIN records -> Record]
               /\ aborts \in Nat /\ clientOps \in Nat
  BY DEF TypeOK, ThreadOK

\* advanceLocked changes the state of one hotswap and nothing else of it.
LEMMA Advance ==
    ASSUME hs \in [DOMAIN hs -> Hotswap], NEW h \in DOMAIN hs, NEW s \in States,
           advanceLocked(h, s)
    PROVE  /\ DOMAIN hs' = DOMAIN hs
           /\ hs' \in [DOMAIN hs' -> Hotswap]
           /\ hs'[h].state = s
           /\ \A x \in DOMAIN hs : x # h => hs'[x] = hs[x]
           /\ \A x \in DOMAIN hs : /\ hs'[x].source = hs[x].source
                                   /\ hs'[x].target = hs[x].target
                                   /\ hs'[x].iolu = hs[x].iolu
  <1>1. \A x \in DOMAIN hs : hs[x] \in Hotswap
    OBVIOUS
  <1> QED
    BY <1>1 DEF advanceLocked, Hotswap

\* The goroutine that go starts.
LEMMA NewThread ==
    ASSUME started \in [Hotswaps -> Nat], NEW h \in Hotswaps, NEW code \in Codes
    PROVE  /\ thread(h, code) \in Threads
           /\ thread(h, code).h = h /\ thread(h, code).code = code
           /\ thread(h, code).at = "start"
           /\ thread(h, code).todo = {} /\ thread(h, code).got = <<>>
  BY DEF thread, Threads

\* What go does: one more goroutine, at its start, in place of those in done.
Begins(h, code, done) ==
    \E new \in Threads :
        /\ threads' = (threads \ done) \cup {new}
        /\ new.h = h /\ new.code = code /\ new.at = "start"
        /\ new.todo = {} /\ new.got = <<>>

LEMMA GoEffect ==
    ASSUME started \in [Hotswaps -> Nat], NEW h \in Hotswaps, NEW code \in Codes,
           NEW done \in SUBSET threads, Go(h, code, done)
    PROVE  Begins(h, code, done) /\ started' \in [Hotswaps -> Nat]
  <1> DEFINE new == thread(h, code)
  <1>1. /\ threads' = (threads \ done) \cup {new}
        /\ started' \in [Hotswaps -> Nat]
    BY DEF Go
  <1>2. /\ new \in Threads /\ new.h = h /\ new.code = code /\ new.at = "start"
        /\ new.todo = {} /\ new.got = <<>>
    BY NewThread
  <1> HIDE DEF new
  <1> QED
    BY <1>1, <1>2 DEF Begins

\* It keeps the goroutines in order.
LEMMA GoOK ==
    ASSUME TypeOK, NEW h \in DOMAIN hs', NEW code \in Codes, NEW done \in SUBSET threads, Go(h, code, done),
           DOMAIN hs \subseteq DOMAIN hs', DOMAIN hs' \subseteq Hotswaps, records' = records
    PROVE  /\ \A u \in threads' : ThreadOK(u)'
           /\ started' \in [Hotswaps -> Nat]
  <1>0. started \in [Hotswaps -> Nat] /\ h \in Hotswaps
    BY DEF TypeOK
  <1>3. Begins(h, code, done) /\ started' \in [Hotswaps -> Nat]
    BY <1>0, GoEffect
  <1> PICK new \in Threads : /\ threads' = (threads \ done) \cup {new}
                             /\ new.h = h /\ new.todo = {} /\ new.got = <<>>
    BY <1>3 DEF Begins
  <1>1. ThreadOK(new)'
    BY DEF ThreadOK
  <1>2. \A u \in threads : ThreadOK(u)'
    BY TypeParts DEF ThreadOK
  <1> QED
    BY <1>1, <1>2, <1>3

\* Going on keeps them in order, and so does returning.
LEMMA ContinuesOK ==
    ASSUME TypeOK, NEW t \in threads, NEW u, Continues(t, u), ThreadOK(u), hs' = hs,
           DOMAIN records \subseteq DOMAIN records'
    PROVE  /\ \A v \in threads' : ThreadOK(v)'
           /\ started' \in [Hotswaps -> Nat]
  <1>1. \A v \in threads \cup {u} : ThreadOK(v)'
    BY TypeParts DEF ThreadOK
  <1> QED
    BY <1>1 DEF Continues, TypeOK

LEMMA ReturnsOK ==
    ASSUME TypeOK, NEW t \in threads, Returns(t), DOMAIN hs' = DOMAIN hs, records' = records
    PROVE  /\ \A v \in threads' : ThreadOK(v)'
           /\ started' \in [Hotswaps -> Nat]
  <1>1. \A v \in threads : ThreadOK(v)'
    BY TypeParts DEF ThreadOK
  <1> QED
    BY <1>1 DEF Returns, TypeOK

\* A step that writes one record and leaves hotswaps and goroutines alone, as
\* clients and the cutover do.
LEMMA PutRecord ==
    ASSUME TypeOK, NEW g \in GlobalIDs, NEW rec \in Record, records' = Put(records, g, rec)
    PROVE  /\ DOMAIN records' = DOMAIN records \cup {g}
           /\ DOMAIN records' \subseteq GlobalIDs /\ records' \in [DOMAIN records' -> Record]
  <1>1. DOMAIN records' = DOMAIN records \cup {g}
    BY DEF Put
  <1> QED
    BY <1>1, PutType DEF TypeOK

-----------------------------------------------------------------------------
(* The five functions and the state each works in.                         *)

\* The state a hotswap is in while a goroutine that runs code works for it.
Works(code) == IF code = "rollback" THEN "rolling_back" ELSE Expected(code)

LEMMA WorkStates ==
    /\ \A c \in Codes : Works(c) \in States \ {"preparing", "complete", "failed"}
    /\ \A c, d \in Codes : Works(c) = Works(d) => c = d
    /\ \A c \in Forward : c \in Codes /\ Expected(c) = Works(c) /\ c # "rollback"
    /\ Works("quiesce") = "quiescing" /\ Works("migration") = "migrating"
    /\ Works("validation") = "validating" /\ Works("cutover") = "cutting_over"
    /\ Works("rollback") = "rolling_back"
    /\ \A s \in States \ {"preparing", "complete", "failed"} : \E c \in Codes : s = Works(c)
  <1>1. /\ Works("quiesce") = "quiescing" /\ Works("migration") = "migrating"
        /\ Works("validation") = "validating" /\ Works("cutover") = "cutting_over"
        /\ Works("rollback") = "rolling_back"
    BY DEF Works, Expected
  <1>2. \A c \in Forward : c \in Codes /\ Expected(c) = Works(c) /\ c # "rollback"
    BY DEF Works, Codes, Forward
  <1>3. \A c, d \in Codes : Works(c) = Works(d) => c = d
    BY <1>1 DEF Codes, Forward
  <1> QED
    BY <1>1, <1>2, <1>3 DEF Codes, Forward, States

LEMMA CodeSets ==
    /\ Codes = Forward \cup {"rollback"} /\ "rollback" \notin Forward
    /\ Forward = {"quiesce", "migration", "validation", "cutover"}
  BY DEF Codes, Forward

\* What a stage of goroutine t does to the goroutines and to the states: it
\* goes on, gives up, starts the next goroutine, or ends the hotswap.
GoesOn(t) ==
    /\ \E u \in Threads : /\ threads' = (threads \ {t}) \cup {u}
                          /\ u.h = t.h /\ u.code = t.code
    /\ hs' = hs

GivesUp(t) ==
    /\ threads' = threads \ {t}
    /\ hs' = hs
    /\ t.code \in Forward /\ hs[t.h].state # Works(t.code)

HandsOver(t) ==
    /\ t.code \in Forward \ {"cutover"}
    /\ \E code \in Codes : advanceLocked(t.h, Works(code)) /\ Begins(t.h, code, {t})

Ends(t) ==
    /\ threads' = threads \ {t}
    /\ \/ t.code = "cutover" /\ advanceLocked(t.h, "complete")
       \/ t.code = "rollback" /\ advanceLocked(t.h, "failed")

LEMMA GoesOnTo ==
    ASSUME NEW t, NEW u \in Threads, u.h = t.h, u.code = t.code, Continues(t, u), hs' = hs
    PROVE  GoesOn(t)
  BY DEF Continues, GoesOn

LEMMA StepShape ==
    ASSUME TypeOK, NEW t \in threads, Step(t)
    PROVE  GoesOn(t) \/ GivesUp(t) \/ HandsOver(t) \/ Ends(t)
  <1>0. /\ t \in Threads /\ t.h \in DOMAIN hs /\ t.h \in Hotswaps /\ t.code \in Codes
        /\ started \in [Hotswaps -> Nat] /\ {t} \in SUBSET threads
        /\ hs \in [DOMAIN hs -> Hotswap] /\ hs[t.h] \in Hotswap
    BY DEF TypeOK, Threads
  <1>1. ASSUME NEW code \in Codes, Go(t.h, code, {t})
        PROVE  Begins(t.h, code, {t})
    BY <1>0, <1>1, GoEffect
  <1>2. ASSUME NEW at \in {"call", "finish"}, Continues(t, [t EXCEPT !.at = at]), hs' = hs
        PROVE  GoesOn(t)
    <2> DEFINE u == [t EXCEPT !.at = at]
    <2>1. u \in Threads /\ u.h = t.h /\ u.code = t.code
      BY <1>0 DEF Threads
    <2> HIDE DEF u
    <2> QED
      BY <1>2, <2>1, GoesOnTo DEF u
  <1>3. CASE Start(t)
    BY <1>0, <1>2, <1>3, WorkStates DEF Start, Returns, GivesUp
  <1>4. CASE QuiesceCall(t) \/ RollbackCall(t)
    BY <1>2, <1>4 DEF QuiesceCall, RollbackCall
  <1>5. CASE QuiesceFinish(t)
    BY <1>0, <1>1, <1>5, WorkStates, CodeSets DEF QuiesceFinish, Returns, GivesUp, HandsOver
  <1>6. CASE MigrationError(t) \/ MigrationDone(t)
    BY <1>0, <1>1, <1>6, WorkStates, CodeSets
    DEF MigrationError, MigrationDone, failHotswap, Returns, GivesUp, HandsOver
  <1>7. ASSUME NEW valid \in BOOLEAN, ValidationDone(t, valid)
        PROVE  GivesUp(t) \/ HandsOver(t)
    BY <1>0, <1>1, <1>7, WorkStates, CodeSets DEF ValidationDone, Returns, GivesUp, HandsOver
  <1>8. CASE CutoverList(t)
    <2> DEFINE todo == ListByInstanceAndTenant(records, hs[t.h].source.instance,
                                               hs[t.h].source.tenant)
    <2>1. hs' = hs /\ Continues(t, [t EXCEPT !.at = "finish", !.todo = todo])
      BY <1>8 DEF CutoverList
    <2>2. todo \in SUBSET GlobalIDs
      BY DEF ListByInstanceAndTenant, TypeOK
    <2> HIDE DEF todo
    <2> DEFINE u == [t EXCEPT !.at = "finish", !.todo = todo]
    <2>3. u \in Threads /\ u.h = t.h /\ u.code = t.code
      BY <1>0, <2>2 DEF Threads
    <2> HIDE DEF u
    <2> QED
      BY <2>1, <2>3, GoesOnTo DEF u
  <1>9. ASSUME NEW g \in GlobalIDs, CutoverGet(t, g)
        PROVE  GoesOn(t)
    <2> DEFINE todo == t.todo \ {g}
               got == <<g, records[g].current>>
    <2>1. hs' = hs /\ Continues(t, [t EXCEPT !.todo = todo, !.got = got])
      BY <1>9 DEF CutoverGet
    <2>2. todo \in SUBSET GlobalIDs /\ got \in {<<>>} \cup (GlobalIDs \X LocalRefs)
      BY <1>0, <1>9 DEF CutoverGet, TypeOK, Threads, Record
    <2> HIDE DEF todo, got
    <2> DEFINE u == [t EXCEPT !.todo = todo, !.got = got]
    <2>3. u \in Threads /\ u.h = t.h /\ u.code = t.code
      BY <1>0, <2>2 DEF Threads
    <2> HIDE DEF u
    <2> QED
      BY <2>1, <2>3, GoesOnTo DEF u
  <1>10. CASE CutoverTransfer(t)
    <2> DEFINE u == [t EXCEPT !.got = <<>>]
    <2>1. hs' = hs /\ Continues(t, u)
      BY <1>10 DEF CutoverTransfer
    <2>2. u \in Threads /\ u.h = t.h /\ u.code = t.code
      BY <1>0 DEF Threads
    <2> HIDE DEF u
    <2> QED
      BY <2>1, <2>2, GoesOnTo
  <1>11. CASE CutoverFinish(t) \/ RollbackFinish(t)
    BY <1>11 DEF CutoverFinish, RollbackFinish, Returns, Ends
  <1> QED
    BY <1>3, <1>4, <1>5, <1>6, <1>7, <1>8, <1>9, <1>10, <1>11 DEF Step
-----------------------------------------------------------------------------
(* Types.                                                                  *)

\* The parts of TypeOK that the actions change.
HotswapsOK == DOMAIN hs \subseteq Hotswaps /\ hs \in [DOMAIN hs -> Hotswap]

GoroutinesOK == (\A u \in threads : ThreadOK(u)) /\ started \in [Hotswaps -> Nat]

RecordsOK == DOMAIN records \subseteq GlobalIDs /\ records \in [DOMAIN records -> Record]

\* A step that advances a hotswap and starts a goroutine for it.
LEMMA AdvanceAndGo ==
    ASSUME TypeOK, NEW h \in DOMAIN hs, NEW s \in States, NEW code \in Codes,
           NEW done \in SUBSET threads, advanceLocked(h, s), Go(h, code, done),
           records' = records
    PROVE  HotswapsOK' /\ GoroutinesOK'
  <1>1. HotswapsOK' /\ DOMAIN hs' = DOMAIN hs
    BY Advance DEF TypeOK, HotswapsOK
  <1> QED
    BY <1>1, GoOK DEF HotswapsOK, GoroutinesOK

\* A step that ends the hotswap and its goroutine.
LEMMA AdvanceAndReturn ==
    ASSUME TypeOK, NEW t \in threads, NEW s \in States, advanceLocked(t.h, s), Returns(t),
           records' = records
    PROVE  HotswapsOK' /\ GoroutinesOK'
  <1>0. t.h \in DOMAIN hs
    BY DEF TypeOK
  <1>1. HotswapsOK' /\ DOMAIN hs' = DOMAIN hs
    BY <1>0, Advance DEF TypeOK, HotswapsOK
  <1> QED
    BY <1>1, ReturnsOK DEF GoroutinesOK

LEMMA RequestTypes ==
    ASSUME TypeOK, NEW h \in Hotswaps, NEW move \in Moves, NEW iolu \in IoluModes,
           NEW auto \in BOOLEAN, Request(h, move, iolu, auto)
    PROVE  HotswapsOK' /\ GoroutinesOK'
  <1> DEFINE new == [source |-> move.source, target |-> move.target,
                     state |-> IF auto THEN "quiescing" ELSE "preparing", iolu |-> iolu]
  <1>1. new \in Hotswap
    BY DEF Hotswap, InstanceRefs, States
  <1>2. hs' = Put(hs, h, new) /\ h \notin DOMAIN hs /\ records' = records
    BY DEF Request
  <1> HIDE DEF new
  <1>3. /\ DOMAIN hs' = DOMAIN hs \cup {h}
        /\ hs' \in [DOMAIN hs' -> Hotswap]
    BY <1>1, <1>2 DEF Put, TypeOK
  <1>4. HotswapsOK'
    BY <1>3 DEF HotswapsOK, TypeOK
  <1>5. CASE auto
    <2>1. Go(h, "quiesce", {}) /\ "quiesce" \in Codes /\ {} \in SUBSET threads
      BY <1>5 DEF Request, Codes, Forward
    <2> QED
      BY <1>2, <1>3, <1>4, <2>1, GoOK DEF HotswapsOK, GoroutinesOK
  <1>6. CASE ~auto
    <2>1. threads' = threads /\ started' = started
      BY <1>6 DEF Request
    <2> QED
      BY <1>2, <1>3, <1>4, <2>1 DEF GoroutinesOK, ThreadOK, TypeOK
  <1> QED
    BY <1>5, <1>6

LEMMA ClientTypes ==
    ASSUME TypeOK, NEW g \in GlobalIDs, Client(g)
    PROVE  RecordsOK' /\ DOMAIN records \subseteq DOMAIN records'
  <1>1. ASSUME NEW rec \in Record, records' = Put(records, g, rec)
        PROVE  RecordsOK' /\ DOMAIN records \subseteq DOMAIN records'
    BY <1>1, PutRecord DEF RecordsOK
  <1>2. ASSUME NEW owner \in LocalRefs, records' = Put(records, g, NewRecord(owner))
        PROVE  RecordsOK' /\ DOMAIN records \subseteq DOMAIN records'
    BY <1>1, <1>2, NewRecordType
  <1>3. ASSUME NEW from \in LocalRefs, NEW to \in LocalRefs, MayTransfer(records, g, from),
               records' = Put(records, g, Transferred(records[g], from, to, ClientProtocol))
        PROVE  RecordsOK' /\ DOMAIN records \subseteq DOMAIN records'
    <2>1. records[g] \in Record /\ ClientProtocol \in Protocols
      BY <1>3, HotswapAssumption DEF MayTransfer, TypeOK
    <2>2. Transferred(records[g], from, to, ClientProtocol) \in Record
      BY <2>1, TransferredRecord
    <2> QED
      BY <1>1, <1>3, <2>2
  <1>4. ASSUME MayRetire(records, g), records' = Put(records, g, Retired(records[g]))
        PROVE  RecordsOK' /\ DOMAIN records \subseteq DOMAIN records'
    <2>1. records[g] \in Record
      BY <1>4 DEF MayRetire, TypeOK
    <2> QED
      BY <1>1, <1>4, <2>1, RetiredRecord
  <1> QED
    BY <1>2, <1>3, <1>4 DEF Client
\* Every hotswap is one of the moves Request is called with; its references
\* never change.
FromMoves ==
    \A h \in DOMAIN hs :
        \E m \in Moves : hs[h].source = m.source /\ hs[h].target = m.target

LEMMA RequestMoves ==
    ASSUME TypeOK, FromMoves, NEW h \in Hotswaps, NEW move \in Moves, NEW iolu \in IoluModes,
           NEW auto \in BOOLEAN, Request(h, move, iolu, auto)
    PROVE  FromMoves'
  <1>1. \A x \in DOMAIN hs' :
           \/ x \in DOMAIN hs /\ hs'[x] = hs[x]
           \/ hs'[x].source = move.source /\ hs'[x].target = move.target
    BY DEF Request, Put
  <1> QED
    BY <1>1 DEF FromMoves

LEMMA AdvanceMoves ==
    ASSUME TypeOK, FromMoves, NEW h \in DOMAIN hs, NEW s \in States, advanceLocked(h, s)
    PROVE  FromMoves'
  <1>1. /\ DOMAIN hs' = DOMAIN hs
        /\ \A x \in DOMAIN hs : hs'[x].source = hs[x].source /\ hs'[x].target = hs[x].target
    BY Advance DEF TypeOK
  <1> QED
    BY <1>1 DEF FromMoves

\* The cutover's turn writes a well-typed record of a registered entity, or
\* none.
LEMMA TransferTypes ==
    ASSUME TypeOK, FromMoves, NEW t \in threads, CutoverTransfer(t)
    PROVE  RecordsOK' /\ DOMAIN records' = DOMAIN records
  <1> DEFINE g == t.got[1]
             from == t.got[2]
             to == newRef(hs[t.h].target, from)
  <1>1. t \in Threads /\ t.h \in DOMAIN hs /\ t.h \in Hotswaps /\ t.got # <<>>
    BY DEF CutoverTransfer, TypeOK
  <1>2. t.got \in GlobalIDs \X LocalRefs /\ g \in GlobalIDs /\ from \in LocalRefs
    BY <1>1 DEF Threads
  <1>3. t.h \in Protocols /\ to \in LocalRefs
    <2>1. PICK m \in Moves : hs[t.h].target = m.target
      BY <1>1 DEF FromMoves
    <2> QED
      BY <1>1, <1>2, <2>1, HotswapAssumption
  <1>4. CASE MayTransfer(records, g, from)
    <2>1. g \in DOMAIN records /\ records[g] \in Record
      BY <1>4 DEF MayTransfer, TypeOK
    <2>2. Transferred(records[g], from, to, t.h) \in Record
      BY <1>2, <1>3, <2>1, TransferredRecord
    <2>3. records' = Put(records, g, Transferred(records[g], from, to, t.h))
      BY <1>4 DEF CutoverTransfer
    <2> HIDE DEF g, from, to
    <2> QED
      BY <1>2, <2>1, <2>2, <2>3, PutRecord DEF RecordsOK
  <1>5. CASE ~MayTransfer(records, g, from)
    BY <1>5 DEF CutoverTransfer, RecordsOK, TypeOK
  <1> QED
    BY <1>4, <1>5
LEMMA StepTypes ==
    ASSUME TypeOK, FromMoves, NEW t \in threads, Step(t)
    PROVE  /\ HotswapsOK' /\ GoroutinesOK' /\ RecordsOK'
           /\ aborts' = aborts /\ clientOps' = clientOps
  <1>0. /\ t \in Threads /\ t.h \in DOMAIN hs /\ ThreadOK(t) /\ {t} \in SUBSET threads
        /\ HotswapsOK /\ RecordsOK
    BY TypeParts DEF ThreadOK, HotswapsOK, RecordsOK
  <1>c. /\ "migration" \in Codes /\ "validation" \in Codes /\ "cutover" \in Codes
        /\ "rollback" \in Codes
        /\ {"migrating", "validating", "cutting_over", "rolling_back", "complete",
            "failed"} \subseteq States
    BY DEF Codes, Forward, States
  <1>r. records' = records => RecordsOK'
    BY <1>0 DEF RecordsOK
  <1>h. hs' = hs => HotswapsOK'
    BY <1>0 DEF HotswapsOK
  <1>g. ASSUME NEW at \in {"call", "finish"}, Continues(t, [t EXCEPT !.at = at]), hs' = hs,
               records' = records
        PROVE  GoroutinesOK'
    <2> DEFINE u == [t EXCEPT !.at = at]
    <2>1. u \in Threads /\ u.h = t.h /\ u.todo = t.todo /\ u.got = t.got
      BY <1>0 DEF Threads
    <2> HIDE DEF u
    <2>2. ThreadOK(u)
      BY <1>0, <1>g, <2>1 DEF ThreadOK
    <2> QED
      BY <1>g, <2>2, ContinuesOK DEF GoroutinesOK, u
  <1>b. ASSUME Returns(t), hs' = hs, records' = records
        PROVE  GoroutinesOK'
    BY <1>b, ReturnsOK DEF GoroutinesOK
  <1>1. CASE Start(t)
    BY <1>1, <1>r, <1>h, <1>g, <1>b DEF Start
  <1>2. CASE QuiesceCall(t) \/ RollbackCall(t)
    BY <1>2, <1>r, <1>h, <1>g DEF QuiesceCall, RollbackCall
  <1>3. CASE QuiesceFinish(t)
    BY <1>0, <1>3, <1>c, <1>r, <1>h, <1>b, AdvanceAndGo DEF QuiesceFinish
  <1>4. CASE MigrationError(t) \/ MigrationDone(t)
    BY <1>0, <1>4, <1>c, <1>r, <1>h, <1>b, AdvanceAndGo
    DEF MigrationError, MigrationDone, failHotswap
  <1>5. ASSUME NEW valid \in BOOLEAN, ValidationDone(t, valid)
        PROVE  /\ HotswapsOK' /\ GoroutinesOK' /\ RecordsOK'
               /\ aborts' = aborts /\ clientOps' = clientOps
    BY <1>0, <1>5, <1>c, <1>r, <1>h, <1>b, AdvanceAndGo DEF ValidationDone
  <1>6. CASE CutoverList(t)
    <2> DEFINE todo == ListByInstanceAndTenant(records, hs[t.h].source.instance,
                                               hs[t.h].source.tenant)
    <2>1. /\ hs' = hs /\ records' = records /\ aborts' = aborts /\ clientOps' = clientOps
          /\ Continues(t, [t EXCEPT !.at = "finish", !.todo = todo])
      BY <1>6 DEF CutoverList
    <2>2. todo \in SUBSET GlobalIDs /\ todo \subseteq DOMAIN records
      BY <1>0 DEF ListByInstanceAndTenant, RecordsOK
    <2> HIDE DEF todo
    <2> DEFINE u == [t EXCEPT !.at = "finish", !.todo = todo]
    <2>3. u \in Threads /\ u.h = t.h /\ u.todo = todo /\ u.got = t.got
      BY <1>0, <2>2 DEF Threads
    <2> HIDE DEF u
    <2>4. ThreadOK(u)
      BY <1>0, <2>1, <2>2, <2>3 DEF ThreadOK
    <2> QED
      BY <1>r, <1>h, <2>1, <2>4, ContinuesOK DEF GoroutinesOK, u
  <1>7. ASSUME NEW g \in GlobalIDs, CutoverGet(t, g)
        PROVE  /\ HotswapsOK' /\ GoroutinesOK' /\ RecordsOK'
               /\ aborts' = aborts /\ clientOps' = clientOps
    <2> DEFINE todo == t.todo \ {g}
               got == <<g, records[g].current>>
    <2>1. /\ hs' = hs /\ records' = records /\ aborts' = aborts /\ clientOps' = clientOps
          /\ Continues(t, [t EXCEPT !.todo = todo, !.got = got])
      BY <1>7 DEF CutoverGet
    <2>2. /\ todo \in SUBSET GlobalIDs /\ got \in GlobalIDs \X LocalRefs
          /\ todo \subseteq DOMAIN records /\ got[1] \in DOMAIN records
      BY <1>0, <1>7 DEF CutoverGet, RecordsOK, ThreadOK, Threads, Record
    <2> HIDE DEF todo, got
    <2> DEFINE u == [t EXCEPT !.todo = todo, !.got = got]
    <2>3. u \in Threads /\ u.h = t.h /\ u.todo = todo /\ u.got = got
      BY <1>0, <2>2 DEF Threads
    <2> HIDE DEF u
    <2>4. ThreadOK(u)
      BY <1>0, <2>1, <2>2, <2>3 DEF ThreadOK
    <2> QED
      BY <1>r, <1>h, <2>1, <2>4, ContinuesOK DEF GoroutinesOK, u
  <1>8. CASE CutoverTransfer(t)
    <2> DEFINE u == [t EXCEPT !.got = <<>>]
    <2>1. /\ hs' = hs /\ aborts' = aborts /\ clientOps' = clientOps /\ Continues(t, u)
      BY <1>8 DEF CutoverTransfer
    <2>2. u \in Threads /\ u.h = t.h /\ u.todo = t.todo /\ u.got = <<>>
      BY <1>0 DEF Threads
    <2> HIDE DEF u
    <2>3. RecordsOK' /\ DOMAIN records' = DOMAIN records
      BY <1>8, TransferTypes
    <2>4. ThreadOK(u)
      BY <1>0, <2>1, <2>2, <2>3 DEF ThreadOK
    <2> QED
      BY <1>h, <2>1, <2>3, <2>4, ContinuesOK DEF GoroutinesOK
  <1>9. CASE CutoverFinish(t) \/ RollbackFinish(t)
    BY <1>9, <1>c, <1>r, AdvanceAndReturn DEF CutoverFinish, RollbackFinish
  <1> QED
    BY <1>1, <1>2, <1>3, <1>4, <1>5, <1>6, <1>7, <1>8, <1>9 DEF Step

\* A stage of a goroutine leaves the references of every hotswap alone.
LEMMA StepMoves ==
    ASSUME TypeOK, NEW t \in threads, Step(t)
    PROVE  /\ DOMAIN hs' = DOMAIN hs
           /\ \A x \in DOMAIN hs : hs'[x].source = hs[x].source /\ hs'[x].target = hs[x].target
           /\ \A x \in DOMAIN hs : x # t.h => hs'[x] = hs[x]
  <1>0. t.h \in DOMAIN hs /\ hs \in [DOMAIN hs -> Hotswap]
    BY DEF TypeOK
  <1>1. ASSUME NEW s \in States, advanceLocked(t.h, s)
        PROVE  /\ DOMAIN hs' = DOMAIN hs
               /\ \A x \in DOMAIN hs : /\ hs'[x].source = hs[x].source
                                       /\ hs'[x].target = hs[x].target
               /\ \A x \in DOMAIN hs : x # t.h => hs'[x] = hs[x]
    BY <1>0, <1>1, Advance
  <1>2. (\A c \in Codes : Works(c) \in States) /\ "complete" \in States /\ "failed" \in States
    BY WorkStates DEF States
  <1> QED
    BY <1>1, <1>2, StepShape DEF GoesOn, GivesUp, HandsOver, Ends
LEMMA TypeStep ==
    ASSUME TypeOK, FromMoves, [Next]_vars
    PROVE  TypeOK' /\ FromMoves'
  <1>0. HotswapsOK /\ GoroutinesOK /\ RecordsOK /\ aborts \in Nat /\ clientOps \in Nat
    BY TypeParts DEF HotswapsOK, GoroutinesOK, RecordsOK
  <1>t. ASSUME HotswapsOK', GoroutinesOK', RecordsOK', aborts' \in Nat, clientOps' \in Nat
        PROVE  TypeOK'
    BY <1>t DEF HotswapsOK, GoroutinesOK, RecordsOK, ThreadOK, TypeOK
  <1>c. /\ {} \in SUBSET threads /\ "quiesce" \in Codes /\ "rollback" \in Codes
        /\ "quiescing" \in States /\ "rolling_back" \in States
    BY DEF Codes, Forward, States
  <1>r. records' = records => RecordsOK'
    BY <1>0 DEF RecordsOK
  <1>1. ASSUME NEW h \in Hotswaps, NEW move \in Moves, NEW iolu \in IoluModes,
               NEW auto \in AutoAdvance, Request(h, move, iolu, auto)
        PROVE  TypeOK' /\ FromMoves'
    <2>1. auto \in BOOLEAN
      BY HotswapAssumption
    <2>2. HotswapsOK' /\ GoroutinesOK' /\ FromMoves'
      BY <1>1, <2>1, RequestTypes, RequestMoves
    <2>3. records' = records /\ aborts' = aborts /\ clientOps' = clientOps
      BY <1>1 DEF Request
    <2> QED
      BY <1>0, <1>r, <1>t, <2>2, <2>3
  <1>2. ASSUME NEW h \in DOMAIN hs, Confirm(h)
        PROVE  TypeOK' /\ FromMoves'
    <2>1. /\ advanceLocked(h, "quiescing") /\ Go(h, "quiesce", {})
          /\ records' = records /\ aborts' = aborts /\ clientOps' = clientOps
      BY <1>2 DEF Confirm
    <2>2. HotswapsOK' /\ GoroutinesOK' /\ FromMoves'
      BY <1>c, <2>1, AdvanceAndGo, AdvanceMoves
    <2> QED
      BY <1>0, <1>r, <1>t, <2>1, <2>2
  <1>3. ASSUME NEW h \in DOMAIN hs, Abort(h)
        PROVE  TypeOK' /\ FromMoves'
    <2>1. /\ advanceLocked(h, "rolling_back") /\ Go(h, "rollback", {})
          /\ records' = records /\ aborts' = aborts + 1 /\ clientOps' = clientOps
      BY <1>3 DEF Abort
    <2>2. HotswapsOK' /\ GoroutinesOK' /\ FromMoves'
      BY <1>c, <2>1, AdvanceAndGo, AdvanceMoves
    <2> QED
      BY <1>0, <1>r, <1>t, <2>1, <2>2
  <1>4. ASSUME NEW t \in threads, Step(t)
        PROVE  TypeOK' /\ FromMoves'
    <2>1. FromMoves'
      BY <1>4, StepMoves DEF FromMoves
    <2> QED
      BY <1>0, <1>4, <1>t, <2>1, StepTypes
  <1>5. ASSUME NEW g \in GlobalIDs, Client(g)
        PROVE  TypeOK' /\ FromMoves'
    <2>1. /\ hs' = hs /\ threads' = threads /\ started' = started /\ aborts' = aborts
          /\ clientOps' = clientOps + 1
      BY <1>5 DEF Client
    <2>2. RecordsOK' /\ DOMAIN records \subseteq DOMAIN records'
      BY <1>5, ClientTypes
    <2>3. HotswapsOK' /\ GoroutinesOK' /\ FromMoves'
      BY <1>0, <2>1, <2>2 DEF HotswapsOK, GoroutinesOK, ThreadOK, FromMoves
    <2> QED
      BY <1>0, <1>t, <2>1, <2>2, <2>3
  <1>6. CASE UNCHANGED vars
    BY <1>6 DEF vars, TypeOK, FromMoves
  <1> QED
    BY <1>1, <1>2, <1>3, <1>4, <1>5, <1>6 DEF Next

LEMMA InitTypes ==
    ASSUME Init
    PROVE  TypeOK /\ FromMoves
  BY HotswapAssumption DEF Init, TypeOK, FromMoves

\* A goroutine of MemoryManager always works for a hotswap that is in the map
\* and on GlobalIDs that are registered, so none of the look-ups it makes
\* without checking can fail, whatever runs beside it (manager.go).
THEOREM HotswapTypeCorrect == Spec => []TypeOK
  <1>1. Init => TypeOK /\ FromMoves
    BY InitTypes
  <1>2. TypeOK /\ FromMoves /\ [Next]_vars => TypeOK' /\ FromMoves'
    BY TypeStep
  <1> QED
    BY <1>1, <1>2, PTL DEF Spec

-----------------------------------------------------------------------------
(* Nobody is forgotten, and nobody is helped twice.                        *)

\* NoOrphan with the state of each function by one name.
Manned ==
    \A h \in DOMAIN hs, code \in Codes :
        hs[h].state = Works(code) => \E t \in threads : t.h = h /\ t.code = code

\* What starting a goroutine along with the state it works in does, as Request
\* (with AutoAdvance), Confirm and Abort do.
LEMMA ManBegins ==
    ASSUME NEW h \in Hotswaps, NEW code \in Codes, Begins(h, code, {}), Manned,
           h \in DOMAIN hs', hs'[h].state = Works(code),
           \A x \in DOMAIN hs' : x # h => x \in DOMAIN hs /\ hs'[x] = hs[x]
    PROVE  Manned'
  <1> PICK new \in Threads : threads' = threads \cup {new} /\ new.h = h /\ new.code = code
    BY DEF Begins
  <1> SUFFICES ASSUME NEW x \in DOMAIN hs', NEW c \in Codes, hs'[x].state = Works(c)
               PROVE  \E t \in threads' : t.h = x /\ t.code = c
    BY DEF Manned
  <1>1. CASE x = h
    BY <1>1, WorkStates
  <1>2. CASE x # h
    BY <1>2 DEF Manned
  <1> QED
    BY <1>1, <1>2

LEMMA ManStep ==
    ASSUME TypeOK, Manned, NEW t \in threads, Step(t)
    PROVE  Manned'
  <1>0. /\ t \in Threads /\ t.code \in Codes /\ t.h \in DOMAIN hs
        /\ hs \in [DOMAIN hs -> Hotswap]
    BY DEF TypeOK, Threads
  <1> SUFFICES ASSUME NEW x \in DOMAIN hs', NEW c \in Codes, hs'[x].state = Works(c)
               PROVE  \E u \in threads' : u.h = x /\ u.code = c
    BY DEF Manned
  <1>1. x \in DOMAIN hs /\ (x # t.h => hs'[x] = hs[x])
    BY StepMoves
  <1>2. CASE GoesOn(t)
    BY <1>1, <1>2 DEF GoesOn, Manned
  <1>3. CASE GivesUp(t)
    BY <1>1, <1>3 DEF GivesUp, Manned
  <1>4. CASE HandsOver(t)
    <2>1. PICK code \in Codes : advanceLocked(t.h, Works(code)) /\ Begins(t.h, code, {t})
      BY <1>4 DEF HandsOver
    <2>2. hs'[t.h].state = Works(code)
      BY <1>0, <2>1, Advance, WorkStates
    <2>3. PICK new \in Threads : /\ threads' = (threads \ {t}) \cup {new}
                                 /\ new.h = t.h /\ new.code = code
      BY <2>1 DEF Begins
    <2>4. CASE x = t.h
      BY <2>2, <2>3, <2>4, WorkStates
    <2>5. CASE x # t.h
      BY <1>1, <2>3, <2>5 DEF Manned
    <2> QED
      BY <2>4, <2>5
  <1>5. CASE Ends(t)
    <2>1. hs'[t.h].state \in {"complete", "failed"} /\ threads' = threads \ {t}
      BY <1>0, <1>5, Advance DEF Ends, States
    <2>2. x # t.h
      BY <2>1, WorkStates
    <2> QED
      BY <1>1, <2>1, <2>2 DEF Manned
  <1> QED
    BY <1>2, <1>3, <1>4, <1>5, StepShape

\* A call of a method of the manager for hotswap h, and what it does to
\* hotswaps and goroutines.
Method(h) ==
    \/ \E move \in Moves, iolu \in IoluModes, auto \in AutoAdvance :
           Request(h, move, iolu, auto)
    \/ h \in DOMAIN hs /\ (Confirm(h) \/ Abort(h))

LEMMA MethodShape ==
    ASSUME TypeOK, NEW h \in Hotswaps, Method(h)
    PROVE  /\ h \in DOMAIN hs'
           /\ \A x \in DOMAIN hs' : x # h => x \in DOMAIN hs /\ hs'[x] = hs[x]
           /\ \/ /\ h \notin DOMAIN hs /\ hs'[h].state = "preparing" /\ threads' = threads
              \/ /\ h \notin DOMAIN hs \/ hs[h].state = "preparing"
                 /\ hs'[h].state = "quiescing" /\ Begins(h, "quiesce", {})
              \/ /\ h \in DOMAIN hs /\ ~isTerminal(hs[h].state) /\ aborts < MaxAborts
                 /\ hs'[h].state = "rolling_back" /\ Begins(h, "rollback", {})
  <1>0. /\ started \in [Hotswaps -> Nat] /\ {} \in SUBSET threads
        /\ "quiesce" \in Codes /\ "rollback" \in Codes
        /\ "quiescing" \in States /\ "rolling_back" \in States
    BY DEF TypeOK, Codes, Forward, States
  <1>1. ASSUME NEW move \in Moves, NEW iolu \in IoluModes, NEW auto \in AutoAdvance,
               Request(h, move, iolu, auto)
        PROVE  /\ h \in DOMAIN hs'
               /\ \A x \in DOMAIN hs' : x # h => x \in DOMAIN hs /\ hs'[x] = hs[x]
               /\ h \notin DOMAIN hs
               /\ \/ hs'[h].state = "preparing" /\ threads' = threads
                  \/ hs'[h].state = "quiescing" /\ Begins(h, "quiesce", {})
    <2>1. auto \in BOOLEAN
      BY HotswapAssumption
    <2>2. /\ DOMAIN hs' = DOMAIN hs \cup {h} /\ h \notin DOMAIN hs
          /\ \A x \in DOMAIN hs : hs'[x] = hs[x]
          /\ hs'[h].state = IF auto THEN "quiescing" ELSE "preparing"
      BY <1>1 DEF Request, Put
    <2>3. IF auto THEN Go(h, "quiesce", {}) ELSE threads' = threads
      BY <1>1 DEF Request
    <2> QED
      BY <1>0, <2>1, <2>2, <2>3, GoEffect
  <1>2. ASSUME h \in DOMAIN hs, Confirm(h)
        PROVE  /\ DOMAIN hs' = DOMAIN hs /\ \A x \in DOMAIN hs : x # h => hs'[x] = hs[x]
               /\ hs[h].state = "preparing"
               /\ hs'[h].state = "quiescing" /\ Begins(h, "quiesce", {})
    <2>1. advanceLocked(h, "quiescing") /\ Go(h, "quiesce", {}) /\ hs[h].state = "preparing"
      BY <1>2 DEF Confirm
    <2> QED
      BY <1>0, <1>2, <2>1, GoEffect, Advance DEF TypeOK
  <1>3. ASSUME h \in DOMAIN hs, Abort(h)
        PROVE  /\ DOMAIN hs' = DOMAIN hs /\ \A x \in DOMAIN hs : x # h => hs'[x] = hs[x]
               /\ ~isTerminal(hs[h].state) /\ aborts < MaxAborts
               /\ hs'[h].state = "rolling_back" /\ Begins(h, "rollback", {})
    <2>1. /\ advanceLocked(h, "rolling_back") /\ Go(h, "rollback", {})
          /\ ~isTerminal(hs[h].state) /\ aborts < MaxAborts
      BY <1>3 DEF Abort
    <2> QED
      BY <1>0, <1>3, <2>1, GoEffect, Advance DEF TypeOK
  <1> QED
    BY <1>1, <1>2, <1>3 DEF Method

LEMMA NextCases ==
    ASSUME TypeOK, [Next]_vars
    PROVE  \/ \E h \in Hotswaps : Method(h)
           \/ \E t \in threads : Step(t)
           \/ hs' = hs /\ threads' = threads /\ quiesced' = quiesced
  <1>1. DOMAIN hs \subseteq Hotswaps
    BY DEF TypeOK
  <1>2. (\E g \in GlobalIDs : Client(g)) => hs' = hs /\ threads' = threads /\ quiesced' = quiesced
    BY DEF Client
  <1>3. UNCHANGED vars => hs' = hs /\ threads' = threads /\ quiesced' = quiesced
    BY DEF vars
  <1> QED
    BY <1>1, <1>2, <1>3 DEF Next, Method

\* However Aborts, errors and goroutines interleave, a hotswap in a working
\* state has the goroutine that works in that state: none waits for a driver
\* that has already looked, seen another state and returned (manager.go, the
\* drive functions).
THEOREM NobodyOrphaned == Spec => []NoOrphan
  <1>1. Init => TypeOK /\ FromMoves /\ Manned
    <2>1. Init => Manned
      BY DEF Init, Manned
    <2> QED
      BY <2>1, InitTypes
  <1>2. TypeOK /\ FromMoves /\ Manned /\ [Next]_vars => TypeOK' /\ FromMoves' /\ Manned'
    <2> SUFFICES ASSUME TypeOK, FromMoves, Manned, [Next]_vars
                 PROVE  Manned'
      BY TypeStep
    <2>1. ASSUME NEW h \in Hotswaps, Method(h)
          PROVE  Manned'
      <3>1. /\ h \in DOMAIN hs'
            /\ \A x \in DOMAIN hs' : x # h => x \in DOMAIN hs /\ hs'[x] = hs[x]
        BY <2>1, MethodShape
      <3>2. CASE hs'[h].state = "preparing" /\ threads' = threads
        BY <3>1, <3>2, WorkStates DEF Manned
      <3>3. CASE hs'[h].state = "quiescing" /\ Begins(h, "quiesce", {})
        BY <3>1, <3>3, WorkStates, CodeSets, ManBegins
      <3>4. CASE hs'[h].state = "rolling_back" /\ Begins(h, "rollback", {})
        BY <3>1, <3>4, WorkStates, CodeSets, ManBegins
      <3> QED
        BY <2>1, <3>2, <3>3, <3>4, MethodShape
    <2>2. hs' = hs /\ threads' = threads => Manned'
      BY DEF Manned
    <2> QED
      BY <2>1, <2>2, NextCases, ManStep
  <1>3. Manned => NoOrphan
    <2>1. /\ \A c \in Forward : c \in Codes /\ Expected(c) = Works(c)
          /\ Works("rollback") = "rolling_back" /\ "rollback" \in Codes
      BY WorkStates, CodeSets
    <2> QED
      BY <2>1 DEF NoOrphan, Manned
  <1> QED
    BY <1>1, <1>2, <1>3, PTL DEF Spec

\* No goroutine runs for a hotswap that waits for its confirmation.
PreparingIdle == \A t \in threads : hs[t.h].state # "preparing"

LEMMA ForwardStep ==
    ASSUME TypeOK, PreparingIdle, OneForwardDriver, NEW t \in threads, Step(t)
    PROVE  PreparingIdle' /\ OneForwardDriver'
  <1>0. /\ t \in Threads /\ t.code \in Codes /\ t.h \in DOMAIN hs
        /\ hs \in [DOMAIN hs -> Hotswap] /\ \A u \in threads : u.h \in DOMAIN hs
    BY DEF TypeOK, Threads
  <1>1. \A u \in threads : u.h # t.h => hs'[u.h] = hs[u.h]
    BY <1>0, StepMoves
  <1>2. CASE GoesOn(t)
    BY <1>0, <1>2 DEF GoesOn, PreparingIdle, OneForwardDriver
  <1>3. CASE GivesUp(t)
    BY <1>0, <1>3 DEF GivesUp, PreparingIdle, OneForwardDriver
  <1>4. CASE HandsOver(t)
    <2>1. PICK code \in Codes : advanceLocked(t.h, Works(code)) /\ Begins(t.h, code, {t})
      BY <1>4 DEF HandsOver
    <2>2. hs'[t.h].state = Works(code) /\ Works(code) # "preparing"
      BY <1>0, <2>1, Advance, WorkStates
    <2>3. PICK new \in Threads : /\ threads' = (threads \ {t}) \cup {new} /\ new.h = t.h
      BY <2>1 DEF Begins
    <2>4. PreparingIdle'
      BY <1>1, <2>2, <2>3 DEF PreparingIdle
    <2>5. t.code \in Forward
      BY <1>4 DEF HandsOver
    <2> QED
      BY <2>3, <2>4, <2>5 DEF OneForwardDriver
  <1>5. CASE Ends(t)
    <2>1. hs'[t.h].state \in {"complete", "failed"} /\ threads' = threads \ {t}
      BY <1>0, <1>5, Advance DEF Ends, States
    <2> QED
      BY <1>1, <2>1 DEF PreparingIdle, OneForwardDriver
  <1> QED
    BY <1>2, <1>3, <1>4, <1>5, StepShape

LEMMA ForwardMethod ==
    ASSUME TypeOK, PreparingIdle, OneForwardDriver, NEW h \in Hotswaps, Method(h)
    PROVE  PreparingIdle' /\ OneForwardDriver'
  <1>0. \A u \in threads : u.h \in DOMAIN hs
    BY DEF TypeOK
  <1>1. \A x \in DOMAIN hs' : x # h => x \in DOMAIN hs /\ hs'[x] = hs[x]
    BY MethodShape
  <1>2. DOMAIN hs \subseteq DOMAIN hs'
    BY DEF Method, Request, Confirm, Abort, Put, advanceLocked
  <1>3. CASE h \notin DOMAIN hs /\ threads' = threads
    BY <1>0, <1>1, <1>2, <1>3 DEF PreparingIdle, OneForwardDriver
  <1>4. CASE /\ h \notin DOMAIN hs \/ hs[h].state = "preparing"
             /\ hs'[h].state = "quiescing" /\ Begins(h, "quiesce", {})
    <2>1. PICK new \in Threads : threads' = threads \cup {new} /\ new.h = h
      BY <1>4 DEF Begins
    <2>2. \A u \in threads : u.h # h
      BY <1>0, <1>4 DEF PreparingIdle
    <2> QED
      BY <1>0, <1>1, <1>2, <1>4, <2>1, <2>2 DEF PreparingIdle, OneForwardDriver
  <1>5. CASE hs'[h].state = "rolling_back" /\ Begins(h, "rollback", {})
    <2>1. PICK new \in Threads : threads' = threads \cup {new} /\ new.code = "rollback" /\ new.h = h
      BY <1>5 DEF Begins
    <2> QED
      BY <1>0, <1>1, <1>2, <1>5, <2>1, CodeSets DEF PreparingIdle, OneForwardDriver
  <1> QED
    BY <1>3, <1>4, <1>5, MethodShape

\* No interleaving of Confirm, Abort and goroutines puts two forward drivers
\* to work for one hotswap: the check of the state and the go statement are
\* under one lock (Confirm, and the end of each drive function, manager.go).
THEOREM NobodyHelpedTwice == Spec => []OneForwardDriver
  <1>1. Init => TypeOK /\ FromMoves /\ PreparingIdle /\ OneForwardDriver
    <2>1. Init => PreparingIdle /\ OneForwardDriver
      BY DEF Init, PreparingIdle, OneForwardDriver
    <2> QED
      BY <2>1, InitTypes
  <1>2. TypeOK /\ FromMoves /\ PreparingIdle /\ OneForwardDriver /\ [Next]_vars
            => TypeOK' /\ FromMoves' /\ PreparingIdle' /\ OneForwardDriver'
    <2> SUFFICES ASSUME TypeOK, FromMoves, PreparingIdle, OneForwardDriver, [Next]_vars
                 PROVE  PreparingIdle' /\ OneForwardDriver'
      BY TypeStep
    <2>1. hs' = hs /\ threads' = threads => PreparingIdle' /\ OneForwardDriver'
      BY DEF PreparingIdle, OneForwardDriver
    <2> QED
      BY <2>1, NextCases, ForwardStep, ForwardMethod
  <1> QED
    BY <1>1, <1>2, PTL DEF Spec
-----------------------------------------------------------------------------
(* Without Aborts a hotswap has one goroutine at a time, which finds the   *)
(* state it expects.                                                       *)

NoAborts == MaxAborts = 0

\* One goroutine per hotswap, and the state is the one it works in.
OneDriver == \A t, u \in threads : t.h = u.h => t = u

InStep == \A t \in threads : hs[t.h].state = Works(t.code)

Solo == TypeOK /\ FromMoves /\ OneDriver /\ InStep

\* A step that leaves finished hotswaps as they are.
KeepsEnds == \A h \in DOMAIN hs : isTerminal(hs[h].state) => hs'[h].state = hs[h].state

\* A stage of goroutine t, when Solo holds: it never gives up.
LEMMA SoloStep ==
    ASSUME Solo, NEW t \in threads, Step(t)
    PROVE  /\ OneDriver' /\ InStep'
           /\ KeepsEnds
           /\ ~isTerminal(hs[t.h].state)
           /\ \A u \in threads : u # t => u.h # t.h /\ u \in threads'
           /\ GoesOn(t) \/ HandsOver(t) \/ Ends(t)
  <1>0. /\ t \in Threads /\ t.code \in Codes /\ t.h \in DOMAIN hs /\ TypeOK
        /\ hs \in [DOMAIN hs -> Hotswap] /\ \A u \in threads : u.h \in DOMAIN hs
        /\ hs[t.h].state = Works(t.code) /\ \A u \in threads : u # t => u.h # t.h
    BY DEF Solo, TypeOK, Threads, OneDriver, InStep
  <1>1. ~isTerminal(hs[t.h].state)
    BY <1>0, WorkStates DEF isTerminal
  <1>2. GoesOn(t) \/ HandsOver(t) \/ Ends(t)
    BY <1>0, StepShape DEF GivesUp
  <1>3. /\ DOMAIN hs' = DOMAIN hs /\ \A x \in DOMAIN hs : x # t.h => hs'[x] = hs[x]
    BY <1>0, StepMoves
  <1>4. ASSUME GoesOn(t)
        PROVE  OneDriver' /\ InStep'
    BY <1>0, <1>4 DEF GoesOn, Solo, OneDriver, InStep
  <1>5. ASSUME HandsOver(t)
        PROVE  OneDriver' /\ InStep'
    <2>1. PICK code \in Codes : advanceLocked(t.h, Works(code)) /\ Begins(t.h, code, {t})
      BY <1>5 DEF HandsOver
    <2>2. hs'[t.h].state = Works(code)
      BY <1>0, <2>1, Advance, WorkStates
    <2>3. PICK new \in Threads : /\ threads' = (threads \ {t}) \cup {new}
                                 /\ new.h = t.h /\ new.code = code
      BY <2>1 DEF Begins
    <2> QED
      BY <1>0, <1>3, <2>2, <2>3 DEF Solo, OneDriver, InStep
  <1>6. ASSUME Ends(t)
        PROVE  OneDriver' /\ InStep'
    BY <1>0, <1>3, <1>6 DEF Ends, Solo, OneDriver, InStep
  <1>7. OneDriver' /\ InStep'
    BY <1>2, <1>4, <1>5, <1>6
  <1>8. \A u \in threads : u # t => u \in threads'
    BY <1>2 DEF GoesOn, HandsOver, Ends, Begins
  <1> QED
    BY <1>0, <1>1, <1>2, <1>3, <1>7, <1>8 DEF KeepsEnds

\* A call of a method, when Solo holds and there are no Aborts: the hotswap
\* was new or PREPARING and had no goroutine.
LEMMA SoloMethod ==
    ASSUME NoAborts, Solo, NEW h \in Hotswaps, Method(h)
    PROVE  /\ OneDriver' /\ InStep'
           /\ KeepsEnds
           /\ DOMAIN hs' = DOMAIN hs \cup {h}
           /\ \A x \in DOMAIN hs : x # h => hs'[x] = hs[x]
           /\ hs'[h].state \in {"preparing", "quiescing"}
           /\ h \in DOMAIN hs => hs[h].state = "preparing" /\ hs'[h].source = hs[h].source
           /\ \A u \in threads : u.h # h /\ u \in threads'
           /\ \A u \in threads' : u \in threads \/ (u.h = h /\ u.code = "quiesce" /\ u.at = "start")
  <1>0. /\ \A u \in threads : u.h \in DOMAIN hs /\ u.code \in Codes
        /\ TypeOK /\ hs \in [DOMAIN hs -> Hotswap] /\ "quiescing" \in States
    BY DEF Solo, TypeOK, Threads, States
  <1>1. /\ h \in DOMAIN hs'
        /\ \A x \in DOMAIN hs' : x # h => x \in DOMAIN hs /\ hs'[x] = hs[x]
        /\ \/ /\ h \notin DOMAIN hs /\ hs'[h].state = "preparing" /\ threads' = threads
           \/ /\ h \notin DOMAIN hs \/ hs[h].state = "preparing"
              /\ hs'[h].state = "quiescing" /\ Begins(h, "quiesce", {})
    <2>1. ~(aborts < MaxAborts)
      BY <1>0 DEF TypeOK, NoAborts
    <2> QED
      BY <1>0, <2>1, MethodShape
  <1>2. DOMAIN hs \subseteq DOMAIN hs'
    BY DEF Method, Request, Confirm, Abort, Put, advanceLocked
  <1>3. h \in DOMAIN hs => hs[h].state = "preparing" /\ hs'[h].source = hs[h].source
    <2> SUFFICES ASSUME h \in DOMAIN hs
                 PROVE  hs'[h].source = hs[h].source
      BY <1>1
    <2>1. Confirm(h) \/ Abort(h)
      BY DEF Method, Request
    <2> QED
      BY <1>0, <2>1, Advance DEF Confirm, Abort, States
  <1>4. \A u \in threads : u.h # h
    <2>1. \A u \in threads : hs[u.h].state # "preparing"
      BY <1>0, WorkStates DEF Solo, InStep
    <2> QED
      BY <1>0, <1>1, <2>1
  <1>5. \/ threads' = threads
        \/ /\ hs'[h].state = "quiescing"
           /\ \E new \in Threads : /\ threads' = threads \cup {new} /\ new.h = h
                                   /\ new.code = "quiesce" /\ new.at = "start"
    BY <1>1 DEF Begins
  <1>6. OneDriver'
    BY <1>4, <1>5 DEF Solo, OneDriver
  <1>7. InStep'
    <2>1. \A u \in threads : hs'[u.h].state = Works(u.code)
      BY <1>0, <1>1, <1>2, <1>4 DEF Solo, InStep
    <2> QED
      BY <1>5, <2>1, WorkStates DEF InStep
  <1>8. KeepsEnds
    BY <1>1, <1>2, <1>3 DEF KeepsEnds, isTerminal
  <1> QED
    BY <1>1, <1>2, <1>3, <1>4, <1>5, <1>6, <1>7, <1>8
LEMMA SoloInit == ASSUME Init PROVE Solo /\ OneActive
  <1>1. OneDriver /\ InStep /\ OneActive
    BY DEF Init, OneDriver, InStep, OneActive
  <1> QED
    BY <1>1, InitTypes DEF Solo

LEMMA SoloNext ==
    ASSUME NoAborts, Solo, [Next]_vars
    PROVE  Solo' /\ KeepsEnds
  <1>1. TypeOK' /\ FromMoves' /\ TypeOK
    BY TypeStep DEF Solo
  <1>2. ASSUME hs' = hs, threads' = threads
        PROVE  OneDriver' /\ InStep' /\ KeepsEnds
    BY <1>2 DEF Solo, OneDriver, InStep, KeepsEnds
  <1>3. OneDriver' /\ InStep' /\ KeepsEnds
    BY <1>1, <1>2, NextCases, SoloStep, SoloMethod
  <1> QED
    BY <1>1, <1>3 DEF Solo

\* Request refuses a second hotswap of a tenant that has one in progress.
LEMMA RequestGuard ==
    ASSUME NEW h \in Hotswaps, Method(h), h \notin DOMAIN hs, NEW x \in DOMAIN hs,
           hs[x].source.instance = hs'[h].source.instance,
           hs[x].source.name = hs'[h].source.name
    PROVE  isTerminal(hs[x].state)
  <1>1. PICK move \in Moves, iolu \in IoluModes, auto \in AutoAdvance :
            Request(h, move, iolu, auto)
    BY DEF Method
  <1>2. hs'[h].source = move.source
    BY <1>1 DEF Request, Put
  <1> QED
    BY <1>1, <1>2 DEF Request

\* The references of a hotswap that exists never change.
LEMMA SourcesKept ==
    ASSUME NoAborts, Solo, [Next]_vars
    PROVE  /\ DOMAIN hs \subseteq DOMAIN hs'
           /\ \A x \in DOMAIN hs : hs'[x].source = hs[x].source
  <1>0. TypeOK
    BY DEF Solo
  <1>1. ASSUME NEW h \in Hotswaps, Method(h)
        PROVE  DOMAIN hs \subseteq DOMAIN hs' /\ \A x \in DOMAIN hs : hs'[x].source = hs[x].source
    BY <1>1, SoloMethod
  <1>2. ASSUME NEW t \in threads, Step(t)
        PROVE  DOMAIN hs \subseteq DOMAIN hs' /\ \A x \in DOMAIN hs : hs'[x].source = hs[x].source
    BY <1>0, <1>2, StepMoves
  <1> QED
    BY <1>0, <1>1, <1>2, NextCases

LEMMA OneActiveNext ==
    ASSUME NoAborts, Solo, OneActive, [Next]_vars
    PROVE  OneActive'
  <1> SUFFICES ASSUME NEW h \in DOMAIN hs', NEW k \in DOMAIN hs', h # k,
                      hs'[h].source.instance = hs'[k].source.instance,
                      hs'[h].source.name = hs'[k].source.name,
                      ~isTerminal(hs'[h].state)
               PROVE  isTerminal(hs'[k].state)
    BY DEF OneActive, SourceTenant
  <1>0. TypeOK /\ KeepsEnds
    BY SoloNext DEF Solo
  <1>1. \A x \in DOMAIN hs : /\ hs'[x].source = hs[x].source
                             /\ isTerminal(hs[x].state) => isTerminal(hs'[x].state)
    BY <1>0, SourcesKept DEF KeepsEnds
  <1>2. CASE h \in DOMAIN hs /\ k \in DOMAIN hs
    <2>1. hs'[h].source = hs[h].source /\ hs'[k].source = hs[k].source
      BY <1>1, <1>2
    <2>2. SourceTenant(h) = SourceTenant(k)
      BY <2>1 DEF SourceTenant
    <2>3. ~isTerminal(hs[h].state)
      BY <1>1, <1>2
    <2>4. isTerminal(hs[k].state)
      BY <1>2, <2>2, <2>3 DEF OneActive
    <2> QED
      BY <1>1, <1>2, <2>4
  <1>3. ASSUME NEW x \in Hotswaps, Method(x)
        PROVE  DOMAIN hs' = DOMAIN hs \cup {x}
    BY <1>3, SoloMethod
  <1>4. ASSUME ~(h \in DOMAIN hs /\ k \in DOMAIN hs)
        PROVE  \E x \in Hotswaps : Method(x)
    BY <1>0, <1>4, NextCases, StepMoves
  <1>5. CASE h \notin DOMAIN hs
    <2>1. PICK x \in Hotswaps : Method(x)
      BY <1>4, <1>5
    <2>2. x = h /\ k \in DOMAIN hs
      BY <1>3, <1>5, <2>1
    <2>3. hs[k].source = hs'[k].source
      BY <1>1, <2>2
    <2>4. Method(h) /\ h \in Hotswaps
      BY <2>1, <2>2
    <2>5. isTerminal(hs[k].state)
      BY <1>5, <2>2, <2>3, <2>4, RequestGuard
    <2> QED
      BY <1>1, <2>2, <2>5
  <1>6. CASE k \notin DOMAIN hs
    <2>1. PICK x \in Hotswaps : Method(x)
      BY <1>4, <1>6
    <2>2. x = k /\ h \in DOMAIN hs
      BY <1>3, <1>6, <2>1
    <2>3. hs[h].source = hs'[h].source
      BY <1>1, <2>2
    <2>4. Method(k) /\ k \in Hotswaps
      BY <2>1, <2>2
    <2>5. isTerminal(hs[h].state)
      BY <1>6, <2>2, <2>3, <2>4, RequestGuard
    <2> QED
      BY <1>1, <2>2, <2>5
  <1> QED
    BY <1>2, <1>5, <1>6
\* The invariant of the theorems below.
SoloInv == Solo /\ OneActive

LEMMA SoloAlways ==
    ASSUME NoAborts
    PROVE  Spec => []SoloInv
  <1>1. Init => SoloInv
    BY SoloInit DEF SoloInv
  <1>2. SoloInv /\ [Next]_vars => SoloInv'
    BY SoloNext, OneActiveNext DEF SoloInv
  <1> QED
    BY <1>1, <1>2, PTL DEF Spec

\* Without Aborts COMPLETE and FAILED are final: the goroutines that write them
\* whatever the state is by now (driveCutover, driveRollback) never run beside
\* another of the same hotswap.
THEOREM EndsAreFinal ==
    ASSUME NoAborts
    PROVE  Spec => TerminalIsFinal
  <1>1. Spec => []SoloInv
    BY SoloAlways
  <1>2. SoloInv /\ [Next]_vars =>
            [\A h \in DOMAIN hs : isTerminal(hs[h].state) => hs'[h].state = hs[h].state]_vars
    BY SoloNext DEF SoloInv, KeepsEnds
  <1> QED
    BY <1>1, <1>2, PTL DEF Spec, TerminalIsFinal

-----------------------------------------------------------------------------
(* The source is blocked while data moves and free after a failure.        *)

CallsSucceed == ~CallsMayFail

\* Between the quiesce call and MIGRATING the source is blocked; between the
\* unquiesce call and FAILED it is free.
Called ==
    \A t \in threads : t.at = "finish" =>
        /\ t.code = "quiesce" => SourceTenant(t.h) \in quiesced
        /\ t.code = "rollback" => SourceTenant(t.h) \notin quiesced

QuiesceInv == SoloInv /\ Called /\ WritesBlockedWhileMoving /\ QuiesceLifted

\* The methods make no call and start with a hotswap that needs none yet.
LEMMA QuiesceMethod ==
    ASSUME NoAborts, QuiesceInv, NEW h \in Hotswaps, Method(h)
    PROVE  Called' /\ WritesBlockedWhileMoving' /\ QuiesceLifted'
  <1>0. /\ Solo /\ TypeOK /\ \A u \in threads : u.h \in DOMAIN hs
        /\ Called /\ WritesBlockedWhileMoving /\ QuiesceLifted
    BY DEF QuiesceInv, SoloInv, Solo, TypeOK
  <1>1. /\ DOMAIN hs' = DOMAIN hs \cup {h}
        /\ \A x \in DOMAIN hs : x # h => hs'[x] = hs[x]
        /\ hs'[h].state \in {"preparing", "quiescing"}
        /\ h \in DOMAIN hs => hs'[h].source = hs[h].source
        /\ \A u \in threads : u.h # h /\ u \in threads'
        /\ \A u \in threads' : u \in threads \/ u.at = "start"
    BY <1>0, SoloMethod
  <1>2. quiesced' = quiesced
    BY DEF Method, Request, Confirm, Abort
  <1>3. \A x \in DOMAIN hs : SourceTenant(x)' = SourceTenant(x)
    BY <1>1 DEF SourceTenant
  <1>4. Called'
    BY <1>0, <1>1, <1>2, <1>3 DEF Called
  <1>5. WritesBlockedWhileMoving'
    BY <1>0, <1>1, <1>2, <1>3 DEF WritesBlockedWhileMoving
  <1>6. QuiesceLifted'
    BY <1>0, <1>1, <1>2, <1>3 DEF QuiesceLifted
  <1> QED
    BY <1>4, <1>5, <1>6
\* What a stage of t does to the source of its hotswap.
Moving(s) == s \in {"migrating", "validating", "cutting_over"}

QuiesceEffect(t) ==
    /\ \A u \in threads' : u.h = t.h /\ u.at = "finish" =>
          /\ u.code = "quiesce" => SourceTenant(t.h) \in quiesced'
          /\ u.code = "rollback" => SourceTenant(t.h) \notin quiesced'
    /\ Moving(hs'[t.h].state) => SourceTenant(t.h) \in quiesced'
    /\ hs'[t.h].state = "failed" => SourceTenant(t.h) \notin quiesced'
    /\ \A p : p # SourceTenant(t.h) => (p \in quiesced' <=> p \in quiesced)

LEMMA QuiesceEffects ==
    ASSUME CallsSucceed, QuiesceInv, NEW t \in threads, Step(t)
    PROVE  QuiesceEffect(t)
  <1>0. /\ t \in Threads /\ t.h \in DOMAIN hs /\ t.h \in Hotswaps /\ t.code \in Codes /\ TypeOK
        /\ hs \in [DOMAIN hs -> Hotswap] /\ hs[t.h].state = Works(t.code)
        /\ started \in [Hotswaps -> Nat] /\ {t} \in SUBSET threads
        /\ Called /\ WritesBlockedWhileMoving
        /\ \A u \in threads : u # t => u.h # t.h
    BY DEF QuiesceInv, SoloInv, Solo, TypeOK, Threads, InStep, OneDriver
  <1>w. /\ Moving(hs[t.h].state) => SourceTenant(t.h) \in quiesced
        /\ hs[t.h].state # "failed"
    BY <1>0, WorkStates DEF WritesBlockedWhileMoving, Moving
  <1>c. /\ "migration" \in Codes /\ "validation" \in Codes /\ "cutover" \in Codes
        /\ "rollback" \in Codes
        /\ {"migrating", "validating", "cutting_over", "rolling_back", "complete",
            "failed"} \subseteq States
    BY DEF Codes, Forward, States
  <1>a. ASSUME NEW s \in States, advanceLocked(t.h, s)
        PROVE  hs'[t.h].state = s
    BY <1>0, <1>a, Advance
  <1>g. ASSUME NEW code \in Codes, Go(t.h, code, {t})
        PROVE  \A u \in threads' : u.h = t.h => u.at = "start"
    BY <1>0, <1>g, GoEffect DEF Begins
  <1>1. CASE Start(t)
    <2>1. hs' = hs /\ quiesced' = quiesced /\ \A u \in threads' : u.h = t.h => u.at = "call"
      BY <1>0, <1>1 DEF Start, Returns, Continues, Threads
    <2> QED
      BY <1>w, <2>1 DEF QuiesceEffect
  <1>2. CASE QuiesceCall(t)
    <2>1. /\ hs' = hs /\ quiesced' = quiesced \cup {SourceTenant(t.h)} /\ t.code = "quiesce"
          /\ \A u \in threads' : u.h = t.h => u.code = "quiesce"
      BY <1>0, <1>2 DEF QuiesceCall, Continues, Threads, CallsSucceed
    <2> QED
      BY <1>w, <2>1 DEF QuiesceEffect
  <1>3. CASE RollbackCall(t)
    <2>1. /\ hs' = hs /\ quiesced' = quiesced \ {SourceTenant(t.h)} /\ t.code = "rollback"
          /\ \A u \in threads' : u.h = t.h => u.code = "rollback"
      BY <1>0, <1>3 DEF RollbackCall, Continues, Threads, CallsSucceed
    <2>2. ~Moving(hs[t.h].state) /\ hs[t.h].state # "failed"
      BY <1>0, <2>1, WorkStates DEF Moving
    <2> QED
      BY <2>1, <2>2 DEF QuiesceEffect
  <1>4. CASE QuiesceFinish(t)
    <2>1. /\ quiesced' = quiesced /\ hs'[t.h].state \in {"migrating", hs[t.h].state}
          /\ \A u \in threads' : u.h = t.h => u.at = "start"
      BY <1>0, <1>4, <1>a, <1>c, <1>g DEF QuiesceFinish, Returns
    <2>2. SourceTenant(t.h) \in quiesced
      BY <1>0, <1>4 DEF QuiesceFinish, Called
    <2> QED
      BY <1>w, <2>1, <2>2 DEF QuiesceEffect
  <1>5. CASE MigrationError(t) \/ MigrationDone(t)
    <2>1. /\ quiesced' = quiesced
          /\ hs'[t.h].state \in {"validating", "rolling_back", hs[t.h].state}
          /\ \A u \in threads' : u.h = t.h => u.at = "start"
      BY <1>0, <1>5, <1>a, <1>c, <1>g DEF MigrationError, MigrationDone, failHotswap, Returns
    <2>2. hs[t.h].state = "migrating"
      BY <1>0, <1>5, WorkStates DEF MigrationError, MigrationDone
    <2> QED
      BY <1>w, <2>1, <2>2 DEF QuiesceEffect, Moving
  <1>6. ASSUME NEW valid \in BOOLEAN, ValidationDone(t, valid)
        PROVE  QuiesceEffect(t)
    <2>1. /\ quiesced' = quiesced
          /\ hs'[t.h].state \in {"cutting_over", "rolling_back", hs[t.h].state}
          /\ \A u \in threads' : u.h = t.h => u.at = "start"
      BY <1>0, <1>6, <1>a, <1>c, <1>g DEF ValidationDone, Returns
    <2>2. hs[t.h].state = "validating"
      BY <1>0, <1>6, WorkStates DEF ValidationDone
    <2> QED
      BY <1>w, <2>1, <2>2 DEF QuiesceEffect, Moving
  <1>7. CASE CutoverList(t) \/ CutoverTransfer(t) \/ \E g \in GlobalIDs : CutoverGet(t, g)
    <2>1. /\ hs' = hs /\ quiesced' = quiesced
          /\ \A u \in threads' : u.h = t.h => u.code = "cutover"
      BY <1>0, <1>7 DEF CutoverList, CutoverTransfer, CutoverGet, Continues, Threads
    <2> QED
      BY <1>w, <2>1 DEF QuiesceEffect
  <1>8. CASE CutoverFinish(t)
    <2>1. /\ hs'[t.h].state = "complete" /\ quiesced' = quiesced /\ \A u \in threads' : u.h # t.h
      BY <1>0, <1>8, <1>a, <1>c DEF CutoverFinish, Returns
    <2> QED
      BY <2>1 DEF QuiesceEffect, Moving
  <1>9. CASE RollbackFinish(t)
    <2>1. /\ hs'[t.h].state = "failed" /\ quiesced' = quiesced /\ \A u \in threads' : u.h # t.h
      BY <1>0, <1>9, <1>a, <1>c DEF RollbackFinish, Returns
    <2>2. SourceTenant(t.h) \notin quiesced
      BY <1>0, <1>9 DEF RollbackFinish, Called
    <2> QED
      BY <2>1, <2>2 DEF QuiesceEffect, Moving
  <1> QED
    BY <1>1, <1>2, <1>3, <1>4, <1>5, <1>6, <1>7, <1>8, <1>9 DEF Step

LEMMA QuiesceStep ==
    ASSUME CallsSucceed, QuiesceInv, NEW t \in threads, Step(t)
    PROVE  Called' /\ WritesBlockedWhileMoving' /\ QuiesceLifted'
  <1>0. /\ t.h \in DOMAIN hs /\ Solo /\ TypeOK /\ OneActive
        /\ \A u \in threads : /\ u.h \in DOMAIN hs /\ u.code \in Codes
                              /\ hs[u.h].state = Works(u.code)
        /\ Called /\ WritesBlockedWhileMoving /\ QuiesceLifted
    BY DEF QuiesceInv, SoloInv, Solo, TypeOK, Threads, InStep
  <1>1. \A u \in threads : ~isTerminal(hs[u.h].state)
    BY <1>0, WorkStates DEF isTerminal
  <1>2. \A x \in DOMAIN hs : x # t.h /\ SourceTenant(x) = SourceTenant(t.h) =>
            isTerminal(hs[x].state)
    BY <1>0, <1>1 DEF OneActive
  <1>3. \A u \in threads : u # t => u.h # t.h /\ u \in threads'
    BY <1>0, SoloStep
  <1>4. /\ DOMAIN hs' = DOMAIN hs /\ \A x \in DOMAIN hs : x # t.h => hs'[x] = hs[x]
        /\ \A x \in DOMAIN hs : SourceTenant(x)' = SourceTenant(x)
    BY <1>0, StepMoves DEF SourceTenant
  <1>5. \A u \in threads' \ threads : u.h = t.h
    BY <1>0, StepShape DEF GoesOn, GivesUp, HandsOver, Ends, Begins
  <1>6. QuiesceEffect(t)
    BY QuiesceEffects
  <1>7. \A u \in threads' : u.h # t.h => u \in threads /\ SourceTenant(u.h) # SourceTenant(t.h)
    BY <1>0, <1>1, <1>2, <1>5
  <1>8. Called'
    <2> SUFFICES ASSUME NEW u \in threads', u.at = "finish"
                 PROVE  /\ u.code = "quiesce" => SourceTenant(u.h) \in quiesced'
                        /\ u.code = "rollback" => SourceTenant(u.h) \notin quiesced'
      BY <1>0, <1>4, <1>5 DEF Called
    <2>1. CASE u.h = t.h
      BY <1>6, <2>1 DEF QuiesceEffect
    <2>2. CASE u.h # t.h
      BY <1>0, <1>6, <1>7, <2>2 DEF Called, QuiesceEffect
    <2> QED
      BY <2>1, <2>2
  <1>9. WritesBlockedWhileMoving'
    <2> SUFFICES ASSUME NEW x \in DOMAIN hs, Moving(hs'[x].state)
                 PROVE  SourceTenant(x) \in quiesced'
      BY <1>4 DEF WritesBlockedWhileMoving, Moving
    <2>1. CASE x = t.h
      BY <1>6, <2>1 DEF QuiesceEffect
    <2>2. CASE x # t.h
      <3>1. Moving(hs[x].state) /\ SourceTenant(x) \in quiesced
        BY <1>0, <1>4, <2>2 DEF WritesBlockedWhileMoving, Moving
      <3>2. SourceTenant(x) # SourceTenant(t.h)
        BY <1>2, <2>2, <3>1 DEF Moving, isTerminal
      <3> QED
        BY <1>6, <3>1, <3>2 DEF QuiesceEffect
    <2> QED
      BY <2>1, <2>2
  <1>10. QuiesceLifted'
    <2> SUFFICES ASSUME NEW x \in DOMAIN hs, hs'[x].state = "failed",
                        \A u \in threads' : u.h # x,
                        \A k \in DOMAIN hs \ {x} : SourceTenant(k) # SourceTenant(x)
                 PROVE  SourceTenant(x) \notin quiesced'
      BY <1>4 DEF QuiesceLifted
    <2>1. CASE x = t.h
      BY <1>6, <2>1 DEF QuiesceEffect
    <2>2. CASE x # t.h
      <3>1. hs[x].state = "failed" /\ \A u \in threads : u.h # x
        BY <1>3, <1>4, <2>2
      <3>2. SourceTenant(x) \notin quiesced /\ SourceTenant(t.h) # SourceTenant(x)
        BY <1>0, <2>2, <3>1 DEF QuiesceLifted
      <3> QED
        BY <1>6, <3>2 DEF QuiesceEffect
    <2> QED
      BY <2>1, <2>2
  <1> QED
    BY <1>8, <1>9, <1>10
\* When nobody aborts and the calls to xolu succeed, the source refuses the
\* tenant's writes from MIGRATING to CUTTING_OVER and accepts them again once
\* the hotswap has FAILED and its goroutines are gone (driveQuiesce,
\* driveRollback): no other hotswap of the tenant lifts or sets the block
\* meanwhile, because Request admits one at a time.
THEOREM SourceBlocked ==
    ASSUME NoAborts, CallsSucceed
    PROVE  Spec => []QuiesceHeld
  <1>1. Init => QuiesceInv
    <2>1. Init => Called /\ WritesBlockedWhileMoving /\ QuiesceLifted
      BY DEF Init, Called, WritesBlockedWhileMoving, QuiesceLifted
    <2> QED
      BY <2>1, SoloInit DEF QuiesceInv, SoloInv
  <1>2. QuiesceInv /\ [Next]_vars => QuiesceInv'
    <2> SUFFICES ASSUME QuiesceInv, [Next]_vars
                 PROVE  QuiesceInv'
      OBVIOUS
    <2>1. SoloInv' /\ TypeOK
      BY SoloNext, OneActiveNext DEF QuiesceInv, SoloInv, Solo
    <2>2. ASSUME hs' = hs, threads' = threads, quiesced' = quiesced
          PROVE  Called' /\ WritesBlockedWhileMoving' /\ QuiesceLifted'
      BY <2>2 DEF QuiesceInv, Called, WritesBlockedWhileMoving, QuiesceLifted, SourceTenant
    <2> QED
      BY <2>1, <2>2, NextCases, QuiesceMethod, QuiesceStep DEF QuiesceInv
  <1>3. QuiesceInv => QuiesceHeld
    BY DEF QuiesceInv, QuiesceHeld
  <1> QED
    BY <1>1, <1>2, <1>3, PTL DEF Spec
-----------------------------------------------------------------------------
(* FAILED means untouched.                                                 *)

\* The ID of a hotswap is the Protocol of no transfer but its own.
OwnProtocols ==
    /\ ClientProtocol \notin Hotswaps
    /\ \A g \in DOMAIN InitRecords : \A i \in 1..Len(InitRecords[g].history) :
           InitRecords[g].history[i].protocol \notin Hotswaps

\* Who writes an entry into a history: nobody, a client, or the cutover.
LEMMA EntryOrigin ==
    ASSUME TypeOK, FromMoves, [Next]_vars,
           NEW x \in DOMAIN records', NEW i \in 1..Len(records'[x].history)
    PROVE  \/ /\ x \in DOMAIN records /\ i \in 1..Len(records[x].history)
              /\ records'[x].history[i] = records[x].history[i]
           \/ records'[x].history[i].protocol = ClientProtocol
           \/ \E t \in threads : /\ CutoverTransfer(t) /\ x = t.got[1]
                                 /\ MayTransfer(records, x, t.got[2])
                                 /\ records'[x].history[i].protocol = t.h
                                 /\ records'[x].history[i].from = t.got[2]
  <1>0. records \in [DOMAIN records -> Record] /\ ClientProtocol \in Protocols
    BY HotswapAssumption DEF TypeOK
  <1>1. CASE records' = records
    BY <1>1
  <1>2. ASSUME NEW g \in GlobalIDs, Client(g)
        PROVE  \/ /\ x \in DOMAIN records /\ i \in 1..Len(records[x].history)
                  /\ records'[x].history[i] = records[x].history[i]
               \/ records'[x].history[i].protocol = ClientProtocol
    <2>1. ASSUME NEW owner \in LocalRefs, g \notin DOMAIN records,
                 records' = Put(records, g, NewRecord(owner))
          PROVE  /\ x \in DOMAIN records /\ i \in 1..Len(records[x].history)
                 /\ records'[x].history[i] = records[x].history[i]
      BY <2>1, PutCases DEF NewRecord
    <2>2. ASSUME NEW from \in LocalRefs, NEW to \in LocalRefs, MayTransfer(records, g, from),
                 records' = Put(records, g, Transferred(records[g], from, to, ClientProtocol))
          PROVE  \/ /\ x \in DOMAIN records /\ i \in 1..Len(records[x].history)
                    /\ records'[x].history[i] = records[x].history[i]
                 \/ records'[x].history[i].protocol = ClientProtocol
      <3>1. g \in DOMAIN records
        BY <2>2 DEF MayTransfer
      <3>2. \/ /\ x \in DOMAIN records /\ i \in 1..Len(records[x].history)
               /\ records'[x].history[i] = records[x].history[i]
            \/ /\ x = g
               /\ records'[x].history[i] =
                      [from |-> from, to |-> to, protocol |-> ClientProtocol]
        BY <1>0, <2>2, <3>1, TransferredEntries
      <3> QED
        BY <3>2
    <2>3. ASSUME MayRetire(records, g), records' = Put(records, g, Retired(records[g]))
          PROVE  /\ x \in DOMAIN records /\ i \in 1..Len(records[x].history)
                 /\ records'[x].history[i] = records[x].history[i]
      <3>1. g \in DOMAIN records /\ records[g] \in Record
        BY <1>0, <2>3 DEF MayRetire
      <3>2. Retired(records[g]).history = records[g].history
        BY <3>1, RetiredRecord
      <3> QED
        BY <2>3, <3>1, <3>2, PutCases
    <2> QED
      BY <1>2, <2>1, <2>2, <2>3 DEF Client
  <1>3. ASSUME NEW t \in threads, CutoverTransfer(t), records' # records
        PROVE  \/ /\ x \in DOMAIN records /\ i \in 1..Len(records[x].history)
                  /\ records'[x].history[i] = records[x].history[i]
               \/ /\ x = t.got[1] /\ MayTransfer(records, x, t.got[2])
                  /\ records'[x].history[i].protocol = t.h
                  /\ records'[x].history[i].from = t.got[2]
    <2> DEFINE g == t.got[1]
               from == t.got[2]
               to == newRef(hs[t.h].target, from)
    <2>1. /\ MayTransfer(records, g, from)
          /\ records' = Put(records, g, Transferred(records[g], from, to, t.h))
      BY <1>3 DEF CutoverTransfer
    <2>2. t \in Threads /\ t.h \in DOMAIN hs /\ t.h \in Hotswaps /\ t.got # <<>>
      BY <1>3 DEF CutoverTransfer, TypeOK
    <2>3. from \in LocalRefs
      BY <2>2 DEF Threads
    <2>4. t.h \in Protocols /\ to \in LocalRefs
      <3>1. PICK m \in Moves : hs[t.h].target = m.target
        BY <2>2 DEF FromMoves
      <3> QED
        BY <2>2, <2>3, <3>1, HotswapAssumption
    <2>5. g \in DOMAIN records
      BY <2>1 DEF MayTransfer
    <2> HIDE DEF g, from, to
    <2>6. \/ /\ x \in DOMAIN records /\ i \in 1..Len(records[x].history)
             /\ records'[x].history[i] = records[x].history[i]
          \/ x = g /\ records'[x].history[i] = [from |-> from, to |-> to, protocol |-> t.h]
      BY <1>0, <2>1, <2>3, <2>4, <2>5, TransferredEntries, SMTT(30)
    <2> QED
      BY <2>1, <2>6 DEF g, from
  <1>4. \/ records' = records
        \/ \E g \in GlobalIDs : Client(g)
        \/ \E t \in threads : CutoverTransfer(t) /\ records' # records
    BY DEF Next, vars, Request, Confirm, Abort, Step, Start, QuiesceCall, QuiesceFinish,
           MigrationError, MigrationDone, ValidationDone, CutoverList, CutoverGet,
           CutoverFinish, RollbackCall, RollbackFinish
  <1> QED
    BY <1>1, <1>2, <1>3, <1>4
\* An entry with the ID of a hotswap as its Protocol is there only while that
\* hotswap cuts over or is complete.
Written ==
    \A x \in DOMAIN records : \A i \in 1..Len(records[x].history) :
        LET h == records[x].history[i].protocol
        IN  h \in Hotswaps => h \in DOMAIN hs /\ hs[h].state \in {"cutting_over", "complete"}

\* From CUTTING_OVER the only way is COMPLETE.
LEMMA CuttingOverStays ==
    ASSUME NoAborts, Solo, [Next]_vars, NEW h \in DOMAIN hs,
           hs[h].state \in {"cutting_over", "complete"}
    PROVE  h \in DOMAIN hs' /\ hs'[h].state \in {"cutting_over", "complete"}
  <1>0. TypeOK /\ hs \in [DOMAIN hs -> Hotswap] /\ \A u \in threads : u.h \in DOMAIN hs
    BY DEF Solo, TypeOK
  <1>1. ASSUME NEW k \in Hotswaps, Method(k)
        PROVE  h \in DOMAIN hs' /\ hs'[h].state \in {"cutting_over", "complete"}
    BY <1>1, SoloMethod
  <1>2. ASSUME NEW t \in threads, Step(t)
        PROVE  h \in DOMAIN hs' /\ hs'[h].state \in {"cutting_over", "complete"}
    <2>1. /\ DOMAIN hs' = DOMAIN hs /\ \A x \in DOMAIN hs : x # t.h => hs'[x] = hs[x]
      BY <1>0, <1>2, StepMoves
    <2>2. CASE h = t.h
      <3>1. t.code = "cutover"
        <4>1. hs[h].state = Works(t.code) /\ t.code \in Codes
          BY <2>2 DEF Solo, InStep, TypeOK, Threads
        <4>2. "cutover" \in Codes /\ Works("cutover") = "cutting_over"
          BY WorkStates, CodeSets
        <4> QED
          BY <4>1, <4>2, WorkStates
      <3>2. GoesOn(t) \/ Ends(t)
        BY <1>2, <3>1, SoloStep DEF HandsOver
      <3>3. CASE GoesOn(t)
        BY <2>1, <3>3 DEF GoesOn
      <3>4. CASE Ends(t)
        <4>1. advanceLocked(h, "complete") /\ "complete" \in States
          BY <2>2, <3>1, <3>4 DEF Ends, States
        <4> QED
          BY <1>0, <2>1, <4>1, Advance
      <3> QED
        BY <3>2, <3>3, <3>4
    <2>3. CASE h # t.h
      BY <2>1, <2>3
    <2> QED
      BY <2>2, <2>3
  <1> QED
    BY <1>0, <1>1, <1>2, NextCases

LEMMA WrittenNext ==
    ASSUME NoAborts, OwnProtocols, Solo, Written, [Next]_vars
    PROVE  Written'
  <1> SUFFICES ASSUME NEW x \in DOMAIN records', NEW i \in 1..Len(records'[x].history),
                      records'[x].history[i].protocol \in Hotswaps
               PROVE  /\ records'[x].history[i].protocol \in DOMAIN hs'
                      /\ hs'[records'[x].history[i].protocol].state
                            \in {"cutting_over", "complete"}
    BY DEF Written
  <1> DEFINE h == records'[x].history[i].protocol
  <1>0. TypeOK /\ FromMoves /\ h # ClientProtocol
    BY DEF Solo, OwnProtocols
  <1>1. h \in DOMAIN hs /\ hs[h].state \in {"cutting_over", "complete"}
    <2>1. CASE /\ x \in DOMAIN records /\ i \in 1..Len(records[x].history)
               /\ records'[x].history[i] = records[x].history[i]
      BY <2>1 DEF Written
    <2>2. ASSUME NEW t \in threads, CutoverTransfer(t), h = t.h
          PROVE  h \in DOMAIN hs /\ hs[h].state \in {"cutting_over", "complete"}
      <3>1. t.code = "cutover"
        BY <2>2 DEF CutoverTransfer
      <3>2. h \in DOMAIN hs /\ hs[h].state = Works(t.code)
        BY <2>2 DEF Solo, TypeOK, InStep
      <3> QED
        BY <3>1, <3>2, WorkStates
    <2> QED
      BY <1>0, <2>1, <2>2, EntryOrigin
  <1> HIDE DEF h
  <1>2. h \in DOMAIN hs' /\ hs'[h].state \in {"cutting_over", "complete"}
    BY <1>1, CuttingOverStays
  <1> QED
    BY <1>2 DEF h

LEMMA WrittenInit == ASSUME OwnProtocols, Init PROVE Written
  BY DEF Init, OwnProtocols, Written

\* Without Aborts a hotswap that FAILED has transferred nothing, whatever
\* other hotswaps and clients do to the registry: a hotswap never fails from
\* CUTTING_OVER on (driveCutover skips refused transfers).
THEOREM FailedUntouched ==
    ASSUME NoAborts, OwnProtocols
    PROVE  Spec => []FailedMeansUntouched
  <1>1. Init => Solo /\ Written
    BY SoloInit, WrittenInit
  <1>2. Solo /\ Written /\ [Next]_vars => Solo' /\ Written'
    BY SoloNext, WrittenNext
  <1>3. Solo /\ Written => FailedMeansUntouched
    BY DEF Solo, TypeOK, Written, FailedMeansUntouched
  <1> QED
    BY <1>1, <1>2, <1>3, PTL DEF Spec
-----------------------------------------------------------------------------
(* A hotswap moves its tenant's entities, no others and all of them.       *)

NoClients == MaxClientOps = 0

\* A tenant of an instance has one name.
NamesIdentify ==
    \A m, n \in Moves :
        (/\ m.source.instance = n.source.instance
         /\ m.source.tenant = n.source.tenant) => m.source.name = n.source.name

\* No hotswap moves entities to where another takes them from.
OneWay ==
    \A m, n \in Moves :
        ~(/\ m.target.instance = n.source.instance
          /\ m.target.tenant = n.source.tenant)

\* The reference r is a place of the source tenant of hotswap h.
AtSource(r, h) == r.instance = hs[h].source.instance /\ r.tenant = hs[h].source.tenant

\* What the locals of driveCutover say: the entities still to move, and the one
\* just read, are the tenant's and where they were found.
ListedFor(t) ==
    /\ \A g \in t.todo : AtSource(records[g].current, t.h)
    /\ t.at # "finish" => t.got = <<>>
    /\ t.got # <<>> => /\ t.got[1] \notin t.todo
                      /\ t.got[2] = records[t.got[1]].current
                      /\ AtSource(t.got[2], t.h)

Listed == \A t \in threads : ListedFor(t)

\* After the listing, every entity of the tenant is on the list or in hand.
AllListedFor(t) ==
    t.code = "cutover" /\ t.at = "finish" =>
        \A g \in DOMAIN records :
            records[g].status = "active" /\ AtSource(records[g].current, t.h) =>
                g \in t.todo \/ (t.got # <<>> /\ g = t.got[1])

AllListed == \A t \in threads : AllListedFor(t)

MoveInv == SoloInv /\ Written /\ Listed /\ OnlyTenantMoved

\* Two goroutines work on different tenants: they share no place.
LEMMA PlacesDiffer ==
    ASSUME NamesIdentify, SoloInv, NEW t \in threads, NEW u \in threads, t # u,
           NEW r, AtSource(r, t.h), AtSource(r, u.h)
    PROVE  FALSE
  <1>1. /\ t.h \in DOMAIN hs /\ u.h \in DOMAIN hs /\ t.h # u.h /\ OneActive /\ FromMoves
        /\ t.code \in Codes /\ u.code \in Codes
        /\ hs[t.h].state = Works(t.code) /\ hs[u.h].state = Works(u.code)
    BY DEF SoloInv, Solo, TypeOK, Threads, OneDriver, InStep
  <1>2. ~isTerminal(hs[t.h].state) /\ ~isTerminal(hs[u.h].state)
    BY <1>1, WorkStates DEF isTerminal
  <1>3. SourceTenant(t.h) # SourceTenant(u.h)
    BY <1>1, <1>2 DEF OneActive
  <1>4. PICK m \in Moves : hs[t.h].source = m.source
    BY <1>1 DEF FromMoves
  <1>5. PICK n \in Moves : hs[u.h].source = n.source
    BY <1>1 DEF FromMoves
  <1>6. hs[t.h].source.name = hs[u.h].source.name
    <2>1. m.source.instance = n.source.instance /\ m.source.tenant = n.source.tenant
      BY <1>4, <1>5 DEF AtSource
    <2> QED
      BY <1>4, <1>5, <2>1 DEF NamesIdentify
  <1> QED
    BY <1>3, <1>6 DEF SourceTenant, AtSource

\* The goroutine a stage other than a transfer leaves behind has its locals in
\* order, judged by the registry the stage has not changed.
LEMMA StageLists ==
    ASSUME TypeOK, Listed, NEW t \in threads, Step(t), ~CutoverTransfer(t),
           NEW u \in threads', u \notin threads \ {t}
    PROVE  u.h = t.h /\ ListedFor(u) /\ (AllListed => AllListedFor(u))
  <1>0. /\ t \in Threads /\ t.h \in DOMAIN hs /\ t.h \in Hotswaps
        /\ started \in [Hotswaps -> Nat] /\ {t} \in SUBSET threads
        /\ ListedFor(t) /\ DOMAIN records \subseteq GlobalIDs /\ t.todo \subseteq GlobalIDs
        /\ "migration" \in Codes /\ "validation" \in Codes /\ "cutover" \in Codes
        /\ "rollback" \in Codes
    BY DEF TypeOK, Threads, Listed, Codes, Forward
  <1>1. ASSUME NEW code \in Codes, Go(t.h, code, {t})
        PROVE  u.h = t.h /\ ListedFor(u) /\ (AllListed => AllListedFor(u))
    <2>1. Begins(t.h, code, {t})
      BY <1>0, <1>1, GoEffect
    <2>2. u.h = t.h /\ u.at = "start" /\ u.todo = {} /\ u.got = <<>>
      BY <2>1 DEF Begins
    <2> QED
      BY <2>2 DEF ListedFor, AllListedFor
  <1>2. ~Returns(t)
    BY DEF Returns
  <1>3. CASE Start(t) \/ QuiesceCall(t) \/ RollbackCall(t)
    <2>1. /\ u.h = t.h /\ u.todo = t.todo /\ u.got = t.got /\ t.at # "finish"
          /\ u.at = "call" \/ u.code # "cutover"
      BY <1>0, <1>2, <1>3 DEF Start, QuiesceCall, RollbackCall, Continues, Threads
    <2> QED
      BY <1>0, <2>1 DEF ListedFor, AllListedFor
  <1>4. CASE QuiesceFinish(t) \/ MigrationError(t) \/ MigrationDone(t)
    BY <1>0, <1>1, <1>2, <1>4 DEF QuiesceFinish, MigrationError, MigrationDone, failHotswap
  <1>5. ASSUME NEW valid \in BOOLEAN, ValidationDone(t, valid)
        PROVE  u.h = t.h /\ ListedFor(u) /\ (AllListed => AllListedFor(u))
    BY <1>0, <1>1, <1>2, <1>5 DEF ValidationDone
  <1>6. CASE CutoverList(t)
    <2>1. /\ u.h = t.h /\ u.at = "finish" /\ u.got = t.got /\ t.at # "finish"
          /\ u.todo = ListByInstanceAndTenant(records, hs[t.h].source.instance,
                                              hs[t.h].source.tenant)
      BY <1>0, <1>6 DEF CutoverList, Continues, Threads
    <2> QED
      BY <1>0, <2>1 DEF ListedFor, AllListedFor, AtSource, ListByInstanceAndTenant
  <1>7. ASSUME NEW g \in GlobalIDs, CutoverGet(t, g)
        PROVE  u.h = t.h /\ ListedFor(u) /\ (AllListed => AllListedFor(u))
    <2>1. /\ u.h = t.h /\ u.at = t.at /\ u.code = t.code /\ u.todo = t.todo \ {g}
          /\ u.got = <<g, records[g].current>> /\ g \in t.todo /\ t.got = <<>> /\ t.at = "finish"
      BY <1>0, <1>7 DEF CutoverGet, Continues, Threads
    <2>2. AllListed => AllListedFor(t)
      BY DEF AllListed
    <2> QED
      BY <1>0, <2>1, <2>2 DEF ListedFor, AllListedFor
  <1>8. CASE CutoverFinish(t) \/ RollbackFinish(t)
    BY <1>2, <1>8 DEF CutoverFinish, RollbackFinish
  <1> QED
    BY <1>3, <1>4, <1>5, <1>6, <1>7, <1>8 DEF Step
\* A step that is no transfer keeps the locals in order.
LEMMA KeepsLocals ==
    ASSUME NEW u, records' = records, hs'[u.h].source = hs[u.h].source
    PROVE  (ListedFor(u) => ListedFor(u)') /\ (AllListedFor(u) => AllListedFor(u)')
  BY DEF ListedFor, AllListedFor, AtSource

\* What the transfer of an entity does, to the registry and to its goroutine.
LEMMA TransferEffect ==
    ASSUME TypeOK, FromMoves, Listed, NEW t \in threads, CutoverTransfer(t)
    PROVE  /\ t.got # <<>> /\ t.got[1] \in DOMAIN records /\ t.at = "finish" /\ hs' = hs
           /\ t.got[1] \notin t.todo
           /\ AtSource(records[t.got[1]].current, t.h)
           /\ DOMAIN records' = DOMAIN records
           /\ \A x \in DOMAIN records : x # t.got[1] => records'[x] = records[x]
           /\ \/ records'[t.got[1]].status = "retired"
              \/ records'[t.got[1]].current = newRef(hs[t.h].target, t.got[2])
           /\ \E v \in Threads : /\ threads' = (threads \ {t}) \cup {v}
                                 /\ v.h = t.h /\ v.code = t.code /\ v.at = t.at
                                 /\ v.todo = t.todo /\ v.got = <<>>
  <1> DEFINE g == t.got[1]
             from == t.got[2]
             to == newRef(hs[t.h].target, from)
             v == [t EXCEPT !.got = <<>>]
  <1>1. /\ t \in Threads /\ t.got # <<>> /\ t.at = "finish" /\ hs' = hs /\ ListedFor(t)
        /\ g \in DOMAIN records /\ records[g] \in Record /\ Continues(t, v)
    BY DEF CutoverTransfer, TypeOK, Listed
  <1>2. /\ g \notin t.todo /\ from = records[g].current /\ AtSource(records[g].current, t.h)
    BY <1>1 DEF ListedFor
  <1>3. /\ v \in Threads /\ v.h = t.h /\ v.code = t.code /\ v.at = t.at
        /\ v.todo = t.todo /\ v.got = <<>>
    BY <1>1 DEF Threads
  <1>4. /\ DOMAIN records' = DOMAIN records
        /\ \A x \in DOMAIN records : x # g => records'[x] = records[x]
    BY <1>1 DEF CutoverTransfer, Put
  <1>5. records'[g].status = "retired" \/ records'[g].current = to
    BY <1>1, <1>2 DEF CutoverTransfer, MayTransfer, Put, Transferred
  <1> HIDE DEF v
  <1>6. \E w \in Threads : /\ threads' = (threads \ {t}) \cup {w}
                           /\ w.h = t.h /\ w.code = t.code /\ w.at = t.at
                           /\ w.todo = t.todo /\ w.got = <<>>
    BY <1>1, <1>3 DEF Continues
  <1> QED
    BY <1>1, <1>2, <1>4, <1>5, <1>6

LEMMA TransferLists ==
    ASSUME NamesIdentify, SoloInv, Listed, NEW t \in threads, CutoverTransfer(t)
    PROVE  Listed' /\ (OneWay /\ AllListed => AllListed')
  <1> DEFINE g == t.got[1]
  <1>0. TypeOK /\ FromMoves /\ t.h \in DOMAIN hs
    BY DEF SoloInv, Solo, TypeOK
  <1>1. /\ t.got # <<>> /\ g \in DOMAIN records /\ t.at = "finish" /\ hs' = hs /\ g \notin t.todo
        /\ AtSource(records[g].current, t.h)
        /\ DOMAIN records' = DOMAIN records
        /\ \A x \in DOMAIN records : x # g => records'[x] = records[x]
        /\ \/ records'[g].status = "retired"
           \/ records'[g].current = newRef(hs[t.h].target, t.got[2])
    BY <1>0, TransferEffect
  <1>2. PICK v \in Threads : /\ threads' = (threads \ {t}) \cup {v}
                             /\ v.h = t.h /\ v.code = t.code /\ v.at = t.at
                             /\ v.todo = t.todo /\ v.got = <<>>
    BY <1>0, TransferEffect
  <1> HIDE DEF g
  <1>3. \A r, h : AtSource(r, h)' <=> AtSource(r, h)
    BY <1>1 DEF AtSource
  <1>4. ListedFor(v)'
    <2>1. \A x \in v.todo : AtSource(records'[x].current, v.h)
      BY <1>0, <1>1, <1>2 DEF Listed, ListedFor, TypeOK
    <2> QED
      BY <1>1, <1>2, <1>3, <2>1 DEF ListedFor
  <1>5. ASSUME NEW u \in threads, u # t
        PROVE  ListedFor(u)'
    <2>1. /\ ListedFor(u) /\ u.todo \subseteq DOMAIN records
          /\ u.got # <<>> => u.got[1] \in DOMAIN records
      BY <1>0 DEF Listed, TypeOK
    <2>2. ~AtSource(records[g].current, u.h)
      BY <1>1, <1>5, PlacesDiffer
    <2>3. g \notin u.todo /\ (u.got # <<>> => u.got[1] # g)
      BY <2>1, <2>2 DEF ListedFor
    <2> QED
      BY <1>1, <1>3, <2>1, <2>3 DEF ListedFor
  <1>6. Listed'
    BY <1>2, <1>4, <1>5 DEF Listed
  <1>7. ASSUME OneWay, AllListed
        PROVE  AllListed'
    <2>1. \A h \in DOMAIN hs : ~(/\ records'[g].status = "active"
                                 /\ AtSource(records'[g].current, h))
      <3> SUFFICES ASSUME NEW h \in DOMAIN hs, records'[g].status # "retired",
                          AtSource(newRef(hs[t.h].target, t.got[2]), h)
                   PROVE  FALSE
        BY <1>1
      <3>1. PICK m \in Moves : hs[t.h].target = m.target
        BY <1>0 DEF FromMoves
      <3>2. PICK n \in Moves : hs[h].source = n.source
        BY <1>0 DEF FromMoves
      <3>3. m.target.instance = n.source.instance /\ m.target.tenant = n.source.tenant
        BY <3>1, <3>2 DEF AtSource, newRef
      <3> QED
        BY <1>7, <3>3 DEF OneWay
    <2>2. ASSUME NEW u \in threads, NEW w \in threads', w.h = u.h, w.at = u.at, w.code = u.code,
                 w.todo = u.todo,
                 w.got = u.got \/ (u = t /\ w.got = <<>>)
          PROVE  AllListedFor(w)'
      <3>1. AllListedFor(u) /\ u.h \in DOMAIN hs
        BY <1>0, <1>7 DEF AllListed, TypeOK
      <3> SUFFICES ASSUME w.code = "cutover", w.at = "finish", NEW x \in DOMAIN records,
                          records'[x].status = "active", AtSource(records'[x].current, w.h)
                   PROVE  x \in w.todo \/ (w.got # <<>> /\ x = w.got[1])
        BY <1>1, <1>3 DEF AllListedFor
      <3>2. x # g
        BY <2>1, <2>2, <3>1
      <3>3. x \in u.todo \/ (u.got # <<>> /\ x = u.got[1])
        BY <1>1, <2>2, <3>1, <3>2 DEF AllListedFor
      <3> QED
        BY <2>2, <3>2, <3>3 DEF g
    <2> QED
      BY <1>2, <2>2 DEF AllListed
  <1> QED
    BY <1>6, <1>7
LEMMA ListsNext ==
    ASSUME NoAborts, NoClients, NamesIdentify, SoloInv, Listed, [Next]_vars
    PROVE  Listed' /\ (OneWay /\ AllListed => AllListed')
  <1>0. /\ TypeOK /\ Solo /\ started \in [Hotswaps -> Nat]
        /\ \A u \in threads : u.h \in DOMAIN hs
        /\ \A x \in DOMAIN hs : hs'[x].source = hs[x].source
    BY SourcesKept DEF SoloInv, Solo, TypeOK
  <1>1. ASSUME records' = records,
               \A u \in threads' : \/ u \in threads
                                  \/ /\ ListedFor(u) /\ (AllListed => AllListedFor(u))
                                     /\ hs'[u.h].source = hs[u.h].source
        PROVE  Listed' /\ (AllListed => AllListed')
    BY <1>0, <1>1, KeepsLocals DEF Listed, AllListed
  <1>2. ASSUME NEW h \in Hotswaps, Method(h)
        PROVE  Listed' /\ (AllListed => AllListed')
    <2>1. records' = records
      BY <1>2 DEF Method, Request, Confirm, Abort
    <2>2. threads' = threads \/ \E code \in Codes : Begins(h, code, {})
      BY <1>0, <1>2, MethodShape, CodeSets
    <2>3. \A u \in threads' : u \in threads \/ (u.at = "start" /\ u.todo = {} /\ u.got = <<>>)
      BY <2>2 DEF Begins
    <2>4. \A u : u.at = "start" /\ u.todo = {} /\ u.got = <<>> =>
              ListedFor(u)' /\ AllListedFor(u)'
      BY DEF ListedFor, AllListedFor
    <2>5. \A u \in threads : /\ ListedFor(u)'
                             /\ AllListed => AllListedFor(u)'
      BY <1>0, <2>1, KeepsLocals DEF Listed, AllListed
    <2> QED
      BY <2>3, <2>4, <2>5 DEF Listed, AllListed
  <1>3. ASSUME NEW t \in threads, Step(t), ~CutoverTransfer(t)
        PROVE  Listed' /\ (AllListed => AllListed')
    <2>1. records' = records
      BY <1>3 DEF Step, Start, QuiesceCall, QuiesceFinish, MigrationError, MigrationDone,
                  ValidationDone, CutoverList, CutoverGet, CutoverFinish, RollbackCall,
                  RollbackFinish
    <2>2. \A u \in threads' : \/ u \in threads
                              \/ /\ ListedFor(u) /\ (AllListed => AllListedFor(u))
                                 /\ hs'[u.h].source = hs[u.h].source
      BY <1>0, <1>3, StageLists
    <2> QED
      BY <1>1, <2>1, <2>2
  <1>4. ASSUME NEW t \in threads, CutoverTransfer(t)
        PROVE  Listed' /\ (OneWay /\ AllListed => AllListed')
    BY <1>4, TransferLists
  <1>5. CASE UNCHANGED vars
    BY <1>5, <1>1 DEF vars
  <1>6. \A g \in GlobalIDs : ~Client(g)
    BY <1>0 DEF Client, NoClients, TypeOK
  <1>7. DOMAIN hs \subseteq Hotswaps
    BY <1>0 DEF TypeOK
  <1> QED
    BY <1>2, <1>3, <1>4, <1>5, <1>6, <1>7 DEF Next, Method

LEMMA OnlyTenantNext ==
    ASSUME NoAborts, OwnProtocols, SoloInv, Written, Listed, OnlyTenantMoved, [Next]_vars
    PROVE  OnlyTenantMoved'
  <1> SUFFICES ASSUME NEW x \in DOMAIN records', NEW i \in 1..Len(records'[x].history),
                      records'[x].history[i].protocol \in DOMAIN hs'
               PROVE  LET e == records'[x].history[i]
                      IN  /\ e.from.instance = hs'[e.protocol].source.instance
                          /\ e.from.tenant = hs'[e.protocol].source.tenant
    BY DEF OnlyTenantMoved
  <1> DEFINE e == records'[x].history[i]
  <1>0. /\ TypeOK /\ FromMoves /\ Solo /\ DOMAIN hs' \subseteq Hotswaps
        /\ \A k \in DOMAIN hs : hs'[k].source = hs[k].source
    BY TypeStep, SourcesKept DEF SoloInv, Solo, TypeOK
  <1>1. CASE /\ x \in DOMAIN records /\ i \in 1..Len(records[x].history)
             /\ records'[x].history[i] = records[x].history[i]
    <2>1. e.protocol \in DOMAIN hs
      BY <1>0, <1>1 DEF Written
    <2>2. /\ e.from.instance = hs[e.protocol].source.instance
          /\ e.from.tenant = hs[e.protocol].source.tenant
      BY <1>1, <2>1 DEF OnlyTenantMoved
    <2> QED
      BY <1>0, <2>1, <2>2
  <1>2. e.protocol # ClientProtocol
    BY <1>0 DEF OwnProtocols
  <1>3. ASSUME NEW t \in threads, CutoverTransfer(t), e.protocol = t.h, e.from = t.got[2]
        PROVE  /\ e.from.instance = hs'[e.protocol].source.instance
               /\ e.from.tenant = hs'[e.protocol].source.tenant
    <2>1. t.h \in DOMAIN hs /\ AtSource(t.got[2], t.h)
      BY <1>0, <1>3 DEF CutoverTransfer, Listed, ListedFor, TypeOK
    <2> QED
      BY <1>0, <1>3, <2>1 DEF AtSource
  <1> QED
    BY <1>0, <1>1, <1>2, <1>3, EntryOrigin
LEMMA MoveInit ==
    ASSUME OwnProtocols, Init
    PROVE  MoveInv /\ AllListed
  <1>1. Listed /\ AllListed
    BY DEF Init, Listed, AllListed
  <1>2. OnlyTenantMoved
    BY DEF Init, OnlyTenantMoved
  <1> QED
    BY <1>1, <1>2, SoloInit, WrittenInit DEF MoveInv, SoloInv

LEMMA MoveNext ==
    ASSUME NoAborts, NoClients, OwnProtocols, NamesIdentify, MoveInv, [Next]_vars
    PROVE  MoveInv' /\ (OneWay /\ AllListed => AllListed')
  <1>1. SoloInv' /\ Written'
    BY SoloNext, OneActiveNext, WrittenNext DEF MoveInv, SoloInv
  <1>2. Listed' /\ (OneWay /\ AllListed => AllListed') /\ OnlyTenantMoved'
    BY ListsNext, OnlyTenantNext DEF MoveInv
  <1> QED
    BY <1>1, <1>2 DEF MoveInv

\* Without Aborts, and with nobody but hotswaps transferring entities, a
\* tenant has one hotswap at a time and each hotswap moves its own tenant's
\* entities only, although the listing, the Get and the Transfer of an entity
\* are three calls (Request, driveCutover).
THEOREM TenantsApart ==
    ASSUME NoAborts, NoClients, OwnProtocols, NamesIdentify
    PROVE  Spec => []TenantsSeparate
  <1>1. Init => MoveInv
    BY MoveInit
  <1>2. MoveInv /\ [Next]_vars => MoveInv'
    BY MoveNext
  <1>3. MoveInv => TenantsSeparate
    BY DEF MoveInv, SoloInv, TenantsSeparate
  <1> QED
    BY <1>1, <1>2, <1>3, PTL DEF Spec

\* COMPLETE is written by the cutover alone, when nothing is left on its list.
LEMMA CompleteWriter ==
    ASSUME TypeOK, NEW t \in threads, Step(t), hs'[t.h].state = "complete",
           hs[t.h].state # "complete"
    PROVE  CutoverFinish(t)
  <1>0. t.h \in DOMAIN hs /\ hs \in [DOMAIN hs -> Hotswap]
    BY DEF TypeOK
  <1>1. {"migrating", "validating", "cutting_over", "rolling_back", "failed"} \subseteq States
    BY DEF States
  <1>2. ASSUME NEW s \in States, advanceLocked(t.h, s), s # "complete"
        PROVE  FALSE
    BY <1>0, <1>2, Advance
  <1> QED
    BY <1>1, <1>2 DEF Step, Start, QuiesceCall, QuiesceFinish, MigrationError, MigrationDone,
           failHotswap, ValidationDone, CutoverList, CutoverGet, CutoverTransfer, RollbackCall,
           RollbackFinish

LEMMA CompleteStep ==
    ASSUME NoAborts, SoloInv, AllListed, [Next]_vars, NEW h \in DOMAIN hs,
           hs'[h].state = "complete", hs[h].state # "complete"
    PROVE  ListByInstanceAndTenant(records, hs[h].source.instance, hs[h].source.tenant) = {}
  <1>0. TypeOK /\ Solo
    BY DEF SoloInv, Solo
  <1>1. ASSUME NEW k \in Hotswaps, Method(k)
        PROVE  FALSE
    BY <1>0, <1>1, SoloMethod
  <1>2. PICK t \in threads : Step(t)
    BY <1>0, <1>1, NextCases
  <1>3. h = t.h
    BY <1>0, <1>2, StepMoves
  <1>4. t.code = "cutover" /\ t.at = "finish" /\ t.todo = {} /\ t.got = <<>>
    BY <1>0, <1>2, <1>3, CompleteWriter DEF CutoverFinish
  <1>5. \A g \in DOMAIN records :
            ~(records[g].status = "active" /\ AtSource(records[g].current, h))
    BY <1>3, <1>4 DEF AllListed, AllListedFor
  <1> QED
    BY <1>5 DEF AtSource, ListByInstanceAndTenant

\* Under the same hypotheses, and when no hotswap moves entities to where
\* another takes them from, an end is what it says and stays: COMPLETE is
\* written only when no active entity of the tenant is left on the source,
\* and neither COMPLETE nor FAILED is written over (driveCutover).
THEOREM EndsAreTrue ==
    ASSUME NoAborts, NoClients, OwnProtocols, NamesIdentify, OneWay
    PROVE  Spec => EndsHold
  <1>1. Init => MoveInv /\ AllListed
    BY MoveInit
  <1>2. MoveInv /\ AllListed /\ [Next]_vars => MoveInv' /\ AllListed'
    BY MoveNext
  <1>3. MoveInv /\ AllListed /\ [Next]_vars =>
            [\A h \in DOMAIN hs :
                (hs'[h].state = "complete" /\ hs[h].state # "complete") =>
                    ListByInstanceAndTenant(records, hs[h].source.instance,
                                            hs[h].source.tenant) = {}]_vars
    BY CompleteStep DEF MoveInv
  <1>4. Spec => CompleteMeansMoved
    BY <1>1, <1>2, <1>3, PTL DEF Spec, CompleteMeansMoved
  <1>5. Spec => TerminalIsFinal
    BY EndsAreFinal
  <1> QED
    BY <1>4, <1>5, PTL DEF EndsHold
=============================================================================
