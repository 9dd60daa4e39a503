---------------------------- MODULE XoluHotswap ----------------------------
(***************************************************************************)
(* XoluHotswapManager (pkg/hotswap/xolu.go): hotswaps kept as documents of *)
(* a xolu instance, with an in-memory index of their versions.  No lock    *)
(* covers an operation.  The Confirm, Abort and Get calls and the drive... *)
(* goroutines are threads.  A thread loads the document (an OQL query,     *)
(* then the version it found goes into the index), does its work, loads    *)
(* the document again, and advances it: reads the version from the index,  *)
(* writes the document with it, puts the version of the answer into the    *)
(* index, and starts the next goroutine.  Every one of these is an action  *)
(* of its own.  xolu refuses a write whose version is not the stored one,  *)
(* unless it carries none.  The process may crash at any point; Resume     *)
(* starts the goroutines again.                                            *)
(*                                                                         *)
(* The registry is used through its atomic operations (see XoluRegistry    *)
(* for why they are).  The hotswap_events documents, written and never     *)
(* read, the bus event, EntityCount, Validation and the directory hint are *)
(* left out.                                                               *)
(***************************************************************************)
EXTENDS Records, FiniteSets

CONSTANTS
    Hotswaps,     \* the IDs uuid.New may return
    Moves,        \* [source, target]: the InstanceRefs Request is called with
    AutoAdvance,  \* the values of the option the operator uses
    IoluMayFail,  \* whether migration and validation may fail
    XoluMayFail,  \* whether calls to a xolu may fail or lose their answer
    InitRecords,  \* the entities registered before the first hotswap
    Calls,        \* the calls operators make: "confirm", "abort", "get"
    Impatient,    \* those of them made while the hotswap is being worked on
    MaxCalls,     \* bound: calls per hotswap
    MaxCrashes    \* bound: crashes of the nolu process

InstanceRefs == {m.source : m \in Moves} \cup {m.target : m \in Moves}

newRef(target, current) ==
    [instance |-> target.instance, tenant |-> target.tenant,
     name |-> "", local |-> current.local]

ASSUME XoluHotswapAssumption ==
    /\ AutoAdvance \subseteq BOOLEAN
    /\ {IoluMayFail, XoluMayFail} \subseteq BOOLEAN
    /\ Calls \subseteq {"confirm", "abort", "get"} /\ Impatient \subseteq Calls
    /\ Hotswaps \subseteq Protocols
    /\ DOMAIN InitRecords \subseteq GlobalIDs
    /\ InitRecords \in [DOMAIN InitRecords -> Record]
    /\ {MaxCalls, MaxCrashes} \subseteq Nat
    /\ \A m \in Moves : \A r \in LocalRefs : newRef(m.target, r) \in LocalRefs

VARIABLES
    docs,      \* the hotswap documents in xolu
    index,     \* m.index: ID -> [version, ref]; ref tells the metas apart
    requests,  \* Request calls past their check: [h, move, auto]
    threads,   \* the calls and the goroutines running
    started,   \* per hotswap, how many threads were started for it
    quiesced,  \* source tenants whose xolu refuses writes
    records,   \* the registry
    up,        \* FALSE between a crash and Resume
    calls,     \* calls made per hotswap
    crashes

vars == <<docs, index, requests, threads, started, quiesced, records, up, calls, crashes>>

States == {"preparing", "quiescing", "migrating", "validating",
           "cutting_over", "complete", "rolling_back", "failed"}

isTerminal(s) == s \in {"complete", "failed"}

Forward == {"quiesce", "migration", "validation", "cutover"}
Drivers == Forward \cup {"rollback"}
Codes == Drivers \cup {"confirm", "abort", "get", "fail"}

Doc == [source : InstanceRefs, target : InstanceRefs, auto : BOOLEAN,
        state : States, version : Nat]

\* The state that loadFromXolu must return for the thread to go on.
Expected(code) ==
    CASE code = "confirm"    -> {"preparing"}
      [] code = "abort"      -> {s \in States : ~isTerminal(s)}
      [] code = "get"        -> {}
      [] code = "fail"       -> States
      [] code = "quiesce"    -> {"quiescing"}
      [] code = "migration"  -> {"migrating"}
      [] code = "validation" -> {"validating"}
      [] code = "cutover"    -> {"cutting_over"}
      [] code = "rollback"   -> {"rolling_back"}

\* The state the thread advances to, and the goroutine it starts then; ok is
\* the outcome of its work.
NextState(code, ok) ==
    CASE code = "confirm"    -> "quiescing"
      [] code \in {"abort", "fail"} -> "rolling_back"
      [] code = "quiesce"    -> "migrating"
      [] code = "migration"  -> "validating"
      [] code = "validation" -> IF ok THEN "cutting_over" ELSE "rolling_back"
      [] code = "cutover"    -> "complete"
      [] code = "rollback"   -> "failed"

NextDriver(code, ok) ==
    CASE code = "confirm"    -> {"quiesce"}
      [] code \in {"abort", "fail"} -> {"rollback"}
      [] code = "quiesce"    -> {"migration"}
      [] code = "migration"  -> {"validation"}
      [] code = "validation" -> IF ok THEN {"cutover"} ELSE {"rollback"}
      [] code \in {"cutover", "rollback"} -> {}

\* fail and a failed validation start driveRollback even when the new state
\* could not be written; the others return.
DriverAfterError(code, ok) ==
    IF code = "fail" \/ (code = "validation" /\ ~ok) THEN {"rollback"} ELSE {}

\* pass 1 is the load before the work, pass 2 the one before the advance.
thread(h, n, code) ==
    [h |-> h, n |-> n, code |-> code, at |-> "load",
     pass |-> IF code \in Drivers THEN 1 ELSE 2, ok |-> TRUE,
     state |-> "preparing", loaded |-> 0, version |-> 0, ref |-> <<0, 0>>,
     todo |-> {}, got |-> <<>>]

Threads == [h : Hotswaps, n : Nat, code : Codes,
            at : {"load", "index", "call", "loop", "pick", "save", "post"},
            pass : {1, 2}, ok : BOOLEAN, state : States, loaded : Nat,
            version : Nat, ref : Nat \X Nat, todo : SUBSET GlobalIDs,
            got : {<<>>} \cup (GlobalIDs \X LocalRefs)]

\* The _version that persistCreate and persistUpdate find in xolu's answer:
\* handleCreate answers a message and an id, handleSave a message.
AnsweredVersion == 0

SourceTenant(h) == <<docs[h].source.instance, docs[h].source.name>>

-----------------------------------------------------------------------------
Init ==
    /\ docs = << >>
    /\ index = << >>
    /\ requests = {}
    /\ threads = {}
    /\ started = [h \in Hotswaps |-> 0]
    /\ quiesced = {}
    /\ records = InitRecords
    /\ up = TRUE
    /\ calls = [h \in Hotswaps |-> 0]
    /\ crashes = 0

\* Threads done return, and a goroutine for each of codes is started.
Go(h, codes, done) ==
    /\ threads' = (threads \ done) \cup {thread(h, started[h] + 1, c) : c \in codes}
    /\ started' = [started EXCEPT ![h] = @ + Cardinality(codes)]

Continues(t, u) == threads' = (threads \ {t}) \cup {u} /\ UNCHANGED started

Returns(t) == Go(t.h, {}, {t})

-----------------------------------------------------------------------------
(* Request.                                                                *)

\* The query for an active hotswap of the tenant; its error counts as none.
RequestCheck(h, move, auto) ==
    /\ up
    /\ h \notin DOMAIN docs
    /\ \A r \in requests : r.h # h
    /\ \/ XoluMayFail
       \/ \A x \in DOMAIN docs :
             SourceTenant(x) = <<move.source.instance, move.source.name>> =>
                 isTerminal(docs[x].state)
    /\ requests' = requests \cup {[h |-> h, move |-> move, auto |-> auto]}
    /\ UNCHANGED <<docs, index, threads, started, quiesced, records, up, calls, crashes>>

Created(r) ==
    Put(docs, r.h, [source |-> r.move.source, target |-> r.move.target,
                    auto |-> r.auto, state |-> "preparing", version |-> 1])

\* The document is created in PREPARING; with AutoAdvance driveQuiesce is
\* started at once.
RequestCreate(r) ==
    /\ docs' = Created(r)
    /\ index' = Put(index, r.h, [version |-> AnsweredVersion, ref |-> <<0, 0>>])
    /\ requests' = requests \ {r}
    /\ Go(r.h, IF r.auto THEN {"quiesce"} ELSE {}, {})
    /\ UNCHANGED <<quiesced, records, up, calls, crashes>>

\* An error to the caller, after the document was created or without.
RequestFails(r) ==
    /\ XoluMayFail
    /\ docs' \in {docs, Created(r)}
    /\ requests' = requests \ {r}
    /\ UNCHANGED <<index, threads, started, quiesced, records, up, calls, crashes>>

\* Confirm, Abort, or Get (which Status is too) is called.
Call(h, code) ==
    /\ up
    /\ calls[h] < MaxCalls
    /\ code \in Impatient \/ \A t \in threads : t.h # h
    /\ calls' = [calls EXCEPT ![h] = @ + 1]
    /\ Go(h, {code}, {})
    /\ UNCHANGED <<docs, index, requests, quiesced, records, up, crashes>>

-----------------------------------------------------------------------------
(* loadFromXolu.                                                           *)

Load(t) ==
    /\ t.at = "load"
    /\ Continues(t, [t EXCEPT !.at = "index", !.state = docs[t.h].state,
                              !.loaded = docs[t.h].version])
    /\ UNCHANGED <<docs, index, requests, quiesced, records, up, calls, crashes>>

\* An error of the query is ErrNotFound: every thread returns, fail too.
LoadFails(t) ==
    /\ t.at = "load" /\ XoluMayFail
    /\ Returns(t)
    /\ UNCHANGED <<docs, index, requests, quiesced, records, up, calls, crashes>>

\* A fresh meta for the index, then the check of the state.
Index(t) ==
    /\ t.at = "index"
    /\ index' = Put(index, t.h, [version |-> t.loaded, ref |-> <<t.n, t.pass>>])
    /\ IF t.state \in Expected(t.code)
       THEN Continues(t, [t EXCEPT !.at = IF t.pass = 1 THEN "call" ELSE "pick"])
       ELSE Returns(t)
    /\ UNCHANGED <<docs, requests, quiesced, records, up, calls, crashes>>

-----------------------------------------------------------------------------
(* The work of each goroutine; afterwards it loads the document again.     *)

Reload(t) == [t EXCEPT !.at = "load", !.pass = 2]

\* Variant: the call is not made.
QuiesceCall_Skipped(t) ==
    /\ t.code = "quiesce" /\ t.at = "call"
    /\ Continues(t, Reload(t))
    /\ UNCHANGED <<docs, index, requests, quiesced, records, up, calls, crashes>>

\* Variant: it is made again until the source confirms, which it never does.
QuiesceCall_Waits(t) ==
    /\ t.code = "quiesce" /\ t.at = "call"
    /\ quiesced' = quiesced \cup {SourceTenant(t.h)}
    /\ UNCHANGED <<docs, index, requests, threads, started, records, up, calls, crashes>>

\* driveQuiesce: the call to the source; its failure is ignored.
QuiesceCall(t) ==
    /\ t.code = "quiesce" /\ t.at = "call"
    /\ \/ quiesced' = quiesced \cup {SourceTenant(t.h)}
       \/ XoluMayFail /\ UNCHANGED quiesced
    /\ Continues(t, Reload(t))
    /\ UNCHANGED <<docs, index, requests, records, up, calls, crashes>>

\* runMigration: on an error the thread goes on as m.fail.
MigrationCall(t, ok) ==
    /\ t.code = "migration" /\ t.at = "call"
    /\ ok \/ IoluMayFail
    /\ Continues(t, IF ok THEN Reload(t) ELSE [Reload(t) EXCEPT !.code = "fail"])
    /\ UNCHANGED <<docs, index, requests, quiesced, records, up, calls, crashes>>

ValidationCall(t, ok) ==
    /\ t.code = "validation" /\ t.at = "call"
    /\ ok \/ IoluMayFail
    /\ Continues(t, [Reload(t) EXCEPT !.ok = ok])
    /\ UNCHANGED <<docs, index, requests, quiesced, records, up, calls, crashes>>

\* A failed listing is an empty one.
CutoverList(t) ==
    /\ t.code = "cutover" /\ t.at = "call"
    /\ \E todo \in {ListByInstanceAndTenant(records, docs[t.h].source.instance,
                                            docs[t.h].source.tenant)}
                   \cup (IF XoluMayFail THEN {{}} ELSE {}) :
           Continues(t, [t EXCEPT !.at = "loop", !.todo = todo])
    /\ UNCHANGED <<docs, index, requests, quiesced, records, up, calls, crashes>>

\* An entity whose Get fails is skipped.
CutoverGet(t, g) ==
    /\ t.at = "loop" /\ t.got = <<>>
    /\ g \in t.todo
    /\ \/ Continues(t, [t EXCEPT !.todo = @ \ {g}, !.got = <<g, records[g].current>>])
       \/ XoluMayFail /\ Continues(t, [t EXCEPT !.todo = @ \ {g}])
    /\ UNCHANGED <<docs, index, requests, quiesced, records, up, calls, crashes>>

\* So is one whose Transfer fails, or seems to.
CutoverTransfer(t) ==
    /\ t.at = "loop" /\ t.got # <<>>
    /\ LET g == t.got[1]
           to == newRef(docs[t.h].target, t.got[2])
       IN  \/ /\ MayTransfer(records, g, t.got[2])
              /\ records' = Put(records, g, Transferred(records[g], t.got[2], to, t.h))
           \/ /\ XoluMayFail \/ ~MayTransfer(records, g, t.got[2])
              /\ UNCHANGED records
    /\ Continues(t, [t EXCEPT !.got = <<>>])
    /\ UNCHANGED <<docs, index, requests, quiesced, up, calls, crashes>>

\* Variant: the loop is left after one entity.
CutoverDone_Early(t) ==
    /\ t.at = "loop" /\ t.got = <<>>
    /\ Continues(t, [Reload(t) EXCEPT !.todo = {}])
    /\ UNCHANGED <<docs, index, requests, quiesced, records, up, calls, crashes>>

CutoverDone(t) ==
    /\ t.at = "loop" /\ t.got = <<>> /\ t.todo = {}
    /\ Continues(t, Reload(t))
    /\ UNCHANGED <<docs, index, requests, quiesced, records, up, calls, crashes>>

RollbackCall(t) ==
    /\ t.code = "rollback" /\ t.at = "call"
    /\ \/ quiesced' = quiesced \ {SourceTenant(t.h)}
       \/ XoluMayFail /\ UNCHANGED quiesced
    /\ Continues(t, Reload(t))
    /\ UNCHANGED <<docs, index, requests, records, up, calls, crashes>>

-----------------------------------------------------------------------------
(* advanceState.                                                           *)

\* The version comes from the index as it is now, not from what was loaded.
Pick(t) ==
    /\ t.at = "pick"
    /\ Continues(t, [t EXCEPT !.at = "save", !.version = index[t.h].version,
                              !.ref = index[t.h].ref])
    /\ UNCHANGED <<docs, index, requests, quiesced, records, up, calls, crashes>>

Saved(t) ==
    [docs EXCEPT ![t.h].state = NextState(t.code, t.ok), ![t.h].version = @ + 1]

\* xolu accepts a save of the stored version, and one that carries none: a
\* version of 0 is left out of the document (omitempty).
Accepted(t) == t.version \in {0, docs[t.h].version}

Save(t) ==
    /\ t.at = "save" /\ Accepted(t)
    /\ docs' = Saved(t)
    /\ Continues(t, [t EXCEPT !.at = "post"])
    /\ UNCHANGED <<index, requests, quiesced, records, up, calls, crashes>>

\* A conflict, or a failure before or after the write was committed.
SaveFails(t) ==
    /\ t.at = "save"
    /\ \/ ~Accepted(t) /\ UNCHANGED docs
       \/ XoluMayFail /\ UNCHANGED docs
       \/ XoluMayFail /\ Accepted(t) /\ docs' = Saved(t)
    /\ Go(t.h, DriverAfterError(t.code, t.ok), {t})
    /\ UNCHANGED <<index, requests, quiesced, records, up, calls, crashes>>

\* The answer's version goes into the meta that was picked, which may no
\* longer be the one in the index; then the next goroutine is started.
Post(t) ==
    /\ t.at = "post"
    /\ index' = IF index[t.h].ref = t.ref
                THEN [index EXCEPT ![t.h].version = AnsweredVersion] ELSE index
    /\ Go(t.h, NextDriver(t.code, t.ok), {t})
    /\ UNCHANGED <<docs, requests, quiesced, records, up, calls, crashes>>

-----------------------------------------------------------------------------
Crash ==
    /\ up /\ crashes < MaxCrashes
    /\ up' = FALSE
    /\ crashes' = crashes + 1
    /\ index' = << >>
    /\ requests' = {}
    /\ threads' = {}
    /\ UNCHANGED <<docs, started, quiesced, records, calls>>

\* Variants: a hotswap found in CUTTING_OVER is not taken up; the switch falls
\* through from QUIESCING.
Resumed_NoCutover(doc) ==
    {code \in Drivers \ {"cutover"} : doc.state \in Expected(code)}

Resumed_FallsThrough(doc) ==
    {code \in Drivers : doc.state \in Expected(code)}
    \cup (IF doc.state = "quiescing" THEN {"migration"} ELSE {})

\* The goroutine Resume starts for a document it finds.
Resumed(doc) ==
    {code \in Drivers : doc.state \in Expected(code)}
    \cup (IF doc.state = "preparing" /\ doc.auto THEN {"quiesce"} ELSE {})

Unfinished == {h \in DOMAIN docs : ~isTerminal(docs[h].state)}

Resume ==
    /\ ~up
    /\ up' = TRUE
    /\ index' = [h \in Unfinished |-> [version |-> docs[h].version, ref |-> <<0, 0>>]]
    /\ threads' = UNION {{thread(h, started[h] + 1, c) : c \in Resumed(docs[h])} : h \in Unfinished}
    /\ started' = [h \in Hotswaps |->
                      IF h \in Unfinished THEN started[h] + Cardinality(Resumed(docs[h]))
                      ELSE started[h]]
    /\ UNCHANGED <<docs, requests, quiesced, records, calls, crashes>>

\* An error of Resume's query counts as "no records yet".
ResumeFails ==
    /\ ~up /\ XoluMayFail
    /\ up' = TRUE
    /\ UNCHANGED <<docs, index, requests, threads, started, quiesced, records, calls, crashes>>

Step(t) ==
    \/ Load(t) \/ LoadFails(t) \/ Index(t)
    \/ QuiesceCall(t)
    \/ \E ok \in BOOLEAN : MigrationCall(t, ok) \/ ValidationCall(t, ok)
    \/ CutoverList(t) \/ (\E g \in GlobalIDs : CutoverGet(t, g))
    \/ CutoverTransfer(t) \/ CutoverDone(t)
    \/ RollbackCall(t)
    \/ Pick(t) \/ Save(t) \/ SaveFails(t) \/ Post(t)

Next ==
    \/ \E h \in Hotswaps, move \in Moves, auto \in AutoAdvance : RequestCheck(h, move, auto)
    \/ \E r \in requests : RequestCreate(r) \/ RequestFails(r)
    \/ \E h \in DOMAIN docs, code \in Calls : Call(h, code)
    \/ \E t \in threads : Step(t)
    \/ Crash \/ Resume \/ ResumeFails

Spec == Init /\ [][Next]_vars

\* No more threads than these are ever started for a hotswap: two for a call,
\* and five for a hotswap that is resumed from its beginning and fails.
MaxThreads == 2 * MaxCalls + 5 * (MaxCrashes + 1)

\* Every goroutine is scheduled, every remote call returns, and nolu is
\* started again after a crash.
FairSpec ==
    /\ Spec
    /\ WF_vars(Resume)
    /\ \A h \in Hotswaps, n \in 1..MaxThreads :
           WF_vars(\E t \in threads : t.h = h /\ t.n = n /\ Step(t))

-----------------------------------------------------------------------------
\* Documents, index, threads and records are well formed, the index has no
\* hotswap without a document, and a thread works for a hotswap that has a
\* document, on registered entities, and finds its hotswap in the index when
\* it reads a version from there (advanceState, xolu.go).
TypeOK ==
    /\ DOMAIN docs \subseteq Hotswaps
    /\ docs \in [DOMAIN docs -> Doc]
    /\ DOMAIN index \subseteq DOMAIN docs
    /\ index \in [DOMAIN index -> [version : Nat, ref : Nat \X Nat]]
    /\ requests \subseteq [h : Hotswaps, move : Moves, auto : BOOLEAN]
    /\ threads \subseteq Threads
    /\ \A t \in threads : /\ t.h \in DOMAIN docs
                          /\ t.at \in {"pick", "save", "post"} => t.h \in DOMAIN index
                          /\ t.todo \subseteq DOMAIN records
                          /\ t.got # <<>> => t.got[1] \in DOMAIN records
    /\ started \in [Hotswaps -> Nat]
    /\ DOMAIN records \subseteq GlobalIDs
    /\ records \in [DOMAIN records -> Record]
    /\ up \in BOOLEAN
    /\ calls \in [Hotswaps -> Nat]
    /\ crashes \in Nat

\* However often nolu crashes and resumes, a hotswap moves an entity at most
\* once: a resumed driveCutover does not move again what an earlier one moved.
MovedOnce ==
    \A h \in DOMAIN docs : \A g \in DOMAIN records :
        \A i, j \in 1..Len(records[g].history) :
            (records[g].history[i].protocol = h /\ records[g].history[j].protocol = h) => i = j

\* At most one of the four forward goroutines runs for a hotswap, Aborts, lost
\* answers and a Resume notwithstanding (Resume starts one per document).
OneForwardDriver ==
    \A t, u \in threads :
        (t.h = u.h /\ t.code \in Forward /\ u.code \in Forward) => t = u

\* While nolu is up, a hotswap between PREPARING and its end has a thread
\* that will take it further: Resume has re-armed it (xolu.go:58-59).
NoOrphan ==
    up => \A h \in DOMAIN docs :
        ~isTerminal(docs[h].state) /\ docs[h].state # "preparing" =>
            \E t \in threads : t.h = h

\* From MIGRATING to CUTTING_OVER the source refuses writes to the tenant,
\* also when nolu has been restarted in between (driveQuiesce runs again when
\* the crash came before MIGRATING was written).
WritesBlockedWhileMoving ==
    \A h \in DOMAIN docs :
        docs[h].state \in {"migrating", "validating", "cutting_over"} =>
            SourceTenant(h) \in quiesced

\* When a hotswap becomes COMPLETE no active entity of the tenant is left on
\* the source, however many runs of driveCutover it took (hotswap.go:26-27).
CompleteMeansMoved ==
    [][\A h \in DOMAIN docs :
          (docs'[h].state = "complete" /\ docs[h].state # "complete") =>
              ListByInstanceAndTenant(records, docs[h].source.instance,
                                      docs[h].source.tenant) = {}]_vars

\* A hotswap that has left PREPARING reaches COMPLETE or FAILED, crashes or
\* not (Resume, xolu.go:57-59 and 112-113).
Settles ==
    \A h \in Hotswaps :
        (h \in DOMAIN docs /\ docs[h].state # "preparing") ~>
            (h \in DOMAIN docs /\ isTerminal(docs[h].state))

\* A hotswap requested with AutoAdvance leaves PREPARING by itself
\* (hotswap.go:102-104).
AutoAdvances ==
    \A h \in Hotswaps :
        (h \in DOMAIN docs /\ docs[h].auto) ~>
            (h \in DOMAIN docs /\ docs[h].state # "preparing")

\* Of two transitions that loaded the same version of the document one wins
\* and the other gets a conflict: a write that was accepted carried the
\* version its thread loaded (advanceState; "one winning and one receiving a
\* 409", xolu.go:61-63).
ConcurrentTransitionsConflict ==
    \A t \in threads : t.at = "post" => t.version = t.loaded
=============================================================================
