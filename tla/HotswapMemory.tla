--------------------------- MODULE HotswapMemory ---------------------------
(***************************************************************************)
(* MemoryManager (pkg/hotswap/manager.go) at work on a MemoryRegistry,     *)
(* whose listing and Get of a listed entity never fail.                    *)
(*                                                                         *)
(* The manager's methods hold its mutex and are one action each.  The work *)
(* of a hotswap is done by goroutines (driveQuiesce, driveMigration,       *)
(* driveValidation, driveCutover, driveRollback), each started with `go`   *)
(* and each working in stages: it takes the mutex to look at the state,    *)
(* releases it, does its remote or registry work, and takes the mutex      *)
(* again to write the new state.  Every stage is an action, so an Abort, a *)
(* second hotswap or a client of the registry may come between two stages. *)
(*                                                                         *)
(* Left out: the History and FailureReason fields (written, never read),   *)
(* EntityCount and Lag, the cutover event on the bus, and the StableUntil  *)
(* hint of InvalidateTenant, which lives in the tenant directory.          *)
(***************************************************************************)
EXTENDS Records, FiniteSets

CONSTANTS
    Hotswaps,       \* the IDs uuid.New may return
    Moves,          \* [source, target]: the InstanceRefs Request is called with
    IoluModes,      \* "simulated" (no DB paths: phases are no-ops) or "configured"
    AutoAdvance,    \* the values of the option the operator uses
    CallsMayFail,   \* whether the quiesce/unquiesce calls to xolu may fail
    InitRecords,    \* the entities registered before the first hotswap
    ClientProtocol, \* Protocol of transfers made by registry clients
    MaxAborts,      \* bound: Abort calls
    MaxClientOps    \* bound: Register/Transfer/Retire calls by clients

InstanceRefs == {m.source : m \in Moves} \cup {m.target : m \in Moves}

\* The reference driveCutover writes for an entity: the target's instance and
\* tenant ID, the entity's own type and ID, and no tenant name.
newRef(target, current) ==
    [instance |-> target.instance, tenant |-> target.tenant,
     name |-> "", local |-> current.local]

ASSUME HotswapAssumption ==
    /\ IoluModes \subseteq {"simulated", "configured"}
    /\ AutoAdvance \subseteq BOOLEAN
    /\ CallsMayFail \in BOOLEAN
    /\ Hotswaps \cup {ClientProtocol} \subseteq Protocols
    /\ DOMAIN InitRecords \subseteq GlobalIDs
    /\ InitRecords \in [DOMAIN InitRecords -> Record]
    /\ MaxAborts \in Nat /\ MaxClientOps \in Nat
    /\ \A m \in Moves : \A r \in LocalRefs : newRef(m.target, r) \in LocalRefs

VARIABLES
    hs,         \* m.hotswaps: ID -> hotswap
    threads,    \* the goroutines that have not returned
    started,    \* per hotswap, how many goroutines were started for it
    quiesced,   \* source tenants (instance, name) whose xolu refuses writes
    records,    \* the registry
    aborts,
    clientOps

vars == <<hs, threads, started, quiesced, records, aborts, clientOps>>

States == {"preparing", "quiescing", "migrating", "validating",
           "cutting_over", "complete", "rolling_back", "failed"}

isTerminal(s) == s \in {"complete", "failed"}

Hotswap == [source : InstanceRefs, target : InstanceRefs, state : States,
            iolu : IoluModes]

Forward == {"quiesce", "migration", "validation", "cutover"}

Codes == Forward \cup {"rollback"}

\* A goroutine: the hotswap it works for, a number that tells it from the
\* others, the function it runs and where in it, and the locals of
\* driveCutover (the GlobalIDs still to move, the record just read).
Threads == [h : Hotswaps, n : Nat, code : Codes,
            at : {"start", "call", "finish"},
            todo : SUBSET GlobalIDs,
            got : {<<>>} \cup (GlobalIDs \X LocalRefs)]

thread(h, code) ==
    [h |-> h, n |-> started[h] + 1, code |-> code, at |-> "start",
     todo |-> {}, got |-> <<>>]

SourceTenant(h) == <<hs[h].source.instance, hs[h].source.name>>

-----------------------------------------------------------------------------
Init ==
    /\ hs = << >>
    /\ threads = {}
    /\ started = [h \in Hotswaps |-> 0]
    /\ quiesced = {}
    /\ records = InitRecords
    /\ aborts = 0
    /\ clientOps = 0

\* go m.drive...(ctx, id), from a method (done = {}) or as the last act of the
\* goroutine that returns (done = {t}).
Go(h, code, done) ==
    /\ threads' = (threads \ done) \cup {thread(h, code)}
    /\ started' = [started EXCEPT ![h] = @ + 1]

Returns(t) == threads' = threads \ {t} /\ UNCHANGED started

\* Goroutine t goes on to its next stage.
Continues(t, u) == threads' = (threads \ {t}) \cup {u} /\ UNCHANGED started

advanceLocked(h, next) == hs' = [hs EXCEPT ![h].state = next]

Request(h, move, iolu, auto) ==
    /\ h \notin DOMAIN hs
    /\ \A x \in DOMAIN hs :
           (/\ hs[x].source.instance = move.source.instance
            /\ hs[x].source.name = move.source.name) => isTerminal(hs[x].state)
    /\ hs' = Put(hs, h, [source |-> move.source, target |-> move.target,
                         state |-> IF auto THEN "quiescing" ELSE "preparing",
                         iolu |-> iolu])
    /\ IF auto THEN Go(h, "quiesce", {}) ELSE UNCHANGED <<threads, started>>
    /\ UNCHANGED <<quiesced, records, aborts, clientOps>>

\* Variants: the driver is not started; the state is not checked.
Confirm_NoDriver(h) ==
    /\ hs[h].state = "preparing"
    /\ advanceLocked(h, "quiescing")
    /\ UNCHANGED <<threads, started, quiesced, records, aborts, clientOps>>

Confirm_AnyState(h) ==
    /\ ~isTerminal(hs[h].state) /\ started[h] < 3
    /\ advanceLocked(h, "quiescing")
    /\ Go(h, "quiesce", {})
    /\ UNCHANGED <<quiesced, records, aborts, clientOps>>

Confirm(h) ==
    /\ hs[h].state = "preparing"
    /\ advanceLocked(h, "quiescing")
    /\ Go(h, "quiesce", {})
    /\ UNCHANGED <<quiesced, records, aborts, clientOps>>

Abort(h) ==
    /\ ~isTerminal(hs[h].state)
    /\ aborts < MaxAborts
    /\ aborts' = aborts + 1
    /\ advanceLocked(h, "rolling_back")
    /\ Go(h, "rollback", {})
    /\ UNCHANGED <<quiesced, records, clientOps>>

\* The state a forward goroutine expects to find its hotswap in.
Expected(code) ==
    CASE code = "quiesce"    -> "quiescing"
      [] code = "migration"  -> "migrating"
      [] code = "validation" -> "validating"
      [] code = "cutover"    -> "cutting_over"

\* The first stage: look at the state under the mutex, return when it is not
\* the expected one.  driveRollback looks at nothing.
Start(t) ==
    /\ t.at = "start"
    /\ IF t.code \in Forward /\ hs[t.h].state # Expected(t.code)
       THEN Returns(t)
       ELSE Continues(t, [t EXCEPT !.at = "call"])
    /\ UNCHANGED <<hs, quiesced, records, aborts, clientOps>>

\* Variant: the goroutine calls again until the source confirms, which it
\* never does.
QuiesceCall_Waits(t) ==
    /\ t.code = "quiesce" /\ t.at = "call"
    /\ quiesced' = quiesced \cup {SourceTenant(t.h)}
    /\ UNCHANGED <<hs, threads, started, records, aborts, clientOps>>

\* driveQuiesce: the quiesce call to the source; its failure is ignored.
QuiesceCall(t) ==
    /\ t.code = "quiesce" /\ t.at = "call"
    /\ \/ quiesced' = quiesced \cup {SourceTenant(t.h)}
       \/ CallsMayFail /\ UNCHANGED quiesced
    /\ Continues(t, [t EXCEPT !.at = "finish"])
    /\ UNCHANGED <<hs, records, aborts, clientOps>>

\* driveQuiesce, after the pause: MIGRATING, unless the state has changed.
QuiesceFinish(t) ==
    /\ t.code = "quiesce" /\ t.at = "finish"
    /\ IF hs[t.h].state = "quiescing"
       THEN advanceLocked(t.h, "migrating") /\ Go(t.h, "migration", {t})
       ELSE Returns(t) /\ UNCHANGED hs
    /\ UNCHANGED <<quiesced, records, aborts, clientOps>>

\* failHotswap: ROLLING_BACK, whatever the state is by now.
failHotswap(t) == advanceLocked(t.h, "rolling_back") /\ Go(t.h, "rollback", {t})

\* driveMigration: runMigration has returned an error (never in simulation).
MigrationError(t) ==
    /\ t.code = "migration" /\ t.at = "call"
    /\ hs[t.h].iolu = "configured"
    /\ failHotswap(t)
    /\ UNCHANGED <<quiesced, records, aborts, clientOps>>

\* driveMigration: runMigration has returned nil.
MigrationDone(t) ==
    /\ t.code = "migration" /\ t.at = "call"
    /\ IF hs[t.h].state = "migrating"
       THEN advanceLocked(t.h, "validating") /\ Go(t.h, "validation", {t})
       ELSE Returns(t) /\ UNCHANGED hs
    /\ UNCHANGED <<quiesced, records, aborts, clientOps>>

\* driveValidation: runValidation has returned (always Valid in simulation).
ValidationDone(t, valid) ==
    /\ t.code = "validation" /\ t.at = "call"
    /\ valid \/ hs[t.h].iolu = "configured"
    /\ IF hs[t.h].state # "validating"
       THEN Returns(t) /\ UNCHANGED hs
       ELSE IF valid
       THEN advanceLocked(t.h, "cutting_over") /\ Go(t.h, "cutover", {t})
       ELSE advanceLocked(t.h, "rolling_back") /\ Go(t.h, "rollback", {t})
    /\ UNCHANGED <<quiesced, records, aborts, clientOps>>

\* Variant: every entity of the instance is listed.
CutoverList_WholeInstance(t) ==
    /\ t.code = "cutover" /\ t.at = "call"
    /\ Continues(t, [t EXCEPT !.at = "finish",
           !.todo = {g \in DOMAIN records :
                        /\ records[g].status = "active"
                        /\ records[g].current.instance = hs[t.h].source.instance}])
    /\ UNCHANGED <<hs, quiesced, records, aborts, clientOps>>

\* driveCutover: list the GlobalIDs of the tenant on the source.
CutoverList(t) ==
    /\ t.code = "cutover" /\ t.at = "call"
    /\ LET source == hs[t.h].source
       IN  Continues(t, [t EXCEPT !.at = "finish",
               !.todo = ListByInstanceAndTenant(records, source.instance, source.tenant)])
    /\ UNCHANGED <<hs, quiesced, records, aborts, clientOps>>

\* driveCutover, one turn of the loop: Get the record...
CutoverGet(t, g) ==
    /\ t.code = "cutover" /\ t.at = "finish" /\ t.got = <<>>
    /\ g \in t.todo
    /\ Continues(t, [t EXCEPT !.todo = @ \ {g}, !.got = <<g, records[g].current>>])
    /\ UNCHANGED <<hs, quiesced, records, aborts, clientOps>>

\* ... and Transfer it from where the Get found it; a refusal is skipped.
CutoverTransfer(t) ==
    /\ t.code = "cutover" /\ t.at = "finish" /\ t.got # <<>>
    /\ LET g == t.got[1]
           from == t.got[2]
           to == newRef(hs[t.h].target, from)
       IN  IF MayTransfer(records, g, from)
           THEN records' = Put(records, g, Transferred(records[g], from, to, t.h))
           ELSE UNCHANGED records
    /\ Continues(t, [t EXCEPT !.got = <<>>])
    /\ UNCHANGED <<hs, quiesced, aborts, clientOps>>

\* Variants: the loop stops after one entity; an error at the end fails a
\* hotswap whose entities have been moved.
CutoverFinish_Early(t) ==
    /\ t.code = "cutover" /\ t.at = "finish" /\ t.got = <<>>
    /\ advanceLocked(t.h, "complete")
    /\ Returns(t)
    /\ UNCHANGED <<quiesced, records, aborts, clientOps>>

CutoverFinish_Fails(t) ==
    /\ t.code = "cutover" /\ t.at = "finish" /\ t.got = <<>>
    /\ t.todo = {}
    /\ failHotswap(t)
    /\ UNCHANGED <<quiesced, records, aborts, clientOps>>

\* driveCutover, at the end: COMPLETE, whatever the state is by now.
CutoverFinish(t) ==
    /\ t.code = "cutover" /\ t.at = "finish" /\ t.got = <<>>
    /\ t.todo = {}
    /\ advanceLocked(t.h, "complete")
    /\ Returns(t)
    /\ UNCHANGED <<quiesced, records, aborts, clientOps>>

\* Variant: the call is not made.
RollbackCall_Skipped(t) ==
    /\ t.code = "rollback" /\ t.at = "call"
    /\ Continues(t, [t EXCEPT !.at = "finish"])
    /\ UNCHANGED <<hs, quiesced, records, aborts, clientOps>>

\* driveRollback: the unquiesce call to the source; its failure is ignored.
RollbackCall(t) ==
    /\ t.code = "rollback" /\ t.at = "call"
    /\ \/ quiesced' = quiesced \ {SourceTenant(t.h)}
       \/ CallsMayFail /\ UNCHANGED quiesced
    /\ Continues(t, [t EXCEPT !.at = "finish"])
    /\ UNCHANGED <<hs, records, aborts, clientOps>>

\* driveRollback, at the end: FAILED, whatever the state is by now.
RollbackFinish(t) ==
    /\ t.code = "rollback" /\ t.at = "finish"
    /\ advanceLocked(t.h, "failed")
    /\ Returns(t)
    /\ UNCHANGED <<quiesced, records, aborts, clientOps>>

\* Other users of the registry, while hotswaps run.
Client(g) ==
    /\ clientOps < MaxClientOps
    /\ clientOps' = clientOps + 1
    /\ \/ \E owner \in LocalRefs :
             g \notin DOMAIN records /\ records' = Put(records, g, NewRecord(owner))
       \/ \E from, to \in LocalRefs :
             /\ MayTransfer(records, g, from)
             /\ records' = Put(records, g, Transferred(records[g], from, to, ClientProtocol))
       \/ MayRetire(records, g) /\ records' = Put(records, g, Retired(records[g]))
    /\ UNCHANGED <<hs, threads, started, quiesced, aborts>>

Step(t) ==
    \/ Start(t)
    \/ QuiesceCall(t) \/ QuiesceFinish(t)
    \/ MigrationError(t) \/ MigrationDone(t)
    \/ \E valid \in BOOLEAN : ValidationDone(t, valid)
    \/ CutoverList(t) \/ (\E g \in GlobalIDs : CutoverGet(t, g))
    \/ CutoverTransfer(t) \/ CutoverFinish(t)
    \/ RollbackCall(t) \/ RollbackFinish(t)

Next ==
    \/ \E h \in Hotswaps, move \in Moves, iolu \in IoluModes, auto \in AutoAdvance :
           Request(h, move, iolu, auto)
    \/ \E h \in DOMAIN hs : Confirm(h) \/ Abort(h)
    \/ \E t \in threads : Step(t)
    \/ \E g \in GlobalIDs : Client(g)

Spec == Init /\ [][Next]_vars

\* Every goroutine that can run is eventually scheduled, and every remote
\* call returns (the HTTP client has a timeout).
Fairness == \A h \in Hotswaps, n \in 1..MaxAborts + 5 :
                WF_vars(\E t \in threads : t.h = h /\ t.n = n /\ Step(t))

FairSpec == Spec /\ Fairness

-----------------------------------------------------------------------------
\* Hotswaps, goroutines and records are well formed, and a goroutine works on
\* a hotswap that exists and on registered entities (manager.go never deletes
\* either), so none of its look-ups can fail.
TypeOK ==
    /\ DOMAIN hs \subseteq Hotswaps
    /\ hs \in [DOMAIN hs -> Hotswap]
    /\ threads \subseteq Threads
    /\ \A t \in threads : t.h \in DOMAIN hs
    /\ started \in [Hotswaps -> Nat]
    /\ DOMAIN records \subseteq GlobalIDs
    /\ records \in [DOMAIN records -> Record]
    /\ \A t \in threads : /\ t.todo \subseteq DOMAIN records
                          /\ t.got # <<>> => t.got[1] \in DOMAIN records
    /\ aborts \in Nat
    /\ clientOps \in Nat

\* A hotswap between PREPARING and its end always has a goroutine that will
\* take it further, however Aborts, errors and goroutines interleave: none is
\* left in a working state with nobody working on it.
NoOrphan ==
    \A h \in DOMAIN hs :
        /\ \A code \in Forward : hs[h].state = Expected(code) =>
               \E t \in threads : t.h = h /\ t.code = code
        /\ hs[h].state = "rolling_back" =>
               \E t \in threads : t.h = h /\ t.code = "rollback"

\* At most one of driveQuiesce, driveMigration, driveValidation and
\* driveCutover runs for a hotswap, so its entities are cut over at most once.
OneForwardDriver ==
    \A t, u \in threads :
        (t.h = u.h /\ t.code \in Forward /\ u.code \in Forward) => t = u

\* At most one hotswap is in progress for a source tenant: Request refuses a
\* second one (hotswap.go:179-180, ErrAlreadyExists).
OneActive ==
    \A h, k \in DOMAIN hs :
        (/\ h # k /\ SourceTenant(h) = SourceTenant(k)
         /\ ~isTerminal(hs[h].state)) => isTerminal(hs[k].state)

\* From MIGRATING to CUTTING_OVER the source refuses writes to the tenant
\* (driveQuiesce, and "stop accepting writes", hotswap.go:21-22).
WritesBlockedWhileMoving ==
    \A h \in DOMAIN hs :
        hs[h].state \in {"migrating", "validating", "cutting_over"} =>
            SourceTenant(h) \in quiesced

\* When a failed hotswap has no goroutine left, and no other hotswap of the
\* tenant has started since, the source accepts writes again (driveRollback,
\* "Source quiesce lifted", hotswap.go:29).
QuiesceLifted ==
    \A h \in DOMAIN hs :
        (/\ hs[h].state = "failed"
         /\ \A t \in threads : t.h # h
         /\ \A k \in DOMAIN hs \ {h} : SourceTenant(k) # SourceTenant(h)) =>
            SourceTenant(h) \notin quiesced

\* The source refuses the tenant's writes exactly as long as the protocol
\* needs it to (driveQuiesce, driveRollback).
QuiesceHeld == WritesBlockedWhileMoving /\ QuiesceLifted

\* COMPLETE and FAILED are final: no goroutine that finishes late changes the
\* state again (isTerminal; "terminal failure after rollback", hotswap.go:57).
TerminalIsFinal ==
    [][\A h \in DOMAIN hs :
          isTerminal(hs[h].state) => hs'[h].state = hs[h].state]_vars

\* A hotswap that failed has moved nothing: the GlobalIDs still point where
\* they pointed before it ("All GlobalIDs still point at source",
\* hotswap.go:30).
FailedMeansUntouched ==
    \A h \in DOMAIN hs : hs[h].state = "failed" =>
        \A g \in DOMAIN records : \A i \in 1..Len(records[g].history) :
            records[g].history[i].protocol # h

\* A hotswap moves only entities that belong to its source tenant at the
\* moment they are moved (driveCutover, "Transfer only GlobalIDs belonging to
\* the migrating tenant", manager.go:340).
OnlyTenantMoved ==
    \A g \in DOMAIN records : \A i \in 1..Len(records[g].history) :
        LET e == records[g].history[i]
        IN  e.protocol \in DOMAIN hs =>
                /\ e.from.instance = hs[e.protocol].source.instance
                /\ e.from.tenant = hs[e.protocol].source.tenant

\* Hotswaps of different tenants do not touch each other's entities, and a
\* tenant has one hotswap at a time (Request, driveCutover).
TenantsSeparate == OneActive /\ OnlyTenantMoved

\* When a hotswap becomes COMPLETE no active entity of the tenant is left on
\* the source ("atomically updates all GlobalIDs for this tenant",
\* manager.go:327).
CompleteMeansMoved ==
    [][\A h \in DOMAIN hs :
          (hs'[h].state = "complete" /\ hs[h].state # "complete") =>
              ListByInstanceAndTenant(records, hs[h].source.instance,
                                      hs[h].source.tenant) = {}]_vars

\* An end is what it says and stays: all moved when COMPLETE is written, and
\* no late goroutine writes another state over it (driveCutover, fail).
EndsHold == CompleteMeansMoved /\ TerminalIsFinal

\* A hotswap that has left PREPARING reaches COMPLETE or FAILED, through the
\* chain of goroutines that each start the next.
Settles ==
    \A h \in Hotswaps :
        (h \in DOMAIN hs /\ hs[h].state # "preparing") ~>
            (h \in DOMAIN hs /\ isTerminal(hs[h].state))
=============================================================================
