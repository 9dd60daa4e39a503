----------------------------- MODULE QueryJobs -----------------------------
(***************************************************************************)
(* The job managers of the asynchronous queries (xolu/pkg/oql/oql.go and   *)
(* xolu/pkg/sulpher/jobs.go): a job is a goroutine and an entry of a map   *)
(* that a cleanup loop prunes.  The two have the same shape and differ in  *)
(* what the cleanup looks at.  An OQL query first asks the validator       *)
(* whether its entity exists; the engine's lock is taken for reading, so   *)
(* the validations of several queries interleave on one cache.             *)
(***************************************************************************)
EXTENDS Naturals

CONSTANTS
    Managers,   \* "oql", "sulpher"
    Jobs,       \* job IDs
    Entities,   \* entity types, which may be created while jobs run
    Missing,    \* a type that is never created
    TTL,        \* GraphQueryTTL
    MaxQuery,   \* the longest a query runs: QueryTimeout, at most TTL
    MaxTime     \* bound on the clock

\* As configured by default: 30 seconds for a query, a day for its outcome.
JobsAssumption == {TTL, MaxQuery} \subseteq Nat /\ MaxQuery <= TTL

VARIABLES
    manager,
    now,
    jobs,       \* jm.jobs: ID -> [status, created, updated]
    pc,         \* per job, where its goroutine is
    about,      \* per job: the entity of its query, and whether it existed at Submit
    ended,      \* per job: when it ended, and its status
    store,      \* the types the store and the schema directory have
    cache       \* Validator.entities

vars == <<manager, now, jobs, pc, about, ended, store, cache>>

Never == [at |-> 0, status |-> "none"]

Init ==
    /\ manager \in Managers /\ now = 0 /\ jobs = << >>
    /\ pc = [j \in Jobs |-> "new"]
    /\ about = [j \in Jobs |-> [entity |-> Missing, existed |-> FALSE]]
    /\ ended = [j \in Jobs |-> Never]
    /\ store \in SUBSET Entities /\ cache = store

goto(j, l) == pc' = [pc EXCEPT ![j] = l]
setJob(j, r) == jobs' = [i \in DOMAIN jobs \cup {j} |-> IF i = j THEN r ELSE jobs[i]]

\* Submit: the entry is made before the goroutine starts.
Submit(j, e) ==
    /\ pc[j] = "new"
    /\ setJob(j, [status |-> "pending", created |-> now, updated |-> now])
    /\ about' = [about EXCEPT ![j] = [entity |-> e, existed |-> e \in store]]
    /\ goto(j, "start")
    /\ UNCHANGED <<manager, now, ended, store, cache>>

\* The goroutine holds the job itself: what it writes is lost on no one but
\* the callers of GetJob if the entry has been deleted.
written(j, r) == IF j \in DOMAIN jobs THEN setJob(j, r) ELSE UNCHANGED jobs

Start(j) ==
    /\ pc[j] = "start"
    /\ written(j, [status |-> "running", created |-> jobs[j].created, updated |-> now])
    /\ goto(j, IF manager = "oql" THEN "lookup" ELSE "execute")
    /\ UNCHANGED <<manager, now, about, ended, store, cache>>

-----------------------------------------------------------------------------
(* Validator.EntityExists *)

Lookup(j) ==
    /\ pc[j] = "lookup"
    /\ goto(j, IF about[j].entity \in cache THEN "execute" ELSE "reset")
    /\ UNCHANGED <<manager, now, jobs, about, ended, store, cache>>

\* RefreshEntities: a new empty map, then the entries.
Reset(j) ==
    /\ pc[j] = "reset" /\ goto(j, "load")
    /\ cache' = {}
    /\ UNCHANGED <<manager, now, jobs, about, ended, store>>

Load(j) ==
    /\ pc[j] = "load" /\ goto(j, "recheck")
    /\ cache' = cache \cup store
    /\ UNCHANGED <<manager, now, jobs, about, ended, store>>

finish(j, status) ==
    /\ goto(j, "end")
    /\ ended' = [ended EXCEPT ![j] = [at |-> now, status |-> status]]
    /\ written(j, [jobs[j] EXCEPT !.status = status, !.updated = now])

Recheck(j) ==
    /\ pc[j] = "recheck"
    /\ IF about[j].entity \in cache THEN goto(j, "execute") /\ UNCHANGED <<jobs, ended>> ELSE finish(j, "missing")
    /\ UNCHANGED <<manager, now, about, store, cache>>

-----------------------------------------------------------------------------

\* The query returns, with rows or with an error (a timeout among them).
Execute(j, status) ==
    /\ pc[j] = "execute" /\ finish(j, status)
    /\ UNCHANGED <<manager, now, about, store, cache>>

\* Variant: the age of the job counts, not that of its last change.
expiredByAge(j) == jobs[j].created + TTL < now

\* What the cleanup looks at: OQL the last change, whatever the status;
\* sulpher the end, and only of a job that has ended.
expired(j) ==
    IF manager = "oql" THEN jobs[j].updated + TTL < now
    ELSE jobs[j].status \notin {"pending", "running"} /\ jobs[j].updated + TTL < now

Cleanup ==
    /\ \E j \in DOMAIN jobs : expired(j)
    /\ jobs' = [j \in {i \in DOMAIN jobs : ~expired(i)} |-> jobs[j]]
    /\ UNCHANGED <<manager, now, pc, about, ended, store, cache>>

CreateEntity(e) ==
    /\ e \notin store /\ store' = store \cup {e}
    /\ UNCHANGED <<manager, now, jobs, pc, about, ended, cache>>

\* A query that has run for MaxQuery is over before the clock moves on, and a
\* goroutine that was started has run.
Tick ==
    /\ now < MaxTime /\ now' = now + 1
    /\ \A j \in Jobs : pc[j] \notin {"new", "start", "end"} => (j \in DOMAIN jobs /\ now < jobs[j].updated + MaxQuery)
    /\ \A j \in Jobs : pc[j] # "start"
    /\ UNCHANGED <<manager, jobs, pc, about, ended, store, cache>>

step(j) == \/ Start(j) \/ Lookup(j) \/ Reset(j) \/ Load(j) \/ Recheck(j)
           \/ \E s \in {"completed", "failed"} : Execute(j, s)

Next == \/ \E j \in Jobs : step(j) \/ \E e \in Entities \cup {Missing} : Submit(j, e)
        \/ Cleanup \/ Tick \/ \E e \in Entities : CreateEntity(e)

Spec == Init /\ [][Next]_vars

-----------------------------------------------------------------------------

(* The outcome of a query is there for TTL after it ended, and says what    *)
(* happened: the cleanup runs between any two steps of the job, on a time   *)
(* stamp that the job moves, and OQL's also deletes jobs that run.          *)
OutcomesKept ==
    \A j \in Jobs : (pc[j] = "end" /\ now <= ended[j].at + TTL) =>
                        j \in DOMAIN jobs /\ jobs[j].status = ended[j].status

(* A query on an entity that existed when it was submitted is never refused *)
(* because the entity "does not exist": EntityExists refreshes its cache    *)
(* before it returns false.                                                 *)
NewEntitiesRecognised ==
    \A j \in Jobs : ended[j].status = "missing" => ~about[j].existed
=============================================================================
