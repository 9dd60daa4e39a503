------------------------------- MODULE Proxy -------------------------------
(***************************************************************************)
(* The tenant-aware reverse proxy (pkg/proxy): requests that resolve their *)
(* tenant through a location cache in front of nolu's tenant directory,    *)
(* follow 307 answers and give up after MaxRedirects, while tenants are    *)
(* moved between xolu instances.  No lock is held from the cache miss to   *)
(* the entry that the directory's answer leaves in the cache.              *)
(*                                                                         *)
(* Headers, query strings and the numeric tenant ID in the rewritten path  *)
(* are left out.  What xolu and nolu do is external: an instance answers   *)
(* 307 for a tenant it does not serve (any more), and the directory learns *)
(* of a move some time after it.                                           *)
(***************************************************************************)
EXTENDS Naturals, Sequences, FiniteSets, SequencesExt

CONSTANTS
    Instances,
    RequestIDs,
    Menus,         \* requests that run together: ID -> [path, write]: path below the mount, write has a body
    Deployments,   \* how the proxy may be mounted: [prefix, strip, MountPath, embedded]
    CacheTTL, CacheSize, MaxRedirects,  \* proxy.Config
    DirectoryTTL,  \* cacheTTL of nolu's TenantDirectory
    UnstableTTL,   \* the StableUntil InvalidateTenant leaves (2 s in the code)
    MaxMoves, MaxFaults, MaxTime        \* bounds

ProxyAssumption ==
    /\ {CacheTTL, CacheSize, DirectoryTTL} \subseteq Nat \ {0}
    /\ {MaxRedirects, UnstableTTL, MaxMoves, MaxFaults, MaxTime} \subseteq Nat
    /\ UnstableTTL <= DirectoryTTL   \* 2 and 30 seconds
    /\ Instances # {} /\ "none" \notin Instances
    /\ \A d \in Deployments : d.embedded \in BOOLEAN
    /\ \A m \in Menus, r \in RequestIDs : m[r].write \in BOOLEAN

VARIABLES
    deploy,   \* the deployment
    requests, \* the requests that will be made
    serving,  \* tenant -> the instance that serves it, or "none" while quiesced
    dir,      \* tenant -> [instance, StableUntil]
    changed,  \* tenant -> when the directory last gave it another instance
    cache,    \* locationCache.lru, most recent first: [key, value, expires]
    req,      \* per request: [pc, redirects, loc, spent, calm, status]
    now, moves, faults

vars == <<deploy, requests, serving, dir, changed, cache, req, now, moves, faults>>

Known == {Last(requests[r].path) : r \in RequestIDs}

-----------------------------------------------------------------------------
(* locationCache: the list and the map hold the same entries *)

Keys(c) == {c[i].key : i \in DOMAIN c}
At(c, key) == CHOOSE i \in DOMAIN c : c[i].key = key
Without(c, key) == IF key \in Keys(c) THEN RemoveAt(c, At(c, key)) ELSE c

expired(e) == now > e.expires

hit(c, key) == key \in Keys(c) /\ ~expired(c[At(c, key)])

\* get: an expired entry is removed, a live one moves to the front.
afterGet(c, key) ==
    CASE key \notin Keys(c) -> c
      [] key \in Keys(c) /\ hit(c, key) -> <<c[At(c, key)]>> \o Without(c, key)
      [] OTHER -> Without(c, key)

\* setWithTTL: at capacity the last entry makes room, unless the key is there.
setWithTTL(c, key, value, ttl) ==
    LET entry == [key |-> key, value |-> value, expires |-> now + ttl]
    IN  <<entry>> \o (IF key \in Keys(c) THEN Without(c, key)
                      ELSE IF Len(c) >= CacheSize THEN Front(c) ELSE c)

\* Variant: a 307 leaves the cache alone.
InvalidateNothing(c, key) == c

Invalidate(c, key) == Without(c, key)

\* What HTTPResolver.Locate keeps of nolu's answer: it is cached until
\* StableUntil, however long that is, and not at all when that has passed.
storedSidecar(c, key, value) ==
    IF value.StableUntil > now
    THEN setWithTTL(c, key, value.instance, value.StableUntil - now) ELSE c

\* What RegistryResolver.Locate keeps: the instance, for the configured TTL.
storedEmbedded(c, key, value) == setWithTTL(c, key, value.instance, CacheTTL)

-----------------------------------------------------------------------------
(* The path, as a sequence of its segments *)

\* What the handler sees of a request to the address the docs give: nolu's
\* router puts http.StripPrefix in front of the proxy (buildRoutes).
Routed(d, m, r) ==
    LET path == d.prefix \o m[r].path
    IN  IF d.strip THEN Tail(path) ELSE path

\* parsePath: the mount path, "tenant", the name.  << >> stands for an error.
parsePath(mount, path) ==
    LET rest == IF mount = "/" THEN path ELSE Tail(path)
    IN  IF mount # "/" /\ Head(path) # mount THEN <<>>
        ELSE IF Len(rest) < 2 \/ Head(rest) # "tenant" THEN <<>> ELSE <<rest[2]>>

parsed(d, m, r) == parsePath(d.MountPath, Routed(d, m, r))

tenant(r) == parsed(deploy, requests, r)[1]

\* The menus' paths end with the tenant's name; the rest of a path does not
\* matter to the proxy.
MenuAssumption ==
    \A d \in Deployments, m \in Menus, r \in RequestIDs :
        parsed(d, m, r) # <<>> => parsed(d, m, r)[1] = Last(m[r].path)

-----------------------------------------------------------------------------
Idle == [pc |-> "new", redirects |-> 0, loc |-> [instance |-> "none", StableUntil |-> 0],
         spent |-> FALSE, calm |-> FALSE, status |-> 0]

Init ==
    /\ deploy \in Deployments
    /\ requests \in Menus
    /\ serving = [t \in Known |-> CHOOSE i \in Instances : TRUE]
    /\ dir = [t \in Known |-> [instance |-> serving[t], StableUntil |-> DirectoryTTL]]
    /\ changed = [t \in Known |-> 0]
    /\ cache = <<>>
    /\ req = [r \in RequestIDs |-> Idle]
    /\ now = 0 /\ moves = 0 /\ faults = 0

Update(r, rec) == req' = [req EXCEPT ![r] = rec]
Answer(r, status) == Update(r, [Idle EXCEPT !.pc = "done", !.calm = req[r].calm, !.status = status])

\* ServeHTTP up to the first forward.  calm: the directory knows where the
\* tenant is (it stays so until the tenant moves).
Arrive(r) ==
    /\ req[r].pc = "new"
    /\ IF parsed(deploy, requests, r) = <<>>
       THEN Answer(r, 400)
       ELSE Update(r, [req[r] EXCEPT
                !.pc = "resolve",
                !.calm = tenant(r) \in DOMAIN dir /\ dir[tenant(r)].instance = serving[tenant(r)]])
    /\ UNCHANGED <<deploy, requests, serving, dir, changed, cache, now, moves, faults>>

\* The head of forward: the redirect limit, then the cache.
Resolve(r) ==
    /\ req[r].pc = "resolve"
    /\ IF req[r].redirects > MaxRedirects
       THEN Answer(r, 502) /\ UNCHANGED cache
       ELSE /\ cache' = afterGet(cache, tenant(r))
            /\ IF hit(cache, tenant(r))
               THEN LET e == cache[At(cache, tenant(r))]
                    IN  Update(r, [req[r] EXCEPT !.pc = "send", !.loc = [instance |-> e.value, StableUntil |-> 0]])
               ELSE Update(r, [req[r] EXCEPT !.pc = "locate"])
    /\ UNCHANGED <<deploy, requests, serving, dir, changed, now, moves, faults>>

\* The directory is asked: in process, or through handleLocate.  A tenant it
\* does not know is an error like any other, 502 to the caller.
Locate(r) ==
    /\ req[r].pc = "locate"
    /\ IF tenant(r) \in DOMAIN dir
       THEN Update(r, [req[r] EXCEPT !.pc = "store", !.loc = dir[tenant(r)]])
       ELSE Answer(r, 502)
    /\ UNCHANGED <<deploy, requests, serving, dir, changed, cache, now, moves, faults>>

\* The rest of Resolver.Locate.
Store(r) ==
    /\ req[r].pc = "store"
    /\ cache' = IF deploy.embedded THEN storedEmbedded(cache, tenant(r), req[r].loc)
                ELSE storedSidecar(cache, tenant(r), req[r].loc)
    /\ Update(r, [req[r] EXCEPT !.pc = "send", !.loc.StableUntil = 0])
    /\ UNCHANGED <<deploy, requests, serving, dir, changed, now, moves, faults>>

\* Variant: redirects are not counted.
RedirectedUncounted(r) == [req[r] EXCEPT !.pc = "resolve", !.loc = Idle.loc, !.spent = TRUE]

\* A 307: try again with one redirect more.  The transport has read and
\* closed the body.
Redirected(r) ==
    [req[r] EXCEPT !.pc = "resolve", !.loc = Idle.loc, !.redirects = @ + 1, !.spent = TRUE]

\* The request goes to the instance.  A body that an earlier attempt consumed
\* cannot be sent again: RoundTrip fails.
Send(r) ==
    /\ req[r].pc = "send"
    /\ IF requests[r].write /\ req[r].spent
       THEN Answer(r, 502) /\ UNCHANGED cache
       ELSE IF serving[tenant(r)] = req[r].loc.instance
       THEN Answer(r, 200) /\ UNCHANGED cache
       ELSE /\ cache' = Invalidate(cache, tenant(r))
            /\ Update(r, Redirected(r))
    /\ UNCHANGED <<deploy, requests, serving, dir, changed, now, moves, faults>>

\* An error of the transport (502), or the ForwardTimeout of the whole
\* request, resolving included (504).
Fault(r) ==
    /\ req[r].pc \notin {"new", "done"}
    /\ faults < MaxFaults /\ faults' = faults + 1
    /\ \E status \in {502, 504} :
          Update(r, [Idle EXCEPT !.pc = "done", !.status = status])
    /\ UNCHANGED <<deploy, requests, serving, dir, changed, cache, now, moves>>

-----------------------------------------------------------------------------
(* External: the hotswap, the directory and the clock *)

Disturbed(t) ==
    [r \in RequestIDs |->
        [req[r] EXCEPT !.calm = @ /\ Last(requests[r].path) # t]]

\* A hotswap begins: the source answers 307, InvalidateTenant is called.
Quiesce(t) ==
    /\ moves < MaxMoves /\ serving[t] # "none"
    /\ moves' = moves + 1
    /\ serving' = [serving EXCEPT ![t] = "none"]
    /\ dir' = IF t \in DOMAIN dir THEN [dir EXCEPT ![t].StableUntil = now + UnstableTTL] ELSE dir
    /\ req' = Disturbed(t)
    /\ UNCHANGED <<deploy, requests, changed, cache, now, faults>>

\* It ends: the target serves the tenant, or the source again.
Activate(t, i) ==
    /\ serving[t] = "none"
    /\ serving' = [serving EXCEPT ![t] = i]
    /\ UNCHANGED <<deploy, requests, dir, changed, cache, req, now, moves, faults>>

\* The directory handles an event of the tenant.
Learn(t) ==
    /\ serving[t] # "none"
    /\ t \in DOMAIN dir => (dir[t].instance # serving[t] \/ dir[t].StableUntil < now)
    /\ dir' = [u \in DOMAIN dir \cup {t} |->
                  IF u = t THEN [instance |-> serving[t], StableUntil |-> now + DirectoryTTL]
                  ELSE dir[u]]
    /\ changed' = IF t \in DOMAIN dir /\ dir[t].instance = serving[t] THEN changed
                  ELSE [changed EXCEPT ![t] = now]
    /\ UNCHANGED <<deploy, requests, serving, cache, req, now, moves, faults>>

\* The last entity of the tenant is retired: its entry goes.
Forget(t) ==
    /\ faults < MaxFaults /\ faults' = faults + 1
    /\ t \in DOMAIN dir
    /\ dir' = [u \in DOMAIN dir \ {t} |-> dir[u]]
    /\ req' = Disturbed(t)
    /\ UNCHANGED <<deploy, requests, serving, changed, cache, now, moves>>

\* No time passes between the two halves of an in-process Locate.
Tick ==
    /\ deploy.embedded => \A r \in RequestIDs : req[r].pc # "store"
    /\ now < MaxTime /\ now' = now + 1
    /\ UNCHANGED <<deploy, requests, serving, dir, changed, cache, req, moves, faults>>

Step(r) == Arrive(r) \/ Resolve(r) \/ Locate(r) \/ Store(r) \/ Send(r)

Next ==
    \/ \E r \in RequestIDs : Step(r) \/ Fault(r)
    \/ \E t \in Known : Quiesce(t) \/ Learn(t) \/ Forget(t)
                        \/ \E i \in Instances : Activate(t, i)
    \/ Tick

\* Every request's goroutine runs on.
Spec == Init /\ [][Next]_vars /\ \A r \in RequestIDs : WF_vars(Step(r))

-----------------------------------------------------------------------------
\* A read that arrives when the directory is right about its tenant, and
\* during which the tenant stays where it is, succeeds although the cache was
\* stale and other requests put stale answers back after the invalidation
\* ("invalidates the cache and retries (up to MaxRedirects)", proxy.go:28).
ReadsReach ==
    \A r \in RequestIDs :
        (req[r].pc = "done" /\ req[r].calm /\ ~requests[r].write) => req[r].status = 200

\* However late an answer of the directory reaches the cache, and whatever is
\* invalidated meanwhile, a location is served for a bounded time after the
\* directory has learned better: CacheTTL when embedded ("the TTL is the
\* worst-case staleness", config.go:58-62), the directory's own TTL in a
\* sidecar.  The LRU list stays within its capacity, one entry per tenant.
StaleBounded ==
    /\ \A i \in DOMAIN cache :
          LET t == cache[i].key
          IN  (t \in DOMAIN dir /\ hit(cache, t) /\ cache[i].value # dir[t].instance) =>
                  now <= changed[t] + (IF deploy.embedded THEN CacheTTL ELSE DirectoryTTL)
    /\ Len(cache) <= CacheSize
    /\ \A i, j \in DOMAIN cache : cache[i].key = cache[j].key => i = j

\* Every other request for the tenant that is under way may put one stale
\* answer back into the cache, and an earlier one may have left one there: a
\* redirect must be left for each of them.
FewAtOnce ==
    \A q \in RequestIDs :
        LET rivals == {r \in RequestIDs : /\ Last(requests[r].path) = Last(requests[q].path)
                                          /\ req[r].pc \notin {"new", "done"}}
        IN  IsFiniteSet(rivals) /\ Cardinality(rivals) <= MaxRedirects

ProxyReads == ReadsReach /\ StaleBounded

\* Every request is answered, whatever the directory and the instances do
\* (the redirect limit, proxy.go:123-126).
EveryRequestAnswered == <>(\A r \in RequestIDs : req[r].pc = "done")

\* A request for a tenant the directory knows is never refused as malformed
\* ("requests arrive as /proxy/tenant/{name}/...", config.go:46).
MountReachable ==
    \A r \in RequestIDs : Head(requests[r].path) = "tenant" => req[r].status # 400
=============================================================================
