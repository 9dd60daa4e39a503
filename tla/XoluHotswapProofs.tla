------------------------- MODULE XoluHotswapProofs -------------------------
(***************************************************************************)
(* What XoluHotswapManager guarantees for any number of hotswaps, tenants, *)
(* entities, calls and crashes: no hotswap has two forward goroutines and  *)
(* none moves an entity twice, whatever calls fail or lose their answers;  *)
(* and, when the calls to xolu succeed and operators wait, no hotswap is   *)
(* left without a goroutine, the source is blocked while data moves, and   *)
(* COMPLETE is written when all is moved.                                  *)
(***************************************************************************)
EXTENDS XoluHotswap, RecordsProofs, FiniteSetTheorems

-----------------------------------------------------------------------------
(* The functions, the states they need and the ones they start.            *)

LEMMA CodeFacts ==
    /\ Forward = {"quiesce", "migration", "validation", "cutover"}
    /\ Drivers = {"quiesce", "migration", "validation", "cutover", "rollback"}
    /\ Codes = {"quiesce", "migration", "validation", "cutover", "rollback",
                "confirm", "abort", "get", "fail"}
  BY DEF Forward, Drivers, Codes

LEMMA ExpectedFacts ==
    /\ Expected("confirm") = {"preparing"} /\ Expected("get") = {}
    /\ Expected("abort") = {s \in States : ~isTerminal(s)} /\ Expected("fail") = States
    /\ Expected("quiesce") = {"quiescing"} /\ Expected("migration") = {"migrating"}
    /\ Expected("validation") = {"validating"} /\ Expected("cutover") = {"cutting_over"}
    /\ Expected("rollback") = {"rolling_back"}
  BY DEF Expected

LEMMA NextStateFacts ==
    ASSUME NEW ok \in BOOLEAN
    PROVE  /\ NextState("confirm", ok) = "quiescing"
           /\ NextState("abort", ok) = "rolling_back" /\ NextState("fail", ok) = "rolling_back"
           /\ NextState("quiesce", ok) = "migrating" /\ NextState("migration", ok) = "validating"
           /\ NextState("validation", ok) = IF ok THEN "cutting_over" ELSE "rolling_back"
           /\ NextState("cutover", ok) = "complete" /\ NextState("rollback", ok) = "failed"
  BY DEF NextState

LEMMA NextDriverFacts ==
    ASSUME NEW ok \in BOOLEAN
    PROVE  /\ NextDriver("confirm", ok) = {"quiesce"}
           /\ NextDriver("abort", ok) = {"rollback"} /\ NextDriver("fail", ok) = {"rollback"}
           /\ NextDriver("quiesce", ok) = {"migration"}
           /\ NextDriver("migration", ok) = {"validation"}
           /\ NextDriver("validation", ok) = IF ok THEN {"cutover"} ELSE {"rollback"}
           /\ NextDriver("cutover", ok) = {} /\ NextDriver("rollback", ok) = {}
  BY DEF NextDriver

\* The goroutines a thread leaves behind: none or one driver.  Only Confirm
\* and the forward drivers start forward ones.
Heirs == {{}} \cup {{c} : c \in Drivers}

LEMMA HeirFacts ==
    ASSUME NEW code \in Codes \ {"get"}, NEW ok \in BOOLEAN
    PROVE  /\ NextState(code, ok) \in States
           /\ NextDriver(code, ok) \in Heirs /\ DriverAfterError(code, ok) \in Heirs
           /\ code \notin Forward \cup {"confirm"} => NextDriver(code, ok) \cap Forward = {}
           /\ DriverAfterError(code, ok) \cap Forward = {}
  <1>1. NextState(code, ok) \in States
    BY CodeFacts, NextStateFacts DEF States
  <1>2. DriverAfterError(code, ok) \in {{}, {"rollback"}}
    BY DEF DriverAfterError
  <1>3. /\ NextDriver(code, ok) \in {{}} \cup {{c} : c \in Drivers}
        /\ code \notin Forward \cup {"confirm"} => NextDriver(code, ok) \in {{}, {"rollback"}}
    BY CodeFacts, NextDriverFacts
  <1>4. "rollback" \in Drivers /\ "rollback" \notin Forward
    BY CodeFacts
  <1> QED
    BY <1>1, <1>2, <1>3, <1>4 DEF Heirs

-----------------------------------------------------------------------------
(* What the helpers of the actions do.                                     *)

\* A thread in order.
ThreadOK(u) ==
    /\ u \in Threads
    /\ u.h \in DOMAIN docs
    /\ u.at \in {"pick", "save", "post"} => u.h \in DOMAIN index
    /\ u.todo \subseteq DOMAIN records
    /\ u.got # <<>> => u.got[1] \in DOMAIN records

\* Get looks and returns.
GetLooks(u) == u.code = "get" => u.at \in {"load", "index"}

GetsLook == \A u \in threads : GetLooks(u)

FromMoves ==
    \A h \in DOMAIN docs :
        \E m \in Moves : docs[h].source = m.source /\ docs[h].target = m.target

\* A thread as it is started.
Fresh(u, h, code) ==
    /\ u \in Threads /\ u.h = h /\ u.code = code /\ u.at = "load"
    /\ u.pass = (IF code \in Drivers THEN 1 ELSE 2) /\ u.ok
    /\ u.todo = {} /\ u.got = <<>>

LEMMA FreshThread ==
    ASSUME NEW h \in Hotswaps, NEW n \in Nat, NEW code \in Codes
    PROVE  Fresh(thread(h, n, code), h, code)
  <1>1. thread(h, n, code) \in Threads
    BY DEF thread, Threads, States
  <1> QED
    BY <1>1 DEF thread, Fresh

\* What go does: the threads in done return, and at most one begins.
Begins(h, code, done) ==
    \E new : Fresh(new, h, code) /\ threads' = (threads \ done) \cup {new}

LEMMA GoEffect ==
    ASSUME started \in [Hotswaps -> Nat], NEW h \in Hotswaps, NEW codes \in {{}} \cup {{c} : c \in Codes},
           NEW done \in SUBSET threads, Go(h, codes, done)
    PROVE  /\ started' \in [Hotswaps -> Nat]
           /\ \/ codes = {} /\ threads' = threads \ done
              \/ \E c \in Codes : codes = {c} /\ Begins(h, c, done)
  <1>1. Cardinality({}) = 0 /\ \A c : Cardinality({c}) = 1
    BY FS_EmptySet, FS_Singleton
  <1>2. Cardinality(codes) \in Nat
    <2>1. CASE codes = {}
      BY <1>1, <2>1
    <2>2. ASSUME NEW c \in Codes, codes = {c}
          PROVE  Cardinality(codes) \in Nat
      BY <1>1, <2>2
    <2> QED
      BY <2>1, <2>2
  <1>3. started' \in [Hotswaps -> Nat]
    BY <1>2 DEF Go
  <1>4. CASE codes = {}
    BY <1>3, <1>4 DEF Go
  <1>5. ASSUME NEW c \in Codes, codes = {c}
        PROVE  Begins(h, c, done)
    <2> DEFINE new == thread(h, started[h] + 1, c)
    <2>1. Fresh(new, h, c)
      BY FreshThread
    <2>2. threads' = (threads \ done) \cup {new}
      BY <1>5 DEF Go
    <2> HIDE DEF new
    <2> QED
      BY <2>1, <2>2 DEF Begins
  <1> QED
    BY <1>3, <1>4, <1>5

\* Returns is a Go that starts nothing.
LEMMA ReturnsEffect ==
    ASSUME started \in [Hotswaps -> Nat], NEW t \in threads, t.h \in Hotswaps, Returns(t)
    PROVE  threads' = threads \ {t} /\ started' \in [Hotswaps -> Nat]
  <1>1. Go(t.h, {}, {t}) /\ {t} \in SUBSET threads /\ {} \in {{}} \cup {{c} : c \in Codes}
    BY DEF Returns
  <1> QED
    BY <1>1, GoEffect
-----------------------------------------------------------------------------
(* What each stage makes of its thread.                                    *)

\* Thread t goes on as u, with these in its fields.
Becomes(t, u, code, at, pass, ok) ==
    /\ u \in Threads /\ threads' = (threads \ {t}) \cup {u} /\ started' = started
    /\ u.h = t.h /\ u.code = code /\ u.at = at /\ u.pass = pass /\ u.ok = ok

SameWork(t, u) == u.todo = t.todo /\ u.got = t.got

LEMMA ThreadParts ==
    ASSUME TypeOK, NEW t \in threads
    PROVE  /\ t \in Threads /\ t.h \in Hotswaps /\ t.h \in DOMAIN docs /\ docs[t.h] \in Doc
           /\ t.code \in Codes /\ t.pass \in {1, 2} /\ t.ok \in BOOLEAN
           /\ docs[t.h].state \in States /\ docs[t.h].version \in Nat
           /\ {t} \in SUBSET threads /\ started \in [Hotswaps -> Nat]
  BY DEF TypeOK, Threads, Doc

LEMMA LoadEffect ==
    ASSUME TypeOK, NEW t \in threads, Load(t)
    PROVE  \E u : /\ Becomes(t, u, t.code, "index", t.pass, t.ok) /\ SameWork(t, u)
                  /\ u.state = docs[t.h].state /\ u.loaded = docs[t.h].version
  <1> DEFINE u == [t EXCEPT !.at = "index", !.state = docs[t.h].state,
                            !.loaded = docs[t.h].version]
  <1>0. t \in Threads /\ docs[t.h].state \in States /\ docs[t.h].version \in Nat
    BY ThreadParts
  <1>1. /\ u \in Threads /\ u.h = t.h /\ u.code = t.code /\ u.at = "index" /\ u.pass = t.pass
        /\ u.ok = t.ok /\ u.todo = t.todo /\ u.got = t.got
        /\ u.state = docs[t.h].state /\ u.loaded = docs[t.h].version
    BY <1>0 DEF Threads
  <1>2. threads' = (threads \ {t}) \cup {u} /\ started' = started
    BY DEF Load, Continues
  <1> HIDE DEF u
  <1> QED
    BY <1>1, <1>2 DEF Becomes, SameWork

\* Index goes on or returns, by the state that was loaded.
LEMMA IndexEffect ==
    ASSUME TypeOK, NEW t \in threads, Index(t)
    PROVE  \/ /\ t.state \in Expected(t.code)
              /\ \E u : /\ Becomes(t, u, t.code, IF t.pass = 1 THEN "call" ELSE "pick",
                                    t.pass, t.ok)
                        /\ SameWork(t, u)
           \/ /\ t.state \notin Expected(t.code)
              /\ threads' = threads \ {t} /\ started' \in [Hotswaps -> Nat]
  <1> DEFINE at == IF t.pass = 1 THEN "call" ELSE "pick"
             u == [t EXCEPT !.at = at]
  <1>0. t \in Threads /\ t.h \in Hotswaps /\ started \in [Hotswaps -> Nat]
    BY ThreadParts
  <1>1. /\ u \in Threads /\ u.h = t.h /\ u.code = t.code /\ u.at = at /\ u.pass = t.pass
        /\ u.ok = t.ok /\ u.todo = t.todo /\ u.got = t.got
    BY <1>0 DEF Threads
  <1>2. IF t.state \in Expected(t.code) THEN Continues(t, u) ELSE Returns(t)
    BY DEF Index
  <1> HIDE DEF u
  <1>3. CASE t.state \in Expected(t.code)
    BY <1>1, <1>2, <1>3 DEF Becomes, SameWork, Continues
  <1>4. CASE t.state \notin Expected(t.code)
    BY <1>0, <1>2, <1>4, ReturnsEffect
  <1> QED
    BY <1>3, <1>4

\* The work done, the document is loaded again; a failed migration goes on as
\* fail.
LEMMA ReloadEffect ==
    ASSUME TypeOK, NEW t \in threads, Continues(t, Reload(t))
    PROVE  \E u : Becomes(t, u, t.code, "load", 2, t.ok) /\ SameWork(t, u)
  <1> DEFINE u == Reload(t)
  <1>0. t \in Threads
    BY ThreadParts
  <1>1. /\ u \in Threads /\ u.h = t.h /\ u.code = t.code /\ u.at = "load" /\ u.pass = 2
        /\ u.ok = t.ok /\ u.todo = t.todo /\ u.got = t.got
    BY <1>0 DEF Reload, Threads
  <1> HIDE DEF u
  <1> QED
    BY <1>1 DEF Becomes, SameWork, Continues, u

LEMMA MigrationEffect ==
    ASSUME TypeOK, NEW t \in threads, NEW ok \in BOOLEAN, MigrationCall(t, ok)
    PROVE  \E u : /\ Becomes(t, u, IF ok THEN t.code ELSE "fail", "load", 2, t.ok)
                  /\ SameWork(t, u)
  <1> DEFINE u == [Reload(t) EXCEPT !.code = "fail"]
  <1>0. t \in Threads
    BY ThreadParts
  <1>1. /\ u \in Threads /\ u.h = t.h /\ u.code = "fail" /\ u.at = "load" /\ u.pass = 2
        /\ u.ok = t.ok /\ u.todo = t.todo /\ u.got = t.got
    BY <1>0, CodeFacts DEF Reload, Threads
  <1>2. Continues(t, IF ok THEN Reload(t) ELSE u)
    BY DEF MigrationCall
  <1> HIDE DEF u
  <1>3. CASE ok
    BY <1>2, <1>3, ReloadEffect
  <1>4. CASE ~ok
    BY <1>1, <1>2, <1>4 DEF Becomes, SameWork, Continues
  <1> QED
    BY <1>3, <1>4

LEMMA ValidationEffect ==
    ASSUME TypeOK, NEW t \in threads, NEW ok \in BOOLEAN, ValidationCall(t, ok)
    PROVE  \E u : Becomes(t, u, t.code, "load", 2, ok) /\ SameWork(t, u)
  <1> DEFINE u == [Reload(t) EXCEPT !.ok = ok]
  <1>0. t \in Threads
    BY ThreadParts
  <1>1. /\ u \in Threads /\ u.h = t.h /\ u.code = t.code /\ u.at = "load" /\ u.pass = 2
        /\ u.ok = ok /\ u.todo = t.todo /\ u.got = t.got
    BY <1>0 DEF Reload, Threads
  <1>2. Continues(t, u)
    BY DEF ValidationCall
  <1> HIDE DEF u
  <1> QED
    BY <1>1, <1>2 DEF Becomes, SameWork, Continues

LEMMA ListEffect ==
    ASSUME TypeOK, NEW t \in threads, CutoverList(t)
    PROVE  \E u : /\ Becomes(t, u, t.code, "loop", t.pass, t.ok) /\ u.got = t.got
                  /\ \/ u.todo = ListByInstanceAndTenant(records, docs[t.h].source.instance,
                                                         docs[t.h].source.tenant)
                     \/ XoluMayFail /\ u.todo = {}
  <1> DEFINE all == ListByInstanceAndTenant(records, docs[t.h].source.instance,
                                            docs[t.h].source.tenant)
  <1>0. t \in Threads /\ all \subseteq GlobalIDs
    BY ThreadParts DEF ListByInstanceAndTenant, TypeOK
  <1>1. PICK todo \in {all} \cup (IF XoluMayFail THEN {{}} ELSE {}) :
            Continues(t, [t EXCEPT !.at = "loop", !.todo = todo])
    BY DEF CutoverList
  <1> DEFINE u == [t EXCEPT !.at = "loop", !.todo = todo]
  <1> HIDE DEF all
  <1>2. todo \in SUBSET GlobalIDs /\ (todo = all \/ (XoluMayFail /\ todo = {}))
    BY <1>0
  <1>3. /\ u \in Threads /\ u.h = t.h /\ u.code = t.code /\ u.at = "loop" /\ u.pass = t.pass
        /\ u.ok = t.ok /\ u.todo = todo /\ u.got = t.got
    BY <1>0, <1>2 DEF Threads
  <1> HIDE DEF u
  <1> QED
    BY <1>1, <1>2, <1>3 DEF Becomes, Continues, u, all
LEMMA GetEffect ==
    ASSUME TypeOK, NEW t \in threads, NEW g \in GlobalIDs, CutoverGet(t, g)
    PROVE  \E u : /\ Becomes(t, u, t.code, t.at, t.pass, t.ok)
                  /\ u.todo = t.todo \ {g} /\ t.got = <<>>
                  /\ \/ u.got = <<g, records[g].current>>
                     \/ XoluMayFail /\ u.got = <<>>
  <1> DEFINE todo == t.todo \ {g}
             got == <<g, records[g].current>>
  <1>0. t \in Threads /\ t.got = <<>>
    BY ThreadParts DEF CutoverGet
  <1>1. todo \in SUBSET GlobalIDs /\ got \in GlobalIDs \X LocalRefs
    BY <1>0 DEF CutoverGet, TypeOK, Threads, Record
  <1>2. \/ Continues(t, [t EXCEPT !.todo = todo, !.got = got])
        \/ XoluMayFail /\ Continues(t, [t EXCEPT !.todo = todo])
    BY DEF CutoverGet
  <1> HIDE DEF todo, got
  <1>3. CASE Continues(t, [t EXCEPT !.todo = todo, !.got = got])
    <2> DEFINE u == [t EXCEPT !.todo = todo, !.got = got]
    <2>1. /\ u \in Threads /\ u.h = t.h /\ u.code = t.code /\ u.at = t.at /\ u.pass = t.pass
          /\ u.ok = t.ok /\ u.todo = todo /\ u.got = got
      BY <1>0, <1>1 DEF Threads
    <2> HIDE DEF u
    <2>2. Becomes(t, u, t.code, t.at, t.pass, t.ok)
      BY <1>3, <2>1 DEF Becomes, Continues, u
    <2> QED
      BY <1>0, <2>1, <2>2 DEF todo, got
  <1>4. CASE XoluMayFail /\ Continues(t, [t EXCEPT !.todo = todo])
    <2> DEFINE u == [t EXCEPT !.todo = todo]
    <2>1. /\ u \in Threads /\ u.h = t.h /\ u.code = t.code /\ u.at = t.at /\ u.pass = t.pass
          /\ u.ok = t.ok /\ u.todo = todo /\ u.got = t.got
      BY <1>0, <1>1 DEF Threads
    <2> HIDE DEF u
    <2>2. Becomes(t, u, t.code, t.at, t.pass, t.ok)
      BY <1>4, <2>1 DEF Becomes, Continues, u
    <2> QED
      BY <1>0, <1>4, <2>1, <2>2 DEF todo
  <1> QED
    BY <1>2, <1>3, <1>4

LEMMA TransferThread ==
    ASSUME TypeOK, NEW t \in threads, CutoverTransfer(t)
    PROVE  \E u : /\ Becomes(t, u, t.code, t.at, t.pass, t.ok)
                  /\ u.todo = t.todo /\ u.got = <<>>
  <1> DEFINE u == [t EXCEPT !.got = <<>>]
  <1>0. t \in Threads
    BY ThreadParts
  <1>1. /\ u \in Threads /\ u.h = t.h /\ u.code = t.code /\ u.at = t.at /\ u.pass = t.pass
        /\ u.ok = t.ok /\ u.todo = t.todo /\ u.got = <<>>
    BY <1>0 DEF Threads
  <1>2. Continues(t, u)
    BY DEF CutoverTransfer
  <1> HIDE DEF u
  <1> QED
    BY <1>1, <1>2 DEF Becomes, Continues

LEMMA PickEffect ==
    ASSUME TypeOK, NEW t \in threads, Pick(t)
    PROVE  \E u : /\ Becomes(t, u, t.code, "save", t.pass, t.ok) /\ SameWork(t, u)
                  /\ u.version = index[t.h].version
  <1> DEFINE u == [t EXCEPT !.at = "save", !.version = index[t.h].version,
                            !.ref = index[t.h].ref]
  <1>0. t \in Threads /\ index[t.h] \in [version : Nat, ref : Nat \X Nat]
    BY ThreadParts DEF Pick, TypeOK
  <1>1. /\ u \in Threads /\ u.h = t.h /\ u.code = t.code /\ u.at = "save" /\ u.pass = t.pass
        /\ u.ok = t.ok /\ u.todo = t.todo /\ u.got = t.got
        /\ u.version = index[t.h].version
    BY <1>0 DEF Threads
  <1>2. Continues(t, u)
    BY DEF Pick
  <1> HIDE DEF u
  <1> QED
    BY <1>1, <1>2 DEF Becomes, SameWork, Continues

LEMMA SaveEffect ==
    ASSUME TypeOK, NEW t \in threads, Save(t)
    PROVE  \E u : Becomes(t, u, t.code, "post", t.pass, t.ok) /\ SameWork(t, u)
  <1> DEFINE u == [t EXCEPT !.at = "post"]
  <1>0. t \in Threads
    BY ThreadParts
  <1>1. /\ u \in Threads /\ u.h = t.h /\ u.code = t.code /\ u.at = "post" /\ u.pass = t.pass
        /\ u.ok = t.ok /\ u.todo = t.todo /\ u.got = t.got
    BY <1>0 DEF Threads
  <1>2. Continues(t, u)
    BY DEF Save
  <1> HIDE DEF u
  <1> QED
    BY <1>1, <1>2 DEF Becomes, SameWork, Continues

\* The write of a new state changes the state and the version.
LEMMA SavedDocs ==
    ASSUME TypeOK, NEW t \in threads, t.code # "get"
    PROVE  /\ DOMAIN Saved(t) = DOMAIN docs /\ Saved(t) \in [DOMAIN docs -> Doc]
           /\ \A x \in DOMAIN docs : /\ Saved(t)[x].source = docs[x].source
                                     /\ Saved(t)[x].target = docs[x].target
                                     /\ Saved(t)[x].auto = docs[x].auto
                                     /\ x # t.h => Saved(t)[x] = docs[x]
           /\ Saved(t)[t.h].state = NextState(t.code, t.ok)
           /\ Saved(t)[t.h].version = docs[t.h].version + 1
  <1>0. /\ t.h \in DOMAIN docs /\ docs \in [DOMAIN docs -> Doc] /\ t.code \in Codes \ {"get"}
        /\ t.ok \in BOOLEAN /\ \A x \in DOMAIN docs : docs[x] \in Doc
    BY ThreadParts DEF TypeOK
  <1> DEFINE s == NextState(t.code, t.ok)
             v == docs[t.h].version + 1
  <1>1. s \in States /\ v \in Nat
    BY <1>0, HeirFacts DEF Doc
  <1> HIDE DEF s, v
  <1> DEFINE d == [docs[t.h] EXCEPT !.state = s, !.version = v]
  <1>2. /\ d \in Doc /\ d.source = docs[t.h].source /\ d.target = docs[t.h].target
        /\ d.auto = docs[t.h].auto /\ d.state = s /\ d.version = v
    BY <1>0, <1>1 DEF Doc
  <1>3. Saved(t) = [docs EXCEPT ![t.h] = d]
    BY <1>0 DEF Saved, Doc, s, v
  <1> HIDE DEF d
  <1> QED
    BY <1>0, <1>2, <1>3 DEF s, v
\* What a stage of t does to the threads: t goes on, or leaves and may leave a
\* driver behind.
GoesOn(t) ==
    \E u \in Threads :
        /\ threads' = (threads \ {t}) \cup {u} /\ started' = started
        /\ u.h = t.h /\ (u.code = t.code \/ (t.code = "migration" /\ u.code = "fail"))
        /\ u.at \in {"pick", "save", "post"} => u.h \in DOMAIN index'
        /\ u.todo \subseteq DOMAIN records
        /\ u.got # <<>> => u.got[1] \in DOMAIN records
        /\ GetLooks(u)

Leaves(t) ==
    /\ started' \in [Hotswaps -> Nat]
    /\ \/ threads' = threads \ {t}
       \/ \E c \in Drivers : /\ Begins(t.h, c, {t})
                             /\ c \in Forward => t.code \in Forward \cup {"confirm"}

LEMMA LeavesBy ==
    ASSUME TypeOK, GetsLook, NEW t \in threads, t.at \in {"save", "post"},
           \/ Go(t.h, NextDriver(t.code, t.ok), {t})
           \/ Go(t.h, DriverAfterError(t.code, t.ok), {t})
    PROVE  Leaves(t)
  <1>0. /\ t.h \in Hotswaps /\ t.ok \in BOOLEAN /\ {t} \in SUBSET threads
        /\ started \in [Hotswaps -> Nat] /\ t.code \in Codes \ {"get"}
    BY ThreadParts DEF GetsLook, GetLooks
  <1>1. PICK codes \in Heirs :
            /\ Go(t.h, codes, {t})
            /\ codes \cap Forward # {} => t.code \in Forward \cup {"confirm"}
    BY <1>0, HeirFacts
  <1>2. codes \in {{}} \cup {{c} : c \in Codes} /\ codes \subseteq Drivers
    BY CodeFacts DEF Heirs
  <1>3. /\ started' \in [Hotswaps -> Nat]
        /\ \/ codes = {} /\ threads' = threads \ {t}
           \/ \E c \in Codes : codes = {c} /\ Begins(t.h, c, {t})
    BY <1>0, <1>1, <1>2, GoEffect
  <1> QED
    BY <1>1, <1>2, <1>3 DEF Leaves

LEMMA StepShape ==
    ASSUME TypeOK, GetsLook, NEW t \in threads, Step(t)
    PROVE  GoesOn(t) \/ Leaves(t)
  <1>0. /\ t \in Threads /\ t.h \in Hotswaps /\ started \in [Hotswaps -> Nat]
        /\ GetLooks(t) /\ t.todo \subseteq DOMAIN records
        /\ t.got # <<>> => t.got[1] \in DOMAIN records
        /\ t.at \in {"pick", "save", "post"} => t.h \in DOMAIN index
    BY ThreadParts DEF GetsLook, TypeOK
  <1>1. ASSUME NEW u, NEW code, NEW at, NEW pass, NEW ok, Becomes(t, u, code, at, pass, ok),
               SameWork(t, u), code = t.code \/ (t.code = "migration" /\ code = "fail"),
               code = "get" => at \in {"load", "index"},
               at \in {"pick", "save", "post"} => t.h \in DOMAIN index'
        PROVE  GoesOn(t)
    BY <1>0, <1>1 DEF Becomes, SameWork, GoesOn, GetLooks
  <1>2. CASE Load(t)
    BY <1>1, <1>2, LoadEffect
  <1>3. CASE LoadFails(t)
    BY <1>0, <1>3, ReturnsEffect DEF LoadFails, Leaves
  <1>4. CASE Index(t)
    <2>1. t.h \in DOMAIN index' /\ t.at = "index"
      BY <1>4 DEF Index, Put
    <2>2. CASE threads' = threads \ {t} /\ started' \in [Hotswaps -> Nat]
      BY <2>2 DEF Leaves
    <2>3. CASE t.state \in Expected(t.code)
      <3>1. t.code # "get"
        BY <2>3, ExpectedFacts
      <3> QED
        BY <1>1, <1>4, <2>1, <2>3, <3>1, IndexEffect
    <2> QED
      BY <1>4, <2>2, <2>3, IndexEffect
  <1>5. CASE QuiesceCall(t) \/ RollbackCall(t) \/ CutoverDone(t)
    <2>1. Continues(t, Reload(t))
      BY <1>5 DEF QuiesceCall, RollbackCall, CutoverDone
    <2> QED
      BY <1>1, <2>1, ReloadEffect
  <1>6. ASSUME NEW ok \in BOOLEAN, MigrationCall(t, ok)
        PROVE  GoesOn(t)
    <2>1. t.code = "migration"
      BY <1>6 DEF MigrationCall
    <2> QED
      BY <1>1, <1>6, <2>1, MigrationEffect
  <1>7. ASSUME NEW ok \in BOOLEAN, ValidationCall(t, ok)
        PROVE  GoesOn(t)
    BY <1>1, <1>7, ValidationEffect
  <1>8. CASE CutoverList(t)
    <2>1. PICK u : /\ Becomes(t, u, t.code, "loop", t.pass, t.ok) /\ u.got = t.got
                   /\ \/ u.todo = ListByInstanceAndTenant(records, docs[t.h].source.instance,
                                                          docs[t.h].source.tenant)
                      \/ XoluMayFail /\ u.todo = {}
      BY <1>8, ListEffect
    <2>2. u.todo \subseteq DOMAIN records /\ t.code = "cutover"
      BY <1>8, <2>1 DEF ListByInstanceAndTenant, CutoverList
    <2> QED
      BY <1>0, <2>1, <2>2 DEF Becomes, GoesOn, GetLooks
  <1>9. ASSUME NEW g \in GlobalIDs, CutoverGet(t, g)
        PROVE  GoesOn(t)
    <2>1. PICK u : /\ Becomes(t, u, t.code, t.at, t.pass, t.ok)
                   /\ u.todo = t.todo \ {g}
                   /\ u.got = <<g, records[g].current>> \/ u.got = <<>>
      BY <1>9, GetEffect
    <2>2. t.at = "loop" /\ g \in t.todo
      BY <1>9 DEF CutoverGet
    <2>3. u.got # <<>> => u.got[1] \in DOMAIN records
      BY <1>0, <2>1, <2>2
    <2> QED
      BY <1>0, <2>1, <2>2, <2>3 DEF Becomes, GoesOn, GetLooks
  <1>10. CASE CutoverTransfer(t)
    <2>1. PICK u : /\ Becomes(t, u, t.code, t.at, t.pass, t.ok)
                   /\ u.todo = t.todo /\ u.got = <<>>
      BY <1>10, TransferThread
    <2>2. t.at = "loop"
      BY <1>10 DEF CutoverTransfer
    <2> QED
      BY <1>0, <2>1, <2>2 DEF Becomes, GoesOn, GetLooks
  <1>11. CASE Pick(t)
    <2>1. index' = index /\ t.at = "pick"
      BY <1>11 DEF Pick
    <2> QED
      BY <1>0, <1>1, <1>11, <2>1, PickEffect DEF GetLooks
  <1>12. CASE Save(t)
    <2>1. index' = index /\ t.at = "save"
      BY <1>12 DEF Save
    <2> QED
      BY <1>0, <1>1, <1>12, <2>1, SaveEffect DEF GetLooks
  <1>13. CASE SaveFails(t) \/ Post(t)
    BY <1>13, LeavesBy DEF SaveFails, Post
  <1> QED
    BY <1>2, <1>3, <1>4, <1>5, <1>6, <1>7, <1>8, <1>9, <1>10, <1>11, <1>12, <1>13 DEF Step

-----------------------------------------------------------------------------
(* Everything has its type.                                                *)

\* What a stage of t does besides.
Writes(t) == t.at = "save" /\ Accepted(t) /\ docs' = Saved(t)

MovesEntity(t) ==
    LET to == newRef(docs[t.h].target, t.got[2])
    IN  /\ t.at = "loop" /\ t.got # <<>> /\ MayTransfer(records, t.got[1], t.got[2])
        /\ records' = Put(records, t.got[1], Transferred(records[t.got[1]], t.got[2], to, t.h))

LEMMA StepFrame ==
    ASSUME TypeOK, NEW t \in threads, Step(t)
    PROVE  /\ UNCHANGED <<requests, up, calls, crashes>>
           /\ docs' = docs \/ Writes(t)
           /\ records' = records \/ MovesEntity(t)
           /\ DOMAIN index \subseteq DOMAIN index' /\ DOMAIN index' \subseteq DOMAIN index \cup {t.h}
           /\ index' \in [DOMAIN index' -> [version : Nat, ref : Nat \X Nat]]
  <1>0. /\ t \in Threads /\ index \in [DOMAIN index -> [version : Nat, ref : Nat \X Nat]]
    BY ThreadParts, SMTT(30) DEF TypeOK
  <1>1. /\ UNCHANGED <<requests, up, calls, crashes>>
        /\ docs' = docs \/ Writes(t)
        /\ records' = records \/ MovesEntity(t)
    BY ZenonT(60) DEF Step, Load, LoadFails, Index, QuiesceCall, MigrationCall, ValidationCall, CutoverList,
           CutoverGet, CutoverTransfer, CutoverDone, RollbackCall, Pick, Save, SaveFails, Post,
           Writes, MovesEntity
  <1>2. \/ index' = index
        \/ index' = Put(index, t.h, [version |-> t.loaded, ref |-> <<t.n, t.pass>>])
        \/ t.at = "post" /\ index' = [index EXCEPT ![t.h].version = AnsweredVersion]
    BY DEF Step, Load, LoadFails, Index, QuiesceCall, MigrationCall, ValidationCall, CutoverList,
           CutoverGet, CutoverTransfer, CutoverDone, RollbackCall, Pick, Save, SaveFails, Post
  <1>3. /\ [version |-> t.loaded, ref |-> <<t.n, t.pass>>] \in [version : Nat, ref : Nat \X Nat]
        /\ AnsweredVersion \in Nat
    BY <1>0 DEF Threads, AnsweredVersion
  <1>4. CASE index' = index
    BY <1>0, <1>1, <1>4
  <1>5. CASE index' = Put(index, t.h, [version |-> t.loaded, ref |-> <<t.n, t.pass>>])
    BY <1>0, <1>1, <1>3, <1>5 DEF Put
  <1>6. CASE t.at = "post" /\ index' = [index EXCEPT ![t.h].version = AnsweredVersion]
    BY <1>0, <1>1, <1>3, <1>6
  <1> QED
    BY <1>2, <1>4, <1>5, <1>6

LEMMA MoveType ==
    ASSUME TypeOK, FromMoves, NEW t \in threads, MovesEntity(t)
    PROVE  /\ t.got[1] \in DOMAIN records /\ t.got[1] \in GlobalIDs /\ t.got[2] \in LocalRefs
           /\ newRef(docs[t.h].target, t.got[2]) \in LocalRefs /\ t.h \in Protocols
           /\ DOMAIN records' = DOMAIN records
           /\ records' \in [DOMAIN records -> Record]
  <1> DEFINE g == t.got[1]
             r == t.got[2]
             to == newRef(docs[t.h].target, r)
  <1>0. /\ t \in Threads /\ t.h \in DOMAIN docs /\ t.h \in Hotswaps
        /\ t.got # <<>> /\ g \in DOMAIN records
        /\ DOMAIN records \subseteq GlobalIDs /\ records \in [DOMAIN records -> Record]
    BY ThreadParts DEF MovesEntity, MayTransfer, TypeOK
  <1>1. g \in GlobalIDs /\ r \in LocalRefs /\ t.h \in Protocols
    BY <1>0, XoluHotswapAssumption DEF Threads
  <1>2. PICK m \in Moves : docs[t.h].target = m.target
    BY <1>0 DEF FromMoves
  <1>3. to \in LocalRefs
    BY <1>1, <1>2, XoluHotswapAssumption
  <1>4. records' = Put(records, g, Transferred(records[g], r, to, t.h))
    BY DEF MovesEntity
  <1> HIDE DEF g, r, to
  <1>5. Transferred(records[g], r, to, t.h) \in Record
    BY <1>0, <1>1, <1>3, TransferredRecord
  <1>6. DOMAIN records' = DOMAIN records /\ records' \in [DOMAIN records -> Record]
    BY <1>0, <1>4, <1>5 DEF Put
  <1> QED
    BY <1>0, <1>1, <1>3, <1>6 DEF g, r, to

\* TypeOK without the threads.
StoreOK ==
    /\ DOMAIN docs \subseteq Hotswaps
    /\ docs \in [DOMAIN docs -> Doc]
    /\ DOMAIN index \subseteq DOMAIN docs
    /\ index \in [DOMAIN index -> [version : Nat, ref : Nat \X Nat]]
    /\ requests \subseteq [h : Hotswaps, move : Moves, auto : BOOLEAN]
    /\ started \in [Hotswaps -> Nat]
    /\ DOMAIN records \subseteq GlobalIDs
    /\ records \in [DOMAIN records -> Record]
    /\ up \in BOOLEAN
    /\ calls \in [Hotswaps -> Nat]
    /\ crashes \in Nat

ThreadsOK == \A u \in threads : ThreadOK(u)

LEMMA TypeParts == TypeOK <=> StoreOK /\ ThreadsOK
  BY DEF TypeOK, StoreOK, ThreadsOK, ThreadOK

TypeInv == TypeOK /\ FromMoves /\ GetsLook

\* A thread stays in order while documents, index and records only grow.
LEMMA OldThreads ==
    ASSUME TypeInv, DOMAIN docs \subseteq DOMAIN docs', DOMAIN index \subseteq DOMAIN index',
           DOMAIN records' = DOMAIN records, NEW u \in threads
    PROVE  ThreadOK(u)' /\ GetLooks(u)
  BY DEF TypeInv, TypeOK, ThreadOK, GetsLook

\* A thread is in order when it is started.
LEMMA NewThread ==
    ASSUME NEW h \in DOMAIN docs', NEW code, NEW u, Fresh(u, h, code)
    PROVE  ThreadOK(u)' /\ GetLooks(u)
  BY DEF Fresh, ThreadOK, GetLooks

LEMMA InitType == Init => TypeInv
  <1> SUFFICES ASSUME Init PROVE TypeInv
    OBVIOUS
  <1>1. StoreOK
    BY XoluHotswapAssumption DEF Init, StoreOK
  <1>2. ThreadsOK /\ FromMoves /\ GetsLook
    BY DEF Init, ThreadsOK, FromMoves, GetsLook
  <1> QED
    BY <1>1, <1>2, TypeParts DEF TypeInv

LEMMA TypeSame == TypeInv /\ UNCHANGED vars => TypeInv'
  <1> SUFFICES ASSUME TypeInv, UNCHANGED vars PROVE TypeInv'
    OBVIOUS
  <1>1. TypeOK'
    BY DEF TypeInv, TypeOK, vars, Doc, Threads
  <1>2. FromMoves' /\ GetsLook'
    BY DEF TypeInv, FromMoves, GetsLook, GetLooks, vars
  <1> QED
    BY <1>1, <1>2 DEF TypeInv

LEMMA StepType ==
    ASSUME TypeInv, NEW t \in threads, Step(t)
    PROVE  TypeInv'
  <1>0. /\ TypeOK /\ FromMoves /\ GetsLook /\ StoreOK /\ t.h \in DOMAIN docs /\ t.h \in Hotswaps
        /\ t \in Threads
    BY ThreadParts, TypeParts DEF TypeInv
  <1>1. /\ UNCHANGED <<requests, up, calls, crashes>>
        /\ docs' = docs \/ Writes(t)
        /\ records' = records \/ MovesEntity(t)
        /\ DOMAIN index \subseteq DOMAIN index' /\ DOMAIN index' \subseteq DOMAIN index \cup {t.h}
        /\ index' \in [DOMAIN index' -> [version : Nat, ref : Nat \X Nat]]
    BY <1>0, StepFrame
  <1>2. /\ DOMAIN docs' = DOMAIN docs /\ docs' \in [DOMAIN docs -> Doc] /\ FromMoves'
    <2>1. CASE docs' = docs
      BY <1>0, <2>1 DEF StoreOK, FromMoves
    <2>2. CASE Writes(t)
      <3>1. t.code # "get" /\ docs' = Saved(t)
        BY <1>0, <2>2 DEF GetsLook, GetLooks, Writes
      <3>2. /\ DOMAIN docs' = DOMAIN docs /\ docs' \in [DOMAIN docs -> Doc]
            /\ \A x \in DOMAIN docs : docs'[x].source = docs[x].source /\ docs'[x].target = docs[x].target
        BY <1>0, <3>1, SavedDocs
      <3> QED
        BY <1>0, <3>2 DEF FromMoves
    <2> QED
      BY <1>1, <2>1, <2>2
  <1>3. DOMAIN records' = DOMAIN records /\ records' \in [DOMAIN records -> Record]
    BY <1>0, <1>1, MoveType DEF StoreOK
  <1>4. GoesOn(t) \/ Leaves(t)
    BY <1>0, StepShape
  <1>5. started' \in [Hotswaps -> Nat]
    BY <1>0, <1>4 DEF GoesOn, Leaves, StoreOK
  <1>6. StoreOK'
    BY <1>0, <1>1, <1>2, <1>3, <1>5 DEF StoreOK
  <1>7. \A u \in threads' : ThreadOK(u)' /\ GetLooks(u)
    <2> SUFFICES ASSUME NEW u \in threads' PROVE ThreadOK(u)' /\ GetLooks(u)
      OBVIOUS
    <2>1. CASE u \in threads
      BY <1>1, <1>2, <1>3, <2>1, OldThreads
    <2>2. CASE u \notin threads /\ GoesOn(t)
      BY <1>0, <1>2, <1>3, <2>2 DEF GoesOn, ThreadOK
    <2>3. CASE u \notin threads /\ Leaves(t)
      <3>1. PICK c \in Drivers : Begins(t.h, c, {t})
        BY <2>3 DEF Leaves
      <3>2. Fresh(u, t.h, c)
        BY <2>3, <3>1 DEF Begins
      <3> QED
        BY <1>0, <1>2, <3>2, NewThread
    <2> QED
      BY <1>4, <2>1, <2>2, <2>3
  <1>8. ThreadsOK' /\ GetsLook'
    BY <1>7 DEF ThreadsOK, GetsLook, GetLooks
  <1>9. TypeOK'
    BY <1>6, <1>8 DEF TypeOK, StoreOK, ThreadsOK, ThreadOK
  <1> QED
    BY <1>2, <1>8, <1>9 DEF TypeInv

\* The document of a new hotswap.
LEMMA CreatedDocs ==
    ASSUME TypeOK, NEW r \in requests
    PROVE  /\ DOMAIN Created(r) = DOMAIN docs \cup {r.h} /\ r.h \in Hotswaps
           /\ r.auto \in BOOLEAN /\ r.move \in Moves
           /\ Created(r) \in [DOMAIN Created(r) -> Doc]
           /\ Created(r)[r.h].source = r.move.source /\ Created(r)[r.h].target = r.move.target
           /\ Created(r)[r.h].auto = r.auto /\ Created(r)[r.h].state = "preparing"
           /\ Created(r)[r.h].version = 1
           /\ \A x \in DOMAIN docs : x # r.h => Created(r)[x] = docs[x]
  <1> DEFINE d == [source |-> r.move.source, target |-> r.move.target,
                   auto |-> r.auto, state |-> "preparing", version |-> 1]
  <1>1. r.h \in Hotswaps /\ r.auto \in BOOLEAN /\ r.move \in Moves
    BY DEF TypeOK
  <1>2. d \in Doc
    BY <1>1 DEF Doc, States, InstanceRefs
  <1>3. Created(r) = Put(docs, r.h, d)
    BY DEF Created
  <1> HIDE DEF d
  <1>4. docs \in [DOMAIN docs -> Doc]
    BY DEF TypeOK
  <1>5. Created(r)[r.h] = d
    BY <1>3 DEF Put
  <1>6. /\ DOMAIN Created(r) = DOMAIN docs \cup {r.h}
        /\ Created(r) \in [DOMAIN Created(r) -> Doc]
        /\ \A x \in DOMAIN docs : x # r.h => Created(r)[x] = docs[x]
    BY <1>2, <1>3, <1>4 DEF Put
  <1> QED
    BY <1>1, <1>5, <1>6 DEF d

\* Created documents keep the type.
LEMMA CreatedType ==
    ASSUME TypeInv, NEW r \in requests
    PROVE  /\ DOMAIN Created(r) \subseteq Hotswaps /\ Created(r) \in [DOMAIN Created(r) -> Doc]
           /\ DOMAIN docs \subseteq DOMAIN Created(r) /\ r.h \in DOMAIN Created(r)
           /\ \A h \in DOMAIN Created(r) :
                  \E m \in Moves : Created(r)[h].source = m.source /\ Created(r)[h].target = m.target
  <1>1. TypeOK /\ FromMoves /\ DOMAIN docs \subseteq Hotswaps
    BY DEF TypeInv, TypeOK
  <1>2. /\ DOMAIN Created(r) = DOMAIN docs \cup {r.h} /\ r.h \in Hotswaps /\ r.move \in Moves
        /\ Created(r) \in [DOMAIN Created(r) -> Doc]
        /\ Created(r)[r.h].source = r.move.source /\ Created(r)[r.h].target = r.move.target
        /\ \A x \in DOMAIN docs : x # r.h => Created(r)[x] = docs[x]
    BY <1>1, CreatedDocs
  <1> QED
    BY <1>1, <1>2 DEF FromMoves

\* Resume starts at most one goroutine for a document, and the right one.
LEMMA ResumedFacts ==
    ASSUME NEW doc, doc.state \in States
    PROVE  /\ Resumed(doc) \in Heirs
           /\ \A c \in Resumed(doc) :
                  \/ doc.state \in Expected(c) /\ c \in Drivers
                  \/ doc.state = "preparing" /\ c = "quiesce"
           /\ doc.state \in {"quiescing", "migrating", "validating", "cutting_over", "rolling_back"} =>
                  Resumed(doc) # {}
  <1>1. /\ Drivers = {"quiesce", "migration", "validation", "cutover", "rollback"}
        /\ Expected("quiesce") = {"quiescing"} /\ Expected("migration") = {"migrating"}
        /\ Expected("validation") = {"validating"} /\ Expected("cutover") = {"cutting_over"}
        /\ Expected("rollback") = {"rolling_back"}
    BY CodeFacts, ExpectedFacts
  <1> DEFINE own == {c \in Drivers : doc.state \in Expected(c)}
  <1>2. /\ doc.state \in {"preparing", "complete", "failed"} => own = {}
        /\ doc.state = "quiescing" => own = {"quiesce"}
        /\ doc.state = "migrating" => own = {"migration"}
        /\ doc.state = "validating" => own = {"validation"}
        /\ doc.state = "cutting_over" => own = {"cutover"}
        /\ doc.state = "rolling_back" => own = {"rollback"}
    BY <1>1
  <1>3. Resumed(doc) = own \cup (IF doc.state = "preparing" /\ doc.auto THEN {"quiesce"} ELSE {})
    BY DEF Resumed
  <1>4. own = {} \/ \E c \in Drivers : own = {c}
    BY <1>1, <1>2 DEF States
  <1>5. Resumed(doc) \in {{}} \cup {{c} : c \in Drivers}
    BY <1>1, <1>2, <1>3, <1>4
  <1>6. \A c \in Resumed(doc) : (doc.state \in Expected(c) /\ c \in Drivers)
                                \/ (doc.state = "preparing" /\ c = "quiesce")
    BY <1>3
  <1> HIDE DEF own
  <1>7. doc.state \in {"quiescing", "migrating", "validating", "cutting_over", "rolling_back"} =>
            Resumed(doc) # {}
    BY <1>2, <1>3
  <1> QED
    BY <1>5, <1>6, <1>7 DEF Heirs

LEMMA HeirCount ==
    ASSUME NEW codes \in Heirs
    PROVE  Cardinality(codes) \in Nat
  <1>1. Cardinality({}) = 0 /\ \A c : Cardinality({c}) = 1
    BY FS_EmptySet, FS_Singleton
  <1>2. codes = {} \/ \E c \in Drivers : codes = {c}
    BY DEF Heirs
  <1>3. CASE codes = {}
    BY <1>1, <1>3
  <1>4. ASSUME NEW c \in Drivers, codes = {c} PROVE Cardinality(codes) \in Nat
    <2>1. Cardinality({c}) = 1
      BY <1>1
    <2> QED
      BY <1>4, <2>1
  <1> QED
    BY <1>2, <1>3, <1>4

\* What Resume does: each thread is a fresh goroutine for its document.
LEMMA ResumeEffect ==
    ASSUME TypeOK, Resume
    PROVE  /\ started' \in [Hotswaps -> Nat]
           /\ \A u \in threads' : \E h \in Unfinished : \E c \in Resumed(docs[h]) : Fresh(u, h, c)
           /\ \A h \in Unfinished : \A c \in Resumed(docs[h]) : \E u \in threads' : Fresh(u, h, c)
           /\ \A u, v \in threads' : u.h = v.h => u = v
  <1>0. /\ Unfinished \subseteq Hotswaps /\ Unfinished \subseteq DOMAIN docs
        /\ \A h \in Unfinished : docs[h].state \in States
        /\ started \in [Hotswaps -> Nat]
    BY DEF Unfinished, TypeOK, Doc
  <1>1. \A h \in Unfinished : Resumed(docs[h]) \in Heirs
    BY <1>0, ResumedFacts
  <1>2. \A h \in Unfinished : Cardinality(Resumed(docs[h])) \in Nat
    BY <1>1, HeirCount
  <1>3. started' \in [Hotswaps -> Nat]
    BY <1>0, <1>2 DEF Resume
  <1>4. \A h \in Unfinished : \A c \in Resumed(docs[h]) : Fresh(thread(h, started[h] + 1, c), h, c)
    <2> SUFFICES ASSUME NEW h \in Unfinished, NEW c \in Resumed(docs[h])
                 PROVE  Fresh(thread(h, started[h] + 1, c), h, c)
      OBVIOUS
    <2>1. h \in Hotswaps /\ started[h] + 1 \in Nat /\ c \in Codes
      BY <1>0, <1>1 DEF Heirs, Codes
    <2> QED
      BY <2>1, FreshThread
  <1>5. threads' = UNION {{thread(h, started[h] + 1, c) : c \in Resumed(docs[h])} : h \in Unfinished}
    BY DEF Resume
  <1>6. \A u \in threads' : \E h \in Unfinished : \E c \in Resumed(docs[h]) :
            u = thread(h, started[h] + 1, c) /\ Fresh(u, h, c)
    BY <1>4, <1>5
  <1>7. \A h \in Unfinished : \A c \in Resumed(docs[h]) : \E u \in threads' : Fresh(u, h, c)
    BY <1>4, <1>5
  <1>8. ASSUME NEW u \in threads', NEW v \in threads', u.h = v.h
        PROVE  u = v
    <2>1. PICK h \in Unfinished : \E c \in Resumed(docs[h]) :
              u = thread(h, started[h] + 1, c) /\ Fresh(u, h, c)
      BY <1>6
    <2>2. PICK k \in Unfinished : \E d \in Resumed(docs[k]) :
              v = thread(k, started[k] + 1, d) /\ Fresh(v, k, d)
      BY <1>6
    <2>3. h = k
      BY <1>8, <2>1, <2>2 DEF Fresh
    <2>4. \A c, d \in Resumed(docs[h]) : c = d
      BY <1>1, <2>1, <2>2, <2>3 DEF Heirs
    <2> QED
      BY <2>1, <2>2, <2>3, <2>4
  <1> QED
    BY <1>3, <1>6, <1>7, <1>8

LEMMA OtherType ==
    ASSUME TypeInv,
           \/ \E h \in Hotswaps, move \in Moves, auto \in AutoAdvance : RequestCheck(h, move, auto)
           \/ \E r \in requests : RequestCreate(r) \/ RequestFails(r)
           \/ \E h \in DOMAIN docs, code \in Calls : Call(h, code)
           \/ Crash \/ Resume \/ ResumeFails
    PROVE  TypeInv'
  <1>0. TypeOK /\ StoreOK /\ ThreadsOK /\ FromMoves /\ GetsLook
    BY TypeParts DEF TypeInv
  <1>t. ASSUME StoreOK', FromMoves', \A u \in threads' : ThreadOK(u)' /\ GetLooks(u)
        PROVE  TypeInv'
    <2>1. ThreadsOK' /\ GetsLook'
      BY <1>t DEF ThreadsOK, GetsLook, GetLooks
    <2>2. TypeOK'
      BY <1>t, <2>1 DEF TypeOK, StoreOK, ThreadsOK, ThreadOK
    <2> QED
      BY <1>t, <2>1, <2>2 DEF TypeInv
  <1>1. ASSUME NEW h \in Hotswaps, NEW move \in Moves, NEW auto \in AutoAdvance,
               RequestCheck(h, move, auto)
        PROVE  TypeInv'
    <2>1. auto \in BOOLEAN
      BY XoluHotswapAssumption
    <2>2. StoreOK'
      BY <1>0, <1>1, <2>1 DEF StoreOK, RequestCheck
    <2>3. FromMoves' /\ \A u \in threads' : ThreadOK(u)' /\ GetLooks(u)
      BY <1>0, <1>1, OldThreads DEF RequestCheck, FromMoves
    <2> QED
      BY <1>t, <2>2, <2>3
  <1>2. ASSUME NEW r \in requests, RequestCreate(r)
        PROVE  TypeInv'
    <2>1. /\ docs' = Created(r)
          /\ index' = Put(index, r.h, [version |-> AnsweredVersion, ref |-> <<0, 0>>])
          /\ requests' = requests \ {r}
          /\ Go(r.h, IF r.auto THEN {"quiesce"} ELSE {}, {})
          /\ UNCHANGED <<quiesced, records, up, calls, crashes>>
      BY <1>2 DEF RequestCreate
    <2>2. /\ DOMAIN docs' \subseteq Hotswaps /\ docs' \in [DOMAIN docs' -> Doc]
          /\ DOMAIN docs \subseteq DOMAIN docs' /\ r.h \in DOMAIN docs' /\ FromMoves'
      BY <2>1, CreatedType DEF FromMoves
    <2>3. /\ DOMAIN index' = DOMAIN index \cup {r.h}
          /\ index' \in [DOMAIN index' -> [version : Nat, ref : Nat \X Nat]]
      <3>1. [version |-> AnsweredVersion, ref |-> <<0, 0>>] \in [version : Nat, ref : Nat \X Nat]
        BY DEF AnsweredVersion
      <3> QED
        BY <1>0, <2>1, <3>1 DEF Put, StoreOK
    <2>4. /\ started' \in [Hotswaps -> Nat]
          /\ threads' = threads \/ Begins(r.h, "quiesce", {})
      <3>1. /\ r.h \in Hotswaps /\ started \in [Hotswaps -> Nat] /\ {} \in SUBSET threads
            /\ (IF r.auto THEN {"quiesce"} ELSE {}) \in {{}} \cup {{c} : c \in Codes}
        BY <1>0, CodeFacts DEF StoreOK
      <3>2. /\ started' \in [Hotswaps -> Nat]
            /\ \/ threads' = threads \ {}
               \/ \E c \in Codes : (IF r.auto THEN {"quiesce"} ELSE {}) = {c} /\ Begins(r.h, c, {})
        BY <2>1, <3>1, GoEffect
      <3> QED
        BY <3>2
    <2>5. StoreOK'
      BY <1>0, <2>1, <2>2, <2>3, <2>4 DEF StoreOK
    <2>6. ASSUME NEW u \in threads' PROVE ThreadOK(u)' /\ GetLooks(u)
      <3>1. CASE u \in threads
        BY <2>1, <2>2, <2>3, <3>1, OldThreads
      <3>2. CASE u \notin threads
        <4>1. Fresh(u, r.h, "quiesce")
          BY <2>4, <2>6, <3>2 DEF Begins
        <4> QED
          BY <2>2, <4>1, NewThread
      <3> QED
        BY <3>1, <3>2
    <2> QED
      BY <1>t, <2>2, <2>5, <2>6
  <1>3. ASSUME NEW r \in requests, RequestFails(r)
        PROVE  TypeInv'
    <2>1. docs' = docs \/ docs' = Created(r)
      BY <1>3 DEF RequestFails
    <2>2. /\ DOMAIN docs' \subseteq Hotswaps /\ docs' \in [DOMAIN docs' -> Doc]
          /\ DOMAIN docs \subseteq DOMAIN docs' /\ FromMoves'
      <3>1. CASE docs' = docs
        BY <1>0, <3>1 DEF StoreOK, FromMoves
      <3>2. CASE docs' = Created(r)
        BY <3>2, CreatedType DEF FromMoves
      <3> QED
        BY <2>1, <3>1, <3>2
    <2>3. StoreOK'
      BY <1>0, <1>3, <2>2 DEF StoreOK, RequestFails
    <2>4. \A u \in threads' : ThreadOK(u)' /\ GetLooks(u)
      BY <1>3, <2>2, OldThreads DEF RequestFails
    <2> QED
      BY <1>t, <2>2, <2>3, <2>4
  <1>4. ASSUME NEW h \in DOMAIN docs, NEW code \in Calls, Call(h, code)
        PROVE  TypeInv'
    <2>1. /\ h \in Hotswaps /\ code \in Codes /\ started \in [Hotswaps -> Nat]
          /\ {} \in SUBSET threads /\ {code} \in {{}} \cup {{c} : c \in Codes}
      BY <1>0, XoluHotswapAssumption, CodeFacts DEF StoreOK
    <2>2. started' \in [Hotswaps -> Nat] /\ Begins(h, code, {})
      <3>1. Go(h, {code}, {})
        BY <1>4 DEF Call
      <3>2. /\ started' \in [Hotswaps -> Nat]
            /\ \/ {code} = {} /\ threads' = threads \ {}
               \/ \E c \in Codes : {code} = {c} /\ Begins(h, c, {})
        BY <2>1, <3>1, GoEffect
      <3> QED
        BY <3>2
    <2>3. calls' \in [Hotswaps -> Nat] /\ UNCHANGED <<docs, index, requests, quiesced, records, up, crashes>>
      BY <1>0, <1>4, <2>1 DEF Call, StoreOK
    <2>4. StoreOK' /\ FromMoves'
      BY <1>0, <2>2, <2>3 DEF StoreOK, FromMoves
    <2>5. ASSUME NEW u \in threads' PROVE ThreadOK(u)' /\ GetLooks(u)
      <3>1. CASE u \in threads
        BY <2>3, <3>1, OldThreads
      <3>2. CASE u \notin threads
        <4>1. Fresh(u, h, code)
          BY <2>2, <2>5, <3>2 DEF Begins
        <4> QED
          BY <2>3, <4>1, NewThread
      <3> QED
        BY <3>1, <3>2
    <2> QED
      BY <1>t, <2>4, <2>5
  <1>5. CASE Crash
    <2>1. DOMAIN index' = {} /\ index' \in [DOMAIN index' -> [version : Nat, ref : Nat \X Nat]]
      BY <1>5 DEF Crash
    <2>2. /\ UNCHANGED <<docs, started, quiesced, records, calls>>
          /\ up' \in BOOLEAN /\ requests' = {} /\ threads' = {}
      BY <1>5 DEF Crash
    <2>3. DOMAIN index' \subseteq DOMAIN docs'
      BY <2>1
    <2>c. crashes' \in Nat
      BY <1>0, <1>5 DEF StoreOK, Crash
    <2>4. StoreOK'
      BY <1>0, <2>1, <2>2, <2>3, <2>c DEF StoreOK
    <2>5. FromMoves'
      BY <1>0, <2>2 DEF FromMoves
    <2> QED
      BY <1>t, <2>2, <2>4, <2>5
  <1>6. CASE Resume
    <2>1. /\ UNCHANGED <<docs, requests, quiesced, records, calls, crashes>> /\ up' = TRUE
          /\ index' = [h \in Unfinished |-> [version |-> docs[h].version, ref |-> <<0, 0>>]]
      BY <1>6 DEF Resume
    <2>2. Unfinished \subseteq DOMAIN docs /\ \A h \in Unfinished : docs[h].version \in Nat
      BY <1>0 DEF Unfinished, StoreOK, Doc
    <2>3. /\ started' \in [Hotswaps -> Nat]
          /\ \A u \in threads' : \E h \in Unfinished : \E c \in Resumed(docs[h]) : Fresh(u, h, c)
      BY <1>0, <1>6, ResumeEffect
    <2>4. StoreOK' /\ FromMoves'
      BY <1>0, <2>1, <2>2, <2>3 DEF StoreOK, FromMoves
    <2>5. ASSUME NEW u \in threads' PROVE ThreadOK(u)' /\ GetLooks(u)
      <3>1. PICK h \in Unfinished : \E c \in Resumed(docs[h]) : Fresh(u, h, c)
        BY <2>3, <2>5
      <3> QED
        BY <2>1, <2>2, <3>1, NewThread
    <2> QED
      BY <1>t, <2>4, <2>5
  <1>7. CASE ResumeFails
    <2>1. StoreOK' /\ FromMoves'
      BY <1>0, <1>7 DEF StoreOK, ResumeFails, FromMoves
    <2>2. \A u \in threads' : ThreadOK(u)' /\ GetLooks(u)
      BY <1>7, OldThreads DEF ResumeFails
    <2> QED
      BY <1>t, <2>1, <2>2
  <1> QED
    BY <1>1, <1>2, <1>3, <1>4, <1>5, <1>6, <1>7

LEMMA TypeNext == TypeInv /\ [Next]_vars => TypeInv'
  BY StepType, OtherType, TypeSame DEF Next

\* Documents, index, threads and records stay well formed, and a goroutine
\* finds its document, its entities and its entry of the index where
\* loadFromXolu, driveCutover and advanceState look for them.
THEOREM XoluHotswapTypeCorrect == Spec => []TypeOK
  <1>1. TypeInv => TypeOK
    BY DEF TypeInv
  <1> QED
    BY InitType, TypeNext, <1>1, PTL DEF Spec

-----------------------------------------------------------------------------
(* One forward goroutine.                                                  *)

\* Whatever starts a forward goroutine: Confirm and the forward goroutines.
Starters == Forward \cup {"confirm"}

\* A Request past its check has an ID of its own.
Pending ==
    \A r \in requests : /\ r.h \notin DOMAIN docs
                        /\ \A q \in requests : q.h = r.h => q = r

OneStarter ==
    \A u, v \in threads : (u.h = v.h /\ u.code \in Starters /\ v.code \in Starters) => u = v

DriverInv == TypeInv /\ Pending /\ OneStarter

\* Operators wait before they confirm.  (Of two Confirms at once that both
\* find PREPARING the second may read from the index what the first has put
\* there, which is no version, so its save is unconditional; then both start
\* driveQuiesce.)
ConfirmWaits == "confirm" \notin Impatient

LEMMA PendingNext ==
    ASSUME TypeInv, Pending, Next
    PROVE  Pending'
  <1>0. Pending /\ TypeOK /\ \A u \in threads : u.h \in DOMAIN docs
    BY DEF TypeInv, TypeOK
  <1>1. ASSUME NEW h \in Hotswaps, NEW move \in Moves, NEW auto \in AutoAdvance,
               RequestCheck(h, move, auto)
        PROVE  Pending'
    BY <1>0, <1>1 DEF RequestCheck, Pending
  <1>2. ASSUME NEW r \in requests, RequestCreate(r) \/ RequestFails(r)
        PROVE  Pending'
    <2>1. requests' = requests \ {r} /\ docs' \in {docs, Created(r)}
      BY <1>2 DEF RequestCreate, RequestFails
    <2>2. DOMAIN docs' \subseteq DOMAIN docs \cup {r.h}
      BY <1>0, <2>1, CreatedDocs
    <2> QED
      BY <1>0, <2>1, <2>2 DEF Pending
  <1>3. ASSUME NEW h \in DOMAIN docs, NEW code \in Calls, Call(h, code)
        PROVE  Pending'
    BY <1>0, <1>3 DEF Call, Pending
  <1>4. ASSUME NEW t \in threads, Step(t)
        PROVE  Pending'
    <2>1. requests' = requests /\ (docs' = docs \/ docs' = Saved(t))
      BY <1>0, <1>4, StepFrame DEF Writes
    <2>2. DOMAIN docs' = DOMAIN docs
      BY <2>1 DEF Saved
    <2> QED
      BY <1>0, <2>1, <2>2 DEF Pending
  <1>5. CASE Crash \/ Resume \/ ResumeFails
    BY <1>0, <1>5 DEF Crash, Resume, ResumeFails, Pending
  <1> QED
    BY <1>1, <1>2, <1>3, <1>4, <1>5 DEF Next

LEMMA OneStarterNext ==
    ASSUME ConfirmWaits, DriverInv, Next
    PROVE  OneStarter'
  <1>0. /\ Pending /\ TypeOK /\ OneStarter /\ StoreOK /\ GetsLook
        /\ \A u \in threads : u.h \in DOMAIN docs
    BY TypeParts DEF DriverInv, TypeInv, TypeOK
  <1>a. ASSUME NEW h, NEW c, NEW done \in SUBSET threads, Begins(h, c, done),
               c \in Starters => \A u \in threads \ done : u.h = h => u.code \notin Starters
        PROVE  OneStarter'
    <2>1. PICK new : Fresh(new, h, c) /\ threads' = (threads \ done) \cup {new}
      BY <1>a DEF Begins
    <2>2. new.h = h /\ new.code = c
      BY <2>1 DEF Fresh
    <2> QED
      BY <1>0, <1>a, <2>1, <2>2 DEF OneStarter
  <1>b. ASSUME threads' \subseteq threads
        PROVE  OneStarter'
    BY <1>0, <1>b DEF OneStarter
  <1>1. ASSUME NEW h \in Hotswaps, NEW move \in Moves, NEW auto \in AutoAdvance,
               RequestCheck(h, move, auto)
        PROVE  OneStarter'
    BY <1>1, <1>b DEF RequestCheck
  <1>2. ASSUME NEW r \in requests, RequestCreate(r)
        PROVE  OneStarter'
    <2>1. /\ r.h \in Hotswaps /\ started \in [Hotswaps -> Nat] /\ {} \in SUBSET threads
          /\ (IF r.auto THEN {"quiesce"} ELSE {}) \in {{}} \cup {{c} : c \in Codes}
          /\ Go(r.h, IF r.auto THEN {"quiesce"} ELSE {}, {})
      BY <1>0, <1>2, CodeFacts DEF StoreOK, RequestCreate
    <2>2. \/ threads' = threads \ {}
          \/ \E c \in Codes : Begins(r.h, c, {})
      BY <2>1, GoEffect
    <2>3. \A u \in threads \ {} : u.h # r.h
      BY <1>0 DEF Pending
    <2> QED
      BY <1>a, <1>b, <2>1, <2>2, <2>3
  <1>3. ASSUME NEW r \in requests, RequestFails(r)
        PROVE  OneStarter'
    BY <1>3, <1>b DEF RequestFails
  <1>4. ASSUME NEW h \in DOMAIN docs, NEW code \in Calls, Call(h, code)
        PROVE  OneStarter'
    <2>1. /\ h \in Hotswaps /\ code \in Codes /\ started \in [Hotswaps -> Nat]
          /\ {} \in SUBSET threads /\ {code} \in {{}} \cup {{c} : c \in Codes}
          /\ Go(h, {code}, {})
      BY <1>0, <1>4, XoluHotswapAssumption, CodeFacts DEF StoreOK, Call
    <2>2. \/ {code} = {} /\ threads' = threads \ {}
          \/ \E c \in Codes : {code} = {c} /\ Begins(h, c, {})
      BY <2>1, GoEffect
    <2>3. Begins(h, code, {})
      BY <2>2
    <2>4. code \in Starters => code = "confirm"
      BY XoluHotswapAssumption, CodeFacts DEF Starters
    <2>5. code \in Starters => \A u \in threads \ {} : u.h # h
      BY <1>4, <2>4 DEF Call, ConfirmWaits
    <2> QED
      BY <1>a, <2>1, <2>3, <2>5
  <1>5. ASSUME NEW t \in threads, Step(t)
        PROVE  OneStarter'
    <2>1. CASE GoesOn(t)
      <3>1. PICK u : /\ threads' = (threads \ {t}) \cup {u} /\ u.h = t.h
                     /\ u.code = t.code \/ (t.code = "migration" /\ u.code = "fail")
        BY <2>1 DEF GoesOn
      <3>2. u.code \in Starters => u.code = t.code
        BY <3>1, CodeFacts DEF Starters
      <3> QED
        BY <1>0, <3>1, <3>2 DEF OneStarter
    <2>2. CASE Leaves(t)
      <3>1. CASE threads' = threads \ {t}
        BY <1>b, <3>1
      <3>2. ASSUME NEW c \in Drivers, Begins(t.h, c, {t}), c \in Forward => t.code \in Forward \cup {"confirm"}
            PROVE  OneStarter'
        <4>1. c \in Starters => t.code \in Starters
          BY <3>2, CodeFacts DEF Starters
        <4>2. c \in Starters => \A u \in threads \ {t} : u.h = t.h => u.code \notin Starters
          BY <1>0, <4>1 DEF OneStarter
        <4>3. {t} \in SUBSET threads
          OBVIOUS
        <4> QED
          BY <1>a, <3>2, <4>2, <4>3
      <3> QED
        BY <2>2, <3>1, <3>2 DEF Leaves
    <2> QED
      BY <1>0, <1>5, <2>1, <2>2, StepShape
  <1>6. CASE Crash \/ ResumeFails
    BY <1>6, <1>b DEF Crash, ResumeFails
  <1>7. CASE Resume
    <2>1. \A u, v \in threads' : u.h = v.h => u = v
      BY <1>0, <1>7, ResumeEffect
    <2> QED
      BY <2>1 DEF OneStarter
  <1> QED
    BY <1>1, <1>2, <1>3, <1>4, <1>5, <1>6, <1>7 DEF Next

\* However calls fail, answers get lost and nolu crashes, and while Aborts and
\* Gets come at any time, no hotswap has two forward goroutines.
THEOREM OneDriverForward ==
    ASSUME ConfirmWaits
    PROVE  Spec => []OneForwardDriver
  <1>1. Init => DriverInv
    BY InitType DEF Init, DriverInv, Pending, OneStarter
  <1>2. DriverInv /\ [Next]_vars => DriverInv'
    <2> SUFFICES ASSUME DriverInv, [Next]_vars PROVE DriverInv'
      OBVIOUS
    <2>1. TypeInv'
      BY TypeNext DEF DriverInv
    <2>2. CASE Next
      BY <2>1, <2>2, PendingNext, OneStarterNext DEF DriverInv
    <2>3. CASE UNCHANGED vars
      BY <2>1, <2>3 DEF DriverInv, Pending, OneStarter, vars
    <2> QED
      BY <2>2, <2>3
  <1>3. DriverInv => OneForwardDriver
    BY DEF DriverInv, OneStarter, OneForwardDriver, Starters
  <1> QED
    BY <1>1, <1>2, <1>3, PTL DEF Spec

-----------------------------------------------------------------------------
(* Nothing is moved twice.                                                 *)

\* No tenant is both moved to and moved from, and histories begin without
\* hotswaps.
OneWay ==
    \A m, n \in Moves : ~(m.target.instance = n.source.instance /\ m.target.tenant = n.source.tenant)

OwnProtocols ==
    \A g \in DOMAIN InitRecords : \A i \in 1..Len(InitRecords[g].history) :
        InitRecords[g].history[i].protocol \notin Hotswaps

Moved(g, h) == \E i \in 1..Len(records[g].history) : records[g].history[i].protocol = h

\* Only driveCutover has work listed, in its loop.
Idle(t) == t.at # "loop" /\ t.todo = {} /\ t.got = <<>>

LoopOnly(t) == t.code # "cutover" \/ t.at # "loop" => Idle(t)

\* What is still to do has not been done.
WorkOK(t) ==
    /\ LoopOnly(t)
    /\ t.got # <<>> => t.got[1] \notin t.todo
    /\ \A g \in DOMAIN records :
           Moved(g, t.h) => g \notin t.todo /\ (t.got # <<>> => t.got[1] # g)

WorkInOrder == \A t \in threads : WorkOK(t)

\* What a hotswap has moved is where hotswaps move to.
MovedAway ==
    \A g \in DOMAIN records : \A h \in Hotswaps : Moved(g, h) =>
        \E m \in Moves : /\ records[g].current.instance = m.target.instance
                         /\ records[g].current.tenant = m.target.tenant

\* MovedOnce, of the hotswaps to come too.
EntriesOnce ==
    \A h \in Hotswaps : \A g \in DOMAIN records :
        \A i, j \in 1..Len(records[g].history) :
            (records[g].history[i].protocol = h /\ records[g].history[j].protocol = h) => i = j

OnceInv == DriverInv /\ WorkInOrder /\ MovedAway /\ EntriesOnce

LEMMA IdleOK ==
    ASSUME NEW u, Idle(u)
    PROVE  LoopOnly(u) /\ WorkOK(u) /\ WorkOK(u)'
  BY DEF Idle, WorkOK, LoopOnly

\* Only the loop of driveCutover gives a thread work.
LEMMA StepWork ==
    ASSUME TypeOK, GetsLook, NEW t \in threads, LoopOnly(t), Step(t)
    PROVE  \/ CutoverList(t) \/ CutoverTransfer(t) \/ \E g \in GlobalIDs : CutoverGet(t, g)
           \/ \A u \in threads' : u \in threads \/ Idle(u)
  <1> DEFINE Done == \A u \in threads' : u \in threads \/ Idle(u)
  <1>0. /\ t \in Threads /\ t.h \in Hotswaps /\ started \in [Hotswaps -> Nat]
    BY ThreadParts
  <1>1. ASSUME NEW u, NEW code, NEW at, NEW pass, NEW ok, Becomes(t, u, code, at, pass, ok),
               SameWork(t, u), Idle(t) \/ (t.todo = {} /\ t.got = <<>>), at # "loop"
        PROVE  Done
    BY <1>1 DEF Becomes, SameWork, Idle
  <1>2. CASE Load(t)
    <2>1. Idle(t)
      BY <1>0, <1>2 DEF Load, LoopOnly
    <2> QED
      BY <1>1, <1>2, <2>1, LoadEffect
  <1>3. CASE LoadFails(t)
    BY <1>0, <1>3, ReturnsEffect DEF LoadFails
  <1>4. CASE Index(t)
    <2>1. Idle(t)
      BY <1>0, <1>4 DEF Index, LoopOnly
    <2>2. (IF t.pass = 1 THEN "call" ELSE "pick") # "loop"
      OBVIOUS
    <2>3. CASE threads' = threads \ {t}
      BY <2>3
    <2>4. CASE \E u : /\ Becomes(t, u, t.code, IF t.pass = 1 THEN "call" ELSE "pick", t.pass, t.ok)
                      /\ SameWork(t, u)
      BY <1>1, <2>1, <2>2, <2>4
    <2> QED
      BY <1>4, <2>3, <2>4, IndexEffect
  <1>5. CASE QuiesceCall(t) \/ RollbackCall(t) \/ CutoverDone(t)
    <2>1. Continues(t, Reload(t)) /\ (Idle(t) \/ (t.todo = {} /\ t.got = <<>>))
      BY <1>0, <1>5 DEF QuiesceCall, RollbackCall, CutoverDone, LoopOnly
    <2> QED
      BY <1>1, <2>1, ReloadEffect
  <1>6. ASSUME NEW ok \in BOOLEAN, MigrationCall(t, ok)
        PROVE  Done
    <2>1. Idle(t)
      BY <1>0, <1>6 DEF MigrationCall, LoopOnly
    <2> QED
      BY <1>1, <1>6, <2>1, MigrationEffect
  <1>7. ASSUME NEW ok \in BOOLEAN, ValidationCall(t, ok)
        PROVE  Done
    <2>1. Idle(t)
      BY <1>0, <1>7 DEF ValidationCall, LoopOnly
    <2> QED
      BY <1>1, <1>7, <2>1, ValidationEffect
  <1>8. CASE Pick(t)
    <2>1. Idle(t)
      BY <1>0, <1>8 DEF Pick, LoopOnly
    <2> QED
      BY <1>1, <1>8, <2>1, PickEffect
  <1>9. CASE Save(t)
    <2>1. Idle(t)
      BY <1>0, <1>9 DEF Save, LoopOnly
    <2> QED
      BY <1>1, <1>9, <2>1, SaveEffect
  <1>10. CASE SaveFails(t) \/ Post(t)
    <2>1. Leaves(t)
      BY <1>10, LeavesBy DEF SaveFails, Post
    <2> QED
      BY <2>1 DEF Leaves, Begins, Fresh, Idle
  <1> QED
    BY <1>2, <1>3, <1>4, <1>5, <1>6, <1>7, <1>8, <1>9, <1>10 DEF Step

\* What a move does to histories: one entry more, of the hotswap, for the
\* entity, which had none.
LEMMA MoveEntries ==
    ASSUME OnceInv, NEW t \in threads, MovesEntity(t)
    PROVE  /\ \A g \in DOMAIN records : \A h : Moved(g, h)' => Moved(g, h) \/ (g = t.got[1] /\ h = t.h)
           /\ ~Moved(t.got[1], t.h)
           /\ MovedAway' /\ EntriesOnce'
  <1> DEFINE g == t.got[1]
             from == t.got[2]
             to == newRef(docs[t.h].target, from)
             e == [from |-> from, to |-> to, protocol |-> t.h]
  <1>0. /\ TypeOK /\ FromMoves /\ WorkOK(t) /\ t \in Threads /\ t.h \in DOMAIN docs /\ t.h \in Hotswaps
        /\ records \in [DOMAIN records -> Record] /\ MovedAway /\ EntriesOnce
    BY ThreadParts DEF OnceInv, DriverInv, TypeInv, TypeOK, WorkInOrder
  <1>1. /\ g \in DOMAIN records /\ from \in LocalRefs /\ to \in LocalRefs /\ t.h \in Protocols
        /\ DOMAIN records' = DOMAIN records /\ records' \in [DOMAIN records -> Record]
    BY <1>0, MoveType
  <1>2. records' = Put(records, g, Transferred(records[g], from, to, t.h)) /\ t.got # <<>>
    BY DEF MovesEntity
  <1>3. \A x \in DOMAIN records : x # g => records'[x] = records[x]
    BY <1>2 DEF Put
  <1>4. to.instance = docs[t.h].target.instance /\ to.tenant = docs[t.h].target.tenant
    BY DEF newRef
  <1> HIDE DEF g, from, to
  <1>5. /\ records'[g].history = Append(records[g].history, e) /\ records'[g].current = to
        /\ records[g].history \in Seq(TransferEntry) /\ e \in TransferEntry
    <2>1. records[g] \in Record /\ records'[g] = Transferred(records[g], from, to, t.h)
      BY <1>0, <1>1, <1>2 DEF Put
    <2>2. records'[g].history = Append(records[g].history, e) /\ records'[g].current = to
      BY <1>1, <2>1, TransferredRecord
    <2>3. records[g].history \in Seq(TransferEntry) /\ e \in TransferEntry
      BY <1>1, <2>1 DEF Record, TransferEntry
    <2> QED
      BY <2>2, <2>3
  <1> DEFINE n == Len(records[g].history)
  <1>6. /\ n \in Nat /\ Len(records'[g].history) = n + 1 /\ records'[g].history[n + 1] = e
        /\ \A i \in 1..n : records'[g].history[i] = records[g].history[i]
        /\ \A i \in 1..(n + 1) : i \in 1..n \/ i = n + 1
    BY <1>5
  <1>7. e.protocol = t.h
    OBVIOUS
  <1> HIDE DEF e, n
  <1>8. ~Moved(g, t.h)
    BY <1>0, <1>1, <1>2 DEF WorkOK, g
  <1>9. ASSUME NEW x \in DOMAIN records, NEW h, Moved(x, h)'
        PROVE  Moved(x, h) \/ (x = g /\ h = t.h)
    <2>1. CASE x # g
      BY <1>3, <1>9, <2>1 DEF Moved
    <2>2. CASE x = g
      BY <1>6, <1>7, <1>9, <2>2 DEF Moved, n
    <2> QED
      BY <2>1, <2>2
  <1>10. MovedAway'
    <2> SUFFICES ASSUME NEW x \in DOMAIN records, NEW h \in Hotswaps, Moved(x, h)'
                 PROVE  \E m \in Moves : /\ records'[x].current.instance = m.target.instance
                                         /\ records'[x].current.tenant = m.target.tenant
      BY <1>1 DEF MovedAway
    <2>1. CASE x = g
      BY <1>0, <1>4, <1>5, <2>1 DEF FromMoves
    <2>2. CASE x # g
      BY <1>0, <1>3, <1>9, <2>2 DEF MovedAway
    <2> QED
      BY <2>1, <2>2
  <1>11. EntriesOnce'
    <2> SUFFICES ASSUME NEW h \in Hotswaps, NEW x \in DOMAIN records,
                        NEW i \in 1..Len(records'[x].history), NEW j \in 1..Len(records'[x].history),
                        records'[x].history[i].protocol = h, records'[x].history[j].protocol = h
                 PROVE  i = j
      BY <1>1 DEF EntriesOnce
    <2>1. CASE x # g
      BY <1>0, <1>3, <2>1 DEF EntriesOnce
    <2>2. CASE x = g
      <3>1. i \in 1..n \/ i = n + 1
        BY <1>6, <2>2
      <3>2. j \in 1..n \/ j = n + 1
        BY <1>6, <2>2
      <3>3. CASE i \in 1..n /\ j \in 1..n
        BY <1>0, <1>1, <1>6, <2>2, <3>3 DEF EntriesOnce, n
      <3>4. CASE i \in 1..n /\ j = n + 1
        BY <1>6, <1>7, <1>8, <2>2, <3>4 DEF Moved, n
      <3>5. CASE j \in 1..n /\ i = n + 1
        BY <1>6, <1>7, <1>8, <2>2, <3>5 DEF Moved, n
      <3> QED
        BY <3>1, <3>2, <3>3, <3>4, <3>5
    <2> QED
      BY <2>1, <2>2
  <1> QED
    BY <1>8, <1>9, <1>10, <1>11 DEF g

\* A stage that moves nothing leaves the work of the others in order.
LEMMA SameRecordsWork ==
    ASSUME records' = records, NEW u, WorkOK(u)
    PROVE  WorkOK(u)'
  BY DEF WorkOK, Moved

LEMMA StepOnce ==
    ASSUME OneWay, OnceInv, NEW t \in threads, Step(t)
    PROVE  WorkInOrder' /\ MovedAway' /\ EntriesOnce'
  <1>0. /\ TypeOK /\ FromMoves /\ GetsLook /\ WorkInOrder /\ OneStarter /\ MovedAway /\ EntriesOnce
        /\ WorkOK(t) /\ LoopOnly(t) /\ t \in Threads /\ t.h \in DOMAIN docs /\ t.h \in Hotswaps
    BY ThreadParts DEF OnceInv, DriverInv, TypeInv, WorkInOrder, WorkOK
  <1>1. CASE CutoverTransfer(t)
    <2>1. PICK v : /\ Becomes(t, v, t.code, t.at, t.pass, t.ok)
                   /\ v.todo = t.todo /\ v.got = <<>>
      BY <1>0, <1>1, TransferThread
    <2>2. v.h = t.h /\ v.code = t.code /\ v.at = t.at /\ threads' = (threads \ {t}) \cup {v}
      BY <2>1 DEF Becomes
    <2>3. t.at = "loop" /\ t.got # <<>> /\ t.code = "cutover"
      BY <1>0, <1>1 DEF CutoverTransfer, LoopOnly, Idle
    <2>4. records' = records \/ MovesEntity(t)
      BY <1>1 DEF CutoverTransfer, MovesEntity
    <2>5. CASE records' = records
      <3>1. WorkOK(v)
        BY <1>0, <2>1, <2>2, <2>3 DEF WorkOK, LoopOnly
      <3>2. WorkInOrder'
        BY <1>0, <2>2, <2>5, <3>1, SameRecordsWork DEF WorkInOrder
      <3> QED
        BY <1>0, <2>5, <3>2 DEF MovedAway, EntriesOnce, Moved
    <2>6. CASE MovesEntity(t)
      <3>1. /\ \A g \in DOMAIN records : \A h : Moved(g, h)' => Moved(g, h) \/ (g = t.got[1] /\ h = t.h)
            /\ MovedAway' /\ EntriesOnce' /\ DOMAIN records' = DOMAIN records
        BY <1>0, <2>6, MoveEntries, MoveType
      <3>2. ASSUME NEW u \in threads \ {t} PROVE WorkOK(u)'
        <4>1. WorkOK(u)
          BY <1>0, <3>2 DEF WorkInOrder
        <4>2. CASE u.h # t.h
          BY <3>1, <4>1, <4>2 DEF WorkOK, LoopOnly
        <4>3. CASE u.h = t.h
          <5>1. u.code # "cutover"
            BY <1>0, <2>3, <3>2, <4>3, CodeFacts DEF OneStarter, Starters
          <5>2. Idle(u)
            BY <4>1, <5>1 DEF WorkOK, LoopOnly
          <5> QED
            BY <5>2, IdleOK
        <4> QED
          BY <4>2, <4>3
      <3>3. WorkOK(v)'
        BY <1>0, <2>1, <2>2, <2>3, <3>1 DEF WorkOK, LoopOnly
      <3> QED
        BY <2>2, <3>1, <3>2, <3>3 DEF WorkInOrder
    <2> QED
      BY <2>4, <2>5, <2>6
  <1>2. ASSUME records' = records, \A u \in threads' : u \in threads \/ WorkOK(u)
        PROVE  WorkInOrder' /\ MovedAway' /\ EntriesOnce'
    <2>1. WorkInOrder'
      BY <1>0, <1>2, SameRecordsWork DEF WorkInOrder
    <2> QED
      BY <1>0, <1>2, <2>1 DEF MovedAway, EntriesOnce, Moved
  <1>3. CASE CutoverList(t)
    <2>1. PICK v : /\ Becomes(t, v, t.code, "loop", t.pass, t.ok) /\ v.got = t.got
                   /\ \/ v.todo = ListByInstanceAndTenant(records, docs[t.h].source.instance,
                                                          docs[t.h].source.tenant)
                      \/ XoluMayFail /\ v.todo = {}
      BY <1>0, <1>3, ListEffect
    <2>2. /\ v.h = t.h /\ v.code = "cutover" /\ v.at = "loop" /\ threads' = (threads \ {t}) \cup {v}
          /\ v.got = <<>>
      BY <1>0, <1>3, <2>1 DEF Becomes, CutoverList, LoopOnly, Idle
    <2>3. ASSUME NEW g \in DOMAIN records, Moved(g, t.h), g \in v.todo PROVE FALSE
      <3>1. PICK m \in Moves : /\ records[g].current.instance = m.target.instance
                               /\ records[g].current.tenant = m.target.tenant
        BY <1>0, <2>3 DEF MovedAway
      <3>2. PICK n \in Moves : docs[t.h].source = n.source
        BY <1>0 DEF FromMoves
      <3>3. /\ records[g].current.instance = n.source.instance
            /\ records[g].current.tenant = n.source.tenant
        BY <2>1, <2>3, <3>2 DEF ListByInstanceAndTenant
      <3> QED
        BY <3>1, <3>3 DEF OneWay
    <2>4. WorkOK(v)
      BY <2>2, <2>3 DEF WorkOK, LoopOnly
    <2>5. records' = records
      BY <1>3 DEF CutoverList
    <2> QED
      BY <1>2, <2>2, <2>4, <2>5
  <1>4. ASSUME NEW g \in GlobalIDs, CutoverGet(t, g)
        PROVE  WorkInOrder' /\ MovedAway' /\ EntriesOnce'
    <2>1. PICK v : /\ Becomes(t, v, t.code, t.at, t.pass, t.ok)
                   /\ v.todo = t.todo \ {g} /\ t.got = <<>>
                   /\ v.got = <<g, records[g].current>> \/ v.got = <<>>
      BY <1>0, <1>4, GetEffect
    <2>2. /\ v.h = t.h /\ v.code = t.code /\ v.at = t.at /\ threads' = (threads \ {t}) \cup {v}
          /\ t.at = "loop" /\ g \in t.todo /\ records' = records
      BY <1>4, <2>1 DEF Becomes, CutoverGet
    <2>3. t.code = "cutover"
      BY <1>0, <2>2 DEF LoopOnly, Idle
    <2>4. v.got # <<>> => v.got[1] = g
      BY <2>1
    <2>5. WorkOK(v)
      BY <1>0, <2>1, <2>2, <2>3, <2>4 DEF WorkOK, LoopOnly
    <2> QED
      BY <1>2, <2>2, <2>5
  <1>5. CASE ~CutoverTransfer(t) /\ \A u \in threads' : u \in threads \/ Idle(u)
    <2>1. records' = records
      BY <1>5 DEF Step, Load, LoadFails, Index, QuiesceCall, MigrationCall, ValidationCall,
                  CutoverList, CutoverGet, CutoverDone, RollbackCall, Pick, Save, SaveFails, Post
    <2> QED
      BY <1>2, <1>5, <2>1, IdleOK, SMTT(30)
  <1> QED
    BY <1>0, <1>1, <1>3, <1>4, <1>5, StepWork

LEMMA OtherOnce ==
    ASSUME OnceInv,
           \/ \E h \in Hotswaps, move \in Moves, auto \in AutoAdvance : RequestCheck(h, move, auto)
           \/ \E r \in requests : RequestCreate(r) \/ RequestFails(r)
           \/ \E h \in DOMAIN docs, code \in Calls : Call(h, code)
           \/ Crash \/ Resume \/ ResumeFails \/ UNCHANGED vars
    PROVE  WorkInOrder' /\ MovedAway' /\ EntriesOnce'
  <1>0. /\ TypeOK /\ StoreOK /\ WorkInOrder /\ MovedAway /\ EntriesOnce
    BY TypeParts DEF OnceInv, DriverInv, TypeInv
  <1>1. records' = records
    BY DEF RequestCheck, RequestCreate, RequestFails, Call, Crash, Resume, ResumeFails, vars
  <1>2. MovedAway' /\ EntriesOnce'
    BY <1>0, <1>1 DEF MovedAway, EntriesOnce, Moved
  <1>3. ASSUME \A u \in threads' : u \in threads \/ Idle(u)
        PROVE  WorkInOrder'
    BY <1>0, <1>1, <1>3, IdleOK, SameRecordsWork DEF WorkInOrder
  <1>4. ASSUME NEW h, NEW c, NEW done, Begins(h, c, done)
        PROVE  \A u \in threads' : u \in threads \/ Idle(u)
    BY <1>4 DEF Begins, Fresh, Idle
  <1>5. ASSUME NEW r \in requests, RequestCreate(r)
        PROVE  WorkInOrder'
    <2>1. /\ r.h \in Hotswaps /\ started \in [Hotswaps -> Nat] /\ {} \in SUBSET threads
          /\ (IF r.auto THEN {"quiesce"} ELSE {}) \in {{}} \cup {{c} : c \in Codes}
          /\ Go(r.h, IF r.auto THEN {"quiesce"} ELSE {}, {})
      BY <1>0, <1>5, CodeFacts DEF StoreOK, RequestCreate
    <2>2. \/ threads' = threads \ {}
          \/ \E c \in Codes : Begins(r.h, c, {})
      BY <2>1, GoEffect
    <2> QED
      BY <1>3, <1>4, <2>2
  <1>6. ASSUME NEW h \in DOMAIN docs, NEW code \in Calls, Call(h, code)
        PROVE  WorkInOrder'
    <2>1. /\ h \in Hotswaps /\ code \in Codes /\ started \in [Hotswaps -> Nat]
          /\ {} \in SUBSET threads /\ {code} \in {{}} \cup {{c} : c \in Codes}
          /\ Go(h, {code}, {})
      BY <1>0, <1>6, XoluHotswapAssumption, CodeFacts DEF StoreOK, Call
    <2>2. \/ {code} = {} /\ threads' = threads \ {}
          \/ \E c \in Codes : {code} = {c} /\ Begins(h, c, {})
      BY <2>1, GoEffect
    <2> QED
      BY <1>3, <1>4, <2>2
  <1>7. CASE Resume
    <2>1. \A u \in threads' : \E h \in Unfinished : \E c \in Resumed(docs[h]) : Fresh(u, h, c)
      BY <1>0, <1>7, ResumeEffect
    <2>2. \A u \in threads' : Idle(u)
      BY <2>1 DEF Fresh, Idle
    <2> QED
      BY <1>2, <1>3, <2>2
  <1>8. ASSUME threads' \subseteq threads
        PROVE  WorkInOrder'
    BY <1>3, <1>8
  <1>9. CASE \/ \E h \in Hotswaps, move \in Moves, auto \in AutoAdvance : RequestCheck(h, move, auto)
             \/ \E r \in requests : RequestFails(r)
             \/ Crash \/ ResumeFails \/ UNCHANGED vars
    <2>1. threads' \subseteq threads
      BY <1>9 DEF RequestCheck, RequestFails, Crash, ResumeFails, vars
    <2> QED
      BY <1>2, <1>8, <2>1
  <1> QED
    BY <1>2, <1>5, <1>6, <1>7, <1>9

\* When no tenant is both moved to and moved from, a hotswap moves an entity
\* at most once: not after a crash, when a resumed driveCutover lists again,
\* and not when the answer to a Transfer was lost.
THEOREM NothingMovedTwice ==
    ASSUME ConfirmWaits, OneWay, OwnProtocols
    PROVE  Spec => []MovedOnce
  <1>1. Init => OnceInv
    <2> SUFFICES ASSUME Init PROVE OnceInv
      OBVIOUS
    <2>1. DriverInv /\ WorkInOrder
      BY InitType DEF Init, DriverInv, Pending, OneStarter, WorkInOrder
    <2>2. \A g \in DOMAIN records : \A h \in Hotswaps : ~Moved(g, h)
      BY DEF Init, Moved, OwnProtocols
    <2>3. MovedAway
      BY <2>2 DEF MovedAway
    <2>4. EntriesOnce
      BY <2>2 DEF EntriesOnce, Moved
    <2> QED
      BY <2>1, <2>3, <2>4 DEF OnceInv
  <1>2. OnceInv /\ [Next]_vars => OnceInv'
    <2> SUFFICES ASSUME OnceInv, [Next]_vars PROVE OnceInv'
      OBVIOUS
    <2>1. DriverInv'
      <3>1. DriverInv /\ TypeInv'
        BY TypeNext DEF DriverInv, OnceInv
      <3>2. CASE Next
        BY <3>1, <3>2, PendingNext, OneStarterNext DEF DriverInv
      <3>3. CASE UNCHANGED vars
        BY <3>1, <3>3 DEF DriverInv, Pending, OneStarter, vars
      <3> QED
        BY <3>2, <3>3
    <2>2. WorkInOrder' /\ MovedAway' /\ EntriesOnce'
      BY StepOnce, OtherOnce DEF Next
    <2> QED
      BY <2>1, <2>2 DEF OnceInv
  <1>3. OnceInv => MovedOnce
    BY DEF OnceInv, DriverInv, TypeInv, TypeOK, EntriesOnce, MovedOnce
  <1> QED
    BY <1>1, <1>2, <1>3, PTL DEF Spec

-----------------------------------------------------------------------------
(* COMPLETE means that all is moved.                                       *)

\* Calls to a xolu succeed.
Reliable == ~XoluMayFail

\* What the source still owns.
LeftOf(h) == ListByInstanceAndTenant(records, docs[h].source.instance, docs[h].source.tenant)

\* Once driveCutover has listed, whatever is left is on its list or in hand,
\* as its owner has it.
Covered(t) ==
    t.code = "cutover" /\ (t.at = "loop" \/ t.pass = 2) =>
        \A g \in LeftOf(t.h) : g \in t.todo \/ t.got = <<g, records[g].current>>

SecondPass(t) == t.at \in {"pick", "save", "post"} => t.pass = 2

CutOK(t) == LoopOnly(t) /\ SecondPass(t) /\ Covered(t)

CutInv == TypeInv /\ \A t \in threads : CutOK(t)

\* Nothing comes back to a source.
LEMMA LeftShrinks ==
    ASSUME OneWay, TypeInv, NEW t \in threads, Step(t), NEW h \in DOMAIN docs, NEW g \in LeftOf(h)'
    PROVE  /\ g \in LeftOf(h) /\ records'[g].current = records[g].current
           /\ ~(MovesEntity(t) /\ g = t.got[1])
  <1>0. /\ TypeOK /\ FromMoves /\ GetsLook /\ t.h \in DOMAIN docs
        /\ records \in [DOMAIN records -> Record]
    BY ThreadParts DEF TypeInv, TypeOK
  <1>1. (docs' = docs \/ Writes(t)) /\ (records' = records \/ MovesEntity(t))
    BY <1>0, StepFrame
  <1>2. docs'[h].source = docs[h].source
    <2>1. CASE docs' = docs
      BY <2>1
    <2>2. CASE Writes(t)
      <3>1. t.code # "get" /\ docs' = Saved(t)
        BY <1>0, <2>2 DEF GetsLook, GetLooks, Writes
      <3> QED
        BY <1>0, <3>1, SavedDocs
    <2> QED
      BY <1>1, <2>1, <2>2
  <1>3. /\ g \in DOMAIN records' /\ records'[g].status = "active"
        /\ records'[g].current.instance = docs[h].source.instance
        /\ records'[g].current.tenant = docs[h].source.tenant
    BY <1>2 DEF LeftOf, ListByInstanceAndTenant
  <1>4. CASE MovesEntity(t)
    <2> DEFINE x == t.got[1]
               to == newRef(docs[t.h].target, t.got[2])
    <2>1. x \in DOMAIN records /\ DOMAIN records' = DOMAIN records
      BY <1>0, <1>4, MoveType
    <2>2. records' = Put(records, x, Transferred(records[x], t.got[2], to, t.h))
      BY <1>4 DEF MovesEntity
    <2>3. records'[x].current = to
      BY <2>1, <2>2 DEF Put, Transferred
    <2>4. to.instance = docs[t.h].target.instance /\ to.tenant = docs[t.h].target.tenant
      BY DEF newRef
    <2>5. \A y \in DOMAIN records : y # x => records'[y] = records[y]
      BY <2>2 DEF Put
    <2> HIDE DEF x, to
    <2>6. g # x
      <3>1. PICK m \in Moves : docs[t.h].target = m.target
        BY <1>0 DEF FromMoves
      <3>2. PICK n \in Moves : docs[h].source = n.source
        BY <1>0 DEF FromMoves
      <3> QED
        BY <1>3, <2>3, <2>4, <3>1, <3>2 DEF OneWay
    <2>7. g \in LeftOf(h) /\ records'[g].current = records[g].current
      BY <1>3, <2>1, <2>5, <2>6 DEF LeftOf, ListByInstanceAndTenant
    <2> QED
      BY <2>6, <2>7 DEF x
  <1>5. CASE ~MovesEntity(t)
    BY <1>1, <1>3, <1>5 DEF LeftOf, ListByInstanceAndTenant
  <1> QED
    BY <1>4, <1>5

\* Whatever does not change its work or its pass stays covered.
LEMMA StillCovered ==
    ASSUME OneWay, TypeInv, NEW t \in threads, Step(t), NEW u \in threads, NEW v, Covered(u),
           v.h = u.h, v.code = "cutover" => u.code = "cutover" /\ (u.at = "loop" \/ u.pass = 2),
           v.todo = u.todo, v.got = u.got
    PROVE  Covered(v)'
  <1>1. u.h \in DOMAIN docs
    BY ThreadParts DEF TypeInv
  <1> SUFFICES ASSUME v.code = "cutover", NEW g \in LeftOf(v.h)'
               PROVE  g \in v.todo \/ v.got = <<g, records'[g].current>>
    BY DEF Covered
  <1>2. g \in LeftOf(u.h) /\ records'[g].current = records[g].current
    BY <1>1, LeftShrinks
  <1> QED
    BY <1>2 DEF Covered

LEMMA StepCut ==
    ASSUME Reliable, OneWay, CutInv, NEW t \in threads, Step(t), NEW v \in threads'
    PROVE  CutOK(v)'
  <1>0. /\ TypeInv /\ TypeOK /\ GetsLook /\ t \in Threads /\ t.pass \in {1, 2} /\ t.h \in DOMAIN docs
        /\ t.h \in Hotswaps /\ started \in [Hotswaps -> Nat]
        /\ LoopOnly(t) /\ SecondPass(t) /\ Covered(t)
    BY ThreadParts DEF CutInv, TypeInv, CutOK
  <1>1. CASE v \in threads
    <2>1. LoopOnly(v) /\ SecondPass(v) /\ Covered(v)
      BY <1>1 DEF CutInv, CutOK
    <2>2. Covered(v)'
      <3>1. CASE v.code = "cutover" /\ (v.at = "loop" \/ v.pass = 2)
        BY <1>0, <1>1, <2>1, <3>1, StillCovered
      <3>2. CASE ~(v.code = "cutover" /\ (v.at = "loop" \/ v.pass = 2))
        BY <3>2 DEF Covered
      <3> QED
        BY <3>1, <3>2
    <2> QED
      BY <2>1, <2>2 DEF CutOK, LoopOnly, SecondPass, Idle
  <1>2. ASSUME NEW code, NEW at, NEW pass, NEW ok, Becomes(t, v, code, at, pass, ok),
               SameWork(t, v), t.todo = {} /\ t.got = <<>>, at # "loop",
               at \in {"pick", "save", "post"} => pass = 2,
               code = "cutover" /\ pass = 2 => t.code = "cutover" /\ (t.at = "loop" \/ t.pass = 2)
        PROVE  CutOK(v)'
    <2>1. /\ v.h = t.h /\ v.code = code /\ v.at = at /\ v.pass = pass /\ v.todo = t.todo /\ v.got = t.got
      BY <1>2 DEF Becomes, SameWork
    <2>2. CASE code = "cutover" /\ pass = 2
      <3>1. Covered(v)'
        BY <1>0, <1>2, <2>1, <2>2, StillCovered
      <3> QED
        BY <1>2, <2>1, <3>1 DEF CutOK, LoopOnly, Idle, SecondPass
    <2>3. CASE ~(code = "cutover" /\ pass = 2)
      BY <1>2, <2>1, <2>3 DEF CutOK, LoopOnly, Idle, SecondPass, Covered
    <2> QED
      BY <2>2, <2>3
  <1>3. ASSUME v \notin threads, NEW u, NEW code, NEW at, NEW pass, NEW ok,
               Becomes(t, u, code, at, pass, ok)
        PROVE  v = u
    BY <1>3 DEF Becomes
  <1>i. t.at # "loop" => t.todo = {} /\ t.got = <<>>
    BY <1>0 DEF LoopOnly, Idle
  <1>4. CASE v \notin threads /\ Load(t)
    <2>1. PICK u : Becomes(t, u, t.code, "index", t.pass, t.ok) /\ SameWork(t, u)
      BY <1>0, <1>4, LoadEffect
    <2>2. t.at = "load"
      BY <1>4 DEF Load
    <2> QED
      BY <1>2, <1>3, <1>4, <1>i, <2>1, <2>2
  <1>5. CASE LoadFails(t)
    BY <1>5 DEF LoadFails, Reliable
  <1>6. CASE v \notin threads /\ Index(t)
    <2>1. t.at = "index" /\ threads' # threads \ {t}
      BY <1>6 DEF Index
    <2>2. PICK u : /\ Becomes(t, u, t.code, IF t.pass = 1 THEN "call" ELSE "pick", t.pass, t.ok)
                   /\ SameWork(t, u)
      BY <1>0, <1>6, <2>1, IndexEffect
    <2>3. /\ (IF t.pass = 1 THEN "call" ELSE "pick") # "loop"
          /\ (IF t.pass = 1 THEN "call" ELSE "pick") \in {"pick", "save", "post"} => t.pass = 2
      BY <1>0
    <2>4. v = u
      BY <1>3, <1>6, <2>2
    <2> QED
      BY <1>2, <1>i, <2>1, <2>2, <2>3, <2>4
  <1>7. CASE v \notin threads /\ (QuiesceCall(t) \/ RollbackCall(t) \/ CutoverDone(t))
    <2>1. /\ Continues(t, Reload(t)) /\ t.todo = {} /\ t.got = <<>>
          /\ t.code = "cutover" => t.at = "loop"
      BY <1>7, <1>i DEF QuiesceCall, RollbackCall, CutoverDone
    <2>2. PICK u : Becomes(t, u, t.code, "load", 2, t.ok) /\ SameWork(t, u)
      BY <1>0, <2>1, ReloadEffect
    <2>3. v = u
      BY <1>3, <1>7, <2>2
    <2> QED
      BY <1>2, <2>1, <2>2, <2>3
  <1>8. ASSUME v \notin threads, NEW ok \in BOOLEAN, MigrationCall(t, ok)
        PROVE  CutOK(v)'
    <2>1. t.code = "migration" /\ t.at = "call"
      BY <1>8 DEF MigrationCall
    <2>2. PICK u : /\ Becomes(t, u, IF ok THEN t.code ELSE "fail", "load", 2, t.ok)
                   /\ SameWork(t, u)
      BY <1>0, <1>8, MigrationEffect
    <2>3. v = u
      BY <1>3, <1>8, <2>2
    <2>4. (IF ok THEN t.code ELSE "fail") # "cutover"
      BY <2>1
    <2> QED
      BY <1>2, <1>i, <2>1, <2>2, <2>3, <2>4
  <1>9. ASSUME v \notin threads, NEW ok \in BOOLEAN, ValidationCall(t, ok)
        PROVE  CutOK(v)'
    <2>1. t.code = "validation" /\ t.at = "call"
      BY <1>9 DEF ValidationCall
    <2>2. PICK u : Becomes(t, u, t.code, "load", 2, ok) /\ SameWork(t, u)
      BY <1>0, <1>9, ValidationEffect
    <2>3. v = u
      BY <1>3, <1>9, <2>2
    <2> QED
      BY <1>2, <1>i, <2>1, <2>2, <2>3
  <1>10. CASE v \notin threads /\ CutoverList(t)
    <2>1. PICK u : /\ Becomes(t, u, t.code, "loop", t.pass, t.ok)
                   /\ u.todo = LeftOf(t.h)
      BY <1>0, <1>10, ListEffect DEF Reliable, LeftOf
    <2>2. v = u /\ t.code = "cutover" /\ UNCHANGED <<records, docs>>
      BY <1>3, <1>10, <2>1 DEF CutoverList
    <2>3. v.h = t.h /\ v.code = "cutover" /\ v.at = "loop" /\ v.todo = LeftOf(v.h)'
      BY <2>1, <2>2 DEF Becomes, LeftOf
    <2> QED
      BY <2>3 DEF CutOK, LoopOnly, SecondPass, Covered
  <1>11. ASSUME v \notin threads, NEW g \in GlobalIDs, CutoverGet(t, g)
         PROVE  CutOK(v)'
    <2>0. PICK u : /\ Becomes(t, u, t.code, t.at, t.pass, t.ok)
                   /\ u.todo = t.todo \ {g} /\ t.got = <<>>
                   /\ \/ u.got = <<g, records[g].current>>
                      \/ XoluMayFail /\ u.got = <<>>
      BY <1>0, <1>11, GetEffect
    <2>1. /\ Becomes(t, u, t.code, t.at, t.pass, t.ok)
          /\ u.todo = t.todo \ {g} /\ t.got = <<>> /\ u.got = <<g, records[g].current>>
      BY <2>0 DEF Reliable
    <2>2. v = u /\ t.at = "loop" /\ UNCHANGED <<records, docs>>
      BY <1>3, <1>11, <2>1 DEF CutoverGet
    <2>3. t.code = "cutover" /\ v.h = t.h /\ v.code = "cutover" /\ v.at = "loop"
      BY <1>0, <2>1, <2>2 DEF Becomes, LoopOnly, Idle
    <2>4. \A x \in LeftOf(t.h) : x \in t.todo
      BY <1>0, <2>1, <2>2, <2>3 DEF Covered
    <2>5. LeftOf(t.h)' = LeftOf(t.h)
      BY <2>2 DEF LeftOf
    <2>6. Covered(v)'
      BY <2>1, <2>2, <2>3, <2>4, <2>5 DEF Covered
    <2> QED
      BY <2>3, <2>6 DEF CutOK, LoopOnly, SecondPass
  <1>12. CASE v \notin threads /\ CutoverTransfer(t)
    <2>1. PICK u : /\ Becomes(t, u, t.code, t.at, t.pass, t.ok)
                   /\ u.todo = t.todo /\ u.got = <<>>
      BY <1>0, <1>12, TransferThread
    <2>2. v = u /\ t.at = "loop" /\ t.got # <<>>
      BY <1>3, <1>12, <2>1 DEF CutoverTransfer
    <2>3. t.code = "cutover" /\ v.h = t.h /\ v.code = "cutover" /\ v.at = "loop"
      BY <1>0, <2>1, <2>2 DEF Becomes, LoopOnly, Idle
    <2>4. MovesEntity(t) \/ ~MayTransfer(records, t.got[1], t.got[2])
      BY <1>12 DEF CutoverTransfer, MovesEntity, Reliable
    <2>5. ASSUME NEW x \in LeftOf(t.h)' PROVE x \in t.todo
      <3>1. x \in LeftOf(t.h) /\ ~(MovesEntity(t) /\ x = t.got[1])
        BY <1>0, <2>5, LeftShrinks
      <3>2. x \in t.todo \/ t.got = <<x, records[x].current>>
        BY <1>0, <2>2, <2>3, <3>1 DEF Covered
      <3>3. ASSUME t.got = <<x, records[x].current>> PROVE FALSE
        <4>1. t.got[1] = x /\ t.got[2] = records[x].current
          BY <3>3
        <4>2. MayTransfer(records, x, records[x].current)
          BY <3>1 DEF LeftOf, ListByInstanceAndTenant, MayTransfer
        <4> QED
          BY <2>4, <3>1, <4>1, <4>2
      <3> QED
        BY <3>2, <3>3
    <2>6. Covered(v)'
      BY <2>1, <2>2, <2>3, <2>5 DEF Covered
    <2> QED
      BY <2>3, <2>6 DEF CutOK, LoopOnly, SecondPass
  <1>13. CASE v \notin threads /\ Pick(t)
    <2>1. PICK u : Becomes(t, u, t.code, "save", t.pass, t.ok) /\ SameWork(t, u)
      BY <1>0, <1>13, PickEffect
    <2>2. t.at = "pick" /\ v = u
      BY <1>3, <1>13, <2>1 DEF Pick
    <2>3. t.pass = 2
      BY <1>0, <2>2 DEF SecondPass
    <2> QED
      BY <1>2, <1>i, <2>1, <2>2, <2>3
  <1>14. CASE v \notin threads /\ Save(t)
    <2>1. PICK u : Becomes(t, u, t.code, "post", t.pass, t.ok) /\ SameWork(t, u)
      BY <1>0, <1>14, SaveEffect
    <2>2. t.at = "save" /\ v = u
      BY <1>3, <1>14, <2>1 DEF Save
    <2>3. t.pass = 2
      BY <1>0, <2>2 DEF SecondPass
    <2> QED
      BY <1>2, <1>i, <2>1, <2>2, <2>3
  <1>15. CASE v \notin threads /\ (SaveFails(t) \/ Post(t))
    <2>1. Leaves(t)
      BY <1>0, <1>15, LeavesBy DEF SaveFails, Post
    <2>2. PICK c \in Drivers : Begins(t.h, c, {t})
      BY <1>15, <2>1 DEF Leaves
    <2>3. Fresh(v, t.h, c)
      BY <1>15, <2>2 DEF Begins
    <2> QED
      BY <2>3 DEF Fresh, CutOK, LoopOnly, Idle, SecondPass, Covered
  <1> QED
    BY <1>1, <1>4, <1>5, <1>6, <1>7, <1>8, <1>9, <1>10, <1>11, <1>12, <1>13, <1>14, <1>15 DEF Step

LEMMA OtherCut ==
    ASSUME CutInv,
           \/ \E h \in Hotswaps, move \in Moves, auto \in AutoAdvance : RequestCheck(h, move, auto)
           \/ \E r \in requests : RequestCreate(r) \/ RequestFails(r)
           \/ \E h \in DOMAIN docs, code \in Calls : Call(h, code)
           \/ Crash \/ Resume \/ ResumeFails \/ UNCHANGED vars,
           Pending, NEW v \in threads'
    PROVE  CutOK(v)'
  <1>0. TypeOK /\ StoreOK /\ \A t \in threads : CutOK(t) /\ t.h \in DOMAIN docs
    BY TypeParts, ThreadParts DEF CutInv, TypeInv
  <1>1. records' = records
    BY DEF RequestCheck, RequestCreate, RequestFails, Call, Crash, Resume, ResumeFails, vars
  <1>2. \A x \in DOMAIN docs : docs'[x] = docs[x]
    <2>1. ASSUME NEW r \in requests, docs' = Created(r)
          PROVE  \A x \in DOMAIN docs : docs'[x] = docs[x]
      BY <1>0, <2>1, CreatedDocs DEF Pending
    <2>2. docs' = docs \/ \E r \in requests : docs' = Created(r)
      BY DEF RequestCheck, RequestCreate, RequestFails, Call, Crash, Resume, ResumeFails, vars
    <2> QED
      BY <2>1, <2>2
  <1>3. CASE v \in threads
    <2>1. CutOK(v) /\ v.h \in DOMAIN docs
      BY <1>0, <1>3
    <2>2. LeftOf(v.h)' = LeftOf(v.h)
      BY <1>1, <1>2, <2>1 DEF LeftOf
    <2> QED
      BY <1>1, <2>1, <2>2 DEF CutOK, LoopOnly, Idle, SecondPass, Covered
  <1>4. ASSUME NEW h, NEW c, Fresh(v, h, c), c \in Codes
        PROVE  CutOK(v)'
    <2>1. c = "cutover" => c \in Drivers
      BY CodeFacts
    <2> QED
      BY <1>4, <2>1 DEF Fresh, CutOK, LoopOnly, Idle, SecondPass, Covered
  <1>5. ASSUME NEW r \in requests, RequestCreate(r), v \notin threads
        PROVE  CutOK(v)'
    <2>1. /\ r.h \in Hotswaps /\ started \in [Hotswaps -> Nat] /\ {} \in SUBSET threads
          /\ (IF r.auto THEN {"quiesce"} ELSE {}) \in {{}} \cup {{c} : c \in Codes}
          /\ Go(r.h, IF r.auto THEN {"quiesce"} ELSE {}, {})
      BY <1>0, <1>5, CodeFacts DEF StoreOK, RequestCreate
    <2>2. \/ threads' = threads \ {}
          \/ \E c \in Codes : Begins(r.h, c, {})
      BY <2>1, GoEffect
    <2> QED
      BY <1>4, <1>5, <2>2 DEF Begins
  <1>6. ASSUME NEW h \in DOMAIN docs, NEW code \in Calls, Call(h, code), v \notin threads
        PROVE  CutOK(v)'
    <2>1. /\ h \in Hotswaps /\ code \in Codes /\ started \in [Hotswaps -> Nat]
          /\ {} \in SUBSET threads /\ {code} \in {{}} \cup {{c} : c \in Codes}
          /\ Go(h, {code}, {})
      BY <1>0, <1>6, XoluHotswapAssumption, CodeFacts DEF StoreOK, Call
    <2>2. \/ {code} = {} /\ threads' = threads \ {}
          \/ \E c \in Codes : {code} = {c} /\ Begins(h, c, {})
      BY <2>1, GoEffect
    <2> QED
      BY <1>4, <1>6, <2>2 DEF Begins
  <1>7. CASE Resume
    <2>1. PICK h \in Unfinished : \E c \in Resumed(docs[h]) : Fresh(v, h, c)
      BY <1>0, <1>7, ResumeEffect
    <2>2. PICK c \in Resumed(docs[h]) : Fresh(v, h, c)
      BY <2>1
    <2>3. c \in Codes
      <3>1. docs[h].state \in States
        BY <1>0 DEF Unfinished, StoreOK, Doc
      <3> QED
        BY <3>1, ResumedFacts, CodeFacts
    <2> QED
      BY <1>4, <2>2, <2>3
  <1>8. CASE \/ \E h \in Hotswaps, move \in Moves, auto \in AutoAdvance : RequestCheck(h, move, auto)
             \/ \E r \in requests : RequestFails(r)
             \/ Crash \/ ResumeFails \/ UNCHANGED vars
    <2>1. threads' \subseteq threads
      BY <1>8 DEF RequestCheck, RequestFails, Crash, ResumeFails, vars
    <2> QED
      BY <1>3, <2>1
  <1> QED
    BY <1>3, <1>5, <1>6, <1>7, <1>8

\* When the calls to xolu succeed and no tenant is both moved to and moved
\* from, driveCutover writes COMPLETE only when the source owns nothing of the
\* tenant any more: whoever else calls, and after any number of crashes.
THEOREM CompleteWhenMoved ==
    ASSUME Reliable, OneWay
    PROVE  Spec => CompleteMeansMoved
  <1> DEFINE Inv == CutInv /\ Pending
             Completes == \A h \in DOMAIN docs :
                          (docs'[h].state = "complete" /\ docs[h].state # "complete") => LeftOf(h) = {}
  <1>1. Init => Inv
    BY InitType DEF Init, CutInv, Pending
  <1>2. Inv /\ [Next]_vars => Inv'
    <2> SUFFICES ASSUME CutInv, Pending, [Next]_vars PROVE CutInv' /\ Pending'
      OBVIOUS
    <2>1. TypeInv /\ TypeInv'
      BY TypeNext DEF CutInv
    <2>2. \A v \in threads' : CutOK(v)'
      BY StepCut, OtherCut DEF Next
    <2>3. Pending'
      <3>1. CASE Next
        BY <2>1, <3>1, PendingNext
      <3>2. CASE UNCHANGED vars
        BY <3>2 DEF Pending, vars
      <3> QED
        BY <3>1, <3>2
    <2> QED
      BY <2>1, <2>2, <2>3 DEF CutInv
  <1>3. Inv /\ [Next]_vars => [Completes]_vars
    <2> SUFFICES ASSUME CutInv, Pending, Next, NEW h \in DOMAIN docs,
                        docs'[h].state = "complete", docs[h].state # "complete"
                 PROVE  LeftOf(h) = {}
      BY DEF vars
    <2>0. TypeOK /\ GetsLook
      BY DEF CutInv, TypeInv
    <2>1. PICK t \in threads : Step(t)
      <3>1. ASSUME NEW r \in requests, RequestCreate(r) \/ RequestFails(r) PROVE FALSE
        <4>1. docs' = docs \/ docs' = Created(r)
          BY <3>1 DEF RequestCreate, RequestFails
        <4>2. docs'[h].state \in {docs[h].state, "preparing"}
          BY <2>0, <4>1, CreatedDocs
        <4> QED
          BY <4>2
      <3>2. ASSUME docs' = docs PROVE FALSE
        BY <3>2
      <3> QED
        BY <3>1, <3>2 DEF Next, RequestCheck, Call, Crash, Resume, ResumeFails
    <2>2. Writes(t)
      BY <2>0, <2>1, StepFrame
    <2>3. t.at = "save" /\ docs' = Saved(t) /\ t.code \in Codes \ {"get"} /\ t.ok \in BOOLEAN
      BY <2>0, <2>2, ThreadParts DEF Writes, GetsLook, GetLooks
    <2>4. /\ h = t.h /\ NextState(t.code, t.ok) = "complete"
      BY <2>0, <2>3, SavedDocs
    <2>5. t.code = "cutover"
      BY <2>3, <2>4, NextStateFacts, CodeFacts
    <2>6. LoopOnly(t) /\ t.pass = 2 /\ Covered(t)
      BY <2>3 DEF CutInv, CutOK, SecondPass
    <2>7. t.todo = {} /\ t.got = <<>>
      BY <2>3, <2>6 DEF LoopOnly, Idle
    <2> QED
      BY <2>4, <2>5, <2>6, <2>7 DEF Covered
  <1>4. Spec => [][Completes]_vars
    BY <1>1, <1>2, <1>3, PTL DEF Spec
  <1> QED
    BY <1>4 DEF CompleteMeansMoved, LeftOf

-----------------------------------------------------------------------------
(* No hotswap is left alone, and the source stays blocked.                 *)

\* Operators wait until no goroutine works on the hotswap.
Patient == Impatient = {}

Alone == \A u, v \in threads : u.h = v.h => u = v

\* The states in which a thread may find its document.
Facing(code, pass) ==
    CASE code = "quiesce" -> IF pass = 1 THEN {"preparing", "quiescing"} ELSE {"quiescing"}
      [] code = "fail"    -> {"migrating"}
      [] code \in {"confirm", "abort", "get"} -> {"preparing", "complete", "failed"}
      [] OTHER -> Expected(code)

\* What a thread has loaded or picked is what there is.
InStep(t) ==
    /\ t.at \in {"load", "index"} => docs[t.h].state \in Facing(t.code, t.pass)
    /\ t.at \in {"call", "loop", "pick", "save"} =>
           docs[t.h].state \in Facing(t.code, t.pass) \cap Expected(t.code)
    /\ t.at = "index" => t.state = docs[t.h].state /\ t.loaded = docs[t.h].version
    /\ t.at = "pick" => index[t.h].version = docs[t.h].version
    /\ t.at = "save" => t.version = docs[t.h].version
    /\ t.at = "post" => docs[t.h].state = NextState(t.code, t.ok)

SoloInv == TypeInv /\ Pending /\ Alone /\ (\A t \in threads : InStep(t)) /\ NoOrphan

LEMMA FacingFacts ==
    ASSUME NEW pass
    PROVE  /\ Facing("quiesce", pass) = IF pass = 1 THEN {"preparing", "quiescing"} ELSE {"quiescing"}
           /\ Facing("migration", pass) = {"migrating"} /\ Facing("fail", pass) = {"migrating"}
           /\ Facing("validation", pass) = {"validating"} /\ Facing("cutover", pass) = {"cutting_over"}
           /\ Facing("rollback", pass) = {"rolling_back"}
           /\ Facing("confirm", pass) = {"preparing", "complete", "failed"}
           /\ Facing("abort", pass) = {"preparing", "complete", "failed"}
           /\ Facing("get", pass) = {"preparing", "complete", "failed"}
  BY ExpectedFacts DEF Facing

\* A thread that gives up leaves a document that waits or has ended; one that
\* does not goes on in a state that has not ended.
LEMMA GivesUp ==
    ASSUME NEW code \in Codes, NEW pass, NEW s \in Facing(code, pass)
    PROVE  /\ s \notin Expected(code) => s \in {"preparing", "complete", "failed"}
           /\ s \in Expected(code) => ~isTerminal(s)
           /\ s \in Expected(code) => s \in Facing(code, 2)
           /\ (s \in Expected(code) /\ code = "migration") => s \in Facing("fail", 2) \cap Expected("fail")
  <1>1. s \in Expected("abort") => ~isTerminal(s)
    BY ExpectedFacts
  <1>2. ~isTerminal(s) <=> s \notin {"complete", "failed"}
    BY DEF isTerminal
  <1> QED
    BY <1>1, <1>2, CodeFacts, FacingFacts, ExpectedFacts DEF States

\* The goroutine a thread starts finds the state it expects.
LEMMA HandOver ==
    ASSUME NEW code \in Codes \ {"get"}, NEW ok \in BOOLEAN
    PROVE  /\ NextDriver(code, ok) = {} => isTerminal(NextState(code, ok))
           /\ \A c \in NextDriver(code, ok) : NextState(code, ok) \in Facing(c, 1) /\ c \in Drivers
  BY CodeFacts, FacingFacts, NextStateFacts, NextDriverFacts DEF isTerminal

\* A stage changes its own document and its own entry of the index only.
LEMMA StepLocal ==
    ASSUME TypeInv, NEW t \in threads, Step(t)
    PROVE  /\ DOMAIN docs' = DOMAIN docs
           /\ \A x \in DOMAIN docs : /\ docs'[x].source = docs[x].source
                                     /\ x # t.h => docs'[x] = docs[x]
           /\ \A x \in DOMAIN index : x # t.h => index'[x] = index[x]
  <1>0. TypeOK /\ GetsLook /\ t.h \in DOMAIN docs
    BY ThreadParts DEF TypeInv
  <1>1. docs' = docs \/ Writes(t)
    BY <1>0, StepFrame
  <1>2. ASSUME Writes(t)
        PROVE  /\ DOMAIN docs' = DOMAIN docs
               /\ \A x \in DOMAIN docs : /\ docs'[x].source = docs[x].source
                                         /\ x # t.h => docs'[x] = docs[x]
    <2>1. t.code # "get" /\ docs' = Saved(t)
      BY <1>0, <1>2, SMTT(30) DEF GetsLook, GetLooks, Writes
    <2> QED
      BY <1>0, <2>1, SavedDocs
  <1>3. \/ index' = index
        \/ index' = Put(index, t.h, [version |-> t.loaded, ref |-> <<t.n, t.pass>>])
        \/ index' = [index EXCEPT ![t.h].version = AnsweredVersion]
    BY DEF Step, Load, LoadFails, Index, QuiesceCall, MigrationCall, ValidationCall, CutoverList,
           CutoverGet, CutoverTransfer, CutoverDone, RollbackCall, Pick, Save, SaveFails, Post
  <1>4. \A x \in DOMAIN index : x # t.h => index'[x] = index[x]
    BY <1>3 DEF Put
  <1>5. /\ DOMAIN docs' = DOMAIN docs
        /\ \A x \in DOMAIN docs : /\ docs'[x].source = docs[x].source
                                  /\ x # t.h => docs'[x] = docs[x]
    BY <1>1, <1>2
  <1> QED
    BY <1>4, <1>5

\* After a stage of t its hotswap still has a thread, or needs none.
Manned(h) ==
    \/ \E v \in threads : v.h = h
    \/ isTerminal(docs[h].state) \/ docs[h].state = "preparing"

LEMMA StepSolo ==
    ASSUME Reliable, SoloInv, NEW t \in threads, Step(t)
    PROVE  /\ \A v \in threads' : v \in threads \ {t} \/ InStep(v)'
           /\ Manned(t.h)'
  <1>0. /\ TypeInv /\ TypeOK /\ GetsLook /\ InStep(t) /\ t \in Threads /\ t.h \in DOMAIN docs
        /\ t.code \in Codes /\ t.ok \in BOOLEAN /\ t.pass \in {1, 2}
        /\ started \in [Hotswaps -> Nat] /\ {t} \in SUBSET threads /\ t.h \in Hotswaps
        /\ t.at \in {"pick", "save", "post"} => t.code # "get"
    BY ThreadParts DEF SoloInv, TypeInv, GetsLook, GetLooks
  <1>1. ASSUME NEW u, NEW code, NEW at, NEW pass, NEW ok, Becomes(t, u, code, at, pass, ok), InStep(u)'
        PROVE  /\ \A v \in threads' : v \in threads \ {t} \/ InStep(v)'
               /\ Manned(t.h)'
    BY <1>1 DEF Becomes, Manned
  \* The stages between the loads.
  <1>2. ASSUME NEW u, NEW code, NEW at, NEW ok, Becomes(t, u, code, at, IF at = "load" THEN 2 ELSE t.pass, ok),
               t.at \in {"call", "loop"}, at \in {"load", "loop"}, docs' = docs,
               code = t.code \/ (t.code = "migration" /\ code = "fail")
        PROVE  /\ \A v \in threads' : v \in threads \ {t} \/ InStep(v)'
               /\ Manned(t.h)'
    <2>1. u.h = t.h /\ u.code = code /\ u.at = at /\ u.pass = (IF at = "load" THEN 2 ELSE t.pass)
      BY <1>2 DEF Becomes
    <2>2. docs[t.h].state \in Facing(t.code, t.pass) /\ docs[t.h].state \in Expected(t.code)
      BY <1>0, <1>2 DEF InStep
    <2>3. docs[t.h].state \in Facing(t.code, 2)
      BY <1>0, <2>2, GivesUp
    <2>4. docs[t.h].state \in Facing(code, u.pass) /\ docs[t.h].state \in Expected(code)
      <3>1. CASE code = t.code
        BY <2>1, <2>2, <2>3, <3>1
      <3>2. CASE t.code = "migration" /\ code = "fail"
        BY <2>1, <2>2, <3>2, FacingFacts, ExpectedFacts DEF States
      <3> QED
        BY <1>2, <3>1, <3>2
    <2>5. InStep(u)'
      BY <1>2, <2>1, <2>4 DEF InStep
    <2> QED
      BY <1>1, <1>2, <2>5
  <1>3. CASE Load(t)
    <2>1. PICK u : /\ Becomes(t, u, t.code, "index", t.pass, t.ok)
                   /\ u.state = docs[t.h].state /\ u.loaded = docs[t.h].version
      BY <1>0, <1>3, LoadEffect
    <2>2. /\ u.h = t.h /\ u.code = t.code /\ u.at = "index" /\ u.pass = t.pass
          /\ docs' = docs /\ t.at = "load"
      BY <1>3, <2>1 DEF Becomes, Load
    <2>3. InStep(u)'
      BY <1>0, <2>1, <2>2 DEF InStep
    <2> QED
      BY <1>1, <2>1, <2>3
  <1>4. CASE LoadFails(t)
    BY <1>4 DEF LoadFails, Reliable
  <1>5. CASE Index(t)
    <2>1. /\ t.at = "index" /\ docs' = docs /\ t.state = docs[t.h].state /\ t.loaded = docs[t.h].version
          /\ docs[t.h].state \in Facing(t.code, t.pass)
          /\ index' = Put(index, t.h, [version |-> t.loaded, ref |-> <<t.n, t.pass>>])
      BY <1>0, <1>5 DEF Index, InStep
    <2>2. index'[t.h].version = docs[t.h].version
      BY <2>1 DEF Put
    <2>3. CASE /\ t.state \in Expected(t.code)
               /\ \E u : Becomes(t, u, t.code, IF t.pass = 1 THEN "call" ELSE "pick", t.pass, t.ok)
      <3>1. PICK u : Becomes(t, u, t.code, IF t.pass = 1 THEN "call" ELSE "pick", t.pass, t.ok)
        BY <2>3
      <3>2. u.h = t.h /\ u.code = t.code /\ u.at \in {"call", "pick"} /\ u.pass = t.pass
        BY <3>1 DEF Becomes
      <3>3. InStep(u)'
        BY <2>1, <2>2, <2>3, <3>2 DEF InStep
      <3> QED
        BY <1>1, <3>1, <3>3
    <2>4. CASE t.state \notin Expected(t.code) /\ threads' = threads \ {t}
      <3>1. docs[t.h].state \in {"preparing", "complete", "failed"}
        BY <1>0, <2>1, <2>4, GivesUp
      <3> QED
        BY <2>1, <2>4, <3>1 DEF Manned, isTerminal
    <2> QED
      BY <1>0, <1>5, <2>3, <2>4, IndexEffect
  <1>6. CASE QuiesceCall(t) \/ RollbackCall(t) \/ CutoverDone(t)
    <2>1. Continues(t, Reload(t)) /\ t.at \in {"call", "loop"} /\ docs' = docs
      BY <1>6 DEF QuiesceCall, RollbackCall, CutoverDone
    <2>2. PICK u : Becomes(t, u, t.code, "load", 2, t.ok)
      BY <1>0, <2>1, ReloadEffect
    <2> QED
      BY <1>2, <2>1, <2>2
  <1>7. ASSUME NEW ok \in BOOLEAN, MigrationCall(t, ok)
        PROVE  /\ \A v \in threads' : v \in threads \ {t} \/ InStep(v)'
               /\ Manned(t.h)'
    <2>1. t.code = "migration" /\ t.at = "call" /\ docs' = docs
      BY <1>7 DEF MigrationCall
    <2>2. PICK u : Becomes(t, u, IF ok THEN t.code ELSE "fail", "load", 2, t.ok)
      BY <1>0, <1>7, MigrationEffect
    <2> QED
      BY <1>2, <2>1, <2>2
  <1>8. ASSUME NEW ok \in BOOLEAN, ValidationCall(t, ok)
        PROVE  /\ \A v \in threads' : v \in threads \ {t} \/ InStep(v)'
               /\ Manned(t.h)'
    <2>1. t.at = "call" /\ docs' = docs
      BY <1>8 DEF ValidationCall
    <2>2. PICK u : Becomes(t, u, t.code, "load", 2, ok)
      BY <1>0, <1>8, ValidationEffect
    <2> QED
      BY <1>2, <2>1, <2>2
  <1>9. CASE CutoverList(t)
    <2>1. t.at = "call" /\ docs' = docs
      BY <1>9 DEF CutoverList
    <2>2. PICK u : Becomes(t, u, t.code, "loop", t.pass, t.ok)
      BY <1>0, <1>9, ListEffect
    <2> QED
      BY <1>2, <2>1, <2>2
  <1>10. ASSUME NEW g \in GlobalIDs, CutoverGet(t, g)
         PROVE  /\ \A v \in threads' : v \in threads \ {t} \/ InStep(v)'
                /\ Manned(t.h)'
    <2>1. t.at = "loop" /\ docs' = docs
      BY <1>10 DEF CutoverGet
    <2>2. PICK u : Becomes(t, u, t.code, t.at, t.pass, t.ok)
      BY <1>0, <1>10, GetEffect
    <2> QED
      BY <1>2, <2>1, <2>2
  <1>11. CASE CutoverTransfer(t)
    <2>1. t.at = "loop" /\ docs' = docs
      BY <1>11 DEF CutoverTransfer
    <2>2. PICK u : Becomes(t, u, t.code, t.at, t.pass, t.ok)
      BY <1>0, <1>11, TransferThread
    <2> QED
      BY <1>2, <2>1, <2>2
  <1>12. CASE Pick(t)
    <2>1. PICK u : /\ Becomes(t, u, t.code, "save", t.pass, t.ok)
                   /\ u.version = index[t.h].version
      BY <1>0, <1>12, PickEffect
    <2>2. /\ u.h = t.h /\ u.code = t.code /\ u.at = "save" /\ u.pass = t.pass
          /\ docs' = docs /\ t.at = "pick"
      BY <1>12, <2>1 DEF Becomes, Pick
    <2>3. InStep(u)'
      BY <1>0, <2>1, <2>2 DEF InStep
    <2> QED
      BY <1>1, <2>1, <2>3
  <1>13. CASE Save(t)
    <2>1. PICK u : Becomes(t, u, t.code, "post", t.pass, t.ok)
      BY <1>0, <1>13, SaveEffect
    <2>2. /\ u.h = t.h /\ u.code = t.code /\ u.at = "post" /\ u.ok = t.ok
          /\ docs' = Saved(t) /\ t.at = "save"
      BY <1>13, <2>1 DEF Becomes, Save
    <2>3. docs'[t.h].state = NextState(t.code, t.ok)
      BY <1>0, <2>2, SavedDocs
    <2>4. InStep(u)'
      BY <2>2, <2>3 DEF InStep
    <2> QED
      BY <1>1, <2>1, <2>4
  <1>14. CASE SaveFails(t)
    BY <1>0, <1>14 DEF SaveFails, Accepted, InStep, Reliable
  <1>15. CASE Post(t)
    <2>1. /\ t.at = "post" /\ docs' = docs /\ Go(t.h, NextDriver(t.code, t.ok), {t})
          /\ docs[t.h].state = NextState(t.code, t.ok) /\ t.code \in Codes \ {"get"}
      BY <1>0, <1>15 DEF Post, InStep
    <2>2. NextDriver(t.code, t.ok) \in {{}} \cup {{c} : c \in Codes}
      BY <1>0, <2>1, HeirFacts DEF Heirs, Codes
    <2>3. \/ NextDriver(t.code, t.ok) = {} /\ threads' = threads \ {t}
          \/ \E c \in Codes : NextDriver(t.code, t.ok) = {c} /\ Begins(t.h, c, {t})
      BY <1>0, <2>1, <2>2, GoEffect
    <2>4. CASE NextDriver(t.code, t.ok) = {} /\ threads' = threads \ {t}
      <3>1. isTerminal(docs[t.h].state)
        BY <1>0, <2>1, <2>4, HandOver
      <3> QED
        BY <2>1, <2>4, <3>1 DEF Manned
    <2>5. ASSUME NEW c \in Codes, NextDriver(t.code, t.ok) = {c}, Begins(t.h, c, {t})
          PROVE  /\ \A v \in threads' : v \in threads \ {t} \/ InStep(v)'
                 /\ Manned(t.h)'
      <3>1. PICK u : Fresh(u, t.h, c) /\ threads' = (threads \ {t}) \cup {u}
        BY <2>5 DEF Begins
      <3>2. docs[t.h].state \in Facing(c, 1) /\ c \in Drivers
        BY <1>0, <2>1, <2>5, HandOver
      <3>3. u.h = t.h /\ u.code = c /\ u.at = "load" /\ u.pass = 1
        BY <3>1, <3>2 DEF Fresh
      <3>4. InStep(u)'
        BY <2>1, <3>2, <3>3 DEF InStep
      <3> QED
        BY <3>1, <3>3, <3>4 DEF Manned
    <2> QED
      BY <2>3, <2>4, <2>5
  <1> QED
    BY <1>3, <1>4, <1>5, <1>6, <1>7, <1>8, <1>9, <1>10, <1>11, <1>12, <1>13, <1>14, <1>15 DEF Step

\* A thread stays in step while its document and its entry stay.
LEMMA StaysInStep ==
    ASSUME TypeOK, NEW u \in threads, InStep(u), docs'[u.h] = docs[u.h],
           u.h \in DOMAIN index => index'[u.h] = index[u.h]
    PROVE  InStep(u)'
  BY DEF TypeOK, InStep

LEMMA SoloStep ==
    ASSUME Reliable, SoloInv, NEW t \in threads, Step(t)
    PROVE  Alone' /\ (\A v \in threads' : InStep(v)') /\ NoOrphan'
  <1>0. /\ TypeInv /\ TypeOK /\ GetsLook /\ Alone /\ NoOrphan /\ t.h \in DOMAIN docs
        /\ \A u \in threads : InStep(u) /\ u.h \in DOMAIN docs
    BY ThreadParts DEF SoloInv, TypeInv
  <1>1. /\ \A v \in threads' : v \in threads \ {t} \/ InStep(v)'
        /\ Manned(t.h)'
    BY StepSolo
  <1>2. /\ DOMAIN docs' = DOMAIN docs /\ up' = up
        /\ \A x \in DOMAIN docs : x # t.h => docs'[x] = docs[x]
        /\ \A x \in DOMAIN index : x # t.h => index'[x] = index[x]
    BY <1>0, StepLocal, StepFrame
  <1>3. GoesOn(t) \/ Leaves(t)
    BY <1>0, StepShape
  <1>4. \/ threads' = threads \ {t}
        \/ \E u : threads' = (threads \ {t}) \cup {u} /\ u.h = t.h
    BY <1>3 DEF GoesOn, Leaves, Begins, Fresh
  <1>5. Alone'
    BY <1>0, <1>4 DEF Alone
  <1>6. \A v \in threads \ {t} : InStep(v)'
    <2> SUFFICES ASSUME NEW v \in threads \ {t} PROVE InStep(v)'
      OBVIOUS
    <2>1. v.h # t.h
      BY <1>0 DEF Alone
    <2> QED
      BY <1>0, <1>2, <2>1, StaysInStep
  <1>7. \A v \in threads' : InStep(v)'
    BY <1>1, <1>6
  <1>8. NoOrphan'
    <2> SUFFICES ASSUME up', NEW h \in DOMAIN docs', ~isTerminal(docs'[h].state),
                        docs'[h].state # "preparing"
                 PROVE  \E v \in threads' : v.h = h
      BY DEF NoOrphan
    <2>1. CASE h = t.h
      BY <1>1, <2>1 DEF Manned
    <2>2. CASE h # t.h
      <3>1. PICK v \in threads : v.h = h
        BY <1>0, <1>2, <2>2 DEF NoOrphan
      <3> QED
        BY <1>4, <2>2, <3>1
    <2> QED
      BY <2>1, <2>2
  <1> QED
    BY <1>5, <1>7, <1>8

\* Threads that stay, and at most one new one, of a hotswap that had none.
LEMMA Joins ==
    ASSUME Alone, \A u \in threads : InStep(u)', NEW h, NEW c, Begins(h, c, {}),
           \A u \in threads : u.h # h,
           docs'[h].state \in Facing(c, IF c \in Drivers THEN 1 ELSE 2)
    PROVE  Alone' /\ (\A v \in threads' : InStep(v)') /\ \E v \in threads' : v.h = h
  <1>1. PICK u : Fresh(u, h, c) /\ threads' = (threads \ {}) \cup {u}
    BY DEF Begins
  <1>2. u.h = h /\ u.code = c /\ u.at = "load" /\ u.pass = (IF c \in Drivers THEN 1 ELSE 2)
    BY <1>1 DEF Fresh
  <1>3. InStep(u)'
    BY <1>2 DEF InStep
  <1>4. Alone'
    BY <1>1, <1>2 DEF Alone
  <1> QED
    BY <1>1, <1>2, <1>3, <1>4

LEMMA SoloOther ==
    ASSUME Reliable, Patient, SoloInv,
           \/ \E h \in Hotswaps, move \in Moves, auto \in AutoAdvance : RequestCheck(h, move, auto)
           \/ \E r \in requests : RequestCreate(r) \/ RequestFails(r)
           \/ \E h \in DOMAIN docs, code \in Calls : Call(h, code)
           \/ Crash \/ Resume \/ ResumeFails \/ UNCHANGED vars
    PROVE  Alone' /\ (\A v \in threads' : InStep(v)') /\ NoOrphan'
  <1>0. /\ TypeInv /\ TypeOK /\ StoreOK /\ Alone /\ NoOrphan /\ Pending
        /\ \A u \in threads : InStep(u) /\ u.h \in DOMAIN docs
        /\ \A x \in DOMAIN docs : docs[x].state \in States
    BY ThreadParts, TypeParts DEF SoloInv, TypeInv, StoreOK, Doc
  <1>1. ASSUME UNCHANGED <<docs, index, threads, up>>
        PROVE  Alone' /\ (\A v \in threads' : InStep(v)') /\ NoOrphan'
    BY <1>0, <1>1 DEF Alone, InStep, NoOrphan
  <1>2. ASSUME NEW h \in Hotswaps, NEW move \in Moves, NEW auto \in AutoAdvance,
               RequestCheck(h, move, auto)
        PROVE  Alone' /\ (\A v \in threads' : InStep(v)') /\ NoOrphan'
    <2>1. UNCHANGED <<docs, index, threads, up>>
      BY <1>2 DEF RequestCheck
    <2> QED
      BY <1>1, <2>1
  <1>3. ASSUME NEW r \in requests, RequestCreate(r)
        PROVE  Alone' /\ (\A v \in threads' : InStep(v)') /\ NoOrphan'
    <2>1. /\ r.h \in Hotswaps /\ started \in [Hotswaps -> Nat] /\ {} \in SUBSET threads
          /\ (IF r.auto THEN {"quiesce"} ELSE {}) \in {{}} \cup {{c} : c \in Codes}
          /\ Go(r.h, IF r.auto THEN {"quiesce"} ELSE {}, {})
          /\ docs' = Created(r) /\ index' = Put(index, r.h, [version |-> AnsweredVersion, ref |-> <<0, 0>>]) /\ up' = up
      BY <1>0, <1>3, CodeFacts DEF StoreOK, RequestCreate
    <2>2. r.h \notin DOMAIN docs /\ \A u \in threads : u.h # r.h
      BY <1>0 DEF Pending
    <2>3. /\ DOMAIN docs' = DOMAIN docs \cup {r.h} /\ docs'[r.h].state = "preparing"
          /\ \A x \in DOMAIN docs : docs'[x] = docs[x]
      <3>1. /\ DOMAIN Created(r) = DOMAIN docs \cup {r.h} /\ Created(r)[r.h].state = "preparing"
            /\ \A x \in DOMAIN docs : x # r.h => Created(r)[x] = docs[x]
        BY <1>0, CreatedDocs
      <3>2. docs' = Created(r)
        BY <2>1
      <3> HIDE DEF Created
      <3> QED
        BY <2>2, <3>1, <3>2
    <2>4. \A x \in DOMAIN index : x # r.h => index'[x] = index[x]
      BY <2>1 DEF Put
    <2>5. \A u \in threads : InStep(u)'
      BY <1>0, <2>2, <2>3, <2>4, StaysInStep
    <2>6. \/ (IF r.auto THEN {"quiesce"} ELSE {}) = {} /\ threads' = threads \ {}
          \/ \E c \in Codes : (IF r.auto THEN {"quiesce"} ELSE {}) = {c} /\ Begins(r.h, c, {})
      BY <2>1, GoEffect
    <2>7. threads' = threads \/ Begins(r.h, "quiesce", {})
      BY <2>6
    <2>8. threads \subseteq threads'
      BY <2>7 DEF Begins
    <2>9. NoOrphan'
      BY <1>0, <2>1, <2>3, <2>8 DEF NoOrphan
    <2>10. CASE threads' = threads
      BY <1>0, <2>5, <2>9, <2>10 DEF Alone
    <2>11. CASE Begins(r.h, "quiesce", {})
      <3>1. docs'[r.h].state \in Facing("quiesce", IF "quiesce" \in Drivers THEN 1 ELSE 2)
        BY <2>3, CodeFacts, FacingFacts
      <3>2. Alone' /\ (\A v \in threads' : InStep(v)')
        BY <1>0, <2>2, <2>5, <2>11, <3>1, Joins
      <3> QED
        BY <2>9, <3>2
    <2> QED
      BY <2>7, <2>10, <2>11
  <1>4. ASSUME NEW r \in requests, RequestFails(r)
        PROVE  FALSE
    BY <1>4 DEF RequestFails, Reliable
  <1>5. ASSUME NEW h \in DOMAIN docs, NEW code \in Calls, Call(h, code)
        PROVE  Alone' /\ (\A v \in threads' : InStep(v)') /\ NoOrphan'
    <2>1. /\ h \in Hotswaps /\ code \in Codes /\ started \in [Hotswaps -> Nat]
          /\ {} \in SUBSET threads /\ {code} \in {{}} \cup {{c} : c \in Codes}
          /\ Go(h, {code}, {})
      BY <1>0, <1>5, XoluHotswapAssumption, CodeFacts DEF StoreOK, Call
    <2>2. \/ {code} = {} /\ threads' = threads \ {}
          \/ \E c \in Codes : {code} = {c} /\ Begins(h, c, {})
      BY <2>1, GoEffect
    <2>3. Begins(h, code, {})
      BY <2>2
    <2>4. UNCHANGED <<docs, index, up>> /\ up /\ \A u \in threads : u.h # h
      BY <1>5 DEF Call, Patient
    <2>5. docs[h].state \in {"preparing", "complete", "failed"}
      BY <1>0, <2>4 DEF NoOrphan, isTerminal
    <2>6. docs'[h].state \in Facing(code, IF code \in Drivers THEN 1 ELSE 2)
      BY <2>4, <2>5, XoluHotswapAssumption, FacingFacts
    <2>7. \A u \in threads : InStep(u)'
      BY <1>0, <2>4, StaysInStep
    <2>8. Alone' /\ (\A v \in threads' : InStep(v)')
      BY <1>0, <2>3, <2>4, <2>6, <2>7, Joins
    <2>9. threads \subseteq threads'
      BY <2>3 DEF Begins
    <2>10. NoOrphan'
      BY <1>0, <2>4, <2>9 DEF NoOrphan
    <2> QED
      BY <2>8, <2>10
  <1>6. CASE Crash
    BY <1>6 DEF Crash, Alone, NoOrphan
  <1>7. CASE Resume
    <2>1. /\ docs' = docs
          /\ \A u \in threads' : \E h \in Unfinished : \E c \in Resumed(docs[h]) : Fresh(u, h, c)
          /\ \A h \in Unfinished : \A c \in Resumed(docs[h]) : \E u \in threads' : Fresh(u, h, c)
          /\ \A u, v \in threads' : u.h = v.h => u = v
      BY <1>0, <1>7, ResumeEffect DEF Resume
    <2>2. ASSUME NEW v \in threads' PROVE InStep(v)'
      <3>1. PICK h \in Unfinished : \E c \in Resumed(docs[h]) : Fresh(v, h, c)
        BY <2>1, <2>2
      <3>2. PICK c \in Resumed(docs[h]) : Fresh(v, h, c)
        BY <3>1
      <3>3. h \in DOMAIN docs /\ docs[h].state \in States
        BY <1>0 DEF Unfinished
      <3>4. /\ c \in Drivers
            /\ docs[h].state \in Expected(c) \/ (docs[h].state = "preparing" /\ c = "quiesce")
        <4>1. \/ docs[h].state \in Expected(c) /\ c \in Drivers
              \/ docs[h].state = "preparing" /\ c = "quiesce"
          BY <3>3, ResumedFacts
        <4> QED
          BY <4>1, CodeFacts
      <3>5. docs[h].state \in Facing(c, 1)
        BY <3>4, CodeFacts, ExpectedFacts, FacingFacts
      <3>6. v.h = h /\ v.code = c /\ v.at = "load" /\ v.pass = 1
        BY <3>2, <3>4 DEF Fresh
      <3> QED
        BY <2>1, <3>5, <3>6 DEF InStep
    <2>3. NoOrphan'
      <3> SUFFICES ASSUME NEW h \in DOMAIN docs, ~isTerminal(docs[h].state), docs[h].state # "preparing"
                   PROVE  \E v \in threads' : v.h = h
        BY <2>1 DEF NoOrphan
      <3>1. h \in Unfinished /\ docs[h].state \in States
        BY <1>0 DEF Unfinished
      <3>2. docs[h].state \in {"quiescing", "migrating", "validating", "cutting_over", "rolling_back"}
        BY <3>1 DEF States, isTerminal
      <3>3. PICK c : c \in Resumed(docs[h])
        BY <3>1, <3>2, ResumedFacts
      <3>4. PICK v \in threads' : Fresh(v, h, c)
        BY <2>1, <3>1, <3>3
      <3> QED
        BY <3>4 DEF Fresh
    <2> QED
      BY <2>1, <2>2, <2>3 DEF Alone
  <1>8. CASE ResumeFails
    BY <1>8 DEF ResumeFails, Reliable
  <1>9. CASE UNCHANGED vars
    BY <1>1, <1>9 DEF vars
  <1> QED
    BY <1>2, <1>3, <1>4, <1>5, <1>6, <1>7, <1>8, <1>9

LEMMA SoloInit == Init => SoloInv
  <1> SUFFICES ASSUME Init PROVE SoloInv
    OBVIOUS
  <1>1. TypeInv
    BY InitType
  <1>2. Pending /\ Alone /\ NoOrphan /\ threads = {}
    BY DEF Init, Pending, Alone, NoOrphan
  <1> QED
    BY <1>1, <1>2 DEF SoloInv

LEMMA SoloNext ==
    ASSUME Reliable, Patient, SoloInv, [Next]_vars
    PROVE  SoloInv'
  <1>1. TypeInv' /\ TypeInv /\ Pending
    BY TypeNext DEF SoloInv
  <1>2. Pending'
    <2>1. CASE Next
      BY <1>1, <2>1, PendingNext
    <2>2. CASE UNCHANGED vars
      BY <1>1, <2>2 DEF Pending, vars
    <2> QED
      BY <2>1, <2>2
  <1>3. Alone' /\ (\A v \in threads' : InStep(v)') /\ NoOrphan'
    BY SoloStep, SoloOther DEF Next
  <1> QED
    BY <1>1, <1>2, <1>3 DEF SoloInv

\* When the calls to xolu succeed and operators wait for the goroutines, every
\* hotswap between PREPARING and its end has one that takes it further,
\* whenever nolu is up: also after any number of crashes, by Resume.
THEOREM NobodyLeftAlone ==
    ASSUME Reliable, Patient
    PROVE  Spec => []NoOrphan
  <1>1. SoloInv /\ [Next]_vars => SoloInv'
    BY SoloNext
  <1>2. SoloInv => NoOrphan
    BY DEF SoloInv
  <1> QED
    BY SoloInit, <1>1, <1>2, PTL DEF Spec

-----------------------------------------------------------------------------
(* The source refuses writes while data moves.                             *)

Asked(r) == <<r.move.source.instance, r.move.source.name>>

\* Request is not called for a tenant while it is being called for it: between
\* the query for an active hotswap and the creation of the document nothing
\* keeps the two apart.
RequestsApart == \A r, q \in requests : Asked(r) = Asked(q) => r = q

OneActive ==
    \A x, y \in DOMAIN docs :
        (SourceTenant(x) = SourceTenant(y) /\ ~isTerminal(docs[x].state) /\ ~isTerminal(docs[y].state))
            => x = y

\* The query of a Request has found no active hotswap, and there is none yet.
Clear ==
    \A r \in requests : \A x \in DOMAIN docs :
        SourceTenant(x) = Asked(r) => isTerminal(docs[x].state)

InPlace(t) == SecondPass(t) /\ (t.at = "loop" => t.code = "cutover")

\* driveQuiesce has called the source before it loads the document again.
Called(t) ==
    /\ InPlace(t)
    /\ t.code = "quiesce" /\ t.pass = 2 => SourceTenant(t.h) \in quiesced

BlockedInv ==
    /\ SoloInv /\ OneActive /\ Clear
    /\ \A t \in threads : Called(t)
    /\ WritesBlockedWhileMoving

\* Who comes to the second pass of driveQuiesce, and how.
Comes(t, v) ==
    /\ InPlace(v)
    /\ v.code = "quiesce" /\ v.pass = 2 =>
           v.h = t.h /\ t.code = "quiesce" /\ (t.pass = 2 \/ QuiesceCall(t))

LEMMA StepComes ==
    ASSUME TypeInv, NEW t \in threads, InPlace(t), Step(t)
    PROVE  \A v \in threads' : v \in threads \ {t} \/ Comes(t, v)
  <1>0. /\ TypeOK /\ GetsLook /\ t.pass \in {1, 2} /\ started \in [Hotswaps -> Nat] /\ t.h \in Hotswaps
    BY ThreadParts DEF TypeInv
  <1>1. ASSUME NEW u, NEW code, NEW at, NEW pass, NEW ok, Becomes(t, u, code, at, pass, ok),
               at \in {"pick", "save", "post"} => pass = 2, at = "loop" => code = "cutover",
               code = "quiesce" /\ pass = 2 => t.code = "quiesce" /\ (t.pass = 2 \/ QuiesceCall(t))
        PROVE  \A v \in threads' : v \in threads \ {t} \/ Comes(t, v)
    BY <1>1 DEF Becomes, Comes, InPlace, SecondPass
  <1>2. ASSUME threads' = threads \ {t} \/ Leaves(t)
        PROVE  \A v \in threads' : v \in threads \ {t} \/ Comes(t, v)
    BY <1>2 DEF Leaves, Begins, Fresh, Comes, InPlace, SecondPass
  <1>3. CASE Load(t)
    BY <1>0, <1>1, <1>3, LoadEffect
  <1>4. CASE LoadFails(t)
    <2>1. threads' = threads \ {t}
      BY <1>0, <1>4, ReturnsEffect DEF LoadFails
    <2> QED
      BY <1>2, <2>1
  <1>5. CASE Index(t)
    <2>1. /\ (IF t.pass = 1 THEN "call" ELSE "pick") \in {"pick", "save", "post"} => t.pass = 2
          /\ (IF t.pass = 1 THEN "call" ELSE "pick") # "loop"
      BY <1>0
    <2>2. \/ threads' = threads \ {t}
          \/ \E u : Becomes(t, u, t.code, IF t.pass = 1 THEN "call" ELSE "pick", t.pass, t.ok)
      BY <1>0, <1>5, IndexEffect
    <2> QED
      BY <1>1, <1>2, <2>1, <2>2
  <1>6. CASE QuiesceCall(t) \/ RollbackCall(t) \/ CutoverDone(t)
    <2>1. Continues(t, Reload(t)) /\ (t.code = "quiesce" => QuiesceCall(t))
      BY <1>6 DEF QuiesceCall, RollbackCall, CutoverDone, InPlace
    <2>2. PICK u : Becomes(t, u, t.code, "load", 2, t.ok)
      BY <1>0, <2>1, ReloadEffect
    <2> QED
      BY <1>1, <2>1, <2>2
  <1>7. ASSUME NEW ok \in BOOLEAN, MigrationCall(t, ok)
        PROVE  \A v \in threads' : v \in threads \ {t} \/ Comes(t, v)
    <2>1. t.code = "migration"
      BY <1>7 DEF MigrationCall
    <2>2. PICK u : Becomes(t, u, IF ok THEN t.code ELSE "fail", "load", 2, t.ok)
      BY <1>0, <1>7, MigrationEffect
    <2>3. (IF ok THEN t.code ELSE "fail") # "quiesce"
      BY <2>1
    <2> QED
      BY <1>1, <2>2, <2>3
  <1>8. ASSUME NEW ok \in BOOLEAN, ValidationCall(t, ok)
        PROVE  \A v \in threads' : v \in threads \ {t} \/ Comes(t, v)
    <2>1. t.code = "validation"
      BY <1>8 DEF ValidationCall
    <2>2. PICK u : Becomes(t, u, t.code, "load", 2, ok)
      BY <1>0, <1>8, ValidationEffect
    <2> QED
      BY <1>1, <2>1, <2>2
  <1>9. CASE CutoverList(t)
    <2>1. t.code = "cutover"
      BY <1>9 DEF CutoverList
    <2> QED
      BY <1>0, <1>1, <1>9, <2>1, ListEffect
  <1>10. ASSUME NEW g \in GlobalIDs, CutoverGet(t, g)
         PROVE  \A v \in threads' : v \in threads \ {t} \/ Comes(t, v)
    <2>1. t.at = "loop" /\ t.code = "cutover"
      BY <1>10 DEF CutoverGet, InPlace
    <2> QED
      BY <1>0, <1>1, <1>10, <2>1, GetEffect
  <1>11. CASE CutoverTransfer(t)
    <2>1. t.at = "loop" /\ t.code = "cutover"
      BY <1>11 DEF CutoverTransfer, InPlace
    <2> QED
      BY <1>0, <1>1, <1>11, <2>1, TransferThread
  <1>12. CASE Pick(t)
    <2>1. t.pass = 2
      BY <1>12 DEF Pick, InPlace, SecondPass
    <2> QED
      BY <1>0, <1>1, <1>12, <2>1, PickEffect
  <1>13. CASE Save(t)
    <2>1. t.pass = 2
      BY <1>13 DEF Save, InPlace, SecondPass
    <2> QED
      BY <1>0, <1>1, <1>13, <2>1, SaveEffect
  <1>14. CASE SaveFails(t) \/ Post(t)
    <2>1. Leaves(t)
      BY <1>0, <1>14, LeavesBy, SMTT(30) DEF SaveFails, Post
    <2> QED
      BY <1>2, <2>1
  <1> QED
    BY <1>3, <1>4, <1>5, <1>6, <1>7, <1>8, <1>9, <1>10, <1>11, <1>12, <1>13, <1>14 DEF Step

\* Only driveQuiesce blocks the source and only driveRollback unblocks it.
LEMMA QuiescedEffect ==
    ASSUME NEW t \in threads, Step(t), Reliable
    PROVE  \/ quiesced' = quiesced /\ ~QuiesceCall(t)
           \/ QuiesceCall(t) /\ quiesced' = quiesced \cup {SourceTenant(t.h)}
           \/ RollbackCall(t) /\ quiesced' = quiesced \ {SourceTenant(t.h)} /\ ~QuiesceCall(t)
  BY DEF Step, Load, LoadFails, Index, QuiesceCall, MigrationCall, ValidationCall, CutoverList,
         CutoverGet, CutoverTransfer, CutoverDone, RollbackCall, Pick, Save, SaveFails, Post, Reliable

\* An ended hotswap has no driveQuiesce in its second pass.
LEMMA QuiesceIsActive ==
    ASSUME TypeOK, NEW t \in threads, InStep(t), t.code = "quiesce", t.pass = 2
    PROVE  ~isTerminal(docs[t.h].state)
  <1>1. t.at \in {"load", "index", "call", "loop", "pick", "save", "post"} /\ t.ok \in BOOLEAN
    BY ThreadParts DEF Threads
  <1>2. docs[t.h].state \in {"quiescing", "migrating"}
    BY <1>1, FacingFacts, NextStateFacts DEF InStep
  <1> QED
    BY <1>2 DEF isTerminal

\* An ended hotswap stays ended, and a moving one was moving or is moved on by
\* its driver.
LEMMA StateSteps ==
    ASSUME SoloInv, NEW t \in threads, Step(t), NEW x \in DOMAIN docs
    PROVE  /\ isTerminal(docs[x].state) => docs'[x] = docs[x]
           /\ docs'[x].state \in {"migrating", "validating", "cutting_over"} =>
                  \/ docs[x].state \in {"migrating", "validating", "cutting_over"}
                  \/ x = t.h /\ t.code = "quiesce" /\ t.at = "save"
  <1>0. /\ TypeInv /\ TypeOK /\ GetsLook /\ InStep(t) /\ t.code \in Codes /\ t.ok \in BOOLEAN
        /\ t.h \in DOMAIN docs
    BY ThreadParts DEF SoloInv, TypeInv
  <1>1. docs' = docs \/ Writes(t)
    BY <1>0, StepFrame
  <1>2. CASE docs' = docs
    BY <1>2
  <1>3. CASE Writes(t) /\ x # t.h
    <2>1. docs'[x] = docs[x]
      BY <1>0, <1>3, StepLocal
    <2> QED
      BY <2>1
  <1>4. CASE Writes(t) /\ x = t.h
    <2>1. t.at = "save" /\ docs' = Saved(t) /\ t.code \in Codes \ {"get"}
      BY <1>0, <1>4 DEF Writes, GetsLook, GetLooks
    <2>2. docs[x].state \in Facing(t.code, t.pass) /\ docs[x].state \in Expected(t.code)
      BY <1>0, <1>4, <2>1 DEF InStep
    <2>3. ~isTerminal(docs[x].state)
      BY <1>0, <2>2, GivesUp
    <2>4. docs'[x].state = NextState(t.code, t.ok)
      BY <1>0, <1>4, <2>1, SavedDocs
    <2>5. NextState(t.code, t.ok) \in {"migrating", "validating", "cutting_over"} =>
              t.code \in {"quiesce", "migration", "validation"}
      BY <1>0, <2>1, NextStateFacts, CodeFacts
    <2>6. t.code \in {"migration", "validation"} =>
              docs[x].state \in {"migrating", "validating", "cutting_over"}
      BY <2>2, ExpectedFacts
    <2> QED
      BY <1>4, <2>1, <2>3, <2>4, <2>5, <2>6
  <1> QED
    BY <1>1, <1>2, <1>3, <1>4

LEMMA BlockedStep ==
    ASSUME Reliable, BlockedInv, NEW t \in threads, Step(t)
    PROVE  /\ OneActive' /\ Clear' /\ (\A v \in threads' : Called(v)')
           /\ WritesBlockedWhileMoving'
  <1>0. /\ SoloInv /\ TypeInv /\ TypeOK /\ OneActive /\ Clear /\ WritesBlockedWhileMoving /\ Alone
        /\ \A u \in threads : Called(u) /\ InStep(u) /\ u.h \in DOMAIN docs
    BY ThreadParts DEF BlockedInv, SoloInv, TypeInv
  <1>1. /\ DOMAIN docs' = DOMAIN docs /\ requests' = requests
        /\ \A x \in DOMAIN docs : docs'[x].source = docs[x].source
    BY <1>0, StepLocal, StepFrame
  <1>2. \A x \in DOMAIN docs : SourceTenant(x)' = SourceTenant(x)
    BY <1>1 DEF SourceTenant
  <1>3. \A x \in DOMAIN docs : isTerminal(docs[x].state) => isTerminal(docs'[x].state)
    BY <1>0, StateSteps
  <1>4. OneActive'
    BY <1>0, <1>1, <1>2, <1>3 DEF OneActive
  <1>5. Clear'
    BY <1>0, <1>1, <1>2, <1>3 DEF Clear, Asked
  \* What stays blocked.
  <1>6. ASSUME NEW x \in DOMAIN docs, ~isTerminal(docs[x].state), SourceTenant(x) \in quiesced,
               SourceTenant(x)' \notin quiesced'
        PROVE  x = t.h /\ RollbackCall(t)
    <2>1. RollbackCall(t) /\ SourceTenant(x) = SourceTenant(t.h)
      BY <1>2, <1>6, QuiescedEffect
    <2>2. docs[t.h].state \in Expected("rollback")
      BY <1>0, <2>1 DEF RollbackCall, InStep
    <2>3. ~isTerminal(docs[t.h].state)
      BY <2>2, ExpectedFacts DEF isTerminal
    <2> QED
      BY <1>0, <1>6, <2>1, <2>3 DEF OneActive
  <1>r. RollbackCall(t) => docs[t.h].state = "rolling_back" /\ t.code = "rollback" /\ docs' = docs
    BY <1>0, ExpectedFacts DEF RollbackCall, InStep
  <1>7. ASSUME NEW v \in threads' PROVE Called(v)'
    <2>1. v \in threads \ {t} \/ Comes(t, v)
      BY <1>0, <1>7, StepComes DEF Called
    <2>2. InPlace(v) /\ (v.code = "quiesce" /\ v.pass = 2 => SourceTenant(v.h)' \in quiesced')
      <3>1. CASE v \in threads \ {t}
        <4>1. Called(v) /\ InStep(v) /\ v.h \in DOMAIN docs /\ v.h # t.h
          BY <1>0, <3>1 DEF Alone
        <4>2. ASSUME v.code = "quiesce", v.pass = 2 PROVE SourceTenant(v.h)' \in quiesced'
          <5>1. ~isTerminal(docs[v.h].state)
            BY <1>0, <3>1, <4>1, <4>2, QuiesceIsActive
          <5>2. SourceTenant(v.h) \in quiesced
            BY <4>1, <4>2 DEF Called
          <5> QED
            BY <1>6, <4>1, <5>1, <5>2
        <4> QED
          BY <4>1, <4>2 DEF Called
      <3>2. CASE Comes(t, v)
        <4>1. ASSUME v.code = "quiesce", v.pass = 2 PROVE SourceTenant(v.h)' \in quiesced'
          <5>1. v.h = t.h /\ t.code = "quiesce" /\ (t.pass = 2 \/ QuiesceCall(t)) /\ t.h \in DOMAIN docs
            BY <1>0, <3>2, <4>1 DEF Comes
          <5>2. CASE QuiesceCall(t)
            <6>1. quiesced' = quiesced \cup {SourceTenant(t.h)}
              BY <5>2, QuiescedEffect
            <6> QED
              BY <1>2, <5>1, <6>1
          <5>3. CASE t.pass = 2
            <6>1. ~isTerminal(docs[t.h].state) /\ SourceTenant(t.h) \in quiesced
              BY <1>0, <5>1, <5>3, QuiesceIsActive DEF Called
            <6>2. ~RollbackCall(t)
              BY <5>1 DEF RollbackCall
            <6> QED
              BY <1>6, <5>1, <6>1, <6>2
          <5> QED
            BY <5>1, <5>2, <5>3
        <4> QED
          BY <3>2, <4>1 DEF Comes
      <3> QED
        BY <2>1, <3>1, <3>2
    <2> QED
      BY <2>2 DEF Called, InPlace, SecondPass
  <1>8. WritesBlockedWhileMoving'
    <2> SUFFICES ASSUME NEW x \in DOMAIN docs,
                        docs'[x].state \in {"migrating", "validating", "cutting_over"}
                 PROVE  SourceTenant(x)' \in quiesced'
      BY <1>1 DEF WritesBlockedWhileMoving
    <2>1. \/ docs[x].state \in {"migrating", "validating", "cutting_over"}
          \/ x = t.h /\ t.code = "quiesce" /\ t.at = "save"
      BY <1>0, StateSteps
    <2>2. ~isTerminal(docs[x].state)
      BY <1>3 DEF isTerminal
    <2>3. SourceTenant(x) \in quiesced
      <3>1. CASE docs[x].state \in {"migrating", "validating", "cutting_over"}
        BY <1>0, <3>1 DEF WritesBlockedWhileMoving
      <3>2. CASE x = t.h /\ t.code = "quiesce" /\ t.at = "save"
        BY <1>0, <3>2 DEF Called, InPlace, SecondPass
      <3> QED
        BY <2>1, <3>1, <3>2
    <2>4. ~(x = t.h /\ RollbackCall(t))
      BY <1>r, <2>1
    <2> QED
      BY <1>6, <2>2, <2>3, <2>4
  <1> QED
    BY <1>4, <1>5, <1>7, <1>8

LEMMA BlockedOther ==
    ASSUME Reliable, BlockedInv, RequestsApart,
           \/ \E h \in Hotswaps, move \in Moves, auto \in AutoAdvance : RequestCheck(h, move, auto)
           \/ \E r \in requests : RequestCreate(r) \/ RequestFails(r)
           \/ \E h \in DOMAIN docs, code \in Calls : Call(h, code)
           \/ Crash \/ Resume \/ ResumeFails \/ UNCHANGED vars
    PROVE  /\ OneActive' /\ Clear' /\ (\A v \in threads' : Called(v)')
           /\ WritesBlockedWhileMoving'
  <1>0. /\ SoloInv /\ TypeInv /\ TypeOK /\ StoreOK /\ Pending /\ OneActive /\ Clear
        /\ WritesBlockedWhileMoving
        /\ \A u \in threads : Called(u) /\ u.h \in DOMAIN docs
    BY ThreadParts, TypeParts DEF BlockedInv, SoloInv, TypeInv
  <1>1. quiesced' = quiesced
    BY DEF RequestCheck, RequestCreate, RequestFails, Call, Crash, Resume, ResumeFails, vars
  <1>2. \A x \in DOMAIN docs : docs'[x] = docs[x] /\ x \in DOMAIN docs'
    <2>1. ASSUME NEW r \in requests, docs' = Created(r)
          PROVE  \A x \in DOMAIN docs : docs'[x] = docs[x] /\ x \in DOMAIN docs'
      BY <1>0, <2>1, CreatedDocs DEF Pending
    <2>2. docs' = docs \/ \E r \in requests : docs' = Created(r)
      BY DEF RequestCheck, RequestCreate, RequestFails, Call, Crash, Resume, ResumeFails, vars
    <2> QED
      BY <2>1, <2>2
  <1>3. \A x \in DOMAIN docs : SourceTenant(x)' = SourceTenant(x)
    BY <1>2 DEF SourceTenant
  <1>4. ASSUME docs' = docs PROVE OneActive' /\ WritesBlockedWhileMoving'
    BY <1>0, <1>1, <1>4 DEF OneActive, WritesBlockedWhileMoving, SourceTenant
  <1>5. ASSUME docs' = docs, requests' \subseteq requests PROVE Clear'
    BY <1>0, <1>5 DEF Clear, Asked, SourceTenant
  <1>6. ASSUME NEW v \in threads PROVE Called(v)'
    <2>1. Called(v) /\ SourceTenant(v.h)' = SourceTenant(v.h)
      BY <1>0, <1>3
    <2> QED
      BY <1>1, <2>1 DEF Called, InPlace, SecondPass
  <1>7. ASSUME NEW v, NEW h, NEW c, Fresh(v, h, c) PROVE Called(v)'
    <2>1. "quiesce" \in Drivers
      BY CodeFacts
    <2> QED
      BY <1>7, <2>1 DEF Fresh, Called, InPlace, SecondPass
  <1>8. \A v \in threads' : Called(v)'
    <2>1. ASSUME NEW r \in requests, RequestCreate(r)
          PROVE  \A v \in threads' : Called(v)'
      <3>1. /\ r.h \in Hotswaps /\ started \in [Hotswaps -> Nat] /\ {} \in SUBSET threads
            /\ (IF r.auto THEN {"quiesce"} ELSE {}) \in {{}} \cup {{c} : c \in Codes}
            /\ Go(r.h, IF r.auto THEN {"quiesce"} ELSE {}, {})
        BY <1>0, <2>1, CodeFacts DEF StoreOK, RequestCreate
      <3>2. \/ threads' = threads \ {}
            \/ \E c \in Codes : Begins(r.h, c, {})
        BY <3>1, GoEffect
      <3> QED
        BY <1>6, <1>7, <3>2 DEF Begins
    <2>2. ASSUME NEW h \in DOMAIN docs, NEW code \in Calls, Call(h, code)
          PROVE  \A v \in threads' : Called(v)'
      <3>1. /\ h \in Hotswaps /\ code \in Codes /\ started \in [Hotswaps -> Nat]
            /\ {} \in SUBSET threads /\ {code} \in {{}} \cup {{c} : c \in Codes}
            /\ Go(h, {code}, {})
        BY <1>0, <2>2, XoluHotswapAssumption, CodeFacts DEF StoreOK, Call
      <3>2. \/ {code} = {} /\ threads' = threads \ {}
            \/ \E c \in Codes : {code} = {c} /\ Begins(h, c, {})
        BY <3>1, GoEffect
      <3> QED
        BY <1>6, <1>7, <3>2 DEF Begins
    <2>3. CASE Resume
      <3>1. \A u \in threads' : \E h \in Unfinished : \E c \in Resumed(docs[h]) : Fresh(u, h, c)
        BY <1>0, <2>3, ResumeEffect
      <3> QED
        BY <1>7, <3>1
    <2>4. CASE \/ \E h \in Hotswaps, move \in Moves, auto \in AutoAdvance : RequestCheck(h, move, auto)
               \/ \E r \in requests : RequestFails(r)
               \/ Crash \/ ResumeFails \/ UNCHANGED vars
      <3>1. threads' \subseteq threads
        BY <2>4 DEF RequestCheck, RequestFails, Crash, ResumeFails, vars
      <3> QED
        BY <1>6, <3>1
    <2> QED
      BY <2>1, <2>2, <2>3, <2>4
  <1>9. OneActive' /\ Clear' /\ WritesBlockedWhileMoving'
    <2>1. ASSUME NEW h \in Hotswaps, NEW move \in Moves, NEW auto \in AutoAdvance,
                 RequestCheck(h, move, auto)
          PROVE  OneActive' /\ Clear' /\ WritesBlockedWhileMoving'
      <3> DEFINE new == [h |-> h, move |-> move, auto |-> auto]
      <3>1. docs' = docs /\ requests' = requests \cup {new}
        BY <2>1 DEF RequestCheck
      <3>2. Asked(new) = <<move.source.instance, move.source.name>>
        BY DEF Asked
      <3>3. \A x \in DOMAIN docs : SourceTenant(x) = Asked(new) => isTerminal(docs[x].state)
        BY <2>1, <3>2 DEF RequestCheck, Reliable
      <3> HIDE DEF new
      <3>4. Clear'
        BY <1>0, <1>3, <3>1, <3>3 DEF Clear, Asked
      <3> QED
        BY <1>4, <3>1, <3>4
    <2>2. ASSUME NEW r \in requests, RequestCreate(r)
          PROVE  OneActive' /\ Clear' /\ WritesBlockedWhileMoving'
      <3>1. docs' = Created(r) /\ requests' = requests \ {r}
        BY <2>2 DEF RequestCreate
      <3>2. /\ DOMAIN docs' = DOMAIN docs \cup {r.h} /\ docs'[r.h].state = "preparing"
            /\ docs'[r.h].source = r.move.source /\ r.h \notin DOMAIN docs
        BY <1>0, <3>1, CreatedDocs DEF Pending
      <3>3. SourceTenant(r.h)' = Asked(r)
        BY <3>2 DEF SourceTenant, Asked
      <3>4. \A x \in DOMAIN docs : SourceTenant(x)' = Asked(r) => isTerminal(docs'[x].state)
        BY <1>0, <1>2, <1>3 DEF Clear
      <3>5. OneActive'
        BY <1>0, <1>2, <1>3, <3>2, <3>3, <3>4 DEF OneActive
      <3>6. \A q \in requests' : Asked(q) # Asked(r)
        BY <3>1 DEF RequestsApart
      <3>7. Clear'
        <4> SUFFICES ASSUME NEW q \in requests', NEW x \in DOMAIN docs', SourceTenant(x)' = Asked(q)
                     PROVE  isTerminal(docs'[x].state)
          BY DEF Clear, Asked
        <4>1. x # r.h
          BY <3>3, <3>6
        <4>2. x \in DOMAIN docs /\ q \in requests
          BY <3>1, <3>2, <4>1
        <4> QED
          BY <1>0, <1>2, <1>3, <4>2 DEF Clear
      <3>8. WritesBlockedWhileMoving'
        BY <1>0, <1>1, <1>2, <1>3, <3>2 DEF WritesBlockedWhileMoving
      <3> QED
        BY <3>5, <3>7, <3>8
    <2>3. ASSUME NEW r \in requests, RequestFails(r) PROVE FALSE
      BY <2>3 DEF RequestFails, Reliable
    <2>4. CASE (\E h \in DOMAIN docs, code \in Calls : Call(h, code)) \/ Crash \/ Resume \/ ResumeFails
               \/ UNCHANGED vars
      <3>1. docs' = docs /\ requests' \subseteq requests
        BY <2>4 DEF Call, Crash, Resume, ResumeFails, vars
      <3> QED
        BY <1>4, <1>5, <3>1
    <2> QED
      BY <2>1, <2>2, <2>3, <2>4
  <1> QED
    BY <1>8, <1>9

LEMMA BlockedAlways ==
    ASSUME Reliable, Patient
    PROVE  Spec /\ []RequestsApart => []BlockedInv
  <1>1. Init => BlockedInv
    <2> SUFFICES ASSUME Init PROVE BlockedInv
      OBVIOUS
    <2>1. SoloInv /\ threads = {} /\ requests = {} /\ DOMAIN docs = {}
      BY SoloInit DEF Init
    <2>2. OneActive /\ Clear /\ WritesBlockedWhileMoving
      BY <2>1 DEF OneActive, Clear, WritesBlockedWhileMoving
    <2> QED
      BY <2>1, <2>2 DEF BlockedInv
  <1>2. BlockedInv /\ RequestsApart /\ [Next]_vars => BlockedInv'
    <2> SUFFICES ASSUME BlockedInv, RequestsApart, [Next]_vars PROVE BlockedInv'
      OBVIOUS
    <2>1. SoloInv'
      BY SoloNext DEF BlockedInv
    <2>2. /\ OneActive' /\ Clear' /\ (\A v \in threads' : Called(v)')
          /\ WritesBlockedWhileMoving'
      BY BlockedStep, BlockedOther DEF Next
    <2> QED
      BY <2>1, <2>2 DEF BlockedInv
  <1> QED
    BY <1>1, <1>2, PTL DEF Spec

\* When, besides, Request is not called twice at once for a tenant, its query
\* for an active hotswap is enough: a tenant has at most one active hotswap.
THEOREM OneActivePerTenant ==
    ASSUME Reliable, Patient
    PROVE  Spec /\ []RequestsApart => []OneActive
  <1>1. BlockedInv => OneActive
    BY DEF BlockedInv
  <1> QED
    BY <1>1, BlockedAlways, PTL

\* And the source refuses writes to the tenant from MIGRATING to CUTTING_OVER,
\* crashes or not.
THEOREM SourceBlockedWhileMoving ==
    ASSUME Reliable, Patient
    PROVE  Spec /\ []RequestsApart => []WritesBlockedWhileMoving
  <1>1. BlockedInv => WritesBlockedWhileMoving
    BY DEF BlockedInv
  <1> QED
    BY <1>1, BlockedAlways, PTL
=============================================================================
