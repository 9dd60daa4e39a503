----------------------------- MODULE Lifecycle -----------------------------
(***************************************************************************)
(* One olu process on the JSON file store (cmd/olu/main.go, graph/         *)
(* persister.go): requests that change the graph, the persister that saves *)
(* it, the shutdown and a crash.  The graph is abstracted to its nodes;    *)
(* GraphMachine shows that what Save writes is what Load restores.         *)
(***************************************************************************)
EXTENDS Naturals

CONSTANTS
    Entities,   \* the documents that may exist
    Requests,   \* HTTP requests that create or delete one
    MaxChanges, \* bound on the changes made
    MaxFaults   \* bound on failed saves and crashes together

VARIABLES
    docs,       \* the documents in the store
    nodes,      \* the nodes of the in-memory graph
    file,       \* the nodes in the graph file
    changes,    \* the number of requests served
    dirty,      \* AdaptivePersister.dirty
    req,        \* per request: "none", "stored", "changed" (before MarkDirty) or "done"
    about,      \* per request: the entity, and whether it is deleted
    loop,       \* the persister: "wait", "save", "write" or "stopped"
    snap,       \* the snapshot Save took, while it is being written
    final,      \* the save is the one of the shutdown
    signal,     \* the goroutine of SIGTERM: "none", "drain", "stop" or "end"
    main,       \* "serve", "returned" once ListenAndServe has returned, "dead"
    faults

vars == <<docs, nodes, file, changes, dirty, req, about, loop, snap, final, signal, main, faults>>

Init ==
    /\ docs = {} /\ nodes = {} /\ file = {} /\ snap = {}
    /\ changes = 0 /\ faults = 0
    /\ about = [r \in Requests |-> [entity |-> CHOOSE e \in Entities : TRUE, delete |-> FALSE]]
    /\ dirty = FALSE /\ final = FALSE
    /\ req = [r \in Requests |-> "none"]
    /\ loop = "wait" /\ signal = "none" /\ main = "serve"

Alive == main # "dead"

-----------------------------------------------------------------------------
(* Requests: updateGraph and removeGraph mark the graph after the change *)

Busy(r) == req[r] \in {"stored", "changed"}

\* A create or a delete is committed by the store first.
Store(r, e) ==
    /\ main = "serve" /\ signal = "none" /\ ~Busy(r) /\ changes < MaxChanges
    /\ docs' = IF e \in docs THEN docs \ {e} ELSE docs \cup {e}
    /\ changes' = changes + 1
    /\ req' = [req EXCEPT ![r] = "stored"]
    /\ about' = [about EXCEPT ![r] = [entity |-> e, delete |-> e \in docs]]
    /\ UNCHANGED <<nodes, file, dirty, loop, snap, final, signal, main, faults>>

\* The node follows: added by updateGraph, removed by removeGraph.
Change(r) ==
    /\ Alive /\ req[r] = "stored"
    /\ nodes' = IF about[r].delete THEN nodes \ {about[r].entity}
               ELSE nodes \cup {about[r].entity}
    /\ req' = [req EXCEPT ![r] = "changed"]
    /\ UNCHANGED <<docs, file, changes, dirty, about, loop, snap, final, signal, main, faults>>

MarkDirty(r) ==
    /\ Alive /\ req[r] = "changed"
    /\ dirty' = TRUE
    /\ req' = [req EXCEPT ![r] = "done"]
    /\ UNCHANGED <<docs, nodes, file, changes, about, loop, snap, final, signal, main, faults>>

-----------------------------------------------------------------------------
(* The persister's loop *)

\* dirty is cleared before the graph is read, so that a change made during
\* the save is saved again.  The interval is left open.
Tick ==
    /\ Alive /\ loop = "wait" /\ dirty
    /\ dirty' = FALSE
    /\ loop' = "save"
    /\ UNCHANGED <<docs, nodes, file, changes, about, req, snap, final, signal, main, faults>>

LastTick ==
    /\ Alive /\ loop = "wait" /\ signal = "stop"
    /\ final' = TRUE
    /\ dirty' = FALSE
    /\ loop' = IF dirty THEN "save" ELSE "stopped"
    /\ UNCHANGED <<docs, nodes, file, changes, about, req, snap, signal, main, faults>>

\* Variant: the save clears the flag, a mark set while it was writing included.
WrittenClears ==
    /\ Alive /\ loop = "write"
    /\ file' = snap
    /\ dirty' = FALSE
    /\ loop' = IF final THEN "stopped" ELSE "wait"
    /\ UNCHANGED <<docs, nodes, changes, about, req, snap, final, signal, main, faults>>

Snapshot ==
    /\ Alive /\ loop = "save"
    /\ snap' = nodes
    /\ loop' = "write"
    /\ UNCHANGED <<docs, nodes, file, changes, about, dirty, req, final, signal, main, faults>>

Written ==
    /\ Alive /\ loop = "write"
    /\ file' = snap
    /\ loop' = IF final THEN "stopped" ELSE "wait"
    /\ UNCHANGED <<docs, nodes, changes, about, dirty, req, snap, final, signal, main, faults>>

\* Variant: a failed save does not set the flag again.
WriteFailsForgets ==
    /\ Alive /\ loop = "write" /\ faults < MaxFaults
    /\ loop' = IF final THEN "stopped" ELSE "wait"
    /\ faults' = faults + 1
    /\ UNCHANGED <<docs, nodes, file, changes, about, dirty, req, snap, final, signal, main>>

\* The temporary file could not be written or renamed.
WriteFails ==
    /\ Alive /\ loop = "write" /\ faults < MaxFaults
    /\ dirty' = TRUE
    /\ loop' = IF final THEN "stopped" ELSE "wait"
    /\ faults' = faults + 1
    /\ UNCHANGED <<docs, nodes, file, changes, about, req, snap, final, signal, main>>

-----------------------------------------------------------------------------
(* Shutdown and crash *)

\* Shutdown closes the listeners, on which ListenAndServe returns at once.
Signal ==
    /\ main = "serve" /\ signal = "none"
    /\ signal' = "drain"
    /\ main' = "returned"
    /\ UNCHANGED <<docs, nodes, file, changes, about, dirty, req, loop, snap, final, faults>>

Drained ==
    /\ Alive /\ signal = "drain" /\ \A r \in Requests : ~Busy(r)
    /\ signal' = "stop"
    /\ UNCHANGED <<docs, nodes, file, changes, about, dirty, req, loop, snap, final, main, faults>>

\* The context of Shutdown ends after 15 seconds.
DrainTimeout ==
    /\ Alive /\ signal = "drain" /\ \E r \in Requests : Busy(r)
    /\ signal' = "stop"
    /\ UNCHANGED <<docs, nodes, file, changes, about, dirty, req, loop, snap, final, main, faults>>

Stopped ==
    /\ Alive /\ signal = "stop" /\ loop = "stopped"
    /\ signal' = "end"
    /\ UNCHANGED <<docs, nodes, file, changes, about, dirty, req, loop, snap, final, main, faults>>

\* main waits for nothing after Start: the process ends and takes the other
\* goroutines with it.
Exit ==
    /\ main = "returned"
    /\ main' = "dead"
    /\ UNCHANGED <<docs, nodes, file, changes, about, dirty, req, loop, snap, final, signal, faults>>

Crash ==
    /\ Alive /\ faults < MaxFaults
    /\ main' = "dead"
    /\ faults' = faults + 1
    /\ UNCHANGED <<docs, nodes, file, changes, about, dirty, req, loop, snap, final, signal>>

\* A new process loads the file and applies every stored document again.
Restart ==
    /\ main = "dead"
    /\ nodes' = file \cup docs
    /\ main' = "serve" /\ signal' = "none" /\ loop' = "wait"
    /\ req' = [r \in Requests |-> "none"]
    /\ dirty' = FALSE /\ final' = FALSE
    /\ UNCHANGED <<docs, file, changes, about, snap, faults>>

Next ==
    \/ \E r \in Requests : \/ \E e \in Entities : Store(r, e)
                           \/ Change(r) \/ MarkDirty(r)
    \/ Tick \/ LastTick \/ Snapshot \/ Written \/ WriteFails
    \/ Signal \/ Drained \/ DrainTimeout \/ Stopped \/ Exit \/ Crash \/ Restart

\* The ticker fires for ever, requests return, a dead process is restarted.
Fairness ==
    /\ WF_vars(Tick) /\ WF_vars(LastTick) /\ WF_vars(Snapshot) /\ WF_vars(Written)
    /\ WF_vars(\E r \in Requests : Change(r) \/ MarkDirty(r))
    /\ WF_vars(Drained) /\ WF_vars(Stopped) /\ WF_vars(Exit) /\ WF_vars(Restart)

Spec == Init /\ [][Next]_vars /\ Fairness

-----------------------------------------------------------------------------
(* No change is forgotten: while the process runs, once a request since    *)
(* the start has marked the graph and none is half-way, either the graph   *)
(* is dirty, or a save that has not read it yet or has read all of it is   *)
(* under way, or the file holds it.  MarkDirty races the save.             *)
SavedOrDirty ==
    /\ Alive
    /\ \E r \in Requests : req[r] # "none"
    /\ \A r \in Requests : ~Busy(r)
    => \/ dirty \/ loop = "save"
       \/ loop = "write" /\ snap = nodes
       \/ file = nodes

(* A changed graph reaches the file while the process keeps serving, for   *)
(* all the saves that fail on the way.                                     *)
EventuallySaved ==
    dirty /\ main = "serve" ~> (file = nodes \/ main # "serve")

(* main.go: the shutdown waits for in-flight requests and triggers a final *)
(* save, so after an orderly exit the file holds the graph and no request  *)
(* was cut off.                                                            *)
ShutdownSaves ==
    main = "dead" /\ faults = 0 /\ (\E r \in Requests : req[r] # "none")
    => file = nodes /\ \A r \in Requests : ~Busy(r)
=============================================================================
