------------------------ MODULE MCXoluHotswapFaults ------------------------
(***************************************************************************)
(* The xolu-backed manager in two situations, each by itself: nolu crashes *)
(* twice and operators wait for the goroutines (part "crashes"); and calls *)
(* fail, answers are lost, operators are impatient and nolu crashes once   *)
(* (part "faults").                                                        *)
(***************************************************************************)
EXTENDS MCXoluHotswap

CONSTANT h1

VARIABLES part, fdocs, findex, frequests, fthreads, fstarted, fquiesced, frecords, fup, fcalls, fcrashes

F == INSTANCE XoluHotswap WITH
        XoluMayFail <- TRUE, InitRecords <- OneEntity, Impatient <- {"abort", "get"}, MaxCalls <- 2,
        MaxCrashes <- 1, docs <- fdocs, index <- findex, requests <- frequests, threads <- fthreads,
        started <- fstarted, quiesced <- fquiesced, records <- frecords, up <- fup, calls <- fcalls,
        crashes <- fcrashes

fvars == <<fdocs, findex, frequests, fthreads, fstarted, fquiesced, frecords, fup, fcalls, fcrashes>>
bvars == <<part, vars, fvars>>

Crashes(A) == part = "crashes" /\ A /\ UNCHANGED <<part, fvars>>
Faults(A)  == part = "faults" /\ A /\ UNCHANGED <<part, vars>>

BothInit == part \in {"crashes", "faults"} /\ Init /\ F!Init

BothNext == Crashes(Next) \/ Faults(F!Next)

\* FairSpec of the manager, where no call fails.
BothSpec ==
    /\ BothInit /\ [][BothNext]_bvars
    /\ WF_bvars(Crashes(Resume))
    /\ \A n \in 1..MaxThreads : WF_bvars(Crashes(\E t \in threads : t.h = h1 /\ t.n = n /\ Step(t)))

\* Failing calls, lost answers, impatient operators and a crash do not make
\* driveCutover move an entity twice, nor start two forward goroutines for one
\* hotswap (Resume, advanceState).
FaultsHarmless == F!MovedOnce /\ F!OneForwardDriver
=============================================================================
