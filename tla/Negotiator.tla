----------------------------- MODULE Negotiator -----------------------------
(***************************************************************************)
(* MemoryNegotiator (pkg/transfer/memory.go) on top of a registry that     *)
(* other clients use at the same time.  Its mutex is held over the whole   *)
(* of every method, the registry's Transfer included, so each method is    *)
(* one action; a call that returns an error without effect is no step.     *)
(*                                                                         *)
(* The registry is the in-memory one, whose Transfer succeeds or refuses,  *)
(* or the xolu-backed one, whose Transfer may also be committed by a xolu  *)
(* whose answer is lost (see XoluRegistry, WriteReplyLost).                *)
(* History offers, timestamps and rejection reasons are stored and never   *)
(* looked at; they are left out.                                           *)
(***************************************************************************)
EXTENDS Records, FiniteSets

CONSTANTS
    ProposalIDs,     \* the IDs uuid.New may return
    InitRecords,     \* the entities registered before the first proposal
    ClientProtocol,  \* Protocol of transfers that bypass the negotiator
    MaxClientOps     \* bound: registry calls by other clients

ASSUME NegotiatorAssumption ==
    /\ DOMAIN InitRecords \subseteq GlobalIDs
    /\ InitRecords \in [DOMAIN InitRecords -> Record]
    /\ \A g \in DOMAIN InitRecords : InitRecords[g].history = <<>>
    /\ ClientProtocol \in Protocols
    /\ MaxClientOps \in Nat

VARIABLES
    proposals,  \* n.proposals: ID -> proposal
    records,    \* the registry
    lost,       \* <<GlobalID, i>>: the answer to the i-th transfer was lost
    clientOps

vars == <<proposals, records, lost, clientOps>>

ProposalStates == {"proposed", "accepted", "completed", "rejected", "cancelled"}

Proposal == [gid : GlobalIDs, from : LocalRefs, to : LocalRefs,
             protocol : Protocols \ {ClientProtocol}, state : ProposalStates]

-----------------------------------------------------------------------------
Init ==
    /\ proposals = << >>
    /\ records = InitRecords
    /\ lost = {}
    /\ clientOps = 0

\* Nothing is checked: the GlobalID need not exist, From need not own it.
Propose(id, g, from, to, protocol) ==
    /\ id \notin DOMAIN proposals
    /\ proposals' = Put(proposals, id, [gid |-> g, from |-> from, to |-> to,
                                        protocol |-> protocol, state |-> "proposed"])
    /\ UNCHANGED <<records, lost, clientOps>>

\* The registry Transfer of proposal p, as the registry commits it.
Commit(p) ==
    /\ MayTransfer(records, p.gid, p.from)
    /\ Len(records[p.gid].history) < MaxHistory
    /\ records' = Put(records, p.gid, Transferred(records[p.gid], p.from, p.to, p.protocol))

\* Variant: a proposal may be accepted again.
Accept_Again(id) ==
    /\ proposals[id].state \in {"proposed", "accepted"}
    /\ Commit(proposals[id])
    /\ proposals' = [proposals EXCEPT ![id].state = "accepted"]
    /\ UNCHANGED <<lost, clientOps>>

\* The registry's Transfer, then ACCEPTED.
Accept(id) ==
    /\ proposals[id].state = "proposed"
    /\ Commit(proposals[id])
    /\ proposals' = [proposals EXCEPT ![id].state = "accepted"]
    /\ UNCHANGED <<lost, clientOps>>

\* Accept, when the registry's Transfer was committed but reported an error:
\* the proposal stays PROPOSED.
AcceptReplyLost(id) ==
    /\ proposals[id].state = "proposed"
    /\ Commit(proposals[id])
    /\ lost' = lost \cup {<<proposals[id].gid, Len(records[proposals[id].gid].history) + 1>>}
    /\ UNCHANGED <<proposals, clientOps>>

Reject(id) ==
    /\ proposals[id].state = "proposed"
    /\ proposals' = [proposals EXCEPT ![id].state = "rejected"]
    /\ UNCHANGED <<records, lost, clientOps>>

Cancel(id) ==
    /\ proposals[id].state = "proposed"
    /\ proposals' = [proposals EXCEPT ![id].state = "cancelled"]
    /\ UNCHANGED <<records, lost, clientOps>>

Complete(id) ==
    /\ proposals[id].state = "accepted"
    /\ proposals' = [proposals EXCEPT ![id].state = "completed"]
    /\ UNCHANGED <<records, lost, clientOps>>

\* Other users of the registry.
Client(g) ==
    /\ clientOps < MaxClientOps
    /\ clientOps' = clientOps + 1
    /\ \/ \E from, to \in LocalRefs :
             Commit([gid |-> g, from |-> from, to |-> to, protocol |-> ClientProtocol])
       \/ MayRetire(records, g) /\ records' = Put(records, g, Retired(records[g]))
    /\ UNCHANGED <<proposals, lost>>

Next ==
    \/ \E id \in ProposalIDs, g \in GlobalIDs, from, to \in LocalRefs,
          protocol \in Protocols \ {ClientProtocol} : Propose(id, g, from, to, protocol)
    \/ \E id \in DOMAIN proposals :
          \/ Accept(id) \/ AcceptReplyLost(id)
          \/ Reject(id) \/ Cancel(id) \/ Complete(id)
    \/ \E g \in GlobalIDs : Client(g)

Spec == Init /\ [][Next]_vars

-----------------------------------------------------------------------------
\* Proposals and records are well formed: a proposal is always in one of the
\* five states of the lifecycle (transfer.go:57-66).
TypeOK ==
    /\ DOMAIN proposals \subseteq ProposalIDs
    /\ proposals \in [DOMAIN proposals -> Proposal]
    /\ DOMAIN records \subseteq GlobalIDs
    /\ records \in [DOMAIN records -> Record]
    /\ \A l \in lost : l[1] \in DOMAIN records /\ l[2] \in 1..Len(records[l[1]].history)
    /\ clientOps \in Nat

\* The proposals that claim to have made the transfer e of g.
Claims(g, e) ==
    {id \in DOMAIN proposals :
        /\ proposals[id].gid = g
        /\ [from |-> proposals[id].from, to |-> proposals[id].to,
            protocol |-> proposals[id].protocol] = e
        /\ proposals[id].state \in {"accepted", "completed"}}

\* Where the transfer e appears in the history of g and Accept knows of it.
Occurrences(g, e) ==
    IF g \in DOMAIN records
    THEN {i \in 1..Len(records[g].history) :
              records[g].history[i] = e /\ <<g, i>> \notin lost}
    ELSE {}

\* The record and the proposals tell the same story, however competing
\* proposals for one entity, direct registry transfers and retirements
\* interleave: apart from transfers whose answer was lost, each negotiated
\* transfer in the history of an entity belongs to one accepted proposal, and
\* each accepted or completed proposal to one transfer, made once ("so that
\* the registry record and the proposal state stay consistent",
\* transfer/memory.go:19-20; no push transfer, and REJECTED and CANCELLED
\* leave the record alone, transfer.go:28-40).
RecordMatchesProposals ==
    \A g \in GlobalIDs : \A e \in TransferEntry :
        e.protocol # ClientProtocol =>
            Cardinality(Claims(g, e)) = Cardinality(Occurrences(g, e))

\* A settled proposal never changes again, and an accepted one can only be
\* completed, also when others of the same entity are still open.
Settled ==
    [][\A id \in DOMAIN proposals :
          proposals'[id] # proposals[id] =>
              \/ proposals[id].state = "proposed"
              \/ /\ proposals[id].state = "accepted"
                 /\ proposals'[id] = [proposals[id] EXCEPT !.state = "completed"]]_vars
=============================================================================
