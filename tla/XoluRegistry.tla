---------------------------- MODULE XoluRegistry ----------------------------
(***************************************************************************)
(* XoluRegistry (pkg/registry/xolu.go): the registry kept as documents of  *)
(* a xolu instance.  No lock covers an operation.  Register, Transfer and  *)
(* Retire each run as a caller's goroutine in three stages: an OQL read    *)
(* and the checks on what it returned, one write to xolu, and, when the    *)
(* write was acknowledged, the events.  Stages of different callers        *)
(* interleave; the write carries the _version that was read and xolu       *)
(* refuses it with 409 when the document has moved on.  A write may also   *)
(* fail on the way there (nothing happened) or on the way back (it is      *)
(* committed and the caller is told it failed).  The process may crash and *)
(* restart between any two stages; the documents survive.                  *)
(*                                                                         *)
(* The Record of an event, of its log entry and of a successful answer is  *)
(* parsed from xolu's answer to the write.                                 *)
(***************************************************************************)
EXTENDS Records

CONSTANTS
    Callers,     \* concurrent calls of the registry's methods
    Channels,    \* channels passed to Subscribe, all without a filter
    ChanCap,     \* capacity of every channel
    MaxCrashes   \* bound: crashes of the nolu process

ASSUME XoluBoundsAssumption == ChanCap \in Nat \ {0} /\ MaxCrashes \in Nat

VARIABLES
    docs,     \* the nolu_records documents: GlobalID -> [rec, version]
    minted,   \* the GlobalIDs MintGlobalID has returned
    calls,    \* caller -> where its call is, and its local variables
    subs,     \* r.subs: the channels subscribed
    chan,     \* the buffer of each channel
    appending, \* events whose appendEvent goroutine has not run yet
    eventLog, \* the nolu_events documents
    acked,    \* successful answers callers were given
    crashes

vars == <<docs, minted, calls, subs, chan, appending, eventLog, acked, crashes>>

Doc == [rec : Record, version : Nat]

\* The Record that no field of a document was parsed into.
EmptyRecord ==
    [current |-> [instance |-> "", tenant |-> 0, name |-> "", local |-> 0],
     history |-> <<>>, status |-> ""]

\* What a caller, a subscriber or the event log is told: the GlobalID, the
\* instant and the Record.  The instant is the UpdatedAt of the document as it
\* was written, and the document stands for it.
Snapshot == [gid : GlobalIDs, at : Record, rec : Record \cup {EmptyRecord}]

\* idle; about to Create or Save rec over version; or telling the channels
\* todo what was done.
Call ==      [at : {"idle"}]
        \cup [at : {"create"}, gid : GlobalIDs, rec : Record]
        \cup [at : {"save"}, gid : GlobalIDs, rec : Record, version : Nat]
        \cup [at : {"send"}, what : Snapshot, todo : SUBSET Channels]

Idle == [at |-> "idle"]

-----------------------------------------------------------------------------
Init ==
    /\ docs = << >>
    /\ minted = {}
    /\ calls = [p \in Callers |-> Idle]
    /\ subs = {}
    /\ chan = [c \in Channels |-> <<>>]
    /\ appending = {}
    /\ eventLog = {}
    /\ acked = {}
    /\ crashes = 0

Stored == [g \in DOMAIN docs |-> docs[g].rec]

\* Register: mint a fresh GlobalID, see that no document has it, and go on
\* to create one.
RegisterCheck(p, g, owner) ==
    /\ calls[p] = Idle
    /\ g \notin minted
    /\ g \notin DOMAIN docs
    /\ minted' = minted \cup {g}
    /\ calls' = [calls EXCEPT ![p] = [at |-> "create", gid |-> g, rec |-> NewRecord(owner)]]
    /\ UNCHANGED <<docs, subs, chan, appending, eventLog, acked, crashes>>

\* Transfer: read the document with its version, check it, and go on to
\* write the new owner and history over that version.
TransferCheck(p, g, from, to, protocol) ==
    /\ calls[p] = Idle
    /\ MayTransfer(Stored, g, from)
    /\ Len(docs[g].rec.history) < MaxHistory
    /\ calls' = [calls EXCEPT ![p] =
                    [at |-> "save", gid |-> g, version |-> docs[g].version,
                     rec |-> Transferred(docs[g].rec, from, to, protocol)]]
    /\ UNCHANGED <<docs, minted, subs, chan, appending, eventLog, acked, crashes>>

RetireCheck(p, g) ==
    /\ calls[p] = Idle
    /\ MayRetire(Stored, g)
    /\ calls' = [calls EXCEPT ![p] =
                    [at |-> "save", gid |-> g, version |-> docs[g].version,
                     rec |-> Retired(docs[g].rec)]]
    /\ UNCHANGED <<docs, minted, subs, chan, appending, eventLog, acked, crashes>>

\* Variant: Save does not increment the version.
Written_SameVersion(call) ==
    Put(docs, call.gid, [rec |-> call.rec,
                         version |-> IF call.at = "create" THEN 1 ELSE call.version])

\* xolu executes the write of the call (external): Create stores a document
\* of version 1; Save compares the _version it was sent with the stored one
\* and increments it.
Written(call) ==
    IF call.at = "create"
    THEN Put(docs, call.gid, [rec |-> call.rec, version |-> 1])
    ELSE Put(docs, call.gid, [rec |-> call.rec, version |-> call.version + 1])

\* Variant: an unconditional write.
Accepts_Always(call) == TRUE

Accepts(call) ==
    call.at = "save" => docs[call.gid].version = call.version

\* xolu's answer to an accepted write: handleCreate gives the new document's
\* id, handleSave only a message.
Answer(call) ==
    IF call.at = "create"
    THEN [message |-> "created", id |-> call.gid]
    ELSE [message |-> "updated"]

\* A Record made of what an answer has of it.
fromXoluResult(result) ==
    [f \in DOMAIN EmptyRecord |-> IF f \in DOMAIN result THEN result[f] ELSE EmptyRecord[f]]

\* What is told of a write that was acknowledged.
Outcome(call) ==
    [gid |-> call.gid, at |-> call.rec, rec |-> fromXoluResult(Answer(call))]

\* The write is acknowledged.  publish copies the subscriber list under the
\* mutex; the sends follow.
WriteOK(p) ==
    LET call == calls[p]
    IN  /\ call.at \in {"create", "save"}
        /\ Accepts(call)
        /\ docs' = Written(call)
        /\ calls' = [calls EXCEPT ![p] =
                        [at |-> "send", what |-> Outcome(call), todo |-> subs]]
        /\ UNCHANGED <<minted, subs, chan, appending, eventLog, acked, crashes>>

\* Variant: a conflict is reported as success.
WriteConflict_Acknowledged(p) ==
    /\ calls[p].at = "save"
    /\ ~Accepts(calls[p])
    /\ calls' = [calls EXCEPT ![p] = Idle]
    /\ acked' = acked \cup {Outcome(calls[p])}
    /\ UNCHANGED <<docs, minted, subs, chan, appending, eventLog, crashes>>

\* 409: ErrInvalidTransfer to the caller.
WriteConflict(p) ==
    /\ calls[p].at = "save"
    /\ ~Accepts(calls[p])
    /\ calls' = [calls EXCEPT ![p] = Idle]
    /\ UNCHANGED <<docs, minted, subs, chan, appending, eventLog, acked, crashes>>

\* The request did not reach xolu: an error to the caller.
WriteFails(p) ==
    /\ calls[p].at \in {"create", "save"}
    /\ calls' = [calls EXCEPT ![p] = Idle]
    /\ UNCHANGED <<docs, minted, subs, chan, appending, eventLog, acked, crashes>>

\* The write is committed and the answer is lost: an error to the caller,
\* and no event for anybody.
WriteReplyLost(p) ==
    /\ calls[p].at \in {"create", "save"}
    /\ Accepts(calls[p])
    /\ docs' = Written(calls[p])
    /\ calls' = [calls EXCEPT ![p] = Idle]
    /\ UNCHANGED <<minted, subs, chan, appending, eventLog, acked, crashes>>

\* publish, outside the mutex: one non-blocking send at a time.
Send(p, c) ==
    /\ calls[p].at = "send"
    /\ c \in calls[p].todo
    /\ chan' = IF Len(chan[c]) < ChanCap
               THEN [chan EXCEPT ![c] = Append(@, calls[p].what)]
               ELSE chan
    /\ calls' = [calls EXCEPT ![p].todo = @ \ {c}]
    /\ UNCHANGED <<docs, minted, subs, appending, eventLog, acked, crashes>>

\* All sends done: the goroutine of appendEvent is started (the one of publish
\* only calls the bus, which keeps no state here) and the call returns.
Return(p) ==
    /\ calls[p].at = "send"
    /\ calls[p].todo = {}
    /\ calls' = [calls EXCEPT ![p] = Idle]
    /\ appending' = appending \cup {calls[p].what}
    /\ acked' = acked \cup {calls[p].what}
    /\ UNCHANGED <<docs, minted, subs, chan, eventLog, crashes>>

Subscribe(c) ==
    /\ c \notin subs
    /\ subs' = subs \cup {c}
    /\ chan' = [chan EXCEPT ![c] = <<>>]
    /\ UNCHANGED <<docs, minted, calls, appending, eventLog, acked, crashes>>

Cancel(c) ==
    /\ c \in subs
    /\ subs' = subs \ {c}
    /\ UNCHANGED <<docs, minted, calls, chan, appending, eventLog, acked, crashes>>

Receive(c) ==
    /\ chan[c] # <<>>
    /\ chan' = [chan EXCEPT ![c] = Tail(@)]
    /\ UNCHANGED <<docs, minted, calls, subs, appending, eventLog, acked, crashes>>

\* The goroutine of appendEvent creates the nolu_events document, or fails
\* without anyone noticing.
AppendEvent(what) ==
    /\ appending' = appending \ {what}
    /\ \/ eventLog' = eventLog \cup {what}
       \/ UNCHANGED eventLog
    /\ UNCHANGED <<docs, minted, calls, subs, chan, acked, crashes>>

\* The nolu process dies and is started again: only xolu's documents remain.
Crash ==
    /\ crashes < MaxCrashes
    /\ crashes' = crashes + 1
    /\ calls' = [p \in Callers |-> Idle]
    /\ subs' = {}
    /\ chan' = [c \in Channels |-> <<>>]
    /\ appending' = {}
    /\ UNCHANGED <<docs, minted, eventLog, acked>>

Next ==
    \/ \E p \in Callers :
          \/ \E g \in GlobalIDs :
                \/ \E owner \in LocalRefs : RegisterCheck(p, g, owner)
                \/ \E from, to \in LocalRefs, protocol \in Protocols :
                       TransferCheck(p, g, from, to, protocol)
                \/ RetireCheck(p, g)
          \/ WriteOK(p)
          \/ WriteConflict(p)
          \/ WriteFails(p)
          \/ WriteReplyLost(p)
          \/ \E c \in Channels : Send(p, c)
          \/ Return(p)
    \/ \E c \in Channels : Subscribe(c) \/ Cancel(c) \/ Receive(c)
    \/ \E what \in appending : AppendEvent(what)
    \/ Crash

Spec == Init /\ [][Next]_vars

-----------------------------------------------------------------------------
\* Documents, calls in progress, buffers and answers are well formed: what is
\* written is a whole record.
TypeOK ==
    /\ DOMAIN docs \subseteq GlobalIDs
    /\ docs \in [DOMAIN docs -> Doc]
    /\ minted \subseteq GlobalIDs
    /\ calls \in [Callers -> Call]
    /\ subs \subseteq Channels
    /\ chan \in [Channels -> Seq(Snapshot)]
    /\ appending \subseteq Snapshot
    /\ eventLog \subseteq Snapshot
    /\ acked \subseteq Snapshot
    /\ crashes \in Nat

\* A change of a stored record that the ownership specification allows.
LegalChange(old, new) ==
    /\ old.status # "retired"
    /\ \/ /\ Len(old.history) < MaxHistory
          /\ \E from, to \in LocalRefs, protocol \in Protocols :
                 /\ old.current = from
                 /\ new = Transferred(old, from, to, protocol)
       \/ new = Retired(old)

\* A Register about to write has a GlobalID of its own.
CreatesAreFresh ==
    \A p \in Callers : calls[p].at = "create" =>
        /\ calls[p].gid \in minted \ DOMAIN docs
        /\ \E owner \in LocalRefs : calls[p].rec = NewRecord(owner)
        /\ \A q \in Callers : (calls[q].at = "create" /\ calls[q].gid = calls[p].gid) => q = p

\* A Transfer or Retire about to write holds a version that is not newer than
\* the stored one, and is about to write a legal change if it is that one.
SavesAreLegal ==
    \A p \in Callers : calls[p].at = "save" =>
        /\ calls[p].gid \in DOMAIN docs
        /\ calls[p].version <= docs[calls[p].gid].version
        /\ calls[p].version = docs[calls[p].gid].version =>
               LegalChange(docs[calls[p].gid].rec, calls[p].rec)

\* Why concurrent calls cannot overwrite each other: a call about to write
\* creates a document nobody else can create, or its write is legal if xolu
\* accepts it (the inductive invariant of the refinement).
CallsInv == DOMAIN docs \subseteq minted /\ CreatesAreFresh /\ SavesAreLegal

Abstract == INSTANCE Ownership WITH records <- Stored

\* The documents implement the ownership specification: however the reads and
\* the writes of concurrent calls interleave, whatever answers are lost and
\* wherever the process crashes, the stored records change as if Register,
\* Transfer and Retire were atomic (the conditional write of Transfer and
\* Retire, xolu.go:259-261; durability, registry.go:128-129).
ImplementsOwnership == Abstract!Spec

\* With that, concurrent calls keep what the specification promises: the
\* stored history is an unbroken chain of custody up to the current owner ...
ChainOfCustody == Abstract!ChainOfCustody

\* ... and no write, however late, forgets or rewrites an entry of it that
\* another call has added, or changes a retired record (xolu.go:259-261).
AppendOnly == Abstract!AppendOnly

\* rec is an earlier or the present stage of the life of g's stored record.
StageOf(rec, g) ==
    /\ g \in DOMAIN docs
    /\ Len(rec.history) <= Len(docs[g].rec.history)
    /\ \A i \in 1..Len(rec.history) : rec.history[i] = docs[g].rec.history[i]
    /\ rec.status = "retired" => docs[g].rec = rec

Buffered(c) == {chan[c][i] : i \in 1..Len(chan[c])}

Told == acked \cup eventLog \cup appending \cup UNION {Buffered(c) : c \in Channels}

\* What a caller was told happened, and what a subscriber or the event log was
\* told, did happen and is never undone: the stored record has been at that
\* instant what was written then, and has only grown since, also after a
\* crash (the conditional write of Transfer and Retire, the order of write,
\* publish, appendEvent and return).  The Record in it is another matter.
ToldHappened ==
    \A s \in Told : StageOf(s.at, s.gid)

\* The Record a caller or a subscriber is given is the entity as written
\* ("returns the created entity", "Returns the full entity document" of
\* pkg/xoluclient, from which Register, Transfer and Retire take it).
ToldRecords ==
    \A s \in Told : s.rec = s.at
=============================================================================
