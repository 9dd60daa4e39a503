------------------------------ MODULE EventBus ------------------------------
(***************************************************************************)
(* The event bus (pkg/events): MemoryBus, which calls the handlers in the  *)
(* publisher's goroutine and has no lock, and NATSBus on JetStream, which  *)
(* stores an event and hands it to durable consumers until they acknowledge*)
(* it.  A subject is the sequence of its tokens; what JetStream does is    *)
(* external and modelled from the stream and consumer configurations.      *)
(***************************************************************************)
EXTENDS Naturals, Sequences, SequencesExt, FiniteSets

CONSTANTS
    Buses,       \* which implementations to consider: "memory", "nats"
    Consumers,   \* consumer -> [name, subject]: the arguments of Subscribe
    Events,      \* event -> its subject
    MaxDeliver,  \* ConsumerConfig.MaxDeliver (5 in the code)
    MaxFaults    \* bound: handler errors, lost acknowledgements, restarts

BusAssumption == MaxDeliver \in Nat \ {0} /\ MaxFaults \in Nat

VARIABLES
    bus,
    member,   \* the consumers that are subscribed
    array,    \* MemoryBus: subject -> the array under its slice of consumers
    length,   \* MemoryBus: subject -> the length of the slice
    pub,      \* event -> its Publish: [pc, left, subject, i, n]
    present,  \* event -> consumers subscribed since before it was published
    quiet,    \* events during whose publication no subscription changed
    durable,  \* NATSBus: name of a durable consumer -> its FilterSubject
    tries,    \* <<event, durable>> -> deliveries; only events of its filter
    acked,    \* <<event, durable>> pairs acknowledged
    got,      \* <<event, consumer>> -> times the handler returned nil
    faults

vars == <<bus, member, array, length, pub, present, quiet, durable, tries, acked, got, faults>>

matchSubject(pattern, subject) ==
    \/ pattern = subject
    \/ /\ pattern # <<>> /\ Last(pattern) = ">"
       /\ Len(subject) >= Len(pattern)
       /\ IsPrefix(Front(pattern), subject)

Subjects == {Consumers[c].subject : c \in DOMAIN Consumers}
matches(c, e) == matchSubject(Consumers[c].subject, Events[e])

Init ==
    /\ bus \in Buses
    /\ member = {} /\ quiet = {} /\ durable = << >> /\ acked = {}
    /\ array = [s \in Subjects |-> <<>>] /\ length = [s \in Subjects |-> 0]
    /\ pub = [e \in DOMAIN Events |-> [pc |-> "new", left |-> {}, subject |-> <<>>, i |-> 0, n |-> 0]]
    /\ present = [e \in DOMAIN Events |-> {}]
    /\ tries = << >>
    /\ got = [x \in (DOMAIN Events) \X (DOMAIN Consumers) |-> 0]
    /\ faults = 0

-----------------------------------------------------------------------------
(* MemoryBus *)

memory == UNCHANGED <<bus, durable, tries, acked, faults>>

\* A changed subscription disturbs the publications under way.
Disturb == quiet' = {e \in quiet : pub[e].pc # "run"}

\* append: in place when the array has room behind the slice.
Subscribe(c) ==
    LET s == Consumers[c].subject
    IN  /\ bus = "memory" /\ c \notin member
        /\ member' = member \cup {c}
        /\ array' = [array EXCEPT ![s] = SubSeq(@, 1, length[s]) \o <<c>>
                                         \o SubSeq(@, length[s] + 2, Len(@))]
        /\ length' = [length EXCEPT ![s] = @ + 1]
        /\ Disturb
        /\ UNCHANGED <<pub, present, got>> /\ memory

\* append(subs[:i], subs[i+1:]...): what follows moves to the left in the
\* array that a running Publish may be reading; the last place is kept.
splice(a, n, i) == [j \in DOMAIN a |-> IF j >= i /\ j < n THEN a[j + 1] ELSE a[j]]

\* The function Subscribe returned: the first entry with the consumer's name
\* goes.
Cancel(c) ==
    LET s == Consumers[c].subject
        named == {i \in 1..length[s] : Consumers[array[s][i]].name = Consumers[c].name}
    IN  /\ bus = "memory" /\ c \in member
        /\ named # {}
        /\ LET i == CHOOSE k \in named : \A j \in named : k <= j
           IN  /\ array' = [array EXCEPT ![s] = splice(@, length[s], i)]
               /\ member' = member \ {array[s][i]}
        /\ length' = [length EXCEPT ![s] = @ - 1]
        /\ present' = [e \in DOMAIN Events |->
                          IF pub[e].pc = "run" THEN present[e] \cap member' ELSE present[e]]
        /\ Disturb
        /\ UNCHANGED <<pub, got>> /\ memory

Matching(e) == {s \in Subjects : matchSubject(s, Events[e])}

\* Publish ranges over the subjects in any order ...
Publish(e) ==
    /\ bus = "memory" /\ pub[e].pc = "new"
    /\ pub' = [pub EXCEPT ![e].pc = "run", ![e].left = Matching(e)]
    /\ present' = [present EXCEPT ![e] = {c \in member : matches(c, e)}]
    /\ quiet' = quiet \cup {e}
    /\ UNCHANGED <<member, array, length, got>> /\ memory

\* ... and over the slice as it is when its subject is reached.
RangeOver(e, s) ==
    /\ bus = "memory" /\ pub[e].pc = "run" /\ pub[e].i = pub[e].n /\ s \in pub[e].left
    /\ pub' = [pub EXCEPT ![e].left = @ \ {s}, ![e].subject = s, ![e].i = 0, ![e].n = length[s]]
    /\ UNCHANGED <<member, array, length, present, quiet, got>> /\ memory

\* The next handler; its error is ignored.
Call(e) ==
    LET c == array[pub[e].subject][pub[e].i + 1]
    IN  /\ bus = "memory" /\ pub[e].pc = "run" /\ pub[e].i < pub[e].n
        /\ pub' = [pub EXCEPT ![e].i = @ + 1]
        /\ got' = [got EXCEPT ![<<e, c>>] = @ + 1]
        /\ UNCHANGED <<member, array, length, present, quiet>> /\ memory

Return(e) ==
    /\ bus = "memory" /\ pub[e].pc = "run" /\ pub[e].i = pub[e].n /\ pub[e].left = {}
    /\ pub' = [pub EXCEPT ![e].pc = "done", ![e].subject = <<>>, ![e].i = 0, ![e].n = 0]
    /\ UNCHANGED <<member, array, length, present, quiet, got>> /\ memory

-----------------------------------------------------------------------------
(* NATSBus: consumers of one name share one durable consumer *)

nats == UNCHANGED <<bus, array, length, quiet>>

\* CreateOrUpdateConsumer (DeliverNew: a new durable starts with the next
\* event) and Consume; after a restart the durable is where it was.
SubscribeDurable(c) ==
    /\ bus = "nats" /\ c \notin member
    /\ member' = member \cup {c}
    /\ durable' = [n \in DOMAIN durable \cup {Consumers[c].name} |->
                      IF n = Consumers[c].name THEN Consumers[c].subject ELSE durable[n]]
    /\ UNCHANGED <<pub, present, tries, acked, got, faults>> /\ nats

\* cancel, or the end of the consumer's process: the durable stays.
Stop(c) ==
    /\ bus = "nats" /\ c \in member /\ faults < MaxFaults
    /\ member' = member \ {c} /\ faults' = faults + 1
    /\ UNCHANGED <<pub, present, durable, tries, acked, got>> /\ nats

\* The stream stores the event; every durable whose filter matches owes it.
PublishDurable(e) ==
    /\ bus = "nats" /\ pub[e].pc = "new"
    /\ pub' = [pub EXCEPT ![e].pc = "done"]
    /\ LET owing == {n \in DOMAIN durable : matchSubject(durable[n], Events[e])}
       IN  /\ tries' = [x \in DOMAIN tries \cup ({e} \X owing) |->
                           IF x \in DOMAIN tries THEN tries[x] ELSE 0]
           /\ present' = [present EXCEPT ![e] = {c \in DOMAIN Consumers : Consumers[c].name \in owing}]
    /\ UNCHANGED <<member, durable, acked, got, faults>> /\ nats

\* Variant: the message is acknowledged before the handler has run.
ackedAfterAlways(x, ok) == acked \cup {x}

\* Ack when the handler returns nil; Nak on its error, so that the server
\* delivers again.
ackedAfter(x, ok) == IF ok THEN acked \cup {x} ELSE acked

\* One delivery to a running consumer of the durable.  The handler may fail,
\* and the acknowledgement may be lost.
Deliver(e, c, ok, lost) ==
    LET x == <<e, Consumers[c].name>>
    IN  /\ bus = "nats" /\ c \in member
        /\ x \in DOMAIN tries /\ x \notin acked /\ tries[x] < MaxDeliver
        /\ (~ok \/ lost) => faults < MaxFaults
        /\ faults' = IF ~ok \/ lost THEN faults + 1 ELSE faults
        /\ tries' = [tries EXCEPT ![x] = @ + 1]
        /\ got' = IF ok THEN [got EXCEPT ![<<e, c>>] = @ + 1] ELSE got
        /\ acked' = IF lost THEN acked ELSE ackedAfter(x, ok)
        /\ UNCHANGED <<member, pub, present, durable>> /\ nats

Next ==
    \/ \E c \in DOMAIN Consumers :
          Subscribe(c) \/ Cancel(c) \/ SubscribeDurable(c) \/ Stop(c)
    \/ \E e \in DOMAIN Events :
          \/ Publish(e) \/ Call(e) \/ Return(e) \/ PublishDurable(e)
          \/ \E s \in Subjects : RangeOver(e, s)
          \/ \E c \in DOMAIN Consumers, ok, lost \in BOOLEAN : Deliver(e, c, ok, lost)

Spec == Init /\ [][Next]_vars

-----------------------------------------------------------------------------
\* A MemoryBus publication during which nobody subscribes or cancels calls
\* every matching handler exactly once and no other, wildcard subscriptions
\* and earlier cancellations included (events.go:131-141).
MemoryExactlyOnce ==
    \A e \in quiet : pub[e].pc = "done" =>
        \A c \in DOMAIN Consumers :
            got[<<e, c>>] = IF c \in present[e] THEN 1 ELSE 0

\* JetStream keeps an event for every durable consumer that existed when it
\* was published until one of the consumers that share the durable has handled
\* it or MaxDeliver attempts are used up, restarts, failed handlers and lost
\* acknowledgements included ("the bus guarantees at-least-once delivery ...
\* up to the backend's retry limit", events.go:92-95).
NATSKeeps ==
    \A e \in DOMAIN Events : (bus = "nats" /\ pub[e].pc = "done") =>
        \A c \in present[e] :
            LET x == <<e, Consumers[c].name>>
            IN  /\ x \in DOMAIN tries
                /\ x \in acked => \E d \in DOMAIN Consumers : Consumers[d].name = x[2] /\ got[<<e, d>>] > 0

\* What the two implementations deliver.
BusDelivers == MemoryExactlyOnce /\ NATSKeeps

\* A consumer that stays subscribed gets every matching event, other
\* consumers coming and going meanwhile ("safe for concurrent use ...
\* at-least-once delivery", events.go:77-78, 91).
AtLeastOnce ==
    \A e \in DOMAIN Events : (bus = "memory" /\ pub[e].pc = "done") =>
        \A c \in present[e] : got[<<e, c>>] >= 1
=============================================================================
