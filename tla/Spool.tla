-------------------------------- MODULE Spool --------------------------------
(***************************************************************************)
(* The streams in which a leader spools what the site publishes and the    *)
(* replicators that copy them to the back-end: limits of age and of        *)
(* messages per subject, outages, answers that are lost, replicators that  *)
(* end, restarts, resets.                                                  *)
(***************************************************************************)
EXTENDS LeaderBroker, FiniteSets

CONSTANTS
    Streams,      \* the streams that are replicated to the back-end
    Subjects,     \* the subjects messages are published on, a node's name for instance
    Limited,      \* the streams with a limit of messages per subject
    KeepMessages, \* that limit, MaxMsgsPerSubject
    MaxMessages   \* bound: the messages published to a stream

ASSUME SpoolAssumption ==
    /\ Streams \subseteq Object \ {"CONFIG"}
    /\ Limited \subseteq Streams
    /\ KeepMessages \in Nat \ {0}
    /\ MaxMessages \in Nat

VARIABLES
    log,        \* the subject of every message a stream has accepted, in order
    stored,     \* the messages in the store
    acked,      \* the position of the replicator's consumer, kept in the store
    repl,       \* the replicator: not started, copying, or ended for good
    hand,       \* the message a replicator copies, 0 when it has none
    confirmed,  \* the back-end has confirmed that message
    delivered,  \* the messages the back-end has seen
    aged,       \* messages up to this one have become older than MaxAge
    wiped       \* messages up to this one were accepted before a reset

replicator == <<repl, hand, confirmed>>
store == <<stored, acked>>
past == <<log, aged, wiped>>
vars == <<broker, linked, spent, store, replicator, past, delivered>>

TypeOK ==
    /\ BrokerTypeOK
    /\ log \in [Streams -> Seq(Subjects)]
    /\ stored \in [Streams -> SUBSET (Nat \ {0})]
    /\ acked \in [Streams -> Nat]
    /\ repl \in [Streams -> {"off", "copying", "ended"}]
    /\ hand \in [Streams -> Nat]
    /\ confirmed \in [Streams -> BOOLEAN]
    /\ delivered \in [Streams -> SUBSET Nat]
    /\ aged \in [Streams -> Nat]
    /\ wiped \in [Streams -> Nat]

Each(v) == [s \in Streams |-> v]

Init ==
    /\ BrokerInit
    /\ log = Each(<< >>) /\ stored = Each({}) /\ acked = Each(0)
    /\ repl = Each("off") /\ hand = Each(0) /\ confirmed = Each(FALSE)
    /\ delivered = Each({}) /\ aged = Each(0) /\ wiped = Each(0)

\* The messages of l that have KeepMessages newer ones on the same subject.
Overtaken(l) ==
    {i \in 1 .. Len(l) :
        Cardinality({k \in i + 1 .. Len(l) : l[k] = l[i]}) >= KeepMessages}

Overflow(s, l) == IF s \in Limited THEN Overtaken(l) ELSE {}

\* What the replicator has still to copy.
Waiting(s) == {m \in stored[s] : m > acked[s]}

-----------------------------------------------------------------------------
(* The streams. *)

\* Without its stream a message is refused.
Publish(s, subject) ==
    /\ up /\ s \in objects
    /\ Len(log[s]) < MaxMessages
    /\ log' = [log EXCEPT ![s] = Append(@, subject)]
    /\ stored' = [stored EXCEPT ![s] =
                    (@ \cup {Len(log[s]) + 1}) \ Overflow(s, Append(log[s], subject))]
    /\ UNCHANGED <<broker, linked, spent, acked, replicator, aged, wiped, delivered>>

\* The oldest message becomes older than MaxAge.
Expire(s) ==
    /\ up
    /\ \E m \in stored[s] :
          /\ \A k \in stored[s] : m <= k
          /\ stored' = [stored EXCEPT ![s] = @ \ {m}]
          /\ aged' = [aged EXCEPT ![s] = m]
    /\ UNCHANGED <<broker, linked, spent, acked, replicator, log, wiped, delivered>>

-----------------------------------------------------------------------------
(* The replicators. *)

\* StartReplication does not wait for the set-up: a replicator waits for its
\* stream itself.
ReplicatorStarts(s) ==
    /\ up /\ s \in objects
    /\ repl[s] = "off"
    /\ repl' = [repl EXCEPT ![s] = "copying"]
    /\ UNCHANGED <<broker, linked, spent, store, hand, confirmed, past, delivered>>

\* stream.Run returns an error, which is logged; nothing starts it again.
ReplicatorFails(s) ==
    /\ up /\ repl[s] # "ended" /\ Spend("fault")
    /\ repl' = [repl EXCEPT ![s] = "ended"]
    /\ hand' = [hand EXCEPT ![s] = 0]
    /\ confirmed' = [confirmed EXCEPT ![s] = FALSE]
    /\ UNCHANGED <<broker, linked, store, past, delivered>>

Fetch_AnyOrder(s) ==
    /\ up /\ repl[s] = "copying" /\ hand[s] = 0
    /\ \E m \in Waiting(s) : hand' = [hand EXCEPT ![s] = m]
    /\ UNCHANGED <<broker, linked, spent, store, repl, confirmed, past, delivered>>

Fetch_Newest(s) ==
    /\ up /\ repl[s] = "copying" /\ hand[s] = 0
    /\ \E m \in Waiting(s) :
          /\ \A k \in Waiting(s) : k <= m
          /\ hand' = [hand EXCEPT ![s] = m]
    /\ UNCHANGED <<broker, linked, spent, store, repl, confirmed, past, delivered>>

Fetch(s) ==
    /\ up /\ repl[s] = "copying" /\ hand[s] = 0
    /\ \E m \in Waiting(s) :
          /\ \A k \in Waiting(s) : m <= k
          /\ hand' = [hand EXCEPT ![s] = m]
    /\ UNCHANGED <<broker, linked, spent, store, repl, confirmed, past, delivered>>

\* The message is published to the back-end; its confirmation may be lost, and
\* then it is published again.
Copy(s) ==
    /\ up /\ linked /\ hand[s] # 0 /\ ~confirmed[s]
    /\ delivered' = [delivered EXCEPT ![s] = @ \cup {hand[s]}]
    /\ \/ confirmed' = [confirmed EXCEPT ![s] = TRUE] /\ UNCHANGED spent
       \/ Spend("fault") /\ UNCHANGED confirmed
    /\ UNCHANGED <<broker, linked, store, repl, hand, past>>

Ack_Unconfirmed(s) ==
    /\ up /\ hand[s] # 0
    /\ acked' = [acked EXCEPT ![s] = hand[s]]
    /\ hand' = [hand EXCEPT ![s] = 0]
    /\ confirmed' = [confirmed EXCEPT ![s] = FALSE]
    /\ UNCHANGED <<broker, linked, spent, stored, repl, past, delivered>>

\* Only then is it acknowledged to the consumer in the leader's store.
Ack(s) ==
    /\ up /\ hand[s] # 0 /\ confirmed[s]
    /\ acked' = [acked EXCEPT ![s] = hand[s]]
    /\ hand' = [hand EXCEPT ![s] = 0]
    /\ confirmed' = [confirmed EXCEPT ![s] = FALSE]
    /\ UNCHANGED <<broker, linked, spent, stored, repl, past, delivered>>

-----------------------------------------------------------------------------
(* The leader. *)

Start == BrokerStarts /\ UNCHANGED <<store, replicator, past, delivered>>

StreamSetup ==
    /\ SetUp \/ SetUpFails \/ BrokerMakes
    /\ UNCHANGED <<store, replicator, past, delivered>>

End_KeepsHands ==
    /\ BrokerEnds
    /\ repl' = Each("off") /\ confirmed' = Each(FALSE)
    /\ UNCHANGED <<store, hand, past, delivered>>

\* A restart begins with new replicators, also for those that had ended.
End ==
    /\ BrokerEnds
    /\ repl' = Each("off") /\ hand' = Each(0) /\ confirmed' = Each(FALSE)
    /\ UNCHANGED <<store, past, delivered>>

Reset ==
    /\ StoreRemoved
    /\ stored' = Each({}) /\ acked' = Each(0)
    /\ wiped' = [s \in Streams |-> Len(log[s])]
    /\ UNCHANGED <<replicator, log, aged, delivered>>

Link == (LinkFails \/ LinkReturns) /\ UNCHANGED <<store, replicator, past, delivered>>

Next ==
    \/ Start \/ StreamSetup \/ End \/ Reset \/ Link
    \/ \E s \in Streams :
          \/ \E subject \in Subjects : Publish(s, subject)
          \/ Expire(s)
          \/ ReplicatorStarts(s) \/ ReplicatorFails(s)
          \/ Fetch(s) \/ Copy(s) \/ Ack(s)

Spec == Init /\ [][Next]_vars

\* The leader is started again, attempts at a set-up are repeated, the site
\* comes back on-line, and replicators go on.  Nothing has to be published, to
\* fail, to expire or to be reset.
Fairness ==
    /\ WF_vars(Start)
    /\ WF_vars(SetUp /\ UNCHANGED <<store, replicator, past, delivered>>)
    /\ WF_vars(BrokerMakes /\ UNCHANGED <<store, replicator, past, delivered>>)
    /\ WF_vars(LinkReturns /\ UNCHANGED <<store, replicator, past, delivered>>)
    /\ \A s \in Streams :
          /\ WF_vars(ReplicatorStarts(s))
          /\ WF_vars(Fetch(s)) /\ WF_vars(Copy(s)) /\ WF_vars(Ack(s))

FairSpec == Spec /\ Fairness

-----------------------------------------------------------------------------
(* Properties *)

Accepted(s) == 1 .. Len(log[s])

\* Messages on their way: in the store, or in a replicator's hands.
Pending(s) == Waiting(s) \cup ({hand[s]} \ {0})

\* Messages the limits of the streams or a reset have given up.
Excused(s) == 1 .. aged[s] \cup 1 .. wiped[s] \cup Overflow(s, log[s])

Accounted(s) == Accepted(s) \subseteq delivered[s] \cup Waiting(s) \cup Excused(s)

Lost == [s \in Streams |-> Accepted(s) \ (delivered[s] \cup Pending(s))]

Promise == INSTANCE Delivery
               WITH Stream <- Streams, accepted <- [s \in Streams |-> Len(log[s])],
                    lost <- Lost

\* Replication (replication.go) delivers in the order of each stream and never
\* what was not accepted, or was given up before.
KeepsPromise == Promise!Spec

\* Whatever ends, restarts or is confirmed twice: a message that is neither at
\* the back-end nor in the store, to be copied yet, is older than a day, was
\* followed by as many on its subject as the stream keeps (broker.go), or was
\* removed by a reset.
NothingElseLost == \A s \in Streams : Accounted(s)

\* Once the site is back on-line what it has spooled does reach the back-end,
\* unless the streams have given it up or its replicator has ended, which
\* StartReplication (replication.go) only logs.
EventuallyDelivered ==
    \A s \in Streams : \A m \in 1 .. MaxMessages :
        m \in Accepted(s) ~> m \in delivered[s] \cup Excused(s) \/ repl[s] = "ended"

\* "If the customer site is offline [...] events are spooled.  Once the
\* customer is back in on-line the events will spool back to the SaaS." (docs)
SpoolsBack ==
    \A s \in Streams : \A m \in 1 .. MaxMessages :
        ~linked /\ m \in Accepted(s) ~> m \in delivered[s]
=============================================================================
