---------------------------- MODULE LeaderBroker -----------------------------
(***************************************************************************)
(* The broker of a site's leader: its starts and ends, the goroutine that  *)
(* sets up the streams and the bucket, and the link to the back-end.  What *)
(* flows through the streams is in Spool, what comes in through the bucket *)
(* in DesiredState; both build on this module.                             *)
(***************************************************************************)
EXTENDS Naturals, Sequences

CONSTANT Limit  \* how often each kind of event may happen

\* "fault": a call fails or its answer is lost.  "restart": the leader's
\* process ends, for whatever reason.  "reset": an agent is reset while it is
\* stopped.  "outage": the link to the back-end goes down.
Event == {"fault", "restart", "reset", "outage"}

ASSUME LimitAssumption == Limit \in [Event -> Nat]

VARIABLES
    up,       \* the broker is running
    setup,    \* the next step of the stream set-up; 0 is to connect
    objects,  \* the streams and buckets in the broker's store
    linked,   \* the back-end can be reached
    spent     \* the events that have happened

broker == <<up, setup, objects>>

\* What setupStreams creates, in this order.
SetupOrder == << "CONFIG", "REGISTRATION", "SUBMIT" >>

\* What go-choria's broker creates itself.
BrokerMade == {"CHORIA_EVENTS", "CHORIA_MACHINE"}

Object == {"CONFIG", "REGISTRATION", "SUBMIT"} \cup BrokerMade

Done == Len(SetupOrder) + 1

BrokerTypeOK ==
    /\ up \in BOOLEAN
    /\ setup \in 0 .. Done
    /\ objects \subseteq Object
    /\ linked \in BOOLEAN
    /\ spent \in [Event -> Nat]

\* A leader at its first start, on a site that is on-line.
BrokerInit ==
    /\ up = FALSE /\ setup = 0 /\ objects = {}
    /\ linked = TRUE
    /\ spent = [e \in Event |-> 0]

Spend(e) == spent[e] < Limit[e] /\ spent' = [spent EXCEPT ![e] = @ + 1]

-----------------------------------------------------------------------------
\* The broker is started and its store recovered before Start goes on to
\* start the set-up.
BrokerStarts ==
    /\ ~up /\ up' = TRUE
    /\ setup' = 0
    /\ UNCHANGED <<objects, linked, spent>>

\* An object that exists is kept with all it holds; one that does not is made.
SetUp ==
    /\ up /\ setup < Done
    /\ setup' = setup + 1
    /\ IF setup = 0 THEN UNCHANGED objects ELSE objects' = objects \cup {SetupOrder[setup]}
    /\ UNCHANGED <<up, linked, spent>>

SetUpFails_GivesUp ==
    /\ up /\ setup < Done /\ Spend("fault")
    /\ setup' = Done
    /\ UNCHANGED <<up, objects, linked>>

\* The first error ends the attempt; the next attempt begins with a new
\* connection and finds what this one has made.
SetUpFails ==
    /\ up /\ setup < Done /\ Spend("fault")
    /\ setup' = 0
    /\ UNCHANGED <<up, objects, linked>>

BrokerMakes ==
    /\ up /\ ~(BrokerMade \subseteq objects)
    /\ objects' = objects \cup BrokerMade
    /\ UNCHANGED <<up, setup, linked, spent>>

\* The process dies or is stopped; the store stays on disk.
BrokerEnds ==
    /\ up /\ Spend("restart")
    /\ up' = FALSE /\ setup' = 0
    /\ UNCHANGED <<objects, linked>>

\* The reset command, run while the leader is stopped, removes the store.
StoreRemoved ==
    /\ ~up /\ Spend("reset")
    /\ objects' = {}
    /\ UNCHANGED <<up, setup, linked>>

LinkFails == linked /\ Spend("outage") /\ linked' = FALSE /\ UNCHANGED broker

LinkReturns == ~linked /\ linked' = TRUE /\ UNCHANGED <<broker, spent>>

-----------------------------------------------------------------------------
\* setupStreams (broker.go) never leaves a step behind that it has not made, over
\* failed attempts, restarts and resets: what it is past is in the store, and
\* once it has stopped trying all of it is.
SetUpInOrder == \A i \in 1 .. Len(SetupOrder) : setup > i => SetupOrder[i] \in objects

\* SetUpInOrder is inductive only with this: no attempt is under way when the
\* store is removed.
SetUpSound == SetUpInOrder /\ (~up => setup = 0)

\* setupStreams (broker.go) tries until it has succeeded: whatever attempts
\* failed half way and however often the broker was restarted or its store
\* removed, in the end the leader has all its streams and its bucket.
StreamsAppear == <>[](objects = Object)
=============================================================================
