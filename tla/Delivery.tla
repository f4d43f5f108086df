------------------------------ MODULE Delivery -------------------------------
(***************************************************************************)
(* What a site promises about what it spools for the SaaS, without         *)
(* brokers, stores, replicators or outages.  Every stream numbers the      *)
(* messages it accepts.  A message reaches the back-end after everything   *)
(* its stream accepted before, or is given up; never both.                 *)
(***************************************************************************)
EXTENDS Naturals

CONSTANT Stream  \* the streams of a site

VARIABLES
    accepted,   \* the number of messages each stream has accepted
    delivered,  \* the messages of each stream that the back-end has seen
    lost        \* the messages of each stream that were given up

vars == <<accepted, delivered, lost>>

TypeOK ==
    /\ accepted \in [Stream -> Nat]
    /\ delivered \in [Stream -> SUBSET Nat]
    /\ lost \in [Stream -> SUBSET Nat]

Init ==
    /\ accepted = [s \in Stream |-> 0]
    /\ delivered = [s \in Stream |-> {}]
    /\ lost = [s \in Stream |-> {}]

Open(s) == (1 .. accepted[s]) \ (delivered[s] \cup lost[s])

\* Anything that was accepted and is not delivered may be given up, of any
\* number of streams at once.
Loses ==
    /\ lost' \in [Stream -> SUBSET Nat]
    /\ \A s \in Stream :
          /\ lost[s] \subseteq lost'[s]
          /\ lost'[s] \subseteq (1 .. accepted'[s]) \ delivered[s]

\* A stream at its limit gives up old messages for a new one.
Accept(s) ==
    /\ accepted' = [accepted EXCEPT ![s] = @ + 1]
    /\ Loses
    /\ UNCHANGED delivered

Deliver(s) ==
    /\ \E m \in Open(s) :
          /\ \A k \in Open(s) : m <= k
          /\ delivered' = [delivered EXCEPT ![s] = @ \cup {m}]
    /\ UNCHANGED <<accepted, lost>>

Lose == Loses /\ UNCHANGED <<accepted, delivered>>

Next == (\E s \in Stream : Accept(s) \/ Deliver(s)) \/ Lose

Spec == Init /\ [][Next]_vars
=============================================================================
