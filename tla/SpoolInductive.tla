---------------------------- MODULE SpoolInductive ----------------------------
(***************************************************************************)
(* The inductive invariant behind KeepsPromise and NothingElseLost.  It is *)
(* a module of its own so that TLC can check it and the proofs can use it. *)
(***************************************************************************)
EXTENDS Spool

\* Numbers do not run ahead of the log, and what has expired is not stored.
InLog(s) ==
    /\ stored[s] \subseteq Accepted(s)
    /\ delivered[s] \subseteq Accepted(s)
    /\ acked[s] <= Len(log[s]) /\ hand[s] <= Len(log[s])
    /\ aged[s] <= Len(log[s]) /\ wiped[s] <= Len(log[s])
    /\ \A m \in stored[s] : m > aged[s]

\* A replicator copies the oldest message its consumer has not acknowledged.
InOrder(s) == hand[s] # 0 => hand[s] > acked[s] /\ \A m \in Waiting(s) : hand[s] <= m

\* A confirmed message is at the back-end, and a replicator that is not there
\* has nothing in its hands.
InHand(s) ==
    /\ confirmed[s] => hand[s] # 0 /\ hand[s] \in delivered[s]
    /\ ~up \/ repl[s] # "copying" => hand[s] = 0

Sound(s) == InLog(s) /\ InOrder(s) /\ InHand(s) /\ Accounted(s)

\* NothingElseLost is inductive only together with the rest: an acknowledgement
\* moves the position past everything before the message, and all of that has
\* to be delivered or excused, which InOrder says.
IInv == TypeOK /\ \A s \in Streams : Sound(s)
=============================================================================
