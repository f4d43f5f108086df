-------------------------------- MODULE Custody --------------------------------
(***************************************************************************)
(* What an agent promises about its user key and about what is signed for  *)
(* it, without files, commands or a provisioner.  A key is made when there *)
(* is none and never seen before; the agent is enrolled for the key it has *)
(* or without one; it keeps the key for as long as it is enrolled, and     *)
(* credentials are only made of both.                                      *)
(***************************************************************************)
EXTENDS Naturals

CONSTANTS None, Torn, NoKey  \* nothing; the rest of a failed write; no key

VARIABLES
    key,        \* the agent's user key, a number
    made,       \* the number of keys made so far
    enrolment,  \* the key the agent is enrolled for, or NoKey; None when it is not
    creds       \* the credentials: the signed key and the key they were made of

vars == <<key, made, enrolment, creds>>

\* A new machine, or one that was enrolled before.
Init ==
    /\ \/ key = None /\ made = 0 /\ enrolment = None
       \/ key = 1 /\ made = 1 /\ enrolment \in {None, NoKey, 1}
    /\ creds = None

Make ==
    /\ key = None /\ enrolment = None
    /\ \/ made' = made + 1 /\ key' = made'
       \/ key' = Torn /\ UNCHANGED made
    /\ UNCHANGED <<enrolment, creds>>

\* For the key the agent has: a torn one cannot be signed.
Enrol ==
    /\ key # None
    /\ enrolment' \in {NoKey} \cup ({key} \ {Torn})
    /\ UNCHANGED <<key, made, creds>>

Withdraw ==
    /\ enrolment' = None
    /\ UNCHANGED <<key, made, creds>>

Sign ==
    /\ enrolment \notin {None, NoKey} /\ enrolment = key
    /\ creds' \in {Torn, [jwt |-> enrolment, seed |-> key]}
    /\ UNCHANGED <<key, made, enrolment>>

\* Only an agent that is not enrolled loses its key or its credentials.
DropKey ==
    /\ enrolment = None /\ key' = None
    /\ UNCHANGED <<made, enrolment, creds>>

DropCredentials ==
    /\ enrolment = None /\ creds' = None
    /\ UNCHANGED <<key, made, enrolment>>

Next == Make \/ Enrol \/ Withdraw \/ Sign \/ DropKey \/ DropCredentials

Spec == Init /\ [][Next]_vars
=============================================================================
