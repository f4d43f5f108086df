------------------------------ MODULE Lifetime -------------------------------
(***************************************************************************)
(* What the `run' command promises about its end, without signals,         *)
(* watchers, wait groups or timers: once it is asked to stop it ends, no   *)
(* part begins a second time, and it only reports a clean end when none of *)
(* its parts is still at work.                                             *)
(***************************************************************************)
CONSTANT Part  \* the parts that work beside the command itself

VARIABLES
    begun,  \* the parts that have begun, at work or not any more
    up,     \* the parts at work
    asked,  \* somebody asked the command to stop
    gone    \* how the process ended; "no" while it lives

vars == <<begun, up, asked, gone>>

TypeOK ==
    /\ begun \subseteq Part
    /\ up \subseteq begun
    /\ asked \in BOOLEAN
    /\ gone \in {"no", "clean", "abrupt"}

Init == begun = {} /\ up = {} /\ asked = FALSE /\ gone = "no"

\* A part that has ended never begins again.
Begin(p) ==
    /\ p \notin begun
    /\ begun' = begun \cup {p} /\ up' = up \cup {p}
    /\ UNCHANGED <<asked, gone>>

End(p) == p \in up /\ up' = up \ {p} /\ UNCHANGED <<begun, asked, gone>>

Ask == asked' = TRUE /\ gone' \in {"no", "abrupt"} /\ UNCHANGED <<begun, up>>

Leave == up = {} /\ gone' = "clean" /\ UNCHANGED <<begun, up, asked>>

\* The process ends by an error, a signal or a timer, whatever is at work.
Abandon == gone' = "abrupt" /\ UNCHANGED <<begun, up, asked>>

Next ==
    /\ gone = "no"
    /\ \/ \E p \in Part : Begin(p) \/ End(p)
       \/ Ask \/ Leave \/ Abandon

Spec == Init /\ [][Next]_vars

\* A command that was asked to stop does not go on for ever.
StopsWhenAsked == asked ~> gone # "no"
=============================================================================
