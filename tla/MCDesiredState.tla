---------------------------- MODULE MCDesiredState ----------------------------
(* Values for the constants of DesiredState, for TLC. *)
EXTENDS DesiredStateInductive

\* Nodes only meet in the leader's bucket: one of them is looked at, which is
\* the leader or is not.  When it is not, the leader is a node beside it, whose
\* reset must empty the bucket and nothing else, and the other way round.
One == {"n1"}
AnyLeader == {"n1", "n2"}

Rough ==
    [e \in Event |-> CASE e = "fault" -> 1 [] e = "restart" -> 1
                       [] e = "reset" -> 1 [] e = "outage" -> 1]
=============================================================================
