------------------------ MODULE DesiredStateInductive -------------------------
(***************************************************************************)
(* The inductive invariant behind NeverGoesBack and ManagesFreshSpec.  It  *)
(* is a module of its own so that TLC can check it and the proofs use it.  *)
(***************************************************************************)
EXTENDS DesiredState

\* Nothing node n has, or is about to take over, is newer than v.
Behind(n, v) == installed[n] <= v /\ data[n] <= v /\ answer[n] <= v /\ since[n] <= v

\* The back-end keeps its newest desired state only, and nobody is ahead of it;
\* the replicator never holds anything older than the leader's bucket.
Ordered ==
    /\ source \subseteq {saas}
    /\ local <= saas /\ fetched <= saas
    /\ fetched # 0 => local <= fetched

\* A node follows the leader's bucket, unless it was emptied, and then what the
\* replicator brings; what it takes over or manages is not old.
Follows(n) ==
    /\ Behind(n, saas)
    /\ local # 0 => Behind(n, local)
    /\ fetched # 0 => Behind(n, fetched)
    /\ answer[n] # 0 => Behind(n, answer[n])
    /\ data[n] # 0 /\ state[n] # "INITIAL" => installed[n] <= data[n] /\ since[n] <= data[n]

\* NeverGoesBack is not inductive: that what a replicator or a poll holds is
\* not older than what it replaces has to be known while it is on its way.
IInv == TypeOK /\ Ordered /\ \A n \in Nodes : Follows(n)
=============================================================================
