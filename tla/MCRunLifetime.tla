---------------------------- MODULE MCRunLifetime -----------------------------
(* Values for the constants of RunLifetime, for TLC. *)
EXTENDS RunLifetimeInductive

OneStream == {"SUBMIT"}

Both == {"leader", "follower"}

\* Either everything honours the context or nothing has to.
NothingOrAll == {{}, Goroutine \cup {"main"}}

Anything == Goroutine
=============================================================================
