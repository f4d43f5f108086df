------------------------- MODULE RunLifetimeInductive -------------------------
(***************************************************************************)
(* The inductive invariant of RunLifetime: the counter of the wait group   *)
(* is the number of parts at work, plus one for every replicator inside    *)
(* stream.Run, and a part is idle until runCommand comes to start it.      *)
(* Heeding is the one about signals.                                       *)
(***************************************************************************)
EXTENDS RunLifetime

Inner == {s \in Streams : task[s] = "running"}

Counter == wg = Cardinality(Up) + Cardinality(Inner)

Early == {"configure", "facts", "gathering", "broker"}

NotYetStarted ==
    /\ main \in Early => task["broker"] = "idle"
    /\ main \in Early \cup {"await"} => task["adapters"] = "idle"
    /\ main # "wait" => task["server"] = "idle"
    /\ \A s \in Streams :
         main \in Early \cup {"await"} => task[s] = "idle"

IInv == TypeOK /\ Counter /\ NotYetStarted

\* SignalHeeded is inductive only with the reasons a watcher has to stop and a
\* context to be done: a watcher is started once, it returns when the context is
\* done, and that was the work of the embedding program or of a watcher that
\* started its timer.
Heeding ==
    /\ main = "configure" => watcher["run"] = "none"
    /\ main \in {"configure", "facts"} => watcher["facts"] = "none"
    /\ \A w \in Watcher : watcher[w] = "done" => ctxDone
    /\ ctxDone => cancels \/ \E w \in Watcher : waited[w] # Idle
    /\ SignalHeeded
=============================================================================
