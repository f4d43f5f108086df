----------------------------- MODULE RunLifetime ------------------------------
(***************************************************************************)
(* The goroutines of one `run' command, from its start to the end of its   *)
(* process: the command itself, the two watchers of interrupts (the facts  *)
(* command it calls configures itself a second time and starts another),   *)
(* the timers of a forced end, the broker, its adapters and stream set-up, *)
(* the replicators, and the server.  They share one context and one wait   *)
(* group.                                                                  *)
(***************************************************************************)
EXTENDS Integers, FiniteSets

CONSTANTS
    Streams,               \* the streams that are replicated
    Roles,                 \* the roles a machine may have
    SlowSets,              \* the sets of goroutines that may be slow together
    Fails,                 \* goroutines that may end on their own
    DefaultShutdownGrace,  \* seconds from an interrupt to the forced end
    MaxSignals             \* bound on the interrupts that are sent

Counted == {"broker", "adapters", "server"}
Part == Counted \cup Streams

\* The stream set-up is the one goroutine the wait group does not count.
Goroutine == Part \cup {"setup"}

Watcher == {"run", "facts"}

ASSUME ParametersAssumption ==
    /\ IsFiniteSet(Streams)
    /\ Streams \cap (Counted \cup {"setup", "main"}) = {}
    /\ Roles \subseteq {"leader", "follower"}
    /\ \A S \in SlowSets : S \subseteq Goroutine \cup {"main"}
    /\ Fails \subseteq Goroutine
    /\ DefaultShutdownGrace \in Nat
    /\ MaxSignals \in Nat

VARIABLES
    role,      \* the role in the configuration
    slow,      \* the goroutines that need not notice that the context is done
    cancels,   \* the embedding program may cancel the context it passed
    main,      \* where runCommand is
    ctxDone,   \* the context of the command is cancelled
    watcher,   \* the state of each interruptWatcher
    pending,   \* a signal waits in the channel of the watcher
    waited,    \* seconds since the watcher started forceQuit, Idle if it has not
    task,      \* the state of each goroutine
    brokerUp,  \* what broker.Started() returns
    wg,        \* the counter of the wait group
    exit,      \* how the process ended; "alive" while it lives
    sent       \* interrupts sent so far

given == <<role, slow, cancels>>
signals == <<watcher, pending, waited>>
work == <<main, task, brokerUp, wg>>
vars == <<role, slow, cancels, main, ctxDone, watcher, pending, waited, task, brokerUp, wg,
          exit, sent>>

Idle == -1

TypeOK ==
    /\ role \in Roles
    /\ slow \in SlowSets
    /\ cancels \in BOOLEAN
    /\ main \in {"configure", "facts", "gathering", "broker", "await",
                 "replicate", "server", "wait"}
    /\ ctxDone \in BOOLEAN
    /\ watcher \in [Watcher -> {"none", "spawned", "watching", "done"}]
    /\ pending \in [Watcher -> BOOLEAN]
    /\ waited \in [Watcher -> Idle .. DefaultShutdownGrace]
    /\ task \in [Goroutine -> {"idle", "launched", "running", "returned", "ended"}]
    /\ brokerUp \in BOOLEAN
    /\ wg \in Int
    /\ exit \in {"alive", "ok", "error", "killed", "forced"}
    /\ sent \in 0 .. MaxSignals

Init ==
    /\ role \in Roles
    /\ slow \in SlowSets
    /\ cancels \in BOOLEAN
    /\ main = "configure"
    /\ ctxDone = FALSE
    /\ watcher = [w \in Watcher |-> "none"]
    /\ pending = [w \in Watcher |-> FALSE]
    /\ waited = [w \in Watcher |-> Idle]
    /\ task = [t \in Goroutine |-> "idle"]
    /\ brokerUp = FALSE
    /\ wg = 0
    /\ exit = "alive"
    /\ sent = 0

-----------------------------------------------------------------------------
(* runCommand *)

Spawn(w) == watcher' = [watcher EXCEPT ![w] = "spawned"]

\* CommonConfigure starts a watcher as its last step.
Configure ==
    /\ main = "configure"
    /\ Spawn("run")
    /\ main' = "facts"
    /\ UNCHANGED <<given, ctxDone, pending, waited, task, brokerUp, wg, exit, sent>>

\* The configuration is read, the user key is there, and the facts command
\* configures the process once more.  If that fails it is logged, and there is
\* no second watcher.
Facts ==
    /\ main = "facts"
    /\ Spawn("facts") \/ UNCHANGED watcher
    /\ main' = "gathering"
    /\ UNCHANGED <<given, ctxDone, pending, waited, task, brokerUp, wg, exit, sent>>

\* The facts are written, or that failed and is logged.
Gathered ==
    /\ main = "gathering"
    /\ main' = IF role = "leader" THEN "broker" ELSE "server"
    /\ UNCHANGED <<given, ctxDone, signals, task, brokerUp, wg, exit, sent>>

StartBroker ==
    /\ main = "broker"
    /\ task' = [task EXCEPT !["broker"] = "running"]
    /\ wg' = wg + 1
    /\ main' = "await"
    /\ UNCHANGED <<given, ctxDone, signals, brokerUp, exit, sent>>

\* The broker has started: the set-up of the streams begins beside it, and the
\* adapters, unless they fail to, which is only logged.
BrokerStarted ==
    /\ main = "await"
    /\ brokerUp
    /\ \E adapters \in BOOLEAN :
         /\ task' = [task EXCEPT !["setup"] = "running",
                                 !["adapters"] = IF adapters THEN "running" ELSE @]
         /\ wg' = IF adapters THEN wg + 1 ELSE wg
    /\ main' = "replicate"
    /\ UNCHANGED <<given, ctxDone, signals, brokerUp, exit, sent>>

\* Mutant: the sleep does not know the context.
AwaitInterrupted_Ignored ==
    /\ main = "await"
    /\ ctxDone
    /\ UNCHANGED vars

\* The sleep between two looks at the broker returns the context's error, and
\* so does every caller, while the broker is still stopping.
AwaitInterrupted ==
    /\ main = "await"
    /\ ctxDone
    /\ exit' = "error"
    /\ UNCHANGED <<given, ctxDone, signals, work, sent>>

\* Mutant: the count is taken inside the goroutine only.
Launch_Uncounted(s) ==
    /\ main = "replicate"
    /\ task[s] = "idle"
    /\ task' = [task EXCEPT ![s] = "launched"]
    /\ UNCHANGED <<given, main, ctxDone, signals, brokerUp, wg, exit, sent>>

\* Mutant: a replicator that has ended is launched once more.
Launch_Again(s) ==
    /\ main = "replicate"
    /\ task[s] \in {"idle", "ended"}
    /\ task' = [task EXCEPT ![s] = "launched"]
    /\ wg' = wg + 1
    /\ UNCHANGED <<given, main, ctxDone, signals, brokerUp, exit, sent>>

\* One pass of the loop over the streams, here in any order.
Launch(s) ==
    /\ main = "replicate"
    /\ task[s] = "idle"
    /\ task' = [task EXCEPT ![s] = "launched"]
    /\ wg' = wg + 1
    /\ UNCHANGED <<given, main, ctxDone, signals, brokerUp, exit, sent>>

ReplicationStarted ==
    /\ main = "replicate"
    /\ \A s \in Streams : task[s] # "idle"
    /\ main' = "server"
    /\ UNCHANGED <<given, ctxDone, signals, task, brokerUp, wg, exit, sent>>

\* Mutant: the server is started without a count.
StartServer_Uncounted ==
    /\ main = "server"
    /\ task' = [task EXCEPT !["server"] = "running"]
    /\ main' = "wait"
    /\ UNCHANGED <<given, ctxDone, signals, brokerUp, wg, exit, sent>>

\* Mutant: the server is counted once more for instance.Run.
StartServer_CountedTwice ==
    /\ main = "server"
    /\ task' = [task EXCEPT !["server"] = "running"]
    /\ wg' = wg + 2
    /\ main' = "wait"
    /\ UNCHANGED <<given, ctxDone, signals, brokerUp, exit, sent>>

StartServer ==
    /\ main = "server"
    /\ task' = [task EXCEPT !["server"] = "running"]
    /\ wg' = wg + 1
    /\ main' = "wait"
    /\ UNCHANGED <<given, ctxDone, signals, brokerUp, exit, sent>>

\* Every step before the wait may return an error, which ends the process and
\* whatever it has started.
Fail ==
    /\ main \in {"configure", "facts", "broker", "replicate", "server"}
    /\ exit' = "error"
    /\ UNCHANGED <<given, ctxDone, signals, work, sent>>

WaitReturns ==
    /\ main = "wait"
    /\ wg = 0
    /\ exit' = "ok"
    /\ UNCHANGED <<given, ctxDone, signals, work, sent>>

-----------------------------------------------------------------------------
(* The goroutines beside it *)

BrokerUp ==
    /\ task["broker"] = "running"
    /\ ~brokerUp
    /\ brokerUp' = TRUE
    /\ UNCHANGED <<given, main, ctxDone, signals, task, wg, exit, sent>>

\* The goroutine of a replicator counts once more for stream.Run.
ReplicatorRuns(s) ==
    /\ task[s] = "launched"
    /\ task' = [task EXCEPT ![s] = "running"]
    /\ wg' = wg + 1
    /\ UNCHANGED <<given, main, ctxDone, signals, brokerUp, exit, sent>>

\* stream.Run is done: it gives back its own count, and the goroutine then its.
ReplicatorReturns(s) ==
    /\ task[s] = "running"
    /\ ctxDone \/ s \in Fails
    /\ task' = [task EXCEPT ![s] = "returned"]
    /\ wg' = wg - 1
    /\ UNCHANGED <<given, main, ctxDone, signals, brokerUp, exit, sent>>

ReplicatorEnds(s) ==
    /\ task[s] = "returned"
    /\ task' = [task EXCEPT ![s] = "ended"]
    /\ wg' = wg - 1
    /\ UNCHANGED <<given, main, ctxDone, signals, brokerUp, exit, sent>>

\* A server that fails to run is logged and gives back its count like one that
\* was stopped.
Stops(t) ==
    /\ task[t] = "running"
    /\ ctxDone \/ t \in Fails
    /\ task' = [task EXCEPT ![t] = "ended"]
    /\ wg' = wg - 1
    /\ UNCHANGED <<given, main, ctxDone, signals, brokerUp, exit, sent>>

\* The set-up of the streams succeeds at a broker, or is interrupted.
SetupEnds ==
    /\ task["setup"] = "running"
    /\ task' = [task EXCEPT !["setup"] = "ended"]
    /\ UNCHANGED <<given, main, ctxDone, signals, brokerUp, wg, exit, sent>>

-----------------------------------------------------------------------------
(* Interrupts *)

Registered(w) == watcher[w] \in {"watching", "done"}

\* A signal goes to every channel it was registered for, one at most in each;
\* before the first registration it kills the process.  A watcher that has
\* returned is still registered and no longer reads.
Signal ==
    /\ sent < MaxSignals
    /\ sent' = sent + 1
    /\ IF \E w \in Watcher : Registered(w)
       THEN /\ pending' = [w \in Watcher |-> pending[w] \/ Registered(w)]
            /\ UNCHANGED exit
       ELSE /\ exit' = "killed"
            /\ UNCHANGED pending
    /\ UNCHANGED <<given, ctxDone, watcher, waited, work>>

Watch(w) ==
    /\ watcher[w] = "spawned"
    /\ watcher' = [watcher EXCEPT ![w] = "watching"]
    /\ UNCHANGED <<given, ctxDone, pending, waited, work, exit, sent>>

\* Mutant: the watcher cancels and leaves the rest to the goroutines.
Interrupt_NoTimer(w) ==
    /\ watcher[w] = "watching"
    /\ pending[w]
    /\ pending' = [pending EXCEPT ![w] = FALSE]
    /\ ctxDone' = TRUE
    /\ watcher' = [watcher EXCEPT ![w] = "done"]
    /\ UNCHANGED <<given, waited, work, exit, sent>>

\* The watcher takes the signal, starts the timer, cancels and returns.
Interrupt(w) ==
    /\ watcher[w] = "watching"
    /\ pending[w]
    /\ pending' = [pending EXCEPT ![w] = FALSE]
    /\ waited' = [waited EXCEPT ![w] = 0]
    /\ ctxDone' = TRUE
    /\ watcher' = [watcher EXCEPT ![w] = "done"]
    /\ UNCHANGED <<given, work, exit, sent>>

\* With a signal waiting as well, either of the two branches may be taken.
WatcherStops(w) ==
    /\ watcher[w] = "watching"
    /\ ctxDone
    /\ watcher' = [watcher EXCEPT ![w] = "done"]
    /\ UNCHANGED <<given, ctxDone, pending, waited, work, exit, sent>>

\* One second passes; no timer is late.
Tick ==
    /\ \E w \in Watcher : waited[w] # Idle
    /\ \A w \in Watcher : waited[w] < DefaultShutdownGrace
    /\ waited' = [w \in Watcher |-> IF waited[w] = Idle THEN Idle ELSE waited[w] + 1]
    /\ UNCHANGED <<given, ctxDone, watcher, pending, work, exit, sent>>

ForceQuit(w) ==
    /\ waited[w] = DefaultShutdownGrace
    /\ exit' = "forced"
    /\ UNCHANGED <<given, ctxDone, signals, work, sent>>

ParentCancel ==
    /\ cancels
    /\ ~ctxDone
    /\ ctxDone' = TRUE
    /\ UNCHANGED <<given, signals, work, exit, sent>>

-----------------------------------------------------------------------------
Command ==
    \/ Configure \/ Facts \/ Gathered
    \/ StartBroker \/ BrokerStarted \/ AwaitInterrupted
    \/ (\E s \in Streams : Launch(s)) \/ ReplicationStarted
    \/ StartServer \/ WaitReturns

Next ==
    /\ exit = "alive"
    /\ \/ Command
       \/ Fail
       \/ BrokerUp
       \/ \E s \in Streams :
            ReplicatorRuns(s) \/ ReplicatorReturns(s) \/ ReplicatorEnds(s)
       \/ \E t \in Counted : Stops(t)
       \/ SetupEnds
       \/ Signal
       \/ \E w \in Watcher :
            Watch(w) \/ Interrupt(w) \/ WatcherStops(w) \/ ForceQuit(w)
       \/ Tick
       \/ ParentCancel

Spec == Init /\ [][Next]_vars

\* The command and the goroutines go on unless they are slow; timers and
\* watchers do; nobody has to send a signal, and nothing has to fail.
Alive == exit = "alive"

Fairness ==
    /\ WF_vars(Alive /\ "main" \notin slow /\ Command)
    /\ \A s \in Streams :
         /\ WF_vars(Alive /\ s \notin slow /\ ReplicatorRuns(s))
         /\ WF_vars(Alive /\ s \notin slow /\ ctxDone /\ ReplicatorReturns(s))
         /\ WF_vars(Alive /\ s \notin slow /\ ReplicatorEnds(s))
    /\ \A t \in Counted : WF_vars(Alive /\ t \notin slow /\ ctxDone /\ Stops(t))
    /\ WF_vars(Alive /\ Tick)
    /\ \A w \in Watcher :
         /\ WF_vars(Alive /\ Watch(w))
         /\ WF_vars(Alive /\ Interrupt(w))
         /\ WF_vars(Alive /\ ForceQuit(w))

FairSpec == Spec /\ Fairness

-----------------------------------------------------------------------------
(* Properties *)

AtWork == {"launched", "running", "returned"}
Up == {t \in Part : task[t] \in AtWork}
Begun == {t \in Part : task[t] # "idle"}

Asked == sent > 0 \/ ctxDone

Gone == CASE exit = "alive" -> "no" [] exit = "ok" -> "clean" [] OTHER -> "abrupt"

Promise == INSTANCE Lifetime
               WITH begun <- Begun, up <- Up, asked <- Asked, gone <- Gone

\* runCommand returns after wg.Wait only when the broker, the adapters, every
\* replicator and the server are done, and none of them begins again after it
\* has ended: a replicator or a server that fails (replication.go, server.go) is
\* logged and left.
KeepsPromise == Promise!Spec

\* Whoever asks, by a signal or through the context, sees the process end: the
\* timers of forceQuit (util.go) see to it for a signal whatever is slow.  They
\* do not run when the embedding program cancels the context, and the watchers
\* (util.go, interruptWatcher) are gone then, so everything has to honour it.
StopsWhenAsked == slow = {} \/ ~cancels => Promise!StopsWhenAsked

\* While runCommand waits, no goroutine raises the counter from zero: that
\* would race with the wait and is a misuse of a wait group.
WaitGroupNotReused == [][main = "wait" /\ wg = 0 => wg' = 0]_vars

\* The wait group is never given back too often, which would be a panic, and
\* lets runCommand (command_run.go) go as soon as nothing is at work: a
\* replicator gives back two counts in two places, the broker, its adapters and
\* the server one each.
WaitIsExact == wg >= 0 /\ (wg = 0 <=> Up = {})

\* A signal that did not kill the process is never lost between the two
\* watchers (util.go, interruptWatcher): a timer of forceQuit runs, or one waits
\* in the channel of a watcher that still reads.  A context the embedding
\* program cancelled stops the watchers without a timer.
SignalHeeded ==
    exit = "alive" /\ sent > 0 =>
        \/ \E w \in Watcher : waited[w] # Idle
        \/ \E w \in Watcher : watcher[w] = "watching" /\ pending[w]
        \/ cancels /\ ctxDone

\* A follower whose server could not run (server.go, Start) does not stay
\* behind without it, so that the supervisor can start the next.
FailedServerEnds ==
    slow = {} /\ role = "follower" /\ task["server"] = "ended" ~> exit # "alive"
=============================================================================
