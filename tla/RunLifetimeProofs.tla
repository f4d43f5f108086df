-------------------------- MODULE RunLifetimeProofs ---------------------------
(***************************************************************************)
(* Theorems of RunLifetime, for every set of streams, every choice of slow *)
(* and failing goroutines and any number of interrupts: the wait group is  *)
(* counted right, is not misused, and the command keeps the safety part of *)
(* the promise in Lifetime.                                                *)
(***************************************************************************)
EXTENDS RunLifetimeInductive, FiniteSetTheorems, TLAPS

\* There are finitely many parts: three and the streams.
LEMMA PartFinite == IsFiniteSet(Part)
<1>1. IsFiniteSet({"broker"})
  BY FS_Singleton
<1>2. IsFiniteSet({"broker"} \cup {"adapters"})
  BY <1>1, FS_AddElement
<1>3. IsFiniteSet(({"broker"} \cup {"adapters"}) \cup {"server"})
  BY <1>2, FS_AddElement
<1>4. Counted = ({"broker"} \cup {"adapters"}) \cup {"server"}
  BY DEF Counted
<1> QED
  BY <1>3, <1>4, FS_Union, ParametersAssumption DEF Part

\* The sets the counter is compared with are finite, so that their
\* cardinalities are numbers.
LEMMA Finite ==
    /\ IsFiniteSet(Up) /\ Cardinality(Up) \in Nat
    /\ IsFiniteSet(Inner) /\ Cardinality(Inner) \in Nat
<1>1. Up \subseteq Part /\ Inner \subseteq Streams
  BY DEF Up, Inner
<1>2. IsFiniteSet(Up) /\ IsFiniteSet(Inner)
  BY <1>1, PartFinite, FS_Subset, ParametersAssumption
<1> QED
  BY <1>2, FS_CardinalityType

\* When one goroutine changes its state, the two sets gain or lose it.
LEMMA OneChanges ==
    ASSUME TypeOK, NEW t \in Goroutine, NEW v, task' = [task EXCEPT ![t] = v]
    PROVE  /\ Up' = IF t \in Part /\ v \in AtWork THEN Up \cup {t} ELSE Up \ {t}
           /\ Inner' = IF t \in Streams /\ v = "running"
                       THEN Inner \cup {t} ELSE Inner \ {t}
  BY DEF TypeOK, Up, Inner, Goroutine, Part

\* What a goroutine that begins adds to the counter: a part that was not at
\* work adds one, whether or not it counts itself a second time.
LEMMA Begins ==
    ASSUME TypeOK, NEW t \in Part, t \notin Up,
           NEW v \in {"launched", "running"}, v = "running" => t \notin Streams,
           task' = [task EXCEPT ![t] = v]
    PROVE  /\ Up' = Up \cup {t}
           /\ Cardinality(Up') = Cardinality(Up) + 1
           /\ Cardinality(Inner') = Cardinality(Inner)
<1>1. t \in Goroutine /\ v \in AtWork
  BY DEF Goroutine, AtWork
<1>2. Up' = Up \cup {t} /\ Inner' = Inner \ {t}
  BY <1>1, OneChanges
<1>3. t \notin Inner
  BY DEF Inner, Up, AtWork
<1>4. Inner' = Inner
  BY <1>2, <1>3
<1> QED
  BY <1>2, <1>4, Finite, FS_AddElement

\* What a part that ends takes from the counter.
LEMMA Ends ==
    ASSUME TypeOK, NEW t \in Part, t \in Up, t \notin Inner,
           task' = [task EXCEPT ![t] = "ended"]
    PROVE  /\ Up' = Up \ {t}
           /\ Cardinality(Up') = Cardinality(Up) - 1
           /\ Cardinality(Inner') = Cardinality(Inner)
<1>1. t \in Goroutine /\ "ended" \notin AtWork
  BY DEF Goroutine, AtWork
<1>2. Up' = Up \ {t} /\ Inner' = Inner \ {t}
  BY <1>1, OneChanges
<1>3. Inner' = Inner
  BY <1>2
<1> QED
  BY <1>2, <1>3, Finite, FS_RemoveElement

\* Names of goroutines that are no streams.
LEMMA Names ==
    /\ {"broker", "adapters", "server"} \subseteq Part /\ Streams \subseteq Part
    /\ {"broker", "adapters", "server", "setup"} \cap Streams = {}
    /\ Part \subseteq Goroutine /\ "setup" \in Goroutine /\ "setup" \notin Part
  BY ParametersAssumption DEF Part, Counted, Goroutine

-----------------------------------------------------------------------------
\* The invariant holds at the start: nothing is at work and nothing is counted.
LEMMA InitInv == Init => IInv
<1> SUFFICES ASSUME Init PROVE IInv
  OBVIOUS
<1>1. TypeOK
  <2>1. Idle \in Idle .. DefaultShutdownGrace /\ 0 \in 0 .. MaxSignals
    BY ParametersAssumption DEF Idle
  <2>2. waited \in [Watcher -> Idle .. DefaultShutdownGrace] /\ sent \in 0 .. MaxSignals
    BY <2>1 DEF Init
  <2>3. task \in [Goroutine -> {"idle", "launched", "running", "returned", "ended"}]
    BY DEF Init
  <2>4. watcher \in [Watcher -> {"none", "spawned", "watching", "done"}]
    BY DEF Init
  <2>5. pending \in [Watcher -> BOOLEAN] /\ cancels \in BOOLEAN
        /\ ctxDone \in BOOLEAN /\ brokerUp \in BOOLEAN
    BY Zenon DEF Init
  <2> QED
    BY <2>2, <2>3, <2>4, <2>5 DEF Init, TypeOK
<1>2. Up = {} /\ Inner = {}
  BY DEF Init, Up, Inner, AtWork, Goroutine, Part
<1>3. Counter
  BY <1>2, FS_EmptySet DEF Init, Counter
<1>4. NotYetStarted
  BY Names DEF Init, NotYetStarted
<1> QED
  BY <1>1, <1>3, <1>4 DEF IInv

\* Every step keeps the types.
LEMMA StepType == TypeOK /\ [Next]_vars => TypeOK'
<1> SUFFICES ASSUME TypeOK, [Next]_vars PROVE TypeOK'
  OBVIOUS
<1> USE Names DEF TypeOK, given, signals, work
<1>1. ASSUME Command PROVE TypeOK'
  <2>1. CASE Configure
    BY <2>1 DEF Configure, Spawn
  <2>2. CASE Facts
    BY <2>2 DEF Facts, Spawn
  <2>3. CASE Gathered
    BY <2>3 DEF Gathered
  <2>4. CASE StartBroker
    BY <2>4 DEF StartBroker
  <2>5. CASE BrokerStarted
    BY <2>5 DEF BrokerStarted
  <2>6. CASE AwaitInterrupted
    BY <2>6 DEF AwaitInterrupted
  <2>7. ASSUME NEW s \in Streams, Launch(s) PROVE TypeOK'
    BY <2>7 DEF Launch
  <2>8. CASE ReplicationStarted
    BY <2>8 DEF ReplicationStarted
  <2>9. CASE StartServer
    BY <2>9 DEF StartServer
  <2>10. CASE WaitReturns
    BY <2>10 DEF WaitReturns
  <2> QED
    BY <1>1, <2>1, <2>2, <2>3, <2>4, <2>5, <2>6, <2>7, <2>8, <2>9, <2>10
    DEF Command
<1>2. CASE Fail
  BY <1>2 DEF Fail
<1>3. CASE BrokerUp
  BY <1>3 DEF BrokerUp
<1>4. ASSUME NEW s \in Streams,
             ReplicatorRuns(s) \/ ReplicatorReturns(s) \/ ReplicatorEnds(s)
      PROVE  TypeOK'
  BY <1>4 DEF ReplicatorRuns, ReplicatorReturns, ReplicatorEnds
<1>5. ASSUME NEW t \in Counted, Stops(t) PROVE TypeOK'
  BY <1>5 DEF Stops, Counted
<1>6. CASE SetupEnds
  BY <1>6 DEF SetupEnds
<1>7. CASE Signal
  <2>1. sent' \in 0 .. MaxSignals
    BY <1>7, ParametersAssumption DEF Signal
  <2>2. pending' \in [Watcher -> BOOLEAN] /\ exit' \in {"alive", "ok", "error", "killed", "forced"}
    BY <1>7, Zenon DEF Signal
  <2> QED
    BY <1>7, <2>1, <2>2 DEF Signal
<1>8. ASSUME NEW w \in Watcher,
             Watch(w) \/ Interrupt(w) \/ WatcherStops(w) \/ ForceQuit(w)
      PROVE  TypeOK'
  <2>1. CASE Watch(w)
    BY <2>1 DEF Watch
  <2>2. CASE Interrupt(w)
    <3>1. 0 \in Idle .. DefaultShutdownGrace
      BY ParametersAssumption DEF Idle
    <3> QED
      BY <2>2, <3>1 DEF Interrupt
  <2>3. CASE WatcherStops(w)
    BY <2>3 DEF WatcherStops
  <2>4. CASE ForceQuit(w)
    BY <2>4 DEF ForceQuit
  <2> QED
    BY <1>8, <2>1, <2>2, <2>3, <2>4
<1>9. CASE Tick
  BY <1>9, ParametersAssumption DEF Tick, Idle
<1>10. CASE ParentCancel
  BY <1>10 DEF ParentCancel
<1>11. CASE UNCHANGED vars
  BY <1>11 DEF vars
<1> QED
  BY <1>1, <1>2, <1>3, <1>4, <1>5, <1>6, <1>7, <1>8, <1>9, <1>10, <1>11
  DEF Next

-----------------------------------------------------------------------------
\* Every step keeps the counter right: a launch adds a part at work, a return
\* takes one away, and stream.Run counts once more while it runs.
LEMMA StepCounter == IInv /\ [Next]_vars => Counter'
<1> SUFFICES ASSUME IInv, [Next]_vars PROVE Counter'
  OBVIOUS
<1> USE Finite
<1>0. TypeOK /\ Counter /\ NotYetStarted
  BY DEF IInv
<1>1. ASSUME UNCHANGED <<task, wg>> PROVE Counter'
  BY <1>0, <1>1 DEF Counter, Up, Inner
<1>2. ASSUME NEW t \in Part, NEW v \in {"launched", "running"},
             task[t] = "idle", v = "running" => t \notin Streams,
             task' = [task EXCEPT ![t] = v], wg' = wg + 1
      PROVE  Counter'
  <2>1. t \notin Up
    BY <1>2 DEF Up, AtWork
  <2>2. Cardinality(Up') = Cardinality(Up) + 1 /\ Cardinality(Inner') = Cardinality(Inner)
    BY <1>0, <1>2, <2>1, Begins
  <2> QED
    BY <1>0, <1>2, <2>2 DEF Counter
<1>3. ASSUME NEW t \in Part, task[t] \in AtWork, t \notin Inner,
             task' = [task EXCEPT ![t] = "ended"], wg' = wg - 1
      PROVE  Counter'
  <2>1. t \in Up
    BY <1>3 DEF Up
  <2>2. Cardinality(Up') = Cardinality(Up) - 1 /\ Cardinality(Inner') = Cardinality(Inner)
    BY <1>0, <1>3, <2>1, Ends
  <2> QED
    BY <1>0, <1>3, <2>2 DEF Counter
<1>4. ASSUME Command PROVE Counter'
  <2>1. CASE StartBroker
    BY <1>0, <1>2, <2>1, Names DEF StartBroker, NotYetStarted, Early
  <2>2. CASE BrokerStarted
    <3>1. PICK adapters \in BOOLEAN :
            /\ task' = [task EXCEPT !["setup"] = "running",
                                    !["adapters"] = IF adapters THEN "running" ELSE @]
            /\ wg' = IF adapters THEN wg + 1 ELSE wg
      BY <2>2 DEF BrokerStarted
    <3>2. task["adapters"] = "idle"
      BY <1>0, <2>2 DEF BrokerStarted, NotYetStarted
    <3>3. Inner' = Inner
      BY <1>0, <3>1, Names DEF TypeOK, Inner
    <3>4. CASE adapters
      <4>1. "adapters" \notin Up
        BY <3>2 DEF Up, AtWork
      <4>2. Up' = Up \cup {"adapters"}
        BY <1>0, <3>1, <3>2, <3>4, Names DEF TypeOK, Up, AtWork
      <4>3. Cardinality(Up') = Cardinality(Up) + 1
        BY <4>1, <4>2, FS_AddElement
      <4> QED
        BY <1>0, <3>1, <3>3, <3>4, <4>3 DEF Counter
    <3>5. CASE ~adapters
      <4>1. Up' = Up
        BY <1>0, <3>1, <3>5, Names DEF TypeOK, Up
      <4> QED
        BY <1>0, <3>1, <3>3, <3>5, <4>1 DEF Counter
    <3> QED
      BY <3>4, <3>5
  <2>3. ASSUME NEW s \in Streams, Launch(s) PROVE Counter'
    BY <1>2, <2>3, Names DEF Launch
  <2>4. CASE StartServer
    BY <1>0, <1>2, <2>4, Names DEF StartServer, NotYetStarted
  <2>5. CASE \/ Configure \/ Facts \/ Gathered \/ AwaitInterrupted
             \/ ReplicationStarted \/ WaitReturns
    BY <1>1, <2>5 DEF Configure, Facts, Gathered, AwaitInterrupted,
                      ReplicationStarted, WaitReturns, work
  <2> QED
    BY <1>4, <2>1, <2>2, <2>3, <2>4, <2>5 DEF Command
<1>5. ASSUME NEW s \in Streams, ReplicatorRuns(s) PROVE Counter'
  <2>1. Up' = Up
    BY <1>0, <1>5, Names DEF ReplicatorRuns, TypeOK, Up, AtWork
  <2>2. s \notin Inner /\ Inner' = Inner \cup {s}
    BY <1>0, <1>5, Names DEF ReplicatorRuns, TypeOK, Inner
  <2>3. Cardinality(Inner') = Cardinality(Inner) + 1
    BY <2>2, FS_AddElement
  <2> QED
    BY <1>0, <1>5, <2>1, <2>3 DEF Counter, ReplicatorRuns
<1>6. ASSUME NEW s \in Streams, ReplicatorReturns(s) PROVE Counter'
  <2>1. Up' = Up
    BY <1>0, <1>6, Names DEF ReplicatorReturns, TypeOK, Up, AtWork
  <2>2. s \in Inner /\ Inner' = Inner \ {s}
    BY <1>0, <1>6, Names DEF ReplicatorReturns, TypeOK, Inner
  <2>3. Cardinality(Inner') = Cardinality(Inner) - 1
    BY <2>2, FS_RemoveElement
  <2> QED
    BY <1>0, <1>6, <2>1, <2>3 DEF Counter, ReplicatorReturns
<1>7. ASSUME NEW s \in Streams, ReplicatorEnds(s) PROVE Counter'
  BY <1>3, <1>7, Names DEF ReplicatorEnds, AtWork, Inner
<1>8. ASSUME NEW t \in Counted, Stops(t) PROVE Counter'
  <2>1. t \in Part /\ t \notin Streams
    BY ParametersAssumption DEF Part
  <2> QED
    BY <1>3, <1>8, <2>1 DEF Stops, AtWork, Inner
<1>9. CASE SetupEnds
  <2>1. Up' = Up /\ Inner' = Inner
    BY <1>0, <1>9, Names DEF SetupEnds, TypeOK, Up, Inner
  <2> QED
    BY <1>0, <1>9, <2>1 DEF Counter, SetupEnds
<1>10. CASE Fail \/ BrokerUp \/ Signal \/ Tick \/ ParentCancel \/ UNCHANGED vars
  BY <1>1, <1>10 DEF Fail, BrokerUp, Signal, Tick, ParentCancel, vars, work
<1>11. ASSUME NEW w \in Watcher,
              Watch(w) \/ Interrupt(w) \/ WatcherStops(w) \/ ForceQuit(w)
       PROVE  Counter'
  BY <1>1, <1>11 DEF Watch, Interrupt, WatcherStops, ForceQuit, work
<1> QED
  BY <1>4, <1>5, <1>6, <1>7, <1>8, <1>9, <1>10, <1>11 DEF Next

\* Every step leaves alone what runCommand has not come to.
LEMMA StepOrder == IInv /\ [Next]_vars => NotYetStarted'
<1> SUFFICES ASSUME IInv, [Next]_vars PROVE NotYetStarted'
  OBVIOUS
<1> USE Names DEF IInv, TypeOK, NotYetStarted, Early, given
<1>1. ASSUME Command PROVE NotYetStarted'
  <2>1. CASE StartBroker
    BY <2>1 DEF StartBroker
  <2>2. CASE BrokerStarted
    BY <2>2 DEF BrokerStarted
  <2>3. ASSUME NEW s \in Streams, Launch(s) PROVE NotYetStarted'
    BY <2>3 DEF Launch
  <2>4. CASE StartServer
    BY <2>4 DEF StartServer
  <2>5. CASE Configure \/ Facts \/ Gathered
    BY <2>5 DEF Configure, Facts, Gathered
  <2>6. CASE AwaitInterrupted \/ ReplicationStarted \/ WaitReturns
    BY <2>6 DEF AwaitInterrupted, ReplicationStarted, WaitReturns, work
  <2> QED
    BY <1>1, <2>1, <2>2, <2>3, <2>4, <2>5, <2>6 DEF Command
<1>2. ASSUME NEW s \in Streams,
             ReplicatorRuns(s) \/ ReplicatorReturns(s) \/ ReplicatorEnds(s)
      PROVE  NotYetStarted'
  BY <1>2 DEF ReplicatorRuns, ReplicatorReturns, ReplicatorEnds
<1>3. ASSUME NEW t \in Counted, Stops(t) PROVE NotYetStarted'
  <2>1. t \in Goroutine /\ t \notin Streams
    BY ParametersAssumption DEF Part, Goroutine
  <2> QED
    BY <1>3, <2>1 DEF Stops
<1>4. CASE SetupEnds
  BY <1>4 DEF SetupEnds
<1>5. CASE Fail \/ BrokerUp \/ Signal \/ Tick \/ ParentCancel \/ UNCHANGED vars
  BY <1>5 DEF Fail, BrokerUp, Signal, Tick, ParentCancel, vars, work
<1>6. ASSUME NEW w \in Watcher,
             Watch(w) \/ Interrupt(w) \/ WatcherStops(w) \/ ForceQuit(w)
      PROVE  NotYetStarted'
  BY <1>6 DEF Watch, Interrupt, WatcherStops, ForceQuit, work
<1> QED
  BY <1>1, <1>2, <1>3, <1>4, <1>5, <1>6 DEF Next

\* The counter of the wait group counts what is at work, in every reachable
\* state.
THEOREM WaitGroupCounts == Spec => []IInv
<1>1. IInv /\ [Next]_vars => IInv'
  BY StepType, StepCounter, StepOrder DEF IInv
<1> QED
  BY InitInv, <1>1, PTL DEF Spec

-----------------------------------------------------------------------------
\* A counter of zero means that nothing is at work.
LEMMA ZeroMeansDone ==
    ASSUME IInv, wg = 0
    PROVE  Up = {} /\ Inner = {}
<1>1. Cardinality(Up) = 0 /\ Cardinality(Inner) = 0
  BY Finite DEF IInv, Counter
<1> QED
  BY <1>1, Finite, FS_EmptySet

\* While runCommand waits at a counter of zero no step raises it.
LEMMA StepNotReused == IInv /\ [Next]_vars => (main = "wait" /\ wg = 0 => wg' = 0)
<1> SUFFICES ASSUME IInv, [Next]_vars, main = "wait", wg = 0 PROVE wg' = 0
  OBVIOUS
<1>1. \A t \in Part : task[t] \notin AtWork
  BY ZeroMeansDone DEF Up
<1>2. CASE Command
  BY <1>2 DEF Command, Configure, Facts, Gathered, StartBroker, BrokerStarted,
              AwaitInterrupted, Launch, ReplicationStarted, StartServer,
              WaitReturns, work
<1>3. ASSUME NEW s \in Streams,
             ReplicatorRuns(s) \/ ReplicatorReturns(s) \/ ReplicatorEnds(s)
      PROVE  FALSE
  BY <1>1, <1>3, Names DEF ReplicatorRuns, ReplicatorReturns, ReplicatorEnds, AtWork
<1>4. ASSUME NEW t \in Counted, Stops(t) PROVE FALSE
  BY <1>1, <1>4 DEF Stops, AtWork, Part
<1>5. CASE Fail \/ BrokerUp \/ SetupEnds \/ Signal \/ Tick \/ ParentCancel \/ UNCHANGED vars
  BY <1>5 DEF Fail, BrokerUp, SetupEnds, Signal, Tick, ParentCancel, vars, work
<1>6. ASSUME NEW w \in Watcher,
             Watch(w) \/ Interrupt(w) \/ WatcherStops(w) \/ ForceQuit(w)
      PROVE  wg' = 0
  BY <1>6 DEF Watch, Interrupt, WatcherStops, ForceQuit, work
<1> QED
  BY <1>2, <1>3, <1>4, <1>5, <1>6 DEF Next

\* The wait group of runCommand is not reused while it is waited for.
THEOREM NotReused == Spec => WaitGroupNotReused
<1>1. IInv /\ [Next]_vars => [main = "wait" /\ wg = 0 => wg' = 0]_vars
  BY StepNotReused
<1> QED
  BY WaitGroupCounts, <1>1, PTL DEF Spec, WaitGroupNotReused

\* The wait group of runCommand (command_run.go) never falls below zero and is
\* zero exactly when nothing is at work: no count is given back twice or left.
THEOREM WaitEndsInTime == Spec => []WaitIsExact
<1>1. IInv => WaitIsExact
  <2> SUFFICES ASSUME IInv PROVE WaitIsExact
    OBVIOUS
  <2>1. wg >= 0
    BY Finite DEF IInv, Counter
  <2>2. wg = 0 => Up = {}
    BY ZeroMeansDone
  <2>3. ASSUME Up = {} PROVE wg = 0
    <3>1. Inner \subseteq Up
      BY Names DEF Inner, Up, AtWork
    <3>2. Cardinality(Up) = 0 /\ Cardinality(Inner) = 0
      BY <2>3, <3>1, FS_EmptySet
    <3> QED
      BY <3>2 DEF IInv, Counter
  <2> QED
    BY <2>1, <2>2, <2>3 DEF WaitIsExact
<1> QED
  BY <1>1, WaitGroupCounts, PTL

-----------------------------------------------------------------------------
(* Signals. *)

\* When the watchers are started: SignalHeeded is about the rest of Heeding.
WatchersOnce ==
    /\ main = "configure" => watcher["run"] = "none"
    /\ main \in {"configure", "facts"} => watcher["facts"] = "none"

StopsForAReason ==
    /\ \A w \in Watcher : watcher[w] = "done" => ctxDone
    /\ ctxDone => cancels \/ \E w \in Watcher : waited[w] # Idle

LEMMA HeedingParts == Heeding <=> WatchersOnce /\ StopsForAReason /\ SignalHeeded
  BY DEF Heeding, WatchersOnce, StopsForAReason

\* No step starts a watcher that was started before.
LEMMA StepWatchers == TypeOK /\ WatchersOnce /\ [Next]_vars => WatchersOnce'
<1> SUFFICES ASSUME TypeOK, WatchersOnce, [Next]_vars PROVE WatchersOnce'
  OBVIOUS
<1> USE DEF WatchersOnce
<1>1. CASE Command
  <2>1. CASE Configure \/ Facts
    BY <2>1 DEF Configure, Facts, Spawn, TypeOK, Watcher
  <2>2. CASE ~Configure /\ ~Facts
    <3>1. watcher' = watcher /\ (main' = main \/ main' \notin {"configure", "facts"})
      BY <1>1, <2>2 DEF Command, Gathered, StartBroker, BrokerStarted, AwaitInterrupted,
         Launch, ReplicationStarted, StartServer, WaitReturns, signals, work
    <3> QED
      BY <3>1
  <2> QED
    BY <2>1, <2>2
<1>2. ASSUME NEW w \in Watcher, Watch(w) \/ Interrupt(w) \/ WatcherStops(w) \/ ForceQuit(w)
      PROVE  WatchersOnce'
  <2>1. main' = main
    BY <1>2 DEF Watch, Interrupt, WatcherStops, ForceQuit, work
  <2>2. CASE ForceQuit(w)
    BY <2>1, <2>2 DEF ForceQuit, signals
  <2>3. PICK v : watcher' = watcher \/ (watcher[w] # "none" /\ watcher' = [watcher EXCEPT ![w] = v])
    BY <1>2, <2>2 DEF Watch, Interrupt, WatcherStops, ForceQuit, signals
  <2> QED
    BY <2>1, <2>3 DEF TypeOK, Watcher
<1>3. CASE \/ Fail \/ BrokerUp \/ SetupEnds \/ Signal \/ Tick \/ ParentCancel \/ UNCHANGED vars
           \/ \E s \in Streams : ReplicatorRuns(s) \/ ReplicatorReturns(s) \/ ReplicatorEnds(s)
           \/ \E t \in Counted : Stops(t)
  <2>1. main' = main /\ watcher' = watcher
    BY <1>3 DEF Fail, BrokerUp, SetupEnds, Signal, Tick, ParentCancel, vars, ReplicatorRuns,
       ReplicatorReturns, ReplicatorEnds, Stops, signals, work
  <2> QED
    BY <2>1
<1> QED
  BY <1>1, <1>2, <1>3 DEF Next

\* A timer that runs goes on, and then nothing else is asked of a step.
LEMMA TimerSuffices ==
    ASSUME NEW w \in Watcher, waited'[w] # Idle, ctxDone'
    PROVE  StopsForAReason' /\ SignalHeeded'
  BY DEF StopsForAReason, SignalHeeded

\* A step that leaves signals and the context alone, and may end the process.
LEMMA SignalsSame ==
    ASSUME StopsForAReason, SignalHeeded,
           UNCHANGED <<cancels, ctxDone, watcher, pending, waited, sent>>,
           exit' = exit \/ exit' # "alive"
    PROVE  StopsForAReason' /\ SignalHeeded'
  BY DEF StopsForAReason, SignalHeeded

\* No step loses a signal.
LEMMA StepHeeds == TypeOK /\ Heeding /\ [Next]_vars => StopsForAReason' /\ SignalHeeded'
<1> SUFFICES ASSUME TypeOK, WatchersOnce, StopsForAReason, SignalHeeded, [Next]_vars
             PROVE  StopsForAReason' /\ SignalHeeded'
  BY HeedingParts
<1>1. CASE \/ Command /\ ~Configure /\ ~Facts
           \/ Fail \/ BrokerUp \/ SetupEnds \/ UNCHANGED vars
           \/ \E s \in Streams : ReplicatorRuns(s) \/ ReplicatorReturns(s) \/ ReplicatorEnds(s)
           \/ \E t \in Counted : Stops(t)
           \/ \E w \in Watcher : ForceQuit(w)
  <2>1. UNCHANGED <<cancels, ctxDone, watcher, pending, waited, sent>>
    BY <1>1 DEF Command, Gathered, StartBroker, BrokerStarted, AwaitInterrupted, Launch,
       ReplicationStarted, StartServer, WaitReturns, Fail, BrokerUp, SetupEnds, ReplicatorRuns,
       ReplicatorReturns, ReplicatorEnds, Stops, ForceQuit, given, signals, vars
  <2>2. exit' = exit \/ exit' # "alive"
    BY <1>1 DEF Command, Gathered, StartBroker, BrokerStarted, AwaitInterrupted, Launch,
       ReplicationStarted, StartServer, WaitReturns, Fail, BrokerUp, SetupEnds, ReplicatorRuns,
       ReplicatorReturns, ReplicatorEnds, Stops, ForceQuit, vars
  <2> QED
    BY <2>1, <2>2, SignalsSame
\* A watcher that was not reading is started or begins to read.
<1>2. ASSUME NEW w \in Watcher, NEW v \in {"spawned", "watching"}, watcher[w] # "watching",
             watcher' = [watcher EXCEPT ![w] = v],
             UNCHANGED <<cancels, ctxDone, pending, waited, sent, exit>>
      PROVE  StopsForAReason' /\ SignalHeeded'
  <2>1. \A u \in Watcher : watcher'[u] = "done" => watcher[u] = "done"
    BY <1>2 DEF TypeOK
  <2>2. \A u \in Watcher : watcher[u] = "watching" => watcher'[u] = "watching"
    BY <1>2 DEF TypeOK
  <2> QED
    BY <1>2, <2>1, <2>2 DEF StopsForAReason, SignalHeeded
<1>3. CASE Configure \/ Facts \/ \E w \in Watcher : Watch(w)
  <2>1. CASE Facts /\ UNCHANGED watcher
    BY <2>1, SignalsSame DEF Facts, given
  <2>2. CASE \/ Configure
             \/ Facts /\ Spawn("facts")
             \/ \E w \in Watcher : Watch(w)
    BY <1>2, <2>2 DEF WatchersOnce, Configure, Facts, Spawn, Watch, given, Watcher
  <2> QED
    BY <1>3, <2>1, <2>2 DEF Facts
<1>4. CASE Signal
  <2>1. UNCHANGED <<cancels, ctxDone, watcher, waited>>
    BY <1>4 DEF Signal, given
  <2>2. CASE \E w \in Watcher : Registered(w)
    <3>1. PICK w \in Watcher : Registered(w)
      BY <2>2
    <3>2. pending' = [v \in Watcher |-> pending[v] \/ Registered(v)]
      BY <1>4, <2>2 DEF Signal
    <3>3. pending'[w]
      BY <3>1, <3>2, Zenon
    <3>4. watcher[w] = "watching" \/ watcher[w] = "done"
      BY <3>1 DEF Registered
    <3> QED
      BY <2>1, <3>3, <3>4 DEF StopsForAReason, SignalHeeded
  <2>3. CASE ~ \E w \in Watcher : Registered(w)
    <3>1. exit' = "killed"
      BY <1>4, <2>3 DEF Signal
    <3> QED
      BY <2>1, <3>1 DEF StopsForAReason, SignalHeeded
  <2> QED
    BY <2>2, <2>3
<1>5. ASSUME NEW w \in Watcher, Interrupt(w) PROVE StopsForAReason' /\ SignalHeeded'
  <2>1. ctxDone' /\ waited' = [waited EXCEPT ![w] = 0]
    BY <1>5 DEF Interrupt
  <2>2. waited'[w] # Idle
    BY <2>1 DEF TypeOK, Idle
  <2> QED
    BY <2>1, <2>2, TimerSuffices
<1>6. ASSUME NEW w \in Watcher, WatcherStops(w) PROVE StopsForAReason' /\ SignalHeeded'
  <2>1. ctxDone /\ UNCHANGED <<cancels, ctxDone, waited, exit, sent>>
    BY <1>6 DEF WatcherStops, given
  <2> QED
    BY <2>1 DEF StopsForAReason, SignalHeeded
<1>7. CASE Tick
  <2>1. UNCHANGED <<cancels, ctxDone, watcher, pending, sent, exit>>
    BY <1>7 DEF Tick, given
  <2>2. ASSUME NEW w \in Watcher, waited[w] # Idle PROVE waited'[w] # Idle
    BY <1>7, <2>2, ParametersAssumption DEF TypeOK, Tick, Idle
  <2> QED
    BY <2>1, <2>2 DEF StopsForAReason, SignalHeeded
<1>8. CASE ParentCancel
  <2>1. cancels' /\ ctxDone'
    BY <1>8 DEF ParentCancel, given
  <2> QED
    BY <2>1 DEF StopsForAReason, SignalHeeded
<1> QED
  BY <1>1, <1>3, <1>4, <1>5, <1>6, <1>7, <1>8 DEF Next

\* A signal that did not kill the process is never lost between the watchers
\* (util.go, interruptWatcher), unless the embedding program cancelled the
\* context.
THEOREM SignalsAreHeeded == Spec => []SignalHeeded
<1>1. Init => Heeding
  BY DEF Init, Heeding, SignalHeeded, Watcher
<1>2. IInv /\ Heeding /\ [Next]_vars => Heeding'
  <2> SUFFICES ASSUME IInv, Heeding, [Next]_vars PROVE Heeding'
    OBVIOUS
  <2>1. WatchersOnce'
    BY StepWatchers, HeedingParts DEF IInv
  <2>2. StopsForAReason' /\ SignalHeeded'
    BY StepHeeds DEF IInv
  <2> QED
    BY <2>1, <2>2 DEF Heeding, WatchersOnce, StopsForAReason
<1>3. Heeding => SignalHeeded
  BY DEF Heeding
<1> QED
  BY <1>1, <1>2, <1>3, WaitGroupCounts, PTL DEF Spec

-----------------------------------------------------------------------------
\* The first state of a run command is one of the promise's.
LEMMA PromiseInit == Init => Promise!Init
  BY DEF Init, Promise!Init, Begun, Up, Asked, Gone, AtWork, Goroutine, Part

\* Every step is one of the promise's or changes nothing it speaks of: a launch
\* begins a part, a return ends one, an interrupt asks, and the process leaves
\* cleanly only from a wait that the counter let through.
LEMMA PromiseStep == IInv /\ [Next]_vars => [Promise!Next]_(Promise!vars)
<1> SUFFICES ASSUME IInv, [Next]_vars PROVE [Promise!Next]_(Promise!vars)
  OBVIOUS
<1> USE DEF Promise!Next, Promise!vars
<1>0. TypeOK /\ NotYetStarted
  BY DEF IInv
<1>1. CASE UNCHANGED vars
  BY <1>1 DEF vars, Begun, Up, Asked, Gone
<1> SUFFICES ASSUME exit = "alive", Next PROVE [Promise!Next]_(Promise!vars)
  BY <1>1 DEF Next
<1>2. Gone = "no"
  BY DEF Gone
<1>3. ASSUME UNCHANGED <<task, exit, sent, ctxDone>> PROVE UNCHANGED Promise!vars
  BY <1>3 DEF Begun, Up, Asked, Gone
<1>4. ASSUME NEW t \in Part, task[t] = "idle", Up' = Up \cup {t}, Begun' = Begun \cup {t},
             UNCHANGED <<exit, sent, ctxDone>>
      PROVE  Promise!Next
  <2>1. t \notin Begun /\ Asked' = Asked /\ Gone' = Gone
    BY <1>4 DEF Begun, Asked, Gone
  <2> QED
    BY <1>2, <1>4, <2>1 DEF Promise!Begin
<1>5. ASSUME NEW t \in Part, task[t] \in AtWork, task' = [task EXCEPT ![t] = "ended"],
             UNCHANGED <<exit, sent, ctxDone>>
      PROVE  Promise!Next
  <2>1. t \in Up /\ Asked' = Asked /\ Gone' = Gone
    BY <1>5 DEF Up, Asked, Gone
  <2>2. Up' = Up \ {t} /\ Begun' = Begun
    BY <1>0, <1>5, Names DEF TypeOK, Begun, Up, AtWork
  <2> QED
    BY <1>2, <1>5, <2>1, <2>2 DEF Promise!End
<1>6. ASSUME UNCHANGED <<task, exit>>, Asked' = TRUE PROVE Promise!Next
  BY <1>2, <1>6 DEF Promise!Ask, Begun, Up, Gone
<1>7. ASSUME UNCHANGED <<task, sent, ctxDone>>, exit' \in {"error", "killed", "forced"}
      PROVE  Promise!Next
  BY <1>2, <1>7 DEF Promise!Abandon, Begun, Up, Asked, Gone
<1>8. ASSUME Command PROVE [Promise!Next]_(Promise!vars)
  <2>1. ASSUME NEW t \in Part, NEW v \in {"launched", "running"}, task[t] = "idle",
               task' = [task EXCEPT ![t] = v], UNCHANGED <<exit, sent, ctxDone>>
        PROVE  Promise!Next
    <3>1. Up' = Up \cup {t} /\ Begun' = Begun \cup {t}
      BY <1>0, <2>1, Names DEF TypeOK, Begun, Up, AtWork
    <3> QED
      BY <1>4, <2>1, <3>1
  <2>2. CASE StartBroker
    BY <1>0, <2>1, <2>2, Names DEF StartBroker, NotYetStarted, Early
  <2>3. CASE BrokerStarted
    <3>1. PICK adapters \in BOOLEAN :
            task' = [task EXCEPT !["setup"] = "running",
                                 !["adapters"] = IF adapters THEN "running" ELSE @]
      BY <2>3 DEF BrokerStarted
    <3>2. task["adapters"] = "idle" /\ UNCHANGED <<exit, sent, ctxDone>>
      BY <1>0, <2>3 DEF BrokerStarted, NotYetStarted
    <3>3. CASE adapters
      <4>1. Up' = Up \cup {"adapters"} /\ Begun' = Begun \cup {"adapters"}
        BY <1>0, <3>1, <3>2, <3>3, Names DEF TypeOK, Begun, Up, AtWork
      <4> QED
        BY <1>4, <3>2, <4>1, Names
    <3>4. CASE ~adapters
      <4>1. Up' = Up /\ Begun' = Begun
        BY <1>0, <3>1, <3>4, Names DEF TypeOK, Begun, Up
      <4> QED
        BY <3>2, <4>1 DEF Asked, Gone
    <3> QED
      BY <3>3, <3>4
  <2>4. ASSUME NEW s \in Streams, Launch(s) PROVE Promise!Next
    BY <2>1, <2>4, Names DEF Launch
  <2>5. CASE StartServer
    BY <1>0, <2>1, <2>5, Names DEF StartServer, NotYetStarted
  <2>6. CASE AwaitInterrupted
    BY <1>7, <2>6 DEF AwaitInterrupted, work
  <2>7. CASE WaitReturns
    <3>1. Up = {}
      BY <2>7, ZeroMeansDone DEF WaitReturns
    <3>2. Up' = Up /\ Begun' = Begun /\ Asked' = Asked /\ Gone' = "clean"
      BY <2>7 DEF WaitReturns, work, Begun, Up, Asked, Gone
    <3> QED
      BY <1>2, <3>1, <3>2 DEF Promise!Leave
  <2>8. CASE Configure \/ Facts \/ Gathered \/ ReplicationStarted
    BY <1>3, <2>8 DEF Configure, Facts, Gathered, ReplicationStarted
  <2> QED
    BY <1>8, <2>2, <2>3, <2>4, <2>5, <2>6, <2>7, <2>8 DEF Command
<1>9. ASSUME NEW s \in Streams,
             ReplicatorRuns(s) \/ ReplicatorReturns(s) \/ ReplicatorEnds(s)
      PROVE  [Promise!Next]_(Promise!vars)
  <2>1. CASE ReplicatorRuns(s) \/ ReplicatorReturns(s)
    <3>1. Up' = Up /\ Begun' = Begun
      BY <1>0, <2>1, Names DEF ReplicatorRuns, ReplicatorReturns, TypeOK, Begun, Up, AtWork
    <3> QED
      BY <2>1, <3>1 DEF ReplicatorRuns, ReplicatorReturns, Asked, Gone
  <2>2. CASE ReplicatorEnds(s)
    BY <1>5, <2>2, Names DEF ReplicatorEnds, AtWork
  <2> QED
    BY <1>9, <2>1, <2>2
<1>10. ASSUME NEW t \in Counted, Stops(t) PROVE Promise!Next
  BY <1>5, <1>10 DEF Stops, AtWork, Part
<1>11. CASE SetupEnds
  <2>1. Up' = Up /\ Begun' = Begun
    BY <1>0, <1>11, Names DEF SetupEnds, TypeOK, Begun, Up
  <2> QED
    BY <1>11, <2>1 DEF SetupEnds, Asked, Gone
<1>12. CASE Signal
  <2>1. sent' > 0 /\ task' = task
    BY <1>0, <1>12, ParametersAssumption DEF Signal, TypeOK, work
  <2>2. exit' = exit \/ exit' = "killed"
    BY <1>12 DEF Signal
  <2>3. Asked' = TRUE /\ Begun' = Begun /\ Up' = Up /\ Gone' \in {"no", "abrupt"}
    BY <2>1, <2>2 DEF Asked, Begun, Up, Gone
  <2> QED
    BY <1>2, <2>3 DEF Promise!Ask
<1>13. ASSUME NEW w \in Watcher,
              Watch(w) \/ Interrupt(w) \/ WatcherStops(w) \/ ForceQuit(w)
       PROVE  [Promise!Next]_(Promise!vars)
  <2>1. CASE Watch(w) \/ WatcherStops(w)
    BY <1>3, <2>1 DEF Watch, WatcherStops, work
  <2>2. CASE Interrupt(w)
    BY <1>6, <2>2 DEF Interrupt, work, Asked
  <2>3. CASE ForceQuit(w)
    BY <1>7, <2>3 DEF ForceQuit, work
  <2> QED
    BY <1>13, <2>1, <2>2, <2>3
<1>14. CASE Fail
  BY <1>7, <1>14 DEF Fail, work
<1>15. CASE BrokerUp \/ Tick
  BY <1>3, <1>15 DEF BrokerUp, Tick, work
<1>16. CASE ParentCancel
  BY <1>6, <1>16 DEF ParentCancel, work, Asked
<1> QED
  BY <1>8, <1>9, <1>10, <1>11, <1>12, <1>13, <1>14, <1>15, <1>16 DEF Next

\* The goroutines of a run command implement the promise of Lifetime: no part
\* begins again after it has ended (Begun only grows by a part that is idle), and it reports success only when all of it has ended.
THEOREM Implements == Spec => KeepsPromise
  BY WaitGroupCounts, PromiseInit, PromiseStep, PTL DEF Spec, KeepsPromise, Promise!Spec
=============================================================================
