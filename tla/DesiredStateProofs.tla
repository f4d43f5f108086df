-------------------------- MODULE DesiredStateProofs --------------------------
(***************************************************************************)
(* Theorems of DesiredState, for any nodes, desired states, faults,        *)
(* restarts, resets and outages.                                           *)
(***************************************************************************)
EXTENDS DesiredStateInductive, LeaderBrokerProofs

\* The typing of what is not the broker's.
NodesTyped ==
    /\ leader \in Leaders
    /\ saas \in Nat /\ source \in SUBSET Nat
    /\ repl \in {"off", "copying", "ended"}
    /\ position \in Nat /\ fetched \in Nat /\ local \in Nat
    /\ state \in [Nodes -> {"INITIAL", "MANAGE", "MAINTENANCE"}]
    /\ answer \in [Nodes -> Nat]
    /\ data \in [Nodes -> Nat]
    /\ installed \in [Nodes -> Nat]
    /\ since \in [Nodes -> Nat]

\* The invariant, put together.
LEMMA Together ==
    ASSUME BrokerTypeOK', NodesTyped', Ordered', \A n \in Nodes : Follows(n)'
    PROVE  IInv'
  BY DEF IInv, TypeOK, NodesTyped

LEMMA Initially == Init => IInv
<1> SUFFICES ASSUME Init PROVE IInv
  OBVIOUS
<1>1. TypeOK
  BY BrokerInitially DEF Init, Each, TypeOK
<1>2. Ordered
  BY DEF Init, Ordered
<1>3. ASSUME NEW n \in Nodes PROVE Follows(n)
  BY DEF Init, Each, Follows, Behind
<1> QED
  BY <1>1, <1>2, <1>3 DEF IInv

LEMMA BrokerSame ==
    ASSUME BrokerTypeOK, UNCHANGED <<broker, linked>>, spent' \in [Event -> Nat]
    PROVE  BrokerTypeOK'
  BY DEF BrokerTypeOK, broker

-----------------------------------------------------------------------------
(* The back-end and the replicator. *)

LEMMA PutKeeps == ASSUME IInv, Put PROVE IInv'
<1>1. BrokerTypeOK'
  BY BrokerSame DEF IInv, TypeOK, BrokerTypeOK, Put, broker
<1>2. NodesTyped'
  BY DEF IInv, TypeOK, NodesTyped, Put, replicator, machine
<1>3. Ordered'
  BY DEF IInv, TypeOK, Ordered, Put, replicator
<1>4. ASSUME NEW n \in Nodes PROVE Follows(n)'
  BY DEF IInv, TypeOK, Follows, Behind, Put, replicator, machine
<1> QED
  BY <1>1, <1>2, <1>3, <1>4, Together

LEMMA ReplicatorRunsOrNot ==
    ASSUME IInv, ReplicatorStarts \/ ReplicatorFails
    PROVE  IInv'
<1>1. BrokerTypeOK'
  <2>1. spent' \in [Event -> Nat]
    BY Spending, Events DEF IInv, TypeOK, BrokerTypeOK, ReplicatorStarts, ReplicatorFails
  <2> QED
    BY <2>1, BrokerSame DEF IInv, TypeOK, ReplicatorStarts, ReplicatorFails, broker
<1>2. NodesTyped'
  <2>1. CASE ReplicatorStarts
    BY <2>1 DEF IInv, TypeOK, NodesTyped, ReplicatorStarts, backend, machine
  <2>2. CASE ReplicatorFails
    BY <2>2 DEF IInv, TypeOK, NodesTyped, ReplicatorFails, backend, machine
  <2> QED
    BY <2>1, <2>2
<1>3. fetched' \in {0, fetched} /\ UNCHANGED <<backend, local, machine>>
  BY DEF ReplicatorStarts, ReplicatorFails
<1>4. Ordered'
  BY <1>3 DEF IInv, TypeOK, Ordered, backend
<1>5. ASSUME NEW n \in Nodes PROVE Follows(n)'
  BY <1>3 DEF IInv, TypeOK, Follows, Behind, backend, machine
<1> QED
  BY <1>1, <1>2, <1>4, <1>5, Together

\* What is fetched is the newest there is.
LEMMA FetchKeeps == ASSUME IInv, Fetch PROVE IInv'
<1>1. BrokerTypeOK'
  BY BrokerSame DEF IInv, TypeOK, BrokerTypeOK, Fetch, broker
<1>2. fetched' = saas /\ position' = saas
  BY DEF IInv, Ordered, Fetch
<1>3. NodesTyped'
  BY <1>2 DEF IInv, TypeOK, NodesTyped, Fetch, backend, machine
<1>4. Ordered'
  BY <1>2 DEF IInv, TypeOK, Ordered, Fetch, backend
<1>5. ASSUME NEW n \in Nodes PROVE Follows(n)'
  BY <1>2 DEF IInv, TypeOK, Follows, Behind, Fetch, backend, machine
<1> QED
  BY <1>1, <1>3, <1>4, <1>5, Together

LEMMA WriteKeeps == ASSUME IInv, Write PROVE IInv'
<1>1. BrokerTypeOK'
  <2>1. spent' \in [Event -> Nat]
    BY Spending, Events DEF IInv, TypeOK, BrokerTypeOK, Write
  <2> QED
    BY <2>1, BrokerSame DEF IInv, TypeOK, Write, broker
<1>2. local' = fetched /\ fetched # 0 /\ fetched' \in {0, fetched} /\ UNCHANGED <<backend, machine>>
  BY DEF Write
<1>3. NodesTyped'
  BY <1>2 DEF IInv, TypeOK, NodesTyped, Write, backend, machine
<1>4. Ordered'
  BY <1>2 DEF IInv, TypeOK, Ordered, backend
<1>5. ASSUME NEW n \in Nodes PROVE Follows(n)'
  BY <1>2 DEF IInv, TypeOK, Follows, Behind, backend, machine
<1> QED
  BY <1>1, <1>3, <1>4, <1>5, Together

-----------------------------------------------------------------------------
(* The nodes. *)

\* A node's own steps change nothing that other nodes look at.
LEMMA NodeAlone ==
    ASSUME IInv, UNCHANGED site, NodesTyped', NEW p \in Nodes, Follows(p)',
           \A n \in Nodes \ {p} :
              /\ state'[n] = state[n] /\ answer'[n] = answer[n] /\ data'[n] = data[n]
              /\ installed'[n] = installed[n] /\ since'[n] = since[n]
    PROVE  IInv'
<1>1. BrokerTypeOK'
  BY BrokerSame DEF IInv, TypeOK, BrokerTypeOK, site, broker
<1>2. Ordered'
  BY DEF IInv, Ordered, site, backend, replicator
<1>3. ASSUME NEW n \in Nodes PROVE Follows(n)'
  <2>1. CASE n = p
    BY <2>1
  <2>2. CASE n # p
    BY <2>2 DEF IInv, Follows, Behind, site, backend, replicator
  <2> QED
    BY <2>1, <2>2
<1> QED
  BY <1>1, <1>2, <1>3, Together

LEMMA PollKeeps ==
    ASSUME IInv, NEW p \in Nodes, Ask(p) \/ AskNothing(p) \/ Take(p)
    PROVE  IInv'
<1>1. UNCHANGED site
  BY DEF Ask, AskNothing, Take
<1>2. local' = local /\ saas' = saas /\ fetched' = fetched
  BY <1>1 DEF site, backend, replicator
<1>3. CASE Ask(p)
  <2>1. NodesTyped'
    BY <1>1, <1>3 DEF IInv, TypeOK, NodesTyped, Ask, site, backend, replicator
  <2>2. Follows(p)'
    BY <1>2, <1>3 DEF IInv, TypeOK, Ordered, Follows, Behind, Ask
  <2> QED
    BY <1>1, <1>3, <2>1, <2>2, NodeAlone DEF IInv, TypeOK, Ask
<1>4. CASE AskNothing(p)
  <2>1. NodesTyped'
    BY <1>1, <1>4 DEF IInv, TypeOK, NodesTyped, AskNothing, site, backend, replicator
  <2>2. Follows(p)'
    BY <1>2, <1>4 DEF IInv, TypeOK, Follows, Behind, AskNothing
  <2> QED
    BY <1>1, <1>4, <2>1, <2>2, NodeAlone DEF IInv, TypeOK, AskNothing
<1>5. CASE Take(p)
  <2>1. NodesTyped'
    BY <1>1, <1>5 DEF IInv, TypeOK, NodesTyped, Take, site, backend, replicator
  <2>2. Follows(p)'
    BY <1>2, <1>5 DEF IInv, TypeOK, Follows, Behind, Take
  <2> QED
    BY <1>1, <1>5, <2>1, <2>2, NodeAlone DEF IInv, TypeOK, Take
<1> QED
  BY <1>3, <1>4, <1>5

LEMMA ManageKeeps ==
    ASSUME IInv, NEW p \in Nodes, Manage(p) \/ EnterMaintenance(p) \/ Resume(p)
    PROVE  IInv'
<1>1. UNCHANGED site
  BY DEF Manage, EnterMaintenance, Resume
<1>2. local' = local /\ saas' = saas /\ fetched' = fetched
  BY <1>1 DEF site, backend, replicator
<1>3. CASE Manage(p)
  <2>1. NodesTyped'
    BY <1>1, <1>3 DEF IInv, TypeOK, NodesTyped, Manage, site, backend, replicator
  <2>2. Follows(p)'
    BY <1>2, <1>3 DEF IInv, TypeOK, Follows, Behind, Manage
  <2> QED
    BY <1>1, <1>3, <2>1, <2>2, NodeAlone DEF IInv, TypeOK, Manage
<1>4. CASE EnterMaintenance(p) \/ Resume(p)
  <2>1. NodesTyped'
    BY <1>1, <1>4
       DEF IInv, TypeOK, NodesTyped, EnterMaintenance, Resume, site, backend, replicator
  <2>2. Follows(p)'
    BY <1>2, <1>4 DEF IInv, TypeOK, Follows, Behind, EnterMaintenance, Resume
  <2> QED
    BY <1>1, <1>4, <2>1, <2>2, NodeAlone DEF IInv, TypeOK, EnterMaintenance, Resume
<1> QED
  BY <1>3, <1>4

-----------------------------------------------------------------------------
(* Restarts and resets. *)

LEMMA RestartKeeps ==
    ASSUME IInv, NEW p, Restarted(p), BrokerTypeOK',
           UNCHANGED <<backend, leader, local>>, fetched' \in {0, fetched},
           repl' \in {repl, "off"}, position' = position
    PROVE  IInv'
<1>1. NodesTyped'
  BY DEF IInv, TypeOK, NodesTyped, Restarted, Begins, backend
<1>2. Ordered'
  BY DEF IInv, TypeOK, Ordered, backend
<1>3. ASSUME NEW n \in Nodes PROVE Follows(n)'
  <2>1. CASE n = p
    BY <2>1 DEF IInv, TypeOK, Ordered, Follows, Behind, Restarted, Begins, backend
  <2>2. CASE n # p
    BY <2>2 DEF IInv, TypeOK, Follows, Behind, Restarted, Begins, backend
  <2> QED
    BY <2>1, <2>2
<1> QED
  BY <1>1, <1>2, <1>3, Together

LEMMA ResetKeeps ==
    ASSUME IInv, NEW p, NEW held \in {0, local}, Wiped(p, held), BrokerTypeOK',
           UNCHANGED <<backend, leader, replicator>>, local' = held
    PROVE  IInv'
<1>1. NodesTyped'
  BY DEF IInv, TypeOK, NodesTyped, Wiped, Begins, backend, replicator
<1>2. Ordered'
  BY DEF IInv, TypeOK, Ordered, backend, replicator
<1>3. ASSUME NEW n \in Nodes PROVE Follows(n)'
  <2>1. CASE n = p
    BY <2>1 DEF IInv, TypeOK, Ordered, Follows, Behind, Wiped, Begins, backend, replicator
  <2>2. CASE n # p
    BY <2>2 DEF IInv, TypeOK, Follows, Behind, Wiped, Begins, backend, replicator
  <2> QED
    BY <2>1, <2>2
<1> QED
  BY <1>1, <1>2, <1>3, Together

LEMMA LeaderKeeps ==
    ASSUME IInv, Start \/ BucketSetup \/ Link
    PROVE  IInv'
<1>1. BrokerTypeOK'
  BY BrokerRuns, LinkChanges DEF IInv, TypeOK, Start, BucketSetup, Link
<1>2. UNCHANGED <<backend, leader, replicator, local, machine>>
  BY DEF Start, BucketSetup, Link
<1>3. NodesTyped'
  BY <1>2 DEF IInv, TypeOK, NodesTyped, backend, replicator, machine
<1>4. Ordered'
  BY <1>2 DEF IInv, Ordered, backend, replicator
<1>5. ASSUME NEW n \in Nodes PROVE Follows(n)'
  BY <1>2 DEF IInv, Follows, Behind, backend, replicator, machine
<1> QED
  BY <1>1, <1>3, <1>4, <1>5, Together

\* IInv is inductive.
LEMMA Inductive == IInv /\ [Next]_vars => IInv'
<1> SUFFICES ASSUME IInv, [Next]_vars PROVE IInv'
  OBVIOUS
<1>1. CASE Put \/ ReplicatorStarts \/ ReplicatorFails \/ Fetch \/ Write
  BY <1>1, PutKeeps, ReplicatorRunsOrNot, FetchKeeps, WriteKeeps
<1>2. CASE Start \/ BucketSetup \/ Link
  BY <1>2, LeaderKeeps
<1>3. CASE End
  BY <1>3, BrokerRests, RestartKeeps DEF IInv, TypeOK, End
<1>4. CASE Reset
  BY <1>4, BrokerRests, ResetKeeps DEF IInv, TypeOK, Reset
<1>5. ASSUME NEW n \in Nodes,
             Ask(n) \/ AskNothing(n) \/ Take(n) \/ Manage(n) \/ EnterMaintenance(n) \/ Resume(n)
      PROVE  IInv'
  BY <1>5, PollKeeps, ManageKeeps
<1>6. ASSUME NEW n \in Nodes, NodeRestart(n) PROVE IInv'
  <2>1. BrokerTypeOK'
    BY <1>6, Spending, Events, BrokerSame DEF IInv, TypeOK, NodeRestart
  <2> QED
    BY <1>6, <2>1, RestartKeeps DEF NodeRestart, replicator
<1>7. ASSUME NEW n \in Nodes, NodeReset(n) PROVE IInv'
  <2>1. BrokerTypeOK'
    BY <1>7, Spending, Events, BrokerSame DEF IInv, TypeOK, NodeReset
  <2> QED
    BY <1>7, <2>1, ResetKeeps DEF NodeReset
<1>8. CASE UNCHANGED vars
  <2>1. BrokerTypeOK' /\ NodesTyped'
    BY <1>8 DEF IInv, TypeOK, BrokerTypeOK, NodesTyped, vars, site, broker, backend,
       replicator, machine
  <2>2. Ordered'
    BY <1>8 DEF IInv, Ordered, vars, site, backend, replicator
  <2>3. ASSUME NEW n \in Nodes PROVE Follows(n)'
    BY <1>8 DEF IInv, Follows, Behind, vars, site, backend, replicator, machine
  <2> QED
    BY <2>1, <2>2, <2>3, Together
<1> QED
  BY <1>1, <1>2, <1>3, <1>4, <1>5, <1>6, <1>7, <1>8 DEF Next

\* Every behaviour of DesiredState satisfies its inductive invariant.
THEOREM DesiredStateInvariant == Spec => []IInv
<1> QED
  BY Initially, Inductive, PTL DEF Spec

\* Type correctness of DesiredState (replication.go, machine.yaml).
THEOREM DesiredStateTypeCorrect == Spec => []TypeOK
<1>1. IInv => TypeOK
  BY DEF IInv
<1> QED
  BY <1>1, DesiredStateInvariant, PTL

-----------------------------------------------------------------------------
(* What a step does to the leader's bucket and to what is installed. *)

\* The leader's bucket.
LEMMA BucketSteps ==
    ASSUME IInv, [Next]_vars, local' < local
    PROVE  objects' = {}
<1>1. ASSUME Write PROVE FALSE
  <2>1. local' = fetched /\ fetched # 0
    BY <1>1 DEF Write
  <2> QED
    BY <2>1 DEF IInv, TypeOK, Ordered
<1>2. ASSUME Reset PROVE objects' = {}
  BY <1>2 DEF Reset, StoreRemoved
<1>3. ASSUME local' = local PROVE FALSE
  BY <1>3 DEF IInv, TypeOK
<1>4. ASSUME [Next]_vars, ~Write, ~Reset PROVE local' = local
  BY <1>4 DEF Next, Put, ReplicatorStarts, ReplicatorFails, Fetch, Start, BucketSetup, End,
     Link, Ask, AskNothing, Take, Manage, EnterMaintenance, Resume, NodeRestart, NodeReset,
     vars, site
<1> QED
  BY <1>1, <1>2, <1>3, <1>4

\* What is installed changes in two ways: it is removed, or brought forward to
\* the node's copy of the desired state.
LEMMA InstalledSteps ==
    ASSUME IInv, [Next]_vars, NEW n \in Nodes, installed'[n] # installed[n]
    PROVE  installed'[n] = 0 \/ (installed'[n] >= installed[n] /\ installed'[n] >= since[n])
<1>1. ASSUME NEW p \in Nodes, Manage(p)
      PROVE  installed'[n] >= installed[n] /\ installed'[n] >= since[n]
  <2>1. n = p /\ installed'[n] = data[n] /\ state[n] = "MANAGE" /\ data[n] # 0
    BY <1>1 DEF IInv, TypeOK, Manage
  <2> QED
    BY <2>1 DEF IInv, TypeOK, Follows
<1>2. ASSUME NEW p, NEW held, Wiped(p, held) PROVE installed'[n] = 0
  BY <1>2 DEF Wiped
<1>3. ASSUME [Next]_vars, installed' # installed
      PROVE  Reset \/ \E p \in Nodes : Manage(p) \/ NodeReset(p)
  BY <1>3 DEF Next, Put, ReplicatorStarts, ReplicatorFails, Fetch, Write, Start, BucketSetup,
     End, Restarted, Link, Ask, AskNothing, Take, EnterMaintenance, Resume, NodeRestart,
     vars, machine
<1> QED
  BY <1>1, <1>2, <1>3 DEF Reset, NodeReset

\* The desired state of a site never goes back (replication.go, machine.yaml).
THEOREM DesiredStateOnlyAdvances == Spec => NeverGoesBack
<1>1. IInv /\ [Next]_vars =>
         [/\ local' < local => objects' = {}
          /\ \A n \in Nodes : installed'[n] < installed[n] => installed'[n] = 0]_vars
  <2> SUFFICES ASSUME IInv, [Next]_vars
               PROVE  /\ local' < local => objects' = {}
                      /\ \A n \in Nodes : installed'[n] < installed[n] => installed'[n] = 0
    OBVIOUS
  <2>1. local' < local => objects' = {}
    BY BucketSteps
  <2>2. ASSUME NEW n \in Nodes, installed'[n] < installed[n] PROVE installed'[n] = 0
    BY <2>2, InstalledSteps, Inductive DEF IInv, TypeOK
  <2> QED
    BY <2>1, <2>2
<1> QED
  BY <1>1, DesiredStateInvariant, PTL DEF Spec, NeverGoesBack

\* A process manages nothing older than what the leader had when it began
\* (machine.yaml).
THEOREM OnlyFreshIsManaged == Spec => ManagesFreshSpec
<1>1. IInv /\ [Next]_vars =>
         [\A n \in Nodes :
            installed'[n] \notin {0, installed[n]} => installed'[n] >= since[n]]_vars
  BY InstalledSteps
<1> QED
  BY <1>1, DesiredStateInvariant, PTL DEF Spec, ManagesFreshSpec

-----------------------------------------------------------------------------
(* DesiredState implements Rollout. *)

\* The back-end, and what the replicator does, seen from the nodes.
LEMMA SiteAdvances ==
    ASSUME IInv, Put \/ ReplicatorStarts \/ ReplicatorFails \/ Fetch \/ Write
    PROVE  [Promise!Next]_(Promise!vars)
<1>1. CASE Put
  BY <1>1 DEF Put, machine, Promise!Release, Promise!Next
<1>2. CASE ReplicatorStarts \/ ReplicatorFails \/ Fetch
  BY <1>2 DEF ReplicatorStarts, ReplicatorFails, Fetch, backend, machine, Promise!vars
<1>3. CASE Write
  <2>1. local' = fetched /\ fetched # 0 /\ UNCHANGED <<saas, installed, since, leader>>
    BY <1>3 DEF Write, backend, machine
  <2>2. /\ local \in Nat /\ fetched \in Nat /\ saas \in Nat
        /\ local <= fetched /\ fetched <= saas
        /\ \A n \in Nodes : installed[n] <= fetched
    BY <2>1 DEF IInv, TypeOK, Ordered, Follows, Behind
  <2>3. CASE fetched = local
    BY <2>1, <2>3 DEF Promise!vars
  <2>4. CASE fetched > local
    <3>1. fetched \in 1 .. saas
      BY <2>1, <2>2
    <3>2. Promise!Sync
      BY <2>1, <2>2, <2>4, <3>1 DEF Promise!Sync
    <3> QED
      BY <2>1, <3>2 DEF Promise!Next
  <2> QED
    BY <2>2, <2>3, <2>4
<1> QED
  BY <1>1, <1>2, <1>3

\* A node is brought to its copy of the desired state, which is neither older
\* than the one it is at nor newer than its site's.
LEMMA NodeAdvances ==
    ASSUME IInv, NEW n \in Nodes,
           Ask(n) \/ AskNothing(n) \/ Take(n) \/ Manage(n) \/ EnterMaintenance(n) \/ Resume(n)
    PROVE  [Promise!Next]_(Promise!vars)
<1>1. CASE Ask(n) \/ AskNothing(n) \/ Take(n) \/ EnterMaintenance(n) \/ Resume(n)
  BY <1>1 DEF Ask, AskNothing, Take, EnterMaintenance, Resume, site, backend, Promise!vars
<1>2. CASE Manage(n)
  <2>1. /\ installed' = [installed EXCEPT ![n] = data[n]]
        /\ state[n] = "MANAGE" /\ data[n] # 0
        /\ UNCHANGED <<saas, local, since, leader>>
    BY <1>2 DEF Manage, site, backend
  <2>2. /\ data[n] \in Nat /\ local \in Nat /\ saas \in Nat
        /\ data[n] >= installed[n] /\ data[n] >= since[n]
    BY <2>1 DEF IInv, TypeOK, Follows
  <2>3. data[n] <= saas /\ (local # 0 => data[n] <= local)
    BY DEF IInv, Follows, Behind
  <2>4. data[n] \in 1 .. Promise!Newer
    BY <2>1, <2>2, <2>3 DEF Promise!Newer
  <2>5. Promise!Bring(n)
    BY <2>1, <2>2, <2>4 DEF Promise!Bring
  <2> QED
    BY <2>1, <2>5 DEF Promise!Next
<1> QED
  BY <1>1, <1>2

\* Restarts and resets, of a node that is looked at or of another.
LEMMA ProcessBegins ==
    ASSUME IInv, IInv', NEW p, Restarted(p), UNCHANGED <<saas, local, leader>>
    PROVE  [Promise!Next]_(Promise!vars)
<1>1. /\ since' = [n \in Nodes |-> IF n = p THEN local ELSE since[n]]
      /\ installed' = installed
      /\ since \in [Nodes -> Nat]
  BY DEF Restarted, Begins, IInv, TypeOK
<1>2. CASE p \in Nodes
  <2>1. since' = [since EXCEPT ![p] = local]
    BY <1>1
  <2>2. Promise!Restart(p)
    BY <1>1, <2>1 DEF Promise!Restart
  <2> QED
    BY <1>2, <2>2 DEF Promise!Next
<1>3. CASE p \notin Nodes
  <2>1. since' = since
    BY <1>1, <1>3
  <2> QED
    BY <1>1, <2>1 DEF Promise!vars
<1> QED
  BY <1>2, <1>3

LEMMA NodeCleared ==
    ASSUME IInv, NEW p, NEW held, Wiped(p, held), local' = held, saas' = saas
    PROVE  IF p \in Nodes THEN Promise!Clear(p) ELSE UNCHANGED <<saas, installed, since>>
<1>1. /\ since' = [n \in Nodes |-> IF n = p THEN held ELSE since[n]]
      /\ installed' = [n \in Nodes |-> IF n = p THEN 0 ELSE installed[n]]
      /\ since \in [Nodes -> Nat] /\ installed \in [Nodes -> Nat]
  BY DEF Wiped, Begins, IInv, TypeOK
<1>2. CASE p \in Nodes
  <2>1. since' = [since EXCEPT ![p] = local']
    BY <1>1
  <2>2. installed' = [installed EXCEPT ![p] = 0]
    BY <1>1
  <2> QED
    BY <1>2, <2>1, <2>2 DEF Promise!Clear
<1>3. CASE p \notin Nodes
  <2>1. since' = since
    BY <1>1, <1>3
  <2>2. installed' = installed
    BY <1>1, <1>3
  <2> QED
    BY <1>3, <2>1, <2>2
<1> QED
  BY <1>2, <1>3

\* The replicator (replication.go) and machines_manager (machine.yaml) implement
\* Rollout, for any nodes, faults, restarts, resets and outages.
THEOREM ImplementsRollout == Spec => KeepsPromise
<1>1. Init => Promise!Init
  BY DEF Init, Each, Promise!Init
<1>2. IInv /\ IInv' /\ [Next]_vars => [Promise!Next]_(Promise!vars)
  <2> SUFFICES ASSUME IInv, IInv', [Next]_vars PROVE [Promise!Next]_(Promise!vars)
    OBVIOUS
  <2>1. CASE Put \/ ReplicatorStarts \/ ReplicatorFails \/ Fetch \/ Write
    BY <2>1, SiteAdvances
  <2>2. CASE Start \/ BucketSetup \/ Link
    BY <2>2 DEF Start, BucketSetup, Link, backend, machine, Promise!vars
  <2>3. CASE End
    BY <2>3, ProcessBegins DEF End, backend
  <2>4. CASE Reset
    <3>1. Wiped(leader, 0) /\ local' = 0 /\ UNCHANGED <<saas, leader>>
      BY <2>4 DEF Reset, backend
    <3>2. Promise!ClearSite
      BY <3>1, NodeCleared DEF Promise!ClearSite
    <3> QED
      BY <3>1, <3>2 DEF Promise!Next
  <2>5. ASSUME NEW n \in Nodes,
               \/ Ask(n) \/ AskNothing(n) \/ Take(n) \/ Manage(n)
               \/ EnterMaintenance(n) \/ Resume(n)
        PROVE  [Promise!Next]_(Promise!vars)
    BY <2>5, NodeAdvances
  <2>6. ASSUME NEW n \in Nodes, NodeRestart(n) PROVE [Promise!Next]_(Promise!vars)
    BY <2>6, ProcessBegins DEF NodeRestart, backend
  <2>7. ASSUME NEW n \in Nodes, NodeReset(n) PROVE [Promise!Next]_(Promise!vars)
    <3>1. n # leader /\ Wiped(n, local) /\ UNCHANGED <<saas, local, leader>>
      BY <2>7 DEF NodeReset, backend
    <3>2. Promise!ClearNode(n)
      BY <3>1, NodeCleared DEF Promise!ClearNode
    <3> QED
      BY <3>1, <3>2 DEF Promise!Next
  <2>8. CASE UNCHANGED vars
    BY <2>8 DEF vars, site, backend, machine, Promise!vars
  <2> QED
    BY <2>1, <2>2, <2>3, <2>4, <2>5, <2>6, <2>7, <2>8 DEF Next
<1> QED
  BY <1>1, <1>2, DesiredStateInvariant, PTL DEF Spec, Promise!Spec, KeepsPromise
=============================================================================
