----------------------------- MODULE DesiredState ------------------------------
(***************************************************************************)
(* What the nodes of a site have to run: from the back-end's bucket        *)
(* through the replicator KV_CONFIG into the leader's bucket, from there   *)
(* into the autonomous agent machines_manager of every node, which manages *)
(* the node's plugins.  Desired states are numbered, 0 is none.            *)
(***************************************************************************)
EXTENDS LeaderBroker

CONSTANTS
    Nodes,     \* the managed nodes of the site that are looked at
    Leaders,   \* the nodes that may be the leader, in Nodes or not
    MaxSpecs   \* bound: the desired states the back-end puts

ASSUME DesiredStateAssumption == MaxSpecs \in Nat

VARIABLES
    leader,     \* the node whose process the broker is in; it stays the same
    saas,       \* the newest desired state of the back-end
    source,     \* what the back-end's bucket keeps
    repl,       \* the replicator: not started, copying, or ended for good
    position,   \* the newest it has read
    fetched,    \* what it has read and has not written yet, 0 when it has nothing
    local,      \* what the leader's bucket holds
    state,      \* machines_manager's state, per node
    answer,     \* the answer to a poll that the node has not looked at, 0 without one
    data,       \* the node's copy of the desired state
    installed,  \* the desired state the node was last brought to
    since       \* what the leader's bucket held when the node's process began

replicator == <<repl, position, fetched>>
backend == <<saas, source>>
machine == <<state, answer, data, installed, since>>
\* What a node's own steps leave alone.
site == <<broker, linked, spent, backend, leader, replicator, local>>
vars == <<site, machine>>

TypeOK ==
    /\ BrokerTypeOK
    /\ leader \in Leaders
    /\ saas \in Nat /\ source \in SUBSET Nat
    /\ repl \in {"off", "copying", "ended"}
    /\ position \in Nat /\ fetched \in Nat /\ local \in Nat
    /\ state \in [Nodes -> {"INITIAL", "MANAGE", "MAINTENANCE"}]
    /\ answer \in [Nodes -> Nat]
    /\ data \in [Nodes -> Nat]
    /\ installed \in [Nodes -> Nat]
    /\ since \in [Nodes -> Nat]

Each(v) == [n \in Nodes |-> v]

Init ==
    /\ BrokerInit
    /\ leader \in Leaders
    /\ saas = 0 /\ source = {}
    /\ repl = "off" /\ position = 0 /\ fetched = 0 /\ local = 0
    /\ state = Each("INITIAL")
    /\ answer = Each(0) /\ data = Each(0) /\ installed = Each(0) /\ since = Each(0)

-----------------------------------------------------------------------------
(* The back-end and the replicator. *)

Put_KeepsHistory ==
    /\ saas < MaxSpecs
    /\ saas' = saas + 1
    /\ source' = source \cup {saas + 1}
    /\ UNCHANGED <<broker, linked, spent, leader, replicator, local, machine>>

\* The bucket is created with the default history of one value per key.
Put ==
    /\ saas < MaxSpecs
    /\ saas' = saas + 1
    /\ source' = {saas + 1}
    /\ UNCHANGED <<broker, linked, spent, leader, replicator, local, machine>>

ReplicatorStarts_Resumes ==
    /\ up /\ repl = "off"
    /\ repl' = "copying"
    /\ UNCHANGED <<broker, linked, spent, backend, leader, position, fetched, local, machine>>

\* An ephemeral replicator copies the entire bucket each time it starts.
ReplicatorStarts ==
    /\ up /\ repl = "off"
    /\ repl' = "copying" /\ position' = 0
    /\ UNCHANGED <<broker, linked, spent, backend, leader, fetched, local, machine>>

\* stream.Run returns an error, because the leader's bucket is not there yet
\* for instance, which is logged; nothing starts it again.
ReplicatorFails ==
    /\ up /\ repl # "ended" /\ Spend("fault")
    /\ repl' = "ended" /\ fetched' = 0
    /\ UNCHANGED <<broker, linked, backend, leader, position, local, machine>>

Fetch ==
    /\ up /\ linked /\ repl = "copying" /\ fetched = 0
    /\ \E v \in source :
          /\ v > position /\ \A w \in source : w > position => v <= w
          /\ fetched' = v /\ position' = v
    /\ UNCHANGED <<broker, linked, spent, backend, leader, repl, local, machine>>

\* The answer to a write may be lost, and then it is written again.
Write ==
    /\ up /\ "CONFIG" \in objects /\ fetched # 0
    /\ local' = fetched
    /\ \/ fetched' = 0 /\ UNCHANGED spent
       \/ Spend("fault") /\ UNCHANGED fetched
    /\ UNCHANGED <<broker, linked, backend, leader, repl, position, machine>>

-----------------------------------------------------------------------------
(* machines_manager on node n. *)

Alive(n) == n = leader => up

Polls(n) == state[n] \in {"INITIAL", "MANAGE"}

Ask_Backend(n) ==
    /\ up /\ linked /\ "CONFIG" \in objects
    /\ Polls(n) /\ answer[n] = 0 /\ local # 0
    /\ answer' = [answer EXCEPT ![n] = local]
    /\ UNCHANGED <<site, state, data, installed, since>>

\* A poll reads the leader's bucket; one that fails is repeated.
Ask(n) ==
    /\ up /\ "CONFIG" \in objects
    /\ Polls(n) /\ answer[n] = 0 /\ local # 0
    /\ answer' = [answer EXCEPT ![n] = local]
    /\ UNCHANGED <<site, state, data, installed, since>>

\* A key that is not there, or not any more, makes no transition; the copy of
\* what was there may be dropped.
AskNothing(n) ==
    /\ up /\ "CONFIG" \in objects
    /\ Polls(n) /\ answer[n] = 0 /\ local = 0
    /\ data' = [data EXCEPT ![n] = 0]
    /\ UNCHANGED <<site, state, answer, installed, since>>

\* The first successful poll leads to MANAGE.
Take(n) ==
    /\ Alive(n) /\ answer[n] # 0
    /\ data' = [data EXCEPT ![n] = answer[n]]
    /\ answer' = [answer EXCEPT ![n] = 0]
    /\ state' = [state EXCEPT ![n] = IF @ = "INITIAL" THEN "MANAGE" ELSE @]
    /\ UNCHANGED <<site, installed, since>>

Manage(n) ==
    /\ Alive(n) /\ state[n] = "MANAGE" /\ data[n] # 0
    /\ installed' = [installed EXCEPT ![n] = data[n]]
    /\ UNCHANGED <<site, state, answer, data, since>>

EnterMaintenance(n) ==
    /\ Alive(n) /\ state[n] = "MANAGE"
    /\ state' = [state EXCEPT ![n] = "MAINTENANCE"]
    /\ UNCHANGED <<site, answer, data, installed, since>>

Resume(n) ==
    /\ Alive(n) /\ state[n] = "MAINTENANCE"
    /\ state' = [state EXCEPT ![n] = "MANAGE"]
    /\ UNCHANGED <<site, answer, data, installed, since>>

-----------------------------------------------------------------------------
(* Restarts and resets. *)

\* What process p of a node knew is gone: it begins in state first, and with an
\* answer to nothing.
Begins(p, first, held) ==
    /\ state' = [n \in Nodes |-> IF n = p THEN first ELSE state[n]]
    /\ answer' = [n \in Nodes |-> IF n = p THEN 0 ELSE answer[n]]
    /\ since' = [n \in Nodes |-> IF n = p THEN held ELSE since[n]]

Restarted_Manages(p) ==
    /\ Begins(p, "MANAGE", local)
    /\ \/ UNCHANGED data
       \/ data' = [n \in Nodes |-> IF n = p THEN 0 ELSE data[n]]
    /\ UNCHANGED installed

\* A new process begins in the initial state, whatever the old one was in; its
\* copy of the desired state may have survived.
Restarted(p) ==
    /\ Begins(p, "INITIAL", local)
    /\ \/ UNCHANGED data
       \/ data' = [n \in Nodes |-> IF n = p THEN 0 ELSE data[n]]
    /\ UNCHANGED installed

Wiped_Everyone(p, held) ==
    /\ Begins(p, "INITIAL", held)
    /\ data' = [n \in Nodes |-> IF n = p THEN 0 ELSE data[n]]
    /\ installed' = Each(0)

\* The reset command removes what the node has installed, and all it knows.
Wiped(p, held) ==
    /\ Begins(p, "INITIAL", held)
    /\ data' = [n \in Nodes |-> IF n = p THEN 0 ELSE data[n]]
    /\ installed' = [n \in Nodes |-> IF n = p THEN 0 ELSE installed[n]]

NodeRestart(n) ==
    /\ n # leader /\ Spend("restart") /\ Restarted(n)
    /\ UNCHANGED <<broker, linked, backend, leader, replicator, local>>

NodeReset_WithStore(n) ==
    /\ n # leader /\ Spend("reset") /\ Wiped(n, 0)
    /\ local' = 0
    /\ UNCHANGED <<broker, linked, backend, leader, replicator>>

NodeReset(n) ==
    /\ n # leader /\ Spend("reset") /\ Wiped(n, local)
    /\ UNCHANGED <<broker, linked, backend, leader, replicator, local>>

Start == BrokerStarts /\ UNCHANGED <<backend, leader, replicator, local, machine>>

\* What the broker makes itself (BrokerMakes) plays no part here.
BucketSetup ==
    /\ SetUp \/ SetUpFails
    /\ UNCHANGED <<backend, leader, replicator, local, machine>>

End ==
    /\ BrokerEnds /\ Restarted(leader)
    /\ repl' = "off" /\ fetched' = 0
    /\ UNCHANGED <<backend, leader, position, local>>

Reset ==
    /\ StoreRemoved /\ Wiped(leader, 0)
    /\ local' = 0
    /\ UNCHANGED <<backend, leader, replicator>>

Link == (LinkFails \/ LinkReturns) /\ UNCHANGED <<backend, leader, replicator, local, machine>>

Next ==
    \/ Put \/ ReplicatorStarts \/ ReplicatorFails \/ Fetch \/ Write
    \/ Start \/ BucketSetup \/ End \/ Reset \/ Link
    \/ \E n \in Nodes :
          \/ Ask(n) \/ AskNothing(n) \/ Take(n) \/ Manage(n)
          \/ EnterMaintenance(n) \/ Resume(n)
          \/ NodeRestart(n) \/ NodeReset(n)

Spec == Init /\ [][Next]_vars

\* The leader is started again, the set-up is repeated, the replicator goes on
\* and the watchers fire at their intervals.  The link need not come back, and
\* nobody has to end a maintenance.
Fairness ==
    /\ WF_vars(Start)
    /\ WF_vars(SetUp /\ UNCHANGED <<backend, leader, replicator, local, machine>>)
    /\ WF_vars(ReplicatorStarts) /\ WF_vars(Fetch) /\ WF_vars(Write)
    /\ \A n \in Nodes : WF_vars(Ask(n)) /\ WF_vars(Take(n)) /\ WF_vars(Manage(n))

FairSpec == Spec /\ Fairness

-----------------------------------------------------------------------------
(* Properties *)

\* Whatever is read, answered or copied again, and after any restart: the
\* leader's bucket and the nodes never go from a desired state to an older one
\* (replication.go copies everything at each start); only a reset clears them.
NeverGoesBack ==
    [][/\ local' < local => objects' = {}
       /\ \A n \in Nodes : installed'[n] < installed[n] => installed'[n] = 0]_vars

\* INITIAL of machines_manager (machine.yaml) is there so that a node is not
\* brought to a state older than the leader had when its process began, though
\* an older copy may have survived.
ManagesFreshSpec ==
    [][\A n \in Nodes :
          installed'[n] \notin {0, installed[n]} => installed'[n] >= since[n]]_vars

Promise == INSTANCE Rollout
               WITH Node <- Nodes, newest <- saas, site <- local, node <- installed,
                    known <- since, head <- leader

\* The replicator (replication.go), the polls and the initial state of
\* machines_manager (machine.yaml) together roll out what the back-end releases:
\* no node runs ahead of its site and the site passes no node by; the reset of a
\* machine (reset_cmd.go) takes nothing from another one, and the bucket is
\* emptied by the leader's only.
KeepsPromise == Promise!Spec

\* A site that stays on-line brings every node that is not left in maintenance
\* to the newest desired state, also after its stores were removed, unless the
\* replicator has ended, which StartReplication (replication.go) only logs.
Converges ==
    \A n \in Nodes :
        <>[](linked /\ repl # "ended" /\ state[n] # "MAINTENANCE")
            => <>[](installed[n] = saas)

\* "If the customer site is offline desired state remains in the customer side"
\* (docs): a node is brought to what the leader has without the back-end, also
\* when processes restart or the link never returns.
ManagedOffline ==
    \A n \in Nodes : \A v \in 1 .. MaxSpecs :
        <>[](local = v /\ state[n] # "MAINTENANCE") => <>[](installed[n] = v)
=============================================================================
