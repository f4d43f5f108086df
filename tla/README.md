# Machine Room: verification project

Machine Room turns a Go program into a managed agent: it is delivered with a
provisioning token, enrols with a SaaS back-end, restarts into a Choria server
(on a leader with a broker, spool streams and replication), and manages the
machine from then on. This directory holds TLA+ specifications of that code,
TLC configurations that check them on small instances, and proofs checked by
TLAPS. Paths below are relative to `src/`.

1. [Inventory](#1-inventory)
2. [Modules and how they correspond to the code](#2-modules-and-how-they-correspond-to-the-code)
3. [Runs](#3-runs)
4. [Fairness and assumptions about code that is not here](#4-fairness-and-assumptions)
5. [Proofs](#5-proofs)
6. [Findings](#6-findings)
7. [Plan, and what is not modelled](#7-plan-and-what-is-not-modelled)

## 1. Inventory

| component | state it keeps | operations | what makes it correct |
|---|---|---|---|
| run command (`command_run.go`) | `isLeader`, `opts.Identity`, the wait group, the context | read the configuration, create the user key, write facts, start broker, replication and server, wait | it enrols and then serves; it ends when asked and reports success only when all it started has ended |
| server start-up (`server.go`) | the files of the agent | choose between provisioning and provisioned mode, create the key, save the credentials | key, token, seed and credentials of different lives are never joined |
| reset command (`reset_cmd.go`) | the same files | eleven removals in a fixed order, each failure only logged | afterwards the agent is as delivered; an interrupted reset is as safe as none |
| facts (`facts.go`, `command_facts.go`, `internal/autoagents/factsrefresh`) | `instance.json` | gather and write, by the run command and by a scheduled process | the facts name the machine and its current user key |
| broker (`broker.go`) | certificates, the store, two streams and a bucket | write certificates, start, set up streams with retries, run adapters | a leader gets its bucket and its streams in the end, whatever an earlier attempt left |
| replication and spooling (`replication.go`) | five replicators and their consumers; the streams with their limits | configure, start, end; publish, expire, copy, acknowledge | what is spooled reaches the back-end in order, and is lost only to a limit or a reset; the leader's bucket never goes back and becomes current |
| process lifetime (`util.go`, `cli.go`) | two signal watchers, their timers, the context | configure, watch, cancel, force the end | an interrupt ends the process |
| autonomous agent manager (`internal/autoagents/machinesmanager`) | INITIAL, MANAGE or MAINTENANCE | poll the desired state, manage machines, maintenance | no node is brought to a state older than its leader's; it gets the newest in the end, and the leader's without the back-end |
| options and plug-ins (`options.go`, `plugins.go`, `machineroom.go`) | the registry and its `loaded` flag | validate, register once, copy read-only | each plug-in is registered once or the command fails |
| enrolment by the provisioner (`example/setup/templates/provisioner`) | the enrolment of each machine | validate, refuse or defer, write configuration, token and seed | the machine gets a token for the key it has |
| example back-end (`example/setup`, `example/docker-compose.yaml`) | issuer, signers, streams | a script run at every container start | an interrupted set-up is completed |
| node processor and dashboard (`example/setup/templates/nodes_processor`, `example/dashboard`) | node records, the page | replace a record, refresh the page | no registration is forgotten, each reaches a document or is succeeded; the page shows the documents |
| build information, example agent, documentation theme | none | print | - |

How they interact. The run command, the scheduled facts command, the reset
command and the provisioner's agent in the server are separate writers of the
same files and hold no lock; each decides by the *existence* of a file and
trusts what it holds. Inside the run command the broker, its adapters, its
stream set-up, the replicators, the server and two signal watchers are
goroutines that share a context and (all but the set-up and the watchers) a
wait group. Server, broker and replicators meet in the in-process connection of
the broker. Registrations and events flow from the nodes through the leader's
streams and its replicators to the back-end's streams, and from there through
the node processor into documents and on to the dashboard; the desired state
flows the other way, from the back-end's bucket through the replicator
`KV_CONFIG` into the leader's bucket and by polls into the autonomous agent
manager of every node.

What is hard: a death between two writes leaves files of two lives side by
side; removals and writes fail and the code goes on; the provisioner may give up
half way and begin again; a facts process may write what it gathered before a
reset; an interrupt may come at any step of the start, while goroutines are
being counted; a leader is handed its own broker's connection whatever mode it
is in. On the way of a message, a confirmation or an acknowledgement is lost, a
replicator or a processor ends between reading and acknowledging, the stream
drops what is being copied, and the whole bucket is copied again at every start;
a node begins with a copy of an earlier life. `PROJECT.json` lists each hazard at its line with the properties that
cover it.

## 2. Modules and how they correspond to the code

```
Custody             abstract: what an agent promises about its key
AgentFiles          files of the agent, and what the code reads from them
  AgentNode         run, facts and reset commands, provisioner; INSTANCE Custody
    AgentNodeInductive   the inductive invariants and the circumstances they need
      AgentNodeProofs    theorems
        AgentEnrolmentProofs   the other order of an enrolment; it implements Custody
      MCAgentNode        values of the constants for TLC

Lifetime            abstract: what a run command promises about its end
RunLifetime         the goroutines of one run command; INSTANCE Lifetime
  RunLifetimeInductive   the inductive invariant
    RunLifetimeProofs    theorems, among them that it implements Lifetime
    MCRunLifetime        values of the constants for TLC

LeaderBroker        start, end, stream set-up and store of the leader's broker; the link
  LeaderBrokerProofs     lemmas the two below share
  Spool             streams and replicators towards the back-end; INSTANCE Delivery
    SpoolInductive       the inductive invariant
      SpoolProofs        theorems, among them that it implements Delivery
      MCSpool            values of the constants for TLC
  DesiredState      the bucket, its replicator, machines_manager on the nodes; INSTANCE Rollout
    DesiredStateInductive
      DesiredStateProofs     theorems, among them that it implements Rollout
      MCDesiredState
Delivery            abstract: what a site promises about what it spools
Rollout             abstract: what a site promises about desired states

NodeRecords         the back-end's stream of registrations, node processor, dashboard
  NodeRecordsInductive
    NodeRecordsProofs
    MCNodeRecords
```

`AgentNode` and `RunLifetime` are two views of the same command. `AgentNode` keeps the order
of everything that touches a file and treats goroutines as already running;
`RunLifetime` keeps the goroutines and treats files as already there. They are
not composed: no goroutine's end depends on what a file holds beyond the errors
that either view takes as possible at each step.

Operators whose name ends in `_Something` (`Provision_NewKey`,
`Launch_Uncounted`) are mutated forms of the definition after them, mistakes the
code could have made. Nothing uses them; each is recorded with the property
that must fail when it takes the definition's place.

### AgentNode

`disk` maps each file to its content, abstracted to what a property can tell
apart (see the head of `AgentFiles`): a user key is the number it was minted
with, so is the NATS token signed for it; a server seed and the token signed
for it are the number of a key pair; facts are whether they name the machine and
which user key they show; a configuration is whether it parses, what it says
about provisioning, the role, and the NATS token. `Torn` is what a write leaves
that fails or is cut off by a death (`os.WriteFile` truncates first).

| action | code |
|---|---|
| `RunStart`, `ReadConfig` | `CommonConfigure`; the configuration is read if it exists, and if it cannot be parsed the command ends (`command_run.go:28-36`) |
| `CreateNKey` | `createServerNKey` in `util.go`: kept if it exists, whole or not; a failure is only logged |
| `GatherFacts`, `WriteFacts` | the facts command called by the run command; both failures only logged; a death may fall between |
| `StartBroker`, `BrokerFails` | `newBroker` for leaders: the three certificate files in their order, the key with mode 0400, the store, and every error that ends the command |
| `Serve` | the provisioned branch of `newServer`: machine store and `saveCredentials`, whose failures are only logged |
| `Provision`, `ProvisionFails` | the other two branches: a key if there is none, the provisioning token, or an error |
| `Inventory`, `GenSeed`, `WriteConfig`, `WriteJwt`, `Restart` | the provisioner's conversation (the vendor's helper is given the machine's facts and answers with its configuration: in the example `helper.rb`, which sets the role and no NATS token; one that has the user key signed sets `machine_room.source.nats_jwt` as well, `options.go:13-18`. The agent the provisioner calls is go-choria's) |
| `SessionLost` | the provisioner gives up; the next one begins with a new seed |
| `RefreshGather`, `RefreshWrite` | the scheduled facts process, which never reads the configuration and so has no identity |
| `ResetStart`, `ResetStep`, `ResetEnd` | `resetCommand`, one removal per step; `ResetStep` may fail |
| `Crash`, `ResetCrash` | a death at any point, with the file under way torn or not |

Constants choose the circumstances: `Roles`, `InitConfigs` (what a machine may
be delivered with, or have from an earlier enrolment), `CfgFirst` (the order in
which the provisioner's agent writes configuration and token: both are
checked, because the code that decides is not in the repository), `Exclusive`
(the agent is stopped during a reset, as the command asks, `reset_cmd.go:24`), `Orphans`,
`Privileged`, and `Limit`, the number of each kind of event.

`Custody` is the promise without files, commands or a provisioner: a key is made
when there is none, the agent is enrolled for the key it has, the credentials are
made of both, and nothing is dropped while the agent is enrolled. The refinement
maps `key` and `creds` to the two files, `made` to `minted`, and `enrolment` to
the NATS token of the configuration when `newServer` would start provisioned. An
interrupted reset is then the end of an enrolment followed by some of the drops,
and a provisioner that gives up, or a death between its writes, does nothing until
the enrolment is complete.

### RunLifetime

| action | code |
|---|---|
| `Configure`, `Facts`, `Gathered` | `CommonConfigure` starts a watcher; the facts command the run command calls starts a second, or fails to configure itself, which is only logged |
| `StartBroker`, `BrokerStarted`, `AwaitInterrupted` | `broker.Start`: count and start, wait with a sleep that knows the context, then stream set-up (not counted) and adapters |
| `Launch`, `ReplicationStarted` | the loop of `StartReplication`; each goroutine is counted before it starts |
| `ReplicatorRuns`, `ReplicatorReturns`, `ReplicatorEnds` | the goroutine: counts once more for `stream.Run`, which gives that count back; the deferred `Done` gives back the first |
| `StartServer`, `Stops` | `server.Start`; `instance.Run` gives the count back also when it fails, which is only logged |
| `Fail`, `WaitReturns` | the early returns of `runCommand`, and its end after `wg.Wait()` |
| `Signal`, `Watch`, `Interrupt`, `WatcherStops` | delivery to every registered channel (or death before the first registration), and the branches of `interruptWatcher` |
| `Tick`, `ForceQuit` | `forceQuit`, in seconds |
| `ParentCancel` | the context handed to `Run` by the embedding program is cancelled |

`slow` and `cancels` are chosen once per behaviour: which goroutines need not
notice a cancelled context, and whether the embedding program ever cancels it.

`Lifetime` is the promise without the mechanism: parts begin once and end, somebody
asks, and the command leaves cleanly only when no part is at work, or abruptly.
The refinement maps `begun` to the parts that are not idle any more, `up` to those
between their first count and their last `Done`, `asked` to a signal sent or a context cancelled, `gone` to the exit.

### LeaderBroker, and how Spool and DesiredState build on it

`LeaderBroker` has the leader's broker as both directions of replication see it:
whether it runs, the next step of `setupStreams`, the objects in its store, the
link to the back-end, and the number of faults that have happened. `Spool` and
`DesiredState` extend it and add what its actions do to their own variables
(`End` is `BrokerEnds` and what a death does to replicators, and so on). The two
share nothing else: a message stream and the bucket have no step in common.

| action | code |
|---|---|
| `BrokerStarts` | `Start` (`broker.go:228-263`), which begins a set-up in a goroutine |
| `SetUp`, `SetUpFails` | `setupStreams`: connect, then `CONFIG`, `REGISTRATION`, `SUBMIT`, each kept if it exists; the first error ends the attempt and the next begins from the connection |
| `BrokerMakes` | the event streams go-choria's broker creates itself |
| `BrokerEnds`, `StoreRemoved` | the end of the process; `resetCommand` removing the storage directory |
| `LinkFails`, `LinkReturns` | the network |

### Spool and Delivery

Messages of a stream are numbered as it accepts them and known by their subject
only, which is what the limit per subject needs.

| action | code |
|---|---|
| `Publish` | what the nodes and the adapter publish (`broker.go:101-111`), accepted if the stream exists; the limit per subject drops the oldest at once |
| `Expire` | `MaxAge` |
| `ReplicatorStarts`, `ReplicatorFails` | the loop of `StartReplication`: it does not wait for the set-up, and a `stream.Run` that returns an error is only logged |
| `Fetch`, `Copy`, `Ack` | the replicator: oldest unacknowledged message, publish to the back-end until confirmed, then acknowledge to the durable consumer in the leader's store |
| `Start`, `StreamSetup`, `End`, `Reset`, `Link` | the actions of `LeaderBroker` |

`Delivery` is the promise without broker, store or replicators: what a stream
accepts is delivered after everything it accepted before, or is given up; never
both. The refinement maps `accepted` to the length of the log and `lost` to the
accepted messages that are neither delivered, nor in the store, nor in a
replicator's hands. A message dropped by a limit while it is being copied is not
lost yet: it is when its replicator dies.

### DesiredState

| action | code |
|---|---|
| `Put` | the back-end puts the next desired state into its bucket, which keeps one value (`create.sh:27-28`) |
| `ReplicatorStarts`, `ReplicatorFails`, `Fetch`, `Write` | the stream `KV_CONFIG`, ephemeral: it copies everything at each start (`replication.go:91-106`) |
| `Ask`, `AskNothing`, `Take` | the two polls of `machine.yaml`: a request and its answer are two steps; the first answer leads from INITIAL to MANAGE |
| `Manage` | the watcher `manage_machines` |
| `EnterMaintenance`, `Resume` | the transitions of these names |
| `NodeRestart`, `NodeReset` | a node that is not the leader; `Restarted` begins in INITIAL, with or without its old copy of the desired state |
| `Start`, `BucketSetup`, `End`, `Reset`, `Link` | the leader; its own `machines_manager` ends with it |

`Rollout` is the promise without buckets, replicators, polls or copies: the site
and its nodes advance, no node further than its site, and a process brings its node
to nothing older than the site had when it began. The refinement maps `site` to the
leader's bucket, `node` to what each node has installed, `known` to `since` and
`head`, which no step changes, to `leader`.
What it says beyond `NeverGoesBack` is about several machines at once: a write to
the leader's bucket passes no node by, though the node may have what was there
before a reset emptied it; the reset of a machine other than `head` takes nothing from
the bucket or from any other, and that of `head` empties the bucket and takes nothing
from any other machine, whether it is one of the nodes that are looked at or not.

### NodeRecords

| action | code |
|---|---|
| `Arrive`, `Expire` | the stream `MACHINE_ROOM_NODES` and its limits (`nodes.json`) |
| `Read`, `Ack`, `Reject`, `ProcessorRestarts` | the input of `nodes.yaml`: several messages in work, acknowledged after the output has answered, delivered again otherwise; a durable consumer |
| `Replace`, `FindNone`, `Insert` | the output: `replace-one` with `upsert`, keyed by the host's name; two calls that find no document both insert |
| `Refresh`, `Query`, `Show`, `ShowError` | `fetchNodes` and its timer, `handleNodes` |

`NodeRecords` begins where `Spool` ends: what `Spool` delivers of one host arrives
here as its registrations. The two are not composed into one module: the only
thing that passes between them is that a message has arrived, and `Arrive` may
happen at any time.

## 3. Runs

| run | circumstances | shows |
|---|---|---|
| `Node_keys` | both roles, machines that are enrolled or have no configuration, configuration first; 2 crashes, 1 failed write, 1 lost session, 2 resets; exclusive, no orphans | `CredsMatch`, `EnrolledKey`, `ResetIsFactory`, `IdentityPair`, `KeepsCustody`, and the inductive invariant `IInv` |
| `Node_follower` | followers without a configuration; a running agent is reset, orphaned facts processes, not root, a removal that fails, a crash, a failed write | `TypeOK`, `NKeyStable` (even then a key that exists is never replaced), `EventuallyServing` |
| `Node_leader` | both roles, all configurations of leaders and followers, token first; 2 crashes, 1 failed write, 1 lost session, no reset | `NeverStranded`, `IdentityPair` |
| `Run_lifetime` | both roles; everything or nothing slow; everything may fail; parent may cancel; 2 signals | `IInv`, `WaitIsExact`, `SignalHeeded`, `KeepsPromise`, `WaitGroupNotReused`, `StopsWhenAsked`, `FailedServerEnds` |
| `Spool_rough` | a limited stream, 2 subjects, 2 messages, 1 kept per subject; 2 failing calls, 1 restart, 1 reset, 1 outage | `IInv`, `NothingElseLost`, `SetUpInOrder`, `KeepsPromise`, `EventuallyDelivered`, `StreamsAppear` |
| `DesiredState` | a node that is the leader or not, 2 desired states; 1 failing call, 1 restart, 1 reset, 1 outage | `IInv`, `NeverGoesBack`, `ManagesFreshSpec`, `KeepsPromise`, `Converges`, `ManagedOffline` |
| `NodeRecords` | 1 host, 2 registrations, 1 kept; 2 requests of the page; 2 failures | `IInv`, `NothingForgotten`, `NothingMadeUp`, `RecordReaches`, `PageCatchesUp` |
| `Node_stuck_reset`, `Node_nameless_facts`, `Node_bad_config`, `Node_stranded_leader`, `Spool_offline` | as small as shows it | the [findings](#6-findings): each refutes one statement of the repository |

### What the circumstances mean

`CredsMatch`, `EnrolledKey`, `ResetIsFactory` and `KeepsCustody` hold in `Node_keys`; each
restriction there is needed. TLC finds a counterexample as soon as one is
dropped: token before configuration (with an interrupted reset and a crash), a
removal that fails, a facts process that outlives its agent across a reset, or
a reset of a running agent.

`IdentityPair` needs more. A lost session breaks it in either order, because
the next provisioner generates a seed next to the old token; the property
exempts that case. When a machine is enrolled *again* (its packaged
configuration asks for it, or says nothing) configuration first breaks it as
well: a death after the configuration and before the token leaves the old token
next to the new seed. So `Node_keys` checks machines without such a configuration, with
configuration first, and `Node_leader` machines that are enrolled again, with
configuration last: no order is safe in every situation. In `Node_keys` it also
depends on the reset's order: token before seed, configuration last.

`EventuallyServing` holds for followers in either order. A leader is stranded
if it dies between configuration and token, or after an interrupted reset that
left its configuration (`Node_stranded_leader`); with the token first and no
reset it is not (`NeverStranded` in `Node_leader`). That property exempts one more
way, which no order of writes avoids: a machine whose configuration makes it a
leader and asks for another enrolment, or is there without the rest of an
enrolment, is `Stranded` from the start. A follower whose configuration asks for
another enrolment is not exempt, also when that makes it a leader. A leader that may not overwrite a file of mode 0400 fails at
its second start (`broker.go:216`), so `Node_leader` assumes privileges.

`EventuallyDelivered`, `Converges` and `RecordReaches` name their exceptions. A
message may be dropped by a limit before the link is back (`Spool_offline`
refutes the promise without this exception); a replicator that has ended stays
ended until its process does, and nothing reports it; a site brings a node to the
newest desired state only if the link stays, its replicator has not ended and the
node is not left in maintenance. `ManagedOffline` is the other half: it asks
for neither link nor replicator. `RecordReaches` allows that a registration
which was overtaken replaces a newer one in the document, until the host
registers again, and that a host has two documents if its first two registrations
were in work at the same time.

### Bounds and why they are enough

- `Limit` of `AgentNode`: two crashes allow one within an enrolment and one
  within what follows it, and one in a reset followed by one in the next start,
  which is what the known counterexamples need; two resets allow keys of three
  lives. `Node_follower` has one of each event, so that every pair of kinds is
  interleaved.
- `minted` and `gens` need no bound of their own: a key is minted once and once
  more per reset, a seed once per session.
- `MCRunLifetime` has one replicated stream: replicators do not see each other,
  and the theorems hold for every finite set of them. Two signals are one more
  than a watcher reads. `DefaultShutdownGrace` is 2 seconds instead of the code's
  5: long enough for the two timers to start at different seconds.
- `MCSpool` has one stream that is limited both ways, again because streams do
  not see each other. Two messages with a limit of one per subject (the code has
  five) are enough for one to overtake another on its subject, on a different
  one, before, while and after it is copied; two failing calls let a
  confirmation be lost and the replicator end in one behaviour.
- `MCDesiredState` looks at one node, since nodes meet only in the leader's
  bucket, and lets the leader be that node or another, so that a
  reset of either may wrongly reach the other; that two nodes which do not lead leave
  each other alone is in the theorem, for any number of them. Two desired states are one
  old and one new; one of each event puts a restart, a reset, an outage and a
  failure in every order.
- `MCNodeRecords`: documents of different hosts are independent, so is one host;
  with two registrations and a limit of one the second drops the first at every
  stage of its work; two requests can cross. Two failures allow a redelivery
  that fails again, or that of a message and a death.
- The theorems of section 5 have none of these bounds.
- Deadlock is checked in `Node_follower`. Elsewhere a
  behaviour really may stop: a stranded leader waits for a provisioner that
  never comes, a process that has ended takes no more steps, a site with nothing
  to publish is quiet.

## 4. Fairness and assumptions

Fairness of `AgentNode`: the run command goes on and is started again whenever
it ends (the documentation promises a restart into the provisioned state, and the
code answers most errors by ending, which leaves the restart to whatever runs the
command; no unit file is in the repository), the provisioner goes on with a server it reaches,
a facts process that has gathered writes, a reset that has started goes on.
Nothing is assumed about crashes, failures, lost sessions or new resets except
that `Limit` bounds them.

Fairness of `RunLifetime`: the command and each goroutine that is not `slow`
take their next step, and stop once the context is done; a timer runs; a watcher
that was started registers and takes what is in its channel. Nothing makes a
broker start, a goroutine fail or a signal arrive. A slow command stands for
code that does not look at the context, such as the resolution of provisioning
targets, which is given a context of its own (`server.go:62`, `server.go:125`).

Fairness of `Spool`: the leader is started again, an attempt at the set-up that
is not interrupted by a fault goes on (`backoff.Default.For` repeats for ever),
the link comes back, and replicators start, fetch, copy and acknowledge. Of
`DesiredState`: the same without the link, which need not come back, and the
watchers of `machine.yaml` fire at their intervals; nobody has to end a
maintenance. Of `NodeRecords`: the processor reads, writes and acknowledges, and
the page, open in a browser, sends its requests and receives the answers. Nothing is
assumed about publishing, putting, expiring, failures, restarts or resets, except
that bounds limit them.

Code that is not in the repository is modelled from how it is used, and is
marked external in the map:

- `os.WriteFile` replaces a file or leaves it torn; files are not reordered
  by a power failure.
- The vendor's helper may sign a token for the user key in the facts it is given,
  or none; it signs for no other key.
- go-choria's provisioning agent writes seed, then configuration and token in
  one of the two orders, then restarts the process. Its own writes are not torn.
- A server with the in-process connection of its own broker does not reach the
  provisioning network; a broker may be refused by the security provider when
  token or seed are missing.
- A leader's configuration has a source host and a site; without them
  `StartReplication` ends the command (`Fail` in `RunLifetime`).
- `instance.Run`, the broker's `Start` and `stream.Run` give back one count when
  they are done, as the counts taken for them in `server.go:158`, `broker.go:238`
  and `replication.go:124` imply.
- Go delivers a signal to every registered channel that has room; before the
  first registration SIGTERM kills the process.
- stream-replicator copies the oldest message its consumer has not acknowledged,
  publishes it until the target confirms, and only then acknowledges; the consumer
  is durable in the source's store, except for the ephemeral `KV_CONFIG`. It waits
  for a source stream that is missing; that the target is missing may end it.
  A second copy that arrives after the acknowledgement is not modelled.
- JetStream keeps what it has accepted across restarts, numbers it in order and
  drops by its limits only; a store on disk survives the death of the process.
- The kv watcher of an autonomous agent polls when its state matches, makes no
  transition for a key that is not there, and may or may not drop the copy of a
  value that is gone. The copy may or may not survive a restart: the model
  takes both.
- MongoDB's upsert replaces one document that matches, or finds none and inserts.
- A host is known by one name: the stream's subject and its limit are by the
  identity of the machine, the filter of `nodes.yaml:34` is by the host name in its
  facts, and the model takes them to be the same.
- The processor acknowledges a message after its output has answered, and works
  on several at a time. Go's JSON of an answer without documents is `null`
  (`main.go:63,70`), for which the page shows an error: `Show` takes both.

## 5. Proofs

The modules whose names end in `Proofs` prove, for every value of the
constants that satisfies the assumptions named in the modules:

| theorem | property | under |
|---|---|---|
| `TypeCorrect` | `TypeOK` | nothing more |
| `KeyStable` | `NKeyStable` | nothing more: also for shared resets, orphans, failing removals |
| `CredentialsMatch` | `CredsMatch` | `Orderly` |
| `EnrolmentNamesKey` | `EnrolledKey` | `Orderly` |
| `ResetRestoresFactory` | `ResetIsFactory` | `Orderly` |
| `Inductive` | `IInv` of `AgentNodeInductive` | `Orderly` |
| `PairStaysTogether` | `IdentityPair` | `EnrolledOnce` |
| `OrderKept` | `OrderInv` of `AgentNodeInductive` | `Undisturbed` |
| `TokenFirstKeepsPair` | `IdentityPair` | `TokenFirst` |
| `ImplementsCustody` | `KeepsCustody` (`AgentNode` implements `Custody!Spec`) | `Orderly` |
| `WaitGroupCounts` | `IInv` of `RunLifetimeInductive` | nothing more |
| `NotReused` | `WaitGroupNotReused` | nothing more |
| `Implements` | `KeepsPromise` (`RunLifetime` implements `Lifetime!Spec`) | nothing more |
| `WaitEndsInTime`, `SignalsAreHeeded` | `WaitIsExact`, `SignalHeeded` | nothing more |
| `SpoolInvariant` | `IInv` of `SpoolInductive` | nothing more |
| `SpoolTypeCorrect`, `OnlyExcusedIsLost` | `TypeOK`, `NothingElseLost` | nothing more |
| `ImplementsDelivery` | `KeepsPromise` (`Spool` implements `Delivery!Spec`) | nothing more |
| `SetUpLeavesNothing` | `SetUpInOrder` | nothing more |
| `DesiredStateInvariant` | `IInv` of `DesiredStateInductive` | nothing more |
| `DesiredStateTypeCorrect`, `DesiredStateOnlyAdvances` | `TypeOK`, `NeverGoesBack` | nothing more |
| `OnlyFreshIsManaged` | `ManagesFreshSpec` | nothing more |
| `ImplementsRollout` | `KeepsPromise` (`DesiredState` implements `Rollout!Spec`) | nothing more |
| `NodeRecordsInvariant` | `IInv` of `NodeRecordsInductive` | nothing more |
| `RegistrationsKept`, `DocumentsAreReal` | `NothingForgotten`, `NothingMadeUp` | nothing more |

`Orderly` (in `AgentNodeInductive`) is `Node_keys` without its bounds: exclusive
reset, no orphans, removals that succeed, configuration before token, and a
packaged NATS token that is for the packaged key. Crashes, failed writes, lost
sessions and resets are unlimited. `EnrolledOnce` adds that no configuration
delivered with a machine asks for another enrolment, as in `Node_keys`.
`Undisturbed` is what both orders of an enrolment need: an exclusive reset whose
removals succeed. `TokenFirst` adds only that the token is written before the
configuration; it covers `Node_leader`, and besides that resets, orphaned facts
commands and every packaged configuration.

**The argument about keys.** `CredsMatch` and `EnrolledKey` are not inductive: a
credentials file is written from a configuration and a key, the configuration
from what the provisioner read, that from the facts, and those from the key.
`KeysCurrent` and `ConfigCurrent` follow the key along this chain: wherever a
key is held, it is the one on disk or none. Only a reset removes a key, so
`Alone` says that nobody holds one while a reset runs, and `ResetSoFar` that the
reset has by then removed the facts, the token and thus everything
`ConfigCurrent` speaks of. A configuration left behind by an interrupted reset
may name an old key; it has no token next to it, and the next enrolment writes
the configuration before the token. This is where `CfgFirst` and the order of
the removals enter.

**The argument about token and seed.** `IdentityPair` needs `PairInv` next to
`IInv`: a token completes an enrolment, since it is written last (`CfgFirst`) and
`ResetSoFar` says that a reset removes it before seed, key and configuration; so a server
that asks to be enrolled has none until the provisioner writes it, and by then the
seed is the newest (`SeedIsNewest`). All of this ends with the first lost session,
as the property does.

**The argument with the token first.** Then the configuration completes an
enrolment, and what was left of an earlier one is no longer kept out by the token.
`ConfigIsLast` says instead that a seed is only replaced while the agent is not
enrolled, and that the token for it is written before the configuration is. That
is only inductive with `OrderInv`: a user key or a seed that appears must not
complete an old enrolment, so neither may be missing where a token is. A reset
keeps this because it removes the token before both (`TokenGoesFirst`), and the
provisioner because it starts with a seed, on an agent that has made a key
(`KeyIsFirst`).

**The argument about custody.** Steps that write or remove none of token, seed
and configuration are treated together: `QuietFiles` says that such a step makes
a key, writes credentials or leaves both alone, and `QuietControl` that it does
not continue an enrolment. A key is made only where there is none, hence, by
`OrderInv`, no token and no enrolment; credentials are written by an
enrolled agent, whose configuration names the key on disk by `IInv`; a
configuration or a token that completes an enrolment completes it for the key that
was offered. A removal before the token's leaves the enrolment alone, that of the
token ends it, and key and credentials come after it in the order of the reset.

**The argument about signals.** `SignalHeeded` needs `Heeding`: a watcher has
returned only because the context was done, and that was the work of the embedding
program or of a watcher that has started its timer before. A watcher that returns
with a signal in its channel therefore leaves a timer behind, unless the program
cancelled the context. Each of the two is
started at most once, by a step `runCommand` does not come back to.

**The argument about the wait group.** `Counter` says that the counter is the
number of parts at work plus the number of replicators inside `stream.Run`. The
lemmas `Begins` and `Ends` compute the two cardinalities after a step;
`NotYetStarted` says that what `runCommand` starts next was not started before,
so that the sets really grow. A counter of zero then means that both sets are
empty, which gives `NotReused` (only a goroutine that is counted raises the
counter) and, in the refinement, the clean end. That no part begins a second time is
`NotYetStarted` once more, and for replicators the guard of the loop.

**The argument about messages.** That nothing is lost but to a limit or a reset
(`Accounted`) is disturbed by one action only: an acknowledgement moves the
consumer past everything before the message. `InOrder` says that nothing before
it still waited when it was fetched, `InLog` that expired messages are not
stored, and `InHand` that a confirmed message is at the back-end. For the
refinement, `OverflowGrows` shows that what a limit has dropped stays dropped
when more is published. Every step of `Spool` is then a step of `Delivery` or
only gives up: a stream accepts, one message is delivered after all open ones
before it, and otherwise nothing but `lost` grows (`Accepts`, `Delivers`,
`GivesUp`, `OthersGiveUp`). The set-up of the streams is shared with
`DesiredState`: `SetUpInOrder` is kept by a removal of the store because no
attempt is under way then (`SetUpSound`).

**The argument about the desired state.** `NeverGoesBack` speaks of two copies,
but old values are under way in a third and a fourth: in the replicator's hand and
in the answer to a poll. `Ordered` says that the replicator never holds anything
older than the leader's bucket, which rests on the back-end's bucket keeping
one value; `Follows` says that a node is never ahead of what it is going to be
told next, from the bucket or, if that was emptied by a reset, from the replicator
and in the end from the back-end. A copy that survived a restart may be
old: the conjunct about `data` speaks of states other than INITIAL only, which is what that
state is for. The same invariant carries the refinement: what the replicator writes
is at least what every node has (`Follows`), and what a node manages is at least
what it has and what its leader had when its process began.

**The argument about registrations.** `StreamKeeps` relates the stream to its
limits and `WrittenFirst` follows a registration through the processor: it is
answered, and then acknowledged, only if it was written, and a redelivery or a
death takes it out of the processor without either. For `NothingMadeUp` the page
and every answer under way are followed as well (`Documented`): a document is
replaced or added and never removed, so that there are never fewer of them than an
old answer shows when it arrives.

Every invariant and action property of the runs that pass is proved. What is only
model-checked are the liveness properties (`EventuallyServing`, `NeverStranded`,
`StopsWhenAsked`, `FailedServerEnds`, `StreamsAppear`, `EventuallyDelivered`,
`Converges`, `ManagedOffline`, `RecordReaches`, `PageCatchesUp`), since neither
fairness nor ENABLED is supported by the proof system.

## 6. Findings

- A removal that fails is only logged and the reset still reports success
  (`Node_stuck_reset`).
- The scheduled facts process never reads the configuration, so that the first
  refresh takes the machine's identity out of the facts (`Node_nameless_facts`).
- An unreadable configuration ends every start before the branch that says it
  forces a new provisioning (`Node_bad_config`).
- A leader that loses its token but keeps its configuration tries to provision
  through its own broker (`Node_stranded_leader`). The same happens to a leader whose
  configuration asks for another enrolment, which `NeverStranded` exempts.
- The documentation says that what was spooled off-line will spool back; the
  streams keep it for 24 hours, and five registrations of a node
  (`Spool_offline`).

Not findings, since no text of the repository says otherwise or none that a run
could decide, but worth knowing: a leader whose server fails stays alive without
it; a context cancelled by the embedding program starts no timer, and later
signals are then lost because the watchers have returned and stay registered; an
interrupt while the broker starts ends the process with an error while the broker
is still stopping; the forced end comes after five seconds and its message says
ten; provisioning begins without facts if they could not be gathered; a
replicator that ends is only logged, and what it copies stands still until the
process is restarted; a node loses its maintenance with a restart; an older
record may stay at the back-end until the host registers again, and a host may
have two documents.

## 7. Plan, and what is not modelled

Done: the files of an agent and all that writes them, the lifetime of a run
command, the leader's broker and its set-up, replication both ways, the
autonomous agent manager, the example's node processor and dashboard.

Not modelled, and why:

- The options and the plug-in registry (`options.go`, `plugins.go`,
  `machineroom.go`): sequential code run once at the start of a process, whose
  failure ends it.
- `buildinfo`, the example agent, parsing of the command line, logging, the
  readings of the host that become facts, the contents of certificates, the
  settings `newServer` copies into the Choria configuration: no state that
  anything modelled depends on.
- The connections that failed attempts at the stream set-up leave open
  (`broker.go:352`): they are a leak, but no limit in the code makes it a property.
- Deletion of a key of the bucket, and the prefix of its keys
  (`replication.go:102-105`): what they do is decided in stream-replicator.
- Desired states with a bad signature, messages the node processor cannot decode,
  and a second copy of a message that arrives long after it was acknowledged.
- The workers of the registration adapter (`broker.go:107-111`), which may
  reorder registrations before the stream numbers them.
- The set-up of the example's back-end (`example/setup/setup.sh`): a sequence of
  other projects' tools that is run once.
- The layout, sorting and searching of the dashboard.
- The documentation theme under `docs/themes`: third-party code, and the only
  JavaScript files of the repository. The project's own code is Go, with
  Ruby and YAML, and that is what the map covers.
