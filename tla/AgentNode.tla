------------------------------ MODULE AgentNode ------------------------------
(***************************************************************************)
(* The life of one Machine Room agent on one machine: the `run' command    *)
(* from its start to the provisioning or the provisioned server, the facts *)
(* command the server starts on a schedule, the reset command, and the     *)
(* provisioner at the other end of the provisioning network, which writes  *)
(* the enrolment through the server.  They meet in the agent's files: the  *)
(* code keeps no lock on them and trusts that a file that exists is whole. *)
(*                                                                         *)
(* Any process may die between two steps or in the middle of a write, a    *)
(* write or a removal may fail, and the provisioner may give up; each of   *)
(* these is bounded by Limit.                                              *)
(***************************************************************************)
EXTENDS AgentFiles

CONSTANTS
    Roles,        \* the roles the provisioner hands out
    InitConfigs,  \* configurations a machine may be delivered with
    CfgFirst,     \* the provisioner's agent writes the configuration before the token
    Exclusive,    \* the agent is stopped while it is reset, as the reset command asks
    Orphans,      \* a facts command outlives the agent that started it
    Privileged,   \* the agent may overwrite a file whose mode is 0400
    Limit         \* how often each kind of event may happen

\* "fault": a write or the gathering of facts fails.  "stuck": the reset
\* command fails to remove a file.  "lost": the provisioner gives up half way.
Event == {"crash", "fault", "stuck", "lost", "reset"}

ASSUME ParametersAssumption ==
    /\ Roles \subseteq {"leader", "follower"}
    /\ InitConfigs \subseteq Config
    /\ {CfgFirst, Exclusive, Orphans, Privileged} \subseteq BOOLEAN
    /\ Limit \in [Event -> Nat]

VARIABLES
    disk,      \* the content of every file
    proc,      \* where the run command is; "stopped" when there is none
    role,      \* isLeader and Options.Identity: what the run command read
    gathered,  \* the facts the run command has gathered and not yet written
    refresh,   \* the facts a scheduled facts command has gathered, None without one
    session,   \* the next step of the provisioner's conversation with the server
    offered,   \* the user key the provisioner read from the facts
    reset,     \* the next removal of the reset command, 0 when it does not run
    minted,    \* the number of user keys generated so far
    gens,      \* the number of server key pairs generated so far
    spent      \* the events that have happened

files == <<disk, minted, gens>>
conversation == <<session, offered>>
vars == <<disk, proc, role, gathered, refresh, session, offered, reset,
          minted, gens, spent>>

RunStates == {"stopped", "config", "nkey", "facts", "facts_write", "broker",
              "server", "provisioning", "serving"}

SessionSteps == {"none", "seed", "first", "second", "restart"}

TypeOK ==
    /\ DiskOK(disk)
    /\ proc \in RunStates
    /\ role \in {"unenrolled", "leader", "follower"}
    /\ gathered \in FactsDoc \cup {None}
    /\ refresh \in FactsDoc \cup {None}
    /\ session \in SessionSteps
    /\ offered \in Key
    /\ reset \in 0 .. Len(ResetOrder) + 1
    /\ minted \in Nat
    /\ gens \in Nat
    /\ spent \in [Event -> Nat]

-----------------------------------------------------------------------------
\* A machine as delivered: with or without the provisioning token, and with a
\* configuration only if the vendor packaged one.
Delivered(token, cfg) ==
    [f \in File |-> IF f = "token" THEN token ELSE IF f = "cfg" THEN cfg ELSE None]

\* A machine that was enrolled before and now has configuration cfg.
Veteran(cfg) ==
    [f \in File |-> CASE f = "cfg" -> cfg
                      [] f = "token" -> "present"
                      [] f \in {"jwt", "seed", "nkey"} -> 1
                      [] OTHER -> None]

Init ==
    /\ \/ /\ \E t \in {None, "present"}, c \in InitConfigs \cup {None} :
                disk = Delivered(t, c)
          /\ minted = 0 /\ gens = 0
       \/ /\ \E c \in InitConfigs : disk = Veteran(c)
          /\ minted = 1 /\ gens = 1
    /\ proc = "stopped" /\ role = "unenrolled"
    /\ gathered = None /\ refresh = None
    /\ session = "none" /\ offered = NoKey
    /\ reset = 0
    /\ spent = [e \in Event |-> 0]

Spend(e) == spent[e] < Limit[e] /\ spent' = [spent EXCEPT ![e] = @ + 1]

\* The run command ends; what it held in memory and its connection are gone.
Exit ==
    /\ proc' = "stopped" /\ role' = "unenrolled" /\ gathered' = None
    /\ session' = "none" /\ offered' = NoKey

Continue(to) == proc' = to /\ UNCHANGED <<role, gathered, conversation>>

\* nkeys.CreateUser: a key never seen before.
Mint ==
    /\ disk' = Put(disk, "nkey", minted + 1)
    /\ minted' = minted + 1

Facts(named) == [named |-> named, nkey |-> PublicKey(disk)]

-----------------------------------------------------------------------------
(* The run command. *)

RunStart_DuringReset ==
    /\ proc = "stopped"
    /\ Continue("config")
    /\ UNCHANGED <<files, refresh, reset, spent>>

RunStart ==
    /\ proc = "stopped"
    /\ Exclusive => reset = 0
    /\ Continue("config")
    /\ UNCHANGED <<files, refresh, reset, spent>>

\* A configuration that is there and cannot be read ends the command.
ReadConfig ==
    /\ proc = "config"
    /\ \/ ~Exists(disk, "cfg") /\ Continue("nkey")
       \/ /\ Parses(disk)
          /\ proc' = "nkey" /\ role' = disk["cfg"].role
          /\ UNCHANGED <<gathered, conversation>>
       \/ Exists(disk, "cfg") /\ ~Parses(disk) /\ Exit
    /\ UNCHANGED <<files, refresh, reset, spent>>

CreateNKey_Always ==
    /\ proc = "nkey"
    /\ Continue("facts")
    /\ Mint
    /\ UNCHANGED <<gens, refresh, reset, spent>>

\* An existing key is kept, whole or not; a failure is only logged.
CreateNKey ==
    /\ proc = "nkey"
    /\ Continue("facts")
    /\ \/ Exists(disk, "nkey") /\ UNCHANGED <<disk, minted, spent>>
       \/ ~Exists(disk, "nkey") /\ Mint /\ UNCHANGED spent
       \/ /\ ~Exists(disk, "nkey") /\ Spend("fault")
          /\ disk' \in PartialWrites(disk, "nkey")
          /\ UNCHANGED minted
    /\ UNCHANGED <<gens, refresh, reset>>

\* Gathering stops after 30 seconds; then there is nothing to write.
GatherFacts ==
    /\ proc = "facts"
    /\ \/ /\ proc' = "facts_write" /\ gathered' = Facts(role # "unenrolled")
          /\ UNCHANGED <<role, conversation, spent>>
       \/ Spend("fault") /\ Continue("broker")
    /\ UNCHANGED <<files, refresh, reset>>

WriteFacts ==
    /\ proc = "facts_write"
    /\ \/ disk' = Put(disk, "facts", gathered) /\ UNCHANGED spent
       \/ Spend("fault") /\ disk' \in PartialWrites(disk, "facts")
    /\ proc' = "broker" /\ gathered' = None
    /\ UNCHANGED <<role, conversation, minted, gens, refresh, reset>>

\* saveCert writes the CA, the certificate and the key in this order.
WriteCerts(n) ==
    LET written == {<< "ca", "cert", "key" >>[i] : i \in 1 .. n} IN
    [f \in File |-> IF f \in written THEN "present" ELSE disk[f]]

\* key.pem is left with mode 0400 and written again at every start.
CertsWritable == Privileged \/ ~Exists(disk, "key")

\* Only a leader runs a broker.
StartBroker ==
    /\ proc = "broker"
    /\ \/ role # "leader" /\ UNCHANGED disk
       \/ /\ role = "leader" /\ Parses(disk) /\ CertsWritable
          /\ disk' = Put(WriteCerts(3), "storage", "present")
    /\ Continue("server")
    /\ UNCHANGED <<minted, gens, refresh, reset, spent>>

\* Any failure of the broker ends the command: the configuration is gone, a
\* certificate cannot be written, or the security provider refuses to work
\* without the server's token and seed.
BrokerFails ==
    /\ proc = "broker" /\ role = "leader"
    /\ \/ ~Parses(disk) /\ UNCHANGED <<disk, spent>>
       \/ Parses(disk) /\ ~CertsWritable /\ disk' = WriteCerts(2) /\ UNCHANGED spent
       \/ Parses(disk) /\ Spend("fault") /\ \E n \in 0 .. 2 : disk' = WriteCerts(n)
       \/ /\ Parses(disk) /\ CertsWritable
          /\ ~(Exists(disk, "jwt") /\ Exists(disk, "seed"))
          /\ disk' = WriteCerts(3) /\ UNCHANGED spent
    /\ Exit
    /\ UNCHANGED <<minted, gens, refresh, reset>>

\* Failing to create the machine store or the credentials is only logged.
Serve ==
    /\ proc = "server" /\ Enrolled(disk)
    /\ LET started == Put(disk, "storage", "present")
           ready == Put(started, "machines", "present") IN
       \/ disk' = WithCredentials(ready) /\ UNCHANGED spent
       \/ /\ Spend("fault")
          /\ \E d \in {started, ready} :
                disk' \in {WithCredentials(d)} \cup
                          (IF SavesCredentials(d) THEN PartialWrites(d, "creds") ELSE {})
    /\ Continue("serving")
    /\ UNCHANGED <<minted, gens, refresh, reset>>

Provision_NewKey ==
    /\ proc = "server" /\ ~Enrolled(disk)
    /\ Mint
    /\ IF Exists(disk, "token") THEN Continue("provisioning") ELSE Exit
    /\ UNCHANGED <<gens, refresh, reset, spent>>

Provision_RefusesKey ==
    /\ proc = "server" /\ ~Enrolled(disk)
    /\ IF ~Exists(disk, "nkey") /\ Exists(disk, "token")
       THEN Mint /\ Continue("provisioning") ELSE UNCHANGED <<disk, minted>> /\ Exit
    /\ UNCHANGED <<gens, refresh, reset, spent>>

\* Without a complete enrolment the server starts in provisioning mode, which
\* takes a user key and the provisioning token; without one of them the
\* command ends.
Provision ==
    /\ proc = "server" /\ ~Enrolled(disk)
    /\ \/ Exists(disk, "nkey") /\ UNCHANGED <<disk, minted>>
       \/ ~Exists(disk, "nkey") /\ Mint
    /\ IF Exists(disk, "token") THEN Continue("provisioning") ELSE Exit
    /\ UNCHANGED <<gens, refresh, reset, spent>>

ProvisionFails ==
    /\ proc = "server" /\ ~Enrolled(disk)
    /\ ~Exists(disk, "nkey") /\ Spend("fault")
    /\ disk' \in PartialWrites(disk, "nkey")
    /\ Exit
    /\ UNCHANGED <<minted, gens, refresh, reset>>

-----------------------------------------------------------------------------
(* The provisioner, reaching the server over the provisioning network.  A   *)
(* server that was handed the connection of its own broker never gets       *)
(* there: newServer sets it in either mode.                                 *)

Reachable == proc = "provisioning" /\ role # "leader"

Advance(to) ==
    /\ session' = to
    /\ UNCHANGED <<proc, role, gathered, refresh, reset, minted, spent>>

\* The vendor's helper is given the facts and may read the user key in them.
Inventory ==
    /\ Reachable /\ session = "none"
    /\ offered' \in {NoKey} \cup
                    (IF disk["facts"] \in FactsDoc THEN {disk["facts"].nkey} ELSE {})
    /\ Advance("seed")
    /\ UNCHANGED <<disk, gens>>

GenSeed ==
    /\ Reachable /\ session = "seed"
    /\ gens' = gens + 1
    /\ disk' = Put(disk, "seed", gens + 1)
    /\ Advance("first")
    /\ UNCHANGED offered

WriteConfig_First ==
    /\ Reachable
    /\ session = "first" /\ Advance("second")
    /\ \E r \in Roles :
          disk' = Put(disk, "cfg", [parses |-> TRUE, provision |-> "no",
                                    role |-> r, natsJwt |-> offered])
    /\ UNCHANGED <<offered, gens>>

\* The configuration is the helper's: a role, and a token signed for the key it
\* read or none.
WriteConfig ==
    /\ Reachable
    /\ \/ CfgFirst /\ session = "first" /\ Advance("second")
       \/ ~CfgFirst /\ session = "second" /\ Advance("restart")
    /\ \E r \in Roles :
          disk' = Put(disk, "cfg", [parses |-> TRUE, provision |-> "no",
                                    role |-> r, natsJwt |-> offered])
    /\ UNCHANGED <<offered, gens>>

WriteJwt ==
    /\ Reachable
    /\ \/ ~CfgFirst /\ session = "first" /\ Advance("second")
       \/ CfgFirst /\ session = "second" /\ Advance("restart")
    /\ disk' = Put(disk, "jwt", gens)
    /\ UNCHANGED <<offered, gens>>

Restart ==
    /\ Reachable /\ session = "restart"
    /\ Exit
    /\ UNCHANGED <<files, refresh, reset, spent>>

SessionLost ==
    /\ session # "none" /\ Spend("lost")
    /\ session' = "none" /\ offered' = NoKey
    /\ UNCHANGED <<files, proc, role, gathered, refresh, reset>>

-----------------------------------------------------------------------------
(* The facts command the provisioned server runs on a schedule.  It is a    *)
(* process of its own that never reads the configuration, so it has no      *)
(* identity to report.                                                      *)

RefreshGather ==
    /\ proc = "serving" /\ refresh = None
    /\ refresh' = Facts(FALSE)
    /\ UNCHANGED <<files, proc, role, gathered, conversation, reset, spent>>

RefreshWrite ==
    /\ refresh # None /\ refresh' = None
    /\ \/ disk' = Put(disk, "facts", refresh) /\ UNCHANGED spent
       \/ Spend("fault") /\ disk' \in PartialWrites(disk, "facts")
    /\ UNCHANGED <<minted, gens, proc, role, gathered, conversation, reset>>

-----------------------------------------------------------------------------
(* The reset command. *)

ResetStart ==
    /\ reset = 0
    /\ Exclusive => proc = "stopped"
    /\ Spend("reset") /\ reset' = 1
    /\ UNCHANGED <<files, proc, role, gathered, refresh, conversation>>

\* A removal that fails is only logged.
ResetStep ==
    /\ reset \in 1 .. Len(ResetOrder)
    /\ LET f == ResetOrder[reset] IN
       \/ disk' = Remove(disk, f) /\ UNCHANGED spent
       \/ Exists(disk, f) /\ Spend("stuck") /\ UNCHANGED disk
    /\ reset' = reset + 1
    /\ UNCHANGED <<minted, gens, proc, role, gathered, refresh, conversation>>

ResetEnd ==
    /\ reset = Len(ResetOrder) + 1
    /\ reset' = 0
    /\ UNCHANGED <<files, proc, role, gathered, refresh, conversation, spent>>

-----------------------------------------------------------------------------
(* Deaths.  The file a process was about to write may be left torn; a facts *)
(* command dies with the server unless it is orphaned.                      *)

RunWrites ==
    CASE proc = "nkey" /\ ~Exists(disk, "nkey") -> {"nkey"}
      [] proc = "facts_write" -> {"facts"}
      [] proc = "server" /\ Enrolled(disk) /\ SavesCredentials(disk) -> {"creds"}
      [] proc = "server" /\ ~Enrolled(disk) /\ ~Exists(disk, "nkey") -> {"nkey"}
      [] OTHER -> {}

Crash ==
    /\ proc # "stopped" /\ Spend("crash")
    /\ Exit
    /\ \/ /\ disk' \in {disk} \cup UNION {PartialWrites(disk, f) : f \in RunWrites}
          /\ refresh = None \/ Orphans
          /\ UNCHANGED refresh
       \/ /\ refresh # None /\ refresh' = None
          /\ disk' \in PartialWrites(disk, "facts")
    /\ UNCHANGED <<minted, gens, reset>>

ResetCrash ==
    /\ reset \in 1 .. Len(ResetOrder) /\ Spend("crash")
    /\ reset' = 0
    /\ UNCHANGED <<files, proc, role, gathered, refresh, conversation>>

-----------------------------------------------------------------------------
Run == RunStart \/ ReadConfig \/ CreateNKey \/ GatherFacts \/ WriteFacts
       \/ StartBroker \/ BrokerFails \/ Serve \/ Provision \/ ProvisionFails

Provisioner == Inventory \/ GenSeed \/ WriteConfig \/ WriteJwt \/ Restart

Refresh == RefreshGather \/ RefreshWrite

Reset == ResetStep \/ ResetEnd

Next == Run \/ Provisioner \/ SessionLost \/ Refresh
        \/ ResetStart \/ Reset \/ Crash \/ ResetCrash

Spec == Init /\ [][Next]_vars

\* A supervisor starts the command again whenever it ends, and every process
\* that can take a step does so in the end; deaths and failures need not happen.
Fairness == WF_vars(Run) /\ WF_vars(Provisioner) /\ WF_vars(RefreshWrite) /\ WF_vars(Reset)

FairSpec == Spec /\ Fairness

-----------------------------------------------------------------------------
(* What the agent promises. *)

\* saveCredentials (server.go) pairs the token in the configuration with the
\* key on disk without comparing them: the credentials file never joins a
\* token with a key it was not signed for, whatever was torn, removed and
\* written again before.
CredsMatch == disk["creds"] \in Credential => disk["creds"].jwt = disk["creds"].seed

\* A machine that starts provisioned with a NATS token (server.go, newServer)
\* still has the key the token was signed for: enrolment asked for a token for
\* the key in the facts, and no restart, reset or failed write has replaced it.
EnrolledKey ==
    Enrolled(disk) /\ disk["cfg"].natsJwt # NoKey => disk["nkey"] = disk["cfg"].natsJwt

\* A machine that starts provisioned (server.go, newServer, hasRequiredFiles)
\* has a server token signed for its server seed: the check only looks whether
\* the files exist.  A provisioner that gave up half way is exempt: the next
\* one puts a new seed next to the token the first has left.
IdentityPair == Enrolled(disk) /\ spent["lost"] = 0 => disk["jwt"] = disk["seed"]

\* createServerNKey (util.go, server.go): the machine keeps its user key until
\* a reset removes it; a start never replaces one that exists.
NKeyStable == [][Exists(disk, "nkey") => disk'["nkey"] \in {disk["nkey"], None}]_disk

Promise == INSTANCE Custody
               WITH key <- disk["nkey"], made <- minted, creds <- disk["creds"],
                    enrolment <- IF Enrolled(disk) THEN disk["cfg"].natsJwt ELSE None

\* Enrolment (server.go, newServer), its end by a reset (reset_cmd.go) and the
\* credentials (server.go, saveCredentials) hold together over deaths, failed
\* writes and provisioners that give up: the key outlives what is signed for it.
KeepsCustody == Promise!Spec

\* The reset command "Restores the agent to factory defaults" (cli.go) and ends
\* with "Agent has been reset" (reset_cmd.go): when it says so none of the
\* agent's own files is left.
ResetIsFactory ==
    reset = Len(ResetOrder) + 1 => \A f \in File \ {"token"} : ~Exists(disk, f)

\* Options.Identity "is the identity of the machine room agent" (options.go)
\* and the facts carry it: once an enrolled agent is serving its facts name it.
FactsNameNode ==
    proc = "serving" /\ role # "unenrolled" /\ disk["facts"] \in FactsDoc
        => disk["facts"].named

\* The agent will "connect to the provisioning network and enroll" and "restart
\* into provisioned state" (docs): a machine delivered with a token ends up
\* serving for good once deaths, failures and resets have stopped.
EventuallyServing == Exists(disk, "token") => <>[](proc = "serving")

\* A leader's configuration without the rest of an enrolment, or one that asks
\* for another: the agent runs a broker and looks for the provisioner there.
Stranded == Parses(disk) /\ disk["cfg"].role = "leader" /\ ~Enrolled(disk)

\* The same for leaders (server.go, newServer), also for a follower that becomes
\* one when it is enrolled again: a machine that is not stranded as delivered
\* does not become so on its way, and ends up serving for good.
NeverStranded == Exists(disk, "token") /\ ~Stranded => <>[](proc = "serving")
=============================================================================
