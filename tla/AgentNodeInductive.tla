-------------------------- MODULE AgentNodeInductive --------------------------
(***************************************************************************)
(* The inductive invariant behind CredsMatch, EnrolledKey and              *)
(* ResetIsFactory, and the circumstances it needs.  It is a module of its  *)
(* own so that TLC can check it and the proofs can use it.                 *)
(***************************************************************************)
EXTENDS AgentNode

\* The circumstances under which the agent's key, token and credentials stay
\* together.  Each is needed: without any one of them TLC finds an agent that
\* joins a token with a key it was not signed for.
Orderly ==
    /\ CfgFirst           \* the provisioner's agent writes the configuration first
    /\ Exclusive          \* nothing runs while the agent is reset
    /\ ~Orphans           \* no facts command outlives its agent
    /\ Limit["stuck"] = 0 \* every removal of the reset command succeeds
    /\ \A c \in InitConfigs : c.natsJwt \in {NoKey, 1}  \* a packaged token is for the packaged key

\* A key seen in the facts, in memory or by the provisioner is still the key on
\* disk, or no key.
Current(k) == k = NoKey \/ k = disk["nkey"]

KeysCurrent ==
    /\ disk["facts"] \in FactsDoc => Current(disk["facts"].nkey)
    /\ gathered # None => Current(gathered.nkey)
    /\ refresh # None => Current(refresh.nkey)
    /\ Current(offered)

\* What has no process has no memory, and nothing runs during a reset.
Alone ==
    /\ proc = "stopped" => gathered = None /\ offered = NoKey /\ session = "none"
    /\ refresh # None => proc = "serving"
    /\ session # "none" => proc = "provisioning"
    /\ reset > 0 => proc = "stopped"

\* The reset command has removed all the files before the one it is at.
ResetSoFar == \A i \in 1 .. Len(ResetOrder) : i < reset => ~Exists(disk, ResetOrder[i])

\* A configuration next to a server token holds a token for the key on disk;
\* without the server token it may be that of an earlier life.
ConfigCurrent ==
    /\ Exists(disk, "cfg") /\ Exists(disk, "jwt") => Current(disk["cfg"].natsJwt)
    /\ session \in {"second", "restart"}
            => Exists(disk, "cfg") /\ disk["cfg"].natsJwt = offered

\* KeysCurrent and ConfigCurrent carry the property from the facts through the
\* provisioner to the configuration; Alone and ResetSoFar keep a reset from
\* removing the key before everything that names it.
IInv == TypeOK /\ KeysCurrent /\ Alone /\ ResetSoFar /\ ConfigCurrent /\ CredsMatch

\* The circumstances under which token and seed stay together as well: no
\* machine is enrolled again.  Otherwise a death between configuration and token
\* leaves the old token next to the new seed.
EnrolledOnce == Orderly /\ \A c \in InitConfigs : c.parses /\ c.provision = "no"

\* Whatever the provisioner has written so far, the seed is its newest, and
\* every configuration ends the enrolment.
SeedIsNewest ==
    /\ Exists(disk, "cfg") => ~ShouldProvision(disk)
    /\ proc = "provisioning" => Exists(disk, "nkey")
    /\ session \in {"first", "second", "restart"} => disk["seed"] = gens

\* A token completes the enrolment: it is written last and removed first, so
\* that no server that asks to be enrolled has one.
TokenIsLast ==
    /\ Exists(disk, "jwt") => Enrolled(disk) /\ disk["jwt"] = disk["seed"]
    /\ proc = "provisioning" /\ Exists(disk, "jwt") => session = "restart"

\* IdentityPair is inductive only with this and IInv, and only until a
\* provisioner gives up half way.
PairInv == SeedIsNewest /\ (spent["lost"] = 0 => TokenIsLast)

\* The circumstances under which the files an enrolment consists of come and go
\* in order, whatever the provisioner's agent writes first: nothing runs during
\* a reset, and every removal succeeds.
Undisturbed == Exclusive /\ Limit["stuck"] = 0

OneAtATime ==
    /\ session # "none" => proc = "provisioning"
    /\ reset > 0 => proc = "stopped"

\* A reset removes the server token before what belongs to it.
TokenGoesFirst ==
    \A i \in 1 .. Len(ResetOrder) :
        ResetOrder[i] = "jwt" /\ i < reset => ~Exists(disk, "jwt")

\* The user key and the seed outlive the server token, so that making either
\* never completes an enrolment by accident.
KeyIsFirst ==
    /\ Exists(disk, "jwt") => Exists(disk, "nkey") /\ Exists(disk, "seed")
    /\ proc = "provisioning" => Exists(disk, "nkey")
    /\ session \in {"first", "second", "restart"} => disk["seed"] = gens

OrderInv == OneAtATime /\ TokenGoesFirst /\ KeyIsFirst

\* The other order of the provisioner's agent: the token, then the
\* configuration.  Nothing is asked of the configurations a machine comes with.
TokenFirst == Undisturbed /\ ~CfgFirst

\* A seed is only replaced on a machine that is not enrolled, and it has its
\* token before a configuration can end the enrolment.
ConfigIsLast ==
    /\ Enrolled(disk) => disk["jwt"] = disk["seed"]
    /\ proc = "provisioning" /\ session \in {"none", "seed", "first"} => ~Enrolled(disk)
    /\ session \in {"second", "restart"} => disk["jwt"] = gens

TokenFirstInv == OrderInv /\ (spent["lost"] = 0 => ConfigIsLast)
=============================================================================
