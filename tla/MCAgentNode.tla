----------------------------- MODULE MCAgentNode -----------------------------
(* Values for the constants of AgentNode, for TLC. *)
EXTENDS AgentNodeInductive

\* Configurations of both roles with each of these settings.
MCConfigs(provisions, njwts) ==
    [parses : {TRUE}, provision : provisions, role : {"leader", "follower"}, natsJwt : njwts]

NoConfigs == {}

\* Configurations that are silent about provisioning or ask for it, and those
\* of a machine that is enrolled.
PackagedConfigs == MCConfigs({"unset", "yes"}, {NoKey})

EnrolledConfigs == MCConfigs({"no"}, {NoKey, 1})

AllConfigs == PackagedConfigs \cup EnrolledConfigs

UnparsableConfigs ==
    {[parses |-> FALSE, provision |-> "unset", role |-> "follower", natsJwt |-> NoKey]}

Followers == {"follower"}
Leaders == {"leader"}
Both == {"leader", "follower"}

Events(crash, fault, stuck, lost, rst) ==
    [e \in Event |-> CASE e = "crash" -> crash [] e = "fault" -> fault
                       [] e = "stuck" -> stuck [] e = "lost" -> lost
                       [] e = "reset" -> rst]

Quiet == Events(0, 0, 0, 0, 0)
OneCrash == Events(1, 0, 0, 0, 0)
OneStuck == Events(0, 0, 1, 0, 1)
LossyResets == Events(2, 1, 0, 1, 2)
LossyFaults == Events(2, 1, 0, 1, 0)
Hostile == Events(1, 1, 1, 0, 1)
=============================================================================
