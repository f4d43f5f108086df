----------------------------- MODULE AgentFiles -----------------------------
(***************************************************************************)
(* The files of one Machine Room agent and what its code reads from them.  *)
(* CommonConfigure (util.go) derives every path from the directory of the  *)
(* configuration file, so the names below stand for the paths.             *)
(*                                                                         *)
(* What a file holds is kept only as far as a property tells it apart:     *)
(*   - a user key (nats.nkey) is the number it was minted with;            *)
(*   - a server seed and the server token signed for it are the number of  *)
(*     the key pair;                                                       *)
(*   - the facts name the machine or not, and hold a public key or none;   *)
(*   - a configuration parses or not, asks for provisioning or not, gives  *)
(*     the role, and may carry a NATS token signed for a user key;         *)
(*   - every other file is there or not.                                   *)
(***************************************************************************)
EXTENDS Naturals, Sequences

CONSTANTS
    None,   \* the file does not exist; also: nothing held in memory
    Torn,   \* the file exists and holds the truncated output of a failed write
    NoKey   \* the empty string where a user key or a signed token would be

ASSUME SentinelsAssumption ==
    /\ None \notin Nat /\ Torn \notin Nat /\ NoKey \notin Nat
    /\ None # Torn /\ None # NoKey /\ Torn # NoKey

\* Files of which only the presence is modelled.
Marker == {"token", "storage", "machines", "ca", "cert", "key"}

File == Marker \cup {"facts", "jwt", "seed", "nkey", "creds", "cfg"}

\* Operators whose name ends in an underscore and a word are mutated forms of
\* the definition that follows them: a mistake the code could have made, with
\* which TLC must find a property violated.  Nothing else uses them.
ResetOrder_KeyFirst ==
    << "nkey", "storage", "machines", "facts", "jwt", "seed",
       "ca", "cert", "key", "creds", "cfg" >>

ResetOrder_ConfigFirst ==
    << "cfg", "storage", "machines", "facts", "jwt", "seed",
       "ca", "cert", "key", "nkey", "creds" >>

ResetOrder_ForgetsCreds ==
    << "storage", "machines", "facts", "jwt", "seed",
       "ca", "cert", "key", "nkey", "cfg" >>

\* The order in which the reset command removes the agent's files.  The
\* provisioning token is not among them: the agent enrols again with it.
ResetOrder == << "storage", "machines", "facts", "jwt", "seed",
                 "ca", "cert", "key", "nkey", "creds", "cfg" >>

Key == Nat \cup {NoKey}

FactsDoc == [named : BOOLEAN, nkey : Key]

Credential == [jwt : Nat, seed : Nat]

Config == [parses : BOOLEAN,
           provision : {"unset", "yes", "no"},
           role : {"leader", "follower"},
           natsJwt : Key]

ASSUME DocumentsAssumption ==
    /\ None \notin FactsDoc /\ None \notin Credential /\ None \notin Config
    /\ Torn \notin FactsDoc /\ Torn \notin Credential

DiskOK(d) ==
    /\ DOMAIN d = File
    /\ \A f \in Marker : d[f] \in {None, "present"}
    /\ d["facts"] \in FactsDoc \cup {None, Torn}
    /\ d["jwt"] \in Nat \cup {None}
    /\ d["seed"] \in Nat \cup {None}
    /\ d["nkey"] \in Nat \cup {None, Torn}
    /\ d["creds"] \in Credential \cup {None, Torn}
    /\ d["cfg"] \in Config \cup {None}

-----------------------------------------------------------------------------
\* FileExist: a file left torn by a failed write exists like any other.
Exists(d, f) == d[f] # None

Put(d, f, v) == [d EXCEPT ![f] = v]

Remove(d, f) == [d EXCEPT ![f] = None]

\* What os.WriteFile may leave behind when it fails or its process dies: the
\* file as it was, or the truncated new one.
PartialWrites(d, f) == {d, Put(d, f, Torn)}

PublicKey_Unchecked(d) == IF Exists(d, "nkey") THEN d["nkey"] ELSE NoKey

\* loadNkeyPublic: the public key the facts give for the key on disk.
PublicKey(d) == IF d["nkey"] \in Nat THEN d["nkey"] ELSE NoKey

\* The role and the identity known to a process are those of the
\* configuration it could read.
Parses(d) == Exists(d, "cfg") /\ d["cfg"].parses

HasRequiredFiles(d) == \A f \in {"cfg", "jwt", "seed", "nkey"} : Exists(d, f)

ShouldProvision_Always(d) == ~Parses(d) \/ d["cfg"].provision \in {"unset", "yes", "no"}

\* shouldProvision: a configuration that could not be read, that lacks the
\* option, or that sets it asks for provisioning.
ShouldProvision(d) == ~Parses(d) \/ d["cfg"].provision # "no"

\* newServer starts the server in its provisioned mode.
Enrolled(d) == HasRequiredFiles(d) /\ ~ShouldProvision(d)

\* saveCredentials has something to write: a signed token and a whole key.
\* Without the first it does nothing, without the second it fails.
SavesCredentials(d) == d["cfg"].natsJwt # NoKey /\ d["nkey"] \in Nat

WithCredentials(d) ==
    IF SavesCredentials(d)
    THEN Put(d, "creds", [jwt |-> d["cfg"].natsJwt, seed |-> d["nkey"]])
    ELSE d
=============================================================================
