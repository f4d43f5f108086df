--------------------------- MODULE AgentNodeProofs ---------------------------
(***************************************************************************)
(* Proofs about the agent, for every value of the constants: the types,    *)
(* that the user key is stable, and, under Orderly, that the credentials,  *)
(* the enrolled configuration and the key on disk belong together and that *)
(* a reset leaves nothing behind.                                          *)
(***************************************************************************)
EXTENDS AgentNodeInductive, TLAPS

\* Writing one file (os.WriteFile in server.go, util.go and broker.go) leaves the others alone.
LEMMA PutOK ==
    ASSUME NEW d, DiskOK(d), NEW f \in File, NEW v
    PROVE  /\ DOMAIN Put(d, f, v) = File
           /\ Put(d, f, v)[f] = v
           /\ \A g \in File \ {f} : Put(d, f, v)[g] = d[g]
BY DEF DiskOK, Put, File, Marker

\* Writing a value of its type keeps a disk well typed, file by file.
LEMMA PutTyped ==
    ASSUME NEW d, DiskOK(d)
    PROVE  /\ \A f \in Marker : DiskOK(Put(d, f, "present"))
           /\ \A v \in FactsDoc \cup {None, Torn} : DiskOK(Put(d, "facts", v))
           /\ \A v \in Nat : DiskOK(Put(d, "jwt", v)) /\ DiskOK(Put(d, "seed", v))
           /\ \A v \in Nat \cup {Torn} : DiskOK(Put(d, "nkey", v))
           /\ \A v \in Credential \cup {Torn} : DiskOK(Put(d, "creds", v))
           /\ \A v \in Config : DiskOK(Put(d, "cfg", v))
  BY DEF DiskOK, Put, File, Marker

\* A write that fails half way leaves a well-typed disk.
LEMMA PartialTyped ==
    ASSUME NEW d, DiskOK(d)
    PROVE  \A f \in {"facts", "nkey", "creds"} :
              \A e \in PartialWrites(d, f) : DiskOK(e)
  BY PutTyped DEF PartialWrites

\* Counting an event keeps the counts natural numbers.
LEMMA SpendTyped ==
    ASSUME spent \in [Event -> Nat]
    PROVE  \A e \in {"crash", "fault", "stuck", "lost", "reset"} :
              Spend(e) => spent' \in [Event -> Nat]
  BY DEF Spend, Event

\* saveCert (broker.go) touches its three files and no other.
LEMMA CertsOK ==
    ASSUME DiskOK(disk), NEW n \in 0 .. 3
    PROVE  /\ DOMAIN WriteCerts(n) = File
           /\ \A f \in {"ca", "cert", "key"} : WriteCerts(n)[f] \in {"present", disk[f]}
           /\ \A f \in File \ {"ca", "cert", "key"} : WriteCerts(n)[f] = disk[f]
           /\ DiskOK(WriteCerts(n))
<1> DEFINE written == {<< "ca", "cert", "key" >>[i] : i \in 1 .. n}
<1>1. written \subseteq {"ca", "cert", "key"}
  OBVIOUS
<1>2. WriteCerts(n) = [f \in File |-> IF f \in written THEN "present" ELSE disk[f]]
  BY DEF WriteCerts
<1> QED
  BY <1>1, <1>2 DEF DiskOK, File, Marker

\* Generating a user key (createServerNKey) keeps the types.
LEMMA MintTyped ==
    ASSUME DiskOK(disk), minted \in Nat, Mint
    PROVE  DiskOK(disk') /\ minted' \in Nat
<1>1. minted + 1 \in Nat
  OBVIOUS
<1> QED
  BY <1>1, PutTyped DEF Mint

\* The facts gathered (facts.go) are a facts document.
LEMMA FactsTyped ==
    ASSUME DiskOK(disk), NEW named \in BOOLEAN
    PROVE  Facts(named) \in FactsDoc
<1>1. PublicKey(disk) \in Key
  BY DEF PublicKey, Key
<1> QED
  BY <1>1 DEF Facts, FactsDoc

\* saveCredentials (server.go) keeps the types.
LEMMA CredentialsTyped ==
    ASSUME NEW d, DiskOK(d), Exists(d, "cfg")
    PROVE  DiskOK(WithCredentials(d))
<1>1. CASE SavesCredentials(d)
  <2>1. d["cfg"].natsJwt \in Nat /\ d["nkey"] \in Nat
    BY <1>1 DEF SavesCredentials, DiskOK, Exists, Config, Key
  <2>2. [jwt |-> d["cfg"].natsJwt, seed |-> d["nkey"]] \in Credential
    BY <2>1 DEF Credential
  <2> QED
    BY <1>1, <2>2, PutTyped DEF WithCredentials
<1>2. CASE ~SavesCredentials(d)
  BY <1>2 DEF WithCredentials
<1> QED
  BY <1>1, <1>2

\* Every machine as delivered is well typed.
LEMMA InitType == Init => TypeOK
<1> SUFFICES ASSUME Init PROVE TypeOK
  OBVIOUS
<1>1. DiskOK(disk)
  <2>1. ASSUME NEW t \in {None, "present"}, NEW c \in InitConfigs \cup {None},
               disk = Delivered(t, c)
        PROVE  DiskOK(disk)
    BY <2>1, ParametersAssumption DEF DiskOK, Delivered, File, Marker
  <2>2. ASSUME NEW c \in InitConfigs, disk = Veteran(c)
        PROVE  DiskOK(disk)
    BY <2>2, ParametersAssumption DEF DiskOK, Veteran, File, Marker
  <2> QED
    BY <2>1, <2>2 DEF Init
<1> QED
  BY <1>1 DEF Init, TypeOK, RunStates, SessionSteps, Key, ResetOrder

\* Every step keeps the types, action by action.
LEMMA StepType == TypeOK /\ [Next]_vars => TypeOK'
<1> SUFFICES ASSUME TypeOK, [Next]_vars PROVE TypeOK'
  OBVIOUS
<1> USE DEF TypeOK, files, conversation, Continue, Exit, RunStates
<1>1. CASE RunStart
  BY <1>1 DEF RunStart
<1>2. CASE ReadConfig
  BY <1>2 DEF ReadConfig, Parses, Exists, DiskOK, Config, SessionSteps, Key
<1>3. CASE CreateNKey
  <2>1. DiskOK(disk') /\ minted' \in Nat
    BY <1>3, MintTyped, PartialTyped DEF CreateNKey
  <2> QED
    BY <1>3, <2>1, SpendTyped DEF CreateNKey
<1>4. CASE GatherFacts
  BY <1>4, FactsTyped, SpendTyped DEF GatherFacts
<1>5. CASE WriteFacts
  <2>1. DiskOK(disk')
    BY <1>5, PutTyped, PartialTyped DEF WriteFacts
  <2> QED
    BY <1>5, <2>1, SpendTyped DEF WriteFacts
<1>6. CASE StartBroker
  BY <1>6, PutTyped, CertsOK DEF StartBroker, Marker
<1>7. CASE BrokerFails
  BY <1>7, CertsOK, SpendTyped DEF BrokerFails, SessionSteps, Key
<1>8. CASE Serve
  <2> DEFINE started == Put(disk, "storage", "present")
             ready == Put(started, "machines", "present")
  <2>1. DiskOK(started) /\ DiskOK(ready)
    BY PutTyped DEF Marker
  <2>2. \A d \in {started, ready} : d["cfg"] = disk["cfg"] /\ d["nkey"] = disk["nkey"]
    BY PutOK, <2>1 DEF File, Marker
  <2>3. \A d \in {started, ready} : DiskOK(WithCredentials(d))
    BY <1>8, <2>1, <2>2, CredentialsTyped DEF Serve, Enrolled, HasRequiredFiles, Exists
  <2>4. DiskOK(disk')
    BY <1>8, <2>1, <2>3, PartialTyped DEF Serve
  <2> QED
    BY <1>8, <2>4, SpendTyped DEF Serve
<1>9. CASE Provision
  <2>1. DiskOK(disk') /\ minted' \in Nat
    BY <1>9, MintTyped DEF Provision
  <2> QED
    BY <1>9, <2>1 DEF Provision, SessionSteps, Key
<1>10. CASE ProvisionFails
  BY <1>10, PartialTyped, SpendTyped DEF ProvisionFails, SessionSteps, Key
<1>11. CASE Inventory
  BY <1>11 DEF Inventory, Advance, SessionSteps, FactsDoc, Key
<1>12. CASE GenSeed
  BY <1>12, PutTyped DEF GenSeed, Advance, SessionSteps
<1>13. CASE WriteConfig
  <2>1. PICK r \in Roles : disk' = Put(disk, "cfg", [parses |-> TRUE, provision |-> "no",
                                                     role |-> r, natsJwt |-> offered])
    BY <1>13 DEF WriteConfig
  <2>2. DiskOK(disk')
    BY <2>1, PutTyped, ParametersAssumption DEF Config
  <2> QED
    BY <1>13, <2>2 DEF WriteConfig, Advance, SessionSteps
<1>14. CASE WriteJwt
  BY <1>14, PutTyped DEF WriteJwt, Advance, SessionSteps
<1>15. CASE Restart
  BY <1>15 DEF Restart, SessionSteps, Key
<1>16. CASE SessionLost
  BY <1>16, SpendTyped DEF SessionLost, SessionSteps, Key
<1>17. CASE RefreshGather
  BY <1>17, FactsTyped DEF RefreshGather
<1>18. CASE RefreshWrite
  BY <1>18, PutTyped, PartialTyped, SpendTyped DEF RefreshWrite
<1>19. CASE ResetStart
  BY <1>19, SpendTyped DEF ResetStart, ResetOrder
<1>20. CASE ResetStep
  BY <1>20, SpendTyped DEF ResetStep, Remove, ResetOrder, DiskOK, File, Marker
<1>21. CASE ResetEnd
  BY <1>21 DEF ResetEnd, ResetOrder
<1>22. CASE Crash
  <2>1. RunWrites \subseteq {"facts", "nkey", "creds"}
    BY DEF RunWrites
  <2>2. DiskOK(disk')
    BY <1>22, <2>1, PartialTyped DEF Crash
  <2> QED
    BY <1>22, <2>2, SpendTyped DEF Crash, SessionSteps, Key
<1>23. CASE ResetCrash
  BY <1>23, SpendTyped DEF ResetCrash, ResetOrder
<1>24. CASE UNCHANGED vars
  BY <1>24 DEF vars
<1> QED
  BY <1>1, <1>2, <1>3, <1>4, <1>5, <1>6, <1>7, <1>8, <1>9, <1>10, <1>11, <1>12,
     <1>13, <1>14, <1>15, <1>16, <1>17, <1>18, <1>19, <1>20, <1>21, <1>22, <1>23, <1>24
  DEF Next, Run, Provisioner, Refresh, Reset

\* The type invariant of the agent holds in every run, whatever the roles,
\* packaged configurations, orders and bounds.
THEOREM TypeCorrect == Spec => []TypeOK
  BY InitType, StepType, PTL DEF Spec

-----------------------------------------------------------------------------
\* The files IInv speaks of, apart from ResetSoFar.
LEMMA PutFrame ==
    ASSUME NEW d, DiskOK(d), NEW f \in File, NEW v
    PROVE  \A g \in {"facts", "nkey", "jwt", "cfg", "creds"} :
              Put(d, f, v)[g] = IF f = g THEN v ELSE d[g]
  BY PutOK DEF File, Marker

\* What a write that fails half way does to the files IInv speaks of.
LEMMA PartialFrame ==
    ASSUME NEW d, DiskOK(d), NEW f \in File, NEW e \in PartialWrites(d, f)
    PROVE  \A g \in {"facts", "nkey", "jwt", "cfg", "creds"} :
              e[g] = d[g] \/ (f = g /\ e[g] = Torn)
  BY PutFrame DEF PartialWrites

\* saveCert (broker.go) leaves the files IInv speaks of alone.
LEMMA CertsFrame ==
    ASSUME DiskOK(disk), NEW n \in 0 .. 3
    PROVE  \A g \in {"facts", "nkey", "jwt", "cfg", "creds"} : WriteCerts(n)[g] = disk[g]
  BY CertsOK DEF File, Marker

\* A machine as delivered satisfies the invariant.
LEMMA InitInv ==
    ASSUME Orderly
    PROVE  Init => IInv
<1> SUFFICES ASSUME Init PROVE IInv
  OBVIOUS
<1>1. TypeOK
  BY InitType
<1>2. /\ disk["facts"] = None /\ disk["creds"] = None
      /\ Exists(disk, "cfg") /\ Exists(disk, "jwt") => Current(disk["cfg"].natsJwt)
  <2>1. ASSUME NEW t \in {None, "present"}, NEW c \in InitConfigs \cup {None},
               disk = Delivered(t, c)
        PROVE  <1>2
    BY <2>1 DEF Delivered, File, Marker, Exists
  <2>2. ASSUME NEW c \in InitConfigs, disk = Veteran(c)
        PROVE  <1>2
    BY <2>2 DEF Orderly, Veteran, File, Marker, Exists, Current
  <2> QED
    BY <2>1, <2>2 DEF Init
<1> QED
  BY <1>1, <1>2, SentinelsAssumption, DocumentsAssumption
  DEF Init, IInv, KeysCurrent, Current, Alone, ResetSoFar, ResetOrder, ConfigCurrent, CredsMatch

\* While there is no key on disk nobody holds one, so that a new one cannot
\* contradict anything.
LEMMA NobodyHoldsKey ==
    ASSUME IInv, ~Exists(disk, "nkey")
    PROVE  /\ disk["facts"] \in FactsDoc => disk["facts"].nkey = NoKey
           /\ gathered # None => gathered.nkey = NoKey
           /\ refresh # None => refresh.nkey = NoKey
           /\ offered = NoKey
           /\ Exists(disk, "cfg") /\ Exists(disk, "jwt") => disk["cfg"].natsJwt = NoKey
  BY SentinelsAssumption
  DEF IInv, TypeOK, KeysCurrent, Current, ConfigCurrent, Exists, FactsDoc, Config, Key, DiskOK

\* Facts gathered now (loadNkeyPublic in facts.go) hold the key on disk or none.
LEMMA FactsCurrent ==
    ASSUME NEW named
    PROVE  Current(Facts(named).nkey)
  BY DEF Facts, PublicKey, Current

\* Before a reset starts nothing is said of what it removed.
LEMMA NoReset == reset = 0 => ResetSoFar
  BY DEF ResetSoFar, ResetOrder

\* While the run command is there no reset is going on.
LEMMA RunningAlone ==
    ASSUME IInv, proc # "stopped"
    PROVE  reset = 0
  BY DEF IInv, TypeOK, Alone, ResetOrder

\* Every step keeps the inductive invariant, action by action.
LEMMA StepInv ==
    ASSUME Orderly
    PROVE  IInv /\ [Next]_vars => IInv'
<1> SUFFICES ASSUME IInv, [Next]_vars PROVE IInv'
  OBVIOUS
<1>t. TypeOK /\ TypeOK' /\ DiskOK(disk)
  BY StepType DEF IInv, TypeOK
<1>s. SentinelsAssumption /\ DocumentsAssumption
  BY SentinelsAssumption, DocumentsAssumption
<1>z. reset' = 0 => ResetSoFar'
  BY DEF ResetSoFar, ResetOrder
<1>k. proc # "stopped" => reset = 0
  BY RunningAlone
<1> DEFINE Parts == KeysCurrent /\ Alone /\ ConfigCurrent /\ CredsMatch
<1> SUFFICES Parts' /\ ResetSoFar'
  BY <1>t DEF IInv
<1> USE DEF IInv, KeysCurrent, Current, Alone, ConfigCurrent, CredsMatch
<1> USE DEF files, conversation, Continue, Exit
<1>1. CASE RunStart
  BY <1>1, <1>z DEF RunStart, Orderly
<1>2. CASE ReadConfig
  BY <1>2, <1>z, <1>k DEF ReadConfig
<1>3. CASE CreateNKey
  BY <1>3, <1>t, <1>s, <1>z, <1>k, PutFrame, PartialFrame, NobodyHoldsKey
  DEF CreateNKey, Mint, Exists, File
<1>4. CASE GatherFacts
  BY <1>4, <1>z, <1>k, FactsCurrent DEF GatherFacts
<1>5. CASE WriteFacts
  BY <1>5, <1>t, <1>s, <1>z, <1>k, PutFrame, PartialFrame DEF WriteFacts, Exists, File
<1>6. CASE StartBroker
  BY <1>6, <1>t, <1>z, <1>k, CertsOK, CertsFrame, PutFrame DEF StartBroker, Exists, File, Marker
<1>7. CASE BrokerFails
  BY <1>7, <1>t, <1>z, <1>k, CertsFrame DEF BrokerFails, Exists
<1>8. CASE Serve
  <2> DEFINE started == Put(disk, "storage", "present")
             ready == Put(started, "machines", "present")
             Held == {"facts", "nkey", "jwt", "cfg"}
  <2>1. DiskOK(started) /\ DiskOK(ready)
    BY <1>t, PutTyped DEF Marker
  <2>2. \A d \in {started, ready} : \A g \in Held \cup {"creds"} : d[g] = disk[g]
    BY <1>t, <2>1, PutFrame DEF File, Marker
  <2>3. ASSUME NEW d \in {started, ready}
        PROVE  /\ \A g \in Held : WithCredentials(d)[g] = disk[g]
               /\ WithCredentials(d)["creds"] \in Credential
                     => WithCredentials(d)["creds"].jwt = WithCredentials(d)["creds"].seed
    <3>1. CASE SavesCredentials(d)
      <4>1. d["cfg"].natsJwt = d["nkey"]
        BY <1>8, <2>2, <3>1 DEF Serve, Enrolled, HasRequiredFiles, SavesCredentials, Exists
      <4>2. /\ \A g \in Held : WithCredentials(d)[g] = d[g]
            /\ WithCredentials(d)["creds"] = [jwt |-> d["cfg"].natsJwt, seed |-> d["nkey"]]
        <5>1. "creds" \in File /\ DiskOK(d)
          BY <2>1 DEF File
        <5> QED
          BY <3>1, <5>1, PutFrame DEF WithCredentials
      <4> QED
        BY <2>2, <4>1, <4>2
    <3>2. CASE ~SavesCredentials(d)
      BY <2>2, <3>2 DEF WithCredentials
    <3> QED
      BY <3>1, <3>2
  <2>4. ASSUME NEW d \in {started, ready}, NEW e \in PartialWrites(d, "creds")
        PROVE  /\ \A g \in Held : e[g] = disk[g]
               /\ e["creds"] \in {disk["creds"], Torn}
    BY <2>1, <2>2, PartialFrame DEF File
  <2>5. /\ \A g \in Held : disk'[g] = disk[g]
        /\ disk'["creds"] \in Credential => disk'["creds"].jwt = disk'["creds"].seed
    BY <1>8, <1>s, <2>3, <2>4 DEF Serve
  <2> QED
    BY <1>8, <1>z, <1>k, <2>5 DEF Serve, Exists
<1>9. CASE Provision
  BY <1>9, <1>t, <1>s, <1>z, <1>k, PutFrame, NobodyHoldsKey DEF Provision, Mint, Exists, File
<1>10. CASE ProvisionFails
  BY <1>10, <1>t, <1>s, <1>z, <1>k, PartialFrame, NobodyHoldsKey DEF ProvisionFails, Exists, File
<1>11. CASE Inventory
  BY <1>11, <1>z, <1>k DEF Inventory, Reachable, Advance
<1>12. CASE GenSeed
  BY <1>12, <1>t, <1>z, <1>k, PutFrame DEF GenSeed, Reachable, Advance, Exists, File
<1>13. CASE WriteConfig
  <2>1. PICK r \in Roles : disk' = Put(disk, "cfg", [parses |-> TRUE, provision |-> "no",
                                                     role |-> r, natsJwt |-> offered])
    BY <1>13 DEF WriteConfig
  <2>2. /\ disk'["cfg"].natsJwt = offered /\ Exists(disk', "cfg")
        /\ \A g \in {"facts", "nkey", "jwt", "creds"} : disk'[g] = disk[g]
    <3>1. [parses |-> TRUE, provision |-> "no", role |-> r, natsJwt |-> offered] \in Config
      BY <1>t, ParametersAssumption DEF Config, TypeOK
    <3> QED
      BY <1>t, <1>s, <2>1, <3>1, PutFrame DEF File, Exists
  <2> QED
    BY <1>13, <1>z, <1>k, <2>2 DEF WriteConfig, Reachable, Advance, Exists, Orderly
<1>14. CASE WriteJwt
  <2>1. /\ session = "second" /\ session' = "restart"
        /\ proc = "provisioning" /\ disk' = Put(disk, "jwt", gens)
        /\ UNCHANGED <<proc, gathered, refresh, reset, offered>>
    BY <1>14 DEF WriteJwt, Reachable, Advance, Orderly
  <2>2. \A g \in {"facts", "nkey", "cfg", "creds"} : disk'[g] = disk[g]
    <3>1. "jwt" \in File
      BY DEF File
    <3> QED
      BY <1>t, <2>1, <3>1, PutFrame
  <2> QED
    BY <1>z, <1>k, <2>1, <2>2 DEF Exists
<1>15. CASE Restart
  BY <1>15, <1>z, <1>k DEF Restart, Reachable
<1>16. CASE SessionLost
  BY <1>16, <1>z, <1>k DEF SessionLost
<1>17. CASE RefreshGather
  BY <1>17, <1>z, <1>k, FactsCurrent DEF RefreshGather
<1>18. CASE RefreshWrite
  BY <1>18, <1>t, <1>s, <1>z, <1>k, PutFrame, PartialFrame DEF RefreshWrite, Exists, File
<1>19. CASE ResetStart
  BY <1>19 DEF ResetStart, Orderly, ResetSoFar, ResetOrder
<1>20. CASE ResetStep
  <2> DEFINE f == ResetOrder[reset]
  <2>1. reset \in 1 .. Len(ResetOrder) /\ f \in File
    BY <1>20 DEF ResetStep, ResetOrder, File, Marker
  <2>2. proc = "stopped" /\ gathered = None /\ refresh = None /\ offered = NoKey
    BY <2>1
  <2>3. disk' = Remove(disk, f) /\ reset' = reset + 1
    BY <1>20, <1>t DEF ResetStep, Spend, Orderly, TypeOK, Event
  <2>4. \A g \in File : disk'[g] = IF f = g THEN None ELSE disk[g]
    BY <1>t, <2>1, <2>3 DEF Remove, DiskOK
  <2>5. ResetSoFar'
    BY <1>t, <2>1, <2>3, <2>4 DEF ResetSoFar, Exists, ResetOrder, File, Marker, TypeOK
  <2>6. f = "nkey" => disk["facts"] = None /\ disk["jwt"] = None
    BY <2>1 DEF ResetSoFar, Exists, ResetOrder
  <2>7. \A g \in {"facts", "nkey", "jwt", "cfg", "creds"} :
           disk'[g] = IF f = g THEN None ELSE disk[g]
    BY <2>4 DEF File, Marker
  <2> QED
    BY <1>20, <1>s, <2>2, <2>5, <2>6, <2>7 DEF ResetStep, Exists
<1>21. CASE ResetEnd
  BY <1>21, <1>z DEF ResetEnd
<1>22. CASE Crash
  BY <1>22, <1>t, <1>s, <1>z, <1>k, PartialFrame, NobodyHoldsKey
  DEF Crash, RunWrites, Exists, File, Orderly
<1>23. CASE ResetCrash
  BY <1>23, <1>z DEF ResetCrash
<1>24. CASE UNCHANGED vars
  BY <1>24 DEF vars, ResetSoFar
<1> QED
  BY <1>1, <1>2, <1>3, <1>4, <1>5, <1>6, <1>7, <1>8, <1>9, <1>10, <1>11, <1>12,
     <1>13, <1>14, <1>15, <1>16, <1>17, <1>18, <1>19, <1>20, <1>21, <1>22, <1>23, <1>24
  DEF Next, Run, Provisioner, Refresh, Reset

\* The inductive invariant holds in every orderly run.
THEOREM Inductive ==
    ASSUME Orderly
    PROVE  Spec => []IInv
  BY InitInv, StepInv, PTL DEF Spec

\* In every orderly run the credentials file (saveCredentials in server.go) joins
\* a token with the key it was signed for, whatever crashes and write failures
\* happen and however often the machine is reset and enrolled again.
THEOREM CredentialsMatch ==
    ASSUME Orderly
    PROVE  Spec => []CredsMatch
<1>1. IInv => CredsMatch
  BY DEF IInv
<1> QED
  BY <1>1, Inductive, PTL

\* In every orderly run a machine that would start provisioned (newServer in
\* server.go) has the user key its NATS token was signed for.
THEOREM EnrolmentNamesKey ==
    ASSUME Orderly
    PROVE  Spec => []EnrolledKey
<1>1. IInv => EnrolledKey
  BY DEF IInv, ConfigCurrent, Current, EnrolledKey, Enrolled, HasRequiredFiles
<1> QED
  BY <1>1, Inductive, PTL

\* In every orderly run the reset command (reset_cmd.go) leaves none of the
\* agent's files when it reports that the agent has been reset.
THEOREM ResetRestoresFactory ==
    ASSUME Orderly
    PROVE  Spec => []ResetIsFactory
<1>1. IInv => ResetIsFactory
  BY DEF IInv, ResetSoFar, ResetIsFactory, ResetOrder, File, Marker
<1> QED
  BY <1>1, Inductive, PTL

\* No step replaces a user key that exists.
LEMMA StepKeepsKey ==
    ASSUME TypeOK, [Next]_vars, Exists(disk, "nkey")
    PROVE  disk'["nkey"] \in {disk["nkey"], None}
<1>t. DiskOK(disk)
  BY DEF TypeOK
<1> USE DEF files
<1>1. CASE CreateNKey \/ Provision \/ ProvisionFails
  BY <1>1 DEF CreateNKey, Provision, ProvisionFails
<1>2. CASE WriteFacts \/ RefreshWrite
  BY <1>2, <1>t, PutFrame, PartialFrame DEF WriteFacts, RefreshWrite, File
<1>3. CASE StartBroker
  BY <1>3, <1>t, CertsOK, CertsFrame, PutFrame DEF StartBroker, File, Marker
<1>4. CASE BrokerFails
  BY <1>4, <1>t, CertsFrame DEF BrokerFails
<1>5. CASE Serve
  <2> DEFINE started == Put(disk, "storage", "present")
             ready == Put(started, "machines", "present")
  <2>1. DiskOK(started) /\ DiskOK(ready)
    BY <1>t, PutTyped DEF Marker
  <2>2. \A d \in {started, ready} : d["nkey"] = disk["nkey"]
    BY <1>t, <2>1, PutFrame DEF File, Marker
  <2>3. \A d \in {started, ready} : WithCredentials(d)["nkey"] = d["nkey"]
    BY <2>1, PutFrame DEF WithCredentials, File
  <2>4. \A d \in {started, ready} : \A e \in PartialWrites(d, "creds") : e["nkey"] = d["nkey"]
    BY <2>1, PartialFrame DEF File
  <2> QED
    BY <1>5, <2>2, <2>3, <2>4 DEF Serve
<1>6. CASE GenSeed \/ WriteConfig \/ WriteJwt
  <2>1. ASSUME NEW f \in {"seed", "cfg", "jwt"}, NEW v, disk' = Put(disk, f, v)
        PROVE  disk'["nkey"] = disk["nkey"]
    <3>1. f \in File /\ f # "nkey"
      BY DEF File
    <3> QED
      BY <2>1, <3>1, <1>t, PutFrame
  <2>2. CASE GenSeed
    BY <2>1, <2>2 DEF GenSeed
  <2>3. CASE WriteConfig
    BY <2>1, <2>3 DEF WriteConfig
  <2>4. CASE WriteJwt
    BY <2>1, <2>4 DEF WriteJwt
  <2> QED
    BY <1>6, <2>2, <2>3, <2>4
<1>7. CASE ResetStep
  BY <1>7, <1>t DEF ResetStep, Remove, DiskOK, File
<1>8. CASE Crash
  BY <1>8, <1>t, PartialFrame DEF Crash, RunWrites, File
<1>9. CASE UNCHANGED disk
  BY <1>9
<1> QED
  BY <1>1, <1>2, <1>3, <1>4, <1>5, <1>6, <1>7, <1>8, <1>9
  DEF Next, Run, Provisioner, Refresh, Reset, vars, RunStart, ReadConfig, GatherFacts,
      Inventory, Restart, SessionLost, RefreshGather, ResetStart, ResetEnd, ResetCrash

\* Whatever runs at the same time, the user key (createServerNKey in util.go and
\* server.go) is only ever replaced after a reset has removed it.
THEOREM KeyStable == Spec => NKeyStable
<1>1. TypeOK /\ [Next]_vars
        => [Exists(disk, "nkey") => disk'["nkey"] \in {disk["nkey"], None}]_disk
  <2> SUFFICES ASSUME TypeOK, [Next]_vars, Exists(disk, "nkey")
               PROVE  disk'["nkey"] \in {disk["nkey"], None}
    OBVIOUS
  <2> QED
    BY StepKeepsKey
<1> QED
  BY <1>1, TypeCorrect, PTL DEF Spec, NKeyStable

-----------------------------------------------------------------------------
\* What a step changes of the files PairInv speaks of.
LEMMA PairFrame ==
    ASSUME NEW d, DiskOK(d), NEW f \in File, NEW v
    PROVE  \A g \in {"jwt", "seed", "nkey", "cfg"} : Put(d, f, v)[g] = IF f = g THEN v ELSE d[g]
  BY PutOK DEF File, Marker

LEMMA PairPartial ==
    ASSUME NEW d, DiskOK(d), NEW f \in File, NEW e \in PartialWrites(d, f)
    PROVE  \A g \in {"jwt", "seed", "nkey", "cfg"} : e[g] = d[g] \/ (f = g /\ e[g] = Torn)
  BY PairFrame DEF PartialWrites

\* Facts and credentials are none of these files.
LEMMA OthersPair ==
    ASSUME NEW d, DiskOK(d), NEW f \in {"facts", "creds"}, NEW v
    PROVE  \A g \in {"jwt", "seed", "nkey", "cfg"} :
              Put(d, f, v)[g] = d[g] /\ \A e \in PartialWrites(d, f) : e[g] = d[g]
<1>1. f \in File
  BY DEF File
<1> QED
  BY <1>1, PairFrame DEF PartialWrites

\* A write of the user key, whole or not.
LEMMA KeyPair ==
    ASSUME NEW d, DiskOK(d), NEW v \in Nat, NEW e \in {Put(d, "nkey", v)} \cup PartialWrites(d, "nkey")
    PROVE  /\ \A g \in {"jwt", "seed", "cfg"} : e[g] = d[g]
           /\ Exists(d, "nkey") => Exists(e, "nkey")
<1>1. "nkey" \in File
  BY DEF File
<1> QED
  BY <1>1, PairFrame, PairPartial, SentinelsAssumption DEF Exists

LEMMA CertsPair ==
    ASSUME DiskOK(disk), NEW n \in 0 .. 3
    PROVE  \A g \in {"jwt", "seed", "nkey", "cfg"} : WriteCerts(n)[g] = disk[g]
  BY CertsOK DEF File, Marker

\* Once a provisioner has given up it stays so.
LEMMA LostForGood ==
    ASSUME TypeOK, NEW e \in Event, Spend(e), spent'["lost"] = 0
    PROVE  spent["lost"] = 0 /\ e # "lost"
  BY DEF TypeOK, Spend, Event

\* A step that leaves token, seed and configuration alone, keeps a key that is
\* there and does not begin or continue an enrolment.
LEMMA PairKept ==
    ASSUME PairInv, gens' = gens,
           \A g \in {"jwt", "seed", "cfg"} : disk'[g] = disk[g],
           Exists(disk, "nkey") => Exists(disk', "nkey"),
           spent'["lost"] = 0 => spent["lost"] = 0,
           \/ proc' = proc /\ session' = session
           \/ proc' # "provisioning" /\ session' = session
           \/ proc' # "provisioning" /\ session' = "none"
    PROVE  PairInv'
  BY DEF PairInv, SeedIsNewest, TokenIsLast, Enrolled, HasRequiredFiles, ShouldProvision,
         Parses, Exists

\* A machine as delivered, or enrolled before.
LEMMA InitPair ==
    ASSUME EnrolledOnce
    PROVE  Init => PairInv
<1> SUFFICES ASSUME Init PROVE PairInv
  OBVIOUS
<1> USE SentinelsAssumption, DocumentsAssumption
    DEF PairInv, SeedIsNewest, TokenIsLast, Enrolled, HasRequiredFiles, ShouldProvision,
        Parses, Exists, EnrolledOnce
<1>1. ASSUME NEW t \in {None, "present"}, NEW c \in InitConfigs \cup {None},
             disk = Delivered(t, c)
      PROVE  PairInv
  <2>1. disk["jwt"] = None /\ disk["cfg"] = c
    BY <1>1 DEF Delivered, File, Marker
  <2> QED
    BY <2>1 DEF Init
<1>2. ASSUME NEW c \in InitConfigs, disk = Veteran(c)
      PROVE  PairInv
  <2>1. disk["cfg"] = c /\ disk["jwt"] = 1 /\ disk["seed"] = 1 /\ disk["nkey"] = 1
    BY <1>2 DEF Veteran, File, Marker
  <2>2. c # None /\ 1 # None
    BY ParametersAssumption
  <2> QED
    BY <2>1, <2>2 DEF Init
<1> QED
  BY <1>1, <1>2 DEF Init

\* Every step keeps PairInv, action by action; most do nothing but leave its
\* files alone.
LEMMA StepPair ==
    ASSUME EnrolledOnce
    PROVE  IInv /\ PairInv /\ [Next]_vars => PairInv'
<1> SUFFICES ASSUME IInv, PairInv, [Next]_vars PROVE PairInv'
  OBVIOUS
<1>t. TypeOK /\ DiskOK(disk)
  BY DEF IInv, TypeOK
<1>o. Orderly
  BY DEF EnrolledOnce
<1>s. SentinelsAssumption /\ DocumentsAssumption
  BY SentinelsAssumption, DocumentsAssumption
<1>l. \A e \in Event : Spend(e) /\ spent'["lost"] = 0 => spent["lost"] = 0 /\ e # "lost"
  BY <1>t, LostForGood
<1>e. {"crash", "fault", "stuck", "lost", "reset"} \subseteq Event
  BY DEF Event
<1>m. minted + 1 \in Nat
  BY <1>t DEF TypeOK
<1> USE DEF files, conversation, Continue, Exit
<1>1. CASE RunStart
  BY <1>1, PairKept DEF RunStart
<1>2. CASE ReadConfig
  BY <1>2, PairKept DEF ReadConfig
<1>3. CASE CreateNKey
  <2>1. /\ \A g \in {"jwt", "seed", "cfg"} : disk'[g] = disk[g]
        /\ Exists(disk, "nkey") => Exists(disk', "nkey")
    BY <1>3, <1>t, <1>m, KeyPair DEF CreateNKey, Mint
  <2> QED
    BY <1>3, <1>l, <1>e, <2>1, PairKept DEF CreateNKey
<1>4. CASE GatherFacts
  BY <1>4, <1>l, <1>e, PairKept DEF GatherFacts
<1>5. CASE WriteFacts
  <2>1. \A g \in {"jwt", "seed", "nkey", "cfg"} : disk'[g] = disk[g]
    BY <1>5, <1>t, OthersPair DEF WriteFacts
  <2> QED
    BY <1>5, <1>l, <1>e, <2>1, PairKept DEF WriteFacts, Exists
<1>6. CASE StartBroker
  <2>1. \A g \in {"jwt", "seed", "nkey", "cfg"} : disk'[g] = disk[g]
    BY <1>6, <1>t, CertsOK, CertsPair, PairFrame DEF StartBroker, File, Marker
  <2> QED
    BY <1>6, <2>1, PairKept DEF StartBroker, Exists
<1>7. CASE BrokerFails
  <2>1. \A g \in {"jwt", "seed", "nkey", "cfg"} : disk'[g] = disk[g]
    BY <1>7, <1>t, CertsPair DEF BrokerFails
  <2> QED
    BY <1>7, <1>l, <1>e, <2>1, PairKept DEF BrokerFails, Exists
<1>8. CASE Serve
  <2> DEFINE started == Put(disk, "storage", "present")
             ready == Put(started, "machines", "present")
             Four == {"jwt", "seed", "nkey", "cfg"}
  <2>1. DiskOK(started) /\ DiskOK(ready)
    BY <1>t, PutTyped DEF Marker
  <2>2. \A d \in {started, ready} : \A g \in Four : d[g] = disk[g]
    BY <1>t, <2>1, PairFrame DEF File, Marker
  <2>3. \A d \in {started, ready} : \A g \in Four : WithCredentials(d)[g] = disk[g]
    BY <2>1, <2>2, OthersPair DEF WithCredentials
  <2>4. \A d \in {started, ready} : \A e \in PartialWrites(d, "creds") : \A g \in Four :
           e[g] = disk[g]
    BY <2>1, <2>2, OthersPair
  <2>5. \A g \in Four : disk'[g] = disk[g]
    BY <1>8, <2>3, <2>4 DEF Serve
  <2> QED
    BY <1>8, <1>l, <1>e, <2>5, PairKept DEF Serve, Exists
<1>9. CASE Provision
  <2>1. /\ \A g \in {"jwt", "seed", "cfg"} : disk'[g] = disk[g]
        /\ Exists(disk', "nkey") /\ session' \in {session, "none"}
    BY <1>9, <1>t, <1>s, PairFrame DEF Provision, Mint, Exists, File, TypeOK
  <2>2. spent' = spent /\ gens' = gens /\ ~Enrolled(disk)
    BY <1>9 DEF Provision
  <2> QED
    BY <2>1, <2>2
    DEF PairInv, SeedIsNewest, TokenIsLast, Enrolled, HasRequiredFiles, ShouldProvision,
        Parses, Exists
<1>10. CASE ProvisionFails
  <2>1. \A g \in {"jwt", "seed", "cfg"} : disk'[g] = disk[g]
    BY <1>10, <1>t, <1>m, KeyPair DEF ProvisionFails
  <2> QED
    BY <1>10, <1>l, <1>e, <2>1, PairKept DEF ProvisionFails
<1>11. CASE Inventory
  BY <1>11
  DEF Inventory, Reachable, Advance, PairInv, SeedIsNewest, TokenIsLast
<1>12. CASE GenSeed
  <2>1. \A g \in {"jwt", "seed", "nkey", "cfg"} :
           disk'[g] = IF g = "seed" THEN gens + 1 ELSE disk[g]
    BY <1>12, <1>t, PairFrame DEF GenSeed, File
  <2>2. spent["lost"] = 0 => disk["jwt"] = None
    BY <1>12 DEF GenSeed, Reachable, PairInv, TokenIsLast, Exists
  <2> QED
    BY <1>12, <2>1, <2>2
    DEF GenSeed, Reachable, Advance, PairInv, SeedIsNewest, TokenIsLast, ShouldProvision,
        Parses, Exists
<1>13. CASE WriteConfig
  <2>1. PICK r \in Roles : disk' = Put(disk, "cfg", [parses |-> TRUE, provision |-> "no",
                                                     role |-> r, natsJwt |-> offered])
    BY <1>13 DEF WriteConfig
  <2>2. /\ \A g \in {"jwt", "seed", "nkey"} : disk'[g] = disk[g]
        /\ disk'["cfg"].parses /\ disk'["cfg"].provision = "no" /\ Exists(disk', "cfg")
    <3>1. [parses |-> TRUE, provision |-> "no", role |-> r, natsJwt |-> offered] \in Config
      BY <1>t, ParametersAssumption DEF Config, TypeOK
    <3> QED
      BY <1>t, <1>s, <2>1, <3>1, PairFrame DEF File, Exists
  <2>3. /\ session = "first" /\ session' = "second" /\ proc = "provisioning"
        /\ proc' = proc /\ spent' = spent /\ gens' = gens
    BY <1>13, <1>o DEF WriteConfig, Reachable, Advance, Orderly
  <2> QED
    BY <2>2, <2>3
    DEF PairInv, SeedIsNewest, TokenIsLast, ShouldProvision, Parses, Exists
<1>14. CASE WriteJwt
  <2>1. /\ session = "second" /\ session' = "restart" /\ proc = "provisioning"
        /\ proc' = proc /\ spent' = spent /\ gens' = gens /\ disk' = Put(disk, "jwt", gens)
    BY <1>14, <1>o DEF WriteJwt, Reachable, Advance, Orderly
  <2>2. \A g \in {"jwt", "seed", "nkey", "cfg"} :
           disk'[g] = IF g = "jwt" THEN gens ELSE disk[g]
    BY <1>t, <2>1, PairFrame DEF File
  <2>3. gens \in Nat /\ disk["seed"] = gens /\ Exists(disk, "cfg") /\ Exists(disk, "nkey")
    BY <1>t, <2>1 DEF TypeOK, IInv, ConfigCurrent, PairInv, SeedIsNewest
  <2> QED
    BY <1>s, <2>1, <2>2, <2>3
    DEF PairInv, SeedIsNewest, TokenIsLast, Enrolled, HasRequiredFiles, ShouldProvision,
        Parses, Exists
<1>15. CASE Restart
  BY <1>15, PairKept DEF Restart
<1>16. CASE SessionLost
  BY <1>16, <1>l, <1>e DEF SessionLost, PairInv, SeedIsNewest
<1>17. CASE RefreshGather
  BY <1>17, PairKept DEF RefreshGather
<1>18. CASE RefreshWrite
  <2>1. \A g \in {"jwt", "seed", "nkey", "cfg"} : disk'[g] = disk[g]
    BY <1>18, <1>t, OthersPair DEF RefreshWrite
  <2> QED
    BY <1>18, <1>l, <1>e, <2>1, PairKept DEF RefreshWrite, Exists
<1>19. CASE ResetStart
  BY <1>19, <1>l, <1>e, PairKept DEF ResetStart
<1>20. CASE ResetStep
  <2> DEFINE f == ResetOrder[reset]
  <2>1. reset \in 1 .. Len(ResetOrder) /\ f \in File
    BY <1>20 DEF ResetStep, ResetOrder, File, Marker
  <2>2. proc = "stopped" /\ session = "none"
    BY <2>1, <1>t DEF IInv, Alone, TypeOK
  <2>3. /\ disk' = Remove(disk, f) /\ spent' = spent
        /\ gens' = gens /\ proc' = proc /\ session' = session
    BY <1>20, <1>t, <1>o DEF ResetStep, Spend, Orderly, TypeOK, Event
  <2>4. \A g \in {"jwt", "seed", "nkey", "cfg"} : disk'[g] = IF f = g THEN None ELSE disk[g]
    BY <1>t, <2>1, <2>3 DEF Remove, DiskOK, File, Marker
  <2>5. f \in {"seed", "nkey", "cfg"} => disk["jwt"] = None
    BY <2>1 DEF IInv, ResetSoFar, Exists, ResetOrder
  <2> QED
    BY <2>2, <2>3, <2>4, <2>5
    DEF PairInv, SeedIsNewest, TokenIsLast, Enrolled, HasRequiredFiles, ShouldProvision,
        Parses, Exists
<1>21. CASE ResetEnd
  BY <1>21, PairKept DEF ResetEnd
<1>22. CASE Crash
  <2>1. /\ \A g \in {"jwt", "seed", "cfg"} : disk'[g] = disk[g]
        /\ Exists(disk, "nkey") => Exists(disk', "nkey")
    <3>1. ASSUME NEW h \in {"nkey", "facts", "creds"}, NEW e \in PartialWrites(disk, h)
          PROVE  /\ \A g \in {"jwt", "seed", "cfg"} : e[g] = disk[g]
                 /\ Exists(disk, "nkey") => Exists(e, "nkey")
      BY <1>t, <1>m, <3>1, KeyPair, OthersPair DEF Exists
    <3>2. RunWrites \subseteq {"nkey", "facts", "creds"}
      BY DEF RunWrites
    <3> QED
      BY <1>22, <3>1, <3>2 DEF Crash
  <2> QED
    BY <1>22, <1>l, <1>e, <2>1, PairKept DEF Crash
<1>23. CASE ResetCrash
  BY <1>23, <1>l, <1>e, PairKept DEF ResetCrash
<1>24. CASE UNCHANGED vars
  BY <1>24, PairKept DEF vars
<1> QED
  BY <1>1, <1>2, <1>3, <1>4, <1>5, <1>6, <1>7, <1>8, <1>9, <1>10, <1>11, <1>12,
     <1>13, <1>14, <1>15, <1>16, <1>17, <1>18, <1>19, <1>20, <1>21, <1>22, <1>23, <1>24
  DEF Next, Run, Provisioner, Refresh, Reset

\* In every orderly run in which no machine is enrolled again, and until a
\* provisioner gives up half way, a machine that starts provisioned (newServer
\* in server.go) has a server token signed for its server seed.
THEOREM PairStaysTogether ==
    ASSUME EnrolledOnce
    PROVE  Spec => []IdentityPair
<1>1. Orderly
  BY DEF EnrolledOnce
<1>2. Spec => []IInv
  BY <1>1, Inductive
<1>3. PairInv => IdentityPair
  BY DEF PairInv, TokenIsLast, IdentityPair, Enrolled, HasRequiredFiles
<1> QED
  BY <1>2, <1>3, InitPair, StepPair, PTL DEF Spec
=============================================================================
