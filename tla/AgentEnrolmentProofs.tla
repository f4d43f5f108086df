------------------------- MODULE AgentEnrolmentProofs -------------------------
(***************************************************************************)
(* More proofs about the agent, for every value of the constants: that the *)
(* files an enrolment consists of come and go in order, that token and     *)
(* seed stay together when the provisioner's agent writes the token first, *)
(* and that the agent implements Custody.  Most steps leave the files of   *)
(* an enrolment alone; what these steps can do is said once, in QuietFiles *)
(* and QuietControl.                                                       *)
(***************************************************************************)
EXTENDS AgentNodeProofs

\* The steps that write or remove a seed, a token or a configuration.
Enrolling == GenSeed \/ WriteConfig \/ WriteJwt

\* createServerNKey has made a key, or left a torn one.
KeyMade ==
    /\ ~Exists(disk, "nkey") /\ disk'["creds"] = disk["creds"]
    /\ \/ minted' = minted + 1 /\ disk'["nkey"] = minted'
       \/ minted' = minted /\ disk'["nkey"] = Torn

\* saveCredentials has written the credentials, or left torn ones.
Signed ==
    /\ Enrolled(disk) /\ SavesCredentials(disk)
    /\ disk'["creds"] \in {Torn, [jwt |-> disk["cfg"].natsJwt, seed |-> disk["nkey"]]}
    /\ minted' = minted /\ disk'["nkey"] = disk["nkey"]

Idle ==
    minted' = minted /\ disk'["nkey"] = disk["nkey"] /\ disk'["creds"] = disk["creds"]

\* The six files an enrolment and its credentials consist of, over one write.
LEMMA SixFrame ==
    ASSUME NEW d, DiskOK(d), NEW f \in File, NEW v
    PROVE  \A g \in {"jwt", "seed", "nkey", "cfg", "creds"} :
              Put(d, f, v)[g] = IF f = g THEN v ELSE d[g]
  BY PutFrame, PairFrame

\* What a failed write of the key, the facts or the credentials leaves of them.
LEMMA SixPartial ==
    ASSUME NEW d, DiskOK(d), NEW f \in {"nkey", "facts", "creds"}, NEW e \in PartialWrites(d, f)
    PROVE  \A g \in {"jwt", "seed", "nkey", "cfg", "creds"} :
              e[g] = d[g] \/ (f = g /\ e[g] = Torn)
<1>1. f \in File
  BY DEF File
<1> QED
  BY <1>1, SixFrame DEF PartialWrites

\* A step that enrols nothing and removes nothing leaves token, seed and
\* configuration alone, and makes a key, writes credentials, or neither.
LEMMA QuietFiles ==
    ASSUME TypeOK, [Next]_vars, ~Enrolling, ~ResetStep
    PROVE  /\ \A g \in {"jwt", "seed", "cfg"} : disk'[g] = disk[g]
           /\ gens' = gens
           /\ KeyMade \/ Signed \/ Idle
<1>t. DiskOK(disk)
  BY DEF TypeOK
<1> DEFINE Three == {"jwt", "seed", "cfg"}
           Five == {"jwt", "seed", "nkey", "cfg", "creds"}
           Goal == /\ \A g \in Three : disk'[g] = disk[g]
                   /\ gens' = gens
                   /\ KeyMade \/ Signed \/ Idle
<1> SUFFICES Goal
  OBVIOUS
<1> USE DEF files
<1>m. ASSUME ~Exists(disk, "nkey"), Mint, gens' = gens
      PROVE  Goal
  <2>1. \A g \in Five : disk'[g] = IF g = "nkey" THEN minted + 1 ELSE disk[g]
    BY <1>t, <1>m, SixFrame DEF Mint, File
  <2>2. minted' = minted + 1
    BY <1>m DEF Mint
  <2> QED
    BY <1>m, <2>1, <2>2 DEF KeyMade
<1>p. ASSUME ~Exists(disk, "nkey"), disk' \in PartialWrites(disk, "nkey"),
             gens' = gens, minted' = minted
      PROVE  Goal
  <2>1. \A g \in Five : disk'[g] = disk[g] \/ (g = "nkey" /\ disk'[g] = Torn)
    BY <1>t, <1>p, SixPartial
  <2> QED
    BY <1>p, <2>1 DEF KeyMade, Idle
<1>i. ASSUME \A g \in Five : disk'[g] = disk[g], gens' = gens, minted' = minted
      PROVE  Goal
  BY <1>i DEF Idle
<1>f. ASSUME NEW v, disk' \in {Put(disk, "facts", v)} \cup PartialWrites(disk, "facts"),
             gens' = gens, minted' = minted
      PROVE  Goal
  <2>1. "facts" \in File \ Five
    BY DEF File
  <2>2. CASE disk' = Put(disk, "facts", v)
    <3>1. \A g \in Five : disk'[g] = disk[g]
      BY <1>t, <2>1, <2>2, SixFrame
    <3> QED
      BY <1>f, <1>i, <3>1
  <2>3. CASE disk' \in PartialWrites(disk, "facts")
    <3>1. \A g \in Five : disk'[g] = disk[g]
      BY <1>t, <2>1, <2>3, SixPartial
    <3> QED
      BY <1>f, <1>i, <3>1
  <2> QED
    BY <1>f, <2>2, <2>3
<1>c. ASSUME NEW n \in 0 .. 3, disk' = WriteCerts(n), gens' = gens, minted' = minted
      PROVE  Goal
  <2>1. \A g \in Five : disk'[g] = disk[g]
    BY <1>t, <1>c, CertsFrame, CertsPair
  <2> QED
    BY <1>c, <1>i, <2>1
<1>s. ASSUME NEW d, DiskOK(d), \A g \in Five : d[g] = disk[g],
             \/ disk' = WithCredentials(d)
             \/ SavesCredentials(d) /\ disk' \in PartialWrites(d, "creds"),
             Enrolled(disk), gens' = gens, minted' = minted
      PROVE  Goal
  <2>1. SavesCredentials(d) <=> SavesCredentials(disk)
    BY <1>s DEF SavesCredentials
  <2>2. CASE SavesCredentials(d)
    <3>1. \/ disk' = Put(d, "creds", [jwt |-> d["cfg"].natsJwt, seed |-> d["nkey"]])
          \/ disk' \in PartialWrites(d, "creds")
      BY <1>s, <2>2 DEF WithCredentials
    <3>2. CASE disk' = Put(d, "creds", [jwt |-> d["cfg"].natsJwt, seed |-> d["nkey"]])
      <4>1. \A g \in Five : disk'[g] = IF g = "creds"
                                       THEN [jwt |-> d["cfg"].natsJwt, seed |-> d["nkey"]]
                                       ELSE d[g]
        BY <1>s, <3>2, SixFrame DEF File
      <4> QED
        BY <1>s, <2>1, <2>2, <4>1 DEF Signed
    <3>3. CASE disk' \in PartialWrites(d, "creds")
      <4>1. \A g \in Five : disk'[g] = d[g] \/ (g = "creds" /\ disk'[g] = Torn)
        BY <1>s, <3>3, SixPartial
      <4> QED
        BY <1>s, <2>1, <2>2, <4>1 DEF Signed, Idle
    <3> QED
      BY <3>1, <3>2, <3>3
  <2>3. CASE ~SavesCredentials(d)
    <3>1. disk' = d
      BY <1>s, <2>3 DEF WithCredentials
    <3> QED
      BY <1>s, <1>i, <3>1
  <2> QED
    BY <2>2, <2>3
<1>1. CASE CreateNKey
  BY <1>1, <1>m, <1>p, <1>i DEF CreateNKey
<1>2. CASE WriteFacts
  BY <1>2, <1>f DEF WriteFacts
<1>3. CASE StartBroker
  <2>1. CASE disk' = disk
    BY <1>3, <2>1, <1>i DEF StartBroker
  <2>2. CASE disk' = Put(WriteCerts(3), "storage", "present")
    <3>1. DiskOK(WriteCerts(3)) /\ \A g \in Five : WriteCerts(3)[g] = disk[g]
      BY <1>t, CertsOK, CertsFrame, CertsPair
    <3>2. "storage" \in File /\ "storage" \notin Five
      BY DEF File, Marker
    <3>3. \A g \in Five : disk'[g] = disk[g]
      BY <2>2, <3>1, <3>2, SixFrame
    <3> QED
      BY <1>3, <3>3, <1>i DEF StartBroker
  <2> QED
    BY <1>3, <2>1, <2>2 DEF StartBroker
<1>4. CASE BrokerFails
  BY <1>4, <1>c, <1>i DEF BrokerFails
<1>5. CASE Serve
  <2> DEFINE started == Put(disk, "storage", "present")
             ready == Put(started, "machines", "present")
  <2>1. {"storage", "machines"} \subseteq File \ Five
    BY DEF File, Marker
  <2>2. DiskOK(started) /\ DiskOK(ready)
    BY <1>t, PutTyped DEF Marker
  <2>3. \A g \in Five : started[g] = disk[g] /\ ready[g] = disk[g]
    BY <1>t, <2>1, <2>2, SixFrame
  <2>4. PICK d \in {started, ready} :
           \/ disk' = WithCredentials(d)
           \/ SavesCredentials(d) /\ disk' \in PartialWrites(d, "creds")
    BY <1>5 DEF Serve
  <2>5. Enrolled(disk) /\ gens' = gens /\ minted' = minted
    BY <1>5 DEF Serve
  <2> QED
    BY <1>s, <2>2, <2>3, <2>4, <2>5
<1>6. CASE Provision
  BY <1>6, <1>m, <1>i DEF Provision
<1>7. CASE ProvisionFails
  BY <1>7, <1>p DEF ProvisionFails
<1>8. CASE RefreshWrite
  BY <1>8, <1>f DEF RefreshWrite
<1>9. CASE Crash
  <2>1. gens' = gens /\ minted' = minted
    BY <1>9 DEF Crash
  <2>2. \/ disk' = disk
        \/ \E f \in RunWrites : disk' \in PartialWrites(disk, f)
        \/ disk' \in PartialWrites(disk, "facts")
    BY <1>9 DEF Crash
  <2>3. ASSUME NEW f \in RunWrites, disk' \in PartialWrites(disk, f)
        PROVE  Goal
    <3>1. \/ f = "nkey" /\ ~Exists(disk, "nkey")
          \/ f = "facts"
          \/ f = "creds" /\ Enrolled(disk) /\ SavesCredentials(disk)
      BY <2>3 DEF RunWrites
    <3> QED
      BY <1>t, <1>p, <1>f, <1>s, <2>1, <2>3, <3>1
  <2> QED
    BY <1>i, <1>f, <2>1, <2>2, <2>3
<1>10. CASE UNCHANGED <<disk, minted, gens>>
  BY <1>10, <1>i
<1>11. CASE \/ RunStart \/ ReadConfig \/ GatherFacts \/ Inventory \/ Restart \/ SessionLost
            \/ RefreshGather \/ ResetStart \/ ResetEnd \/ ResetCrash \/ UNCHANGED vars
  <2>1. UNCHANGED <<disk, minted, gens>>
    BY <1>11
    DEF RunStart, ReadConfig, GatherFacts, Inventory, Advance, Restart, SessionLost,
        RefreshGather, ResetStart, ResetEnd, ResetCrash, vars
  <2> QED
    BY <2>1, <1>10
<1> HIDE DEF Goal
<1> QED
  BY <1>1, <1>2, <1>3, <1>4, <1>5, <1>6, <1>7, <1>8, <1>9, <1>11
  DEF Next, Run, Provisioner, Refresh, Reset, Enrolling

\* Nor does such a step continue an enrolment: it may begin one, or end it.
QuietTurn ==
    /\ reset' \in {0, 1, reset}
    /\ reset' > 0 => proc' = "stopped"
    /\ session' # "none" => proc' = "provisioning"
    /\ spent'["lost"] = 0 => spent["lost"] = 0
    /\ session' \in {"first", "second", "restart"} => session' = session
    /\ proc' = "provisioning" /\ proc # "provisioning"
           => ~Enrolled(disk) /\ Exists(disk', "nkey")
    /\ proc' = "provisioning" /\ session' \in {"none", "seed", "first"} /\ spent'["lost"] = 0
           => \/ ~Enrolled(disk)
              \/ proc = "provisioning" /\ session \in {"none", "seed", "first"}

LEMMA QuietControl ==
    ASSUME TypeOK, Exclusive, OneAtATime, [Next]_vars, ~Enrolling, ~ResetStep
    PROVE  QuietTurn
<1>t. DiskOK(disk) /\ reset \in Nat /\ minted \in Nat
  BY DEF TypeOK
<1>l. \A e \in Event : Spend(e) /\ spent'["lost"] = 0 => spent["lost"] = 0 /\ e # "lost"
  BY LostForGood
<1>e. {"crash", "fault", "stuck", "lost", "reset"} \subseteq Event
  BY DEF Event
<1> USE DEF files, conversation, Continue, Exit, OneAtATime, QuietTurn
<1>1. CASE RunStart
  BY <1>1, <1>t DEF RunStart
<1>2. CASE ReadConfig
  BY <1>2, <1>t DEF ReadConfig
<1>3. CASE CreateNKey
  BY <1>3, <1>t, <1>l, <1>e DEF CreateNKey
<1>4. CASE GatherFacts \/ WriteFacts
  BY <1>4, <1>t, <1>l, <1>e DEF GatherFacts, WriteFacts
<1>5. CASE StartBroker \/ BrokerFails
  BY <1>5, <1>t, <1>l, <1>e DEF StartBroker, BrokerFails
<1>6. CASE Serve
  BY <1>6, <1>t, <1>l, <1>e DEF Serve
<1>7. CASE Provision
  <2>1. Exists(disk', "nkey")
    BY <1>7, <1>t, SentinelsAssumption, PutFrame DEF Provision, Mint, Exists, File
  <2> QED
    BY <1>7, <1>t, <2>1 DEF Provision
<1>8. CASE ProvisionFails
  BY <1>8, <1>t, <1>l, <1>e DEF ProvisionFails
<1>9. CASE Inventory \/ Restart
  BY <1>9, <1>t DEF Inventory, Reachable, Advance, Restart
<1>10. CASE SessionLost
  BY <1>10, <1>t, <1>l, <1>e DEF SessionLost
<1>11. CASE RefreshGather \/ RefreshWrite
  BY <1>11, <1>t, <1>l, <1>e DEF RefreshGather, RefreshWrite
<1>12. CASE ResetStart \/ ResetEnd \/ ResetCrash
  BY <1>12, <1>t, <1>l, <1>e DEF ResetStart, ResetEnd, ResetCrash
<1>13. CASE Crash
  BY <1>13, <1>t, <1>l, <1>e DEF Crash
<1>14. CASE UNCHANGED vars
  BY <1>14, <1>t DEF vars
<1> HIDE DEF QuietTurn
<1> QED
  BY <1>1, <1>2, <1>3, <1>4, <1>5, <1>6, <1>7, <1>8, <1>9, <1>10, <1>11, <1>12, <1>13, <1>14
  DEF Next, Run, Provisioner, Refresh, Reset, Enrolling

-----------------------------------------------------------------------------
\* The reset command, undisturbed, removes the file it is at.
LEMMA RemovalStep ==
    ASSUME TypeOK, Undisturbed, ResetStep
    PROVE  /\ reset \in 1 .. Len(ResetOrder)
           /\ \A g \in {"jwt", "seed", "nkey", "cfg", "creds"} :
                 disk'[g] = IF ResetOrder[reset] = g THEN None ELSE disk[g]
           /\ UNCHANGED <<minted, gens, proc, session, spent>>
           /\ reset' = reset + 1
<1>1. ~Spend("stuck")
  BY DEF Spend, Undisturbed, TypeOK, Event
<1>2. /\ reset \in 1 .. Len(ResetOrder)
      /\ disk' = Remove(disk, ResetOrder[reset])
      /\ UNCHANGED <<minted, gens, proc, session, spent>>
      /\ reset' = reset + 1
  BY <1>1 DEF ResetStep, conversation
<1>3. ResetOrder[reset] \in File
  BY <1>2 DEF ResetOrder, File, Marker
<1>4. \A g \in {"jwt", "seed", "nkey", "cfg", "creds"} :
         disk'[g] = IF ResetOrder[reset] = g THEN None ELSE disk[g]
  BY <1>2, <1>3 DEF TypeOK, DiskOK, Remove, File
<1> QED
  BY <1>2, <1>4

\* The provisioner's agent writes one file.
LEMMA EnrollingStep ==
    ASSUME TypeOK, OneAtATime, Enrolling
    PROVE  /\ proc = "provisioning" /\ reset = 0
           /\ \/ /\ session = "seed" /\ session' = "first" /\ gens' = gens + 1
                 /\ \A g \in {"jwt", "seed", "nkey", "cfg", "creds"} :
                       disk'[g] = IF g = "seed" THEN gens + 1 ELSE disk[g]
              \/ /\ IF CfgFirst THEN session = "first" /\ session' = "second"
                                 ELSE session = "second" /\ session' = "restart"
                 /\ gens' = gens
                 /\ \A g \in {"jwt", "seed", "nkey", "creds"} : disk'[g] = disk[g]
                 /\ Enrolled(disk') <=> HasRequiredFiles(disk')
                 /\ Exists(disk', "cfg") /\ disk'["cfg"].natsJwt = offered
              \/ /\ IF CfgFirst THEN session = "second" /\ session' = "restart"
                                 ELSE session = "first" /\ session' = "second"
                 /\ gens' = gens
                 /\ \A g \in {"jwt", "seed", "nkey", "cfg", "creds"} :
                       disk'[g] = IF g = "jwt" THEN gens ELSE disk[g]
           /\ UNCHANGED <<minted, proc, reset, spent>>
<1>t. DiskOK(disk) /\ reset \in Nat
  BY DEF TypeOK
<1>a. {"seed", "cfg", "jwt"} \subseteq File
  BY DEF File
<1>1. CASE GenSeed
  <2>1. \A g \in {"jwt", "seed", "nkey", "cfg", "creds"} :
           disk'[g] = IF g = "seed" THEN gens + 1 ELSE disk[g]
    BY <1>1, <1>t, <1>a, SixFrame DEF GenSeed
  <2> QED
    BY <1>1, <1>t, <2>1 DEF GenSeed, Reachable, Advance, OneAtATime
<1>2. CASE WriteConfig
  <2>1. PICK r \in Roles : disk' = Put(disk, "cfg", [parses |-> TRUE, provision |-> "no",
                                                     role |-> r, natsJwt |-> offered])
    BY <1>2 DEF WriteConfig
  <2> DEFINE c == [parses |-> TRUE, provision |-> "no", role |-> r, natsJwt |-> offered]
  <2>2. c \in Config
    BY ParametersAssumption DEF Config, TypeOK
  <2>3. c # None
    BY <2>2, DocumentsAssumption
  <2>4. \A g \in {"jwt", "seed", "nkey", "cfg", "creds"} :
           disk'[g] = IF g = "cfg" THEN c ELSE disk[g]
    BY <1>t, <1>a, <2>1, SixFrame
  <2>5. Exists(disk', "cfg") /\ disk'["cfg"].natsJwt = offered /\ ~ShouldProvision(disk')
    BY <2>3, <2>4 DEF Exists, ShouldProvision, Parses
  <2>6. \A g \in {"jwt", "seed", "nkey", "creds"} : disk'[g] = disk[g]
    BY <2>4
  <2>7. /\ proc = "provisioning" /\ reset = 0 /\ gens' = gens
        /\ IF CfgFirst THEN session = "first" /\ session' = "second"
                       ELSE session = "second" /\ session' = "restart"
        /\ UNCHANGED <<minted, proc, reset, spent>>
    BY <1>2, <1>t DEF WriteConfig, Reachable, Advance, OneAtATime
  <2> QED
    BY <2>5, <2>6, <2>7 DEF Enrolled
<1>3. CASE WriteJwt
  <2>1. \A g \in {"jwt", "seed", "nkey", "cfg", "creds"} :
           disk'[g] = IF g = "jwt" THEN gens ELSE disk[g]
    BY <1>3, <1>t, <1>a, SixFrame DEF WriteJwt
  <2>2. /\ proc = "provisioning" /\ reset = 0 /\ gens' = gens
        /\ IF CfgFirst THEN session = "second" /\ session' = "restart"
                       ELSE session = "first" /\ session' = "second"
        /\ UNCHANGED <<minted, proc, reset, spent>>
    BY <1>3, <1>t DEF WriteJwt, Reachable, Advance, OneAtATime
  <2> QED
    BY <2>1, <2>2
<1> QED
  BY <1>1, <1>2, <1>3 DEF Enrolling

-----------------------------------------------------------------------------
\* Where the reset command has the token, and what comes after it.
LEMMA ResetIndex ==
    /\ Len(ResetOrder) = 11 /\ ResetOrder[4] = "jwt"
    /\ \A i \in 1 .. 11 : ResetOrder[i] = "jwt" => i = 4
    /\ \A i \in 1 .. 11 : ResetOrder[i] \in {"seed", "nkey", "creds", "cfg"} => i > 4
<1>1. /\ Len(ResetOrder) = 11
      /\ ResetOrder[1] = "storage" /\ ResetOrder[2] = "machines" /\ ResetOrder[3] = "facts"
      /\ ResetOrder[4] = "jwt" /\ ResetOrder[5] = "seed" /\ ResetOrder[6] = "ca"
      /\ ResetOrder[7] = "cert" /\ ResetOrder[8] = "key" /\ ResetOrder[9] = "nkey"
      /\ ResetOrder[10] = "creds" /\ ResetOrder[11] = "cfg"
  BY DEF ResetOrder
<1> QED
  BY <1>1

\* What a machine has of an enrolment when it is delivered, or was enrolled before.
LEMMA InitFiles ==
    ASSUME Init
    PROVE  /\ disk["creds"] = None
           /\ \/ /\ disk["jwt"] = None /\ disk["seed"] = None /\ disk["nkey"] = None
                 /\ minted = 0
              \/ /\ disk["jwt"] = 1 /\ disk["seed"] = 1 /\ disk["nkey"] = 1
                 /\ disk["cfg"] \in InitConfigs /\ minted = 1
<1>1. ASSUME NEW t \in {None, "present"}, NEW c \in InitConfigs \cup {None},
             disk = Delivered(t, c)
      PROVE  \A g \in {"jwt", "seed", "nkey", "creds"} : disk[g] = None
  BY <1>1 DEF Delivered, File, Marker
<1>2. ASSUME NEW c \in InitConfigs, disk = Veteran(c)
      PROVE  /\ disk["jwt"] = 1 /\ disk["seed"] = 1 /\ disk["nkey"] = 1
             /\ disk["cfg"] = c /\ disk["creds"] = None
  BY <1>2 DEF Veteran, File, Marker
<1> QED
  BY <1>1, <1>2 DEF Init

LEMMA InitOrder == Init => OrderInv
<1> SUFFICES ASSUME Init PROVE OrderInv
  OBVIOUS
<1>1. Exists(disk, "jwt") => Exists(disk, "nkey") /\ Exists(disk, "seed")
  BY InitFiles, SentinelsAssumption DEF Exists
<1> QED
  BY <1>1 DEF Init, OrderInv, OneAtATime, TokenGoesFirst, KeyIsFirst, ResetOrder

\* Every step keeps the order in which the files of an enrolment come and go.
LEMMA StepOrder ==
    ASSUME Undisturbed
    PROVE  TypeOK /\ OrderInv /\ [Next]_vars => OrderInv'
<1> SUFFICES ASSUME TypeOK, OrderInv, [Next]_vars PROVE OrderInv'
  OBVIOUS
<1>o. OneAtATime /\ Exclusive
  BY DEF OrderInv, Undisturbed
<1>n. \A k \in Nat : k # None
  BY SentinelsAssumption
<1>r. /\ reset \in 0 .. 12 /\ gens \in Nat /\ minted \in Nat
      /\ TokenGoesFirst <=> (reset > 4 => disk["jwt"] = None)
      /\ TokenGoesFirst' <=> (reset' > 4 => disk'["jwt"] = None)
  <2>1. reset \in 0 .. 12 /\ gens \in Nat /\ minted \in Nat
    BY DEF TypeOK, ResetOrder
  <2>2. reset' \in 0 .. 12
    BY StepType DEF TypeOK, ResetOrder
  <2> QED
    BY <2>1, <2>2, ResetIndex DEF TokenGoesFirst, Exists
<1>1. CASE ~Enrolling /\ ~ResetStep
  <2>1. /\ \A g \in {"jwt", "seed", "cfg"} : disk'[g] = disk[g]
        /\ gens' = gens
        /\ KeyMade \/ Signed \/ Idle
    BY <1>1, QuietFiles
  <2>2. QuietTurn
    BY <1>1, <1>o, QuietControl
  <2>3. Exists(disk, "nkey") => Exists(disk', "nkey")
    BY <2>1 DEF KeyMade, Signed, Idle, Exists
  <2> QED
    BY <1>r, <2>1, <2>2, <2>3 DEF QuietTurn, OrderInv, OneAtATime, KeyIsFirst, Exists
<1>2. CASE Enrolling
  BY <1>2, <1>o, <1>r, <1>n, EnrollingStep DEF OrderInv, OneAtATime, KeyIsFirst, Exists
<1>3. CASE ResetStep
  <2>1. /\ reset \in 1 .. 11 /\ reset' = reset + 1
        /\ \A g \in {"jwt", "seed", "nkey", "cfg", "creds"} :
              disk'[g] = IF ResetOrder[reset] = g THEN None ELSE disk[g]
        /\ UNCHANGED <<minted, gens, proc, session, spent>>
    BY <1>3, RemovalStep DEF ResetOrder
  <2>2. proc = "stopped" /\ session = "none"
    BY <1>r, <1>o, <2>1 DEF OneAtATime
  <2>3. /\ ResetOrder[reset] = "jwt" <=> reset = 4
        /\ ResetOrder[reset] \in {"seed", "nkey"} => reset > 4
    BY <2>1, ResetIndex
  <2> QED
    BY <1>r, <2>1, <2>2, <2>3 DEF OrderInv, OneAtATime, KeyIsFirst, Exists
<1> QED
  BY <1>1, <1>2, <1>3

\* In every run in which nothing disturbs a reset the files of an enrolment come
\* and go in order, whatever the provisioner's agent writes first.
THEOREM OrderKept ==
    ASSUME Undisturbed
    PROVE  Spec => []OrderInv
  BY InitOrder, StepOrder, TypeCorrect, PTL DEF Spec

-----------------------------------------------------------------------------
\* Token first: a machine as delivered, or enrolled before.
LEMMA InitTokenFirst == Init => TokenFirstInv
<1> SUFFICES ASSUME Init PROVE TokenFirstInv
  OBVIOUS
<1>1. Enrolled(disk) => disk["jwt"] = disk["seed"]
  BY InitFiles
<1> QED
  BY <1>1, InitOrder DEF Init, TokenFirstInv, ConfigIsLast

\* Every step keeps token and seed together until a provisioner gives up.
LEMMA StepTokenFirst ==
    ASSUME TokenFirst
    PROVE  TypeOK /\ TokenFirstInv /\ [Next]_vars => TokenFirstInv'
<1> SUFFICES ASSUME TypeOK, TokenFirstInv, [Next]_vars, spent'["lost"] = 0
             PROVE  ConfigIsLast'
  BY StepOrder DEF TokenFirst, TokenFirstInv
<1>o. OneAtATime /\ Undisturbed /\ Exclusive /\ ~CfgFirst
  BY DEF OrderInv, TokenFirstInv, Undisturbed, TokenFirst
<1>n. gens \in Nat /\ gens # None
  BY SentinelsAssumption DEF TypeOK
<1> USE DEF TokenFirstInv, OrderInv, KeyIsFirst, ConfigIsLast
<1> USE DEF Enrolled, HasRequiredFiles, ShouldProvision, Parses, Exists
<1>1. CASE ~Enrolling /\ ~ResetStep
  <2>1. /\ \A g \in {"jwt", "seed", "cfg"} : disk'[g] = disk[g]
        /\ gens' = gens
        /\ KeyMade \/ Signed \/ Idle
    BY <1>1, QuietFiles
  <2>2. QuietTurn
    BY <1>1, <1>o, QuietControl
  <2>3. Enrolled(disk') <=> Enrolled(disk)
    BY <2>1 DEF KeyMade, Signed, Idle
  <2> HIDE DEF Enrolled, HasRequiredFiles, ShouldProvision, Parses, Exists
  <2> QED
    BY <1>o, <2>1, <2>2, <2>3 DEF QuietTurn, OneAtATime
<1>2. CASE Enrolling
  BY <1>2, <1>o, <1>n, EnrollingStep
<1>3. CASE ResetStep
  <2>1. /\ reset \in 1 .. 11
        /\ \A g \in {"jwt", "seed", "nkey", "cfg", "creds"} :
              disk'[g] = IF ResetOrder[reset] = g THEN None ELSE disk[g]
        /\ UNCHANGED <<minted, gens, proc, session, spent>>
    BY <1>3, <1>o, RemovalStep DEF ResetOrder
  <2>2. proc = "stopped" /\ session = "none"
    BY <1>o, <2>1 DEF OneAtATime
  <2> QED
    BY <2>1, <2>2
<1> QED
  BY <1>1, <1>2, <1>3

\* In every run in which the provisioner's agent writes the token first and
\* nothing disturbs a reset, and until a provisioner gives up half way, a
\* machine that starts provisioned (newServer in server.go) has a server token
\* signed for its server seed, however often it was enrolled.
THEOREM TokenFirstKeepsPair ==
    ASSUME TokenFirst
    PROVE  Spec => []IdentityPair
<1>1. TokenFirstInv => IdentityPair
  BY DEF TokenFirstInv, ConfigIsLast, IdentityPair
<1> QED
  BY <1>1, InitTokenFirst, StepTokenFirst, TypeCorrect, PTL DEF Spec

-----------------------------------------------------------------------------
\* What Custody calls the enrolment (server.go, newServer).
Enrolment(d) == IF Enrolled(d) THEN d["cfg"].natsJwt ELSE None

\* Without a server token there is none.
LEMMA NoToken ==
    ASSUME NEW d, ~Exists(d, "jwt")
    PROVE  Enrolment(d) = None
  BY DEF Enrolment, Enrolled, HasRequiredFiles

LEMMA InitCustody ==
    ASSUME Orderly
    PROVE  Init => Promise!Init
<1> SUFFICES ASSUME Init PROVE Promise!Init
  OBVIOUS
<1>1. CASE disk["jwt"] = None /\ disk["nkey"] = None /\ minted = 0
  <2>1. Enrolment(disk) = None
    BY <1>1, NoToken DEF Exists
  <2> QED
    BY <1>1, <2>1, InitFiles DEF Promise!Init, Enrolment
<1>2. CASE disk["nkey"] = 1 /\ disk["cfg"] \in InitConfigs /\ minted = 1
  <2>1. Enrolment(disk) \in {None, NoKey, 1}
    BY <1>2 DEF Enrolment, Orderly
  <2> QED
    BY <1>2, <2>1, InitFiles DEF Promise!Init, Enrolment
<1> QED
  BY <1>1, <1>2, InitFiles

\* A step that enrols nothing and removes nothing makes a key, signs the
\* credentials, or does neither.
LEMMA QuietCustody ==
    ASSUME IInv, OrderInv, [Next]_vars, ~Enrolling, ~ResetStep
    PROVE  [Promise!Next]_(Promise!vars)
<1>1. /\ \A g \in {"jwt", "seed", "cfg"} : disk'[g] = disk[g]
      /\ KeyMade \/ Signed \/ Idle
  BY QuietFiles DEF IInv
<1>2. CASE KeyMade
  <2>1. ~Exists(disk, "jwt") /\ ~Exists(disk', "jwt")
    BY <1>1, <1>2 DEF KeyMade, OrderInv, KeyIsFirst, Exists
  <2>2. Enrolment(disk) = None /\ Enrolment(disk') = None
    BY <2>1, NoToken
  <2>3. Promise!Make
    BY <1>2, <2>2 DEF KeyMade, Promise!Make, Enrolment, Exists
  <2> QED
    BY <2>3 DEF Promise!Next
<1>3. ASSUME disk'["nkey"] = disk["nkey"]
      PROVE  Enrolment(disk') = Enrolment(disk)
  BY <1>1, <1>3
  DEF Enrolment, Enrolled, HasRequiredFiles, ShouldProvision, Parses, Exists
<1>4. CASE Signed
  <2>1. Enrolment(disk') = Enrolment(disk)
    BY <1>3, <1>4 DEF Signed
  <2>2. disk["cfg"].natsJwt = disk["nkey"] /\ disk["nkey"] \in Nat
    BY <1>4
    DEF Signed, SavesCredentials, Enrolled, HasRequiredFiles, IInv, ConfigCurrent, Current
  <2>3. Enrolment(disk) = disk["nkey"]
    BY <1>4, <2>2 DEF Signed, Enrolment
  <2>4. Promise!Sign
    BY <1>4, <2>1, <2>2, <2>3, SentinelsAssumption DEF Signed, Promise!Sign, Enrolment
  <2> QED
    BY <2>4 DEF Promise!Next
<1>5. CASE Idle
  <2>1. Enrolment(disk') = Enrolment(disk)
    BY <1>3, <1>5 DEF Idle
  <2> QED
    BY <1>5, <2>1 DEF Idle, Promise!vars, Enrolment
<1> QED
  BY <1>1, <1>2, <1>4, <1>5

\* A seed changes no enrolment; a configuration or a token may complete one, for
\* the key the provisioner was offered, or end one.
LEMMA EnrollingCustody ==
    ASSUME Orderly, IInv, OrderInv, Enrolling
    PROVE  [Promise!Next]_(Promise!vars)
<1>t. TypeOK /\ OneAtATime /\ DiskOK(disk)
  BY DEF IInv, OrderInv, TypeOK
<1>c. CfgFirst
  BY DEF Orderly
<1>n. gens \in Nat /\ gens # None /\ gens + 1 # None
  BY <1>t, SentinelsAssumption DEF TypeOK
<1>p. proc = "provisioning" /\ Exists(disk, "nkey")
  BY <1>t, EnrollingStep DEF OrderInv, KeyIsFirst
<1>k. offered \in {NoKey} \cup ({disk["nkey"]} \ {Torn})
  BY <1>t, SentinelsAssumption DEF IInv, KeysCurrent, Current, TypeOK, Key
<1>u. UNCHANGED <<minted, disk["nkey"], disk["creds"]>>
  BY <1>t, EnrollingStep
<1>e. ASSUME Enrolment(disk') \in {None, offered, Enrolment(disk)}
      PROVE  [Promise!Next]_(Promise!vars)
  <2>1. CASE Enrolment(disk') = None
    BY <1>u, <2>1 DEF Promise!Next, Promise!Withdraw, Enrolment
  <2>2. CASE Enrolment(disk') = offered
    BY <1>p, <1>k, <1>u, <2>2 DEF Promise!Next, Promise!Enrol, Enrolment, Exists
  <2>3. CASE Enrolment(disk') = Enrolment(disk)
    BY <1>u, <2>3 DEF Promise!vars, Enrolment
  <2> QED
    BY <1>e, <2>1, <2>2, <2>3
<1>1. CASE session = "seed" /\ \A g \in {"jwt", "seed", "nkey", "cfg", "creds"} :
                                  disk'[g] = IF g = "seed" THEN gens + 1 ELSE disk[g]
  <2>1. Enrolled(disk') <=> Enrolled(disk)
    BY <1>1, <1>n
    DEF OrderInv, KeyIsFirst, Enrolled, HasRequiredFiles, ShouldProvision, Parses, Exists
  <2>2. Enrolment(disk') = Enrolment(disk)
    BY <1>1, <2>1 DEF Enrolment
  <2> QED
    BY <1>e, <2>2
<1>2. CASE disk'["cfg"].natsJwt = offered
  BY <1>e, <1>2 DEF Enrolment
<1>3. CASE /\ session = "second"
           /\ \A g \in {"jwt", "seed", "nkey", "cfg", "creds"} :
                 disk'[g] = IF g = "jwt" THEN gens ELSE disk[g]
  <2>1. disk'["cfg"].natsJwt = offered
    BY <1>3 DEF IInv, ConfigCurrent
  <2> QED
    BY <1>e, <2>1 DEF Enrolment
<1> QED
  BY <1>1, <1>2, <1>3, <1>t, <1>c, EnrollingStep

\* A removal ends the enrolment first and drops key and credentials after it.
LEMMA RemovalCustody ==
    ASSUME Undisturbed, IInv, OrderInv, ResetStep
    PROVE  [Promise!Next]_(Promise!vars)
<1> DEFINE f == ResetOrder[reset]
<1>1. /\ reset \in 1 .. Len(ResetOrder) /\ minted' = minted
      /\ \A g \in {"jwt", "seed", "nkey", "cfg", "creds"} :
            disk'[g] = IF f = g THEN None ELSE disk[g]
  BY RemovalStep DEF IInv
<1>2. CASE reset > 4
  <2>1. ~Exists(disk, "jwt")
    BY <1>1, <1>2, ResetIndex DEF OrderInv, TokenGoesFirst
  <2>2. ~Exists(disk', "jwt")
    BY <1>1, <2>1 DEF Exists
  <2>3. Enrolment(disk) = None /\ Enrolment(disk') = None
    BY <2>1, <2>2, NoToken
  <2>4. \/ disk'["nkey"] = None /\ disk'["creds"] = disk["creds"]
        \/ disk'["nkey"] = disk["nkey"] /\ disk'["creds"] = None
        \/ disk'["nkey"] = disk["nkey"] /\ disk'["creds"] = disk["creds"]
    BY <1>1
  <2> QED
    BY <1>1, <2>3, <2>4
    DEF Promise!Next, Promise!DropKey, Promise!DropCredentials, Promise!vars, Enrolment
<1>3. CASE reset \in 1 .. 4
  <2>1. disk'["nkey"] = disk["nkey"] /\ disk'["creds"] = disk["creds"]
        /\ disk'["seed"] = disk["seed"] /\ disk'["cfg"] = disk["cfg"]
    BY <1>1, <1>3, ResetIndex
  <2>2. disk'["jwt"] \in {None, disk["jwt"]}
    BY <1>1
  <2>3. Enrolment(disk') \in {None, Enrolment(disk)}
    BY <2>1, <2>2
    DEF Enrolment, Enrolled, HasRequiredFiles, ShouldProvision, Parses, Exists
  <2> QED
    BY <1>1, <2>1, <2>3
    DEF Promise!Next, Promise!Withdraw, Promise!vars, Enrolment
<1> QED
  BY <1>1, <1>2, <1>3, ResetIndex

\* In every orderly run the agent (server.go, reset_cmd.go) is a custody of its
\* key: it makes one only when there is none, is enrolled for the key it has,
\* signs its credentials with both, and drops neither while it is enrolled.
THEOREM ImplementsCustody ==
    ASSUME Orderly
    PROVE  Spec => KeepsCustody
<1>1. Undisturbed
  BY DEF Orderly, Undisturbed
<1>2. Spec => []IInv /\ []OrderInv
  BY <1>1, Inductive, OrderKept
<1>3. IInv /\ OrderInv /\ [Next]_vars => [Promise!Next]_(Promise!vars)
  BY <1>1, QuietCustody, EnrollingCustody, RemovalCustody
<1> QED
  BY <1>2, <1>3, InitCustody, PTL DEF Spec, KeepsCustody, Promise!Spec
=============================================================================
