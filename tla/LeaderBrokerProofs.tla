-------------------------- MODULE LeaderBrokerProofs --------------------------
(***************************************************************************)
(* Lemmas about the steps of LeaderBroker, for the proofs of the modules   *)
(* that build on it.                                                       *)
(***************************************************************************)
EXTENDS LeaderBroker, TLAPS

\* The set-up has three objects to make, all of them known.
LEMMA SetupSteps ==
    Done = 4 /\ \A i \in 1 .. 3 : SetupOrder[i] \in Object
<1>1. SetupOrder[1] = "CONFIG" /\ SetupOrder[2] = "REGISTRATION" /\ SetupOrder[3] = "SUBMIT"
  BY DEF SetupOrder
<1>2. Len(SetupOrder) = 3
  BY DEF SetupOrder
<1> QED
  BY <1>1, <1>2 DEF Done, Object

\* The first start is well typed.
LEMMA BrokerInitially == BrokerInit => BrokerTypeOK
<1> SUFFICES ASSUME BrokerInit PROVE BrokerTypeOK
  OBVIOUS
<1>1. up \in BOOLEAN /\ linked \in BOOLEAN
  BY Zenon DEF BrokerInit
<1>2. setup \in 0 .. Done /\ objects \subseteq Object /\ spent \in [Event -> Nat]
  BY SetupSteps DEF BrokerInit
<1> QED
  BY <1>1, <1>2 DEF BrokerTypeOK

\* An event that happens is counted.
LEMMA Spending ==
    ASSUME BrokerTypeOK, NEW e \in Event, Spend(e)
    PROVE  spent' \in [Event -> Nat]
  BY DEF BrokerTypeOK, Spend

LEMMA Events == {"fault", "restart", "reset", "outage"} \subseteq Event
  BY DEF Event

\* Steps after which the broker runs.
LEMMA BrokerRuns ==
    ASSUME BrokerTypeOK, BrokerStarts \/ SetUp \/ SetUpFails \/ BrokerMakes
    PROVE  BrokerTypeOK' /\ up'
<1>1. up' /\ up' \in BOOLEAN /\ linked' \in BOOLEAN
  BY Zenon DEF BrokerTypeOK, BrokerStarts, SetUp, SetUpFails, BrokerMakes
<1> DEFINE Rest == setup \in 0 .. Done /\ objects \subseteq Object /\ spent \in [Event -> Nat]
<1>2. Rest
  BY DEF BrokerTypeOK
<1>3. ASSUME BrokerStarts PROVE Rest'
  BY <1>2, <1>3, SetupSteps DEF BrokerStarts
<1>4. ASSUME SetUp, setup = 0 PROVE Rest'
  BY <1>2, <1>4, SetupSteps DEF SetUp
<1>5. ASSUME SetUp, setup # 0 PROVE Rest'
  BY <1>2, <1>5, SetupSteps DEF SetUp
<1>6. ASSUME SetUpFails PROVE Rest'
  BY <1>2, <1>6, Spending, Events, SetupSteps DEF SetUpFails
<1>7. ASSUME BrokerMakes PROVE Rest'
  BY <1>2, <1>7 DEF BrokerMakes, Object
<1>8. Rest'
  BY <1>3, <1>4, <1>5, <1>6, <1>7
<1> QED
  BY <1>1, <1>8 DEF BrokerTypeOK

\* Steps after which it does not.
LEMMA BrokerRests ==
    ASSUME BrokerTypeOK, BrokerEnds \/ StoreRemoved
    PROVE  BrokerTypeOK' /\ ~up'
<1>1. CASE BrokerEnds
  <2>1. ~up' /\ up' \in BOOLEAN /\ linked' \in BOOLEAN
    BY <1>1, Zenon DEF BrokerTypeOK, BrokerEnds
  <2>2. setup' \in 0 .. Done /\ objects' \subseteq Object
    BY <1>1, SetupSteps DEF BrokerTypeOK, BrokerEnds
  <2>3. spent' \in [Event -> Nat]
    BY <1>1, Spending, Events DEF BrokerEnds
  <2> QED
    BY <2>1, <2>2, <2>3 DEF BrokerTypeOK
<1>2. CASE StoreRemoved
  <2>1. ~up' /\ up' \in BOOLEAN /\ linked' \in BOOLEAN
    BY <1>2, Zenon DEF BrokerTypeOK, StoreRemoved
  <2>2. setup' \in 0 .. Done /\ objects' \subseteq Object
    BY <1>2 DEF BrokerTypeOK, StoreRemoved
  <2>3. spent' \in [Event -> Nat]
    BY <1>2, Spending, Events DEF StoreRemoved
  <2> QED
    BY <2>1, <2>2, <2>3 DEF BrokerTypeOK
<1> QED
  BY <1>1, <1>2

\* The link comes and goes.
LEMMA LinkChanges ==
    ASSUME BrokerTypeOK, LinkFails \/ LinkReturns
    PROVE  BrokerTypeOK' /\ up' = up
<1>1. up' = up /\ up' \in BOOLEAN /\ linked' \in BOOLEAN
  BY Zenon DEF BrokerTypeOK, LinkFails, LinkReturns, broker
<1>2. setup' \in 0 .. Done /\ objects' \subseteq Object
  BY DEF BrokerTypeOK, LinkFails, LinkReturns, broker
<1>3. spent' \in [Event -> Nat]
  BY Spending, Events DEF BrokerTypeOK, LinkFails, LinkReturns
<1> QED
  BY <1>1, <1>2, <1>3 DEF BrokerTypeOK

-----------------------------------------------------------------------------
(* The set-up leaves no step behind. *)

\* A broker that was never started has not begun.
LEMMA SetUpInitially == BrokerInit => SetUpSound
  BY SetupSteps DEF BrokerInit, SetUpSound, SetUpInOrder, Done

\* No step of the broker leaves a step of the set-up behind.
LEMMA SetUpKeeps ==
    ASSUME BrokerTypeOK, SetUpSound,
           \/ BrokerStarts \/ SetUp \/ SetUpFails \/ BrokerMakes
           \/ BrokerEnds \/ StoreRemoved \/ LinkFails \/ LinkReturns
    PROVE  SetUpSound'
<1>1. CASE BrokerStarts \/ SetUpFails \/ BrokerEnds
  <2>1. setup' = 0
    BY <1>1 DEF BrokerStarts, SetUpFails, BrokerEnds
  <2> QED
    BY <2>1, SetupSteps DEF SetUpSound, SetUpInOrder, Done
<1>2. CASE SetUp
  <2>1. up' /\ setup' = setup + 1 /\ setup \in Nat
    BY <1>2 DEF SetUp, BrokerTypeOK
  <2>2. IF setup = 0 THEN objects' = objects ELSE objects' = objects \cup {SetupOrder[setup]}
    BY <1>2 DEF SetUp
  <2>3. ASSUME NEW i \in 1 .. Len(SetupOrder), setup' > i PROVE SetupOrder[i] \in objects'
    <3>1. CASE setup = i
      BY <2>1, <2>2, <2>3, <3>1
    <3>2. CASE setup > i
      BY <2>2, <2>3, <3>2 DEF SetUpSound, SetUpInOrder
    <3> QED
      BY <2>1, <2>3, <3>1, <3>2
  <2> QED
    BY <2>1, <2>3 DEF SetUpSound, SetUpInOrder
<1>3. CASE BrokerMakes
  BY <1>3 DEF BrokerMakes, SetUpSound, SetUpInOrder
<1>4. CASE StoreRemoved
  <2>1. ~up /\ setup' = setup
    BY <1>4 DEF StoreRemoved
  <2>2. setup' = 0
    BY <2>1 DEF SetUpSound
  <2> QED
    BY <2>2, SetupSteps DEF SetUpSound, SetUpInOrder, Done
<1>5. CASE LinkFails \/ LinkReturns
  BY <1>5 DEF LinkFails, LinkReturns, broker, SetUpSound, SetUpInOrder
<1> QED
  BY <1>1, <1>2, <1>3, <1>4, <1>5

\* Nor does a step that leaves the broker alone.
LEMMA SetUpRests ==
    ASSUME SetUpSound, UNCHANGED broker
    PROVE  SetUpSound'
  BY DEF broker, SetUpSound, SetUpInOrder
=============================================================================
