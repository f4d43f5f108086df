----------------------------- MODULE SpoolProofs ------------------------------
(***************************************************************************)
(* Theorems of Spool, for every set of streams and subjects, every limit   *)
(* of messages and any number of faults, restarts, resets and outages.     *)
(***************************************************************************)
EXTENDS SpoolInductive, LeaderBrokerProofs, FiniteSetTheorems

\* A message that was overtaken on its subject stays so, and a new message is
\* not overtaken yet.
LEMMA OvertakenGrows ==
    ASSUME NEW l \in Seq(Subjects), NEW x \in Subjects
    PROVE  /\ Overtaken(l) \subseteq Overtaken(Append(l, x))
           /\ Overtaken(Append(l, x)) \subseteq 1 .. Len(l)
<1> DEFINE a == Append(l, x)
           Newer(q, i) == {k \in i + 1 .. Len(q) : q[k] = q[i]}
<1>1. a \in Seq(Subjects) /\ Len(a) = Len(l) + 1 /\ \A i \in 1 .. Len(l) : a[i] = l[i]
  OBVIOUS
<1>2. ASSUME NEW i \in 1 .. Len(l)
      PROVE  Cardinality(Newer(l, i)) \in Nat /\ Cardinality(Newer(a, i)) \in Nat
             /\ Cardinality(Newer(l, i)) <= Cardinality(Newer(a, i))
  <2>1. IsFiniteSet(1 .. Len(a))
    BY <1>1, FS_Interval
  <2>2. Newer(l, i) \subseteq Newer(a, i) /\ Newer(a, i) \subseteq 1 .. Len(a)
    BY <1>1
  <2>3. IsFiniteSet(Newer(a, i))
    BY <2>1, <2>2, FS_Subset
  <2> QED
    BY <2>2, <2>3, FS_Subset, FS_CardinalityType
<1>3. Newer(a, Len(a)) = {}
  BY <1>1
<1>4. Cardinality(Newer(a, Len(a))) = 0
  BY <1>3, FS_EmptySet
<1>5. Overtaken(l) = {i \in 1 .. Len(l) : Cardinality(Newer(l, i)) >= KeepMessages}
  BY DEF Overtaken
<1>6. Overtaken(a) = {i \in 1 .. Len(a) : Cardinality(Newer(a, i)) >= KeepMessages}
  BY DEF Overtaken
<1> HIDE DEF a, Newer
<1>7. KeepMessages \in Nat \ {0}
  BY SpoolAssumption
<1>8. Overtaken(l) \subseteq Overtaken(a)
  BY <1>1, <1>2, <1>5, <1>6, <1>7
<1>9. Overtaken(a) \subseteq 1 .. Len(l)
  BY <1>1, <1>4, <1>6, <1>7
<1> QED
  BY <1>8, <1>9 DEF a

\* The same for what a publication drops from a stream.
LEMMA OverflowGrows ==
    ASSUME NEW s \in Streams, NEW l \in Seq(Subjects), NEW x \in Subjects
    PROVE  /\ Overflow(s, l) \subseteq Overflow(s, Append(l, x))
           /\ Overflow(s, Append(l, x)) \subseteq 1 .. Len(l)
  BY OvertakenGrows DEF Overflow

-----------------------------------------------------------------------------
\* Initially nothing has been accepted.
LEMMA Initially == Init => IInv
<1> SUFFICES ASSUME Init PROVE IInv
  OBVIOUS
<1>1. TypeOK
  <2>1. BrokerTypeOK
    BY BrokerInitially DEF Init
  <2>2. << >> \in Seq(Subjects)
    OBVIOUS
  <2> QED
    BY <2>1, <2>2 DEF Init, Each, TypeOK
<1>2. ASSUME NEW s \in Streams PROVE Sound(s)
  <2>1. /\ log[s] = << >> /\ stored[s] = {} /\ acked[s] = 0 /\ hand[s] = 0
        /\ confirmed[s] = FALSE /\ delivered[s] = {} /\ aged[s] = 0 /\ wiped[s] = 0
    BY DEF Init, Each
  <2>2. Accepted(s) = {}
    BY <2>1 DEF Accepted
  <2> QED
    BY <2>1, <2>2 DEF Sound, InLog, InOrder, InHand, Accounted
<1> QED
  BY <1>1, <1>2 DEF IInv

\* A stream is not affected by a step that leaves it alone; when the broker
\* goes down it has to have empty hands.
LEMMA Untouched ==
    ASSUME NEW s \in Streams, Sound(s),
           log'[s] = log[s], stored'[s] = stored[s], acked'[s] = acked[s],
           hand'[s] = hand[s], confirmed'[s] = confirmed[s], repl'[s] = repl[s],
           delivered'[s] = delivered[s], aged'[s] = aged[s], wiped'[s] = wiped[s],
           up' \/ (hand[s] = 0 /\ confirmed[s] = FALSE)
    PROVE  Sound(s)'
  BY DEF Sound, InLog, InOrder, InHand, Accounted, Accepted, Waiting,
         Excused

-----------------------------------------------------------------------------
(* The streams and the replicators.  Each step concerns one stream. *)

\* The typing of the variables that belong to streams.
StreamsTyped ==
    /\ log \in [Streams -> Seq(Subjects)]
    /\ stored \in [Streams -> SUBSET (Nat \ {0})]
    /\ acked \in [Streams -> Nat]
    /\ repl \in [Streams -> {"off", "copying", "ended"}]
    /\ hand \in [Streams -> Nat]
    /\ confirmed \in [Streams -> BOOLEAN]
    /\ delivered \in [Streams -> SUBSET Nat]
    /\ aged \in [Streams -> Nat]
    /\ wiped \in [Streams -> Nat]

\* The invariant, put together after a step that concerns stream s.
LEMMA Together ==
    ASSUME BrokerTypeOK', StreamsTyped', NEW s \in Streams,
           InLog(s)', InOrder(s)', InHand(s)', Accounted(s)',
           \A t \in Streams \ {s} : Sound(t)'
    PROVE  IInv'
<1>1. Sound(s)'
  BY DEF Sound
<1>2. TypeOK'
  BY DEF TypeOK, StreamsTyped
<1> QED
  BY <1>1, <1>2 DEF IInv

LEMMA BrokerSame ==
    ASSUME BrokerTypeOK, UNCHANGED <<broker, linked>>, spent' \in [Event -> Nat]
    PROVE  BrokerTypeOK'
  BY DEF BrokerTypeOK, broker

LEMMA PublishKeeps ==
    ASSUME IInv, NEW s \in Streams, NEW subject \in Subjects, Publish(s, subject)
    PROVE  IInv'
<1> DEFINE n == Len(log[s])
<1>1. BrokerTypeOK' /\ up' = up
  BY BrokerSame DEF IInv, TypeOK, Publish, BrokerTypeOK, broker
<1>2. /\ log[s] \in Seq(Subjects) /\ n \in Nat
      /\ log'[s] = Append(log[s], subject) /\ Len(log'[s]) = n + 1
      /\ stored'[s] = (stored[s] \cup {n + 1}) \ Overflow(s, log'[s])
  BY DEF IInv, TypeOK, Publish
<1>3. Overflow(s, log[s]) \subseteq Overflow(s, log'[s]) /\ n + 1 \notin Overflow(s, log'[s])
  BY <1>2, OverflowGrows
<1>4. StreamsTyped'
  <2>1. log' \in [Streams -> Seq(Subjects)]
    BY DEF IInv, TypeOK, Publish
  <2>2. stored' \in [Streams -> SUBSET (Nat \ {0})]
    BY <1>2 DEF IInv, TypeOK, Publish
  <2> QED
    BY <2>1, <2>2 DEF IInv, TypeOK, StreamsTyped, Publish, replicator
<1>5. /\ acked'[s] = acked[s] /\ hand'[s] = hand[s] /\ confirmed'[s] = confirmed[s]
      /\ repl'[s] = repl[s] /\ delivered'[s] = delivered[s]
      /\ aged'[s] = aged[s] /\ wiped'[s] = wiped[s]
  BY DEF Publish, replicator
<1>6. Sound(s) /\ hand[s] \in Nat /\ acked[s] \in Nat /\ aged[s] \in Nat /\ wiped[s] \in Nat
      /\ stored[s] \subseteq Nat
  BY DEF IInv, TypeOK
<1>7. Accepted(s)' = Accepted(s) \cup {n + 1}
  BY <1>2 DEF Accepted
<1>8. InLog(s)'
  BY <1>2, <1>5, <1>6, <1>7 DEF Sound, InLog
<1>9. InOrder(s)'
  BY <1>2, <1>5, <1>6 DEF Sound, InLog, InOrder, Waiting
<1>10. InHand(s)'
  BY <1>1, <1>5, <1>6 DEF Sound, InHand
<1>11. Accounted(s)'
  BY <1>2, <1>3, <1>5, <1>6, <1>7
     DEF Sound, InLog, Accounted, Waiting, Excused
<1>12. ASSUME NEW t \in Streams \ {s} PROVE Sound(t)'
  <2>1. log'[t] = log[t] /\ stored'[t] = stored[t]
    BY <1>12 DEF IInv, TypeOK, Publish
  <2> QED
    BY <2>1, <1>12, <1>1, Untouched DEF IInv, Publish, replicator
<1> QED
  BY <1>1, <1>4, <1>8, <1>9, <1>10, <1>11, <1>12, Together

LEMMA ExpireKeeps ==
    ASSUME IInv, NEW s \in Streams, Expire(s)
    PROVE  IInv'
<1>1. BrokerTypeOK' /\ up' = up
  BY BrokerSame DEF IInv, TypeOK, Expire, BrokerTypeOK, broker
<1>2. PICK m \in stored[s] :
          /\ \A k \in stored[s] : m <= k
          /\ stored' = [stored EXCEPT ![s] = @ \ {m}]
          /\ aged' = [aged EXCEPT ![s] = m]
  BY DEF Expire
<1>3. m \in Nat \ {0} /\ stored'[s] = stored[s] \ {m} /\ aged'[s] = m
  BY <1>2 DEF IInv, TypeOK
<1>4. StreamsTyped'
  BY <1>2, <1>3 DEF IInv, TypeOK, StreamsTyped, Expire, replicator
<1>5. /\ log'[s] = log[s] /\ acked'[s] = acked[s] /\ hand'[s] = hand[s]
      /\ confirmed'[s] = confirmed[s] /\ repl'[s] = repl[s]
      /\ delivered'[s] = delivered[s] /\ wiped'[s] = wiped[s]
  BY DEF Expire, replicator
<1>6. Sound(s) /\ Len(log[s]) \in Nat /\ hand[s] \in Nat /\ acked[s] \in Nat /\ aged[s] \in Nat
      /\ wiped[s] \in Nat /\ stored[s] \subseteq Nat
  BY DEF IInv, TypeOK
<1>7. aged[s] <= m /\ m <= Len(log[s])
  BY <1>2, <1>6 DEF Sound, InLog, Accepted
<1>8. InLog(s)'
  <2>1. \A k \in stored'[s] : k > aged'[s]
    BY <1>2, <1>3, <1>6
  <2> QED
    BY <2>1, <1>3, <1>5, <1>6, <1>7 DEF Sound, InLog, Accepted
<1>9. InOrder(s)'
  BY <1>3, <1>5, <1>6 DEF Sound, InOrder, Waiting
<1>10. InHand(s)'
  BY <1>1, <1>5, <1>6 DEF Sound, InHand
<1>11. Accounted(s)'
  <2>1. Excused(s) \cup {m} \subseteq Excused(s)'
    BY <1>3, <1>5, <1>6, <1>7 DEF Excused
  <2>2. Waiting(s) \ {m} \subseteq Waiting(s)'
    BY <1>3, <1>5 DEF Waiting
  <2> QED
    BY <2>1, <2>2, <1>5, <1>6 DEF Sound, Accounted, Accepted
<1>12. ASSUME NEW t \in Streams \ {s} PROVE Sound(t)'
  <2>1. aged'[t] = aged[t] /\ stored'[t] = stored[t]
    BY <1>2 DEF IInv, TypeOK
  <2> QED
    BY <2>1, <1>1, Untouched DEF IInv, Expire, replicator
<1> QED
  BY <1>1, <1>4, <1>8, <1>9, <1>10, <1>11, <1>12, Together

LEMMA ReplicatorStartsKeeps ==
    ASSUME IInv, NEW s \in Streams, ReplicatorStarts(s)
    PROVE  IInv'
<1>1. BrokerTypeOK' /\ up' = up
  BY BrokerSame DEF IInv, TypeOK, ReplicatorStarts, BrokerTypeOK, broker
<1>2. StreamsTyped'
  BY DEF IInv, TypeOK, StreamsTyped, ReplicatorStarts, store, past
<1>3. /\ log'[s] = log[s] /\ stored'[s] = stored[s] /\ acked'[s] = acked[s]
      /\ hand'[s] = hand[s] /\ confirmed'[s] = confirmed[s] /\ delivered'[s] = delivered[s]
      /\ aged'[s] = aged[s] /\ wiped'[s] = wiped[s] /\ repl'[s] = "copying"
  BY DEF IInv, TypeOK, ReplicatorStarts, store, past
<1>4. Sound(s) /\ up
  BY DEF IInv, ReplicatorStarts
<1>5. InLog(s)' /\ InOrder(s)' /\ Accounted(s)'
  BY <1>3, <1>4 DEF Sound, InLog, InOrder, Accounted, Accepted, Waiting, Excused
<1>6. InHand(s)'
  BY <1>1, <1>3, <1>4 DEF Sound, InHand
<1>7. ASSUME NEW t \in Streams \ {s} PROVE Sound(t)'
  <2>1. repl'[t] = repl[t]
    BY DEF IInv, TypeOK, ReplicatorStarts
  <2> QED
    BY <2>1, <1>1, Untouched DEF IInv, ReplicatorStarts, store, past
<1> QED
  BY <1>1, <1>2, <1>5, <1>6, <1>7, Together

LEMMA ReplicatorFailsKeeps ==
    ASSUME IInv, NEW s \in Streams, ReplicatorFails(s)
    PROVE  IInv'
<1>1. BrokerTypeOK' /\ up' = up
  BY Spending, Events, BrokerSame DEF IInv, TypeOK, ReplicatorFails, broker
<1>2. StreamsTyped'
  BY DEF IInv, TypeOK, StreamsTyped, ReplicatorFails, store, past
<1>3. /\ log'[s] = log[s] /\ stored'[s] = stored[s] /\ acked'[s] = acked[s]
      /\ hand'[s] = 0 /\ confirmed'[s] = FALSE /\ delivered'[s] = delivered[s]
      /\ aged'[s] = aged[s] /\ wiped'[s] = wiped[s]
  BY DEF IInv, TypeOK, ReplicatorFails, store, past
<1>4. Sound(s) /\ Len(log[s]) \in Nat /\ hand[s] \in Nat
  BY DEF IInv, TypeOK
<1>5. InLog(s)' /\ InOrder(s)' /\ InHand(s)'
  BY <1>3, <1>4 DEF Sound, InLog, InOrder, InHand, Accepted
<1>6. Accounted(s)'
  BY <1>3, <1>4 DEF Sound, Accounted, Accepted, Waiting, Excused
<1>7. ASSUME NEW t \in Streams \ {s} PROVE Sound(t)'
  <2>1. repl'[t] = repl[t] /\ hand'[t] = hand[t] /\ confirmed'[t] = confirmed[t]
    BY DEF IInv, TypeOK, ReplicatorFails
  <2>2. up' \/ (hand[t] = 0 /\ confirmed[t] = FALSE)
    BY <1>1 DEF ReplicatorFails
  <2> QED
    BY <2>1, <2>2, Untouched DEF IInv, ReplicatorFails, store, past
<1> QED
  BY <1>1, <1>2, <1>5, <1>6, <1>7, Together

LEMMA FetchKeeps ==
    ASSUME IInv, NEW s \in Streams, Fetch(s)
    PROVE  IInv'
<1>1. BrokerTypeOK' /\ up' = up /\ up /\ repl[s] = "copying" /\ hand[s] = 0
  BY BrokerSame DEF IInv, TypeOK, Fetch, BrokerTypeOK, broker
<1>2. PICK m \in Waiting(s) :
          /\ \A k \in Waiting(s) : m <= k
          /\ hand' = [hand EXCEPT ![s] = m]
  BY DEF Fetch
<1>3. m \in Nat \ {0} /\ hand'[s] = m /\ m > acked[s] /\ m \in stored[s]
  BY <1>2 DEF IInv, TypeOK, Waiting
<1>4. StreamsTyped'
  BY <1>2, <1>3 DEF IInv, TypeOK, StreamsTyped, Fetch, store, past
<1>5. /\ log'[s] = log[s] /\ stored'[s] = stored[s] /\ acked'[s] = acked[s]
      /\ confirmed'[s] = confirmed[s] /\ repl'[s] = "copying" /\ delivered'[s] = delivered[s]
      /\ aged'[s] = aged[s] /\ wiped'[s] = wiped[s]
  BY <1>1 DEF IInv, TypeOK, Fetch, store, past
<1>6. Sound(s) /\ Len(log[s]) \in Nat
  BY DEF IInv, TypeOK
<1>7. InLog(s)'
  BY <1>3, <1>5, <1>6 DEF Sound, InLog, Accepted
<1>8. InOrder(s)'
  BY <1>2, <1>3, <1>5, <1>6 DEF InOrder, Waiting
<1>9. InHand(s)'
  BY <1>1, <1>5, <1>6 DEF Sound, InHand
<1>10. Accounted(s)'
  BY <1>5, <1>6 DEF Sound, Accounted, Accepted, Waiting, Excused
<1>11. ASSUME NEW t \in Streams \ {s} PROVE Sound(t)'
  <2>1. hand'[t] = hand[t]
    BY <1>2 DEF IInv, TypeOK
  <2> QED
    BY <2>1, <1>1, Untouched DEF IInv, Fetch, store, past
<1> QED
  BY <1>1, <1>4, <1>7, <1>8, <1>9, <1>10, <1>11, Together

LEMMA CopyKeeps ==
    ASSUME IInv, NEW s \in Streams, Copy(s)
    PROVE  IInv'
<1>1. up' = up /\ up /\ hand[s] # 0 /\ linked' = linked /\ broker' = broker
  BY DEF Copy, broker
<1>2. BrokerTypeOK'
  <2>1. spent' \in [Event -> Nat]
    BY Spending, Events DEF IInv, TypeOK, BrokerTypeOK, Copy
  <2> QED
    BY <2>1, <1>1, BrokerSame DEF IInv, TypeOK
<1>3. /\ log' = log /\ stored' = stored /\ acked' = acked /\ hand' = hand /\ repl' = repl
      /\ aged' = aged /\ wiped' = wiped
      /\ delivered' = [delivered EXCEPT ![s] = @ \cup {hand[s]}]
  BY DEF Copy, store, past
<1>4. /\ delivered'[s] = delivered[s] \cup {hand[s]}
      /\ delivered' \in [Streams -> SUBSET Nat]
      /\ \A t \in Streams \ {s} : delivered'[t] = delivered[t]
  BY <1>3 DEF IInv, TypeOK
<1>5. confirmed' = confirmed \/ confirmed' = [confirmed EXCEPT ![s] = TRUE]
  BY DEF Copy
<1>6. /\ confirmed' \in [Streams -> BOOLEAN]
      /\ \A t \in Streams \ {s} : confirmed'[t] = confirmed[t]
  BY <1>5 DEF IInv, TypeOK
<1>7. StreamsTyped'
  BY <1>3, <1>4, <1>6 DEF IInv, TypeOK, StreamsTyped
<1>8. Sound(s) /\ Len(log[s]) \in Nat /\ hand[s] \in Nat \ {0}
  BY <1>1 DEF IInv, TypeOK
<1>9. InLog(s)' /\ InOrder(s)' /\ Accounted(s)'
  BY <1>3, <1>4, <1>8
     DEF Sound, InLog, InOrder, Accounted, Accepted, Waiting, Excused
<1>10. InHand(s)'
  BY <1>1, <1>3, <1>4, <1>8 DEF Sound, InHand
<1>11. ASSUME NEW t \in Streams \ {s} PROVE Sound(t)'
  BY <1>1, <1>3, <1>4, <1>6, <1>11, Untouched DEF IInv
<1> QED
  BY <1>2, <1>7, <1>9, <1>10, <1>11, Together

\* What an acknowledgement moves past has been delivered or was given up.
LEMMA AckKeeps ==
    ASSUME IInv, NEW s \in Streams, Ack(s)
    PROVE  IInv'
<1>1. BrokerTypeOK' /\ up' = up /\ up /\ hand[s] # 0 /\ confirmed[s]
  BY BrokerSame DEF IInv, TypeOK, Ack, BrokerTypeOK, broker
<1>2. StreamsTyped'
  BY DEF IInv, TypeOK, StreamsTyped, Ack, past
<1>3. /\ log'[s] = log[s] /\ stored'[s] = stored[s] /\ acked'[s] = hand[s]
      /\ hand'[s] = 0 /\ confirmed'[s] = FALSE /\ delivered'[s] = delivered[s]
      /\ aged'[s] = aged[s] /\ wiped'[s] = wiped[s]
  BY DEF IInv, TypeOK, Ack, past
<1>4. Sound(s) /\ Len(log[s]) \in Nat /\ hand[s] \in Nat /\ stored[s] \subseteq Nat
  BY DEF IInv, TypeOK
<1>5. InLog(s)' /\ InOrder(s)' /\ InHand(s)'
  BY <1>3, <1>4 DEF Sound, InLog, InOrder, InHand, Accepted
<1>6. Accounted(s)'
  <2>1. hand[s] \in delivered[s]
    BY <1>1, <1>4 DEF Sound, InHand
  <2>2. ASSUME NEW m \in Waiting(s) PROVE m = hand[s] \/ m \in Waiting(s)'
    <3>1. hand[s] <= m /\ m \in Nat /\ m \in stored[s]
      BY <1>1, <1>4 DEF Sound, InOrder, Waiting
    <3> QED
      BY <3>1, <1>3, <1>4 DEF Waiting
  <2> QED
    BY <2>1, <2>2, <1>3, <1>4 DEF Sound, Accounted, Accepted, Excused
<1>7. ASSUME NEW t \in Streams \ {s} PROVE Sound(t)'
  <2>1. acked'[t] = acked[t] /\ hand'[t] = hand[t] /\ confirmed'[t] = confirmed[t]
    BY DEF IInv, TypeOK, Ack
  <2> QED
    BY <2>1, <1>1, Untouched DEF IInv, Ack, past
<1> QED
  BY <1>1, <1>2, <1>5, <1>6, <1>7, Together

-----------------------------------------------------------------------------
(* The leader.  Each step concerns the broker or all streams at once. *)

\* Steps that do not concern the streams.
LEMMA LeaderKeeps ==
    ASSUME IInv, Start \/ StreamSetup \/ Link
    PROVE  IInv'
<1>1. BrokerTypeOK' /\ (up' \/ up' = up)
  BY BrokerRuns, LinkChanges DEF IInv, TypeOK, Start, StreamSetup, Link
<1>2. UNCHANGED <<store, replicator, past, delivered>>
  BY DEF Start, StreamSetup, Link
<1>3. StreamsTyped'
  BY <1>2 DEF IInv, TypeOK, StreamsTyped, store, replicator, past
<1>4. ASSUME NEW s \in Streams PROVE Sound(s)'
  <2>1. up' \/ (hand[s] = 0 /\ confirmed[s] = FALSE)
    BY <1>1 DEF IInv, TypeOK, Sound, InHand
  <2> QED
    BY <2>1, <1>2, Untouched DEF IInv, store, replicator, past
<1>5. TypeOK'
  BY <1>1, <1>3 DEF TypeOK, StreamsTyped
<1> QED
  BY <1>4, <1>5 DEF IInv

LEMMA EndKeeps ==
    ASSUME IInv, End
    PROVE  IInv'
<1>1. BrokerTypeOK'
  BY BrokerRests DEF IInv, TypeOK, End
<1>2. StreamsTyped'
  BY DEF IInv, TypeOK, StreamsTyped, End, Each, store, past
<1>3. ASSUME NEW s \in Streams PROVE Sound(s)'
  <2>1. /\ log'[s] = log[s] /\ stored'[s] = stored[s] /\ acked'[s] = acked[s]
        /\ hand'[s] = 0 /\ confirmed'[s] = FALSE /\ delivered'[s] = delivered[s]
        /\ aged'[s] = aged[s] /\ wiped'[s] = wiped[s]
    BY DEF End, Each, store, past
  <2>2. Sound(s) /\ Len(log[s]) \in Nat
    BY DEF IInv, TypeOK
  <2>3. InLog(s)' /\ InOrder(s)' /\ InHand(s)'
    BY <2>1, <2>2 DEF Sound, InLog, InOrder, InHand, Accepted
  <2>4. Accounted(s)'
    BY <2>1, <2>2 DEF Sound, Accounted, Accepted, Waiting, Excused
  <2> QED
    BY <2>3, <2>4 DEF Sound
<1>4. TypeOK'
  BY <1>1, <1>2 DEF TypeOK, StreamsTyped
<1> QED
  BY <1>3, <1>4 DEF IInv

LEMMA ResetKeeps ==
    ASSUME IInv, Reset
    PROVE  IInv'
<1>1. BrokerTypeOK' /\ ~up
  BY BrokerRests DEF IInv, TypeOK, Reset, StoreRemoved
<1>2. StreamsTyped'
  BY DEF IInv, TypeOK, StreamsTyped, Reset, Each, replicator
<1>3. ASSUME NEW s \in Streams PROVE Sound(s)'
  <2>1. /\ log'[s] = log[s] /\ stored'[s] = {} /\ acked'[s] = 0
        /\ hand'[s] = hand[s] /\ confirmed'[s] = confirmed[s] /\ delivered'[s] = delivered[s]
        /\ aged'[s] = aged[s] /\ wiped'[s] = Len(log[s])
    BY DEF Reset, Each, replicator
  <2>2. Sound(s) /\ Len(log[s]) \in Nat /\ confirmed[s] \in BOOLEAN
    BY DEF IInv, TypeOK
  <2>3. hand[s] = 0 /\ ~confirmed[s]
    BY <1>1, <2>2 DEF Sound, InHand
  <2>4. InLog(s)' /\ InOrder(s)' /\ InHand(s)'
    BY <2>1, <2>2, <2>3 DEF Sound, InLog, InOrder, InHand, Accepted
  <2>5. Accounted(s)'
    BY <2>1, <2>2 DEF Accounted, Accepted, Excused
  <2> QED
    BY <2>4, <2>5 DEF Sound
<1>4. TypeOK'
  BY <1>1, <1>2 DEF TypeOK, StreamsTyped
<1> QED
  BY <1>3, <1>4 DEF IInv

\* IInv is inductive.
LEMMA Inductive == IInv /\ [Next]_vars => IInv'
<1> SUFFICES ASSUME IInv, [Next]_vars PROVE IInv'
  OBVIOUS
<1>1. CASE Start \/ StreamSetup \/ Link
  BY <1>1, LeaderKeeps
<1>2. CASE End
  BY <1>2, EndKeeps
<1>3. CASE Reset
  BY <1>3, ResetKeeps
<1>4. ASSUME NEW s \in Streams, NEW subject \in Subjects, Publish(s, subject) PROVE IInv'
  BY <1>4, PublishKeeps
<1>5. ASSUME NEW s \in Streams,
             Expire(s) \/ ReplicatorStarts(s) \/ ReplicatorFails(s)
      PROVE IInv'
  BY <1>5, ExpireKeeps, ReplicatorStartsKeeps, ReplicatorFailsKeeps
<1>6. ASSUME NEW s \in Streams, Fetch(s) \/ Copy(s) \/ Ack(s) PROVE IInv'
  BY <1>6, FetchKeeps, CopyKeeps, AckKeeps
<1>7. CASE UNCHANGED vars
  <2>1. TypeOK'
    BY <1>7 DEF IInv, TypeOK, BrokerTypeOK, vars, broker, store, replicator, past
  <2>2. ASSUME NEW s \in Streams PROVE Sound(s)'
    BY <1>7 DEF IInv, Sound, InLog, InOrder, InHand, Accounted, Accepted, Waiting, Excused,
       vars, broker, store, replicator, past
  <2> QED
    BY <2>1, <2>2 DEF IInv
<1> QED
  BY <1>1, <1>2, <1>3, <1>4, <1>5, <1>6, <1>7 DEF Next

\* Every behaviour of Spool satisfies its inductive invariant.
THEOREM SpoolInvariant == Spec => []IInv
<1> QED
  BY Initially, Inductive, PTL DEF Spec

\* Type correctness of Spool (replication.go, broker.go).
THEOREM SpoolTypeCorrect == Spec => []TypeOK
<1>1. IInv => TypeOK
  BY DEF IInv
<1> QED
  BY <1>1, SpoolInvariant, PTL

\* Replication (replication.go) loses only what the limits of the streams or a
\* reset give up, with any number of faults, restarts and outages.
THEOREM OnlyExcusedIsLost == Spec => []NothingElseLost
<1>1. IInv => NothingElseLost
  BY DEF IInv, Sound, NothingElseLost
<1> QED
  BY <1>1, SpoolInvariant, PTL

-----------------------------------------------------------------------------
\* The set-up of the streams (broker.go) stops only when every stream and the
\* bucket are there, and leaves no step behind before that, whatever fails.
THEOREM SetUpLeavesNothing == Spec => []SetUpInOrder
<1>1. Init => SetUpSound
  BY SetUpInitially DEF Init
<1>2. IInv /\ SetUpSound /\ [Next]_vars => SetUpSound'
  <2> SUFFICES ASSUME IInv, SetUpSound, [Next]_vars PROVE SetUpSound'
    OBVIOUS
  <2>1. CASE Start \/ StreamSetup \/ End \/ Reset \/ Link
    BY <2>1, SetUpKeeps DEF IInv, TypeOK, Start, StreamSetup, End, Reset, Link
  <2>2. CASE \/ UNCHANGED vars
             \/ \E s \in Streams :
                   \/ \E subject \in Subjects : Publish(s, subject)
                   \/ Expire(s) \/ ReplicatorStarts(s) \/ ReplicatorFails(s)
                   \/ Fetch(s) \/ Copy(s) \/ Ack(s)
    <3>1. UNCHANGED broker
      BY <2>2 DEF Publish, Expire, ReplicatorStarts, ReplicatorFails, Fetch, Copy, Ack, vars
    <3> QED
      BY <3>1, SetUpRests
  <2> QED
    BY <2>1, <2>2 DEF Next
<1>3. SetUpSound => SetUpInOrder
  BY DEF SetUpSound
<1> QED
  BY <1>1, <1>2, <1>3, SpoolInvariant, PTL DEF Spec

-----------------------------------------------------------------------------
(* Spool implements Delivery. *)

\* A step after which every stream has at most what it had, on its way or
\* delivered, gives up messages at most.
LEMMA GivesUp ==
    ASSUME IInv, IInv',
           \A s \in Streams : log'[s] = log[s] /\ Pending(s)' \subseteq Pending(s) \cup delivered[s],
           delivered' = delivered
    PROVE  Promise!Lose
<1>1. \A s \in Streams : Lost[s] = Accepted(s) \ (delivered[s] \cup Pending(s))
  BY DEF Lost
<1>2. \A s \in Streams : Lost'[s] = Accepted(s)' \ (delivered'[s] \cup Pending(s)')
  BY DEF Lost
<1>3. \A s \in Streams : Accepted(s) = 1 .. Len(log[s]) /\ Accepted(s)' = Accepted(s)
  BY DEF Accepted
<1>4. [s \in Streams |-> Len(log'[s])] = [s \in Streams |-> Len(log[s])]
  OBVIOUS
<1>5. Lost' \in [Streams -> SUBSET Nat]
  BY <1>3 DEF Lost, Accepted, IInv, TypeOK
<1>6. ASSUME NEW s \in Streams
      PROVE  Lost[s] \subseteq Lost'[s] /\ Lost'[s] \subseteq Accepted(s)' \ delivered[s]
  BY <1>1, <1>2, <1>3
<1>7. Promise!Loses
  BY <1>3, <1>4, <1>5, <1>6 DEF Promise!Loses, Accepted
<1> QED
  BY <1>4, <1>7 DEF Promise!Lose

\* A publication is accepted, and may push others out of the stream.
LEMMA Accepts ==
    ASSUME IInv, IInv', NEW s \in Streams, NEW subject \in Subjects, Publish(s, subject)
    PROVE  Promise!Accept(s)
<1> DEFINE n == Len(log[s])
<1>1. /\ log[s] \in Seq(Subjects) /\ n \in Nat
      /\ log'[s] = Append(log[s], subject) /\ Len(log'[s]) = n + 1
      /\ stored'[s] \subseteq stored[s] \cup {n + 1}
      /\ \A t \in Streams \ {s} : log'[t] = log[t] /\ stored'[t] = stored[t]
      /\ acked' = acked /\ hand' = hand /\ delivered' = delivered
  BY DEF IInv, TypeOK, Publish, replicator
<1>2. [t \in Streams |-> Len(log'[t])] = [[t \in Streams |-> Len(log[t])] EXCEPT ![s] = @ + 1]
  BY <1>1
<1>3. Accepted(s)' = Accepted(s) \cup {n + 1} /\ n + 1 \notin Accepted(s)
  BY <1>1 DEF Accepted
<1>4. Pending(s)' \subseteq Pending(s) \cup {n + 1}
  BY <1>1 DEF Pending, Waiting
<1>5. \A t \in Streams \ {s} : Accepted(t)' = Accepted(t) /\ Pending(t)' = Pending(t)
  BY <1>1 DEF Accepted, Pending, Waiting
<1>6. Lost' \in [Streams -> SUBSET Nat]
  BY DEF Lost, Accepted
<1>7. \A t \in Streams : /\ Lost[t] = Accepted(t) \ (delivered[t] \cup Pending(t))
                         /\ Lost'[t] = Accepted(t)' \ (delivered'[t] \cup Pending(t)')
  BY DEF Lost
<1>8. ASSUME NEW t \in Streams
      PROVE  Lost[t] \subseteq Lost'[t] /\ Lost'[t] \subseteq Accepted(t)' \ delivered[t]
  <2>1. CASE t = s
    BY <2>1, <1>1, <1>3, <1>4, <1>7
  <2>2. CASE t # s
    BY <2>2, <1>1, <1>5, <1>7
  <2> QED
    BY <2>1, <2>2
<1>9. Promise!Loses
  <2>1. \A t \in Streams : 1 .. [u \in Streams |-> Len(log'[u])][t] = Accepted(t)'
    BY DEF Accepted
  <2> QED
    BY <2>1, <1>6, <1>8 DEF Promise!Loses
<1> QED
  BY <1>1, <1>2, <1>9 DEF Promise!Accept

\* A message that is copied for the first time is delivered in its turn.
LEMMA Delivers ==
    ASSUME IInv, IInv', NEW s \in Streams, Copy(s)
    PROVE  Promise!Deliver(s) \/ UNCHANGED Promise!vars
<1> DEFINE m == hand[s]
<1>1. /\ log' = log /\ stored' = stored /\ acked' = acked /\ hand' = hand
      /\ delivered' = [delivered EXCEPT ![s] = @ \cup {m}]
      /\ m # 0
  BY DEF Copy, store, past
<1>2. /\ Sound(s) /\ m \in Nat /\ Len(log[s]) \in Nat
      /\ delivered \in [Streams -> SUBSET Nat] /\ stored[s] \subseteq Nat
  BY DEF IInv, TypeOK
<1>3. \A t \in Streams : Accepted(t)' = Accepted(t) /\ Pending(t)' = Pending(t)
  BY <1>1 DEF Accepted, Pending, Waiting
<1>4. m \in Pending(s)
  BY <1>1 DEF Pending
<1>5. Lost' = Lost
  <2>1. ASSUME NEW t \in Streams
        PROVE  Accepted(t) \ (delivered[t] \cup Pending(t))
                 = Accepted(t)' \ (delivered'[t] \cup Pending(t)')
    <3>1. CASE t = s
      BY <3>1, <1>1, <1>2, <1>3, <1>4
    <3>2. CASE t # s
      BY <3>2, <1>1, <1>2, <1>3
    <3> QED
      BY <3>1, <3>2
  <2> QED
    BY <2>1 DEF Lost
<1>6. CASE m \in delivered[s]
  <2>1. delivered' = delivered
    BY <1>1, <1>2, <1>6
  <2> QED
    BY <2>1, <1>1, <1>5 DEF Promise!vars
<1>7. CASE m \notin delivered[s]
  <2>1. Promise!Open(s) = Accepted(s) \ (delivered[s] \cup Lost[s])
    BY DEF Promise!Open, Accepted
  <2>2. Lost[s] = Accepted(s) \ (delivered[s] \cup Pending(s))
    BY DEF Lost
  <2>3. m \in Accepted(s)
    BY <1>1, <1>2 DEF Sound, InLog, Accepted
  <2>4. m \in Promise!Open(s)
    BY <2>1, <2>2, <2>3, <1>4, <1>7
  <2>5. \A k \in Promise!Open(s) : m <= k
    <3>1. \A k \in Promise!Open(s) : k \in Waiting(s) \/ k = m
      BY <2>1, <2>2 DEF Pending
    <3>2. \A k \in Waiting(s) : m <= k
      BY <1>1, <1>2 DEF Sound, InOrder
    <3> QED
      BY <3>1, <3>2, <1>2
  <2> QED
    BY <2>4, <2>5, <1>1, <1>5 DEF Promise!Deliver
<1> QED
  BY <1>6, <1>7

\* Every other step gives up messages at most.
LEMMA OthersGiveUp ==
    ASSUME IInv, IInv',
           \/ Start \/ StreamSetup \/ End \/ Reset \/ Link
           \/ \E s \in Streams : \/ Expire(s) \/ ReplicatorStarts(s) \/ ReplicatorFails(s)
                                 \/ Fetch(s) \/ Ack(s)
    PROVE  Promise!Lose
<1>1. log' = log /\ delivered' = delivered
  BY DEF Start, StreamSetup, End, Reset, Link, Expire, ReplicatorStarts, ReplicatorFails,
         Fetch, Ack, past
<1>2. ASSUME Start \/ StreamSetup \/ Link, NEW t \in Streams
      PROVE  Pending(t)' \subseteq Pending(t)
  BY <1>2 DEF Start, StreamSetup, Link, store, replicator, Pending, Waiting
<1>3. ASSUME End, NEW t \in Streams PROVE Pending(t)' \subseteq Pending(t)
  BY <1>3 DEF End, Each, store, Pending, Waiting
<1>4. ASSUME Reset, NEW t \in Streams PROVE Pending(t)' \subseteq Pending(t)
  BY <1>4 DEF Reset, Each, replicator, Pending, Waiting
<1>5. ASSUME NEW s \in Streams, Expire(s), NEW t \in Streams
      PROVE  Pending(t)' \subseteq Pending(t)
  BY <1>5 DEF Expire, replicator, Pending, Waiting, IInv, TypeOK
<1>6. ASSUME NEW s \in Streams, ReplicatorStarts(s), NEW t \in Streams
      PROVE  Pending(t)' \subseteq Pending(t)
  BY <1>6 DEF ReplicatorStarts, store, Pending, Waiting
<1>7. ASSUME NEW s \in Streams, ReplicatorFails(s), NEW t \in Streams
      PROVE  Pending(t)' \subseteq Pending(t)
  BY <1>7 DEF ReplicatorFails, store, Pending, Waiting, IInv, TypeOK
<1>8. ASSUME NEW s \in Streams, Fetch(s), NEW t \in Streams
      PROVE  Pending(t)' \subseteq Pending(t)
  BY <1>8 DEF Fetch, store, Pending, Waiting, IInv, TypeOK
<1>9. ASSUME NEW s \in Streams, Ack(s), NEW t \in Streams
      PROVE  Pending(t)' \subseteq Pending(t)
  <2>1. hand[s] \in Nat /\ Sound(s)
    BY DEF IInv, TypeOK
  <2>2. /\ stored' = stored /\ acked' = [acked EXCEPT ![s] = hand[s]]
        /\ hand' = [hand EXCEPT ![s] = 0] /\ hand[s] # 0
    BY <1>9 DEF Ack
  <2>3. hand[s] > acked[s]
    BY <2>1, <2>2 DEF Sound, InOrder
  <2>4. CASE t = s
    BY <2>1, <2>2, <2>3, <2>4 DEF IInv, TypeOK, Pending, Waiting
  <2>5. CASE t # s
    BY <2>2, <2>5 DEF IInv, TypeOK, Pending, Waiting
  <2> QED
    BY <2>4, <2>5
<1>10. \A t \in Streams : Pending(t)' \subseteq Pending(t)
  BY <1>2, <1>3, <1>4, <1>5, <1>6, <1>7, <1>8, <1>9
<1> QED
  BY <1>1, <1>10, GivesUp

\* The streams and replicators of a site (broker.go, replication.go) keep the
\* promise of Delivery: in order, and never what was given up before.
THEOREM ImplementsDelivery == Spec => KeepsPromise
<1>1. Init => Promise!Init
  <2> SUFFICES ASSUME Init PROVE Promise!Init
    OBVIOUS
  <2>1. [s \in Streams |-> Len(log[s])] = [s \in Streams |-> 0]
    BY DEF Init, Each
  <2>2. Lost = [s \in Streams |-> {}]
    BY DEF Init, Each, Lost, Accepted
  <2> QED
    BY <2>1, <2>2 DEF Init, Each, Promise!Init
<1>2. IInv /\ IInv' /\ [Next]_vars => [Promise!Next]_(Promise!vars)
  <2> SUFFICES ASSUME IInv, IInv', [Next]_vars PROVE [Promise!Next]_(Promise!vars)
    OBVIOUS
  <2>1. ASSUME NEW s \in Streams, NEW subject \in Subjects, Publish(s, subject)
        PROVE  [Promise!Next]_(Promise!vars)
    BY <2>1, Accepts DEF Promise!Next
  <2>2. ASSUME NEW s \in Streams, Copy(s) PROVE [Promise!Next]_(Promise!vars)
    BY <2>2, Delivers DEF Promise!Next
  <2>3. CASE \/ Start \/ StreamSetup \/ End \/ Reset \/ Link
             \/ \E s \in Streams : \/ Expire(s) \/ ReplicatorStarts(s) \/ ReplicatorFails(s)
                                   \/ Fetch(s) \/ Ack(s)
    BY <2>3, OthersGiveUp DEF Promise!Next
  <2>4. CASE UNCHANGED vars
    BY <2>4 DEF vars, store, replicator, past, Promise!vars, Lost, Accepted, Pending, Waiting
  <2> QED
    BY <2>1, <2>2, <2>3, <2>4 DEF Next
<1> QED
  BY <1>1, <1>2, SpoolInvariant, PTL DEF Spec, Promise!Spec, KeepsPromise
=============================================================================
