--------------------------- MODULE NodeRecordsProofs ---------------------------
(***************************************************************************)
(* Theorems of NodeRecords, for any hosts, limits and numbers of messages, *)
(* requests and failures.                                                  *)
(***************************************************************************)
EXTENDS NodeRecordsInductive, TLAPS

\* The typing of what is not the dashboard's.
RecordsTyped ==
    /\ sent \in [Hosts -> Nat] /\ aged \in [Hosts -> Nat]
    /\ stream \in [Hosts -> SUBSET Nat]
    /\ flight \in [Hosts -> SUBSET Nat] /\ inserting \in [Hosts -> SUBSET Nat]
    /\ done \in [Hosts -> SUBSET Nat] /\ acked \in [Hosts -> SUBSET Nat]
    /\ written \in [Hosts -> SUBSET Nat]
    /\ docs \in [Hosts -> Seq(Nat)]
    /\ failures \in Nat

DashboardTyped ==
    /\ request \in [Requests -> {"idle", "asked", "answered"}]
    /\ reply \in [Requests -> [Hosts -> Seq(Nat)]]
    /\ page \in [Hosts -> Seq(Nat)]
    /\ error \in BOOLEAN

LEMMA Typing == TypeOK <=> RecordsTyped /\ DashboardTyped
  BY DEF TypeOK, RecordsTyped, DashboardTyped

\* No documents.
LEMMA NoDocs == Each(<< >>) \in [Hosts -> Seq(Nat)]
  BY DEF Each

LEMMA Initially == Init => IInv
<1> SUFFICES ASSUME Init PROVE IInv
  OBVIOUS
<1>1. RecordsTyped
  BY NoDocs DEF Init, Each, RecordsTyped
<1>2. DashboardTyped
  <2>1. docs \in [Hosts -> Seq(Nat)]
    BY NoDocs DEF Init
  <2>2. error \in BOOLEAN
    BY Zenon DEF Init
  <2> QED
    BY <2>1, <2>2 DEF Init, DashboardTyped
<1>3. ASSUME NEW h \in Hosts PROVE StreamKeeps(h) /\ WrittenFirst(h)
  BY DEF Init, Each, StreamKeeps, WrittenFirst
<1> QED
  BY <1>1, <1>2, <1>3, Typing DEF IInv

\* A host is not affected by a step that leaves it alone.
LEMMA Untouched ==
    ASSUME NEW h \in Hosts, StreamKeeps(h) /\ WrittenFirst(h),
           sent'[h] = sent[h], stream'[h] = stream[h], aged'[h] = aged[h],
           flight'[h] = flight[h], inserting'[h] = inserting[h], done'[h] = done[h],
           acked'[h] = acked[h], written'[h] = written[h]
    PROVE  StreamKeeps(h)' /\ WrittenFirst(h)'
  BY DEF StreamKeeps, WrittenFirst, Dropped

\* The invariant, put together.
LEMMA Whole ==
    ASSUME RecordsTyped', DashboardTyped',
           \A h \in Hosts : StreamKeeps(h)' /\ WrittenFirst(h)'
    PROVE  IInv'
<1>1. TypeOK'
  BY DEF TypeOK, RecordsTyped, DashboardTyped
<1> QED
  BY <1>1 DEF IInv

\* The steps that only concern the dashboard.
LEMMA DashboardKeeps ==
    ASSUME IInv, NEW r \in Requests, Refresh(r) \/ Query(r) \/ Show(r) \/ ShowError(r)
    PROVE  IInv'
<1>1. UNCHANGED <<input, processor, database>> /\ failures' \in Nat
  BY DEF IInv, TypeOK, Refresh, Query, Show, ShowError, Failure
<1>2. RecordsTyped'
  BY <1>1, Typing DEF IInv, RecordsTyped, input, processor, database
<1>3. DashboardTyped'
  <2>1. error' \in BOOLEAN
    BY Typing, Zenon DEF IInv, DashboardTyped, Refresh, Query, Show, ShowError
  <2>2. ASSUME Refresh(r) \/ Query(r) PROVE DashboardTyped'
    BY <2>1, <2>2 DEF IInv, TypeOK, DashboardTyped, Refresh, Query
  <2>3. ASSUME Show(r) \/ ShowError(r) PROVE DashboardTyped'
    BY <2>1, <2>3, NoDocs DEF IInv, TypeOK, DashboardTyped, Show, ShowError, Finish
  <2> QED
    BY <2>2, <2>3
<1>4. ASSUME NEW h \in Hosts PROVE StreamKeeps(h)' /\ WrittenFirst(h)'
  BY <1>1, Untouched DEF IInv, input, processor, database
<1> QED
  BY <1>2, <1>3, <1>4, Whole

\* The steps of the stream and the processor, which concern one host.
LEMMA Together ==
    ASSUME IInv, UNCHANGED dashboard, RecordsTyped', NEW h \in Hosts,
           StreamKeeps(h)', WrittenFirst(h)',
           \A k \in Hosts \ {h} :
              /\ sent'[k] = sent[k] /\ stream'[k] = stream[k] /\ aged'[k] = aged[k]
              /\ flight'[k] = flight[k] /\ inserting'[k] = inserting[k] /\ done'[k] = done[k]
              /\ acked'[k] = acked[k] /\ written'[k] = written[k]
    PROVE  IInv'
<1>1. DashboardTyped'
  <2>1. DashboardTyped
    BY Typing DEF IInv
  <2> QED
    BY <2>1, Zenon DEF DashboardTyped, dashboard
<1>2. ASSUME NEW k \in Hosts PROVE StreamKeeps(k)' /\ WrittenFirst(k)'
  <2>1. CASE k = h
    BY <2>1
  <2>2. CASE k # h
    BY <2>2, Untouched DEF IInv
  <2> QED
    BY <2>1, <2>2
<1> QED
  BY <1>1, <1>2, Whole

LEMMA ArriveKeeps ==
    ASSUME IInv, NEW h \in Hosts, Arrive(h)
    PROVE  IInv'
<1>1. /\ sent'[h] = sent[h] + 1
      /\ stream'[h] = {m \in stream[h] \cup {sent[h] + 1} : m + Keep > sent[h] + 1}
      /\ UNCHANGED <<aged, processor, database, dashboard>>
  BY DEF Arrive, IInv, TypeOK
<1>2. RecordsTyped'
  BY <1>1 DEF Arrive, IInv, TypeOK, RecordsTyped, processor, database
<1>3. Keep \in Nat \ {0} /\ sent[h] \in Nat /\ aged[h] \in Nat /\ stream[h] \subseteq Nat
  BY NodeRecordsAssumption DEF IInv, TypeOK
<1>4. StreamKeeps(h) /\ aged'[h] = aged[h]
  BY <1>1 DEF IInv
<1>5. StreamKeeps(h)'
  <2>1. stream'[h] \subseteq 1 .. sent'[h] /\ \A m \in stream'[h] : m > aged'[h]
    BY <1>1, <1>3, <1>4 DEF StreamKeeps
  <2>2. 1 .. sent'[h] \subseteq stream'[h] \cup Dropped(h)'
    BY <1>1, <1>3, <1>4 DEF StreamKeeps, Dropped
  <2> QED
    BY <2>1, <2>2, <1>1, <1>3, <1>4 DEF StreamKeeps
<1>6. WrittenFirst(h)'
  BY <1>1, <1>3 DEF IInv, WrittenFirst, processor, database
<1> QED
  BY <1>1, <1>2, <1>5, <1>6, Together DEF Arrive, IInv, TypeOK, processor, database

LEMMA ExpireKeeps ==
    ASSUME IInv, NEW h \in Hosts, Expire(h)
    PROVE  IInv'
<1>1. PICK m \in stream[h] :
          /\ \A k \in stream[h] : m <= k
          /\ stream' = [stream EXCEPT ![h] = @ \ {m}]
          /\ aged' = [aged EXCEPT ![h] = m]
  BY DEF Expire
<1>2. UNCHANGED <<sent, processor, database, dashboard, failures>>
  BY DEF Expire
<1>3. RecordsTyped'
  BY <1>1, <1>2 DEF IInv, TypeOK, RecordsTyped, processor, database
<1>4. /\ stream'[h] = stream[h] \ {m} /\ aged'[h] = m /\ sent'[h] = sent[h]
      /\ m \in Nat /\ stream[h] \subseteq Nat /\ sent[h] \in Nat /\ aged[h] \in Nat
      /\ Keep \in Nat
  BY <1>1, <1>2, NodeRecordsAssumption DEF IInv, TypeOK
<1>5. StreamKeeps(h)'
  <2>1. \A k \in stream'[h] : k > aged'[h]
    BY <1>1, <1>4
  <2>2. Dropped(h) \cup {m} \subseteq Dropped(h)'
    BY <1>4 DEF IInv, StreamKeeps, Dropped
  <2> QED
    BY <2>1, <2>2, <1>4 DEF IInv, StreamKeeps
<1>6. WrittenFirst(h)'
  BY <1>2 DEF IInv, WrittenFirst, processor, database
<1> QED
  BY <1>1, <1>2, <1>3, <1>5, <1>6, Together DEF IInv, TypeOK, processor, database

\* The processor's steps leave the stream alone.
LEMMA StreamSame ==
    ASSUME IInv, UNCHANGED input, NEW h \in Hosts
    PROVE  StreamKeeps(h)'
  BY DEF IInv, StreamKeeps, Dropped, input

LEMMA WorkKeeps ==
    ASSUME IInv, NEW h \in Hosts, Read(h) \/ Replace(h) \/ FindNone(h) \/ Insert(h)
    PROVE  IInv'
<1>1. UNCHANGED <<input, dashboard, failures, acked>>
  BY DEF Read, Replace, FindNone, Insert
<1>2. StreamKeeps(h)'
  BY <1>1, StreamSame
<1>3. CASE Read(h)
  <2>1. RecordsTyped'
    BY <1>1, <1>3 DEF IInv, TypeOK, RecordsTyped, Read, input, database
  <2>2. WrittenFirst(h)'
    BY <1>1, <1>3 DEF IInv, TypeOK, WrittenFirst, StreamKeeps, Read, input, database
  <2> QED
    BY <1>1, <1>2, <1>3, <2>1, <2>2, Together DEF IInv, TypeOK, Read, input, database
<1>4. CASE Replace(h)
  <2>1. PICK m \in flight[h] \ (inserting[h] \cup done[h]), i \in 1 .. Len(docs[h]) :
            /\ docs' = [docs EXCEPT ![h][i] = m]
            /\ written' = [written EXCEPT ![h] = @ \cup {m}]
            /\ done' = [done EXCEPT ![h] = @ \cup {m}]
    BY <1>4 DEF Replace
  <2>2. docs' \in [Hosts -> Seq(Nat)]
    <3>1. docs[h] \in Seq(Nat) /\ m \in Nat
      BY DEF IInv, TypeOK
    <3>2. [docs[h] EXCEPT ![i] = m] \in Seq(Nat)
      BY <3>1
    <3> QED
      BY <2>1, <3>2 DEF IInv, TypeOK
  <2>3. RecordsTyped'
    BY <1>1, <1>4, <2>1, <2>2 DEF IInv, TypeOK, RecordsTyped, Replace, input
  <2>4. WrittenFirst(h)'
    BY <1>1, <1>4, <2>1 DEF IInv, TypeOK, WrittenFirst, Replace, input
  <2> QED
    BY <1>1, <1>2, <1>4, <2>1, <2>3, <2>4, Together DEF IInv, TypeOK, Replace, input
<1>5. CASE FindNone(h)
  <2>1. RecordsTyped'
    BY <1>1, <1>5 DEF IInv, TypeOK, RecordsTyped, FindNone, input, database
  <2>2. WrittenFirst(h)'
    BY <1>1, <1>5 DEF IInv, TypeOK, WrittenFirst, FindNone, input, database
  <2> QED
    BY <1>1, <1>2, <1>5, <2>1, <2>2, Together DEF IInv, TypeOK, FindNone, input, database
<1>6. CASE Insert(h)
  <2>1. PICK m \in inserting[h] :
            /\ docs' = [docs EXCEPT ![h] = Append(@, m)]
            /\ written' = [written EXCEPT ![h] = @ \cup {m}]
            /\ inserting' = [inserting EXCEPT ![h] = @ \ {m}]
            /\ done' = [done EXCEPT ![h] = @ \cup {m}]
    BY <1>6 DEF Insert
  <2>2. RecordsTyped'
    BY <1>1, <1>6, <2>1 DEF IInv, TypeOK, RecordsTyped, Insert, input
  <2>3. WrittenFirst(h)'
    BY <1>1, <1>6, <2>1 DEF IInv, TypeOK, WrittenFirst, Insert, input
  <2> QED
    BY <1>1, <1>2, <1>6, <2>1, <2>2, <2>3, Together DEF IInv, TypeOK, Insert, input
<1> QED
  BY <1>3, <1>4, <1>5, <1>6

LEMMA AnswerKeeps ==
    ASSUME IInv, NEW h \in Hosts, Ack(h) \/ Reject(h)
    PROVE  IInv'
<1>1. UNCHANGED <<input, database, dashboard>> /\ failures' \in Nat
  BY DEF Ack, Reject, Failure, IInv, TypeOK
<1>2. PICK m \in flight[h] :
          /\ Leaves(h, m)
          /\ UNCHANGED acked \/ (m \in done[h] /\ acked' = [acked EXCEPT ![h] = @ \cup {m}])
  BY DEF Ack, Reject, IInv, WrittenFirst
<1>3. acked' \in [Hosts -> SUBSET Nat]
  <2>1. acked \in [Hosts -> SUBSET Nat] /\ m \in Nat
    BY DEF IInv, TypeOK
  <2>2. [acked EXCEPT ![h] = @ \cup {m}] \in [Hosts -> SUBSET Nat]
    BY <2>1
  <2> QED
    BY <1>2, <2>1, <2>2
<1>4. RecordsTyped'
  BY <1>1, <1>2, <1>3 DEF IInv, TypeOK, RecordsTyped, Leaves, input, database
<1>5. StreamKeeps(h)'
  BY <1>1, StreamSame
<1>6. WrittenFirst(h)'
  BY <1>1, <1>2 DEF IInv, TypeOK, WrittenFirst, Leaves, input, database
<1> QED
  BY <1>1, <1>2, <1>4, <1>5, <1>6, Together DEF IInv, TypeOK, Leaves, input, database

\* A restart leaves what was acknowledged.
LEMMA RestartKeeps ==
    ASSUME IInv, ProcessorRestarts
    PROVE  IInv'
<1>1. UNCHANGED <<input, acked, database, dashboard>> /\ failures' \in Nat
  BY DEF ProcessorRestarts, Failure, IInv, TypeOK
<1>2. RecordsTyped'
  BY <1>1 DEF ProcessorRestarts, Each, IInv, TypeOK, RecordsTyped, input, database
<1>3. DashboardTyped'
  <2>1. DashboardTyped
    BY Typing DEF IInv
  <2> QED
    BY <2>1, <1>1, Zenon DEF DashboardTyped, dashboard
<1>4. ASSUME NEW h \in Hosts PROVE StreamKeeps(h)' /\ WrittenFirst(h)'
  <2>1. StreamKeeps(h)'
    BY <1>1, StreamSame
  <2>2. WrittenFirst(h)'
    BY <1>1 DEF ProcessorRestarts, Each, IInv, WrittenFirst, input, database
  <2> QED
    BY <2>1, <2>2
<1> QED
  BY <1>2, <1>3, <1>4, Whole

\* IInv is inductive.
LEMMA Inductive == IInv /\ [Next]_vars => IInv'
<1> SUFFICES ASSUME IInv, [Next]_vars PROVE IInv'
  OBVIOUS
<1>1. ASSUME NEW h \in Hosts, Arrive(h) \/ Expire(h) PROVE IInv'
  BY <1>1, ArriveKeeps, ExpireKeeps
<1>2. ASSUME NEW h \in Hosts,
             \/ Read(h) \/ Replace(h) \/ FindNone(h) \/ Insert(h) \/ Ack(h) \/ Reject(h)
      PROVE  IInv'
  BY <1>2, WorkKeeps, AnswerKeeps
<1>3. ASSUME NEW r \in Requests, Refresh(r) \/ Query(r) \/ Show(r) \/ ShowError(r) PROVE IInv'
  BY <1>3, DashboardKeeps
<1>4. CASE UNCHANGED vars
  <2>1. RecordsTyped' /\ DashboardTyped'
    <3>1. RecordsTyped /\ DashboardTyped
      BY Typing DEF IInv
    <3>2. RecordsTyped'
      BY <3>1, <1>4 DEF RecordsTyped, vars, input, processor, database
    <3>3. DashboardTyped'
      BY <3>1, <1>4, Zenon DEF DashboardTyped, vars, dashboard
    <3> QED
      BY <3>2, <3>3
  <2>2. ASSUME NEW h \in Hosts PROVE StreamKeeps(h)' /\ WrittenFirst(h)'
    BY <1>4, Untouched DEF IInv, vars, input, processor, database
  <2> QED
    BY <2>1, <2>2, Whole
<1> QED
  BY <1>1, <1>2, <1>3, <1>4, RestartKeeps DEF Next

\* Every behaviour of NodeRecords satisfies its inductive invariant.
THEOREM NodeRecordsInvariant == Spec => []IInv
<1> QED
  BY Initially, Inductive, PTL DEF Spec

\* The processor (nodes.yaml) forgets no registration, with any number of
\* failures and restarts.
THEOREM RegistrationsKept == Spec => []NothingForgotten
<1>1. IInv => NothingForgotten
  BY DEF IInv, StreamKeeps, WrittenFirst, NothingForgotten
<1> QED
  BY <1>1, NodeRecordsInvariant, PTL

-----------------------------------------------------------------------------
\* What is backed stays so while documents are neither removed nor forgotten.
LEMMA BackedStays ==
    ASSUME NEW h \in Hosts, NEW s \in Seq(Nat), Backed(h, s),
           Len(docs[h]) \in Nat, Len(docs'[h]) \in Nat,
           Len(docs[h]) <= Len(docs'[h]), written[h] \subseteq written'[h]
    PROVE  Len(s) <= Len(docs'[h]) /\ \A i \in 1 .. Len(s) : s[i] \in written'[h]
  BY DEF Backed

\* The typing of what DocumentedInv speaks of.
LEMMA Sequences ==
    ASSUME TypeOK
    PROVE  /\ docs \in [Hosts -> Seq(Nat)] /\ page \in [Hosts -> Seq(Nat)]
           /\ \A r \in Requests : reply[r] \in [Hosts -> Seq(Nat)]
           /\ request \in [Requests -> {"idle", "asked", "answered"}]
           /\ written \in [Hosts -> SUBSET Nat]
  BY DEF TypeOK

LEMMA InitDocumented == Init => DocumentedInv
<1> SUFFICES ASSUME Init, NEW h \in Hosts PROVE Documented(h)
  BY DEF DocumentedInv
<1>1. /\ docs[h] = << >> /\ page[h] = << >> /\ written[h] = {}
      /\ \A r \in Requests : reply[r][h] = << >>
  BY DEF Init, Each
<1> QED
  BY <1>1 DEF Documented, Backed

\* The data base only gains documents, and every one it writes is of a
\* registration it has written.
Gains(h) ==
    /\ Len(docs[h]) <= Len(docs'[h]) /\ written[h] \subseteq written'[h]
    /\ \A i \in 1 .. Len(docs'[h]) :
          docs'[h][i] \in written'[h] \/ (i <= Len(docs[h]) /\ docs'[h][i] = docs[h][i])
    /\ written'[h] # written[h] => docs'[h] # << >>

LEMMA DocumentsGrow ==
    ASSUME TypeOK, [Next]_vars, NEW h \in Hosts
    PROVE  Gains(h)
<1>t. docs \in [Hosts -> Seq(Nat)] /\ written \in [Hosts -> SUBSET Nat]
  BY Sequences
<1>s. docs[h] \in Seq(Nat) /\ Len(docs[h]) \in Nat
  BY <1>t
<1>1. ASSUME docs'[h] = docs[h], written'[h] = written[h]
      PROVE  Gains(h)
  BY <1>s, <1>1 DEF Gains
<1>2. ASSUME NEW k \in Hosts, Replace(k)
      PROVE  Gains(h)
  <2>1. PICK m \in flight[k], i \in 1 .. Len(docs[k]) :
           /\ docs' = [docs EXCEPT ![k][i] = m]
           /\ written' = [written EXCEPT ![k] = @ \cup {m}]
    BY <1>2 DEF Replace
  <2>2. CASE k # h
    BY <1>t, <1>1, <2>1, <2>2
  <2>3. CASE k = h
    <3>1. docs'[h] = [docs[h] EXCEPT ![i] = m] /\ written'[h] = written[h] \cup {m}
      BY <1>t, <2>1, <2>3
    <3>2. m \in Nat
      BY DEF TypeOK
    <3>3. docs'[h] \in Seq(Nat) /\ Len(docs'[h]) = Len(docs[h]) /\ docs'[h] # << >>
      BY <1>s, <2>1, <2>3, <3>1, <3>2
    <3>4. \A j \in 1 .. Len(docs[h]) : docs'[h][j] = IF j = i THEN m ELSE docs[h][j]
      BY <1>s, <3>1
    <3> QED
      BY <1>s, <3>1, <3>3, <3>4 DEF Gains
  <2> QED
    BY <2>2, <2>3
<1>3. ASSUME NEW k \in Hosts, Insert(k)
      PROVE  Gains(h)
  <2>1. PICK m \in inserting[k] :
           /\ docs' = [docs EXCEPT ![k] = Append(@, m)]
           /\ written' = [written EXCEPT ![k] = @ \cup {m}]
    BY <1>3 DEF Insert
  <2>2. CASE k # h
    BY <1>t, <1>1, <2>1, <2>2
  <2>3. CASE k = h
    <3>1. docs'[h] = Append(docs[h], m) /\ written'[h] = written[h] \cup {m}
      BY <1>t, <2>1, <2>3
    <3>2. m \in Nat
      BY DEF TypeOK
    <3>3. /\ Len(docs'[h]) = Len(docs[h]) + 1 /\ docs'[h] # << >>
          /\ \A j \in 1 .. Len(docs'[h]) :
                docs'[h][j] = IF j = Len(docs[h]) + 1 THEN m ELSE docs[h][j]
      BY <1>s, <3>1, <3>2
    <3> QED
      BY <1>s, <3>1, <3>3 DEF Gains
  <2> QED
    BY <2>2, <2>3
<1>4. CASE UNCHANGED <<docs, written>>
  BY <1>1, <1>4
<1> QED
  BY <1>2, <1>3, <1>4
  DEF Next, vars, database, ProcessorRestarts, Arrive, Expire, Read, FindNone, Ack, Reject,
      Refresh, Query, Show, ShowError

\* A page or an answer is one that was there, the documents, or empty.
LEMMA PageFrom ==
    ASSUME TypeOK, [Next]_vars, NEW h \in Hosts
    PROVE  /\ page'[h] = page[h] \/ \E r \in Requests : page'[h] = reply[r][h]
           /\ \A r \in Requests : reply'[r][h] \in {reply[r][h], docs[h], << >>}
<1> DEFINE Fate == /\ page'[h] = page[h] \/ \E r \in Requests : page'[h] = reply[r][h]
                   /\ \A r \in Requests : reply'[r][h] \in {reply[r][h], docs[h], << >>}
<1>1. ASSUME NEW q \in Requests, Refresh(q) \/ Query(q) \/ Show(q) \/ ShowError(q)
      PROVE  Fate
  <2>1. page' = page \/ page' = reply[q]
    BY <1>1 DEF Refresh, Query, Show, ShowError
  <2>2. \/ reply' = reply
        \/ reply' = [reply EXCEPT ![q] = docs]
        \/ reply' = [reply EXCEPT ![q] = Each(<< >>)]
    BY <1>1 DEF Refresh, Query, Show, ShowError, Finish
  <2>3. Each(<< >>)[h] = << >>
    BY DEF Each
  <2>4. \A r \in Requests : reply'[r] \in {reply[r], docs, Each(<< >>)}
    BY <2>2 DEF TypeOK
  <2> QED
    BY <2>1, <2>3, <2>4
<1>2. CASE UNCHANGED <<page, reply>>
  BY <1>2
<1> QED
  BY <1>1, <1>2
  DEF Next, vars, dashboard, ProcessorRestarts, Arrive, Expire, Read, Replace, FindNone,
      Insert, Ack, Reject

\* DocumentedInv is inductive relative to the types.
LEMMA StepDocumented ==
    ASSUME TypeOK, TypeOK', DocumentedInv, [Next]_vars
    PROVE  DocumentedInv'
<1> SUFFICES ASSUME NEW h \in Hosts PROVE Documented(h)'
  BY DEF DocumentedInv
<1>d. Documented(h)
  BY DEF DocumentedInv
<1>t. /\ docs[h] \in Seq(Nat) /\ docs'[h] \in Seq(Nat) /\ page[h] \in Seq(Nat)
      /\ \A r \in Requests : reply[r][h] \in Seq(Nat)
      /\ Len(docs[h]) \in Nat /\ Len(docs'[h]) \in Nat
  BY DEF TypeOK
<1>g. Gains(h)
  BY DocumentsGrow
<1>b. ASSUME NEW s \in Seq(Nat), Backed(h, s)
      PROVE  Len(s) <= Len(docs'[h]) /\ \A i \in 1 .. Len(s) : s[i] \in written'[h]
  BY <1>b, <1>g, <1>t, BackedStays DEF Gains
<1>e. << >> \in Seq(Nat) /\ Backed(h, << >>)
  BY <1>t DEF Backed
<1>1. written'[h] # {} => docs'[h] # << >>
  <2>1. CASE written'[h] = written[h]
    BY <2>1, <1>d, <1>g, <1>t DEF Documented, Gains
  <2>2. CASE written'[h] # written[h]
    BY <2>2, <1>g DEF Gains
  <2> QED
    BY <2>1, <2>2
<1>2. \A i \in 1 .. Len(docs'[h]) : docs'[h][i] \in written'[h]
  BY <1>d, <1>g, <1>t DEF Documented, Gains, Backed
<1>3. /\ Len(page'[h]) <= Len(docs'[h])
      /\ \A i \in 1 .. Len(page'[h]) : page'[h][i] \in written'[h]
  <2>1. page'[h] \in Seq(Nat) /\ Backed(h, page'[h])
    BY <1>d, <1>t, PageFrom DEF Documented
  <2> QED
    BY <2>1, <1>b
<1>4. ASSUME NEW r \in Requests
      PROVE  /\ Len(reply'[r][h]) <= Len(docs'[h])
             /\ \A i \in 1 .. Len(reply'[r][h]) : reply'[r][h][i] \in written'[h]
  <2>1. reply'[r][h] \in Seq(Nat) /\ Backed(h, reply'[r][h])
    BY <1>d, <1>e, <1>t, PageFrom DEF Documented
  <2> QED
    BY <2>1, <1>b
<1> QED
  BY <1>1, <1>2, <1>3, <1>4, <1>t DEF Documented, Backed

\* Whatever the processor (nodes.yaml) repeats and however the answers to the
\* page (main.go) overlap: no document vanishes, and the page shows nothing that
\* was not registered.
THEOREM DocumentsAreReal == Spec => []NothingMadeUp
<1>1. IInv => TypeOK
  BY DEF IInv
<1>2. DocumentedInv => NothingMadeUp
  BY DEF DocumentedInv, Documented, NothingMadeUp
<1>3. Spec => []DocumentedInv
  BY <1>1, InitDocumented, StepDocumented, NodeRecordsInvariant, PTL DEF Spec
<1> QED
  BY <1>2, <1>3, PTL
=============================================================================
