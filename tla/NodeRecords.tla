------------------------------ MODULE NodeRecords ------------------------------
(***************************************************************************)
(* The registrations of nodes at the back-end: from the stream             *)
(* MACHINE_ROOM_NODES through the example's nodes_processor into documents *)
(* of a data base, and on to the page of the example's dashboard.  The     *)
(* registrations of a host arrive in the order of Delivery and are         *)
(* numbered here as they arrive.                                           *)
(***************************************************************************)
EXTENDS Naturals, Sequences

CONSTANTS
    Hosts,        \* the hosts that register
    Keep,         \* the registrations the stream keeps of a host, max_msgs_per_subject
    Requests,     \* bound: requests of the page that are under way at a time
    MaxMessages,  \* bound: the registrations of a host
    MaxFailures   \* bound: calls that fail, and deaths of the processor

ASSUME NodeRecordsAssumption ==
    Keep \in Nat \ {0} /\ MaxMessages \in Nat /\ MaxFailures \in Nat

VARIABLES
    sent,       \* the registrations of each host that have arrived
    stream,     \* those the stream still has
    aged,       \* those up to this one have become older than max_age
    flight,     \* those the processor is working on
    inserting,  \* those in flight for which no document was found
    done,       \* those in flight for which the data base has answered
    acked,      \* those the processor has acknowledged
    docs,       \* the documents of each host, each the registration it was made of
    written,    \* the registrations that were made a document
    request,    \* the requests of the page: idle, asked or answered
    reply,      \* the documents a request was answered with, none before
    page,       \* the documents the page shows
    error,      \* it shows an error instead
    failures    \* the failures that have happened

input == <<sent, stream, aged>>
processor == <<flight, inserting, done, acked>>
database == <<docs, written>>
dashboard == <<request, reply, page, error>>
vars == <<input, processor, database, dashboard, failures>>

TypeOK ==
    /\ sent \in [Hosts -> Nat] /\ aged \in [Hosts -> Nat]
    /\ stream \in [Hosts -> SUBSET Nat]
    /\ flight \in [Hosts -> SUBSET Nat] /\ inserting \in [Hosts -> SUBSET Nat]
    /\ done \in [Hosts -> SUBSET Nat] /\ acked \in [Hosts -> SUBSET Nat]
    /\ written \in [Hosts -> SUBSET Nat]
    /\ docs \in [Hosts -> Seq(Nat)]
    /\ request \in [Requests -> {"idle", "asked", "answered"}]
    /\ reply \in [Requests -> [Hosts -> Seq(Nat)]]
    /\ page \in [Hosts -> Seq(Nat)]
    /\ error \in BOOLEAN
    /\ failures \in Nat

Each(v) == [h \in Hosts |-> v]

Init ==
    /\ sent = Each(0) /\ stream = Each({}) /\ aged = Each(0)
    /\ flight = Each({}) /\ inserting = Each({}) /\ done = Each({}) /\ acked = Each({})
    /\ docs = Each(<< >>) /\ written = Each({})
    /\ request = [r \in Requests |-> "idle"] /\ reply = [r \in Requests |-> docs]
    /\ page = docs /\ error = FALSE
    /\ failures = 0

Failure == failures < MaxFailures /\ failures' = failures + 1

-----------------------------------------------------------------------------
(* The stream. *)

Arrive(h) ==
    /\ sent[h] < MaxMessages
    /\ sent' = [sent EXCEPT ![h] = @ + 1]
    /\ stream' = [stream EXCEPT ![h] = {m \in @ \cup {sent[h] + 1} : m + Keep > sent[h] + 1}]
    /\ UNCHANGED <<aged, processor, database, dashboard, failures>>

Expire(h) ==
    /\ \E m \in stream[h] :
          /\ \A k \in stream[h] : m <= k
          /\ stream' = [stream EXCEPT ![h] = @ \ {m}]
          /\ aged' = [aged EXCEPT ![h] = m]
    /\ UNCHANGED <<sent, processor, database, dashboard, failures>>

-----------------------------------------------------------------------------
(* The processor.  It works on several messages at a time. *)

Read(h) ==
    /\ \E m \in stream[h] \ (acked[h] \cup flight[h]) : flight' = [flight EXCEPT ![h] = @ \cup {m}]
    /\ UNCHANGED <<input, inserting, done, acked, database, dashboard, failures>>

Replace_DeletesFirst(h) ==
    /\ docs[h] # << >>
    /\ \E m \in flight[h] \ (inserting[h] \cup done[h]) :
          inserting' = [inserting EXCEPT ![h] = @ \cup {m}]
    /\ docs' = [docs EXCEPT ![h] = Tail(@)]
    /\ UNCHANGED <<input, flight, done, acked, written, dashboard, failures>>

\* Upsert: a document that is found is replaced.
Replace(h) ==
    /\ \E m \in flight[h] \ (inserting[h] \cup done[h]), i \in 1 .. Len(docs[h]) :
          /\ docs' = [docs EXCEPT ![h][i] = m]
          /\ written' = [written EXCEPT ![h] = @ \cup {m}]
          /\ done' = [done EXCEPT ![h] = @ \cup {m}]
    /\ UNCHANGED <<input, flight, inserting, acked, dashboard, failures>>

\* Without one a document is inserted, by every call that has found none.
FindNone(h) ==
    /\ docs[h] = << >>
    /\ \E m \in flight[h] \ (inserting[h] \cup done[h]) :
          inserting' = [inserting EXCEPT ![h] = @ \cup {m}]
    /\ UNCHANGED <<input, flight, done, acked, database, dashboard, failures>>

Insert(h) ==
    /\ \E m \in inserting[h] :
          /\ docs' = [docs EXCEPT ![h] = Append(@, m)]
          /\ written' = [written EXCEPT ![h] = @ \cup {m}]
          /\ inserting' = [inserting EXCEPT ![h] = @ \ {m}]
          /\ done' = [done EXCEPT ![h] = @ \cup {m}]
    /\ UNCHANGED <<input, flight, acked, dashboard, failures>>

\* What message m leaves behind in the processor.
Leaves(h, m) ==
    /\ flight' = [flight EXCEPT ![h] = @ \ {m}]
    /\ inserting' = [inserting EXCEPT ![h] = @ \ {m}]
    /\ done' = [done EXCEPT ![h] = @ \ {m}]

Ack_First(h) ==
    /\ \E m \in flight[h] :
          /\ acked' = [acked EXCEPT ![h] = @ \cup {m}]
          /\ Leaves(h, m)
    /\ UNCHANGED <<input, database, dashboard, failures>>

\* A message is acknowledged after the data base has answered.
Ack(h) ==
    /\ \E m \in done[h] :
          /\ acked' = [acked EXCEPT ![h] = @ \cup {m}]
          /\ Leaves(h, m)
    /\ UNCHANGED <<input, database, dashboard, failures>>

Reject_Acks(h) ==
    /\ Failure
    /\ \E m \in flight[h] : Leaves(h, m) /\ acked' = [acked EXCEPT ![h] = @ \cup {m}]
    /\ UNCHANGED <<input, database, dashboard>>

\* A call fails or its answer or the acknowledgement is lost; the message is
\* delivered again.
Reject(h) ==
    /\ Failure
    /\ \E m \in flight[h] : Leaves(h, m)
    /\ UNCHANGED <<input, acked, database, dashboard>>

ProcessorRestarts_Forgets ==
    /\ Failure
    /\ flight' = Each({}) /\ inserting' = Each({}) /\ done' = Each({})
    /\ acked' = [h \in Hosts |-> acked[h] \cup flight[h]]
    /\ UNCHANGED <<input, database, dashboard>>

\* The processor dies and is started again; the durable consumer remembers what
\* was acknowledged.
ProcessorRestarts ==
    /\ Failure
    /\ flight' = Each({}) /\ inserting' = Each({}) /\ done' = Each({})
    /\ UNCHANGED <<input, acked, database, dashboard>>

-----------------------------------------------------------------------------
(* The dashboard. *)

\* The timer does not wait for the answer to an earlier request.
Refresh(r) ==
    /\ request[r] = "idle"
    /\ request' = [request EXCEPT ![r] = "asked"]
    /\ UNCHANGED <<input, processor, database, reply, page, error, failures>>

Query(r) ==
    /\ request[r] = "asked"
    /\ request' = [request EXCEPT ![r] = "answered"]
    /\ reply' = [reply EXCEPT ![r] = docs]
    /\ UNCHANGED <<input, processor, database, page, error, failures>>

Finish(r) ==
    /\ request' = [request EXCEPT ![r] = "idle"]
    /\ reply' = [reply EXCEPT ![r] = Each(<< >>)]

Show_KeepsError(r) ==
    /\ request[r] = "answered" /\ Finish(r)
    /\ page' = reply[r] /\ UNCHANGED error
    /\ UNCHANGED <<input, processor, database, failures>>

\* An answer without documents may be null, which the page cannot show.
Show(r) ==
    /\ request[r] = "answered" /\ Finish(r)
    /\ page' = reply[r]
    /\ error' = FALSE \/ (reply[r] = Each(<< >>) /\ error' = TRUE)
    /\ UNCHANGED <<input, processor, database, failures>>

ShowError(r) ==
    /\ request[r] # "idle" /\ Failure /\ Finish(r)
    /\ error' = TRUE
    /\ UNCHANGED <<input, processor, database, page>>

Next ==
    \/ ProcessorRestarts
    \/ \E h \in Hosts :
          \/ Arrive(h) \/ Expire(h)
          \/ Read(h) \/ Replace(h) \/ FindNone(h) \/ Insert(h) \/ Ack(h) \/ Reject(h)
    \/ \E r \in Requests : Refresh(r) \/ Query(r) \/ Show(r) \/ ShowError(r)

Spec == Init /\ [][Next]_vars

\* The processor reads, writes and acknowledges, the page is open and its timer
\* fires.  Nothing has to arrive, expire or fail.
Fairness ==
    /\ \A h \in Hosts :
          /\ WF_vars(Read(h)) /\ WF_vars(Replace(h) \/ FindNone(h))
          /\ WF_vars(Insert(h)) /\ WF_vars(Ack(h))
    /\ \A r \in Requests : WF_vars(Refresh(r)) /\ WF_vars(Query(r)) /\ WF_vars(Show(r))

FairSpec == Spec /\ Fairness

-----------------------------------------------------------------------------
(* Properties *)

\* What the limits of the stream have dropped.
Dropped(h) == {m \in 1 .. sent[h] : m <= aged[h] \/ m + Keep <= sent[h]}

\* Whatever fails, is repeated or dies in the processor (nodes.yaml): every
\* registration was written, or is still in the stream and not acknowledged,
\* or was dropped by the limits of the stream (nodes.json).
NothingForgotten ==
    \A h \in Hosts :
        1 .. sent[h] \subseteq written[h] \cup (stream[h] \ acked[h]) \cup Dropped(h)

\* Documents s are registrations of host h that were written, and no more of
\* them than the data base has.
Backed(h, s) ==
    /\ Len(s) <= Len(docs[h])
    /\ \A i \in 1 .. Len(s) : s[i] \in written[h]

\* Whatever is repeated, overtaken or answered late (nodes.yaml, main.go): a
\* host of which something was written has a document from then on, and the page
\* shows of every host only what it did register, never more documents than
\* there are.
NothingMadeUp ==
    \A h \in Hosts :
        /\ written[h] # {} => docs[h] # << >>
        /\ Backed(h, page[h])

\* The processor (nodes.yaml) brings a document to every registration that was
\* not written yet, or to a newer one, unless the stream dropped it for its age.
\* What was overtaken or is repeated may replace the document again later.
RecordReaches ==
    \A h \in Hosts : \A v \in 1 .. MaxMessages :
        sent[h] = v /\ v \notin written[h]
            ~> (\E i \in 1 .. Len(docs[h]) : docs[h][i] >= v) \/ aged[h] >= v \/ sent[h] > v

\* However requests overlap and however their answers are ordered (main.go),
\* when documents no longer change the page shows all of them in the end, and
\* an error that was shown goes away.
PageCatchesUp ==
    <>[](docs # Each(<< >>)) => <>[](page = docs /\ ~error)
=============================================================================
