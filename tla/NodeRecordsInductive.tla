------------------------- MODULE NodeRecordsInductive --------------------------
(***************************************************************************)
(* The inductive invariant behind NothingForgotten.  It is a module of its *)
(* own so that TLC can check it and the proofs can use it.                 *)
(***************************************************************************)
EXTENDS NodeRecords

\* The stream has what has arrived and was not dropped, newer than what is aged.
StreamKeeps(h) ==
    /\ stream[h] \subseteq 1 .. sent[h] /\ aged[h] <= sent[h]
    /\ \A m \in stream[h] : m > aged[h]
    /\ 1 .. sent[h] \subseteq stream[h] \cup Dropped(h)

\* What the processor has done or acknowledged was written.
WrittenFirst(h) ==
    /\ done[h] \subseteq written[h] /\ acked[h] \subseteq written[h]
    /\ inserting[h] \subseteq flight[h] \ done[h]
    /\ done[h] \subseteq flight[h]
    /\ written[h] \subseteq 1 .. sent[h] /\ flight[h] \subseteq 1 .. sent[h]

\* What the data base has and what the page shows, or is about to show, is backed.
Documented(h) ==
    /\ written[h] # {} => docs[h] # << >>
    /\ Backed(h, docs[h]) /\ Backed(h, page[h])
    /\ \A r \in Requests : Backed(h, reply[r][h])

IInv == TypeOK /\ \A h \in Hosts : StreamKeeps(h) /\ WrittenFirst(h)

DocumentedInv == \A h \in Hosts : Documented(h)
=============================================================================
