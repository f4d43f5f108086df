-------------------------------- MODULE Rollout --------------------------------
(***************************************************************************)
(* What a site promises about the desired states its back-end releases,    *)
(* without buckets, replicators, polls or copies.  The site and its nodes  *)
(* only advance, a node no further than its site; a process brings its     *)
(* node to nothing older than what the site had when it began.  A reset is *)
(* the only way back: it leads to nothing, for the machine that is reset   *)
(* and, if that is the leader, for the site.                               *)
(***************************************************************************)
EXTENDS Naturals

CONSTANT Node  \* the managed nodes of a site

VARIABLES
    newest,  \* the newest desired state that was released
    site,    \* the one the site has, 0 for none
    node,    \* the one each node was last brought to
    known,   \* what the site had when the node's process began
    head     \* the machine that leads the site, a node or not; always the same

vars == <<newest, site, node, known, head>>

Init ==
    /\ newest = 0 /\ site = 0
    /\ node = [n \in Node |-> 0] /\ known = [n \in Node |-> 0]

Release == newest' = newest + 1 /\ UNCHANGED <<site, node, known>>

\* What was released in between may be skipped; no node is left ahead.
Sync ==
    /\ \E v \in 1 .. newest :
          /\ v > site /\ \A n \in Node : node[n] <= v
          /\ site' = v
    /\ UNCHANGED <<newest, node, known>>

\* A site that was emptied has nodes that still hold what it had.
Newer == IF site = 0 THEN newest ELSE site

Bring(n) ==
    /\ \E v \in 1 .. Newer :
          /\ v >= node[n] /\ v >= known[n]
          /\ node' = [node EXCEPT ![n] = v]
    /\ UNCHANGED <<newest, site, known>>

Restart(n) ==
    /\ known' = [known EXCEPT ![n] = site]
    /\ UNCHANGED <<newest, site, node>>

Clear(n) ==
    /\ node' = [node EXCEPT ![n] = 0]
    /\ known' = [known EXCEPT ![n] = site']
    /\ UNCHANGED newest

\* Another machine than the leader is reset: neither the site nor anybody else
\* loses anything.
ClearNode(n) == n # head /\ Clear(n) /\ UNCHANGED site

\* The leader is reset, and with it the site; no other node loses anything.
ClearSite ==
    /\ site' = 0
    /\ IF head \in Node THEN Clear(head) ELSE UNCHANGED <<newest, node, known>>

Next ==
    /\ UNCHANGED head
    /\ \/ Release \/ Sync \/ ClearSite
       \/ \E n \in Node : Bring(n) \/ Restart(n) \/ ClearNode(n)

Spec == Init /\ [][Next]_vars
=============================================================================
