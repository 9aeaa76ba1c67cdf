----------------------------- MODULE ReadyQueue -----------------------------
(***************************************************************************)
(* The intrusive multi-producer single-consumer ready queue                *)
(* (src/wepoll_ex_pool.c), one action per access to shared memory;         *)
(* ReadyNodes puts the actions together with the pool of the nodes.  A     *)
(* producer exchanges head and only then links the node behind its         *)
(* predecessor; in between the chain is broken.  The consumer owns tail,   *)
(* and appends the permanent stub before it takes the last node.           *)
(***************************************************************************)
EXTENDS Integers, Sequences, FiniteSets, SequencesExt

CONSTANTS Producers, Nodes, Stub, None

ASSUME StubFresh == Stub \notin Nodes /\ None \notin Nodes \cup {Stub}

Cells == Nodes \cup {Stub}

VARIABLES
    initialized,  \* q->initialized
    next,         \* node->next
    head,         \* q->head
    tail,         \* q->tail, consumer only
    queued,       \* q->queued
    busy,         \* nodes a producer has taken from the pool and nobody gave back
    ppc, pnode, pprev,          \* per producer: place in ep_ready_link, node, prev
    cpc, ctail, cnext, cprev,   \* the consumer's place and locals in ep_ready_pop_one
    out           \* the node ep_ready_pop_one returned last

qvars == <<initialized, head, tail, queued, busy>>
pvars == <<ppc, pnode, pprev>>
cvars == <<cpc, ctail, cnext, cprev>>
vars  == <<qvars, next, pvars, cvars, out>>

(* ep_ready_init *)
Init ==
    /\ initialized = TRUE
    /\ next = [c \in Cells |-> None]
    /\ head = Stub
    /\ tail = Stub
    /\ queued = 0
    /\ busy = {}
    /\ ppc = [p \in Producers |-> "idle"]
    /\ pnode = [p \in Producers |-> None]
    /\ pprev = [p \in Producers |-> None]
    /\ cpc = "idle"
    /\ ctail = None
    /\ cnext = None
    /\ cprev = None
    /\ out = None

----------------------------------------------------------------------------
(* ep_ready_push of a node from the pool: ep_ready_link clears the node's  *)
(* next, counts it, exchanges head and publishes the link.                 *)
PushStart(p, n) ==
    /\ initialized
    /\ ppc[p] = "idle"
    /\ n \notin busy
    /\ busy' = busy \cup {n}
    /\ next' = [next EXCEPT ![n] = None]
    /\ ppc' = [ppc EXCEPT ![p] = "count"]
    /\ pnode' = [pnode EXCEPT ![p] = n]
    /\ UNCHANGED <<initialized, head, tail, queued, pprev, cvars, out>>

PushCount(p) ==
    /\ ppc[p] = "count"
    /\ queued' = queued + 1
    /\ ppc' = [ppc EXCEPT ![p] = "exchange"]
    /\ UNCHANGED <<initialized, next, head, tail, busy, pnode, pprev, cvars, out>>

PushExchange(p) ==
    /\ ppc[p] = "exchange"
    /\ pprev' = [pprev EXCEPT ![p] = head]
    /\ head' = pnode[p]
    /\ ppc' = [ppc EXCEPT ![p] = "link"]
    /\ UNCHANGED <<initialized, next, tail, queued, busy, pnode, cvars, out>>

PushLink(p) ==
    /\ ppc[p] = "link"
    /\ next' = [next EXCEPT ![pprev[p]] = pnode[p]]
    /\ ppc' = [ppc EXCEPT ![p] = "idle"]
    /\ UNCHANGED <<qvars, pnode, pprev, cvars, out>>

Producer(p) == PushCount(p) \/ PushExchange(p) \/ PushLink(p)

----------------------------------------------------------------------------
(* Where ep_ready_pop_one goes once tail->next has been read as n. *)
AfterNext(n) == IF n # None THEN "advance" ELSE "load_head"

(* ep_ready_pop_one: read tail and tail->next; step over the stub. *)
PopStart ==
    LET n == next[tail]
    IN  /\ initialized
        /\ cpc = "idle"
        /\ IF tail = Stub
           THEN /\ n # None          \* otherwise the queue is empty
                /\ tail' = n
                /\ ctail' = n
                /\ cnext' = None
                /\ cpc' = "reload"
           ELSE /\ tail' = tail
                /\ ctail' = tail
                /\ cnext' = n
                /\ cpc' = AfterNext(n)
        /\ UNCHANGED <<initialized, next, head, queued, busy, pvars, cprev, out>>

PopReload ==
    /\ cpc = "reload"
    /\ cnext' = next[ctail]
    /\ cpc' = AfterNext(next[ctail])
    /\ UNCHANGED <<qvars, next, pvars, ctail, cprev, out>>

(* tail->next is still empty: the node is the last one only if head says   *)
(* so, otherwise a producer is between its exchange and its link.          *)
MutPopLoadHead ==    \* mutant: a successor not linked yet is taken for the end
    /\ cpc = "load_head"
    /\ cpc' = "stub_clear"
    /\ UNCHANGED <<qvars, next, pvars, ctail, cnext, cprev, out>>
PopLoadHead ==
    /\ cpc = "load_head"
    /\ cpc' = IF ctail # head THEN "idle" ELSE "stub_clear"
    /\ UNCHANGED <<qvars, next, pvars, ctail, cnext, cprev, out>>

(* ep_ready_link(q, q->stub, 0): the same three accesses, not counted *)
StubClear ==
    /\ cpc = "stub_clear"
    /\ next' = [next EXCEPT ![Stub] = None]
    /\ cpc' = "stub_exchange"
    /\ UNCHANGED <<qvars, pvars, ctail, cnext, cprev, out>>

StubExchange ==
    /\ cpc = "stub_exchange"
    /\ cprev' = head
    /\ head' = Stub
    /\ cpc' = "stub_link"
    /\ UNCHANGED <<initialized, next, tail, queued, busy, pvars, ctail, cnext, out>>

StubLink ==
    /\ cpc = "stub_link"
    /\ next' = [next EXCEPT ![cprev] = Stub]
    /\ cpc' = "last"
    /\ UNCHANGED <<qvars, pvars, ctail, cnext, cprev, out>>

(* A producer may have slipped in front of the stub without linking yet. *)
MutPopLast ==    \* mutant: the stub is taken for the successor of the node
    /\ cpc = "last"
    /\ cnext' = Stub
    /\ cpc' = "advance"
    /\ UNCHANGED <<qvars, next, pvars, ctail, cprev, out>>
PopLast ==
    /\ cpc = "last"
    /\ cnext' = next[ctail]
    /\ cpc' = IF next[ctail] = None THEN "idle" ELSE "advance"
    /\ UNCHANGED <<qvars, next, pvars, ctail, cprev, out>>

PopAdvance ==
    /\ cpc = "advance"
    /\ tail' = cnext
    /\ next' = [next EXCEPT ![ctail] = None]
    /\ out' = ctail
    /\ cpc' = "account"
    /\ UNCHANGED <<initialized, head, queued, busy, pvars, ctail, cnext, cprev>>

(* ep_ready_account_pop; the caller then gives the node back to its pool   *)
(* (ep_ready_node_free).                                                   *)
PopAccount ==
    /\ cpc = "account"
    /\ queued' = IF queued > 0 THEN queued - 1 ELSE 0
    /\ busy' = busy \ {ctail}
    /\ cpc' = "idle"
    /\ UNCHANGED <<initialized, next, head, tail, pvars, ctail, cnext, cprev, out>>

(* ep_ready_destroy: the caller has quiesced producers and consumer; a     *)
(* nonzero count is EBUSY.                                                 *)
Destroy ==
    /\ initialized
    /\ \A p \in Producers : ppc[p] = "idle"
    /\ cpc = "idle"
    /\ queued = 0
    /\ initialized' = FALSE
    /\ UNCHANGED <<next, head, tail, queued, busy, pvars, cvars, out>>

----------------------------------------------------------------------------
(* The cell that follows c once every started push has linked its node. *)
Successor(c) ==
    IF next[c] # None THEN next[c]
    ELSE IF \E p \in Producers : ppc[p] = "link" /\ pprev[p] = c
    THEN pnode[CHOOSE p \in Producers : ppc[p] = "link" /\ pprev[p] = c]
    ELSE IF cpc = "stub_link" /\ cprev = c THEN Stub ELSE None

(* The cells from tail to head. *)
Chain ==
    LET cell[i \in 0..Cardinality(Cells)] ==
            IF i = 0 THEN tail
            ELSE IF cell[i-1] \in {head, None} THEN None
            ELSE Successor(cell[i-1])
        len == CHOOSE i \in 0..Cardinality(Cells) :
                    /\ cell[i] \in {head, None}
                    /\ \A j \in 0..(i-1) : cell[j] \notin {head, None}
    IN  [i \in 1..(len + 1) |-> cell[i-1]]

Fifo == SelectSeq(Chain, LAMBDA c : c \in Nodes)

Abstract == INSTANCE ReadyFifo WITH fifo <- Fifo

(* A node the consumer has returned to the pool is no longer a possible    *)
(* predecessor of any push: no producer is still going to write its next.  *)
(* This is the hand-off through the stub that makes immediate reuse of     *)
(* the node safe.                                                          *)
ReturnedNodeNotWritable ==
    \A p \in Producers : ppc[p] = "link" =>
        \/ pprev[p] = Stub
        \/ /\ pprev[p] \in ToSet(Fifo)
           /\ \A r \in Producers : ppc[r] \in {"count", "exchange"} => pnode[r] # pprev[p]

(* The queue implements a FIFO that loses and duplicates nothing, orders   *)
(* nodes by the exchange of head, and is eventually drained.               *)
ImplementsFifo == Abstract!Spec
=============================================================================
