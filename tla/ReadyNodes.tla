----------------------------- MODULE ReadyNodes -----------------------------
(***************************************************************************)
(* The ready queue and the pool its nodes come from, together              *)
(* (src/wepoll_ex_pool.c, with the order in which src/wepoll_ex_port.c     *)
(* creates and destroys them).  The pool hands out the buffer that was     *)
(* given back last, so the node a consumer has just popped is the next one *)
(* a producer writes to: the worst reuse the queue can meet.               *)
(***************************************************************************)
EXTENDS ReadyQueue

CONSTANT capacity      \* of the port's ready_node_pool

ASSUME CapacityPositive == capacity \in Nat \ {0}

VARIABLES pool_initialized, all_entries, stack, in_pool, in_use, peak, allocated, holds

poolVars == <<pool_initialized, all_entries, stack, in_pool, in_use, peak, allocated, holds>>
allVars  == <<vars, poolVars>>

Pool == INSTANCE AfdPool WITH
            Addresses <- Nodes, Users <- {"port"}, initialized <- pool_initialized

(* ep_port_create: the queue first, then the pool *)
StorageInit == Init /\ Pool!Init
CreatePool ==
    /\ initialized
    /\ \/ \E E \in [1..capacity -> Nodes] : IsInjective(E) /\ Pool!PoolInit(E)
       \/ Pool!PoolInitFails
    /\ UNCHANGED vars

(* ep_ready_node_alloc and ep_ready_push.  A node is taken from the stack, *)
(* or the pool grows; a buffer fresh from malloc is none that is in use.   *)
Push(p) ==
    \E n \in Nodes :
        /\ \/ stack # <<>> /\ n = Head(stack) /\ Pool!Take("port")
           \/ Pool!TakeGrows("port", n)
        /\ PushStart(p, n)

(* ep_drain_to_buffer: ep_ready_node_free once the node is copied *)
PopFree == PopAccount /\ Pool!Give(ctail)

PopStep ==
    /\ \/ PopStart \/ PopReload \/ PopLoadHead \/ StubClear \/ StubExchange \/ StubLink
       \/ PopLast \/ PopAdvance
    /\ UNCHANGED poolVars

(* ep_port_finish_destroy: the queue, then the pool *)
DestroyQueue == Destroy /\ UNCHANGED poolVars
DestroyPool  == ~initialized /\ Pool!PoolDestroy /\ UNCHANGED vars

StorageNext ==
    \/ CreatePool
    \/ \E p \in Producers : Push(p) \/ (Producer(p) /\ UNCHANGED poolVars)
    \/ PopStep \/ PopFree
    \/ DestroyQueue \/ DestroyPool

StorageSpec ==
    /\ StorageInit /\ [][StorageNext]_allVars
    /\ \A p \in Producers : WF_allVars(Producer(p) /\ UNCHANGED poolVars)
    /\ WF_allVars(PopStep \/ PopFree)

----------------------------------------------------------------------------
(* Every node of the queue, of a push that has begun and in the hands of   *)
(* the consumer is a buffer that is out of the pool, and every buffer that *)
(* is out is one of these: a node is never freed or handed out again while *)
(* the queue can still reach it, and none leaks.  Destroying the pool is   *)
(* never refused with EBUSY once the queue is destroyed.                   *)
NodesExclusive ==
    /\ Pool!BuffersExclusive
    /\ holds["port"] = busy
    /\ ToSet(Fifo) \cup {pnode[p] : p \in {q \in Producers : ppc[q] # "idle"}} \subseteq busy
    /\ ~initialized => in_use = 0
=============================================================================
