------------------------------ MODULE AfdPool ------------------------------
(***************************************************************************)
(* The buffer pool a port takes its ready nodes from                       *)
(* (src/wepoll_ex_pool.c): a stack of preallocated entries that grows when *)
(* it is empty and frees entries only when the pool is destroyed.  Each    *)
(* operation holds the pool's mutex, so it is one action; initialisation,  *)
(* which nobody can see yet, fails as a whole.                             *)
(***************************************************************************)
EXTENDS Integers, Sequences, FiniteSets, SequencesExt, FiniteSetsExt

CONSTANTS
    Addresses,  \* what malloc can return
    Users,      \* who takes and gives buffers
    capacity    \* the argument of ep_afd_pool_init

VARIABLES
    initialized,  \* p->initialized
    all_entries,  \* the entries allocated and not freed, p->all_entries
    stack,        \* p->stack, its top first
    in_pool,      \* entries with entry->in_pool set
    in_use, peak, \* p->in_use, p->peak
    allocated,    \* p->allocated
    holds         \* the buffers each user was given (ghost: the callers' pointers)

vars == <<initialized, all_entries, stack, in_pool, in_use, peak, allocated, holds>>

Init ==
    /\ initialized = FALSE
    /\ all_entries = {} /\ stack = <<>> /\ in_pool = {}
    /\ in_use = 0 /\ peak = 0 /\ allocated = 0
    /\ holds = [u \in Users |-> {}]

(* ep_afd_pool_init; entry i was allocated i-th.  If an allocation fails,  *)
(* the entries before it are freed and the pool stays uninitialised.       *)
PoolInit(E) ==
    /\ ~initialized
    /\ initialized' = TRUE
    /\ all_entries' = ToSet(E) /\ stack' = Reverse(E) /\ in_pool' = ToSet(E)
    /\ in_use' = 0 /\ peak' = 0 /\ allocated' = capacity
    /\ UNCHANGED holds

PoolInitFails ==
    /\ ~initialized
    /\ all_entries' = {} /\ stack' = <<>> /\ in_pool' = {}
    /\ in_use' = 0 /\ peak' = 0 /\ allocated' = 0
    /\ UNCHANGED <<initialized, holds>>

(* The end of ep_afd_pool_take *)
Peak(now) == IF now > peak THEN now ELSE peak

Unpooled(e) == in_pool \ {e}

HandOut(u, e) ==
    /\ in_pool' = Unpooled(e)
    /\ in_use' = in_use + 1
    /\ peak' = Peak(in_use + 1)
    /\ holds' = [holds EXCEPT ![u] = @ \cup {e}]
    /\ UNCHANGED initialized

MutTake(u) ==    \* mutant: the buffer handed out stays on the stack
    /\ initialized /\ stack # <<>>
    /\ HandOut(u, Head(stack))
    /\ UNCHANGED <<all_entries, allocated, stack>>
Take(u) ==
    /\ initialized /\ stack # <<>>
    /\ stack' = Tail(stack)
    /\ HandOut(u, Head(stack))
    /\ UNCHANGED <<all_entries, allocated>>

(* Nothing is left: the pool grows beyond its capacity.  If that fails too *)
(* nothing changes.                                                        *)
MustGrow == stack = <<>>

TakeGrows(u, e) ==
    /\ initialized /\ MustGrow
    /\ e \notin all_entries
    /\ all_entries' = all_entries \cup {e}
    /\ allocated' = allocated + 1
    /\ HandOut(u, e)
    /\ UNCHANGED stack

(* ep_afd_pool_give.  An entry that is in the pool already is refused, as  *)
(* is one of another pool: nothing changes.                                *)
Accepts(e) == e \notin in_pool

Give(e) ==
    /\ initialized /\ Accepts(e)
    /\ in_pool' = in_pool \cup {e}
    /\ stack' = <<e>> \o stack
    /\ in_use' = IF in_use > 0 THEN in_use - 1 ELSE 0
    /\ holds' = [u \in Users |-> holds[u] \ {e}]
    /\ UNCHANGED <<initialized, all_entries, peak, allocated>>

(* ep_afd_pool_destroy is refused with EBUSY while a buffer is out. *)
PoolDestroy ==
    /\ initialized /\ in_use = 0
    /\ initialized' = FALSE
    /\ all_entries' = {} /\ stack' = <<>> /\ in_pool' = {} /\ allocated' = 0
    /\ UNCHANGED <<in_use, peak, holds>>

Next ==
    \/ \E E \in [1..capacity -> Addresses] : IsInjective(E) /\ PoolInit(E)
    \/ PoolInitFails
    \/ \E u \in Users : Take(u) \/ \E e \in Addresses : TakeGrows(u, e)
    \/ \E e \in all_entries : Give(e)
    \/ PoolDestroy

Spec == Init /\ [][Next]_vars

----------------------------------------------------------------------------
Out == UNION {holds[u] : u \in Users}

(* A buffer is on the stack once or with one user, never both or twice, so *)
(* no two ready nodes share storage, and a buffer given back twice is      *)
(* refused while it is in the pool; nothing that is out has been freed.    *)
BuffersExclusive ==
    /\ IsInjective(stack) /\ in_pool = ToSet(stack)
    /\ ToSet(stack) \cap Out = {} /\ ToSet(stack) \cup Out = all_entries
    /\ \A u, v \in Users : u # v => holds[u] \cap holds[v] = {}

=============================================================================
