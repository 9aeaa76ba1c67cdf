----------------------------- MODULE EpfdTable -----------------------------
(***************************************************************************)
(* The process-global table of virtual epoll descriptors                   *)
(* (src/wepoll_ex_api.c).  A small positive integer names an alias of a    *)
(* shared object that owns one port.  Every public operation holds a       *)
(* reference to the shared object while it runs; wepoll_close of the last  *)
(* alias wakes blocked operations, waits a bounded time for the references *)
(* to drain and then either destroys the port or hands that duty to the    *)
(* last operation (detached).                                              *)
(*                                                                         *)
(* g_epfd_lock protects table, nextFd, refs, aliases, closing and          *)
(* detached, so each critical section of the code is one action here; the  *)
(* steps between two critical sections of wepoll_close are separate        *)
(* actions and interleave with every other thread.                         *)
(***************************************************************************)
EXTENDS Integers, FiniteSets

CONSTANTS
    Threads,    \* threads that call the public API
    Shared,     \* identities of epfd_shared_t objects (never reused)
    MaxFd,      \* largest virtual descriptor; INT_MAX in the code
    None

ASSUME ThreadsFinite == IsFiniteSet(Threads)
ASSUME MaxFdPositive == MaxFd \in Nat \ {0}
ASSUME NoneFresh == None \notin Shared

Fds == 1..MaxFd

VARIABLES
    table,        \* g_epfd_buckets: descriptor -> shared object
    nextFd,       \* g_next_fd
    life,         \* whether the shared object and its port exist
    refs,         \* shared->refs
    aliases,      \* shared->aliases
    closing,      \* shared->closing
    detached,     \* shared->detached
    drained,      \* shared->refs_drained_event is signalled
    portClosing,  \* port->closing: blocked waits on the port return
    pc,           \* where each thread is
    arg           \* the shared object a thread works on

vars == <<table, nextFd, life, refs, aliases, closing, detached, drained,
          portClosing, pc, arg>>

(* "op" is a call that returns by itself; "wait" may block in the port     *)
(* until an event arrives or the port starts closing.                      *)
OpPcs     == {"op", "wait"}
ClosePcs  == {"begin_close", "check_refs", "close_wait", "relock"}
OwnerPcs  == ClosePcs \cup {"destroy"}
Pcs       == {"idle"} \cup OpPcs \cup OwnerPcs

Holders(s) == {t \in Threads : pc[t] \in OpPcs /\ arg[t] = s}
Owners(s)  == {t \in Threads : pc[t] \in OwnerPcs /\ arg[t] = s}
AliasSet(s) == {f \in Fds : table[f] = s}

Init ==
    /\ table = [f \in Fds |-> None]
    /\ nextFd = 1
    /\ life = [s \in Shared |-> "unborn"]
    /\ refs = [s \in Shared |-> 0]
    /\ aliases = [s \in Shared |-> 0]
    /\ closing = [s \in Shared |-> FALSE]
    /\ detached = [s \in Shared |-> FALSE]
    /\ drained = [s \in Shared |-> FALSE]
    /\ portClosing = [s \in Shared |-> FALSE]
    /\ pc = [t \in Threads |-> "idle"]
    /\ arg = [t \in Threads |-> None]

----------------------------------------------------------------------------
(* epfd_allocate_id_locked: the first unused number at or after g_next_fd, *)
(* wrapping from MaxFd to 1.                                               *)
FreeFds == {f \in Fds : table[f] = None}
Distance(f) == (f - nextFd) % MaxFd
AllocatesId(f) == f \in FreeFds /\ \A g \in FreeFds : Distance(f) <= Distance(g)
Successor(f) == IF f = MaxFd THEN 1 ELSE f + 1

(* epoll_create_ex and epfd_alloc *)
Create(t, s, f) ==
    /\ pc[t] = "idle"
    /\ life[s] = "unborn"
    /\ AllocatesId(f)
    /\ table' = [table EXCEPT ![f] = s]
    /\ nextFd' = Successor(f)
    /\ life' = [life EXCEPT ![s] = "live"]
    /\ aliases' = [aliases EXCEPT ![s] = 1]
    /\ UNCHANGED <<refs, closing, detached, drained, portClosing, pc, arg>>

(* An allocation failure, or no free number: the port is closed again      *)
(* before any thread can name it.                                          *)
CreateFails(t, s) ==
    /\ pc[t] = "idle"
    /\ life[s] = "unborn"
    /\ life' = [life EXCEPT ![s] = "freed"]
    /\ UNCHANGED <<table, nextFd, refs, aliases, closing, detached, drained,
                   portClosing, pc, arg>>

(* epfd_duplicate behind wepoll_ex_dup *)
Duplicate(t, fd, f) ==
    /\ pc[t] = "idle"
    /\ table[fd] # None
    /\ ~closing[table[fd]]
    /\ AllocatesId(f)
    /\ table' = [table EXCEPT ![f] = table[fd]]
    /\ nextFd' = Successor(f)
    /\ aliases' = [aliases EXCEPT ![table[fd]] = @ + 1]
    /\ UNCHANGED <<life, refs, closing, detached, drained, portClosing, pc, arg>>

(* epfd_acquire at the start of every public operation *)
Acquire(t, fd, kind) ==
    /\ pc[t] = "idle"
    /\ table[fd] # None
    /\ ~closing[table[fd]]
    /\ refs' = [refs EXCEPT ![table[fd]] = @ + 1]
    /\ pc' = [pc EXCEPT ![t] = kind]
    /\ arg' = [arg EXCEPT ![t] = table[fd]]
    /\ UNCHANGED <<table, nextFd, life, aliases, closing, detached, drained,
                   portClosing>>

(* The critical section of epfd_put: the last reference of a closing       *)
(* object either inherits the teardown or signals the closer.              *)
Put(t) ==
    LET s == arg[t]
        last == closing[s] /\ refs[s] = 1
    IN  /\ pc[t] \in OpPcs
        /\ refs' = [refs EXCEPT ![s] = @ - 1]
        /\ drained' = [drained EXCEPT ![s] = @ \/ (last /\ ~detached[s])]
        /\ pc' = [pc EXCEPT ![t] =
                      IF last /\ detached[s] THEN "destroy" ELSE "idle"]
        /\ UNCHANGED <<table, nextFd, life, aliases, closing, detached,
                       portClosing, arg>>

(* epfd_destroy *)
Destroy(t) ==
    /\ pc[t] = "destroy"
    /\ life' = [life EXCEPT ![arg[t]] = "freed"]
    /\ portClosing' = [portClosing EXCEPT ![arg[t]] = TRUE]
    /\ pc' = [pc EXCEPT ![t] = "idle"]
    /\ UNCHANGED <<table, nextFd, refs, aliases, closing, detached, drained, arg>>

LastAlias(s) == aliases[s] = 1

(* wepoll_close, first critical section: unlink the number.  Only the      *)
(* last alias starts the close of the port.                                *)
CloseUnlink(t, fd) ==
    LET s == table[fd]
        final == LastAlias(s)
    IN  /\ pc[t] = "idle"
        /\ s # None
        /\ ~closing[s]
        /\ table' = [table EXCEPT ![fd] = None]
        /\ aliases' = [aliases EXCEPT ![s] = @ - 1]
        /\ closing' = [closing EXCEPT ![s] = final]
        /\ pc' = [pc EXCEPT ![t] = IF final THEN "begin_close" ELSE "idle"]
        /\ arg' = [arg EXCEPT ![t] = s]
        /\ UNCHANGED <<nextFd, life, refs, detached, drained, portClosing>>

(* ep_port_begin_close: blocked waits are woken *)
BeginClose(t) ==
    /\ pc[t] = "begin_close"
    /\ portClosing' = [portClosing EXCEPT ![arg[t]] = TRUE]
    /\ pc' = [pc EXCEPT ![t] = "check_refs"]
    /\ UNCHANGED <<table, nextFd, life, refs, aliases, closing, detached,
                   drained, arg>>

MutNeverReferenced(s) == FALSE    \* mutant: destroys without reading refs
MutStillReferenced(s) == TRUE     \* mutant: refs are not read again
Referenced(s) == refs[s] # 0

(* wepoll_close, second critical section *)
CheckRefs(t) ==
    /\ pc[t] = "check_refs"
    /\ pc' = [pc EXCEPT ![t] =
                  IF Referenced(arg[t]) THEN "close_wait" ELSE "destroy"]
    /\ UNCHANGED <<table, nextFd, life, refs, aliases, closing, detached,
                   drained, portClosing, arg>>

(* WaitForSingleObject without the lock: signalled *)
WaitSignalled(t) ==
    /\ pc[t] = "close_wait"
    /\ drained[arg[t]]
    /\ pc' = [pc EXCEPT ![t] = "relock"]
    /\ UNCHANGED <<table, nextFd, life, refs, aliases, closing, detached,
                   drained, portClosing, arg>>

(* ... or the five seconds expire, or the wait itself fails, possibly      *)
(* just as the last reference goes away.                                   *)
MutWaitGivesUp(t) == WaitSignalled(t)    \* mutant: an unbounded wait
WaitGivesUp(t) ==
    /\ pc[t] = "close_wait"
    /\ pc' = [pc EXCEPT ![t] = "relock"]
    /\ UNCHANGED <<table, nextFd, life, refs, aliases, closing, detached,
                   drained, portClosing, arg>>

(* wepoll_close, last critical section: the references are re-read, so a   *)
(* timeout that raced with the last reference still destroys here.         *)
Relock(t) ==
    LET s == arg[t]
    IN  /\ pc[t] = "relock"
        /\ detached' = [detached EXCEPT ![s] = Referenced(s)]
        /\ pc' = [pc EXCEPT ![t] = IF Referenced(s) THEN "idle" ELSE "destroy"]
        /\ UNCHANGED <<table, nextFd, life, refs, aliases, closing, drained,
                       portClosing, arg>>

CloserStep(t) ==
    \/ BeginClose(t)
    \/ CheckRefs(t)
    \/ WaitSignalled(t)
    \/ WaitGivesUp(t)
    \/ Relock(t)
    \/ Destroy(t)

ThreadStep(t) ==
    \/ \E s \in Shared, f \in Fds : Create(t, s, f)
    \/ \E s \in Shared : CreateFails(t, s)
    \/ \E fd \in Fds, f \in Fds : Duplicate(t, fd, f)
    \/ \E fd \in Fds, kind \in OpPcs : Acquire(t, fd, kind)
    \/ Put(t)
    \/ \E fd \in Fds : CloseUnlink(t, fd)
    \/ CloserStep(t)

Next == \E t \in Threads : ThreadStep(t)

Spec == Init /\ [][Next]_vars

(* An operation returns, a blocking wait once its port starts closing (the *)
(* event it waits for may never come).                                     *)
Returns(t) == Put(t) /\ (pc[t] = "op" \/ portClosing[arg[t]])

----------------------------------------------------------------------------
(* The types of epfd_shared_t, the descriptor table and the calls; the     *)
(* next number is always a valid descriptor.                               *)
TypeOK ==
    /\ table \in [Fds -> Shared \cup {None}]
    /\ nextFd \in Fds
    /\ life \in [Shared -> {"unborn", "live", "freed"}]
    /\ refs \in [Shared -> Nat]
    /\ aliases \in [Shared -> Nat]
    /\ closing \in [Shared -> BOOLEAN]
    /\ detached \in [Shared -> BOOLEAN]
    /\ drained \in [Shared -> BOOLEAN]
    /\ portClosing \in [Shared -> BOOLEAN]
    /\ pc \in [Threads -> Pcs]
    /\ arg \in [Threads -> Shared \cup {None}]

(* No thread works on a shared object, and no descriptor names one, that   *)
(* epfd_destroy has freed: the reference taken by epfd_acquire, and the    *)
(* re-read of refs after the bounded wait in wepoll_close, keep it alive.  *)
NoUseAfterFree ==
    /\ \A t \in Threads : pc[t] # "idle" => arg[t] \in Shared /\ life[arg[t]] = "live"
    /\ \A f \in Fds : table[f] # None => life[table[f]] = "live"

(* A port whose last alias is gone has exactly one party that will destroy *)
(* it: the closing thread, or, once wepoll_close has timed out (detached), *)
(* the last of the operations still holding a reference.  So it is neither *)
(* leaked nor destroyed twice, whatever way the timeout and epfd_put race. *)
OneTeardownOwner ==
    \A s \in Shared : life[s] = "live" =>
        \/ ~closing[s] /\ Owners(s) = {}
        \/ closing[s] /\ detached[s] /\ refs[s] > 0 /\ Owners(s) = {}
        \/ closing[s] /\ \E t \in Owners(s) :
                            /\ Owners(s) = {t}
                            /\ pc[t] = "destroy" => refs[s] = 0
                            /\ pc[t] # "destroy" => ~detached[s]

(* The counters are exact: refs counts the operations in progress, aliases *)
(* the descriptors, and the port closes when and only when the last alias  *)
(* goes, so closing one alias never wakes a wait made through another.     *)
CountsExact ==
    \A s \in Shared : life[s] = "live" =>
        /\ refs[s] = Cardinality(Holders(s))
        /\ aliases[s] = Cardinality(AliasSet(s))
        /\ closing[s] <=> aliases[s] = 0
        /\ portClosing[s] => closing[s]

(* The port is torn down only when no operation holds it, no descriptor    *)
(* names it, and its waiters have been told to leave.                      *)
DestroyOnlyQuiescent ==
    [][\A s \in Shared : life[s] = "live" /\ life'[s] = "freed" =>
            Holders(s) = {} /\ AliasSet(s) = {} /\ portClosing[s]]_vars

=============================================================================
