--------------------------- MODULE PosixRegistry ---------------------------
(***************************************************************************)
(* The POSIX backend's registry of metadata ports                          *)
(* (src/wepoll_ex_posix.c).  A port is found by the integer descriptor,    *)
(* which the application may close, duplicate or reuse behind the          *)
(* library's back; an eventfd registered in the kernel's epoll instance    *)
(* tells whether the integer still names the instance the port was made    *)
(* for, and doubles as the wake-up of blocked waits.                       *)
(*                                                                         *)
(* One action is one section under g_posix_lock or one blocking call       *)
(* outside it.  Descriptors and epoll instances are the kernel's           *)
(* (external).                                                             *)
(***************************************************************************)
EXTENDS Integers, FiniteSets

CONSTANTS
    Threads,
    Fds,          \* integers the application uses for epoll descriptors
    Instances,    \* kernel epoll instances
    Ports,        \* addresses of posix_port_t
    MapSize,      \* POSIX_PORT_MAP_SIZE
    Other,        \* what a descriptor of another kind refers to
    None

ASSUME MapSizePositive == MapSize \in Nat \ {0}
ASSUME ThreadsFinite == IsFiniteSet(Threads)
ASSUME FdsFinite == IsFiniteSet(Fds)
ASSUME NamesFresh == {Other, None} \cap (Instances \cup Ports) = {} /\ Other # None

VARIABLES
    desc,         \* what each descriptor refers to, None if it is closed
    map,          \* g_posix_map with g_posix_map_epfd: the port of a descriptor
    instance,     \* the instance p->identity_fd is registered in; None: p is not allocated
    refs, aliases, closing, retired, close_waiter,    \* the fields of posix_port_t
    wake,         \* p->identity_fd is readable
    pc, arg, fd,  \* each thread's place, port and descriptor
    goal,         \* what its call needs a port for, "none" if it needs none (any more)
    got           \* what its native wait returned: "none", "user" events or a "wake"

ports == <<instance, refs, aliases, closing, retired, close_waiter, wake>>
vars == <<desc, map, ports, pc, arg, fd, goal, got>>

Init ==
    /\ desc = [f \in Fds |-> None]
    /\ map = [f \in Fds |-> None]
    /\ instance = [p \in Ports |-> None]
    /\ refs = [p \in Ports |-> 0] /\ aliases = [p \in Ports |-> 0]
    /\ closing = [p \in Ports |-> FALSE] /\ retired = [p \in Ports |-> FALSE]
    /\ close_waiter = [p \in Ports |-> FALSE] /\ wake = [p \in Ports |-> FALSE]
    /\ pc = [t \in Threads |-> "idle"]
    /\ arg = [t \in Threads |-> None] /\ fd = [t \in Threads |-> None]
    /\ goal = [t \in Threads |-> "none"] /\ got = [t \in Threads |-> "none"]

Live(p) == instance[p] # None
Goto(t, label) == pc' = [pc EXCEPT ![t] = label]

----------------------------------------------------------------------------
(* The application's own system calls *)
Native(f, d) ==
    /\ \/ d = None /\ desc[f] # None                          \* close
       \/ desc[f] = None /\ d = Other                         \* any other kind
       \/ desc[f] = None /\ \E g \in Fds : d = desc[g] /\ d \in Instances    \* dup
       \/ /\ desc[f] = None /\ d \in Instances                \* epoll_create
          /\ \A g \in Fds : desc[g] # d
          /\ \A p \in Ports : instance[p] # d                 \* p->control_epfd
    /\ desc' = [desc EXCEPT ![f] = d]
    /\ UNCHANGED <<map, ports, pc, arg, fd, goal, got>>

----------------------------------------------------------------------------
(* port_identity_check: 0, 1 for another instance, -1 for no instance *)
MutIdentity(p, f) == IF desc[f] \in Instances THEN 0 ELSE -1  \* mutant: any instance will do
Identity(p, f) ==
    IF desc[f] = instance[p] THEN 0 ELSE IF desc[f] \in Instances THEN 1 ELSE -1

(* port_lookup_locked, then port_lookup_alias_locked; {} if there is none *)
MutFound(f) == {map[f]} \ {None}    \* mutant: aliases are not looked for
Found(f) ==
    IF map[f] # None THEN {map[f]}
    ELSE {p \in {map[g] : g \in Fds} \ {None} : ~closing[p] /\ Identity(p, f) = 0}

FreeSlot == Cardinality({f \in Fds : map[f] # None}) < MapSize

(* port_add_alias_locked has made f an alias, if it was not one. *)
Aliases(p, f) == IF map[f] = p THEN aliases[p] ELSE aliases[p] + 1

(* port_acquire_or_create starts over, wepoll_close returns. *)
Continue(t) == IF goal[t] = "none" THEN "idle" ELSE "acquire"

(* port_remove_epfd_locked; the last alias to go closes the port and wakes *)
(* its waits (port_mark_closing_locked).                                   *)
RemoveAlias(t, p, f) ==
    LET left == Aliases(p, f) - 1 IN
    /\ map' = [map EXCEPT ![f] = None]
    /\ aliases' = [aliases EXCEPT ![p] = left]
    /\ IF left = 0
       THEN /\ closing' = [closing EXCEPT ![p] = TRUE]
            /\ wake' = [wake EXCEPT ![p] = TRUE]
            /\ arg' = [arg EXCEPT ![t] = p]
            /\ Goto(t, "retire")
       ELSE Goto(t, Continue(t)) /\ UNCHANGED <<closing, wake, arg>>
    /\ UNCHANGED <<instance, refs, retired, close_waiter, goal>>

(* An extension call on f begins, a control operation or a wait. *)
Call(t, f, next) ==
    /\ pc[t] = "idle"
    /\ fd' = [fd EXCEPT ![t] = f]
    /\ goal' = [goal EXCEPT ![t] = next]
    /\ Goto(t, "acquire")
    /\ UNCHANGED <<desc, map, ports, arg, got>>

Acquired(t, p) ==
    /\ arg' = [arg EXCEPT ![t] = p]
    /\ fd' = [fd EXCEPT ![t] = None]
    /\ goal' = [goal EXCEPT ![t] = "none"]
    /\ Goto(t, goal[t])

(* port_acquire_or_create: the port is known, or found as an alias *)
AcquireKnown(t) ==
    LET f == fd[t] IN
    /\ pc[t] = "acquire"
    /\ \E p \in Found(f) :
          /\ ~closing[p] /\ Identity(p, f) = 0
          /\ map[f] = p \/ FreeSlot
          /\ map' = [map EXCEPT ![f] = p]
          /\ aliases' = [aliases EXCEPT ![p] = Aliases(p, f)]
          /\ refs' = [refs EXCEPT ![p] = @ + 1]
          /\ Acquired(t, p)
    /\ UNCHANGED <<desc, instance, closing, retired, close_waiter, wake, got>>

(* The integer names another instance now: drop the alias and try again. *)
AcquireStale(t) ==
    LET f == fd[t] IN
    /\ pc[t] = "acquire"
    /\ \E p \in Found(f) : /\ ~closing[p] /\ Identity(p, f) = 1
                           /\ RemoveAlias(t, p, f)
    /\ UNCHANGED <<desc, fd, got>>

(* A new port for an instance that has none, zeroed but for p->aliases and *)
(* p->refs                                                                 *)
AcquireNew(t, p) ==
    LET f == fd[t] IN
    /\ pc[t] = "acquire"
    /\ Found(f) = {} /\ desc[f] \in Instances /\ FreeSlot
    /\ ~Live(p)
    /\ map' = [map EXCEPT ![f] = p]
    /\ instance' = [instance EXCEPT ![p] = desc[f]]
    /\ refs' = [refs EXCEPT ![p] = 1] /\ aliases' = [aliases EXCEPT ![p] = 1]
    /\ Acquired(t, p)
    /\ UNCHANGED <<desc, closing, retired, close_waiter, wake, got>>

(* Every other way out is an error that changes nothing: a closing port,   *)
(* no instance (a stale mapping stays), a full table, no memory.           *)
AcquireFails(t) ==
    LET f == fd[t] IN
    /\ pc[t] = "acquire"
    /\ \/ \E p \in Found(f) : closing[p] \/ Identity(p, f) = -1 \/ (map[f] # p /\ ~FreeSlot)
       \/ Found(f) = {}
    /\ fd' = [fd EXCEPT ![t] = None]
    /\ goal' = [goal EXCEPT ![t] = "none"]
    /\ Goto(t, "idle")
    /\ UNCHANGED <<desc, map, ports, arg, got>>

----------------------------------------------------------------------------
(* port_release; the last reference of a retired port without a close      *)
(* waiter frees it.  A sleeping close waiter is signalled.                 *)
MutOrphaned(p) == FALSE    \* mutant: a port whose closer was cancelled is forgotten
Orphaned(p) == retired[p] /\ aliases[p] = 0 /\ refs[p] = 1 /\ ~close_waiter[p]

Signals(p) == closing[p] /\ refs[p] = 1

Release(t) ==
    LET p == arg[t] IN
    /\ refs' = [refs EXCEPT ![p] = @ - 1]
    /\ retired' = [retired EXCEPT ![p] = @ /\ ~Orphaned(p)]
    /\ arg' = [arg EXCEPT ![t] = IF Orphaned(p) THEN p ELSE None]
    /\ got' = [got EXCEPT ![t] = "none"]
    /\ pc' = [q \in Threads |->
                IF q = t THEN IF Orphaned(p) THEN "free" ELSE "idle"
                ELSE IF Signals(p) /\ pc[q] = "sleep" /\ arg[q] = p THEN "check refs"
                ELSE pc[q]]
    /\ UNCHANGED <<desc, map, instance, aliases, closing, close_waiter, wake, fd, goal>>

(* A control operation ends. *)
EndCall(t) ==
    /\ pc[t] = "use"
    /\ Release(t)

(* posix_wait_ex: the native wait on the instance returns with whatever is *)
(* ready in it, which includes every readable eventfd registered there.    *)
NativeWait(t, result) ==
    /\ pc[t] = "wait"
    /\ result = "wake" => \E q \in Ports : instance[q] = instance[arg[t]] /\ wake[q]
    /\ got' = [got EXCEPT ![t] = result]
    /\ Goto(t, "check closing")
    /\ UNCHANGED <<desc, map, ports, arg, fd, goal>>

(* port_is_closing after the native wait, and again after the events have  *)
(* been decorated                                                          *)
CheckClosing(t) ==
    /\ pc[t] = "check closing"
    /\ IF closing[arg[t]]
       THEN got' = [got EXCEPT ![t] = "none"] /\ Goto(t, "use")
       ELSE UNCHANGED got /\ Goto(t, "decorate")
    /\ UNCHANGED <<desc, map, ports, arg, fd, goal>>

Decorate(t) ==
    /\ pc[t] = "decorate"
    /\ got' = [got EXCEPT ![t] = IF closing[arg[t]] THEN "none" ELSE @]
    /\ Goto(t, "use")
    /\ UNCHANGED <<desc, map, ports, arg, fd, goal>>

(* posix_wait_cancel_cleanup: the thread is cancelled in its native wait. *)
CancelWait(t) ==
    /\ pc[t] = "wait"
    /\ Release(t)

----------------------------------------------------------------------------
(* wepoll_close: a descriptor of the port is closed, one that was reused   *)
(* is left alone, one no port knows is simply closed.                      *)
CloseKnown(t, f) ==
    /\ pc[t] = "idle"
    /\ \E p \in Found(f) :
          /\ ~closing[p]
          /\ map[f] = p \/ FreeSlot
          /\ RemoveAlias(t, p, f)
          /\ desc' = [desc EXCEPT ![f] = IF Identity(p, f) = 0 THEN None ELSE @]
    /\ UNCHANGED <<fd, got>>

CloseUnknown(t, f) ==
    /\ pc[t] = "idle" /\ Found(f) = {} /\ desc[f] # None
    /\ desc' = [desc EXCEPT ![f] = None]
    /\ UNCHANGED <<map, ports, pc, arg, fd, goal, got>>

(* port_wait_and_free *)
Retire(t) ==
    LET p == arg[t] IN
    /\ pc[t] = "retire"
    /\ retired' = [retired EXCEPT ![p] = TRUE]
    /\ close_waiter' = [close_waiter EXCEPT ![p] = TRUE]
    /\ Goto(t, "check refs")
    /\ UNCHANGED <<desc, map, instance, refs, aliases, closing, wake, arg, fd, goal, got>>

MutUnreferenced(p) == TRUE    \* mutant: nobody is waited for
Unreferenced(p) == refs[p] = 0

CheckRefs(t) ==
    LET p == arg[t] IN
    /\ pc[t] = "check refs"
    /\ IF Unreferenced(p)
       THEN /\ close_waiter' = [close_waiter EXCEPT ![p] = FALSE]
            /\ retired' = [retired EXCEPT ![p] = FALSE]
            /\ Goto(t, "free")
       ELSE Goto(t, "sleep") /\ UNCHANGED <<close_waiter, retired>>
    /\ UNCHANGED <<desc, map, instance, refs, aliases, closing, wake, arg, fd, goal, got>>

(* posix_close_wait_cancel_cleanup: the thread is cancelled in the         *)
(* condition wait; it frees the port only if nobody uses it any more.      *)
CancelClose(t) ==
    LET p == arg[t] IN
    /\ pc[t] = "sleep"
    /\ close_waiter' = [close_waiter EXCEPT ![p] = FALSE]
    /\ retired' = [retired EXCEPT ![p] = refs[p] # 0]
    /\ arg' = [arg EXCEPT ![t] = IF refs[p] = 0 THEN p ELSE None]
    /\ fd' = [fd EXCEPT ![t] = None]
    /\ goal' = [goal EXCEPT ![t] = "none"]
    /\ Goto(t, IF refs[p] = 0 THEN "free" ELSE "idle")
    /\ UNCHANGED <<desc, map, instance, refs, aliases, closing, wake, got>>

(* port_free, which closes p->identity_fd and p->control_epfd *)
Free(t) ==
    LET p == arg[t] IN
    /\ pc[t] = "free"
    /\ instance' = [instance EXCEPT ![p] = None]
    /\ closing' = [closing EXCEPT ![p] = FALSE] /\ wake' = [wake EXCEPT ![p] = FALSE]
    /\ arg' = [arg EXCEPT ![t] = None]
    /\ Goto(t, Continue(t))
    /\ UNCHANGED <<desc, map, refs, aliases, retired, close_waiter, fd, goal, got>>

----------------------------------------------------------------------------
(* What a thread inside the library does without waiting for events *)
Running(t) ==
    \/ AcquireKnown(t) \/ AcquireStale(t) \/ AcquireFails(t)
    \/ \E p \in Ports : AcquireNew(t, p)
    \/ NativeWait(t, "wake") \/ CheckClosing(t) \/ Decorate(t) \/ EndCall(t)
    \/ Retire(t) \/ CheckRefs(t) \/ Free(t)

Next ==
    \/ \E f \in Fds, d \in Instances \cup {Other, None} : Native(f, d)
    \/ \E t \in Threads, f \in Fds :
          Call(t, f, "use") \/ Call(t, f, "wait") \/ CloseKnown(t, f) \/ CloseUnknown(t, f)
    \/ \E t \in Threads :
          Running(t) \/ NativeWait(t, "user") \/ CancelWait(t) \/ CancelClose(t)

Spec == Init /\ [][Next]_vars

(* Threads run on unless they wait for events; a wait returns once a       *)
(* readable eventfd is registered in its instance.                         *)
FairSpec == Spec /\ \A t \in Threads : WF_vars(Running(t))

----------------------------------------------------------------------------
Holders(p) ==
    {t \in Threads : arg[t] = p /\ pc[t] \in {"use", "wait", "check closing", "decorate"}}
Closers(p) ==
    {t \in Threads : arg[t] = p /\ pc[t] \in {"retire", "check refs", "sleep", "free"}}

(* A port is freed once, by one thread, when no call uses it and no        *)
(* descriptor leads to it; and every call works on an allocated port.      *)
NoUseAfterFree ==
    \A p \in Ports :
        /\ Holders(p) # {} \/ Closers(p) # {} => Live(p)
        /\ Cardinality(Closers(p)) <= 1
        /\ \A t \in Closers(p) : pc[t] = "free" =>
                Holders(p) = {} /\ \A f \in Fds : map[f] # p

(* Two ports never serve one epoll instance, under whatever descriptors it *)
(* is known, unless one of them is being closed.                           *)
OnePortPerInstance ==
    \A p, q \in Ports :
        p # q /\ Live(p) /\ instance[p] = instance[q] => closing[p] \/ closing[q]

(* No call that changes the registry (wepoll_close among them) touches a   *)
(* descriptor that took over the integer of a tracked one: "never close    *)
(* the replacement descriptor".                                            *)
ReplacementSurvives ==
    [][\A f \in Fds :
          map[f] # None /\ desc[f] # instance[map[f]] /\ map' # map => desc'[f] = desc[f]]_vars

(* A port that is being closed is freed, even if the closing thread or a   *)
(* waiting one is cancelled.                                               *)
ClosingPortFreed == \A p \in Ports : closing[p] /\ Live(p) ~> ~Live(p)

=============================================================================
