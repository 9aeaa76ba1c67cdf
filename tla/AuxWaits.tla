------------------------------ MODULE AuxWaits ------------------------------
(***************************************************************************)
(* Waitable handles and pipes of one port (src/wepoll_ex_port.c).  Neither *)
(* is polled by AFD: a registration arms a one-shot wait or timer of the   *)
(* thread pool, whose callback posts a packet to the completion port.      *)
(*                                                                         *)
(* Two threads of the process and the pool meet here: the waiter and the   *)
(* control operations act under fd_table_lock, one action per critical     *)
(* section; a callback takes no lock.  Disarming joins a callback that     *)
(* runs, so an action that disarms is enabled only when the callback is    *)
(* over.  The application waits for one event at a time, which excludes    *)
(* the coalescing window (PortSockets), and closes the handle only after   *)
(* DEL.  One handle is registered, by one storage block after the other.   *)
(***************************************************************************)
EXTENDS Naturals, Sequences, FiniteSets

CONSTANTS
    Regs,       \* blocks of ep_sock_t storage
    Kinds,      \* of the handle: subset of Waitable \cup {"PIPE"}
    Modes,      \* flag sets in use: subsets of {"ET", "ONESHOT"}
    Faults,     \* calls that can fail: "disarm", "node", "post", "register", "sample"
    Closes,     \* the application closes the port at some time
    MaxFaults,  \* bound: failed calls
    MaxCount,   \* bound: semaphore count, 1 for an auto-reset event
    MaxGen,     \* bound: registration generations
    None

ASSUME NoneFresh == None \notin Regs

VARIABLES
    kind, consumes, server,   \* the handle: its semantics, whether a wait consumes
    count, hup,               \* signal count or readable bytes; the pipe's peer is gone
    reg, hook,                \* storage, and the pool's wait or timer and callback for it
    table, ready, queue,      \* fd table entry, ready queue, completion port
    nextGen, faults,
    closing, asyncErr, iocpOpen,
    active, pc, held, result  \* the waiter

objVars  == <<kind, consumes, server>>
portVars == <<closing, asyncErr, iocpOpen>>
waitVars == <<active, pc, held, result>>
vars == <<objVars, count, hup, reg, hook, table, ready, queue, nextGen, faults,
          portVars, waitVars>>

Waitable == {"PERSISTENT", "TERMINAL", "CONSUMPTIVE", "ET_UNSUPPORTED"}
Free == [state |-> "free"]
Live(i) == reg[i] # Free
One(b) == IF b THEN 1 ELSE 0

Init ==
    /\ kind \in Kinds
    /\ consumes \in CASE kind = "CONSUMPTIVE" -> {TRUE}
                      [] kind = "ET_UNSUPPORTED" -> BOOLEAN
                      [] OTHER -> {FALSE}
    /\ server \in IF kind = "PIPE" THEN BOOLEAN ELSE {FALSE}
    /\ count = 0 /\ hup = FALSE
    /\ reg = [i \in Regs |-> Free] /\ hook = [i \in Regs |-> "none"]
    /\ table = None /\ ready = <<>> /\ queue = <<>> /\ nextGen = 0 /\ faults = 0
    /\ closing = FALSE /\ asyncErr = FALSE /\ iocpOpen = TRUE
    /\ active = FALSE /\ pc = "out" /\ held = None /\ result = "none"

(* The calls of F that can still fail *)
CanFail(F) == IF faults < MaxFaults THEN F \cap Faults ELSE {}

(* ep_waitable_may_consume, ep_waitable_is_dormant *)
MayConsume == kind \in {"CONSUMPTIVE", "ET_UNSUPPORTED"}
Dormant(r) == kind # "PIPE" /\ r.interest = {}

(* The level of the handle: WaitForSingleObject with no timeout, or        *)
(* ep_pipe_snapshot of a readable pipe end (ep_pipe_peer_closed_events).   *)
Level(r) ==
    (IF count > 0 THEN r.interest ELSE {}) \cup (IF hup THEN {"HUP"} ELSE {})

(* ep_pipe_et_events_have_final_shape, ep_pipe_et_snapshot_is_final *)
FinalShape(ev) == "HUP" \in ev /\ "IN" \notin ev
IsFinal(ev) == ~server /\ FinalShape(ev)

----------------------------------------------------------------------------
(* An outcome of an operation on one registration: the storage, what       *)
(* becomes of the wait in the pool, whether a packet was posted and a      *)
(* signal consumed, the result, and the calls that failed.                 *)
Outcome(r, res) ==
    [r |-> r, hook |-> "keep", post |-> FALSE, took |-> 0, res |-> res, used |-> 0]
Fault(r, res) == [Outcome(r, res) EXCEPT !.used = 1]
Failed(o) == o.res \in {"fail", "fatal"}

(* The outcomes S of an operation that follows o *)
After(o, S) ==
    {[p EXCEPT !.hook = IF @ = "keep" THEN o.hook ELSE @, !.used = @ + o.used] : p \in S}

(* ep_aux_post_completion *)
Post(r) ==
    IF ~iocpOpen THEN {Outcome(r, "fatal")}
    ELSE {[Outcome([r EXCEPT !.posted = TRUE], "ok") EXCEPT !.post = TRUE]}
         \cup {Fault(r, "fatal") : x \in CanFail({"post"})}

(* ep_waitable_unregister_locked, ep_pipe_delete_timer_locked: blocks      *)
(* while the callback runs.  A call that fails leaves the wait armed; it   *)
(* spins on callback_active, which a callback just entered has not set.    *)
Unhooked(i, r) ==
    [Outcome([r EXCEPT !.wait = FALSE], "ok") EXCEPT
        !.hook = IF hook[i] = "armed" THEN "none" ELSE "keep"]
Disarm(i, r) ==
    {Unhooked(i, r) : x \in {"armed", "none"} \cap {hook[i]}}
    \cup {Fault(r, "fail") :
            x \in IF r.wait /\ hook[i] # "posting" THEN CanFail({"disarm"}) ELSE {}}

(* ep_sock_cancel_locked: a queued packet keeps the request until it is    *)
(* dequeued; without one the request is over.                              *)
MutCancel(i, r) ==    \* mutant: a queued packet is not looked for
    IF r.poll # "PENDING" THEN {Outcome(r, "ok")}
    ELSE {IF Failed(o) THEN o ELSE [o EXCEPT !.r.poll = "IDLE"] : o \in Disarm(i, r)}
Cancel(i, r) ==
    IF r.poll # "PENDING" THEN {Outcome(r, "ok")}
    ELSE {IF Failed(o) THEN o
          ELSE [o EXCEPT !.r.poll = IF r.posted THEN "CANCELLED" ELSE "IDLE"] :
            o \in Disarm(i, r)}

(* ep_sock_drop_closed_locked *)
Detached(r, g) ==
    IF r.poll = "IDLE" THEN Free
    ELSE [r EXCEPT !.deleted = TRUE, !.rearm = FALSE, !.oneshot = FALSE, !.gen = g]

----------------------------------------------------------------------------
(* ep_sock_submit_locked *)

Pending(o) == IF Failed(o) THEN o ELSE [o EXCEPT !.r.poll = "PENDING", !.r.rearm = FALSE]
Hooked(r) == Pending([Outcome([r EXCEPT !.wait = TRUE], "ok") EXCEPT !.hook = "armed"])
Probed(r) ==
    {[Pending(o) EXCEPT !.took = One(consumes)] :
        o \in Post([r EXCEPT !.owned = MayConsume, !.balance = @ + One(consumes)])}

(* A consumed notification nobody was told of is replayed before the       *)
(* handle is touched again; ownership is claimed before the zero-time wait *)
(* that may consume.  An unsignaled handle reopens the edge latch.         *)
ArmWaitable(r) ==
    LET quiet == [r EXCEPT !.observed = IF "ET" \in r.mode THEN {} ELSE @]
    IN  IF r.owned THEN {Pending(o) : o \in Post(r)}
        ELSE IF count > 0 THEN Probed(r)
        ELSE {Hooked(quiet)} \cup {Fault(quiet, "fail") : x \in CanFail({"register"})}

(* ep_pipe_schedule_locked with the sample taken before it; a sample that  *)
(* fails is not evidence that the level fell.                              *)
ArmPipe(r) ==
    LET quiet == IF "ET" \in r.mode THEN [r EXCEPT !.observed = {}, !.terminal = FALSE] ELSE r
        Timer(q) == {Hooked(q)} \cup {Fault(q, "fail") : x \in CanFail({"register"})}
    IN  (IF Level(r) # {} THEN {Pending(o) : o \in Post(r)} ELSE Timer(quiet))
        \cup UNION {After(Fault(r, "ok"), Timer(r)) : x \in CanFail({"sample"})}

Arm(r) ==
    IF r.poll # "IDLE" \/ r.holdoff \/ r.oneshot \/ ~r.rearm THEN {Outcome(r, "ok")}
    ELSE IF kind = "PIPE" THEN ArmPipe(r) ELSE ArmWaitable(r)

(* A request that could not be disarmed before is retired first; if that   *)
(* fails again the registration is given up.                               *)
Submit(i, r) ==
    IF closing \/ r.deleted \/ r.ready THEN {Outcome(r, "ok")}
    ELSE IF Dormant(r)
    THEN {IF Failed(o) THEN o ELSE [o EXCEPT !.r.rearm = FALSE, !.r.holdoff = FALSE] :
            o \in Cancel(i, r)}
    ELSE IF r.poll = "PENDING" /\ r.rearm
    THEN UNION {After(o, IF Failed(o) THEN {Outcome(Detached(r, nextGen + 1), "gone")}
                         ELSE Arm(o.r)) : o \in Cancel(i, r)}
    ELSE Arm(r)

(* Publish outcome o of an operation on i.  A post that failed has closed  *)
(* the completion port (ep_port_fail_iocp_post).                           *)
Apply(i, o) ==
    /\ reg' = [reg EXCEPT ![i] = o.r]
    /\ hook' = [hook EXCEPT ![i] = IF o.hook = "keep" THEN @ ELSE o.hook]
    /\ queue' = IF o.post THEN Append(queue, i) ELSE queue
    /\ count' = count - o.took
    /\ closing' = (closing \/ o.res = "fatal")
    /\ iocpOpen' = (iocpOpen /\ (closing \/ o.res # "fatal"))
    /\ faults' = faults + o.used
TableAfter(i, o) == IF o.res = "gone" /\ table = i THEN None ELSE table

----------------------------------------------------------------------------
(* The handle *)

MaxLevel == IF kind = "CONSUMPTIVE" THEN MaxCount ELSE 1

(* SetEvent, ReleaseSemaphore, exit of a process or thread, a write *)
Signal ==
    /\ count < MaxLevel /\ ~hup
    /\ count' = count + 1
    /\ UNCHANGED <<objVars, hup, reg, hook, table, ready, queue, nextGen, faults,
                   portVars, waitVars>>

(* ResetEvent, a wait of the application itself, a read *)
Unsignal ==
    /\ count > 0 /\ kind # "TERMINAL"
    /\ count' = count - 1
    /\ UNCHANGED <<objVars, hup, reg, hook, table, ready, queue, nextGen, faults,
                   portVars, waitVars>>

PeerClose ==
    /\ kind = "PIPE" /\ ~hup /\ hup' = TRUE
    /\ UNCHANGED <<objVars, count, reg, hook, table, ready, queue, nextGen, faults,
                   portVars, waitVars>>

(* A named-pipe server serves its next client *)
Reconnect ==
    /\ server /\ hup
    /\ hup' = FALSE /\ count' = 0
    /\ UNCHANGED <<objVars, reg, hook, table, ready, queue, nextGen, faults,
                   portVars, waitVars>>

----------------------------------------------------------------------------
(* The thread pool: RegisterWaitForSingleObject and CreateTimerQueueTimer, *)
(* both once only.  The wait that starts the callback consumes the signal. *)

Fire(i) ==
    /\ hook[i] = "armed" /\ (kind = "PIPE" \/ count > 0)
    /\ hook' = [hook EXCEPT ![i] = "entered"]
    /\ count' = count - One(consumes)
    /\ reg' = [reg EXCEPT ![i].balance = @ + One(consumes)]
    /\ UNCHANGED <<objVars, hup, table, ready, queue, nextGen, faults, portVars, waitVars>>

(* ep_waitable_callback, ep_pipe_timer_callback: ownership before packet *)
Owned(r) == [r EXCEPT !.owned = @ \/ MayConsume]
CallbackOwn(i) ==
    /\ hook[i] = "entered"
    /\ hook' = [hook EXCEPT ![i] = "posting"]
    /\ reg' = [reg EXCEPT ![i] = Owned(@)]
    /\ UNCHANGED <<objVars, count, hup, table, ready, queue, nextGen, faults, portVars, waitVars>>

CallbackPost(i) ==
    /\ hook[i] = "posting"
    /\ \E o \in Post(reg[i]) : Apply(i, [o EXCEPT !.hook = "none"])
    /\ UNCHANGED <<objVars, hup, table, ready, nextGen, asyncErr, waitVars>>

----------------------------------------------------------------------------
(* Control operations *)

NewReg(m, md, g) ==
    [state |-> "live", interest |-> m, mode |-> md, gen |-> g, poll |-> "IDLE",
     rearm |-> m # {} \/ kind = "PIPE", oneshot |-> FALSE, ready |-> FALSE,
     holdoff |-> FALSE, observed |-> {}, terminal |-> FALSE, owned |-> FALSE,
     posted |-> FALSE, wait |-> FALSE, deleted |-> FALSE, balance |-> 0]

(* EPOLLET needs an object whose mode is known. *)
Accepts(m, md) == kind = "ET_UNSUPPORTED" /\ "ET" \in md => m = {}
Masks == {{}, {"IN"}}

(* A control operation has made r: it submits for a waiter that blocks, *)
(* and a failure restores what was there before.                        *)
SubmitForWaiter(i, old, r) ==
    IF active /\ r.poll = "IDLE" /\ ~Dormant(r)
    THEN {IF Failed(o) THEN [o EXCEPT !.r = old] ELSE o : o \in Submit(i, r)}
    ELSE {Outcome(r, "ok")}

(* ep_port_register: lazy unless a waiter blocks *)
Add(m, md) ==
    /\ ~closing /\ table = None /\ nextGen < MaxGen /\ Accepts(m, md)
    /\ \E i \in {j \in Regs : ~Live(j)} :
        \E o \in SubmitForWaiter(i, Free, NewReg(m, md, nextGen + 1)) :
            Apply(i, o) /\ table' = IF Failed(o) THEN None ELSE i
    /\ nextGen' = nextGen + 1
    /\ UNCHANGED <<objVars, hup, ready, asyncErr, waitVars>>

(* ep_port_modify.  The pending wait covers every mask but the empty one,  *)
(* which retires it.  A queued node that stands for a consumed             *)
(* notification is replaced by one of the new generation, or ownership     *)
(* goes back to the registration that becomes dormant.                     *)
Node(r, ev) == [gen |-> r.gen, events |-> ev]
Carries(r) == r.ready /\ MayConsume
MutChanged(r, m, md, g) ==     \* mutant: the queued notification is dropped
    [r EXCEPT !.interest = m, !.mode = md, !.gen = g, !.observed = {}, !.terminal = FALSE,
              !.holdoff = FALSE, !.oneshot = FALSE, !.ready = FALSE,
              !.rearm = IF m = {} /\ kind # "PIPE" THEN FALSE ELSE @ \/ r.poll # "PENDING"]
Changed(r, m, md, g) ==
    LET keep == Carries(r) /\ m # {}
        dormant == m = {} /\ kind # "PIPE"
    IN  [r EXCEPT !.interest = m, !.mode = md, !.gen = g, !.holdoff = FALSE,
                  !.observed = IF keep /\ "ET" \in md THEN m ELSE {},
                  !.terminal = FALSE, !.oneshot = keep /\ "ONESHOT" \in md,
                  !.ready = keep, !.owned = @ \/ (Carries(r) /\ m = {}),
                  !.rearm = IF dormant \/ keep THEN FALSE ELSE @ \/ r.poll # "PENDING"]

Mod(m, md) ==
    LET i == table IN
    /\ i # None /\ nextGen < MaxGen /\ Accepts(m, md)
    /\ \E c \in IF m = {} /\ kind # "PIPE" THEN Cancel(i, reg[i]) ELSE {Outcome(reg[i], "ok")} :
        IF Failed(c)
        THEN Apply(i, c) /\ UNCHANGED <<ready, nextGen>>
        ELSE LET r == Changed(c.r, m, md, nextGen + 1)
             IN  /\ \E o \in After(c, SubmitForWaiter(i, c.r, r)) : Apply(i, o)
                 /\ ready' = IF r.ready THEN Append(ready, Node(r, m)) ELSE ready
                 /\ nextGen' = nextGen + 1
    /\ UNCHANGED <<objVars, hup, table, asyncErr, waitVars>>

(* The replacement node cannot be allocated: MOD fails, nothing changes. *)
ModNoMemory(m) ==
    /\ table # None /\ Carries(reg[table]) /\ m # {} /\ CanFail({"node"}) # {}
    /\ faults' = faults + 1
    /\ UNCHANGED <<objVars, count, hup, reg, hook, table, ready, queue, nextGen, portVars,
                   waitVars>>

(* ep_port_rearm of a fired one-shot registration *)
Rearmed(r, g) ==
    [r EXCEPT !.owned = @ \/ Carries(r), !.oneshot = FALSE, !.ready = FALSE,
              !.observed = {}, !.terminal = FALSE, !.holdoff = FALSE, !.rearm = TRUE, !.gen = g]
Rearm ==
    LET i == table IN
    /\ i # None /\ reg[i].oneshot /\ nextGen < MaxGen
    /\ \E o \in SubmitForWaiter(i, reg[i], Rearmed(reg[i], nextGen + 1)) : Apply(i, o)
    /\ nextGen' = nextGen + 1
    /\ UNCHANGED <<objVars, hup, table, ready, asyncErr, waitVars>>

(* ep_port_unregister: detaches whether or not the wait can be disarmed *)
Del ==
    LET i == table IN
    /\ i # None
    /\ \E c \in Cancel(i, reg[i]) :
        Apply(i, [c EXCEPT !.r = Detached(c.r, nextGen + 1), !.res = "ok"])
    /\ table' = None /\ nextGen' = nextGen + 1
    /\ UNCHANGED <<objVars, hup, ready, asyncErr, waitVars>>

----------------------------------------------------------------------------
(* ep_sock_handle_completion *)

(* The events of a completion: a consuming wait was the observation,       *)
(* anything else is sampled again.                                         *)
Observation(r) == IF MayConsume THEN r.interest ELSE Level(r)

(* ep_pipe_et_events: a terminal condition that appears brings the current *)
(* level with it, and so does draining the data left by a peer that closed *)
PipeEdges(prev, level) ==
    IF "HUP" \in level \ prev THEN level
    ELSE IF "HUP" \in level /\ "IN" \in prev \ level THEN level
    ELSE level \ prev

NoNode(o) == [o |-> o, node |-> <<>>, err |-> Failed(o)]
Retry(o) == IF o.res = "fail" THEN [o EXCEPT !.r.rearm = TRUE] ELSE o

Queued(r) ==
    [r EXCEPT !.oneshot = "ONESHOT" \in r.mode, !.holdoff = FALSE, !.ready = TRUE,
              !.owned = @ /\ ~MayConsume]

Deliver(i, r, level, valid) ==
    LET et == "ET" \in r.mode
        events == IF ~et THEN level
                  ELSE IF kind # "PIPE" THEN level \ r.observed
                  ELSE IF valid THEN PipeEdges(r.observed, level) ELSE {}
        seen == [r EXCEPT !.observed = IF ~et THEN {} ELSE IF valid THEN level ELSE @,
                          !.holdoff = @ /\ et]
    IN  IF events = {}
        THEN IF kind = "PIPE" /\ et /\ valid /\ r.terminal /\ IsFinal(level)
             THEN {NoNode(Outcome([seen EXCEPT !.rearm = FALSE, !.holdoff = FALSE], "ok"))}
             ELSE IF et THEN {NoNode(Outcome([seen EXCEPT !.rearm = TRUE, !.holdoff = TRUE], "ok"))}
             ELSE {NoNode(Retry(o)) : o \in Submit(i, [seen EXCEPT !.rearm = TRUE])}
        ELSE {[o |-> Outcome(Queued(seen), "ok"), node |-> <<Node(r, events)>>, err |-> FALSE]}
             \cup {[o |-> Fault([seen EXCEPT !.observed = IF et THEN r.observed ELSE @,
                                              !.rearm = TRUE], "ok"),
                     node |-> <<>>, err |-> TRUE] : x \in CanFail({"node"})}

(* The wait is disarmed first.  If that fails the packet is gone but the   *)
(* request stays pending, to be retired by the next arm pass.              *)
MutDisarmFailed(i, r) ==     \* mutant: nobody retires the request
    {[o |-> Outcome(r, "ok"), node |-> <<>>, err |-> TRUE]}
DisarmFailed(i, r) ==
    IF r.deleted \/ closing
    THEN {[o |-> IF ~Failed(c) /\ c.r.poll = "IDLE" /\ r.deleted THEN [c EXCEPT !.r = Free] ELSE c,
           node |-> <<>>, err |-> TRUE] : c \in Cancel(i, r)}
    ELSE {[o |-> Outcome([r EXCEPT !.rearm = TRUE], "ok"), node |-> <<>>, err |-> TRUE]}

Completed(i, r, cancelled) ==
    IF r.deleted THEN {NoNode(Outcome(Free, "ok"))}
    ELSE IF closing THEN {NoNode(Outcome(r, "ok"))}
    ELSE IF cancelled THEN {NoNode(Retry(o)) : o \in Submit(i, r)}
    ELSE IF Dormant(r)
    THEN {NoNode(Outcome([r EXCEPT !.rearm = FALSE, !.holdoff = FALSE], "ok"))}
    ELSE Deliver(i, r, Observation(r), TRUE)
         \cup {[e EXCEPT !.o.used = @ + 1] : e \in
                IF kind = "PIPE" /\ CanFail({"sample"}) # {}
                THEN Deliver(i, r, {}, FALSE) ELSE {}}

HandleCompletion(i) ==
    LET r == reg[i]
        q == [r EXCEPT !.owned = @ \/ (MayConsume /\ r.poll = "PENDING")]
    IN  \E d \in Disarm(i, q) :
        LET p == [d.r EXCEPT !.posted = FALSE]
        IN  \E e \in IF Failed(d) THEN DisarmFailed(i, p)
                     ELSE Completed(i, [p EXCEPT !.poll = "IDLE"], r.poll = "CANCELLED") :
            /\ \E o \in After(d, {e.o}) : Apply(i, o)
            /\ ready' = ready \o e.node
            /\ asyncErr' = (asyncErr \/ e.err)

----------------------------------------------------------------------------
(* The waiter: ep_port_wait_timeout_impl with room for one event.  With    *)
(* one registration no error waits behind an event of another, so the call *)
(* that records async_error also takes it.                                 *)

Return(res) == pc' = "out" /\ result' = res /\ active' = FALSE
ReleaseHoldoffs ==     \* ep_port_release_deferred_rearms_locked
    [i \in Regs |-> IF Live(i) /\ reg[i].rearm THEN [reg[i] EXCEPT !.holdoff = FALSE] ELSE reg[i]]

WaitEnter ==
    /\ pc = "out" /\ ~closing
    /\ reg' = ReleaseHoldoffs
    /\ pc' = "top" /\ active' = TRUE /\ result' = "none"
    /\ UNCHANGED <<objVars, count, hup, hook, table, ready, queue, nextGen, faults, portVars,
                   held>>

LoopTop ==
    /\ pc = "top"
    /\ IF closing THEN Return("error") ELSE pc' = "drain" /\ UNCHANGED <<active, result>>
    /\ UNCHANGED <<objVars, count, hup, reg, hook, table, ready, queue, nextGen, faults,
                   portVars, held>>

(* ep_drain_to_buffer.  Delivery starts the next observation, except for a *)
(* one-shot, for a process or thread that is reported, and for a client    *)
(* pipe whose final state is reported.                                     *)
MutAfterDrain == [drain |-> "dequeue", again |-> "dequeue", last |-> "check"]    \* mutant: blocks without the arm pass
AfterDrain == [drain |-> "arm", again |-> "dequeue", last |-> "check"]

Delivered(r, n, level, valid) ==
    LET et == "ET" \in r.mode
        pipeEt == kind = "PIPE" /\ et
        idle == r.oneshot \/ (kind = "TERMINAL" /\ et)
                \/ (pipeEt /\ valid /\ level = n.events /\ IsFinal(n.events))
        reopened == (et /\ kind = "CONSUMPTIVE") \/ (pipeEt /\ valid /\ level = {})
    IN  [r EXCEPT !.ready = FALSE, !.balance = @ - One(consumes),
                  !.terminal = IF pipeEt THEN FinalShape(n.events) ELSE @,
                  !.observed = IF reopened THEN {} ELSE @,
                  !.holdoff = @ /\ idle, !.rearm = @ \/ ~idle]

Drain ==
    LET n == Head(ready)
        current == table # None /\ reg[table].gen = n.gen
        bad == IF kind = "PIPE" THEN CanFail({"sample"}) ELSE {}
    IN  /\ pc \in DOMAIN AfterDrain \cup {"failed"}
        /\ \/ /\ ready = <<>> /\ pc # "failed" /\ pc' = AfterDrain[pc]
              /\ UNCHANGED <<reg, ready, faults, active, result>>
           \/ /\ ready # <<>> /\ ~current /\ ready' = Tail(ready)
              /\ UNCHANGED <<reg, faults, active, pc, result>>
           \/ /\ ready # <<>> /\ current /\ ready' = Tail(ready)
              /\ \/ /\ reg' = [reg EXCEPT ![table] = Delivered(@, n, Level(@), TRUE)]
                    /\ UNCHANGED faults
                 \/ /\ bad # {} /\ faults' = faults + 1
                    /\ reg' = [reg EXCEPT ![table] = Delivered(@, n, {}, FALSE)]
              /\ Return("event")
        /\ UNCHANGED <<objVars, count, hup, hook, table, queue, nextGen, portVars, held>>

(* ep_port_arm_pending_locked for the one registration; a fired one-shot   *)
(* is only probed, which does not touch the handle.                        *)
ArmPass ==
    /\ pc = "arm"
    /\ IF table = None \/ ~reg[table].rearm
       THEN /\ pc' = "again"
            /\ UNCHANGED <<count, reg, hook, table, queue, nextGen, faults, portVars, active, result>>
       ELSE \E o \in Submit(table, reg[table]) :
            LET bad == Failed(o) \/ o.res = "gone" IN
            /\ Apply(table, o) /\ table' = TableAfter(table, o)
            /\ nextGen' = IF o.res = "gone" THEN nextGen + 1 ELSE nextGen
            /\ asyncErr' = bad
            /\ pc' = IF bad THEN "failed" ELSE "again"
            /\ UNCHANGED <<active, result>>
    /\ UNCHANGED <<objVars, hup, ready, held>>

(* An arm pass that failed returns what is queued before its error. *)
ArmFailed ==
    /\ pc = "failed" /\ ready = <<>>
    /\ asyncErr' = FALSE /\ Return("error")
    /\ UNCHANGED <<objVars, count, hup, reg, hook, table, ready, queue, nextGen, faults,
                   closing, iocpOpen, held>>

Dequeue ==
    /\ pc \in {"dequeue", "draining"} /\ iocpOpen /\ queue # <<>>
    /\ held' = Head(queue) /\ queue' = Tail(queue)
    /\ pc' = IF pc = "dequeue" THEN "complete" ELSE "reclaim"
    /\ UNCHANGED <<objVars, count, hup, reg, hook, table, ready, nextGen, faults, portVars,
                   active, result>>

(* Nothing to dequeue: the deferred edge-triggered rearms are retried, the *)
(* packet of a closing port or a closed handle ends the wait, or the wait  *)
(* times out.                                                              *)
DeferredRetry ==
    /\ pc = "dequeue" /\ iocpOpen /\ queue = <<>>
    /\ \E i \in Regs : Live(i) /\ reg[i].rearm /\ reg[i].holdoff
    /\ reg' = ReleaseHoldoffs /\ pc' = "top"
    /\ UNCHANGED <<objVars, count, hup, hook, table, ready, queue, nextGen, faults,
                   portVars, active, held, result>>
ClosedWait ==
    /\ pc = "dequeue" /\ closing /\ (queue = <<>> \/ ~iocpOpen)
    /\ Return("error")
    /\ UNCHANGED <<objVars, count, hup, reg, hook, table, ready, queue, nextGen, faults,
                   portVars, held>>
Timeout ==
    /\ pc = "dequeue" /\ iocpOpen /\ queue = <<>>
    /\ Return("timeout")
    /\ UNCHANGED <<objVars, count, hup, reg, hook, table, ready, queue, nextGen, faults,
                   portVars, held>>

Complete ==
    /\ pc \in {"complete", "reclaim"}
    /\ HandleCompletion(held)
    /\ held' = None
    /\ pc' = IF pc = "complete" THEN "last" ELSE "draining"
    /\ UNCHANGED <<objVars, hup, table, nextGen, active, result>>

Check ==
    /\ pc = "check"
    /\ IF asyncErr \/ closing THEN Return("error") ELSE pc' = "top" /\ UNCHANGED <<active, result>>
    /\ asyncErr' = FALSE
    /\ UNCHANGED <<objVars, count, hup, reg, hook, table, ready, queue, nextGen, faults,
                   closing, iocpOpen, held>>

----------------------------------------------------------------------------
(* ep_port_begin_close and ep_port_destroy, which starts when the waiter   *)
(* has left: every registration is detached and cancelled, the packets in  *)
(* flight are drained, and what cannot be drained is leaked.               *)

BeginClose ==
    /\ Closes /\ ~closing
    /\ closing' = TRUE
    /\ \/ UNCHANGED <<iocpOpen, faults>>
       \/ CanFail({"post"}) # {} /\ iocpOpen' = FALSE /\ faults' = faults + 1
    /\ UNCHANGED <<objVars, count, hup, reg, hook, table, ready, queue, nextGen, asyncErr, waitVars>>

DetachAll(bad) ==
    [i \in Regs |->
        IF ~Live(i) THEN Free
        ELSE LET r == [reg[i] EXCEPT !.deleted = TRUE, !.rearm = FALSE, !.oneshot = FALSE]
             IN  IF r.poll = "IDLE" \/ (r.poll = "PENDING" /\ i \notin bad /\ ~r.posted)
                 THEN Free
                 ELSE IF r.poll = "PENDING" /\ i \notin bad
                 THEN [r EXCEPT !.poll = "CANCELLED", !.wait = FALSE] ELSE r]
Destroy ==
    /\ pc = "out" /\ closing
    /\ \E bad \in SUBSET {i \in Regs : Live(i) /\ reg[i].poll = "PENDING" /\ reg[i].wait} :
        /\ bad # {} => CanFail({"disarm"}) # {}
        /\ \A i \in Regs : Live(i) /\ reg[i].poll = "PENDING" =>
             hook[i] \in IF i \in bad THEN {"none", "armed", "entered"} ELSE {"none", "armed"}
        /\ reg' = DetachAll(bad)
        /\ hook' = [i \in Regs |-> IF Live(i) /\ i \notin bad /\ hook[i] = "armed"
                                     /\ reg[i].poll = "PENDING" THEN "none" ELSE hook[i]]
        /\ faults' = faults + Cardinality(bad)
    /\ pc' = "draining" /\ table' = None
    /\ UNCHANGED <<objVars, count, hup, ready, queue, nextGen, portVars, active, held, result>>

FinishDestroy ==
    /\ pc = "draining" /\ \A i \in Regs : ~Live(i)
    /\ pc' = "destroyed" /\ ready' = <<>>
    /\ UNCHANGED <<objVars, count, hup, reg, hook, table, queue, nextGen, faults, portVars,
                   active, held, result>>

Abandon ==
    /\ pc = "draining" /\ \E i \in Regs : Live(i)
    /\ pc' = "abandoned" /\ iocpOpen' = FALSE
    /\ UNCHANGED <<objVars, count, hup, reg, hook, table, ready, queue, nextGen, faults,
                   closing, asyncErr, active, held, result>>

----------------------------------------------------------------------------
Wait == \/ LoopTop \/ Drain \/ ArmPass \/ ArmFailed \/ Dequeue \/ DeferredRetry
        \/ ClosedWait \/ Complete \/ Check
Pool(i) == Fire(i) \/ CallbackOwn(i) \/ CallbackPost(i)
Control == \/ \E m \in Masks, md \in Modes : Add(m, md) \/ Mod(m, md)
           \/ \E m \in Masks : ModNoMemory(m)
           \/ Rearm \/ Del
Next ==
    \/ Signal \/ Unsignal \/ PeerClose \/ Reconnect
    \/ \E i \in Regs : Pool(i)
    \/ Control
    \/ WaitEnter \/ Wait \/ Timeout
    \/ BeginClose \/ Destroy \/ FinishDestroy \/ Abandon

Spec == Init /\ [][Next]_vars

(* The application waits again and again, a waiter that can go on does,    *)
(* and the thread pool runs what is due.                                   *)
Fairness == WF_vars(WaitEnter) /\ WF_vars(Wait) /\ \A i \in Regs : WF_vars(Pool(i))
FairSpec == Spec /\ Fairness

----------------------------------------------------------------------------
(* The storage of a registration outlives everything that points to it: a  *)
(* wait or timer of the pool, a callback, a packet that is queued or in    *)
(* the hands of the waiter.  Whichever of DEL, MOD, a failed ADD, a        *)
(* completion and the destruction of the port frees it, and whether or not *)
(* the wait could be disarmed (the asserts of ep_sock_free_locked).        *)
StorageHeld ==
    \A i \in Regs : ~Live(i) => /\ hook[i] = "none" /\ held # i
                                /\ \A k \in 1..Len(queue) : queue[k] # i

(* A wait that consumes a signal hands it on exactly once: every signal    *)
(* taken from the handle is reported, in the current ready node, owned by  *)
(* the registration, or in a callback that has just been entered.  MOD,    *)
(* rearm, dormancy, cancellation and failed calls move it, and neither     *)
(* lose nor double it (waitable_notification_owned).                       *)
NotificationConserved ==
    consumes /\ ~closing =>
        \A i \in Regs : Live(i) /\ ~reg[i].deleted =>
            reg[i].balance = One(reg[i].owned) + One(reg[i].ready) + One(hook[i] = "entered")

(* A registration the application relies on is never left without anybody  *)
(* to act on it: it is queued, on the rearm list, disabled on purpose, or  *)
(* its request can still end through the pool or a packet.                 *)
NoneForgotten ==
    ~closing => \A i \in Regs : Live(i) /\ ~reg[i].deleted =>
        LET r == reg[i] IN
        IF r.poll = "IDLE"
        THEN \/ r.rearm \/ r.ready \/ r.oneshot \/ Dormant(r)
             \/ "ET" \in r.mode /\ (kind = "TERMINAL" \/ (~server /\ r.terminal))
        ELSE r.rearm \/ r.posted \/ hook[i] # "none"

(* A signal or level the application is interested in is reported, after   *)
(* any interleaving of control calls with the callback and with failures   *)
(* that stop.                                                              *)
Owed ==
    /\ table # None /\ ~closing
    /\ LET r == reg[table] IN
        /\ ~Dormant(r)
        /\ r.ready \/ (~r.oneshot /\ (r.owned \/ Level(r) \ r.observed # {}))
EventuallyReported == Owed ~> (~Owed \/ result = "event")
=============================================================================
