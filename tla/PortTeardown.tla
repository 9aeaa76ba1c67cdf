---------------------------- MODULE PortTeardown ----------------------------
(***************************************************************************)
(* The end of a port (ep_port_begin_close to ep_port_destroy of            *)
(* src/wepoll_ex_port.c) together with the descriptor table that decides   *)
(* who tears it down (EpfdTable).                                          *)
(*                                                                         *)
(* The kernel writes into the storage of a request until it completes, so  *)
(* the closing thread cancels everything and drains the completion port    *)
(* for a bounded time.  A port that does not drain goes to a reaper thread *)
(* for a second, longer, period; their number is limited.  What cannot be  *)
(* drained at all is leaked.  The requests of a port are only counted      *)
(* here; their registrations are modelled in PortSockets and AuxWaits.     *)
(***************************************************************************)
EXTENDS EpfdTable

CONSTANTS
    MaxReapers,   \* EP_MAX_ACTIVE_QUARANTINES
    MaxRequests   \* bound: requests of a port in the kernel

ASSUME ThreadsNamed == None \notin Threads
ASSUME LimitsNatural == MaxReapers \in Nat /\ MaxRequests \in Nat

VARIABLES
    port,       \* each port: "open", "drain", "admitted", "reap", "freed" or "leaked"
    kernel,     \* requests the kernel still writes to
    pending,    \* port->pending_poll_count: those whose packet is not handled yet
    iocpOpen,   \* the completion port accepts and returns packets
    timing,     \* the thread whose wait has armed the port's precise timeout
    timer,      \* "off", "armed", "running" (its callback) or "fired"
    reaping,    \* ports that hold one of the reaper slots
    active,     \* g_active_quarantines
    quarantined, reaped, irrecoverable     \* the counters of that name

portVars == <<port, kernel, pending, iocpOpen, timing, timer, reaping, active, quarantined,
              reaped, irrecoverable>>
timerVars == <<timing, timer>>
statVars == <<reaping, active, quarantined, reaped, irrecoverable>>
allVars  == <<vars, portVars>>

TeardownInit ==
    /\ Init
    /\ port = [s \in Shared |-> "open"]
    /\ kernel = [s \in Shared |-> 0] /\ pending = [s \in Shared |-> 0]
    /\ iocpOpen = [s \in Shared |-> TRUE]
    /\ timing = [s \in Shared |-> None] /\ timer = [s \in Shared |-> "off"]
    /\ reaping = {} /\ active = 0
    /\ quarantined = 0 /\ reaped = 0 /\ irrecoverable = 0

----------------------------------------------------------------------------
(* An operation submits a request; the kernel completes it, and its packet *)
(* is lost if the completion port is closed.                               *)
Submit(t) ==
    LET s == arg[t] IN
    /\ pc[t] = "op" /\ ~portClosing[s] /\ pending[s] < MaxRequests
    /\ kernel' = [kernel EXCEPT ![s] = @ + 1]
    /\ pending' = [pending EXCEPT ![s] = @ + 1]
    /\ UNCHANGED <<vars, port, iocpOpen, timerVars, statVars>>

KernelCompletes(s) ==
    /\ kernel[s] > 0
    /\ kernel' = [kernel EXCEPT ![s] = @ - 1]
    /\ UNCHANGED <<vars, port, pending, iocpOpen, timerVars, statVars>>

(* ep_port_dispatch_iocp_entry of one packet *)
Dispatch(s) ==
    /\ iocpOpen[s] /\ pending[s] > kernel[s]
    /\ pending' = [pending EXCEPT ![s] = @ - 1]
    /\ UNCHANGED <<vars, port, kernel, iocpOpen, timerVars, statVars>>

WaitDispatches(t) == pc[t] = "wait" /\ Dispatch(arg[t])

(* ep_port_begin_close: if the wake cannot be posted, the completion port  *)
(* is closed instead.                                                      *)
BeginPortClose(t) ==
    /\ BeginClose(t)
    /\ iocpOpen' \in {iocpOpen, [iocpOpen EXCEPT ![arg[t]] = FALSE]}
    /\ UNCHANGED <<port, kernel, pending, timerVars, statVars>>

(* ep_port_precise_timeout_arm: the wait that holds wait_lock has one timer *)
(* whose callback runs at most once and posts to the port.                 *)
ArmTimeout(t) ==
    LET s == arg[t] IN
    /\ pc[t] = "wait" /\ timing[s] = None /\ ~portClosing[s]
    /\ timing' = [timing EXCEPT ![s] = t] /\ timer' = [timer EXCEPT ![s] = "armed"]
    /\ UNCHANGED <<vars, port, kernel, pending, iocpOpen, statVars>>
TimeoutCallback(s) ==
    /\ timer[s] \in {"armed", "running"}
    /\ timer' = [timer EXCEPT ![s] = IF @ = "armed" THEN "running" ELSE "fired"]
    /\ UNCHANGED <<vars, port, kernel, pending, iocpOpen, timing, statVars>>

(* ep_port_precise_timeout_disarm, before wait_lock is given up: a callback *)
(* that runs is waited for ("Synchronous disassociation is mandatory").    *)
MutJoined(s) == TRUE    \* mutant: it is not waited for
Joined(s) == timer[s] # "running"
DisarmTimeout(t) ==
    LET s == arg[t] IN
    /\ pc[t] = "wait" /\ timing[s] = t /\ Joined(s)
    /\ timing' = [timing EXCEPT ![s] = None]
    /\ timer' = [timer EXCEPT ![s] = IF @ = "running" THEN @ ELSE "off"]
    /\ UNCHANGED <<vars, port, kernel, pending, iocpOpen, statVars>>

----------------------------------------------------------------------------
(* ep_port_finish_destroy_locked and ep_port_abandon_locked *)
Finished(s) ==
    /\ port' = [port EXCEPT ![s] = "freed"] /\ iocpOpen' = [iocpOpen EXCEPT ![s] = FALSE]
    /\ UNCHANGED <<kernel, pending, timerVars>>
Abandoned(s) ==
    /\ port' = [port EXCEPT ![s] = "leaked"] /\ iocpOpen' = [iocpOpen EXCEPT ![s] = FALSE]
    /\ irrecoverable' = irrecoverable + 1
    /\ UNCHANGED <<kernel, pending, timerVars>>

(* The results of ep_port_drain_pending_until *)
MutDrained(s) == kernel[s] = 0    \* mutant: packets that are still queued are overlooked
Drained(s) == pending[s] = 0
TimedOut(s) == pending[s] > 0 /\ iocpOpen[s]

(* ep_port_destroy: the cancellation pass, then the packets *)
StartDrain(t) ==
    LET s == arg[t] IN
    /\ pc[t] = "destroy" /\ port[s] = "open"
    /\ port' = [port EXCEPT ![s] = "drain"]
    /\ UNCHANGED <<vars, kernel, pending, iocpOpen, timerVars, statVars>>
DrainPacket(t) == pc[t] = "destroy" /\ port[arg[t]] = "drain" /\ Dispatch(arg[t])
DrainDone(t) ==
    /\ pc[t] = "destroy" /\ port[arg[t]] = "drain" /\ Drained(arg[t])
    /\ Finished(arg[t]) /\ Destroy(t)
    /\ UNCHANGED statVars

(* The completion port is closed or its dequeue fails. *)
DrainFails(t) ==
    /\ pc[t] = "destroy" /\ port[arg[t]] = "drain" /\ ~Drained(arg[t])
    /\ Abandoned(arg[t]) /\ Destroy(t)
    /\ quarantined' = quarantined + 1
    /\ UNCHANGED <<reaping, active, reaped>>

(* ep_port_quarantine_recoverable_locked: a slot is taken before the       *)
(* reaper thread is created, and given back if it cannot be.               *)
MayAdmit == active < MaxReapers
Admit(t) ==
    LET s == arg[t] IN
    /\ pc[t] = "destroy" /\ port[s] = "drain" /\ TimedOut(s) /\ MayAdmit
    /\ active' = active + 1 /\ reaping' = reaping \cup {s}
    /\ quarantined' = quarantined + 1
    /\ port' = [port EXCEPT ![s] = "admitted"]
    /\ UNCHANGED <<vars, kernel, pending, iocpOpen, timerVars, reaped, irrecoverable>>
NotAdmitted(t) ==
    LET s == arg[t] IN
    /\ pc[t] = "destroy" /\ port[s] = "drain" /\ TimedOut(s) /\ ~MayAdmit
    /\ quarantined' = quarantined + 1
    /\ Abandoned(s) /\ Destroy(t)
    /\ UNCHANGED <<reaping, active, reaped>>
Spawn(t) ==
    LET s == arg[t] IN
    /\ pc[t] = "destroy" /\ port[s] = "admitted"
    /\ port' = [port EXCEPT ![s] = "reap"]
    /\ Destroy(t)
    /\ UNCHANGED <<kernel, pending, iocpOpen, timerVars, statVars>>
MutSpawnFails(t) ==      \* mutant: the slot is not given back
    LET s == arg[t] IN
    /\ pc[t] = "destroy" /\ port[s] = "admitted"
    /\ reaping' = reaping \ {s}
    /\ Abandoned(s) /\ Destroy(t)
    /\ UNCHANGED <<active, quarantined, reaped>>
SpawnFails(t) ==
    LET s == arg[t] IN
    /\ pc[t] = "destroy" /\ port[s] = "admitted"
    /\ active' = active - 1 /\ reaping' = reaping \ {s}
    /\ Abandoned(s) /\ Destroy(t)
    /\ UNCHANGED <<quarantined, reaped>>

(* ep_port_reaper_thread *)
ReapPacket(s) == port[s] = "reap" /\ Dispatch(s)
ReapDone(s) ==
    /\ port[s] = "reap" /\ Drained(s)
    /\ Finished(s) /\ reaped' = reaped + 1
    /\ UNCHANGED <<vars, reaping, active, quarantined, irrecoverable>>
MutReapGivesUp(s) ==     \* mutant: waits for a request that never completes
    /\ port[s] = "reap" /\ ~Drained(s) /\ ~iocpOpen[s]
    /\ Abandoned(s)
    /\ UNCHANGED <<vars, reaping, active, quarantined, reaped>>
ReapGivesUp(s) ==
    /\ port[s] = "reap" /\ ~Drained(s)
    /\ Abandoned(s)
    /\ UNCHANGED <<vars, reaping, active, quarantined, reaped>>
ReaperExits(s) ==
    /\ s \in reaping /\ port[s] \in {"freed", "leaked"}
    /\ active' = active - 1 /\ reaping' = reaping \ {s}
    /\ UNCHANGED <<vars, port, kernel, pending, iocpOpen, timerVars, quarantined, reaped,
                   irrecoverable>>

----------------------------------------------------------------------------
Untimed(t) == pc[t] = "wait" => timing[arg[t]] # t
TableStep(t) ==
    /\ pc[t] \notin {"begin_close", "destroy"} /\ Untimed(t)
    /\ ThreadStep(t) /\ UNCHANGED portVars
WaitStep(t) == WaitDispatches(t) \/ ArmTimeout(t) \/ DisarmTimeout(t)
PortStep(t) ==
    \/ BeginPortClose(t) \/ StartDrain(t) \/ DrainPacket(t) \/ DrainDone(t) \/ DrainFails(t)
    \/ Admit(t) \/ NotAdmitted(t) \/ Spawn(t) \/ SpawnFails(t)
ReaperStep(s) == ReapPacket(s) \/ ReapDone(s) \/ ReapGivesUp(s) \/ ReaperExits(s)

TeardownNext ==
    \/ \E t \in Threads : TableStep(t) \/ PortStep(t) \/ Submit(t) \/ WaitStep(t)
    \/ \E s \in Shared : KernelCompletes(s) \/ TimeoutCallback(s) \/ ReaperStep(s)

(* A thread inside wepoll_close or epfd_destroy keeps running, and so does *)
(* a reaper: both drain for a bounded time.  Nothing is assumed of the     *)
(* kernel, which may never complete a request, nor of the operations that  *)
(* hold references.                                                        *)
TeardownSpec ==
    /\ TeardownInit /\ [][TeardownNext]_allVars
    /\ \A t \in Threads : WF_allVars((TableStep(t) /\ pc[t] \in ClosePcs) \/ PortStep(t))
    /\ \A s \in Shared : WF_allVars(ReaperStep(s))
PortOperationsReturn ==
    /\ \A t \in Threads : WF_allVars(\/ Returns(t) /\ Untimed(t) /\ UNCHANGED portVars
                                    \/ DisarmTimeout(t))
    /\ \A s \in Shared : WF_allVars(TimeoutCallback(s))

----------------------------------------------------------------------------
(* The storage of a port is freed only when the kernel has let go of all   *)
(* of it and every packet that points to it has been dequeued, whichever   *)
(* of the closing thread and the reaper frees it; and only once.           *)
KernelStorageHeld ==
    \A s \in Shared :
        /\ pending[s] >= kernel[s]
        /\ port[s] = "freed" => pending[s] = 0
        /\ port[s] \in {"reap", "freed", "leaked"} => life[s] = "freed"

(* No timeout callback runs on a port whose wait has returned: the wait's  *)
(* reference may have been the last, and the port be destroyed at once.    *)
CallbackHeld ==
    \A s \in Shared : timer[s] = "running" =>
        port[s] = "open" /\ \E t \in Holders(s) : pc[t] = "wait"

(* The reaper limit counts the reapers there are: it is never exceeded and *)
(* no slot is lost when a thread cannot be created, so later ports are not *)
(* refused for ever.  The public counters agree: a quarantined port is     *)
(* reaped, irrecoverable or still in the hands of a reaper.                *)
ReaperSlotsExact ==
    /\ active = Cardinality(reaping) /\ active <= MaxReapers
    /\ quarantined = reaped + irrecoverable
                     + Cardinality({s \in Shared : port[s] \in {"admitted", "reap"}})

(* If operations return, a port whose last descriptor is closed is freed   *)
(* or given up in bounded time and its reaper is gone, even if the kernel  *)
(* never completes a request.                                              *)
TeardownSettles ==
    PortOperationsReturn =>
        \A s \in Shared : closing[s] ~> (port[s] \in {"freed", "leaked"} /\ s \notin reaping)

(* wepoll_close, and the operation that inherits the teardown, return even *)
(* when a request never completes or another operation is stuck ("A stuck  *)
(* public operation must not make close hang").                            *)
TeardownReturns == \A t \in Threads : pc[t] \in OwnerPcs ~> pc[t] = "idle"
=============================================================================
