------------------------------ MODULE IocpWake ------------------------------
(***************************************************************************)
(* Posting to and waiting on the completion port of one epoll port         *)
(* (src/wepoll_ex_port.c): application wakes, the packets of thread-pool   *)
(* callbacks, post failures, ep_port_begin_close and the waiters.          *)
(*                                                                         *)
(* closing, iocp_post_error and wake_pending are atomics read and written  *)
(* outside any common lock, so every access that another thread can come   *)
(* between is an action of its own; iocp_post_lock and wake_lock make each *)
(* of their sections one action.  What a dequeued packet does to sockets   *)
(* is the subject of PortSockets: here it may make the port ready.         *)
(***************************************************************************)
EXTENDS Integers, Sequences, FiniteSets

CONSTANTS
    Wakers,     \* threads that call wepoll_ex_wake and wepoll_ex_wake_event
    Callbacks,  \* thread-pool callbacks, each with one completion to post
    Waiters,    \* threads that call epoll_wait
    Finite,     \* those of them that give a timeout
    Faulty,     \* PostQueuedCompletionStatus can fail
    Batch,      \* iocp_batch_size: packets one dequeue can return
    None

ASSUME RolesDisjoint == Wakers \cap Callbacks = {} /\ None \notin Wakers \cup Waiters

Posters == Wakers \cup Callbacks

ASSUME PostersFinite == IsFiniteSet(Posters)

VARIABLES
    queue,       \* packets in the completion port: "control" or a callback
    postHandle,  \* port->iocp_post_handle # NULL
    iocpClosed,  \* port->iocp_closed
    closes,      \* CloseHandle calls made on the completion port
    closing,     \* port->closing
    postErr,     \* port->iocp_post_error # 0
    pending,     \* port->wake_pending
    event,       \* port->wake_event: the thread whose payload it is
    ppc,         \* where each poster is
    bpc,         \* where ep_port_begin_close is
    holder,      \* the waiter that has wait_lock
    waiting,     \* the waiters that want it
    wpc, nowait, \* the holder's place, and wait_ms = 0
    ready,       \* the ready queue is not empty
    failed,      \* the last call to return found the port closed or gone
    owed,        \* accepted wake requests no wait has returned for
    reported     \* a wait has returned the post error

portVars == <<queue, postHandle, iocpClosed, closes, closing, postErr>>
wakeVars == <<pending, event, owed>>
waitVars == <<holder, waiting, wpc, nowait, ready, failed, reported>>
vars == <<portVars, wakeVars, waitVars, ppc, bpc>>

Init ==
    /\ queue = <<>> /\ postHandle = TRUE /\ iocpClosed = FALSE /\ closes = 0
    /\ closing = FALSE /\ postErr = FALSE
    /\ pending = "NONE" /\ event = None /\ owed = [w \in Wakers |-> "none"]
    /\ ppc = [p \in Posters |-> "idle"] /\ bpc = "none"
    /\ holder = None /\ waiting = {} /\ wpc = "out" /\ nowait = FALSE
    /\ ready = FALSE /\ failed = FALSE /\ reported = FALSE

----------------------------------------------------------------------------
(* ep_port_request_wake, the section of wake_lock: a pending request       *)
(* absorbs this one, and a tagged request upgrades an untagged one.        *)
MutMerged(kind) == kind      \* mutant: the last request replaces the pending one
Merged(kind) == IF pending = "TAGGED" THEN "TAGGED" ELSE kind

NeedsPacket == pending = "NONE"

RequestWake(w, kind) ==
    /\ ppc[w] = "idle" /\ bpc = "none"
    /\ ~closing /\ ~iocpClosed
    /\ pending' = Merged(kind)
    /\ event' = IF kind = "TAGGED" /\ pending # "TAGGED" THEN w ELSE event
    /\ owed' = [owed EXCEPT ![w] = IF kind = "TAGGED" \/ @ = "TAGGED" THEN "TAGGED" ELSE kind]
    /\ ppc' = [ppc EXCEPT ![w] = IF NeedsPacket THEN "post" ELSE "idle"]
    /\ UNCHANGED <<portVars, waitVars, bpc>>

(* ep_aux_post_completion: completion_posted keeps it to one packet. *)
AuxPost(c) ==
    /\ ppc[c] = "idle"
    /\ \A i \in DOMAIN queue : queue[i] # c
    /\ ppc' = [ppc EXCEPT ![c] = "post"]
    /\ UNCHANGED <<portVars, wakeVars, waitVars, bpc>>

(* ep_port_post_iocp: the handle is read and used under iocp_post_lock. *)
Packet(p) == IF p \in Wakers THEN "control" ELSE p

Post(p) ==
    /\ ppc[p] = "post" /\ postHandle
    /\ queue' = Append(queue, Packet(p))
    /\ ppc' = [ppc EXCEPT ![p] = "idle"]
    /\ UNCHANGED <<postHandle, iocpClosed, closes, closing, postErr, wakeVars, waitVars, bpc>>

(* The request that could not be posted is withdrawn: it fails. *)
PostFails(p) ==
    /\ ppc[p] = "post" /\ (~postHandle \/ Faulty)
    /\ ppc' = [ppc EXCEPT ![p] = IF p \in Wakers THEN "clear" ELSE "load"]
    /\ owed' = [w \in Wakers |-> IF w = p THEN "none" ELSE owed[w]]
    /\ UNCHANGED <<portVars, pending, event, waitVars, bpc>>

ClearPending(w) ==
    /\ ppc[w] = "clear"
    /\ pending' = "NONE"
    /\ ppc' = [ppc EXCEPT ![w] = "load"]
    /\ UNCHANGED <<portVars, event, owed, waitVars, bpc>>

(* ep_port_fail_iocp_post: a port that is not closing already records the  *)
(* error, then starts closing, then revokes and closes the handle.         *)
FailLoad(p) ==
    /\ ppc[p] = "load"
    /\ ppc' = [ppc EXCEPT ![p] = IF closing THEN "idle" ELSE "error"]
    /\ UNCHANGED <<portVars, wakeVars, waitVars, bpc>>

FailError(p) ==
    /\ ppc[p] = "error"
    /\ postErr' = TRUE
    /\ ppc' = [ppc EXCEPT ![p] = "closing"]
    /\ UNCHANGED <<queue, postHandle, iocpClosed, closes, closing, wakeVars, waitVars, bpc>>

FailClosing(p) ==
    /\ ppc[p] = "closing"
    /\ closing' = TRUE
    /\ ppc' = [ppc EXCEPT ![p] = "revoke"]
    /\ UNCHANGED <<queue, postHandle, iocpClosed, closes, postErr, wakeVars, waitVars, bpc>>

(* ep_port_revoke_iocp_posts: the caller that finds iocp_closed clear owns *)
(* the handle.                                                             *)
MutRevokeOwns == TRUE        \* mutant: every caller thinks it owns the handle
RevokeOwns == ~iocpClosed

FailRevoke(p) ==
    /\ ppc[p] = "revoke"
    /\ postHandle' = FALSE /\ iocpClosed' = TRUE
    /\ ppc' = [ppc EXCEPT ![p] = IF RevokeOwns THEN "close" ELSE "idle"]
    /\ UNCHANGED <<queue, closes, closing, postErr, wakeVars, waitVars, bpc>>

(* CloseHandle: queued packets are gone and a blocked dequeue fails. *)
FailClose(p) ==
    /\ ppc[p] = "close"
    /\ closes' = closes + 1
    /\ ppc' = [ppc EXCEPT ![p] = "idle"]
    /\ UNCHANGED <<queue, postHandle, iocpClosed, closing, postErr, wakeVars, waitVars, bpc>>

Poster(p) ==
    \/ Post(p) \/ PostFails(p) \/ FailLoad(p) \/ FailError(p)
    \/ FailClosing(p) \/ FailRevoke(p) \/ FailClose(p)
PosterStep(p) == Poster(p) \/ (p \in Wakers /\ ClearPending(p))

----------------------------------------------------------------------------
(* ep_port_begin_close: the first to set closing wakes the waiter with a   *)
(* control packet, or by closing the completion port.                      *)
CloseStart ==
    /\ bpc = "none"
    /\ closing' = TRUE
    /\ bpc' = IF closing THEN "done" ELSE "post"
    /\ UNCHANGED <<queue, postHandle, iocpClosed, closes, postErr, wakeVars, waitVars, ppc>>

MutClosePost ==              \* mutant: no packet for the waiter
    /\ bpc = "post" /\ postHandle
    /\ bpc' = "done"
    /\ UNCHANGED <<portVars, wakeVars, waitVars, ppc>>
ClosePost ==
    /\ bpc = "post" /\ postHandle
    /\ queue' = Append(queue, "control")
    /\ bpc' = "done"
    /\ UNCHANGED <<postHandle, iocpClosed, closes, closing, postErr, wakeVars, waitVars, ppc>>

ClosePostFails ==
    /\ bpc = "post" /\ (~postHandle \/ Faulty)
    /\ postHandle' = FALSE /\ iocpClosed' = TRUE
    /\ bpc' = IF postHandle THEN "close" ELSE "done"
    /\ UNCHANGED <<queue, closes, closing, postErr, wakeVars, waitVars, ppc>>

CloseHandle ==
    /\ bpc \in {"close", "finish"}
    /\ closes' = closes + 1
    /\ bpc' = IF bpc = "close" THEN "done" ELSE "gone"
    /\ UNCHANGED <<queue, postHandle, iocpClosed, closing, postErr, wakeVars, waitVars, ppc>>

(* ep_port_finish_destroy_locked, ep_port_abandon_locked: no public call   *)
(* is left; a callback may still run against an abandoned port.            *)
FinishDestroy ==
    /\ bpc = "done"
    /\ holder = None /\ waiting = {} /\ \A w \in Wakers : ppc[w] = "idle"
    /\ postHandle' = FALSE /\ iocpClosed' = TRUE
    /\ bpc' = IF RevokeOwns THEN "finish" ELSE "gone"
    /\ UNCHANGED <<queue, closes, closing, postErr, wakeVars, waitVars, ppc>>

Closer == CloseStart \/ ClosePost \/ ClosePostFails \/ CloseHandle \/ FinishDestroy
CloserStep == ClosePost \/ ClosePostFails \/ CloseHandle

----------------------------------------------------------------------------
(* ep_port_wait_timeout_impl *)
WaitEnter(w) ==
    /\ w # holder /\ w \notin waiting /\ bpc = "none"
    /\ waiting' = waiting \cup {w}
    /\ failed' = FALSE
    /\ UNCHANGED <<portVars, wakeVars, holder, wpc, nowait, ready, reported, ppc, bpc>>

(* ep_wait_lock_acquire *)
WaitLock(w) ==
    /\ w \in waiting /\ holder = None
    /\ holder' = w /\ waiting' = waiting \ {w}
    /\ wpc' = "take"
    /\ UNCHANGED <<portVars, wakeVars, nowait, ready, failed, reported, ppc, bpc>>

WaitLockFails(w) ==
    /\ w \in waiting \cap Finite /\ holder # None
    /\ waiting' = waiting \ {w}
    /\ IF closing
       THEN failed' = ~postErr /\ reported' = (reported \/ postErr)
       ELSE failed' = FALSE /\ UNCHANGED reported
    /\ UNCHANGED <<portVars, wakeVars, holder, wpc, nowait, ready, ppc, bpc>>

Goto(label) == wpc' = label /\ UNCHANGED <<holder, failed, reported>>
Return(r) ==
    /\ holder' = None /\ wpc' = "out"
    /\ failed' = (r \in {"EBADF", "abandoned"})
    /\ reported' = (reported \/ r = "post error")
TakePostError == postErr' = FALSE /\ Return("post error")

(* ep_port_take_iocp_post_error, then closing, then the error once more:   *)
(* it is recorded before closing is set.                                   *)
WaitTake ==
    /\ wpc = "take"
    /\ IF postErr THEN TakePostError ELSE UNCHANGED postErr /\ Goto("check")
    /\ UNCHANGED <<queue, postHandle, iocpClosed, closes, closing, wakeVars, waiting,
                   nowait, ready, ppc, bpc>>

WaitCheck ==
    /\ wpc \in {"check", "after check"}
    /\ Goto(IF closing THEN "retake" ELSE IF wpc = "check" THEN "drain" ELSE "wake")
    /\ UNCHANGED <<portVars, wakeVars, waiting, nowait, ready, ppc, bpc>>

MutWaitRetake ==             \* mutant: the error is not read again
    /\ wpc = "retake"
    /\ Return("EBADF")
    /\ UNCHANGED <<portVars, wakeVars, waiting, nowait, ready, ppc, bpc>>
WaitRetake ==
    /\ wpc = "retake"
    /\ IF postErr THEN TakePostError ELSE UNCHANGED postErr /\ Return("EBADF")
    /\ UNCHANGED <<queue, postHandle, iocpClosed, closes, closing, wakeVars, waiting,
                   nowait, ready, ppc, bpc>>

WaitDrain ==
    /\ wpc = "drain"
    /\ IF ready THEN Return("events") ELSE Goto("load")
    /\ ready' = FALSE
    /\ UNCHANGED <<portVars, wakeVars, waiting, nowait, ppc, bpc>>

(* A pending wake makes the dequeue nonblocking: its packet may have gone  *)
(* with an earlier batch.                                                  *)
MutNoWait == FALSE           \* mutant: wake_pending is not read
NoWait == pending # "NONE"

WaitLoad ==
    /\ wpc = "load"
    /\ nowait' = NoWait
    /\ Goto("dequeue")
    /\ UNCHANGED <<portVars, wakeVars, waiting, ready, ppc, bpc>>

(* The deadline has passed already: the wait returns without a dequeue. *)
WaitDeadline ==
    /\ wpc = "load" /\ holder \in Finite
    /\ Return("timeout")
    /\ UNCHANGED <<portVars, wakeVars, waiting, nowait, ready, ppc, bpc>>

(* GetQueuedCompletionStatusEx: the packets there are, up to a batch; *)
WaitDequeue(n) ==
    /\ wpc = "dequeue" /\ closes = 0
    /\ n = IF Len(queue) < Batch THEN Len(queue) ELSE Batch
    /\ queue' = SubSeq(queue, n + 1, Len(queue))
    /\ ready' \in {ready, \E i \in 1..n : queue[i] # "control"}
    /\ Goto("after")
    /\ nowait' = FALSE
    /\ UNCHANGED <<postHandle, iocpClosed, closes, closing, postErr, wakeVars, waiting,
                   ppc, bpc>>

(* a timeout; or the completion port has been closed. *)
WaitDequeueFails ==
    /\ wpc = "dequeue"
    /\ \/ closes > 0
       \/ queue = <<>> /\ (nowait \/ holder \in Finite)
    /\ IF postErr THEN TakePostError
       ELSE /\ UNCHANGED postErr
            /\ IF closes > 0 THEN Return("abandoned") ELSE Goto("wake")
    /\ nowait' = FALSE
    /\ UNCHANGED <<queue, postHandle, iocpClosed, closes, closing, wakeVars, waiting,
                   ready, ppc, bpc>>

(* The packets have been dispatched: events first, then errors, then a     *)
(* closing port, then a wake.                                              *)
WaitAfter ==
    /\ wpc = "after"
    /\ IF ready THEN UNCHANGED postErr /\ Return("events")
       ELSE IF postErr THEN TakePostError
       ELSE UNCHANGED postErr /\ Goto("after check")
    /\ ready' = FALSE
    /\ UNCHANGED <<queue, postHandle, iocpClosed, closes, closing, wakeVars, waiting,
                   nowait, ppc, bpc>>

(* ep_port_take_wake *)
WaitWake ==
    /\ wpc = "wake" /\ pending # "NONE"
    /\ Return(IF pending = "TAGGED" THEN "wake event" ELSE "wake")
    /\ pending' = "NONE" /\ event' = None
    /\ owed' = [w \in Wakers |-> "none"]
    /\ UNCHANGED <<portVars, waiting, nowait, ready, ppc, bpc>>

(* Neither: the deadline, or another round. *)
WaitExpires ==
    /\ wpc = "wake" /\ pending = "NONE"
    /\ (holder \in Finite /\ Return("timeout")) \/ Goto("take")
    /\ UNCHANGED <<portVars, wakeVars, waiting, nowait, ready, ppc, bpc>>

HolderStep ==
    \/ WaitTake \/ WaitCheck \/ WaitRetake \/ WaitDrain \/ WaitLoad \/ WaitDeadline
    \/ \E n \in 1..Batch : WaitDequeue(n)
    \/ WaitDequeueFails \/ WaitAfter \/ WaitWake \/ WaitExpires

Next ==
    \/ \E w \in Wakers, kind \in {"UNTAGGED", "TAGGED"} : RequestWake(w, kind)
    \/ \E c \in Callbacks : AuxPost(c)
    \/ \E p \in Posters : PosterStep(p)
    \/ Closer
    \/ \E w \in Waiters : WaitEnter(w)
    \/ \E w \in Waiters : WaitLock(w) \/ WaitLockFails(w)
    \/ HolderStep

Spec == Init /\ [][Next]_vars

(* Threads inside the library run on; a freed wait_lock goes to each       *)
(* waiter in turn.  No thread has to call anything.                        *)
FairSpec ==
    /\ Spec
    /\ \A p \in Posters : WF_vars(PosterStep(p))
    /\ WF_vars(CloserStep) /\ WF_vars(HolderStep)
    /\ \A w \in Waiters : SF_vars(WaitLock(w))

----------------------------------------------------------------------------
(* The completion port's handle has exactly one owner until it is closed,  *)
(* once: the post lease, or the one thread that revoked it and is about to *)
(* close it.  So no post uses a closed handle and none is leaked.          *)
HandleLease ==
    closes + (IF postHandle THEN 1 ELSE 0)
           + Cardinality({p \in Posters : ppc[p] = "close"})
           + (IF bpc \in {"close", "finish"} THEN 1 ELSE 0) = 1

(* No accepted wake is lost, and no tagged one is reduced to a zero-event  *)
(* return, whichever way requests, waits and failed posts of other         *)
(* requests interleave: until a wait has returned for it, the request is   *)
(* pending, or the port has failed or is about to.                         *)
WakeNotLost ==
    closing \/ (\E p \in Posters : ppc[p] \in {"clear", "load", "error", "closing"})
    \/ \A w \in Wakers :
        /\ owed[w] # "none" => pending # "NONE"
        /\ owed[w] = "TAGGED" => pending = "TAGGED" /\ owed[event] = "TAGGED"

(* A failed post is not masked by the closing flag it sets: a wait on a    *)
(* port the application has not closed reports EBADF, or an abandoned      *)
(* dequeue, only after some wait has reported the error itself.            *)
ErrorNotMasked ==
    failed => bpc # "none" \/ reported

(* A wait with no timeout does not sleep through a wake: once one is       *)
(* pending the wait that holds the lock returns.                           *)
WakeEndsWait == (pending # "NONE" /\ holder # None) ~> holder = None \/ pending = "NONE"

(* Every wait on a closing port returns, also those queued for wait_lock:  *)
(* by the control packet, by the closed handle or by the flag.             *)
CloseEndsWaits == \A w \in Waiters : closing /\ (w = holder \/ w \in waiting)
                                        ~> w # holder /\ w \notin waiting
=============================================================================
