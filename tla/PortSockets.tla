---------------------------- MODULE PortSockets ----------------------------
(***************************************************************************)
(* The socket registrations of one port (src/wepoll_ex_port.c): the        *)
(* ep_sock_t storage, its AFD poll requests, the ready queue and the       *)
(* waiter, with the control operations of other threads.                   *)
(*                                                                         *)
(* An action is one critical section of fd_table_lock.  The two sections   *)
(* that loop, the drain of the ready queue and the arm pass, take a step   *)
(* per node or registration and keep the lock (LockFree) between them: the *)
(* kernel and the network act meanwhile, other threads do not.             *)
(*                                                                         *)
(* Modelled is the hardened default build for established TCP sockets,     *)
(* without EPOLLEXCLUSIVE (ExclusiveClaims), explicit rearm and local      *)
(* shutdown.  Outcomes the code cannot choose are nondeterministic; those  *)
(* of failing calls are enabled by Faults.                                 *)
(***************************************************************************)
EXTENDS Integers, Sequences, FiniteSets

CONSTANTS
    Fds,        \* numeric SOCKET values
    Socks,      \* blocks of ep_sock_t storage
    Active,     \* events the network can raise
    Masks,      \* interest masks the application uses
    Modes,      \* per descriptor, the flag sets it uses: subsets of {"ET", "ONESHOT"}
    Term,       \* the terminal event, part of every poll
    Faults,     \* calls that can fail: "submit", "cancel", "node", "post", "dequeue"
    Closes,     \* the application closes the port at some time
    Coalesce,   \* maxevents exceeds EP_WAIT_COALESCE_THRESHOLD
    MaxEvents,  \* bound: capacity of the caller's array
    MaxObj,     \* bound: kernel sockets that use one numeric value in turn
    MaxGen,     \* bound: registration generations a control call may start
    None

VARIABLES
    object, isOpen, level,       \* the kernel: what each fd names, its events
    oldest,                      \* auxiliary: first socket each fd named in this wait
    sock,                        \* ep_sock_t storage, or Free
    io,                          \* the request or packet that owns the storage
    table,                       \* fd_table
    ready,                       \* ready_queue
    pending, nextGen,            \* pending_poll_count, next_sock_generation
    closing, asyncErr, postErr, iocpOpen, afdOpen,
    epoch, active, coalescing,   \* active_wait_epoch # 0, waiter_active, ...
    pc, cont, batch, todo, armErr,  \* the waiter
    out,                         \* the events this wait returns
    data                         \* user data last set through each fd

kernelVars == <<object, isOpen, level, oldest>>
waitVars   == <<epoch, active, coalescing, pc, cont, batch, todo, armErr, out>>
portVars   == <<closing, asyncErr, postErr, iocpOpen, afdOpen>>
vars == <<kernelVars, sock, io, table, ready, pending, nextGen, portVars,
          waitVars, data>>

Free == [state |-> "free"]
Allocated == {s \in Socks : sock[s] # Free}
Full(m) == m \cup {Term}

Init ==
    /\ object = [f \in Fds |-> 1] /\ isOpen = [f \in Fds |-> TRUE]
    /\ level = [f \in Fds |-> {}] /\ oldest = [f \in Fds |-> 1]
    /\ sock = [s \in Socks |-> Free] /\ io = [s \in Socks |-> "none"]
    /\ table = [f \in Fds |-> None] /\ ready = <<>>
    /\ pending = 0 /\ nextGen = 0
    /\ closing = FALSE /\ asyncErr = FALSE /\ postErr = FALSE
    /\ iocpOpen = TRUE /\ afdOpen = TRUE
    /\ epoch = FALSE /\ active = FALSE /\ coalescing = FALSE
    /\ pc = "out" /\ cont = "out" /\ batch = {} /\ todo = {} /\ armErr = FALSE
    /\ out = <<>> /\ data = [f \in Fds |-> None]

LockFree == pc \notin {"draining", "arming", "destroying", "destroyed", "abandoned"}

----------------------------------------------------------------------------
(* ep_sock_validate_identity_locked: the fd still names the socket that    *)
(* was added.  The delivery path asks once per wait and remembers.         *)
SameSocket(r) == isOpen[r.fd] /\ object[r.fd] = r.object
Remember(r) == [r EXCEPT !.checked = epoch]
Confirmed(r) == (epoch /\ r.checked) \/ SameSocket(r)

(* An outcome of an operation on one registration: its storage, what owns  *)
(* it, whether the call failed, whether a post failure closed the port,    *)
(* and whether an immediate snapshot is handed to the caller.              *)
Outcome(r, owner, res) == [sock |-> r, io |-> owner, res |-> res]

(* ep_sock_drop_closed_locked, for a registration that is not in flight *)
Dropped == Outcome(Free, "none", "gone")

(* ep_afd_poll_submit and the rest of ep_sock_submit_locked: the request   *)
(* stays with the kernel if nothing it covers is active; otherwise its     *)
(* snapshot is used in place, discarded when no wait is active, or posted. *)
AfdSubmit(r, inline) ==
    LET f == r.fd
        q == [r EXCEPT !.submitted = Full(r.interest), !.fresh = epoch, !.polled = object[f],
                       !.result = level[f] \cap Full(r.interest)]
    IN  IF ~isOpen[f] THEN {Dropped}
        ELSE IF q.result = {}
        THEN {Outcome([q EXCEPT !.poll = "PENDING", !.rearm = FALSE,
                                !.observed = IF "ET" \in r.mode THEN {} ELSE @],
                      "polling", "ok")}
        ELSE IF inline THEN {Outcome([q EXCEPT !.rearm = FALSE], "none", "inline")}
        ELSE IF ~epoch THEN {Outcome(q, "none", "ok")}
        ELSE {Outcome([q EXCEPT !.poll = "PENDING", !.rearm = FALSE], "packet", "ok")}
             \cup {Outcome(q, "none", "fatal") : x \in Faults \cap {"post"}}

(* ep_sock_submit_locked *)
Submit(r, validated, inline) ==
    IF closing \/ r.deleted \/ r.ready \/ r.poll # "IDLE" \/ r.holdoff
    THEN {Outcome(r, "keep", "ok")}
    ELSE IF ~validated /\ ~Confirmed(r) THEN {Dropped}
    ELSE LET v == IF validated THEN r ELSE Remember(r)
         IN  (IF v.oneshot
              THEN IF isOpen[r.fd] THEN {Outcome(v, "keep", "ok")} ELSE {Dropped}
              ELSE IF ~v.rearm THEN {Outcome(v, "keep", "ok")}
              ELSE AfdSubmit(v, inline))
             \cup {Outcome(v, "keep", "fail") : x \in IF v.rearm \/ v.oneshot
                                                     THEN Faults \cap {"submit"} ELSE {}}

(* ep_sock_cancel_locked, ep_afd_cancel: a request whose completion is     *)
(* already queued is not found and stays PENDING.                          *)
Cancel(r, owner) ==
    IF r.poll # "PENDING" \/ owner # "polling" THEN {Outcome(r, owner, "ok")}
    ELSE {Outcome([r EXCEPT !.poll = "CANCELLED"], owner, "ok")}
         \cup {Outcome(r, owner, "fail") : x \in Faults \cap {"cancel"}}

(* A detached registration keeps its storage until its packet arrives. *)
Detached(r, g) ==
    IF r.poll = "IDLE" THEN Free
    ELSE [r EXCEPT !.deleted = TRUE, !.rearm = FALSE, !.gen = g]

(* ep_sock_retire_stale_locked *)
MutRetired(r, owner, g) == {Outcome(Free, owner, "gone")}    \* mutant: no cancellation
Retired(r, owner, g) ==
    {Outcome(Detached([c.sock EXCEPT !.oneshot = FALSE], g), c.io, "gone") :
        c \in Cancel(r, owner)}

(* ep_port_fail_iocp_post after a failed post: the port is closing, the    *)
(* error is kept for the waiter and the completion port is closed.         *)
PostResult(o) ==
    IF o.res = "fatal" /\ ~closing
    THEN closing' = TRUE /\ postErr' = TRUE /\ iocpOpen' = FALSE
    ELSE UNCHANGED <<closing, postErr, iocpOpen>>

(* ep_fd_table_remove *)
Removed(s) == [f \in Fds |-> IF table[f] = s THEN None ELSE table[f]]

(* Publish outcome o of an operation on s *)
Apply(s, o) ==
    /\ sock' = [sock EXCEPT ![s] = o.sock]
    /\ io' = [io EXCEPT ![s] = IF o.io = "keep" THEN @ ELSE o.io]
    /\ table' = IF o.res = "gone" THEN Removed(s) ELSE table
    /\ PostResult(o)
InFlight(o) == IF o.io \in {"polling", "packet"} THEN 1 ELSE 0
Failed(o) == o.res \in {"fail", "fatal"}

----------------------------------------------------------------------------
(* Control operations *)

NewSock(f, m, md, g) ==
    [state |-> "live", fd |-> f, object |-> object[f], interest |-> m, mode |-> md,
     gen |-> g, data |-> g, born |-> g, poll |-> "IDLE", submitted |-> {}, polled |-> 0, fresh |-> FALSE,
     result |-> {}, rearm |-> TRUE, oneshot |-> FALSE, ready |-> FALSE,
     holdoff |-> FALSE, observed |-> {}, deleted |-> FALSE, checked |-> FALSE]

(* ep_port_register: a stale registration of the same number is retired    *)
(* first; the first poll is submitted at once and its failure undoes ADD.  *)
Add(f, m, md) ==
  LET t == table[f]
      g == IF t = None THEN nextGen + 1 ELSE nextGen + 2
  IN
    /\ LockFree /\ ~closing /\ nextGen < MaxGen
    /\ isOpen[f]
    /\ t # None => object[f] # sock[t].object
    /\ \E s \in Socks \ Allocated :
        \E o \in Submit(NewSock(f, m, md, g), TRUE, FALSE) :
        \E old \in IF t = None THEN {Outcome(Free, "none", "ok")}
                   ELSE Retired(sock[t], io[t], nextGen + 1) :
            LET kept == ~Failed(o)
                base == IF t = None THEN sock ELSE [sock EXCEPT ![t] = old.sock]
            IN  /\ sock' = IF kept THEN [base EXCEPT ![s] = o.sock] ELSE base
                /\ io' = [io EXCEPT ![s] = IF o.io = "keep" THEN "none" ELSE o.io]
                /\ table' = [table EXCEPT ![f] = IF kept THEN s ELSE None]
                /\ data' = [data EXCEPT ![f] = IF kept THEN g ELSE None]
                /\ pending' = pending + InFlight(o)
                /\ PostResult(o)
    /\ nextGen' = g
    /\ UNCHANGED <<kernelVars, ready, asyncErr, afdOpen, waitVars>>

(* ep_sock_validate_control_locked: the number names another socket, or    *)
(* none; the call fails and retires the registration.                      *)
ControlStale(f) ==
    /\ LockFree /\ table[f] # None /\ ~SameSocket(sock[table[f]])
    /\ \E o \in Retired(sock[table[f]], io[table[f]], nextGen + 1) : Apply(table[f], o)
    /\ nextGen' = nextGen + 1
    /\ data' = [data EXCEPT ![f] = None]
    /\ UNCHANGED <<kernelVars, ready, pending, asyncErr, afdOpen, waitVars>>

(* The registration the control operation on f finds *)
Target(f, s) ==
    /\ LockFree /\ nextGen < MaxGen
    /\ table[f] = s
    /\ SameSocket(sock[s])

(* A control operation has made r of s: it submits at once for a waiter    *)
(* that is not collecting events, and a failure restores the old state.    *)
MutPartialRollback(s, old, r) ==    \* mutant: the generation is not restored
    IF r.poll = "IDLE" /\ active /\ ~coalescing
    THEN {IF Failed(o) THEN Outcome([old EXCEPT !.gen = r.gen], "keep", o.res) ELSE o :
            o \in Submit(r, TRUE, FALSE)}
    ELSE {Outcome(r, "keep", "ok")}
MutSubmitWhileCollecting(s, old, r) ==    \* mutant: waiter_coalescing is not read
    IF r.poll = "IDLE" /\ active
    THEN {IF Failed(o) THEN Outcome(old, "keep", o.res) ELSE o : o \in Submit(r, TRUE, FALSE)}
    ELSE {Outcome(r, "keep", "ok")}
SubmitForWaiter(s, old, r) ==
    IF r.poll = "IDLE" /\ active /\ ~coalescing
    THEN {IF Failed(o) THEN Outcome(old, "keep", o.res) ELSE o : o \in Submit(r, TRUE, FALSE)}
    ELSE {Outcome(r, "keep", "ok")}

(* ep_port_modify: a pending poll that covers the mask stays; any other is *)
(* cancelled, and the registration is polled again.  Queued nodes of the   *)
(* old generation are invalidated.                                         *)
Changed(r, m, md, g) ==
    [r EXCEPT !.interest = m, !.mode = md, !.data = g, !.gen = g, !.observed = {},
              !.holdoff = FALSE, !.oneshot = FALSE, !.ready = FALSE]
Modified(r, m, md, covers, g) ==
    [Changed(r, m, md, g) EXCEPT !.rearm = @ \/ ~covers]

Mod(f, s, m, md) ==
    LET r == sock[s]
        covers == r.poll = "PENDING" /\ Full(m) \subseteq r.submitted
    IN  /\ Target(f, s)
        /\ \E c \in IF covers THEN {Outcome(r, io[s], "ok")} ELSE Cancel(r, io[s]) :
            /\ ~Failed(c)
            /\ \E o \in SubmitForWaiter(s, r, Modified(c.sock, m, md, covers, nextGen + 1)) :
                /\ Apply(s, o)
                /\ pending' = pending + InFlight(o)
                /\ data' = IF Failed(o) THEN data ELSE [data EXCEPT ![f] = nextGen + 1]
        /\ nextGen' = nextGen + 1
        /\ UNCHANGED <<kernelVars, ready, asyncErr, afdOpen, waitVars>>

(* ep_port_rearm of a fired one-shot registration *)
Rearm(f, s) ==
    LET r == sock[s]
        n == [r EXCEPT !.oneshot = FALSE, !.observed = {}, !.holdoff = FALSE,
                       !.rearm = TRUE, !.ready = FALSE, !.gen = nextGen + 1]
    IN  /\ Target(f, s) /\ r.oneshot
        /\ \E o \in SubmitForWaiter(s, r, n) :
            Apply(s, o) /\ pending' = pending + InFlight(o)
        /\ nextGen' = nextGen + 1
        /\ UNCHANGED <<kernelVars, ready, asyncErr, afdOpen, waitVars, data>>

(* ep_port_unregister: detaches at once whether or not the poll can be     *)
(* cancelled.                                                              *)
Del(f, s) ==
    /\ LockFree /\ table[f] = s /\ SameSocket(sock[s])
    /\ \E c \in Cancel(sock[s], io[s]) :
        Apply(s, Outcome(Detached(c.sock, nextGen + 1), "keep", "gone"))
    /\ nextGen' = nextGen + 1
    /\ data' = [data EXCEPT ![f] = None]
    /\ UNCHANGED <<kernelVars, ready, pending, asyncErr, afdOpen, waitVars>>

----------------------------------------------------------------------------
(* The kernel and the network *)

Raise(f, e) ==
    /\ isOpen[f] /\ e \notin level[f]
    /\ level' = [level EXCEPT ![f] = @ \cup {e}]
    /\ UNCHANGED <<object, isOpen, oldest, sock, io, table, ready, pending, nextGen,
                   portVars, waitVars, data>>

Lower(f, e) ==
    /\ e \in level[f]
    /\ level' = [level EXCEPT ![f] = @ \ {e}]
    /\ UNCHANGED <<object, isOpen, oldest, sock, io, table, ready, pending, nextGen,
                   portVars, waitVars, data>>

(* The application closes the socket without EPOLL_CTL_DEL; the number is  *)
(* used again later.                                                       *)
NativeClose(f) ==
    /\ isOpen[f] /\ object[f] < MaxObj
    /\ isOpen' = [isOpen EXCEPT ![f] = FALSE]
    /\ level' = [level EXCEPT ![f] = {}]
    /\ UNCHANGED <<object, oldest, sock, io, table, ready, pending, nextGen, portVars,
                   waitVars, data>>

Reuse(f) ==
    /\ ~isOpen[f]
    /\ isOpen' = [isOpen EXCEPT ![f] = TRUE]
    /\ object' = [object EXCEPT ![f] = @ + 1]
    /\ UNCHANGED <<level, oldest, sock, io, table, ready, pending, nextGen, portVars,
                   waitVars, data>>

(* A request completes: an event it covers is active, its socket was       *)
(* closed, or it was cancelled.  The packet is queued to the port.         *)
KernelComplete(s) ==
    LET r == sock[s]
        hit == level[r.fd] \cap r.submitted
        gone == ~isOpen[r.fd] \/ object[r.fd] # r.polled
    IN  /\ io[s] = "polling"
        /\ gone \/ hit # {} \/ r.poll = "CANCELLED" \/ ~afdOpen
        /\ io' = [io EXCEPT ![s] = "packet"]
        /\ sock' = [sock EXCEPT ![s].result = IF gone THEN {"closed"}
                                              ELSE IF hit = {} THEN {"cancelled"} ELSE hit]
        /\ UNCHANGED <<kernelVars, table, ready, pending, nextGen, portVars,
                       waitVars, data>>

----------------------------------------------------------------------------
(* Completions *)

(* The events of a snapshot, merged with the levels of the moment          *)
(* (ep_socket_merge_current_levels) unless these cannot be read; an edge-  *)
(* triggered registration drops what is no longer active.                  *)
Snapshot(r, readable) ==
    LET now == level[r.fd] \cap Full(r.interest)
        merged == IF Term \in r.result THEN r.result ELSE r.result \cup now
        all == IF ~readable THEN r.result
               ELSE IF "ET" \in r.mode THEN merged \cap (now \cup {Term}) ELSE merged
    IN  all \cap Full(r.interest)

(* The tail of ep_sock_handle_completion: outcomes with the node to queue. *)
Node(r, ev) == [fd |-> r.fd, gen |-> r.gen, data |-> r.data, born |-> r.born, events |-> ev]
NoNode(o) == [o |-> o, node |-> <<>>, err |-> Failed(o)]
Retry(o) == IF o.res = "fail" THEN [o EXCEPT !.sock.rearm = TRUE] ELSE o

MutUnqueued(r) == r          \* mutant: the snapshot is lost with the node
Unqueued(r) == [r EXCEPT !.rearm = TRUE]

Deliver(r, readable) ==
    LET snap == Snapshot(r, readable)
        et == "ET" \in r.mode
        ev == IF et THEN snap \ r.observed ELSE snap
        seen == IF et THEN snap ELSE {}
        quiet == [r EXCEPT !.observed = seen, !.holdoff = et, !.rearm = TRUE]
        fired == [r EXCEPT !.observed = seen, !.holdoff = FALSE, !.ready = TRUE,
                           !.oneshot = @ \/ "ONESHOT" \in r.mode]
    IN  IF ev = {}
        THEN IF et THEN {NoNode(Outcome(quiet, "keep", "ok"))}
             ELSE {NoNode(Retry(o)) : o \in Submit(quiet, FALSE, FALSE)}
        ELSE {[o |-> Outcome(fired, "keep", "ok"), node |-> <<Node(r, ev)>>, err |-> FALSE]}
             \cup {[o |-> Outcome(Unqueued(r), "keep", "ok"),
                    node |-> <<>>, err |-> TRUE] : x \in Faults \cap {"node"}}

Translate(r) == UNION {Deliver(r, b) : b \in BOOLEAN}

(* ep_sock_handle_completion for a live registration whose poll has been   *)
(* retired: a snapshot of an earlier wait, or one that misses part of the  *)
(* interest, is replaced by a new poll before it can be delivered.         *)
Settle(r, was) ==
    IF was = "CANCELLED" \/ r.result = {"cancelled"}
    THEN {NoNode(Retry(o)) : o \in Submit(r, FALSE, FALSE)}
    ELSE IF r.result = {"closed"} THEN {NoNode(Dropped)}
    ELSE IF ~r.fresh \/ ~(Full(r.interest) \subseteq r.submitted)
    THEN UNION {IF o.res = "inline" THEN Translate(o.sock) ELSE {NoNode(Retry(o))} :
                    o \in Submit([r EXCEPT !.rearm = TRUE], FALSE, TRUE)}
    ELSE Translate(r)

(* One packet of the batch is handled. *)
HandleCompletion(s) ==
    LET was == sock[s].poll
        r == [sock[s] EXCEPT !.poll = "IDLE"]
    IN  /\ pc = "dispatch" /\ s \in batch
        /\ batch' = batch \ {s}
        /\ IF was = "IDLE"
           THEN UNCHANGED <<sock, io, table, ready, pending, nextGen, closing, postErr, iocpOpen, asyncErr>>
           ELSE \E x \in IF r.deleted THEN {NoNode(Outcome(Free, "none", "ok"))}
                         ELSE IF closing THEN {NoNode(Outcome(r, "none", "ok"))}
                         ELSE {[y EXCEPT !.o.io = IF @ = "keep" THEN "none" ELSE @] :
                                    y \in Settle(r, was)} :
                /\ Apply(s, x.o)
                /\ ready' = ready \o x.node
                /\ pending' = pending - 1 + InFlight(x.o)
                /\ asyncErr' = (asyncErr \/ x.err)
                /\ nextGen' = IF x.o.res = "gone" THEN nextGen + 1 ELSE nextGen
        /\ UNCHANGED <<kernelVars, afdOpen, epoch, active, coalescing, pc, cont,
                       todo, armErr, out, data>>

----------------------------------------------------------------------------
(* The waiter: ep_port_wait_timeout_impl, whose callers wait_lock          *)
(* serialises.                                                             *)

Socks_(F(_)) == [s \in Socks |-> IF sock[s] = Free THEN Free ELSE F(sock[s])]
MutNewWait(r) == [r EXCEPT !.fresh = FALSE]    \* mutant: verdicts outlive the wait
NewWait(r) == [r EXCEPT !.fresh = FALSE, !.checked = FALSE]
MutReleaseHoldoff(r) == r    \* mutant: deferred rearms stay deferred
ReleaseHoldoff(r) == IF r.rearm THEN [r EXCEPT !.holdoff = FALSE] ELSE r

Goto(label) == pc' = label /\ UNCHANGED <<epoch, active, coalescing, cont, batch, todo, armErr, out>>

(* A new wait epoch begins; deferred edge rearms become eligible and an    *)
(* error deferred behind an earlier batch is returned first.               *)
WaitEnter ==
    /\ pc = "out"
    /\ epoch' = TRUE /\ active' = TRUE /\ out' = <<>>
    /\ sock' = Socks_(NewWait)
    /\ oldest' = [f \in Fds |-> IF isOpen[f] THEN object[f] ELSE object[f] + 1]
    /\ pc' = "start"
    /\ UNCHANGED <<object, isOpen, level, io, table, ready, pending, nextGen, portVars,
                   coalescing, cont, batch, todo, armErr, data>>

WaitStart ==
    /\ pc = "start"
    /\ IF postErr \/ closing
       THEN postErr' = FALSE /\ Goto("leave") /\ UNCHANGED <<sock, asyncErr>>
       ELSE /\ sock' = Socks_(ReleaseHoldoff)
            /\ asyncErr' = FALSE
            /\ Goto(IF asyncErr THEN "leave" ELSE "loop")
            /\ UNCHANGED postErr
    /\ UNCHANGED <<kernelVars, io, table, ready, pending, nextGen, closing, iocpOpen, afdOpen, data>>

DrainThen(label) ==
    /\ pc' = "drain" /\ cont' = label
    /\ UNCHANGED <<epoch, active, coalescing, batch, todo, armErr, out>>

WaitLoop ==
    /\ pc = "loop"
    /\ IF postErr \/ closing THEN postErr' = FALSE /\ Goto("leave")
                             ELSE UNCHANGED postErr /\ DrainThen("arm")
    /\ UNCHANGED <<kernelVars, sock, io, table, ready, pending, nextGen, closing,
                   asyncErr, iocpOpen, afdOpen, data>>

(* ep_drain_to_buffer, one node: valid if its generation is the current    *)
(* one of the registration its number finds.                               *)
MutValidNode(n) == table[n.fd] # None    \* mutant: the generation is not compared
ValidNode(n) ==
    /\ table[n.fd] # None
    /\ sock[table[n.fd]].gen = n.gen
    /\ ~sock[table[n.fd]].deleted

Drained(r) ==
    [r EXCEPT !.ready = FALSE, !.rearm = @ \/ ~r.oneshot, !.holdoff = @ /\ r.oneshot]

DeliverNode(n, s) ==
    /\ Apply(s, Outcome(Drained(Remember(sock[s])), "keep", "ok"))
    /\ out' = Append(out, n)
    /\ coalescing' = (coalescing \/ Coalesce)
    /\ UNCHANGED nextGen

DrainNode ==
    LET n == Head(ready)
        s == table[n.fd]
    IN  /\ pc \in {"drain", "draining"}
        /\ ready # <<>> /\ Len(out) < MaxEvents
        /\ ready' = Tail(ready)
        /\ IF ~ValidNode(n)
           THEN UNCHANGED <<sock, io, table, closing, postErr, iocpOpen, nextGen, out, coalescing>>
           ELSE IF Confirmed(sock[s]) THEN DeliverNode(n, s)
           ELSE /\ \E o \in Retired(sock[s], io[s], nextGen + 1) : Apply(s, o)
                /\ nextGen' = nextGen + 1
                /\ UNCHANGED <<out, coalescing>>
        /\ pc' = "draining"
        /\ UNCHANGED <<kernelVars, pending, asyncErr, afdOpen, epoch, active, cont,
                       batch, todo, armErr, data>>

DrainDone ==
    /\ pc \in {"drain", "draining"}
    /\ ready = <<>> \/ Len(out) = MaxEvents
    /\ IF out # <<>> /\ cont # "fail"
       THEN Goto("coalesce") /\ UNCHANGED <<asyncErr, postErr>>
       ELSE IF cont = "fail"
       THEN /\ Goto("leave")
            /\ asyncErr' = (asyncErr /\ out # <<>>)
            /\ postErr' = (postErr /\ out # <<>>)
       ELSE Goto(cont) /\ UNCHANGED <<asyncErr, postErr>>
    /\ UNCHANGED <<kernelVars, sock, io, table, ready, pending, nextGen, closing,
                   iocpOpen, afdOpen, data>>

(* ep_port_arm_pending_locked: every registration that waits for a rearm   *)
(* and every fired one-shot is visited once.                               *)
ArmStart ==
    /\ pc = "arm"
    /\ IF asyncErr
       THEN asyncErr' = FALSE /\ Goto("leave")
       ELSE /\ UNCHANGED asyncErr
            /\ todo' = {s \in Allocated : sock[s].rearm \/ sock[s].oneshot}
            /\ armErr' = FALSE /\ pc' = "arming"
            /\ UNCHANGED <<epoch, active, coalescing, cont, batch, out>>
    /\ UNCHANGED <<kernelVars, sock, io, table, ready, pending, nextGen, closing,
                   postErr, iocpOpen, afdOpen, data>>

ArmStep(s) ==
    /\ pc = "arming" /\ s \in todo
    /\ todo' = todo \ {s}
    /\ \E o \in Submit(sock[s], FALSE, FALSE) :
        /\ Apply(s, o)
        /\ pending' = pending + InFlight(o)
        /\ nextGen' = IF o.res = "gone" THEN nextGen + 1 ELSE nextGen
        /\ armErr' = (armErr \/ Failed(o))
        /\ asyncErr' = (asyncErr \/ Failed(o))
    /\ UNCHANGED <<kernelVars, ready, afdOpen, epoch, active, coalescing, pc, cont,
                   batch, out, data>>

ArmDone ==
    /\ pc = "arming" /\ todo = {}
    /\ DrainThen(IF armErr THEN "fail" ELSE "dequeue")
    /\ UNCHANGED <<kernelVars, sock, io, table, ready, pending, nextGen, portVars, data>>

(* GetQueuedCompletionStatusEx returns some of the queued packets, or a    *)
(* control packet; or it times out.  The deadline ends the wait, also      *)
(* before it dequeues what is there; any other timeout starts another      *)
(* round, with the deferred rearms if these made it a short one.  A closed *)
(* completion port is an error.                                            *)
Packets == {s \in Socks : io[s] = "packet"}

Dequeue(B) ==
    /\ pc \in {"dequeue", "coalesce"} /\ iocpOpen
    /\ pc = "coalesce" => B # {} /\ Coalesce /\ Len(out) < MaxEvents
    /\ B \subseteq Packets
    /\ batch' = B
    /\ cont' = IF pc = "coalesce" THEN "coalesce" ELSE "after"
    /\ pc' = "dispatch"
    /\ UNCHANGED <<kernelVars, sock, io, table, ready, pending, nextGen, portVars,
                   epoch, active, coalescing, todo, armErr, out, data>>

DispatchDone ==
    /\ pc = "dispatch" /\ batch = {}
    /\ DrainThen(cont)
    /\ UNCHANGED <<kernelVars, sock, io, table, ready, pending, nextGen, portVars, data>>

DequeueFails ==
    /\ ~iocpOpen \/ "dequeue" \in Faults
    /\ pc = "dequeue" \/ (pc = "coalesce" /\ Coalesce /\ Len(out) < MaxEvents)
    /\ postErr' = (postErr /\ pc = "coalesce")
    /\ asyncErr' = (asyncErr \/ pc = "coalesce")
    /\ Goto("leave")
    /\ UNCHANGED <<kernelVars, sock, io, table, ready, pending, nextGen, closing,
                   iocpOpen, afdOpen, data>>

DeferredRetry ==
    /\ pc = "dequeue" /\ Packets = {}
    /\ \E s \in Allocated : sock[s].rearm /\ sock[s].holdoff
    /\ sock' = Socks_(ReleaseHoldoff)
    /\ Goto("loop")
    /\ UNCHANGED <<kernelVars, io, table, ready, pending, nextGen, portVars, data>>

TimedOut ==
    /\ pc = "dequeue"
    /\ Goto("leave") \/ (Packets = {} /\ Goto("loop"))
    /\ UNCHANGED <<kernelVars, sock, io, table, ready, pending, nextGen, portVars, data>>

CoalesceDone ==
    /\ pc = "coalesce"
    /\ Goto("leave")
    /\ UNCHANGED <<kernelVars, sock, io, table, ready, pending, nextGen, portVars, data>>

(* Nothing was ready: errors and closing end the wait, a wake or the       *)
(* deadline may, and otherwise it goes on.                                 *)
WaitAgain ==
    /\ pc = "after"
    /\ postErr' = FALSE
    /\ asyncErr' = (asyncErr /\ postErr)
    /\ \/ Goto("leave")
       \/ ~postErr /\ ~asyncErr /\ ~closing /\ Goto("loop")
    /\ UNCHANGED <<kernelVars, sock, io, table, ready, pending, nextGen, closing,
                   iocpOpen, afdOpen, data>>

(* The wait returns; its three flags are stored one by one, without the    *)
(* lock.                                                                   *)
WaitLeave ==
    /\ pc = "leave"
    /\ coalescing' = FALSE /\ active' = FALSE
    /\ pc' = "left"
    /\ UNCHANGED <<kernelVars, sock, io, table, ready, pending, nextGen, portVars,
                   epoch, cont, batch, todo, armErr, out, data>>

WaitReturn ==
    /\ pc = "left"
    /\ epoch' = FALSE
    /\ pc' = "out"
    /\ UNCHANGED <<kernelVars, sock, io, table, ready, pending, nextGen, portVars,
                   active, coalescing, cont, batch, todo, armErr, out, data>>

----------------------------------------------------------------------------
(* Closing *)

BeginClose ==
    /\ Closes /\ ~closing
    /\ closing' = TRUE
    /\ UNCHANGED <<kernelVars, sock, io, table, ready, pending, nextGen, asyncErr,
                   postErr, iocpOpen, afdOpen, waitVars, data>>

(* ep_port_destroy: every request is cancelled, all of them at once by     *)
(* closing the AFD handles if one cancellation fails.                      *)
Destroy ==
    /\ pc = "out" /\ closing
    /\ pc' = "destroying"
    /\ \E c \in [Allocated -> UNION {Cancel(sock[s], io[s]) : s \in Allocated}] :
        /\ \A s \in Allocated : c[s] \in Cancel(sock[s], io[s])
        /\ sock' = [s \in Socks |->
                        IF s \notin Allocated \/ sock[s].poll = "IDLE" THEN Free
                        ELSE [c[s].sock EXCEPT !.deleted = TRUE, !.rearm = FALSE,
                                               !.oneshot = FALSE]]
        /\ afdOpen' = \A s \in Allocated : ~Failed(c[s])
    /\ table' = [f \in Fds |-> None]
    /\ data' = [f \in Fds |-> None]
    /\ UNCHANGED <<kernelVars, io, ready, pending, nextGen, closing, asyncErr, postErr,
                   iocpOpen, epoch, active, coalescing, cont, batch, todo, armErr, out>>

(* ep_port_drain_pending_until: the packets left are handled one by one. *)
DestroyDispatch(s) ==
    /\ pc = "destroying" /\ iocpOpen
    /\ io[s] = "packet"
    /\ Apply(s, Outcome(Free, "none", "ok"))
    /\ pending' = pending - 1
    /\ UNCHANGED <<kernelVars, ready, nextGen, asyncErr, afdOpen, waitVars, data>>

(* ep_port_finish_destroy_locked *)
FinishDestroy ==
    /\ pc = "destroying" /\ pending = 0
    /\ pc' = "destroyed"
    /\ sock' = [s \in Socks |-> Free]
    /\ ready' = <<>>
    /\ iocpOpen' = FALSE /\ afdOpen' = FALSE
    /\ UNCHANGED <<kernelVars, io, table, pending, nextGen, closing, asyncErr, postErr,
                   epoch, active, coalescing, cont, batch, todo, armErr, out, data>>

(* ep_port_abandon_locked, after the drain timed out or the completion     *)
(* port failed: the storage is leaked.                                     *)
Abandon ==
    /\ pc = "destroying" /\ pending > 0
    /\ pc' = "abandoned"
    /\ iocpOpen' = FALSE /\ afdOpen' = FALSE
    /\ UNCHANGED <<kernelVars, sock, io, table, ready, pending, nextGen, closing,
                   asyncErr, postErr, epoch, active, coalescing, cont, batch, todo,
                   armErr, out, data>>

----------------------------------------------------------------------------
Control ==
    \E f \in Fds :
        \/ \E m \in Masks, md \in Modes[f] : Add(f, m, md)
        \/ \E s \in Socks, m \in Masks, md \in Modes[f] : Mod(f, s, m, md)
        \/ \E s \in Socks : Rearm(f, s)
        \/ \E s \in Socks : Del(f, s)
        \/ ControlStale(f)
Network ==
    \/ \E f \in Fds, e \in Active : Raise(f, e)
    \/ \E f \in Fds, e \in Active : Lower(f, e)
    \/ \E f \in Fds : NativeClose(f)
    \/ \E f \in Fds : Reuse(f)
Kernel == \E s \in Socks : KernelComplete(s)
Wait ==
    \/ WaitStart \/ WaitLoop
    \/ DrainNode \/ DrainDone
    \/ ArmStart \/ (\E s \in Socks : ArmStep(s)) \/ ArmDone
    \/ \E B \in SUBSET Socks : Dequeue(B)
    \/ DequeueFails \/ DeferredRetry \/ TimedOut
    \/ (\E s \in Socks : HandleCompletion(s)) \/ DispatchDone
    \/ CoalesceDone \/ WaitAgain \/ WaitLeave \/ WaitReturn
Closing ==
    \/ BeginClose \/ Destroy
    \/ \E s \in Socks : DestroyDispatch(s)
    \/ FinishDestroy \/ Abandon

Next == Control \/ Network \/ Kernel \/ WaitEnter \/ Wait \/ Closing
Spec == Init /\ [][Next]_vars

(* The waiter runs, its application waits again after every return, AFD    *)
(* completes what it can complete, and the completion port is a queue: a   *)
(* packet is dequeued however many control packets come, and these do not  *)
(* come forever within the EP_DEFERRED_REARM_RETRY_MS of a deferred rearm. *)
FairSpec ==
    /\ Spec
    /\ WF_vars(Wait) /\ WF_vars(WaitEnter) /\ SF_vars(DeferredRetry)
    /\ \A s \in Socks : WF_vars(KernelComplete(s))
    /\ \A s \in Socks : SF_vars(\E B \in SUBSET Socks : s \in B /\ Dequeue(B))

----------------------------------------------------------------------------
(* ep_sock_t embeds the I/O status block and owns the poll buffer: it is   *)
(* not freed, nor polled a second time, while a request or packet refers   *)
(* to it; and pending_poll_count, which decides when a closed port may be  *)
(* reclaimed, counts exactly these.                                        *)
InFlightOwned ==
    /\ \A s \in Socks : io[s] # "none" <=> s \in Allocated /\ sock[s].poll # "IDLE"
    /\ pending = Cardinality({s \in Socks : io[s] # "none"})

(* A registration that awaits delivery has exactly one valid node in the   *)
(* ready queue, and any other has none, after every MOD, rearm, rollback,  *)
(* DEL and re-ADD: a flag without a node would never be polled again, a    *)
(* node without a flag is a second delivery.                               *)
ReadyHasOneNode ==
    \A s \in Allocated : ~sock[s].deleted =>
        Cardinality({i \in 1..Len(ready) : ready[i].fd = sock[s].fd /\ ready[i].gen = sock[s].gen})
            = IF sock[s].ready THEN 1 ELSE 0

(* No live registration is forgotten: it is queued for a poll, being       *)
(* polled, awaiting delivery, or a fired one-shot; and a fired one-shot is *)
(* not being polled.                                                       *)
NoneForgotten ==
    \A f \in Fds : table[f] # None /\ ~closing =>
        LET r == sock[table[f]]
        IN  /\ r.rearm \/ r.poll # "IDLE" \/ r.ready \/ r.oneshot
            /\ r.oneshot => r.poll = "IDLE"

(* An event is returned only for a registration that exists and with the   *)
(* data its last successful ADD or MOD set.                                *)
DeliveryCurrent ==
    [][Len(out') > Len(out) =>
        LET e == out'[Len(out')] IN table[e.fd] # None /\ data[e.fd] = e.data]_vars

(* "Drained registrations therefore cannot be resubmitted and duplicated   *)
(* within this call": one wait returns no two events of one registration   *)
(* of a number, whatever MOD or rearm does while it collects.              *)
NoDuplicateInWait ==
    \A i, j \in 1..Len(out) : i # j => out[i].born # out[j].born

(* ep_port_worklists_valid_locked: no registration is both on the rearm    *)
(* list and on the list of fired one-shots, and a deleted one is on none.  *)
WorklistsValid ==
    \A s \in Allocated :
        /\ ~(sock[s].rearm /\ sock[s].oneshot)
        /\ sock[s].deleted => ~sock[s].rearm /\ ~sock[s].oneshot

(* A wait returns no event of a registration whose socket was closed       *)
(* before the wait began, although its number is in use again: the verdict *)
(* that ep_sock_validate_identity_for_delivery_locked remembers is good    *)
(* for one wait and for the registration it was made for.                  *)
ReuseDetected ==
    [][Len(out') > Len(out) =>
        LET f == out'[Len(out')].fd IN sock[table[f]].object >= oldest[f]]_vars

(* Under FairSpec: an event of the interest that is active and, with       *)
(* EPOLLET, not latched, is returned by a wait or ceases to be active,     *)
(* whatever stale snapshots, deferred rearms and MODs come between.        *)
Unreported(f) == table[f] # None /\ (level[f] \cap sock[table[f]].interest) \ sock[table[f]].observed # {}
Inactive(f) == table[f] = None \/ level[f] \cap sock[table[f]].interest = {}
EventuallyReported ==
    \A f \in Fds :
        Unreported(f) ~> \/ \E i \in 1..Len(out) : out[i].fd = f
                         \/ Inactive(f) \/ closing \/ sock[table[f]].oneshot
=============================================================================
