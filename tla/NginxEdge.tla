----------------------------- MODULE NginxEdge -----------------------------
(***************************************************************************)
(* The nginx event module in edge mode (src/nginx/ngx_wepoll_module.c) on  *)
(* a port with explicit rearm (src/src/wepoll_ex_port.c).                  *)
(*                                                                         *)
(* Delivering a readiness class disarms it in the port; the adapter keeps  *)
(* a copy of what is disarmed and rearms a class when nginx has consumed   *)
(* it.  nginx is one thread, but a handler that runs in the middle of a    *)
(* batch may close any connection, reuse its slot, and change interests.   *)
(* A reused slot gets the same socket number here, the worst case; so a    *)
(* connection is told from its predecessor by nginx's instance bit alone.  *)
(* The nginx core is external and modelled from how it uses the module.    *)
(***************************************************************************)
EXTENDS Naturals, Sequences, FiniteSets

CONSTANTS
    Conns,       \* connection slots of the cycle
    Listeners,   \* those that listen (rev->accept)
    MaxEvents,   \* wepoll_events: records of a batch
    MaxReuse,    \* bound: connections each slot serves
    MaxFaults    \* bound: failed calls into the port

ASSUME EventsPositive == MaxEvents \in Nat \ {0}

VARIABLES
    posting,     \* wepoll_edge_post_events
    open, inst, inc,      \* per slot: c->fd is valid, instance bit, uses of the slot (ghost)
    active, ready, posted,    \* the flags of c->read and c->write, as sets of classes
    level,       \* what is true of the socket
    state,       \* ngx_wepoll_states
    queued, pendings,     \* state->queued, ngx_wepoll_pending_states
    disarmed,    \* the port: explicit_disarmed_classes of the registration
    node, readyq,         \* the port: the classes of its ready node; the queue of nodes
    batch, pc,   \* the records not handled yet; the place in ngx_wepoll_process_events
    faults

coreVars == <<open, inst, inc, active, ready, posted>>
portVars == <<disarmed, node, readyq>>
loopVars == <<posting, batch, pc>>
vars == <<coreVars, level, state, queued, pendings, portVars, loopVars, faults>>

Classes == {"READ", "WRITE"}
All == Classes \cup {"TERM"}

Unbound == [registered |-> FALSE, inst |-> 0, interests |-> {}, disarmed |-> {}, pending |-> {}]
NoNode == {}

Init ==
    /\ posting \in BOOLEAN
    /\ open = [c \in Conns |-> FALSE] /\ inst = [c \in Conns |-> 0] /\ inc = [c \in Conns |-> 0]
    /\ active = [c \in Conns |-> {}] /\ ready = [c \in Conns |-> {}]
    /\ posted = [c \in Conns |-> {}] /\ level = [c \in Conns |-> {}]
    /\ state = [c \in Conns |-> Unbound]
    /\ queued = [c \in Conns |-> FALSE] /\ pendings = <<>>
    /\ disarmed = [c \in Conns |-> {}] /\ node = [c \in Conns |-> NoNode] /\ readyq = <<>>
    /\ batch = <<>> /\ pc = "out" /\ faults = 0

(* ngx_wepoll_state_is_current *)
Current(s, c) == s.registered /\ open[c] /\ s.inst = inst[c]

----------------------------------------------------------------------------
(* epoll_rearm_classes of the port: refused with EBUSY while a node of the *)
(* registration is queued, and it may fail.                                *)
Rearms(c) == {IF node[c] = NoNode THEN "ok" ELSE "busy"}
             \cup (IF faults < MaxFaults THEN {"fail"} ELSE {})
Armed(D, classes) == D \ classes

(* ngx_wepoll_rearm_classes on success *)
Rearmed(s, classes) ==
    [s EXCEPT !.disarmed = @ \ classes, !.pending = @ \ classes]

(* ngx_wepoll_rearm_ready_state: what of the pending classes is due; what  *)
(* nginx no longer wants is forgotten.                                     *)
Due(s, c) == (s.pending \cap s.interests) \ (posted[c] \cup ready[c])
Wanted(s, c) ==
    IF Current(s, c) THEN [s EXCEPT !.pending = @ \cap s.interests]
    ELSE [s EXCEPT !.pending = {}]
DueNow(s, c) == IF Current(s, c) THEN Due(s, c) ELSE {}

(* The adapter's and the port's state of slot c after ngx_wepoll_rearm_ready_state, *)
(* given the result of the call into the port                                       *)
RearmReady(s, c, res) ==
    IF res = "ok" THEN Rearmed(Wanted(s, c), DueNow(s, c)) ELSE Wanted(s, c)

----------------------------------------------------------------------------
(* The peer and the network.  A listening socket only ever accepts. *)
Conditions(c) == IF c \in Listeners THEN {"READ"} ELSE All
Peer(c, k) ==
    /\ open[c] /\ k \in Conditions(c) \ level[c]
    /\ level' = [level EXCEPT ![c] = @ \cup {k}]
    /\ UNCHANGED <<coreVars, state, queued, pendings, portVars, loopVars, faults>>

----------------------------------------------------------------------------
(* What nginx does between two calls of the module and in its handlers *)
InCore == pc \in {"out", "read_handler", "write_handler"}

(* ngx_get_connection flips the instance bit; a new socket is writable. *)
Open(c) ==
    /\ InCore /\ ~open[c] /\ inc[c] < MaxReuse[c]
    /\ open' = [open EXCEPT ![c] = TRUE] /\ inst' = [inst EXCEPT ![c] = 1 - @]
    /\ inc' = [inc EXCEPT ![c] = @ + 1]
    /\ level' = [level EXCEPT ![c] = {"WRITE"} \cap Conditions(c)]
    /\ UNCHANGED <<active, ready, posted, state, queued, pendings, portVars, loopVars, faults>>

(* ngx_wepoll_prepare_state and ngx_wepoll_register_edge_connection *)
Prepared(c) == IF state[c].registered THEN state[c] ELSE [Unbound EXCEPT !.inst = inst[c]]
Registered(c) == [Prepared(c) EXCEPT !.registered = TRUE]

(* ngx_wepoll_edge_add_event, called by ngx_handle_read_event and the like *)
(* for an event that is neither active nor ready                           *)
MustRearm(s, k) == s.disarmed \cap {k}
AddEvent(c, k) ==
    LET s == Registered(c)
        t == [s EXCEPT !.interests = @ \cup {k}]
    IN  /\ InCore /\ open[c] /\ k \in Conditions(c) \ (active[c] \cup ready[c])
        /\ \/ /\ ~state[c].registered /\ faults < MaxFaults    \* ADD fails
              /\ state' = [state EXCEPT ![c] = Prepared(c)]
              /\ faults' = faults + 1
              /\ UNCHANGED <<active, disarmed>>
           \/ /\ MustRearm(s, k) = {}
              /\ state' = [state EXCEPT ![c] = [t EXCEPT !.pending = @ \ {k}]]
              /\ active' = [active EXCEPT ![c] = @ \cup {k}]
              /\ disarmed' = IF state[c].registered THEN disarmed
                             ELSE [disarmed EXCEPT ![c] = {}]
              /\ UNCHANGED faults
           \/ /\ MustRearm(s, k) # {}
              /\ \E res \in Rearms(c) :
                 /\ state' = [state EXCEPT ![c] = IF res = "ok" THEN Rearmed(t, {k}) ELSE s]
                 /\ disarmed' = IF res = "ok"
                                THEN [disarmed EXCEPT ![c] = Armed(@, {k})] ELSE disarmed
                 /\ active' = IF res = "ok" THEN [active EXCEPT ![c] = @ \cup {k}] ELSE active
                 /\ faults' = IF res = "fail" THEN faults + 1 ELSE faults
        /\ UNCHANGED <<open, inst, inc, ready, posted, level, queued, pendings, node, readyq,
                       loopVars>>

(* ngx_wepoll_add_connection, which nginx calls for a new connection *)
AddConnection(c) ==
    /\ InCore /\ open[c] /\ ~state[c].registered /\ c \notin Listeners
    /\ \/ /\ faults < MaxFaults
          /\ state' = [state EXCEPT ![c] = Prepared(c)]
          /\ faults' = faults + 1
          /\ UNCHANGED <<active, disarmed>>
       \/ /\ state' = [state EXCEPT ![c] = [Registered(c) EXCEPT !.interests = Classes]]
          /\ disarmed' = [disarmed EXCEPT ![c] = {}]
          /\ active' = [active EXCEPT ![c] = Classes]
          /\ UNCHANGED faults
    /\ UNCHANGED <<open, inst, inc, ready, posted, level, queued, pendings, node, readyq,
                   loopVars>>

(* ngx_wepoll_edge_del_event without NGX_CLOSE_EVENT *)
DelEvent(c, k) ==
    /\ InCore /\ open[c] /\ k \in active[c]
    /\ state' = [state EXCEPT ![c].interests = @ \ {k}, ![c].pending = @ \ {k}]
    /\ active' = [active EXCEPT ![c] = @ \ {k}]
    /\ UNCHANGED <<open, inst, inc, ready, posted, level, queued, pendings, portVars, loopVars, faults>>

(* ngx_wepoll_unbind_state and ngx_wepoll_reset_state keep state->queued: *)
(* the array may still hold the slot.                                      *)
MutUnbindQueued(c) == [queued EXCEPT ![c] = FALSE]    \* mutant: all of the state is zeroed
UnbindQueued(c) == queued

(* ngx_close_connection: ngx_wepoll_del_connection, then the posted events *)
(* are deleted and the socket is closed.  DEL makes the nodes of the port  *)
(* stale; it detaches the registration whatever it returns.                *)
Close(c) ==
    /\ InCore /\ open[c]
    /\ open' = [open EXCEPT ![c] = FALSE] /\ level' = [level EXCEPT ![c] = {}]
    /\ active' = [active EXCEPT ![c] = {}] /\ ready' = [ready EXCEPT ![c] = {}]
    /\ posted' = [posted EXCEPT ![c] = {}]
    /\ state' = [state EXCEPT ![c] = Unbound]
    /\ disarmed' = [disarmed EXCEPT ![c] = {}] /\ node' = [node EXCEPT ![c] = NoNode]
    /\ queued' = UnbindQueued(c)
    /\ UNCHANGED <<inst, inc, pendings, readyq, loopVars, faults>>

(* recv or send until it would block *)
Consume(c, k) ==
    /\ InCore /\ k \in ready[c]
    /\ ready' = [ready EXCEPT ![c] = @ \ {k}]
    /\ level' = [level EXCEPT ![c] = @ \ {k}]
    /\ UNCHANGED <<open, inst, inc, active, posted, state, queued, pendings, portVars, loopVars, faults>>

(* ngx_event_process_posted *)
RunPosted(c, k) ==
    /\ pc = "out" /\ k \in posted[c]
    /\ posted' = [posted EXCEPT ![c] = @ \ {k}]
    /\ UNCHANGED <<open, inst, inc, active, ready, level, state, queued, pendings, portVars,
                   loopVars, faults>>

----------------------------------------------------------------------------
(* ngx_wepoll_process_events *)

(* ngx_wepoll_sweep_pending_states, which retains what is still pending *)
Swept(res) == [c \in Conns |-> IF queued[c] THEN RearmReady(state[c], c, res[c]) ELSE state[c]]
Retained(S, c) == S[c].pending # {} /\ Current(S[c], c)
Sweep ==
    LET due == {c \in Conns : queued[c] /\ DueNow(state[c], c) # {}} IN
    /\ pc = "out"
    /\ \E res \in [Conns -> {"ok", "busy", "fail"}] :
        LET bad == {c \in Conns : res[c] = "fail"}
            rearmed == {c \in due : res[c] = "ok"}
            S == Swept(res)
        IN  /\ \A c \in Conns : res[c] \in IF c \in due THEN Rearms(c) ELSE {"ok"}
            /\ faults + Cardinality(bad) <= MaxFaults
            /\ faults' = faults + Cardinality(bad)
            /\ state' = S
            /\ disarmed' = [c \in Conns |-> IF c \in rearmed
                             THEN Armed(disarmed[c], DueNow(state[c], c)) ELSE disarmed[c]]
            /\ active' = [c \in Conns |-> IF c \in rearmed
                           THEN active[c] \cup DueNow(state[c], c) ELSE active[c]]
            /\ queued' = [c \in Conns |-> queued[c] /\ Retained(S, c)]
            /\ pendings' = SelectSeq(pendings, LAMBDA c : Retained(S, c))
    /\ pc' = "wait"
    /\ UNCHANGED <<posting, open, inst, inc, ready, posted, level, node, readyq, batch>>

(* The port, while nginx waits: a request for the armed classes completes, *)
(* the current level is merged in, and what is disarmed is filtered out.   *)
(* A terminal condition disarms everything (ep_explicit_delivery_classes). *)
DeliveryClasses(ev) == IF "TERM" \in ev THEN All ELSE ev
Complete(c) ==
    LET events == level[c] \ disarmed[c] IN
    /\ pc = "wait" /\ state[c].registered /\ node[c] = NoNode /\ events # {}
    /\ \A i \in DOMAIN batch : batch[i].c # c      \* nothing is armed again in this wait
    /\ node' = [node EXCEPT ![c] = events]
    /\ readyq' = Append(readyq, [c |-> c, inst |-> state[c].inst, inc |-> inc[c],
                                 events |-> events, write |-> FALSE])
    /\ disarmed' = [disarmed EXCEPT ![c] = @ \cup DeliveryClasses(events)]
    /\ UNCHANGED <<coreVars, level, state, queued, pendings, loopVars, faults>>

(* ep_drain_to_buffer: a node whose registration is gone is dropped. *)
DrainNode ==
    LET r == Head(readyq)
        fresh == state[r.c].registered /\ r.inc = inc[r.c]
    IN  /\ pc = "wait" /\ readyq # <<>> /\ Len(batch) < MaxEvents
        /\ readyq' = Tail(readyq)
        /\ batch' = IF fresh THEN Append(batch, r) ELSE batch
        /\ node' = IF fresh THEN [node EXCEPT ![r.c] = NoNode] ELSE node
        /\ UNCHANGED <<coreVars, level, state, queued, pendings, disarmed, posting, pc, faults>>

(* epoll_wait_ex returns events, nothing, or an error *)
WaitReturns ==
    /\ pc = "wait" /\ (readyq = <<>> \/ Len(batch) = MaxEvents)
    /\ pc' = IF batch = <<>> THEN "out" ELSE "record"
    /\ UNCHANGED <<coreVars, level, state, queued, pendings, portVars, posting, batch, faults>>
WaitFails ==
    /\ pc = "wait" /\ batch = <<>> /\ faults < MaxFaults
    /\ faults' = faults + 1 /\ pc' = "out"
    /\ UNCHANGED <<coreVars, level, state, queued, pendings, portVars, posting, batch>>

(* One record: is it for the connection that is there now? *)
NextRecord == batch' = Tail(batch) /\ pc' = IF Len(batch) = 1 THEN "out" ELSE "record"
MutAccepted(r) == state[r.c].registered /\ open[r.c]    \* mutant: the instance is ignored
Accepted(r) == Current(state[r.c], r.c) /\ state[r.c].inst = r.inst
MutMarked(r, s) == [s EXCEPT !.pending = @ \cup (DeliveryClasses(r.events) \cap s.interests)]
Marked(r, s) ==
    LET d == DeliveryClasses(r.events)
    IN  [s EXCEPT !.disarmed = @ \cup d, !.pending = @ \cup (d \cap s.interests)]

Skip ==
    /\ pc = "record" /\ ~Accepted(Head(batch))
    /\ NextRecord
    /\ UNCHANGED <<coreVars, level, state, queued, pendings, portVars, posting, faults>>

(* The record is noted and the read event dispatched, directly or by       *)
(* posting it.  An accept event stays active.                              *)
Dispatch ==
    LET r == Head(batch)
        c == r.c
        s == Marked(r, state[c])
        due == DeliveryClasses(r.events) \cap s.interests
        read == due \cap {"READ"}
    IN  /\ pc = "record" /\ Accepted(r)
        /\ state' = [state EXCEPT ![c] = s]
        /\ queued' = [queued EXCEPT ![c] = @ \/ s.pending # {}]
        /\ pendings' = IF s.pending # {} /\ ~queued[c] THEN Append(pendings, c) ELSE pendings
        /\ active' = [active EXCEPT ![c] = @ \ (IF c \in Listeners THEN due \ {"READ"} ELSE due)]
        /\ ready' = [ready EXCEPT ![c] = @ \cup read]
        /\ posted' = IF posting THEN [posted EXCEPT ![c] = @ \cup read] ELSE posted
        /\ batch' = <<[r EXCEPT !.write = "WRITE" \in due]>> \o Tail(batch)
        /\ pc' = IF read # {} /\ ~posting THEN "read_handler" ELSE "write"
        /\ UNCHANGED <<open, inst, inc, level, portVars, posting, faults>>

(* The write event, if the read handler has left it to be dispatched *)
DispatchWrite ==
    LET r == Head(batch)
        c == r.c
        due == r.write /\ Current(state[c], c) /\ "WRITE" \in state[c].interests
    IN  /\ pc = "write"
        /\ ready' = IF due THEN [ready EXCEPT ![c] = @ \cup {"WRITE"}] ELSE ready
        /\ posted' = IF due /\ posting THEN [posted EXCEPT ![c] = @ \cup {"WRITE"}] ELSE posted
        /\ pc' = IF due /\ ~posting THEN "write_handler" ELSE "rearm"
        /\ UNCHANGED <<open, inst, inc, active, level, state, queued, pendings, portVars, posting,
                       batch, faults>>

HandlerReturns ==
    /\ pc \in {"read_handler", "write_handler"}
    /\ pc' = IF pc = "read_handler" THEN "write" ELSE "rearm"
    /\ UNCHANGED <<coreVars, level, state, queued, pendings, portVars, posting, batch,
                   faults>>

(* The end of a record: ngx_wepoll_rearm_ready_state *)
RearmRecord ==
    LET c == Head(batch).c
        s == state[c]
        due == DueNow(s, c)
    IN  /\ pc = "rearm"
        /\ \E res \in IF due # {} THEN Rearms(c) ELSE {"ok"} :
            /\ state' = [state EXCEPT ![c] = IF Current(s, c) THEN RearmReady(s, c, res) ELSE s]
            /\ disarmed' = IF res = "ok" THEN [disarmed EXCEPT ![c] = Armed(@, due)] ELSE disarmed
            /\ active' = IF res = "ok" THEN [active EXCEPT ![c] = @ \cup due] ELSE active
            /\ faults' = IF res = "fail" THEN faults + 1 ELSE faults
        /\ NextRecord
        /\ UNCHANGED <<open, inst, inc, ready, posted, level, queued, pendings, node, readyq,
                       posting>>

----------------------------------------------------------------------------
Core(c) ==
    \/ Open(c) \/ AddConnection(c) \/ Close(c)
    \/ \E k \in Classes : AddEvent(c, k) \/ DelEvent(c, k) \/ Consume(c, k) \/ RunPosted(c, k)
ProcessEvents ==
    \/ Sweep \/ DrainNode \/ WaitReturns \/ Skip \/ Dispatch \/ DispatchWrite \/ HandlerReturns
    \/ RearmRecord
Next ==
    \/ \E c \in Conns : Core(c) \/ Complete(c) \/ \E k \in All : Peer(c, k)
    \/ ProcessEvents \/ WaitFails

Spec == Init /\ [][Next]_vars

----------------------------------------------------------------------------
(* ngx_wepoll_pending_states holds a state at most once, which is what     *)
(* bounds it by the number of connections (ngx_wepoll_queue_pending_state),*)
(* state->queued says whether, and nothing pending is left out of it, over *)
(* every close and reuse of the slot while it is queued.                   *)
PendingExact ==
    /\ \A i, j \in DOMAIN pendings : pendings[i] = pendings[j] => i = j
    /\ \A c \in Conns : queued[c] <=> \E i \in DOMAIN pendings : pendings[i] = c
    /\ \A c \in Conns : state[c].pending # {} => queued[c]

(* Nobody but the adapter rearms a class the port has disarmed.  A class   *)
(* nginx is interested in is armed in the port, or waits for its rearm in  *)
(* the pending array, or is in an event that has not been handled yet.     *)
Undelivered(c) ==
    node[c] \cup UNION {batch[i].events : i \in
        {j \in DOMAIN batch : batch[j].c = c /\ batch[j].inc = inc[c]
                             /\ (j = 1 => pc \in {"wait", "record"})}}
NeverStranded ==
    \A c \in Conns : \A k \in state[c].interests :
        k \in disarmed[c] => k \in state[c].pending \/ k \in DeliveryClasses(Undelivered(c))

(* A record that was made for the previous connection of the slot is       *)
(* dropped: "stale queued records can be rejected before dereferencing a   *)
(* recycled connection".  The bit tells a connection from the one before   *)
(* it only; and the write half of a record whose own read handler replaced *)
(* the connection is not compared with the bit again.                      *)
NoStaleDispatch ==
    [][\A c \in Conns : pc = "record" /\ Head(batch).c = c /\ Head(batch).inc + 1 = inc[c] =>
          /\ state'[c] = state[c] /\ ready'[c] = ready[c] /\ posted'[c] = posted[c]]_vars
=============================================================================
