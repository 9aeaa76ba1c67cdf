-------------------------- MODULE ExclusiveClaims --------------------------
(***************************************************************************)
(* EPOLLEXCLUSIVE arbitration between the registrations of independent     *)
(* ports (src/wepoll_ex_port.c).  Kernel polls are never exclusive; a      *)
(* process-wide index of claims, one per registration, decides which       *)
(* exclusive registration delivers a readiness class of a provider socket. *)
(*                                                                         *)
(* g_exclusive_lock makes each access to the index one action.  The state  *)
(* of the socket is sampled, and a poll is submitted, before that lock is  *)
(* taken and under the lock of one port only, so other ports act between   *)
(* the observation and the release it justifies.  Registrations here       *)
(* belong to different ports.                                              *)
(***************************************************************************)
EXTENDS Integers

CONSTANTS
    Regs,        \* registrations, each of its own port
    Exclusive,   \* those added with EPOLLEXCLUSIVE
    Publishers,  \* those whose local shutdown was published to the port
    Bases,       \* provider base sockets
    Directional, \* the classes READ and WRITE
    None

ASSUME ExclusiveRegs == Exclusive \subseteq Regs
ASSUME DirectionalClasses == "READ" \in Directional /\ "TERMINAL" \notin Directional
ASSUME NoneFresh == None \notin Bases

Classes == Directional \cup {"TERMINAL"}

VARIABLES
    level,      \* classes active on each provider socket (the network)
    open,       \* the registration exists
    base,       \* sock->base_socket
    claim,      \* sock->exclusive_claim_classes
    claimBase,  \* sock->exclusive_claim_base, None for INVALID_SOCKET
    pc,         \* where the registration's port is in its handler
    ready,      \* classes of the snapshot about to be delivered
    idle        \* classes observed inactive, about to be released

vars == <<level, open, base, claim, claimBase, pc, ready, idle>>

Init ==
    /\ level \in [Bases -> SUBSET Classes]
    /\ open = [r \in Regs |-> FALSE]
    /\ base \in [Regs -> Bases]
    /\ claim = [r \in Regs |-> {}]
    /\ claimBase = [r \in Regs |-> None]
    /\ pc = [r \in Regs |-> "none"]
    /\ ready = [r \in Regs |-> {}]
    /\ idle = [r \in Regs |-> {}]

----------------------------------------------------------------------------
(* The claim list of a base: its members, and the effect of removing       *)
(* classes from all of them (ep_exclusive_remove_classes_locked).          *)
Claimants(b) == {r \in Regs : claimBase[r] = b}

(* A claim kept under a base the registration has left is unlinked first. *)
MutKept(r) == claim[r]    \* mutant: the claim moves along to the new base
Kept(r) == IF claimBase[r] = base[r] THEN claim[r] ELSE {}

(* An empty claim is unlinked and forgets its base. *)
SetClaims(r, cl) ==
    /\ claim' = cl
    /\ claimBase' = [q \in Regs |-> IF cl[q] = {} THEN None
                                    ELSE IF q = r THEN base[r] ELSE claimBase[q]]

(* ep_exclusive_release_quiescent, ep_exclusive_release_inactive *)
RemoveClasses(r, C) ==
    SetClaims(r, [q \in Regs |->
        IF q = r THEN Kept(r) \ C
        ELSE IF claimBase[q] = base[r] THEN claim[q] \ C ELSE claim[q]])

(* ep_exclusive_try_claim: what peers deny of a request for the classes R *)
Peers(r) == Claimants(base[r]) \ {r}
MutPeerTerminal(r) == \E q \in Regs \ {r} : "TERMINAL" \in claim[q]    \* mutant: of any base
PeerTerminal(r) == \E q \in Peers(r) : "TERMINAL" \in claim[q]
Denied(r, R) ==
    IF PeerTerminal(r) THEN R
    ELSE IF "TERMINAL" \in R THEN {}
    ELSE R \cap UNION {claim[q] : q \in Peers(r)}
Granted(r, R) == R \ Denied(r, R)

(* A terminal grant supersedes every directional claim on the base; an     *)
(* owner of the terminal class needs no further class.                     *)
OwnClaim(r, R) ==
    IF "TERMINAL" \in Granted(r, R) THEN {"TERMINAL"}
    ELSE IF "TERMINAL" \in Kept(r) THEN Kept(r)
    ELSE Kept(r) \cup Granted(r, R)
PeerClaim(r, R, q) ==
    IF "TERMINAL" \in Granted(r, R) /\ q \in Peers(r)
    THEN claim[q] \ Directional ELSE claim[q]

----------------------------------------------------------------------------
(* EPOLL_CTL_ADD *)
Add(r, b) ==
    /\ ~open[r]
    /\ open' = [open EXCEPT ![r] = TRUE]
    /\ base' = [base EXCEPT ![r] = b]
    /\ pc' = [pc EXCEPT ![r] = "none"]
    /\ UNCHANGED <<level, claim, claimBase, ready, idle>>

(* EPOLL_CTL_DEL, a native close or the close of the port:                 *)
(* ep_exclusive_release_owner                                              *)
Detach(r) ==
    /\ open[r]
    /\ pc[r] = "none"
    /\ open' = [open EXCEPT ![r] = FALSE]
    /\ claim' = [claim EXCEPT ![r] = {}]
    /\ claimBase' = [claimBase EXCEPT ![r] = None]
    /\ UNCHANGED <<level, base, pc, ready, idle>>

(* Winsock does not show a local receive shutdown, and shutting both       *)
(* directions is a hang-up: a port that was told merges them into what it  *)
(* samples (ep_sock_merge_local_shutdown_locked).                          *)
Published(r) == IF r \in Publishers THEN {"READ", "TERMINAL"} ELSE {}

(* A completion is handled: the handler samples both directions of the     *)
(* socket (a failed sample observes nothing) and keeps the active classes  *)
(* the registration asks for and has not latched.                          *)
Sample(r, R, I) ==
    /\ open[r]
    /\ r \in Exclusive
    /\ pc[r] = "none"
    /\ R \subseteq level[base[r]] \cup Published(r)
    /\ I \subseteq Directional \ level[base[r]]
    /\ ready' = [ready EXCEPT ![r] = R]
    /\ idle' = [idle EXCEPT ![r] = I]
    /\ pc' = [pc EXCEPT ![r] = "release_inactive"]
    /\ UNCHANGED <<level, open, base, claim, claimBase>>

(* ep_sock_queue_local_shutdown_locked: the published level is queued with *)
(* whatever else is active, without a poll and without sampling inactivity *)
QueueLocalShutdown(r, R) ==
    /\ open[r]
    /\ r \in Exclusive \cap Publishers
    /\ pc[r] = "none"
    /\ R # {} /\ R \subseteq level[base[r]] \cup Published(r)
    /\ ready' = [ready EXCEPT ![r] = R]
    /\ pc' = [pc EXCEPT ![r] = "try_claim"]
    /\ UNCHANGED <<level, open, base, claim, claimBase, idle>>

ReleaseInactive(r) ==
    /\ pc[r] = "release_inactive"
    /\ IF idle[r] # {} THEN RemoveClasses(r, idle[r])
                       ELSE UNCHANGED <<claim, claimBase>>
    /\ idle' = [idle EXCEPT ![r] = {}]
    /\ pc' = [pc EXCEPT ![r] = IF ready[r] = {} THEN "none" ELSE "try_claim"]
    /\ UNCHANGED <<level, open, base, ready>>

TryClaim(r) ==
    /\ pc[r] = "try_claim"
    /\ SetClaims(r, [q \in Regs |-> IF q = r THEN OwnClaim(r, ready[r])
                                             ELSE PeerClaim(r, ready[r], q)])
    /\ ready' = [ready EXCEPT ![r] = {}]
    /\ pc' = [pc EXCEPT ![r] = "none"]
    /\ UNCHANGED <<level, open, base, idle>>

(* ep_sock_submit_locked: the base handle is resolved again and the poll   *)
(* stays pending because none of the classes it covers is active.  Every   *)
(* poll covers the terminal class.  Ordinary registrations submit too.     *)
SubmitPending(r, b, C) ==
    /\ open[r]
    /\ pc[r] = "none"
    /\ "TERMINAL" \in C
    /\ C \cap level[b] = {}
    /\ base' = [base EXCEPT ![r] = b]
    /\ idle' = [idle EXCEPT ![r] = C]
    /\ pc' = [pc EXCEPT ![r] = "release_quiescent"]
    /\ UNCHANGED <<level, open, claim, claimBase, ready>>

ReleaseQuiescent(r) ==
    /\ pc[r] = "release_quiescent"
    /\ RemoveClasses(r, idle[r])
    /\ idle' = [idle EXCEPT ![r] = {}]
    /\ pc' = [pc EXCEPT ![r] = "none"]
    /\ UNCHANGED <<level, open, base, ready>>

(* The peer, or the application on the socket, changes what is active. *)
Activate(b, c) ==
    /\ c \notin level[b]
    /\ level' = [level EXCEPT ![b] = @ \cup {c}]
    /\ UNCHANGED <<open, base, claim, claimBase, pc, ready, idle>>

Deactivate(b, c) ==
    /\ c \in level[b]
    /\ level' = [level EXCEPT ![b] = @ \ {c}]
    /\ UNCHANGED <<open, base, claim, claimBase, pc, ready, idle>>

Next ==
    \/ \E r \in Regs, b \in Bases : Add(r, b)
    \/ \E r \in Regs : Detach(r)
    \/ \E r \in Regs, R \in SUBSET Classes, I \in SUBSET Directional : Sample(r, R, I)
    \/ \E r \in Regs, R \in SUBSET Classes : QueueLocalShutdown(r, R)
    \/ \E r \in Regs : ReleaseInactive(r)
    \/ \E r \in Regs : TryClaim(r)
    \/ \E r \in Regs, b \in Bases, C \in SUBSET Classes : SubmitPending(r, b, C)
    \/ \E r \in Regs : ReleaseQuiescent(r)
    \/ \E b \in Bases, c \in Classes : Activate(b, c)
    \/ \E b \in Bases, c \in Classes : Deactivate(b, c)

Spec == Init /\ [][Next]_vars

----------------------------------------------------------------------------
(* The types of the claim fields of ep_sock_t and of the handlers' locals. *)
TypeOK ==
    /\ level \in [Bases -> SUBSET Classes]
    /\ open \in [Regs -> BOOLEAN]
    /\ base \in [Regs -> Bases]
    /\ claim \in [Regs -> SUBSET Classes]
    /\ claimBase \in [Regs -> Bases \cup {None}]
    /\ pc \in [Regs -> {"none", "release_inactive", "try_claim", "release_quiescent"}]
    /\ ready \in [Regs -> SUBSET Classes]
    /\ idle \in [Regs -> SUBSET Classes]

(* A class of a provider socket has at most one exclusive owner, and the   *)
(* owner of the terminal class is alone on its socket, however the ports   *)
(* interleave claims, releases and moves to another base handle.           *)
ClaimsExclusive ==
    \A r, q \in Regs : r # q /\ claimBase[r] # None /\ claimBase[r] = claimBase[q] =>
        /\ claim[r] \cap claim[q] = {}
        /\ "TERMINAL" \notin claim[r]

(* Claims never outlive the registration: an owner that is gone would      *)
(* suppress its peers for ever.  Ordinary registrations own none.          *)
ClaimsLive ==
    \A r \in Regs :
        /\ claim[r] # {} <=> claimBase[r] # None
        /\ claim[r] # {} => open[r] /\ r \in Exclusive

(* "admits at least one local exclusive instance": a completion is denied  *)
(* a class only in favour of another live exclusive registration that      *)
(* owns that class, or the terminal class, on the same provider socket     *)
(* once the decision is made.                                              *)
DenialJustified ==
    [][\A r \in Regs : pc[r] = "try_claim" /\ pc'[r] = "none" =>
        \A c \in ready[r] :
            \/ c \in claim'[r] \/ "TERMINAL" \in claim'[r]
            \/ \E q \in Exclusive \ {r} :
                    /\ open'[q]
                    /\ claimBase'[q] = base[r]
                    /\ claim'[q] \cap {c, "TERMINAL"} # {}]_vars
=============================================================================
