------------------------------- MODULE AfdKey -------------------------------
(***************************************************************************)
(* The process-wide index of AFD poll targets (src/wepoll_ex_afd.c).  AFD  *)
(* requests interfere when they carry the same numeric HANDLE, so every    *)
(* request in the kernel needs a number of its own: the provider base      *)
(* handle if no request uses that value, otherwise a duplicate, which is   *)
(* closed once the kernel has captured it, its number kept occupied by an  *)
(* event if possible.                                                      *)
(*                                                                         *)
(* The registrations here belong to different ports.  Each section of the  *)
(* index lock is one action; the calls that allocate and close handles are *)
(* made outside it, and the process's handle table (external) hands a      *)
(* freed number out again at any time, to anyone.                          *)
(***************************************************************************)
EXTENDS Integers, FiniteSets

CONSTANTS
    Socks,      \* registrations, each of its own port
    Numbers,    \* handle values
    BaseNumbers,      \* those of them the application opens sockets at
    Faulty      \* CloseHandle, CreateEvent, DuplicateHandle and realloc can fail

ASSUME BasesAreNumbers == BaseNumbers \subseteq Numbers
ASSUME NumbersFinite == IsFiniteSet(Numbers) /\ 0 \notin Numbers

VARIABLES
    handle,       \* the handle table: what each number names
    stage,           \* where each registration is in ep_afd_poll_submit
    baseSocket,         \* sock->base_socket
    owned,        \* sock->afd_poll_key_owned
    target,       \* sock->afd_poll_target
    reservation,  \* sock->afd_poll_key_reservation, 0 for NULL
    duplicated,   \* target_is_duplicate
    fresh,        \* the handle the last DuplicateHandle or CreateEvent returned
    collisions,   \* duplicates kept because their value was in use
    polling       \* the request is in the kernel

keyVars == <<handle, stage, baseSocket, owned, target, reservation, duplicated, fresh,
             collisions, polling>>

Free == <<"free", 0>>
App  == <<"socket", 0>>
Dup(s) == <<"duplicate", s>>
Event(s) == <<"event", s>>

KeyInit ==
    /\ handle = [n \in Numbers |-> Free]
    /\ stage = [s \in Socks |-> "idle"]
    /\ baseSocket = [s \in Socks |-> 0]
    /\ owned = [s \in Socks |-> FALSE]
    /\ target = [s \in Socks |-> 0]
    /\ reservation = [s \in Socks |-> 0]
    /\ duplicated = [s \in Socks |-> FALSE]
    /\ fresh = [s \in Socks |-> 0]
    /\ collisions = [s \in Socks |-> {}]
    /\ polling = [s \in Socks |-> FALSE]

Goto(s, label) == stage' = [stage EXCEPT ![s] = label]
Closed(N) == [n \in Numbers |-> IF n \in N THEN Free ELSE handle[n]]

----------------------------------------------------------------------------
(* The application opens and closes sockets, also while they are polled. *)
Open(b) ==
    /\ handle[b] = Free
    /\ handle' = [handle EXCEPT ![b] = App]
    /\ UNCHANGED <<stage, baseSocket, owned, target, reservation, duplicated, fresh, collisions,
                   polling>>

Close(b) ==
    /\ handle[b] = App
    /\ handle' = Closed({b})
    /\ UNCHANGED <<stage, baseSocket, owned, target, reservation, duplicated, fresh, collisions,
                   polling>>

----------------------------------------------------------------------------
(* ep_afd_poll_key_is_active_locked *)
MutIsActive(n) == \E s \in Socks : reservation[s] = n    \* mutant: only reserved numbers count
IsActive(n) == \E s \in Socks : owned[s] /\ target[s] = n

(* ep_afd_poll_key_try_claim *)
Claim(s, n) ==
    /\ owned' = [owned EXCEPT ![s] = TRUE]
    /\ target' = [target EXCEPT ![s] = n]

(* ep_afd_poll_submit: sock->base_socket is the cached value or resolved   *)
(* anew; from here on the application may close the socket.                *)
GetBase(s, b) ==
    /\ stage[s] = "idle" /\ handle[b] = App
    /\ baseSocket' = [baseSocket EXCEPT ![s] = b]
    /\ duplicated' = [duplicated EXCEPT ![s] = FALSE]
    /\ Goto(s, "base")
    /\ UNCHANGED <<handle, owned, target, reservation, fresh, collisions, polling>>

(* ep_afd_poll_key_claim: the base handle itself, if its value is not in use *)
ClaimBase(s) ==
    /\ stage[s] = "base"
    /\ IF IsActive(baseSocket[s]) THEN Goto(s, "duplicate") /\ UNCHANGED <<owned, target>>
                            ELSE Goto(s, "submit") /\ Claim(s, baseSocket[s])
    /\ UNCHANGED <<handle, baseSocket, reservation, duplicated, fresh, collisions, polling>>

Duplicate(s, n) ==
    /\ stage[s] = "duplicate"
    /\ handle[baseSocket[s]] # Free /\ handle[n] = Free
    /\ handle' = [handle EXCEPT ![n] = Dup(s)]
    /\ fresh' = [fresh EXCEPT ![s] = n]
    /\ Goto(s, "claim")
    /\ UNCHANGED <<baseSocket, owned, target, reservation, duplicated, collisions, polling>>

(* A duplicate whose value is in use is kept until another is found. *)
MutColliding(s) == collisions[s]    \* mutant: it is closed at once
Colliding(s) == collisions[s] \cup {fresh[s]}

ClaimDuplicate(s) ==
    /\ stage[s] = "claim"
    /\ fresh' = [fresh EXCEPT ![s] = 0]
    /\ IF IsActive(fresh[s])
       THEN /\ collisions' = [collisions EXCEPT ![s] = Colliding(s)]
            /\ handle' = Closed({fresh[s]} \ Colliding(s))
            /\ Goto(s, "duplicate")
            /\ UNCHANGED <<owned, target, duplicated>>
       ELSE /\ Claim(s, fresh[s])
            /\ duplicated' = [duplicated EXCEPT ![s] = TRUE]
            /\ Goto(s, "close collisions")
            /\ UNCHANGED <<handle, collisions>>
    /\ UNCHANGED <<baseSocket, reservation, polling>>

(* The base has gone or the table is full, or a call fails; the array of   *)
(* collisions cannot grow.                                                 *)
ClaimFails(s) ==
    /\ \/ /\ stage[s] = "duplicate"
          /\ Faulty \/ handle[baseSocket[s]] = Free \/ \A n \in Numbers : handle[n] # Free
       \/ stage[s] = "claim" /\ IsActive(fresh[s]) /\ Faulty
    /\ handle' = Closed({fresh[s]} \ {0})
    /\ fresh' = [fresh EXCEPT ![s] = 0]
    /\ Goto(s, "close collisions")
    /\ UNCHANGED <<baseSocket, owned, target, reservation, duplicated, collisions, polling>>

MutCollisionsToClose(s) == IF owned[s] THEN collisions[s] ELSE {}    \* mutant: not on failure
CollisionsToClose(s) == collisions[s]

CloseCollisions(s) ==
    /\ stage[s] = "close collisions"
    /\ handle' = Closed(CollisionsToClose(s))
    /\ collisions' = [collisions EXCEPT ![s] = {}]
    /\ Goto(s, IF owned[s] THEN "submit" ELSE "idle")
    /\ UNCHANGED <<baseSocket, owned, target, reservation, duplicated, fresh, polling>>

(* ep_afd_poll_submit: the request is pending, or satisfied or refused at  *)
(* once.  A duplicate is closed in any case, a base handle never.          *)
Submit(s, pending) ==
    /\ stage[s] = "submit"
    /\ pending => handle[target[s]][1] \in {"socket", "duplicate"}
    /\ polling' = [polling EXCEPT ![s] = pending]
    /\ Goto(s, IF duplicated[s] THEN "close duplicate" ELSE IF pending THEN "pending" ELSE "release")
    /\ UNCHANGED <<handle, baseSocket, owned, target, reservation, duplicated, fresh, collisions>>

(* ep_afd_poll_duplicate_finish: close the duplicate (a failed close       *)
(* leaves it behind), then try to occupy its number with an event.         *)
CloseDuplicate(s, ok) ==
    /\ stage[s] = "close duplicate"
    /\ ok \/ Faulty
    /\ handle' = IF ok THEN Closed({target[s]})
                 ELSE [handle EXCEPT ![target[s]] = <<"leaked", 0>>]
    /\ Goto(s, IF ~polling[s] THEN "release" ELSE IF ok THEN "reserve" ELSE "pending")
    /\ UNCHANGED <<baseSocket, owned, target, reservation, duplicated, fresh, collisions, polling>>

CreateReservation(s, n) ==
    /\ stage[s] = "reserve" /\ handle[n] = Free
    /\ handle' = [handle EXCEPT ![n] = Event(s)]
    /\ fresh' = [fresh EXCEPT ![s] = n]
    /\ Goto(s, "check reservation")
    /\ UNCHANGED <<baseSocket, owned, target, reservation, duplicated, collisions, polling>>

ReservationFails(s) ==
    /\ stage[s] = "reserve"
    /\ Faulty \/ \A n \in Numbers : handle[n] # Free
    /\ Goto(s, "pending")
    /\ UNCHANGED <<handle, baseSocket, owned, target, reservation, duplicated, fresh, collisions,
                   polling>>

CheckReservation(s) ==
    /\ stage[s] = "check reservation"
    /\ IF fresh[s] = target[s]
       THEN reservation' = [reservation EXCEPT ![s] = fresh[s]] /\ UNCHANGED handle
       ELSE handle' = Closed({fresh[s]}) /\ UNCHANGED reservation
    /\ fresh' = [fresh EXCEPT ![s] = 0]
    /\ Goto(s, "pending")
    /\ UNCHANGED <<baseSocket, owned, target, duplicated, collisions, polling>>

(* The kernel completes the request, at the latest when its socket closes; *)
(* then the completion is handled.                                         *)
Complete(s) ==
    /\ stage[s] = "pending"
    /\ polling' = [polling EXCEPT ![s] = FALSE]
    /\ Goto(s, "release")
    /\ UNCHANGED <<handle, baseSocket, owned, target, reservation, duplicated, fresh, collisions>>

(* ep_afd_poll_key_release: detached under the lock, closed outside it *)
Slot(s) == reservation[s]

Release(s) ==
    /\ stage[s] = "release"
    /\ owned' = [owned EXCEPT ![s] = FALSE]
    /\ fresh' = [fresh EXCEPT ![s] = IF duplicated[s] THEN Slot(s) ELSE 0]
    /\ target' = [target EXCEPT ![s] = 0]
    /\ reservation' = [reservation EXCEPT ![s] = 0]
    /\ Goto(s, "close reservation")
    /\ UNCHANGED <<handle, baseSocket, duplicated, collisions, polling>>

CloseReservation(s) ==
    /\ stage[s] = "close reservation"
    /\ handle' = Closed({fresh[s]} \ {0})
    /\ fresh' = [fresh EXCEPT ![s] = 0]
    /\ Goto(s, "idle")
    /\ UNCHANGED <<baseSocket, owned, target, reservation, duplicated, collisions, polling>>

(* What the thread does by itself, between the call and its return *)
Running(s) ==
    \/ ClaimBase(s)
    \/ \E n \in Numbers : Duplicate(s, n)
    \/ ClaimDuplicate(s) \/ ClaimFails(s) \/ CloseCollisions(s)
    \/ \E pending \in BOOLEAN : Submit(s, pending)
    \/ \E ok \in BOOLEAN : CloseDuplicate(s, ok)
    \/ \E n \in Numbers : CreateReservation(s, n)
    \/ ReservationFails(s) \/ CheckReservation(s)
    \/ Release(s) \/ CloseReservation(s)

KeyNext ==
    \/ \E b \in BaseNumbers : Open(b) \/ Close(b)
    \/ \E s \in Socks, b \in BaseNumbers : GetBase(s, b)
    \/ \E s \in Socks : Running(s) \/ Complete(s)

KeySpec == KeyInit /\ [][KeyNext]_keyVars

(* A thread inside the library runs on. *)
FairKeySpec == KeySpec /\ \A s \in Socks : WF_keyVars(Running(s))

----------------------------------------------------------------------------
(* No two requests in the kernel carry the same number, whatever sockets   *)
(* were closed and whatever numbers were handed out again meanwhile.       *)
UniqueTargets ==
    \A s, q \in Socks : s # q /\ polling[s] /\ polling[q] => target[s] # target[q]

(* "HANDLE reuse means a later lookup could name and eventually close an   *)
(* unrelated object": every number about to be closed still names the      *)
(* handle this registration created, and it keeps none once it is idle.    *)
ClosesOwnHandles ==
    \A s \in Socks :
        /\ \A n \in collisions[s] : handle[n] = Dup(s)
        /\ fresh[s] # 0 => handle[fresh[s]] = IF stage[s] = "claim" THEN Dup(s) ELSE Event(s)
        /\ stage[s] = "close duplicate" => handle[target[s]] = Dup(s)
        /\ reservation[s] # 0 => handle[reservation[s]] = Event(s)
        /\ stage[s] = "idle" => \A n \in Numbers : handle[n] \notin {Dup(s), Event(s)}

(* The search for an unused number ends: colliding duplicates are kept, so *)
(* each attempt gets another value.                                        *)
ClaimEnds == \A s \in Socks : stage[s] = "duplicate" ~> stage[s] = "close collisions"
=============================================================================
