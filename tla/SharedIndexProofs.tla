------------------------- MODULE SharedIndexProofs -------------------------
(***************************************************************************)
(* The two process-wide indexes in which the ports of a process meet.      *)
(* First ExclusiveClaims, the index of EPOLLEXCLUSIVE claims, for any      *)
(* registrations, provider sockets and directional classes.  Then AfdKey,  *)
(* the index of handle values in use by AFD polls, for any number of       *)
(* registrations, any set of values, and whether or not calls fail.        *)
(***************************************************************************)
EXTENDS ExclusiveClaims, AfdKey, TLAPS

(* A handler runs only for a registration that exists, and only exclusive  *)
(* registrations reach the claim index with something to claim.            *)
HandlersLive ==
    \A r \in Regs :
        /\ pc[r] # "none" => open[r]
        /\ pc[r] \in {"release_inactive", "try_claim"} => r \in Exclusive

IInv == TypeOK /\ ClaimsExclusive /\ ClaimsLive /\ HandlersLive

(* Initially nothing is registered or claimed. *)
LEMMA InitIInv == Init => IInv
  BY DEF Init, IInv, TypeOK, ClaimsExclusive, ClaimsLive, HandlersLive

(* ep_exclusive_remove_classes_locked and the unlinking of empty claims:   *)
(* replacing every claim by a part of it, where a registration that leaves *)
(* its base loses the claim, preserves the exclusion.                      *)
LEMMA RemovalKeeps ==
  ASSUME IInv, NEW r \in Regs, open[r], NEW C \in SUBSET Classes, RemoveClasses(r, C)
  PROVE  /\ claim' \in [Regs -> SUBSET Classes]
         /\ claimBase' \in [Regs -> Bases \cup {None}]
         /\ \A q \in Regs : claim'[q] \subseteq claim[q]
         /\ \A q \in Regs : claim'[q] # {} => claimBase'[q] = claimBase[q]
         /\ \A q \in Regs : claim'[q] # {} <=> claimBase'[q] # None
  <1> DEFINE cl == [q \in Regs |->
                      IF q = r THEN Kept(r) \ C
                      ELSE IF claimBase[q] = base[r] THEN claim[q] \ C ELSE claim[q]]
  <1>1. /\ claim' = cl
        /\ claimBase' = [q \in Regs |-> IF cl[q] = {} THEN None
                                        ELSE IF q = r THEN base[r] ELSE claimBase[q]]
    BY DEF RemoveClasses, SetClaims
  <1>2. \A q \in Regs : cl[q] \subseteq claim[q]
    BY DEF Kept
  <1>3. \A q \in Regs : cl[q] # {} /\ q = r => claimBase[r] = base[r]
    BY DEF Kept
  <1>4. claim \in [Regs -> SUBSET Classes] /\ base \in [Regs -> Bases]
        /\ claimBase \in [Regs -> Bases \cup {None}] /\ None \notin Bases
    BY NoneFresh DEF IInv, TypeOK
  <1>5. \A q \in Regs : claim[q] # {} <=> claimBase[q] # None
    BY DEF IInv, ClaimsLive
  <1> HIDE DEF cl
  <1>6. cl \in [Regs -> SUBSET Classes]
    BY <1>2, <1>4 DEF cl
  <1> QED
    BY <1>1, <1>2, <1>3, <1>4, <1>5, <1>6

(* What is left after a removal is still exclusive and still live. *)
LEMMA SubclaimsExclusive ==
  ASSUME IInv, UNCHANGED <<open>>,
         \A q \in Regs : claim'[q] \subseteq claim[q],
         \A q \in Regs : claim'[q] # {} => claimBase'[q] = claimBase[q],
         \A q \in Regs : claim'[q] # {} <=> claimBase'[q] # None
  PROVE  ClaimsExclusive' /\ ClaimsLive'
  <1>1. ClaimsLive'
    BY DEF IInv, ClaimsLive
  <1>2. ASSUME NEW p \in Regs, NEW q \in Regs, p # q,
               claimBase'[p] # None, claimBase'[p] = claimBase'[q]
        PROVE  claim'[p] \cap claim'[q] = {} /\ "TERMINAL" \notin claim'[p]
    <2>1. claimBase[p] = claimBase'[p] /\ claimBase[q] = claimBase'[q]
      BY <1>2
    <2>2. claim[p] \cap claim[q] = {} /\ "TERMINAL" \notin claim[p]
      BY <2>1, <1>2 DEF IInv, ClaimsExclusive
    <2> QED BY <2>2
  <1> QED BY <1>1, <1>2 DEF ClaimsExclusive

(* ep_exclusive_try_claim: what a claim of the classes R grants and takes  *)
(* from the peers, case by case.                                           *)
LEMMA ClaimCases ==
  ASSUME IInv, NEW r \in Regs, NEW R \in SUBSET Classes
  PROVE  /\ Granted(r, R) \subseteq R
         /\ \A q \in Peers(r) : Granted(r, R) \cap PeerClaim(r, R, q) = {}
         /\ "TERMINAL" \in Granted(r, R) => \A q \in Peers(r) : PeerClaim(r, R, q) = {}
         /\ \A q \in Regs : PeerClaim(r, R, q) \subseteq claim[q]
         /\ \A q \in Regs : "TERMINAL" \in claim[q] /\ q \in Peers(r) => Granted(r, R) = {}
  <1> USE DEF Granted
  <1>1. \A q \in Regs : PeerClaim(r, R, q) \subseteq claim[q]
    BY DEF PeerClaim
  <1>2. CASE PeerTerminal(r)
    <2>1. Granted(r, R) = {}
      BY <1>2 DEF Denied
    <2> QED BY <1>1, <2>1
  <1>3. CASE ~PeerTerminal(r)
    <2>1. \A q \in Peers(r) : "TERMINAL" \notin claim[q]
      BY <1>3 DEF PeerTerminal
    <2>2. \A q \in Peers(r) : claim[q] \subseteq Directional
      <3>1. claim \in [Regs -> SUBSET Classes]
        BY DEF IInv, TypeOK
      <3>2. \A q \in Peers(r) : q \in Regs
        BY DEF Peers, Claimants
      <3>3. \A q \in Peers(r) : claim[q] \subseteq Classes
        BY <3>1, <3>2
      <3> QED BY <2>1, <3>3 DEF Classes
    <2>3. CASE "TERMINAL" \in R
      <3>1. Granted(r, R) = R
        BY <1>3, <2>3 DEF Denied
      <3>2. \A q \in Peers(r) : PeerClaim(r, R, q) = {}
        BY <3>1, <2>2, <2>3 DEF PeerClaim
      <3> QED BY <1>1, <2>1, <3>1, <3>2
    <2>4. CASE "TERMINAL" \notin R
      <3>1. Granted(r, R) = R \ UNION {claim[q] : q \in Peers(r)}
        BY <1>3, <2>4 DEF Denied
      <3>2. \A q \in Peers(r) : PeerClaim(r, R, q) = claim[q]
        BY <2>4, <3>1 DEF PeerClaim
      <3> QED BY <1>1, <2>1, <2>4, <3>1, <3>2
    <2> QED BY <2>3, <2>4
  <1> QED BY <1>2, <1>3

(* A completion that claims leaves the index exclusive and live. *)
LEMMA ClaimKeeps ==
  ASSUME IInv, NEW r \in Regs, TryClaim(r)
  PROVE  IInv'
  <1> DEFINE R == ready[r]
             cl == [q \in Regs |-> IF q = r THEN OwnClaim(r, R) ELSE PeerClaim(r, R, q)]
  <1>1. /\ claim' = cl
        /\ claimBase' = [q \in Regs |-> IF cl[q] = {} THEN None
                                        ELSE IF q = r THEN base[r] ELSE claimBase[q]]
        /\ UNCHANGED <<level, open, base, idle>>
        /\ ready' = [ready EXCEPT ![r] = {}]
        /\ pc' = [pc EXCEPT ![r] = "none"]
        /\ pc[r] = "try_claim"
    BY DEF TryClaim, SetClaims
  <1>2. R \in SUBSET Classes /\ open[r] /\ r \in Exclusive /\ base[r] \in Bases /\ base[r] # None
    BY <1>1, NoneFresh DEF IInv, TypeOK, HandlersLive
  <1>3. /\ Granted(r, R) \subseteq R
        /\ \A q \in Peers(r) : Granted(r, R) \cap PeerClaim(r, R, q) = {}
        /\ "TERMINAL" \in Granted(r, R) => \A q \in Peers(r) : PeerClaim(r, R, q) = {}
        /\ \A q \in Regs : PeerClaim(r, R, q) \subseteq claim[q]
        /\ \A q \in Regs : "TERMINAL" \in claim[q] /\ q \in Peers(r) => Granted(r, R) = {}
    BY <1>2, ClaimCases, Zenon
  <1>4. claim \in [Regs -> SUBSET Classes] /\ claimBase \in [Regs -> Bases \cup {None}]
    BY DEF IInv, TypeOK
  <1>5. \A q \in Regs : cl[q] = IF q = r THEN OwnClaim(r, R) ELSE PeerClaim(r, R, q)
    OBVIOUS
  <1>6. OwnClaim(r, R) \in SUBSET Classes
    BY <1>2, <1>3, <1>4 DEF OwnClaim, Kept, Classes
  <1> HIDE DEF cl
  <1>7. cl \in [Regs -> SUBSET Classes]
    BY <1>3, <1>4, <1>5, <1>6 DEF cl
  <1>8. TypeOK'
    <2>1. claimBase' \in [Regs -> Bases \cup {None}]
      BY <1>1, <1>2, <1>4, <1>7
    <2> QED BY <1>1, <1>7, <2>1, Zenon DEF IInv, TypeOK
  <1>9. ClaimsLive'
    <2>1. \A q \in Regs : claim[q] # {} <=> claimBase[q] # None
      BY DEF IInv, ClaimsLive
    <2>2. \A q \in Regs : cl[q] # {} <=> claimBase'[q] # None
      BY <1>1, <1>2, <1>3, <1>5, <2>1
    <2>3. \A q \in Regs : cl[q] # {} => open[q] /\ q \in Exclusive
      BY <1>2, <1>3, <1>5 DEF IInv, ClaimsLive
    <2> QED BY <1>1, <2>2, <2>3 DEF ClaimsLive
  <1>10. HandlersLive'
    BY <1>1 DEF IInv, TypeOK, HandlersLive
  <1>11. ASSUME NEW q \in Regs \ {r}, claimBase'[q] = base[r], claimBase'[r] = base[r]
         PROVE  /\ cl[r] \cap cl[q] = {}
                /\ "TERMINAL" \notin cl[r] /\ "TERMINAL" \notin cl[q]
    <2>1. cl[q] # {} /\ claimBase[q] = base[r]
      BY <1>1, <1>2, <1>11
    <2>2. q \in Peers(r)
      BY <2>1 DEF Peers, Claimants
    <2>3. "TERMINAL" \notin Granted(r, R)
      BY <1>3, <1>5, <2>1, <2>2
    <2>4. Kept(r) # {} => Kept(r) \cap claim[q] = {} /\ "TERMINAL" \notin Kept(r)
                          /\ "TERMINAL" \notin claim[q]
      BY <1>2, <2>1 DEF Kept, IInv, ClaimsExclusive
    <2>5. cl[r] = Kept(r) \cup Granted(r, R)
      BY <1>5, <2>3, <2>4 DEF OwnClaim
    <2>6. cl[q] \subseteq claim[q]
      BY <1>3, <1>5
    <2>7. cl[r] # {}
      BY <1>1, <1>2, <1>11
    <2>8. "TERMINAL" \notin claim[q]
      BY <1>3, <2>2, <2>4, <2>5, <2>7
    <2>9. Granted(r, R) \cap cl[q] = {}
      BY <1>3, <1>5, <2>2
    <2> QED BY <2>3, <2>4, <2>5, <2>6, <2>8, <2>9
  <1>12. ClaimsExclusive'
    <2> SUFFICES ASSUME NEW p \in Regs, NEW q \in Regs, p # q,
                        claimBase'[p] # None, claimBase'[p] = claimBase'[q]
                 PROVE  claim'[p] \cap claim'[q] = {} /\ "TERMINAL" \notin claim'[p]
      BY DEF ClaimsExclusive
    <2>1. CASE p = r
      <3>1. claimBase'[p] = base[r]
        BY <1>1, <2>1
      <3> QED BY <1>1, <1>11, <2>1, <3>1
    <2>2. CASE q = r
      <3>1. claimBase'[q] = base[r]
        BY <1>1, <2>2
      <3> QED BY <1>1, <1>11, <2>2, <3>1
    <2>3. CASE p # r /\ q # r
      <3>1. claimBase'[p] = claimBase[p] /\ claimBase'[q] = claimBase[q]
        BY <1>1, <2>3
      <3>2. cl[p] \subseteq claim[p] /\ cl[q] \subseteq claim[q]
        BY <1>3, <1>5, <2>3
      <3> QED BY <1>1, <3>1, <3>2 DEF IInv, ClaimsExclusive
    <2> QED BY <2>1, <2>2, <2>3
  <1> QED BY <1>8, <1>9, <1>10, <1>12 DEF IInv

(* Every critical section on the claim index, and every step of the        *)
(* network and of the registrations, preserves the invariant.              *)
LEMMA StepIInv == IInv /\ [Next]_vars => IInv'
  <1> SUFFICES ASSUME IInv, [Next]_vars PROVE IInv'
    OBVIOUS
  <1> USE DEF IInv
  <1>1. ASSUME NEW r \in Regs, NEW b \in Bases, Add(r, b) PROVE IInv'
    BY <1>1 DEF Add, TypeOK, ClaimsExclusive, ClaimsLive, HandlersLive
  <1>2. ASSUME NEW r \in Regs, Detach(r) PROVE IInv'
    <2>1. TypeOK' /\ HandlersLive'
      BY <1>2 DEF Detach, TypeOK, HandlersLive
    <2>2. ClaimsLive'
      BY <1>2 DEF Detach, TypeOK, ClaimsLive
    <2>3. ClaimsExclusive'
      BY <1>2 DEF Detach, TypeOK, ClaimsExclusive
    <2> QED BY <2>1, <2>2, <2>3
  <1>3. ASSUME NEW r \in Regs, NEW R \in SUBSET Classes, NEW I \in SUBSET Directional,
               Sample(r, R, I)
        PROVE  IInv'
    BY <1>3 DEF Sample, TypeOK, ClaimsExclusive, ClaimsLive, HandlersLive, Classes
  <1>4. ASSUME NEW r \in Regs, NEW R \in SUBSET Classes, QueueLocalShutdown(r, R)
        PROVE  IInv'
    BY <1>4 DEF QueueLocalShutdown, TypeOK, ClaimsExclusive, ClaimsLive, HandlersLive
  <1>5. ASSUME NEW r \in Regs, ReleaseInactive(r) PROVE IInv'
    <2>1. open[r] /\ r \in Exclusive /\ idle[r] \in SUBSET Classes
      BY <1>5 DEF ReleaseInactive, TypeOK, HandlersLive
    <2>2. /\ level' \in [Bases -> SUBSET Classes] /\ open' \in [Regs -> BOOLEAN]
          /\ base' \in [Regs -> Bases] /\ ready' \in [Regs -> SUBSET Classes]
          /\ idle' \in [Regs -> SUBSET Classes]
          /\ pc' \in [Regs -> {"none", "release_inactive", "try_claim", "release_quiescent"}]
      BY <1>5 DEF ReleaseInactive, TypeOK
    <2>3. HandlersLive' /\ UNCHANGED open
      BY <1>5, <2>1 DEF ReleaseInactive, TypeOK, HandlersLive
    <2>4. CASE idle[r] = {}
      <3>1. UNCHANGED <<claim, claimBase>>
        BY <1>5, <2>4 DEF ReleaseInactive
      <3> QED BY <2>2, <2>3, <3>1 DEF TypeOK, ClaimsExclusive, ClaimsLive
    <2>5. CASE idle[r] # {}
      <3>1. RemoveClasses(r, idle[r])
        BY <1>5, <2>5 DEF ReleaseInactive
      <3>2. /\ claim' \in [Regs -> SUBSET Classes]
            /\ claimBase' \in [Regs -> Bases \cup {None}]
            /\ ClaimsExclusive' /\ ClaimsLive'
        BY <2>1, <2>3, <3>1, RemovalKeeps, SubclaimsExclusive
      <3> QED BY <2>2, <2>3, <3>2 DEF TypeOK
    <2> QED BY <2>4, <2>5
  <1>6. ASSUME NEW r \in Regs, TryClaim(r) PROVE IInv'
    BY <1>6, ClaimKeeps
  <1>7. ASSUME NEW r \in Regs, NEW b \in Bases, NEW C \in SUBSET Classes,
               SubmitPending(r, b, C)
        PROVE  IInv'
    BY <1>7 DEF SubmitPending, TypeOK, ClaimsExclusive, ClaimsLive, HandlersLive
  <1>8. ASSUME NEW r \in Regs, ReleaseQuiescent(r) PROVE IInv'
    <2>1. open[r] /\ idle[r] \in SUBSET Classes /\ RemoveClasses(r, idle[r])
      BY <1>8 DEF ReleaseQuiescent, TypeOK, HandlersLive
    <2>2. HandlersLive' /\ UNCHANGED open
      BY <1>8 DEF ReleaseQuiescent, TypeOK, HandlersLive
    <2>3. /\ claim' \in [Regs -> SUBSET Classes]
          /\ claimBase' \in [Regs -> Bases \cup {None}]
          /\ ClaimsExclusive' /\ ClaimsLive'
      BY <2>1, <2>2, RemovalKeeps, SubclaimsExclusive
    <2>4. TypeOK'
      BY <1>8, <2>3, Zenon DEF ReleaseQuiescent, TypeOK
    <2> QED BY <2>2, <2>3, <2>4
  <1>9. ASSUME NEW b \in Bases, NEW c \in Classes, Activate(b, c) PROVE IInv'
    BY <1>9 DEF Activate, TypeOK, ClaimsExclusive, ClaimsLive, HandlersLive
  <1>10. ASSUME NEW b \in Bases, NEW c \in Classes, Deactivate(b, c) PROVE IInv'
    BY <1>10 DEF Deactivate, TypeOK, ClaimsExclusive, ClaimsLive, HandlersLive
  <1>11. CASE UNCHANGED vars
    BY <1>11 DEF vars, TypeOK, ClaimsExclusive, ClaimsLive, HandlersLive
  <1> QED
    BY <1>1, <1>2, <1>3, <1>4, <1>5, <1>6, <1>7, <1>8, <1>9, <1>10, <1>11 DEF Next

(* The invariant holds throughout. *)
THEOREM Inductive == Spec => []IInv
  BY InitIInv, StepIInv, PTL DEF Spec

(* Variables of the claim index keep their types. *)
THEOREM TypeCorrect == Spec => []TypeOK
  <1>1. IInv => TypeOK
    BY DEF IInv
  <1> QED BY <1>1, Inductive, PTL

(* At most one exclusive owner per class of a provider socket, and the     *)
(* owner of the terminal class is alone: for any number of ports and       *)
(* sockets, in every interleaving of ep_exclusive_try_claim with the       *)
(* releases of other ports.                                                *)
THEOREM Exclusion == Spec => []ClaimsExclusive
  <1>1. IInv => ClaimsExclusive
    BY DEF IInv
  <1> QED BY <1>1, Inductive, PTL

(* No claim outlives its registration or belongs to an ordinary one. *)
THEOREM NoDeadOwner == Spec => []ClaimsLive
  <1>1. IInv => ClaimsLive
    BY DEF IInv
  <1> QED BY <1>1, Inductive, PTL

(* The decision of ep_exclusive_try_claim on one class *)
JustifiedFor(r, c) ==
    \/ c \in claim'[r] \/ "TERMINAL" \in claim'[r]
    \/ \E q \in Exclusive \ {r} :
            /\ open'[q]
            /\ claimBase'[q] = base[r]
            /\ claim'[q] \cap {c, "TERMINAL"} # {}

(* A class is denied only because a live peer owns it. *)
LEMMA ClaimJustified ==
  ASSUME IInv, NEW r \in Regs, TryClaim(r), NEW c \in ready[r]
  PROVE  JustifiedFor(r, c)
  <1> DEFINE R == ready[r]
             cl == [q \in Regs |-> IF q = r THEN OwnClaim(r, R) ELSE PeerClaim(r, R, q)]
  <1>1. /\ claim' = cl
        /\ claimBase' = [q \in Regs |-> IF cl[q] = {} THEN None
                                        ELSE IF q = r THEN base[r] ELSE claimBase[q]]
        /\ open' = open
    BY DEF TryClaim, SetClaims
  <1>2. claim'[r] = OwnClaim(r, R)
    BY <1>1
  <1>3. CASE c \in Granted(r, R)
    BY <1>2, <1>3 DEF OwnClaim, JustifiedFor
  <1>4. CASE c \notin Granted(r, R)
    <2>1. c \in Denied(r, R)
      BY <1>4 DEF Granted
    <2>2. PICK q \in Peers(r) : claim[q] \cap {c, "TERMINAL"} # {}
      BY <2>1 DEF Denied, PeerTerminal
    <2>3. q \in Regs \ {r} /\ claimBase[q] = base[r] /\ claim[q] # {}
      BY <2>2 DEF Peers, Claimants
    <2>4. open[q] /\ q \in Exclusive
      BY <2>3 DEF IInv, ClaimsLive
    <2>5. "TERMINAL" \notin Granted(r, R)
      BY <2>1 DEF Granted, Denied
    <2>6. cl[q] = claim[q]
      BY <2>3, <2>5 DEF PeerClaim
    <2>7. claim'[q] = claim[q] /\ claimBase'[q] = base[r] /\ open'[q]
      BY <1>1, <2>3, <2>4, <2>6
    <2> QED BY <2>2, <2>3, <2>4, <2>7 DEF JustifiedFor
  <1> QED BY <1>3, <1>4

(* An exclusive registration is denied a class only in favour of a live    *)
(* exclusive peer on the same socket that owns the class, or the terminal  *)
(* class, after the decision: ep_exclusive_try_claim never suppresses the  *)
(* last willing receiver.                                                  *)
THEOREM Justified == Spec => DenialJustified
  <1>1. ASSUME IInv, [Next]_vars, NEW r \in Regs, pc[r] = "try_claim", pc'[r] = "none"
        PROVE  TryClaim(r)
    <2>1. open[r] /\ pc \in [Regs -> {"none", "release_inactive", "try_claim", "release_quiescent"}]
      BY <1>1 DEF IInv, HandlersLive, TypeOK
    <2>2. pc' # pc
      BY <1>1
    <2>3. Next
      BY <1>1, <2>2 DEF vars
    <2>4. ~(\E b \in Bases : Add(r, b))
      BY <2>1 DEF Add
    <2>5. \A q \in Regs \ {r} : \A b \in Bases : ~Add(q, b)
      BY <1>1, <2>1 DEF Add
    <2>6. \A q \in Regs : ~Detach(q) /\ ~ReleaseQuiescent(q) /\ ~ReleaseInactive(q)
      BY <1>1, <2>1, <2>2 DEF Detach, ReleaseQuiescent, ReleaseInactive
    <2>7. \A q \in Regs, S \in SUBSET Classes : ~QueueLocalShutdown(q, S)
      BY <1>1, <2>1 DEF QueueLocalShutdown
    <2>8. \A q \in Regs, S \in SUBSET Classes, I \in SUBSET Directional : ~Sample(q, S, I)
      BY <1>1, <2>1 DEF Sample
    <2>9. \A q \in Regs, b \in Bases, C \in SUBSET Classes : ~SubmitPending(q, b, C)
      BY <1>1, <2>1 DEF SubmitPending
    <2>10. \A b \in Bases, d \in Classes : ~Activate(b, d) /\ ~Deactivate(b, d)
      BY <2>2 DEF Activate, Deactivate
    <2>11. PICK q \in Regs : TryClaim(q)
      BY <2>3, <2>4, <2>5, <2>6, <2>7, <2>8, <2>9, <2>10 DEF Next
    <2>12. q = r
      BY <1>1, <2>1, <2>11 DEF TryClaim
    <2> QED BY <2>11, <2>12
  <1>2. ASSUME IInv, [Next]_vars
        PROVE  \A r \in Regs : pc[r] = "try_claim" /\ pc'[r] = "none" =>
                   \A c \in ready[r] : JustifiedFor(r, c)
    BY <1>1, <1>2, ClaimJustified
  <1> QED
    BY <1>2, Inductive, PTL DEF Spec, DenialJustified, JustifiedFor

----------------------------------------------------------------------------
(* The index of AFD poll targets (src/wepoll_ex_afd.c) *)

Leaked == <<"leaked", 0>>
Handles == {Free, App, Leaked} \cup {Dup(s) : s \in Socks} \cup {Event(s) : s \in Socks}

(* Where sock->afd_poll_key_owned is set *)
Claimed == {"submit", "close duplicate", "reserve", "check reservation", "pending", "release"}
Labels == {"idle", "base", "duplicate", "claim", "close collisions", "close reservation"} \cup Claimed

KeyTypeOK ==
    /\ handle \in [Numbers -> Handles]
    /\ stage \in [Socks -> Labels]
    /\ baseSocket \in [Socks -> Numbers \cup {0}]
    /\ owned \in [Socks -> BOOLEAN]
    /\ target \in [Socks -> Numbers \cup {0}]
    /\ reservation \in [Socks -> Numbers \cup {0}]
    /\ duplicated \in [Socks -> BOOLEAN]
    /\ fresh \in [Socks -> Numbers \cup {0}]
    /\ collisions \in [Socks -> SUBSET Numbers]
    /\ polling \in [Socks -> BOOLEAN]

(* The number of a registration is in the index from the claim to the      *)
(* release, and its request is in the kernel only in between.              *)
Indexed(s) ==
    /\ stage[s] = "base" => baseSocket[s] \in Numbers
    /\ stage[s] \in Claimed => owned[s]
    /\ owned[s] => stage[s] \in Claimed \cup {"close collisions"} /\ target[s] \in Numbers
    /\ polling[s] => stage[s] \in {"close duplicate", "reserve", "check reservation", "pending"}

(* No two registrations are in the index with the same number. *)
DistinctTargets ==
    \A s, q \in Socks : s # q /\ owned[s] /\ owned[q] => target[s] # target[q]

(* When the locals of a submission and the reservation are meaningful *)
Locals(s) ==
    /\ collisions[s] # {} => stage[s] \in {"duplicate", "claim", "close collisions"}
    /\ fresh[s] # 0 => stage[s] \in {"claim", "check reservation", "close reservation"}
    /\ stage[s] \in {"claim", "check reservation"} => fresh[s] # 0
    /\ stage[s] \in {"base", "duplicate", "claim"} => ~duplicated[s]
    /\ stage[s] \in {"close duplicate", "reserve", "check reservation"} => duplicated[s]
    /\ reservation[s] # 0 => stage[s] \in {"pending", "release"} /\ duplicated[s]

(* The claimed number is a duplicate that is still open. *)
HoldsDuplicate(s) ==
    owned[s] /\ duplicated[s] /\ stage[s] \in {"close collisions", "submit", "close duplicate"}

(* The handles a registration has to close *)
OwnDup(s, n) ==
    \/ n \in collisions[s]
    \/ stage[s] = "claim" /\ n = fresh[s]
    \/ HoldsDuplicate(s) /\ n = target[s]

OwnEvent(s, n) ==
    \/ stage[s] \in {"check reservation", "close reservation"} /\ n = fresh[s]
    \/ n = reservation[s]

(* They are exactly those the handle table has for it, each of them once. *)
Owns(s) ==
    /\ \A n \in Numbers : handle[n] = Dup(s) <=> OwnDup(s, n)
    /\ \A n \in Numbers : handle[n] = Event(s) <=> OwnEvent(s, n)
    /\ stage[s] = "claim" => fresh[s] \notin collisions[s]
    /\ HoldsDuplicate(s) => target[s] \notin collisions[s]

KeyInv ==
    /\ KeyTypeOK
    /\ DistinctTargets
    /\ \A s \in Socks : Indexed(s) /\ Locals(s) /\ Owns(s)

----------------------------------------------------------------------------
(* The kinds of handles are told apart, and so are their owners. *)
LEMMA Kinds ==
  ASSUME NEW s, NEW q
  PROVE  /\ Dup(s) # Event(q) /\ Dup(s) # Free /\ Dup(s) # App /\ Dup(s) # Leaked
         /\ Event(s) # Free /\ Event(s) # App /\ Event(s) # Leaked
         /\ s # q => Dup(s) # Dup(q) /\ Event(s) # Event(q)
  BY DEF Dup, Event, Free, App, Leaked

(* What the index tells is what try_claim needs: a number that is not      *)
(* active belongs to no registration.                                      *)
LEMMA ClaimKeepsDistinct ==
  ASSUME KeyTypeOK, DistinctTargets, NEW s \in Socks, NEW n \in Numbers,
         ~IsActive(n), Claim(s, n)
  PROVE  DistinctTargets'
  BY DEF KeyTypeOK, DistinctTargets, IsActive, Claim

(* A step of the registration s leaves the others' variables alone and     *)
(* changes the handle table only where it is free or its own.              *)
OnlyBy(s) ==
    /\ \A q \in Socks \ {s} :
          /\ stage'[q] = stage[q] /\ baseSocket'[q] = baseSocket[q] /\ owned'[q] = owned[q]
          /\ target'[q] = target[q] /\ reservation'[q] = reservation[q]
          /\ duplicated'[q] = duplicated[q] /\ fresh'[q] = fresh[q]
          /\ collisions'[q] = collisions[q] /\ polling'[q] = polling[q]
    /\ \A n \in Numbers :
          \/ handle'[n] = handle[n]
          \/ /\ handle[n] \in {Free, Dup(s), Event(s)}
             /\ handle'[n] \in {Free, Leaked, Dup(s), Event(s)}

LEMMA OthersKeep ==
  ASSUME KeyInv, NEW s \in Socks, OnlyBy(s)
  PROVE  \A q \in Socks \ {s} : Indexed(q)' /\ Locals(q)' /\ Owns(q)'
  <1> TAKE q \in Socks \ {s}
  <1>1. Indexed(q) /\ Locals(q) /\ Owns(q)
    BY DEF KeyInv
  <1>2. Indexed(q)' /\ Locals(q)'
    BY <1>1, Zenon DEF OnlyBy, Indexed, Locals
  <1>3. \A n \in Numbers : /\ handle'[n] = Dup(q) <=> handle[n] = Dup(q)
                           /\ handle'[n] = Event(q) <=> handle[n] = Event(q)
    BY Kinds DEF OnlyBy
  <1>4. \A n \in Numbers : (OwnDup(q, n)' <=> OwnDup(q, n)) /\ (OwnEvent(q, n)' <=> OwnEvent(q, n))
    BY Zenon DEF OnlyBy, OwnDup, OwnEvent, HoldsDuplicate
  <1>5. Owns(q)'
    BY <1>1, <1>3, <1>4, Zenon DEF OnlyBy, Owns, HoldsDuplicate
  <1> QED BY <1>2, <1>5

(* So a step of s has to be looked at for s only. *)
LEMMA StepOf ==
  ASSUME KeyInv, NEW s \in Socks, KeyTypeOK', DistinctTargets', OnlyBy(s),
         Indexed(s)', Locals(s)', Owns(s)'
  PROVE  KeyInv'
  BY OthersKeep DEF KeyInv

(* What every step of s starts from *)
LEMMA Facts ==
  ASSUME KeyInv, NEW s \in Socks
  PROVE  /\ KeyTypeOK /\ DistinctTargets /\ Indexed(s) /\ Locals(s) /\ Owns(s)
         /\ 0 \notin Numbers
         /\ Free \in Handles /\ App \in Handles /\ Leaked \in Handles
         /\ Dup(s) \in Handles /\ Event(s) \in Handles
  BY NumbersFinite DEF KeyInv, Handles

LEMMA InitKeyInv == KeyInit => KeyInv
  <1> SUFFICES ASSUME KeyInit PROVE KeyInv
    OBVIOUS
  <1>1. KeyTypeOK
    BY DEF KeyInit, KeyTypeOK, Handles, Labels
  <1>2. \A s \in Socks : Indexed(s) /\ Locals(s) /\ Owns(s)
    BY Kinds, NumbersFinite DEF KeyInit, Indexed, Locals, Owns, OwnDup, OwnEvent, HoldsDuplicate, Claimed
  <1> QED BY <1>1, <1>2 DEF KeyInv, DistinctTargets, KeyInit

----------------------------------------------------------------------------
(* sock->base_socket is read: no handle, no claim. *)
LEMMA GetBaseKeeps ==
  ASSUME KeyInv, NEW s \in Socks, NEW b \in BaseNumbers, GetBase(s, b)
  PROVE  KeyInv'
  <1> USE DEF GetBase, Goto
  <1>0. /\ KeyTypeOK /\ DistinctTargets /\ Indexed(s) /\ Locals(s) /\ Owns(s) /\ 0 \notin Numbers
        /\ {Free, App, Leaked, Dup(s), Event(s)} \subseteq Handles
    BY Facts
  <1>1. KeyTypeOK'
    BY <1>0, BasesAreNumbers, Zenon DEF KeyTypeOK, Labels, Claimed
  <1>2. OnlyBy(s)
    BY <1>0, Kinds DEF KeyTypeOK, OnlyBy, Owns, OwnDup, OwnEvent, HoldsDuplicate
  <1>3. Indexed(s)'
    BY <1>0, BasesAreNumbers DEF KeyTypeOK, Indexed, Claimed
  <1>4. Locals(s)'
    BY <1>0 DEF KeyTypeOK, Indexed, Locals, Claimed
  <1>5. DistinctTargets'
    BY <1>0 DEF KeyTypeOK, DistinctTargets
  <1>6. Owns(s)'
    BY <1>0, Kinds DEF KeyTypeOK, Indexed, Locals, Owns, OwnDup, OwnEvent, HoldsDuplicate, Claimed
  <1> QED BY <1>1, <1>2, <1>3, <1>4, <1>5, <1>6, StepOf

(* The base handle is claimed only if its value is not in use. *)
LEMMA ClaimBaseKeeps ==
  ASSUME KeyInv, NEW s \in Socks, ClaimBase(s)
  PROVE  KeyInv'
  <1> USE DEF ClaimBase, Goto, Claim
  <1>0. /\ KeyTypeOK /\ DistinctTargets /\ Indexed(s) /\ Locals(s) /\ Owns(s) /\ 0 \notin Numbers
        /\ {Free, App, Leaked, Dup(s), Event(s)} \subseteq Handles
    BY Facts
  <1>1. KeyTypeOK'
    BY <1>0 DEF KeyTypeOK, Labels, Claimed
  <1>2. OnlyBy(s)
    BY <1>0, Kinds DEF KeyTypeOK, OnlyBy, Owns, OwnDup, OwnEvent, HoldsDuplicate
  <1>3. Indexed(s)'
    BY <1>0, Zenon DEF KeyTypeOK, Indexed, Claimed
  <1>4. Locals(s)'
    BY <1>0, Zenon DEF KeyTypeOK, Indexed, Locals, Claimed
  <1>5. DistinctTargets'
    BY <1>0, ClaimKeepsDistinct, Zenon DEF Indexed, DistinctTargets
  <1>6. Owns(s)'
    BY <1>0, Kinds, Zenon DEF KeyTypeOK, Indexed, Locals, Owns, OwnDup, OwnEvent, HoldsDuplicate, Claimed
  <1> QED BY <1>1, <1>2, <1>3, <1>4, <1>5, <1>6, StepOf

(* A new duplicate is the one value the claim will try. *)
LEMMA DuplicateKeeps ==
  ASSUME KeyInv, NEW s \in Socks, NEW n \in Numbers, Duplicate(s, n)
  PROVE  KeyInv'
  <1> USE DEF Duplicate, Goto
  <1>0. /\ KeyTypeOK /\ DistinctTargets /\ Indexed(s) /\ Locals(s) /\ Owns(s) /\ 0 \notin Numbers
        /\ {Free, App, Leaked, Dup(s), Event(s)} \subseteq Handles
    BY Facts
  <1>1. KeyTypeOK'
    BY <1>0, Zenon DEF KeyTypeOK, Labels, Claimed
  <1>2. OnlyBy(s)
    BY <1>0, Kinds DEF KeyTypeOK, OnlyBy, Owns, OwnDup, OwnEvent, HoldsDuplicate
  <1>3. Indexed(s)'
    BY <1>0 DEF KeyTypeOK, Indexed, Claimed
  <1>4. Locals(s)'
    BY <1>0 DEF KeyTypeOK, Indexed, Locals, Claimed
  <1>5. DistinctTargets'
    BY <1>0 DEF KeyTypeOK, DistinctTargets
  <1>6. Owns(s)'
    BY <1>0, Kinds DEF KeyTypeOK, Indexed, Locals, Owns, OwnDup, OwnEvent, HoldsDuplicate, Claimed
  <1> QED BY <1>1, <1>2, <1>3, <1>4, <1>5, <1>6, StepOf, Zenon

(* The duplicate is claimed, or kept among the collisions. *)
LEMMA ClaimDuplicateKeeps ==
  ASSUME KeyInv, NEW s \in Socks, ClaimDuplicate(s)
  PROVE  KeyInv'
  <1> USE DEF ClaimDuplicate, Goto, Claim, Closed, Colliding
  <1>1. /\ KeyTypeOK /\ DistinctTargets /\ Indexed(s) /\ Locals(s) /\ Owns(s) /\ 0 \notin Numbers
        /\ {Free, App, Leaked, Dup(s), Event(s)} \subseteq Handles
    BY Facts, Zenon
  <1>2. fresh[s] \in Numbers /\ handle[fresh[s]] = Dup(s)
    BY <1>1, Zenon DEF KeyTypeOK, Locals, Owns, OwnDup
  <1>3. KeyTypeOK'
    <2>1. handle' \in [Numbers -> Handles]
      BY <1>1, Zenon DEF KeyTypeOK
    <2>2. collisions[s] \cup {fresh[s]} \in SUBSET Numbers
      BY <1>1, <1>2, Zenon DEF KeyTypeOK
    <2>3. collisions' \in [Socks -> SUBSET Numbers]
      <3>1. CASE collisions' = collisions
        BY <1>1, <3>1, Zenon DEF KeyTypeOK
      <3>2. CASE collisions' = [collisions EXCEPT ![s] = collisions[s] \cup {fresh[s]}]
        BY <1>1, <2>2, <3>2, Zenon DEF KeyTypeOK
      <3> QED BY <3>1, <3>2, Zenon
    <2>4. stage' \in [Socks -> Labels] /\ owned' \in [Socks -> BOOLEAN]
          /\ duplicated' \in [Socks -> BOOLEAN]
      BY <1>1, Zenon DEF KeyTypeOK, Labels
    <2>5. target' \in [Socks -> Numbers \cup {0}] /\ fresh' \in [Socks -> Numbers \cup {0}]
      BY <1>1, Zenon DEF KeyTypeOK
    <2> QED BY <1>1, <2>1, <2>3, <2>4, <2>5, Zenon DEF KeyTypeOK
  <1>4. OnlyBy(s)
    BY <1>1, Kinds DEF KeyTypeOK, OnlyBy, Owns, OwnDup, OwnEvent, HoldsDuplicate
  <1>5. Indexed(s)'
    BY <1>1, <1>2, Zenon DEF KeyTypeOK, Indexed, Claimed
  <1>6. Locals(s)'
    BY <1>1, Zenon DEF KeyTypeOK, Indexed, Locals, Claimed
  <1>7. DistinctTargets'
    BY <1>1, ClaimKeepsDistinct DEF KeyTypeOK, Locals, DistinctTargets
  <1>8. Owns(s)'
    <2>1. CASE IsActive(fresh[s])
      <3>1. \A n \in Numbers : handle'[n] = handle[n] /\ (OwnDup(s, n)' <=> OwnDup(s, n))
        BY <1>1, <1>2, <2>1 DEF KeyTypeOK, Locals, OwnDup, HoldsDuplicate
      <3>2. \A n \in Numbers : OwnEvent(s, n)' <=> OwnEvent(s, n)
        BY <1>1, <1>2, <2>1 DEF KeyTypeOK, Locals, OwnEvent
      <3> QED BY <1>1, <1>2, <2>1, <3>1, <3>2 DEF KeyTypeOK, Locals, Owns, HoldsDuplicate
    <2>2. CASE ~IsActive(fresh[s])
      <3>1. \A n \in Numbers : handle'[n] = handle[n] /\ (OwnDup(s, n)' <=> OwnDup(s, n))
        BY <1>1, <1>2, <2>2, Zenon DEF KeyTypeOK, Locals, OwnDup, HoldsDuplicate
      <3>2. \A n \in Numbers : OwnEvent(s, n)' <=> OwnEvent(s, n)
        BY <1>1, <1>2, <2>2, Zenon DEF KeyTypeOK, Locals, OwnEvent
      <3> QED BY <1>1, <1>2, <2>2, <3>1, <3>2, Zenon DEF KeyTypeOK, Locals, Owns, HoldsDuplicate
    <2> QED BY <2>1, <2>2, Zenon
  <1> QED BY <1>3, <1>4, <1>5, <1>6, <1>7, <1>8, StepOf, Zenon

(* A failing claim closes the last duplicate and no other. *)
LEMMA ClaimFailsKeeps ==
  ASSUME KeyInv, NEW s \in Socks, ClaimFails(s)
  PROVE  KeyInv'
  <1> USE DEF ClaimFails, Goto, Closed
  <1>0. /\ KeyTypeOK /\ DistinctTargets /\ Indexed(s) /\ Locals(s) /\ Owns(s) /\ 0 \notin Numbers
        /\ {Free, App, Leaked, Dup(s), Event(s)} \subseteq Handles
    BY Facts, Zenon
  <1>1. KeyTypeOK'
    BY <1>0, Zenon DEF KeyTypeOK, Labels, Claimed
  <1>2. OnlyBy(s)
    <2>1. fresh[s] # 0 => handle[fresh[s]] = Dup(s)
      BY <1>0, Zenon DEF KeyTypeOK, Locals, Owns, OwnDup
    <2> QED BY <1>0, <2>1, Zenon DEF KeyTypeOK, OnlyBy
  <1>3. Indexed(s)'
    BY <1>0, Zenon DEF KeyTypeOK, Indexed, Claimed
  <1>4. Locals(s)'
    BY <1>0, Zenon DEF KeyTypeOK, Indexed, Locals, Claimed
  <1>5. DistinctTargets'
    BY <1>0, Zenon DEF KeyTypeOK, DistinctTargets
  <1>6. Owns(s)'
    BY <1>0, Kinds, Zenon DEF KeyTypeOK, Indexed, Locals, Owns, OwnDup, OwnEvent, HoldsDuplicate, Claimed
  <1> QED BY <1>1, <1>2, <1>3, <1>4, <1>5, <1>6, StepOf, Zenon

(* The colliding duplicates are closed, the claimed one is not. *)
LEMMA CloseCollisionsKeeps ==
  ASSUME KeyInv, NEW s \in Socks, CloseCollisions(s)
  PROVE  KeyInv'
  <1> USE DEF CloseCollisions, Goto, Closed, CollisionsToClose
  <1>0. /\ KeyTypeOK /\ DistinctTargets /\ Indexed(s) /\ Locals(s) /\ Owns(s) /\ 0 \notin Numbers
        /\ {Free, App, Leaked, Dup(s), Event(s)} \subseteq Handles
    BY Facts, Zenon
  <1>1. KeyTypeOK'
    BY <1>0, Zenon DEF KeyTypeOK, Labels, Claimed
  <1>2. OnlyBy(s)
    BY <1>0, Kinds, Zenon DEF KeyTypeOK, OnlyBy, Owns, OwnDup, OwnEvent, HoldsDuplicate
  <1>3. Indexed(s)'
    BY <1>0, Zenon DEF KeyTypeOK, Indexed, Claimed
  <1>4. Locals(s)'
    BY <1>0, Zenon DEF KeyTypeOK, Indexed, Locals, Claimed
  <1>5. DistinctTargets'
    BY <1>0, Zenon DEF KeyTypeOK, DistinctTargets
  <1>6. Owns(s)'
    BY <1>0, Kinds, Zenon DEF KeyTypeOK, Indexed, Locals, Owns, OwnDup, OwnEvent, HoldsDuplicate, Claimed
  <1> QED BY <1>1, <1>2, <1>3, <1>4, <1>5, <1>6, StepOf, Zenon

(* The request enters the kernel or not; the handles stay. *)
LEMMA SubmitKeeps ==
  ASSUME KeyInv, NEW s \in Socks, NEW pending \in BOOLEAN, Submit(s, pending)
  PROVE  KeyInv'
  <1> USE DEF Submit, Goto
  <1>0. /\ KeyTypeOK /\ DistinctTargets /\ Indexed(s) /\ Locals(s) /\ Owns(s) /\ 0 \notin Numbers
        /\ {Free, App, Leaked, Dup(s), Event(s)} \subseteq Handles
    BY Facts, Zenon
  <1>1. KeyTypeOK'
    BY <1>0, Zenon DEF KeyTypeOK, Labels, Claimed
  <1>2. OnlyBy(s)
    BY <1>0, Kinds, Zenon DEF KeyTypeOK, OnlyBy, Owns, OwnDup, OwnEvent, HoldsDuplicate
  <1>3. Indexed(s)'
    BY <1>0, Zenon DEF KeyTypeOK, Indexed, Claimed
  <1>4. Locals(s)'
    BY <1>0, Zenon DEF KeyTypeOK, Indexed, Locals, Claimed
  <1>5. DistinctTargets'
    BY <1>0, Zenon DEF KeyTypeOK, DistinctTargets
  <1>6. Owns(s)'
    BY <1>0, Kinds, Zenon DEF KeyTypeOK, Indexed, Locals, Owns, OwnDup, OwnEvent, HoldsDuplicate, Claimed
  <1> QED BY <1>1, <1>2, <1>3, <1>4, <1>5, <1>6, StepOf, Zenon

(* The duplicate is closed while its number stays in the index. *)
LEMMA CloseDuplicateKeeps ==
  ASSUME KeyInv, NEW s \in Socks, NEW ok \in BOOLEAN, CloseDuplicate(s, ok)
  PROVE  KeyInv'
  <1> USE DEF CloseDuplicate, Goto, Closed
  <1>1. /\ KeyTypeOK /\ DistinctTargets /\ Indexed(s) /\ Locals(s) /\ Owns(s) /\ 0 \notin Numbers
        /\ {Free, App, Leaked, Dup(s), Event(s)} \subseteq Handles
    BY Facts, Zenon
  <1>2. target[s] \in Numbers /\ handle[target[s]] = Dup(s)
    BY <1>1, Zenon DEF KeyTypeOK, Indexed, Locals, Owns, OwnDup, HoldsDuplicate, Claimed
  <1>3. KeyTypeOK'
    BY <1>1, <1>2, Zenon DEF Leaked, KeyTypeOK, Labels, Claimed
  <1>4. OnlyBy(s)
    BY <1>1, <1>2, Zenon DEF Leaked, KeyTypeOK, OnlyBy
  <1>5. Indexed(s)'
    BY <1>1, Zenon DEF KeyTypeOK, Indexed, Claimed
  <1>6. Locals(s)'
    BY <1>1, Zenon DEF KeyTypeOK, Indexed, Locals, Claimed
  <1>7. DistinctTargets'
    BY <1>1, Zenon DEF KeyTypeOK, DistinctTargets
  <1>8. Owns(s)'
    <2>1. \A n \in Numbers : handle'[n] = IF n = target[s] THEN IF ok THEN Free ELSE Leaked ELSE handle[n]
      BY <1>1, <1>2, Zenon DEF KeyTypeOK, Leaked
    <2>2. \A n \in Numbers : OwnDup(s, n)' <=> OwnDup(s, n) /\ n # target[s]
      BY <1>1, <1>2, Zenon DEF KeyTypeOK, Locals, OwnDup, HoldsDuplicate, Indexed, Claimed
    <2>3. \A n \in Numbers : OwnEvent(s, n)' <=> OwnEvent(s, n)
      BY <1>1, Zenon DEF KeyTypeOK, OwnEvent
    <2>4. ~HoldsDuplicate(s)' /\ stage'[s] # "claim"
      BY <1>1, Zenon DEF KeyTypeOK, HoldsDuplicate
    <2>5. \A n \in Numbers : handle'[n] = Dup(s) <=> handle[n] = Dup(s) /\ n # target[s]
      BY <2>1, Kinds, Zenon
    <2>6. \A n \in Numbers : handle'[n] = Event(s) <=> handle[n] = Event(s)
      BY <1>2, <2>1, Kinds, Zenon
    <2> QED BY <1>1, <2>2, <2>3, <2>4, <2>5, <2>6, Zenon DEF Owns
  <1> QED BY <1>3, <1>4, <1>5, <1>6, <1>7, <1>8, StepOf, Zenon

(* The event is the registration's own until it is checked. *)
LEMMA CreateReservationKeeps ==
  ASSUME KeyInv, NEW s \in Socks, NEW n \in Numbers, CreateReservation(s, n)
  PROVE  KeyInv'
  <1> USE DEF CreateReservation, Goto
  <1>0. /\ KeyTypeOK /\ DistinctTargets /\ Indexed(s) /\ Locals(s) /\ Owns(s) /\ 0 \notin Numbers
        /\ {Free, App, Leaked, Dup(s), Event(s)} \subseteq Handles
    BY Facts, Zenon
  <1>1. KeyTypeOK'
    BY <1>0, Zenon DEF KeyTypeOK, Labels, Claimed
  <1>2. OnlyBy(s)
    BY <1>0, Kinds, Zenon DEF KeyTypeOK, OnlyBy, Owns, OwnDup, OwnEvent, HoldsDuplicate
  <1>3. Indexed(s)'
    BY <1>0, Zenon DEF KeyTypeOK, Indexed, Claimed
  <1>4. Locals(s)'
    BY <1>0, Zenon DEF KeyTypeOK, Indexed, Locals, Claimed
  <1>5. DistinctTargets'
    BY <1>0, Zenon DEF KeyTypeOK, DistinctTargets
  <1>6. Owns(s)'
    BY <1>0, Kinds, Zenon DEF KeyTypeOK, Indexed, Locals, Owns, OwnDup, OwnEvent, HoldsDuplicate, Claimed
  <1> QED BY <1>1, <1>2, <1>3, <1>4, <1>5, <1>6, StepOf, Zenon

(* Without an event the number is left unprotected. *)
LEMMA ReservationFailsKeeps ==
  ASSUME KeyInv, NEW s \in Socks, ReservationFails(s)
  PROVE  KeyInv'
  <1> USE DEF ReservationFails, Goto
  <1>0. /\ KeyTypeOK /\ DistinctTargets /\ Indexed(s) /\ Locals(s) /\ Owns(s) /\ 0 \notin Numbers
        /\ {Free, App, Leaked, Dup(s), Event(s)} \subseteq Handles
    BY Facts
  <1>1. KeyTypeOK'
    BY <1>0, Zenon DEF KeyTypeOK, Labels, Claimed
  <1>2. OnlyBy(s)
    BY <1>0, Kinds, Zenon DEF KeyTypeOK, OnlyBy, Owns, OwnDup, OwnEvent, HoldsDuplicate
  <1>3. Indexed(s)'
    BY <1>0, Zenon DEF KeyTypeOK, Indexed, Claimed
  <1>4. Locals(s)'
    BY <1>0 DEF KeyTypeOK, Indexed, Locals, Claimed
  <1>5. DistinctTargets'
    BY <1>0, Zenon DEF KeyTypeOK, DistinctTargets
  <1>6. Owns(s)'
    BY <1>0, Kinds DEF KeyTypeOK, Indexed, Locals, Owns, OwnDup, OwnEvent, HoldsDuplicate, Claimed
  <1> QED BY <1>1, <1>2, <1>3, <1>4, <1>5, <1>6, StepOf

(* An event with another number is closed again. *)
LEMMA CheckReservationKeeps ==
  ASSUME KeyInv, NEW s \in Socks, CheckReservation(s)
  PROVE  KeyInv'
  <1> USE DEF CheckReservation, Goto, Closed
  <1>0. /\ KeyTypeOK /\ DistinctTargets /\ Indexed(s) /\ Locals(s) /\ Owns(s) /\ 0 \notin Numbers
        /\ {Free, App, Leaked, Dup(s), Event(s)} \subseteq Handles
    BY Facts, Zenon
  <1>1. KeyTypeOK'
    BY <1>0, Zenon DEF KeyTypeOK, Labels, Claimed
  <1>2. OnlyBy(s)
    BY <1>0, Kinds DEF KeyTypeOK, OnlyBy, Owns, OwnDup, OwnEvent, HoldsDuplicate
  <1>3. Indexed(s)'
    BY <1>0, Zenon DEF KeyTypeOK, Indexed, Claimed
  <1>4. Locals(s)'
    BY <1>0, Zenon DEF KeyTypeOK, Indexed, Locals, Claimed
  <1>5. DistinctTargets'
    BY <1>0, Zenon DEF KeyTypeOK, DistinctTargets
  <1>6. Owns(s)'
    <2>1. fresh[s] \in Numbers /\ handle[fresh[s]] = Event(s) /\ reservation[s] = 0
      BY <1>0, Zenon DEF KeyTypeOK, Locals, Owns, OwnEvent
    <2>2. \A n \in Numbers : OwnDup(s, n)' <=> OwnDup(s, n)
      BY <1>0, Zenon DEF KeyTypeOK, Locals, OwnDup, HoldsDuplicate
    <2>3. ~HoldsDuplicate(s)' /\ stage'[s] # "claim"
      BY <1>0, Zenon DEF KeyTypeOK, HoldsDuplicate
    <2>4. CASE fresh[s] = target[s]
      <3>1. \A n \in Numbers : OwnEvent(s, n)' <=> OwnEvent(s, n)
        BY <1>0, <2>1, <2>4, Zenon DEF KeyTypeOK, OwnEvent
      <3> QED BY <1>0, <2>2, <2>3, <2>4, <3>1, Zenon DEF Owns
    <2>5. CASE fresh[s] # target[s]
      <3>1. \A n \in Numbers : handle'[n] = IF n = fresh[s] THEN Free ELSE handle[n]
        BY <2>5, Zenon
      <3>2. \A n \in Numbers : OwnEvent(s, n)' <=> OwnEvent(s, n) /\ n # fresh[s]
        BY <1>0, <2>1, <2>5, Zenon DEF KeyTypeOK, OwnEvent
      <3> QED BY <1>0, <2>1, <2>2, <2>3, <3>1, <3>2, Kinds, Zenon DEF Owns
    <2> QED BY <2>4, <2>5, Zenon
  <1> QED BY <1>1, <1>2, <1>3, <1>4, <1>5, <1>6, StepOf, Zenon

(* The kernel gives the request back. *)
LEMMA CompleteKeeps ==
  ASSUME KeyInv, NEW s \in Socks, Complete(s)
  PROVE  KeyInv'
  <1> USE DEF Complete, Goto
  <1>0. /\ KeyTypeOK /\ DistinctTargets /\ Indexed(s) /\ Locals(s) /\ Owns(s) /\ 0 \notin Numbers
        /\ {Free, App, Leaked, Dup(s), Event(s)} \subseteq Handles
    BY Facts
  <1>1. KeyTypeOK'
    BY <1>0, Zenon DEF KeyTypeOK, Labels, Claimed
  <1>2. OnlyBy(s)
    BY <1>0, Kinds, Zenon DEF KeyTypeOK, OnlyBy, Owns, OwnDup, OwnEvent, HoldsDuplicate
  <1>3. Indexed(s)'
    BY <1>0, Zenon DEF KeyTypeOK, Indexed, Claimed
  <1>4. Locals(s)'
    BY <1>0 DEF KeyTypeOK, Indexed, Locals, Claimed
  <1>5. DistinctTargets'
    BY <1>0, Zenon DEF KeyTypeOK, DistinctTargets
  <1>6. Owns(s)'
    BY <1>0, Kinds, Zenon DEF KeyTypeOK, Indexed, Locals, Owns, OwnDup, OwnEvent, HoldsDuplicate, Claimed
  <1> QED BY <1>1, <1>2, <1>3, <1>4, <1>5, <1>6, StepOf

(* The claim ends; the reservation moves to the thread. *)
LEMMA ReleaseKeeps ==
  ASSUME KeyInv, NEW s \in Socks, Release(s)
  PROVE  KeyInv'
  <1> USE DEF Release, Goto, Slot
  <1>0. /\ KeyTypeOK /\ DistinctTargets /\ Indexed(s) /\ Locals(s) /\ Owns(s) /\ 0 \notin Numbers
        /\ {Free, App, Leaked, Dup(s), Event(s)} \subseteq Handles
    BY Facts, Zenon
  <1>1. KeyTypeOK'
    BY <1>0, Zenon DEF KeyTypeOK, Labels, Claimed
  <1>2. OnlyBy(s)
    BY <1>0, Kinds, Zenon DEF KeyTypeOK, OnlyBy, Owns, OwnDup, OwnEvent, HoldsDuplicate
  <1>3. Indexed(s)'
    BY <1>0, Zenon DEF KeyTypeOK, Indexed, Claimed
  <1>4. Locals(s)'
    BY <1>0, Zenon DEF KeyTypeOK, Indexed, Locals, Claimed
  <1>5. DistinctTargets'
    BY <1>0, Zenon DEF KeyTypeOK, DistinctTargets
  <1>6. Owns(s)'
    BY <1>0, Kinds, Zenon DEF KeyTypeOK, Indexed, Locals, Owns, OwnDup, OwnEvent, HoldsDuplicate, Claimed
  <1> QED BY <1>1, <1>2, <1>3, <1>4, <1>5, <1>6, StepOf, Zenon

(* What the thread detached is closed. *)
LEMMA CloseReservationKeeps ==
  ASSUME KeyInv, NEW s \in Socks, CloseReservation(s)
  PROVE  KeyInv'
  <1> USE DEF CloseReservation, Goto, Closed
  <1>0. /\ KeyTypeOK /\ DistinctTargets /\ Indexed(s) /\ Locals(s) /\ Owns(s) /\ 0 \notin Numbers
        /\ {Free, App, Leaked, Dup(s), Event(s)} \subseteq Handles
    BY Facts, Zenon
  <1>1. KeyTypeOK'
    BY <1>0, Zenon DEF KeyTypeOK, Labels, Claimed
  <1>2. OnlyBy(s)
    BY <1>0, Kinds, Zenon DEF KeyTypeOK, OnlyBy, Owns, OwnDup, OwnEvent, HoldsDuplicate
  <1>3. Indexed(s)'
    BY <1>0, Zenon DEF KeyTypeOK, Indexed, Claimed
  <1>4. Locals(s)'
    BY <1>0, Zenon DEF KeyTypeOK, Indexed, Locals, Claimed
  <1>5. DistinctTargets'
    BY <1>0, Zenon DEF KeyTypeOK, DistinctTargets
  <1>6. Owns(s)'
    BY <1>0, Kinds, Zenon DEF KeyTypeOK, Indexed, Locals, Owns, OwnDup, OwnEvent, HoldsDuplicate, Claimed
  <1> QED BY <1>1, <1>2, <1>3, <1>4, <1>5, <1>6, StepOf, Zenon

(* The application opens and closes sockets of its own. *)
LEMMA ApplicationKeeps ==
  ASSUME KeyInv, NEW b \in BaseNumbers, Open(b) \/ Close(b)
  PROVE  KeyInv'
  <1>1. b \in Numbers /\ KeyTypeOK /\ Free \in Handles /\ App \in Handles
    BY BasesAreNumbers, Zenon DEF KeyInv, Handles
  <1>2. \A n \in Numbers : \/ handle'[n] = handle[n]
                           \/ handle[n] \in {Free, App} /\ handle'[n] \in {Free, App}
    BY <1>1 DEF Open, Close, Closed, KeyTypeOK
  <1>3. UNCHANGED <<stage, baseSocket, owned, target, reservation, duplicated, fresh, collisions,
                    polling>>
    BY Zenon DEF Open, Close
  <1>4. KeyTypeOK' /\ DistinctTargets'
    BY <1>1, <1>3, Zenon DEF KeyInv, KeyTypeOK, DistinctTargets, Open, Close, Closed
  <1>5. ASSUME NEW q \in Socks PROVE Indexed(q)' /\ Locals(q)' /\ Owns(q)'
    <2>1. Indexed(q) /\ Locals(q) /\ Owns(q)
      BY Zenon DEF KeyInv
    <2>2. Indexed(q)' /\ Locals(q)'
      BY <2>1, <1>3, Zenon DEF Indexed, Locals
    <2>3. \A n \in Numbers : /\ handle'[n] = Dup(q) <=> handle[n] = Dup(q)
                             /\ handle'[n] = Event(q) <=> handle[n] = Event(q)
      BY <1>2, Kinds
    <2> QED BY <2>1, <2>2, <2>3, <1>3, Zenon DEF Owns, OwnDup, OwnEvent, HoldsDuplicate
  <1> QED BY <1>4, <1>5 DEF KeyInv

----------------------------------------------------------------------------
(* Every step of the program preserves the invariant. *)
LEMMA NextKeyInv == KeyInv /\ [KeyNext]_keyVars => KeyInv'
  <1> SUFFICES ASSUME KeyInv, [KeyNext]_keyVars PROVE KeyInv'
    OBVIOUS
  <1>1. CASE UNCHANGED keyVars
    <2>1. KeyTypeOK' /\ DistinctTargets'
      BY <1>1 DEF keyVars, KeyInv, KeyTypeOK, DistinctTargets
    <2>2. ASSUME NEW s \in Socks PROVE Indexed(s)' /\ Locals(s)' /\ Owns(s)'
      <3>1. Indexed(s) /\ Locals(s) /\ Owns(s)
        BY Zenon DEF KeyInv
      <3>2. Indexed(s)' /\ Locals(s)'
        BY <1>1, <3>1, Zenon DEF keyVars, Indexed, Locals
      <3>3. Owns(s)'
        BY <1>1, <3>1, Zenon DEF keyVars, Owns, OwnDup, OwnEvent, HoldsDuplicate
      <3> QED BY <3>2, <3>3
    <2> QED BY <2>1, <2>2, Zenon DEF KeyInv
  <1>2. ASSUME NEW b \in BaseNumbers, Open(b) \/ Close(b) PROVE KeyInv'
    BY <1>2, ApplicationKeeps
  <1>3. ASSUME NEW s \in Socks, NEW b \in BaseNumbers, GetBase(s, b) PROVE KeyInv'
    BY <1>3, GetBaseKeeps
  <1>4. ASSUME NEW s \in Socks, Complete(s) PROVE KeyInv'
    BY <1>4, CompleteKeeps
  <1>5. ASSUME NEW s \in Socks, Running(s) PROVE KeyInv'
    BY <1>5, ClaimBaseKeeps, DuplicateKeeps, ClaimDuplicateKeeps, ClaimFailsKeeps,
       CloseCollisionsKeeps, SubmitKeeps, CloseDuplicateKeeps, CreateReservationKeeps,
       ReservationFailsKeeps, CheckReservationKeeps, ReleaseKeeps, CloseReservationKeeps
    DEF Running
  <1> QED BY <1>1, <1>2, <1>3, <1>4, <1>5 DEF KeyNext

(* The index is right about every number, and every handle the library     *)
(* creates here has an owner that will close it.                           *)
THEOREM HandlesAccounted == KeySpec => []KeyInv
  BY InitKeyInv, NextKeyInv, PTL DEF KeySpec

(* No two AFD requests in the kernel carry the same handle value, however  *)
(* the numbers of closed sockets and duplicates are handed out again       *)
(* (ep_afd_poll_key_try_claim, ep_afd_poll_submit).                        *)
THEOREM NoTwoRequestsAlike == KeySpec => []UniqueTargets
  <1>1. KeyInv => UniqueTargets
    BY Zenon DEF KeyInv, Indexed, DistinctTargets, UniqueTargets, Claimed, KeyTypeOK
  <1> QED BY <1>1, HandlesAccounted, PTL

(* Every number ep_afd_poll_submit, ep_afd_poll_duplicate_finish and       *)
(* ep_afd_poll_key_release close still names the handle they created, and  *)
(* an idle registration has left no handle behind.                         *)
THEOREM OnlyOwnHandlesClosed == KeySpec => []ClosesOwnHandles
  <1>1. KeyInv => ClosesOwnHandles
    <2> SUFFICES ASSUME KeyInv, NEW s \in Socks
                 PROVE  /\ \A n \in collisions[s] : handle[n] = Dup(s)
                        /\ fresh[s] # 0 => handle[fresh[s]] = IF stage[s] = "claim" THEN Dup(s) ELSE Event(s)
                        /\ stage[s] = "close duplicate" => handle[target[s]] = Dup(s)
                        /\ reservation[s] # 0 => handle[reservation[s]] = Event(s)
                        /\ stage[s] = "idle" => \A n \in Numbers : handle[n] \notin {Dup(s), Event(s)}
      BY Zenon DEF ClosesOwnHandles
    <2>1. /\ KeyTypeOK /\ Indexed(s) /\ Locals(s) /\ Owns(s) /\ 0 \notin Numbers
      BY Facts, Zenon
    <2>2. /\ \A n \in collisions[s] : handle[n] = Dup(s)
          /\ stage[s] = "close duplicate" => handle[target[s]] = Dup(s)
      BY <2>1, Zenon DEF KeyTypeOK, Indexed, Locals, Owns, OwnDup, HoldsDuplicate, Claimed
    <2>3. fresh[s] # 0 => handle[fresh[s]] = IF stage[s] = "claim" THEN Dup(s) ELSE Event(s)
      BY <2>1, Zenon DEF KeyTypeOK, Locals, Owns, OwnDup, OwnEvent
    <2>4. reservation[s] # 0 => handle[reservation[s]] = Event(s)
      BY <2>1, Zenon DEF KeyTypeOK, Owns, OwnEvent
    <2>5. ASSUME stage[s] = "idle", NEW n \in Numbers PROVE ~OwnDup(s, n) /\ ~OwnEvent(s, n)
      BY <2>1, <2>5 DEF KeyTypeOK, Indexed, Locals, OwnDup, OwnEvent, HoldsDuplicate, Claimed
    <2> QED BY <2>1, <2>2, <2>3, <2>4, <2>5, Zenon DEF Owns
  <1> QED BY <1>1, HandlesAccounted, PTL
=============================================================================
