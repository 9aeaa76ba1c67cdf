------------------------- MODULE PortTeardownProofs -------------------------
(***************************************************************************)
(* Proofs about the lifetime of the shared object behind the virtual       *)
(* descriptors (EpfdTable, src/wepoll_ex_api.c) and the teardown of its    *)
(* port (PortTeardown, src/wepoll_ex_port.c), for any number of threads,   *)
(* ports, requests and reapers.  A step of the composition is a step or a  *)
(* stutter of the table, so what is shown first of the table holds of the  *)
(* composition, and is what the invariants of the port itself rest on.     *)
(***************************************************************************)
EXTENDS PortTeardown, FiniteSetTheorems, TLAPS

----------------------------------------------------------------------------
(* The table of descriptors alone *)

(* An object no descriptor has named yet carries no count and no flag. *)
Fresh ==
    \A s \in Shared : life[s] = "unborn" =>
        refs[s] = 0 /\ aliases[s] = 0 /\ ~closing[s] /\ ~detached[s] /\ ~portClosing[s]

(* Every thread past ep_port_begin_close, and every detached object, has   *)
(* its port marked closing.                                                *)
Announced ==
    /\ \A t \in Threads : pc[t] \in OwnerPcs \ {"begin_close"} => portClosing[arg[t]]
    /\ \A s \in Shared : detached[s] => portClosing[s]

IInv == TypeOK /\ NoUseAfterFree /\ CountsExact /\ OneTeardownOwner /\ Fresh /\ Announced

(* The inductive invariant without the type invariant, for the steps below *)
Safe == NoUseAfterFree /\ CountsExact /\ OneTeardownOwner /\ Fresh /\ Announced

(* CountsExact and OneTeardownOwner for one object *)
Counted(s) ==
    /\ refs[s] = Cardinality(Holders(s))
    /\ aliases[s] = Cardinality(AliasSet(s))
    /\ closing[s] <=> aliases[s] = 0
    /\ portClosing[s] => closing[s]
Teardown(s) ==
    \/ ~closing[s] /\ Owners(s) = {}
    \/ closing[s] /\ detached[s] /\ refs[s] > 0 /\ Owners(s) = {}
    \/ closing[s] /\ \E t \in Owners(s) :
                        /\ Owners(s) = {t}
                        /\ pc[t] = "destroy" => refs[s] = 0
                        /\ pc[t] # "destroy" => ~detached[s]

(* Operations in progress and descriptors of an object are finitely many. *)
LEMMA Finite ==
  ASSUME NEW s
  PROVE  IsFiniteSet(Holders(s)) /\ IsFiniteSet(AliasSet(s))
  <1>1. IsFiniteSet(Fds)
    BY FS_Interval, MaxFdPositive DEF Fds
  <1>2. Holders(s) \subseteq Threads /\ AliasSet(s) \subseteq Fds
    BY DEF Holders, AliasSet
  <1> QED BY <1>1, <1>2, FS_Subset, ThreadsFinite

(* What one element more or less does to a count *)
LEMMA OneMore ==
  ASSUME NEW S, NEW x, IsFiniteSet(S), x \notin S
  PROVE  Cardinality(S \cup {x}) = Cardinality(S) + 1
  BY FS_AddElement

LEMMA OneLess ==
  ASSUME NEW S, NEW x, IsFiniteSet(S), x \in S
  PROVE  Cardinality(S \ {x}) = Cardinality(S) - 1 /\ Cardinality(S) # 0
  BY FS_RemoveElement, FS_EmptySet

(* No object exists initially. *)
LEMMA InitIInv == Init => IInv
  <1> SUFFICES ASSUME Init PROVE IInv
    OBVIOUS
  <1>1. TypeOK
    BY MaxFdPositive DEF Init, TypeOK, Fds, Pcs
  <1>2. NoUseAfterFree /\ Fresh /\ Announced
    BY DEF Init, NoUseAfterFree, Fresh, Announced, OwnerPcs, ClosePcs
  <1>3. CountsExact /\ OneTeardownOwner
    BY DEF Init, CountsExact, OneTeardownOwner
  <1> QED BY <1>1, <1>2, <1>3 DEF IInv

(* Every action keeps the types. *)
LEMMA StepType ==
  ASSUME IInv, [Next]_vars
  PROVE  TypeOK'
  <1> USE MaxFdPositive DEF Fds, Pcs, OpPcs, OwnerPcs, ClosePcs
  <1>1. TypeOK /\ NoUseAfterFree
    BY DEF IInv
  <1>2. CASE UNCHANGED vars
    BY <1>1, <1>2 DEF vars, TypeOK
  <1>3. ASSUME NEW t \in Threads, NEW s \in Shared, NEW f \in Fds, Create(t, s, f)
        PROVE  TypeOK'
    BY <1>1, <1>3 DEF TypeOK, Create, Successor
  <1>4. ASSUME NEW t \in Threads, NEW s \in Shared, CreateFails(t, s)
        PROVE  TypeOK'
    BY <1>1, <1>4 DEF TypeOK, CreateFails
  <1>5. ASSUME NEW t \in Threads, NEW fd \in Fds, NEW f \in Fds, Duplicate(t, fd, f)
        PROVE  TypeOK'
    BY <1>1, <1>5 DEF TypeOK, Duplicate, Successor
  <1>6. ASSUME NEW t \in Threads, NEW fd \in Fds, NEW kind \in OpPcs, Acquire(t, fd, kind)
        PROVE  TypeOK'
    BY <1>1, <1>6 DEF TypeOK, Acquire
  <1>7. ASSUME NEW t \in Threads, Put(t)
        PROVE  TypeOK'
    <2>1. arg[t] \in Shared /\ life[arg[t]] = "live" /\ t \in Holders(arg[t])
      BY <1>1, <1>7 DEF Put, NoUseAfterFree, Holders, TypeOK
    <2>2. refs[arg[t]] # 0
      BY <2>1, Finite, FS_EmptySet DEF IInv, CountsExact
    <2>3. refs[arg[t]] \in Nat \ {0}
      BY <1>1, <2>1, <2>2 DEF TypeOK
    <2> QED BY <1>1, <1>7, <2>1, <2>3 DEF TypeOK, Put
  <1>8. ASSUME NEW t \in Threads, NEW fd \in Fds, CloseUnlink(t, fd)
        PROVE  TypeOK'
    <2>1. table[fd] \in Shared /\ life[table[fd]] = "live" /\ fd \in AliasSet(table[fd])
      BY <1>1, <1>8 DEF CloseUnlink, NoUseAfterFree, AliasSet, TypeOK
    <2>2. aliases[table[fd]] # 0
      BY <2>1, Finite, FS_EmptySet DEF IInv, CountsExact
    <2> QED BY <1>1, <1>8, <2>2 DEF TypeOK, CloseUnlink, LastAlias
  <1>9. ASSUME NEW t \in Threads, CloserStep(t)
        PROVE  TypeOK'
    BY <1>1, <1>9, Zenon DEF TypeOK, CloserStep, BeginClose, CheckRefs, WaitSignalled, WaitGivesUp,
                             Relock, Destroy, Referenced
  <1> QED BY <1>2, <1>3, <1>4, <1>5, <1>6, <1>7, <1>8, <1>9 DEF Next, ThreadStep

----------------------------------------------------------------------------
(* epoll_create: the new object has one descriptor and no user. *)
LEMMA CreateSafe ==
  ASSUME IInv, NEW t \in Threads, NEW s \in Shared, NEW f \in Fds, Create(t, s, f)
  PROVE  Safe'
  <1> USE NoneFresh
  <1>1. Holders(s) = {} /\ Owners(s) = {} /\ AliasSet(s) = {}
    BY DEF IInv, NoUseAfterFree, Holders, Owners, AliasSet, Create, OpPcs, OwnerPcs, ClosePcs
  <1>2. \A q : Holders(q)' = Holders(q) /\ Owners(q)' = Owners(q)
    BY DEF Create, Holders, Owners
  <1>3. AliasSet(s)' = {f} /\ \A q \in Shared \ {s} : AliasSet(q)' = AliasSet(q)
    BY <1>1 DEF IInv, TypeOK, Create, AliasSet, AllocatesId, FreeFds
  <1>4. NoUseAfterFree' /\ Fresh' /\ Announced'
    BY DEF IInv, TypeOK, Create, NoUseAfterFree, Fresh, Announced
  <1>5. CountsExact'
    <2>1. Cardinality(Holders(s)') = 0 /\ Cardinality(AliasSet(s)') = 1
      BY <1>1, <1>2, <1>3, FS_EmptySet, FS_Singleton, Zenon
    <2>2. Counted(s)'
      BY <2>1 DEF IInv, TypeOK, Create, Counted, Fresh
    <2>3. ASSUME NEW q \in Shared \ {s}, life'[q] = "live"
          PROVE  Counted(q)'
      BY <1>2, <1>3, <2>3 DEF IInv, TypeOK, Create, CountsExact, Counted
    <2> QED BY <2>2, <2>3 DEF CountsExact, Counted
  <1>6. OneTeardownOwner'
    BY <1>1, <1>2 DEF IInv, TypeOK, Create, OneTeardownOwner, Fresh
  <1> QED BY <1>4, <1>5, <1>6 DEF Safe

(* A failed creation frees an object nobody has seen. *)
LEMMA CreateFailsSafe ==
  ASSUME IInv, NEW t \in Threads, NEW s \in Shared, CreateFails(t, s)
  PROVE  Safe'
  <1>1. \A q : Holders(q)' = Holders(q) /\ Owners(q)' = Owners(q) /\ AliasSet(q)' = AliasSet(q)
    BY DEF CreateFails, Holders, Owners, AliasSet
  <1>2. NoUseAfterFree' /\ Fresh' /\ Announced'
    BY DEF IInv, TypeOK, CreateFails, NoUseAfterFree, Fresh, Announced
  <1>3. CountsExact' /\ OneTeardownOwner'
    BY <1>1 DEF IInv, TypeOK, CreateFails, CountsExact, OneTeardownOwner
  <1> QED BY <1>2, <1>3 DEF Safe

(* wepoll_ex_dup adds a descriptor to an object that is not closing. *)
LEMMA DuplicateSafe ==
  ASSUME IInv, NEW t \in Threads, NEW fd \in Fds, NEW f \in Fds, Duplicate(t, fd, f)
  PROVE  Safe'
  <1> USE NoneFresh
  <1>1. PICK s \in Shared : /\ s = table[fd] /\ life[s] = "live"
                            /\ ~closing[s] /\ f \notin AliasSet(s)
    BY DEF IInv, TypeOK, NoUseAfterFree, Duplicate, AllocatesId, FreeFds, AliasSet
  <1>2. \A q : Holders(q)' = Holders(q) /\ Owners(q)' = Owners(q)
    BY DEF Duplicate, Holders, Owners
  <1>3. /\ AliasSet(s)' = AliasSet(s) \cup {f}
        /\ \A q \in Shared \ {s} : AliasSet(q)' = AliasSet(q)
    BY <1>1 DEF IInv, TypeOK, Duplicate, AliasSet, AllocatesId, FreeFds
  <1>4. Cardinality(AliasSet(s)') = Cardinality(AliasSet(s)) + 1
    <2>1. IsFiniteSet(AliasSet(s)) /\ f \notin AliasSet(s)
      BY <1>1, Finite
    <2>2. Cardinality(AliasSet(s) \cup {f}) = Cardinality(AliasSet(s)) + 1
      BY <2>1, OneMore, Zenon
    <2> QED BY <1>3, <2>2
  <1>5. NoUseAfterFree' /\ Fresh' /\ Announced'
    BY DEF IInv, TypeOK, Duplicate, NoUseAfterFree, Fresh, Announced
  <1>6. CountsExact'
    <2>1. Counted(s)'
      BY <1>1, <1>2, <1>4 DEF IInv, TypeOK, Duplicate, CountsExact, Counted
    <2>2. ASSUME NEW q \in Shared \ {s}, life'[q] = "live"
          PROVE  Counted(q)'
      BY <1>1, <1>2, <1>3, <2>2 DEF IInv, TypeOK, Duplicate, CountsExact, Counted
    <2> QED BY <2>1, <2>2 DEF CountsExact, Counted
  <1>7. OneTeardownOwner'
    BY <1>2 DEF IInv, TypeOK, Duplicate, OneTeardownOwner
  <1> QED BY <1>5, <1>6, <1>7 DEF Safe

(* epfd_acquire adds a reference to an object that is not closing. *)
LEMMA AcquireSafe ==
  ASSUME IInv, NEW t \in Threads, NEW fd \in Fds, NEW kind \in OpPcs, Acquire(t, fd, kind)
  PROVE  Safe'
  <1> USE DEF OpPcs, OwnerPcs, ClosePcs
  <1>1. PICK s \in Shared : /\ s = table[fd] /\ life[s] = "live"
                            /\ ~closing[s] /\ t \notin Holders(s)
    BY DEF IInv, TypeOK, NoUseAfterFree, Acquire, Holders
  <1>2. /\ Holders(s)' = Holders(s) \cup {t}
        /\ \A q \in Shared \ {s} : Holders(q)' = Holders(q)
        /\ \A q \in Shared : Owners(q)' = Owners(q) /\ AliasSet(q)' = AliasSet(q)
    BY <1>1 DEF IInv, TypeOK, Acquire, Holders, Owners, AliasSet
  <1>3. Cardinality(Holders(s)') = Cardinality(Holders(s)) + 1
    <2>1. IsFiniteSet(Holders(s)) /\ t \notin Holders(s)
      BY <1>1, Finite
    <2>2. Cardinality(Holders(s) \cup {t}) = Cardinality(Holders(s)) + 1
      BY <2>1, OneMore
    <2> QED BY <1>2, <2>2
  <1>4. NoUseAfterFree' /\ Fresh' /\ Announced'
    BY DEF IInv, TypeOK, Acquire, NoUseAfterFree, Fresh, Announced
  <1>5. CountsExact'
    <2>1. Counted(s)'
      BY <1>1, <1>2, <1>3 DEF IInv, TypeOK, Acquire, CountsExact, Counted
    <2>2. ASSUME NEW q \in Shared \ {s}, life'[q] = "live"
          PROVE  Counted(q)'
      BY <1>1, <1>2, <2>2 DEF IInv, TypeOK, Acquire, CountsExact, Counted
    <2> QED BY <2>1, <2>2 DEF CountsExact, Counted
  <1>6. \A q \in Shared : \A o \in Owners(q) : pc'[o] = pc[o]
    BY DEF IInv, TypeOK, Acquire, Owners
  <1>7. OneTeardownOwner'
    BY <1>2 DEF IInv, TypeOK, Acquire, OneTeardownOwner
  <1> QED BY <1>4, <1>5, <1>7 DEF Safe

(* epfd_put: the last reference of a closing object makes the thread the   *)
(* owner of the teardown if wepoll_close has detached it, and otherwise    *)
(* leaves that to the closing thread.                                      *)
LEMMA PutSafe ==
  ASSUME IInv, NEW t \in Threads, Put(t)
  PROVE  Safe'
  <1> USE DEF OpPcs, OwnerPcs, ClosePcs
  <1>1. PICK s \in Shared : s = arg[t] /\ life[s] = "live" /\ t \in Holders(s)
    BY DEF IInv, TypeOK, NoUseAfterFree, Put, Holders
  <1>2. /\ Holders(s)' = Holders(s) \ {t}
        /\ \A q \in Shared \ {s} : Holders(q)' = Holders(q) /\ Owners(q)' = Owners(q)
        /\ \A q \in Shared : AliasSet(q)' = AliasSet(q)
        /\ \A q \in Shared : t \notin Owners(q)
    BY <1>1 DEF IInv, TypeOK, Put, Holders, Owners, AliasSet
  <1>3. Cardinality(Holders(s)') = Cardinality(Holders(s)) - 1 /\ Cardinality(Holders(s)) # 0
    <2>1. IsFiniteSet(Holders(s)) /\ t \in Holders(s)
      BY <1>1, Finite
    <2>2. Cardinality(Holders(s) \ {t}) = Cardinality(Holders(s)) - 1
          /\ Cardinality(Holders(s)) # 0
      BY <2>1, OneLess
    <2> QED BY <1>2, <2>2
  <1>4. refs[s] \in Nat \ {0}
    BY <1>1, <1>3 DEF IInv, TypeOK, CountsExact
  <1>5. \A q \in Shared : \A o \in Owners(q) : pc'[o] = pc[o]
    BY <1>2 DEF IInv, TypeOK, Put
  <1>6. NoUseAfterFree' /\ Fresh'
    BY DEF IInv, TypeOK, Put, NoUseAfterFree, Fresh
  <1>7. Announced'
    BY <1>1 DEF IInv, TypeOK, Put, Announced
  <1>8. CountsExact'
    <2>1. Counted(s)'
      BY <1>1, <1>2, <1>3 DEF IInv, TypeOK, Put, CountsExact, Counted
    <2>2. ASSUME NEW q \in Shared \ {s}, life'[q] = "live"
          PROVE  Counted(q)'
      BY <1>1, <1>2, <2>2 DEF IInv, TypeOK, Put, CountsExact, Counted
    <2> QED BY <2>1, <2>2 DEF CountsExact, Counted
  <1>9. ASSUME NEW q \in Shared \ {s}, life'[q] = "live"
        PROVE  Teardown(q)'
    BY <1>1, <1>2, <1>9 DEF IInv, TypeOK, Put, OneTeardownOwner, Teardown
  <1>10. Teardown(s)'
    <2>1. Teardown(s)
      BY <1>1 DEF IInv, OneTeardownOwner, Teardown
    <2>2. CASE closing[s] /\ detached[s] /\ refs[s] = 1
      <3>1. Owners(s) = {}
        BY <2>1, <2>2 DEF Teardown
      <3>2. Owners(s)' = {t} /\ pc'[t] = "destroy" /\ refs'[s] = 0 /\ closing'[s]
        BY <1>1, <2>2, <3>1 DEF IInv, TypeOK, Put, Owners
      <3> QED BY <3>2 DEF Teardown
    <2>3. CASE ~(closing[s] /\ detached[s] /\ refs[s] = 1)
      <3>1. Owners(s)' = Owners(s)
        BY <2>3 DEF IInv, TypeOK, Put, Owners
      <3>2. closing'[s] = closing[s] /\ detached'[s] = detached[s] /\ refs'[s] = refs[s] - 1
        BY <1>1 DEF IInv, TypeOK, Put
      <3> QED BY <1>4, <1>5, <2>1, <2>3, <3>1, <3>2 DEF Teardown
    <2> QED BY <2>2, <2>3
  <1>11. OneTeardownOwner'
    BY <1>9, <1>10 DEF OneTeardownOwner, Teardown
  <1> QED BY <1>6, <1>7, <1>8, <1>11 DEF Safe

(* epfd_destroy: the only owner frees an object nobody else refers to. *)
LEMMA DestroySafe ==
  ASSUME IInv, NEW t \in Threads, Destroy(t)
  PROVE  /\ Safe'
         /\ Holders(arg[t]) = {} /\ AliasSet(arg[t]) = {} /\ portClosing[arg[t]]
  <1> USE DEF OpPcs, OwnerPcs, ClosePcs
  <1>1. PICK s \in Shared : /\ s = arg[t] /\ life[s] = "live"
                            /\ t \in Owners(s) /\ pc[t] = "destroy"
    BY DEF IInv, TypeOK, NoUseAfterFree, Destroy, Owners
  <1>2. closing[s] /\ Owners(s) = {t} /\ refs[s] = 0 /\ portClosing[s]
    BY <1>1 DEF IInv, OneTeardownOwner, Announced
  <1>3. Holders(s) = {} /\ AliasSet(s) = {}
    BY <1>1, <1>2, Finite, FS_EmptySet DEF IInv, CountsExact
  <1>4. /\ \A q \in Shared : Holders(q)' = Holders(q) /\ AliasSet(q)' = AliasSet(q)
        /\ \A q \in Shared \ {s} : Owners(q)' = Owners(q)
    BY <1>1 DEF IInv, TypeOK, Destroy, Holders, Owners, AliasSet
  <1>5. NoUseAfterFree'
    <2>1. \A u \in Threads : pc'[u] # "idle" => pc'[u] = pc[u] /\ u # t /\ arg[u] # s
      BY <1>2, <1>3, Zenon DEF IInv, TypeOK, Destroy, Holders, Owners, Pcs
    <2>2. \A f \in Fds : table[f] # s
      BY <1>3 DEF AliasSet
    <2> QED BY <1>1, <2>1, <2>2 DEF IInv, TypeOK, NoUseAfterFree, Destroy
  <1>6. Fresh' /\ Announced'
    BY DEF IInv, TypeOK, Destroy, Fresh, Announced
  <1>7. CountsExact'
    BY <1>4 DEF IInv, TypeOK, Destroy, CountsExact
  <1>8. \A q \in Shared \ {s} : \A o \in Owners(q) : pc'[o] = pc[o]
    BY <1>1 DEF IInv, TypeOK, Destroy, Owners
  <1>9. OneTeardownOwner'
    BY <1>1, <1>4, <1>8 DEF IInv, TypeOK, Destroy, OneTeardownOwner
  <1> QED BY <1>1, <1>2, <1>3, <1>5, <1>6, <1>7, <1>9 DEF Safe

(* wepoll_close unlinks a descriptor; the thread that unlinks the last one *)
(* becomes the owner of the teardown.                                      *)
LEMMA CloseUnlinkSafe ==
  ASSUME IInv, NEW t \in Threads, NEW fd \in Fds, CloseUnlink(t, fd)
  PROVE  Safe'
  <1> USE NoneFresh DEF OpPcs, OwnerPcs, ClosePcs
  <1>1. PICK s \in Shared : s = table[fd] /\ life[s] = "live" /\ ~closing[s] /\ fd \in AliasSet(s)
    BY DEF IInv, TypeOK, NoUseAfterFree, CloseUnlink, AliasSet
  <1>2. Owners(s) = {} /\ ~portClosing[s] /\ ~detached[s]
    BY <1>1 DEF IInv, OneTeardownOwner, CountsExact, Announced
  <1>3. /\ AliasSet(s)' = AliasSet(s) \ {fd}
        /\ \A q \in Shared \ {s} : AliasSet(q)' = AliasSet(q) /\ Owners(q)' = Owners(q)
        /\ \A q \in Shared : Holders(q)' = Holders(q)
    BY <1>1 DEF IInv, TypeOK, CloseUnlink, Holders, Owners, AliasSet
  <1>4. Cardinality(AliasSet(s)') = Cardinality(AliasSet(s)) - 1 /\ Cardinality(AliasSet(s)) # 0
    <2>1. IsFiniteSet(AliasSet(s))
      BY Finite
    <2>2. Cardinality(AliasSet(s) \ {fd}) = Cardinality(AliasSet(s)) - 1
      BY <1>1, <2>1, FS_RemoveElement, Zenon
    <2>3. Cardinality(AliasSet(s)) # 0
      BY <1>1, <2>1, FS_EmptySet
    <2> QED BY <1>3, <2>2, <2>3
  <1>5. aliases[s] \in Nat \ {0} /\ aliases'[s] = aliases[s] - 1
    <2>1. aliases[s] # 0
      BY <1>1 DEF IInv, CountsExact
    <2> QED BY <1>1, <2>1 DEF IInv, TypeOK, CloseUnlink
  <1>6. closing'[s] <=> aliases[s] = 1
    <2>1. closing' = [closing EXCEPT ![s] = LastAlias(s)] /\ s \in DOMAIN closing
      BY <1>1 DEF IInv, TypeOK, CloseUnlink
    <2>2. closing'[s] <=> LastAlias(s)
      BY <2>1
    <2> QED BY <2>2 DEF LastAlias
  <1>7. NoUseAfterFree' /\ Fresh' /\ Announced'
    BY DEF IInv, TypeOK, CloseUnlink, NoUseAfterFree, Fresh, Announced
  <1>8. CountsExact'
    <2>1. Counted(s)'
      BY <1>1, <1>3, <1>4, <1>6 DEF IInv, TypeOK, CloseUnlink, CountsExact, Counted
    <2>2. ASSUME NEW q \in Shared \ {s}, life'[q] = "live"
          PROVE  Counted(q)'
      BY <1>1, <1>3, <2>2 DEF IInv, TypeOK, CloseUnlink, CountsExact, Counted
    <2> QED BY <2>1, <2>2 DEF CountsExact, Counted
  <1>9. OneTeardownOwner'
    <2>1. Teardown(s)'
      <3>1. CASE aliases[s] = 1
        <4>1. Owners(s)' = {t} /\ pc'[t] = "begin_close" /\ ~detached'[s] /\ closing'[s]
          BY <1>1, <1>2, <1>6, <3>1 DEF IInv, TypeOK, CloseUnlink, LastAlias, Owners
        <4> QED BY <4>1 DEF Teardown
      <3>2. CASE aliases[s] # 1
        <4>1. Owners(s)' = {} /\ ~closing'[s]
          BY <1>1, <1>2, <3>2 DEF IInv, TypeOK, CloseUnlink, LastAlias, Owners
        <4> QED BY <4>1 DEF Teardown
      <3> QED BY <3>1, <3>2
    <2>2. \A q \in Shared : \A o \in Owners(q) : pc'[o] = pc[o]
      BY DEF IInv, TypeOK, CloseUnlink, Owners
    <2>3. ASSUME NEW q \in Shared \ {s}, life'[q] = "live"
          PROVE  Teardown(q)'
      BY <1>1, <1>3, <2>3 DEF IInv, TypeOK, CloseUnlink, OneTeardownOwner, Teardown
    <2> QED BY <2>1, <2>3 DEF OneTeardownOwner, Teardown
  <1> QED BY <1>7, <1>8, <1>9 DEF Safe

(* The later steps of wepoll_close: only the owner of the teardown takes   *)
(* them, and it gives that up only with a reference left to inherit it.    *)
LEMMA CloserSafe ==
  ASSUME IInv, NEW t \in Threads,
         BeginClose(t) \/ CheckRefs(t) \/ WaitSignalled(t) \/ WaitGivesUp(t) \/ Relock(t)
  PROVE  Safe'
  <1> USE DEF OpPcs, OwnerPcs, ClosePcs, Referenced
  <1>1. PICK s \in Shared : /\ s = arg[t] /\ life[s] = "live" /\ t \in Owners(s)
                            /\ pc[t] \in ClosePcs
    BY Zenon DEF IInv, TypeOK, NoUseAfterFree, Owners, BeginClose, CheckRefs, WaitSignalled,
           WaitGivesUp, Relock
  <1>2. closing[s] /\ Owners(s) = {t} /\ ~detached[s]
    BY <1>1 DEF IInv, OneTeardownOwner
  <1>3. /\ UNCHANGED <<table, life, refs, aliases, closing, arg>>
        /\ \A q \in Shared \ {s} : detached'[q] = detached[q] /\ portClosing'[q] = portClosing[q]
        /\ \A u \in Threads \ {t} : pc'[u] = pc[u]
        /\ pc'[t] \in OwnerPcs \cup {"idle"}
    BY <1>1, Zenon DEF IInv, TypeOK, BeginClose, CheckRefs, WaitSignalled, WaitGivesUp, Relock
  <1>4. /\ \A q \in Shared : Holders(q)' = Holders(q) /\ AliasSet(q)' = AliasSet(q)
        /\ \A q \in Shared \ {s} : Owners(q)' = Owners(q)
    BY <1>1, <1>3 DEF Holders, Owners, AliasSet
  <1>5. portClosing'[s] /\ (detached'[s] => pc[t] = "relock" /\ refs[s] # 0)
    BY <1>1, <1>2 DEF IInv, TypeOK, Announced, BeginClose, CheckRefs, WaitSignalled,
                      WaitGivesUp, Relock
  <1>6. NoUseAfterFree' /\ Fresh' /\ Announced'
    <2>1. NoUseAfterFree'
      BY <1>1, <1>3, <1>5 DEF IInv, TypeOK, NoUseAfterFree
    <2>2. Fresh'
      BY <1>1, <1>3, <1>5 DEF IInv, TypeOK, Fresh
    <2>3. Announced'
      BY <1>1, <1>3, <1>5 DEF IInv, TypeOK, NoUseAfterFree, Announced
    <2> QED BY <2>1, <2>2, <2>3
  <1>7. CountsExact'
    BY <1>2, <1>3, <1>4 DEF IInv, TypeOK, CountsExact
  <1>8. Teardown(s)'
    <2>1. CASE pc'[t] = "idle"
      <3>1. detached'[s] /\ refs[s] # 0
        BY <1>1, <2>1, Zenon DEF IInv, TypeOK, BeginClose, CheckRefs, WaitSignalled, WaitGivesUp,
                                 Relock
      <3>2. Owners(s)' = {}
        BY <1>2, <1>3, <2>1, Zenon DEF Owners
      <3> QED BY <1>3, <3>1, <3>2 DEF Teardown, IInv, TypeOK
    <2>2. CASE pc'[t] # "idle"
      <3>1. ~detached'[s] /\ (pc'[t] = "destroy" => refs[s] = 0)
        BY <1>1, <1>2, <2>2 DEF IInv, TypeOK, BeginClose, CheckRefs, WaitSignalled,
                                WaitGivesUp, Relock
      <3>2. Owners(s)' = {t}
        BY <1>2, <1>3, <2>2 DEF Owners
      <3> QED BY <1>2, <1>3, <3>1, <3>2 DEF Teardown
    <2> QED BY <2>1, <2>2, Zenon
  <1>9. \A q \in Shared \ {s} : \A o \in Owners(q) : pc'[o] = pc[o]
    BY <1>1, <1>3 DEF Owners
  <1>10. ASSUME NEW q \in Shared \ {s}, life'[q] = "live"
         PROVE  Teardown(q)'
    BY <1>3, <1>4, <1>9, <1>10 DEF IInv, OneTeardownOwner, Teardown
  <1>11. OneTeardownOwner'
    BY <1>8, <1>10 DEF OneTeardownOwner, Teardown
  <1> QED BY <1>6, <1>7, <1>11 DEF Safe

----------------------------------------------------------------------------
(* IInv is preserved by every step. *)
LEMMA StepIInv ==
  ASSUME IInv, [Next]_vars
  PROVE  IInv'
  <1>1. TypeOK'
    BY StepType, Zenon
  <1>2. CASE UNCHANGED vars
    <2>1. \A s : /\ Holders(s)' = Holders(s) /\ Owners(s)' = Owners(s)
                 /\ AliasSet(s)' = AliasSet(s)
      BY <1>2 DEF vars, Holders, Owners, AliasSet
    <2> QED BY <1>1, <1>2, <2>1, Zenon DEF vars, IInv, NoUseAfterFree, CountsExact,
                                   OneTeardownOwner, Fresh, Announced
  <1>3. CASE Next
    <2>1. PICK t \in Threads : ThreadStep(t)
      BY <1>3, Zenon DEF Next
    <2>2. Safe'
      BY <2>1, CreateSafe, CreateFailsSafe, DuplicateSafe, AcquireSafe, PutSafe,
         CloseUnlinkSafe, CloserSafe, DestroySafe DEF ThreadStep, CloserStep
    <2> QED BY <1>1, <2>2 DEF IInv, Safe
  <1> QED BY <1>2, <1>3, Zenon

(* The lifetime rules hold in every reachable state, for any number of     *)
(* threads, descriptors and ports.                                         *)
THEOREM Inductive == Spec => []IInv
  BY InitIInv, StepIInv, PTL DEF Spec

(* Type correctness of the descriptor table. *)
THEOREM TypeCorrect == Spec => []TypeOK
  <1>1. IInv => TypeOK
    BY DEF IInv
  <1> QED BY <1>1, Inductive, PTL

(* No operation, closer or descriptor refers to an object epfd_destroy has *)
(* freed.                                                                  *)
THEOREM NeverUsedAfterFree == Spec => []NoUseAfterFree
  <1>1. IInv => NoUseAfterFree
    BY DEF IInv
  <1> QED BY <1>1, Inductive, PTL

(* However the bounded wait of wepoll_close races with the last epfd_put,  *)
(* a closed port has exactly one destroyer.                                *)
THEOREM SingleTeardown == Spec => []OneTeardownOwner
  <1>1. IInv => OneTeardownOwner
    BY DEF IInv
  <1> QED BY <1>1, Inductive, PTL

(* refs and aliases count exactly the operations and descriptors. *)
THEOREM ExactCounts == Spec => []CountsExact
  <1>1. IInv => CountsExact
    BY DEF IInv
  <1> QED BY <1>1, Inductive, PTL

(* epfd_destroy runs only when nobody holds or names the object and its    *)
(* waiters have been told to leave.                                        *)
THEOREM QuiescentDestroy == Spec => DestroyOnlyQuiescent
  <1>1. ASSUME IInv, [Next]_vars, NEW s \in Shared, life[s] = "live", life'[s] = "freed"
        PROVE  Holders(s) = {} /\ AliasSet(s) = {} /\ portClosing[s]
    <2>1. Next
      BY <1>1 DEF vars
    <2>2. PICK t \in Threads : ThreadStep(t)
      BY <2>1 DEF Next
    <2>3. Destroy(t)
      BY <1>1, <2>2, Zenon DEF IInv, TypeOK, ThreadStep, CloserStep, Create, CreateFails, Duplicate,
                               Acquire, Put, CloseUnlink, BeginClose, CheckRefs, WaitSignalled,
                               WaitGivesUp, Relock
    <2>4. s = arg[t]
      BY <1>1, <2>3, Zenon DEF IInv, TypeOK, Destroy
    <2> QED BY <1>1, <2>3, <2>4, DestroySafe
  <1>2. ASSUME IInv, [Next]_vars
        PROVE  \A s \in Shared : life[s] = "live" /\ life'[s] = "freed" =>
                   Holders(s) = {} /\ AliasSet(s) = {} /\ portClosing[s]
    BY <1>1, <1>2
  <1> QED BY <1>2, Inductive, PTL DEF Spec, DestroyOnlyQuiescent

----------------------------------------------------------------------------
(* The table with drains, reapers and timers *)

Phases == {"open", "drain", "admitted", "reap", "freed", "leaked"}
Quarantined == {s \in Shared : port[s] \in {"admitted", "reap"}}

PortTypeOK ==
    /\ port \in [Shared -> Phases]
    /\ kernel \in [Shared -> Nat] /\ pending \in [Shared -> Nat]
    /\ timing \in [Shared -> Threads \cup {None}]
    /\ timer \in [Shared -> {"off", "armed", "running", "fired"}]
    /\ reaping \subseteq Shared /\ IsFiniteSet(reaping)
    /\ active \in Nat /\ quarantined \in Nat /\ reaped \in Nat /\ irrecoverable \in Nat

(* A port whose teardown has begun belongs to the thread in epfd_destroy, *)
(* until the reaper has it or it is gone.                                  *)
Owned ==
    \A s \in Shared :
        port[s] \in {"drain", "admitted"} => \E t \in Threads : pc[t] = "destroy" /\ arg[t] = s

(* An armed timeout belongs to a thread that is still in its wait. *)
Timed ==
    \A s \in Shared : timer[s] # "off" =>
        timing[s] \in Threads /\ pc[timing[s]] = "wait" /\ arg[timing[s]] = s

(* Who holds a reaper slot *)
Slots ==
    /\ active = Cardinality(reaping) /\ active <= MaxReapers
    /\ Quarantined \subseteq reaping
    /\ \A s \in reaping : port[s] \in {"admitted", "reap", "freed", "leaked"}
    /\ quarantined = reaped + irrecoverable + Cardinality(Quarantined)

PInv == PortTypeOK /\ KernelStorageHeld /\ Owned /\ Timed /\ Slots

(* Every step of the composition is a step of the descriptor table or     *)
(* leaves it alone.                                                        *)
LEMMA TableStepOrStutter ==
  ASSUME [TeardownNext]_allVars
  PROVE  [Next]_vars
  <1>1. CASE UNCHANGED allVars
    BY <1>1 DEF allVars
  <1>2. ASSUME NEW t \in Threads, TableStep(t)
        PROVE  Next
    BY <1>2 DEF TableStep, Next
  <1>3. ASSUME NEW t \in Threads, PortStep(t)
        PROVE  [Next]_vars
    <2>1. CASE BeginPortClose(t) \/ DrainDone(t) \/ DrainFails(t) \/ NotAdmitted(t) \/ Spawn(t)
               \/ SpawnFails(t)
      <3>1. BeginClose(t) \/ Destroy(t)
        BY <2>1 DEF BeginPortClose, DrainDone, DrainFails, NotAdmitted, Spawn, SpawnFails
      <3> QED BY <3>1 DEF CloserStep, ThreadStep, Next
    <2>2. CASE StartDrain(t) \/ DrainPacket(t) \/ Admit(t)
      BY <2>2 DEF StartDrain, DrainPacket, Dispatch, Admit
    <2> QED BY <1>3, <2>1, <2>2 DEF PortStep
  <1>4. ASSUME NEW t \in Threads, Submit(t) \/ WaitStep(t)
        PROVE  UNCHANGED vars
    BY <1>4 DEF Submit, WaitStep, WaitDispatches, Dispatch, ArmTimeout, DisarmTimeout
  <1>5. ASSUME NEW s \in Shared, KernelCompletes(s) \/ TimeoutCallback(s) \/ ReaperStep(s)
        PROVE  UNCHANGED vars
    BY <1>5 DEF KernelCompletes, TimeoutCallback, ReaperStep, ReapPacket, Dispatch, ReapDone,
                ReapGivesUp, ReaperExits
  <1> QED BY <1>1, <1>2, <1>3, <1>4, <1>5 DEF TeardownNext

LEMMA InitPInv == TeardownInit => PInv
  <1> SUFFICES ASSUME TeardownInit PROVE PInv
    OBVIOUS
  <1>1. Quarantined = {} /\ Cardinality({}) = 0 /\ IsFiniteSet({})
    BY FS_EmptySet DEF TeardownInit, Quarantined
  <1>2. PortTypeOK
    BY <1>1 DEF TeardownInit, PortTypeOK, Phases
  <1>3. KernelStorageHeld /\ Owned /\ Timed
    BY DEF TeardownInit, KernelStorageHeld, Owned, Timed
  <1>4. Slots
    <2>1. reaping = {} /\ active = 0 /\ quarantined = 0 /\ reaped = 0 /\ irrecoverable = 0
      BY DEF TeardownInit
    <2>2. \A s \in Shared : port[s] = "open"
      BY DEF TeardownInit
    <2> QED BY <1>1, <2>1, <2>2, LimitsNatural DEF Slots
  <1> QED BY <1>2, <1>3, <1>4 DEF PInv

(* A call moves no thread but its own, and nothing revives a freed port. *)
LEMMA Frame ==
  ASSUME TypeOK, NEW t \in Threads, ThreadStep(t)
  PROVE  /\ \A u \in Threads : u # t => pc'[u] = pc[u] /\ arg'[u] = arg[u]
         /\ \A s \in Shared : life[s] = "freed" => life'[s] = "freed"
  <1>1. CASE \E s \in Shared, f \in Fds : Create(t, s, f)
    BY <1>1 DEF Create, TypeOK
  <1>2. CASE \E s \in Shared : CreateFails(t, s)
    BY <1>2 DEF CreateFails, TypeOK
  <1>3. CASE \E fd \in Fds, f \in Fds : Duplicate(t, fd, f)
    BY <1>3 DEF Duplicate, TypeOK
  <1>4. CASE \E fd \in Fds, kind \in OpPcs : Acquire(t, fd, kind)
    BY <1>4 DEF Acquire, TypeOK
  <1>5. CASE Put(t)
    BY <1>5 DEF Put, TypeOK
  <1>6. CASE \E fd \in Fds : CloseUnlink(t, fd)
    BY <1>6 DEF CloseUnlink, TypeOK
  <1>7. CASE CloserStep(t)
    BY <1>7 DEF CloserStep, BeginClose, CheckRefs, WaitSignalled, WaitGivesUp, Relock, Destroy,
                TypeOK
  <1> QED BY <1>1, <1>2, <1>3, <1>4, <1>5, <1>6, <1>7 DEF ThreadStep

(* A call in progress has a port that exists and was not handed over. *)
LEMMA Busy ==
  ASSUME IInv, PInv, NEW t \in Threads, pc[t] # "idle"
  PROVE  /\ arg[t] \in Shared /\ life[arg[t]] = "live"
         /\ port[arg[t]] \in {"open", "drain", "admitted"}
  <1>1. arg[t] \in Shared /\ life[arg[t]] = "live"
    BY DEF IInv, NoUseAfterFree
  <1>2. port[arg[t]] \notin {"reap", "freed", "leaked"}
    BY <1>1 DEF PInv, KernelStorageHeld
  <1> QED BY <1>1, <1>2 DEF PInv, PortTypeOK, Phases

(* ep_port_destroy's thread leaves the others where they are. *)
LEMMA DestroyFrame ==
  ASSUME IInv, NEW t \in Threads, Destroy(t)
  PROVE  /\ \A u \in Threads : u # t => pc'[u] = pc[u] /\ arg'[u] = arg[u]
         /\ life'[arg[t]] = "freed"
         /\ \A s \in Shared : life[s] = "freed" => life'[s] = "freed"
  <1>1. arg[t] \in Shared /\ life \in [Shared -> {"unborn", "live", "freed"}]
    BY DEF IInv, NoUseAfterFree, TypeOK, Destroy
  <1>2. ThreadStep(t)
    BY DEF ThreadStep, CloserStep
  <1> QED BY <1>1 DEF IInv, Destroy

(* Giving back a slot that is held *)
LEMMA Fewer ==
  ASSUME PInv, NEW s \in reaping
  PROVE  /\ active - 1 \in Nat /\ IsFiniteSet(reaping \ {s})
         /\ Cardinality(reaping \ {s}) = active - 1
  <1>1. IsFiniteSet(reaping) /\ active \in Nat /\ active = Cardinality(reaping)
    BY DEF PInv, PortTypeOK, Slots
  <1>2. active # 0
    <2>1. reaping # {}
      OBVIOUS
    <2> QED BY <1>1, FS_EmptySet
  <1>3. IsFiniteSet(reaping \ {s}) /\ Cardinality(reaping \ {s}) = Cardinality(reaping) - 1
    BY <1>1, FS_RemoveElement
  <1> QED BY <1>1, <1>2, <1>3

(* Every step keeps the types of the port. *)
LEMMA StepPortType ==
  ASSUME IInv, PInv, [TeardownNext]_allVars
  PROVE  PortTypeOK'
  <1> USE DEF PInv, PortTypeOK, Phases
  <1>1. CASE UNCHANGED allVars
    BY <1>1 DEF allVars, portVars
  <1>2. ASSUME NEW t \in Threads, TableStep(t)
        PROVE  PortTypeOK'
    BY <1>2 DEF TableStep, portVars
  <1>3. ASSUME NEW t \in Threads, BeginPortClose(t) \/ Submit(t) \/ WaitStep(t)
        PROVE  PortTypeOK'
    <2>1. arg[t] \in Shared
      BY <1>3, Busy, Zenon DEF BeginPortClose, BeginClose, Submit, WaitStep, WaitDispatches, ArmTimeout,
                        DisarmTimeout
    <2>2. CASE BeginPortClose(t)
      BY <2>2 DEF BeginPortClose, timerVars, statVars
    <2>3. CASE Submit(t)
      BY <2>1, <2>3 DEF Submit, timerVars, statVars
    <2>4. CASE WaitDispatches(t)
      BY <2>1, <2>4 DEF WaitDispatches, Dispatch, timerVars, statVars
    <2>5. CASE ArmTimeout(t) \/ DisarmTimeout(t)
      BY <2>5 DEF ArmTimeout, DisarmTimeout, statVars
    <2> QED BY <1>3, <2>2, <2>3, <2>4, <2>5, Zenon DEF WaitStep
  <1>4. ASSUME NEW t \in Threads, PortStep(t), ~BeginPortClose(t)
        PROVE  PortTypeOK'
    <2>1. pc[t] = "destroy"
      BY <1>4, Zenon DEF PortStep, StartDrain, DrainPacket, DrainDone, DrainFails, Admit, NotAdmitted,
                  Spawn, SpawnFails
    <2>2. arg[t] \in Shared
      BY <2>1, Busy
    <2>3. CASE StartDrain(t) \/ DrainPacket(t) \/ DrainDone(t) \/ Spawn(t)
      <3>1. CASE StartDrain(t)
        BY <3>1, Zenon DEF StartDrain, timerVars, statVars
      <3>2. CASE DrainPacket(t)
        BY <2>2, <3>2 DEF DrainPacket, Dispatch, timerVars, statVars
      <3>3. CASE DrainDone(t)
        BY <3>3, Zenon DEF DrainDone, Finished, timerVars, statVars
      <3>4. CASE Spawn(t)
        BY <3>4, Zenon DEF Spawn, timerVars, statVars
      <3> QED BY <2>3, <3>1, <3>2, <3>3, <3>4
    <2>4. CASE DrainFails(t) \/ NotAdmitted(t)
      <3>1. CASE DrainFails(t)
        BY <2>2, <3>1 DEF DrainFails, Abandoned, timerVars
      <3>2. CASE NotAdmitted(t)
        BY <2>2, <3>2 DEF NotAdmitted, Abandoned, timerVars
      <3> QED BY <2>4, <3>1, <3>2
    <2>5. CASE Admit(t)
      <3>1. IsFiniteSet(reaping \cup {arg[t]})
        BY FS_AddElement, Zenon
      <3> QED BY <2>2, <2>5, <3>1 DEF Admit, timerVars
    <2>6. CASE SpawnFails(t)
      <3>1. arg[t] \in reaping
        BY <2>2, <2>6 DEF SpawnFails, Slots, Quarantined
      <3>2. active - 1 \in Nat /\ IsFiniteSet(reaping \ {arg[t]})
        BY <3>1, Fewer
      <3> QED BY <2>2, <2>6, <3>2 DEF SpawnFails, Abandoned, timerVars
    <2> QED BY <1>4, <2>3, <2>4, <2>5, <2>6, Zenon DEF PortStep
  <1>5. ASSUME NEW s \in Shared, KernelCompletes(s) \/ TimeoutCallback(s) \/ ReaperStep(s)
        PROVE  PortTypeOK'
    <2>1. CASE KernelCompletes(s) \/ TimeoutCallback(s) \/ ReapPacket(s)
      <3>1. CASE KernelCompletes(s)
        BY <3>1 DEF KernelCompletes, timerVars, statVars
      <3>2. CASE TimeoutCallback(s)
        BY <3>2 DEF TimeoutCallback, statVars
      <3>3. CASE ReapPacket(s)
        BY <3>3 DEF ReapPacket, Dispatch, timerVars, statVars
      <3> QED BY <2>1, <3>1, <3>2, <3>3
    <2>2. CASE ReapDone(s) \/ ReapGivesUp(s)
      <3>1. CASE ReapDone(s)
        BY <3>1 DEF ReapDone, Finished, timerVars, statVars
      <3>2. CASE ReapGivesUp(s)
        BY <3>2 DEF ReapGivesUp, Abandoned, timerVars
      <3> QED BY <2>2, <3>1, <3>2
    <2>3. CASE ReaperExits(s)
      <3>1. active - 1 \in Nat /\ IsFiniteSet(reaping \ {s})
        BY <2>3, Fewer DEF ReaperExits
      <3> QED BY <2>3, <3>1 DEF ReaperExits, timerVars
    <2> QED BY <1>5, <2>1, <2>2, <2>3 DEF ReaperStep
  <1> QED BY <1>1, <1>2, <1>3, <1>4, <1>5 DEF TeardownNext, PortStep
(* The thread of a teardown keeps it; no other step touches a port that is *)
(* being torn down.                                                        *)
LEMMA StepOwned ==
  ASSUME IInv, PInv, [TeardownNext]_allVars
  PROVE  Owned'
  <1> USE DEF PInv, Owned
  <1>1. CASE UNCHANGED allVars
    BY <1>1 DEF allVars, portVars, vars
  <1>2. ASSUME NEW t \in Threads, TableStep(t)
        PROVE  Owned'
    <2>1. pc[t] # "destroy" /\ port' = port
      BY <1>2 DEF TableStep, portVars
    <2>2. \A u \in Threads : u # t => pc'[u] = pc[u] /\ arg'[u] = arg[u]
      BY <1>2, Frame DEF TableStep, IInv
    <2> QED BY <2>1, <2>2
  <1>3. ASSUME NEW t \in Threads, BeginPortClose(t)
        PROVE  Owned'
    BY <1>3, Zenon DEF BeginPortClose, BeginClose, IInv, TypeOK
  <1>4. ASSUME NEW t \in Threads, Submit(t) \/ WaitStep(t) \/ DrainPacket(t)
        PROVE  Owned'
    BY <1>4 DEF Submit, WaitStep, WaitDispatches, ArmTimeout, DisarmTimeout, DrainPacket, Dispatch,
                vars
  <1>5. ASSUME NEW t \in Threads, StartDrain(t) \/ Admit(t)
        PROVE  Owned'
    <2>1. pc[t] = "destroy" /\ arg[t] \in Shared
      BY <1>5, Busy, Zenon DEF StartDrain, Admit
    <2>2. pc' = pc /\ arg' = arg
      BY <1>5, Zenon DEF StartDrain, Admit, vars
    <2>3. \E x : port' = [port EXCEPT ![arg[t]] = x]
      BY <1>5, Zenon DEF StartDrain, Admit
    <2>4. \A s \in Shared : s # arg[t] => port'[s] = port[s]
      BY <2>3, Zenon DEF PortTypeOK
    <2> QED BY <2>1, <2>2, <2>4, Zenon
  <1>6. ASSUME NEW t \in Threads,
               DrainDone(t) \/ DrainFails(t) \/ NotAdmitted(t) \/ Spawn(t) \/ SpawnFails(t)
        PROVE  Owned'
    <2>1. Destroy(t) /\ arg[t] \in Shared
      BY <1>6, Busy, Zenon DEF DrainDone, DrainFails, NotAdmitted, Spawn, SpawnFails
    <2>2. \A u \in Threads : u # t => pc'[u] = pc[u] /\ arg'[u] = arg[u]
      BY <2>1, DestroyFrame
    <2>3. \E x \in {"freed", "leaked", "reap"} : port' = [port EXCEPT ![arg[t]] = x]
      <3>1. CASE DrainDone(t) \/ DrainFails(t)
        BY <3>1, Zenon DEF DrainDone, DrainFails, Finished, Abandoned
      <3>2. CASE NotAdmitted(t) \/ Spawn(t) \/ SpawnFails(t)
        BY <3>2, Zenon DEF NotAdmitted, Spawn, SpawnFails, Abandoned
      <3> QED BY <1>6, <3>1, <3>2, Zenon
    <2>4. /\ port'[arg[t]] \in {"freed", "leaked", "reap"}
          /\ \A s \in Shared : s # arg[t] => port'[s] = port[s]
      BY <2>1, <2>3 DEF PortTypeOK
    <2> QED BY <2>2, <2>4
  <1>7. ASSUME NEW s \in Shared, KernelCompletes(s) \/ TimeoutCallback(s) \/ ReaperStep(s)
        PROVE  Owned'
    <2>1. pc' = pc /\ arg' = arg
      BY <1>7, Zenon DEF KernelCompletes, TimeoutCallback, ReaperStep, ReapPacket, Dispatch, ReapDone,
                  ReapGivesUp, ReaperExits, vars
    <2>2. \/ port' = port
          \/ port' = [port EXCEPT ![s] = "freed"]
          \/ port' = [port EXCEPT ![s] = "leaked"]
      BY <1>7, Zenon DEF KernelCompletes, TimeoutCallback, ReaperStep, ReapPacket, Dispatch, ReapDone,
                  ReapGivesUp, ReaperExits, Finished, Abandoned
    <2>3. \A q \in Shared : port'[q] = port[q] \/ port'[q] \in {"freed", "leaked"}
      BY <2>2 DEF PortTypeOK
    <2> QED BY <2>1, <2>3, Zenon
  <1> QED BY <1>1, <1>2, <1>3, <1>4, <1>5, <1>6, <1>7, Zenon DEF TeardownNext, PortStep

(* A thread does not leave its wait while its timeout is armed. *)
LEMMA StepTimed ==
  ASSUME IInv, PInv, [TeardownNext]_allVars
  PROVE  Timed'
  <1> USE DEF PInv, Timed
  <1>1. CASE UNCHANGED allVars
    BY <1>1, Zenon DEF allVars, portVars, vars
  <1>2. ASSUME NEW t \in Threads, TableStep(t)
        PROVE  Timed'
    <2>1. timer' = timer /\ timing' = timing
      BY <1>2 DEF TableStep, portVars
    <2>2. \A u \in Threads : u # t => pc'[u] = pc[u] /\ arg'[u] = arg[u]
      BY <1>2, Frame DEF TableStep, IInv
    <2>3. \A s \in Shared : timer[s] # "off" => timing[s] # t
      BY <1>2 DEF TableStep, Untimed
    <2> QED BY <2>1, <2>2, <2>3
  <1>3. ASSUME NEW t \in Threads, PortStep(t)
        PROVE  Timed'
    <2>1. pc[t] # "wait" /\ timer' = timer /\ timing' = timing
      BY <1>3, Zenon DEF PortStep, BeginPortClose, BeginClose, StartDrain, DrainPacket, Dispatch,
                  DrainDone, DrainFails, Admit, NotAdmitted, Spawn, SpawnFails, Finished,
                  Abandoned, timerVars
    <2>2. \A u \in Threads : u # t => pc'[u] = pc[u] /\ arg'[u] = arg[u]
      <3>1. CASE BeginPortClose(t)
        BY <3>1, Zenon DEF BeginPortClose, BeginClose, IInv, TypeOK
      <3>2. CASE StartDrain(t) \/ DrainPacket(t) \/ Admit(t)
        BY <3>2, Zenon DEF StartDrain, DrainPacket, Dispatch, Admit, vars
      <3>3. CASE DrainDone(t) \/ DrainFails(t) \/ NotAdmitted(t) \/ Spawn(t) \/ SpawnFails(t)
        <4>1. Destroy(t)
          BY <3>3 DEF DrainDone, DrainFails, NotAdmitted, Spawn, SpawnFails
        <4> QED BY <4>1, DestroyFrame, Zenon
      <3> QED BY <1>3, <3>1, <3>2, <3>3, Zenon DEF PortStep
    <2> QED BY <2>1, <2>2, Zenon
  <1>4. ASSUME NEW t \in Threads, Submit(t) \/ WaitDispatches(t)
        PROVE  Timed'
    <2>1. pc' = pc /\ arg' = arg /\ timing' = timing /\ timer' = timer
      BY <1>4, Zenon DEF Submit, WaitDispatches, Dispatch, vars, timerVars
    <2> QED BY <2>1, Zenon
  <1>5. ASSUME NEW t \in Threads, ArmTimeout(t) \/ DisarmTimeout(t)
        PROVE  Timed'
    <2>1. pc[t] = "wait" /\ arg[t] \in Shared /\ pc' = pc /\ arg' = arg
      BY <1>5, Busy DEF ArmTimeout, DisarmTimeout, vars
    <2>2. CASE ArmTimeout(t)
      BY <2>1, <2>2, Zenon DEF ArmTimeout, PortTypeOK
    <2>3. CASE DisarmTimeout(t)
      <3>1. timer'[arg[t]] = "off"
        BY <2>1, <2>3 DEF DisarmTimeout, Joined, PortTypeOK
      <3>2. \A s \in Shared : s # arg[t] => timer'[s] = timer[s] /\ timing'[s] = timing[s]
        BY <2>3, Zenon DEF DisarmTimeout, PortTypeOK
      <3>3. ASSUME NEW s \in Shared, timer'[s] # "off"
            PROVE  timing'[s] \in Threads /\ pc'[timing'[s]] = "wait" /\ arg'[timing'[s]] = s
        <4>1. s # arg[t]
          BY <3>1, <3>3, Zenon
        <4>2. timer[s] # "off" /\ timing'[s] = timing[s]
          BY <3>2, <3>3, <4>1, Zenon
        <4> QED BY <2>1, <4>2, Zenon
      <3> QED BY <3>3, Zenon
    <2> QED BY <1>5, <2>2, <2>3, Zenon
  <1>6. ASSUME NEW s \in Shared, KernelCompletes(s) \/ TimeoutCallback(s) \/ ReaperStep(s)
        PROVE  Timed'
    <2>1. CASE TimeoutCallback(s)
      <3>1. /\ pc' = pc /\ arg' = arg /\ timing' = timing /\ timer[s] # "off"
            /\ \E x : timer' = [timer EXCEPT ![s] = x]
        BY <2>1, Zenon DEF TimeoutCallback, vars
      <3>2. \A q \in Shared : q # s => timer'[q] = timer[q]
        BY <3>1 DEF PortTypeOK
      <3> QED BY <3>1, <3>2, Zenon
    <2>2. CASE KernelCompletes(s) \/ ReaperStep(s)
      <3>1. pc' = pc /\ arg' = arg
        BY <2>2, Zenon DEF KernelCompletes, ReaperStep, ReapPacket, Dispatch, ReapDone, ReapGivesUp,
                    ReaperExits, vars
      <3>2. timing' = timing /\ timer' = timer
        BY <2>2, Zenon DEF KernelCompletes, ReaperStep, ReapPacket, Dispatch, ReapDone, ReapGivesUp,
                    ReaperExits, Finished, Abandoned, timerVars
      <3> QED BY <3>1, <3>2, Zenon
    <2> QED BY <1>6, <2>1, <2>2, Zenon
  <1> QED BY <1>1, <1>2, <1>3, <1>4, <1>5, <1>6, Zenon DEF TeardownNext, WaitStep

(* Packets are counted until they are dequeued, and only a drained port is *)
(* freed, after the table has let go of it.                                *)
LEMMA StepHeld ==
  ASSUME IInv, PInv, [TeardownNext]_allVars
  PROVE  KernelStorageHeld'
  <1> USE DEF PInv, KernelStorageHeld
  <1>1. CASE UNCHANGED allVars
    BY <1>1, Zenon DEF allVars, portVars, vars
  <1>2. ASSUME NEW t \in Threads, TableStep(t)
        PROVE  KernelStorageHeld'
    <2>1. port' = port /\ kernel' = kernel /\ pending' = pending
      BY <1>2, Zenon DEF TableStep, portVars
    <2>2. \A s \in Shared : life[s] = "freed" => life'[s] = "freed"
      BY <1>2, Frame, Zenon DEF TableStep, IInv
    <2> QED BY <2>1, <2>2, Zenon
  <1>3. ASSUME NEW t \in Threads, BeginPortClose(t)
        PROVE  KernelStorageHeld'
    <2>1. port' = port /\ kernel' = kernel /\ pending' = pending /\ life' = life
      BY <1>3, Zenon DEF BeginPortClose, BeginClose
    <2> QED BY <2>1, Zenon
  <1>4. ASSUME NEW t \in Threads, Submit(t)
        PROVE  KernelStorageHeld'
    <2>1. arg[t] \in Shared /\ port[arg[t]] # "freed"
      BY <1>4, Busy, Zenon DEF Submit
    <2>2. /\ port' = port /\ life' = life
          /\ kernel' = [kernel EXCEPT ![arg[t]] = kernel[arg[t]] + 1]
          /\ pending' = [pending EXCEPT ![arg[t]] = pending[arg[t]] + 1]
      BY <1>4, Zenon DEF Submit, vars
    <2>3. /\ pending'[arg[t]] >= kernel'[arg[t]]
          /\ \A s \in Shared : s # arg[t] => kernel'[s] = kernel[s] /\ pending'[s] = pending[s]
      BY <2>1, <2>2 DEF PortTypeOK
    <2> QED BY <2>1, <2>2, <2>3, Zenon
  <1>5. ASSUME NEW s \in Shared, Dispatch(s)
        PROVE  KernelStorageHeld'
    BY <1>5 DEF Dispatch, vars, PortTypeOK
  <1>6. ASSUME NEW t \in Threads, WaitStep(t) \/ DrainPacket(t)
        PROVE  KernelStorageHeld'
    <2>1. arg[t] \in Shared
      BY <1>6, Busy, Zenon DEF WaitStep, WaitDispatches, ArmTimeout, DisarmTimeout, DrainPacket
    <2>2. CASE Dispatch(arg[t])
      BY <1>5, <2>1, <2>2, Zenon
    <2>3. CASE ArmTimeout(t) \/ DisarmTimeout(t)
      BY <2>3, Zenon DEF ArmTimeout, DisarmTimeout, vars
    <2> QED BY <1>6, <2>2, <2>3, Zenon DEF WaitStep, WaitDispatches, DrainPacket
  <1>7. ASSUME NEW t \in Threads, StartDrain(t) \/ Admit(t)
        PROVE  KernelStorageHeld'
    <2>1. arg[t] \in Shared
      BY <1>7, Busy, Zenon DEF StartDrain, Admit
    <2>2. /\ kernel' = kernel /\ pending' = pending /\ life' = life
          /\ \E x \in {"drain", "admitted"} : port' = [port EXCEPT ![arg[t]] = x]
      BY <1>7, Zenon DEF StartDrain, Admit, vars
    <2>3. \A s \in Shared : port'[s] = port[s] \/ port'[s] \in {"drain", "admitted"}
      BY <2>1, <2>2 DEF PortTypeOK
    <2> QED BY <2>2, <2>3, Zenon
  <1>8. ASSUME NEW t \in Threads,
               DrainDone(t) \/ DrainFails(t) \/ NotAdmitted(t) \/ Spawn(t) \/ SpawnFails(t)
        PROVE  KernelStorageHeld'
    <2>1. Destroy(t) /\ arg[t] \in Shared
      BY <1>8, Busy, Zenon DEF DrainDone, DrainFails, NotAdmitted, Spawn, SpawnFails
    <2>2. /\ life'[arg[t]] = "freed"
          /\ \A s \in Shared : life[s] = "freed" => life'[s] = "freed"
      BY <2>1, DestroyFrame, Zenon
    <2>3. /\ port'[arg[t]] = "freed" => pending[arg[t]] = 0
          /\ \A s \in Shared : s # arg[t] => port'[s] = port[s]
          /\ kernel' = kernel /\ pending' = pending
      BY <1>8, Zenon DEF DrainDone, DrainFails, NotAdmitted, Spawn, SpawnFails, Finished, Abandoned,
                  Drained, PortTypeOK
    <2> QED BY <2>2, <2>3, Zenon
  <1>9. ASSUME NEW s \in Shared, KernelCompletes(s) \/ TimeoutCallback(s) \/ ReaperStep(s)
        PROVE  KernelStorageHeld'
    <2>1. CASE KernelCompletes(s)
      BY <2>1 DEF KernelCompletes, vars, PortTypeOK
    <2>2. CASE ReapPacket(s)
      BY <1>5, <2>2, Zenon DEF ReapPacket
    <2>3. CASE TimeoutCallback(s) \/ ReaperExits(s)
      BY <2>3, Zenon DEF TimeoutCallback, ReaperExits, vars
    <2>4. CASE ReapDone(s) \/ ReapGivesUp(s)
      BY <2>4 DEF ReapDone, ReapGivesUp, Finished, Abandoned, Drained, vars, PortTypeOK
    <2> QED BY <1>9, <2>1, <2>2, <2>3, <2>4, Zenon DEF ReaperStep
  <1> QED BY <1>1, <1>2, <1>3, <1>4, <1>6, <1>7, <1>8, <1>9, Zenon DEF TeardownNext, PortStep

(* The ports in quarantine, when one enters and when one leaves *)
LEMMA Quarantine ==
  ASSUME PInv, NEW s \in Shared
  PROVE  /\ IsFiniteSet(Quarantined) /\ Cardinality(Quarantined) \in Nat
         /\ s \notin Quarantined =>
                Cardinality(Quarantined \cup {s}) = Cardinality(Quarantined) + 1
         /\ s \in Quarantined =>
                Cardinality(Quarantined \ {s}) = Cardinality(Quarantined) - 1
  <1>1. IsFiniteSet(Quarantined)
    BY FS_Subset DEF PInv, PortTypeOK, Slots
  <1> QED BY <1>1, FS_CardinalityType, FS_AddElement, FS_RemoveElement, Zenon

(* A step that leaves the slots, the counters and who is in quarantine *)
LEMMA SameSlots ==
  ASSUME PInv, UNCHANGED statVars, Quarantined' = Quarantined,
         \A s \in reaping : port'[s] = port[s] \/ port'[s] \in {"admitted", "reap", "freed", "leaked"}
  PROVE  Slots'
  BY DEF PInv, Slots, statVars

(* A slot is taken with the quarantine and given back once, by the reaper  *)
(* or by the thread that could not start it.                               *)
LEMMA StepSlots ==
  ASSUME IInv, PInv, [TeardownNext]_allVars
  PROVE  Slots'
  <1> USE DEF PInv, PortTypeOK, Phases
  <1>1. CASE UNCHANGED allVars
    <2>1. port' = port /\ UNCHANGED statVars
      BY <1>1 DEF allVars, portVars, statVars
    <2> QED BY <2>1, SameSlots DEF Quarantined
  <1>2. ASSUME NEW t \in Threads, \/ TableStep(t) \/ BeginPortClose(t) \/ Submit(t) \/ WaitStep(t)
                                  \/ DrainPacket(t)
        PROVE  Slots'
    <2>1. port' = port /\ UNCHANGED statVars
      BY <1>2, Zenon DEF TableStep, portVars, BeginPortClose, Submit, WaitStep, WaitDispatches, ArmTimeout,
                  DisarmTimeout, DrainPacket, Dispatch, statVars
    <2> QED BY <2>1, SameSlots, Zenon DEF Quarantined
  <1>3. ASSUME NEW t \in Threads, StartDrain(t) \/ DrainDone(t)
        PROVE  Slots'
    <2>1. arg[t] \in Shared /\ port[arg[t]] \in {"open", "drain"}
      BY <1>3, Busy, Zenon DEF StartDrain, DrainDone
    <2>2. /\ UNCHANGED statVars
          /\ port'[arg[t]] \in {"drain", "freed"}
          /\ \A s \in Shared : s # arg[t] => port'[s] = port[s]
      BY <1>3, <2>1, Zenon DEF StartDrain, DrainDone, Finished
    <2>3. Quarantined' = Quarantined /\ arg[t] \notin reaping
      BY <2>1, <2>2 DEF Quarantined, Slots
    <2> QED BY <2>2, <2>3, SameSlots, Zenon
  <1>4. ASSUME NEW t \in Threads, DrainFails(t) \/ NotAdmitted(t)
        PROVE  Slots'
    <2>1. arg[t] \in Shared /\ port[arg[t]] = "drain"
      BY <1>4, Busy, Zenon DEF DrainFails, NotAdmitted
    <2>2. /\ reaping' = reaping /\ active' = active /\ reaped' = reaped
          /\ quarantined' = quarantined + 1 /\ irrecoverable' = irrecoverable + 1
          /\ port' = [port EXCEPT ![arg[t]] = "leaked"]
      BY <1>4 DEF DrainFails, NotAdmitted, Abandoned
    <2>3. Quarantined' = Quarantined
      BY <2>1, <2>2 DEF Quarantined
    <2>4. /\ active' = Cardinality(reaping') /\ active' <= MaxReapers
          /\ Quarantined' \subseteq reaping'
          /\ \A s \in reaping' : port'[s] \in {"admitted", "reap", "freed", "leaked"}
      BY <2>2, <2>3 DEF Slots
    <2>5. quarantined' = reaped' + irrecoverable' + Cardinality(Quarantined')
      <3>1. /\ Cardinality(Quarantined) \in Nat
            /\ quarantined = reaped + irrecoverable + Cardinality(Quarantined)
        BY <2>1, Quarantine, Zenon DEF Slots
      <3> QED BY <2>2, <2>3, <3>1
    <2> QED BY <2>4, <2>5, Zenon DEF Slots
  <1>5. ASSUME NEW t \in Threads, Admit(t)
        PROVE  Slots'
    <2>1. arg[t] \in Shared /\ port[arg[t]] = "drain" /\ active < MaxReapers
      BY <1>5, Busy, Zenon DEF Admit, MayAdmit
    <2>2. Quarantined' = Quarantined \cup {arg[t]} /\ arg[t] \notin Quarantined
      BY <1>5, <2>1 DEF Admit, Quarantined
    <2>3. Cardinality(reaping \cup {arg[t]}) = active + 1
      <3>1. IsFiniteSet(reaping) /\ active = Cardinality(reaping) /\ arg[t] \notin reaping
        BY <2>1, Zenon DEF Slots
      <3> QED BY <3>1, FS_AddElement, Zenon
    <2> QED BY <1>5, <2>1, <2>2, <2>3, Quarantine, LimitsNatural DEF Admit, Slots
  <1>6. ASSUME NEW t \in Threads, Spawn(t)
        PROVE  Slots'
    <2>1. arg[t] \in Shared /\ port[arg[t]] = "admitted"
      BY <1>6, Busy, Zenon DEF Spawn
    <2>2. UNCHANGED statVars /\ port' = [port EXCEPT ![arg[t]] = "reap"]
      BY <1>6, Zenon DEF Spawn
    <2>3. Quarantined' = Quarantined
      BY <2>1, <2>2 DEF Quarantined
    <2> QED BY <2>2, <2>3, SameSlots, Zenon
  <1>7. ASSUME NEW t \in Threads, SpawnFails(t)
        PROVE  Slots'
    <2>1. arg[t] \in Quarantined /\ arg[t] \in reaping /\ arg[t] \in Shared
      BY <1>7, Busy, Zenon DEF SpawnFails, Quarantined, Slots
    <2>2. port' = [port EXCEPT ![arg[t]] = "leaked"] /\ irrecoverable' = irrecoverable + 1
      BY <1>7 DEF SpawnFails, Abandoned
    <2>3. Quarantined' = Quarantined \ {arg[t]}
      BY <2>2 DEF Quarantined
    <2>4. /\ reaping' = reaping \ {arg[t]} /\ active' = active - 1
          /\ quarantined' = quarantined /\ reaped' = reaped
      BY <1>7, Zenon DEF SpawnFails
    <2>5. active' = Cardinality(reaping') /\ active' <= MaxReapers
      BY <2>1, <2>4, Fewer, LimitsNatural DEF Slots
    <2>6. /\ Quarantined' \subseteq reaping'
          /\ \A s \in reaping' : port'[s] \in {"admitted", "reap", "freed", "leaked"}
      BY <2>2, <2>3, <2>4, Zenon DEF Slots
    <2>7. quarantined' = reaped' + irrecoverable' + Cardinality(Quarantined')
      BY <2>1, <2>2, <2>3, <2>4, Quarantine DEF Slots
    <2> QED BY <2>5, <2>6, <2>7, Zenon DEF Slots
  <1>8. ASSUME NEW s \in Shared, KernelCompletes(s) \/ TimeoutCallback(s) \/ ReapPacket(s)
        PROVE  Slots'
    <2>1. port' = port /\ UNCHANGED statVars
      BY <1>8, Zenon DEF KernelCompletes, TimeoutCallback, ReapPacket, Dispatch, statVars
    <2> QED BY <2>1, SameSlots, Zenon DEF Quarantined
  <1>9. ASSUME NEW s \in Shared, ReapDone(s) \/ ReapGivesUp(s)
        PROVE  Slots'
    <2>1. s \in Quarantined /\ s \in reaping
      BY <1>9 DEF ReapDone, ReapGivesUp, Quarantined, Slots
    <2>2. /\ port' = [port EXCEPT ![s] = port'[s]] /\ port'[s] \in {"freed", "leaked"}
          /\ reaping' = reaping /\ active' = active /\ quarantined' = quarantined
          /\ reaped' + irrecoverable' = reaped + irrecoverable + 1
      BY <1>9 DEF ReapDone, ReapGivesUp, Finished, Abandoned
    <2>3. Quarantined' = Quarantined \ {s}
      BY <2>2 DEF Quarantined
    <2> QED BY <2>1, <2>2, <2>3, Quarantine DEF Slots
  <1>10. ASSUME NEW s \in Shared, ReaperExits(s)
         PROVE  Slots'
    <2>1. s \in reaping /\ s \notin Quarantined /\ Quarantined' = Quarantined
      BY <1>10 DEF ReaperExits, Quarantined
    <2> QED BY <1>10, <2>1, Fewer, LimitsNatural DEF ReaperExits, Slots
  <1> QED BY <1>1, <1>2, <1>3, <1>4, <1>5, <1>6, <1>7, <1>8, <1>9, <1>10, Zenon
          DEF TeardownNext, PortStep, ReaperStep

LEMMA StepPInv ==
  ASSUME IInv, PInv, [TeardownNext]_allVars
  PROVE  PInv'
  BY StepPortType, StepHeld, StepOwned, StepTimed, StepSlots, Zenon DEF PInv

(* The composition implements the descriptor table: a port's teardown,     *)
(* its reaper and its requests add nothing the table does not allow.       *)
THEOREM ImplementsTable == TeardownSpec => Spec
  <1>1. TeardownInit => Init
    BY DEF TeardownInit
  <1>2. [TeardownNext]_allVars => [Next]_vars
    BY TableStepOrStutter
  <1> QED BY <1>1, <1>2, PTL DEF TeardownSpec, Spec

(* The invariant of the composition is inductive relative to the table's. *)
THEOREM TeardownInductive == TeardownSpec => [](IInv /\ PInv)
  <1>1. TeardownSpec => []IInv
    BY ImplementsTable, Inductive, PTL
  <1>2. TeardownInit => PInv
    BY InitPInv
  <1>3. IInv /\ PInv /\ [TeardownNext]_allVars => PInv'
    BY StepPInv
  <1> QED BY <1>1, <1>2, <1>3, PTL DEF TeardownSpec

(* The storage of a port is freed only after the kernel has let go of it   *)
(* and its packets have been dequeued, by ep_port_destroy or the reaper.   *)
THEOREM StorageHeld == TeardownSpec => []KernelStorageHeld
  <1>1. IInv /\ PInv => KernelStorageHeld
    BY DEF PInv
  <1> QED BY <1>1, TeardownInductive, PTL

(* The reaper slots and the public counters of quarantined ports are exact *)
(* whatever the limit, also when a reaper thread cannot be created.        *)
THEOREM SlotsExact == TeardownSpec => []ReaperSlotsExact
  <1>1. IInv /\ PInv => ReaperSlotsExact
    BY DEF PInv, Slots, ReaperSlotsExact, Quarantined
  <1> QED BY <1>1, TeardownInductive, PTL

(* No timeout callback runs on a port whose wait has returned. *)
THEOREM CallbackJoined == TeardownSpec => []CallbackHeld
  <1>1. ASSUME IInv, PInv, NEW s \in Shared, timer[s] = "running"
        PROVE  port[s] = "open" /\ \E t \in Holders(s) : pc[t] = "wait"
    <2>1. PICK t \in Threads : pc[t] = "wait" /\ arg[t] = s
      BY <1>1 DEF PInv, Timed
    <2>2. t \in Holders(s) /\ life[s] = "live"
      BY <1>1, <2>1, Busy DEF Holders, OpPcs
    <2>3. refs[s] # 0
      <3>1. refs[s] = Cardinality(Holders(s)) /\ IsFiniteSet(Holders(s))
        BY <1>1, <2>2, Finite, Zenon DEF IInv, CountsExact
      <3> QED BY <2>2, <3>1, FS_EmptySet, Zenon
    <2>4. ~ \E u \in Threads : pc[u] = "destroy" /\ arg[u] = s
      BY <1>1, <2>2, <2>3 DEF IInv, OneTeardownOwner, Owners, OwnerPcs, ClosePcs
    <2>5. port[s] \in {"open", "drain", "admitted"}
      BY <1>1, <2>1, Busy
    <2> QED BY <1>1, <2>1, <2>2, <2>4, <2>5 DEF PInv, Owned
  <1>2. IInv /\ PInv => CallbackHeld
    BY <1>1 DEF CallbackHeld
  <1> QED BY <1>2, TeardownInductive, PTL
=============================================================================
