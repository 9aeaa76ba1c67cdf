------------------------- MODULE PosixRegistryProofs -------------------------
(***************************************************************************)
(* Proofs about PosixRegistry, for any threads, descriptors, instances and *)
(* ports, and any size of the table.                                       *)
(***************************************************************************)
EXTENDS PosixRegistry, FiniteSetTheorems, TLAPS

Using == {"use", "wait", "check closing", "decorate"}
Ending == {"retire", "check refs", "sleep", "free"}

TypeOK ==
    /\ desc \in [Fds -> Instances \cup {Other, None}]
    /\ map \in [Fds -> Ports \cup {None}]
    /\ instance \in [Ports -> Instances \cup {None}]
    /\ refs \in [Ports -> Nat] /\ aliases \in [Ports -> Nat]
    /\ closing \in [Ports -> BOOLEAN] /\ retired \in [Ports -> BOOLEAN]
    /\ close_waiter \in [Ports -> BOOLEAN] /\ wake \in [Ports -> BOOLEAN]
    /\ pc \in [Threads -> {"idle", "acquire"} \cup Using \cup Ending]
    /\ arg \in [Threads -> Ports \cup {None}]
    /\ fd \in [Threads -> Fds \cup {None}]
    /\ goal \in [Threads -> {"none", "use", "wait"}]
    /\ got \in [Threads -> {"none", "user", "wake"}]

(* A call that needs a port has a descriptor to find it by; one that uses  *)
(* or ends a port has that port.                                           *)
CallOK(t) ==
    /\ pc[t] = "acquire" => goal[t] # "none"
    /\ pc[t] \in {"idle"} \cup Using => goal[t] = "none"
    /\ goal[t] # "none" => fd[t] \in Fds
    /\ pc[t] \in Using \cup Ending => arg[t] \in Ports

Mapped(p) == {f \in Fds : map[f] = p}

(* The counters count. *)
Counts(p) ==
    /\ refs[p] = Cardinality(Holders(p))
    /\ aliases[p] = Cardinality(Mapped(p))

(* The life of a port: unallocated, open as long as it has an alias, then  *)
(* closing with one thread to end it, or, if that thread was cancelled,    *)
(* left to its last user.                                                  *)
Life(p) ==
    /\ ~Live(p) => /\ refs[p] = 0 /\ aliases[p] = 0 /\ ~closing[p]
                   /\ ~retired[p] /\ ~close_waiter[p] /\ Closers(p) = {}
    /\ Live(p) /\ ~closing[p] =>
          aliases[p] > 0 /\ ~retired[p] /\ ~close_waiter[p] /\ Closers(p) = {}
    /\ closing[p] => aliases[p] = 0
    /\ closing[p] /\ Closers(p) = {} => retired[p] /\ ~close_waiter[p] /\ refs[p] > 0
    /\ \A t, u \in Closers(p) : t = u
    /\ \A t \in Closers(p) :
          /\ pc[t] = "retire" => ~retired[p] /\ ~close_waiter[p]
          /\ pc[t] \in {"check refs", "sleep"} => retired[p] /\ close_waiter[p]
          /\ pc[t] = "free" => ~retired[p] /\ ~close_waiter[p] /\ refs[p] = 0

IInv ==
    /\ TypeOK
    /\ \A t \in Threads : CallOK(t)
    /\ \A p \in Ports : Counts(p) /\ Life(p)
    /\ OnePortPerInstance

----------------------------------------------------------------------------
LEMMA NoneIsNothing == None \notin Ports /\ None \notin Instances /\ Other \notin Instances
  BY NamesFresh

LEMMA OneMore ==
  ASSUME NEW S, NEW x, IsFiniteSet(S), x \notin S
  PROVE  Cardinality(S \cup {x}) = Cardinality(S) + 1
  BY FS_AddElement

LEMMA OneLess ==
  ASSUME NEW S, NEW x, IsFiniteSet(S), x \in S
  PROVE  Cardinality(S \ {x}) = Cardinality(S) - 1 /\ Cardinality(S) # 0
  BY FS_RemoveElement, FS_EmptySet

LEMMA Empty ==
  ASSUME NEW S, IsFiniteSet(S)
  PROVE  Cardinality(S) = 0 <=> S = {}
  BY FS_EmptySet

LEMMA SetsFinite ==
  ASSUME NEW p \in Ports
  PROVE  IsFiniteSet(Holders(p)) /\ IsFiniteSet(Mapped(p)) /\ IsFiniteSet(Closers(p))
  <1>1. Holders(p) \subseteq Threads /\ Closers(p) \subseteq Threads /\ Mapped(p) \subseteq Fds
    BY Zenon DEF Holders, Closers, Mapped
  <1> QED BY <1>1, FS_Subset, ThreadsFinite, FdsFinite

(* What a descriptor leads to: an open port, the one it is mapped to if it *)
(* is mapped at all.                                                       *)
LEMMA FoundPort ==
  ASSUME IInv, NEW f \in Fds, NEW p \in Found(f), ~closing[p]
  PROVE  /\ p \in Ports /\ Live(p) /\ map[f] \in {p, None} /\ aliases[p] > 0
  <1>1. p \in Ports /\ map[f] \in {p, None} /\ \E g \in Fds : map[g] = p
    BY DEF Found, IInv, TypeOK
  <1>2. Mapped(p) # {}
    BY <1>1 DEF Mapped
  <1>3. aliases[p] # 0
    BY <1>1, <1>2, SetsFinite, Empty DEF IInv, Counts
  <1>4. aliases[p] > 0
    BY <1>1, <1>3 DEF IInv, TypeOK
  <1> QED BY <1>1, <1>3, <1>4, Zenon DEF IInv, Life

(* An open port is in the table. *)
LEMMA OpenPortMapped ==
  ASSUME IInv, NEW p \in Ports, Live(p), ~closing[p]
  PROVE  \E g \in Fds : map[g] = p
  <1>0. aliases[p] > 0 /\ aliases[p] \in Nat /\ aliases[p] = Cardinality(Mapped(p))
    BY Zenon DEF IInv, TypeOK, Counts, Life
  <1>1. Cardinality(Mapped(p)) # 0
    BY <1>0
  <1>2. Mapped(p) # {}
    BY <1>1, SetsFinite, Empty
  <1> QED BY <1>2 DEF Mapped

(* A step that leaves a port, its users and its descriptors as they are *)
SamePort(p) ==
    /\ instance'[p] = instance[p] /\ refs'[p] = refs[p] /\ aliases'[p] = aliases[p]
    /\ closing'[p] = closing[p] /\ retired'[p] = retired[p] /\ close_waiter'[p] = close_waiter[p]
    /\ Holders(p)' = Holders(p) /\ Closers(p)' = Closers(p) /\ Mapped(p)' = Mapped(p)
    /\ \A t \in Closers(p) : pc'[t] = pc[t]

LEMMA SamePortKeeps ==
  ASSUME NEW p \in Ports, Counts(p), Life(p), SamePort(p)
  PROVE  Counts(p)' /\ Life(p)'
  <1>1. Counts(p)'
    BY DEF SamePort, Counts
  <1>2. Life(p)'
    BY Zenon DEF SamePort, Life, Live
  <1> QED BY <1>1, <1>2

(* A step of one thread: who holds and who ends a port afterwards *)
OnlyThread(t) == \A u \in Threads \ {t} : pc'[u] = pc[u] /\ arg'[u] = arg[u]

LEMMA ThreadMoves ==
  ASSUME NEW t \in Threads, OnlyThread(t), NEW p \in Ports
  PROVE  /\ Holders(p)' = IF arg'[t] = p /\ pc'[t] \in Using THEN Holders(p) \cup {t}
                          ELSE Holders(p) \ {t}
         /\ Closers(p)' = IF arg'[t] = p /\ pc'[t] \in Ending THEN Closers(p) \cup {t}
                          ELSE Closers(p) \ {t}
         /\ t \in Holders(p) <=> arg[t] = p /\ pc[t] \in Using
         /\ t \in Closers(p) <=> arg[t] = p /\ pc[t] \in Ending
         /\ \A u \in Closers(p) \ {t} : pc'[u] = pc[u]
  BY Zenon DEF OnlyThread, Holders, Closers, Using, Ending

LEMMA SameUsers ==
  ASSUME NEW t \in Threads, OnlyThread(t), NEW p \in Ports,
         arg'[t] = p /\ pc'[t] \in Using <=> arg[t] = p /\ pc[t] \in Using
  PROVE  Holders(p)' = Holders(p)
  BY Zenon DEF OnlyThread, Holders, Using

LEMMA SameEnders ==
  ASSUME NEW t \in Threads, OnlyThread(t), NEW p \in Ports,
         ~(arg[t] = p /\ pc[t] \in Ending), ~(arg'[t] = p /\ pc'[t] \in Ending)
  PROVE  Closers(p)' = Closers(p) /\ \A u \in Closers(p) : pc'[u] = pc[u]
  BY Zenon DEF OnlyThread, Closers, Ending

(* As long as ports only begin to close, one port per instance stays one. *)
LEMMA SameInstances ==
  ASSUME OnePortPerInstance, instance' = instance, \A p \in Ports : closing[p] => closing'[p]
  PROVE  OnePortPerInstance'
  BY DEF OnePortPerInstance, Live

LEMMA InitIInv == Init => IInv
  <1> SUFFICES ASSUME Init PROVE IInv
    OBVIOUS
  <1>1. TypeOK /\ OnePortPerInstance
    BY DEF Init, TypeOK, OnePortPerInstance, Live
  <1>2. \A t \in Threads : CallOK(t)
    BY DEF Init, CallOK, Using, Ending
  <1>3. ASSUME NEW p \in Ports PROVE Counts(p) /\ Life(p)
    <2>1. Holders(p) = {} /\ Closers(p) = {} /\ Mapped(p) = {}
      BY NamesFresh, Zenon DEF Init, Holders, Closers, Mapped
    <2>2. Counts(p)
      BY <2>1, FS_EmptySet DEF Init, Counts
    <2>3. Life(p)
      BY <2>1 DEF Init, Life, Live
    <2> QED BY <2>2, <2>3
  <1> QED BY <1>1, <1>2, <1>3 DEF IInv

(* A step that changes one entry of the table *)
LEMMA EntryMoves ==
  ASSUME TypeOK, NEW f \in Fds, NEW v, map' = [map EXCEPT ![f] = v], NEW p \in Ports
  PROVE  /\ Mapped(p)' = IF v = p THEN Mapped(p) \cup {f} ELSE Mapped(p) \ {f}
         /\ f \in Mapped(p) <=> map[f] = p
  BY DEF TypeOK, Mapped

LEMMA SameEntries ==
  ASSUME TypeOK, NEW f \in Fds, NEW v, map' = [map EXCEPT ![f] = v], NEW p \in Ports,
         v # p, map[f] # p
  PROVE  Mapped(p)' = Mapped(p)
  BY DEF TypeOK, Mapped

(* A step of a thread that keeps its port, or has none before and after *)
LEMMA CalmKeeps ==
  ASSUME IInv, NEW t \in Threads, OnlyThread(t),
         UNCHANGED <<map, instance, refs, aliases, closing, retired, close_waiter>>,
         \/ pc[t] \in Using /\ pc'[t] \in Using /\ arg'[t] = arg[t]
         \/ pc[t] \in {"idle", "acquire"} /\ pc'[t] \in {"idle", "acquire"}
  PROVE  (\A p \in Ports : Counts(p)' /\ Life(p)') /\ OnePortPerInstance'
  <1>1. OnePortPerInstance'
    BY SameInstances DEF IInv
  <1>2. ASSUME NEW p \in Ports PROVE Counts(p)' /\ Life(p)'
    <2>1. SamePort(p)
      <3>1. Holders(p)' = Holders(p)
        BY SameUsers, Zenon DEF Using
      <3>2. Closers(p)' = Closers(p) /\ \A u \in Closers(p) : pc'[u] = pc[u]
        BY SameEnders, Zenon DEF Using, Ending
      <3> QED BY <3>1, <3>2 DEF SamePort, Mapped
    <2> QED BY <2>1, SamePortKeeps DEF IInv
  <1> QED BY <1>1, <1>2

----------------------------------------------------------------------------
(* Descriptors change behind the library's back. *)
LEMMA NativeKeeps ==
  ASSUME IInv, NEW f \in Fds, NEW d \in Instances \cup {Other, None},
         desc' = [desc EXCEPT ![f] = d], UNCHANGED <<map, ports, pc, arg, fd, goal, got>>
  PROVE  IInv'
  <1>1. TypeOK'
    BY DEF IInv, TypeOK, ports
  <1>2. \A t \in Threads : CallOK(t)'
    BY DEF IInv, CallOK
  <1>3. OnePortPerInstance'
    BY SameInstances DEF IInv, ports
  <1>4. ASSUME NEW p \in Ports PROVE Counts(p)' /\ Life(p)'
    <2>1. SamePort(p)
      BY DEF SamePort, Holders, Closers, Mapped, ports
    <2> QED BY <2>1, SamePortKeeps DEF IInv
  <1> QED BY <1>1, <1>2, <1>3, <1>4 DEF IInv

LEMMA CallKeeps ==
  ASSUME IInv, NEW t \in Threads, NEW f \in Fds, NEW next \in {"use", "wait"}, Call(t, f, next)
  PROVE  IInv'
  <1> USE DEF Call, Goto, ports
  <1>1. TypeOK' /\ OnlyThread(t) /\ pc'[t] = "acquire" /\ pc[t] = "idle"
    BY DEF IInv, TypeOK, OnlyThread
  <1>2. \A u \in Threads : CallOK(u)'
    BY Zenon DEF IInv, TypeOK, CallOK, Using, Ending
  <1>3. (\A p \in Ports : Counts(p)' /\ Life(p)') /\ OnePortPerInstance'
    BY <1>1, CalmKeeps
  <1> QED BY <1>1, <1>2, <1>3 DEF IInv

LEMMA AcquireFailsKeeps ==
  ASSUME IInv, NEW t \in Threads, AcquireFails(t)
  PROVE  IInv'
  <1> USE DEF AcquireFails, Goto, ports
  <1>1. TypeOK' /\ OnlyThread(t) /\ pc'[t] = "idle" /\ pc[t] = "acquire"
    BY DEF IInv, TypeOK, OnlyThread
  <1>2. \A u \in Threads : CallOK(u)'
    BY Zenon DEF IInv, TypeOK, CallOK, Using, Ending
  <1>3. (\A p \in Ports : Counts(p)' /\ Life(p)') /\ OnePortPerInstance'
    BY <1>1, CalmKeeps
  <1> QED BY <1>1, <1>2, <1>3 DEF IInv

(* A wait goes on to its next step. *)
LEMMA WaitKeeps ==
  ASSUME IInv, NEW t \in Threads,
         NativeWait(t, "wake") \/ NativeWait(t, "user") \/ CheckClosing(t) \/ Decorate(t)
  PROVE  IInv'
  <1> USE DEF NativeWait, CheckClosing, Decorate, Goto, ports
  <1>1. TypeOK'
    BY Zenon DEF IInv, TypeOK, Using
  <1>2. OnlyThread(t) /\ pc'[t] \in Using /\ pc[t] \in Using /\ arg'[t] = arg[t]
    BY Zenon DEF IInv, TypeOK, OnlyThread, Using
  <1>3. \A u \in Threads : CallOK(u)'
    BY Zenon DEF IInv, TypeOK, CallOK, Using, Ending
  <1>4. (\A p \in Ports : Counts(p)' /\ Life(p)') /\ OnePortPerInstance'
    BY <1>2, CalmKeeps, Zenon
  <1> QED BY <1>1, <1>3, <1>4, Zenon DEF IInv

(* A port that is known gets one more user, and an alias if need be. *)
LEMMA AcquireKnownKeeps ==
  ASSUME IInv, NEW t \in Threads, AcquireKnown(t)
  PROVE  IInv'
  <1> DEFINE f == fd[t]
  <1>0. pc[t] = "acquire" /\ f \in Fds /\ goal[t] \in {"use", "wait"}
        /\ TypeOK /\ UNCHANGED <<desc, instance, closing, retired, close_waiter, wake, got>>
    BY DEF IInv, CallOK, TypeOK, AcquireKnown
  <1>1. PICK p \in Found(f) :
          /\ ~closing[p]
          /\ map' = [map EXCEPT ![f] = p]
          /\ aliases' = [aliases EXCEPT ![p] = Aliases(p, f)]
          /\ refs' = [refs EXCEPT ![p] = @ + 1]
          /\ Acquired(t, p)
    BY Zenon DEF AcquireKnown
  <1> HIDE DEF f
  <1>2. p \in Ports /\ Live(p) /\ map[f] \in {p, None}
    BY <1>0, <1>1, FoundPort
  <1>3. OnlyThread(t) /\ pc'[t] \in Using /\ arg'[t] = p
    BY <1>0, <1>1, Zenon DEF Acquired, Goto, TypeOK, OnlyThread, Using
  <1>4. TypeOK'
    <2>1. map' \in [Fds -> Ports \cup {None}] /\ refs' \in [Ports -> Nat]
      BY <1>0, <1>1, <1>2 DEF TypeOK
    <2>2. aliases' \in [Ports -> Nat]
      <3>1. Aliases(p, f) \in Nat
        BY <1>0, <1>2 DEF TypeOK, Aliases
      <3> QED BY <1>0, <1>1, <3>1, Zenon DEF TypeOK
    <2>3. /\ pc' \in [Threads -> {"idle", "acquire"} \cup Using \cup Ending]
          /\ arg' \in [Threads -> Ports \cup {None}]
          /\ fd' \in [Threads -> Fds \cup {None}]
          /\ goal' \in [Threads -> {"none", "use", "wait"}]
      BY <1>0, <1>1, <1>2, Zenon DEF Acquired, Goto, TypeOK, Using
    <2> QED BY <1>0, <2>1, <2>2, <2>3 DEF TypeOK
  <1>5. \A u \in Threads : CallOK(u)'
    BY <1>0, <1>1, <1>2, Zenon DEF IInv, Acquired, Goto, TypeOK, CallOK, Using, Ending
  <1>6. OnePortPerInstance'
    BY <1>0, SameInstances DEF IInv
  <1>7. ASSUME NEW q \in Ports, q # p PROVE Counts(q)' /\ Life(q)'
    <2>1. SamePort(q)
      <3>1. Holders(q)' = Holders(q)
        BY <1>0, <1>3, <1>7, SameUsers, Zenon DEF Using
      <3>2. Closers(q)' = Closers(q) /\ \A u \in Closers(q) : pc'[u] = pc[u]
        BY <1>0, <1>3, <1>7, SameEnders, Zenon DEF Ending
      <3>3. Mapped(q)' = Mapped(q)
        BY <1>0, <1>1, <1>2, <1>7, SameEntries, NoneIsNothing, Zenon
      <3> QED BY <1>0, <1>1, <1>7, <3>1, <3>2, <3>3 DEF SamePort, TypeOK
    <2> QED BY <2>1, SamePortKeeps DEF IInv
  <1>8. Counts(p)' /\ Life(p)'
    <2>1. Holders(p)' = Holders(p) \cup {t} /\ t \notin Holders(p)
          /\ Closers(p)' = Closers(p) /\ Closers(p) = {}
      <3>1. Holders(p)' = Holders(p) \cup {t} /\ t \notin Holders(p)
        BY <1>0, <1>2, <1>3, ThreadMoves, Zenon DEF Using
      <3>2. Closers(p)' = Closers(p)
        BY <1>0, <1>2, <1>3, SameEnders, Zenon DEF Using, Ending
      <3>3. Closers(p) = {}
        BY <1>1, <1>2, Zenon DEF IInv, Life
      <3> QED BY <3>1, <3>2, <3>3
    <2>2. refs'[p] = Cardinality(Holders(p)')
      <3>1. Cardinality(Holders(p) \cup {t}) = Cardinality(Holders(p)) + 1
        BY <1>2, <2>1, SetsFinite, OneMore
      <3> QED BY <1>0, <1>1, <1>2, <2>1, <3>1 DEF IInv, Counts, TypeOK
    <2>3. aliases'[p] = Cardinality(Mapped(p)')
      <3>1. Mapped(p)' = Mapped(p) \cup {f} /\ (f \in Mapped(p) <=> map[f] = p)
        BY <1>0, <1>1, <1>2, EntryMoves, Zenon
      <3>2. CASE map[f] = p
        <4>1. Mapped(p)' = Mapped(p)
          BY <3>1, <3>2
        <4> QED BY <1>0, <1>1, <1>2, <3>2, <4>1 DEF IInv, Counts, TypeOK, Aliases
      <3>3. CASE map[f] # p
        <4>1. Cardinality(Mapped(p) \cup {f}) = Cardinality(Mapped(p)) + 1
          BY <1>2, <3>1, <3>3, SetsFinite, OneMore
        <4> QED BY <1>0, <1>1, <1>2, <3>1, <3>3, <4>1 DEF IInv, Counts, TypeOK, Aliases
      <3> QED BY <3>2, <3>3
    <2>4. aliases'[p] > 0
      BY <1>0, <1>1, <1>2, FoundPort DEF TypeOK, Aliases
    <2> QED BY <1>0, <1>1, <1>2, <2>1, <2>2, <2>3, <2>4, Zenon DEF IInv, Counts, Life, Live
  <1> QED BY <1>4, <1>5, <1>6, <1>7, <1>8 DEF IInv

(* A new port for an instance none of the open ports serves *)
LEMMA AcquireNewKeeps ==
  ASSUME IInv, NEW t \in Threads, NEW p \in Ports, AcquireNew(t, p)
  PROVE  IInv'
  <1> DEFINE f == fd[t]
  <1>0. pc[t] = "acquire" /\ f \in Fds /\ goal[t] \in {"use", "wait"} /\ TypeOK
    BY DEF IInv, CallOK, TypeOK, AcquireNew
  <1>1. /\ Found(f) = {} /\ desc[f] \in Instances /\ ~Live(p)
        /\ map' = [map EXCEPT ![f] = p]
        /\ instance' = [instance EXCEPT ![p] = desc[f]]
        /\ refs' = [refs EXCEPT ![p] = 1] /\ aliases' = [aliases EXCEPT ![p] = 1]
        /\ Acquired(t, p)
        /\ UNCHANGED <<desc, closing, retired, close_waiter, wake, got>>
    BY Zenon DEF AcquireNew
  <1> HIDE DEF f
  <1>2. map[f] = None
    BY <1>1 DEF Found
  <1>3. OnlyThread(t) /\ pc'[t] \in Using /\ arg'[t] = p
    BY <1>0, <1>1, Zenon DEF Acquired, Goto, TypeOK, OnlyThread, Using
  <1>4. TypeOK'
    <2>1. /\ pc' \in [Threads -> {"idle", "acquire"} \cup Using \cup Ending]
          /\ arg' \in [Threads -> Ports \cup {None}]
          /\ fd' \in [Threads -> Fds \cup {None}]
          /\ goal' \in [Threads -> {"none", "use", "wait"}]
      BY <1>0, <1>1, Zenon DEF Acquired, Goto, TypeOK, Using
    <2>2. /\ map' \in [Fds -> Ports \cup {None}] /\ instance' \in [Ports -> Instances \cup {None}]
          /\ refs' \in [Ports -> Nat] /\ aliases' \in [Ports -> Nat]
      BY <1>0, <1>1 DEF TypeOK
    <2> QED BY <1>0, <1>1, <2>1, <2>2 DEF TypeOK
  <1>5. \A u \in Threads : CallOK(u)'
    BY <1>0, <1>1, Zenon DEF IInv, Acquired, Goto, TypeOK, CallOK, Using, Ending
  <1>6. OnePortPerInstance'
    <2>1. ASSUME NEW q \in Ports, q # p, instance[q] = desc[f] PROVE closing[q]
      <3>1. Live(q)
        BY <1>1, <2>1, NoneIsNothing DEF Live
      <3>2. SUFFICES ASSUME ~closing[q] PROVE FALSE
        OBVIOUS
      <3>3. PICK g \in Fds : map[g] = q
        BY <3>1, <3>2, OpenPortMapped
      <3>4. q \in Found(f)
        BY <1>2, <2>1, <3>2, <3>3, NoneIsNothing DEF Found, Identity
      <3> QED BY <3>4, <1>1
    <2>2. ASSUME NEW q \in Ports, NEW r \in Ports, q # r, Live(q)',
                 instance'[q] = instance'[r]
          PROVE  closing'[q] \/ closing'[r]
      <3>1. CASE q = p
        BY <1>0, <1>1, <2>1, <2>2, <3>1 DEF TypeOK
      <3>2. CASE r = p
        BY <1>0, <1>1, <2>1, <2>2, <3>2 DEF TypeOK
      <3>3. CASE q # p /\ r # p
        BY <1>0, <1>1, <2>2, <3>3 DEF TypeOK, IInv, OnePortPerInstance, Live
      <3> QED BY <3>1, <3>2, <3>3
    <2> QED BY <2>2 DEF OnePortPerInstance
  <1>7. ASSUME NEW q \in Ports, q # p PROVE Counts(q)' /\ Life(q)'
    <2>1. SamePort(q)
      <3>1. Holders(q)' = Holders(q)
        BY <1>0, <1>3, <1>7, SameUsers, Zenon DEF Using
      <3>2. Closers(q)' = Closers(q) /\ \A u \in Closers(q) : pc'[u] = pc[u]
        BY <1>0, <1>3, <1>7, SameEnders, Zenon DEF Ending
      <3>3. Mapped(q)' = Mapped(q)
        BY <1>0, <1>1, <1>2, <1>7, SameEntries, NoneIsNothing, Zenon
      <3> QED BY <1>0, <1>1, <1>7, <3>1, <3>2, <3>3 DEF SamePort, TypeOK
    <2> QED BY <2>1, SamePortKeeps DEF IInv
  <1>8. Counts(p)' /\ Life(p)'
    <2>1. Holders(p) = {} /\ Mapped(p) = {} /\ Closers(p) = {} /\ ~closing[p] /\ ~retired[p]
          /\ ~close_waiter[p]
      <3>1. refs[p] = 0 /\ aliases[p] = 0 /\ Closers(p) = {} /\ ~closing[p] /\ ~retired[p]
            /\ ~close_waiter[p]
        BY <1>1, Zenon DEF IInv, Life
      <3>2. Cardinality(Holders(p)) = 0 /\ Cardinality(Mapped(p)) = 0
        BY <3>1 DEF IInv, Counts
      <3> QED BY <3>1, <3>2, SetsFinite, Empty
    <2>2. Holders(p)' = {t}
      BY <1>3, <2>1, ThreadMoves
    <2>3. Closers(p)' = {}
      BY <1>0, <1>3, <2>1, SameEnders, Zenon DEF Using, Ending
    <2>4. Mapped(p)' = {f}
      <3>1. Mapped(p)' = Mapped(p) \cup {f}
        BY <1>0, <1>1, EntryMoves, Zenon
      <3> QED BY <2>1, <3>1
    <2>5. Counts(p)'
      BY <1>0, <1>1, <2>2, <2>4, FS_Singleton, Zenon DEF TypeOK, Counts
    <2>6. aliases'[p] = 1 /\ Live(p)' /\ ~closing'[p] /\ ~retired'[p] /\ ~close_waiter'[p]
      BY <1>0, <1>1, <2>1, NoneIsNothing DEF TypeOK, Live
    <2> QED BY <2>3, <2>5, <2>6 DEF Life
  <1> QED BY <1>4, <1>5, <1>6, <1>7, <1>8 DEF IInv

(* port_remove_epfd_locked: an alias goes, and with the last one the port  *)
(* begins to close, with the thread t to end it.                           *)
LEMMA RemoveAliasKeeps ==
  ASSUME IInv, NEW t \in Threads, NEW f \in Fds, NEW p \in Found(f), ~closing[p],
         pc[t] \in {"idle", "acquire"}, RemoveAlias(t, p, f),
         desc' \in [Fds -> Instances \cup {Other, None}], UNCHANGED <<fd, got>>
  PROVE  IInv'
  <1> DEFINE left == Aliases(p, f) - 1
  <1>1. /\ map' = [map EXCEPT ![f] = None]
        /\ aliases' = [aliases EXCEPT ![p] = left]
        /\ UNCHANGED <<instance, refs, retired, close_waiter, goal>>
        /\ TypeOK
    BY DEF RemoveAlias, IInv
  <1>2. \/ /\ left = 0
           /\ closing' = [closing EXCEPT ![p] = TRUE]
           /\ wake' = [wake EXCEPT ![p] = TRUE]
           /\ arg' = [arg EXCEPT ![t] = p]
           /\ pc' = [pc EXCEPT ![t] = "retire"]
        \/ /\ left # 0
           /\ pc' = [pc EXCEPT ![t] = Continue(t)]
           /\ UNCHANGED <<closing, wake, arg>>
    BY DEF RemoveAlias, Goto
  <1>3. p \in Ports /\ Live(p) /\ map[f] \in {p, None} /\ aliases[p] > 0 /\ Closers(p) = {}
        /\ ~retired[p] /\ ~close_waiter[p]
    <2>1. p \in Ports /\ Live(p) /\ map[f] \in {p, None} /\ aliases[p] > 0
      BY FoundPort
    <2> QED BY <2>1, Zenon DEF IInv, Life
  <1>4. left \in Nat /\ left = Cardinality(Mapped(p)')
    <2>0. aliases[p] \in Nat /\ aliases[p] = Cardinality(Mapped(p)) /\ IsFiniteSet(Mapped(p))
      BY <1>1, <1>3, SetsFinite DEF TypeOK, IInv, Counts
    <2>1. Mapped(p)' = Mapped(p) \ {f} /\ (f \in Mapped(p) <=> map[f] = p)
      <3>1. None # p /\ p \in Ports
        BY <1>3, NoneIsNothing, Zenon
      <3> QED BY <1>1, <3>1, EntryMoves, Zenon
    <2>2. CASE map[f] = p
      <3>1. Cardinality(Mapped(p) \ {f}) = Cardinality(Mapped(p)) - 1 /\ Cardinality(Mapped(p)) # 0
        BY <2>0, <2>1, <2>2, OneLess, Zenon
      <3> QED BY <2>0, <2>1, <2>2, <3>1 DEF Aliases
    <2>3. CASE map[f] # p
      <3>1. Mapped(p)' = Mapped(p)
        BY <2>1, <2>3
      <3> QED BY <2>0, <2>3, <3>1 DEF Aliases
    <2> QED BY <2>2, <2>3
  <1> HIDE DEF left
  <1>5. TypeOK'
    <2>1. map' \in [Fds -> Ports \cup {None}] /\ aliases' \in [Ports -> Nat]
      BY <1>1, <1>4, Zenon DEF TypeOK
    <2>2. closing' \in [Ports -> BOOLEAN] /\ wake' \in [Ports -> BOOLEAN]
      BY <1>1, <1>2, <1>3, Zenon DEF TypeOK
    <2>3. /\ pc' \in [Threads -> {"idle", "acquire"} \cup Using \cup Ending]
          /\ arg' \in [Threads -> Ports \cup {None}]
      <3>1. "retire" \in Ending /\ Continue(t) \in {"idle", "acquire"}
        BY DEF Ending, Continue
      <3> QED BY <1>1, <1>2, <1>3, <3>1 DEF TypeOK
    <2> QED BY <1>1, <2>1, <2>2, <2>3 DEF TypeOK
  <1>6. OnlyThread(t)
    BY <1>1, <1>2 DEF TypeOK, OnlyThread
  <1>7. \A u \in Threads : CallOK(u)'
    <2>1. /\ pc[t] = "idle" => goal[t] = "none"
          /\ pc[t] = "acquire" => goal[t] # "none"
          /\ goal[t] # "none" => fd[t] \in Fds
      BY DEF IInv, CallOK
    <2>2. CallOK(t)'
      <3>1. pc'[t] = IF left = 0 THEN "retire" ELSE Continue(t)
        BY <1>1, <1>2 DEF TypeOK
      <3>2. left = 0 => arg'[t] = p
        BY <1>1, <1>2 DEF TypeOK
      <3> QED BY <1>1, <1>3, <2>1, <3>1, <3>2 DEF CallOK, Continue, Using, Ending
    <2>3. ASSUME NEW u \in Threads \ {t} PROVE CallOK(u)'
      BY <1>1, <1>6, <2>3, Zenon DEF IInv, CallOK, OnlyThread
    <2> QED BY <2>2, <2>3, Zenon
  <1>8. OnePortPerInstance'
    BY <1>1, <1>2, SameInstances DEF IInv, TypeOK
  <1>9. ASSUME NEW q \in Ports, q # p PROVE Counts(q)' /\ Life(q)'
    <2>1. Holders(q)' = Holders(q)
      BY <1>1, <1>2, <1>6, <1>9, SameUsers, Zenon DEF TypeOK, Using, Continue
    <2>2. Closers(q)' = Closers(q) /\ \A u \in Closers(q) : pc'[u] = pc[u]
      <3>1. ~(arg[t] = q /\ pc[t] \in Ending)
        BY Zenon DEF Ending
      <3>2. ~(arg'[t] = q /\ pc'[t] \in Ending)
        BY <1>1, <1>2, <1>9, Zenon DEF TypeOK, Ending, Continue
      <3> QED BY <1>6, <1>9, <3>1, <3>2, SameEnders, Zenon
    <2>3. Mapped(q)' = Mapped(q)
      <3>1. None # q /\ map[f] # q
        BY <1>3, <1>9, NoneIsNothing, Zenon
      <3> QED BY <1>1, <3>1, SameEntries, Zenon
    <2>4. SamePort(q)
      BY <1>1, <1>2, <1>9, <2>1, <2>2, <2>3 DEF SamePort, TypeOK
    <2> QED BY <2>4, SamePortKeeps DEF IInv
  <1>10. Counts(p)' /\ Life(p)'
    <2>1. Holders(p)' = Holders(p)
      BY <1>1, <1>2, <1>3, <1>6, SameUsers, Zenon DEF TypeOK, Using, Continue
    <2>2. Counts(p)'
      BY <1>1, <1>3, <1>4, <2>1, Zenon DEF IInv, Counts, TypeOK
    <2>3. Live(p)' /\ ~retired'[p] /\ ~close_waiter'[p] /\ aliases'[p] = left
      BY <1>1, <1>3 DEF Live, TypeOK
    <2>4. CASE left = 0
      <3>1. Closers(p)' = {t} /\ closing'[p] /\ pc'[t] = "retire"
        <4>1. arg'[t] = p /\ pc'[t] = "retire" /\ closing'[p]
          BY <1>1, <1>2, <1>3, <2>4 DEF TypeOK
        <4>2. Closers(p)' = Closers(p) \cup {t}
          BY <1>3, <1>6, <4>1, ThreadMoves, Zenon DEF Ending
        <4> QED BY <1>3, <4>1, <4>2
      <3> QED BY <2>2, <2>3, <2>4, <3>1, Zenon DEF Life
    <2>5. CASE left # 0
      <3>1. Closers(p)' = {} /\ ~closing'[p]
        BY <1>1, <1>2, <1>3, <1>6, <2>5, SameEnders, Zenon DEF TypeOK, Ending, Continue
      <3>2. left > 0
        BY <1>4, <2>5
      <3> QED BY <2>2, <2>3, <3>1, <3>2, Zenon DEF Life
    <2> QED BY <2>4, <2>5
  <1> QED BY <1>5, <1>7, <1>8, <1>9, <1>10 DEF IInv

LEMMA AcquireStaleKeeps ==
  ASSUME IInv, NEW t \in Threads, AcquireStale(t)
  PROVE  IInv'
  <1>1. fd[t] \in Fds /\ pc[t] = "acquire" /\ UNCHANGED <<desc, fd, got>>
    BY DEF AcquireStale, IInv, CallOK
  <1>2. PICK p \in Found(fd[t]) : ~closing[p] /\ RemoveAlias(t, p, fd[t])
    BY DEF AcquireStale
  <1>3. desc' \in [Fds -> Instances \cup {Other, None}]
    BY <1>1 DEF IInv, TypeOK
  <1> QED BY <1>1, <1>2, <1>3, RemoveAliasKeeps

LEMMA CloseKnownKeeps ==
  ASSUME IInv, NEW t \in Threads, NEW f \in Fds, CloseKnown(t, f)
  PROVE  IInv'
  <1>1. pc[t] = "idle" /\ UNCHANGED <<fd, got>>
    BY DEF CloseKnown
  <1>2. PICK p \in Found(f) : /\ ~closing[p] /\ RemoveAlias(t, p, f)
                             /\ desc' = [desc EXCEPT ![f] = IF Identity(p, f) = 0 THEN None ELSE @]
    BY Zenon DEF CloseKnown
  <1>3. desc' \in [Fds -> Instances \cup {Other, None}]
    BY <1>2 DEF IInv, TypeOK
  <1> QED BY <1>1, <1>2, <1>3, RemoveAliasKeeps, Zenon

(* port_release: one user less; the last one frees an orphaned port, and   *)
(* moves a sleeping close waiter.                                          *)
LEMMA ReleaseKeeps ==
  ASSUME IInv, NEW t \in Threads, pc[t] \in Using, Release(t)
  PROVE  IInv'
  <1>0. PICK p \in Ports : p = arg[t]
    BY DEF IInv, CallOK
  <1>1. /\ p \in Ports /\ TypeOK /\ Counts(p) /\ Life(p) /\ CallOK(t)
        /\ UNCHANGED <<desc, map, instance, aliases, closing, close_waiter, wake, fd, goal>>
        /\ refs' = [refs EXCEPT ![p] = @ - 1]
        /\ retired' = [retired EXCEPT ![p] = @ /\ ~Orphaned(p)]
        /\ arg' = [arg EXCEPT ![t] = IF Orphaned(p) THEN p ELSE None]
        /\ got' = [got EXCEPT ![t] = "none"]
    BY <1>0, Zenon DEF IInv, Release
  <1>2. pc' = [q \in Threads |->
                IF q = t THEN IF Orphaned(p) THEN "free" ELSE "idle"
                ELSE IF Signals(p) /\ pc[q] = "sleep" /\ arg[q] = p THEN "check refs"
                ELSE pc[q]]
    BY <1>0, Zenon DEF Release
  <1>3. t \in Holders(p) /\ t \notin Closers(p)
    BY <1>0, Zenon DEF Holders, Closers, Using
  <1>4. refs[p] \in Nat \ {0} /\ Live(p)
    <2>1. Cardinality(Holders(p)) # 0
      BY <1>1, <1>3, SetsFinite, Empty, Zenon
    <2> QED BY <1>1, <2>1, Zenon DEF TypeOK, Counts, Life
  <1>5. TypeOK'
    <2>1. refs' \in [Ports -> Nat] /\ retired' \in [Ports -> BOOLEAN]
      BY <1>1, <1>4 DEF TypeOK, Orphaned
    <2>2. arg' \in [Threads -> Ports \cup {None}] /\ got' \in [Threads -> {"none", "user", "wake"}]
      BY <1>1 DEF TypeOK
    <2>3. pc' \in [Threads -> {"idle", "acquire"} \cup Using \cup Ending]
      BY <1>1, <1>2, Zenon DEF TypeOK, Ending
    <2> QED BY <1>1, <2>1, <2>2, <2>3 DEF TypeOK
  <1>6. \A u \in Threads : CallOK(u)'
    <2>1. CallOK(t)'
      <3>1. pc'[t] = (IF Orphaned(p) THEN "free" ELSE "idle") /\ (Orphaned(p) => arg'[t] = p)
        BY <1>1, <1>2, Zenon DEF TypeOK
      <3> QED BY <1>1, <3>1, Zenon DEF CallOK, Using, Ending
    <2>2. ASSUME NEW u \in Threads \ {t} PROVE CallOK(u)'
      <3>1. /\ arg'[u] = arg[u] /\ fd'[u] = fd[u] /\ goal'[u] = goal[u]
            /\ pc'[u] = pc[u] \/ (pc[u] = "sleep" /\ pc'[u] = "check refs")
        BY <1>1, <1>2, Zenon DEF TypeOK
      <3> QED BY <3>1, Zenon DEF IInv, CallOK, Using, Ending
    <2> QED BY <2>1, <2>2
  <1>7. OnePortPerInstance'
    BY <1>1, SameInstances DEF IInv
  <1>8. \A u \in Threads \ {t} :
          /\ arg'[u] = arg[u]
          /\ pc'[u] = pc[u] \/ (arg[u] = p /\ pc[u] = "sleep" /\ pc'[u] = "check refs")
    BY <1>1, <1>2, Zenon DEF TypeOK
  <1>9. pc'[t] = (IF Orphaned(p) THEN "free" ELSE "idle")
        /\ arg'[t] = (IF Orphaned(p) THEN p ELSE None)
    BY <1>1, <1>2, Zenon DEF TypeOK
  <1>10. ASSUME NEW q \in Ports, q # p PROVE Counts(q)' /\ Life(q)'
    <2>1. Holders(q)' = Holders(q)
      BY <1>0, <1>8, <1>9, <1>10, NoneIsNothing, Zenon DEF Holders
    <2>2. Closers(q)' = Closers(q) /\ \A u \in Closers(q) : pc'[u] = pc[u]
      BY <1>0, <1>8, <1>9, <1>10, NoneIsNothing, Zenon DEF Closers
    <2>3. SamePort(q)
      BY <1>1, <1>10, <2>1, <2>2, Zenon DEF SamePort, Mapped, TypeOK
    <2> QED BY <2>3, SamePortKeeps DEF IInv
  <1>11. Counts(p)'
    <2>1. Holders(p)' = Holders(p) \ {t}
      BY <1>1, <1>8, <1>9, Zenon DEF Holders
    <2>2. Cardinality(Holders(p) \ {t}) = Cardinality(Holders(p)) - 1
      BY <1>1, <1>3, SetsFinite, OneLess
    <2> QED BY <1>1, <1>4, <2>1, <2>2 DEF Counts, Mapped, TypeOK
  <1>12. Life(p)'
    <2>1. Closers(p)' = IF Orphaned(p) THEN Closers(p) \cup {t} ELSE Closers(p)
      BY <1>0, <1>1, <1>3, <1>8, <1>9, NoneIsNothing, Zenon DEF Closers
    <2>2. \A u \in Closers(p) : pc'[u] = pc[u] \/ (pc[u] = "sleep" /\ pc'[u] = "check refs")
      BY <1>3, <1>8, Zenon DEF Closers
    <2>3. /\ refs'[p] = refs[p] - 1 /\ aliases'[p] = aliases[p] /\ Live(p)'
          /\ closing'[p] = closing[p] /\ close_waiter'[p] = close_waiter[p]
          /\ retired'[p] = (retired[p] /\ ~Orphaned(p))
      BY <1>1, <1>4 DEF TypeOK, Live
    <2>4. CASE Orphaned(p)
      <3>1. retired[p] /\ aliases[p] = 0 /\ refs[p] = 1 /\ ~close_waiter[p]
        BY <2>4 DEF Orphaned
      <3>2. Closers(p) = {} /\ closing[p]
        <4>1. \A u \in Closers(p) : pc[u] \in Ending
          BY Zenon DEF Closers, Ending
        <4> QED BY <1>1, <1>4, <3>1, <4>1, Zenon DEF Life, Ending
      <3>3. Closers(p)' = {t} /\ pc'[t] = "free"
        BY <1>9, <2>1, <2>4, <3>2
      <3>4. refs'[p] = 0 /\ aliases'[p] = 0
        BY <2>3, <3>1
      <3>5. closing'[p] /\ ~retired'[p] /\ ~close_waiter'[p]
        BY <2>3, <2>4, <3>1, <3>2, Zenon
      <3> QED BY <2>3, <3>3, <3>4, <3>5, Zenon DEF Life
    <2>5. CASE ~Orphaned(p)
      <3>1. \A u \in Closers(p) : pc[u] # "free"
        BY <1>1, <1>4, Zenon DEF Life
      <3>2. retired[p] /\ aliases[p] = 0 /\ ~close_waiter[p] => refs[p] # 1
        BY <2>5, Zenon DEF Orphaned
      <3>3. retired'[p] = retired[p] /\ Closers(p)' = Closers(p)
        BY <1>1, <2>1, <2>3, <2>5 DEF TypeOK
      <3>4. closing[p] /\ Closers(p) = {} => retired[p] /\ ~close_waiter[p] /\ refs[p] - 1 > 0
        <4>1. closing[p] /\ Closers(p) = {} => retired[p] /\ ~close_waiter[p] /\ aliases[p] = 0
          BY <1>1, Zenon DEF Life
        <4> QED BY <1>4, <3>2, <4>1
      <3>5. \A u \in Closers(p)' :
              /\ pc'[u] = "retire" => ~retired'[p] /\ ~close_waiter'[p]
              /\ pc'[u] \in {"check refs", "sleep"} => retired'[p] /\ close_waiter'[p]
              /\ pc'[u] # "free"
        BY <1>1, <2>2, <2>3, <3>1, <3>3, Zenon DEF Life
      <3> QED BY <1>1, <1>4, <2>3, <3>3, <3>4, <3>5, Zenon DEF Life
    <2> QED BY <2>4, <2>5
  <1> QED BY <1>5, <1>6, <1>7, <1>10, <1>11, <1>12, Zenon DEF IInv

(* The steps of the thread that ends a port: it goes on as the only one.   *)
LEMMA EnderFacts ==
  ASSUME IInv, NEW t \in Threads, pc[t] \in Ending
  PROVE  /\ arg[t] \in Ports /\ Live(arg[t]) /\ closing[arg[t]]
         /\ Closers(arg[t]) = {t} /\ aliases[arg[t]] = 0
         /\ TypeOK /\ Counts(arg[t]) /\ Life(arg[t]) /\ CallOK(t)
  <1>1. arg[t] \in Ports /\ TypeOK /\ Counts(arg[t]) /\ Life(arg[t]) /\ CallOK(t)
    BY DEF IInv, CallOK
  <1>2. t \in Closers(arg[t])
    BY Zenon DEF Closers, Ending
  <1>3. Live(arg[t]) /\ closing[arg[t]]
    BY <1>1, <1>2, Zenon DEF Life
  <1>4. Closers(arg[t]) = {t} /\ aliases[arg[t]] = 0
    BY <1>1, <1>2, <1>3, Zenon DEF Life
  <1> QED BY <1>1, <1>3, <1>4, Zenon

LEMMA RetireKeeps ==
  ASSUME IInv, NEW t \in Threads, Retire(t)
  PROVE  IInv'
  <1>1. pc[t] = "retire"
    BY Zenon DEF Retire
  <1>2. PICK p \in Ports : p = arg[t]
    BY <1>1, EnderFacts, Zenon DEF Ending
  <1>3. /\ Live(p) /\ closing[p] /\ Closers(p) = {t} /\ aliases[p] = 0
        /\ TypeOK /\ Counts(p) /\ Life(p) /\ CallOK(t)
    BY <1>1, <1>2, EnderFacts, Zenon DEF Ending
  <1>4. /\ retired' = [retired EXCEPT ![p] = TRUE]
        /\ close_waiter' = [close_waiter EXCEPT ![p] = TRUE]
        /\ pc' = [pc EXCEPT ![t] = "check refs"]
        /\ UNCHANGED <<desc, map, instance, refs, aliases, closing, wake, arg, fd, goal, got>>
    BY <1>2, Zenon DEF Retire, Goto
  <1>5. TypeOK' /\ OnlyThread(t) /\ pc'[t] = "check refs" /\ arg'[t] = p
    BY <1>2, <1>3, <1>4, Zenon DEF TypeOK, OnlyThread, Ending
  <1>6. \A u \in Threads : CallOK(u)'
    BY <1>2, <1>3, <1>4, Zenon DEF IInv, TypeOK, CallOK, Using, Ending
  <1>7. OnePortPerInstance'
    BY <1>4, SameInstances, Zenon DEF IInv
  <1>8. ASSUME NEW q \in Ports, q # p PROVE Counts(q)' /\ Life(q)'
    <2>1. Holders(q)' = Holders(q)
      BY <1>2, <1>5, <1>8, SameUsers, Zenon
    <2>2. Closers(q)' = Closers(q) /\ \A u \in Closers(q) : pc'[u] = pc[u]
      BY <1>2, <1>5, <1>8, SameEnders, Zenon
    <2>3. SamePort(q)
      BY <1>3, <1>4, <1>8, <2>1, <2>2, Zenon DEF SamePort, Mapped, TypeOK
    <2> QED BY <2>3, SamePortKeeps DEF IInv
  <1>9. Counts(p)' /\ Life(p)'
    <2>1. Holders(p)' = Holders(p)
      BY <1>1, <1>2, <1>5, SameUsers, Zenon DEF Using
    <2>2. Closers(p)' = {t}
      <3>1. Closers(p)' = Closers(p) \cup {t}
        BY <1>5, ThreadMoves, Zenon DEF Ending
      <3> QED BY <1>3, <3>1
    <2>3. Counts(p)'
      BY <1>3, <1>4, <2>1, Zenon DEF Counts, Mapped
    <2>4. Live(p)' /\ closing'[p] /\ aliases'[p] = 0 /\ retired'[p] /\ close_waiter'[p]
      BY <1>3, <1>4, Zenon DEF Live, TypeOK
    <2> QED BY <1>5, <2>2, <2>3, <2>4, Zenon DEF Life
  <1> QED BY <1>5, <1>6, <1>7, <1>8, <1>9, Zenon DEF IInv

(* port_wait_and_free looks at the users, and frees the port or sleeps. *)
LEMMA CheckRefsKeeps ==
  ASSUME IInv, NEW t \in Threads, CheckRefs(t)
  PROVE  IInv'
  <1>1. pc[t] = "check refs"
    BY Zenon DEF CheckRefs
  <1>2. PICK p \in Ports : p = arg[t]
    BY <1>1, EnderFacts, Zenon DEF Ending
  <1>3. /\ Live(p) /\ closing[p] /\ Closers(p) = {t} /\ aliases[p] = 0
        /\ TypeOK /\ Counts(p) /\ Life(p) /\ CallOK(t)
    BY <1>1, <1>2, EnderFacts, Zenon DEF Ending
  <1>4. /\ \/ /\ refs[p] = 0
              /\ close_waiter' = [close_waiter EXCEPT ![p] = FALSE]
              /\ retired' = [retired EXCEPT ![p] = FALSE]
              /\ pc' = [pc EXCEPT ![t] = "free"]
           \/ pc' = [pc EXCEPT ![t] = "sleep"] /\ UNCHANGED <<close_waiter, retired>>
        /\ UNCHANGED <<desc, map, instance, refs, aliases, closing, wake, arg, fd, goal, got>>
    BY <1>2, Zenon DEF CheckRefs, Unreferenced, Goto
  <1>5. TypeOK'
    BY <1>3, <1>4, Zenon DEF TypeOK, Ending
  <1>6. OnlyThread(t) /\ pc'[t] \in {"free", "sleep"} /\ arg'[t] = p
    BY <1>2, <1>3, <1>4 DEF TypeOK, OnlyThread
  <1>7. \A u \in Threads : CallOK(u)'
    BY <1>2, <1>3, <1>4, <1>6, Zenon DEF IInv, OnlyThread, CallOK, Using, Ending
  <1>8. OnePortPerInstance'
    BY <1>4, SameInstances DEF IInv
  <1>9. ASSUME NEW q \in Ports, q # p PROVE Counts(q)' /\ Life(q)'
    <2>1. Holders(q)' = Holders(q)
      BY <1>2, <1>6, <1>9, SameUsers, Zenon
    <2>2. Closers(q)' = Closers(q) /\ \A u \in Closers(q) : pc'[u] = pc[u]
      BY <1>2, <1>6, <1>9, SameEnders, Zenon
    <2>3. SamePort(q)
      BY <1>3, <1>4, <1>9, <2>1, <2>2 DEF SamePort, Mapped, TypeOK
    <2> QED BY <2>3, SamePortKeeps DEF IInv
  <1>10. Counts(p)' /\ Life(p)'
    <2>1. Holders(p)' = Holders(p)
      BY <1>1, <1>2, <1>6, SameUsers, Zenon DEF Using
    <2>2. Closers(p)' = {t}
      <3>1. Closers(p)' = Closers(p) \cup {t}
        BY <1>6, ThreadMoves, Zenon DEF Ending
      <3> QED BY <1>3, <3>1
    <2>3. Counts(p)'
      BY <1>3, <1>4, <2>1 DEF Counts, Mapped
    <2>4. Live(p)' /\ closing'[p] /\ aliases'[p] = 0
      BY <1>3, <1>4, Zenon DEF Live
    <2>5. retired[p] /\ close_waiter[p]
      BY <1>1, <1>3, Zenon DEF Life
    <2>6. \/ pc'[t] = "free" /\ refs'[p] = 0 /\ ~retired'[p] /\ ~close_waiter'[p]
          \/ pc'[t] = "sleep" /\ retired'[p] /\ close_waiter'[p]
      BY <1>3, <1>4, <2>5 DEF TypeOK
    <2> QED BY <2>2, <2>3, <2>4, <2>6, Zenon DEF Life
  <1> QED BY <1>5, <1>7, <1>8, <1>9, <1>10 DEF IInv

(* The closing thread is cancelled: it frees the port, or leaves it to its *)
(* last user.                                                              *)
LEMMA CancelCloseKeeps ==
  ASSUME IInv, NEW t \in Threads, CancelClose(t)
  PROVE  IInv'
  <1>1. pc[t] = "sleep"
    BY DEF CancelClose
  <1>2. PICK p \in Ports : p = arg[t]
    BY <1>1, EnderFacts, Zenon DEF Ending
  <1>3. /\ Live(p) /\ closing[p] /\ Closers(p) = {t} /\ aliases[p] = 0
        /\ TypeOK /\ Counts(p) /\ Life(p) /\ CallOK(t)
    BY <1>1, <1>2, EnderFacts, Zenon DEF Ending
  <1>4. /\ close_waiter' = [close_waiter EXCEPT ![p] = FALSE]
        /\ retired' = [retired EXCEPT ![p] = refs[p] # 0]
        /\ arg' = [arg EXCEPT ![t] = IF refs[p] = 0 THEN p ELSE None]
        /\ fd' = [fd EXCEPT ![t] = None]
        /\ goal' = [goal EXCEPT ![t] = "none"]
        /\ pc' = [pc EXCEPT ![t] = IF refs[p] = 0 THEN "free" ELSE "idle"]
        /\ UNCHANGED <<desc, map, instance, refs, aliases, closing, wake, got>>
    BY <1>2 DEF CancelClose, Goto
  <1>5. TypeOK'
    BY <1>3, <1>4, Zenon DEF TypeOK, Ending
  <1>6. OnlyThread(t) /\ pc'[t] = (IF refs[p] = 0 THEN "free" ELSE "idle")
        /\ arg'[t] = (IF refs[p] = 0 THEN p ELSE None)
    BY <1>3, <1>4 DEF TypeOK, OnlyThread
  <1>7. \A u \in Threads : CallOK(u)'
    <2>1. goal'[t] = "none"
      BY <1>3, <1>4 DEF TypeOK
    <2>2. CallOK(t)'
      BY <1>6, <2>1, Zenon DEF CallOK, Using, Ending
    <2>3. ASSUME NEW u \in Threads \ {t} PROVE CallOK(u)'
      BY <1>3, <1>4, <1>6 DEF IInv, TypeOK, OnlyThread, CallOK
    <2> QED BY <2>2, <2>3
  <1>8. OnePortPerInstance'
    BY <1>4, SameInstances, Zenon DEF IInv
  <1>9. ASSUME NEW q \in Ports, q # p PROVE Counts(q)' /\ Life(q)'
    <2>1. Holders(q)' = Holders(q)
      BY <1>2, <1>6, <1>9, SameUsers, NoneIsNothing
    <2>2. Closers(q)' = Closers(q) /\ \A u \in Closers(q) : pc'[u] = pc[u]
      BY <1>2, <1>6, <1>9, SameEnders, NoneIsNothing, Zenon
    <2>3. SamePort(q)
      BY <1>3, <1>4, <1>9, <2>1, <2>2 DEF SamePort, Mapped, TypeOK
    <2> QED BY <2>3, SamePortKeeps DEF IInv
  <1>10. Counts(p)' /\ Life(p)'
    <2>1. Holders(p)' = Holders(p)
      BY <1>1, <1>2, <1>6, SameUsers, Zenon DEF Using
    <2>2. Counts(p)'
      BY <1>3, <1>4, <2>1, Zenon DEF Counts, Mapped
    <2>3. /\ Live(p)' /\ closing'[p] /\ aliases'[p] = 0 /\ ~close_waiter'[p] /\ refs'[p] = refs[p]
          /\ retired'[p] = (refs[p] # 0)
      BY <1>3, <1>4 DEF Live, TypeOK
    <2>4. CASE refs[p] = 0
      <3>1. Closers(p)' = {t}
        <4>1. Closers(p)' = Closers(p) \cup {t}
          BY <1>6, <2>4, ThreadMoves, Zenon DEF Ending
        <4> QED BY <1>3, <4>1
      <3> QED BY <1>6, <2>2, <2>3, <2>4, <3>1, Zenon DEF Life
    <2>5. CASE refs[p] # 0
      <3>1. Closers(p)' = {}
        <4>1. Closers(p)' = Closers(p) \ {t}
          BY <1>6, <2>5, ThreadMoves, Zenon DEF Ending
        <4> QED BY <1>3, <4>1
      <3>2. refs[p] > 0
        BY <1>3, <2>5 DEF TypeOK
      <3> QED BY <2>2, <2>3, <2>5, <3>1, <3>2, Zenon DEF Life
    <2> QED BY <2>4, <2>5
  <1> QED BY <1>5, <1>7, <1>8, <1>9, <1>10 DEF IInv

(* port_free: the address may be allocated again. *)
LEMMA FreeKeeps ==
  ASSUME IInv, NEW t \in Threads, Free(t)
  PROVE  IInv'
  <1>1. pc[t] = "free"
    BY DEF Free
  <1>2. PICK p \in Ports : p = arg[t]
    BY <1>1, EnderFacts, Zenon DEF Ending
  <1>3. /\ Live(p) /\ closing[p] /\ Closers(p) = {t} /\ aliases[p] = 0
        /\ TypeOK /\ Counts(p) /\ Life(p) /\ CallOK(t)
    BY <1>1, <1>2, EnderFacts, Zenon DEF Ending
  <1>4. /\ instance' = [instance EXCEPT ![p] = None]
        /\ closing' = [closing EXCEPT ![p] = FALSE] /\ wake' = [wake EXCEPT ![p] = FALSE]
        /\ arg' = [arg EXCEPT ![t] = None]
        /\ pc' = [pc EXCEPT ![t] = Continue(t)]
        /\ UNCHANGED <<desc, map, refs, aliases, retired, close_waiter, fd, goal, got>>
    BY <1>2 DEF Free, Goto
  <1>5. Continue(t) \in {"idle", "acquire"}
    BY Zenon DEF Continue
  <1>6. TypeOK'
    BY <1>3, <1>4, <1>5, Zenon DEF TypeOK
  <1>7. OnlyThread(t) /\ pc'[t] = Continue(t) /\ arg'[t] = None
    BY <1>3, <1>4 DEF TypeOK, OnlyThread
  <1>8. \A u \in Threads : CallOK(u)'
    <2>1. CallOK(t)'
      <3>1. goal'[t] = goal[t] /\ (goal[t] # "none" => fd'[t] \in Fds)
        BY <1>3, <1>4, Zenon DEF CallOK
      <3>2. CASE goal[t] = "none"
        BY <1>7, <3>1, <3>2 DEF CallOK, Continue, Using, Ending
      <3>3. CASE goal[t] # "none"
        BY <1>7, <3>1, <3>3, Zenon DEF CallOK, Continue, Using, Ending
      <3> QED BY <3>2, <3>3, Zenon
    <2>2. ASSUME NEW u \in Threads \ {t} PROVE CallOK(u)'
      BY <1>4, <1>7, Zenon DEF IInv, OnlyThread, CallOK
    <2> QED BY <2>1, <2>2
  <1>9. OnePortPerInstance'
    <2>1. ASSUME NEW q \in Ports, NEW r \in Ports, q # r, Live(q)', instance'[q] = instance'[r]
          PROVE  closing'[q] \/ closing'[r]
      <3>1. q # p /\ r # p
        BY <1>3, <1>4, <2>1, Zenon DEF TypeOK, Live
      <3> QED BY <1>3, <1>4, <2>1, <3>1, Zenon DEF TypeOK, Live, IInv, OnePortPerInstance
    <2> QED BY <2>1, Zenon DEF OnePortPerInstance
  <1>10. ASSUME NEW q \in Ports, q # p PROVE Counts(q)' /\ Life(q)'
    <2>1. Holders(q)' = Holders(q)
      BY <1>2, <1>7, <1>10, SameUsers, NoneIsNothing, Zenon
    <2>2. Closers(q)' = Closers(q) /\ \A u \in Closers(q) : pc'[u] = pc[u]
      BY <1>2, <1>7, <1>10, SameEnders, NoneIsNothing, Zenon
    <2>3. SamePort(q)
      BY <1>3, <1>4, <1>10, <2>1, <2>2 DEF SamePort, Mapped, TypeOK
    <2> QED BY <2>3, SamePortKeeps DEF IInv
  <1>11. Counts(p)' /\ Life(p)'
    <2>1. Holders(p)' = Holders(p)
      BY <1>1, <1>7, SameUsers, NoneIsNothing, Zenon DEF Using
    <2>2. Counts(p)'
      BY <1>3, <1>4, <2>1, Zenon DEF Counts, Mapped
    <2>3. Closers(p)' = {}
      <3>1. Closers(p)' = Closers(p) \ {t}
        BY <1>7, NoneIsNothing, ThreadMoves
      <3> QED BY <1>3, <3>1
    <2>4. refs[p] = 0 /\ ~retired[p] /\ ~close_waiter[p]
      BY <1>1, <1>3, Zenon DEF Life
    <2>5. ~Live(p)' /\ ~closing'[p] /\ refs'[p] = 0 /\ aliases'[p] = 0
          /\ ~retired'[p] /\ ~close_waiter'[p]
      BY <1>3, <1>4, <2>4 DEF TypeOK, Live
    <2> QED BY <2>2, <2>3, <2>5, Zenon DEF Life
  <1> QED BY <1>6, <1>8, <1>9, <1>10, <1>11 DEF IInv

----------------------------------------------------------------------------
LEMMA NextIInv == IInv /\ [Next]_vars => IInv'
  <1> SUFFICES ASSUME IInv, [Next]_vars PROVE IInv'
    OBVIOUS
  <1>1. CASE UNCHANGED vars
    <2>1. TypeOK' /\ \A t \in Threads : CallOK(t)'
      BY <1>1 DEF IInv, vars, ports, TypeOK, CallOK
    <2>2. OnePortPerInstance'
      BY <1>1, SameInstances DEF IInv, vars, ports
    <2>3. ASSUME NEW p \in Ports PROVE Counts(p)' /\ Life(p)'
      <3>1. SamePort(p)
        BY <1>1 DEF SamePort, Holders, Closers, Mapped, vars, ports
      <3> QED BY <3>1, SamePortKeeps, Zenon DEF IInv
    <2> QED BY <2>1, <2>2, <2>3, Zenon DEF IInv
  <1>2. ASSUME NEW f \in Fds, NEW d \in Instances \cup {Other, None}, Native(f, d)
        PROVE  IInv'
    BY <1>2, NativeKeeps, Zenon DEF Native
  <1>3. ASSUME NEW t \in Threads, NEW f \in Fds, CloseUnknown(t, f) PROVE IInv'
    BY <1>3, NativeKeeps, Zenon DEF CloseUnknown
  <1>4. ASSUME NEW t \in Threads, NEW f \in Fds,
               Call(t, f, "use") \/ Call(t, f, "wait") \/ CloseKnown(t, f)
        PROVE  IInv'
    BY <1>4, CallKeeps, CloseKnownKeeps
  <1>5. ASSUME NEW t \in Threads, EndCall(t) \/ CancelWait(t) PROVE IInv'
    BY <1>5, ReleaseKeeps, Zenon DEF EndCall, CancelWait, Using
  <1>6. ASSUME NEW t \in Threads,
               Running(t) \/ NativeWait(t, "user") \/ CancelWait(t) \/ CancelClose(t)
        PROVE  IInv'
    BY <1>5, <1>6, AcquireKnownKeeps, AcquireStaleKeeps, AcquireFailsKeeps, AcquireNewKeeps,
       WaitKeeps, RetireKeeps, CheckRefsKeeps, FreeKeeps, CancelCloseKeeps DEF Running
  <1> QED BY <1>1, <1>2, <1>3, <1>4, <1>6 DEF Next

(* The counters of posix_port_t are exact, and a port is unallocated, open *)
(* under some descriptor, or closing with someone left to free it.         *)
THEOREM PortLife == Spec => []IInv
  BY InitIInv, NextIInv, PTL DEF Spec

(* No call works on a port that was freed, and a port is freed once, by    *)
(* one thread, when no call uses it and no descriptor leads to it, also if *)
(* a waiting or the closing thread is cancelled (port_release,             *)
(* port_wait_and_free, posix_close_wait_cancel_cleanup).                   *)
THEOREM FreedOnceUnused == Spec => []NoUseAfterFree
  <1>1. IInv => NoUseAfterFree
    <2> SUFFICES ASSUME IInv, NEW p \in Ports
                 PROVE  /\ Holders(p) # {} \/ Closers(p) # {} => Live(p)
                        /\ Cardinality(Closers(p)) <= 1
                        /\ \A t \in Closers(p) : pc[t] = "free" =>
                              Holders(p) = {} /\ \A f \in Fds : map[f] # p
      BY DEF NoUseAfterFree
    <2>1. Counts(p) /\ Life(p)
      BY DEF IInv
    <2>2. (refs[p] = 0 => Holders(p) = {}) /\ (aliases[p] = 0 => Mapped(p) = {})
      BY <2>1, SetsFinite, Empty DEF Counts
    <2>3. Holders(p) # {} \/ Closers(p) # {} => Live(p)
      BY <2>1, <2>2, Zenon DEF Life
    <2>4. Cardinality(Closers(p)) <= 1
      <3>1. CASE Closers(p) = {}
        BY <3>1, FS_EmptySet
      <3>2. ASSUME NEW t \in Closers(p) PROVE Cardinality(Closers(p)) <= 1
        <4>1. Closers(p) = {t}
          BY <2>1, <3>2, Zenon DEF Life
        <4>2. Cardinality({t}) = 1
          BY FS_Singleton
        <4> QED BY <4>1, <4>2
      <3> QED BY <3>1, <3>2
    <2>5. ASSUME NEW t \in Closers(p), pc[t] = "free"
          PROVE  Holders(p) = {} /\ \A f \in Fds : map[f] # p
      <3>1. refs[p] = 0 /\ aliases[p] = 0
        BY <2>1, <2>5, Zenon DEF Life
      <3> QED BY <2>2, <3>1 DEF Mapped
    <2> QED BY <2>3, <2>4, <2>5
  <1> QED BY <1>1, PortLife, PTL

(* Two open ports never serve one epoll instance, however it is duplicated *)
(* and under whatever integers it is known (port_lookup_alias_locked).     *)
THEOREM InstanceServedOnce == Spec => []OnePortPerInstance
  <1>1. IInv => OnePortPerInstance
    BY DEF IInv
  <1> QED BY <1>1, PortLife, PTL

(* No call of the library that changes the registry closes a descriptor    *)
(* that took over a tracked integer (wepoll_close, port_identity_check).   *)
THEOREM ReplacementNeverClosed == Spec => ReplacementSurvives
  <1>1. ASSUME IInv, [Next]_vars
        PROVE  [\A f \in Fds : map[f] # None /\ desc[f] # instance[map[f]] /\ map' # map
                                => desc'[f] = desc[f]]_vars
    <2>1. SUFFICES ASSUME Next, map' # map, NEW f \in Fds, map[f] # None,
                          desc[f] # instance[map[f]]
                   PROVE  desc'[f] = desc[f]
      BY <1>1
    <2>2. \/ desc' = desc
          \/ \E t \in Threads, g \in Fds : CloseKnown(t, g)
      BY <2>1, Zenon DEF Next, Native, Call, CloseUnknown, Running, AcquireKnown, AcquireStale, AcquireFails,
                  AcquireNew, NativeWait, CheckClosing, Decorate, EndCall, Release, Retire, CheckRefs,
                  Free, CancelWait, CancelClose
    <2>3. ASSUME NEW t \in Threads, NEW g \in Fds, CloseKnown(t, g) PROVE desc'[f] = desc[f]
      <3>1. PICK p \in Found(g) :
              desc' = [desc EXCEPT ![g] = IF Identity(p, g) = 0 THEN None ELSE @]
        BY <2>3, Zenon DEF CloseKnown
      <3>2. CASE f = g
        <4>1. p = map[g]
          BY <2>1, <3>2 DEF Found
        <4> QED BY <1>1, <2>1, <3>1, <3>2, <4>1 DEF IInv, TypeOK, Identity
      <3>3. CASE f # g
        BY <1>1, <3>1, <3>3 DEF IInv, TypeOK
      <3> QED BY <3>2, <3>3, Zenon
    <2> QED BY <2>2, <2>3
  <1> QED BY <1>1, PortLife, PTL DEF Spec, ReplacementSurvives
=============================================================================
