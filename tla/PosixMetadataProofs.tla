------------------------ MODULE PosixMetadataProofs ------------------------
(***************************************************************************)
(* Proofs about PosixMetadata, for any descriptors, open file              *)
(* descriptions, fingerprints, waiters and number of nodes.                *)
(***************************************************************************)
EXTENDS PosixMetadata, FiniteSetTheorems, SequenceTheorems, TLAPS

Node == [fd : Fds, print : {Fingerprint[o] : o \in Files}, data : Data, ctx : Contexts]

TypeOK ==
    /\ file \in [Fds -> Files \cup {None}]
    /\ interest \in [Keys -> Entry \cup {None}]
    /\ nodes \in Seq(Node)
    /\ ctl \in Control \cup {None}
    /\ wpc \in [Waiters -> {"idle", "wait", "decorate", "returned"}]
    /\ event \in [Waiters -> Entry \cup {None}]
    /\ given = [w \in Waiters |-> given[w]]
    /\ stable \in [Waiters -> BOOLEAN]
    /\ undone \in [Waiters -> BOOLEAN]

(* A node for a descriptor and description, and one that says an entry *)
Fits(n, f, o) == n.fd = f /\ n.print = Fingerprint[o]
Says(n, e) == n.data = e.data /\ n.ctx = e.ctx

(* The registration whose nodes the control operation under way is about   *)
(* to change                                                               *)
Busy(f, o) == ctl # None /\ ctl.fd = f /\ file[f] = o
Settled(f, o) == interest[<<f, o>>] # None /\ ~Busy(f, o)

(* Every other registration has its node. *)
Followed(f, o) ==
    \E i \in DOMAIN nodes : Fits(nodes[i], f, o) /\ Says(nodes[i], interest[<<f, o>>])
Synced == \A f \in Fds, o \in Files : Settled(f, o) => Followed(f, o)

(* Two descriptions with one fingerprint, registered under one descriptor, *)
(* have two nodes: only so does an unambiguous node belong to one of them. *)
Doubled(f, o) ==
    \E i, j \in DOMAIN nodes : i # j /\ Fits(nodes[i], f, o) /\ Fits(nodes[j], f, o)
Separate ==
    \A f \in Fds, o, q \in Files :
        o # q /\ Fingerprint[o] = Fingerprint[q] /\ Settled(f, o) /\ Settled(f, q) => Doubled(f, o)

(* The node that the operation will replace or remove, and no other *)
Target(i) == Fits(nodes[i], ctl.fd, file[ctl.fd])
Sole ==
    /\ \E i \in DOMAIN nodes : Target(i)
    /\ \A i, j \in DOMAIN nodes : Target(i) /\ Target(j) => i = j
    /\ \A o \in Files : o # file[ctl.fd] /\ Fingerprint[o] = Fingerprint[file[ctl.fd]]
                        => interest[<<ctl.fd, o>>] = None
UnderWay ==
    ctl # None =>
        /\ file[ctl.fd] # None
        /\ interest[<<ctl.fd, file[ctl.fd]>>] = ctl.entry
        /\ ctl.op = "DEL" <=> ctl.entry = None
        /\ ctl.op # "ADD" => Sole

(* An event that a wait trusts agrees with a node, or will when the        *)
(* operation under way has ended; then the generation tells.               *)
Known(w) ==
    \/ \E i \in DOMAIN nodes : Says(nodes[i], event[w])
    \/ ctl # None /\ event[w] = ctl.entry
Waiting(w) ==
    /\ wpc[w] # "returned" => given[w] = None
    /\ wpc[w] = "decorate" => event[w] # None
    /\ wpc[w] = "decorate" /\ stable[w] => Known(w) \/ undone[w]
    /\ given[w] # None => given[w] = event[w].ctx \/ undone[w]

IInv == TypeOK /\ Synced /\ Separate /\ UnderWay /\ \A w \in Waiters : Waiting(w)

----------------------------------------------------------------------------
(* Sets of places with one element, and with more *)
LEMMA PlacesFinite ==
  ASSUME TypeOK, NEW S, S \subseteq DOMAIN nodes
  PROVE  IsFiniteSet(S)
  <1>1. Len(nodes) \in Nat /\ DOMAIN nodes = 1..Len(nodes)
    BY DEF TypeOK
  <1>2. IsFiniteSet(1..Len(nodes))
    BY <1>1, FS_Interval
  <1> QED BY <1>1, <1>2, FS_Subset

LEMMA AtMostOne ==
  ASSUME NEW S, IsFiniteSet(S), ~(Cardinality(S) > 1), NEW a \in S, NEW b \in S
  PROVE  a = b
  <1>1. IsFiniteSet(S \ {a}) /\ Cardinality(S \ {a}) = Cardinality(S) - 1
    BY FS_RemoveElement
  <1>2. Cardinality(S) \in Nat /\ Cardinality(S \ {a}) \in Nat
    BY <1>1, FS_CardinalityType
  <1>3. Cardinality(S \ {a}) = 0
    BY <1>1, <1>2
  <1>4. S \ {a} = {}
    BY <1>1, <1>3, FS_EmptySet
  <1> QED BY <1>4

LEMMA JustOne ==
  ASSUME NEW S, IsFiniteSet(S), Cardinality(S) = 1, NEW a \in S
  PROVE  (CHOOSE i \in S : TRUE) = a
  <1>1. PICK x : S = {x}
    BY FS_Singleton
  <1> QED BY <1>1

(* node_remove_ptr_locked keeps the other nodes, apart. *)
Place(i, j) == IF j < i THEN j ELSE j - 1

LEMMA WithoutKeeps ==
  ASSUME TypeOK, NEW i \in DOMAIN nodes
  PROVE  /\ Without(i) \in Seq(Node)
         /\ \A j \in DOMAIN nodes \ {i} : /\ Place(i, j) \in DOMAIN Without(i)
                                          /\ Without(i)[Place(i, j)] = nodes[j]
         /\ \A j, k \in DOMAIN nodes \ {i} : Place(i, j) = Place(i, k) => j = k
  <1> DEFINE n == Len(nodes)
             a == SubSeq(nodes, 1, i - 1)
             b == SubSeq(nodes, i + 1, n)
  <1>1. n \in Nat /\ DOMAIN nodes = 1..n /\ i \in 1..n /\ \A j \in 1..n : nodes[j] \in Node
    BY DEF TypeOK
  <1>2. /\ a \in Seq(Node) /\ Len(a) = i - 1 /\ \A j \in 1..(i - 1) : a[j] = nodes[j]
    BY <1>1, SubSeqProperties
  <1>3. /\ b \in Seq(Node) /\ Len(b) = n - i /\ \A j \in 1..(n - i) : b[j] = nodes[i + j]
    BY <1>1, SubSeqProperties
  <1> HIDE DEF n, a, b
  <1>4. /\ a \o b \in Seq(Node) /\ Len(a \o b) = n - 1
        /\ \A j \in 1..(n - 1) : (a \o b)[j] = IF j <= i - 1 THEN a[j] ELSE b[j - (i - 1)]
    <2>1. /\ a \o b \in Seq(Node) /\ Len(a \o b) = Len(a) + Len(b)
          /\ \A j \in 1..(Len(a) + Len(b)) :
                 (a \o b)[j] = IF j <= Len(a) THEN a[j] ELSE b[j - Len(a)]
      BY <1>2, <1>3, ConcatProperties, Zenon
    <2>2. Len(a) + Len(b) = n - 1
      BY <1>1, <1>2, <1>3
    <2> QED BY <1>2, <2>1, <2>2
  <1>5. Without(i) = a \o b
    BY DEF Without, a, b, n
  <1>6. DOMAIN Without(i) = 1..(n - 1)
    BY <1>4, <1>5
  <1>7. ASSUME NEW j \in DOMAIN nodes \ {i}
        PROVE  Place(i, j) \in DOMAIN Without(i) /\ Without(i)[Place(i, j)] = nodes[j]
    <2>1. CASE j < i
      BY <1>1, <1>2, <1>4, <1>5, <1>6, <2>1 DEF Place
    <2>2. CASE ~(j < i)
      <3>1. j \in Nat /\ i \in Nat /\ j > i /\ j <= n /\ Place(i, j) = j - 1
        BY <1>1, <2>2 DEF Place
      <3>2. j - 1 \in 1..(n - 1) /\ ~(j - 1 <= i - 1) /\ j - i \in 1..(n - i)
        BY <1>1, <3>1
      <3>3. (j - 1) - (i - 1) = j - i /\ (a \o b)[j - 1] = b[j - i]
        <4>1. (j - 1) - (i - 1) = j - i
          BY <3>1
        <4>2. (a \o b)[j - 1] = b[(j - 1) - (i - 1)]
          BY <1>4, <3>2
        <4> QED BY <4>1, <4>2
      <3>4. b[j - i] = nodes[i + (j - i)] /\ i + (j - i) = j
        BY <1>1, <1>3, <3>1, <3>2
      <3> QED BY <1>5, <1>6, <3>1, <3>2, <3>3, <3>4
    <2> QED BY <2>1, <2>2
  <1>8. ASSUME NEW j \in DOMAIN nodes \ {i}, NEW k \in DOMAIN nodes \ {i}, Place(i, j) = Place(i, k)
        PROVE  j = k
    BY <1>1, <1>8 DEF Place
  <1> QED BY <1>4, <1>5, <1>7, <1>8

----------------------------------------------------------------------------
LEMMA InitIInv == Init => IInv
  <1> SUFFICES ASSUME Init PROVE IInv
    OBVIOUS
  <1>1. TypeOK
    BY DEF Init, TypeOK
  <1>2. Synced /\ Separate
    BY DEF Init, Synced, Separate, Settled, Keys
  <1>3. UnderWay /\ \A w \in Waiters : Waiting(w)
    BY DEF Init, UnderWay, Waiting
  <1> QED BY <1>1, <1>2, <1>3 DEF IInv

(* Steps of the application that leave nodes, waits and the operation      *)
(* under way alone, and take registrations away at most                    *)
LEMMA CalmKeeps ==
  ASSUME IInv, TypeOK', UNCHANGED <<nodes, ctl, waiting>>,
         \A f \in Fds, o \in Files : interest'[<<f, o>>] \in {interest[<<f, o>>], None},
         ctl # None => /\ file'[ctl.fd] = file[ctl.fd]
                       /\ interest'[<<ctl.fd, file[ctl.fd]>>] = interest[<<ctl.fd, file[ctl.fd]>>]
  PROVE  IInv'
  <1>1. ASSUME NEW f \in Fds, NEW o \in Files, Settled(f, o)'
        PROVE  Settled(f, o) /\ interest'[<<f, o>>] = interest[<<f, o>>]
    BY <1>1, Zenon DEF Settled, Busy
  <1>2. Synced'
    <2>1. SUFFICES ASSUME NEW f \in Fds, NEW o \in Files, Settled(f, o)' PROVE Followed(f, o)'
      BY DEF Synced
    <2>2. Followed(f, o)
      BY <1>1, <2>1, Zenon DEF IInv, Synced
    <2> QED BY <1>1, <2>1, <2>2, Zenon DEF Followed
  <1>3. Separate'
    <2>1. SUFFICES ASSUME NEW f \in Fds, NEW o \in Files, NEW q \in Files, o # q,
                          Fingerprint[o] = Fingerprint[q], Settled(f, o)', Settled(f, q)'
                   PROVE  Doubled(f, o)'
      BY DEF Separate
    <2>2. Doubled(f, o)
      BY <1>1, <2>1, Zenon DEF IInv, Separate
    <2> QED BY <2>2, Zenon DEF Doubled
  <1>4. UnderWay'
    <2>1. SUFFICES ASSUME ctl # None, UnderWay, ctl \in Control PROVE UnderWay'
      BY DEF IInv, TypeOK, UnderWay
    <2>2. Sole => Sole'
      <3>1. ASSUME NEW o \in Files, interest[<<ctl.fd, o>>] = None
            PROVE  interest'[<<ctl.fd, o>>] = None
        BY <2>1, <3>1 DEF Control
      <3> QED BY <2>1, <3>1, Zenon DEF Sole, Target
    <2> QED BY <2>1, <2>2, Zenon DEF UnderWay
  <1>5. \A w \in Waiters : Waiting(w)'
    BY Zenon DEF IInv, Waiting, Known, waiting
  <1> QED BY <1>2, <1>3, <1>4, <1>5 DEF IInv

LEMMA OpenKeeps ==
  ASSUME IInv, NEW f \in Fds, NEW o \in Files, Open(f, o)
  PROVE  IInv'
  <1>1. TypeOK'
    BY DEF IInv, TypeOK, Open, waiting
  <1>2. ctl # None => file'[ctl.fd] = file[ctl.fd]
    BY DEF IInv, TypeOK, UnderWay, Open
  <1> QED BY <1>1, <1>2, CalmKeeps DEF Open

LEMMA CloseKeeps ==
  ASSUME IInv, NEW f \in Fds, NEW kept \in BOOLEAN, Close(f, kept)
  PROVE  IInv'
  <1>1. interest' = [k \in Keys |-> IF k[2] = file[f] /\ ~kept THEN None ELSE interest[k]]
    BY DEF Close
  <1>2. \A g \in Fds, o \in Files :
           interest'[<<g, o>>] = IF o = file[f] /\ ~kept THEN None ELSE interest[<<g, o>>]
    BY <1>1 DEF Keys
  <1>3. TypeOK'
    <2>1. interest' \in [Keys -> Entry \cup {None}]
      BY <1>1 DEF IInv, TypeOK
    <2> QED BY <2>1 DEF IInv, TypeOK, Close, waiting
  <1>4. ctl # None => /\ file'[ctl.fd] = file[ctl.fd]
                      /\ interest'[<<ctl.fd, file[ctl.fd]>>] = interest[<<ctl.fd, file[ctl.fd]>>]
    <2>1. SUFFICES ASSUME ctl # None, ctl.fd \in Fds, file[ctl.fd] \in Files
                   PROVE  /\ file'[ctl.fd] = file[ctl.fd]
                          /\ interest'[<<ctl.fd, file[ctl.fd]>>] = interest[<<ctl.fd, file[ctl.fd]>>]
      BY DEF IInv, TypeOK, UnderWay, Control
    <2>2. ctl.fd # f /\ (file[ctl.fd] = file[f] => kept)
      BY <2>1, Zenon DEF Close
    <2>3. file'[ctl.fd] = file[ctl.fd]
      BY <2>1, <2>2 DEF Close, IInv, TypeOK
    <2> QED BY <1>2, <2>1, <2>2, <2>3
  <1>5. UNCHANGED <<nodes, ctl, waiting>>
    BY DEF Close
  <1>6. \A g \in Fds, o \in Files : interest'[<<g, o>>] \in {interest[<<g, o>>], None}
    BY <1>2, Zenon
  <1> QED BY <1>3, <1>4, <1>5, <1>6, CalmKeeps, Zenon

(* Steps of a waiter *)
LEMMA WaiterKeeps ==
  ASSUME IInv, TypeOK', UNCHANGED <<file, interest, nodes, ctl>>, NEW w \in Waiters, Waiting(w)',
         \A v \in Waiters \ {w} : /\ wpc'[v] = wpc[v] /\ event'[v] = event[v]
                                  /\ stable'[v] = stable[v] /\ given'[v] = given[v]
                                  /\ undone'[v] = undone[v]
  PROVE  IInv'
  <1>1. ASSUME NEW v \in Waiters PROVE Waiting(v)'
    <2>1. CASE v # w
      BY <2>1, Zenon DEF IInv, Waiting, Known
    <2> QED BY <2>1
  <1>2. Synced'
    BY Zenon DEF IInv, Synced, Settled, Busy, Followed
  <1>3. Separate'
    <2>1. \A f \in Fds, o \in Files : Settled(f, o)' => Settled(f, o)
      BY Zenon DEF Settled, Busy
    <2>2. \A f \in Fds, o \in Files : Doubled(f, o) => Doubled(f, o)'
      BY Zenon DEF Doubled
    <2> QED BY <2>1, <2>2, Zenon DEF IInv, Separate
  <1>4. UnderWay'
    BY Zenon DEF IInv, UnderWay, Sole, Target
  <1> QED BY <1>1, <1>2, <1>3, <1>4 DEF IInv

LEMMA ReadGenerationKeeps ==
  ASSUME IInv, NEW w \in Waiters, ReadGeneration(w)
  PROVE  IInv'
  <1>1. TypeOK'
    BY DEF IInv, TypeOK, ReadGeneration
  <1>2. Waiting(w)'
    BY DEF IInv, TypeOK, ReadGeneration, Waiting
  <1> QED BY <1>1, <1>2, WaiterKeeps, Zenon DEF IInv, TypeOK, ReadGeneration

LEMMA ReturnKeeps ==
  ASSUME IInv, NEW w \in Waiters, Return(w)
  PROVE  IInv'
  <1>1. TypeOK'
    BY Zenon DEF IInv, TypeOK, Return
  <1>2. Waiting(w)'
    BY DEF IInv, TypeOK, Return, Waiting
  <1> QED BY <1>1, <1>2, WaiterKeeps, Zenon DEF IInv, TypeOK, Return

(* The kernel's entry has a node, or is the one of the operation under way. *)
LEMMA NativeWaitKeeps ==
  ASSUME IInv, NEW w \in Waiters, NativeWait(w)
  PROVE  IInv'
  <1>1. PICK f \in Fds, o \in Files : /\ interest[<<f, o>>] # None
                                     /\ event' = [event EXCEPT ![w] = interest[<<f, o>>]]
    <2>1. PICK k \in Keys : interest[k] # None /\ event' = [event EXCEPT ![w] = interest[k]]
      BY Zenon DEF NativeWait
    <2>2. PICK f \in Fds, o \in Files : k = <<f, o>>
      BY DEF Keys
    <2> QED BY <2>1, <2>2, Zenon
  <1>2. interest[<<f, o>>] \in Entry
    BY <1>1 DEF IInv, TypeOK, Keys
  <1>3. TypeOK'
    BY <1>1, <1>2 DEF IInv, TypeOK, NativeWait
  <1>4. event'[w] = interest[<<f, o>>] /\ wpc'[w] = "decorate" /\ given'[w] = None
    BY <1>1 DEF IInv, TypeOK, NativeWait, Waiting
  <1>5. UNCHANGED <<nodes, ctl>>
    BY DEF NativeWait
  <1>6. Known(w)'
    <2>1. CASE Busy(f, o)
      <3>1. ctl # None /\ interest[<<f, o>>] = ctl.entry
        BY <2>1, Zenon DEF IInv, UnderWay, Busy
      <3> QED BY <1>4, <1>5, <3>1, Zenon DEF Known
    <2>2. CASE ~Busy(f, o)
      <3>1. Followed(f, o)
        BY <1>1, <2>2, Zenon DEF IInv, Synced, Settled
      <3> QED BY <1>4, <1>5, <3>1, Zenon DEF Known, Followed
    <2> QED BY <2>1, <2>2
  <1>7. Waiting(w)'
    BY <1>1, <1>4, <1>6, Zenon DEF Waiting
  <1> QED BY <1>1, <1>3, <1>7, WaiterKeeps DEF IInv, TypeOK, NativeWait

(* An unambiguous node of the event's data is the one the event agrees     *)
(* with.                                                                   *)
LEMMA DecorateKeeps ==
  ASSUME IInv, NEW w \in Waiters, Decorate(w)
  PROVE  IInv'
  <1>1. TypeOK'
    BY Zenon DEF IInv, TypeOK, Decorate
  <1>2. /\ wpc'[w] = "returned" /\ event'[w] = event[w] /\ undone'[w] = undone[w]
        /\ given'[w] = IF stable[w] THEN Snapshot(event[w].data) ELSE None
    BY DEF IInv, TypeOK, Decorate, Trusted
  <1>3. ASSUME stable[w], ~undone[w], Snapshot(event[w].data) # None
        PROVE  Snapshot(event[w].data) = event[w].ctx
    <2>1. PICK i \in DOMAIN nodes : Says(nodes[i], event[w])
      BY <1>3 DEF IInv, Waiting, Known, Decorate
    <2>2. PICK m : m = {j \in DOMAIN nodes : nodes[j].data = event[w].data}
      BY Zenon
    <2>3. IsFiniteSet(m)
      BY <2>2, PlacesFinite DEF IInv
    <2>4. Cardinality(m) = 1 /\ Snapshot(event[w].data) = nodes[CHOOSE j \in m : TRUE].ctx
      BY <1>3, <2>2 DEF Snapshot
    <2>5. i \in m /\ nodes[i].ctx = event[w].ctx
      BY <2>1, <2>2 DEF Says
    <2>6. (CHOOSE j \in m : TRUE) = i
      BY <2>3, <2>4, <2>5, JustOne
    <2> QED BY <2>4, <2>5, <2>6, Zenon
  <1>4. Waiting(w)'
    BY <1>2, <1>3, Zenon DEF Waiting
  <1> QED BY <1>1, <1>4, WaiterKeeps, Zenon DEF IInv, TypeOK, Decorate

----------------------------------------------------------------------------
(* One entry of the kernel's list changes. *)
LEMMA OneEntry ==
  ASSUME TypeOK, NEW f \in Fds, file[f] \in Files, NEW e \in Entry \cup {None},
         interest' = [interest EXCEPT ![<<f, file[f]>>] = e]
  PROVE  /\ interest' \in [Keys -> Entry \cup {None}]
         /\ interest'[<<f, file[f]>>] = e
         /\ \A g \in Fds, o \in Files :
               g # f \/ o # file[f] => interest'[<<g, o>>] = interest[<<g, o>>]
  BY DEF TypeOK, Keys

(* An operation that is not an ADD found one node only; no other           *)
(* registration can be the one it belongs to.                              *)
LEMMA Unambiguous ==
  ASSUME IInv, ctl = None, NEW f \in Fds, file[f] \in Files, interest[<<f, file[f]>>] # None,
         ~Ambiguous(f)
  PROVE  /\ \E i \in DOMAIN nodes : Fits(nodes[i], f, file[f])
         /\ \A i, j \in DOMAIN nodes :
               Fits(nodes[i], f, file[f]) /\ Fits(nodes[j], f, file[f]) => i = j
         /\ \A o \in Files : o # file[f] /\ Fingerprint[o] = Fingerprint[file[f]]
                             => interest[<<f, o>>] = None
  <1>1. \A o \in Files : Settled(f, o) <=> interest[<<f, o>>] # None
    BY DEF Settled, Busy
  <1>2. Followed(f, file[f])
    BY <1>1, Zenon DEF IInv, Synced
  <1>3. ASSUME NEW i \in DOMAIN nodes, NEW j \in DOMAIN nodes,
               Fits(nodes[i], f, file[f]), Fits(nodes[j], f, file[f])
        PROVE  i = j
    <2>1. i \in Matches(f) /\ j \in Matches(f)
      BY <1>3, Zenon DEF Matches, Fits
    <2>2. IsFiniteSet(Matches(f))
      BY PlacesFinite DEF IInv, Matches
    <2> QED BY <2>1, <2>2, AtMostOne DEF Ambiguous
  <1>4. ASSUME NEW o \in Files, o # file[f], Fingerprint[o] = Fingerprint[file[f]],
               interest[<<f, o>>] # None
        PROVE  FALSE
    <2>1. Doubled(f, o)
      BY <1>1, <1>4, Zenon DEF IInv, Separate
    <2> QED BY <1>3, <1>4, <2>1, Zenon DEF Doubled, Fits
  <1> QED BY <1>2, <1>3, <1>4, Zenon DEF Followed

(* port_ctl_ctx up to the kernel call *)
LEMMA CtlKeeps ==
  ASSUME IInv, NEW op \in {"ADD", "MOD", "DEL"}, NEW f \in Fds, NEW e \in Entry, Ctl(op, f, e)
  PROVE  IInv'
  <1>1. PICK x : x = IF op = "DEL" THEN None ELSE e
    OBVIOUS
  <1>2. /\ ctl = None /\ file[f] \in Files
        /\ op # "ADD" => ~Ambiguous(f) /\ interest[<<f, file[f]>>] # None
        /\ interest' = [interest EXCEPT ![<<f, file[f]>>] = x]
        /\ ctl' = [op |-> op, fd |-> f, entry |-> x]
        /\ UNCHANGED <<file, nodes, waiting>>
    BY <1>1 DEF IInv, TypeOK, Ctl
  <1>3. x \in Entry \cup {None} /\ (op = "DEL" <=> x = None)
    BY <1>1, NoneFresh
  <1>4. /\ interest' \in [Keys -> Entry \cup {None}]
        /\ interest'[<<f, file[f]>>] = x
        /\ \A g \in Fds, o \in Files :
              g # f \/ o # file[f] => interest'[<<g, o>>] = interest[<<g, o>>]
    BY <1>2, <1>3, OneEntry, Zenon DEF IInv
  <1>5. ctl' \in Control /\ ctl' # None /\ ctl'.fd = f /\ ctl'.op = op /\ ctl'.entry = x
    BY <1>2, <1>3, NoneFresh DEF Control
  <1>6. TypeOK'
    BY <1>2, <1>4, <1>5 DEF IInv, TypeOK, waiting
  <1>7. ASSUME NEW g \in Fds, NEW o \in Files, Settled(g, o)'
        PROVE  Settled(g, o) /\ interest'[<<g, o>>] = interest[<<g, o>>]
    <2>1. g # f \/ o # file[f]
      BY <1>2, <1>5, <1>7, Zenon DEF Settled, Busy
    <2> QED BY <1>2, <1>4, <1>7, <2>1, Zenon DEF Settled, Busy
  <1>8. Synced'
    <2>1. SUFFICES ASSUME NEW g \in Fds, NEW o \in Files, Settled(g, o)' PROVE Followed(g, o)'
      BY DEF Synced
    <2>2. Followed(g, o) /\ interest'[<<g, o>>] = interest[<<g, o>>]
      BY <1>7, <2>1, Zenon DEF IInv, Synced
    <2> QED BY <1>2, <2>2, Zenon DEF Followed
  <1>9. Separate'
    <2>1. SUFFICES ASSUME NEW g \in Fds, NEW o \in Files, NEW q \in Files, o # q,
                          Fingerprint[o] = Fingerprint[q], Settled(g, o)', Settled(g, q)'
                   PROVE  Doubled(g, o)'
      BY DEF Separate
    <2>2. Doubled(g, o)
      BY <1>7, <2>1, Zenon DEF IInv, Separate
    <2> QED BY <1>2, <2>2, Zenon DEF Doubled
  <1>10. UnderWay'
    <2>1. ASSUME op # "ADD" PROVE Sole'
      <3>1. /\ \E i \in DOMAIN nodes : Fits(nodes[i], f, file[f])
            /\ \A i, j \in DOMAIN nodes :
                  Fits(nodes[i], f, file[f]) /\ Fits(nodes[j], f, file[f]) => i = j
            /\ \A o \in Files : o # file[f] /\ Fingerprint[o] = Fingerprint[file[f]]
                                => interest'[<<f, o>>] = None
        BY <1>2, <1>4, <2>1, Unambiguous, Zenon
      <3> QED BY <1>2, <1>5, <3>1, Zenon DEF Sole, Target
    <2>2. file'[f] # None
      BY <1>2, NoneFresh
    <2> QED BY <1>2, <1>3, <1>4, <1>5, <2>1, <2>2, Zenon DEF UnderWay
  <1>11. \A w \in Waiters : Waiting(w)'
    BY <1>2, Zenon DEF IInv, Waiting, Known, waiting
  <1> QED BY <1>6, <1>8, <1>9, <1>10, <1>11 DEF IInv

(* A rearm gives the kernel what the node says. *)
LEMMA RearmKeeps ==
  ASSUME IInv, NEW f \in Fds, Rearm(f)
  PROVE  IInv'
  <1>1. /\ ctl = None /\ file[f] \in Files /\ UNCHANGED <<file, nodes, ctl, waiting>>
        /\ interest[<<f, file[f]>>] # None
    BY DEF IInv, TypeOK, Rearm
  <1>2. PICK i \in Matches(f) :
           interest' = [interest EXCEPT ![<<f, file[f]>>] = [data |-> nodes[i].data, ctx |-> nodes[i].ctx]]
    BY Zenon DEF Rearm
  <1>a. PICK e : e = [data |-> nodes[i].data, ctx |-> nodes[i].ctx]
    BY Zenon
  <1>3. i \in DOMAIN nodes /\ Fits(nodes[i], f, file[f]) /\ nodes[i] \in Node
    BY <1>2 DEF Matches, Fits, IInv, TypeOK
  <1>4. e \in Entry /\ Says(nodes[i], e)
    BY <1>a, <1>3 DEF Node, Entry, Says
  <1>5. /\ interest' \in [Keys -> Entry \cup {None}]
        /\ interest'[<<f, file[f]>>] = e
        /\ \A g \in Fds, o \in Files :
              g # f \/ o # file[f] => interest'[<<g, o>>] = interest[<<g, o>>]
    BY <1>1, <1>2, <1>a, <1>4, OneEntry, Zenon DEF IInv
  <1>6. TypeOK'
    BY <1>1, <1>5 DEF IInv, TypeOK, waiting
  <1>7. ASSUME NEW g \in Fds, NEW o \in Files, Settled(g, o)'
        PROVE  Settled(g, o)
    BY <1>1, <1>5, <1>7, Zenon DEF Settled, Busy
  <1>8. Synced'
    <2>1. SUFFICES ASSUME NEW g \in Fds, NEW o \in Files, Settled(g, o)' PROVE Followed(g, o)'
      BY DEF Synced
    <2>2. CASE g = f /\ o = file[f]
      BY <1>1, <1>3, <1>4, <1>5, <2>2, Zenon DEF Followed
    <2>3. CASE g # f \/ o # file[f]
      <3>1. Followed(g, o)
        BY <1>7, <2>1, Zenon DEF IInv, Synced
      <3> QED BY <1>1, <1>5, <2>3, <3>1, Zenon DEF Followed
    <2> QED BY <2>2, <2>3, Zenon
  <1>9. Separate'
    <2>1. SUFFICES ASSUME NEW g \in Fds, NEW o \in Files, NEW q \in Files, o # q,
                          Fingerprint[o] = Fingerprint[q], Settled(g, o)', Settled(g, q)'
                   PROVE  Doubled(g, o)'
      BY DEF Separate
    <2>2. Doubled(g, o)
      BY <1>7, <2>1, Zenon DEF IInv, Separate
    <2> QED BY <1>1, <2>2, Zenon DEF Doubled
  <1>10. UnderWay' /\ \A w \in Waiters : Waiting(w)'
    BY <1>1, Zenon DEF IInv, UnderWay, Waiting, Known, waiting
  <1> QED BY <1>6, <1>8, <1>9, <1>10 DEF IInv

----------------------------------------------------------------------------
(* The end of a control operation: what is to be shown of the nodes *)
LEMMA CommitKeeps ==
  ASSUME IInv, ctl' = None, stable' = Bumped, nodes' \in Seq(Node),
         UNCHANGED <<file, interest, wpc, event, given, undone>>, Synced', Separate'
  PROVE  IInv'
  <1>1. stable' \in [Waiters -> BOOLEAN] /\ \A w \in Waiters : ~stable'[w]
    BY DEF Bumped
  <1>2. TypeOK'
    BY <1>1 DEF IInv, TypeOK
  <1>3. UnderWay'
    BY DEF UnderWay
  <1>4. ASSUME NEW w \in Waiters PROVE Waiting(w)'
    BY <1>1, Zenon DEF IInv, Waiting
  <1> QED BY <1>2, <1>3, <1>4 DEF IInv

(* Once it has ended, its registration is one of the others. *)
LEMMA Joined ==
  ASSUME ctl # None, ctl' = None, UNCHANGED <<file, interest>>,
         NEW f \in Fds, NEW o \in Files, Settled(f, o)'
  PROVE  /\ interest[<<f, o>>] # None
         /\ Settled(f, o) \/ (f = ctl.fd /\ o = file[ctl.fd])
  BY Zenon DEF Settled, Busy

(* The node of a MOD or DEL belongs to no other registration. *)
LEMMA Others ==
  ASSUME ctl # None, Sole, NEW i \in DOMAIN nodes, Target(i),
         NEW f \in Fds, NEW o \in Files, Settled(f, o)
  PROVE  ~Fits(nodes[i], f, o)
  <1>1. ASSUME Fits(nodes[i], f, o) PROVE FALSE
    <2>1. f = ctl.fd /\ Fingerprint[o] = Fingerprint[file[ctl.fd]]
      BY <1>1, Zenon DEF Target, Fits
    <2>2. interest[<<f, o>>] # None /\ o # file[ctl.fd]
      BY <2>1, Zenon DEF Settled, Busy
    <2> QED BY <2>1, <2>2, Zenon DEF Sole
  <1> QED BY <1>1

(* The node of an ADD is put before the others. *)
LEMMA AddedKeeps ==
  ASSUME IInv, ctl # None, ctl.op = "ADD", ctl' = None, stable' = Bumped,
         nodes' = <<NewNode(ctl.fd, ctl.entry)>> \o nodes,
         UNCHANGED <<file, interest, wpc, event, given, undone>>
  PROVE  IInv'
  <1>1. PICK f, o, new : f = ctl.fd /\ o = file[f] /\ new = NewNode(f, ctl.entry)
    OBVIOUS
  <1>2. ctl \in Control /\ f \in Fds /\ ctl.entry \in Entry /\ interest[<<f, o>>] = ctl.entry
    BY <1>1, NoneFresh DEF IInv, TypeOK, UnderWay, Control
  <1>3. o \in Files
    BY <1>1, <1>2 DEF IInv, TypeOK, UnderWay
  <1>4. new \in Node /\ Fits(new, f, o) /\ Says(new, interest[<<f, o>>])
    BY <1>1, <1>2, <1>3 DEF NewNode, Node, Entry, Fits, Says
  <1>5. /\ nodes' \in Seq(Node) /\ 1 \in DOMAIN nodes' /\ nodes'[1] = new
        /\ \A i \in DOMAIN nodes : /\ i + 1 \in DOMAIN nodes' /\ nodes'[i + 1] = nodes[i]
                                   /\ i + 1 # 1
        /\ \A i, j \in DOMAIN nodes : i # j => i + 1 # j + 1
    <2>1. nodes \in Seq(Node) /\ <<new>> \in Seq(Node) /\ Len(<<new>>) = 1 /\ <<new>>[1] = new
      BY <1>4 DEF IInv, TypeOK
    <2>2. nodes' = <<new>> \o nodes
      BY <1>1
    <2>3. /\ nodes' \in Seq(Node) /\ Len(nodes') = 1 + Len(nodes)
          /\ \A i \in 1..(1 + Len(nodes)) : nodes'[i] = IF i <= 1 THEN <<new>>[i] ELSE nodes[i - 1]
      BY <2>1, <2>2, ConcatProperties
    <2>4. Len(nodes) \in Nat /\ DOMAIN nodes = 1..Len(nodes) /\ DOMAIN nodes' = 1..(1 + Len(nodes))
      BY <2>1, <2>3
    <2>5. ASSUME NEW i \in DOMAIN nodes
          PROVE  i + 1 \in DOMAIN nodes' /\ nodes'[i + 1] = nodes[i] /\ i + 1 # 1
      <3>1. i \in Nat /\ i + 1 \in 1..(1 + Len(nodes)) /\ ~(i + 1 <= 1) /\ (i + 1) - 1 = i
        BY <2>4
      <3> QED BY <2>3, <2>4, <3>1
    <2> QED BY <2>1, <2>3, <2>4, <2>5
  <1>6. ASSUME NEW g \in Fds, NEW q \in Files, Followed(g, q) PROVE Followed(g, q)'
    BY <1>5, <1>6, Zenon DEF Followed
  <1>7. Followed(f, o)'
    BY <1>4, <1>5, Zenon DEF Followed
  <1>8. ASSUME NEW g \in Fds, NEW q \in Files, Settled(g, q)'
        PROVE  (Settled(g, q) /\ Followed(g, q)) \/ (g = f /\ q = o)
    BY <1>1, <1>8, Joined, Zenon DEF IInv, Synced
  <1>9. Synced'
    BY <1>6, <1>7, <1>8, Zenon DEF Synced
  <1>10. ASSUME NEW q \in Files, NEW r \in Files, Followed(f, q),
                Fingerprint[q] = Fingerprint[o], Fingerprint[r] = Fingerprint[o]
         PROVE  Doubled(f, r)'
    <2>1. PICK i \in DOMAIN nodes : Fits(nodes[i], f, q)
      BY <1>10, Zenon DEF Followed
    <2>2. Fits(nodes'[i + 1], f, r) /\ Fits(nodes'[1], f, r)
      BY <1>4, <1>5, <1>10, <2>1, Zenon DEF Fits
    <2> QED BY <1>5, <2>2, Zenon DEF Doubled
  <1>11. Separate'
    <2>1. SUFFICES ASSUME NEW g \in Fds, NEW q \in Files, NEW r \in Files, q # r,
                          Fingerprint[q] = Fingerprint[r], Settled(g, q)', Settled(g, r)'
                   PROVE  Doubled(g, q)'
      BY DEF Separate
    <2>2. CASE Settled(g, q) /\ Settled(g, r)
      <3>1. Doubled(g, q)
        BY <2>1, <2>2, Zenon DEF IInv, Separate
      <3>2. PICK i \in DOMAIN nodes, j \in DOMAIN nodes :
               i # j /\ Fits(nodes[i], g, q) /\ Fits(nodes[j], g, q)
        BY <3>1, Zenon DEF Doubled
      <3>3. i + 1 # j + 1 /\ Fits(nodes'[i + 1], g, q) /\ Fits(nodes'[j + 1], g, q)
        BY <1>5, <3>2, Zenon
      <3> QED BY <1>5, <3>3, Zenon DEF Doubled
    <2>3. CASE g = f /\ q = o
      BY <1>3, <1>8, <1>10, <2>1, <2>3, Zenon
    <2>4. CASE g = f /\ r = o
      BY <1>3, <1>8, <1>10, <2>1, <2>4, Zenon
    <2> QED BY <1>8, <2>1, <2>2, <2>3, <2>4, Zenon
  <1> QED BY <1>5, <1>9, <1>11, CommitKeeps, Zenon

(* A MOD replaces the one node there is, in place. *)
LEMMA ReplacedKeeps ==
  ASSUME IInv, ctl # None, ctl.op = "MOD", ctl' = None, stable' = Bumped,
         NEW i \in DOMAIN nodes, Target(i),
         nodes' = [nodes EXCEPT ![i] = NewNode(ctl.fd, ctl.entry)],
         UNCHANGED <<file, interest, wpc, event, given, undone>>
  PROVE  IInv'
  <1>1. PICK f, o, new : f = ctl.fd /\ o = file[f] /\ new = NewNode(f, ctl.entry)
    OBVIOUS
  <1>2. /\ ctl \in Control /\ f \in Fds /\ ctl.entry \in Entry /\ interest[<<f, o>>] = ctl.entry
        /\ Sole
    BY <1>1, NoneFresh DEF IInv, TypeOK, UnderWay, Control
  <1>3. o \in Files
    BY <1>1, <1>2 DEF IInv, TypeOK, UnderWay
  <1>4. new \in Node /\ Fits(new, f, o) /\ Says(new, interest[<<f, o>>])
    BY <1>1, <1>2, <1>3 DEF NewNode, Node, Entry, Fits, Says
  <1>5. /\ nodes' \in Seq(Node) /\ DOMAIN nodes' = DOMAIN nodes /\ nodes'[i] = new
        /\ \A j \in DOMAIN nodes : j # i => nodes'[j] = nodes[j]
    BY <1>1, <1>4 DEF IInv, TypeOK
  <1>6. ASSUME NEW g \in Fds, NEW q \in Files, Settled(g, q),
               NEW j \in DOMAIN nodes, Fits(nodes[j], g, q)
        PROVE  j \in DOMAIN nodes' /\ nodes'[j] = nodes[j]
    BY <1>2, <1>5, <1>6, Others, Zenon
  <1>7. ASSUME NEW g \in Fds, NEW q \in Files, Settled(g, q)'
        PROVE  Settled(g, q) \/ (g = f /\ q = o)
    BY <1>1, <1>7, Joined, Zenon
  <1>8. Synced'
    <2>1. SUFFICES ASSUME NEW g \in Fds, NEW q \in Files, Settled(g, q)' PROVE Followed(g, q)'
      BY DEF Synced
    <2>2. CASE Settled(g, q)
      <3>1. PICK j \in DOMAIN nodes : Fits(nodes[j], g, q) /\ Says(nodes[j], interest[<<g, q>>])
        BY <2>2, Zenon DEF IInv, Synced, Followed
      <3> QED BY <1>6, <2>2, <3>1, Zenon DEF Followed
    <2>3. CASE g = f /\ q = o
      BY <1>4, <1>5, <2>3, Zenon DEF Followed
    <2> QED BY <1>7, <2>1, <2>2, <2>3, Zenon
  <1>9. Separate'
    <2>1. SUFFICES ASSUME NEW g \in Fds, NEW q \in Files, NEW r \in Files, q # r,
                          Fingerprint[q] = Fingerprint[r], Settled(g, q)', Settled(g, r)'
                   PROVE  Doubled(g, q)'
      BY DEF Separate
    <2>2. interest[<<g, q>>] # None /\ interest[<<g, r>>] # None
      BY <2>1, Joined, Zenon
    <2>3. Settled(g, q) /\ Settled(g, r)
      BY <1>1, <1>2, <1>7, <2>1, <2>2, Zenon DEF Sole
    <2>4. PICK j \in DOMAIN nodes, k \in DOMAIN nodes :
             j # k /\ Fits(nodes[j], g, q) /\ Fits(nodes[k], g, q)
      BY <2>1, <2>3, Zenon DEF IInv, Separate, Doubled
    <2> QED BY <1>6, <2>3, <2>4, Zenon DEF Doubled
  <1> QED BY <1>5, <1>8, <1>9, CommitKeeps, Zenon

(* A DEL removes it; the others keep theirs. *)
LEMMA RemovedKeeps ==
  ASSUME IInv, ctl # None, ctl.op = "DEL", ctl' = None, stable' = Bumped,
         NEW i \in DOMAIN nodes, Target(i), nodes' = Without(i),
         UNCHANGED <<file, interest, wpc, event, given, undone>>
  PROVE  IInv'
  <1>1. Sole /\ interest[<<ctl.fd, file[ctl.fd]>>] = None
    BY DEF IInv, UnderWay
  <1>2. /\ nodes' \in Seq(Node)
        /\ \A j \in DOMAIN nodes \ {i} : /\ Place(i, j) \in DOMAIN nodes'
                                         /\ nodes'[Place(i, j)] = nodes[j]
        /\ \A j, k \in DOMAIN nodes \ {i} : Place(i, j) = Place(i, k) => j = k
    BY WithoutKeeps, Zenon DEF IInv
  <1>3. ASSUME NEW g \in Fds, NEW q \in Files, Settled(g, q)'
        PROVE  Settled(g, q)
    BY <1>1, <1>3, Joined, Zenon
  <1>4. ASSUME NEW g \in Fds, NEW q \in Files, Settled(g, q),
               NEW j \in DOMAIN nodes, Fits(nodes[j], g, q)
        PROVE  j \in DOMAIN nodes \ {i}
    <2>1. j # i
      BY <1>1, <1>4, Others, Zenon
    <2> QED BY <2>1
  <1>5. Synced'
    <2>1. SUFFICES ASSUME NEW g \in Fds, NEW q \in Files, Settled(g, q)' PROVE Followed(g, q)'
      BY DEF Synced
    <2>2. Settled(g, q)
      BY <1>3, <2>1
    <2>3. PICK j \in DOMAIN nodes : Fits(nodes[j], g, q) /\ Says(nodes[j], interest[<<g, q>>])
      BY <2>2, Zenon DEF IInv, Synced, Followed
    <2>4. Place(i, j) \in DOMAIN nodes' /\ nodes'[Place(i, j)] = nodes[j]
      BY <1>2, <1>4, <2>2, <2>3, Zenon
    <2> QED BY <2>3, <2>4, Zenon DEF Followed
  <1>6. Separate'
    <2>1. SUFFICES ASSUME NEW g \in Fds, NEW q \in Files, NEW r \in Files, q # r,
                          Fingerprint[q] = Fingerprint[r], Settled(g, q)', Settled(g, r)'
                   PROVE  Doubled(g, q)'
      BY DEF Separate
    <2>2. Settled(g, q) /\ Settled(g, r)
      BY <1>3, <2>1
    <2>3. PICK j \in DOMAIN nodes, k \in DOMAIN nodes :
             j # k /\ Fits(nodes[j], g, q) /\ Fits(nodes[k], g, q)
      BY <2>1, <2>2, Zenon DEF IInv, Separate, Doubled
    <2>4. j \in DOMAIN nodes \ {i} /\ k \in DOMAIN nodes \ {i}
      BY <1>4, <2>2, <2>3, Zenon
    <2>5. /\ Place(i, j) \in DOMAIN nodes' /\ Place(i, k) \in DOMAIN nodes'
          /\ Fits(nodes'[Place(i, j)], g, q) /\ Fits(nodes'[Place(i, k)], g, q)
          /\ Place(i, j) # Place(i, k)
      BY <1>2, <2>3, <2>4, Zenon
    <2> QED BY <2>5, Zenon DEF Doubled
  <1> QED BY <1>2, <1>5, <1>6, CommitKeeps, Zenon

LEMMA CtlCommitKeeps ==
  ASSUME IInv, CtlCommit
  PROVE  IInv'
  <1>1. /\ ctl # None /\ ctl' = None /\ UNCHANGED <<file, interest, wpc, event, given, undone>>
        /\ ctl \in Control /\ ctl.op \in {"ADD", "MOD", "DEL"}
    BY DEF CtlCommit, IInv, TypeOK, Control
  <1>2. CASE ctl.op = "ADD"
    <2>1. stable' = Bumped /\ nodes' = <<NewNode(ctl.fd, ctl.entry)>> \o nodes
      BY <1>2 DEF CtlCommit
    <2> QED BY <1>1, <1>2, <2>1, AddedKeeps, Zenon
  <1>3. CASE ctl.op # "ADD"
    <2>1. PICK i : i = CHOOSE j \in Matches(ctl.fd) : TRUE
      OBVIOUS
    <2>2. \A j \in DOMAIN nodes : j \in Matches(ctl.fd) <=> Target(j)
      BY Zenon DEF Matches, Target, Fits
    <2>3. Sole
      BY <1>1, <1>3, Zenon DEF IInv, UnderWay
    <2>4. Matches(ctl.fd) # {} /\ i \in Matches(ctl.fd)
      BY <2>1, <2>2, <2>3, Zenon DEF Sole
    <2>5. i \in DOMAIN nodes /\ Target(i)
      BY <2>2, <2>4, Zenon DEF Matches
    <2>6. CASE ctl.op = "DEL"
      <3>1. stable' = Bumped /\ nodes' = Without(i)
        BY <1>3, <2>1, <2>4, <2>6 DEF CtlCommit
      <3> QED BY <1>1, <2>5, <2>6, <3>1, RemovedKeeps, Zenon
    <2>7. CASE ctl.op = "MOD"
      <3>1. stable' = Bumped /\ nodes' = [nodes EXCEPT ![i] = NewNode(ctl.fd, ctl.entry)]
        BY <1>3, <2>1, <2>4, <2>7 DEF CtlCommit
      <3> QED BY <1>1, <2>5, <2>7, <3>1, ReplacedKeeps, Zenon
    <2> QED BY <1>1, <1>3, <2>6, <2>7, Zenon
  <1> QED BY <1>2, <1>3

(* A waiter that saw the entry of an ADD that is taken back is marked. *)
LEMMA CtlRollbackKeeps ==
  ASSUME IInv, CtlRollback
  PROVE  IInv'
  <1>1. /\ ctl # None /\ ctl' = None /\ UNCHANGED <<file, nodes, wpc, event, stable, given>>
        /\ interest' = [interest EXCEPT ![<<ctl.fd, file[ctl.fd]>>] = None]
        /\ undone' = [w \in Waiters |-> undone[w] \/ wpc[w] \in {"wait", "decorate"}]
    BY DEF CtlRollback, RolledBack
  <1>2. PICK f : f = ctl.fd
    OBVIOUS
  <1>3. f \in Fds /\ file[f] \in Files
    BY <1>1, <1>2 DEF IInv, TypeOK, UnderWay, Control
  <1>4. /\ interest' \in [Keys -> Entry \cup {None}]
        /\ interest'[<<f, file[f]>>] = None
        /\ \A g \in Fds, o \in Files :
              g # f \/ o # file[f] => interest'[<<g, o>>] = interest[<<g, o>>]
    BY <1>1, <1>2, <1>3, OneEntry, Zenon DEF IInv
  <1>5. TypeOK'
    <2>1. undone' \in [Waiters -> BOOLEAN]
      BY <1>1 DEF IInv, TypeOK
    <2> QED BY <1>1, <1>4, <2>1 DEF IInv, TypeOK
  <1>6. ASSUME NEW g \in Fds, NEW q \in Files, Settled(g, q)'
        PROVE  Settled(g, q) /\ interest'[<<g, q>>] = interest[<<g, q>>]
    <2>1. g # f \/ q # file[f]
      BY <1>4, <1>6, Zenon DEF Settled
    <2> QED BY <1>2, <1>4, <1>6, <2>1, Zenon DEF Settled, Busy
  <1>7. Synced'
    <2>1. SUFFICES ASSUME NEW g \in Fds, NEW q \in Files, Settled(g, q)' PROVE Followed(g, q)'
      BY DEF Synced
    <2>2. Followed(g, q) /\ interest'[<<g, q>>] = interest[<<g, q>>]
      BY <1>6, <2>1, Zenon DEF IInv, Synced
    <2> QED BY <1>1, <2>2, Zenon DEF Followed
  <1>8. Separate'
    <2>1. SUFFICES ASSUME NEW g \in Fds, NEW o \in Files, NEW q \in Files, o # q,
                          Fingerprint[o] = Fingerprint[q], Settled(g, o)', Settled(g, q)'
                   PROVE  Doubled(g, o)'
      BY DEF Separate
    <2>2. Doubled(g, o)
      BY <1>6, <2>1, Zenon DEF IInv, Separate
    <2> QED BY <1>1, <2>2, Zenon DEF Doubled
  <1>9. UnderWay'
    BY <1>1 DEF UnderWay
  <1>10. ASSUME NEW w \in Waiters PROVE Waiting(w)'
    <2>1. /\ undone[w] => undone'[w]
          /\ wpc[w] = "decorate" => undone'[w]
      BY <1>1, Zenon
    <2> QED BY <1>1, <2>1, Zenon DEF IInv, Waiting
  <1> QED BY <1>5, <1>7, <1>8, <1>9, <1>10 DEF IInv

----------------------------------------------------------------------------
LEMMA StepIInv ==
  ASSUME IInv, [Next]_vars
  PROVE  IInv'
  <1>1. CASE Next
    <2>1. ASSUME NEW f \in Fds, NEW o \in Files, Open(f, o) PROVE IInv'
      BY <2>1, OpenKeeps
    <2>2. ASSUME NEW f \in Fds, NEW kept \in BOOLEAN, Close(f, kept) PROVE IInv'
      BY <2>2, CloseKeeps
    <2>3. ASSUME NEW f \in Fds, NEW op \in {"ADD", "MOD", "DEL"}, NEW e \in Entry, Ctl(op, f, e)
          PROVE  IInv'
      BY <2>3, CtlKeeps
    <2>4. ASSUME NEW f \in Fds, Rearm(f) PROVE IInv'
      BY <2>4, RearmKeeps
    <2>5. ASSUME NEW w \in Waiters, ReadGeneration(w) \/ NativeWait(w) \/ Decorate(w) \/ Return(w)
          PROVE  IInv'
      BY <2>5, ReadGenerationKeeps, NativeWaitKeeps, DecorateKeeps, ReturnKeeps
    <2> QED BY <1>1, <2>1, <2>2, <2>3, <2>4, <2>5, CtlCommitKeeps, CtlRollbackKeeps, Zenon DEF Next
  <1>2. CASE UNCHANGED vars
    <2>1. UNCHANGED <<file, interest, nodes, ctl, wpc, event, stable, given, undone>>
      BY <1>2 DEF vars
    <2>2. TypeOK'
      BY <2>1 DEF IInv, TypeOK
    <2> QED BY <2>1, <2>2, CalmKeeps, Zenon DEF waiting
  <1> QED BY <1>1, <1>2

(* port_ctl_ctx, port_rearm and posix_wait_ex keep the inductive           *)
(* invariant, whatever descriptors are opened, closed and reused.          *)
THEOREM Inductive == Spec => []IInv
  BY InitIInv, StepIInv, PTL DEF Spec

(* Whenever no control operation holds p->lock, every registration in the  *)
(* kernel has a node that says its data and its context: also when a       *)
(* descriptor was closed and reused, when two descriptions under one       *)
(* descriptor share a fingerprint, and when port_ctl_ctx had to take an    *)
(* ADD back.                                                               *)
THEOREM MetadataSynchronized == Spec => []Synchronized
  <1>1. IInv => Synchronized
    BY Zenon DEF IInv, Synced, Settled, Busy, Followed, Fits, Says, Synchronized
  <1> QED BY <1>1, Inductive, PTL

(* The context posix_wait_ex adds to an event is the one the registration  *)
(* had when the kernel produced the event: metadata_generation tells of    *)
(* every change of the nodes in between, unless an ADD was taken back.     *)
THEOREM ContextsRight == Spec => []ContextRight
  <1>1. IInv => ContextRight
    BY Zenon DEF IInv, Waiting, ContextRight
  <1> QED BY <1>1, Inductive, PTL
=============================================================================
