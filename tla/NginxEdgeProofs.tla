-------------------------- MODULE NginxEdgeProofs --------------------------
(***************************************************************************)
(* NginxEdge for any number of connections, reuses of their slots, batch   *)
(* sizes and failed calls: no class nginx waits for stays disarmed.        *)
(***************************************************************************)
EXTENDS NginxEdge, SequenceTheorems, TLAPS

Records == [c : Conns, inst : {0, 1}, inc : Nat, events : SUBSET All, write : BOOLEAN]
States == [registered : BOOLEAN, inst : {0, 1}, interests : SUBSET Classes,
           disarmed : SUBSET All, pending : SUBSET Classes]
Places == {"out", "wait", "record", "read_handler", "write", "write_handler", "rearm"}

TypeOK ==
    /\ open \in [Conns -> BOOLEAN] /\ inst \in [Conns -> {0, 1}] /\ inc \in [Conns -> Nat]
    /\ level \in [Conns -> SUBSET All] /\ state \in [Conns -> States]
    /\ disarmed \in [Conns -> SUBSET All] /\ node \in [Conns -> SUBSET All]
    /\ readyq \in Seq(Records) /\ batch \in Seq(Records) /\ pc \in Places

(* A registered slot is the open connection's; one that is not registered  *)
(* has nothing in the port.                                                *)
Bound ==
    \A c \in Conns :
        /\ state[c].registered => open[c] /\ state[c].inst = inst[c]
        /\ ~state[c].registered => /\ state[c].interests = {} /\ state[c].pending = {}
                                   /\ disarmed[c] = {} /\ node[c] = {}

(* A record of the connection that is open now was made for it. *)
Present(r) == r.inc = inc[r.c] /\ open[r.c]
Genuine(r) ==
    r.inc <= inc[r.c] /\ (Present(r) => state[r.c].registered /\ r.inst = inst[r.c])

(* The port's queue holds at most one node of a registration. *)
Queue ==
    /\ \A i \in DOMAIN readyq :
        /\ Genuine(readyq[i]) /\ readyq[i].events # {}
        /\ Present(readyq[i]) => readyq[i].events = node[readyq[i].c]
    /\ \A i, j \in DOMAIN readyq :
        i # j => readyq[i].c # readyq[j].c \/ readyq[i].inc # readyq[j].inc

Batch ==
    /\ \A i \in DOMAIN batch : Genuine(batch[i])
    /\ pc = "out" => batch = <<>>
    /\ pc \notin {"out", "wait"} => batch # <<>>

(* What the port has disarmed, the adapter knows or is going to be told. *)
Mirror ==
    \A c \in Conns : disarmed[c] \subseteq state[c].disarmed \cup DeliveryClasses(Undelivered(c))

Inv == TypeOK /\ Bound /\ Queue /\ Batch /\ Mirror /\ NeverStranded
----------------------------------------------------------------------------
(* The conjuncts for one connection *)
BoundAt(c) ==
    /\ state[c].registered => open[c] /\ state[c].inst = inst[c]
    /\ ~state[c].registered => /\ state[c].interests = {} /\ state[c].pending = {}
                               /\ disarmed[c] = {} /\ node[c] = {}
Told(c) ==
    /\ disarmed[c] \subseteq state[c].disarmed \cup DeliveryClasses(Undelivered(c))
    /\ \A k \in state[c].interests : k \in disarmed[c] =>
            k \in state[c].pending \/ k \in DeliveryClasses(Undelivered(c))

LEMMA PerConnection ==
  /\ Inv <=> TypeOK /\ Queue /\ Batch /\ \A c \in Conns : BoundAt(c) /\ Told(c)
  /\ Inv' <=> TypeOK' /\ Queue' /\ Batch' /\ \A c \in Conns : BoundAt(c)' /\ Told(c)'
  BY DEF Inv, Bound, Mirror, NeverStranded, BoundAt, Told

(* Where the batch is counted from *)
Counted(j, c) ==
    batch[j].c = c /\ batch[j].inc = inc[c] /\ (j = 1 => pc \in {"wait", "record"})

LEMMA UndeliveredIs ==
  ASSUME NEW c, NEW k
  PROVE  k \in Undelivered(c) <=>
            k \in node[c] \/ \E j \in DOMAIN batch : Counted(j, c) /\ k \in batch[j].events
  BY DEF Undelivered, Counted

LEMMA UndeliveredIsNext ==
  ASSUME NEW c, NEW k
  PROVE  k \in Undelivered(c)' <=>
            \/ k \in node'[c]
            \/ \E j \in DOMAIN batch' : /\ batch'[j].c = c /\ batch'[j].inc = inc'[c]
                                       /\ (j = 1 => pc' \in {"wait", "record"})
                                       /\ k \in batch'[j].events
  BY DEF Undelivered

LEMMA DeliveryIs ==
  ASSUME NEW X, NEW k
  PROVE  k \in DeliveryClasses(X) <=> IF "TERM" \in X THEN k \in All ELSE k \in X
  BY DEF DeliveryClasses

LEMMA UndeliveredType ==
  TypeOK => \A c \in Conns : Undelivered(c) \subseteq All
  <1> SUFFICES ASSUME TypeOK, NEW c \in Conns PROVE Undelivered(c) \subseteq All
    OBVIOUS
  <1>1. ASSUME NEW j \in DOMAIN batch PROVE batch[j].events \subseteq All
    <2>1. batch[j] \in Records
      BY DEF TypeOK
    <2> QED BY <2>1 DEF Records
  <1>2. node[c] \subseteq All
    BY DEF TypeOK
  <1> QED BY <1>1, <1>2, UndeliveredIs

LEMMA UndeliveredTypeNext ==
  (TypeOK => \A c \in Conns : Undelivered(c) \subseteq All)'
  BY UndeliveredType, PTL

(* More events on their way cover no less. *)
LEMMA DeliveryMonotonic ==
  ASSUME NEW X, NEW Y, X \subseteq Y, Y \subseteq All
  PROVE  DeliveryClasses(X) \subseteq DeliveryClasses(Y)
  BY DEF DeliveryClasses

LEMMA StillTold ==
  ASSUME NEW c \in Conns, Told(c), TypeOK', state'[c] = state[c], disarmed'[c] = disarmed[c],
         Undelivered(c) \subseteq Undelivered(c)'
  PROVE  Told(c)'
  <1>1. Undelivered(c)' \subseteq All
    BY UndeliveredTypeNext
  <1>2. DeliveryClasses(Undelivered(c)) \subseteq DeliveryClasses(Undelivered(c)')
    BY <1>1, DeliveryMonotonic
  <1>3. DeliveryClasses(Undelivered(c))' = DeliveryClasses(Undelivered(c)')
    BY DEF DeliveryClasses
  <1> QED BY <1>2, <1>3 DEF Told

LEMMA SameUndelivered ==
  ASSUME node' = node, batch' = batch, inc' = inc, NEW c,
         batch = <<>> \/ (pc \in {"wait", "record"} <=> pc' \in {"wait", "record"})
  PROVE  Undelivered(c)' = Undelivered(c)
  <1>1. CASE batch = <<>>
    BY <1>1 DEF Undelivered
  <1>2. CASE pc \in {"wait", "record"} <=> pc' \in {"wait", "record"}
    BY <1>2 DEF Undelivered
  <1> QED BY <1>1, <1>2

----------------------------------------------------------------------------
LEMMA InitInv == Init => Inv
  <1> SUFFICES ASSUME Init PROVE Inv
    OBVIOUS
  <1>1. TypeOK
    <2>1. Unbound \in States
      BY DEF Unbound, States
    <2> QED BY <2>1, EmptySeq DEF Init, TypeOK, Places, NoNode
  <1>2. Queue /\ Batch
    BY DEF Init, Queue, Batch
  <1>3. \A c \in Conns : BoundAt(c) /\ Told(c)
    BY DEF Init, BoundAt, Told, Unbound, NoNode
  <1> QED BY <1>1, <1>2, <1>3, PerConnection

(* Steps that leave the adapter's and the port's state as they are *)
LEMMA QuietSafe ==
  ASSUME Inv, UNCHANGED <<open, inst, inc, state, disarmed, node, readyq, batch>>,
         level' \in [Conns -> SUBSET All], pc' \in Places,
         pc' = "out" => batch = <<>>, pc' \notin {"out", "wait"} => batch # <<>>,
         batch = <<>> \/ (pc \in {"wait", "record"} <=> pc' \in {"wait", "record"})
  PROVE  Inv'
  <1>1. TypeOK'
    BY DEF Inv, TypeOK
  <1>2. Queue'
    BY DEF Inv, Queue, Genuine, Present
  <1>3. Batch'
    BY DEF Inv, Batch, Genuine, Present
  <1>4. ASSUME NEW c \in Conns
        PROVE  BoundAt(c)' /\ Told(c)'
    <2>1. BoundAt(c)'
      BY PerConnection DEF BoundAt
    <2>2. Undelivered(c)' = Undelivered(c)
      BY SameUndelivered
    <2> QED BY <1>1, <2>1, <2>2, StillTold, PerConnection
  <1> QED BY <1>1, <1>2, <1>3, <1>4, PerConnection
(* Steps of the adapter and the port that move no event *)
ToldBy(c, S, D) ==
    /\ D[c] \subseteq S[c].disarmed \cup DeliveryClasses(Undelivered(c))
    /\ \A k \in S[c].interests : k \in D[c] =>
            k \in S[c].pending \/ k \in DeliveryClasses(Undelivered(c))

LEMMA RecordsTyped ==
  ASSUME Inv
  PROVE  /\ \A i \in DOMAIN readyq : readyq[i] \in Records /\ readyq[i].c \in Conns
         /\ \A i \in DOMAIN batch : batch[i] \in Records /\ batch[i].c \in Conns
  <1>1. \A r \in Records : r.c \in Conns
    BY DEF Records
  <1>2. \A i \in DOMAIN readyq : readyq[i] \in Records
    BY DEF Inv, TypeOK
  <1>3. \A i \in DOMAIN batch : batch[i] \in Records
    BY DEF Inv, TypeOK
  <1> QED BY <1>1, <1>2, <1>3

LEMMA QueueKept ==
  ASSUME Inv, UNCHANGED <<open, inst, inc, node, readyq>>,
         \A c \in Conns : state[c].registered => state'[c].registered
  PROVE  Queue' /\ \A r \in Records : Genuine(r) => Genuine(r)'
  <1>1. ASSUME NEW r \in Records, Genuine(r) PROVE Genuine(r)'
    BY <1>1 DEF Genuine, Present, Records
  <1>2. Queue'
    BY <1>1, RecordsTyped DEF Inv, Queue, Present
  <1> QED BY <1>1, <1>2

LEMMA AdapterSafe ==
  ASSUME Inv, UNCHANGED <<open, inst, inc, level, node, readyq, batch>>,
         pc' = pc \/ (pc = "out" /\ pc' = "wait"),
         state' \in [Conns -> States], disarmed' \in [Conns -> SUBSET All],
         \A c \in Conns : /\ state[c].registered => state'[c].registered
                          /\ BoundAt(c)' /\ ToldBy(c, state', disarmed')
  PROVE  Inv'
  <1>1. TypeOK'
    BY DEF Inv, TypeOK, Places
  <1>2. Queue' /\ \A r \in Records : Genuine(r) => Genuine(r)'
    BY QueueKept
  <1>4. Batch'
    BY <1>2, RecordsTyped DEF Inv, Batch
  <1>5. ASSUME NEW c \in Conns PROVE Told(c)'
    <2>1. Undelivered(c)' = Undelivered(c)
      BY SameUndelivered DEF Inv, Batch
    <2>2. DeliveryClasses(Undelivered(c))' = DeliveryClasses(Undelivered(c))
      BY <2>1 DEF DeliveryClasses
    <2> QED BY <2>2 DEF Told, ToldBy
  <1> QED BY <1>1, <1>2, <1>4, <1>5, PerConnection

(* The same for a step of one connection *)
LEMMA SlotSafe ==
  ASSUME Inv, UNCHANGED <<open, inst, inc, level, node, readyq, batch, pc>>,
         NEW c \in Conns, NEW s \in States, NEW D \in SUBSET All,
         state' = [state EXCEPT ![c] = s], disarmed' = [disarmed EXCEPT ![c] = D],
         state[c].registered => s.registered,
         s.registered => open[c] /\ s.inst = inst[c],
         ~s.registered => /\ s.interests = {} /\ s.pending = {} /\ D = {} /\ node[c] = {},
         D \subseteq s.disarmed \cup DeliveryClasses(Undelivered(c)),
         \A k \in s.interests : k \in D =>
            k \in s.pending \/ k \in DeliveryClasses(Undelivered(c))
  PROVE  Inv'
  <1>1. /\ state \in [Conns -> States] /\ disarmed \in [Conns -> SUBSET All]
        /\ \A d \in Conns : BoundAt(d) /\ Told(d)
    BY PerConnection DEF TypeOK
  <1>2. state' \in [Conns -> States] /\ disarmed' \in [Conns -> SUBSET All]
    BY <1>1
  <1>3. state'[c] = s /\ disarmed'[c] = D
    BY <1>1
  <1>4. ASSUME NEW d \in Conns
        PROVE  /\ state[d].registered => state'[d].registered
               /\ BoundAt(d)' /\ ToldBy(d, state', disarmed')
    <2>1. CASE d = c
      BY <1>3, <2>1 DEF BoundAt, ToldBy
    <2>2. CASE d # c
      <3>1. state'[d] = state[d] /\ disarmed'[d] = disarmed[d]
        BY <1>1, <2>2
      <3> QED BY <1>1, <3>1 DEF BoundAt, Told, ToldBy
    <2> QED BY <2>1, <2>2
  <1> QED BY Zenon, <1>2, <1>4, AdapterSafe
----------------------------------------------------------------------------
LEMMA QuietSteps ==
  ASSUME Inv, NEW c \in Conns, NEW k, Peer(c, k) \/ Consume(c, k) \/ RunPosted(c, k)
  PROVE  Inv'
  <1> USE DEF coreVars, portVars, loopVars
  <1>0. level \in [Conns -> SUBSET All] /\ pc \in Places
        /\ (pc = "out" => batch = <<>>) /\ (pc \notin {"out", "wait"} => batch # <<>>)
    BY DEF Inv, TypeOK, Batch
  <1>1. CASE Peer(c, k)
    <2>1. k \in All
      BY <1>1 DEF Peer, Conditions, All, Classes
    <2> QED BY <1>0, <1>1, <2>1, QuietSafe DEF Peer
  <1>2. CASE Consume(c, k)
    BY <1>0, <1>2, QuietSafe DEF Consume
  <1>3. CASE RunPosted(c, k)
    BY <1>0, <1>3, QuietSafe DEF RunPosted
  <1> QED BY <1>1, <1>2, <1>3

LEMMA QuietLoop ==
  ASSUME Inv, WaitReturns \/ WaitFails \/ DispatchWrite \/ HandlerReturns
  PROVE  Inv'
  <1> USE DEF coreVars, portVars, loopVars, Places
  <1>0. level \in [Conns -> SUBSET All] /\ pc \in Places
        /\ (pc = "out" => batch = <<>>) /\ (pc \notin {"out", "wait"} => batch # <<>>)
    BY DEF Inv, TypeOK, Batch
  <1>1. CASE WaitReturns
    BY <1>0, <1>1, QuietSafe DEF WaitReturns
  <1>2. CASE WaitFails
    BY <1>0, <1>2, QuietSafe DEF WaitFails
  <1>3. CASE DispatchWrite
    BY <1>0, <1>3, QuietSafe DEF DispatchWrite
  <1>4. CASE HandlerReturns
    BY <1>0, <1>4, QuietSafe DEF HandlerReturns
  <1> QED BY <1>1, <1>2, <1>3, <1>4

(* What the adapter's functions on a state return *)
LEMMA RegisteredIs ==
  ASSUME Inv, NEW c \in Conns, open[c]
  PROVE  /\ Registered(c) \in States /\ Registered(c).registered
         /\ Registered(c).inst = inst[c] /\ Registered(c).interests = state[c].interests
         /\ Registered(c).pending = state[c].pending
         /\ state[c].registered => Registered(c).disarmed = state[c].disarmed
         /\ ~state[c].registered => Prepared(c) = [Unbound EXCEPT !.inst = inst[c]]
         /\ ~state[c].registered => Registered(c).disarmed = {}
  <1>1. state[c] \in States /\ inst[c] \in {0, 1} /\ BoundAt(c)
    BY PerConnection DEF TypeOK
  <1>2. CASE state[c].registered
    BY Zenon, <1>1, <1>2 DEF Registered, Prepared, States, BoundAt
  <1>3. CASE ~state[c].registered
    BY Zenon, <1>1, <1>3 DEF Registered, Prepared, States, BoundAt, Unbound
  <1> QED BY <1>2, <1>3

LEMMA SlotFacts ==
  ASSUME Inv, NEW c \in Conns
  PROVE  /\ state[c] \in States /\ disarmed[c] \in SUBSET All /\ inst[c] \in {0, 1}
         /\ disarmed = [disarmed EXCEPT ![c] = disarmed[c]]
         /\ BoundAt(c) /\ Told(c)
  BY PerConnection DEF TypeOK
LEMMA AddEventSafe ==
  ASSUME Inv, NEW c \in Conns, NEW k \in Classes, AddEvent(c, k)
  PROVE  Inv'
  <1> DEFINE s == Registered(c)
             t == [s EXCEPT !.interests = @ \cup {k}]
             U == DeliveryClasses(Undelivered(c))
  <1>1. open[c] /\ UNCHANGED <<open, inst, inc, level, node, readyq, batch, pc>>
    BY DEF AddEvent, loopVars
  <1>2. /\ s \in States /\ s.registered /\ s.inst = inst[c]
        /\ s.interests = state[c].interests /\ s.pending = state[c].pending
        /\ state[c].registered => s.disarmed = state[c].disarmed
        /\ ~state[c].registered => Prepared(c) = [Unbound EXCEPT !.inst = inst[c]]
        /\ ~state[c].registered => s.disarmed = {}
    BY <1>1, RegisteredIs
  <1>3. /\ state[c] \in States /\ disarmed[c] \in SUBSET All /\ inst[c] \in {0, 1}
        /\ disarmed = [disarmed EXCEPT ![c] = disarmed[c]]
        /\ ~state[c].registered => disarmed[c] = {} /\ node[c] = {} /\ state[c].interests = {}
        /\ disarmed[c] \subseteq state[c].disarmed \cup U
        /\ \A i \in state[c].interests : i \in disarmed[c] => i \in state[c].pending \/ i \in U
    BY SlotFacts DEF BoundAt, Told
  <1>4. /\ t \in States /\ t.registered = s.registered /\ t.inst = s.inst
        /\ t.interests = s.interests \cup {k} /\ t.pending = s.pending
        /\ t.disarmed = s.disarmed
    BY Zenon, <1>2 DEF States
  <1>5. disarmed[c] \subseteq s.disarmed \cup U
    BY <1>2, <1>3
  <1> HIDE DEF s, t, U
  <1>6. CASE /\ ~state[c].registered /\ state' = [state EXCEPT ![c] = Prepared(c)]
             /\ UNCHANGED disarmed
    <2>1. /\ Prepared(c) \in States /\ ~Prepared(c).registered
          /\ Prepared(c).interests = {} /\ Prepared(c).pending = {}
      BY Zenon, <1>2, <1>3, <1>6 DEF Unbound, States
    <2> QED BY Zenon, <1>1, <1>3, <1>6, <2>1, SlotSafe
  <1>7. CASE /\ MustRearm(s, k) = {}
             /\ state' = [state EXCEPT ![c] = [t EXCEPT !.pending = @ \ {k}]]
             /\ disarmed' = IF state[c].registered THEN disarmed
                            ELSE [disarmed EXCEPT ![c] = {}]
    <2> DEFINE w == [t EXCEPT !.pending = @ \ {k}]
    <2>1. /\ w \in States /\ w.registered /\ w.inst = inst[c]
          /\ w.interests = state[c].interests \cup {k} /\ w.pending = state[c].pending \ {k}
          /\ w.disarmed = s.disarmed
      BY Zenon, <1>2, <1>4 DEF States
    <2>2. k \notin w.disarmed
      BY <1>7, <2>1 DEF MustRearm
    <2>3. disarmed' = [disarmed EXCEPT ![c] = disarmed[c]]
      BY Zenon, <1>3, <1>7
    <2>4. \A i \in w.interests : i \in disarmed[c] => i \in w.pending \/ i \in U
      BY <1>3, <1>5, <2>1, <2>2
    <2>5. state' = [state EXCEPT ![c] = w]
      BY <1>7
    <2> HIDE DEF w
    <2> QED BY Zenon, <1>1, <1>3, <1>5, <2>1, <2>3, <2>4, <2>5, SlotSafe DEF U
  <1>8. CASE \E res \in Rearms(c) :
               /\ state' = [state EXCEPT ![c] = IF res = "ok" THEN Rearmed(t, {k}) ELSE s]
               /\ disarmed' = IF res = "ok"
                              THEN [disarmed EXCEPT ![c] = Armed(@, {k})] ELSE disarmed
    <2>1. PICK res \in Rearms(c) :
               /\ state' = [state EXCEPT ![c] = IF res = "ok" THEN Rearmed(t, {k}) ELSE s]
               /\ disarmed' = IF res = "ok"
                              THEN [disarmed EXCEPT ![c] = Armed(@, {k})] ELSE disarmed
      BY Zenon, <1>8
    <2>2. CASE res = "ok"
      <3> DEFINE w == Rearmed(t, {k})
                 D == disarmed[c] \ {k}
      <3>1. /\ w \in States /\ w.registered /\ w.inst = inst[c]
            /\ w.interests = state[c].interests \cup {k} /\ w.pending = state[c].pending \ {k}
            /\ w.disarmed = s.disarmed \ {k}
        BY Zenon, <1>2, <1>4 DEF States, Rearmed
      <3>2. \A i \in w.interests : i \in D => i \in w.pending \/ i \in U
        BY Zenon, <1>3, <3>1
      <3>3. D \subseteq w.disarmed \cup U
        BY <1>5, <3>1, Zenon
      <3>4. state' = [state EXCEPT ![c] = w] /\ disarmed' = [disarmed EXCEPT ![c] = D]
        BY <2>1, <2>2 DEF Armed
      <3>5. D \in SUBSET All
        BY <1>3
      <3> HIDE DEF w, D
      <3> QED BY Zenon, <1>1, <3>1, <3>2, <3>3, <3>4, <3>5, SlotSafe DEF U
    <2>3. CASE res # "ok"
      <3>1. state' = [state EXCEPT ![c] = s] /\ disarmed' = [disarmed EXCEPT ![c] = disarmed[c]]
        BY <1>3, <2>1, <2>3
      <3> QED BY Zenon, <1>1, <1>2, <1>3, <1>5, <3>1, SlotSafe DEF U
    <2> QED BY <2>2, <2>3
  <1> QED BY Zenon, <1>6, <1>7, <1>8 DEF AddEvent, s, t
LEMMA AddConnectionSafe ==
  ASSUME Inv, NEW c \in Conns, AddConnection(c)
  PROVE  Inv'
  <1> DEFINE s == Registered(c)
  <1>1. /\ open[c] /\ ~state[c].registered
        /\ UNCHANGED <<open, inst, inc, level, node, readyq, batch, pc>>
    BY DEF AddConnection, loopVars
  <1>2. /\ s \in States /\ s.registered /\ s.inst = inst[c]
        /\ Prepared(c) = [Unbound EXCEPT !.inst = inst[c]]
    BY <1>1, RegisteredIs
  <1>3. /\ inst[c] \in {0, 1} /\ disarmed[c] = {} /\ node[c] = {}
        /\ disarmed = [disarmed EXCEPT ![c] = {}]
    BY <1>1, SlotFacts DEF BoundAt
  <1> HIDE DEF s
  <1>4. CASE state' = [state EXCEPT ![c] = Prepared(c)] /\ UNCHANGED disarmed
    <2>1. /\ Prepared(c) \in States /\ ~Prepared(c).registered
          /\ Prepared(c).interests = {} /\ Prepared(c).pending = {}
      BY Zenon, <1>2, <1>3 DEF Unbound, States
    <2>2. {} \in SUBSET All
      OBVIOUS
    <2> QED BY Zenon, <1>1, <1>3, <1>4, <2>1, <2>2, SlotSafe
  <1>5. CASE /\ state' = [state EXCEPT ![c] = [s EXCEPT !.interests = Classes]]
             /\ disarmed' = [disarmed EXCEPT ![c] = {}]
    <2> DEFINE w == [s EXCEPT !.interests = Classes]
    <2>1. w \in States /\ w.registered /\ w.inst = inst[c]
      BY <1>2 DEF States
    <2>2. {} \in SUBSET All
      OBVIOUS
    <2> HIDE DEF w
    <2> QED BY Zenon, <1>1, <1>5, <2>1, <2>2, SlotSafe DEF w
  <1> QED BY <1>4, <1>5 DEF AddConnection, s

LEMMA DelEventSafe ==
  ASSUME Inv, NEW c \in Conns, NEW k, DelEvent(c, k)
  PROVE  Inv'
  <1> DEFINE w == [state[c] EXCEPT !.interests = @ \ {k}, !.pending = @ \ {k}]
  <1>1. UNCHANGED <<open, inst, inc, level, node, readyq, batch, pc, disarmed>>
    BY DEF DelEvent, loopVars, portVars
  <1>2. /\ state[c] \in States /\ disarmed[c] \in SUBSET All /\ BoundAt(c) /\ Told(c)
        /\ disarmed = [disarmed EXCEPT ![c] = disarmed[c]]
    BY SlotFacts
  <1>3. /\ w \in States /\ w.registered = state[c].registered /\ w.inst = state[c].inst
        /\ w.interests = state[c].interests \ {k} /\ w.pending = state[c].pending \ {k}
        /\ w.disarmed = state[c].disarmed
    BY Zenon, <1>2 DEF States
  <1>4. state' = [state EXCEPT ![c] = w]
    <2>1. state \in [Conns -> States]
      BY DEF Inv, TypeOK
    <2> QED BY Zenon, <2>1 DEF DelEvent, States
  <1> HIDE DEF w
  <1> QED BY Zenon, <1>1, <1>2, <1>3, <1>4, SlotSafe DEF BoundAt, Told

(* A slot is taken or given back: nothing that is under way is for it. *)
LEMMA SlotChanges ==
  ASSUME Inv, TypeOK', NEW c \in Conns, UNCHANGED <<readyq, batch, pc>>,
         ~state'[c].registered, state'[c].interests = {}, state'[c].pending = {},
         disarmed'[c] = {}, node'[c] = {},
         inc[c] <= inc'[c], open'[c] => inc[c] < inc'[c],
         \A d \in Conns \ {c} :
            /\ open'[d] = open[d] /\ inst'[d] = inst[d] /\ inc'[d] = inc[d]
            /\ state'[d] = state[d] /\ disarmed'[d] = disarmed[d] /\ node'[d] = node[d]
  PROVE  Inv'
  <1>0. inc[c] \in Nat /\ inc'[c] \in Nat
    BY DEF Inv, TypeOK
  <1>1. ASSUME NEW r \in Records, Genuine(r)
        PROVE  Genuine(r)' /\ (Present(r)' => Present(r) /\ r.c # c)
    <2>1. r.c \in Conns /\ r.inc \in Nat
      BY DEF Records
    <2>2. CASE r.c = c
      BY <1>0, <1>1, <2>1, <2>2 DEF Genuine, Present
    <2>3. CASE r.c # c
      BY <1>1, <2>1, <2>3, Zenon DEF Genuine, Present
    <2> QED BY <2>2, <2>3
  <1>2. Queue'
    <2>1. \A i \in DOMAIN readyq : readyq[i] \in Records /\ readyq[i].c \in Conns
      BY RecordsTyped
    <2>2. \A i \in DOMAIN readyq : Genuine(readyq[i])' /\ (Present(readyq[i])' => Present(readyq[i])
                                                            /\ readyq[i].c # c)
      BY <1>1, <2>1 DEF Inv, Queue
    <2> QED BY <2>1, <2>2 DEF Inv, Queue, Genuine, Present
  <1>3. Batch'
    <2>1. \A i \in DOMAIN batch : batch[i] \in Records
      BY DEF Inv, TypeOK
    <2>2. \A i \in DOMAIN batch : Genuine(batch[i])'
      BY <1>1, <2>1 DEF Inv, Batch
    <2> QED BY <2>2 DEF Inv, Batch, Genuine, Present
  <1>4. ASSUME NEW d \in Conns PROVE BoundAt(d)' /\ Told(d)'
    <2>1. CASE d = c
      BY <2>1 DEF BoundAt, Told
    <2>2. CASE d # c
      <3>1. Undelivered(d)' = Undelivered(d)
        BY <2>2 DEF Undelivered
      <3>2. BoundAt(d)'
        BY <2>2, PerConnection, Zenon DEF BoundAt
      <3> QED BY <2>2, <3>1, <3>2, StillTold, PerConnection, Zenon
    <2> QED BY <2>1, <2>2
  <1> QED BY <1>2, <1>3, <1>4, PerConnection

LEMMA OpenSafe ==
  ASSUME Inv, NEW c \in Conns, Open(c)
  PROVE  Inv'
  <1>1. TypeOK
    BY DEF Inv
  <1>2. TypeOK'
    <2>1. {"WRITE"} \cap Conditions(c) \in SUBSET All
      BY DEF All, Classes
    <2>2. 1 - inst[c] \in {0, 1} /\ inc[c] + 1 \in Nat
      <3>1. inst[c] \in {0, 1} /\ inc[c] \in Nat
        BY <1>1 DEF TypeOK
      <3>2. CASE inst[c] = 0
        BY <3>1, <3>2
      <3>3. CASE inst[c] = 1
        BY <3>1, <3>3
      <3> QED BY <3>1, <3>2, <3>3
    <2>3. inst' \in [Conns -> {0, 1}] /\ inc' \in [Conns -> Nat] /\ open' \in [Conns -> BOOLEAN]
      BY <1>1, <2>2 DEF Open, TypeOK
    <2>4. level' \in [Conns -> SUBSET All]
      BY <1>1, <2>1, Zenon DEF Open, TypeOK
    <2> QED BY <1>1, <2>3, <2>4 DEF Open, TypeOK, portVars, loopVars
  <1>3. ~state[c].registered /\ BoundAt(c)
    BY PerConnection DEF Open, BoundAt
  <1>4. inc[c] \in Nat /\ inc'[c] = inc[c] + 1
    BY <1>1 DEF TypeOK, Open
  <1>5. \A d \in Conns \ {c} :
            /\ open'[d] = open[d] /\ inst'[d] = inst[d] /\ inc'[d] = inc[d]
            /\ state'[d] = state[d] /\ disarmed'[d] = disarmed[d] /\ node'[d] = node[d]
    BY <1>1 DEF TypeOK, Open, portVars
  <1>6. UNCHANGED <<state, disarmed, node, readyq, batch, pc>>
    BY DEF Open, portVars, loopVars
  <1>7. inc[c] <= inc'[c] /\ inc[c] < inc'[c]
    BY <1>4
  <1> QED BY <1>2, <1>3, <1>5, <1>6, <1>7, SlotChanges DEF BoundAt

LEMMA CloseSafe ==
  ASSUME Inv, NEW c \in Conns, Close(c)
  PROVE  Inv'
  <1>1. TypeOK
    BY DEF Inv
  <1>2. TypeOK'
    <2>1. Unbound \in States
      BY DEF Unbound, States
    <2> QED BY <1>1, <2>1 DEF Close, TypeOK, NoNode, loopVars
  <1>3. /\ state'[c] = Unbound /\ disarmed'[c] = {} /\ node'[c] = {} /\ ~open'[c]
        /\ inc[c] \in Nat /\ inc'[c] = inc[c]
    BY <1>1 DEF TypeOK, Close, NoNode
  <1>4. \A d \in Conns \ {c} :
            /\ open'[d] = open[d] /\ inst'[d] = inst[d] /\ inc'[d] = inc[d]
            /\ state'[d] = state[d] /\ disarmed'[d] = disarmed[d] /\ node'[d] = node[d]
    BY <1>1 DEF TypeOK, Close
  <1>5. UNCHANGED <<readyq, batch, pc>>
    BY DEF Close, loopVars
  <1>6. ~Unbound.registered /\ Unbound.interests = {} /\ Unbound.pending = {}
    BY DEF Unbound
  <1>7. inc[c] <= inc'[c]
    BY <1>3
  <1> QED BY <1>2, <1>3, <1>4, <1>5, <1>6, <1>7, SlotChanges, Zenon
----------------------------------------------------------------------------
(* What is left of the batch after its first record *)
LEMMA TailIs ==
  ASSUME Inv, batch # <<>>, NextRecord
  PROVE  /\ batch' \in Seq(Records) /\ pc' \in Places
         /\ \A i \in DOMAIN batch' : i + 1 \in DOMAIN batch /\ batch'[i] = batch[i + 1]
         /\ \A j \in DOMAIN batch : j # 1 => /\ j - 1 \in DOMAIN batch'
                                            /\ batch'[j - 1] = batch[j] /\ pc' = "record"
         /\ pc' = "out" => batch' = <<>>
         /\ pc' # "out" => batch' # <<>>
  <1>1. /\ batch \in Seq(Records) /\ batch' = Tail(batch) /\ DOMAIN batch = 1 .. Len(batch)
        /\ Len(batch) \in Nat \ {0} /\ pc' = IF Len(batch) = 1 THEN "out" ELSE "record"
    BY DEF Inv, TypeOK, NextRecord
  <1>2. /\ batch' \in Seq(Records) /\ Len(batch') = Len(batch) - 1
        /\ \A i \in 1 .. Len(batch') : batch'[i] = batch[i + 1]
    BY <1>1, HeadTailProperties
  <1>3. DOMAIN batch' = 1 .. Len(batch')
    BY <1>2
  <1>4. Len(batch) = 1 => batch' = <<>>
    BY <1>1, <1>2, EmptySeq
  <1>5. Len(batch) # 1 => batch' # <<>>
    <2>1. Len(batch) # 1 => Len(batch') # 0
      BY <1>1, <1>2
    <2>2. batch' = <<>> => Len(batch') = 0
      BY <1>2, EmptySeq
    <2> QED BY <2>1, <2>2
  <1>6. pc' \in Places
    BY <1>1 DEF Places
  <1> QED BY <1>1, <1>2, <1>3, <1>4, <1>5, <1>6

LEMMA AdvanceSafe ==
  ASSUME Inv, batch # <<>>, NextRecord, UNCHANGED <<open, inst, inc, level, node, readyq>>,
         state' \in [Conns -> States], disarmed' \in [Conns -> SUBSET All],
         \A c \in Conns : /\ state[c].registered => state'[c].registered
                          /\ BoundAt(c)' /\ ToldBy(c, state', disarmed')
                          /\ ~Counted(1, c) \/ (disarmed'[c] = {} /\ state'[c].interests = {})
  PROVE  Inv'
  <1>1. TypeOK'
    BY TailIs DEF Inv, TypeOK
  <1>2. Queue' /\ \A r \in Records : Genuine(r) => Genuine(r)'
    BY QueueKept
  <1>3. Batch'
    <2>1. ASSUME NEW i \in DOMAIN batch' PROVE Genuine(batch[i])'
      <3>1. i + 1 \in DOMAIN batch /\ batch'[i] = batch[i + 1]
        BY TailIs
      <3>2. PICK r \in Records : r = batch[i + 1] /\ Genuine(r)
        BY <3>1, RecordsTyped, Zenon DEF Inv, Batch
      <3>3. Genuine(r)' /\ batch'[i] = r
        BY <1>2, <3>1, <3>2, Zenon
      <3> QED BY <3>3 DEF Genuine, Present
    <2>2. (pc' = "out" => batch' = <<>>) /\ (pc' # "out" => batch' # <<>>)
      BY TailIs, Zenon
    <2> QED BY <2>1, <2>2, Zenon DEF Batch
  <1>4. ASSUME NEW c \in Conns PROVE Told(c)'
    <2>1. CASE disarmed'[c] = {} /\ state'[c].interests = {}
      BY <2>1, Zenon DEF Told
    <2>2. CASE ~Counted(1, c)
      <3>1. Undelivered(c) \subseteq Undelivered(c)'
        <4> SUFFICES ASSUME NEW k \in Undelivered(c) PROVE k \in Undelivered(c)'
          OBVIOUS
        <4>1. CASE k \in node[c]
          BY <4>1, UndeliveredIsNext, Zenon
        <4>2. CASE \E j \in DOMAIN batch : Counted(j, c) /\ k \in batch[j].events
          <5>1. PICK j \in DOMAIN batch : Counted(j, c) /\ k \in batch[j].events
            BY <4>2
          <5>2. j # 1
            BY <2>2, <5>1
          <5>3. j - 1 \in DOMAIN batch' /\ batch'[j - 1] = batch[j] /\ pc' = "record"
            BY <5>2, TailIs
          <5> QED BY <5>1, <5>3, UndeliveredIsNext DEF Counted
        <4> QED BY <4>1, <4>2, UndeliveredIs
      <3>2. Undelivered(c)' \subseteq All
        BY <1>1, UndeliveredTypeNext, Zenon
      <3>3. DeliveryClasses(Undelivered(c)) \subseteq DeliveryClasses(Undelivered(c)')
        BY <3>1, <3>2, DeliveryMonotonic
      <3>4. DeliveryClasses(Undelivered(c))' = DeliveryClasses(Undelivered(c)')
        BY DEF DeliveryClasses
      <3> QED BY <3>3, <3>4 DEF Told, ToldBy
    <2> QED BY <2>1, <2>2, Zenon
  <1> QED BY <1>1, <1>2, <1>3, <1>4, PerConnection, Zenon
LEMMA UpdatedState ==
  ASSUME NEW p \in States, NEW Y \in SUBSET All, NEW Z \in SUBSET Classes
  PROVE  [p EXCEPT !.disarmed = Y, !.pending = Z] \in States
  BY Zenon DEF States

LEMMA RearmedIs ==
  ASSUME NEW p \in States, NEW X \in SUBSET All
  PROVE  /\ Rearmed(p, X) \in States /\ Rearmed(p, X).registered = p.registered
         /\ Rearmed(p, X).inst = p.inst /\ Rearmed(p, X).interests = p.interests
         /\ Rearmed(p, X).disarmed = p.disarmed \ X
         /\ Rearmed(p, X).pending = p.pending \ X
  <1> USE DEF Rearmed, States
  <1>1. Rearmed(p, X) \in States
    <2>1. p.disarmed \ X \in SUBSET All /\ p.pending \ X \in SUBSET Classes
      OBVIOUS
    <2> HIDE DEF States
    <2> QED BY Zenon, <2>1, UpdatedState
  <1>2. Rearmed(p, X).registered = p.registered
    OBVIOUS
  <1>3. Rearmed(p, X).inst = p.inst /\ Rearmed(p, X).interests = p.interests
    OBVIOUS
  <1>4. Rearmed(p, X).disarmed = p.disarmed \ X
    OBVIOUS
  <1>5. Rearmed(p, X).pending = p.pending \ X
    OBVIOUS
  <1> HIDE DEF Rearmed, States
  <1> QED BY <1>1, <1>2, <1>3, <1>4, <1>5

(* ngx_wepoll_rearm_ready_state rearms no class that it does not drop from *)
(* the copy as well.                                                       *)
Keeps(c, w, D) ==
    /\ w \in States /\ w.registered = state[c].registered /\ w.inst = state[c].inst
    /\ w.interests = state[c].interests /\ D \subseteq disarmed[c]
    /\ ~w.registered => w.pending = {}
    /\ D \subseteq w.disarmed \cup DeliveryClasses(Undelivered(c))
    /\ \A k \in w.interests : k \in D => k \in w.pending \/ k \in DeliveryClasses(Undelivered(c))

LEMMA RearmReadyIs ==
  ASSUME Inv, NEW c \in Conns, NEW res, NEW w, NEW D,
         w = RearmReady(state[c], c, res),
         D = IF res = "ok" THEN Armed(disarmed[c], DueNow(state[c], c)) ELSE disarmed[c]
  PROVE  Keeps(c, w, D)
  <1> DEFINE s == state[c]
             U == DeliveryClasses(Undelivered(c))
             v == Wanted(s, c)
             due == DueNow(s, c)
  <1>1. /\ s \in States /\ disarmed[c] \subseteq s.disarmed \cup U
        /\ \A k \in s.interests : k \in disarmed[c] => k \in s.pending \/ k \in U
        /\ ~s.registered => s.pending = {} /\ s.interests = {}
        /\ s.registered <=> Current(s, c)
    BY SlotFacts DEF BoundAt, Told, Current
  <1> HIDE DEF s, U
  <1>2. /\ v \in States /\ v.registered = s.registered /\ v.inst = s.inst
        /\ v.interests = s.interests /\ v.disarmed = s.disarmed
        /\ v.pending = s.pending \cap s.interests
    BY <1>1, Zenon DEF Wanted, States
  <1> HIDE DEF v, due
  <1>3. CASE res = "ok"
    <2>1. /\ w \in States /\ w.registered = s.registered /\ w.inst = s.inst
          /\ w.interests = s.interests /\ w.disarmed = s.disarmed \ due
          /\ w.pending = (s.pending \cap s.interests) \ due
      <3>1. w = Rearmed(v, due)
        BY <1>3 DEF RearmReady, v, due, s
      <3>2. due \in SUBSET All
        BY <1>1 DEF due, DueNow, Due, States, All
      <3> QED BY <1>2, <3>1, <3>2, RearmedIs
    <2>2. D = disarmed[c] \ due
      BY <1>3, Zenon DEF Armed, due, s
    <2> QED BY <1>1, <2>1, <2>2, Zenon DEF s, U, Keeps
  <1>4. CASE res # "ok"
    <2>1. w = v /\ D = disarmed[c]
      BY <1>4, Zenon DEF RearmReady, v, s
    <2> QED BY <1>1, <1>2, <2>1 DEF s, U, Keeps
  <1> QED BY <1>3, <1>4

LEMMA SkipSafe ==
  ASSUME Inv, Skip
  PROVE  Inv'
  <1>1. /\ batch # <<>> /\ NextRecord
        /\ UNCHANGED <<open, inst, inc, level, node, readyq, state, disarmed>>
    BY DEF Skip, Inv, Batch, coreVars, portVars
  <1>2. 1 \in DOMAIN batch /\ Head(batch) = batch[1]
    <2>1. batch \in Seq(Records)
      BY DEF Inv, TypeOK
    <2> QED BY <1>1, <2>1
  <1>3. ASSUME NEW c \in Conns, Counted(1, c)
        PROVE  disarmed[c] = {} /\ state[c].interests = {}
    <2>1. batch[1].c = c /\ batch[1].inc = inc[c] /\ Genuine(batch[1]) /\ ~Accepted(batch[1])
      BY <1>2, <1>3 DEF Counted, Inv, Batch, Skip
    <2>2. BoundAt(c)
      BY SlotFacts
    <2>3. ~state[c].registered
      BY <2>1, <2>2 DEF Genuine, Present, Accepted, Current, BoundAt
    <2> QED BY <2>2, <2>3 DEF BoundAt
  <1>4. state' \in [Conns -> States] /\ disarmed' \in [Conns -> SUBSET All]
    BY <1>1, Zenon DEF Inv, TypeOK
  <1>5. ASSUME NEW c \in Conns
        PROVE  /\ state[c].registered => state'[c].registered
               /\ BoundAt(c)' /\ ToldBy(c, state', disarmed')
               /\ ~Counted(1, c) \/ (disarmed'[c] = {} /\ state'[c].interests = {})
    <2>1. BoundAt(c) /\ Told(c)
      BY SlotFacts, Zenon
    <2> QED BY <1>1, <1>3, <2>1 DEF BoundAt, Told, ToldBy
  <1> QED BY <1>1, <1>4, <1>5, AdvanceSafe

LEMMA RearmRecordSafe ==
  ASSUME Inv, RearmRecord
  PROVE  Inv'
  <1>1. /\ batch # <<>> /\ NextRecord /\ pc = "rearm"
        /\ UNCHANGED <<open, inst, inc, level, node, readyq>>
    BY DEF RearmRecord, Inv, Batch
  <1> DEFINE c == Head(batch).c
             s == state[c]
             due == DueNow(s, c)
  <1>2. c \in Conns
    <2>1. batch \in Seq(Records)
      BY DEF Inv, TypeOK
    <2>2. 1 \in DOMAIN batch /\ Head(batch) = batch[1]
      BY <1>1, <2>1
    <2> QED BY <2>2, RecordsTyped
  <1>3. PICK res :
            /\ state' = [state EXCEPT ![c] = IF Current(s, c) THEN RearmReady(s, c, res) ELSE s]
            /\ disarmed' = IF res = "ok" THEN [disarmed EXCEPT ![c] = Armed(disarmed[c], due)]
                           ELSE disarmed
    <2>1. \E res \in IF due # {} THEN Rearms(c) ELSE {"ok"} :
            /\ state' = [state EXCEPT ![c] = IF Current(s, c) THEN RearmReady(s, c, res) ELSE s]
            /\ disarmed' = IF res = "ok" THEN [disarmed EXCEPT ![c] = Armed(@, due)] ELSE disarmed
            /\ active' = IF res = "ok" THEN [active EXCEPT ![c] = @ \cup due] ELSE active
            /\ faults' = IF res = "fail" THEN faults + 1 ELSE faults
      BY Zenon DEF RearmRecord
    <2> HIDE DEF c, s, due
    <2> QED BY <2>1, Zenon
  <1> DEFINE w == IF Current(s, c) THEN RearmReady(s, c, res) ELSE s
             D == IF res = "ok" THEN Armed(disarmed[c], due) ELSE disarmed[c]
  <1>4. state \in [Conns -> States] /\ disarmed \in [Conns -> SUBSET All]
    BY DEF Inv, TypeOK
  <1>5. state' = [state EXCEPT ![c] = w] /\ disarmed' = [disarmed EXCEPT ![c] = D]
    <2>1. disarmed = [disarmed EXCEPT ![c] = disarmed[c]]
      BY <1>2, SlotFacts, Zenon
    <2>2. state' = [state EXCEPT ![c] = w]
      BY <1>3
    <2>3. disarmed' = [disarmed EXCEPT ![c] = D]
      <3>1. CASE res = "ok"
        BY <1>3, <3>1
      <3>2. CASE res # "ok"
        BY <1>3, <2>1, <3>2, Zenon
      <3> QED BY <3>1, <3>2
    <2> QED BY <2>2, <2>3
  <1>6. Keeps(c, w, D)
    <2>1. CASE Current(s, c)
      <3>1. w = RearmReady(s, c, res)
        BY <2>1
      <3>2. D = IF res = "ok" THEN Armed(disarmed[c], DueNow(state[c], c)) ELSE disarmed[c]
        OBVIOUS
      <3> HIDE DEF w, D, c, due
      <3> QED BY <1>2, <3>1, <3>2, RearmReadyIs
    <2>2. CASE ~Current(s, c)
      <3>1. w = s /\ D = disarmed[c]
        BY Zenon, <2>2 DEF DueNow, Armed
      <3>2. BoundAt(c) /\ Told(c) /\ s \in States
        BY <1>2, SlotFacts
      <3> QED BY Zenon, <3>1, <3>2 DEF BoundAt, Told, Keeps
    <2> QED BY <2>1, <2>2
  <1> HIDE DEF c, w, D, due
  <1>7. state'[c] = w /\ disarmed'[c] = D
    BY <1>2, <1>4, <1>5
  <1>8. state' \in [Conns -> States] /\ disarmed' \in [Conns -> SUBSET All]
    <2>1. D \in SUBSET All
      BY <1>2, <1>4, <1>6, Zenon DEF Keeps
    <2> QED BY Zenon, <1>4, <1>5, <1>6, <2>1 DEF Keeps
  <1>9. ASSUME NEW d \in Conns
        PROVE  /\ state[d].registered => state'[d].registered
               /\ BoundAt(d)' /\ ToldBy(d, state', disarmed')
               /\ ~Counted(1, d)
    <2>0. BoundAt(d) /\ Told(d) /\ ~Counted(1, d)
      BY <1>1, SlotFacts, Zenon DEF Counted
    <2>1. CASE d = c
      BY <1>1, <1>6, <1>7, <2>0, <2>1, Zenon DEF BoundAt, ToldBy, Keeps
    <2>2. CASE d # c
      <3>1. state'[d] = state[d] /\ disarmed'[d] = disarmed[d]
        BY <1>4, <1>5, <2>2
      <3> QED BY <1>1, <2>0, <3>1 DEF BoundAt, Told, ToldBy
    <2> QED BY <2>1, <2>2
  <1> QED BY <1>1, <1>8, <1>9, AdvanceSafe, Zenon
LEMMA SweepSafe ==
  ASSUME Inv, Sweep
  PROVE  Inv'
  <1> DEFINE due == {c \in Conns : queued[c] /\ DueNow(state[c], c) # {}}
  <1>1. /\ UNCHANGED <<open, inst, inc, level, node, readyq, batch>> /\ pc = "out" /\ pc' = "wait"
    BY DEF Sweep
  <1>2. PICK res \in [Conns -> {"ok", "busy", "fail"}] :
          /\ state' = [c \in Conns |-> IF queued[c] THEN RearmReady(state[c], c, res[c])
                                       ELSE state[c]]
          /\ disarmed' = [c \in Conns |-> IF c \in {d \in due : res[d] = "ok"}
                             THEN Armed(disarmed[c], DueNow(state[c], c)) ELSE disarmed[c]]
    BY Zenon DEF Sweep, Swept
  <1> HIDE DEF due
  <1>3. ASSUME NEW c \in Conns PROVE Keeps(c, state'[c], disarmed'[c])
    <2>1. /\ state'[c] = IF queued[c] THEN RearmReady(state[c], c, res[c]) ELSE state[c]
          /\ disarmed'[c] = IF c \in due /\ res[c] = "ok"
                            THEN Armed(disarmed[c], DueNow(state[c], c)) ELSE disarmed[c]
      BY <1>2, Zenon
    <2>2. CASE queued[c]
      <3>1. c \in due <=> DueNow(state[c], c) # {}
        BY <2>2 DEF due
      <3>2. disarmed'[c] = IF res[c] = "ok" THEN Armed(disarmed[c], DueNow(state[c], c))
                           ELSE disarmed[c]
        BY <2>1, <3>1 DEF Armed
      <3>3. state'[c] = RearmReady(state[c], c, res[c])
        BY <2>1, <2>2, Zenon
      <3> QED BY <3>2, <3>3, RearmReadyIs
    <2>3. CASE ~queued[c]
      <3>1. state'[c] = state[c] /\ disarmed'[c] = disarmed[c]
        BY <2>1, <2>3 DEF due
      <3>2. BoundAt(c) /\ Told(c) /\ state[c] \in States
        BY SlotFacts
      <3> QED BY <3>1, <3>2 DEF BoundAt, Told, Keeps
    <2> QED BY <2>2, <2>3, Zenon
  <1>4. state' \in [Conns -> States] /\ disarmed' \in [Conns -> SUBSET All]
    <2>1. DOMAIN state' = Conns /\ DOMAIN disarmed' = Conns
      BY <1>2, Zenon
    <2>2. \A c \in Conns : state'[c] \in States /\ disarmed'[c] \in SUBSET All
      <3>1. \A c \in Conns : disarmed[c] \in SUBSET All
        BY SlotFacts, Zenon
      <3> QED BY <1>3, <3>1 DEF Keeps
    <2>3. state' = [c \in Conns |-> state'[c]] /\ disarmed' = [c \in Conns |-> disarmed'[c]]
      BY <1>2, Zenon
    <2> QED BY <2>1, <2>2, <2>3
  <1>5. ASSUME NEW c \in Conns
        PROVE  /\ state[c].registered => state'[c].registered
               /\ BoundAt(c)' /\ ToldBy(c, state', disarmed')
    <2>1. BoundAt(c)
      BY SlotFacts
    <2> QED BY <1>1, <1>3, <2>1 DEF BoundAt, ToldBy, Keeps
  <1> QED BY <1>1, <1>4, <1>5, AdapterSafe, Zenon

LEMMA CompleteSafe ==
  ASSUME Inv, NEW c \in Conns, Complete(c)
  PROVE  Inv'
  <1> DEFINE events == level[c] \ disarmed[c]
             r == [c |-> c, inst |-> state[c].inst, inc |-> inc[c], events |-> events,
                   write |-> FALSE]
  <1>1. /\ pc = "wait" /\ state[c].registered /\ node[c] = {} /\ events # {}
        /\ node' = [node EXCEPT ![c] = events] /\ readyq' = Append(readyq, r)
        /\ disarmed' = [disarmed EXCEPT ![c] = @ \cup DeliveryClasses(events)]
        /\ UNCHANGED <<open, inst, inc, level, state, batch, pc>>
    BY DEF Complete, NoNode, coreVars, loopVars
  <1>2. /\ events \in SUBSET All /\ state[c] \in States /\ inc[c] \in Nat
        /\ BoundAt(c) /\ Told(c) /\ TypeOK
    BY PerConnection, Zenon DEF TypeOK
  <1>3. r \in Records /\ r.c = c /\ r.inc = inc[c] /\ r.inst = state[c].inst /\ r.events = events
    BY <1>2 DEF Records, States
  <1>4. DeliveryClasses(events) \in SUBSET All
    BY <1>2 DEF DeliveryClasses
  <1> HIDE DEF r, events
  <1>5. TypeOK'
    <2>1. readyq' \in Seq(Records)
      BY <1>1, <1>2, <1>3 DEF TypeOK
    <2>2. node' \in [Conns -> SUBSET All] /\ disarmed' \in [Conns -> SUBSET All]
      <3>1. disarmed[c] \cup DeliveryClasses(events) \in SUBSET All
        BY <1>2, <1>4, Zenon DEF TypeOK
      <3> QED BY <1>1, <1>2, <3>1 DEF TypeOK
    <2> QED BY <1>1, <1>2, <2>1, <2>2, Zenon DEF TypeOK
  <1>6. /\ DOMAIN readyq' = DOMAIN readyq \cup {Len(readyq) + 1}
        /\ readyq'[Len(readyq) + 1] = r /\ Len(readyq) + 1 \notin DOMAIN readyq
        /\ \A i \in DOMAIN readyq : readyq'[i] = readyq[i]
    <2>1. readyq \in Seq(Records)
      BY <1>2, Zenon DEF TypeOK
    <2> QED BY <1>1, <1>3, <2>1, AppendProperties
  <1>7. \A i \in DOMAIN readyq : readyq[i].c # c \/ readyq[i].inc # inc[c]
    BY <1>1, <1>2, Zenon DEF Inv, Queue, Present, BoundAt
  <1>8. Queue'
    <2>1. ASSUME NEW i \in DOMAIN readyq
          PROVE  /\ Genuine(readyq[i])' /\ readyq'[i].events # {}
                 /\ Present(readyq[i])' => readyq'[i].events = node'[readyq'[i].c]
      <3>1. /\ Genuine(readyq[i]) /\ readyq[i].events # {} /\ readyq'[i] = readyq[i]
            /\ Present(readyq[i]) => readyq[i].events = node[readyq[i].c]
        BY <1>6 DEF Inv, Queue
      <3>2. Present(readyq[i]) => readyq[i].c # c
        BY <1>7, Zenon DEF Present
      <3>3. readyq[i].c # c => node'[readyq[i].c] = node[readyq[i].c]
        BY <1>1, <1>2, RecordsTyped, Zenon DEF TypeOK
      <3> QED BY <1>1, <3>1, <3>2, <3>3, Zenon DEF Genuine, Present
    <2>2. ASSUME NEW i \in DOMAIN readyq', i = Len(readyq) + 1
          PROVE  /\ Genuine(readyq[i])' /\ readyq'[i].events # {}
                 /\ Present(readyq[i])' => readyq'[i].events = node'[readyq'[i].c]
      <3>1. readyq'[i] = r /\ node'[c] = events
        BY <1>1, <1>2, <1>6, <2>2, Zenon DEF TypeOK
      <3> QED BY <1>1, <1>2, <1>3, <3>1 DEF Genuine, Present, BoundAt
    <2>3. ASSUME NEW i \in DOMAIN readyq', NEW j \in DOMAIN readyq', i # j
          PROVE  readyq'[i].c # readyq'[j].c \/ readyq'[i].inc # readyq'[j].inc
      <3>1. CASE i \in DOMAIN readyq /\ j \in DOMAIN readyq
        BY <1>6, <2>3, <3>1 DEF Inv, Queue
      <3>2. CASE i \in DOMAIN readyq /\ j \notin DOMAIN readyq
        BY <1>3, <1>6, <1>7, <3>2, Zenon
      <3>3. CASE i \notin DOMAIN readyq /\ j \in DOMAIN readyq
        BY <1>3, <1>6, <1>7, <3>3, Zenon
      <3> QED BY <1>6, <2>3, <3>1, <3>2, <3>3, Zenon
    <2> QED BY <1>6, <2>1, <2>2, <2>3, Zenon DEF Queue
  <1>9. Batch'
    BY <1>1 DEF Inv, Batch, Genuine, Present
  <1>10. ASSUME NEW d \in Conns PROVE BoundAt(d)' /\ Told(d)'
    <2>0. BoundAt(d) /\ Told(d)
      BY SlotFacts
    <2>1. CASE d # c
      <3>1. node'[d] = node[d] /\ disarmed'[d] = disarmed[d] /\ state'[d] = state[d]
        BY <1>1, <1>2, <2>1, Zenon DEF TypeOK
      <3>2. Undelivered(d)' = Undelivered(d)
        BY <1>1, <3>1 DEF Undelivered
      <3>3. BoundAt(d)'
        BY <1>1, <2>0, <3>1 DEF BoundAt
      <3> QED BY <1>5, <2>0, <3>1, <3>2, <3>3, StillTold, Zenon
    <2>2. CASE d = c
      <3>1. node'[c] = events /\ disarmed'[c] = disarmed[c] \cup DeliveryClasses(events)
        BY <1>1, <1>2, Zenon DEF TypeOK
      <3>2. Undelivered(c) \subseteq Undelivered(c)' /\ events \subseteq Undelivered(c)'
        BY <1>1, <3>1 DEF Undelivered
      <3>3. Undelivered(c)' \subseteq All
        BY <1>5, UndeliveredTypeNext
      <3>4. /\ DeliveryClasses(Undelivered(c)) \subseteq DeliveryClasses(Undelivered(c)')
            /\ DeliveryClasses(events) \subseteq DeliveryClasses(Undelivered(c)')
        BY <3>2, <3>3, DeliveryMonotonic
      <3>5. DeliveryClasses(Undelivered(c))' = DeliveryClasses(Undelivered(c)')
        BY DEF DeliveryClasses
      <3> QED BY Zenon, <1>1, <1>2, <2>2, <3>1, <3>4, <3>5 DEF Told, BoundAt
    <2> QED BY <2>1, <2>2
  <1> QED BY <1>5, <1>8, <1>9, <1>10, PerConnection, Zenon
LEMMA DrainNodeSafe ==
  ASSUME Inv, DrainNode
  PROVE  Inv'
  <1> DEFINE r == Head(readyq)
             fresh == state[r.c].registered /\ r.inc = inc[r.c]
  <1>1. /\ pc = "wait" /\ readyq # <<>> /\ readyq' = Tail(readyq)
        /\ batch' = IF fresh THEN Append(batch, r) ELSE batch
        /\ node' = IF fresh THEN [node EXCEPT ![r.c] = {}] ELSE node
        /\ UNCHANGED <<open, inst, inc, level, state, disarmed, pc>>
    BY DEF DrainNode, NoNode, coreVars
  <1>2. TypeOK /\ readyq \in Seq(Records) /\ batch \in Seq(Records)
    BY Zenon DEF Inv, TypeOK
  <1>3. 1 \in DOMAIN readyq /\ r = readyq[1] /\ r \in Records /\ r.c \in Conns
    <2>1. 1 \in DOMAIN readyq /\ r = readyq[1]
      BY <1>1, <1>2
    <2> QED BY <2>1, RecordsTyped, Zenon
  <1>4. /\ readyq' \in Seq(Records)
        /\ \A i \in DOMAIN readyq' : /\ i + 1 \in DOMAIN readyq /\ i + 1 # 1 /\ i \in Nat
                                     /\ readyq'[i] = readyq[i + 1]
    BY <1>1, <1>2, HeadTailProperties
  <1>5. fresh => Present(r) /\ r.events = node[r.c] /\ Genuine(r)
    BY <1>3, SlotFacts DEF Inv, Queue, Present, BoundAt
  <1> HIDE DEF r
  <1>6. TypeOK'
    <2>1. batch' \in Seq(Records)
      BY <1>1, <1>2, <1>3
    <2>2. node' \in [Conns -> SUBSET All]
      BY Zenon, <1>1, <1>2 DEF TypeOK
    <2> QED BY <1>1, <1>2, <1>4, <2>1, <2>2, Zenon DEF TypeOK
  <1>7. Queue'
    <2>1. ASSUME NEW i \in DOMAIN readyq'
          PROVE  /\ Genuine(readyq[i])' /\ readyq'[i].events # {}
                 /\ Present(readyq[i])' => readyq'[i].events = node'[readyq'[i].c]
      <3>1. PICK q \in Records : /\ q = readyq[i + 1] /\ q = readyq'[i] /\ q.c \in Conns
                                 /\ Genuine(q) /\ q.events # {}
                                 /\ Present(q) => q.events = node[q.c]
                                 /\ q.c # r.c \/ q.inc # r.inc
        BY <1>3, <1>4, RecordsTyped DEF Inv, Queue
      <3>2. Present(q) => node'[q.c] = node[q.c]
        <4>1. CASE fresh
          BY <1>1, <1>2, <1>3, <3>1, <4>1, Zenon DEF Present, TypeOK
        <4>2. CASE ~fresh
          BY <1>1, <4>2, Zenon
        <4> QED BY <4>1, <4>2, Zenon
      <3> QED BY <1>1, <3>1, <3>2, Zenon DEF Genuine, Present
    <2>2. ASSUME NEW i \in DOMAIN readyq', NEW j \in DOMAIN readyq', i # j
          PROVE  readyq'[i].c # readyq'[j].c \/ readyq'[i].inc # readyq'[j].inc
      <3>1. i + 1 # j + 1
        BY <1>4, <2>2
      <3> QED BY <1>4, <3>1 DEF Inv, Queue
    <2> QED BY <2>1, <2>2, Zenon DEF Queue
  <1>8. CASE ~fresh
    <2>1. Batch'
      BY <1>1, <1>8 DEF Inv, Batch, Genuine, Present
    <2>2. ASSUME NEW d \in Conns PROVE BoundAt(d)' /\ Told(d)'
      <3>1. Undelivered(d)' = Undelivered(d)
        BY <1>1, <1>8 DEF Undelivered
      <3>2. BoundAt(d)'
        BY <1>1, <1>8, SlotFacts, Zenon DEF BoundAt
      <3> QED BY <1>1, <1>6, <3>1, <3>2, StillTold, SlotFacts, Zenon
    <2> QED BY <1>6, <1>7, <2>1, <2>2, PerConnection, Zenon
  <1>9. CASE fresh
    <2>1. /\ DOMAIN batch' = DOMAIN batch \cup {Len(batch) + 1}
          /\ batch'[Len(batch) + 1] = r
          /\ \A i \in DOMAIN batch : batch'[i] = batch[i]
      BY <1>1, <1>2, <1>3, <1>9, AppendProperties
    <2>2. Batch'
      <3>1. ASSUME NEW i \in DOMAIN batch' PROVE Genuine(batch[i])'
        <4>1. PICK q : q = batch'[i] /\ Genuine(q)
          BY <1>5, <1>9, <2>1 DEF Inv, Batch
        <4> QED BY <1>1, <4>1, Zenon DEF Genuine, Present
      <3> QED BY <1>1, <3>1, Zenon DEF Batch
    <2>3. ASSUME NEW d \in Conns PROVE BoundAt(d)' /\ Told(d)'
      <3>1. node'[d] = IF d = r.c THEN {} ELSE node[d]
        BY <1>1, <1>2, <1>9, Zenon DEF TypeOK
      <3>2. BoundAt(d)'
        BY <1>1, <3>1, SlotFacts, Zenon DEF BoundAt
      <3>3. Undelivered(d) \subseteq Undelivered(d)'
        <4> SUFFICES ASSUME NEW k \in Undelivered(d) PROVE k \in Undelivered(d)'
          OBVIOUS
        <4>1. CASE k \in node[d] /\ d # r.c
          BY <3>1, <4>1, UndeliveredIsNext, Zenon
        <4>2. CASE k \in node[d] /\ d = r.c
          <5>1. /\ Len(batch) + 1 \in DOMAIN batch' /\ batch'[Len(batch) + 1].c = d
                /\ batch'[Len(batch) + 1].inc = inc'[d] /\ k \in batch'[Len(batch) + 1].events
                /\ pc' = "wait"
            BY <1>1, <1>5, <1>9, <2>1, <4>2, Zenon
          <5> QED BY <5>1, UndeliveredIsNext, Zenon
        <4>3. CASE \E j \in DOMAIN batch : Counted(j, d) /\ k \in batch[j].events
          <5>1. PICK j \in DOMAIN batch : Counted(j, d) /\ k \in batch[j].events
            BY <4>3
          <5>2. j \in DOMAIN batch' /\ batch'[j] = batch[j]
            BY <2>1
          <5> QED BY <1>1, <5>1, <5>2, UndeliveredIsNext DEF Counted
        <4> QED BY <4>1, <4>2, <4>3, UndeliveredIs
      <3> QED BY <1>1, <1>6, <3>2, <3>3, StillTold, SlotFacts, Zenon
    <2> QED BY <1>6, <1>7, <2>2, <2>3, PerConnection
  <1> QED BY <1>8, <1>9, Zenon
LEMMA DeliveryUnion ==
  ASSUME NEW X, NEW Y, NEW Z, X \subseteq Y \cup Z, Y \subseteq All, Z \subseteq All
  PROVE  DeliveryClasses(X) \subseteq DeliveryClasses(Y) \cup DeliveryClasses(Z)
  BY DEF DeliveryClasses

LEMMA MarkedIs ==
  ASSUME NEW p \in States, NEW r \in Records
  PROVE  /\ Marked(r, p) \in States /\ Marked(r, p).registered = p.registered
         /\ Marked(r, p).inst = p.inst /\ Marked(r, p).interests = p.interests
         /\ Marked(r, p).disarmed = p.disarmed \cup DeliveryClasses(r.events)
         /\ Marked(r, p).pending = p.pending \cup (DeliveryClasses(r.events) \cap p.interests)
  <1> DEFINE d == DeliveryClasses(r.events)
  <1>1. p.disarmed \cup d \in SUBSET All /\ p.pending \cup (d \cap p.interests) \in SUBSET Classes
    BY DEF States, Records, DeliveryClasses
  <1>2. Marked(r, p) = [p EXCEPT !.disarmed = p.disarmed \cup d,
                                 !.pending = p.pending \cup (d \cap p.interests)]
    BY DEF Marked
  <1> HIDE DEF d
  <1>3. Marked(r, p) \in States
    <2> DEFINE Y == p.disarmed \cup d
               Z == p.pending \cup (d \cap p.interests)
    <2>1. Y \in SUBSET All /\ Z \in SUBSET Classes
      BY <1>1
    <2>2. Marked(r, p) = [p EXCEPT !.disarmed = Y, !.pending = Z]
      BY <1>2
    <2> HIDE DEF Y, Z
    <2>3. [p EXCEPT !.disarmed = Y, !.pending = Z] \in States
      BY Zenon, <2>1, UpdatedState
    <2> QED BY <2>2, <2>3
  <1>4. Marked(r, p).registered = p.registered
    BY <1>2 DEF States
  <1>5. Marked(r, p).inst = p.inst /\ Marked(r, p).interests = p.interests
    BY <1>2 DEF States
  <1>6. Marked(r, p).disarmed = p.disarmed \cup d
    BY <1>2 DEF States
  <1>7. Marked(r, p).pending = p.pending \cup (d \cap p.interests)
    BY <1>2 DEF States
  <1> QED BY <1>3, <1>4, <1>5, <1>6, <1>7 DEF d

LEMMA DispatchSafe ==
  ASSUME Inv, Dispatch
  PROVE  Inv'
  <1> DEFINE r == Head(batch)
             c == r.c
             s == Marked(r, state[c])
             t == [r EXCEPT !.write = "WRITE" \in DeliveryClasses(r.events) \cap s.interests]
  <1>1. /\ pc = "record" /\ Accepted(r) /\ state' = [state EXCEPT ![c] = s]
        /\ batch' = <<t>> \o Tail(batch) /\ pc' \in {"read_handler", "write"}
        /\ UNCHANGED <<open, inst, inc, level, disarmed, node, readyq>>
    BY Zenon DEF Dispatch, portVars
  <1>2. TypeOK /\ batch \in Seq(Records) /\ batch # <<>>
    BY <1>1 DEF Inv, TypeOK, Batch
  <1>3. 1 \in DOMAIN batch /\ r = batch[1] /\ r \in Records /\ c \in Conns /\ Genuine(r)
    <2>1. 1 \in DOMAIN batch /\ r = batch[1]
      BY <1>2
    <2>2. Genuine(batch[1])
      BY <2>1 DEF Inv, Batch
    <2> QED BY <2>1, <2>2, RecordsTyped
  <1>4. /\ t \in Records /\ t.c = c /\ t.inc = r.inc /\ t.inst = r.inst /\ t.events = r.events
    <2> DEFINE b == "WRITE" \in DeliveryClasses(r.events) \cap s.interests
    <2>1. b \in BOOLEAN
      OBVIOUS
    <2>2. r \in Records
      BY <1>3
    <2> HIDE DEF b, r
    <2>3. [r EXCEPT !.write = b] \in Records
      BY <2>1, <2>2 DEF Records
    <2>4. /\ [r EXCEPT !.write = b].c = r.c /\ [r EXCEPT !.write = b].inc = r.inc
          /\ [r EXCEPT !.write = b].inst = r.inst /\ [r EXCEPT !.write = b].events = r.events
      BY <2>2 DEF Records
    <2> QED BY <2>3, <2>4 DEF b
  <1>5. /\ state[c] \in States /\ BoundAt(c) /\ Told(c) /\ state[c].registered
    BY <1>1, <1>3, SlotFacts DEF Accepted, Current
  <1>6. /\ s \in States /\ s.registered = state[c].registered
        /\ s.inst = state[c].inst /\ s.interests = state[c].interests
        /\ s.disarmed = state[c].disarmed \cup DeliveryClasses(r.events)
        /\ s.pending = state[c].pending \cup (DeliveryClasses(r.events) \cap state[c].interests)
    BY Zenon, <1>3, <1>5, MarkedIs
  <1>7. r.events \subseteq All
    BY <1>3 DEF Records
  <1> HIDE DEF r, c, s, t
  <1>8. /\ batch' \in Seq(Records) /\ DOMAIN batch' = DOMAIN batch /\ batch'[1] = t
        /\ batch' # <<>> /\ \A j \in DOMAIN batch : j # 1 => batch'[j] = batch[j]
    <2>1. /\ Tail(batch) \in Seq(Records) /\ Len(Tail(batch)) = Len(batch) - 1
          /\ \A i \in 1 .. Len(Tail(batch)) : Tail(batch)[i] = batch[i + 1]
      BY <1>2, HeadTailProperties
    <2>2. <<t>> \in Seq(Records) /\ Len(<<t>>) = 1 /\ <<t>>[1] = t
      BY <1>4
    <2>3. /\ batch' \in Seq(Records) /\ Len(batch') = 1 + Len(Tail(batch))
          /\ \A i \in 1 .. 1 + Len(Tail(batch)) :
                batch'[i] = IF i <= 1 THEN <<t>>[i] ELSE Tail(batch)[i - 1]
      BY <1>1, <2>1, <2>2, ConcatProperties
    <2>4. Len(batch) \in Nat \ {0} /\ DOMAIN batch = 1 .. Len(batch)
      BY <1>2
    <2>5. DOMAIN batch' = 1 .. Len(batch)
      BY <2>1, <2>3, <2>4
    <2>6. batch'[1] = t
      BY <2>1, <2>2, <2>3, <2>4
    <2>7. ASSUME NEW j \in DOMAIN batch, j # 1 PROVE batch'[j] = batch[j]
      BY <2>1, <2>3, <2>4, <2>7
    <2>8. batch' # <<>>
      BY <2>4, <2>5
    <2> QED BY <2>3, <2>4, <2>5, <2>6, <2>7, <2>8
  <1>9. state' \in [Conns -> States] /\ state'[c] = s
        /\ \A d \in Conns : d # c => state'[d] = state[d]
    BY <1>1, <1>2, <1>3, <1>6, Zenon DEF TypeOK
  <1>10. TypeOK'
    BY <1>1, <1>2, <1>8, <1>9 DEF TypeOK, Places
  <1>11. \A d \in Conns : state[d].registered => state'[d].registered
    BY Zenon, <1>5, <1>6, <1>9
  <1>12. Queue' /\ \A q \in Records : Genuine(q) => Genuine(q)'
    BY <1>1, <1>11, QueueKept, Zenon
  <1>13. Batch'
    <2>1. ASSUME NEW i \in DOMAIN batch' PROVE Genuine(batch[i])'
      <3>1. PICK q \in Records : q = batch'[i] /\ Genuine(q)
        <4>1. CASE i = 1
          BY <1>3, <1>4, <1>8, <4>1 DEF Genuine, Present, c
        <4>2. CASE i # 1
          BY <1>8, <4>2, RecordsTyped DEF Inv, Batch
        <4> QED BY <4>1, <4>2
      <3>2. Genuine(q)'
        BY <1>12, <3>1, Zenon
      <3> QED BY <3>1, <3>2 DEF Genuine, Present
    <2> QED BY <1>1, <1>8, <2>1 DEF Batch
  <1>14. ASSUME NEW d \in Conns, NEW k \in Undelivered(d)
         PROVE  k \in Undelivered(d)' \/ (d = c /\ k \in r.events)
    <2>1. CASE k \in node[d]
      BY <1>1, <2>1, UndeliveredIsNext
    <2>2. CASE \E j \in DOMAIN batch : Counted(j, d) /\ k \in batch[j].events
      <3>1. PICK j \in DOMAIN batch : Counted(j, d) /\ k \in batch[j].events
        BY <2>2
      <3>2. CASE j = 1
        BY <1>3, <3>1, <3>2, Zenon DEF Counted, c
      <3>3. CASE j # 1
        <4>1. j \in DOMAIN batch' /\ batch'[j] = batch[j]
          BY <1>8, <3>3
        <4> QED BY <1>1, <3>1, <3>3, <4>1, UndeliveredIsNext DEF Counted
      <3> QED BY <3>2, <3>3, Zenon
    <2> QED BY <2>1, <2>2, UndeliveredIs, Zenon
  <1>15. ASSUME NEW d \in Conns PROVE BoundAt(d)' /\ Told(d)'
    <2>1. CASE d # c
      <3>1. Undelivered(d) \subseteq Undelivered(d)'
        BY <1>14, <2>1, Zenon
      <3>2. state'[d] = state[d] /\ BoundAt(d)'
        BY <1>1, <1>9, <2>1, SlotFacts DEF BoundAt
      <3> QED BY <1>1, <1>10, <3>1, <3>2, StillTold, SlotFacts
    <2>2. CASE d = c
      <3>1. Undelivered(d) \subseteq r.events \cup Undelivered(d)' /\ Undelivered(d)' \subseteq All
        BY <1>10, <1>14, UndeliveredTypeNext, Zenon
      <3>2. DeliveryClasses(Undelivered(d)) \subseteq
                DeliveryClasses(r.events) \cup DeliveryClasses(Undelivered(d)')
        BY <1>7, <3>1, DeliveryUnion
      <3>3. DeliveryClasses(Undelivered(d))' = DeliveryClasses(Undelivered(d)')
        BY DEF DeliveryClasses
      <3>4. BoundAt(d)'
        BY Zenon, <1>1, <1>5, <1>6, <1>9, <2>2 DEF BoundAt
      <3>5. Told(d)'
        BY <1>1, <1>5, <1>6, <1>9, <2>2, <3>2, <3>3 DEF Told
      <3> QED BY <3>4, <3>5
    <2> QED BY <2>1, <2>2
  <1> QED BY <1>10, <1>12, <1>13, <1>15, PerConnection, Zenon

----------------------------------------------------------------------------
LEMMA StepInv == Inv /\ [Next]_vars => Inv'
  <1> SUFFICES ASSUME Inv, [Next]_vars PROVE Inv'
    OBVIOUS
  <1>1. CASE UNCHANGED vars
    <2>1. UNCHANGED <<open, inst, inc, level, state, disarmed, node, readyq, batch, pc>>
      BY <1>1 DEF vars, coreVars, portVars, loopVars
    <2>2. /\ level \in [Conns -> SUBSET All] /\ pc \in Places
          /\ (pc = "out" => batch = <<>>) /\ (pc \notin {"out", "wait"} => batch # <<>>)
      BY DEF Inv, TypeOK, Batch
    <2> QED BY <2>1, <2>2, QuietSafe
  <1>2. ASSUME NEW c \in Conns, Core(c) PROVE Inv'
    BY <1>2, OpenSafe, AddConnectionSafe, CloseSafe, AddEventSafe, DelEventSafe, QuietSteps
       DEF Core
  <1>3. ASSUME NEW c \in Conns, Complete(c) \/ \E k \in All : Peer(c, k) PROVE Inv'
    BY <1>3, CompleteSafe, QuietSteps
  <1>4. CASE ProcessEvents \/ WaitFails
    BY <1>4, SweepSafe, DrainNodeSafe, SkipSafe, DispatchSafe, RearmRecordSafe, QuietLoop
       DEF ProcessEvents
  <1> QED BY <1>1, <1>2, <1>3, <1>4 DEF Next

(* The inductive invariant *)
THEOREM Inductive == Spec => []Inv
  BY InitInv, StepInv, PTL DEF Spec

(* A class nginx is interested in is armed in the port, or waits for its   *)
(* rearm in the pending array, or is in an event that is yet to be         *)
(* handled: whatever handlers do in the middle of a batch, however often   *)
(* slots are reused, and whichever calls into the port fail.               *)
THEOREM NothingStranded == Spec => []NeverStranded
  <1>1. Inv => NeverStranded
    BY Zenon DEF Inv
  <1> QED BY <1>1, Inductive, PTL
----------------------------------------------------------------------------
(* The instance bit of a record tells the connection that is in the slot   *)
(* now from the one before it.                                             *)
Tagged(r) ==
    /\ r.inc = inc[r.c] => r.inst = inst[r.c]
    /\ r.inc + 1 = inc[r.c] => r.inst # inst[r.c]
Tags ==
    /\ \A i \in DOMAIN readyq : Tagged(readyq[i])
    /\ \A i \in DOMAIN batch : Tagged(batch[i])

Alike(r, q) == r.c = q.c /\ r.inc = q.inc /\ r.inst = q.inst

(* Records move from the queue into the batch and out of it. *)
LEMMA TagsMove ==
  ASSUME Tags, UNCHANGED <<inst, inc>>,
         \A i \in DOMAIN readyq' : \E j \in DOMAIN readyq : Alike(readyq'[i], readyq[j]),
         \A i \in DOMAIN batch' : \/ \E j \in DOMAIN batch : Alike(batch'[i], batch[j])
                                  \/ \E j \in DOMAIN readyq : Alike(batch'[i], readyq[j])
  PROVE  Tags'
  BY DEF Tags, Tagged, Alike

LEMMA OpenTags ==
  ASSUME Inv, Tags, NEW c \in Conns, Open(c)
  PROVE  Tags'
  <1>1. /\ inst \in [Conns -> {0, 1}] /\ inc \in [Conns -> Nat]
        /\ inst' = [inst EXCEPT ![c] = 1 - @] /\ inc' = [inc EXCEPT ![c] = @ + 1]
        /\ UNCHANGED <<readyq, batch>>
    BY DEF Inv, TypeOK, Open, portVars, loopVars
  <1>2. ASSUME NEW r \in Records, Genuine(r), Tagged(r) PROVE Tagged(r)'
    <2>1. r.c \in Conns /\ r.inc \in Nat /\ r.inst \in {0, 1} /\ r.inc <= inc[r.c]
      BY <1>2, Zenon DEF Records, Genuine
    <2>2. CASE r.c = c
      <3>1. /\ inc'[r.c] = inc[r.c] + 1 /\ inst'[r.c] = 1 - inst[r.c]
            /\ inst[r.c] \in {0, 1} /\ inc[r.c] \in Nat
        BY <1>1, <2>1, <2>2, Zenon
      <3>2. r.inc # inc'[r.c] /\ (r.inc + 1 = inc'[r.c] => r.inc = inc[r.c])
        BY <2>1, <3>1
      <3>3. r.inst = inst[r.c] => r.inst # inst'[r.c]
        BY <2>1, <3>1
      <3> QED BY <1>2, <3>2, <3>3, Zenon DEF Tagged
    <2>3. CASE r.c # c
      BY <1>1, <1>2, <2>1, <2>3, Zenon DEF Tagged
    <2> QED BY <2>2, <2>3, Zenon
  <1>3. ASSUME NEW i \in DOMAIN readyq PROVE Tagged(readyq[i])'
    <2>1. PICK r \in Records : r = readyq[i] /\ Genuine(r) /\ Tagged(r)
      BY RecordsTyped, Zenon DEF Inv, Queue, Tags
    <2> QED BY <1>1, <1>2, <2>1, Zenon DEF Tagged
  <1>4. ASSUME NEW i \in DOMAIN batch PROVE Tagged(batch[i])'
    <2>1. PICK r \in Records : r = batch[i] /\ Genuine(r) /\ Tagged(r)
      BY RecordsTyped, Zenon DEF Inv, Batch, Tags
    <2> QED BY <1>1, <1>2, <2>1 DEF Tagged
  <1> QED BY <1>1, <1>3, <1>4, Zenon DEF Tags

LEMMA CompleteTags ==
  ASSUME Inv, Tags, NEW c \in Conns, Complete(c)
  PROVE  Tags'
  <1> DEFINE r == [c |-> c, inst |-> state[c].inst, inc |-> inc[c],
                   events |-> level[c] \ disarmed[c], write |-> FALSE]
  <1>1. readyq' = Append(readyq, r) /\ UNCHANGED <<inst, inc, batch>> /\ readyq \in Seq(Records)
    BY Zenon DEF Complete, coreVars, loopVars, Inv, TypeOK
  <1>2. state[c].inst = inst[c] /\ inc[c] \in Nat
    BY Zenon DEF Complete, Inv, Bound, TypeOK
  <1>3. r.c = c /\ r.inc = inc[c] /\ r.inst = inst[c]
    BY <1>2
  <1>4. /\ DOMAIN readyq' = DOMAIN readyq \cup {Len(readyq) + 1}
        /\ readyq'[Len(readyq) + 1] = r
        /\ \A i \in DOMAIN readyq : readyq'[i] = readyq[i]
    <2>1. r \in Records
      BY SlotFacts, <1>2 DEF Inv, TypeOK, Records, States
    <2> HIDE DEF r
    <2> QED BY <1>1, <2>1, AppendProperties
  <1> HIDE DEF r
  <1>5. Tagged(r)
    BY <1>2, <1>3 DEF Tagged
  <1> QED BY <1>1, <1>4, <1>5 DEF Tags, Tagged

LEMMA BatchTags ==
  ASSUME Inv, Tags, DrainNode \/ Dispatch \/ Skip \/ RearmRecord
  PROVE  Tags'
  <1>0. /\ readyq \in Seq(Records) /\ batch \in Seq(Records)
        /\ pc \notin {"out", "wait"} => batch # <<>>
    BY DEF Inv, TypeOK, Batch
  <1>1. CASE DrainNode
    <2> DEFINE r == Head(readyq)
    <2>1. /\ readyq # <<>> /\ readyq' = Tail(readyq) /\ UNCHANGED <<inst, inc>>
          /\ batch' = batch \/ batch' = Append(batch, r)
      BY <1>1 DEF DrainNode, coreVars
    <2>2. 1 \in DOMAIN readyq /\ r = readyq[1] /\ r \in Records
      BY <1>0, <2>1, RecordsTyped
    <2>3. \A i \in DOMAIN readyq' : i + 1 \in DOMAIN readyq /\ readyq'[i] = readyq[i + 1]
      BY <1>0, <2>1, HeadTailProperties
    <2> HIDE DEF r
    <2>4. \A i \in DOMAIN batch' : batch'[i] = r \/ (i \in DOMAIN batch /\ batch'[i] = batch[i])
      <3>1. CASE batch' = batch
        BY <3>1
      <3>2. CASE batch' = Append(batch, r)
        BY <1>0, <2>2, <3>2, AppendProperties
      <3> QED BY <2>1, <3>1, <3>2
    <2> QED BY <2>1, <2>2, <2>3, <2>4, TagsMove, Zenon DEF Alike
  <1>2. CASE Dispatch
    <2> DEFINE r == Head(batch)
    <2>1. PICK b : /\ pc = "record" /\ UNCHANGED <<inst, inc, readyq>>
                   /\ batch' = <<[r EXCEPT !.write = b]>> \o Tail(batch)
      BY <1>2, Zenon DEF Dispatch, portVars
    <2>2. 1 \in DOMAIN batch /\ r = batch[1] /\ r \in Records
      BY <1>0, <2>1, RecordsTyped
    <2> DEFINE t == [r EXCEPT !.write = b]
    <2>3. Alike(t, r)
      BY <2>2 DEF Alike, Records
    <2> HIDE DEF r, t
    <2>4. \A i \in DOMAIN batch' : batch'[i] = t \/ (i \in DOMAIN batch /\ batch'[i] = batch[i])
      <3>1. /\ Tail(batch) \in Seq(Records) /\ Len(Tail(batch)) = Len(batch) - 1
            /\ \A i \in 1 .. Len(Tail(batch)) : Tail(batch)[i] = batch[i + 1]
        BY <1>0, <2>1, HeadTailProperties
      <3>2. batch' = <<t>> \o Tail(batch)
        BY <2>1 DEF t
      <3> QED BY <1>0, <2>1, <3>1, <3>2
    <2> QED BY <2>1, <2>2, <2>3, <2>4, TagsMove, Zenon DEF Alike
  <1>3. CASE Skip \/ RearmRecord
    <2>1. batch # <<>> /\ NextRecord /\ UNCHANGED <<inst, inc, readyq>>
      BY <1>0, <1>3, Zenon DEF Skip, RearmRecord, coreVars, portVars
    <2>2. \A i \in DOMAIN batch' : i + 1 \in DOMAIN batch /\ batch'[i] = batch[i + 1]
      BY <2>1, TailIs
    <2> QED BY <2>1, <2>2, TagsMove DEF Alike
  <1> QED BY <1>1, <1>2, <1>3

LEMMA StepTags == Inv /\ Tags /\ [Next]_vars => Tags'
  <1> SUFFICES ASSUME Inv, Tags, [Next]_vars PROVE Tags'
    BY Zenon
  <1>1. ASSUME UNCHANGED <<inst, inc, readyq, batch>> PROVE Tags'
    BY <1>1 DEF Tags, Tagged
  <1>2. CASE UNCHANGED vars
    BY <1>1, <1>2 DEF vars, coreVars, portVars, loopVars
  <1>3. ASSUME NEW c \in Conns, Core(c) PROVE Tags'
    <2>1. CASE Open(c)
      BY <2>1, OpenTags
    <2>2. CASE AddConnection(c) \/ Close(c)
      BY <1>1, <2>2 DEF AddConnection, Close, loopVars
    <2>3. ASSUME NEW k \in Classes, AddEvent(c, k) \/ DelEvent(c, k) PROVE Tags'
      BY <1>1, <2>3, Zenon DEF AddEvent, DelEvent, portVars, loopVars
    <2>4. ASSUME NEW k \in Classes, Consume(c, k) \/ RunPosted(c, k) PROVE Tags'
      BY <1>1, <2>4 DEF Consume, RunPosted, portVars, loopVars
    <2> QED BY <1>3, <2>1, <2>2, <2>3, <2>4 DEF Core
  <1>4. ASSUME NEW c \in Conns, NEW k, Peer(c, k) PROVE Tags'
    BY <1>1, <1>4 DEF Peer, coreVars, portVars, loopVars
  <1>5. CASE Sweep
    BY <1>1, <1>5, Zenon DEF Sweep
  <1>6. CASE WaitReturns \/ WaitFails \/ DispatchWrite \/ HandlerReturns
    BY <1>1, <1>6 DEF WaitReturns, WaitFails, DispatchWrite, HandlerReturns, coreVars, portVars
  <1> QED BY <1>2, <1>3, <1>4, <1>5, <1>6, BatchTags, CompleteTags DEF Next, ProcessEvents

(* A record of the connection before the one that is in the slot changes   *)
(* nothing of it, however the slot was closed and reused since the record  *)
(* was made: ngx_wepoll_process_events compares the instance bits.         *)
THEOREM StaleRecordDropped == Spec => NoStaleDispatch
  <1> DEFINE Kept(c) == /\ state'[c] = state[c] /\ ready'[c] = ready[c] /\ posted'[c] = posted[c]
             A == \A c \in Conns :
                    pc = "record" /\ Head(batch).c = c /\ Head(batch).inc + 1 = inc[c] => Kept(c)
  <1>1. Init => Tags
    BY DEF Init, Tags
  <1>2. Inv /\ Tags /\ [Next]_vars => [A]_vars
    <2> SUFFICES ASSUME Inv, Tags, Next, NEW c \in Conns, pc = "record",
                        Head(batch).c = c, Head(batch).inc + 1 = inc[c]
                 PROVE  Kept(c)
      BY Zenon DEF vars
    <2>1. Tagged(Head(batch))
      <3>1. batch \in Seq(Records) /\ batch # <<>>
        BY Zenon DEF Inv, TypeOK, Batch
      <3> QED BY <3>1 DEF Tags
    <2>2. ~Accepted(Head(batch))
      BY <2>1 DEF Tagged, Accepted, Current
    <2>3. ASSUME NEW d \in Conns PROVE ~Core(d) /\ ~Complete(d)
      BY DEF Core, Open, AddConnection, Close, AddEvent, DelEvent, Consume, RunPosted, InCore,
             Complete
    <2>4. ASSUME NEW d \in Conns, NEW k, Peer(d, k) PROVE Kept(c)
      BY <2>4 DEF Peer, coreVars
    <2>5. CASE ProcessEvents
      <3>1. Skip
        BY <2>2, <2>5, Zenon DEF ProcessEvents, Sweep, DrainNode, WaitReturns, Dispatch, DispatchWrite,
                          HandlerReturns, RearmRecord
      <3> QED BY <3>1 DEF Skip, coreVars
    <2>6. ~WaitFails
      BY DEF WaitFails
    <2> QED BY <2>3, <2>4, <2>5, <2>6, Zenon DEF Next
  <1>3. Spec => []Tags
    BY <1>1, Inductive, StepTags, PTL DEF Spec
  <1>4. Spec => [][A]_vars
    BY <1>2, <1>3, Inductive, PTL DEF Spec
  <1> QED BY <1>4 DEF NoStaleDispatch
=============================================================================
