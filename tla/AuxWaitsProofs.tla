--------------------------- MODULE AuxWaitsProofs ---------------------------
(***************************************************************************)
(* AuxWaits for any number of storage blocks, generations and failed       *)
(* calls: storage is freed only when nothing points to it, a consumed      *)
(* signal is neither lost nor doubled, and no registration is forgotten.   *)
(***************************************************************************)
EXTENDS AuxWaitsLemmas

(* What is fine stays so while the kind of handle is the same. *)
LEMMA FineNext ==
  ASSUME UNCHANGED objVars, NEW x, NEW h, NEW p, NEW cl, NEW d, Fine(x, h, p, cl), cl => d
  PROVE  Fine(x, h, p, d)'
  <1>1. UNCHANGED <<kind, consumes, server>>
    BY DEF objVars
  <1>2. Dormant(x)' <=> Dormant(x)
    BY <1>1 DEF Dormant
  <1>3. Conserved(x, h)' <=> Conserved(x, h)
    BY DEF Conserved
  <1>4. Remembered(x, h)' <=> Remembered(x, h)
    BY <1>1, <1>2 DEF Remembered
  <1>5. Stored(x, h, p)' <=> Stored(x, h, p)
    BY DEF Stored
  <1> QED BY <1>1, <1>3, <1>4, <1>5, Zenon DEF Fine

LEMMA FineThere ==
  ASSUME NEW x, NEW h, NEW p, NEW cl, Fine(x, h, p, cl)', NEW i, reg'[i] = x, hook'[i] = h,
         Packet(i)' <=> p, closing' <=> cl
  PROVE  Fine(reg[i], hook[i], Packet(i), closing)'
  BY DEF Fine, Stored, Conserved, Remembered, Dormant

(* A step on one block: it becomes y with hook g, and a packet is posted   *)
(* if b.                                                                   *)
LEMMA BlockSafe ==
  ASSUME TypeOK, Packets, Registrations, UNCHANGED objVars,
         NEW i \in Regs, NEW y, NEW g \in {"none", "armed", "entered", "posting"}, NEW b,
         reg' = [reg EXCEPT ![i] = y], hook' = [hook EXCEPT ![i] = g],
         queue' = IF b THEN Append(queue, i) ELSE queue, closing => closing',
         held' = held \/ (held = i /\ held' = None),
         held' # None <=> pc' \in {"complete", "reclaim"},
         b => ~InQueue(i) /\ held' # i,
         Fine(y, g, b \/ InQueue(i) \/ held' = i, closing')
  PROVE  /\ reg' = [j \in Regs |-> reg'[j]] /\ queue' \in Seq(Regs)
         /\ hook' \in [Regs -> {"none", "armed", "entered", "posting"}]
         /\ reg'[i] = y /\ \A j \in Regs \ {i} : reg'[j] = reg[j]
         /\ Packets' /\ Registrations'
  <1>2. /\ reg = [j \in Regs |-> reg[j]] /\ queue \in Seq(Regs)
        /\ hook \in [Regs -> {"none", "armed", "entered", "posting"}]
    BY DEF TypeOK
  <1>3. /\ reg' = [j \in Regs |-> reg'[j]] /\ reg'[i] = y
        /\ \A j \in Regs \ {i} : reg'[j] = reg[j]
    BY <1>2, Zenon
  <1>4. /\ hook' \in [Regs -> {"none", "armed", "entered", "posting"}]
        /\ hook'[i] = g /\ \A j \in Regs \ {i} : hook'[j] = hook[j]
    BY <1>2
  <1>5. /\ queue' \in Seq(Regs)
        /\ \A j \in Regs : InQueue(j)' <=> InQueue(j) \/ (j = i /\ b)
        /\ \A k, l \in DOMAIN queue' : queue'[k] = queue'[l] => k = l
    <2>1. CASE b
      <3>1. queue' = Append(queue, i)
        BY <2>1
      <3>2. /\ queue' \in Seq(Regs) /\ DOMAIN queue' = DOMAIN queue \cup {Len(queue) + 1}
            /\ Len(queue) + 1 \notin DOMAIN queue /\ queue'[Len(queue) + 1] = i
            /\ \A k \in DOMAIN queue : queue'[k] = queue[k]
        BY <1>2, <3>1
      <3>3. \A k, l \in DOMAIN queue : queue[k] = queue[l] => k = l
        BY DEF Packets
      <3>4. \A k \in DOMAIN queue : queue[k] # i
        BY <2>1 DEF InQueue
      <3> QED BY <2>1, <3>2, <3>3, <3>4 DEF InQueue
    <2>2. CASE ~b
      BY <1>2, <2>2 DEF InQueue, Packets
    <2> QED BY <2>1, <2>2
  <1>6. Packets'
    <2>1. \A k \in DOMAIN queue' : queue'[k] # held'
      <3>1. ~InQueue(held) /\ \A k \in DOMAIN queue' : queue'[k] \in Regs
        BY <1>5 DEF Packets, InQueue
      <3> QED BY <1>5, <3>1, NoneFresh DEF InQueue
    <2> QED BY <1>5, <2>1 DEF Packets
  <1>7. ASSUME NEW j \in Regs PROVE Fine(reg[j], hook[j], Packet(j), closing)'
    <2>1. CASE j = i
      <3>1. PICK x, h, p, cl : /\ x = y /\ h = g /\ p = (b \/ InQueue(i) \/ held' = i)
                               /\ cl = closing'
        BY Zenon
      <3>2. Fine(x, h, p, cl)'
        BY <3>1, FineNext
      <3>3. Packet(j)' <=> p
        BY <1>5, <2>1, <3>1, Zenon DEF Packet
      <3> QED BY <1>3, <1>4, <2>1, <3>1, <3>2, <3>3, FineThere
    <2>2. CASE j # i
      <3>1. PICK x, h, p, cl : /\ x = reg[j] /\ h = hook[j] /\ p = Packet(j) /\ cl = closing'
        BY Zenon
      <3>2. Fine(x, h, p, closing)
        BY <3>1 DEF Registrations
      <3>3. Fine(x, h, p, cl)'
        BY <3>1, <3>2, FineNext
      <3>4. Packet(j)' <=> p
        BY <1>5, <2>2, <3>1, NoneFresh, Zenon DEF Packet
      <3> QED BY <1>3, <1>4, <2>2, <3>1, <3>3, <3>4, FineThere
    <2> QED BY <2>1, <2>2
  <1> QED BY <1>3, <1>4, <1>5, <1>6, <1>7 DEF Registrations

LEMMA ApplySafe ==
  ASSUME TypeOK, Packets, Registrations, NEW i \in Regs, NEW o, Apply(i, o), UNCHANGED objVars,
         o.hook \in {"keep", "none", "armed"},
         held' = held \/ (held = i /\ held' = None),
         held' # None <=> pc' \in {"complete", "reclaim"},
         o.post => ~InQueue(i) /\ held' # i,
         Fine(o.r, Hook(o, hook[i]), o.post \/ InQueue(i) \/ held' = i, closing \/ o.res = "fatal")
  PROVE  /\ reg' = [j \in Regs |-> reg'[j]] /\ queue' \in Seq(Regs)
         /\ hook' \in [Regs -> {"none", "armed", "entered", "posting"}]
         /\ reg'[i] = o.r /\ \A j \in Regs \ {i} : reg'[j] = reg[j]
         /\ Packets' /\ Registrations'
  <1>1. /\ reg' = [reg EXCEPT ![i] = o.r]
        /\ hook' = [hook EXCEPT ![i] = Hook(o, hook[i])]
        /\ queue' = IF o.post THEN Append(queue, i) ELSE queue
        /\ closing' <=> closing \/ o.res = "fatal"
    BY Zenon DEF Apply, Hook
  <1>2. PICK y, g, b : y = o.r /\ g = Hook(o, hook[i]) /\ b = o.post
    BY Zenon
  <1>3. g \in {"none", "armed", "entered", "posting"}
    BY <1>2 DEF Hook, TypeOK
  <1>4. Fine(y, g, b \/ InQueue(i) \/ held' = i, closing')
    BY <1>1, <1>2 DEF Fine, Stored
  <1> QED BY <1>1, <1>2, <1>3, <1>4, BlockSafe, Zenon

(* Steps that change neither the table nor what counts of its entry *)
LEMMA TableSame ==
  ASSUME Table, Nodes, UNCHANGED <<table, ready, nextGen>>,
         table # None => Attached(table)',
         \A j \in Regs : Attached(j)' => /\ Attached(j) /\ reg'[j].gen = reg[j].gen
                                         /\ reg'[j].ready <=> reg[j].ready
  PROVE  Table' /\ Nodes'
  <1>1. Table'
    BY DEF Table
  <1>2. Nodes'
    BY DEF Nodes
  <1> QED BY <1>1, <1>2

(* Steps that leave the registrations and the table as they are *)
LEMMA QuietSafe ==
  ASSUME IInv, UNCHANGED <<objVars, reg, hook, table, ready, queue, nextGen, held>>,
         closing => closing', held # None <=> pc' \in {"complete", "reclaim"}
  PROVE  IInv'
  <1>1. TypeOK /\ Packets /\ Registrations /\ Table /\ Nodes
    BY DEF IInv
  <1>2. TypeOK'
    BY <1>1 DEF TypeOK, objVars, MayConsume
  <1>3. Packets'
    BY <1>1 DEF Packets
  <1>4. Table' /\ Nodes'
    BY <1>1 DEF Table, Nodes, Attached, Live
  <1>5. ASSUME NEW j \in Regs PROVE Fine(reg[j], hook[j], Packet(j), closing)'
    <2>1. PICK x, h, p, cl : /\ x = reg[j] /\ h = hook[j] /\ p = Packet(j) /\ cl = closing'
      BY Zenon
    <2>2. Fine(x, h, p, cl)'
      BY <1>1, <2>1, FineNext DEF Registrations
    <2>3. Packet(j)' <=> p
      BY <2>1, Zenon DEF Packet, InQueue
    <2> QED BY <2>1, <2>2, <2>3, FineThere
  <1> QED BY <1>2, <1>3, <1>4, <1>5 DEF IInv, Registrations

LEMMA QuietSteps ==
  ASSUME IInv,
         \/ Signal \/ Unsignal \/ PeerClose \/ Reconnect \/ LoopTop \/ ArmFailed \/ ClosedWait
         \/ Timeout \/ Check \/ BeginClose \/ Abandon \/ \E m \in Masks : ModNoMemory(m)
  PROVE  IInv'
  <1>0. held # None <=> pc \in {"complete", "reclaim"}
    BY DEF IInv, Packets
  <1>1. CASE Signal \/ Unsignal \/ PeerClose \/ Reconnect
    BY <1>0, <1>1, QuietSafe DEF Signal, Unsignal, PeerClose, Reconnect, portVars, waitVars
  <1>2. CASE LoopTop \/ ArmFailed \/ ClosedWait \/ Timeout
    BY <1>0, <1>2, QuietSafe DEF LoopTop, ArmFailed, ClosedWait, Timeout, Return, portVars
  <1>3. CASE Check \/ Abandon
    BY <1>0, <1>3, QuietSafe DEF Check, Abandon, Return
  <1>4. CASE BeginClose \/ \E m \in Masks : ModNoMemory(m)
    BY <1>0, <1>4, QuietSafe DEF BeginClose, ModNoMemory, portVars, waitVars
  <1> QED BY <1>1, <1>2, <1>3, <1>4

----------------------------------------------------------------------------
(* The pool *)

(* What the invariant says of one block *)
LEMMA AtBlock ==
  ASSUME IInv, NEW i \in Regs
  PROVE  /\ TypeOK /\ Packets /\ Registrations /\ Table /\ Nodes
         /\ Fine(reg[i], hook[i], Packet(i), closing)
         /\ hook[i] \in {"none", "armed", "entered", "posting"}
         /\ Live(i) => /\ Stored(reg[i], hook[i], Packet(i))
                       /\ ~closing /\ ~reg[i].deleted =>
                            (consumes => Conserved(reg[i], hook[i])) /\ Remembered(reg[i], hook[i])
         /\ ~Live(i) => hook[i] = "none" /\ ~Packet(i)
         /\ held # None <=> pc \in {"complete", "reclaim"}
  BY DEF IInv, TypeOK, Registrations, Fine, Live, Packets

(* A step on block i that changes neither its generation nor whether it is *)
(* queued or detached                                                      *)
LEMMA InPlace ==
  ASSUME IInv, UNCHANGED <<objVars, table, ready, nextGen, held, pc>>,
         NEW i \in Regs, Live(i), NEW y, NEW g \in {"none", "armed", "entered", "posting"}, NEW b,
         reg' = [reg EXCEPT ![i] = y], hook' = [hook EXCEPT ![i] = g],
         queue' = IF b THEN Append(queue, i) ELSE queue, closing => closing', b => ~Packet(i),
         Fine(y, g, b \/ Packet(i), closing'), Shaped(y), y.gen = reg[i].gen,
         y.ready = reg[i].ready, y.deleted = reg[i].deleted
  PROVE  IInv'
  <1>1. /\ TypeOK /\ Packets /\ Registrations /\ Table /\ Nodes
        /\ held' # None <=> pc' \in {"complete", "reclaim"}
    BY AtBlock
  <1>2. Fine(y, g, b \/ InQueue(i) \/ held' = i, closing')
    BY DEF Fine, Stored, Packet
  <1>3. b => ~InQueue(i) /\ held' # i
    BY DEF Packet
  <1>4. /\ reg' = [j \in Regs |-> reg'[j]] /\ queue' \in Seq(Regs)
        /\ hook' \in [Regs -> {"none", "armed", "entered", "posting"}]
        /\ reg'[i] = y /\ \A j \in Regs \ {i} : reg'[j] = reg[j]
        /\ Packets' /\ Registrations'
    BY <1>1, <1>2, <1>3, BlockSafe, Zenon
  <1>5. TypeOK'
    BY <1>1, <1>4 DEF TypeOK, objVars, MayConsume
  <1>6. y # Free
    BY ShapedLive
  <1>7. /\ \A j \in Regs : Attached(j)' => /\ Attached(j) /\ reg'[j].gen = reg[j].gen
                                           /\ reg'[j].ready <=> reg[j].ready
        /\ table # None => Attached(table)'
    <2>1. Attached(i)' <=> Attached(i)
      BY <1>4, <1>6 DEF Attached, Live
    <2>2. \A j \in Regs \ {i} : Attached(j)' <=> Attached(j)
      BY <1>4 DEF Attached, Live
    <2>3. table # None => table \in Regs /\ Attached(table)
      BY <1>1 DEF TypeOK, Table
    <2>4. table # None => Attached(table)'
      BY <1>4, <1>6, <2>3 DEF Attached, Live
    <2> QED BY <1>4, <2>1, <2>2, <2>4
  <1>8. Table' /\ Nodes'
    <2>1. UNCHANGED <<table, ready, nextGen>>
      OBVIOUS
    <2> QED BY <1>1, <1>7, <2>1, TableSame
  <1> QED BY <1>4, <1>5, <1>8 DEF IInv

LEMMA FireSafe ==
  ASSUME IInv, NEW i \in Regs, Fire(i)
  PROVE  IInv'
  <1> DEFINE r == reg[i]
             y == [r EXCEPT !.balance = @ + One(consumes)]
  <1>1. /\ hook[i] = "armed" /\ hook' = [hook EXCEPT ![i] = "entered"]
        /\ UNCHANGED <<objVars, table, ready, nextGen, held, pc, queue, closing>>
    BY DEF Fire, portVars, waitVars
  <1>2. reg' = [reg EXCEPT ![i] = y]
    BY DEF Fire
  <1>3. /\ Live(i) /\ Stored(r, "armed", Packet(i))
        /\ ~closing /\ ~r.deleted => (consumes => Conserved(r, "armed"))
    BY <1>1, AtBlock
  <1>4. /\ Shaped(y) /\ y.gen = r.gen /\ y.ready = r.ready /\ y.deleted = r.deleted
        /\ y.poll = r.poll /\ y.posted = r.posted /\ y.owned = r.owned
        /\ y.balance = r.balance + One(consumes) /\ y.interest = r.interest
    BY <1>3 DEF Stored, Shaped, Fields
  <1> HIDE DEF y
  <1>5. Stored(y, "entered", Packet(i))
    BY <1>3, <1>4 DEF Stored
  <1>6. consumes /\ Conserved(r, "armed") => Conserved(y, "entered")
    <2>1. ~r.ready /\ ~y.ready /\ ~y.posted
      BY <1>3, <1>4 DEF Stored
    <2> QED BY <1>4, <2>1 DEF Conserved, One
  <1>7. Remembered(y, "entered")
    BY <1>3, <1>4 DEF Stored, Remembered
  <1>8. y # Free
    BY <1>4, ShapedLive, Zenon
  <1>9. Fine(y, "entered", FALSE \/ Packet(i), closing')
    <2>1. Stored(y, "entered", FALSE \/ Packet(i))
      BY <1>5 DEF Stored
    <2> QED BY <1>1, <1>3, <1>4, <1>6, <1>7, <1>8, <2>1, Zenon DEF Fine
  <1> QED BY <1>1, <1>2, <1>3, <1>4, <1>9, InPlace, Zenon

LEMMA CallbackOwnSafe ==
  ASSUME IInv, NEW i \in Regs, CallbackOwn(i)
  PROVE  IInv'
  <1> DEFINE r == reg[i]
             b == r.owned \/ MayConsume
             y == [r EXCEPT !.owned = b]
  <1>1. /\ hook[i] = "entered" /\ hook' = [hook EXCEPT ![i] = "posting"]
        /\ UNCHANGED <<objVars, table, ready, nextGen, held, pc, queue, closing>>
    BY DEF CallbackOwn, portVars, waitVars
  <1>2. reg' = [reg EXCEPT ![i] = y]
    BY DEF CallbackOwn, Owned
  <1>3. /\ Live(i) /\ Stored(r, "entered", Packet(i)) /\ (consumes => MayConsume)
        /\ ~closing /\ ~r.deleted => (consumes => Conserved(r, "entered"))
    BY <1>1, AtBlock DEF TypeOK
  <1>4. MayConsume => b
    OBVIOUS
  <1> HIDE DEF b
  <1>5. /\ Shaped(y) /\ y.gen = r.gen /\ y.ready = r.ready /\ y.deleted = r.deleted
        /\ y.poll = r.poll /\ y.posted = r.posted /\ y.owned = b
        /\ y.balance = r.balance /\ y.interest = r.interest
    BY <1>3 DEF Stored, Shaped, Fields
  <1> HIDE DEF y
  <1>6. Stored(y, "posting", Packet(i))
    BY <1>3, <1>5, Zenon DEF Stored
  <1>7. consumes /\ Conserved(r, "entered") => Conserved(y, "posting")
    <2>1. ~r.ready /\ ~y.ready /\ ~y.posted
      BY <1>3, <1>5, Zenon DEF Stored
    <2> QED BY <1>3, <1>5, <1>4, <2>1 DEF Conserved, One
  <1>8. Remembered(y, "posting")
    BY <1>3, <1>5 DEF Stored, Remembered
  <1>9. y # Free
    BY <1>5, ShapedLive
  <1>10. Fine(y, "posting", FALSE \/ Packet(i), closing')
    <2>1. Stored(y, "posting", FALSE \/ Packet(i))
      BY <1>6 DEF Stored
    <2> QED BY <1>1, <1>3, <1>5, <1>7, <1>8, <1>9, <2>1 DEF Fine
  <1> QED BY <1>1, <1>2, <1>3, <1>5, <1>10, InPlace, Zenon

LEMMA CallbackPostSafe ==
  ASSUME IInv, NEW i \in Regs, CallbackPost(i)
  PROVE  IInv'
  <1> DEFINE r == reg[i]
             y == [r EXCEPT !.posted = TRUE]
  <1>1. PICK o \in Post(r) : hook[i] = "posting" /\ Apply(i, [o EXCEPT !.hook = "none"])
    BY DEF CallbackPost
  <1>2. UNCHANGED <<objVars, table, ready, nextGen, held, pc>>
    BY DEF CallbackPost, waitVars
  <1>3. /\ Live(i) /\ Stored(r, "posting", Packet(i)) /\ ~Packet(i)
        /\ ~closing /\ ~r.deleted => (consumes => Conserved(r, "posting"))
    BY <1>1, AtBlock DEF Stored
  <1>4. Made(o) => /\ reg' = [reg EXCEPT ![i] = o.r] /\ hook' = [hook EXCEPT ![i] = "none"]
                   /\ queue' = IF o.post THEN Append(queue, i) ELSE queue
                   /\ closing' <=> closing \/ o.res = "fatal"
    <2> DEFINE e == [o EXCEPT !.hook = "none"]
    <2>1. Made(o) => e.r = o.r /\ e.hook = "none" /\ e.post = o.post /\ e.res = o.res
      BY DEF Made, OutcomeFields
    <2>2. Apply(i, e)
      BY <1>1
    <2> HIDE DEF e
    <2> QED BY <2>1, <2>2, Zenon DEF Apply
  <1>5. CASE Gives(o, y, "keep", TRUE, "ok")
    <2>1. /\ reg' = [reg EXCEPT ![i] = y] /\ hook' = [hook EXCEPT ![i] = "none"]
          /\ queue' = Append(queue, i)
          /\ closing' <=> closing
      <3> HIDE DEF y
      <3> QED BY <1>4, <1>5 DEF Gives
    <2>2. /\ Shaped(y) /\ y.gen = r.gen /\ y.ready = r.ready /\ y.deleted = r.deleted
          /\ y.poll = r.poll /\ y.posted = TRUE /\ y.owned = r.owned
          /\ y.balance = r.balance /\ y.interest = r.interest
      BY <1>3, Zenon DEF Stored, Shaped, Fields
    <2> HIDE DEF y
    <2>3. Stored(y, "none", TRUE \/ Packet(i)) /\ Remembered(y, "none")
      BY <1>3, <2>2, Zenon DEF Stored, Remembered
    <2>4. consumes /\ Conserved(r, "posting") => Conserved(y, "none")
      BY <1>3, <2>2 DEF Conserved, Stored, One
    <2>5. y # Free
      BY <2>2, ShapedLive
    <2>6. Fine(y, "none", TRUE \/ Packet(i), closing')
      BY <1>3, <2>1, <2>2, <2>3, <2>4, <2>5 DEF Fine
    <2> QED BY <1>2, <1>3, <2>1, <2>2, <2>6, InPlace, Zenon
  <1>6. CASE Gives(o, r, "keep", FALSE, "fatal")
    <2>1. /\ reg' = [reg EXCEPT ![i] = r] /\ hook' = [hook EXCEPT ![i] = "none"]
          /\ queue' = IF FALSE THEN Append(queue, i) ELSE queue
          /\ closing'
      BY <1>4, <1>6 DEF Gives
    <2>2. Fine(r, "none", FALSE \/ Packet(i), closing')
      BY <1>3, <2>1 DEF Fine, Stored, Live
    <2>3. Shaped(r)
      BY <1>3 DEF Stored
    <2> QED BY <1>2, <1>3, <2>1, <2>2, <2>3, InPlace, Zenon
  <1> QED BY <1>5, <1>6, PostIs, Zenon

----------------------------------------------------------------------------
(* Steps on all the blocks *)

LEMMA RegsNext ==
  ASSUME UNCHANGED objVars, \A j \in Regs : Fine(reg'[j], hook'[j], Packet(j)', closing')
  PROVE  Registrations'
  <1>1. ASSUME NEW j \in Regs PROVE Fine(reg[j], hook[j], Packet(j), closing)'
    <2>1. PICK x, h, p, cl : x = reg'[j] /\ h = hook'[j] /\ p = Packet(j)' /\ cl = closing'
      BY Zenon
    <2>2. Fine(x, h, p, cl)
      BY <2>1
    <2>3. Fine(x, h, p, cl)'
      BY <2>2, FineNext
    <2> QED BY <2>1, <2>3, FineThere
  <1> QED BY <1>1 DEF Registrations

(* ep_port_release_deferred_rearms_locked *)
LEMMA HoldoffsSafe ==
  ASSUME IInv, reg' = ReleaseHoldoffs,
         UNCHANGED <<objVars, hook, table, ready, queue, nextGen, closing, held>>,
         held # None <=> pc' \in {"complete", "reclaim"}
  PROVE  IInv'
  <1>1. TypeOK /\ Packets /\ Registrations /\ Table /\ Nodes
    BY DEF IInv
  <1>2. ASSUME NEW j \in Regs
        PROVE  /\ Fine(reg'[j], hook[j], Packet(j), closing)
               /\ Live(j)' <=> Live(j)
               /\ Live(j) => /\ reg'[j].gen = reg[j].gen /\ reg'[j].deleted = reg[j].deleted
                             /\ reg'[j].ready = reg[j].ready
    <2> DEFINE r == reg[j]
               y == [r EXCEPT !.holdoff = FALSE]
    <2>1. Fine(r, hook[j], Packet(j), closing)
      BY <1>1 DEF Registrations
    <2>2. CASE reg'[j] = r
      BY <2>1, <2>2, Zenon DEF Live
    <2>3. CASE Live(j) /\ reg'[j] = y
      <3>1. /\ Stored(r, hook[j], Packet(j))
            /\ ~closing /\ ~r.deleted => (consumes => Conserved(r, hook[j])) /\ Remembered(r, hook[j])
        BY <2>1, <2>3 DEF Fine, Live
      <3>2. /\ Shaped(y) /\ y.gen = r.gen /\ y.ready = r.ready /\ y.deleted = r.deleted
            /\ y.poll = r.poll /\ y.posted = r.posted /\ y.owned = r.owned
            /\ y.balance = r.balance /\ y.rearm = r.rearm /\ y.oneshot = r.oneshot
            /\ y.interest = r.interest /\ y.mode = r.mode /\ y.terminal = r.terminal
            /\ y.wait = r.wait
        BY <3>1, Zenon DEF Stored, Shaped, Fields
      <3> HIDE DEF y
      <3>3. Stored(y, hook[j], Packet(j))
        BY <3>1, <3>2, Zenon DEF Stored
      <3>4. /\ Conserved(r, hook[j]) => Conserved(y, hook[j])
            /\ Remembered(r, hook[j]) => Remembered(y, hook[j])
        BY <3>2 DEF Conserved, Remembered, Dormant
      <3>5. y # Free
        BY <3>2, ShapedLive
      <3> QED BY <2>3, <3>1, <3>2, <3>3, <3>4, <3>5, Zenon DEF Fine, Live
    <2> QED BY <2>2, <2>3 DEF ReleaseHoldoffs
  <1>3. \A j \in Regs : Packet(j)' <=> Packet(j)
    BY Zenon DEF Packet, InQueue
  <1>4. Registrations'
    <2>1. \A j \in Regs : Fine(reg'[j], hook'[j], Packet(j)', closing')
      <3>1. ASSUME NEW j \in Regs PROVE Fine(reg'[j], hook'[j], Packet(j)', closing')
        BY <1>2, <1>3 DEF Fine, Stored
      <3> QED BY <3>1, Zenon
    <2> QED BY <2>1, RegsNext
  <1>5. TypeOK'
    BY <1>1 DEF TypeOK, objVars, MayConsume, ReleaseHoldoffs
  <1>6. Packets'
    BY <1>1 DEF Packets
  <1>7. \A j \in Regs : Attached(j)' => /\ Attached(j) /\ reg'[j].gen = reg[j].gen
                                        /\ reg'[j].ready <=> reg[j].ready
    BY <1>2 DEF Attached
  <1>8. table # None => Attached(table)'
    <2>1. table # None => table \in Regs /\ Attached(table)
      BY <1>1 DEF TypeOK, Table
    <2> QED BY <1>2, <2>1 DEF Attached, Live
  <1>9. Table' /\ Nodes'
    BY <1>1, <1>7, <1>8, TableSame
  <1> QED BY <1>4, <1>5, <1>6, <1>9 DEF IInv

LEMMA DequeueSafe ==
  ASSUME IInv, Dequeue
  PROVE  IInv'
  <1>1. TypeOK /\ Packets /\ Registrations /\ Table /\ Nodes
    BY DEF IInv
  <1>2. UNCHANGED <<objVars, reg, hook, table, ready, nextGen, closing>>
    BY DEF Dequeue, portVars
  <1>3. /\ held = None /\ queue \in Seq(Regs) /\ queue # <<>> /\ held' = Head(queue)
        /\ queue' = Tail(queue) /\ pc' \in {"complete", "reclaim"}
    BY <1>1 DEF Dequeue, Packets, TypeOK
  <1>4. /\ queue' \in Seq(Regs) /\ held' \in Regs /\ held' = queue[1] /\ 1 \in DOMAIN queue
        /\ \A k \in DOMAIN queue' : k + 1 \in DOMAIN queue /\ queue'[k] = queue[k + 1]
                                    /\ k \in Nat /\ k + 1 # 1
        /\ \A k \in DOMAIN queue : k = 1 \/ (k - 1 \in DOMAIN queue' /\ queue[k] = queue'[k - 1])
    BY <1>3
  <1>5. \A j \in Regs : Packet(j)' <=> Packet(j)
    <2>1. ASSUME NEW j \in Regs PROVE Packet(j) => Packet(j)'
      BY <1>3, <1>4, NoneFresh DEF Packet, InQueue
    <2>2. ASSUME NEW j \in Regs PROVE Packet(j)' => Packet(j)
      BY <1>3, <1>4, NoneFresh DEF Packet, InQueue
    <2> QED BY <2>1, <2>2
  <1>6. Packets'
    <2>1. \A k, l \in DOMAIN queue : queue[k] = queue[l] => k = l
      BY <1>1 DEF Packets
    <2>2. \A k, l \in DOMAIN queue' : queue'[k] = queue'[l] => k = l
      BY <1>4, <2>1
    <2>3. \A k \in DOMAIN queue' : queue'[k] # held'
      BY <1>4, <2>1
    <2> QED BY <1>3, <1>4, <2>2, <2>3, NoneFresh DEF Packets
  <1>7. Registrations'
    <2>1. ASSUME NEW j \in Regs PROVE Fine(reg'[j], hook'[j], Packet(j)', closing')
      BY <1>1, <1>2, <1>5 DEF Registrations, Fine, Stored
    <2> QED BY <1>2, <2>1, RegsNext, Zenon
  <1>8. TypeOK'
    BY <1>1, <1>2, <1>4 DEF TypeOK, objVars, MayConsume
  <1>9. Table' /\ Nodes'
    BY <1>1, <1>2 DEF Table, Nodes, Attached, Live
  <1> QED BY <1>6, <1>7, <1>8, <1>9 DEF IInv

(* ep_port_destroy: what is freed has neither a wait nor a packet. *)
LEMMA DestroySafe ==
  ASSUME IInv, Destroy
  PROVE  IInv'
  <1>1. TypeOK /\ Packets /\ Registrations /\ Table /\ Nodes
    BY DEF IInv
  <1>2. /\ UNCHANGED <<objVars, ready, queue, nextGen, closing, held>>
        /\ closing /\ pc = "out" /\ pc' = "draining" /\ table' = None
    BY DEF Destroy, portVars
  <1>3. PICK bad : /\ \A i \in Regs : Live(i) /\ reg[i].poll = "PENDING" =>
                        hook[i] \in IF i \in bad THEN {"none", "armed", "entered"} ELSE {"none", "armed"}
                   /\ reg' = DetachAll(bad)
                   /\ hook' = [i \in Regs |-> IF Live(i) /\ i \notin bad /\ hook[i] = "armed"
                                     /\ reg[i].poll = "PENDING" THEN "none" ELSE hook[i]]
    BY DEF Destroy
  <1>4. \A j \in Regs : Packet(j)' <=> Packet(j)
    BY <1>2 DEF Packet, InQueue
  <1>5. ASSUME NEW j \in Regs
        PROVE  Fine(reg'[j], hook'[j], Packet(j), TRUE) /\ (reg'[j] = Free \/ reg'[j].deleted)
    <2> DEFINE r == reg[j]
               x == [r EXCEPT !.deleted = TRUE, !.rearm = FALSE, !.oneshot = FALSE]
               y == [x EXCEPT !.poll = "CANCELLED", !.wait = FALSE]
    <2>1. Fine(r, hook[j], Packet(j), closing)
      BY <1>1 DEF Registrations
    <2>2. reg'[j] = IF ~Live(j) THEN Free
                    ELSE IF x.poll = "IDLE" \/ (x.poll = "PENDING" /\ j \notin bad /\ ~x.posted)
                    THEN Free
                    ELSE IF x.poll = "PENDING" /\ j \notin bad THEN y ELSE x
      BY <1>3, Zenon DEF DetachAll
    <2>3. hook'[j] = IF Live(j) /\ j \notin bad /\ hook[j] = "armed"
                                     /\ reg[j].poll = "PENDING" THEN "none" ELSE hook[j]
      BY <1>3
    <2>4. CASE ~Live(j)
      BY <2>1, <2>2, <2>3, <2>4 DEF Fine, Live
    <2>5. CASE Live(j)
      <3>1. Stored(r, hook[j], Packet(j))
        BY <2>1, <2>5 DEF Fine, Live
      <3>2. /\ Shaped(x) /\ x.gen = r.gen /\ x.ready = r.ready /\ x.deleted = TRUE
            /\ x.poll = r.poll /\ x.posted = r.posted /\ x.interest = r.interest
        BY <3>1, Zenon DEF Stored, Shaped, Fields
      <3>3. /\ Shaped(y) /\ y.gen = r.gen /\ y.ready = r.ready /\ y.deleted = TRUE
            /\ y.poll = "CANCELLED" /\ y.posted = r.posted /\ y.interest = r.interest
        BY <3>1, Zenon DEF Stored, Shaped, Fields
      <3> HIDE DEF x, y
      <3>4. x # Free /\ y # Free
        BY <3>2, <3>3, ShapedLive, Zenon
      <3>5. CASE reg'[j] = Free
        BY <1>3, <2>2, <2>3, <2>5, <3>1, <3>2, <3>4, <3>5, Zenon DEF Fine, Stored
      <3>6. CASE reg'[j] = y /\ x.poll = "PENDING" /\ j \notin bad /\ x.posted
        BY <1>3, <2>3, <2>5, <3>1, <3>2, <3>3, <3>4, <3>6, Zenon DEF Fine, Stored
      <3>7. CASE reg'[j] = x /\ ~(x.poll = "PENDING" /\ j \notin bad)
        BY <2>3, <2>5, <3>1, <3>2, <3>4, <3>7 DEF Fine, Stored
      <3> QED BY <2>2, <2>5, <3>5, <3>6, <3>7, Zenon
    <2> QED BY <2>4, <2>5, Zenon
  <1>6. Registrations'
    <2>1. ASSUME NEW j \in Regs PROVE Fine(reg'[j], hook'[j], Packet(j)', closing')
      BY <1>2, <1>4, <1>5, Zenon DEF Fine, Stored
    <2> QED BY <1>2, <2>1, RegsNext, Zenon
  <1>7. TypeOK'
    <2>1. reg' = [i \in Regs |-> reg'[i]]
      BY <1>3, Zenon DEF DetachAll
    <2>2. hook' \in [Regs -> {"none", "armed", "entered", "posting"}]
      BY <1>1, <1>3 DEF TypeOK
    <2> QED BY <1>1, <1>2, <2>1, <2>2 DEF TypeOK, objVars, MayConsume
  <1>8. Packets'
    BY <1>1, <1>2 DEF Packets
  <1>9. Table' /\ Nodes'
    <2>1. \A j \in Regs : ~Attached(j)'
      BY <1>5, Zenon DEF Attached, Live
    <2> QED BY <1>1, <1>2, <2>1 DEF Table, Nodes
  <1> QED BY <1>6, <1>7, <1>8, <1>9, Zenon DEF IInv

LEMMA FinishDestroySafe ==
  ASSUME IInv, FinishDestroy
  PROVE  IInv'
  <1>1. TypeOK /\ Packets /\ Registrations /\ Table /\ Nodes
    BY DEF IInv
  <1>2. /\ UNCHANGED <<objVars, reg, hook, table, queue, nextGen, closing, held>>
        /\ \A j \in Regs : ~Live(j)
        /\ pc = "draining" /\ pc' = "destroyed" /\ ready' = <<>>
    BY DEF FinishDestroy, portVars
  <1>3. TypeOK'
    BY <1>1, <1>2 DEF TypeOK, objVars, MayConsume
  <1>4. Packets'
    BY <1>1, <1>2 DEF Packets
  <1>5. \A j \in Regs : ~Attached(j) /\ ~Attached(j)'
    BY <1>2 DEF Attached, Live
  <1>6. Table' /\ Nodes'
    BY <1>1, <1>2, <1>5 DEF Table, Nodes, TypeOK
  <1>7. Registrations'
    <2>1. ASSUME NEW j \in Regs PROVE Fine(reg'[j], hook'[j], Packet(j)', closing')
      <3>1. Packet(j)' <=> Packet(j)
        BY <1>2 DEF Packet, InQueue
      <3> QED BY <1>1, <1>2, <3>1 DEF Registrations, Fine, Stored
    <2> QED BY <1>2, <2>1, RegsNext, Zenon
  <1> QED BY <1>3, <1>4, <1>6, <1>7 DEF IInv

LEMMA InitInv ==
  ASSUME Init
  PROVE  IInv
  <1>1. TypeOK
    <2>1. consumes \in BOOLEAN /\ (consumes => MayConsume)
      <3>1. CASE kind = "CONSUMPTIVE"
        BY <3>1 DEF Init, MayConsume
      <3>2. CASE kind = "ET_UNSUPPORTED"
        BY <3>2 DEF Init, MayConsume
      <3>3. CASE kind # "CONSUMPTIVE" /\ kind # "ET_UNSUPPORTED"
        BY <3>3 DEF Init, MayConsume
      <3> QED BY <3>1, <3>2, <3>3
    <2> QED BY <2>1 DEF TypeOK, Init
  <1>2. Packets
    BY DEF Packets, Init
  <1>3. Registrations
    BY NoneFresh DEF Registrations, Fine, Init, Packet, InQueue
  <1>4. Table /\ Nodes
    BY DEF Table, Nodes, Attached, Live, Init
  <1> QED BY <1>1, <1>2, <1>3, <1>4 DEF IInv

----------------------------------------------------------------------------
(* Delivery *)

(* What is left of a queue without duplicates when its head is gone *)
LEMMA TailIs ==
  ASSUME NEW S, NEW s \in Seq(S), s # <<>>
  PROVE  /\ Tail(s) \in Seq(S) /\ Head(s) = s[1] /\ 1 \in DOMAIN s
         /\ \A k \in DOMAIN Tail(s) : /\ k \in Nat /\ k + 1 \in DOMAIN s /\ k + 1 # 1
                                      /\ Tail(s)[k] = s[k + 1]
         /\ \A k \in DOMAIN s : k = 1 \/ (k - 1 \in DOMAIN Tail(s) /\ s[k] = Tail(s)[k - 1])
  OBVIOUS

LEMMA NodesTail ==
  ASSUME TypeOK, Nodes, ready # <<>>, ready' = Tail(ready), nextGen' = nextGen
  PROVE  /\ ready' \in Seq([gen : Nat, events : SUBSET {"IN", "HUP"}])
         /\ \A k \in DOMAIN ready' : ready'[k].gen <= nextGen'
         /\ \A k, l \in DOMAIN ready' : ready'[k].gen = ready'[l].gen => k = l
         /\ \E k \in DOMAIN ready : ready[k].gen = Head(ready).gen
         /\ \A g : (\E k \in DOMAIN ready' : ready'[k].gen = g)
                     <=> g # Head(ready).gen /\ \E k \in DOMAIN ready : ready[k].gen = g
  <1> DEFINE S == [gen : Nat, events : SUBSET {"IN", "HUP"}]
  <1>0. ready \in Seq(S)
    BY DEF TypeOK
  <1>1. /\ ready' \in Seq(S) /\ Head(ready) = ready[1] /\ 1 \in DOMAIN ready
        /\ \A k \in DOMAIN ready' : /\ k \in Nat /\ k + 1 \in DOMAIN ready /\ k + 1 # 1
                                    /\ ready'[k] = ready[k + 1]
        /\ \A k \in DOMAIN ready : k = 1 \/ (k - 1 \in DOMAIN ready' /\ ready[k] = ready'[k - 1])
    <2> HIDE DEF S
    <2> QED BY <1>0, TailIs
  <1>2. \A k, l \in DOMAIN ready : ready[k].gen = ready[l].gen => k = l
    BY DEF Nodes
  <1>3. \A k \in DOMAIN ready' : ready'[k].gen <= nextGen'
    BY <1>1 DEF Nodes
  <1>4. \A k, l \in DOMAIN ready' : ready'[k].gen = ready'[l].gen => k = l
    BY <1>1, <1>2
  <1>5. ASSUME NEW g
        PROVE  (\E k \in DOMAIN ready' : ready'[k].gen = g)
                     <=> g # Head(ready).gen /\ \E k \in DOMAIN ready : ready[k].gen = g
    <2>1. ASSUME NEW k \in DOMAIN ready', ready'[k].gen = g
          PROVE  g # Head(ready).gen /\ \E l \in DOMAIN ready : ready[l].gen = g
      BY <1>1, <1>2, <2>1
    <2>2. ASSUME g # Head(ready).gen, NEW k \in DOMAIN ready, ready[k].gen = g
          PROVE  \E l \in DOMAIN ready' : ready'[l].gen = g
      BY <1>1, <2>2, Zenon
    <2> QED BY <2>1, <2>2
  <1> QED BY <1>1, <1>3, <1>4, <1>5

(* A step on block i when it is the only one that is not detached *)
LEMMA TableNext ==
  ASSUME Table, NEW i \in Regs, table = None \/ table = i,
         \A j \in Regs \ {i} : reg'[j] = reg[j], Distinct(ready', nextGen'),
         \/ /\ table' = i /\ Shaped(reg'[i]) /\ ~reg'[i].deleted /\ reg'[i].gen <= nextGen'
            /\ reg'[i].ready <=> HasNode(ready', reg'[i].gen)
         \/ table' = None /\ (reg'[i] = Free \/ reg'[i].deleted)
  PROVE  Table' /\ Nodes'
  <1>1. \A j \in Regs \ {i} : ~Attached(j)'
    <2>1. \A j \in Regs \ {i} : ~Attached(j)
      BY NoneFresh, Zenon DEF Table
    <2> QED BY <2>1, Zenon DEF Attached, Live
  <1>2. CASE table' = i /\ Shaped(reg'[i]) /\ ~reg'[i].deleted /\ reg'[i].gen <= nextGen'
             /\ (reg'[i].ready <=> HasNode(ready', reg'[i].gen))
    <2>1. Attached(i)'
      BY <1>2, ShapedLive, Zenon DEF Attached, Live
    <2>2. Table'
      BY <1>1, <1>2, <2>1, Zenon DEF Table
    <2> QED BY <1>1, <1>2, <2>2, Zenon DEF Nodes, Distinct, HasNode
  <1>3. CASE table' = None /\ (reg'[i] = Free \/ reg'[i].deleted)
    <2>1. ~Attached(i)'
      BY <1>3, Zenon DEF Attached, Live
    <2> QED BY <1>1, <1>3, <2>1, Zenon DEF Table, Nodes, Distinct
  <1> QED BY <1>2, <1>3, Zenon

(* What the invariant says of the registration in the table *)
LEMMA AtTable ==
  ASSUME IInv, table # None
  PROVE  /\ table \in Regs /\ Live(table) /\ ~reg[table].deleted
         /\ Stored(reg[table], hook[table], Packet(table))
         /\ ~closing => /\ consumes => Conserved(reg[table], hook[table])
                        /\ Remembered(reg[table], hook[table])
         /\ reg[table].gen <= nextGen /\ Distinct(ready, nextGen)
         /\ reg[table].ready <=> HasNode(ready, reg[table].gen)
  <1>1. table \in Regs /\ Attached(table)
    BY SMTT(30) DEF IInv, TypeOK, Table
  <1>2. /\ Stored(reg[table], hook[table], Packet(table))
        /\ ~closing => /\ consumes => Conserved(reg[table], hook[table])
                       /\ Remembered(reg[table], hook[table])
    BY <1>1, AtBlock DEF Attached
  <1> QED BY <1>1, <1>2 DEF IInv, Nodes, Attached, Distinct, HasNode

LEMMA DrainSafe ==
  ASSUME IInv, Drain
  PROVE  IInv'
  <1> DEFINE n == Head(ready)
  <1>1. TypeOK /\ Packets /\ Registrations /\ Table /\ Nodes
    BY DEF IInv
  <1>2. /\ UNCHANGED <<objVars, hook, table, queue, nextGen, closing, held>>
        /\ pc \in {"drain", "again", "last", "failed"}
    BY DEF Drain, AfterDrain, portVars
  <1>3. held = None
    BY <1>1, <1>2 DEF Packets
  <1>4. CASE ready = <<>> /\ pc # "failed" /\ pc' = AfterDrain[pc] /\ UNCHANGED <<reg, ready>>
    <2>1. pc' \in {"arm", "dequeue", "check"}
      BY <1>2, <1>4 DEF AfterDrain
    <2> QED BY <1>2, <1>3, <1>4, <2>1, QuietSafe, Zenon
  <1>5. CASE /\ ready # <<>> /\ ready' = Tail(ready) /\ UNCHANGED <<reg, pc>>
             /\ ~(table # None /\ reg[table].gen = n.gen)
    <2>1. /\ ready' \in Seq([gen : Nat, events : SUBSET {"IN", "HUP"}])
          /\ Distinct(ready', nextGen')
          /\ \A g : HasNode(ready', g) <=> g # n.gen /\ HasNode(ready, g)
      BY <1>1, <1>2, <1>5, NodesTail, Zenon DEF Distinct, HasNode
    <2>2. TypeOK'
      BY <1>1, <1>2, <1>5, <2>1, Zenon DEF TypeOK, objVars, MayConsume
    <2>3. Packets'
      BY <1>1, <1>2, <1>5 DEF Packets
    <2>4. Registrations'
      <3>1. ASSUME NEW j \in Regs PROVE Fine(reg'[j], hook'[j], Packet(j)', closing')
        <4>1. Packet(j)' <=> Packet(j)
          BY <1>2 DEF Packet, InQueue
        <4> QED BY <1>1, <1>2, <1>5, <4>1, Zenon DEF Registrations, Fine, Stored
      <3> QED BY <1>2, <3>1, RegsNext, Zenon
    <2>5. \A j \in Regs : Attached(j)' <=> Attached(j)
      BY <1>5 DEF Attached, Live
    <2>6. Table'
      <3>1. table # None => table \in Regs
        BY <1>1, Zenon DEF TypeOK
      <3> QED BY <1>1, <1>2, <1>5, <2>5, <3>1, Zenon DEF Table, Attached, Live
    <2>7. Nodes'
      <3>1. \A j \in Regs : Attached(j) => reg[j].gen # n.gen
        BY <1>1, <1>5, NoneFresh, Zenon DEF Table
      <3>2. \A j \in Regs : Attached(j) => /\ reg[j].gen <= nextGen
                                           /\ reg[j].ready <=> HasNode(ready, reg[j].gen)
        BY <1>1, Zenon DEF Nodes, HasNode
      <3>3. ASSUME NEW j \in Regs, Attached(j)'
            PROVE  reg'[j].gen <= nextGen' /\ (reg'[j].ready <=> HasNode(ready', reg'[j].gen))
        BY <1>2, <1>5, <2>1, <2>5, <3>1, <3>2, <3>3, Zenon
      <3> QED BY <2>1, <3>3 DEF Nodes, Distinct, HasNode
    <2> QED BY <2>2, <2>3, <2>4, <2>6, <2>7, Zenon DEF IInv
  <1>6. ASSUME ready # <<>>, ready' = Tail(ready), table # None, reg[table].gen = n.gen,
               NEW level, NEW valid, pc' = "out",
               reg' = [reg EXCEPT ![table] = Delivered(@, n, level, valid)]
        PROVE  IInv'
    <2> DEFINE y == Delivered(reg[table], n, level, valid)
    <2>1. /\ ready' \in Seq([gen : Nat, events : SUBSET {"IN", "HUP"}])
          /\ Distinct(ready', nextGen') /\ HasNode(ready, n.gen)
          /\ \A g : HasNode(ready', g) <=> g # n.gen /\ HasNode(ready, g)
      BY <1>1, <1>2, <1>6, NodesTail, Zenon DEF Distinct, HasNode
    <2>2. /\ table \in Regs /\ reg[table].ready /\ Stored(reg[table], hook[table], Packet(table))
          /\ ~reg[table].deleted /\ reg[table].gen <= nextGen
          /\ ~closing /\ consumes => Conserved(reg[table], hook[table])
      BY <1>6, <2>1, AtTable, Zenon
    <2>3. hook[table] = "none" /\ ~Packet(table)
      BY <2>2, Zenon DEF Stored
    <2>4. Stored(reg[table], "none", FALSE)
      BY <2>2, <2>3 DEF Stored
    <2>5. /\ Shaped(y) /\ y.gen = reg[table].gen /\ y.deleted = reg[table].deleted /\ ~y.ready
          /\ Fine(y, "none", FALSE, closing)
      <3>1. ~closing /\ ~reg[table].deleted /\ consumes => Conserved(reg[table], "none")
        BY <2>2, <2>3
      <3>2. PICK r, m : r = reg[table] /\ m = n
        OBVIOUS
      <3>3. /\ Stored(r, "none", FALSE) /\ r.ready
            /\ ~closing /\ ~r.deleted /\ consumes => Conserved(r, "none")
        BY ONLY <2>2, <2>4, <3>1, <3>2, Zenon
      <3> DEFINE x == Delivered(r, m, level, valid)
      <3>4. /\ Shaped(x) /\ x.gen = r.gen /\ x.deleted = r.deleted /\ ~x.ready
            /\ Fine(x, "none", FALSE, closing)
        BY ONLY <1>1, <3>3, DeliveredFine, Zenon
      <3> QED BY ONLY <3>2, <3>4, Zenon
    <2> HIDE DEF y
    <2>6. /\ reg' = [reg EXCEPT ![table] = y] /\ hook' = [hook EXCEPT ![table] = "none"]
      BY <1>1, <1>2, <1>6, <2>2, <2>3, Zenon DEF TypeOK, y
    <2>7. Fine(y, "none", FALSE \/ InQueue(table) \/ held' = table, closing')
      BY <1>2, <2>3, <2>5, Zenon DEF Fine, Stored, Packet
    <2>8. held' # None <=> pc' \in {"complete", "reclaim"}
      BY <1>2, <1>3, <1>6
    <2>9. /\ reg' = [j \in Regs |-> reg'[j]] /\ queue' \in Seq(Regs)
          /\ hook' \in [Regs -> {"none", "armed", "entered", "posting"}]
          /\ reg'[table] = y /\ \A j \in Regs \ {table} : reg'[j] = reg[j]
          /\ Packets' /\ Registrations'
      BY <1>1, <1>2, <2>2, <2>6, <2>7, <2>8, BlockSafe, Zenon
    <2>10. TypeOK'
      BY <1>1, <1>2, <2>1, <2>9, Zenon DEF TypeOK, objVars, MayConsume
    <2>11. Table' /\ Nodes'
      <3>1. ~HasNode(ready', reg'[table].gen)
        BY <1>6, <2>1, <2>5, <2>9
      <3> QED BY <1>1, <1>2, <2>1, <2>2, <2>5, <2>9, <3>1, TableNext, Zenon
    <2> QED BY <2>9, <2>10, <2>11, Zenon DEF IInv
  <1>7. CASE /\ ready # <<>> /\ table # None /\ reg[table].gen = n.gen /\ ready' = Tail(ready)
             /\ Return("event")
             /\ \/ reg' = [reg EXCEPT ![table] = Delivered(@, n, Level(@), TRUE)]
                \/ reg' = [reg EXCEPT ![table] = Delivered(@, n, {}, FALSE)]
    <2>1. PICK level, valid : reg' = [reg EXCEPT ![table] = Delivered(@, n, level, valid)]
      BY <1>7, Zenon
    <2> QED BY <1>6, <1>7, <2>1, Zenon DEF Return
  <1> QED BY <1>4, <1>5, <1>7, Zenon DEF Drain

LEMMA OneSafe ==
  ASSUME IInv, NEW i \in Regs, table = None \/ table = i, NEW o, Apply(i, o),
         UNCHANGED <<objVars, held>>, held # None <=> pc' \in {"complete", "reclaim"},
         o.hook \in {"keep", "none", "armed"}, o.post => ~Packet(i),
         Fine(o.r, Hook(o, hook[i]), o.post \/ Packet(i), closing \/ o.res = "fatal"),
         ready' \in NodeSeq, nextGen' \in Nat, Distinct(ready', nextGen'),
         \/ /\ table' = i /\ Shaped(o.r) /\ ~o.r.deleted /\ o.r.gen <= nextGen'
            /\ o.r.ready <=> HasNode(ready', o.r.gen)
         \/ table' = None /\ (o.r = Free \/ o.r.deleted)
  PROVE  IInv'
  <1>1. TypeOK /\ Packets /\ Registrations /\ Table /\ Nodes
    BY SMTT(30) DEF IInv
  <1>2. /\ Fine(o.r, Hook(o, hook[i]), o.post \/ InQueue(i) \/ held' = i, closing \/ o.res = "fatal")
        /\ o.post => ~InQueue(i) /\ held' # i
    BY Zenon DEF Fine, Stored, Packet
  <1>3. /\ reg' = [j \in Regs |-> reg'[j]] /\ queue' \in Seq(Regs)
        /\ hook' \in [Regs -> {"none", "armed", "entered", "posting"}]
        /\ reg'[i] = o.r /\ \A j \in Regs \ {i} : reg'[j] = reg[j]
        /\ Packets' /\ Registrations'
    BY <1>1, <1>2, ApplySafe, Zenon
  <1>4. TypeOK'
    BY <1>1, <1>3, Zenon DEF TypeOK, objVars, MayConsume, NodeSeq, NodeType
  <1>5. Table' /\ Nodes'
    BY <1>1, <1>3, TableNext, Zenon
  <1> QED BY <1>3, <1>4, <1>5, Zenon DEF IInv

(* The ready queue when a generation is drawn *)
LEMMA NewGen ==
  ASSUME IInv
  PROVE  /\ TypeOK /\ nextGen \in Nat /\ nextGen + 1 \in Nat
         /\ ready \in NodeSeq /\ Distinct(ready, nextGen) /\ Distinct(ready, nextGen + 1)
         /\ ~HasNode(ready, nextGen + 1)
         /\ \A x \in Nat : x <= nextGen => x <= nextGen + 1
         /\ Packets /\ (held # None <=> pc \in {"complete", "reclaim"})
  <1>1. TypeOK /\ Nodes /\ nextGen \in Nat /\ ready \in NodeSeq /\ Packets
    BY DEF IInv, TypeOK, NodeSeq, NodeType
  <1>2. \A k \in DOMAIN ready : ready[k].gen \in Nat /\ ready[k].gen <= nextGen
    <2> DEFINE N == [gen : Nat, events : SUBSET {"IN", "HUP"}]
    <2>1. \A k \in DOMAIN ready : ready[k] \in N
      <3>1. ready \in Seq(N)
        BY <1>1 DEF NodeSeq, NodeType
      <3> HIDE DEF N
      <3> QED BY <3>1
    <2> QED BY <1>1, <2>1 DEF Nodes
  <1>3. \A k, l \in DOMAIN ready : ready[k].gen = ready[l].gen => k = l
    BY <1>1 DEF Nodes
  <1>4. Distinct(ready, nextGen) /\ Distinct(ready, nextGen + 1) /\ ~HasNode(ready, nextGen + 1)
    BY <1>1, <1>2, <1>3, SMTT(30) DEF Distinct, HasNode
  <1> QED BY <1>1, <1>4 DEF Packets

LEMMA AddSafe ==
  ASSUME IInv, NEW m \in Masks, NEW md, Add(m, md)
  PROVE  IInv'
  <1> DEFINE g == nextGen + 1
             r == NewReg(m, md, g)
  <1>1. TypeOK /\ Packets /\ Nodes /\ nextGen \in Nat
    BY DEF IInv, TypeOK
  <1>2. /\ table = None /\ nextGen' = g /\ UNCHANGED <<objVars, ready, held, pc>>
    BY DEF Add, waitVars
  <1>0. PICK i \in Regs :
            ~Live(i) /\ \E o \in SubmitForWaiter(i, Free, r) :
                            Apply(i, o) /\ table' = IF Failed(o) THEN None ELSE i
    BY DEF Add
  <1>3. PICK o \in SubmitForWaiter(i, Free, r) :
            ~Live(i) /\ Apply(i, o) /\ table' = IF Failed(o) THEN None ELSE i
    BY <1>0, SMTT(30)
  <1>4. hook[i] = "none" /\ ~Packet(i)
    BY <1>3, AtBlock, Zenon
  <1>5. /\ Shaped(r) /\ Fine(r, "none", FALSE, closing) /\ r.gen = g /\ ~r.ready /\ ~r.deleted
    <2> DEFINE a == m # {} \/ kind = "PIPE"
    <2>0. r = [state |-> "live", interest |-> m, mode |-> md, gen |-> g, poll |-> "IDLE",
               rearm |-> a, oneshot |-> FALSE, ready |-> FALSE,
               holdoff |-> FALSE, observed |-> {}, terminal |-> FALSE, owned |-> FALSE,
               posted |-> FALSE, wait |-> FALSE, deleted |-> FALSE, balance |-> 0]
      BY Zenon DEF NewReg
    <2>1. ~a => m = {} /\ kind # "PIPE"
      OBVIOUS
    <2> HIDE DEF a, r, g
    <2>2. Shaped(r)
      BY <2>0, Zenon DEF Shaped, Fields
    <2>3. /\ r.gen = g /\ ~r.ready /\ ~r.deleted /\ ~r.owned /\ ~r.posted /\ r.poll = "IDLE"
          /\ r.balance = 0 /\ r.interest = m /\ r.rearm = a
      BY <2>0
    <2>4. g \in Nat
      BY <1>1 DEF g
    <2>5. Stored(r, "none", FALSE)
      BY <2>2, <2>3, <2>4, Zenon DEF Stored
    <2>6. Conserved(r, "none")
      BY <2>3 DEF Conserved, One
    <2>7. Remembered(r, "none")
      BY <2>1, <2>3 DEF Remembered, Dormant
    <2>8. r # Free
      BY <2>2, ShapedLive
    <2> QED BY <2>2, <2>3, <2>5, <2>6, <2>7, <2>8, Zenon DEF Fine
  <1>6. Fine(Free, "none", FALSE, closing)
    BY DEF Fine
  <1> HIDE DEF r
  <1>7. /\ Made(o) /\ o.hook \in {"keep", "none", "armed"}
        /\ Fine(o.r, Hook(o, "none"), o.post \/ FALSE, closing \/ o.res = "fatal")
        /\ \/ Same(r, o.r) /\ ~Failed(o)
           \/ o.r = Free /\ Failed(o)
    <2>1. PICK x, p : x = r /\ p = FALSE /\ p \in BOOLEAN
      BY Zenon
    <2>2. /\ Shaped(x) /\ Fine(x, "none", p, closing) /\ o \in SubmitForWaiter(i, Free, x)
          /\ Fine(Free, "none", p, closing)
      BY <1>3, <1>5, <1>6, <2>1, Zenon
    <2>3. Replaced(Free, x, "none", p, o)
      BY <1>1, <2>1, <2>2, ForWaiterFine, Zenon
    <2> QED BY <2>1, <2>3 DEF Replaced
  <1>8. Fine(o.r, Hook(o, hook[i]), o.post \/ Packet(i), closing \/ o.res = "fatal")
    BY <1>4, <1>7, Zenon DEF Fine, Stored
  <1>9. /\ ready' \in NodeSeq /\ nextGen' \in Nat /\ Distinct(ready', nextGen')
        /\ ~HasNode(ready', g)
    BY <1>2, NewGen, SMTT(30)
  <1>10. \/ /\ table' = i /\ Shaped(o.r) /\ ~o.r.deleted /\ o.r.gen <= nextGen'
            /\ o.r.ready <=> HasNode(ready', o.r.gen)
         \/ table' = None /\ (o.r = Free \/ o.r.deleted)
    <2>1. CASE Same(r, o.r) /\ ~Failed(o)
      <3>1. table' = i /\ Shaped(o.r) /\ ~o.r.deleted /\ ~o.r.ready /\ o.r.gen = g
        BY <1>3, <1>5, <2>1, Zenon DEF Same
      <3> QED BY <1>1, <1>2, <1>9, <3>1, SMTT(30)
    <2>2. CASE o.r = Free /\ Failed(o)
      BY <1>3, <2>2
    <2> QED BY <1>7, <2>1, <2>2, Zenon
  <1>11. held # None <=> pc' \in {"complete", "reclaim"}
    BY <1>1, <1>2, SMTT(30) DEF Packets
  <1> QED BY <1>2, <1>3, <1>4, <1>7, <1>8, <1>9, <1>10, <1>11, OneSafe, Zenon

LEMMA RearmSafe ==
  ASSUME IInv, Rearm
  PROVE  IInv'
  <1>1. PICK i, r, g, h, p :
            i = table /\ r = reg[i] /\ g = nextGen + 1 /\ h = hook[i] /\ p = Packet(i)
    BY Zenon
  <1> DEFINE x == Rearmed(r, g)
  <1>2. /\ table # None /\ nextGen' = g /\ UNCHANGED <<objVars, table, ready, held, pc>>
    BY <1>1, Zenon DEF Rearm, waitVars
  <1>3. PICK o \in SubmitForWaiter(i, r, x) : Apply(i, o)
    BY <1>1, Zenon DEF Rearm
  <1>4. /\ i \in Regs /\ Live(i) /\ ~r.deleted /\ Stored(r, h, p) /\ p \in BOOLEAN
        /\ ~closing => (consumes => Conserved(r, h)) /\ Remembered(r, h)
        /\ r.gen <= nextGen /\ (r.ready <=> HasNode(ready, r.gen)) /\ (consumes => MayConsume)
    <2>1. p \in BOOLEAN
      BY <1>1, Zenon DEF Packet, InQueue
    <2> QED BY <1>1, <1>2, <2>1, AtTable, Zenon DEF IInv, TypeOK
  <1>5. Fine(r, h, p, closing)
    BY <1>1, <1>4, Zenon DEF Fine, Live
  <1>6. Shaped(x) /\ x.gen = g /\ ~x.ready /\ x.deleted = r.deleted /\ Fine(x, h, p, closing)
    <2> DEFINE own == r.owned \/ Carries(r)
    <2>1. /\ r.ready /\ consumes => own
          /\ ~r.ready => (own <=> r.owned)
      BY <1>4 DEF Carries
    <2>2. x = [r EXCEPT !.owned = own, !.oneshot = FALSE, !.ready = FALSE, !.observed = {},
                        !.terminal = FALSE, !.holdoff = FALSE, !.rearm = TRUE, !.gen = g]
      BY SMTT(30) DEF Rearmed
    <2>3. Shaped(r) /\ g \in Nat
      BY <1>1, <1>4, NewGen DEF Stored
    <2> HIDE DEF own, x
    <2>4. /\ Shaped(x) /\ x.gen = g /\ x.ready = FALSE /\ x.deleted = r.deleted /\ x.owned = own
          /\ x.rearm = TRUE /\ x.poll = r.poll /\ x.posted = r.posted /\ x.balance = r.balance
          /\ x.interest = r.interest /\ x.wait = r.wait
      BY <2>2, <2>3, Zenon DEF Shaped, Fields
    <2>5. Stored(x, h, p)
      BY <1>4, <2>3, <2>4, Zenon DEF Stored
    <2>6. consumes /\ Conserved(r, h) => Conserved(x, h)
      <3>1. CASE r.ready
        <4>1. h = "none" /\ r.poll = "IDLE"
          BY <1>4, <3>1, Zenon DEF Stored
        <4> QED BY <2>1, <2>4, <3>1, <4>1 DEF Conserved, One
      <3>2. CASE ~r.ready
        BY <2>1, <2>4, <3>2, Zenon DEF Conserved, One
      <3> QED BY <3>1, <3>2, Zenon
    <2>7. Remembered(r, h) => Remembered(x, h)
      BY <1>4, <2>4, Zenon DEF Remembered, Stored
    <2>8. x # Free
      BY <2>4, ShapedLive, Zenon
    <2> QED BY <1>4, <2>4, <2>5, <2>6, <2>7, <2>8, Zenon DEF Fine
  <1> HIDE DEF x
  <1>7. /\ Made(o) /\ o.hook \in {"keep", "none", "armed"} /\ (o.post => ~p)
        /\ Fine(o.r, Hook(o, h), o.post \/ p, closing \/ o.res = "fatal")
        /\ \/ Same(x, o.r) /\ ~Failed(o)
           \/ o.r = r /\ Failed(o) /\ ~x.ready
    <2>1. TypeOK
      BY DEF IInv
    <2>2. Replaced(r, x, h, p, o)
      BY <1>4, <1>5, <1>6, <2>1, ForWaiterFine, Zenon
    <2> QED BY <2>2 DEF Replaced
  <1>8. Fine(o.r, Hook(o, hook[i]), o.post \/ Packet(i), closing \/ o.res = "fatal")
    BY <1>1, <1>7, Zenon
  <1>9. Shaped(o.r) /\ ~o.r.deleted /\ o.r.gen <= nextGen' /\ (o.r.ready <=> HasNode(ready', o.r.gen))
    <2>1. CASE Same(x, o.r)
      <3>1. Shaped(o.r) /\ ~o.r.deleted /\ ~o.r.ready /\ o.r.gen = g
        BY <1>4, <1>6, <2>1, Zenon DEF Same
      <3>2. g <= nextGen' /\ ~HasNode(ready', g)
        BY <1>1, <1>2, NewGen
      <3> QED BY <3>1, <3>2, Zenon
    <2>2. CASE o.r = r
      BY <1>1, <1>2, <1>4, <2>2, NewGen, Zenon DEF Stored
    <2> QED BY <1>7, <2>1, <2>2, Zenon
  <1>10. /\ ready' \in NodeSeq /\ nextGen' \in Nat /\ Distinct(ready', nextGen')
         /\ held # None <=> pc' \in {"complete", "reclaim"}
    BY <1>1, <1>2, NewGen, Zenon
  <1>11. table = i /\ table' = i /\ i \in Regs /\ (o.post => ~Packet(i))
    BY <1>1, <1>2, <1>4, <1>7, Zenon
  <1> QED BY <1>2, <1>3, <1>7, <1>8, <1>9, <1>10, <1>11, OneSafe, Zenon

LEMMA ModSafe ==
  ASSUME IInv, NEW m \in Masks, NEW md, Mod(m, md)
  PROVE  IInv'
  <1>1. PICK i, r, g, h, p, dormant :
            i = table /\ r = reg[i] /\ g = nextGen + 1 /\ h = hook[i] /\ p = Packet(i)
            /\ dormant = (m = {} /\ kind # "PIPE")
    BY Zenon
  <1>2. table # None /\ UNCHANGED <<objVars, table, held, pc>>
    BY DEF Mod, waitVars
  <1>3. PICK c \in IF dormant THEN Cancel(i, r) ELSE {Outcome(r, "ok")} :
            IF Failed(c)
            THEN Apply(i, c) /\ UNCHANGED <<ready, nextGen>>
            ELSE /\ \E o \in After(c, SubmitForWaiter(i, c.r, Changed(c.r, m, md, g))) : Apply(i, o)
                 /\ ready' = IF Changed(c.r, m, md, g).ready
                             THEN Append(ready, Node(Changed(c.r, m, md, g), m)) ELSE ready
                 /\ nextGen' = g
    BY <1>1, Zenon DEF Mod
  <1>4. /\ i \in Regs /\ Live(i) /\ ~r.deleted /\ Stored(r, h, p) /\ p \in BOOLEAN
        /\ ~closing => (consumes => Conserved(r, h)) /\ Remembered(r, h)
        /\ r.gen <= nextGen /\ (r.ready <=> HasNode(ready, r.gen)) /\ (consumes => MayConsume)
    <2>1. p \in BOOLEAN
      BY <1>1, Zenon DEF Packet, InQueue
    <2> QED BY <1>1, <1>2, <2>1, AtTable, Zenon DEF IInv, TypeOK
  <1>5. Fine(r, h, p, closing) /\ r.gen \in Nat
    BY <1>1, <1>4, Zenon DEF Fine, Live, Stored
  <1>6. /\ Made(c) /\ ~c.post /\ c.hook \in {"keep", "none"} /\ c.res \in {"ok", "fail"}
        /\ Failed(c) => c.r = r /\ c.hook = "keep"
        /\ ~dormant => c.r = r /\ c.hook = "keep"
        /\ Same(r, c.r) /\ Stored(c.r, Hook(c, h), p)
        /\ ~Failed(c) /\ ~closing /\ ~r.deleted =>
              /\ consumes => Conserved(c.r, Hook(c, h))
              /\ dormant => c.r.poll # "PENDING"
              /\ Underway(c.r, Hook(c, h))
    <2>1. /\ h = hook[i] /\ (dormant => c \in Cancel(i, r)) /\ (~dormant => c = Outcome(r, "ok"))
          /\ ~closing /\ ~r.deleted => (consumes => Conserved(r, h)) /\ Remembered(r, h)
      BY <1>1, <1>3, <1>4, Zenon
    <2>2. Prepared(r, h, p, dormant, c)
      BY <1>4, <2>1, ModCancel, Zenon
    <2> QED BY <2>2, Zenon DEF Prepared
  <1>7. held # None <=> pc' \in {"complete", "reclaim"}
    BY <1>2, NewGen
  <1>8. CASE Failed(c)
    <2>1. /\ Apply(i, c) /\ UNCHANGED <<ready, nextGen>> /\ c.r = r /\ c.hook = "keep" /\ ~c.post
          /\ Hook(c, hook[i]) = hook[i]
      BY <1>3, <1>6, <1>8, Zenon DEF Hook
    <2>2. Fine(c.r, Hook(c, hook[i]), c.post \/ Packet(i), closing \/ c.res = "fatal")
      BY <1>1, <1>5, <2>1, Zenon DEF Fine, Stored
    <2>3. /\ ready' \in NodeSeq /\ nextGen' \in Nat /\ Distinct(ready', nextGen')
          /\ table' = i /\ Shaped(c.r) /\ ~c.r.deleted /\ c.r.gen <= nextGen'
          /\ c.r.ready <=> HasNode(ready', c.r.gen)
      BY <1>1, <1>2, <1>4, <2>1, NewGen, Zenon DEF Stored
    <2> QED BY <1>1, <1>2, <1>4, <1>7, <2>1, <2>2, <2>3, OneSafe, Zenon
  <1>9. CASE ~Failed(c)
    <2>1. PICK x, d, k : x = Changed(c.r, m, md, g) /\ d = c.r /\ k = Hook(c, h)
      BY Zenon
    <2>2. PICK o \in After(c, SubmitForWaiter(i, d, x)) : Apply(i, o)
      BY <1>3, <1>9, <2>1, Zenon
    <2>3. nextGen' = g /\ ready' = IF x.ready THEN Append(ready, Node(x, m)) ELSE ready
      BY <1>3, <1>9, <2>1, Zenon
    <2>4. /\ Shaped(x) /\ x.gen = g /\ x.deleted = r.deleted /\ Fine(x, k, p, closing)
          /\ x.interest = m
      <3>1. g \in Nat /\ d.deleted = r.deleted /\ Stored(d, k, p)
        BY <1>1, <1>6, <2>1, NewGen, Zenon DEF Same
      <3>2. Changeable(d, m, k)
        BY <1>1, <1>6, <1>9, <2>1, <3>1, Zenon DEF Changeable
      <3>3. x = Changed(d, m, md, g)
        BY <2>1
      <3>4. Reworked(d, x, m, g, k, p)
        BY <1>4, <3>1, <3>2, <3>3, ChangedFine, Zenon
      <3> QED BY <3>1, <3>4, Zenon DEF Reworked
    <2>5. ~x.ready /\ ~Dormant(x) => Fine(d, k, p, closing)
      <3>1. ~Dormant(x) => ~dormant
        BY <1>1, <2>4, Zenon DEF Dormant
      <3>2. ~dormant => d = r /\ k = h
        BY <1>6, <2>1, Zenon DEF Hook
      <3> QED BY <1>5, <3>1, <3>2
    <2>6. ASSUME NEW q \in SubmitForWaiter(i, d, x)
          PROVE  /\ Made(q) /\ q.hook \in {"keep", "none", "armed"} /\ (q.post => ~p)
                 /\ Fine(q.r, Hook(q, k), q.post \/ p, closing \/ q.res = "fatal")
                 /\ \/ Same(x, q.r) /\ ~Failed(q)
                    \/ q.r = d /\ Failed(q) /\ ~x.ready
      <3>1. TypeOK
        BY DEF IInv
      <3>2. Replaced(d, x, k, p, q)
        BY <1>4, <2>4, <2>5, <2>6, <3>1, ForWaiterFine, Zenon
      <3> QED BY <3>2, Zenon DEF Replaced
    <2>7. PICK q \in SubmitForWaiter(i, d, x) :
              Gives(o, q.r, IF q.hook = "keep" THEN c.hook ELSE q.hook, q.post, q.res)
      <3>1. \A q \in SubmitForWaiter(i, d, x) : Made(q)
        BY <2>6
      <3> QED BY <1>6, <3>1, AfterIs, Zenon
    <2>8. /\ Made(o) /\ o.r = q.r /\ (o.post <=> q.post) /\ o.res = q.res
          /\ Hook(o, h) = Hook(q, k)
          /\ o.hook \in {"keep", "none", "armed"}
      <3>1. /\ Made(o) /\ o.r = q.r /\ (o.post <=> q.post) /\ o.res = q.res
            /\ Hook(o, h) = Hook(q, Hook(c, h))
            /\ o.hook = c.hook \/ o.hook = q.hook
        BY <2>7, AfterHook
      <3>2. c.hook \in {"keep", "none", "armed"} /\ q.hook \in {"keep", "none", "armed"}
        BY <1>6, <2>6, Zenon
      <3> QED BY <2>1, <3>1, <3>2, Zenon
    <2>9. Fine(o.r, Hook(o, hook[i]), o.post \/ Packet(i), closing \/ o.res = "fatal")
      BY <1>1, <2>6, <2>8, Zenon DEF Fine, Stored
    <2>10. ready' \in NodeSeq /\ Distinct(ready', nextGen') /\ nextGen' \in Nat
           /\ (x.ready <=> HasNode(ready', g)) /\ (~x.ready => ready' = ready)
      <3>1. CASE ~x.ready
        <4>1. ready' = ready /\ nextGen' = nextGen + 1 /\ g = nextGen + 1
          BY <1>1, <2>3, <3>1, Zenon
        <4> QED BY <3>1, <4>1, NewGen, Zenon
      <3>2. CASE x.ready
        <4>1. PICK n : n = Node(x, m) /\ n \in NodeType /\ n.gen = g
          <5>1. m \in SUBSET {"IN", "HUP"} /\ g \in Nat
            BY <1>1, NewGen, Zenon DEF Masks
          <5>2. Node(x, m) = [gen |-> g, events |-> m]
            BY <2>4, Zenon DEF Node
          <5>3. Node(x, m) \in NodeType /\ Node(x, m).gen = g
            BY <5>1, <5>2 DEF NodeType
          <5> QED BY <5>3, Zenon
        <4>2. ready' = Append(ready, n)
          BY <2>3, <3>2, <4>1, Zenon
        <4>3. ready \in NodeSeq /\ Distinct(ready, g) /\ ~HasNode(ready, g) /\ g \in Nat
          BY <1>1, NewGen, Zenon
        <4>4. g <= g
          BY <4>3
        <4>5. ready' \in NodeSeq /\ Distinct(ready', g) /\ HasNode(ready', g)
          BY <4>1, <4>2, <4>3, <4>4, NodeAdded, Zenon
        <4> QED BY <2>3, <3>2, <4>3, <4>5, Zenon
      <3> QED BY <3>1, <3>2
    <2>11. Shaped(o.r) /\ ~o.r.deleted /\ o.r.gen <= nextGen' /\ (o.r.ready <=> HasNode(ready', o.r.gen))
      <3>1. CASE Same(x, q.r)
        <4>1. Shaped(o.r) /\ ~o.r.deleted /\ o.r.ready = x.ready /\ o.r.gen = g
          BY <1>4, <2>4, <2>8, <3>1, Zenon DEF Same
        <4>2. g <= nextGen'
          BY <1>1, <2>3, NewGen
        <4> QED BY <2>10, <4>1, <4>2, Zenon
      <3>2. CASE q.r = d /\ ~x.ready
        <4>1. Same(r, o.r)
          BY <1>6, <2>1, <2>8, <3>2, Zenon
        <4>2. Shaped(o.r) /\ ~o.r.deleted /\ o.r.gen = r.gen /\ o.r.ready = r.ready
          BY <1>4, <4>1, Zenon DEF Same
        <4>3. r.gen <= nextGen'
          BY <1>1, <1>4, <1>5, <2>3, NewGen, Zenon
        <4> QED BY <1>4, <2>10, <3>2, <4>2, <4>3, Zenon
      <3> QED BY <2>6, <3>1, <3>2, Zenon
    <2>12. table = i /\ table' = i /\ i \in Regs /\ (o.post => ~Packet(i))
      BY <1>1, <1>2, <1>4, <2>6, <2>8, Zenon
    <2> QED BY <1>2, <1>7, <2>2, <2>8, <2>9, <2>10, <2>11, <2>12, OneSafe, Zenon
  <1> QED BY <1>8, <1>9

LEMMA DelSafe ==
  ASSUME IInv, Del
  PROVE  IInv'
  <1>1. PICK i, r, g, h, p :
            i = table /\ r = reg[i] /\ g = nextGen + 1 /\ h = hook[i] /\ p = Packet(i)
    BY Zenon
  <1>2. /\ table # None /\ table' = None /\ nextGen' = g /\ UNCHANGED <<objVars, ready, held, pc>>
    BY <1>1 DEF Del, waitVars
  <1>3. PICK c \in Cancel(i, r) : Apply(i, [c EXCEPT !.r = Detached(c.r, g), !.res = "ok"])
    BY <1>1, Zenon DEF Del
  <1>4. i \in Regs /\ Stored(r, h, p)
    BY <1>1, <1>2, AtTable, Zenon
  <1>5. Made(c) /\ ~c.post /\ c.hook \in {"keep", "none"} /\ Stored(c.r, Hook(c, h), p)
    <2>1. Made(c) /\ ~c.post /\ c.hook \in {"keep", "none"}
      BY <1>4, CancelIs DEF Stored
    <2>2. Stored(r, hook[i], p) => Stored(c.r, Hook(c, hook[i]), p)
      BY CancelKeeps
    <2> QED BY <1>1, <1>4, <2>1, <2>2, Zenon
  <1>6. PICK x, o : x = Detached(c.r, g) /\ o = [c EXCEPT !.r = x, !.res = "ok"]
    BY Zenon
  <1>7. o.r = x /\ o.hook = c.hook /\ o.post = c.post /\ o.res = "ok" /\ Apply(i, o)
    BY <1>3, <1>5, <1>6, Zenon DEF Made, OutcomeFields
  <1>8. g \in Nat
    BY <1>1, NewGen
  <1>9. /\ \A cl : Fine(x, Hook(c, h), p, cl)
        /\ x = Free \/ x.deleted
    BY <1>5, <1>6, <1>8, DetachedFine, Zenon
  <1>10. Fine(o.r, Hook(o, hook[i]), o.post \/ Packet(i), closing \/ o.res = "fatal")
    BY <1>1, <1>5, <1>7, <1>9, Zenon DEF Fine, Stored, Hook
  <1>11. /\ ready' \in NodeSeq /\ nextGen' \in Nat /\ Distinct(ready', nextGen')
         /\ held # None <=> pc' \in {"complete", "reclaim"}
    BY <1>1, <1>2, NewGen, Zenon
  <1> QED BY <1>1, <1>2, <1>4, <1>5, <1>7, <1>9, <1>10, <1>11, OneSafe, Zenon

LEMMA ArmPassSafe ==
  ASSUME IInv, ArmPass
  PROVE  IInv'
  <1>1. PICK i, r, h, p : i = table /\ r = reg[i] /\ h = hook[i] /\ p = Packet(i)
    BY Zenon
  <1>2. /\ pc = "arm" /\ held = None /\ UNCHANGED <<objVars, ready, held>>
    BY NewGen, Zenon DEF ArmPass
  <1>3. CASE table = None \/ ~reg[table].rearm
    BY <1>2, <1>3, QuietSafe, SMTT(30) DEF ArmPass, portVars
  <1>4. CASE ~(table = None \/ ~reg[table].rearm)
    <2>1. PICK o \in Submit(i, r) :
              /\ Apply(i, o) /\ table' = TableAfter(table, o)
              /\ nextGen' = IF o.res = "gone" THEN nextGen + 1 ELSE nextGen
              /\ pc' = IF Failed(o) \/ o.res = "gone" THEN "failed" ELSE "again"
      BY <1>1, <1>4, Zenon DEF ArmPass
    <2>2. /\ i \in Regs /\ Live(i) /\ ~r.deleted /\ Stored(r, h, p) /\ p \in BOOLEAN
          /\ ~closing => (consumes => Conserved(r, h)) /\ Remembered(r, h)
          /\ r.gen <= nextGen /\ (r.ready <=> HasNode(ready, r.gen)) /\ table = i
      <3>1. p \in BOOLEAN
        BY <1>1, SMTT(30) DEF Packet, InQueue
      <3> QED BY <1>1, <1>4, <3>1, AtTable, Zenon
    <2>3. Fine(r, h, p, closing) /\ Shaped(r)
      BY <1>1, <2>2, Zenon DEF Fine, Live, Stored
    <2>4. /\ Made(o) /\ o.hook \in {"keep", "none", "armed"} /\ (o.post => ~p)
          /\ Fine(o.r, Hook(o, h), o.post \/ p, closing \/ o.res = "fatal")
          /\ \/ o.res = "gone" /\ (o.r = Free \/ o.r.deleted)
             \/ o.res # "gone" /\ Same(r, o.r)
      <3>1. TypeOK
        BY DEF IInv
      <3>2. Submitted(r, h, p, o)
        BY <1>1, <2>2, <2>3, <3>1, SubmitFine, Zenon
      <3> QED BY <3>2, Zenon DEF Submitted
    <2>5. Fine(o.r, Hook(o, hook[i]), o.post \/ Packet(i), closing \/ o.res = "fatal")
      BY <1>1, <2>4, Zenon
    <2>6. held # None <=> pc' \in {"complete", "reclaim"}
      BY <1>2, <2>1, Zenon
    <2>7. ready' \in NodeSeq /\ nextGen' \in Nat /\ Distinct(ready', nextGen')
      BY <1>2, <2>1, NewGen
    <2>8. \/ /\ table' = i /\ Shaped(o.r) /\ ~o.r.deleted /\ o.r.gen <= nextGen'
             /\ o.r.ready <=> HasNode(ready', o.r.gen)
          \/ table' = None /\ (o.r = Free \/ o.r.deleted)
      <3>1. CASE o.res = "gone" /\ (o.r = Free \/ o.r.deleted)
        BY <2>1, <2>2, <3>1, Zenon DEF TableAfter
      <3>2. CASE o.res # "gone" /\ Same(r, o.r)
        <4>1. table' = i /\ nextGen' = nextGen
          BY <2>1, <2>2, <3>2, Zenon DEF TableAfter
        <4> QED BY <1>2, <2>2, <3>2, <4>1, Zenon DEF Same
      <3> QED BY <2>4, <3>1, <3>2, Zenon
    <2>9. o.post => ~Packet(i)
      BY <1>1, <2>4, Zenon
    <2> QED BY <1>2, <2>1, <2>2, <2>4, <2>5, <2>6, <2>7, <2>8, <2>9, OneSafe, Zenon
  <1> QED BY <1>3, <1>4

LEMMA CompleteSafe ==
  ASSUME IInv, Complete
  PROVE  IInv'
  <1>1. PICK i, r : i = held /\ r = reg[i]
    OBVIOUS
  <1>2. /\ UNCHANGED <<objVars, table, nextGen>> /\ held' = None /\ pc' \in {"last", "draining"}
        /\ i \in Regs /\ Packet(i) /\ ~InQueue(i)
    BY <1>1 DEF Complete, IInv, TypeOK, Packets, Packet, InQueue
  <1>3. /\ TypeOK /\ Packets /\ Registrations /\ Table /\ Nodes
    BY Zenon DEF IInv
  <1>4. /\ hook[i] = "none" /\ Stored(r, "none", TRUE) /\ Live(i)
        /\ ~closing /\ ~r.deleted => (consumes => Conserved(r, "none")) /\ Remembered(r, "none")
    <2>1. /\ Live(i) /\ Stored(r, hook[i], Packet(i))
          /\ ~closing /\ ~r.deleted => (consumes => Conserved(r, hook[i])) /\ Remembered(r, hook[i])
      BY <1>1, <1>2, AtBlock, Zenon
    <2>2. hook[i] = "none"
      BY <1>2, <2>1 DEF Stored
    <2> QED BY <1>2, <2>1, <2>2 DEF Stored
  <1>5. Shaped(r) /\ r.posted /\ r.poll \in {"PENDING", "CANCELLED"} /\ ~r.ready /\ r.gen \in Nat
        /\ r.interest \in Masks
    BY <1>4 DEF Stored
  <1>6. PICK b, q : b = (r.owned \/ (MayConsume /\ r.poll = "PENDING")) /\ q = [r EXCEPT !.owned = b]
    BY Zenon
  <1>7. /\ Shaped(q) /\ q.owned = b /\ q.poll = r.poll /\ q.gen = r.gen /\ q.ready = r.ready
        /\ q.deleted = r.deleted /\ q.balance = r.balance /\ q.rearm = r.rearm /\ q.wait = r.wait
        /\ q.interest = r.interest /\ q.mode = r.mode /\ q.terminal = r.terminal
    BY <1>5, <1>6 DEF Shaped, Fields
  <1>8. PICK d \in Disarm(i, q) :
            \E e \in IF Failed(d) THEN DisarmFailed(i, [d.r EXCEPT !.posted = FALSE])
                     ELSE Completed(i, [[d.r EXCEPT !.posted = FALSE] EXCEPT !.poll = "IDLE"],
                                    r.poll = "CANCELLED") :
                /\ \E o \in After(d, {e.o}) : Apply(i, o)
                /\ ready' = ready \o e.node
    BY <1>1, <1>6, Zenon DEF Complete, HandleCompletion
  <1>9. /\ Made(d) /\ ~d.post /\ d.res \in {"ok", "fail"} /\ d.hook \in {"keep", "none"}
        /\ d.res = "ok" => Retired(q, d.r) /\ d.r.poll = q.poll /\ ~d.r.wait
        /\ d.res = "fail" => d.r = q
    BY <1>7, DisarmIs
  <1>10. d.res = "fail" => q.wait
    <2>1. d = Unhooked(i, q) \/ q.wait
      BY DEF Disarm
    <2>2. Unhooked(i, q).res = "ok"
      BY DEF Unhooked, Outcome
    <2> QED BY <2>1, <2>2
  <1>11. PICK x, y : x = [d.r EXCEPT !.posted = FALSE] /\ y = [x EXCEPT !.poll = "IDLE"]
    BY Zenon
  <1>12. /\ Shaped(d.r) /\ d.r.owned = b /\ d.r.poll = r.poll /\ d.r.gen = r.gen
         /\ d.r.ready = r.ready /\ d.r.deleted = r.deleted /\ d.r.balance = r.balance
         /\ d.r.rearm = r.rearm /\ d.r.interest = r.interest
    BY <1>7, <1>9 DEF Retired, Same
  <1>13. /\ Shaped(x) /\ x.owned = b /\ x.poll = r.poll /\ x.gen = r.gen
         /\ x.ready = r.ready /\ x.deleted = r.deleted /\ x.balance = r.balance
         /\ x.rearm = r.rearm /\ x.interest = r.interest /\ x.posted = FALSE
    BY <1>11, <1>12, Zenon DEF Shaped, Fields
  <1>14. /\ Shaped(y) /\ y.owned = b /\ y.poll = "IDLE" /\ y.gen = r.gen
         /\ y.ready = r.ready /\ y.deleted = r.deleted /\ y.balance = r.balance
         /\ y.rearm = r.rearm /\ y.interest = r.interest /\ y.posted = FALSE
    BY <1>11, <1>13, Zenon DEF Shaped, Fields
  <1>15. /\ ~closing /\ ~r.deleted /\ consumes => (b <=> r.owned) /\ r.balance = One(r.owned)
         /\ ~closing /\ ~r.deleted /\ consumes /\ r.poll = "PENDING" => b
    <2>1. Conserved(r, "none") => /\ r.poll = "PENDING" => r.owned
                                  /\ r.balance = One(r.owned)
      BY <1>5 DEF Conserved, One
    <2>2. consumes => MayConsume
      BY <1>3 DEF TypeOK
    <2> QED BY <1>4, <1>6, <2>1, <2>2, Zenon
  <1>16. /\ Stored(x, "none", FALSE) /\ Stored(y, "none", FALSE)
         /\ ~closing /\ ~r.deleted /\ consumes => Conserved(x, "none") /\ Conserved(y, "none")
    <2>1. Stored(x, "none", FALSE) /\ Stored(y, "none", FALSE)
      BY <1>5, <1>13, <1>14, Zenon DEF Stored
    <2>2. ~closing /\ ~r.deleted /\ consumes => Conserved(x, "none")
      BY <1>5, <1>13, <1>15, SMTT(30) DEF Conserved, One
    <2>3. ~closing /\ ~r.deleted /\ consumes => Conserved(y, "none")
      BY <1>5, <1>14, <1>15 DEF Conserved, One
    <2> QED BY <2>1, <2>2, <2>3, Zenon
  <1>17. PICK e : /\ Ends(r, e) /\ ready' = ready \o e.node
                  /\ \E o \in After(d, {e.o}) : Apply(i, o)
    <2>1. CASE Failed(d)
      <3>1. PICK e \in DisarmFailed(i, x) : /\ ready' = ready \o e.node
                                            /\ \E o \in After(d, {e.o}) : Apply(i, o)
        BY <1>8, <1>11, <2>1, Zenon
      <3>2. ~closing /\ ~x.deleted => x.poll = "PENDING" /\ (consumes => Conserved(x, "none"))
        <4>1. r.wait
          BY <1>7, <1>9, <1>10, <2>1, Zenon DEF Failed
        <4> QED BY <1>4, <1>5, <1>13, <1>16, <4>1, Zenon DEF Remembered
      <3>3. Ends(x, e)
        BY <1>3, <1>4, <1>5, <1>13, <1>16, <3>2, DisarmFailedIs, Zenon
      <3> QED BY <1>13, <3>1, <3>3, EndsAlike, Zenon
    <2>2. CASE ~Failed(d)
      <3>1. PICK cancelled : cancelled = (r.poll = "CANCELLED")
        OBVIOUS
      <3>2. PICK e \in Completed(i, y, cancelled) : /\ ready' = ready \o e.node
                                                    /\ \E o \in After(d, {e.o}) : Apply(i, o)
        BY <1>8, <1>11, <2>2, <3>1, Zenon
      <3>3. Resting(y)
        BY <1>5, <1>14, <1>16, Zenon DEF Resting
      <3>4. ~closing /\ ~y.deleted => /\ cancelled => y.rearm \/ Dormant(y)
                                      /\ ~cancelled /\ consumes => y.owned
        <4>1. Dormant(y) <=> Dormant(r)
          BY <1>14, Zenon DEF Dormant
        <4> QED BY <1>4, <1>5, <1>14, <1>15, <3>1, <4>1, Zenon DEF Remembered
      <3>5. Ends(y, e)
        BY <1>3, <3>3, <3>4, CompletedIs, Zenon
      <3> QED BY <1>14, <3>2, <3>5, EndsAlike, Zenon
    <2> QED BY <2>1, <2>2, Zenon
  <1>18. PICK o \in After(d, {e.o}) : Apply(i, o)
    BY <1>17, Zenon
  <1>19. /\ Made(o) /\ o.r = e.o.r /\ (o.post <=> e.o.post) /\ o.res = e.o.res
         /\ Hook(o, "none") = Hook(e.o, "none") /\ o.hook \in {"keep", "none", "armed"}
    <2>1. PICK m : m = e.o
      BY SMTT(30)
    <2>2. Made(m) /\ m.hook \in {"keep", "none", "armed"}
      BY <1>17, <2>1, Zenon DEF Ends
    <2>3. Gives(o, m.r, IF m.hook = "keep" THEN d.hook ELSE m.hook, m.post, m.res)
      <3>1. PICK S : S = {m}
        BY Zenon
      <3>2. o \in After(d, S) /\ \A s \in S : Made(s)
        BY <2>1, <2>2, <3>1, Zenon
      <3>3. PICK s \in S : Gives(o, s.r, IF s.hook = "keep" THEN d.hook ELSE s.hook, s.post, s.res)
        BY <1>9, <3>2, AfterIs, Zenon
      <3> QED BY <3>1, <3>3
    <2>4. Hook(d, "none") = "none"
      BY <1>9, Zenon DEF Hook
    <2>5. /\ Made(o) /\ o.r = m.r /\ (o.post <=> m.post) /\ o.res = m.res
          /\ Hook(o, "none") = Hook(m, "none")
          /\ o.hook = d.hook \/ o.hook = m.hook
      BY <2>3, <2>4, AfterHook, SMTT(30)
    <2> QED BY <1>9, <2>1, <2>2, <2>5, Zenon
  <1>20. Fine(o.r, Hook(o, hook[i]), o.post \/ InQueue(i) \/ held' = i, closing \/ o.res = "fatal")
    <2>1. Fine(e.o.r, Hook(e.o, "none"), e.o.post, closing \/ e.o.res = "fatal")
      BY <1>17, Zenon DEF Ends
    <2> QED BY <1>2, <1>4, <1>19, <2>1, NoneFresh, Zenon DEF Fine, Stored
  <1>21. /\ held' = held \/ (held = i /\ held' = None)
         /\ held' # None <=> pc' \in {"complete", "reclaim"}
         /\ o.post => ~InQueue(i) /\ held' # i
    BY <1>1, <1>2, NoneFresh, Zenon
  <1>22. /\ reg' = [j \in Regs |-> reg'[j]] /\ queue' \in Seq(Regs)
         /\ hook' \in [Regs -> {"none", "armed", "entered", "posting"}]
         /\ reg'[i] = o.r /\ \A j \in Regs \ {i} : reg'[j] = reg[j]
         /\ Packets' /\ Registrations'
    BY <1>2, <1>3, <1>18, <1>19, <1>20, <1>21, ApplySafe, Zenon
  <1>23. ready' \in NodeSeq /\ Table' /\ Nodes'
    <2>0. ready \in NodeSeq /\ nextGen \in Nat /\ Distinct(ready, nextGen)
      BY NewGen
    <2>1. ready \o <<>> = ready
      BY <2>0 DEF NodeSeq
    <2>2. CASE r.deleted
      <3>1. ready' = ready /\ (o.r = Free \/ o.r.deleted)
        BY <1>17, <1>19, <2>1, <2>2, Zenon DEF Ends
      <3>2. ~Attached(i) /\ ~Attached(i)'
        BY <1>1, <1>22, <2>2, <3>1, Zenon DEF Attached, Live
      <3>3. \A j \in Regs \ {i} : Attached(j)' <=> Attached(j)
        BY <1>22, Zenon DEF Attached, Live
      <3>4. table # None => Attached(table)'
        <4>1. table # None => table \in Regs \ {i}
          BY <1>3, <3>2, Zenon DEF TypeOK, Table
        <4> QED BY <1>2, <1>3, <1>22, <4>1, Zenon DEF Table, Attached, Live
      <3>5. \A j \in Regs : Attached(j)' => /\ Attached(j) /\ reg'[j].gen = reg[j].gen
                                            /\ reg'[j].ready <=> reg[j].ready
        BY <1>22, <3>2, <3>3, Zenon
      <3>6. UNCHANGED <<table, ready, nextGen>>
        BY <1>2, <3>1, Zenon
      <3>7. Table' /\ Nodes'
        BY <1>3, <3>4, <3>5, <3>6, TableSame, Zenon
      <3> QED BY <2>0, <3>1, <3>7, Zenon
    <2>3. CASE ~r.deleted
      <3>1. /\ table = i /\ r.gen <= nextGen /\ ~HasNode(ready, r.gen)
        BY <1>1, <1>2, <1>3, <1>4, <1>5, <2>3, Zenon DEF Table, Nodes, Attached, HasNode
      <3>2. /\ Shaped(o.r) /\ ~o.r.deleted /\ o.r.gen = r.gen
            /\ \/ ~o.r.ready /\ e.node = <<>>
               \/ /\ o.r.ready
                  /\ \E ev \in SUBSET {"IN", "HUP"} : e.node = <<[gen |-> r.gen, events |-> ev]>>
        BY <1>17, <1>19, <2>3, Zenon DEF Ends
      <3>3. ready' \in NodeSeq /\ Distinct(ready', nextGen) /\ (o.r.ready <=> HasNode(ready', r.gen))
        <4>1. CASE ~o.r.ready /\ e.node = <<>>
          BY <1>17, <2>0, <2>1, <3>1, <4>1, Zenon
        <4>2. CASE /\ o.r.ready
                   /\ \E ev \in SUBSET {"IN", "HUP"} : e.node = <<[gen |-> r.gen, events |-> ev]>>
          <5>1. PICK ev \in SUBSET {"IN", "HUP"} : e.node = <<[gen |-> r.gen, events |-> ev]>>
            BY <4>2, Zenon
          <5>2. PICK n : n = [gen |-> r.gen, events |-> ev]
            BY Zenon
          <5>3. n \in NodeType /\ n.gen = r.gen
            BY <1>5, <5>2 DEF NodeType
          <5>4. ready' = ready \o <<n>>
            BY <1>17, <5>1, <5>2, Zenon
          <5>5. ready' \in NodeSeq /\ Distinct(ready', nextGen) /\ HasNode(ready', r.gen)
            BY <2>0, <3>1, <5>3, <5>4, NodeAdded, Zenon
          <5> QED BY <4>2, <5>5, Zenon
        <4> QED BY <3>2, <4>1, <4>2, Zenon
      <3>4. Table' /\ Nodes'
        BY <1>2, <1>3, <1>22, <3>1, <3>2, <3>3, TableNext, Zenon
      <3> QED BY <3>3, <3>4, Zenon
    <2> QED BY <2>2, <2>3, Zenon
  <1>24. TypeOK'
    BY <1>2, <1>3, <1>22, <1>23, Zenon DEF TypeOK, objVars, MayConsume, NodeSeq, NodeType
  <1> QED BY <1>22, <1>23, <1>24, Zenon DEF IInv

----------------------------------------------------------------------------
LEMMA StepInv ==
  ASSUME IInv, [Next]_vars
  PROVE  IInv'
  <1>0. held # None <=> pc \in {"complete", "reclaim"}
    BY Zenon DEF IInv, Packets
  <1>1. CASE UNCHANGED vars
    BY <1>0, <1>1, QuietSafe DEF vars, objVars, portVars, waitVars
  <1>2. CASE Signal \/ Unsignal \/ PeerClose \/ Reconnect \/ Timeout \/ BeginClose \/ Abandon
    BY <1>2, QuietSteps
  <1>3. ASSUME NEW i \in Regs, Pool(i) PROVE IInv'
    BY <1>3, FireSafe, CallbackOwnSafe, CallbackPostSafe, Zenon DEF Pool
  <1>4. CASE Control
    <2>1. ASSUME NEW m \in Masks, NEW md \in Modes, Add(m, md) PROVE IInv'
      BY <2>1, AddSafe
    <2>2. ASSUME NEW m \in Masks, NEW md \in Modes, Mod(m, md) PROVE IInv'
      BY <2>2, ModSafe
    <2>3. CASE \E m \in Masks : ModNoMemory(m)
      BY <2>3, QuietSteps
    <2>4. CASE Rearm \/ Del
      BY <2>4, RearmSafe, DelSafe, Zenon
    <2> QED BY <1>4, <2>1, <2>2, <2>3, <2>4, Zenon DEF Control
  <1>5. CASE WaitEnter
    BY <1>0, <1>5, HoldoffsSafe DEF WaitEnter, portVars
  <1>6. CASE Wait
    <2>1. CASE LoopTop \/ ArmFailed \/ ClosedWait \/ Check
      BY <2>1, QuietSteps, Zenon
    <2>2. CASE DeferredRetry
      BY <1>0, <2>2, HoldoffsSafe, Zenon DEF DeferredRetry, portVars
    <2>3. CASE Drain \/ ArmPass \/ Dequeue \/ Complete
      BY <2>3, DrainSafe, ArmPassSafe, DequeueSafe, CompleteSafe, Zenon
    <2> QED BY <1>6, <2>1, <2>2, <2>3, Zenon DEF Wait
  <1>7. CASE Destroy \/ FinishDestroy
    BY <1>7, DestroySafe, FinishDestroySafe
  <1> QED BY <1>1, <1>2, <1>3, <1>4, <1>5, <1>6, <1>7, Zenon DEF Next

(* The bookkeeping of a registration agrees with the thread pool, the      *)
(* completion queue, the table and the ready list after any interleaving   *)
(* of epoll_ctl, the waiter, the callbacks and the close of the port.      *)
THEOREM BooksAgree == Spec => []IInv
  <1>1. Init => IInv
    BY InitInv
  <1>2. IInv /\ [Next]_vars => IInv'
    BY StepInv
  <1> QED BY <1>1, <1>2, PTL DEF Spec

(* ep_sock_free_locked never frees storage that a registered wait, a       *)
(* callback or a packet still points to.                                   *)
THEOREM FreedWhenUnreferenced == Spec => []StorageHeld
  <1>1. IInv => StorageHeld
    <2> SUFFICES ASSUME IInv, NEW i \in Regs, ~Live(i)
                 PROVE  /\ hook[i] = "none" /\ held # i
                        /\ \A k \in 1..Len(queue) : queue[k] # i
      BY SMTT(30) DEF StorageHeld
    <2>1. hook[i] = "none" /\ ~Packet(i)
      BY DEF IInv, Registrations, Fine, Live
    <2>2. DOMAIN queue = 1..Len(queue)
      BY SMTT(30) DEF IInv, TypeOK
    <2> QED BY <2>1, <2>2 DEF Packet, InQueue
  <1> QED BY <1>1, BooksAgree, PTL

(* A signal that a registered wait has taken from its handle is in one     *)
(* place: reported, in the ready node, owned, or in an entered callback.   *)
THEOREM SignalInOnePlace == Spec => []NotificationConserved
  <1>1. IInv => NotificationConserved
    BY Zenon DEF IInv, Registrations, Fine, Conserved, Live, NotificationConserved
  <1> QED BY <1>1, BooksAgree, PTL

(* A registration in the table always has somebody to act on it: the rearm *)
(* pass, the ready list, the thread pool or a packet.                      *)
THEOREM AlwaysAttended == Spec => []NoneForgotten
  <1>1. IInv => NoneForgotten
    <2> SUFFICES ASSUME IInv, ~closing, NEW i \in Regs, Live(i), ~reg[i].deleted
                 PROVE  LET r == reg[i] IN
                        IF r.poll = "IDLE"
                        THEN \/ r.rearm \/ r.ready \/ r.oneshot \/ Dormant(r)
                             \/ "ET" \in r.mode /\ (kind = "TERMINAL" \/ (~server /\ r.terminal))
                        ELSE r.rearm \/ r.posted \/ hook[i] # "none"
      BY DEF NoneForgotten
    <2>1. PICK r : r = reg[i]
      BY SMTT(30)
    <2>2. Stored(r, hook[i], Packet(i)) /\ Remembered(r, hook[i])
      BY <2>1, Zenon DEF IInv, Registrations, Fine, Live
    <2>3. r.poll \in {"IDLE", "PENDING", "CANCELLED"}
      BY <2>2 DEF Stored
    <2> QED BY <2>1, <2>2, <2>3, Zenon DEF Remembered
  <1> QED BY <1>1, BooksAgree, PTL
=============================================================================
