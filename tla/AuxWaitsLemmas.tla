--------------------------- MODULE AuxWaitsLemmas ---------------------------
(***************************************************************************)
(* The inductive invariant of AuxWaits, and what the operators on one      *)
(* registration (arming, cancelling, completing, delivering it) keep of    *)
(* it, for every outcome of the calls they make.                           *)
(***************************************************************************)
EXTENDS AuxWaits, Integers, TLAPS

(* The storage of a registration is a record of these fields. *)
Fields == {"state", "interest", "mode", "gen", "poll", "rearm", "oneshot", "ready", "holdoff",
           "observed", "terminal", "owned", "posted", "wait", "deleted", "balance"}
Shaped(r) == r = [f \in Fields |-> r[f]]

TypeOK ==
    /\ reg = [i \in Regs |-> reg[i]]
    /\ hook \in [Regs -> {"none", "armed", "entered", "posting"}]
    /\ table \in Regs \cup {None} /\ held \in Regs \cup {None}
    /\ queue \in Seq(Regs) /\ ready \in Seq([gen : Nat, events : SUBSET {"IN", "HUP"}])
    /\ nextGen \in Nat /\ consumes \in BOOLEAN /\ (consumes => MayConsume)

(* A packet of the registration is queued or in the hands of the waiter. *)
InQueue(i) == \E k \in DOMAIN queue : queue[k] = i
Packet(i) == held = i \/ InQueue(i)
Packets ==
    /\ \A k, l \in DOMAIN queue : queue[k] = queue[l] => k = l
    /\ \A k \in DOMAIN queue : queue[k] # held
    /\ held # None <=> pc \in {"complete", "reclaim"}

(* A registration without a request has nothing in the pool and no packet, *)
(* and a request has one of the two at most.                               *)
Stored(r, h, p) ==
    /\ Shaped(r) /\ r.gen \in Nat /\ r.poll \in {"IDLE", "PENDING", "CANCELLED"}
    /\ r.interest \in Masks
    /\ r.posted <=> p
    /\ h # "none" => r.poll = "PENDING" /\ ~p
    /\ r.poll = "IDLE" => ~p
    /\ r.ready => r.poll = "IDLE"

(* A consumed signal is in one place. *)
Conserved(r, h) ==
    /\ r.balance = One(r.owned) + One(r.ready) + One(h = "entered")
    /\ r.ready => ~r.owned
    /\ h \in {"armed", "entered"} => ~r.owned
    /\ h = "posting" \/ (r.posted /\ r.poll = "PENDING") => r.owned

(* Somebody is going to act on it. *)
Remembered(r, h) ==
    /\ r.poll = "IDLE" => \/ r.rearm \/ r.ready \/ r.oneshot \/ Dormant(r)
                          \/ "ET" \in r.mode /\ (kind = "TERMINAL" \/ (~server /\ r.terminal))
    /\ r.poll = "PENDING" => r.rearm \/ r.posted \/ h # "none"
    /\ r.poll = "CANCELLED" => r.posted /\ ~r.wait /\ (r.rearm \/ Dormant(r))

(* A storage block x with wait or callback h, packet p, in a port that is  *)
(* closing or not                                                          *)
Fine(x, h, p, cl) ==
    IF x = Free THEN h = "none" /\ ~p
    ELSE /\ Stored(x, h, p)
         /\ ~cl /\ ~x.deleted => (consumes => Conserved(x, h)) /\ Remembered(x, h)
Registrations == \A i \in Regs : Fine(reg[i], hook[i], Packet(i), closing)

(* The registration in the table is the one that is not detached. *)
Attached(i) == Live(i) /\ ~reg[i].deleted
Table ==
    /\ table # None => Attached(table)
    /\ \A i \in Regs : Attached(i) => table = i

(* Its ready node, and no other, has its generation. *)
Nodes ==
    /\ \A k \in DOMAIN ready : ready[k].gen <= nextGen
    /\ \A k, l \in DOMAIN ready : ready[k].gen = ready[l].gen => k = l
    /\ \A i \in Regs : Attached(i) =>
        /\ reg[i].gen <= nextGen
        /\ reg[i].ready <=> \E k \in DOMAIN ready : ready[k].gen = reg[i].gen

IInv == TypeOK /\ Packets /\ Registrations /\ Table /\ Nodes

(* The signal is in the node. *)
LEMMA ConservedInNode ==
  ASSUME NEW y, y.balance = 1, ~y.owned, y.ready, ~y.posted
  PROVE  Conserved(y, "none")
  BY DEF Conserved, One

----------------------------------------------------------------------------
(* Outcomes of operations on one registration *)

OutcomeFields == {"r", "hook", "post", "took", "res", "used"}
Made(o) == o = [f \in OutcomeFields |-> o[f]]
Gives(o, x, h, b, res) == Made(o) /\ o.r = x /\ o.hook = h /\ (o.post <=> b) /\ o.res = res

LEMMA OutcomeIs ==
  ASSUME NEW r, NEW res
  PROVE  Gives(Outcome(r, res), r, "keep", FALSE, res) /\ Gives(Fault(r, res), r, "keep", FALSE, res)
  BY Zenon DEF Gives, Made, OutcomeFields, Outcome, Fault

LEMMA AfterIs ==
  ASSUME NEW o, NEW S, NEW q \in After(o, S), Made(o), \A p \in S : Made(p)
  PROVE  \E p \in S : Gives(q, p.r, IF p.hook = "keep" THEN o.hook ELSE p.hook, p.post, p.res)
  <1>1. PICK p \in S : q = [p EXCEPT !.hook = IF @ = "keep" THEN o.hook ELSE @, !.used = @ + o.used]
    BY Zenon DEF After
  <1>2. Made(p)
    OBVIOUS
  <1>3. Gives(q, p.r, IF p.hook = "keep" THEN o.hook ELSE p.hook, p.post, p.res)
    BY <1>1, <1>2, Zenon DEF Gives, Made, OutcomeFields
  <1> QED BY <1>3

LEMMA PostIs ==
  ASSUME NEW r, NEW o \in Post(r)
  PROVE  \/ Gives(o, [r EXCEPT !.posted = TRUE], "keep", TRUE, "ok")
         \/ Gives(o, r, "keep", FALSE, "fatal")
  <1>1. CASE o = Outcome(r, "fatal") \/ o = Fault(r, "fatal")
    BY <1>1, OutcomeIs, Zenon
  <1>2. CASE o = [Outcome([r EXCEPT !.posted = TRUE], "ok") EXCEPT !.post = TRUE]
    <2> DEFINE x == [r EXCEPT !.posted = TRUE]
    <2>1. o = [Outcome(x, "ok") EXCEPT !.post = TRUE]
      BY <1>2
    <2> HIDE DEF x
    <2>2. Gives(o, x, "keep", TRUE, "ok")
      BY <2>1, Zenon DEF Gives, Made, OutcomeFields, Outcome
    <2> QED BY <2>2, Zenon DEF x
  <1> QED BY <1>1, <1>2, Zenon DEF Post

LEMMA PendingIs ==
  ASSUME NEW o, NEW x, NEW h, NEW b, NEW res, Gives(o, x, h, b, res), Shaped(x)
  PROVE  IF res \in {"fail", "fatal"} THEN Gives(Pending(o), x, h, b, res)
         ELSE Gives(Pending(o), [x EXCEPT !.poll = "PENDING", !.rearm = FALSE], h, b, res)
  <1>1. CASE res \in {"fail", "fatal"}
    BY <1>1 DEF Pending, Failed, Gives
  <1>2. CASE res \notin {"fail", "fatal"}
    <2>1. Pending(o) = [o EXCEPT !.r = [x EXCEPT !.poll = "PENDING", !.rearm = FALSE]]
      BY <1>2, Zenon DEF Pending, Failed, Gives, Made, OutcomeFields
    <2> DEFINE y == [x EXCEPT !.poll = "PENDING", !.rearm = FALSE]
    <2> HIDE DEF y
    <2>2. Gives(Pending(o), y, h, b, res)
      BY <2>1 DEF Gives, Made, OutcomeFields, y
    <2> QED BY <1>2, <2>2 DEF y
  <1> QED BY <1>1, <1>2

(* What arming a registration without a request comes to.  Whatever it is, *)
(* some fields stay as they are.                                           *)
Same(r, x) ==
    /\ Shaped(x) /\ x.interest = r.interest /\ x.mode = r.mode /\ x.gen = r.gen
    /\ x.oneshot = r.oneshot /\ x.ready = r.ready /\ x.deleted = r.deleted
Quiet(r, o) ==
    /\ o.res = "ok" /\ o.hook = "keep" /\ ~o.post
    /\ o.r.poll = r.poll /\ o.r.posted = r.posted /\ o.r.owned = r.owned
    /\ o.r.balance = r.balance /\ o.r.terminal = r.terminal
    /\ o.r.rearm = r.rearm \/ Dormant(r)
PostedNow(r, o) ==
    /\ o.res = "ok" /\ o.hook = "keep" /\ o.post /\ ~r.ready /\ ~r.deleted
    /\ o.r.poll = "PENDING" /\ o.r.posted
    /\ consumes => o.r.owned /\ o.r.balance = r.balance + One(~r.owned)
WaitsNow(r, o) ==
    /\ o.res = "ok" /\ o.hook = "armed" /\ ~o.post /\ ~r.ready /\ ~r.deleted
    /\ o.r.poll = "PENDING" /\ o.r.posted = r.posted
    /\ consumes => ~r.owned /\ o.r.owned = r.owned /\ o.r.balance = r.balance
Refused(r, o) ==
    /\ o.res = "fail" /\ o.hook = "keep" /\ ~o.post /\ o.r.rearm
    /\ o.r.poll = r.poll /\ o.r.posted = r.posted /\ o.r.owned = r.owned
    /\ o.r.balance = r.balance
Broken(r, o) ==
    /\ o.res = "fatal" /\ o.hook = "keep" /\ ~o.post
    /\ o.r.poll = r.poll /\ o.r.posted = r.posted
Arming(r, o) ==
    /\ Made(o) /\ Same(r, o.r)
    /\ Quiet(r, o) \/ PostedNow(r, o) \/ WaitsNow(r, o) \/ Refused(r, o) \/ Broken(r, o)

LEMMA QuietOutcome ==
  ASSUME NEW r, Shaped(r)
  PROVE  Arming(r, Outcome(r, "ok"))
  BY OutcomeIs DEF Arming, Gives, Same, Quiet

(* A wait or timer is registered for y, which is r but for the edge latch. *)
Latch(r, y) ==
    /\ Same(r, y) /\ y.poll = r.poll /\ y.rearm = r.rearm /\ y.posted = r.posted
    /\ y.owned = r.owned /\ y.balance = r.balance

LEMMA HookedIs ==
  ASSUME NEW r, NEW y, Shaped(r), Latch(r, y), ~r.ready, ~r.deleted, consumes => ~r.owned
  PROVE  Arming(r, Hooked(y))
  <1> DEFINE w == [y EXCEPT !.wait = TRUE]
             x == [w EXCEPT !.poll = "PENDING", !.rearm = FALSE]
             o == [Outcome(w, "ok") EXCEPT !.hook = "armed"]
  <1>1. Shaped(y)
    BY DEF Latch, Same
  <1>2. Shaped(w)
    BY <1>1, Zenon DEF Shaped, Fields
  <1>3. Same(r, x)
    BY <1>1, Zenon DEF Latch, Same, Shaped, Fields
  <1>4. /\ x.poll = "PENDING" /\ x.posted = r.posted /\ x.owned = r.owned
        /\ x.balance = r.balance
    BY <1>1 DEF Latch, Shaped, Fields
  <1>5. Gives(o, w, "armed", FALSE, "ok")
    <2> HIDE DEF w
    <2> QED BY Zenon DEF Gives, Made, OutcomeFields, Outcome
  <1> HIDE DEF w, o
  <1>6. Gives(Pending(o), x, "armed", FALSE, "ok")
    BY <1>2, <1>5, PendingIs, Zenon
  <1>7. Hooked(y) = Pending(o)
    BY DEF Hooked, o, w
  <1> HIDE DEF x
  <1> QED BY <1>3, <1>4, <1>6, <1>7 DEF Arming, WaitsNow, Gives

LEMMA PostedIs ==
  ASSUME NEW r, NEW y, Shaped(r), Same(r, y), y.poll = r.poll, y.posted = r.posted,
         ~r.ready, ~r.deleted,
         consumes => y.owned /\ y.balance = r.balance + One(~r.owned), NEW o \in Post(y)
  PROVE  Arming(r, Pending(o)) /\ Made(Pending(o))
  <1> DEFINE w == [y EXCEPT !.posted = TRUE]
             x == [w EXCEPT !.poll = "PENDING", !.rearm = FALSE]
  <1>1. Shaped(y)
    BY DEF Same
  <1>2. Shaped(w)
    BY <1>1, Zenon DEF Shaped, Fields
  <1>3. Same(r, x)
    BY <1>1, Zenon DEF Same, Shaped, Fields
  <1>4. x.poll = "PENDING" /\ x.posted /\ x.owned = y.owned /\ x.balance = y.balance
    BY <1>1 DEF Shaped, Fields
  <1>5. CASE Gives(o, w, "keep", TRUE, "ok")
    <2>1. Gives(Pending(o), x, "keep", TRUE, "ok")
      BY <1>2, <1>5, PendingIs, Zenon
    <2> HIDE DEF x, w
    <2> QED BY <1>3, <1>4, <2>1 DEF Arming, PostedNow, Gives
  <1>6. CASE Gives(o, y, "keep", FALSE, "fatal")
    <2>1. Gives(Pending(o), y, "keep", FALSE, "fatal")
      BY <1>1, <1>6, PendingIs, Zenon
    <2> QED BY <2>1 DEF Arming, Broken, Gives
  <1> QED BY <1>5, <1>6, PostIs, Zenon

LEMMA RefusedIs ==
  ASSUME NEW r, NEW y, Latch(r, y), r.rearm
  PROVE  Arming(r, Fault(y, "fail"))
  <1> DEFINE o == Fault(y, "fail")
  <1>1. Gives(o, y, "keep", FALSE, "fail")
    BY OutcomeIs, Zenon
  <1> HIDE DEF o
  <1>2. Made(o) /\ o.r = y /\ o.hook = "keep" /\ ~o.post /\ o.res = "fail"
    BY <1>1 DEF Gives
  <1>3. Refused(r, o) /\ Same(r, o.r)
    BY <1>2, Zenon DEF Latch, Refused
  <1> QED BY <1>2, <1>3 DEF Arming, o

LEMMA ArmWaitableIs ==
  ASSUME TypeOK, NEW r, Shaped(r), r.rearm, ~r.ready, ~r.deleted,
         consumes => r.balance \in Int, NEW o \in ArmWaitable(r)
  PROVE  Arming(r, o)
  <1> DEFINE y == [r EXCEPT !.observed = IF "ET" \in r.mode THEN {} ELSE @]
             z == [r EXCEPT !.owned = MayConsume, !.balance = @ + One(consumes)]
  <1>1. Latch(r, y)
    BY DEF Latch, Same, Shaped, Fields
  <1>2. CASE r.owned
    <2>1. PICK p \in Post(r) : o = Pending(p)
      BY <1>2 DEF ArmWaitable
    <2>2. consumes => r.owned /\ r.balance = r.balance + One(~r.owned)
      BY <1>2 DEF One
    <2> QED BY <2>1, <2>2, PostedIs DEF Same
  <1>3. CASE ~r.owned /\ count > 0
    <2>1. PICK p \in Post(z) : o = [Pending(p) EXCEPT !.took = One(consumes)]
      BY <1>3 DEF ArmWaitable, Probed
    <2>2. Same(r, z) /\ z.poll = r.poll /\ z.posted = r.posted
      BY Zenon DEF Same, Shaped, Fields
    <2>3. consumes => z.owned /\ z.balance = r.balance + One(~r.owned)
      <3>1. z.balance = r.balance + One(consumes) /\ z.owned = MayConsume
        BY DEF Shaped, Fields
      <3> QED BY <1>3, <3>1 DEF TypeOK, One
    <2> HIDE DEF z
    <2>4. Arming(r, Pending(p)) /\ Made(Pending(p))
      BY <2>2, <2>3, PostedIs
    <2>5. /\ Made(o) /\ o.r = Pending(p).r /\ o.res = Pending(p).res
          /\ o.hook = Pending(p).hook /\ o.post = Pending(p).post
      BY <2>1, <2>4 DEF Made, OutcomeFields
    <2> QED BY <2>4, <2>5, Zenon DEF Arming, Quiet, PostedNow, WaitsNow, Refused, Broken
  <1>4. CASE ~r.owned /\ ~(count > 0)
    <2>1. o = Hooked(y) \/ o = Fault(y, "fail")
      BY <1>4 DEF ArmWaitable
    <2> HIDE DEF y
    <2> QED BY <1>1, <1>4, <2>1, HookedIs, RefusedIs
  <1> QED BY <1>2, <1>3, <1>4

LEMMA ArmPipeIs ==
  ASSUME TypeOK, kind = "PIPE", NEW r, Shaped(r), r.rearm, ~r.ready, ~r.deleted,
         NEW o \in ArmPipe(r)
  PROVE  Arming(r, o)
  <1> DEFINE y == IF "ET" \in r.mode THEN [r EXCEPT !.observed = {}, !.terminal = FALSE] ELSE r
             Timer(q) == {Hooked(q)} \cup {Fault(q, "fail") : x \in CanFail({"register"})}
  <1>1. Latch(r, y) /\ Latch(r, r)
    BY Zenon DEF Latch, Same, Shaped, Fields
  <1>2. ~consumes
    BY DEF TypeOK, MayConsume
  <1>3. ASSUME NEW q, Latch(r, q), NEW t \in Timer(q) PROVE Arming(r, t)
    BY <1>2, <1>3, HookedIs, RefusedIs
  <1>4. CASE \E p \in Post(r) : o = Pending(p)
    BY <1>2, <1>4, PostedIs DEF Same
  <1>5. CASE o \in Timer(y)
    <2> HIDE DEF y, Timer
    <2> QED BY <1>1, <1>3, <1>5
  <1>6. CASE o \in After(Fault(r, "ok"), Timer(r))
    <2> HIDE DEF Timer
    <2>1. /\ \A t \in Timer(r) : Arming(r, t) /\ Made(t)
          /\ Gives(Fault(r, "ok"), r, "keep", FALSE, "ok")
      BY <1>1, <1>3, OutcomeIs, Zenon DEF Arming
    <2>2. PICK t \in Timer(r) : Gives(o, t.r, IF t.hook = "keep" THEN "keep" ELSE t.hook,
                                      t.post, t.res)
      BY <1>6, <2>1, AfterIs DEF Gives
    <2>3. /\ Made(o) /\ o.r = t.r /\ o.hook = t.hook /\ (o.post <=> t.post) /\ o.res = t.res
      BY <2>2 DEF Gives
    <2> QED BY <2>1, <2>3, Zenon DEF Arming, Quiet, PostedNow, WaitsNow, Refused, Broken
  <1>7. o \in (IF Level(r) # {} THEN {Pending(p) : p \in Post(r)} ELSE Timer(y))
                 \cup UNION {After(Fault(r, "ok"), Timer(r)) : x \in CanFail({"sample"})}
    BY Zenon DEF ArmPipe
  <1> HIDE DEF y, Timer
  <1> QED BY <1>4, <1>5, <1>6, <1>7

LEMMA ArmIs ==
  ASSUME TypeOK, NEW r, Shaped(r), ~r.ready, ~r.deleted,
         consumes => r.balance \in Int, NEW o \in Arm(r)
  PROVE  Arming(r, o)
  <1>1. CASE o = Outcome(r, "ok")
    BY <1>1, QuietOutcome
  <1>2. CASE r.rearm /\ kind = "PIPE" /\ o \in ArmPipe(r)
    BY <1>2, ArmPipeIs
  <1>3. CASE r.rearm /\ kind # "PIPE" /\ o \in ArmWaitable(r)
    BY <1>3, ArmWaitableIs
  <1> QED BY <1>1, <1>2, <1>3 DEF Arm

(* ep_sock_submit_locked of a registration without a request *)
LEMMA SubmitIs ==
  ASSUME TypeOK, NEW i, NEW r, Shaped(r), r.poll = "IDLE",
         consumes /\ ~closing /\ ~r.deleted => r.balance \in Int, NEW o \in Submit(i, r)
  PROVE  Arming(r, o)
  <1>1. CASE o = Outcome(r, "ok")
    BY <1>1, QuietOutcome
  <1>2. CASE /\ Dormant(r)
             /\ \E c \in Cancel(i, r) : o = IF Failed(c) THEN c
                                 ELSE [c EXCEPT !.r.rearm = FALSE, !.r.holdoff = FALSE]
    <2> DEFINE x == [r EXCEPT !.rearm = FALSE, !.holdoff = FALSE]
               c == Outcome(r, "ok")
    <2>1. o = [c EXCEPT !.r.rearm = FALSE, !.r.holdoff = FALSE]
      <3>1. c.res = "ok" /\ Cancel(i, r) = {c}
        BY DEF Cancel, Outcome
      <3> QED BY <1>2, <3>1 DEF Failed
    <2>2. Gives(c, r, "keep", FALSE, "ok")
      BY OutcomeIs, Zenon
    <2>3. o = [c EXCEPT !.r = x]
      BY <2>1, Zenon DEF Outcome
    <2>4. Same(r, x) /\ x.poll = r.poll /\ x.posted = r.posted /\ x.owned = r.owned
          /\ x.balance = r.balance /\ x.terminal = r.terminal
      BY Zenon DEF Same, Shaped, Fields
    <2> HIDE DEF x, c
    <2>5. Gives(o, x, "keep", FALSE, "ok")
      BY <2>2, <2>3 DEF Gives, Made, OutcomeFields
    <2> QED BY <1>2, <2>4, <2>5, Zenon DEF Arming, Gives, Quiet
  <1>3. CASE ~closing /\ ~r.deleted /\ ~r.ready /\ o \in Arm(r)
    BY <1>3, ArmIs
  <1> QED BY <1>1, <1>2, <1>3, Zenon DEF Submit

----------------------------------------------------------------------------
(* The hook of a block with hook h after outcome o *)
Hook(o, h) == IF o.hook = "keep" THEN h ELSE o.hook

LEMMA ShapedLive ==
  ASSUME NEW x, Shaped(x)
  PROVE  x # Free
  <1>1. "gen" \in DOMAIN x
    BY DEF Shaped, Fields
  <1>2. "gen" \notin DOMAIN Free
    BY DEF Free
  <1> QED BY <1>1, <1>2

LEMMA ArmingFine ==
  ASSUME NEW r, NEW o, Shaped(r), Fine(r, "none", FALSE, closing), r.poll = "IDLE", Arming(r, o)
  PROVE  Fine(o.r, Hook(o, "none"), o.post, closing \/ o.res = "fatal")
  <1> DEFINE x == o.r
             h == Hook(o, "none")
  <1>0. Shaped(x) /\ x # Free /\ r # Free
    BY ShapedLive DEF Arming, Same
  <1>1. /\ x.interest = r.interest /\ x.mode = r.mode /\ x.gen = r.gen
        /\ x.oneshot = r.oneshot /\ x.ready = r.ready /\ x.deleted = r.deleted
        /\ Dormant(x) <=> Dormant(r)
    BY DEF Arming, Same, Dormant
  <1>2. /\ r.gen \in Nat /\ ~r.posted /\ r.interest \in Masks
        /\ ~closing /\ ~r.deleted => (consumes => Conserved(r, "none")) /\ Remembered(r, "none")
    BY <1>0 DEF Fine, Stored
  <1>3. CASE Quiet(r, o)
    <2>1. /\ o.res = "ok" /\ h = "none" /\ ~o.post /\ x.poll = "IDLE" /\ ~x.posted
          /\ x.owned = r.owned /\ x.balance = r.balance /\ x.terminal = r.terminal
          /\ x.rearm = r.rearm \/ Dormant(r)
      BY <1>2, <1>3 DEF Quiet, Hook
    <2> HIDE DEF x, h
    <2>2. Stored(x, h, o.post)
      BY <1>0, <1>1, <1>2, <2>1 DEF Stored
    <2>3. Conserved(r, "none") => Conserved(x, h)
      BY <1>1, <2>1 DEF Conserved, One
    <2>4. Remembered(r, "none") => Remembered(x, h)
      BY <1>1, <2>1 DEF Remembered
    <2> QED BY <1>0, <1>1, <1>2, <2>1, <2>2, <2>3, <2>4 DEF Fine, x, h
  <1>4. CASE PostedNow(r, o)
    <2>1. /\ o.res = "ok" /\ h = "none" /\ o.post /\ x.poll = "PENDING" /\ x.posted
          /\ ~r.ready
          /\ consumes => x.owned /\ x.balance = r.balance + One(~r.owned)
      BY <1>4 DEF PostedNow, Hook
    <2> HIDE DEF x, h
    <2>2. Stored(x, h, o.post)
      BY <1>0, <1>1, <1>2, <2>1 DEF Stored
    <2>3. consumes /\ Conserved(r, "none") => Conserved(x, h)
      BY <1>1, <2>1 DEF Conserved, One
    <2>4. Remembered(x, h)
      BY <2>1 DEF Remembered
    <2> QED BY <1>0, <1>1, <1>2, <2>1, <2>2, <2>3, <2>4, Zenon DEF Fine, x, h
  <1>5. CASE WaitsNow(r, o)
    <2>1. /\ o.res = "ok" /\ h = "armed" /\ ~o.post /\ x.poll = "PENDING" /\ ~x.posted
          /\ ~r.ready
          /\ consumes => ~r.owned /\ x.owned = r.owned /\ x.balance = r.balance
      BY <1>2, <1>5 DEF WaitsNow, Hook
    <2> HIDE DEF x, h
    <2>2. Stored(x, h, o.post)
      BY <1>0, <1>1, <1>2, <2>1 DEF Stored
    <2>3. consumes /\ Conserved(r, "none") => Conserved(x, h)
      BY <1>1, <2>1 DEF Conserved, One
    <2>4. Remembered(x, h)
      BY <2>1 DEF Remembered
    <2> QED BY <1>0, <1>1, <1>2, <2>1, <2>2, <2>3, <2>4 DEF Fine, x, h
  <1>6. CASE Refused(r, o)
    <2>1. /\ o.res = "fail" /\ h = "none" /\ ~o.post /\ x.poll = "IDLE" /\ ~x.posted
          /\ x.owned = r.owned /\ x.balance = r.balance /\ x.rearm
      BY <1>2, <1>6 DEF Refused, Hook
    <2> HIDE DEF x, h
    <2>2. Stored(x, h, o.post)
      BY <1>0, <1>1, <1>2, <2>1 DEF Stored
    <2>3. Conserved(r, "none") => Conserved(x, h)
      BY <1>1, <2>1 DEF Conserved, One
    <2>4. Remembered(x, h)
      BY <2>1 DEF Remembered
    <2> QED BY <1>0, <1>1, <1>2, <2>1, <2>2, <2>3, <2>4 DEF Fine, x, h
  <1>7. CASE Broken(r, o)
    <2>1. o.res = "fatal" /\ h = "none" /\ ~o.post /\ x.poll = "IDLE" /\ ~x.posted
      BY <1>2, <1>7 DEF Broken, Hook
    <2> HIDE DEF x, h
    <2>2. Stored(x, h, o.post)
      BY <1>0, <1>1, <1>2, <2>1 DEF Stored
    <2> QED BY <1>0, <2>1, <2>2 DEF Fine, x, h
  <1> QED BY <1>3, <1>4, <1>5, <1>6, <1>7 DEF Arming

(* The registration whose node is delivered *)
LEMMA DeliveredFine ==
  ASSUME TypeOK, NEW r, Stored(r, "none", FALSE), r.ready,
         ~closing /\ ~r.deleted /\ consumes => Conserved(r, "none"),
         NEW n, NEW level, NEW valid
  PROVE  /\ Shaped(Delivered(r, n, level, valid))
         /\ Delivered(r, n, level, valid).gen = r.gen
         /\ Delivered(r, n, level, valid).deleted = r.deleted
         /\ ~Delivered(r, n, level, valid).ready
         /\ Fine(Delivered(r, n, level, valid), "none", FALSE, closing)
  <1> DEFINE et == "ET" \in r.mode
             pipeEt == kind = "PIPE" /\ et
             idle == r.oneshot \/ (kind = "TERMINAL" /\ et)
                     \/ (pipeEt /\ valid /\ level = n.events /\ IsFinal(n.events))
             reopened == (et /\ kind = "CONSUMPTIVE") \/ (pipeEt /\ valid /\ level = {})
             b == r.balance - One(consumes)
             t == IF pipeEt THEN FinalShape(n.events) ELSE r.terminal
             ob == IF reopened THEN {} ELSE r.observed
             hd == r.holdoff /\ idle
             a == r.rearm \/ ~idle
             y == [r EXCEPT !.ready = FALSE, !.balance = b, !.terminal = t, !.observed = ob,
                            !.holdoff = hd, !.rearm = a]
  <1>1. Delivered(r, n, level, valid) = y
    BY DEF Delivered
  <1>2. a \/ r.oneshot \/ (et /\ kind = "TERMINAL") \/ (et /\ ~server /\ t)
    BY DEF IsFinal
  <1>3. consumes => b = r.balance - 1
    BY DEF One
  <1>0. Shaped(r) /\ r.poll = "IDLE" /\ r.gen \in Nat /\ ~r.posted /\ r.interest \in Masks
    BY DEF Stored
  <1> HIDE DEF b, t, ob, hd, a
  <1>4. /\ Shaped(y) /\ y.gen = r.gen /\ y.ready = FALSE /\ y.deleted = r.deleted
        /\ y.poll = r.poll /\ y.posted = r.posted /\ y.owned = r.owned
        /\ y.balance = b /\ y.rearm = a /\ y.oneshot = r.oneshot
        /\ y.interest = r.interest /\ y.mode = r.mode /\ y.terminal = t
    BY <1>0, Zenon DEF Shaped, Fields
  <1> HIDE DEF y
  <1>5. Stored(y, "none", FALSE)
    BY <1>0, <1>4 DEF Stored
  <1>6. consumes /\ Conserved(r, "none") => Conserved(y, "none")
    <2>1. ASSUME consumes, Conserved(r, "none") PROVE r.balance = 1 /\ ~r.owned
      BY <2>1 DEF Conserved, One
    <2>2. consumes /\ Conserved(r, "none") => y.balance = 0 /\ ~y.owned /\ ~y.posted /\ ~y.ready
      BY <1>0, <1>3, <1>4, <2>1
    <2> QED BY <2>2 DEF Conserved, One
  <1>7. Remembered(y, "none")
    BY <1>0, <1>2, <1>4 DEF Remembered
  <1>8. y # Free
    BY <1>4, ShapedLive
  <1>9. Fine(y, "none", FALSE, closing)
    BY <1>4, <1>5, <1>6, <1>7, <1>8, Zenon DEF Fine
  <1> QED BY <1>1, <1>4, <1>9, Zenon

(* The nodes of the queue are of different generations, none of them new. *)
Distinct(s, g) ==
    /\ \A k \in DOMAIN s : s[k].gen <= g
    /\ \A k, l \in DOMAIN s : s[k].gen = s[l].gen => k = l
HasNode(s, g) == \E k \in DOMAIN s : s[k].gen = g

----------------------------------------------------------------------------
(* ep_waitable_unregister_locked, ep_pipe_delete_timer_locked and          *)
(* ep_sock_cancel_locked                                                   *)

(* x is r after its wait was disarmed *)
Retired(r, x) ==
    /\ Same(r, x) /\ x.posted = r.posted /\ x.owned = r.owned /\ x.balance = r.balance
    /\ x.rearm = r.rearm /\ x.terminal = r.terminal

LEMMA DisarmIs ==
  ASSUME NEW i, NEW r, Shaped(r), NEW o \in Disarm(i, r)
  PROVE  /\ Made(o) /\ ~o.post /\ o.res \in {"ok", "fail"}
         /\ o.res = "ok" => /\ hook[i] \in {"armed", "none"} /\ Hook(o, hook[i]) = "none"
                            /\ o.hook \in {"keep", "none"} /\ Retired(r, o.r)
                            /\ o.r.poll = r.poll /\ ~o.r.wait
         /\ o.res = "fail" => o.hook = "keep" /\ o.r = r
  <1> DEFINE x == [r EXCEPT !.wait = FALSE]
             h == IF hook[i] = "armed" THEN "none" ELSE "keep"
  <1>1. CASE o = Unhooked(i, r) /\ hook[i] \in {"armed", "none"}
    <2>1. o = [Outcome(x, "ok") EXCEPT !.hook = h]
      BY <1>1 DEF Unhooked
    <2>2. h = (IF hook[i] = "armed" THEN "none" ELSE "keep")
      OBVIOUS
    <2>3. Retired(r, x) /\ x.poll = r.poll /\ ~x.wait
      BY Zenon DEF Retired, Same, Shaped, Fields
    <2> HIDE DEF x, h
    <2>4. Made(o) /\ ~o.post /\ o.res = "ok" /\ o.hook = h /\ o.r = x
      BY <2>1, Zenon DEF Made, OutcomeFields, Outcome
    <2> QED BY <1>1, <2>2, <2>3, <2>4 DEF Hook
  <1>2. CASE o = Fault(r, "fail")
    BY <1>2, OutcomeIs DEF Gives
  <1> QED BY <1>1, <1>2 DEF Disarm

LEMMA CancelIs ==
  ASSUME NEW i, NEW r, Shaped(r), NEW o \in Cancel(i, r)
  PROVE  /\ Made(o) /\ ~o.post
         /\ \/ r.poll # "PENDING" /\ o.res = "ok" /\ o.hook = "keep" /\ o.r = r
            \/ /\ r.poll = "PENDING" /\ o.res = "ok" /\ hook[i] \in {"armed", "none"}
               /\ Hook(o, hook[i]) = "none" /\ o.hook \in {"keep", "none"} /\ Retired(r, o.r)
               /\ ~o.r.wait /\ o.r.poll = (IF r.posted THEN "CANCELLED" ELSE "IDLE")
            \/ r.poll = "PENDING" /\ o.res = "fail" /\ o.hook = "keep" /\ o.r = r
  <1>1. CASE r.poll # "PENDING" /\ o = Outcome(r, "ok")
    BY <1>1, OutcomeIs DEF Gives
  <1>2. ASSUME r.poll = "PENDING", NEW d \in Disarm(i, r),
               o = IF Failed(d) THEN d
                   ELSE [d EXCEPT !.r.poll = IF r.posted THEN "CANCELLED" ELSE "IDLE"]
        PROVE  /\ Made(o) /\ ~o.post
               /\ \/ /\ o.res = "ok" /\ hook[i] \in {"armed", "none"}
                     /\ Hook(o, hook[i]) = "none" /\ o.hook \in {"keep", "none"} /\ Retired(r, o.r)
                     /\ ~o.r.wait /\ o.r.poll = (IF r.posted THEN "CANCELLED" ELSE "IDLE")
                  \/ o.res = "fail" /\ o.hook = "keep" /\ o.r = r
    <2>0. /\ Made(d) /\ ~d.post /\ d.res \in {"ok", "fail"}
          /\ d.res = "fail" => d.hook = "keep" /\ d.r = r
      BY DisarmIs
    <2>1. CASE d.res = "fail"
      <3>1. o = d
        BY <1>2, <2>1 DEF Failed
      <3> QED BY <2>0, <2>1, <3>1
    <2>2. CASE d.res = "ok"
      <3> DEFINE b == IF r.posted THEN "CANCELLED" ELSE "IDLE"
                 x == [d.r EXCEPT !.poll = b]
      <3>1. /\ Made(d) /\ ~d.post /\ hook[i] \in {"armed", "none"} /\ Hook(d, hook[i]) = "none"
            /\ d.hook \in {"keep", "none"} /\ Retired(r, d.r) /\ ~d.r.wait
        BY <1>2, <2>2, DisarmIs
      <3>2. o = [d EXCEPT !.r = [@ EXCEPT !.poll = b]]
        BY <1>2, <2>2 DEF Failed
      <3>3. b = (IF r.posted THEN "CANCELLED" ELSE "IDLE")
        OBVIOUS
      <3> HIDE DEF b
      <3>4. Retired(r, x) /\ x.poll = b /\ ~x.wait
        BY <3>1 DEF Retired, Same, Shaped, Fields
      <3>5. o = [d EXCEPT !.r = x]
        BY <3>1, <3>2 DEF Made, OutcomeFields
      <3> HIDE DEF x
      <3>6. Made(o) /\ o.post = d.post /\ o.res = d.res /\ o.hook = d.hook /\ o.r = x
        BY <3>1, <3>5, Zenon DEF Made, OutcomeFields
      <3> QED BY <2>2, <3>1, <3>3, <3>4, <3>6 DEF Hook
    <2> QED BY <2>0, <2>1, <2>2
  <1> QED BY <1>1, <1>2 DEF Cancel

(* A cancelled request leaves nothing in the pool; its signal and its      *)
(* packet stay.                                                            *)
LEMMA CancelKeeps ==
  ASSUME NEW i, NEW r, NEW p, Stored(r, hook[i], p), NEW o \in Cancel(i, r)
  PROVE  /\ Stored(o.r, Hook(o, hook[i]), p)
         /\ Conserved(r, hook[i]) => Conserved(o.r, Hook(o, hook[i]))
  <1>1. Shaped(r) /\ r.gen \in Nat /\ r.poll \in {"IDLE", "PENDING", "CANCELLED"}
    BY DEF Stored
  <1>2. CASE o.hook = "keep" /\ o.r = r
    BY <1>2 DEF Hook
  <1>3. CASE /\ r.poll = "PENDING" /\ hook[i] \in {"armed", "none"}
             /\ Hook(o, hook[i]) = "none" /\ Retired(r, o.r)
             /\ o.r.poll = (IF r.posted THEN "CANCELLED" ELSE "IDLE")
    <2>1. PICK x : x = o.r
      OBVIOUS
    <2>2. Stored(x, "none", p)
      BY <1>1, <1>3, <2>1 DEF Stored, Retired, Same
    <2>3. Conserved(r, hook[i]) => Conserved(x, "none")
      BY <1>3, <2>1 DEF Conserved, Retired, Same, One
    <2> QED BY <1>3, <2>1, <2>2, <2>3
  <1> QED BY <1>1, <1>2, <1>3, CancelIs

----------------------------------------------------------------------------
(* Operations on the registration of the table, or on one that enters it *)

NodeType == [gen : Nat, events : SUBSET {"IN", "HUP"}]
NodeSeq == Seq(NodeType)

(* A node of a generation that has none joins the queue. *)
LEMMA NodeAdded ==
  ASSUME NEW s \in NodeSeq, NEW n \in NodeType, NEW g \in Nat, n.gen <= g,
         Distinct(s, g), ~HasNode(s, n.gen)
  PROVE  /\ Append(s, n) \in NodeSeq /\ s \o <<n>> = Append(s, n)
         /\ Distinct(Append(s, n), g) /\ HasNode(Append(s, n), n.gen)
  <1>1. /\ Append(s, n) \in NodeSeq /\ s \o <<n>> = Append(s, n)
        /\ DOMAIN Append(s, n) = DOMAIN s \cup {Len(s) + 1} /\ Len(s) + 1 \notin DOMAIN s
        /\ Append(s, n)[Len(s) + 1] = n /\ \A l \in DOMAIN s : Append(s, n)[l] = s[l]
    BY DEF NodeSeq
  <1>2. PICK t, k : t = Append(s, n) /\ k = Len(s) + 1
    BY Zenon
  <1>3. Distinct(t, g) /\ HasNode(t, n.gen)
    BY <1>1, <1>2 DEF Distinct, HasNode
  <1> QED BY <1>1, <1>2, <1>3

(* A registration made by a control operation, and armed for a waiter that *)
(* blocks; if that fails the old one is there again.                       *)
LEMMA ForWaiterIs ==
  ASSUME TypeOK, NEW i, NEW old, NEW r, NEW h, NEW p, Fine(r, h, p, closing), Shaped(r),
         NEW o \in SubmitForWaiter(i, old, r)
  PROVE  /\ Made(o)
         /\ \/ o.r = r /\ o.hook = "keep" /\ ~o.post /\ o.res = "ok"
            \/ r.poll = "IDLE" /\ Arming(r, o) /\ ~Failed(o)
            \/ /\ o.r = old /\ o.hook = "keep" /\ ~o.post /\ Failed(o) /\ ~r.ready /\ ~Dormant(r)
  <1>1. CASE o = Outcome(r, "ok")
    BY <1>1, OutcomeIs DEF Gives
  <1>2. ASSUME r.poll = "IDLE", ~Dormant(r), NEW q \in Submit(i, r),
               o = IF Failed(q) THEN [q EXCEPT !.r = old] ELSE q
        PROVE  /\ Made(o)
               /\ \/ o.r = r /\ o.hook = "keep" /\ ~o.post /\ o.res = "ok"
                  \/ r.poll = "IDLE" /\ Arming(r, o) /\ ~Failed(o)
                  \/ /\ o.r = old /\ o.hook = "keep" /\ ~o.post /\ Failed(o)
                     /\ ~r.ready /\ ~Dormant(r)
    <2>1. consumes /\ ~closing /\ ~r.deleted => r.balance \in Int
      <3>1. r # Free
        BY ShapedLive
      <3>2. consumes /\ ~closing /\ ~r.deleted => Conserved(r, h)
        BY <3>1 DEF Fine
      <3> QED BY <3>2 DEF Conserved, One
    <2>2. Arming(r, q)
      BY <1>2, <2>1, SubmitIs
    <2>3. CASE ~Failed(q)
      BY <1>2, <2>2, <2>3 DEF Arming
    <2>4. CASE Failed(q)
      <3>1. Made(q) /\ q.hook = "keep" /\ ~q.post
        BY <2>2, <2>4 DEF Arming, Failed, Quiet, PostedNow, WaitsNow, Refused, Broken
      <3>2. ~r.ready
        <4>1. r.ready => q = Outcome(r, "ok")
          BY DEF Submit
        <4> QED BY <2>4, <4>1, OutcomeIs DEF Failed, Gives
      <3>3. o = [q EXCEPT !.r = old]
        BY <1>2, <2>4
      <3>4. Made(o) /\ o.r = old /\ o.hook = q.hook /\ o.post = q.post /\ o.res = q.res
        BY <3>1, <3>3, Zenon DEF Made, OutcomeFields
      <3> QED BY <1>2, <2>4, <3>1, <3>2, <3>4, Zenon DEF Failed
    <2> QED BY <2>3, <2>4
  <1> QED BY <1>1, <1>2 DEF SubmitForWaiter

Replaced(old, r, h, p, o) ==
    /\ Made(o) /\ o.hook \in {"keep", "none", "armed"} /\ (o.post => ~p)
    /\ Fine(o.r, Hook(o, h), o.post \/ p, closing \/ o.res = "fatal")
    /\ \/ Same(r, o.r) /\ ~Failed(o)
       \/ o.r = old /\ Failed(o) /\ ~r.ready

LEMMA ForWaiterFine ==
  ASSUME TypeOK, NEW i, NEW old, NEW r, NEW h, NEW p \in BOOLEAN, Fine(r, h, p, closing), Shaped(r),
         NEW o \in SubmitForWaiter(i, old, r), ~r.ready /\ ~Dormant(r) => Fine(old, h, p, closing)
  PROVE  Replaced(old, r, h, p, o)
  <1>1. CASE o.r = r /\ o.hook = "keep" /\ ~o.post /\ o.res = "ok" /\ Made(o)
    <2>1. Same(r, r)
      BY Zenon DEF Same
    <2> QED BY <1>1, <2>1 DEF Fine, Stored, Hook, Failed, Replaced
  <1>2. CASE r.poll = "IDLE" /\ Arming(r, o) /\ ~Failed(o)
    <2>1. h = "none" /\ p = FALSE
      BY <1>2, ShapedLive DEF Fine, Stored
    <2>2. Fine(o.r, Hook(o, "none"), o.post, closing \/ o.res = "fatal")
      BY <1>2, <2>1, ArmingFine, Zenon
    <2>3. Made(o) /\ Same(r, o.r) /\ o.hook \in {"keep", "none", "armed"}
      BY <1>2, Zenon DEF Arming, Quiet, PostedNow, WaitsNow, Refused, Broken
    <2> QED BY <1>2, <2>1, <2>2, <2>3 DEF Fine, Stored, Replaced
  <1>3. CASE /\ o.r = old /\ o.hook = "keep" /\ ~o.post /\ Failed(o) /\ ~r.ready /\ ~Dormant(r)
             /\ Made(o)
    <2>1. Fine(old, h, p, closing)
      BY <1>3
    <2>2. Fine(old, h, p, closing \/ o.res = "fatal")
      BY <2>1 DEF Fine
    <2> QED BY <1>3, <2>2 DEF Fine, Stored, Hook, Replaced
  <1> QED BY <1>1, <1>2, <1>3, ForWaiterIs

(* A request that has not ended will end, or is to be retired. *)
Underway(r, h) ==
    /\ r.poll = "PENDING" => r.rearm \/ r.posted \/ h # "none"
    /\ r.poll = "CANCELLED" => r.posted /\ ~r.wait

(* A registration that is remembered has its request under way. *)
LEMMA StillUnderway ==
  ASSUME NEW r, NEW h, Remembered(r, h)
  PROVE  Underway(r, h)
  BY Zenon DEF Remembered, Underway

(* The registration MOD makes of r, whose request is over when the new     *)
(* mask is dormant                                                         *)
Changeable(r, m, h) ==
    ~closing /\ ~r.deleted =>
        /\ consumes => Conserved(r, h)
        /\ m = {} /\ kind # "PIPE" => r.poll # "PENDING"
        /\ Underway(r, h)
Reworked(r, x, m, g, h, p) ==
    /\ Shaped(x) /\ x.gen = g /\ x.deleted = r.deleted /\ x.interest = m
    /\ Fine(x, h, p, closing)

LEMMA ChangedFine ==
  ASSUME consumes => MayConsume, NEW r, NEW h, NEW p, Stored(r, h, p), NEW m \in Masks, NEW md,
         NEW g \in Nat, Changeable(r, m, h), NEW x, x = Changed(r, m, md, g)
  PROVE  Reworked(r, x, m, g, h, p)
  <1> DEFINE keep == Carries(r) /\ m # {}
             dormant == m = {} /\ kind # "PIPE"
             ob == IF keep /\ "ET" \in md THEN m ELSE {}
             one == keep /\ "ONESHOT" \in md
             own == r.owned \/ (Carries(r) /\ m = {})
             a == IF dormant \/ keep THEN FALSE ELSE r.rearm \/ r.poll # "PENDING"
             y == [r EXCEPT !.interest = m, !.mode = md, !.gen = g, !.holdoff = FALSE,
                            !.observed = ob, !.terminal = FALSE, !.oneshot = one,
                            !.ready = keep, !.owned = own, !.rearm = a]
  <1>1. x = y
    BY DEF Changed
  <1>2. /\ keep => r.ready
        /\ ~r.ready => ~keep /\ (own <=> r.owned)
        /\ r.ready /\ consumes /\ m # {} => keep /\ (own <=> r.owned)
        /\ r.ready /\ consumes /\ m = {} => ~keep /\ own
        /\ a <=> ~dormant /\ ~keep /\ (r.rearm \/ r.poll # "PENDING")
    BY DEF Carries
  <1>3. dormant <=> m = {} /\ kind # "PIPE"
    OBVIOUS
  <1>0. /\ Shaped(r) /\ r.poll \in {"IDLE", "PENDING", "CANCELLED"} /\ (r.ready => r.poll = "IDLE")
        /\ r.ready => h = "none"
    BY DEF Stored
  <1> HIDE DEF keep, dormant, ob, one, own, a
  <1>4. /\ Shaped(y) /\ y.gen = g /\ y.ready = keep /\ y.deleted = r.deleted
        /\ y.poll = r.poll /\ y.posted = r.posted /\ y.owned = own
        /\ y.balance = r.balance /\ y.rearm = a /\ y.interest = m /\ y.wait = r.wait
    BY <1>0, Zenon DEF Shaped, Fields
  <1> HIDE DEF y
  <1>5. Stored(y, h, p)
    BY <1>0, <1>2, <1>4 DEF Stored
  <1>6. consumes /\ Conserved(r, h) => Conserved(y, h)
    <2>1. CASE ~r.ready
      BY <1>2, <1>4, <2>1, Zenon DEF Conserved, One
    <2>2. CASE r.ready /\ m # {}
      BY <1>0, <1>2, <1>4, <2>2, Zenon DEF Conserved, One
    <2>3. CASE r.ready /\ m = {}
      BY <1>0, <1>2, <1>4, <2>3 DEF Conserved, One
    <2> QED BY <2>1, <2>2, <2>3
  <1>7. ~closing /\ ~r.deleted => Remembered(y, h)
    <2>1. dormant => Dormant(y)
      BY <1>3, <1>4 DEF Dormant
    <2>2. ~closing /\ ~r.deleted => (m = {} /\ kind # "PIPE" => r.poll # "PENDING") /\ Underway(r, h)
      BY DEF Changeable
    <2> QED BY <1>0, <1>2, <1>3, <1>4, <2>1, <2>2, Zenon DEF Remembered, Underway
  <1>8. y # Free
    BY <1>4, ShapedLive
  <1>9. Fine(y, h, p, closing)
    <2>1. ~closing /\ ~r.deleted /\ consumes => Conserved(r, h)
      BY DEF Changeable
    <2> QED BY <1>4, <1>5, <1>6, <1>7, <1>8, <2>1 DEF Fine
  <1> QED BY <1>1, <1>4, <1>9, Zenon DEF Reworked

(* An outcome that comes after another: the wait the first one disarmed    *)
(* stays disarmed unless the second arms it.                               *)
LEMMA AfterHook ==
  ASSUME NEW c, NEW q, NEW o, NEW h, Gives(o, q.r, IF q.hook = "keep" THEN c.hook ELSE q.hook, q.post, q.res)
  PROVE  /\ Made(o) /\ o.r = q.r /\ (o.post <=> q.post) /\ o.res = q.res
         /\ Hook(o, h) = Hook(q, Hook(c, h))
         /\ o.hook = c.hook \/ o.hook = q.hook
  BY Zenon DEF Gives, Hook

(* The request is retired when the new mask is dormant. *)
Prepared(r, h, p, dormant, c) ==
    /\ Made(c) /\ ~c.post /\ c.hook \in {"keep", "none"} /\ c.res \in {"ok", "fail"}
    /\ Failed(c) => c.r = r /\ c.hook = "keep"
    /\ ~dormant => c.r = r /\ c.hook = "keep"
    /\ Same(r, c.r) /\ Stored(c.r, Hook(c, h), p)
    /\ ~Failed(c) /\ ~closing /\ ~r.deleted =>
         /\ consumes => Conserved(c.r, Hook(c, h))
         /\ dormant => c.r.poll # "PENDING"
         /\ Underway(c.r, Hook(c, h))

LEMMA ModCancel ==
  ASSUME NEW i, NEW r, NEW h, NEW p, h = hook[i], Stored(r, h, p),
         ~closing /\ ~r.deleted => (consumes => Conserved(r, h)) /\ Remembered(r, h),
         NEW dormant, NEW c, dormant => c \in Cancel(i, r), ~dormant => c = Outcome(r, "ok")
  PROVE  Prepared(r, h, p, dormant, c)
  <1> SUFFICES
         /\ Made(c) /\ ~c.post /\ c.hook \in {"keep", "none"} /\ c.res \in {"ok", "fail"}
         /\ Failed(c) => c.r = r /\ c.hook = "keep"
         /\ ~dormant => c.r = r /\ c.hook = "keep"
         /\ Same(r, c.r) /\ Stored(c.r, Hook(c, h), p)
         /\ ~Failed(c) /\ ~closing /\ ~r.deleted =>
              /\ consumes => Conserved(c.r, Hook(c, h))
              /\ dormant => c.r.poll # "PENDING"
              /\ Underway(c.r, Hook(c, h))
    BY DEF Prepared
  <1>1. Shaped(r)
    BY DEF Stored
  <1>2. Same(r, r)
    BY <1>1, Zenon DEF Same
  <1>3. CASE ~dormant
    <2>1. Made(c) /\ c.r = r /\ c.hook = "keep" /\ ~c.post /\ c.res = "ok" /\ Hook(c, h) = h
      BY <1>3, OutcomeIs DEF Gives, Hook
    <2>2. Remembered(r, h) => Underway(r, h)
      BY StillUnderway, Zenon
    <2> QED BY <1>3, <1>2, <2>1, <2>2 DEF Failed
  <1>4. CASE dormant
    <2>0. c \in Cancel(i, r)
      BY <1>4, Zenon
    <2>1. CASE /\ r.poll # "PENDING" /\ c.res = "ok" /\ c.hook = "keep" /\ c.r = r
               /\ Made(c) /\ ~c.post
      <3>1. Hook(c, h) = h
        BY <2>1, Zenon DEF Hook
      <3>2. Remembered(r, h) => Underway(r, h)
        BY StillUnderway, Zenon
      <3> QED BY <1>4, <1>2, <2>1, <3>1, <3>2 DEF Failed
    <2>2. CASE /\ r.poll = "PENDING" /\ c.res = "ok" /\ hook[i] \in {"armed", "none"}
               /\ Hook(c, hook[i]) = "none" /\ c.hook \in {"keep", "none"} /\ Retired(r, c.r)
               /\ ~c.r.wait /\ c.r.poll = (IF r.posted THEN "CANCELLED" ELSE "IDLE")
               /\ Made(c) /\ ~c.post
      <3>1. Stored(c.r, Hook(c, h), p) /\ (Conserved(r, h) => Conserved(c.r, Hook(c, h)))
        BY <2>0, CancelKeeps, Zenon
      <3>2. ~Failed(c) /\ Same(r, c.r) /\ c.r.poll # "PENDING" /\ Underway(c.r, Hook(c, h))
        BY <2>2, Zenon DEF Failed, Retired, Underway
      <3> QED BY <1>4, <2>2, <3>1, <3>2
    <2>3. CASE /\ r.poll = "PENDING" /\ c.res = "fail" /\ c.hook = "keep" /\ c.r = r
               /\ Made(c) /\ ~c.post
      BY <1>4, <1>2, <2>3, Zenon DEF Hook, Failed
    <2>4. /\ Made(c) /\ ~c.post
          /\ \/ r.poll # "PENDING" /\ c.res = "ok" /\ c.hook = "keep" /\ c.r = r
             \/ /\ r.poll = "PENDING" /\ c.res = "ok" /\ hook[i] \in {"armed", "none"}
                /\ Hook(c, hook[i]) = "none" /\ c.hook \in {"keep", "none"} /\ Retired(r, c.r)
                /\ ~c.r.wait /\ c.r.poll = (IF r.posted THEN "CANCELLED" ELSE "IDLE")
             \/ r.poll = "PENDING" /\ c.res = "fail" /\ c.hook = "keep" /\ c.r = r
      BY <1>1, <2>0, CancelIs, SMTT(30)
    <2> QED BY <2>1, <2>2, <2>3, <2>4, Zenon
  <1> QED BY <1>3, <1>4, Zenon

(* ep_sock_drop_closed_locked *)
LEMMA DetachedFine ==
  ASSUME NEW r, NEW h, NEW p, Stored(r, h, p), NEW g \in Nat, NEW cl
  PROVE  /\ Fine(Detached(r, g), h, p, cl)
         /\ Detached(r, g) = Free \/ Detached(r, g).deleted
  <1> DEFINE y == [r EXCEPT !.deleted = TRUE, !.rearm = FALSE, !.oneshot = FALSE, !.gen = g]
  <1>1. CASE r.poll = "IDLE"
    <2>1. Detached(r, g) = Free /\ h = "none" /\ ~p
      BY <1>1 DEF Detached, Stored
    <2> QED BY <2>1 DEF Fine
  <1>2. CASE r.poll # "IDLE"
    <2>1. Detached(r, g) = y
      BY <1>2 DEF Detached
    <2>2. Shaped(y) /\ y.deleted = TRUE /\ y.gen = g /\ y.poll = r.poll /\ y.posted = r.posted
          /\ y.ready = r.ready /\ y.interest = r.interest
      BY Zenon DEF Stored, Shaped, Fields
    <2> HIDE DEF y
    <2>3. Stored(y, h, p) /\ y # Free
      BY <2>2, ShapedLive, Zenon DEF Stored
    <2> QED BY <2>1, <2>2, <2>3 DEF Fine
  <1> QED BY <1>1, <1>2

----------------------------------------------------------------------------
(* ep_sock_submit_locked of any registration, and the arm pass *)

Submitted(r, h, p, o) ==
    /\ Made(o) /\ o.hook \in {"keep", "none", "armed"} /\ (o.post => ~p)
    /\ Fine(o.r, Hook(o, h), o.post \/ p, closing \/ o.res = "fatal")
    /\ \/ o.res = "gone" /\ (o.r = Free \/ o.r.deleted)
       \/ o.res # "gone" /\ Same(r, o.r)

LEMMA SubmitFine ==
  ASSUME TypeOK, NEW i, NEW r, NEW h, NEW p \in BOOLEAN, h = hook[i], Fine(r, h, p, closing),
         Shaped(r), NEW o \in Submit(i, r)
  PROVE  Submitted(r, h, p, o)
  <1> SUFFICES
         /\ Made(o) /\ o.hook \in {"keep", "none", "armed"} /\ (o.post => ~p)
         /\ Fine(o.r, Hook(o, h), o.post \/ p, closing \/ o.res = "fatal")
         /\ \/ o.res = "gone" /\ (o.r = Free \/ o.r.deleted)
            \/ o.res # "gone" /\ Same(r, o.r)
    BY DEF Submitted
  <1>1. /\ Stored(r, h, p) /\ Same(r, r)
        /\ ~closing /\ ~r.deleted => (consumes => Conserved(r, h)) /\ Remembered(r, h)
    BY ShapedLive DEF Fine, Same
  <1>2. consumes /\ ~closing /\ ~r.deleted => r.balance \in Int
    BY <1>1 DEF Conserved, One
  <1>3. CASE o = Outcome(r, "ok")
    <2>1. Made(o) /\ o.r = r /\ o.hook = "keep" /\ ~o.post /\ o.res = "ok" /\ Hook(o, h) = h
      BY <1>3, OutcomeIs DEF Gives, Hook
    <2> QED BY <1>1, <2>1 DEF Fine, Stored
  <1>4. CASE r.poll = "IDLE"
    <2>1. Arming(r, o)
      BY <1>4, <1>2, SubmitIs
    <2>2. h = "none" /\ p = FALSE
      BY <1>1, <1>4 DEF Stored
    <2>3. Fine(o.r, Hook(o, "none"), o.post, closing \/ o.res = "fatal")
      BY <1>4, <2>1, <2>2, ArmingFine, Zenon
    <2>4. Made(o) /\ Same(r, o.r) /\ o.hook \in {"keep", "none", "armed"} /\ o.res # "gone"
      BY <2>1 DEF Arming, Quiet, PostedNow, WaitsNow, Refused, Broken
    <2> QED BY <2>2, <2>3, <2>4 DEF Fine, Stored
  <1>5. ASSUME ~closing, ~r.deleted, r.poll # "IDLE", Dormant(r), NEW c \in Cancel(i, r),
               o = IF Failed(c) THEN c ELSE [c EXCEPT !.r.rearm = FALSE, !.r.holdoff = FALSE]
        PROVE  /\ Made(o) /\ o.hook \in {"keep", "none"} /\ ~o.post /\ o.res \in {"ok", "fail"}
               /\ Fine(o.r, Hook(o, h), p, closing) /\ Same(r, o.r)
    <2>1. /\ Made(c) /\ ~c.post /\ c.hook \in {"keep", "none"} /\ c.res \in {"ok", "fail"}
          /\ Failed(c) => c.r = r /\ c.hook = "keep"
          /\ Same(r, c.r) /\ Stored(c.r, Hook(c, h), p)
          /\ ~Failed(c) => /\ consumes => Conserved(c.r, Hook(c, h))
                           /\ c.r.poll # "PENDING" /\ Underway(c.r, Hook(c, h))
      <3>1. PICK dormant : dormant = TRUE
        OBVIOUS
      <3>2. (dormant => c \in Cancel(i, r)) /\ (~dormant => c = Outcome(r, "ok"))
        BY <1>5, <3>1
      <3>3. Prepared(r, h, p, dormant, c)
        BY <1>1, <3>2, ModCancel, Zenon
      <3> QED BY <1>5, <3>1, <3>3 DEF Prepared
    <2>2. CASE Failed(c)
      <3>1. o = c /\ Hook(o, h) = h
        BY <1>5, <2>1, <2>2, Zenon DEF Hook
      <3> QED BY <2>1, <2>2, <3>1
    <2>3. CASE ~Failed(c)
      <3>1. PICK d, x : d = c.r /\ x = [d EXCEPT !.rearm = FALSE, !.holdoff = FALSE]
        BY Zenon
      <3>2. o = [c EXCEPT !.r = [[@ EXCEPT !.rearm = FALSE] EXCEPT !.holdoff = FALSE]]
        BY <1>5, <2>1, <2>3, Zenon DEF Made, OutcomeFields
      <3>3. o = [c EXCEPT !.r = x]
        BY <2>1, <3>1, <3>2 DEF Made, OutcomeFields
      <3>4. Made(o) /\ o.r = x /\ o.hook = c.hook /\ o.post = c.post /\ o.res = c.res
        BY <2>1, <3>3 DEF Made, OutcomeFields
      <3>5. Same(r, d) /\ Stored(d, Hook(c, h), p)
        BY <2>1, <3>1
      <3>6. /\ Same(r, x) /\ x.poll = d.poll /\ x.posted = d.posted /\ x.owned = d.owned
            /\ x.balance = d.balance /\ x.ready = d.ready /\ x.gen = d.gen /\ x.interest = r.interest
            /\ x.wait = d.wait
        BY <3>1, <3>5, Zenon DEF Same, Shaped, Fields
      <3>7. Stored(x, Hook(c, h), p)
        BY <3>5, <3>6, Zenon DEF Stored, Same
      <3>8. Conserved(d, Hook(c, h)) => Conserved(x, Hook(c, h))
        BY <3>6 DEF Conserved
      <3>9. Remembered(x, Hook(c, h))
        <4>1. Dormant(x)
          BY <1>5, <3>6, Zenon DEF Dormant
        <4> QED BY <2>1, <2>3, <3>1, <3>6, <4>1 DEF Remembered, Underway
      <3>10. x # Free
        BY <3>6, ShapedLive DEF Same
      <3>11. Fine(x, Hook(c, h), p, closing)
        BY <2>1, <2>3, <3>1, <3>7, <3>8, <3>9, <3>10, Zenon DEF Fine
      <3>12. Hook(o, h) = Hook(c, h)
        BY <3>4 DEF Hook
      <3> QED BY <2>1, <3>4, <3>6, <3>11, <3>12
    <2> QED BY <2>2, <2>3
  <1>6. ASSUME ~closing, ~r.deleted, ~r.ready, r.poll = "PENDING", r.rearm, NEW c \in Cancel(i, r),
               o \in After(c, IF Failed(c) THEN {Outcome(Detached(r, nextGen + 1), "gone")}
                              ELSE Arm(c.r))
        PROVE  /\ Made(o) /\ o.hook \in {"keep", "none", "armed"} /\ (o.post => ~p)
               /\ Fine(o.r, Hook(o, h), o.post \/ p, closing \/ o.res = "fatal")
               /\ \/ o.res = "gone" /\ (o.r = Free \/ o.r.deleted)
                  \/ o.res # "gone" /\ Same(r, o.r)
    <2>1. CASE Failed(c)
      <3>1. c.res = "fail" /\ c.hook = "keep" /\ Made(c)
        BY <1>6, <2>1, CancelIs DEF Failed
      <3>2. PICK x, g : x = Detached(r, g) /\ g = nextGen + 1 /\ g \in Nat
        BY DEF TypeOK
      <3>3. Gives(Outcome(x, "gone"), x, "keep", FALSE, "gone")
        BY OutcomeIs, Zenon
      <3>4. o \in After(c, {Outcome(x, "gone")})
        BY <1>6, <2>1, <3>2
      <3>5. PICK q \in {Outcome(x, "gone")} :
                Gives(o, q.r, IF q.hook = "keep" THEN c.hook ELSE q.hook, q.post, q.res)
        BY <3>1, <3>3, <3>4, AfterIs DEF Gives
      <3>6. Made(o) /\ o.r = x /\ o.hook = "keep" /\ ~o.post /\ o.res = "gone" /\ Hook(o, h) = h
        BY <3>1, <3>3, <3>5 DEF Gives, Hook
      <3>7. (\A cl : Fine(x, h, p, cl)) /\ (x = Free \/ x.deleted)
        BY <1>1, <3>2, DetachedFine, SMTT(30)
      <3> QED BY <3>6, <3>7, Zenon DEF Fine, Stored
    <2>2. CASE ~Failed(c)
      <3>1. /\ Made(c) /\ ~c.post /\ c.hook \in {"keep", "none"} /\ Hook(c, h) = "none"
            /\ Retired(r, c.r) /\ c.r.poll = (IF r.posted THEN "CANCELLED" ELSE "IDLE") /\ ~c.r.wait
        BY <1>6, <2>2, CancelIs DEF Failed
      <3>2. PICK d : d = c.r
        BY SMTT(30)
      <3>3. Stored(d, "none", p) /\ (consumes => Conserved(d, "none"))
        <4>1. /\ Stored(c.r, Hook(c, hook[i]), p)
              /\ Conserved(r, hook[i]) => Conserved(c.r, Hook(c, hook[i]))
          BY <1>1, CancelKeeps
        <4> QED BY <1>1, <1>6, <3>1, <3>2, <4>1, Zenon
      <3>4. Same(r, d) /\ ~d.deleted /\ ~d.ready /\ d.rearm /\ Shaped(d)
            /\ d.poll = (IF d.posted THEN "CANCELLED" ELSE "IDLE") /\ ~d.wait
        BY <1>6, <3>1, <3>2, Zenon DEF Retired, Same
      <3>5. Fine(d, "none", p, closing)
        <4>1. Remembered(d, "none")
          BY <3>4 DEF Remembered
        <4>2. d # Free
          BY <3>4, ShapedLive
        <4> QED BY <3>3, <4>1, <4>2, Zenon DEF Fine
      <3>6. ASSUME NEW q \in Arm(d) PROVE Arming(d, q)
        <4>1. consumes => d.balance \in Int
          BY <3>3, SMTT(30) DEF Conserved, One
        <4> QED BY <3>4, <4>1, ArmIs
      <3>7. PICK q \in Arm(d) : Gives(o, q.r, IF q.hook = "keep" THEN c.hook ELSE q.hook, q.post, q.res)
        <4>1. o \in After(c, Arm(d)) /\ \A q \in Arm(d) : Made(q)
          BY <1>6, <2>2, <3>2, <3>6, SMTT(30) DEF Arming
        <4> QED BY <3>1, <4>1, AfterIs
      <3>8. Arming(d, q) /\ Made(q) /\ Same(d, q.r) /\ q.hook \in {"keep", "none", "armed"}
            /\ q.res # "gone"
        BY <3>6, Zenon DEF Arming, Quiet, PostedNow, WaitsNow, Refused, Broken
      <3>9. /\ Made(o) /\ o.r = q.r /\ (o.post <=> q.post) /\ o.res = q.res
            /\ Hook(o, h) = Hook(q, "none")
            /\ o.hook \in {"keep", "none", "armed"}
        BY <3>1, <3>7, <3>8, AfterHook, SMTT(30)
      <3>10. Same(r, o.r)
        BY <3>4, <3>8, <3>9, SMTT(30) DEF Same
      <3>11. CASE d.poll = "IDLE"
        <4>1. p = FALSE
          BY <3>3, <3>11 DEF Stored
        <4>2. Fine(q.r, Hook(q, "none"), q.post, closing \/ q.res = "fatal")
          BY <3>4, <3>5, <3>8, <3>11, <4>1, ArmingFine, Zenon
        <4> QED BY <3>8, <3>9, <3>10, <4>1, <4>2, Zenon DEF Fine, Stored
      <3>12. CASE d.poll = "CANCELLED"
        <4>1. q = Outcome(d, "ok")
          BY <3>12 DEF Arm
        <4>2. q.r = d /\ q.hook = "keep" /\ ~q.post /\ q.res = "ok"
          BY <4>1, OutcomeIs, SMTT(30) DEF Gives
        <4>3. Fine(o.r, Hook(o, h), p, closing)
          BY <3>5, <3>9, <4>2 DEF Hook
        <4> QED BY <3>8, <3>9, <3>10, <4>2, <4>3, Zenon DEF Fine, Stored
      <3>13. d.poll = "IDLE" \/ d.poll = "CANCELLED"
        BY <3>4, Zenon
      <3> QED BY <3>11, <3>12, <3>13, Zenon
    <2> QED BY <2>1, <2>2, Zenon
  <1>7. CASE r.poll # "IDLE" /\ o # Outcome(r, "ok")
    <2>1. ~closing /\ ~r.deleted /\ ~r.ready /\ o \notin Arm(r)
      BY <1>7, Zenon DEF Submit, Arm
    <2>2. CASE Dormant(r)
      <3>1. PICK c \in Cancel(i, r) :
                o = IF Failed(c) THEN c ELSE [c EXCEPT !.r.rearm = FALSE, !.r.holdoff = FALSE]
        BY <1>7, <2>1, <2>2, Zenon DEF Submit
      <3>2. /\ Made(o) /\ o.hook \in {"keep", "none"} /\ ~o.post /\ o.res \in {"ok", "fail"}
            /\ Fine(o.r, Hook(o, h), p, closing) /\ Same(r, o.r)
        BY <1>5, <1>7, <2>1, <2>2, <3>1, Zenon
      <3> QED BY <3>2 DEF Fine, Stored
    <2>3. CASE ~Dormant(r)
      <3>1. /\ r.poll = "PENDING" /\ r.rearm
            /\ o \in UNION {After(c, IF Failed(c) THEN {Outcome(Detached(r, nextGen + 1), "gone")}
                                     ELSE Arm(c.r)) : c \in Cancel(i, r)}
        BY <1>7, <2>1, <2>3 DEF Submit
      <3>2. PICK c \in Cancel(i, r) :
                o \in After(c, IF Failed(c) THEN {Outcome(Detached(r, nextGen + 1), "gone")}
                               ELSE Arm(c.r))
        BY <3>1, SMTT(30)
      <3> QED BY <1>6, <2>1, <3>1, <3>2
    <2> QED BY <2>2, <2>3
  <1> QED BY <1>3, <1>4, <1>7, <1>1 DEF Stored

----------------------------------------------------------------------------
(* ep_sock_handle_completion *)

(* How the completion of a registration ends that was r, with nothing in   *)
(* the pool, when its packet is gone                                       *)
Ends(r, e) ==
    /\ Made(e.o) /\ e.o.hook \in {"keep", "none", "armed"}
    /\ Fine(e.o.r, Hook(e.o, "none"), e.o.post, closing \/ e.o.res = "fatal")
    /\ r.deleted => (e.o.r = Free \/ e.o.r.deleted) /\ e.node = <<>>
    /\ ~r.deleted =>
        /\ Shaped(e.o.r) /\ ~e.o.r.deleted /\ e.o.r.gen = r.gen
        /\ \/ ~e.o.r.ready /\ e.node = <<>>
           \/ /\ e.o.r.ready
              /\ \E ev \in SUBSET {"IN", "HUP"} : e.node = <<[gen |-> r.gen, events |-> ev]>>

(* A block that stays as it is, or is marked for the arm pass *)
LEMMA EndsQuietly ==
  ASSUME NEW r, NEW x, NEW e, Made(e.o), e.o.r = x, e.o.hook \in {"keep", "none"}, ~e.o.post,
         e.node = <<>>, Fine(x, "none", FALSE, closing),
         r.deleted => x = Free \/ x.deleted,
         ~r.deleted => Shaped(x) /\ ~x.deleted /\ x.gen = r.gen /\ ~x.ready
  PROVE  Ends(r, e)
  <1>1. Hook(e.o, "none") = "none"
    BY DEF Hook
  <1>2. Fine(x, "none", FALSE, closing \/ e.o.res = "fatal")
    BY Zenon DEF Fine
  <1>3. Fine(e.o.r, Hook(e.o, "none"), e.o.post, closing \/ e.o.res = "fatal")
    BY <1>1, <1>2 DEF Fine, Stored
  <1> QED BY <1>3, Zenon DEF Ends

(* Submitted again, and retried by the arm pass if that fails *)
LEMMA Resubmitted ==
  ASSUME TypeOK, NEW i, NEW r, Fine(r, "none", FALSE, closing), Shaped(r), r.poll = "IDLE",
         ~closing, ~r.deleted, ~r.ready, NEW o \in Submit(i, r)
  PROVE  Ends(r, NoNode(Retry(o)))
  <1>1. consumes => r.balance \in Int
    <2>1. r # Free
      BY ShapedLive
    <2>2. consumes => Conserved(r, "none")
      BY <2>1 DEF Fine
    <2> QED BY <2>2 DEF Conserved, One
  <1>2. Arming(r, o)
    BY <1>1, SubmitIs
  <1>3. Fine(o.r, Hook(o, "none"), o.post, closing \/ o.res = "fatal")
    BY <1>2, ArmingFine, Zenon
  <1>4. Made(o) /\ Same(r, o.r) /\ o.hook \in {"keep", "none", "armed"}
    BY <1>2, Zenon DEF Arming, Quiet, PostedNow, WaitsNow, Refused, Broken
  <1>5. Shaped(o.r) /\ ~o.r.deleted /\ o.r.gen = r.gen /\ ~o.r.ready
    BY <1>4 DEF Same
  <1>6. PICK w : w = Retry(o)
    OBVIOUS
  <1>7. NoNode(w).o = w /\ NoNode(w).node = <<>>
    BY SMTT(30) DEF NoNode
  <1>8. CASE o.res # "fail"
    <2>1. w = o
      BY <1>6, <1>8 DEF Retry
    <2> QED BY <1>3, <1>4, <1>5, <1>6, <1>7, <2>1, Zenon DEF Ends
  <1>9. CASE o.res = "fail"
    <2>1. PICK d, x : d = o.r /\ x = [d EXCEPT !.rearm = TRUE]
      BY Zenon
    <2>2. w = [o EXCEPT !.r = [@ EXCEPT !.rearm = TRUE]]
      BY <1>6, <1>9 DEF Retry
    <2>3. Made(w) /\ w.r = x /\ w.hook = o.hook /\ w.post = o.post /\ w.res = o.res
      BY <1>4, <2>1, <2>2, Zenon DEF Made, OutcomeFields
    <2>4. Refused(r, o)
      BY <1>2, <1>9 DEF Arming, Quiet, PostedNow, WaitsNow, Broken
    <2>5. Fine(d, "none", FALSE, closing) /\ w.hook = "keep" /\ ~w.post /\ Shaped(d)
      <3>1. Hook(o, "none") = "none" /\ w.hook = "keep" /\ ~w.post
        BY <2>3, <2>4 DEF Refused, Hook
      <3> QED BY <1>3, <1>5, <1>9, <2>1, <2>3, <3>1, Zenon DEF Fine, Stored
    <2>6. /\ Shaped(x) /\ x.deleted = d.deleted /\ x.gen = d.gen /\ x.ready = d.ready
          /\ x.poll = d.poll /\ x.posted = d.posted /\ x.owned = d.owned /\ x.wait = d.wait
          /\ x.balance = d.balance /\ x.rearm = TRUE /\ x.interest = d.interest
      BY <2>1, <2>5, Zenon DEF Shaped, Fields
    <2>7. Fine(x, "none", FALSE, closing)
      <3>1. d # Free /\ x # Free
        BY <2>5, <2>6, ShapedLive
      <3>2. /\ Stored(d, "none", FALSE)
            /\ ~closing /\ ~d.deleted => (consumes => Conserved(d, "none")) /\ Remembered(d, "none")
        BY <2>5, <3>1, Zenon DEF Fine
      <3>3. Stored(x, "none", FALSE)
        BY <2>6, <3>2, Zenon DEF Stored
      <3>4. Conserved(d, "none") => Conserved(x, "none")
        BY <2>6, Zenon DEF Conserved
      <3>5. Remembered(d, "none") => Remembered(x, "none")
        BY <2>6 DEF Remembered
      <3> QED BY <2>6, <3>1, <3>2, <3>3, <3>4, <3>5, Zenon DEF Fine
    <2>8. PICK e : e = NoNode(w)
      OBVIOUS
    <2>9. /\ Made(e.o) /\ e.o.r = x /\ e.o.hook \in {"keep", "none"} /\ ~e.o.post /\ e.node = <<>>
          /\ r.deleted => x = Free \/ x.deleted
          /\ ~r.deleted => Shaped(x) /\ ~x.deleted /\ x.gen = r.gen /\ ~x.ready
      BY <1>5, <1>7, <2>1, <2>3, <2>5, <2>6, <2>8
    <2>10. Ends(r, e)
      BY <2>7, <2>9, EndsQuietly, Zenon
    <2> QED BY <1>6, <2>8, <2>10
  <1> QED BY <1>8, <1>9

(* x is r but for the edge latch and its place on the rearm list. *)
Beside(r, x) ==
    /\ Shaped(x) /\ x.poll = r.poll /\ x.posted = r.posted /\ x.gen = r.gen /\ x.ready = r.ready
    /\ x.deleted = r.deleted /\ x.owned = r.owned /\ x.balance = r.balance
    /\ x.interest = r.interest /\ x.mode = r.mode /\ x.terminal = r.terminal

(* A registration without request, node and packet *)
Resting(r) ==
    /\ Stored(r, "none", FALSE) /\ r.poll = "IDLE" /\ ~r.ready
    /\ ~closing /\ ~r.deleted /\ consumes => Conserved(r, "none")

LEMMA BesideFine ==
  ASSUME NEW r, NEW x, Resting(r), Beside(r, x),
         x.rearm \/ Dormant(x) \/ ("ET" \in x.mode /\ ~server /\ x.terminal)
  PROVE  Fine(x, "none", FALSE, closing)
  <1>1. Stored(x, "none", FALSE)
    BY DEF Resting, Beside, Stored
  <1>2. Conserved(r, "none") => Conserved(x, "none")
    BY Zenon DEF Beside, Conserved
  <1>3. Remembered(x, "none")
    BY DEF Resting, Beside, Remembered
  <1>4. x # Free
    BY ShapedLive DEF Beside
  <1> QED BY <1>1, <1>2, <1>3, <1>4, Zenon DEF Fine, Resting, Beside

LEMMA BesideEnds ==
  ASSUME NEW r, NEW x, Resting(r), Beside(r, x), ~r.deleted,
         x.rearm \/ Dormant(x) \/ ("ET" \in x.mode /\ ~server /\ x.terminal),
         NEW e, e.o = Outcome(x, "ok") \/ e.o = Fault(x, "ok"), e.node = <<>>
  PROVE  Ends(r, e)
  <1>1. Fine(x, "none", FALSE, closing)
    BY BesideFine, Zenon
  <1>2. Made(e.o) /\ e.o.r = x /\ e.o.hook \in {"keep", "none"} /\ ~e.o.post
    BY OutcomeIs DEF Gives
  <1>3. Shaped(x) /\ ~x.deleted /\ x.gen = r.gen /\ ~x.ready
    BY DEF Beside, Resting
  <1> QED BY <1>1, <1>2, <1>3, EndsQuietly, Zenon

(* Ends depends on the generation only. *)
LEMMA EndsAlike ==
  ASSUME NEW r, NEW x, NEW e, Ends(x, e), x.gen = r.gen, x.deleted = r.deleted
  PROVE  Ends(r, e)
  BY Zenon DEF Ends

(* A node is queued. *)
LEMMA QueuedEnds ==
  ASSUME TypeOK, NEW r, NEW x, Resting(r), Beside(r, x), ~r.deleted, ~closing,
         consumes => r.owned, NEW ev \in SUBSET {"IN", "HUP"},
         NEW e, e.o = Outcome(Queued(x), "ok"), e.node = <<[gen |-> r.gen, events |-> ev]>>
  PROVE  Ends(r, e)
  <1> DEFINE one == "ONESHOT" \in x.mode
             own == x.owned /\ ~MayConsume
             y == [x EXCEPT !.oneshot = one, !.holdoff = FALSE, !.ready = TRUE, !.owned = own]
  <1>1. Queued(x) = y
    BY DEF Queued
  <1>2. consumes => ~own
    BY SMTT(30) DEF TypeOK
  <1>3. Shaped(x)
    BY DEF Beside
  <1> HIDE DEF one, own
  <1>4. /\ Shaped(y) /\ y.gen = x.gen /\ y.poll = x.poll /\ y.ready = TRUE /\ y.owned = own
        /\ y.posted = x.posted /\ y.balance = x.balance /\ y.deleted = x.deleted
        /\ y.interest = x.interest
    BY <1>3, Zenon DEF Shaped, Fields
  <1> HIDE DEF y
  <1>5. Stored(y, "none", FALSE)
    BY <1>4, SMTT(30) DEF Resting, Beside, Stored
  <1>6. consumes => Conserved(y, "none")
    <2>1. consumes => r.balance = 1
      BY DEF Resting, Conserved, One
    <2>2. consumes => y.balance = 1 /\ ~y.owned /\ y.ready /\ ~y.posted
      BY <1>2, <1>4, <2>1, Zenon DEF Beside, Resting, Stored
    <2> QED BY <2>2, ConservedInNode, Zenon
  <1>7. Remembered(y, "none")
    BY <1>4 DEF Remembered, Beside, Resting
  <1>8. y # Free
    BY <1>4, ShapedLive, Zenon
  <1>9. Fine(y, "none", FALSE, closing)
    BY <1>5, <1>6, <1>7, <1>8, Zenon DEF Fine
  <1>10. Made(e.o) /\ e.o.r = y /\ e.o.hook = "keep" /\ ~e.o.post /\ e.o.res = "ok"
    BY <1>1, OutcomeIs, SMTT(30) DEF Gives
  <1>11. Fine(e.o.r, Hook(e.o, "none"), e.o.post, closing \/ e.o.res = "fatal")
    BY <1>9, <1>10, Zenon DEF Fine, Stored, Hook
  <1>12. Shaped(e.o.r) /\ ~e.o.r.deleted /\ e.o.r.gen = r.gen /\ e.o.r.ready
    BY <1>4, <1>10, SMTT(30) DEF Beside
  <1> QED BY <1>10, <1>11, <1>12 DEF Ends

LEMMA DeliverIs ==
  ASSUME TypeOK, NEW i, NEW r, Resting(r), ~r.deleted, ~closing, consumes => r.owned,
         NEW level \in SUBSET {"IN", "HUP"}, NEW valid, NEW e \in Deliver(i, r, level, valid)
  PROVE  Ends(r, e)
  <1> DEFINE et == "ET" \in r.mode
             events == IF ~et THEN level
                       ELSE IF kind # "PIPE" THEN level \ r.observed
                       ELSE IF valid THEN PipeEdges(r.observed, level) ELSE {}
             seen == [r EXCEPT !.observed = IF ~et THEN {} ELSE IF valid THEN level ELSE @,
                               !.holdoff = @ /\ et]
             quiet == [seen EXCEPT !.rearm = FALSE, !.holdoff = FALSE]
             later == [seen EXCEPT !.rearm = TRUE, !.holdoff = TRUE]
             again == [seen EXCEPT !.rearm = TRUE]
             back == [seen EXCEPT !.observed = IF et THEN r.observed ELSE @, !.rearm = TRUE]
  <1>1. events \in SUBSET {"IN", "HUP"}
    BY Zenon DEF PipeEdges
  <1>2. \/ /\ kind = "PIPE" /\ et /\ valid /\ r.terminal /\ IsFinal(level)
           /\ e = NoNode(Outcome(quiet, "ok"))
        \/ e = NoNode(Outcome(later, "ok"))
        \/ \E o \in Submit(i, again) : e = NoNode(Retry(o))
        \/ e = [o |-> Outcome(Queued(seen), "ok"), node |-> <<Node(r, events)>>, err |-> FALSE]
        \/ e = [o |-> Fault(back, "ok"), node |-> <<>>, err |-> TRUE]
    <2>1. Deliver(i, r, level, valid) =
              IF events = {}
              THEN IF kind = "PIPE" /\ et /\ valid /\ r.terminal /\ IsFinal(level)
                   THEN {NoNode(Outcome(quiet, "ok"))}
                   ELSE IF et THEN {NoNode(Outcome(later, "ok"))}
                   ELSE {NoNode(Retry(o)) : o \in Submit(i, again)}
              ELSE {[o |-> Outcome(Queued(seen), "ok"), node |-> <<Node(r, events)>>, err |-> FALSE]}
                   \cup {[o |-> Fault(back, "ok"), node |-> <<>>, err |-> TRUE] : x \in CanFail({"node"})}
      BY Zenon DEF Deliver
    <2> HIDE DEF et, events, seen, quiet, later, again, back
    <2> QED BY <2>1, Zenon
  <1> HIDE DEF et
  <1>3. Shaped(r)
    BY DEF Resting, Stored
  <1>4. PICK ob, hd, bk : /\ seen = [r EXCEPT !.observed = ob, !.holdoff = hd]
                          /\ back = [seen EXCEPT !.observed = bk, !.rearm = TRUE]
    BY Zenon
  <1>5. Beside(r, seen) /\ Shaped(seen)
    BY <1>3, <1>4, Zenon DEF Beside, Shaped, Fields
  <1> HIDE DEF seen
  <1>6. Beside(r, quiet)
    BY <1>5, Zenon DEF Beside, Shaped, Fields
  <1>7. Beside(r, later) /\ later.rearm = TRUE
    BY <1>5, Zenon DEF Beside, Shaped, Fields
  <1>8. Beside(r, again) /\ again.rearm = TRUE
    BY <1>5, Zenon DEF Beside, Shaped, Fields
  <1>9. Beside(r, back) /\ back.rearm = TRUE
    <2>1. PICK x : x = [seen EXCEPT !.observed = bk, !.rearm = TRUE]
      OBVIOUS
    <2>2. Beside(r, x) /\ x.rearm = TRUE
      BY <1>5, <2>1, Zenon DEF Beside, Shaped, Fields
    <2> QED BY <1>4, <2>1, <2>2
  <1> HIDE DEF quiet, later, again, back, events
  <1>10. CASE /\ kind = "PIPE" /\ et /\ valid /\ r.terminal /\ IsFinal(level)
              /\ e = NoNode(Outcome(quiet, "ok"))
    <2>1. "ET" \in quiet.mode /\ ~server /\ quiet.terminal
      BY <1>6, <1>10, Zenon DEF Beside, IsFinal, et
    <2>2. e.o = Outcome(quiet, "ok") /\ e.node = <<>>
      BY <1>10, Zenon DEF NoNode
    <2> QED BY <1>6, <2>1, <2>2, BesideEnds
  <1>11. CASE e = NoNode(Outcome(later, "ok"))
    <2>1. e.o = Outcome(later, "ok") /\ e.node = <<>>
      BY <1>11 DEF NoNode
    <2> QED BY <1>7, <2>1, BesideEnds
  <1>12. CASE \E o \in Submit(i, again) : e = NoNode(Retry(o))
    <2>1. PICK o \in Submit(i, again) : e = NoNode(Retry(o))
      BY <1>12
    <2>2. PICK x : x = again
      OBVIOUS
    <2>3. Fine(x, "none", FALSE, closing)
      BY <1>8, <2>2, BesideFine, Zenon
    <2>4. Shaped(x) /\ x.poll = "IDLE" /\ ~x.deleted /\ ~x.ready /\ x.gen = r.gen
          /\ x.deleted = r.deleted /\ o \in Submit(i, x)
      BY <1>8, <2>1, <2>2 DEF Beside, Resting
    <2>5. Ends(x, NoNode(Retry(o)))
      BY <2>3, <2>4, Resubmitted, Zenon
    <2> QED BY <2>1, <2>4, <2>5, EndsAlike
  <1>13. CASE e = [o |-> Outcome(Queued(seen), "ok"), node |-> <<Node(r, events)>>, err |-> FALSE]
    <2>1. e.o = Outcome(Queued(seen), "ok") /\ e.node = <<[gen |-> r.gen, events |-> events]>>
      BY <1>13, Zenon DEF Node
    <2> QED BY <1>1, <1>5, <2>1, QueuedEnds, Zenon
  <1>14. CASE e = [o |-> Fault(back, "ok"), node |-> <<>>, err |-> TRUE]
    <2>1. e.o = Fault(back, "ok") /\ e.node = <<>>
      BY <1>14
    <2> QED BY <1>9, <2>1, BesideEnds
  <1> QED BY <1>2, <1>10, <1>11, <1>12, <1>13, <1>14, Zenon

LEMMA DeliverShaped ==
  ASSUME NEW i, NEW r, NEW level, NEW valid, NEW e \in Deliver(i, r, level, valid)
  PROVE  e = [f \in {"o", "node", "err"} |-> e[f]]
  BY DEF Deliver, NoNode

(* One more failed call changes nothing else. *)
LEMMA EndsUsed ==
  ASSUME NEW r, NEW e, Ends(r, e), e = [f \in {"o", "node", "err"} |-> e[f]]
  PROVE  Ends(r, [e EXCEPT !.o.used = @ + 1])
  <1>1. PICK o, u : o = e.o /\ u = [o EXCEPT !.used = @ + 1]
    BY Zenon
  <1>2. Made(o)
    BY <1>1 DEF Ends
  <1>3. Made(u) /\ u.r = o.r /\ u.hook = o.hook /\ u.post = o.post /\ u.res = o.res
    BY <1>1, <1>2 DEF Made, OutcomeFields
  <1>4. PICK w : w = [e EXCEPT !.o = u]
    BY Zenon
  <1>5. w.o = u /\ w.node = e.node
    BY <1>4
  <1>6. Hook(u, "none") = Hook(o, "none")
    BY <1>3 DEF Hook
  <1>7. Ends(r, w)
    BY <1>1, <1>3, <1>5, <1>6 DEF Ends
  <1>8. [e EXCEPT !.o.used = @ + 1] = w
    BY <1>1, <1>4
  <1> QED BY <1>7, <1>8

LEMMA CompletedIs ==
  ASSUME TypeOK, NEW i, NEW r, Resting(r), NEW cancelled,
         ~closing /\ ~r.deleted => /\ cancelled => r.rearm \/ Dormant(r)
                                   /\ ~cancelled /\ consumes => r.owned,
         NEW e \in Completed(i, r, cancelled)
  PROVE  Ends(r, e)
  <1>0. Stored(r, "none", FALSE) /\ r.poll = "IDLE" /\ ~r.ready /\ Shaped(r) /\ r.interest \in Masks
    BY DEF Resting, Stored
  <1>1. CASE r.deleted
    <2>1. e = NoNode(Outcome(Free, "ok"))
      BY <1>1 DEF Completed
    <2>2. Gives(Outcome(Free, "ok"), Free, "keep", FALSE, "ok") /\ Fine(Free, "none", FALSE, closing)
      BY OutcomeIs, Zenon DEF Fine
    <2>3. Made(e.o) /\ e.o.r = Free /\ e.o.hook \in {"keep", "none"} /\ ~e.o.post /\ e.node = <<>>
      BY <2>1, <2>2 DEF NoNode, Gives
    <2> QED BY <1>1, <2>2, <2>3, EndsQuietly, Zenon
  <1>2. CASE ~r.deleted /\ closing
    <2>1. e = NoNode(Outcome(r, "ok"))
      BY <1>2 DEF Completed
    <2>2. Gives(Outcome(r, "ok"), r, "keep", FALSE, "ok")
      BY OutcomeIs, Zenon
    <2>3. Fine(r, "none", FALSE, closing)
      BY <1>0, <1>2, ShapedLive, Zenon DEF Fine
    <2>4. Made(e.o) /\ e.o.r = r /\ e.o.hook \in {"keep", "none"} /\ ~e.o.post /\ e.node = <<>>
      BY <2>1, <2>2 DEF NoNode, Gives
    <2> QED BY <1>0, <1>2, <2>3, <2>4, EndsQuietly, Zenon
  <1>3. CASE ~r.deleted /\ ~closing /\ cancelled
    <2>1. PICK o \in Submit(i, r) : e = NoNode(Retry(o))
      BY <1>3 DEF Completed
    <2>2. Beside(r, r)
      BY <1>0 DEF Beside
    <2>3. Fine(r, "none", FALSE, closing)
      BY <1>3, <2>2, BesideFine, Zenon
    <2> QED BY <1>0, <1>3, <2>1, <2>3, Resubmitted, Zenon
  <1>4. CASE ~r.deleted /\ ~closing /\ ~cancelled /\ Dormant(r)
    <2>1. PICK x : x = [r EXCEPT !.rearm = FALSE, !.holdoff = FALSE]
      OBVIOUS
    <2>2. Beside(r, x)
      BY <1>0, <2>1, Zenon DEF Beside, Shaped, Fields
    <2>3. Dormant(x)
      BY <1>4, <2>2 DEF Beside, Dormant
    <2>4. e = NoNode(Outcome(x, "ok"))
      BY <1>4, <2>1 DEF Completed
    <2>5. e.o = Outcome(x, "ok") /\ e.node = <<>>
      BY <2>4 DEF NoNode
    <2> QED BY <1>4, <2>2, <2>3, <2>5, BesideEnds
  <1>5. CASE ~r.deleted /\ ~closing /\ ~cancelled /\ ~Dormant(r)
    <2>1. ASSUME NEW level \in SUBSET {"IN", "HUP"}, NEW valid, NEW d \in Deliver(i, r, level, valid)
          PROVE  Ends(r, d)
      BY <1>5, DeliverIs, Zenon
    <2>2. Observation(r) \in SUBSET {"IN", "HUP"}
      BY <1>0 DEF Observation, Level, Masks
    <2>3. CASE e \in Deliver(i, r, Observation(r), TRUE)
      <3>1. PICK level, valid : level = Observation(r) /\ valid = TRUE
        OBVIOUS
      <3> QED BY <2>1, <2>2, <2>3, <3>1, Zenon
    <2>4. CASE \E d \in Deliver(i, r, {}, FALSE) : e = [d EXCEPT !.o.used = @ + 1]
      <3>1. PICK level, valid : level = {} /\ valid = FALSE
        BY Zenon
      <3>2. PICK d \in Deliver(i, r, level, valid) : e = [d EXCEPT !.o.used = @ + 1]
        BY <2>4, <3>1, Zenon
      <3>3. Ends(r, d)
        BY <2>1, <3>1
      <3>4. d = [f \in {"o", "node", "err"} |-> d[f]]
        BY DeliverShaped
      <3> QED BY <3>2, <3>3, <3>4, EndsUsed
    <2> QED BY <1>5, <2>3, <2>4, Zenon DEF Completed
  <1> QED BY <1>1, <1>2, <1>3, <1>4, <1>5, Zenon

(* The wait could not be disarmed: the request stays, or is cancelled when *)
(* nobody is to act on it any more.                                        *)
LEMMA DisarmFailedIs ==
  ASSUME TypeOK, NEW i, NEW r, hook[i] = "none", Stored(r, "none", FALSE), ~r.ready,
         ~closing /\ ~r.deleted => r.poll = "PENDING" /\ (consumes => Conserved(r, "none")),
         NEW e \in DisarmFailed(i, r)
  PROVE  Ends(r, e)
  <1>0. Shaped(r)
    BY DEF Stored
  <1>1. CASE r.deleted \/ closing
    <2>1. PICK c \in Cancel(i, r) :
              /\ e.o = IF ~Failed(c) /\ c.r.poll = "IDLE" /\ r.deleted THEN [c EXCEPT !.r = Free] ELSE c
              /\ e.node = <<>>
      BY <1>1 DEF DisarmFailed
    <2>2. /\ Made(c) /\ ~c.post /\ c.hook \in {"keep", "none"} /\ Same(r, c.r)
      <3>1. Same(r, r)
        BY <1>0, Zenon DEF Same
      <3>2. Made(c) /\ ~c.post /\ c.hook \in {"keep", "none"} /\ (c.r = r \/ Retired(r, c.r))
        BY <1>0, CancelIs
      <3> QED BY <3>1, <3>2, Zenon DEF Retired
    <2>3. PICK d : d = c.r /\ Stored(d, "none", FALSE)
      <3>1. PICK p : p = FALSE
        OBVIOUS
      <3>2. Stored(c.r, Hook(c, hook[i]), p)
        BY <3>1, CancelKeeps, Zenon
      <3>3. Hook(c, hook[i]) = "none"
        BY <2>2 DEF Hook
      <3> QED BY <3>1, <3>2, <3>3, Zenon
    <2>4. CASE ~Failed(c) /\ c.r.poll = "IDLE" /\ r.deleted
      <3>1. e.o = [c EXCEPT !.r = Free]
        BY <2>1, <2>4
      <3>2. Made(e.o) /\ e.o.r = Free /\ e.o.hook = c.hook /\ e.o.post = c.post
        BY <2>2, <3>1 DEF Made, OutcomeFields
      <3>3. Fine(Free, "none", FALSE, closing)
        BY DEF Fine
      <3> QED BY <2>1, <2>2, <2>4, <3>2, <3>3, EndsQuietly, Zenon
    <2>5. CASE ~(~Failed(c) /\ c.r.poll = "IDLE" /\ r.deleted)
      <3>1. e.o = c
        BY <2>1, <2>5, Zenon
      <3>2. Shaped(d) /\ (d.deleted <=> r.deleted) /\ d.gen = r.gen /\ ~d.ready /\ d # Free
        BY <2>2, <2>3, ShapedLive DEF Same
      <3>3. Fine(d, "none", FALSE, closing)
        BY <1>1, <2>3, <3>2, Zenon DEF Fine
      <3> QED BY <2>1, <2>2, <2>3, <3>1, <3>2, <3>3, EndsQuietly, Zenon
    <2> QED BY <2>4, <2>5
  <1>2. CASE ~r.deleted /\ ~closing
    <2>1. PICK x : x = [r EXCEPT !.rearm = TRUE]
      BY Zenon
    <2>2. Beside(r, x) /\ x.rearm = TRUE
      BY <1>0, <2>1, Zenon DEF Beside, Shaped, Fields
    <2>3. e.o = Outcome(x, "ok") /\ e.node = <<>>
      BY <1>2, <2>1, SMTT(30) DEF DisarmFailed
    <2>4. Made(e.o) /\ e.o.r = x /\ e.o.hook = "keep" /\ ~e.o.post
      BY <2>3, OutcomeIs DEF Gives
    <2>5. Stored(x, "none", FALSE) /\ x # Free
      BY <2>2, ShapedLive, Zenon DEF Stored, Beside
    <2>6. Conserved(r, "none") => Conserved(x, "none")
      BY <2>2, Zenon DEF Beside, Conserved
    <2>7. Remembered(x, "none")
      BY <1>2, <2>2 DEF Beside, Remembered
    <2>8. Fine(x, "none", FALSE, closing)
      BY <1>2, <2>2, <2>5, <2>6, <2>7, Zenon DEF Fine, Beside
    <2>9. Shaped(x) /\ ~x.deleted /\ x.gen = r.gen /\ ~x.ready
      BY <1>2, <2>2 DEF Beside
    <2> QED BY <1>2, <2>3, <2>4, <2>8, <2>9, EndsQuietly, Zenon
  <1> QED BY <1>1, <1>2
=============================================================================
