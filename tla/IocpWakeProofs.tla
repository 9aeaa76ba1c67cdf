--------------------------- MODULE IocpWakeProofs ---------------------------
(***************************************************************************)
(* Proofs about IocpWake, for any wakers, callbacks and waiters, any batch *)
(* size, and whether or not posts fail.                                    *)
(***************************************************************************)
EXTENDS IocpWake, FiniteSetTheorems, TLAPS

Kinds == {"UNTAGGED", "TAGGED"}

(* The steps of ep_port_fail_iocp_post before closing is set, and after *)
Failing == {"clear", "load", "error", "closing"}
Revoking == {"revoke", "close"}

TypeOK ==
    /\ postHandle \in BOOLEAN /\ iocpClosed \in BOOLEAN /\ closing \in BOOLEAN
    /\ postErr \in BOOLEAN /\ ready \in BOOLEAN /\ failed \in BOOLEAN /\ reported \in BOOLEAN
    /\ closes \in Nat
    /\ pending \in {"NONE"} \cup Kinds
    /\ event \in Wakers \cup {None}
    /\ owed \in [Wakers -> {"none"} \cup Kinds]
    /\ ppc \in [Posters -> {"idle", "post"} \cup Failing \cup Revoking]
    /\ bpc \in {"none", "post", "close", "done", "finish", "gone"}
    /\ holder \in Waiters \cup {None}
    /\ waiting \subseteq Waiters

(* The post lease is there until it is revoked. *)
Lease == postHandle <=> ~iocpClosed

(* What closes the port: the application, or a poster that has recorded    *)
(* the error before.                                                       *)
ClosedByError ==
    /\ bpc # "none" => closing
    /\ closes > 0 => closing
    /\ wpc = "retake" => closing
    /\ \A p \in Posters : ppc[p] \in Revoking => closing
    /\ bpc = "none" /\ (closing \/ \E p \in Posters : ppc[p] = "closing") => postErr \/ reported

(* A failed port, or one about to fail, never recovers; on any other a     *)
(* pending tagged wake has the payload of a request that is still owed.    *)
Broken == closing \/ \E p \in Posters : ppc[p] \in Failing
Payload == Broken \/ (pending = "TAGGED" => event \in Wakers /\ owed[event] = "TAGGED")

IInv == TypeOK /\ Lease /\ HandleLease /\ ClosedByError /\ ErrorNotMasked /\ Payload /\ WakeNotLost

----------------------------------------------------------------------------
LEMMA OneMore ==
  ASSUME NEW S, NEW x, IsFiniteSet(S), x \notin S
  PROVE  Cardinality(S \cup {x}) = Cardinality(S) + 1
  BY FS_AddElement

LEMMA OneLess ==
  ASSUME NEW S, NEW x, IsFiniteSet(S), x \in S
  PROVE  Cardinality(S \ {x}) = Cardinality(S) - 1 /\ Cardinality(S) # 0
  BY FS_RemoveElement, FS_EmptySet

(* What a wait does, in its turn for wait_lock and with it *)
WaitStep ==
    \/ \E w \in Waiters : WaitEnter(w) \/ WaitLock(w) \/ WaitLockFails(w)
    \/ HolderStep

(* A wait neither touches the handle nor closes the port, nor moves others. *)
LEMMA WaitFrame ==
  ASSUME WaitStep
  PROVE  UNCHANGED <<postHandle, iocpClosed, closes, closing, ppc, bpc>>
  BY Zenon DEF WaitStep, WaitEnter, WaitLock, WaitLockFails, HolderStep, WaitTake, WaitCheck, WaitRetake,
         WaitDrain, WaitLoad, WaitDeadline, WaitDequeue, WaitDequeueFails, WaitAfter, WaitWake,
         WaitExpires, portVars

(* A poster moves itself only, and leaves the waits alone. *)
LEMMA PosterFrame ==
  ASSUME TypeOK, NEW p \in Posters, PosterStep(p)
  PROVE  /\ UNCHANGED <<waitVars, bpc, event>>
         /\ \A q \in Posters \ {p} : ppc'[q] = ppc[q]
         /\ ppc' \in [Posters -> {"idle", "post"} \cup Failing \cup Revoking]
  BY DEF TypeOK, PosterStep, Poster, Post, PostFails, FailLoad, FailError, FailClosing, FailRevoke,
         FailClose, ClearPending, waitVars, wakeVars, Failing, Revoking

(* ep_port_begin_close and the destruction leave posters and waits alone. *)
LEMMA CloserFrame ==
  ASSUME Closer
  PROVE  UNCHANGED <<wakeVars, waitVars, ppc, postErr>>
  BY DEF Closer, CloseStart, ClosePost, ClosePostFails, CloseHandle, FinishDestroy

(* The requests, and the callbacks about to post *)
RequestStep ==
    \/ \E w \in Wakers, kind \in {"UNTAGGED", "TAGGED"} : RequestWake(w, kind)
    \/ \E c \in Callbacks : AuxPost(c)

LEMMA RequestFrame ==
  ASSUME TypeOK, RequestStep
  PROVE  /\ UNCHANGED <<portVars, waitVars, bpc>>
         /\ \E p \in Posters : /\ ppc[p] = "idle"
                               /\ \/ ppc' = [ppc EXCEPT ![p] = "post"]
                                  \/ ppc' = [ppc EXCEPT ![p] = "idle"]
  BY DEF RequestStep, RequestWake, AuxPost, Posters, TypeOK

(* A wait's return, and its way to the next step *)
LEMMA ReturnFrame ==
  ASSUME NEW r, Return(r)
  PROVE  holder' = None /\ failed' \in BOOLEAN /\ reported' \in BOOLEAN /\ (reported => reported')
  <1> DEFINE closed == r \in {"EBADF", "abandoned"}
             told == reported \/ r = "post error"
  <1>1. closed \in BOOLEAN /\ told \in BOOLEAN
    OBVIOUS
  <1>2. failed' = closed /\ reported' = told /\ holder' = None
    BY Zenon DEF Return
  <1> QED BY <1>1, <1>2, Zenon

LEMMA GotoFrame ==
  ASSUME NEW label, Goto(label)
  PROVE  UNCHANGED <<holder, failed, reported>>
  BY DEF Goto

(* What both leave of the wait, and of the port *)
Held == holder \in Waiters \cup {None} /\ failed \in BOOLEAN /\ reported \in BOOLEAN

LEMMA HeldTyped ==
  ASSUME TypeOK
  PROVE  /\ \A r : Return(r) => Held'
         /\ \A label : Goto(label) => Held'
         /\ TakePostError => postErr' \in BOOLEAN /\ Held'
  <1>1. ASSUME NEW r, Return(r) PROVE Held'
    BY <1>1, ReturnFrame, Zenon DEF Held
  <1>2. ASSUME NEW label, Goto(label) PROVE Held'
    BY <1>2, GotoFrame, Zenon DEF Held, TypeOK
  <1>3. TakePostError => postErr' \in BOOLEAN /\ Held'
    BY <1>1, Zenon DEF TakePostError
  <1> QED BY <1>1, <1>2, <1>3, Zenon

LEMMA StepTyped ==
  ASSUME TypeOK, Held', postErr' \in BOOLEAN, ready' \in BOOLEAN,
         UNCHANGED <<postHandle, iocpClosed, closes, closing, wakeVars, waiting, ppc, bpc>>
  PROVE  TypeOK'
  BY Zenon DEF TypeOK, Held, wakeVars

LEMMA NextCases ==
  Next <=> RequestStep \/ (\E p \in Posters : PosterStep(p)) \/ Closer \/ WaitStep
  BY DEF Next, RequestStep, WaitStep

----------------------------------------------------------------------------
LEMMA TypeNext == TypeOK /\ [Next]_vars => TypeOK'
  <1> SUFFICES ASSUME TypeOK, [Next]_vars PROVE TypeOK'
    OBVIOUS
  <1>1. CASE UNCHANGED vars
    BY <1>1 DEF vars, portVars, wakeVars, waitVars, TypeOK
  <1>2. CASE RequestStep
    <2>1. ASSUME NEW w \in Wakers, NEW kind \in {"UNTAGGED", "TAGGED"}, RequestWake(w, kind)
          PROVE  TypeOK'
      BY <2>1 DEF RequestWake, Merged, portVars, waitVars, TypeOK, Kinds, Posters
    <2>2. ASSUME NEW c \in Callbacks, AuxPost(c) PROVE TypeOK'
      BY <2>2 DEF AuxPost, portVars, wakeVars, waitVars, TypeOK, Posters
    <2> QED BY <1>2, <2>1, <2>2 DEF RequestStep
  <1>3. ASSUME NEW p \in Posters, PosterStep(p) PROVE TypeOK'
    <2>1. /\ UNCHANGED <<waitVars, bpc, event>>
          /\ ppc' \in [Posters -> {"idle", "post"} \cup Failing \cup Revoking]
      BY <1>3, PosterFrame
    <2>2. CASE Post(p) \/ FailLoad(p)
      BY <2>1, <2>2 DEF Post, FailLoad, portVars, wakeVars, waitVars, TypeOK
    <2>3. CASE FailError(p)
      BY <2>1, <2>3, Zenon DEF FailError, wakeVars, waitVars, TypeOK
    <2>4. CASE FailClosing(p)
      BY <2>1, <2>4, Zenon DEF FailClosing, wakeVars, waitVars, TypeOK
    <2>5. CASE FailRevoke(p)
      BY <2>1, <2>5, Zenon DEF FailRevoke, wakeVars, waitVars, TypeOK
    <2>6. CASE PostFails(p) \/ ClearPending(p)
      BY <2>1, <2>6 DEF PostFails, ClearPending, portVars, waitVars, TypeOK
    <2>7. CASE FailClose(p)
      BY <2>1, <2>7 DEF FailClose, wakeVars, waitVars, TypeOK
    <2> QED BY <1>3, <2>2, <2>3, <2>4, <2>5, <2>6, <2>7 DEF PosterStep, Poster
  <1>4. CASE Closer
    <2>1. CASE CloseStart \/ ClosePost \/ ClosePostFails
      BY <2>1, Zenon DEF CloseStart, ClosePost, ClosePostFails, wakeVars, waitVars, TypeOK
    <2>2. CASE CloseHandle
      BY <2>2 DEF CloseHandle, wakeVars, waitVars, TypeOK
    <2>3. CASE FinishDestroy
      BY <2>3, Zenon DEF FinishDestroy, wakeVars, waitVars, TypeOK
    <2> QED BY <1>4, <2>1, <2>2, <2>3 DEF Closer
  <1>5. CASE WaitStep
    <2>1. ASSUME NEW w \in Waiters, WaitEnter(w) \/ WaitLock(w) \/ WaitLockFails(w) PROVE TypeOK'
      BY <2>1, Zenon DEF WaitEnter, WaitLock, WaitLockFails, portVars, wakeVars, TypeOK
    <2>2. ready \in BOOLEAN /\ postErr \in BOOLEAN
      BY DEF TypeOK
    <2> USE HeldTyped, StepTyped DEF portVars
    <2>3. CASE WaitTake \/ WaitRetake
      BY <2>2, <2>3, Zenon DEF WaitTake, WaitRetake
    <2>4. CASE WaitCheck
      BY <2>2, <2>4, Zenon DEF WaitCheck
    <2>5. CASE WaitDrain
      BY <2>2, <2>5, Zenon DEF WaitDrain
    <2>6. CASE WaitLoad \/ WaitDeadline
      BY <2>2, <2>6, Zenon DEF WaitLoad, WaitDeadline
    <2>7. ASSUME NEW n \in 1..Batch, WaitDequeue(n) PROVE TypeOK'
      <3>1. ready' \in BOOLEAN
        BY <2>2, <2>7, Zenon DEF WaitDequeue
      <3> QED BY <2>2, <2>7, <3>1, Zenon DEF WaitDequeue
    <2>8. CASE WaitDequeueFails
      BY <2>2, <2>8, Zenon DEF WaitDequeueFails
    <2>9. CASE WaitAfter
      BY <2>2, <2>9, Zenon DEF WaitAfter
    <2>10. CASE WaitWake
      BY <2>10, Zenon DEF WaitWake, Held, TypeOK
    <2>11. CASE WaitExpires
      BY <2>2, <2>11, Zenon DEF WaitExpires
    <2> QED
      BY <1>5, <2>1, <2>3, <2>4, <2>5, <2>6, <2>7, <2>8, <2>9, <2>10, <2>11 DEF WaitStep, HolderStep
  <1> QED BY <1>1, <1>2, <1>3, <1>4, <1>5, NextCases

----------------------------------------------------------------------------
(* The handle: who may close it *)
Closing == {p \in Posters : ppc[p] = "close"}

LEMMA ClosingFinite == IsFiniteSet(Closing) /\ Cardinality(Closing) \in Nat
  <1>1. Closing \subseteq Posters
    BY DEF Closing
  <1> QED BY <1>1, FS_Subset, FS_CardinalityType, PostersFinite

(* Steps that leave the handle and its owners as they are *)
LEMMA SameLease ==
  ASSUME Lease, HandleLease, UNCHANGED <<postHandle, iocpClosed, closes>>, Closing' = Closing,
         bpc' \in {"close", "finish"} <=> bpc \in {"close", "finish"}
  PROVE  Lease' /\ HandleLease'
  BY DEF Lease, HandleLease, Closing

LEMMA LeaseNext == TypeOK /\ Lease /\ HandleLease /\ [Next]_vars => Lease' /\ HandleLease'
  <1> SUFFICES ASSUME TypeOK, Lease, HandleLease, [Next]_vars PROVE Lease' /\ HandleLease'
    OBVIOUS
  <1>1. CASE UNCHANGED vars
    BY <1>1, SameLease DEF vars, portVars, Closing
  <1>2. CASE RequestStep
    <2>1. Closing' = Closing
      BY <1>2, RequestFrame DEF Closing, TypeOK
    <2> QED BY <1>2, <2>1, RequestFrame, SameLease DEF portVars
  <1>3. CASE WaitStep
    BY <1>3, WaitFrame, SameLease DEF Closing
  <1>4. ASSUME NEW p \in Posters, PosterStep(p) PROVE Lease' /\ HandleLease'
    <2>0. bpc' = bpc /\ \A q \in Posters \ {p} : ppc'[q] = ppc[q]
      BY <1>4, PosterFrame
    <2>1. CASE /\ ppc[p] # "close" /\ ppc'[p] # "close"
               /\ UNCHANGED <<postHandle, iocpClosed, closes>>
      <3>1. Closing' = Closing
        BY <2>0, <2>1 DEF Closing
      <3> QED BY <2>0, <2>1, <3>1, SameLease
    <2>2. CASE Post(p) \/ PostFails(p) \/ FailLoad(p) \/ FailError(p) \/ FailClosing(p)
               \/ ClearPending(p)
      BY <2>1, <2>2 DEF Post, PostFails, FailLoad, FailError, FailClosing, ClearPending, TypeOK,
                        portVars
    <2>3. CASE FailRevoke(p) /\ ~iocpClosed
      <3>1. /\ postHandle /\ ~postHandle' /\ iocpClosed' /\ closes' = closes
            /\ ppc[p] # "close" /\ ppc'[p] = "close"
        BY <2>3 DEF FailRevoke, RevokeOwns, Lease, TypeOK
      <3>2. Closing' = Closing \cup {p} /\ p \notin Closing
        BY <2>0, <3>1 DEF Closing
      <3>3. Cardinality(Closing') = Cardinality(Closing) + 1
        BY <3>2, ClosingFinite, OneMore
      <3>4. Lease'
        BY <3>1 DEF Lease
      <3>5. HandleLease'
        BY <2>0, <3>1, <3>3, ClosingFinite DEF HandleLease, TypeOK, Closing
      <3> QED BY <3>4, <3>5
    <2>4. CASE FailRevoke(p) /\ iocpClosed
      BY <2>1, <2>4, Zenon DEF FailRevoke, RevokeOwns, Lease, TypeOK
    <2>5. CASE FailClose(p)
      <3>1. /\ UNCHANGED <<postHandle, iocpClosed>> /\ closes' = closes + 1
            /\ ppc[p] = "close" /\ ppc'[p] = "idle"
        BY <2>5 DEF FailClose, TypeOK
      <3>2. Closing' = Closing \ {p} /\ p \in Closing
        BY <2>0, <3>1 DEF Closing
      <3>3. Cardinality(Closing') = Cardinality(Closing) - 1
        BY <3>2, ClosingFinite, OneLess
      <3>4. Lease'
        BY <3>1 DEF Lease
      <3>5. HandleLease'
        BY <2>0, <3>1, <3>3, ClosingFinite DEF HandleLease, TypeOK, Closing
      <3> QED BY <3>4, <3>5
    <2> QED BY <1>4, <2>2, <2>3, <2>4, <2>5 DEF PosterStep, Poster
  <1>5. CASE Closer
    <2>1. Closing' = Closing
      BY <1>5, CloserFrame DEF Closing
    <2>2. CASE CloseStart \/ ClosePost
      BY <2>1, <2>2, SameLease DEF CloseStart, ClosePost
    <2>3. CASE ClosePostFails \/ CloseHandle \/ FinishDestroy
      <3>1. Lease'
        BY <2>3 DEF ClosePostFails, CloseHandle, FinishDestroy, Lease
      <3>2. HandleLease'
        <4>0. Cardinality(Closing') = Cardinality(Closing) /\ Cardinality(Closing) \in Nat
          BY <2>1, ClosingFinite
        <4>1. CASE ClosePostFails
          BY <4>0, <4>1 DEF ClosePostFails, HandleLease, TypeOK, Closing
        <4>2. CASE CloseHandle
          BY <4>0, <4>2 DEF CloseHandle, HandleLease, TypeOK, Closing
        <4>3. CASE FinishDestroy
          BY <4>0, <4>3 DEF FinishDestroy, RevokeOwns, Lease, HandleLease, TypeOK, Closing
        <4> QED BY <2>3, <4>1, <4>2, <4>3
      <3> QED BY <3>1, <3>2
    <2> QED BY <1>5, <2>2, <2>3 DEF Closer
  <1> QED BY <1>1, <1>2, <1>3, <1>4, <1>5, NextCases

----------------------------------------------------------------------------
(* The error is recorded before closing is set, and whoever takes it       *)
(* reports it.                                                             *)
LEMMA ErrorNext ==
  TypeOK /\ ClosedByError /\ ErrorNotMasked /\ [Next]_vars => ClosedByError' /\ ErrorNotMasked'
  <1> SUFFICES ASSUME TypeOK, ClosedByError, ErrorNotMasked, [Next]_vars
               PROVE  ClosedByError' /\ ErrorNotMasked'
    OBVIOUS
  <1>1. CASE UNCHANGED vars
    BY <1>1 DEF vars, portVars, waitVars, ClosedByError, ErrorNotMasked
  <1>2. CASE RequestStep
    <2>1. \A p \in Posters : ppc'[p] \in Revoking \cup {"closing"} => ppc'[p] = ppc[p]
      BY <1>2, RequestFrame DEF TypeOK, Revoking
    <2> QED BY <1>2, <2>1, RequestFrame DEF portVars, waitVars, ClosedByError, ErrorNotMasked, Revoking
  <1>3. ASSUME NEW p \in Posters, PosterStep(p) PROVE ClosedByError' /\ ErrorNotMasked'
    <2>0. /\ UNCHANGED <<waitVars, bpc>> /\ \A q \in Posters \ {p} : ppc'[q] = ppc[q]
      BY <1>3, PosterFrame
    <2>1. ErrorNotMasked'
      BY <2>0 DEF waitVars, ErrorNotMasked
    <2>2. CASE Post(p) \/ PostFails(p) \/ FailLoad(p) \/ ClearPending(p)
      <3>1. UNCHANGED <<closing, postErr, closes>> /\ ppc'[p] \notin Revoking \cup {"closing"}
        BY <2>2 DEF Post, PostFails, FailLoad, ClearPending, TypeOK, portVars, Revoking
      <3>2. ClosedByError'
        BY <2>0, <3>1 DEF waitVars, ClosedByError, Revoking
      <3> QED BY <2>1, <3>2
    <2>3. CASE FailError(p)
      <3>1. UNCHANGED <<closing, closes>> /\ postErr' /\ ppc'[p] = "closing"
        BY <2>3 DEF FailError, TypeOK
      <3>2. ClosedByError'
        BY <2>0, <3>1 DEF waitVars, ClosedByError, Revoking
      <3> QED BY <2>1, <3>2
    <2>4. CASE FailClosing(p)
      <3>1. closing' /\ UNCHANGED <<postErr, closes>> /\ ppc[p] = "closing"
        BY <2>4 DEF FailClosing
      <3>2. ClosedByError'
        BY <2>0, <3>1 DEF waitVars, ClosedByError
      <3> QED BY <2>1, <3>2
    <2>5. CASE FailRevoke(p) \/ FailClose(p)
      <3>1. UNCHANGED <<closing, postErr>> /\ closing /\ ppc'[p] # "closing"
        BY <2>5 DEF FailRevoke, FailClose, TypeOK, ClosedByError, Revoking
      <3>2. ClosedByError'
        BY <2>0, <3>1 DEF waitVars, ClosedByError
      <3> QED BY <2>1, <3>2
    <2> QED BY <1>3, <2>2, <2>3, <2>4, <2>5 DEF PosterStep, Poster
  <1>4. CASE Closer
    <2>1. UNCHANGED <<waitVars, ppc, postErr>>
      BY <1>4, CloserFrame
    <2>2. closing' /\ bpc' # "none"
      BY <1>4 DEF Closer, CloseStart, ClosePost, ClosePostFails, CloseHandle, FinishDestroy,
                  ClosedByError
    <2> QED BY <2>1, <2>2 DEF waitVars, ClosedByError, ErrorNotMasked
  <1>5. CASE WaitStep
    <2>0. UNCHANGED <<closes, closing, ppc, bpc>>
      BY <1>5, WaitFrame
    <2>1. (postErr \/ reported => postErr' \/ reported') /\ (reported => reported')
      <3>1. ASSUME NEW w \in Waiters, WaitEnter(w) \/ WaitLock(w) \/ WaitLockFails(w)
            PROVE  postErr' = postErr /\ (reported => reported')
        BY <3>1, Zenon DEF WaitEnter, WaitLock, WaitLockFails, portVars
      <3>2. CASE HolderStep
        <4>1. CASE WaitTake \/ WaitRetake
          BY <4>1, Zenon DEF WaitTake, WaitRetake, TakePostError, Return, Goto
        <4>2. CASE WaitCheck \/ WaitDrain \/ WaitLoad \/ WaitDeadline
          <5>1. postErr' = postErr
            BY <4>2, Zenon DEF WaitCheck, WaitDrain, WaitLoad, WaitDeadline, portVars
          <5>2. reported => reported'
            BY <4>2, ReturnFrame, GotoFrame, Zenon DEF WaitCheck, WaitDrain, WaitLoad, WaitDeadline
          <5> QED BY <5>1, <5>2
        <4>3. CASE WaitDequeueFails \/ WaitAfter
          BY <4>3, Zenon DEF WaitDequeueFails, WaitAfter, TakePostError, Return, Goto
        <4>4. CASE WaitWake \/ WaitExpires
          <5>1. postErr' = postErr
            BY <4>4, Zenon DEF WaitWake, WaitExpires, portVars
          <5>2. reported => reported'
            BY <4>4, ReturnFrame, GotoFrame, Zenon DEF WaitWake, WaitExpires
          <5> QED BY <5>1, <5>2
        <4>5. ASSUME NEW n \in 1..Batch, WaitDequeue(n) PROVE UNCHANGED <<postErr, reported>>
          BY <4>5 DEF WaitDequeue, Goto
        <4> QED BY <3>2, <4>1, <4>2, <4>3, <4>4, <4>5 DEF HolderStep
      <3> QED BY <1>5, <3>1, <3>2 DEF WaitStep
    <2>2. wpc' = "retake" => closing
      <3>1. ASSUME NEW w \in Waiters, WaitEnter(w) \/ WaitLock(w) \/ WaitLockFails(w)
            PROVE  wpc' = wpc \/ wpc' = "take"
        BY <3>1 DEF WaitEnter, WaitLock, WaitLockFails
      <3>2. CASE HolderStep
        <4>1. CASE WaitCheck
          BY <4>1, Zenon DEF WaitCheck, Goto
        <4>2. CASE WaitTake \/ WaitRetake \/ WaitDrain \/ WaitLoad \/ WaitDeadline
          BY <4>2 DEF WaitTake, WaitRetake, WaitDrain, WaitLoad, WaitDeadline, TakePostError, Return,
                      Goto
        <4>3. CASE WaitDequeueFails \/ WaitAfter \/ WaitWake \/ WaitExpires
          BY <4>3 DEF WaitDequeueFails, WaitAfter, WaitWake, WaitExpires, TakePostError, Return, Goto
        <4>4. ASSUME NEW n \in 1..Batch, WaitDequeue(n) PROVE wpc' = "after"
          BY <4>4 DEF WaitDequeue, Goto
        <4> QED BY <3>2, <4>1, <4>2, <4>3, <4>4 DEF HolderStep
      <3> QED BY <1>5, <3>1, <3>2 DEF WaitStep, ClosedByError
    <2>3. ClosedByError'
      BY <2>0, <2>1, <2>2 DEF ClosedByError
    <2>4. failed' => failed \/ (closing /\ ~postErr)
      <3>1. ASSUME NEW w \in Waiters, WaitEnter(w) \/ WaitLock(w) \/ WaitLockFails(w)
            PROVE  failed' => failed \/ (closing /\ ~postErr)
        BY <3>1, Zenon DEF WaitEnter, WaitLock, WaitLockFails
      <3>2. CASE HolderStep
        <4>1. CASE WaitRetake \/ WaitDequeueFails
          BY <4>1, Zenon DEF WaitRetake, WaitDequeueFails, TakePostError, Return, Goto, ClosedByError
        <4>2. CASE ~(WaitRetake \/ WaitDequeueFails)
          BY <3>2, <4>2, Zenon DEF HolderStep, WaitTake, WaitCheck, WaitDrain, WaitLoad, WaitDeadline,
             WaitDequeue, WaitAfter, WaitWake, WaitExpires, TakePostError, Return, Goto
        <4> QED BY <4>1, <4>2
      <3> QED BY <1>5, <3>1, <3>2 DEF WaitStep
    <2>5. ErrorNotMasked'
      BY <2>0, <2>1, <2>4 DEF ClosedByError, ErrorNotMasked
    <2> QED BY <2>3, <2>5
  <1> QED BY <1>1, <1>2, <1>3, <1>4, <1>5, NextCases

----------------------------------------------------------------------------
(* A port that has failed, or is about to, stays so. *)
LEMMA BrokenStays ==
  ASSUME TypeOK, Broken, [Next]_vars
  PROVE  Broken'
  <1>1. CASE UNCHANGED vars
    BY <1>1 DEF vars, portVars, Broken
  <1>2. CASE RequestStep
    BY <1>2, RequestFrame DEF portVars, Broken, TypeOK, Failing
  <1>3. CASE WaitStep
    BY <1>3, WaitFrame DEF Broken
  <1>4. CASE Closer
    BY <1>4 DEF Closer, CloseStart, ClosePost, ClosePostFails, CloseHandle, FinishDestroy, Broken
  <1>5. ASSUME NEW p \in Posters, PosterStep(p) PROVE Broken'
    <2>1. \A q \in Posters \ {p} : ppc'[q] = ppc[q]
      BY <1>5, PosterFrame
    <2>2. closing => closing'
      BY <1>5, Zenon DEF PosterStep, Poster, Post, PostFails, FailLoad, FailError, FailClosing, FailRevoke,
                  FailClose, ClearPending, portVars
    <2>3. ppc[p] \in Failing => ppc'[p] \in Failing \/ closing'
      BY <1>5 DEF PosterStep, Poster, Post, PostFails, FailLoad, FailError, FailClosing, FailRevoke,
                  FailClose, ClearPending, portVars, TypeOK, Failing
    <2> QED BY <2>1, <2>2, <2>3 DEF Broken
  <1> QED BY <1>1, <1>2, <1>3, <1>4, <1>5, NextCases

(* The wake state of a port that is not broken *)
Owed ==
    /\ \A w \in Wakers : owed[w] # "none" => pending # "NONE"
    /\ \A w \in Wakers : owed[w] = "TAGGED" => pending = "TAGGED"
    /\ pending = "TAGGED" => event \in Wakers /\ owed[event] = "TAGGED"

LEMMA OwedForm == Payload /\ WakeNotLost <=> Broken \/ Owed
  BY DEF Payload, WakeNotLost, Broken, Owed, Failing

LEMMA WakeNext == TypeOK /\ Payload /\ WakeNotLost /\ [Next]_vars => Payload' /\ WakeNotLost'
  <1> SUFFICES ASSUME TypeOK, Broken \/ Owed, [Next]_vars PROVE Broken' \/ Owed'
    BY OwedForm DEF Payload, WakeNotLost, Broken, Owed, Failing
  <1>0. SUFFICES ASSUME Owed PROVE Broken' \/ Owed'
    BY BrokenStays
  <1>1. CASE UNCHANGED wakeVars
    BY <1>0, <1>1 DEF wakeVars, Owed
  <1>2. ASSUME NEW w \in Wakers, NEW kind \in {"UNTAGGED", "TAGGED"}, RequestWake(w, kind)
        PROVE  Owed'
    BY <1>0, <1>2 DEF RequestWake, Merged, Owed, TypeOK, Kinds
  <1>3. ASSUME NEW p \in Posters, PosterStep(p) PROVE Broken' \/ Owed'
    <2>1. CASE PostFails(p) \/ ClearPending(p)
      <3>1. ppc'[p] \in Failing
        BY <2>1 DEF PostFails, ClearPending, TypeOK, Failing
      <3> QED BY <3>1 DEF Broken
    <2>2. CASE ~(PostFails(p) \/ ClearPending(p))
      BY <1>1, <1>3, <2>2 DEF PosterStep, Poster, Post, FailLoad, FailError, FailClosing, FailRevoke,
                              FailClose
    <2> QED BY <2>1, <2>2
  <1>4. CASE WaitWake
    BY <1>4, Zenon DEF WaitWake, Owed
  <1>5. CASE WaitStep /\ ~WaitWake
    <2>1. UNCHANGED wakeVars
      BY <1>5, Zenon DEF WaitStep, WaitEnter, WaitLock, WaitLockFails, HolderStep, WaitTake, WaitCheck,
         WaitRetake, WaitDrain, WaitLoad, WaitDeadline, WaitDequeue, WaitDequeueFails, WaitAfter,
         WaitExpires
    <2> QED BY <1>1, <2>1
  <1>6. ASSUME NEW c \in Callbacks, AuxPost(c) PROVE Owed'
    BY <1>0, <1>6 DEF AuxPost, wakeVars, Owed
  <1> QED BY <1>1, <1>2, <1>3, <1>4, <1>5, <1>6, NextCases, CloserFrame DEF RequestStep, vars

----------------------------------------------------------------------------
LEMMA InitIInv == Init => IInv
  <1> SUFFICES ASSUME Init PROVE IInv
    OBVIOUS
  <1>1. TypeOK /\ Lease
    BY Zenon DEF Init, TypeOK, Lease
  <1>2. ClosedByError /\ ErrorNotMasked
    BY DEF Init, ClosedByError, ErrorNotMasked, Revoking
  <1>3. HandleLease
    <2>1. {p \in Posters : ppc[p] = "close"} = {}
      BY DEF Init
    <2>2. Cardinality({p \in Posters : ppc[p] = "close"}) = 0
      BY <2>1, FS_EmptySet
    <2> QED BY <2>2 DEF Init, HandleLease
  <1>4. Payload /\ WakeNotLost
    BY DEF Init, Payload, WakeNotLost
  <1> QED BY <1>1, <1>2, <1>3, <1>4 DEF IInv

(* The three properties of the port, with what makes them inductive *)
THEOREM PortInvariant == Spec => []IInv
  <1>1. IInv /\ [Next]_vars => IInv'
    BY TypeNext, LeaseNext, ErrorNext, WakeNext DEF IInv
  <1> QED BY <1>1, InitIInv, PTL DEF Spec

(* The completion port's handle is closed once, by the one thread that     *)
(* revoked the post lease, and no post can use it afterwards               *)
(* (ep_port_post_iocp, ep_port_revoke_iocp_posts).                         *)
THEOREM HandleClosedOnce == Spec => []HandleLease
  <1>1. IInv => HandleLease
    BY DEF IInv
  <1> QED BY <1>1, PortInvariant, PTL

(* An accepted wake stays pending until a wait returns for it, and a       *)
(* tagged one is not reduced to an untagged, unless the port fails         *)
(* (ep_port_request_wake, ep_port_take_wake, ep_port_fail_iocp_post).      *)
THEOREM WakesKept == Spec => []WakeNotLost
  <1>1. IInv => WakeNotLost
    BY DEF IInv
  <1> QED BY <1>1, PortInvariant, PTL

(* A port that failed is reported as failed before any wait calls it       *)
(* closed (ep_port_fail_iocp_post, ep_port_take_iocp_post_error).          *)
THEOREM ErrorReportedFirst == Spec => []ErrorNotMasked
  <1>1. IInv => ErrorNotMasked
    BY DEF IInv
  <1> QED BY <1>1, PortInvariant, PTL
=============================================================================
