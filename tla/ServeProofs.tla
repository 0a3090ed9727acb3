---------------------------- MODULE ServeProofs ----------------------------
(* What is proved of the watch primitives (WatchState, WatchQueue), of the   *)
(* objects of a subgroup, of a track and of a broadcast (SubgroupObjects,    *)
(* Track, Tracks), and of the serve library as MCServe runs it: what is      *)
(* proved of a part, here or in SubgroupsProofs and DatagramsProofs, holds   *)
(* of the whole, in which the other parts rest.                              *)
EXTENDS MCServe, SequenceTheorems, TLAPS

(* Type correctness of the cell and of every waiter (state.rs).            *)
THEOREM TypeCorrect == Spec => []TypeOK
<1>1. Init => TypeOK
  BY WatchAssumption DEF Init, TypeOK, Waker
<1>2. TypeOK /\ [Next]_vars => TypeOK'
  <2> SUFFICES ASSUME TypeOK, [Next]_vars PROVE TypeOK'
    OBVIOUS
  <2> USE DEF TypeOK, Waker, cell, task
  <2>1. ASSUME NEW h \in Halves, LockMut(h) PROVE TypeOK'
    BY <2>1 DEF LockMut, Mutate, Notify
  <2>2. ASSUME NEW h \in Halves, IntoMutClosed(h) PROVE TypeOK'
    BY <2>2 DEF IntoMutClosed, Mutate, Notify
  <2>3. ASSUME NEW h \in Halves, CloneHandle(h) PROVE TypeOK'
    BY <2>3 DEF CloneHandle
  <2>4. ASSUME NEW h \in Halves, DropHandle(h) PROVE TypeOK'
    <3>1. clones' \in [Halves -> Nat]
      BY <2>4 DEF DropHandle
    <3>2. CASE clones[h] = 1
      <4>1. live' \in BOOLEAN
        BY <2>4, <3>2 DEF DropHandle
      <4>2. Notify
        BY <2>4, <3>2 DEF DropHandle
      <4>3. epoch' \in Nat /\ wakers' \in [Waker -> Nat] /\ scheduled' \in [Waiters -> BOOLEAN]
        BY <4>2 DEF Notify
      <4> QED
        BY <2>4, <3>1, <4>1, <4>3 DEF DropHandle
    <3>3. CASE clones[h] # 1
      BY <2>4, <3>1, <3>3 DEF DropHandle
    <3> QED
      BY <3>2, <3>3
  <2>5. ASSUME NEW w \in Waiters, Modified(w) PROVE TypeOK'
    BY <2>5 DEF Modified
  <2>6. ASSUME NEW w \in Waiters, NEW g \in Gens, Poll(w, g) PROVE TypeOK'
    BY <2>6 DEF Poll, Register
  <2>7. CASE UNCHANGED vars
    BY <2>7 DEF vars
  <2> QED
    BY <2>1, <2>2, <2>3, <2>4, <2>5, <2>6, <2>7
       DEF Next, FirstPoll, WokenPoll, SpuriousPoll
<1> QED
  BY <1>1, <1>2, PTL DEF Spec

(* The cell is open exactly while both halves of split() have a handle.     *)
THEOREM LiveCorrect == Spec => []LiveIffBothHalves
<1>1. Init => LiveIffBothHalves
  BY DEF Init, LiveIffBothHalves
<1>2. TypeOK /\ LiveIffBothHalves /\ [Next]_vars => LiveIffBothHalves'
  <2> SUFFICES ASSUME TypeOK, LiveIffBothHalves, [Next]_vars PROVE LiveIffBothHalves'
    OBVIOUS
  <2> USE DEF TypeOK, LiveIffBothHalves, cell, task
  <2>1. ASSUME NEW h \in Halves, CloneHandle(h) PROVE LiveIffBothHalves'
    BY <2>1 DEF CloneHandle
  <2>2. ASSUME NEW h \in Halves, DropHandle(h) PROVE LiveIffBothHalves'
    BY <2>2 DEF DropHandle
  <2>3. CASE UNCHANGED <<live, clones>>
    BY <2>3
  <2> QED
    BY <2>1, <2>2, <2>3
       DEF Next, vars, LockMut, IntoMutClosed, Mutate, Modified, FirstPoll,
           WokenPoll, SpuriousPoll, Poll
<1> QED
  BY <1>1, <1>2, TypeCorrect, PTL DEF Spec

(* At most one entry per waker, however often a pending future is polled.   *)
THEOREM WakersCorrect == Spec => []WakersBounded
<1>1. Init => WakersBounded
  BY DEF Init, WakersBounded
<1>2. TypeOK /\ WakersBounded /\ [Next]_vars => WakersBounded'
  <2> SUFFICES ASSUME TypeOK, WakersBounded, [Next]_vars PROVE WakersBounded'
    OBVIOUS
  <2> USE DEF TypeOK, WakersBounded, Waker, cell, task
  <2>1. CASE wakers' = [x \in Waker |-> 0]
    BY <2>1
  <2>2. CASE UNCHANGED wakers
    BY <2>2
  <2>3. ASSUME NEW w \in Waiters, NEW g \in Gens, Register(w, g) PROVE WakersBounded'
    BY <2>3 DEF Register
  <2> QED
    BY <2>1, <2>2, <2>3
       DEF Next, vars, LockMut, IntoMutClosed, Mutate, Notify, CloneHandle, DropHandle,
           Modified, FirstPoll, WokenPoll, SpuriousPoll, Poll
<1> QED
  BY <1>1, <1>2, TypeCorrect, PTL DEF Spec

-----------------------------------------------------------------------------
(* WaitersCurrent is inductive relative to the type invariant.             *)

LEMMA NotifyKeepsWaiters ==
  ASSUME TypeOK, WaitersCurrent, Notify, UNCHANGED task
  PROVE  WaitersCurrent'
<1> SUFFICES ASSUME NEW w \in Waiters
    PROVE /\ at[w] <= epoch + 1
          /\ at[w] # epoch + 1
          /\ pc[w] = "parked" => scheduled[w] \/ wakers[<<w, gen[w]>>] > 0 \/ at[w] = epoch + 1
  <2> epoch' = epoch + 1 /\ at' = at /\ pc' = pc /\ seen' = seen /\ gen' = gen
    BY DEF Notify, task
  <2> \A w \in Waiters : scheduled'[w] = (scheduled[w] \/ wakers[<<w, gen[w]>>] > 0)
    BY DEF Notify
  <2> QED
    BY DEF WaitersCurrent
<1> QED
  BY DEF WaitersCurrent, TypeOK

LEMMA PollKeepsWaiters ==
  ASSUME TypeOK, WaitersCurrent, NEW w \in Waiters, NEW g \in Gens,
         pc[w] \in {"polling", "parked"}, Poll(w, g)
  PROVE  WaitersCurrent'
<1> SUFFICES ASSUME NEW v \in Waiters
    PROVE (/\ at[v] <= epoch
           /\ pc[v] \in {"polling", "parked"} /\ at[v] = epoch => seen[v] = version /\ live
           /\ pc[v] = "parked" /\ ~scheduled[v] => at[v] = epoch /\ wakers[<<v, gen[v]>>] > 0)'
  BY DEF WaitersCurrent
<1> USE DEF TypeOK, WaitersCurrent, Poll, Register, Waker
<1>1. CASE v = w /\ epoch > at[w]
  BY <1>1
<1>2. CASE v = w /\ ~(epoch > at[w])
  <2>1. at[w] = epoch
    <3> at[w] \in Nat /\ epoch \in Nat /\ at[w] <= epoch
      OBVIOUS
    <3> QED
      BY <1>2
  <2>3. pc'[w] = "parked" /\ gen'[w] = g
    BY <1>2
  <2>2. wakers'[<<w, g>>] > 0
    BY <1>2
  <2> QED
    BY <1>2, <2>1, <2>2, <2>3
<1>3. CASE v # w
  <2>1. wakers'[<<v, gen[v]>>] = wakers[<<v, gen[v]>>]
    BY <1>3
  <2> QED
    BY <1>3, <2>1
<1> QED
  BY <1>1, <1>2, <1>3

(* The argument behind NoLostWakeup: the three facts that tie a waiter's    *)
(* future to the cell hold in every reachable state.                        *)
THEOREM WaitersCorrect == Spec => []WaitersCurrent
<1>1. Init => WaitersCurrent
  <2> SUFFICES ASSUME Init PROVE WaitersCurrent
    OBVIOUS
  <2>1. \A w \in Waiters : at[w] = 0 /\ epoch = 0 /\ pc[w] = "running"
    BY DEF Init
  <2>2. ASSUME NEW w \in Waiters PROVE at[w] <= epoch
    <3> at[w] = 0 /\ epoch = 0
      BY <2>1
    <3> QED
      OBVIOUS
  <2>3. \A w \in Waiters : pc[w] # "polling" /\ pc[w] # "parked"
    BY <2>1
  <2> QED
    BY <2>2, <2>3, Zenon DEF WaitersCurrent
<1>2. TypeOK /\ WaitersCurrent /\ [Next]_vars => WaitersCurrent'
  <2> SUFFICES ASSUME TypeOK, WaitersCurrent, [Next]_vars PROVE WaitersCurrent'
    OBVIOUS
  <2>1. ASSUME NEW h \in Halves, LockMut(h) \/ IntoMutClosed(h) PROVE WaitersCurrent'
    BY <2>1, NotifyKeepsWaiters DEF LockMut, IntoMutClosed, Mutate
  <2>2. ASSUME NEW h \in Halves, CloneHandle(h) PROVE WaitersCurrent'
    BY <2>2 DEF CloneHandle, WaitersCurrent, cell, task
  <2>3. ASSUME NEW h \in Halves, DropHandle(h) PROVE WaitersCurrent'
    <3>1. CASE clones[h] = 1
      BY <2>3, <3>1, NotifyKeepsWaiters DEF DropHandle
    <3>2. CASE clones[h] # 1
      BY <2>3, <3>2 DEF DropHandle, WaitersCurrent, task
    <3> QED
      BY <3>1, <3>2
  <2>4. ASSUME NEW w \in Waiters, Modified(w) PROVE WaitersCurrent'
    BY <2>4 DEF Modified, WaitersCurrent, TypeOK, cell
  <2>5. ASSUME NEW w \in Waiters, FirstPoll(w) \/ WokenPoll(w) \/ SpuriousPoll(w)
        PROVE WaitersCurrent'
    <3>1. PICK g \in Gens : Poll(w, g) /\ pc[w] \in {"polling", "parked"}
      BY <2>5 DEF FirstPoll, WokenPoll, SpuriousPoll, TypeOK
    <3> QED
      BY <3>1, PollKeepsWaiters
  <2>6. CASE UNCHANGED vars
    BY <2>6 DEF vars, WaitersCurrent
  <2> QED
    BY <2>1, <2>2, <2>3, <2>4, <2>5, <2>6 DEF Next
<1> QED
  BY <1>1, <1>2, TypeCorrect, PTL DEF Spec

(* No wakeup is lost: a task left asleep by every notify has seen the       *)
(* newest value, for any number of tasks, wakers, handles and mutations.    *)
THEOREM NoWakeupLost == Spec => []NoLostWakeup
<1>1. WaitersCurrent => NoLostWakeup
  BY DEF WaitersCurrent, NoLostWakeup
<1> QED
  BY <1>1, WaitersCorrect, PTL

-----------------------------------------------------------------------------
(* The queue                                                               *)

Entry == [item : Items, notifier : BOOLEAN]

(* An entry knows whether somebody waits for it, no item is in the queue     *)
(* twice, and what has left it is confirmed, unless nobody asked.            *)
QueueInv ==
  /\ QueueTypeOK
  /\ FifoConservation
  /\ \A n \in 1 .. Len(queue) :
       ack[queue[n].item] = IF queue[n].notifier THEN "waiting" ELSE "untracked"
  /\ \A m, n \in 1 .. Len(queue) : queue[m].item = queue[n].item => m = n
  /\ \A n \in 1 .. Len(out) : ack[out[n]] \in {"untracked", "ok", "closed"}
  /\ \A n \in 1 .. Len(popped) : ack[popped[n]] \in {"untracked", "ok"}
  /\ \A i \in Items : ack[i] = "ok" => \E n \in 1 .. Len(popped) : popped[n] = i

LEMMA ItemsType ==
  ASSUME NEW q \in Seq(Entry)
  PROVE  /\ ItemsOf(q) \in Seq(Items) /\ Len(ItemsOf(q)) = Len(q)
         /\ \A n \in 1 .. Len(q) : ItemsOf(q)[n] = q[n].item
<1>1. \A n \in 1 .. Len(q) : q[n] \in Entry
  BY ElementOfSeq
<1>2. \A n \in 1 .. Len(q) : q[n].item \in Items
  BY <1>1 DEF Entry
<1>3. ItemsOf(q) = [n \in 1 .. Len(q) |-> q[n].item]
  BY DEF ItemsOf
<1>4. QED
  BY <1>2, <1>3

LEMMA ItemsAppend ==
  ASSUME NEW q \in Seq(Entry), NEW e \in Entry, NEW before \in Seq(Items)
  PROVE  before \o ItemsOf(Append(q, e)) = Append(before \o ItemsOf(q), e.item)
<1> DEFINE a == ItemsOf(q)
           b == ItemsOf(Append(q, e))
           x == e.item
<1>1. Append(q, e) \in Seq(Entry) /\ x \in Items
  BY DEF Entry
<1>2. a \in Seq(Items) /\ Len(a) = Len(q) /\ \A n \in 1 .. Len(q) : a[n] = q[n].item
  BY ItemsType, Zenon
<1>3. /\ b \in Seq(Items) /\ Len(b) = Len(Append(q, e))
      /\ \A n \in 1 .. Len(Append(q, e)) : b[n] = Append(q, e)[n].item
  BY <1>1, ItemsType, Zenon
<1>4. /\ Len(Append(q, e)) = Len(q) + 1 /\ Append(q, e)[Len(q) + 1] = e /\ Len(q) \in Nat
      /\ \A n \in 1 .. Len(q) : Append(q, e)[n] = q[n]
  OBVIOUS
<1> HIDE DEF a, b
<1>5. b[Len(q) + 1] = x /\ \A n \in 1 .. Len(q) : b[n] = a[n]
  BY <1>2, <1>3, <1>4
<1> HIDE DEF x
<1>6. /\ Append(a, x) \in Seq(Items) /\ Len(b) = Len(Append(a, x))
      /\ \A n \in 1 .. Len(b) : b[n] = Append(a, x)[n]
  BY <1>1, <1>2, <1>3, <1>4, <1>5
<1>7. b = Append(a, x)
  BY <1>3, <1>6, SeqEqual
<1>8. b = a \o <<x>> /\ before \o a \in Seq(Items) /\ <<x>> \in Seq(Items)
  BY <1>1, <1>2, <1>7, AppendIsConcat, ConcatProperties
<1>9. before \o b = (before \o a) \o <<x>>
  BY <1>2, <1>8, ConcatAssociative
<1>10. QED
  BY <1>1, <1>8, <1>9, AppendIsConcat DEF a, b, x

LEMMA ItemsPop ==
  ASSUME NEW q \in Seq(Entry), q # <<>>, NEW before \in Seq(Items)
  PROVE  Append(before, Head(q).item) \o ItemsOf(Tail(q)) = before \o ItemsOf(q)
<1> DEFINE a == ItemsOf(q)
           b == ItemsOf(Tail(q))
           x == Head(q).item
<1>1. /\ Tail(q) \in Seq(Entry) /\ Head(q) \in Entry /\ Head(q) = q[1]
      /\ Len(Tail(q)) = Len(q) - 1 /\ Len(q) \in Nat \ {0}
      /\ \A n \in 1 .. Len(q) - 1 : Tail(q)[n] = q[n + 1]
  OBVIOUS
<1>2. a \in Seq(Items) /\ Len(a) = Len(q) /\ \A n \in 1 .. Len(q) : a[n] = q[n].item
  BY ItemsType, Zenon
<1>3. b \in Seq(Items) /\ Len(b) = Len(Tail(q)) /\ \A n \in 1 .. Len(Tail(q)) : b[n] = Tail(q)[n].item
  BY <1>1, ItemsType, Zenon
<1>4. x \in Items
  BY <1>1 DEF Entry
<1> HIDE DEF a, b
<1>5. a[1] = x /\ \A n \in 1 .. Len(b) : b[n] = a[n + 1]
  BY <1>1, <1>2, <1>3
<1> HIDE DEF x
<1>6. <<x>> \in Seq(Items) /\ Len(<<x>>) = 1 /\ <<x>>[1] = x
  BY <1>4
<1>7. /\ <<x>> \o b \in Seq(Items) /\ Len(<<x>> \o b) = 1 + Len(b)
      /\ \A n \in 1 .. 1 + Len(b) : (<<x>> \o b)[n] = IF n <= 1 THEN <<x>>[n] ELSE b[n - 1]
  BY <1>3, <1>6, ConcatProperties
<1>8. /\ Len(a) = Len(<<x>> \o b)
      /\ \A n \in 1 .. Len(a) : a[n] = (<<x>> \o b)[n]
  <2>1. Len(a) = 1 + Len(b) /\ Len(b) \in Nat
    BY <1>1, <1>2, <1>3
  <2>2. ASSUME NEW n \in 1 .. Len(a), n # 1 PROVE a[n] = (<<x>> \o b)[n]
    <3>1. n - 1 \in 1 .. Len(b) /\ n - 1 + 1 = n /\ ~(n <= 1) /\ n \in 1 .. 1 + Len(b)
      BY <2>1, <2>2
    <3>2. b[n - 1] = a[n]
      BY <1>5, <3>1
    <3>3. QED
      BY <1>7, <3>1, <3>2
  <2>3. a[1] = (<<x>> \o b)[1]
    BY <1>5, <1>6, <1>7, <2>1
  <2>4. QED
    BY <1>7, <2>1, <2>2, <2>3
<1>9. a = <<x>> \o b
  BY <1>2, <1>7, <1>8, SeqEqual
<1>10. (before \o <<x>>) \o b = before \o (<<x>> \o b)
  BY <1>3, <1>6, ConcatAssociative
<1>11. QED
  BY <1>4, <1>9, <1>10, AppendIsConcat DEF a, b, x

LEMMA QueueStart_Inv == ASSUME QueueInit PROVE QueueInv
<1>1. QueueTypeOK
  BY DEF QueueInit, QueueTypeOK
<1>2. ItemsOf(queue) = <<>>
  BY DEF QueueInit, ItemsOf
<1>3. QED
  BY <1>1, <1>2 DEF QueueInit, QueueInv, FifoConservation

LEMMA Entries ==
  ASSUME QueueInv
  PROVE  /\ queue \in Seq(Entry) /\ Len(queue) \in Nat
         /\ \A n \in 1 .. Len(queue) :
              /\ queue[n] \in Entry /\ queue[n].item \in Items /\ queue[n].notifier \in BOOLEAN
              /\ ack[queue[n].item] \in {"waiting", "untracked"}
<1>1. queue \in Seq(Entry) /\ Len(queue) \in Nat
  BY DEF QueueInv, QueueTypeOK, Entry
<1>2. \A n \in 1 .. Len(queue) : queue[n] \in Entry
  BY <1>1, ElementOfSeq
<1>3. \A n \in 1 .. Len(queue) : ack[queue[n].item] \in {"waiting", "untracked"}
  BY DEF QueueInv
<1>4. QED
  BY <1>1, <1>2, <1>3 DEF Entry

\* A step that moves no item
LEMMA NoneMoves ==
  ASSUME QueueInv, QueueTypeOK', UNCHANGED <<queue, pushed, out, popped, ack>> PROVE QueueInv'
  BY DEF QueueInv, FifoConservation

\* An item that enters the queue is new to it.
LEMMA EnqueueStep ==
  ASSUME QueueInv, NEW i \in Items, NEW waits \in BOOLEAN, ack[i] = "none", Enqueue(i, waits),
         ack' = [ack EXCEPT ![i] = IF waits THEN "waiting" ELSE "untracked"],
         UNCHANGED <<out, popped, qLive, qPc, qAt, receiver, sender>>
  PROVE  QueueInv'
<1> USE DEF QueueInv, QueueTypeOK
<1> DEFINE e == [item |-> i, notifier |-> waits]
<1>1. e \in Entry /\ e.item = i /\ e.notifier = waits
  BY DEF Entry
<1> HIDE DEF e
<1>2. /\ queue' = Append(queue, e) /\ pushed' = Append(pushed, i)
      /\ qEpoch' = qEpoch + 1 /\ qWakers' = {}
  BY DEF Enqueue, QueueNotify, e
<1>3. queue' \in Seq(Entry) /\ pushed' \in Seq(Items)
  BY <1>1, <1>2, Entries
<1>4. FifoConservation'
  BY <1>1, <1>2, ItemsAppend, Entries DEF FifoConservation
<1>5. ack' \in [Items -> {"none", "untracked", "refused", "waiting", "ok", "closed"}]
  OBVIOUS
<1>6. QueueTypeOK'
  BY <1>2, <1>3, <1>5 DEF Entry
<1>7. /\ Len(queue') = Len(queue) + 1 /\ queue'[Len(queue) + 1] = e
      /\ \A n \in 1 .. Len(queue) : queue'[n] = queue[n]
  BY <1>1, <1>2, Entries
<1>8. \A n \in 1 .. Len(queue) : queue[n].item # i /\ queue[n].item \in Items
  BY Entries
<1>9. \A j \in Items : j # i => ack'[j] = ack[j]
  OBVIOUS
<1>10. ack'[i] = IF waits THEN "waiting" ELSE "untracked"
  OBVIOUS
<1>11. \A n \in 1 .. Len(queue') :
         ack'[queue'[n].item] = IF queue'[n].notifier THEN "waiting" ELSE "untracked"
  <2> SUFFICES ASSUME NEW n \in 1 .. Len(queue')
               PROVE  ack'[queue'[n].item] = IF queue'[n].notifier THEN "waiting" ELSE "untracked"
    OBVIOUS
  <2>1. CASE n = Len(queue) + 1
    BY <1>1, <1>7, <1>10, <2>1
  <2>2. CASE n \in 1 .. Len(queue)
    <3>1. queue'[n] = queue[n] /\ ack'[queue[n].item] = ack[queue[n].item]
      BY <1>7, <1>8, <1>9, <2>2
    <3>2. QED
      BY <2>2, <3>1
  <2>3. QED
    BY <1>7, <2>1, <2>2, Entries
<1>12. \A m, n \in 1 .. Len(queue') : queue'[m].item = queue'[n].item => m = n
  <2>1. \A n \in 1 .. Len(queue') : n \in 1 .. Len(queue) \/ n = Len(queue) + 1
    BY <1>7, Entries
  <2>2. queue'[Len(queue) + 1].item = i
    BY <1>1, <1>7
  <2>3. \A n \in 1 .. Len(queue) : queue'[n].item = queue[n].item /\ queue'[n].item # i
    BY <1>7, <1>8
  <2>4. \A m, n \in 1 .. Len(queue) : queue'[m].item = queue'[n].item => m = n
    BY <2>3
  <2>5. QED
    BY <2>1, <2>2, <2>3, <2>4
<1>13. \A n \in 1 .. Len(out) : out[n] # i /\ out[n] \in Items
  BY ElementOfSeq
<1>14. \A n \in 1 .. Len(popped) : popped[n] # i /\ popped[n] \in Items
  BY ElementOfSeq
<1>15. /\ \A n \in 1 .. Len(out') : ack'[out'[n]] \in {"untracked", "ok", "closed"}
       /\ \A n \in 1 .. Len(popped') : ack'[popped'[n]] \in {"untracked", "ok"}
  BY <1>9, <1>13, <1>14
<1>16. \A j \in Items : ack'[j] = "ok" => \E n \in 1 .. Len(popped') : popped'[n] = j
  BY <1>9, <1>10
<1>17. QED
  BY <1>4, <1>6, <1>11, <1>12, <1>15, <1>16

\* A push that is refused changes nothing but what its caller is told.
LEMMA RefusedStep ==
  ASSUME QueueInv, NEW i \in Items, ack[i] = "none", NEW told \in {"refused", "closed"},
         ack' = [ack EXCEPT ![i] = told],
         UNCHANGED <<queue, pushed, qEpoch, qWakers, out, popped, qLive, qPc, qAt, receiver,
                     sender>>
  PROVE  QueueInv'
<1> USE DEF QueueInv, QueueTypeOK
<1>1. QueueTypeOK'
  OBVIOUS
<1>2. FifoConservation'
  BY DEF FifoConservation
<1>3. \A n \in 1 .. Len(queue') :
        ack'[queue'[n].item] = IF queue'[n].notifier THEN "waiting" ELSE "untracked"
  <2>1. \A n \in 1 .. Len(queue) : queue[n].item # i /\ queue[n].item \in Items
    BY Entries
  <2>2. QED
    BY <2>1
<1>4. \A j \in Items : j # i => ack'[j] = ack[j]
  OBVIOUS
<1>5. \A n \in 1 .. Len(out) : out[n] # i /\ out[n] \in Items
  BY ElementOfSeq
<1>6. \A n \in 1 .. Len(popped) : popped[n] # i /\ popped[n] \in Items
  BY ElementOfSeq
<1>7. /\ \A n \in 1 .. Len(out') : ack'[out'[n]] \in {"untracked", "ok", "closed"}
      /\ \A n \in 1 .. Len(popped') : ack'[popped'[n]] \in {"untracked", "ok"}
  BY <1>4, <1>5, <1>6
<1>8. \A j \in Items : ack'[j] = "ok" => \E n \in 1 .. Len(popped') : popped'[n] = j
  BY <1>4
<1>9. \A m, n \in 1 .. Len(queue') : queue'[m].item = queue'[n].item => m = n
  OBVIOUS
<1>10. QED
  BY <1>1, <1>2, <1>3, <1>7, <1>8, <1>9

LEMMA PopStep ==
  ASSUME QueueInv, NEW p \in Poppers, PopLook(p) PROVE QueueInv'
<1> USE DEF QueueInv, QueueTypeOK
<1>1. CASE queue # <<>> /\ qLive
  <2> DEFINE e == Head(queue)
             x == e.item
  <2>1. e \in Entry /\ e = queue[1] /\ 1 \in 1 .. Len(queue) /\ Tail(queue) \in Seq(Entry)
    BY <1>1, Entries, HeadTailProperties, EmptySeq
  <2>2. x \in Items /\ e.notifier \in BOOLEAN
    BY <2>1 DEF Entry
  <2>3. /\ out' = Append(out, x) /\ popped' = Append(popped, x)
        /\ ack' = IF e.notifier THEN [ack EXCEPT ![x] = "ok"] ELSE ack
        /\ queue' = Tail(queue) /\ qEpoch' = qEpoch + 1 /\ qWakers' = {}
        /\ UNCHANGED <<qPc, pushed, qLive, qAt, receiver, sender>>
    BY <1>1 DEF PopLook, QueueNotify
  <2>4. FifoConservation'
    BY <1>1, <2>3, ItemsPop, Entries DEF FifoConservation
  <2>5. ack[x] = IF e.notifier THEN "waiting" ELSE "untracked"
    BY <2>1
  <2>6. /\ Len(queue') = Len(queue) - 1 /\ Len(queue) \in Nat
        /\ \A n \in 1 .. Len(queue') : queue'[n] = queue[n + 1] /\ n + 1 \in 1 .. Len(queue) /\ n + 1 # 1
    BY <1>1, <2>1, <2>3, Entries, HeadTailProperties
  <2>7. \A n \in 1 .. Len(queue') : queue'[n].item \in Items /\ queue'[n].item # x
    <3>1. \A n \in 1 .. Len(queue') : queue[n + 1].item \in Items
      BY <2>6, Entries
    <3>2. \A n \in 1 .. Len(queue') : queue[n + 1].item # queue[1].item
      BY <2>1, <2>6
    <3>3. QED
      BY <2>1, <2>6, <3>1, <3>2
  <2> HIDE DEF x, e
  <2>8. ack' \in [Items -> {"none", "untracked", "refused", "waiting", "ok", "closed"}]
    BY <2>2, <2>3
  <2>9. QueueTypeOK'
    <3>1. queue' \in Seq(Entry) /\ out' \in Seq(Items) /\ popped' \in Seq(Items)
      BY <2>1, <2>2, <2>3
    <3>2. QED
      BY <2>3, <2>8, <3>1 DEF Entry
  <2>10. /\ ack'[x] = IF e.notifier THEN "ok" ELSE "untracked"
         /\ \A i \in Items : i # x => ack'[i] = ack[i]
    BY <2>2, <2>3, <2>5
  <2>11. \A n \in 1 .. Len(queue') :
           ack'[queue'[n].item] = IF queue'[n].notifier THEN "waiting" ELSE "untracked"
    <3> SUFFICES ASSUME NEW n \in 1 .. Len(queue')
                 PROVE  ack'[queue'[n].item] = IF queue'[n].notifier THEN "waiting" ELSE "untracked"
      OBVIOUS
    <3>1. queue'[n] = queue[n + 1] /\ n + 1 \in 1 .. Len(queue)
      BY <2>6
    <3>2. ack'[queue'[n].item] = ack[queue'[n].item]
      BY <2>7, <2>10
    <3>3. QED
      BY <3>1, <3>2
  <2>12. \A m, n \in 1 .. Len(queue') : queue'[m].item = queue'[n].item => m = n
    <3> SUFFICES ASSUME NEW m \in 1 .. Len(queue'), NEW n \in 1 .. Len(queue'),
                        queue'[m].item = queue'[n].item
                 PROVE  m = n
      OBVIOUS
    <3>1. /\ queue'[m] = queue[m + 1] /\ m + 1 \in 1 .. Len(queue)
          /\ queue'[n] = queue[n + 1] /\ n + 1 \in 1 .. Len(queue)
      BY <2>6
    <3>2. m + 1 = n + 1
      BY <3>1
    <3>3. QED
      BY <3>2
  <2>13. \A n \in 1 .. Len(out') : ack'[out'[n]] \in {"untracked", "ok", "closed"}
    BY <2>2, <2>3, <2>10
  <2>14. \A n \in 1 .. Len(popped') : ack'[popped'[n]] \in {"untracked", "ok"}
    BY <2>2, <2>3, <2>10
  <2>15. \A i \in Items : ack'[i] = "ok" => \E n \in 1 .. Len(popped') : popped'[n] = i
    <3>1. /\ Len(popped') = Len(popped) + 1 /\ popped'[Len(popped) + 1] = x
          /\ \A n \in 1 .. Len(popped) : popped'[n] = popped[n] /\ n \in 1 .. Len(popped')
          /\ Len(popped) + 1 \in 1 .. Len(popped')
      BY <2>2, <2>3
    <3>2. \A i \in Items : i # x /\ ack'[i] = "ok" => \E n \in 1 .. Len(popped) : popped[n] = i
      BY <2>10
    <3>3. ASSUME NEW i \in Items, ack'[i] = "ok", i # x PROVE \E n \in 1 .. Len(popped') : popped'[n] = i
      <4>1. PICK n \in 1 .. Len(popped) : popped[n] = i
        BY <3>2, <3>3
      <4>2. QED
        BY <3>1, <4>1
    <3>4. QED
      BY <3>1, <3>3
  <2>16. QED
    BY <2>4, <2>9, <2>11, <2>12, <2>13, <2>14, <2>15
<1>2. CASE ~(queue # <<>> /\ qLive)
  <2>1. /\ UNCHANGED <<queue, pushed, out, popped, ack, qEpoch, qWakers, qLive, qAt, receiver,
                       sender>>
        /\ \E to \in {"none", "gap"} : qPc' = [qPc EXCEPT ![p] = to]
    BY <1>2 DEF PopLook
  <2>2. QueueTypeOK'
    BY <2>1
  <2>3. QED
    BY <2>1, <2>2, NoneMoves
<1>3. QED
  BY <1>1, <1>2

LEMMA ConcatParts ==
  ASSUME NEW a \in Seq(Items), NEW b \in Seq(Items)
  PROVE  /\ Len(a \o b) = Len(a) + Len(b)
         /\ \A n \in 1 .. Len(a) + Len(b) : (a \o b)[n] = IF n <= Len(a) THEN a[n] ELSE b[n - Len(a)]
  BY ConcatProperties

\* What close() drains is told so, if somebody waits for it.
LEMMA DrainStep ==
  ASSUME QueueInv, CloseDrain PROVE QueueInv'
<1> USE DEF QueueInv, QueueTypeOK
<1>1. CASE qLive
  <2> DEFINE its == ItemsOf(queue)
  <2>1. its \in Seq(Items) /\ Len(its) = Len(queue) /\ \A n \in 1 .. Len(queue) : its[n] = queue[n].item
    BY Entries, ItemsType
  <2>2. FifoConservation'
    <3>1. out' = out \o ItemsOf(queue) /\ queue' = <<>> /\ pushed' = pushed
      BY <1>1 DEF CloseDrain
    <3>2. ItemsOf(queue') = <<>>
      BY <3>1 DEF ItemsOf
    <3>3. pushed \in Seq(Items) /\ pushed = out'
      BY <3>1 DEF FifoConservation
    <3>4. pushed' = out' \o <<>>
      BY <3>1, <3>3, ConcatEmptySeq
    <3>5. QED
      BY <3>2, <3>4 DEF FifoConservation
  <2> HIDE DEF its
  <2>3. /\ out' = out \o its /\ queue' = <<>> /\ qEpoch' = qEpoch + 1 /\ qWakers' = {}
        /\ ack' = [i \in Items |-> IF \E n \in DOMAIN queue : queue[n] = [item |-> i, notifier |-> TRUE]
                                   THEN "closed" ELSE ack[i]]
        /\ qPc' = [p \in Poppers |-> "none"] /\ receiver' = "closing"
        /\ UNCHANGED <<pushed, popped, qLive, qAt, sender>>
    BY <1>1 DEF CloseDrain, QueueNotify, its
  <2>4. out' \in Seq(Items) /\ queue' \in Seq(Entry) /\ Len(queue') = 0
    BY <2>1, <2>3
  <2>5. DOMAIN queue = 1 .. Len(queue)
    BY Entries
  <2>6. \A i \in Items :
          \/ ack'[i] = ack[i] /\ \A n \in 1 .. Len(queue) : queue[n].item = i => ~queue[n].notifier
          \/ ack'[i] = "closed" /\ ack[i] = "waiting"
    <3> SUFFICES ASSUME NEW i \in Items
                 PROVE  \/ ack'[i] = ack[i] /\ \A n \in 1 .. Len(queue) : queue[n].item = i => ~queue[n].notifier
                        \/ ack'[i] = "closed" /\ ack[i] = "waiting"
      OBVIOUS
    <3>1. CASE \E n \in DOMAIN queue : queue[n] = [item |-> i, notifier |-> TRUE]
      BY <2>3, <2>5, <3>1
    <3>2. CASE ~\E n \in DOMAIN queue : queue[n] = [item |-> i, notifier |-> TRUE]
      <4>1. ASSUME NEW n \in 1 .. Len(queue), queue[n].item = i PROVE ~queue[n].notifier
        BY <2>5, <3>2, <4>1, Entries DEF Entry
      <4>2. QED
        BY <2>3, <3>2, <4>1
    <3>3. QED
      BY <3>1, <3>2
  <2>7. QueueTypeOK'
    <3>1. ack' \in [Items -> {"none", "untracked", "refused", "waiting", "ok", "closed"}]
      BY <2>3
    <3>2. QED
      BY <2>3, <2>4, <3>1 DEF Entry
  <2>8. \A n \in 1 .. Len(out') : ack'[out'[n]] \in {"untracked", "ok", "closed"}
    <3>1. \A n \in 1 .. Len(out) : ack'[out[n]] \in {"untracked", "ok", "closed"}
      BY <2>6
    <3>2. ASSUME NEW n \in 1 .. Len(queue) PROVE ack'[its[n]] \in {"untracked", "closed"}
      <4>1. its[n] = queue[n].item /\ queue[n].item \in Items
        BY <2>1, Entries
      <4>2. CASE queue[n].notifier
        BY <2>6, <4>1, <4>2
      <4>3. CASE ~queue[n].notifier
        <5>1. ack[queue[n].item] = "untracked"
          BY <4>3
        <5>2. QED
          BY <2>6, <4>1, <5>1
      <4>4. QED
        BY <4>2, <4>3
    <3>3. /\ Len(out') = Len(out) + Len(its)
          /\ \A n \in 1 .. Len(out') : out'[n] = IF n <= Len(out) THEN out[n] ELSE its[n - Len(out)]
      <4>1. out \in Seq(Items)
        OBVIOUS
      <4>2. /\ Len(out \o its) = Len(out) + Len(its)
            /\ \A n \in 1 .. Len(out) + Len(its) :
                 (out \o its)[n] = IF n <= Len(out) THEN out[n] ELSE its[n - Len(out)]
        BY <2>1, <4>1, ConcatParts, Zenon
      <4>3. QED
        BY <2>3, <4>2, Zenon
    <3>4. ASSUME NEW n \in 1 .. Len(out') PROVE ack'[out'[n]] \in {"untracked", "ok", "closed"}
      <4>1. CASE n <= Len(out)
        <5>1. n \in 1 .. Len(out) /\ out'[n] = out[n]
          BY <3>3, <4>1
        <5>2. QED
          BY <3>1, <5>1
      <4>2. CASE ~(n <= Len(out))
        <5>1. n - Len(out) \in 1 .. Len(queue) /\ out'[n] = its[n - Len(out)]
          BY <2>1, <3>3, <4>2
        <5>2. QED
          BY <3>2, <5>1
      <4>3. QED
        BY <4>1, <4>2
    <3>5. QED
      BY <3>4
  <2>9. \A n \in 1 .. Len(popped') : ack'[popped'[n]] \in {"untracked", "ok"}
    <3>1. \A n \in 1 .. Len(popped) : popped[n] \in Items /\ ack[popped[n]] \in {"untracked", "ok"}
      BY ElementOfSeq
    <3>2. QED
      BY <2>3, <2>6, <3>1
  <2>10. \A i \in Items : ack'[i] = "ok" => \E n \in 1 .. Len(popped') : popped'[n] = i
    BY <2>3, <2>6
  <2>11. 1 .. Len(queue') = {}
    BY <2>4
  <2>12. QED
    BY <2>2, <2>7, <2>8, <2>9, <2>10, <2>11
<1>2. CASE ~qLive
  <2>1. QueueTypeOK' /\ UNCHANGED <<queue, pushed, out, popped, ack>>
    BY <1>2 DEF CloseDrain
  <2>2. QED
    BY <2>1, NoneMoves
<1>3. QED
  BY <1>1, <1>2

LEMMA QueueStep_Inv == ASSUME QueueInv, [QueueNext]_queueVars PROVE QueueInv'
<1>1. ASSUME NEW i \in Items, Push(i) PROVE QueueInv'
  <2>1. CASE qLive
    <3>1. Enqueue(i, FALSE) /\ ack' = [ack EXCEPT ![i] = IF FALSE THEN "waiting" ELSE "untracked"]
      BY <1>1, <2>1 DEF Push
    <3>2. QED
      BY <1>1, <3>1, EnqueueStep DEF Push
  <2>2. CASE ~qLive
    BY <1>1, <2>2, RefusedStep DEF Push
  <2>3. QED
    BY <2>1, <2>2
<1>2. ASSUME NEW i \in Items, PushAndWait(i) PROVE QueueInv'
  <2>1. CASE qLive
    <3>1. Enqueue(i, TRUE) /\ ack' = [ack EXCEPT ![i] = IF TRUE THEN "waiting" ELSE "untracked"]
      BY <1>2, <2>1 DEF PushAndWait
    <3>2. QED
      BY <1>2, <3>1, EnqueueStep DEF PushAndWait
  <2>2. CASE ~qLive
    BY <1>2, <2>2, RefusedStep DEF PushAndWait
  <2>3. QED
    BY <2>1, <2>2
<1>3. ASSUME NEW p \in Poppers, PopLook(p) PROVE QueueInv'
  BY <1>3, PopStep
<1>4. ASSUME NEW p \in Poppers, PopModified(p) \/ PopPoll(p) PROVE QueueInv'
  <2>1. QueueTypeOK' /\ UNCHANGED <<queue, pushed, out, popped, ack>>
    <3>1. CASE PopModified(p)
      BY <3>1 DEF PopModified, QueueInv, QueueTypeOK, history
    <3>2. CASE PopPoll(p)
      BY <3>2 DEF PopPoll, QueueInv, QueueTypeOK, history
    <3>3. QED
      BY <1>4, <3>1, <3>2
  <2>2. QED
    BY <2>1, NoneMoves
<1>5. CASE DropSender \/ DropReceiver \/ CloseDrop
  <2>1. UNCHANGED <<queue, pushed, out, popped, ack>>
    BY <1>5 DEF DropSender, DropReceiver, CloseDrop, history
  <2>2. qEpoch' \in Nat /\ qWakers' \subseteq Poppers
    BY <1>5 DEF DropSender, DropReceiver, CloseDrop, QueueNotify, QueueInv, QueueTypeOK
  <2>3. /\ qLive' \in BOOLEAN /\ receiver' \in {"open", "closing", "gone"} /\ sender' \in {"open", "gone"}
        /\ qPc' \in [Poppers -> {"look", "gap", "await", "none"}] /\ qAt' \in [Poppers -> Nat]
    <3>1. qLive' = FALSE
      BY <1>5, Zenon DEF DropSender, DropReceiver, CloseDrop
    <3>2. /\ receiver' \in {"open", "closing", "gone"} /\ sender' \in {"open", "gone"}
          /\ qPc' \in [Poppers -> {"look", "gap", "await", "none"}] /\ qAt' \in [Poppers -> Nat]
      BY <1>5 DEF DropSender, DropReceiver, CloseDrop, QueueInv, QueueTypeOK
    <3>3. QED
      BY <3>1, <3>2, Zenon
  <2>4. QueueTypeOK'
    BY <2>1, <2>2, <2>3 DEF QueueInv, QueueTypeOK
  <2>5. QED
    BY <2>1, <2>4, NoneMoves
<1>6. CASE CloseDrain
  BY <1>6, DrainStep
<1>7. CASE UNCHANGED queueVars
  BY <1>7 DEF queueVars, QueueInv, QueueTypeOK, FifoConservation
<1>8. QED
  BY <1>1, <1>2, <1>3, <1>4, <1>5, <1>6, <1>7 DEF QueueNext

(* What is pushed leaves the queue once and in order, popped or handed back  *)
(* by close(), and a push that waits is confirmed exactly when its item was  *)
(* popped, with any number of items and of concurrent pop() calls            *)
(* (watch/queue.rs pop, close, push_and_wait_until_popped).                  *)
THEOREM QueueSafe == QueueSpec => []QueueConserves
<1>1. QueueInv => QueueConserves
  <2> SUFFICES ASSUME QueueInv PROVE AckMeansPopped
    BY DEF QueueInv, QueueConserves
  <2>1. popped \in Seq(Items) /\ out \in Seq(Items)
    BY DEF QueueInv, QueueTypeOK
  <2>2. QED
    BY <2>1 DEF QueueInv, AckMeansPopped, Contains
<1>2. QED
  BY <1>1, QueueStart_Inv, QueueStep_Inv, PTL DEF QueueSpec

-----------------------------------------------------------------------------
(* The objects of a subgroup                                               *)

ObjectState == [id : Objects!Ids, size : Sizes, remain : Nat, chunks : Seq(Nat),
                closed : BOOLEAN, writer : BOOLEAN]

(* The bytes of an object add up: g[i] of them are in its first i chunks,    *)
(* what remains is the rest of the promised size, and a task that reads the  *)
(* object has what the chunks it was given hold.                             *)
Reading(n) == {r \in Readers : oReader[r] = "object" /\ index[r] = n}
Counted(o, rs, read, upto) ==
  \E g \in [0 .. Len(o.chunks) -> Nat] :
    /\ g[0] = 0 /\ \A i \in 1 .. Len(o.chunks) : g[i] = g[i - 1] + o.chunks[i]
    /\ g[Len(o.chunks)] + o.remain = o.size
    /\ \A r \in rs : read[r] = g[upto[r]]

(* Outcome n of a reader is of object n.                                     *)
Bookkeeping ==
  \A r \in Readers :
    /\ Len(outcome[r]) <= index[r]
    /\ oReader[r] = "subgroup" => Len(outcome[r]) = index[r]
    /\ oReader[r] = "object" =>
         /\ index[r] > 0 /\ Len(outcome[r]) = index[r] - 1
         /\ chunk[r] <= Len(objects[index[r]].chunks)

(* As long as there is a reader, every object is accounted for, and one that *)
(* lost its writer is marked unless it is complete.                          *)
ObjectsCounted ==
  Objects!Held => \A n \in 1 .. Len(objects) :
    /\ Counted(objects[n], Reading(n), bytes, chunk)
    /\ ~objects[n].writer /\ ~objects[n].closed => objects[n].remain = 0

ObjectsInv ==
  /\ Objects!TypeOK /\ Objects!IdsIncrease /\ Objects!EndAfterObjects /\ Objects!NoTruncatedObject
  /\ oClosed => ~oWriter
  /\ Bookkeeping /\ ObjectsCounted

\* A subgroup without objects.
LEMMA ObjectsStart == Objects!Init => ObjectsInv
<1> SUFFICES ASSUME Objects!Init PROVE ObjectsInv
  OBVIOUS
<1>0. MaxId \in Nat
  BY ServeAssumption DEF Objects!SubgroupObjectsAssumption
<1>1. Objects!TypeOK
  <2>1. Len(objects) = 0 /\ 0 \in 0 .. Len(objects)
    BY DEF Objects!Init
  <2>2. index \in [Readers -> 0 .. Len(objects)]
    BY <2>1 DEF Objects!Init
  <2>3. nextId \in Objects!Ids
    BY <1>0 DEF Objects!Init, Objects!Ids
  <2>4. objects \in Seq(ObjectState)
    BY DEF Objects!Init
  <2>5. outcome \in [Readers -> Seq([kind : {"whole", "broken"}, bytes : Nat])]
    <3>1. <<>> \in Seq([kind : {"whole", "broken"}, bytes : Nat])
      OBVIOUS
    <3>2. QED
      BY <3>1 DEF Objects!Init
  <2>6. oWriter \in BOOLEAN /\ oClosed \in BOOLEAN
    BY DEF Objects!Init
  <2>7. /\ oReader \in [Readers -> {"subgroup", "object", "none", "err", "gone"}]
        /\ chunk \in [Readers -> Nat] /\ bytes \in [Readers -> Nat]
    BY DEF Objects!Init
  <2>8. QED
    BY <2>2, <2>3, <2>4, <2>5, <2>6, <2>7 DEF Objects!TypeOK, ObjectState
<1>2. Objects!IdsIncrease /\ Objects!EndAfterObjects /\ Objects!NoTruncatedObject
  BY DEF Objects!Init, Objects!IdsIncrease, Objects!EndAfterObjects, Objects!NoTruncatedObject
<1>3. Len(objects) = 0
  BY DEF Objects!Init
<1>4. Bookkeeping /\ ObjectsCounted
  BY <1>3 DEF Objects!Init, Bookkeeping, ObjectsCounted
<1>5. QED
  BY <1>1, <1>2, <1>4 DEF ObjectsInv, Objects!Init

\* The types of the subgroup, spelt out.
LEMMA ObjectsMade ==
  ASSUME ObjectsInv
  PROVE  /\ objects \in Seq(ObjectState) /\ Len(objects) \in Nat /\ DOMAIN objects = 1 .. Len(objects)
         /\ \A n \in 1 .. Len(objects) :
              /\ objects[n] \in ObjectState /\ objects[n].size \in Nat /\ objects[n].remain \in Nat
              /\ objects[n].id \in Nat
              /\ objects[n].chunks \in Seq(Nat) /\ Len(objects[n].chunks) \in Nat
         /\ \A r \in Readers : /\ index[r] \in 0 .. Len(objects) /\ chunk[r] \in Nat /\ bytes[r] \in Nat
                               /\ outcome[r] \in Seq([kind : {"whole", "broken"}, bytes : Nat])
                               /\ Len(outcome[r]) \in Nat /\ DOMAIN outcome[r] = 1 .. Len(outcome[r])
         /\ nextId \in Nat
<1>0. Sizes \subseteq Nat /\ MaxId \in Nat
  BY ServeAssumption DEF Objects!SubgroupObjectsAssumption
<1>1. objects \in Seq(ObjectState)
  BY DEF ObjectsInv, Objects!TypeOK, ObjectState
<1>2. \A n \in 1 .. Len(objects) : objects[n] \in ObjectState
  BY <1>1, ElementOfSeq
<1>3. \A n \in 1 .. Len(objects) :
        /\ objects[n].size \in Nat /\ objects[n].remain \in Nat /\ objects[n].id \in Nat
        /\ objects[n].chunks \in Seq(Nat)
  <2>1. Objects!Ids \subseteq Nat
    BY <1>0 DEF Objects!Ids
  <2>2. QED
    BY <1>0, <1>2, <2>1 DEF ObjectState
<1>4. \A r \in Readers : /\ index[r] \in 0 .. Len(objects) /\ chunk[r] \in Nat /\ bytes[r] \in Nat
                         /\ outcome[r] \in Seq([kind : {"whole", "broken"}, bytes : Nat])
  BY DEF ObjectsInv, Objects!TypeOK
<1>5. nextId \in Nat
  BY <1>0 DEF ObjectsInv, Objects!TypeOK, Objects!Ids, Objects!NoId
<1>6. QED
  BY <1>1, <1>2, <1>3, <1>4, <1>5

\* Object n changes, not its id nor its size, and loses no chunk.
LEMMA ObjectChanges ==
  ASSUME ObjectsInv, NEW n \in 1 .. Len(objects), NEW o \in ObjectState,
         objects' = [objects EXCEPT ![n] = o], UNCHANGED <<oWriter, nextId, oClosed,
                                                           Objects!readerVars>>,
         o.id = objects[n].id, o.size = objects[n].size, Len(o.chunks) >= Len(objects[n].chunks),
         Objects!Held => Counted(o, Reading(n), bytes, chunk) /\ (~o.writer /\ ~o.closed => o.remain = 0)
  PROVE  ObjectsInv'
<1> USE ObjectsMade DEF Objects!readerVars
<1>1. /\ objects' \in Seq(ObjectState) /\ Len(objects') = Len(objects) /\ objects'[n] = o
      /\ DOMAIN objects' = 1 .. Len(objects)
      /\ \A m \in 1 .. Len(objects) : m # n => objects'[m] = objects[m]
  OBVIOUS
<1>2. Objects!TypeOK'
  BY <1>1 DEF ObjectsInv, Objects!TypeOK, ObjectState
<1>3. Objects!IdsIncrease'
  BY <1>1 DEF ObjectsInv, Objects!IdsIncrease
<1>4. Objects!EndAfterObjects'
  BY <1>1 DEF ObjectsInv, Objects!EndAfterObjects
<1>5. Objects!NoTruncatedObject'
  BY <1>1 DEF ObjectsInv, Objects!NoTruncatedObject, Bookkeeping
<1>6. Bookkeeping'
  <2>1. \A m \in 1 .. Len(objects) :
          Len(objects'[m].chunks) \in Nat /\ Len(objects'[m].chunks) >= Len(objects[m].chunks)
    BY <1>1 DEF ObjectState
  <2>2. ASSUME NEW r \in Readers, oReader[r] = "object" PROVE chunk[r] <= Len(objects'[index[r]].chunks)
    <3>1. index[r] \in 1 .. Len(objects) /\ chunk[r] <= Len(objects[index[r]].chunks) /\ chunk[r] \in Nat
      BY <2>2 DEF ObjectsInv, Bookkeeping
    <3>2. QED
      BY <2>1, <3>1
  <2>3. QED
    BY <2>2 DEF ObjectsInv, Bookkeeping
<1>7. ObjectsCounted'
  <2>1. (Objects!Held <=> Objects!Held') /\ \A m : Reading(m)' = Reading(m)
    BY DEF Objects!Held, Reading
  <2>2. QED
    BY <1>1, <2>1 DEF ObjectsInv, ObjectsCounted
<1>8. QED
  BY <1>2, <1>3, <1>4, <1>5, <1>6, <1>7 DEF ObjectsInv

\* Only tasks that read go on.
LEMMA ReaderMoves ==
  ASSUME ObjectsInv, UNCHANGED <<objects, oWriter, nextId, oClosed>>, NEW r \in Readers,
         oReader' \in [Readers -> {"subgroup", "object", "none", "err", "gone"}],
         index' \in [Readers -> 0 .. Len(objects)], chunk' \in [Readers -> Nat], bytes' \in [Readers -> Nat],
         outcome' \in [Readers -> Seq([kind : {"whole", "broken"}, bytes : Nat])],
         \A q \in Readers \ {r} : /\ oReader'[q] = oReader[q] /\ index'[q] = index[q] /\ chunk'[q] = chunk[q]
                                  /\ bytes'[q] = bytes[q] /\ outcome'[q] = outcome[q],
         oReader[r] # "gone",
         oReader'[r] \in {"none", "err"} => ~oWriter /\ index'[r] = Len(objects),
         Len(outcome'[r]) <= index'[r],
         \A n \in 1 .. Len(outcome'[r]) : outcome'[r][n].kind = "whole" => outcome'[r][n].bytes = objects[n].size,
         oReader'[r] = "subgroup" => Len(outcome'[r]) = index'[r],
         oReader'[r] = "object" =>
           /\ index'[r] > 0 /\ Len(outcome'[r]) = index'[r] - 1
           /\ chunk'[r] <= Len(objects[index'[r]].chunks)
           /\ \A g \in [0 .. Len(objects[index'[r]].chunks) -> Nat] :
                /\ g[0] = 0
                /\ \A i \in 1 .. Len(objects[index'[r]].chunks) : g[i] = g[i - 1] + objects[index'[r]].chunks[i]
                /\ r \in Reading(index'[r]) => bytes[r] = g[chunk[r]]
                => bytes'[r] = g[chunk'[r]]
  PROVE  ObjectsInv'
<1> USE ObjectsMade
<1>1. Objects!TypeOK'
  BY DEF ObjectsInv, Objects!TypeOK
<1>2. Objects!IdsIncrease'
  BY DEF ObjectsInv, Objects!IdsIncrease
<1>3. Objects!EndAfterObjects'
  BY DEF ObjectsInv, Objects!EndAfterObjects
<1>4. Objects!NoTruncatedObject'
  <2>1. \A q \in Readers : DOMAIN outcome'[q] = 1 .. Len(outcome'[q])
    OBVIOUS
  <2>2. ASSUME NEW q \in Readers, NEW n \in 1 .. Len(outcome'[q]), outcome'[q][n].kind = "whole"
        PROVE outcome'[q][n].bytes = objects[n].size
    <3>1. CASE q = r
      BY <2>2, <3>1
    <3>2. CASE q # r
      <4>1. outcome'[q] = outcome[q] /\ n \in DOMAIN outcome[q]
        BY <3>2
      <4>2. QED
        BY <2>2, <4>1 DEF ObjectsInv, Objects!NoTruncatedObject
    <3>3. QED
      BY <3>1, <3>2
  <2>3. QED
    BY <2>1, <2>2 DEF Objects!NoTruncatedObject
<1>5. Bookkeeping'
  BY DEF ObjectsInv, Bookkeeping
<1>6. ObjectsCounted'
  <2> SUFFICES ASSUME NEW n \in 1 .. Len(objects)
               PROVE  /\ Counted(objects[n], Reading(n)', bytes', chunk')
                      /\ ~objects[n].writer /\ ~objects[n].closed => objects[n].remain = 0
    BY DEF ObjectsCounted
  <2>1. Objects!Held
    BY DEF Objects!Held
  <2>2. Counted(objects[n], Reading(n), bytes, chunk) /\ (~objects[n].writer /\ ~objects[n].closed => objects[n].remain = 0)
    BY <2>1 DEF ObjectsInv, ObjectsCounted
  <2>3. PICK g \in [0 .. Len(objects[n].chunks) -> Nat] :
          /\ g[0] = 0 /\ \A i \in 1 .. Len(objects[n].chunks) : g[i] = g[i - 1] + objects[n].chunks[i]
          /\ g[Len(objects[n].chunks)] + objects[n].remain = objects[n].size
          /\ \A q \in Reading(n) : bytes[q] = g[chunk[q]]
    BY <2>2 DEF Counted
  <2>4. \A q \in Reading(n)' : bytes'[q] = g[chunk'[q]]
    <3> SUFFICES ASSUME NEW q \in Readers, oReader'[q] = "object", index'[q] = n PROVE bytes'[q] = g[chunk'[q]]
      BY DEF Reading
    <3>1. CASE q # r
      BY <2>3, <3>1 DEF Reading
    <3>2. CASE q = r
      BY <2>3, <3>2
    <3>3. QED
      BY <3>1, <3>2
  <2>5. QED
    BY <2>2, <2>3, <2>4 DEF Counted
<1>7. QED
  BY <1>1, <1>2, <1>3, <1>4, <1>5, <1>6 DEF ObjectsInv

\* Every step of the subgroup keeps ObjectsInv.
LEMMA ObjectsStep == ASSUME ObjectsInv, [Objects!Next]_(Objects!vars) PROVE ObjectsInv'
<1>0. MaxId \in Nat /\ Sizes \subseteq Nat /\ Chunks \subseteq Nat \ {0}
  BY ServeAssumption DEF Objects!SubgroupObjectsAssumption
<1>t. /\ oReader \in [Readers -> {"subgroup", "object", "none", "err", "gone"}]
      /\ index \in [Readers -> 0 .. Len(objects)] /\ chunk \in [Readers -> Nat] /\ bytes \in [Readers -> Nat]
      /\ outcome \in [Readers -> Seq([kind : {"whole", "broken"}, bytes : Nat])]
      /\ \A r \in Readers : \A n \in 1 .. Len(outcome[r]) :
           outcome[r][n].kind = "whole" => outcome[r][n].bytes = objects[n].size
  <2>1. \A r \in Readers : DOMAIN outcome[r] = 1 .. Len(outcome[r])
    BY ObjectsMade
  <2>2. QED
    BY <2>1 DEF ObjectsInv, Objects!TypeOK, Objects!NoTruncatedObject
<1>1. ASSUME NEW id \in Objects!Ids, NEW size \in Sizes, Objects!CreateWithId(id, size) PROVE ObjectsInv'
  <2> DEFINE o == [id |-> id, size |-> size, remain |-> size, chunks |-> <<>>, closed |-> FALSE, writer |-> TRUE]
  <2>1. /\ oWriter /\ nextId # MaxId + 1 /\ id >= nextId /\ nextId' = id + 1
        /\ UNCHANGED <<oWriter, oClosed, Objects!readerVars>>
        /\ objects' = IF Objects!Held THEN Append(objects, o) ELSE objects
    BY <1>1 DEF Objects!CreateWithId, Objects!IdAllowed, Objects!CheckedSucc, Objects!NoId
  <2>2. id \in Nat /\ nextId' \in Objects!Ids \cup {Objects!NoId} /\ nextId' > nextId
    BY <1>0, <2>1, ObjectsMade DEF Objects!Ids, Objects!NoId
  <2>3. CASE ~Objects!Held
    <3>1. objects' = objects /\ ~Objects!Held'
      BY <2>1, <2>3 DEF Objects!Held, Objects!readerVars
    <3>2. QED
      <4>1. Objects!TypeOK' /\ Objects!EndAfterObjects' /\ Objects!NoTruncatedObject'
        BY <2>1, <2>2, <3>1 DEF ObjectsInv, Objects!TypeOK, Objects!EndAfterObjects,
           Objects!NoTruncatedObject, Objects!readerVars
      <4>2. Objects!IdsIncrease'
        BY <2>1, <2>2, <3>1, ObjectsMade DEF ObjectsInv, Objects!IdsIncrease
      <4>3. Bookkeeping' /\ ObjectsCounted'
        BY <2>1, <3>1 DEF ObjectsInv, Bookkeeping, ObjectsCounted, Objects!readerVars
      <4>4. QED
        BY <2>1, <4>1, <4>2, <4>3 DEF ObjectsInv
  <2>4. CASE Objects!Held
    <3>1. o \in ObjectState /\ o.id = id /\ o.size = size /\ o.remain = size /\ o.chunks = <<>> /\ o.writer
      BY <1>0 DEF ObjectState
    <3> HIDE DEF o
    <3>2. /\ objects' \in Seq(ObjectState) /\ Len(objects') = Len(objects) + 1 /\ objects'[Len(objects) + 1] = o
          /\ DOMAIN objects' = 1 .. Len(objects) + 1
          /\ \A n \in 1 .. Len(objects) : objects'[n] = objects[n]
      BY <2>1, <2>4, <3>1, ObjectsMade
    <3>3. Objects!TypeOK'
      <4>1. index' \in [Readers -> 0 .. Len(objects')]
        BY <1>t, <2>1, <3>2, ObjectsMade DEF Objects!readerVars
      <4>2. QED
        BY <2>1, <2>2, <3>2, <4>1 DEF ObjectsInv, Objects!TypeOK, Objects!readerVars, ObjectState
    <3>4. Objects!IdsIncrease'
      BY <2>1, <2>2, <3>1, <3>2, ObjectsMade DEF ObjectsInv, Objects!IdsIncrease
    <3>5. Objects!EndAfterObjects'
      BY <2>1, <3>2, ObjectsMade DEF ObjectsInv, Objects!EndAfterObjects, Objects!readerVars
    <3>6. Objects!NoTruncatedObject'
      <4>1. \A r \in Readers : \A n \in DOMAIN outcome[r] : n \in 1 .. Len(objects)
        BY ObjectsMade DEF ObjectsInv, Bookkeeping
      <4>2. QED
        BY <2>1, <3>2, <4>1 DEF ObjectsInv, Objects!NoTruncatedObject, Objects!readerVars
    <3>7. Bookkeeping'
      <4>1. \A r \in Readers : oReader[r] = "object" => index[r] \in 1 .. Len(objects)
        BY ObjectsMade DEF ObjectsInv, Bookkeeping
      <4>2. QED
        BY <2>1, <3>2, <4>1 DEF ObjectsInv, Bookkeeping, Objects!readerVars
    <3>8. ObjectsCounted'
      <4>1. \A n : Reading(n)' = Reading(n)
        BY <2>1 DEF Reading, Objects!readerVars
      <4>2. Counted(o, Reading(Len(objects) + 1), bytes, chunk)
        <5>1. Reading(Len(objects) + 1) = {}
          BY ObjectsMade DEF Reading
        <5>2. Len(o.chunks) = 0 /\ o.size \in Nat
          BY <1>0, <3>1
        <5>3. PICK g \in [0 .. Len(o.chunks) -> Nat] : g[0] = 0
          <6>1. [i \in 0 .. Len(o.chunks) |-> 0] \in [0 .. Len(o.chunks) -> Nat]
            OBVIOUS
          <6>2. 0 \in 0 .. Len(o.chunks)
            BY <5>2
          <6>3. QED
            BY <6>1, <6>2
        <5>4. g[Len(o.chunks)] + o.remain = o.size /\ 1 .. Len(o.chunks) = {}
          BY <3>1, <5>2, <5>3
        <5>5. QED
          BY <5>1, <5>3, <5>4 DEF Counted
      <4>3. QED
        BY <2>1, <2>4, <3>1, <3>2, <4>1, <4>2, ObjectsMade DEF ObjectsInv, ObjectsCounted,
           Objects!readerVars
    <3>9. QED
      BY <2>1, <3>3, <3>4, <3>5, <3>6, <3>7, <3>8 DEF ObjectsInv
  <2>5. QED
    BY <2>3, <2>4
<1>2. CASE Objects!Close \/ Objects!DropWriter
  <2>1. /\ oWriter' = FALSE /\ oClosed' \in BOOLEAN /\ UNCHANGED <<nextId, objects,
                                                                   Objects!readerVars>>
    BY <1>2 DEF Objects!Close, Objects!DropWriter, ObjectsInv, Objects!TypeOK, Objects!Held
  <2>2. \A n : Reading(n)' = Reading(n)
    BY <2>1 DEF Reading, Objects!readerVars
  <2>3. ObjectsCounted'
    BY <2>1, <2>2 DEF ObjectsInv, ObjectsCounted, Objects!Held, Objects!readerVars
  <2>4. QED
    BY <2>1, <2>3 DEF ObjectsInv, Objects!TypeOK, Objects!IdsIncrease, Objects!EndAfterObjects,
       Objects!NoTruncatedObject, Bookkeeping, Objects!readerVars
<1>3. ASSUME NEW n \in 1 .. Len(objects), NEW len \in Chunks, Objects!WriteChunk(n, len) PROVE ObjectsInv'
  <2>1. PICK o : o = [objects[n] EXCEPT !.remain = @ - len,
                                        !.chunks = IF Objects!ObjectHeld THEN Append(@, len) ELSE @]
    OBVIOUS
  <2>2. /\ objects' = [objects EXCEPT ![n] = o] /\ UNCHANGED <<oWriter, nextId, oClosed,
                                                               Objects!readerVars>>
        /\ objects[n].writer /\ len <= objects[n].remain
    BY <1>3, <2>1 DEF Objects!WriteChunk
  <2>3. /\ o \in ObjectState /\ o.id = objects[n].id /\ o.size = objects[n].size /\ o.writer
        /\ o.remain = objects[n].remain - len
        /\ Objects!ObjectHeld => o.chunks = Append(objects[n].chunks, len)
        /\ ~Objects!ObjectHeld => o.chunks = objects[n].chunks
        /\ o.chunks \in Seq(Nat)
    <3>1. /\ objects[n] \in ObjectState /\ objects[n].remain \in Nat /\ len \in Nat
          /\ objects[n].chunks \in Seq(Nat)
      BY <1>0, ObjectsMade
    <3>2. objects[n].remain - len \in Nat /\ Append(objects[n].chunks, len) \in Seq(Nat)
      BY <2>2, <3>1
    <3>3. CASE Objects!ObjectHeld
      BY <2>1, <2>2, <3>1, <3>2, <3>3 DEF ObjectState
    <3>4. CASE ~Objects!ObjectHeld
      BY <2>1, <2>2, <3>1, <3>2, <3>4 DEF ObjectState
    <3>5. QED
      BY <3>3, <3>4
  <2>4. Len(o.chunks) >= Len(objects[n].chunks)
    BY <1>0, <2>3, ObjectsMade
  <2>5. ASSUME Objects!Held PROVE Counted(o, Reading(n), bytes, chunk)
    <3> DEFINE c == objects[n].chunks
               L == Len(c)
    <3>1. PICK g \in [0 .. L -> Nat] :
            /\ g[0] = 0 /\ \A i \in 1 .. L : g[i] = g[i - 1] + c[i]
            /\ g[L] + objects[n].remain = objects[n].size
            /\ \A r \in Reading(n) : bytes[r] = g[chunk[r]]
      BY <2>5 DEF ObjectsInv, ObjectsCounted, Counted
    <3>2. /\ o.chunks = Append(c, len) /\ L \in Nat /\ Len(o.chunks) = L + 1 /\ o.chunks[L + 1] = len
          /\ \A i \in 1 .. L : o.chunks[i] = c[i]
      <4>1. c \in Seq(Nat) /\ len \in Nat /\ o.chunks = Append(c, len)
        BY <1>0, <2>3, <2>5, ObjectsMade DEF Objects!ObjectHeld
      <4>2. QED
        BY <4>1
    <3>3. \A r \in Reading(n) : chunk[r] \in 0 .. L
      BY ObjectsMade DEF ObjectsInv, Bookkeeping, Reading
    <3> HIDE DEF c, L
    <3>4. PICK h : h = [i \in 0 .. L + 1 |-> IF i = L + 1 THEN g[L] + len ELSE g[i]]
      OBVIOUS
    <3>5. /\ h \in [0 .. Len(o.chunks) -> Nat] /\ h[0] = 0 /\ h[L + 1] = g[L] + len
          /\ \A i \in 0 .. L : h[i] = g[i]
      BY <1>0, <3>1, <3>2, <3>4
    <3>6. \A i \in 1 .. Len(o.chunks) : h[i] = h[i - 1] + o.chunks[i]
      <4> SUFFICES ASSUME NEW i \in 1 .. L + 1 PROVE h[i] = h[i - 1] + o.chunks[i]
        BY <3>2
      <4>1. CASE i = L + 1
        BY <3>2, <3>5, <4>1
      <4>2. CASE i \in 1 .. L
        <5>1. i \in 0 .. L /\ i - 1 \in 0 .. L
          BY <3>2, <4>2
        <5>2. QED
          BY <3>1, <3>2, <3>5, <4>2, <5>1
      <4>3. QED
        BY <3>2, <4>1, <4>2
    <3>7. h[Len(o.chunks)] + o.remain = o.size
      <4>1. g[L] \in Nat /\ objects[n].remain \in Nat /\ objects[n].size \in Nat /\ len \in Nat
        <5>1. L \in 0 .. L
          BY <3>2
        <5>2. g[L] \in Nat
          BY <3>1, <5>1
        <5>3. QED
          BY <1>0, <5>2, ObjectsMade
      <4>2. QED
        BY <2>2, <2>3, <3>1, <3>2, <3>5, <4>1
    <3>8. \A r \in Reading(n) : bytes[r] = h[chunk[r]]
      BY <3>1, <3>3, <3>5
    <3>9. QED
      BY <3>5, <3>6, <3>7, <3>8 DEF Counted
  <2>6. QED
    BY <2>2, <2>3, <2>4, <2>5, ObjectChanges
<1>4. ASSUME NEW n \in 1 .. Len(objects), Objects!DropObject(n) \/ Objects!CloseObject(n) PROVE ObjectsInv'
  <2>1. PICK b \in BOOLEAN :
          /\ objects' = [objects EXCEPT ![n].writer = FALSE, ![n].closed = b]
          /\ Objects!Held /\ objects[n].remain # 0 => b
    BY <1>4, ObjectsMade DEF Objects!DropObject, Objects!CloseObject, Objects!ObjectHeld,
       ObjectState
  <2>2. PICK o : o = [objects[n] EXCEPT !.writer = FALSE, !.closed = b]
    OBVIOUS
  <2>3. objects' = [objects EXCEPT ![n] = o] /\ UNCHANGED <<oWriter, nextId, oClosed,
                                                            Objects!readerVars>>
    BY <1>4, <2>1, <2>2 DEF Objects!DropObject, Objects!CloseObject
  <2>4. /\ o \in ObjectState /\ o.id = objects[n].id /\ o.size = objects[n].size /\ o.chunks = objects[n].chunks
        /\ o.remain = objects[n].remain /\ o.closed = b
    BY <2>2, ObjectsMade DEF ObjectState
  <2>5. Objects!Held => Counted(o, Reading(n), bytes, chunk)
    BY <2>4 DEF ObjectsInv, ObjectsCounted, Counted
  <2>6. QED
    <3>1. Len(o.chunks) >= Len(objects[n].chunks)
      BY <2>4, ObjectsMade
    <3>2. Objects!Held => Counted(o, Reading(n), bytes, chunk) /\ (~o.writer /\ ~o.closed => o.remain = 0)
      BY <2>1, <2>4, <2>5
    <3>3. QED
      BY <2>3, <2>4, <3>1, <3>2, ObjectChanges
<1>5. ASSUME NEW r \in Readers, Objects!NextObject(r) PROVE ObjectsInv'
  <2>1. /\ UNCHANGED <<objects, oWriter, nextId, oClosed, outcome>> /\ oReader[r] = "subgroup"
        /\ index[r] + 1 \in 1 .. Len(objects)
        /\ index' = [index EXCEPT ![r] = index[r] + 1] /\ chunk' = [chunk EXCEPT ![r] = 0]
        /\ bytes' = [bytes EXCEPT ![r] = 0] /\ oReader' = [oReader EXCEPT ![r] = "object"]
    BY <1>5, ObjectsMade DEF Objects!NextObject, Objects!writerVars
  <2>2. Len(outcome[r]) = index[r] /\ index[r] \in Nat /\ 0 <= Len(objects[index[r] + 1].chunks)
    BY <2>1, ObjectsMade DEF ObjectsInv, Bookkeeping
  <2>3. /\ oReader'[r] = "object" /\ index'[r] = index[r] + 1 /\ chunk'[r] = 0 /\ bytes'[r] = 0
        /\ \A q \in Readers \ {r} : /\ oReader'[q] = oReader[q] /\ index'[q] = index[q] /\ chunk'[q] = chunk[q]
                                    /\ bytes'[q] = bytes[q] /\ outcome'[q] = outcome[q]
        /\ index' \in [Readers -> 0 .. Len(objects)] /\ chunk' \in [Readers -> Nat] /\ bytes' \in [Readers -> Nat]
        /\ oReader' \in [Readers -> {"subgroup", "object", "none", "err", "gone"}]
    BY <1>t, <2>1, ObjectsMade
  <2>4. QED
    <3>1. \A g : g[0] = 0 => bytes'[r] = g[chunk'[r]]
      BY <2>3
    <3>2. /\ index'[r] > 0 /\ Len(outcome'[r]) = index'[r] - 1 /\ Len(outcome'[r]) <= index'[r]
          /\ chunk'[r] <= Len(objects[index'[r]].chunks)
      BY <2>1, <2>2, <2>3
    <3>3. QED
      BY <1>t, <2>1, <2>3, <3>1, <3>2, ReaderMoves
<1>6. ASSUME NEW r \in Readers, Objects!NextEnd(r) PROVE ObjectsInv'
  <2>1. /\ UNCHANGED <<objects, oWriter, nextId, oClosed, index, chunk, bytes,
                       outcome>> /\ oReader[r] = "subgroup"
        /\ index[r] = Len(objects) /\ ~oWriter
        /\ oReader' \in [Readers -> {"subgroup", "object", "none", "err", "gone"}] /\ oReader'[r] \in {"none", "err"}
        /\ \A q \in Readers \ {r} : oReader'[q] = oReader[q]
    BY <1>6, <1>t DEF Objects!NextEnd, Objects!writerVars, ObjectsInv
  <2>2. Len(outcome[r]) <= index[r]
    BY DEF ObjectsInv, Bookkeeping
  <2>3. QED
    BY <1>t, <2>1, <2>2, ReaderMoves
<1>7. ASSUME NEW r \in Readers, Objects!ReadChunk(r) PROVE ObjectsInv'
  <2>1. /\ UNCHANGED <<objects, oWriter, nextId, oClosed, oReader, index,
                       outcome>> /\ oReader[r] = "object"
        /\ chunk[r] < Len(objects[index[r]].chunks)
        /\ chunk' = [chunk EXCEPT ![r] = chunk[r] + 1]
        /\ bytes' = [bytes EXCEPT ![r] = bytes[r] + objects[index[r]].chunks[chunk[r] + 1]]
    BY <1>7 DEF Objects!ReadChunk, Objects!writerVars, Objects!Current
  <2>2. /\ index[r] \in 1 .. Len(objects) /\ index[r] > 0 /\ Len(outcome[r]) = index[r] - 1
        /\ Len(outcome[r]) <= index[r] /\ r \in Reading(index[r])
    BY <2>1, ObjectsMade DEF ObjectsInv, Bookkeeping, Reading
  <2>3. PICK c \in Seq(Nat) : c = objects[index[r]].chunks
    BY <2>2, ObjectsMade
  <2>4. chunk[r] + 1 \in 1 .. Len(c) /\ c[chunk[r] + 1] \in Nat /\ (chunk[r] + 1) - 1 = chunk[r]
    <3>1. chunk[r] \in Nat /\ Len(c) \in Nat
      BY <2>3, ObjectsMade
    <3>2. chunk[r] + 1 \in 1 .. Len(c)
      BY <2>1, <2>3, <3>1
    <3>3. QED
      BY <3>1, <3>2, ElementOfSeq
  <2>5. /\ chunk'[r] = chunk[r] + 1 /\ bytes'[r] = bytes[r] + c[chunk[r] + 1]
        /\ chunk' \in [Readers -> Nat] /\ bytes' \in [Readers -> Nat]
        /\ \A q \in Readers \ {r} : chunk'[q] = chunk[q] /\ bytes'[q] = bytes[q]
    <3>1. bytes[r] + c[chunk[r] + 1] \in Nat /\ chunk[r] + 1 \in Nat
      BY <1>t, <2>4
    <3>2. bytes' = [bytes EXCEPT ![r] = bytes[r] + c[chunk[r] + 1]]
      BY <2>1, <2>3
    <3>3. QED
      BY <1>t, <2>1, <3>1, <3>2
  <2>6. chunk'[r] <= Len(objects[index[r]].chunks)
    BY <2>3, <2>4, <2>5
  <2>7. \A g \in [0 .. Len(c) -> Nat] :
           (\A i \in 1 .. Len(c) : g[i] = g[i - 1] + c[i]) /\ bytes[r] = g[chunk[r]] => bytes'[r] = g[chunk'[r]]
    BY <2>4, <2>5
  <2>8. QED
    <3>1. index'[r] = index[r] /\ oReader'[r] = "object" /\ outcome'[r] = outcome[r] /\ oReader' = oReader
          /\ outcome' = outcome /\ index' = index
      BY <2>1
    <3>2. \A q \in Readers \ {r} : /\ oReader'[q] = oReader[q] /\ index'[q] = index[q] /\ chunk'[q] = chunk[q]
                                   /\ bytes'[q] = bytes[q] /\ outcome'[q] = outcome[q]
      BY <2>1, <2>5
    <3>3. /\ index'[r] > 0 /\ Len(outcome'[r]) = index'[r] - 1 /\ Len(outcome'[r]) <= index'[r]
          /\ chunk'[r] <= Len(objects[index'[r]].chunks)
      BY <2>2, <2>6, <3>1
    <3>4. \A g \in [0 .. Len(objects[index'[r]].chunks) -> Nat] :
            /\ g[0] = 0
            /\ \A i \in 1 .. Len(objects[index'[r]].chunks) : g[i] = g[i - 1] + objects[index'[r]].chunks[i]
            /\ r \in Reading(index'[r]) => bytes[r] = g[chunk[r]]
            => bytes'[r] = g[chunk'[r]]
      BY <2>2, <2>3, <2>7, <3>1
    <3>5. /\ oReader' \in [Readers -> {"subgroup", "object", "none", "err", "gone"}]
          /\ index' \in [Readers -> 0 .. Len(objects)]
          /\ outcome' \in [Readers -> Seq([kind : {"whole", "broken"}, bytes : Nat])]
          /\ \A n \in 1 .. Len(outcome'[r]) : outcome'[r][n].kind = "whole" => outcome'[r][n].bytes = objects[n].size
      BY <1>t, <3>1
    <3>6. UNCHANGED <<objects, oWriter, nextId, oClosed>> /\ oReader[r] # "gone"
          /\ chunk' \in [Readers -> Nat] /\ bytes' \in [Readers -> Nat]
      BY <2>1, <2>5
    <3>7. QED
      BY <3>1, <3>2, <3>3, <3>4, <3>5, <3>6, ReaderMoves
<1>8. ASSUME NEW r \in Readers, Objects!ReadEnd(r) PROVE ObjectsInv'
  <2>1. PICK n \in 1 .. Len(objects) : n = index[r] /\ Len(outcome[r]) = n - 1
    <3>1. oReader[r] = "object"
      BY <1>8 DEF Objects!ReadEnd
    <3>2. index[r] > 0 /\ Len(outcome[r]) = index[r] - 1
      BY <3>1 DEF ObjectsInv, Bookkeeping
    <3>3. index[r] \in 1 .. Len(objects)
      BY <3>2, ObjectsMade
    <3>4. QED
      BY <3>2, <3>3
  <2>2. PICK k : k = [kind |-> IF objects[n].closed THEN "broken" ELSE "whole", bytes |-> bytes[r]]
    OBVIOUS
  <2>3. /\ UNCHANGED <<objects, oWriter, nextId, oClosed, index, chunk,
                       bytes>> /\ oReader[r] = "object"
        /\ chunk[r] = Len(objects[n].chunks) /\ (objects[n].closed \/ ~objects[n].writer)
        /\ oReader' = [oReader EXCEPT ![r] = "subgroup"]
        /\ outcome' = [outcome EXCEPT ![r] = Append(outcome[r], k)]
    BY <1>8, <2>1, <2>2 DEF Objects!ReadEnd, Objects!writerVars, Objects!Current
  <2>4. k \in [kind : {"whole", "broken"}, bytes : Nat] /\ (k.kind = "whole" => k.bytes = objects[n].size)
    <3>1. k \in [kind : {"whole", "broken"}, bytes : Nat] /\ k.bytes = bytes[r]
          /\ (k.kind = "whole" => ~objects[n].closed)
      BY <2>2, ObjectsMade
    <3>2. ASSUME ~objects[n].closed PROVE bytes[r] = objects[n].size
      <4>1. Objects!Held /\ r \in Reading(n)
        BY <2>1, <2>3 DEF Objects!Held, Reading
      <4>2. Counted(objects[n], Reading(n), bytes, chunk) /\ objects[n].remain = 0
        BY <2>3, <3>2, <4>1 DEF ObjectsInv, ObjectsCounted
      <4>3. PICK g \in [0 .. Len(objects[n].chunks) -> Nat] :
              /\ g[Len(objects[n].chunks)] + objects[n].remain = objects[n].size
              /\ \A q \in Reading(n) : bytes[q] = g[chunk[q]]
        BY <4>2 DEF Counted
      <4>4. g[Len(objects[n].chunks)] \in Nat
        BY ObjectsMade
      <4>5. QED
        BY <2>3, <4>1, <4>2, <4>3, <4>4
    <3>3. QED
      BY <3>1, <3>2
  <2>5. /\ outcome'[r] = Append(outcome[r], k)
        /\ outcome' \in [Readers -> Seq([kind : {"whole", "broken"}, bytes : Nat])]
        /\ oReader'[r] = "subgroup" /\ oReader' \in [Readers -> {"subgroup", "object", "none", "err", "gone"}]
        /\ \A q \in Readers \ {r} : outcome'[q] = outcome[q] /\ oReader'[q] = oReader[q]
    <3>1. Append(outcome[r], k) \in Seq([kind : {"whole", "broken"}, bytes : Nat])
      BY <2>4, ObjectsMade
    <3>2. QED
      BY <1>t, <2>3, <3>1
  <2>6. /\ Len(outcome'[r]) = n /\ outcome'[r][n] = k
        /\ \A i \in 1 .. n - 1 : outcome'[r][i] = outcome[r][i]
    BY <2>1, <2>4, <2>5, ObjectsMade
  <2>7. \A i \in 1 .. Len(outcome'[r]) : outcome'[r][i].kind = "whole" => outcome'[r][i].bytes = objects[i].size
    <3> SUFFICES ASSUME NEW i \in 1 .. n, outcome'[r][i].kind = "whole" PROVE outcome'[r][i].bytes = objects[i].size
      BY <2>6
    <3>1. CASE i = n
      BY <2>4, <2>6, <3>1
    <3>2. CASE i # n
      <4>1. i \in 1 .. n - 1 /\ i \in 1 .. Len(outcome[r])
        BY <2>1, <3>2, ObjectsMade
      <4>2. QED
        BY <1>t, <2>6, <4>1
    <3>3. QED
      BY <3>1, <3>2
  <2>8. index'[r] = n /\ index' = index /\ n <= n
    BY <2>1, <2>3
  <2>9. QED
    BY <1>t, <2>1, <2>3, <2>5, <2>6, <2>7, <2>8, ReaderMoves
<1>9. ASSUME NEW r \in Readers, Objects!DropReader(r) PROVE ObjectsInv'
  <2>1. /\ UNCHANGED <<objects, oWriter, nextId, oClosed, index, chunk, bytes,
                       outcome>> /\ oReader[r] # "gone"
        /\ oReader' \in [Readers -> {"subgroup", "object", "none", "err", "gone"}] /\ oReader'[r] = "gone"
        /\ \A q \in Readers \ {r} : oReader'[q] = oReader[q]
    BY <1>9, <1>t DEF Objects!DropReader, Objects!writerVars
  <2>2. Len(outcome[r]) <= index[r]
    BY DEF ObjectsInv, Bookkeeping
  <2>3. QED
    BY <1>t, <2>1, <2>2, ReaderMoves
<1>10. CASE UNCHANGED Objects!vars
  <2>1. \A n : Reading(n)' = Reading(n)
    BY <1>10 DEF Reading, Objects!vars
  <2>2. ObjectsCounted'
    BY <1>10, <2>1 DEF ObjectsInv, ObjectsCounted, Objects!Held, Objects!vars
  <2>3. QED
    BY <1>10, <2>2 DEF ObjectsInv, Objects!TypeOK, Objects!IdsIncrease, Objects!EndAfterObjects,
       Objects!NoTruncatedObject, Bookkeeping, Objects!vars
<1>11. DOMAIN objects = 1 .. Len(objects)
  BY ObjectsMade
<1>12. QED
  BY <1>1, <1>2, <1>3, <1>4, <1>5, <1>6, <1>7, <1>8, <1>9, <1>10, <1>11 DEF Objects!Next

-----------------------------------------------------------------------------
(* One track                                                               *)

(* The TrackWriter is live until a mode takes over or the track ends: only   *)
(* then has the track a mode, an error, or an answer that it has ended.      *)
ModeInv ==
  /\ Mode!TypeOK
  /\ mode # "none" <=> modeWriter # "none"
  /\ mode # "none" => kWriter = "used"
  /\ kClosed => kWriter = "gone"
  /\ \A r \in Readers : call[r] \in {"mode_done", "mode_err"} => kWriter # "live"
  /\ Mode!StaleIsFinal /\ Mode!AdvertisedIsEnforced /\ Mode!TapOutlivesMode /\ Mode!DoneMeansNoMode

\* A new track is as ModeInv says.
LEMMA ModeStart == Mode!Init => ModeInv
  BY DEF Mode!Init, ModeInv, Mode!TypeOK, Mode!StaleIsFinal, Mode!AdvertisedIsEnforced,
         Mode!TapOutlivesMode, Mode!DoneMeansNoMode, Mode!Stale, Mode!CanWrite, Mode!Calls, Mode!NoWindow, Mode!Modes

\* Every step of the track keeps it so.
LEMMA ModeStep == ASSUME ModeInv, [Mode!Next]_(Mode!vars) PROVE ModeInv'
<1>0. Windows \subseteq Nat \ {0} /\ Mode!NoWindow = 0
  BY ServeAssumption DEF Mode!TrackAssumption, Mode!NoWindow
<1> USE <1>0 DEF ModeInv, Mode!TypeOK, Mode!StaleIsFinal, Mode!AdvertisedIsEnforced,
      Mode!TapOutlivesMode, Mode!DoneMeansNoMode, Mode!CanWrite, Mode!Calls, Mode!Results, Mode!Modes,
      Mode!trackVars, Mode!Stale
<1>1. ASSUME NEW n \in Windows, Mode!SetHistoryWindow(n) PROVE ModeInv'
  BY <1>1 DEF Mode!SetHistoryWindow
<1>2. ASSUME NEW m \in Mode!Modes, Mode!Become(m) PROVE ModeInv'
  <2>1. CASE Mode!Held
    <3>1. Mode!Inherited(m) \in Windows \cup {0, 1}
      BY DEF Mode!Inherited
    <3>2. QED
      BY <1>2, <2>1, <3>1 DEF Mode!Become, Mode!Inherited, Mode!EndTaps
  <2>2. CASE ~Mode!Held
    BY <1>2, <2>2 DEF Mode!Become, Mode!EndTaps
  <2>3. QED
    BY <2>1, <2>2
<1>3. CASE Mode!CloseTrack
  BY <1>3 DEF Mode!CloseTrack, Mode!EndTaps, Mode!Held
<1>4. CASE Mode!DropTrack
  BY <1>4 DEF Mode!DropTrack, Mode!EndTaps
<1>5. ASSUME NEW how \in {"closed", "gone"}, Mode!EndMode(how) PROVE ModeInv'
  BY <1>5 DEF Mode!EndMode, Mode!EndTaps
<1>6. ASSUME NEW r \in Readers, NEW c \in Mode!Calls \ {"idle"}, Mode!Begin(r, c) PROVE ModeInv'
  BY <1>6 DEF Mode!Begin
<1>7. ASSUME NEW r \in Readers, Mode!ModeReturns(r) PROVE ModeInv'
  BY <1>7 DEF Mode!ModeReturns
<1>8. ASSUME NEW r \in Readers, Mode!ClosedReturns(r) PROVE ModeInv'
  BY <1>8 DEF Mode!ClosedReturns
<1>9. ASSUME NEW r \in Readers, Mode!IsClosedReturns(r) PROVE ModeInv'
  BY <1>9 DEF Mode!IsClosedReturns
<1>10. ASSUME NEW r \in Readers, Mode!TakeTap(r) PROVE ModeInv'
  BY <1>10 DEF Mode!TakeTap, Mode!TapsHeld
<1>11. ASSUME NEW r \in Readers, Mode!DropReader(r) PROVE ModeInv'
  BY <1>11 DEF Mode!DropReader
<1>12. CASE UNCHANGED Mode!vars
  BY <1>12 DEF Mode!vars
<1>13. QED
  BY <1>1, <1>2, <1>3, <1>4, <1>5, <1>6, <1>7, <1>8, <1>9, <1>10, <1>11, <1>12 DEF Mode!Next

-----------------------------------------------------------------------------
(* The tracks of a broadcast                                               *)

(* What drop() has drained is no longer in the queue, in which every track   *)
(* waits once.                                                               *)
TrackEntry == [name : Names, writer : {"queued", "task", "serving", "gone"}]
BroadcastInv ==
  /\ Broadcast!TypeOK /\ Broadcast!OneTrackPerName /\ Broadcast!QueueHoldsWriters
  /\ request # "drained" => drained = <<>>
  /\ \A i \in DOMAIN tQueue, j \in DOMAIN drained : tQueue[i] # drained[j]

\* A broadcast with no track yet.
LEMMA BroadcastStart == Broadcast!Init => BroadcastInv
<1> SUFFICES ASSUME Broadcast!Init PROVE BroadcastInv
  OBVIOUS
<1>1. Broadcast!TypeOK
  BY DEF Broadcast!Init, Broadcast!TypeOK, TrackEntry, Broadcast!NoTrack, Broadcast!Numbers
<1>2. Broadcast!OneTrackPerName /\ Broadcast!QueueHoldsWriters
  BY DEF Broadcast!Init, Broadcast!OneTrackPerName, Broadcast!QueueHoldsWriters, Broadcast!Numbers
<1>3. QED
  BY <1>1, <1>2 DEF Broadcast!Init, BroadcastInv

\* The types of the broadcast, spelt out.
LEMMA TracksMade ==
  ASSUME BroadcastInv
  PROVE  /\ Len(tracks) \in Nat /\ Len(tQueue) \in Nat /\ Len(drained) \in Nat
         /\ DOMAIN tracks = 1 .. Len(tracks) /\ DOMAIN tQueue = 1 .. Len(tQueue)
         /\ DOMAIN drained = 1 .. Len(drained)
         /\ \A n \in 1 .. Len(tracks) :
              /\ tracks[n] \in TrackEntry
              /\ n \in Nat /\ n # 0
         /\ \A i \in 1 .. Len(tQueue) : tQueue[i] \in 1 .. Len(tracks)
         /\ \A i \in 1 .. Len(drained) : drained[i] \in 1 .. Len(tracks)
<1>1. /\ tracks \in Seq(TrackEntry)
      /\ tQueue \in Seq(1 .. Len(tracks)) /\ drained \in Seq(1 .. Len(tracks))
  BY DEF BroadcastInv, Broadcast!TypeOK, TrackEntry, Broadcast!Numbers
<1>2. /\ Len(tracks) \in Nat /\ Len(tQueue) \in Nat /\ Len(drained) \in Nat
      /\ DOMAIN tracks = 1 .. Len(tracks) /\ DOMAIN tQueue = 1 .. Len(tQueue)
      /\ DOMAIN drained = 1 .. Len(drained)
  BY <1>1
<1>3. \A n \in 1 .. Len(tracks) : tracks[n] \in TrackEntry
  BY <1>1, ElementOfSeq
<1>4. \A i \in 1 .. Len(tQueue) : tQueue[i] \in 1 .. Len(tracks)
  BY <1>1, ElementOfSeq
<1>5. \A i \in 1 .. Len(drained) : drained[i] \in 1 .. Len(tracks)
  BY <1>1, ElementOfSeq
<1>6. QED
  BY <1>2, <1>3, <1>4, <1>5

\* Only subscribers change.
LEMMA SubscribersOnly ==
  ASSUME BroadcastInv, UNCHANGED <<tracks, tQueue, request, drained, tWriter, displaced>>,
         sub' \in [Subscribers -> [at : {"idle", "waiting", "served", "ended", "refused", "left"},
                                  track : 0 .. Len(tracks)]],
         cache' \in [Names -> 0 .. Len(tracks)],
         \A n \in Names : cache'[n] # cache[n] => ~Broadcast!Hit(n)
  PROVE  BroadcastInv'
<1>1. Broadcast!TypeOK'
  BY DEF BroadcastInv, Broadcast!TypeOK, TrackEntry, Broadcast!Numbers
<1>2. Broadcast!OneTrackPerName'
  <2>1. \A n \in 1 .. Len(tracks) : tracks[n].name \in Names /\ n # 0
    BY TracksMade DEF TrackEntry
  <2>2. QED
    BY <2>1 DEF BroadcastInv, Broadcast!Numbers, Broadcast!OneTrackPerName, Broadcast!Hit,
       Broadcast!Open, Broadcast!NoTrack
<1>3. Broadcast!QueueHoldsWriters'
  BY DEF BroadcastInv, Broadcast!QueueHoldsWriters, Broadcast!Numbers, Broadcast!SE!Contains
<1>4. QED
  BY <1>1, <1>2, <1>3 DEF BroadcastInv

\* A new track, which its name is cached for: requested and queued, or made by
\* create(), which may push out an open one.
LEMMA TrackMade ==
  ASSUME BroadcastInv, NEW name \in Names, NEW w \in {"queued", "task"},
         tracks' = Append(tracks, [name |-> name, writer |-> w]),
         cache' = [cache EXCEPT ![name] = Len(tracks) + 1],
         tQueue' = IF w = "queued" THEN Append(tQueue, Len(tracks) + 1) ELSE tQueue,
         displaced' = IF Broadcast!Hit(name) THEN displaced \cup {cache[name]} ELSE displaced,
         UNCHANGED <<request, drained, tWriter>>,
         sub' \in [Subscribers -> [at : {"idle", "waiting", "served", "ended", "refused", "left"},
                                  track : 0 .. Len(tracks) + 1]]
  PROVE  BroadcastInv'
<1> DEFINE N == Len(tracks)
<1>1. /\ Len(tracks') = N + 1 /\ tracks' \in Seq(TrackEntry)
      /\ \A n \in 1 .. N : tracks'[n] = tracks[n]
      /\ tracks'[N + 1].name = name /\ tracks'[N + 1].writer = w
  BY DEF BroadcastInv, Broadcast!TypeOK, TrackEntry
<1>2. /\ tQueue' \in Seq(1 .. N + 1)
      /\ w = "task" => tQueue' = tQueue
      /\ w = "queued" => /\ Len(tQueue') = Len(tQueue) + 1 /\ tQueue'[Len(tQueue) + 1] = N + 1
                         /\ \A i \in 1 .. Len(tQueue) : tQueue'[i] = tQueue[i]
  <2>1. tQueue \in Seq(1 .. N + 1) /\ N + 1 \in 1 .. N + 1
    BY TracksMade DEF BroadcastInv, Broadcast!TypeOK, TrackEntry, Broadcast!Numbers
  <2>2. CASE w = "task"
    BY <2>1, <2>2
  <2>3. CASE w = "queued"
    <3>1. tQueue' = Append(tQueue, N + 1)
      BY <2>3
    <3>2. QED
      BY <2>1, <2>3, <3>1
  <2>4. QED
    BY <2>2, <2>3
<1>3. Broadcast!TypeOK'
  <2>1. drained' \in Seq(1 .. N + 1) /\ displaced' \subseteq 1 .. N + 1 /\ cache' \in [Names -> 0 .. N + 1]
    <3>1. drained \in Seq(1 .. N + 1)
      BY TracksMade DEF BroadcastInv, Broadcast!TypeOK, TrackEntry, Broadcast!Numbers
    <3>2. cache[name] \in 0 .. N /\ (Broadcast!Hit(name) => cache[name] # 0)
      BY DEF BroadcastInv, Broadcast!TypeOK, TrackEntry, Broadcast!Hit, Broadcast!NoTrack
    <3>3. displaced' \subseteq 1 .. N + 1
      <4>1. displaced \subseteq 1 .. N /\ 1 .. N \subseteq 1 .. N + 1 /\ 0 .. N \subseteq 0 .. N + 1
        BY TracksMade DEF BroadcastInv, Broadcast!TypeOK, TrackEntry, Broadcast!Numbers
      <4>2. Broadcast!Hit(name) => cache[name] \in 1 .. N + 1
        BY <3>2, TracksMade
      <4>3. QED
        BY <4>1, <4>2
    <3>4. cache' \in [Names -> 0 .. N + 1]
      BY TracksMade DEF BroadcastInv, Broadcast!TypeOK, TrackEntry
    <3>5. QED
      BY <3>1, <3>3, <3>4
  <2>2. QED
    BY <1>1, <1>2, <2>1 DEF BroadcastInv, Broadcast!TypeOK, TrackEntry, Broadcast!Numbers
<1>4. Broadcast!OneTrackPerName'
  <2> SUFFICES ASSUME NEW n \in 1 .. N + 1, tracks'[n].writer # "gone"
               PROVE  cache'[tracks'[n].name] = n \/ n \in displaced'
    BY <1>1 DEF Broadcast!OneTrackPerName, Broadcast!Numbers, Broadcast!Open
  <2>1. CASE n = N + 1
    BY <1>1, <2>1 DEF BroadcastInv, Broadcast!TypeOK, TrackEntry
  <2>2. CASE n \in 1 .. N
    <3>1. tracks'[n] = tracks[n] /\ tracks[n].name \in Names /\ (cache[tracks[n].name] = n \/ n \in displaced)
      BY <1>1, <2>2, TracksMade DEF BroadcastInv, Broadcast!OneTrackPerName, Broadcast!Numbers,
         Broadcast!Open, TrackEntry
    <3>2. CASE tracks[n].name = name /\ cache[name] = n
      BY <2>2, <3>1, <3>2, TracksMade DEF Broadcast!Hit, Broadcast!Open, Broadcast!NoTrack
    <3>3. QED
      BY <3>1, <3>2 DEF BroadcastInv, Broadcast!TypeOK, TrackEntry
  <2>3. QED
    BY <2>1, <2>2, TracksMade
<1>5. Broadcast!QueueHoldsWriters' /\ \A i \in DOMAIN tQueue', j \in DOMAIN drained' : tQueue'[i] # drained'[j]
  <2>1. /\ DOMAIN tQueue' = 1 .. Len(tQueue') /\ DOMAIN drained' = 1 .. Len(drained)
        /\ DOMAIN tQueue = 1 .. Len(tQueue) /\ Len(tQueue') \in Nat
    <3>1. tQueue' \in Seq(1 .. N + 1)
      BY <1>2
    <3>2. DOMAIN tQueue' = 1 .. Len(tQueue') /\ Len(tQueue') \in Nat
      BY <3>1
    <3>3. QED
      BY <3>2, TracksMade
  <2>2. /\ \A i, j \in 1 .. Len(tQueue) : i # j => tQueue[i] # tQueue[j]
        /\ \A i \in 1 .. Len(tQueue), j \in 1 .. Len(drained) : tQueue[i] # drained[j]
    BY <2>1, TracksMade DEF BroadcastInv, Broadcast!QueueHoldsWriters
  <2>3. /\ \A i, j \in DOMAIN tQueue' : i # j => tQueue'[i] # tQueue'[j]
        /\ \A i \in DOMAIN tQueue', j \in DOMAIN drained' : tQueue'[i] # drained'[j]
    <3>1. CASE w = "task"
      BY <1>2, <2>1, <2>2, <3>1
    <3>2. CASE w = "queued"
      BY <1>2, <2>1, <2>2, <3>2, TracksMade
    <3>3. QED
      BY <3>1, <3>2
  <2>4. ASSUME NEW n \in 1 .. N + 1
        PROVE  tracks'[n].writer = "queued" <=>
                 (\E i \in 1 .. Len(tQueue') : tQueue'[i] = n) \/ (\E i \in 1 .. Len(drained') : drained'[i] = n)
    <3>1. CASE n = N + 1
      <4>1. CASE w = "queued"
        <5>1. Len(tQueue) + 1 \in 1 .. Len(tQueue') /\ tQueue'[Len(tQueue) + 1] = N + 1
          BY <1>2, <4>1, TracksMade
        <5>2. QED
          BY <1>1, <3>1, <4>1, <5>1
      <4>2. CASE w = "task"
        BY <1>1, <1>2, <3>1, <4>2, TracksMade
      <4>3. QED
        BY <4>1, <4>2
    <3>2. CASE n \in 1 .. N
      <4>1. /\ tracks'[n] = tracks[n] /\ n # N + 1
            /\ tracks[n].writer = "queued" <=>
                 (\E i \in 1 .. Len(tQueue) : tQueue[i] = n) \/ (\E i \in 1 .. Len(drained) : drained[i] = n)
        BY <1>1, <3>2, TracksMade DEF BroadcastInv, Broadcast!QueueHoldsWriters,
           Broadcast!Numbers, Broadcast!SE!Contains
      <4>2. (\E i \in 1 .. Len(tQueue') : tQueue'[i] = n) <=> (\E i \in 1 .. Len(tQueue) : tQueue[i] = n)
        <5>1. CASE w = "task"
          BY <1>2, <5>1
        <5>2. CASE w = "queued"
          BY <1>2, <4>1, <5>2, TracksMade
        <5>3. QED
          BY <5>1, <5>2
      <4>3. QED
        BY <4>1, <4>2
    <3>3. QED
      BY <3>1, <3>2, TracksMade
  <2>5. Broadcast!QueueHoldsWriters'
    BY <1>1, <2>3, <2>4 DEF Broadcast!QueueHoldsWriters, Broadcast!Numbers, Broadcast!SE!Contains
  <2>6. QED
    BY <2>3, <2>5
<1>6. QED
  BY <1>3, <1>4, <1>5 DEF BroadcastInv

\* Writers of tracks move on, the cache stays: the names are still held right.
LEMMA WritersMove ==
  ASSUME BroadcastInv, UNCHANGED <<cache, tWriter, sub, displaced>>,
         tracks' \in Seq(TrackEntry),
         Len(tracks') = Len(tracks),
         \A n \in 1 .. Len(tracks) :
           tracks'[n].name = tracks[n].name /\ (tracks'[n].writer # "gone" => tracks[n].writer # "gone"),
         tQueue' \in Seq(1 .. Len(tracks)), drained' \in Seq(1 .. Len(tracks)),
         request' \in {"live", "drained", "gone"}, request' # "drained" => drained' = <<>>,
         \A i, j \in 1 .. Len(tQueue') : i # j => tQueue'[i] # tQueue'[j],
         \A i \in 1 .. Len(tQueue'), j \in 1 .. Len(drained') : tQueue'[i] # drained'[j],
         \A n \in 1 .. Len(tracks) : tracks'[n].writer = "queued" <=>
           (\E i \in 1 .. Len(tQueue') : tQueue'[i] = n) \/ (\E i \in 1 .. Len(drained') : drained'[i] = n)
  PROVE  BroadcastInv'
<1>1. Broadcast!TypeOK'
  BY DEF BroadcastInv, Broadcast!TypeOK, TrackEntry, Broadcast!Numbers
<1>2. Broadcast!OneTrackPerName'
  BY DEF BroadcastInv, Broadcast!OneTrackPerName, Broadcast!Numbers, Broadcast!Open
<1>3. DOMAIN tQueue' = 1 .. Len(tQueue') /\ DOMAIN drained' = 1 .. Len(drained')
  OBVIOUS
<1>4. Broadcast!QueueHoldsWriters'
  BY <1>3 DEF Broadcast!QueueHoldsWriters, Broadcast!Numbers, Broadcast!SE!Contains
<1>5. QED
  BY <1>1, <1>2, <1>3, <1>4 DEF BroadcastInv

\* One track gets another writer.
LEMMA WriterSet ==
  ASSUME BroadcastInv, NEW h \in 1 .. Len(tracks), NEW w \in {"task", "serving", "gone"},
         tracks' = [tracks EXCEPT ![h].writer = w]
  PROVE  /\ tracks' \in Seq(TrackEntry) /\ Len(tracks') = Len(tracks)
         /\ tracks'[h].writer = w /\ tracks'[h].name = tracks[h].name
         /\ \A n \in 1 .. Len(tracks) : n # h => tracks'[n] = tracks[n]
<1>1. tracks[h] \in TrackEntry /\ tracks \in Seq(TrackEntry)
  BY TracksMade DEF BroadcastInv, Broadcast!TypeOK, TrackEntry
<1>2. PICK e \in TrackEntry : e = [tracks[h] EXCEPT !.writer = w] /\ e.writer = w /\ e.name = tracks[h].name
  BY <1>1 DEF TrackEntry
<1>3. tracks' = [tracks EXCEPT ![h] = e]
  BY <1>2
<1>4. QED
  BY <1>1, <1>2, <1>3

\* Whose writer waits, and where.
LEMMA QueuedOnce ==
  ASSUME BroadcastInv
  PROVE  /\ \A i, j \in 1 .. Len(tQueue) : i # j => tQueue[i] # tQueue[j]
         /\ \A i \in 1 .. Len(tQueue), j \in 1 .. Len(drained) : tQueue[i] # drained[j]
         /\ \A n \in 1 .. Len(tracks) : tracks[n].writer = "queued" <=>
              (\E i \in 1 .. Len(tQueue) : tQueue[i] = n) \/ (\E i \in 1 .. Len(drained) : drained[i] = n)
  BY TracksMade DEF BroadcastInv, Broadcast!QueueHoldsWriters, Broadcast!Numbers,
     Broadcast!SE!Contains

\* Every step of the broadcast keeps BroadcastInv.
LEMMA BroadcastStep == ASSUME BroadcastInv, [Broadcast!Next]_(Broadcast!vars) PROVE BroadcastInv'
<1>0. /\ tracks \in Seq(TrackEntry)
      /\ tQueue \in Seq(1 .. Len(tracks)) /\ drained \in Seq(1 .. Len(tracks))
      /\ cache \in [Names -> 0 .. Len(tracks)] /\ request \in {"live", "drained", "gone"}
      /\ sub \in [Subscribers -> [at : {"idle", "waiting", "served", "ended", "refused", "left"},
                                  track : 0 .. Len(tracks)]]
  BY DEF BroadcastInv, Broadcast!TypeOK, TrackEntry, Broadcast!Numbers
<1>1. ASSUME NEW s \in Subscribers, NEW n \in Names, Broadcast!SubscribeHit(s, n) PROVE BroadcastInv'
  BY <1>0, <1>1, SubscribersOnly DEF Broadcast!SubscribeHit
<1>2. ASSUME NEW s \in Subscribers, NEW n \in Names, Broadcast!SubscribeMiss(s, n) PROVE BroadcastInv'
  <2>1. sub' \in [Subscribers -> [at : {"idle", "waiting", "served", "ended", "refused", "left"},
                                  track : 0 .. Len(tracks) + 1]]
    <3>1. sub \in [Subscribers -> [at : {"idle", "waiting", "served", "ended", "refused", "left"},
                                  track : 0 .. Len(tracks) + 1]]
      BY <1>0, TracksMade
    <3>2. [at |-> "waiting", track |-> Len(tracks) + 1] \in
            [at : {"idle", "waiting", "served", "ended", "refused", "left"}, track : 0 .. Len(tracks) + 1]
      BY TracksMade
    <3>3. QED
      BY <1>2, <3>1, <3>2 DEF Broadcast!SubscribeMiss
  <2>2. QED
    BY <1>2, <2>1, TrackMade DEF Broadcast!SubscribeMiss, Broadcast!Remember
<1>3. ASSUME NEW s \in Subscribers, NEW n \in Names, Broadcast!SubscribeNone(s, n) PROVE BroadcastInv'
  <2>1. cache' \in [Names -> 0 .. Len(tracks)] /\ \A m \in Names : cache'[m] # cache[m] => m = n
    BY <1>0, <1>3, TracksMade DEF Broadcast!SubscribeNone, Broadcast!NoTrack
  <2>2. sub' \in [Subscribers -> [at : {"idle", "waiting", "served", "ended", "refused", "left"},
                                  track : 0 .. Len(tracks)]]
    BY <1>0, <1>3, TracksMade DEF Broadcast!SubscribeNone, Broadcast!NoTrack
  <2>3. QED
    BY <1>3, <2>1, <2>2, SubscribersOnly DEF Broadcast!SubscribeNone
<1>4. ASSUME NEW s \in Subscribers, Broadcast!Answer(s) PROVE BroadcastInv'
  <2>1. sub' \in [Subscribers -> [at : {"idle", "waiting", "served", "ended", "refused", "left"},
                                  track : 0 .. Len(tracks)]]
    BY <1>0, <1>4 DEF Broadcast!Answer
  <2>2. QED
    BY <1>0, <1>4, <2>1, SubscribersOnly DEF Broadcast!Answer
<1>5. ASSUME NEW s \in Subscribers, Broadcast!Unsubscribe(s) PROVE BroadcastInv'
  <2>1. sub' \in [Subscribers -> [at : {"idle", "waiting", "served", "ended", "refused", "left"},
                                  track : 0 .. Len(tracks)]]
    BY <1>0, <1>5, TracksMade DEF Broadcast!Unsubscribe, Broadcast!NoTrack
  <2>2. QED
    BY <1>0, <1>5, <2>1, SubscribersOnly DEF Broadcast!Unsubscribe
<1>6. ASSUME NEW s \in Subscribers, Broadcast!Leave(s) PROVE BroadcastInv'
  <2>1. sub' \in [Subscribers -> [at : {"idle", "waiting", "served", "ended", "refused", "left"},
                                  track : 0 .. Len(tracks)]]
    BY <1>0, <1>6, TracksMade DEF Broadcast!Leave, Broadcast!NoTrack
  <2>2. QED
    BY <1>0, <1>6, <2>1, SubscribersOnly DEF Broadcast!Leave
<1>7. CASE Broadcast!NextRequest
  <2>1. /\ tQueue # <<>> /\ drained = <<>> /\ drained' = drained /\ request' = request /\ request = "live"
        /\ tracks' = [tracks EXCEPT ![Head(tQueue)].writer = "task"] /\ tQueue' = Tail(tQueue)
        /\ UNCHANGED <<cache, tWriter, sub, displaced>>
    BY <1>7 DEF Broadcast!NextRequest, BroadcastInv
  <2>2. /\ Head(tQueue) = tQueue[1] /\ Len(tQueue) >= 1 /\ 1 \in 1 .. Len(tQueue)
        /\ tQueue' \in Seq(1 .. Len(tracks)) /\ Len(tQueue') = Len(tQueue) - 1
        /\ \A i \in 1 .. Len(tQueue') : tQueue'[i] = tQueue[i + 1] /\ i + 1 \in 1 .. Len(tQueue)
    BY <1>0, <2>1
  <2>3. PICK h \in 1 .. Len(tracks) : h = Head(tQueue) /\ h = tQueue[1]
    BY <2>2, TracksMade
  <2>4. /\ tracks' \in Seq(TrackEntry)
        /\ Len(tracks') = Len(tracks)
        /\ tracks'[h].writer = "task" /\ tracks'[h].name = tracks[h].name
        /\ \A n \in 1 .. Len(tracks) : n # h => tracks'[n] = tracks[n]
    <3>1. tracks' = [tracks EXCEPT ![h].writer = "task"]
      BY <2>1, <2>3
    <3>2. QED
      BY <3>1, WriterSet
  <2>5. tracks[h].writer = "queued"
    BY <2>2, <2>3, QueuedOnce
  <2>6. /\ \A i, j \in 1 .. Len(tQueue') : i # j => tQueue'[i] # tQueue'[j]
        /\ \A i \in 1 .. Len(tQueue') : tQueue'[i] # h
    <3>1. ASSUME NEW i \in 1 .. Len(tQueue'), NEW j \in 1 .. Len(tQueue'), i # j
          PROVE tQueue'[i] # tQueue'[j]
      <4>1. i + 1 \in 1 .. Len(tQueue) /\ j + 1 \in 1 .. Len(tQueue) /\ i + 1 # j + 1
        BY <2>2, <3>1
      <4>2. tQueue'[i] = tQueue[i + 1] /\ tQueue'[j] = tQueue[j + 1]
        BY <2>2
      <4>3. QED
        BY <4>1, <4>2, QueuedOnce
    <3>2. ASSUME NEW i \in 1 .. Len(tQueue') PROVE tQueue'[i] # h
      <4>1. i + 1 \in 1 .. Len(tQueue) /\ i + 1 # 1 /\ 1 \in 1 .. Len(tQueue)
        BY <2>2
      <4>2. tQueue'[i] = tQueue[i + 1] /\ h = tQueue[1]
        BY <2>2, <2>3
      <4>3. QED
        BY <4>1, <4>2, QueuedOnce
    <3>3. QED
      BY <3>1, <3>2
  <2>7. \A n \in 1 .. Len(tracks) : n # h =>
          ((\E i \in 1 .. Len(tQueue') : tQueue'[i] = n) <=> (\E i \in 1 .. Len(tQueue) : tQueue[i] = n))
    <3> SUFFICES ASSUME NEW n \in 1 .. Len(tracks), n # h
                 PROVE  (\E i \in 1 .. Len(tQueue') : tQueue'[i] = n)
                          <=> (\E i \in 1 .. Len(tQueue) : tQueue[i] = n)
      OBVIOUS
    <3>1. ASSUME NEW i \in 1 .. Len(tQueue), tQueue[i] = n PROVE \E k \in 1 .. Len(tQueue') : tQueue'[k] = n
      <4>1. i # 1
        BY <2>3, <3>1
      <4>2. i - 1 \in 1 .. Len(tQueue') /\ (i - 1) + 1 = i
        BY <2>2, <4>1, TracksMade
      <4>3. QED
        BY <2>2, <3>1, <4>2
    <3>2. QED
      BY <2>2, <3>1
  <2>8. Len(drained) = 0 /\ Len(drained') = 0
    BY <2>1
  <2>9. QED
    BY <1>0, <2>1, <2>2, <2>4, <2>5, <2>6, <2>7, <2>8, QueuedOnce, WritersMove
<1>8. CASE Broadcast!DropWriter
  <2>1. Broadcast!TypeOK'
    BY <1>8 DEF BroadcastInv, Broadcast!TypeOK, TrackEntry, Broadcast!DropWriter, Broadcast!Numbers
  <2>2. QED
    BY <1>8, <2>1 DEF BroadcastInv, Broadcast!DropWriter, Broadcast!Numbers,
       Broadcast!OneTrackPerName, Broadcast!Open,
       Broadcast!QueueHoldsWriters, Broadcast!SE!Contains
<1>9. CASE Broadcast!DropRequestDrain
  <2>1. /\ drained = <<>> /\ request' = "drained" /\ UNCHANGED <<tracks, cache, tWriter, sub,
                                                                 displaced>>
        /\ (tQueue' = tQueue /\ drained' = drained) \/ (tQueue' = <<>> /\ drained' = tQueue)
    BY <1>9 DEF BroadcastInv, Broadcast!DropRequestDrain
  <2>2. Len(<<>>) = 0 /\ <<>> \in Seq(1 .. Len(tracks))
    OBVIOUS
  <2>3. CASE tQueue' = tQueue /\ drained' = drained
    BY <1>0, <2>1, <2>2, <2>3, QueuedOnce, WritersMove
  <2>4. CASE tQueue' = <<>> /\ drained' = tQueue
    <3>1. \A i \in 1 .. Len(tQueue') : FALSE
      BY <2>2, <2>4
    <3>2. \A i \in 1 .. Len(drained) : FALSE
      BY <2>1, <2>2
    <3>3. QED
      BY <1>0, <2>1, <2>2, <2>4, <3>1, <3>2, QueuedOnce, WritersMove
  <2>5. QED
    BY <2>1, <2>3, <2>4
<1>10. CASE Broadcast!DropRequestFinish
  <2>1. /\ request' = "gone" /\ tracks' = Broadcast!Finish /\ drained' = <<>>
        /\ UNCHANGED <<cache, tQueue, tWriter, sub, displaced>>
    BY <1>10 DEF Broadcast!DropRequestFinish
  <2>2. /\ tracks' \in Seq(TrackEntry)
        /\ Len(tracks') = Len(tracks)
        /\ \A n \in 1 .. Len(tracks) :
             tracks'[n] = IF \E i \in 1 .. Len(drained) : drained[i] = n
                          THEN [tracks[n] EXCEPT !.writer = "gone"] ELSE tracks[n]
    <3>1. \A n \in 1 .. Len(tracks) :
             tracks'[n] = IF \E i \in 1 .. Len(drained) : drained[i] = n
                          THEN [tracks[n] EXCEPT !.writer = "gone"] ELSE tracks[n]
      BY <2>1 DEF Broadcast!Finish, Broadcast!Numbers, Broadcast!SE!Contains
    <3>2. \A n \in 1 .. Len(tracks) : tracks'[n] \in TrackEntry
      <4>1. \A n \in 1 .. Len(tracks) : tracks[n] \in TrackEntry /\ [tracks[n] EXCEPT !.writer = "gone"] \in TrackEntry
        BY TracksMade DEF TrackEntry
      <4>2. QED
        BY <3>1, <4>1
    <3>3. tracks' = [n \in 1 .. Len(tracks) |-> tracks'[n]]
      BY <2>1 DEF Broadcast!Finish, Broadcast!Numbers
    <3>4. tracks' \in Seq(TrackEntry) /\ Len(tracks') = Len(tracks)
      BY <3>2, <3>3, TracksMade
    <3>5. QED
      BY <3>1, <3>4
  <2>3. Len(drained') = 0 /\ drained' \in Seq(1 .. Len(tracks))
    BY <2>1
  <2>4. \A n \in 1 .. Len(tracks) :
          tracks'[n].name = tracks[n].name /\ (tracks'[n].writer # "gone" => tracks[n].writer # "gone")
    BY <2>2, TracksMade DEF TrackEntry
  <2>5. \A n \in 1 .. Len(tracks) : tracks'[n].writer = "queued" <=> \E i \in 1 .. Len(tQueue') : tQueue'[i] = n
    <3> SUFFICES ASSUME NEW n \in 1 .. Len(tracks)
                 PROVE  tracks'[n].writer = "queued" <=> \E i \in 1 .. Len(tQueue) : tQueue[i] = n
      BY <2>1
    <3>1. CASE \E i \in 1 .. Len(drained) : drained[i] = n
      <4>1. tracks'[n].writer = "gone"
        BY <2>2, <3>1, TracksMade DEF TrackEntry
      <4>2. QED
        BY <3>1, <4>1, QueuedOnce
    <3>2. CASE ~\E i \in 1 .. Len(drained) : drained[i] = n
      BY <2>2, <3>2, QueuedOnce
    <3>3. QED
      BY <3>1, <3>2
  <2>6. QED
    BY <1>0, <2>1, <2>2, <2>3, <2>4, <2>5, QueuedOnce, WritersMove
<1>11. ASSUME NEW n \in Names, Broadcast!Create(n) PROVE BroadcastInv'
  <2>1. sub' \in [Subscribers -> [at : {"idle", "waiting", "served", "ended", "refused", "left"},
                                  track : 0 .. Len(tracks) + 1]]
    BY <1>0, <1>11, TracksMade DEF Broadcast!Create
  <2>2. QED
    BY <1>11, <2>1, TrackMade DEF Broadcast!Create
<1>12. ASSUME NEW n \in Names, Broadcast!Remove(n) PROVE BroadcastInv'
  <2>1. /\ UNCHANGED <<tracks, tQueue, request, drained, tWriter,
                       sub>> /\ cache' = [cache EXCEPT ![n] = 0]
        /\ displaced' = IF Broadcast!Hit(n) THEN displaced \cup {cache[n]} ELSE displaced
    BY <1>12 DEF Broadcast!Remove, Broadcast!NoTrack
  <2>2. /\ cache' \in [Names -> 0 .. Len(tracks)] /\ displaced' \subseteq 1 .. Len(tracks)
        /\ \A m \in Names : m # n => cache'[m] = cache[m]
    <3>1. Broadcast!Hit(n) => cache[n] \in 1 .. Len(tracks)
      BY <1>0, TracksMade DEF Broadcast!Hit, Broadcast!NoTrack
    <3>2. QED
      <4>1. displaced \subseteq 1 .. Len(tracks) /\ 0 \in 0 .. Len(tracks)
        BY TracksMade DEF BroadcastInv, Broadcast!TypeOK, Broadcast!Numbers
      <4>2. QED
        BY <1>0, <2>1, <3>1, <4>1
  <2>3. Broadcast!TypeOK'
    BY <2>1, <2>2 DEF BroadcastInv, Broadcast!TypeOK, TrackEntry, Broadcast!Numbers
  <2>4. Broadcast!OneTrackPerName'
    BY <2>1, <2>2, TracksMade DEF BroadcastInv, Broadcast!OneTrackPerName, Broadcast!Numbers,
       Broadcast!Open,
       Broadcast!Hit, Broadcast!NoTrack
  <2>5. QED
    BY <2>1, <2>3, <2>4 DEF BroadcastInv, Broadcast!QueueHoldsWriters, Broadcast!Numbers,
       Broadcast!SE!Contains
<1>13. ASSUME NEW n \in 1 .. Len(tracks), NEW w \in {"serving", "gone"}, tracks[n].writer \in {"task", "serving"},
              tracks' = [tracks EXCEPT ![n].writer = w],
              UNCHANGED <<cache, tQueue, request, drained, tWriter, sub, displaced>>
       PROVE BroadcastInv'
  <2>1. /\ tracks' \in Seq(TrackEntry)
        /\ Len(tracks') = Len(tracks)
        /\ tracks'[n].writer = w /\ tracks'[n].name = tracks[n].name
        /\ \A m \in 1 .. Len(tracks) : m # n => tracks'[m] = tracks[m]
    BY <1>13, WriterSet
  <2>2. request # "drained" => drained = <<>>
    BY DEF BroadcastInv
  <2>3. \A m \in 1 .. Len(tracks) :
          /\ tracks'[m].name = tracks[m].name /\ (tracks'[m].writer # "gone" => tracks[m].writer # "gone")
          /\ tracks'[m].writer = "queued" <=> tracks[m].writer = "queued"
    BY <1>13, <2>1
  <2>4. /\ \A i, j \in 1 .. Len(tQueue') : i # j => tQueue'[i] # tQueue'[j]
        /\ \A i \in 1 .. Len(tQueue'), j \in 1 .. Len(drained') : tQueue'[i] # drained'[j]
        /\ \A m \in 1 .. Len(tracks) : tracks'[m].writer = "queued" <=>
             (\E i \in 1 .. Len(tQueue') : tQueue'[i] = m) \/ (\E i \in 1 .. Len(drained') : drained'[i] = m)
    BY <1>13, <2>3, QueuedOnce
  <2>5. /\ UNCHANGED <<cache, tWriter, sub, displaced>>
        /\ request' # "drained" => drained' = <<>>
        /\ tQueue' \in Seq(1 .. Len(tracks)) /\ drained' \in Seq(1 .. Len(tracks))
        /\ request' \in {"live", "drained", "gone"}
    BY <1>0, <1>13, <2>2
  <2>6. QED
    BY <2>1, <2>3, <2>4, <2>5, WritersMove
<1>14. CASE UNCHANGED Broadcast!vars
  BY <1>14 DEF Broadcast!vars, BroadcastInv, Broadcast!TypeOK, TrackEntry, Broadcast!Numbers,
     Broadcast!OneTrackPerName,
     Broadcast!Open, Broadcast!QueueHoldsWriters, Broadcast!SE!Contains
<1>15. ASSUME NEW n \in 1 .. Len(tracks), Broadcast!Serve(n) \/ Broadcast!EndTrack(n) PROVE BroadcastInv'
  BY <1>13, <1>15 DEF Broadcast!Serve, Broadcast!EndTrack
<1>16. QED
  BY <1>1, <1>2, <1>3, <1>4, <1>5, <1>6, <1>7, <1>8, <1>9, <1>10, <1>11, <1>12, <1>14, <1>15
     DEF Broadcast!Next, Broadcast!Numbers

-----------------------------------------------------------------------------
(* The serve library                                                       *)

\* A behaviour of the whole is one of each part.
LEMMA GroupsRun == ServeSpec => Groups!Spec
<1>1. ServeInit => Groups!Init
  BY DEF ServeInit
<1>2. [ServeNext]_ServeVars => [Groups!Next]_(Groups!vars)
  BY DEF ServeNext, ServeVars, Runs, groupVars, Groups!vars
<1>3. QED
  BY <1>1, <1>2, PTL DEF ServeSpec, Groups!Spec

LEMMA DatagramRuns == ServeSpec => Datagram!Spec
<1>1. ServeInit => Datagram!Init
  BY DEF ServeInit
<1>2. [ServeNext]_ServeVars => [Datagram!Next]_(Datagram!vars)
  BY DEF ServeNext, ServeVars, Runs, datagramVars, Datagram!vars
<1>3. QED
  BY <1>1, <1>2, PTL DEF ServeSpec, Datagram!Spec

LEMMA PartsAssumed == Groups!SubgroupsAssumption /\ Datagram!DatagramsAssumption
  BY ServeAssumption

(* A reader of subgroups is handed them in order and none twice, passes over *)
(* one only if the window has left it behind, and ends last; a tap misses    *)
(* nothing (SubgroupsWriter::create, SubgroupsReader::next, TrackTaps::emit).*)
THEOREM SubgroupsSafe == ServeSpec => []SubgroupsDelivered
  BY GroupsRun, PartsAssumed, Groups!Delivered, PTL DEF SubgroupsDelivered

(* The ring holds the newest datagrams, what a reader missed is counted      *)
(* exactly, and a tap misses nothing (DatagramsWriter::write,                *)
(* DatagramsReader::read).                                                   *)
THEOREM DatagramsSafe == ServeSpec => []DatagramsAccounted
  BY DatagramRuns, PartsAssumed, Datagram!Accounted, PTL DEF DatagramsAccounted

(* Both fan-outs implement the lossy log (serve/subgroup.rs,                 *)
(* serve/datagram.rs).                                                       *)
THEOREM BothRefine == ServeSpec => ImplementsLossyLog
  BY GroupsRun, DatagramRuns, PartsAssumed, Groups!Refines, Datagram!Refines, PTL
     DEF ImplementsLossyLog

-----------------------------------------------------------------------------
(* The whole: every part of the serve library at once                      *)

LEMMA WatchRuns == ServeSpec => Spec
<1>1. ServeInit => Init
  BY DEF ServeInit
<1>2. [ServeNext]_ServeVars => [Next]_vars
  BY DEF ServeNext, ServeVars, Runs
<1>3. QED
  BY <1>1, <1>2, PTL DEF ServeSpec, Spec

\* The invariants of the parts that are proved here, and which part runs.
OwnParts == part \in Parts /\ QueueInv /\ ObjectsInv /\ ModeInv /\ BroadcastInv

LEMMA OwnPartsKept == ServeSpec => []OwnParts
<1>1. ServeInit => OwnParts
  BY QueueStart_Inv, ObjectsStart, ModeStart, BroadcastStart DEF ServeInit, OwnParts
<1>2. OwnParts /\ [ServeNext]_ServeVars => OwnParts'
  <2> SUFFICES ASSUME OwnParts, [ServeNext]_ServeVars PROVE OwnParts'
    OBVIOUS
  <2>1. part' = part
    BY DEF ServeNext, ServeVars, Runs
  <2>2. [QueueNext]_queueVars
    BY DEF ServeNext, ServeVars, Runs
  <2>3. [Objects!Next]_(Objects!vars)
    BY DEF ServeNext, ServeVars, Runs, objectVars, Objects!vars
  <2>4. [Mode!Next]_(Mode!vars)
    BY DEF ServeNext, ServeVars, Runs, modeVars, Mode!vars
  <2>5. [Broadcast!Next]_(Broadcast!vars)
    BY DEF ServeNext, ServeVars, Runs, broadcastVars, Broadcast!vars
  <2>6. QED
    BY <2>1, <2>2, <2>3, <2>4, <2>5, QueueStep_Inv, ObjectsStep, ModeStep, BroadcastStep
       DEF OwnParts
<1>3. QED
  BY <1>1, <1>2, PTL DEF ServeSpec

(* Whichever part runs keeps its types; object ids increase, a reader takes  *)
(* no cut object for a whole one and hears of the end after the last object; *)
(* a track is stale only when nobody can write to it and its mode enforces   *)
(* the window it advertises; subscribers of a name share one track, and a    *)
(* request is taken once (serve/subgroup.rs, serve/track.rs,                 *)
(* serve/tracks.rs).                                                         *)
THEOREM TracksAreSound == ServeSpec => []TracksSound
<1>1. ASSUME OwnParts, TypeOK, Groups!TypeOK, Datagram!TypeOK PROVE TracksSound
  <2>1. QueueTypeOK /\ Objects!TypeOK /\ Mode!TypeOK /\ Broadcast!TypeOK
    BY <1>1 DEF OwnParts, QueueInv, ObjectsInv, ModeInv, BroadcastInv
  <2>2. part \in {"watch", "queue", "subgroups", "objects", "datagrams", "track", "tracks"}
    BY <1>1, ServeAssumption DEF OwnParts
  <2>3. ServeTypeOK
    BY <1>1, <2>1, <2>2 DEF ServeTypeOK
  <2>4. Objects!IdsIncrease /\ Objects!NoTruncatedObject /\ Objects!EndAfterObjects
    BY <1>1 DEF OwnParts, ObjectsInv
  <2>5. QED
    BY <1>1, <2>3, <2>4 DEF OwnParts, ModeInv, BroadcastInv, TracksSound
<1>2. QED
  BY <1>1, OwnPartsKept, WatchRuns, TypeCorrect, GroupsRun, DatagramRuns, PartsAssumed,
     Groups!TypeCorrect, Datagram!TypeCorrect, PTL
=============================================================================
