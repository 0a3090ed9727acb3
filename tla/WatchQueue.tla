----------------------------- MODULE WatchQueue -----------------------------
(***************************************************************************)
(* watch::Queue<T> of moq-transport (src/moq-transport/src/watch/queue.rs) *)
(* after split(): one half pushes, the other half pops.  It is the control *)
(* message queue of a session, its queues of incoming requests and the     *)
(* track request queue of a broadcast.                                     *)
(*                                                                         *)
(* The State<VecDeque> underneath is the cell of WatchState: every locked  *)
(* section is one action, Notify is StateInner::notify.  pop() takes the   *)
(* lock twice, once to look for an item and once more to take the          *)
(* StateChanged future, so it is two actions with a gap between them.      *)
(***************************************************************************)
EXTENDS Naturals, Sequences, SequencesExt

CONSTANTS
  Items,        \* what is pushed, each item at most once
  Poppers       \* tasks calling pop() on the receiving half

QueueAssumption == Items # {} /\ Poppers # {}

VARIABLES
  queue,        \* VecDeque: records of an item and whether it has a notifier
  pushed,       \* history: items accepted by push, in order
  out,          \* history: items taken by pop or by close, in order
  popped,       \* history: items taken by pop
  ack,          \* oneshot of push_and_wait_until_popped, per item
  qEpoch, qLive, \* StateInner::epoch, StateInner::dropped.is_some()
  qWakers,      \* tasks registered in StateInner::wakers
  qPc, qAt,     \* where each popper is, and the epoch its future waits past
  receiver,     \* the receiving half: "open", "closing" inside close(), "gone"
  sender        \* the sending half: "open" or "gone"

queueVars == <<queue, pushed, out, popped, ack, qEpoch, qLive, qWakers, qPc, qAt, receiver, sender>>
history == <<pushed, out, popped>>

\* The items of a queue, in order
ItemsOf(q) == [n \in DOMAIN q |-> q[n].item]

\* StateInner::notify: a woken task is polled again.
QueueNotify ==
  /\ qEpoch' = qEpoch + 1
  /\ qWakers' = {}

QueueInit ==
  /\ queue = <<>>
  /\ pushed = <<>> /\ out = <<>> /\ popped = <<>>
  /\ ack = [i \in Items |-> "none"]
  /\ qEpoch = 0 /\ qLive = TRUE /\ qWakers = {}
  /\ qPc = [p \in Poppers |-> "look"]
  /\ qAt = [p \in Poppers |-> 0]
  /\ receiver = "open" /\ sender = "open"

-----------------------------------------------------------------------------
(* Sending half                                                            *)

\* Append under the lock; dropping the StateMut notifies.
Enqueue(i, waits) ==
  /\ queue' = Append(queue, [item |-> i, notifier |-> waits])
  /\ pushed' = Append(pushed, i)
  /\ QueueNotify

\* push, try_push: refused with Err(item) once the state is dropped.
Push(i) ==
  /\ sender = "open"
  /\ ack[i] = "none"
  /\ IF qLive
     THEN Enqueue(i, FALSE) /\ ack' = [ack EXCEPT ![i] = "untracked"]
     ELSE ack' = [ack EXCEPT ![i] = "refused"] /\ UNCHANGED <<queue, pushed, qEpoch, qWakers>>
  /\ UNCHANGED <<out, popped, qLive, qPc, qAt, receiver, sender>>

\* push_and_wait_until_popped up to rx.await.
PushAndWait(i) ==
  /\ sender = "open"
  /\ ack[i] = "none"
  /\ IF qLive
     THEN Enqueue(i, TRUE) /\ ack' = [ack EXCEPT ![i] = "waiting"]
     ELSE ack' = [ack EXCEPT ![i] = "closed"] /\ UNCHANGED <<queue, pushed, qEpoch, qWakers>>
  /\ UNCHANGED <<out, popped, qLive, qPc, qAt, receiver, sender>>

\* The last sending handle is dropped.  A task inside
\* push_and_wait_until_popped borrows one, so it cannot be while one waits.
DropSender ==
  /\ sender = "open"
  /\ \A i \in Items : ack[i] # "waiting"
  /\ sender' = "gone"
  /\ qLive' = FALSE
  /\ QueueNotify
  /\ UNCHANGED <<queue, history, ack, qPc, qAt, receiver>>

-----------------------------------------------------------------------------
(* Receiving half                                                          *)

\* Mutant: pop_back instead of pop_front.
PopLook_Back(p) ==
  /\ receiver = "open"
  /\ qPc[p] = "look"
  /\ \/ /\ queue # <<>> /\ qLive
        /\ out' = Append(out, Last(queue).item)
        /\ popped' = Append(popped, Last(queue).item)
        /\ queue' = Front(queue)
        /\ ack' = IF Last(queue).notifier THEN [ack EXCEPT ![Last(queue).item] = "ok"] ELSE ack
        /\ QueueNotify
        /\ UNCHANGED qPc
     \/ /\ queue = <<>>
        /\ qPc' = [qPc EXCEPT ![p] = "gap"]
        /\ UNCHANGED <<queue, out, popped, ack, qEpoch, qWakers>>
  /\ UNCHANGED <<pushed, qLive, qAt, receiver, sender>>

\* pop, scope 1: take the front item, or find the queue empty.  into_mut()?
\* gives up when the state is dropped, even with items left.
PopLook(p) ==
  /\ receiver = "open"
  /\ qPc[p] = "look"
  /\ \/ /\ queue # <<>> /\ qLive
        /\ LET front == Head(queue)
           IN /\ out' = Append(out, front.item)
              /\ popped' = Append(popped, front.item)
              /\ ack' = IF front.notifier THEN [ack EXCEPT ![front.item] = "ok"] ELSE ack
        /\ queue' = Tail(queue)
        /\ QueueNotify
        /\ UNCHANGED qPc
     \/ /\ queue # <<>> /\ ~qLive
        /\ qPc' = [qPc EXCEPT ![p] = "none"]
        /\ UNCHANGED <<queue, out, popped, ack, qEpoch, qWakers>>
     \/ /\ queue = <<>>
        /\ qPc' = [qPc EXCEPT ![p] = "gap"]
        /\ UNCHANGED <<queue, out, popped, ack, qEpoch, qWakers>>
  /\ UNCHANGED <<pushed, qLive, qAt, receiver, sender>>

\* pop, scope 2: lock again and take the future of the epoch found now.
PopModified(p) ==
  /\ receiver = "open"
  /\ qPc[p] = "gap"
  /\ IF qLive
     THEN qPc' = [qPc EXCEPT ![p] = "await"] /\ qAt' = [qAt EXCEPT ![p] = qEpoch]
     ELSE qPc' = [qPc EXCEPT ![p] = "none"] /\ UNCHANGED qAt
  /\ UNCHANGED <<queue, history, ack, qEpoch, qLive, qWakers, receiver, sender>>

\* StateChanged::poll by a task that runs: not parked, or woken since.
PopPoll(p) ==
  /\ receiver = "open"
  /\ qPc[p] = "await"
  /\ p \notin qWakers
  /\ IF qEpoch > qAt[p]
     THEN qPc' = [qPc EXCEPT ![p] = "look"] /\ UNCHANGED qWakers
     ELSE qWakers' = qWakers \cup {p} /\ UNCHANGED qPc
  /\ UNCHANGED <<queue, history, ack, qEpoch, qLive, qAt, receiver, sender>>

\* The receiving half is dropped, its pop() futures with it, as when
\* Session::run returns.  The other half keeps the VecDeque alive.
DropReceiver ==
  /\ receiver = "open"
  /\ receiver' = "gone"
  /\ qLive' = FALSE
  /\ QueueNotify
  /\ qPc' = [p \in Poppers |-> "none"]
  /\ UNCHANGED <<queue, history, ack, qAt, sender>>

\* close(), first lock: drain the queue; the drained notifiers are dropped.
CloseDrain ==
  /\ receiver = "open"
  /\ receiver' = "closing"
  /\ qPc' = [p \in Poppers |-> "none"]
  /\ IF qLive
     THEN /\ out' = out \o ItemsOf(queue)
          /\ ack' = [i \in Items |-> IF \E n \in DOMAIN queue : queue[n] = [item |-> i, notifier |-> TRUE]
                                     THEN "closed" ELSE ack[i]]
          /\ queue' = <<>>
          /\ QueueNotify
     ELSE UNCHANGED <<queue, out, ack, qEpoch, qWakers>>
  /\ UNCHANGED <<pushed, popped, qLive, qAt, sender>>

\* close(), drop(self.state): prevent any new entries.
CloseDrop ==
  /\ receiver = "closing"
  /\ receiver' = "gone"
  /\ qLive' = FALSE
  /\ QueueNotify
  /\ UNCHANGED <<queue, history, ack, qPc, qAt, sender>>

QueueNext ==
  \/ \E i \in Items : Push(i) \/ PushAndWait(i)
  \/ DropSender
  \/ \E p \in Poppers : PopLook(p) \/ PopModified(p) \/ PopPoll(p)
  \/ DropReceiver
  \/ CloseDrain
  \/ CloseDrop

\* Poppers are tasks the runtime keeps running, and close() does not stop half way.
QueueFairness ==
  /\ \A p \in Poppers : WF_queueVars(PopLook(p)) /\ WF_queueVars(PopModified(p)) /\ WF_queueVars(PopPoll(p))
  /\ WF_queueVars(CloseDrop)

QueueSpec == QueueInit /\ [][QueueNext]_queueVars
QueueFairSpec == QueueSpec /\ QueueFairness

-----------------------------------------------------------------------------
QueueTypeOK ==
  /\ queue \in Seq([item : Items, notifier : BOOLEAN])
  /\ pushed \in Seq(Items) /\ out \in Seq(Items) /\ popped \in Seq(Items)
  /\ ack \in [Items -> {"none", "untracked", "refused", "waiting", "ok", "closed"}]
  /\ qEpoch \in Nat /\ qLive \in BOOLEAN /\ qWakers \subseteq Poppers
  /\ qPc \in [Poppers -> {"look", "gap", "await", "none"}]
  /\ qAt \in [Poppers -> Nat]
  /\ receiver \in {"open", "closing", "gone"} /\ sender \in {"open", "gone"}

(* queue.rs: with any number of concurrent pop() calls, items leave in the  *)
(* order they were pushed, none twice and none overtaken, whether they are  *)
(* popped or handed back by close().                                        *)
FifoConservation == pushed = out \o ItemsOf(queue)

(* push_and_wait_until_popped (queue.rs:84-87): Ok(()) exactly for an item  *)
(* that some pop() returned; a waiter whose item was drained gets an error. *)
AckMeansPopped ==
  \A i \in Items : /\ ack[i] = "ok" => Contains(popped, i)
                   /\ ack[i] = "closed" => ~Contains(popped, i)
                   /\ ack[i] = "waiting" => ~Contains(out, i)

(* queue.rs: what is pushed is handed over once and in order, and a push     *)
(* that waits is told what became of its item.                              *)
QueueConserves == FifoConservation /\ AckMeansPopped

(* queue.rs:42 "Pop an item from the queue, waiting if necessary.": an item *)
(* in an open queue with a popper waiting gets popped.                      *)
PushedIsPopped == \A i \in Items : (qLive /\ Contains(pushed, i)) ~> (Contains(out, i) \/ ~qLive)

(* queue.rs:84-87 "Returns Err(QueueClosed) if the queue was closed before  *)
(* the item could be confirmed popped": a waiting push is answered once the *)
(* receiving half is gone.                                                  *)
WaitIsAnswered == \A i \in Items : (ack[i] = "waiting" /\ receiver = "gone") ~> (ack[i] # "waiting")

=============================================================================
