----------------------------- MODULE WatchState -----------------------------
(***************************************************************************)
(* watch::State<T> of moq-transport (src/moq-transport/src/watch/state.rs):*)
(* the mutex-protected cell every reader/writer pair of the library shares.*)
(*                                                                         *)
(* A critical section of the mutex is one action.  T itself is abstracted  *)
(* to `version`, the number of mutable borrows (StateMut) handed out so    *)
(* far: a waiter can only care whether the value it looked at is still the *)
(* newest one.  A waiter is a task that looks at the value under the lock, *)
(* finds nothing to do, takes a StateChanged future with modified() and    *)
(* awaits it.                                                              *)
(***************************************************************************)
EXTENDS Integers

CONSTANTS
  Waiters,      \* tasks that await StateChanged
  Gens,         \* waker identities one task may poll with (will_wake differs)
  Halves,       \* the two halves of State::split
  MaxVersion,   \* bound: mutable borrows explored
  MaxClones     \* bound: State handles alive per half

ASSUME WatchAssumption ==
  /\ Halves # {}
  /\ Gens # {}
  /\ MaxVersion \in Nat
  /\ MaxClones \in Nat \ {0}

VARIABLES
  version,      \* StateInner::value, as a version number
  epoch,        \* StateInner::epoch
  wakers,       \* StateInner::wakers, as a multiset: entries per waker
  live,         \* StateInner::dropped.is_some()
  clones,       \* strong count of each half's Arc<StateDrop>
  pc,           \* what each waiter is doing
  at,           \* StateChanged::epoch of each waiter's future
  seen,         \* version each waiter looked at before it took the future
  gen,          \* identity of the waker each waiter polled with last
  scheduled     \* the runtime has been told to poll the waiter again

vars == <<version, epoch, wakers, live, clones, pc, at, seen, gen, scheduled>>
cell == <<version, epoch, wakers, live>>
task == <<pc, at, seen, gen>>

Waker == Waiters \X Gens

-----------------------------------------------------------------------------
(* StateInner                                                              *)

\* Mutant: give up on any registered waker, not only an equivalent one.
Register_AnyWaker(w, g) ==
  wakers' = IF \E x \in Waker : wakers[x] > 0 THEN wakers ELSE [wakers EXCEPT ![<<w, g>>] = @ + 1]

\* StateInner::register: nothing to do when an equivalent waker is there.
Register(w, g) ==
  wakers' = IF wakers[<<w, g>>] > 0 THEN wakers ELSE [wakers EXCEPT ![<<w, g>>] = @ + 1]

\* StateInner::notify: bump the epoch, drain and wake every waker.  Waking a
\* waker that is not the one the task polled with last does not reach the task.
Notify ==
  /\ epoch' = epoch + 1
  /\ wakers' = [x \in Waker |-> 0]
  /\ scheduled' = [w \in Waiters |-> scheduled[w] \/ wakers[<<w, gen[w]>>] > 0]

-----------------------------------------------------------------------------
(* Initial state: State::new followed by split(), every waiter running.    *)
Init ==
  /\ version = 0
  /\ epoch = 0
  /\ wakers = [x \in Waker |-> 0]
  /\ live = TRUE
  /\ clones = [h \in Halves |-> 1]
  /\ pc = [w \in Waiters |-> "running"]
  /\ at = [w \in Waiters |-> 0]
  /\ seen = [w \in Waiters |-> 0]
  /\ gen \in [Waiters -> Gens]
  /\ scheduled = [w \in Waiters |-> FALSE]

\* A StateMut is taken and dropped: DerefMut changes the value, Drop notifies.
Mutate ==
  /\ version < MaxVersion
  /\ version' = version + 1
  /\ Notify

\* State::lock_mut, try_lock_mut and StateRef::into_mut: None once dropped.
LockMut(h) ==
  /\ clones[h] > 0
  /\ live
  /\ Mutate
  /\ UNCHANGED <<live, clones, task>>

\* StateRef::into_mut_closed: mutate although the other half is gone.
IntoMutClosed(h) ==
  /\ clones[h] > 0
  /\ Mutate
  /\ UNCHANGED <<live, clones, task>>

\* State::clone, or StateWeak::upgrade while some handle of the half is alive.
CloneHandle(h) ==
  /\ clones[h] \in 1 .. MaxClones - 1
  /\ clones' = [clones EXCEPT ![h] = @ + 1]
  /\ UNCHANGED <<cell, task, scheduled>>

\* Mutant: the last drop forgets to notify.
DropHandle_Silent(h) ==
  /\ clones[h] > 0
  /\ clones' = [clones EXCEPT ![h] = @ - 1]
  /\ live' = (live /\ clones[h] > 1)
  /\ UNCHANGED <<version, epoch, wakers, task, scheduled>>

\* A State handle is dropped; the last one of its half runs StateDrop::drop.
DropHandle(h) ==
  /\ clones[h] > 0
  /\ clones' = [clones EXCEPT ![h] = @ - 1]
  /\ IF clones[h] = 1
     THEN live' = FALSE /\ Notify
     ELSE UNCHANGED <<live, epoch, wakers, scheduled>>
  /\ UNCHANGED <<version, task>>

\* One locked look at the value followed by modified(): a dropped cell ends
\* the loop of the waiter, otherwise it holds a future for this epoch.
Modified(w) ==
  /\ pc[w] = "running"
  /\ seen' = [seen EXCEPT ![w] = version]
  /\ IF live
     THEN /\ pc' = [pc EXCEPT ![w] = "polling"]
          /\ at' = [at EXCEPT ![w] = epoch]
     ELSE /\ pc' = [pc EXCEPT ![w] = "ended"]
          /\ UNCHANGED at
  /\ UNCHANGED <<cell, clones, gen, scheduled>>

\* StateChanged::poll with a waker of identity g.
Poll(w, g) ==
  /\ gen' = [gen EXCEPT ![w] = g]
  /\ scheduled' = [scheduled EXCEPT ![w] = FALSE]
  /\ IF epoch > at[w]
     THEN /\ pc' = [pc EXCEPT ![w] = "running"]
          /\ UNCHANGED wakers
     ELSE /\ pc' = [pc EXCEPT ![w] = "parked"]
          /\ Register(w, g)
  /\ UNCHANGED <<version, epoch, live, clones, at, seen>>

\* The first poll of a fresh future.
FirstPoll(w) == pc[w] = "polling" /\ Poll(w, gen[w])

\* The runtime polls a task it was told to wake.
WokenPoll(w) == pc[w] = "parked" /\ scheduled[w] /\ Poll(w, gen[w])

\* A still pending future is polled again although nothing here changed: a
\* sibling of the same select! woke, or the task moved and has a new waker.
SpuriousPoll(w) == pc[w] = "parked" /\ \E g \in Gens : Poll(w, g)

Next ==
  \/ \E h \in Halves : \/ LockMut(h)
                       \/ IntoMutClosed(h)
                       \/ CloneHandle(h)
                       \/ DropHandle(h)
  \/ \E w \in Waiters : \/ Modified(w)
                        \/ FirstPoll(w)
                        \/ WokenPoll(w)
                        \/ SpuriousPoll(w)

\* A runtime runs every task that is runnable; nobody owes a mutation, a drop
\* or a spurious poll.
Fairness ==
  \A w \in Waiters : WF_vars(Modified(w)) /\ WF_vars(FirstPoll(w)) /\ WF_vars(WokenPoll(w))

Spec == Init /\ [][Next]_vars
FairSpec == Spec /\ Fairness

-----------------------------------------------------------------------------
TypeOK ==
  /\ version \in Nat
  /\ epoch \in Nat
  /\ wakers \in [Waker -> Nat]
  /\ live \in BOOLEAN
  /\ clones \in [Halves -> Nat]
  /\ pc \in [Waiters -> {"running", "polling", "parked", "ended"}]
  /\ at \in [Waiters -> Nat]
  /\ seen \in [Waiters -> Nat]
  /\ gen \in [Waiters -> Gens]
  /\ scheduled \in [Waiters -> BOOLEAN]

(* StateInner::register / notify (state.rs:31-52): a parked task that no    *)
(* one has woken has looked at the newest value of a cell that is alive, so *)
(* no update and no drop of the other half can be slept through, whatever   *)
(* the interleaving of looks, polls, waker changes, mutations and drops.    *)
NoLostWakeup ==
  \A w \in Waiters :
    pc[w] = "parked" /\ ~scheduled[w] => seen[w] = version /\ live

(* The idempotent register of state.rs:31-45: repeated polls never make the *)
(* waker list longer than one entry per distinct waker.                     *)
WakersBounded == \A x \in Waker : wakers[x] <= 1

(* StateDrop (state.rs:292-306) with split() at :131-140: the cell is open  *)
(* exactly while each half still has a handle, however clones are dropped.  *)
LiveIffBothHalves == live <=> \A h \in Halves : clones[h] > 0

(* Why NoLostWakeup holds, as an inductive invariant: a future whose epoch  *)
(* is the cell's belongs to a waiter that has seen the newest value of a    *)
(* live cell, and a parked waiter nobody woke still has its waker listed.   *)
WaitersCurrent ==
  \A w \in Waiters :
    /\ at[w] <= epoch
    /\ pc[w] \in {"polling", "parked"} /\ at[w] = epoch => seen[w] = version /\ live
    /\ pc[w] = "parked" /\ ~scheduled[w] => at[w] = epoch /\ wakers[<<w, gen[w]>>] > 0

(* StateChanged::poll: a task awaiting a change gets back to its loop once  *)
(* the value it looked at is outdated or the cell has been dropped.         *)
ChangeIsSeen ==
  \A w \in Waiters :
    (pc[w] \in {"polling", "parked"} /\ (seen[w] # version \/ ~live))
      ~> (pc[w] \in {"running", "ended"})
=============================================================================
