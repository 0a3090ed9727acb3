--------------------------- MODULE RemoteTracks ---------------------------
(***************************************************************************)
(* The tracks pulled over one connection to another relay (moq-relay-ietf  *)
(* remote.rs, Remote::subscribe): the slot of one track in Remote::tracks, *)
(* the calls that share the subscription in it, the cleanup task of each   *)
(* subscription, and the end of the connection, by itself or by shutdown.  *)
(* Of the session below (moq-transport) there is what the calls see: a     *)
(* SUBSCRIBE is answered, and a subscription ends, only while it runs.     *)
(***************************************************************************)
EXTENDS Naturals

CONSTANTS
  Callers,   \* tasks that call Remote::subscribe for the track
  Slots,     \* identities of slots, used again when nothing refers to them
  Subs,      \* identities of subscriptions, each with its TrackReader
  MaxCalls,  \* how many calls are made
  Nil

RemoteTracksAssumption ==
  MaxCalls \in Nat /\ Nil \notin Slots \cup Subs \cup Callers

VARIABLES
  session,   \* "running", "ended"
  connected, \* Remote::connected
  cancelled, \* Remote::cancel
  clearing,  \* Remote::shutdown waits for the lock of the map
  current,   \* the slot that Remote::tracks holds for the track
  cached,    \* slot -> the subscription whose reader is in it
  lock,      \* slot -> who holds its lock
  sub,       \* subscription -> "none", "opening", "open", "done"
  task,      \* subscription -> "none", "waiting", "clear", "empty": cleanup
  home,      \* subscription -> its slot
  retained,  \* subscription -> whether its groups are retained for FETCH
  pc, mySlot, mySub,
  calls,
  abandoned  \* whether the future of a call was ever dropped

link == <<session, connected, cancelled, clearing>>
subs == <<sub, task, home, retained>>
caller == <<pc, mySlot, mySub>>
count == <<calls, abandoned>>
vars == <<link, current, cached, lock, subs, caller, count>>

Init ==
  /\ session = "running" /\ connected = TRUE /\ cancelled = FALSE /\ clearing = FALSE
  /\ current = Nil
  /\ cached = [s \in Slots |-> Nil] /\ lock = [s \in Slots |-> Nil]
  /\ sub = [r \in Subs |-> "none"] /\ task = [r \in Subs |-> "none"]
  /\ home = [r \in Subs |-> Nil] /\ retained = [r \in Subs |-> FALSE]
  /\ pc = [c \in Callers |-> "idle"]
  /\ mySlot = [c \in Callers |-> Nil] /\ mySub = [c \in Callers |-> Nil]
  /\ calls = 0 /\ abandoned = FALSE

FreeSlot(s) ==
  /\ s # current
  /\ \A c \in Callers : mySlot[c] # s
  /\ \A r \in Subs : task[r] # "none" => home[r] # s

FreeSub(r) == sub[r] = "none" /\ ~retained[r] /\ task[r] = "none" /\ \A s \in Slots : cached[s] # r

GoTo(c, where) == pc' = [pc EXCEPT ![c] = where]
Holds(s, who) == lock' = [lock EXCEPT ![s] = who]
Return(c) ==
  /\ GoTo(c, "idle")
  /\ mySlot' = [mySlot EXCEPT ![c] = Nil] /\ mySub' = [mySub EXCEPT ![c] = Nil]

\* The Subscribe handle and the retention guard are dropped.
LetGo(rs) ==
  /\ sub' = [r \in Subs |-> IF r \in rs THEN "none" ELSE sub[r]]
  /\ retained' = [r \in Subs |-> retained[r] /\ r \notin rs]

-----------------------------------------------------------------------------
(* Remote::subscribe                                                         *)

Call(c) ==
  /\ pc[c] = "idle" /\ calls < MaxCalls
  /\ calls' = calls + 1
  /\ GoTo(c, "start")
  /\ UNCHANGED <<link, current, cached, lock, subs, mySlot, mySub, abandoned>>

\* The head of the loop: the call fails when the connection is known to be gone.
Start(c) ==
  /\ pc[c] = "start"
  /\ IF connected THEN GoTo(c, "get") /\ UNCHANGED <<mySlot, mySub>> ELSE Return(c)
  /\ UNCHANGED <<link, current, cached, lock, subs, count>>

GetSlot(c) ==
  /\ pc[c] = "get"
  /\ \E s \in Slots :
       /\ IF current # Nil THEN s = current /\ UNCHANGED <<current, cached>>
          ELSE /\ FreeSlot(s) /\ s = CHOOSE free \in Slots : FreeSlot(free)
               /\ current' = s /\ cached' = [cached EXCEPT ![s] = Nil]
       /\ mySlot' = [mySlot EXCEPT ![c] = s]
  /\ GoTo(c, "lock")
  /\ UNCHANGED <<link, lock, subs, mySub, count>>

LockSlot(c) ==
  /\ pc[c] = "lock" /\ lock[mySlot[c]] = Nil
  /\ Holds(mySlot[c], c)
  /\ GoTo(c, "check")
  /\ UNCHANGED <<link, current, cached, subs, mySlot, mySub, count>>

\* Mutant: the slot is taken for the map's, which it was when it was found.
IsCurrentSlot_Assumed(s) == TRUE

IsCurrentSlot(s) == current = s

\* TrackReader::is_closed: not while its writer is with the subscription
Readable(r) == r # Nil /\ sub[r] = "open"

\* Retention starts before the SUBSCRIBE is sent.
CheckSlot(c) ==
  LET s == mySlot[c] IN
  /\ pc[c] = "check"
  /\ IF ~IsCurrentSlot(s)
     THEN /\ Holds(s, Nil) /\ GoTo(c, "start") /\ mySlot' = [mySlot EXCEPT ![c] = Nil]
          /\ UNCHANGED <<cached, subs, mySub>>
     ELSE IF Readable(cached[s])
     THEN Holds(s, Nil) /\ Return(c) /\ UNCHANGED <<cached, subs>>
     ELSE /\ cached' = [cached EXCEPT ![s] = Nil]
          /\ \E r \in Subs :
               /\ FreeSub(r) /\ r = CHOOSE free \in Subs : FreeSub(free)
               /\ sub' = [sub EXCEPT ![r] = "opening"]
               /\ home' = [home EXCEPT ![r] = s]
               /\ retained' = [retained EXCEPT ![r] = TRUE]
               /\ mySub' = [mySub EXCEPT ![c] = r]
          /\ GoTo(c, "open")
          /\ UNCHANGED <<lock, mySlot, task>>
  /\ UNCHANGED <<link, current, count>>

\* Subscriber::subscribe_open: the session has at most one subscription of the track.
Sole(r) == \A q \in Subs : sub[q] \in {"opening", "open"} => q = r

\* subscribe_open returns: the peer accepts ...
OpenOk(c) ==
  /\ pc[c] = "open" /\ session = "running" /\ Sole(mySub[c])
  /\ sub' = [sub EXCEPT ![mySub[c]] = "open"]
  /\ GoTo(c, "opened")
  /\ UNCHANGED <<link, current, cached, lock, task, home, retained, mySlot, mySub, count>>

\* The lock goes first; what the call still has is dropped when it returns.
Failed(c) ==
  /\ Holds(mySlot[c], Nil)
  /\ GoTo(c, "empty")
  /\ UNCHANGED <<link, current, cached, task, home, retained, mySlot, mySub, count>>

\* ... or refuses, or the deadline passes, or the name is taken; or the connection
\* is shut down.  The handle has gone with the error, the retention guard has not.
OpenFails(c) ==
  /\ pc[c] = "open" /\ (session = "running" \/ cancelled \/ ~Sole(mySub[c]))
  /\ sub' = [sub EXCEPT ![mySub[c]] = "none"]
  /\ Failed(c)

\* The connection may have gone while the peer answered: the handle lives until the
\* call returns.
OpenedInVain(c) ==
  /\ pc[c] = "opened" /\ ~connected
  /\ UNCHANGED sub
  /\ Failed(c)

StillConnected(c) ==
  /\ pc[c] = "opened" /\ connected
  /\ GoTo(c, "store")
  /\ UNCHANGED <<link, current, cached, lock, subs, mySlot, mySub, count>>

\* The reader is cached and the cleanup task spawned.
Store(c) ==
  /\ pc[c] = "store"
  /\ cached' = [cached EXCEPT ![mySlot[c]] = mySub[c]]
  /\ task' = [task EXCEPT ![mySub[c]] = "waiting"]
  /\ Holds(mySlot[c], Nil)
  /\ Return(c)
  /\ UNCHANGED <<link, current, sub, home, retained, count>>

Vacant(s) == cached[s] = Nil

\* remove_empty_track_slot: what it does to the map, with the slot's lock
RemoveIfEmpty(s) ==
  current' = IF Vacant(s) /\ current = s THEN Nil ELSE current

RemoveEmpty(c) ==
  /\ pc[c] = "empty" /\ lock[mySlot[c]] = Nil
  /\ RemoveIfEmpty(mySlot[c])
  /\ LetGo({mySub[c]})
  /\ Return(c)
  /\ UNCHANGED <<link, cached, lock, task, home, count>>

\* The future is dropped at an await, with the lock and the request it holds.
Abandon(c) ==
  /\ pc[c] \in {"get", "lock", "check", "open", "empty"}
  /\ lock' = [s \in Slots |-> IF lock[s] = c THEN Nil ELSE lock[s]]
  /\ LetGo(IF pc[c] \in {"open", "empty"} THEN {mySub[c]} ELSE {})
  /\ Return(c)
  /\ abandoned' = TRUE
  /\ UNCHANGED <<link, current, cached, task, home, calls>>

-----------------------------------------------------------------------------
(* The cleanup task of a subscription                                        *)

\* PUBLISH_DONE: the session closes the reader and Subscribe::closed returns.
UpstreamDone(r) ==
  /\ sub[r] = "open" /\ session = "running"
  /\ sub' = [sub EXCEPT ![r] = "done"]
  /\ UNCHANGED <<link, current, cached, lock, task, home, retained, caller, count>>

Wakes(r) == sub[r] = "done" \/ cancelled

Wake(r) ==
  /\ task[r] = "waiting" /\ Wakes(r)
  /\ task' = [task EXCEPT ![r] = "clear"]
  /\ UNCHANGED <<link, current, cached, lock, sub, home, retained, caller, count>>

IsMine(r) == cached[home[r]] = r

ClearSlot(r) ==
  /\ task[r] = "clear" /\ lock[home[r]] = Nil
  /\ cached' = IF IsMine(r) THEN [cached EXCEPT ![home[r]] = Nil] ELSE cached
  /\ task' = [task EXCEPT ![r] = "empty"]
  /\ UNCHANGED <<link, current, lock, sub, home, retained, caller, count>>

\* The slot goes from the map if it is empty; the task returns and drops the
\* subscription and its retention.
RemoveCleared(r) ==
  /\ task[r] = "empty" /\ lock[home[r]] = Nil
  /\ RemoveIfEmpty(home[r])
  /\ LetGo({r})
  /\ task' = [task EXCEPT ![r] = "none"]
  /\ UNCHANGED <<link, cached, lock, home, caller, count>>

-----------------------------------------------------------------------------
(* The connection                                                            *)

\* The session ends by itself, or because it is cancelled; its task then
\* marks the connection.
SessionEnds ==
  /\ session = "running"
  /\ session' = "ended"
  /\ UNCHANGED <<connected, cancelled, clearing, current, cached, lock, subs, caller, count>>

Disconnected ==
  /\ session = "ended" /\ connected
  /\ connected' = FALSE
  /\ UNCHANGED <<session, cancelled, clearing, current, cached, lock, subs, caller, count>>

\* Remote::shutdown, and when it has the lock of the map
Shutdown ==
  /\ ~cancelled
  /\ cancelled' = TRUE /\ connected' = FALSE /\ clearing' = TRUE
  /\ UNCHANGED <<session, current, cached, lock, subs, caller, count>>

ClearTracks ==
  /\ clearing
  /\ clearing' = FALSE /\ current' = Nil
  /\ UNCHANGED <<session, connected, cancelled, cached, lock, subs, caller, count>>

-----------------------------------------------------------------------------
CallStep(c) ==
  \/ Start(c) \/ GetSlot(c) \/ LockSlot(c) \/ CheckSlot(c) \/ OpenOk(c) \/ OpenFails(c)
  \/ OpenedInVain(c) \/ StillConnected(c) \/ Store(c) \/ RemoveEmpty(c)

Cleanup(r) == Wake(r) \/ ClearSlot(r) \/ RemoveCleared(r)

Next ==
  \/ \E c \in Callers : Call(c) \/ CallStep(c) \/ Abandon(c)
  \/ \E r \in Subs : UpstreamDone(r) \/ Cleanup(r)
  \/ SessionEnds \/ Disconnected \/ Shutdown \/ ClearTracks

Spec == Init /\ [][Next]_vars

\* Tasks run and tokio mutexes are fair.  While the session runs an open is
\* answered, by the peer or by the deadline; nothing makes the peer end a
\* subscription.
Fairness ==
  /\ \A c \in Callers : SF_vars(CallStep(c))
  /\ \A r \in Subs : SF_vars(Cleanup(r))
  /\ WF_vars(cancelled /\ SessionEnds) /\ WF_vars(Disconnected) /\ WF_vars(ClearTracks)

LiveSpec == Spec /\ Fairness

-----------------------------------------------------------------------------
TypeOK ==
  /\ current \in Slots \cup {Nil}
  /\ cached \in [Slots -> Subs \cup {Nil}]
  /\ lock \in [Slots -> Callers \cup {Nil}]
  /\ \A c \in Callers :
       /\ (pc[c] \in {"check", "open", "opened", "store"}) <=> \E s \in Slots : lock[s] = c
       /\ pc[c] \in {"open", "opened", "store"} => retained[mySub[c]] /\ sub[mySub[c]] # "none"
       /\ pc[c] = "empty" => retained[mySub[c]]
  /\ \A r \in Subs : task[r] # "none" => retained[r] /\ sub[r] \in {"open", "done"}

(* remote.rs:912-937: calls that come together share one subscription while  *)
(* the connection is up.  The session refuses a second one for the track as  *)
(* a duplicate, and the refusal would cost everybody the connection          *)
(* (remote.rs:502-506).  Once it is known to be gone a call that opened in   *)
(* vain gives the lock back with its subscription alive (remote.rs:971-975), *)
(* and the next call in the queue asks for a second one.                     *)
OneSubscription ==
  connected => \A r, q \in Subs :
    sub[r] \in {"opening", "open"} /\ sub[q] \in {"opening", "open"} => r = q

Quiet ==
  /\ \A c \in Callers : pc[c] = "idle"
  /\ \A r \in Subs : task[r] = "none"

(* remote.rs:723-737, 953-975, 1001-1010: when no call and no subscription   *)
(* is left, neither is an entry in the map, unless the future of a call was  *)
(* dropped.                                                                  *)
SlotsReclaimed == Quiet /\ ~abandoned => current = Nil

(* remote.rs:983-1010: the reader of an open subscription is where the next  *)
(* call finds it, as long as the connection was not shut down.               *)
OpenIsShared ==
  ~cancelled =>
    \A r \in Subs : task[r] = "waiting" /\ sub[r] = "open" => current # Nil /\ cached[current] = r

-----------------------------------------------------------------------------
(* What a comment of the code says, and the code does not do                 *)

(* remote.rs:949-951: "The guard lives in the cleanup task below, so         *)
(* retention ends with the upstream subscription."                           *)
RetentionEnds ==
  \A r \in Subs : task[r] = "waiting" /\ session = "ended" ~> ~retained[r]
=============================================================================
