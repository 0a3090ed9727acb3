------------------------ MODULE RemoteConnections ------------------------
(***************************************************************************)
(* The pool of connections to other relays (moq-relay-ietf remote.rs): the *)
(* slot of one cache key in the map of RemoteManager, the calls that share *)
(* the connection in it, the task that runs each connection's session, and *)
(* the shutdown of the manager.  Other keys have slots of their own.       *)
(*                                                                         *)
(* Both locks are tokio mutexes.  That of the map is never held across an  *)
(* await, so what is done under it is one step here; that of a slot is     *)
(* held while its connection is dialled.                                   *)
(***************************************************************************)
EXTENDS Naturals, FiniteSets

CONSTANTS
  Callers,   \* tasks that call subscribe, fetch, publish_namespace, ...
  Slots,     \* identities of slots, used again when nothing refers to them
  Conns,     \* identities of connections, used again likewise
  MaxCalls,  \* how many calls are made
  Nil

RemoteConnectionsAssumption ==
  MaxCalls \in Nat /\ Nil \notin Slots \cup Conns \cup Callers

VARIABLES
  current,   \* the slot that RemoteManager::remotes holds for the key
  cached,    \* slot -> the connection in it
  lock,      \* slot -> who holds its lock
  connected, \* conn -> Remote::connected
  cancelled, \* conn -> Remote::cancel
  session,   \* conn -> "none", "running", "clear", "empty": its task
  home,      \* conn -> the slot it was dialled for
  pc,        \* caller -> where it is
  mySlot,    \* caller -> the slot it refers to
  myConn,    \* caller -> the connection it was given
  drained,   \* slots that shutdown took out of the map and has not reached
  shut,      \* whether shutdown was called
  calls

pool == <<current, cached>>
conn == <<connected, cancelled, session, home>>
caller == <<pc, mySlot, myConn>>
poolVars == <<pool, lock, conn, caller, drained, shut, calls>>

PoolInit ==
  /\ current = Nil
  /\ cached = [s \in Slots |-> Nil] /\ lock = [s \in Slots |-> Nil]
  /\ connected = [k \in Conns |-> FALSE] /\ cancelled = [k \in Conns |-> FALSE]
  /\ session = [k \in Conns |-> "none"] /\ home = [k \in Conns |-> Nil]
  /\ pc = [c \in Callers |-> "idle"]
  /\ mySlot = [c \in Callers |-> Nil] /\ myConn = [c \in Callers |-> Nil]
  /\ drained = {} /\ shut = FALSE /\ calls = 0

\* Nobody refers to it: the Arc has been freed.
FreeSlot(s) ==
  /\ s # current /\ s \notin drained
  /\ \A c \in Callers : mySlot[c] # s
  /\ \A k \in Conns : session[k] # "none" => home[k] # s

FreeConn(k) ==
  /\ session[k] = "none"
  /\ \A c \in Callers : myConn[c] # k
  /\ \A s \in Slots : cached[s] # k

GoTo(c, where) == pc' = [pc EXCEPT ![c] = where]
Holds(s, who) == lock' = [lock EXCEPT ![s] = who]

\* Remote::shutdown, up to its first await: the session is told to end.
ShutDown(ks) ==
  /\ cancelled' = [k \in Conns |-> cancelled[k] \/ k \in ks]
  /\ connected' = [k \in Conns |-> connected[k] /\ k \notin ks]
  /\ UNCHANGED <<session, home>>

-----------------------------------------------------------------------------
(* get_or_connect                                                            *)

Call(c) ==
  /\ pc[c] = "idle" /\ calls < MaxCalls
  /\ calls' = calls + 1
  /\ GoTo(c, "get")
  /\ UNCHANGED <<pool, lock, conn, mySlot, myConn, drained, shut>>

\* The map's entry for the key, or a new slot
GetSlot(c) ==
  /\ pc[c] = "get"
  /\ \E s \in Slots :
       /\ IF current # Nil THEN s = current /\ UNCHANGED <<current, cached>>
          ELSE /\ FreeSlot(s) /\ s = CHOOSE free \in Slots : FreeSlot(free)
               /\ current' = s /\ cached' = [cached EXCEPT ![s] = Nil]
       /\ mySlot' = [mySlot EXCEPT ![c] = s]
  /\ GoTo(c, "lock")
  /\ UNCHANGED <<lock, conn, myConn, drained, shut, calls>>

LockSlot(c) ==
  /\ pc[c] = "lock" /\ lock[mySlot[c]] = Nil
  /\ Holds(mySlot[c], c)
  /\ GoTo(c, "check")
  /\ UNCHANGED <<pool, conn, mySlot, myConn, drained, shut, calls>>

IsCurrentSlot(s) == current = s

\* A connection that is still alive is reused.
Reusable(k) == k # Nil /\ connected[k]

CheckSlot(c) ==
  LET s == mySlot[c]
      k == cached[s] IN
  /\ pc[c] = "check"
  /\ IF ~IsCurrentSlot(s)
     THEN /\ Holds(s, Nil) /\ GoTo(c, "get") /\ mySlot' = [mySlot EXCEPT ![c] = Nil]
          /\ UNCHANGED <<cached, conn, myConn>>
     ELSE IF Reusable(k)
     THEN /\ Holds(s, Nil) /\ GoTo(c, "use")
          /\ mySlot' = [mySlot EXCEPT ![c] = Nil] /\ myConn' = [myConn EXCEPT ![c] = k]
          /\ UNCHANGED <<cached, conn>>
     ELSE /\ GoTo(c, "dial")
          /\ cached' = [cached EXCEPT ![s] = Nil]
          /\ ShutDown({k} \ {Nil})
          /\ UNCHANGED <<lock, mySlot, myConn>>
  /\ UNCHANGED <<current, drained, shut, calls>>

\* Remote::connect: the session's task is spawned ...
Dialled(c) ==
  /\ pc[c] = "dial"
  /\ \E k \in Conns :
       /\ FreeConn(k) /\ k = CHOOSE free \in Conns : FreeConn(free)
       /\ connected' = [connected EXCEPT ![k] = TRUE]
       /\ cancelled' = [cancelled EXCEPT ![k] = FALSE]
       /\ session' = [session EXCEPT ![k] = "running"]
       /\ home' = [home EXCEPT ![k] = mySlot[c]]
       /\ myConn' = [myConn EXCEPT ![c] = k]
  /\ GoTo(c, "store")
  /\ UNCHANGED <<pool, lock, mySlot, drained, shut, calls>>

\* ... before the connection is put in the slot.
Store(c) ==
  /\ pc[c] = "store"
  /\ cached' = [cached EXCEPT ![mySlot[c]] = myConn[c]]
  /\ Holds(mySlot[c], Nil)
  /\ mySlot' = [mySlot EXCEPT ![c] = Nil]
  /\ GoTo(c, "use")
  /\ UNCHANGED <<current, conn, myConn, drained, shut, calls>>

\* Mutant: the lock is still held when the slot is to be removed.
DialFails_KeepsLock(c) ==
  /\ pc[c] = "dial"
  /\ GoTo(c, "empty")
  /\ UNCHANGED <<pool, lock, conn, mySlot, myConn, drained, shut, calls>>

DialFails(c) ==
  /\ pc[c] = "dial"
  /\ Holds(mySlot[c], Nil)
  /\ GoTo(c, "empty")
  /\ UNCHANGED <<pool, conn, mySlot, myConn, drained, shut, calls>>

Return(c) ==
  /\ GoTo(c, "idle")
  /\ mySlot' = [mySlot EXCEPT ![c] = Nil] /\ myConn' = [myConn EXCEPT ![c] = Nil]

\* Mutant: the map's entry is removed whatever is in the slot.
Vacant_Any(s) == TRUE

Vacant(s) == cached[s] = Nil

\* remove_empty_remote_slot: what it does to the map, with the slot's lock
RemoveIfEmpty(s) ==
  current' = IF Vacant(s) /\ current = s THEN Nil ELSE current

RemoveEmpty(c) ==
  /\ pc[c] = "empty" /\ lock[mySlot[c]] = Nil
  /\ RemoveIfEmpty(mySlot[c])
  /\ Return(c)
  /\ UNCHANGED <<cached, lock, conn, drained, shut, calls>>

-----------------------------------------------------------------------------
(* What is done with the connection                                          *)

\* The request succeeds; or it is a fetch or a subscribe_namespace, whose
\* failure leaves the connection alone.
Done(c) ==
  /\ pc[c] = "use"
  /\ Return(c)
  /\ UNCHANGED <<pool, lock, conn, drained, shut, calls>>

\* subscribe and publish_namespace fail: remove_if_same_remote
Fail(c) ==
  /\ pc[c] = "use"
  /\ IF current = Nil THEN Return(c)
     ELSE /\ GoTo(c, "evict") /\ mySlot' = [mySlot EXCEPT ![c] = current]
          /\ UNCHANGED myConn
  /\ UNCHANGED <<pool, lock, conn, drained, shut, calls>>

\* Mutant: whatever connection is in the slot goes.
SameConnection_Any(c) == cached[mySlot[c]] # Nil

SameConnection(c) == cached[mySlot[c]] = myConn[c]

Evict(c) ==
  /\ pc[c] = "evict" /\ lock[mySlot[c]] = Nil
  /\ IF SameConnection(c)
     THEN /\ cached' = [cached EXCEPT ![mySlot[c]] = Nil]
          /\ myConn' = [myConn EXCEPT ![c] = cached[mySlot[c]]]
          /\ GoTo(c, "evicted")
          /\ UNCHANGED mySlot
     ELSE Return(c) /\ UNCHANGED cached
  /\ UNCHANGED <<current, lock, conn, drained, shut, calls>>

\* The lock is released before the connection is shut down.
Evicted(c) ==
  /\ pc[c] = "evicted"
  /\ ShutDown({myConn[c]})
  /\ GoTo(c, "empty")
  /\ UNCHANGED <<pool, lock, mySlot, myConn, drained, shut, calls>>

\* The future is dropped at an await (its client has gone); a lock it holds
\* is released.  Nothing is awaited between spawning a session and storing
\* its connection, nor between taking a connection out and cancelling it.
Abandon(c) ==
  /\ pc[c] \in {"get", "lock", "check", "dial", "use", "evict", "empty"}
  /\ lock' = [s \in Slots |-> IF lock[s] = c THEN Nil ELSE lock[s]]
  /\ Return(c)
  /\ UNCHANGED <<pool, conn, drained, shut, calls>>

-----------------------------------------------------------------------------
(* The task of a session, and RemoteManager::shutdown                        *)

SessionEnds(k) ==
  /\ session[k] = "running"
  /\ session' = [session EXCEPT ![k] = "clear"]
  /\ connected' = [connected EXCEPT ![k] = FALSE]
  /\ UNCHANGED <<pool, lock, cancelled, home, caller, drained, shut, calls>>

IsMine(k) == cached[home[k]] = k

ClearSlot(k) ==
  /\ session[k] = "clear" /\ lock[home[k]] = Nil
  /\ IF IsMine(k)
     THEN /\ cached' = [cached EXCEPT ![home[k]] = Nil]
          /\ session' = [session EXCEPT ![k] = "empty"]
     ELSE session' = [session EXCEPT ![k] = "none"] /\ UNCHANGED cached
  /\ UNCHANGED <<current, lock, connected, cancelled, home, caller, drained, shut, calls>>

RemoveCleared(k) ==
  /\ session[k] = "empty" /\ lock[home[k]] = Nil
  /\ RemoveIfEmpty(home[k])
  /\ session' = [session EXCEPT ![k] = "none"]
  /\ UNCHANGED <<cached, lock, connected, cancelled, home, caller, drained, shut, calls>>

\* The relay shuts the pool down once, while calls may still be under way.
Drain ==
  /\ ~shut /\ current # Nil
  /\ shut' = TRUE
  /\ drained' = drained \cup {current}
  /\ current' = Nil
  /\ UNCHANGED <<cached, lock, conn, caller, calls>>

ShutDownSlot(s) ==
  /\ s \in drained /\ lock[s] = Nil
  /\ drained' = drained \ {s}
  /\ cached' = [cached EXCEPT ![s] = Nil]
  /\ ShutDown({cached[s]} \ {Nil})
  /\ UNCHANGED <<current, lock, caller, shut, calls>>

-----------------------------------------------------------------------------
CallStep(c) ==
  \/ GetSlot(c) \/ LockSlot(c) \/ CheckSlot(c) \/ Dialled(c) \/ Store(c)
  \/ DialFails(c) \/ RemoveEmpty(c) \/ Done(c) \/ Fail(c) \/ Evict(c) \/ Evicted(c)

Task(k) == ClearSlot(k) \/ RemoveCleared(k)

PoolNext ==
  \/ \E c \in Callers : Call(c) \/ CallStep(c) \/ Abandon(c)
  \/ \E k \in Conns : SessionEnds(k) \/ Task(k)
  \/ Drain \/ \E s \in Slots : ShutDownSlot(s)

PoolSpec == PoolInit /\ [][PoolNext]_poolVars

\* Tasks run, and tokio mutexes are fair, so that a task that waits for a
\* lock gets it though others come and go; a dial ends, one way or the other,
\* and so does a request.
PoolFairness ==
  /\ \A c \in Callers : SF_poolVars(CallStep(c))
  /\ SF_poolVars(\E s \in Slots : ShutDownSlot(s))

PoolLiveSpec == PoolSpec /\ PoolFairness

-----------------------------------------------------------------------------
PoolTypeOK ==
  /\ current \in Slots \cup {Nil} /\ current \notin drained
  /\ cached \in [Slots -> Conns \cup {Nil}]
  /\ lock \in [Slots -> Callers \cup {Nil}]
  /\ session \in [Conns -> {"none", "running", "clear", "empty"}]
  /\ drained \subseteq Slots
  /\ \A c \in Callers :
       /\ (pc[c] \in {"check", "dial", "store"}) <=> \E s \in Slots : lock[s] = c
       /\ pc[c] \in {"check", "dial", "store"} => lock[mySlot[c]] = c
       /\ pc[c] \in {"store", "use", "evict", "evicted"} => myConn[c] # Nil

Live(k) == session[k] = "running" /\ ~cancelled[k]

\* Somebody is about to take it out and end it.
Condemned(k) ==
  \/ \E s \in drained : cached[s] = k
  \/ \E c \in Callers : myConn[c] = k /\ \/ pc[c] = "evicted"
                                         \/ pc[c] = "store" /\ mySlot[c] \in drained

\* Of two calls that dial at once, one does it for a slot that a shutdown has taken out of the map.
OneDialPerKey ==
  \A c, d \in Callers :
    c # d /\ pc[c] \in {"dial", "store"} /\ pc[d] \in {"dial", "store"}
      => mySlot[c] \in drained \/ mySlot[d] \in drained

(* remote.rs:597-721: a live connection is never lost: it is in the slot of  *)
(* the map, where calls share it and shutdown finds it, or on its way there, *)
(* or somebody is about to end it.  And one call at a time dials: "The       *)
(* per-key slot lock protects that key's connection state".                  *)
LiveIsPooled ==
  /\ \A k \in Conns :
       Live(k) =>
         \/ Condemned(k)
         \/ current # Nil /\ \/ cached[current] = k
                             \/ \E c \in Callers : pc[c] = "store" /\ mySlot[c] = current /\ myConn[c] = k
  /\ OneDialPerKey

\* The calls to whom connection k failed
FailedFor(k) == {c \in Callers : pc[c] = "evicted" /\ myConn[c] = k}

(* remote.rs:668-688, 825-843: a connection that works is cancelled only by  *)
(* a shutdown or by a call that was given this connection and saw it fail,   *)
(* never for the failure of the one before it.                               *)
OnlyFailedIsEvicted ==
  [][ \A k \in Conns :
        ( ~cancelled[k] /\ cancelled'[k] /\ connected[k] )
          => \/ drained' # drained
             \/ \E c \in Callers : c \in FailedFor(k) /\ pc'[c] = "empty" ]_poolVars

(* remote.rs:668-681: what a call evicts is what it was using.               *)
EvictsItsOwn ==
  [][ \A c \in Callers : pc[c] = "evict" /\ pc'[c] = "evicted" => myConn'[c] = myConn[c] ]_poolVars

(* remote.rs:827-841: the end of a session does not take a live connection   *)
(* out of its slot.                                                          *)
ClearsOnlyDead ==
  [][ \A k \in Conns : session[k] = "clear" /\ session'[k] = "empty"
        => \A s \in Slots : cached'[s] # cached[s] => ~connected[cached[s]] ]_poolVars

(* remote.rs: a connection is taken out and ended for its own sake only.     *)
OnlyItsOwnIsDropped == EvictsItsOwn /\ OnlyFailedIsEvicted /\ ClearsOnlyDead

(* remote.rs:597-704: a pool that is busy comes to rest.  No call waits for  *)
(* ever, though slots are replaced and locks are held while connections are  *)
(* dialled, and a shutdown ends.  Calls are bounded by MaxCalls.             *)
ComesToRest ==
  LET AtRest == drained = {} /\ \A c \in Callers : pc[c] = "idle"
  IN  ~AtRest ~> AtRest
=============================================================================
