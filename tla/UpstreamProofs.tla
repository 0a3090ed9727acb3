--------------------------- MODULE UpstreamProofs ---------------------------
(* What is proved of a relay towards other relays, for any number of calls,  *)
(* slots, connections and subscriptions: the pool of connections and the     *)
(* tracks of one of them; and what follows of the whole of MCUpstream.       *)
EXTENDS MCUpstream, TLAPS

Steps == {"idle", "get", "lock", "check", "dial", "store", "use", "evict", "evicted", "empty"}
Holding == {"check", "dial", "store"}

Types ==
  /\ current \in Slots \cup {Nil} /\ current \notin drained /\ drained \subseteq Slots
  /\ cached \in [Slots -> Conns \cup {Nil}]
  /\ lock \in [Slots -> Callers \cup {Nil}]
  /\ connected \in [Conns -> BOOLEAN] /\ cancelled \in [Conns -> BOOLEAN]
  /\ session \in [Conns -> {"none", "running", "clear", "empty"}]
  /\ home \in [Conns -> Slots \cup {Nil}]
  /\ pc \in [Callers -> Steps]
  /\ mySlot \in [Callers -> Slots \cup {Nil}] /\ myConn \in [Callers -> Conns \cup {Nil}]

\* Who holds the lock of a slot is at a step that holds it, for that slot.
Locked ==
  /\ \A c \in Callers : pc[c] \in Holding => mySlot[c] \in Slots /\ lock[mySlot[c]] = c
  /\ \A s \in Slots : lock[s] # Nil => pc[lock[s]] \in Holding /\ mySlot[lock[s]] = s
  /\ \A c \in Callers : pc[c] \in {"lock", "evict", "evicted", "empty"} => mySlot[c] \in Slots
  /\ \A c \in Callers : pc[c] \in {"store", "use", "evict", "evicted"} => myConn[c] \in Conns

\* A slot that is dialled for is in the map or was taken out of it by shutdown, and is empty; a slot
\* that is neither is empty as well.
Dialling ==
  /\ \A c \in Callers : pc[c] \in {"dial", "store"} =>
       mySlot[c] \in drained \cup {current} /\ cached[mySlot[c]] = Nil
  /\ \A s \in Slots : s # current /\ s \notin drained => cached[s] = Nil

\* The task of a session knows its slot, and its connection is marked dead when it ends.
Tasks ==
  \A k \in Conns : /\ session[k] # "none" => home[k] \in Slots
                   /\ session[k] \in {"clear", "empty"} => ~connected[k]

Pooled(k) ==
  \/ Condemned(k)
  \/ current # Nil /\ \/ cached[current] = k
                      \/ \E c \in Callers : pc[c] = "store" /\ mySlot[c] = current /\ myConn[c] = k

PoolInv == Types /\ Locked /\ Dialling /\ Tasks /\ \A k \in Conns : Live(k) => Pooled(k)

USE DEF Steps, Holding, RemoteConnectionsAssumption, pool, conn, caller, GoTo, Holds, Return

LEMMA InitInv == ASSUME RemoteConnectionsAssumption, PoolInit PROVE PoolInv
  BY DEF PoolInit, PoolInv, Types, Locked, Dialling, Tasks, Live

\* Shutting connections down cancels them and leaves the others alone.
LEMMA ShutDownCancels ==
  ASSUME Types, NEW ks, ShutDown(ks)
  PROVE  /\ connected' \in [Conns -> BOOLEAN] /\ cancelled' \in [Conns -> BOOLEAN]
         /\ session' = session /\ home' = home
         /\ \A j \in Conns : cancelled'[j] <=> cancelled[j] \/ j \in ks
<1>1. connected' \in [Conns -> BOOLEAN] /\ cancelled' \in [Conns -> BOOLEAN]
  BY Zenon DEF ShutDown
<1>2. \A j \in Conns : cancelled'[j] <=> cancelled[j] \/ j \in ks
  BY Zenon DEF ShutDown
<1>3. QED
  BY <1>1, <1>2 DEF ShutDown

LEMMA TypesStep ==
  ASSUME RemoteConnectionsAssumption, Types, Locked, Tasks, [PoolNext]_poolVars PROVE Types'
<1> USE DEF Types, Locked, Tasks
<1>1. ASSUME NEW c \in Callers, Call(c) PROVE Types'
  BY <1>1 DEF Call
<1>2. ASSUME NEW c \in Callers, GetSlot(c) PROVE Types'
  BY <1>2 DEF GetSlot, FreeSlot
<1>3. ASSUME NEW c \in Callers, LockSlot(c) PROVE Types'
  BY <1>3 DEF LockSlot
<1>4. ASSUME NEW c \in Callers, CheckSlot(c) PROVE Types'
  <2>1. CASE ~IsCurrentSlot(mySlot[c])
    BY <1>4, <2>1 DEF CheckSlot
  <2>2. CASE IsCurrentSlot(mySlot[c]) /\ Reusable(cached[mySlot[c]])
    BY <1>4, <2>2 DEF CheckSlot, Reusable
  <2>3. CASE IsCurrentSlot(mySlot[c]) /\ ~Reusable(cached[mySlot[c]])
    <3>1. ShutDown({cached[mySlot[c]]} \ {Nil})
      BY <1>4, <2>3 DEF CheckSlot
    <3>2. QED
      BY <1>4, <2>3, <3>1, ShutDownCancels DEF CheckSlot, IsCurrentSlot
  <2>4. QED
    BY <2>1, <2>2, <2>3
<1>5. ASSUME NEW c \in Callers, Dialled(c) PROVE Types'
  BY <1>5 DEF Dialled, FreeConn
<1>6. ASSUME NEW c \in Callers, Store(c) PROVE Types'
  BY <1>6 DEF Store
<1>7. ASSUME NEW c \in Callers, DialFails(c) PROVE Types'
  BY <1>7 DEF DialFails
<1>8. ASSUME NEW c \in Callers, RemoveEmpty(c) PROVE Types'
  BY <1>8 DEF RemoveEmpty, RemoveIfEmpty, Vacant
<1>9. ASSUME NEW c \in Callers, Done(c) PROVE Types'
  BY <1>9 DEF Done
<1>10. ASSUME NEW c \in Callers, Fail(c) PROVE Types'
  BY <1>10 DEF Fail
<1>11. ASSUME NEW c \in Callers, Evict(c) PROVE Types'
  BY <1>11 DEF Evict, SameConnection
<1>12. ASSUME NEW c \in Callers, Evicted(c) PROVE Types'
  BY <1>12 DEF Evicted, ShutDown
<1>13. ASSUME NEW c \in Callers, Abandon(c) PROVE Types'
  BY <1>13 DEF Abandon
<1>14. ASSUME NEW k \in Conns, SessionEnds(k) PROVE Types'
  BY <1>14 DEF SessionEnds
<1>15. ASSUME NEW k \in Conns, ClearSlot(k) PROVE Types'
  BY <1>15 DEF ClearSlot, IsMine
<1>16. ASSUME NEW k \in Conns, RemoveCleared(k) PROVE Types'
  BY <1>16 DEF RemoveCleared, RemoveIfEmpty, Vacant
<1>17. CASE Drain
  BY <1>17 DEF Drain
<1>18. ASSUME NEW s \in Slots, ShutDownSlot(s) PROVE Types'
  BY <1>18 DEF ShutDownSlot, ShutDown
<1>19. CASE UNCHANGED poolVars
  BY <1>19 DEF poolVars
<1>20. QED
  BY <1>1, <1>2, <1>3, <1>4, <1>5, <1>6, <1>7, <1>8, <1>9, <1>10, <1>11, <1>12, <1>13, <1>14, <1>15, <1>16, <1>17, <1>18, <1>19
     DEF PoolNext, CallStep, Task

LEMMA LockedStep ==
  ASSUME RemoteConnectionsAssumption, Types, Locked, [PoolNext]_poolVars PROVE Locked'
<1> USE DEF Types, Locked
<1>1. ASSUME NEW c \in Callers, Call(c) PROVE Locked'
  BY <1>1 DEF Call
<1>2. ASSUME NEW c \in Callers, GetSlot(c) PROVE Locked'
  BY <1>2 DEF GetSlot, FreeSlot
<1>3. ASSUME NEW c \in Callers, LockSlot(c) PROVE Locked'
  BY <1>3 DEF LockSlot
<1>4. ASSUME NEW c \in Callers, CheckSlot(c) PROVE Locked'
  <2>1. CASE ~IsCurrentSlot(mySlot[c])
    BY <1>4, <2>1 DEF CheckSlot
  <2>2. CASE IsCurrentSlot(mySlot[c]) /\ Reusable(cached[mySlot[c]])
    BY <1>4, <2>2 DEF CheckSlot, Reusable
  <2>3. CASE IsCurrentSlot(mySlot[c]) /\ ~Reusable(cached[mySlot[c]])
    BY <1>4, <2>3 DEF CheckSlot, ShutDown, IsCurrentSlot
  <2>4. QED
    BY <2>1, <2>2, <2>3
<1>5. ASSUME NEW c \in Callers, Dialled(c) PROVE Locked'
  BY <1>5 DEF Dialled, FreeConn
<1>6. ASSUME NEW c \in Callers, Store(c) PROVE Locked'
  BY <1>6 DEF Store
<1>7. ASSUME NEW c \in Callers, DialFails(c) PROVE Locked'
  BY <1>7 DEF DialFails
<1>8. ASSUME NEW c \in Callers, RemoveEmpty(c) PROVE Locked'
  BY <1>8 DEF RemoveEmpty, RemoveIfEmpty, Vacant
<1>9. ASSUME NEW c \in Callers, Done(c) PROVE Locked'
  BY <1>9 DEF Done
<1>10. ASSUME NEW c \in Callers, Fail(c) PROVE Locked'
  BY <1>10 DEF Fail
<1>11. ASSUME NEW c \in Callers, Evict(c) PROVE Locked'
  BY <1>11 DEF Evict, SameConnection
<1>12. ASSUME NEW c \in Callers, Evicted(c) PROVE Locked'
  BY <1>12 DEF Evicted, ShutDown
<1>13. ASSUME NEW c \in Callers, Abandon(c) PROVE Locked'
  BY <1>13 DEF Abandon
<1>14. ASSUME NEW k \in Conns, SessionEnds(k) PROVE Locked'
  BY <1>14 DEF SessionEnds
<1>15. ASSUME NEW k \in Conns, ClearSlot(k) PROVE Locked'
  BY <1>15 DEF ClearSlot, IsMine
<1>16. ASSUME NEW k \in Conns, RemoveCleared(k) PROVE Locked'
  BY <1>16 DEF RemoveCleared, RemoveIfEmpty, Vacant
<1>17. CASE Drain
  BY <1>17 DEF Drain
<1>18. ASSUME NEW s \in Slots, ShutDownSlot(s) PROVE Locked'
  BY <1>18 DEF ShutDownSlot, ShutDown
<1>19. CASE UNCHANGED poolVars
  BY <1>19 DEF poolVars
<1>20. QED
  BY <1>1, <1>2, <1>3, <1>4, <1>5, <1>6, <1>7, <1>8, <1>9, <1>10, <1>11, <1>12, <1>13, <1>14, <1>15, <1>16, <1>17, <1>18, <1>19
     DEF PoolNext, CallStep, Task

LEMMA DiallingStep ==
  ASSUME RemoteConnectionsAssumption, Types, Locked, Dialling, [PoolNext]_poolVars PROVE Dialling'
<1> USE DEF Types, Locked, Dialling
<1>1. ASSUME NEW c \in Callers, Call(c) PROVE Dialling'
  BY <1>1 DEF Call
<1>2. ASSUME NEW c \in Callers, GetSlot(c) PROVE Dialling'
  BY <1>2 DEF GetSlot, FreeSlot
<1>3. ASSUME NEW c \in Callers, LockSlot(c) PROVE Dialling'
  BY <1>3 DEF LockSlot
<1>4. ASSUME NEW c \in Callers, CheckSlot(c) PROVE Dialling'
  <2>1. CASE ~IsCurrentSlot(mySlot[c])
    BY <1>4, <2>1 DEF CheckSlot
  <2>2. CASE IsCurrentSlot(mySlot[c]) /\ Reusable(cached[mySlot[c]])
    BY <1>4, <2>2 DEF CheckSlot, Reusable
  <2>3. CASE IsCurrentSlot(mySlot[c]) /\ ~Reusable(cached[mySlot[c]])
    BY <1>4, <2>3 DEF CheckSlot, ShutDown, IsCurrentSlot
  <2>4. QED
    BY <2>1, <2>2, <2>3
<1>5. ASSUME NEW c \in Callers, Dialled(c) PROVE Dialling'
  BY <1>5 DEF Dialled, FreeConn
<1>6. ASSUME NEW c \in Callers, Store(c) PROVE Dialling'
  BY <1>6 DEF Store
<1>7. ASSUME NEW c \in Callers, DialFails(c) PROVE Dialling'
  BY <1>7 DEF DialFails
<1>8. ASSUME NEW c \in Callers, RemoveEmpty(c) PROVE Dialling'
  BY <1>8 DEF RemoveEmpty, RemoveIfEmpty, Vacant
<1>9. ASSUME NEW c \in Callers, Done(c) PROVE Dialling'
  BY <1>9 DEF Done
<1>10. ASSUME NEW c \in Callers, Fail(c) PROVE Dialling'
  BY <1>10 DEF Fail
<1>11. ASSUME NEW c \in Callers, Evict(c) PROVE Dialling'
  BY <1>11 DEF Evict, SameConnection
<1>12. ASSUME NEW c \in Callers, Evicted(c) PROVE Dialling'
  BY <1>12 DEF Evicted, ShutDown
<1>13. ASSUME NEW c \in Callers, Abandon(c) PROVE Dialling'
  BY <1>13 DEF Abandon
<1>14. ASSUME NEW k \in Conns, SessionEnds(k) PROVE Dialling'
  BY <1>14 DEF SessionEnds
<1>15. ASSUME NEW k \in Conns, ClearSlot(k) PROVE Dialling'
  BY <1>15 DEF ClearSlot, IsMine
<1>16. ASSUME NEW k \in Conns, RemoveCleared(k) PROVE Dialling'
  BY <1>16 DEF RemoveCleared, RemoveIfEmpty, Vacant
<1>17. CASE Drain
  BY <1>17 DEF Drain
<1>18. ASSUME NEW s \in Slots, ShutDownSlot(s) PROVE Dialling'
  BY <1>18 DEF ShutDownSlot, ShutDown
<1>19. CASE UNCHANGED poolVars
  BY <1>19 DEF poolVars
<1>20. QED
  BY <1>1, <1>2, <1>3, <1>4, <1>5, <1>6, <1>7, <1>8, <1>9, <1>10, <1>11, <1>12, <1>13, <1>14, <1>15, <1>16, <1>17, <1>18, <1>19
     DEF PoolNext, CallStep, Task

LEMMA TasksStep ==
  ASSUME RemoteConnectionsAssumption, Types, Locked, Tasks, [PoolNext]_poolVars PROVE Tasks'
<1> USE DEF Types, Locked, Tasks
<1>1. ASSUME NEW c \in Callers, Call(c) PROVE Tasks'
  BY <1>1 DEF Call
<1>2. ASSUME NEW c \in Callers, GetSlot(c) PROVE Tasks'
  BY <1>2 DEF GetSlot, FreeSlot
<1>3. ASSUME NEW c \in Callers, LockSlot(c) PROVE Tasks'
  BY <1>3 DEF LockSlot
<1>4. ASSUME NEW c \in Callers, CheckSlot(c) PROVE Tasks'
  <2>1. CASE ~IsCurrentSlot(mySlot[c])
    BY <1>4, <2>1 DEF CheckSlot
  <2>2. CASE IsCurrentSlot(mySlot[c]) /\ Reusable(cached[mySlot[c]])
    BY <1>4, <2>2 DEF CheckSlot, Reusable
  <2>3. CASE IsCurrentSlot(mySlot[c]) /\ ~Reusable(cached[mySlot[c]])
    BY <1>4, <2>3 DEF CheckSlot, ShutDown, IsCurrentSlot
  <2>4. QED
    BY <2>1, <2>2, <2>3
<1>5. ASSUME NEW c \in Callers, Dialled(c) PROVE Tasks'
  BY <1>5 DEF Dialled, FreeConn
<1>6. ASSUME NEW c \in Callers, Store(c) PROVE Tasks'
  BY <1>6 DEF Store
<1>7. ASSUME NEW c \in Callers, DialFails(c) PROVE Tasks'
  BY <1>7 DEF DialFails
<1>8. ASSUME NEW c \in Callers, RemoveEmpty(c) PROVE Tasks'
  BY <1>8 DEF RemoveEmpty, RemoveIfEmpty, Vacant
<1>9. ASSUME NEW c \in Callers, Done(c) PROVE Tasks'
  BY <1>9 DEF Done
<1>10. ASSUME NEW c \in Callers, Fail(c) PROVE Tasks'
  BY <1>10 DEF Fail
<1>11. ASSUME NEW c \in Callers, Evict(c) PROVE Tasks'
  BY <1>11 DEF Evict, SameConnection
<1>12. ASSUME NEW c \in Callers, Evicted(c) PROVE Tasks'
  BY <1>12 DEF Evicted, ShutDown
<1>13. ASSUME NEW c \in Callers, Abandon(c) PROVE Tasks'
  BY <1>13 DEF Abandon
<1>14. ASSUME NEW k \in Conns, SessionEnds(k) PROVE Tasks'
  BY <1>14 DEF SessionEnds
<1>15. ASSUME NEW k \in Conns, ClearSlot(k) PROVE Tasks'
  BY <1>15 DEF ClearSlot, IsMine
<1>16. ASSUME NEW k \in Conns, RemoveCleared(k) PROVE Tasks'
  BY <1>16 DEF RemoveCleared, RemoveIfEmpty, Vacant
<1>17. CASE Drain
  BY <1>17 DEF Drain
<1>18. ASSUME NEW s \in Slots, ShutDownSlot(s) PROVE Tasks'
  BY <1>18 DEF ShutDownSlot, ShutDown
<1>19. CASE UNCHANGED poolVars
  BY <1>19 DEF poolVars
<1>20. QED
  BY <1>1, <1>2, <1>3, <1>4, <1>5, <1>6, <1>7, <1>8, <1>9, <1>10, <1>11, <1>12, <1>13, <1>14, <1>15, <1>16, <1>17, <1>18, <1>19
     DEF PoolNext, CallStep, Task

\* A live connection stays where it can be found, or in the hands of whoever is to end it.
LEMMA PooledStep ==
  ASSUME RemoteConnectionsAssumption, PoolInv, [PoolNext]_poolVars, NEW k \in Conns, Live(k)'
  PROVE  Pooled(k)'
<1> USE DEF PoolInv, Types, Locked, Dialling, Tasks, Live, Pooled, Condemned
<1>1. ASSUME NEW c \in Callers, Call(c) PROVE Pooled(k)'
  BY <1>1 DEF Call
<1>2. ASSUME NEW c \in Callers, GetSlot(c) PROVE Pooled(k)'
  BY <1>2 DEF GetSlot, FreeSlot
<1>3. ASSUME NEW c \in Callers, LockSlot(c) PROVE Pooled(k)'
  BY <1>3 DEF LockSlot
<1>4. ASSUME NEW c \in Callers, CheckSlot(c) PROVE Pooled(k)'
  <2>1. CASE ~IsCurrentSlot(mySlot[c])
    BY <1>4, <2>1 DEF CheckSlot
  <2>2. CASE IsCurrentSlot(mySlot[c]) /\ Reusable(cached[mySlot[c]])
    BY <1>4, <2>2 DEF CheckSlot, Reusable
  <2>3. CASE IsCurrentSlot(mySlot[c]) /\ ~Reusable(cached[mySlot[c]])
    <3>1. ShutDown({cached[current]} \ {Nil}) /\ mySlot[c] = current
      BY <1>4, <2>3 DEF CheckSlot, IsCurrentSlot
    <3>2. k \notin {cached[current]} \ {Nil} /\ Live(k)
      BY <3>1, ShutDownCancels
    <3>3. Pooled(k) /\ cached[current] # k
      BY <3>2
    <3>4. /\ cached' = [cached EXCEPT ![current] = Nil] /\ pc' = [pc EXCEPT ![c] = "dial"]
          /\ UNCHANGED <<current, drained, mySlot, myConn>> /\ pc[c] = "check"
      BY <1>4, <2>3, <3>1 DEF CheckSlot
    <3>5. current \notin drained
      OBVIOUS
    <3>6. QED
      BY <3>3, <3>4, <3>5
  <2>4. QED
    BY <2>1, <2>2, <2>3
<1>5. ASSUME NEW c \in Callers, Dialled(c) PROVE Pooled(k)'
  BY <1>5 DEF Dialled, FreeConn
<1>6. ASSUME NEW c \in Callers, Store(c) PROVE Pooled(k)'
  BY <1>6 DEF Store
<1>7. ASSUME NEW c \in Callers, DialFails(c) PROVE Pooled(k)'
  BY <1>7 DEF DialFails
<1>8. ASSUME NEW c \in Callers, RemoveEmpty(c) PROVE Pooled(k)'
  BY <1>8 DEF RemoveEmpty, RemoveIfEmpty, Vacant
<1>9. ASSUME NEW c \in Callers, Done(c) PROVE Pooled(k)'
  BY <1>9 DEF Done
<1>10. ASSUME NEW c \in Callers, Fail(c) PROVE Pooled(k)'
  BY <1>10 DEF Fail
<1>11. ASSUME NEW c \in Callers, Evict(c) PROVE Pooled(k)'
  BY <1>11 DEF Evict, SameConnection
<1>12. ASSUME NEW c \in Callers, Evicted(c) PROVE Pooled(k)'
  BY <1>12 DEF Evicted, ShutDown
<1>13. ASSUME NEW c \in Callers, Abandon(c) PROVE Pooled(k)'
  BY <1>13 DEF Abandon
<1>14. ASSUME NEW j \in Conns, SessionEnds(j) PROVE Pooled(k)'
  BY <1>14 DEF SessionEnds
<1>15. ASSUME NEW j \in Conns, ClearSlot(j) PROVE Pooled(k)'
  BY <1>15 DEF ClearSlot, IsMine
<1>16. ASSUME NEW j \in Conns, RemoveCleared(j) PROVE Pooled(k)'
  BY <1>16 DEF RemoveCleared, RemoveIfEmpty, Vacant
<1>17. CASE Drain
  BY <1>17 DEF Drain
<1>18. ASSUME NEW s \in Slots, ShutDownSlot(s) PROVE Pooled(k)'
  <2>1. ShutDown({cached[s]} \ {Nil}) /\ s \in drained
    BY <1>18 DEF ShutDownSlot
  <2>2. k \notin {cached[s]} \ {Nil} /\ Live(k)
    BY <2>1, ShutDownCancels
  <2>3. Pooled(k) /\ cached[s] # k
    BY <2>2
  <2>4. /\ cached' = [cached EXCEPT ![s] = Nil] /\ drained' = drained \ {s}
        /\ UNCHANGED <<current, caller>> /\ lock[s] = Nil
    BY <1>18 DEF ShutDownSlot
  <2>5. s # current /\ \A c \in Callers : pc[c] = "store" => mySlot[c] # s
    BY <2>1, <2>4
  <2>6. QED
    BY <2>3, <2>4, <2>5
<1>19. CASE UNCHANGED poolVars
  BY <1>19 DEF poolVars
<1>20. QED
  BY <1>1, <1>2, <1>3, <1>4, <1>5, <1>6, <1>7, <1>8, <1>9, <1>10, <1>11, <1>12, <1>13, <1>14, <1>15, <1>16, <1>17, <1>18, <1>19
     DEF PoolNext, CallStep, Task

-----------------------------------------------------------------------------
LEMMA InvStep == ASSUME RemoteConnectionsAssumption, PoolInv, [PoolNext]_poolVars PROVE PoolInv'
<1>1. Types' /\ Locked' /\ Dialling' /\ Tasks'
  BY TypesStep, LockedStep, DiallingStep, TasksStep DEF PoolInv
<1>2. QED
  BY <1>1, PooledStep DEF PoolInv

(* A live connection to another relay is never lost, and only one call at a  *)
(* time dials for the key, though calls are abandoned at any await, slots    *)
(* are replaced and the manager shuts down meanwhile (get_or_connect,        *)
(* remove_if_same_remote, RemoteManager::shutdown).                          *)
THEOREM NoneLost == RemoteConnectionsAssumption /\ PoolSpec => []LiveIsPooled
<1> SUFFICES ASSUME RemoteConnectionsAssumption PROVE PoolSpec => []LiveIsPooled
  OBVIOUS
<1>1. PoolInv => LiveIsPooled
  BY DEF PoolInv, Types, Locked, Dialling, Pooled, LiveIsPooled, OneDialPerKey
<1>2. QED
  BY <1>1, InitInv, InvStep, PTL DEF PoolSpec

(* The types, with who holds which lock (remote.rs).                         *)
THEOREM TypeCorrect == RemoteConnectionsAssumption /\ PoolSpec => []PoolTypeOK
<1> SUFFICES ASSUME RemoteConnectionsAssumption PROVE PoolSpec => []PoolTypeOK
  OBVIOUS
<1>1. PoolInv => PoolTypeOK
  BY DEF PoolInv, Types, Locked, PoolTypeOK
<1>2. QED
  BY <1>1, InitInv, InvStep, PTL DEF PoolSpec

-----------------------------------------------------------------------------
\* The steps that change who is where with a call
LEMMA EvictStep ==
  ASSUME RemoteConnectionsAssumption, PoolInv, [PoolNext]_poolVars, NEW c \in Callers,
         pc[c] = "evict", pc'[c] = "evicted"
  PROVE  myConn'[c] = myConn[c]
<1> USE DEF PoolInv, Types
<1>1. ASSUME NEW d \in Callers, Call(d) \/ CallStep(d) \/ Abandon(d) PROVE myConn'[c] = myConn[c]
  <2>1. CASE d # c
    BY <1>1, <2>1 DEF CallStep, Call, GetSlot, LockSlot, CheckSlot, Dialled, Store, DialFails,
      RemoveEmpty, Done, Fail, Evict, Evicted, Abandon
  <2>2. CASE d = c
    <3>1. CASE Evict(c)
      BY <3>1 DEF Evict, SameConnection
    <3>2. CASE Abandon(c) \/ Call(c)
      BY <3>2 DEF Abandon, Call
    <3>3. QED
      BY <1>1, <2>2, <3>1, <3>2 DEF CallStep, GetSlot, LockSlot, CheckSlot, Dialled, Store, DialFails,
        RemoveEmpty, Done, Fail, Evicted
  <2>3. QED
    BY <2>1, <2>2
<1>2. ASSUME NEW k \in Conns, SessionEnds(k) \/ Task(k) PROVE myConn' = myConn
  BY <1>2 DEF SessionEnds, Task, ClearSlot, RemoveCleared
<1>3. CASE Drain
  BY <1>3 DEF Drain
<1>4. ASSUME NEW s \in Slots, ShutDownSlot(s) PROVE myConn' = myConn
  BY <1>4 DEF ShutDownSlot
<1>5. QED
  BY <1>1, <1>2, <1>3, <1>4 DEF PoolNext, poolVars

\* The steps that cancel a connection
LEMMA CancelStep ==
  ASSUME RemoteConnectionsAssumption, PoolInv, [PoolNext]_poolVars, NEW k \in Conns,
         ~cancelled[k], cancelled'[k], connected[k]
  PROVE  \/ drained' # drained
         \/ \E c \in Callers : c \in FailedFor(k) /\ pc'[c] = "empty"
<1> USE DEF PoolInv, Types, Locked
<1>1. ASSUME NEW c \in Callers, CheckSlot(c) PROVE FALSE
  <2>1. CASE IsCurrentSlot(mySlot[c]) /\ ~Reusable(cached[mySlot[c]])
    <3>1. ShutDown({cached[mySlot[c]]} \ {Nil})
      BY <1>1, <2>1 DEF CheckSlot
    <3>2. k = cached[mySlot[c]]
      BY <3>1, ShutDownCancels
    <3>3. QED
      BY <2>1, <3>2 DEF Reusable
  <2>2. QED
    BY <1>1, <2>1 DEF CheckSlot
<1>2. ASSUME NEW c \in Callers, Dialled(c) PROVE FALSE
  BY <1>2 DEF Dialled
<1>3. ASSUME NEW c \in Callers, Evicted(c)
      PROVE  \E d \in Callers : d \in FailedFor(k) /\ pc'[d] = "empty"
  <2>1. ShutDown({myConn[c]}) /\ pc[c] = "evicted" /\ pc'[c] = "empty"
    BY <1>3 DEF Evicted
  <2>2. k = myConn[c]
    BY <2>1, ShutDownCancels
  <2>3. QED
    BY <2>1, <2>2 DEF FailedFor
<1>4. ASSUME NEW s \in Slots, ShutDownSlot(s) PROVE drained' # drained
  BY <1>4 DEF ShutDownSlot
<1>5. ASSUME NEW c \in Callers,
             \/ Call(c) \/ GetSlot(c) \/ LockSlot(c) \/ Store(c) \/ DialFails(c) \/ RemoveEmpty(c)
             \/ Done(c) \/ Fail(c) \/ Evict(c) \/ Abandon(c)
      PROVE  cancelled' = cancelled
  BY <1>5 DEF Call, GetSlot, LockSlot, Store, DialFails, RemoveEmpty, Done, Fail, Evict, Abandon
<1>6. ASSUME NEW j \in Conns, SessionEnds(j) \/ Task(j) PROVE cancelled' = cancelled
  BY <1>6 DEF SessionEnds, Task, ClearSlot, RemoveCleared
<1>7. Drain \/ UNCHANGED poolVars => cancelled' = cancelled
  BY DEF Drain, poolVars
<1>8. QED
  BY <1>1, <1>2, <1>3, <1>4, <1>5, <1>6, <1>7 DEF PoolNext, CallStep

\* The step that clears a slot
LEMMA ClearStep ==
  ASSUME RemoteConnectionsAssumption, PoolInv, [PoolNext]_poolVars, NEW k \in Conns,
         session[k] = "clear", session'[k] = "empty", NEW s \in Slots, cached'[s] # cached[s]
  PROVE  ~connected[cached[s]]
<1> USE DEF PoolInv, Types, Tasks
<1>1. ASSUME NEW c \in Callers, CallStep(c) \/ Call(c) \/ Abandon(c) PROVE FALSE
  <2>1. CASE Dialled(c)
    BY <2>1 DEF Dialled
  <2>2. CASE CheckSlot(c)
    BY <2>2 DEF CheckSlot, ShutDown
  <2>3. QED
    BY <1>1, <2>1, <2>2 DEF CallStep, Call, GetSlot, LockSlot, Store, DialFails, RemoveEmpty, Done,
      Fail, Evict, Evicted, Abandon, ShutDown
<1>2. ASSUME NEW j \in Conns, ClearSlot(j) PROVE ~connected[cached[s]]
  <2>1. j = k
    BY <1>2 DEF ClearSlot
  <2>2. IsMine(k) /\ s = home[k]
    BY <1>2, <2>1 DEF ClearSlot
  <2>3. QED
    BY <2>2 DEF IsMine
<1>3. ASSUME NEW j \in Conns, SessionEnds(j) \/ RemoveCleared(j) PROVE FALSE
  BY <1>3 DEF SessionEnds, RemoveCleared
<1>4. ASSUME NEW t \in Slots, ShutDownSlot(t) PROVE FALSE
  BY <1>4 DEF ShutDownSlot, ShutDown
<1>5. CASE Drain \/ UNCHANGED poolVars
  BY <1>5 DEF Drain, poolVars
<1>6. QED
  BY <1>1, <1>2, <1>3, <1>4, <1>5 DEF PoolNext, Task

(* A connection is cancelled only by a shutdown or by a call that was given  *)
(* it and saw it fail, a call evicts what it was using, and the end of a     *)
(* session clears no live connection, whatever happened to the slot between  *)
(* two of its locks (remove_if_same_remote, the task of connect).            *)
THEOREM DropsItsOwn == RemoteConnectionsAssumption /\ PoolSpec => OnlyItsOwnIsDropped
<1> SUFFICES ASSUME RemoteConnectionsAssumption PROVE PoolSpec => OnlyItsOwnIsDropped
  OBVIOUS
<1>1. PoolInv /\ [PoolNext]_poolVars =>
        \A c \in Callers : pc[c] = "evict" /\ pc'[c] = "evicted" => myConn'[c] = myConn[c]
  BY EvictStep
<1>2. PoolInv /\ [PoolNext]_poolVars =>
        \A k \in Conns : ~cancelled[k] /\ cancelled'[k] /\ connected[k]
          => \/ drained' # drained
             \/ \E c \in Callers : c \in FailedFor(k) /\ pc'[c] = "empty"
  BY CancelStep
<1>3. PoolInv /\ [PoolNext]_poolVars =>
        \A k \in Conns : session[k] = "clear" /\ session'[k] = "empty"
          => \A s \in Slots : cached'[s] # cached[s] => ~connected[cached[s]]
  BY ClearStep
<1>4. QED
  BY <1>1, <1>2, <1>3, InitInv, InvStep, PTL
     DEF PoolSpec, OnlyItsOwnIsDropped, EvictsItsOwn, OnlyFailedIsEvicted, ClearsOnlyDead

-----------------------------------------------------------------------------
(* The tracks of one connection (RemoteTracks, which is Shared here), for    *)
(* any number of calls, slots and subscriptions                              *)

TrackSteps == {"idle", "start", "get", "lock", "check", "open", "opened", "store", "empty"}
Opening == {"open", "opened", "store"}
Asking == Opening \cup {"empty"}
TrackHolding == {"check"} \cup Opening
Located == {"lock", "empty"} \cup TrackHolding

TrackTypes ==
  /\ tConnected \in BOOLEAN /\ (tCancelled => ~tConnected)
  /\ tCancelled \in BOOLEAN /\ clearing \in BOOLEAN /\ abandoned \in BOOLEAN
  /\ tCurrent \in TrackSlots \cup {Nil}
  /\ tCached \in [TrackSlots -> Subs \cup {Nil}]
  /\ tLock \in [TrackSlots -> Callers \cup {Nil}]
  /\ sub \in [Subs -> {"none", "opening", "open", "done"}]
  /\ task \in [Subs -> {"none", "waiting", "clear", "empty"}]
  /\ tHome \in [Subs -> TrackSlots \cup {Nil}]
  /\ tRetained \in [Subs -> BOOLEAN]
  /\ tPc \in [Callers -> TrackSteps]
  /\ tMySlot \in [Callers -> TrackSlots \cup {Nil}] /\ mySub \in [Callers -> Subs \cup {Nil}]

\* Who holds the lock of a slot is at a step that holds it, for that slot.
TrackLocked ==
  /\ \A c \in Callers : (tMySlot[c] # Nil) <=> tPc[c] \in Located
  /\ \A c \in Callers : tPc[c] \in TrackHolding => tLock[tMySlot[c]] = c
  /\ \A s \in TrackSlots : tLock[s] # Nil => tPc[tLock[s]] \in TrackHolding /\ tMySlot[tLock[s]] = s

\* A subscription is with the call that opens it, or with its cleanup task.  What a failed call
\* still has is open only when the connection has gone.
Owned ==
  /\ \A c \in Callers : tPc[c] \in Opening =>
       /\ mySub[c] \in Subs /\ tHome[mySub[c]] = tMySlot[c] /\ task[mySub[c]] = "none" /\ tRetained[mySub[c]]
       /\ tPc[c] = "open" => sub[mySub[c]] = "opening"
       /\ tPc[c] \in {"opened", "store"} => sub[mySub[c]] \in {"open", "done"}
  /\ \A c \in Callers : tPc[c] = "empty" =>
       /\ mySub[c] \in Subs /\ task[mySub[c]] = "none" /\ tRetained[mySub[c]]
       /\ sub[mySub[c]] # "opening" /\ (tConnected => sub[mySub[c]] # "open")
  /\ \A c, d \in Callers : tPc[c] \in Asking /\ tPc[d] \in Asking /\ mySub[c] = mySub[d] => c = d
  /\ \A r \in Subs : task[r] # "none" => tRetained[r] /\ sub[r] \in {"open", "done"} /\ tHome[r] \in TrackSlots
  /\ \A r \in Subs : sub[r] # "none" /\ task[r] = "none" => \E c \in Callers : tPc[c] \in Asking /\ mySub[c] = r

\* A reader is cached in the slot of its subscription, until the task clears it.
TrackCached ==
  /\ \A s \in TrackSlots : tCached[s] # Nil => tHome[tCached[s]] = s /\ task[tCached[s]] \in {"waiting", "clear"}
  /\ \A c \in Callers : tPc[c] \in Opening => tCached[tMySlot[c]] = Nil

\* Until the shutdown: who opens a subscription does it for the slot in the map.
Mapped ==
  ~tCancelled =>
    /\ ~clearing
    /\ \A c \in Callers : tPc[c] \in Opening => tCurrent = tMySlot[c]
    /\ \A r \in Subs : task[r] \in {"clear", "empty"} => sub[r] = "done"
    /\ \A r \in Subs : task[r] = "waiting" /\ sub[r] = "open" => tCurrent # Nil /\ tCached[tCurrent] = r

\* Somebody will look whether the slot in the map is empty.
Watched ==
  ~abandoned /\ tCurrent # Nil =>
    \/ \E c \in Callers : tMySlot[c] = tCurrent
    \/ \E r \in Subs : task[r] # "none" /\ tHome[r] = tCurrent

TracksInv == TrackTypes /\ TrackLocked /\ Owned /\ TrackCached /\ Mapped /\ Watched

USE DEF TrackSteps, Opening, Asking, TrackHolding, Located, Shared!RemoteTracksAssumption, Shared!link, Shared!subs, Shared!caller, Shared!count, Shared!GoTo, Shared!Holds, Shared!Return

LEMMA TracksInit == ASSUME Shared!RemoteTracksAssumption, Shared!Init PROVE TracksInv
  BY DEF Shared!Init, TracksInv, TrackTypes, TrackLocked, Owned, TrackCached, Mapped, Watched

LEMMA TrackTypesStep ==
  ASSUME Shared!RemoteTracksAssumption, TrackTypes, TrackLocked, Owned, [Shared!Next]_(Shared!vars) PROVE TrackTypes'
<1> USE DEF TrackTypes, TrackLocked, Owned
<1>1. ASSUME NEW c \in Callers, Shared!Call(c) PROVE TrackTypes'
  BY <1>1 DEF Shared!Call
<1>2. ASSUME NEW c \in Callers, Shared!Start(c) PROVE TrackTypes'
  BY <1>2 DEF Shared!Start
<1>3. ASSUME NEW c \in Callers, Shared!GetSlot(c) PROVE TrackTypes'
  BY <1>3 DEF Shared!GetSlot, Shared!FreeSlot
<1>4. ASSUME NEW c \in Callers, Shared!LockSlot(c) PROVE TrackTypes'
  BY <1>4 DEF Shared!LockSlot
<1>5. ASSUME NEW c \in Callers, Shared!CheckSlot(c) PROVE TrackTypes'
  <2>1. CASE ~Shared!IsCurrentSlot(tMySlot[c]) \/ Shared!Readable(tCached[tMySlot[c]])
    BY <1>5, <2>1 DEF Shared!CheckSlot
  <2>2. CASE Shared!IsCurrentSlot(tMySlot[c]) /\ ~Shared!Readable(tCached[tMySlot[c]])
    <3>1. PICK r \in Subs : /\ sub' = [sub EXCEPT ![r] = "opening"] /\ tHome' = [tHome EXCEPT ![r] = tMySlot[c]]
                            /\ tRetained' = [tRetained EXCEPT ![r] = TRUE] /\ mySub' = [mySub EXCEPT ![c] = r]
                            /\ tCached' = [tCached EXCEPT ![tMySlot[c]] = Nil] /\ tPc' = [tPc EXCEPT ![c] = "open"]
                            /\ UNCHANGED <<tLock, tMySlot, task, Shared!link, tCurrent, Shared!count>>
      BY <1>5, <2>2 DEF Shared!CheckSlot
    <3>2. tRetained' \in [Subs -> BOOLEAN]
      BY <3>1
    <3>3. tMySlot[c] \in TrackSlots
      BY <1>5 DEF Shared!CheckSlot
    <3> QED
      BY <3>1, <3>2, <3>3
  <2> QED
    BY <2>1, <2>2
<1>6. ASSUME NEW c \in Callers, Shared!OpenOk(c) PROVE TrackTypes'
  BY <1>6 DEF Shared!OpenOk
<1>7. ASSUME NEW c \in Callers, Shared!OpenFails(c) PROVE TrackTypes'
  BY <1>7 DEF Shared!OpenFails, Shared!Failed
<1>8. ASSUME NEW c \in Callers, Shared!OpenedInVain(c) PROVE TrackTypes'
  BY <1>8 DEF Shared!OpenedInVain, Shared!Failed
<1>9. ASSUME NEW c \in Callers, Shared!StillConnected(c) PROVE TrackTypes'
  BY <1>9 DEF Shared!StillConnected
<1>10. ASSUME NEW c \in Callers, Shared!Store(c) PROVE TrackTypes'
  BY <1>10 DEF Shared!Store
<1>11. ASSUME NEW c \in Callers, Shared!RemoveEmpty(c) PROVE TrackTypes'
  BY <1>11 DEF Shared!RemoveEmpty, Shared!RemoveIfEmpty, Shared!Vacant, Shared!LetGo
<1>12. ASSUME NEW c \in Callers, Shared!Abandon(c) PROVE TrackTypes'
  BY <1>12 DEF Shared!Abandon, Shared!LetGo
<1>13. ASSUME NEW r \in Subs, Shared!UpstreamDone(r) PROVE TrackTypes'
  BY <1>13 DEF Shared!UpstreamDone
<1>14. ASSUME NEW r \in Subs, Shared!Wake(r) PROVE TrackTypes'
  BY <1>14 DEF Shared!Wake, Shared!Wakes
<1>15. ASSUME NEW r \in Subs, Shared!ClearSlot(r) PROVE TrackTypes'
  BY <1>15 DEF Shared!ClearSlot, Shared!IsMine
<1>16. ASSUME NEW r \in Subs, Shared!RemoveCleared(r) PROVE TrackTypes'
  BY <1>16 DEF Shared!RemoveCleared, Shared!RemoveIfEmpty, Shared!Vacant, Shared!LetGo
<1>17. CASE Shared!SessionEnds
  BY <1>17 DEF Shared!SessionEnds
<1>18. CASE Shared!Disconnected
  BY <1>18 DEF Shared!Disconnected
<1>19. CASE Shared!Shutdown
  BY <1>19 DEF Shared!Shutdown
<1>20. CASE Shared!ClearTracks
  BY <1>20 DEF Shared!ClearTracks
<1>21. CASE UNCHANGED Shared!vars
  BY <1>21 DEF Shared!vars
<1> QED
  BY <1>1, <1>2, <1>3, <1>4, <1>5, <1>6, <1>7, <1>8, <1>9, <1>10, <1>11, <1>12, <1>13, <1>14, <1>15, <1>16, <1>17, <1>18, <1>19, <1>20, <1>21
     DEF Shared!Next, Shared!CallStep, Shared!Cleanup

LEMMA TrackLockedStep ==
  ASSUME Shared!RemoteTracksAssumption, TrackTypes, TrackLocked, [Shared!Next]_(Shared!vars) PROVE TrackLocked'
<1> USE DEF TrackTypes, TrackLocked
<1>1. ASSUME NEW c \in Callers, Shared!Call(c) PROVE TrackLocked'
  BY <1>1 DEF Shared!Call
<1>2. ASSUME NEW c \in Callers, Shared!Start(c) PROVE TrackLocked'
  BY <1>2 DEF Shared!Start
<1>3. ASSUME NEW c \in Callers, Shared!GetSlot(c) PROVE TrackLocked'
  BY <1>3 DEF Shared!GetSlot, Shared!FreeSlot
<1>4. ASSUME NEW c \in Callers, Shared!LockSlot(c) PROVE TrackLocked'
  BY <1>4 DEF Shared!LockSlot
<1>5. ASSUME NEW c \in Callers, Shared!CheckSlot(c) PROVE TrackLocked'
  BY <1>5 DEF Shared!CheckSlot, Shared!IsCurrentSlot, Shared!Readable, Shared!FreeSub
<1>6. ASSUME NEW c \in Callers, Shared!OpenOk(c) PROVE TrackLocked'
  BY <1>6 DEF Shared!OpenOk
<1>7. ASSUME NEW c \in Callers, Shared!OpenFails(c) PROVE TrackLocked'
  BY <1>7 DEF Shared!OpenFails, Shared!Failed
<1>8. ASSUME NEW c \in Callers, Shared!OpenedInVain(c) PROVE TrackLocked'
  BY <1>8 DEF Shared!OpenedInVain, Shared!Failed
<1>9. ASSUME NEW c \in Callers, Shared!StillConnected(c) PROVE TrackLocked'
  BY <1>9 DEF Shared!StillConnected
<1>10. ASSUME NEW c \in Callers, Shared!Store(c) PROVE TrackLocked'
  BY <1>10 DEF Shared!Store
<1>11. ASSUME NEW c \in Callers, Shared!RemoveEmpty(c) PROVE TrackLocked'
  BY <1>11 DEF Shared!RemoveEmpty, Shared!RemoveIfEmpty, Shared!Vacant, Shared!LetGo
<1>12. ASSUME NEW c \in Callers, Shared!Abandon(c) PROVE TrackLocked'
  BY <1>12 DEF Shared!Abandon, Shared!LetGo
<1>13. ASSUME NEW r \in Subs, Shared!UpstreamDone(r) PROVE TrackLocked'
  BY <1>13 DEF Shared!UpstreamDone
<1>14. ASSUME NEW r \in Subs, Shared!Wake(r) PROVE TrackLocked'
  BY <1>14 DEF Shared!Wake, Shared!Wakes
<1>15. ASSUME NEW r \in Subs, Shared!ClearSlot(r) PROVE TrackLocked'
  BY <1>15 DEF Shared!ClearSlot, Shared!IsMine
<1>16. ASSUME NEW r \in Subs, Shared!RemoveCleared(r) PROVE TrackLocked'
  BY <1>16 DEF Shared!RemoveCleared, Shared!RemoveIfEmpty, Shared!Vacant, Shared!LetGo
<1>17. CASE Shared!SessionEnds
  BY <1>17 DEF Shared!SessionEnds
<1>18. CASE Shared!Disconnected
  BY <1>18 DEF Shared!Disconnected
<1>19. CASE Shared!Shutdown
  BY <1>19 DEF Shared!Shutdown
<1>20. CASE Shared!ClearTracks
  BY <1>20 DEF Shared!ClearTracks
<1>21. CASE UNCHANGED Shared!vars
  BY <1>21 DEF Shared!vars
<1> QED
  BY <1>1, <1>2, <1>3, <1>4, <1>5, <1>6, <1>7, <1>8, <1>9, <1>10, <1>11, <1>12, <1>13, <1>14, <1>15, <1>16, <1>17, <1>18, <1>19, <1>20, <1>21
     DEF Shared!Next, Shared!CallStep, Shared!Cleanup

LEMMA OwnedStep ==
  ASSUME Shared!RemoteTracksAssumption, TrackTypes, TrackLocked, Owned, TrackCached, [Shared!Next]_(Shared!vars) PROVE Owned'
<1> USE DEF TrackTypes, TrackLocked, Owned, TrackCached
<1>1. ASSUME NEW c \in Callers, Shared!Call(c) PROVE Owned'
  BY <1>1 DEF Shared!Call
<1>2. ASSUME NEW c \in Callers, Shared!Start(c) PROVE Owned'
  BY <1>2 DEF Shared!Start
<1>3. ASSUME NEW c \in Callers, Shared!GetSlot(c) PROVE Owned'
  BY <1>3 DEF Shared!GetSlot, Shared!FreeSlot
<1>4. ASSUME NEW c \in Callers, Shared!LockSlot(c) PROVE Owned'
  BY <1>4 DEF Shared!LockSlot
<1>5. ASSUME NEW c \in Callers, Shared!CheckSlot(c) PROVE Owned'
  BY <1>5 DEF Shared!CheckSlot, Shared!IsCurrentSlot, Shared!Readable, Shared!FreeSub
<1>6. ASSUME NEW c \in Callers, Shared!OpenOk(c) PROVE Owned'
  BY <1>6 DEF Shared!OpenOk
<1>7. ASSUME NEW c \in Callers, Shared!OpenFails(c) PROVE Owned'
  BY <1>7 DEF Shared!OpenFails, Shared!Failed
<1>8. ASSUME NEW c \in Callers, Shared!OpenedInVain(c) PROVE Owned'
  BY <1>8 DEF Shared!OpenedInVain, Shared!Failed
<1>9. ASSUME NEW c \in Callers, Shared!StillConnected(c) PROVE Owned'
  BY <1>9 DEF Shared!StillConnected
<1>10. ASSUME NEW c \in Callers, Shared!Store(c) PROVE Owned'
  BY <1>10 DEF Shared!Store
<1>11. ASSUME NEW c \in Callers, Shared!RemoveEmpty(c) PROVE Owned'
  BY <1>11 DEF Shared!RemoveEmpty, Shared!RemoveIfEmpty, Shared!Vacant, Shared!LetGo
<1>12. ASSUME NEW c \in Callers, Shared!Abandon(c) PROVE Owned'
  BY <1>12 DEF Shared!Abandon, Shared!LetGo
<1>13. ASSUME NEW r \in Subs, Shared!UpstreamDone(r) PROVE Owned'
  BY <1>13 DEF Shared!UpstreamDone
<1>14. ASSUME NEW r \in Subs, Shared!Wake(r) PROVE Owned'
  BY <1>14 DEF Shared!Wake, Shared!Wakes
<1>15. ASSUME NEW r \in Subs, Shared!ClearSlot(r) PROVE Owned'
  BY <1>15 DEF Shared!ClearSlot, Shared!IsMine
<1>16. ASSUME NEW r \in Subs, Shared!RemoveCleared(r) PROVE Owned'
  BY <1>16 DEF Shared!RemoveCleared, Shared!RemoveIfEmpty, Shared!Vacant, Shared!LetGo
<1>17. CASE Shared!SessionEnds
  BY <1>17 DEF Shared!SessionEnds
<1>18. CASE Shared!Disconnected
  BY <1>18 DEF Shared!Disconnected
<1>19. CASE Shared!Shutdown
  BY <1>19 DEF Shared!Shutdown
<1>20. CASE Shared!ClearTracks
  BY <1>20 DEF Shared!ClearTracks
<1>21. CASE UNCHANGED Shared!vars
  BY <1>21 DEF Shared!vars
<1> QED
  BY <1>1, <1>2, <1>3, <1>4, <1>5, <1>6, <1>7, <1>8, <1>9, <1>10, <1>11, <1>12, <1>13, <1>14, <1>15, <1>16, <1>17, <1>18, <1>19, <1>20, <1>21
     DEF Shared!Next, Shared!CallStep, Shared!Cleanup

LEMMA TrackCachedStep ==
  ASSUME Shared!RemoteTracksAssumption, TrackTypes, TrackLocked, Owned, TrackCached, [Shared!Next]_(Shared!vars) PROVE TrackCached'
<1> USE DEF TrackTypes, TrackLocked, Owned, TrackCached
<1>1. ASSUME NEW c \in Callers, Shared!Call(c) PROVE TrackCached'
  BY <1>1 DEF Shared!Call
<1>2. ASSUME NEW c \in Callers, Shared!Start(c) PROVE TrackCached'
  BY <1>2 DEF Shared!Start
<1>3. ASSUME NEW c \in Callers, Shared!GetSlot(c) PROVE TrackCached'
  BY <1>3 DEF Shared!GetSlot, Shared!FreeSlot
<1>4. ASSUME NEW c \in Callers, Shared!LockSlot(c) PROVE TrackCached'
  BY <1>4 DEF Shared!LockSlot
<1>5. ASSUME NEW c \in Callers, Shared!CheckSlot(c) PROVE TrackCached'
  BY <1>5 DEF Shared!CheckSlot, Shared!IsCurrentSlot, Shared!Readable, Shared!FreeSub
<1>6. ASSUME NEW c \in Callers, Shared!OpenOk(c) PROVE TrackCached'
  BY <1>6 DEF Shared!OpenOk
<1>7. ASSUME NEW c \in Callers, Shared!OpenFails(c) PROVE TrackCached'
  BY <1>7 DEF Shared!OpenFails, Shared!Failed
<1>8. ASSUME NEW c \in Callers, Shared!OpenedInVain(c) PROVE TrackCached'
  BY <1>8 DEF Shared!OpenedInVain, Shared!Failed
<1>9. ASSUME NEW c \in Callers, Shared!StillConnected(c) PROVE TrackCached'
  BY <1>9 DEF Shared!StillConnected
<1>10. ASSUME NEW c \in Callers, Shared!Store(c) PROVE TrackCached'
  BY <1>10 DEF Shared!Store
<1>11. ASSUME NEW c \in Callers, Shared!RemoveEmpty(c) PROVE TrackCached'
  BY <1>11 DEF Shared!RemoveEmpty, Shared!RemoveIfEmpty, Shared!Vacant, Shared!LetGo
<1>12. ASSUME NEW c \in Callers, Shared!Abandon(c) PROVE TrackCached'
  BY <1>12 DEF Shared!Abandon, Shared!LetGo
<1>13. ASSUME NEW r \in Subs, Shared!UpstreamDone(r) PROVE TrackCached'
  BY <1>13 DEF Shared!UpstreamDone
<1>14. ASSUME NEW r \in Subs, Shared!Wake(r) PROVE TrackCached'
  BY <1>14 DEF Shared!Wake, Shared!Wakes
<1>15. ASSUME NEW r \in Subs, Shared!ClearSlot(r) PROVE TrackCached'
  BY <1>15 DEF Shared!ClearSlot, Shared!IsMine
<1>16. ASSUME NEW r \in Subs, Shared!RemoveCleared(r) PROVE TrackCached'
  BY <1>16 DEF Shared!RemoveCleared, Shared!RemoveIfEmpty, Shared!Vacant, Shared!LetGo
<1>17. CASE Shared!SessionEnds
  BY <1>17 DEF Shared!SessionEnds
<1>18. CASE Shared!Disconnected
  BY <1>18 DEF Shared!Disconnected
<1>19. CASE Shared!Shutdown
  BY <1>19 DEF Shared!Shutdown
<1>20. CASE Shared!ClearTracks
  BY <1>20 DEF Shared!ClearTracks
<1>21. CASE UNCHANGED Shared!vars
  BY <1>21 DEF Shared!vars
<1> QED
  BY <1>1, <1>2, <1>3, <1>4, <1>5, <1>6, <1>7, <1>8, <1>9, <1>10, <1>11, <1>12, <1>13, <1>14, <1>15, <1>16, <1>17, <1>18, <1>19, <1>20, <1>21
     DEF Shared!Next, Shared!CallStep, Shared!Cleanup

LEMMA MappedStep ==
  ASSUME Shared!RemoteTracksAssumption, TrackTypes, TrackLocked, Owned, TrackCached, Mapped, [Shared!Next]_(Shared!vars) PROVE Mapped'
<1> USE DEF TrackTypes, TrackLocked, Owned, TrackCached, Mapped
<1>1. ASSUME NEW c \in Callers, Shared!Call(c) PROVE Mapped'
  BY <1>1 DEF Shared!Call
<1>2. ASSUME NEW c \in Callers, Shared!Start(c) PROVE Mapped'
  BY <1>2 DEF Shared!Start
<1>3. ASSUME NEW c \in Callers, Shared!GetSlot(c) PROVE Mapped'
  BY <1>3 DEF Shared!GetSlot, Shared!FreeSlot
<1>4. ASSUME NEW c \in Callers, Shared!LockSlot(c) PROVE Mapped'
  BY <1>4 DEF Shared!LockSlot
<1>5. ASSUME NEW c \in Callers, Shared!CheckSlot(c) PROVE Mapped'
  BY <1>5 DEF Shared!CheckSlot, Shared!IsCurrentSlot, Shared!Readable, Shared!FreeSub
<1>6. ASSUME NEW c \in Callers, Shared!OpenOk(c) PROVE Mapped'
  BY <1>6 DEF Shared!OpenOk
<1>7. ASSUME NEW c \in Callers, Shared!OpenFails(c) PROVE Mapped'
  BY <1>7 DEF Shared!OpenFails, Shared!Failed
<1>8. ASSUME NEW c \in Callers, Shared!OpenedInVain(c) PROVE Mapped'
  BY <1>8 DEF Shared!OpenedInVain, Shared!Failed
<1>9. ASSUME NEW c \in Callers, Shared!StillConnected(c) PROVE Mapped'
  BY <1>9 DEF Shared!StillConnected
<1>10. ASSUME NEW c \in Callers, Shared!Store(c) PROVE Mapped'
  BY <1>10 DEF Shared!Store
<1>11. ASSUME NEW c \in Callers, Shared!RemoveEmpty(c) PROVE Mapped'
  BY <1>11 DEF Shared!RemoveEmpty, Shared!RemoveIfEmpty, Shared!Vacant, Shared!LetGo
<1>12. ASSUME NEW c \in Callers, Shared!Abandon(c) PROVE Mapped'
  BY <1>12 DEF Shared!Abandon, Shared!LetGo
<1>13. ASSUME NEW r \in Subs, Shared!UpstreamDone(r) PROVE Mapped'
  BY <1>13 DEF Shared!UpstreamDone
<1>14. ASSUME NEW r \in Subs, Shared!Wake(r) PROVE Mapped'
  BY <1>14 DEF Shared!Wake, Shared!Wakes
<1>15. ASSUME NEW r \in Subs, Shared!ClearSlot(r) PROVE Mapped'
  BY <1>15 DEF Shared!ClearSlot, Shared!IsMine
<1>16. ASSUME NEW r \in Subs, Shared!RemoveCleared(r) PROVE Mapped'
  BY <1>16 DEF Shared!RemoveCleared, Shared!RemoveIfEmpty, Shared!Vacant, Shared!LetGo
<1>17. CASE Shared!SessionEnds
  BY <1>17 DEF Shared!SessionEnds
<1>18. CASE Shared!Disconnected
  BY <1>18 DEF Shared!Disconnected
<1>19. CASE Shared!Shutdown
  BY <1>19 DEF Shared!Shutdown
<1>20. CASE Shared!ClearTracks
  BY <1>20 DEF Shared!ClearTracks
<1>21. CASE UNCHANGED Shared!vars
  BY <1>21 DEF Shared!vars
<1> QED
  BY <1>1, <1>2, <1>3, <1>4, <1>5, <1>6, <1>7, <1>8, <1>9, <1>10, <1>11, <1>12, <1>13, <1>14, <1>15, <1>16, <1>17, <1>18, <1>19, <1>20, <1>21
     DEF Shared!Next, Shared!CallStep, Shared!Cleanup

LEMMA WatchedStep ==
  ASSUME Shared!RemoteTracksAssumption, TrackTypes, TrackLocked, Owned, TrackCached, Watched, [Shared!Next]_(Shared!vars) PROVE Watched'
<1> USE DEF TrackTypes, TrackLocked, Owned, TrackCached, Watched
<1>1. ASSUME NEW c \in Callers, Shared!Call(c) PROVE Watched'
  BY <1>1 DEF Shared!Call
<1>2. ASSUME NEW c \in Callers, Shared!Start(c) PROVE Watched'
  BY <1>2 DEF Shared!Start
<1>3. ASSUME NEW c \in Callers, Shared!GetSlot(c) PROVE Watched'
  BY <1>3 DEF Shared!GetSlot, Shared!FreeSlot
<1>4. ASSUME NEW c \in Callers, Shared!LockSlot(c) PROVE Watched'
  BY <1>4 DEF Shared!LockSlot
<1>5. ASSUME NEW c \in Callers, Shared!CheckSlot(c) PROVE Watched'
  BY <1>5 DEF Shared!CheckSlot, Shared!IsCurrentSlot, Shared!Readable, Shared!FreeSub
<1>6. ASSUME NEW c \in Callers, Shared!OpenOk(c) PROVE Watched'
  BY <1>6 DEF Shared!OpenOk
<1>7. ASSUME NEW c \in Callers, Shared!OpenFails(c) PROVE Watched'
  BY <1>7 DEF Shared!OpenFails, Shared!Failed
<1>8. ASSUME NEW c \in Callers, Shared!OpenedInVain(c) PROVE Watched'
  BY <1>8 DEF Shared!OpenedInVain, Shared!Failed
<1>9. ASSUME NEW c \in Callers, Shared!StillConnected(c) PROVE Watched'
  BY <1>9 DEF Shared!StillConnected
<1>10. ASSUME NEW c \in Callers, Shared!Store(c) PROVE Watched'
  BY <1>10 DEF Shared!Store
<1>11. ASSUME NEW c \in Callers, Shared!RemoveEmpty(c) PROVE Watched'
  BY <1>11 DEF Shared!RemoveEmpty, Shared!RemoveIfEmpty, Shared!Vacant, Shared!LetGo
<1>12. ASSUME NEW c \in Callers, Shared!Abandon(c) PROVE Watched'
  BY <1>12 DEF Shared!Abandon, Shared!LetGo
<1>13. ASSUME NEW r \in Subs, Shared!UpstreamDone(r) PROVE Watched'
  BY <1>13 DEF Shared!UpstreamDone
<1>14. ASSUME NEW r \in Subs, Shared!Wake(r) PROVE Watched'
  BY <1>14 DEF Shared!Wake, Shared!Wakes
<1>15. ASSUME NEW r \in Subs, Shared!ClearSlot(r) PROVE Watched'
  BY <1>15 DEF Shared!ClearSlot, Shared!IsMine
<1>16. ASSUME NEW r \in Subs, Shared!RemoveCleared(r) PROVE Watched'
  BY <1>16 DEF Shared!RemoveCleared, Shared!RemoveIfEmpty, Shared!Vacant, Shared!LetGo
<1>17. CASE Shared!SessionEnds
  BY <1>17 DEF Shared!SessionEnds
<1>18. CASE Shared!Disconnected
  BY <1>18 DEF Shared!Disconnected
<1>19. CASE Shared!Shutdown
  BY <1>19 DEF Shared!Shutdown
<1>20. CASE Shared!ClearTracks
  BY <1>20 DEF Shared!ClearTracks
<1>21. CASE UNCHANGED Shared!vars
  BY <1>21 DEF Shared!vars
<1> QED
  BY <1>1, <1>2, <1>3, <1>4, <1>5, <1>6, <1>7, <1>8, <1>9, <1>10, <1>11, <1>12, <1>13, <1>14, <1>15, <1>16, <1>17, <1>18, <1>19, <1>20, <1>21
     DEF Shared!Next, Shared!CallStep, Shared!Cleanup

LEMMA TracksStep ==
  ASSUME Shared!RemoteTracksAssumption, TracksInv, [Shared!Next]_(Shared!vars) PROVE TracksInv'
BY TrackTypesStep, TrackLockedStep, OwnedStep, TrackCachedStep, MappedStep, WatchedStep DEF TracksInv

(* Calls that come together share one subscription while the connection is   *)
(* up, though one that failed outlives the lock of its slot; the next call   *)
(* finds the reader of an open one, and a slot that nobody needs leaves the  *)
(* map (remote.rs, Remote::subscribe, remove_empty_track_slot).              *)
THEOREM TracksHold == Shared!RemoteTracksAssumption /\ Shared!Spec =>
  [](Shared!TypeOK /\ Shared!OneSubscription /\ Shared!OpenIsShared /\ Shared!SlotsReclaimed)
<1> SUFFICES ASSUME Shared!RemoteTracksAssumption
             PROVE  Shared!Spec => [](Shared!TypeOK /\ Shared!OneSubscription /\ Shared!OpenIsShared /\ Shared!SlotsReclaimed)
  OBVIOUS
<1>1. TracksInv => Shared!TypeOK
  BY DEF TracksInv, TrackTypes, TrackLocked, Owned, Shared!TypeOK
<1>2. TracksInv => Shared!OneSubscription
  <2> SUFFICES ASSUME TracksInv, tConnected, NEW r \in Subs, NEW q \in Subs,
                      sub[r] \in {"opening", "open"}, sub[q] \in {"opening", "open"}
               PROVE  r = q
    BY DEF Shared!OneSubscription
  <2>1. \A x \in {r, q} :
          \/ tCurrent # Nil /\ tCached[tCurrent] = x
          \/ \E c \in Callers : /\ tPc[c] \in Opening /\ mySub[c] = x /\ tMySlot[c] = tCurrent
                                /\ tLock[tCurrent] = c /\ tCached[tCurrent] = Nil
    BY DEF TracksInv, TrackTypes, TrackLocked, Owned, TrackCached, Mapped
  <2> QED
    BY <2>1 DEF TracksInv, TrackTypes
<1>3. TracksInv => Shared!OpenIsShared
  BY DEF TracksInv, Mapped, Shared!OpenIsShared
<1>4. TracksInv => Shared!SlotsReclaimed
  BY DEF TracksInv, TrackTypes, TrackLocked, Watched, Shared!SlotsReclaimed, Shared!Quiet
<1>5. TracksInv /\ [Shared!Next]_(Shared!vars) => TracksInv'
  BY TracksStep
<1>6. Shared!Init => TracksInv
  BY TracksInit
<1> QED
  BY <1>1, <1>2, <1>3, <1>4, <1>5, <1>6, PTL DEF Shared!Spec

-----------------------------------------------------------------------------
(* The whole of MCUpstream: a behaviour of it is one of each of its parts    *)

Cover == INSTANCE CoveringPrefixSetProofs

LEMMA PartsRun == UpstreamSpec => Spec /\ Pull!Spec /\ PoolSpec /\ Shared!Spec
<1>1. UpstreamInit => Init /\ Pull!Init /\ PoolInit /\ Shared!Init
  BY DEF UpstreamInit
<1>2. [UpstreamNext]_UpstreamVars => [Next]_vars
  BY DEF UpstreamNext, UpstreamVars, Runs
<1>3. [UpstreamNext]_UpstreamVars => [Pull!Next]_(Pull!vars)
  <2> SUFFICES ASSUME [UpstreamNext]_UpstreamVars, ~Pull!Next PROVE UNCHANGED Pull!vars
    OBVIOUS
  <2>1. UNCHANGED pullVars
    BY DEF UpstreamNext, UpstreamVars, Runs
  <2> QED
    BY <2>1 DEF pullVars, Pull!vars, Pull!leases, Pull!runner, Pull!tasks, Pull!remote
<1>4. [UpstreamNext]_UpstreamVars => [PoolNext]_poolVars
  BY DEF UpstreamNext, UpstreamVars, Runs
<1>5. [UpstreamNext]_UpstreamVars => [Shared!Next]_(Shared!vars)
  <2> SUFFICES ASSUME [UpstreamNext]_UpstreamVars, ~Shared!Next PROVE UNCHANGED Shared!vars
    OBVIOUS
  <2>1. UNCHANGED sharedVars
    BY DEF UpstreamNext, UpstreamVars, Runs
  <2> QED
    BY <2>1 DEF sharedVars, Shared!vars
<1> QED
  BY <1>1, <1>2, <1>3, <1>4, <1>5, PTL DEF UpstreamSpec, Spec, Pull!Spec, PoolSpec, Shared!Spec

\* It stays with the part that runs.
LEMMA PartStays == UpstreamSpec => [](part \in {"covering", "pull", "pool", "shared"})
<1>1. UpstreamInit => part \in {"covering", "pull", "pool", "shared"}
  BY UpstreamAssumption DEF UpstreamInit, UpstreamAssumption
<1>2. part \in {"covering", "pull", "pool", "shared"} /\ [UpstreamNext]_UpstreamVars
        => (part \in {"covering", "pull", "pool", "shared"})'
  BY DEF UpstreamNext, UpstreamVars, Runs
<1> QED
  BY <1>1, <1>2, PTL DEF UpstreamSpec

(* The runner drives the covering set as CoveringPrefixSet says, and a       *)
(* change of roots keeps what was discovered and they still cover            *)
(* (upstream_namespaces.rs).                                                 *)
THEOREM RunnerCovers == UpstreamSpec => ImplementsCovering
<1>1. Pull!UpstreamNamespacesAssumption
  BY UpstreamAssumption DEF UpstreamAssumption
<1>2. Pull!Spec => Pull!Covering!Spec
  BY <1>1, Pull!Refines
<1>3. Pull!Spec => Pull!TransitionKeepsKnown
  BY <1>1, Pull!Keeps
<1> QED
  BY <1>2, <1>3, PartsRun, PTL DEF ImplementsCovering, Pull!ImplementsCovering

(* When nothing is on its way, the interests are those of the leases and     *)
(* what is registered for a pull is what it was told; outside a transition   *)
(* every root is pulled; and never does a relay see two requests that        *)
(* overlap (upstream_namespaces.rs).                                         *)
THEOREM LeasesFollowed == UpstreamSpec => []LeasesServed
<1>1. Pull!UpstreamNamespacesAssumption /\ RemoteConnectionsAssumption /\ Shared!RemoteTracksAssumption
      /\ PrefixesAssumption
  BY UpstreamAssumption DEF UpstreamAssumption
<1>2. Pull!Spec => [](Pull!TypeOK /\ Pull!InterestsFollowLeases /\ Pull!RootsAreServed
                      /\ Pull!SourcesFollowPull /\ Pull!NoOverlapAtRelay)
  <2>1. /\ Pull!Spec => []Pull!TypeOK
        /\ Pull!Spec => []Pull!InterestsFollowLeases
        /\ Pull!Spec => []Pull!RootsAreServed
        /\ Pull!Spec => []Pull!SourcesFollowPull
        /\ Pull!Spec => []Pull!NoOverlapAtRelay
    BY <1>1, Pull!TypeCorrect, Pull!Follows, Pull!RootsServed, Pull!SourcesFollow, Pull!NoTwoAtRelay
  <2> QED
    BY <2>1, PTL
<1>3. Spec => []TypeOK
  <2>1. Cover!PrefixesAssumption
    BY <1>1 DEF PrefixesAssumption, Cover!PrefixesAssumption
  <2>2. Cover!Spec => [](Cover!TypeOK /\ Cover!RootsAreBroadest)
    BY <2>1, Cover!RootsAreRight
  <2>3. Cover!TypeOK => TypeOK
    BY DEF Cover!TypeOK, TypeOK
  <2>4. Init => Cover!Init
    BY DEF Init, Cover!Init
  <2>5. [Next]_vars => [Cover!Next]_(Cover!vars)
    BY DEF Next, vars, Add, Remove, AddDelta, RemoveDelta, NoDelta, Covers, StrictlyCovers, Overlaps,
           Cover!Next, Cover!vars, Cover!Add, Cover!Remove, Cover!AddDelta, Cover!RemoveDelta,
           Cover!NoDelta, Cover!Covers, Cover!StrictlyCovers, Cover!Overlaps
  <2> QED
    BY <2>2, <2>3, <2>4, <2>5, PTL DEF Spec, Cover!Spec
<1>4. PoolSpec => []PoolTypeOK
  BY <1>1, TypeCorrect
<1>5. Shared!Spec => []Shared!TypeOK
  <2>1. Shared!Spec => [](Shared!TypeOK /\ Shared!OneSubscription /\ Shared!OpenIsShared /\ Shared!SlotsReclaimed)
    BY <1>1, TracksHold
  <2> QED
    BY <2>1, PTL
<1>6. /\ part \in {"covering", "pull", "pool", "shared"} /\ TypeOK /\ PoolTypeOK /\ Shared!TypeOK
      /\ Pull!TypeOK /\ Pull!InterestsFollowLeases /\ Pull!RootsAreServed
      /\ Pull!SourcesFollowPull /\ Pull!NoOverlapAtRelay
      => LeasesServed
  BY DEF LeasesServed, UpstreamTypeOK
<1> QED
  BY <1>2, <1>3, <1>4, <1>5, <1>6, PartsRun, PartStays, PTL

(* The calls for one track share one upstream subscription until the         *)
(* connection is shut down, an open one is in the map, and no slot stays in  *)
(* it unless the future of a call was dropped (Remote::subscribe, its        *)
(* cleanup task, Remote::shutdown).                                          *)
THEOREM SharedOnce == UpstreamSpec => []OneSubscription
<1>1. Shared!RemoteTracksAssumption
  BY UpstreamAssumption DEF UpstreamAssumption
<1>2. Shared!Spec => [](Shared!TypeOK /\ Shared!OneSubscription /\ Shared!OpenIsShared /\ Shared!SlotsReclaimed)
  BY <1>1, TracksHold
<1>3. Shared!OneSubscription /\ Shared!OpenIsShared /\ Shared!SlotsReclaimed => OneSubscription
  BY DEF OneSubscription
<1> QED
  BY <1>2, <1>3, PartsRun, PTL
=============================================================================
