---------------------------- MODULE Coordinators ----------------------------
(* The two coordinators through which relays share who hosts which namespace.*)
EXTENDS Integers, Sequences, FiniteSets, FiniteSetsExt, SequencesExt

(* The coordinator that relays share through a file (file_coordinator.rs of  *)
(* the relay binary), with the tasks that call it: a PUBLISH_NAMESPACE or    *)
(* PUBLISH being served (consumer.rs serve, serve_track) registers its name  *)
(* and a namespace then asks who is interested; a SUBSCRIBE_NAMESPACE        *)
(* (upstream_namespaces.rs) records its interest and learns who hosts what.  *)
(*                                                                           *)
(* Every operation locks the file, reads it, and a change truncates it and   *)
(* writes it again; the relay may die in between and the write may fail.     *)
(* The work runs on a thread of its own and goes on when the task that asked *)
(* for it is cancelled.  One scope; another scope is another file to all     *)
(* effects.                                                                  *)

CONSTANTS
  CoordinatorCases,   \* what a run begins with: a function from tasks to
                      \* [relay, kind, name, public, source], where kind is "namespace", "track" or
                      \* "interest", name [ns, track] (ns a sequence of fields, each a sequence
                      \* of octets, track "" for a namespace or prefix); public and source are
                      \* the CoordinatorContext
  NotUtf8             \* the octets that are in no UTF-8 text

VARIABLES
  task,       \* the case
  state,      \* per task: "idle", "calling" (register or subscribe), "held" (its handle), "told"
              \* (a namespace whose subscribers are looked up), "dropping", "done", "failed",
              \* "leaked" (its caller is gone, the entry is not), "dead" (gone without an entry)
  file,       \* [kind, data]: "data", "empty" or "garbled"
  lock,       \* who has the file locked: NoLock or [task, data, stage]
  found,      \* per task: the relays it was told
  abandoned,  \* the tasks whose caller is gone while the thread works for it
  lost        \* what the file had is gone: a write failed after the file was truncated, or the
              \* relay died there

coordinatorVars == <<task, state, file, lock, found, abandoned, lost>>

\* A relay has a URL, which is never what stands for nobody; a name is a sequence of fields.
ASSUME CoordinatorAssumption ==
  \A c \in CoordinatorCases :
    /\ IsFiniteSet(DOMAIN c)
    /\ \A t \in DOMAIN c : c[t].relay # "none" /\ c[t].name \in [ns : Seq(Seq(STRING)), track : STRING]

NoLock == [task |-> 0, data |-> 0, stage |-> "none"]
Nobody == "none"
CTasks == DOMAIN task
Relays == {task[t].relay : t \in CTasks}
NamespaceTask(t) == task[t].kind = "namespace"

\* TrackNamespace::to_utf8_path: a slash before each field, and a replacement character for what is
\* not UTF-8.  Different namespaces may have the same path.
Utf8Path(ns) ==
  FlattenSeq([i \in DOMAIN ns |->
    <<"/">> \o [j \in DOMAIN ns[i] |-> IF ns[i][j] \in NotUtf8 THEN "replaced" ELSE ns[i][j]]])

\* namespace_key keeps each field as it is, track_key goes through the path, whose length it has.
NamespaceKey(ns) == [bucket |-> "namespaces", ns |-> ns, track |-> ""]
TrackKey(ns, track) == [bucket |-> "tracks", ns |-> Utf8Path(ns), track |-> track]

KeyOf(t) ==
  IF NamespaceTask(t) THEN NamespaceKey(task[t].name.ns) ELSE TrackKey(task[t].name.ns, task[t].name.track)
HostKeys == {KeyOf(t) : t \in {u \in CTasks : task[u].kind # "interest"}}
Prefixed == {task[t].name.ns : t \in {u \in CTasks : task[u].kind = "interest"}}

\* CoordinatorData: the relay of every registered key, the count of every interest.
NoData == [hosts |-> [k \in HostKeys |-> Nobody], interest |-> [p \in Prefixed |-> [r \in Relays |-> 0]]]

CoordinatorStart(c) ==
  /\ task = c
  /\ state = [t \in DOMAIN c |-> "idle"]
  /\ file = [kind |-> "empty", data |-> 0]
  /\ lock = NoLock
  /\ found = [t \in DOMAIN c |-> {}]
  /\ abandoned = {} /\ lost = FALSE
CoordinatorInit == \E c \in CoordinatorCases : CoordinatorStart(c)

\* read_data: an empty file is the default, what does not parse is an error.
Readable == file.kind # "garbled"
Read == IF file.kind = "data" THEN file.data ELSE NoData

\* namespace_key_has_prefix on the fields of the two keys.
HasPrefix(namespace, prefix) == IsPrefix(prefix, namespace)

NamespacesIn(data) == {k \in HostKeys : k.bucket = "namespaces" /\ data.hosts[k] # Nobody}

\* lookup: the exact namespace, or the longest registered one above it.
Lookup(data, namespace) ==
  LET above == {k \in NamespacesIn(data) : HasPrefix(namespace, k.ns)}
  IN IF above = {} THEN Nobody
     ELSE data.hosts[CHOOSE k \in above : \A m \in above : Len(m.ns) <= Len(k.ns)]

\* lookup_track: the track itself first.
LookupTrack(data, name) ==
  LET key == TrackKey(name.ns, name.track)
  IN IF data.hosts[key] # Nobody THEN data.hosts[key] ELSE Lookup(data, name.ns)

\* Neither the caller nor the relay that it is asked for.
Peers(t, relays) == relays \ {task[t].relay, task[t].source}

\* subscribe_namespace: the hosts of matching namespaces, for a public session.
UpstreamRelays(t, data) ==
  IF task[t].public
  THEN Peers(t, {data.hosts[k] : k \in {m \in NamespacesIn(data) : HasPrefix(m.ns, task[t].name.ns)}})
  ELSE {}

\* lookup_namespace_subscribers
Interested(t, data) ==
  Peers(t, {r \in Relays : \E p \in Prefixed : HasPrefix(task[t].name.ns, p) /\ data.interest[p][r] > 0})

\* What a call changes.
Registered(t, data) == [data EXCEPT !.hosts[KeyOf(t)] = task[t].relay]
Counted(t, data) == [data EXCEPT !.interest[task[t].name.ns][task[t].relay] = @ + 1]

\* unregister_namespace_sync and unregister_track_sync: whoever has the key.
Unregistered(t, data) == [data EXCEPT !.hosts[KeyOf(t)] = Nobody]

\* Mutant: the interest of the relay goes with the first of its sessions.
Uncounted_All(t, data) == [data EXCEPT !.interest[task[t].name.ns][task[t].relay] = 0]

\* unregister_namespace_subscription_sync
Uncounted(t, data) == [data EXCEPT !.interest[task[t].name.ns][task[t].relay] = IF @ > 0 THEN @ - 1 ELSE 0]

-----------------------------------------------------------------------------
(* A call that changes the file                                            *)

\* The task is polled: spawn_blocking.
Call(t) ==
  /\ state[t] = "idle"
  /\ state' = [state EXCEPT ![t] = "calling"]
  /\ UNCHANGED <<task, file, lock, found, abandoned, lost>>

\* The handle is dropped: the Drop does the work on the spot.
DropHandle(t) ==
  /\ state[t] \in {"held", "told"}
  /\ state' = [state EXCEPT ![t] = "dropping"]
  /\ UNCHANGED <<task, file, lock, found, abandoned, lost>>

\* lock_exclusive and read_data.  What cannot be read fails a call, and a Drop ignores it.
LockExclusive(t) ==
  LET interest == task[t].kind = "interest"
      data == IF state[t] = "calling"
              THEN (IF interest THEN Counted(t, Read) ELSE Registered(t, Read))
              ELSE (IF interest THEN Uncounted(t, Read) ELSE Unregistered(t, Read))
  IN /\ state[t] \in {"calling", "dropping"} /\ lock = NoLock
     /\ IF Readable
        THEN /\ lock' = [task |-> t, data |-> data, stage |-> "read"]
             /\ found' = IF interest /\ state[t] = "calling"
                         THEN [found EXCEPT ![t] = UpstreamRelays(t, Read)] ELSE found
             /\ UNCHANGED state
        ELSE /\ state' = [state EXCEPT ![t] = IF @ = "calling" THEN "failed" ELSE "done"]
             /\ UNCHANGED <<lock, found>>
     /\ UNCHANGED <<task, file, abandoned, lost>>

\* write_data: set_len(0).
TruncateFile ==
  /\ lock.stage = "read"
  /\ file' = [kind |-> "empty", data |-> 0]
  /\ lock' = [lock EXCEPT !.stage = "truncated"]
  /\ UNCHANGED <<task, state, found, abandoned, lost>>

\* write_data: write_all and flush; then unlock.  The handle exists if somebody waits for it.
WriteFile ==
  LET t == lock.task
  IN /\ lock.stage = "truncated"
     /\ file' = [kind |-> "data", data |-> lock.data]
     /\ lock' = NoLock
     /\ state' = [state EXCEPT ![t] = IF @ = "dropping" THEN "done"
                                      ELSE IF t \in abandoned THEN "leaked" ELSE "held"]
     /\ UNCHANGED <<task, found, abandoned, lost>>

\* An error before the file is truncated (lock, seek, set_len): it stays as it is, and the Drop that
\* could not take its entry out only warns.
CallFails ==
  LET t == lock.task
  IN /\ lock.stage = "read"
     /\ lock' = NoLock
     /\ state' = [state EXCEPT ![t] = IF @ = "dropping" THEN "leaked" ELSE "failed"]
     /\ UNCHANGED <<task, file, found, abandoned, lost>>

\* What is left of the file when it was truncated and not written, or not to the end.
CutShort == lost' = TRUE /\ \E k \in {"empty", "garbled"} : file' = [kind |-> k, data |-> 0]

\* write_data: write_all fails, in a relay that goes on; what the file had is gone.
FileWriteFails ==
  LET t == lock.task
  IN /\ lock.stage = "truncated"
     /\ CutShort
     /\ lock' = NoLock
     /\ state' = [state EXCEPT ![t] = IF @ = "dropping" THEN "done" ELSE "failed"]
     /\ UNCHANGED <<task, found, abandoned>>

\* The session of a caller ends while the thread works.
Cancel(t) ==
  /\ state[t] = "calling" /\ t \notin abandoned
  /\ abandoned' = abandoned \union {t}
  /\ UNCHANGED <<task, state, file, lock, found, lost>>

\* serve: lookup_namespace_subscribers under the shared lock; an error drops everything.
LookupSubscribers(t) ==
  /\ NamespaceTask(t) /\ state[t] = "held" /\ lock = NoLock
  /\ IF Readable
     THEN /\ found' = [found EXCEPT ![t] = Interested(t, Read)]
          /\ state' = [state EXCEPT ![t] = "told"]
     ELSE state' = [state EXCEPT ![t] = "dropping"] /\ UNCHANGED found
  /\ UNCHANGED <<task, file, lock, abandoned, lost>>

-----------------------------------------------------------------------------
(* A relay dies with its tasks: their entries stay, and what it was        *)
(* writing is lost or cut short.                                           *)
Crash(r) ==
  LET here == {t \in CTasks : task[t].relay = r}
      working == lock # NoLock /\ lock.task \in here
      entered == {t \in here : state[t] \in {"held", "told", "dropping"}}
      calling == {t \in here : state[t] = "calling"}
  IN /\ entered \union calling # {}
     /\ state' = [t \in CTasks |-> IF t \in entered THEN "leaked"
                                   ELSE IF t \in calling THEN "dead" ELSE state[t]]
     /\ lock' = IF working THEN NoLock ELSE lock
     /\ IF working /\ lock.stage = "truncated" THEN CutShort ELSE UNCHANGED <<file, lost>>
     /\ UNCHANGED <<task, found, abandoned>>

CoordinatorNext ==
  \/ \E t \in CTasks : Call(t) \/ DropHandle(t) \/ LockExclusive(t) \/ Cancel(t) \/ LookupSubscribers(t)
  \/ TruncateFile \/ WriteFile \/ CallFails \/ FileWriteFails
  \/ \E r \in Relays : Crash(r)

CoordinatorSpec == CoordinatorInit /\ [][CoordinatorNext]_coordinatorVars

-----------------------------------------------------------------------------
CoordinatorTypeOK ==
  /\ task \in CoordinatorCases
  /\ state \in [CTasks -> {"idle", "calling", "held", "told", "dropping", "done", "failed", "leaked", "dead"}]
  /\ file.kind \in {"data", "empty", "garbled"}
  /\ lock.stage \in {"none", "read", "truncated"}
  /\ found \in [CTasks -> SUBSET Relays]
  /\ abandoned \subseteq CTasks /\ lost \in BOOLEAN

Unlocked == lock = NoLock /\ ~lost

\* The interests of a relay in a prefix that have an entry.
Seekers(p, r) ==
  {t \in CTasks : /\ task[t].kind = "interest"
                  /\ task[t].name.ns = p /\ task[t].relay = r
                  /\ state[t] \in {"held", "dropping", "leaked"}}

(* The file counts exactly the subscriptions that hold a handle, and those   *)
(* whose relay died or whose caller went away while the thread worked: none  *)
(* of a live session is lost, whatever other sessions of the relay do, until *)
(* a write fails or a relay dies in the middle of one (subscribe_namespace,  *)
(* unregister_namespace_subscription_sync).                                  *)
InterestCounted ==
  Unlocked => \A p \in Prefixed, r \in Relays : Read.interest[p][r] = Cardinality(Seekers(p, r))

(* Whatever was lost, nobody is told of a relay that does not host or seek:  *)
(* an entry of the file is that of a task whose relay has not taken it back, *)
(* and no more interests are counted than there are.  A write cut short      *)
(* loses the entries of others; it invents none (write_data, read_data).     *)
NoGhost ==
  /\ \A k \in HostKeys : Read.hosts[k] # Nobody =>
       \E t \in CTasks : /\ task[t].kind # "interest" /\ KeyOf(t) = k /\ task[t].relay = Read.hosts[k]
                         /\ state[t] \in {"held", "told", "dropping", "leaked"}
  /\ \A p \in Prefixed, r \in Relays : Read.interest[p][r] <= Cardinality(Seekers(p, r))

\* No other task ever registers the key.
Alone(t) == \A u \in CTasks \ {t} : task[u].kind # "interest" => KeyOf(u) # KeyOf(t)

(* A publisher and a subscriber on two relays find each other: the namespace *)
(* is registered before its subscribers are looked up, and an interest is    *)
(* recorded under the lock its hosts are read under, so one of the two is    *)
(* told of the other however the calls interleave.  What only one publisher  *)
(* registers is found as long as its handle is held (consumer serve,         *)
(* subscribe_namespace, lookup, lookup_track): a namespace by its name, a    *)
(* track by its path, so that of two tracks whose namespaces have the same   *)
(* path, as ["a/b"] and ["a", "b"] do, either may be found for the other.    *)
Rendezvous ==
  ~lost => \A t \in CTasks :
    (Alone(t) /\ task[t].kind # "interest") =>
      /\ state[t] \in {"held", "told"} /\ lock = NoLock =>
           task[t].relay = IF NamespaceTask(t) THEN Lookup(Read, task[t].name.ns)
                           ELSE LookupTrack(Read, task[t].name)
      /\ (state[t] = "told" /\ NamespaceTask(t)) =>
           \A s \in CTasks :
             (/\ task[s].kind = "interest" /\ state[s] = "held" /\ task[s].public
              /\ IsPrefix(task[s].name.ns, task[t].name.ns)
              /\ task[s].relay # task[t].relay
              /\ task[s].source # task[t].relay /\ task[t].source # task[s].relay)
             => task[s].relay \in found[t] \/ task[t].relay \in found[s]

(* What the coordinator's documentation says: a name remains registered as   *)
(* long as its handle is held.                                               *)
HeldIsRegistered ==
  Unlocked => \A t \in CTasks :
    task[t].kind # "interest" /\ state[t] \in {"held", "told"} => Read.hosts[KeyOf(t)] # Nobody

-----------------------------------------------------------------------------
(* The coordinator that relays share through moq-api (api_coordinator.rs of  *)
(* the relay binary, client.rs and server.rs of moq-api) for one key of the  *)
(* registry, a namespace in a scope.  The server reads and writes Redis in   *)
(* separate commands, so the calls of two relays interleave; requests fail,  *)
(* their answers get lost, they take their time; an entry expires unless it  *)
(* is refreshed, and each relay chooses how often it does that.              *)

CONSTANTS
  ApiCases,     \* what a run begins with: a function from registrations to [relay, every], the relay
                \* that makes it and its refresh interval, in ticks
  EntryTtl      \* how long the server keeps an entry, in ticks

\* A relay has a URL, which is never what stands for no entry; an interval of zero would panic.
ASSUME ApiAssumption ==
  /\ EntryTtl \in Nat \ {0}
  /\ \A c \in ApiCases : \A h \in DOMAIN c : c[h].relay # "none" /\ c[h].every \in Nat \ {0}

VARIABLES
  owner,        \* the case
  reg,          \* per registration: "idle", "set" (the second command of set_origin), "held",
                \* "deleting" (the task that the drop of the handle spawned), "done" (deleted),
                \* "refused", "dead" (its relay died, or could not delete)
  patch,        \* per registration, its refresh: "due", "expire" (the second command of
                \* patch_origin) or "rest"
  wait,         \* per registration: the ticks to its next refresh
  failed,       \* the registrations whose latest refresh failed or takes longer than a tick
  origin,       \* the entry: a relay or NoOrigin
  ttl           \* what is left of it

apiVars == <<owner, reg, patch, wait, failed, origin, ttl>>

NoOrigin == "none"
Regs == DOMAIN owner
Owner(h) == owner[h].relay
Every(h) == owner[h].every

ApiStart(c) ==
  /\ owner = c
  /\ reg = [h \in DOMAIN c |-> "idle"]
  /\ patch = [h \in DOMAIN c |-> "rest"]
  /\ wait = [h \in DOMAIN c |-> c[h].every]
  /\ failed = {}
  /\ origin = NoOrigin /\ ttl = 0
ApiInit == \E c \in ApiCases : ApiStart(c)

-----------------------------------------------------------------------------
(* register_namespace                                                      *)

\* set_origin: GET.  The same origin is accepted, another one is a Duplicate.
GetForSet(h) ==
  /\ reg[h] = "idle"
  /\ reg' = [reg EXCEPT ![h] = CASE origin = NoOrigin  -> "set"
                                 [] origin = Owner(h)  -> "held"
                                 [] OTHER              -> "refused"]
  /\ patch' = [patch EXCEPT ![h] = IF origin = Owner(h) THEN "due" ELSE @]
  /\ UNCHANGED <<owner, wait, failed, origin, ttl>>

\* Mutant: SET without NX.
Vacant_Any == TRUE

\* SET NX: only if there is still no entry.
Vacant == origin = NoOrigin

\* SET NX EX; then start_refresh_task, whose first tick is at once.
SetOrigin(h) ==
  /\ reg[h] = "set"
  /\ IF Vacant
     THEN /\ origin' = Owner(h) /\ ttl' = EntryTtl
          /\ reg' = [reg EXCEPT ![h] = "held"] /\ patch' = [patch EXCEPT ![h] = "due"]
     ELSE reg' = [reg EXCEPT ![h] = "refused"] /\ UNCHANGED <<origin, ttl, patch>>
  /\ UNCHANGED <<owner, wait, failed>>

\* The request fails, before the SET or after it: no handle, and perhaps an entry.
SetFails(h) ==
  /\ reg[h] = "set"
  /\ reg' = [reg EXCEPT ![h] = "refused"]
  /\ \/ UNCHANGED <<origin, ttl>>
     \/ Vacant /\ origin' = Owner(h) /\ ttl' = EntryTtl
  /\ UNCHANGED <<owner, patch, wait, failed>>

-----------------------------------------------------------------------------
(* The refresh task                                                        *)

\* patch_origin: GET, and the contents must not have changed.
PatchCheck(h) ==
  LET same == origin = Owner(h)
  IN /\ patch[h] = "due"
     /\ patch' = [patch EXCEPT ![h] = IF same THEN "expire" ELSE "rest"]
     /\ failed' = IF same THEN failed \ {h} ELSE failed \union {h}
     /\ UNCHANGED <<owner, reg, wait, origin, ttl>>

\* patch_origin: EXPIRE, whatever the entry is by now.
PatchExpire(h) ==
  /\ patch[h] = "expire"
  /\ patch' = [patch EXCEPT ![h] = "rest"]
  /\ IF origin = NoOrigin
     THEN failed' = failed \union {h} /\ UNCHANGED ttl
     ELSE ttl' = EntryTtl /\ UNCHANGED failed
  /\ UNCHANGED <<owner, reg, wait, origin>>

\* The request fails on its way; the task warns and waits for the next tick.
PatchFails(h) ==
  /\ patch[h] # "rest"
  /\ patch' = [patch EXCEPT ![h] = "rest"]
  /\ failed' = failed \union {h}
  /\ UNCHANGED <<owner, reg, wait, origin, ttl>>

-----------------------------------------------------------------------------
(* The end of a registration                                               *)

\* NamespaceUnregisterHandle::drop: the refresh stops, unless its request is out, and a task will
\* delete.
DropRegistration(h) ==
  /\ reg[h] = "held"
  /\ reg' = [reg EXCEPT ![h] = "deleting"]
  /\ \/ UNCHANGED patch
     \/ patch[h] = "due" /\ patch' = [patch EXCEPT ![h] = "rest"]
  /\ UNCHANGED <<owner, wait, failed, origin, ttl>>

\* delete_origin: whoever has the key.
DeleteOrigin(h) ==
  /\ reg[h] = "deleting"
  /\ reg' = [reg EXCEPT ![h] = "done"]
  /\ origin' = NoOrigin /\ ttl' = 0
  /\ UNCHANGED <<owner, patch, wait, failed>>

\* The request fails, which the task only warns of.
DeleteFails(h) ==
  /\ reg[h] = "deleting"
  /\ reg' = [reg EXCEPT ![h] = "dead"]
  /\ UNCHANGED <<owner, patch, wait, failed, origin, ttl>>

\* What it asked of the server goes on: a refresh, a deletion.
RelayDies(r) ==
  LET here == {h \in Regs : Owner(h) = r /\ reg[h] \in {"set", "held"}}
  IN /\ here # {}
     /\ reg' = [h \in Regs |-> IF h \in here THEN "dead" ELSE reg[h]]
     /\ \E unsent \in SUBSET {h \in here : patch[h] = "due"} :
          patch' = [h \in Regs |-> IF h \in unsent THEN "rest" ELSE patch[h]]
     /\ UNCHANGED <<owner, wait, failed, origin, ttl>>

\* Mutant: the refresh task is not told of the drop.
Refreshed_Forever(h) == reg[h] \in {"held", "deleting", "done"}

\* The refresh task runs.
Refreshed(h) == reg[h] = "held"

\* Time passes, for the entry and for the interval of each refresh task; a tick that comes while the
\* refresh before it is under way is skipped.
ApiTick ==
  /\ ttl' = IF ttl > 0 THEN ttl - 1 ELSE 0
  /\ origin' = IF ttl > 1 THEN origin ELSE NoOrigin
  /\ wait' = [h \in Regs |-> IF ~Refreshed(h) THEN wait[h]
                             ELSE IF wait[h] = 1 THEN Every(h) ELSE wait[h] - 1]
  /\ patch' = [h \in Regs |-> IF Refreshed(h) /\ wait[h] = 1 /\ patch[h] = "rest" THEN "due" ELSE patch[h]]
  /\ failed' = failed \union {h \in Regs : patch[h] # "rest"}
  /\ UNCHANGED <<owner, reg>>

\* What goes on without a new registration or the end of one.
ApiStep ==
  \/ \E h \in Regs : SetOrigin(h) \/ PatchCheck(h) \/ PatchExpire(h) \/ DeleteOrigin(h)
  \/ ApiTick

ApiNext ==
  \/ ApiStep
  \/ \E h \in Regs : GetForSet(h) \/ DropRegistration(h)
  \/ \E h \in Regs : SetFails(h) \/ PatchFails(h) \/ DeleteFails(h)
  \/ \E h \in Regs : RelayDies(Owner(h))

ApiSpec == ApiInit /\ [][ApiNext]_apiVars
ApiFairness == WF_apiVars(ApiStep)

-----------------------------------------------------------------------------
ApiTypeOK ==
  /\ owner \in ApiCases
  /\ reg \in [Regs -> {"idle", "set", "held", "deleting", "done", "refused", "dead"}]
  /\ patch \in [Regs -> {"due", "expire", "rest"}]
  /\ \A h \in Regs : wait[h] \in 1 .. Every(h)
  /\ failed \subseteq Regs
  /\ ttl \in 0 .. EntryTtl /\ (origin = NoOrigin) = (ttl = 0)

(* Who holds the key is its origin, as long as its refresh comes more often  *)
(* than entries expire, the latest one did not fail and no handle of the key *)
(* was given up and deleted: SET NX lets one of two that raced through the   *)
(* GET win, and neither a relay that dies nor a refresh that comes late for  *)
(* another relay takes the entry away.  So two relays hold the key together  *)
(* only if one of these happened (set_origin, patch_origin,                  *)
(* start_refresh_task).                                                      *)
OneOrigin ==
  (\A h \in Regs : reg[h] # "done") =>
    \A h \in Regs \ failed : reg[h] = "held" /\ Every(h) < EntryTtl => origin = Owner(h)

(* The entry of a relay that holds no handle is gone for good in the end:    *)
(* deleted, or expired after the relay died, whichever refresh is still on   *)
(* its way.                                                                  *)
StaleExpires ==
  origin # NoOrigin => \E h \in Regs : Owner(h) = origin /\ reg[h] = "held"

(* What the coordinators promise each other's relays: every interest of a    *)
(* live session is counted, a publisher and a subscriber on two relays find  *)
(* each other and nobody is told of a relay that has left                    *)
(* (file_coordinator.rs), and moq-api has one origin for a name              *)
(* (api_coordinator.rs, moq-api server.rs).                                  *)
Coordinated == InterestCounted /\ NoGhost /\ Rendezvous /\ OneOrigin
=============================================================================
