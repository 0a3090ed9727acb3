-------------------------- MODULE LocalNamespaces --------------------------
(***************************************************************************)
(* The namespaces a relay knows (moq-relay-ietf local.rs, struct Locals):  *)
(* each entry has at most one local source, the PUBLISH_NAMESPACE of a     *)
(* session, and a weak pointer to a remote source shared by any number of  *)
(* discovery registrations.  Changes are made under the lock of the map    *)
(* and announced on a broadcast channel after it is released; the handlers *)
(* of SUBSCRIBE_NAMESPACE (producer.rs) follow that channel.               *)
(***************************************************************************)
EXTENDS Naturals, Sequences, FiniteSets

CONSTANTS
  Namespaces,
  Watchers,    \* SUBSCRIBE_NAMESPACE handlers whose prefix covers Namespaces
  MaxSources,  \* how many RemoteNamespaceSources are ever allocated
  MaxRefs,     \* how many registrations share one
  MaxChanges,  \* how many changes are announced
  Capacity     \* NAMESPACE_CHANGE_CHANNEL_CAPACITY

Sources == 1 .. MaxSources
None == 0

LocalNamespacesAssumption ==
  /\ MaxSources \in Nat /\ MaxRefs \in Nat \ {0} /\ MaxChanges \in Nat
  /\ Capacity \in Nat \ {0}

VARIABLES
  present,   \* namespaces with an entry
  local,     \* those with a local source
  remote,    \* namespace -> the source its entry points to
  sourceOf,  \* source -> its namespace
  refs,      \* source -> registrations that share it
  phase,     \* source -> where its life is
  pending,   \* changes made and not announced yet
  log,       \* what was sent on namespace_changes
  watcher,   \* watcher -> how far it has come
  cursor,    \* watcher -> the changes it has received or missed
  known      \* watcher -> the namespaces it has announced to its peer

registry == <<present, local, remote, sourceOf, refs, phase>>
watching == <<watcher, cursor, known>>
vars == <<registry, pending, log, watching>>

\* A change, who made it, and its number in the order the lock was taken.
Change(n, added, by) ==
  [ns |-> n, added |-> added, by |-> by, at |-> Len(log) + Cardinality(pending)]

Init ==
  /\ present = {} /\ local = {} /\ remote = [n \in Namespaces |-> None]
  /\ sourceOf = [s \in Sources |-> "none"] /\ refs = [s \in Sources |-> 0]
  /\ phase = [s \in Sources |-> "none"]
  /\ pending = {} /\ log = <<>>
  /\ watcher = [w \in Watchers |-> "off"] /\ cursor = [w \in Watchers |-> 0]
  /\ known = [w \in Watchers |-> {}]

\* Weak::upgrade succeeds while a registration holds the source.
Upgrades(s) == s # None /\ phase[s] = "live"

Room == Len(log) + Cardinality(pending) < MaxChanges

\* The change is announced after the lock is released, by whoever made it.
AnnounceChange(n, added, by) == pending' = pending \cup {Change(n, added, by)}

\* A registration is returned to its owner once its addition is announced.
Busy(by) == \E c \in pending : c.added /\ c.by = by

-----------------------------------------------------------------------------
(* Registrations                                                           *)

\* Locals::register_namespace_inner
RegisterLocal(n) ==
  /\ Room /\ n \notin local
  /\ local' = local \cup {n}
  /\ present' = present \cup {n}
  /\ IF n \in present THEN UNCHANGED pending ELSE AnnounceChange(n, TRUE, <<"local", n>>)
  /\ UNCHANGED <<remote, sourceOf, refs, phase, log, watching>>

\* LocalNamespaceRegistration::drop
DropLocal(n) ==
  /\ Room /\ ~Busy(<<"local", n>>) /\ n \in local
  /\ local' = local \ {n}
  /\ IF Upgrades(remote[n])
     THEN UNCHANGED <<present, remote, pending>>
     ELSE /\ present' = present \ {n}
          /\ remote' = [remote EXCEPT ![n] = None]
          /\ AnnounceChange(n, FALSE, <<"local", n>>)
  /\ UNCHANGED <<sourceOf, refs, phase, log, watching>>

\* Locals::register_remote_namespace: share the source, or allocate one.
ShareRemote(n) ==
  /\ n \in present /\ Upgrades(remote[n]) /\ refs[remote[n]] < MaxRefs
  /\ refs' = [refs EXCEPT ![remote[n]] = @ + 1]
  /\ UNCHANGED <<present, local, remote, sourceOf, phase, pending, log, watching>>

RegisterRemote(n, s) ==
  /\ Room /\ ~(n \in present /\ Upgrades(remote[n]))
  /\ phase[s] = "none" /\ \A t \in Sources : t < s => phase[t] # "none"
  /\ phase' = [phase EXCEPT ![s] = "live"]
  /\ sourceOf' = [sourceOf EXCEPT ![s] = n]
  /\ refs' = [refs EXCEPT ![s] = 1]
  /\ remote' = [remote EXCEPT ![n] = s]
  /\ present' = present \cup {n}
  /\ IF n \in present THEN UNCHANGED pending ELSE AnnounceChange(n, TRUE, <<"remote", s>>)
  /\ UNCHANGED <<local, log, watching>>

\* A RemoteNamespaceRegistration goes; with the last one the pointer no longer
\* upgrades, and the destructor of the source is about to run.
DropRemote(s) ==
  /\ phase[s] = "live"
  /\ refs[s] > IF Busy(<<"remote", s>>) THEN 1 ELSE 0
  /\ refs' = [refs EXCEPT ![s] = @ - 1]
  /\ phase' = [phase EXCEPT ![s] = IF refs[s] = 1 THEN "dropping" ELSE "live"]
  /\ UNCHANGED <<present, local, remote, sourceOf, pending, log, watching>>

\* Mutant: whatever the entry points to by now.
PointsTo_Any(n, s) == n \in present

\* std::ptr::eq(entry.remote.as_ptr(), self)
PointsTo(n, s) == n \in present /\ remote[n] = s

\* RemoteNamespaceSource::drop
FinishRemote(s) ==
  /\ Room /\ phase[s] = "dropping"
  /\ phase' = [phase EXCEPT ![s] = "dead"]
  /\ LET n == sourceOf[s] IN
     IF PointsTo(n, s)
     THEN /\ remote' = [remote EXCEPT ![n] = None]
          /\ IF n \in local THEN UNCHANGED <<present, pending>>
                            ELSE present' = present \ {n} /\ AnnounceChange(n, FALSE, <<"remote", s>>)
     ELSE UNCHANGED <<present, remote, pending>>
  /\ UNCHANGED <<local, sourceOf, refs, log, watching>>

\* broadcast::Sender::send, in whatever order the tasks come to it.
Send(c) ==
  /\ c \in pending
  /\ pending' = pending \ {c}
  /\ log' = Append(log, [ns |-> c.ns, added |-> c.added])
  /\ UNCHANGED <<registry, watching>>

-----------------------------------------------------------------------------
(* Producer::serve_subscribe_namespace                                     *)

\* First the receiver, which sees what is sent from now on ...
Subscribe(w) ==
  /\ watcher[w] = "off"
  /\ watcher' = [watcher EXCEPT ![w] = "subscribed"]
  /\ cursor' = [cursor EXCEPT ![w] = Len(log)]
  /\ UNCHANGED <<registry, pending, log, known>>

\* ... then the snapshot: send_namespace_snapshot.
Snapshot(w) ==
  /\ watcher[w] = "subscribed"
  /\ watcher' = [watcher EXCEPT ![w] = "on"]
  /\ known' = [known EXCEPT ![w] = present]
  /\ UNCHANGED <<registry, pending, log, cursor>>

\* apply_namespace_change
Apply(w, c) ==
  known' = [known EXCEPT ![w] = IF c.added THEN @ \cup {c.ns} ELSE @ \ {c.ns}]

\* Mutant: what is new is announced, what has gone is not withdrawn.
Resync_AddOnly(w) == known' = [known EXCEPT ![w] = @ \cup present]

\* resync_namespaces
Resync(w) == known' = [known EXCEPT ![w] = present]

\* serve_subscribe_namespace_loop: the next change, or Lagged when the channel
\* has overwritten it; the cursor then moves to the oldest change it still has.
Recv(w) ==
  /\ watcher[w] = "on" /\ cursor[w] < Len(log)
  /\ IF Len(log) - cursor[w] > Capacity
     THEN Resync(w) /\ cursor' = [cursor EXCEPT ![w] = Len(log) - Capacity]
     ELSE Apply(w, log[cursor[w] + 1]) /\ cursor' = [cursor EXCEPT ![w] = @ + 1]
  /\ UNCHANGED <<registry, pending, log, watcher>>

Next ==
  \/ \E n \in Namespaces :
       \/ RegisterLocal(n) \/ DropLocal(n) \/ ShareRemote(n)
       \/ \E s \in Sources : RegisterRemote(n, s)
  \/ \E s \in Sources : DropRemote(s) \/ FinishRemote(s)
  \/ \E c \in pending : Send(c)
  \/ \E w \in Watchers : Subscribe(w) \/ Snapshot(w) \/ Recv(w)

Spec == Init /\ [][Next]_vars

-----------------------------------------------------------------------------
TypeOK ==
  /\ present \subseteq Namespaces /\ local \subseteq Namespaces
  /\ remote \in [Namespaces -> Sources \cup {None}]
  /\ sourceOf \in [Sources -> Namespaces \cup {"none"}]
  /\ refs \in [Sources -> 0 .. MaxRefs]
  /\ phase \in [Sources -> {"none", "live", "dropping", "dead"}]
  /\ watcher \in [Watchers -> {"off", "subscribed", "on"}]
  /\ cursor \in [Watchers -> 0 .. Len(log)]
  /\ known \in [Watchers -> SUBSET Namespaces]

Count(n, added) ==
  Cardinality({c \in pending : c.ns = n /\ c.added = added}) +
  Cardinality({i \in DOMAIN log : log[i].ns = n /\ log[i].added = added})

\* Every change of the union of sources is announced once, and nothing else is.
ChangesBalance ==
  \A n \in Namespaces : Count(n, TRUE) = Count(n, FALSE) + (IF n \in present THEN 1 ELSE 0)

(* local.rs:308-314, 328-368, 563-595, 604-635: a namespace is listed       *)
(* exactly while a local source, or a remote source whose destructor has    *)
(* not finished, stands behind it, however the last drop of one source      *)
(* races the registration of the next; and the additions and removals that  *)
(* are announced, or about to be, add up to the list.                       *)
ListedWhileSourced ==
  /\ \A n \in local : n \in present
  /\ \A s \in Sources : phase[s] = "live" => sourceOf[s] \in present /\ remote[sourceOf[s]] = s
  /\ \A n \in present \ local : remote[n] # None /\ phase[remote[n]] \in {"live", "dropping"}
  /\ ChangesBalance

LastSent(n) ==
  LET at == {i \in DOMAIN log : log[i].ns = n} IN
  IF at = {} THEN FALSE ELSE log[CHOOSE i \in at : \A j \in at : j <= i].added

(* producer.rs:433-520, 585-606: a watcher that has caught up tells its     *)
(* peer what the registry holds, whether it started from a snapshot, was    *)
(* told of a change twice, or lost changes to the bound of the channel --   *)
(* wherever the last change that was sent is also the last that was made.   *)
NamespacesReach ==
  \A w \in Watchers, n \in Namespaces :
    ( /\ watcher[w] = "on" /\ cursor[w] = Len(log)
      /\ \A c \in pending : c.ns # n
      /\ LastSent(n) = (n \in present) )
    => (n \in known[w] <=> n \in present)

-----------------------------------------------------------------------------
(* What a test of the code says, and the code does not do                  *)

(* local.rs:729, the test local_then_remote_emits_only_union_transitions:   *)
(* an addition is followed by a removal and a removal by an addition.       *)
OnlyUnionTransitions ==
  \A i, j \in DOMAIN log :
    (i < j /\ log[i].ns = log[j].ns /\ \A k \in (i + 1) .. (j - 1) : log[k].ns # log[i].ns)
      => log[i].added # log[j].added
=============================================================================
