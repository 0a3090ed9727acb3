------------------------ MODULE UpstreamNamespaces ------------------------
(***************************************************************************)
(* How a relay shares the discovery of namespaces at its upstream relays     *)
(* (moq-relay-ietf upstream_namespaces.rs).  A SUBSCRIBE_NAMESPACE handler   *)
(* holds a lease on its prefix; the last lease of a prefix to go, and the    *)
(* first to come, tell the runner, one task, through a queue.  The runner    *)
(* keeps one pull, a SUBSCRIBE_NAMESPACE to an upstream relay, for every     *)
(* root of the covering set.  When the roots change, the pulls of the old    *)
(* ones are cancelled, and a relay gets its new pulls when its old ones      *)
(* have ended; what the old roots had discovered is retained meanwhile.      *)
(***************************************************************************)
EXTENDS Naturals, Sequences, FiniteSets

CONSTANTS
  Fields,
  Prefixes,      \* the prefixes clients ask for, in one scope
  Namespaces,    \* the namespaces upstream relays may have
  Relays,        \* upstream relays
  MaxLeases,     \* how many PrefixInterests are ever created
  MaxHolders,    \* how many leases share one
  MaxPulls,      \* how many pulls are started
  MaxChanges,    \* how often the namespaces of a relay change
  MaxRetries     \* how often a pull is rejected

Gens == 1 .. MaxLeases
Pulls == 1 .. MaxPulls
None == 0

UpstreamNamespacesAssumption ==
  /\ Prefixes \subseteq Seq(Fields) /\ Namespaces \subseteq Seq(Fields)
  /\ IsFiniteSet(Prefixes) /\ IsFiniteSet(Relays)
  /\ MaxLeases \in Nat /\ MaxHolders \in Nat \ {0} /\ MaxPulls \in Nat
  /\ MaxChanges \in Nat /\ MaxRetries \in Nat

VARIABLES
  \* leases (LeaseRegistry, PrefixInterest)
  slot,      \* prefix -> the generation its slot names
  prefixOf,  \* generation -> its prefix
  holders,   \* generation -> leases that share it
  life,      \* generation -> "none", "live", "dropping", "dead"
  commands,  \* the queue of the runner
  \* the runner
  deferred,  \* interest commands that wait for the transition to end
  active,    \* prefix -> the generation of its ActiveInterest
  roots,     \* CoveringPrefixSet::roots
  root,      \* prefix -> "none", "live", "retiring": its RootState
  relaysOf,  \* prefix -> relays the coordinator named for the root
  pulls,     \* prefix -> the pulls of its RootState
  sources,   \* pull -> namespaces registered for it
  retained,  \* prefix -> namespaces taken over from earlier roots
  transition,\* old pulls not complete, relays started, and targets by relay
  \* pulls (run_pull)
  started,   \* how many there have been
  pullRoot, pullRelay,
  phase,     \* "none", "opening", "open", "backoff", "draining", "gone"
  cancelled, \* whether the cancel signal was sent
  told,      \* pull -> namespaces the upstream has announced to it
  retries,
  \* upstream relays
  upstream,  \* relay -> its namespaces
  changes

leases == <<slot, prefixOf, holders, life>>
runner == <<deferred, active, roots, root, relaysOf, pulls, sources, retained, transition>>
tasks == <<started, pullRoot, pullRelay, phase, cancelled, told, retries>>
remote == <<upstream, changes>>
vars == <<leases, commands, runner, tasks, remote>>

Interests == {p \in Prefixes : active[p] # None}

Covering == INSTANCE CoveringPrefixSetProofs WITH active <- Interests

NoTransition == [old |-> {}, started |-> {}, targets |-> [r \in Relays |-> {}], removed |-> {}]
InTransition == transition # NoTransition

Init ==
  /\ slot = [p \in Prefixes |-> None] /\ prefixOf = [g \in Gens |-> <<>>]
  /\ holders = [g \in Gens |-> 0] /\ life = [g \in Gens |-> "none"]
  /\ commands = <<>> /\ deferred = <<>>
  /\ active = [p \in Prefixes |-> None] /\ roots = {}
  /\ root = [p \in Prefixes |-> "none"] /\ relaysOf = [p \in Prefixes |-> {}]
  /\ pulls = [p \in Prefixes |-> {}] /\ sources = [k \in Pulls |-> {}]
  /\ retained = [p \in Prefixes |-> {}] /\ transition = NoTransition
  /\ started = 0 /\ pullRoot = [k \in Pulls |-> <<>>] /\ pullRelay = [k \in Pulls |-> None]
  /\ phase = [k \in Pulls |-> "none"] /\ cancelled = [k \in Pulls |-> FALSE]
  /\ told = [k \in Pulls |-> {}] /\ retries = 0
  /\ upstream \in [Relays -> SUBSET Namespaces] /\ changes = 0

-----------------------------------------------------------------------------
(* Leases: UpstreamNamespaces::subscribe and PrefixInterest::drop, each      *)
(* under the lock of the slots                                               *)

Created == Cardinality({g \in Gens : life[g] # "none"})

\* The slot's interest still upgrades: share it.
ShareLease(p) ==
  /\ slot[p] # None /\ life[slot[p]] = "live" /\ holders[slot[p]] < MaxHolders
  /\ holders' = [holders EXCEPT ![slot[p]] = @ + 1]
  /\ UNCHANGED <<slot, prefixOf, life, commands, runner, tasks, remote>>

\* Otherwise a new generation takes the slot, and the runner is told.
NewLease(p) ==
  LET g == Created + 1 IN
  /\ g <= MaxLeases
  /\ ~(slot[p] # None /\ life[slot[p]] = "live")
  /\ slot' = [slot EXCEPT ![p] = g]
  /\ prefixOf' = [prefixOf EXCEPT ![g] = p]
  /\ holders' = [holders EXCEPT ![g] = 1]
  /\ life' = [life EXCEPT ![g] = "live"]
  /\ commands' = Append(commands, [kind |-> "subscribe", prefix |-> p, gen |-> g])
  /\ UNCHANGED <<runner, tasks, remote>>

\* A lease is dropped; the last one leaves its interest to its destructor.
Release(g) ==
  /\ life[g] = "live"
  /\ holders' = [holders EXCEPT ![g] = @ - 1]
  /\ life' = [life EXCEPT ![g] = IF holders[g] = 1 THEN "dropping" ELSE "live"]
  /\ UNCHANGED <<slot, prefixOf, commands, runner, tasks, remote>>

\* Mutant: the destructor does not look who has the slot.
IsCurrent_Always(g) == slot[prefixOf[g]] # None

IsCurrent(g) == slot[prefixOf[g]] = g

DropInterest(g) ==
  /\ life[g] = "dropping"
  /\ life' = [life EXCEPT ![g] = "dead"]
  /\ IF IsCurrent(g)
     THEN /\ slot' = [slot EXCEPT ![prefixOf[g]] = None]
          /\ commands' = Append(commands, [kind |-> "unsubscribe", prefix |-> prefixOf[g], gen |-> g])
     ELSE UNCHANGED <<slot, commands>>
  /\ UNCHANGED <<prefixOf, holders, runner, tasks, remote>>

-----------------------------------------------------------------------------
(* The runner: UpstreamNamespacesRunner::run takes one command at a time     *)

\* start_pull for each of a set of <<root, relay>>, in any order.
StartPulls(targets, pulls1, phase1) ==
  \E ids \in [targets -> (started + 1) .. (started + Cardinality(targets))] :
    /\ started + Cardinality(targets) <= MaxPulls
    /\ \A s, t \in targets : ids[s] = ids[t] => s = t
    /\ LET of == [k \in {ids[t] : t \in targets} |-> CHOOSE t \in targets : ids[t] = k] IN
       /\ started' = started + Cardinality(targets)
       /\ pulls' = [p \in Prefixes |-> pulls1[p] \cup {ids[t] : t \in {u \in targets : u[1] = p}}]
       /\ phase' = [k \in Pulls |-> IF k \in DOMAIN of THEN "opening" ELSE phase1[k]]
       /\ pullRoot' = [k \in Pulls |-> IF k \in DOMAIN of THEN of[k][1] ELSE pullRoot[k]]
       /\ pullRelay' = [k \in Pulls |-> IF k \in DOMAIN of THEN of[k][2] ELSE pullRelay[k]]

\* Mutant: new pulls do not wait for the old ones of their relay.
Ready_AtOnce(t) == Relays \ t.started

\* take_ready_targets: relays none of whose old pulls is still open
Ready(t) == {r \in Relays \ t.started : ~\E k \in t.old : pullRelay[k] = r}

\* The removed roots go.
Retire(of, removed, gone) == [p \in Prefixes |-> IF p \in removed THEN gone ELSE of[p]]

\* start_ready_relay_transitions and finish_transition_if_ready
Advance(t, pulls1, phase1, root1, retained1) ==
  LET ready == Ready(t)
      done  == t.old = {} IN
  /\ StartPulls({pr \in Prefixes \X Relays : pr[2] \in ready /\ pr[1] \in t.targets[pr[2]]}, pulls1, phase1)
  /\ transition' = IF done THEN NoTransition ELSE [t EXCEPT !.started = @ \cup ready]
  /\ root' = IF done THEN Retire(root1, t.removed, "none") ELSE root1
  /\ retained' = IF done THEN Retire(retained1, t.removed, {}) ELSE retained1

Registered == UNION ({sources[k] : k \in Pulls} \cup {retained[p] : p \in Prefixes})

\* What the old roots had registered: sources of their pulls, and retained.
HadOf(p) == retained[p] \cup UNION {sources[k] : k \in pulls[p]}

\* Mutant: only what the new roots do not cover is kept, by the old root.
Transfer_Drops(p, removed, added) ==
  IF p \in removed THEN {n \in HadOf(p) : ~\E q \in added : Covering!Covers(q, n)} ELSE retained[p]

\* transfer_registration: to the new root that covers it, else to the old root
\* until the transition ends.
Transfer(p, removed, added) ==
  LET had == UNION {HadOf(q) : q \in removed} IN
  IF p \in added THEN {n \in had : Covering!Covers(p, n)}
  ELSE IF p \in removed THEN {n \in HadOf(p) : ~\E q \in added : Covering!Covers(q, n)}
  ELSE retained[p]

\* Pulls that have reported their end; cancel.send(()).is_ok() for them only
\* while the task has not returned.
Ending == {k \in Pulls : phase[k] = "gone" /\ \E i \in DOMAIN commands : commands[i] = [kind |-> "ended", pull |-> k]}

\* apply_delta.  The coordinator names the relays of each new root
\* (prepare_root); an error names none.
ApplyDelta(delta) ==
  \E named \in [delta.added -> SUBSET Relays], late \in SUBSET Ending :
    LET removed == {p \in delta.removed : root[p] = "live"}
        added   == delta.added
        old     == UNION {pulls[p] : p \in removed}
        sent    == {k \in old : phase[k] # "gone"} \cup late
        root1   == [p \in Prefixes |-> IF p \in added THEN "live"
                                       ELSE IF p \in removed THEN "retiring" ELSE root[p]]
    IN
    /\ late \subseteq old
    /\ relaysOf' = [p \in Prefixes |-> IF p \in added THEN named[p] ELSE relaysOf[p]]
    /\ cancelled' = [k \in Pulls |-> cancelled[k] \/ k \in sent]
    /\ sources' = [k \in Pulls |-> IF k \in old THEN {} ELSE sources[k]]
    /\ Advance([old     |-> sent,
                started |-> {},
                targets |-> [r \in Relays |-> {p \in added : r \in named[p]}],
                removed |-> removed],
               [p \in Prefixes |-> IF p \in removed THEN pulls[p] \cap sent ELSE pulls[p]],
               phase, root1,
               [p \in Prefixes |-> Transfer(p, removed, added)])
    /\ UNCHANGED <<told, retries>>

\* deferred first, but not while a transition lasts
FromDeferred == ~InTransition /\ deferred # <<>>
Command == IF FromDeferred THEN Head(deferred) ELSE Head(commands)
HasCommand == FromDeferred \/ commands # <<>>
Take ==
  IF FromDeferred THEN deferred' = Tail(deferred) /\ UNCHANGED commands
                  ELSE commands' = Tail(commands) /\ UNCHANGED deferred

Defer ==
  /\ InTransition /\ commands # <<>> /\ Command.kind \in {"subscribe", "unsubscribe"}
  /\ deferred' = Append(deferred, Command)
  /\ commands' = Tail(commands)
  /\ UNCHANGED <<leases, active, roots, root, relaysOf, pulls, sources, retained, transition, tasks, remote>>

\* add_interest ignores a generation that is not newer ...
IsNew(p, g) == active[p] < g

Ignored == UNCHANGED <<roots, root, relaysOf, pulls, sources, retained, transition, tasks>>

\* Mutant: a broader prefix is asked for besides the narrower ones.
NewRoots_Grow(delta) == roots \cup delta.added

NewRoots(delta) == (roots \ delta.removed) \cup delta.added

Apply(delta) ==
  /\ roots' = NewRoots(delta)
  /\ IF delta = Covering!NoDelta
     THEN UNCHANGED <<root, relaysOf, pulls, sources, retained, transition, tasks>>
     ELSE ApplyDelta(delta)

\* ... and asks for a prefix whose interest was not active yet.
AddInterest ==
  /\ HasCommand /\ ~InTransition /\ Command.kind = "subscribe"
  /\ Take
  /\ LET p == Command.prefix IN
     IF IsNew(p, Command.gen)
     THEN /\ active' = [active EXCEPT ![p] = Command.gen]
          /\ IF active[p] = None THEN Apply(Covering!AddDelta(Interests, roots, p)) ELSE Ignored
     ELSE UNCHANGED active /\ Ignored
  /\ UNCHANGED <<leases, remote>>

\* remove_interest: only the generation that is active
RemoveInterest ==
  /\ HasCommand /\ ~InTransition /\ Command.kind = "unsubscribe"
  /\ Take
  /\ LET p == Command.prefix IN
     IF active[p] = Command.gen
     THEN /\ active' = [active EXCEPT ![p] = None]
          /\ Apply(Covering!RemoveDelta(Interests, roots, p))
     ELSE UNCHANGED active /\ Ignored
  /\ UNCHANGED <<leases, remote>>

\* handle_pull_event: of a live root that still has the pull
Accepts(k) == root[pullRoot[k]] = "live" /\ k \in pulls[pullRoot[k]]

PullEvent ==
  /\ commands # <<>> /\ ~FromDeferred /\ Command.kind = "event"
  /\ commands' = Tail(commands)
  /\ LET k == Command.pull
         n == Command.ns
         p == pullRoot[k] IN
     IF Accepts(k)
     THEN IF Command.added
          THEN /\ sources' = [sources EXCEPT ![k] = @ \cup {n}]
               /\ retained' = [retained EXCEPT ![p] = IF n \in sources[k] THEN @ ELSE @ \ {n}]
          ELSE /\ sources' = [sources EXCEPT ![k] = @ \ {n}]
               /\ UNCHANGED retained
     ELSE UNCHANGED <<sources, retained>>
  /\ UNCHANGED <<leases, deferred, active, roots, root, relaysOf, pulls, transition, tasks, remote>>

\* handle_pull_ended
PullEnded ==
  /\ commands # <<>> /\ ~FromDeferred /\ Command.kind = "ended"
  /\ commands' = Tail(commands)
  /\ LET k == Command.pull
         p == pullRoot[k] IN
     IF root[p] = "none" THEN Ignored
     ELSE /\ sources' = [sources EXCEPT ![k] = {}]
          /\ LET pulls1 == [pulls EXCEPT ![p] = @ \ {k}] IN
             IF InTransition
             THEN Advance([transition EXCEPT !.old = @ \ {k}], pulls1, phase, root, retained)
             ELSE /\ pulls' = pulls1
                  /\ UNCHANGED <<root, retained, transition, started, pullRoot, pullRelay, phase>>
          /\ UNCHANGED <<relaysOf, roots, cancelled, told, retries>>
  /\ UNCHANGED <<leases, deferred, active, remote>>

-----------------------------------------------------------------------------
(* Pulls: run_pull, run_pull_inner, cancel_pull                              *)

Send(c) == commands' = Append(commands, c)
OnlyPhase(k, to) ==
  /\ phase' = [phase EXCEPT ![k] = to]
  /\ UNCHANGED <<started, pullRoot, pullRelay, cancelled>>

\* handle.ok(): the upstream accepts
Accepted(k) ==
  /\ phase[k] = "opening"
  /\ OnlyPhase(k, "open")
  /\ UNCHANGED <<leases, commands, runner, told, retries, remote>>

\* Rejected or OpenFailed: try again after a backoff
Rejected(k) ==
  /\ phase[k] = "opening" /\ retries < MaxRetries
  /\ retries' = retries + 1
  /\ OnlyPhase(k, "backoff")
  /\ UNCHANGED <<leases, commands, runner, told, remote>>

Retry(k) ==
  /\ phase[k] = "backoff"
  /\ OnlyPhase(k, "opening")
  /\ UNCHANGED <<leases, commands, runner, told, retries, remote>>

\* handle.next(): the namespaces under the prefix, and what changes in them
Event(k, n) ==
  /\ phase[k] = "open"
  /\ Covering!Covers(pullRoot[k], n)
  /\ (n \in upstream[pullRelay[k]]) # (n \in told[k])
  /\ told' = [told EXCEPT ![k] = IF n \in @ THEN @ \ {n} ELSE @ \cup {n}]
  /\ Send([kind |-> "event", pull |-> k, ns |-> n, added |-> n \notin told[k]])
  /\ UNCHANGED <<leases, runner, started, pullRoot, pullRelay, phase, cancelled, retries, remote>>

\* The session or the stream ends: Ended, which is not retried.
StreamEnds(k) ==
  /\ phase[k] = "open"
  /\ OnlyPhase(k, "gone")
  /\ Send([kind |-> "ended", pull |-> k])
  /\ UNCHANGED <<leases, runner, told, retries, remote>>

\* Mutant: the backoff does not listen.
Hears_NotInBackoff(k) == cancelled[k] /\ phase[k] \in {"opening", "open"}

Hears(k) == cancelled[k] /\ phase[k] \in {"opening", "open", "backoff"}

\* The cancel signal: before there is a request the pull just ends; else it
\* finishes the request and drains what the upstream still sends.
Cancelled(k) ==
  /\ Hears(k)
  /\ \/ phase[k] # "backoff" /\ OnlyPhase(k, "draining") /\ UNCHANGED commands
     \/ phase[k] # "open" /\ OnlyPhase(k, "gone") /\ Send([kind |-> "ended", pull |-> k])
  /\ UNCHANGED <<leases, runner, told, retries, remote>>

\* The upstream has closed its side, or the timeout resets the stream.
Drained(k) ==
  /\ phase[k] = "draining"
  /\ OnlyPhase(k, "gone")
  /\ Send([kind |-> "ended", pull |-> k])
  /\ UNCHANGED <<leases, runner, told, retries, remote>>

\* A namespace comes or goes at an upstream relay.
UpstreamChanges(r, n) ==
  /\ changes < MaxChanges
  /\ changes' = changes + 1
  /\ upstream' = [upstream EXCEPT ![r] = IF n \in @ THEN @ \ {n} ELSE @ \cup {n}]
  /\ UNCHANGED <<leases, commands, runner, tasks>>

-----------------------------------------------------------------------------
Runner == Defer \/ AddInterest \/ RemoveInterest \/ PullEvent \/ PullEnded

Pull(k) == Accepted(k) \/ Retry(k) \/ Cancelled(k) \/ Drained(k)

Next ==
  \/ \E p \in Prefixes : ShareLease(p) \/ NewLease(p)
  \/ \E g \in Gens : Release(g) \/ DropInterest(g)
  \/ Runner
  \/ \E k \in Pulls :
       Pull(k) \/ Rejected(k) \/ StreamEnds(k) \/ \E n \in Namespaces : Event(k, n)
  \/ \E r \in Relays, n \in Namespaces : UpstreamChanges(r, n)

Spec == Init /\ [][Next]_vars

\* The runner is a task of the relay, and so is each pull; the drain of a
\* cancelled pull has a timeout, so it ends whatever the upstream does.
Fairness ==
  /\ WF_vars(Runner)
  /\ \A k \in Pulls : WF_vars(Cancelled(k)) /\ WF_vars(Drained(k))

LiveSpec == Spec /\ Fairness

-----------------------------------------------------------------------------
TypeOK ==
  /\ slot \in [Prefixes -> Gens \cup {None}]
  /\ holders \in [Gens -> 0 .. MaxHolders]
  /\ life \in [Gens -> {"none", "live", "dropping", "dead"}]
  /\ active \in [Prefixes -> Gens \cup {None}]
  /\ roots \subseteq Prefixes
  /\ root \in [Prefixes -> {"none", "live", "retiring"}]
  /\ \A p \in Prefixes : pulls[p] \subseteq {k \in 1 .. started : pullRoot[k] = p}
  /\ \A k \in Pulls : sources[k] # {} => k \in pulls[pullRoot[k]]
  /\ transition.old \subseteq {k \in Pulls : cancelled[k]}
  /\ phase \in [Pulls -> {"none", "opening", "open", "backoff", "draining", "gone"}]

(* upstream_namespaces.rs:80-104, 152-206, 345-390: once the runner has      *)
(* nothing to do, it is interested in exactly the prefixes that are leased,  *)
(* however the last drop of a lease races the next subscribe of its prefix.  *)
InterestsFollowLeases ==
  ( /\ commands = <<>> /\ deferred = <<>>
    /\ \A g \in Gens : life[g] # "dropping" )
  => Interests = {p \in Prefixes : \E g \in Gens : life[g] = "live" /\ prefixOf[g] = p}

(* covering_prefix_set.rs: the runner drives the covering set as its         *)
(* specification says.                                                       *)
ImplementsCovering == Covering!Spec

(* upstream_namespaces.rs:392-501, 677-695: with no transition under way the *)
(* runner has a live root for each root prefix, and nothing else.            *)
RootsAreServed ==
  ~InTransition => \A p \in Prefixes : root[p] = IF p \in roots THEN "live" ELSE "none"

Opened(k) == phase[k] \in {"opening", "open", "draining"}

(* upstream_namespaces.rs:665-675, 738-748: a relay never has two requests   *)
(* of ours open at once whose prefixes overlap, which it would reject.       *)
NoOverlapAtRelay ==
  \A k, l \in Pulls :
    ( k # l /\ Opened(k) /\ Opened(l) /\ pullRelay[k] = pullRelay[l] )
      => ~Covering!Overlaps(pullRoot[k], pullRoot[l])

(* upstream_namespaces.rs:428-447, 750-771: a change of roots withdraws no   *)
(* namespace that a root still covers.                                       *)
TransitionKeepsKnown ==
  [][ (roots' # roots)
        => \A n \in Registered :
             (\E p \in roots' : Covering!Covers(p, n)) => n \in Registered' ]_vars

(* upstream_namespaces.rs:587-627: when nothing is on its way, what a pull   *)
(* was told is registered for it, and nothing else is.                       *)
SourcesFollowPull ==
  \A k \in Pulls :
    ( /\ phase[k] = "open" /\ ~cancelled[k]
      /\ \A i \in DOMAIN commands : commands[i].kind = "event" => commands[i].pull # k )
      => sources[k] = told[k]

(* upstream_namespaces.rs:677-695: a transition ends, and deferred interests *)
(* are then served, whatever the upstream relays do.                         *)
TransitionsEnd == InTransition ~> ~InTransition

-----------------------------------------------------------------------------
(* What a comment of the code says, and the code does not do                 *)

(* upstream_namespaces.rs:795-797: "no upstream namespace sources are ever   *)
(* left registered across attempts".                                         *)
NothingLeftAcrossAttempts ==
  \A k \in Pulls : phase[k] = "backoff" => HadOf(pullRoot[k]) = {}
=============================================================================
