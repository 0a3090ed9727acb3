------------------------------ MODULE MCUpstream ------------------------------
(* What the relay keeps towards other relays: the broadest prefixes, the      *)
(* namespaces it pulls, the pool of connections and the tracks of one of      *)
(* them.  They are modelled with no common variable: a behaviour runs one of  *)
(* Parts, the others rest in an initial state.                                *)
EXTENDS CoveringPrefixSet, RemoteConnections

CONSTANTS
  Parts,                                                           \* the components that run
  Relays, MaxLeases, MaxHolders, MaxPulls, MaxChanges, MaxRetries, \* UpstreamNamespaces
  TrackSlots, Subs, MaxTrackCalls                                  \* RemoteTracks

VARIABLES
  part,
  slot, prefixOf, holders, life, commands, deferred, upActive, upRoots, root, relaysOf, pulls,
  sources, retained, transition, started, pullRoot, pullRelay, phase, upCancelled, told, retries,
  upstream, changes,
  tSession, tConnected, tCancelled, clearing, tCurrent, tCached, tLock, sub, task, tHome,
  tRetained, tPc, tMySlot, mySub, tCalls, abandoned

\* Two branches, three levels and the empty prefix.
AllPrefixes ==
  { <<>>, <<"foo">>, <<"foo", "a">>, <<"foo", "b">>, <<"foo", "a", "c">>,
    <<"foo", "a", "d">>, <<"bar">>, <<"bar", "a">> }
AllFields == {"foo", "bar", "a", "b", "c", "d"}

\* A prefix, one below it, and a namespace that both cover.
Pull == INSTANCE UpstreamNamespacesProofs WITH
  Fields <- {"foo", "a"}, Prefixes <- { <<"foo">>, <<"foo", "a">> },
  Namespaces <- { <<"foo", "a">> },
  active <- upActive, roots <- upRoots, cancelled <- upCancelled

\* A call opens one subscription at most.
Shared == INSTANCE RemoteTracks WITH
  Slots <- TrackSlots, MaxCalls <- MaxTrackCalls, session <- tSession,
  connected <- tConnected, cancelled <- tCancelled, current <- tCurrent, cached <- tCached,
  lock <- tLock, home <- tHome, retained <- tRetained, pc <- tPc, mySlot <- tMySlot,
  calls <- tCalls

ASSUME UpstreamAssumption ==
  /\ Parts \subseteq {"covering", "pull", "pool", "shared"}
  /\ PrefixesAssumption /\ Pull!UpstreamNamespacesAssumption
  /\ RemoteConnectionsAssumption /\ Shared!RemoteTracksAssumption

pullVars == <<slot, prefixOf, holders, life, commands, deferred, upActive, upRoots, root,
              relaysOf, pulls, sources, retained, transition, started, pullRoot, pullRelay,
              phase, upCancelled, told, retries, upstream, changes>>
sharedVars == <<tSession, tConnected, tCancelled, clearing, tCurrent, tCached, tLock, sub, task,
                tHome, tRetained, tPc, tMySlot, mySub, tCalls, abandoned>>
UpstreamVars == <<part, vars, pullVars, poolVars, sharedVars>>

\* While pulls rest, the upstream relays have no namespace.
UpstreamInit ==
  /\ part \in Parts
  /\ Init /\ Pull!Init /\ PoolInit /\ Shared!Init
  /\ part = "pull" \/ \A r \in Relays : upstream[r] = {}

\* Part p runs, the others rest.
Runs(p) ==
  /\ part = p /\ UNCHANGED part
  /\ IF p = "covering" THEN TRUE ELSE UNCHANGED vars
  /\ IF p = "pull" THEN TRUE ELSE UNCHANGED pullVars
  /\ IF p = "pool" THEN TRUE ELSE UNCHANGED poolVars
  /\ IF p = "shared" THEN TRUE ELSE UNCHANGED sharedVars

UpstreamNext ==
  \/ Runs("covering") /\ Next
  \/ Runs("pull") /\ Pull!Next
  \/ Runs("pool") /\ PoolNext
  \/ Runs("shared") /\ Shared!Next

UpstreamSpec == UpstreamInit /\ [][UpstreamNext]_UpstreamVars

\* Of the component that rests no fair step is enabled.
UpstreamLiveSpec == UpstreamSpec /\ Pull!Fairness /\ PoolFairness

-----------------------------------------------------------------------------
(* The types of the component that runs (covering_prefix_set.rs,              *)
(* upstream_namespaces.rs, remote.rs).                                        *)
UpstreamTypeOK ==
  CASE part = "covering" -> TypeOK
    [] part = "pull"     -> Pull!TypeOK
    [] part = "pool"     -> PoolTypeOK
    [] part = "shared"   -> Shared!TypeOK

(* UpstreamNamespaces: the interests are those of the leases, every root is   *)
(* pulled, what is registered for a pull is what it was told, and no relay    *)
(* sees two overlapping SUBSCRIBE_NAMESPACEs (upstream_namespaces.rs).  Every *)
(* component keeps its types.                                                 *)
LeasesServed ==
  /\ UpstreamTypeOK
  /\ Pull!InterestsFollowLeases /\ Pull!RootsAreServed /\ Pull!SourcesFollowPull
  /\ Pull!NoOverlapAtRelay

(* UpstreamNamespaces implements CoveringPrefixSet, and a step that changes   *)
(* the roots keeps what was discovered and they still cover                   *)
(* (upstream_namespaces.rs).                                                  *)
ImplementsCovering == Pull!ImplementsCovering /\ Pull!TransitionKeepsKnown

(* RemoteTracks: while the connection is up the calls for one track share one *)
(* upstream subscription; an open one is in the map, and empty slots are      *)
(* taken out of it (remote.rs).                                               *)
OneSubscription == Shared!OneSubscription /\ Shared!OpenIsShared /\ Shared!SlotsReclaimed

(* UpstreamNamespaces, RemoteConnections: every change of roots ends, and so  *)
(* does every call and every shutdown of the pool (upstream_namespaces.rs,    *)
(* remote.rs).                                                                *)
UpstreamSettles == Pull!TransitionsEnd /\ ComesToRest
=============================================================================
