---------------------------- MODULE LocalTracks ----------------------------
(***************************************************************************)
(* The tracks a relay has (moq-relay-ietf local.rs, the `tracks` map of    *)
(* Locals).  An entry is a published track, owned by the handler of a      *)
(* PUBLISH (consumer.rs serve_track), or a cached one that the first       *)
(* SUBSCRIBE reserved and asked of the PUBLISH_NAMESPACE that covers it    *)
(* (consumer.rs serve).  SUBSCRIBE_NAMESPACE handlers follow the published *)
(* ones and PUBLISH them to their peer (producer.rs).  The operations key  *)
(* everything by the full track name: the model has one, and changes of    *)
(* other tracks that fill the channel.                                     *)
(***************************************************************************)
EXTENDS Naturals, Sequences, FiniteSets

CONSTANTS
  Callers,        \* calls of get_or_request_track
  Followers,      \* SUBSCRIBE_NAMESPACE handlers that want PUBLISH
  MaxTracks,      \* how many tracks are produced under the name
  MaxPublishers,  \* how many PUBLISH_NAMESPACEs come, one after the other
  MaxOther,       \* how many changes of other tracks are sent
  QueueCapacity,  \* NAMESPACE_REQUEST_CHANNEL_CAPACITY
  LogCapacity     \* TRACK_CHANGE_CHANNEL_CAPACITY

Tracks == 1 .. MaxTracks
Publishers == 1 .. MaxPublishers
Absent == 0

LocalTracksAssumption ==
  /\ MaxTracks \in Nat /\ MaxPublishers \in Nat /\ MaxOther \in Nat
  /\ QueueCapacity \in Nat \ {0} /\ LogCapacity \in Nat \ {0}

VARIABLES
  produced,    \* how many tracks there have been
  open,        \* those whose writer lives: TrackReader::is_closed is false
  entry,       \* the track the map holds
  published,   \* tracks that came by PUBLISH
  owned,       \* those whose LocalTrackRegistration lives
  sources,     \* how many PUBLISH_NAMESPACEs there have been
  route,       \* the one the namespace map routes to
  receiving,   \* those whose request receiver lives
  queue,       \* source -> the writers sent to it
  asked,       \* source -> the tracks it was SUBSCRIBEd to
  pc,          \* caller -> how far it has come
  given,       \* caller -> the track it is to send, or was given
  via,         \* caller -> the source it found
  removals,    \* removals made and not announced yet
  trackLog,    \* what was sent on track_changes
  follower,    \* follower -> how far it has come
  position,    \* follower -> the changes it has received or missed
  knownTrack,  \* follower -> whether known_tracks has the name
  serving,     \* follower -> the track its session publishes under the name
  peerAsked,   \* follower -> whether its peer SUBSCRIBEs the name itself: "no", "yes", "was"
  informed,    \* follower -> the tracks it PUBLISHed to its peer
  passedOver   \* follower -> the tracks it came to when the name was known or taken

map == <<produced, open, entry, published, owned>>
namespace == <<sources, route, receiving, queue, asked>>
calls == <<pc, given, via>>
changes == <<removals, trackLog>>
peer == <<knownTrack, serving, informed, passedOver>>
following == <<follower, position, peerAsked, peer>>
trackVars == <<map, namespace, calls, changes, following>>

TracksInit ==
  /\ produced = 0 /\ open = {} /\ entry = Absent /\ published = {} /\ owned = {}
  /\ sources = 0 /\ route = Absent /\ receiving = {}
  /\ queue = [s \in Publishers |-> <<>>] /\ asked = [s \in Publishers |-> {}]
  /\ pc = [c \in Callers |-> "look"] /\ given = [c \in Callers |-> Absent]
  /\ via = [c \in Callers |-> Absent]
  /\ removals = {} /\ trackLog = <<>>
  /\ follower = [w \in Followers |-> "off"] /\ position = [w \in Followers |-> 0]
  /\ knownTrack = [w \in Followers |-> FALSE] /\ serving = [w \in Followers |-> Absent]
  /\ peerAsked = [w \in Followers |-> "no"]
  /\ informed = [w \in Followers |-> {}] /\ passedOver = [w \in Followers |-> {}]

Closed(t) == t # Absent /\ t \notin open

Elements(q) == {q[i] : i \in DOMAIN q}

-----------------------------------------------------------------------------
(* PUBLISH: Consumer::serve_track                                          *)

\* Locals::register_track, a track under a name that is taken is refused;
\* the addition is sent while the lock is held.
RegisterTrack ==
  /\ produced < MaxTracks /\ entry = Absent
  /\ LET t == produced + 1 IN
     /\ produced' = t /\ entry' = t
     /\ open' = open \cup {t} /\ published' = published \cup {t}
     /\ owned' = owned \cup {t}
     /\ trackLog' = Append(trackLog, [added |-> TRUE, track |-> t])
  /\ UNCHANGED <<namespace, calls, removals, following>>

\* LocalTrackRegistration::drop, whatever the entry holds by then.
DropTrack(t) ==
  /\ t \in owned
  /\ owned' = owned \ {t}
  /\ entry' = Absent
  /\ removals' = IF entry = Absent THEN removals ELSE removals \cup {t}
  /\ UNCHANGED <<produced, open, published, namespace, calls, trackLog, following>>

\* The removal is sent after the lock is released.
SendRemoved(t) ==
  /\ t \in removals
  /\ removals' = removals \ {t}
  /\ trackLog' = Append(trackLog, [added |-> FALSE, track |-> t])
  /\ UNCHANGED <<map, namespace, calls, following>>

\* An addition of another track: it counts only against the bound of the channel.
OtherChange ==
  /\ Cardinality({i \in DOMAIN trackLog : trackLog[i].track = Absent}) < MaxOther
  /\ trackLog' = Append(trackLog, [added |-> TRUE, track |-> Absent])
  /\ UNCHANGED <<map, namespace, calls, removals, following>>

\* The writer goes: PUBLISH_DONE, or the upstream subscription or session ended.
CloseTrack(t) ==
  /\ t \in open
  /\ t \in published \/ \E s \in Publishers : t \in asked[s]
  /\ open' = open \ {t}
  /\ UNCHANGED <<produced, entry, published, owned, namespace, calls, changes, following>>

-----------------------------------------------------------------------------
(* PUBLISH_NAMESPACE: Consumer::serve                                      *)

\* register_namespace_with_fetch
RegisterNamespace ==
  /\ sources < MaxPublishers /\ route = Absent
  /\ sources' = sources + 1 /\ route' = sources + 1
  /\ receiving' = receiving \cup {sources + 1}
  /\ UNCHANGED <<queue, asked, map, calls, changes, following>>

\* requests.recv(), then Subscriber::subscribe with the writer
TakeRequest(s) ==
  /\ s \in receiving /\ queue[s] # <<>>
  /\ queue' = [queue EXCEPT ![s] = Tail(@)]
  /\ asked' = [asked EXCEPT ![s] = @ \cup {Head(queue[s])}]
  /\ UNCHANGED <<sources, route, receiving, map, calls, changes, following>>

\* published_ns.closed(): the receiver is dropped, with the writers in it ...
CloseReceiver(s) ==
  /\ s \in receiving
  /\ receiving' = receiving \ {s}
  /\ open' = open \ Elements(queue[s])
  /\ queue' = [queue EXCEPT ![s] = <<>>]
  /\ UNCHANGED <<produced, entry, published, owned, sources, route, asked, calls, changes, following>>

\* ... and the registration after it.
DropNamespace ==
  /\ route # Absent /\ route \notin receiving
  /\ route' = Absent
  /\ UNCHANGED <<sources, receiving, queue, asked, map, calls, changes, following>>

-----------------------------------------------------------------------------
(* Locals::get_or_request_track                                            *)

Goto(c, to) == pc' = [pc EXCEPT ![c] = to]

Give(c, t) == Goto(c, "got") /\ given' = [given EXCEPT ![c] = t]

\* retrieve_track, under the read lock
Look(c) ==
  /\ pc[c] = "look"
  /\ IF entry \in open THEN Give(c, entry)
     ELSE Goto(c, IF entry = Absent THEN "route" ELSE "prune") /\ UNCHANGED given
  /\ UNCHANGED <<map, namespace, via, changes, following>>

\* Mutant: what was closed under the read lock is removed under the write lock.
PruneClosed_Blind == entry' = Absent

\* prune_closed_tracks, under the write lock
PruneClosed == entry' = IF Closed(entry) THEN Absent ELSE entry

Prune(c) ==
  /\ pc[c] = "prune"
  /\ PruneClosed
  /\ Goto(c, "route")
  /\ UNCHANGED <<produced, open, published, owned, namespace, given, via, changes, following>>

\* route_namespace
Route(c) ==
  /\ pc[c] = "route"
  /\ via' = [via EXCEPT ![c] = route]
  /\ Goto(c, IF route = Absent THEN "none" ELSE "reserve")
  /\ UNCHANGED <<map, namespace, given, changes, following>>

\* Mutant: the slot is taken whoever has it.
ReserveTrack_Overwrites(c) ==
  /\ pc[c] = "reserve"
  /\ produced < MaxTracks
  /\ produced' = produced + 1
  /\ entry' = produced + 1 /\ open' = open \cup {produced + 1}
  /\ given' = [given EXCEPT ![c] = produced + 1]
  /\ Goto(c, "send")
  /\ UNCHANGED <<published, owned, namespace, via, changes, following>>

\* Share the reader of the slot, or claim the slot with a fresh track.
ReserveTrack(c) ==
  /\ pc[c] = "reserve"
  /\ IF entry \in open
     THEN Give(c, entry) /\ UNCHANGED map
     ELSE /\ produced < MaxTracks
          /\ produced' = produced + 1
          /\ entry' = produced + 1 /\ open' = open \cup {produced + 1}
          /\ given' = [given EXCEPT ![c] = produced + 1]
          /\ Goto(c, "send")
          /\ UNCHANGED <<published, owned>>
  /\ UNCHANGED <<namespace, via, changes, following>>

\* source.requests.send(writer).await, which waits while the channel is full
SendRequest(c) ==
  /\ pc[c] = "send" /\ via[c] \in receiving
  /\ Len(queue[via[c]]) < QueueCapacity
  /\ queue' = [queue EXCEPT ![via[c]] = Append(@, given[c])]
  /\ Goto(c, "got")
  /\ UNCHANGED <<sources, route, receiving, asked, map, given, via, changes, following>>

\* Mutant: the failure is noticed when the registration has gone, too.
SendFails_Late(c) ==
  /\ pc[c] = "send" /\ via[c] \notin receiving /\ route = Absent
  /\ open' = open \ {given[c]}
  /\ Goto(c, "remove")
  /\ UNCHANGED <<produced, entry, published, owned, namespace, given, via, changes, following>>

\* The receiver has gone, and the writer goes with the error ...
SendFails(c) ==
  /\ pc[c] = "send" /\ via[c] \notin receiving
  /\ open' = open \ {given[c]}
  /\ Goto(c, "remove")
  /\ UNCHANGED <<produced, entry, published, owned, namespace, given, via, changes, following>>

\* ... then the slot is emptied, whoever has it.
RemoveTrack(c) ==
  /\ pc[c] = "remove"
  /\ entry' = Absent
  /\ Goto(c, "none")
  /\ UNCHANGED <<produced, open, published, owned, namespace, given, via, changes, following>>

\* The subscriber's session ends while the call waits: the writer goes with it.
CancelCall(c) ==
  /\ pc[c] = "send"
  /\ open' = open \ {given[c]}
  /\ Goto(c, "cancelled")
  /\ UNCHANGED <<produced, entry, published, owned, namespace, given, via, changes, following>>

-----------------------------------------------------------------------------
(* Producer::serve_subscribe_namespace, the PUBLISH half                   *)

\* Publisher::publish is refused as a Duplicate: the peer SUBSCRIBEd the name, or the session still
\* publishes a track under it.
NameTaken(w) == peerAsked[w] = "yes" \/ serving[w] # Absent

\* publish_track_for_namespace: a name that is known or taken is skipped.
PublishTrack(w, t) ==
  IF knownTrack[w] \/ NameTaken(w)
  THEN passedOver' = [passedOver EXCEPT ![w] = @ \cup {t}] /\ UNCHANGED <<knownTrack, serving, informed>>
  ELSE /\ knownTrack' = [knownTrack EXCEPT ![w] = TRUE] /\ serving' = [serving EXCEPT ![w] = t]
       /\ informed' = [informed EXCEPT ![w] = @ \cup {t}] /\ UNCHANGED passedOver

Forget(w) == knownTrack' = [knownTrack EXCEPT ![w] = FALSE] /\ UNCHANGED <<serving, informed, passedOver>>

\* list_tracks_matching: the published track if it is open; a closed one is
\* pruned once the read lock is released.
ListedTracks == IF entry \in open \cap published THEN {entry} ELSE {}

AfterList(w) == follower' = [follower EXCEPT ![w] = IF Closed(entry) THEN "prune" ELSE "on"]

\* subscribe_track_changes
FollowTracks(w) ==
  /\ follower[w] = "off"
  /\ follower' = [follower EXCEPT ![w] = "subscribed"]
  /\ position' = [position EXCEPT ![w] = Len(trackLog)]
  /\ UNCHANGED <<map, namespace, calls, changes, peerAsked, peer>>

\* send_publish_snapshot
SnapshotTracks(w) ==
  /\ follower[w] = "subscribed"
  /\ AfterList(w)
  /\ IF ListedTracks = {} THEN UNCHANGED peer ELSE PublishTrack(w, entry)
  /\ UNCHANGED <<map, namespace, calls, changes, position, peerAsked>>

PruneListed(w) ==
  /\ follower[w] = "prune"
  /\ PruneClosed
  /\ follower' = [follower EXCEPT ![w] = "on"]
  /\ UNCHANGED <<produced, open, published, owned, namespace, calls, changes, position, peerAsked, peer>>

\* apply_track_change
ApplyTrackChange(w, change) ==
  IF change.track = Absent THEN UNCHANGED peer
  ELSE IF change.added THEN PublishTrack(w, change.track) ELSE Forget(w)

\* Mutant: what has gone is forgotten, what is new is left to the next change.
ResyncTracks_Forgets(w) ==
  IF ListedTracks = {} THEN Forget(w) ELSE UNCHANGED peer

\* resync_publish_tracks: publish what is new, forget what has gone
ResyncTracks(w) ==
  IF ListedTracks = {} THEN Forget(w) ELSE PublishTrack(w, entry)

\* serve_subscribe_namespace_loop: the next change, or Lagged
RecvTrackChange(w) ==
  /\ follower[w] = "on" /\ position[w] < Len(trackLog)
  /\ IF Len(trackLog) - position[w] > LogCapacity
     THEN /\ ResyncTracks(w) /\ AfterList(w)
          /\ position' = [position EXCEPT ![w] = Len(trackLog) - LogCapacity]
     ELSE /\ ApplyTrackChange(w, trackLog[position[w] + 1]) /\ UNCHANGED follower
          /\ position' = [position EXCEPT ![w] = @ + 1]
  /\ UNCHANGED <<map, namespace, calls, changes, peerAsked>>

\* publish_tasks.next(): Published::serve has sent what the track had, or the peer refused it or
\* UNSUBSCRIBEd, and the handle is dropped.
ServeEnds(w) ==
  /\ follower[w] = "on" /\ serving[w] # Absent
  /\ serving' = [serving EXCEPT ![w] = Absent]
  /\ UNCHANGED <<map, namespace, calls, changes, follower, position, peerAsked, knownTrack, informed, passedOver>>

\* closed(), or TooManyRequests from publish, also of the snapshot: publish_tasks goes with the handler.
HandlerEnds(w) ==
  /\ follower[w] = "on" \/ (follower[w] = "subscribed" /\ ListedTracks # {} /\ ~NameTaken(w))
  /\ follower' = [follower EXCEPT ![w] = "ended"]
  /\ serving' = [serving EXCEPT ![w] = Absent]
  /\ UNCHANGED <<map, namespace, calls, changes, position, peerAsked, knownTrack, informed, passedOver>>

\* recv_subscribe for the name, refused while the session publishes it; the subscription ends.  What
\* the peer does once the handler has ended is left out.
PeerSubscribes(w) ==
  /\ follower[w] # "ended"
  /\ \/ ~NameTaken(w) /\ peerAsked' = [peerAsked EXCEPT ![w] = "yes"]
     \/ peerAsked[w] = "yes" /\ peerAsked' = [peerAsked EXCEPT ![w] = "was"]
  /\ UNCHANGED <<map, namespace, calls, changes, follower, position, peer>>

CallStep(c) ==
  \/ Look(c) \/ Prune(c) \/ Route(c) \/ ReserveTrack(c)
  \/ SendRequest(c) \/ SendFails(c) \/ RemoveTrack(c)

TracksNext ==
  \/ RegisterTrack \/ OtherChange
  \/ \E t \in Tracks : DropTrack(t) \/ SendRemoved(t) \/ CloseTrack(t)
  \/ RegisterNamespace \/ DropNamespace
  \/ \E s \in Publishers : TakeRequest(s) \/ CloseReceiver(s)
  \/ \E c \in Callers : CallStep(c) \/ CancelCall(c)
  \/ \E w \in Followers :
       \/ FollowTracks(w) \/ SnapshotTracks(w) \/ PruneListed(w) \/ RecvTrackChange(w)
       \/ ServeEnds(w) \/ HandlerEnds(w) \/ PeerSubscribes(w)

TracksSpec == TracksInit /\ [][TracksNext]_trackVars

\* Tasks that can run do: the caller, and the loop of Consumer::serve, which
\* drains its requests while it lives.
TracksFairness ==
  /\ \A c \in Callers : WF_trackVars(CallStep(c))
  /\ \A s \in Publishers : WF_trackVars(TakeRequest(s))

TracksLiveSpec == TracksSpec /\ TracksFairness

-----------------------------------------------------------------------------
TracksTypeOK ==
  /\ produced \in 0 .. MaxTracks /\ entry \in 0 .. produced
  /\ open \subseteq 1 .. produced /\ published \subseteq 1 .. produced
  /\ owned \subseteq published
  /\ sources \in 0 .. MaxPublishers /\ route \in 0 .. sources
  /\ receiving \subseteq 1 .. sources
  /\ \A s \in Publishers : Len(queue[s]) <= QueueCapacity /\ Elements(queue[s]) \subseteq open
  /\ pc \in [Callers -> {"look", "prune", "route", "reserve", "send", "remove", "got", "none", "cancelled"}]
  /\ \A c \in Callers : given[c] \in 0 .. produced /\ via[c] \in 0 .. sources
  /\ follower \in [Followers -> {"off", "subscribed", "prune", "on", "ended"}]
  /\ \A w \in Followers : position[w] \in 0 .. Len(trackLog) /\ serving[w] \in 0 .. produced
  /\ knownTrack \in [Followers -> BOOLEAN] /\ peerAsked \in [Followers -> {"no", "yes", "was"}]
  /\ informed \in [Followers -> SUBSET published] /\ passedOver \in [Followers -> SUBSET published]

(* local.rs:213-219, 449-453: a live entry goes only with the registration of *)
(* a published track or after a request that could not be sent.  Pruning      *)
(* never takes it, though the entry was seen closed under another lock.       *)
PruneSparesLive ==
  [][ (entry \in open /\ entry \in open' /\ entry' # entry)
        => \/ owned' # owned
           \/ \E c \in Callers : pc[c] = "remove" /\ pc'[c] = "none" ]_trackVars

(* local.rs:513-517, 957-959: a caller is refused only where no namespace     *)
(* covered the track when it asked, or the source it found has gone: never    *)
(* because another caller was faster.                                         *)
NoSpuriousNone ==
  \A c \in Callers : pc[c] = "none" => via[c] = Absent \/ via[c] \notin receiving

(* local.rs:513-517: while no registration is dropped and no request fails,   *)
(* callers of one source share one reader, and a track is asked for once.     *)
CallersShare ==
  \A c, d \in Callers :
    ( /\ pc[c] \in {"send", "got"} /\ pc[d] \in {"send", "got"}
      /\ {given[c], given[d]} \subseteq open
      /\ published = {} /\ \A e \in Callers : pc[e] # "remove"
      /\ receiving = 1 .. sources )
    => given[c] = given[d]

(* local.rs:505-560: what concurrent callers of get_or_request_track may    *)
(* rely on.                                                                  *)
CallersServed == NoSpuriousNone /\ CallersShare

(* local.rs:543: a call ends, with a reader or without, though the channel is *)
(* full or its receiver goes while it waits.                                  *)
CallReturns ==
  \A c \in Callers : pc[c] = "send" ~> pc[c] # "send"

(* producer.rs:440-480, 608-677: a watcher that has caught up while its       *)
(* handler lives came to the track that is registered, in the snapshot, in a  *)
(* change, or after it lost changes, and PUBLISHed it to its peer.  It passed *)
(* it over only if it had PUBLISHed an earlier one of the name, whose removal *)
(* is not announced yet or was missed, or if the peer SUBSCRIBEd the name.    *)
TrackReaches ==
  \A w \in Followers :
    follower[w] = "on" /\ position[w] = Len(trackLog) /\ entry \in open \cap published =>
      \/ entry \in informed[w]
      \/ entry \in passedOver[w] /\ (peerAsked[w] # "no" \/ \E t \in informed[w] : t < entry)

-----------------------------------------------------------------------------
(* What tests of the code say, and the code does not do                    *)

(* local.rs:858, the test register_track_makes_exact_track_retrievable_until_drop. *)
RetrievableUntilDrop ==
  \A t \in owned \cap open : entry = t

(* local.rs:957-959: "the source must see exactly one request" of those that  *)
(* miss the cache at once; here where nothing was published under the name.   *)
OneRequest ==
  published = {} => \A s \in receiving : Cardinality((Elements(queue[s]) \cup asked[s]) \cap open) <= 1

(* local.rs:1234, the test track_changes_reports_register_and_drop: when a    *)
(* registration has been dropped its removal is reported.                     *)
DropIsReported ==
  (owned = {} /\ removals = {} /\ published # {})
    => \E i \in DOMAIN trackLog : ~trackLog[i].added
=============================================================================
