------------------------------- MODULE Tracks -------------------------------
(***************************************************************************)
(* The tracks of one broadcast (serve/tracks.rs): a cache of TrackReaders  *)
(* by name shared by TracksWriter, TracksRequest and TracksReader clones,  *)
(* and the queue of requested tracks, whose close() is two steps           *)
(* (watch/queue.rs).  Track number n is the n-th one made; its writer      *)
(* waits in the queue, is held by a task, or is gone.                      *)
(*                                                                         *)
(* A pop that sleeps although the queue is not empty is WatchQueue's       *)
(* subject; here the publisher may pop whenever there is an item.          *)
(***************************************************************************)
EXTENDS Naturals, Sequences

CONSTANTS
  Names,        \* track names
  Subscribers,  \* tasks with a clone of the TracksReader
  MaxTracks     \* bound: tracks made

SE == INSTANCE SequencesExt

NoTrack == 0

TracksAssumption == MaxTracks \in Nat

VARIABLES
  tracks,       \* every track made: its name and where its writer is
  cache,        \* TracksState::tracks, by name
  queue,        \* the requests nobody has taken
  request,      \* TracksRequest: "live", "drained" (inside drop), "gone"
  drained,      \* tracks drop() took out of the queue and has to close
  writer,       \* the TracksWriter is alive
  sub,          \* what each subscriber is doing, and with which track
  displaced     \* history: open tracks that create() or remove() pushed out

vars == <<tracks, cache, queue, request, drained, writer, sub, displaced>>

Numbers == 1 .. Len(tracks)
Open(n) == tracks[n].writer # "gone"

\* A TracksReader is alive (readers keep theirs until they leave).
Held == \E s \in Subscribers : sub[s].at # "left"

\* TracksState can be changed: one handle of each half is alive.
Mutable == (writer \/ request # "gone") /\ Held

Init ==
  /\ tracks = <<>>
  /\ cache = [n \in Names |-> NoTrack]
  /\ queue = <<>> /\ request = "live" /\ drained = <<>> /\ writer = TRUE
  /\ sub = [s \in Subscribers |-> [at |-> "idle", track |-> NoTrack]]
  /\ displaced = {}

-----------------------------------------------------------------------------
(* Subscribers                                                             *)

\* The name is cached and its track is still open.
Hit(name) == cache[name] # NoTrack /\ Open(cache[name])

\* TracksReader::subscribe and get_track_reader find an open track.
SubscribeHit(s, name) ==
  /\ sub[s].at = "idle"
  /\ Hit(name)
  /\ sub' = [sub EXCEPT ![s] = [at |-> "waiting", track |-> cache[name]]]
  /\ UNCHANGED <<tracks, cache, queue, request, drained, writer, displaced>>

\* The cache after a request was queued.
Remember(name, n) == [cache EXCEPT ![name] = n]

\* TracksReader::subscribe requests the track, all under the cache's lock.
SubscribeMiss(s, name) ==
  /\ sub[s].at = "idle"
  /\ ~Hit(name)
  /\ Mutable /\ request # "gone"
  /\ Len(tracks) < MaxTracks
  /\ tracks' = Append(tracks, [name |-> name, writer |-> "queued"])
  /\ queue' = Append(queue, Len(tracks) + 1)
  /\ cache' = Remember(name, Len(tracks) + 1)
  /\ sub' = [sub EXCEPT ![s] = [at |-> "waiting", track |-> Len(tracks) + 1]]
  /\ UNCHANGED <<request, drained, writer, displaced>>

\* subscribe returns None; a stale entry is evicted when the queue is closed.
SubscribeNone(s, name) ==
  /\ sub[s].at = "idle"
  /\ ~Hit(name)
  /\ ~Mutable \/ request = "gone"
  /\ cache' = IF Mutable THEN [cache EXCEPT ![name] = NoTrack] ELSE cache
  /\ sub' = [sub EXCEPT ![s] = [at |-> "refused", track |-> NoTrack]]
  /\ UNCHANGED <<tracks, queue, request, drained, writer, displaced>>

\* Mutant: only a track with a mode answers.
Answer_ServedOnly(s) ==
  /\ sub[s].at = "waiting"
  /\ tracks[sub[s].track].writer = "serving"
  /\ sub' = [sub EXCEPT ![s].at = "served"]
  /\ UNCHANGED <<tracks, cache, queue, request, drained, writer, displaced>>

\* TrackReader::mode answers the subscriber.
Answer(s) ==
  /\ sub[s].at = "waiting"
  /\ tracks[sub[s].track].writer \in {"serving", "gone"}
  /\ sub' = [sub EXCEPT ![s].at =
       IF tracks[sub[s].track].writer = "serving" THEN "served" ELSE "ended"]
  /\ UNCHANGED <<tracks, cache, queue, request, drained, writer, displaced>>

\* The subscriber gives up its track and may subscribe again.
Unsubscribe(s) ==
  /\ sub[s].at \in {"served", "ended", "refused"}
  /\ sub' = [sub EXCEPT ![s] = [at |-> "idle", track |-> NoTrack]]
  /\ UNCHANGED <<tracks, cache, queue, request, drained, writer, displaced>>

Leave(s) ==
  /\ sub[s].at # "left"
  /\ sub' = [sub EXCEPT ![s] = [at |-> "left", track |-> NoTrack]]
  /\ UNCHANGED <<tracks, cache, queue, request, drained, writer, displaced>>

-----------------------------------------------------------------------------
(* Publisher                                                               *)

\* TracksRequest::next: pop needs both halves of the queue.
NextRequest ==
  /\ request = "live" /\ Held
  /\ queue # <<>>
  /\ tracks' = [tracks EXCEPT ![Head(queue)].writer = "task"]
  /\ queue' = Tail(queue)
  /\ UNCHANGED <<cache, request, drained, writer, sub, displaced>>

\* TracksWriter::create overwrites the cached track.
Create(name) ==
  /\ writer /\ Mutable
  /\ Len(tracks) < MaxTracks
  /\ tracks' = Append(tracks, [name |-> name, writer |-> "task"])
  /\ cache' = [cache EXCEPT ![name] = Len(tracks) + 1]
  /\ displaced' = IF Hit(name) THEN displaced \cup {cache[name]} ELSE displaced
  /\ UNCHANGED <<queue, request, drained, writer, sub>>

\* TracksWriter::remove.
Remove(name) ==
  /\ writer /\ Mutable
  /\ cache[name] # NoTrack
  /\ cache' = [cache EXCEPT ![name] = NoTrack]
  /\ displaced' = IF Hit(name) THEN displaced \cup {cache[name]} ELSE displaced
  /\ UNCHANGED <<tracks, queue, request, drained, writer, sub>>

\* The task with the TrackWriter picks a mode, or ends the track.
Serve(n) ==
  /\ tracks[n].writer = "task"
  /\ tracks' = [tracks EXCEPT ![n].writer = "serving"]
  /\ UNCHANGED <<cache, queue, request, drained, writer, sub, displaced>>

EndTrack(n) ==
  /\ tracks[n].writer \in {"task", "serving"}
  /\ tracks' = [tracks EXCEPT ![n].writer = "gone"]
  /\ UNCHANGED <<cache, queue, request, drained, writer, sub, displaced>>

DropWriter ==
  /\ writer
  /\ writer' = FALSE
  /\ UNCHANGED <<tracks, cache, queue, request, drained, sub, displaced>>

\* TracksRequest::drop, first step: Queue::close drains the queue, which
\* needs the other half.
DropRequestDrain ==
  /\ request = "live"
  /\ request' = "drained"
  /\ drained' = IF Held THEN queue ELSE <<>>
  /\ queue' = IF Held THEN <<>> ELSE queue
  /\ UNCHANGED <<tracks, cache, writer, sub, displaced>>

\* TracksRequest::drop closes what it drained with NotFound.
Finish == [n \in Numbers |->
  IF SE!Contains(drained, n) THEN [tracks[n] EXCEPT !.writer = "gone"]
                          ELSE tracks[n]]

\* Second step: the queue's state is dropped, the drained tracks closed.
DropRequestFinish ==
  /\ request = "drained"
  /\ request' = "gone"
  /\ tracks' = Finish
  /\ drained' = <<>>
  /\ UNCHANGED <<cache, queue, writer, sub, displaced>>

Next ==
  \/ \E s \in Subscribers, n \in Names :
       SubscribeHit(s, n) \/ SubscribeMiss(s, n) \/ SubscribeNone(s, n)
  \/ \E s \in Subscribers : Answer(s) \/ Unsubscribe(s) \/ Leave(s)
  \/ NextRequest \/ DropWriter \/ DropRequestDrain \/ DropRequestFinish
  \/ \E n \in Names : Create(n) \/ Remove(n)
  \/ \E n \in Numbers : Serve(n) \/ EndTrack(n)

\* The publisher takes requests and ends its tracks; subscribers read on.
Fairness ==
  /\ \A s \in Subscribers : WF_vars(Answer(s))
  /\ WF_vars(NextRequest) /\ WF_vars(DropRequestFinish)
  /\ \A n \in 1 .. MaxTracks : WF_vars(n \in Numbers /\ EndTrack(n))

FairSpec == Init /\ [][Next]_vars /\ Fairness

-----------------------------------------------------------------------------
TypeOK ==
  /\ tracks \in Seq([name : Names, writer : {"queued", "task", "serving", "gone"}])
  /\ cache \in [Names -> 0 .. Len(tracks)]
  /\ queue \in Seq(Numbers) /\ drained \in Seq(Numbers)
  /\ request \in {"live", "drained", "gone"}
  /\ writer \in BOOLEAN
  /\ sub \in [Subscribers -> [at : {"idle", "waiting", "served", "ended", "refused", "left"},
                              track : 0 .. Len(tracks)]]
  /\ displaced \subseteq Numbers

(* tracks.rs:259 "so we can deduplicate it by full name": subscribers   *)
(* of one name share one track, so an open track that the cache has lost    *)
(* was pushed out by create() or remove(), never by another subscriber.     *)
OneTrackPerName ==
  \A n \in Numbers : Open(n) => cache[tracks[n].name] = n \/ n \in displaced

(* A track is in the queue exactly while its writer waits there: no request *)
(* is taken twice, or closed and still taken.                               *)
QueueHoldsWriters ==
  /\ \A i, j \in DOMAIN queue : i # j => queue[i] # queue[j]
  /\ \A n \in Numbers :
       tracks[n].writer = "queued" <=> SE!Contains(queue, n) \/ SE!Contains(drained, n)

(* tracks.rs:275-283 "stale track caching bug": a subscriber is never left  *)
(* waiting on a track that had ended before it subscribed.                  *)
NeverHandedStale ==
  [][ \A s \in Subscribers : sub'[s].at = "waiting" /\ sub[s].at = "idle" =>
        tracks'[sub'[s].track].writer # "gone" ]_vars

(* While the publisher takes requests, every subscriber is answered.        *)
AnsweredWhileServed ==
  \A s \in Subscribers :
    sub[s].at = "waiting" ~> (sub[s].at # "waiting" \/ request # "live")

(* tracks.rs:146 "Close any tracks still in the Queue": once the            *)
(* TracksRequest is gone, no requested track is left waiting in the queue,  *)
(* where nobody would ever answer its subscribers.                          *)
NoRequestStranded ==
  request = "gone" /\ Held => \A n \in Numbers : tracks[n].writer # "queued"
=============================================================================
