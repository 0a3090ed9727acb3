------------------------------- MODULE MCServe -------------------------------
(* The watch primitives and the serve library side by side.  They are        *)
(* modelled with no common variable, so interleaving them would only         *)
(* multiply their states: a behaviour runs one of Parts, the others rest in  *)
(* an initial state.                                                         *)
EXTENDS WatchState, WatchQueue

CONSTANTS
  Parts,                                          \* the components that run
  Readers, Taps, Windows,                         \* shared by the next three
  MaxGroup, Subs, MaxCreates,                     \* Subgroups
  MaxId, Sizes, Chunks, MaxObjects,               \* SubgroupObjects
  Depths, MaxWrites,                              \* Datagrams
  Names, Subscribers, MaxTracks                   \* Tracks

VARIABLES
  part,
  created, retained, closed, writer, window, newest, nextGroup, reader, readIndex, got,
  tapFrom, tapped,
  oWriter, nextId, oClosed, objects, oReader, index, chunk, bytes, outcome,
  ring, depth, dEpoch, dClosed, dWriter, dReader, next, dropped, dGot, dTapFrom, dTapped,
  kWriter, mode, kClosed, kWindow, modeWriter, modeWindow, call, tap,
  tracks, cache, tQueue, request, drained, tWriter, sub, displaced

Groups == INSTANCE SubgroupsProofs
Objects == INSTANCE SubgroupObjects WITH
  writer <- oWriter, closed <- oClosed, reader <- oReader
Datagram == INSTANCE DatagramsProofs WITH
  epoch <- dEpoch, closed <- dClosed, writer <- dWriter, reader <- dReader,
  got <- dGot, tapFrom <- dTapFrom, tapped <- dTapped
Mode == INSTANCE Track WITH
  writer <- kWriter, closed <- kClosed, window <- kWindow
Broadcast == INSTANCE Tracks WITH
  queue <- tQueue, writer <- tWriter

ASSUME ServeAssumption ==
  /\ Parts \subseteq {"watch", "queue", "subgroups", "objects", "datagrams", "track", "tracks"}
  /\ QueueAssumption /\ Groups!SubgroupsAssumption
  /\ Objects!SubgroupObjectsAssumption /\ Datagram!DatagramsAssumption
  /\ Mode!TrackAssumption /\ Broadcast!TracksAssumption

groupVars == <<created, retained, closed, writer, window, newest, nextGroup, reader, readIndex,
               got, tapFrom, tapped>>
objectVars == <<oWriter, nextId, oClosed, objects, oReader, index, chunk, bytes, outcome>>
datagramVars == <<ring, depth, dEpoch, dClosed, dWriter, dReader, next, dropped, dGot, dTapFrom,
                  dTapped>>
modeVars == <<kWriter, mode, kClosed, kWindow, modeWriter, modeWindow, call, tap>>
broadcastVars == <<tracks, cache, tQueue, request, drained, tWriter, sub, displaced>>

ServeVars ==
  <<part, vars, queueVars, groupVars, objectVars, datagramVars, modeVars, broadcastVars>>

\* A component with several initial states rests in one of them.
ServeInit ==
  /\ part \in Parts
  /\ Init /\ QueueInit /\ Groups!Init /\ Objects!Init /\ Datagram!Init
  /\ Mode!Init /\ Broadcast!Init
  /\ part = "watch" \/ \A w \in Waiters : gen[w] = CHOOSE g \in Gens : TRUE
  /\ part = "subgroups" \/ (window = 1 /\ reader[CHOOSE r \in Readers : TRUE] = "live")
  /\ part = "datagrams" \/ (depth = 1 /\ dReader[CHOOSE r \in Readers : TRUE] = "live")

\* Part p runs, the others rest.
Runs(p) ==
  /\ part = p /\ UNCHANGED part
  /\ IF p = "watch" THEN TRUE ELSE UNCHANGED vars
  /\ IF p = "queue" THEN TRUE ELSE UNCHANGED queueVars
  /\ IF p = "subgroups" THEN TRUE ELSE UNCHANGED groupVars
  /\ IF p = "objects" THEN TRUE ELSE UNCHANGED objectVars
  /\ IF p = "datagrams" THEN TRUE ELSE UNCHANGED datagramVars
  /\ IF p = "track" THEN TRUE ELSE UNCHANGED modeVars
  /\ IF p = "tracks" THEN TRUE ELSE UNCHANGED broadcastVars

ServeNext ==
  \/ Runs("watch") /\ Next
  \/ Runs("queue") /\ QueueNext
  \/ Runs("subgroups") /\ Groups!Next
  \/ Runs("objects") /\ Objects!Next
  \/ Runs("datagrams") /\ Datagram!Next
  \/ Runs("track") /\ Mode!Next
  \/ Runs("tracks") /\ Broadcast!Next

ServeSpec == ServeInit /\ [][ServeNext]_ServeVars

\* Of a component that rests no fair step is enabled, except in WatchState.
ServeFairness ==
  /\ \A w \in Waiters : /\ WF_vars(part = "watch" /\ Modified(w))
                        /\ WF_vars(part = "watch" /\ FirstPoll(w))
                        /\ WF_vars(part = "watch" /\ WokenPoll(w))
  /\ Groups!Fairness
  /\ Broadcast!Fairness

ServeFairSpec == ServeSpec /\ ServeFairness

-----------------------------------------------------------------------------
(* The types of the component that runs: watch/ and serve/.                  *)
ServeTypeOK ==
  CASE part = "watch"     -> TypeOK
    [] part = "queue"     -> QueueTypeOK
    [] part = "subgroups" -> Groups!TypeOK
    [] part = "objects"   -> Objects!TypeOK
    [] part = "datagrams" -> Datagram!TypeOK
    [] part = "track"     -> Mode!TypeOK
    [] part = "tracks"    -> Broadcast!TypeOK

(* Subgroups: a reader gets subgroups in order and none twice, passes over   *)
(* one only if the history window has left it behind, and is told of the end *)
(* last; a tap misses nothing (serve/subgroup.rs, serve/tap.rs).             *)
SubgroupsDelivered == Groups!SubgroupsDelivered

(* Datagrams: the ring holds the newest datagrams, what a reader missed is   *)
(* counted exactly, and a tap misses nothing (serve/datagram.rs).            *)
DatagramsAccounted == Datagram!DatagramsAccounted

(* SubgroupObjects, Track and Tracks: a reader takes no cut object for a     *)
(* whole one (serve/subgroup.rs); a track is stale only when nobody can      *)
(* write to it, its mode enforces the window it advertises, taps and mode()  *)
(* outlive the change to a mode, and subscribers of a name share one track   *)
(* (serve/track.rs, serve/tracks.rs).  Every component keeps its types.      *)
TracksSound ==
  /\ ServeTypeOK
  /\ Objects!IdsIncrease /\ Objects!NoTruncatedObject /\ Objects!EndAfterObjects
  /\ Mode!StaleIsFinal /\ Mode!AdvertisedIsEnforced
  /\ Mode!TapOutlivesMode /\ Mode!DoneMeansNoMode
  /\ Broadcast!OneTrackPerName /\ Broadcast!QueueHoldsWriters

(* Subgroups and datagrams both implement the fan-out contract LossyLog      *)
(* (serve/subgroup.rs, serve/datagram.rs).                                   *)
ImplementsLossyLog == Groups!ImplementsLossyLog /\ Datagram!ImplementsLossyLog

(* Subgroups: a reader that goes on gets what is ahead of it, unless the     *)
(* window prunes it first (serve/subgroup.rs).                               *)
EventuallyDelivered == Groups!EventuallyDelivered

(* Tracks: while requests are taken, every subscriber is answered, and       *)
(* nobody is handed a track that had ended (serve/tracks.rs).                *)
AnsweredWhileServed == Broadcast!AnsweredWhileServed /\ Broadcast!NeverHandedStale
=============================================================================
