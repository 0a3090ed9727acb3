------------------------------- MODULE Ingress -------------------------------
(* Subscriber side of the data plane (session/subscriber/ingress.rs with     *)
(* SubscribeRecv of session/subscribe.rs and PublishReceivedRecv of          *)
(* session/publish_received.rs): streams and datagrams of one track are      *)
(* routed by their alias to the entry of its subscription, whose writer      *)
(* mirrors the track for the application.                                    *)
(*                                                                           *)
(* A mirrored subgroup can be written while somebody holds its reader: the   *)
(* mirror, as long as the history window retains it, or whoever took it from *)
(* the mirror.                                                               *)
EXTENDS ObjectForwarder

NotFound == "NotFound"
Errors == {NotFound, "Done", "Mode", "Cancel", "Duplicate"}

VARIABLES
  origin,       \* TrackOrigin: "subscribe" or "publish"
  window,       \* the history window SUBSCRIBE_OK gave the mirror, 0 for none
  entry,        \* the entry is in subscribes, or publishes_received
  aliasKnown,   \* track_alias_map has the alias
  writer,       \* its TrackWriterMode: "track", "subgroups", "datagrams", or "none"
  closedWith,   \* what the application's handle sees: "no", "gone" or an error
  reading,      \* the application reads the mirror
  held,       \* subgroups it took from the mirror
  rx,           \* of each stream: [st, pos, prev, left]
  created,      \* streams whose subgroup the mirror has, in creation order
  retained,     \* those of them the window keeps
  mirror,       \* of each stream, the objects written: [id, size, got]
  inbox,        \* datagrams that have not arrived
  waiting,      \* the datagram that waits for its alias, or none
  routed,       \* its origin was found
  mirrored,     \* datagrams written to the mirror
  sessionEnded  \* run_datagrams returned an error, which ends the session

ingressVars == <<origin, window, entry, aliasKnown, writer, closedWith, reading, held, rx,
                 created, retained, mirror, inbox, waiting, routed, mirrored, sessionEnded>>
entryVars == <<entry, aliasKnown, writer, closedWith>>
streamVars == <<rx, created, retained, mirror>>
datagramVars == <<inbox, waiting, routed, mirrored, sessionEnded>>

NoDatagram == "none"

IngressAssumption ==
  \A c \in Cases : c.origin \in {"subscribe", "publish"} /\ c.window \in Nat /\ NoDatagram \notin c.datagrams

\* PUBLISH registers the alias before it is answered, SUBSCRIBE_OK brings it.
NewEntry(known) == entry = TRUE /\ aliasKnown = known /\ writer = "track" /\ closedWith = "no"
IngressStart(o) ==
  /\ origin = o.origin /\ window = o.window
  /\ NewEntry(o.origin = "publish")
  /\ reading = TRUE /\ held = {}
  /\ rx = [s \in Streams |-> [st |-> "none", pos |-> 0, prev |-> NoObject, left |-> 0]]
  /\ created = <<>> /\ retained = {} /\ mirror = [s \in Streams |-> <<>>]
  /\ inbox = o.datagrams /\ waiting = NoDatagram /\ routed = FALSE /\ mirrored = {} /\ sessionEnded = FALSE

-----------------------------------------------------------------------------
(* The entry                                                               *)

\* recv_subscribe_ok registers the alias, wakes the streams that wait for it and
\* hands the window to the mirror.
RecvSubscribeOk ==
  /\ origin = "subscribe" /\ entry /\ ~aliasKnown /\ control # <<>>
  /\ aliasKnown' = TRUE
  /\ UNCHANGED <<origin, window, entry, writer, closedWith, reading, held, streamVars,
                 datagramVars>>

\* The application drops its readers of the mirror.
DropReaders ==
  /\ reading /\ reading' = FALSE /\ held' = {}
  /\ UNCHANGED <<origin, window, entryVars, streamVars, datagramVars>>

\* The application takes a subgroup from the mirror and holds its reader.
TakeSubgroup(s) ==
  /\ reading /\ s \in retained \ held
  /\ held' = held \cup {s}
  /\ UNCHANGED <<origin, window, entryVars, reading, streamVars, datagramVars>>

\* remove_subscribe, then SubscribeRecv::error: closing the writer of a mirror
\* that nobody reads fails, and the handle then sees only that the entry is gone.
RemoveWith(err) ==
  /\ entry' = FALSE /\ aliasKnown' = FALSE /\ writer' = "none"
  /\ closedWith' = IF ~entry THEN closedWith
                   ELSE IF writer # "none" /\ ~reading THEN "gone" ELSE err

\* recv_publish_done: the entry goes at once, whatever its stream count says;
\* PublishReceivedRecv::recv_done drops the writer.
RecvPublishDone ==
  /\ entry /\ aliasKnown
  /\ \E i \in 1 .. Len(control) : control[i].type = "PublishDone"
  /\ IF origin = "subscribe" THEN RemoveWith("Done")
     ELSE closedWith' = "Done" /\ entry' = FALSE /\ aliasKnown' = FALSE /\ writer' = "none"
  /\ UNCHANGED <<origin, window, reading, held, streamVars, datagramVars>>

\* The application drops its Subscribe: the entry and its writer go with it.
DropSubscribe ==
  /\ origin = "subscribe" /\ entry
  /\ entry' = FALSE /\ aliasKnown' = FALSE /\ writer' = "none" /\ closedWith' = "gone"
  /\ UNCHANGED <<origin, window, reading, held, streamVars, datagramVars>>

-----------------------------------------------------------------------------
(* recv_stream                                                             *)

\* run_streams accepts the stream and its header is decoded.
AcceptStream(s) ==
  /\ ~sessionEnded /\ wire[s].open /\ rx[s].st = "none"
  /\ rx' = [rx EXCEPT ![s].st = "waiting"]
  /\ UNCHANGED <<origin, window, entryVars, reading, held, created, retained, mirror,
                 datagramVars>>

\* get_track_origin_by_alias: at once, or when SUBSCRIBE_OK registers the alias.
ResolveAlias(s) ==
  /\ ~sessionEnded /\ rx[s].st = "waiting" /\ aliasKnown
  /\ rx' = [rx EXCEPT ![s].st = "reading"]
  /\ UNCHANGED <<origin, window, entryVars, reading, held, created, retained, mirror,
                 datagramVars>>

\* It gives up after DEFAULT_ALIAS_WAIT_TIME_MS; no entry is found to remove.
AliasTimeout(s) ==
  /\ ~sessionEnded /\ rx[s].st = "waiting" /\ ~aliasKnown
  /\ rx' = [rx EXCEPT ![s].st = "failed"]
  /\ UNCHANGED <<origin, window, entryVars, reading, held, created, retained, mirror,
                 datagramVars>>

\* Mutant: the entry stays whatever opened it.
FailStream_EntryStays(s, err, w) ==
  /\ rx' = [rx EXCEPT ![s].st = "failed"]
  /\ writer' = w /\ UNCHANGED <<entry, aliasKnown, closedWith>>

\* A Serve error of one stream removes the subscription of a SUBSCRIBE; of a
\* PUBLISH the entry stays, with the writer as w.
FailStream(s, err, w) ==
  /\ rx' = [rx EXCEPT ![s].st = "failed"]
  /\ IF origin = "subscribe" /\ aliasKnown
     THEN RemoveWith(err)
     ELSE writer' = w /\ UNCHANGED <<entry, aliasKnown, closedWith>>

\* Why subgroup() refuses to open the subgroup of s, if it does.  Both calls take
\* the writer out and put it back only when they succeed.
SubgroupErrors(s) ==
  CASE ~entry -> {NotFound}
    [] entry /\ writer = "none" -> {"Done"}
    [] entry /\ writer = "datagrams" -> {"Mode"}
    [] entry /\ writer \in {"track", "subgroups"} /\ ~reading -> {"Cancel"}
    [] entry /\ writer = "subgroups" /\ reading
         -> IF \E t \in retained : key[t] = key[s] THEN {"Duplicate"} ELSE {}
    [] OTHER -> {}

\* SubgroupsWriter::create appends and then prunes what left the window.
InWindow(streams) ==
  {t \in streams : window = 0 \/ \A u \in streams : key[u].group - key[t].group < window}

\* Somebody holds the reader of the subgroup.
Held(s, kept) == s \in held \/ (s \in kept /\ (reading \/ (entry /\ writer # "none")))

\* The object id on the wire is relative to the one before it.
ObjectId(s, frame) == IF rx[s].prev = NoObject THEN frame.delta ELSE rx[s].prev + frame.delta + 1

\* An object's header, with create_with_id once the subgroup is open.
PutObject(s, kept) ==
  LET frame == wire[s].frames[rx[s].pos + 1]
      id == ObjectId(s, frame)
  IN IF Held(s, kept)
     THEN /\ mirror' = [mirror EXCEPT ![s] = Append(@, [id |-> id, size |-> frame.size, got |-> 0])]
          /\ rx' = [rx EXCEPT ![s] = [st |-> "reading", pos |-> rx[s].pos + 1, prev |-> id,
                                      left |-> frame.size]]
     ELSE mirror' = mirror

AtObject(s) ==
  /\ ~sessionEnded /\ rx[s].st = "reading" /\ rx[s].left = 0
  /\ rx[s].pos < Len(wire[s].frames)

Opened(s) == \E i \in 1 .. Len(created) : created[i] = s

\* The first object opens the subgroup.
OpenSubgroup(s) ==
  /\ AtObject(s) /\ ~Opened(s)
  /\ \/ /\ SubgroupErrors(s) # {}
        /\ \E err \in SubgroupErrors(s) : FailStream(s, err, "none")
        /\ UNCHANGED <<created, retained, mirror>>
     \/ /\ SubgroupErrors(s) = {}
        /\ created' = Append(created, s)
        /\ retained' = InWindow(retained \cup {s})
        /\ PutObject(s, retained')
        /\ IF Held(s, retained')
           THEN writer' = "subgroups" /\ UNCHANGED <<entry, aliasKnown, closedWith>>
           ELSE FailStream(s, "Cancel", "subgroups")
  /\ UNCHANGED <<origin, window, reading, held, datagramVars>>

\* Later objects go to the writer of the open subgroup.
RecvObject(s) ==
  /\ AtObject(s) /\ Opened(s)
  /\ PutObject(s, retained)
  /\ IF Held(s, retained) THEN UNCHANGED entryVars ELSE FailStream(s, "Cancel", writer)
  /\ UNCHANGED <<origin, window, reading, held, created, retained, datagramVars>>

\* A chunk of the payload: the object's reader is in the subgroup's own state.
RecvChunk(s) ==
  /\ ~sessionEnded /\ rx[s].st = "reading" /\ rx[s].left > 0
  /\ rx[s].pos < Len(wire[s].frames)
  /\ rx' = [rx EXCEPT ![s].pos = @ + 1, ![s].left = @ - 1]
  /\ mirror' = [mirror EXCEPT ![s][Len(mirror[s])].got = @ + 1]
  /\ UNCHANGED <<origin, window, entryVars, reading, held, created, retained, datagramVars>>

\* The stream ends: WrongSize in the middle of an object, which is only logged.
EndOfStream(s) ==
  /\ ~sessionEnded /\ rx[s].st = "reading" /\ wire[s].fin /\ rx[s].pos = Len(wire[s].frames)
  /\ rx' = [rx EXCEPT ![s].st = IF rx[s].left > 0 THEN "failed" ELSE "over"]
  /\ UNCHANGED <<origin, window, entryVars, reading, held, created, retained, mirror,
                 datagramVars>>

-----------------------------------------------------------------------------
(* recv_datagram, one at a time: a datagram that waits for its alias holds up *)
(* those behind it.                                                         *)

RecvDatagram(d) ==
  /\ ~sessionEnded /\ waiting = NoDatagram /\ d \in inbox
  /\ inbox' = inbox \ {d} /\ waiting' = d
  /\ UNCHANGED <<origin, window, entryVars, reading, held, streamVars, routed, mirrored,
                 sessionEnded>>

\* Unreliable delivery.
LoseDatagram(d) ==
  /\ d \in inbox /\ inbox' = inbox \ {d}
  /\ UNCHANGED <<origin, window, entryVars, reading, held, streamVars, waiting, routed, mirrored,
                 sessionEnded>>

DatagramTimeout ==
  /\ ~sessionEnded /\ waiting # NoDatagram /\ ~routed /\ ~aliasKnown
  /\ waiting' = NoDatagram
  /\ UNCHANGED <<origin, window, entryVars, reading, held, streamVars, inbox, routed, mirrored,
                 sessionEnded>>

\* The alias leads to an origin, whose entry another thread may still remove.
RouteDatagram ==
  /\ ~sessionEnded /\ waiting # NoDatagram /\ ~routed /\ aliasKnown
  /\ routed' = TRUE
  /\ UNCHANGED <<origin, window, entryVars, reading, held, streamVars, inbox, waiting, mirrored,
                 sessionEnded>>

\* Mutant: a datagram for an entry that is gone is an error like the others.
DatagramErrors_EntryGone ==
  CASE ~entry -> {NotFound}
    [] entry /\ writer = "none" -> {"Done"}
    [] entry /\ writer = "subgroups" -> {"Mode"}
    [] entry /\ writer \in {"track", "datagrams"} /\ ~reading -> {"Cancel"}
    [] OTHER -> {}

\* Why datagram() refuses.  Unlike subgroup() it puts back a writer of another mode.
DatagramErrors ==
  CASE ~entry -> {}
    [] entry /\ writer = "none" -> {"Done"}
    [] entry /\ writer = "subgroups" -> {"Mode"}
    [] entry /\ writer \in {"track", "datagrams"} /\ ~reading -> {"Cancel"}
    [] OTHER -> {}

\* datagram() of the entry, whichever message opened it.
DatagramTaken == entry /\ DatagramErrors = {}

\* A datagram the writer refuses ends run_datagrams and with it the session.
WriteDatagram ==
  /\ ~sessionEnded /\ routed
  /\ waiting' = NoDatagram /\ routed' = FALSE
  /\ sessionEnded' = (DatagramErrors # {})
  /\ IF DatagramTaken
     THEN mirrored' = mirrored \cup {waiting} /\ writer' = "datagrams"
     ELSE /\ UNCHANGED mirrored
          /\ writer' = IF "Cancel" \in DatagramErrors THEN "none" ELSE writer
  /\ UNCHANGED <<origin, window, entry, aliasKnown, closedWith, reading, held, streamVars, inbox>>

IngressNext ==
  \/ RecvSubscribeOk \/ DropReaders \/ RecvPublishDone \/ DropSubscribe
  \/ DatagramTimeout \/ RouteDatagram \/ WriteDatagram
  \/ \E d \in inbox : RecvDatagram(d) \/ LoseDatagram(d)
  \/ \E s \in Streams :
       \/ TakeSubgroup(s)
       \/ AcceptStream(s) \/ ResolveAlias(s) \/ AliasTimeout(s)
       \/ OpenSubgroup(s) \/ RecvObject(s) \/ RecvChunk(s) \/ EndOfStream(s)

-----------------------------------------------------------------------------
(* Both ends                                                               *)

\* The handle of an entry that went is dropped, which sends UNSUBSCRIBE.
UnsubscribeArrives ==
  /\ origin = "subscribe" /\ closedWith # "no"
  /\ RecvUnsubscribe
  /\ UNCHANGED ingressVars

DataStart(c) == ForwarderStart(c) /\ IngressStart(c)
DataInit == \E c \in Cases : DataStart(c)

DataNext ==
  \/ ~sessionEnded /\ ForwarderNext /\ UNCHANGED ingressVars
  \/ UnsubscribeArrives
  \/ IngressNext /\ UNCHANGED forwarderVars

DataTypeOK ==
  /\ phase \in {"new", "serving", "gone"} /\ done \in {"no", "ok", "err"}
  /\ taken \in 0 .. Cardinality(Streams)
  /\ asked.filter.type \in FilterTypes /\ largest \in Locations \cup {NoLocation}
  /\ entry \in BOOLEAN /\ aliasKnown \in BOOLEAN /\ reading \in BOOLEAN
  /\ writer \in {"track", "subgroups", "datagrams", "none"}
  /\ closedWith \in Errors \cup {"no", "gone"}
  /\ retained \subseteq {created[i] : i \in 1 .. Len(created)}
  /\ held \subseteq Streams
  /\ \A s \in Streams : rx[s].st \in {"none", "waiting", "reading", "over", "failed"}

(* What the mirror of a subgroup holds is what the track has and the filter  *)
(* allows, with the object ids of the publisher, in order and gap for gap;   *)
(* a stream that was read to its end without an error left nothing out, a    *)
(* subgroup that got no stream had nothing to send, and PUBLISH_DONE counts  *)
(* the streams (session/subscribed.rs serve_subgroup,                        *)
(* session/subscriber/ingress.rs recv_subgroup_objects).                     *)
MirrorFaithful ==
  /\ \A s \in Streams :
       /\ \A i \in 1 .. Len(mirror[s]) :
            /\ \E o \in ObjectsWanted(s) :
                 /\ mirror[s][i].id = o.id /\ mirror[s][i].size = o.size
                 /\ mirror[s][i].got <= o.got
            /\ i < Len(mirror[s]) => /\ mirror[s][i].got = mirror[s][i].size
                                     /\ mirror[s][i].id < mirror[s][i + 1].id
       /\ rx[s].st = "over" /\ ~unsubscribed =>
            ObjectsWanted(s) = {mirror[s][i] : i \in 1 .. Len(mirror[s])}
       /\ task[s].st = "over" /\ ~wire[s].open /\ ~unsubscribed => ObjectsWanted(s) = {}
  /\ \A i \in 1 .. Len(control) : control[i].type = "PublishDone" =>
       control[i].streams = Cardinality({s \in Streams : wire[s].open})

(* A subscription ends by the failure of one of its streams only when nobody *)
(* reads the mirror, two streams carry the same subgroup, or a stream of a   *)
(* group behind the history window brings an object, and while it lives it   *)
(* has its writer (session/subscriber/ingress.rs recv_stream).  The session  *)
(* ends over a datagram only if the mirror is not read, or the track was     *)
(* sent both ways: one that comes late, for an entry that is gone, is        *)
(* dropped (recv_datagram).                                                  *)
SubscriptionSound ==
  /\ origin = "subscribe" =>
       /\ closedWith = "Duplicate" =>
            \E s, t \in Streams : s # t /\ key[s] = key[t] /\ wire[s].open /\ wire[t].open
       /\ closedWith = "Cancel" /\ reading =>
            \E s \in Streams : rx[s].st = "failed" /\ s \notin InWindow(Streams)
       /\ closedWith = "Mode" => mirrored # {}
       /\ entry /\ ~sessionEnded => writer # "none"
  /\ sessionEnded => ~reading \/ created # <<>> \/ \E s \in Streams : rx[s].st = "failed"
=============================================================================
