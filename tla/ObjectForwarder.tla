--------------------------- MODULE ObjectForwarder ---------------------------
(* Publisher side of one subscription (session/subscribed.rs): Subscribed    *)
(* answers SUBSCRIBE and its ObjectForwarder copies every subgroup of the    *)
(* track that the filter allows onto a stream of its own, one task for each  *)
(* subgroup.                                                                 *)
(*                                                                           *)
(* What the track holds is fixed: cut[s] units of subgroup s, after which it *)
(* ends or fails.  A task that waits for the track to grow does what it would*)
(* do later, and WatchState shows that it is woken.  Dropping a SendStream   *)
(* finishes it (quinn), however the task ended.                              *)
EXTENDS Integers, Sequences, FiniteSets

CONSTANTS
  MaxId,        \* the largest group and object id, which stands for u64::MAX
  Streams,      \* subgroups in the order of the track: 1 .. n
  Units,        \* what they hold: [id, size, chunk], chunk 0 is the object's header
  Cases         \* what the runs begin with: key, cut and asked of the publisher, and
                \* origin, window and datagrams of the subscriber (see Ingress)

-----------------------------------------------------------------------------
(* Which objects of a track a subscription is sent (session/subscribe.rs).   *)
(* A location is a pair <<group, object>>.                                   *)

NoLocation == <<>>  \* Option<Location>::None
NoEnd == -1         \* end_group_id = None

Locations == (0 .. MaxId) \X (0 .. MaxId)

\* Location's derived order.
Before(a, b) == a[1] < b[1] \/ (a[1] = b[1] /\ a[2] < b[2])

\* A SUBSCRIPTION_FILTER; NoFilter when the parameter was left out.
NoFilter == [type |-> "none", start |-> NoLocation, end |-> NoEnd]
FilterTypes == {"none", "LargestObject", "NextGroupStart", "AbsoluteStart", "AbsoluteRange"}

\* next_group_location: saturating_add on the group.
NextGroupLocation(largest) ==
  IF largest = NoLocation THEN <<0, 0>>
  ELSE <<IF largest[1] = MaxId THEN MaxId ELSE largest[1] + 1, 0>>

\* next_object_location: the last object id of a group is followed by a group.
NextObjectLocation(largest) ==
  IF largest = NoLocation THEN <<0, 0>>
  ELSE IF largest[2] < MaxId THEN <<largest[1], largest[2] + 1>>
  ELSE NextGroupLocation(largest)

\* SubscribeInfo::delivery_filter.
DeliveryFilterOf(forward, filter, largest) ==
  [forward |-> forward,
   end |-> filter.end,
   start |-> CASE filter.type = "none" -> NoLocation
               [] filter.type = "LargestObject" -> NextObjectLocation(largest)
               [] filter.type = "NextGroupStart" -> NextGroupLocation(largest)
               [] filter.type \in {"AbsoluteStart", "AbsoluteRange"} -> filter.start]

\* Mutant: the end group is exclusive.
Allows_EndExclusive(f, location) ==
  /\ f.forward
  /\ f.start # NoLocation => ~Before(location, f.start)
  /\ f.end # NoEnd => location[1] < f.end

\* DeliveryFilter::allows: the end group is inclusive.
Allows(f, location) ==
  /\ f.forward
  /\ f.start # NoLocation => ~Before(location, f.start)
  /\ f.end # NoEnd => location[1] <= f.end

-----------------------------------------------------------------------------
(* What the runs begin with.  Group ids stay below MaxId, where saturating   *)
(* arithmetic ends: a varint on the wire is smaller than u64::MAX.           *)

\* What a subgroup may hold: the chunks of an object follow its header, and object
\* ids increase (SubgroupObjects shows that they do).
SubgroupUnits(u) ==
  /\ \A i \in 1 .. Len(u) :
       /\ u[i].chunk <= u[i].size /\ u[i].chunk < i
       /\ u[i - u[i].chunk].chunk = 0
       /\ u[i - u[i].chunk].id = u[i].id /\ u[i - u[i].chunk].size = u[i].size
  /\ \A i, j \in 1 .. Len(u) : i < j =>
       IF j - i <= u[i].size - u[i].chunk
       THEN u[j].id = u[i].id /\ u[j].size = u[i].size /\ u[j].chunk = u[i].chunk + (j - i)
       ELSE u[i].id < u[j].id

\* A filter as it is decoded: only a range has an end.
SubscriptionFilter(f) ==
  /\ f.type \in FilterTypes
  /\ f.type \in {"AbsoluteStart", "AbsoluteRange"} => f.start \in Locations
  /\ IF f.type = "AbsoluteRange" THEN f.end \in 0 .. MaxId ELSE f.end = NoEnd

ForwarderCase(c) ==
  /\ c.key \in [Streams -> [group : 0 .. (MaxId - 1), sub : Nat]]
  /\ c.cut \in [Streams -> Nat] /\ \A s \in Streams : c.cut[s] <= Len(Units[s])
  /\ c.asked.forward \in BOOLEAN /\ SubscriptionFilter(c.asked.filter)
  /\ c.asked.largest \in {NoLocation} \cup ((0 .. (MaxId - 1)) \X (0 .. MaxId))

ObjectForwarderAssumption ==
  /\ MaxId \in Nat
  /\ IsFiniteSet(Streams) /\ Streams = 1 .. Cardinality(Streams)
  /\ Units \in [Streams -> Seq([id : 0 .. MaxId, size : Nat, chunk : Nat])]
  /\ \A s \in Streams : SubgroupUnits(Units[s])
  /\ \A c \in Cases : ForwarderCase(c)

-----------------------------------------------------------------------------
NoObject == -1   \* previous_object_id = None

VARIABLES
  key,              \* the [group, sub] of each subgroup
  cut,              \* units of it that the track has
  asked,            \* the subscription: [forward, filter, largest]
  phase,            \* of Subscribed: "new", "serving", "gone"
  filter,           \* the delivery filter, from SUBSCRIBE and the largest location
  taken,            \* subgroups taken from the reader
  done,             \* serve_subgroups' done: "no", "ok", "err"
  fwClosed,         \* ObjectForwarderState::closed: "no", "cancel"
  unsubscribed, streamCount, largest,   \* the rest of ObjectForwarderState
  task,             \* of each subgroup: [st, pos, prev]
  wire,             \* its stream: [open, frames, fin]
  control           \* messages sent for this subscription

forwarderVars == <<key, cut, asked, phase, filter, taken, done, fwClosed, unsubscribed,
                   streamCount, largest, task, wire, control>>
sourceVars == <<key, cut, asked>>
stateVars == <<fwClosed, unsubscribed, streamCount, largest>>

ForwarderStart(c) ==
  /\ key = c.key /\ cut = c.cut /\ asked = c.asked
  /\ phase = "new"
  /\ filter = DeliveryFilterOf(FALSE, NoFilter, NoLocation)
  /\ taken = 0 /\ done = "no"
  /\ fwClosed = "no" /\ unsubscribed = FALSE /\ streamCount = 0 /\ largest = NoLocation
  /\ task = [s \in Streams |-> [st |-> "idle", pos |-> 0, prev |-> NoObject]]
  /\ wire = [s \in Streams |-> [open |-> FALSE, frames |-> <<>>, fin |-> FALSE]]
  /\ control = <<>>

-----------------------------------------------------------------------------
(* Answering and ending                                                    *)

\* lock_mut on the forwarder's state while its receiving half is in the map.
StateHeld == ~unsubscribed

\* set_largest_location.
SetLargestLocation(location) == StateHeld /\ largest' = location

\* Subscribed::serve_inner up to forwarder.serve: SUBSCRIBE_OK is on the control
\* stream before any data is sent.
ServeInner ==
  /\ phase = "new" /\ SetLargestLocation(asked.largest)
  /\ phase' = "serving"
  /\ filter' = DeliveryFilterOf(asked.forward, asked.filter, asked.largest)
  /\ control' = Append(control, [type |-> "SubscribeOk", streams |-> 0])
  /\ UNCHANGED <<sourceVars, taken, done, fwClosed, unsubscribed, streamCount, task, wire>>

\* set_largest_location fails once the subscriber has left; nothing is sent.
ServeCancelled ==
  /\ phase = "new" /\ ~StateHeld
  /\ phase' = "gone"
  /\ UNCHANGED <<sourceVars, filter, taken, done, stateVars, task, wire, control>>

\* ObjectForwarderRecv::recv_unsubscribe, and the entry is dropped.
RecvUnsubscribe ==
  /\ phase \in {"new", "serving"} /\ fwClosed = "no"
  /\ fwClosed' = "cancel" /\ unsubscribed' = TRUE
  /\ UNCHANGED <<sourceVars, phase, filter, taken, done, streamCount, largest, task, wire, control>>

\* serve_subgroups returns when done is set and every task has ended, and
\* dropping Subscribed sends PUBLISH_DONE unless the subscriber left.
ReturnAndDrop ==
  /\ phase = "serving" /\ done # "no"
  /\ \A s \in Streams : task[s].st \in {"idle", "over"}
  /\ phase' = "gone"
  /\ control' = IF unsubscribed THEN control
                ELSE Append(control, [type |-> "PublishDone", streams |-> streamCount])
  /\ UNCHANGED <<sourceVars, filter, taken, done, stateVars, task, wire>>

-----------------------------------------------------------------------------
(* serve_subgroups                                                         *)

\* subgroups.next() hands out the next subgroup: a task for it.
NextSubgroup ==
  /\ phase = "serving" /\ done = "no" /\ taken < Cardinality(Streams)
  /\ taken' = taken + 1
  /\ task' = [task EXCEPT ![taken + 1].st = "seeking"]
  /\ UNCHANGED <<sourceVars, phase, filter, done, stateVars, wire, control>>

\* subgroups.next() returns None, or the error the track was closed with.
NoMoreSubgroups ==
  /\ phase = "serving" /\ done = "no" /\ taken = Cardinality(Streams)
  /\ done' \in {"ok", "err"}
  /\ UNCHANGED <<sourceVars, phase, filter, taken, stateVars, task, wire, control>>

\* self.closed(): the subscriber left; running tasks go on to their end.
SeeClosed ==
  /\ phase = "serving" /\ done = "no" /\ fwClosed # "no"
  /\ done' = "err"
  /\ UNCHANGED <<sourceVars, phase, filter, taken, stateVars, task, wire, control>>

-----------------------------------------------------------------------------
(* serve_subgroup                                                          *)

Here(s) == Units[s][task[s].pos + 1]
More(s) == task[s].pos < cut[s]
Location(s) == <<key[s].group, Here(s).id>>

Over(s) == [task[s] EXCEPT !.st = "over"]
Finished(s) == [wire[s] EXCEPT !.fin = wire[s].open]

\* next_allowed_object skips an object with all of its payload.
SkipObject(s) ==
  /\ task[s].st \in {"seeking", "writing"} /\ More(s)
  /\ Here(s).chunk = 0 /\ ~Allows(filter, Location(s))
  /\ LET after == task[s].pos + 1 + Here(s).size
     IN task' = [task EXCEPT ![s].pos = IF after > cut[s] THEN cut[s] ELSE after]
  /\ UNCHANGED <<sourceVars, phase, filter, taken, done, stateVars, wire, control>>

\* The first object the filter lets through opens the stream; a subscriber that
\* has left stops the task there.
OpenUni(s) ==
  /\ task[s].st = "seeking" /\ More(s) /\ Allows(filter, Location(s))
  /\ IF StateHeld
     THEN /\ streamCount' = streamCount + 1
          /\ task' = [task EXCEPT ![s].st = "writing"]
          /\ wire' = [wire EXCEPT ![s].open = TRUE]
     ELSE /\ task' = [task EXCEPT ![s] = Over(s)]
          /\ UNCHANGED <<streamCount, wire>>
  /\ UNCHANGED <<sourceVars, phase, filter, taken, done, fwClosed, unsubscribed, largest, control>>

\* object_id_delta: the id itself, then the ids skipped since the last object.
ObjectIdDelta(previous, id) == IF previous = NoObject THEN id ELSE id - previous - 1

\* ObjectForwarderState::update_largest_location: only once there is one.
UpdateLargest(location) ==
  IF largest # NoLocation /\ Before(largest, location) THEN location ELSE largest

\* SubgroupOutput: the stream takes frames in order.
Output(s, delta, chunk) ==
  Append(wire[s].frames, [delta |-> delta, size |-> Here(s).size, chunk |-> chunk])

\* serve_subgroup_objects writes an object's header.  Objects the filter skipped
\* were never written, so the delta does not count from them.
WriteObject(s) ==
  /\ task[s].st = "writing" /\ More(s) /\ Here(s).chunk = 0 /\ Allows(filter, Location(s))
  /\ wire' = [wire EXCEPT
       ![s].frames = Output(s, ObjectIdDelta(task[s].prev, Here(s).id), 0),
       ![s].fin = ~StateHeld]
  /\ task' = [task EXCEPT ![s] = [st |-> IF StateHeld THEN "writing" ELSE "over",
                                  pos |-> task[s].pos + 1, prev |-> Here(s).id]]
  /\ largest' = IF StateHeld THEN UpdateLargest(Location(s)) ELSE largest
  /\ UNCHANGED <<sourceVars, phase, filter, taken, done, fwClosed, unsubscribed, streamCount,
                 control>>

\* A chunk of the payload, as the track has it.
WriteChunk(s) ==
  /\ task[s].st = "writing" /\ More(s) /\ Here(s).chunk > 0
  /\ wire' = [wire EXCEPT ![s].frames = Output(s, 0, Here(s).chunk)]
  /\ task' = [task EXCEPT ![s].pos = task[s].pos + 1]
  /\ UNCHANGED <<sourceVars, phase, filter, taken, done, stateVars, control>>

\* The subgroup ended, or an object of it failed to arrive: the error is only
\* logged, and either way the stream ends with a FIN.
EndSubgroup(s) ==
  /\ task[s].st \in {"seeking", "writing"} /\ ~More(s)
  /\ task' = [task EXCEPT ![s] = Over(s)]
  /\ wire' = [wire EXCEPT ![s] = Finished(s)]
  /\ UNCHANGED <<sourceVars, phase, filter, taken, done, stateVars, control>>

\* Everything but UNSUBSCRIBE, which the other end decides on.
ForwarderNext ==
  \/ ServeInner \/ ServeCancelled \/ ReturnAndDrop
  \/ NextSubgroup \/ NoMoreSubgroups \/ SeeClosed
  \/ \E s \in Streams :
       SkipObject(s) \/ OpenUni(s) \/ WriteObject(s) \/ WriteChunk(s) \/ EndSubgroup(s)

-----------------------------------------------------------------------------
\* What the subscription asks for, stated without the delivery filter.
Wanted(location) ==
  LET type == asked.filter.type
      top == asked.largest
  IN /\ asked.forward
     /\ type = "LargestObject" /\ top # NoLocation => Before(top, location)
     /\ type = "NextGroupStart" /\ top # NoLocation => location[1] > top[1]
     /\ type \in {"AbsoluteStart", "AbsoluteRange"} => ~Before(location, asked.filter.start)
     /\ type = "AbsoluteRange" => location[1] <= asked.filter.end

\* What stream s should carry: the objects asked for, as far as the track has them.
ObjectsWanted(s) ==
  LET objects == {i \in 1 .. cut[s] : Units[s][i].chunk = 0}
      Got(i) == Cardinality({j \in 1 .. cut[s] : Units[s][j].id = Units[s][i].id
                                              /\ Units[s][j].chunk > 0})
  IN {[id |-> Units[s][i].id, size |-> Units[s][i].size, got |-> Got(i)] :
        i \in {i \in objects : Wanted(<<key[s].group, Units[s][i].id>>)}}
=============================================================================
