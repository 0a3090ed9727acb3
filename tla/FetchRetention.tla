--------------------------- MODULE FetchRetention ---------------------------
(* The relay's retention of recent groups for FETCH (relay retention.rs) and *)
(* the FETCH handler that answers from it (serve_fetch of producer.rs).      *)
(*                                                                           *)
(* Registrations retain the objects of their track in their own groups and   *)
(* share one byte budget, which they take from without a common lock: an     *)
(* insert checks the budget, then takes from it, evicting its own older      *)
(* groups until it fits, while another registration does the same.  A FETCH  *)
(* looks a registration up, reads the largest location, collects what is     *)
(* retained, and asks upstream for the rest, each under a lock of its own.   *)
EXTENDS Integers, Sequences, FiniteSets, FiniteSetsExt, SequencesExt

CONSTANTS
  RetentionCases, \* what a run begins with: [key, objects, mode, history, groups, trackBytes,
                  \* totalBytes, ask], where key[r] is the track of registration r, objects[k] the
                  \* objects written to track k in order, [group, object, cost, whole] (whole: a
                  \* Normal object that ends at its length), mode[k] and history[k] its TrackMode
                  \* and its history window (0 when it has none), and ask the FETCH: [key, start,
                  \* end, order, upstream], key NoTrack when none comes
  END_OF_GROUP    \* VarInt::MAX, the largest id an object can have

RetainedObjects == [group : Nat, object : 0 .. END_OF_GROUP, cost : Nat, whole : BOOLEAN]
ASSUME RetentionAssumption ==
  /\ END_OF_GROUP \in Nat
  /\ \A c \in RetentionCases :
       /\ c.objects \in Seq(Seq(RetainedObjects)) /\ c.key \in Seq(DOMAIN c.objects)
       /\ c.mode \in [DOMAIN c.objects -> {"Subgroups", "Datagrams"}]
       /\ c.history \in [DOMAIN c.objects -> Nat]
       /\ {c.groups, c.trackBytes, c.totalBytes} \subseteq Nat
       /\ c.ask \in [key : {0} \cup DOMAIN c.objects, start : Nat \X Nat, end : Nat \X Nat,
                     order : {"Ascending", "Descending"}, upstream : BOOLEAN]

VARIABLES
  rcase,
  written,      \* per track, how many of its objects are written
  created,      \* per track in Subgroups mode, the groups whose subgroup is created
  fed,          \* per registration, the objects its feed has passed
  inserting,    \* per registration, NoInsert or [object, older, stage]: a call of insert
  groups,       \* RetainedGroups::groups: per registration, a set of objects
  arrival,      \* RetainedGroups::arrival
  bytes,        \* RetainedGroups::bytes
  usedBytes,    \* Limits::used_bytes
  table,        \* Registry::tracks: per track, a registration or NoTrack
  guard,        \* per registration, its RetentionGuard: "none", "held", "dropped", "freed"
  stage,        \* serve_fetch: "start", "found", "planning", "opening", "answered", "rejected",
                \* "closed"
  track,        \* the RetainedTrack serve_fetch holds, or NoTrack
  largest,      \* what plan read of the largest location
  unserved,     \* the plan
  told,         \* how many objects of the track were written when plan began
  answer        \* [objects, rest, end]: rest "complete", "upstream", "unknown"

feedVars == <<fed, inserting, groups, arrival, bytes, usedBytes>>
askingVars == <<stage, track, largest, unserved, told, answer>>
retentionVars == <<rcase, written, created, feedVars, table, guard, askingVars>>

NoTrack == 0
NoLocation == <<>>
NoInsert == [stage |-> "none"]
NoPlan == [kind |-> "none"]
NoAnswer == [objects |-> <<>>, rest |-> "none", end |-> <<0, 0>>]
Registrations == DOMAIN rcase.key
Keys == DOMAIN rcase.objects
Published(k) == SubSeq(rcase.objects[k], 1, written[k])
Limits == rcase

RetentionStart(c) ==
  /\ rcase = c
  /\ written = [k \in DOMAIN c.objects |-> 0] /\ created = [k \in DOMAIN c.objects |-> {}]
  /\ fed = [r \in DOMAIN c.key |-> {}]
  /\ inserting = [r \in DOMAIN c.key |-> NoInsert]
  /\ groups = [r \in DOMAIN c.key |-> {}]
  /\ arrival = [r \in DOMAIN c.key |-> <<>>]
  /\ bytes = [r \in DOMAIN c.key |-> 0]
  /\ usedBytes = 0
  /\ table = [k \in DOMAIN c.objects |-> NoTrack]
  /\ guard = [r \in DOMAIN c.key |-> "none"]
  /\ stage = "start" /\ track = NoTrack /\ largest = NoLocation /\ told = 0
  /\ unserved = NoPlan /\ answer = NoAnswer
RetentionInit == \E c \in RetentionCases : RetentionStart(c)

At(o) == <<o.group, o.object>>
Before(a, b) == a[1] < b[1] \/ (a[1] = b[1] /\ a[2] < b[2])
UpTo(a, b) == a = b \/ Before(a, b)

\* retained_bytes of every object of a set.
Cost(objects) == MapThenSumSet(LAMBDA o : o.cost, objects)
InGroups(r, ids) == {o \in groups[r] : o.group \in ids}

-----------------------------------------------------------------------------
(* Registration                                                            *)

\* FetchRetention::retain: the newer registration takes the key.  Its tap sees the subgroups
\* that are created and the datagrams that are written after it.  Registrations are numbered as
\* they come.
Retain(r) ==
  LET k == rcase.key[r]
  IN /\ guard[r] = "none" /\ \A s \in Registrations : s < r => guard[s] # "none"
     /\ guard' = [guard EXCEPT ![r] = "held"]
     /\ table' = [table EXCEPT ![k] = r]
     /\ fed' = [fed EXCEPT ![r] =
          {i \in DOMAIN rcase.objects[k] :
             i <= written[k] \/ rcase.objects[k][i].group \in created[k]}]
     /\ UNCHANGED <<rcase, written, created, inserting, groups, arrival, bytes, usedBytes, askingVars>>

\* RetentionGuard::drop: the key goes unless a replacement has it.
DropGuard(r) ==
  /\ guard[r] = "held"
  /\ guard' = [guard EXCEPT ![r] = "dropped"]
  /\ table' = [table EXCEPT ![rcase.key[r]] = IF @ = r THEN NoTrack ELSE @]
  /\ UNCHANGED <<rcase, written, created, feedVars, askingVars>>

\* RetainedTrack::drop by its last owner: the guard, an insert or a plan.
FreeTrack(r) ==
  /\ guard[r] = "dropped" /\ inserting[r] = NoInsert /\ track # r
  /\ guard' = [guard EXCEPT ![r] = "freed"]
  /\ usedBytes' = usedBytes - bytes[r]
  /\ groups' = [groups EXCEPT ![r] = {}]
  /\ arrival' = [arrival EXCEPT ![r] = <<>>]
  /\ bytes' = [bytes EXCEPT ![r] = 0]
  /\ UNCHANGED <<rcase, written, created, fed, inserting, table, askingVars>>

-----------------------------------------------------------------------------
(* Feeding                                                                 *)

\* SubgroupsWriter::create: the publisher begins the subgroup of a group, before its objects.
CreateSubgroup(k, g) ==
  /\ rcase.mode[k] = "Subgroups" /\ g \notin created[k]
  /\ created' = [created EXCEPT ![k] = @ \union {g}]
  /\ UNCHANGED <<rcase, written, feedVars, table, guard, askingVars>>

\* The publisher writes the next object of a track, to its subgroup or as a datagram.
Write(k) ==
  /\ written[k] < Len(rcase.objects[k])
  /\ rcase.mode[k] = "Datagrams" \/ rcase.objects[k][written[k] + 1].group \in created[k]
  /\ written' = [written EXCEPT ![k] = @ + 1]
  /\ UNCHANGED <<rcase, created, feedVars, table, guard, askingVars>>

\* feed and feed_subgroup: the datagrams in order, and the objects of each subgroup.
NextOf(r) ==
  LET all == rcase.objects[rcase.key[r]]
      ahead(j, i) == rcase.mode[rcase.key[r]] = "Datagrams" \/ all[j].group = all[i].group
  IN {i \in 1 .. written[rcase.key[r]] :
        i \notin fed[r] /\ \A j \in 1 .. i - 1 : ahead(j, i) => j \in fed[r]}

\* A status object, or one that ends short.
SkipObject(r, i) ==
  /\ guard[r] \in {"held", "dropped"} /\ inserting[r] = NoInsert /\ i \in NextOf(r)
  /\ ~rcase.objects[rcase.key[r]][i].whole
  /\ fed' = [fed EXCEPT ![r] = @ \union {i}]
  /\ UNCHANGED <<rcase, written, created, inserting, groups, arrival, bytes, usedBytes, table, guard,
                 askingVars>>

\* How many groups arrived before the object's group.
OlderGroups(r, o) ==
  LET own == {i \in DOMAIN arrival[r] : arrival[r][i] = o.group}
  IN IF own = {} THEN Len(arrival[r]) ELSE (CHOOSE i \in own : TRUE) - 1

\* insert up to its loop: a copy, and what does not fit beside its own and later groups, is not
\* retained.
BeginInsert(r, i) ==
  LET o == rcase.objects[rcase.key[r]][i]
      older == OlderGroups(r, o)
      olderBytes == Cost(InGroups(r, {arrival[r][j] : j \in 1 .. older}))
      fits == /\ bytes[r] - olderBytes + o.cost <= Limits.trackBytes
              /\ usedBytes - olderBytes + o.cost <= Limits.totalBytes
  IN /\ guard[r] \in {"held", "dropped"} /\ inserting[r] = NoInsert /\ i \in NextOf(r)
     /\ o.whole
     /\ fed' = [fed EXCEPT ![r] = @ \union {i}]
     /\ inserting' = IF (\E x \in groups[r] : At(x) = At(o)) \/ ~fits THEN inserting
                     ELSE [inserting EXCEPT ![r] =
                             [object |-> o, older |-> older, stage |-> "trying",
                              had |-> o.group \in Range(arrival[r])]]
     /\ UNCHANGED <<rcase, written, created, groups, arrival, bytes, usedBytes, table, guard,
                    askingVars>>

\* evict_oldest.
EvictOldest(r) ==
  LET gone == InGroups(r, {Head(arrival[r])})
  IN /\ arrival' = [arrival EXCEPT ![r] = Tail(@)]
     /\ groups' = [groups EXCEPT ![r] = @ \ gone]
     /\ bytes' = [bytes EXCEPT ![r] = @ - Cost(gone)]
     /\ usedBytes' = usedBytes - Cost(gone)

\* Mutant: the shared budget is taken without looking.
Reserve_Unchecked(cost) == TRUE

\* Limits::reserve: the shared budget has room.
Reserve(cost) == usedBytes + cost <= Limits.totalBytes

\* One round of insert's loop: the object is retained, or an older group makes room, or the budget
\* went to another track meanwhile.
TryInsert(r) ==
  LET o == inserting[r].object
      fits == bytes[r] + o.cost <= Limits.trackBytes /\ Reserve(o.cost)
  IN /\ inserting[r].stage = "trying"
     /\ \/ /\ fits
           /\ usedBytes' = usedBytes + o.cost
           /\ bytes' = [bytes EXCEPT ![r] = @ + o.cost]
           /\ arrival' = IF o.group \in Range(arrival[r]) THEN arrival
                         ELSE [arrival EXCEPT ![r] = Append(@, o.group)]
           /\ groups' = [groups EXCEPT ![r] = @ \union {o}]
           /\ inserting' = [inserting EXCEPT ![r].stage = "trimming"]
        \/ /\ ~fits /\ inserting[r].older > 0
           /\ EvictOldest(r)
           /\ inserting' = [inserting EXCEPT ![r].older = @ - 1]
        \/ /\ ~fits /\ inserting[r].older = 0
           /\ inserting' = [inserting EXCEPT ![r] = NoInsert]
           /\ UNCHANGED <<groups, arrival, bytes, usedBytes>>
     /\ UNCHANGED <<rcase, written, created, fed, table, guard, askingVars>>

\* The window: at most the configured number of groups stay.
TrimWindow(r) ==
  /\ inserting[r].stage = "trimming"
  /\ inserting' = [inserting EXCEPT ![r] = NoInsert]
  /\ IF Len(arrival[r]) > Limits.groups THEN EvictOldest(r)
     ELSE UNCHANGED <<groups, arrival, bytes, usedBytes>>
  /\ UNCHANGED <<rcase, written, created, fed, table, guard, askingVars>>

-----------------------------------------------------------------------------
(* Answering one FETCH                                                     *)

ask == rcase.ask

\* inclusive_end
InclusiveEnd(end) == IF end[2] = 0 THEN <<end[1], END_OF_GROUP>> ELSE <<end[1], end[2] - 1>>

\* serve_fetch answers from the plan, or goes on with what the plan leaves.
ServeRetained(objects, end) ==
  answer' = [objects |-> objects, rest |-> "complete", end |-> end] /\ stage' = "answered"
LeaveUnserved(plan) == unserved' = plan /\ stage' = "opening"

\* retained_track: FetchRetention::lookup.
LookupRetained ==
  /\ stage = "start" /\ ask.key # NoTrack
  /\ track' = table[ask.key]
  /\ IF table[ask.key] = NoTrack
     THEN LeaveUnserved([kind |-> "NotRetained"])
     ELSE stage' = "found" /\ UNCHANGED unserved
  /\ told' = written[ask.key]
  /\ UNCHANGED <<rcase, written, created, feedVars, table, guard, largest, answer>>

\* DatagramsReader::latest: the last datagram written.
LatestDatagram(k) == {rcase.objects[k][i] : i \in {written[k]} \ {0}}

\* SubgroupsReader::latest: the subgroups still in the history window of the newest one created.
LatestSubgroups(k) ==
  {o \in Range(Published(k)) :
     rcase.history[k] = 0 \/ \A g \in created[k] : g - o.group < rcase.history[k]}

\* TrackReader::largest_location, of the track's mode.
Latest(k) == IF rcase.mode[k] = "Datagrams" THEN LatestDatagram(k) ELSE LatestSubgroups(k)

\* largest_location: what is retained, or what the live track has.
LargestLocation(r) ==
  LET known == {At(o) : o \in groups[r] \union Latest(rcase.key[r])}
  IN IF known = {} THEN NoLocation ELSE CHOOSE l \in known : \A m \in known : UpTo(m, l)

\* The first half of plan, with the groups unlocked again.
ReadLargest ==
  LET known == LargestLocation(track)
      last == InclusiveEnd(ask.end)
      end == IF Before(known, last) THEN <<known[1], known[2] + 1>> ELSE ask.end
      upto == IF Before(known, last) THEN known ELSE last
  IN /\ stage = "found" /\ inserting[track] = NoInsert
     /\ \/ /\ known = NoLocation
           /\ LeaveUnserved([kind |-> "NothingPublished"])
           /\ track' = NoTrack /\ UNCHANGED <<largest, answer>>
        \/ /\ known # NoLocation /\ Before(known, ask.start)
           /\ LeaveUnserved([kind |-> "BeyondLargest"])
           /\ track' = NoTrack /\ UNCHANGED <<largest, answer>>
        \/ /\ known # NoLocation /\ UpTo(ask.start, known) /\ Before(upto, ask.start)
           /\ ServeRetained(<<>>, end)
           /\ track' = NoTrack /\ UNCHANGED <<largest, unserved>>
        \/ /\ known # NoLocation /\ UpTo(ask.start, known) /\ UpTo(ask.start, upto)
           /\ largest' = [last |-> upto, end |-> end]
           /\ stage' = "planning" /\ UNCHANGED <<track, unserved, answer>>
     /\ UNCHANGED <<rcase, written, created, feedVars, table, guard, told>>

\* The locations of a range: a group before the last runs to END_OF_GROUP.
RangeOf(start, last) ==
  {l \in (start[1] .. last[1]) \X (0 .. END_OF_GROUP) : UpTo(start, l) /\ UpTo(l, last)}

\* The order of the response: groups as asked, objects ascending.
RespBefore(a, b) ==
  IF a[1] = b[1] THEN a[2] < b[2] ELSE (a[1] < b[1]) = (ask.order = "Ascending")
InOrder(locations) ==
  [i \in 1 .. Cardinality(locations) |->
     CHOOSE l \in locations : Cardinality({m \in locations : RespBefore(m, l)}) = i - 1]

\* The second half of plan: what is retained before the first location that is not.
CollectObjects ==
  LET range == RangeOf(ask.start, largest.last)
      missing == range \ {At(o) : o \in groups[track]}
      first == CHOOSE l \in missing : \A m \in missing \ {l} : RespBefore(l, m)
  IN /\ stage = "planning" /\ inserting[track] = NoInsert
     /\ IF missing = {}
        THEN ServeRetained(InOrder(range), largest.end) /\ UNCHANGED unserved
        ELSE /\ LeaveUnserved([kind |-> "Partial", first |-> first, end |-> largest.end,
                               objects |-> InOrder({l \in range : RespBefore(l, first)})])
             /\ UNCHANGED answer
     /\ track' = NoTrack
     /\ UNCHANGED <<rcase, written, created, feedVars, table, guard, largest, told>>

\* Mutant: the rest is one range in either order.
Spliced_AnyOrder == unserved.kind = "Partial" /\ unserved.objects # <<>>

\* splice_from: in ascending order the rest after what is retained is one range.
Spliced == /\ unserved.kind = "Partial" /\ unserved.objects # <<>>
           /\ ask.order = "Ascending"

\* An upstream FETCH of the rest, or of the whole range, follows what is retained.  The upstream
\* holds all that is published.
ServeUpstream ==
  LET from == IF Spliced THEN unserved.first ELSE ask.start
      prefix == IF Spliced THEN unserved.objects ELSE <<>>
      there == {At(o) : o \in {x \in Range(Published(ask.key)) : x.whole}}
      range == {l \in there : UpTo(from, l) /\ UpTo(l, InclusiveEnd(ask.end))}
  IN /\ stage = "opening" /\ ask.upstream
     /\ answer' = [objects |-> prefix \o InOrder(range), rest |-> "upstream", end |-> ask.end]
     /\ stage' = "answered"
     /\ UNCHANGED <<rcase, written, created, feedVars, table, guard, track, largest, unserved, told>>

\* Routing fails or takes longer than the deadline.
RoutingFails ==
  /\ stage = "opening" /\ ask.upstream
  /\ stage' = "rejected"
  /\ UNCHANGED <<rcase, written, created, feedVars, table, guard, track, largest, unserved, told,
                 answer>>

\* No upstream: what is retained and a range of unknown objects, or an error.
ServeAlone ==
  /\ stage = "opening" /\ ~ask.upstream
  /\ IF unserved.kind = "Partial"
     THEN /\ answer' = [objects |-> unserved.objects, rest |-> "unknown", end |-> unserved.end]
          /\ stage' = "answered"
     ELSE stage' = "rejected" /\ UNCHANGED answer
  /\ UNCHANGED <<rcase, written, created, feedVars, table, guard, track, largest, unserved, told>>

\* FETCH_CANCEL before an answer begins.
FetchClosed ==
  /\ stage \in {"start", "opening"} /\ ask.key # NoTrack
  /\ stage' = "closed"
  /\ UNCHANGED <<rcase, written, created, feedVars, table, guard, track, largest, unserved, told,
                 answer>>

RetentionNext ==
  \/ \E r \in Registrations :
       \/ Retain(r) \/ DropGuard(r) \/ FreeTrack(r) \/ TryInsert(r) \/ TrimWindow(r)
       \/ \E i \in DOMAIN rcase.objects[rcase.key[r]] : SkipObject(r, i) \/ BeginInsert(r, i)
  \/ \E k \in Keys :
       Write(k) \/ \E g \in {o.group : o \in Range(rcase.objects[k])} : CreateSubgroup(k, g)
  \/ LookupRetained \/ ReadLargest \/ CollectObjects \/ ServeUpstream \/ RoutingFails \/ ServeAlone
  \/ FetchClosed

RetentionSpec == RetentionInit /\ [][RetentionNext]_retentionVars

-----------------------------------------------------------------------------
RetentionTypeOK ==
  /\ rcase \in RetentionCases
  /\ \A k \in Keys : written[k] \in 0 .. Len(rcase.objects[k]) /\ created[k] \subseteq Nat
  /\ \A k \in Keys : table[k] \in Registrations \union {NoTrack}
  /\ \A r \in Registrations :
       /\ fed[r] \subseteq DOMAIN rcase.objects[rcase.key[r]]
       /\ inserting[r].stage \in {"none", "trying", "trimming"}
       /\ groups[r] \subseteq Range(rcase.objects[rcase.key[r]])
       /\ guard[r] \in {"none", "held", "dropped", "freed"}
  /\ stage \in {"start", "found", "planning", "opening", "answered", "rejected", "closed"}
  /\ track \in Registrations \union {NoTrack}

(* The shared budget is what the registrations hold together, and within its *)
(* limit whatever order they take from it and give back; each keeps its own  *)
(* account, window and arrival order, and an insert never drops the group    *)
(* its object belongs to.  The newest registration of a track is the one a   *)
(* FETCH finds, also when an older one is dropped late (Limits, insert,      *)
(* RetainedTrack::drop, RetentionGuard::drop).                               *)
RetentionSound ==
  /\ usedBytes = MapThenSumSet(LAMBDA r : bytes[r], Registrations)
  /\ usedBytes <= Limits.totalBytes
  /\ \A r \in Registrations :
       /\ bytes[r] = Cost(groups[r]) /\ bytes[r] <= Limits.trackBytes
       /\ Range(arrival[r]) = {o.group : o \in groups[r]} /\ IsInjective(arrival[r])
       /\ Len(arrival[r]) <= Limits.groups + (IF inserting[r].stage = "trimming" THEN 1 ELSE 0)
       /\ inserting[r].stage = "trying" /\ inserting[r].had
            => inserting[r].object.group \in Range(arrival[r])
  /\ \A k \in Keys :
       LET held == {r \in Registrations : rcase.key[r] = k /\ guard[r] = "held"}
           taken == {r \in Registrations : rcase.key[r] = k /\ guard[r] # "none"}
       IN taken # {} /\ Max(taken) \in held => table[k] = Max(taken)

\* The publisher's largest location is the largest there was: no subgroup leaves the history,
\* or the datagrams come in ascending order.
KnowsLargest(k) ==
  IF rcase.mode[k] = "Datagrams"
  THEN \A i, j \in DOMAIN rcase.objects[k] :
         i < j => UpTo(At(rcase.objects[k][i]), At(rcase.objects[k][j]))
  ELSE rcase.history[k] = 0

(* A FETCH answer is in order and without repetition, holds only what was    *)
(* published, and leaves out nothing of the range up to its End Location: a  *)
(* complete one has all that was published in it when the FETCH came, one    *)
(* that ends in an unknown range all that comes before it, whatever was      *)
(* written, evicted or replaced between the locks.  Its End Location falls   *)
(* short of what was asked for and published only when largest_location can: *)
(* after datagrams out of order, or subgroups that left the history (plan,   *)
(* serve_fetch).                                                             *)
FetchExact ==
  stage = "answered" =>
    LET there == {At(o) : o \in Range(Published(ask.key))}
        then == {At(o) : o \in {x \in Range(SubSeq(rcase.objects[ask.key], 1, told)) : x.whole}}
        wanted == {l \in then : UpTo(ask.start, l) /\ UpTo(l, InclusiveEnd(ask.end))}
        said == {l \in wanted : UpTo(l, InclusiveEnd(answer.end))}
        sent == answer.objects
    IN /\ Range(sent) \subseteq there
       /\ \A i, j \in DOMAIN sent : i < j => RespBefore(sent[i], sent[j])
       /\ IF answer.rest = "unknown"
          THEN \A l \in said : (\E i \in DOMAIN sent : RespBefore(l, sent[i])) => l \in Range(sent)
          ELSE said \subseteq Range(sent)
       /\ KnowsLargest(ask.key) => wanted \subseteq said

(* The retained objects stay within their limits and windows, and what they  *)
(* are served for is exactly what was asked for (retention.rs, producer.rs   *)
(* serve_fetch).                                                             *)
RetainedRight == RetentionSound /\ FetchExact
=============================================================================
