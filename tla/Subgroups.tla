----------------------------- MODULE Subgroups ------------------------------
(***************************************************************************)
(* SubgroupsWriter and SubgroupsReader (serve/subgroup.rs) with the track's*)
(* taps (serve/tap.rs): one writer creates subgroups of a track, any number*)
(* of readers and taps observe them, and a history window bounds what is   *)
(* retained.                                                               *)
(*                                                                         *)
(* SubgroupsState::subgroups is a VecDeque sorted by creation index, so it *)
(* is modelled by the set of the indexes in it; created[i + 1] is the key  *)
(* of the subgroup with index i.  A reader that would block has no enabled *)
(* step: WatchState shows that it is woken when it has one.                *)
(***************************************************************************)
EXTENDS Integers, Sequences, FiniteSets

CONSTANTS
  MaxGroup,     \* the largest group id, which stands for u64::MAX
  Subs,         \* subgroup ids used
  Windows,      \* history windows the writer may be given
  Readers, Taps,
  MaxCreates    \* bound: subgroups created

Groups == 0 .. MaxGroup
NoWindow == 0       \* Option<NonZeroU64>::None
NoGroup == -1       \* newest_group_id = None

SubgroupsAssumption ==
  /\ MaxGroup \in Nat
  /\ Subs \subseteq Nat /\ 0 \in Subs
  /\ Windows \subseteq Nat \ {NoWindow}
  /\ MaxCreates \in Nat

VARIABLES
  created,      \* history: key of every subgroup created, in order
  retained,     \* SubgroupsState::subgroups, as the set of its indexes
  closed,       \* SubgroupsState::closed.is_err()
  writer,       \* the SubgroupsWriter is alive
  window,       \* SubgroupsWriter::history_window_groups
  newest,       \* SubgroupsWriter::newest_group_id
  nextGroup,    \* SubgroupsWriter::next_group_id
  reader,       \* reader handles: "absent", "live", "none" (got None), "err", "gone"
  readIndex,    \* SubgroupsReader::read_index
  got,          \* history: indexes each reader received, in order
  tapFrom,      \* next_index when the tap was created, NoGroup before
  tapped        \* history: indexes handed to each tap

vars == <<created, retained, closed, writer, window, newest, nextGroup,
          reader, readIndex, got, tapFrom, tapped>>
readerVars == <<reader, readIndex, got>>
tapVars == <<tapFrom, tapped>>

nextIndex == Len(created)
Key(i) == created[i + 1]
Indexes == 0 .. nextIndex - 1

\* Group and subgroup id pair, the ordering key of a subgroup.
Keys == [group : Groups, sub : Subs]

\* lock_mut succeeds while the writer half and some reader handle are alive.
Live == writer /\ \E r \in Readers : reader[r] \notin {"absent", "gone"}

\* u64::saturating_add(1) on a group id.
SatSucc(g) == IF g = MaxGroup THEN g ELSE g + 1

Init ==
  /\ created = <<>>
  /\ retained = {}
  /\ closed = FALSE
  /\ writer = TRUE
  /\ window \in Windows \cup {NoWindow}
  /\ newest = NoGroup
  /\ nextGroup = 0
  /\ \E first \in Readers :
       reader = [r \in Readers |-> IF r = first THEN "live" ELSE "absent"]
  /\ readIndex = [r \in Readers |-> 0]
  /\ got = [r \in Readers |-> <<>>]
  /\ tapFrom = [t \in Taps |-> NoGroup]
  /\ tapped = [t \in Taps |-> <<>>]

-----------------------------------------------------------------------------
(* Writer                                                                  *)

\* Entries the window keeps: less than `window` groups behind the newest.
InWindow(indexes, keys, win, top) ==
  {i \in indexes : win = NoWindow \/ top - keys[i + 1].group < win}

\* TrackTaps::emit: hand the subgroup to every open tap.
Emit(index) ==
  tapped' = [t \in Taps |-> IF tapFrom[t] = NoGroup THEN tapped[t]
                                                  ELSE Append(tapped[t], index)]

\* SubgroupsWriter::create past the Cancel and Duplicate returns.
Insert(key) ==
  /\ Emit(nextIndex)
  /\ created' = Append(created, key)
  /\ newest' = IF key.group > newest THEN key.group ELSE newest
  /\ nextGroup' = SatSucc(key.group)
  /\ retained' = InWindow(retained \cup {nextIndex}, created', window, newest')

\* Mutant: repeated keys are let in.
Create_NoDuplicateCheck(key) ==
  /\ Live
  /\ nextIndex < MaxCreates
  /\ Insert(key)
  /\ UNCHANGED <<closed, writer, window, readerVars, tapFrom>>

\* SubgroupsWriter::create.  Cancel and Duplicate return without an effect.
Create(key) ==
  /\ Live
  /\ nextIndex < MaxCreates
  /\ \A i \in retained : Key(i) # key
  /\ Insert(key)
  /\ UNCHANGED <<closed, writer, window, readerVars, tapFrom>>

\* SubgroupsWriter::append: every subgroup starts the next group.
AppendGroup == Create([group |-> nextGroup, sub |-> 0])

\* SubgroupsWriter::set_history_window.  A track's window comes from its
\* publisher or from one SUBSCRIBE_OK, so it is set at most once.
SetHistoryWindow(n) ==
  /\ writer
  /\ window = NoWindow
  /\ window' = n
  /\ UNCHANGED <<created, retained, closed, writer, newest, nextGroup, readerVars, tapVars>>

\* SubgroupsWriter::close(err): consumes the writer; Cancel without readers.
Close ==
  /\ writer
  /\ writer' = FALSE
  /\ closed' = (closed \/ Live)
  /\ UNCHANGED <<created, retained, window, newest, nextGroup, readerVars, tapVars>>

\* The writer is dropped without close().
DropWriter ==
  /\ writer
  /\ writer' = FALSE
  /\ UNCHANGED <<created, retained, closed, window, newest, nextGroup, readerVars, tapVars>>

-----------------------------------------------------------------------------
(* Readers                                                                 *)

\* Retained subgroups at or past the reader's cursor (partition_point).
Ahead(r) == {i \in retained : i >= readIndex[r]}

\* Mutant: the cursor is a position in the queue, as before creation indexes.
NextSubgroup_ByPosition(r) ==
  /\ reader[r] = "live"
  /\ readIndex[r] < Cardinality(retained)
  /\ LET i == CHOOSE x \in retained : Cardinality({y \in retained : y < x}) = readIndex[r]
     IN /\ readIndex' = [readIndex EXCEPT ![r] = @ + 1]
        /\ got' = [got EXCEPT ![r] = Append(@, i)]
  /\ UNCHANGED <<created, retained, closed, writer, window, newest, nextGroup, reader, tapVars>>

\* Mutant: jump to the newest retained subgroup, the former latest-wins rule.
NextSubgroup_LatestWins(r) ==
  /\ reader[r] = "live"
  /\ \E i \in Ahead(r) :
       /\ \A j \in Ahead(r) : i >= j
       /\ readIndex' = [readIndex EXCEPT ![r] = i + 1]
       /\ got' = [got EXCEPT ![r] = Append(@, i)]
  /\ UNCHANGED <<created, retained, closed, writer, window, newest, nextGroup, reader, tapVars>>

\* SubgroupsReader::next returns the first of them.
NextSubgroup(r) ==
  /\ reader[r] = "live"
  /\ \E i \in Ahead(r) :
       /\ \A j \in Ahead(r) : i <= j
       /\ readIndex' = [readIndex EXCEPT ![r] = i + 1]
       /\ got' = [got EXCEPT ![r] = Append(@, i)]
  /\ UNCHANGED <<created, retained, closed, writer, window, newest, nextGroup, reader, tapVars>>

\* SubgroupsReader::next returns the closing error, or None after a drop.
NextEnd(r) ==
  /\ reader[r] = "live"
  /\ Ahead(r) = {}
  /\ closed \/ ~writer
  /\ reader' = [reader EXCEPT ![r] = IF closed THEN "err" ELSE "none"]
  /\ UNCHANGED <<created, retained, closed, writer, window, newest, nextGroup, readIndex, got, tapVars>>

\* SubgroupsReader::clone: the clone inherits the cursor.
CloneReader(r, s) ==
  /\ reader[r] = "live" /\ reader[s] = "absent"
  /\ reader' = [reader EXCEPT ![s] = "live"]
  /\ readIndex' = [readIndex EXCEPT ![s] = readIndex[r]]
  /\ got' = [got EXCEPT ![s] = got[r]]
  /\ UNCHANGED <<created, retained, closed, writer, window, newest, nextGroup, tapVars>>

DropReader(r) ==
  /\ reader[r] \in {"live", "none", "err"}
  /\ reader' = [reader EXCEPT ![r] = "gone"]
  /\ UNCHANGED <<created, retained, closed, writer, window, newest, nextGroup, readIndex, got, tapVars>>

\* TapRegistrar::tap while the writer holds the tap list.
AddTap(t) ==
  /\ writer
  /\ tapFrom[t] = NoGroup
  /\ tapFrom' = [tapFrom EXCEPT ![t] = nextIndex]
  /\ UNCHANGED <<created, retained, closed, writer, window, newest, nextGroup, readerVars, tapped>>

Next ==
  \/ \E k \in Keys : Create(k)
  \/ AppendGroup
  \/ \E n \in Windows : SetHistoryWindow(n)
  \/ Close
  \/ DropWriter
  \/ \E r \in Readers : NextSubgroup(r) \/ NextEnd(r) \/ DropReader(r)
  \/ \E r, s \in Readers : CloneReader(r, s)
  \/ \E t \in Taps : AddTap(t)

\* A session task keeps calling next() until it ends.
Fairness == \A r \in Readers : WF_vars(NextSubgroup(r)) /\ WF_vars(NextEnd(r))

Spec == Init /\ [][Next]_vars
FairSpec == Spec /\ Fairness

-----------------------------------------------------------------------------
TypeOK ==
  /\ created \in Seq(Keys)
  /\ retained \subseteq Indexes
  /\ closed \in BOOLEAN /\ writer \in BOOLEAN
  /\ window \in Windows \cup {NoWindow}
  /\ newest \in Groups \cup {NoGroup}
  /\ nextGroup \in Groups
  /\ reader \in [Readers -> {"absent", "live", "none", "err", "gone"}]
  /\ readIndex \in [Readers -> 0 .. nextIndex]
  /\ got \in [Readers -> Seq(Nat)]
  /\ tapFrom \in [Taps -> Nat \cup {NoGroup}]
  /\ tapped \in [Taps -> Seq(Nat)]

\* Indexes reader r received.
Got(r) == {got[r][n] : n \in DOMAIN got[r]}

(* subgroup.rs:46-50: every reader receives subgroups in creation order,    *)
(* none twice, although pruning removes entries from the middle of the      *)
(* queue while the reader's cursor stands still.                            *)
DeliveredInOrder ==
  \A r \in Readers : \A m, n \in DOMAIN got[r] : m < n => got[r][m] < got[r][n]

(* subgroup.rs:141-147: a reader never passes over a subgroup that is still *)
(* inside the history window: whatever its cursor has passed and it did not *)
(* receive has left the window.                                             *)
SkippedOnlyIfPruned ==
  \A r \in Readers : \A i \in Indexes :
    i < readIndex[r] /\ i \notin Got(r) => window # NoWindow /\ newest - Key(i).group >= window

(* subgroup.rs:147-148 "readers never receive two entries with the same     *)
(* ordering key", also when a key is created again after it was pruned.     *)
DeliveredKeysUnique ==
  \A r \in Readers : \A m, n \in DOMAIN got[r] :
    m # n => Key(got[r][m]) # Key(got[r][n])

(* tap.rs:4-17: a tap is handed every subgroup created since it was added,  *)
(* in order, also those the history window drops at once.                   *)
TapLossless ==
  \A t \in Taps : tapFrom[t] # NoGroup =>
    tapped[t] = [n \in 1 .. nextIndex - tapFrom[t] |-> tapFrom[t] + n - 1]

(* SubgroupsReader::next: a reader is told the track ended only after it    *)
(* has been offered everything that is still retained.                      *)
EndAfterDrain ==
  \A r \in Readers : reader[r] \in {"none", "err"} => ~writer /\ Ahead(r) = {}

(* subgroup.rs, tap.rs: a reader gets subgroups in order and none twice,    *)
(* passes over one only if the history window has left it behind, and is    *)
(* told of the end last; a tap misses nothing.                              *)
SubgroupsDelivered ==
  /\ DeliveredInOrder /\ DeliveredKeysUnique
  /\ SkippedOnlyIfPruned /\ EndAfterDrain /\ TapLossless

(* A reader that keeps calling next() gets every subgroup ahead of it,      *)
(* unless the window prunes it first.                                       *)
EventuallyDelivered ==
  \A r \in Readers : \A i \in 0 .. MaxCreates - 1 :
    (reader[r] = "live" /\ i \in Ahead(r)) ~> (i \in Got(r) \/ i \notin retained \/ reader[r] = "gone")

\* Refinement: the subgroups of a track are a lossy log.
Abstract == INSTANCE LossyLog WITH
  appended <- nextIndex,
  expired <- Indexes \ retained,
  open <- writer,
  pos <- readIndex,
  ended <- {r \in Readers : reader[r] \in {"none", "err"}}

(* The subgroups of a track implement the fan-out contract LossyLog.        *)
ImplementsLossyLog == Abstract!LogSpec
=============================================================================
