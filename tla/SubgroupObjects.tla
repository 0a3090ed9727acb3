-------------------------- MODULE SubgroupObjects ---------------------------
(***************************************************************************)
(* The objects of one subgroup (SubgroupWriter/Reader) and the chunks of   *)
(* each object (SubgroupObjectWriter/Reader), serve/subgroup.rs.  Objects  *)
(* are written in parallel with being read, each with a promised size.     *)
(* A chunk is its length; an object is at position n of `objects`.         *)
(***************************************************************************)
EXTENDS Integers, Sequences

CONSTANTS
  MaxId,        \* the largest object id, which stands for u64::MAX
  Sizes,        \* promised sizes
  Chunks,       \* chunk lengths; a chunk is never empty
  Readers,      \* tasks, each with its clone of the SubgroupReader
  MaxObjects    \* bound: objects created

NoId == MaxId + 1       \* next_object_id = None
Ids == 0 .. MaxId

SubgroupObjectsAssumption ==
  MaxId \in Nat /\ Sizes \subseteq Nat /\ Chunks \subseteq Nat \ {0} /\ MaxObjects \in Nat

VARIABLES
  writer,       \* the SubgroupWriter is alive
  nextId,       \* SubgroupWriter::next_object_id
  closed,       \* SubgroupState::closed.is_err()
  objects,      \* SubgroupState::objects with the state of each object
  reader,       \* "subgroup" or "object" (waiting in that next/read), "none", "err", "gone"
  index,        \* SubgroupReader::read_index
  chunk,        \* SubgroupObjectReader::index of the object being read
  bytes,        \* history: what was read of that object
  outcome       \* history: how each object that was read ended, "whole" or "broken"

vars == <<writer, nextId, closed, objects, reader, index, chunk, bytes, outcome>>
writerVars == <<writer, nextId, closed, objects>>
readerVars == <<reader, index, chunk, bytes, outcome>>

Init ==
  /\ writer = TRUE /\ nextId = 0 /\ closed = FALSE
  /\ objects = <<>>
  /\ reader = [r \in Readers |-> "subgroup"]
  /\ index = [r \in Readers |-> 0]
  /\ chunk = [r \in Readers |-> 0] /\ bytes = [r \in Readers |-> 0]
  /\ outcome = [r \in Readers |-> <<>>]

Held == \E r \in Readers : reader[r] # "gone"
Current(r) == objects[index[r]]

-----------------------------------------------------------------------------
(* SubgroupWriter                                                          *)

\* u64::checked_add(1).
CheckedSucc(id) == id + 1

\* An object id is accepted from next_object_id on.
IdAllowed(id) == nextId # NoId /\ id >= nextId

\* SubgroupWriter::create and create_with_id; the id advances even if all
\* readers are gone and the call returns Cancel.
CreateWithId(id, size) ==
  /\ writer
  /\ Len(objects) < MaxObjects
  /\ IdAllowed(id)
  /\ nextId' = CheckedSucc(id)
  /\ objects' = IF Held
       THEN Append(objects, [id |-> id, size |-> size, remain |-> size,
                             chunks |-> <<>>, closed |-> FALSE, writer |-> TRUE])
       ELSE objects
  /\ UNCHANGED <<writer, closed, readerVars>>

\* SubgroupWriter::close(err).
Close ==
  /\ writer
  /\ writer' = FALSE
  /\ closed' = Held
  /\ UNCHANGED <<nextId, objects, readerVars>>

DropWriter ==
  /\ writer
  /\ writer' = FALSE
  /\ UNCHANGED <<nextId, closed, objects, readerVars>>

-----------------------------------------------------------------------------
(* SubgroupObjectWriter                                                    *)

\* The object's readers live in SubgroupState, which any handle keeps.
ObjectHeld == writer \/ Held

\* SubgroupObjectWriter::write; a chunk past the promised size is refused,
\* and Cancel is returned after the chunk was taken off the remaining size.
WriteChunk(n, len) ==
  /\ objects[n].writer
  /\ len <= objects[n].remain
  /\ objects' = [objects EXCEPT ![n].remain = @ - len,
                                ![n].chunks = IF ObjectHeld THEN Append(@, len) ELSE @]
  /\ UNCHANGED <<writer, nextId, closed, readerVars>>

\* Mutant: a truncated object is not marked.
DropObject_NoMark(n) ==
  /\ objects[n].writer
  /\ objects' = [objects EXCEPT ![n].writer = FALSE]
  /\ UNCHANGED <<writer, nextId, closed, readerVars>>

\* SubgroupObjectWriter::drop marks an object that is short of its size.
DropObject(n) ==
  /\ objects[n].writer
  /\ objects' = [objects EXCEPT ![n].writer = FALSE,
                                ![n].closed = @ \/ (objects[n].remain # 0 /\ ObjectHeld)]
  /\ UNCHANGED <<writer, nextId, closed, readerVars>>

\* SubgroupObjectWriter::close(err); short objects are refused and dropped.
CloseObject(n) ==
  /\ objects[n].writer
  /\ objects' = [objects EXCEPT ![n].writer = FALSE,
                                ![n].closed = @ \/ ObjectHeld]
  /\ UNCHANGED <<writer, nextId, closed, readerVars>>

-----------------------------------------------------------------------------
(* Readers                                                                 *)

\* SubgroupReader::next returns an object; the task reads it.
NextObject(r) ==
  /\ reader[r] = "subgroup"
  /\ index[r] < Len(objects)
  /\ index' = [index EXCEPT ![r] = @ + 1]
  /\ chunk' = [chunk EXCEPT ![r] = 0] /\ bytes' = [bytes EXCEPT ![r] = 0]
  /\ reader' = [reader EXCEPT ![r] = "object"]
  /\ UNCHANGED <<writerVars, outcome>>

\* SubgroupReader::next returns the closing error, or None.
NextEnd(r) ==
  /\ reader[r] = "subgroup"
  /\ index[r] = Len(objects)
  /\ closed \/ ~writer
  /\ reader' = [reader EXCEPT ![r] = IF closed THEN "err" ELSE "none"]
  /\ UNCHANGED <<writerVars, index, chunk, bytes, outcome>>

\* SubgroupObjectReader::read returns a chunk.
ReadChunk(r) ==
  /\ reader[r] = "object"
  /\ chunk[r] < Len(Current(r).chunks)
  /\ chunk' = [chunk EXCEPT ![r] = @ + 1]
  /\ bytes' = [bytes EXCEPT ![r] = @ + Current(r).chunks[chunk[r] + 1]]
  /\ UNCHANGED <<writerVars, reader, index, outcome>>

\* SubgroupObjectReader::read returns None (the object is whole) or an error.
ReadEnd(r) ==
  /\ reader[r] = "object"
  /\ chunk[r] = Len(Current(r).chunks)
  /\ Current(r).closed \/ ~Current(r).writer
  /\ reader' = [reader EXCEPT ![r] = "subgroup"]
  /\ outcome' = [outcome EXCEPT ![r] =
       Append(@, [kind |-> IF Current(r).closed THEN "broken" ELSE "whole",
                  bytes |-> bytes[r]])]
  /\ UNCHANGED <<writerVars, index, chunk, bytes>>

DropReader(r) ==
  /\ reader[r] # "gone"
  /\ reader' = [reader EXCEPT ![r] = "gone"]
  /\ UNCHANGED <<writerVars, index, chunk, bytes, outcome>>

Next ==
  \/ \E id \in Ids, size \in Sizes : CreateWithId(id, size)
  \/ Close \/ DropWriter
  \/ \E n \in DOMAIN objects :
       \/ \E len \in Chunks : WriteChunk(n, len)
       \/ DropObject(n) \/ CloseObject(n)
  \/ \E r \in Readers :
       NextObject(r) \/ NextEnd(r) \/ ReadChunk(r) \/ ReadEnd(r) \/ DropReader(r)

Spec == Init /\ [][Next]_vars

-----------------------------------------------------------------------------
TypeOK ==
  /\ writer \in BOOLEAN /\ closed \in BOOLEAN
  /\ nextId \in Ids \cup {NoId}
  /\ objects \in Seq([id : Ids, size : Sizes, remain : Nat, chunks : Seq(Nat),
                      closed : BOOLEAN, writer : BOOLEAN])
  /\ reader \in [Readers -> {"subgroup", "object", "none", "err", "gone"}]
  /\ index \in [Readers -> 0 .. Len(objects)]
  /\ chunk \in [Readers -> Nat] /\ bytes \in [Readers -> Nat]
  /\ outcome \in [Readers -> Seq([kind : {"whole", "broken"}, bytes : Nat])]

(* subgroup.rs:409-414: object ids in a subgroup strictly increase, which   *)
(* the wire encoding of ids as deltas relies on, up to the largest id,      *)
(* after which nothing may follow.                                          *)
IdsIncrease ==
  /\ \A m, n \in DOMAIN objects : m < n => objects[m].id < objects[n].id
  /\ \A n \in DOMAIN objects : objects[n].id < nextId

(* subgroup.rs:622-632: an object that reads to a clean end has all the     *)
(* bytes it promised; one whose writer vanished early ends in an error.     *)
NoTruncatedObject ==
  \A r \in Readers : \A n \in DOMAIN outcome[r] :
    outcome[r][n].kind = "whole" => outcome[r][n].bytes = objects[n].size

(* subgroup.rs:477-495: a reader is told the subgroup ended only after it   *)
(* was given every object of it.                                            *)
EndAfterObjects ==
  \A r \in Readers : reader[r] \in {"none", "err"} =>
    ~writer /\ index[r] = Len(objects)

=============================================================================
