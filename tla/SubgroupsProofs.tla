-------------------------- MODULE SubgroupsProofs ---------------------------
(***************************************************************************)
(* What a reader of a track's subgroups is promised, for any number of     *)
(* readers, taps, groups and subgroups and every history window.  The      *)
(* inductive invariant says why a key that is created again after it was   *)
(* pruned is delivered to nobody: a subgroup that is not retained has left *)
(* the window (PrunedIsOld), so one with the same key leaves it at once    *)
(* (RetainedIsFresh).                                                      *)
(***************************************************************************)
EXTENDS Subgroups, TLAPS

\* A subgroup that is not retained has left the window.
PrunedIsOld ==
  \A i \in Indexes \ retained : window # NoWindow /\ newest - Key(i).group >= window

\* The first subgroup created with its key.
Fresh(i) == \A j \in 0 .. i - 1 : Key(j) # Key(i)

RetainedIsFresh == \A i \in retained : Fresh(i)

\* What a reader has received lies before its cursor, in order, and nothing
\* retained before the cursor is missing.
CursorExact ==
  \A r \in Readers :
    /\ \A i \in Got(r) : i < readIndex[r] /\ Fresh(i)
    /\ \A m, n \in DOMAIN got[r] : m < n => got[r][m] < got[r][n]
    /\ \A i \in retained : i < readIndex[r] => i \in Got(r)

ReadersInv == PrunedIsOld /\ RetainedIsFresh /\ CursorExact

\* A closed track has no writer.
EndInv == (closed => ~writer) /\ EndAfterDrain

TapsInv ==
  /\ TapLossless
  /\ \A t \in Taps : IF tapFrom[t] = NoGroup THEN tapped[t] = <<>> ELSE tapFrom[t] <= nextIndex

-----------------------------------------------------------------------------
(* Types                                                                   *)

\* create() numbers the subgroup and leaves the earlier ones as they are.
LEMMA Created ==
  ASSUME SubgroupsAssumption, TypeOK, NEW key \in Keys, Create(key)
  PROVE  /\ nextIndex \in Nat /\ nextIndex' = nextIndex + 1
         /\ created' \in Seq(Keys)
         /\ \A i \in Indexes : created'[i + 1] = created[i + 1] /\ created[i + 1] \in Keys
         /\ created'[nextIndex + 1] = key
         /\ Indexes' = Indexes \cup {nextIndex} /\ nextIndex \notin Indexes
         /\ newest' \in Groups /\ newest \in Int /\ key.group \in Groups
         /\ newest' >= newest /\ newest' >= key.group
         /\ retained' \subseteq retained \cup {nextIndex}
         /\ \A i \in retained \cup {nextIndex} :
              i \in retained' <=> window = NoWindow \/ newest' - created'[i + 1].group < window
         /\ \A i \in retained : Key(i) # key
         /\ UNCHANGED <<closed, writer, window, reader, readIndex, got, tapFrom>>
<1>1. created \in Seq(Keys) /\ created' = Append(created, key) /\ nextIndex = Len(created)
  BY DEF TypeOK, Create, Insert, nextIndex
<1>2. /\ nextIndex \in Nat /\ nextIndex' = nextIndex + 1 /\ created' \in Seq(Keys)
      /\ created'[nextIndex + 1] = key
      /\ \A n \in 1 .. nextIndex : created'[n] = created[n] /\ created[n] \in Keys
  BY <1>1 DEF nextIndex
<1>3. Indexes' = Indexes \cup {nextIndex} /\ nextIndex \notin Indexes
      /\ \A i \in Indexes : i + 1 \in 1 .. nextIndex
  BY <1>2 DEF Indexes
<1>4. newest' \in Groups /\ newest \in Int /\ key.group \in Groups /\ newest' >= newest /\ newest' >= key.group
  BY DEF TypeOK, Create, Insert, Groups, Keys, NoGroup, SubgroupsAssumption
<1>5. retained' = {i \in retained \cup {nextIndex} :
                     window = NoWindow \/ newest' - created'[i + 1].group < window}
  BY DEF Create, Insert, InWindow
<1>6. /\ \A i \in retained : Key(i) # key
      /\ UNCHANGED <<closed, writer, window, reader, readIndex, got, tapFrom>>
  BY DEF Create, readerVars
<1> QED
  BY <1>2, <1>3, <1>4, <1>5, <1>6

LEMMA AppendGroupCreates ==
  ASSUME SubgroupsAssumption, TypeOK, AppendGroup
  PROVE  \E key \in Keys : Create(key)
<1>1. [group |-> nextGroup, sub |-> 0] \in Keys
  BY DEF Keys, TypeOK, SubgroupsAssumption
<1> QED
  BY <1>1 DEF AppendGroup

LEMMA TypeStep ==
  ASSUME SubgroupsAssumption, TypeOK, [Next]_vars
  PROVE  TypeOK'
<1> USE DEF TypeOK
<1>1. ASSUME NEW key \in Keys, Create(key) PROVE TypeOK'
  <2>1. retained' \subseteq Indexes' /\ readIndex \in [Readers -> 0 .. nextIndex'] /\ nextIndex \in Nat
    BY <1>1, Created
  <2>2. nextGroup' \in Groups
    BY <1>1 DEF Create, Insert, SatSucc, Groups, Keys, SubgroupsAssumption
  <2>3. tapped' \in [Taps -> Seq(Nat)]
    BY <1>1, <2>1 DEF Create, Insert, Emit
  <2>4. created' \in Seq(Keys) /\ newest' \in Groups /\ UNCHANGED <<closed, writer, window, reader, readIndex, got, tapFrom>>
    BY <1>1, Created
  <2> QED
    BY <2>1, <2>2, <2>3, <2>4
<1>2. CASE AppendGroup
  BY <1>1, <1>2, AppendGroupCreates
<1>3. ASSUME NEW n \in Windows, SetHistoryWindow(n) PROVE TypeOK'
  BY <1>3 DEF SetHistoryWindow, readerVars, tapVars, Indexes, nextIndex
<1>4. CASE Close
  BY <1>4 DEF Close, readerVars, tapVars, Indexes, nextIndex
<1>5. CASE DropWriter
  BY <1>5 DEF DropWriter, readerVars, tapVars, Indexes, nextIndex
<1>6. ASSUME NEW r \in Readers, NextSubgroup(r) PROVE TypeOK'
  <2>1. PICK i \in Ahead(r) : /\ readIndex' = [readIndex EXCEPT ![r] = i + 1]
                              /\ got' = [got EXCEPT ![r] = Append(@, i)]
    BY <1>6 DEF NextSubgroup
  <2>2. nextIndex \in Nat /\ UNCHANGED nextIndex /\ i \in Nat /\ i < nextIndex
    BY <1>6, <2>1 DEF NextSubgroup, nextIndex, Ahead, Indexes
  <2>3. readIndex' \in [Readers -> 0 .. nextIndex']
    BY <2>1, <2>2
  <2>4. got' \in [Readers -> Seq(Nat)]
    BY <2>1, <2>2
  <2> QED
    BY <1>6, <2>3, <2>4 DEF NextSubgroup, tapVars, Indexes, nextIndex
<1>7. ASSUME NEW r \in Readers, NextEnd(r) PROVE TypeOK'
  BY <1>7 DEF NextEnd, tapVars, Indexes, nextIndex
<1>8. ASSUME NEW r \in Readers, DropReader(r) PROVE TypeOK'
  BY <1>8 DEF DropReader, tapVars, Indexes, nextIndex
<1>9. ASSUME NEW r \in Readers, NEW s \in Readers, CloneReader(r, s) PROVE TypeOK'
  BY <1>9 DEF CloneReader, tapVars, Indexes, nextIndex
<1>10. ASSUME NEW t \in Taps, AddTap(t) PROVE TypeOK'
  BY <1>10 DEF AddTap, readerVars, Indexes, nextIndex
<1>11. CASE UNCHANGED vars
  BY <1>11 DEF vars, Indexes, nextIndex
<1> QED
  BY <1>1, <1>2, <1>3, <1>4, <1>5, <1>6, <1>7, <1>8, <1>9, <1>10, <1>11 DEF Next

-----------------------------------------------------------------------------
(* Delivery                                                                *)

\* A subgroup whose key was created before is pruned at once.
LEMMA CreateKeepsOrder ==
  ASSUME SubgroupsAssumption, TypeOK, ReadersInv, NEW key \in Keys, Create(key)
  PROVE  ReadersInv'
<1>c. nextIndex \in Nat /\ Indexes = 0 .. nextIndex - 1 /\ retained \subseteq Indexes
  BY Created DEF Indexes, TypeOK
<1>w. window \in Int
  BY DEF TypeOK, SubgroupsAssumption, NoWindow
<1>k. \A i \in Indexes : Key(i)' = Key(i) /\ Key(i) = created[i + 1] /\ Key(i).group \in Int
  BY Created DEF Key, Keys, Groups, SubgroupsAssumption
<1>n. PICK top \in Nat : /\ top = nextIndex /\ Key(top)' = key
                         /\ key.group \in Int /\ newest' \in Int /\ newest \in Int
  BY Created DEF Key, Groups, SubgroupsAssumption
<1>1. PrunedIsOld'
  <2> SUFFICES ASSUME NEW i \in Indexes', i \notin retained'
               PROVE  window # NoWindow /\ newest' - Key(i)'.group >= window
    BY Created DEF PrunedIsOld
  <2>1. CASE i \in retained \cup {top}
    <3>1. ~(window = NoWindow \/ newest' - created'[i + 1].group < window)
      BY <2>1, <1>n, Created
    <3>2. Key(i)' = created'[i + 1]
      BY DEF Key
    <3>3. Key(i)'.group \in Int
      BY <2>1, <1>c, <1>k, <1>n
    <3> QED
      BY <3>1, <3>2, <3>3, <1>w, <1>n
  <2>2. CASE i \in Indexes \ retained
    <3>1. window # NoWindow /\ newest - Key(i).group >= window
      BY <2>2 DEF ReadersInv, PrunedIsOld
    <3>2. newest' >= newest /\ Key(i)' = Key(i) /\ Key(i).group \in Int
      BY <2>2, <1>k, Created
    <3> QED
      BY <3>1, <3>2, <1>n, <1>w
  <2> QED
    BY <2>1, <2>2, <1>n, Created
<1>2. \A i \in Indexes : Fresh(i) => Fresh(i)'
  <2> SUFFICES ASSUME NEW i \in Indexes, Fresh(i), NEW j \in 0 .. i - 1
               PROVE  Key(j)' # Key(i)'
    BY DEF Fresh
  <2>1. j \in Indexes
    BY <1>c
  <2> QED
    BY <2>1, <1>k DEF Fresh
<1>3. ASSUME top \in retained' PROVE Fresh(top)'
  <2> SUFFICES ASSUME NEW j \in Indexes, Key(j) = key PROVE FALSE
    <3>1. 0 .. top - 1 = Indexes
      BY <1>c, <1>n
    <3> QED
      BY <3>1, <1>k, <1>n DEF Fresh
  <2>1. j \notin retained
    BY Created
  <2>2. window # NoWindow /\ newest - key.group >= window
    BY <2>1 DEF ReadersInv, PrunedIsOld
  <2>3. newest' - key.group < window
    BY <1>3, <2>2, <1>n, Created
  <2> QED
    BY <2>2, <2>3, <1>n, <1>w, Created
<1>4. RetainedIsFresh'
  <2> SUFFICES ASSUME NEW i \in retained' PROVE Fresh(i)'
    BY DEF RetainedIsFresh
  <2>1. i \in retained \/ i = top
    BY <1>n, Created
  <2> QED
    BY <1>c, <1>2, <1>3, <2>1 DEF ReadersInv, RetainedIsFresh
<1>5. CursorExact'
  <2> SUFFICES ASSUME NEW r \in Readers
               PROVE  /\ \A i \in Got(r) : i < readIndex[r] /\ Fresh(i)'
                      /\ \A m, n \in DOMAIN got[r] : m < n => got[r][m] < got[r][n]
                      /\ \A i \in retained' : i < readIndex[r] => i \in Got(r)
    <3>1. UNCHANGED <<readIndex, got>> /\ \A r \in Readers : Got(r)' = Got(r)
      BY Created DEF Got
    <3> QED
      BY <3>1 DEF CursorExact
  <2>1. readIndex[r] \in 0 .. nextIndex /\ Got(r) \subseteq Nat
    BY DEF TypeOK, Got
  <2>2. Got(r) \subseteq Indexes
    BY <1>c, <2>1 DEF ReadersInv, CursorExact
  <2>3. \A i \in retained' : i < readIndex[r] => i \in retained
    BY <1>c, <2>1, Created
  <2> QED
    BY <1>2, <2>2, <2>3 DEF ReadersInv, CursorExact
<1> QED
  BY <1>1, <1>4, <1>5 DEF ReadersInv

\* The reader receives the first retained subgroup at or past its cursor.
LEMMA ReadKeepsOrder ==
  ASSUME SubgroupsAssumption, TypeOK, ReadersInv, NEW r \in Readers, NextSubgroup(r)
  PROVE  ReadersInv'
<1>1. PICK i \in Ahead(r) : /\ \A j \in Ahead(r) : i <= j
                            /\ readIndex' = [readIndex EXCEPT ![r] = i + 1]
                            /\ got' = [got EXCEPT ![r] = Append(@, i)]
  BY DEF NextSubgroup
<1>2. UNCHANGED <<created, retained, window, newest>>
  BY DEF NextSubgroup
<1>3. PrunedIsOld' /\ RetainedIsFresh' /\ \A j : Fresh(j)' = Fresh(j)
  BY <1>2 DEF ReadersInv, PrunedIsOld, RetainedIsFresh, Fresh, Key, Indexes, nextIndex
<1>4. /\ i \in retained /\ i \in Nat /\ i >= readIndex[r] /\ retained \subseteq Nat
      /\ readIndex \in [Readers -> Nat] /\ got \in [Readers -> Seq(Nat)]
  BY DEF Ahead, TypeOK, Indexes, nextIndex
<1>5. ASSUME NEW s \in Readers
      PROVE  /\ \A j \in Got(s)' : j < readIndex'[s] /\ Fresh(j)'
             /\ \A m, n \in DOMAIN got'[s] : m < n => got'[s][m] < got'[s][n]
             /\ \A j \in retained' : j < readIndex'[s] => j \in Got(s)'
  <2>1. CASE s # r
    <3>1. got'[s] = got[s] /\ readIndex'[s] = readIndex[s] /\ Got(s)' = Got(s)
      BY <2>1, <1>1, <1>4 DEF Got
    <3> QED
      BY <3>1, <1>2, <1>3 DEF ReadersInv, CursorExact
  <2>2. CASE s = r
    <3> DEFINE k == Len(got[r])
    <3>1. /\ k \in Nat /\ DOMAIN got[r] = 1 .. k
          /\ DOMAIN got'[r] = 1 .. k + 1 /\ got'[r][k + 1] = i
          /\ \A n \in 1 .. k : got'[r][n] = got[r][n] /\ got[r][n] \in Nat
      BY <1>1, <1>4
    <3>2. readIndex'[r] = i + 1 /\ readIndex[r] \in Nat
      BY <1>1, <1>4
    <3>3. /\ \A j \in Got(r) : j < readIndex[r] /\ Fresh(j)
          /\ \A m, n \in 1 .. k : m < n => got[r][m] < got[r][n]
          /\ \A j \in retained : j < readIndex[r] => j \in Got(r)
          /\ Fresh(i)
      BY <1>4, <3>1 DEF ReadersInv, CursorExact, RetainedIsFresh
    <3> HIDE DEF k
    <3>4. \A n \in 1 .. k + 1 : n \in 1 .. k \/ n = k + 1
      BY <3>1
    <3>5. Got(r) \subseteq Nat /\ \A n \in 1 .. k : got[r][n] \in Got(r)
      BY <3>1 DEF Got
    <3>6. \A j \in Got(r) : j < i
      BY <1>4, <3>2, <3>3, <3>5
    <3>7. ASSUME NEW m \in 1 .. k + 1, NEW n \in 1 .. k + 1, m < n PROVE got'[r][m] < got'[r][n]
      <4>1. m \in 1 .. k /\ got'[r][m] = got[r][m]
        BY <3>1, <3>7
      <4>2. n \in 1 .. k => got'[r][n] = got[r][n]
        BY <3>1
      <4> QED
        BY <3>1, <3>3, <3>4, <3>5, <3>6, <3>7, <4>1, <4>2
    <3>8. Got(r)' = Got(r) \cup {i}
      BY <3>1, <3>4 DEF Got
    <3>9. \A j \in Got(r)' : j < i + 1 /\ Fresh(j)'
      BY <1>3, <1>4, <3>3, <3>5, <3>6, <3>8
    <3>10. ASSUME NEW j \in retained, j < i + 1 PROVE j \in Got(r)'
      <4>1. j < readIndex[r] \/ j = i
        BY <1>1, <1>4, <3>2, <3>10 DEF Ahead
      <4> QED
        BY <3>3, <3>8, <4>1
    <3> QED
      BY <2>2, <1>2, <3>1, <3>2, <3>7, <3>9, <3>10
  <2> QED
    BY <2>1, <2>2
<1> QED
  BY <1>3, <1>5 DEF ReadersInv, CursorExact

LEMMA ReadersStep ==
  ASSUME SubgroupsAssumption, TypeOK, ReadersInv, [Next]_vars
  PROVE  ReadersInv'
<1>a. ASSUME UNCHANGED <<created, retained, window, newest, readIndex, got>> PROVE ReadersInv'
  BY <1>a DEF ReadersInv, PrunedIsOld, RetainedIsFresh, CursorExact, Fresh, Got, Key, Indexes, nextIndex
<1>1. ASSUME NEW n \in Windows, SetHistoryWindow(n) PROVE ReadersInv'
  <2>1. UNCHANGED <<created, retained, newest, readIndex, got>> /\ window = NoWindow
    BY <1>1 DEF SetHistoryWindow, readerVars
  <2>2. PrunedIsOld'
    BY <2>1 DEF ReadersInv, PrunedIsOld, Indexes, nextIndex
  <2> QED
    BY <2>1, <2>2 DEF ReadersInv, RetainedIsFresh, CursorExact, Fresh, Got, Key
<1>2. ASSUME NEW r \in Readers, NEW s \in Readers, CloneReader(r, s) PROVE ReadersInv'
  <2>1. /\ UNCHANGED <<created, retained, window, newest>>
        /\ readIndex' = [readIndex EXCEPT ![s] = readIndex[r]]
        /\ got' = [got EXCEPT ![s] = got[r]]
    BY <1>2 DEF CloneReader
  <2>2. readIndex \in [Readers -> 0 .. nextIndex] /\ got \in [Readers -> Seq(Nat)]
    BY DEF TypeOK
  <2>3. \A q \in Readers : \E p \in Readers : readIndex'[q] = readIndex[p] /\ got'[q] = got[p]
    BY <2>1, <2>2
  <2>4. CursorExact'
    BY <2>1, <2>3 DEF ReadersInv, CursorExact, Got, Fresh, Key
  <2> QED
    BY <2>1, <2>4 DEF ReadersInv, PrunedIsOld, RetainedIsFresh, Fresh, Key, Indexes, nextIndex
<1>3. CASE AppendGroup
  BY <1>3, AppendGroupCreates, CreateKeepsOrder
<1>4. CASE Close \/ DropWriter
  BY <1>4, <1>a DEF Close, DropWriter, readerVars
<1>5. ASSUME NEW r \in Readers, NextEnd(r) \/ DropReader(r) PROVE ReadersInv'
  BY <1>5, <1>a DEF NextEnd, DropReader
<1>6. ASSUME NEW t \in Taps, AddTap(t) PROVE ReadersInv'
  BY <1>6, <1>a DEF AddTap, readerVars
<1>7. CASE UNCHANGED vars
  BY <1>7, <1>a DEF vars
<1> QED
  BY <1>1, <1>2, <1>3, <1>4, <1>5, <1>6, <1>7, CreateKeepsOrder, ReadKeepsOrder DEF Next

LEMMA EndStep ==
  ASSUME TypeOK, EndInv, [Next]_vars
  PROVE  EndInv'
<1> USE DEF EndInv, EndAfterDrain, Ahead, TypeOK
<1>1. ASSUME NEW key, Create(key) PROVE EndInv'
  BY <1>1 DEF Create, Live, readerVars
<1>2. ASSUME NEW n \in Windows, SetHistoryWindow(n) PROVE EndInv'
  BY <1>2 DEF SetHistoryWindow, readerVars
<1>3. CASE Close
  BY <1>3 DEF Close, Live, readerVars
<1>4. CASE DropWriter
  BY <1>4 DEF DropWriter, readerVars
<1>5. ASSUME NEW r \in Readers, NextSubgroup(r) PROVE EndInv'
  BY <1>5 DEF NextSubgroup
<1>6. ASSUME NEW r \in Readers, NextEnd(r) PROVE EndInv'
  BY <1>6 DEF NextEnd
<1>7. ASSUME NEW r \in Readers, DropReader(r) PROVE EndInv'
  BY <1>7 DEF DropReader
<1>8. ASSUME NEW r \in Readers, NEW s \in Readers, CloneReader(r, s) PROVE EndInv'
  BY <1>8 DEF CloneReader
<1>9. ASSUME NEW t \in Taps, AddTap(t) PROVE EndInv'
  BY <1>9 DEF AddTap, readerVars
<1>10. CASE UNCHANGED vars
  BY <1>10 DEF vars
<1> QED
  BY <1>1, <1>2, <1>3, <1>4, <1>5, <1>6, <1>7, <1>8, <1>9, <1>10 DEF Next, AppendGroup

\* The tap list is written to before the window prunes, so a tap follows the
\* writer and not the queue.
LEMMA TapsStep ==
  ASSUME SubgroupsAssumption, TypeOK, TapsInv, [Next]_vars
  PROVE  TapsInv'
<1>a. ASSUME UNCHANGED <<created, tapFrom, tapped>> PROVE TapsInv'
  BY <1>a DEF TapsInv, TapLossless, nextIndex
<1>b. tapFrom \in [Taps -> Nat \cup {NoGroup}] /\ tapped \in [Taps -> Seq(Nat)] /\ nextIndex \in Nat
  BY DEF TypeOK, nextIndex
<1>1. ASSUME NEW key \in Keys, Create(key) PROVE TapsInv'
  <2>1. nextIndex' = nextIndex + 1 /\ UNCHANGED tapFrom
    BY <1>1, Created
  <2>2. tapped' = [t \in Taps |-> IF tapFrom[t] = NoGroup THEN tapped[t] ELSE Append(tapped[t], nextIndex)]
    BY <1>1 DEF Create, Insert, Emit
  <2>3. ASSUME NEW t \in Taps, tapFrom[t] = NoGroup PROVE tapped'[t] = <<>>
    BY <2>2, <2>3 DEF TapsInv
  <2>4. ASSUME NEW t \in Taps, tapFrom[t] # NoGroup
        PROVE  /\ tapFrom[t] <= nextIndex'
               /\ tapped'[t] = [n \in 1 .. nextIndex' - tapFrom[t] |-> tapFrom[t] + n - 1]
    <3> DEFINE f == tapFrom[t]
               k == nextIndex - f
    <3>1. f \in Nat /\ f <= nextIndex /\ k \in Nat
      BY <1>b, <2>4 DEF TapsInv
    <3>2. tapped[t] = [n \in 1 .. k |-> f + n - 1]
      BY <2>4 DEF TapsInv, TapLossless
    <3>3. tapped'[t] = Append(tapped[t], nextIndex) /\ tapped[t] \in Seq(Nat)
      BY <1>b, <2>2, <2>4
    <3> HIDE DEF f, k
    <3>4. Len(tapped[t]) = k
      BY <3>1, <3>2, <3>3
    <3>5. Append(tapped[t], nextIndex) = [n \in 1 .. k + 1 |-> f + n - 1]
      BY <1>b, <3>1, <3>2, <3>3, <3>4 DEF k
    <3>6. k + 1 = nextIndex' - tapFrom[t]
      BY <1>b, <2>1, <3>1 DEF k, f
    <3> QED
      BY <1>b, <2>1, <3>1, <3>3, <3>5, <3>6 DEF f
  <2> QED
    BY <2>1, <2>3, <2>4 DEF TapsInv, TapLossless
<1>2. ASSUME NEW t \in Taps, AddTap(t) PROVE TapsInv'
  <2>1. /\ tapFrom' = [tapFrom EXCEPT ![t] = nextIndex] /\ tapFrom[t] = NoGroup
        /\ UNCHANGED <<tapped, nextIndex>>
    BY <1>2 DEF AddTap, nextIndex
  <2>2. tapped[t] = <<>>
    BY <2>1 DEF TapsInv
  <2>3. [n \in 1 .. nextIndex - nextIndex |-> nextIndex + n - 1] = <<>>
    BY <1>b
  <2>4. \A u \in Taps : u # t => tapFrom'[u] = tapFrom[u]
    BY <1>b, <2>1
  <2>5. tapFrom'[t] = nextIndex
    BY <1>b, <2>1
  <2>6. \A u \in Taps : IF tapFrom'[u] = NoGroup THEN tapped'[u] = <<>> ELSE tapFrom'[u] <= nextIndex'
    BY <1>b, <2>1, <2>4, <2>5 DEF TapsInv
  <2>7. \A u \in Taps : tapFrom'[u] # NoGroup =>
          tapped'[u] = [n \in 1 .. nextIndex' - tapFrom'[u] |-> tapFrom'[u] + n - 1]
    <3>1. tapped'[t] = [n \in 1 .. nextIndex' - tapFrom'[t] |-> tapFrom'[t] + n - 1]
      BY <2>1, <2>2, <2>3, <2>5
    <3>2. ASSUME NEW u \in Taps, u # t, tapFrom'[u] # NoGroup
          PROVE  tapped'[u] = [n \in 1 .. nextIndex' - tapFrom'[u] |-> tapFrom'[u] + n - 1]
      BY <2>1, <2>4, <3>2 DEF TapsInv, TapLossless
    <3> QED
      BY <3>1, <3>2
  <2> QED
    BY <2>6, <2>7 DEF TapsInv, TapLossless
<1>3. CASE AppendGroup
  BY <1>1, <1>3, AppendGroupCreates
<1>4. ASSUME NEW n \in Windows, SetHistoryWindow(n) PROVE TapsInv'
  BY <1>4, <1>a DEF SetHistoryWindow, tapVars
<1>5. CASE Close \/ DropWriter
  BY <1>5, <1>a DEF Close, DropWriter, tapVars
<1>6. ASSUME NEW r \in Readers, NextSubgroup(r) \/ NextEnd(r) \/ DropReader(r) PROVE TapsInv'
  BY <1>6, <1>a DEF NextSubgroup, NextEnd, DropReader, tapVars
<1>7. ASSUME NEW r \in Readers, NEW s \in Readers, CloneReader(r, s) PROVE TapsInv'
  BY <1>7, <1>a DEF CloneReader, tapVars
<1>8. CASE UNCHANGED vars
  BY <1>8, <1>a DEF vars
<1> QED
  BY <1>1, <1>2, <1>3, <1>4, <1>5, <1>6, <1>7, <1>8 DEF Next

-----------------------------------------------------------------------------
(* Results                                                                 *)

LEMMA InitInv == SubgroupsAssumption /\ Init => TypeOK /\ ReadersInv /\ EndInv /\ TapsInv
<1> SUFFICES ASSUME SubgroupsAssumption, Init PROVE TypeOK /\ ReadersInv /\ EndInv /\ TapsInv
  OBVIOUS
<1>1. nextIndex = 0 /\ Indexes = {} /\ created \in Seq(Keys)
  BY DEF Init, nextIndex, Indexes
<1>2. TypeOK
  <2>1. reader \in [Readers -> {"absent", "live", "none", "err", "gone"}]
    BY DEF Init
  <2>2. got \in [Readers -> Seq(Nat)] /\ tapped \in [Taps -> Seq(Nat)]
    BY DEF Init
  <2>3. readIndex \in [Readers -> 0 .. nextIndex] /\ tapFrom \in [Taps -> Nat \cup {NoGroup}]
    BY <1>1 DEF Init
  <2>4. nextGroup \in Groups /\ newest \in Groups \cup {NoGroup}
    BY DEF Init, Groups, SubgroupsAssumption
  <2> QED
    BY <1>1, <2>1, <2>2, <2>3, <2>4 DEF Init, TypeOK
<1>3. \A r \in Readers : DOMAIN got[r] = {} /\ Got(r) = {}
  BY DEF Init, Got
<1>4. ReadersInv
  BY <1>1, <1>3 DEF Init, ReadersInv, PrunedIsOld, RetainedIsFresh, CursorExact
<1>5. EndInv
  BY DEF Init, EndInv, EndAfterDrain
<1>6. TapsInv
  BY DEF Init, TapsInv, TapLossless
<1> QED
  BY <1>2, <1>4, <1>5, <1>6

\* serve/subgroup.rs, serve/tap.rs: the state of a track's subgroups keeps
\* its types, and so do the cursors of its readers.
THEOREM TypeCorrect == SubgroupsAssumption /\ Spec => []TypeOK
<1> SUFFICES ASSUME SubgroupsAssumption PROVE Spec => []TypeOK
  OBVIOUS
<1>1. Init => TypeOK
  BY InitInv
<1>2. TypeOK /\ [Next]_vars => TypeOK'
  BY TypeStep
<1> QED
  BY <1>1, <1>2, PTL DEF Spec

\* serve/subgroup.rs, serve/tap.rs: SubgroupsReader::next delivers in order
\* and no key twice, passes over a subgroup only if the window has left it
\* behind, and ends last; a tap misses nothing.
THEOREM Delivered == SubgroupsAssumption /\ Spec => []SubgroupsDelivered
<1> SUFFICES ASSUME SubgroupsAssumption PROVE Spec => []SubgroupsDelivered
  OBVIOUS
<1>1. TypeOK /\ ReadersInv /\ [Next]_vars => ReadersInv'
  BY ReadersStep
<1>2. TypeOK /\ EndInv /\ [Next]_vars => EndInv'
  BY EndStep
<1>3. TypeOK /\ TapsInv /\ [Next]_vars => TapsInv'
  BY TapsStep
<1>4. TypeOK /\ ReadersInv /\ EndInv /\ TapsInv => SubgroupsDelivered
  <2> SUFFICES ASSUME TypeOK, ReadersInv, EndInv, TapsInv PROVE SubgroupsDelivered
    OBVIOUS
  <2>1. DeliveredInOrder
    BY DEF ReadersInv, CursorExact, DeliveredInOrder
  <2>2. SkippedOnlyIfPruned
    BY DEF ReadersInv, CursorExact, PrunedIsOld, SkippedOnlyIfPruned
  <2>3. DeliveredKeysUnique
    <3> SUFFICES ASSUME NEW r \in Readers, NEW m \in DOMAIN got[r], NEW n \in DOMAIN got[r], m < n
                 PROVE  Key(got[r][m]) # Key(got[r][n])
      <4>1. \A r \in Readers : DOMAIN got[r] \subseteq Int
        BY DEF TypeOK
      <4> QED
        BY <4>1 DEF DeliveredKeysUnique
    <3>1. got[r][m] \in Nat /\ got[r][n] \in Nat /\ got[r][n] \in Got(r)
      BY DEF TypeOK, Got
    <3>2. got[r][m] < got[r][n] /\ Fresh(got[r][n])
      BY <3>1 DEF ReadersInv, CursorExact
    <3> QED
      BY <3>1, <3>2 DEF Fresh
  <2> QED
    BY <2>1, <2>2, <2>3 DEF SubgroupsDelivered, EndInv, TapsInv
<1>5. Init => ReadersInv /\ EndInv /\ TapsInv
  BY InitInv
<1>6. Spec => []TypeOK
  BY TypeCorrect
<1> QED
  BY <1>1, <1>2, <1>3, <1>4, <1>5, <1>6, PTL DEF Spec

\* Every step of the subgroups is a step of the lossy log, or none.
LEMMA StepRefines ==
  ASSUME SubgroupsAssumption, TypeOK, EndInv, EndInv', [Next]_vars
  PROVE  [Abstract!LogNext]_(Abstract!logVars)
<1> USE DEF Abstract!LogNext, Abstract!logVars
<1>a. ASSUME UNCHANGED <<created, retained, writer, readIndex, reader>> PROVE UNCHANGED Abstract!logVars
  BY <1>a DEF nextIndex, Indexes
<1>1. ASSUME NEW key \in Keys, Create(key) PROVE Abstract!LogAppend
  <2>1. writer /\ UNCHANGED <<writer, readIndex, reader>>
    BY <1>1, Created DEF Create, Live
  <2>2. nextIndex' = nextIndex + 1
    BY <1>1, Created
  <2>3. Indexes \ retained \subseteq Indexes' \ retained'
    BY <1>1, Created
  <2>4. Indexes' \ retained' \subseteq 0 .. nextIndex
    BY <1>1, Created DEF Indexes
  <2> QED
    BY <2>1, <2>2, <2>3, <2>4 DEF Abstract!LogAppend
<1>2. CASE Close \/ DropWriter
  <2>1. Abstract!LogClose
    BY <1>2 DEF Close, DropWriter, readerVars, Abstract!LogClose, nextIndex, Indexes
  <2> QED
    BY <2>1
<1>3. ASSUME NEW r \in Readers, NextSubgroup(r) PROVE Abstract!LogRead(r)
  <2>1. PICK i \in Ahead(r) : /\ \A j \in Ahead(r) : i <= j
                              /\ readIndex' = [readIndex EXCEPT ![r] = i + 1]
    BY <1>3 DEF NextSubgroup
  <2>2. reader[r] = "live" /\ UNCHANGED <<created, retained, writer, reader>>
    BY <1>3 DEF NextSubgroup
  <2>3. /\ i \in retained /\ retained \subseteq 0 .. nextIndex - 1 /\ i >= readIndex[r]
        /\ readIndex[r] \in Nat /\ nextIndex \in Nat /\ Indexes = 0 .. nextIndex - 1
    BY DEF Ahead, TypeOK, Indexes, nextIndex
  <2>4. i \in readIndex[r] .. nextIndex - 1 /\ i \notin Indexes \ retained
    BY <2>3
  <2>5. ASSUME NEW j \in readIndex[r] .. i - 1 PROVE j \in Indexes \ retained
    BY <2>1, <2>3 DEF Ahead
  <2> QED
    BY <2>1, <2>2, <2>4, <2>5 DEF Abstract!LogRead, nextIndex, Indexes
<1>4. ASSUME NEW r \in Readers, NextEnd(r) PROVE Abstract!LogEnd(r)
  <2>1. ~writer /\ Ahead(r) = {} /\ UNCHANGED <<created, retained, writer, readIndex>>
    BY <1>4 DEF NextEnd, EndInv
  <2>2. {s \in Readers : reader'[s] \in {"none", "err"}} = {s \in Readers : reader[s] \in {"none", "err"}} \cup {r}
    BY <1>4 DEF NextEnd, TypeOK
  <2>3. \A j \in readIndex[r] .. nextIndex - 1 : j \in Indexes \ retained
    BY <2>1 DEF Ahead, Indexes, TypeOK, nextIndex
  <2> QED
    BY <2>1, <2>2, <2>3 DEF Abstract!LogEnd, nextIndex, Indexes
<1>5. ASSUME NEW r \in Readers, DropReader(r) PROVE Abstract!LogFork(r, r)
  <2>1. UNCHANGED <<created, retained, writer, readIndex>>
    BY <1>5 DEF DropReader
  <2>2. {s \in Readers : reader'[s] \in {"none", "err"}} = {s \in Readers : reader[s] \in {"none", "err"}} \ {r}
    BY <1>5 DEF DropReader, TypeOK
  <2>3. readIndex' = [readIndex EXCEPT ![r] = readIndex[r]]
    BY <2>1 DEF TypeOK
  <2> QED
    BY <2>1, <2>2, <2>3 DEF Abstract!LogFork, nextIndex, Indexes
<1>6. ASSUME NEW r \in Readers, NEW s \in Readers, CloneReader(r, s) PROVE Abstract!LogFork(r, s)
  <2>1. UNCHANGED <<created, retained, writer>> /\ readIndex' = [readIndex EXCEPT ![s] = readIndex[r]]
    BY <1>6 DEF CloneReader
  <2>2. {q \in Readers : reader'[q] \in {"none", "err"}} = {q \in Readers : reader[q] \in {"none", "err"}} \ {s}
    BY <1>6 DEF CloneReader, TypeOK
  <2> QED
    BY <2>1, <2>2 DEF Abstract!LogFork, nextIndex, Indexes
<1>7. CASE AppendGroup
  BY <1>1, <1>7, AppendGroupCreates
<1>8. ASSUME NEW n \in Windows, SetHistoryWindow(n) PROVE UNCHANGED Abstract!logVars
  BY <1>8, <1>a DEF SetHistoryWindow, readerVars
<1>9. ASSUME NEW t \in Taps, AddTap(t) PROVE UNCHANGED Abstract!logVars
  BY <1>9, <1>a DEF AddTap, readerVars
<1>10. CASE UNCHANGED vars
  BY <1>10, <1>a DEF vars
<1> QED
  BY <1>1, <1>2, <1>3, <1>4, <1>5, <1>6, <1>7, <1>8, <1>9, <1>10 DEF Next

\* serve/subgroup.rs: the subgroups of a track implement LossyLog, whatever
\* the window, under the refinement mapping of Subgroups.
THEOREM Refines == SubgroupsAssumption /\ Spec => ImplementsLossyLog
<1> SUFFICES ASSUME SubgroupsAssumption PROVE Spec => ImplementsLossyLog
  OBVIOUS
<1>1. Init => Abstract!LogInit
  BY DEF Init, Abstract!LogInit, nextIndex, Indexes
<1>2. TypeOK /\ EndInv /\ EndInv' /\ [Next]_vars => [Abstract!LogNext]_(Abstract!logVars)
  BY StepRefines
<1>3. TypeOK /\ EndInv /\ [Next]_vars => EndInv'
  BY EndStep
<1>4. Init => EndInv
  BY InitInv
<1>5. Spec => []TypeOK
  BY TypeCorrect
<1> QED
  BY <1>1, <1>2, <1>3, <1>4, <1>5, PTL DEF Spec, ImplementsLossyLog, Abstract!LogSpec
=============================================================================
