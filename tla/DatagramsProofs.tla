-------------------------- MODULE DatagramsProofs ---------------------------
(***************************************************************************)
(* The ring of datagrams and what its readers miss, for every depth and    *)
(* any number of readers, clones and taps.  A reader finds a datagram by   *)
(* its distance from the newest, so its account of what it missed rests on *)
(* the ring holding the newest datagrams without a gap (RingIsNewest).     *)
(***************************************************************************)
EXTENDS Datagrams, FiniteSetTheorems, TLAPS

\* Datagrams reader r has received.
Seen(r) == {got[r][n] : n \in DOMAIN got[r]}

\* A reader has received datagrams from before its cursor, each once, and
\* counted the others.
CursorExact ==
  \A r \in Readers :
    /\ \A i \in Seen(r) : i < next[r]
    /\ IsFiniteSet(Seen(r)) /\ Cardinality(Seen(r)) = Len(got[r])
    /\ dropped[r] = next[r] - Len(got[r])

\* A ring is no longer than what was written, and a closed track has no writer.
RingInv == RingIsNewest /\ Len(ring) <= epoch /\ (closed => ~writer)

TapsInv ==
  /\ TapLossless
  /\ \A t \in Taps : IF tapFrom[t] = NoTap THEN tapped[t] = <<>> ELSE tapFrom[t] <= epoch

-----------------------------------------------------------------------------
\* DatagramsWriter::write: the oldest datagram makes room for the newest.
LEMMA Pushed ==
  ASSUME TypeOK, RingInv, Write
  PROVE  /\ epoch' = epoch + 1 /\ epoch \in Nat
         /\ ring' \in Seq(Nat) /\ Len(ring') <= depth /\ Len(ring') <= epoch + 1
         /\ oldest' >= oldest /\ oldest \in Nat /\ oldest' \in Nat
         /\ ring' = [n \in 1 .. Len(ring') |-> oldest' + n - 1]
<1> DEFINE base == IF Len(ring) >= depth THEN Tail(ring) ELSE ring
           k == Len(base)
<1>1. ring \in Seq(Nat) /\ epoch \in Nat /\ Len(ring) \in Nat /\ depth \in Nat /\ depth > 0 /\ Len(ring) <= depth
      /\ Len(ring) <= epoch /\ oldest = epoch - Len(ring) /\ oldest \in Nat
  BY DEF TypeOK, RingInv, oldest
<1>2. ring' = Append(base, epoch) /\ epoch' = epoch + 1
  BY DEF Write, Push
<1>3. \A n \in 1 .. Len(ring) : ring[n] = oldest + n - 1
  BY <1>1 DEF RingInv, RingIsNewest
<1>4. /\ base \in Seq(Nat) /\ k \in Nat /\ k < depth /\ k <= Len(ring)
      /\ \A n \in 1 .. k : base[n] = epoch - k + n - 1
  <2>1. CASE Len(ring) >= depth
    <3>1. base = Tail(ring) /\ base \in Seq(Nat) /\ k = Len(ring) - 1
      BY <1>1, <2>1
    <3>2. \A n \in 1 .. k : base[n] = ring[n + 1] /\ n + 1 \in 1 .. Len(ring)
      BY <1>1, <2>1, <3>1
    <3> HIDE DEF base, k
    <3> QED
      BY <1>1, <1>3, <2>1, <3>1, <3>2
  <2>2. CASE Len(ring) < depth
    <3>1. base = ring /\ k = Len(ring)
      BY <1>1, <2>2
    <3> HIDE DEF base, k
    <3> QED
      BY <1>1, <1>3, <2>2, <3>1
  <2>3. Len(ring) >= depth \/ Len(ring) < depth
    BY <1>1
  <2> HIDE DEF base, k
  <2> QED
    BY <2>1, <2>2, <2>3
<1> HIDE DEF base
<1>5. /\ ring' \in Seq(Nat) /\ Len(ring') = k + 1
      /\ \A n \in 1 .. k : ring'[n] = base[n]
      /\ ring'[k + 1] = epoch
  BY <1>1, <1>2, <1>4
<1> HIDE DEF k
<1>6. oldest' = epoch - k /\ oldest' >= oldest /\ oldest' \in Nat
  BY <1>1, <1>2, <1>4, <1>5 DEF oldest
<1>7. \A n \in 1 .. k + 1 : ring'[n] = oldest' + n - 1
  <2>1. \A n \in 1 .. k : ring'[n] = oldest' + n - 1
    BY <1>4, <1>5, <1>6
  <2>2. ring'[k + 1] = oldest' + (k + 1) - 1
    BY <1>1, <1>4, <1>5, <1>6
  <2>3. \A n \in 1 .. k + 1 : n \in 1 .. k \/ n = k + 1
    BY <1>4
  <2> QED
    BY <2>1, <2>2, <2>3
<1>8. DOMAIN ring' = 1 .. k + 1 /\ ring' = [n \in DOMAIN ring' |-> ring'[n]]
  BY <1>5
<1>9. ring' = [n \in 1 .. k + 1 |-> oldest' + n - 1]
  BY <1>7, <1>8
<1> QED
  BY <1>1, <1>2, <1>4, <1>5, <1>6, <1>9

\* DatagramsReader::read: the cursor, after its jump, is at a datagram of the
\* ring.
LEMMA ReadAtCursor ==
  ASSUME TypeOK, RingInv, NEW r \in Readers, Read(r)
  PROVE  /\ Cursor(r) \in Nat /\ next[r] \in Nat /\ epoch \in Nat /\ oldest \in Nat
         /\ Cursor(r) >= next[r] /\ Cursor(r) >= oldest /\ Cursor(r) < epoch
         /\ next[r] < oldest => Cursor(r) = oldest
         /\ next[r] >= oldest => Cursor(r) = next[r]
         /\ ring[Cursor(r) - oldest + 1] = Cursor(r)
<1>1. /\ ring \in Seq(Nat) /\ epoch \in Nat /\ Len(ring) \in Nat /\ next[r] \in Nat
      /\ Len(ring) <= epoch /\ oldest = epoch - Len(ring) /\ oldest \in Nat /\ Cursor(r) < epoch
  BY DEF TypeOK, RingInv, oldest, Read
<1>2. /\ Cursor(r) \in Nat /\ Cursor(r) >= next[r] /\ Cursor(r) >= oldest
      /\ next[r] < oldest => Cursor(r) = oldest
      /\ next[r] >= oldest => Cursor(r) = next[r]
  BY <1>1 DEF Cursor
<1>3. Cursor(r) - oldest + 1 \in 1 .. Len(ring)
  BY <1>1, <1>2
<1>4. ring[Cursor(r) - oldest + 1] = oldest + (Cursor(r) - oldest + 1) - 1
  BY <1>3 DEF RingInv, RingIsNewest
<1> QED
  BY <1>1, <1>2, <1>4

LEMMA TypeStep ==
  ASSUME TypeOK, RingInv, CursorExact, [Next]_vars
  PROVE  TypeOK'
<1> USE DEF TypeOK
<1>1. CASE Write
  <2>1. ring' \in Seq(Nat) /\ Len(ring') <= depth /\ epoch' = epoch + 1 /\ epoch \in Nat
    BY <1>1, Pushed
  <2>2. tapped' \in [Taps -> Seq(Nat)]
    BY <1>1, <2>1 DEF Write
  <2>3. next \in [Readers -> 0 .. epoch'] /\ dropped \in [Readers -> 0 .. epoch']
    BY <2>1
  <2> QED
    BY <1>1, <2>1, <2>2, <2>3 DEF Write
<1>2. CASE Close
  BY <1>2 DEF Close, tapVars, Live
<1>3. CASE DropWriter
  BY <1>3 DEF DropWriter, stateVars, tapVars
<1>4. ASSUME NEW r \in Readers, Read(r) PROVE TypeOK'
  <2>a. Cursor(r) \in Nat /\ Cursor(r) < epoch /\ epoch \in Nat
    BY <1>4, ReadAtCursor
  <2>1. next' = [next EXCEPT ![r] = Cursor(r) + 1] /\ Cursor(r) + 1 \in 0 .. epoch
    BY <1>4, <2>a DEF Read
  <2>2. got' \in [Readers -> Seq(Nat)]
    <3>1. got' = [got EXCEPT ![r] = Append(got[r], Cursor(r))]
      BY <1>4, ReadAtCursor DEF Read
    <3> QED
      BY <2>a, <3>1
  <2>3. dropped' = [dropped EXCEPT ![r] = dropped[r] + (Cursor(r) - next[r])]
    BY <1>4 DEF Read, Skipped
  <2>4. dropped[r] + (Cursor(r) - next[r]) \in 0 .. epoch
    <3>1. Len(got[r]) \in Nat /\ dropped[r] = next[r] - Len(got[r]) /\ dropped[r] \in Nat
      BY DEF CursorExact
    <3> QED
      BY <1>4, <3>1, ReadAtCursor
  <2> QED
    BY <1>4, <2>1, <2>2, <2>3, <2>4 DEF Read, stateVars, tapVars
<1>5. ASSUME NEW r \in Readers, ReadEnd(r) PROVE TypeOK'
  BY <1>5 DEF ReadEnd, stateVars, tapVars
<1>6. ASSUME NEW r \in Readers, DropReader(r) PROVE TypeOK'
  BY <1>6 DEF DropReader, stateVars, tapVars
<1>7. ASSUME NEW r \in Readers, NEW s \in Readers, CloneReader(r, s) PROVE TypeOK'
  BY <1>7 DEF CloneReader, stateVars, tapVars
<1>8. ASSUME NEW t \in Taps, AddTap(t) PROVE TypeOK'
  BY <1>8 DEF AddTap, stateVars
<1>9. CASE UNCHANGED vars
  BY <1>9 DEF vars
<1> QED
  BY <1>1, <1>2, <1>3, <1>4, <1>5, <1>6, <1>7, <1>8, <1>9 DEF Next

LEMMA RingStep ==
  ASSUME TypeOK, RingInv, [Next]_vars
  PROVE  RingInv'
<1>a. ASSUME UNCHANGED <<ring, epoch>>, closed' => ~writer' PROVE RingInv'
  BY <1>a DEF RingInv, RingIsNewest, oldest
<1>1. CASE Write
  <2>1. (closed => ~writer)' /\ Len(ring)' <= epoch'
    BY <1>1, Pushed DEF Write, RingInv
  <2> QED
    BY <1>1, <2>1, Pushed DEF RingInv, RingIsNewest
<1>2. CASE Close \/ DropWriter
  BY <1>2, <1>a DEF Close, DropWriter, stateVars, RingInv
<1>3. ASSUME NEW r \in Readers, Read(r) \/ ReadEnd(r) \/ DropReader(r) PROVE RingInv'
  BY <1>3, <1>a DEF Read, ReadEnd, DropReader, stateVars, RingInv
<1>4. ASSUME NEW r \in Readers, NEW s \in Readers, CloneReader(r, s) PROVE RingInv'
  BY <1>4, <1>a DEF CloneReader, stateVars, RingInv
<1>5. ASSUME NEW t \in Taps, AddTap(t) PROVE RingInv'
  BY <1>5, <1>a DEF AddTap, stateVars, RingInv
<1>6. CASE UNCHANGED vars
  BY <1>6, <1>a DEF vars, RingInv
<1> QED
  BY <1>1, <1>2, <1>3, <1>4, <1>5, <1>6 DEF Next

\* What the reader's jump passes over is counted, what it lands on is new.
LEMMA ReadersStep ==
  ASSUME TypeOK, RingInv, CursorExact, [Next]_vars
  PROVE  CursorExact'
<1>a. ASSUME UNCHANGED <<next, dropped, got>> PROVE CursorExact'
  BY <1>a DEF CursorExact, Seen
<1>b. next \in [Readers -> Nat] /\ dropped \in [Readers -> Nat] /\ got \in [Readers -> Seq(Nat)]
  BY DEF TypeOK
<1>1. ASSUME NEW r \in Readers, Read(r) PROVE CursorExact'
  <2>1. /\ next' = [next EXCEPT ![r] = Cursor(r) + 1]
        /\ dropped' = [dropped EXCEPT ![r] = dropped[r] + (Cursor(r) - next[r])]
        /\ got' = [got EXCEPT ![r] = Append(got[r], Cursor(r))]
    BY <1>1, ReadAtCursor DEF Read, Skipped
  <2>2. Cursor(r) \in Nat /\ Cursor(r) >= next[r]
    BY <1>1, ReadAtCursor
  <2> SUFFICES ASSUME NEW s \in Readers
               PROVE  /\ \A i \in Seen(s)' : i < next'[s]
                      /\ IsFiniteSet(Seen(s)') /\ Cardinality(Seen(s)') = Len(got'[s])
                      /\ dropped'[s] = next'[s] - Len(got'[s])
    BY DEF CursorExact
  <2>3. CASE s # r
    <3>1. next'[s] = next[s] /\ dropped'[s] = dropped[s] /\ got'[s] = got[s] /\ Seen(s)' = Seen(s)
      BY <1>b, <2>1, <2>3 DEF Seen
    <3> QED
      BY <3>1 DEF CursorExact
  <2>4. CASE s = r
    <3>1. /\ next'[r] = Cursor(r) + 1 /\ dropped'[r] = dropped[r] + (Cursor(r) - next[r])
          /\ got'[r] = Append(got[r], Cursor(r))
      BY <1>b, <2>1
    <3>2. Seen(r)' = Seen(r) \cup {Cursor(r)} /\ Len(got'[r]) = Len(got[r]) + 1 /\ Len(got[r]) \in Nat
      <4> DEFINE k == Len(got[r])
      <4>1. /\ k \in Nat /\ DOMAIN got[r] = 1 .. k /\ DOMAIN got'[r] = 1 .. k + 1 /\ Len(got'[r]) = k + 1
            /\ got'[r][k + 1] = Cursor(r)
            /\ \A n \in 1 .. k : got'[r][n] = got[r][n]
        BY <1>b, <2>2, <3>1
      <4> HIDE DEF k
      <4>2. \A n \in 1 .. k + 1 : n \in 1 .. k \/ n = k + 1
        BY <4>1
      <4> QED
        BY <4>1, <4>2 DEF Seen, k
    <3>3. /\ \A i \in Seen(r) : i < next[r] /\ i \in Nat
          /\ IsFiniteSet(Seen(r)) /\ Cardinality(Seen(r)) = Len(got[r])
          /\ dropped[r] = next[r] - Len(got[r]) /\ next[r] \in Nat
      <4>1. \A i \in Seen(r) : i \in Nat
        BY <1>b DEF Seen
      <4> QED
        BY <1>b, <4>1 DEF CursorExact
    <3>4. Cursor(r) \notin Seen(r)
      BY <2>2, <3>3
    <3>5. IsFiniteSet(Seen(r)') /\ Cardinality(Seen(r)') = Len(got[r]) + 1
      <4>1. IsFiniteSet(Seen(r) \cup {Cursor(r)}) /\ Cardinality(Seen(r) \cup {Cursor(r)}) = Cardinality(Seen(r)) + 1
        BY <3>3, <3>4, FS_AddElement
      <4> QED
        BY <3>2, <3>3, <4>1
    <3>6. \A i \in Seen(r)' : i < Cursor(r) + 1
      BY <2>2, <3>2, <3>3
    <3>7. dropped'[r] = next'[r] - Len(got'[r])
      <4>1. \A c, n, k \in Nat : (n - k) + (c - n) = (c + 1) - (k + 1)
        OBVIOUS
      <4> QED
        BY <2>2, <3>1, <3>2, <3>3, <4>1
    <3> QED
      BY <2>4, <3>1, <3>2, <3>5, <3>6, <3>7
  <2> QED
    BY <2>3, <2>4
<1>2. ASSUME NEW r \in Readers, NEW s \in Readers, CloneReader(r, s) PROVE CursorExact'
  <2>1. \A q \in Readers : \E p \in Readers :
          next'[q] = next[p] /\ dropped'[q] = dropped[p] /\ got'[q] = got[p]
    BY <1>2, <1>b DEF CloneReader
  <2>2. \A q \in Readers : \E p \in Readers :
          next'[q] = next[p] /\ dropped'[q] = dropped[p] /\ got'[q] = got[p] /\ Seen(q)' = Seen(p)
    BY <2>1 DEF Seen
  <2> QED
    BY <2>2 DEF CursorExact
<1>3. CASE Write \/ Close \/ DropWriter
  BY <1>3, <1>a DEF Write, Close, DropWriter
<1>4. ASSUME NEW r \in Readers, ReadEnd(r) \/ DropReader(r) PROVE CursorExact'
  BY <1>4, <1>a DEF ReadEnd, DropReader
<1>5. ASSUME NEW t \in Taps, AddTap(t) PROVE CursorExact'
  BY <1>5, <1>a DEF AddTap
<1>6. CASE UNCHANGED vars
  BY <1>6, <1>a DEF vars
<1> QED
  BY <1>1, <1>2, <1>3, <1>4, <1>5, <1>6 DEF Next

LEMMA TapsStep ==
  ASSUME TypeOK, RingInv, TapsInv, [Next]_vars
  PROVE  TapsInv'
<1>a. ASSUME UNCHANGED <<epoch, tapFrom, tapped>> PROVE TapsInv'
  BY <1>a DEF TapsInv, TapLossless
<1>b. tapFrom \in [Taps -> Nat \cup {NoTap}] /\ tapped \in [Taps -> Seq(Nat)] /\ epoch \in Nat
  BY DEF TypeOK
<1>1. CASE Write
  <2>1. epoch' = epoch + 1 /\ UNCHANGED tapFrom
    BY <1>1 DEF Write
  <2>2. tapped' = [t \in Taps |-> IF tapFrom[t] = NoTap THEN tapped[t] ELSE Append(tapped[t], epoch)]
    BY <1>1 DEF Write
  <2>3. ASSUME NEW t \in Taps, tapFrom[t] = NoTap PROVE tapped'[t] = <<>>
    BY <2>2, <2>3 DEF TapsInv
  <2>4. ASSUME NEW t \in Taps, tapFrom[t] # NoTap
        PROVE  /\ tapFrom[t] <= epoch'
               /\ tapped'[t] = [n \in 1 .. epoch' - tapFrom[t] |-> tapFrom[t] + n - 1]
    <3> DEFINE f == tapFrom[t]
               k == epoch - f
    <3>1. f \in Nat /\ f <= epoch /\ k \in Nat
      BY <1>b, <2>4 DEF TapsInv
    <3>2. tapped[t] = [n \in 1 .. k |-> f + n - 1]
      BY <2>4 DEF TapsInv, TapLossless
    <3>3. tapped'[t] = Append(tapped[t], epoch) /\ tapped[t] \in Seq(Nat)
      BY <1>b, <2>2, <2>4
    <3> HIDE DEF f, k
    <3>4. Len(tapped[t]) = k
      BY <3>1, <3>2, <3>3
    <3>5. Append(tapped[t], epoch) = [n \in 1 .. k + 1 |-> f + n - 1]
      BY <1>b, <3>1, <3>2, <3>3, <3>4 DEF k
    <3>6. k + 1 = epoch' - tapFrom[t]
      BY <1>b, <2>1, <3>1 DEF k, f
    <3> QED
      BY <1>b, <2>1, <3>1, <3>3, <3>5, <3>6 DEF f
  <2> QED
    BY <2>1, <2>3, <2>4 DEF TapsInv, TapLossless
<1>2. ASSUME NEW t \in Taps, AddTap(t) PROVE TapsInv'
  <2>1. /\ tapFrom' = [tapFrom EXCEPT ![t] = epoch] /\ tapFrom[t] = NoTap
        /\ UNCHANGED <<tapped, epoch>>
    BY <1>2 DEF AddTap, stateVars
  <2>2. tapped[t] = <<>>
    BY <2>1 DEF TapsInv
  <2>3. [n \in 1 .. epoch - epoch |-> epoch + n - 1] = <<>>
    BY <1>b
  <2>4. \A u \in Taps : u # t => tapFrom'[u] = tapFrom[u]
    BY <1>b, <2>1
  <2>5. tapFrom'[t] = epoch
    BY <1>b, <2>1
  <2>6. \A u \in Taps : IF tapFrom'[u] = NoTap THEN tapped'[u] = <<>> ELSE tapFrom'[u] <= epoch'
    BY <1>b, <2>1, <2>4, <2>5 DEF TapsInv
  <2>7. tapped'[t] = [n \in 1 .. epoch' - tapFrom'[t] |-> tapFrom'[t] + n - 1]
    BY <2>1, <2>2, <2>3, <2>5
  <2>8. ASSUME NEW u \in Taps, u # t, tapFrom'[u] # NoTap
        PROVE  tapped'[u] = [n \in 1 .. epoch' - tapFrom'[u] |-> tapFrom'[u] + n - 1]
    BY <2>1, <2>4, <2>8 DEF TapsInv, TapLossless
  <2> QED
    BY <2>6, <2>7, <2>8 DEF TapsInv, TapLossless
<1>3. CASE Close \/ DropWriter
  BY <1>3, <1>a DEF Close, DropWriter, stateVars, tapVars
<1>4. ASSUME NEW r \in Readers, Read(r) \/ ReadEnd(r) \/ DropReader(r) PROVE TapsInv'
  BY <1>4, <1>a DEF Read, ReadEnd, DropReader, stateVars, tapVars
<1>5. ASSUME NEW r \in Readers, NEW s \in Readers, CloneReader(r, s) PROVE TapsInv'
  BY <1>5, <1>a DEF CloneReader, stateVars, tapVars
<1>6. CASE UNCHANGED vars
  BY <1>6, <1>a DEF vars
<1> QED
  BY <1>1, <1>2, <1>3, <1>4, <1>5, <1>6 DEF Next

-----------------------------------------------------------------------------
(* Results                                                                 *)

Inv == TypeOK /\ RingInv /\ CursorExact /\ TapsInv

LEMMA InitInv == DatagramsAssumption /\ Init => Inv
<1> SUFFICES ASSUME DatagramsAssumption, Init PROVE Inv
  OBVIOUS
<1>1. ring \in Seq(Nat) /\ Len(ring) = 0 /\ epoch = 0 /\ closed = FALSE /\ writer = TRUE
  BY DEF Init
<1>2. depth \in Nat \ {0}
  BY DEF Init, WithDepth, DatagramsAssumption
<1>3. reader \in [Readers -> {"absent", "live", "none", "err", "gone"}]
  BY DEF Init
<1>4. next \in [Readers -> 0 .. epoch] /\ dropped \in [Readers -> 0 .. epoch]
  BY <1>1 DEF Init
<1>5. /\ got \in [Readers -> Seq(Nat)] /\ tapped \in [Taps -> Seq(Nat)]
      /\ tapFrom \in [Taps -> Nat \cup {NoTap}]
  BY DEF Init
<1>6. TypeOK
  <2>1. epoch \in Nat /\ Len(ring) <= depth
    BY <1>1, <1>2
  <2>2. closed \in BOOLEAN /\ writer \in BOOLEAN
    BY <1>1
  <2> QED
    BY <1>1, <1>2, <1>3, <1>4, <1>5, <2>1, <2>2 DEF TypeOK
<1>7. RingInv
  <2>1. ring = [n \in 1 .. Len(ring) |-> oldest + n - 1]
    BY <1>1 DEF Init
  <2> QED
    BY <1>1, <2>1 DEF RingInv, RingIsNewest
<1>8. CursorExact
  <2> SUFFICES ASSUME NEW r \in Readers
               PROVE  /\ \A i \in Seen(r) : i < next[r]
                      /\ IsFiniteSet(Seen(r)) /\ Cardinality(Seen(r)) = Len(got[r])
                      /\ dropped[r] = next[r] - Len(got[r])
    BY DEF CursorExact
  <2>1. Seen(r) = {} /\ Len(got[r]) = 0 /\ next[r] = 0 /\ dropped[r] = 0
    BY DEF Init, Seen
  <2> QED
    BY <2>1, FS_EmptySet
<1>9. TapsInv
  BY DEF Init, TapsInv, TapLossless
<1> QED
  BY <1>6, <1>7, <1>8, <1>9 DEF Inv

LEMMA Inductive == DatagramsAssumption /\ Spec => []Inv
<1> SUFFICES ASSUME DatagramsAssumption PROVE Spec => []Inv
  OBVIOUS
<1>1. Init => Inv
  BY InitInv
<1>2. Inv /\ [Next]_vars => Inv'
  BY TypeStep, RingStep, ReadersStep, TapsStep DEF Inv
<1> QED
  BY <1>1, <1>2, PTL DEF Spec

\* serve/datagram.rs: the ring holds the newest datagrams without a gap,
\* dropped() counts exactly what a reader or its clone missed, and a tap
\* misses nothing, however often the ring overflows.
THEOREM Accounted == DatagramsAssumption /\ Spec => []DatagramsAccounted
<1> SUFFICES ASSUME DatagramsAssumption PROVE Spec => []DatagramsAccounted
  OBVIOUS
<1>1. Inv => DatagramsAccounted
  <2> SUFFICES ASSUME Inv PROVE DropsAccounted
    BY DEF Inv, RingInv, TapsInv, DatagramsAccounted
  <2> SUFFICES ASSUME NEW r \in Readers
               PROVE  /\ \A n \in DOMAIN got[r] : got[r][n] < next[r]
                      /\ Cardinality(Seen(r)) = Len(got[r])
                      /\ dropped[r] = Cardinality(0 .. next[r] - 1) - Len(got[r])
    BY DEF DropsAccounted, Seen
  <2>1. next[r] \in Nat
    BY DEF Inv, TypeOK
  <2>2. Cardinality(0 .. next[r] - 1) = next[r]
    BY <2>1, FS_Interval
  <2>3. \A n \in DOMAIN got[r] : got[r][n] \in Seen(r)
    BY DEF Seen
  <2> QED
    BY <2>2, <2>3 DEF Inv, CursorExact
<1>2. Spec => []Inv
  BY Inductive
<1> QED
  BY <1>1, <1>2, PTL

\* serve/datagram.rs: every component of the state keeps its type, the ring
\* never outgrows its depth.
THEOREM TypeCorrect == DatagramsAssumption /\ Spec => []TypeOK
<1> SUFFICES ASSUME DatagramsAssumption PROVE Spec => []TypeOK
  OBVIOUS
<1>1. Inv => TypeOK
  BY DEF Inv
<1>2. Spec => []Inv
  BY Inductive
<1> QED
  BY <1>1, <1>2, PTL

\* Every step of the datagrams is a step of the lossy log, or none.
LEMMA StepRefines ==
  ASSUME TypeOK, RingInv, [Next]_vars
  PROVE  [Log!LogNext]_(Log!logVars)
<1> USE DEF Log!LogNext, Log!logVars
<1> DEFINE Ended == {r \in Readers : reader[r] \in {"none", "err"}}
<1>b. epoch \in Nat /\ oldest \in Nat /\ oldest <= epoch /\ next \in [Readers -> Nat]
  BY DEF TypeOK, RingInv, oldest
<1>1. CASE Write
  <2>1. writer /\ UNCHANGED <<writer, next, reader>>
    BY <1>1 DEF Write, Live
  <2>2. epoch' = epoch + 1 /\ oldest' >= oldest /\ oldest' \in Nat
    BY <1>1, Pushed
  <2>3. oldest' <= epoch + 1
    BY <1>1, Pushed DEF oldest
  <2>4. 0 .. oldest - 1 \subseteq 0 .. oldest' - 1 /\ 0 .. oldest' - 1 \subseteq 0 .. epoch
    <3>1. PICK m \in Nat : m = oldest'
      BY <2>2
    <3>2. m >= oldest /\ m <= epoch + 1
      BY <2>2, <2>3, <3>1
    <3>3. 0 .. oldest - 1 \subseteq 0 .. m - 1
      BY <1>b, <3>2
    <3>4. 0 .. m - 1 \subseteq 0 .. epoch
      BY <1>b, <3>2
    <3> QED
      BY <3>1, <3>3, <3>4
  <2>5. Log!LogAppend
    BY <2>1, <2>2, <2>4 DEF Log!LogAppend
  <2> QED
    BY <2>5
<1>2. CASE Close \/ DropWriter
  <2>1. Log!LogClose
    BY <1>2 DEF Close, DropWriter, stateVars, Log!LogClose, oldest
  <2> QED
    BY <2>1
<1>3. ASSUME NEW r \in Readers, Read(r) PROVE Log!LogRead(r)
  <2>1. next' = [next EXCEPT ![r] = Cursor(r) + 1] /\ reader[r] = "live" /\ UNCHANGED <<epoch, oldest, writer, reader>>
    BY <1>3 DEF Read, stateVars, oldest
  <2>2. Cursor(r) \in next[r] .. epoch - 1 /\ Cursor(r) \notin 0 .. oldest - 1
    BY <1>3, ReadAtCursor
  <2>3. \A j \in next[r] .. Cursor(r) - 1 : j \in 0 .. oldest - 1
    BY <1>3, ReadAtCursor
  <2> QED
    BY <2>1, <2>2, <2>3 DEF Log!LogRead
<1>4. ASSUME NEW r \in Readers, ReadEnd(r) PROVE Log!LogEnd(r)
  <2>1. ~writer /\ Cursor(r) >= epoch /\ UNCHANGED <<epoch, oldest, writer, next>>
    BY <1>4 DEF ReadEnd, stateVars, oldest, RingInv
  <2>2. Ended' = Ended \cup {r}
    BY <1>4 DEF ReadEnd, TypeOK
  <2>3. \A j \in next[r] .. epoch - 1 : j \in 0 .. oldest - 1
    BY <1>b, <2>1 DEF Cursor
  <2> QED
    BY <2>1, <2>2, <2>3 DEF Log!LogEnd
<1>5. ASSUME NEW r \in Readers, DropReader(r) PROVE Log!LogFork(r, r)
  <2>1. UNCHANGED <<epoch, oldest, writer, next>>
    BY <1>5 DEF DropReader, stateVars, oldest
  <2>2. Ended' = Ended \ {r}
    BY <1>5 DEF DropReader, TypeOK
  <2>3. next' = [next EXCEPT ![r] = next[r]]
    BY <1>b, <2>1
  <2> QED
    BY <2>1, <2>2, <2>3 DEF Log!LogFork
<1>6. ASSUME NEW r \in Readers, NEW s \in Readers, CloneReader(r, s) PROVE Log!LogFork(r, s)
  <2>1. next' = [next EXCEPT ![s] = next[r]] /\ UNCHANGED <<epoch, oldest, writer>>
    BY <1>6 DEF CloneReader, stateVars, oldest
  <2>2. Ended' = Ended \ {s}
    BY <1>6 DEF CloneReader, TypeOK
  <2> QED
    BY <2>1, <2>2 DEF Log!LogFork
<1>7. ASSUME NEW t \in Taps, AddTap(t) PROVE UNCHANGED Log!logVars
  BY <1>7 DEF AddTap, stateVars, oldest
<1>8. CASE UNCHANGED vars
  BY <1>8 DEF vars, oldest
<1> QED
  BY <1>1, <1>2, <1>3, <1>4, <1>5, <1>6, <1>7, <1>8 DEF Next

\* serve/datagram.rs: the datagrams of a track implement LossyLog, whatever
\* the depth of the ring, under the refinement mapping of Datagrams.
THEOREM Refines == DatagramsAssumption /\ Spec => ImplementsLossyLog
<1> SUFFICES ASSUME DatagramsAssumption PROVE Spec => ImplementsLossyLog
  OBVIOUS
<1>1. Init => Log!LogInit
  BY DEF Init, Log!LogInit, oldest
<1>2. Inv /\ [Next]_vars => [Log!LogNext]_(Log!logVars)
  BY StepRefines DEF Inv
<1>3. Spec => []Inv
  BY Inductive
<1> QED
  BY <1>1, <1>2, <1>3, PTL DEF Spec, ImplementsLossyLog, Log!LogSpec
=============================================================================
