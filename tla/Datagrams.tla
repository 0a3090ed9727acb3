----------------------------- MODULE Datagrams ------------------------------
(***************************************************************************)
(* DatagramsWriter and DatagramsReader (serve/datagram.rs): a writer that  *)
(* is never blocked, a ring of bounded depth, and readers that count what  *)
(* was superseded before they came to read it.  Datagram number n is the   *)
(* n-th one written, so the ring is a sequence of numbers.                 *)
(***************************************************************************)
EXTENDS Integers, Sequences, FiniteSets

CONSTANTS
  Depths,       \* depths asked for; 0 is raised to 1
  Readers, Taps,
  MaxWrites     \* bound: datagrams written

NoTap == -1

DatagramsAssumption == Depths \subseteq Nat /\ MaxWrites \in Nat

VARIABLES
  ring, depth, epoch, closed,   \* DatagramsState
  writer,                       \* the DatagramsWriter is alive
  reader,                       \* "absent", "live", "none", "err", "gone"
  next, dropped,                \* DatagramsReader
  got,                          \* history: datagrams each reader received
  tapFrom, tapped               \* epoch at which a tap was added; what it was handed

vars == <<ring, depth, epoch, closed, writer, reader, next, dropped, got, tapFrom, tapped>>
stateVars == <<ring, depth, epoch, closed>>
tapVars == <<tapFrom, tapped>>

\* lock_mut succeeds while the writer half and some reader handle are alive.
Live == writer /\ \E r \in Readers : reader[r] \notin {"absent", "gone"}

\* DatagramsState::with_depth.
WithDepth(d) == IF d > 1 THEN d ELSE 1

Init ==
  /\ ring = <<>> /\ epoch = 0 /\ closed = FALSE
  /\ depth \in {WithDepth(d) : d \in Depths}
  /\ writer = TRUE
  /\ \E first \in Readers :
       reader = [r \in Readers |-> IF r = first THEN "live" ELSE "absent"]
  /\ next = [r \in Readers |-> 0]
  /\ dropped = [r \in Readers |-> 0]
  /\ got = [r \in Readers |-> <<>>]
  /\ tapFrom = [t \in Taps |-> NoTap]
  /\ tapped = [t \in Taps |-> <<>>]

\* The ring after a write: the oldest datagram makes room.
Push(d) == Append(IF Len(ring) >= depth THEN Tail(ring) ELSE ring, d)

\* DatagramsWriter::write; Cancel without a reader.
Write ==
  /\ Live /\ epoch < MaxWrites
  /\ tapped' = [t \in Taps |-> IF tapFrom[t] = NoTap THEN tapped[t]
                                                   ELSE Append(tapped[t], epoch)]
  /\ ring' = Push(epoch)
  /\ epoch' = epoch + 1
  /\ UNCHANGED <<depth, closed, writer, reader, next, dropped, got, tapFrom>>

\* DatagramsWriter::close(err); Cancel without a reader.
Close ==
  /\ writer
  /\ writer' = FALSE
  /\ closed' = Live
  /\ UNCHANGED <<ring, depth, epoch, reader, next, dropped, got, tapVars>>

DropWriter ==
  /\ writer
  /\ writer' = FALSE
  /\ UNCHANGED <<stateVars, reader, next, dropped, got, tapVars>>

oldest == epoch - Len(ring)

\* Where the cursor stands after the jump over superseded datagrams.
Cursor(r) == IF next[r] < oldest THEN oldest ELSE next[r]

\* Mutant: the jump is not counted.
Skipped_NotCounted(r) == 0

\* Datagrams the jump passes over.
Skipped(r) == Cursor(r) - next[r]

\* DatagramsReader::read returns a datagram.
Read(r) ==
  /\ reader[r] = "live"
  /\ Cursor(r) < epoch
  /\ next' = [next EXCEPT ![r] = Cursor(r) + 1]
  /\ dropped' = [dropped EXCEPT ![r] = @ + Skipped(r)]
  /\ got' = [got EXCEPT ![r] = Append(@, ring[Cursor(r) - oldest + 1])]
  /\ UNCHANGED <<stateVars, writer, reader, tapVars>>

\* DatagramsReader::read returns the closing error, or None after a drop.
ReadEnd(r) ==
  /\ reader[r] = "live"
  /\ Cursor(r) >= epoch
  /\ closed \/ ~writer
  /\ reader' = [reader EXCEPT ![r] = IF closed THEN "err" ELSE "none"]
  /\ UNCHANGED <<stateVars, writer, next, dropped, got, tapVars>>

CloneReader(r, s) ==
  /\ reader[r] = "live" /\ reader[s] = "absent"
  /\ reader' = [reader EXCEPT ![s] = "live"]
  /\ next' = [next EXCEPT ![s] = next[r]]
  /\ dropped' = [dropped EXCEPT ![s] = dropped[r]]
  /\ got' = [got EXCEPT ![s] = got[r]]
  /\ UNCHANGED <<stateVars, writer, tapVars>>

DropReader(r) ==
  /\ reader[r] \in {"live", "none", "err"}
  /\ reader' = [reader EXCEPT ![r] = "gone"]
  /\ UNCHANGED <<stateVars, writer, next, dropped, got, tapVars>>

\* TapRegistrar::tap while the writer holds the tap list.
AddTap(t) ==
  /\ writer
  /\ tapFrom[t] = NoTap
  /\ tapFrom' = [tapFrom EXCEPT ![t] = epoch]
  /\ UNCHANGED <<stateVars, writer, reader, next, dropped, got, tapped>>

Next ==
  \/ Write \/ Close \/ DropWriter
  \/ \E r \in Readers : Read(r) \/ ReadEnd(r) \/ DropReader(r)
  \/ \E r, s \in Readers : CloneReader(r, s)
  \/ \E t \in Taps : AddTap(t)

Spec == Init /\ [][Next]_vars
-----------------------------------------------------------------------------
TypeOK ==
  /\ ring \in Seq(Nat) /\ epoch \in Nat /\ closed \in BOOLEAN
  /\ depth \in Nat \ {0} /\ Len(ring) <= depth
  /\ writer \in BOOLEAN
  /\ reader \in [Readers -> {"absent", "live", "none", "err", "gone"}]
  /\ next \in [Readers -> 0 .. epoch]
  /\ dropped \in [Readers -> 0 .. epoch]
  /\ got \in [Readers -> Seq(Nat)]
  /\ tapFrom \in [Taps -> Nat \cup {NoTap}]
  /\ tapped \in [Taps -> Seq(Nat)]

(* datagram.rs:53-55 "The ring holds writes [epoch - ring.len(), epoch)":   *)
(* the reader computes positions from that, so a ring with a gap would hand *)
(* out the wrong datagram.                                                  *)
RingIsNewest == ring = [n \in 1 .. Len(ring) |-> oldest + n - 1]

(* datagram.rs:186-193: dropped() is exact.  Every datagram before the      *)
(* reader's cursor was either received, in write order and once, or counted *)
(* as dropped, also across clones.                                          *)
DropsAccounted ==
  \A r \in Readers :
    LET seen == {got[r][n] : n \in DOMAIN got[r]}
    IN /\ \A n \in DOMAIN got[r] : got[r][n] < next[r]
       /\ Cardinality(seen) = Len(got[r])
       /\ dropped[r] = Cardinality(0 .. next[r] - 1) - Len(got[r])

(* tap.rs:4-17: a tap is handed every datagram written since it was added,  *)
(* also when the ring overflows.                                            *)
TapLossless ==
  \A t \in Taps : tapFrom[t] # NoTap =>
    tapped[t] = [n \in 1 .. epoch - tapFrom[t] |-> tapFrom[t] + n - 1]

(* datagram.rs: the ring holds the newest datagrams, what a reader missed   *)
(* is counted exactly, and a tap misses nothing.                            *)
DatagramsAccounted == RingIsNewest /\ DropsAccounted /\ TapLossless

Log == INSTANCE LossyLog WITH
  appended <- epoch,
  expired <- 0 .. oldest - 1,
  open <- writer,
  pos <- next,
  ended <- {r \in Readers : reader[r] \in {"none", "err"}}

(* The datagrams of a track implement the fan-out contract LossyLog.        *)
ImplementsLossyLog == Log!LogSpec
=============================================================================
