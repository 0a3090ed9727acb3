------------------------------ MODULE LossyLog ------------------------------
(***************************************************************************)
(* What a track mode promises its readers (serve/subgroup.rs,              *)
(* serve/datagram.rs): one writer appends entries 0, 1, 2, ...; old entries*)
(* may expire, the writer is never blocked.  Every reader walks the log    *)
(* forward on its own, receives an entry at most once, passes over an entry*)
(* only if it has expired, and ends only when the writer is gone and       *)
(* nothing is left for it.                                                 *)
(***************************************************************************)
EXTENDS Naturals

CONSTANT Readers

VARIABLES
  appended,     \* number of entries appended
  expired,      \* entries no reader can get any more
  open,         \* the writer may still append
  pos,          \* next entry each reader wants
  ended         \* readers that were told there is nothing more

logVars == <<appended, expired, open, pos, ended>>

LogInit ==
  /\ appended = 0
  /\ expired = {}
  /\ open = TRUE
  /\ pos = [r \in Readers |-> 0]
  /\ ended = {}

\* Append one entry; entries, the new one included, may expire.
LogAppend ==
  /\ open
  /\ appended' = appended + 1
  /\ expired \subseteq expired'
  /\ expired' \subseteq 0 .. appended
  /\ UNCHANGED <<open, pos, ended>>

LogClose ==
  /\ open
  /\ open' = FALSE
  /\ UNCHANGED <<appended, expired, pos, ended>>

\* Reader r receives the first entry at or past its position still there.
LogRead(r) ==
  /\ r \notin ended
  /\ \E i \in pos[r] .. appended - 1 :
       /\ i \notin expired
       /\ \A j \in pos[r] .. i - 1 : j \in expired
       /\ pos' = [pos EXCEPT ![r] = i + 1]
  /\ UNCHANGED <<appended, expired, open, ended>>

\* Reader r is told that there is nothing more.
LogEnd(r) ==
  /\ ~open
  /\ \A j \in pos[r] .. appended - 1 : j \in expired
  /\ ended' = ended \cup {r}
  /\ UNCHANGED <<appended, expired, open, pos>>

\* A reader is a clone of another: it continues from the same position.
LogFork(r, s) ==
  /\ pos' = [pos EXCEPT ![s] = pos[r]]
  /\ ended' = ended \ {s}
  /\ UNCHANGED <<appended, expired, open>>

LogNext ==
  \/ LogAppend
  \/ LogClose
  \/ \E r \in Readers : LogRead(r) \/ LogEnd(r)
  \/ \E r, s \in Readers : LogFork(r, s)

LogSpec == LogInit /\ [][LogNext]_logVars
=============================================================================
