----------------------------- MODULE RequestIds -----------------------------
(***************************************************************************)
(* Request id flow control (session/request_id.rs), one direction of a     *)
(* session: the SendState of one end and the RecvState of the other.  The  *)
(* sender allocates its ids in order, but several tasks send them (control *)
(* queue, SUBSCRIBE_NAMESPACE streams of their own) and an allocated id    *)
(* may never be sent at all, so ids arrive in any order and with gaps.     *)
(* The receiver compacts what it has seen into a low-water mark and the    *)
(* set of ids above it.  The other direction shares nothing with this one. *)
(***************************************************************************)
EXTENDS Naturals, Sequences

CONSTANTS
  SetupMax,     \* values of MAX_REQUEST_ID in the receiver's setup
  MaxU64        \* the largest id

Ids == 0 .. MaxU64
NoMax == MaxU64 + 1     \* blocked_sent_for = None

ASSUME RequestIdsAssumption ==
  MaxU64 \in Nat /\ MaxU64 > 1 /\ SetupMax \subseteq Ids

VARIABLES
  next, peerMax, blockedFor,        \* SendState
  first, lowWater, above, ourMax,   \* RecvState
  sent,         \* ids on their way
  maxSent,      \* MAX_REQUEST_ID messages on their way back
  accepted,     \* history: ids the receiver has accepted
  replayed,     \* history: an id was accepted a second time
  blocked,      \* history: REQUESTS_BLOCKED the sender has sent
  failed,       \* an end closed the session over an id
  rogue         \* the peer may send any id or maximum, any number of times

vars == <<next, peerMax, blockedFor, first, lowWater, above, ourMax, sent, maxSent,
          accepted, replayed, blocked, failed, rogue>>
fixed == <<first, rogue>>
sendVars == <<next, peerMax, blockedFor>>
recvVars == <<lowWater, above, accepted, replayed>>

\* A client's ids are even, a server's odd.
Init ==
  /\ first \in {0, 1} /\ rogue \in BOOLEAN
  /\ ourMax \in SetupMax
  /\ next = first /\ peerMax = ourMax /\ blockedFor = NoMax
  /\ lowWater = first /\ above = {}
  /\ sent = {} /\ maxSent = <<>>
  /\ accepted = {} /\ replayed = FALSE /\ blocked = <<>> /\ failed = FALSE

-----------------------------------------------------------------------------
(* Sending                                                                 *)

\* Mutant: the advertised maximum itself is used.
HasBudget_Inclusive == next <= peerMax

\* The next id is below the maximum the peer advertised.
HasBudget == next < peerMax

\* allocate() returns an id (or TooManyRequests, when the addition would
\* overflow, and changes nothing); the caller sends the request, or gives up.
Allocate ==
  /\ ~failed
  /\ HasBudget /\ next + 2 <= MaxU64
  /\ next' = next + 2
  /\ blockedFor' = NoMax
  /\ sent' \in {sent, sent \cup {next}}
  /\ UNCHANGED <<peerMax, fixed, recvVars, ourMax, maxSent, blocked, failed>>

\* allocate() finds the budget exhausted and reports it, once per maximum;
\* the receiver's handle_requests_blocked only logs.
Blocked ==
  /\ ~failed
  /\ ~HasBudget
  /\ blockedFor # peerMax
  /\ blockedFor' = peerMax
  /\ blocked' = Append(blocked, peerMax)
  /\ UNCHANGED <<next, peerMax, fixed, recvVars, ourMax, sent, maxSent, failed>>

\* The receiver raises the maximum it accepts.  This code never does; it
\* honours MAX_REQUEST_ID from peers that do.
RaiseMax(max) ==
  /\ ~failed
  /\ max > ourMax
  /\ ourMax' = max
  /\ maxSent' = Append(maxSent, max)
  /\ UNCHANGED <<sendVars, fixed, recvVars, sent, blocked, failed>>

\* apply_max_request_id: the maximum must grow.
Apply(max) ==
  \/ /\ max <= peerMax
     /\ failed' = TRUE
     /\ UNCHANGED <<peerMax, blockedFor>>
  \/ /\ max > peerMax
     /\ peerMax' = max
     /\ blockedFor' = NoMax
     /\ UNCHANGED failed

\* A MAX_REQUEST_ID arrives, in order.
ApplyMax ==
  /\ ~failed /\ maxSent # <<>>
  /\ maxSent' = Tail(maxSent)
  /\ Apply(Head(maxSent))
  /\ UNCHANGED <<next, fixed, recvVars, ourMax, sent, blocked>>

\* A rogue peer advertises a maximum of its own choice.
ApplyMaxRogue(max) ==
  /\ ~failed /\ rogue
  /\ Apply(max)
  /\ UNCHANGED <<next, fixed, recvVars, ourMax, sent, maxSent, blocked>>

-----------------------------------------------------------------------------
(* Receiving                                                               *)

\* Ids of the sequence that starts at `low`, below `high`.
Steps(low, high) == {i \in low .. high - 1 : i % 2 = low % 2}

\* Mutant: any id is let in that was not seen above the mark.
Valid_NoLowWater(id) == id < ourMax /\ id % 2 = first % 2 /\ id \notin above

\* The checks of validate_incoming.
Valid(id) ==
  /\ id < ourMax
  /\ id >= first /\ id % 2 = first % 2 /\ id >= lowWater
  /\ id \notin above

\* The mark moves to the first id of the sequence that was not received.
Advance(id, low) ==
  /\ low >= lowWater
  /\ low % 2 = lowWater % 2
  /\ low \notin above \cup {id}
  /\ Steps(lowWater, low) \subseteq above \cup {id}

\* validate_incoming accepts an id.
Accept(id) ==
  /\ Valid(id)
  /\ \E low \in Ids :
       /\ Advance(id, low)
       /\ lowWater' = low
       /\ above' = {i \in above \cup {id} : i > low}
  /\ accepted' = accepted \cup {id}
  /\ replayed' = (replayed \/ id \in accepted)
  /\ UNCHANGED failed

\* validate_incoming refuses an id, which closes the session.  A valid id
\* is refused too if the mark would move past the largest one.
Refuse(id) ==
  /\ ~Valid(id) \/ ~\E low \in Ids : Advance(id, low)
  /\ failed' = TRUE
  /\ UNCHANGED recvVars

\* A request arrives, in any order.
Receive(id) ==
  /\ ~failed /\ id \in sent
  /\ sent' = sent \ {id}
  /\ Accept(id) \/ Refuse(id)
  /\ UNCHANGED <<sendVars, fixed, ourMax, maxSent, blocked>>

\* A rogue peer sends an id of its own choice.
ReceiveRogue(id) ==
  /\ ~failed /\ rogue
  /\ Accept(id) \/ Refuse(id)
  /\ UNCHANGED <<sendVars, fixed, ourMax, maxSent, sent, blocked>>

Next ==
  \/ Allocate \/ Blocked \/ ApplyMax
  \/ \E id \in Ids : RaiseMax(id) \/ ApplyMaxRogue(id) \/ Receive(id) \/ ReceiveRogue(id)

Spec == Init /\ [][Next]_vars

-----------------------------------------------------------------------------
TypeOK ==
  /\ first \in {0, 1} /\ next \in Ids
  /\ peerMax \in Ids /\ ourMax \in Ids
  /\ blockedFor \in Ids \cup {NoMax}
  /\ lowWater \in Ids
  /\ above \subseteq Ids /\ sent \subseteq Ids /\ accepted \subseteq Ids
  /\ maxSent \in Seq(Ids) /\ blocked \in Seq(Ids)
  /\ replayed \in BOOLEAN /\ failed \in BOOLEAN /\ rogue \in BOOLEAN

(* request_id.rs:48-53: the low-water mark and the set above it stand for   *)
(* exactly the ids accepted so far, all of them in the peer's sequence, and *)
(* the set stays inside the window (lowWater, ourMax).                      *)
CompactionExact ==
  /\ accepted = Steps(first, lowWater) \cup above
  /\ \A i \in accepted \cup {lowWater} : i >= first /\ i % 2 = first % 2
  /\ \A i \in above : lowWater < i /\ i < ourMax

(* request_id.rs:152-178: whatever a peer sends, no id is let in twice,     *)
(* although most of the ids seen are no longer kept.                        *)
NoReplay == ~replayed

(* request_id.rs:136-178: an honest peer is never thrown out, whatever      *)
(* order its requests and the MAX_REQUEST_ID messages arrive in.            *)
HonestNeverRejected == ~rogue => ~failed

(* request_id.rs:104-108: REQUESTS_BLOCKED is sent at most once for each    *)
(* maximum.                                                                 *)
BlockedOncePerMax ==
  \A m, n \in DOMAIN blocked : m # n => blocked[m] # blocked[n]

(* request_id.rs: ids flow, and neither end complains without need.         *)
FlowControl == HonestNeverRejected /\ BlockedOncePerMax
=============================================================================
