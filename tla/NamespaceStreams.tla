--------------------------- MODULE NamespaceStreams ---------------------------
(* SUBSCRIBE_NAMESPACE, a request with a bidirectional stream of its own.    *)
(* The side that asks: SubscribeNamespace, the handle, and                   *)
(* SubscribeNamespaceRecv, which reads the response                          *)
(* (session/subscribe_namespace.rs, session/subscriber.rs).  The side that   *)
(* answers: SubscribedNamespace, the application's handle, and               *)
(* SubscribedNamespaceRecv, which writes it (session/subscribed_namespace.rs,*)
(* session/publisher.rs).  The tasks that open and accept streams are        *)
(* branches of Session::run: an error of one ends the session                *)
(* (session/mod.rs).                                                         *)
(*                                                                           *)
(* All requests are for prefixes that overlap.                               *)
EXTENDS Integers, Sequences, FiniteSets

CONSTANTS
  Requests,     \* request ids, in the order they are made
  Suffixes,     \* namespaces below the prefix
  QueueCapacity,\* OUTGOING_QUEUE_CAPACITY
  MaxKnown,     \* MAX_KNOWN_NAMESPACE_SUFFIXES
  MaxStreams,   \* MAX_CONCURRENT_SUBSCRIBE_NAMESPACE_STREAMS
  MaxNames      \* bound: NAMESPACE and NAMESPACE_DONE the application sends

NamespaceStreamsAssumption ==
  /\ Requests \subseteq Nat /\ {QueueCapacity, MaxKnown, MaxStreams, MaxNames} \subseteq Nat \ {0}
  /\ IsFiniteSet(Suffixes) /\ "none" \notin Suffixes

VARIABLES
  nsr,          \* of each request, SubscribeNamespaceRecv and its state: [st, responded, ok,
                \* known, events, closed]; st is "idle", "opening", "running" or "ended"
  handle,       \* the SubscribeNamespace: "none", "held", "finished", "reset", "dropped"
  prefixes,     \* Subscriber::subscribe_namespaces: the requests it has an entry for
  up,           \* the stream to the side that answers: "none", "open", "fin", "reset"
  down,         \* the stream back: [msgs, end, stopped]
  nss,          \* SubscribedNamespaceRecv and its state: [st, responded, closed, names, queue]
                \* st is "none", "running", "draining", "ended"
  app,          \* the SubscribedNamespace: "none", "queued", "held", "dropped", or "refused"
                \* for an overlap, which has none
  activePrefixes,       \* Publisher::subscribed_namespace_prefixes
  sentNames,    \* history: NAMESPACE and NAMESPACE_DONE the application sent
  applied,      \* history: the namespaces the events have told the asking application of
  failure       \* the error that ended the session, or "no"

askingVars == <<nsr, handle, prefixes, applied>>
answeringVars == <<nss, app, activePrefixes, sentNames>>
namespaceVars == <<askingVars, up, down, answeringVars, failure>>

\* Before a request is made, and before it arrives.
NotAsked == [st |-> "idle", responded |-> FALSE, ok |-> FALSE, known |-> {}, events |-> <<>>,
             closed |-> FALSE]
NotAnswering == [st |-> "none", responded |-> FALSE, closed |-> FALSE, names |-> {}, queue |-> <<>>]

NamespacesStart ==
  /\ nsr = [r \in Requests |-> NotAsked]
  /\ handle = [r \in Requests |-> "none"] /\ prefixes = {}
  /\ up = [r \in Requests |-> "none"]
  /\ down = [r \in Requests |-> [msgs |-> <<>>, end |-> "no", stopped |-> FALSE]]
  /\ nss = [r \in Requests |-> NotAnswering]
  /\ app = [r \in Requests |-> "none"] /\ activePrefixes = {} /\ sentNames = 0
  /\ applied = [r \in Requests |-> {}]
  /\ failure = "no"

Msg(type, suffix) == [type |-> type, suffix |-> suffix]
Bare(type) == Msg(type, "none")
\* The session is up: its tasks run.
Up == failure = "no"
\* Dropping a SendStream finishes it, dropping a RecvStream stops the sender.
DroppedUp(r) == IF up[r] = "open" THEN [up EXCEPT ![r] = "fin"] ELSE up
FinDown(r) == IF down[r].end = "no" THEN [down EXCEPT ![r].end = "fin"] ELSE down

-----------------------------------------------------------------------------
(* The side that asks                                                      *)

\* subscribe_namespace: the prefix is reserved, unless it overlaps with another
\* (then ServeError::Duplicate and no state changes).
SubscribeNamespace(r) ==
  /\ nsr[r].st = "idle" /\ prefixes = {} /\ \A q \in Requests : q < r => nsr[q].st # "idle"
  /\ nsr' = [nsr EXCEPT ![r].st = "opening"]
  /\ prefixes' = prefixes \cup {r}
  /\ UNCHANGED <<handle, applied, up, down, answeringVars, failure>>

\* The caller gives up while the stream is being opened: SubscribeNamespaceCleanup.
AbandonOpen(r) ==
  /\ nsr[r].st = "opening" /\ handle[r] = "none"
  /\ handle' = [handle EXCEPT ![r] = "dropped"]
  /\ prefixes' = prefixes \ {r}
  /\ UNCHANGED <<nsr, applied, up, down, answeringVars, failure>>

\* open_subscribe_namespace: the request is sent and the handle handed over;
\* without a caller both halves are dropped.
OpenSubscribeNamespace(r) ==
  /\ Up /\ nsr[r].st = "opening"
  /\ IF handle[r] = "none"
     THEN /\ handle' = [handle EXCEPT ![r] = "held"] /\ up' = [up EXCEPT ![r] = "open"]
          /\ nsr' = [nsr EXCEPT ![r].st = "running"] /\ UNCHANGED <<prefixes, down>>
     ELSE /\ up' = [up EXCEPT ![r] = "fin"] /\ down' = [down EXCEPT ![r].stopped = TRUE]
          /\ nsr' = [nsr EXCEPT ![r].st = "ended"] /\ prefixes' = prefixes \ {r}
          /\ UNCHANGED handle
  /\ UNCHANGED <<applied, answeringVars, failure>>

FinishRequest(r) ==
  /\ handle[r] = "held" /\ handle' = [handle EXCEPT ![r] = "finished"]
  /\ up' = DroppedUp(r)
  /\ UNCHANGED <<nsr, prefixes, applied, down, answeringVars, failure>>

\* reset_request also after FIN, which the reset cannot overtake.
ResetRequest(r) ==
  /\ handle[r] \in {"held", "finished"} /\ handle' = [handle EXCEPT ![r] = "reset"]
  /\ up' = [up EXCEPT ![r] = "reset"]
  /\ UNCHANGED <<nsr, prefixes, applied, down, answeringVars, failure>>

DropSubscribeNamespace(r) ==
  /\ handle[r] \in {"held", "finished", "reset"} /\ handle' = [handle EXCEPT ![r] = "dropped"]
  /\ up' = DroppedUp(r)
  /\ UNCHANGED <<nsr, prefixes, applied, down, answeringVars, failure>>

\* SubscribeNamespaceRecv is dropped, with its reader.
RecvEnds(r, s) ==
  /\ nsr' = [nsr EXCEPT ![r] = [s EXCEPT !.st = "ended"]]
  /\ prefixes' = prefixes \ {r}

\* run, the branch that is polled first: the handle was reset or dropped.
ForceReset(r) ==
  /\ Up /\ nsr[r].st = "running" /\ handle[r] \in {"reset", "dropped"}
  /\ RecvEnds(r, nsr[r])
  /\ down' = [down EXCEPT ![r].stopped = TRUE]
  /\ UNCHANGED <<handle, applied, up, answeringVars, failure>>

Reading(r) == Up /\ nsr[r].st = "running" /\ handle[r] \in {"held", "finished"}

\* recv_namespace and recv_namespace_done on the set of known suffixes; a
\* refusal is a ProtocolViolation.
AcceptsName(s, m) ==
  IF m.type = "Namespace" THEN m.suffix \in s.known \/ Cardinality(s.known) < MaxKnown
  ELSE m.suffix \in s.known
KnownAfter(s, m) == IF m.type = "Namespace" THEN s.known \cup {m.suffix} ELSE s.known \ {m.suffix}

\* recv_message.
RecvMessage(r) ==
  /\ Reading(r) /\ down[r].msgs # <<>>
  /\ LET m == Head(down[r].msgs)
         s == nsr[r]
         rest == [down EXCEPT ![r].msgs = Tail(@)]
     IN \/ /\ m.type = "RequestOk" /\ ~s.responded
           /\ nsr' = [nsr EXCEPT ![r].responded = TRUE, ![r].ok = TRUE]
           /\ down' = rest /\ UNCHANGED <<prefixes, failure>>
        \/ /\ m.type = "RequestError" /\ ~s.responded
           /\ RecvEnds(r, [s EXCEPT !.responded = TRUE, !.closed = TRUE])
           /\ down' = [rest EXCEPT ![r].stopped = TRUE] /\ UNCHANGED failure
        \/ /\ m.type \in {"Namespace", "NamespaceDone"} /\ s.responded /\ AcceptsName(s, m)
           /\ nsr' = [nsr EXCEPT ![r].known = KnownAfter(s, m), ![r].events = Append(@, m)]
           /\ down' = rest /\ UNCHANGED <<prefixes, failure>>
        \/ /\ IF m.type \in {"Namespace", "NamespaceDone"} THEN ~(s.responded /\ AcceptsName(s, m))
              ELSE s.responded
           /\ failure' = "ProtocolViolation"
           /\ UNCHANGED <<nsr, prefixes, down>>
  /\ UNCHANGED <<handle, applied, up, answeringVars>>

\* run_response: the stream may end once there was a response ...
ResponseDone(r) == nsr[r].responded /\ down[r].msgs = <<>> /\ down[r].end = "fin"
EndOfResponse(r) ==
  /\ Reading(r) /\ ResponseDone(r)
  /\ RecvEnds(r, nsr[r]) /\ down' = [down EXCEPT ![r].stopped = TRUE]
  /\ UNCHANGED <<handle, applied, up, answeringVars, failure>>

\* ... and before it, decode() finds the stream too short, which is not an
\* error of the stream and goes all the way up.
EndWithoutResponse(r) ==
  /\ Reading(r) /\ ~nsr[r].responded /\ down[r].msgs = <<>> /\ down[r].end = "fin"
  /\ failure' = "DecodeError"
  /\ UNCHANGED <<askingVars, up, down, answeringVars>>

\* SubscribeNamespace::next.
NextEvent(r) ==
  /\ handle[r] \in {"held", "finished", "reset"} /\ nsr[r].events # <<>>
  /\ applied' = [applied EXCEPT ![r] = KnownAfter([known |-> @], Head(nsr[r].events))]
  /\ nsr' = [nsr EXCEPT ![r].events = Tail(@)]
  /\ UNCHANGED <<handle, prefixes, up, down, answeringVars, failure>>

-----------------------------------------------------------------------------
(* The side that answers                                                   *)

\* Mutant: a request that is refused for its overlap is entered all the same.
RecvSubscribeNamespace_Entered(r) ==
  /\ activePrefixes' = activePrefixes \cup {r}
  /\ IF activePrefixes # {}
     THEN nss' = [nss EXCEPT ![r].st = "running", ![r].queue = <<Bare("RequestError")>>]
          /\ app' = [app EXCEPT ![r] = "refused"]
     ELSE nss' = [nss EXCEPT ![r].st = "running"] /\ app' = [app EXCEPT ![r] = "queued"]

\* recv_subscribe_namespace: an overlap is answered without an entry of its own.
RecvSubscribeNamespace(r) ==
  IF activePrefixes # {}
  THEN /\ nss' = [nss EXCEPT ![r].st = "running", ![r].queue = <<Bare("RequestError")>>]
       /\ app' = [app EXCEPT ![r] = "refused"] /\ UNCHANGED activePrefixes
  ELSE /\ nss' = [nss EXCEPT ![r].st = "running"]
       /\ app' = [app EXCEPT ![r] = "queued"] /\ activePrefixes' = activePrefixes \cup {r}

\* run_subscribe_namespace_accept takes no more streams at once than this.
MayAccept == Up /\ Cardinality({q \in Requests : nss[q].st \in {"running", "draining"}}) < MaxStreams

\* accept_subscribe_namespace_stream; streams are accepted in any order, since
\* a stream is seen when its first packet arrives.
AcceptNamespaceStream(r) ==
  /\ MayAccept /\ up[r] \in {"open", "fin"} /\ nss[r].st = "none"
  /\ RecvSubscribeNamespace(r)
  /\ UNCHANGED <<askingVars, up, down, sentNames, failure>>

\* A request that was reset before it was read, or whose header does not come within
\* SUBSCRIBE_NAMESPACE_HEADER_TIMEOUT (which the code reports as a ProtocolViolation): the error is not
\* excused as one of the stream, and goes all the way up.
AcceptFails(r) ==
  /\ MayAccept /\ nss[r].st = "none"
  /\ \/ up[r] = "reset" /\ failure' = "ReadError"
     \/ up[r] \in {"open", "fin"} /\ failure' = "HeaderTimeout"
  /\ UNCHANGED <<askingVars, up, down, answeringVars>>

\* try_send of tokio's bounded channel, closed by recv_cancel.
HasRoom(r) == nss[r].st = "running" /\ Len(nss[r].queue) < QueueCapacity
Queued(s, m) == [s EXCEPT !.queue = Append(@, m)]
MayRespond(r) == ~nss[r].responded /\ ~nss[r].closed /\ nss[r].st # "ended"

\* The application takes the request from the Publisher, and answers it.
AcceptRequest(r) ==
  /\ app[r] = "queued"
  /\ IF MayRespond(r)
     THEN /\ app' = [app EXCEPT ![r] = IF HasRoom(r) THEN "held" ELSE "dropped"]
          /\ nss' = [nss EXCEPT ![r] = LET s == [@ EXCEPT !.responded = TRUE]
                                       IN IF HasRoom(r) THEN Queued(s, Bare("RequestOk")) ELSE s]
     ELSE app' = [app EXCEPT ![r] = "dropped"] /\ UNCHANGED nss
  /\ UNCHANGED <<askingVars, up, down, activePrefixes, sentNames, failure>>

\* reject, and Drop for a request nobody took, which tell no one once it is cancelled.
RejectRequest(r) ==
  /\ app[r] = "queued" /\ app' = [app EXCEPT ![r] = "dropped"]
  /\ nss' = IF MayRespond(r) /\ HasRoom(r)
            THEN [nss EXCEPT ![r] = Queued([@ EXCEPT !.responded = TRUE], Bare("RequestError"))]
            ELSE nss
  /\ UNCHANGED <<askingVars, up, down, activePrefixes, sentNames, failure>>

\* namespace and namespace_done.  An error of theirs makes the relay let go
\* of the handle (producer.rs serve_subscribe_namespace).
SendName(r, type, suffix) ==
  /\ app[r] = "held" /\ sentNames < MaxNames /\ sentNames' = sentNames + 1
  /\ type = "NamespaceDone" => suffix \in nss[r].names
  /\ IF ~nss[r].closed /\ nss[r].st # "ended"
     THEN LET s == [nss[r] EXCEPT !.names = IF type = "Namespace" THEN @ \cup {suffix}
                                            ELSE @ \ {suffix}]
          IN /\ nss' = [nss EXCEPT ![r] = IF HasRoom(r) THEN Queued(s, Msg(type, suffix)) ELSE s]
             /\ app' = IF HasRoom(r) THEN app ELSE [app EXCEPT ![r] = "dropped"]
     ELSE app' = [app EXCEPT ![r] = "dropped"] /\ UNCHANGED nss
  /\ UNCHANGED <<askingVars, up, down, activePrefixes, failure>>

DropSubscribedNamespace(r) ==
  /\ app[r] = "held" /\ app' = [app EXCEPT ![r] = "dropped"]
  /\ UNCHANGED <<askingVars, up, down, nss, activePrefixes, sentNames, failure>>

\* recv_cancel.
Cancelled(s) == [s EXCEPT !.closed = TRUE]
\* run returns: Drop removes the prefix, and the writer is dropped.
ResponderEnds(r, s) ==
  /\ nss' = [nss EXCEPT ![r] = [s EXCEPT !.st = "ended", !.queue = <<>>]]
  /\ activePrefixes' = activePrefixes \ {r}

SendMessage(r) ==
  /\ Up /\ nss[r].st \in {"running", "draining"} /\ nss[r].queue # <<>>
  /\ IF down[r].stopped
     THEN ResponderEnds(r, Cancelled(nss[r])) /\ down' = FinDown(r)
     ELSE /\ down' = [down EXCEPT ![r].msgs = Append(@, Head(nss[r].queue))]
          /\ nss' = [nss EXCEPT ![r].queue = Tail(@)] /\ UNCHANGED activePrefixes
  /\ UNCHANGED <<askingVars, up, app, sentNames, failure>>

\* The application has let go, or the channel was closed, and all is sent.
FinishResponse(r) ==
  /\ Up /\ nss[r].queue = <<>>
  /\ nss[r].st = "draining" \/ (nss[r].st = "running" /\ app[r] \in {"dropped", "refused"})
  /\ ResponderEnds(r, nss[r]) /\ down' = FinDown(r)
  /\ UNCHANGED <<askingVars, up, app, sentNames, failure>>

\* reader.done() is true: what is in the queue is still sent.
SeeRequestFin(r) ==
  /\ Up /\ nss[r].st = "running" /\ up[r] = "fin"
  /\ nss' = [nss EXCEPT ![r] = [Cancelled(@) EXCEPT !.st = "draining"]]
  /\ UNCHANGED <<askingVars, up, down, app, activePrefixes, sentNames, failure>>

SeeRequestReset(r) ==
  /\ Up /\ nss[r].st = "running" /\ up[r] = "reset"
  /\ ResponderEnds(r, Cancelled(nss[r])) /\ down' = FinDown(r)
  /\ UNCHANGED <<askingVars, up, app, sentNames, failure>>

NamespacesNext ==
  \E r \in Requests :
    \/ SubscribeNamespace(r) \/ AbandonOpen(r) \/ OpenSubscribeNamespace(r)
    \/ FinishRequest(r) \/ ResetRequest(r) \/ DropSubscribeNamespace(r) \/ ForceReset(r)
    \/ RecvMessage(r) \/ EndOfResponse(r) \/ EndWithoutResponse(r) \/ NextEvent(r)
    \/ AcceptNamespaceStream(r) \/ AcceptFails(r) \/ AcceptRequest(r) \/ RejectRequest(r)
    \/ \E type \in {"Namespace", "NamespaceDone"}, s \in Suffixes : SendName(r, type, s)
    \/ DropSubscribedNamespace(r) \/ SendMessage(r) \/ FinishResponse(r)
    \/ SeeRequestFin(r) \/ SeeRequestReset(r)

-----------------------------------------------------------------------------
NamespacesTypeOK ==
  /\ \A r \in Requests :
       /\ nsr[r].known \subseteq Suffixes /\ nss[r].names \subseteq Suffixes
       /\ Len(nss[r].queue) <= QueueCapacity
       /\ handle[r] \in {"none", "held", "finished", "reset", "dropped"}
       /\ app[r] \in {"none", "queued", "held", "dropped", "refused"}
  /\ prefixes \subseteq Requests /\ activePrefixes \subseteq Requests
  /\ failure \in {"no", "ProtocolViolation", "DecodeError", "ReadError", "HeaderTimeout"}

\* The set a sequence of NAMESPACE and NAMESPACE_DONE leaves, after some: the last message
\* about a namespace counts.  Responses name no namespace.
After(names, msgs) ==
  {s \in Suffixes :
     \/ s \in names /\ \A i \in 1 .. Len(msgs) : msgs[i].suffix # s
     \/ \E i \in 1 .. Len(msgs) :
          /\ msgs[i].suffix = s /\ msgs[i].type = "Namespace"
          /\ \A j \in (i + 1) .. Len(msgs) : msgs[j].suffix # s}

(* What the asking application has been told, the events it has not taken,   *)
(* and the messages on the stream and in the queue add up to the namespaces  *)
(* the answering application has announced, in any state and after any       *)
(* cancellation, as long as neither side let go; the bookkeeping of both     *)
(* sides agrees with it, so that no NAMESPACE_DONE comes without its         *)
(* NAMESPACE, which would be a protocol violation and end the session        *)
(* (session/subscribe_namespace.rs, session/subscribed_namespace.rs).        *)
(* The prefixes agree too: overlapping requests are never active together,   *)
(* and a prefix whose response was read to its end is free on both sides, so *)
(* that asking again is not refused (session/publisher.rs).                  *)
NamespacesFaithful ==
  /\ failure # "ProtocolViolation"
  /\ Cardinality(activePrefixes) <= 1
  /\ activePrefixes = {r \in Requests : nss[r].st \in {"running", "draining"} /\ app[r] # "refused"}
  /\ \A r \in Requests :
       /\ handle[r] # "dropped" => After(applied[r], nsr[r].events) = nsr[r].known
       /\ app[r] = "held" /\ ~nss[r].closed /\ nsr[r].st = "running" =>
            After(nsr[r].known, down[r].msgs \o nss[r].queue) = nss[r].names
       /\ nsr[r].st = "ended" /\ handle[r] = "finished" /\ down[r].end = "fin" =>
            r \notin activePrefixes /\ r \notin prefixes

(* A SUBSCRIBE_NAMESPACE that is given up ends with its stream, and the      *)
(* session goes on: "Cancel the request gracefully with FIN while continuing *)
(* to receive its response" (session/subscribe_namespace.rs finish_request). *)
CancelledGracefully == failure # "DecodeError"
=============================================================================
