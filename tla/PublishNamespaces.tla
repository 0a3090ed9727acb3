------------------------ MODULE PublishNamespaces ------------------------
(***************************************************************************)
(* PUBLISH_NAMESPACE between the publisher of one endpoint                 *)
(* (session/publisher.rs, publish_namespace.rs) and the subscriber of its  *)
(* peer (session/subscriber.rs, published_namespace.rs), with the          *)
(* SUBSCRIBEs the publisher routes to a namespace.                         *)
(*                                                                         *)
(* Both ends keep one entry per namespace and a handle per request, which  *)
(* the application may drop from a thread of its own.  The session task of *)
(* the publisher takes an entry out of the map and then reports the error  *)
(* to the handle: two steps, between which a handle may go.                *)
(***************************************************************************)
EXTENDS Naturals, Sequences, FiniteSets

CONSTANTS
  Namespaces,
  MaxIds,       \* how many PUBLISH_NAMESPACEs are sent
  Subs          \* SUBSCRIBEs that reach the publisher

Ids == 1 .. MaxIds
None == 0

NoNamespace == "none"

PublishNamespacesAssumption == MaxIds \in Nat \ {0} /\ NoNamespace \notin Namespaces

VARIABLES
  request,             \* id -> the namespace it was sent for
  \* the publisher
  publishNamespaces,   \* namespace -> the id of its entry
  pending,             \* its part of pending_requests
  handle,              \* id -> PublishNamespace
  ok, closed,          \* PublishNamespaceState.ok, .closed is an error
  taken,               \* the id whose error the session task is about to report
  routed,              \* sub -> where the Subscribed is
  \* the subscriber
  publishedNamespaces, \* namespace -> the id of its entry
  owner,               \* id -> PublishedNamespace
  accepted, done,      \* PublishedNamespace.ok, PublishedNamespaceState.done
  \* the session
  toPub, toSub,
  failed               \* why an end closed it, or "no"

pubVars == <<request, publishNamespaces, pending, handle, ok, closed, taken, routed>>
subVars == <<publishedNamespaces, owner, accepted, done>>
vars == <<pubVars, subVars, toPub, toSub, failed>>

Queued(id) == [at |-> "namespace", id |-> id]
At(place) == [at |-> place, id |-> None]
Msg(type, id) == [type |-> type, id |-> id]

Init ==
  /\ request = [i \in Ids |-> NoNamespace]
  /\ publishNamespaces = [n \in Namespaces |-> None]
  /\ pending = {} /\ handle = [i \in Ids |-> "none"] /\ ok = {} /\ closed = {}
  /\ taken = None /\ routed = [s \in Subs |-> At("peer")]
  /\ publishedNamespaces = [n \in Namespaces |-> None]
  /\ owner = [i \in Ids |-> "none"] /\ accepted = {} /\ done = {}
  /\ toPub = <<>> /\ toSub = <<>> /\ failed = "no"

Fresh(id) == request[id] = NoNamespace /\ \A i \in Ids : i < id => request[i] # NoNamespace

\* drop_publish_namespace of either end: the entry with this request id.
RemoveId(map, id) == [n \in Namespaces |-> IF map[n] = id THEN None ELSE map[n]]

HasEntry(map, id) == \E n \in Namespaces : map[n] = id

-----------------------------------------------------------------------------
(* The publisher's application                                             *)

\* Publisher::publish_namespace: the entry, the pending request and the message
\* are made under the lock of the map.
PublishNamespace(id, n) ==
  /\ failed = "no" /\ Fresh(id) /\ publishNamespaces[n] = None
  /\ request' = [request EXCEPT ![id] = n]
  /\ publishNamespaces' = [publishNamespaces EXCEPT ![n] = id]
  /\ pending' = pending \cup {id}
  /\ handle' = [handle EXCEPT ![id] = "held"]
  /\ toSub' = Append(toSub, Msg("PUBLISH_NAMESPACE", id))
  /\ UNCHANGED <<ok, closed, taken, routed, subVars, toPub, failed>>

\* Publisher::publish_namespace, PublishNamespace::subscribed: the next
\* Subscribed of the namespace is served.
TakeSubscribed(id, s) ==
  /\ failed = "no" /\ handle[id] = "held" /\ routed[s] = Queued(id)
  /\ routed' = [routed EXCEPT ![s] = At("served")]
  /\ UNCHANGED <<request, publishNamespaces, pending, handle, ok, closed, taken, subVars,
                 toPub, toSub, failed>>

\* The last half of the state goes: what is queued is closed, hence rejected.
RejectQueued(id) ==
  [s \in Subs |-> IF routed[s] = Queued(id) THEN At("rejected") ELSE routed[s]]

\* PublishNamespace::drop looks at the state: one that was closed says nothing.
DropBegin(id) ==
  /\ failed = "no" /\ handle[id] = "held"
  /\ IF id \in closed
     THEN handle' = [handle EXCEPT ![id] = "gone"] /\ routed' = RejectQueued(id)
     ELSE handle' = [handle EXCEPT ![id] = "dropping"] /\ UNCHANGED routed
  /\ UNCHANGED <<request, publishNamespaces, pending, ok, closed, taken, subVars,
                 toPub, toSub, failed>>

\* ... act_on_message_to_send: the entry goes first,
DropEntry(id) ==
  /\ failed = "no" /\ handle[id] = "dropping"
  /\ handle' = [handle EXCEPT ![id] = "sending"]
  /\ pending' = pending \ {id}
  /\ publishNamespaces' = RemoveId(publishNamespaces, id)
  /\ UNCHANGED <<request, ok, closed, taken, routed, subVars, toPub, toSub, failed>>

\* Mutant: a namespace that was not accepted needs no message.
DropSend_OnlyOk(id) ==
  /\ failed = "no" /\ handle[id] = "sending"
  /\ handle' = [handle EXCEPT ![id] = "gone"]
  /\ routed' = RejectQueued(id)
  /\ toSub' = IF id \in ok THEN Append(toSub, Msg("PUBLISH_NAMESPACE_DONE", id)) ELSE toSub
  /\ UNCHANGED <<request, publishNamespaces, pending, ok, closed, taken, subVars, toPub, failed>>

\* then PUBLISH_NAMESPACE_DONE is queued, and the handle's half of the state goes.
DropSend(id) ==
  /\ failed = "no" /\ handle[id] = "sending"
  /\ handle' = [handle EXCEPT ![id] = "gone"]
  /\ routed' = RejectQueued(id)
  /\ toSub' = Append(toSub, Msg("PUBLISH_NAMESPACE_DONE", id))
  /\ UNCHANGED <<request, publishNamespaces, pending, ok, closed, taken, subVars, toPub, failed>>

-----------------------------------------------------------------------------
(* The publisher's session task                                            *)

\* drop_publish_namespace, before the error is reported.
TakeEntry(id) ==
  /\ pending' = pending \ {id}
  /\ publishNamespaces' = RemoveId(publishNamespaces, id)
  /\ taken' = IF HasEntry(publishNamespaces, id) THEN id ELSE None

\* Session::recv_request_ok, PublishNamespaceRecv::recv_ok
RecvRequestOk(id) ==
  /\ pending' = pending \ {id}
  /\ ok' = IF id \in pending /\ HasEntry(publishNamespaces, id) THEN ok \cup {id} ELSE ok
  /\ UNCHANGED <<publishNamespaces, taken>>

\* Session::recv_request_error
RecvRequestError(id) ==
  /\ IF id \in pending THEN TakeEntry(id) ELSE UNCHANGED <<pending, publishNamespaces, taken>>
  /\ UNCHANGED ok

\* Publisher::recv_publish_namespace_cancel
RecvCancel(id) == TakeEntry(id) /\ UNCHANGED ok

\* The control stream's next message reaches the publisher.
PublisherRecv ==
  /\ failed = "no" /\ taken = None /\ toPub # <<>>
  /\ toPub' = Tail(toPub)
  /\ LET m == Head(toPub) IN
     \/ m.type = "REQUEST_OK" /\ RecvRequestOk(m.id)
     \/ m.type = "REQUEST_ERROR" /\ RecvRequestError(m.id)
     \/ m.type = "PUBLISH_NAMESPACE_CANCEL" /\ RecvCancel(m.id)
  /\ UNCHANGED <<request, handle, closed, routed, subVars, toSub, failed>>

\* PublishNamespaceRecv::recv_error fails once the handle's half is gone.
ReportError ==
  /\ failed = "no" /\ taken # None
  /\ taken' = None
  /\ IF handle[taken] = "gone"
     THEN failed' = "serve" /\ UNCHANGED closed
     ELSE closed' = closed \cup {taken} /\ UNCHANGED failed
  /\ UNCHANGED <<request, publishNamespaces, pending, handle, ok, routed, subVars, toPub, toSub>>

\* Session::run_pending_timeouts, Publisher::recv_request_timeout
Timeout(id) ==
  /\ failed = "no" /\ taken = None /\ id \in pending
  /\ TakeEntry(id)
  /\ UNCHANGED <<request, handle, ok, closed, routed, subVars, toPub, toSub, failed>>

\* Publisher::recv_subscribe: to the namespace's queue, under the lock of the
\* map, or to the application.  A namespace whose handle is gone fails the task.
RecvSubscribe(s, n) ==
  /\ failed = "no" /\ taken = None /\ routed[s] = At("peer")
  /\ LET id == publishNamespaces[n] IN
     IF id = None
     THEN routed' = [routed EXCEPT ![s] = At("application")] /\ UNCHANGED failed
     ELSE IF handle[id] = "gone"
          THEN failed' = "serve" /\ UNCHANGED routed
          ELSE routed' = [routed EXCEPT ![s] = Queued(id)] /\ UNCHANGED failed
  /\ UNCHANGED <<request, publishNamespaces, pending, handle, ok, closed, taken, subVars,
                 toPub, toSub>>

-----------------------------------------------------------------------------
(* The subscriber                                                          *)

\* Subscriber::recv_publish_namespace: a second one for a namespace that has an
\* entry closes the session.
RecvPublishNamespace(id, n) ==
  /\ IF publishedNamespaces[n] # None
     THEN failed' = "duplicate" /\ UNCHANGED <<publishedNamespaces, owner>>
     ELSE /\ publishedNamespaces' = [publishedNamespaces EXCEPT ![n] = id]
          /\ owner' = [owner EXCEPT ![id] = "held"]
          /\ UNCHANGED failed
  /\ UNCHANGED done

\* Subscriber::recv_publish_namespace_done
RecvPublishNamespaceDone(id) ==
  /\ publishedNamespaces' = RemoveId(publishedNamespaces, id)
  /\ done' = IF HasEntry(publishedNamespaces, id) THEN done \cup {id} ELSE done
  /\ UNCHANGED <<owner, failed>>

\* The control stream's next message reaches the subscriber.
SubscriberRecv ==
  /\ failed = "no" /\ toSub # <<>>
  /\ toSub' = Tail(toSub)
  /\ LET m == Head(toSub) IN
     \/ m.type = "PUBLISH_NAMESPACE" /\ RecvPublishNamespace(m.id, request[m.id])
     \/ m.type = "PUBLISH_NAMESPACE_DONE" /\ RecvPublishNamespaceDone(m.id)
  /\ UNCHANGED <<pubVars, accepted, toPub>>

\* PublishedNamespace::ok
Accept(id) ==
  /\ failed = "no" /\ owner[id] = "held" /\ id \notin accepted
  /\ accepted' = accepted \cup {id}
  /\ toPub' = Append(toPub, Msg("REQUEST_OK", id))
  /\ UNCHANGED <<pubVars, publishedNamespaces, owner, done, toSub, failed>>

\* PublishedNamespace::drop: nothing once the publisher is done; CANCEL takes
\* the entry with it (Subscriber::send_message); REQUEST_ERROR does not.
DropOwner(id) ==
  /\ failed = "no" /\ owner[id] = "held"
  /\ owner' = [owner EXCEPT ![id] = "gone"]
  /\ \/ /\ id \in done
        /\ UNCHANGED <<publishedNamespaces, toPub>>
     \/ /\ id \in accepted \ done
        /\ publishedNamespaces' = RemoveId(publishedNamespaces, id)
        /\ toPub' = Append(toPub, Msg("PUBLISH_NAMESPACE_CANCEL", id))
     \/ /\ id \notin accepted \cup done
        /\ toPub' = Append(toPub, Msg("REQUEST_ERROR", id))
        /\ UNCHANGED publishedNamespaces
  /\ UNCHANGED <<pubVars, accepted, done, toSub, failed>>

Next ==
  \/ PublisherRecv \/ ReportError \/ SubscriberRecv
  \/ \E id \in Ids :
       \/ \E n \in Namespaces : PublishNamespace(id, n)
       \/ \E s \in Subs : TakeSubscribed(id, s)
       \/ DropBegin(id) \/ DropEntry(id) \/ DropSend(id) \/ Timeout(id)
       \/ Accept(id) \/ DropOwner(id)
  \/ \E s \in Subs, n \in Namespaces : RecvSubscribe(s, n)

Spec == Init /\ [][Next]_vars

\* The session tasks run, deadlines come, a drop runs to its end, and
\* publish_namespace() serves its queue until the namespace is closed, when it
\* returns and drops the handle.
Fairness ==
  /\ WF_vars(PublisherRecv) /\ WF_vars(ReportError) /\ WF_vars(SubscriberRecv)
  /\ \A id \in Ids :
       /\ WF_vars(Timeout(id)) /\ WF_vars(DropEntry(id)) /\ WF_vars(DropSend(id))
       /\ \A s \in Subs : WF_vars(TakeSubscribed(id, s))

FairSpec == Spec /\ Fairness

-----------------------------------------------------------------------------
TypeOK ==
  /\ request \in [Ids -> Namespaces \cup {NoNamespace}]
  /\ publishNamespaces \in [Namespaces -> Ids \cup {None}]
  /\ publishedNamespaces \in [Namespaces -> Ids \cup {None}]
  /\ \A set \in {pending, ok, closed, accepted, done} : set \subseteq Ids
  /\ handle \in [Ids -> {"none", "held", "dropping", "sending", "gone"}]
  /\ owner \in [Ids -> {"none", "held", "gone"}]
  /\ taken \in Ids \cup {None}
  /\ failed \in {"no", "serve", "duplicate"}

(* publisher.rs:824-832: a SUBSCRIBE is routed to the entry of its          *)
(* namespace without asking whether anybody is still there, and an entry    *)
(* without a handle would close the session.  It never happens: an entry    *)
(* leaves the map before its handle goes, and before it is closed.          *)
EntryHasHandle ==
  \A n \in Namespaces : publishNamespaces[n] # None =>
    LET id == publishNamespaces[n] IN
      /\ handle[id] \in {"held", "dropping"}
      /\ id \notin closed
      /\ request[id] = n

(* publish_namespace.rs:149-166, mod.rs:1312-1347: ok() returns, be it with *)
(* the deadline, while the session lasts.                                   *)
Waiting(id) == failed = "no" /\ handle[id] = "held" /\ id \notin ok \cup closed
NamespaceAnswered == \A id \in Ids : Waiting(id) ~> ~Waiting(id)

(* publish_namespace.rs:38-48, publisher.rs:278-296: a SUBSCRIBE routed to  *)
(* a namespace is served or rejected, also when the namespace ends while it *)
(* is queued.                                                               *)
RoutedIsHandled ==
  \A s \in Subs : (routed[s].at = "namespace") ~> (routed[s].at # "namespace" \/ failed # "no")

(* publish_namespace.rs:168-180: a namespace the publisher itself ended is  *)
(* free again at the subscriber.                                            *)
DoneFreesNamespace ==
  \A id \in Ids : (handle[id] = "gone" /\ id \notin closed)
                    ~> (failed # "no" \/ ~HasEntry(publishedNamespaces, id))

-----------------------------------------------------------------------------
(* What a comment of the code says, and the code does not do               *)

(* subscriber.rs:504 "Remove our entry on terminal state." and 598          *)
(* "Duplicate PUBLISH_NAMESPACE for the same namespace within a session is  *)
(* invalid.": a publisher that asks again after a rejection is no duplicate.*)
NoHonestDuplicate == failed # "duplicate"
=============================================================================
