--------------------------- MODULE Subscriptions ---------------------------
(***************************************************************************)
(* The subscriptions of one session, from both ends: the subscriber of one *)
(* endpoint (session/subscriber.rs, subscribe.rs, publish_received.rs) and *)
(* the publisher of its peer (session/publisher.rs, subscribed.rs,         *)
(* published.rs), joined by the control stream.  A subscription is opened  *)
(* by SUBSCRIBE or by PUBLISH; both may cross on the wire.  Each end is a  *)
(* session task, which handles messages and timeouts one at a time         *)
(* (session/mod.rs), and the tasks of the application, which hold one      *)
(* handle per request and may drop it at any moment.                       *)
(*                                                                         *)
(* Ids of the two ends differ in parity; here they come from one counter.  *)
(***************************************************************************)
EXTENDS Naturals, Sequences, FiniteSets

CONSTANTS
  Names,        \* full track names
  MaxIds,       \* how many requests are sent in all
  KeepReaders   \* the application does not let go of a mirror's readers

Ids == 1 .. MaxIds
None == 0

SubscriptionsAssumption ==
  MaxIds \in Nat \ {0} /\ KeepReaders \in BOOLEAN

VARIABLES
  request,      \* id -> the kind and name it was sent with
  \* the subscriber
  subscriberNames, subscribes, publishesReceived, aliases,
  subPending,   \* its part of pending_requests
  handle,       \* id -> Subscribe or PublishReceived handle
  subOk,        \* SubscribeState.ok, PublishReceived.ok
  subClosed,    \* the state's closed holds an error
  readers,      \* mirrors that still have a reader
  \* the publisher
  subscribedNames, publishedNames, subscribeds, publisheds,
  pubPending,   \* its part of pending_requests
  server,       \* id -> Subscribed or Published handle
  pubOk,        \* Subscribed.ok, PublishedState.ok
  pubClosed,    \* the state's closed holds an error
  unsubscribed, \* the state's unsubscribed
  \* the control stream
  toPub, toSub,
  failed        \* why an end closed the session, or "no"

subVars == <<subscriberNames, subscribes, publishesReceived, aliases, subPending,
             handle, subOk, subClosed, readers>>
pubVars == <<subscribedNames, publishedNames, subscribeds, publisheds, pubPending,
             server, pubOk, pubClosed, unsubscribed>>
vars == <<request, subVars, pubVars, toPub, toSub, failed>>

Kinds == {"subscribe", "publish"}
Msg(type, id) == [type |-> type, id |-> id]
NoRequest == [kind |-> "none", name |-> "none"]

Init ==
  /\ request = [i \in Ids |-> NoRequest]
  /\ subscriberNames = [n \in Names |-> None]
  /\ subscribes = {} /\ publishesReceived = {} /\ aliases = {} /\ subPending = {}
  /\ handle = [i \in Ids |-> "none"] /\ subOk = {} /\ subClosed = {} /\ readers = {}
  /\ subscribedNames = [n \in Names |-> None]
  /\ publishedNames = [n \in Names |-> None]
  /\ subscribeds = {} /\ publisheds = {} /\ pubPending = {}
  /\ server = [i \in Ids |-> "none"] /\ pubOk = {} /\ pubClosed = {} /\ unsubscribed = {}
  /\ toPub = <<>> /\ toSub = <<>> /\ failed = "no"

\* RequestId::allocate: ids are not used twice.
Fresh(id) == request[id] = NoRequest /\ \A i \in Ids : i < id => request[i] # NoRequest

\* Mutant: each kind of request counts its own aliases.
AliasOf_PerKind(id) == Cardinality({i \in 1 .. id : request[i].kind = request[id].kind})

\* Publisher::publish, Subscribed::serve_inner: the track alias is the request id.
AliasOf(id) == id

\* TrackAliasRegistry::contains_alias
AliasBound(id) == AliasOf(id) \in {AliasOf(i) : i \in aliases}

\* NameRegistry, SubscriberNameRegistry: forget the name a request id holds.
RemoveId(names, id) == [n \in Names |-> IF names[n] = id THEN None ELSE names[n]]

SendPub(msgs) == toPub' = toPub \o msgs
SendSub(msgs) == toSub' = toSub \o msgs

-----------------------------------------------------------------------------
(* The subscriber's application                                            *)

\* Subscriber::subscribe_open
SubscribeOpen(id, n) ==
  /\ failed = "no" /\ Fresh(id)
  /\ subscriberNames[n] = None
  /\ request' = [request EXCEPT ![id] = [kind |-> "subscribe", name |-> n]]
  /\ subscriberNames' = [subscriberNames EXCEPT ![n] = id]
  /\ subPending' = subPending \cup {id}
  /\ subscribes' = subscribes \cup {id}
  /\ handle' = [handle EXCEPT ![id] = "held"]
  /\ readers' = readers \cup {id}
  /\ SendPub(<<Msg("SUBSCRIBE", id)>>)
  /\ UNCHANGED <<publishesReceived, aliases, subOk, subClosed, pubVars, toSub, failed>>

\* Mutant: UNSUBSCRIBE only for a subscription that was accepted.
DropSubscribe_OnlyOk(id) ==
  /\ failed = "no" /\ request[id].kind = "subscribe" /\ handle[id] = "held"
  /\ handle' = [handle EXCEPT ![id] = "dropping"]
  /\ SendPub(IF id \in subOk THEN <<Msg("UNSUBSCRIBE", id)>> ELSE <<>>)
  /\ UNCHANGED <<request, subscriberNames, subscribes, publishesReceived, aliases, subPending,
                 subOk, subClosed, readers, pubVars, toSub, failed>>

\* Subscribe::drop, first the message ...
DropSubscribe(id) ==
  /\ failed = "no" /\ request[id].kind = "subscribe" /\ handle[id] = "held"
  /\ handle' = [handle EXCEPT ![id] = "dropping"]
  /\ SendPub(<<Msg("UNSUBSCRIBE", id)>>)
  /\ UNCHANGED <<request, subscriberNames, subscribes, publishesReceived, aliases, subPending,
                 subOk, subClosed, readers, pubVars, toSub, failed>>

\* Subscriber::remove_subscribe
RemoveSubscribe(id) ==
  /\ subPending' = subPending \ {id}
  /\ subscribes' = subscribes \ {id}
  /\ aliases' = aliases \ {id}
  /\ subscriberNames' = RemoveId(subscriberNames, id)

\* ... then the entries.
FinishSubscribe(id) ==
  /\ failed = "no" /\ request[id].kind = "subscribe" /\ handle[id] = "dropping"
  /\ handle' = [handle EXCEPT ![id] = "gone"]
  /\ RemoveSubscribe(id)
  /\ UNCHANGED <<request, publishesReceived, subOk, subClosed, readers, pubVars,
                 toPub, toSub, failed>>

\* The application is no longer interested in what arrives.
DropReaders(id) ==
  /\ failed = "no" /\ ~KeepReaders /\ id \in readers
  /\ readers' = readers \ {id}
  /\ UNCHANGED <<request, subscriberNames, subscribes, publishesReceived, aliases, subPending,
                 handle, subOk, subClosed, pubVars, toPub, toSub, failed>>

\* PublishReceived::accept
AcceptPublish(id) ==
  /\ failed = "no" /\ request[id].kind = "publish" /\ handle[id] = "held"
  /\ id \notin subOk
  /\ subOk' = subOk \cup {id}
  /\ SendPub(<<Msg("PUBLISH_OK", id)>>)
  /\ UNCHANGED <<request, subscriberNames, subscribes, publishesReceived, aliases, subPending,
                 handle, subClosed, readers, pubVars, toSub, failed>>

\* PublishReceived::drop: an accepted PUBLISH is left to PUBLISH_DONE; any
\* other is rejected, first with the message ...
DropPublishReceived(id) ==
  /\ failed = "no" /\ request[id].kind = "publish" /\ handle[id] = "held"
  /\ \/ /\ id \in subOk
        /\ handle' = [handle EXCEPT ![id] = "gone"]
        /\ UNCHANGED toPub
     \/ /\ id \notin subOk
        /\ handle' = [handle EXCEPT ![id] = "dropping"]
        /\ SendPub(<<Msg("REQUEST_ERROR", id)>>)
  /\ UNCHANGED <<request, subscriberNames, subscribes, publishesReceived, aliases, subPending,
                 subOk, subClosed, readers, pubVars, toSub, failed>>

\* Subscriber::remove_publish_received
RemovePublishReceived(id) ==
  /\ publishesReceived' = publishesReceived \ {id}
  /\ aliases' = aliases \ {id}
  /\ subscriberNames' = RemoveId(subscriberNames, id)

\* ... then the entries.
FinishPublishReceived(id) ==
  /\ failed = "no" /\ request[id].kind = "publish" /\ handle[id] = "dropping"
  /\ handle' = [handle EXCEPT ![id] = "gone"]
  /\ RemovePublishReceived(id)
  /\ UNCHANGED <<request, subscribes, subPending, subOk, subClosed, readers, pubVars,
                 toPub, toSub, failed>>

-----------------------------------------------------------------------------
(* The subscriber's session task                                           *)

\* SubscribeRecv::error: close the mirror, then report to the handle.  A
\* mirror nobody reads cannot be closed, and the error is the task's.
Error(id) ==
  \/ /\ id \in readers
     /\ subClosed' = subClosed \cup {id}
     /\ UNCHANGED failed
  \/ /\ id \notin readers
     /\ failed' = "serve"
     /\ UNCHANGED subClosed

\* The end of a request the subscriber does not know.
Ignore ==
  UNCHANGED <<subscriberNames, subscribes, publishesReceived, aliases, subPending, subOk,
              subClosed, failed>>

\* remove_subscribe, then SubscribeRecv::error if it was there.
EndSubscribe(id) ==
  /\ RemoveSubscribe(id)
  /\ IF id \in subscribes THEN Error(id) ELSE UNCHANGED <<subClosed, failed>>
  /\ UNCHANGED <<publishesReceived, subOk>>

\* Session::recv_subscribe_ok, Subscriber::recv_subscribe_ok: the alias is
\* bound under the lock of the entry.
RecvSubscribeOk(id) ==
  \/ /\ id \notin subPending
     /\ Ignore
  \/ /\ id \in subPending
     /\ subPending' = subPending \ {id}
     /\ IF id \in subscribes
        THEN IF AliasBound(id)
             THEN failed' = "protocol" /\ UNCHANGED <<aliases, subOk>>
             ELSE aliases' = aliases \cup {id} /\ subOk' = subOk \cup {id} /\ UNCHANGED failed
        ELSE UNCHANGED <<aliases, subOk, failed>>
     /\ UNCHANGED <<subscriberNames, subscribes, publishesReceived, subClosed>>

\* Mutant: the pending request is completed and its owner is not told.
RecvSubscribeError_Silent(id) ==
  /\ subPending' = subPending \ {id}
  /\ UNCHANGED <<subscriberNames, subscribes, publishesReceived, aliases, subOk, subClosed, failed>>

\* Session::recv_request_error, Subscriber::recv_request_error
RecvSubscribeError(id) ==
  \/ /\ id \notin subPending
     /\ Ignore
  \/ /\ id \in subPending
     /\ EndSubscribe(id)

\* Subscriber::recv_publish: one subscription per name, then one per alias.
RecvPublish(id, n) ==
  \/ /\ subscriberNames[n] # None
     /\ SendPub(<<Msg("REQUEST_ERROR", id)>>)
     /\ UNCHANGED <<subVars, failed>>
  \/ /\ subscriberNames[n] = None
     /\ IF AliasBound(id)
        THEN /\ failed' = "protocol"
             /\ UNCHANGED <<subscriberNames, aliases, publishesReceived, handle, readers>>
        ELSE /\ subscriberNames' = [subscriberNames EXCEPT ![n] = id]
             /\ aliases' = aliases \cup {id}
             /\ publishesReceived' = publishesReceived \cup {id}
             /\ handle' = [handle EXCEPT ![id] = "held"]
             /\ readers' = readers \cup {id}
             /\ UNCHANGED failed
     /\ UNCHANGED <<subscribes, subPending, subOk, subClosed, toPub>>

\* Subscriber::recv_publish_done: a SUBSCRIBE, else a PUBLISH.
RecvPublishDone(id) ==
  \/ /\ id \in subscribes
     /\ EndSubscribe(id)
  \/ /\ id \notin subscribes /\ id \in publishesReceived
     /\ RemovePublishReceived(id)
     /\ subClosed' = subClosed \cup {id}
     /\ UNCHANGED <<subscribes, subPending, subOk, failed>>
  \/ /\ id \notin subscribes \cup publishesReceived
     /\ Ignore

\* The control stream's next message reaches the subscriber.
SubscriberRecv ==
  /\ failed = "no" /\ toSub # <<>>
  /\ toSub' = Tail(toSub)
  /\ LET m == Head(toSub) IN
     \/ /\ m.type = "PUBLISH"
        /\ RecvPublish(m.id, request[m.id].name)
     \/ /\ \/ m.type = "SUBSCRIBE_OK" /\ RecvSubscribeOk(m.id)
           \/ m.type = "REQUEST_ERROR" /\ RecvSubscribeError(m.id)
           \/ m.type = "PUBLISH_DONE" /\ RecvPublishDone(m.id)
        /\ UNCHANGED <<handle, readers, toPub>>
  /\ UNCHANGED <<request, pubVars>>

\* Session::run_pending_timeouts, Subscriber::recv_request_timeout
SubscribeTimeout(id) ==
  /\ failed = "no" /\ id \in subPending
  /\ EndSubscribe(id)
  /\ UNCHANGED <<request, handle, readers, pubVars, toPub, toSub>>

\* Subscriber::recv_stream: an object stream found its writer closed.  What
\* goes wrong here stays in the task of the stream.
StreamFails(id) ==
  /\ failed = "no" /\ id \in subscribes /\ id \in aliases
  /\ RemoveSubscribe(id)
  /\ subClosed' = IF id \in readers THEN subClosed \cup {id} ELSE subClosed
  /\ UNCHANGED <<request, publishesReceived, handle, subOk, readers, pubVars, toPub, toSub, failed>>

-----------------------------------------------------------------------------
(* The publisher's application                                             *)

\* Mutant: an outbound PUBLISH is only checked against other PUBLISHes.
NameFree_PublishOnly(n) == publishedNames[n] = None

\* One publisher-role subscription per track, however it was opened.
NameFree(n) == subscribedNames[n] = None /\ publishedNames[n] = None

\* Publisher::publish
Publish(id, n) ==
  /\ failed = "no" /\ Fresh(id)
  /\ NameFree(n)
  /\ request' = [request EXCEPT ![id] = [kind |-> "publish", name |-> n]]
  /\ publishedNames' = [publishedNames EXCEPT ![n] = id]
  /\ publisheds' = publisheds \cup {id}
  /\ pubPending' = pubPending \cup {id}
  /\ server' = [server EXCEPT ![id] = "held"]
  /\ SendSub(<<Msg("PUBLISH", id)>>)
  /\ UNCHANGED <<subVars, subscribedNames, subscribeds, pubOk, pubClosed, unsubscribed,
                 toPub, failed>>

\* Publisher::remove_published
RemovePublished(id) ==
  /\ pubPending' = pubPending \ {id}
  /\ publisheds' = publisheds \ {id}
  /\ publishedNames' = IF id \in publisheds THEN RemoveId(publishedNames, id) ELSE publishedNames

\* Published::close_state, also from serve() when it fails.
ClosePublished(id) ==
  /\ failed = "no" /\ request[id].kind = "publish" /\ server[id] = "held"
  /\ id \in publisheds \ pubClosed
  /\ pubClosed' = pubClosed \cup {id}
  /\ UNCHANGED <<request, subVars, subscribedNames, publishedNames, subscribeds, publisheds,
                 pubPending, server, pubOk, unsubscribed, toPub, toSub, failed>>

\* Published::drop: PUBLISH_DONE, unless the subscriber ended it or it never
\* came to be.
DropPublished(id) ==
  /\ failed = "no" /\ request[id].kind = "publish" /\ server[id] = "held"
  /\ server' = [server EXCEPT ![id] = "gone"]
  /\ \/ /\ id \in unsubscribed \/ (id \notin pubOk /\ id \in pubClosed)
        /\ UNCHANGED <<publishedNames, publisheds, pubPending, toSub>>
     \/ /\ ~(id \in unsubscribed \/ (id \notin pubOk /\ id \in pubClosed))
        /\ RemovePublished(id)
        /\ SendSub(<<Msg("PUBLISH_DONE", id)>>)
  /\ UNCHANGED <<request, subVars, subscribedNames, subscribeds, pubOk, pubClosed, unsubscribed,
                 toPub, failed>>

\* Subscribed::serve_inner queues SUBSCRIBE_OK and waits until it is popped;
\* set_largest_location fails once the subscriber has unsubscribed.
ServeAck(id) ==
  /\ failed = "no" /\ request[id].kind = "subscribe" /\ server[id] = "held"
  /\ id \in subscribeds
  /\ server' = [server EXCEPT ![id] = "acking"]
  /\ SendSub(<<Msg("SUBSCRIBE_OK", id)>>)
  /\ UNCHANGED <<request, subVars, subscribedNames, publishedNames, subscribeds, publisheds,
                 pubPending, pubOk, pubClosed, unsubscribed, toPub, failed>>

\* Subscribed::serve_inner: the wait is over.
ServeAcked(id) ==
  /\ failed = "no" /\ server[id] = "acking"
  /\ server' = [server EXCEPT ![id] = "serving"]
  /\ pubOk' = pubOk \cup {id}
  /\ UNCHANGED <<request, subVars, subscribedNames, publishedNames, subscribeds, publisheds,
                 pubPending, pubClosed, unsubscribed, toPub, toSub, failed>>

\* Subscribed::close, also from serve() when it fails: the handle goes next.
CloseSubscribed(id) ==
  /\ failed = "no" /\ request[id].kind = "subscribe" /\ server[id] \in {"held", "serving"}
  /\ server' = [server EXCEPT ![id] = "closing"]
  /\ pubClosed' = IF id \in subscribeds THEN pubClosed \cup {id} ELSE pubClosed
  /\ UNCHANGED <<request, subVars, subscribedNames, publishedNames, subscribeds, publisheds,
                 pubPending, pubOk, unsubscribed, toPub, toSub, failed>>

\* Publisher::remove_subscribe
RemoveSubscribed(id) ==
  /\ subscribeds' = subscribeds \ {id}
  /\ subscribedNames' = RemoveId(subscribedNames, id)

\* Subscribed::drop, which also ends a serve() that is cancelled: nothing after
\* UNSUBSCRIBE; PUBLISH_DONE, with the entries gone before it is queued; or
\* REQUEST_ERROR, with the entries dropped after it.
DropSubscribed(id) ==
  /\ failed = "no" /\ request[id].kind = "subscribe"
  /\ server[id] \in {"held", "acking", "serving", "closing"}
  /\ \/ /\ id \in unsubscribed
        /\ server' = [server EXCEPT ![id] = "gone"]
        /\ UNCHANGED <<subscribeds, subscribedNames, toSub>>
     \/ /\ id \notin unsubscribed /\ id \in pubOk
        /\ server' = [server EXCEPT ![id] = "gone"]
        /\ RemoveSubscribed(id)
        /\ SendSub(<<Msg("PUBLISH_DONE", id)>>)
     \/ /\ id \notin unsubscribed /\ id \notin pubOk
        /\ server' = [server EXCEPT ![id] = "erring"]
        /\ SendSub(<<Msg("REQUEST_ERROR", id)>>)
        /\ UNCHANGED <<subscribeds, subscribedNames>>
  /\ UNCHANGED <<request, subVars, publishedNames, publisheds, pubPending, pubOk, pubClosed,
                 unsubscribed, toPub, failed>>

\* Subscribed::drop: drop_subscribe after REQUEST_ERROR.
FinishSubscribed(id) ==
  /\ failed = "no" /\ server[id] = "erring"
  /\ server' = [server EXCEPT ![id] = "gone"]
  /\ RemoveSubscribed(id)
  /\ UNCHANGED <<request, subVars, publishedNames, publisheds, pubPending, pubOk, pubClosed,
                 unsubscribed, toPub, toSub, failed>>

-----------------------------------------------------------------------------
(* The publisher's session task                                            *)

\* Publisher::recv_subscribe
RecvSubscribe(id, n) ==
  \/ /\ ~NameFree(n)
     /\ SendSub(<<Msg("REQUEST_ERROR", id)>>)
     /\ UNCHANGED <<subscribedNames, subscribeds, server>>
  \/ /\ NameFree(n)
     /\ subscribedNames' = [subscribedNames EXCEPT ![n] = id]
     /\ subscribeds' = subscribeds \cup {id}
     /\ server' = [server EXCEPT ![id] = "held"]
     /\ UNCHANGED toSub

\* Publisher::recv_unsubscribe, ObjectForwarderRecv::recv_unsubscribe
RecvUnsubscribe(id) ==
  \/ /\ id \in subscribeds
     /\ RemoveSubscribed(id)
     /\ IF id \in pubClosed
        THEN failed' = "serve" /\ UNCHANGED <<unsubscribed, pubClosed>>
        ELSE /\ unsubscribed' = unsubscribed \cup {id}
             /\ pubClosed' = pubClosed \cup {id}
             /\ UNCHANGED failed
  \/ /\ id \notin subscribeds
     /\ UNCHANGED <<subscribeds, subscribedNames, unsubscribed, pubClosed, failed>>

\* Session::recv_publish_ok, PublishedRecv::recv_ok
RecvPublishOk(id) ==
  \/ /\ id \notin pubPending
     /\ UNCHANGED <<pubPending, pubOk>>
  \/ /\ id \in pubPending
     /\ pubPending' = pubPending \ {id}
     /\ pubOk' = IF id \in publisheds THEN pubOk \cup {id} ELSE pubOk

\* Publisher::recv_request_error, recv_request_timeout: the entry, then the
\* state of the handle.
EndPublish(id) ==
  /\ RemovePublished(id)
  /\ pubClosed' = IF id \in publisheds THEN pubClosed \cup {id} ELSE pubClosed

\* Session::recv_request_error for a PUBLISH
RecvPublishError(id) ==
  \/ /\ id \notin pubPending
     /\ UNCHANGED <<pubPending, publisheds, publishedNames, pubClosed>>
  \/ /\ id \in pubPending
     /\ EndPublish(id)

\* The control stream's next message reaches the publisher.
PublisherRecv ==
  /\ failed = "no" /\ toPub # <<>>
  /\ toPub' = Tail(toPub)
  /\ LET m == Head(toPub) IN
     \/ /\ m.type = "SUBSCRIBE" /\ RecvSubscribe(m.id, request[m.id].name)
        /\ UNCHANGED <<publishedNames, publisheds, pubPending, pubOk, pubClosed, unsubscribed, failed>>
     \/ /\ m.type = "UNSUBSCRIBE" /\ RecvUnsubscribe(m.id)
        /\ UNCHANGED <<publishedNames, publisheds, pubPending, server, pubOk, toSub>>
     \/ /\ m.type = "PUBLISH_OK" /\ RecvPublishOk(m.id)
        /\ UNCHANGED <<subscribedNames, publishedNames, subscribeds, publisheds, server, pubClosed,
                       unsubscribed, toSub, failed>>
     \/ /\ m.type = "REQUEST_ERROR" /\ RecvPublishError(m.id)
        /\ UNCHANGED <<subscribedNames, subscribeds, server, pubOk, unsubscribed, toSub, failed>>
  /\ UNCHANGED <<request, subVars>>

\* Session::run_pending_timeouts, Publisher::recv_request_timeout
PublishTimeout(id) ==
  /\ failed = "no" /\ id \in pubPending
  /\ EndPublish(id)
  /\ UNCHANGED <<request, subVars, subscribedNames, subscribeds, server, pubOk, unsubscribed,
                 toPub, toSub, failed>>

Next ==
  \/ SubscriberRecv \/ PublisherRecv
  \/ \E id \in Ids :
       \/ \E n \in Names : SubscribeOpen(id, n) \/ Publish(id, n)
       \/ DropSubscribe(id) \/ FinishSubscribe(id) \/ DropReaders(id)
       \/ AcceptPublish(id) \/ DropPublishReceived(id) \/ FinishPublishReceived(id)
       \/ SubscribeTimeout(id) \/ StreamFails(id)
       \/ ClosePublished(id) \/ DropPublished(id)
       \/ ServeAck(id) \/ ServeAcked(id) \/ CloseSubscribed(id) \/ DropSubscribed(id)
       \/ FinishSubscribed(id) \/ PublishTimeout(id)

Spec == Init /\ [][Next]_vars

\* The session tasks keep running, deadlines come, and a drop runs to its end.
Fairness ==
  /\ WF_vars(SubscriberRecv) /\ WF_vars(PublisherRecv)
  /\ \A id \in Ids : /\ WF_vars(SubscribeTimeout(id)) /\ WF_vars(PublishTimeout(id))
                     /\ WF_vars(FinishSubscribe(id)) /\ WF_vars(FinishPublishReceived(id))
                     /\ WF_vars(FinishSubscribed(id)) /\ WF_vars(ServeAcked(id))

FairSpec == Spec /\ Fairness

-----------------------------------------------------------------------------
TypeOK ==
  /\ request \in [Ids -> [kind : Kinds, name : Names] \cup {NoRequest}]
  /\ \A names \in {subscriberNames, subscribedNames, publishedNames} :
       names \in [Names -> Ids \cup {None}]
  /\ \A set \in {subscribes, publishesReceived, aliases, subPending, subOk, subClosed, readers,
                  subscribeds, publisheds, pubPending, pubOk, pubClosed, unsubscribed} :
       set \subseteq Ids
  /\ handle \in [Ids -> {"none", "held", "dropping", "gone"}]
  /\ server \in [Ids -> {"none", "held", "acking", "serving", "closing", "erring", "gone"}]
  /\ failed \in {"no", "serve", "protocol"}

(* The maps of the subscriber agree, whatever order drops, answers,         *)
(* timeouts and failing streams come in: a name is held exactly by the      *)
(* request that has an entry for it, and an alias only by such a request.   *)
SubscriberMapsAgree ==
  /\ \A n \in Names, id \in Ids :
       subscriberNames[n] = id <=> id \in subscribes \cup publishesReceived /\ request[id].name = n
  /\ aliases \subseteq subscribes \cup publishesReceived
  /\ subPending \subseteq subscribes

(* publisher.rs:356-373, 791-819 (draft-16, section 5.1): the publisher has *)
(* at most one subscription per track, opened by either end, and its names  *)
(* are those of the requests it has entries for.                            *)
OnePerTrack ==
  /\ \A i, j \in subscribeds \cup publisheds : request[i].name = request[j].name => i = j
  /\ \A n \in Names, id \in Ids :
       /\ subscribedNames[n] = id <=> id \in subscribeds /\ request[id].name = n
       /\ publishedNames[n] = id <=> id \in publisheds /\ request[id].name = n

(* Two honest ends never break the protocol on each other, however their    *)
(* requests cross: no alias is bound twice and no answer names a request of *)
(* another kind (subscriber.rs:678-692, 788-806; pending_requests.rs:105).   *)
NoProtocolError == failed # "protocol"

(* subscriber.rs:460-462, mod.rs:1312-1347: whoever waits for the answer to *)
(* a SUBSCRIBE gets one, be it the deadline.                                *)
Waiting(id) ==
  /\ failed = "no" /\ request[id].kind = "subscribe" /\ handle[id] = "held"
  /\ id \in subscribes /\ id \notin subOk
SubscribeAnswered == \A id \in Ids : Waiting(id) ~> ~Waiting(id)

(* Nothing is left behind: once the subscriber has let go of a SUBSCRIBE,   *)
(* the publisher forgets it too and its track can be subscribed to again    *)
(* (subscribe.rs:274-280, publisher.rs:916-927).                            *)
PublisherLetsGo ==
  \A id \in Ids : (request[id].kind = "subscribe" /\ handle[id] = "gone")
                    ~> (id \notin subscribeds \/ failed # "no")

-----------------------------------------------------------------------------
(* What comments of the code say, and the code does not do                 *)

Quiet(id) == \A m \in {toPub[i] : i \in DOMAIN toPub} \cup {toSub[i] : i \in DOMAIN toSub} : m.id # id

(* publish_received.rs:207-208 "Already accepted; nothing to send --        *)
(* PUBLISH_DONE arrives from the publisher to terminate.": a PUBLISH the    *)
(* subscriber accepted has an owner at the publisher, or its end is on its  *)
(* way.                                                                     *)
AcceptedIsTerminated ==
  \A id \in publishesReceived :
    (failed = "no" /\ id \in subOk /\ Quiet(id)) => server[id] # "gone"

(* subscribed.rs:122-123 "Tracks if SubscribeOk has been sent yet or not.   *)
(* Used to send PUBLISH_DONE vs REQUEST_ERROR on drop.": a subscription the *)
(* subscriber was told is open ends for it when the publisher ends it.      *)
EndIsSeen ==
  \A id \in subscribes :
    (failed = "no" /\ handle[id] = "held" /\ id \in subOk /\ Quiet(id)) => server[id] # "gone"

(* subscribe.rs:304-305 "must not route into the session-level Serve-error  *)
(* swallow": an error of one subscription does not end the session.         *)
ServeErrorsContained == failed # "serve"
=============================================================================
