------------------------------ MODULE MCSession ------------------------------
(* Request ids, subscriptions and announced namespaces of one session.  They *)
(* are modelled with no common variable: a behaviour runs one of Parts, the  *)
(* others rest in an initial state.                                          *)
EXTENDS RequestIds, TLC

CONSTANTS
  Parts,                 \* the components that run
  Names,                 \* of tracks, or of namespaces
  MaxIds, KeepReaders,   \* Subscriptions
  Subs                   \* PublishNamespaces

VARIABLES
  part,
  request, subscriberNames, subscribes, publishesReceived, aliases, subPending, sHandle, subOk,
  subClosed, readers, subscribedNames, publishedNames, subscribeds, publisheds, pubPending,
  server, pubOk, pubClosed, sUnsubscribed, toPub, toSub, sFailed,
  nRequest, publishNamespaces, nPending, nHandle, ok, closed, nTaken, nRouted,
  publishedNamespaces, owner, nAccepted, nDone, nToPub, nToSub, nFailed

Tracks == INSTANCE Subscriptions WITH
  handle <- sHandle, unsubscribed <- sUnsubscribed, failed <- sFailed
Announced == INSTANCE PublishNamespaces WITH
  Namespaces <- Names, request <- nRequest, pending <- nPending, handle <- nHandle, taken <- nTaken,
  routed <- nRouted, accepted <- nAccepted, done <- nDone,
  toPub <- nToPub, toSub <- nToSub, failed <- nFailed

ASSUME SessionAssumption ==
  /\ Parts \subseteq {"ids", "tracks", "namespaces"}
  /\ Tracks!SubscriptionsAssumption /\ Announced!PublishNamespacesAssumption

trackVars == <<request, subscriberNames, subscribes, publishesReceived, aliases, subPending,
               sHandle, subOk, subClosed, readers, subscribedNames, publishedNames, subscribeds,
               publisheds, pubPending, server, pubOk, pubClosed, sUnsubscribed, toPub, toSub,
               sFailed>>
announcedVars == <<nRequest, publishNamespaces, nPending, nHandle, ok, closed, nTaken, nRouted,
                   publishedNamespaces, owner, nAccepted, nDone, nToPub, nToSub, nFailed>>
SessionVars == <<part, vars, trackVars, announcedVars>>

\* Request ids rest in one of their initial states.
SessionInit ==
  /\ part \in Parts
  /\ Init /\ Tracks!Init /\ Announced!Init
  /\ part = "ids" \/ (first = 0 /\ ~rogue /\ \A m \in SetupMax : ourMax <= m)

\* Part p runs, the others rest.
Runs(p) ==
  /\ part = p /\ UNCHANGED part
  /\ IF p = "ids" THEN TRUE ELSE UNCHANGED vars
  /\ IF p = "tracks" THEN TRUE ELSE UNCHANGED trackVars
  /\ IF p = "namespaces" THEN TRUE ELSE UNCHANGED announcedVars

SessionNext ==
  \/ Runs("ids") /\ Next
  \/ Runs("tracks") /\ Tracks!Next
  \/ Runs("namespaces") /\ Announced!Next

SessionSpec == SessionInit /\ [][SessionNext]_SessionVars

\* Of a component that rests no fair step is enabled.
SessionFairSpec == SessionSpec /\ Tracks!Fairness /\ Announced!Fairness

\* Names differ in nothing but their name.
NameSymmetry == Permutations(Names)

-----------------------------------------------------------------------------
(* The types of the component that runs (session/).                          *)
SessionTypeOK ==
  CASE part = "ids"        -> TypeOK
    [] part = "tracks"     -> Tracks!TypeOK
    [] part = "namespaces" -> Announced!TypeOK

(* Subscriptions, PublishNamespaces: each end has one subscription for a     *)
(* track, its maps agree on which, and an announced namespace has a handle,  *)
(* so that two ends that run this code never close the session on each other *)
(* for a protocol error (session/subscriber.rs, session/publisher.rs,        *)
(* session/mod.rs).  Every component keeps its types.                        *)
MapsAgree ==
  /\ SessionTypeOK
  /\ Tracks!OnePerTrack /\ Tracks!SubscriberMapsAgree /\ Tracks!NoProtocolError
  /\ Announced!EntryHasHandle

(* Subscriptions, PublishNamespaces: whoever waits for the answer to         *)
(* SUBSCRIBE or PUBLISH_NAMESPACE gets one, be it the deadline               *)
(* (session/mod.rs).                                                         *)
RequestsAnswered == Tracks!SubscribeAnswered /\ Announced!NamespaceAnswered

(* Subscriptions, PublishNamespaces: the publisher does not hold on to what  *)
(* the subscriber has left, a SUBSCRIBE that was routed to a namespace is    *)
(* taken up by its handle or refused (session/publisher.rs), and a namespace *)
(* that was given up can be announced again (session/publish_namespace.rs).  *)
NothingHeldOnTo ==
  Tracks!PublisherLetsGo /\ Announced!RoutedIsHandled /\ Announced!DoneFreesNamespace
=============================================================================
