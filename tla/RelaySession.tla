---------------------------- MODULE RelaySession ----------------------------
(* One draft-16 connection of a relay: the task of the accept loop           *)
(* (relay.rs run), the session it runs (session.rs), and what the consumer   *)
(* (consumer.rs) and the producer (producer.rs) do for each request of the   *)
(* peer.  The registries and the coordinator are modelled on their own; here *)
(* a call succeeds or fails.  A request is answered by what is sent for it,  *)
(* and often by the drop of its handle.                                      *)
EXTENDS Integers, Sequences, FiniteSets

CONSTANTS
  RequestCases,       \* what a run begins with: a function from requests to their kind
  MaxPublishTracks    \* MAX_INBOUND_PUBLISH_TRACKS_PER_SESSION

ASSUME RelaySessionAssumption ==
  MaxPublishTracks \in Nat /\ \A c \in RequestCases : IsFiniteSet(DOMAIN c)

VARIABLES
  kind,       \* the case: "PublishNamespace", "Publish", "Subscribe", "TrackStatus"
  session,    \* "accepting", "resolving", "running", "refused", "over"
  scope,      \* "ReadWrite" or "ReadOnly"; unscoped is ReadWrite
  step,       \* per request: "away", "queued", "local", "coordinator", "answering", "announcing",
              \* "open" (accepted and served), "ended"
  withdrawn,  \* requests the peer has ended: PUBLISH_NAMESPACE_DONE, PUBLISH_DONE, UNSUBSCRIBE
  held,       \* per request: the registrations and the permit it holds
  sent        \* per request: what was sent for it

relaySessionVars == <<kind, session, scope, step, withdrawn, held, sent>>

RRequests == DOMAIN kind
Publishes == {"PublishNamespace", "Publish"}

RelaySessionStart(c) ==
  /\ kind = c
  /\ session = "accepting" /\ scope = "ReadOnly"
  /\ step = [q \in DOMAIN c |-> "away"] /\ withdrawn = {}
  /\ held = [q \in DOMAIN c |-> {}]
  /\ sent = [q \in DOMAIN c |-> <<>>]
RelaySessionInit == \E c \in RequestCases : RelaySessionStart(c)

-----------------------------------------------------------------------------
(* The connection                                                          *)

\* accept_with_profile fails: the connection is closed.
AcceptSession(ok) ==
  /\ session = "accepting"
  /\ session' = IF ok THEN "resolving" ELSE "over"
  /\ UNCHANGED <<kind, scope, step, withdrawn, held, sent>>

\* resolve_scope: the permissions, or the connection is closed with 0x3.
ResolveScope(permissions) ==
  /\ session = "resolving"
  /\ IF permissions = "error" THEN session' = "refused" /\ UNCHANGED scope
     ELSE session' = "running" /\ scope' = permissions
  /\ UNCHANGED <<kind, step, withdrawn, held, sent>>

\* A request of the peer is queued by the transport.
Arrive(q) ==
  /\ session = "running" /\ step[q] = "away"
  /\ step' = [step EXCEPT ![q] = "queued"]
  /\ UNCHANGED <<kind, session, scope, withdrawn, held, sent>>

\* The first task to finish ends the session, and every task of it is dropped.
SessionEnds ==
  /\ session = "running"
  /\ session' = "over"
  /\ step' = [q \in RRequests |-> IF step[q] = "away" THEN "away" ELSE "ended"]
  /\ held' = [q \in RRequests |-> {}]
  /\ UNCHANGED <<kind, scope, withdrawn, sent>>

\* PUBLISH_NAMESPACE_DONE, PUBLISH_DONE or UNSUBSCRIBE comes, however far the request is.
PeerEnds(q) ==
  /\ session = "running" /\ step[q] \notin {"away", "ended"} /\ kind[q] \in Publishes \union {"Subscribe"}
  /\ withdrawn' = withdrawn \union {q}
  /\ UNCHANGED <<kind, session, scope, step, held, sent>>

\* Nothing is left to say: PublishedNamespace::drop after the peer's DONE, Subscribed::drop after
\* UNSUBSCRIBE.  PublishReceived::drop does not look.
Silent(q) == q \in withdrawn /\ kind[q] # "Publish"

\* Mutant: an accepted namespace is not taken back.
Farewell_Mute(q) ==
  CASE Silent(q) -> sent[q]
    [] ~Silent(q) /\ sent[q] = <<>> -> <<"error">>
    [] OTHER -> sent[q]

\* What the drop of its handle sends: it answers what was not answered and takes back an accepted
\* namespace.
Farewell(q) ==
  CASE Silent(q) -> sent[q]
    [] ~Silent(q) /\ sent[q] = <<>> -> <<"error">>
    [] ~Silent(q) /\ sent[q] = <<"ok">> /\ kind[q] = "PublishNamespace" -> <<"ok", "cancel">>
    [] OTHER -> sent[q]

\* The handle of a request goes, and with it the registrations.
Drop(q) ==
  /\ step' = [step EXCEPT ![q] = "ended"]
  /\ held' = [held EXCEPT ![q] = {}]
  /\ sent' = [sent EXCEPT ![q] = Farewell(q)]
  /\ UNCHANGED withdrawn

\* closed(): the handler of what was accepted sees that the peer has ended it, and returns.
PublishClosed(q) ==
  /\ session = "running" /\ step[q] = "open" /\ kind[q] \in Publishes /\ q \in withdrawn
  /\ Drop(q)
  /\ UNCHANGED <<kind, session, scope>>

-----------------------------------------------------------------------------
(* The consumer                                                            *)

\* ScopePermissions::can_publish
CanPublish == scope = "ReadWrite"

\* drain_and_reject_publishes
RejectPublish(q) ==
  /\ session = "running" /\ step[q] = "queued" /\ kind[q] \in Publishes /\ ~CanPublish
  /\ Drop(q)
  /\ UNCHANGED <<kind, session, scope>>

Permits == Cardinality({q \in RRequests : "permit" \in held[q]})

\* run takes it; serve_track needs a permit, and the reader of the track.
TakePublish(q, ok) ==
  /\ session = "running" /\ step[q] = "queued" /\ kind[q] \in Publishes /\ CanPublish
  /\ IF kind[q] = "Publish" /\ (Permits >= MaxPublishTracks \/ ~ok) THEN Drop(q)
     ELSE /\ step' = [step EXCEPT ![q] = "local"]
          /\ held' = [held EXCEPT ![q] = IF kind[q] = "Publish" THEN {"permit"} ELSE {}]
          /\ UNCHANGED <<sent, withdrawn>>
  /\ UNCHANGED <<kind, session, scope>>

\* Mutant: the answer does not wait for the coordinator.
NextStep_Early(q) == CASE step[q] = "local" -> "answering" [] OTHER -> "coordinator"

\* Local registration, then the coordinator's, then the answer.
NextStep(q) == CASE step[q] = "local" -> "coordinator" [] OTHER -> "answering"

\* register_namespace_with_fetch or register_track of the registry, then of the coordinator.  A
\* failure drops what there is.
Register(q, ok) ==
  /\ session = "running" /\ step[q] \in {"local", "coordinator"}
  /\ IF ~ok THEN Drop(q)
     ELSE /\ held' = [held EXCEPT ![q] = @ \union {step[q]}]
          /\ step' = [step EXCEPT ![q] = NextStep(q)]
          /\ UNCHANGED <<sent, withdrawn>>
  /\ UNCHANGED <<kind, session, scope>>

\* PublishedNamespace::ok or PublishReceived::accept.
Accept(q, ok) ==
  /\ session = "running" /\ step[q] = "answering"
  /\ IF ~ok THEN Drop(q)
     ELSE /\ sent' = [sent EXCEPT ![q] = <<"ok">>]
          /\ step' = [step EXCEPT ![q] = IF kind[q] = "Publish" THEN "open" ELSE "announcing"]
          /\ UNCHANGED <<held, withdrawn>>
  /\ UNCHANGED <<kind, session, scope>>

\* lookup_namespace_subscribers: an error takes the namespace back.  A failure to forward it does
\* not.
Announce(q, ok) ==
  /\ session = "running" /\ step[q] = "announcing"
  /\ IF ~ok THEN Drop(q)
     ELSE step' = [step EXCEPT ![q] = "open"] /\ UNCHANGED <<held, sent, withdrawn>>
  /\ UNCHANGED <<kind, session, scope>>

-----------------------------------------------------------------------------
(* The producer                                                            *)

\* run has a task for each request.
Requested(q, what) == session = "running" /\ step[q] = "queued" /\ kind[q] = what

\* serve_subscribe: the local track, then a remote one; a routing error is not "not found".  One
\* that was UNSUBSCRIBEd is not answered.
ServeSubscribe(q, where) ==
  /\ Requested(q, "Subscribe")
  /\ IF where \in {"local", "remote"} /\ q \notin withdrawn
     THEN /\ sent' = [sent EXCEPT ![q] = <<"ok">>]
          /\ step' = [step EXCEPT ![q] = "open"] /\ UNCHANGED <<held, withdrawn>>
     ELSE Drop(q)
  /\ UNCHANGED <<kind, session, scope>>

\* The track ends, or UNSUBSCRIBE: Subscribed::drop sends PUBLISH_DONE, or nothing.
SubscribeDone(q) ==
  /\ session = "running" /\ step[q] = "open" /\ kind[q] = "Subscribe"
  /\ step' = [step EXCEPT ![q] = "ended"]
  /\ sent' = [sent EXCEPT ![q] = IF Silent(q) THEN @ ELSE Append(@, "done")]
  /\ UNCHANGED <<kind, session, scope, withdrawn, held>>

\* serve_track_status: only local tracks are known.
ServeTrackStatus(q, local) ==
  /\ Requested(q, "TrackStatus")
  /\ sent' = [sent EXCEPT ![q] = IF local THEN <<"ok">> ELSE <<"error">>]
  /\ step' = [step EXCEPT ![q] = "ended"]
  /\ UNCHANGED <<kind, session, scope, withdrawn, held>>

RelaySessionNext ==
  \/ \E ok \in BOOLEAN : AcceptSession(ok)
  \/ \E p \in {"ReadWrite", "ReadOnly", "error"} : ResolveScope(p)
  \/ \E q \in RRequests :
       \/ Arrive(q) \/ PeerEnds(q) \/ PublishClosed(q) \/ RejectPublish(q) \/ SubscribeDone(q)
       \/ \E ok \in BOOLEAN : \/ TakePublish(q, ok) \/ Register(q, ok) \/ Accept(q, ok)
                              \/ Announce(q, ok) \/ ServeTrackStatus(q, ok)
       \/ \E w \in {"local", "remote", "routeError", "notFound"} : ServeSubscribe(q, w)
  \/ SessionEnds

RelaySessionSpec == RelaySessionInit /\ [][RelaySessionNext]_relaySessionVars

-----------------------------------------------------------------------------
RelaySessionTypeOK ==
  /\ kind \in RequestCases
  /\ session \in {"accepting", "resolving", "running", "refused", "over"}
  /\ withdrawn \subseteq RRequests
  /\ \A q \in RRequests :
       /\ step[q] \in {"away", "queued", "local", "coordinator", "answering", "announcing", "open", "ended"}
       /\ held[q] \subseteq {"permit", "local", "coordinator"}
       /\ sent[q] \in {<<>>, <<"ok">>, <<"error">>, <<"ok", "cancel">>, <<"ok", "done">>}

(* What was accepted can be reached: its local and its coordinator           *)
(* registration stand from before the peer is told until the request ends,   *)
(* and no longer.  A request that ended was answered, unless the peer had    *)
(* ended it before; and a peer that was told "accepted" is told of the end,  *)
(* unless it was the peer that ended it.  A read-only session registers      *)
(* nothing, and the permits are never exceeded (serve, serve_track,          *)
(* Session::run, drain_and_reject_publishes and the drops).                  *)
AcceptedIsReachable ==
  \A q \in RRequests :
    /\ kind[q] \in Publishes /\ sent[q] = <<"ok">> /\ step[q] # "ended" => {"local", "coordinator"} \subseteq held[q]
    /\ held[q] # {} => session = "running" /\ scope = "ReadWrite" /\ step[q] # "ended"
    /\ step[q] = "ended" /\ session = "running" /\ q \notin withdrawn =>
         sent[q] # <<>> /\ (kind[q] = "TrackStatus" \/ sent[q] # <<"ok">>)
    /\ Permits <= MaxPublishTracks
=============================================================================
