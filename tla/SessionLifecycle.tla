--------------------------- MODULE SessionLifecycle ---------------------------
(* A session from its setup to its end (session/mod.rs): CLIENT_SETUP and    *)
(* SERVER_SETUP, the control stream with its dispatch of what arrives, the   *)
(* requests that wait for an answer (session/pending_requests.rs) with the   *)
(* task that times them out, and the close.  The requests themselves are in  *)
(* Subscriptions, PublishNamespaces and Fetches, request ids in RequestIds.  *)
(*                                                                           *)
(* Session::run polls seven tasks in one select: the first that returns ends *)
(* the session.                                                              *)
EXTENDS Integers, Sequences, FiniteSets

CONSTANTS
  SetupCases,       \* what a run begins with: [profile, transport, url, max, kinds, foreign],
                    \* with url = [segs, query], max the MAX_REQUEST_ID of each end, kinds of
                    \* requests the applications make, and messages a peer may send that this
                    \* code never sends
  MaxPathSegments,  \* MAX_CONNECTION_PATH_LEN, in segments
  MaxRequests,      \* bound: requests of an end
  MaxForeign,       \* bound: foreign messages
  RESPONSE_TIMEOUT, MaxTime

RequestKinds == {"PublishNamespace", "Publish", "Subscribe", "Fetch", "TrackStatus"}

LifecycleAssumption ==
  /\ {MaxPathSegments, MaxRequests, MaxForeign, RESPONSE_TIMEOUT, MaxTime} \subseteq Nat
  /\ RESPONSE_TIMEOUT > 0
  /\ \A c \in SetupCases :
       /\ c.kinds \subseteq RequestKinds
       /\ c.foreign \subseteq {"Unknown", "GoAway", "RequestUpdate", "JoiningFetch",
                               "RequestsBlocked", "SubscribeNamespace"}

Ends == {"client", "server"}
Peer(e) == CHOOSE p \in Ends : p # e

VARIABLES
  setup,        \* the case
  sess,         \* of each end: [st, path, own, peer, first]: "setup", "up" or an error; the
                \* connection path; the two MAX_REQUEST_IDs; the parity of its request ids
  ctl,          \* control messages on their way to an end
  pending,      \* PendingRequests: [id, kind, deadline]
  permit,       \* its Notify has a permit
  timer,        \* run_pending_timeouts: [st, until], st "look", "changed", "sleep" or "apply"
  expired,      \* requests taken out by expire(), not yet told
  live,         \* requests whose handle the application holds
  unread,       \* SUBSCRIBEs whose track nobody reads any more
  statuses,     \* Subscriber::track_statuses
  owed,         \* requests of the peer the application has to answer: [id, kind]
  goaway,       \* goaway_received
  made,         \* bound: requests made
  foreign,      \* bound: foreign messages sent to an end
  now,
  ends          \* history: how each request ended, a sequence for each

lifeVars == <<setup, sess, ctl, pending, permit, timer, expired, live, unread, statuses, owed, goaway,
              made, foreign, now, ends>>

SessionIds == 0 .. (2 * MaxRequests - 1)
NoPath == <<>>

LifecycleStart(c) ==
  /\ setup = c
  /\ sess = [e \in Ends |-> [st |-> "setup", path |-> NoPath, own |-> 0, peer |-> 0, first |-> 0]]
  /\ ctl = [e \in Ends |-> <<>>]
  /\ pending = [e \in Ends |-> {}] /\ permit = [e \in Ends |-> FALSE]
  /\ timer = [e \in Ends |-> [st |-> "look", until |-> 0]]
  /\ expired = [e \in Ends |-> {}]
  /\ live = {} /\ unread = {} /\ statuses = [e \in Ends |-> {}] /\ owed = [e \in Ends |-> {}]
  /\ goaway = [e \in Ends |-> FALSE]
  /\ made = [e \in Ends |-> 0] /\ foreign = 0 /\ now = 0
  /\ ends = [id \in SessionIds |-> <<>>]
LifecycleInit == \E c \in SetupCases : LifecycleStart(c)

Message(type, id) == [type |-> type, id |-> id]
\* run_send: what an end has queued reaches its peer in order.
Sent(e, m) == [ctl EXCEPT ![Peer(e)] = Append(@, m)]
IsUp(e) == sess[e].st = "up"
\* An error of a task: close(), after which every task of the peer fails as well.
Fails(e, error) ==
  sess' = [x \in Ends |-> IF x = e THEN [sess[x] EXCEPT !.st = error]
                          ELSE IF sess[x].st \in {"setup", "up"} THEN [sess[x] EXCEPT !.st = "Closed"]
                          ELSE sess[x]]

-----------------------------------------------------------------------------
(* Setup                                                                   *)

Bad(reason) == [ok |-> FALSE, v |-> reason]
Good(p) == [ok |-> TRUE, v |-> p]

\* trim_end_matches('/').
Trimmed(segs) ==
  LET n == CHOOSE k \in 0 .. Len(segs) :
             /\ \A i \in (k + 1) .. Len(segs) : segs[i] = ""
             /\ k = 0 \/ segs[k] # ""
  IN  SubSeq(segs, 1, n)

\* normalize_connection_path of "/" followed by the segments.
NormalizePath(segs) ==
  LET t == Trimmed(segs)
  IN  IF segs \in {<<>>, <<"">>} THEN Good(NoPath)
      ELSE IF Len(segs) > MaxPathSegments THEN Bad("InvalidPath")
      ELSE IF \E i \in DOMAIN t : t[i] \in {"", "%", ".", ".."} THEN Bad("InvalidPath")
      ELSE Good(t)

\* The PATH parameter has the query as well, which ends up in the last segment.
WithQuery(url) ==
  IF ~url.query THEN url.segs
  ELSE IF url.segs # <<>> /\ url.segs[Len(url.segs)] = "" THEN [url.segs EXCEPT ![Len(url.segs)] = "?"]
  ELSE Append(url.segs, "?")

\* connect_with_profile until CLIENT_SETUP is sent: draft-19 is not framed here.
ClientSetup ==
  /\ sess.client.st = "setup" /\ ctl.server = <<>> /\ ctl.client = <<>>
  /\ LET p == NormalizePath(setup.url.segs)
     IN IF setup.profile = "Draft19" THEN Fails("client", "ProfileFramingMismatch") /\ UNCHANGED ctl
        ELSE IF ~p.ok THEN Fails("client", p.v) /\ UNCHANGED ctl
        ELSE /\ sess' = [sess EXCEPT !.client.path = p.v, !.client.own = setup.max.client]
             /\ ctl' = [ctl EXCEPT !.server = <<[type |-> "ClientSetup",
                          max |-> setup.max.client,
                          path |-> IF setup.transport = "RawQuic" THEN WithQuery(setup.url) ELSE <<>>]>>]
  /\ UNCHANGED <<setup, pending, permit, timer, expired, live, unread, statuses, owed, goaway, made,
                 foreign, now, ends>>

\* Mutant: the server reads the PATH parameter and ignores the CONNECT URL.
ServerPath_ParameterOnly(m) == NormalizePath(m.path)

\* The path of the CONNECT URL, or else of the PATH parameter.  Raw QUIC has no URL.
ServerPath(m) ==
  LET wt == IF setup.transport = "RawQuic" THEN Good(NoPath) ELSE NormalizePath(setup.url.segs)
  IN  IF ~wt.ok \/ wt.v # NoPath THEN wt ELSE NormalizePath(m.path)

\* accept_with_profile: CLIENT_SETUP, then SERVER_SETUP; the session is up.
ServerSetup ==
  /\ sess.server.st = "setup" /\ ctl.server # <<>> /\ Head(ctl.server).type = "ClientSetup"
  /\ LET m == Head(ctl.server)
         p == ServerPath(m)
     IN IF ~p.ok THEN Fails("server", p.v) /\ UNCHANGED ctl
        ELSE /\ sess' = [sess EXCEPT !.server = [st |-> "up", path |-> p.v, own |-> setup.max.server,
                                                 peer |-> m.max, first |-> 1]]
             /\ ctl' = [ctl EXCEPT !.server = Tail(@),
                          !.client = <<[type |-> "ServerSetup", max |-> setup.max.server]>>]
  /\ UNCHANGED <<setup, pending, permit, timer, expired, live, unread, statuses, owed, goaway, made,
                 foreign, now, ends>>

ClientReady ==
  /\ sess.client.st = "setup" /\ ctl.client # <<>> /\ Head(ctl.client).type = "ServerSetup"
  /\ sess' = [sess EXCEPT !.client.st = "up", !.client.peer = Head(ctl.client).max]
  /\ ctl' = [ctl EXCEPT !.client = Tail(@)]
  /\ UNCHANGED <<setup, pending, permit, timer, expired, live, unread, statuses, owed, goaway, made,
                 foreign, now, ends>>

-----------------------------------------------------------------------------
(* Requests                                                                *)

\* Mutant: the task that waits for a deadline is not told of a new request.
Noticed_Silent(e) == permit

\* insert: notify_one leaves a permit if nobody waits.
Noticed(e) == [permit EXCEPT ![e] = TRUE]

\* The request is entered before it is sent, TRACK_STATUS in a set of its own.
MakeRequest(e, kind) ==
  /\ IsUp(e) /\ made[e] < MaxRequests
  /\ LET id == sess[e].first + 2 * made[e]
     IN /\ id < sess[e].peer
        /\ IF kind = "TrackStatus"
           THEN statuses' = [statuses EXCEPT ![e] = @ \cup {id}] /\ UNCHANGED <<pending, permit, live>>
           ELSE /\ pending' = [pending EXCEPT ![e] = @ \cup
                                 {[id |-> id, kind |-> kind, deadline |-> now + RESPONSE_TIMEOUT]}]
                /\ permit' = Noticed(e)
                /\ live' = live \cup {id} /\ UNCHANGED statuses
        /\ ctl' = Sent(e, Message(kind, id))
        /\ made' = [made EXCEPT ![e] = @ + 1]
  /\ UNCHANGED <<setup, sess, timer, expired, unread, owed, goaway, foreign, now, ends>>

\* Dropping the handle takes the request back, silently for PendingRequests.
DropRequest(e, id) ==
  /\ id \in live /\ id % 2 = sess[e].first
  /\ live' = live \ {id}
  /\ pending' = [pending EXCEPT ![e] = {p \in @ : p.id # id}]
  /\ ends' = IF \E p \in pending[e] : p.id = id THEN [ends EXCEPT ![id] = Append(@, "dropped")] ELSE ends
  /\ UNCHANGED <<setup, sess, ctl, permit, timer, expired, unread, statuses, owed, goaway, made,
                 foreign, now>>

\* The readers of a track that is being subscribed to leave.
LeaveTrack(id) ==
  /\ id \in live /\ unread' = unread \cup {id}
  /\ \E p \in pending["client"] \cup pending["server"] : p.id = id /\ p.kind = "Subscribe"
  /\ UNCHANGED <<setup, sess, ctl, pending, permit, timer, expired, live, statuses, owed, goaway, made,
                 foreign, now, ends>>

OkOf(kind) ==
  CASE kind \in {"PublishNamespace", "TrackStatus"} -> "RequestOk"
    [] kind = "Publish"   -> "PublishOk"
    [] kind = "Subscribe" -> "SubscribeOk"
    [] kind = "Fetch"     -> "FetchOk"

\* The application of the peer answers, or lets go of a TRACK_STATUS for a track
\* it does not have: serve_track_status returns the error and answers nothing.
AnswerRequest(e, r) ==
  /\ IsUp(e) /\ r \in owed[e]
  /\ owed' = [owed EXCEPT ![e] = @ \ {r}]
  /\ \/ \E type \in {OkOf(r.kind), "RequestError"} :
          ctl' = Sent(e, Message(type, r.id))
     \/ r.kind = "TrackStatus" /\ UNCHANGED ctl
  /\ UNCHANGED <<setup, sess, pending, permit, timer, expired, live, unread, statuses, goaway, made,
                 foreign, now, ends>>

SendForeign(e, type) ==
  /\ IsUp(e) /\ foreign < MaxForeign /\ foreign' = foreign + 1
  /\ ctl' = [ctl EXCEPT ![e] = Append(@, Message(type, 2 * MaxRequests + sess[Peer(e)].first))]
  /\ UNCHANGED <<setup, sess, pending, permit, timer, expired, live, unread, statuses, owed, goaway,
                 made, now, ends>>

-----------------------------------------------------------------------------
(* Dispatch                                                                *)

Responses == {"RequestOk", "RequestError", "PublishOk", "SubscribeOk", "FetchOk"}

\* PendingRequest::accepts.
Accepts(kind, response) ==
  response = "RequestError" \/ (kind # "TrackStatus" /\ response = OkOf(kind))

\* recv_request_ok and its siblings: unknown ids are ignored, an answer of the
\* wrong kind is a violation.  For SUBSCRIBE, REQUEST_ERROR closes the track,
\* which fails when nobody reads it.
RecvResponse(e, m) ==
  LET found == {p \in pending[e] : p.id = m.id}
  IN IF found = {} THEN UNCHANGED <<sess, pending, ends>>
     ELSE \E p \in found :
       IF ~Accepts(p.kind, m.type)
       THEN Fails(e, "ProtocolViolation") /\ UNCHANGED <<pending, ends>>
       ELSE /\ pending' = [pending EXCEPT ![e] = @ \ {p}]
            /\ ends' = [ends EXCEPT ![m.id] = Append(@, IF m.type = "RequestError" THEN "error" ELSE "ok")]
            /\ IF m.type = "RequestError" /\ p.kind = "Subscribe" /\ m.id \in unread
               THEN Fails(e, "Serve") ELSE UNCHANGED sess

\* A request reaches the application, which owes an answer from then on.
RecvRequest(e, m) == owed' = [owed EXCEPT ![e] = @ \cup {[id |-> m.id, kind |-> m.type]}]

\* run_recv.
Dispatch(e) ==
  /\ IsUp(e) /\ ctl[e] # <<>>
  /\ LET m == Head(ctl[e])
         rest == [ctl EXCEPT ![e] = Tail(@)]
     IN \/ /\ m.type \in Responses
           /\ RecvResponse(e, m) /\ ctl' = rest /\ UNCHANGED <<owed, goaway>>
        \/ /\ m.type \in RequestKinds
           /\ RecvRequest(e, m)
           /\ ctl' = rest /\ UNCHANGED <<sess, pending, ends, goaway>>
        \/ /\ m.type = "FetchCancel"
           /\ owed' = [owed EXCEPT ![e] = {r \in @ : r.id # m.id}]
           /\ ctl' = rest /\ UNCHANGED <<sess, pending, ends, goaway>>
        \/ /\ m.type = "GoAway"
           /\ IF goaway[e] THEN Fails(e, "ProtocolViolation") ELSE UNCHANGED sess
           /\ goaway' = [goaway EXCEPT ![e] = TRUE]
           /\ ctl' = rest /\ UNCHANGED <<pending, owed, ends>>
        \/ /\ m.type \in {"RequestUpdate", "JoiningFetch"}    \* send_not_supported
           /\ ctl' = [rest EXCEPT ![Peer(e)] = Append(@, Message("RequestError", m.id))]
           /\ UNCHANGED <<sess, pending, owed, ends, goaway>>
        \/ /\ m.type \in {"Unknown", "RequestsBlocked"}
           /\ ctl' = rest /\ UNCHANGED <<sess, pending, owed, ends, goaway>>
        \/ /\ m.type = "SubscribeNamespace"                   \* it has streams of its own
           /\ Fails(e, "ProtocolViolation")
           /\ ctl' = rest /\ UNCHANGED <<pending, owed, ends, goaway>>
  /\ UNCHANGED <<setup, permit, timer, expired, live, unread, statuses, made, foreign, now>>

-----------------------------------------------------------------------------
(* run_pending_timeouts                                                    *)

Earliest(e) == CHOOSE d \in {p.deadline : p \in pending[e]} : \A p \in pending[e] : d <= p.deadline

TimerLook(e) ==
  /\ IsUp(e) /\ timer[e].st = "look"
  /\ timer' = [timer EXCEPT ![e] = IF pending[e] = {} THEN [st |-> "changed", until |-> 0]
                                   ELSE [st |-> "sleep", until |-> Earliest(e)]]
  /\ UNCHANGED <<setup, sess, ctl, pending, permit, expired, live, unread, statuses, owed, goaway, made,
                 foreign, now, ends>>

TimerNotified(e) ==
  /\ IsUp(e) /\ timer[e].st \in {"changed", "sleep"} /\ permit[e]
  /\ permit' = [permit EXCEPT ![e] = FALSE]
  /\ timer' = [timer EXCEPT ![e].st = "look"]
  /\ UNCHANGED <<setup, sess, ctl, pending, expired, live, unread, statuses, owed, goaway, made,
                 foreign, now, ends>>

\* expire() takes out what is due, which may be nothing by now; each request is
\* told after that, and the others of the loop with it.
TimerExpire(e) ==
  /\ IsUp(e) /\ timer[e].st = "sleep" /\ timer[e].until <= now
  /\ LET due == {p \in pending[e] : p.deadline <= now}
     IN /\ pending' = [pending EXCEPT ![e] = @ \ due]
        /\ expired' = [expired EXCEPT ![e] = due]
        /\ ends' = [id \in SessionIds |-> IF \E p \in due : p.id = id THEN Append(ends[id], "timeout") ELSE ends[id]]
  /\ timer' = [timer EXCEPT ![e].st = "apply"]
  /\ UNCHANGED <<setup, sess, ctl, permit, live, unread, statuses, owed, goaway, made, foreign, now>>

\* recv_request_timeout: FETCH is cancelled; closing an unread track fails, and
\* so does telling a PUBLISH_NAMESPACE whose handle has gone since.
TimerApply(e) ==
  /\ IsUp(e) /\ timer[e].st = "apply"
  /\ IF expired[e] = {} THEN timer' = [timer EXCEPT ![e].st = "look"] /\ UNCHANGED <<sess, ctl, expired>>
     ELSE \E p \in expired[e] :
       /\ expired' = [expired EXCEPT ![e] = @ \ {p}] /\ UNCHANGED timer
       /\ IF \/ p.kind = "Subscribe" /\ p.id \in unread
             \/ p.kind = "PublishNamespace" /\ p.id \notin live
          THEN Fails(e, "Serve") ELSE UNCHANGED sess
       /\ ctl' = IF p.kind = "Fetch" THEN Sent(e, Message("FetchCancel", p.id)) ELSE ctl
  /\ UNCHANGED <<setup, pending, permit, live, unread, statuses, owed, goaway, made, foreign, now, ends>>

Tick ==
  /\ now < MaxTime /\ now' = now + 1
  /\ UNCHANGED <<setup, sess, ctl, pending, permit, timer, expired, live, unread, statuses, owed, goaway,
                 made, foreign, ends>>

LifecycleNext ==
  \/ ClientSetup \/ ServerSetup \/ ClientReady \/ Tick
  \/ \E e \in Ends :
       \/ \E kind \in setup.kinds : MakeRequest(e, kind)
       \/ \E id \in SessionIds : DropRequest(e, id)
       \/ \E r \in owed[e] : AnswerRequest(e, r)
       \/ \E type \in setup.foreign : SendForeign(e, type)
       \/ Dispatch(e)
       \/ TimerLook(e) \/ TimerNotified(e) \/ TimerExpire(e) \/ TimerApply(e)
  \/ \E id \in SessionIds : LeaveTrack(id)

-----------------------------------------------------------------------------
LifecycleTypeOK ==
  /\ \A e \in Ends :
       /\ sess[e].st \in {"setup", "up", "Closed", "InvalidPath", "ProfileFramingMismatch",
                          "ProtocolViolation", "Serve"}
       /\ \A p \in pending[e] : p.id \in SessionIds /\ p.id % 2 = sess[e].first
       /\ timer[e].st \in {"look", "changed", "sleep", "apply"}
  /\ live \subseteq SessionIds /\ unread \subseteq SessionIds

(* The two ends of a session that is up agree on it: each has the other's    *)
(* MAX_REQUEST_ID, their ids never meet, and they have the same connection   *)
(* path over either transport, except that raw QUIC takes the query of the   *)
(* URL into it (session/mod.rs connect_with_profile, accept_with_profile).   *)
SetupAgrees ==
  IsUp("client") /\ IsUp("server") =>
    /\ sess.client.peer = sess.server.own /\ sess.server.peer = sess.client.own
    /\ sess.client.first # sess.server.first
    /\ setup.profile # "Draft19"
    /\ sess.client.path = sess.server.path \/ (setup.transport = "RawQuic" /\ setup.url.query)

(* The task that times requests out never sleeps past one: while requests    *)
(* are pending it has a deadline that is not too late, or a notification     *)
(* waits for it; and it never waits without a deadline on a request, in      *)
(* whatever order requests are made, answered and dropped around it          *)
(* (session/mod.rs run_pending_timeouts, session/pending_requests.rs).       *)
(* A request ends once: answered, timed out or dropped, and what comes late  *)
(* does not bring it back.  What this code sends ends no session as a        *)
(* protocol violation: only a second GOAWAY or a misplaced                   *)
(* SUBSCRIBE_NAMESPACE does.                                                 *)
PendingSound ==
  /\ \A e \in Ends : IsUp(e) =>
       /\ timer[e].st = "changed" => pending[e] = {} \/ permit[e]
       /\ timer[e].st = "sleep" =>
            permit[e] \/ \A p \in pending[e] : timer[e].until <= p.deadline
  /\ \A id \in SessionIds : Len(ends[id]) <= 1
  /\ \A e \in Ends : sess[e].st = "ProtocolViolation" => foreign > 0
=============================================================================
