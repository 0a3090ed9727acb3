------------------------------- MODULE Draft19 -------------------------------
(* The draft-19 profile (profile/draft19.rs, session/draft19.rs): its frames  *)
(* in octets, and the life of one request stream between the two ends, each   *)
(* of which keeps its own account of what may still be sent and received,     *)
(* next to the pair of control streams.                                       *)
(* An end makes no call that its own account refuses and sends each frame     *)
(* with the call that is there for it, but it cannot know which frame it will *)
(* read next: it may ask for a message where a PUBLISH_DONE comes, and for the *)
(* PUBLISH_DONE where something else does.  The client names no new session   *)
(* in a GOAWAY: the server may not be told to move.                           *)
EXTENDS Messages

CONSTANTS
  RequestKinds,     \* the kinds of request that are made
  MaxInFlight       \* bound on the unread frames of one direction when a message is added

VARIABLES
  requestKind, \* what is requested
  client,      \* the end of the request stream that is the client of the session
  life,        \* RequestStream of each end
  goaway,      \* GoAwayState of each end, for the request stream
  chan,        \* the frames each end has sent on the request stream, not yet read
  error,       \* what each end was told by the last of its calls that failed
  misread,     \* history: the calls by which each end read a frame that is for the other call
  control,     \* ControlStreamPair and its GoAwayState of each end
  ctlChan,     \* the frames each end has sent on its control stream, not yet read
  closed       \* the code with which the session was closed, or "open"

draft19Vars == <<requestKind, client, life, goaway, chan, error, misread, control, ctlChan, closed>>

-----------------------------------------------------------------------------
(* Frames.                                                                    *)
SETUP_TYPE == 12032
GOAWAY_TYPE == 16

\* SetupOptionType::is_known: one that is known may occur once.
KnownOptions == {1, 4, 5, 6, 7, 8}

EncodeOption(o, prev) ==
  IF o.key < prev THEN Err("KvpKeyOrder")
  ELSE IF (o.kind = "int") # (o.key % 2 = 0) THEN Err("InvalidValue")
  ELSE IF o.kind = "int" THEN EncodeAll(<<EncodeVi64(o.key - prev), EncodeVi64(o.v)>>)
  ELSE IF Len(o.v) > U16Max THEN Err("KeyValuePairLengthExceeded")
  ELSE EncodeAll(<<EncodeVi64(o.key - prev), EncodeVi64(Len(o.v)), Enc(o.v)>>)

\* SetupOptions::encode_body takes the options in the order in which they are.
EncodeOptions(os) ==
  EncodeAll([i \in DOMAIN os |->
    IF os[i].key \in KnownOptions /\ \E j \in 1..(i - 1) : os[j].key = os[i].key
    THEN Err("InvalidValue")
    ELSE EncodeOption(os[i], IF i = 1 THEN 0 ELSE os[i - 1].key)])

\* u64::MAX, which a Vi64 can hold.
Vi64Max == Base^OctetBits - 1

\* The next option after those it got; a known one that comes again is refused before its value.
DecodeOption(got, s) ==
  Then(DecodeVi64(s), LAMBDA delta, s1 :
    LET key == delta + IF got = <<>> THEN 0 ELSE Last(got).key
    IN  IF key > Vi64Max THEN Err("KvpTypeOverflow")
        ELSE IF key \in KnownOptions /\ GetPair(got, key) # <<>> THEN Err("DuplicateParameter")
        ELSE IF key % 2 = 0
        THEN Then(DecodeVi64(s1), LAMBDA n, rest : Ok(IntPair(key, n), rest))
        ELSE Then(DecodeVi64(s1), LAMBDA n, s2 :
               IF n > U16Max THEN Err("KeyValuePairLengthExceeded")
               ELSE Then(Remaining(s2, n), LAMBDA b, rest : Ok(BytesPair(key, b), rest))))

\* SetupOptions::decode_body, to the end of the body.
DecodeOptions(s) ==
  FoldLeft(LAMBDA d, i :
      IF d.ok /\ d.rest = <<>> THEN d
      ELSE Then(d, LAMBDA got, rest :
             Then(DecodeOption(got, rest), LAMBDA o, left : Ok(Append(got, o), left))),
    Ok(<<>>, s), Times(Len(s) + 1, s))

\* Frame: any message, its payload left as it is.
EncodeFrame19(f) ==
  IF Len(f.payload) > U16Max THEN Err("MsgBoundsExceeded")
  ELSE EncodeAll(<<EncodeVi64(f.type), EncodeU16(Len(f.payload)), Enc(f.payload)>>)
DecodeFrame19(s) ==
  Then(DecodeVi64(s), LAMBDA type, s1 :
    Then(DecodeU16(s1), LAMBDA n, s2 :
      Then(Remaining(s2, n), LAMBDA payload, rest :
        Ok([type |-> type, payload |-> payload], rest))))

EncodeSetup19(os) ==
  LET body == EncodeOptions(os)
  IN  IF body.ok THEN EncodeFrame19([type |-> SETUP_TYPE, payload |-> body.out]) ELSE body
DecodeSetup19(s) ==
  Then(DecodeVi64(s), LAMBDA type, s1 :
    IF type # SETUP_TYPE THEN Err("InvalidMessage")
    ELSE Then(DecodeFrame19(s), LAMBDA f, rest :
           Then(DecodeOptions(f.payload), LAMBDA os, left : Ok(os, rest))))

\* GoAway::into_frame and from_frame: [uri, timeout].
GoAwayFrame(g) ==
  IF Len(g.uri) > MaxText THEN Err("FieldBoundsExceeded")
  ELSE LET body == EncodeAll(<<EncodeVi64(Len(g.uri)), Enc(g.uri), EncodeVi64(g.timeout)>>)
       IN  EncodeFrame19([type |-> GOAWAY_TYPE, payload |-> body.out])
GoAwayOf(f) ==
  IF f.type # GOAWAY_TYPE THEN Err("InvalidMessage")
  ELSE Then(DecodeVi64(f.payload), LAMBDA n, s1 :
         IF n > MaxText THEN Err("FieldBoundsExceeded")
         ELSE Then(Remaining(s1, n), LAMBDA uri, s2 :
                IF ~IsText(uri) THEN Err("InvalidString")
                ELSE Then(DecodeVi64(s2), LAMBDA timeout, left :
                       IF left # <<>> THEN Err("InvalidLength")
                       ELSE Ok([uri |-> uri, timeout |-> timeout], left))))

-----------------------------------------------------------------------------
Ends == {"requester", "responder"}
Peer(e) == IF e = "requester" THEN "responder" ELSE "requester"

Kinds == {"Subscribe", "Publish", "Fetch", "TrackStatus", "PublishNamespace",
          "SubscribeNamespace", "SubscribeTracks"}

\* RequestStream::new_for_role.  The publisher of a track owes a PUBLISH_DONE
\* before it ends its direction, the responder a response.
NewLife(e) ==
  [first   |-> FALSE,
   sendReq |-> IF e = "requester" THEN requestKind = "Publish" ELSE TRUE,
   recvReq |-> IF e = "requester" THEN TRUE ELSE requestKind = "Publish",
   send |-> "open", recv |-> "open"]
NoLife == [first |-> FALSE, sendReq |-> FALSE, recvReq |-> FALSE, send |-> "none", recv |-> "none"]
NoGoAway == [sent |-> FALSE, received |-> FALSE]

\* What a request stream of an end fails with, and what closes the session.
Draft19Error == {"none", "PrematureFin", "InvalidTransition", "Transport"}
\* The two calls that read a frame after the answer.
ReadCalls == {"receive_message", "receive_publish_done"}
SessionErrorCode == {"open", "NoError", "ProtocolViolation", "GoAwayTimeout"}

\* ControlStreamPair, with the GOAWAYs of the session.
NewControl == [setupSent |-> FALSE, setupReceived |-> FALSE, sent |-> FALSE, received |-> FALSE]

Draft19TypeOK ==
  /\ requestKind \in RequestKinds \cap Kinds /\ client \in Ends
  /\ life \in [Ends -> [first : BOOLEAN, sendReq : BOOLEAN, recvReq : BOOLEAN,
                        send : {"none", "open", "finished", "reset"},
                        recv : {"none", "open", "finished", "stopped"}]]
  /\ goaway \in [Ends -> [sent : BOOLEAN, received : BOOLEAN]]
  /\ chan \in [Ends -> Seq({"request", "ok", "error", "goaway", "done", "msg", "FIN", "FIN-goaway",
                            "RESET"})]
  /\ error \in [Ends -> Draft19Error]
  /\ misread \in [Ends -> SUBSET ReadCalls]
  /\ control \in [Ends -> [setupSent : BOOLEAN, setupReceived : BOOLEAN, sent : BOOLEAN,
                           received : BOOLEAN]]
  /\ ctlChan \in [Ends -> Seq({"setup", "goaway", "goaway-uri", "frame"})]
  /\ closed \in SessionErrorCode

Start(k, c) ==
  /\ requestKind = k /\ client = c
  /\ life = [e \in Ends |-> NoLife]
  /\ goaway = [e \in Ends |-> NoGoAway]
  /\ chan = [e \in Ends |-> <<>>]
  /\ error = [e \in Ends |-> "none"]
  /\ misread = [e \in Ends |-> {}]
  /\ control = [e \in Ends |-> NewControl]
  /\ ctlChan = [e \in Ends |-> <<>>]
  /\ closed = "open"
Draft19Init == \E k \in RequestKinds, c \in Ends : Start(k, c)

SendFrame(e, frame) == chan' = [chan EXCEPT ![e] = Append(@, frame)]
Receives(e, frame) == chan[Peer(e)] # <<>> /\ Head(chan[Peer(e)]) = frame
Take(e) == chan' = [chan EXCEPT ![Peer(e)] = Tail(@)]
Fail(e, err) == error' = [error EXCEPT ![e] = err]
SessionOpen == closed = "open"
ctlVars == <<control, ctlChan>>

Misread(e, call) == misread' = [misread EXCEPT ![e] = @ \union {call}]

\* The end can still read the stream (a frame of the wrong kind ends nothing), and write to it.
Reads(e) == SessionOpen /\ life[e].recv = "open" /\ error[e] \notin {"PrematureFin", "Transport"}
Writes(e) == SessionOpen /\ life[e].send = "open"

-----------------------------------------------------------------------------
(* The session: SETUP both ways, GOAWAY on the control stream.                *)

\* Draft19Session::establish: send SETUP, then wait for that of the peer.
SendSetup(e) ==
  /\ SessionOpen /\ ~control[e].setupSent
  /\ control' = [control EXCEPT ![e].setupSent = TRUE]
  /\ ctlChan' = [ctlChan EXCEPT ![e] = Append(@, "setup")]
  /\ UNCHANGED <<requestKind, client, life, goaway, chan, error, misread, closed>>
ReceiveSetup(e) ==
  /\ SessionOpen /\ control[e].setupSent /\ ~control[e].setupReceived
  /\ ctlChan[Peer(e)] # <<>> /\ Head(ctlChan[Peer(e)]) = "setup"
  /\ control' = [control EXCEPT ![e].setupReceived = TRUE]
  /\ ctlChan' = [ctlChan EXCEPT ![Peer(e)] = Tail(@)]
  /\ UNCHANGED <<requestKind, client, life, goaway, chan, error, misread, closed>>
Ready(e) == control[e].setupSent /\ control[e].setupReceived

\* send_control, here of a GOAWAY: one of a server may name a new session.
SendControlGoAway(e) ==
  /\ SessionOpen /\ Ready(e) /\ ~control[e].sent
  /\ control' = [control EXCEPT ![e].sent = TRUE]
  /\ ctlChan' = [ctlChan EXCEPT ![e] = Append(@, IF e = client THEN "goaway" ELSE "goaway-uri")]
  /\ UNCHANGED <<requestKind, client, life, goaway, chan, error, misread, closed>>

\* receive_control: a second GOAWAY, or one that tells a server to move, closes
\* the session.
ReceiveControl(e) ==
  /\ SessionOpen /\ Ready(e) /\ ctlChan[Peer(e)] # <<>>
  /\ ctlChan' = [ctlChan EXCEPT ![Peer(e)] = Tail(@)]
  /\ IF control[e].received \/ (Head(ctlChan[Peer(e)]) = "goaway-uri" /\ e # client)
     THEN closed' = "ProtocolViolation" /\ UNCHANGED control
     ELSE control' = [control EXCEPT ![e].received = TRUE] /\ UNCHANGED closed
  /\ UNCHANGED <<requestKind, client, life, goaway, chan, error, misread>>

\* enforce_control_goaway_timeout, once the time that was sent has passed; a
\* GOAWAY without one is one whose time never does.
ControlTimeout(e) ==
  /\ SessionOpen /\ control[e].sent
  /\ closed' = "GoAwayTimeout"
  /\ UNCHANGED <<requestKind, client, life, goaway, chan, error, misread, control, ctlChan>>

CloseAfterGoAway(e) ==
  /\ SessionOpen /\ (control[e].sent \/ control[e].received)
  /\ closed' = "NoError"
  /\ UNCHANGED <<requestKind, client, life, goaway, chan, error, misread, control, ctlChan>>

-----------------------------------------------------------------------------
(* The request stream.                                                        *)
OpenRequest ==
  /\ SessionOpen /\ Ready("requester") /\ life["requester"] = NoLife
  /\ life' = [life EXCEPT !["requester"] = NewLife("requester")]
  /\ SendFrame("requester", "request")
  /\ UNCHANGED <<requestKind, client, goaway, error, misread, ctlVars, closed>>

AcceptRequest ==
  /\ SessionOpen /\ Ready("responder") /\ life["responder"] = NoLife
  /\ Receives("responder", "request") /\ Take("responder")
  /\ life' = [life EXCEPT !["responder"] = NewLife("responder")]
  /\ UNCHANGED <<requestKind, client, goaway, error, misread, ctlVars, closed>>

\* After the first response the publisher of a subscription still owes its DONE.
\* Mutant: the publisher owes nothing once it has answered.
SendFirstResponse_NothingOwed(response) ==
  /\ Writes("responder") /\ ~life["responder"].first
  /\ life' = [life EXCEPT !["responder"].first = TRUE, !["responder"].sendReq = FALSE]
  /\ SendFrame("responder", response)
  /\ UNCHANGED <<requestKind, client, goaway, error, misread, ctlVars, closed>>
SendFirstResponse(response) ==
  /\ Writes("responder") /\ ~life["responder"].first
  /\ life' = [life EXCEPT !["responder"].first = TRUE,
                          !["responder"].sendReq = response = "ok" /\ requestKind = "Subscribe"]
  /\ SendFrame("responder", response)
  /\ UNCHANGED <<requestKind, client, goaway, error, misread, ctlVars, closed>>

\* A GOAWAY before the response is handed out and the response awaited again;
\* anything else in its place closes the session.
ReceiveFirstResponse ==
  /\ Reads("requester") /\ ~life["requester"].first /\ chan["responder"] # <<>>
  /\ Take("requester")
  /\ LET frame == Head(chan["responder"])
     IN  \/ /\ frame \in {"ok", "error"}
            /\ life' = [life EXCEPT !["requester"].first = TRUE,
                          !["requester"].recvReq = frame = "ok" /\ requestKind = "Subscribe"]
            /\ UNCHANGED <<goaway, error, closed>>
         \/ /\ frame = "goaway" /\ ~goaway["requester"].received
            /\ goaway' = [goaway EXCEPT !["requester"].received = TRUE]
            /\ UNCHANGED <<life, error, closed>>
         \/ /\ frame \in {"FIN", "FIN-goaway"}
            /\ Fail("requester", IF life["requester"].recvReq THEN "PrematureFin"
                                 ELSE "InvalidTransition")
            /\ UNCHANGED <<life, goaway, closed>>
         \/ /\ frame = "RESET"
            /\ Fail("requester", "Transport")
            /\ UNCHANGED <<life, goaway, closed>>
         \/ /\ frame \in {"msg", "done"} \/ (frame = "goaway" /\ goaway["requester"].received)
            /\ closed' = "ProtocolViolation"
            /\ UNCHANGED <<life, goaway, error>>
  /\ UNCHANGED <<requestKind, client, misread, ctlVars>>

CanSendFollowup(e) == e = "requester" \/ life[e].first
CanReceiveFollowup(e) == e = "responder" \/ life[e].first

\* send_message
SendMessage(e) ==
  /\ Writes(e) /\ CanSendFollowup(e) /\ Len(chan[e]) < MaxInFlight
  /\ SendFrame(e, "msg")
  /\ UNCHANGED <<requestKind, client, life, goaway, error, misread, ctlVars, closed>>

\* The end that publishes the track.
PublishesTrack(e) == (e = "requester" /\ requestKind = "Publish") \/ (e = "responder" /\ requestKind = "Subscribe")

SendPublishDone(e) ==
  /\ Writes(e) /\ life[e].first /\ PublishesTrack(e) /\ life[e].sendReq
  /\ life' = [life EXCEPT ![e].sendReq = FALSE]
  /\ SendFrame(e, "done")
  /\ UNCHANGED <<requestKind, client, goaway, error, misread, ctlVars, closed>>

\* The next frame is read.
TakeFrame(e) ==
  /\ Reads(e) /\ life[e] # NoLife /\ CanReceiveFollowup(e) /\ chan[Peer(e)] # <<>>
  /\ Take(e)
  /\ UNCHANGED <<requestKind, client, ctlVars>>

\* receive_message hands out whatever comes, and a PUBLISH_DONE that it hands out
\* settles nothing.
ReceiveMessage(e) ==
  /\ TakeFrame(e)
  /\ LET frame == Head(chan[Peer(e)])
     IN  \/ frame = "msg" /\ UNCHANGED <<life, goaway, error, misread, closed>>
         \/ /\ frame = "done"
            /\ Misread(e, "receive_message")
            /\ UNCHANGED <<life, goaway, error, closed>>
         \/ /\ frame = "goaway" /\ ~goaway[e].received
            /\ goaway' = [goaway EXCEPT ![e].received = TRUE]
            /\ UNCHANGED <<life, error, misread, closed>>
         \/ /\ frame \in {"FIN", "FIN-goaway"} /\ ~life[e].recvReq
            /\ life' = [life EXCEPT ![e].recv = "finished"]
            /\ UNCHANGED <<goaway, error, misread, closed>>
         \/ /\ frame \in {"FIN", "FIN-goaway"} /\ life[e].recvReq
            /\ Fail(e, "PrematureFin")
            /\ UNCHANGED <<life, goaway, misread, closed>>
         \/ /\ frame = "RESET"
            /\ Fail(e, "Transport")
            /\ UNCHANGED <<life, goaway, misread, closed>>
         \/ /\ frame = "goaway" /\ goaway[e].received
            /\ closed' = "ProtocolViolation"
            /\ UNCHANGED <<life, goaway, error, misread>>

\* receive_publish_done reads with receive_message, so that a GOAWAY counts and a
\* FIN ends the direction, and then refuses anything but a PUBLISH_DONE.
ReceivePublishDone(e) ==
  /\ TakeFrame(e)
  /\ LET frame == Head(chan[Peer(e)])
     IN  \/ /\ frame = "done" /\ life[e].first /\ PublishesTrack(Peer(e)) /\ life[e].recvReq
            /\ life' = [life EXCEPT ![e].recvReq = FALSE]
            /\ UNCHANGED <<goaway, error, misread, closed>>
         \/ /\ frame = "done" /\ ~(life[e].first /\ PublishesTrack(Peer(e)) /\ life[e].recvReq)
            /\ Fail(e, "InvalidTransition")
            /\ UNCHANGED <<life, goaway, misread, closed>>
         \/ /\ frame = "msg"
            /\ Fail(e, "InvalidTransition") /\ Misread(e, "receive_publish_done")
            /\ UNCHANGED <<life, goaway, closed>>
         \/ /\ frame = "goaway" /\ ~goaway[e].received
            /\ goaway' = [goaway EXCEPT ![e].received = TRUE]
            /\ Fail(e, "InvalidTransition") /\ Misread(e, "receive_publish_done")
            /\ UNCHANGED <<life, closed>>
         \/ /\ frame \in {"FIN", "FIN-goaway"} /\ ~life[e].recvReq
            /\ life' = [life EXCEPT ![e].recv = "finished"]
            /\ Fail(e, "PrematureFin") /\ Misread(e, "receive_publish_done")
            /\ UNCHANGED <<goaway, closed>>
         \/ /\ frame \in {"FIN", "FIN-goaway"} /\ life[e].recvReq
            /\ Fail(e, "PrematureFin")
            /\ UNCHANGED <<life, goaway, misread, closed>>
         \/ /\ frame = "RESET"
            /\ Fail(e, "Transport")
            /\ UNCHANGED <<life, goaway, misread, closed>>
         \/ /\ frame = "goaway" /\ goaway[e].received
            /\ closed' = "ProtocolViolation"
            /\ UNCHANGED <<life, goaway, error, misread>>

FinishSending(e) ==
  /\ Writes(e) /\ ~life[e].sendReq
  /\ life' = [life EXCEPT ![e].send = "finished"]
  /\ SendFrame(e, "FIN")
  /\ UNCHANGED <<requestKind, client, goaway, error, misread, ctlVars, closed>>

SendGoAway(e) ==
  /\ Writes(e) /\ ~goaway[e].sent
  /\ goaway' = [goaway EXCEPT ![e].sent = TRUE]
  /\ SendFrame(e, "goaway")
  /\ UNCHANGED <<requestKind, client, life, error, misread, ctlVars, closed>>

\* finish_after_goaway: what was owed is owed no more.
FinishAfterGoAway(e) ==
  /\ Writes(e) /\ (goaway[e].sent \/ goaway[e].received)
  /\ life' = [life EXCEPT ![e].send = "finished", ![e].sendReq = FALSE]
  /\ SendFrame(e, "FIN-goaway")
  /\ UNCHANGED <<requestKind, client, goaway, error, misread, ctlVars, closed>>

\* enforce_goaway_timeout
GoAwayTimeout(e) ==
  /\ Writes(e) /\ goaway[e].sent
  /\ life' = [life EXCEPT ![e].send = "reset"]
  /\ SendFrame(e, "RESET")
  /\ UNCHANGED <<requestKind, client, goaway, error, misread, ctlVars, closed>>

\* cancel: whatever is open is reset and stopped, unless neither is, or the
\* direction that still runs has already been broken off.
CancelRequest(e) ==
  /\ SessionOpen
  /\ <<life[e].send, life[e].recv>> \in {<<"open", "open">>, <<"finished", "open">>, <<"open", "finished">>}
  /\ life' = [life EXCEPT ![e].send = IF @ = "open" THEN "reset" ELSE @,
                          ![e].recv = IF @ = "open" THEN "stopped" ELSE @]
  /\ IF life[e].send = "open" THEN SendFrame(e, "RESET") ELSE UNCHANGED chan
  /\ UNCHANGED <<requestKind, client, goaway, error, misread, ctlVars, closed>>

Draft19Next ==
  \/ OpenRequest \/ AcceptRequest \/ ReceiveFirstResponse
  \/ \E response \in {"ok", "error"} : SendFirstResponse(response)
  \/ \E e \in Ends :
       \/ SendSetup(e) \/ ReceiveSetup(e) \/ ReceiveControl(e)
       \/ ControlTimeout(e) \/ CloseAfterGoAway(e)
       \/ SendMessage(e) \/ SendPublishDone(e) \/ ReceiveMessage(e) \/ ReceivePublishDone(e)
       \/ FinishSending(e)
       \/ FinishAfterGoAway(e) \/ GoAwayTimeout(e) \/ CancelRequest(e)
       \/ SendControlGoAway(e) \/ SendGoAway(e)

Draft19Spec == Draft19Init /\ [][Draft19Next]_draft19Vars

-----------------------------------------------------------------------------
(* The two accounts agree.  No order of calls that each end accepts makes the *)
(* other close the session.  A PUBLISH_DONE that is read as one is never      *)
(* refused: an end is told of an invalid transition only for a frame that its *)
(* own receive_publish_done was not for.  A direction that ends too early for *)
(* its receiver was cut short by a GOAWAY, or the receiver itself has read a  *)
(* frame with the wrong call; and one that ended in order for its receiver    *)
(* was ended by its sender, and neither holds that anything is owed           *)
(* (profile/draft19.rs:575-650, session/draft19.rs:304-430).                  *)
AccountsAgree ==
  /\ closed # "ProtocolViolation"
  /\ \A e \in Ends :
       /\ error[e] = "InvalidTransition" => "receive_publish_done" \in misread[e]
       /\ error[e] = "PrematureFin" =>
            \/ misread[e] # {}
            \/ life[Peer(e)].send = "finished" /\ (goaway[Peer(e)].sent \/ goaway[Peer(e)].received)
       /\ life[e].recv = "finished" =>
            life[Peer(e)].send = "finished" /\ ~life[Peer(e)].sendReq /\ ~life[e].recvReq

=============================================================================
