---------------------------- MODULE RelayProofs ----------------------------
(* What is proved of the relay, for every case and any number of            *)
(* connections, requests, registrations, namespaces, callers and followers: *)
(* the file that relays share and the key of moq-api (Coordinators), the    *)
(* drain (Drain), the requests of a session (RelaySession), the registry of *)
(* namespaces (LocalNamespaces), that of tracks (LocalTracks) and what is   *)
(* retained for FETCH (FetchRetention); and of the draft-19 profile that    *)
(* the relay speaks to its clients, the request and control streams         *)
(* (Draft19).                                                               *)
EXTENDS MCLocal, Drain, RelaySession, Coordinators, Draft19, FetchRetention, FiniteSetTheorems,
        SequenceTheorems, WellFoundedInduction, TLAPS

\* Appending to a sequence of one.
LEMMA AppendToOne == ASSUME NEW a, NEW b PROVE Append(<<a>>, b) = <<a, b>>
<1>1. <<a>> \in Seq({a, b}) /\ <<a, b>> \in Seq({a, b}) /\ Append(<<a>>, b) \in Seq({a, b})
  OBVIOUS
<1>2. Len(<<a>>) = 1 /\ Len(<<a, b>>) = 2 /\ Len(Append(<<a>>, b)) = 2
  BY <1>1
<1>3. Append(<<a>>, b)[1] = a /\ Append(<<a>>, b)[2] = b
  BY <1>1, <1>2
<1>4. \A i \in 1 .. 2 : Append(<<a>>, b)[i] = <<a, b>>[i]
  BY <1>3
<1>5. QED
  BY <1>1, <1>2, <1>4, SeqEqual

-----------------------------------------------------------------------------
(* The request streams of draft-19                                         *)

\* The frames that answer a request, those that settle what a direction owes, and those that end it.
Answers == {"ok", "error"}
Settling == {"error", "done"} \cup (IF requestKind = "Subscribe" THEN {} ELSE {"ok"})
FinFrames == {"FIN", "FIN-goaway"}
RequestFrames == {"request", "ok", "error", "goaway", "done", "msg", "FIN", "FIN-goaway", "RESET"}

Has(s, F) == \E i \in 1 .. Len(s) : s[i] \in F
Once(s, F) == \A i, j \in 1 .. Len(s) : s[i] \in F /\ s[j] \in F => i = j

\* A FIN comes when nothing is owed, a DONE when it is, and a message after the answer.
FinSettled(s, F, owed) ==
  \A i \in 1 .. Len(s) : s[i] = "FIN" => ~owed \/ \E j \in 1 .. (i - 1) : s[j] \in F
DoneOwed(s, F, owed) ==
  \A i \in 1 .. Len(s) : s[i] = "done" => owed /\ \A j \in 1 .. (i - 1) : s[j] \notin F
AnswerFirst(s, answered) ==
  \A i \in 1 .. Len(s) : s[i] \in {"msg", "done"} => answered \/ \E j \in 1 .. (i - 1) : s[j] \in Answers

\* A frame is put at the end of a direction.
LEMMA FrameSent ==
  ASSUME NEW T, NEW s \in Seq(T), NEW f \in T
  PROVE  LET t == Append(s, f)
         IN  /\ t \in Seq(T)
             /\ \A F : Has(t, F) <=> Has(s, F) \/ f \in F
             /\ \A F : Once(s, F) /\ ~(f \in F /\ Has(s, F)) => Once(t, F)
             /\ \A F, o : FinSettled(s, F, o) /\ (f = "FIN" => ~o \/ Has(s, F)) => FinSettled(t, F, o)
             /\ \A F, o : DoneOwed(s, F, o) /\ (f = "done" => o /\ ~Has(s, F)) => DoneOwed(t, F, o)
             /\ \A o : AnswerFirst(s, o) /\ (f \in {"msg", "done"} => o \/ Has(s, Answers)) => AnswerFirst(t, o)
<1> DEFINE t == Append(s, f)
           n == Len(s)
<1>1. n \in Nat /\ t \in Seq(T) /\ Len(t) = n + 1 /\ t[n + 1] = f /\ \A i \in 1 .. n : t[i] = s[i]
  OBVIOUS
<1> HIDE DEF t
<1>2. \A i \in 1 .. n + 1 : i = n + 1 \/ i \in 1 .. n
  BY <1>1
<1>3. \A i \in 1 .. n + 1 : \A j \in 1 .. (i - 1) : j \in 1 .. n /\ t[j] = s[j]
  BY <1>1
<1>4. ASSUME NEW F PROVE Has(t, F) <=> Has(s, F) \/ f \in F
  BY <1>1, <1>2 DEF Has
<1>5. ASSUME NEW F, Once(s, F), ~(f \in F /\ Has(s, F)) PROVE Once(t, F)
  BY <1>1, <1>2, <1>5 DEF Once, Has
<1>6. ASSUME NEW F, NEW o, FinSettled(s, F, o), f = "FIN" => ~o \/ Has(s, F) PROVE FinSettled(t, F, o)
  <2> SUFFICES ASSUME NEW i \in 1 .. n + 1, t[i] = "FIN", o PROVE \E j \in 1 .. (i - 1) : t[j] \in F
    BY <1>1 DEF FinSettled
  <2>1. CASE i \in 1 .. n
    BY <1>1, <1>3, <1>6, <2>1 DEF FinSettled
  <2>2. CASE i = n + 1
    <3>1. PICK j \in 1 .. n : s[j] \in F
      BY <1>1, <1>6, <2>2 DEF Has
    <3>2. j \in 1 .. (i - 1) /\ t[j] \in F
      BY <1>1, <2>2, <3>1
    <3>3. QED
      BY <3>2
  <2>3. QED
    BY <1>2, <2>1, <2>2
<1>7. ASSUME NEW F, NEW o, DoneOwed(s, F, o), f = "done" => o /\ ~Has(s, F) PROVE DoneOwed(t, F, o)
  <2> SUFFICES ASSUME NEW i \in 1 .. n + 1, t[i] = "done" PROVE o /\ \A j \in 1 .. (i - 1) : t[j] \notin F
    BY <1>1 DEF DoneOwed
  <2>1. CASE i \in 1 .. n
    BY <1>1, <1>3, <1>7, <2>1 DEF DoneOwed
  <2>2. CASE i = n + 1
    BY <1>1, <1>3, <1>7, <2>2 DEF Has
  <2>3. QED
    BY <1>2, <2>1, <2>2
<1>8. ASSUME NEW o, AnswerFirst(s, o), f \in {"msg", "done"} => o \/ Has(s, Answers) PROVE AnswerFirst(t, o)
  <2> SUFFICES ASSUME NEW i \in 1 .. n + 1, t[i] \in {"msg", "done"}, ~o PROVE \E j \in 1 .. (i - 1) : t[j] \in Answers
    BY <1>1 DEF AnswerFirst
  <2>1. CASE i \in 1 .. n
    BY <1>1, <1>3, <1>8, <2>1 DEF AnswerFirst
  <2>2. CASE i = n + 1
    <3>1. PICK j \in 1 .. n : s[j] \in Answers
      BY <1>1, <1>8, <2>2 DEF Has
    <3>2. j \in 1 .. (i - 1) /\ t[j] \in Answers
      BY <1>1, <2>2, <3>1
    <3>3. QED
      BY <3>2
  <2>3. QED
    BY <1>2, <2>1, <2>2
<1>9. QED
  BY <1>1, <1>4, <1>5, <1>6, <1>7, <1>8 DEF t

\* The first frame of a direction is read.
LEMMA FrameRead ==
  ASSUME NEW T, NEW s \in Seq(T), s # <<>>
  PROVE  LET t == Tail(s)
             f == Head(s)
         IN  /\ t \in Seq(T) /\ f \in T
             /\ \A F : Has(s, F) <=> f \in F \/ Has(t, F)
             /\ \A F : Once(s, F) => Once(t, F) /\ ~(f \in F /\ Has(t, F))
             /\ \A F, o : FinSettled(s, F, o) => FinSettled(t, F, o /\ f \notin F) /\ (f = "FIN" => ~o)
             /\ \A F, o : DoneOwed(s, F, o) => DoneOwed(t, F, o /\ f \notin F) /\ (f = "done" => o)
             /\ \A o : AnswerFirst(s, o) =>
                  AnswerFirst(t, o \/ f \in Answers) /\ (f \in {"msg", "done"} => o)
<1> DEFINE t == Tail(s)
           f == Head(s)
           n == Len(t)
<1>1. n \in Nat /\ t \in Seq(T) /\ Len(s) = n + 1 /\ s[1] = f /\ f \in T /\ \A i \in 1 .. n : t[i] = s[i + 1]
  BY HeadTailProperties
<1> HIDE DEF t, f, n
<1>2. 1 \in 1 .. n + 1 /\ \A i \in 1 .. n + 1 : i = 1 \/ (i - 1 \in 1 .. n /\ s[i] = t[i - 1])
  BY <1>1
<1>3. \A i \in 1 .. n : i + 1 \in 1 .. n + 1 /\ s[i + 1] = t[i] /\ (i + 1) - 1 = i
  BY <1>1
<1>4. ASSUME NEW F PROVE Has(s, F) <=> f \in F \/ Has(t, F)
  BY <1>1, <1>2, <1>3 DEF Has, n
<1>5. ASSUME NEW F, Once(s, F) PROVE Once(t, F) /\ ~(f \in F /\ Has(t, F))
  <2>1. \A i, j \in 1 .. n : t[i] \in F /\ t[j] \in F => i = j
    <3> SUFFICES ASSUME NEW i \in 1 .. n, NEW j \in 1 .. n, t[i] \in F, t[j] \in F PROVE i = j
      OBVIOUS
    <3>1. i + 1 = j + 1
      BY <1>1, <1>3, <1>5 DEF Once
    <3>2. QED
      BY <3>1, <1>1
  <2>2. ASSUME f \in F, NEW i \in 1 .. n, t[i] \in F PROVE FALSE
    <3>1. i + 1 = 1
      BY <1>1, <1>2, <1>3, <1>5, <2>2 DEF Once
    <3>2. QED
      BY <1>1, <3>1
  <2>3. QED
    BY <2>1, <2>2 DEF Once, Has, n
<1>6. ASSUME NEW F, NEW o, FinSettled(s, F, o) PROVE FinSettled(t, F, o /\ f \notin F) /\ (f = "FIN" => ~o)
  <2>1. f = "FIN" => ~o
    BY <1>1, <1>2, <1>6 DEF FinSettled
  <2>2. ASSUME NEW i \in 1 .. n, t[i] = "FIN", o, f \notin F PROVE \E j \in 1 .. (i - 1) : t[j] \in F
    <3>1. PICK j \in 1 .. i : s[j] \in F
      BY <1>1, <1>3, <1>6, <2>2 DEF FinSettled
    <3>2. j # 1
      BY <1>1, <2>2, <3>1
    <3>3. j - 1 \in 1 .. (i - 1) /\ t[j - 1] \in F
      BY <1>1, <1>2, <3>1, <3>2
    <3>4. QED
      BY <3>3
  <2>3. QED
    BY <2>1, <2>2 DEF FinSettled, n
<1>7. ASSUME NEW F, NEW o, DoneOwed(s, F, o) PROVE DoneOwed(t, F, o /\ f \notin F) /\ (f = "done" => o)
  <2>1. f = "done" => o
    BY <1>1, <1>2, <1>7 DEF DoneOwed
  <2>2. ASSUME NEW i \in 1 .. n, t[i] = "done" PROVE o /\ f \notin F /\ \A j \in 1 .. (i - 1) : t[j] \notin F
    <3>1. o /\ \A j \in 1 .. i : s[j] \notin F
      BY <1>1, <1>3, <1>7, <2>2 DEF DoneOwed
    <3>2. 1 \in 1 .. i /\ \A j \in 1 .. (i - 1) : j \in 1 .. n /\ j + 1 \in 1 .. i
      BY <1>1
    <3>3. QED
      BY <1>1, <1>3, <3>1, <3>2
  <2>3. QED
    BY <2>1, <2>2 DEF DoneOwed, n
<1>8. ASSUME NEW o, AnswerFirst(s, o)
      PROVE  AnswerFirst(t, o \/ f \in Answers) /\ (f \in {"msg", "done"} => o)
  <2>1. f \in {"msg", "done"} => o
    BY <1>1, <1>2, <1>8 DEF AnswerFirst
  <2>2. ASSUME NEW i \in 1 .. n, t[i] \in {"msg", "done"}, ~o, f \notin Answers
        PROVE \E j \in 1 .. (i - 1) : t[j] \in Answers
    <3>1. PICK j \in 1 .. i : s[j] \in Answers
      BY <1>1, <1>3, <1>8, <2>2 DEF AnswerFirst
    <3>2. j # 1
      BY <1>1, <2>2, <3>1
    <3>3. j - 1 \in 1 .. (i - 1) /\ t[j - 1] \in Answers
      BY <1>1, <1>2, <3>1, <3>2
    <3>4. QED
      BY <3>3
  <2>3. QED
    BY <2>1, <2>2 DEF AnswerFirst, n
<1>9. QED
  BY <1>1, <1>4, <1>5, <1>6, <1>7, <1>8 DEF t, f

\* What an end is still to be sent before its peer may end the direction: a DONE that
\* receive_message has handed out is no longer to come, whatever the end's account says.
Owed(e) ==
  IF life[e] = NoLife THEN e = "requester" \/ requestKind = "Publish"
  ELSE life[e].recvReq /\ "receive_message" \notin misread[e]

\* What a direction carries fits the accounts of both its ends.
FrameInv(p) ==
  LET s == chan[p]
      owed == Owed(Peer(p))
  IN  /\ FinSettled(s, Settling, owed) /\ DoneOwed(s, Settling, owed)
      /\ Has(s, {"done"}) => PublishesTrack(p)
      /\ life[p].sendReq => owed /\ ~Has(s, Settling)
      /\ life[p].send = "open" /\ ~life[p].sendReq => ~owed \/ Has(s, Settling)
      /\ Has(s, FinFrames) => life[p].send = "finished"
      /\ Has(s, {"FIN-goaway"}) => goaway[p].sent \/ goaway[p].received
      /\ Once(s, {"goaway"}) /\ (Has(s, {"goaway"}) => goaway[p].sent /\ ~goaway[Peer(p)].received)

\* The account of an end, and what it was told.
EndInv(p) ==
  /\ life[p].send = "none" => life[p] = NoLife
  /\ life[p].send = "finished" => ~life[p].sendReq
  /\ life[p].recv = "finished" => ~life[p].recvReq /\ life[Peer(p)].send = "finished"
  /\ life[p] = NoLife => misread[p] = {}
  /\ goaway[Peer(p)].received => goaway[p].sent
  /\ error[p] = "InvalidTransition" => "receive_publish_done" \in misread[p]
  /\ error[p] = "PrematureFin" =>
       \/ misread[p] # {}
       \/ life[Peer(p)].send = "finished" /\ (goaway[Peer(p)].sent \/ goaway[Peer(p)].received)

\* The request is answered once, and nothing of the request goes on before.
AnswerInv ==
  LET q == life["requester"]
      r == life["responder"]
  IN  /\ q.send = "none" => r.send = "none" /\ chan["requester"] = <<>>
      /\ r.send = "none" => chan["responder"] = <<>>
      /\ q.first => r.first
      /\ r.first => q.first \/ Has(chan["responder"], Answers)
      /\ ~q.first => Owed("requester")
      /\ ~Has(chan["requester"], Answers)
      /\ Has(chan["requester"], {"done"}) => r.first
      /\ Once(chan["responder"], Answers) /\ AnswerFirst(chan["responder"], q.first)
      /\ Has(chan["responder"], Answers) => ~q.first /\ r.first

\* A control stream carries the setup and a GOAWAY, each once.
ControlInv(p) ==
  LET e == Peer(p)
  IN  /\ control[e].setupReceived => control[p].setupSent
      /\ control[e].received => control[p].sent /\ control[e].setupReceived
      /\ control[p].sent => control[p].setupSent
      /\ ctlChan[p] = (IF control[p].setupSent /\ ~control[e].setupReceived THEN <<"setup">> ELSE <<>>)
                      \o (IF control[p].sent /\ ~control[e].received
                          THEN <<IF p = client THEN "goaway" ELSE "goaway-uri">> ELSE <<>>)

Account == [first : BOOLEAN, sendReq : BOOLEAN, recvReq : BOOLEAN,
            send : {"none", "open", "finished", "reset"}, recv : {"none", "open", "finished", "stopped"}]
GoAways == [sent : BOOLEAN, received : BOOLEAN]
ControlAccount == [setupSent : BOOLEAN, setupReceived : BOOLEAN, sent : BOOLEAN, received : BOOLEAN]
RequestTypes ==
  /\ life \in [Ends -> Account] /\ goaway \in [Ends -> GoAways]
  /\ chan \in [Ends -> Seq(RequestFrames)] /\ error \in [Ends -> Draft19Error]
  /\ misread \in [Ends -> SUBSET ReadCalls]
ControlTypes == control \in [Ends -> ControlAccount] /\ ctlChan \in [Ends -> Seq({"setup", "goaway", "goaway-uri"})]

\* The inductive invariant.
AccountsInv ==
  /\ RequestTypes /\ ControlTypes /\ client \in Ends
  /\ closed \in SessionErrorCode /\ closed # "ProtocolViolation"
  /\ \A e \in Ends : FrameInv(e) /\ EndInv(e) /\ ControlInv(e)
  /\ AnswerInv

\* The two ends.
LEMMA TheTwoEnds ==
  /\ \A e \in Ends : Peer(e) \in Ends /\ Peer(Peer(e)) = e /\ Peer(e) # e
  /\ \A e, x \in Ends : x = e \/ x = Peer(e)
  /\ "requester" \in Ends /\ "responder" \in Ends
  /\ Peer("requester") = "responder" /\ Peer("responder") = "requester"
  BY DEF Peer, Ends

\* What the invariant says of the accounts.
LEMMA AccountsOf == ASSUME AccountsInv PROVE AccountsAgree
<1>1. ASSUME NEW e \in Ends
      PROVE  /\ error[e] = "InvalidTransition" => "receive_publish_done" \in misread[e]
             /\ error[e] = "PrematureFin" =>
                  \/ misread[e] # {}
                  \/ life[Peer(e)].send = "finished" /\ (goaway[Peer(e)].sent \/ goaway[Peer(e)].received)
             /\ life[e].recv = "finished" =>
                  life[Peer(e)].send = "finished" /\ ~life[Peer(e)].sendReq /\ ~life[e].recvReq
  BY TheTwoEnds DEF AccountsInv, EndInv
<1>2. QED
  BY <1>1 DEF AccountsInv, AccountsAgree

\* The accounts of a session that begins.
LEMMA AccountsBegin == ASSUME Draft19Init PROVE AccountsInv
<1>1. PICK k \in RequestKinds, c \in Ends : Start(k, c)
  BY DEF Draft19Init
<1>2. /\ \A e \in Ends : /\ life[e] = NoLife /\ goaway[e] = NoGoAway /\ chan[e] = <<>> /\ error[e] = "none"
                         /\ misread[e] = {} /\ control[e] = NewControl /\ ctlChan[e] = <<>>
      /\ closed = "open"
  BY <1>1 DEF Start
<1>3. RequestTypes /\ ControlTypes
  <2>1. NoLife \in Account /\ NoGoAway \in GoAways /\ NewControl \in ControlAccount /\ "none" \in Draft19Error
        /\ {} \in SUBSET ReadCalls
    BY DEF NoLife, Account, NoGoAway, GoAways, NewControl, ControlAccount, Draft19Error
  <2>2. QED
    BY <1>1, <2>1 DEF Start, RequestTypes, ControlTypes
<1>4. \A F, o : ~Has(<<>>, F) /\ Once(<<>>, F) /\ FinSettled(<<>>, F, o) /\ DoneOwed(<<>>, F, o) /\ AnswerFirst(<<>>, o)
  BY DEF Has, Once, FinSettled, DoneOwed, AnswerFirst
<1>5. ASSUME NEW e \in Ends PROVE FrameInv(e) /\ EndInv(e)
  <2>1. /\ life[e].send = "none" /\ life[e].recv = "none" /\ ~life[e].sendReq /\ ~life[e].recvReq
        /\ ~goaway[e].sent /\ ~goaway[e].received /\ ~goaway[Peer(e)].received
    BY <1>2, TheTwoEnds DEF NoLife, NoGoAway
  <2>2. chan[e] = <<>> /\ error[e] = "none" /\ life[e] = NoLife /\ misread[e] = {}
    BY <1>2
  <2>3. FrameInv(e)
    BY <1>4, <2>1, <2>2 DEF FrameInv
  <2>4. EndInv(e)
    BY <2>1, <2>2 DEF EndInv
  <2>5. QED
    BY <2>3, <2>4
<1>6. ASSUME NEW e \in Ends PROVE ControlInv(e)
  <2>1. <<>> \o <<>> = <<>>
    OBVIOUS
  <2>2. \A x \in Ends : /\ ~control[x].setupSent /\ ~control[x].setupReceived /\ ~control[x].sent
                        /\ ~control[x].received /\ ctlChan[x] = <<>>
    BY <1>2 DEF NewControl
  <2>3. QED
    BY <2>1, <2>2, TheTwoEnds DEF ControlInv
<1>7. AnswerInv
  <2>1. /\ \A e \in Ends : ~life[e].first /\ chan[e] = <<>> /\ life[e].send = "none"
        /\ Owed("requester")
    BY <1>2, TheTwoEnds DEF NoLife, Owed
  <2>2. QED
    BY <1>4, <2>1, TheTwoEnds DEF AnswerInv
<1>8. client \in Ends
  BY <1>1 DEF Start
<1>9. QED
  BY <1>2, <1>3, <1>5, <1>6, <1>7, <1>8 DEF AccountsInv, SessionErrorCode

\* A direction that carries the same for the same accounts.
LEMMA FramesKept ==
  ASSUME NEW p \in Ends, FrameInv(p), requestKind' = requestKind, chan'[p] = chan[p],
         Owed(Peer(p))' = Owed(Peer(p)), life'[p].sendReq = life[p].sendReq,
         life'[p].send = life[p].send \/ (life[p].send = "open" /\ life'[p].send = "reset"),
         goaway[p].sent => goaway'[p].sent, goaway[p].received => goaway'[p].received,
         goaway'[Peer(p)].received => goaway[Peer(p)].received
  PROVE  FrameInv(p)'
<1> DEFINE s == chan[p]
           o == Owed(Peer(p))
<1>1. chan'[p] = s /\ Owed(Peer(p))' = o /\ Settling' = Settling /\ PublishesTrack(p)' = PublishesTrack(p)
  BY DEF Settling, PublishesTrack
<1>2. /\ FinSettled(s, Settling, o) /\ DoneOwed(s, Settling, o) /\ (Has(s, {"done"}) => PublishesTrack(p))
      /\ life[p].sendReq => o /\ ~Has(s, Settling)
      /\ life[p].send = "open" /\ ~life[p].sendReq => ~o \/ Has(s, Settling)
      /\ Has(s, FinFrames) => life[p].send = "finished"
      /\ Has(s, {"FIN-goaway"}) => goaway[p].sent \/ goaway[p].received
      /\ Once(s, {"goaway"}) /\ (Has(s, {"goaway"}) => goaway[p].sent /\ ~goaway[Peer(p)].received)
  BY DEF FrameInv
<1> HIDE DEF s, o
<1>3. /\ life'[p].sendReq => o /\ ~Has(s, Settling)
      /\ life'[p].send = "open" /\ ~life'[p].sendReq => ~o \/ Has(s, Settling)
      /\ Has(s, FinFrames) => life'[p].send = "finished"
      /\ Has(s, {"FIN-goaway"}) => goaway'[p].sent \/ goaway'[p].received
      /\ Has(s, {"goaway"}) => goaway'[p].sent /\ ~goaway'[Peer(p)].received
  BY <1>2
<1>4. QED
  BY <1>1, <1>2, <1>3 DEF FrameInv

\* A frame is sent.
LEMMA FramesSent ==
  ASSUME NEW p \in Ends, NEW f \in RequestFrames, RequestTypes, FrameInv(p), requestKind' = requestKind,
         chan'[p] = Append(chan[p], f), Owed(Peer(p))' = Owed(Peer(p)),
         life[p].send \in {"none", "open"}, f \in FinFrames => life'[p].send = "finished",
         f = "FIN" => ~Owed(Peer(p)) \/ Has(chan[p], Settling),
         f = "done" => PublishesTrack(p) /\ Owed(Peer(p)) /\ ~Has(chan[p], Settling),
         life'[p].sendReq => Owed(Peer(p)) /\ ~Has(chan[p], Settling) /\ f \notin Settling,
         life'[p].send = "open" /\ ~life'[p].sendReq =>
           ~Owed(Peer(p)) \/ Has(chan[p], Settling) \/ f \in Settling,
         f = "FIN-goaway" => goaway[p].sent \/ goaway[p].received,
         goaway[Peer(p)].received => goaway[p].sent,
         f = "goaway" => ~goaway[p].sent /\ goaway'[p].sent,
         goaway[p].sent => goaway'[p].sent, goaway[p].received => goaway'[p].received,
         goaway'[Peer(p)].received => goaway[Peer(p)].received
  PROVE  FrameInv(p)'
<1> DEFINE s == chan[p]
           t == Append(s, f)
           o == Owed(Peer(p))
<1>1. /\ chan'[p] = t /\ Owed(Peer(p))' = o /\ Settling' = Settling /\ PublishesTrack(p)' = PublishesTrack(p)
      /\ s \in Seq(RequestFrames)
  BY DEF Settling, PublishesTrack, RequestTypes
<1>2. /\ FinSettled(s, Settling, o) /\ DoneOwed(s, Settling, o) /\ (Has(s, {"done"}) => PublishesTrack(p))
      /\ Has(s, FinFrames) => life[p].send = "finished"
      /\ Has(s, {"FIN-goaway"}) => goaway[p].sent \/ goaway[p].received
      /\ Once(s, {"goaway"}) /\ (Has(s, {"goaway"}) => goaway[p].sent /\ ~goaway[Peer(p)].received)
  BY DEF FrameInv
<1>3. /\ \A F : Has(t, F) <=> Has(s, F) \/ f \in F
      /\ \A F : Once(s, F) /\ ~(f \in F /\ Has(s, F)) => Once(t, F)
      /\ FinSettled(s, Settling, o) /\ (f = "FIN" => ~o \/ Has(s, Settling)) => FinSettled(t, Settling, o)
      /\ DoneOwed(s, Settling, o) /\ (f = "done" => o /\ ~Has(s, Settling)) => DoneOwed(t, Settling, o)
  BY <1>1, FrameSent
<1>4. /\ f = "FIN" => ~o \/ Has(s, Settling)
      /\ f = "done" => PublishesTrack(p) /\ o /\ ~Has(s, Settling)
      /\ life'[p].sendReq => o /\ ~Has(s, Settling) /\ f \notin Settling
      /\ life'[p].send = "open" /\ ~life'[p].sendReq => ~o \/ Has(s, Settling) \/ f \in Settling
  OBVIOUS
<1> HIDE DEF s, t, o
<1>5. /\ FinSettled(t, Settling, o) /\ DoneOwed(t, Settling, o) /\ (Has(t, {"done"}) => PublishesTrack(p))
      /\ life'[p].sendReq => o /\ ~Has(t, Settling)
      /\ life'[p].send = "open" /\ ~life'[p].sendReq => ~o \/ Has(t, Settling)
  BY <1>2, <1>3, <1>4
<1>6. /\ Has(t, FinFrames) => life'[p].send = "finished"
      /\ Has(t, {"FIN-goaway"}) => goaway'[p].sent \/ goaway'[p].received
      /\ Once(t, {"goaway"}) /\ (Has(t, {"goaway"}) => goaway'[p].sent /\ ~goaway'[Peer(p)].received)
  BY <1>2, <1>3
<1>7. QED
  BY <1>1, <1>5, <1>6 DEF FrameInv

\* A frame is read.
LEMMA FramesRead ==
  ASSUME NEW p \in Ends, NEW f, RequestTypes, FrameInv(p), requestKind' = requestKind,
         chan[p] # <<>>, f = Head(chan[p]), chan'[p] = Tail(chan[p]),
         Owed(Peer(p))' = (Owed(Peer(p)) /\ f \notin Settling),
         life'[p] = life[p], goaway'[p] = goaway[p],
         goaway'[Peer(p)].received => goaway[Peer(p)].received \/ f = "goaway"
  PROVE  FrameInv(p)'
<1> DEFINE s == chan[p]
           t == Tail(s)
           o == Owed(Peer(p))
<1>1. /\ chan'[p] = t /\ Owed(Peer(p))' = (o /\ f \notin Settling) /\ Settling' = Settling
      /\ PublishesTrack(p)' = PublishesTrack(p) /\ s \in Seq(RequestFrames) /\ s # <<>> /\ f = Head(s)
  BY DEF Settling, PublishesTrack, RequestTypes
<1>2. /\ FinSettled(s, Settling, o) /\ DoneOwed(s, Settling, o) /\ (Has(s, {"done"}) => PublishesTrack(p))
      /\ life[p].sendReq => o /\ ~Has(s, Settling)
      /\ life[p].send = "open" /\ ~life[p].sendReq => ~o \/ Has(s, Settling)
      /\ Has(s, FinFrames) => life[p].send = "finished"
      /\ Has(s, {"FIN-goaway"}) => goaway[p].sent \/ goaway[p].received
      /\ Once(s, {"goaway"}) /\ (Has(s, {"goaway"}) => goaway[p].sent /\ ~goaway[Peer(p)].received)
  BY DEF FrameInv
<1>3. /\ \A F : Has(s, F) <=> f \in F \/ Has(t, F)
      /\ \A F : Once(s, F) => Once(t, F) /\ ~(f \in F /\ Has(t, F))
      /\ FinSettled(s, Settling, o) => FinSettled(t, Settling, o /\ f \notin Settling)
      /\ DoneOwed(s, Settling, o) => DoneOwed(t, Settling, o /\ f \notin Settling)
  BY <1>1, FrameRead
<1> HIDE DEF s, t, o
<1>4. /\ FinSettled(t, Settling, o /\ f \notin Settling) /\ DoneOwed(t, Settling, o /\ f \notin Settling)
      /\ Has(t, {"done"}) => PublishesTrack(p)
      /\ life[p].sendReq => (o /\ f \notin Settling) /\ ~Has(t, Settling)
      /\ life[p].send = "open" /\ ~life[p].sendReq => ~(o /\ f \notin Settling) \/ Has(t, Settling)
  BY <1>2, <1>3
<1>5. /\ Has(t, FinFrames) => life[p].send = "finished"
      /\ Has(t, {"FIN-goaway"}) => goaway[p].sent \/ goaway[p].received
      /\ Once(t, {"goaway"}) /\ (Has(t, {"goaway"}) => goaway[p].sent /\ ~goaway'[Peer(p)].received)
  BY <1>2, <1>3
<1>6. QED
  BY <1>1, <1>4, <1>5 DEF FrameInv

\* The part of the invariant that is about the request stream.
RequestInv19 == RequestTypes /\ AnswerInv /\ \A e \in Ends : FrameInv(e) /\ EndInv(e)

\* A call of an end that writes a frame to the request stream.
Writing(p, f) ==
  /\ life[p].send = "open" /\ requestKind' = requestKind /\ error' = error /\ misread' = misread
  /\ chan' = [chan EXCEPT ![p] = Append(chan[p], f)]
  /\ life' \in [Ends -> Account] /\ life'[Peer(p)] = life[Peer(p)]
  /\ life'[p].first = (life[p].first \/ f \in Answers)
  /\ life'[p].recvReq = life[p].recvReq /\ life'[p].send # "none"
  /\ life'[p].recv = life[p].recv \/ life'[p].recv = "stopped"
  /\ f \in FinFrames <=> life'[p].send = "finished"
  /\ life'[p].sendReq => life[p].sendReq /\ f \notin Settling \cup FinFrames
  /\ life[p].sendReq /\ ~life'[p].sendReq => f \in Settling \cup {"FIN-goaway"}
  /\ goaway' \in [Ends -> GoAways] /\ goaway'[Peer(p)] = goaway[Peer(p)]
  /\ goaway'[p].received = goaway[p].received /\ goaway'[p].sent = (goaway[p].sent \/ f = "goaway")
  /\ f = "goaway" => ~goaway[p].sent
  /\ f = "FIN" => ~life[p].sendReq
  /\ f = "FIN-goaway" => goaway[p].sent \/ goaway[p].received
  /\ f = "done" => PublishesTrack(p) /\ life[p].sendReq /\ life[p].first
  /\ f = "msg" => p = "requester" \/ life[p].first
  /\ f \in Answers => p = "responder" /\ ~life[p].first

\* What is owed to an end changes with what it has received only.
LEMMA OwedSame ==
  ASSUME NEW e \in Ends, requestKind' = requestKind, (life[e] = NoLife) <=> (life'[e] = NoLife),
         life[e] # NoLife => life'[e].recvReq = life[e].recvReq, misread'[e] = misread[e]
  PROVE  Owed(e)' = Owed(e)
  BY DEF Owed, NoLife

\* A call that writes keeps the accounts.
LEMMA WritingKeeps ==
  ASSUME RequestInv19, NEW p \in Ends, NEW f \in RequestFrames, Writing(p, f) PROVE RequestInv19'
<1> DEFINE e == Peer(p)
<1>1. /\ e \in Ends /\ Peer(e) = p /\ e # p /\ (\A x \in Ends : x = e \/ x = p)
      /\ "requester" \in Ends /\ "responder" \in Ends
      /\ (p = "requester" /\ e = "responder") \/ (p = "responder" /\ e = "requester")
  BY TheTwoEnds DEF Ends
<1> HIDE DEF e
<1>2. RequestTypes /\ FrameInv(p) /\ FrameInv(e) /\ EndInv(p) /\ EndInv(e) /\ AnswerInv
  BY <1>1 DEF RequestInv19
<1>3. /\ chan'[p] = Append(chan[p], f) /\ chan'[e] = chan[e] /\ chan[p] \in Seq(RequestFrames)
      /\ Append(chan[p], f) \in Seq(RequestFrames) /\ chan' \in [Ends -> Seq(RequestFrames)]
  BY <1>1, <1>2 DEF RequestTypes, Writing
<1>4. RequestTypes'
  BY <1>2, <1>3 DEF RequestTypes, Writing
<1>5. life[p] # NoLife /\ life'[p] # NoLife
  BY DEF Writing, NoLife
<1>6. Owed(p)' = Owed(p) /\ Owed(e)' = Owed(e)
  <2>1. life'[e] = life[e] /\ life'[p].recvReq = life[p].recvReq /\ requestKind' = requestKind /\ misread' = misread
    BY DEF Writing, e
  <2>2. QED
    BY <1>1, <1>5, <2>1, OwedSame
<1>7. goaway[e].received => goaway[p].sent
  BY <1>2 DEF EndInv, e
<1>8. /\ life[p].sendReq => Owed(e) /\ ~Has(chan[p], Settling)
      /\ ~life[p].sendReq => ~Owed(e) \/ Has(chan[p], Settling)
  BY <1>2 DEF FrameInv, e, Writing
<1>9. FrameInv(p)'
  <2>1. /\ f = "FIN" => ~Owed(e) \/ Has(chan[p], Settling)
        /\ f = "done" => PublishesTrack(p) /\ Owed(e) /\ ~Has(chan[p], Settling)
        /\ life'[p].sendReq => Owed(e) /\ ~Has(chan[p], Settling) /\ f \notin Settling
        /\ life'[p].send = "open" /\ ~life'[p].sendReq => ~Owed(e) \/ Has(chan[p], Settling) \/ f \in Settling
    BY <1>8 DEF Writing, FinFrames
  <2>2. /\ goaway'[e] = goaway[e] /\ (f = "goaway" => ~goaway[p].sent /\ goaway'[p].sent)
        /\ goaway[p].sent => goaway'[p].sent
        /\ goaway[p].received => goaway'[p].received
        /\ life[p].send = "open" /\ (f \in FinFrames => life'[p].send = "finished")
        /\ f = "FIN-goaway" => goaway[p].sent \/ goaway[p].received
        /\ requestKind' = requestKind
    BY DEF Writing, e
  <2>3. QED
    BY <1>2, <1>3, <1>6, <1>7, <2>1, <2>2, FramesSent DEF e
<1>10. FrameInv(e)'
  <2>1. /\ life'[e] = life[e] /\ goaway'[e] = goaway[e] /\ requestKind' = requestKind
        /\ goaway'[p].received = goaway[p].received
    BY DEF Writing, e
  <2>2. QED
    BY <1>1, <1>2, <1>3, <1>6, <2>1, FramesKept
<1>11. EndInv(p)'
  <2>1. /\ life'[p].send # "none" /\ error'[p] = error[p] /\ life'[e] = life[e] /\ goaway'[e] = goaway[e]
        /\ life'[p].send = "finished" => ~life'[p].sendReq
        /\ life'[p].recv = "finished" => life[p].recv = "finished" /\ life'[p].recvReq = life[p].recvReq
        /\ goaway[p].sent => goaway'[p].sent
        /\ misread' = misread
    BY DEF Writing, e
  <2>2. QED
    BY <1>1, <1>2, <1>5, <2>1 DEF EndInv, e
<1>12. EndInv(e)'
  <2>1. /\ life'[e] = life[e] /\ error'[e] = error[e] /\ goaway'[e] = goaway[e] /\ life[p].send = "open"
        /\ misread' = misread
        /\ goaway'[p].received = goaway[p].received /\ (goaway[p].sent => goaway'[p].sent)
    BY DEF Writing, e
  <2>2. QED
    BY <1>1, <1>2, <2>1 DEF EndInv
<1>13. AnswerInv'
  <2>1. /\ \A F : Has(chan'[p], F) <=> Has(chan[p], F) \/ f \in F
        /\ \A F : Once(chan[p], F) /\ ~(f \in F /\ Has(chan[p], F)) => Once(chan'[p], F)
        /\ \A o : AnswerFirst(chan[p], o) /\ (f \in {"msg", "done"} => o \/ Has(chan[p], Answers)) =>
              AnswerFirst(chan'[p], o)
    BY <1>3, FrameSent
  <2>2. /\ life[p].send = "open" /\ life'[p].send # "none" /\ life'[e] = life[e]
        /\ life'[p].first <=> life[p].first \/ f \in Answers
        /\ f = "done" => life[p].first
        /\ f = "msg" => p = "requester" \/ life[p].first
        /\ f \in Answers => p = "responder" /\ ~life[p].first
    BY DEF Writing, e
  <2>3. CASE p = "requester"
    <3>1. e = "responder" /\ f \notin Answers
      BY <1>1, <2>2, <2>3
    <3>2. /\ life["requester"].send = "none" => life["responder"].send = "none" /\ chan["requester"] = <<>>
          /\ life["responder"].send = "none" => chan["responder"] = <<>>
          /\ life["requester"].first => life["responder"].first
          /\ life["responder"].first => life["requester"].first \/ Has(chan["responder"], Answers)
          /\ ~life["requester"].first => Owed("requester")
          /\ ~Has(chan["requester"], Answers)
          /\ Has(chan["requester"], {"done"}) => life["responder"].first
          /\ Once(chan["responder"], Answers) /\ AnswerFirst(chan["responder"], life["requester"].first)
          /\ Has(chan["responder"], Answers) => ~life["requester"].first /\ life["responder"].first
      BY <1>2 DEF AnswerInv
    <3>3. /\ life'["responder"] = life["responder"] /\ chan'["responder"] = chan["responder"]
          /\ Owed("requester")' = Owed("requester") /\ (life'["requester"].first <=> life["requester"].first)
          /\ life'["requester"].send # "none"
          /\ ~Has(chan'["requester"], Answers)
          /\ Has(chan'["requester"], {"done"}) => life["responder"].first
      BY <1>3, <1>6, <2>1, <2>2, <2>3, <3>1, <3>2
    <3>4. life'["requester"].first = life["requester"].first
      <4>1. life'["requester"] \in Account /\ life["requester"] \in Account
        BY <1>1, <1>2, <1>4 DEF RequestTypes
      <4>2. QED
        BY <3>3, <4>1 DEF Account
    <3>5. QED
      BY <3>2, <3>3, <3>4 DEF AnswerInv
  <2>4. CASE p = "responder"
    <3>1. e = "requester"
      BY <1>1, <2>4
    <3>2. QED
      BY <1>2, <1>3, <1>6, <2>1, <2>2, <2>4, <3>1 DEF AnswerInv
  <2>5. QED
    BY <1>1, <2>3, <2>4
<1>14. QED
  BY <1>1, <1>4, <1>9, <1>10, <1>11, <1>12, <1>13 DEF RequestInv19

\* A call of an end that reads a frame of the request stream.
Reading(e, f) ==
  /\ life[e].recv = "open" /\ requestKind' = requestKind
  /\ chan[Peer(e)] # <<>> /\ f = Head(chan[Peer(e)])
  /\ chan' = [chan EXCEPT ![Peer(e)] = Tail(chan[Peer(e)])]
  /\ life' \in [Ends -> Account] /\ life'[Peer(e)] = life[Peer(e)]
  /\ life'[e].first = (life[e].first \/ f \in Answers)
  /\ misread' \in [Ends -> SUBSET ReadCalls] /\ misread'[Peer(e)] = misread[Peer(e)]
  /\ misread[e] \subseteq misread'[e]
  /\ life'[e].recvReq /\ "receive_message" \notin misread'[e] <=>
       life[e].recvReq /\ "receive_message" \notin misread[e] /\ f \notin Settling
  /\ life'[e].send = life[e].send /\ life'[e].sendReq = life[e].sendReq
  /\ life'[e].recv = "finished" => ~life'[e].recvReq /\ f \in FinFrames
  /\ goaway' \in [Ends -> GoAways] /\ goaway'[Peer(e)] = goaway[Peer(e)]
  /\ goaway'[e].sent = goaway[e].sent /\ goaway'[e].received = (goaway[e].received \/ f = "goaway")
  /\ error' \in [Ends -> Draft19Error] /\ error'[Peer(e)] = error[Peer(e)]
  /\ error'[e] = "InvalidTransition" => "receive_publish_done" \in misread'[e]
  /\ error'[e] = "PrematureFin" => f = "FIN-goaway" \/ misread'[e] # {}

\* A call that reads keeps the accounts.
LEMMA ReadingKeeps ==
  ASSUME RequestInv19, NEW e \in Ends, NEW f, Reading(e, f) PROVE RequestInv19'
<1> DEFINE p == Peer(e)
<1>1. /\ p \in Ends /\ Peer(p) = e /\ e # p /\ (\A x \in Ends : x = e \/ x = p)
      /\ "requester" \in Ends /\ "responder" \in Ends
      /\ (p = "requester" /\ e = "responder") \/ (p = "responder" /\ e = "requester")
  BY TheTwoEnds DEF Ends
<1> HIDE DEF p
<1>2. RequestTypes /\ FrameInv(p) /\ FrameInv(e) /\ EndInv(p) /\ EndInv(e) /\ AnswerInv
  BY <1>1 DEF RequestInv19
<1>3. /\ chan[p] \in Seq(RequestFrames) /\ chan[p] # <<>> /\ f = Head(chan[p]) /\ f \in RequestFrames
      /\ chan'[p] = Tail(chan[p]) /\ chan'[e] = chan[e] /\ chan' \in [Ends -> Seq(RequestFrames)]
  <2>1. chan[p] \in Seq(RequestFrames) /\ chan[p] # <<>> /\ f = Head(chan[p])
    BY <1>1, <1>2 DEF RequestTypes, Reading, p
  <2>2. Tail(chan[p]) \in Seq(RequestFrames) /\ f \in RequestFrames
    BY <2>1, HeadTailProperties
  <2>3. chan' = [chan EXCEPT ![p] = Tail(chan[p])] /\ chan \in [Ends -> Seq(RequestFrames)]
    BY <1>2 DEF RequestTypes, Reading, p
  <2>4. QED
    BY <1>1, <2>1, <2>2, <2>3
<1>4. RequestTypes'
  BY <1>3 DEF RequestTypes, Reading
<1>5. /\ \A F : Has(chan[p], F) <=> f \in F \/ Has(chan'[p], F)
      /\ \A F : Once(chan[p], F) => Once(chan'[p], F) /\ ~(f \in F /\ Has(chan'[p], F))
      /\ \A o : AnswerFirst(chan[p], o) =>
            AnswerFirst(chan'[p], o \/ f \in Answers) /\ (f \in {"msg", "done"} => o)
  BY <1>3, FrameRead
<1>6. life[e] # NoLife /\ life[e].send # "none" /\ life'[e] # NoLife
  BY <1>2 DEF Reading, NoLife, EndInv
<1>7. Owed(p)' = Owed(p)
  <2>1. life'[p] = life[p] /\ requestKind' = requestKind /\ misread'[p] = misread[p]
    BY DEF Reading, p
  <2>2. QED
    BY <1>1, <2>1, OwedSame
<1>8. Owed(e)' = (Owed(e) /\ f \notin Settling)
  BY <1>6 DEF Owed, Reading, NoLife
<1>9. FrameInv(p)'
  <2>1. /\ requestKind' = requestKind /\ life'[p] = life[p] /\ goaway'[p] = goaway[p]
        /\ goaway'[e].received => goaway[e].received \/ f = "goaway"
    BY DEF Reading, p
  <2>2. QED
    BY <1>1, <1>2, <1>3, <1>8, <2>1, FramesRead
<1>10. FrameInv(e)'
  <2>1. /\ requestKind' = requestKind /\ life'[e].sendReq = life[e].sendReq /\ life'[e].send = life[e].send
        /\ goaway'[p] = goaway[p] /\ goaway'[e].sent = goaway[e].sent
        /\ goaway[e].received => goaway'[e].received
    BY DEF Reading, p
  <2>2. QED
    BY <1>1, <1>2, <1>3, <1>7, <2>1, FramesKept DEF p
<1>11. EndInv(e)'
  <2>1. /\ Has(chan[p], {"FIN-goaway"}) => life[p].send = "finished" /\ (goaway[p].sent \/ goaway[p].received)
    <3>1. Has(chan[p], {"FIN-goaway"}) => Has(chan[p], FinFrames)
      BY DEF Has, FinFrames
    <3>2. QED
      BY <1>2, <3>1 DEF FrameInv
  <2>2. /\ life'[e].send = life[e].send /\ life'[e].sendReq = life[e].sendReq
        /\ life'[e].recv = "finished" => ~life'[e].recvReq /\ f \in FinFrames
        /\ goaway'[e].sent = goaway[e].sent /\ goaway'[p] = goaway[p] /\ life'[p] = life[p]
        /\ error'[e] = "InvalidTransition" => "receive_publish_done" \in misread'[e]
        /\ error'[e] = "PrematureFin" => f = "FIN-goaway" \/ misread'[e] # {}
    BY DEF Reading, p
  <2>3. f \in FinFrames => life[p].send = "finished"
    BY <1>2, <1>5 DEF FrameInv
  <2>4. QED
    BY <1>1, <1>2, <1>5, <1>6, <2>1, <2>2, <2>3 DEF EndInv, p
<1>12. EndInv(p)'
  <2>1. /\ life'[p] = life[p] /\ error'[p] = error[p] /\ goaway'[p] = goaway[p] /\ misread'[p] = misread[p]
        /\ life'[e].send = life[e].send /\ goaway'[e].sent = goaway[e].sent
        /\ goaway'[e].received <=> goaway[e].received \/ f = "goaway"
    BY DEF Reading, p
  <2>2. f = "goaway" => goaway[p].sent
    BY <1>2, <1>5 DEF FrameInv
  <2>3. QED
    BY <1>1, <1>2, <2>1, <2>2 DEF EndInv
<1>13. AnswerInv'
  <2>1. /\ life'[p] = life[p] /\ life'[e].send = life[e].send
        /\ life'[e].first <=> life[e].first \/ f \in Answers
    BY DEF Reading, p
  <2>2. CASE e = "responder"
    <3>1. p = "requester"
      BY <1>1, <2>2
    <3>2. f \notin Answers
      BY <1>2, <1>5, <3>1 DEF AnswerInv
    <3>3. QED
      BY <1>2, <1>3, <1>5, <1>6, <1>7, <2>1, <2>2, <3>1, <3>2 DEF AnswerInv
  <2>3. CASE e = "requester"
    <3>1. p = "responder"
      BY <1>1, <2>3
    <3>2. life[p].send # "none"
      BY <1>2, <1>3, <3>1 DEF AnswerInv
    <3>3. ~life[e].first /\ f \notin Answers => f \notin Settling
      BY <1>2, <1>5, <2>3, <3>1 DEF AnswerInv, Settling, Answers
    <3>4. /\ life["requester"].send = "none" => life["responder"].send = "none" /\ chan["requester"] = <<>>
          /\ life["responder"].send = "none" => chan["responder"] = <<>>
          /\ life["requester"].first => life["responder"].first
          /\ life["responder"].first => life["requester"].first \/ Has(chan["responder"], Answers)
          /\ ~life["requester"].first => Owed("requester")
          /\ ~Has(chan["requester"], Answers)
          /\ Has(chan["requester"], {"done"}) => life["responder"].first
          /\ Once(chan["responder"], Answers) /\ AnswerFirst(chan["responder"], life["requester"].first)
          /\ Has(chan["responder"], Answers) => ~life["requester"].first /\ life["responder"].first
      BY <1>2 DEF AnswerInv
    <3>5. /\ life'["responder"] = life["responder"] /\ chan'["requester"] = chan["requester"]
          /\ life'["requester"].send # "none" /\ life'["responder"].send # "none"
          /\ Owed("requester")' = (Owed("requester") /\ f \notin Settling)
          /\ life'["requester"].first <=> life["requester"].first \/ f \in Answers
          /\ Has(chan["responder"], Answers) <=> f \in Answers \/ Has(chan'["responder"], Answers)
          /\ Once(chan'["responder"], Answers) /\ ~(f \in Answers /\ Has(chan'["responder"], Answers))
          /\ AnswerFirst(chan'["responder"], life["requester"].first \/ f \in Answers)
      BY <1>3, <1>5, <1>6, <1>8, <2>1, <2>3, <3>1, <3>2, <3>4
    <3>6. AnswerFirst(chan'["responder"], life'["requester"].first)
      <4>1. life'["requester"].first = (life["requester"].first \/ f \in Answers)
        BY <2>3 DEF Reading
      <4>2. QED
        BY <3>5, <4>1
    <3>7. QED
      BY <2>3, <3>1, <3>3, <3>4, <3>5, <3>6 DEF AnswerInv
  <2>4. QED
    BY <1>1, <2>2, <2>3
<1>14. QED
  BY <1>1, <1>4, <1>9, <1>10, <1>11, <1>12, <1>13 DEF RequestInv19

\* The responder owes its answer.
LEMMA Unanswered ==
  ASSUME RequestInv19, ~life["responder"].first, life["responder"].send = "open" PROVE life["responder"].sendReq
<1>1. /\ ~life["requester"].first /\ ~Has(chan["responder"], Answers) /\ Owed("requester")
      /\ AnswerFirst(chan["responder"], life["requester"].first)
  BY DEF RequestInv19, AnswerInv
<1>2. ASSUME Has(chan["responder"], Settling) PROVE FALSE
  <2>1. PICK i \in 1 .. Len(chan["responder"]) : chan["responder"][i] \in Settling
    BY <1>2 DEF Has
  <2>2. chan["responder"][i] = "done"
    BY <1>1, <2>1 DEF Has, Settling, Answers
  <2>3. PICK j \in 1 .. (i - 1) : chan["responder"][j] \in Answers
    BY <1>1, <2>2 DEF AnswerFirst
  <2>4. j \in 1 .. Len(chan["responder"])
    <3>1. Len(chan["responder"]) \in Nat
      BY TheTwoEnds DEF RequestInv19, RequestTypes
    <3>2. QED
      BY <3>1
  <2>5. QED
    BY <1>1, <2>3, <2>4 DEF Has
<1>3. FrameInv("responder")
  BY TheTwoEnds DEF RequestInv19
<1>4. QED
  BY <1>1, <1>2, <1>3, TheTwoEnds DEF FrameInv

\* The two ends when a call leaves the session open.
LEMMA WriteStep ==
  ASSUME RequestInv19, NEW e \in Ends,
         \/ \E response \in Answers : e = "responder" /\ SendFirstResponse(response)
         \/ SendMessage(e) \/ SendPublishDone(e) \/ FinishSending(e) \/ SendGoAway(e)
         \/ FinishAfterGoAway(e) \/ GoAwayTimeout(e) \/ (CancelRequest(e) /\ life[e].send = "open")
  PROVE  RequestInv19'
<1>1. /\ life \in [Ends -> Account] /\ goaway \in [Ends -> GoAways] /\ Peer(e) \in Ends /\ Peer(e) # e
      /\ life[e] \in Account /\ goaway[e] \in GoAways
  BY TheTwoEnds DEF RequestInv19, RequestTypes
<1>2. /\ goaway[e].sent = (goaway[e].sent \/ FALSE) /\ goaway[e].sent \in BOOLEAN
      /\ life[e].first = (life[e].first \/ FALSE) /\ life[e].first \in BOOLEAN
  BY <1>1 DEF Account, GoAways
<1>3. ASSUME NEW response \in Answers, e = "responder", SendFirstResponse(response) PROVE Writing(e, response)
  <2>1. PICK b \in BOOLEAN : b = (response = "ok" /\ requestKind = "Subscribe")
    OBVIOUS
  <2>2. /\ life' = [life EXCEPT ![e].first = TRUE, ![e].sendReq = b] /\ life[e].send = "open" /\ ~life[e].first
        /\ chan' = [chan EXCEPT ![e] = Append(chan[e], response)]
        /\ UNCHANGED <<requestKind, goaway, error, misread>>
    BY <1>3, <2>1 DEF SendFirstResponse, SendFrame, Writes
  <2>3. /\ life' \in [Ends -> Account] /\ life'[Peer(e)] = life[Peer(e)] /\ life'[e].first = TRUE
        /\ life'[e].sendReq = b /\ life'[e].recvReq = life[e].recvReq /\ life'[e].send = life[e].send
        /\ life'[e].recv = life[e].recv
    BY <1>1, <2>2 DEF Account
  <2>4. response \notin FinFrames /\ response # "goaway" /\ (b <=> response \notin Settling) /\ response \notin {"done", "msg"}
    BY <2>1 DEF Answers, FinFrames, Settling
  <2>5. life[e].sendReq
    BY <1>3, <2>2, Unanswered
  <2>6. /\ life[e].send = "open" /\ requestKind' = requestKind /\ error' = error /\ misread' = misread
        /\ chan' = [chan EXCEPT ![e] = Append(chan[e], response)]
        /\ life' \in [Ends -> Account] /\ life'[Peer(e)] = life[Peer(e)]
    BY <2>2, <2>3
  <2>7. life'[e].first = (life[e].first \/ response \in Answers)
    BY <2>3
  <2>8. /\ life'[e].recvReq = life[e].recvReq /\ life'[e].send # "none"
        /\ life'[e].recv = life[e].recv \/ life'[e].recv = "stopped"
        /\ response \in FinFrames <=> life'[e].send = "finished"
        /\ life'[e].sendReq => life[e].sendReq /\ response \notin Settling \cup FinFrames
        /\ life[e].sendReq /\ ~life'[e].sendReq => response \in Settling \cup {"FIN-goaway"}
    BY <2>2, <2>3, <2>4, <2>5
  <2>9. /\ goaway' \in [Ends -> GoAways] /\ goaway'[Peer(e)] = goaway[Peer(e)]
        /\ goaway'[e].received = goaway[e].received /\ goaway'[e].sent = (goaway[e].sent \/ response = "goaway")
    BY <1>1, <1>2, <2>2, <2>4
  <2>10. QED
    BY <1>3, <2>2, <2>4, <2>6, <2>7, <2>8, <2>9 DEF Writing, FinFrames
<1>4. ASSUME SendMessage(e) PROVE Writing(e, "msg")
  <2>1. /\ life' = life /\ life[e].send = "open" /\ (e = "requester" \/ life[e].first)
        /\ chan' = [chan EXCEPT ![e] = Append(chan[e], "msg")]
        /\ UNCHANGED <<requestKind, error, misread>> /\ goaway' = goaway
    BY <1>4 DEF SendMessage, CanSendFollowup, SendFrame, Writes
  <2>2. /\ life' \in [Ends -> Account] /\ life'[Peer(e)] = life[Peer(e)] /\ life'[e].first = life[e].first
        /\ life'[e].sendReq = life[e].sendReq /\ life'[e].recvReq = life[e].recvReq /\ life'[e].send = life[e].send
        /\ life'[e].recv = life[e].recv
    BY <1>1, <2>1 DEF Account
  <2>3. /\ goaway' \in [Ends -> GoAways] /\ goaway'[Peer(e)] = goaway[Peer(e)] /\ goaway'[e].received = goaway[e].received
        /\ goaway'[e].sent = goaway[e].sent
    BY <1>1, <2>1 DEF GoAways
  <2>4. "msg" \notin Answers /\ "msg" \notin Settling /\ "msg" \notin FinFrames
    BY DEF Answers, Settling, FinFrames
  <2>5. /\ life'[e].first = (life[e].first \/ "msg" \in Answers)
        /\ goaway'[e].sent = (goaway[e].sent \/ "msg" = "goaway")
    BY <1>2, <2>2, <2>3, <2>4
  <2>6. /\ life'[e].send # "none" /\ ("msg" \in FinFrames <=> life'[e].send = "finished")
        /\ life'[e].recv = life[e].recv \/ life'[e].recv = "stopped"
        /\ life'[e].sendReq => life[e].sendReq /\ "msg" \notin Settling \cup FinFrames
        /\ life[e].sendReq /\ ~life'[e].sendReq => "msg" \in Settling \cup {"FIN-goaway"}
    BY <2>1, <2>2, <2>4 DEF Settling, FinFrames
  <2>7. QED
    BY <2>1, <2>2, <2>3, <2>4, <2>5, <2>6 DEF Writing
<1>5. ASSUME SendPublishDone(e) PROVE Writing(e, "done")
  <2>1. /\ life' = [life EXCEPT ![e].sendReq = FALSE] /\ life[e].send = "open" /\ life[e].first /\ PublishesTrack(e) /\ life[e].sendReq
        /\ chan' = [chan EXCEPT ![e] = Append(chan[e], "done")]
        /\ UNCHANGED <<requestKind, error, misread>> /\ goaway' = goaway
    BY <1>5 DEF SendPublishDone, SendFrame, Writes
  <2>2. /\ life' \in [Ends -> Account] /\ life'[Peer(e)] = life[Peer(e)] /\ life'[e].first = life[e].first
        /\ life'[e].sendReq = FALSE /\ life'[e].recvReq = life[e].recvReq /\ life'[e].send = life[e].send
        /\ life'[e].recv = life[e].recv
    BY <1>1, <2>1 DEF Account
  <2>3. /\ goaway' \in [Ends -> GoAways] /\ goaway'[Peer(e)] = goaway[Peer(e)] /\ goaway'[e].received = goaway[e].received
        /\ goaway'[e].sent = goaway[e].sent
    BY <1>1, <2>1 DEF GoAways
  <2>4. "done" \notin Answers /\ "done" \notin FinFrames
    BY DEF Answers, Settling, FinFrames
  <2>5. /\ life'[e].first = (life[e].first \/ "done" \in Answers)
        /\ goaway'[e].sent = (goaway[e].sent \/ "done" = "goaway")
    BY <1>2, <2>2, <2>3, <2>4
  <2>6. /\ life'[e].send # "none" /\ ("done" \in FinFrames <=> life'[e].send = "finished")
        /\ life'[e].recv = life[e].recv \/ life'[e].recv = "stopped"
        /\ life'[e].sendReq => life[e].sendReq /\ "done" \notin Settling \cup FinFrames
        /\ life[e].sendReq /\ ~life'[e].sendReq => "done" \in Settling \cup {"FIN-goaway"}
    BY <2>1, <2>2, <2>4 DEF Settling, FinFrames
  <2>7. QED
    BY <2>1, <2>2, <2>3, <2>4, <2>5, <2>6 DEF Writing
<1>6. ASSUME FinishSending(e) PROVE Writing(e, "FIN")
  <2>1. /\ life' = [life EXCEPT ![e].send = "finished"] /\ life[e].send = "open" /\ ~life[e].sendReq
        /\ chan' = [chan EXCEPT ![e] = Append(chan[e], "FIN")]
        /\ UNCHANGED <<requestKind, error, misread>> /\ goaway' = goaway
    BY <1>6 DEF FinishSending, SendFrame, Writes
  <2>2. /\ life' \in [Ends -> Account] /\ life'[Peer(e)] = life[Peer(e)] /\ life'[e].first = life[e].first
        /\ life'[e].sendReq = life[e].sendReq /\ life'[e].recvReq = life[e].recvReq /\ life'[e].send = "finished"
        /\ life'[e].recv = life[e].recv
    BY <1>1, <2>1 DEF Account
  <2>3. /\ goaway' \in [Ends -> GoAways] /\ goaway'[Peer(e)] = goaway[Peer(e)] /\ goaway'[e].received = goaway[e].received
        /\ goaway'[e].sent = goaway[e].sent
    BY <1>1, <2>1 DEF GoAways
  <2>4. "FIN" \notin Answers /\ "FIN" \notin Settling
    BY DEF Answers, Settling, FinFrames
  <2>5. /\ life'[e].first = (life[e].first \/ "FIN" \in Answers)
        /\ goaway'[e].sent = (goaway[e].sent \/ "FIN" = "goaway")
    BY <1>2, <2>2, <2>3, <2>4
  <2>6. /\ life'[e].send # "none" /\ ("FIN" \in FinFrames <=> life'[e].send = "finished")
        /\ life'[e].recv = life[e].recv \/ life'[e].recv = "stopped"
        /\ life'[e].sendReq => life[e].sendReq /\ "FIN" \notin Settling \cup FinFrames
        /\ life[e].sendReq /\ ~life'[e].sendReq => "FIN" \in Settling \cup {"FIN-goaway"}
    BY <2>1, <2>2, <2>4 DEF Settling, FinFrames
  <2>7. QED
    BY <2>1, <2>2, <2>3, <2>4, <2>5, <2>6 DEF Writing
<1>7. ASSUME SendGoAway(e) PROVE Writing(e, "goaway")
  <2>1. /\ life' = life /\ life[e].send = "open" /\ ~goaway[e].sent
        /\ chan' = [chan EXCEPT ![e] = Append(chan[e], "goaway")]
        /\ UNCHANGED <<requestKind, error, misread>> /\ goaway' = [goaway EXCEPT ![e].sent = TRUE]
    BY <1>7 DEF SendGoAway, SendFrame, Writes
  <2>2. /\ life' \in [Ends -> Account] /\ life'[Peer(e)] = life[Peer(e)] /\ life'[e].first = life[e].first
        /\ life'[e].sendReq = life[e].sendReq /\ life'[e].recvReq = life[e].recvReq /\ life'[e].send = life[e].send
        /\ life'[e].recv = life[e].recv
    BY <1>1, <2>1 DEF Account
  <2>3. /\ goaway' \in [Ends -> GoAways] /\ goaway'[Peer(e)] = goaway[Peer(e)] /\ goaway'[e].received = goaway[e].received
        /\ goaway'[e].sent = TRUE
    BY <1>1, <2>1 DEF GoAways
  <2>4. "goaway" \notin Answers /\ "goaway" \notin Settling /\ "goaway" \notin FinFrames
    BY DEF Answers, Settling, FinFrames
  <2>5. /\ life'[e].first = (life[e].first \/ "goaway" \in Answers)
        /\ goaway'[e].sent = (goaway[e].sent \/ "goaway" = "goaway")
    BY <1>2, <2>2, <2>3, <2>4
  <2>6. /\ life'[e].send # "none" /\ ("goaway" \in FinFrames <=> life'[e].send = "finished")
        /\ life'[e].recv = life[e].recv \/ life'[e].recv = "stopped"
        /\ life'[e].sendReq => life[e].sendReq /\ "goaway" \notin Settling \cup FinFrames
        /\ life[e].sendReq /\ ~life'[e].sendReq => "goaway" \in Settling \cup {"FIN-goaway"}
    BY <2>1, <2>2, <2>4 DEF Settling, FinFrames
  <2>7. QED
    BY <2>1, <2>2, <2>3, <2>4, <2>5, <2>6 DEF Writing
<1>8. ASSUME FinishAfterGoAway(e) PROVE Writing(e, "FIN-goaway")
  <2>1. /\ life' = [life EXCEPT ![e].send = "finished", ![e].sendReq = FALSE] /\ life[e].send = "open" /\ (goaway[e].sent \/ goaway[e].received)
        /\ chan' = [chan EXCEPT ![e] = Append(chan[e], "FIN-goaway")]
        /\ UNCHANGED <<requestKind, error, misread>> /\ goaway' = goaway
    BY <1>8 DEF FinishAfterGoAway, SendFrame, Writes
  <2>2. /\ life' \in [Ends -> Account] /\ life'[Peer(e)] = life[Peer(e)] /\ life'[e].first = life[e].first
        /\ life'[e].sendReq = FALSE /\ life'[e].recvReq = life[e].recvReq /\ life'[e].send = "finished"
        /\ life'[e].recv = life[e].recv
    BY <1>1, <2>1 DEF Account
  <2>3. /\ goaway' \in [Ends -> GoAways] /\ goaway'[Peer(e)] = goaway[Peer(e)] /\ goaway'[e].received = goaway[e].received
        /\ goaway'[e].sent = goaway[e].sent
    BY <1>1, <2>1 DEF GoAways
  <2>4. "FIN-goaway" \notin Answers /\ "FIN-goaway" \notin Settling
    BY DEF Answers, Settling, FinFrames
  <2>5. /\ life'[e].first = (life[e].first \/ "FIN-goaway" \in Answers)
        /\ goaway'[e].sent = (goaway[e].sent \/ "FIN-goaway" = "goaway")
    BY <1>2, <2>2, <2>3, <2>4
  <2>6. /\ life'[e].send # "none" /\ ("FIN-goaway" \in FinFrames <=> life'[e].send = "finished")
        /\ life'[e].recv = life[e].recv \/ life'[e].recv = "stopped"
        /\ life'[e].sendReq => life[e].sendReq /\ "FIN-goaway" \notin Settling \cup FinFrames
        /\ life[e].sendReq /\ ~life'[e].sendReq => "FIN-goaway" \in Settling \cup {"FIN-goaway"}
    BY <2>1, <2>2, <2>4 DEF Settling, FinFrames
  <2>7. QED
    BY <2>1, <2>2, <2>3, <2>4, <2>5, <2>6 DEF Writing
<1>9. ASSUME GoAwayTimeout(e) PROVE Writing(e, "RESET")
  <2>1. /\ life' = [life EXCEPT ![e].send = "reset"] /\ life[e].send = "open"
        /\ chan' = [chan EXCEPT ![e] = Append(chan[e], "RESET")]
        /\ UNCHANGED <<requestKind, error, misread>> /\ goaway' = goaway
    BY <1>9 DEF GoAwayTimeout, SendFrame, Writes
  <2>2. /\ life' \in [Ends -> Account] /\ life'[Peer(e)] = life[Peer(e)] /\ life'[e].first = life[e].first
        /\ life'[e].sendReq = life[e].sendReq /\ life'[e].recvReq = life[e].recvReq /\ life'[e].send = "reset"
        /\ life'[e].recv = life[e].recv
    BY <1>1, <2>1 DEF Account
  <2>3. /\ goaway' \in [Ends -> GoAways] /\ goaway'[Peer(e)] = goaway[Peer(e)] /\ goaway'[e].received = goaway[e].received
        /\ goaway'[e].sent = goaway[e].sent
    BY <1>1, <2>1 DEF GoAways
  <2>4. "RESET" \notin Answers /\ "RESET" \notin Settling /\ "RESET" \notin FinFrames
    BY DEF Answers, Settling, FinFrames
  <2>5. /\ life'[e].first = (life[e].first \/ "RESET" \in Answers)
        /\ goaway'[e].sent = (goaway[e].sent \/ "RESET" = "goaway")
    BY <1>2, <2>2, <2>3, <2>4
  <2>6. /\ life'[e].send # "none" /\ ("RESET" \in FinFrames <=> life'[e].send = "finished")
        /\ life'[e].recv = life[e].recv \/ life'[e].recv = "stopped"
        /\ life'[e].sendReq => life[e].sendReq /\ "RESET" \notin Settling \cup FinFrames
        /\ life[e].sendReq /\ ~life'[e].sendReq => "RESET" \in Settling \cup {"FIN-goaway"}
    BY <2>1, <2>2, <2>4 DEF Settling, FinFrames
  <2>7. QED
    BY <2>1, <2>2, <2>3, <2>4, <2>5, <2>6 DEF Writing
<1>10. ASSUME CancelRequest(e), life[e].send = "open" PROVE Writing(e, "RESET")
  <2>1. /\ life' = [life EXCEPT ![e].send = "reset", ![e].recv = IF life[e].recv = "open" THEN "stopped" ELSE life[e].recv] /\ life[e].send = "open"
        /\ chan' = [chan EXCEPT ![e] = Append(chan[e], "RESET")]
        /\ UNCHANGED <<requestKind, error, misread>> /\ goaway' = goaway
    BY <1>10 DEF CancelRequest, SendFrame, Writes
  <2>2. /\ life' \in [Ends -> Account] /\ life'[Peer(e)] = life[Peer(e)] /\ life'[e].first = life[e].first
        /\ life'[e].sendReq = life[e].sendReq /\ life'[e].recvReq = life[e].recvReq /\ life'[e].send = "reset"
        /\ life'[e].recv = IF life[e].recv = "open" THEN "stopped" ELSE life[e].recv
    BY <1>1, <2>1 DEF Account
  <2>3. /\ goaway' \in [Ends -> GoAways] /\ goaway'[Peer(e)] = goaway[Peer(e)] /\ goaway'[e].received = goaway[e].received
        /\ goaway'[e].sent = goaway[e].sent
    BY <1>1, <2>1 DEF GoAways
  <2>4. "RESET" \notin Answers /\ "RESET" \notin Settling /\ "RESET" \notin FinFrames
    BY DEF Answers, Settling, FinFrames
  <2>5. /\ life'[e].first = (life[e].first \/ "RESET" \in Answers)
        /\ goaway'[e].sent = (goaway[e].sent \/ "RESET" = "goaway")
    BY <1>2, <2>2, <2>3, <2>4
  <2>6. /\ life'[e].send # "none" /\ ("RESET" \in FinFrames <=> life'[e].send = "finished")
        /\ life'[e].recv = life[e].recv \/ life'[e].recv = "stopped"
        /\ life'[e].sendReq => life[e].sendReq /\ "RESET" \notin Settling \cup FinFrames
        /\ life[e].sendReq /\ ~life'[e].sendReq => "RESET" \in Settling \cup {"FIN-goaway"}
    BY <2>1, <2>2, <2>4 DEF Settling, FinFrames
  <2>7. QED
    BY <2>1, <2>2, <2>3, <2>4, <2>5, <2>6 DEF Writing
<1>11. Answers \subseteq RequestFrames /\ {"msg", "done", "FIN", "goaway", "FIN-goaway", "RESET"} \subseteq RequestFrames
  BY DEF Answers, RequestFrames
<1>12. QED
  BY <1>3, <1>4, <1>5, <1>6, <1>7, <1>8, <1>9, <1>10, <1>11, WritingKeeps

\* A step that is not of the request stream keeps its accounts.
LEMMA RequestSame ==
  ASSUME RequestInv19, UNCHANGED <<requestKind, life, goaway, chan, error, misread>> PROVE RequestInv19'
<1>1. /\ \A e : Owed(e)' = Owed(e) /\ PublishesTrack(e)' = PublishesTrack(e)
      /\ Settling' = Settling
  BY DEF Owed, PublishesTrack, Settling
<1>2. RequestTypes' /\ AnswerInv'
  BY <1>1 DEF RequestInv19, RequestTypes, AnswerInv
<1>3. ASSUME NEW e \in Ends PROVE FrameInv(e)' /\ EndInv(e)'
  <2>1. FrameInv(e) /\ EndInv(e)
    BY DEF RequestInv19
  <2>2. FrameInv(e)'
    BY <1>1, <2>1 DEF FrameInv
  <2>3. EndInv(e)'
    BY <2>1 DEF EndInv
  <2>4. QED
    BY <2>2, <2>3
<1>4. QED
  BY <1>2, <1>3 DEF RequestInv19

\* An end that has finished sending breaks off what it still receives.
LEMMA StopKeeps ==
  ASSUME RequestInv19, NEW e \in Ends, CancelRequest(e), life[e].send # "open" PROVE RequestInv19'
<1> DEFINE p == Peer(e)
<1>1. /\ p \in Ends /\ Peer(p) = e /\ e # p /\ (\A x \in Ends : x = e \/ x = p)
      /\ (p = "requester" /\ e = "responder") \/ (p = "responder" /\ e = "requester")
  BY TheTwoEnds DEF Ends
<1> HIDE DEF p
<1>2. RequestTypes /\ FrameInv(p) /\ FrameInv(e) /\ EndInv(p) /\ EndInv(e) /\ AnswerInv
  BY <1>1 DEF RequestInv19
<1>3. /\ life' = [life EXCEPT ![e].recv = "stopped"] /\ life[e].send = "finished"
      /\ UNCHANGED <<requestKind, goaway, chan, error, misread>>
  <2>1. <<life[e].send, life[e].recv>> = <<"finished", "open">>
    BY DEF CancelRequest
  <2>2. life' = [life EXCEPT ![e].send = life[e].send, ![e].recv = "stopped"] /\ life \in [Ends -> Account]
    BY <1>2, <2>1 DEF CancelRequest, RequestTypes
  <2>3. QED
    BY <2>1, <2>2 DEF CancelRequest, Account
<1>4. life \in [Ends -> Account] /\ life[e] \in Account
  BY <1>2 DEF RequestTypes
<1>5. /\ life' \in [Ends -> Account] /\ life'[p] = life[p] /\ life'[e].recv = "stopped"
      /\ life'[e].first = life[e].first /\ life'[e].send = "finished" /\ life'[e].sendReq = life[e].sendReq
      /\ life'[e].recvReq = life[e].recvReq
  BY <1>1, <1>3, <1>4 DEF Account
<1>6. Owed(e)' = Owed(e) /\ Owed(p)' = Owed(p)
  <2>1. life[e] # NoLife /\ life'[e] # NoLife
    BY <1>3, <1>5 DEF NoLife
  <2>2. QED
    BY <1>1, <1>3, <1>5, <2>1, OwedSame
<1>7. FrameInv(e)' /\ FrameInv(p)'
  <2>1. /\ requestKind' = requestKind /\ chan' = chan /\ goaway' = goaway
        /\ life'[e].sendReq = life[e].sendReq /\ life'[e].send = life[e].send /\ life'[p] = life[p]
    BY <1>3, <1>5
  <2>2. Peer(e) = p
    BY DEF p
  <2>3. FrameInv(e)'
    BY <1>2, <1>6, <2>1, <2>2, FramesKept
  <2>4. FrameInv(p)'
    BY <1>1, <1>2, <1>6, <2>1, FramesKept
  <2>5. QED
    BY <2>3, <2>4
<1>8. EndInv(e)' /\ EndInv(p)'
  <2>1. life'[e] # NoLife /\ life[e].send = life'[e].send /\ Peer(e) = p
    BY <1>3, <1>5 DEF NoLife, p
  <2>2. EndInv(e)'
    BY <1>1, <1>2, <1>3, <1>5, <2>1 DEF EndInv
  <2>3. EndInv(p)'
    BY <1>1, <1>2, <1>3, <1>5, <2>1 DEF EndInv
  <2>4. QED
    BY <2>2, <2>3
<1>9. RequestTypes'
  BY <1>2, <1>3, <1>5 DEF RequestTypes
<1>10. AnswerInv'
  <2>1. /\ \A x \in Ends : life'[x].first = life[x].first /\ life'[x].send = life[x].send
        /\ chan' = chan /\ Owed("requester")' = Owed("requester") /\ "requester" \in Ends /\ "responder" \in Ends
    BY <1>1, <1>3, <1>5, <1>6, TheTwoEnds
  <2>2. QED
    BY <1>2, <2>1 DEF AnswerInv
<1>11. QED
  BY <1>1, <1>7, <1>8, <1>9, <1>10 DEF RequestInv19

\* A request is made.
LEMMA OpenKeeps == ASSUME RequestInv19, OpenRequest PROVE RequestInv19'
<1> DEFINE q == "requester"
           r == "responder"
<1>1. q \in Ends /\ r \in Ends /\ Peer(q) = r /\ Peer(r) = q /\ q # r /\ \A x \in Ends : x = q \/ x = r
  BY TheTwoEnds DEF Ends
<1>2. RequestTypes /\ FrameInv(q) /\ FrameInv(r) /\ EndInv(q) /\ EndInv(r) /\ AnswerInv
  BY <1>1 DEF RequestInv19
<1>3. /\ life' = [life EXCEPT ![q] = NewLife(q)] /\ life[q] = NoLife
      /\ chan' = [chan EXCEPT ![q] = Append(chan[q], "request")] /\ UNCHANGED <<requestKind, goaway, error, misread>>
  BY DEF OpenRequest, SendFrame
<1>4. NewLife(q) \in Account
  BY DEF NewLife, Account
<1>5. /\ life' \in [Ends -> Account] /\ life'[r] = life[r] /\ life'[q] = NewLife(q)
  BY <1>1, <1>2, <1>3, <1>4 DEF RequestTypes
<1>6. /\ chan[q] = <<>> /\ chan'[q] = Append(chan[q], "request") /\ chan'[r] = chan[r]
      /\ "request" \in RequestFrames /\ chan[q] \in Seq(RequestFrames) /\ chan' \in [Ends -> Seq(RequestFrames)]
  <2>1. chan[q] = <<>>
    BY <1>2, <1>3 DEF AnswerInv, NoLife
  <2>2. "request" \in RequestFrames /\ chan \in [Ends -> Seq(RequestFrames)]
    BY <1>2 DEF RequestFrames, RequestTypes
  <2>3. QED
    BY <1>1, <1>3, <2>1, <2>2
<1>7. life'[q] # NoLife /\ life'[q].recvReq = TRUE /\ ~life'[q].first /\ life'[q].send = "open" /\ life'[q].recv = "open"
      /\ life'[q].sendReq = (requestKind = "Publish")
  BY <1>5 DEF NewLife, NoLife
<1>8. Owed(q) = TRUE /\ Owed(q)' = TRUE /\ Owed(r)' = Owed(r)
  <2>1. Owed(q) = TRUE
    BY <1>3 DEF Owed
  <2>2. Owed(q)' = TRUE
    <3>1. misread'[q] = {}
      BY <1>2, <1>3 DEF EndInv
    <3>2. QED
      BY <1>7, <3>1 DEF Owed
  <2>3. Owed(r)' = Owed(r)
    BY <1>1, <1>3, <1>5, OwedSame
  <2>4. QED
    BY <2>1, <2>2, <2>3
<1>9. life[q].send = "none" /\ ~life[q].first /\ ~life[q].sendReq
  BY <1>3 DEF NoLife
<1>10. life[r] = NoLife /\ Owed(r) = (requestKind = "Publish")
  <2>1. life[r] = NoLife
    BY <1>2, <1>9 DEF AnswerInv, EndInv
  <2>2. QED
    BY <2>1 DEF Owed
<1>11. \A F : ~Has(chan[q], F)
  BY <1>6 DEF Has
<1>12. FrameInv(q)'
  <2>1. "request" \notin FinFrames /\ "request" \notin Settling
    BY DEF FinFrames, Settling
  <2>2. goaway[r].received => goaway[q].sent
    BY <1>1, <1>2 DEF EndInv
  <2>3. /\ life'[q].sendReq => Owed(r) /\ ~Has(chan[q], Settling) /\ "request" \notin Settling
        /\ life'[q].send = "open" /\ ~life'[q].sendReq => ~Owed(r) \/ Has(chan[q], Settling) \/ "request" \in Settling
    BY <1>7, <1>10, <1>11, <2>1
  <2>4. life[q].send \in {"none", "open"}
    BY <1>9
  <2>5. QED
    BY <1>1, <1>2, <1>3, <1>6, <1>8, <2>1, <2>2, <2>3, <2>4, FramesSent
<1>13. FrameInv(r)'
  BY <1>1, <1>2, <1>3, <1>5, <1>6, <1>8, FramesKept
<1>14. EndInv(q)' /\ EndInv(r)'
  BY <1>1, <1>2, <1>3, <1>5, <1>7, <1>9, <1>10 DEF EndInv, NoLife
<1>15. RequestTypes'
  BY <1>2, <1>3, <1>5, <1>6 DEF RequestTypes
<1>16. AnswerInv'
  <2>1. \A F : Has(chan'[q], F) <=> Has(chan[q], F) \/ "request" \in F
    <3>1. /\ chan[q] \in Seq(RequestFrames) /\ chan'[q] = Append(chan[q], "request")
          /\ "request" \in RequestFrames
      BY <1>6
    <3>2. QED
      BY <3>1, FrameSent
  <2>2. ~Has(chan'[q], Answers) /\ ~Has(chan'[q], {"done"})
    BY <1>11, <2>1 DEF Answers
  <2>3. ~life[r].first /\ life[r].send = "none" /\ life'[q].first = life[q].first
    BY <1>3, <1>5, <1>10 DEF NoLife, NewLife
  <2>4. QED
    BY <1>2, <1>5, <1>6, <1>7, <1>8, <2>2, <2>3 DEF AnswerInv
<1>17. QED
  BY <1>1, <1>12, <1>13, <1>14, <1>15, <1>16 DEF RequestInv19

\* A request is taken.
LEMMA AcceptKeeps == ASSUME RequestInv19, AcceptRequest PROVE RequestInv19'
<1> DEFINE q == "requester"
           r == "responder"
<1>1. q \in Ends /\ r \in Ends /\ Peer(q) = r /\ Peer(r) = q /\ q # r /\ \A x \in Ends : x = q \/ x = r
  BY TheTwoEnds DEF Ends
<1>2. RequestTypes /\ FrameInv(q) /\ FrameInv(r) /\ EndInv(q) /\ EndInv(r) /\ AnswerInv
  BY <1>1 DEF RequestInv19
<1>3. /\ life' = [life EXCEPT ![r] = NewLife(r)] /\ life[r] = NoLife
      /\ chan[q] # <<>> /\ Head(chan[q]) = "request"
      /\ chan' = [chan EXCEPT ![q] = Tail(chan[q])] /\ UNCHANGED <<requestKind, goaway, error, misread>>
  BY <1>1 DEF AcceptRequest, Receives, Take
<1>4. NewLife(r) \in Account
  BY DEF NewLife, Account
<1>5. /\ life' \in [Ends -> Account] /\ life'[q] = life[q] /\ life'[r] = NewLife(r)
  BY <1>1, <1>2, <1>3, <1>4 DEF RequestTypes
<1>6. /\ chan'[q] = Tail(chan[q]) /\ chan'[r] = chan[r] /\ chan[q] \in Seq(RequestFrames)
      /\ chan' \in [Ends -> Seq(RequestFrames)]
  <2>1. chan[q] \in Seq(RequestFrames) /\ chan \in [Ends -> Seq(RequestFrames)]
    BY <1>1, <1>2 DEF RequestTypes
  <2>2. Tail(chan[q]) \in Seq(RequestFrames)
    BY <1>3, <2>1, HeadTailProperties
  <2>3. QED
    BY <1>1, <1>3, <2>1, <2>2
<1>7. /\ life'[r] # NoLife /\ life'[r].recvReq = (requestKind = "Publish") /\ ~life'[r].first
      /\ life'[r].send = "open" /\ life'[r].recv = "open" /\ life'[r].sendReq
  BY <1>5 DEF NewLife, NoLife
<1>8. Owed(q)' = Owed(q) /\ Owed(r)' = Owed(r) /\ Owed(r) = (requestKind = "Publish")
  <2>1. Owed(r) = (requestKind = "Publish")
    BY <1>3 DEF Owed
  <2>2. Owed(r)' = (requestKind = "Publish")
    <3>1. misread'[r] = {}
      BY <1>2, <1>3 DEF EndInv
    <3>2. QED
      BY <1>7, <3>1 DEF Owed
  <2>3. Owed(q)' = Owed(q)
    BY <1>1, <1>3, <1>5, OwedSame
  <2>4. QED
    BY <2>1, <2>2, <2>3
<1>9. life[r].send = "none" /\ ~life[r].first /\ chan[r] = <<>> /\ ~life[q].first /\ Owed(q)
  <2>1. life[r].send = "none" /\ ~life[r].first
    BY <1>3 DEF NoLife
  <2>2. QED
    BY <1>2, <2>1 DEF AnswerInv
<1>10. \A F, o : ~Has(<<>>, F) /\ Once(<<>>, F) /\ FinSettled(<<>>, F, o) /\ DoneOwed(<<>>, F, o) /\ AnswerFirst(<<>>, o)
  BY DEF Has, Once, FinSettled, DoneOwed, AnswerFirst
<1>11. FrameInv(q)'
  <2>1. "request" \notin Settling
    BY DEF Settling
  <2>2. Owed(r)' = (Owed(r) /\ "request" \notin Settling)
    BY <1>8, <2>1
  <2>3. QED
    BY <1>1, <1>2, <1>3, <1>5, <1>6, <2>2, FramesRead
<1>12. FrameInv(r)'
  <2>1. chan'[r] = <<>> /\ Owed(q)' /\ life'[r].sendReq
    BY <1>6, <1>7, <1>8, <1>9
  <2>2. QED
    BY <1>1, <1>10, <2>1 DEF FrameInv
<1>13. EndInv(q)' /\ EndInv(r)'
  BY <1>1, <1>2, <1>3, <1>5, <1>7, <1>9 DEF EndInv
<1>14. RequestTypes'
  BY <1>2, <1>3, <1>5, <1>6 DEF RequestTypes
<1>15. AnswerInv'
  <2>1. \A F : Has(chan[q], F) <=> "request" \in F \/ Has(chan'[q], F)
    BY <1>3, <1>6, FrameRead
  <2>2. ~Has(chan'[q], Answers) /\ ~Has(chan'[q], {"done"}) /\ life[q].send # "none"
    <3>1. ~Has(chan[q], Answers) /\ ~Has(chan[q], {"done"}) /\ life[q].send # "none"
      BY <1>2, <1>3, <1>9 DEF AnswerInv
    <3>2. QED
      BY <2>1, <3>1
  <2>3. chan'[r] = <<>> /\ life'[q] = life[q] /\ Owed(q)'
    BY <1>5, <1>6, <1>8, <1>9
  <2>4. QED
    BY <1>7, <1>9, <1>10, <2>2, <2>3 DEF AnswerInv
<1>16. QED
  BY <1>1, <1>11, <1>12, <1>13, <1>14, <1>15 DEF RequestInv19

\* What the account of an end says of the frame that comes next.
LEMMA NextFrame ==
  ASSUME RequestInv19, NEW e \in Ends, life[e].recv = "open", chan[Peer(e)] # <<>>,
         NEW f, f = Head(chan[Peer(e)])
  PROVE  /\ f \in RequestFrames /\ life[e] # NoLife
         /\ f = "FIN" => ~life[e].recvReq \/ "receive_message" \in misread[e]
         /\ f = "done" => life[e].recvReq /\ "receive_message" \notin misread[e] /\ PublishesTrack(Peer(e)) /\ (e = "responder" => life[e].first)
         /\ f = "goaway" => ~goaway[e].received
         /\ e = "requester" =>
              /\ f \in {"msg", "done"} => life[e].first
              /\ f \in Answers => ~life[e].first
              /\ ~life[e].first => life[e].recvReq /\ "receive_message" \notin misread[e]
         /\ e = "responder" => f \notin Answers
<1> DEFINE p == Peer(e)
<1>1. /\ p \in Ends /\ Peer(p) = e /\ e # p
      /\ (p = "requester" /\ e = "responder") \/ (p = "responder" /\ e = "requester")
  BY TheTwoEnds DEF Ends
<1> HIDE DEF p
<1>2. RequestTypes /\ FrameInv(p) /\ AnswerInv
  BY <1>1 DEF RequestInv19
<1>3. chan[p] \in Seq(RequestFrames) /\ chan[p] # <<>> /\ f = Head(chan[p])
  BY <1>1, <1>2 DEF RequestTypes, p
<1>4. /\ f \in RequestFrames
      /\ \A F : f \in F => Has(chan[p], F)
      /\ FinSettled(chan[p], Settling, Owed(e)) => (f = "FIN" => ~Owed(e))
      /\ DoneOwed(chan[p], Settling, Owed(e)) => (f = "done" => Owed(e))
      /\ AnswerFirst(chan[p], life[e].first) => (f \in {"msg", "done"} => life[e].first)
  BY <1>3, FrameRead
<1>5. life[e] # NoLife /\ Owed(e) = (life[e].recvReq /\ "receive_message" \notin misread[e])
  BY DEF NoLife, Owed
<1>6. /\ FinSettled(chan[p], Settling, Owed(e)) /\ DoneOwed(chan[p], Settling, Owed(e))
      /\ Has(chan[p], {"done"}) => PublishesTrack(p)
      /\ Has(chan[p], {"goaway"}) => ~goaway[e].received
  BY <1>1, <1>2 DEF FrameInv
<1>7. /\ e = "requester" => /\ AnswerFirst(chan[p], life[e].first)
                            /\ Has(chan[p], Answers) => ~life[e].first
                            /\ ~life[e].first => Owed(e)
      /\ e = "responder" => ~Has(chan[p], Answers) /\ (Has(chan[p], {"done"}) => life[e].first)
  BY <1>1, <1>2 DEF AnswerInv
<1>8. QED
  BY <1>4, <1>5, <1>6, <1>7 DEF p

\* What an end reads while it waits for the answer.
LEMMA FirstResponseRead == ASSUME RequestInv19, ReceiveFirstResponse PROVE RequestInv19' /\ closed' = closed
<1> DEFINE e == "requester"
           f == Head(chan[Peer(e)])
<1>1. e \in Ends /\ Peer(e) = "responder" /\ Peer(e) \in Ends /\ e # Peer(e)
  BY TheTwoEnds
<1>2. /\ life[e].recv = "open" /\ ~life[e].first /\ chan[Peer(e)] # <<>> /\ requestKind' = requestKind
      /\ chan' = [chan EXCEPT ![Peer(e)] = Tail(chan[Peer(e)])] /\ misread' = misread
      /\ error[e] # "PrematureFin"
  BY <1>1 DEF ReceiveFirstResponse, Reads, Take
<1>3. /\ f \in RequestFrames /\ life[e].recvReq /\ f # "FIN" /\ f \notin {"msg", "done"}
      /\ f = "goaway" => ~goaway[e].received
  BY <1>1, <1>2, NextFrame
<1>4. /\ life \in [Ends -> Account] /\ life[e] \in Account /\ goaway \in [Ends -> GoAways] /\ goaway[e] \in GoAways
      /\ error \in [Ends -> Draft19Error] /\ misread \in [Ends -> SUBSET ReadCalls]
      /\ error[e] = "InvalidTransition" => "receive_publish_done" \in misread[e]
  BY <1>1 DEF RequestInv19, RequestTypes, EndInv
<1>5. /\ life[e].recvReq = TRUE /\ life[e].first = FALSE /\ goaway[e].received \in BOOLEAN
  BY <1>2, <1>3, <1>4 DEF Account, GoAways
<1> HIDE DEF f
<1>6. ASSUME f \in {"ok", "error"}, UNCHANGED <<goaway, error, closed>>,
             life' = [life EXCEPT ![e].first = TRUE, ![e].recvReq = f = "ok" /\ requestKind = "Subscribe"]
      PROVE  Reading(e, f) /\ closed' = closed
  <2>1. PICK b \in BOOLEAN : b = (f = "ok" /\ requestKind = "Subscribe")
    OBVIOUS
  <2>2. life' = [life EXCEPT ![e].first = TRUE, ![e].recvReq = b]
    BY <1>6, <2>1
  <2>3. /\ life' \in [Ends -> Account] /\ life'[Peer(e)] = life[Peer(e)] /\ life'[e].first = TRUE
        /\ life'[e].recvReq = b /\ life'[e].send = life[e].send /\ life'[e].sendReq = life[e].sendReq
        /\ life'[e].recv = "open"
    BY <1>1, <1>2, <1>4, <2>2 DEF Account
  <2>4. f \in Answers /\ b = (f \notin Settling) /\ f # "goaway"
    BY <1>6, <2>1 DEF Answers, Settling
  <2>5. /\ life'[e].first = (life[e].first \/ f \in Answers)
        /\ life'[e].recvReq = (life[e].recvReq /\ f \notin Settling)
    BY <1>5, <2>3, <2>4
  <2>6. /\ goaway'[e].sent = goaway[e].sent /\ goaway'[e].received = (goaway[e].received \/ f = "goaway")
    BY <1>5, <1>6, <2>4
  <2>7. QED
    BY <1>2, <1>4, <1>6, <2>3, <2>5, <2>6 DEF Reading, f
<1>7. ASSUME f \notin Answers, f \notin Settling, UNCHANGED life
      PROVE  /\ life' \in [Ends -> Account] /\ life'[Peer(e)] = life[Peer(e)]
             /\ life'[e].first = (life[e].first \/ f \in Answers)
             /\ life'[e].recvReq = (life[e].recvReq /\ f \notin Settling)
             /\ life'[e].send = life[e].send /\ life'[e].sendReq = life[e].sendReq /\ life'[e].recv = "open"
  BY <1>2, <1>4, <1>5, <1>7
<1>8. ASSUME f = "goaway", goaway' = [goaway EXCEPT ![e].received = TRUE], UNCHANGED <<life, error, closed>>
      PROVE  Reading(e, f) /\ closed' = closed
  <2>1. f \notin Answers /\ f \notin Settling
    BY <1>8 DEF Answers, Settling
  <2>2. /\ goaway' \in [Ends -> GoAways] /\ goaway'[Peer(e)] = goaway[Peer(e)] /\ goaway'[e].sent = goaway[e].sent
        /\ goaway'[e].received = TRUE
    BY <1>1, <1>4, <1>8 DEF GoAways
  <2>3. goaway'[e].received = (goaway[e].received \/ f = "goaway")
    BY <1>8, <2>2
  <2>4. QED
    BY <1>2, <1>4, <1>7, <1>8, <2>1, <2>2, <2>3 DEF Reading, f
<1>9. ASSUME f \in {"FIN", "FIN-goaway", "RESET"}, UNCHANGED <<life, goaway, closed>>,
             NEW x \in {"PrematureFin", "Transport"}, x = "PrematureFin" => f = "FIN-goaway",
             error' = [error EXCEPT ![e] = x]
      PROVE  Reading(e, f) /\ closed' = closed
  <2>1. f \notin Answers /\ f \notin Settling /\ f # "goaway"
    BY <1>9 DEF Answers, Settling
  <2>2. goaway'[e].received = (goaway[e].received \/ f = "goaway")
    BY <1>5, <1>9, <2>1
  <2>3. /\ error' \in [Ends -> Draft19Error] /\ error'[Peer(e)] = error[Peer(e)] /\ error'[e] = x
    BY <1>1, <1>4, <1>9 DEF Draft19Error
  <2>4. QED
    BY <1>2, <1>4, <1>7, <1>9, <2>1, <2>2, <2>3 DEF Reading, f
<1>10. Reading(e, f) /\ closed' = closed
  <2>1. /\ f = "FIN-goaway" \/ f \notin {"FIN", "FIN-goaway"}
        /\ f \in {"FIN", "FIN-goaway"} /\ Fail(e, IF life[e].recvReq THEN "PrematureFin" ELSE "InvalidTransition")
             => error' = [error EXCEPT ![e] = "PrematureFin"]
        /\ Fail(e, "Transport") => error' = [error EXCEPT ![e] = "Transport"]
    BY <1>3 DEF Fail
  <2>2. f = Head(chan["responder"])
    BY <1>1 DEF f
  <2>3. QED
    BY <1>3, <1>6, <1>8, <1>9, <2>1, <2>2 DEF ReceiveFirstResponse
<1>11. QED
  BY <1>1, <1>10, ReadingKeeps

\* What an end reads then, with either of the two calls.
LEMMA MessageRead ==
  ASSUME RequestInv19, NEW e \in Ends, ReceiveMessage(e) \/ ReceivePublishDone(e)
  PROVE  RequestInv19' /\ closed' = closed
<1> DEFINE f == Head(chan[Peer(e)])
           m == "receive_message"
           d == "receive_publish_done"
<1>1. Peer(e) \in Ends /\ e # Peer(e) /\ (e = "requester" \/ e = "responder") /\ m # d /\ m \in ReadCalls /\ d \in ReadCalls
  BY TheTwoEnds DEF Ends, ReadCalls
<1>2. /\ life[e].recv = "open" /\ (e = "responder" \/ life[e].first) /\ chan[Peer(e)] # <<>>
      /\ requestKind' = requestKind /\ error[e] # "PrematureFin"
      /\ chan' = [chan EXCEPT ![Peer(e)] = Tail(chan[Peer(e)])]
  BY DEF ReceiveMessage, ReceivePublishDone, TakeFrame, Reads, Take, CanReceiveFollowup
<1>3. /\ f \in RequestFrames /\ (f = "FIN" => ~life[e].recvReq \/ m \in misread[e])
      /\ f = "done" => life[e].first /\ PublishesTrack(Peer(e)) /\ life[e].recvReq
      /\ f = "goaway" => ~goaway[e].received
  BY <1>1, <1>2, NextFrame
<1>4. /\ life \in [Ends -> Account] /\ life[e] \in Account /\ goaway \in [Ends -> GoAways] /\ goaway[e] \in GoAways
      /\ error \in [Ends -> Draft19Error] /\ misread \in [Ends -> SUBSET ReadCalls]
      /\ error[e] = "InvalidTransition" => d \in misread[e]
  BY DEF RequestInv19, RequestTypes, EndInv
<1>5. life[e].recvReq \in BOOLEAN /\ life[e].first \in BOOLEAN /\ goaway[e].received \in BOOLEAN
  BY <1>4 DEF Account, GoAways
<1> HIDE DEF f, m, d
<1> DEFINE LifeAsRead == /\ life' \in [Ends -> Account] /\ life'[Peer(e)] = life[Peer(e)]
                         /\ life'[e].first = (life[e].first \/ f \in Answers)
                         /\ life'[e].send = life[e].send /\ life'[e].sendReq = life[e].sendReq
                         /\ life'[e].recv = "finished" => ~life'[e].recvReq /\ f \in FinFrames
           OwedAsRead == life'[e].recvReq /\ m \notin misread'[e] <=>
                           life[e].recvReq /\ m \notin misread[e] /\ f \notin Settling
           GoAwayAsRead == /\ goaway' \in [Ends -> GoAways] /\ goaway'[Peer(e)] = goaway[Peer(e)]
                           /\ goaway'[e].sent = goaway[e].sent
                           /\ goaway'[e].received = (goaway[e].received \/ f = "goaway")
           CallsAsRead == /\ misread' \in [Ends -> SUBSET ReadCalls] /\ misread'[Peer(e)] = misread[Peer(e)]
                          /\ misread[e] \subseteq misread'[e]
           ErrorAsRead == /\ error' \in [Ends -> Draft19Error] /\ error'[Peer(e)] = error[Peer(e)]
                          /\ error'[e] = "InvalidTransition" => d \in misread'[e]
                          /\ error'[e] = "PrematureFin" => f = "FIN-goaway" \/ misread'[e] # {}
<1>6. ASSUME LifeAsRead, OwedAsRead, GoAwayAsRead, CallsAsRead, ErrorAsRead PROVE Reading(e, f)
  BY <1>2, <1>6 DEF Reading, f, m, d
<1> HIDE DEF LifeAsRead, OwedAsRead, GoAwayAsRead, CallsAsRead, ErrorAsRead
<1>7. UNCHANGED life /\ f \notin Answers => LifeAsRead
  BY <1>2, <1>4, <1>5 DEF LifeAsRead
<1>8. UNCHANGED goaway /\ f # "goaway" => GoAwayAsRead
  BY <1>4, <1>5 DEF GoAwayAsRead
<1>9. goaway' = [goaway EXCEPT ![e].received = TRUE] /\ f = "goaway" => GoAwayAsRead
  <2>1. ASSUME goaway' = [goaway EXCEPT ![e].received = TRUE]
        PROVE  /\ goaway' \in [Ends -> GoAways] /\ goaway'[Peer(e)] = goaway[Peer(e)] /\ goaway'[e].sent = goaway[e].sent
               /\ goaway'[e].received = TRUE
    BY <1>1, <1>4, <2>1 DEF GoAways
  <2>2. QED
    BY <2>1 DEF GoAwayAsRead
<1>10. UNCHANGED misread => CallsAsRead
  BY <1>4 DEF CallsAsRead
<1>11. ASSUME NEW c \in ReadCalls, Misread(e, c) PROVE CallsAsRead /\ misread'[e] = misread[e] \union {c}
  <2>1. misread' = [misread EXCEPT ![e] = misread[e] \union {c}] /\ misread[e] \in SUBSET ReadCalls
    BY <1>4, <1>11 DEF Misread
  <2>2. misread[e] \union {c} \in SUBSET ReadCalls
    BY <1>11, <2>1
  <2>3. QED
    BY <1>1, <1>4, <2>1, <2>2 DEF CallsAsRead
<1>12. UNCHANGED <<error, misread>> => ErrorAsRead
  BY <1>2, <1>4 DEF ErrorAsRead
<1>13. ASSUME NEW x \in Draft19Error, Fail(e, x), x = "InvalidTransition" => d \in misread'[e],
              x = "PrematureFin" => f = "FIN-goaway" \/ misread'[e] # {}
       PROVE  ErrorAsRead
  <2>1. error' \in [Ends -> Draft19Error] /\ error'[Peer(e)] = error[Peer(e)] /\ error'[e] = x
    BY <1>1, <1>4, <1>13 DEF Fail
  <2>2. QED
    BY <1>13, <2>1 DEF ErrorAsRead
<1>14. UNCHANGED <<life, misread>> /\ f \notin Settling => OwedAsRead
  BY DEF OwedAsRead
<1>15. ASSUME life' = [life EXCEPT ![e].recv = "finished"], ~life[e].recvReq, f \in FinFrames
       PROVE  LifeAsRead /\ OwedAsRead
  <2>1. /\ life' \in [Ends -> Account] /\ life'[Peer(e)] = life[Peer(e)] /\ life'[e].first = life[e].first
        /\ life'[e].recvReq = life[e].recvReq /\ life'[e].send = life[e].send /\ life'[e].sendReq = life[e].sendReq
    BY <1>1, <1>2, <1>4, <1>15 DEF Account
  <2>2. f \notin Answers
    BY <1>15 DEF Answers, FinFrames
  <2>3. QED
    BY <1>5, <1>15, <2>1, <2>2 DEF LifeAsRead, OwedAsRead
<1>16. ASSUME f = "done", life' = [life EXCEPT ![e].recvReq = FALSE] PROVE LifeAsRead /\ OwedAsRead
  <2>1. /\ life' \in [Ends -> Account] /\ life'[Peer(e)] = life[Peer(e)] /\ life'[e].first = life[e].first
        /\ life'[e].recvReq = FALSE /\ life'[e].send = life[e].send /\ life'[e].sendReq = life[e].sendReq
        /\ life'[e].recv = "open"
    BY <1>1, <1>2, <1>4, <1>16 DEF Account
  <2>2. f \notin Answers /\ f \in Settling
    BY <1>16 DEF Answers, Settling
  <2>3. QED
    BY <1>5, <2>1, <2>2 DEF LifeAsRead, OwedAsRead
<1>17. ASSUME f = "done", UNCHANGED life, Misread(e, m) PROVE LifeAsRead /\ OwedAsRead /\ CallsAsRead
  <2>1. f \notin Answers /\ f \in Settling
    BY <1>17 DEF Answers, Settling
  <2>2. CallsAsRead /\ misread'[e] = misread[e] \union {m}
    BY <1>1, <1>11, <1>17
  <2>3. QED
    BY <1>7, <1>17, <2>1, <2>2 DEF OwedAsRead
<1>18. ASSUME Misread(e, d), UNCHANGED life, f \notin Settling PROVE OwedAsRead /\ d \in misread'[e]
  <2>1. misread'[e] = misread[e] \union {d}
    BY <1>1, <1>11, <1>18
  <2>2. QED
    BY <1>1, <1>18, <2>1 DEF OwedAsRead
<1>19. /\ {"msg", "goaway", "FIN", "FIN-goaway", "RESET"} \cap (Answers \union Settling) = {} /\ "done" \notin Answers
       /\ FinFrames = {"FIN", "FIN-goaway"} /\ {"PrematureFin", "InvalidTransition", "Transport"} \subseteq Draft19Error
  BY DEF Answers, Settling, FinFrames, Draft19Error
<1>20. ASSUME ReceiveMessage(e) PROVE Reading(e, f) /\ closed' = closed
  <2>1. CASE f = "msg" /\ UNCHANGED <<life, goaway, error, misread, closed>>
    BY <1>6, <1>7, <1>8, <1>10, <1>12, <1>14, <1>19, <2>1
  <2>2. CASE f = "done" /\ Misread(e, m) /\ UNCHANGED <<life, goaway, error, closed>>
    <3>1. ErrorAsRead
      <4>1. d \in misread[e] => d \in misread'[e]
        BY <1>1, <1>11, <2>2
      <4>2. QED
        BY <1>2, <1>4, <2>2, <4>1 DEF ErrorAsRead
    <3>2. QED
      BY <1>6, <1>8, <1>17, <2>2, <3>1
  <2>3. CASE f = "goaway" /\ goaway' = [goaway EXCEPT ![e].received = TRUE] /\ UNCHANGED <<life, error, misread, closed>>
    BY <1>6, <1>7, <1>9, <1>10, <1>12, <1>14, <1>19, <2>3
  <2>4. CASE /\ f \in FinFrames /\ ~life[e].recvReq /\ life' = [life EXCEPT ![e].recv = "finished"]
             /\ UNCHANGED <<goaway, error, misread, closed>>
    BY <1>6, <1>8, <1>10, <1>12, <1>15, <1>19, <2>4
  <2>5. CASE f \in FinFrames /\ life[e].recvReq /\ Fail(e, "PrematureFin") /\ UNCHANGED <<life, goaway, misread, closed>>
    <3>1. ErrorAsRead
      BY <1>3, <1>13, <1>19, <2>5
    <3>2. QED
      BY <1>6, <1>7, <1>8, <1>10, <1>14, <1>19, <2>5, <3>1
  <2>6. CASE f = "RESET" /\ Fail(e, "Transport") /\ UNCHANGED <<life, goaway, misread, closed>>
    <3>1. ErrorAsRead
      BY <1>13, <1>19, <2>6
    <3>2. QED
      BY <1>6, <1>7, <1>8, <1>10, <1>14, <1>19, <2>6, <3>1
  <2>7. QED
    BY <1>3, <1>19, <1>20, <2>1, <2>2, <2>3, <2>4, <2>5, <2>6 DEF ReceiveMessage, f, m
<1>21. ASSUME ReceivePublishDone(e) PROVE Reading(e, f) /\ closed' = closed
  <2>1. CASE f = "done" /\ life' = [life EXCEPT ![e].recvReq = FALSE] /\ UNCHANGED <<goaway, error, misread, closed>>
    BY <1>6, <1>8, <1>10, <1>12, <1>16, <2>1
  <2>2. CASE f = "msg" /\ Fail(e, "InvalidTransition") /\ Misread(e, d) /\ UNCHANGED <<life, goaway, closed>>
    <3>1. OwedAsRead /\ CallsAsRead /\ d \in misread'[e]
      BY <1>1, <1>11, <1>18, <1>19, <2>2
    <3>2. ErrorAsRead
      BY <1>13, <1>19, <2>2, <3>1
    <3>3. QED
      BY <1>6, <1>7, <1>8, <1>19, <2>2, <3>1, <3>2
  <2>3. CASE /\ f = "goaway" /\ goaway' = [goaway EXCEPT ![e].received = TRUE]
             /\ Fail(e, "InvalidTransition") /\ Misread(e, d) /\ UNCHANGED <<life, closed>>
    <3>1. OwedAsRead /\ CallsAsRead /\ d \in misread'[e]
      BY <1>1, <1>11, <1>18, <1>19, <2>3
    <3>2. ErrorAsRead
      BY <1>13, <1>19, <2>3, <3>1
    <3>3. QED
      BY <1>6, <1>7, <1>9, <1>19, <2>3, <3>1, <3>2
  <2>4. CASE /\ f \in FinFrames /\ ~life[e].recvReq /\ life' = [life EXCEPT ![e].recv = "finished"]
             /\ Fail(e, "PrematureFin") /\ Misread(e, d) /\ UNCHANGED <<goaway, closed>>
    <3>1. CallsAsRead /\ misread'[e] # {}
      BY <1>1, <1>11, <2>4
    <3>2. ErrorAsRead
      BY <1>13, <1>19, <2>4, <3>1
    <3>3. QED
      BY <1>6, <1>8, <1>15, <1>19, <2>4, <3>1, <3>2
  <2>5. CASE f \in FinFrames /\ life[e].recvReq /\ Fail(e, "PrematureFin") /\ UNCHANGED <<life, goaway, misread, closed>>
    <3>1. ErrorAsRead
      BY <1>3, <1>13, <1>19, <2>5
    <3>2. QED
      BY <1>6, <1>7, <1>8, <1>10, <1>14, <1>19, <2>5, <3>1
  <2>6. CASE f = "RESET" /\ Fail(e, "Transport") /\ UNCHANGED <<life, goaway, misread, closed>>
    <3>1. ErrorAsRead
      BY <1>13, <1>19, <2>6
    <3>2. QED
      BY <1>6, <1>7, <1>8, <1>10, <1>14, <1>19, <2>6, <3>1
  <2>7. QED
    BY <1>3, <1>19, <1>21, <2>1, <2>2, <2>3, <2>4, <2>5, <2>6 DEF ReceivePublishDone, f, d
<1>22. QED
  BY <1>20, <1>21, ReadingKeeps

-----------------------------------------------------------------------------
(* The control streams of draft-19                                            *)

\* The part of the invariant that is about the control streams.
ControlInv19 == ControlTypes /\ client \in Ends /\ \A e \in Ends : ControlInv(e)

\* A GOAWAY after the setup.
LEMMA ControlAppend == ASSUME NEW w PROVE Append(<<"setup">>, w) = <<"setup", w>>
<1> DEFINE T == {"setup", w}
<1>1. /\ Append(<<"setup">>, w) \in Seq(T) /\ Len(Append(<<"setup">>, w)) = 2
      /\ Append(<<"setup">>, w)[1] = "setup" /\ Append(<<"setup">>, w)[2] = w
  OBVIOUS
<1>2. <<"setup", w>> \in Seq(T) /\ Len(<<"setup", w>>) = 2 /\ <<"setup", w>>[1] = "setup" /\ <<"setup", w>>[2] = w
  OBVIOUS
<1>3. \A i \in 1 .. 2 : i = 1 \/ i = 2
  OBVIOUS
<1>4. \A i \in 1 .. Len(Append(<<"setup">>, w)) : Append(<<"setup">>, w)[i] = <<"setup", w>>[i]
  BY <1>1, <1>2, <1>3
<1>5. QED
  BY <1>1, <1>2, <1>4, SeqEqual

\* What a control stream still carries: the setup when it is pending, and then the GOAWAY.
LEMMA ControlWord ==
  ASSUME NEW w, NEW s, NEW g
  PROVE  (IF s THEN <<"setup">> ELSE <<>>) \o (IF g THEN <<w>> ELSE <<>>) =
           (IF s THEN IF g THEN <<"setup", w>> ELSE <<"setup">> ELSE IF g THEN <<w>> ELSE <<>>)
<1> DEFINE T == {"setup", w}
<1>1. <<"setup">> \in Seq(T) /\ <<w>> \in Seq(T) /\ <<>> \in Seq(T)
  OBVIOUS
<1>2. <<"setup">> \o <<>> = <<"setup">> /\ <<>> \o <<w>> = <<w>> /\ <<>> \o <<>> = <<>>
  BY <1>1, ConcatEmptySeq
<1>3. <<"setup">> \o <<w>> = Append(<<"setup">>, w)
  BY <1>1, AppendIsConcat
<1>4. Append(<<"setup">>, w) = <<"setup", w>>
  BY ControlAppend
<1>5. QED
  BY <1>2, <1>3, <1>4

\* What an end was sent on its control stream.
Pending(p) ==
  LET e == Peer(p)
      w == IF p = client THEN "goaway" ELSE "goaway-uri"
      s == control[p].setupSent /\ ~control[e].setupReceived
      g == control[p].sent /\ ~control[e].received
  IN  /\ s /\ g => ctlChan[p] = <<"setup", w>>
      /\ s /\ ~g => ctlChan[p] = <<"setup">>
      /\ ~s /\ g => ctlChan[p] = <<w>>
      /\ ~s /\ ~g => ctlChan[p] = <<>>

\* The invariant of a control stream says what is pending.
LEMMA ControlPending ==
  ASSUME NEW p
  PROVE  ControlInv(p) <=>
           /\ control[Peer(p)].setupReceived => control[p].setupSent
           /\ control[Peer(p)].received => control[p].sent /\ control[Peer(p)].setupReceived
           /\ control[p].sent => control[p].setupSent
           /\ Pending(p)
<1> DEFINE e == Peer(p)
           w == IF p = client THEN "goaway" ELSE "goaway-uri"
           s == control[p].setupSent /\ ~control[e].setupReceived
           g == control[p].sent /\ ~control[e].received
<1>1. (IF s THEN <<"setup">> ELSE <<>>) \o (IF g THEN <<w>> ELSE <<>>) =
           (IF s THEN IF g THEN <<"setup", w>> ELSE <<"setup">> ELSE IF g THEN <<w>> ELSE <<>>)
  BY ControlWord
<1>2. ctlChan[p] = (IF s THEN IF g THEN <<"setup", w>> ELSE <<"setup">> ELSE IF g THEN <<w>> ELSE <<>>) <=> Pending(p)
  BY DEF Pending
<1>3. ControlInv(p) <=>
           /\ control[e].setupReceived => control[p].setupSent
           /\ control[e].received => control[p].sent /\ control[e].setupReceived
           /\ control[p].sent => control[p].setupSent
           /\ ctlChan[p] = (IF s THEN <<"setup">> ELSE <<>>) \o (IF g THEN <<w>> ELSE <<>>)
  BY DEF ControlInv
<1>4. QED
  BY <1>1, <1>2, <1>3

\* The sequences of a control stream.
LEMMA ControlSeqs ==
  ASSUME NEW w
  PROVE  /\ Append(<<>>, "setup") = <<"setup">> /\ Append(<<>>, w) = <<w>> /\ Append(<<"setup">>, w) = <<"setup", w>>
         /\ Head(<<"setup">>) = "setup" /\ Tail(<<"setup">>) = <<>> /\ Head(<<w>>) = w /\ Tail(<<w>>) = <<>>
         /\ Head(<<"setup", w>>) = "setup" /\ Tail(<<"setup", w>>) = <<w>>
         /\ <<w>> # <<>> /\ <<"setup">> # <<>> /\ <<"setup", w>> # <<>>
<1> DEFINE T == {"setup", w}
<1>1. <<"setup">> \in Seq(T) /\ <<w>> \in Seq(T) /\ <<>> \in Seq(T) /\ <<"setup", w>> \in Seq(T)
  OBVIOUS
<1>2. Append(<<>>, "setup") = <<"setup">> /\ Append(<<>>, w) = <<w>>
  BY <1>1, ConcatEmptySeq, AppendIsConcat
<1>3. Append(<<"setup">>, w) = <<"setup", w>>
  BY <1>1, ControlAppend
<1>4. Tail(<<"setup">>) = <<>> /\ Tail(<<w>>) = <<>> /\ Tail(<<"setup", w>>) = <<w>>
  <2>1. \A x \in T : Append(<<>>, x) = <<x>> /\ Head(Append(<<>>, x)) = x /\ Tail(Append(<<>>, x)) = <<>>
    BY <1>1, HeadTailAppend, ConcatEmptySeq, AppendIsConcat
  <2>2. Tail(Append(<<"setup">>, w)) = Append(Tail(<<"setup">>), w)
    BY <1>1, HeadTailAppend
  <2>3. QED
    BY <1>2, <1>3, <2>1, <2>2
<1>5. Head(<<"setup">>) = "setup" /\ Head(<<w>>) = w /\ Head(<<"setup", w>>) = "setup"
  OBVIOUS
<1>6. <<w>> # <<>> /\ <<"setup">> # <<>> /\ <<"setup", w>> # <<>>
  OBVIOUS
<1>7. QED
  BY <1>2, <1>3, <1>4, <1>5, <1>6

\* A control stream on which nothing happens.
LEMMA ControlKept ==
  ASSUME NEW p \in Ends, ControlInv(p), client' = client, ctlChan'[p] = ctlChan[p],
         control'[p].setupSent = control[p].setupSent, control'[p].sent = control[p].sent,
         control'[Peer(p)].setupReceived = control[Peer(p)].setupReceived,
         control'[Peer(p)].received = control[Peer(p)].received
  PROVE  ControlInv(p)'
  BY DEF ControlInv

\* The control streams carry what they may, and no end closes the session for it.
LEMMA ControlKeeps ==
  ASSUME ControlInv19, NEW x \in Ends,
         SendSetup(x) \/ ReceiveSetup(x) \/ SendControlGoAway(x) \/ ReceiveControl(x)
  PROVE  ControlInv19' /\ closed' = closed
<1> DEFINE y == Peer(x)
           W == {"setup", "goaway", "goaway-uri"}
           w(p) == IF p = client THEN "goaway" ELSE "goaway-uri"
<1>1. y \in Ends /\ Peer(y) = x /\ x # y /\ \A e \in Ends : e = x \/ e = y
  BY TheTwoEnds
<1>2. ControlTypes /\ client \in Ends /\ ControlInv(x) /\ ControlInv(y) /\ client' = client
  BY <1>1 DEF ControlInv19, SendSetup, ReceiveSetup, SendControlGoAway, ReceiveControl
<1>3. /\ control \in [Ends -> ControlAccount] /\ control[x] \in ControlAccount /\ control[y] \in ControlAccount
      /\ ctlChan \in [Ends -> Seq(W)] /\ ctlChan[x] \in Seq(W) /\ ctlChan[y] \in Seq(W) /\ w(x) \in W
      /\ closed = closed
  BY <1>1, <1>2 DEF ControlTypes
<1>4. /\ control[y].setupReceived => control[x].setupSent
      /\ control[y].received => control[x].sent /\ control[y].setupReceived
      /\ control[x].sent => control[x].setupSent
      /\ Pending(x)
  BY <1>2, ControlPending DEF y
<1>5. /\ control[x].setupReceived => control[y].setupSent
      /\ control[x].received => control[y].sent /\ control[x].setupReceived
      /\ control[y].sent => control[y].setupSent
      /\ Pending(y)
  BY <1>1, <1>2, ControlPending
<1>6. ASSUME NEW p \in Ends,
             /\ control'[Peer(p)].setupReceived => control'[p].setupSent
             /\ control'[Peer(p)].received => control'[p].sent /\ control'[Peer(p)].setupReceived
             /\ control'[p].sent => control'[p].setupSent
             /\ Pending(p)'
      PROVE  ControlInv(p)'
  <2> DEFINE e == Peer(p)
             v == IF p = client' THEN "goaway" ELSE "goaway-uri"
             s == control'[p].setupSent /\ ~control'[e].setupReceived
             g == control'[p].sent /\ ~control'[e].received
  <2>1. (IF s THEN <<"setup">> ELSE <<>>) \o (IF g THEN <<v>> ELSE <<>>) =
           (IF s THEN IF g THEN <<"setup", v>> ELSE <<"setup">> ELSE IF g THEN <<v>> ELSE <<>>)
    BY ControlWord
  <2>2. ctlChan'[p] = (IF s THEN IF g THEN <<"setup", v>> ELSE <<"setup">> ELSE IF g THEN <<v>> ELSE <<>>)
    BY <1>6 DEF Pending
  <2>3. ctlChan'[p] = (IF s THEN <<"setup">> ELSE <<>>) \o (IF g THEN <<v>> ELSE <<>>)
    BY <2>1, <2>2
  <2>4. QED
    BY <1>6, <2>3 DEF ControlInv
<1> HIDE DEF y, w
<1>7. ASSUME SendSetup(x) PROVE ControlInv19' /\ closed' = closed
  <2>1. /\ ~control[x].setupSent /\ control' = [control EXCEPT ![x].setupSent = TRUE]
        /\ ctlChan' = [ctlChan EXCEPT ![x] = Append(ctlChan[x], "setup")] /\ closed' = closed
    BY <1>7 DEF SendSetup
  <2>2. /\ control' \in [Ends -> ControlAccount] /\ control'[y] = control[y] /\ control'[x].setupSent = TRUE
        /\ control'[x].setupReceived = control[x].setupReceived /\ control'[x].sent = control[x].sent
        /\ control'[x].received = control[x].received
    BY <1>1, <1>3, <2>1 DEF ControlAccount
  <2>3. ctlChan' \in [Ends -> Seq(W)] /\ ctlChan'[x] = Append(ctlChan[x], "setup") /\ ctlChan'[y] = ctlChan[y]
    BY <1>1, <1>3, <2>1
  <2>4. ~control[x].sent /\ ~control[y].setupReceived /\ ~control[y].received
    BY <1>4, <2>1
  <2>5. ctlChan[x] = <<>>
    BY <1>4, <2>1, <2>4 DEF Pending, y
  <2>6. ctlChan'[x] = <<"setup">>
    BY <2>3, <2>5, ControlSeqs
  <2>7. Pending(x)'
    BY <1>2, <2>2, <2>4, <2>6 DEF Pending, y
  <2>8. ControlInv(x)'
    BY <1>6, <2>2, <2>4, <2>7 DEF y
  <2>9. ControlInv(y)'
    BY <1>1, <1>2, <2>2, <2>3, ControlKept
  <2>10. QED
    BY <1>1, <1>2, <2>1, <2>2, <2>3, <2>8, <2>9 DEF ControlInv19, ControlTypes
<1>8. ASSUME ReceiveSetup(x) PROVE ControlInv19' /\ closed' = closed
  <2>1. /\ ~control[x].setupReceived /\ control' = [control EXCEPT ![x].setupReceived = TRUE]
        /\ ctlChan[y] # <<>> /\ Head(ctlChan[y]) = "setup"
        /\ ctlChan' = [ctlChan EXCEPT ![y] = Tail(ctlChan[y])] /\ closed' = closed
    BY <1>8 DEF ReceiveSetup, y
  <2>2. /\ control' \in [Ends -> ControlAccount] /\ control'[y] = control[y] /\ control'[x].setupReceived = TRUE
        /\ control'[x].setupSent = control[x].setupSent /\ control'[x].sent = control[x].sent
        /\ control'[x].received = control[x].received
    BY <1>1, <1>3, <2>1 DEF ControlAccount
  <2>3. ctlChan' \in [Ends -> Seq(W)] /\ ctlChan'[y] = Tail(ctlChan[y]) /\ ctlChan'[x] = ctlChan[x]
    <3>1. Tail(ctlChan[y]) \in Seq(W)
      BY <1>3, <2>1, HeadTailProperties
    <3>2. QED
      BY <1>1, <1>3, <2>1, <3>1
  <2>4. ~control[x].received
    BY <1>5, <2>1
  <2>5. control[y].setupSent
    <3> SUFFICES ASSUME ~control[y].setupSent PROVE FALSE
      OBVIOUS
    <3>1. ctlChan[y] = <<>>
      BY <1>1, <1>5 DEF Pending
    <3>2. QED
      BY <2>1, <3>1
  <2>6. /\ control[y].sent => ctlChan[y] = <<"setup", w(y)>>
        /\ ~control[y].sent => ctlChan[y] = <<"setup">>
    BY <1>1, <1>5, <2>1, <2>4, <2>5 DEF Pending, w
  <2>7. /\ control[y].sent => ctlChan'[y] = <<w(y)>>
        /\ ~control[y].sent => ctlChan'[y] = <<>>
    BY <2>3, <2>6, ControlSeqs
  <2>8. Pending(y)'
    BY <1>1, <1>2, <2>2, <2>4, <2>7 DEF Pending, w
  <2>9. ControlInv(y)'
    BY <1>1, <1>5, <1>6, <2>2, <2>4, <2>5, <2>8
  <2>10. ControlInv(x)'
    BY <1>1, <1>2, <2>2, <2>3, ControlKept DEF y
  <2>11. QED
    BY <1>1, <1>2, <2>1, <2>2, <2>3, <2>9, <2>10 DEF ControlInv19, ControlTypes
<1>9. ASSUME SendControlGoAway(x) PROVE ControlInv19' /\ closed' = closed
  <2>1. /\ ~control[x].sent /\ control[x].setupSent /\ control' = [control EXCEPT ![x].sent = TRUE]
        /\ ctlChan' = [ctlChan EXCEPT ![x] = Append(ctlChan[x], w(x))] /\ closed' = closed
    BY <1>9 DEF SendControlGoAway, Ready, w
  <2>2. /\ control' \in [Ends -> ControlAccount] /\ control'[y] = control[y] /\ control'[x].sent = TRUE
        /\ control'[x].setupReceived = control[x].setupReceived /\ control'[x].setupSent = control[x].setupSent
        /\ control'[x].received = control[x].received
    BY <1>1, <1>3, <2>1 DEF ControlAccount
  <2>3. ctlChan' \in [Ends -> Seq(W)] /\ ctlChan'[x] = Append(ctlChan[x], w(x)) /\ ctlChan'[y] = ctlChan[y]
    BY <1>1, <1>3, <2>1
  <2>4. ~control[y].received
    BY <1>4, <2>1
  <2>5. /\ ~control[y].setupReceived => ctlChan[x] = <<"setup">>
        /\ control[y].setupReceived => ctlChan[x] = <<>>
    BY <1>4, <2>1, <2>4 DEF Pending, y
  <2>6. /\ ~control[y].setupReceived => ctlChan'[x] = <<"setup", w(x)>>
        /\ control[y].setupReceived => ctlChan'[x] = <<w(x)>>
    BY <2>3, <2>5, ControlSeqs
  <2>7. Pending(x)'
    BY <1>2, <2>1, <2>2, <2>4, <2>6 DEF Pending, y, w
  <2>8. ControlInv(x)'
    BY <1>4, <1>6, <2>1, <2>2, <2>4, <2>7 DEF y
  <2>9. ControlInv(y)'
    BY <1>1, <1>2, <2>2, <2>3, ControlKept
  <2>10. QED
    BY <1>1, <1>2, <2>1, <2>2, <2>3, <2>8, <2>9 DEF ControlInv19, ControlTypes
<1>10. ASSUME ReceiveControl(x) PROVE ControlInv19' /\ closed' = closed
  <2>1. /\ control[x].setupReceived /\ ctlChan[y] # <<>> /\ ctlChan' = [ctlChan EXCEPT ![y] = Tail(ctlChan[y])]
    BY <1>10 DEF ReceiveControl, Ready, y
  <2>2. control[y].sent /\ ~control[x].received /\ ctlChan[y] = <<w(y)>>
    <3>1. ~(control[y].sent /\ ~control[x].received) => ctlChan[y] = <<>>
      BY <1>1, <1>5, <2>1 DEF Pending
    <3>2. control[y].sent /\ ~control[x].received
      BY <2>1, <3>1
    <3>3. QED
      BY <1>1, <1>5, <2>1, <3>2 DEF Pending, w
  <2>3. Head(ctlChan[y]) = w(y) /\ Tail(ctlChan[y]) = <<>>
    BY <2>2, ControlSeqs
  <2>4. ~(Head(ctlChan[y]) = "goaway-uri" /\ x # client)
    BY <1>1, <1>2, <2>3 DEF w
  <2>5. control' = [control EXCEPT ![x].received = TRUE] /\ closed' = closed
    BY <1>10, <2>2, <2>4 DEF ReceiveControl, y
  <2>6. /\ control' \in [Ends -> ControlAccount] /\ control'[y] = control[y] /\ control'[x].received = TRUE
        /\ control'[x].setupReceived = control[x].setupReceived /\ control'[x].setupSent = control[x].setupSent
        /\ control'[x].sent = control[x].sent
    BY <1>1, <1>3, <2>5 DEF ControlAccount
  <2>7. ctlChan' \in [Ends -> Seq(W)] /\ ctlChan'[y] = <<>> /\ ctlChan'[x] = ctlChan[x]
    BY <1>1, <1>3, <2>1, <2>3
  <2>8. Pending(y)'
    BY <1>1, <2>1, <2>6, <2>7 DEF Pending
  <2>9. ControlInv(y)'
    BY <1>1, <1>5, <1>6, <2>1, <2>2, <2>6, <2>8
  <2>10. ControlInv(x)'
    BY <1>1, <1>2, <2>6, <2>7, ControlKept DEF y
  <2>11. QED
    BY <1>1, <1>2, <2>5, <2>6, <2>7, <2>9, <2>10 DEF ControlInv19, ControlTypes
<1>11. QED
  BY <1>7, <1>8, <1>9, <1>10

\* A step of the request stream keeps the accounts of the control streams.
LEMMA ControlSame ==
  ASSUME ControlInv19, UNCHANGED <<client, control, ctlChan>> PROVE ControlInv19'
  BY DEF ControlInv19, ControlTypes, ControlInv

\* Every step keeps the accounts.
LEMMA AccountsStep == ASSUME AccountsInv, [Draft19Next]_draft19Vars PROVE AccountsInv'
<1>1. RequestInv19 /\ ControlInv19 /\ closed \in SessionErrorCode /\ closed # "ProtocolViolation"
  BY DEF AccountsInv, RequestInv19, ControlInv19
<1>2. ASSUME RequestInv19', ControlInv19', closed' \in SessionErrorCode, closed' # "ProtocolViolation"
      PROVE  AccountsInv'
  BY <1>2 DEF AccountsInv, RequestInv19, ControlInv19
<1>3. ASSUME UNCHANGED <<client, control, ctlChan, closed>>, RequestInv19' PROVE AccountsInv'
  BY <1>1, <1>2, <1>3, ControlSame
<1>4. ASSUME UNCHANGED <<requestKind, life, goaway, chan, error, misread>>, ControlInv19', closed' \in SessionErrorCode,
             closed' # "ProtocolViolation"
      PROVE  AccountsInv'
  BY <1>1, <1>2, <1>4, RequestSame
<1>5. CASE OpenRequest
  BY <1>1, <1>3, <1>5, OpenKeeps DEF OpenRequest, ctlVars
<1>6. CASE AcceptRequest
  BY <1>1, <1>3, <1>6, AcceptKeeps DEF AcceptRequest, ctlVars
<1>7. CASE ReceiveFirstResponse
  BY <1>1, <1>3, <1>7, FirstResponseRead DEF ReceiveFirstResponse, ctlVars
<1>8. ASSUME NEW response \in {"ok", "error"}, SendFirstResponse(response) PROVE AccountsInv'
  <2>1. RequestInv19'
    BY <1>1, <1>8, WriteStep, TheTwoEnds DEF Answers
  <2>2. QED
    BY <1>3, <1>8, <2>1 DEF SendFirstResponse, ctlVars
<1>9. ASSUME NEW e \in Ends, ReceiveMessage(e) \/ ReceivePublishDone(e) PROVE AccountsInv'
  BY <1>1, <1>3, <1>9, MessageRead DEF ReceiveMessage, ReceivePublishDone, TakeFrame, ctlVars
<1>10. ASSUME NEW e \in Ends,
              \/ SendMessage(e) \/ SendPublishDone(e) \/ FinishSending(e) \/ SendGoAway(e)
              \/ FinishAfterGoAway(e) \/ GoAwayTimeout(e) \/ CancelRequest(e)
       PROVE  AccountsInv'
  <2>1. RequestInv19'
    BY <1>1, <1>10, WriteStep, StopKeeps
  <2>2. UNCHANGED <<client, control, ctlChan, closed>>
    BY <1>10 DEF SendMessage, SendPublishDone, FinishSending, SendGoAway, FinishAfterGoAway, GoAwayTimeout,
         CancelRequest, ctlVars
  <2>3. QED
    BY <1>3, <2>1, <2>2
<1>11. ASSUME NEW e \in Ends, SendSetup(e) \/ ReceiveSetup(e) \/ SendControlGoAway(e) \/ ReceiveControl(e)
       PROVE  AccountsInv'
  <2>1. ControlInv19' /\ closed' = closed
    BY <1>1, <1>11, ControlKeeps
  <2>2. UNCHANGED <<requestKind, life, goaway, chan, error, misread>>
    BY <1>11 DEF SendSetup, ReceiveSetup, SendControlGoAway, ReceiveControl
  <2>3. QED
    BY <1>1, <1>4, <2>1, <2>2
<1>12. ASSUME NEW e \in Ends, ControlTimeout(e) \/ CloseAfterGoAway(e) PROVE AccountsInv'
  <2>1. /\ UNCHANGED <<requestKind, client, life, goaway, chan, error, misread, control, ctlChan>>
        /\ closed' \in {"GoAwayTimeout", "NoError"}
    BY <1>12 DEF ControlTimeout, CloseAfterGoAway
  <2>2. QED
    BY <1>1, <1>4, <2>1, ControlSame DEF SessionErrorCode
<1>13. CASE UNCHANGED draft19Vars
  BY <1>1, <1>3, <1>13, RequestSame DEF draft19Vars
<1>14. QED
  BY <1>5, <1>6, <1>7, <1>8, <1>9, <1>10, <1>11, <1>12, <1>13 DEF Draft19Next

\* The accounts of the two ends of a request stream agree in every state, whatever is requested and
\* whichever end is the client, and whichever of the two calls each end reads with: a direction that
\* its sender ended in order is cut off only for a receiver that has itself read a frame with the
\* wrong call, a PUBLISH_DONE read as one is never refused, and no order of calls that each end
\* accepts makes the other close the session
\* (profile/draft19.rs RequestStream, session/draft19.rs Draft19Session).
THEOREM AccountsAlwaysAgree == Draft19Spec => []AccountsAgree
<1>1. Draft19Init => AccountsInv
  BY AccountsBegin
<1>2. AccountsInv /\ [Draft19Next]_draft19Vars => AccountsInv'
  BY AccountsStep
<1>3. AccountsInv => AccountsAgree
  BY AccountsOf
<1>4. QED
  BY <1>1, <1>2, <1>3, PTL DEF Draft19Spec

-----------------------------------------------------------------------------
(* The file of the coordinator                                             *)

\* What the file may hold.
CoordinatorData ==
  [hosts : [HostKeys -> Relays \union {Nobody}], interest : [Prefixed -> [Relays -> Nat]]]

\* The task has the file locked.
HasLock(t) == lock # NoLock /\ lock.task = t

\* The interests that the file counts, and those it counts once the change under way is written.
SeeksFor(t, p, r) == task[t].kind = "interest" /\ task[t].name.ns = p /\ task[t].relay = r
Entered(t) == state[t] \in {"held", "dropping", "leaked"}
WillEnter(t) == IF HasLock(t) THEN state[t] = "calling" ELSE Entered(t)
HoldersOf(p, r) == {t \in CTasks : SeeksFor(t, p, r) /\ Entered(t)}
HoldersNext(p, r) == {t \in CTasks : SeeksFor(t, p, r) /\ WillEnter(t)}

\* A name that one task registers, and whether its handle is out, or will be.
Registers(t) == task[t].kind # "interest" /\ Alone(t)
Out(t) == state[t] \in {"held", "told"}
WillBeOut(t) == IF HasLock(t) THEN state[t] = "calling" ELSE Out(t)

FileTypes ==
  /\ task \in CoordinatorCases
  /\ state \in [CTasks -> {"idle", "calling", "held", "told", "dropping", "done", "failed", "leaked", "dead"}]
  /\ file.kind \in {"data", "empty", "garbled"} /\ (file.kind = "data" => file.data \in CoordinatorData)
  /\ found \in [CTasks -> SUBSET Relays]
  /\ lock = NoLock \/ /\ lock \in [task : CTasks, data : CoordinatorData, stage : {"read", "truncated"}]
                      /\ state[lock.task] \in {"calling", "dropping"}
  /\ \A t \in CTasks : state[t] = "told" => NamespaceTask(t)

\* The file counts the interests: now, unless it is truncated, and after the change.
CountInv ==
  /\ lock.stage # "truncated" => \A p \in Prefixed, r \in Relays : Read.interest[p][r] = Cardinality(HoldersOf(p, r))
  /\ lock # NoLock => \A p \in Prefixed, r \in Relays : lock.data.interest[p][r] = Cardinality(HoldersNext(p, r))

\* The file has the names: now, unless it is truncated, and after the change.
HostInv ==
  \A t \in CTasks : Registers(t) =>
    /\ lock.stage # "truncated" /\ Out(t) => Read.hosts[KeyOf(t)] = task[t].relay
    /\ lock # NoLock /\ WillBeOut(t) => lock.data.hosts[KeyOf(t)] = task[t].relay

\* A namespace and an interest in it, on two relays neither of which asks for the other.
Matched(t, s) ==
  /\ Registers(t) /\ NamespaceTask(t) /\ task[s].kind = "interest" /\ task[s].public
  /\ IsPrefix(task[s].name.ns, task[t].name.ns)
  /\ task[s].relay # task[t].relay /\ task[s].source # task[t].relay /\ task[t].source # task[s].relay

\* One of the two is told of the other; an interest on its way is told of the namespaces that are there.
MeetInv ==
  \A t, s \in CTasks : Matched(t, s) =>
    /\ state[t] = "told" /\ state[s] = "held" => task[s].relay \in found[t] \/ task[t].relay \in found[s]
    /\ Out(t) /\ HasLock(s) /\ state[s] = "calling" => task[t].relay \in found[s]

\* The inductive invariant.
FileInv == FileTypes /\ (~lost => file.kind # "garbled" /\ CountInv /\ HostInv /\ MeetInv)

\* The data of the file.
LEMMA DataTyped ==
  /\ NoData \in CoordinatorData
  /\ FileTypes => Read \in CoordinatorData
<1>1. NoData \in CoordinatorData
  BY DEF NoData, CoordinatorData
<1>2. QED
  BY <1>1 DEF Read, FileTypes

\* What a call makes of the data.
LEMMA DataChanged ==
  ASSUME NEW t \in CTasks, NEW d \in CoordinatorData
  PROVE  /\ task[t].kind # "interest" =>
              /\ Registered(t, d) \in CoordinatorData /\ Unregistered(t, d) \in CoordinatorData
              /\ Registered(t, d).interest = d.interest /\ Unregistered(t, d).interest = d.interest
              /\ Registered(t, d).hosts[KeyOf(t)] = task[t].relay
              /\ \A n \in HostKeys : n # KeyOf(t) =>
                   Registered(t, d).hosts[n] = d.hosts[n] /\ Unregistered(t, d).hosts[n] = d.hosts[n]
         /\ task[t].kind = "interest" =>
              /\ Counted(t, d) \in CoordinatorData /\ Uncounted(t, d) \in CoordinatorData
              /\ Counted(t, d).hosts = d.hosts /\ Uncounted(t, d).hosts = d.hosts
              /\ \A p \in Prefixed, r \in Relays :
                   IF p = task[t].name.ns /\ r = task[t].relay
                   THEN /\ Counted(t, d).interest[p][r] = d.interest[p][r] + 1
                        /\ d.interest[p][r] > 0 => Uncounted(t, d).interest[p][r] = d.interest[p][r] - 1
                        /\ d.interest[p][r] = 0 => Uncounted(t, d).interest[p][r] = 0
                   ELSE /\ Counted(t, d).interest[p][r] = d.interest[p][r]
                        /\ Uncounted(t, d).interest[p][r] = d.interest[p][r]
<1>1. task[t].relay \in Relays /\ (task[t].kind # "interest" => KeyOf(t) \in HostKeys)
      /\ (task[t].kind = "interest" => task[t].name.ns \in Prefixed)
  BY DEF Relays, HostKeys, Prefixed
<1>2. ASSUME task[t].kind # "interest"
      PROVE  /\ Registered(t, d) \in CoordinatorData /\ Unregistered(t, d) \in CoordinatorData
             /\ Registered(t, d).interest = d.interest /\ Unregistered(t, d).interest = d.interest
             /\ Registered(t, d).hosts[KeyOf(t)] = task[t].relay
             /\ \A n \in HostKeys : n # KeyOf(t) =>
                  Registered(t, d).hosts[n] = d.hosts[n] /\ Unregistered(t, d).hosts[n] = d.hosts[n]
  BY <1>1, <1>2 DEF Registered, Unregistered, CoordinatorData
<1>3. ASSUME task[t].kind = "interest"
      PROVE  /\ Counted(t, d) \in CoordinatorData /\ Counted(t, d).hosts = d.hosts
             /\ \A p \in Prefixed, r \in Relays :
                  IF p = task[t].name.ns /\ r = task[t].relay
                  THEN Counted(t, d).interest[p][r] = d.interest[p][r] + 1
                  ELSE Counted(t, d).interest[p][r] = d.interest[p][r]
  <2> DEFINE x == task[t].name.ns
             y == task[t].relay
             v == d.interest[x][y] + 1
             row == [d.interest[x] EXCEPT ![y] = v]
  <2>1. d \in [hosts : [HostKeys -> Relays \union {Nobody}], interest : [Prefixed -> [Relays -> Nat]]]
    BY DEF CoordinatorData
  <2>2. x \in Prefixed /\ y \in Relays /\ d.interest \in [Prefixed -> [Relays -> Nat]] /\ d.interest[x] \in [Relays -> Nat]
        /\ d.interest[x][y] \in Nat /\ v \in Nat
    BY <1>1, <1>3, <2>1
  <2>3. Counted(t, d) = [d EXCEPT !.interest = [d.interest EXCEPT ![x] = row]]
    BY <2>1, <2>2 DEF Counted
  <2>4. row \in [Relays -> Nat] /\ row[y] = v /\ \A r \in Relays : r # y => row[r] = d.interest[x][r]
    BY <2>2
  <2> HIDE DEF row
  <2>5. /\ [d.interest EXCEPT ![x] = row] \in [Prefixed -> [Relays -> Nat]]
        /\ [d.interest EXCEPT ![x] = row][x] = row
        /\ \A p \in Prefixed : p # x => [d.interest EXCEPT ![x] = row][p] = d.interest[p]
    BY <2>2, <2>4
  <2>6. Counted(t, d).hosts = d.hosts /\ Counted(t, d).interest = [d.interest EXCEPT ![x] = row]
        /\ Counted(t, d) \in CoordinatorData
    BY <2>1, <2>3, <2>5 DEF CoordinatorData
  <2>7. QED
    BY <2>2, <2>4, <2>5, <2>6
<1>4. ASSUME task[t].kind = "interest"
      PROVE  /\ Uncounted(t, d) \in CoordinatorData /\ Uncounted(t, d).hosts = d.hosts
             /\ \A p \in Prefixed, r \in Relays :
                  IF p = task[t].name.ns /\ r = task[t].relay
                  THEN /\ d.interest[p][r] > 0 => Uncounted(t, d).interest[p][r] = d.interest[p][r] - 1
                       /\ d.interest[p][r] = 0 => Uncounted(t, d).interest[p][r] = 0
                  ELSE Uncounted(t, d).interest[p][r] = d.interest[p][r]
  <2> DEFINE x == task[t].name.ns
             y == task[t].relay
             v == IF d.interest[x][y] > 0 THEN d.interest[x][y] - 1 ELSE 0
             row == [d.interest[x] EXCEPT ![y] = v]
  <2>1. d \in [hosts : [HostKeys -> Relays \union {Nobody}], interest : [Prefixed -> [Relays -> Nat]]]
    BY DEF CoordinatorData
  <2>2. x \in Prefixed /\ y \in Relays /\ d.interest \in [Prefixed -> [Relays -> Nat]] /\ d.interest[x] \in [Relays -> Nat]
        /\ d.interest[x][y] \in Nat /\ v \in Nat
    BY <1>1, <1>4, <2>1
  <2>3. Uncounted(t, d) = [d EXCEPT !.interest = [d.interest EXCEPT ![x] = row]]
    BY <2>1, <2>2 DEF Uncounted
  <2>4. row \in [Relays -> Nat] /\ row[y] = v /\ \A r \in Relays : r # y => row[r] = d.interest[x][r]
    BY <2>2
  <2> HIDE DEF row
  <2>5. /\ [d.interest EXCEPT ![x] = row] \in [Prefixed -> [Relays -> Nat]]
        /\ [d.interest EXCEPT ![x] = row][x] = row
        /\ \A p \in Prefixed : p # x => [d.interest EXCEPT ![x] = row][p] = d.interest[p]
    BY <2>2, <2>4
  <2>6. Uncounted(t, d).hosts = d.hosts /\ Uncounted(t, d).interest = [d.interest EXCEPT ![x] = row]
        /\ Uncounted(t, d) \in CoordinatorData
    BY <2>1, <2>3, <2>5 DEF CoordinatorData
  <2>7. QED
    BY <2>2, <2>4, <2>5, <2>6
<1>5. QED
  BY <1>2, <1>3, <1>4

\* The sets that are counted are finite.
LEMMA HoldersFinite ==
  ASSUME FileTypes, NEW p, NEW r PROVE IsFiniteSet(HoldersOf(p, r)) /\ IsFiniteSet(HoldersNext(p, r))
<1>1. IsFiniteSet(CTasks)
  BY CoordinatorAssumption DEF FileTypes, CTasks
<1>2. HoldersOf(p, r) \subseteq CTasks /\ HoldersNext(p, r) \subseteq CTasks
  BY DEF HoldersOf, HoldersNext
<1>3. QED
  BY <1>1, <1>2, FS_Subset

\* A prefix of the same length is the same name.
LEMMA PrefixSame ==
  ASSUME NEW F, NEW a \in Seq(F), NEW b \in Seq(F)
  PROVE  /\ IsPrefix(b, b)
         /\ IsPrefix(a, b) => Len(a) <= Len(b)
         /\ IsPrefix(a, b) /\ Len(b) <= Len(a) => a = b
<1>1. Len(a) \in Nat /\ Len(b) \in Nat
  OBVIOUS
<1>2. \A s \in Seq(F) : SubSeq(s, 1, Len(s)) = s
  <2> SUFFICES ASSUME NEW s \in Seq(F) PROVE SubSeq(s, 1, Len(s)) = s
    OBVIOUS
  <2>1. SubSeq(s, 1, Len(s)) \in Seq(F) /\ Len(SubSeq(s, 1, Len(s))) = Len(s)
    BY SMT
  <2>2. \A i \in 1 .. Len(s) : SubSeq(s, 1, Len(s))[i] = s[i]
    OBVIOUS
  <2>3. QED
    BY <2>1, <2>2, SeqEqual
<1>3. QED
  BY <1>1, <1>2 DEF IsPrefix

\* The key of a namespace is its name, and only those of namespaces are in their bucket.
LEMMA NamespaceKeys ==
  ASSUME FileTypes, NEW k \in HostKeys, k.bucket = "namespaces"
  PROVE  k.ns \in Seq(Seq(STRING)) /\ k = NamespaceKey(k.ns)
<1>1. PICK u \in CTasks : k = KeyOf(u)
  BY DEF HostKeys
<1>2. task[u].name.ns \in Seq(Seq(STRING))
  <2>1. task[u].name \in [ns : Seq(Seq(STRING)), track : STRING]
    BY CoordinatorAssumption DEF FileTypes, CTasks
  <2>2. QED
    BY <2>1
<1>3. TrackKey(task[u].name.ns, task[u].name.track).bucket = "tracks"
  BY DEF TrackKey
<1>4. k = NamespaceKey(task[u].name.ns)
  BY <1>1, <1>3 DEF KeyOf
<1>5. NamespaceKey(task[u].name.ns).ns = task[u].name.ns
  BY DEF NamespaceKey
<1>6. QED
  BY <1>2, <1>4, <1>5

\* What is registered is found by its own task.
LEMMA FoundByName ==
  ASSUME FileTypes, NEW d \in CoordinatorData, NEW t \in CTasks, task[t].kind # "interest",
         d.hosts[KeyOf(t)] = task[t].relay
  PROVE  /\ NamespaceTask(t) => Lookup(d, task[t].name.ns) = task[t].relay /\ KeyOf(t) \in NamespacesIn(d)
         /\ ~NamespaceTask(t) => LookupTrack(d, task[t].name) = task[t].relay
<1> DEFINE n == KeyOf(t)
           above == {m \in NamespacesIn(d) : HasPrefix(n.ns, m.ns)}
<1>1. task[t].relay # Nobody
  BY CoordinatorAssumption DEF FileTypes, CTasks, Nobody
<1>2. n \in HostKeys
  BY DEF HostKeys
<1>3. ~NamespaceTask(t) => LookupTrack(d, task[t].name) = task[t].relay
  BY <1>1 DEF LookupTrack, KeyOf
<1>4. ASSUME NamespaceTask(t) PROVE Lookup(d, task[t].name.ns) = task[t].relay /\ n \in NamespacesIn(d)
  <2>1. n.bucket = "namespaces" /\ n.ns = task[t].name.ns
    BY <1>4 DEF KeyOf, NamespaceKey
  <2>2. n \in NamespacesIn(d) /\ n.ns \in Seq(Seq(STRING)) /\ n = NamespaceKey(n.ns)
    BY <1>1, <1>2, <2>1, NamespaceKeys DEF NamespacesIn
  <2>3. n \in above
    BY <2>2, PrefixSame DEF HasPrefix
  <2>4. \A m \in above : m \in HostKeys /\ m.ns \in Seq(Seq(STRING)) /\ m = NamespaceKey(m.ns) /\ IsPrefix(m.ns, n.ns)
    BY NamespaceKeys DEF NamespacesIn, HasPrefix
  <2>5. \A m \in above : Len(m.ns) <= Len(n.ns)
    BY <2>2, <2>4, PrefixSame
  <2> DEFINE c == CHOOSE m \in above : \A k \in above : Len(k.ns) <= Len(m.ns)
  <2>6. c \in above /\ \A k \in above : Len(k.ns) <= Len(c.ns)
    BY <2>3, <2>5
  <2>7. c = n
    <3>1. c.ns \in Seq(Seq(STRING)) /\ IsPrefix(c.ns, n.ns) /\ Len(n.ns) <= Len(c.ns) /\ c = NamespaceKey(c.ns)
      BY <2>3, <2>4, <2>6
    <3> HIDE DEF c, n
    <3>2. c.ns = n.ns
      BY <2>2, <3>1, PrefixSame
    <3>3. QED
      BY <2>2, <3>1, <3>2
  <2>8. Lookup(d, n.ns) = d.hosts[c]
    BY <2>3 DEF Lookup
  <2>9. QED
    BY <2>1, <2>2, <2>7, <2>8
<1>5. QED
  BY <1>3, <1>4

\* What the invariant says of the file.
LEMMA FileOf == ASSUME FileInv PROVE InterestCounted /\ Rendezvous
<1>1. InterestCounted
  <2> SUFFICES ASSUME Unlocked, NEW p \in Prefixed, NEW r \in Relays
               PROVE  Read.interest[p][r] = Cardinality(Seekers(p, r))
    BY DEF InterestCounted
  <2>1. HoldersOf(p, r) = Seekers(p, r)
    BY DEF HoldersOf, SeeksFor, Entered, Seekers
  <2>2. Read.interest[p][r] = Cardinality(HoldersOf(p, r))
    BY DEF FileInv, CountInv, Unlocked, NoLock
  <2>3. QED
    BY <2>1, <2>2
<1>2. Rendezvous
  <2> SUFFICES ASSUME ~lost, NEW t \in CTasks, Alone(t), task[t].kind # "interest"
               PROVE  /\ state[t] \in {"held", "told"} /\ lock = NoLock =>
                           task[t].relay = IF NamespaceTask(t) THEN Lookup(Read, task[t].name.ns)
                                           ELSE LookupTrack(Read, task[t].name)
                      /\ (state[t] = "told" /\ NamespaceTask(t)) =>
                           \A s \in CTasks :
                             (/\ task[s].kind = "interest" /\ state[s] = "held" /\ task[s].public
                              /\ IsPrefix(task[s].name.ns, task[t].name.ns)
                              /\ task[s].relay # task[t].relay
                              /\ task[s].source # task[t].relay /\ task[t].source # task[s].relay)
                             => task[s].relay \in found[t] \/ task[t].relay \in found[s]
    BY DEF Rendezvous
  <2>1. Registers(t) /\ FileTypes /\ HostInv /\ MeetInv
    BY DEF Registers, FileInv
  <2>2. ASSUME state[t] \in {"held", "told"}, lock = NoLock
        PROVE  task[t].relay = IF NamespaceTask(t) THEN Lookup(Read, task[t].name.ns)
                               ELSE LookupTrack(Read, task[t].name)
    <3>1. Read.hosts[KeyOf(t)] = task[t].relay
      BY <2>1, <2>2 DEF HostInv, Out, NoLock
    <3>2. QED
      BY <2>1, <3>1, FoundByName, DataTyped
  <2>3. ASSUME state[t] = "told", NamespaceTask(t), NEW s \in CTasks,
               /\ task[s].kind = "interest" /\ state[s] = "held" /\ task[s].public
               /\ IsPrefix(task[s].name.ns, task[t].name.ns)
               /\ task[s].relay # task[t].relay
               /\ task[s].source # task[t].relay /\ task[t].source # task[s].relay
        PROVE  task[s].relay \in found[t] \/ task[t].relay \in found[s]
    BY <2>1, <2>3 DEF MeetInv, Matched
  <2>4. QED
    BY <2>2, <2>3
<1>3. QED
  BY <1>1, <1>2

\* A coordinator that begins.
LEMMA FileBegin == ASSUME CoordinatorInit PROVE FileInv
<1>1. PICK c \in CoordinatorCases : CoordinatorStart(c)
  BY DEF CoordinatorInit
<1>2. /\ task \in CoordinatorCases /\ state = [t \in CTasks |-> "idle"] /\ file.kind = "empty" /\ lock = NoLock
      /\ found = [t \in CTasks |-> {}]
  BY <1>1 DEF CoordinatorStart, CTasks
<1>3. FileTypes
  BY <1>2 DEF FileTypes
<1>4. CountInv
  <2>1. \A p \in Prefixed, r \in Relays : Read.interest[p][r] = 0
    BY <1>2 DEF Read, NoData
  <2>2. \A p, r : HoldersOf(p, r) = {}
    BY <1>2 DEF HoldersOf, Entered
  <2>3. QED
    BY <1>2, <2>1, <2>2, FS_EmptySet DEF CountInv
<1>5. HostInv /\ MeetInv
  BY <1>2 DEF HostInv, MeetInv, Out
<1>6. QED
  BY <1>2, <1>3, <1>4, <1>5 DEF FileInv

\* What a task asks for does not change.
LEMMA SameTasks ==
  ASSUME task' = task
  PROVE  /\ CTasks' = CTasks /\ Relays' = Relays /\ HostKeys' = HostKeys /\ Prefixed' = Prefixed
         /\ CoordinatorData' = CoordinatorData
         /\ \A t : NamespaceTask(t)' = NamespaceTask(t) /\ KeyOf(t)' = KeyOf(t) /\ Registers(t)' = Registers(t)
         /\ \A t, p, r : SeeksFor(t, p, r)' = SeeksFor(t, p, r)
         /\ \A t, u : Matched(t, u)' = Matched(t, u)
         /\ file' = file => Read' = Read
<1>1. CTasks' = CTasks
  BY DEF CTasks
<1>2. Relays' = Relays /\ HostKeys' = HostKeys /\ Prefixed' = Prefixed
      /\ \A t : KeyOf(t)' = KeyOf(t)
  BY <1>1 DEF Relays, HostKeys, Prefixed, KeyOf, NamespaceTask, NamespaceKey, TrackKey, Utf8Path
<1>3. CoordinatorData' = CoordinatorData /\ NoData' = NoData
  BY <1>2 DEF CoordinatorData, NoData
<1>4. \A t : NamespaceTask(t)' = NamespaceTask(t) /\ Registers(t)' = Registers(t)
  BY <1>1, <1>2 DEF NamespaceTask, Registers, Alone
<1>5. QED
  BY <1>1, <1>2, <1>3, <1>4 DEF SeeksFor, Matched, Read

\* A step that neither writes nor enters anything keeps what the file has.
LEMMA FileKept ==
  ASSUME FileTypes, CountInv, HostInv, UNCHANGED <<task, file>>,
         lock' = lock \/ (lock' = NoLock /\ lock.stage = "read"),
         \A t \in CTasks : HasLock(t)' => state'[t] = state[t],
         \A t \in CTasks : task[t].kind = "interest" => (Entered(t)' <=> Entered(t)),
         \A t \in CTasks : Out(t)' => Out(t)
  PROVE  CountInv' /\ HostInv'
<1>1. /\ CTasks' = CTasks /\ Relays' = Relays /\ Prefixed' = Prefixed /\ Read' = Read
      /\ \A t : KeyOf(t)' = KeyOf(t) /\ Registers(t)' = Registers(t)
      /\ \A t, p, r : SeeksFor(t, p, r)' = SeeksFor(t, p, r)
  BY SameTasks
<1>2. lock'.stage # "truncated" => lock.stage # "truncated"
  BY DEF NoLock
<1>3. \A p, r : HoldersOf(p, r)' = HoldersOf(p, r)
  BY <1>1 DEF HoldersOf, SeeksFor
<1>4. ASSUME lock' # NoLock PROVE lock' = lock /\ \A p, r : HoldersNext(p, r)' = HoldersNext(p, r)
  <2>1. lock' = lock
    BY <1>4
  <2>2. \A t \in CTasks : (HasLock(t)' <=> HasLock(t)) /\ (HasLock(t) => state'[t] = state[t])
    BY <2>1 DEF HasLock
  <2>3. \A t \in CTasks : task[t].kind = "interest" => (WillEnter(t)' <=> WillEnter(t))
    BY <2>2 DEF WillEnter
  <2>4. QED
    BY <1>1, <2>1, <2>3 DEF HoldersNext, SeeksFor
<1>5. CountInv'
  <2>1. \A p \in Prefixed, r \in Relays : lock'.stage # "truncated" => Read'.interest[p][r] = Cardinality(HoldersOf(p, r)')
    BY <1>1, <1>2, <1>3 DEF CountInv
  <2>2. \A p \in Prefixed, r \in Relays : lock' # NoLock => lock'.data.interest[p][r] = Cardinality(HoldersNext(p, r)')
    BY <1>4 DEF CountInv
  <2>3. QED
    BY <1>1, <2>1, <2>2 DEF CountInv
<1>6. HostInv'
  <2> SUFFICES ASSUME NEW t \in CTasks, Registers(t)
               PROVE  /\ lock'.stage # "truncated" /\ Out(t)' => Read'.hosts[KeyOf(t)] = task'[t].relay
                      /\ lock' # NoLock /\ WillBeOut(t)' => lock'.data.hosts[KeyOf(t)] = task'[t].relay
    BY <1>1 DEF HostInv
  <2>1. lock'.stage # "truncated" /\ Out(t)' => Read'.hosts[KeyOf(t)] = task'[t].relay
    BY <1>1, <1>2 DEF HostInv
  <2>2. lock' # NoLock /\ WillBeOut(t)' => lock' = lock /\ WillBeOut(t)
    BY <1>4 DEF WillBeOut, HasLock
  <2>3. QED
    BY <2>1, <2>2 DEF HostInv
<1>7. QED
  BY <1>5, <1>6

\* Nobody has the file locked whose task does not call or drop.
LEMMA LockHolder ==
  ASSUME FileTypes
  PROVE  \A t \in CTasks : HasLock(t) => state[t] \in {"calling", "dropping"}
  BY DEF FileTypes, HasLock

\* A task that begins to call, to drop, or whose caller goes.
LEMMA QuietStep ==
  ASSUME FileInv, NEW t \in CTasks, Call(t) \/ DropHandle(t) \/ Cancel(t) PROVE FileInv'
<1>1. UNCHANGED <<task, file, lock, found, lost>>
  BY DEF Call, DropHandle, Cancel
<1>2. FileTypes
  BY DEF FileInv
<1>3. /\ state' \in [CTasks -> {"idle", "calling", "held", "told", "dropping", "done", "failed", "leaked", "dead"}]
      /\ \A u \in CTasks : u # t => state'[u] = state[u]
      /\ \/ state[t] = "idle" /\ state'[t] = "calling"
         \/ state[t] \in {"held", "told"} /\ state'[t] = "dropping"
         \/ state'[t] = state[t]
  BY <1>2 DEF Call, DropHandle, Cancel, FileTypes
<1>4. \A u \in CTasks : HasLock(u) => state'[u] = state[u]
  BY <1>3, <1>2, LockHolder
<1>5. \A u \in CTasks : HasLock(u)' <=> HasLock(u)
  BY <1>1 DEF HasLock
<1>6. \A u \in CTasks : task[u].kind = "interest" => (Entered(u)' <=> Entered(u))
  BY <1>2, <1>3 DEF Entered, FileTypes, NamespaceTask
<1>7. \A u \in CTasks : (Out(u)' => Out(u)) /\ (state'[u] = "told" => state[u] = "told")
                        /\ (state'[u] = "held" => state[u] = "held")
  BY <1>3 DEF Out
<1>8. /\ CTasks' = CTasks /\ Relays' = Relays /\ CoordinatorData' = CoordinatorData
      /\ \A u : NamespaceTask(u)' = NamespaceTask(u)
      /\ \A u, v : Matched(u, v)' = Matched(u, v)
  BY <1>1, SameTasks
<1>9. FileTypes'
  <2>1. lock' = NoLock \/ state'[lock'.task] \in {"calling", "dropping"}
    <3>1. lock # NoLock => lock.task \in CTasks /\ HasLock(lock.task) /\ state[lock.task] \in {"calling", "dropping"}
      BY <1>2 DEF FileTypes, HasLock
    <3>2. QED
      BY <1>1, <1>4, <3>1
  <2>2. QED
    BY <1>1, <1>2, <1>3, <1>7, <1>8, <2>1 DEF FileTypes
<1>10. ASSUME ~lost PROVE file'.kind # "garbled" /\ CountInv' /\ HostInv' /\ MeetInv'
  <2>1. file.kind # "garbled" /\ CountInv /\ HostInv /\ MeetInv
    BY <1>10 DEF FileInv
  <2>2. CountInv' /\ HostInv'
    BY <1>1, <1>2, <1>4, <1>5, <1>6, <1>7, <2>1, FileKept
  <2>3. MeetInv'
    <3> SUFFICES ASSUME NEW u \in CTasks, NEW v \in CTasks, Matched(u, v)
                 PROVE  /\ state'[u] = "told" /\ state'[v] = "held" => task[v].relay \in found[u] \/ task[u].relay \in found[v]
                        /\ Out(u)' /\ HasLock(v)' /\ state'[v] = "calling" => task[u].relay \in found[v]
      BY <1>1, <1>8 DEF MeetInv
    <3>1. /\ state[u] = "told" /\ state[v] = "held" => task[v].relay \in found[u] \/ task[u].relay \in found[v]
          /\ Out(u) /\ HasLock(v) /\ state[v] = "calling" => task[u].relay \in found[v]
      BY <2>1 DEF MeetInv
    <3>2. HasLock(v)' /\ state'[v] = "calling" => HasLock(v) /\ state[v] = "calling"
      BY <1>4, <1>5
    <3>3. QED
      BY <1>7, <3>1, <3>2
  <2>4. QED
    BY <1>1, <2>1, <2>2, <2>3
<1>11. QED
  BY <1>1, <1>9, <1>10 DEF FileInv

\* The subscribers of a namespace are looked up.
LEMMA LookupStep == ASSUME FileInv, NEW t \in CTasks, LookupSubscribers(t) PROVE FileInv'
<1>1. UNCHANGED <<task, file, lock, lost>> /\ NamespaceTask(t) /\ state[t] = "held" /\ lock = NoLock
  BY DEF LookupSubscribers
<1>2. FileTypes
  BY DEF FileInv
<1>3. \/ /\ Readable /\ found' = [found EXCEPT ![t] = Interested(t, Read)] /\ state' = [state EXCEPT ![t] = "told"]
      \/ /\ ~Readable /\ state' = [state EXCEPT ![t] = "dropping"] /\ found' = found
  BY DEF LookupSubscribers
<1>4. Interested(t, Read) \subseteq Relays
  BY DEF Interested, Peers
<1>5. /\ state' \in [CTasks -> {"idle", "calling", "held", "told", "dropping", "done", "failed", "leaked", "dead"}]
      /\ \A u \in CTasks : u # t => state'[u] = state[u] /\ found'[u] = found[u]
      /\ state'[t] \in {"told", "dropping"}
      /\ found' \in [CTasks -> SUBSET Relays]
  BY <1>2, <1>3, <1>4 DEF FileTypes
<1>6. /\ CTasks' = CTasks /\ Relays' = Relays /\ CoordinatorData' = CoordinatorData
      /\ \A u : NamespaceTask(u)' = NamespaceTask(u)
      /\ \A u, v : Matched(u, v)' = Matched(u, v)
  BY <1>1, SameTasks
<1>7. FileTypes'
  BY <1>1, <1>2, <1>5, <1>6 DEF FileTypes
<1>8. ASSUME ~lost PROVE file'.kind # "garbled" /\ CountInv' /\ HostInv' /\ MeetInv'
  <2>1. file.kind # "garbled" /\ CountInv /\ HostInv /\ MeetInv
    BY <1>8 DEF FileInv
  <2>2. Readable /\ found'[t] = Interested(t, Read) /\ state'[t] = "told"
    BY <1>2, <1>3, <2>1 DEF Readable, FileTypes
  <2>3. \A u \in CTasks : ~HasLock(u)'
    BY <1>1 DEF HasLock
  <2>4. \A u \in CTasks : task[u].kind = "interest" => (Entered(u)' <=> Entered(u))
    <3>1. task[t].kind # "interest"
      BY <1>1 DEF NamespaceTask
    <3>2. QED
      BY <1>5, <3>1 DEF Entered
  <2>5. \A u \in CTasks : Out(u)' => Out(u)
    BY <1>1, <1>5 DEF Out
  <2>6. CountInv' /\ HostInv'
    BY <1>1, <1>2, <2>1, <2>3, <2>4, <2>5, FileKept
  <2>7. MeetInv'
    <3> SUFFICES ASSUME NEW u \in CTasks, NEW v \in CTasks, Matched(u, v), state'[u] = "told", state'[v] = "held"
                 PROVE  task[v].relay \in found'[u] \/ task[u].relay \in found'[v]
      BY <1>1, <1>6, <2>3 DEF MeetInv
    <3>1. v # t /\ state[v] = "held" /\ found'[v] = found[v]
      BY <1>5
    <3>2. CASE u # t
      BY <1>5, <2>1, <3>1, <3>2 DEF MeetInv
    <3>3. CASE u = t
      <4> DEFINE p == task[v].name.ns
                 r == task[v].relay
      <4>1. p \in Prefixed /\ r \in Relays /\ r \notin {task[t].relay, task[t].source} /\ HasPrefix(task[t].name.ns, p)
        BY <3>3 DEF Matched, Prefixed, Relays, HasPrefix
      <4>2. v \in HoldersOf(p, r)
        BY <3>1 DEF HoldersOf, SeeksFor, Entered, Matched
      <4>3. Cardinality(HoldersOf(p, r)) \in Nat /\ Cardinality(HoldersOf(p, r)) # 0
        BY <1>2, <4>2, HoldersFinite, FS_CardinalityType, FS_EmptySet
      <4>4. Read.interest[p][r] > 0
        <5>1. Read.interest[p][r] = Cardinality(HoldersOf(p, r))
          BY <1>1, <2>1, <4>1 DEF CountInv, NoLock
        <5> HIDE DEF p, r
        <5>2. QED
          BY <4>3, <5>1
      <4>5. r \in Interested(t, Read)
        BY <4>1, <4>4 DEF Interested, Peers
      <4>6. QED
        BY <2>2, <3>3, <4>5
    <3>4. QED
      BY <3>2, <3>3
  <2>8. QED
    BY <1>1, <2>1, <2>6, <2>7
<1>9. QED
  BY <1>1, <1>7, <1>8 DEF FileInv

\* The file is locked and read.
LEMMA LockStep == ASSUME FileInv, NEW t \in CTasks, LockExclusive(t) PROVE FileInv'
<1> DEFINE interest == task[t].kind = "interest"
           data == IF state[t] = "calling"
                   THEN (IF interest THEN Counted(t, Read) ELSE Registered(t, Read))
                   ELSE (IF interest THEN Uncounted(t, Read) ELSE Unregistered(t, Read))
<1>1. UNCHANGED <<task, file, lost>> /\ state[t] \in {"calling", "dropping"} /\ lock = NoLock
  BY DEF LockExclusive
<1>2. FileTypes
  BY DEF FileInv
<1>3. /\ CTasks' = CTasks /\ Relays' = Relays /\ Prefixed' = Prefixed /\ CoordinatorData' = CoordinatorData
      /\ \A u : NamespaceTask(u)' = NamespaceTask(u) /\ KeyOf(u)' = KeyOf(u) /\ Registers(u)' = Registers(u)
      /\ \A u, p, r : SeeksFor(u, p, r)' = SeeksFor(u, p, r)
      /\ \A u, v : Matched(u, v)' = Matched(u, v)
      /\ Read' = Read
  BY <1>1, SameTasks
<1>4. CASE ~Readable
  <2>1. /\ state' = [state EXCEPT ![t] = IF state[t] = "calling" THEN "failed" ELSE "done"]
        /\ lock' = lock /\ found' = found
    BY <1>4 DEF LockExclusive
  <2>2. FileTypes'
    BY <1>1, <1>2, <1>3, <2>1 DEF FileTypes
  <2>3. lost
    BY <1>4 DEF FileInv, Readable
  <2>4. QED
    BY <1>1, <2>2, <2>3 DEF FileInv
<1>5. CASE Readable
  <2>1. /\ lock' = [task |-> t, data |-> data, stage |-> "read"] /\ state' = state
        /\ found' = IF interest /\ state[t] = "calling" THEN [found EXCEPT ![t] = UpstreamRelays(t, Read)] ELSE found
    BY <1>5 DEF LockExclusive
  <2>2. Read \in CoordinatorData
    BY <1>2, DataTyped
  <2>3. data \in CoordinatorData
    BY <2>2, DataChanged
  <2>4. UpstreamRelays(t, Read) \subseteq Relays
    <3>1. \A n \in NamespacesIn(Read) : Read.hosts[n] \in Relays
      BY <2>2 DEF NamespacesIn, CoordinatorData
    <3>2. QED
      BY <3>1 DEF UpstreamRelays, Peers
  <2> HIDE DEF data
  <2>5. found' \in [CTasks -> SUBSET Relays] /\ \A u \in CTasks : u # t => found'[u] = found[u]
    BY <1>2, <2>1, <2>4 DEF FileTypes
  <2>6. FileTypes'
    BY <1>1, <1>2, <1>3, <2>1, <2>3, <2>5 DEF FileTypes
  <2>7. lock' # NoLock /\ lock'.task = t /\ lock'.data = data /\ lock'.stage = "read"
    BY <2>1 DEF NoLock
  <2>8. \A u \in CTasks : HasLock(u)' <=> u = t
    BY <2>7 DEF HasLock
  <2>9. ASSUME ~lost PROVE CountInv' /\ HostInv' /\ MeetInv'
    <3>1. CountInv /\ HostInv /\ MeetInv /\ lock.stage # "truncated"
      BY <1>1, <2>9 DEF FileInv, NoLock
    <3>2. CountInv'
      <4>1. \A p, r : HoldersOf(p, r)' = HoldersOf(p, r)
        BY <1>3, <2>1 DEF HoldersOf, Entered
      <4>2. ASSUME NEW p \in Prefixed, NEW r \in Relays PROVE data.interest[p][r] = Cardinality(HoldersNext(p, r)')
        <5>1. HoldersNext(p, r)' = {u \in CTasks : SeeksFor(u, p, r) /\ IF u = t THEN state[u] = "calling" ELSE Entered(u)}
          BY <1>3, <2>1, <2>8 DEF HoldersNext, WillEnter, Entered
        <5>2. /\ Read.interest[p][r] = Cardinality(HoldersOf(p, r)) /\ IsFiniteSet(HoldersOf(p, r))
              /\ Cardinality(HoldersOf(p, r)) \in Nat
          BY <1>2, <3>1, HoldersFinite, FS_CardinalityType DEF CountInv
        <5>3. CASE ~SeeksFor(t, p, r)
          <6>1. HoldersNext(p, r)' = HoldersOf(p, r)
            BY <5>1, <5>3 DEF HoldersOf
          <6>2. data.interest[p][r] = Read.interest[p][r]
            <7>1. interest => ~(p = task[t].name.ns /\ r = task[t].relay)
              BY <5>3 DEF SeeksFor
            <7>2. interest => /\ Counted(t, Read).interest[p][r] = Read.interest[p][r]
                              /\ Uncounted(t, Read).interest[p][r] = Read.interest[p][r]
              BY <2>2, <7>1, DataChanged
            <7>3. ~interest => /\ Registered(t, Read).interest = Read.interest
                               /\ Unregistered(t, Read).interest = Read.interest
              BY <2>2, DataChanged
            <7>4. QED
              BY <7>2, <7>3 DEF data
          <6>3. QED
            BY <5>2, <6>1, <6>2
        <5>4. CASE SeeksFor(t, p, r) /\ state[t] = "calling"
          <6>1. HoldersNext(p, r)' = HoldersOf(p, r) \union {t} /\ t \notin HoldersOf(p, r)
            BY <5>1, <5>4 DEF HoldersOf, Entered
          <6>2. data = Counted(t, Read) /\ Counted(t, Read).interest[p][r] = Read.interest[p][r] + 1
            BY <2>2, <5>4, DataChanged DEF SeeksFor, data
          <6>3. Cardinality(HoldersOf(p, r) \union {t}) = Cardinality(HoldersOf(p, r)) + 1
            BY <5>2, <6>1, FS_AddElement
          <6>4. QED
            BY <5>2, <6>1, <6>2, <6>3
        <5>5. CASE SeeksFor(t, p, r) /\ state[t] # "calling"
          <6>1. HoldersNext(p, r)' = HoldersOf(p, r) \ {t} /\ t \in HoldersOf(p, r)
            BY <1>1, <5>1, <5>5 DEF HoldersOf, Entered
          <6>2. Cardinality(HoldersOf(p, r) \ {t}) = Cardinality(HoldersOf(p, r)) - 1
            BY <5>2, <6>1, FS_RemoveElement
          <6>3. Cardinality(HoldersOf(p, r)) # 0
            BY <5>2, <6>1, FS_EmptySet
          <6>4. Read.interest[p][r] > 0
            BY <5>2, <6>3
          <6>5. data = Uncounted(t, Read) /\ Uncounted(t, Read).interest[p][r] = Read.interest[p][r] - 1
            BY <2>2, <5>5, <6>4, DataChanged DEF SeeksFor, data
          <6>6. QED
            BY <5>2, <6>1, <6>2, <6>5
        <5>6. QED
          BY <5>3, <5>4, <5>5
      <4>3. \A p \in Prefixed, r \in Relays : Read'.interest[p][r] = Cardinality(HoldersOf(p, r)')
        BY <1>3, <3>1, <4>1 DEF CountInv
      <4>4. \A p \in Prefixed, r \in Relays : lock'.data.interest[p][r] = Cardinality(HoldersNext(p, r)')
        BY <2>7, <4>2
      <4>5. QED
        BY <1>3, <4>3, <4>4 DEF CountInv
    <3>3. HostInv'
      <4> SUFFICES ASSUME NEW u \in CTasks, Registers(u)
                   PROVE  /\ Out(u)' => Read'.hosts[KeyOf(u)] = task'[u].relay
                          /\ WillBeOut(u)' => lock'.data.hosts[KeyOf(u)] = task'[u].relay
        BY <1>3 DEF HostInv
      <4>1. Out(u)' <=> Out(u)
        BY <2>1 DEF Out
      <4>2. Out(u) => Read.hosts[KeyOf(u)] = task[u].relay
        BY <3>1 DEF HostInv
      <4>3. CASE u = t
        <5>1. WillBeOut(u)' => state[t] = "calling"
          BY <2>1, <2>8, <4>3 DEF WillBeOut
        <5>2. state[t] = "calling" => data = Registered(t, Read) /\ data.hosts[KeyOf(t)] = task[t].relay
          BY <2>2, <4>3, DataChanged DEF data, Registers
        <5>3. QED
          BY <1>1, <1>3, <2>7, <4>1, <4>2, <4>3, <5>1, <5>2
      <4>4. CASE u # t
        <5>1. WillBeOut(u)' <=> Out(u)
          BY <2>1, <2>8, <4>4 DEF WillBeOut, Out
        <5>2. KeyOf(u) \in HostKeys /\ (~interest => KeyOf(u) # KeyOf(t))
          BY <4>4 DEF Registers, Alone, HostKeys
        <5>3. data.hosts[KeyOf(u)] = Read.hosts[KeyOf(u)]
          BY <2>2, <5>2, DataChanged DEF data
        <5>4. QED
          BY <1>1, <1>3, <2>7, <4>1, <4>2, <5>1, <5>3
      <4>5. QED
        BY <4>3, <4>4
    <3>4. MeetInv'
      <4> SUFFICES ASSUME NEW u \in CTasks, NEW v \in CTasks, Matched(u, v)
                   PROVE  /\ state[u] = "told" /\ state[v] = "held" => task[v].relay \in found'[u] \/ task[u].relay \in found'[v]
                          /\ Out(u) /\ v = t /\ state[v] = "calling" => task[u].relay \in found'[v]
        BY <1>1, <1>3, <2>1, <2>8 DEF MeetInv, Out
      <4>1. state[u] = "told" /\ state[v] = "held" => task[v].relay \in found'[u] \/ task[u].relay \in found'[v]
        BY <1>1, <2>5, <3>1 DEF MeetInv
      <4>2. ASSUME Out(u), v = t, state[v] = "calling" PROVE task[u].relay \in found'[v]
        <5>1. Read.hosts[KeyOf(u)] = task[u].relay
          BY <3>1, <4>2 DEF HostInv, Matched
        <5>2. KeyOf(u) \in NamespacesIn(Read) /\ KeyOf(u).ns = task[u].name.ns
          BY <1>2, <2>2, <5>1, FoundByName DEF Matched, Registers, KeyOf, NamespaceKey
        <5>3. /\ interest /\ task[t].public /\ HasPrefix(task[u].name.ns, task[t].name.ns)
              /\ task[u].relay \notin {task[t].relay, task[t].source}
          BY <4>2 DEF Matched, HasPrefix
        <5>4. task[u].relay \in UpstreamRelays(t, Read)
          BY <5>1, <5>2, <5>3 DEF UpstreamRelays, Peers
        <5>5. found'[t] = UpstreamRelays(t, Read)
          BY <1>2, <2>1, <4>2, <5>3 DEF FileTypes
        <5>6. QED
          BY <4>2, <5>4, <5>5
      <4>3. QED
        BY <4>1, <4>2
    <3>5. QED
      BY <3>2, <3>3, <3>4
  <2>10. QED
    BY <1>1, <2>6, <2>9 DEF FileInv
<1>6. QED
  BY <1>4, <1>5

\* The file is truncated.
LEMMA TruncateStep == ASSUME FileInv, TruncateFile PROVE FileInv'
<1>1. /\ UNCHANGED <<task, state, found, lost>> /\ lock.stage = "read" /\ file' = [kind |-> "empty", data |-> 0]
      /\ lock' = [lock EXCEPT !.stage = "truncated"]
  BY DEF TruncateFile
<1>2. FileTypes
  BY DEF FileInv
<1>3. lock # NoLock /\ lock' # NoLock /\ lock'.task = lock.task /\ lock'.data = lock.data /\ lock'.stage = "truncated"
      /\ lock' \in [task : CTasks, data : CoordinatorData, stage : {"read", "truncated"}]
  BY <1>1, <1>2 DEF FileTypes, NoLock
<1>4. /\ CTasks' = CTasks /\ Relays' = Relays /\ Prefixed' = Prefixed /\ CoordinatorData' = CoordinatorData
      /\ \A u : NamespaceTask(u)' = NamespaceTask(u) /\ KeyOf(u)' = KeyOf(u) /\ Registers(u)' = Registers(u)
      /\ \A u, p, r : SeeksFor(u, p, r)' = SeeksFor(u, p, r)
      /\ \A u, v : Matched(u, v)' = Matched(u, v)
  BY <1>1, SameTasks
<1>5. FileTypes'
  BY <1>1, <1>2, <1>3, <1>4 DEF FileTypes
<1>6. \A u \in CTasks : /\ HasLock(u)' <=> HasLock(u)
                        /\ WillEnter(u)' <=> WillEnter(u)
                        /\ WillBeOut(u)' <=> WillBeOut(u)
                        /\ Out(u)' <=> Out(u)
  BY <1>1, <1>3 DEF HasLock, WillEnter, WillBeOut, Out, Entered
<1>7. ASSUME ~lost PROVE CountInv' /\ HostInv' /\ MeetInv'
  <2>1. CountInv /\ HostInv /\ MeetInv
    BY <1>7 DEF FileInv
  <2>2. \A p, r : HoldersNext(p, r)' = HoldersNext(p, r)
    BY <1>4, <1>6 DEF HoldersNext
  <2>3. CountInv'
    BY <1>3, <1>4, <2>1, <2>2 DEF CountInv
  <2>4. HostInv'
    BY <1>1, <1>3, <1>4, <1>6, <2>1 DEF HostInv
  <2>5. MeetInv'
    BY <1>1, <1>4, <1>6, <2>1 DEF MeetInv
  <2>6. QED
    BY <2>3, <2>4, <2>5
<1>8. QED
  BY <1>1, <1>5, <1>7 DEF FileInv

\* The file is written.
LEMMA WriteFileStep == ASSUME FileInv, WriteFile PROVE FileInv'
<1> DEFINE t == lock.task
<1>1. /\ UNCHANGED <<task, found, lost>> /\ lock.stage = "truncated" /\ lock' = NoLock
      /\ file' = [kind |-> "data", data |-> lock.data]
      /\ state' = [state EXCEPT ![t] = IF state[t] = "dropping" THEN "done"
                                       ELSE IF t \in abandoned THEN "leaked" ELSE "held"]
  BY DEF WriteFile
<1>2. FileTypes
  BY DEF FileInv
<1>3. lock # NoLock /\ t \in CTasks /\ lock.data \in CoordinatorData /\ state[t] \in {"calling", "dropping"}
  BY <1>1, <1>2 DEF FileTypes, NoLock
<1>4. \A u \in CTasks : (HasLock(u) <=> u = t) /\ ~HasLock(u)'
  BY <1>1, <1>3 DEF HasLock
<1> HIDE DEF t
<1>5. /\ state' \in [CTasks -> {"idle", "calling", "held", "told", "dropping", "done", "failed", "leaked", "dead"}]
      /\ \A u \in CTasks : u # t => state'[u] = state[u]
      /\ state[t] = "dropping" => state'[t] = "done"
      /\ state[t] = "calling" => state'[t] \in {"leaked", "held"}
  BY <1>1, <1>2, <1>3 DEF FileTypes
<1>6. /\ CTasks' = CTasks /\ Relays' = Relays /\ Prefixed' = Prefixed /\ CoordinatorData' = CoordinatorData
      /\ \A u : NamespaceTask(u)' = NamespaceTask(u) /\ KeyOf(u)' = KeyOf(u) /\ Registers(u)' = Registers(u)
      /\ \A u, p, r : SeeksFor(u, p, r)' = SeeksFor(u, p, r)
      /\ \A u, v : Matched(u, v)' = Matched(u, v)
  BY <1>1, SameTasks
<1>7. Read' = lock.data /\ file'.kind = "data" /\ file'.data = lock.data
  BY <1>1 DEF Read
<1>8. FileTypes'
  <2>1. \A u \in CTasks : state'[u] = "told" => state[u] = "told"
    BY <1>3, <1>5
  <2>2. QED
    BY <1>1, <1>2, <1>3, <1>5, <1>6, <1>7, <2>1 DEF FileTypes
<1>9. ASSUME ~lost PROVE CountInv' /\ HostInv' /\ MeetInv'
  <2>1. CountInv /\ HostInv /\ MeetInv
    BY <1>9 DEF FileInv
  <2>2. \A u \in CTasks : Entered(u)' <=> WillEnter(u)
    BY <1>3, <1>4, <1>5 DEF Entered, WillEnter
  <2>3. \A p, r : HoldersOf(p, r)' = HoldersNext(p, r)
    BY <1>6, <2>2 DEF HoldersOf, HoldersNext
  <2>4. CountInv'
    BY <1>1, <1>3, <1>6, <1>7, <2>1, <2>3 DEF CountInv
  <2>5. \A u \in CTasks : Out(u)' => WillBeOut(u)
    BY <1>3, <1>4, <1>5 DEF Out, WillBeOut
  <2>6. HostInv'
    BY <1>1, <1>3, <1>6, <1>7, <2>1, <2>5 DEF HostInv
  <2>7. MeetInv'
    <3> SUFFICES ASSUME NEW u \in CTasks, NEW v \in CTasks, Matched(u, v), state'[u] = "told", state'[v] = "held"
                 PROVE  task[v].relay \in found[u] \/ task[u].relay \in found[v]
      BY <1>1, <1>4, <1>6 DEF MeetInv
    <3>1. u # t /\ state[u] = "told" /\ Out(u)
      BY <1>3, <1>5 DEF Out
    <3>2. CASE v # t
      BY <1>5, <2>1, <3>1, <3>2 DEF MeetInv
    <3>3. CASE v = t
      <4>1. state[v] = "calling" /\ HasLock(v)
        BY <1>3, <1>4, <1>5, <3>3
      <4>2. QED
        BY <2>1, <3>1, <4>1 DEF MeetInv
    <3>4. QED
      BY <3>2, <3>3
  <2>8. QED
    BY <2>4, <2>6, <2>7
<1>10. QED
  BY <1>1, <1>7, <1>8, <1>9 DEF FileInv

\* A relay dies.
LEMMA CrashStep == ASSUME FileInv, NEW r, Crash(r) PROVE FileInv'
<1> DEFINE here == {t \in CTasks : task[t].relay = r}
           working == lock # NoLock /\ lock.task \in here
           entered == {t \in here : state[t] \in {"held", "told", "dropping"}}
           calling == {t \in here : state[t] = "calling"}
<1>1. /\ UNCHANGED <<task, found>>
      /\ state' = [t \in CTasks |-> IF t \in entered THEN "leaked" ELSE IF t \in calling THEN "dead" ELSE state[t]]
      /\ lock' = IF working THEN NoLock ELSE lock
      /\ \/ /\ working /\ lock.stage = "truncated" /\ lost' = TRUE
            /\ \E k \in {"empty", "garbled"} : file' = [kind |-> k, data |-> 0]
         \/ /\ ~(working /\ lock.stage = "truncated") /\ file' = file /\ lost' = lost
  BY DEF Crash, CutShort
<1>2. FileTypes
  BY DEF FileInv
<1>3. /\ CTasks' = CTasks /\ Relays' = Relays /\ CoordinatorData' = CoordinatorData
      /\ \A u : NamespaceTask(u)' = NamespaceTask(u)
      /\ \A u, v : Matched(u, v)' = Matched(u, v)
  BY <1>1, SameTasks
<1>4. \A t \in CTasks :
        /\ t \in here /\ state[t] \in {"held", "told", "dropping"} => state'[t] = "leaked"
        /\ t \in here /\ state[t] = "calling" => state'[t] = "dead"
        /\ ~(t \in here /\ state[t] \in {"held", "told", "dropping", "calling"}) => state'[t] = state[t]
  BY <1>1
<1>5. state' \in [CTasks -> {"idle", "calling", "held", "told", "dropping", "done", "failed", "leaked", "dead"}]
  <2>1. state \in [CTasks -> {"idle", "calling", "held", "told", "dropping", "done", "failed", "leaked", "dead"}]
    BY <1>2 DEF FileTypes
  <2>2. QED
    BY <1>1, <2>1
<1>6. /\ lock' = lock \/ (lock' = NoLock /\ working)
      /\ lock' # NoLock => lock' = lock /\ lock.task \in CTasks \ here
  BY <1>1, <1>2 DEF FileTypes
<1>7. \A t \in CTasks : HasLock(t)' => HasLock(t) /\ state'[t] = state[t]
  BY <1>4, <1>6 DEF HasLock
<1> HIDE DEF here
<1>8. \A t \in CTasks : /\ state'[t] = "told" => state[t] = "told"
                        /\ state'[t] = "held" => state[t] = "held"
                        /\ state'[t] = "calling" => state[t] = "calling"
  BY <1>4
<1>9. FileTypes'
  <2>1. /\ file'.kind \in {"data", "empty", "garbled"} /\ (file'.kind = "data" => file'.data \in CoordinatorData)
    BY <1>1, <1>2 DEF FileTypes
  <2>2. lock' # NoLock => /\ lock' \in [task : CTasks, data : CoordinatorData, stage : {"read", "truncated"}]
                          /\ state'[lock'.task] \in {"calling", "dropping"}
    BY <1>2, <1>4, <1>6 DEF FileTypes
  <2>3. QED
    BY <1>1, <1>2, <1>3, <1>5, <1>8, <2>1, <2>2 DEF FileTypes
<1>10. ASSUME ~lost' PROVE file'.kind # "garbled" /\ CountInv' /\ HostInv' /\ MeetInv'
  <2>1. file' = file /\ ~lost /\ ~(working /\ lock.stage = "truncated")
    BY <1>1, <1>10
  <2>2. file.kind # "garbled" /\ CountInv /\ HostInv /\ MeetInv
    BY <2>1 DEF FileInv
  <2>3. lock' = lock \/ (lock' = NoLock /\ lock.stage = "read")
    BY <1>2, <1>6, <2>1 DEF FileTypes
  <2>4. \A t \in CTasks : task[t].kind = "interest" => (Entered(t)' <=> Entered(t))
    <3>1. \A t \in CTasks : task[t].kind = "interest" => state[t] # "told"
      BY <1>2 DEF FileTypes, NamespaceTask
    <3>2. QED
      BY <1>4, <3>1 DEF Entered
  <2>5. \A t \in CTasks : Out(t)' => Out(t)
    BY <1>8 DEF Out
  <2>6. CountInv' /\ HostInv'
    BY <1>1, <1>2, <1>7, <2>1, <2>2, <2>3, <2>4, <2>5, FileKept
  <2>7. MeetInv'
    <3> SUFFICES ASSUME NEW u \in CTasks, NEW v \in CTasks, Matched(u, v)
                 PROVE  /\ state'[u] = "told" /\ state'[v] = "held" => task[v].relay \in found[u] \/ task[u].relay \in found[v]
                        /\ Out(u)' /\ HasLock(v)' /\ state'[v] = "calling" => task[u].relay \in found[v]
      BY <1>1, <1>3 DEF MeetInv
    <3>1. /\ state[u] = "told" /\ state[v] = "held" => task[v].relay \in found[u] \/ task[u].relay \in found[v]
          /\ Out(u) /\ HasLock(v) /\ state[v] = "calling" => task[u].relay \in found[v]
      BY <2>2 DEF MeetInv
    <3>2. QED
      BY <1>7, <1>8, <2>5, <3>1
  <2>8. QED
    BY <2>1, <2>2, <2>6, <2>7
<1>11. QED
  BY <1>9, <1>10 DEF FileInv

\* A call fails and leaves the file as it is.
LEMMA FailStep == ASSUME FileInv, CallFails PROVE FileInv'
<1> DEFINE t == lock.task
<1>1. /\ UNCHANGED <<task, file, found, lost>> /\ lock.stage = "read" /\ lock' = NoLock
      /\ state' = [state EXCEPT ![t] = IF state[t] = "dropping" THEN "leaked" ELSE "failed"]
  BY DEF CallFails
<1>2. FileTypes
  BY DEF FileInv
<1>3. t \in CTasks /\ state[t] \in {"calling", "dropping"}
  BY <1>1, <1>2 DEF FileTypes, NoLock
<1> HIDE DEF t
<1>4. /\ state' \in [CTasks -> {"idle", "calling", "held", "told", "dropping", "done", "failed", "leaked", "dead"}]
      /\ \A u \in CTasks : u # t => state'[u] = state[u]
      /\ state[t] = "dropping" => state'[t] = "leaked"
      /\ state[t] = "calling" => state'[t] = "failed"
  BY <1>1, <1>2, <1>3 DEF FileTypes
<1>5. /\ CTasks' = CTasks /\ Relays' = Relays /\ CoordinatorData' = CoordinatorData
      /\ \A u : NamespaceTask(u)' = NamespaceTask(u)
      /\ \A u, v : Matched(u, v)' = Matched(u, v)
  BY <1>1, SameTasks
<1>6. \A u \in CTasks : /\ ~HasLock(u)' /\ (Entered(u)' <=> Entered(u)) /\ (Out(u)' => Out(u))
                        /\ state'[u] = "told" => state[u] = "told"
                        /\ state'[u] = "held" => state[u] = "held"
  BY <1>1, <1>3, <1>4 DEF HasLock, Entered, Out
<1>7. FileTypes'
  BY <1>1, <1>2, <1>4, <1>5, <1>6 DEF FileTypes
<1>8. ASSUME ~lost PROVE file'.kind # "garbled" /\ CountInv' /\ HostInv' /\ MeetInv'
  <2>1. file.kind # "garbled" /\ CountInv /\ HostInv /\ MeetInv
    BY <1>8 DEF FileInv
  <2>2. CountInv' /\ HostInv'
    BY <1>1, <1>2, <1>6, <2>1, FileKept
  <2>3. MeetInv'
    BY <1>1, <1>5, <1>6, <2>1 DEF MeetInv
  <2>4. QED
    BY <1>1, <2>1, <2>2, <2>3
<1>9. QED
  BY <1>1, <1>7, <1>8 DEF FileInv

\* A write fails, and what the file had is lost.
LEMMA LossStep == ASSUME FileInv, FileWriteFails PROVE FileInv'
<1> DEFINE t == lock.task
<1>1. /\ UNCHANGED <<task, found>> /\ lock.stage = "truncated" /\ lock' = NoLock /\ lost' = TRUE
      /\ state' = [state EXCEPT ![t] = IF state[t] = "dropping" THEN "done" ELSE "failed"]
      /\ \E k \in {"empty", "garbled"} : file' = [kind |-> k, data |-> 0]
  BY DEF FileWriteFails, CutShort
<1>2. FileTypes
  BY DEF FileInv
<1>3. file'.kind \in {"empty", "garbled"}
  BY <1>1
<1>4. /\ state' \in [CTasks -> {"idle", "calling", "held", "told", "dropping", "done", "failed", "leaked", "dead"}]
      /\ \A u \in CTasks : state'[u] = "told" => state[u] = "told"
  BY <1>1, <1>2 DEF FileTypes
<1>5. /\ CTasks' = CTasks /\ Relays' = Relays /\ CoordinatorData' = CoordinatorData
      /\ \A u : NamespaceTask(u)' = NamespaceTask(u)
  BY <1>1, SameTasks
<1>6. FileTypes'
  BY <1>1, <1>2, <1>3, <1>4, <1>5 DEF FileTypes
<1>7. QED
  BY <1>1, <1>6 DEF FileInv

\* Every step keeps the file.
LEMMA FileStep == ASSUME FileInv, [CoordinatorNext]_coordinatorVars PROVE FileInv'
<1>1. ASSUME NEW t \in CTasks,
             Call(t) \/ DropHandle(t) \/ LockExclusive(t) \/ Cancel(t) \/ LookupSubscribers(t)
      PROVE  FileInv'
  BY <1>1, QuietStep, LockStep, LookupStep
<1>2. CASE UNCHANGED coordinatorVars
  <2>1. UNCHANGED <<task, state, file, lock, found, lost>>
    BY <1>2 DEF coordinatorVars
  <2>2. /\ CTasks' = CTasks /\ Relays' = Relays /\ CoordinatorData' = CoordinatorData
        /\ \A u : NamespaceTask(u)' = NamespaceTask(u)
        /\ \A u, v : Matched(u, v)' = Matched(u, v)
    BY <2>1, SameTasks
  <2>3. FileTypes'
    BY <2>1, <2>2 DEF FileInv, FileTypes
  <2>4. \A u : (HasLock(u)' <=> HasLock(u)) /\ (Entered(u)' <=> Entered(u)) /\ (Out(u)' <=> Out(u))
    BY <2>1 DEF HasLock, Entered, Out
  <2>5. ASSUME ~lost PROVE CountInv' /\ HostInv' /\ MeetInv'
    <3>1. FileTypes /\ CountInv /\ HostInv /\ MeetInv
      BY <2>5 DEF FileInv
    <3>2. CountInv' /\ HostInv'
      BY <2>1, <2>4, <3>1, FileKept
    <3>3. MeetInv'
      BY <2>1, <2>2, <2>4, <3>1 DEF MeetInv
    <3>4. QED
      BY <3>2, <3>3
  <2>6. QED
    BY <2>1, <2>3, <2>5 DEF FileInv
<1>3. QED
  BY <1>1, <1>2, TruncateStep, WriteFileStep, FailStep, LossStep, CrashStep DEF CoordinatorNext

\* The entries of the file and those it has once the change under way is written: whose they are.
Placed(t) == state[t] \in {"held", "told", "dropping", "leaked"}
WillBePlaced(t) == IF HasLock(t) THEN state[t] = "calling" ELSE Placed(t)
EntryOf(t, k, r) == task[t].kind # "interest" /\ KeyOf(t) = k /\ task[t].relay = r

\* Whatever was lost, each entry has somebody who has not taken it back.
GhostInv ==
  /\ \A k \in HostKeys : Read.hosts[k] # Nobody => \E t \in CTasks : EntryOf(t, k, Read.hosts[k]) /\ Placed(t)
  /\ \A p \in Prefixed, r \in Relays : Read.interest[p][r] <= Cardinality(HoldersOf(p, r))
  /\ lock # NoLock =>
       /\ \A k \in HostKeys : lock.data.hosts[k] # Nobody =>
            \E t \in CTasks : EntryOf(t, k, lock.data.hosts[k]) /\ WillBePlaced(t)
       /\ \A p \in Prefixed, r \in Relays : lock.data.interest[p][r] <= Cardinality(HoldersNext(p, r))

\* The sets that are counted stay finite.
LEMMA HoldersFiniteNext ==
  ASSUME FileTypes, task' = task, NEW p, NEW r
  PROVE  /\ IsFiniteSet(HoldersOf(p, r)') /\ IsFiniteSet(HoldersNext(p, r)')
         /\ Cardinality(HoldersOf(p, r)') \in Nat /\ Cardinality(HoldersNext(p, r)') \in Nat
<1>1. IsFiniteSet(CTasks) /\ CTasks' = CTasks
  BY CoordinatorAssumption DEF FileTypes, CTasks
<1>2. HoldersOf(p, r)' \subseteq CTasks /\ HoldersNext(p, r)' \subseteq CTasks
  BY <1>1 DEF HoldersOf, HoldersNext
<1>3. QED
  BY <1>1, <1>2, FS_Subset, FS_CardinalityType

\* The file is empty or cannot be read, and nobody has it locked.
LEMMA GhostEmpty ==
  ASSUME FileTypes, task' = task, file'.kind # "data", lock' = NoLock PROVE GhostInv'
<1>1. /\ CTasks' = CTasks /\ Relays' = Relays /\ Prefixed' = Prefixed /\ HostKeys' = HostKeys
  BY SameTasks
<1>2. Read' = NoData'
  BY DEF Read
<1>3. \A k \in HostKeys : Read'.hosts[k] = Nobody
  BY <1>1, <1>2 DEF NoData
<1>4. \A p \in Prefixed, r \in Relays : Read'.interest[p][r] = 0
  BY <1>1, <1>2 DEF NoData
<1>5. \A p, r : 0 <= Cardinality(HoldersOf(p, r)')
  BY HoldersFiniteNext
<1>6. QED
  BY <1>1, <1>3, <1>4, <1>5 DEF GhostInv

\* More who have an entry count for no less.
LEMMA HoldersGrow ==
  ASSUME NEW S, NEW T, S \subseteq T, IsFiniteSet(T), NEW n \in Nat, n <= Cardinality(S)
  PROVE  n <= Cardinality(T)
<1>1. IsFiniteSet(S) /\ Cardinality(S) <= Cardinality(T)
  BY FS_Subset
<1>2. Cardinality(S) \in Nat /\ Cardinality(T) \in Nat
  BY <1>1, FS_CardinalityType
<1>3. QED
  BY <1>1, <1>2

\* A step that writes no entry and takes none back.
LEMMA GhostKept ==
  ASSUME FileTypes, GhostInv, UNCHANGED task, Read' = Read \/ Read' = NoData,
         \/ lock' = NoLock
         \/ lock # NoLock /\ lock' # NoLock /\ lock'.task = lock.task /\ lock'.data = lock.data,
         \A t \in CTasks : HasLock(t)' => state'[t] = state[t],
         \A t \in CTasks : Placed(t) => Placed(t)',
         \A t \in CTasks : task[t].kind = "interest" /\ Entered(t) => Entered(t)'
  PROVE  GhostInv'
<1>1. /\ CTasks' = CTasks /\ Relays' = Relays /\ Prefixed' = Prefixed /\ HostKeys' = HostKeys
      /\ \A t, k, r : EntryOf(t, k, r)' <=> EntryOf(t, k, r)
      /\ \A t, p, r : SeeksFor(t, p, r)' = SeeksFor(t, p, r)
  BY SameTasks DEF EntryOf
<1>2. \A p, r : IsFiniteSet(HoldersOf(p, r)') /\ IsFiniteSet(HoldersNext(p, r)') /\ Cardinality(HoldersOf(p, r)') \in Nat
  BY HoldersFiniteNext
<1>3. \A p, r : HoldersOf(p, r) \subseteq HoldersOf(p, r)'
  BY <1>1 DEF HoldersOf, SeeksFor
<1>4. \A k \in HostKeys : NoData.hosts[k] = Nobody
  BY DEF NoData
<1>5. \A p \in Prefixed, r \in Relays : NoData.interest[p][r] = 0
  BY DEF NoData
<1>6. ASSUME NEW k \in HostKeys, Read'.hosts[k] # Nobody
      PROVE  \E t \in CTasks : EntryOf(t, k, Read'.hosts[k]) /\ Placed(t)'
  BY <1>4, <1>6 DEF GhostInv
<1>7. ASSUME NEW p \in Prefixed, NEW r \in Relays PROVE Read'.interest[p][r] <= Cardinality(HoldersOf(p, r)')
  <2>1. CASE Read' = Read
    <3>1. Read.interest[p][r] \in Nat
      BY DataTyped DEF CoordinatorData
    <3>2. Read.interest[p][r] <= Cardinality(HoldersOf(p, r))
      BY DEF GhostInv
    <3>3. QED
      BY <1>2, <1>3, <2>1, <3>1, <3>2, HoldersGrow
  <2>2. CASE Read' = NoData
    BY <1>2, <1>5, <2>2
  <2>3. QED
    BY <2>1, <2>2
<1>8. ASSUME lock' # NoLock
      PROVE  /\ \A k \in HostKeys : lock'.data.hosts[k] # Nobody =>
                  \E t \in CTasks : EntryOf(t, k, lock'.data.hosts[k]) /\ WillBePlaced(t)'
             /\ \A p \in Prefixed, r \in Relays : lock'.data.interest[p][r] <= Cardinality(HoldersNext(p, r)')
  <2>1. lock # NoLock /\ lock'.data = lock.data /\ \A t : HasLock(t)' <=> HasLock(t)
    BY <1>8 DEF HasLock
  <2>2. \A t \in CTasks : WillBePlaced(t) => WillBePlaced(t)'
    BY <2>1 DEF WillBePlaced
  <2>3. \A t \in CTasks : task[t].kind = "interest" /\ WillEnter(t) => WillEnter(t)'
    BY <2>1 DEF WillEnter
  <2>4. \A p, r : HoldersNext(p, r) \subseteq HoldersNext(p, r)'
    BY <1>1, <2>3 DEF HoldersNext, SeeksFor
  <2>5. \A p \in Prefixed, r \in Relays : lock.data.interest[p][r] \in Nat
    BY <2>1 DEF FileTypes, CoordinatorData
  <2>6. \A p \in Prefixed, r \in Relays : lock.data.interest[p][r] <= Cardinality(HoldersNext(p, r))
    BY <2>1 DEF GhostInv
  <2>7. \A p \in Prefixed, r \in Relays : lock'.data.interest[p][r] <= Cardinality(HoldersNext(p, r)')
    BY <1>2, <2>1, <2>4, <2>5, <2>6, HoldersGrow
  <2>8. QED
    BY <2>1, <2>2, <2>7 DEF GhostInv
<1>9. QED
  BY <1>1, <1>6, <1>7, <1>8 DEF GhostInv

\* Nothing is registered when a coordinator begins.
LEMMA GhostBegin == ASSUME CoordinatorInit PROVE GhostInv
<1>0. PICK c \in CoordinatorCases : CoordinatorStart(c)
  BY DEF CoordinatorInit
<1>1. FileTypes /\ file.kind = "empty" /\ lock = NoLock
  BY <1>0, FileBegin DEF CoordinatorStart, FileInv
<1>2. Read = NoData
  BY <1>1 DEF Read
<1>3. \A k \in HostKeys : Read.hosts[k] = Nobody
  BY <1>2 DEF NoData
<1>4. \A p \in Prefixed, r \in Relays : Read.interest[p][r] = 0
  BY <1>2 DEF NoData
<1>5. \A p, r : 0 <= Cardinality(HoldersOf(p, r))
  BY <1>1, HoldersFinite, FS_CardinalityType
<1>6. QED
  BY <1>1, <1>3, <1>4, <1>5 DEF GhostInv

\* What a call will write is entered by those who will have an entry.
LEMMA GhostLock ==
  ASSUME FileTypes, GhostInv, NEW t \in CTasks, LockExclusive(t), Readable PROVE GhostInv'
<1> DEFINE interest == task[t].kind = "interest"
           data == IF state[t] = "calling"
                   THEN (IF interest THEN Counted(t, Read) ELSE Registered(t, Read))
                   ELSE (IF interest THEN Uncounted(t, Read) ELSE Unregistered(t, Read))
<1>1. /\ UNCHANGED <<task, file, state>> /\ state[t] \in {"calling", "dropping"} /\ lock = NoLock
      /\ lock' = [task |-> t, data |-> data, stage |-> "read"]
  BY DEF LockExclusive
<1>2. /\ CTasks' = CTasks /\ Relays' = Relays /\ Prefixed' = Prefixed /\ HostKeys' = HostKeys /\ Read' = Read
      /\ \A u, k, r : EntryOf(u, k, r)' <=> EntryOf(u, k, r)
      /\ \A u, p, r : SeeksFor(u, p, r)' = SeeksFor(u, p, r)
  BY <1>1, SameTasks DEF EntryOf
<1>3. Read \in CoordinatorData
  BY DataTyped
<1>4. \A u \in CTasks : (HasLock(u)' <=> u = t) /\ (Placed(u)' <=> Placed(u)) /\ (Entered(u)' <=> Entered(u))
  BY <1>1 DEF HasLock, Placed, Entered, NoLock
<1>5. \A u \in CTasks : WillBePlaced(u)' <=> IF u = t THEN state[t] = "calling" ELSE Placed(u)
  BY <1>1, <1>4 DEF WillBePlaced
<1>6. lock' # NoLock /\ lock'.data = data
  BY <1>1 DEF NoLock
<1> HIDE DEF data
<1>7. ASSUME NEW k \in HostKeys, data.hosts[k] # Nobody
      PROVE  \E u \in CTasks : EntryOf(u, k, data.hosts[k]) /\ WillBePlaced(u)'
  <2>1. CASE ~interest /\ k = KeyOf(t)
    <3>1. state[t] = "calling" => data.hosts[k] = task[t].relay
      BY <1>3, <2>1, DataChanged DEF data
    <3>2. state[t] # "calling" => data.hosts[k] = Nobody
      <4>1. state[t] # "calling" => data = Unregistered(t, Read)
        BY <2>1 DEF data
      <4>2. Unregistered(t, Read).hosts[k] = Nobody
        BY <1>3, <2>1 DEF Unregistered, CoordinatorData
      <4>3. QED
        BY <4>1, <4>2
    <3>3. QED
      BY <1>5, <1>7, <2>1, <3>1, <3>2 DEF EntryOf
  <2>2. CASE interest \/ k # KeyOf(t)
    <3>1. data.hosts[k] = Read.hosts[k]
      BY <1>3, <2>2, DataChanged DEF data
    <3>2. PICK u \in CTasks : EntryOf(u, k, Read.hosts[k]) /\ Placed(u)
      BY <1>7, <3>1 DEF GhostInv
    <3>3. u # t
      BY <2>2, <3>2 DEF EntryOf
    <3>4. QED
      BY <1>5, <3>1, <3>2, <3>3
  <2>3. QED
    BY <2>1, <2>2
<1>8. ASSUME NEW p \in Prefixed, NEW r \in Relays PROVE data.interest[p][r] <= Cardinality(HoldersNext(p, r)')
  <2>1. HoldersNext(p, r)' = {u \in CTasks : SeeksFor(u, p, r) /\ IF u = t THEN state[u] = "calling" ELSE Entered(u)}
    BY <1>1, <1>2, <1>4 DEF HoldersNext, WillEnter
  <2>2. /\ Read.interest[p][r] <= Cardinality(HoldersOf(p, r)) /\ IsFiniteSet(HoldersOf(p, r))
        /\ Cardinality(HoldersOf(p, r)) \in Nat /\ Read.interest[p][r] \in Nat
    <3>1. Read.interest[p][r] \in Nat
      BY <1>3 DEF CoordinatorData
    <3>2. QED
      BY <3>1, HoldersFinite, FS_CardinalityType DEF GhostInv
  <2>3. CASE ~SeeksFor(t, p, r)
    <3>1. HoldersNext(p, r)' = HoldersOf(p, r)
      BY <2>1, <2>3 DEF HoldersOf
    <3>2. interest => ~(p = task[t].name.ns /\ r = task[t].relay)
      BY <2>3 DEF SeeksFor
    <3>3. interest => /\ Counted(t, Read).interest[p][r] = Read.interest[p][r]
                      /\ Uncounted(t, Read).interest[p][r] = Read.interest[p][r]
      BY <1>3, <3>2, DataChanged
    <3>4. ~interest => /\ Registered(t, Read).interest = Read.interest
                       /\ Unregistered(t, Read).interest = Read.interest
      BY <1>3, DataChanged
    <3>5. data.interest[p][r] = Read.interest[p][r]
      BY <3>3, <3>4 DEF data
    <3>6. QED
      BY <2>2, <3>1, <3>5
  <2>4. CASE SeeksFor(t, p, r) /\ state[t] = "calling"
    <3>1. HoldersNext(p, r)' = HoldersOf(p, r) \union {t} /\ t \notin HoldersOf(p, r)
      BY <2>1, <2>4 DEF HoldersOf, Entered
    <3>2. data = Counted(t, Read) /\ Counted(t, Read).interest[p][r] = Read.interest[p][r] + 1
      BY <1>3, <2>4, DataChanged DEF SeeksFor, data
    <3>3. Cardinality(HoldersOf(p, r) \union {t}) = Cardinality(HoldersOf(p, r)) + 1
      BY <2>2, <3>1, FS_AddElement
    <3>4. QED
      BY <2>2, <3>1, <3>2, <3>3
  <2>5. CASE SeeksFor(t, p, r) /\ state[t] # "calling"
    <3>1. HoldersNext(p, r)' = HoldersOf(p, r) \ {t} /\ t \in HoldersOf(p, r)
      BY <1>1, <2>1, <2>5 DEF HoldersOf, Entered
    <3>2. Cardinality(HoldersOf(p, r) \ {t}) = Cardinality(HoldersOf(p, r)) - 1
      BY <2>2, <3>1, FS_RemoveElement
    <3>3. Cardinality(HoldersOf(p, r)) # 0
      BY <2>2, <3>1, FS_EmptySet
    <3>4. /\ data = Uncounted(t, Read)
          /\ Read.interest[p][r] > 0 => Uncounted(t, Read).interest[p][r] = Read.interest[p][r] - 1
          /\ Read.interest[p][r] = 0 => Uncounted(t, Read).interest[p][r] = 0
      BY <1>3, <2>5, DataChanged DEF SeeksFor, data
    <3>5. QED
      BY <2>2, <3>1, <3>2, <3>3, <3>4
  <2>6. QED
    BY <2>3, <2>4, <2>5
<1>9. \A p, r : HoldersOf(p, r)' = HoldersOf(p, r)
  BY <1>2, <1>4 DEF HoldersOf
<1>10. QED
  BY <1>2, <1>4, <1>6, <1>7, <1>8, <1>9 DEF GhostInv

\* What is written is what it was to be.
LEMMA GhostWrite == ASSUME FileTypes, GhostInv, WriteFile PROVE GhostInv'
<1> DEFINE t == lock.task
<1>1. /\ UNCHANGED task /\ lock.stage = "truncated" /\ lock' = NoLock
      /\ file' = [kind |-> "data", data |-> lock.data]
      /\ state' = [state EXCEPT ![t] = IF state[t] = "dropping" THEN "done"
                                       ELSE IF t \in abandoned THEN "leaked" ELSE "held"]
  BY DEF WriteFile
<1>2. lock # NoLock /\ t \in CTasks /\ state[t] \in {"calling", "dropping"}
  BY <1>1 DEF FileTypes, NoLock
<1>3. \A u \in CTasks : HasLock(u) <=> u = t
  BY <1>2 DEF HasLock
<1> HIDE DEF t
<1>4. /\ \A u \in CTasks : u # t => state'[u] = state[u]
      /\ state[t] = "dropping" => state'[t] = "done"
      /\ state[t] = "calling" => state'[t] \in {"leaked", "held"}
  BY <1>1, <1>2 DEF FileTypes
<1>5. /\ CTasks' = CTasks /\ Relays' = Relays /\ Prefixed' = Prefixed /\ HostKeys' = HostKeys
      /\ \A u, k, r : EntryOf(u, k, r)' <=> EntryOf(u, k, r)
      /\ \A u, p, r : SeeksFor(u, p, r)' = SeeksFor(u, p, r)
  BY <1>1, SameTasks DEF EntryOf
<1>6. Read' = lock.data
  BY <1>1 DEF Read
<1>7. \A u \in CTasks : (Placed(u)' <=> WillBePlaced(u)) /\ (Entered(u)' <=> WillEnter(u))
  BY <1>2, <1>3, <1>4 DEF Placed, WillBePlaced, Entered, WillEnter
<1>8. \A p, r : HoldersOf(p, r)' = HoldersNext(p, r)
  BY <1>5, <1>7 DEF HoldersOf, HoldersNext
<1>9. QED
  BY <1>1, <1>2, <1>5, <1>6, <1>7, <1>8 DEF GhostInv

\* Every step keeps whose the entries are.
LEMMA GhostStep == ASSUME FileTypes, GhostInv, [CoordinatorNext]_coordinatorVars PROVE GhostInv'
<1>1. \A t \in CTasks : HasLock(t) => state[t] \in {"calling", "dropping"}
  BY LockHolder
<1>2. ASSUME NEW t \in CTasks, Call(t) \/ DropHandle(t) \/ Cancel(t) \/ LookupSubscribers(t) PROVE GhostInv'
  <2>1. UNCHANGED <<task, file, lock>>
    BY <1>2 DEF Call, DropHandle, Cancel, LookupSubscribers
  <2>2. /\ \A u \in CTasks : u # t => state'[u] = state[u]
        /\ \/ state[t] = "idle" /\ state'[t] = "calling"
           \/ state[t] \in {"held", "told"} /\ state'[t] = "dropping"
           \/ state[t] = "held" /\ state'[t] \in {"told", "dropping"} /\ NamespaceTask(t)
           \/ state'[t] = state[t]
    BY <1>2 DEF Call, DropHandle, Cancel, LookupSubscribers, FileTypes
  <2>3. Read' = Read /\ \A u \in CTasks : HasLock(u)' <=> HasLock(u)
    BY <2>1, SameTasks DEF HasLock
  <2>4. \A u \in CTasks : HasLock(u) => state'[u] = state[u]
    BY <1>1, <2>2
  <2>5. \A u \in CTasks : Placed(u) => Placed(u)'
    BY <2>2 DEF Placed
  <2>6. \A u \in CTasks : task[u].kind = "interest" /\ Entered(u) => Entered(u)'
    BY <2>2 DEF Entered, NamespaceTask
  <2>7. lock' = NoLock \/ (lock # NoLock /\ lock' # NoLock /\ lock'.task = lock.task /\ lock'.data = lock.data)
    BY <2>1
  <2>8. QED
    BY <2>1, <2>3, <2>4, <2>5, <2>6, <2>7, GhostKept
<1>3. ASSUME NEW t \in CTasks, LockExclusive(t) PROVE GhostInv'
  <2>1. CASE Readable
    BY <1>3, <2>1, GhostLock
  <2>2. CASE ~Readable
    <3>1. UNCHANGED <<task, file>> /\ lock' = NoLock /\ file.kind = "garbled"
      BY <1>3, <2>2 DEF LockExclusive, Readable
    <3>2. QED
      BY <3>1, GhostEmpty
  <2>3. QED
    BY <2>1, <2>2
<1>4. CASE TruncateFile
  <2>1. UNCHANGED <<task, state>> /\ lock.stage = "read" /\ lock' = [lock EXCEPT !.stage = "truncated"] /\ file'.kind = "empty"
    BY <1>4 DEF TruncateFile
  <2>2. lock # NoLock /\ lock' # NoLock /\ lock'.task = lock.task /\ lock'.data = lock.data
    BY <2>1 DEF FileTypes, NoLock
  <2>3. Read' = NoData
    <3>1. HostKeys' = HostKeys /\ Prefixed' = Prefixed /\ Relays' = Relays
      BY <2>1, SameTasks
    <3>2. QED
      BY <2>1, <3>1 DEF Read, NoData
  <2>4. \A u \in CTasks : (Placed(u) => Placed(u)') /\ (Entered(u) => Entered(u)')
    BY <2>1 DEF Placed, Entered
  <2>5. QED
    BY <2>1, <2>2, <2>3, <2>4, GhostKept
<1>5. CASE CallFails
  <2> DEFINE x == lock.task
  <2>1. /\ UNCHANGED <<task, file>> /\ lock.stage = "read" /\ lock' = NoLock
        /\ state' = [state EXCEPT ![x] = IF state[x] = "dropping" THEN "leaked" ELSE "failed"]
    BY <1>5 DEF CallFails
  <2>2. x \in CTasks /\ state[x] \in {"calling", "dropping"}
    BY <2>1 DEF FileTypes, NoLock
  <2> HIDE DEF x
  <2>3. \A u \in CTasks : (Placed(u) => Placed(u)') /\ (Entered(u) => Entered(u)') /\ ~HasLock(u)'
    BY <2>1, <2>2 DEF Placed, Entered, HasLock, FileTypes
  <2>4. Read' = Read
    BY <2>1, SameTasks
  <2>5. QED
    BY <2>1, <2>3, <2>4, GhostKept
<1>6. CASE FileWriteFails
  <2>1. UNCHANGED task /\ lock' = NoLock /\ file'.kind # "data"
    BY <1>6 DEF FileWriteFails, CutShort
  <2>2. QED
    BY <2>1, GhostEmpty
<1>7. ASSUME NEW r, Crash(r) PROVE GhostInv'
  <2> DEFINE here == {t \in CTasks : task[t].relay = r}
             working == lock # NoLock /\ lock.task \in here
             entered == {t \in here : state[t] \in {"held", "told", "dropping"}}
             calling == {t \in here : state[t] = "calling"}
  <2>1. /\ UNCHANGED task /\ lock' = IF working THEN NoLock ELSE lock
        /\ state' = [t \in CTasks |-> IF t \in entered THEN "leaked" ELSE IF t \in calling THEN "dead" ELSE state[t]]
        /\ \/ working /\ file'.kind # "data"
           \/ file' = file
    BY <1>7 DEF Crash, CutShort
  <2>2. \A u \in CTasks : (Placed(u) => Placed(u)') /\ (Entered(u) => Entered(u)')
    BY <2>1 DEF Placed, Entered
  <2>3. \A u \in CTasks : HasLock(u)' => state'[u] = state[u]
    <3>1. \A u \in CTasks : HasLock(u)' => u \notin here
      BY <2>1 DEF HasLock
    <3>2. QED
      BY <2>1, <3>1
  <2>4. CASE working /\ file'.kind # "data"
    BY <2>1, <2>4, GhostEmpty
  <2>5. CASE file' = file
    <3>1. Read' = Read
      BY <2>1, <2>5, SameTasks
    <3>2. lock' = NoLock \/ (lock # NoLock /\ lock' # NoLock /\ lock'.task = lock.task /\ lock'.data = lock.data)
      BY <2>1
    <3> HIDE DEF here
    <3>3. QED
      BY <2>1, <2>2, <2>3, <3>1, <3>2, GhostKept
  <2>6. QED
    BY <2>1, <2>4, <2>5
<1>8. CASE UNCHANGED coordinatorVars
  <2>1. UNCHANGED <<task, state, file, lock>>
    BY <1>8 DEF coordinatorVars
  <2>2. Read' = Read /\ \A u \in CTasks : /\ (Placed(u) => Placed(u)') /\ (Entered(u) => Entered(u)')
                                          /\ state'[u] = state[u]
    BY <2>1, SameTasks DEF Placed, Entered
  <2>3. lock' = NoLock \/ (lock # NoLock /\ lock' # NoLock /\ lock'.task = lock.task /\ lock'.data = lock.data)
    BY <2>1
  <2>4. QED
    BY <2>1, <2>2, <2>3, GhostKept
<1>9. QED
  BY <1>2, <1>3, <1>4, <1>5, <1>6, <1>7, <1>8, GhostWrite DEF CoordinatorNext

\* The file counts every interest of a live session, and a publisher and a subscriber on two relays
\* find each other, however the calls of the relays interleave, whichever callers go away and whichever
\* relays die, until a write fails or a relay dies in the middle of one; and whatever was lost, nobody is
\* told of a relay that has taken its entry back (file_coordinator.rs).
THEOREM FileHolds == CoordinatorSpec => [](InterestCounted /\ NoGhost /\ Rendezvous)
<1>1. CoordinatorInit => FileInv /\ GhostInv
  BY FileBegin, GhostBegin
<1>2. FileInv /\ GhostInv /\ [CoordinatorNext]_coordinatorVars => FileInv' /\ GhostInv'
  BY FileStep, GhostStep DEF FileInv
<1>3. FileInv => InterestCounted /\ Rendezvous
  BY FileOf
<1>4. GhostInv => NoGhost
  <2>1. \A p, r : HoldersOf(p, r) = Seekers(p, r)
    BY DEF HoldersOf, SeeksFor, Entered, Seekers
  <2>2. QED
    BY <2>1 DEF GhostInv, NoGhost, EntryOf, Placed
<1>5. QED
  BY <1>1, <1>2, <1>3, <1>4, PTL DEF CoordinatorSpec

-----------------------------------------------------------------------------
(* The drain                                                               *)

(* NoneCutShort says what holds when the relay has stopped; before that, a   *)
(* connection of the broadcast is one that arrived, and once the sessions    *)
(* were all gone after the signal those of the broadcast are gone for good.  *)
DrainInv ==
  /\ conn \in [Conns -> LiveStates \union {"away", "ended", "cut"}]
  /\ broadcast \subseteq Conns /\ timedOut \subseteq Conns
  /\ signalled \in BOOLEAN /\ wasEmpty \in BOOLEAN
  /\ \A c \in broadcast : conn[c] # "away"
  /\ \A c \in Conns : conn[c] \in {"sending", "told", "flushing"} => signalled
  /\ Running => \A c \in Conns : conn[c] # "cut"
  /\ wasEmpty => signalled /\ \A c \in broadcast : conn[c] \notin LiveStates
  /\ NoneCutShort

USE DEF Running, Conns, LiveStates, Live, Draft19DrainEnd

\* A drain that begins.
LEMMA DrainStart_Inv == DrainInit => DrainInv
  BY DEF DrainInit, DrainStart, DrainInv, NoneCutShort

\* Every step of the drain keeps its invariant.
LEMMA DrainStep_Inv == ASSUME DrainInv, [DrainNext]_drainVars PROVE DrainInv'
<1> USE DEF DrainInv, NoneCutShort
<1>1. ASSUME NEW c \in Conns, AcceptConn(c) PROVE DrainInv'
  BY <1>1 DEF AcceptConn
<1>2. ASSUME NEW c \in Conns, Establish(c) PROVE DrainInv'
  BY <1>2 DEF Establish
<1>3. ASSUME NEW c \in Conns, PeerCloses(c) PROVE DrainInv'
  BY <1>3 DEF PeerCloses, End
<1>4. ASSUME NEW c \in Conns, DrainSignalled(c) \/ SendGoaway(c) PROVE DrainInv'
  BY <1>4 DEF DrainSignalled, SendGoaway
<1>5. ASSUME NEW c \in Conns, GoawayTimeout(c) PROVE DrainInv'
  BY <1>5 DEF GoawayTimeout
<1>6. ASSUME NEW c \in Conns, CloseFlushed(c) PROVE DrainInv'
  BY <1>6 DEF CloseFlushed, End
<1>7. CASE Signal
  BY <1>7 DEF Signal
<1>8. CASE Drained
  BY <1>8 DEF Drained, Stop
<1>9. CASE Ceiling
  BY <1>9 DEF Ceiling, BroadcastEnded, Stop
<1>10. CASE SecondSignal \/ AcceptFails
  BY <1>10 DEF SecondSignal, AcceptFails, Stop
<1>11. CASE Tick
  BY <1>11 DEF Tick
<1>12. CASE UNCHANGED drainVars
  BY <1>12 DEF drainVars
<1>13. QED
  BY <1>1, <1>2, <1>3, <1>4, <1>5, <1>6, <1>7, <1>8, <1>9, <1>10, <1>11, <1>12 DEF DrainNext, DrainStep

(* When the relay stops by itself, drained or at the ceiling, every session  *)
(* of the broadcast ended by itself or by GOAWAY_TIMEOUT, which only a       *)
(* nonzero Timeout brings about (Draft19Drain::finished).                    *)
THEOREM DrainSafe == DrainSpec => []NoneCutShort
<1>1. DrainInv => NoneCutShort
  BY DEF DrainInv
<1>2. QED
  BY <1>1, DrainStart_Inv, DrainStep_Inv, PTL DEF DrainSpec
-----------------------------------------------------------------------------
(* One key of moq-api                                                      *)

\* No handle of the key was given up and deleted.
NoneDeleted == \A h \in Regs : reg[h] # "done"

\* The registration is refreshed more often than entries expire, and its latest refresh did not fail.
Kept(h) == reg[h] = "held" /\ h \notin failed /\ Every(h) < EntryTtl

(* While nobody deleted the key, the entry is that of everyone who keeps     *)
(* it, and lasts longer than the time to the next refresh, unless that one   *)
(* is under way: then time cannot pass without the refresh being late.       *)
ApiInv ==
  /\ owner \in ApiCases
  /\ reg \in [Regs -> {"idle", "set", "held", "deleting", "done", "refused", "dead"}]
  /\ patch \in [Regs -> {"due", "expire", "rest"}]
  /\ wait \in [Regs -> Nat] /\ \A h \in Regs : 1 <= wait[h] /\ wait[h] <= Every(h)
  /\ failed \subseteq Regs
  /\ ttl \in Nat /\ ttl <= EntryTtl /\ (origin = NoOrigin <=> ttl = 0)
  /\ NoneDeleted =>
       \A h \in Regs : Kept(h) => origin = Owner(h) /\ (patch[h] = "rest" => ttl > wait[h])

\* A key that nobody has registered.
LEMMA ApiStart_Inv == ApiInit => ApiInv
<1> SUFFICES ASSUME NEW c \in ApiCases, ApiStart(c) PROVE ApiInv
  BY DEF ApiInit
<1>1. \A h \in DOMAIN c : c[h].every \in Nat /\ 1 <= c[h].every
  BY ApiAssumption
<1>2. \A h \in Regs : reg[h] = "idle"
  BY DEF ApiStart, Regs
<1>3. QED
  BY <1>1, <1>2, ApiAssumption DEF ApiStart, ApiInv, Regs, Every, Kept

\* Every command keeps the invariant of the key.
LEMMA ApiStep_Inv == ASSUME ApiInv, [ApiNext]_apiVars PROVE ApiInv'
<1>0. EntryTtl \in Nat /\ 1 <= EntryTtl /\ \A h \in Regs : Owner(h) # NoOrigin /\ Every(h) \in Nat
  BY ApiAssumption DEF ApiInv, Owner, Every, Regs, NoOrigin
<1>00. owner' = owner => Regs' = Regs /\ \A h : Owner(h)' = Owner(h) /\ Every(h)' = Every(h)
  BY DEF Regs, Owner, Every
<1> USE DEF ApiInv, NoneDeleted, Kept
<1>1. ASSUME NEW h \in Regs, GetForSet(h) PROVE ApiInv'
  BY <1>0, <1>00, <1>1 DEF GetForSet
<1>2. ASSUME NEW h \in Regs, SetOrigin(h) PROVE ApiInv'
  BY <1>0, <1>00, <1>2 DEF SetOrigin, Vacant
<1>3. ASSUME NEW h \in Regs, SetFails(h) PROVE ApiInv'
  BY <1>0, <1>00, <1>3 DEF SetFails, Vacant
<1>4. ASSUME NEW h \in Regs, PatchCheck(h) PROVE ApiInv'
  BY <1>0, <1>00, <1>4 DEF PatchCheck
<1>5. ASSUME NEW h \in Regs, PatchExpire(h) PROVE ApiInv'
  BY <1>0, <1>00, <1>5 DEF PatchExpire
<1>6. ASSUME NEW h \in Regs, PatchFails(h) PROVE ApiInv'
  BY <1>0, <1>00, <1>6 DEF PatchFails
<1>7. ASSUME NEW h \in Regs, DropRegistration(h) PROVE ApiInv'
  <2>1. reg' = [reg EXCEPT ![h] = "deleting"] /\ UNCHANGED <<owner, wait, failed, origin, ttl>>
        /\ patch' \in [Regs -> {"due", "expire", "rest"}]
        /\ \A k \in Regs : k # h => patch'[k] = patch[k]
    BY <1>7 DEF DropRegistration
  <2>2. \A k \in Regs : Kept(k)' => Kept(k) /\ patch'[k] = patch[k]
    BY <1>00, <2>1
  <2>3. NoneDeleted' => NoneDeleted
    BY <1>00, <1>7, <2>1 DEF DropRegistration
  <2>4. QED
    BY <1>00, <2>1, <2>2, <2>3
<1>8. ASSUME NEW h \in Regs, DeleteOrigin(h) \/ DeleteFails(h) PROVE ApiInv'
  <2>1. CASE DeleteOrigin(h)
    <3>1. ~NoneDeleted'
      BY <1>00, <2>1 DEF DeleteOrigin
    <3>2. QED
      BY <1>0, <1>00, <2>1, <3>1 DEF DeleteOrigin
  <2>2. CASE DeleteFails(h)
    BY <1>00, <2>2 DEF DeleteFails
  <2>3. QED
    BY <1>8, <2>1, <2>2
<1>9. ASSUME NEW r, RelayDies(r) PROVE ApiInv'
  <2> DEFINE here == {h \in Regs : Owner(h) = r /\ reg[h] \in {"set", "held"}}
  <2>0. here \subseteq Regs /\ \A h \in here : reg[h] \in {"set", "held"}
    OBVIOUS
  <2>1. PICK unsent \in SUBSET {h \in here : patch[h] = "due"} :
          /\ reg' = [h \in Regs |-> IF h \in here THEN "dead" ELSE reg[h]]
          /\ patch' = [h \in Regs |-> IF h \in unsent THEN "rest" ELSE patch[h]]
          /\ UNCHANGED <<owner, wait, failed, origin, ttl>>
    BY <1>9 DEF RelayDies
  <2> HIDE DEF here
  <2>2. /\ reg' \in [Regs -> {"idle", "set", "held", "deleting", "done", "refused", "dead"}]
        /\ patch' \in [Regs -> {"due", "expire", "rest"}]
    BY <2>1
  <2>3. \A h \in Regs : Kept(h)' => Kept(h) /\ patch'[h] = patch[h]
    BY <1>00, <2>0, <2>1
  <2>4. NoneDeleted' => NoneDeleted
    BY <1>00, <2>0, <2>1
  <2>5. QED
    BY <1>00, <2>1, <2>2, <2>3, <2>4
<1>10. CASE ApiTick
  BY <1>0, <1>00, <1>10 DEF ApiTick, Refreshed
<1>11. CASE UNCHANGED apiVars
  BY <1>00, <1>11 DEF apiVars
<1>12. QED
  BY <1>1, <1>2, <1>3, <1>4, <1>5, <1>6, <1>7, <1>8, <1>9, <1>10, <1>11 DEF ApiNext, ApiStep

(* Who holds the key is its origin as long as no handle of it was deleted,   *)
(* unless its own refresh failed, was late or comes too seldom: SET NX       *)
(* decides the race of two that both saw the key vacant, and a refresh comes *)
(* before the entry expires; whatever other relays do, crash or fail at      *)
(* takes nothing from it (set_origin, patch_origin, start_refresh_task).     *)
THEOREM OneRelayHolds == ApiSpec => []OneOrigin
<1>1. ApiInv => OneOrigin
  BY DEF ApiInv, OneOrigin, NoneDeleted, Kept
<1>2. QED
  BY <1>1, ApiStart_Inv, ApiStep_Inv, PTL DEF ApiSpec

\* Both coordinators keep what they promise to the relays that share them (file_coordinator.rs,
\* api_coordinator.rs, moq-api server.rs).
THEOREM CoordinatorsHold == CoordinatorSpec /\ ApiSpec => []Coordinated
  BY FileHolds, OneRelayHolds, PTL DEF Coordinated

-----------------------------------------------------------------------------
(* The requests of a session                                               *)

RequestSteps ==
  {"away", "queued", "local", "coordinator", "answering", "announcing", "open", "ended"}

\* What can have been sent for a request.
Silence == <<>>
Accepted == <<"ok">>
SentValues == {Silence, Accepted, <<"error">>, <<"ok", "cancel">>, <<"ok", "done">>}

\* The requests that hold a permit.
Permitted == {q \in RRequests : "permit" \in held[q]}

\* The peer knows that the request has come to its end.
Told(q) == sent[q] # Silence /\ (kind[q] = "TrackStatus" \/ sent[q] # Accepted)

(* What a request holds and what was sent for it, by the step it has come    *)
(* to: nothing is sent before both registrations stand.                      *)
RequestInv(q) ==
  /\ step[q] \in {"local", "coordinator", "answering", "announcing"} => kind[q] \in Publishes
  /\ step[q] \in {"away", "queued", "local", "coordinator", "answering"} => sent[q] = Silence
  /\ step[q] \in {"announcing", "open"} => sent[q] = Accepted
  /\ step[q] = "announcing" => kind[q] = "PublishNamespace"
  /\ step[q] = "ended" /\ session = "running" /\ q \notin withdrawn => Told(q)
  /\ step[q] = "coordinator" => "local" \in held[q]
  /\ step[q] \in {"answering", "announcing"} => {"local", "coordinator"} \subseteq held[q]
  /\ step[q] = "open" /\ kind[q] \in Publishes => {"local", "coordinator"} \subseteq held[q]
  /\ step[q] \in {"away", "queued", "ended"} => held[q] = {}
  /\ kind[q] \notin Publishes => held[q] = {}
  /\ step[q] \in {"local", "coordinator", "answering", "announcing"} => scope = "ReadWrite"
  /\ held[q] # {} => session = "running" /\ scope = "ReadWrite"
  /\ session \in {"accepting", "resolving"} => step[q] = "away"

RequestsInv ==
  /\ kind \in RequestCases
  /\ step \in [RRequests -> RequestSteps]
  /\ held \in [RRequests -> SUBSET {"permit", "local", "coordinator"}]
  /\ sent \in [RRequests -> SentValues]
  /\ withdrawn \subseteq RRequests
  /\ \A q \in RRequests : RequestInv(q)

SessionInv == RequestsInv /\ Permits <= MaxPublishTracks

\* The permits that are out can be counted.
LEMMA PermittedFinite == ASSUME SessionInv PROVE IsFiniteSet(Permitted) /\ Permits \in Nat
<1>1. IsFiniteSet(RRequests)
  BY RelaySessionAssumption DEF SessionInv, RequestsInv, RRequests
<1>2. QED
  BY <1>1, FS_Subset, FS_CardinalityType DEF Permitted, Permits

\* A request of the set more, or fewer of them.
LEMMA PermitsGrow ==
  ASSUME SessionInv, NEW q, Permitted' \subseteq Permitted \union {q}
  PROVE  Permits' \in Nat /\ Permits' <= Permits + 1
<1>1. IsFiniteSet(Permitted) /\ Permits = Cardinality(Permitted) /\ Permits' = Cardinality(Permitted')
  BY PermittedFinite DEF Permitted, Permits
<1>2. /\ IsFiniteSet(Permitted \union {q})
      /\ Cardinality(Permitted \union {q}) \in {Cardinality(Permitted), Cardinality(Permitted) + 1}
  BY <1>1, FS_AddElement
<1>3. IsFiniteSet(Permitted') /\ Cardinality(Permitted') <= Cardinality(Permitted \union {q})
  BY <1>2, FS_Subset
<1>4. Cardinality(Permitted) \in Nat /\ Cardinality(Permitted') \in Nat
  BY <1>1, <1>3, FS_CardinalityType
<1>5. QED
  BY <1>1, <1>2, <1>3, <1>4

\* Permits that go back make room.
LEMMA PermitsShrink ==
  ASSUME SessionInv, Permitted' \subseteq Permitted
  PROVE  Permits' \in Nat /\ Permits' <= Permits
<1>1. IsFiniteSet(Permitted) /\ Permits = Cardinality(Permitted) /\ Permits' = Cardinality(Permitted')
  BY PermittedFinite DEF Permitted, Permits
<1>2. IsFiniteSet(Permitted') /\ Cardinality(Permitted') <= Cardinality(Permitted)
  BY <1>1, FS_Subset
<1>3. QED
  BY <1>1, <1>2, FS_CardinalityType

\* A session that begins.
LEMMA SessionStart_Inv == RelaySessionInit => SessionInv
<1> SUFFICES ASSUME NEW c \in RequestCases, RelaySessionStart(c) PROVE SessionInv
  BY DEF RelaySessionInit
<1>1. Permits = 0
  <2>1. {q \in RRequests : "permit" \in held[q]} = {}
    BY DEF RelaySessionStart, RRequests
  <2>2. QED
    BY <2>1, FS_EmptySet DEF Permits
<1>2. QED
  BY <1>1, RelaySessionAssumption DEF RelaySessionStart, SessionInv, RequestsInv,
                                      RequestInv, RRequests, RequestSteps, SentValues, Silence

\* What the drop of a handle leaves of what was sent tells the peer, unless the peer ended it.
LEMMA DropAnswers ==
  ASSUME RequestsInv, NEW q \in RRequests, Drop(q), UNCHANGED kind,
         sent[q] = Silence \/ kind[q] = "PublishNamespace" \/ q \in withdrawn
  PROVE  /\ sent' \in [RRequests -> SentValues]
         /\ \A r \in RRequests : r # q => sent'[r] = sent[r]
         /\ q \notin withdrawn => Told(q)'
<1>1. /\ <<"error">> # <<>> /\ <<"ok", "cancel">> # <<>> /\ <<"ok">> # <<>>
      /\ <<"error">> # <<"ok">> /\ <<"ok", "cancel">> # <<"ok">> /\ <<"ok", "done">> # <<>>
      /\ <<"ok", "done">> # <<"ok">>
  OBVIOUS
<1>2. sent[q] \in SentValues
  BY DEF RequestsInv
<1>3. Farewell(q) \in SentValues
  BY <1>1, <1>2, Zenon DEF Farewell, SentValues, Silence, Accepted
<1>4. q \notin withdrawn => Farewell(q) # Silence /\ Farewell(q) # Accepted
  <2> SUFFICES ASSUME q \notin withdrawn PROVE Farewell(q) # Silence /\ Farewell(q) # Accepted
    OBVIOUS
  <2>1. ~Silent(q)
    BY DEF Silent
  <2>2. CASE sent[q] = <<>>
    BY <1>1, <2>1, <2>2, Zenon DEF Farewell, Silence, Accepted
  <2>3. CASE sent[q] = <<"ok">> /\ kind[q] = "PublishNamespace"
    BY <1>1, <2>1, <2>3, Zenon DEF Farewell, Silence, Accepted
  <2>4. CASE sent[q] # <<>> /\ ~(sent[q] = <<"ok">> /\ kind[q] = "PublishNamespace")
    <3>1. Farewell(q) = sent[q]
      BY <2>1, <2>4 DEF Farewell
    <3>2. kind[q] = "PublishNamespace"
      BY <2>4 DEF Silence
    <3>3. QED
      BY <2>4, <3>1, <3>2 DEF Silence, Accepted
  <2>5. QED
    BY <2>2, <2>3, <2>4
<1>5. sent' = [sent EXCEPT ![q] = Farewell(q)]
  BY DEF Drop
<1>6. QED
  BY <1>3, <1>4, <1>5 DEF RequestsInv, Told

\* A request that is dropped is answered and holds nothing.
LEMMA DropKeeps ==
  ASSUME RequestsInv, NEW q \in RRequests, session # "accepting", session # "resolving",
         sent[q] = Silence \/ kind[q] = "PublishNamespace" \/ q \in withdrawn,
         Drop(q), UNCHANGED <<kind, session, scope>>
  PROVE  RequestsInv'
<1>1. /\ sent' \in [RRequests -> SentValues]
      /\ \A r \in RRequests : r # q => sent'[r] = sent[r]
      /\ q \notin withdrawn => Told(q)'
  BY DropAnswers
<1>2. \A r \in RRequests : r # q => (Told(r) <=> Told(r)')
  BY <1>1 DEF Told
<1>3. QED
  BY <1>1, <1>2 DEF Drop, RequestsInv, RequestInv, RRequests, RequestSteps

\* Every step keeps what is known of each request.
LEMMA RequestsStep_Inv ==
  ASSUME RequestsInv, [RelaySessionNext]_relaySessionVars PROVE RequestsInv'
<1>0. Accepted # Silence
  BY DEF Accepted, Silence
<1> USE <1>0 DEF RequestsInv, RequestInv, RRequests, RequestSteps, Publishes, Told
<1>1. ASSUME NEW ok \in BOOLEAN, AcceptSession(ok) PROVE RequestsInv'
  BY <1>1 DEF AcceptSession
<1>2. ASSUME NEW p \in {"ReadWrite", "ReadOnly", "error"}, ResolveScope(p) PROVE RequestsInv'
  BY <1>2 DEF ResolveScope
<1>3. ASSUME NEW q \in RRequests, Arrive(q) PROVE RequestsInv'
  BY <1>3 DEF Arrive
<1>4. ASSUME NEW q \in RRequests, PeerEnds(q) PROVE RequestsInv'
  BY <1>4 DEF PeerEnds
<1>5. ASSUME NEW q \in RRequests, RejectPublish(q) PROVE RequestsInv'
  BY <1>5, DropKeeps DEF RejectPublish
<1>6. ASSUME NEW q \in RRequests, SubscribeDone(q) PROVE RequestsInv'
  <2>1. sent[q] = Accepted
    BY <1>6 DEF SubscribeDone
  <2>2. Append(Accepted, "done") = <<"ok", "done">>
    BY AppendToOne DEF Accepted
  <2>3. <<"ok", "done">> # Silence /\ <<"ok", "done">> # Accepted
    BY DEF Silence, Accepted
  <2>4. sent' = [sent EXCEPT ![q] = IF Silent(q) THEN Accepted ELSE <<"ok", "done">>]
    BY <1>6, <2>1, <2>2 DEF SubscribeDone
  <2>5. sent' \in [RRequests -> SentValues] /\ (q \notin withdrawn => Told(q)')
    BY <1>6, <2>3, <2>4 DEF SubscribeDone, SentValues, Accepted, Silent
  <2>6. \A r \in RRequests : r # q => sent'[r] = sent[r]
    BY <2>4
  <2>7. QED
    BY <1>6, <2>5, <2>6 DEF SubscribeDone
<1>7. ASSUME NEW q \in RRequests, NEW ok \in BOOLEAN, TakePublish(q, ok) PROVE RequestsInv'
  <2>1. CASE Drop(q)
    BY <1>7, <2>1, DropKeeps DEF TakePublish
  <2>2. CASE ~Drop(q)
    BY <1>7, <2>2 DEF TakePublish, CanPublish
  <2>3. QED
    BY <2>1, <2>2
<1>8. ASSUME NEW q \in RRequests, NEW ok \in BOOLEAN, Register(q, ok) PROVE RequestsInv'
  <2>1. CASE Drop(q)
    BY <1>8, <2>1, DropKeeps DEF Register
  <2>2. CASE ~Drop(q)
    BY <1>8, <2>2 DEF Register, NextStep
  <2>3. QED
    BY <2>1, <2>2
<1>9. ASSUME NEW q \in RRequests, NEW ok \in BOOLEAN, Accept(q, ok) PROVE RequestsInv'
  <2>1. CASE Drop(q)
    BY <1>9, <2>1, DropKeeps DEF Accept
  <2>2. CASE ~Drop(q)
    <3>1. sent' = [sent EXCEPT ![q] = Accepted] /\ Accepted \in SentValues
      BY <1>9, <2>2 DEF Accept, Accepted, SentValues
    <3>2. QED
      BY <1>9, <2>2, <3>1 DEF Accept
  <2>3. QED
    BY <2>1, <2>2
<1>10. ASSUME NEW q \in RRequests, NEW ok \in BOOLEAN, Announce(q, ok) PROVE RequestsInv'
  <2>1. CASE Drop(q)
    BY <1>10, <2>1, DropKeeps DEF Announce
  <2>2. CASE ~Drop(q)
    BY <1>10, <2>2 DEF Announce
  <2>3. QED
    BY <2>1, <2>2
<1>11. ASSUME NEW q \in RRequests, NEW ok \in BOOLEAN, ServeTrackStatus(q, ok) PROVE RequestsInv'
  <2>1. PICK x \in SentValues : x # Silence /\ sent' = [sent EXCEPT ![q] = x]
    BY <1>11 DEF ServeTrackStatus, SentValues, Accepted, Silence
  <2>2. QED
    BY <1>11, <2>1 DEF ServeTrackStatus, Requested
<1>12. ASSUME NEW q \in RRequests, NEW w, ServeSubscribe(q, w) PROVE RequestsInv'
  <2>1. CASE Drop(q)
    BY <1>12, <2>1, DropKeeps DEF ServeSubscribe, Requested
  <2>2. CASE ~Drop(q)
    <3>1. sent' = [sent EXCEPT ![q] = Accepted] /\ Accepted \in SentValues
      BY <1>12, <2>2 DEF ServeSubscribe, Accepted, SentValues
    <3>2. QED
      BY <1>12, <2>2, <3>1 DEF ServeSubscribe, Requested
  <2>3. QED
    BY <2>1, <2>2
<1>13. CASE SessionEnds
  BY <1>13 DEF SessionEnds
<1>14. CASE UNCHANGED relaySessionVars
  BY <1>14 DEF relaySessionVars
<1>15. ASSUME NEW q \in RRequests, PublishClosed(q) PROVE RequestsInv'
  BY <1>15, DropKeeps DEF PublishClosed
<1>16. QED
  BY <1>1, <1>2, <1>3, <1>4, <1>5, <1>6, <1>7, <1>8, <1>9, <1>10, <1>11, <1>12, <1>13, <1>14,
     <1>15
     DEF RelaySessionNext

\* Only TakePublish gives out a permit, and only when one is left.
LEMMA PermitsStep ==
  ASSUME SessionInv, [RelaySessionNext]_relaySessionVars PROVE (Permits <= MaxPublishTracks)'
<1>0. MaxPublishTracks \in Nat /\ Permits \in Nat /\ Permits <= MaxPublishTracks
  BY RelaySessionAssumption, PermittedFinite DEF SessionInv
<1>1. CASE Permitted' \subseteq Permitted
  BY <1>0, <1>1, PermitsShrink
<1>2. CASE ~(Permitted' \subseteq Permitted)
  <2> USE DEF Permitted, SessionInv, RequestsInv, RRequests
  <2>1. PICK q \in RRequests, ok \in BOOLEAN : TakePublish(q, ok) /\ ~Drop(q)
    BY <1>2 DEF RelaySessionNext, AcceptSession, ResolveScope, Arrive, PeerEnds, PublishClosed, RejectPublish,
         SubscribeDone, TakePublish, Register, Accept, Announce, ServeTrackStatus, ServeSubscribe,
         SessionEnds, Drop, relaySessionVars
  <2>2. Permitted' \subseteq Permitted \union {q}
    BY <2>1 DEF TakePublish
  <2>3. Permits' \in Nat /\ Permits' <= Permits + 1
    BY <2>2, PermitsGrow
  <2>4. kind[q] = "Publish" => Permits < MaxPublishTracks
    BY <1>0, <2>1 DEF TakePublish
  <2>5. kind[q] # "Publish" => Permitted' \subseteq Permitted
    BY <2>1 DEF TakePublish
  <2>6. QED
    BY <1>0, <1>2, <2>3, <2>4, <2>5
<1>3. QED
  BY <1>1, <1>2

(* A publication the peer was told is accepted stands in the local registry  *)
(* and with the coordinator until it ends; a request that ended in a running *)
(* session was answered, and one that was accepted was taken back, unless    *)
(* the peer ended it first; a read-only session registers nothing, and the   *)
(* permits for PUBLISH are never exceeded (consumer.rs serve and             *)
(* serve_track, session.rs run, drain_and_reject_publishes and the drops).   *)
THEOREM SessionSafe == RelaySessionSpec => []AcceptedIsReachable
<1>1. SessionInv /\ [RelaySessionNext]_relaySessionVars => SessionInv'
  BY RequestsStep_Inv, PermitsStep DEF SessionInv
<1>2. SessionInv => AcceptedIsReachable
  <2> SUFFICES ASSUME SessionInv, NEW q \in RRequests
               PROVE  /\ kind[q] \in Publishes /\ sent[q] = Accepted /\ step[q] # "ended"
                           => {"local", "coordinator"} \subseteq held[q]
                      /\ held[q] # {} => session = "running" /\ scope = "ReadWrite" /\ step[q] # "ended"
                      /\ step[q] = "ended" /\ session = "running" /\ q \notin withdrawn => Told(q)
                      /\ Permits <= MaxPublishTracks
    BY DEF AcceptedIsReachable, Told, Accepted, Silence
  <2>1. Accepted # Silence
    BY DEF Accepted, Silence
  <2>2. QED
    BY <2>1 DEF SessionInv, RequestsInv, RequestInv, RequestSteps
<1>3. QED
  BY <1>1, <1>2, SessionStart_Inv, PTL DEF RelaySessionSpec

-----------------------------------------------------------------------------
(* LocalNamespaces: the namespaces the relay knows                            *)

(* An entry points to a source that was made for it, and to one whose        *)
(* destructor has still to run; what is not listed points nowhere.           *)
RegistryInv ==
  /\ present \subseteq Namespaces /\ local \subseteq present
  /\ remote \in [Namespaces -> Sources \cup {None}]
  /\ sourceOf \in [Sources -> Namespaces \cup {"none"}]
  /\ phase \in [Sources -> {"none", "live", "dropping", "dead"}]
  /\ \A s \in Sources : phase[s] # "none" => sourceOf[s] \in Namespaces
  /\ \A s \in Sources : phase[s] = "live" => sourceOf[s] \in present /\ remote[sourceOf[s]] = s
  /\ \A n \in Namespaces :
       remote[n] # None => /\ n \in present /\ sourceOf[remote[n]] = n
                           /\ phase[remote[n]] \in {"live", "dropping"}
  /\ \A n \in present \ local : remote[n] # None

\* Every step keeps what the entries point to.
LEMMA RegistryStep ==
  ASSUME LocalNamespacesAssumption, RegistryInv, [Next]_vars PROVE RegistryInv'
<1> USE DEF RegistryInv, Sources, None, registry, watching, Upgrades, LocalNamespacesAssumption
<1>1. ASSUME NEW n \in Namespaces, RegisterLocal(n) PROVE RegistryInv'
  BY <1>1 DEF RegisterLocal
<1>2. ASSUME NEW n \in Namespaces, DropLocal(n) PROVE RegistryInv'
  <2>1. CASE Upgrades(remote[n])
    BY <1>2, <2>1 DEF DropLocal
  <2>2. CASE ~Upgrades(remote[n])
    <3>1. /\ local' = local \ {n} /\ present' = present \ {n} /\ remote' = [remote EXCEPT ![n] = None]
          /\ UNCHANGED <<sourceOf, phase>>
      BY <1>2, <2>2 DEF DropLocal
    <3>2. \A s \in Sources : phase[s] = "live" => sourceOf[s] # n
      BY <2>2
    <3>3. QED
      BY <3>1, <3>2
  <2>3. QED
    BY <2>1, <2>2
<1>3. ASSUME NEW n \in Namespaces, ShareRemote(n) PROVE RegistryInv'
  BY <1>3 DEF ShareRemote
<1>4. ASSUME NEW n \in Namespaces, NEW s \in Sources, RegisterRemote(n, s) PROVE RegistryInv'
  BY <1>4 DEF RegisterRemote
<1>5. ASSUME NEW s \in Sources, DropRemote(s) PROVE RegistryInv'
  BY <1>5 DEF DropRemote
<1>6. ASSUME NEW s \in Sources, FinishRemote(s) PROVE RegistryInv'
  <2> DEFINE n == sourceOf[s]
  <2>1. n \in Namespaces /\ phase[s] = "dropping" /\ phase' = [phase EXCEPT ![s] = "dead"]
        /\ UNCHANGED <<local, sourceOf>>
    BY <1>6 DEF FinishRemote
  <2>2. CASE PointsTo(n, s)
    <3>1. /\ remote' = [remote EXCEPT ![n] = None] /\ remote[n] = s
          /\ present' = IF n \in local THEN present ELSE present \ {n}
      BY <1>6, <2>2 DEF FinishRemote, PointsTo
    <3>2. \A m \in Namespaces : remote[m] = s => m = n
      BY <2>1
    <3>3. \A t \in Sources : phase[t] = "live" => sourceOf[t] # n
      BY <2>1, <3>1
    <3> HIDE DEF n
    <3>4. QED
      BY <2>1, <3>1, <3>2, <3>3
  <2>3. CASE ~PointsTo(n, s)
    <3>1. UNCHANGED <<remote, present>>
      BY <1>6, <2>3 DEF FinishRemote
    <3>2. \A m \in Namespaces : remote[m] # s
      BY <2>1, <2>3 DEF PointsTo
    <3>3. QED
      BY <2>1, <3>1, <3>2
  <2>4. QED
    BY <2>2, <2>3
<1>7. ASSUME NEW c \in pending, Send(c) PROVE RegistryInv'
  BY <1>7 DEF Send
<1>8. ASSUME NEW w \in Watchers, Subscribe(w) \/ Snapshot(w) \/ Recv(w) PROVE RegistryInv'
  BY <1>8 DEF Subscribe, Snapshot, Recv
<1>9. CASE UNCHANGED vars
  BY <1>9 DEF vars
<1>10. QED
  BY <1>1, <1>2, <1>3, <1>4, <1>5, <1>6, <1>7, <1>8, <1>9 DEF Next

-----------------------------------------------------------------------------
(* The changes that are announced                                          *)

InPending(n, added) == {c \in pending : c.ns = n /\ c.added = added}
InLog(n, added) == {i \in DOMAIN log : log[i].ns = n /\ log[i].added = added}

\* Every change has a number of its own, so none is lost in the set.
ChangesInv ==
  /\ IsFiniteSet(pending) /\ log \in Seq([ns : Namespaces, added : BOOLEAN])
  /\ \A c \in pending : /\ c.ns \in Namespaces /\ c.added \in BOOLEAN
                        /\ c.at \in Nat /\ c.at < Len(log) + Cardinality(pending)

\* The changes of a namespace can be counted.
LEMMA CountsAreFinite ==
  ASSUME ChangesInv, NEW n, NEW added
  PROVE  /\ IsFiniteSet(InPending(n, added)) /\ IsFiniteSet(InLog(n, added))
         /\ Cardinality(InPending(n, added)) \in Nat /\ Cardinality(InLog(n, added)) \in Nat
         /\ Count(n, added) = Cardinality(InPending(n, added)) + Cardinality(InLog(n, added))
         /\ Count(n, added) \in Nat
<1>1. IsFiniteSet(InPending(n, added))
  BY FS_Subset DEF ChangesInv, InPending
<1>2. IsFiniteSet(InLog(n, added))
  <2>1. Len(log) \in Nat /\ DOMAIN log = 1 .. Len(log)
    BY DEF ChangesInv
  <2>2. IsFiniteSet(1 .. Len(log))
    BY <2>1, FS_Interval
  <2>3. QED
    BY <2>1, <2>2, FS_Subset DEF InLog
<1>3. QED
  BY <1>1, <1>2, FS_CardinalityType DEF Count, InPending, InLog

\* A new change counts once, for its namespace and kind.
LEMMA AnnounceCounts ==
  ASSUME ChangesInv, NEW n \in Namespaces, NEW added \in BOOLEAN, NEW by, AnnounceChange(n, added, by),
         log' = log
  PROVE  /\ ChangesInv'
         /\ Count(n, added)' = Count(n, added) + 1
         /\ \A m \in Namespaces, b \in BOOLEAN :
              m # n \/ b # added => Count(m, b)' = Count(m, b)
<1> DEFINE c == Change(n, added, by)
<1>1. /\ pending' = pending \cup {c} /\ c.ns = n /\ c.added = added
      /\ c.at = Len(log) + Cardinality(pending)
  BY DEF AnnounceChange, Change
<1> HIDE DEF c
<1>2. Len(log) \in Nat /\ Cardinality(pending) \in Nat
  BY FS_CardinalityType DEF ChangesInv
<1>3. c \notin pending
  BY <1>1, <1>2 DEF ChangesInv
<1>4. IsFiniteSet(pending') /\ Cardinality(pending') = Cardinality(pending) + 1
  BY <1>1, <1>3, FS_AddElement DEF ChangesInv
<1>5. ChangesInv'
  <2>1. Len(log') + Cardinality(pending') = Len(log) + Cardinality(pending) + 1
    BY <1>2, <1>4
  <2>2. ASSUME NEW d \in pending'
        PROVE  /\ d.ns \in Namespaces /\ d.added \in BOOLEAN /\ d.at \in Nat
               /\ d.at < Len(log') + Cardinality(pending')
    BY <1>1, <1>2, <2>1, <2>2 DEF ChangesInv
  <2>3. QED
    BY <1>4, <2>2 DEF ChangesInv
<1>6. ASSUME NEW m \in Namespaces, NEW b \in BOOLEAN
      PROVE  /\ Count(m, b)' = Cardinality(InPending(m, b)') + Cardinality(InLog(m, b))
             /\ InPending(m, b)' = {d \in pending \cup {c} : d.ns = m /\ d.added = b}
  BY <1>1 DEF Count, InPending, InLog
<1>7. Count(n, added)' = Count(n, added) + 1
  <2>1. InPending(n, added)' = InPending(n, added) \cup {c} /\ c \notin InPending(n, added)
    BY <1>1, <1>3, <1>6 DEF InPending
  <2>2. Cardinality(InPending(n, added)') = Cardinality(InPending(n, added)) + 1
    BY <2>1, CountsAreFinite, FS_AddElement
  <2>3. QED
    BY <1>6, <2>2, CountsAreFinite
<1>8. ASSUME NEW m \in Namespaces, NEW b \in BOOLEAN, m # n \/ b # added
      PROVE  Count(m, b)' = Count(m, b)
  <2>1. InPending(m, b)' = InPending(m, b)
    BY <1>1, <1>6, <1>8 DEF InPending
  <2>2. QED
    BY <1>6, <2>1, CountsAreFinite
<1>9. QED
  BY <1>5, <1>7, <1>8

\* A change that is sent moves from the set to the channel.
LEMMA SendCounts ==
  ASSUME ChangesInv, NEW c \in pending, Send(c)
  PROVE  /\ ChangesInv'
         /\ \A m \in Namespaces, b \in BOOLEAN : Count(m, b)' = Count(m, b)
<1> DEFINE k == Len(log)
           record == [ns |-> c.ns, added |-> c.added]
<1>1. pending' = pending \ {c} /\ log' = Append(log, record)
  BY DEF Send
<1>2. record \in [ns : Namespaces, added : BOOLEAN] /\ record.ns = c.ns /\ record.added = c.added
  BY DEF ChangesInv
<1> HIDE DEF record
<1>3. /\ log' \in Seq([ns : Namespaces, added : BOOLEAN]) /\ Len(log') = k + 1 /\ k \in Nat
      /\ DOMAIN log = 1 .. k /\ DOMAIN log' = 1 .. (k + 1)
      /\ log'[k + 1] = record /\ \A i \in 1 .. k : log'[i] = log[i]
  BY <1>1, <1>2 DEF ChangesInv
<1>4. /\ IsFiniteSet(pending') /\ Cardinality(pending') = Cardinality(pending) - 1
      /\ Cardinality(pending) \in Nat
  BY <1>1, FS_RemoveElement, FS_CardinalityType DEF ChangesInv
<1>5. ChangesInv'
  <2>1. Len(log') + Cardinality(pending') = Len(log) + Cardinality(pending)
    BY <1>3, <1>4
  <2>2. QED
    BY <1>1, <1>3, <1>4, <2>1 DEF ChangesInv
<1> HIDE DEF k
<1>6. ASSUME NEW m \in Namespaces, NEW b \in BOOLEAN PROVE Count(m, b)' = Count(m, b)
  <2>0. Count(m, b)' = Cardinality(InPending(m, b)') + Cardinality(InLog(m, b)')
    BY DEF Count, InPending, InLog
  <2>1. \A i : i \in 1 .. (k + 1) <=> i \in 1 .. k \/ i = k + 1
    BY <1>3
  <2>2. k + 1 \notin 1 .. k
    BY <1>3
  <2>3. CASE m = c.ns /\ b = c.added
    <3>1. InPending(m, b)' = InPending(m, b) \ {c} /\ c \in InPending(m, b)
      BY <1>1, <2>3 DEF InPending
    <3>2. Cardinality(InPending(m, b)') = Cardinality(InPending(m, b)) - 1
      BY <3>1, CountsAreFinite, FS_RemoveElement
    <3>3. InLog(m, b)' = InLog(m, b) \cup {k + 1} /\ k + 1 \notin InLog(m, b)
      BY <1>2, <1>3, <2>1, <2>2, <2>3 DEF InLog
    <3>4. Cardinality(InLog(m, b)') = Cardinality(InLog(m, b)) + 1
      BY <3>3, CountsAreFinite, FS_AddElement
    <3>5. QED
      BY <2>0, <3>2, <3>4, CountsAreFinite
  <2>4. CASE ~(m = c.ns /\ b = c.added)
    <3>1. InPending(m, b)' = InPending(m, b)
      BY <1>1, <2>4 DEF InPending
    <3>2. InLog(m, b)' = InLog(m, b)
      BY <1>2, <1>3, <2>1, <2>2, <2>4 DEF InLog
    <3>3. QED
      BY <2>0, <3>1, <3>2, CountsAreFinite
  <2>5. QED
    BY <2>3, <2>4
<1>7. QED
  BY <1>5, <1>6

-----------------------------------------------------------------------------
NamespacesInv == RegistryInv /\ ChangesInv /\ ChangesBalance

\* Nothing is announced while the list stays as it is.
LEMMA NothingAnnounced ==
  ASSUME ChangesInv, ChangesBalance, UNCHANGED <<pending, log, present>>
  PROVE  ChangesInv' /\ ChangesBalance'
  BY DEF ChangesInv, ChangesBalance, Count

\* A namespace that is new to the list is announced as added.
LEMMA Listed ==
  ASSUME ChangesInv, ChangesBalance, NEW n \in Namespaces, NEW by, n \notin present,
         present' = present \cup {n}, AnnounceChange(n, TRUE, by), log' = log
  PROVE  ChangesInv' /\ ChangesBalance'
<1>1. ASSUME NEW m \in Namespaces
      PROVE  Count(m, TRUE)' = Count(m, FALSE)' + (IF m \in present' THEN 1 ELSE 0)
  <2> DEFINE added == Count(m, TRUE)
             removed == Count(m, FALSE)
             added2 == Count(m, TRUE)'
             removed2 == Count(m, FALSE)'
  <2>1. added \in Nat /\ removed \in Nat /\ added = removed + (IF m \in present THEN 1 ELSE 0)
    BY CountsAreFinite DEF ChangesBalance
  <2>2. m = n => added2 = added + 1 /\ removed2 = removed
    BY AnnounceCounts
  <2>3. m # n => added2 = added /\ removed2 = removed
    BY AnnounceCounts
  <2> SUFFICES added2 = removed2 + (IF m \in present' THEN 1 ELSE 0)
    OBVIOUS
  <2> HIDE DEF added, removed, added2, removed2
  <2>4. QED
    BY <2>1, <2>2, <2>3
<1>2. QED
  BY <1>1, AnnounceCounts DEF ChangesBalance

\* One that leaves it is announced as removed.
LEMMA Unlisted ==
  ASSUME ChangesInv, ChangesBalance, NEW n \in Namespaces, NEW by, n \in present,
         present' = present \ {n}, AnnounceChange(n, FALSE, by), log' = log
  PROVE  ChangesInv' /\ ChangesBalance'
<1>1. ASSUME NEW m \in Namespaces
      PROVE  Count(m, TRUE)' = Count(m, FALSE)' + (IF m \in present' THEN 1 ELSE 0)
  <2> DEFINE added == Count(m, TRUE)
             removed == Count(m, FALSE)
             added2 == Count(m, TRUE)'
             removed2 == Count(m, FALSE)'
  <2>1. added \in Nat /\ removed \in Nat /\ added = removed + (IF m \in present THEN 1 ELSE 0)
    BY CountsAreFinite DEF ChangesBalance
  <2>2. m = n => added2 = added /\ removed2 = removed + 1
    BY AnnounceCounts
  <2>3. m # n => added2 = added /\ removed2 = removed
    BY AnnounceCounts
  <2> SUFFICES added2 = removed2 + (IF m \in present' THEN 1 ELSE 0)
    OBVIOUS
  <2> HIDE DEF added, removed, added2, removed2
  <2>4. QED
    BY <2>1, <2>2, <2>3
<1>2. QED
  BY <1>1, AnnounceCounts DEF ChangesBalance

\* Every step keeps the balance of the changes that are announced and sent.
LEMMA ChangesStep ==
  ASSUME LocalNamespacesAssumption, NamespacesInv, [Next]_vars PROVE ChangesInv' /\ ChangesBalance'
<1> USE DEF NamespacesInv, registry, watching
<1>1. ASSUME NEW n \in Namespaces, RegisterLocal(n) PROVE ChangesInv' /\ ChangesBalance'
  <2>1. CASE n \in present
    BY <1>1, <2>1, NothingAnnounced DEF RegisterLocal
  <2>2. CASE n \notin present
    BY <1>1, <2>2, Listed DEF RegisterLocal
  <2>3. QED
    BY <2>1, <2>2
<1>2. ASSUME NEW n \in Namespaces, DropLocal(n) PROVE ChangesInv' /\ ChangesBalance'
  <2>1. CASE Upgrades(remote[n])
    BY <1>2, <2>1, NothingAnnounced DEF DropLocal
  <2>2. CASE ~Upgrades(remote[n])
    BY <1>2, <2>2, Unlisted DEF DropLocal, RegistryInv
  <2>3. QED
    BY <2>1, <2>2
<1>3. ASSUME NEW n \in Namespaces, ShareRemote(n) PROVE ChangesInv' /\ ChangesBalance'
  BY <1>3, NothingAnnounced DEF ShareRemote
<1>4. ASSUME NEW n \in Namespaces, NEW s \in Sources, RegisterRemote(n, s)
      PROVE  ChangesInv' /\ ChangesBalance'
  <2>1. CASE n \in present
    BY <1>4, <2>1, NothingAnnounced DEF RegisterRemote
  <2>2. CASE n \notin present
    BY <1>4, <2>2, Listed DEF RegisterRemote
  <2>3. QED
    BY <2>1, <2>2
<1>5. ASSUME NEW s \in Sources, DropRemote(s) PROVE ChangesInv' /\ ChangesBalance'
  BY <1>5, NothingAnnounced DEF DropRemote
<1>6. ASSUME NEW s \in Sources, FinishRemote(s) PROVE ChangesInv' /\ ChangesBalance'
  <2>1. CASE PointsTo(sourceOf[s], s) /\ sourceOf[s] \notin local
    BY <1>6, <2>1, Unlisted DEF FinishRemote, RegistryInv, PointsTo
  <2>2. CASE ~(PointsTo(sourceOf[s], s) /\ sourceOf[s] \notin local)
    BY <1>6, <2>2, NothingAnnounced DEF FinishRemote
  <2>3. QED
    BY <2>1, <2>2
<1>7. ASSUME NEW c \in pending, Send(c) PROVE ChangesInv' /\ ChangesBalance'
  <2>1. ChangesInv' /\ \A m \in Namespaces, b \in BOOLEAN : Count(m, b)' = Count(m, b)
    BY <1>7, SendCounts
  <2>2. present' = present
    BY <1>7 DEF Send
  <2>3. QED
    BY <2>1, <2>2 DEF ChangesBalance
<1>8. ASSUME NEW w \in Watchers, Subscribe(w) \/ Snapshot(w) \/ Recv(w)
      PROVE  ChangesInv' /\ ChangesBalance'
  BY <1>8, NothingAnnounced DEF Subscribe, Snapshot, Recv
<1>9. CASE UNCHANGED vars
  BY <1>9, NothingAnnounced DEF vars
<1>10. QED
  BY <1>1, <1>2, <1>3, <1>4, <1>5, <1>6, <1>7, <1>8, <1>9 DEF Next

\* A registry that is empty.
LEMMA NamespacesInit == ASSUME LocalNamespacesAssumption, Init PROVE NamespacesInv
<1>1. RegistryInv
  BY DEF Init, RegistryInv, Sources, None
<1>2. ChangesInv
  BY FS_EmptySet DEF Init, ChangesInv
<1>3. ASSUME NEW n \in Namespaces, NEW b PROVE Count(n, b) = 0
  <2>1. InPending(n, b) = {} /\ InLog(n, b) = {}
    BY DEF Init, InPending, InLog
  <2>2. QED
    BY <2>1, FS_EmptySet DEF Count, InPending, InLog
<1>4. ChangesBalance
  <2>1. ASSUME NEW n \in Namespaces
        PROVE  Count(n, TRUE) = Count(n, FALSE) + (IF n \in present THEN 1 ELSE 0)
    <3> DEFINE added == Count(n, TRUE)
               removed == Count(n, FALSE)
    <3>1. added = 0 /\ removed = 0 /\ n \notin present
      BY <1>3 DEF Init
    <3> SUFFICES added = removed + (IF n \in present THEN 1 ELSE 0)
      OBVIOUS
    <3> HIDE DEF added, removed
    <3>2. QED
      BY <3>1
  <2>2. QED
    BY <2>1 DEF ChangesBalance
<1>5. QED
  BY <1>1, <1>2, <1>4 DEF NamespacesInv

(* A namespace is listed exactly while a source stands behind it, whichever  *)
(* of its sources come and go at once, and the additions and removals that   *)
(* are announced add up to the list (Locals::register_namespace_inner,       *)
(* register_remote_namespace and the drops of the registrations).            *)
THEOREM Sourced == LocalNamespacesAssumption /\ Spec => []ListedWhileSourced
<1> SUFFICES ASSUME LocalNamespacesAssumption PROVE Spec => []ListedWhileSourced
  OBVIOUS
<1>1. NamespacesInv /\ [Next]_vars => NamespacesInv'
  BY RegistryStep, ChangesStep DEF NamespacesInv
<1>2. NamespacesInv => ListedWhileSourced
  BY DEF NamespacesInv, RegistryInv, ListedWhileSourced
<1>3. QED
  BY <1>1, <1>2, NamespacesInit, PTL DEF Spec
-----------------------------------------------------------------------------
(* Those who follow the list                                               *)

SentOf(n) == {i \in DOMAIN log : log[i].ns = n}

WatcherTypes ==
  /\ refs \in [Sources -> 0 .. MaxRefs]
  /\ watcher \in [Watchers -> {"off", "subscribed", "on"}]
  /\ cursor \in [Watchers -> Nat] /\ \A w \in Watchers : cursor[w] <= Len(log)
  /\ known \in [Watchers -> SUBSET Namespaces]

\* What was sent of n has been received by w.
Received(w, n) == \A i \in SentOf(n) : i <= cursor[w]

\* A watcher that has received all that was sent of n knows what was sent last, or has taken the
\* list since then: it then knows what is listed, unless a change is still to be sent.
FollowsList ==
  /\ \A n \in Namespaces : SentOf(n) # {} => \E i \in SentOf(n) : \A j \in SentOf(n) : j <= i
  /\ \A w \in Watchers, n \in Namespaces :
       watcher[w] = "on" /\ Received(w, n) =>
         \/ n \in known[w] <=> LastSent(n)
         \/ (\A c \in pending : c.ns # n) => (n \in known[w] <=> n \in present)

FollowInv == NamespacesInv /\ WatcherTypes /\ FollowsList

\* The last change that was sent of a namespace.
LEMMA LastIs ==
  ASSUME log \in Seq([ns : Namespaces, added : BOOLEAN]), NEW n,
         NEW i \in SentOf(n), \A j \in SentOf(n) : j <= i
  PROVE  LastSent(n) = log[i].added
<1>1. i \in Nat /\ \A j \in SentOf(n) : j \in Nat
  BY DEF SentOf
<1>2. \A k \in SentOf(n) : (\A j \in SentOf(n) : j <= k) => k = i
  BY <1>1
<1>3. (CHOOSE k \in SentOf(n) : \A j \in SentOf(n) : j <= k) = i
  BY <1>2
<1>4. QED
  BY <1>3 DEF LastSent, SentOf

\* What was sent before stays where it is.
LEMMA SentKeeps ==
  ASSUME FollowInv, NEW c \in pending, Send(c)
  PROVE  /\ log' \in Seq([ns : Namespaces, added : BOOLEAN]) /\ Len(log') = Len(log) + 1
         /\ DOMAIN log' = 1 .. Len(log) + 1 /\ DOMAIN log = 1 .. Len(log) /\ Len(log) \in Nat
         /\ \A i \in DOMAIN log : log'[i] = log[i]
         /\ SentOf(c.ns)' = SentOf(c.ns) \cup {Len(log) + 1}
         /\ \A n \in Namespaces : n # c.ns => SentOf(n)' = SentOf(n)
<1>1. log \in Seq([ns : Namespaces, added : BOOLEAN]) /\ c.ns \in Namespaces /\ c.added \in BOOLEAN
  BY DEF FollowInv, NamespacesInv, ChangesInv
<1>2. log' = Append(log, [ns |-> c.ns, added |-> c.added])
  BY DEF Send
<1>3. /\ log' \in Seq([ns : Namespaces, added : BOOLEAN]) /\ Len(log') = Len(log) + 1
      /\ DOMAIN log' = 1 .. Len(log) + 1 /\ DOMAIN log = 1 .. Len(log) /\ Len(log) \in Nat
      /\ \A i \in DOMAIN log : log'[i] = log[i]
      /\ log'[Len(log) + 1] = [ns |-> c.ns, added |-> c.added]
  BY <1>1, <1>2
<1>4. SentOf(c.ns)' = SentOf(c.ns) \cup {Len(log) + 1}
  BY <1>3 DEF SentOf
<1>5. ASSUME NEW n \in Namespaces, n # c.ns PROVE SentOf(n)' = SentOf(n)
  BY <1>3, <1>5 DEF SentOf
<1>6. QED
  BY <1>3, <1>4, <1>5

\* Nobody who follows sees a step of the registry: it changes nothing, or leaves a change to send.
LEMMA Unseen ==
  ASSUME FollowInv, UNCHANGED <<log, watching>>, NEW n \in Namespaces,
         \/ pending' = pending /\ present' = present
         \/ /\ \E c \in pending' : c.ns = n
            /\ pending \subseteq pending' /\ \A m \in Namespaces : m # n => (m \in present' <=> m \in present)
  PROVE  FollowsList'
<1>1. \A m \in Namespaces : SentOf(m)' = SentOf(m) /\ LastSent(m)' = LastSent(m)
  BY DEF SentOf, LastSent
<1>2. \A w \in Watchers, m \in Namespaces : Received(w, m)' <=> Received(w, m)
  BY <1>1 DEF Received, watching
<1>3. QED
  BY <1>1, <1>2 DEF FollowInv, FollowsList, watching

\* A change that is announced is still to be sent.
LEMMA Announced ==
  ASSUME NEW n, NEW added, NEW by, AnnounceChange(n, added, by)
  PROVE  (\E c \in pending' : c.ns = n) /\ pending \subseteq pending'
<1>1. Change(n, added, by) \in pending' /\ Change(n, added, by).ns = n
  BY DEF AnnounceChange, Change
<1>2. QED
  BY <1>1 DEF AnnounceChange

\* What changes in the registry does not move a watcher.
LEMMA RegistryUnseen ==
  ASSUME LocalNamespacesAssumption, FollowInv,
         \/ \E n \in Namespaces :
              \/ RegisterLocal(n) \/ DropLocal(n) \/ ShareRemote(n)
              \/ \E s \in Sources : RegisterRemote(n, s)
         \/ \E s \in Sources : DropRemote(s) \/ FinishRemote(s)
  PROVE  WatcherTypes' /\ FollowsList'
<1>1. ASSUME NEW n \in Namespaces, RegisterLocal(n) PROVE WatcherTypes' /\ FollowsList'
  <2>1. CASE n \in present
    BY <1>1, <2>1, Unseen DEF RegisterLocal, FollowInv, WatcherTypes, watching
  <2>2. CASE n \notin present
    BY <1>1, <2>2, Unseen, Announced DEF RegisterLocal, FollowInv, WatcherTypes, watching
  <2>3. QED
    BY <2>1, <2>2
<1>2. ASSUME NEW n \in Namespaces, DropLocal(n) PROVE WatcherTypes' /\ FollowsList'
  <2>1. WatcherTypes'
    BY <1>2 DEF DropLocal, FollowInv, WatcherTypes, watching
  <2>2. CASE Upgrades(remote[n])
    BY <1>2, <2>1, <2>2, Unseen DEF DropLocal
  <2>3. CASE ~Upgrades(remote[n])
    BY <1>2, <2>1, <2>3, Unseen, Announced DEF DropLocal
  <2>4. QED
    BY <2>2, <2>3
<1>3. ASSUME NEW n \in Namespaces, ShareRemote(n) PROVE WatcherTypes' /\ FollowsList'
  <2>1. remote[n] \in Sources
    BY <1>3 DEF ShareRemote, FollowInv, NamespacesInv, RegistryInv, Upgrades
  <2>2. WatcherTypes'
    BY <1>3, <2>1 DEF ShareRemote, FollowInv, WatcherTypes, watching, LocalNamespacesAssumption
  <2>3. QED
    BY <1>3, <2>2, Unseen DEF ShareRemote
<1>4. ASSUME NEW n \in Namespaces, NEW s \in Sources, RegisterRemote(n, s) PROVE WatcherTypes' /\ FollowsList'
  <2>1. WatcherTypes'
    BY <1>4 DEF RegisterRemote, FollowInv, WatcherTypes, watching, LocalNamespacesAssumption
  <2>2. CASE n \in present
    BY <1>4, <2>1, <2>2, Unseen DEF RegisterRemote
  <2>3. CASE n \notin present
    BY <1>4, <2>1, <2>3, Unseen, Announced DEF RegisterRemote
  <2>4. QED
    BY <2>2, <2>3
<1>5. ASSUME NEW s \in Sources, DropRemote(s) PROVE WatcherTypes' /\ FollowsList'
  <2>1. sourceOf[s] \in Namespaces
    BY <1>5 DEF DropRemote, FollowInv, NamespacesInv, RegistryInv
  <2>2. WatcherTypes'
    BY <1>5 DEF DropRemote, FollowInv, WatcherTypes, watching, LocalNamespacesAssumption
  <2>3. QED
    BY <1>5, <2>1, <2>2, Unseen DEF DropRemote
<1>6. ASSUME NEW s \in Sources, FinishRemote(s) PROVE WatcherTypes' /\ FollowsList'
  <2>1. sourceOf[s] \in Namespaces
    BY <1>6 DEF FinishRemote, FollowInv, NamespacesInv, RegistryInv
  <2>2. WatcherTypes'
    BY <1>6 DEF FinishRemote, FollowInv, WatcherTypes, watching
  <2>3. CASE PointsTo(sourceOf[s], s) /\ sourceOf[s] \notin local
    BY <1>6, <2>1, <2>2, <2>3, Unseen, Announced DEF FinishRemote
  <2>4. CASE ~(PointsTo(sourceOf[s], s) /\ sourceOf[s] \notin local)
    BY <1>6, <2>1, <2>2, <2>4, Unseen DEF FinishRemote
  <2>5. QED
    BY <2>3, <2>4
<1>7. QED
  BY <1>1, <1>2, <1>3, <1>4, <1>5, <1>6

\* A change that is sent is one that every watcher has still to receive.
LEMMA SendFollowed ==
  ASSUME FollowInv, NEW c \in pending, Send(c) PROVE WatcherTypes' /\ FollowsList'
<1> DEFINE new == Len(log) + 1
<1>1. /\ log' \in Seq([ns : Namespaces, added : BOOLEAN]) /\ Len(log') = new
      /\ DOMAIN log' = 1 .. new /\ DOMAIN log = 1 .. Len(log) /\ Len(log) \in Nat
      /\ \A i \in DOMAIN log : log'[i] = log[i]
      /\ SentOf(c.ns)' = SentOf(c.ns) \cup {new}
      /\ \A n \in Namespaces : n # c.ns => SentOf(n)' = SentOf(n)
  BY SentKeeps
<1>2. UNCHANGED <<present, refs, watcher, cursor, known>> /\ pending' = pending \ {c}
  BY DEF Send, registry, watching
<1>3. WatcherTypes'
  BY <1>1, <1>2 DEF FollowInv, WatcherTypes
<1>4. ASSUME NEW n \in Namespaces, SentOf(n)' # {}
      PROVE  \E i \in SentOf(n)' : \A j \in SentOf(n)' : j <= i
  <2>1. CASE n = c.ns
    <3>1. \A j \in SentOf(n)' : j <= new
      BY <1>1, <2>1 DEF SentOf
    <3>2. QED
      BY <1>1, <2>1, <3>1
  <2>2. CASE n # c.ns
    BY <1>1, <1>4, <2>2 DEF FollowInv, FollowsList
  <2>3. QED
    BY <2>1, <2>2
<1>5. ASSUME NEW w \in Watchers, NEW n \in Namespaces, watcher'[w] = "on", Received(w, n)'
      PROVE  \/ n \in known'[w] <=> LastSent(n)'
             \/ (\A d \in pending' : d.ns # n) => (n \in known'[w] <=> n \in present')
  <2>1. n # c.ns
    <3>1. cursor[w] \in Nat /\ cursor[w] < new
      BY <1>1 DEF FollowInv, WatcherTypes
    <3>2. n = c.ns => new \in SentOf(n)'
      BY <1>1
    <3>3. QED
      BY <1>1, <1>2, <1>5, <3>1, <3>2 DEF Received
  <2>2. SentOf(n)' = SentOf(n) /\ Received(w, n)
    BY <1>1, <1>2, <1>5, <2>1 DEF Received
  <2>3. LastSent(n)' <=> LastSent(n)
    <3>1. CASE SentOf(n) = {}
      BY <2>2, <3>1 DEF SentOf, LastSent
    <3>2. CASE SentOf(n) # {}
      <4>1. PICK i \in SentOf(n) : \A j \in SentOf(n) : j <= i
        BY <3>2 DEF FollowInv, FollowsList
      <4>2. LastSent(n) = log[i].added
        BY <4>1, LastIs DEF FollowInv, NamespacesInv, ChangesInv
      <4>3. i \in SentOf(n)' /\ \A j \in SentOf(n)' : j <= i
        BY <2>2, <4>1
      <4>4. (CHOOSE k \in SentOf(n)' : \A j \in SentOf(n)' : j <= k) =
            (CHOOSE k \in SentOf(n) : \A j \in SentOf(n) : j <= k)
        BY <2>2
      <4>5. (CHOOSE k \in SentOf(n) : \A j \in SentOf(n) : j <= k) = i
        <5>1. \A j \in SentOf(n) : j \in Nat
          BY <1>1 DEF SentOf
        <5>2. QED
          BY <4>1, <5>1
      <4>6. LastSent(n)' = log'[i].added
        BY <4>3, <4>4, <4>5 DEF LastSent, SentOf
      <4>7. QED
        BY <1>1, <4>1, <4>2, <4>6 DEF SentOf
    <3>3. QED
      BY <3>1, <3>2
  <2>4. (\A d \in pending' : d.ns # n) => \A d \in pending : d.ns # n
    BY <1>2, <2>1
  <2>5. QED
    BY <1>2, <1>5, <2>2, <2>3, <2>4 DEF FollowInv, FollowsList
<1>6. QED
  BY <1>3, <1>4, <1>5 DEF FollowsList

\* A watcher that subscribes, takes the list or receives knows what it has read.
LEMMA WatcherFollows ==
  ASSUME LocalNamespacesAssumption, FollowInv, NEW w \in Watchers,
         Subscribe(w) \/ Snapshot(w) \/ Recv(w)
  PROVE  WatcherTypes' /\ FollowsList'
<1>0. /\ log \in Seq([ns : Namespaces, added : BOOLEAN]) /\ log' = log /\ pending' = pending
      /\ present' = present /\ present \subseteq Namespaces /\ refs' = refs /\ Len(log) \in Nat
      /\ DOMAIN log = 1 .. Len(log)
  BY DEF FollowInv, NamespacesInv, ChangesInv, RegistryInv, Subscribe, Snapshot, Recv, registry
<1>1. \A n \in Namespaces : SentOf(n)' = SentOf(n) /\ LastSent(n)' = LastSent(n)
  BY <1>0 DEF SentOf, LastSent
<1>t. \A i \in DOMAIN log : log[i] \in [ns : Namespaces, added : BOOLEAN]
  BY <1>0, ElementOfSeq
<1>2. WatcherTypes'
  <2>1. CASE Subscribe(w)
    BY <1>0, <2>1 DEF Subscribe, FollowInv, WatcherTypes
  <2>2. CASE Snapshot(w)
    BY <1>0, <2>2 DEF Snapshot, FollowInv, WatcherTypes
  <2>3. CASE Recv(w)
    <3>1. CASE Len(log) - cursor[w] > Capacity
      <4>1. Capacity \in Nat /\ cursor[w] \in Nat /\ Len(log) - Capacity \in Nat
        BY <1>0, <3>1 DEF FollowInv, WatcherTypes, LocalNamespacesAssumption
      <4>2. Len(log) - Capacity <= Len(log)
        BY <1>0, <4>1
      <4>3. /\ cursor' = [cursor EXCEPT ![w] = Len(log) - Capacity] /\ watcher' = watcher
            /\ known' = [known EXCEPT ![w] = present]
        BY <2>3, <3>1 DEF Recv, Resync
      <4>4. QED
        BY <1>0, <4>1, <4>2, <4>3 DEF FollowInv, WatcherTypes
    <3>2. CASE ~(Len(log) - cursor[w] > Capacity)
      <4>1. cursor[w] + 1 \in DOMAIN log
        BY <1>0, <2>3 DEF Recv, FollowInv, WatcherTypes
      <4>2. log[cursor[w] + 1].ns \in Namespaces
        BY <1>t, <4>1
      <4>3. known' \in [Watchers -> SUBSET Namespaces]
        BY <2>3, <3>2, <4>2 DEF Recv, Apply, FollowInv, WatcherTypes
      <4>4. /\ cursor' = [cursor EXCEPT ![w] = @ + 1] /\ watcher' = watcher
            /\ cursor[w] \in Nat /\ cursor[w] < Len(log)
        BY <2>3, <3>2 DEF Recv, FollowInv, WatcherTypes
      <4>5. QED
        BY <1>0, <4>3, <4>4 DEF FollowInv, WatcherTypes
    <3>3. QED
      BY <3>1, <3>2
  <2>4. QED
    BY <2>1, <2>2, <2>3
<1>3. ASSUME NEW v \in Watchers, NEW n \in Namespaces, watcher'[v] = "on", Received(v, n)'
      PROVE  \/ n \in known'[v] <=> LastSent(n)'
             \/ (\A d \in pending' : d.ns # n) => (n \in known'[v] <=> n \in present')
  <2> USE DEF FollowInv, WatcherTypes
  <2>1. CASE v # w
    <3>1. watcher'[v] = watcher[v] /\ cursor'[v] = cursor[v] /\ known'[v] = known[v]
      BY <2>1 DEF Subscribe, Snapshot, Recv, Resync, Apply
    <3>2. QED
      BY <1>0, <1>1, <1>3, <3>1 DEF FollowsList, Received
  <2>2. CASE v = w /\ Subscribe(w)
    BY <1>3, <2>2 DEF Subscribe
  <2>3. CASE v = w /\ Snapshot(w)
    BY <1>0, <2>3 DEF Snapshot
  <2>4. CASE v = w /\ Recv(w) /\ Len(log) - cursor[w] > Capacity
    BY <1>0, <2>4 DEF Recv, Resync
  <2>5. CASE v = w /\ Recv(w) /\ ~(Len(log) - cursor[w] > Capacity)
    <3> DEFINE i == cursor[w] + 1
    <3>1. i \in DOMAIN log /\ i \in Nat /\ cursor'[w] = i /\ watcher[w] = "on" /\ Apply(w, log[i])
      BY <1>0, <2>5 DEF Recv
    <3>2. CASE log[i].ns = n
      <4>1. i \in SentOf(n) /\ \A j \in SentOf(n) : j <= i
        BY <1>1, <1>3, <2>5, <3>1, <3>2 DEF SentOf, Received
      <4>2. LastSent(n) = log[i].added
        BY <1>0, <4>1, LastIs
      <4>3. n \in known'[w] <=> log[i].added
        BY <3>1, <3>2 DEF Apply
      <4>4. QED
        BY <1>1, <2>5, <4>2, <4>3
    <3>3. CASE log[i].ns # n
      <4>1. \A j \in SentOf(n) : j \in Nat /\ j <= i /\ j # i
        BY <1>1, <1>3, <2>5, <3>1, <3>3 DEF SentOf, Received
      <4>2. cursor[w] \in Nat
        OBVIOUS
      <4>3. Received(w, n)
        BY <4>1, <4>2 DEF Received
      <4>4. n \in known'[w] <=> n \in known[w]
        BY <3>1, <3>3 DEF Apply
      <4>5. QED
        BY <1>0, <1>1, <2>5, <3>1, <4>3, <4>4 DEF FollowsList
    <3>4. QED
      BY <3>2, <3>3
  <2>6. QED
    BY <2>1, <2>2, <2>3, <2>4, <2>5
<1>4. QED
  BY <1>1, <1>2, <1>3 DEF FollowInv, FollowsList

\* Every step keeps what the watchers know.
LEMMA FollowStep ==
  ASSUME LocalNamespacesAssumption, FollowInv, [Next]_vars PROVE FollowInv'
<1>1. NamespacesInv'
  BY RegistryStep, ChangesStep DEF NamespacesInv, FollowInv
<1>2. CASE UNCHANGED vars
  <2>1. WatcherTypes' /\ FollowsList'
    BY SMTT(30), <1>2 DEF vars, registry, watching, FollowInv, WatcherTypes, FollowsList, SentOf, Received, LastSent
  <2>2. QED
    BY <1>1, <2>1 DEF FollowInv
<1>3. CASE Next
  <2>1. WatcherTypes' /\ FollowsList'
    BY <1>3, RegistryUnseen, SendFollowed, WatcherFollows DEF Next
  <2>2. QED
    BY <1>1, <2>1 DEF FollowInv
<1>4. QED
  BY <1>2, <1>3

\* No watcher has begun.
LEMMA FollowInit == ASSUME LocalNamespacesAssumption, Init PROVE FollowInv
<1>1. NamespacesInv
  BY NamespacesInit
<1>2. QED
  BY <1>1 DEF Init, FollowInv, WatcherTypes, FollowsList, SentOf, LocalNamespacesAssumption

\* What the invariant says of the registry.
LEMMA FollowGives == ASSUME FollowInv PROVE TypeOK /\ NamespacesReach
<1>1. TypeOK
  BY DEF FollowInv, NamespacesInv, RegistryInv, ChangesInv, WatcherTypes, TypeOK
<1>2. ASSUME NEW w \in Watchers, NEW n \in Namespaces, watcher[w] = "on", cursor[w] = Len(log),
             \A c \in pending : c.ns # n, LastSent(n) = (n \in present)
      PROVE  n \in known[w] <=> n \in present
  <2>1. \A i \in DOMAIN log : i <= Len(log)
    BY DEF FollowInv, NamespacesInv, ChangesInv
  <2>2. Received(w, n)
    BY <1>2, <2>1 DEF Received, SentOf
  <2>3. QED
    BY <1>2, <2>2 DEF FollowInv, FollowsList
<1>3. QED
  BY <1>1, <1>2 DEF NamespacesReach

-----------------------------------------------------------------------------
(* LocalTracks: the tracks of one name                                     *)

TrackChange == [added : BOOLEAN, track : Nat]

TracksTypes ==
  /\ TracksTypeOK
  /\ queue \in [Publishers -> Seq(Nat)] /\ asked \in [Publishers -> SUBSET (1 .. produced)]
  /\ given \in [Callers -> Nat] /\ via \in [Callers -> Nat]
  /\ position \in [Followers -> Nat] /\ serving \in [Followers -> Nat]
  /\ trackLog \in Seq(TrackChange) /\ \A i \in DOMAIN trackLog : trackLog[i].track <= produced
  /\ removals \subseteq 1 .. produced

\* The writer of a requested track is with the call that sends it, in one queue, or with the
\* source that took it.
Writers ==
  /\ \A s \in Publishers : \A i, j \in DOMAIN queue[s] : queue[s][i] = queue[s][j] => i = j
  /\ \A s, u \in Publishers : /\ Elements(queue[s]) \cap (published \cup asked[u]) = {}
                              /\ s # u => Elements(queue[s]) \cap Elements(queue[u]) = {}
  /\ \A c \in Callers : pc[c] = "send" =>
       /\ given[c] \in open \ published
       /\ \A s \in Publishers : given[c] \notin Elements(queue[s]) \cup asked[s]
  /\ \A c, d \in Callers : pc[c] = "send" /\ pc[d] = "send" /\ given[c] = given[d] => c = d

\* A call that was routed has a source; one whose request failed has lost it.  Until a track is
\* published or a source goes, no track lives that is not the entry.
Routed ==
  /\ \A c \in Callers : pc[c] \in {"reserve", "send"} => via[c] \in 1 .. sources
  /\ \A c \in Callers : pc[c] = "remove" => via[c] \in (1 .. sources) \ receiving
  /\ NoSpuriousNone
  /\ published = {} /\ receiving = 1 .. sources => open \subseteq {entry}

\* A name is known or published by the session, and a track passed over, only after one was told.
Aware(w) ==
  knownTrack[w] \/ serving[w] # Absent \/ (passedOver[w] # {} /\ peerAsked[w] = "no") => informed[w] # {}

\* Who has not come to the entry has still to come to the k-th change.
Hears(w, k) ==
  \/ entry \in informed[w] \cup passedOver[w]
  \/ follower[w] \in {"off", "subscribed", "ended"}
  \/ position[w] < k

AddedAt(k) == k \in DOMAIN trackLog /\ trackLog[k] = [added |-> TRUE, track |-> entry]

\* An addition is of a published track, and a published track in the map is the last of them, its
\* addition sent; while it is open every follower hears of it.
TracksTold ==
  /\ \A i \in DOMAIN trackLog : trackLog[i].added => trackLog[i].track \in {Absent} \cup published
  /\ \A w \in Followers : Aware(w)
  /\ entry \in published =>
       /\ \A t \in published : t <= entry
       /\ \E k \in Nat : AddedAt(k) /\ (entry \in open => \A w \in Followers : Hears(w, k))

TracksInv == TracksTypes /\ Writers /\ Routed /\ TracksTold

USE DEF map, namespace, calls, changes, peer, following, Absent

\* What is in a queue when it is sent to and taken from.
LEMMA QueueElements ==
  /\ Elements(<<>>) = {}
  /\ \A q \in Seq(Nat) : Len(q) \in Nat /\ Elements(q) \subseteq Nat
  /\ \A q \in Seq(Nat), e \in Nat : /\ Append(q, e) \in Seq(Nat) /\ Len(Append(q, e)) = Len(q) + 1
                                    /\ Elements(Append(q, e)) = Elements(q) \cup {e}
  /\ \A q \in Seq(Nat) : q # <<>> => /\ Tail(q) \in Seq(Nat) /\ Len(Tail(q)) = Len(q) - 1
                                     /\ Head(q) \in Elements(q)
                                     /\ Elements(q) = Elements(Tail(q)) \cup {Head(q)}
<1>1. Elements(<<>>) = {}
  BY DEF Elements
<1>2. ASSUME NEW q \in Seq(Nat) PROVE Len(q) \in Nat /\ Elements(q) \subseteq Nat
  BY ElementOfSeq DEF Elements
<1>3. ASSUME NEW q \in Seq(Nat), NEW e \in Nat
      PROVE  /\ Append(q, e) \in Seq(Nat) /\ Len(Append(q, e)) = Len(q) + 1
             /\ Elements(Append(q, e)) = Elements(q) \cup {e}
  <2>1. /\ Append(q, e) \in Seq(Nat) /\ Len(Append(q, e)) = Len(q) + 1 /\ Len(q) \in Nat
        /\ DOMAIN q = 1 .. Len(q) /\ DOMAIN Append(q, e) = 1 .. Len(q) + 1
        /\ \A i \in 1 .. Len(q) : Append(q, e)[i] = q[i]
        /\ Append(q, e)[Len(q) + 1] = e
    OBVIOUS
  <2>2. Elements(Append(q, e)) = Elements(q) \cup {e}
    BY <2>1 DEF Elements
  <2>3. QED
    BY <2>1, <2>2
<1>4. ASSUME NEW q \in Seq(Nat), q # <<>>
      PROVE  /\ Tail(q) \in Seq(Nat) /\ Len(Tail(q)) = Len(q) - 1
             /\ Head(q) \in Elements(q)
             /\ Elements(q) = Elements(Tail(q)) \cup {Head(q)}
  <2>1. /\ Tail(q) \in Seq(Nat) /\ Len(Tail(q)) = Len(q) - 1 /\ Len(q) \in Nat /\ Len(q) >= 1
        /\ DOMAIN q = 1 .. Len(q) /\ DOMAIN Tail(q) = 1 .. Len(q) - 1
        /\ \A i \in 1 .. Len(q) - 1 : Tail(q)[i] = q[i + 1]
        /\ Head(q) = q[1]
    BY <1>4, EmptySeq
  <2>2. \A i \in 1 .. Len(q) : i = 1 \/ i - 1 \in 1 .. Len(q) - 1
    BY <2>1
  <2>3. \A i \in 1 .. Len(q) - 1 : i + 1 \in 1 .. Len(q)
    BY <2>1
  <2>4. Elements(q) \subseteq Elements(Tail(q)) \cup {Head(q)}
    <3>1. ASSUME NEW i \in 1 .. Len(q) PROVE q[i] \in Elements(Tail(q)) \cup {Head(q)}
      <4>1. CASE i = 1
        BY <2>1, <4>1
      <4>2. CASE i # 1
        <5>1. Tail(q)[i - 1] = q[i] /\ i - 1 \in DOMAIN Tail(q)
          BY <2>1, <2>2, <4>2
        <5>2. QED
          BY <5>1 DEF Elements
      <4>3. QED
        BY <4>1, <4>2
    <3>2. QED
      BY <2>1, <3>1 DEF Elements
  <2>5. Elements(Tail(q)) \cup {Head(q)} \subseteq Elements(q)
    <3>1. Head(q) \in Elements(q)
      BY <2>1 DEF Elements
    <3>2. Elements(Tail(q)) \subseteq Elements(q)
      BY <2>1, <2>3 DEF Elements
    <3>3. QED
      BY <3>1, <3>2
  <2>6. QED
    BY <2>1, <2>4, <2>5
<1>5. QED
  BY <1>1, <1>2, <1>3, <1>4

\* Taking from a queue leaves no copy of what was taken.
LEMMA TailDistinct ==
  ASSUME NEW q \in Seq(Nat), q # <<>>, \A i, j \in DOMAIN q : q[i] = q[j] => i = j
  PROVE  /\ Head(q) \notin Elements(Tail(q))
         /\ \A i, j \in DOMAIN Tail(q) : Tail(q)[i] = Tail(q)[j] => i = j
<1>1. /\ Tail(q) \in Seq(Nat) /\ Len(Tail(q)) = Len(q) - 1 /\ Len(q) \in Nat /\ Len(q) >= 1
      /\ DOMAIN q = 1 .. Len(q) /\ DOMAIN Tail(q) = 1 .. Len(q) - 1
      /\ \A i \in 1 .. Len(q) - 1 : Tail(q)[i] = q[i + 1]
      /\ Head(q) = q[1]
  BY EmptySeq
<1>2. \A i \in 1 .. Len(q) - 1 : i + 1 \in DOMAIN q /\ i + 1 # 1 /\ i \in Nat
  BY <1>1
<1>3. 1 \in DOMAIN q
  BY <1>1
<1>4. \A i \in DOMAIN Tail(q) : Tail(q)[i] # Head(q)
  BY <1>1, <1>2, <1>3
<1>5. \A i, j \in DOMAIN Tail(q) : Tail(q)[i] = Tail(q)[j] => i = j
  BY SMTT(30), <1>1, <1>2
<1>6. QED
  BY <1>4, <1>5 DEF Elements

\* A queue that is sent something new holds nothing twice.
LEMMA AppendDistinct ==
  ASSUME NEW q \in Seq(Nat), NEW e \in Nat, e \notin Elements(q),
         \A i, j \in DOMAIN q : q[i] = q[j] => i = j
  PROVE  \A i, j \in DOMAIN Append(q, e) : Append(q, e)[i] = Append(q, e)[j] => i = j
<1>1. /\ Len(q) \in Nat /\ DOMAIN q = 1 .. Len(q) /\ DOMAIN Append(q, e) = 1 .. Len(q) + 1
      /\ \A i \in 1 .. Len(q) : Append(q, e)[i] = q[i]
      /\ Append(q, e)[Len(q) + 1] = e
  OBVIOUS
<1>2. \A i \in 1 .. Len(q) : q[i] # e
  BY <1>1 DEF Elements
<1>3. QED
  BY <1>1, <1>2

\* What a change of the log is.
LEMMA ChangeAt ==
  ASSUME trackLog \in Seq(TrackChange), NEW i \in DOMAIN trackLog
  PROVE  trackLog[i] \in TrackChange /\ trackLog[i].added \in BOOLEAN /\ trackLog[i].track \in Nat
<1>1. i \in 1 .. Len(trackLog)
  OBVIOUS
<1>2. trackLog[i] \in TrackChange
  BY <1>1, ElementOfSeq
<1>3. QED
  BY <1>2 DEF TrackChange

\* Steps of the calls that only look, and steps of the followers, see to no writer.
LEMMA LookStep ==
  ASSUME LocalTracksAssumption, TracksTypes, Writers, NEW c \in Callers, Look(c) \/ Prune(c) \/ Route(c) \/ RemoveTrack(c)
  PROVE  TracksTypes' /\ Writers'
<1> USE DEF TracksTypes, TracksTypeOK
<1>1. CASE Look(c)
  <2>1. /\ \E to \in {"got", "route", "prune"} : pc' = [pc EXCEPT ![c] = to]
        /\ given' = [given EXCEPT ![c] = entry] \/ given' = given
        /\ UNCHANGED <<map, namespace, via, changes, following>>
    BY <1>1 DEF Look, Give, Goto
  <2>2. TracksTypes'
    <3>1. pc' \in [Callers -> {"look", "prune", "route", "reserve", "send", "remove", "got", "none", "cancelled"}]
      BY <2>1
    <3>2. given' \in [Callers -> Nat] /\ \A d \in Callers : given'[d] \in 0 .. produced
      <4>1. entry \in Nat /\ entry \in 0 .. produced
        BY DEF LocalTracksAssumption
      <4>2. CASE given' = given
        BY <4>2
      <4>3. CASE given' = [given EXCEPT ![c] = entry]
        BY <4>1, <4>3
      <4>4. QED
        BY <2>1, <4>2, <4>3
    <3>3. QED
      BY <2>1, <3>1, <3>2
  <2>3. \A d \in Callers : pc'[d] = "send" => pc[d] = "send" /\ given'[d] = given[d]
    BY <2>1
  <2>4. QED
    BY <2>1, <2>2, <2>3 DEF Writers
<1>2. CASE Prune(c)
  BY <1>2 DEF Prune, PruneClosed, Goto, Writers
<1>3. CASE Route(c)
  BY <1>3 DEF Route, Goto, Writers
<1>4. CASE RemoveTrack(c)
  BY <1>4 DEF RemoveTrack, Goto, Writers
<1>5. QED
  BY <1>1, <1>2, <1>3, <1>4

\* A call that reserves the track has its writer.
LEMMA ReserveStep ==
  ASSUME LocalTracksAssumption, TracksTypes, Writers, NEW c \in Callers, ReserveTrack(c)
  PROVE  TracksTypes' /\ Writers'
<1> USE DEF TracksTypes, TracksTypeOK
<1>1. CASE entry \in open
  <2>1. /\ pc' = [pc EXCEPT ![c] = "got"] /\ given' = [given EXCEPT ![c] = entry]
        /\ UNCHANGED <<map, namespace, via, changes, following>>
    BY <1>1 DEF ReserveTrack, Give, Goto
  <2>2. TracksTypes'
    BY <2>1
  <2>3. \A d \in Callers : pc'[d] = "send" => pc[d] = "send" /\ given'[d] = given[d]
    BY <2>1
  <2>4. QED
    BY <2>1, <2>2, <2>3 DEF Writers
<1>2. CASE entry \notin open
  <2>1. /\ produced < MaxTracks /\ produced' = produced + 1 /\ entry' = produced + 1
        /\ open' = open \cup {produced + 1} /\ given' = [given EXCEPT ![c] = produced + 1]
        /\ pc' = [pc EXCEPT ![c] = "send"] /\ pc[c] = "reserve"
        /\ UNCHANGED <<published, owned, namespace, via, changes, following>>
    BY <1>2 DEF ReserveTrack, Goto
  <2>2. produced \in Nat /\ produced + 1 \in 1 .. MaxTracks /\ MaxTracks \in Nat
    BY <2>1 DEF LocalTracksAssumption
  <2>3. \A s \in Publishers : produced + 1 \notin Elements(queue[s]) \cup asked[s]
    BY <2>2
  <2>4. TracksTypes'
    <3>1. /\ produced' \in 0 .. MaxTracks /\ entry' \in 0 .. produced' /\ open' \subseteq 1 .. produced'
          /\ published' \subseteq 1 .. produced' /\ removals' \subseteq 1 .. produced'
      BY <2>1, <2>2
    <3>2. /\ given' \in [Callers -> Nat] /\ \A d \in Callers : given'[d] \in 0 .. produced'
          /\ pc' \in [Callers -> {"look", "prune", "route", "reserve", "send", "remove", "got", "none", "cancelled"}]
      BY <2>1, <2>2
    <3>3. asked' \in [Publishers -> SUBSET (1 .. produced')] /\ \A w \in Followers : serving'[w] \in 0 .. produced'
      BY <2>1, <2>2
    <3>4. \A i \in DOMAIN trackLog' : trackLog'[i].track <= produced'
      BY <2>1, <2>2, ChangeAt
    <3>5. \A s \in Publishers : Len(queue'[s]) <= QueueCapacity /\ Elements(queue'[s]) \subseteq open'
      BY <2>1
    <3>6. QED
      BY <2>1, <3>1, <3>2, <3>3, <3>4, <3>5
  <2>5. Writers'
    BY <2>1, <2>2, <2>3 DEF Writers
  <2>6. QED
    BY <2>4, <2>5
<1>3. QED
  BY <1>1, <1>2

\* A request that is sent hands the writer to the queue, or to nobody.
LEMMA SendStep ==
  ASSUME LocalTracksAssumption, TracksTypes, Writers, NEW c \in Callers, via[c] \in 1 .. sources, SendRequest(c)
  PROVE  TracksTypes' /\ Writers'
<1> USE DEF TracksTypes, TracksTypeOK
<1> DEFINE source == via[c]
           wanted == given[c]
<1>1. /\ source \in Publishers /\ queue[source] \in Seq(Nat) /\ wanted \in Nat /\ pc[c] = "send" /\ source \in receiving
      /\ Len(queue[source]) < QueueCapacity
      /\ queue' = [queue EXCEPT ![source] = Append(queue[source], wanted)] /\ pc' = [pc EXCEPT ![c] = "got"]
      /\ UNCHANGED <<sources, route, receiving, asked, map, given, via, changes, following>>
  BY DEF SendRequest, Goto, Publishers, LocalTracksAssumption
<1>2. /\ queue'[source] = Append(queue[source], wanted) /\ Elements(queue'[source]) = Elements(queue[source]) \cup {wanted}
      /\ queue'[source] \in Seq(Nat) /\ Len(queue'[source]) = Len(queue[source]) + 1
      /\ \A s \in Publishers : s # source => queue'[s] = queue[s]
  BY <1>1, QueueElements
<1>3. wanted \in open \ published /\ \A s \in Publishers : wanted \notin Elements(queue[s]) \cup asked[s]
  BY <1>1 DEF Writers
<1>4. Len(queue'[source]) <= QueueCapacity
  BY <1>1, <1>2, QueueElements DEF LocalTracksAssumption
<1>5. TracksTypes'
  <2>1. queue' \in [Publishers -> Seq(Nat)]
    BY <1>1, <1>2
  <2>2. \A s \in Publishers : Len(queue'[s]) <= QueueCapacity /\ Elements(queue'[s]) \subseteq open
    BY <1>2, <1>3, <1>4
  <2>3. QED
    BY <1>1, <2>1, <2>2
<1>6. \A i, j \in DOMAIN queue'[source] : queue'[source][i] = queue'[source][j] => i = j
  <2>1. /\ wanted \notin Elements(queue[source])
        /\ \A i, j \in DOMAIN queue[source] : queue[source][i] = queue[source][j] => i = j
    BY <1>1, <1>3 DEF Writers
  <2>2. \A i, j \in DOMAIN Append(queue[source], wanted) : Append(queue[source], wanted)[i] = Append(queue[source], wanted)[j] => i = j
    BY <1>1, <2>1, AppendDistinct
  <2>3. QED
    BY <1>2, <2>2
<1> HIDE DEF source, wanted, TracksTypes, TracksTypeOK
<1>7. \A s \in Publishers : \A i, j \in DOMAIN queue'[s] : queue'[s][i] = queue'[s][j] => i = j
  BY <1>2, <1>6 DEF Writers
<1>8. \A s, t \in Publishers : /\ Elements(queue'[s]) \cap (published \cup asked[t]) = {}
                               /\ s # t => Elements(queue'[s]) \cap Elements(queue'[t]) = {}
  <2> SUFFICES ASSUME NEW s \in Publishers, NEW t \in Publishers
               PROVE  /\ Elements(queue'[s]) \cap (published \cup asked[t]) = {}
                      /\ s # t => Elements(queue'[s]) \cap Elements(queue'[t]) = {}
    OBVIOUS
  <2>1. /\ Elements(queue[s]) \cap (published \cup asked[t]) = {}
        /\ s # t => Elements(queue[s]) \cap Elements(queue[t]) = {}
    BY DEF Writers
  <2>2. \A v \in Publishers : Elements(queue'[v]) = IF v = source THEN Elements(queue[v]) \cup {wanted} ELSE Elements(queue[v])
    BY <1>2
  <2>3. QED
    BY <1>3, <2>1, <2>2
<1>9. ASSUME NEW d \in Callers, pc'[d] = "send"
      PROVE  /\ d # c /\ pc[d] = "send" /\ given[d] # wanted
  BY <1>1, <1>9 DEF Writers, source, wanted, TracksTypes, TracksTypeOK
<1>10. ASSUME NEW d \in Callers, pc'[d] = "send"
       PROVE  /\ given[d] \in open \ published
              /\ \A s \in Publishers : given[d] \notin Elements(queue'[s]) \cup asked[s]
  <2>1. /\ given[d] \in open \ published
        /\ \A s \in Publishers : given[d] \notin Elements(queue[s]) \cup asked[s]
    BY <1>9, <1>10 DEF Writers
  <2>2. QED
    BY <1>2, <1>9, <1>10, <2>1
<1>11. Writers'
  <2>1. \A d, f \in Callers : pc'[d] = "send" /\ pc'[f] = "send" /\ given[d] = given[f] => d = f
    BY <1>9 DEF Writers
  <2>2. UNCHANGED <<asked, published, open, given>>
    BY <1>1
  <2>3. (\A s \in Publishers : \A i, j \in DOMAIN queue[s] : queue[s][i] = queue[s][j] => i = j)'
    BY <1>7
  <2>4. (\A s, t \in Publishers :
         /\ Elements(queue[s]) \cap (published \cup asked[t]) = {}
         /\ s # t => Elements(queue[s]) \cap Elements(queue[t]) = {})'
    BY <1>8, <2>2
  <2>5. (\A d \in Callers : pc[d] = "send" =>
           /\ given[d] \in open \ published
           /\ \A s \in Publishers : given[d] \notin Elements(queue[s]) \cup asked[s])'
    BY <1>10, <2>2
  <2>6. (\A d, f \in Callers : pc[d] = "send" /\ pc[f] = "send" /\ given[d] = given[f] => d = f)'
    BY <2>1, <2>2
  <2>7. QED
    BY <2>3, <2>4, <2>5, <2>6 DEF Writers
<1>12. QED
  BY <1>5, <1>11

\* A call that fails or is cancelled ends the track it reserved and no other.
LEMMA LostStep ==
  ASSUME LocalTracksAssumption, TracksTypes, Writers, NEW c \in Callers, SendFails(c) \/ CancelCall(c)
  PROVE  TracksTypes' /\ Writers'
<1> USE DEF TracksTypes, TracksTypeOK
<1>1. /\ pc[c] = "send" /\ open' = open \ {given[c]}
      /\ \E to \in {"remove", "cancelled"} : pc' = [pc EXCEPT ![c] = to]
      /\ UNCHANGED <<produced, entry, published, owned, namespace, given, via, changes, following>>
  BY DEF SendFails, CancelCall, Goto
<1>2. /\ given[c] \in open \ published
      /\ \A s \in Publishers : given[c] \notin Elements(queue[s]) \cup asked[s]
      /\ \A d \in Callers : pc[d] = "send" /\ given[d] = given[c] => d = c
  BY <1>1 DEF Writers
<1>3. TracksTypes'
  BY <1>1, <1>2
<1>4. /\ \A d \in Callers : pc'[d] = "send" => pc[d] = "send" /\ d # c
      /\ queue' = queue /\ asked' = asked /\ published' = published /\ given' = given
      /\ Publishers' = Publishers
  BY <1>1
<1>5. /\ \A s \in Publishers : \A i, j \in DOMAIN queue[s] : queue[s][i] = queue[s][j] => i = j
      /\ \A s, u \in Publishers : /\ Elements(queue[s]) \cap (published \cup asked[u]) = {}
                                  /\ s # u => Elements(queue[s]) \cap Elements(queue[u]) = {}
      /\ \A d, f \in Callers : pc[d] = "send" /\ pc[f] = "send" /\ given[d] = given[f] => d = f
      /\ \A d \in Callers : pc[d] = "send" =>
           /\ given[d] \in open \ published
           /\ \A s \in Publishers : given[d] \notin Elements(queue[s]) \cup asked[s]
  BY DEF Writers
<1>6. \A d \in Callers : pc'[d] = "send" => given[d] \in open' \ published
  BY <1>1, <1>2, <1>4, <1>5
<1>7. (\A s \in Publishers : \A i, j \in DOMAIN queue[s] : queue[s][i] = queue[s][j] => i = j)'
  BY <1>4, <1>5
<1>8. (\A s, u \in Publishers : /\ Elements(queue[s]) \cap (published \cup asked[u]) = {}
                                /\ s # u => Elements(queue[s]) \cap Elements(queue[u]) = {})'
  BY <1>4, <1>5
<1>9. (\A d \in Callers : pc[d] = "send" =>
         /\ given[d] \in open \ published
         /\ \A s \in Publishers : given[d] \notin Elements(queue[s]) \cup asked[s])'
  BY <1>4, <1>5, <1>6
<1>10. (\A d, f \in Callers : pc[d] = "send" /\ pc[f] = "send" /\ given[d] = given[f] => d = f)'
  BY <1>4, <1>5
<1>11. QED
  BY <1>3, <1>7, <1>8, <1>9, <1>10 DEF Writers

\* A namespace that comes or goes takes no writer with it.
LEMMA SourceStep ==
  ASSUME LocalTracksAssumption, TracksTypes, Writers,
         RegisterNamespace \/ DropNamespace
  PROVE  TracksTypes' /\ Writers'
<1>1. CASE RegisterNamespace
  <2>1. /\ sources \in Nat /\ sources < MaxPublishers /\ sources' = sources + 1 /\ route' = sources + 1
        /\ receiving' = receiving \cup {sources + 1} /\ MaxPublishers \in Nat
        /\ UNCHANGED <<queue, asked, map, calls, changes, following>>
    BY <1>1 DEF RegisterNamespace, TracksTypes, TracksTypeOK, LocalTracksAssumption
  <2>2. /\ sources' \in 0 .. MaxPublishers /\ route' \in 0 .. sources' /\ receiving' \subseteq 1 .. sources'
        /\ \A c \in Callers : via[c] \in 0 .. sources'
    <3>1. receiving \subseteq 1 .. sources /\ \A c \in Callers : via[c] \in 0 .. sources
      BY DEF TracksTypes, TracksTypeOK
    <3>2. QED
      BY <2>1, <3>1
  <2>3. QED
    BY <2>1, <2>2 DEF TracksTypes, TracksTypeOK, Writers
<1>2. CASE DropNamespace
  BY <1>2 DEF DropNamespace, TracksTypes, TracksTypeOK, Writers
<1>3. QED
  BY <1>1, <1>2

\* A request that is taken hands the writer to the source.
LEMMA TakeStep ==
  ASSUME LocalTracksAssumption, TracksTypes, Writers, NEW u \in Publishers, TakeRequest(u)
  PROVE  TracksTypes' /\ Writers'
<1> DEFINE e == Head(queue[u])
<1>1. /\ queue[u] \in Seq(Nat) /\ queue[u] # <<>> /\ queue' = [queue EXCEPT ![u] = Tail(queue[u])]
      /\ asked' = [asked EXCEPT ![u] = asked[u] \cup {e}]
      /\ UNCHANGED <<sources, route, receiving, map, calls, changes, following>>
  BY DEF TakeRequest, TracksTypes
<1>2. /\ queue'[u] = Tail(queue[u]) /\ \A s \in Publishers : s # u => queue'[s] = queue[s]
      /\ asked'[u] = asked[u] \cup {e} /\ \A s \in Publishers : s # u => asked'[s] = asked[s]
      /\ queue'[u] \in Seq(Nat) /\ Len(queue'[u]) = Len(queue[u]) - 1 /\ Len(queue[u]) \in Nat
      /\ e \in Elements(queue[u]) /\ Elements(queue[u]) = Elements(queue'[u]) \cup {e}
  BY <1>1, QueueElements DEF TracksTypes
<1>3. /\ e \notin Elements(queue'[u])
      /\ \A i, j \in DOMAIN queue'[u] : queue'[u][i] = queue'[u][j] => i = j
  BY <1>1, <1>2, TailDistinct DEF Writers
<1> HIDE DEF e
<1>4. e \in open /\ e \in 1 .. produced
  BY <1>2 DEF TracksTypes, TracksTypeOK
<1>5. TracksTypes'
  <2>1. queue' \in [Publishers -> Seq(Nat)] /\ asked' \in [Publishers -> SUBSET (1 .. produced)]
    BY <1>1, <1>2, <1>4 DEF TracksTypes
  <2>2. \A s \in Publishers : Len(queue'[s]) <= QueueCapacity /\ Elements(queue'[s]) \subseteq open
    <3> SUFFICES ASSUME NEW s \in Publishers
                 PROVE  Len(queue'[s]) <= QueueCapacity /\ Elements(queue'[s]) \subseteq open
      OBVIOUS
    <3>1. Len(queue[s]) <= QueueCapacity /\ Elements(queue[s]) \subseteq open /\ QueueCapacity \in Nat
      BY DEF TracksTypes, TracksTypeOK, LocalTracksAssumption
    <3>2. CASE s = u
      <4>1. Elements(queue'[u]) \subseteq Elements(queue[u]) /\ Len(queue'[u]) <= Len(queue[u])
        BY <1>2
      <4>2. Len(queue'[u]) \in Nat
        BY <1>2, QueueElements
      <4>3. Len(queue[u]) <= QueueCapacity /\ Elements(queue[u]) \subseteq open
        BY <3>1, <3>2
      <4>4. Len(queue'[u]) <= QueueCapacity /\ Elements(queue'[u]) \subseteq open
        BY <1>2, <3>1, <4>1, <4>2, <4>3
      <4>5. QED
        BY <3>2, <4>4
    <3>3. CASE s # u
      BY <1>2, <3>1, <3>3
    <3>4. QED
      BY <3>2, <3>3
  <2>3. QED
    BY <1>1, <2>1, <2>2 DEF TracksTypes, TracksTypeOK
<1>6. \A s \in Publishers : \A i, j \in DOMAIN queue'[s] : queue'[s][i] = queue'[s][j] => i = j
  BY <1>2, <1>3 DEF Writers
<1>7. ASSUME NEW s \in Publishers, NEW t \in Publishers
      PROVE  /\ Elements(queue'[s]) \cap (published \cup asked'[t]) = {}
             /\ s # t => Elements(queue'[s]) \cap Elements(queue'[t]) = {}
  <2>1. /\ Elements(queue[s]) \cap (published \cup asked[t]) = {}
        /\ s # t => Elements(queue[s]) \cap Elements(queue[t]) = {}
        /\ s # u => Elements(queue[s]) \cap Elements(queue[u]) = {}
    BY DEF Writers
  <2>2. Elements(queue'[s]) \subseteq Elements(queue[s]) /\ Elements(queue'[t]) \subseteq Elements(queue[t])
    BY <1>2
  <2>3. e \notin Elements(queue'[s])
    BY <1>2, <1>3, <2>1
  <2>4. QED
    BY <1>2, <2>1, <2>2, <2>3
<1>8. ASSUME NEW d \in Callers, pc[d] = "send"
      PROVE  /\ given[d] \in open \ published
             /\ \A s \in Publishers : given[d] \notin Elements(queue'[s]) \cup asked'[s]
  <2>1. /\ given[d] \in open \ published
        /\ \A s \in Publishers : given[d] \notin Elements(queue[s]) \cup asked[s]
    BY <1>8 DEF Writers
  <2>2. QED
    BY <1>2, <2>1
<1>9. Writers'
  BY <1>1, <1>6, <1>7, <1>8 DEF Writers
<1>10. QED
  BY <1>5, <1>9

\* A receiver that goes ends the tracks of its own queue.
LEMMA CloseReceiverStep ==
  ASSUME LocalTracksAssumption, TracksTypes, Writers, NEW u \in Publishers, CloseReceiver(u)
  PROVE  TracksTypes' /\ Writers'
<1>1. /\ queue'[u] = <<>> /\ \A s \in Publishers : s # u => queue'[s] = queue[s]
      /\ queue' \in [Publishers -> Seq(Nat)]
      /\ receiving' = receiving \ {u} /\ open' = open \ Elements(queue[u])
      /\ UNCHANGED <<produced, entry, published, owned, sources, route, asked, calls, changes, following>>
  BY DEF CloseReceiver, TracksTypes
<1>2. Elements(queue'[u]) = {} /\ Len(queue'[u]) = 0 /\ DOMAIN queue'[u] = {}
  BY <1>1, QueueElements
<1>3. ASSUME NEW s \in Publishers PROVE Elements(queue'[s]) \subseteq open'
  <2>1. s # u => Elements(queue[s]) \cap Elements(queue[u]) = {} /\ Elements(queue[s]) \subseteq open
    BY DEF Writers, TracksTypes, TracksTypeOK
  <2>2. QED
    BY <1>1, <1>2, <2>1
<1>4. TracksTypes'
  <2>1. \A s \in Publishers : Len(queue'[s]) <= QueueCapacity
    <3> SUFFICES ASSUME NEW s \in Publishers PROVE Len(queue'[s]) <= QueueCapacity
      OBVIOUS
    <3>1. Len(queue[s]) <= QueueCapacity /\ QueueCapacity \in Nat
      BY DEF TracksTypes, TracksTypeOK, LocalTracksAssumption
    <3>2. QED
      BY <1>1, <1>2, <3>1
  <2>2. QED
    BY <1>1, <1>3, <2>1 DEF TracksTypes, TracksTypeOK
<1>5. Writers'
  BY <1>1, <1>2 DEF Writers
<1>6. QED
  BY <1>4, <1>5

\* A change is put at the end of the log.
LEMMA LoggedIn ==
  ASSUME NEW p \in Nat, NEW q \in Nat, p <= q, trackLog \in Seq(TrackChange),
         \A i \in DOMAIN trackLog : trackLog[i].track <= p,
         NEW e \in TrackChange, e.track <= q
  PROVE  /\ Append(trackLog, e) \in Seq(TrackChange) /\ Len(Append(trackLog, e)) = Len(trackLog) + 1
         /\ \A i \in DOMAIN Append(trackLog, e) : Append(trackLog, e)[i].track <= q
<1>1. /\ Append(trackLog, e) \in Seq(TrackChange) /\ Len(Append(trackLog, e)) = Len(trackLog) + 1
      /\ DOMAIN Append(trackLog, e) = 1 .. Len(trackLog) + 1 /\ DOMAIN trackLog = 1 .. Len(trackLog)
      /\ \A i \in 1 .. Len(trackLog) : Append(trackLog, e)[i] = trackLog[i]
      /\ Append(trackLog, e)[Len(trackLog) + 1] = e /\ Len(trackLog) \in Nat
  OBVIOUS
<1>2. \A i \in DOMAIN trackLog : trackLog[i].track \in Nat
  BY ChangeAt
<1>3. QED
  BY <1>1, <1>2

\* A track that is published, dropped or closed is of no call.
LEMMA PublishStep ==
  ASSUME LocalTracksAssumption, TracksTypes, Writers,
         RegisterTrack \/ OtherChange \/ \E t \in Tracks : DropTrack(t) \/ SendRemoved(t) \/ CloseTrack(t)
  PROVE  TracksTypes' /\ Writers'
<1>1. CASE RegisterTrack
  <2>1. /\ produced \in Nat /\ produced' = produced + 1 /\ produced + 1 \in 1 .. MaxTracks
        /\ entry' = produced + 1 /\ open' = open \cup {produced + 1}
        /\ published' = published \cup {produced + 1} /\ owned' = owned \cup {produced + 1}
        /\ trackLog' = Append(trackLog, [added |-> TRUE, track |-> produced + 1])
        /\ UNCHANGED <<namespace, calls, removals, following>>
    BY <1>1 DEF RegisterTrack, TracksTypes, TracksTypeOK, LocalTracksAssumption
  <2>2. /\ trackLog' \in Seq(TrackChange) /\ Len(trackLog') = Len(trackLog) + 1 /\ Len(trackLog) \in Nat
        /\ \A i \in DOMAIN trackLog' : trackLog'[i].track <= produced'
    <3>1. /\ [added |-> TRUE, track |-> produced + 1] \in TrackChange
          /\ [added |-> TRUE, track |-> produced + 1].track = produced + 1
      BY <2>1 DEF TrackChange
    <3>2. produced + 1 <= produced + 1 /\ produced <= produced + 1 /\ produced + 1 \in Nat
      BY <2>1
    <3> DEFINE e == [added |-> TRUE, track |-> produced + 1]
    <3>3. /\ trackLog \in Seq(TrackChange) /\ \A i \in DOMAIN trackLog : trackLog[i].track <= produced
          /\ e \in TrackChange /\ e.track <= produced + 1
      BY <2>1, <3>1, <3>2 DEF TracksTypes
    <3> HIDE DEF e
    <3>4. /\ Append(trackLog, e) \in Seq(TrackChange) /\ Len(Append(trackLog, e)) = Len(trackLog) + 1
          /\ \A i \in DOMAIN Append(trackLog, e) : Append(trackLog, e)[i].track <= produced + 1
      BY <2>1, <3>2, <3>3, LoggedIn
    <3>5. trackLog' = Append(trackLog, e) /\ Len(trackLog) \in Nat
      BY <2>1, <3>3 DEF e
    <3>6. QED
      BY <2>1, <3>4, <3>5
  <2>3. TracksTypes'
    <3> USE DEF TracksTypes, TracksTypeOK
    <3>1. /\ produced' \in 0 .. MaxTracks /\ entry' \in 0 .. produced' /\ open' \subseteq 1 .. produced'
          /\ published' \subseteq 1 .. produced' /\ removals' \subseteq 1 .. produced' /\ owned' \subseteq published'
      BY <2>1
    <3>2. \A d \in Callers : given'[d] \in 0 .. produced'
      BY <2>1
    <3>3. /\ asked' \in [Publishers -> SUBSET (1 .. produced')]
          /\ \A w \in Followers : serving'[w] \in 0 .. produced' /\ position'[w] \in 0 .. Len(trackLog')
      BY <2>1, <2>2
    <3>4. \A s \in Publishers : Len(queue'[s]) <= QueueCapacity /\ Elements(queue'[s]) \subseteq open'
      BY <2>1
    <3>5. QED
      BY <2>1, <2>2, <3>1, <3>2, <3>3, <3>4
  <2>4. \A s \in Publishers : produced + 1 \notin Elements(queue[s])
    BY <2>1 DEF TracksTypes, TracksTypeOK
  <2>5. \A c \in Callers : pc[c] = "send" => given[c] # produced + 1
    BY <2>1 DEF TracksTypes, TracksTypeOK, Writers
  <2>6. Writers'
    <3>1. \A s, u \in Publishers : Elements(queue[s]) \cap (published' \cup asked[u]) = {}
      BY <2>1, <2>4 DEF Writers
    <3>2. \A c \in Callers : pc[c] = "send" => given[c] \in open' \ published'
      BY <2>1, <2>5 DEF Writers
    <3>3. UNCHANGED <<queue, asked, pc, given>>
      BY <2>1
    <3>4. QED
      BY <3>1, <3>2, <3>3 DEF Writers
  <2>7. QED
    BY <2>3, <2>6
<1>2. ASSUME NEW t \in 0 .. produced, NEW b \in BOOLEAN,
             trackLog' = Append(trackLog, [added |-> b, track |-> t]),
             removals' \subseteq removals, UNCHANGED <<map, namespace, calls, following>>
      PROVE  TracksTypes' /\ Writers'
  <2>1. /\ trackLog' \in Seq(TrackChange) /\ Len(trackLog') = Len(trackLog) + 1 /\ Len(trackLog) \in Nat
        /\ \A i \in DOMAIN trackLog' : trackLog'[i].track <= produced'
    BY <1>2, LoggedIn DEF TracksTypes, TracksTypeOK, TrackChange
  <2>2. TracksTypes'
    BY <1>2, <2>1 DEF TracksTypes, TracksTypeOK
  <2>3. QED
    BY <1>2, <2>2 DEF Writers
<1>3. CASE OtherChange
  <2>1. /\ 0 \in 0 .. produced /\ trackLog' = Append(trackLog, [added |-> TRUE, track |-> 0])
        /\ removals' \subseteq removals /\ UNCHANGED <<map, namespace, calls, following>>
    BY <1>3 DEF OtherChange, TracksTypes, TracksTypeOK
  <2>2. QED
    BY <1>2, <2>1
<1>4. ASSUME NEW t \in Tracks, DropTrack(t) PROVE TracksTypes' /\ Writers'
  <2>1. /\ owned' \subseteq published /\ entry' \in 0 .. produced /\ removals' \subseteq 1 .. produced
        /\ UNCHANGED <<produced, open, published, namespace, calls, trackLog, following>>
    <3>1. /\ owned \subseteq published /\ removals \subseteq 1 .. produced /\ published \subseteq 1 .. produced
          /\ produced \in Nat
      BY DEF TracksTypes, TracksTypeOK
    <3>2. QED
      BY <1>4, <3>1 DEF DropTrack
  <2>2. TracksTypes'
    BY <2>1 DEF TracksTypes, TracksTypeOK
  <2>3. QED
    BY <2>1, <2>2 DEF Writers
<1>5. ASSUME NEW t \in Tracks, SendRemoved(t) PROVE TracksTypes' /\ Writers'
  <2>1. /\ t \in 0 .. produced /\ trackLog' = Append(trackLog, [added |-> FALSE, track |-> t])
        /\ removals' \subseteq removals /\ UNCHANGED <<map, namespace, calls, following>>
    BY <1>5 DEF SendRemoved, TracksTypes, TracksTypeOK, LocalTracksAssumption
  <2>2. QED
    BY <1>2, <2>1
<1>6. ASSUME NEW t \in Tracks, CloseTrack(t) PROVE TracksTypes' /\ Writers'
  <2>1. /\ open' = open \ {t} /\ t \in published \cup UNION {asked[s] : s \in Publishers}
        /\ UNCHANGED <<produced, entry, published, owned, namespace, calls, changes, following>>
    BY <1>6 DEF CloseTrack
  <2>2. \A s \in Publishers : t \notin Elements(queue[s])
    BY <2>1 DEF Writers
  <2>3. \A c \in Callers : pc[c] = "send" => given[c] # t
    BY <2>1 DEF Writers
  <2>4. QED
    BY <2>1, <2>2, <2>3 DEF TracksTypes, TracksTypeOK, Writers
<1>7. QED
  BY <1>1, <1>3, <1>4, <1>5, <1>6

\* The steps of a follower and of its peer.
FollowerSteps(v) ==
  \/ FollowTracks(v) \/ SnapshotTracks(v) \/ PruneListed(v) \/ RecvTrackChange(v)
  \/ ServeEnds(v) \/ HandlerEnds(v) \/ PeerSubscribes(v)

\* What a follower does with what it comes to.
Does(w) ==
  \/ UNCHANGED peer
  \/ Forget(w)
  \/ \E t \in published : PublishTrack(w, t)

\* What a follower knows, serves and told stays typed, and so does what it is aware of.
LEMMA KeepsWhatItHas ==
  ASSUME TracksTypes, NEW w \in Followers, Does(w), UNCHANGED <<produced, published, peerAsked>>
  PROVE  /\ knownTrack' \in [Followers -> BOOLEAN]
         /\ serving' \in [Followers -> Nat] /\ \A v \in Followers : serving'[v] \in 0 .. produced'
         /\ informed' \in [Followers -> SUBSET published'] /\ passedOver' \in [Followers -> SUBSET published']
         /\ \A v \in Followers : /\ informed[v] \subseteq informed'[v] /\ passedOver[v] \subseteq passedOver'[v]
                                 /\ v # w => /\ knownTrack'[v] = knownTrack[v] /\ serving'[v] = serving[v]
                                             /\ informed'[v] = informed[v] /\ passedOver'[v] = passedOver[v]
         /\ Aware(w) => Aware(w)'
<1> USE DEF TracksTypes, TracksTypeOK
<1>1. CASE UNCHANGED peer
  BY <1>1 DEF Aware
<1>2. CASE Forget(w)
  BY <1>2 DEF Forget, Aware
<1>3. ASSUME NEW t \in published, PublishTrack(w, t), knownTrack[w] \/ NameTaken(w)
      PROVE  /\ UNCHANGED <<knownTrack, serving, informed>>
             /\ passedOver' = [passedOver EXCEPT ![w] = passedOver[w] \cup {t}]
             /\ Aware(w) => Aware(w)'
  BY <1>3 DEF PublishTrack, NameTaken, Aware
<1>4. ASSUME NEW t \in published, PublishTrack(w, t), ~(knownTrack[w] \/ NameTaken(w))
      PROVE  /\ knownTrack' = [knownTrack EXCEPT ![w] = TRUE] /\ serving' = [serving EXCEPT ![w] = t]
             /\ informed' = [informed EXCEPT ![w] = informed[w] \cup {t}] /\ UNCHANGED passedOver
             /\ Aware(w)'
  <2>1. /\ knownTrack' = [knownTrack EXCEPT ![w] = TRUE] /\ serving' = [serving EXCEPT ![w] = t]
        /\ informed' = [informed EXCEPT ![w] = informed[w] \cup {t}] /\ UNCHANGED passedOver
    BY <1>4 DEF PublishTrack
  <2>2. informed'[w] = informed[w] \cup {t}
    BY <2>1
  <2>3. QED
    BY <2>1, <2>2 DEF Aware
<1>5. CASE \E t \in published : PublishTrack(w, t)
  <2> PICK t \in published : PublishTrack(w, t)
    BY <1>5
  <2>1. t \in 1 .. produced /\ t \in Nat
    OBVIOUS
  <2>2. CASE knownTrack[w] \/ NameTaken(w)
    <3>1. /\ UNCHANGED <<knownTrack, serving, informed, published, produced>> /\ (Aware(w) => Aware(w)')
          /\ passedOver' = [passedOver EXCEPT ![w] = passedOver[w] \cup {t}]
      BY <1>3, <2>2
    <3>2. /\ passedOver' \in [Followers -> SUBSET published'] /\ passedOver'[w] = passedOver[w] \cup {t}
          /\ \A v \in Followers : v # w => passedOver'[v] = passedOver[v]
      BY <3>1
    <3>3. QED
      BY <3>1, <3>2
  <2>3. CASE ~(knownTrack[w] \/ NameTaken(w))
    <3>1. /\ UNCHANGED <<passedOver, published, produced>> /\ Aware(w)'
          /\ knownTrack' = [knownTrack EXCEPT ![w] = TRUE] /\ serving' = [serving EXCEPT ![w] = t]
          /\ informed' = [informed EXCEPT ![w] = informed[w] \cup {t}]
      BY <1>4, <2>3
    <3>2. /\ informed' \in [Followers -> SUBSET published'] /\ informed'[w] = informed[w] \cup {t}
          /\ \A v \in Followers : v # w => informed'[v] = informed[v]
      BY <3>1
    <3>3. /\ knownTrack' \in [Followers -> BOOLEAN] /\ serving' \in [Followers -> Nat] /\ serving'[w] = t
          /\ \A v \in Followers : v # w => knownTrack'[v] = knownTrack[v] /\ serving'[v] = serving[v]
      BY <2>1, <3>1
    <3>4. \A v \in Followers : serving'[v] \in 0 .. produced'
      BY <2>1, <3>1, <3>3
    <3>5. QED
      BY <3>1, <3>2, <3>3, <3>4
  <2>4. QED
    BY <2>2, <2>3
<1>6. QED
  BY <1>1, <1>2, <1>5 DEF Does

\* What a follower comes to in the snapshot and in the channel.
LEMMA FollowerDoes ==
  ASSUME LocalTracksAssumption, TracksTypes, TracksTold, NEW w \in Followers,
         SnapshotTracks(w) \/ RecvTrackChange(w)
  PROVE  Does(w)
<1> USE DEF TracksTypes, TracksTypeOK
<1>0. Len(trackLog) \in Nat /\ DOMAIN trackLog = 1 .. Len(trackLog)
  OBVIOUS
<1>1. CASE SnapshotTracks(w)
  BY <1>1 DEF SnapshotTracks, ListedTracks, Does
<1>2. CASE RecvTrackChange(w)
  <2>1. CASE Len(trackLog) - position[w] > LogCapacity
    BY <1>2, <2>1 DEF RecvTrackChange, ResyncTracks, ListedTracks, Does
  <2>2. CASE ~(Len(trackLog) - position[w] > LogCapacity)
    <3>1. position[w] + 1 \in DOMAIN trackLog
      BY <1>0, <1>2 DEF RecvTrackChange
    <3>2. trackLog[position[w] + 1].added => trackLog[position[w] + 1].track \in {0} \cup published
      BY <3>1 DEF TracksTold
    <3>3. QED
      BY <1>2, <2>2, <3>2 DEF RecvTrackChange, ApplyTrackChange, Does
  <2>3. QED
    BY <2>1, <2>2
<1>3. QED
  BY <1>1, <1>2

\* A follower that moves touches no writer.
LEMMA FollowerStep ==
  ASSUME LocalTracksAssumption, TracksTypes, Writers, TracksTold, NEW w \in Followers, FollowerSteps(w)
  PROVE  TracksTypes' /\ Writers'
<1> USE DEF TracksTypes, TracksTypeOK
<1>0. Len(trackLog) \in Nat /\ DOMAIN trackLog = 1 .. Len(trackLog)
  OBVIOUS
<1>1. CASE FollowTracks(w)
  BY <1>0, <1>1 DEF FollowTracks, Writers
<1>2. ASSUME UNCHANGED <<map, namespace, calls, changes, peerAsked>>, Does(w),
             NEW to \in {"prune", "on"}, follower' = [follower EXCEPT ![w] = to],
             NEW p \in 0 .. Len(trackLog), position' = [position EXCEPT ![w] = p]
      PROVE  TracksTypes' /\ Writers'
  <2>1. /\ knownTrack' \in [Followers -> BOOLEAN]
        /\ serving' \in [Followers -> Nat] /\ \A v \in Followers : serving'[v] \in 0 .. produced'
        /\ informed' \in [Followers -> SUBSET published'] /\ passedOver' \in [Followers -> SUBSET published']
    BY <1>2, KeepsWhatItHas
  <2>2. /\ follower' \in [Followers -> {"off", "subscribed", "prune", "on", "ended"}]
        /\ position' \in [Followers -> Nat] /\ \A v \in Followers : position'[v] \in 0 .. Len(trackLog)
    BY <1>0, <1>2
  <2>3. UNCHANGED <<map, namespace, calls, changes, peerAsked>>
    BY <1>2
  <2>4. TracksTypes'
    BY <2>1, <2>2, <2>3
  <2>5. QED
    BY <2>3, <2>4 DEF Writers
<1>3. CASE SnapshotTracks(w)
  <2>1. /\ follower' = [follower EXCEPT ![w] = IF Closed(entry) THEN "prune" ELSE "on"]
        /\ position' = [position EXCEPT ![w] = position[w]]
        /\ UNCHANGED <<map, namespace, calls, changes, peerAsked>>
    BY <1>3 DEF SnapshotTracks, AfterList
  <2>2. QED
    BY <1>2, <1>3, <2>1, FollowerDoes
<1>4. CASE PruneListed(w)
  BY <1>4 DEF PruneListed, PruneClosed, Writers
<1>5. CASE RecvTrackChange(w)
  <2>2. PICK p \in 0 .. Len(trackLog) : position' = [position EXCEPT ![w] = p]
    <3>1. CASE Len(trackLog) - position[w] > LogCapacity
      <4>1. Len(trackLog) - LogCapacity \in 0 .. Len(trackLog)
        BY <1>0, <3>1 DEF LocalTracksAssumption
      <4>2. QED
        BY <1>5, <3>1, <4>1 DEF RecvTrackChange
    <3>2. CASE ~(Len(trackLog) - position[w] > LogCapacity)
      <4>1. position[w] + 1 \in 0 .. Len(trackLog)
        BY <1>0, <1>5 DEF RecvTrackChange
      <4>2. QED
        BY <1>5, <3>2, <4>1 DEF RecvTrackChange
    <3>3. QED
      BY <3>1, <3>2
  <2>3. PICK to \in {"prune", "on"} : follower' = [follower EXCEPT ![w] = to]
    BY <1>5 DEF RecvTrackChange, AfterList
  <2>4. UNCHANGED <<map, namespace, calls, changes, peerAsked>>
    BY <1>5 DEF RecvTrackChange
  <2>5. QED
    BY <1>2, <1>5, <2>2, <2>3, <2>4, FollowerDoes
<1>6. CASE ServeEnds(w) \/ HandlerEnds(w) \/ PeerSubscribes(w)
  <2>1. UNCHANGED <<map, namespace, calls, changes, position, knownTrack, informed, passedOver>>
    BY <1>6 DEF ServeEnds, HandlerEnds, PeerSubscribes
  <2>2. /\ follower' \in [Followers -> {"off", "subscribed", "prune", "on", "ended"}]
        /\ peerAsked' \in [Followers -> {"no", "yes", "was"}]
    BY <1>6 DEF ServeEnds, HandlerEnds, PeerSubscribes
  <2>3. serving' \in [Followers -> Nat] /\ \A v \in Followers : serving'[v] \in 0 .. produced
    <3>1. produced \in Nat /\ (serving' = serving \/ serving' = [serving EXCEPT ![w] = 0])
      BY <1>6 DEF ServeEnds, HandlerEnds, PeerSubscribes
    <3>2. serving' \in [Followers -> Nat]
      <4>1. serving \in [Followers -> Nat] /\ 0 \in Nat /\ w \in Followers
        OBVIOUS
      <4> HIDE DEF TracksTypes, TracksTypeOK
      <4>2. CASE serving' = [serving EXCEPT ![w] = 0]
        BY <4>1, <4>2
      <4>3. QED
        BY <3>1, <4>1, <4>2
    <3>3. \A v \in Followers : serving'[v] = serving[v] \/ serving'[v] = 0
      BY <3>1
    <3>4. QED
      BY <3>1, <3>2, <3>3
  <2>4. TracksTypes'
    BY <2>1, <2>2, <2>3
  <2>5. QED
    BY <2>1, <2>4 DEF Writers
<1>7. QED
  BY <1>1, <1>3, <1>4, <1>5, <1>6 DEF FollowerSteps

\* Every step keeps where the calls are routed to.
LEMMA RoutedStep ==
  ASSUME LocalTracksAssumption, TracksTypes, Routed, TracksNext
  PROVE  Routed'
<1> USE DEF TracksTypes, TracksTypeOK, NoSpuriousNone
<1>0. sources \in Nat /\ produced \in Nat /\ receiving \subseteq 1 .. sources
  OBVIOUS
<1>1. ASSUME NEW c \in Callers, CallStep(c) \/ CancelCall(c) PROVE Routed'
  <2>1. CASE Look(c)
    BY <2>1 DEF Look, Give, Goto, Routed
  <2>2. CASE Prune(c)
    BY <2>2 DEF Prune, PruneClosed, Closed, Goto, Routed
  <2>3. CASE Route(c)
    <3>1. /\ via' = [via EXCEPT ![c] = route] /\ route \in 0 .. sources
          /\ pc' = [pc EXCEPT ![c] = IF route = 0 THEN "none" ELSE "reserve"]
          /\ UNCHANGED <<map, namespace>>
      BY <2>3 DEF Route, Goto
    <3>2. route # 0 => route \in 1 .. sources
      BY <1>0, <3>1
    <3>3. QED
      BY <3>1, <3>2 DEF Routed
  <2>4. CASE ReserveTrack(c)
    <3>1. CASE entry \in open
      BY <2>4, <3>1 DEF ReserveTrack, Give, Goto, Routed
    <3>2. CASE entry \notin open
      <4>1. /\ pc' = [pc EXCEPT ![c] = "send"] /\ pc[c] = "reserve"
            /\ entry' = produced + 1 /\ open' = open \cup {produced + 1}
            /\ UNCHANGED <<published, namespace, via>>
        BY <2>4, <3>2 DEF ReserveTrack, Goto
      <4>2. open \subseteq {entry} => open' \subseteq {entry'}
        BY <3>2, <4>1
      <4>3. \A d \in Callers : pc'[d] # "send" => pc'[d] = pc[d]
        BY <4>1
      <4>4. QED
        BY <4>1, <4>2, <4>3 DEF Routed
    <3>3. QED
      BY <3>1, <3>2
  <2>5. CASE SendRequest(c)
    BY <2>5 DEF SendRequest, Goto, Routed
  <2>6. CASE SendFails(c)
    BY <2>6 DEF SendFails, Goto, Routed
  <2>7. CASE RemoveTrack(c)
    <3>1. via[c] \in (1 .. sources) \ receiving
      BY <2>7 DEF RemoveTrack, Routed
    <3>2. QED
      BY <2>7, <3>1 DEF RemoveTrack, Goto, Routed
  <2>8. CASE CancelCall(c)
    BY <2>8 DEF CancelCall, Goto, Routed
  <2>9. QED
    BY <1>1, <2>1, <2>2, <2>3, <2>4, <2>5, <2>6, <2>7, <2>8 DEF CallStep
<1>2. CASE RegisterNamespace
  <2>1. /\ sources' = sources + 1 /\ receiving' = receiving \cup {sources + 1}
        /\ UNCHANGED <<map, calls>>
    BY <1>2 DEF RegisterNamespace
  <2>2. /\ sources + 1 \notin 1 .. sources /\ 1 .. sources \subseteq 1 .. sources + 1
        /\ \A c \in Callers : via[c] # sources + 1
    BY <1>0
  <2>3. receiving' = 1 .. sources' => receiving = 1 .. sources
    BY <1>0, <2>1, <2>2
  <2>4. QED
    BY <2>1, <2>2, <2>3 DEF Routed
<1>3. CASE DropNamespace
  BY <1>3 DEF DropNamespace, Routed
<1>4. ASSUME NEW s \in Publishers, TakeRequest(s) PROVE Routed'
  BY <1>4 DEF TakeRequest, Routed
<1>5. ASSUME NEW s \in Publishers, CloseReceiver(s) PROVE Routed'
  BY <1>5 DEF CloseReceiver, Routed
<1>6. CASE RegisterTrack
  BY <1>6 DEF RegisterTrack, Routed
<1>7. CASE OtherChange
  BY <1>7 DEF OtherChange, Routed
<1>8. ASSUME NEW t \in Tracks, DropTrack(t) PROVE Routed'
  BY <1>8 DEF DropTrack, Routed
<1>9. ASSUME NEW t \in Tracks, SendRemoved(t) \/ CloseTrack(t) PROVE Routed'
  BY <1>9 DEF SendRemoved, CloseTrack, Routed
<1>10. ASSUME NEW w \in Followers, FollowerSteps(w) PROVE Routed'
  <2>1. UNCHANGED <<namespace, calls, produced, open, published>> /\ (entry' = entry \/ Closed(entry))
    BY <1>10 DEF FollowerSteps, FollowTracks, SnapshotTracks, PruneListed, PruneClosed, RecvTrackChange, ServeEnds,
                 HandlerEnds, PeerSubscribes
  <2>2. QED
    BY <2>1 DEF Routed, Closed
<1>11. QED
  BY <1>1, <1>2, <1>3, <1>4, <1>5, <1>6, <1>7, <1>8, <1>9, <1>10 DEF TracksNext, FollowerSteps

\* A follower moves alone, tells more and more, and stays aware of it.
LEMMA OneFollowerMoves ==
  ASSUME LocalTracksAssumption, TracksTypes, TracksTold, NEW v \in Followers, FollowerSteps(v), NEW w \in Followers
  PROVE  /\ Aware(w)'
         /\ informed[w] \subseteq informed'[w] /\ passedOver[w] \subseteq passedOver'[w]
         /\ w # v => follower'[w] = follower[w] /\ position'[w] = position[w]
<1> USE DEF TracksTypes, TracksTypeOK
<1>0. Aware(w) /\ Aware(v)
  BY DEF TracksTold
<1>1. CASE FollowTracks(v)
  BY <1>0, <1>1 DEF FollowTracks, Aware
<1>2. CASE SnapshotTracks(v) \/ RecvTrackChange(v)
  <2>1. Does(v) /\ UNCHANGED <<produced, published, peerAsked>>
    BY <1>2, FollowerDoes DEF SnapshotTracks, RecvTrackChange
  <2>2. /\ informed[w] \subseteq informed'[w] /\ passedOver[w] \subseteq passedOver'[w]
        /\ w # v => /\ knownTrack'[w] = knownTrack[w] /\ serving'[w] = serving[w]
                    /\ informed'[w] = informed[w] /\ passedOver'[w] = passedOver[w]
        /\ Aware(v)'
    BY <1>0, <2>1, KeepsWhatItHas
  <2>3. Aware(w)'
    BY <1>0, <2>1, <2>2 DEF Aware
  <2>4. w # v => follower'[w] = follower[w] /\ position'[w] = position[w]
    BY <1>2 DEF SnapshotTracks, RecvTrackChange, AfterList
  <2>5. QED
    BY <2>2, <2>3, <2>4
<1>3. CASE PruneListed(v)
  BY <1>0, <1>3 DEF PruneListed, Aware
<1>4. CASE ServeEnds(v) \/ HandlerEnds(v)
  BY <1>0, <1>4 DEF ServeEnds, HandlerEnds, Aware
<1>5. CASE PeerSubscribes(v)
  <2>1. peerAsked'[w] = "no" => peerAsked[w] = "no"
    BY <1>5 DEF PeerSubscribes
  <2>2. UNCHANGED <<peer, follower, position>>
    BY <1>5 DEF PeerSubscribes
  <2>3. QED
    BY <1>0, <2>1, <2>2 DEF Aware
<1>6. QED
  BY <1>1, <1>2, <1>3, <1>4, <1>5 DEF FollowerSteps

\* Who comes to a track has told or passed it over.
LEMMA ComesTo ==
  ASSUME TracksTypes, NEW w \in Followers, NEW t, PublishTrack(w, t)
  PROVE  t \in informed'[w] \cup passedOver'[w]
BY DEF TracksTypes, TracksTypeOK, PublishTrack

\* Each follower hears of the track in the map, however the others move.
LEMMA EachHears ==
  ASSUME LocalTracksAssumption, TracksTypes, TracksTold, NEW v \in Followers, FollowerSteps(v), entry' = entry,
         entry \in open, entry \in published, NEW k \in Nat, AddedAt(k), \A w \in Followers : Hears(w, k)
  PROVE  \A w \in Followers : Hears(w, k)'
<1> USE DEF TracksTypes, TracksTypeOK
<1>0. /\ entry # 0 /\ ListedTracks = {entry} /\ ListedTracks # {} /\ ~Closed(entry)
      /\ Hears(v, k) /\ Len(trackLog) \in Nat /\ DOMAIN trackLog = 1 .. Len(trackLog)
      /\ informed[v] \subseteq informed'[v] /\ passedOver[v] \subseteq passedOver'[v]
  BY OneFollowerMoves DEF ListedTracks, Closed
<1>1. Hears(v, k)'
  <2>1. CASE FollowTracks(v)
    BY <1>0, <2>1 DEF FollowTracks, Hears
  <2>2. ASSUME PublishTrack(v, entry) PROVE Hears(v, k)'
    BY <2>2, ComesTo DEF Hears
  <2>3. CASE SnapshotTracks(v)
    BY <1>0, <2>2, <2>3 DEF SnapshotTracks
  <2>4. CASE PruneListed(v)
    BY <1>0, <2>4 DEF PruneListed, Hears
  <2>5. CASE RecvTrackChange(v)
    <3>1. CASE Len(trackLog) - position[v] > LogCapacity
      BY <1>0, <2>2, <2>5, <3>1 DEF RecvTrackChange, ResyncTracks
    <3>2. CASE ~(Len(trackLog) - position[v] > LogCapacity)
      <4>1. /\ position[v] + 1 \in DOMAIN trackLog /\ position[v] \in Nat /\ follower[v] = "on"
            /\ ApplyTrackChange(v, trackLog[position[v] + 1])
            /\ position' = [position EXCEPT ![v] = position[v] + 1]
        BY <1>0, <2>5, <3>2 DEF RecvTrackChange
      <4>2. CASE position[v] + 1 = k
        <5>1. PublishTrack(v, entry)
          BY <1>0, <4>1, <4>2 DEF ApplyTrackChange, AddedAt
        <5>2. QED
          BY <2>2, <5>1
      <4>3. CASE position[v] + 1 # k
        <5>1. position[v] < k => position'[v] < k
          BY <4>1, <4>3
        <5>2. QED
          BY <1>0, <4>1, <5>1 DEF Hears
      <4>4. QED
        BY <4>2, <4>3
    <3>3. QED
      BY <3>1, <3>2
  <2>6. CASE ServeEnds(v) \/ HandlerEnds(v) \/ PeerSubscribes(v)
    BY <1>0, <2>6 DEF ServeEnds, HandlerEnds, PeerSubscribes, Hears
  <2>7. QED
    BY <2>1, <2>3, <2>4, <2>5, <2>6 DEF FollowerSteps
<1>2. ASSUME NEW w \in Followers, w # v PROVE Hears(w, k)'
  <2>1. /\ informed[w] \subseteq informed'[w] /\ passedOver[w] \subseteq passedOver'[w]
        /\ follower'[w] = follower[w] /\ position'[w] = position[w]
    BY <1>2, OneFollowerMoves
  <2>2. QED
    BY <2>1 DEF Hears
<1>3. QED
  BY <1>1, <1>2

\* Every step keeps what is told of the tracks.
LEMMA TracksToldStep ==
  ASSUME LocalTracksAssumption, TracksTypes, TracksTold, TracksNext
  PROVE  TracksTold'
<1> USE DEF TracksTypes, TracksTypeOK
<1>0. /\ produced \in Nat /\ Len(trackLog) \in Nat /\ DOMAIN trackLog = 1 .. Len(trackLog)
      /\ 0 \notin published
  OBVIOUS
\* Steps of the calls and of the sources bring no published track into the map.
<1>1. ASSUME UNCHANGED <<published, changes, following>>, entry' \in published => entry' = entry,
             entry \in open' => entry' # entry \/ entry \in open
      PROVE  TracksTold'
  BY <1>1 DEF TracksTold, AddedAt, Aware, Hears
<1>2. ASSUME NEW c \in Callers, CallStep(c) \/ CancelCall(c) PROVE TracksTold'
  <2>1. /\ UNCHANGED <<published, changes, following>>
        /\ entry' = entry \/ entry' = 0 \/ entry' = produced + 1
        /\ open' \subseteq open \cup {produced + 1}
    BY <1>2 DEF CallStep, CancelCall, Look, Prune, PruneClosed, Route, ReserveTrack, SendRequest, SendFails, RemoveTrack
  <2>2. produced + 1 \notin published /\ entry # produced + 1
    BY <1>0
  <2>3. QED
    BY <1>0, <1>1, <2>1, <2>2
<1>3. CASE RegisterNamespace \/ DropNamespace \/ \E s \in Publishers : TakeRequest(s) \/ CloseReceiver(s)
  BY <1>1, <1>3 DEF RegisterNamespace, DropNamespace, TakeRequest, CloseReceiver
<1>4. ASSUME NEW t \in Tracks, CloseTrack(t) PROVE TracksTold'
  BY <1>1, <1>4 DEF CloseTrack
<1>5. ASSUME NEW t \in Tracks, DropTrack(t) PROVE TracksTold'
  BY <1>0, <1>5 DEF DropTrack, TracksTold, Aware
<1>6. ASSUME NEW new \in TrackChange, trackLog' = Append(trackLog, new),
             UNCHANGED <<map, following>>, new.added => new.track \in {0} \cup published
      PROVE  TracksTold'
  <2>1. /\ DOMAIN trackLog' = 1 .. Len(trackLog) + 1
        /\ \A i \in DOMAIN trackLog : trackLog'[i] = trackLog[i]
        /\ \A i \in DOMAIN trackLog' : i \notin DOMAIN trackLog => trackLog'[i] = new
        /\ \A i \in DOMAIN trackLog : i \in DOMAIN trackLog'
    BY <1>0, <1>6
  <2>2. ASSUME NEW k \in Nat, AddedAt(k) PROVE AddedAt(k)'
    BY <1>6, <2>1, <2>2 DEF AddedAt
  <2>3. ASSUME NEW k \in Nat, NEW w \in Followers, Hears(w, k) PROVE Hears(w, k)'
    BY <1>6, <2>3 DEF Hears
  <2>4. \A i \in DOMAIN trackLog' : trackLog'[i].added => trackLog'[i].track \in {0} \cup published'
    BY <1>6, <2>1 DEF TracksTold
  <2>5. \A w \in Followers : Aware(w)'
    BY <1>6 DEF TracksTold, Aware
  <2>6. QED
    BY <1>6, <2>2, <2>3, <2>4, <2>5 DEF TracksTold
<1>7. CASE OtherChange
  <2>1. [added |-> TRUE, track |-> 0] \in TrackChange
    BY DEF TrackChange
  <2>2. QED
    BY <1>6, <1>7, <2>1 DEF OtherChange
<1>8. ASSUME NEW t \in Tracks, SendRemoved(t) PROVE TracksTold'
  <2>1. [added |-> FALSE, track |-> t] \in TrackChange
    BY DEF TrackChange, Tracks
  <2>2. QED
    BY <1>6, <1>8, <2>1 DEF SendRemoved
<1>9. CASE RegisterTrack
  <2> DEFINE addition == [added |-> TRUE, track |-> produced + 1]
  <2>1. /\ trackLog' = Append(trackLog, addition) /\ entry' = produced + 1
        /\ published' = published \cup {produced + 1} /\ UNCHANGED following
        /\ addition.added = TRUE /\ addition.track = produced + 1
    BY <1>9 DEF RegisterTrack
  <2> PICK k \in Nat : k = Len(trackLog) + 1
    BY <1>0
  <2>2. /\ DOMAIN trackLog' = 1 .. k /\ trackLog'[k] = addition /\ k \in 1 .. k
        /\ \A i \in DOMAIN trackLog : trackLog'[i] = trackLog[i]
        /\ \A i \in 1 .. k : i # k => i \in DOMAIN trackLog
    BY <1>0, <2>1
  <2>3. AddedAt(k)'
    BY <2>1, <2>2 DEF AddedAt
  <2> HIDE DEF addition
  <2>4. \A w \in Followers : Hears(w, k)'
    BY <1>0, <2>1 DEF Hears
  <2>5. \A t \in published' : t <= entry'
    <3>1. \A t \in published : t \in 1 .. produced
      OBVIOUS
    <3>2. QED
      BY <1>0, <2>1, <3>1
  <2>6. \A i \in DOMAIN trackLog' : trackLog'[i].added => trackLog'[i].track \in {0} \cup published'
    BY <2>1, <2>2 DEF TracksTold
  <2>7. \A w \in Followers : Aware(w)'
    BY <2>1 DEF TracksTold, Aware
  <2>8. QED
    BY <2>3, <2>4, <2>5, <2>6, <2>7 DEF TracksTold
<1>10. ASSUME NEW v \in Followers, FollowerSteps(v) PROVE TracksTold'
  <2>1. UNCHANGED <<published, open, trackLog>> /\ (entry' = entry \/ entry' = 0)
    BY <1>10 DEF FollowerSteps, FollowTracks, SnapshotTracks, PruneListed, PruneClosed, RecvTrackChange, ServeEnds,
                 HandlerEnds, PeerSubscribes
  <2>2. \A w \in Followers : Aware(w)'
    BY <1>10, OneFollowerMoves
  <2>3. ASSUME entry' \in published'
        PROVE  /\ \A t \in published' : t <= entry'
               /\ \E k \in Nat : AddedAt(k)' /\ (entry' \in open' => \A w \in Followers : Hears(w, k)')
    <3>1. entry' = entry /\ entry \in published
      BY <1>0, <2>1, <2>3
    <3>2. PICK k \in Nat : AddedAt(k) /\ (entry \in open => \A w \in Followers : Hears(w, k))
      BY <3>1 DEF TracksTold
    <3>3. AddedAt(k)'
      BY <2>1, <3>1, <3>2 DEF AddedAt
    <3>4. entry \in open => \A w \in Followers : Hears(w, k)'
      BY <1>10, <3>1, <3>2, EachHears
    <3>5. QED
      BY <2>1, <3>1, <3>3, <3>4 DEF TracksTold
  <2>4. QED
    BY <2>1, <2>2, <2>3 DEF TracksTold
<1>11. QED
  BY <1>2, <1>3, <1>4, <1>5, <1>7, <1>8, <1>9, <1>10 DEF TracksNext, FollowerSteps

\* Every step keeps the invariant of the tracks.
LEMMA TracksStep == LocalTracksAssumption /\ TracksInv /\ [TracksNext]_trackVars => TracksInv'
<1> SUFFICES ASSUME LocalTracksAssumption, TracksInv, [TracksNext]_trackVars PROVE TracksInv'
  OBVIOUS
<1>1. CASE UNCHANGED trackVars
  BY <1>1 DEF trackVars, TracksInv, TracksTypes, TracksTypeOK, Writers, Routed, NoSpuriousNone,
              TracksTold, AddedAt, Hears, Aware
<1>2. CASE TracksNext
  <2>1. Routed' /\ TracksTold'
    BY <1>2, RoutedStep, TracksToldStep DEF TracksInv
  <2>2. TracksTypes' /\ Writers'
    <3> USE DEF TracksInv
    <3>1. ASSUME NEW c \in Callers, CallStep(c) \/ CancelCall(c) PROVE TracksTypes' /\ Writers'
      <4>1. SendRequest(c) => via[c] \in 1 .. sources
        BY DEF SendRequest, Routed
      <4>2. QED
        BY <3>1, <4>1, LookStep, ReserveStep, SendStep, LostStep DEF CallStep
    <3>2. QED
      BY <1>2, <3>1, SourceStep, TakeStep, CloseReceiverStep, PublishStep, FollowerStep DEF TracksNext, FollowerSteps
  <2>3. QED
    BY <2>1, <2>2 DEF TracksInv
<1>3. QED
  BY <1>1, <1>2

\* A registry of tracks that is empty.
LEMMA TracksStart == LocalTracksAssumption /\ TracksInit => TracksInv
<1> SUFFICES ASSUME LocalTracksAssumption, TracksInit PROVE TracksInv
  OBVIOUS
<1>1. /\ \A s \in Publishers : queue[s] = <<>> /\ Len(queue[s]) = 0 /\ Elements(queue[s]) = {} /\ DOMAIN queue[s] = {}
      /\ queue \in [Publishers -> Seq(Nat)] /\ trackLog \in Seq(TrackChange) /\ DOMAIN trackLog = {}
      /\ Len(trackLog) = 0
  BY QueueElements DEF TracksInit
<1>2. TracksTypes
  BY <1>1 DEF TracksInit, TracksTypes, TracksTypeOK, LocalTracksAssumption
<1>3. Writers /\ Routed
  BY <1>1 DEF TracksInit, Writers, Routed, NoSpuriousNone
<1>4. TracksTold
  BY <1>1, <1>2 DEF TracksInit, TracksTold, Aware, TracksTypes, TracksTypeOK
<1>5. QED
  BY <1>2, <1>3, <1>4 DEF TracksInv

\* What the invariant says of the tracks.
LEMMA TracksGive == TracksInv => TracksTypeOK /\ TrackReaches /\ CallersServed
<1> SUFFICES ASSUME TracksInv PROVE TracksTypeOK /\ TrackReaches /\ CallersServed
  OBVIOUS
<1>1. TracksTypeOK
  BY DEF TracksInv, TracksTypes
<1>2. ASSUME NEW w \in Followers, follower[w] = "on", position[w] = Len(trackLog),
             entry \in open, entry \in published, entry \notin informed[w]
      PROVE  entry \in passedOver[w] /\ (peerAsked[w] # "no" \/ \E t \in informed[w] : t < entry)
  <2>1. PICK k \in Nat : AddedAt(k) /\ \A v \in Followers : Hears(v, k)
    BY <1>2 DEF TracksInv, TracksTold
  <2>2. k <= Len(trackLog) /\ Len(trackLog) \in Nat
    BY <2>1 DEF AddedAt, TracksInv, TracksTypes
  <2>3. entry \in passedOver[w]
    BY <1>2, <2>1, <2>2 DEF Hears
  <2>4. ASSUME peerAsked[w] = "no" PROVE \E t \in informed[w] : t < entry
    <3>1. informed[w] # {}
      BY <2>3, <2>4 DEF TracksInv, TracksTold, Aware
    <3>2. \A t \in informed[w] : t <= entry /\ t # entry /\ t \in Nat /\ entry \in Nat
      BY <1>1, <1>2 DEF TracksInv, TracksTold, TracksTypeOK
    <3>3. QED
      BY <3>1, <3>2
  <2>5. QED
    BY <2>3, <2>4
<1>3. CallersServed
  BY DEF TracksInv, Routed, CallersServed, CallersShare
<1>4. QED
  BY <1>1, <1>2, <1>3 DEF TrackReaches

\* The invariant of the tracks holds in every state.
LEMMA TracksAlways == TracksSpec => []TracksInv
<1>1. TracksInit => TracksInv
  BY LocalAssumption, TracksStart
<1>2. TracksInv /\ [TracksNext]_trackVars => TracksInv'
  BY LocalAssumption, TracksStep
<1>3. QED
  BY <1>1, <1>2, PTL DEF TracksSpec

(* A call of get_or_request_track is refused only where nothing covered the  *)
(* track or its source has gone, and callers of one source share a reader,   *)
(* however many there are and wherever each of them stands (local.rs).       *)
THEOREM CallersHold == TracksSpec => []CallersServed
  BY TracksAlways, TracksGive, PTL

(* A SUBSCRIBE_NAMESPACE handler that has received all that was sent knows   *)
(* the namespaces that are listed and has PUBLISHed the track in the map,    *)
(* unless an earlier one of the name or a SUBSCRIBE of the peer was in the   *)
(* way, though it may have lagged and taken the lists again, and whatever    *)
(* changed between the change, its announcement and the list (producer.rs).  *)
THEOREM Converges == LocalSpec => []WatcherConverges
<1> DEFINE Inv == FollowInv /\ TracksInv
<1>1. LocalInit => Inv
  BY LocalAssumption, FollowInit, TracksStart DEF LocalInit
<1>2. Inv /\ [LocalNext]_LocalVars => Inv'
  <2> SUFFICES ASSUME Inv, [LocalNext]_LocalVars PROVE Inv'
    OBVIOUS
  <2>1. [Next]_vars /\ [TracksNext]_trackVars
    BY DEF LocalNext, LocalVars
  <2>2. QED
    BY <2>1, LocalAssumption, FollowStep, TracksStep
<1>3. Inv => WatcherConverges
  BY FollowGives, TracksGive DEF WatcherConverges, LocalTypeOK
<1> HIDE DEF Inv
<1>4. QED
  BY <1>1, <1>2, <1>3, PTL DEF LocalSpec

-----------------------------------------------------------------------------
(* Sums over finite sets                                                   *)

\* A set that has 0, and with every natural the next, has them all.
LEMMA AllNaturals ==
  ASSUME NEW T, 0 \in T, \A n \in Nat : n \in T => n + 1 \in T
  PROVE  Nat \subseteq T
<1> DEFINE R == OpToRel(<, Nat)
<1>1. \A m, n \in Nat : m < n => <<m, n>> \in R
  BY DEF OpToRel
<1>2. IsWellFoundedOn(R, Nat)
  BY NatLessThanWellFounded
<1> HIDE DEF R
<1>3. SUFFICES ASSUME Nat \ T # {} PROVE FALSE
  OBVIOUS
<1>4. PICK n \in Nat \ T : \A m \in Nat \ T : ~ (<<m, n>> \in R)
  BY <1>2, <1>3, WFMin
<1>5. n # 0 /\ n - 1 \in Nat /\ n - 1 < n
  OBVIOUS
<1>6. n - 1 \in T
  BY <1>1, <1>4, <1>5
<1>7. (n - 1) + 1 \in T
  BY <1>5, <1>6
<1>8. QED
  BY <1>7

\* g is the sum of w over every subset of S, taking one element after another.
Picked(s) == CHOOSE x \in s : TRUE
Summed(g, w, S) ==
  g = [s \in SUBSET S |-> IF s = {} THEN 0 ELSE w[Picked(s)] + g[s \ {Picked(s)}]]
TotalOf(w, S) == MapThenSumSet(LAMBDA r : w[r], S)

\* There is such a function on the subsets of a finite set: on those of one element more by one more step.
LEMMA SummedExists ==
  ASSUME NEW S, IsFiniteSet(S), NEW w
  PROVE  \E g : Summed(g, w, S)
<1> DEFINE Small(n) == {s \in SUBSET S : Cardinality(s) <= n}
           Taking(g, s) == IF s = {} THEN 0 ELSE w[Picked(s)] + g[s \ {Picked(s)}]
           T == {n \in Nat : \E g : g = [s \in Small(n) |-> Taking(g, s)]}
<1>1. \A s \in SUBSET S : IsFiniteSet(s) /\ Cardinality(s) \in Nat
  BY FS_Subset, FS_CardinalityType
<1>2. \A s \in SUBSET S : s # {} =>
        Picked(s) \in s /\ s \ {Picked(s)} \in SUBSET S /\ Cardinality(s \ {Picked(s)}) = Cardinality(s) - 1
  BY <1>1, FS_RemoveElement DEF Picked
<1>3. 0 \in T
  <2>1. \A s \in Small(0) : s = {}
    BY <1>1, FS_EmptySet
  <2>2. [s \in Small(0) |-> 0] = [s \in Small(0) |-> Taking([t \in Small(0) |-> 0], s)]
    BY <2>1
  <2>3. QED
    BY <2>2
<1>4. ASSUME NEW n \in Nat, n \in T PROVE n + 1 \in T
  <2>1. PICK g : g = [s \in Small(n) |-> Taking(g, s)]
    BY <1>4
  <2> DEFINE h == [s \in Small(n + 1) |-> Taking(g, s)]
  <2>0. \A s \in Small(n) : g[s] = Taking(g, s)
    BY <2>1, Zenon
  <2>a. Small(n) \subseteq Small(n + 1)
    BY <1>1
  <2>b. \A s \in Small(n + 1) : h[s] = Taking(g, s)
    BY Zenon
  <2>2. \A s \in Small(n) : s \in Small(n + 1) /\ h[s] = g[s]
    BY <2>0, <2>a, <2>b, Zenon
  <2>3. \A s \in Small(n + 1) : s # {} => s \ {Picked(s)} \in Small(n)
    BY <1>1, <1>2
  <2>4. \A s \in Small(n + 1) : h[s] = Taking(h, s)
    BY <2>2, <2>3
  <2>5. h = [s \in Small(n + 1) |-> Taking(h, s)]
    BY <2>4
  <2>6. n + 1 \in Nat
    OBVIOUS
  <2>7. QED
    BY <2>5, <2>6, Zenon
<1>5. Cardinality(S) \in T
  <2> HIDE DEF T
  <2>1. QED
    BY <1>3, <1>4, AllNaturals, FS_CardinalityType
<1>6. Small(Cardinality(S)) = SUBSET S
  BY <1>1, FS_Subset
<1>7. QED
  BY <1>5, <1>6 DEF Summed

\* What such a function gives, step by step.
LEMMA SummedStep ==
  ASSUME NEW g, NEW w, NEW S, Summed(g, w, S)
  PROVE  /\ g[{}] = 0
         /\ \A s \in SUBSET S : s # {} => g[s] = w[Picked(s)] + g[s \ {Picked(s)}]
BY DEF Summed

\* It gives naturals, and the order does not matter.
LEMMA SummedAny ==
  ASSUME NEW g, NEW w, NEW S, IsFiniteSet(S), Summed(g, w, S), \A x \in S : w[x] \in Nat
  PROVE  \A s \in SUBSET S : g[s] \in Nat /\ \A x \in s : g[s] = w[x] + g[s \ {x}]
<1> DEFINE Right(s) == g[s] \in Nat /\ \A x \in s : g[s] = w[x] + g[s \ {x}]
           T == {n \in Nat : \A s \in SUBSET S : Cardinality(s) <= n => Right(s)}
<1>0. g[{}] = 0 /\ \A s \in SUBSET S : s # {} => g[s] = w[Picked(s)] + g[s \ {Picked(s)}]
  BY SummedStep
<1>1. \A s \in SUBSET S : IsFiniteSet(s) /\ Cardinality(s) \in Nat
  BY FS_Subset, FS_CardinalityType
<1>2. \A s \in SUBSET S, x \in S : x \in s => Cardinality(s \ {x}) = Cardinality(s) - 1
  BY <1>1, FS_RemoveElement
<1>3. 0 \in T
  <2>1. \A s \in SUBSET S : Cardinality(s) <= 0 => s = {}
    BY <1>1, FS_EmptySet
  <2>2. Right({})
    BY <1>0
  <2>3. QED
    BY <2>1, <2>2
<1>4. ASSUME NEW n \in Nat, n \in T PROVE n + 1 \in T
  <2>0. Right({})
    BY <1>0
  <2>a. SUFFICES ASSUME NEW s \in SUBSET S, Cardinality(s) <= n + 1 PROVE Right(s)
    OBVIOUS
  <2>b. CASE s = {}
    BY <2>0, <2>b, Zenon
  <2>1. SUFFICES ASSUME s # {} PROVE Right(s)
    BY <2>b, Zenon
  <2> DEFINE c == Picked(s)
  <2>2. c \in s /\ g[s] = w[c] + g[s \ {c}]
    BY <1>0, <2>1 DEF Picked
  <2> HIDE DEF c
  <2>3. \A x \in s : s \ {x} \in SUBSET S /\ Right(s \ {x})
    BY <1>1, <1>2, <1>4, <2>a
  <2>4. ASSUME NEW x \in s, x # c PROVE g[s] = w[x] + g[s \ {x}]
    <3>1. x \in s \ {c} /\ c \in s \ {x} /\ (s \ {c}) \ {x} = (s \ {x}) \ {c}
      BY <2>2, <2>4
    <3>2. g[s \ {c}] = w[x] + g[(s \ {c}) \ {x}] /\ g[s \ {x}] = w[c] + g[(s \ {x}) \ {c}]
      BY <2>2, <2>3, <3>1
    <3>a. s \ {c} \in SUBSET S /\ c \in S /\ x \in S /\ (s \ {c}) \ {x} \in SUBSET S
      BY <2>2
    <3>b. Cardinality(s \ {c}) = Cardinality(s) - 1
      BY <1>2, <2>2, <3>a
    <3>c. Cardinality((s \ {c}) \ {x}) = Cardinality(s \ {c}) - 1
      BY <1>2, <3>1, <3>a
    <3>3. (s \ {c}) \ {x} \in SUBSET S /\ Cardinality((s \ {c}) \ {x}) <= n
      BY <1>1, <2>a, <3>a, <3>b, <3>c
    <3>4. g[(s \ {c}) \ {x}] \in Nat /\ w[x] \in Nat /\ w[c] \in Nat
      BY <1>4, <2>2, <3>3
    <3>5. g[s] = w[c] + (w[x] + g[(s \ {c}) \ {x}]) /\ g[s \ {x}] = w[c] + g[(s \ {c}) \ {x}]
      BY <2>2, <3>1, <3>2
    <3>6. \A a, b, d \in Nat : a + (b + d) = b + (a + d)
      OBVIOUS
    <3>7. QED
      BY <3>4, <3>5, <3>6
  <2>5. g[s] \in Nat
    BY <2>2, <2>3
  <2>6. QED
    BY <2>2, <2>4, <2>5
<1>5. Cardinality(S) \in T
  <2> HIDE DEF T
  <2>1. QED
    BY <1>3, <1>4, AllNaturals, FS_CardinalityType
<1>6. \A s \in SUBSET S : Cardinality(s) <= Cardinality(S)
  BY FS_Subset
<1>7. QED
  BY <1>5, <1>6

\* Two of them agree where their weights do.
LEMMA SummedAgree ==
  ASSUME NEW g, NEW w, NEW S, NEW h, NEW v, NEW Q, IsFiniteSet(S),
         Summed(g, w, S), Summed(h, v, Q), S \subseteq Q, \A x \in S : w[x] = v[x]
  PROVE  \A s \in SUBSET S : g[s] = h[s]
<1> DEFINE T == {n \in Nat : \A s \in SUBSET S : Cardinality(s) <= n => g[s] = h[s]}
<1>0. g[{}] = 0 /\ h[{}] = 0
  BY SummedStep
<1>1. \A s \in SUBSET S : IsFiniteSet(s) /\ Cardinality(s) \in Nat
  BY FS_Subset, FS_CardinalityType
<1>2. \A s \in SUBSET S : s # {} =>
        Picked(s) \in s /\ s \ {Picked(s)} \in SUBSET S /\ Cardinality(s \ {Picked(s)}) = Cardinality(s) - 1
  BY <1>1, FS_RemoveElement DEF Picked
<1>3. 0 \in T
  <2>1. \A s \in SUBSET S : Cardinality(s) <= 0 => s = {}
    BY <1>1, FS_EmptySet
  <2>2. QED
    BY <2>1, SummedStep
<1>4. ASSUME NEW n \in Nat, n \in T PROVE n + 1 \in T
  <2>1. SUFFICES ASSUME NEW s \in SUBSET S, Cardinality(s) <= n + 1, s # {} PROVE g[s] = h[s]
    BY <1>0
  <2>2. g[s \ {Picked(s)}] = h[s \ {Picked(s)}] /\ w[Picked(s)] = v[Picked(s)]
    BY <1>1, <1>2, <1>4, <2>1
  <2>3. s \in SUBSET Q
    OBVIOUS
  <2>4. QED
    BY <2>1, <2>2, <2>3, SummedStep
<1>5. Cardinality(S) \in T
  <2> HIDE DEF T
  <2>1. QED
    BY <1>3, <1>4, AllNaturals, FS_CardinalityType
<1>6. \A s \in SUBSET S : Cardinality(s) <= Cardinality(S)
  BY FS_Subset
<1>7. QED
  BY <1>5, <1>6

\* What MapThenSumSet computes, of a function and of the costs of objects.
LEMMA TotalIsSummed ==
  ASSUME NEW w, NEW S, IsFiniteSet(S)
  PROVE  \E g : Summed(g, w, S) /\ TotalOf(w, S) = g[S]
<1> DEFINE h == CHOOSE g : Summed(g, w, S)
<1>1. Summed(h, w, S)
  BY SummedExists, Zenon
<1>2. TotalOf(w, S) = h[S]
  BY DEF TotalOf, MapThenSumSet, MapThenFoldSet, Summed, Picked
<1>3. QED
  BY <1>1, <1>2

\* What Cost computes is such a sum.
LEMMA CostIsSummed ==
  ASSUME NEW S, IsFiniteSet(S)
  PROVE  \E g : Summed(g, [o \in S |-> o.cost], S) /\ Cost(S) = g[S]
<1> DEFINE Is(g) == g = [s \in SUBSET S |-> IF s = {} THEN 0 ELSE Picked(s).cost + g[s \ {Picked(s)}]]
           h == CHOOSE g : Is(g)
<1>1. PICK g : Summed(g, [o \in S |-> o.cost], S)
  BY SummedExists
<1>2. \A s \in SUBSET S : s # {} => [o \in S |-> o.cost][Picked(s)] = Picked(s).cost
  BY DEF Picked
<1>3. \A f : Summed(f, [o \in S |-> o.cost], S) <=> Is(f)
  BY <1>2 DEF Summed
<1>4. Is(h)
  BY <1>1, <1>3, Zenon
<1>5. Cost(S) = h[S]
  BY DEF Cost, MapThenSumSet, MapThenFoldSet, Picked
<1>6. QED
  BY <1>3, <1>4, <1>5

\* The sum changes as its weights do.
LEMMA TotalChanges ==
  ASSUME NEW S, IsFiniteSet(S), NEW w \in [S -> Nat], NEW v \in [S -> Nat], NEW x \in S,
         \A y \in S \ {x} : v[y] = w[y]
  PROVE  TotalOf(w, S) \in Nat /\ w[x] <= TotalOf(w, S) /\ TotalOf(v, S) = TotalOf(w, S) - w[x] + v[x]
<1>2. PICK g : Summed(g, w, S) /\ TotalOf(w, S) = g[S]
  BY TotalIsSummed
<1>3. PICK h : Summed(h, v, S) /\ TotalOf(v, S) = h[S]
  BY TotalIsSummed
<1>4. IsFiniteSet(S \ {x}) /\ S \ {x} \in SUBSET S /\ S \in SUBSET S
  BY FS_Subset
<1>5. PICK f : Summed(f, w, S \ {x})
  BY <1>4, SummedExists
<1>6. f[S \ {x}] = g[S \ {x}] /\ f[S \ {x}] = h[S \ {x}]
  BY <1>2, <1>3, <1>4, <1>5, SummedAgree
<1>a. \A y \in S : w[y] \in Nat
  OBVIOUS
<1>b. \A s \in SUBSET S : g[s] \in Nat /\ \A y \in s : g[s] = w[y] + g[s \ {y}]
  BY <1>2, <1>a, SummedAny
<1>7. g[S] \in Nat /\ g[S] = w[x] + g[S \ {x}] /\ g[S \ {x}] \in Nat
  BY <1>4, <1>b
<1>8. h[S] = v[x] + h[S \ {x}]
  BY <1>3, <1>4, SummedAny
<1>9. w[x] \in Nat /\ v[x] \in Nat
  OBVIOUS
<1>10. QED
  <2>1. \A a, b, m \in Nat : a + b \in Nat /\ a <= a + b /\ m + b = (a + b) - a + m
    OBVIOUS
  <2>2. TotalOf(w, S) = w[x] + g[S \ {x}] /\ TotalOf(v, S) = v[x] + g[S \ {x}]
    BY <1>2, <1>3, <1>6, <1>7, <1>8
  <2>3. QED
    BY <1>7, <1>9, <2>1, <2>2

\* Objects with their costs.
Costly(S) == IsFiniteSet(S) /\ \A o \in S : o.cost \in Nat

\* The cost of a set with an object is that without it and the object's.
LEMMA CostWithout ==
  ASSUME NEW S, Costly(S), NEW x \in S
  PROVE  Cost(S) = x.cost + Cost(S \ {x}) /\ Cost(S \ {x}) \in Nat
<1> DEFINE w == [o \in S |-> o.cost]
           v == [o \in S \ {x} |-> o.cost]
<1>1. IsFiniteSet(S) /\ IsFiniteSet(S \ {x}) /\ S \ {x} \in SUBSET S /\ S \in SUBSET S
  BY FS_Subset DEF Costly
<1>2. w[x] = x.cost /\ (\A o \in S : w[o] \in Nat) /\ (\A o \in S \ {x} : v[o] \in Nat /\ v[o] = w[o])
  BY DEF Costly
<1>3. PICK g : Summed(g, w, S) /\ Cost(S) = g[S]
  BY <1>1, CostIsSummed
<1>4. PICK h : Summed(h, v, S \ {x}) /\ Cost(S \ {x}) = h[S \ {x}]
  BY <1>1, CostIsSummed
<1> HIDE DEF w, v
<1>5. h[S \ {x}] = g[S \ {x}]
  BY <1>1, <1>2, <1>3, <1>4, SummedAgree
<1>6. \A s \in SUBSET S : g[s] \in Nat /\ \A y \in s : g[s] = w[y] + g[s \ {y}]
  BY <1>1, <1>2, <1>3, SummedAny
<1>7. QED
  BY <1>1, <1>2, <1>3, <1>4, <1>5, <1>6

\* No objects cost nothing, and every finite set has a cost.
LEMMA CostOfNone == Cost({}) = 0
<1>1. IsFiniteSet({})
  BY FS_EmptySet
<1>2. PICK g : Summed(g, [o \in {} |-> o.cost], {}) /\ Cost({}) = g[{}]
  BY <1>1, CostIsSummed
<1>3. QED
  BY <1>2, SummedStep

\* A cost is a natural.
LEMMA CostIsNatural == ASSUME NEW S, Costly(S) PROVE Cost(S) \in Nat
<1>1. CASE S = {}
  BY <1>1, CostOfNone
<1>2. CASE S # {}
  <2>1. PICK x \in S : TRUE
    BY <1>2
  <2>2. x.cost \in Nat
    BY DEF Costly
  <2>3. Cost(S) = x.cost + Cost(S \ {x}) /\ Cost(S \ {x}) \in Nat
    BY CostWithout, Zenon
  <2>4. QED
    BY <2>2, <2>3
<1>3. QED
  BY <1>1, <1>2

\* A new object adds its cost.
LEMMA CostWith ==
  ASSUME NEW S, Costly(S), NEW x, x \notin S, x.cost \in Nat
  PROVE  Cost(S \cup {x}) = Cost(S) + x.cost /\ Costly(S \cup {x})
<1>1. Costly(S \cup {x}) /\ (S \cup {x}) \ {x} = S /\ x \in S \cup {x}
  BY FS_AddElement DEF Costly
<1>2. Cost(S \cup {x}) = x.cost + Cost(S) /\ Cost(S) \in Nat
  BY <1>1, CostWithout
<1>3. QED
  BY <1>1, <1>2

\* What is taken out of a set takes its cost along.
LEMMA CostLess ==
  ASSUME NEW S, Costly(S), NEW G \in SUBSET S
  PROVE  /\ Costly(G) /\ Costly(S \ G) /\ Cost(G) \in Nat /\ Cost(S \ G) \in Nat
         /\ Cost(S \ G) = Cost(S) - Cost(G) /\ Cost(G) <= Cost(S)
<1> DEFINE T == {n \in Nat : \A H \in SUBSET S : Cardinality(H) = n => Cost(S) = Cost(S \ H) + Cost(H)}
<1>0. \A H \in SUBSET S : Costly(H) /\ Costly(S \ H) /\ IsFiniteSet(H) /\ Cardinality(H) \in Nat
  BY FS_Subset, FS_CardinalityType DEF Costly
<1>1. \A H \in SUBSET S : Cost(H) \in Nat /\ Cost(S \ H) \in Nat
  BY <1>0, CostIsNatural
<1>2. 0 \in T
  <2>1. \A H \in SUBSET S : Cardinality(H) = 0 => H = {}
    BY <1>0, FS_EmptySet
  <2>2. S \ {} = S /\ {} \in SUBSET S
    OBVIOUS
  <2>3. Cost(S) = Cost(S \ {}) + Cost({})
    BY <1>1, <2>2, CostOfNone
  <2>4. QED
    BY <2>1, <2>3
<1>3. ASSUME NEW n \in Nat, n \in T PROVE n + 1 \in T
  <2>1. SUFFICES ASSUME NEW H \in SUBSET S, Cardinality(H) = n + 1 PROVE Cost(S) = Cost(S \ H) + Cost(H)
    OBVIOUS
  <2>2. PICK x \in H : TRUE
    BY <1>0, <2>1, FS_EmptySet
  <2>a. Cardinality(H \ {x}) = Cardinality(H) - 1
    BY <1>0, FS_RemoveElement
  <2>3. H \ {x} \in SUBSET S /\ Cardinality(H \ {x}) = n
    BY <2>1, <2>a
  <2>4. Cost(S) = Cost(S \ (H \ {x})) + Cost(H \ {x})
    BY <1>3, <2>3
  <2>5. Cost(H) = x.cost + Cost(H \ {x})
    BY <1>0, CostWithout
  <2>6. (S \ (H \ {x})) \ {x} = S \ H /\ x \in S \ (H \ {x}) /\ x.cost \in Nat
    BY DEF Costly
  <2>7. Cost(S \ (H \ {x})) = x.cost + Cost(S \ H)
    BY <1>0, <2>3, <2>6, CostWithout
  <2>8. Cost(S \ H) \in Nat /\ Cost(H \ {x}) \in Nat /\ x.cost \in Nat
    BY <1>1, <2>3, <2>6
  <2>9. QED
    BY <2>4, <2>5, <2>7, <2>8
<1>4. Cardinality(G) \in T
  <2>1. Cardinality(G) \in Nat
    BY <1>0
  <2> HIDE DEF T
  <2>2. QED
    BY <1>2, <1>3, <2>1, AllNaturals
<1>5. Cost(S) = Cost(S \ G) + Cost(G)
  BY <1>4
<1>6. Costly(G) /\ Costly(S \ G) /\ Cost(G) \in Nat /\ Cost(S \ G) \in Nat
  BY <1>0, <1>1, Zenon
<1>7. QED
  BY <1>5, <1>6

-----------------------------------------------------------------------------
(* Locations in order                                                      *)

Locations == Nat \X Nat

\* Locations are in one order, and in the order of the response.
LEMMA BeforeIsOrder ==
  /\ \A a \in Locations : ~Before(a, a)
  /\ \A a, b \in Locations : a = b \/ Before(a, b) \/ Before(b, a)
  /\ \A a, b, c \in Locations : Before(a, b) /\ Before(b, c) => Before(a, c)
BY DEF Locations, Before

\* The order of the response is a total order too.
LEMMA RespIsOrder ==
  /\ \A a \in Locations : ~RespBefore(a, a)
  /\ \A a, b \in Locations : a = b \/ RespBefore(a, b) \/ RespBefore(b, a)
  /\ \A a, b, c \in Locations : RespBefore(a, b) /\ RespBefore(b, c) => RespBefore(a, c)
<1>1. CASE ask.order = "Ascending"
  BY <1>1 DEF Locations, RespBefore
<1>2. CASE ask.order # "Ascending"
  BY <1>2 DEF Locations, RespBefore
<1>3. QED
  BY <1>1, <1>2

\* R is a total order of S.
TotalOn(R, S) ==
  /\ \A a, b \in S : a = b \/ <<a, b>> \in R \/ <<b, a>> \in R
  /\ \A a, b, c \in S : <<a, b>> \in R /\ <<b, c>> \in R => <<a, c>> \in R

\* A finite set with a total order has a first element.
LEMMA FirstOf ==
  ASSUME NEW S, IsFiniteSet(S), S # {}, NEW R, TotalOn(R, S)
  PROVE  \E a \in S : \A b \in S \ {a} : <<a, b>> \in R
<1> USE DEF TotalOn
<1> DEFINE Has1(s) == \E a \in s : \A b \in s \ {a} : <<a, b>> \in R
           T == {n \in Nat : \A s \in SUBSET S : s # {} /\ Cardinality(s) <= n => Has1(s)}
<1>1. \A s \in SUBSET S : IsFiniteSet(s) /\ Cardinality(s) \in Nat
  BY FS_Subset, FS_CardinalityType
<1>2. 0 \in T
  <2>1. \A s \in SUBSET S : Cardinality(s) <= 0 => s = {}
    BY <1>1, FS_EmptySet
  <2>2. QED
    BY <2>1
<1>3. ASSUME NEW n \in Nat, n \in T PROVE n + 1 \in T
  <2>1. SUFFICES ASSUME NEW s \in SUBSET S, s # {}, Cardinality(s) <= n + 1 PROVE Has1(s)
    OBVIOUS
  <2>2. PICK x \in s : TRUE
    BY <2>1
  <2>3. CASE s \ {x} = {}
    BY <2>3
  <2>4. CASE s \ {x} # {}
    <3>1. Cardinality(s \ {x}) = Cardinality(s) - 1
      BY <1>1, FS_RemoveElement
    <3>2. s \ {x} \in SUBSET S /\ Cardinality(s \ {x}) <= n
      BY <1>1, <2>1, <3>1
    <3>3. PICK a \in s \ {x} : \A b \in (s \ {x}) \ {a} : <<a, b>> \in R
      BY <1>3, <2>4, <3>2
    <3>4. CASE <<a, x>> \in R
      BY <3>3, <3>4
    <3>5. CASE <<x, a>> \in R
      BY <3>3, <3>5
    <3>6. QED
      BY <3>4, <3>5
  <2>5. QED
    BY <2>3, <2>4
<1>4. Cardinality(S) \in T
  <2> HIDE DEF T
  <2>1. QED
    BY <1>2, <1>3, AllNaturals, FS_CardinalityType
<1>5. QED
  BY <1>4

\* How many locations of S come before one.
Rank(S, l) == Cardinality({m \in S : RespBefore(m, l)})

\* The rank of a location grows with the order of the response.
LEMMA RankGrows ==
  ASSUME NEW S, IsFiniteSet(S), S \subseteq Locations
  PROVE  /\ \A l \in S : Rank(S, l) \in 0 .. Cardinality(S) - 1
         /\ \A l, m \in S : RespBefore(l, m) => Rank(S, l) < Rank(S, m)
<1> DEFINE Up(l) == {m \in S : RespBefore(m, l)}
<1>1. \A l \in S : /\ IsFiniteSet(Up(l)) /\ Cardinality(Up(l)) \in Nat /\ l \notin Up(l)
                   /\ Cardinality(Up(l) \cup {l}) = Cardinality(Up(l)) + 1
                   /\ IsFiniteSet(Up(l) \cup {l}) /\ Up(l) \cup {l} \subseteq S
  <2>1. SUFFICES ASSUME NEW l \in S
        PROVE  /\ IsFiniteSet(Up(l)) /\ Cardinality(Up(l)) \in Nat /\ l \notin Up(l)
               /\ Cardinality(Up(l) \cup {l}) = Cardinality(Up(l)) + 1
               /\ IsFiniteSet(Up(l) \cup {l}) /\ Up(l) \cup {l} \subseteq S
    OBVIOUS
  <2>2. IsFiniteSet(Up(l)) /\ Cardinality(Up(l)) \in Nat /\ Up(l) \subseteq S
    BY FS_Subset, FS_CardinalityType
  <2>3. l \notin Up(l)
    BY RespIsOrder
  <2> HIDE DEF Up
  <2>4. QED
    BY <2>2, <2>3, FS_AddElement
<1>2. \A l \in S : Rank(S, l) = Cardinality(Up(l))
  BY DEF Rank
<1>3. \A l, m \in S : RespBefore(l, m) => Up(l) \cup {l} \subseteq Up(m)
  BY RespIsOrder
<1> HIDE DEF Up
<1>4. ASSUME NEW l \in S PROVE Rank(S, l) \in 0 .. Cardinality(S) - 1
  <2>1. Cardinality(Up(l) \cup {l}) <= Cardinality(S) /\ Cardinality(S) \in Nat
    BY <1>1, FS_Subset, FS_CardinalityType
  <2>2. QED
    BY <1>1, <1>2, <2>1
<1>5. ASSUME NEW l \in S, NEW m \in S, RespBefore(l, m) PROVE Rank(S, l) < Rank(S, m)
  <2>1. IsFiniteSet(Up(m)) /\ Up(l) \cup {l} \in SUBSET Up(m)
    BY <1>1, <1>3, <1>5
  <2>2. Cardinality(Up(l) \cup {l}) <= Cardinality(Up(m))
    BY <2>1, FS_Subset
  <2>3. Rank(S, l) = Cardinality(Up(l)) /\ Rank(S, m) = Cardinality(Up(m))
    BY <1>2
  <2>4. Cardinality(Up(l)) \in Nat /\ Cardinality(Up(m)) \in Nat
        /\ Cardinality(Up(l) \cup {l}) = Cardinality(Up(l)) + 1
    BY <1>1
  <2>5. QED
    BY <2>2, <2>3, <2>4
<1>6. QED
  BY <1>4, <1>5

\* Every rank is taken.
LEMMA RankTaken ==
  ASSUME NEW S, IsFiniteSet(S), S \subseteq Locations
  PROVE  \A i \in 1 .. Cardinality(S) : \E l \in S : Rank(S, l) = i - 1
<1> DEFINE n == Cardinality(S)
           N == 0 .. n - 1
           f == [l \in S |-> Rank(S, l)]
           I == {f[l] : l \in S}
<1>1. n \in Nat
  BY FS_CardinalityType
<1>2. \A l \in S : Rank(S, l) \in N
  BY RankGrows
<1>3. \A l, m \in S : Rank(S, l) = Rank(S, m) => l = m
  <2>1. SUFFICES ASSUME NEW l \in S, NEW m \in S, l # m PROVE Rank(S, l) # Rank(S, m)
    OBVIOUS
  <2>2. RespBefore(l, m) \/ RespBefore(m, l)
    BY <2>1, RespIsOrder
  <2>3. Rank(S, l) \in Int /\ Rank(S, m) \in Int
    BY <1>1, <1>2
  <2>4. Rank(S, l) < Rank(S, m) \/ Rank(S, m) < Rank(S, l)
    BY <2>2, RankGrows
  <2>5. QED
    BY <2>3, <2>4
<1>4. f \in Bijection(S, I)
  BY <1>3 DEF Bijection, Injection, Surjection, IsInjective
<1>5. IsFiniteSet(I) /\ Cardinality(I) = n
  BY <1>4, FS_Bijection DEF ExistsBijection
<1>6. IsFiniteSet(N) /\ Cardinality(N) = n
  BY <1>1, FS_Interval
<1>7. I \subseteq N
  BY <1>2
<1>8. I = N
  BY <1>5, <1>6, <1>7, FS_Subset
<1>9. QED
  BY <1>1, <1>8

\* InOrder lists a set, in the order of the response.
LEMMA InOrderLists ==
  ASSUME NEW S, IsFiniteSet(S), S \subseteq Locations
  PROVE  /\ InOrder(S) \in Seq(Locations) /\ DOMAIN InOrder(S) = 1 .. Cardinality(S)
         /\ Range(InOrder(S)) = S
         /\ \A i, j \in DOMAIN InOrder(S) : i < j => RespBefore(InOrder(S)[i], InOrder(S)[j])
<1> DEFINE n == Cardinality(S)
           s == InOrder(S)
<1>1. n \in Nat
  BY FS_CardinalityType
<1>2. s = [i \in 1 .. n |-> CHOOSE l \in S : Rank(S, l) = i - 1]
  BY DEF InOrder, Rank
<1> HIDE DEF s
<1>3. \A i \in 1 .. n : s[i] \in S /\ Rank(S, s[i]) = i - 1
  BY <1>2, RankTaken
<1>4. s \in [1 .. n -> Locations] /\ DOMAIN s = 1 .. n
  BY <1>2, <1>3
<1>5. s \in Seq(Locations)
  BY <1>1, <1>4, SeqDef
<1>6. ASSUME NEW i \in 1 .. n, NEW j \in 1 .. n, i < j PROVE RespBefore(s[i], s[j])
  <2>1. s[i] # s[j] /\ ~RespBefore(s[j], s[i])
    BY <1>1, <1>3, <1>6, RankGrows
  <2>2. QED
    BY <1>3, <2>1, RespIsOrder
<1>7. S \subseteq Range(s)
  <2>1. SUFFICES ASSUME NEW l \in S PROVE \E i \in 1 .. n : s[i] = l
    BY <1>4 DEF Range
  <2>2. Rank(S, l) + 1 \in 1 .. n
    BY <1>1, RankGrows
  <2>3. Rank(S, s[Rank(S, l) + 1]) = Rank(S, l) /\ s[Rank(S, l) + 1] \in S
    <3>1. Rank(S, l) \in Int
      BY <1>1, RankGrows
    <3>2. QED
      BY <1>3, <2>2, <3>1
  <2>4. s[Rank(S, l) + 1] = l
    <3>1. \A m \in S : RespBefore(m, l) \/ RespBefore(l, m) => Rank(S, m) # Rank(S, l)
      BY <1>1, RankGrows
    <3>2. QED
      BY <2>3, <3>1, RespIsOrder
  <2>5. QED
    BY <2>2, <2>4
<1>8. Range(s) = S
  BY <1>3, <1>4, <1>7 DEF Range
<1>9. QED
  BY <1>4, <1>5, <1>6, <1>8 DEF s

-----------------------------------------------------------------------------
(* What is retained                                                        *)

Inserts == [object : RetainedObjects, older : Nat, stage : {"trying", "trimming"}, had : BOOLEAN]
RetentionTypes ==
  /\ rcase \in RetentionCases
  /\ written \in [Keys -> Nat] /\ \A k \in Keys : written[k] <= Len(rcase.objects[k])
  /\ fed \in [Registrations -> SUBSET Nat]
  /\ \A r \in Registrations : fed[r] \subseteq DOMAIN rcase.objects[rcase.key[r]]
  /\ inserting \in [Registrations -> {NoInsert} \cup Inserts]
  /\ groups \in [Registrations -> SUBSET RetainedObjects]
  /\ arrival \in [Registrations -> Seq(Nat)]
  /\ bytes \in [Registrations -> Nat] /\ usedBytes \in Nat
  /\ table \in [Keys -> Registrations \cup {NoTrack}]
  /\ guard \in [Registrations -> {"none", "held", "dropped", "freed"}]
  /\ stage \in {"start", "found", "planning", "opening", "answered", "rejected", "closed"}
  /\ track \in Registrations \cup {NoTrack}

\* The objects of its track that a registration may have.
OutOf(r) == Range(Published(rcase.key[r]))

(* An insert that tries has its object still to add, and knows how many      *)
(* groups it may evict before it comes to its own.                           *)
RoomInv(r) ==
  /\ IsFiniteSet(groups[r]) /\ groups[r] \subseteq OutOf(r)
  /\ bytes[r] = Cost(groups[r]) /\ bytes[r] <= rcase.trackBytes
  /\ Range(arrival[r]) = {o.group : o \in groups[r]} /\ IsInjective(arrival[r])
  /\ Len(arrival[r]) <= rcase.groups + (IF inserting[r].stage = "trimming" THEN 1 ELSE 0)
  /\ inserting[r].stage = "trying" =>
       /\ inserting[r].object \in OutOf(r) /\ \A o \in groups[r] : At(o) # At(inserting[r].object)
       /\ inserting[r].had => /\ inserting[r].older < Len(arrival[r])
                              /\ arrival[r][inserting[r].older + 1] = inserting[r].object.group
       /\ ~inserting[r].had => inserting[r].older = Len(arrival[r])
BudgetInv == usedBytes = TotalOf(bytes, Registrations) /\ usedBytes <= rcase.totalBytes

\* Registrations come one after the other, and a track is found by a registration of its own.
GuardInv ==
  /\ \A r, s \in Registrations : s < r /\ guard[r] # "none" => guard[s] # "none"
  /\ \A k \in Keys : table[k] # NoTrack => rcase.key[table[k]] = k
  /\ \A r \in Registrations :
       (/\ guard[r] = "held"
        /\ \A s \in Registrations : r < s /\ rcase.key[s] = rcase.key[r] => guard[s] = "none")
         => table[rcase.key[r]] = r

CreatedInv == rcase \in RetentionCases /\ created \in [Keys -> SUBSET Nat]
RetainedInv == RetentionTypes /\ BudgetInv /\ GuardInv /\ \A r \in Registrations : RoomInv(r)

\* What a case has.
LEMMA CaseFacts ==
  ASSUME rcase \in RetentionCases
  PROVE  /\ Len(rcase.objects) \in Nat /\ Keys = 1 .. Len(rcase.objects) /\ Len(rcase.key) \in Nat
         /\ Registrations = 1 .. Len(rcase.key) /\ IsFiniteSet(Registrations)
         /\ Registrations \subseteq Nat \ {0}
         /\ \A r \in Registrations : rcase.key[r] \in Keys
         /\ \A k \in Keys : rcase.objects[k] \in Seq(RetainedObjects)
         /\ rcase.groups \in Nat /\ rcase.trackBytes \in Nat /\ rcase.totalBytes \in Nat
         /\ ask.key \in {NoTrack} \cup Keys /\ ask.start \in Locations /\ ask.end \in Locations
<1>1. /\ rcase.objects \in Seq(Seq(RetainedObjects)) /\ rcase.key \in Seq(DOMAIN rcase.objects)
      /\ rcase.groups \in Nat /\ rcase.trackBytes \in Nat /\ rcase.totalBytes \in Nat
      /\ rcase.ask \in [key : {0} \cup DOMAIN rcase.objects, start : Nat \X Nat, end : Nat \X Nat,
                        order : {"Ascending", "Descending"}, upstream : BOOLEAN]
  BY RetentionAssumption
<1>2. /\ Len(rcase.objects) \in Nat /\ DOMAIN rcase.objects = 1 .. Len(rcase.objects)
      /\ Len(rcase.key) \in Nat /\ DOMAIN rcase.key = 1 .. Len(rcase.key)
      /\ \A r \in DOMAIN rcase.key : rcase.key[r] \in DOMAIN rcase.objects
      /\ \A k \in DOMAIN rcase.objects : rcase.objects[k] \in Seq(RetainedObjects)
  BY <1>1
<1>3. IsFiniteSet(1 .. Len(rcase.key))
  BY <1>2, FS_Interval
<1>4. /\ ask.key \in {NoTrack} \cup DOMAIN rcase.objects /\ ask.start \in Locations
      /\ ask.end \in Locations
  BY <1>1 DEF ask, NoTrack, Locations
<1>5. 1 .. Len(rcase.key) \subseteq Nat \ {0}
  BY <1>2
<1>6. Keys = 1 .. Len(rcase.objects) /\ Registrations = 1 .. Len(rcase.key)
  BY <1>2 DEF Keys, Registrations
<1>7. QED
  BY <1>1, <1>2, <1>3, <1>4, <1>5, <1>6, Zenon DEF Keys, Registrations

\* What has been published of a track.
LEMMA PublishedFacts ==
  ASSUME RetentionTypes, NEW k \in Keys
  PROVE  /\ written[k] \in Nat /\ Published(k) \in Seq(RetainedObjects)
         /\ DOMAIN Published(k) = 1 .. written[k]
         /\ \A i \in 1 .. written[k] : Published(k)[i] = rcase.objects[k][i] /\ i \in DOMAIN rcase.objects[k]
         /\ Range(Published(k)) = {rcase.objects[k][i] : i \in 1 .. written[k]}
         /\ Range(Published(k)) \subseteq RetainedObjects
<1>1. /\ rcase.objects[k] \in Seq(RetainedObjects) /\ written[k] \in Nat
      /\ written[k] <= Len(rcase.objects[k])
  BY CaseFacts DEF RetentionTypes
<1>2. /\ Published(k) \in Seq(RetainedObjects) /\ Len(Published(k)) = written[k]
      /\ \A i \in 1 .. written[k] : Published(k)[i] = rcase.objects[k][i] /\ i \in DOMAIN rcase.objects[k]
  BY <1>1 DEF Published
<1>3. DOMAIN Published(k) = 1 .. written[k]
  BY <1>1, <1>2
<1>4. QED
  BY <1>1, <1>2, <1>3 DEF Range

\* The objects of a registration have a cost.
LEMMA RoomCostly ==
  ASSUME RetentionTypes, NEW r \in Registrations, RoomInv(r)
  PROVE  Costly(groups[r]) /\ groups[r] \subseteq RetainedObjects
<1>1. groups[r] \subseteq RetainedObjects
  BY DEF RetentionTypes
<1>2. \A o \in RetainedObjects : o.cost \in Nat
  BY DEF RetainedObjects
<1>3. QED
  BY <1>1, <1>2 DEF Costly, RoomInv

\* evict_oldest gives its group back, to its own account and to the budget.
LEMMA EvictGives ==
  ASSUME RetentionTypes, BudgetInv, NEW r \in Registrations, RoomInv(r), Len(arrival[r]) > 0, EvictOldest(r)
  PROVE  /\ arrival' \in [Registrations -> Seq(Nat)]
         /\ groups' \in [Registrations -> SUBSET RetainedObjects]
         /\ bytes' \in [Registrations -> Nat] /\ usedBytes' \in Nat
         /\ usedBytes' = TotalOf(bytes', Registrations) /\ usedBytes' <= usedBytes
         /\ IsFiniteSet(groups'[r]) /\ groups'[r] \subseteq groups[r]
         /\ bytes'[r] = Cost(groups'[r]) /\ bytes'[r] <= bytes[r]
         /\ Range(arrival'[r]) = {o.group : o \in groups'[r]} /\ IsInjective(arrival'[r])
         /\ Len(arrival'[r]) = Len(arrival[r]) - 1
         /\ \A i \in 1 .. Len(arrival'[r]) : arrival'[r][i] = arrival[r][i + 1]
         /\ \A s \in Registrations : s # r =>
              groups'[s] = groups[s] /\ arrival'[s] = arrival[s] /\ bytes'[s] = bytes[s]
<1> DEFINE a == arrival[r]
           gone == InGroups(r, {Head(arrival[r])})
<1>1. /\ a \in Seq(Nat) /\ Len(a) > 0 /\ bytes[r] \in Nat /\ usedBytes \in Nat
      /\ IsFiniteSet(Registrations)
      /\ arrival \in [Registrations -> Seq(Nat)] /\ groups \in [Registrations -> SUBSET RetainedObjects]
      /\ bytes \in [Registrations -> Nat]
  BY CaseFacts DEF RetentionTypes
<1>2. /\ arrival' = [arrival EXCEPT ![r] = Tail(a)] /\ groups' = [groups EXCEPT ![r] = groups[r] \ gone]
      /\ bytes' = [bytes EXCEPT ![r] = bytes[r] - Cost(gone)] /\ usedBytes' = usedBytes - Cost(gone)
  BY DEF EvictOldest
<1>3. gone = {o \in groups[r] : o.group = a[1]} /\ gone \in SUBSET groups[r]
  BY <1>1 DEF InGroups
<1> HIDE DEF gone
<1>4. /\ Costly(groups[r]) /\ Costly(groups[r] \ gone) /\ Cost(gone) \in Nat
      /\ Cost(groups[r] \ gone) \in Nat
      /\ Cost(groups[r] \ gone) = Cost(groups[r]) - Cost(gone) /\ Cost(gone) <= Cost(groups[r])
  BY <1>3, RoomCostly, CostLess
<1>5. bytes[r] = Cost(groups[r]) /\ Range(a) = {o.group : o \in groups[r]} /\ IsInjective(a)
  BY DEF RoomInv
<1>6. bytes[r] - Cost(gone) \in Nat
  BY <1>1, <1>4, <1>5
<1>7. /\ arrival'[r] = Tail(a) /\ groups'[r] = groups[r] \ gone /\ bytes'[r] = bytes[r] - Cost(gone)
      /\ bytes' = [bytes EXCEPT ![r] = bytes[r] - Cost(gone)]
      /\ bytes' \in [Registrations -> Nat] /\ groups' \in [Registrations -> SUBSET RetainedObjects]
      /\ \A s \in Registrations : s # r =>
              groups'[s] = groups[s] /\ arrival'[s] = arrival[s] /\ bytes'[s] = bytes[s]
  BY <1>1, <1>2, <1>6
<1>8. /\ Tail(a) \in Seq(Nat) /\ Len(Tail(a)) = Len(a) - 1
      /\ \A i \in 1 .. Len(Tail(a)) : Tail(a)[i] = a[i + 1]
      /\ DOMAIN a = 1 .. Len(a) /\ DOMAIN Tail(a) = 1 .. (Len(a) - 1) /\ Len(a) \in Nat
  BY <1>1
<1>9. arrival' \in [Registrations -> Seq(Nat)]
  BY <1>1, <1>2, <1>8
<1>10. IsInjective(Tail(a))
  <2>1. \A i, j \in 1 .. Len(a) : a[i] = a[j] => i = j
    BY <1>5, <1>8 DEF IsInjective
  <2>2. \A i, j \in 1 .. (Len(a) - 1) : Tail(a)[i] = Tail(a)[j] => i = j
    BY <1>8, <2>1
  <2>3. QED
    BY <1>8, <2>2 DEF IsInjective
<1>11. Range(Tail(a)) = Range(a) \ {a[1]}
  <2>1. \A i, j \in 1 .. Len(a) : a[i] = a[j] => i = j
    BY <1>5, <1>8 DEF IsInjective
  <2>2. Range(a) = {a[i] : i \in 1 .. Len(a)} /\ Range(Tail(a)) = {Tail(a)[i] : i \in 1 .. (Len(a) - 1)}
    BY <1>8 DEF Range
  <2>3. ASSUME NEW i \in 1 .. (Len(a) - 1) PROVE Tail(a)[i] \in Range(a) \ {a[1]}
    <3>1. Tail(a)[i] = a[i + 1] /\ i + 1 \in 1 .. Len(a) /\ 1 \in 1 .. Len(a) /\ i + 1 # 1
      BY <1>1, <1>8
    <3>2. QED
      BY <2>1, <2>2, <3>1
  <2>4. ASSUME NEW i \in 1 .. Len(a), a[i] # a[1] PROVE a[i] \in Range(Tail(a))
    <3>1. i # 1 /\ i - 1 \in 1 .. (Len(a) - 1) /\ (i - 1) + 1 = i
      BY <1>1, <1>8, <2>4
    <3>2. Tail(a)[i - 1] = a[(i - 1) + 1]
      BY <1>8, <3>1
    <3>3. QED
      BY <2>2, <3>1, <3>2
  <2>5. QED
    BY <2>2, <2>3, <2>4
<1>12. Range(Tail(a)) = {o.group : o \in groups[r] \ gone}
  BY <1>3, <1>5, <1>11
<1>13. usedBytes = TotalOf(bytes, Registrations)
  BY DEF BudgetInv
<1>14. TotalOf(bytes', Registrations) = TotalOf(bytes, Registrations) - bytes[r] + (bytes[r] - Cost(gone))
       /\ bytes[r] <= TotalOf(bytes, Registrations)
  <2>1. \A s \in Registrations \ {r} : bytes'[s] = bytes[s]
    BY <1>7
  <2>2. /\ TotalOf(bytes', Registrations) = TotalOf(bytes, Registrations) - bytes[r] + bytes'[r]
        /\ bytes[r] <= TotalOf(bytes, Registrations)
    <3>1. /\ IsFiniteSet(Registrations) /\ bytes \in [Registrations -> Nat]
          /\ bytes' \in [Registrations -> Nat]
      BY <1>1, <1>7
    <3>2. QED
      BY <2>1, <3>1, TotalChanges
  <2>3. QED
    BY <1>7, <2>2, Zenon
<1>15. usedBytes' \in Nat /\ usedBytes' = TotalOf(bytes', Registrations) /\ usedBytes' <= usedBytes
  BY <1>1, <1>2, <1>4, <1>5, <1>13, <1>14
<1>16. /\ IsFiniteSet(groups'[r]) /\ groups'[r] \subseteq groups[r] /\ bytes'[r] = Cost(groups'[r])
       /\ bytes'[r] <= bytes[r]
  BY <1>1, <1>4, <1>5, <1>7 DEF Costly
<1>17. QED
  BY <1>7, <1>8, <1>9, <1>10, <1>12, <1>15, <1>16

\* A registration that nobody touches stays as it is.
LEMMA RoomSame ==
  ASSUME NEW r \in Registrations, RoomInv(r), rcase' = rcase, OutOf(r) \subseteq OutOf(r)',
         groups'[r] = groups[r], arrival'[r] = arrival[r], bytes'[r] = bytes[r], inserting'[r] = inserting[r]
  PROVE  RoomInv(r)'
BY DEF RoomInv

\* A call of insert begins with the object it has taken from the feed.
LEMMA BeginInsert_Room ==
  ASSUME RetainedInv, NEW r \in Registrations, NEW i \in DOMAIN rcase.objects[rcase.key[r]], BeginInsert(r, i)
  PROVE  RetainedInv'
<1> DEFINE k == rcase.key[r]
           o == rcase.objects[k][i]
           older == OlderGroups(r, o)
           new == [object |-> o, older |-> older, stage |-> "trying", had |-> o.group \in Range(arrival[r])]
<1>1. RetentionTypes /\ rcase \in RetentionCases /\ RoomInv(r) /\ BudgetInv /\ GuardInv
  BY DEF RetainedInv, RetentionTypes
<1>2. k \in Keys /\ rcase.objects[k] \in Seq(RetainedObjects) /\ o \in RetainedObjects
  BY <1>1, CaseFacts
<1>3. /\ inserting[r] = NoInsert /\ i \in NextOf(r) /\ fed' = [fed EXCEPT ![r] = fed[r] \cup {i}]
      /\ inserting' = inserting
         \/ (inserting' = [inserting EXCEPT ![r] = new] /\ ~\E x \in groups[r] : At(x) = At(o))
      /\ UNCHANGED <<rcase, written, groups, arrival, bytes, usedBytes, table, guard, askingVars>>
  BY DEF BeginInsert
<1>4. arrival[r] \in Seq(Nat) /\ Len(arrival[r]) \in Nat /\ DOMAIN arrival[r] = 1 .. Len(arrival[r])
  BY <1>1 DEF RetentionTypes
<1>5. /\ older \in Nat
      /\ o.group \in Range(arrival[r]) => older < Len(arrival[r]) /\ arrival[r][older + 1] = o.group
      /\ o.group \notin Range(arrival[r]) => older = Len(arrival[r])
  <2> DEFINE own == {j \in DOMAIN arrival[r] : arrival[r][j] = o.group}
  <2>1. o.group \in Range(arrival[r]) <=> own # {}
    BY DEF Range
  <2>2. older = IF own = {} THEN Len(arrival[r]) ELSE (CHOOSE j \in own : TRUE) - 1
    BY DEF OlderGroups
  <2>3. CASE own = {}
    BY <1>4, <2>1, <2>2, <2>3
  <2>4. CASE own # {}
    <3>1. PICK j \in own : older = j - 1
      BY <2>2, <2>4
    <3>2. j \in 1 .. Len(arrival[r]) /\ arrival[r][j] = o.group
      BY <1>4
    <3>3. older \in Nat /\ older < Len(arrival[r]) /\ older + 1 = j
      BY <1>4, <3>1, <3>2
    <3>4. QED
      BY <2>1, <2>4, <3>2, <3>3
  <2>5. QED
    BY <2>3, <2>4
<1>6. o \in OutOf(r)
  <2>1. i \in 1 .. written[k]
    BY <1>3 DEF NextOf
  <2>2. QED
    BY <1>1, <1>2, <2>1, PublishedFacts DEF OutOf
<1> HIDE DEF older, o
<1>7. new \in Inserts
  BY <1>2, <1>5 DEF Inserts
<1>8. RetentionTypes'
  <2>1. inserting' \in [Registrations -> {NoInsert} \cup Inserts]
    BY <1>1, <1>3, <1>7 DEF RetentionTypes
  <2>2. /\ fed' \in [Registrations -> SUBSET Nat]
        /\ \A s \in Registrations : fed'[s] \subseteq DOMAIN rcase.objects[rcase.key[s]]
    <3>1. i \in Nat
      BY <1>2
    <3>2. QED
      BY <1>1, <1>3, <3>1 DEF RetentionTypes
  <2>3. QED
    BY <1>1, <1>3, <2>1, <2>2 DEF RetentionTypes, Registrations, Keys, askingVars
<1>9. ASSUME NEW s \in Registrations PROVE RoomInv(s)'
  <2>1. RoomInv(s)
    BY DEF RetainedInv
  <2>2. OutOf(s)' = OutOf(s)
    BY <1>3 DEF OutOf, Published
  <2>3. CASE inserting'[s] = inserting[s]
    BY <1>3, <2>1, <2>2, <2>3, RoomSame
  <2>4. CASE inserting'[s] # inserting[s]
    <3>1. s = r /\ inserting'[r] = new /\ ~\E x \in groups[r] : At(x) = At(o)
      BY <1>1, <1>3, <2>4 DEF RetentionTypes
    <3>2. /\ new.object = o /\ new.older = older /\ new.stage = "trying"
          /\ new.had = (o.group \in Range(arrival[r]))
      OBVIOUS
    <3>3. inserting[r].stage = "none"
      BY <1>3 DEF NoInsert
    <3> HIDE DEF new
    <3>4. QED
      BY <1>3, <1>5, <1>6, <2>1, <2>2, <3>1, <3>2, <3>3 DEF RoomInv
  <2>5. QED
    BY <2>3, <2>4
<1>10. BudgetInv' /\ GuardInv' /\ Registrations' = Registrations
  BY <1>1, <1>3 DEF BudgetInv, GuardInv, Registrations, Keys
<1>11. QED
  BY <1>8, <1>9, <1>10 DEF RetainedInv

\* What neither feeds nor registers leaves all that is retained as it is.
LEMMA Retained_Same ==
  ASSUME RetainedInv, UNCHANGED <<rcase, written, inserting, groups, arrival, bytes, usedBytes,
                                  table, guard>>,
         fed' \in [Registrations -> SUBSET Nat],
         \A r \in Registrations : fed'[r] \subseteq DOMAIN rcase.objects[rcase.key[r]],
         stage' \in {"start", "found", "planning", "opening", "answered", "rejected", "closed"},
         track' \in Registrations \cup {NoTrack}
  PROVE  RetainedInv'
<1>1. RetentionTypes'
  BY DEF RetainedInv, RetentionTypes, Registrations, Keys
<1>2. BudgetInv' /\ GuardInv' /\ Registrations' = Registrations
  BY DEF RetainedInv, BudgetInv, GuardInv, Registrations, Keys
<1>3. ASSUME NEW s \in Registrations PROVE RoomInv(s)'
  BY RoomSame DEF RetainedInv, OutOf, Published
<1>4. QED
  BY <1>1, <1>2, <1>3 DEF RetainedInv

\* A status object is only passed.
LEMMA SkipObject_Room ==
  ASSUME RetainedInv, NEW r \in Registrations, NEW i \in DOMAIN rcase.objects[rcase.key[r]], SkipObject(r, i)
  PROVE  RetainedInv'
<1>1. RetentionTypes /\ rcase \in RetentionCases
  BY DEF RetainedInv, RetentionTypes
<1>2. i \in Nat
  BY <1>1, CaseFacts
<1>3. fed' = [fed EXCEPT ![r] = fed[r] \cup {i}]
      /\ UNCHANGED <<rcase, written, inserting, groups, arrival, bytes, usedBytes, table, guard>>
      /\ UNCHANGED <<stage, track>>
  BY DEF SkipObject, askingVars
<1>4. fed' \in [Registrations -> SUBSET Nat]
      /\ \A s \in Registrations : fed'[s] \subseteq DOMAIN rcase.objects[rcase.key[s]]
  BY <1>1, <1>2, <1>3 DEF RetentionTypes
<1>5. QED
  BY <1>1, <1>3, <1>4, Retained_Same DEF RetentionTypes

\* A round of insert: the object is added to its own account and the budget, or a group goes, or nothing.
LEMMA TryInsert_Room ==
  ASSUME RetainedInv, NEW r \in Registrations, TryInsert(r)
  PROVE  RetainedInv'
<1> DEFINE e == inserting[r]
           o == inserting[r].object
<1>1. RetentionTypes /\ rcase \in RetentionCases /\ RoomInv(r) /\ BudgetInv /\ GuardInv
  BY DEF RetainedInv, RetentionTypes
<1>2. /\ e \in Inserts /\ e.stage = "trying" /\ o \in RetainedObjects /\ e.older \in Nat
      /\ o.cost \in Nat /\ o.group \in Nat
  BY <1>1 DEF TryInsert, RetentionTypes, NoInsert, Inserts, RetainedObjects
<1>3. UNCHANGED <<rcase, written, fed, table, guard, askingVars>>
  BY DEF TryInsert
<1>4. arrival[r] \in Seq(Nat) /\ Len(arrival[r]) \in Nat /\ DOMAIN arrival[r] = 1 .. Len(arrival[r])
  BY <1>1 DEF RetentionTypes
<1>5. /\ o \in OutOf(r) /\ \A x \in groups[r] : At(x) # At(o)
      /\ e.had => e.older < Len(arrival[r]) /\ arrival[r][e.older + 1] = o.group
      /\ ~e.had => e.older = Len(arrival[r])
      /\ IsFiniteSet(groups[r]) /\ groups[r] \subseteq OutOf(r)
      /\ bytes[r] = Cost(groups[r]) /\ bytes[r] <= rcase.trackBytes
      /\ Range(arrival[r]) = {x.group : x \in groups[r]} /\ IsInjective(arrival[r])
      /\ Len(arrival[r]) <= rcase.groups
  BY <1>1, <1>2, CaseFacts DEF RoomInv
<1>6. /\ Registrations' = Registrations /\ Keys' = Keys /\ GuardInv'
      /\ \A s \in Registrations : OutOf(s)' = OutOf(s)
  BY <1>1, <1>3 DEF Registrations, Keys, GuardInv, OutOf, Published
<1>7. SUFFICES /\ inserting' \in [Registrations -> {NoInsert} \cup Inserts]
               /\ groups' \in [Registrations -> SUBSET RetainedObjects]
               /\ arrival' \in [Registrations -> Seq(Nat)]
               /\ bytes' \in [Registrations -> Nat] /\ usedBytes' \in Nat
               /\ usedBytes' = TotalOf(bytes', Registrations) /\ usedBytes' <= rcase.totalBytes
               /\ \A s \in Registrations : s # r =>
                    /\ groups'[s] = groups[s] /\ arrival'[s] = arrival[s]
                    /\ bytes'[s] = bytes[s] /\ inserting'[s] = inserting[s]
               /\ RoomInv(r)'
  <2>1. RetentionTypes' /\ BudgetInv'
    BY <1>1, <1>3, <1>6, <1>7 DEF RetentionTypes, BudgetInv, askingVars
  <2>2. ASSUME NEW s \in Registrations, s # r PROVE RoomInv(s)'
    BY <1>3, <1>6, <1>7, <2>2, RoomSame DEF RetainedInv
  <2>3. QED
    BY <1>6, <1>7, <2>1, <2>2 DEF RetainedInv
<1>8. CASE /\ bytes[r] + o.cost <= Limits.trackBytes /\ Reserve(o.cost)
           /\ usedBytes' = usedBytes + o.cost
           /\ bytes' = [bytes EXCEPT ![r] = bytes[r] + o.cost]
           /\ arrival' = IF o.group \in Range(arrival[r]) THEN arrival
                         ELSE [arrival EXCEPT ![r] = Append(arrival[r], o.group)]
           /\ groups' = [groups EXCEPT ![r] = groups[r] \cup {o}]
           /\ inserting' = [inserting EXCEPT ![r].stage = "trimming"]
  <2>1. bytes[r] \in Nat /\ usedBytes \in Nat /\ bytes[r] + o.cost \in Nat
    BY <1>1, <1>2 DEF RetentionTypes
  <2>2. /\ bytes' \in [Registrations -> Nat] /\ bytes'[r] = bytes[r] + o.cost
        /\ \A s \in Registrations \ {r} : bytes'[s] = bytes[s]
    BY <1>1, <1>8, <2>1 DEF RetentionTypes
  <2>3. /\ groups' \in [Registrations -> SUBSET RetainedObjects] /\ groups'[r] = groups[r] \cup {o}
        /\ \A s \in Registrations \ {r} : groups'[s] = groups[s]
    BY <1>1, <1>2, <1>8 DEF RetentionTypes
  <2>4. /\ inserting' \in [Registrations -> {NoInsert} \cup Inserts] /\ inserting'[r].stage = "trimming"
        /\ \A s \in Registrations \ {r} : inserting'[s] = inserting[s]
    <3>1. /\ [e EXCEPT !.stage = "trimming"] \in Inserts
          /\ [e EXCEPT !.stage = "trimming"].stage = "trimming"
      BY <1>2 DEF Inserts
    <3>2. inserting' = [inserting EXCEPT ![r] = [e EXCEPT !.stage = "trimming"]]
      BY <1>8
    <3> HIDE DEF e
    <3>3. QED
      BY <1>1, <3>1, <3>2 DEF RetentionTypes
  <2>5. o \notin groups[r] /\ Costly(groups[r])
    BY <1>1, <1>5, RoomCostly
  <2>6. bytes'[r] = Cost(groups'[r]) /\ IsFiniteSet(groups'[r])
    <3>1. Cost(groups[r] \cup {o}) = Cost(groups[r]) + o.cost /\ Costly(groups[r] \cup {o})
      BY <1>2, <2>5, CostWith
    <3>2. QED
      BY <1>5, <2>2, <2>3, <3>1 DEF Costly
  <2>7. usedBytes' = TotalOf(bytes', Registrations)
    <3>1. IsFiniteSet(Registrations) /\ bytes \in [Registrations -> Nat]
      BY <1>1, CaseFacts DEF RetentionTypes
    <3>2. bytes' \in [Registrations -> Nat] /\ \A s \in Registrations \ {r} : bytes'[s] = bytes[s]
      BY <2>2
    <3>3. TotalOf(bytes', Registrations) = TotalOf(bytes, Registrations) - bytes[r] + bytes'[r]
          /\ TotalOf(bytes, Registrations) \in Nat
      BY <3>1, <3>2, TotalChanges
    <3>4. usedBytes = TotalOf(bytes, Registrations)
      BY <1>1 DEF BudgetInv
    <3>5. QED
      BY <1>2, <1>8, <2>1, <2>2, <3>3, <3>4
  <2>8. usedBytes' \in Nat /\ usedBytes' <= rcase.totalBytes
    BY <1>2, <1>8, <2>1 DEF Reserve, Limits
  <2>9. /\ arrival' \in [Registrations -> Seq(Nat)]
        /\ \A s \in Registrations \ {r} : arrival'[s] = arrival[s]
        /\ Range(arrival'[r]) = Range(arrival[r]) \cup {o.group} /\ IsInjective(arrival'[r])
        /\ Len(arrival'[r]) <= Len(arrival[r]) + 1
    <3>1. CASE o.group \in Range(arrival[r])
      BY <1>1, <1>4, <1>5, <1>8, <3>1 DEF RetentionTypes
    <3>2. CASE o.group \notin Range(arrival[r])
      <4> DEFINE a == arrival[r]
                 b == Append(a, o.group)
      <4>1. /\ b \in Seq(Nat) /\ Len(b) = Len(a) + 1 /\ b[Len(a) + 1] = o.group
            /\ \A i \in 1 .. Len(a) : b[i] = a[i]
        BY <1>2, <1>4
      <4>2. DOMAIN b = 1 .. (Len(a) + 1)
        BY <4>1
      <4>3. /\ arrival' \in [Registrations -> Seq(Nat)] /\ arrival'[r] = b
            /\ \A s \in Registrations \ {r} : arrival'[s] = arrival[s]
        BY <1>1, <1>8, <3>2, <4>1 DEF RetentionTypes
      <4> HIDE DEF b, a
      <4>4. /\ Range(a) = {a[i] : i \in 1 .. Len(a)} /\ Range(b) = {b[i] : i \in 1 .. (Len(a) + 1)}
            /\ Len(a) \in Nat
        BY <1>4, <4>2 DEF Range, a
      <4>5. Range(b) = Range(a) \cup {o.group}
        <5>1. \A i \in 1 .. Len(a) : i \in 1 .. (Len(a) + 1)
          BY <4>4
        <5>2. \A i \in 1 .. (Len(a) + 1) : i \in 1 .. Len(a) \/ i = Len(a) + 1
          BY <4>4
        <5>3. Len(a) + 1 \in 1 .. (Len(a) + 1)
          BY <4>4
        <5>4. QED
          BY <4>1, <4>4, <5>1, <5>2, <5>3
      <4>6. IsInjective(b)
        <5>1. \A i, j \in 1 .. Len(a) : a[i] = a[j] => i = j
          BY <1>4, <1>5 DEF IsInjective, a
        <5>2. \A i \in 1 .. Len(a) : a[i] # o.group
          BY <3>2, <4>4 DEF a
        <5>3. \A i, j \in 1 .. (Len(a) + 1) : b[i] = b[j] => i = j
          BY <4>1, <4>4, <5>1, <5>2
        <5>4. QED
          BY <4>2, <5>3 DEF IsInjective
      <4>7. Range(arrival'[r]) = Range(arrival[r]) \cup {o.group} /\ IsInjective(arrival'[r])
        BY <4>3, <4>5, <4>6, Zenon DEF a
      <4>8. Len(arrival'[r]) <= Len(arrival[r]) + 1
        BY <1>4, <4>1, <4>3 DEF a
      <4>9. QED
        BY <4>3, <4>7, <4>8
    <3>3. QED
      BY <3>1, <3>2
  <2>10. RoomInv(r)'
    <3>1. groups'[r] \subseteq OutOf(r)' /\ bytes'[r] <= rcase'.trackBytes
      BY <1>3, <1>5, <1>6, <1>8, <2>2, <2>3 DEF Limits
    <3>2. Range(arrival'[r]) = {x.group : x \in groups'[r]}
      BY <1>5, <2>3, <2>9
    <3>3. Len(arrival'[r]) <= rcase'.groups + (IF inserting'[r].stage = "trimming" THEN 1 ELSE 0)
      <4>1. rcase.groups \in Nat /\ Len(arrival'[r]) \in Nat
        BY <1>1, <2>9, CaseFacts
      <4>2. QED
        BY <1>3, <1>4, <1>5, <2>4, <2>9, <4>1
    <3>4. QED
      BY <2>4, <2>6, <2>9, <3>1, <3>2, <3>3 DEF RoomInv
  <2>11. QED
    BY <2>2, <2>3, <2>4, <2>7, <2>8, <2>9, <2>10
<1>9. CASE e.older > 0 /\ EvictOldest(r) /\ inserting' = [inserting EXCEPT ![r].older = @ - 1]
  <2>1. Len(arrival[r]) > 0
    BY <1>2, <1>4, <1>5, <1>9
  <2> DEFINE d == [e EXCEPT !.older = e.older - 1]
  <2>2. /\ d \in Inserts /\ d.stage = "trying" /\ d.object = o /\ d.had = e.had /\ d.older = e.older - 1
    BY <1>2, <1>9 DEF Inserts
  <2>3. inserting' = [inserting EXCEPT ![r] = d]
    BY <1>9
  <2> HIDE DEF d, e
  <2>4. /\ inserting' \in [Registrations -> {NoInsert} \cup Inserts] /\ inserting'[r] = d
        /\ \A s \in Registrations : s # r => inserting'[s] = inserting[s]
    BY <1>1, <2>2, <2>3 DEF RetentionTypes
  <2>5. /\ arrival' \in [Registrations -> Seq(Nat)]
        /\ groups' \in [Registrations -> SUBSET RetainedObjects]
        /\ bytes' \in [Registrations -> Nat] /\ usedBytes' \in Nat
        /\ usedBytes' = TotalOf(bytes', Registrations) /\ usedBytes' <= usedBytes
        /\ IsFiniteSet(groups'[r]) /\ groups'[r] \subseteq groups[r]
        /\ bytes'[r] = Cost(groups'[r]) /\ bytes'[r] <= bytes[r]
        /\ Range(arrival'[r]) = {x.group : x \in groups'[r]} /\ IsInjective(arrival'[r])
        /\ Len(arrival'[r]) = Len(arrival[r]) - 1
        /\ \A i \in 1 .. Len(arrival'[r]) : arrival'[r][i] = arrival[r][i + 1]
        /\ \A s \in Registrations : s # r =>
             groups'[s] = groups[s] /\ arrival'[s] = arrival[s] /\ bytes'[s] = bytes[s]
    BY <1>1, <1>9, <2>1, EvictGives
  <2>6. usedBytes' <= rcase.totalBytes /\ bytes'[r] <= rcase.trackBytes
    <3>1. /\ usedBytes \in Nat /\ bytes[r] \in Nat /\ rcase.totalBytes \in Nat
          /\ rcase.trackBytes \in Nat /\ bytes'[r] \in Nat
      BY <1>1, <2>5, CaseFacts DEF RetentionTypes
    <3>2. usedBytes <= rcase.totalBytes
      BY <1>1 DEF BudgetInv
    <3>3. QED
      BY <1>5, <2>5, <3>1, <3>2
  <2>7. /\ d.had => d.older < Len(arrival'[r]) /\ arrival'[r][d.older + 1] = d.object.group
        /\ ~d.had => d.older = Len(arrival'[r])
    <3>1. ASSUME e.had PROVE d.older < Len(arrival'[r]) /\ arrival'[r][d.older + 1] = o.group
      <4>1. /\ d.older + 1 \in 1 .. Len(arrival'[r]) /\ (d.older + 1) + 1 = e.older + 1
            /\ d.older < Len(arrival'[r])
        <5>1. e.older < Len(arrival[r]) /\ e.older > 0 /\ e.older \in Nat /\ Len(arrival[r]) \in Nat
              /\ d.older = e.older - 1 /\ Len(arrival'[r]) = Len(arrival[r]) - 1
          BY <1>2, <1>4, <1>5, <1>9, <2>2, <2>5, <3>1
        <5>2. QED
          BY <5>1
      <4>2. arrival'[r][d.older + 1] = arrival[r][(d.older + 1) + 1]
        BY <2>5, <4>1
      <4>3. QED
        BY <1>5, <3>1, <4>1, <4>2
    <3>2. ASSUME ~e.had PROVE d.older = Len(arrival'[r])
      BY <1>2, <1>4, <1>5, <2>2, <2>5, <3>2
    <3>3. QED
      BY <2>2, <3>1, <3>2
  <2>8. RoomInv(r)'
    <3>1. Len(arrival'[r]) <= rcase'.groups + (IF inserting'[r].stage = "trimming" THEN 1 ELSE 0)
      <4>1. rcase.groups \in Nat
        BY <1>1, CaseFacts
      <4>2. QED
        BY <1>3, <1>4, <1>5, <2>2, <2>4, <2>5, <4>1
    <3>2. /\ groups'[r] \subseteq OutOf(r)' /\ inserting'[r].object \in OutOf(r)'
          /\ \A x \in groups'[r] : At(x) # At(inserting'[r].object)
      BY <1>5, <1>6, <2>2, <2>4, <2>5
    <3>3. QED
      BY <1>3, <2>2, <2>4, <2>5, <2>6, <2>7, <3>1, <3>2 DEF RoomInv
  <2>9. QED
    BY <2>4, <2>5, <2>6, <2>8
<1>10. CASE /\ inserting' = [inserting EXCEPT ![r] = NoInsert]
            /\ UNCHANGED <<groups, arrival, bytes, usedBytes>>
  <2>1. /\ inserting' \in [Registrations -> {NoInsert} \cup Inserts] /\ inserting'[r] = NoInsert
        /\ \A s \in Registrations : s # r => inserting'[s] = inserting[s]
    BY <1>1, <1>10 DEF RetentionTypes
  <2>2. inserting'[r].stage = "none"
    BY <2>1 DEF NoInsert
  <2>3. rcase.groups \in Nat
    BY <1>1, CaseFacts
  <2>4. RoomInv(r)'
    BY <1>3, <1>4, <1>5, <1>6, <1>10, <2>2, <2>3 DEF RoomInv
  <2>5. QED
    BY <1>1, <1>10, <2>1, <2>4 DEF RetentionTypes, BudgetInv
<1>11. QED
  BY <1>8, <1>9, <1>10 DEF TryInsert

\* The oldest group goes when there is one too many.
LEMMA TrimWindow_Room ==
  ASSUME RetainedInv, NEW r \in Registrations, TrimWindow(r)
  PROVE  RetainedInv'
<1>1. RetentionTypes /\ rcase \in RetentionCases /\ RoomInv(r) /\ BudgetInv /\ GuardInv
  BY DEF RetainedInv, RetentionTypes
<1>2. /\ inserting[r].stage = "trimming" /\ inserting' = [inserting EXCEPT ![r] = NoInsert]
      /\ UNCHANGED <<rcase, written, fed, table, guard, askingVars>>
  BY DEF TrimWindow
<1>3. arrival[r] \in Seq(Nat) /\ Len(arrival[r]) \in Nat /\ rcase.groups \in Nat
  BY <1>1, CaseFacts DEF RetentionTypes
<1>4. /\ IsFiniteSet(groups[r]) /\ groups[r] \subseteq OutOf(r)
      /\ bytes[r] = Cost(groups[r]) /\ bytes[r] <= rcase.trackBytes
      /\ Range(arrival[r]) = {x.group : x \in groups[r]} /\ IsInjective(arrival[r])
      /\ Len(arrival[r]) <= rcase.groups + 1
  BY <1>1, <1>2 DEF RoomInv
<1>5. /\ Registrations' = Registrations /\ Keys' = Keys /\ GuardInv'
      /\ \A s \in Registrations : OutOf(s)' = OutOf(s)
  BY <1>1, <1>2 DEF Registrations, Keys, GuardInv, OutOf, Published
<1>6. /\ inserting' \in [Registrations -> {NoInsert} \cup Inserts] /\ inserting'[r] = NoInsert
      /\ inserting'[r].stage = "none"
      /\ \A s \in Registrations : s # r => inserting'[s] = inserting[s]
  BY <1>1, <1>2 DEF RetentionTypes, NoInsert
<1>7. SUFFICES /\ groups' \in [Registrations -> SUBSET RetainedObjects]
               /\ arrival' \in [Registrations -> Seq(Nat)]
               /\ bytes' \in [Registrations -> Nat] /\ usedBytes' \in Nat
               /\ usedBytes' = TotalOf(bytes', Registrations) /\ usedBytes' <= rcase.totalBytes
               /\ \A s \in Registrations : s # r =>
                    groups'[s] = groups[s] /\ arrival'[s] = arrival[s] /\ bytes'[s] = bytes[s]
               /\ RoomInv(r)'
  <2>1. RetentionTypes' /\ BudgetInv'
    BY <1>1, <1>2, <1>5, <1>6, <1>7 DEF RetentionTypes, BudgetInv, askingVars
  <2>2. ASSUME NEW s \in Registrations, s # r PROVE RoomInv(s)'
    BY <1>2, <1>5, <1>6, <1>7, <2>2, RoomSame DEF RetainedInv
  <2>3. QED
    BY <1>5, <1>7, <2>1, <2>2 DEF RetainedInv
<1>8. CASE Len(arrival[r]) > rcase.groups
  <2>1. EvictOldest(r) /\ Len(arrival[r]) > 0
    BY <1>3, <1>8 DEF TrimWindow, Limits
  <2>2. /\ arrival' \in [Registrations -> Seq(Nat)]
        /\ groups' \in [Registrations -> SUBSET RetainedObjects]
        /\ bytes' \in [Registrations -> Nat] /\ usedBytes' \in Nat
        /\ usedBytes' = TotalOf(bytes', Registrations) /\ usedBytes' <= usedBytes
        /\ IsFiniteSet(groups'[r]) /\ groups'[r] \subseteq groups[r]
        /\ bytes'[r] = Cost(groups'[r]) /\ bytes'[r] <= bytes[r]
        /\ Range(arrival'[r]) = {x.group : x \in groups'[r]} /\ IsInjective(arrival'[r])
        /\ Len(arrival'[r]) = Len(arrival[r]) - 1
        /\ \A s \in Registrations : s # r =>
             groups'[s] = groups[s] /\ arrival'[s] = arrival[s] /\ bytes'[s] = bytes[s]
    BY <1>1, <2>1, EvictGives
  <2>3. usedBytes' <= rcase.totalBytes /\ bytes'[r] <= rcase.trackBytes
    <3>1. /\ usedBytes \in Nat /\ bytes[r] \in Nat /\ rcase.totalBytes \in Nat
          /\ rcase.trackBytes \in Nat /\ bytes'[r] \in Nat
      BY <1>1, <2>2, CaseFacts DEF RetentionTypes
    <3>2. usedBytes <= rcase.totalBytes
      BY <1>1 DEF BudgetInv
    <3>3. QED
      BY <1>4, <2>2, <3>1, <3>2
  <2>4. Len(arrival'[r]) <= rcase.groups
    BY <1>3, <1>4, <2>2
  <2>5. RoomInv(r)'
    BY <1>2, <1>3, <1>4, <1>5, <1>6, <2>2, <2>3, <2>4 DEF RoomInv
  <2>6. QED
    BY <2>2, <2>3, <2>5
<1>9. CASE ~(Len(arrival[r]) > rcase.groups)
  <2>1. UNCHANGED <<groups, arrival, bytes, usedBytes>>
    BY <1>9 DEF TrimWindow, Limits
  <2>2. RoomInv(r)'
    BY <1>2, <1>3, <1>4, <1>5, <1>6, <1>9, <2>1 DEF RoomInv
  <2>3. QED
    BY <1>1, <2>1, <2>2 DEF RetentionTypes, BudgetInv
<1>10. QED
  BY <1>8, <1>9

\* The last owner of a track gives all of it back.
LEMMA FreeTrack_Room ==
  ASSUME RetainedInv, NEW r \in Registrations, FreeTrack(r)
  PROVE  RetainedInv'
<1>1. RetentionTypes /\ rcase \in RetentionCases /\ RoomInv(r) /\ BudgetInv /\ GuardInv
  BY DEF RetainedInv, RetentionTypes
<1>2. /\ guard[r] = "dropped" /\ inserting[r] = NoInsert /\ guard' = [guard EXCEPT ![r] = "freed"]
      /\ usedBytes' = usedBytes - bytes[r] /\ groups' = [groups EXCEPT ![r] = {}]
      /\ arrival' = [arrival EXCEPT ![r] = <<>>] /\ bytes' = [bytes EXCEPT ![r] = 0]
      /\ UNCHANGED <<rcase, written, fed, inserting, table, askingVars>>
  BY DEF FreeTrack
<1>3. Registrations' = Registrations /\ Keys' = Keys /\ \A s \in Registrations : OutOf(s)' = OutOf(s)
  BY <1>2 DEF Registrations, Keys, OutOf, Published
<1>4. /\ groups' \in [Registrations -> SUBSET RetainedObjects] /\ groups'[r] = {}
      /\ arrival' \in [Registrations -> Seq(Nat)] /\ arrival'[r] = <<>>
      /\ bytes' \in [Registrations -> Nat] /\ bytes'[r] = 0
      /\ \A s \in Registrations \ {r} :
           groups'[s] = groups[s] /\ arrival'[s] = arrival[s] /\ bytes'[s] = bytes[s]
  BY <1>1, <1>2 DEF RetentionTypes
<1>5. /\ usedBytes' \in Nat /\ usedBytes' = TotalOf(bytes', Registrations)
      /\ usedBytes' <= rcase.totalBytes
  <2>1. IsFiniteSet(Registrations) /\ bytes \in [Registrations -> Nat]
    BY <1>1, CaseFacts DEF RetentionTypes
  <2>2. bytes' \in [Registrations -> Nat] /\ \A s \in Registrations \ {r} : bytes'[s] = bytes[s]
    BY <1>4
  <2>3. /\ TotalOf(bytes', Registrations) = TotalOf(bytes, Registrations) - bytes[r] + bytes'[r]
        /\ TotalOf(bytes, Registrations) \in Nat /\ bytes[r] <= TotalOf(bytes, Registrations)
    BY <2>1, <2>2, TotalChanges
  <2>4. /\ usedBytes = TotalOf(bytes, Registrations) /\ usedBytes <= rcase.totalBytes
        /\ rcase.totalBytes \in Nat /\ bytes[r] \in Nat
    BY <1>1, <2>1, CaseFacts DEF BudgetInv
  <2>5. QED
    BY <1>2, <1>4, <2>3, <2>4
<1>6. /\ guard' \in [Registrations -> {"none", "held", "dropped", "freed"}] /\ guard'[r] = "freed"
      /\ \A s \in Registrations \ {r} : guard'[s] = guard[s]
  BY <1>1, <1>2 DEF RetentionTypes
<1>7. RetentionTypes'
  BY <1>1, <1>2, <1>3, <1>4, <1>5, <1>6 DEF RetentionTypes, askingVars
<1>8. BudgetInv' /\ GuardInv'
  <2>1. BudgetInv'
    BY <1>2, <1>3, <1>5 DEF BudgetInv
  <2>2. \A s \in Registrations : /\ guard'[s] = "none" <=> guard[s] = "none"
                                 /\ guard'[s] = "held" => guard[s] = "held"
    BY <1>2, <1>6
  <2>3. GuardInv'
    BY <1>1, <1>2, <1>3, <2>2 DEF GuardInv
  <2>4. QED
    BY <2>1, <2>3
<1>9. RoomInv(r)'
  <2>1. Range(<<>>) = {} /\ Len(<<>>) = 0 /\ IsFiniteSet({}) /\ Cost({}) = 0 /\ IsInjective(<<>>)
    BY FS_EmptySet, CostOfNone DEF Range, IsInjective
  <2>2. inserting'[r].stage = "none"
    BY <1>2 DEF NoInsert
  <2>3. rcase.groups \in Nat /\ rcase.trackBytes \in Nat
    BY <1>1, CaseFacts
  <2>4. Range(arrival'[r]) = {o.group : o \in groups'[r]}
    BY <1>4, <2>1
  <2>5. QED
    BY <1>2, <1>4, <2>1, <2>2, <2>3, <2>4 DEF RoomInv
<1>10. ASSUME NEW s \in Registrations, s # r PROVE RoomInv(s)'
  BY <1>2, <1>3, <1>4, <1>10, RoomSame DEF RetainedInv
<1>11. QED
  BY <1>3, <1>7, <1>8, <1>9, <1>10 DEF RetainedInv

\* What changes the registrations only.
LEMMA Registered_Same ==
  ASSUME RetainedInv, UNCHANGED <<rcase, written, inserting, groups, arrival, bytes, usedBytes,
                                  askingVars>>,
         fed' \in [Registrations -> SUBSET Nat],
         \A r \in Registrations : fed'[r] \subseteq DOMAIN rcase.objects[rcase.key[r]],
         table' \in [Keys -> Registrations \cup {NoTrack}],
         guard' \in [Registrations -> {"none", "held", "dropped", "freed"}], GuardInv'
  PROVE  RetainedInv'
<1>1. RetentionTypes'
  BY DEF RetainedInv, RetentionTypes, Registrations, Keys, askingVars
<1>2. BudgetInv' /\ Registrations' = Registrations
  BY DEF RetainedInv, BudgetInv, Registrations, Keys
<1>3. ASSUME NEW s \in Registrations PROVE RoomInv(s)'
  BY RoomSame DEF RetainedInv, OutOf, Published
<1>4. QED
  BY <1>1, <1>2, <1>3 DEF RetainedInv

\* The newest registration of a track takes its key.
LEMMA Retain_Room ==
  ASSUME RetainedInv, NEW r \in Registrations, Retain(r)
  PROVE  RetainedInv'
<1> DEFINE k == rcase.key[r]
<1>1. RetentionTypes /\ rcase \in RetentionCases /\ GuardInv
  BY DEF RetainedInv, RetentionTypes
<1>2. k \in Keys /\ Registrations \subseteq Nat \ {0} /\ rcase.objects[k] \in Seq(RetainedObjects)
  BY <1>1, CaseFacts
<1>3. /\ guard[r] = "none" /\ \A s \in Registrations : s < r => guard[s] # "none"
      /\ guard' = [guard EXCEPT ![r] = "held"] /\ table' = [table EXCEPT ![k] = r]
      /\ UNCHANGED <<rcase, written, inserting, groups, arrival, bytes, usedBytes, askingVars>>
  BY DEF Retain
<1>4. fed' = [fed EXCEPT ![r] =
          {i \in DOMAIN rcase.objects[k] :
             i <= written[k] \/ rcase.objects[k][i].group \in created[k]}]
  BY DEF Retain
<1>5. /\ fed' \in [Registrations -> SUBSET Nat]
      /\ \A s \in Registrations : fed'[s] \subseteq DOMAIN rcase.objects[rcase.key[s]]
  <2>1. DOMAIN rcase.objects[k] \subseteq Nat
    BY <1>2
  <2>2. QED
    BY <1>1, <1>4, <2>1 DEF RetentionTypes
<1>6. /\ guard' \in [Registrations -> {"none", "held", "dropped", "freed"}] /\ guard'[r] = "held"
      /\ \A s \in Registrations \ {r} : guard'[s] = guard[s]
      /\ table' \in [Keys -> Registrations \cup {NoTrack}] /\ table'[k] = r
      /\ \A q \in Keys \ {k} : table'[q] = table[q]
  BY <1>1, <1>2, <1>3 DEF RetentionTypes
<1>7. GuardInv'
  <2>0. Registrations' = Registrations /\ Keys' = Keys /\ rcase' = rcase
    BY <1>3 DEF Registrations, Keys
  <2>1. ASSUME NEW p \in Registrations, NEW s \in Registrations, s < p, guard'[p] # "none"
        PROVE  guard'[s] # "none"
    BY <1>1, <1>3, <1>6, <2>1 DEF GuardInv
  <2>2. ASSUME NEW q \in Keys, table'[q] # NoTrack PROVE rcase.key[table'[q]] = q
    BY <1>1, <1>6, <2>2 DEF GuardInv
  <2>3. ASSUME NEW p \in Registrations, guard'[p] = "held",
               \A s \in Registrations : p < s /\ rcase.key[s] = rcase.key[p] => guard'[s] = "none"
        PROVE  table'[rcase.key[p]] = p
    <3>1. CASE p = r
      BY <1>6, <3>1
    <3>2. CASE p # r
      <4>1. guard[p] = "held" /\ ~(r < p)
        BY <1>1, <1>3, <1>6, <2>3, <3>2 DEF GuardInv
      <4>2. p < r
        BY <1>2, <3>2, <4>1
      <4>3. rcase.key[p] # k /\ rcase.key[p] \in Keys
        BY <1>1, <1>6, <2>3, <4>2, CaseFacts
      <4>4. \A s \in Registrations : p < s /\ rcase.key[s] = rcase.key[p] => guard[s] = "none"
        BY <1>6, <2>3, <4>3
      <4>5. QED
        BY <1>1, <1>6, <4>1, <4>3, <4>4 DEF GuardInv
    <3>3. QED
      BY <3>1, <3>2
  <2>4. QED
    BY <2>0, <2>1, <2>2, <2>3 DEF GuardInv
<1>8. QED
  BY <1>3, <1>5, <1>6, <1>7, Registered_Same

\* A guard takes only its own key out of the table.
LEMMA DropGuard_Room ==
  ASSUME RetainedInv, NEW r \in Registrations, DropGuard(r)
  PROVE  RetainedInv'
<1> DEFINE k == rcase.key[r]
<1>1. RetentionTypes /\ rcase \in RetentionCases /\ GuardInv
  BY DEF RetainedInv, RetentionTypes
<1>2. k \in Keys /\ Registrations \subseteq Nat \ {0}
  BY <1>1, CaseFacts
<1>3. /\ guard[r] = "held" /\ guard' = [guard EXCEPT ![r] = "dropped"]
      /\ table' = [table EXCEPT ![k] = IF table[k] = r THEN NoTrack ELSE table[k]]
      /\ UNCHANGED <<rcase, written, feedVars, askingVars>>
  BY DEF DropGuard
<1>4. UNCHANGED <<rcase, written, fed, inserting, groups, arrival, bytes, usedBytes, askingVars>>
  BY <1>3 DEF feedVars
<1>5. /\ guard' \in [Registrations -> {"none", "held", "dropped", "freed"}] /\ guard'[r] = "dropped"
      /\ \A s \in Registrations \ {r} : guard'[s] = guard[s]
      /\ table' \in [Keys -> Registrations \cup {NoTrack}] /\ \A q \in Keys \ {k} : table'[q] = table[q]
      /\ table'[k] = IF table[k] = r THEN NoTrack ELSE table[k]
  BY <1>1, <1>2, <1>3 DEF RetentionTypes
<1>6. GuardInv'
  <2>0. Registrations' = Registrations /\ Keys' = Keys /\ rcase' = rcase
    BY <1>4 DEF Registrations, Keys
  <2>1. \A s \in Registrations : guard'[s] = "none" <=> guard[s] = "none"
    BY <1>3, <1>5
  <2>2. ASSUME NEW q \in Keys, table'[q] # NoTrack PROVE rcase.key[table'[q]] = q
    BY <1>1, <1>5, <2>2 DEF GuardInv
  <2>3. ASSUME NEW p \in Registrations, guard'[p] = "held",
               \A s \in Registrations : p < s /\ rcase.key[s] = rcase.key[p] => guard'[s] = "none"
        PROVE  table'[rcase.key[p]] = p
    <3>1. p # r /\ guard[p] = "held" /\ rcase.key[p] \in Keys
      BY <1>1, <1>5, <2>3, CaseFacts
    <3>2. table[rcase.key[p]] = p
      BY <1>1, <2>1, <2>3, <3>1 DEF GuardInv
    <3>3. QED
      BY <1>5, <3>1, <3>2
  <2>4. QED
    BY <1>1, <2>0, <2>1, <2>2, <2>3 DEF GuardInv
<1>7. /\ fed' \in [Registrations -> SUBSET Nat]
      /\ \A s \in Registrations : fed'[s] \subseteq DOMAIN rcase.objects[rcase.key[s]]
  BY <1>1, <1>4 DEF RetentionTypes
<1>8. QED
  BY <1>4, <1>5, <1>6, <1>7, Registered_Same

\* What is published grows.
LEMMA Write_Out ==
  ASSUME RetentionTypes, NEW k \in Keys, Write(k)
  PROVE  /\ RetentionTypes' /\ \A q \in Keys : written[q] <= written'[q]
         /\ \A q \in Keys : Range(Published(q)) \subseteq Range(Published(q))'
<1>1. written[k] < Len(rcase.objects[k]) /\ written' = [written EXCEPT ![k] = written[k] + 1]
      /\ UNCHANGED <<rcase, feedVars, table, guard, askingVars>>
  BY DEF Write
<1>2. /\ rcase \in RetentionCases /\ written \in [Keys -> Nat] /\ written[k] \in Nat
      /\ Keys' = Keys /\ Registrations' = Registrations
  BY <1>1 DEF RetentionTypes, Keys, Registrations
<1>3. rcase.objects[k] \in Seq(RetainedObjects) /\ Len(rcase.objects[k]) \in Nat
  BY <1>2, CaseFacts
<1>4. /\ written' \in [Keys -> Nat]
      /\ \A q \in Keys : written'[q] <= Len(rcase.objects[q]) /\ written[q] <= written'[q]
  BY <1>1, <1>2, <1>3 DEF RetentionTypes
<1>5. RetentionTypes'
  BY <1>1, <1>2, <1>4 DEF RetentionTypes, feedVars, askingVars
<1>6. ASSUME NEW q \in Keys PROVE Range(Published(q)) \subseteq Range(Published(q))'
  <2>1. Range(Published(q)) = {rcase.objects[q][i] : i \in 1 .. written[q]} /\ written[q] \in Nat
    BY PublishedFacts
  <2>2. Range(Published(q))' = {rcase'.objects[q][i] : i \in 1 .. written'[q]}
    <3>1. q \in Keys'
      BY <1>2
    <3>2. /\ rcase'.objects[q] \in Seq(RetainedObjects) /\ written'[q] \in Nat
          /\ written'[q] <= Len(rcase'.objects[q])
      BY <1>1, <1>2, <1>4, CaseFacts
    <3>3. /\ Len(Published(q)') = written'[q] /\ Published(q)' \in Seq(RetainedObjects)
          /\ \A i \in 1 .. written'[q] : Published(q)'[i] = rcase'.objects[q][i]
      BY <3>2 DEF Published
    <3>4. DOMAIN Published(q)' = 1 .. written'[q]
      BY <3>2, <3>3
    <3>5. QED
      BY <3>3, <3>4 DEF Range
  <2>3. \A i \in 1 .. written[q] : i \in 1 .. written'[q]
    BY <1>4, <2>1
  <2>4. QED
    BY <1>1, <2>1, <2>2, <2>3
<1>7. QED
  BY <1>4, <1>5, <1>6

\* What is retained stays published while more is.
LEMMA Write_Room ==
  ASSUME RetainedInv, NEW k \in Keys, Write(k)
  PROVE  RetainedInv'
<1>1. RetentionTypes /\ rcase \in RetentionCases
  BY DEF RetainedInv, RetentionTypes
<1>2. UNCHANGED <<rcase, fed, inserting, groups, arrival, bytes, usedBytes, table, guard,
                  askingVars>>
  BY DEF Write, feedVars
<1>3. RetentionTypes' /\ \A q \in Keys : Range(Published(q)) \subseteq Range(Published(q))'
  BY <1>1, Write_Out
<1>4. BudgetInv' /\ GuardInv' /\ Registrations' = Registrations
  BY <1>2 DEF RetainedInv, BudgetInv, GuardInv, Registrations, Keys
<1>5. ASSUME NEW s \in Registrations PROVE RoomInv(s)'
  <2>1. rcase.key[s] \in Keys
    BY <1>1, CaseFacts
  <2>2. OutOf(s) \subseteq OutOf(s)'
    BY <1>2, <1>3, <2>1 DEF OutOf
  <2>3. QED
    BY <1>2, <2>2, RoomSame DEF RetainedInv
<1>6. QED
  BY <1>3, <1>4, <1>5 DEF RetainedInv

\* Nothing comes to nothing.
LEMMA TotalOfNothing ==
  ASSUME NEW S, IsFiniteSet(S), NEW w, \A x \in S : w[x] = 0
  PROVE  TotalOf(w, S) = 0
<1> DEFINE h == [s \in SUBSET S |-> 0]
<1>1. PICK g : Summed(g, w, S) /\ TotalOf(w, S) = g[S]
  BY TotalIsSummed
<1>2. \A s \in SUBSET S : s # {} => Picked(s) \in S /\ s \ {Picked(s)} \in SUBSET S
  BY DEF Picked
<1>3. \A s \in SUBSET S : s # {} => w[Picked(s)] + h[s \ {Picked(s)}] = 0
  BY <1>2
<1>4. h = [s \in SUBSET S |-> IF s = {} THEN 0 ELSE w[Picked(s)] + h[s \ {Picked(s)}]]
  BY <1>3
<1>5. Summed(h, w, S)
  BY <1>4 DEF Summed
<1>6. \A s \in SUBSET S : g[s] = h[s]
  BY <1>1, <1>5, SummedAgree
<1>7. QED
  BY <1>1, <1>6

\* Nothing is retained at first.
LEMMA Init_Room ==
  ASSUME RetentionInit
  PROVE  RetainedInv
<1>1. PICK c \in RetentionCases : RetentionStart(c)
  BY DEF RetentionInit
<1>2. rcase = c /\ rcase \in RetentionCases
  BY <1>1 DEF RetentionStart
<1>3. /\ written = [k \in Keys |-> 0] /\ fed = [r \in Registrations |-> {}]
      /\ inserting = [r \in Registrations |-> NoInsert] /\ groups = [r \in Registrations |-> {}]
      /\ arrival = [r \in Registrations |-> <<>>] /\ bytes = [r \in Registrations |-> 0]
      /\ usedBytes = 0
      /\ table = [k \in Keys |-> NoTrack] /\ guard = [r \in Registrations |-> "none"]
      /\ stage = "start" /\ track = NoTrack
  BY <1>1, <1>2 DEF RetentionStart, Keys, Registrations
<1>4. \A k \in Keys : Len(rcase.objects[k]) \in Nat
  BY <1>2, CaseFacts
<1>5. RetentionTypes
  BY <1>2, <1>3, <1>4 DEF RetentionTypes
<1>6. BudgetInv
  <2>1. IsFiniteSet(Registrations) /\ rcase.totalBytes \in Nat /\ \A r \in Registrations : bytes[r] = 0
    BY <1>2, <1>3, CaseFacts
  <2>2. TotalOf(bytes, Registrations) = 0
    BY <2>1, TotalOfNothing
  <2>3. QED
    BY <1>3, <2>1, <2>2 DEF BudgetInv
<1>7. GuardInv
  BY <1>2, <1>3, CaseFacts DEF GuardInv
<1>8. ASSUME NEW r \in Registrations PROVE RoomInv(r)
  <2>1. groups[r] = {} /\ bytes[r] = 0 /\ arrival[r] = <<>> /\ inserting[r] = NoInsert
    BY <1>3
  <2>2. inserting[r].stage = "none"
    BY <2>1 DEF NoInsert
  <2>3. /\ IsFiniteSet({}) /\ Cost({}) = 0 /\ Len(<<>>) = 0 /\ rcase.trackBytes \in Nat
        /\ rcase.groups \in Nat
    BY <1>2, FS_EmptySet, CostOfNone, CaseFacts
  <2>4. Range(<<>>) = {} /\ IsInjective(<<>>)
    BY DEF Range, IsInjective
  <2>5. QED
    BY <2>1, <2>2, <2>3, <2>4 DEF RoomInv
<1>9. QED
  BY <1>5, <1>6, <1>7, <1>8 DEF RetainedInv

\* A FETCH reads what is retained, and holds a track.
LEMMA Asking_Room ==
  ASSUME RetainedInv,
         \/ LookupRetained \/ ReadLargest \/ CollectObjects
         \/ ServeUpstream \/ RoutingFails \/ ServeAlone \/ FetchClosed
  PROVE  RetainedInv'
<1>1. RetentionTypes /\ rcase \in RetentionCases
  BY DEF RetainedInv, RetentionTypes
<1>2. UNCHANGED <<rcase, written, fed, inserting, groups, arrival, bytes, usedBytes, table, guard>>
  BY DEF LookupRetained, ReadLargest, CollectObjects, ServeUpstream, RoutingFails, ServeAlone,
     FetchClosed, feedVars
<1>3. stage' \in {"start", "found", "planning", "opening", "answered", "rejected", "closed"}
  BY <1>1 DEF LookupRetained, ReadLargest, CollectObjects, ServeUpstream, RoutingFails,
     ServeAlone, FetchClosed,
              ServeRetained, LeaveUnserved
<1>4. track' \in Registrations \cup {NoTrack}
  <2>1. CASE LookupRetained
    <3>1. ask.key \in Keys /\ track' = table[ask.key]
      BY <1>1, <2>1, CaseFacts DEF LookupRetained
    <3>2. QED
      BY <1>1, <3>1 DEF RetentionTypes
  <2>2. CASE ReadLargest
    BY <1>1, <2>2 DEF ReadLargest, RetentionTypes
  <2>3. CASE CollectObjects
    BY <1>1, <2>3 DEF CollectObjects, RetentionTypes
  <2>4. CASE ServeUpstream \/ RoutingFails \/ ServeAlone \/ FetchClosed
    BY <1>1, <2>4 DEF ServeUpstream, RoutingFails, ServeAlone, FetchClosed, RetentionTypes
  <2>5. QED
    BY <2>1, <2>2, <2>3, <2>4
<1>5. /\ fed' \in [Registrations -> SUBSET Nat]
      /\ \A r \in Registrations : fed'[r] \subseteq DOMAIN rcase.objects[rcase.key[r]]
  BY <1>1, <1>2 DEF RetentionTypes
<1>6. QED
  BY <1>2, <1>3, <1>4, <1>5, Retained_Same

\* The largest of finitely many naturals.
LEMMA MaxOf ==
  ASSUME NEW S \in SUBSET Nat, IsFiniteSet(S), S # {}
  PROVE  Max(S) \in S /\ \A n \in S : Max(S) >= n
<1> DEFINE After(a, b) == a > b
           R == {p \in S \X S : After(p[1], p[2])}
<1>1. \A a, b \in S : <<a, b>> \in R <=> After(a, b)
  BY Zenon
<1>2. (\A a, b \in S : a = b \/ After(a, b) \/ After(b, a))
      /\ \A a, b, c \in S : After(a, b) /\ After(b, c) => After(a, c)
  OBVIOUS
<1>3. \A a, b \in S : After(a, b) => a >= b
  OBVIOUS
<1> HIDE DEF R, After
<1>4. \E a \in S : \A b \in S \ {a} : <<a, b>> \in R
  <2>1. TotalOn(R, S)
    BY <1>1, <1>2, Zenon DEF TotalOn
  <2>2. \A q : TotalOn(q, S) => \E a \in S : \A b \in S \ {a} : <<a, b>> \in q
    BY FirstOf
  <2>3. QED
    BY <2>1, <2>2, Zenon
<1>5. PICK a \in S : \A b \in S \ {a} : <<a, b>> \in R
  BY <1>4
<1>6. \A b \in S : b # a => a >= b
  BY <1>1, <1>3, <1>5, Zenon
<1>7. a >= a
  OBVIOUS
<1>8. \A b \in S : a >= b
  BY <1>6, <1>7, Zenon
<1>9. QED
  BY <1>8 DEF Max

\* What is retained keeps its types, its limits and windows, and its place in the table.
LEMMA RetainedSound ==
  ASSUME RetainedInv, CreatedInv
  PROVE  RetentionTypeOK /\ RetentionSound
<1>1. RetentionTypes /\ rcase \in RetentionCases
  BY DEF RetainedInv, RetentionTypes
<1>2. RetentionTypeOK
  <2>1. \A r \in Registrations : inserting[r].stage \in {"none", "trying", "trimming"}
    BY <1>1 DEF RetentionTypes, NoInsert, Inserts
  <2>2. ASSUME NEW r \in Registrations PROVE groups[r] \subseteq Range(rcase.objects[rcase.key[r]])
    <3>1. rcase.key[r] \in Keys /\ groups[r] \subseteq OutOf(r)
      BY <1>1, CaseFacts DEF RetainedInv, RoomInv
    <3>2. QED
      BY <1>1, <3>1, PublishedFacts DEF OutOf, Range
  <2>3. \A k \in Keys : written[k] \in 0 .. Len(rcase.objects[k])
    BY <1>1, CaseFacts DEF RetentionTypes
  <2>4. QED
    BY <1>1, <2>1, <2>2, <2>3 DEF RetentionTypeOK, RetentionTypes, CreatedInv
<1>3. usedBytes = MapThenSumSet(LAMBDA r : bytes[r], Registrations) /\ usedBytes <= Limits.totalBytes
  BY DEF RetainedInv, BudgetInv, TotalOf, Limits
<1>4. ASSUME NEW r \in Registrations
      PROVE  /\ bytes[r] = Cost(groups[r]) /\ bytes[r] <= Limits.trackBytes
             /\ Range(arrival[r]) = {o.group : o \in groups[r]} /\ IsInjective(arrival[r])
             /\ Len(arrival[r]) <= Limits.groups + (IF inserting[r].stage = "trimming" THEN 1 ELSE 0)
             /\ inserting[r].stage = "trying" /\ inserting[r].had
                  => inserting[r].object.group \in Range(arrival[r])
  <2>1. RoomInv(r)
    BY DEF RetainedInv
  <2>2. ASSUME inserting[r].stage = "trying", inserting[r].had
        PROVE  inserting[r].object.group \in Range(arrival[r])
    <3>1. /\ inserting[r].older < Len(arrival[r])
          /\ arrival[r][inserting[r].older + 1] = inserting[r].object.group
      BY <2>1, <2>2 DEF RoomInv
    <3>2. inserting[r].older \in Nat /\ arrival[r] \in Seq(Nat)
      BY <1>1, <2>2 DEF RetentionTypes, NoInsert, Inserts
    <3>3. inserting[r].older + 1 \in DOMAIN arrival[r]
      BY <3>1, <3>2
    <3>4. QED
      BY <3>1, <3>3 DEF Range
  <2>3. QED
    BY <2>1, <2>2 DEF RoomInv, Limits
<1>5. ASSUME NEW k \in Keys,
             NEW taken, taken = {r \in Registrations : rcase.key[r] = k /\ guard[r] # "none"}, taken # {},
             rcase.key[Max(taken)] = k, guard[Max(taken)] = "held"
      PROVE  table[k] = Max(taken)
  <2>1. taken \in SUBSET Nat /\ IsFiniteSet(taken) /\ Registrations \subseteq Nat
    <3>1. IsFiniteSet(Registrations) /\ Registrations \subseteq Nat /\ taken \subseteq Registrations
      BY <1>1, <1>5, CaseFacts
    <3>2. QED
      BY <3>1, FS_Subset
  <2>2. Max(taken) \in taken /\ \A n \in taken : Max(taken) >= n
    BY <1>5, <2>1, MaxOf
  <2>3. \A s \in Registrations : Max(taken) < s /\ rcase.key[s] = rcase.key[Max(taken)] => guard[s] = "none"
    BY <1>5, <2>1, <2>2
  <2>4. Max(taken) \in Registrations
    BY <1>5, <2>2
  <2>5. QED
    BY <1>5, <2>3, <2>4 DEF RetainedInv, GuardInv
<1>6. QED
  BY <1>2, <1>3, <1>4, <1>5 DEF RetentionSound

-----------------------------------------------------------------------------
(* One FETCH                                                               *)

\* What it must find: the whole objects of its range that were there when it came.
Wanted ==
  {l \in {At(o) : o \in {x \in Range(SubSeq(rcase.objects[ask.key], 1, told)) : x.whole}} :
     UpTo(ask.start, l) /\ UpTo(l, InclusiveEnd(ask.end))}
Said(end) == {l \in Wanted : UpTo(l, InclusiveEnd(end))}
There == {At(o) : o \in Range(Published(ask.key))}
Planned == RangeOf(ask.start, largest.last)
PlannedFirst == {l \in Planned : RespBefore(l, unserved.first)}

\* The end that is planned: the last location before it is the last of the range, and no wanted
\* object lies after it when the publisher's largest location is the largest there was.
PlannedEnd ==
  /\ largest.last \in Locations /\ largest.last = InclusiveEnd(largest.end)
  /\ KnowsLargest(ask.key) => Wanted \subseteq Said(largest.end)

(* The range that is planned runs to its end, and what a plan leaves         *)
(* unserved begins after what it has found.                                  *)
AskInv ==
  /\ told \in Nat
  /\ stage \in {"found", "planning"} => track \in Registrations /\ rcase.key[track] = ask.key
  /\ stage \in {"found", "planning", "opening", "answered"} => ask.key \in Keys
  /\ stage \in {"found", "planning", "opening", "answered"} => told <= written[ask.key]
  /\ stage = "planning" => PlannedEnd
  /\ stage = "opening" /\ unserved.kind = "Partial" =>
       /\ PlannedEnd /\ unserved.end = largest.end /\ unserved.first \in Planned
       /\ PlannedFirst \subseteq There /\ unserved.objects = InOrder(PlannedFirst)
  /\ stage = "answered" =>
       /\ Range(answer.objects) \subseteq There
       /\ \A i, j \in DOMAIN answer.objects : i < j => RespBefore(answer.objects[i], answer.objects[j])
       /\ answer.rest # "unknown" => Said(answer.end) \subseteq Range(answer.objects)
       /\ answer.rest = "unknown" =>
            \A l \in Said(answer.end) : (\E i \in DOMAIN answer.objects : RespBefore(l, answer.objects[i]))
                                          => l \in Range(answer.objects)
       /\ KnowsLargest(ask.key) => Wanted \subseteq Said(answer.end)

\* The objects have locations.
LEMMA AtLocation ==
  ASSUME NEW o \in RetainedObjects
  PROVE  At(o) \in Locations /\ At(o)[2] \in 0 .. END_OF_GROUP
BY RetentionAssumption DEF RetainedObjects, At, Locations

\* What a FETCH wants is there.
LEMMA WantedThere ==
  ASSUME RetentionTypes, AskInv, stage \in {"found", "planning", "opening", "answered"}
  PROVE  /\ There \subseteq Locations
         /\ \A l \in Wanted : l \in There /\ l \in Locations /\ l[2] \in 0 .. END_OF_GROUP
                              /\ UpTo(ask.start, l) /\ UpTo(l, InclusiveEnd(ask.end))
         /\ \A l \in Wanted : l \in {At(o) : o \in {x \in Range(Published(ask.key)) : x.whole}}
<1>1. ask.key \in Keys /\ told \in Nat /\ told <= written[ask.key] /\ rcase \in RetentionCases
  BY DEF AskInv, RetentionTypes
<1>2. /\ written[ask.key] \in Nat
      /\ Range(Published(ask.key)) = {rcase.objects[ask.key][i] : i \in 1 .. written[ask.key]}
      /\ Range(Published(ask.key)) \subseteq RetainedObjects
  BY <1>1, PublishedFacts
<1>3. rcase.objects[ask.key] \in Seq(RetainedObjects) /\ written[ask.key] <= Len(rcase.objects[ask.key])
  BY <1>1, CaseFacts DEF RetentionTypes
<1>4. Range(SubSeq(rcase.objects[ask.key], 1, told)) = {rcase.objects[ask.key][i] : i \in 1 .. told}
  <2> DEFINE s == SubSeq(rcase.objects[ask.key], 1, told)
  <2>1. /\ s \in Seq(RetainedObjects) /\ Len(s) = told
        /\ \A i \in 1 .. told : s[i] = rcase.objects[ask.key][i]
    BY <1>1, <1>2, <1>3
  <2>2. DOMAIN s = 1 .. told
    BY <1>1, <2>1
  <2>3. QED
    BY <2>1, <2>2 DEF Range
<1>5. \A i \in 1 .. told : i \in 1 .. written[ask.key]
  BY <1>1, <1>2
<1>6. Range(SubSeq(rcase.objects[ask.key], 1, told)) \subseteq Range(Published(ask.key))
  BY <1>2, <1>4, <1>5
<1>7. There \subseteq Locations
  BY <1>2, AtLocation DEF There
<1>8. ASSUME NEW l \in Wanted
      PROVE  /\ l \in There /\ l \in Locations /\ l[2] \in 0 .. END_OF_GROUP
             /\ UpTo(ask.start, l) /\ UpTo(l, InclusiveEnd(ask.end))
             /\ l \in {At(o) : o \in {x \in Range(Published(ask.key)) : x.whole}}
  <2>1. PICK o \in Range(SubSeq(rcase.objects[ask.key], 1, told)) :
            o.whole /\ l = At(o) /\ UpTo(ask.start, l) /\ UpTo(l, InclusiveEnd(ask.end))
    BY <1>8 DEF Wanted
  <2>2. o \in Range(Published(ask.key)) /\ o \in RetainedObjects
    BY <1>2, <1>6
  <2>3. QED
    BY <2>1, <2>2, AtLocation DEF There
<1>9. QED
  BY <1>7, <1>8

\* What a plan says it covers lies in its range.
LEMMA SaidPlanned ==
  ASSUME RetentionTypes, AskInv, stage \in {"found", "planning", "opening", "answered"},
         NEW start, start = ask.start, NEW end, NEW last \in Locations, last = InclusiveEnd(end)
  PROVE  Said(end) \subseteq RangeOf(start, last)
<1>1. SUFFICES ASSUME NEW l \in Wanted, UpTo(l, last) PROVE l \in RangeOf(start, last)
  BY DEF Said
<1>2. l \in Locations /\ l[2] \in 0 .. END_OF_GROUP /\ UpTo(start, l)
  BY WantedThere
<1>3. start \in Locations
  BY CaseFacts DEF RetentionTypes
<1>4. l = <<l[1], l[2]>> /\ l[1] \in start[1] .. last[1]
  BY <1>1, <1>2, <1>3 DEF Locations, UpTo, Before
<1>5. QED
  BY <1>1, <1>2, <1>4 DEF RangeOf

\* What these stand for changes only with what was written and told.
LEMMA AskFrame ==
  ASSUME rcase' = rcase
  PROVE  /\ Registrations' = Registrations /\ Keys' = Keys /\ ask' = ask
         /\ \A a, b : RespBefore(a, b)' = RespBefore(a, b)
         /\ \A S : InOrder(S)' = InOrder(S)
         /\ written' = written => There' = There
         /\ told' = told => Wanted' = Wanted
         /\ told' = told => \A e : Said(e)' = Said(e)
         /\ \A k : KnowsLargest(k)' <=> KnowsLargest(k)
         /\ (told' = told /\ largest' = largest) => (PlannedEnd' <=> PlannedEnd)
         /\ largest' = largest => Planned' = Planned
         /\ (largest' = largest /\ unserved' = unserved) => PlannedFirst' = PlannedFirst
<1>1. Registrations' = Registrations /\ Keys' = Keys /\ ask' = ask
  BY DEF Registrations, Keys, ask
<1>2. \A a, b : RespBefore(a, b)' = RespBefore(a, b)
  BY <1>1 DEF RespBefore
<1>3. \A S : InOrder(S)' = InOrder(S)
  BY <1>1 DEF InOrder, RespBefore
<1>4. written' = written => There' = There
  BY <1>1 DEF There, Published
<1>5. told' = told => Wanted' = Wanted
  BY <1>1 DEF Wanted
<1>6. largest' = largest => Planned' = Planned
  BY <1>1 DEF Planned
<1>7. (largest' = largest /\ unserved' = unserved) => PlannedFirst' = PlannedFirst
  BY <1>1, <1>6 DEF PlannedFirst, RespBefore
<1>8. told' = told => \A e : Said(e)' = Said(e)
  BY <1>5 DEF Said
<1>9. \A k : KnowsLargest(k)' <=> KnowsLargest(k)
  BY DEF KnowsLargest
<1>10. (told' = told /\ largest' = largest) => (PlannedEnd' <=> PlannedEnd)
  <2>1. SUFFICES ASSUME told' = told, largest' = largest PROVE PlannedEnd' <=> PlannedEnd
    OBVIOUS
  <2>2. Said(largest.end)' = Said(largest.end) /\ (KnowsLargest(ask.key)' <=> KnowsLargest(ask.key))
    BY <1>1, <1>5, <2>1 DEF Said, KnowsLargest
  <2>3. QED
    BY <1>5, <2>1, <2>2 DEF PlannedEnd
<1>11. QED
  BY <1>1, <1>2, <1>3, <1>4, <1>5, <1>6, <1>7, <1>8, <1>9, <1>10

\* What a FETCH has stays right while more is published.
LEMMA Ask_Same ==
  ASSUME AskInv, rcase' = rcase, UNCHANGED askingVars,
         \A k \in Keys : written[k] \in Nat /\ written'[k] \in Nat,
         \A k \in Keys : written[k] <= written'[k], ask.key \in Keys => There \subseteq There'
  PROVE  AskInv'
<1>1. /\ stage' = stage /\ track' = track /\ largest' = largest /\ unserved' = unserved
      /\ told' = told /\ answer' = answer
  BY DEF askingVars
<1>2. /\ Registrations' = Registrations /\ Keys' = Keys /\ ask' = ask /\ Wanted' = Wanted
      /\ Planned' = Planned
      /\ PlannedFirst' = PlannedFirst
      /\ InOrder(PlannedFirst)' = InOrder(PlannedFirst)
      /\ \A a, b : RespBefore(a, b)' = RespBefore(a, b)
      /\ PlannedEnd' <=> PlannedEnd
  <2>1. InOrder(PlannedFirst)' = InOrder(PlannedFirst)
    BY <1>1, AskFrame DEF InOrder, PlannedFirst, RespBefore, ask, Planned
  <2>2. QED
    BY <1>1, <2>1, AskFrame
<1>3. told \in Nat /\ (stage \in {"found", "planning", "opening", "answered"} => told <= written'[ask.key])
  BY DEF AskInv
<1>4. stage = "opening" /\ unserved.kind = "Partial" => PlannedFirst \subseteq There'
  BY DEF AskInv
<1>5. stage = "answered" => Range(answer.objects) \subseteq There'
  BY DEF AskInv
<1>6. /\ stage = "answered" =>
           \A i, j \in DOMAIN answer.objects : i < j => RespBefore(answer.objects[i], answer.objects[j])'
      /\ stage = "answered" /\ answer.rest = "unknown" =>
            \A l \in Said(answer.end) : (\E i \in DOMAIN answer.objects : RespBefore(l, answer.objects[i])')
                                          => l \in Range(answer.objects)
  BY <1>1, <1>2 DEF AskInv, RespBefore
<1>7. Said(answer.end)' = Said(answer.end) /\ (KnowsLargest(ask.key)' <=> KnowsLargest(ask.key))
  BY <1>1, <1>2 DEF Said, KnowsLargest
<1> HIDE DEF Said, KnowsLargest, PlannedEnd
<1>8. QED
  BY <1>1, <1>2, <1>3, <1>4, <1>5, <1>6, <1>7 DEF AskInv

\* A FETCH begins with nothing.
LEMMA Init_Ask ==
  ASSUME RetentionInit
  PROVE  AskInv
<1>1. stage = "start" /\ told = 0
  BY DEF RetentionInit, RetentionStart
<1>2. QED
  BY <1>1 DEF AskInv

\* What is published later adds nothing to what a FETCH wants.
LEMMA Write_Ask ==
  ASSUME RetentionTypes, AskInv, NEW k \in Keys, Write(k)
  PROVE  AskInv'
<1>1. rcase' = rcase /\ UNCHANGED askingVars
  BY DEF Write
<1>2. RetentionTypes' /\ (\A q \in Keys : written[q] <= written'[q])
      /\ \A q \in Keys : Range(Published(q)) \subseteq Range(Published(q))'
  BY Write_Out
<1>3. \A q \in Keys : written[q] \in Nat /\ written'[q] \in Nat
  BY <1>1, <1>2 DEF RetentionTypes, Keys
<1>4. ask.key \in Keys => There \subseteq There'
  BY <1>1, <1>2 DEF There, ask, Published
<1>5. QED
  BY <1>1, <1>2, <1>3, <1>4, Ask_Same

\* FetchRetention::lookup finds a registration of the track that was asked for.
LEMMA LookupRetained_Ask ==
  ASSUME RetainedInv, AskInv, LookupRetained
  PROVE  AskInv'
<1>1. RetentionTypes /\ rcase \in RetentionCases /\ GuardInv
  BY DEF RetainedInv, RetentionTypes
<1>2. /\ ask.key \in Keys /\ track' = table[ask.key] /\ told' = written[ask.key] /\ rcase' = rcase
      /\ written' = written
  BY <1>1, CaseFacts DEF LookupRetained
<1>3. \/ table[ask.key] = NoTrack /\ stage' = "opening" /\ unserved' = [kind |-> "NotRetained"]
      \/ table[ask.key] # NoTrack /\ stage' = "found"
  BY DEF LookupRetained, LeaveUnserved
<1>4. told' \in Nat /\ table[ask.key] \in Registrations \cup {NoTrack} /\ told' <= written[ask.key]
  BY <1>1, <1>2 DEF RetentionTypes
<1>5. Registrations' = Registrations /\ Keys' = Keys /\ ask' = ask
  BY <1>2, AskFrame
<1>6. table[ask.key] # NoTrack => table[ask.key] \in Registrations /\ rcase.key[table[ask.key]] = ask.key
  BY <1>1, <1>2, <1>4 DEF GuardInv
<1>7. unserved' = [kind |-> "NotRetained"] => unserved'.kind # "Partial"
  OBVIOUS
<1>8. QED
  BY <1>2, <1>3, <1>4, <1>5, <1>6, <1>7 DEF AskInv

\* What a function takes a finite set to is finite.
LEMMA ImageFinite ==
  ASSUME NEW S, IsFiniteSet(S), NEW f
  PROVE  IsFiniteSet({f[x] : x \in S})
<1> DEFINE T == {f[x] : x \in S}
           g == [x \in S |-> f[x]]
<1>1. g \in Surjection(S, T)
  BY DEF Surjection
<1>2. QED
  BY <1>1, FS_Surjection

\* What is published of a track is finite.
LEMMA PublishedFinite ==
  ASSUME RetentionTypes, NEW k \in Keys
  PROVE  LET out == {At(o) : o \in Range(Published(k))} IN IsFiniteSet(out) /\ out \subseteq Locations
<1> DEFINE out == {At(o) : o \in Range(Published(k))}
           f == [i \in 1 .. written[k] |-> At(rcase.objects[k][i])]
<1>1. /\ written[k] \in Nat /\ Range(Published(k)) = {rcase.objects[k][i] : i \in 1 .. written[k]}
      /\ Range(Published(k)) \subseteq RetainedObjects
  BY PublishedFacts
<1>2. IsFiniteSet(1 .. written[k])
  BY <1>1, FS_Interval
<1>3. IsFiniteSet({f[i] : i \in 1 .. written[k]})
  BY <1>2, ImageFinite
<1>4. out = {f[i] : i \in 1 .. written[k]}
  BY <1>1
<1>5. QED
  BY <1>1, <1>3, <1>4, AtLocation

\* What the live track has is published, and is the largest of it where it can be trusted.
LEMMA LatestIs ==
  ASSUME RetentionTypes, NEW k \in Keys
  PROVE  /\ Latest(k) \subseteq Range(Published(k))
         /\ KnowsLargest(k) =>
              \A o \in Range(Published(k)) : \E x \in Latest(k) : UpTo(At(o), At(x))
<1>1. /\ written[k] \in Nat /\ written[k] <= Len(rcase.objects[k])
      /\ Range(Published(k)) = {rcase.objects[k][i] : i \in 1 .. written[k]}
      /\ \A i \in 1 .. written[k] : i \in DOMAIN rcase.objects[k]
  BY PublishedFacts DEF RetentionTypes
<1>2. CASE rcase.mode[k] = "Datagrams"
  <2>1. Latest(k) = {rcase.objects[k][i] : i \in {written[k]} \ {0}}
    BY <1>2 DEF Latest, LatestDatagram, LatestSubgroups
  <2>2. \A i \in {written[k]} \ {0} : i \in 1 .. written[k]
    BY <1>1
  <2>3. Latest(k) \subseteq Range(Published(k))
    BY <1>1, <2>1, <2>2
  <2>4. ASSUME KnowsLargest(k), NEW i \in 1 .. written[k]
        PROVE  \E x \in Latest(k) : UpTo(At(rcase.objects[k][i]), At(x))
    <3>1. rcase.objects[k][written[k]] \in Latest(k)
      BY <1>1, <2>1, <2>4
    <3>2. i = written[k] \/ i < written[k]
      BY <1>1
    <3>3. written[k] \in 1 .. written[k]
      BY <1>1
    <3>4. UpTo(At(rcase.objects[k][i]), At(rcase.objects[k][written[k]]))
      BY <1>1, <1>2, <2>4, <3>2, <3>3 DEF KnowsLargest, UpTo
    <3>5. QED
      BY <3>1, <3>4
  <2>5. QED
    BY <1>1, <2>3, <2>4
<1>3. CASE rcase.mode[k] # "Datagrams"
  <2>1. Latest(k) \subseteq Range(Published(k))
    BY <1>3 DEF Latest, LatestDatagram, LatestSubgroups
  <2>2. KnowsLargest(k) => Latest(k) = Range(Published(k))
    BY <1>3 DEF Latest, LatestSubgroups, KnowsLargest
  <2>3. QED
    BY <2>1, <2>2 DEF UpTo
<1>4. QED
  BY <1>2, <1>3

\* The largest location of what there is.
LEMMA LargestIs ==
  ASSUME RetainedInv, NEW r \in Registrations
  PROVE  /\ LargestLocation(r) # NoLocation => LargestLocation(r) \in Locations
         /\ KnowsLargest(rcase.key[r]) =>
              \A m \in {At(o) : o \in Range(Published(rcase.key[r]))} : UpTo(m, LargestLocation(r))
<1> DEFINE k == rcase.key[r]
           heard == {At(o) : o \in groups[r] \cup Latest(k)}
           out == {At(o) : o \in Range(Published(k))}
<1>1. RetentionTypes /\ rcase \in RetentionCases /\ RoomInv(r)
  BY DEF RetainedInv, RetentionTypes
<1>2. k \in Keys /\ groups[r] \subseteq Range(Published(k))
  BY <1>1, CaseFacts DEF RoomInv, OutOf
<1>3. Latest(k) \subseteq Range(Published(k))
  BY <1>1, <1>2, LatestIs
<1>4. heard \subseteq out
  BY <1>2, <1>3
<1>5. IsFiniteSet(heard) /\ heard \subseteq Locations /\ out \subseteq Locations
  <2>1. IsFiniteSet(out) /\ out \subseteq Locations
    BY <1>1, <1>2, PublishedFinite
  <2>2. QED
    BY <1>4, <2>1, FS_Subset
<1>6. LargestLocation(r) = IF heard = {} THEN NoLocation ELSE CHOOSE l \in heard : \A m \in heard : UpTo(m, l)
  BY DEF LargestLocation
<1> HIDE DEF heard
<1>7. heard # {} => \E l \in heard : \A m \in heard : UpTo(m, l)
  <2>1. SUFFICES ASSUME heard # {} PROVE \E l \in heard : \A m \in heard : UpTo(m, l)
    OBVIOUS
  <2> DEFINE R == {p \in heard \X heard : Before(p[2], p[1])}
  <2>2. \A a, b \in heard : <<a, b>> \in R <=> Before(b, a)
    BY Zenon
  <2> HIDE DEF R
  <2>3. TotalOn(R, heard)
    BY <1>5, <2>2, BeforeIsOrder, Zenon DEF TotalOn
  <2>4. \A q : TotalOn(q, heard) => \E a \in heard : \A b \in heard \ {a} : <<a, b>> \in q
    BY <1>5, <2>1, FirstOf
  <2>5. PICK l \in heard : \A m \in heard \ {l} : <<l, m>> \in R
    BY <2>3, <2>4, Zenon
  <2>6. \A m \in heard : UpTo(m, l)
    BY <2>2, <2>5, Zenon DEF UpTo
  <2>7. QED
    BY <2>6
<1>8. heard # {} => LargestLocation(r) \in heard /\ \A m \in heard : UpTo(m, LargestLocation(r))
  BY <1>6, <1>7, Zenon
<1>9. ASSUME KnowsLargest(k), NEW o \in Range(Published(k)) PROVE UpTo(At(o), LargestLocation(r))
  <2>1. PICK x \in Latest(k) : UpTo(At(o), At(x))
    BY <1>1, <1>2, <1>9, LatestIs
  <2>2. At(x) \in heard /\ At(o) \in out
    BY DEF heard
  <2>3. /\ At(x) \in Locations /\ At(o) \in Locations /\ LargestLocation(r) \in Locations
        /\ UpTo(At(x), LargestLocation(r))
    BY <1>5, <1>8, <2>2
  <2>4. QED
    BY <2>1, <2>3, BeforeIsOrder DEF UpTo
<1>10. LargestLocation(r) # NoLocation => LargestLocation(r) \in Locations
  BY <1>5, <1>6, <1>8
<1>11. QED
  BY <1>9, <1>10

\* inclusive_end is a location.
LEMMA InclusiveIs ==
  ASSUME NEW l \in Locations
  PROVE  InclusiveEnd(l) \in Locations
BY RetentionAssumption DEF Locations, InclusiveEnd

\* A range is finite.
LEMMA RangeFinite ==
  ASSUME NEW a \in Locations, NEW b \in Locations
  PROVE  IsFiniteSet(RangeOf(a, b)) /\ RangeOf(a, b) \subseteq Locations
<1>1. a[1] \in Nat /\ b[1] \in Nat /\ END_OF_GROUP \in Nat
  BY RetentionAssumption DEF Locations
<1>2. IsFiniteSet(a[1] .. b[1]) /\ IsFiniteSet(0 .. END_OF_GROUP)
  <2>1. \A m, n \in Nat : IsFiniteSet(m .. n)
    BY FS_Interval
  <2>2. QED
    BY <1>1, <2>1
<1>3. IsFiniteSet((a[1] .. b[1]) \X (0 .. END_OF_GROUP))
  BY <1>2, FS_Product
<1>4. IsFiniteSet(RangeOf(a, b))
  BY <1>3, FS_Subset DEF RangeOf
<1>5. RangeOf(a, b) \subseteq Locations
  BY <1>1 DEF RangeOf, Locations
<1>6. QED
  BY <1>4, <1>5

\* plan's first half: the range ends at the largest location or at the end that was asked for,
\* the earlier of the two.
LEMMA ReadLargest_Ask ==
  ASSUME RetainedInv, AskInv, ReadLargest
  PROVE  AskInv'
<1> DEFINE heard == LargestLocation(track)
           last == InclusiveEnd(ask.end)
           end == IF Before(heard, last) THEN <<heard[1], heard[2] + 1>> ELSE ask.end
           upto == IF Before(heard, last) THEN heard ELSE last
<1>1. RetentionTypes /\ rcase \in RetentionCases /\ stage = "found" /\ track \in Registrations
      /\ rcase.key[track] = ask.key /\ ask.key \in Keys /\ told \in Nat /\ told <= written[ask.key]
  BY DEF RetainedInv, RetentionTypes, AskInv, ReadLargest
<1>2. rcase' = rcase /\ written' = written /\ told' = told
  BY DEF ReadLargest
<1>3. /\ Registrations' = Registrations /\ Keys' = Keys /\ ask' = ask /\ There' = There
      /\ Wanted' = Wanted
  BY <1>2, AskFrame
<1>4. \/ stage' = "opening" /\ unserved'.kind # "Partial"
      \/ /\ heard # NoLocation /\ UpTo(ask.start, heard) /\ Before(upto, ask.start)
         /\ stage' = "answered" /\ answer' = [objects |-> <<>>, rest |-> "complete", end |-> end]
      \/ /\ heard # NoLocation /\ UpTo(ask.start, heard) /\ UpTo(ask.start, upto)
         /\ stage' = "planning" /\ track' = track /\ largest' = [last |-> upto, end |-> end]
  BY DEF ReadLargest, ServeRetained, LeaveUnserved
<1>5. /\ heard # NoLocation => heard \in Locations
      /\ KnowsLargest(ask.key) => \A l \in There : UpTo(l, heard)
  <2>1. There = {At(o) : o \in Range(Published(rcase.key[track]))}
    BY <1>1 DEF There
  <2>2. QED
    BY <1>1, <2>1, LargestIs
<1>6. /\ \A l \in Wanted : l \in There /\ l \in Locations /\ UpTo(ask.start, l) /\ UpTo(l, last)
  BY <1>1, WantedThere
<1>7. ask.start \in Locations /\ ask.end \in Locations /\ last \in Locations
  <2>1. ask.start \in Locations /\ ask.end \in Locations
    BY <1>1, CaseFacts
  <2>2. QED
    BY <2>1, InclusiveIs
<1>8. heard # NoLocation => upto \in Locations /\ upto = InclusiveEnd(end)
  <2>1. SUFFICES ASSUME heard # NoLocation PROVE upto \in Locations /\ upto = InclusiveEnd(end)
    OBVIOUS
  <2>2. heard \in Locations
    BY <1>5, <2>1
  <2>3. CASE Before(heard, last)
    <3>1. heard[1] \in Nat /\ heard[2] \in Nat /\ heard = <<heard[1], heard[2]>>
      BY <2>2 DEF Locations
    <3>2. InclusiveEnd(<<heard[1], heard[2] + 1>>) = <<heard[1], heard[2]>>
      BY <3>1 DEF InclusiveEnd
    <3>3. QED
      BY <2>2, <2>3, <3>1, <3>2
  <2>4. CASE ~Before(heard, last)
    BY <1>7, <2>4
  <2>5. QED
    BY <2>3, <2>4
<1> HIDE DEF heard, last
<1>9. KnowsLargest(ask.key) => \A l \in Wanted : UpTo(l, upto)
  BY <1>5, <1>6
<1> HIDE DEF upto, end
<1>10. ASSUME heard # NoLocation PROVE KnowsLargest(ask.key) => Wanted \subseteq Said(end)
  BY <1>8, <1>9, <1>10 DEF Said
<1>11. /\ \A e : Said(e)' = Said(e)
       /\ KnowsLargest(ask.key)' <=> KnowsLargest(ask.key)
  BY <1>2, <1>3, AskFrame DEF KnowsLargest
<1>12. CASE stage' = "opening" /\ unserved'.kind # "Partial"
  BY <1>1, <1>2, <1>3, <1>12 DEF AskInv
<1>13. CASE /\ heard # NoLocation /\ Before(upto, ask.start)
            /\ stage' = "answered" /\ answer' = [objects |-> <<>>, rest |-> "complete", end |-> end]
  <2>1. Said(end) = {}
    <3>1. SUFFICES ASSUME NEW l \in Wanted, UpTo(l, upto) PROVE FALSE
      BY <1>8, <1>13 DEF Said
    <3>2. l \in Locations /\ upto \in Locations /\ UpTo(ask.start, l)
      BY <1>6, <1>8, <1>13
    <3>3. QED
      BY <1>7, <1>13, <3>1, <3>2, BeforeIsOrder DEF UpTo
  <2>2. answer'.objects = <<>> /\ answer'.rest = "complete" /\ answer'.end = end
        /\ Range(<<>>) = {} /\ DOMAIN <<>> = {}
    BY <1>13 DEF Range
  <2>3. Range(answer'.objects) = {} /\ DOMAIN answer'.objects = {}
    BY <2>2
  <2>4. Said(answer.end)' = Said(end)
    BY <1>3, <2>2 DEF Said
  <2> HIDE DEF Said, KnowsLargest
  <2>5. QED
    BY <1>1, <1>2, <1>3, <1>13, <1>10, <1>11, <2>1, <2>2, <2>3, <2>4 DEF AskInv
<1>14. CASE /\ heard # NoLocation /\ UpTo(ask.start, upto)
            /\ stage' = "planning" /\ track' = track /\ largest' = [last |-> upto, end |-> end]
  <2>1. largest'.last = upto /\ largest'.end = end /\ upto \in Locations /\ upto = InclusiveEnd(end)
    BY <1>8, <1>14
  <2>2. Said(largest.end)' = Said(end)
    BY <1>3, <2>1 DEF Said
  <2>3. PlannedEnd'
    BY <1>3, <1>14, <1>10, <1>11, <2>1, <2>2 DEF PlannedEnd
  <2> HIDE DEF PlannedEnd
  <2>4. QED
    BY <1>1, <1>2, <1>3, <1>14, <2>3 DEF AskInv
<1>15. QED
  BY <1>4, <1>12, <1>13, <1>14

\* plan's second half: what is retained is published, and the first location that is not
\* retained comes after the rest of the plan.
LEMMA CollectObjects_Ask ==
  ASSUME RetainedInv, AskInv, CollectObjects
  PROVE  AskInv'
<1> DEFINE missing == Planned \ {At(o) : o \in groups[track]}
           first == CHOOSE l \in missing : \A m \in missing \ {l} : RespBefore(l, m)
           before == {l \in Planned : RespBefore(l, first)}
<1>1. /\ RetentionTypes /\ rcase \in RetentionCases /\ stage = "planning"
      /\ track \in Registrations /\ RoomInv(track)
      /\ rcase.key[track] = ask.key /\ ask.key \in Keys /\ told \in Nat /\ told <= written[ask.key]
      /\ PlannedEnd /\ largest.last \in Locations
  BY DEF PlannedEnd, RetainedInv, RetentionTypes, AskInv, CollectObjects
<1>2. rcase' = rcase /\ written' = written /\ told' = told /\ largest' = largest
  BY DEF CollectObjects
<1>3. /\ Registrations' = Registrations /\ Keys' = Keys /\ ask' = ask /\ There' = There
      /\ Wanted' = Wanted
      /\ Planned' = Planned /\ (\A a, b : RespBefore(a, b)' = RespBefore(a, b))
      /\ \A S : InOrder(S)' = InOrder(S)
      /\ (\A e : Said(e)' = Said(e)) /\ PlannedEnd' /\ (KnowsLargest(ask.key)' <=> KnowsLargest(ask.key))
  BY <1>1, <1>2, AskFrame DEF KnowsLargest
<1>4. \/ /\ missing = {} /\ stage' = "answered"
         /\ answer' = [objects |-> InOrder(Planned), rest |-> "complete", end |-> largest.end]
      \/ /\ missing # {} /\ stage' = "opening"
         /\ unserved' = [kind |-> "Partial", first |-> first, end |-> largest.end, objects |-> InOrder(before)]
  BY DEF CollectObjects, ServeRetained, LeaveUnserved, Planned
<1>5. IsFiniteSet(Planned) /\ Planned \subseteq Locations
  <2>1. ask.start \in Locations
    BY <1>1, CaseFacts
  <2>2. QED
    BY <1>1, <2>1, RangeFinite DEF Planned
<1>6. {At(o) : o \in groups[track]} \subseteq There
  BY <1>1 DEF RoomInv, OutOf, There
<1>7. CASE /\ missing = {} /\ stage' = "answered"
           /\ answer' = [objects |-> InOrder(Planned), rest |-> "complete", end |-> largest.end]
  <2>1. Planned \subseteq There
    BY <1>6, <1>7
  <2>2. answer'.objects = InOrder(Planned) /\ answer'.rest = "complete" /\ answer'.end = largest.end
    BY <1>7
  <2>3. /\ Range(InOrder(Planned)) = Planned
        /\ \A i, j \in DOMAIN InOrder(Planned) : i < j => RespBefore(InOrder(Planned)[i], InOrder(Planned)[j])
    BY <1>5, InOrderLists
  <2>4. PICK s : s = InOrder(Planned)
    OBVIOUS
  <2>5. /\ answer'.objects = s /\ Range(s) = Planned
        /\ \A i, j \in DOMAIN s : i < j => RespBefore(s[i], s[j])'
    BY <1>3, <2>2, <2>3, <2>4
  <2>6. (\A i, j \in DOMAIN answer.objects : i < j => RespBefore(answer.objects[i], answer.objects[j]))'
    BY <2>5 DEF RespBefore
  <2>7. Said(largest.end) \subseteq Planned
    BY <1>1, SaidPlanned DEF PlannedEnd, Planned
  <2>8. Said(answer.end)' = Said(largest.end)
    BY <1>3, <2>2 DEF Said
  <2>9. KnowsLargest(ask.key) => Wanted \subseteq Said(largest.end)
    BY <1>1 DEF PlannedEnd
  <2> HIDE DEF Said, KnowsLargest, PlannedEnd
  <2>10. QED
    BY <1>1, <1>2, <1>3, <1>7, <2>1, <2>2, <2>5, <2>6, <2>7, <2>8, <2>9 DEF AskInv
<1>8. CASE /\ missing # {} /\ stage' = "opening"
           /\ unserved' = [kind |-> "Partial", first |-> first, end |-> largest.end, objects |-> InOrder(before)]
  <2>1. IsFiniteSet(missing) /\ missing \subseteq Locations /\ missing \subseteq Planned
    BY <1>5, FS_Subset
  <2>2. first \in missing /\ \A m \in missing \ {first} : RespBefore(first, m)
    <3> HIDE DEF missing
    <3> DEFINE R == {p \in missing \X missing : RespBefore(p[1], p[2])}
    <3>1. \A a, b \in missing : <<a, b>> \in R <=> RespBefore(a, b)
      BY Zenon
    <3> HIDE DEF R
    <3>2. TotalOn(R, missing)
      BY <2>1, <3>1, RespIsOrder, Zenon DEF TotalOn
    <3>3. \A q : TotalOn(q, missing) => \E a \in missing : \A b \in missing \ {a} : <<a, b>> \in q
      BY <1>8, <2>1, FirstOf
    <3>4. PICK l \in missing : \A m \in missing \ {l} : <<l, m>> \in R
      BY <3>2, <3>3, Zenon
    <3>5. \A m \in missing \ {l} : RespBefore(l, m)
      BY <3>1, <3>4, Zenon
    <3>6. QED
      BY <3>5, Zenon
  <2> HIDE DEF first
  <2>3. before \subseteq There
    <3>1. SUFFICES ASSUME NEW l \in Planned, RespBefore(l, first) PROVE l \notin missing
      BY <1>6
    <3>2. l \in Locations /\ first \in Locations
      BY <1>5, <2>1, <2>2
    <3>3. ~RespBefore(first, l) /\ l # first
      BY <3>1, <3>2, RespIsOrder
    <3>4. QED
      BY <2>2, <3>3
  <2>4. /\ unserved'.first = first /\ unserved'.kind = "Partial" /\ unserved'.objects = InOrder(before)
        /\ unserved'.end = largest.end
    BY <1>8
  <2>5. PlannedFirst' = before
    BY <1>2, <1>3, <2>4 DEF PlannedFirst, RespBefore, ask
  <2>6. InOrder(PlannedFirst)' = InOrder(before)
    BY <1>2, <2>5 DEF InOrder, RespBefore, ask
  <2>7. first \in Planned
    BY <2>1, <2>2
  <2> HIDE DEF before, Said, KnowsLargest, PlannedEnd
  <2>8. QED
    BY <1>1, <1>2, <1>3, <1>8, <2>3, <2>4, <2>5, <2>6, <2>7 DEF AskInv
<1>9. QED
  BY <1>4, <1>7, <1>8

\* Two lists in order, the one before the other, are one list in order.
LEMMA ListsMeet ==
  ASSUME NEW S, NEW T, IsFiniteSet(S), IsFiniteSet(T), S \subseteq Locations, T \subseteq Locations,
         \A a \in S, b \in T : RespBefore(a, b)
  PROVE  LET s == InOrder(S) \o InOrder(T)
         IN Range(s) = S \cup T /\ \A i, j \in DOMAIN s : i < j => RespBefore(s[i], s[j])
<1> DEFINE p == InOrder(S)
           q == InOrder(T)
           s == p \o q
<1>1. /\ p \in Seq(Locations) /\ Range(p) = S /\ \A i, j \in DOMAIN p : i < j => RespBefore(p[i], p[j])
      /\ q \in Seq(Locations) /\ Range(q) = T /\ \A i, j \in DOMAIN q : i < j => RespBefore(q[i], q[j])
  BY InOrderLists
<1> HIDE DEF p, q
<1>2. /\ s \in Seq(Locations) /\ Len(s) = Len(p) + Len(q) /\ Len(p) \in Nat /\ Len(q) \in Nat
      /\ DOMAIN p = 1 .. Len(p) /\ DOMAIN q = 1 .. Len(q) /\ DOMAIN s = 1 .. Len(p) + Len(q)
  BY <1>1
<1>3. /\ \A i \in 1 .. Len(p) : s[i] = p[i]
      /\ \A i \in Len(p) + 1 .. Len(p) + Len(q) : s[i] = q[i - Len(p)]
  BY <1>1, <1>2
<1> HIDE DEF s
<1>4. (\A i \in 1 .. Len(p) : p[i] \in S) /\ \A i \in 1 .. Len(q) : q[i] \in T
  BY <1>1, <1>2 DEF Range
<1>5. Range(s) = S \cup T
  <2>1. Range(s) \subseteq S \cup T
    <3>1. SUFFICES ASSUME NEW i \in 1 .. Len(p) + Len(q) PROVE s[i] \in S \cup T
      BY <1>2 DEF Range
    <3>2. CASE i <= Len(p)
      BY <1>2, <1>3, <1>4, <3>2
    <3>3. CASE i > Len(p)
      <4>1. i \in Len(p) + 1 .. Len(p) + Len(q) /\ i - Len(p) \in 1 .. Len(q)
        BY <1>2, <3>3
      <4>2. QED
        BY <1>3, <1>4, <4>1
    <3>4. QED
      BY <1>2, <3>2, <3>3
  <2>2. ASSUME NEW i \in 1 .. Len(p) PROVE p[i] \in Range(s)
    <3>1. i \in DOMAIN s /\ s[i] = p[i]
      BY <1>2, <1>3
    <3>2. QED
      BY <3>1 DEF Range
  <2>3. ASSUME NEW i \in 1 .. Len(q) PROVE q[i] \in Range(s)
    <3>1. /\ i + Len(p) \in DOMAIN s /\ i + Len(p) \in Len(p) + 1 .. Len(p) + Len(q)
          /\ (i + Len(p)) - Len(p) = i
      BY <1>2
    <3>2. s[i + Len(p)] = q[i]
      BY <1>3, <3>1
    <3>3. QED
      BY <3>1, <3>2 DEF Range
  <2>4. S \subseteq Range(s) /\ T \subseteq Range(s)
    <3>1. S = {p[i] : i \in 1 .. Len(p)} /\ T = {q[i] : i \in 1 .. Len(q)}
      BY <1>1, <1>2 DEF Range
    <3>2. QED
      BY <2>2, <2>3, <3>1
  <2>5. QED
    BY <2>1, <2>4
<1>6. ASSUME NEW i \in DOMAIN s, NEW j \in DOMAIN s, i < j PROVE RespBefore(s[i], s[j])
  <2>1. i \in 1 .. Len(p) + Len(q) /\ j \in 1 .. Len(p) + Len(q)
    BY <1>2
  <2>2. CASE j <= Len(p)
    <3>1. i \in DOMAIN p /\ j \in DOMAIN p /\ s[i] = p[i] /\ s[j] = p[j]
      BY <1>2, <1>3, <1>6, <2>1, <2>2
    <3>2. QED
      BY <1>1, <1>6, <3>1
  <2>3. CASE i <= Len(p) /\ j > Len(p)
    <3>1. i \in 1 .. Len(p) /\ s[i] = p[i]
      BY <1>2, <1>3, <2>1, <2>3
    <3>2. j - Len(p) \in 1 .. Len(q) /\ s[j] = q[j - Len(p)]
      BY <1>2, <1>3, <2>1, <2>3
    <3>3. QED
      BY <1>4, <3>1, <3>2
  <2>4. CASE i > Len(p)
    <3>1. /\ i - Len(p) \in DOMAIN q /\ s[i] = q[i - Len(p)] /\ j - Len(p) \in DOMAIN q
          /\ s[j] = q[j - Len(p)]
      BY <1>2, <1>3, <1>6, <2>1, <2>4
    <3>2. i - Len(p) < j - Len(p)
      BY <1>2, <1>6, <2>1
    <3>3. QED
      BY <1>1, <3>1, <3>2
  <2>5. QED
    BY <1>2, <2>1, <2>2, <2>3, <2>4
<1>7. QED
  BY <1>5, <1>6 DEF s, p, q

\* splice_from: in ascending order the upstream's answer follows what is retained, and together
\* they leave out nothing.
LEMMA ServeUpstream_Ask ==
  ASSUME RetainedInv, AskInv, ServeUpstream
  PROVE  AskInv'
<1> DEFINE from == IF Spliced THEN unserved.first ELSE ask.start
           prefix == IF Spliced THEN unserved.objects ELSE <<>>
           last == InclusiveEnd(ask.end)
           all == {At(o) : o \in {x \in Range(Published(ask.key)) : x.whole}}
           up == {l \in all : UpTo(from, l) /\ UpTo(l, last)}
<1>1. RetentionTypes /\ rcase \in RetentionCases /\ stage = "opening"
      /\ ask.key \in Keys /\ told \in Nat /\ told <= written[ask.key]
  BY DEF RetainedInv, RetentionTypes, AskInv, ServeUpstream
<1>2. /\ rcase' = rcase /\ written' = written /\ told' = told /\ stage' = "answered"
      /\ answer' = [objects |-> prefix \o InOrder(up), rest |-> "upstream", end |-> ask.end]
  BY DEF ServeUpstream
<1>3. /\ Registrations' = Registrations /\ Keys' = Keys /\ ask' = ask /\ There' = There
      /\ Wanted' = Wanted
      /\ \A a, b : RespBefore(a, b)' = RespBefore(a, b)
  BY <1>2, AskFrame
<1>4. /\ \A l \in Wanted : l \in Locations /\ UpTo(ask.start, l) /\ UpTo(l, last) /\ l \in all
  BY <1>1, WantedThere
<1>5. ask.start \in Locations
  BY <1>1, CaseFacts
<1>6. up \subseteq There /\ There \subseteq Locations /\ IsFiniteSet(There)
  <2>1. IsFiniteSet(There) /\ There \subseteq Locations
    BY <1>1, PublishedFinite DEF There
  <2>2. all \subseteq There
    BY DEF There
  <2>3. QED
    BY <2>1, <2>2
<1> HIDE DEF all, last
<1>7. IsFiniteSet(up) /\ up \subseteq Locations
  BY <1>6, FS_Subset
<1>8. SUFFICES ASSUME NEW s, s = prefix \o InOrder(up)
               PROVE  /\ Range(s) \subseteq There /\ Wanted \subseteq Range(s)
                      /\ \A i, j \in DOMAIN s : i < j => RespBefore(s[i], s[j])
  <2>1. PICK s : s = prefix \o InOrder(up)
    OBVIOUS
  <2>2. /\ Range(s) \subseteq There /\ Wanted \subseteq Range(s)
        /\ \A i, j \in DOMAIN s : i < j => RespBefore(s[i], s[j])
    BY <1>8, <2>1
  <2>3. answer'.objects = s /\ answer'.rest = "upstream"
    BY <1>2, <2>1
  <2>4. \A i, j \in DOMAIN s : i < j => RespBefore(s[i], s[j])'
    BY <1>3, <2>2
  <2>5. (\A i, j \in DOMAIN answer.objects : i < j => RespBefore(answer.objects[i], answer.objects[j]))'
    BY <2>3, <2>4 DEF RespBefore
  <2>6. Said(answer.end)' = Said(ask.end)
    BY <1>2, <1>3 DEF Said
  <2>7. Said(ask.end) = Wanted
    BY <1>4 DEF Said, last
  <2> HIDE DEF Said, KnowsLargest, PlannedEnd
  <2>8. QED
    BY <1>1, <1>2, <1>3, <2>2, <2>3, <2>5, <2>6, <2>7 DEF AskInv
<1>9. CASE ~Spliced
  <2>1. InOrder(up) \in Seq(Locations) /\ Range(InOrder(up)) = up
        /\ \A i, j \in DOMAIN InOrder(up) : i < j => RespBefore(InOrder(up)[i], InOrder(up)[j])
    BY <1>7, InOrderLists
  <2>2. prefix = <<>> /\ from = ask.start
    BY <1>9
  <2>3. s = InOrder(up)
    <3>1. \A q \in Seq(Locations) : <<>> \o q = q
      OBVIOUS
    <3>2. QED
      BY <1>8, <2>1, <2>2, <3>1
  <2>4. Wanted \subseteq up
    BY <1>4, <2>2
  <2>5. QED
    BY <1>6, <2>1, <2>3, <2>4
<1>10. CASE Spliced
  <2>1. /\ unserved.kind = "Partial" /\ ask.order = "Ascending" /\ prefix = unserved.objects
        /\ from = unserved.first
    BY <1>10 DEF Spliced
  <2>2. /\ largest.last \in Locations /\ unserved.first \in Planned
        /\ PlannedFirst \subseteq There /\ unserved.objects = InOrder(PlannedFirst)
    BY <1>1, <2>1 DEF AskInv, PlannedEnd
  <2>3. unserved.first \in Locations
    BY <1>5, <2>2, RangeFinite DEF Planned
  <2>4. \A a, b \in Locations : RespBefore(a, b) <=> Before(a, b)
    BY <2>1 DEF RespBefore, Before, Locations
  <2>5. ASSUME NEW a \in PlannedFirst, NEW b \in up PROVE RespBefore(a, b)
    <3>1. a \in Locations /\ b \in Locations /\ RespBefore(a, unserved.first) /\ UpTo(unserved.first, b)
      BY <1>6, <1>7, <2>1, <2>2 DEF PlannedFirst
    <3>2. Before(a, b)
      BY <2>3, <2>4, <3>1, BeforeIsOrder DEF UpTo
    <3>3. QED
      BY <2>4, <3>1, <3>2
  <2>6. IsFiniteSet(PlannedFirst) /\ PlannedFirst \subseteq Locations
    BY <1>6, <2>2, FS_Subset
  <2>7. s = InOrder(PlannedFirst) \o InOrder(up)
    BY <1>8, <2>1, <2>2
  <2> HIDE DEF up
  <2>8. Range(s) = PlannedFirst \cup up /\ \A i, j \in DOMAIN s : i < j => RespBefore(s[i], s[j])
    BY <1>7, <2>5, <2>6, <2>7, ListsMeet
  <2>9. ASSUME NEW l \in Wanted PROVE l \in PlannedFirst \cup up
    <3>1. l \in Locations /\ l \in all /\ UpTo(ask.start, l) /\ UpTo(l, last)
      BY <1>4
    <3>2. CASE UpTo(unserved.first, l)
      BY <2>1, <3>1, <3>2 DEF up
    <3>3. CASE Before(l, unserved.first)
      <4>1. UpTo(unserved.first, largest.last)
        BY <2>2 DEF Planned, RangeOf
      <4>2. UpTo(l, largest.last)
        BY <2>2, <2>3, <3>1, <3>3, <4>1, BeforeIsOrder DEF UpTo
      <4>3. l[2] \in 0 .. END_OF_GROUP
        BY <1>1, WantedThere
      <4>4. l = <<l[1], l[2]>> /\ l[1] \in ask.start[1] .. largest.last[1]
        BY <1>5, <2>2, <3>1, <4>2 DEF Locations, UpTo, Before
      <4>5. l \in Planned
        BY <3>1, <4>2, <4>3, <4>4 DEF Planned, RangeOf
      <4>6. QED
        BY <2>3, <2>4, <3>1, <3>3, <4>5 DEF PlannedFirst
    <3>4. QED
      BY <2>3, <3>1, <3>2, <3>3, BeforeIsOrder DEF UpTo
  <2>10. QED
    BY <1>6, <2>2, <2>8, <2>9
<1>11. QED
  BY <1>9, <1>10

\* Without an upstream the answer is what comes before the first location that is not retained.
LEMMA ServeAlone_Ask ==
  ASSUME RetainedInv, AskInv, ServeAlone
  PROVE  AskInv'
<1>1. RetentionTypes /\ rcase \in RetentionCases /\ stage = "opening"
      /\ ask.key \in Keys /\ told \in Nat /\ told <= written[ask.key]
  BY DEF RetainedInv, RetentionTypes, AskInv, ServeAlone
<1>2. rcase' = rcase /\ written' = written /\ told' = told
  BY DEF ServeAlone
<1>3. /\ Registrations' = Registrations /\ Keys' = Keys /\ ask' = ask /\ There' = There
      /\ Wanted' = Wanted
      /\ (\A a, b : RespBefore(a, b)' = RespBefore(a, b))
      /\ (\A e : Said(e)' = Said(e)) /\ (KnowsLargest(ask.key)' <=> KnowsLargest(ask.key))
  BY <1>2, AskFrame DEF KnowsLargest
<1>4. CASE unserved.kind # "Partial"
  <2>1. stage' = "rejected"
    BY <1>4 DEF ServeAlone
  <2>2. QED
    BY <1>1, <1>2, <2>1 DEF AskInv
<1>5. CASE unserved.kind = "Partial"
  <2>1. /\ stage' = "answered"
        /\ answer' = [objects |-> unserved.objects, rest |-> "unknown", end |-> unserved.end]
    BY <1>5 DEF ServeAlone
  <2>2. /\ PlannedEnd /\ largest.last \in Locations /\ unserved.first \in Planned
        /\ unserved.end = largest.end
        /\ PlannedFirst \subseteq There /\ unserved.objects = InOrder(PlannedFirst)
    BY <1>1, <1>5 DEF AskInv, PlannedEnd
  <2>3. IsFiniteSet(Planned) /\ Planned \subseteq Locations
    <3>1. ask.start \in Locations
      BY <1>1, CaseFacts
    <3>2. QED
      BY <2>2, <3>1, RangeFinite DEF Planned
  <2>4. PICK s : s = InOrder(PlannedFirst)
    OBVIOUS
  <2>5. Range(s) = PlannedFirst /\ \A i, j \in DOMAIN s : i < j => RespBefore(s[i], s[j])
    <3>1. PlannedFirst \subseteq Planned
      BY DEF PlannedFirst
    <3>2. IsFiniteSet(PlannedFirst) /\ PlannedFirst \subseteq Locations
      BY <2>3, <3>1, FS_Subset
    <3>3. QED
      BY <2>4, <3>2, InOrderLists
  <2>6. ASSUME NEW l \in Said(largest.end), NEW i \in DOMAIN s, RespBefore(l, s[i]) PROVE l \in Range(s)
    <3>1. s[i] \in PlannedFirst /\ Said(largest.end) \subseteq Planned
      BY <1>1, <2>2, <2>5, SaidPlanned DEF Range, PlannedEnd, Planned
    <3>2. /\ s[i] \in Locations /\ RespBefore(s[i], unserved.first) /\ l \in Locations
          /\ l \in Planned /\ unserved.first \in Locations
      BY <2>2, <2>3, <3>1 DEF PlannedFirst
    <3>3. RespBefore(l, unserved.first)
      BY <2>6, <3>2, RespIsOrder
    <3>4. QED
      BY <2>5, <3>2, <3>3 DEF PlannedFirst
  <2>7. answer'.objects = s /\ answer'.rest = "unknown" /\ answer'.end = largest.end
    BY <2>1, <2>2, <2>4
  <2>8. /\ \A i, j \in DOMAIN s : i < j => RespBefore(s[i], s[j])'
        /\ \A l \in Said(largest.end) : (\E i \in DOMAIN s : RespBefore(l, s[i])') => l \in Range(s)
    BY <1>3, <2>5, <2>6
  <2>9. (\A i, j \in DOMAIN answer.objects : i < j => RespBefore(answer.objects[i], answer.objects[j]))'
    BY <2>7, <2>8 DEF RespBefore
  <2>10. Said(answer.end)' = Said(largest.end)
    BY <1>3, <2>7 DEF Said
  <2>11. (\A l \in Said(answer.end) : (\E i \in DOMAIN answer.objects : RespBefore(l, answer.objects[i]))
                                        => l \in Range(answer.objects))'
    <3> HIDE DEF Said
    <3>1. QED
      BY <1>3, <2>7, <2>8, <2>10 DEF RespBefore
  <2>12. KnowsLargest(ask.key) => Wanted \subseteq Said(largest.end)
    BY <2>2 DEF PlannedEnd
  <2> HIDE DEF Said, KnowsLargest, PlannedEnd
  <2>13. QED
    BY <1>1, <1>2, <1>3, <2>1, <2>2, <2>5, <2>7, <2>9, <2>10, <2>11, <2>12 DEF AskInv
<1>6. QED
  BY <1>4, <1>5

\* A FETCH that is refused or cancelled has no answer.
LEMMA GivenUp_Ask ==
  ASSUME RetainedInv, AskInv, RoutingFails \/ FetchClosed
  PROVE  AskInv'
<1>1. stage' \in {"rejected", "closed"} /\ told' = told
  BY DEF RoutingFails, FetchClosed
<1>2. QED
  BY <1>1 DEF AskInv

\* A FETCH that is answered has what it must.
LEMMA AskExact ==
  ASSUME AskInv
  PROVE  FetchExact
BY DEF AskInv, FetchExact, Wanted, There, Said

\* Every step of the registrations, the feeds and the FETCH.
LEMMA RetentionStep ==
  ASSUME RetainedInv, AskInv, [RetentionNext]_retentionVars
  PROVE  RetainedInv' /\ AskInv'
<1>1. RetentionTypes
  BY DEF RetainedInv
<1>2. CASE UNCHANGED retentionVars
  <2>1. /\ UNCHANGED <<rcase, written, fed, inserting, groups, arrival, bytes, usedBytes, table,
                       guard>>
        /\ UNCHANGED askingVars /\ stage' = stage /\ track' = track
    BY <1>2 DEF retentionVars, feedVars, askingVars
  <2>2. RetainedInv'
    BY <1>1, <2>1, Retained_Same DEF RetentionTypes
  <2>3. AskInv'
    BY <1>1, <2>1, AskFrame, Ask_Same DEF RetentionTypes
  <2>4. QED
    BY <2>2, <2>3
<1>3. ASSUME NEW r \in Registrations,
             \/ Retain(r) \/ DropGuard(r) \/ FreeTrack(r) \/ TryInsert(r) \/ TrimWindow(r)
             \/ \E i \in DOMAIN rcase.objects[rcase.key[r]] : SkipObject(r, i) \/ BeginInsert(r, i)
      PROVE  RetainedInv' /\ AskInv'
  <2>1. RetainedInv'
    BY <1>3, Retain_Room, DropGuard_Room, FreeTrack_Room, TryInsert_Room, TrimWindow_Room,
       SkipObject_Room,
       BeginInsert_Room
  <2>2. rcase' = rcase /\ written' = written /\ UNCHANGED askingVars
    BY <1>3 DEF Retain, DropGuard, FreeTrack, TryInsert, TrimWindow, SkipObject, BeginInsert
  <2>3. AskInv'
    BY <1>1, <2>2, AskFrame, Ask_Same DEF RetentionTypes
  <2>4. QED
    BY <2>1, <2>3
<1>4. ASSUME NEW k \in Keys, Write(k) \/ \E g : CreateSubgroup(k, g) PROVE RetainedInv' /\ AskInv'
  <2>1. CASE Write(k)
    BY <1>1, <2>1, Write_Room, Write_Ask
  <2>2. CASE \E g : CreateSubgroup(k, g)
    <3>1. /\ UNCHANGED <<rcase, written, fed, inserting, groups, arrival, bytes, usedBytes, table,
                         guard>>
          /\ UNCHANGED askingVars /\ stage' = stage /\ track' = track
      BY <2>2 DEF CreateSubgroup, feedVars, askingVars
    <3>2. RetainedInv'
      BY <1>1, <3>1, Retained_Same DEF RetentionTypes
    <3>3. AskInv'
      BY <1>1, <3>1, AskFrame, Ask_Same DEF RetentionTypes
    <3>4. QED
      BY <3>2, <3>3
  <2>3. QED
    BY <1>4, <2>1, <2>2
<1>5. CASE \/ LookupRetained \/ ReadLargest \/ CollectObjects
           \/ ServeUpstream \/ RoutingFails \/ ServeAlone \/ FetchClosed
  BY <1>5, Asking_Room, LookupRetained_Ask, ReadLargest_Ask, CollectObjects_Ask,
     ServeUpstream_Ask, ServeAlone_Ask,
     GivenUp_Ask
<1>6. QED
  BY <1>2, <1>3, <1>4, <1>5 DEF RetentionNext

\* Subgroups are created for the objects of the case.
LEMMA Created_Step ==
  ASSUME CreatedInv, [RetentionNext]_retentionVars
  PROVE  CreatedInv'
<1>1. rcase' = rcase
  BY DEF RetentionNext, retentionVars, Retain, DropGuard, FreeTrack, TryInsert, TrimWindow,
         SkipObject, BeginInsert, Write, CreateSubgroup, LookupRetained, ReadLargest,
         CollectObjects, ServeUpstream, RoutingFails, ServeAlone, FetchClosed
<1>2. CASE \E k \in Keys : \E g \in {o.group : o \in Range(rcase.objects[k])} : CreateSubgroup(k, g)
  <2>1. PICK k \in Keys : \E g \in {o.group : o \in Range(rcase.objects[k])} : CreateSubgroup(k, g)
    BY <1>2
  <2>2. PICK g \in {o.group : o \in Range(rcase.objects[k])} : CreateSubgroup(k, g)
    BY <2>1
  <2>3. Range(rcase.objects[k]) \subseteq RetainedObjects
    <3>1. rcase.objects[k] \in Seq(RetainedObjects)
      BY CaseFacts DEF CreatedInv
    <3>2. QED
      BY <3>1 DEF Range
  <2>4. g \in Nat
    BY <2>3 DEF RetainedObjects
  <2>5. created' = [created EXCEPT ![k] = created[k] \cup {g}]
    BY <2>2 DEF CreateSubgroup
  <2>6. created' \in [Keys -> SUBSET Nat]
    BY <2>4, <2>5 DEF CreatedInv
  <2>7. QED
    BY <1>1, <2>6 DEF CreatedInv, Keys
<1>3. CASE ~\E k \in Keys : \E g \in {o.group : o \in Range(rcase.objects[k])} : CreateSubgroup(k, g)
  <2>1. created' = created
    BY <1>3 DEF RetentionNext, retentionVars, Retain, DropGuard, FreeTrack, TryInsert, TrimWindow,
         SkipObject, BeginInsert, Write, LookupRetained, ReadLargest,
         CollectObjects, ServeUpstream, RoutingFails, ServeAlone, FetchClosed
  <2>2. QED
    BY <1>1, <2>1 DEF CreatedInv, Keys
<1>4. QED
  BY <1>2, <1>3

(* Whatever order the registrations take from the shared budget and give     *)
(* back, whichever group is evicted between two locks, every account, window *)
(* and entry of the table agrees with what is retained, and a FETCH answer   *)
(* is in order, published and complete as far as it says (retention.rs,      *)
(* producer.rs serve_fetch).                                                 *)
THEOREM RetentionHolds == RetentionSpec => [](RetentionTypeOK /\ RetainedRight)
<1>1. RetentionInit => RetainedInv /\ AskInv /\ CreatedInv
  <2>1. RetentionInit => CreatedInv
    BY DEF RetentionInit, RetentionStart, CreatedInv, Keys
  <2>2. QED
    BY <2>1, Init_Room, Init_Ask
<1>2. RetainedInv /\ AskInv /\ CreatedInv /\ [RetentionNext]_retentionVars
        => (RetainedInv /\ AskInv /\ CreatedInv)'
  BY RetentionStep, Created_Step
<1>3. RetainedInv /\ AskInv /\ CreatedInv => RetentionTypeOK /\ RetainedRight
  BY RetainedSound, AskExact DEF RetainedRight
<1>4. QED
  BY <1>1, <1>2, <1>3, PTL DEF RetentionSpec
=============================================================================
