---------------------------- MODULE SessionProofs ----------------------------
(* What is proved of the parts of a session: the loss of datagrams that is   *)
(* reported (DatagramForwarder), a FETCH between two ends (Fetches), the     *)
(* budget of request ids (RequestIds), the maps of subscriptions and         *)
(* announced namespaces at both ends (MCSession), and of the composition     *)
(* MCData the objects that one end sends and the other mirrors               *)
(* (ObjectForwarder, Ingress), the requests for namespaces                   *)
(* (NamespaceStreams), and the setup and the end of a session                *)
(* (SessionLifecycle).                                                       *)
EXTENDS MCSession, MCData, Fetches, SequenceTheorems, FiniteSetTheorems, WellFoundedInduction, TLAPS

\* Appending to a sequence of one.
LEMMA AppendToOne == ASSUME NEW a, NEW b PROVE Append(<<a>>, b) = <<a, b>>
<1>1. <<a>> \in Seq({a, b}) /\ <<a, b>> \in Seq({a, b}) /\ Append(<<a>>, b) \in Seq({a, b})
  OBVIOUS
<1>2. Len(<<a>>) = 1 /\ Len(<<a, b>>) = 2 /\ Len(Append(<<a>>, b)) = 2
  BY <1>1
<1>3. Append(<<a>>, b)[1] = a /\ Append(<<a>>, b)[2] = b
  BY <1>1, <1>2
<1>4. \A i \in 1 .. 2 : Append(<<a>>, b)[i] = <<a, b>>[i]
  BY <1>3
<1>5. QED
  BY <1>1, <1>2, <1>4, SeqEqual

-----------------------------------------------------------------------------
(* The loss of datagrams                                                   *)

(* The counters of the loop are what the metric has, except for datagrams    *)
(* that were found too large since the last report: the next read reports    *)
(* those, or the end of the track does.                                      *)
LossInv ==
  /\ log \in Seq([size : Nat, allowed : BOOLEAN])
  /\ epoch \in Nat /\ epoch <= Len(log) /\ dropped \in Nat
  /\ sentCount \in Nat /\ filtered \in Nat /\ skippedTooLarge \in Nat
  /\ reportedDropped \in Nat /\ reportedTooLarge \in Nat
  /\ metric \in [ring : Nat, mtu : Nat]
  /\ loop \in {"read", "send", "end", "failed"}
  /\ item \in [size : Nat, allowed : BOOLEAN]
  /\ reportedDropped = dropped /\ reportedTooLarge <= skippedTooLarge
  /\ metric.ring = reportedDropped
  /\ loop # "end" => metric.mtu = reportedTooLarge
  /\ loop = "end" => ended # "no" /\ epoch = Len(log) /\ metric.mtu = skippedTooLarge
  /\ loop # "failed" =>
       epoch = sentCount + filtered + dropped + skippedTooLarge + (IF loop = "send" THEN 1 ELSE 0)

\* Nothing is lost before the loop runs.
LEMMA LossStart_Inv == LossInit => LossInv
  BY DEF LossInit, LossInv, NoItem

\* Every step of the loop and of the track keeps the counters together.
LEMMA LossStep_Inv ==
  ASSUME DatagramForwarderAssumption, LossInv, [LossNext]_lossVars PROVE LossInv'
<1> USE DEF LossInv, DatagramForwarderAssumption, countVars
<1>1. ASSUME NEW size \in Sizes, NEW allowed \in BOOLEAN, WriteLog(size, allowed) PROVE LossInv'
  <2>1. [size |-> size, allowed |-> allowed] \in [size : Nat, allowed : BOOLEAN]
    OBVIOUS
  <2>2. log' \in Seq([size : Nat, allowed : BOOLEAN]) /\ Len(log') = Len(log) + 1
    BY <1>1, <2>1 DEF WriteLog
  <2>3. loop # "end"
    BY <1>1 DEF WriteLog
  <2>4. QED
    BY <1>1, <2>2, <2>3 DEF WriteLog
<1>2. CASE EndLog
  BY <1>2 DEF EndLog
<1>3. CASE ReadLog
  <2> DEFINE oldest == IF Len(log) > Depth THEN Len(log) - Depth ELSE 0
             from == IF epoch < oldest THEN oldest ELSE epoch
  <2>1. from \in Nat /\ epoch <= from /\ from + 1 <= Len(log) /\ from + 1 \in 1 .. Len(log)
    BY SMTT(30), <1>3 DEF ReadLog
  <2>2. /\ dropped' = dropped + (from - epoch) /\ epoch' = from + 1 /\ item' = log[from + 1]
        /\ metric' = Recorded(dropped + (from - epoch), skippedTooLarge)
        /\ reportedDropped' = dropped + (from - epoch) /\ reportedTooLarge' = skippedTooLarge
    BY <1>3 DEF ReadLog
  <2> HIDE DEF from
  <2>3. item' \in [size : Nat, allowed : BOOLEAN]
    <3>1. \A n \in 1 .. Len(log) : log[n] \in [size : Nat, allowed : BOOLEAN]
      BY ElementOfSeq
    <3>2. QED
      BY <2>1, <2>2, <3>1, Zenon
  <2>4. metric' = [ring |-> dropped + (from - epoch), mtu |-> skippedTooLarge]
    BY <1>3, <2>1, <2>2 DEF Recorded, ReadLog
  <2>5. /\ loop = "read" /\ loop' = "send" /\ log' = log /\ epoch < Len(log)
        /\ UNCHANGED <<ended, skippedTooLarge, sentCount, filtered>>
    BY <1>3 DEF ReadLog
  <2>6. epoch' \in Nat /\ epoch' <= Len(log') /\ dropped' \in Nat
    BY <2>1, <2>2, <2>5
  <2>7. /\ metric' \in [ring : Nat, mtu : Nat] /\ metric'.ring = dropped'
        /\ metric'.mtu = skippedTooLarge
    BY <2>1, <2>2, <2>4
  <2>8. epoch' = sentCount + filtered + dropped' + skippedTooLarge + 1
    BY <2>1, <2>2, <2>5
  <2>9. QED
    BY <2>2, <2>3, <2>5, <2>6, <2>7, <2>8
<1>4. CASE EndOfLog
  BY <1>4 DEF EndOfLog, Recorded
<1>5. CASE LogFailed
  BY <1>5 DEF LogFailed
<1>6. ASSUME NEW limit \in Limits, SendItem(limit) PROVE LossInv'
  BY <1>6 DEF SendItem, NoItem
<1>7. ASSUME NEW limit \in Limits, SendToNobody(limit) PROVE LossInv'
  BY <1>7 DEF SendToNobody, NoItem
<1>8. CASE UNCHANGED lossVars
  BY <1>8 DEF lossVars
<1>9. QED
  BY <1>1, <1>2, <1>3, <1>4, <1>5, <1>6, <1>7, <1>8 DEF LossNext

(* Every datagram that was read is sent, kept back or lost, the metric never *)
(* runs ahead of what was lost, and has all of it when the track has ended,  *)
(* for every depth of the ring and every size and limit (serve_datagrams).   *)
THEOREM LossSafe == DatagramForwarderAssumption /\ LossSpec => []LossReported
<1> SUFFICES ASSUME DatagramForwarderAssumption PROVE LossSpec => []LossReported
  OBVIOUS
<1>1. LossInv => LossReported
  BY DEF LossInv, LossReported
<1>2. QED
  BY <1>1, LossStart_Inv, LossStep_Inv, PTL DEF LossSpec

-----------------------------------------------------------------------------
(* One FETCH                                                               *)

\* What can be under way between the two ends.
Nothing == <<>>
OneFetch == <<"Fetch">>
OneCancel == <<"FetchCancel">>
FetchThenCancel == <<"Fetch", "FetchCancel">>
OneOk == <<"FetchOk">>
OneError == <<"RequestError">>

(* The two ends know of each other only by messages: the answering side does *)
(* not answer before it is asked nor twice, FETCH_OK is under way only after *)
(* the stream was finished, and the stream is finished only when everything  *)
(* was written and upstream agreed.                                          *)
FetchInv ==
  /\ fcase \in FetchCases /\ chunks \in Nat
  /\ response \in [open : BOOLEAN, parts : Nat, end : {"no", "fin", "reset"}]
  /\ fetches \in BOOLEAN /\ fPending \in BOOLEAN /\ fOk \in BOOLEAN /\ cancelSent \in BOOLEAN
  /\ active \in BOOLEAN
  /\ asking \in {Nothing, OneFetch, OneCancel, FetchThenCancel}
  /\ asking \in {OneCancel, FetchThenCancel} => cancelSent
  /\ asking \in {OneFetch, FetchThenCancel} => requested = "none"
  /\ fetch = "none" => /\ ~fetches /\ ~fPending /\ ~fOk /\ fClosed = "no" /\ ~cancelSent
                       /\ asking = Nothing /\ requested = "none"
  /\ requested \in {"none", "queued", "writing", "failing", "gone"}
  /\ answers \in {Nothing, OneOk, OneError}
  /\ requested # "gone" => answers = Nothing /\ response.end # "fin"
  /\ requested = "gone" => ~active
  /\ response.end = "fin" => response.parts = AllParts /\ UpstreamDone
  /\ answers = OneOk \/ fOk => response.end = "fin"
  /\ reader = "done" => response.end = "fin" /\ chunks = response.parts
  /\ fOk => ~fPending
  /\ fClosed # "no" => ~fetches

\* Where the messages of FetchInv lead.
LEMMA MessageQueues ==
  /\ Nothing # OneFetch /\ Nothing # OneCancel /\ Nothing # FetchThenCancel
  /\ OneFetch # OneCancel /\ OneFetch # FetchThenCancel /\ OneCancel # FetchThenCancel
  /\ Nothing # OneOk /\ Nothing # OneError /\ OneOk # OneError
  /\ Head(OneFetch) = "Fetch" /\ Head(FetchThenCancel) = "Fetch" /\ Head(OneCancel) = "FetchCancel"
  /\ Head(OneOk) = "FetchOk" /\ Head(OneError) = "RequestError"
  /\ Tail(OneFetch) = Nothing /\ Tail(OneCancel) = Nothing /\ Tail(FetchThenCancel) = OneCancel
  /\ Tail(OneOk) = Nothing /\ Tail(OneError) = Nothing
  /\ Append(Nothing, "FetchCancel") = OneCancel /\ Append(OneFetch, "FetchCancel") = FetchThenCancel
  /\ Append(Nothing, "FetchOk") = OneOk /\ Append(Nothing, "RequestError") = OneError
<1> USE DEF Nothing, OneFetch, OneCancel, FetchThenCancel, OneOk, OneError
<1>1. /\ Nothing # OneFetch /\ Nothing # OneCancel /\ Nothing # FetchThenCancel
      /\ OneFetch # OneCancel /\ OneFetch # FetchThenCancel /\ OneCancel # FetchThenCancel
      /\ Nothing # OneOk /\ Nothing # OneError /\ OneOk # OneError
  OBVIOUS
<1>2. /\ Head(OneFetch) = "Fetch" /\ Head(FetchThenCancel) = "Fetch" /\ Head(OneCancel) = "FetchCancel"
      /\ Head(OneOk) = "FetchOk" /\ Head(OneError) = "RequestError"
  OBVIOUS
<1>3. /\ Tail(OneFetch) = Nothing /\ Tail(OneCancel) = Nothing
      /\ Tail(OneOk) = Nothing /\ Tail(OneError) = Nothing
  OBVIOUS
<1>4. Tail(FetchThenCancel) = OneCancel
  OBVIOUS
<1>5. Append(OneFetch, "FetchCancel") = FetchThenCancel
  BY AppendToOne
<1>6. /\ Append(Nothing, "FetchCancel") = OneCancel
      /\ Append(Nothing, "FetchOk") = OneOk /\ Append(Nothing, "RequestError") = OneError
  OBVIOUS
<1>7. QED
  BY <1>1, <1>2, <1>3, <1>4, <1>5, <1>6

\* Before a FETCH is sent.
LEMMA FetchStart_Inv == FetchInit => FetchInv
<1> SUFFICES ASSUME NEW c \in FetchCases, FetchStart(c) PROVE FetchInv
  BY DEF FetchInit
<1>1. asking = Nothing /\ answers = Nothing
  BY DEF FetchStart, Nothing
<1>2. QED
  BY <1>1, MessageQueues DEF FetchStart, FetchInv, NoResponse

\* A FETCH keeps to its protocol at every step of either end.
LEMMA FetchStep_Inv == ASSUME FetchInv, [FetchNext]_fetchVars PROVE FetchInv'
<1>0. AllParts \in Nat
  BY FetchAssumption DEF FetchInv, AllParts
<1> USE <1>0, MessageQueues DEF FetchInv, askVars, UpstreamDone, AllParts, FetchStateHeld
<1>1. CASE SendFetch
  <2>1. asking' = OneFetch
    BY <1>1 DEF SendFetch, OneFetch
  <2>2. QED
    BY <1>1, <2>1 DEF SendFetch
<1>2. CASE RecvFetchOk
  <2>1. answers # Nothing
    BY <1>2 DEF RecvFetchOk, Nothing
  <2>2. answers = OneOk /\ answers' = Nothing
    BY <1>2, <2>1 DEF RecvFetchOk
  <2>3. QED
    BY <1>2, <2>2 DEF RecvFetchOk
<1>3. CASE RecvFetchError
  <2>1. answers # Nothing
    BY <1>3 DEF RecvFetchError, Nothing
  <2>2. answers = OneError /\ answers' = Nothing
    BY <1>3, <2>1 DEF RecvFetchError
  <2>3. QED
    BY <1>3, <2>2 DEF RecvFetchError
<1>4. CASE FetchTimeout
  BY <1>4 DEF FetchTimeout
<1>5. CASE DropFetch
  BY ZenonT(30), <1>5 DEF DropFetch
<1>6. CASE RemoveFetch
  BY <1>6 DEF RemoveFetch
<1>7. CASE RecvFetchStream
  BY <1>7 DEF RecvFetchStream
<1>8. CASE ReadFetchChunk
  BY <1>8 DEF ReadFetchChunk
<1>9. CASE RecvFetch
  <2>1. asking # Nothing
    BY <1>9 DEF RecvFetch, Nothing
  <2>2. asking \in {OneFetch, FetchThenCancel} /\ asking' = Tail(asking)
    BY <1>9, <2>1 DEF RecvFetch
  <2>3. QED
    BY <1>9, <2>2 DEF RecvFetch
<1>10. CASE RecvFetchCancel
  <2>1. asking # Nothing
    BY <1>10 DEF RecvFetchCancel, Nothing
  <2>2. asking = OneCancel /\ asking' = Nothing
    BY <1>10, <2>1 DEF RecvFetchCancel
  <2>3. QED
    BY <1>10, <2>2 DEF RecvFetchCancel
<1>11. CASE RejectFetch
  BY <1>11 DEF RejectFetch, Answer
<1>12. CASE ServeFetch
  BY <1>12 DEF ServeFetch
<1>13. CASE WritePart
  <2>1. response.parts \in Nat /\ response.parts + 1 \in Nat
    OBVIOUS
  <2>2. response' = [response EXCEPT !.parts = response.parts + 1]
    BY <1>13 DEF WritePart
  <2>3. /\ response' \in [open : BOOLEAN, parts : Nat, end : {"no", "fin", "reset"}]
        /\ response'.end = response.end
    BY <2>1, <2>2
  <2>4. QED
    BY <1>13, <2>3 DEF WritePart
<1>14. CASE FinishFetch
  BY <1>14 DEF FinishFetch, Answer
<1>15. CASE FetchCancelled
  BY <1>15 DEF FetchCancelled, Answer
<1>16. CASE UpstreamFails
  BY <1>16 DEF UpstreamFails
<1>17. CASE AnswerFailure
  BY <1>17 DEF AnswerFailure, Answer
<1>18. CASE ProxyTimeout
  BY <1>18 DEF ProxyTimeout, Answer
<1>19. CASE WriteFails
  BY <1>19 DEF WriteFails, Answer
<1>20. CASE UNCHANGED fetchVars
  BY <1>20 DEF fetchVars
<1>21. QED
  BY <1>1, <1>2, <1>3, <1>4, <1>5, <1>6, <1>7, <1>8, <1>9, <1>10, <1>11, <1>12, <1>13, <1>14,
     <1>15, <1>16, <1>17, <1>18, <1>19, <1>20
     DEF FetchNext

(* A FETCH response that was abandoned is never taken for a complete one:    *)
(* what is read to its end has every part, and the upstream ones only if     *)
(* upstream said so; a request has one answer and at most one FETCH_CANCEL,  *)
(* and what was answered has left the maps (fetch.rs, fetch_requested.rs).   *)
THEOREM FetchSafe == FetchSpec => []FetchSound
<1>1. FetchInv => FetchSound
  <2> SUFFICES ASSUME FetchInv PROVE FetchSound
    OBVIOUS
  <2>1. Len(answers) <= 1
    <3>1. Len(Nothing) = 0 /\ Len(OneOk) = 1 /\ Len(OneError) = 1
      BY DEF Nothing, OneOk, OneError
    <3>2. Len(answers) \in {0, 1}
      BY <3>1, Zenon DEF FetchInv
    <3>3. \A n \in {0, 1} : n <= 1
      OBVIOUS
    <3>4. QED
      BY <3>2, <3>3, Zenon
  <2>2. ASSUME NEW i \in 1 .. Len(asking), NEW j \in 1 .. Len(asking),
               asking[i] = "FetchCancel", asking[j] = "FetchCancel"
        PROVE  i = j /\ cancelSent
    <3>1. CASE asking \in {Nothing, OneFetch}
      BY <2>2, <3>1 DEF Nothing, OneFetch
    <3>2. CASE asking = OneCancel
      BY <2>2, <3>2 DEF FetchInv, OneCancel
    <3>3. CASE asking = FetchThenCancel
      BY <2>2, <3>3 DEF FetchInv, FetchThenCancel
    <3>4. QED
      BY <3>1, <3>2, <3>3 DEF FetchInv
  <2>3. QED
    BY <2>1, <2>2 DEF FetchInv, FetchSound, UpstreamDone
<1>2. QED
  BY <1>1, FetchStart_Inv, FetchStep_Inv, PTL DEF FetchSpec

-----------------------------------------------------------------------------
(***************************************************************************)
(* The receiver of request ids never accepts one twice, whatever its peer  *)
(* sends, for every window and every largest id.  The inductive invariant  *)
(* is CompactionExact, which says what the low-water mark and the set      *)
(* above it stand for, together with the parity that ties the mark to the  *)
(* sequence of ids.  With it, two ends that run this code never close the  *)
(* session on each other: what is on its way is within the budget, in the  *)
(* sequence and new (SenderHonest), and the maxima on their way back grow  *)
(* (MaximaGrow).                                                           *)
(***************************************************************************)

USE RequestIdsAssumption DEF Ids, RequestIdsAssumption, fixed

(* The ids of both ends stay what RequestId's fields can hold, whatever the  *)
(* peer sends (session/request_id.rs).                                       *)
THEOREM TypeCorrect == Spec => []TypeOK
<1>1. Init => TypeOK
  <2> SUFFICES ASSUME Init PROVE TypeOK
    OBVIOUS
  <2>1. ourMax \in Ids /\ first \in Ids
    BY DEF Init
  <2>2. maxSent \in Seq(Ids) /\ blocked \in Seq(Ids)
    BY DEF Init
  <2> QED
    BY <2>1, <2>2 DEF Init, TypeOK
<1>2. TypeOK /\ [Next]_vars => TypeOK'
  <2> SUFFICES ASSUME TypeOK, [Next]_vars PROVE TypeOK'
    OBVIOUS
  <2> USE DEF TypeOK
  <2>1. CASE Allocate
    BY <2>1 DEF Allocate, HasBudget, NoMax, recvVars
  <2>2. CASE Blocked
    BY <2>2 DEF Blocked, HasBudget, NoMax, recvVars
  <2>3. CASE ApplyMax
    <3>1. maxSent # <<>> /\ Head(maxSent) \in Ids /\ Tail(maxSent) \in Seq(Ids)
      BY <2>3 DEF ApplyMax
    <3>2. peerMax' \in Ids /\ blockedFor' \in Ids \cup {NoMax} /\ failed' \in BOOLEAN
      BY <2>3, <3>1 DEF ApplyMax, Apply
    <3> QED
      BY <2>3, <3>1, <3>2 DEF ApplyMax, recvVars
  <2>4. ASSUME NEW id \in Ids, RaiseMax(id) PROVE TypeOK'
    BY <2>4 DEF RaiseMax, sendVars, recvVars
  <2>5. ASSUME NEW id \in Ids, ApplyMaxRogue(id) PROVE TypeOK'
    BY <2>5 DEF ApplyMaxRogue, Apply, NoMax, recvVars
  <2>6. ASSUME NEW id \in Ids, Receive(id) PROVE TypeOK'
    BY <2>6 DEF Receive, Accept, Refuse, recvVars, sendVars
  <2>7. ASSUME NEW id \in Ids, ReceiveRogue(id) PROVE TypeOK'
    BY <2>7 DEF ReceiveRogue, Accept, Refuse, recvVars, sendVars
  <2>8. CASE UNCHANGED vars
    BY <2>8 DEF vars
  <2> QED
    BY <2>1, <2>2, <2>3, <2>4, <2>5, <2>6, <2>7, <2>8 DEF Next
<1> QED
  BY <1>1, <1>2, PTL DEF Spec

-----------------------------------------------------------------------------
Inv == TypeOK /\ CompactionExact /\ NoReplay

\* An id that is let in was not accepted before, and the compaction that
\* follows keeps the mark and the set exact.
LEMMA AcceptCompacts ==
  ASSUME Inv, NEW id \in Ids, Accept(id), UNCHANGED <<first, ourMax>>
  PROVE  CompactionExact' /\ NoReplay'
<1> USE DEF Inv, TypeOK, CompactionExact, NoReplay
<1>1. id \notin accepted
  BY DEF Accept, Valid, Steps
<1>2. NoReplay'
  BY <1>1 DEF Accept
<1>3. PICK low \in Ids : /\ Advance(id, low)
                         /\ lowWater' = low
                         /\ above' = {i \in above \cup {id} : i > low}
  BY DEF Accept
<1>4. id >= first /\ id % 2 = first % 2 /\ id < ourMax
  BY DEF Accept, Valid
<1>5. low >= first /\ low % 2 = first % 2
  BY <1>3 DEF Advance
<1>6. Steps(first, low) = Steps(first, lowWater) \cup Steps(lowWater, low)
  BY SMTT(30), <1>3, <1>5 DEF Advance, Steps
<1>7. Steps(first, low) \subseteq accepted \cup {id}
  BY <1>3, <1>6 DEF Advance
<1>8. \A i \in above \cup {id} : i > low \/ i \in Steps(first, low)
  BY <1>3, <1>4, <1>5 DEF Advance, Steps
<1>9. accepted' = accepted \cup {id}
  BY DEF Accept
<1>10. accepted' = Steps(first, low) \cup above'
  <2>1. Steps(first, lowWater) \subseteq Steps(first, low)
    BY <1>6
  <2> QED
    BY <1>3, <1>7, <1>8, <1>9, <2>1
<1>11. CompactionExact'
  BY <1>3, <1>4, <1>5, <1>9, <1>10 DEF Steps
<1> QED
  BY <1>2, <1>11

(* No id is accepted twice, whatever the peer sends, and the mark and the    *)
(* set above it stand for exactly the ids accepted (validate_incoming).      *)
THEOREM NoIdAcceptedTwice == Spec => [](CompactionExact /\ NoReplay)
<1>1. Init => CompactionExact /\ NoReplay
  <2> SUFFICES ASSUME Init PROVE CompactionExact /\ NoReplay
    OBVIOUS
  <2>1. Steps(first, lowWater) = {}
    BY DEF Init, Steps
  <2> QED
    BY <2>1 DEF Init, CompactionExact, NoReplay
<1>2. TypeOK /\ CompactionExact /\ NoReplay /\ [Next]_vars => (CompactionExact /\ NoReplay)'
  <2> SUFFICES ASSUME TypeOK, CompactionExact, NoReplay, [Next]_vars
               PROVE  (CompactionExact /\ NoReplay)'
    OBVIOUS
  <2>a. ASSUME UNCHANGED <<first, recvVars, ourMax>> PROVE (CompactionExact /\ NoReplay)'
    BY <2>a DEF CompactionExact, NoReplay, recvVars, Steps
  <2>1. CASE Allocate
    BY <2>1, <2>a DEF Allocate
  <2>2. CASE Blocked
    BY <2>2, <2>a DEF Blocked
  <2>3. CASE ApplyMax
    BY <2>3, <2>a DEF ApplyMax
  <2>4. ASSUME NEW id \in Ids, RaiseMax(id) PROVE (CompactionExact /\ NoReplay)'
    <3>1. ourMax' > ourMax /\ ourMax' \in Ids /\ UNCHANGED <<first, lowWater, above, accepted,
                                                             replayed>>
      BY <2>4 DEF RaiseMax, recvVars
    <3> QED
      BY <3>1 DEF CompactionExact, NoReplay, Steps, TypeOK
  <2>5. ASSUME NEW id \in Ids, ApplyMaxRogue(id) PROVE (CompactionExact /\ NoReplay)'
    BY <2>5, <2>a DEF ApplyMaxRogue
  <2>6. ASSUME NEW id \in Ids, Accept(id) \/ Refuse(id), UNCHANGED <<first, ourMax>>
        PROVE  (CompactionExact /\ NoReplay)'
    <3>1. CASE Accept(id)
      BY <3>1, <2>6, AcceptCompacts DEF Inv
    <3>2. CASE Refuse(id)
      BY <3>2, <2>6, <2>a DEF Refuse
    <3> QED
      BY <2>6, <3>1, <3>2
  <2>7. ASSUME NEW id \in Ids, Receive(id) PROVE (CompactionExact /\ NoReplay)'
    BY <2>6, <2>7 DEF Receive
  <2>8. ASSUME NEW id \in Ids, ReceiveRogue(id) PROVE (CompactionExact /\ NoReplay)'
    BY <2>6, <2>8 DEF ReceiveRogue
  <2>9. CASE UNCHANGED vars
    BY <2>9, <2>a DEF vars, recvVars
  <2> QED
    BY <2>1, <2>2, <2>3, <2>4, <2>5, <2>7, <2>8, <2>9 DEF Next
<1> QED
  BY <1>1, <1>2, TypeCorrect, PTL DEF Spec
-----------------------------------------------------------------------------
(* An honest peer is not thrown out                                        *)

\* A set of naturals that is not empty has a least element.
LEMMA LeastNatural ==
  ASSUME NEW T, T \subseteq Nat, T # {}
  PROVE  \E n \in T : \A m \in T : n <= m
<1> DEFINE R == OpToRel(<, Nat)
<1>1. \A m, n \in Nat : m < n => <<m, n>> \in R
  BY DEF OpToRel
<1>2. IsWellFoundedOn(R, Nat)
  BY NatLessThanWellFounded
<1> HIDE DEF R
<1>3. PICK n \in T : \A m \in T : ~ (<<m, n>> \in R)
  BY <1>2, WFMin
<1>4. ASSUME NEW m \in T PROVE n <= m
  <2>1. m \in Nat /\ n \in Nat
    OBVIOUS
  <2>2. ~(m < n)
    BY <1>1, <1>3, <2>1
  <2> QED
    BY <2>1, <2>2
<1> QED
  BY <1>4

\* The sender: the ids it has used are those of its sequence below next, and
\* an id is on its way only if it is within the budget and was not accepted.
SenderHonest ==
  /\ next >= first /\ next % 2 = first % 2
  /\ \A i \in sent \cup accepted : i >= first /\ i < next /\ i % 2 = first % 2
  /\ \A i \in sent : i < peerMax /\ i \notin accepted

\* The maxima on their way grow, from the one in use to the newest.
MaximaGrow ==
  /\ peerMax <= ourMax
  /\ \A m \in DOMAIN maxSent : peerMax < maxSent[m] /\ maxSent[m] <= ourMax
  /\ \A m, n \in DOMAIN maxSent : m < n => maxSent[m] < maxSent[n]

\* REQUESTS_BLOCKED was sent for maxima that came one after the other, and
\* for the one in use only if blocked_sent_for says so.
BlockedGrows ==
  /\ \A m \in DOMAIN blocked :
       /\ blocked[m] <= peerMax
       /\ blocked[m] = peerMax => blockedFor = peerMax /\ next >= peerMax
  /\ \A m, n \in DOMAIN blocked : m < n => blocked[m] < blocked[n]

HonestInv == ~rogue => ~failed /\ SenderHonest /\ MaximaGrow
\* What an honest sender has on its way passes every check, and there is room
\* for the mark: it does not move past the id the sender would use next.
LEMMA HonestIsValid ==
  ASSUME TypeOK, CompactionExact, SenderHonest, MaximaGrow, NEW id \in sent
  PROVE  ~Refuse(id)
<1>a. /\ id \in Nat /\ next \in Nat /\ lowWater \in Nat /\ first \in Nat /\ ourMax \in Nat
      /\ peerMax \in Nat /\ above \subseteq Nat /\ accepted \subseteq Nat
      /\ next <= MaxU64 /\ MaxU64 \in Nat
  BY DEF TypeOK
<1>b. /\ accepted = Steps(first, lowWater) \cup above
      /\ lowWater >= first /\ lowWater % 2 = first % 2
  BY DEF CompactionExact
<1>c. /\ id < next /\ id < peerMax /\ id >= first /\ id % 2 = first % 2 /\ id \notin accepted
      /\ next >= first /\ next % 2 = first % 2
      /\ \A i \in accepted : i < next
  BY DEF SenderHonest
<1>1. id < ourMax
  BY <1>a, <1>c DEF MaximaGrow
<1>2. id >= lowWater /\ id \notin above
  <2>1. id \notin Steps(first, lowWater) /\ id \notin above
    BY <1>b, <1>c
  <2> QED
    BY <1>a, <1>c, <2>1 DEF Steps
<1>3. Valid(id)
  BY <1>1, <1>2, <1>c DEF Valid
<1> DEFINE T == {n \in Nat : n >= lowWater /\ n % 2 = lowWater % 2 /\ n \notin above \cup {id}}
<1>4. lowWater <= next
  <2>1. next \notin Steps(first, lowWater)
    BY <1>a, <1>b, <1>c
  <2> QED
    BY <1>a, <1>c, <2>1 DEF Steps
<1>5. next \in T
  <2>1. next \notin above \cup {id}
    BY <1>a, <1>b, <1>c
  <2> QED
    BY <1>a, <1>b, <1>c, <1>4, <2>1
<1>6. PICK low \in T : \A m \in T : low <= m
  <2> HIDE DEF T
  <2>1. T \subseteq Nat
    BY DEF T
  <2> QED
    BY <1>5, <2>1, LeastNatural
<1>7. low \in Ids
  BY <1>5, <1>6, <1>a
<1>8. Steps(lowWater, low) \subseteq above \cup {id}
  <2> SUFFICES ASSUME NEW i \in Steps(lowWater, low), i \notin above \cup {id} PROVE FALSE
    OBVIOUS
  <2>1. i \in Nat /\ i >= lowWater /\ i < low /\ i % 2 = lowWater % 2
    BY <1>a, <1>6 DEF Steps
  <2>2. i \in T
    BY <2>1
  <2> QED
    BY <1>6, <2>1, <2>2
<1>9. Advance(id, low)
  BY <1>6, <1>8 DEF Advance
<1> QED
  BY <1>3, <1>7, <1>9 DEF Refuse

\* MAX_REQUEST_ID of an honest peer is larger than the one in use.
LEMMA HonestMaximum ==
  ASSUME TypeOK, MaximaGrow, ApplyMax
  PROVE  /\ peerMax' = maxSent[1] /\ peerMax' > peerMax /\ blockedFor' = NoMax
         /\ UNCHANGED failed /\ MaximaGrow'
<1>1. maxSent # <<>> /\ 1 \in DOMAIN maxSent /\ Head(maxSent) = maxSent[1]
  BY DEF ApplyMax, TypeOK
<1>2. maxSent[1] > peerMax /\ maxSent[1] \in Ids
  BY <1>1 DEF MaximaGrow, TypeOK
<1>3. peerMax' = maxSent[1] /\ blockedFor' = NoMax /\ UNCHANGED failed
  BY <1>1, <1>2 DEF ApplyMax, Apply, TypeOK
<1>4. /\ maxSent' = Tail(maxSent)
      /\ \A m \in DOMAIN maxSent' : m + 1 \in DOMAIN maxSent /\ maxSent'[m] = maxSent[m + 1] /\ m \in Nat /\ 1 < m + 1
      /\ ourMax' = ourMax
  BY <1>1 DEF ApplyMax, TypeOK
<1>5. MaximaGrow'
  BY <1>1, <1>3, <1>4 DEF MaximaGrow, TypeOK
<1> QED
  BY <1>2, <1>3, <1>5

\* No step of an honest peer, whatever the order of arrival, closes the
\* session.
LEMMA HonestStep ==
  ASSUME TypeOK, CompactionExact, HonestInv, [Next]_vars
  PROVE  HonestInv'
<1> SUFFICES ASSUME ~rogue, rogue' = rogue, first' = first,
                    ~failed, SenderHonest, MaximaGrow, [Next]_vars
             PROVE  ~failed' /\ SenderHonest' /\ MaximaGrow'
  BY DEF HonestInv, Next, vars, Allocate, Blocked, ApplyMax, RaiseMax, ApplyMaxRogue, Receive,
     ReceiveRogue
<1> USE DEF TypeOK
<1>1. CASE Allocate
  <2>1. next' = next + 2 /\ next' % 2 = next % 2 /\ next < peerMax
    BY <1>1 DEF Allocate, HasBudget
  <2>2. /\ sent' \subseteq sent \cup {next}
        /\ UNCHANGED <<peerMax, ourMax, maxSent, failed, accepted>>
    BY <1>1 DEF Allocate, recvVars
  <2>3. SenderHonest'
    BY <2>1, <2>2 DEF SenderHonest
  <2> QED
    BY <2>2, <2>3 DEF MaximaGrow
<1>2. CASE Blocked
  BY <1>2 DEF Blocked, recvVars, SenderHonest, MaximaGrow
<1>3. CASE ApplyMax
  <2>1. UNCHANGED <<failed, next, sent,
                    accepted>> /\ MaximaGrow' /\ peerMax' > peerMax /\ peerMax' \in Int
    BY <1>3, HonestMaximum DEF ApplyMax, recvVars
  <2> QED
    BY <2>1 DEF SenderHonest
<1>4. ASSUME NEW max \in Ids, RaiseMax(max) PROVE ~failed' /\ SenderHonest' /\ MaximaGrow'
  <2>1. UNCHANGED <<failed, next, sent, accepted, peerMax>> /\ ourMax' > ourMax /\ ourMax' \in Ids
    BY <1>4 DEF RaiseMax, recvVars, sendVars
  <2>2. /\ DOMAIN maxSent' = 1 .. Len(maxSent) + 1
        /\ maxSent'[Len(maxSent) + 1] = ourMax'
        /\ \A m \in DOMAIN maxSent : maxSent'[m] = maxSent[m]
        /\ DOMAIN maxSent = 1 .. Len(maxSent)
    BY <1>4 DEF RaiseMax
  <2>3. MaximaGrow'
    <3> DEFINE k == Len(maxSent)
    <3>1. k \in Nat /\ ourMax \in Int /\ ourMax' \in Int /\ peerMax \in Int
          /\ \A m \in 1 .. k : maxSent[m] \in Int
      BY <2>1
    <3>3. \A m \in 1 .. k : maxSent'[m] > peerMax /\ maxSent'[m] <= ourMax
      BY <2>2 DEF MaximaGrow
    <3>4. \A m, n \in 1 .. k : m < n => maxSent'[m] < maxSent'[n]
      BY <2>2 DEF MaximaGrow
    <3> HIDE DEF k, TypeOK
    <3>2. \A m \in 1 .. k + 1 : m \in 1 .. k \/ m = k + 1
      BY <3>1
    <3>5. \A m \in DOMAIN maxSent' : peerMax' < maxSent'[m] /\ maxSent'[m] <= ourMax'
      BY <2>1, <2>2, <3>1, <3>2, <3>3 DEF k, MaximaGrow
    <3>6. ASSUME NEW m \in 1 .. k + 1, NEW n \in 1 .. k + 1, m < n PROVE maxSent'[m] < maxSent'[n]
      BY <2>1, <2>2, <3>1, <3>2, <3>3, <3>4, <3>6 DEF k
    <3>7. peerMax' <= ourMax'
      BY <2>1, <3>1 DEF MaximaGrow
    <3> QED
      BY <2>2, <3>5, <3>6, <3>7 DEF MaximaGrow, k
  <2> QED
    BY <2>1, <2>3 DEF SenderHonest
<1>5. ASSUME NEW id \in Ids, Receive(id) PROVE ~failed' /\ SenderHonest' /\ MaximaGrow'
  <2>1. id \in sent /\ sent' = sent \ {id} /\ UNCHANGED <<next, peerMax, ourMax, maxSent>>
    BY <1>5 DEF Receive, sendVars
  <2>2. Accept(id)
    BY <1>5, <2>1, HonestIsValid DEF Receive
  <2>3. accepted' = accepted \cup {id} /\ UNCHANGED failed
    BY <2>2 DEF Accept
  <2> QED
    BY <2>1, <2>3 DEF SenderHonest, MaximaGrow
<1>6. ASSUME NEW id \in Ids, ApplyMaxRogue(id) \/ ReceiveRogue(id) PROVE FALSE
  BY <1>6 DEF ApplyMaxRogue, ReceiveRogue
<1>7. CASE UNCHANGED vars
  BY <1>7 DEF vars, SenderHonest, MaximaGrow
<1> QED
  BY <1>1, <1>2, <1>3, <1>4, <1>5, <1>6, <1>7 DEF Next
\* REQUESTS_BLOCKED is repeated for no maximum, whatever the peer advertises.
LEMMA BlockedStep ==
  ASSUME TypeOK, BlockedGrows, [Next]_vars
  PROVE  BlockedGrows'
<1>a. ASSUME UNCHANGED <<next, peerMax, blockedFor, blocked>> PROVE BlockedGrows'
  BY <1>a DEF BlockedGrows
<1>b. ASSUME NEW max \in Ids, Apply(max), UNCHANGED <<next, blocked>> PROVE BlockedGrows'
  <2>1. CASE UNCHANGED <<peerMax, blockedFor>>
    BY <1>a, <1>b, <2>1
  <2>2. CASE peerMax' = max /\ max > peerMax
    <3>1. peerMax \in Int /\ max \in Int /\ \A m \in DOMAIN blocked : blocked[m] \in Int
      BY DEF TypeOK
    <3> QED
      BY <1>b, <2>2, <3>1 DEF BlockedGrows
  <2> QED
    BY <1>b, <2>1, <2>2 DEF Apply
<1>1. CASE Allocate
  <2>1. next < peerMax /\ next' = next + 2 /\ UNCHANGED <<peerMax, blocked>>
    BY <1>1 DEF Allocate, HasBudget
  <2>2. next \in Int /\ peerMax \in Int
    BY DEF TypeOK
  <2>3. \A m \in DOMAIN blocked : blocked[m] # peerMax
    BY <2>1, <2>2 DEF BlockedGrows
  <2> QED
    BY <2>1, <2>3 DEF BlockedGrows
<1>2. CASE Blocked
  <2> DEFINE k == Len(blocked)
  <2>1. /\ k \in Nat /\ peerMax \in Int /\ next \in Int
        /\ DOMAIN blocked = 1 .. k /\ \A m \in 1 .. k : blocked[m] \in Int
    BY DEF TypeOK
  <2>2. /\ DOMAIN blocked' = 1 .. k + 1
        /\ blocked'[k + 1] = peerMax
        /\ \A m \in 1 .. k : blocked'[m] = blocked[m]
    BY <1>2 DEF Blocked, TypeOK
  <2>3. blockedFor # peerMax /\ blockedFor' = peerMax /\ next >= peerMax /\ UNCHANGED <<next,
                                                                                        peerMax>>
    BY <1>2, <2>1 DEF Blocked, HasBudget
  <2> HIDE DEF k
  <2>4. \A m \in 1 .. k + 1 : m \in 1 .. k \/ m = k + 1
    BY <2>1
  <2>5. \A m \in 1 .. k : blocked'[m] < peerMax
    BY <2>1, <2>2, <2>3 DEF BlockedGrows
  <2>6. \A m, n \in 1 .. k : m < n => blocked'[m] < blocked'[n]
    BY <2>1, <2>2 DEF BlockedGrows
  <2>7. ASSUME NEW m \in 1 .. k + 1, NEW n \in 1 .. k + 1, m < n PROVE blocked'[m] < blocked'[n]
    BY <2>1, <2>2, <2>4, <2>5, <2>7, <2>6
  <2>8. \A m \in 1 .. k + 1 : blocked'[m] <= peerMax
    BY <2>1, <2>2, <2>4, <2>5
  <2> QED
    BY <2>2, <2>3, <2>7, <2>8 DEF BlockedGrows
<1>3. CASE ApplyMax
  <2>1. Head(maxSent) \in Ids
    BY <1>3 DEF ApplyMax, TypeOK
  <2> QED
    BY <1>3, <1>b, <2>1 DEF ApplyMax
<1>4. ASSUME NEW id \in Ids, ApplyMaxRogue(id) PROVE BlockedGrows'
  BY <1>4, <1>b DEF ApplyMaxRogue
<1>5. ASSUME NEW id \in Ids, RaiseMax(id) \/ Receive(id) \/ ReceiveRogue(id) PROVE BlockedGrows'
  BY <1>5, <1>a DEF RaiseMax, Receive, ReceiveRogue, sendVars
<1>6. CASE UNCHANGED vars
  BY <1>6, <1>a DEF vars
<1> QED
  BY <1>1, <1>2, <1>3, <1>4, <1>5, <1>6 DEF Next

\* request_id.rs: an honest peer is never thrown out over an id or a maximum,
\* whatever order they arrive in, and REQUESTS_BLOCKED is sent at most once
\* for each maximum (validate_incoming, apply_max_request_id, allocate).
THEOREM FlowControlled == Spec => []FlowControl
<1>1. Init => HonestInv /\ BlockedGrows
  <2> SUFFICES ASSUME Init PROVE HonestInv /\ BlockedGrows
    OBVIOUS
  <2>1. first \in Int /\ ourMax \in Int
    BY DEF Init
  <2>2. DOMAIN maxSent = {} /\ DOMAIN blocked = {}
    BY DEF Init
  <2> QED
    BY <2>1, <2>2 DEF Init, HonestInv, SenderHonest, MaximaGrow, BlockedGrows
<1>2. TypeOK /\ CompactionExact /\ HonestInv /\ [Next]_vars => HonestInv'
  BY HonestStep
<1>3. TypeOK /\ BlockedGrows /\ [Next]_vars => BlockedGrows'
  BY BlockedStep
<1>4. TypeOK /\ HonestInv /\ BlockedGrows => FlowControl
  <2> SUFFICES ASSUME TypeOK, HonestInv, BlockedGrows PROVE FlowControl
    OBVIOUS
  <2>1. HonestNeverRejected
    BY DEF HonestInv, HonestNeverRejected
  <2>2. \A m \in DOMAIN blocked : blocked[m] \in Int /\ m \in Int
    BY DEF TypeOK
  <2>3. BlockedOncePerMax
    BY <2>2 DEF BlockedGrows, BlockedOncePerMax
  <2> QED
    BY <2>1, <2>3 DEF FlowControl
<1> QED
  BY <1>1, <1>2, <1>3, <1>4, TypeCorrect, NoIdAcceptedTwice, PTL DEF Spec

-----------------------------------------------------------------------------
(* Subscriptions                                                           *)

(* What is under way to an end is about a request that was made: a PUBLISH   *)
(* or a SUBSCRIBE says what the request's sender noted of it.                *)
Types == {"SUBSCRIBE", "UNSUBSCRIBE", "PUBLISH_OK", "REQUEST_ERROR",
          "PUBLISH", "SUBSCRIBE_OK", "PUBLISH_DONE"}
ToSub == {m \in [type : Types, id : Tracks!Ids] :
            m.type = "PUBLISH" => request[m.id].kind = "publish"}
ToPub == {m \in [type : Types, id : Tracks!Ids] :
            m.type = "SUBSCRIBE" => request[m.id].kind = "subscribe"}

(* Every entry is of a request of its kind, so that a new request id has no  *)
(* entry at either end, and an alias is bound only once the answer is there. *)
TracksInv ==
  /\ Tracks!TypeOK /\ toSub \in Seq(ToSub) /\ toPub \in Seq(ToPub)
  /\ \A id \in subscribes \cup subscribeds : request[id].kind = "subscribe"
  /\ \A id \in publishesReceived \cup publisheds : request[id].kind = "publish"
  /\ subPending \cap aliases = {}
  /\ Tracks!SubscriberMapsAgree /\ Tracks!OnePerTrack /\ Tracks!NoProtocolError

\* Nothing is under way and nobody has an entry.
LEMMA TracksStart == Tracks!Init => TracksInv
<1> SUFFICES ASSUME Tracks!Init PROVE TracksInv
  OBVIOUS
<1>1. Tracks!TypeOK
  BY DEF Tracks!Init, Tracks!TypeOK, Tracks!NoRequest, Tracks!None, Tracks!Kinds
<1>2. Tracks!SubscriberMapsAgree /\ Tracks!OnePerTrack /\ Tracks!NoProtocolError
  BY SessionAssumption DEF Tracks!Init, Tracks!SubscriberMapsAgree, Tracks!OnePerTrack,
     Tracks!NoProtocolError, Tracks!None, Tracks!Ids,
   Tracks!SubscriptionsAssumption
<1>3. QED
  BY <1>1, <1>2 DEF TracksInv, Tracks!Init

\* A sequence over a set is one over a larger set.
LEMMA SeqOfMore == ASSUME NEW S, NEW T, S \subseteq T, NEW s \in Seq(S) PROVE s \in Seq(T)
  OBVIOUS

\* One end of a queue or both are used: a message is taken, then one is sent.
Sends(q, p, S) ==
  \E rest \in {q} \cup (IF q = <<>> THEN {} ELSE {Tail(q)}) :
    p = rest \/ \E m \in S : p = rest \o <<m>>

\* A message is queued, a request may be made: what was under way stays right.
LEMMA QueuesKept ==
  ASSUME TracksInv,
         \A id \in Tracks!Ids : request[id] # Tracks!NoRequest => request'[id] = request[id],
         Sends(toSub, toSub', ToSub'),
         Sends(toPub, toPub', ToPub')
  PROVE  (toSub \in Seq(ToSub) /\ toPub \in Seq(ToPub))'
<1>1. ToSub \subseteq ToSub' /\ ToPub \subseteq ToPub'
  BY DEF ToSub, ToPub, Tracks!NoRequest
<1>2. /\ toSub \in Seq(ToSub') /\ toPub \in Seq(ToPub')
      /\ toSub # <<>> => Tail(toSub) \in Seq(ToSub')
      /\ toPub # <<>> => Tail(toPub) \in Seq(ToPub')
  BY <1>1, SeqOfMore DEF TracksInv
<1>3. ASSUME NEW S, NEW q, NEW p, q \in Seq(S), q # <<>> => Tail(q) \in Seq(S), Sends(q, p, S)
      PROVE p \in Seq(S)
  <2>1. PICK rest \in Seq(S) : p = rest \/ \E m \in S : p = rest \o <<m>>
    BY <1>3 DEF Sends
  <2>2. ASSUME NEW m \in S PROVE rest \o <<m>> \in Seq(S)
    <3>1. <<m>> \in Seq(S)
      OBVIOUS
    <3>2. QED
      BY <3>1
  <2>3. QED
    BY <2>1, <2>2
<1>4. QED
  BY <1>2, <1>3

\* The subscriber forgets a SUBSCRIBE (remove_subscribe).
LEMMA SubscribeRemoved ==
  ASSUME TracksInv, NEW id \in Tracks!Ids, Tracks!RemoveSubscribe(id), id \notin publishesReceived,
         UNCHANGED <<request, publishesReceived>>
  PROVE  /\ Tracks!SubscriberMapsAgree' /\ subPending' \cap aliases' = {}
         /\ subscribes' \subseteq subscribes /\ aliases' \subseteq aliases
         /\ subPending' \subseteq subPending
         /\ subscriberNames' \in [Names -> Tracks!Ids \cup {Tracks!None}]
<1>0. Tracks!Ids \subseteq Nat \ {0} /\ Tracks!None = 0
  BY SessionAssumption DEF Tracks!Ids, Tracks!None, Tracks!SubscriptionsAssumption
<1>1. QED
  BY <1>0 DEF TracksInv, Tracks!TypeOK, Tracks!SubscriberMapsAgree, Tracks!RemoveSubscribe,
     Tracks!RemoveId

\* The publisher forgets a PUBLISH or a SUBSCRIBE (remove_published, remove_subscribe).
LEMMA PublishedRemoved ==
  ASSUME TracksInv, NEW id \in Tracks!Ids,
         UNCHANGED <<request>>,
         \/ Tracks!RemovePublished(id) /\ UNCHANGED <<subscribeds, subscribedNames>>
         \/ Tracks!RemoveSubscribed(id) /\ UNCHANGED <<publisheds, publishedNames, pubPending>>
  PROVE  /\ Tracks!OnePerTrack'
         /\ subscribeds' \subseteq subscribeds /\ publisheds' \subseteq publisheds
         /\ pubPending' \subseteq pubPending
         /\ subscribedNames' \in [Names -> Tracks!Ids \cup {Tracks!None}]
         /\ publishedNames' \in [Names -> Tracks!Ids \cup {Tracks!None}]
<1>0. Tracks!Ids \subseteq Nat \ {0} /\ Tracks!None = 0
  BY SessionAssumption DEF Tracks!Ids, Tracks!None, Tracks!SubscriptionsAssumption
<1>1. CASE Tracks!RemovePublished(id) /\ UNCHANGED <<subscribeds, subscribedNames>>
  BY <1>0, <1>1 DEF TracksInv, Tracks!TypeOK, Tracks!OnePerTrack, Tracks!RemovePublished,
     Tracks!RemoveId
<1>2. CASE Tracks!RemoveSubscribed(id) /\ UNCHANGED <<publisheds, publishedNames, pubPending>>
  BY <1>0, <1>2 DEF TracksInv, Tracks!TypeOK, Tracks!OnePerTrack, Tracks!RemoveSubscribed,
     Tracks!RemoveId
<1>3. QED
  BY <1>1, <1>2

\* Every handler of the two ends keeps the maps of subscriptions.
LEMMA TracksStep == ASSUME TracksInv, [Tracks!Next]_(Tracks!vars) PROVE TracksInv'
<1>0. Tracks!Ids \subseteq Nat \ {0} /\ Tracks!None = 0
  BY SessionAssumption DEF Tracks!Ids, Tracks!None, Tracks!SubscriptionsAssumption
<1>m. \A id \in Tracks!Ids :
        /\ \A type \in {"UNSUBSCRIBE", "PUBLISH_OK", "REQUEST_ERROR"} : Tracks!Msg(type, id) \in ToPub'
        /\ \A type \in {"SUBSCRIBE_OK", "PUBLISH_DONE", "REQUEST_ERROR"} : Tracks!Msg(type, id) \in ToSub'
  <2>1. \A id \in Tracks!Ids, type \in Types : Tracks!Msg(type, id) \in [type : Types, id : Tracks!Ids]
    BY DEF Tracks!Msg
  <2>2. QED
    BY <2>1 DEF Tracks!Msg, ToPub, ToSub, Types
<1>1. ASSUME NEW id \in Tracks!Ids, NEW n \in Names, Tracks!SubscribeOpen(id, n) PROVE TracksInv'
  <2>1. Tracks!Msg("SUBSCRIBE", id) \in ToPub'
    <3>1. Tracks!Msg("SUBSCRIBE", id) \in [type : Types, id : Tracks!Ids]
      BY DEF Tracks!Msg, Types
    <3>2. request'[id].kind = "subscribe"
      BY <1>1 DEF Tracks!SubscribeOpen, TracksInv, Tracks!TypeOK
    <3>3. QED
      BY <3>1, <3>2 DEF Tracks!Msg, ToPub
  <2>2. (toSub \in Seq(ToSub) /\ toPub \in Seq(ToPub))'
    BY <1>1, <2>1, QueuesKept DEF Sends, Tracks!SubscribeOpen, Tracks!SendPub, Tracks!Fresh,
       TracksInv, Tracks!TypeOK
  <2>3. Tracks!TypeOK'
    BY <1>1, <1>0 DEF TracksInv, Tracks!SubscribeOpen, Tracks!TypeOK, Tracks!pubVars, Tracks!Kinds
  <2>4. id \notin subscribes \cup publishesReceived \cup subscribeds \cup publisheds
    BY <1>1 DEF TracksInv, Tracks!SubscribeOpen, Tracks!Fresh, Tracks!NoRequest
  <2>5. QED
    BY <1>0, <1>1, <2>2, <2>3, <2>4
       DEF TracksInv, Tracks!SubscribeOpen, Tracks!TypeOK, Tracks!pubVars,
          Tracks!SubscriberMapsAgree,
           Tracks!OnePerTrack, Tracks!NoProtocolError
<1>2. ASSUME NEW id \in Tracks!Ids, Tracks!DropSubscribe(id) PROVE TracksInv'
  <2>1. (toSub \in Seq(ToSub) /\ toPub \in Seq(ToPub))'
    BY <1>2, <1>m, QueuesKept DEF Sends, Tracks!DropSubscribe, Tracks!SendPub, Tracks!pubVars
  <2>2. Tracks!TypeOK'
    BY <1>0, <1>2 DEF TracksInv, Tracks!TypeOK, Tracks!DropSubscribe, Tracks!SendPub, Tracks!pubVars
  <2>3. QED
    BY <1>0, <1>2, <2>1, <2>2
       DEF TracksInv, Tracks!TypeOK, Tracks!SubscriberMapsAgree, Tracks!OnePerTrack,
          Tracks!NoProtocolError, Tracks!DropSubscribe, Tracks!SendPub, Tracks!pubVars
<1>3. ASSUME NEW id \in Tracks!Ids, Tracks!FinishSubscribe(id) PROVE TracksInv'
  <2>1. (toSub \in Seq(ToSub) /\ toPub \in Seq(ToPub))'
    BY <1>3, <1>m, QueuesKept DEF Sends, Tracks!FinishSubscribe, Tracks!RemoveSubscribe,
       Tracks!RemoveId, Tracks!pubVars
  <2>2. Tracks!TypeOK'
    BY <1>0, <1>3 DEF TracksInv, Tracks!TypeOK, Tracks!FinishSubscribe, Tracks!RemoveSubscribe,
       Tracks!RemoveId, Tracks!pubVars
  <2>3. QED
    BY <1>0, <1>3, <2>1, <2>2
       DEF TracksInv, Tracks!TypeOK, Tracks!SubscriberMapsAgree, Tracks!OnePerTrack,
          Tracks!NoProtocolError, Tracks!FinishSubscribe, Tracks!RemoveSubscribe, Tracks!RemoveId,
          Tracks!pubVars
<1>4. ASSUME NEW id \in Tracks!Ids, Tracks!DropReaders(id) PROVE TracksInv'
  <2>1. (toSub \in Seq(ToSub) /\ toPub \in Seq(ToPub))'
    BY <1>4, <1>m, QueuesKept DEF Sends, Tracks!DropReaders, Tracks!pubVars
  <2>2. Tracks!TypeOK'
    BY <1>0, <1>4 DEF TracksInv, Tracks!TypeOK, Tracks!DropReaders, Tracks!pubVars
  <2>3. QED
    BY <1>0, <1>4, <2>1, <2>2
       DEF TracksInv, Tracks!TypeOK, Tracks!SubscriberMapsAgree, Tracks!OnePerTrack,
          Tracks!NoProtocolError, Tracks!DropReaders, Tracks!pubVars
<1>5. ASSUME NEW id \in Tracks!Ids, Tracks!AcceptPublish(id) PROVE TracksInv'
  <2>1. (toSub \in Seq(ToSub) /\ toPub \in Seq(ToPub))'
    BY <1>5, <1>m, QueuesKept DEF Sends, Tracks!AcceptPublish, Tracks!SendPub, Tracks!pubVars
  <2>2. Tracks!TypeOK'
    BY <1>0, <1>5 DEF TracksInv, Tracks!TypeOK, Tracks!AcceptPublish, Tracks!SendPub, Tracks!pubVars
  <2>3. QED
    BY <1>0, <1>5, <2>1, <2>2
       DEF TracksInv, Tracks!TypeOK, Tracks!SubscriberMapsAgree, Tracks!OnePerTrack,
          Tracks!NoProtocolError, Tracks!AcceptPublish, Tracks!SendPub, Tracks!pubVars
<1>6. ASSUME NEW id \in Tracks!Ids, Tracks!DropPublishReceived(id) PROVE TracksInv'
  <2>1. (toSub \in Seq(ToSub) /\ toPub \in Seq(ToPub))'
    BY <1>6, <1>m, QueuesKept DEF Sends, Tracks!DropPublishReceived, Tracks!SendPub, Tracks!pubVars
  <2>2. Tracks!TypeOK'
    BY <1>0, <1>6 DEF TracksInv, Tracks!TypeOK, Tracks!DropPublishReceived, Tracks!SendPub,
       Tracks!pubVars
  <2>3. QED
    BY <1>0, <1>6, <2>1, <2>2
       DEF TracksInv, Tracks!TypeOK, Tracks!SubscriberMapsAgree, Tracks!OnePerTrack,
          Tracks!NoProtocolError, Tracks!DropPublishReceived, Tracks!SendPub, Tracks!pubVars
<1>7. ASSUME NEW id \in Tracks!Ids, Tracks!FinishPublishReceived(id) PROVE TracksInv'
  <2>1. (toSub \in Seq(ToSub) /\ toPub \in Seq(ToPub))'
    BY <1>7, <1>m, QueuesKept DEF Sends, Tracks!FinishPublishReceived,
       Tracks!RemovePublishReceived, Tracks!RemoveId, Tracks!pubVars
  <2>2. Tracks!TypeOK'
    BY <1>0, <1>7 DEF TracksInv, Tracks!TypeOK, Tracks!FinishPublishReceived,
       Tracks!RemovePublishReceived, Tracks!RemoveId, Tracks!pubVars
  <2>3. QED
    BY <1>0, <1>7, <2>1, <2>2
       DEF TracksInv, Tracks!TypeOK, Tracks!SubscriberMapsAgree, Tracks!OnePerTrack,
          Tracks!NoProtocolError, Tracks!FinishPublishReceived, Tracks!RemovePublishReceived,
          Tracks!RemoveId, Tracks!pubVars
<1>8. ASSUME NEW id \in Tracks!Ids, Tracks!SubscribeTimeout(id) PROVE TracksInv'
  <2>1. (toSub \in Seq(ToSub) /\ toPub \in Seq(ToPub))'
    BY <1>8, <1>m, QueuesKept DEF Sends, Tracks!SubscribeTimeout
  <2>2. id \in subscribes /\ id \notin publishesReceived
    BY <1>8 DEF TracksInv, Tracks!SubscriberMapsAgree, Tracks!SubscribeTimeout
  <2>3. Tracks!RemoveSubscribe(id) /\ Tracks!Error(id) /\ UNCHANGED <<request, publishesReceived>>
    BY <1>8, <2>2 DEF Tracks!SubscribeTimeout, Tracks!EndSubscribe
  <2>4. UNCHANGED <<subOk, sHandle, readers, Tracks!pubVars>>
    BY <1>8 DEF Tracks!SubscribeTimeout, Tracks!EndSubscribe
  <2>5. QED
    BY <2>1, <2>2, <2>3, <2>4, SubscribeRemoved DEF TracksInv, Tracks!TypeOK, Tracks!OnePerTrack,
       Tracks!NoProtocolError, Tracks!Error, Tracks!pubVars
<1>9. ASSUME NEW id \in Tracks!Ids, Tracks!StreamFails(id) PROVE TracksInv'
  <2>1. (toSub \in Seq(ToSub) /\ toPub \in Seq(ToPub))'
    BY <1>9, <1>m, QueuesKept DEF Sends, Tracks!StreamFails
  <2>2. Tracks!RemoveSubscribe(id) /\ UNCHANGED <<request,
                                                  publishesReceived>> /\ id \notin publishesReceived
    BY <1>9 DEF Tracks!StreamFails, TracksInv
  <2>3. subClosed' \subseteq Tracks!Ids /\ UNCHANGED <<subOk, sHandle, readers, Tracks!pubVars,
                                                       sFailed>>
    BY <1>9 DEF Tracks!StreamFails, TracksInv, Tracks!TypeOK
  <2>4. QED
    BY <2>1, <2>2, <2>3, SubscribeRemoved DEF TracksInv, Tracks!TypeOK, Tracks!OnePerTrack,
       Tracks!NoProtocolError, Tracks!pubVars
<1>10. ASSUME NEW id \in Tracks!Ids, Tracks!ClosePublished(id) PROVE TracksInv'
  <2>1. (toSub \in Seq(ToSub) /\ toPub \in Seq(ToPub))'
    BY <1>10, <1>m, QueuesKept DEF Sends, Tracks!ClosePublished, Tracks!subVars
  <2>2. Tracks!TypeOK'
    BY <1>0, <1>10 DEF TracksInv, Tracks!TypeOK, Tracks!ClosePublished, Tracks!subVars
  <2>3. QED
    BY <1>0, <1>10, <2>1, <2>2
       DEF TracksInv, Tracks!TypeOK, Tracks!SubscriberMapsAgree, Tracks!OnePerTrack,
          Tracks!NoProtocolError, Tracks!ClosePublished, Tracks!subVars
<1>11. ASSUME NEW id \in Tracks!Ids, Tracks!DropPublished(id) PROVE TracksInv'
  <2>1. (toSub \in Seq(ToSub) /\ toPub \in Seq(ToPub))'
    BY <1>11, <1>m, QueuesKept DEF Sends, Tracks!DropPublished, Tracks!SendSub,
       Tracks!RemovePublished, Tracks!RemoveId, Tracks!subVars
  <2>2. Tracks!TypeOK'
    BY <1>0, <1>11 DEF TracksInv, Tracks!TypeOK, Tracks!DropPublished, Tracks!SendSub,
       Tracks!RemovePublished, Tracks!RemoveId, Tracks!subVars
  <2>3. QED
    BY <1>0, <1>11, <2>1, <2>2
       DEF TracksInv, Tracks!TypeOK, Tracks!SubscriberMapsAgree, Tracks!OnePerTrack,
          Tracks!NoProtocolError, Tracks!DropPublished, Tracks!SendSub, Tracks!RemovePublished,
          Tracks!RemoveId, Tracks!subVars
<1>12. ASSUME NEW id \in Tracks!Ids, Tracks!ServeAck(id) PROVE TracksInv'
  <2>1. (toSub \in Seq(ToSub) /\ toPub \in Seq(ToPub))'
    BY <1>12, <1>m, QueuesKept DEF Sends, Tracks!ServeAck, Tracks!SendSub, Tracks!subVars
  <2>2. Tracks!TypeOK'
    BY <1>0, <1>12 DEF TracksInv, Tracks!TypeOK, Tracks!ServeAck, Tracks!SendSub, Tracks!subVars
  <2>3. QED
    BY <1>0, <1>12, <2>1, <2>2
       DEF TracksInv, Tracks!TypeOK, Tracks!SubscriberMapsAgree, Tracks!OnePerTrack,
          Tracks!NoProtocolError, Tracks!ServeAck, Tracks!SendSub, Tracks!subVars
<1>13. ASSUME NEW id \in Tracks!Ids, Tracks!ServeAcked(id) PROVE TracksInv'
  <2>1. (toSub \in Seq(ToSub) /\ toPub \in Seq(ToPub))'
    BY <1>13, <1>m, QueuesKept DEF Sends, Tracks!ServeAcked, Tracks!subVars
  <2>2. Tracks!TypeOK'
    BY <1>0, <1>13 DEF TracksInv, Tracks!TypeOK, Tracks!ServeAcked, Tracks!subVars
  <2>3. QED
    BY <1>0, <1>13, <2>1, <2>2
       DEF TracksInv, Tracks!TypeOK, Tracks!SubscriberMapsAgree, Tracks!OnePerTrack,
          Tracks!NoProtocolError, Tracks!ServeAcked, Tracks!subVars
<1>14. ASSUME NEW id \in Tracks!Ids, Tracks!CloseSubscribed(id) PROVE TracksInv'
  <2>1. (toSub \in Seq(ToSub) /\ toPub \in Seq(ToPub))'
    BY <1>14, <1>m, QueuesKept DEF Sends, Tracks!CloseSubscribed, Tracks!subVars
  <2>2. Tracks!TypeOK'
    BY <1>0, <1>14 DEF TracksInv, Tracks!TypeOK, Tracks!CloseSubscribed, Tracks!subVars
  <2>3. QED
    BY <1>0, <1>14, <2>1, <2>2
       DEF TracksInv, Tracks!TypeOK, Tracks!SubscriberMapsAgree, Tracks!OnePerTrack,
          Tracks!NoProtocolError, Tracks!CloseSubscribed, Tracks!subVars
<1>15. ASSUME NEW id \in Tracks!Ids, Tracks!DropSubscribed(id) PROVE TracksInv'
  <2>1. (toSub \in Seq(ToSub) /\ toPub \in Seq(ToPub))'
    BY <1>15, <1>m, QueuesKept DEF Sends, Tracks!DropSubscribed, Tracks!SendSub
  <2>2. UNCHANGED <<request, Tracks!subVars, publishedNames, publisheds, pubPending, pubOk,
                    pubClosed, sUnsubscribed, sFailed>>
    BY <1>15 DEF Tracks!DropSubscribed
  <2>3. server' \in [Tracks!Ids -> {"none", "held", "acking", "serving", "closing", "erring", "gone"}]
    BY <1>15 DEF Tracks!DropSubscribed, TracksInv, Tracks!TypeOK
  <2>4. UNCHANGED <<subscribeds, subscribedNames>> \/ Tracks!RemoveSubscribed(id)
    BY <1>15 DEF Tracks!DropSubscribed
  <2>5. CASE UNCHANGED <<subscribeds, subscribedNames>>
    BY <2>1, <2>2, <2>3, <2>5 DEF TracksInv, Tracks!TypeOK, Tracks!OnePerTrack,
       Tracks!SubscriberMapsAgree,
       Tracks!NoProtocolError, Tracks!subVars
  <2>6. CASE Tracks!RemoveSubscribed(id)
    BY <2>1, <2>2, <2>3, <2>6, PublishedRemoved DEF TracksInv, Tracks!TypeOK,
       Tracks!SubscriberMapsAgree,
       Tracks!NoProtocolError, Tracks!subVars
  <2>7. QED
    BY <2>4, <2>5, <2>6
<1>16. ASSUME NEW id \in Tracks!Ids, Tracks!FinishSubscribed(id) PROVE TracksInv'
  <2>1. (toSub \in Seq(ToSub) /\ toPub \in Seq(ToPub))'
    BY <1>16, <1>m, QueuesKept DEF Sends, Tracks!FinishSubscribed, Tracks!RemoveSubscribed,
       Tracks!RemoveId, Tracks!subVars
  <2>2. Tracks!TypeOK'
    BY <1>0, <1>16 DEF TracksInv, Tracks!TypeOK, Tracks!FinishSubscribed, Tracks!RemoveSubscribed,
       Tracks!RemoveId, Tracks!subVars
  <2>3. QED
    BY <1>0, <1>16, <2>1, <2>2
       DEF TracksInv, Tracks!TypeOK, Tracks!SubscriberMapsAgree, Tracks!OnePerTrack,
          Tracks!NoProtocolError, Tracks!FinishSubscribed, Tracks!RemoveSubscribed,
          Tracks!RemoveId, Tracks!subVars
<1>17. ASSUME NEW id \in Tracks!Ids, Tracks!PublishTimeout(id) PROVE TracksInv'
  <2>1. (toSub \in Seq(ToSub) /\ toPub \in Seq(ToPub))'
    BY <1>17, <1>m, QueuesKept DEF Sends, Tracks!PublishTimeout
  <2>2. /\ Tracks!RemovePublished(id) /\ pubClosed' \subseteq Tracks!Ids
        /\ UNCHANGED <<request, Tracks!subVars, subscribedNames, subscribeds, server, pubOk,
                       sUnsubscribed, sFailed>>
    BY <1>17 DEF Tracks!PublishTimeout, Tracks!EndPublish, TracksInv, Tracks!TypeOK
  <2>3. QED
    BY <2>1, <2>2, PublishedRemoved DEF TracksInv, Tracks!TypeOK, Tracks!SubscriberMapsAgree,
       Tracks!NoProtocolError, Tracks!subVars
<1>18. ASSUME NEW id \in Tracks!Ids, NEW n \in Names, Tracks!Publish(id, n) PROVE TracksInv'
  <2>1. Tracks!Msg("PUBLISH", id) \in ToSub'
    <3>1. Tracks!Msg("PUBLISH", id) \in [type : Types, id : Tracks!Ids]
      BY DEF Tracks!Msg, Types
    <3>2. request'[id].kind = "publish"
      BY <1>18 DEF Tracks!Publish, TracksInv, Tracks!TypeOK
    <3>3. QED
      BY <3>1, <3>2 DEF Tracks!Msg, ToSub
  <2>2. (toSub \in Seq(ToSub) /\ toPub \in Seq(ToPub))'
    BY <1>18, <2>1, QueuesKept DEF Sends, Tracks!Publish, Tracks!SendSub, Tracks!Fresh, TracksInv,
       Tracks!TypeOK
  <2>3. Tracks!TypeOK'
    BY <1>18, <1>0 DEF TracksInv, Tracks!Publish, Tracks!TypeOK, Tracks!subVars, Tracks!Kinds
  <2>4. id \notin subscribes \cup publishesReceived \cup subscribeds \cup publisheds
    BY <1>18 DEF TracksInv, Tracks!Publish, Tracks!Fresh, Tracks!NoRequest
  <2>5. QED
    <3>1. \A j \in subscribeds \cup publisheds : j \in Tracks!Ids /\ request[j].name # n
      BY <1>0, <1>18 DEF TracksInv, Tracks!TypeOK, Tracks!OnePerTrack, Tracks!NameFree,
         Tracks!Publish
    <3>2. Tracks!OnePerTrack'
      BY <1>0, <1>18, <2>4, <3>1 DEF TracksInv, Tracks!Publish, Tracks!TypeOK, Tracks!OnePerTrack
    <3>3. Tracks!SubscriberMapsAgree'
      BY <1>0, <1>18, <2>4 DEF TracksInv, Tracks!Publish, Tracks!TypeOK, Tracks!subVars,
         Tracks!SubscriberMapsAgree
    <3>4. QED
      BY <1>18, <2>2, <2>3, <2>4, <3>2, <3>3
         DEF TracksInv, Tracks!Publish, Tracks!TypeOK, Tracks!subVars, Tracks!NoProtocolError
<1>19. CASE Tracks!SubscriberRecv
  <2> DEFINE m == Head(toSub)
  <2>1. m \in ToSub /\ toSub' = Tail(toSub) /\ toSub # <<>>
    BY <1>19 DEF Tracks!SubscriberRecv, TracksInv
  <2>2. /\ m.id \in Tracks!Ids
        /\ m.type = "PUBLISH" => request[m.id].kind = "publish"
        /\ UNCHANGED <<request, Tracks!pubVars>>
    BY <1>19, <2>1 DEF ToSub, Tracks!SubscriberRecv
  <2> DEFINE id == m.id
  <2>3. (toSub \in Seq(ToSub) /\ toPub \in Seq(ToPub))'
    <3>1. toPub' = toPub \/ toPub' = toPub \o <<Tracks!Msg("REQUEST_ERROR", m.id)>>
      BY <1>19 DEF Tracks!SubscriberRecv, Tracks!RecvPublish, Tracks!SendPub
    <3>2. Sends(toPub, toPub', ToPub') /\ Sends(toSub, toSub', ToSub')
      BY <1>m, <2>1, <2>2, <3>1 DEF Sends
    <3>3. QED
      BY <2>2, <3>2, QueuesKept
  <2> HIDE DEF m
  <2>4. CASE m.type = "PUBLISH" /\ Tracks!RecvPublish(id, request[id].name)
    <3>1. request[id].name \in Names /\ id \in Tracks!Ids /\ request[id].kind = "publish"
      BY <2>2, <2>4 DEF TracksInv, Tracks!TypeOK, Tracks!NoRequest
    <3>2. PICK n \in Names : n = request[id].name /\ Tracks!RecvPublish(id, n)
      BY <3>1, <2>4
    <3>3. CASE subscriberNames[n] # Tracks!None
      BY <2>2, <2>3, <3>2, <3>3 DEF TracksInv, Tracks!RecvPublish, Tracks!TypeOK,
         Tracks!SubscriberMapsAgree,
         Tracks!OnePerTrack, Tracks!NoProtocolError, Tracks!subVars, Tracks!pubVars
    <3>4. CASE subscriberNames[n] = Tracks!None
      <4>1. id \notin subscribes \cup publishesReceived
        BY <1>0, <3>1, <3>2, <3>4 DEF TracksInv, Tracks!SubscriberMapsAgree
      <4>2. ~Tracks!AliasBound(id)
        BY <4>1 DEF TracksInv, Tracks!SubscriberMapsAgree, Tracks!AliasBound, Tracks!AliasOf
      <4>3. /\ subscriberNames' = [subscriberNames EXCEPT ![n] = id]
            /\ aliases' = aliases \cup {id}
            /\ publishesReceived' = publishesReceived \cup {id}
            /\ sHandle' = [sHandle EXCEPT ![id] = "held"]
            /\ readers' = readers \cup {id}
            /\ UNCHANGED <<sFailed, subscribes, subPending, subOk, subClosed>>
        BY <3>2, <3>4, <4>2 DEF Tracks!RecvPublish
      <4>4. Tracks!TypeOK'
        BY <2>2, <3>1, <4>3 DEF TracksInv, Tracks!TypeOK, Tracks!pubVars
      <4>5. QED
        BY <1>0, <2>2, <2>3, <3>1, <3>2, <3>4, <4>1, <4>3, <4>4 DEF TracksInv, Tracks!TypeOK,
           Tracks!SubscriberMapsAgree,
           Tracks!OnePerTrack, Tracks!NoProtocolError, Tracks!pubVars
    <3>5. QED
      BY <3>3, <3>4
  <2>5. ASSUME Tracks!RemoveSubscribe(id), id \in subscribes, Tracks!Error(id),
               UNCHANGED <<publishesReceived, subOk, sHandle, readers>>
        PROVE TracksInv'
    <3>1. id \notin publishesReceived
      BY <2>5 DEF TracksInv
    <3>2. QED
      BY <2>2, <2>3, <2>5, <3>1, SubscribeRemoved DEF TracksInv, Tracks!TypeOK, Tracks!OnePerTrack,
       Tracks!NoProtocolError, Tracks!Error, Tracks!pubVars
  <2>6. ASSUME UNCHANGED <<Tracks!subVars, sFailed>> PROVE TracksInv'
    BY <2>2, <2>3, <2>6 DEF TracksInv, Tracks!TypeOK, Tracks!OnePerTrack,
       Tracks!SubscriberMapsAgree,
       Tracks!NoProtocolError, Tracks!pubVars, Tracks!subVars
  <2>7. CASE Tracks!RecvSubscribeOk(id) /\ UNCHANGED <<sHandle, readers>>
    <3>1. CASE id \notin subPending
      BY <2>6, <2>7, <3>1 DEF Tracks!RecvSubscribeOk, Tracks!Ignore, Tracks!subVars
    <3>2. CASE id \in subPending
      <4>1. id \in subscribes /\ ~Tracks!AliasBound(id)
        BY <3>2 DEF TracksInv, Tracks!SubscriberMapsAgree, Tracks!AliasBound, Tracks!AliasOf
      <4>2. /\ subPending' = subPending \ {id}
            /\ aliases' = aliases \cup {id} /\ subOk' = subOk \cup {id}
            /\ UNCHANGED <<sFailed, subscriberNames, subscribes, publishesReceived, subClosed>>
        BY <2>7, <3>2, <4>1 DEF Tracks!RecvSubscribeOk
      <4>3. QED
        BY <2>2, <2>3, <2>7, <4>1, <4>2 DEF TracksInv, Tracks!TypeOK, Tracks!OnePerTrack,
           Tracks!SubscriberMapsAgree,
           Tracks!NoProtocolError, Tracks!pubVars
    <3>3. QED
      BY <3>1, <3>2
  <2>8. CASE Tracks!RecvSubscribeError(id) /\ UNCHANGED <<sHandle, readers>>
    <3>1. CASE id \notin subPending
      BY <2>6, <2>8, <3>1 DEF Tracks!RecvSubscribeError, Tracks!Ignore, Tracks!subVars
    <3>2. CASE id \in subPending
      <4>1. id \in subscribes
        BY <3>2 DEF TracksInv, Tracks!SubscriberMapsAgree
      <4>2. QED
        BY <2>5, <2>8, <3>2, <4>1 DEF Tracks!RecvSubscribeError, Tracks!EndSubscribe
    <3>3. QED
      BY <3>1, <3>2
  <2>9. CASE Tracks!RecvPublishDone(id) /\ UNCHANGED <<sHandle, readers>>
    <3>1. CASE id \in subscribes /\ Tracks!EndSubscribe(id)
      BY <2>5, <2>9, <3>1 DEF Tracks!EndSubscribe
    <3>2. CASE /\ id \notin subscribes /\ id \in publishesReceived
               /\ Tracks!RemovePublishReceived(id)
               /\ subClosed' = subClosed \cup {id}
               /\ UNCHANGED <<subscribes, subPending, subOk, sFailed>>
      <4>1. Tracks!TypeOK'
        BY <2>2, <2>9, <3>2 DEF TracksInv, Tracks!TypeOK, Tracks!RemovePublishReceived,
           Tracks!RemoveId, Tracks!pubVars
      <4>2. QED
        BY <1>0, <2>2, <2>3, <2>9, <3>2, <4>1 DEF TracksInv, Tracks!TypeOK, Tracks!OnePerTrack,
           Tracks!SubscriberMapsAgree,
           Tracks!NoProtocolError, Tracks!pubVars, Tracks!RemovePublishReceived, Tracks!RemoveId
    <3>3. CASE Tracks!Ignore
      BY <2>6, <2>9, <3>3 DEF Tracks!Ignore, Tracks!subVars
    <3>4. QED
      BY <2>9, <3>1, <3>2, <3>3 DEF Tracks!RecvPublishDone
  <2>10. QED
    BY <1>19, <2>4, <2>7, <2>8, <2>9 DEF Tracks!SubscriberRecv, m
<1>20. CASE Tracks!PublisherRecv
  <2> DEFINE m == Head(toPub)
  <2>1. m \in ToPub /\ toPub' = Tail(toPub) /\ toPub # <<>>
    BY <1>20 DEF Tracks!PublisherRecv, TracksInv
  <2>2. /\ m.id \in Tracks!Ids
        /\ m.type = "SUBSCRIBE" => request[m.id].kind = "subscribe"
        /\ UNCHANGED <<request, Tracks!subVars>>
    BY <1>20, <2>1 DEF ToPub, Tracks!PublisherRecv
  <2> DEFINE id == m.id
  <2>3. (toSub \in Seq(ToSub) /\ toPub \in Seq(ToPub))'
    <3>1. toSub' = toSub \/ toSub' = toSub \o <<Tracks!Msg("REQUEST_ERROR", m.id)>>
      BY <1>20 DEF Tracks!PublisherRecv, Tracks!RecvSubscribe, Tracks!SendSub
    <3>2. Sends(toPub, toPub', ToPub') /\ Sends(toSub, toSub', ToSub')
      BY <1>m, <2>1, <2>2, <3>1 DEF Sends
    <3>3. QED
      BY <2>2, <3>2, QueuesKept
  <2> HIDE DEF m
  <2>4. ASSUME pubClosed' \subseteq Tracks!Ids, sUnsubscribed' \subseteq Tracks!Ids, pubOk' \subseteq Tracks!Ids,
               pubPending' \subseteq Tracks!Ids, sFailed' \in {"no", "serve"},
               UNCHANGED <<server, subscribeds, subscribedNames, publisheds, publishedNames>>
        PROVE TracksInv'
    BY <2>2, <2>3, <2>4 DEF TracksInv, Tracks!TypeOK, Tracks!OnePerTrack,
       Tracks!SubscriberMapsAgree,
       Tracks!NoProtocolError, Tracks!subVars
  <2>5. ASSUME pubClosed' \subseteq Tracks!Ids, sUnsubscribed' \subseteq Tracks!Ids, pubOk' \subseteq Tracks!Ids,
               sFailed' \in {"no", "serve"}, UNCHANGED server,
               \/ Tracks!RemovePublished(id) /\ UNCHANGED <<subscribeds, subscribedNames>>
               \/ Tracks!RemoveSubscribed(id) /\ UNCHANGED <<publisheds, publishedNames,
                                                             pubPending>>
        PROVE TracksInv'
    BY <2>2, <2>3, <2>5, PublishedRemoved DEF TracksInv, Tracks!TypeOK, Tracks!SubscriberMapsAgree,
       Tracks!NoProtocolError, Tracks!subVars
  <2>6. sFailed = "no" /\ pubClosed \subseteq Tracks!Ids /\ sUnsubscribed \subseteq Tracks!Ids
        /\ pubOk \subseteq Tracks!Ids /\ pubPending \subseteq Tracks!Ids
    BY <1>20 DEF Tracks!PublisherRecv, TracksInv, Tracks!TypeOK
  <2>7. CASE /\ m.type = "SUBSCRIBE" /\ Tracks!RecvSubscribe(id, request[id].name)
             /\ UNCHANGED <<publishedNames, publisheds, pubPending, pubOk, pubClosed,
                            sUnsubscribed, sFailed>>
    <3>1. request[id].name \in Names /\ id \in Tracks!Ids /\ request[id].kind = "subscribe"
      BY <2>2, <2>7 DEF TracksInv, Tracks!TypeOK, Tracks!NoRequest
    <3>2. PICK n \in Names : n = request[id].name /\ Tracks!RecvSubscribe(id, n)
      BY <3>1, <2>7
    <3>3. CASE ~Tracks!NameFree(n)
      BY <2>4, <2>6, <2>7, <3>2, <3>3 DEF Tracks!RecvSubscribe
    <3>4. CASE Tracks!NameFree(n)
      <4>1. /\ subscribedNames' = [subscribedNames EXCEPT ![n] = id]
            /\ subscribeds' = subscribeds \cup {id}
            /\ server' = [server EXCEPT ![id] = "held"]
        BY <3>2, <3>4 DEF Tracks!RecvSubscribe
      <4>2. \A j \in subscribeds \cup publisheds : j \in Tracks!Ids /\ request[j].name # n
        BY <1>0, <3>4 DEF TracksInv, Tracks!TypeOK, Tracks!OnePerTrack, Tracks!NameFree
      <4>3. Tracks!TypeOK'
        BY <2>2, <2>7, <3>1, <4>1 DEF TracksInv, Tracks!TypeOK, Tracks!subVars
      <4>4. Tracks!OnePerTrack'
        BY <1>0, <2>2, <2>7, <3>1, <3>2, <4>1, <4>2 DEF TracksInv, Tracks!TypeOK, Tracks!OnePerTrack
      <4>5. QED
        BY <2>2, <2>3, <2>7, <3>1, <4>1, <4>3, <4>4 DEF TracksInv, Tracks!SubscriberMapsAgree,
           Tracks!NoProtocolError, Tracks!subVars
    <3>5. QED
      BY <3>3, <3>4
  <2>8. CASE /\ Tracks!RecvUnsubscribe(id)
             /\ UNCHANGED <<publishedNames, publisheds, pubPending, server, pubOk>>
    BY <2>2, <2>4, <2>5, <2>6, <2>8 DEF Tracks!RecvUnsubscribe
  <2>9. CASE /\ Tracks!RecvPublishOk(id)
             /\ UNCHANGED <<subscribedNames, publishedNames, subscribeds, publisheds, server,
                            pubClosed, sUnsubscribed, sFailed>>
    BY <2>2, <2>4, <2>6, <2>9 DEF Tracks!RecvPublishOk
  <2>10. CASE /\ Tracks!RecvPublishError(id)
              /\ UNCHANGED <<subscribedNames, subscribeds, server, pubOk, sUnsubscribed, sFailed>>
    BY <2>2, <2>4, <2>5, <2>6, <2>10 DEF Tracks!RecvPublishError, Tracks!EndPublish
  <2>11. QED
    BY <1>20, <2>7, <2>8, <2>9, <2>10 DEF Tracks!PublisherRecv, m
<1>21. CASE UNCHANGED Tracks!vars
  BY <1>21 DEF TracksInv, Tracks!TypeOK, Tracks!SubscriberMapsAgree, Tracks!OnePerTrack,
     Tracks!NoProtocolError,
     Tracks!vars, Tracks!subVars, Tracks!pubVars, ToSub, ToPub
<1>22. QED
  BY <1>1, <1>2, <1>3, <1>4, <1>5, <1>6, <1>7, <1>8, <1>9, <1>10, <1>11, <1>12, <1>13, <1>14, <1>15,
     <1>16, <1>17, <1>18, <1>19, <1>20, <1>21 DEF Tracks!Next

-----------------------------------------------------------------------------
(* Announced namespaces                                                    *)

NamedTypes == {"PUBLISH_NAMESPACE", "PUBLISH_NAMESPACE_DONE", "REQUEST_OK", "REQUEST_ERROR",
               "PUBLISH_NAMESPACE_CANCEL"}
Named == [type : NamedTypes, id : Announced!Ids]

(* The error the session task is about to report, and every error it has     *)
(* reported, is of a request that was made and has no entry any more.        *)
AnnouncedInv ==
  /\ Announced!TypeOK /\ nToPub \in Seq(Named) /\ nToSub \in Seq(Named)
  /\ \A id \in closed : nRequest[id] # Announced!NoNamespace
  /\ nTaken # Announced!None =>
       /\ nRequest[nTaken] # Announced!NoNamespace
       /\ \A n \in Names : publishNamespaces[n] # nTaken
  /\ Announced!EntryHasHandle

\* Nothing is announced.
LEMMA AnnouncedStart == Announced!Init => AnnouncedInv
  BY DEF Announced!Init, AnnouncedInv, Announced!TypeOK, Announced!NoNamespace, Announced!None,
     Announced!EntryHasHandle

\* The session task takes an entry out of the map (drop_publish_namespace).
LEMMA EntryTaken ==
  ASSUME AnnouncedInv, NEW id \in Announced!Ids, Announced!TakeEntry(id),
         UNCHANGED <<nRequest, nHandle, closed>>
  PROVE  /\ nPending' \subseteq nPending /\ nTaken' \in Announced!Ids \cup {Announced!None}
         /\ publishNamespaces' \in [Names -> Announced!Ids \cup {Announced!None}]
         /\ nTaken' # Announced!None =>
              /\ nRequest'[nTaken'] # Announced!NoNamespace
              /\ \A n \in Names : publishNamespaces'[n] # nTaken'
         /\ Announced!EntryHasHandle'
<1>0. Announced!Ids \subseteq Nat \ {0} /\ Announced!None = 0 /\ Announced!NoNamespace \notin Names
  BY SessionAssumption DEF Announced!Ids, Announced!None, Announced!PublishNamespacesAssumption
<1>1. QED
  BY <1>0 DEF AnnouncedInv, Announced!TypeOK, Announced!TakeEntry, Announced!RemoveId,
     Announced!HasEntry,
     Announced!EntryHasHandle

\* Every handler of the two ends keeps the maps of announced namespaces.
LEMMA AnnouncedStep == ASSUME AnnouncedInv, [Announced!Next]_(Announced!vars) PROVE AnnouncedInv'
<1>0. Announced!Ids \subseteq Nat \ {0} /\ Announced!None = 0 /\ Announced!NoNamespace \notin Names
  BY SessionAssumption DEF Announced!Ids, Announced!None, Announced!PublishNamespacesAssumption
<1>m. \A id \in Announced!Ids :
        /\ \A type \in NamedTypes : Announced!Msg(type, id) \in Named
        /\ Announced!Msg("PUBLISH_NAMESPACE", id) \in Named
        /\ Announced!Msg("PUBLISH_NAMESPACE_DONE", id) \in Named
        /\ Announced!Msg("REQUEST_OK", id) \in Named
        /\ Announced!Msg("REQUEST_ERROR", id) \in Named
        /\ Announced!Msg("PUBLISH_NAMESPACE_CANCEL", id) \in Named
  BY DEF Announced!Msg, Named, NamedTypes
<1>1. ASSUME NEW id \in Announced!Ids, NEW n \in Names, Announced!PublishNamespace(id, n) PROVE AnnouncedInv'
  <2>1. (nToPub \in Seq(Named) /\ nToSub \in Seq(Named))'
    BY <1>1, <1>m DEF AnnouncedInv, Announced!PublishNamespace, Announced!Fresh, Announced!subVars
  <2>2. QED
    BY <1>0, <1>1, <2>1 DEF AnnouncedInv, Announced!TypeOK, Announced!EntryHasHandle,
       Announced!PublishNamespace, Announced!Fresh, Announced!subVars
<1>2. ASSUME NEW id \in Announced!Ids, NEW s \in Subs, Announced!TakeSubscribed(id, s) PROVE AnnouncedInv'
  <2>1. (nToPub \in Seq(Named) /\ nToSub \in Seq(Named))'
    BY <1>2, <1>m DEF AnnouncedInv, Announced!TakeSubscribed, Announced!subVars
  <2>2. QED
    BY <1>0, <1>2, <2>1 DEF AnnouncedInv, Announced!TypeOK, Announced!EntryHasHandle,
       Announced!TakeSubscribed, Announced!subVars
<1>3. ASSUME NEW id \in Announced!Ids, Announced!DropBegin(id) PROVE AnnouncedInv'
  <2>1. (nToPub \in Seq(Named) /\ nToSub \in Seq(Named))'
    BY <1>3, <1>m DEF AnnouncedInv, Announced!DropBegin, Announced!subVars
  <2>2. QED
    <3>1. /\ nHandle' \in [Announced!Ids -> {"none", "held", "dropping", "sending", "gone"}]
          /\ \A i \in Announced!Ids \ {id} : nHandle'[i] = nHandle[i]
          /\ id \notin closed => nHandle'[id] = "dropping"
      BY <1>3 DEF AnnouncedInv, Announced!TypeOK, Announced!DropBegin
    <3>2. UNCHANGED <<nRequest, publishNamespaces, nPending, ok, closed, nTaken, Announced!subVars,
                      nFailed>>
      BY <1>3 DEF Announced!DropBegin
    <3>3. Announced!EntryHasHandle'
      <4>1. ASSUME NEW n \in Names, publishNamespaces'[n] # Announced!None
            PROVE  /\ nHandle'[publishNamespaces'[n]] \in {"held", "dropping"}
                   /\ publishNamespaces'[n] \notin closed'
                   /\ nRequest'[publishNamespaces'[n]] = n
        <5>1. /\ publishNamespaces[n] \in Announced!Ids /\ publishNamespaces[n] \notin closed
              /\ nHandle[publishNamespaces[n]] \in {"held", "dropping"}
              /\ nRequest[publishNamespaces[n]] = n
          BY <3>2, <4>1 DEF AnnouncedInv, Announced!TypeOK, Announced!EntryHasHandle
        <5>2. QED
          BY <3>1, <3>2, <5>1
      <4>2. QED
        BY <4>1 DEF Announced!EntryHasHandle
    <3>4. Announced!TypeOK'
      BY <3>1, <3>2 DEF AnnouncedInv, Announced!TypeOK, Announced!subVars
    <3>5. QED
      BY <2>1, <3>2, <3>3, <3>4 DEF AnnouncedInv
<1>4. ASSUME NEW id \in Announced!Ids, Announced!DropEntry(id) PROVE AnnouncedInv'
  <2>1. (nToPub \in Seq(Named) /\ nToSub \in Seq(Named))'
    BY <1>4, <1>m DEF AnnouncedInv, Announced!DropEntry, Announced!RemoveId, Announced!subVars
  <2>2. QED
    BY <1>0, <1>4, <2>1 DEF AnnouncedInv, Announced!TypeOK, Announced!EntryHasHandle,
       Announced!DropEntry, Announced!RemoveId, Announced!subVars
<1>5. ASSUME NEW id \in Announced!Ids, Announced!DropSend(id) PROVE AnnouncedInv'
  <2>1. (nToPub \in Seq(Named) /\ nToSub \in Seq(Named))'
    BY <1>5, <1>m DEF AnnouncedInv, Announced!DropSend, Announced!subVars
  <2>2. QED
    BY <1>0, <1>5, <2>1 DEF AnnouncedInv, Announced!TypeOK, Announced!EntryHasHandle,
       Announced!DropSend, Announced!subVars
<1>6. ASSUME NEW id \in Announced!Ids, Announced!Accept(id) PROVE AnnouncedInv'
  <2>1. (nToPub \in Seq(Named) /\ nToSub \in Seq(Named))'
    BY <1>6, <1>m DEF AnnouncedInv, Announced!Accept, Announced!pubVars
  <2>2. QED
    BY <1>0, <1>6, <2>1 DEF AnnouncedInv, Announced!TypeOK, Announced!EntryHasHandle,
       Announced!Accept, Announced!pubVars
<1>7. ASSUME NEW id \in Announced!Ids, Announced!DropOwner(id) PROVE AnnouncedInv'
  <2>1. (nToPub \in Seq(Named) /\ nToSub \in Seq(Named))'
    <3>1. \/ nToPub' = nToPub \/ nToPub' = Append(nToPub, Announced!Msg("REQUEST_ERROR", id))
          \/ nToPub' = Append(nToPub, Announced!Msg("PUBLISH_NAMESPACE_CANCEL", id))
      BY <1>7 DEF Announced!DropOwner
    <3>2. nToSub' = nToSub
      BY <1>7 DEF Announced!DropOwner
    <3>3. nToPub \in Seq(Named) /\ nToSub \in Seq(Named)
      BY DEF AnnouncedInv
    <3>4. \A m \in Named : Append(nToPub, m) \in Seq(Named)
      BY <3>3
    <3>5. QED
      BY <1>m, <3>1, <3>2, <3>3, <3>4
  <2>2. QED
    BY <1>0, <1>7, <2>1 DEF AnnouncedInv, Announced!TypeOK, Announced!EntryHasHandle,
       Announced!DropOwner, Announced!RemoveId, Announced!pubVars
<1>8. ASSUME NEW s \in Subs, NEW n \in Names, Announced!RecvSubscribe(s, n) PROVE AnnouncedInv'
  <2>1. (nToPub \in Seq(Named) /\ nToSub \in Seq(Named))'
    BY <1>8, <1>m DEF AnnouncedInv, Announced!RecvSubscribe, Announced!subVars
  <2>2. QED
    BY <1>0, <1>8, <2>1 DEF AnnouncedInv, Announced!TypeOK, Announced!EntryHasHandle,
       Announced!RecvSubscribe, Announced!subVars
<1>9. ASSUME NEW id \in Announced!Ids, Announced!Timeout(id) PROVE AnnouncedInv'
  BY <1>9, EntryTaken DEF AnnouncedInv, Announced!TypeOK, Announced!Timeout, Announced!subVars
<1>10. CASE Announced!ReportError
  BY <1>0, <1>10 DEF AnnouncedInv, Announced!TypeOK, Announced!EntryHasHandle,
     Announced!ReportError, Announced!subVars
<1>11. CASE Announced!PublisherRecv
  <2> DEFINE m == Head(nToPub)
  <2>1. /\ m \in Named /\ nToPub' \in Seq(Named) /\ nTaken = Announced!None
        /\ UNCHANGED <<nRequest, nHandle, closed, nRouted, Announced!subVars, nToSub, nFailed>>
    BY <1>11 DEF Announced!PublisherRecv, AnnouncedInv
  <2>2. PICK id \in Announced!Ids : id = m.id
    BY <2>1 DEF Named
  <2> HIDE DEF m
  <2>3. CASE Announced!RecvRequestOk(id)
    BY <2>1, <2>3 DEF AnnouncedInv, Announced!TypeOK, Announced!EntryHasHandle,
       Announced!RecvRequestOk, Announced!subVars
  <2>4. CASE Announced!TakeEntry(id) /\ UNCHANGED ok
    BY <2>1, <2>4, EntryTaken DEF AnnouncedInv, Announced!TypeOK, Announced!subVars
  <2>5. CASE UNCHANGED <<nPending, publishNamespaces, nTaken, ok>>
    BY <2>1, <2>5 DEF AnnouncedInv, Announced!TypeOK, Announced!EntryHasHandle, Announced!subVars
  <2>6. QED
    BY <1>11, <2>2, <2>3, <2>4, <2>5 DEF Announced!PublisherRecv, Announced!RecvRequestError,
       Announced!RecvCancel, m
<1>12. CASE Announced!SubscriberRecv
  <2> DEFINE m == Head(nToSub)
  <2>1. /\ m \in Named /\ nToSub' \in Seq(Named) /\ nFailed = "no"
        /\ UNCHANGED <<Announced!pubVars, nAccepted, nToPub>>
    BY <1>12 DEF Announced!SubscriberRecv, AnnouncedInv
  <2>2. PICK id \in Announced!Ids : id = m.id
    BY <2>1 DEF Named
  <2> HIDE DEF m
  <2>3. /\ publishedNamespaces' \in [Names -> Announced!Ids \cup {Announced!None}]
        /\ owner' \in [Announced!Ids -> {"none", "held", "gone"}]
        /\ nDone' \subseteq Announced!Ids /\ nFailed' \in {"no", "serve", "duplicate"}
    <3>1. CASE Announced!RecvPublishNamespace(id, nRequest[id])
      BY <2>1, <3>1 DEF AnnouncedInv, Announced!TypeOK, Announced!RecvPublishNamespace
    <3>2. CASE Announced!RecvPublishNamespaceDone(id)
      BY <2>1, <3>2 DEF AnnouncedInv, Announced!TypeOK, Announced!RecvPublishNamespaceDone,
         Announced!RemoveId
    <3>3. QED
      BY <1>12, <2>2, <3>1, <3>2 DEF Announced!SubscriberRecv, m
  <2>4. QED
    BY <2>1, <2>3 DEF AnnouncedInv, Announced!TypeOK, Announced!EntryHasHandle, Announced!pubVars
<1>13. CASE UNCHANGED Announced!vars
  BY <1>13 DEF AnnouncedInv, Announced!TypeOK, Announced!EntryHasHandle, Announced!vars,
     Announced!pubVars,
     Announced!subVars
<1>14. QED
  BY <1>1, <1>2, <1>3, <1>4, <1>5, <1>6, <1>7, <1>8, <1>9, <1>10, <1>11, <1>12, <1>13
     DEF Announced!Next

-----------------------------------------------------------------------------
(* The components of a session                                             *)

(* A session that runs one component leaves the others as they are, so that  *)
(* it is a behaviour of each of them.                                        *)
THEOREM SessionIsEach == SessionSpec => Spec /\ Tracks!Spec /\ Announced!Spec
<1>1. SessionInit => Init /\ Tracks!Init /\ Announced!Init
  BY DEF SessionInit
<1>2. [SessionNext]_SessionVars =>
        [Next]_vars /\ [Tracks!Next]_(Tracks!vars) /\ [Announced!Next]_(Announced!vars)
  BY DEF SessionNext, Runs, SessionVars, trackVars, announcedVars, Tracks!vars, Tracks!subVars,
     Tracks!pubVars,
         Announced!vars, Announced!pubVars, Announced!subVars
<1>3. QED
  BY <1>1, <1>2, PTL DEF SessionSpec, Spec, Tracks!Spec, Announced!Spec

(* Each end has one subscription for a track and its maps agree on which, an *)
(* announced namespace has a handle, and two ends that run this code never   *)
(* close the session on each other for a protocol error, for every set of    *)
(* names and every number of requests (session/subscriber.rs, publisher.rs). *)
THEOREM MapsAlwaysAgree == SessionSpec => []MapsAgree
<1>1. SessionSpec => [](part \in Parts)
  <2>1. SessionInit => part \in Parts
    BY DEF SessionInit
  <2>2. part \in Parts /\ [SessionNext]_SessionVars => (part \in Parts)'
    BY DEF SessionNext, Runs, SessionVars
  <2>3. QED
    BY <2>1, <2>2, PTL DEF SessionSpec
<1>2. Tracks!Spec => []TracksInv
  BY TracksStart, TracksStep, PTL DEF Tracks!Spec
<1>3. Announced!Spec => []AnnouncedInv
  BY AnnouncedStart, AnnouncedStep, PTL DEF Announced!Spec
<1>4. part \in Parts /\ TypeOK /\ TracksInv /\ AnnouncedInv => MapsAgree
  BY SessionAssumption DEF MapsAgree, SessionTypeOK, TracksInv, AnnouncedInv
<1>5. QED
  BY <1>1, <1>2, <1>3, <1>4, SessionIsEach, TypeCorrect, PTL

-----------------------------------------------------------------------------
(* The data plane                                                          *)

HIDE RequestIdsAssumption DEF Ids, RequestIdsAssumption, fixed

\* What the variables of the two ends hold, element by element.
Frame == [delta : Int, size : Nat, chunk : Nat]
Task == [st : {"idle", "seeking", "writing", "over"}, pos : Nat, prev : Int]
Wire == [open : BOOLEAN, frames : Seq(Frame), fin : BOOLEAN]
Rx == [st : {"none", "waiting", "reading", "over", "failed"}, pos : Nat, prev : Int, left : Nat]
MirrorEntry == [id : Int, size : Nat, got : Nat]

\* The publisher: no task is past what the track has.
ForwarderTypes ==
  /\ ForwarderCase([key |-> key, cut |-> cut, asked |-> asked])
  /\ phase \in {"new", "serving", "gone"} /\ done \in {"no", "ok", "err"}
  /\ taken \in 0 .. Cardinality(Streams)
  /\ fwClosed \in {"no", "cancel"} /\ unsubscribed \in BOOLEAN /\ streamCount \in Nat
  /\ largest \in Locations \cup {NoLocation}
  /\ task \in [Streams -> Task] /\ wire \in [Streams -> Wire]
  /\ \A s \in Streams : task[s].pos <= cut[s]
  /\ control \in Seq([type : {"SubscribeOk", "PublishDone"}, streams : Nat])

\* The subscriber.
IngressTypes ==
  /\ origin \in {"subscribe", "publish"} /\ window \in Nat
  /\ entry \in BOOLEAN /\ aliasKnown \in BOOLEAN /\ reading \in BOOLEAN
  /\ writer \in {"track", "subgroups", "datagrams", "none"}
  /\ closedWith \in Errors \cup {"no", "gone"}
  /\ held \subseteq Streams /\ rx \in [Streams -> Rx]
  /\ created \in Seq(Streams)
  /\ retained \subseteq {created[i] : i \in 1 .. Len(created)}
  /\ mirror \in [Streams -> Seq(MirrorEntry)]
  /\ sessionEnded \in BOOLEAN /\ routed \in BOOLEAN

\* What the plane needs of its constants.
PlaneAssumption == ObjectForwarderAssumption /\ IngressAssumption

\* Both ends begin with values of their types.
LEMMA PlaneTypesStart == PlaneAssumption /\ DataInit => ForwarderTypes /\ IngressTypes
<1> SUFFICES ASSUME PlaneAssumption, NEW c \in Cases, DataStart(c) PROVE ForwarderTypes /\ IngressTypes
  BY DEF DataInit
<1>1. ForwarderTypes
  <2>1. ForwarderCase(c)
    BY DEF PlaneAssumption, ObjectForwarderAssumption
  <2>2. ForwarderCase([key |-> key, cut |-> cut, asked |-> asked])
    BY <2>1 DEF ForwarderCase, DataStart, ForwarderStart
  <2>3. /\ task \in [Streams -> Task] /\ wire \in [Streams -> Wire] /\ control = <<>>
        /\ \A s \in Streams : task[s].pos = 0
    BY DEF DataStart, ForwarderStart, Task, Wire, NoObject
  <2>4. \A s \in Streams : task[s].pos <= cut[s]
    BY <2>2, <2>3 DEF ForwarderCase
  <2>5. Cardinality(Streams) \in Nat
    BY FS_CardinalityType DEF PlaneAssumption, ObjectForwarderAssumption
  <2>6. QED
    <3>1. /\ phase \in {"new", "serving", "gone"} /\ done \in {"no", "ok", "err"} /\ fwClosed \in {"no", "cancel"}
          /\ taken \in 0 .. Cardinality(Streams) /\ streamCount \in Nat
      BY <2>5 DEF DataStart, ForwarderStart
    <3>2. unsubscribed \in BOOLEAN /\ largest \in Locations \cup {NoLocation}
      BY DEF DataStart, ForwarderStart
    <3>3. control \in Seq([type : {"SubscribeOk", "PublishDone"}, streams : Nat])
      BY <2>3
    <3>4. QED
      BY <2>2, <2>3, <2>4, <3>1, <3>2, <3>3 DEF ForwarderTypes
<1>2. IngressTypes
  <2>1. /\ rx \in [Streams -> Rx] /\ mirror \in [Streams -> Seq(MirrorEntry)] /\ created = <<>>
        /\ retained = {} /\ held = {}
    BY DEF DataStart, IngressStart, Rx, MirrorEntry, NoObject
  <2>2. QED
    <3>1. origin \in {"subscribe", "publish"} /\ window \in Nat
      BY DEF PlaneAssumption, IngressAssumption, DataStart, IngressStart
    <3>2. /\ entry \in BOOLEAN /\ aliasKnown \in BOOLEAN /\ reading \in BOOLEAN
          /\ sessionEnded \in BOOLEAN /\ routed \in BOOLEAN
      BY DEF DataStart, IngressStart, NewEntry
    <3>3. writer \in {"track", "subgroups", "datagrams", "none"} /\ closedWith \in Errors \cup {"no", "gone"}
      BY DEF DataStart, IngressStart, NewEntry
    <3>4. created \in Seq(Streams) /\ retained \subseteq {created[i] : i \in 1 .. Len(created)}
      BY <2>1
    <3>5. QED
      BY <2>1, <3>1, <3>2, <3>3, <3>4 DEF IngressTypes
<1>3. QED
  BY <1>1, <1>2

\* What the publisher sends is well typed.
LEMMA HereTyped ==
  ASSUME PlaneAssumption, ForwarderTypes, NEW s \in Streams, More(s)
  PROVE  /\ Here(s) \in [id : 0 .. MaxId, size : Nat, chunk : Nat]
         /\ task[s].pos + 1 \in 1 .. cut[s] /\ task[s].pos + 1 \in 1 .. Len(Units[s])
         /\ Location(s) \in Locations /\ task[s].pos \in Nat
<1>1. /\ task[s] \in Task /\ cut[s] \in Nat /\ cut[s] <= Len(Units[s])
      /\ key[s].group \in 0 .. (MaxId - 1)
  BY DEF ForwarderTypes, ForwarderCase
<1>2. Units[s] \in Seq([id : 0 .. MaxId, size : Nat, chunk : Nat]) /\ MaxId \in Nat
  BY DEF PlaneAssumption, ObjectForwarderAssumption
<1>3. task[s].pos \in Nat /\ task[s].pos + 1 <= cut[s] /\ Len(Units[s]) \in Nat
  BY <1>1, <1>2 DEF More, Task
<1>4. task[s].pos + 1 \in 1 .. Len(Units[s]) /\ task[s].pos + 1 \in 1 .. cut[s]
  BY <1>1, <1>3
<1>5. Here(s) \in [id : 0 .. MaxId, size : Nat, chunk : Nat]
  BY <1>2, <1>4, ElementOfSeq DEF Here
<1>6. QED
  <2>1. Here(s).id \in 0 .. MaxId /\ key[s].group \in 0 .. MaxId
    BY <1>1, <1>2, <1>5
  <2>2. QED
    BY <1>3, <1>4, <1>5, <2>1 DEF Location, Locations

\* Only the position of one task changes.
LEMMA Advanced ==
  ASSUME NEW t \in [Streams -> Task], NEW s \in Streams, NEW p \in Nat
  PROVE  /\ [t EXCEPT ![s].pos = p] \in [Streams -> Task]
         /\ [t EXCEPT ![s].pos = p][s].pos = p /\ [t EXCEPT ![s].pos = p][s].st = t[s].st
         /\ [t EXCEPT ![s].pos = p][s].prev = t[s].prev
         /\ \A r \in Streams \ {s} : [t EXCEPT ![s].pos = p][r] = t[r]
<1>1. [t[s] EXCEPT !.pos = p] \in Task
  BY DEF Task
<1>2. [t EXCEPT ![s].pos = p] = [t EXCEPT ![s] = [t[s] EXCEPT !.pos = p]]
  OBVIOUS
<1>3. QED
  BY <1>1, <1>2 DEF Task

\* Every step of the publisher keeps its types.
LEMMA ForwarderTypesStep ==
  ASSUME PlaneAssumption, ForwarderTypes,
         (ForwarderNext \/ RecvUnsubscribe \/ UNCHANGED forwarderVars)
  PROVE  ForwarderTypes'
<1> USE DEF sourceVars, stateVars
<1>0. /\ task \in [Streams -> Task] /\ wire \in [Streams -> Wire] /\ streamCount \in Nat
      /\ \A s \in Streams : task[s].pos \in Nat /\ cut[s] \in Nat /\ task[s].pos <= cut[s]
      /\ control \in Seq([type : {"SubscribeOk", "PublishDone"}, streams : Nat])
  BY DEF ForwarderTypes, ForwarderCase, Task
<1>1. CASE ServeInner
  BY <1>1 DEF ForwarderTypes, ServeInner, SetLargestLocation, ForwarderCase, Locations,
     PlaneAssumption, ObjectForwarderAssumption
<1>2. CASE ServeCancelled \/ NoMoreSubgroups \/ SeeClosed \/ RecvUnsubscribe
  BY <1>2 DEF ForwarderTypes, ServeCancelled, NoMoreSubgroups, SeeClosed, RecvUnsubscribe
<1>3. CASE ReturnAndDrop
  <2>1. control' \in Seq([type : {"SubscribeOk", "PublishDone"}, streams : Nat])
    <3>1. [type |-> "PublishDone", streams |-> streamCount] \in [type : {"SubscribeOk", "PublishDone"}, streams : Nat]
      BY <1>0
    <3>2. QED
      BY <1>0, <1>3, <3>1, AppendProperties DEF ReturnAndDrop
  <2>2. QED
    BY <1>3, <2>1 DEF ForwarderTypes, ReturnAndDrop
<1>4. CASE NextSubgroup
  <2>1. Cardinality(Streams) \in Nat
    BY FS_CardinalityType DEF PlaneAssumption, ObjectForwarderAssumption
  <2>2. task' \in [Streams -> Task] /\ \A s \in Streams : task'[s].pos = task[s].pos
    BY <1>4 DEF ForwarderTypes, NextSubgroup, Task
  <2>3. QED
    BY <1>4, <2>1, <2>2 DEF ForwarderTypes, NextSubgroup
<1>5. ASSUME NEW s \in Streams, SkipObject(s) PROVE ForwarderTypes'
  <2>1. /\ task[s].pos \in Nat /\ cut[s] \in Nat /\ Here(s).size \in Nat
        /\ task[s].pos <= cut[s]
    BY <1>5, HereTyped DEF SkipObject, ForwarderTypes, ForwarderCase
  <2>2. task' \in [Streams -> Task] /\ \A t \in Streams : task'[t].pos <= cut[t]
    <3> DEFINE after == task[s].pos + 1 + Here(s).size
               p == IF after > cut[s] THEN cut[s] ELSE after
    <3>1. p \in Nat /\ p <= cut[s]
      BY <2>1
    <3>2. task' = [task EXCEPT ![s].pos = p]
      BY <1>5 DEF SkipObject
    <3> HIDE DEF p
    <3>3. task' \in [Streams -> Task] /\ task'[s].pos = p /\ \A r \in Streams \ {s} : task'[r] = task[r]
      BY <1>0, <3>1, <3>2, Advanced
    <3>4. QED
      BY <1>0, <3>1, <3>3
  <2>3. QED
    BY <1>5, <2>2 DEF ForwarderTypes, SkipObject
<1>6. ASSUME NEW s \in Streams, OpenUni(s) PROVE ForwarderTypes'
  <2>1. task' \in [Streams -> Task] /\ (\A t \in Streams : task'[t].pos = task[t].pos)
    <3>1. CASE task' = [task EXCEPT ![s].st = "writing"]
      BY <1>0, <3>1 DEF Task
    <3>2. CASE task' = [task EXCEPT ![s] = Over(s)]
      BY <1>0, <3>2 DEF Task, Over
    <3>3. QED
      BY <1>6, <3>1, <3>2 DEF OpenUni
  <2>2. wire' \in [Streams -> Wire] /\ streamCount' \in Nat
    <3>1. CASE wire' = [wire EXCEPT ![s].open = TRUE]
      <4>1. wire' \in [Streams -> Wire]
        BY <1>0, <3>1 DEF Wire
      <4>2. QED
        BY <1>0, <1>6, <4>1 DEF OpenUni
    <3>2. CASE wire' = wire
      BY <1>0, <1>6, <3>2 DEF OpenUni
    <3>3. QED
      BY <1>6, <3>1, <3>2 DEF OpenUni
  <2>3. QED
    BY <1>6, <2>1, <2>2 DEF ForwarderTypes, OpenUni
<1>7. ASSUME NEW s \in Streams, WriteObject(s) PROVE ForwarderTypes'
  <2>1. /\ Here(s).size \in Nat /\ Here(s).id \in Int /\ task[s].pos + 1 <= cut[s] /\ task[s].pos \in Nat
        /\ Location(s) \in Locations /\ cut[s] \in Nat
    BY <1>7, HereTyped DEF WriteObject, ForwarderTypes, ForwarderCase
  <2>2. task' \in [Streams -> Task] /\ \A t \in Streams : task'[t].pos <= cut[t]
    BY <1>7, <2>1 DEF ForwarderTypes, WriteObject, Task
  <2>3. ObjectIdDelta(task[s].prev, Here(s).id) \in Int
    BY <2>1 DEF ObjectIdDelta, ForwarderTypes, Task
  <2>4. Output(s, ObjectIdDelta(task[s].prev, Here(s).id), 0) \in Seq(Frame)
    BY <2>1, <2>3 DEF Output, ForwarderTypes, Wire, Frame
  <2>5. wire' \in [Streams -> Wire]
    BY ZenonT(30), <1>7, <2>4 DEF ForwarderTypes, WriteObject, Wire, StateHeld
  <2>6. largest' \in Locations \cup {NoLocation}
    BY <1>7, <2>1 DEF ForwarderTypes, WriteObject, UpdateLargest
  <2>7. QED
    BY <1>7, <2>2, <2>5, <2>6 DEF ForwarderTypes, WriteObject
<1>8. ASSUME NEW s \in Streams, WriteChunk(s) PROVE ForwarderTypes'
  <2>1. /\ Here(s).size \in Nat /\ Here(s).chunk \in Nat /\ task[s].pos + 1 <= cut[s] /\ task[s].pos \in Nat
        /\ cut[s] \in Nat
    BY <1>8, HereTyped DEF WriteChunk, ForwarderTypes, ForwarderCase
  <2>2. task' \in [Streams -> Task] /\ \A t \in Streams : task'[t].pos <= cut[t]
    <3>1. task[s].pos + 1 \in Nat /\ task' = [task EXCEPT ![s].pos = task[s].pos + 1]
      BY <1>8, <2>1 DEF WriteChunk
    <3>3. task' \in [Streams -> Task] /\ task'[s].pos = task[s].pos + 1 /\ \A r \in Streams \ {s} : task'[r] = task[r]
      BY <1>0, <3>1, Advanced
    <3>4. QED
      BY <1>0, <2>1, <3>3
  <2>3. Output(s, 0, Here(s).chunk) \in Seq(Frame)
    BY <2>1 DEF Output, ForwarderTypes, Wire, Frame
  <2>4. wire' \in [Streams -> Wire]
    BY <1>8, <2>3 DEF ForwarderTypes, WriteChunk, Wire
  <2>5. QED
    BY <1>8, <2>2, <2>4 DEF ForwarderTypes, WriteChunk
<1>9. ASSUME NEW s \in Streams, EndSubgroup(s) PROVE ForwarderTypes'
  <2>1. task' \in [Streams -> Task] /\ (\A t \in Streams : task'[t].pos = task[t].pos)
    BY <1>9 DEF ForwarderTypes, EndSubgroup, Task, Over
  <2>2. wire' \in [Streams -> Wire]
    BY <1>9 DEF ForwarderTypes, EndSubgroup, Finished, Wire
  <2>3. QED
    BY <1>9, <2>1, <2>2 DEF ForwarderTypes, EndSubgroup
<1>10. CASE UNCHANGED forwarderVars
  BY <1>10 DEF ForwarderTypes, forwarderVars
<1>11. QED
  BY <1>1, <1>2, <1>3, <1>4, <1>5, <1>6, <1>7, <1>8, <1>9, <1>10 DEF ForwarderNext

\* The types of an entry and its writer.
EntryTypes ==
  /\ entry \in BOOLEAN /\ aliasKnown \in BOOLEAN
  /\ writer \in {"track", "subgroups", "datagrams", "none"}
  /\ closedWith \in Errors \cup {"no", "gone"}

\* Only the state of one reader changes.
LEMMA RxSet ==
  ASSUME rx \in [Streams -> Rx], NEW s \in Streams,
         NEW st \in {"none", "waiting", "reading", "over", "failed"}, rx' = [rx EXCEPT ![s].st = st]
  PROVE  /\ rx' \in [Streams -> Rx] /\ rx'[s].st = st
         /\ rx'[s].pos = rx[s].pos /\ rx'[s].prev = rx[s].prev /\ rx'[s].left = rx[s].left
         /\ \A t \in Streams \ {s} : rx'[t] = rx[t]
<1>1. [rx[s] EXCEPT !.st = st] \in Rx
  BY DEF Rx
<1>2. rx' = [rx EXCEPT ![s] = [rx[s] EXCEPT !.st = st]]
  OBVIOUS
<1>3. QED
  BY <1>1, <1>2 DEF Rx

\* How a stream fails.
LEMMA StreamFails ==
  ASSUME IngressTypes, NEW s \in Streams, NEW err \in Errors,
         NEW w \in {"track", "subgroups", "datagrams", "none"}, FailStream(s, err, w)
  PROVE  /\ EntryTypes' /\ rx' = [rx EXCEPT ![s].st = "failed"]
         /\ IF origin = "subscribe" /\ aliasKnown
            THEN /\ ~entry' /\ ~aliasKnown' /\ writer' = "none"
                 /\ closedWith' = IF ~entry THEN closedWith
                                  ELSE IF writer # "none" /\ ~reading THEN "gone" ELSE err
            ELSE writer' = w /\ UNCHANGED <<entry, aliasKnown, closedWith>>
<1>1. CASE origin = "subscribe" /\ aliasKnown
  BY <1>1 DEF FailStream, RemoveWith, IngressTypes, EntryTypes
<1>2. CASE ~(origin = "subscribe" /\ aliasKnown)
  BY <1>2 DEF FailStream, IngressTypes, EntryTypes
<1>3. QED
  BY <1>1, <1>2

\* What a frame that is read does to the mirror.
LEMMA ObjectPut ==
  ASSUME ForwarderTypes, IngressTypes, NEW s \in Streams, AtObject(s), NEW kept, PutObject(s, kept)
  PROVE  /\ mirror' \in [Streams -> Seq(MirrorEntry)]
         /\ \A t \in Streams \ {s} : mirror'[t] = mirror[t]
         /\ wire[s].frames[rx[s].pos + 1] \in Frame
         /\ Held(s, kept) => /\ rx' \in [Streams -> Rx]
                             /\ \A t \in Streams \ {s} : rx'[t] = rx[t]
<1> DEFINE frame == wire[s].frames[rx[s].pos + 1]
           id == ObjectId(s, frame)
<1>1. /\ wire[s].frames \in Seq(Frame) /\ rx[s] \in Rx /\ rx \in [Streams -> Rx]
      /\ mirror \in [Streams -> Seq(MirrorEntry)]
  BY DEF ForwarderTypes, IngressTypes, Wire
<1>2. rx[s].pos \in Nat /\ rx[s].pos + 1 \in 1 .. Len(wire[s].frames) /\ rx[s].prev \in Int
  <2>1. rx[s].pos \in Nat /\ rx[s].prev \in Int /\ Len(wire[s].frames) \in Nat
    BY <1>1 DEF Rx
  <2>2. QED
    BY <2>1 DEF AtObject
<1>3. frame \in Frame
  BY <1>1, <1>2, ElementOfSeq
<1>4. frame.delta \in Int /\ frame.size \in Nat
  BY <1>3 DEF Frame
<1>5. id \in Int
  BY <1>2, <1>4 DEF ObjectId
<1>6. CASE Held(s, kept)
  <2>1. /\ mirror' = [mirror EXCEPT ![s] = Append(@, [id |-> id, size |-> frame.size, got |-> 0])]
        /\ rx' = [rx EXCEPT ![s] = [st |-> "reading", pos |-> rx[s].pos + 1, prev |-> id, left |-> frame.size]]
    BY <1>6 DEF PutObject
  <2> HIDE DEF id, frame
  <2>2. /\ [id |-> id, size |-> frame.size, got |-> 0] \in MirrorEntry
        /\ [st |-> "reading", pos |-> rx[s].pos + 1, prev |-> id, left |-> frame.size] \in Rx
    BY <1>2, <1>4, <1>5 DEF MirrorEntry, Rx
  <2>3. Append(mirror[s], [id |-> id, size |-> frame.size, got |-> 0]) \in Seq(MirrorEntry)
    BY <1>1, <2>2, AppendProperties
  <2>4. QED
    BY <1>1, <1>3, <2>1, <2>2, <2>3 DEF frame
<1>7. CASE ~Held(s, kept)
  BY <1>1, <1>3, <1>7 DEF PutObject
<1>8. QED
  BY <1>6, <1>7

\* What subgroup() refuses with is an error of the mirror.
LEMMA SubgroupErrorsTyped == ASSUME NEW s \in Streams PROVE SubgroupErrors(s) \subseteq Errors
  BY DEF SubgroupErrors, Errors, NotFound

\* Every step of the subscriber keeps its types.
LEMMA IngressTypesStep ==
  ASSUME ForwarderTypes, IngressTypes, (IngressNext \/ UNCHANGED ingressVars)
  PROVE  IngressTypes'
<1> USE DEF entryVars, streamVars, datagramVars
<1>0. /\ rx \in [Streams -> Rx] /\ mirror \in [Streams -> Seq(MirrorEntry)] /\ created \in Seq(Streams)
      /\ retained \subseteq {created[i] : i \in 1 .. Len(created)}
  BY DEF IngressTypes
<1>1. CASE RecvSubscribeOk \/ DropReaders \/ DatagramTimeout \/ RouteDatagram \/ DropSubscribe
  BY <1>1 DEF IngressTypes, RecvSubscribeOk, DropReaders, DatagramTimeout, RouteDatagram,
     DropSubscribe
<1>2. CASE RecvPublishDone
  <2>1. EntryTypes'
    BY <1>2 DEF RecvPublishDone, RemoveWith, IngressTypes, EntryTypes, Errors
  <2>2. QED
    BY <1>2, <2>1 DEF EntryTypes, IngressTypes, RecvPublishDone
<1>3. CASE WriteDatagram
  <2>1. sessionEnded' \in BOOLEAN /\ routed' \in BOOLEAN
    BY <1>3 DEF WriteDatagram
  <2>2. writer' \in {"track", "subgroups", "datagrams", "none"}
    BY <1>3 DEF WriteDatagram, IngressTypes
  <2>3. QED
    BY <1>3, <2>1, <2>2 DEF IngressTypes, WriteDatagram
<1>4. ASSUME NEW d \in inbox, RecvDatagram(d) \/ LoseDatagram(d) PROVE IngressTypes'
  BY <1>4 DEF IngressTypes, RecvDatagram, LoseDatagram
<1>5. ASSUME NEW s \in Streams, TakeSubgroup(s) PROVE IngressTypes'
  BY <1>5 DEF IngressTypes, TakeSubgroup
<1>6. ASSUME NEW s \in Streams, NEW st \in {"none", "waiting", "reading", "over", "failed"},
             rx' = [rx EXCEPT ![s].st = st], EntryTypes',
             UNCHANGED <<origin, window, reading, held, created, retained, mirror, datagramVars>>
      PROVE  IngressTypes'
  <2>1. rx' \in [Streams -> Rx]
    BY <1>0, <1>6, RxSet
  <2>2. QED
    BY <1>6, <2>1 DEF IngressTypes, EntryTypes
<1>7. ASSUME NEW s \in Streams, AcceptStream(s) \/ ResolveAlias(s) \/ AliasTimeout(s) \/ EndOfStream(s)
      PROVE IngressTypes'
  <2>1. EntryTypes'
    BY <1>7 DEF IngressTypes, EntryTypes, AcceptStream, ResolveAlias, AliasTimeout, EndOfStream
  <2>2. QED
    BY <1>6, <1>7, <2>1 DEF AcceptStream, ResolveAlias, AliasTimeout, EndOfStream
<1>8. ASSUME NEW s \in Streams, OpenSubgroup(s) PROVE IngressTypes'
  <2>1. CASE SubgroupErrors(s) # {}
    <3>1. PICK err \in SubgroupErrors(s) : FailStream(s, err, "none") /\ UNCHANGED <<created,
                                                                                     retained,
                                                                                     mirror>>
      BY <1>8, <2>1 DEF OpenSubgroup
    <3>2. EntryTypes' /\ rx' = [rx EXCEPT ![s].st = "failed"]
      BY <3>1, StreamFails, SubgroupErrorsTyped
    <3>3. QED
      BY <1>6, <1>8, <3>1, <3>2 DEF OpenSubgroup
  <2>2. CASE SubgroupErrors(s) = {}
    <3>1. /\ created' = Append(created, s) /\ retained' = InWindow(retained \cup {s})
          /\ PutObject(s, retained') /\ AtObject(s)
          /\ IF Held(s, retained')
             THEN writer' = "subgroups" /\ UNCHANGED <<entry, aliasKnown, closedWith>>
             ELSE FailStream(s, "Cancel", "subgroups")
          /\ UNCHANGED <<origin, window, reading, held, datagramVars>>
      BY <1>8, <2>2 DEF OpenSubgroup
    <3>2. created' \in Seq(Streams) /\ retained' \subseteq {created'[i] : i \in 1 .. Len(created')}
      <4>1. /\ created' \in Seq(Streams) /\ Len(created') = Len(created) + 1 /\ created'[Len(created) + 1] = s
            /\ \A i \in 1 .. Len(created) : created'[i] = created[i]
        BY <1>0, <3>1, AppendProperties
      <4>2. Len(created) \in Nat
        BY <1>0
      <4>3. retained' \subseteq retained \cup {s}
        BY <3>1 DEF InWindow
      <4>4. ASSUME NEW t \in retained' PROVE \E i \in 1 .. Len(created') : created'[i] = t
        <5>1. CASE t = s
          <6>1. Len(created) + 1 \in 1 .. Len(created')
            BY <4>1, <4>2
          <6>2. QED
            BY <4>1, <5>1, <6>1
        <5>2. CASE t \in retained
          <6>1. PICK i \in 1 .. Len(created) : created[i] = t
            BY <1>0, <5>2
          <6>2. i \in 1 .. Len(created') /\ created'[i] = t
            BY <4>1, <4>2, <6>1
          <6>3. QED
            BY <6>2
        <5>3. QED
          BY <4>3, <5>1, <5>2
      <4>5. QED
        BY <4>1, <4>4
    <3>3. EntryTypes' /\ rx' \in [Streams -> Rx] /\ mirror' \in [Streams -> Seq(MirrorEntry)]
      <4>1. CASE Held(s, retained')
        BY <3>1, <4>1, ObjectPut DEF IngressTypes, EntryTypes
      <4>2. CASE ~Held(s, retained')
        <5>1. EntryTypes' /\ rx' = [rx EXCEPT ![s].st = "failed"]
          BY <3>1, <4>2, StreamFails DEF Errors
        <5>2. QED
          BY <1>0, <3>1, <5>1, ObjectPut, RxSet
      <4>3. QED
        BY <4>1, <4>2
    <3>4. QED
      BY <3>1, <3>2, <3>3 DEF IngressTypes, EntryTypes
  <2>3. QED
    BY <2>1, <2>2
<1>9. ASSUME NEW s \in Streams, RecvObject(s) PROVE IngressTypes'
  <2>1. /\ PutObject(s, retained) /\ AtObject(s)
        /\ IF Held(s, retained) THEN UNCHANGED entryVars ELSE FailStream(s, "Cancel", writer)
        /\ UNCHANGED <<origin, window, reading, held, created, retained, datagramVars>>
    BY <1>9 DEF RecvObject
  <2>2. EntryTypes' /\ rx' \in [Streams -> Rx] /\ mirror' \in [Streams -> Seq(MirrorEntry)]
    <3>1. CASE Held(s, retained)
      BY <2>1, <3>1, ObjectPut DEF IngressTypes, EntryTypes
    <3>2. CASE ~Held(s, retained)
      <4>1. EntryTypes' /\ rx' = [rx EXCEPT ![s].st = "failed"]
        BY <2>1, <3>2, StreamFails DEF Errors, IngressTypes
      <4>2. QED
        BY <1>0, <2>1, <4>1, ObjectPut, RxSet
    <3>3. QED
      BY <3>1, <3>2
  <2>3. QED
    BY <2>1, <2>2 DEF IngressTypes, EntryTypes
<1>10. ASSUME NEW s \in Streams, RecvChunk(s) PROVE IngressTypes'
  <2>1. rx' \in [Streams -> Rx]
    <3>1. rx[s].pos + 1 \in Nat /\ rx[s].left - 1 \in Nat
      BY <1>0, <1>10 DEF RecvChunk, Rx
    <3>2. rx' = [rx EXCEPT ![s] = [rx[s] EXCEPT !.pos = rx[s].pos + 1, !.left = rx[s].left - 1]]
      BY <1>0, <1>10 DEF RecvChunk
    <3>3. [rx[s] EXCEPT !.pos = rx[s].pos + 1, !.left = rx[s].left - 1] \in Rx
      BY <1>0, <3>1 DEF Rx
    <3>4. QED
      BY <1>0, <3>2, <3>3
  <2>2. mirror' \in [Streams -> Seq(MirrorEntry)]
    <3>1. mirror' = [mirror EXCEPT ![s] = [mirror[s] EXCEPT ![Len(mirror[s])].got = mirror[s][Len(mirror[s])].got + 1]]
      BY <1>0, <1>10 DEF RecvChunk
    <3>2. [mirror[s] EXCEPT ![Len(mirror[s])].got = mirror[s][Len(mirror[s])].got + 1] \in Seq(MirrorEntry)
      <4> DEFINE q == mirror[s]
      <4>1. q \in Seq(MirrorEntry) /\ Len(q) \in Nat
        BY <1>0
      <4> HIDE DEF q
      <4>2. [q EXCEPT ![Len(q)].got = q[Len(q)].got + 1] = [i \in 1 .. Len(q) |-> IF i = Len(q) THEN [q[i] EXCEPT !.got = q[i].got + 1] ELSE q[i]]
        BY <4>1
      <4>3. \A i \in 1 .. Len(q) : (IF i = Len(q) THEN [q[i] EXCEPT !.got = q[i].got + 1] ELSE q[i]) \in MirrorEntry
        <5> SUFFICES ASSUME NEW i \in 1 .. Len(q)
                     PROVE  (IF i = Len(q) THEN [q[i] EXCEPT !.got = q[i].got + 1] ELSE q[i]) \in MirrorEntry
          OBVIOUS
        <5>1. q[i] \in MirrorEntry
          BY <4>1, ElementOfSeq
        <5>2. QED
          BY <5>1 DEF MirrorEntry
      <4>4. [i \in 1 .. Len(q) |-> IF i = Len(q) THEN [q[i] EXCEPT !.got = q[i].got + 1] ELSE q[i]] \in Seq(MirrorEntry)
        BY <4>1, <4>3, IsASeq
      <4>5. QED
        BY <4>2, <4>4 DEF q
    <3>3. QED
      BY <1>0, <3>1, <3>2
  <2>3. QED
    BY <1>10, <2>1, <2>2 DEF RecvChunk, IngressTypes
<1>11. CASE UNCHANGED ingressVars
  BY <1>11 DEF IngressTypes, ingressVars
<1>12. QED
  BY <1>1, <1>2, <1>3, <1>4, <1>5, <1>7, <1>8, <1>9, <1>10, <1>11 DEF IngressNext

-----------------------------------------------------------------------------
(* How a subscription ends                                                 *)

(* A stream that is read was opened by the publisher; a subgroup the mirror  *)
(* has let go of is behind the window.  The entry of a SUBSCRIBE keeps its   *)
(* writer, since the first stream that loses it takes the entry along, and   *)
(* that stream was routed by an alias the entry still has.                   *)
RoutingInv ==
  /\ \A s \in Streams : rx[s].st # "none" => wire[s].open
  /\ \A s \in Streams : Opened(s) => rx[s].st # "none" /\ (s \in retained \/ s \notin InWindow(Streams))
  /\ writer = "datagrams" => mirrored # {}
  /\ writer = "subgroups" => created # <<>>
  /\ origin = "subscribe" /\ entry /\ ~aliasKnown => \A s \in Streams : rx[s].st # "reading"
  /\ entry /\ writer = "none" => sessionEnded \/ \E s \in Streams : rx[s].st = "failed"
  /\ SubscriptionSound

\* A new entry has its writer and no stream.
LEMMA RoutingStart == ASSUME DataInit PROVE RoutingInv
<1>1. PICK c \in Cases : DataStart(c)
  BY DEF DataInit
<1>2. \A s \in Streams : rx[s].st = "none" /\ ~Opened(s)
  BY <1>1 DEF DataStart, IngressStart, Opened
<1>3. entry /\ writer = "track" /\ closedWith = "no" /\ ~sessionEnded
  BY <1>1 DEF DataStart, IngressStart, NewEntry
<1>4. QED
  BY <1>2, <1>3 DEF RoutingInv, SubscriptionSound

\* The publisher moves.
LEMMA OpenStays ==
  ASSUME ForwarderTypes, (ForwarderNext \/ RecvUnsubscribe)
  PROVE  UNCHANGED sourceVars /\ \A s \in Streams : wire[s].open => wire'[s].open
<1>1. wire \in [Streams -> Wire]
  BY DEF ForwarderTypes
<1>2. ASSUME NEW s \in Streams, OpenUni(s) \/ WriteObject(s) \/ WriteChunk(s) \/ EndSubgroup(s) \/ SkipObject(s)
      PROVE  UNCHANGED sourceVars /\ \A t \in Streams : wire[t].open => wire'[t].open
  BY ZenonT(30), <1>1, <1>2 DEF OpenUni, WriteObject, WriteChunk, EndSubgroup, SkipObject, Finished, Wire
<1>3. QED
  BY <1>2 DEF ForwarderNext, RecvUnsubscribe, ServeInner, ServeCancelled, ReturnAndDrop,
     NextSubgroup,
              NoMoreSubgroups, SeeClosed

\* What the publisher does touches no entry.
LEMMA RoutingKept ==
  ASSUME RoutingInv, UNCHANGED ingressVars, UNCHANGED sourceVars,
         \A s \in Streams : wire[s].open => wire'[s].open
  PROVE  RoutingInv'
<1>1. key' = key /\ InWindow(Streams)' = InWindow(Streams) /\ \A s \in Streams : Opened(s)' = Opened(s)
  BY DEF sourceVars, ingressVars, InWindow, Opened
<1>2. SubscriptionSound'
  BY <1>1 DEF RoutingInv, SubscriptionSound, ingressVars
<1>3. QED
  BY <1>1, <1>2 DEF RoutingInv, ingressVars

\* A subgroup behind the window of some streams is behind that of all.
LEMMA WindowShrinks ==
  ASSUME NEW S, S \subseteq Streams, NEW s \in S, s \notin InWindow(S)
  PROVE  s \notin InWindow(Streams)
  BY DEF InWindow

\* Every step of the subscriber keeps the entry and its writer sound.
LEMMA RoutingStep ==
  ASSUME ForwarderTypes, IngressTypes, RoutingInv, IngressNext, UNCHANGED forwarderVars
  PROVE  RoutingInv'
<1> USE DEF entryVars, streamVars, datagramVars
<1>0. /\ rx \in [Streams -> Rx] /\ created \in Seq(Streams)
      /\ retained \subseteq {created[i] : i \in 1 .. Len(created)}
      /\ key' = key /\ wire' = wire
      /\ writer \in {"track", "subgroups", "datagrams", "none"}
  BY DEF IngressTypes, forwarderVars
<1>00. retained \subseteq Streams /\ \A s \in retained : Opened(s)
  <2> SUFFICES ASSUME NEW s \in retained PROVE s \in Streams /\ Opened(s)
    OBVIOUS
  <2>1. PICK i \in 1 .. Len(created) : created[i] = s
    BY <1>0
  <2>2. QED
    BY <1>0, <2>1, ElementOfSeq DEF Opened
<1>1. CASE RecvSubscribeOk \/ DropReaders \/ DatagramTimeout \/ RouteDatagram \/ DropSubscribe
  <2>1. UNCHANGED <<origin, window, key, rx, created, retained, wire, mirrored, sessionEnded>>
    BY <1>0, <1>1 DEF RecvSubscribeOk, DropReaders, DatagramTimeout, RouteDatagram, DropSubscribe
  <2>2. InWindow(Streams)' = InWindow(Streams) /\ \A s \in Streams : Opened(s)' = Opened(s)
    BY <2>1 DEF InWindow, Opened
  <2>3. CASE RecvSubscribeOk \/ DropReaders \/ DatagramTimeout \/ RouteDatagram
    <3>1. UNCHANGED <<entry, writer,
                      closedWith>> /\ (aliasKnown => aliasKnown') /\ (reading' => reading)
      BY <2>3 DEF RecvSubscribeOk, DropReaders, DatagramTimeout, RouteDatagram
    <3>2. SubscriptionSound'
      BY <2>1, <2>2, <3>1 DEF RoutingInv, SubscriptionSound
    <3>3. QED
      BY <2>1, <2>2, <3>1, <3>2 DEF RoutingInv
  <2>4. CASE DropSubscribe
    <3>1. ~entry' /\ writer' = "none" /\ closedWith' = "gone" /\ reading' = reading
      BY <2>4 DEF DropSubscribe
    <3>2. SubscriptionSound'
      BY <2>1, <2>2, <3>1 DEF RoutingInv, SubscriptionSound
    <3>3. QED
      BY <2>1, <2>2, <3>1, <3>2 DEF RoutingInv
  <2>5. QED
    BY <1>1, <2>3, <2>4
<1>2. CASE RecvPublishDone
  <2>1. UNCHANGED <<origin, window, key, rx, created, retained, wire, mirrored, sessionEnded,
                    reading>>
    BY <1>0, <1>2 DEF RecvPublishDone
  <2>2. InWindow(Streams)' = InWindow(Streams) /\ \A s \in Streams : Opened(s)' = Opened(s)
    BY <2>1 DEF InWindow, Opened
  <2>3. ~entry' /\ writer' = "none" /\ closedWith' \in {closedWith, "gone", "Done"}
    BY <1>2 DEF RecvPublishDone, RemoveWith
  <2>4. SubscriptionSound'
    BY <2>1, <2>2, <2>3 DEF RoutingInv, SubscriptionSound
  <2>5. QED
    BY <2>1, <2>2, <2>3, <2>4 DEF RoutingInv
<1>3. CASE WriteDatagram
  <2>1. UNCHANGED <<origin, window, key, rx, created, retained, wire, reading, entry, aliasKnown,
                    closedWith>>
    BY <1>0, <1>3 DEF WriteDatagram
  <2>2. InWindow(Streams)' = InWindow(Streams) /\ \A s \in Streams : Opened(s)' = Opened(s)
    BY <2>1 DEF InWindow, Opened
  <2>3. ~sessionEnded /\ sessionEnded' = (DatagramErrors # {})
    BY <1>3 DEF WriteDatagram
  <2>4. CASE DatagramTaken
    <3>1. mirrored' # {} /\ writer' = "datagrams" /\ ~sessionEnded'
      BY <1>3, <2>3, <2>4 DEF WriteDatagram, DatagramTaken
    <3>2. SubscriptionSound'
      BY <2>1, <2>2, <3>1 DEF RoutingInv, SubscriptionSound
    <3>3. QED
      BY <2>1, <2>2, <3>1, <3>2 DEF RoutingInv
  <2>5. CASE ~DatagramTaken
    <3>1. mirrored' = mirrored /\ writer' = IF "Cancel" \in DatagramErrors THEN "none" ELSE writer
      BY <1>3, <2>5 DEF WriteDatagram
    <3>2. CASE ~entry
      <4>1. DatagramErrors = {}
        BY <3>2 DEF DatagramErrors
      <4>2. SubscriptionSound'
        BY <2>1, <2>2, <2>3, <3>1, <3>2, <4>1 DEF RoutingInv, SubscriptionSound
      <4>3. QED
        BY <2>1, <2>2, <2>3, <3>1, <3>2, <4>1, <4>2 DEF RoutingInv
    <3>3. CASE entry
      <4>1. sessionEnded'
        BY <2>3, <2>5, <3>3 DEF DatagramTaken
      <4>2. ~reading \/ created # <<>> \/ \E s \in Streams : rx[s].st = "failed"
        <5>1. CASE writer = "none"
          BY <2>3, <3>3, <5>1 DEF RoutingInv
        <5>2. CASE writer = "subgroups"
          BY <5>2 DEF RoutingInv
        <5>3. CASE writer \in {"track", "datagrams"}
          BY <2>5, <3>3, <5>3 DEF DatagramTaken, DatagramErrors
        <5>4. QED
          BY <1>0, <5>1, <5>2, <5>3
      <4>3. SubscriptionSound'
        BY <2>1, <2>2, <3>1, <4>1, <4>2 DEF RoutingInv, SubscriptionSound
      <4>4. QED
        BY <2>1, <2>2, <3>1, <4>1, <4>3 DEF RoutingInv
    <3>4. QED
      BY <3>2, <3>3
  <2>6. QED
    BY <2>4, <2>5
<1>4. CASE \/ \E d \in inbox : RecvDatagram(d) \/ LoseDatagram(d)
           \/ \E s \in Streams : TakeSubgroup(s)
  <2>1. UNCHANGED <<origin, window, key, rx, created, retained, wire, reading, entry, aliasKnown,
                    closedWith,
                    writer, mirrored, sessionEnded>>
    BY <1>0, <1>4 DEF RecvDatagram, LoseDatagram, TakeSubgroup
  <2>2. InWindow(Streams)' = InWindow(Streams) /\ \A s \in Streams : Opened(s)' = Opened(s)
    BY <2>1 DEF InWindow, Opened
  <2>3. SubscriptionSound'
    BY <2>1, <2>2 DEF RoutingInv, SubscriptionSound
  <2>4. QED
    BY <2>1, <2>2, <2>3 DEF RoutingInv
<1>5. ASSUME NEW s \in Streams, AcceptStream(s) \/ ResolveAlias(s) \/ AliasTimeout(s) \/ EndOfStream(s) \/ RecvChunk(s)
      PROVE RoutingInv'
  <2>1. UNCHANGED <<origin, window, key, created, retained, wire, reading, entry, aliasKnown,
                    closedWith,
                    writer, mirrored, sessionEnded>>
    BY <1>0, <1>5 DEF AcceptStream, ResolveAlias, AliasTimeout, EndOfStream, RecvChunk
  <2>2. InWindow(Streams)' = InWindow(Streams) /\ \A t \in Streams : Opened(t)' = Opened(t)
    BY <2>1 DEF InWindow, Opened
  <2>3. /\ \A t \in Streams \ {s} : rx'[t] = rx[t]
        /\ rx[s].st # "failed" /\ rx'[s].st # "none" /\ wire[s].open
        /\ rx'[s].st = "reading" => rx[s].st = "reading" \/ aliasKnown
    BY <1>0, <1>5 DEF AcceptStream, ResolveAlias, AliasTimeout, EndOfStream, RecvChunk, Rx,
       RoutingInv
  <2>4. SubscriptionSound'
    BY <2>1, <2>2, <2>3 DEF RoutingInv, SubscriptionSound
  <2>5. QED
    BY <2>1, <2>2, <2>3, <2>4 DEF RoutingInv
<1>6. ASSUME NEW s \in Streams, rx[s].st = "reading", ~sessionEnded, NEW err \in Errors, NEW w, FailStream(s, err, w),
             w \in {"none", "subgroups", writer}, UNCHANGED <<origin, window, reading,
                                                              datagramVars>>,
             \A t \in Streams : Opened(t) => Opened(t)',
             \A t \in Streams : Opened(t)' => t = s \/ Opened(t),
             Opened(s)' => s \in retained' \/ s \notin InWindow(Streams),
             \A t \in Streams \ {s} : Opened(t) => t \in retained' \/ t \notin InWindow(Streams),
             w = "subgroups" => created' # <<>>, created # <<>> => created' # <<>>,
             entry /\ err = "Cancel" /\ reading => s \notin InWindow(Streams),
             entry /\ err = "Duplicate" => \E t \in Streams \ {s} : key[s] = key[t] /\ wire[t].open,
             entry /\ err = "Mode" => mirrored # {}
      PROVE  RoutingInv'
  <2>1. InWindow(Streams)' = InWindow(Streams)
    BY <1>0, <1>6 DEF InWindow
  <2>2. /\ EntryTypes' /\ rx' = [rx EXCEPT ![s].st = "failed"]
        /\ IF origin = "subscribe" /\ aliasKnown
            THEN /\ ~entry' /\ ~aliasKnown' /\ writer' = "none"
                 /\ closedWith' = IF ~entry THEN closedWith
                                  ELSE IF writer # "none" /\ ~reading THEN "gone" ELSE err
            ELSE writer' = w /\ UNCHANGED <<entry, aliasKnown, closedWith>>
    BY <1>0, <1>6, StreamFails
  <2>3. /\ \A t \in Streams \ {s} : rx'[t] = rx[t]
        /\ rx'[s].st = "failed" /\ wire'[s].open
    BY <1>0, <1>6, <2>2, RxSet DEF RoutingInv
  <2>4. origin = "subscribe" /\ entry => aliasKnown
    BY <1>6 DEF RoutingInv
  <2>5. UNCHANGED <<origin, window, key, reading, wire, mirrored, sessionEnded>>
    BY <1>0, <1>6
  <2>6. SubscriptionSound'
    <3>1. sessionEnded' => ~reading' \/ created' # <<>> \/ \E t \in Streams : rx'[t].st = "failed"
      BY <2>3
    <3>2. origin' = "subscribe" /\ closedWith' = "Duplicate" =>
            \E x, t \in Streams : x # t /\ key'[x] = key'[t] /\ wire'[x].open /\ wire'[t].open
      BY <1>6, <2>2, <2>3, <2>4, <2>5 DEF RoutingInv, SubscriptionSound
    <3>3. origin' = "subscribe" /\ closedWith' = "Cancel" /\ reading' =>
            \E x \in Streams : rx'[x].st = "failed" /\ x \notin InWindow(Streams)'
      BY <1>6, <2>1, <2>2, <2>3, <2>4, <2>5 DEF RoutingInv, SubscriptionSound
    <3>4. origin' = "subscribe" /\ closedWith' = "Mode" => mirrored' # {}
      BY <1>6, <2>2, <2>4, <2>5 DEF RoutingInv, SubscriptionSound
    <3>5. origin' = "subscribe" => ~entry'
      BY <2>2, <2>4, <2>5
    <3>6. QED
      BY <3>1, <3>2, <3>3, <3>4, <3>5 DEF SubscriptionSound
  <2>7. \A t \in Streams : rx'[t].st # "none" => wire'[t].open
    BY <2>3, <2>5 DEF RoutingInv
  <2>8. \A t \in Streams : Opened(t)' => rx'[t].st # "none" /\ (t \in retained' \/ t \notin InWindow(Streams)')
    BY <1>6, <2>1, <2>3 DEF RoutingInv
  <2>9. (writer' = "datagrams" => mirrored' # {}) /\ (writer' = "subgroups" => created' # <<>>)
    BY <1>6, <2>2, <2>5 DEF RoutingInv
  <2>10. QED
    <3>1. origin' = "subscribe" => ~entry'
      BY <2>2, <2>4, <2>5
    <3>2. \E t \in Streams : rx'[t].st = "failed"
      BY <2>3
    <3>3. QED
      BY <2>6, <2>7, <2>8, <2>9, <3>1, <3>2 DEF RoutingInv
<1>7. ASSUME NEW s \in Streams, OpenSubgroup(s) PROVE RoutingInv'
  <2>1. AtObject(s) /\ ~Opened(s) /\ UNCHANGED <<origin, window, reading, held, datagramVars>>
    BY <1>7 DEF OpenSubgroup
  <2>2. rx[s].st = "reading" /\ ~sessionEnded /\ wire[s].open
    BY <2>1 DEF AtObject, RoutingInv
  <2>3. CASE SubgroupErrors(s) # {}
    <3>1. PICK err \in SubgroupErrors(s) : FailStream(s, err, "none") /\ UNCHANGED <<created,
                                                                                     retained,
                                                                                     mirror>>
      BY <1>7, <2>3 DEF OpenSubgroup
    <3>2. err \in Errors
      BY <3>1, SubgroupErrorsTyped
    <3>3. \A t \in Streams : Opened(t)' = Opened(t)
      BY <3>1 DEF Opened
    <3>4. /\ entry /\ err = "Cancel" => ~reading
          /\ entry /\ err = "Mode" => mirrored # {}
          /\ entry /\ err = "Duplicate" => \E t \in retained : key[t] = key[s]
      BY <3>1 DEF SubgroupErrors, RoutingInv, NotFound
    <3>5. \A t \in retained : t \in Streams \ {s} /\ wire[t].open
      BY <1>00, <2>1 DEF RoutingInv
    <3>6. entry /\ err = "Duplicate" => \E t \in Streams \ {s} : key[s] = key[t] /\ wire[t].open
      BY <3>4, <3>5
    <3>7. \A t \in Streams : Opened(t) => t \in retained' \/ t \notin InWindow(Streams)
      BY <3>1 DEF RoutingInv
    <3>8. QED
      BY <1>6, <2>1, <2>2, <3>1, <3>2, <3>3, <3>4, <3>6, <3>7
  <2>4. CASE SubgroupErrors(s) = {}
    <3>1. /\ created' = Append(created, s) /\ retained' = InWindow(retained \cup {s})
          /\ PutObject(s, retained')
          /\ IF Held(s, retained')
             THEN writer' = "subgroups" /\ UNCHANGED <<entry, aliasKnown, closedWith>>
             ELSE FailStream(s, "Cancel", "subgroups")
      BY <1>7, <2>4 DEF OpenSubgroup
    <3>2. /\ created' \in Seq(Streams) /\ Len(created') = Len(created) + 1 /\ created'[Len(created) + 1] = s
          /\ \A i \in 1 .. Len(created) : created'[i] = created[i]
          /\ Len(created) \in Nat
      BY <1>0, <3>1, AppendProperties
    <3>3. created' # <<>> /\ \A t \in Streams : Opened(t) => Opened(t)'
      BY <3>2 DEF Opened
    <3>4. \A t \in Streams : Opened(t)' => t = s \/ Opened(t)
      <4> SUFFICES ASSUME NEW t \in Streams, Opened(t)', t # s PROVE Opened(t)
        OBVIOUS
      <4>1. PICK i \in 1 .. Len(created') : created'[i] = t
        BY DEF Opened
      <4>2. i \in 1 .. Len(created)
        BY <3>2, <4>1
      <4>3. QED
        BY <3>2, <4>1, <4>2 DEF Opened
    <3>5. \A t \in Streams : t \in retained \cup {s} => t \in retained' \/ t \notin InWindow(Streams)
      <4>1. retained \cup {s} \subseteq Streams
        BY <1>00
      <4>2. QED
        BY <3>1, <4>1, WindowShrinks
    <3>6. \A t \in Streams : Opened(t)' => t \in retained' \/ t \notin InWindow(Streams)
      BY <3>4, <3>5 DEF RoutingInv
    <3>7. CASE Held(s, retained')
      <4>1. /\ writer' = "subgroups" /\ UNCHANGED <<entry, aliasKnown, closedWith>>
            /\ rx'[s].st = "reading" /\ \A t \in Streams \ {s} : rx'[t] = rx[t]
        <5>1. rx' = [rx EXCEPT ![s] = [st |-> "reading", pos |-> rx[s].pos + 1,
                       prev |-> ObjectId(s, wire[s].frames[rx[s].pos + 1]), left |-> wire[s].frames[rx[s].pos + 1].size]]
          BY <3>1, <3>7 DEF PutObject
        <5>2. QED
          BY <1>0, <3>1, <3>7, <5>1
      <4>2. InWindow(Streams)' = InWindow(Streams)
        BY <1>0, <2>1 DEF InWindow
      <4>3. SubscriptionSound'
        BY <1>0, <2>1, <2>2, <3>3, <4>1, <4>2 DEF RoutingInv, SubscriptionSound
      <4>4. \A t \in Streams : /\ rx'[t].st # "none" => wire'[t].open
                               /\ rx'[t].st = rx[t].st
                               /\ Opened(t)' => rx'[t].st # "none"
        BY <1>0, <2>2, <3>4, <4>1 DEF RoutingInv
      <4>5. QED
        BY <1>0, <2>1, <2>2, <3>3, <3>6, <4>1, <4>2, <4>3, <4>4 DEF RoutingInv
    <3>8. CASE ~Held(s, retained')
      <4>1. reading => s \notin InWindow(Streams)
        <5>1. reading => s \notin retained'
          BY <2>1, <3>8 DEF Held
        <5>2. QED
          BY <3>5, <5>1
      <4>2. FailStream(s, "Cancel", "subgroups") /\ "Cancel" \in Errors
        BY <3>1, <3>8 DEF Errors
      <4>3. \A t \in Streams : Opened(t) => t \in retained' \/ t \notin InWindow(Streams)
        BY <3>3, <3>6
      <4>4. QED
        BY <1>6, <2>1, <2>2, <3>3, <3>4, <3>6, <4>1, <4>2, <4>3
    <3>9. QED
      BY <3>7, <3>8
  <2>5. QED
    BY <2>3, <2>4
<1>8. ASSUME NEW s \in Streams, RecvObject(s) PROVE RoutingInv'
  <2>1. /\ PutObject(s, retained) /\ AtObject(s) /\ Opened(s)
        /\ IF Held(s, retained) THEN UNCHANGED entryVars ELSE FailStream(s, "Cancel", writer)
        /\ UNCHANGED <<origin, window, reading, held, created, retained, datagramVars>>
    BY <1>8 DEF RecvObject
  <2>2. rx[s].st = "reading" /\ ~sessionEnded /\ wire[s].open
    BY <2>1 DEF AtObject, RoutingInv
  <2>3. InWindow(Streams)' = InWindow(Streams) /\ \A t \in Streams : Opened(t)' = Opened(t)
    BY <1>0, <2>1 DEF InWindow, Opened
  <2>4. CASE Held(s, retained)
    <3>1. rx' = [rx EXCEPT ![s] = [st |-> "reading", pos |-> rx[s].pos + 1,
                   prev |-> ObjectId(s, wire[s].frames[rx[s].pos + 1]), left |-> wire[s].frames[rx[s].pos + 1].size]]
      BY <2>1, <2>4 DEF PutObject
    <3>2. rx'[s].st = "reading" /\ (\A t \in Streams \ {s} : rx'[t] = rx[t]) /\ \A t \in Streams : rx'[t].st = rx[t].st
      BY <1>0, <2>2, <3>1
    <3>3. UNCHANGED entryVars
      BY <2>1, <2>4
    <3>4. SubscriptionSound'
      BY <1>0, <2>1, <2>3, <3>2, <3>3 DEF RoutingInv, SubscriptionSound
    <3>5. QED
      BY <1>0, <2>1, <2>3, <3>2, <3>3, <3>4 DEF RoutingInv
  <2>5. CASE ~Held(s, retained)
    <3>1. FailStream(s, "Cancel", writer) /\ "Cancel" \in Errors
      BY <2>1, <2>5 DEF Errors
    <3>2. reading => s \notin InWindow(Streams)
      BY <2>1, <2>5 DEF Held, RoutingInv
    <3>3. /\ \A t \in Streams : Opened(t) => t \in retained' \/ t \notin InWindow(Streams)
          /\ writer = "subgroups" => created' # <<>>
      BY <2>1 DEF RoutingInv
    <3>4. QED
      BY <1>6, <2>1, <2>2, <2>3, <3>1, <3>2, <3>3
  <2>6. QED
    BY <2>4, <2>5
<1>9. QED
  BY <1>1, <1>2, <1>3, <1>4, <1>5, <1>7, <1>8 DEF IngressNext

\* A unit of a subgroup.
Unit == [id : Nat, size : Nat, chunk : Nat]

\* What follows a unit: the rest of its object, or the header of a later one.
LEMMA UnitAfter ==
  ASSUME NEW u \in Seq(Unit), SubgroupUnits(u), NEW i \in 1 .. Len(u), i + 1 \in 1 .. Len(u)
  PROVE  /\ u[i].chunk < u[i].size =>
              u[i + 1].id = u[i].id /\ u[i + 1].size = u[i].size /\ u[i + 1].chunk = u[i].chunk + 1
         /\ u[i].chunk >= u[i].size => u[i + 1].chunk = 0 /\ u[i].id < u[i + 1].id
<1>1. \A j \in 1 .. Len(u) : u[j] \in Unit
  BY ElementOfSeq
<1>2. /\ Len(u) \in Nat /\ i \in Int
      /\ u[i].id \in Nat /\ u[i].size \in Nat /\ u[i].chunk \in Nat
      /\ u[i + 1].id \in Nat /\ u[i + 1].size \in Nat /\ u[i + 1].chunk \in Nat
  BY SMTT(30), <1>1 DEF Unit
<1>3. CASE u[i].chunk < u[i].size
  <2>1. (i + 1) - i <= u[i].size - u[i].chunk /\ i < i + 1 /\ (i + 1) - i = 1
    BY <1>2, <1>3
  <2>2. u[i + 1].id = u[i].id /\ u[i + 1].size = u[i].size /\ u[i + 1].chunk = u[i].chunk + ((i + 1) - i)
    BY <2>1 DEF SubgroupUnits
  <2>3. QED
    BY <1>2, <1>3, <2>1, <2>2
<1>4. CASE u[i].chunk >= u[i].size
  <2>1. u[i].id < u[i + 1].id
    BY <1>2, <1>4 DEF SubgroupUnits
  <2>2. ASSUME u[i + 1].chunk # 0 PROVE FALSE
    <3> DEFINE c == u[i + 1].chunk
               h == i + 1 - c
    <3>1. c \in Nat /\ c > 0 /\ c <= u[i + 1].size /\ c < i + 1
      BY <1>2, <2>2 DEF SubgroupUnits
    <3>2. h \in 1 .. i /\ u[h].id = u[i + 1].id /\ u[h].size = u[i + 1].size /\ u[h].chunk = 0
      BY SMTT(30), <1>2, <3>1 DEF SubgroupUnits
    <3>3. h \in Int /\ h = i + 1 - c /\ c \in Nat /\ c <= u[h].size
      BY <3>1, <3>2
    <3> HIDE DEF h, c
    <3>4. CASE h = i
      BY <1>2, <2>1, <3>2, <3>4
    <3>5. CASE h < i
      <4>1. i - h <= u[h].size - u[h].chunk
        BY <1>2, <3>2, <3>3
      <4>2. h \in 1 .. Len(u)
        BY <3>2
      <4>3. u[i].id = u[h].id /\ u[i].size = u[h].size /\ u[i].chunk = u[h].chunk + (i - h)
        BY <3>5, <4>1, <4>2 DEF SubgroupUnits
      <4>4. QED
        BY <1>2, <2>1, <3>2, <4>3
    <3>6. QED
      BY <3>2, <3>4, <3>5
  <2>3. QED
    BY <1>2, <1>4, <2>1, <2>2
<1>5. QED
  BY <1>2, <1>3, <1>4

\* A chunk follows the chunk or the header before it.
LEMMA UnitBefore ==
  ASSUME NEW u \in Seq(Unit), SubgroupUnits(u), NEW i \in 1 .. Len(u), u[i].chunk > 0
  PROVE  /\ i - 1 \in 1 .. Len(u)
         /\ u[i - 1].id = u[i].id /\ u[i - 1].size = u[i].size /\ u[i - 1].chunk + 1 = u[i].chunk
<1>1. \A j \in 1 .. Len(u) : u[j] \in Unit
  BY ElementOfSeq
<1> DEFINE c == u[i].chunk
           h == i - c
<1>2. Len(u) \in Nat /\ u[i] \in Unit /\ c \in Nat /\ c > 0 /\ c <= u[i].size /\ c < i
  BY <1>1 DEF SubgroupUnits, Unit
<1>3. i - 1 \in 1 .. Len(u) /\ h \in 1 .. (i - 1) /\ u[h].id = u[i].id /\ u[h].size = u[i].size /\ u[h].chunk = 0
  BY <1>2 DEF SubgroupUnits
<1>4. u[h].id = u[i].id /\ u[h].size = u[i].size /\ u[h].chunk = 0
  BY <1>2, <1>3 DEF Unit
<1>5. CASE h = i - 1
  BY <1>2, <1>3, <1>4, <1>5
<1>6. CASE h < i - 1
  <2>1. (i - 1) - h <= u[h].size - u[h].chunk /\ h \in 1 .. Len(u)
    <3>1. h = i - c /\ c \in Nat /\ c <= u[i].size /\ u[i].size \in Nat
      BY <1>2 DEF Unit
    <3> HIDE DEF h, c
    <3>2. QED
      BY <1>2, <1>3, <1>4, <3>1
  <2>2. u[i - 1].id = u[h].id /\ u[i - 1].size = u[h].size /\ u[i - 1].chunk = u[h].chunk + ((i - 1) - h)
    BY <1>3, <1>6, <2>1 DEF SubgroupUnits
  <2>3. u[i - 1].id = u[h].id /\ u[i - 1].size = u[h].size /\ u[i - 1].chunk = (i - 1) - h
    BY <1>3, <1>4, <2>1, <2>2
  <2>4. QED
    BY <1>2, <1>3, <1>4, <2>3
<1>7. QED
  BY <1>3, <1>5, <1>6

\* The units of the object whose header is unit h.
LEMMA ObjectUnits ==
  ASSUME NEW u \in Seq(Unit), SubgroupUnits(u), NEW h \in 1 .. Len(u), u[h].chunk = 0,
         NEW j \in 1 .. Len(u)
  PROVE  /\ u[h].size \in Nat
         /\ j < h => u[j].id < u[h].id
         /\ h < j /\ j <= h + u[h].size =>
              u[j].id = u[h].id /\ u[j].size = u[h].size /\ u[j].chunk = j - h
         /\ h + u[h].size < j => u[h].id < u[j].id
         /\ j = h + u[h].size + 1 => u[j].chunk = 0
<1>1. u[h] \in Unit /\ u[j] \in Unit /\ Len(u) \in Nat
  BY ElementOfSeq
<1>2. u[h].size \in Nat /\ u[h].id \in Nat /\ u[j].id \in Nat /\ u[j].size \in Nat /\ u[j].chunk \in Nat
  BY <1>1 DEF Unit
<1>3. CASE j < h
  <2>1. CASE h - j <= u[j].size - u[j].chunk
    <3>1. u[h].id = u[j].id /\ u[h].size = u[j].size /\ u[h].chunk = u[j].chunk + (h - j)
      BY <1>3, <2>1 DEF SubgroupUnits
    <3>2. u[h].chunk = u[j].chunk + (h - j)
      BY <1>1, <3>1 DEF Unit
    <3>3. QED
      BY <1>2, <1>3, <3>2
  <2>2. CASE ~(h - j <= u[j].size - u[j].chunk)
    BY <1>2, <1>3, <2>2 DEF SubgroupUnits
  <2>3. QED
    BY <2>1, <2>2
<1>4. CASE h < j /\ j <= h + u[h].size
  <2>1. u[j].id = u[h].id /\ u[j].size = u[h].size /\ u[j].chunk = u[h].chunk + (j - h)
    BY <1>2, <1>4 DEF SubgroupUnits
  <2>2. QED
    BY <1>2, <1>4, <2>1
<1>5. CASE h + u[h].size < j
  <2>1. u[h].id < u[j].id
    BY <1>2, <1>5 DEF SubgroupUnits
  <2>2. ASSUME j = h + u[h].size + 1 PROVE u[j].chunk = 0
    <3> DEFINE i == h + u[h].size
    <3>1. i \in 1 .. Len(u) /\ i + 1 \in 1 .. Len(u) /\ j = i + 1
      BY <1>1, <1>2, <2>2
    <3>2. u[i].chunk >= u[i].size
      <4>1. CASE u[h].size = 0
        BY <4>1
      <4>2. CASE u[h].size > 0
        <5>1. u[i].id = u[h].id /\ u[i].size = u[h].size /\ u[i].chunk = u[h].chunk + (i - h)
          <6>1. i - h <= u[h].size - u[h].chunk /\ h < i
            BY <1>2, <4>2
          <6> HIDE DEF i
          <6>2. QED
            BY <3>1, <6>1 DEF SubgroupUnits
        <5>2. QED
          BY <1>2, <5>1
      <4>3. QED
        BY <1>2, <4>1, <4>2
    <3> HIDE DEF i
    <3>3. QED
      BY <3>1, <3>2, UnitAfter
  <2>3. QED
    BY <1>2, <1>5, <2>1, <2>2
<1>6. CASE j = h
  BY <1>2, <1>6
<1>7. QED
  BY <1>2, <1>3, <1>4, <1>5, <1>6

\* How much of an object the track has.
LEMMA PayloadOf ==
  ASSUME NEW u \in Seq(Unit), SubgroupUnits(u), NEW n \in Nat, n <= Len(u),
         NEW h \in 1 .. n, u[h].chunk = 0
  PROVE  Cardinality({j \in 1 .. n : u[j].id = u[h].id /\ u[j].chunk > 0})
           = IF u[h].size <= n - h THEN u[h].size ELSE n - h
<1> DEFINE top == IF h + u[h].size <= n THEN h + u[h].size ELSE n
           S == {j \in 1 .. n : u[j].id = u[h].id /\ u[j].chunk > 0}
<1>1. h \in 1 .. Len(u) /\ u[h] \in Unit /\ Len(u) \in Nat
  <2>1. h \in 1 .. Len(u) /\ Len(u) \in Nat
    OBVIOUS
  <2>2. QED
    BY <2>1, ElementOfSeq
<1>2. u[h].size \in Nat /\ u[h].id \in Nat
  BY <1>1 DEF Unit
<1>3. S = (h + 1) .. top
  <2>1. ASSUME NEW j \in 1 .. n PROVE j \in S <=> j \in (h + 1) .. top
    <3>1. j \in 1 .. Len(u) /\ u[j] \in Unit
      <4>1. j \in 1 .. Len(u)
        BY <1>1
      <4>2. QED
        BY <4>1, ElementOfSeq
    <3>2. u[j].id \in Nat /\ u[j].chunk \in Nat
      BY <3>1 DEF Unit
    <3>3. /\ j < h => u[j].id < u[h].id
          /\ h < j /\ j <= h + u[h].size => u[j].id = u[h].id /\ u[j].chunk = j - h
          /\ h + u[h].size < j => u[h].id < u[j].id
      BY <1>1, <3>1, ObjectUnits
    <3>4. QED
      BY <1>2, <3>2, <3>3
  <2>2. (h + 1) .. top \subseteq 1 .. n
    BY <1>2
  <2>3. S \subseteq 1 .. n
    OBVIOUS
  <2> HIDE DEF S, top
  <2>4. QED
    BY <2>1, <2>2, <2>3
<1>4. top \in Int /\ h + 1 \in Int /\ h <= top
  BY <1>2
<1> HIDE DEF S
<1>5. Cardinality(S) = top - h
  <2> HIDE DEF top
  <2>1. Cardinality((h + 1) .. top) = IF h + 1 > top THEN 0 ELSE top - (h + 1) + 1
    BY <1>4, FS_Interval
  <2>2. QED
    BY <1>3, <1>4, <2>1
<1>6. QED
  BY <1>2, <1>5 DEF S

\* The units of a subgroup, typed.
LEMMA UnitsTyped ==
  ASSUME PlaneAssumption, ForwarderTypes, NEW s \in Streams
  PROVE  /\ Units[s] \in Seq(Unit) /\ SubgroupUnits(Units[s]) /\ cut[s] \in Nat /\ cut[s] <= Len(Units[s])
         /\ task[s].pos \in Nat /\ task[s].pos <= cut[s] /\ task[s].prev \in Int
         /\ \A i \in 1 .. cut[s] : i \in 1 .. Len(Units[s]) /\ Units[s][i].id \in 0 .. MaxId
                                   /\ Units[s][i].size \in Nat /\ Units[s][i].chunk \in Nat
         /\ key[s].group \in 0 .. (MaxId - 1) /\ MaxId \in Nat
<1>1. /\ Units[s] \in Seq([id : 0 .. MaxId, size : Nat, chunk : Nat]) /\ MaxId \in Nat
      /\ SubgroupUnits(Units[s])
  BY DEF PlaneAssumption, ObjectForwarderAssumption
<1>2. /\ cut[s] \in Nat /\ cut[s] <= Len(Units[s]) /\ task[s] \in Task /\ task[s].pos <= cut[s]
      /\ key[s].group \in 0 .. (MaxId - 1)
  BY DEF ForwarderTypes, ForwarderCase
<1>3. [id : 0 .. MaxId, size : Nat, chunk : Nat] \subseteq Unit
  BY <1>1 DEF Unit
<1>4. Units[s] \in Seq(Unit) /\ Len(Units[s]) \in Nat
  <2>1. /\ Len(Units[s]) \in Nat /\ Units[s] = [i \in 1 .. Len(Units[s]) |-> Units[s][i]]
        /\ \A i \in 1 .. Len(Units[s]) : Units[s][i] \in [id : 0 .. MaxId, size : Nat, chunk : Nat]
    <3>1. Len(Units[s]) \in Nat /\ Units[s] \in [1 .. Len(Units[s]) -> [id : 0 .. MaxId, size : Nat, chunk : Nat]]
      BY <1>1, LenProperties
    <3>2. QED
      BY <3>1
  <2>2. [i \in 1 .. Len(Units[s]) |-> Units[s][i]] \in Seq(Unit)
    BY <1>3, <2>1, IsASeq
  <2>3. QED
    BY <2>1, <2>2
<1>5. ASSUME NEW i \in 1 .. cut[s]
      PROVE  /\ i \in 1 .. Len(Units[s]) /\ Units[s][i].id \in 0 .. MaxId
             /\ Units[s][i].size \in Nat /\ Units[s][i].chunk \in Nat
  <2>1. i \in 1 .. Len(Units[s])
    BY <1>2, <1>4
  <2>2. Units[s][i] \in [id : 0 .. MaxId, size : Nat, chunk : Nat]
    BY <1>1, <2>1, ElementOfSeq
  <2>3. QED
    BY <2>1, <2>2
<1>6. QED
  BY <1>1, <1>2, <1>4, <1>5 DEF Task

\* The delivery filter lets through what was asked for.
LEMMA FilterIsRight ==
  ASSUME PlaneAssumption, ForwarderTypes, NEW s \in Streams, NEW id \in 0 .. MaxId
  PROVE  Allows(DeliveryFilterOf(asked.forward, asked.filter, asked.largest), <<key[s].group, id>>)
           <=> Wanted(<<key[s].group, id>>)
<1> DEFINE g == key[s].group
           type == asked.filter.type
           top == asked.largest
<1>1. /\ MaxId \in Nat /\ g \in 0 .. (MaxId - 1) /\ asked.forward \in BOOLEAN /\ type \in FilterTypes
      /\ type \in {"AbsoluteStart", "AbsoluteRange"} => asked.filter.start \in Locations
      /\ IF type = "AbsoluteRange" THEN asked.filter.end \in 0 .. MaxId ELSE asked.filter.end = NoEnd
      /\ top \in {NoLocation} \cup ((0 .. (MaxId - 1)) \X (0 .. MaxId))
  BY UnitsTyped DEF ForwarderTypes, ForwarderCase, SubscriptionFilter
<1>2. /\ asked.filter.end # NoEnd <=> type = "AbsoluteRange"
      /\ NoLocation # <<0, 0>> /\ \A a, b : <<a, b>> # NoLocation
  BY <1>1 DEF NoEnd, NoLocation
<1> HIDE DEF g, type, top
<1>3. CASE type = "none"
  BY <1>1, <1>2, <1>3 DEF Allows, DeliveryFilterOf, Wanted, type, top, g
<1>4. CASE type = "NextGroupStart" \/ type = "LargestObject"
  <2>1. CASE top = NoLocation
    <3>1. ~Before(<<g, id>>, <<0, 0>>)
      BY <1>1 DEF Before
    <3>2. QED
      BY <1>1, <1>2, <1>4, <2>1, <3>1 DEF Allows, DeliveryFilterOf, Wanted, NextGroupLocation,
         NextObjectLocation, type, top, g
  <2>2. CASE top # NoLocation
    <3>1. PICK a \in 0 .. (MaxId - 1), b \in 0 .. MaxId : top = <<a, b>>
      BY <1>1, <2>2
    <3>2. CASE type = "NextGroupStart"
      <4>1. NextGroupLocation(top) = <<a + 1, 0>>
        BY <1>1, <1>2, <3>1 DEF NextGroupLocation
      <4>2. ~Before(<<g, id>>, <<a + 1, 0>>) <=> g > a
        BY <1>1 DEF Before
      <4>3. QED
        BY <1>1, <1>2, <3>1, <3>2, <4>1, <4>2 DEF Allows, DeliveryFilterOf, Wanted, type, top, g
    <3>3. CASE type = "LargestObject"
      <4>1. NextObjectLocation(top) = IF b < MaxId THEN <<a, b + 1>> ELSE <<a + 1, 0>>
        BY <1>1, <1>2, <3>1 DEF NextObjectLocation, NextGroupLocation
      <4>2. ~Before(<<g, id>>, NextObjectLocation(top)) <=> Before(<<a, b>>, <<g, id>>)
        BY <1>1, <4>1 DEF Before
      <4>3. NextObjectLocation(top) # NoLocation
        BY <1>2, <4>1
      <4>4. QED
        BY <1>1, <1>2, <3>1, <3>3, <4>2, <4>3 DEF Allows, DeliveryFilterOf, Wanted, type, top, g
    <3>4. QED
      BY <1>4, <3>2, <3>3
  <2>3. QED
    BY <2>1, <2>2
<1>5. CASE type = "AbsoluteStart" \/ type = "AbsoluteRange"
  <2>1. asked.filter.start # NoLocation
    BY <1>1, <1>2, <1>5 DEF Locations
  <2>2. QED
    BY <1>1, <1>2, <1>5, <2>1 DEF Allows, DeliveryFilterOf, Wanted, type, top, g
<1>6. QED
  BY <1>1, <1>3, <1>4, <1>5 DEF FilterTypes

\* The object of unit i of subgroup s is asked for.
Allowed(s, i) == Wanted(<<key[s].group, Units[s][i].id>>)

\* f is the units that went onto the stream of s: those asked for, in order.
Carried(s, f) ==
  /\ Len(f) = Len(wire[s].frames)
  /\ \A k \in 1 .. Len(f) : f[k] \in 1 .. task[s].pos /\ Allowed(s, f[k])
  /\ \A j, k \in 1 .. Len(f) : j < k => f[j] < f[k]
  /\ \A i \in 1 .. task[s].pos : Allowed(s, i) => \E k \in 1 .. Len(f) : f[k] = i
  /\ \A k \in 1 .. Len(f) :
       /\ wire[s].frames[k].size = Units[s][f[k]].size
       /\ Units[s][f[k]].chunk = 0 =>
            wire[s].frames[k].delta = IF k = 1 THEN Units[s][f[k]].id
                                      ELSE Units[s][f[k]].id - Units[s][f[k - 1]].id - 1
  /\ task[s].prev = IF Len(f) = 0 THEN NoObject ELSE Units[s][f[Len(f)]].id

\* The reader stands at unit f[pos], whose object is the last of the mirror.
ReadTo(s, f) ==
  /\ rx[s].pos <= Len(f)
  /\ rx[s].pos = 0 => mirror[s] = <<>> /\ rx[s].prev = NoObject /\ rx[s].left = 0
  /\ rx[s].pos > 0 =>
       /\ Len(mirror[s]) > 0
       /\ rx[s].prev = Units[s][f[rx[s].pos]].id
       /\ rx[s].left = Units[s][f[rx[s].pos]].size - Units[s][f[rx[s].pos]].chunk
       /\ mirror[s][Len(mirror[s])].id = Units[s][f[rx[s].pos]].id
       /\ mirror[s][Len(mirror[s])].size = Units[s][f[rx[s].pos]].size
       /\ mirror[s][Len(mirror[s])].got = Units[s][f[rx[s].pos]].chunk

\* Entry e of the mirror is the object whose header is unit h, as far as it was sent.
Mirrors(s, e, h) ==
  /\ Units[s][h].chunk = 0 /\ Allowed(s, h) /\ h + e.got <= task[s].pos
  /\ e.id = Units[s][h].id /\ e.size = Units[s][h].size

\* Every object of the mirror was asked for, and all but the last are complete.
Entries(s) ==
  \A k \in 1 .. Len(mirror[s]) :
    /\ \E h \in 1 .. task[s].pos : Mirrors(s, mirror[s][k], h)
    /\ k < Len(mirror[s]) => /\ mirror[s][k].got = mirror[s][k].size
                             /\ mirror[s][k].id < mirror[s][k + 1].id

\* No object that was read is missing.
AllRead(s, f) ==
  \A j \in 1 .. rx[s].pos : Units[s][f[j]].chunk = 0 =>
    \E k \in 1 .. Len(mirror[s]) :
      mirror[s][k].id = Units[s][f[j]].id /\ mirror[s][k].size = Units[s][f[j]].size

\* How far the stream was read, and what the mirror has of it.
Received(s, f) ==
  /\ ReadTo(s, f) /\ Entries(s) /\ AllRead(s, f)
  /\ rx[s].st = "over" => wire[s].fin /\ rx[s].pos = Len(f) /\ rx[s].left = 0

\* Where the task of subgroup s is.
TaskInv(s) ==
  /\ task[s].st = "idle" => task[s].pos = 0
  /\ task[s].st \in {"idle", "seeking"} => ~wire[s].open
  /\ ~wire[s].open => wire[s].frames = <<>>
  /\ task[s].st = "writing" => wire[s].open
  /\ task[s].st \in {"seeking", "writing"} /\ More(s) => Here(s).chunk = 0 \/ Allowed(s, task[s].pos + 1)
  /\ task[s].st = "over" /\ ~unsubscribed => task[s].pos = cut[s]
  /\ wire[s].fin => task[s].st = "over"

\* Where the subscription is: the tasks run, the filter is set and PUBLISH_DONE counts.
ServingInv ==
  /\ streamCount = Cardinality({s \in Streams : wire[s].open})
  /\ phase # "serving" => \A s \in Streams : task[s].st \in {"idle", "over"}
  /\ phase = "serving" => filter = DeliveryFilterOf(asked.forward, asked.filter, asked.largest)
  /\ \A s \in Streams : s > taken => task[s].st = "idle"
  /\ \A i \in 1 .. Len(control) : control[i].type = "PublishDone" =>
       phase = "gone" /\ control[i].streams = streamCount

\* A stream carries some of the units of its subgroup, and the mirror has what was read of them.
StreamInv(s) == TaskInv(s) /\ \E f \in Seq(Nat) : Carried(s, f) /\ Received(s, f)

\* What is asked for does not change.
LEMMA AllowedStays ==
  ASSUME UNCHANGED sourceVars, NEW s, NEW i PROVE Allowed(s, i)' <=> Allowed(s, i)
  BY DEF Allowed, Wanted, sourceVars

\* Units of one object are asked for together.
LEMMA AllowedAlike ==
  ASSUME NEW s, NEW i, NEW j, Units[s][i].id = Units[s][j].id PROVE Allowed(s, i) <=> Allowed(s, j)
  BY DEF Allowed

\* Nothing is written or read of stream s.
LEMMA StreamRests ==
  ASSUME NEW s \in Streams, NEW f \in Seq(Nat), Carried(s, f), Received(s, f), UNCHANGED sourceVars,
         task'[s].pos = task[s].pos, task'[s].prev = task[s].prev, wire'[s].frames = wire[s].frames,
         wire[s].fin => wire'[s].fin, rx'[s] = rx[s], mirror'[s] = mirror[s]
  PROVE  Carried(s, f)' /\ Received(s, f)'
<1>1. \A i : Allowed(s, i)' <=> Allowed(s, i)
  BY AllowedStays
<1>2. Carried(s, f)'
  BY <1>1 DEF Carried
<1>3. Received(s, f)'
  BY <1>1 DEF Received, ReadTo, Entries, AllRead, Mirrors
<1>4. QED
  BY <1>2, <1>3

\* A stream that no end touches.
LEMMA StreamUntouched ==
  ASSUME NEW s \in Streams, StreamInv(s), UNCHANGED sourceVars, task'[s] = task[s], wire'[s] = wire[s],
         rx'[s] = rx[s], mirror'[s] = mirror[s], unsubscribed => unsubscribed'
  PROVE  StreamInv(s)'
<1>1. PICK f \in Seq(Nat) : Carried(s, f) /\ Received(s, f)
  BY DEF StreamInv
<1>2. Carried(s, f)' /\ Received(s, f)'
  BY <1>1, StreamRests
<1>3. TaskInv(s)'
  <2>1. \A i : Allowed(s, i)' <=> Allowed(s, i)
    BY AllowedStays
  <2>2. QED
    BY <2>1 DEF StreamInv, TaskInv, sourceVars, More, Here
<1>4. QED
  BY <1>2, <1>3 DEF StreamInv

\* The reader and the mirror of a stream, typed.
LEMMA MirrorTyped ==
  ASSUME IngressTypes, NEW s \in Streams
  PROVE  /\ mirror[s] \in Seq(MirrorEntry) /\ Len(mirror[s]) \in Nat
         /\ \A k \in 1 .. Len(mirror[s]) : mirror[s][k].id \in Int /\ mirror[s][k].size \in Nat /\ mirror[s][k].got \in Nat
         /\ rx[s].pos \in Nat /\ rx[s].prev \in Int /\ rx[s].left \in Nat
<1>1. mirror[s] \in Seq(MirrorEntry) /\ rx[s] \in Rx
  BY DEF IngressTypes
<1>2. \A k \in 1 .. Len(mirror[s]) : mirror[s][k] \in MirrorEntry
  BY <1>1, ElementOfSeq
<1>3. Len(mirror[s]) \in Nat
  BY <1>1
<1>4. \A k \in 1 .. Len(mirror[s]) : mirror[s][k].id \in Int /\ mirror[s][k].size \in Nat /\ mirror[s][k].got \in Nat
  BY <1>2 DEF MirrorEntry
<1>5. rx[s].pos \in Nat /\ rx[s].prev \in Int /\ rx[s].left \in Nat
  BY <1>1 DEF Rx
<1>6. QED
  BY <1>1, <1>3, <1>4, <1>5

\* What was sent stays sent.
LEMMA EntriesStay ==
  ASSUME PlaneAssumption, ForwarderTypes, IngressTypes, NEW s \in Streams, Entries(s), UNCHANGED sourceVars,
         mirror'[s] = mirror[s], task'[s].pos \in Nat, task[s].pos <= task'[s].pos
  PROVE  Entries(s)'
<1>1. \A i : Allowed(s, i)' <=> Allowed(s, i)
  BY AllowedStays
<1>2. task[s].pos \in Nat
  BY UnitsTyped
<1>3. ASSUME NEW k \in 1 .. Len(mirror[s]) PROVE \E h \in 1 .. task'[s].pos : Mirrors(s, mirror[s][k], h)'
  <2>1. PICK h \in 1 .. task[s].pos : Mirrors(s, mirror[s][k], h)
    BY DEF Entries
  <2>2. mirror[s][k].got \in Nat
    BY MirrorTyped
  <2>3. h \in 1 .. task'[s].pos /\ (h + mirror[s][k].got <= task[s].pos => h + mirror[s][k].got <= task'[s].pos)
    BY <1>2, <2>1, <2>2
  <2>4. QED
    BY <1>1, <2>1, <2>3 DEF Mirrors
<1>4. QED
  BY <1>3 DEF Entries

\* Objects that were not asked for are passed over.
LEMMA CarriedSkips ==
  ASSUME PlaneAssumption, ForwarderTypes, IngressTypes, NEW s \in Streams, NEW f \in Seq(Nat), Carried(s, f), Received(s, f),
         UNCHANGED sourceVars, task'[s].prev = task[s].prev, wire'[s] = wire[s],
         rx'[s] = rx[s], mirror'[s] = mirror[s], task'[s].pos \in task[s].pos .. cut[s],
         \A i \in (task[s].pos + 1) .. task'[s].pos : ~Allowed(s, i)
  PROVE  Carried(s, f)' /\ Received(s, f)'
<1>1. \A i : Allowed(s, i)' <=> Allowed(s, i)
  BY AllowedStays
<1>2. task[s].pos \in Nat /\ cut[s] \in Nat
  BY UnitsTyped
<1>3. 1 .. task[s].pos \subseteq 1 .. task'[s].pos
  BY <1>2
<1>4. \A i \in 1 .. task'[s].pos : i \in 1 .. task[s].pos \/ i \in (task[s].pos + 1) .. task'[s].pos
  BY <1>2
<1>5. Carried(s, f)'
  BY <1>1, <1>3, <1>4 DEF Carried
<1>6. Received(s, f)'
  <2>1. Entries(s)'
    BY <1>2, EntriesStay DEF Received
  <2>2. QED
    BY <2>1 DEF Received, ReadTo, AllRead
<1>7. QED
  BY <1>5, <1>6

\* What was read does not depend on what is sent after it.
LEMMA MoreSent ==
  ASSUME IngressTypes, NEW s \in Streams, NEW f \in Seq(Nat), NEW g \in Seq(Nat),
         Len(f) <= Len(g), \A j \in 1 .. Len(f) : g[j] = f[j],
         Received(s, f), rx[s].st # "over", rx'[s] = rx[s], mirror'[s] = mirror[s], Entries(s)'
  PROVE  Received(s, g)'
<1>1. rx[s].pos \in Nat /\ rx[s].pos <= Len(f) /\ Len(f) \in Nat /\ Len(g) \in Nat
  BY MirrorTyped DEF Received, ReadTo
<1>2. \A j \in 1 .. rx[s].pos : g[j] = f[j]
  <2>1. 1 .. rx[s].pos \subseteq 1 .. Len(f)
    BY <1>1
  <2>2. QED
    BY <2>1
<1>3. rx[s].pos > 0 => g[rx[s].pos] = f[rx[s].pos]
  <2>1. rx[s].pos > 0 => rx[s].pos \in 1 .. rx[s].pos
    BY <1>1
  <2>2. QED
    BY <1>2, <2>1
<1>4. ReadTo(s, g)'
  <2>1. rx[s].pos <= Len(g)
    BY <1>1
  <2>2. QED
    BY <1>3, <2>1 DEF Received, ReadTo
<1>5. AllRead(s, g)'
  BY ZenonT(30), <1>2 DEF Received, AllRead
<1>6. QED
  BY <1>4, <1>5 DEF Received

\* A unit that was asked for goes onto the stream.
LEMMA CarriedMore ==
  ASSUME PlaneAssumption, ForwarderTypes, IngressTypes,
         NEW s \in Streams, NEW f \in Seq(Nat), Carried(s, f), Received(s, f),
         UNCHANGED sourceVars, rx'[s] = rx[s], mirror'[s] = mirror[s], rx[s].st # "over",
         NEW p \in 1 .. cut[s], p = task[s].pos + 1, Allowed(s, p), NEW frame,
         task'[s].pos = p, task'[s].prev = Units[s][p].id, wire'[s].frames = Append(wire[s].frames, frame),
         frame.size = Units[s][p].size,
         Units[s][p].chunk = 0 => frame.delta = ObjectIdDelta(task[s].prev, Units[s][p].id)
  PROVE  \E g \in Seq(Nat) : Carried(s, g)' /\ Received(s, g)'
<1>0. \A i : Allowed(s, i)' <=> Allowed(s, i)
  BY AllowedStays
<1>1. task[s].pos \in Nat /\ cut[s] \in Nat /\ p \in Nat /\ task[s].pos = p - 1
  <2>1. task[s].pos \in Nat /\ cut[s] \in Nat
    BY UnitsTyped
  <2>2. QED
    BY <2>1
<1>2. PICK n \in Nat, g \in Seq(Nat) :
        n = Len(f) /\ Len(g) = n + 1 /\ g[n + 1] = p /\ \A k \in 1 .. n : g[k] = f[k]
  <2>1. /\ Append(f, p) \in Seq(Nat) /\ Len(Append(f, p)) = Len(f) + 1 /\ Append(f, p)[Len(f) + 1] = p
        /\ \A k \in 1 .. Len(f) : Append(f, p)[k] = f[k]
    BY <1>1, AppendProperties
  <2>2. Len(f) \in Nat
    OBVIOUS
  <2>3. QED
    BY <2>1, <2>2
<1>3. /\ Len(wire'[s].frames) = n + 1 /\ wire'[s].frames[n + 1] = frame
      /\ \A k \in 1 .. n : wire'[s].frames[k] = wire[s].frames[k]
  <2>1. wire[s].frames \in Seq(Frame) /\ Len(wire[s].frames) = n
    BY <1>2 DEF ForwarderTypes, Wire, Carried
  <2>2. wire[s].frames \in Seq(Frame \union {frame}) /\ frame \in Frame \union {frame}
    BY <2>1
  <2>3. /\ Len(Append(wire[s].frames, frame)) = Len(wire[s].frames) + 1
        /\ Append(wire[s].frames, frame)[Len(wire[s].frames) + 1] = frame
        /\ \A k \in 1 .. Len(wire[s].frames) : Append(wire[s].frames, frame)[k] = wire[s].frames[k]
    BY <2>2, AppendProperties
  <2>4. QED
    BY <2>1, <2>3
<1>4. 1 .. n \subseteq 1 .. (n + 1) /\ \A k \in 1 .. (n + 1) : k \in 1 .. n \/ k = n + 1
  BY <1>2
<1>5. n = Len(f) /\ \A k \in 1 .. n : f[k] \in 1 .. task[s].pos /\ Allowed(s, f[k])
  BY <1>2 DEF Carried
<1>6. Carried(s, g)'
  <2>1. Len(g) = Len(wire'[s].frames)
    BY <1>2, <1>3
  <2>2. \A k \in 1 .. Len(g) : g[k] \in 1 .. task'[s].pos /\ Allowed(s, g[k])
    <3> SUFFICES ASSUME NEW k \in 1 .. (n + 1) PROVE g[k] \in 1 .. p /\ Allowed(s, g[k])
      BY <1>2
    <3>1. CASE k \in 1 .. n
      <4>1. g[k] = f[k] /\ f[k] \in 1 .. task[s].pos /\ Allowed(s, f[k])
        BY <1>2, <1>5, <3>1
      <4>2. 1 .. task[s].pos \subseteq 1 .. p
        BY <1>1
      <4>3. QED
        BY <4>1, <4>2
    <3>2. CASE k = n + 1
      BY <1>1, <1>2, <3>2
    <3>3. QED
      BY <1>4, <3>1, <3>2
  <2>3. \A j, k \in 1 .. Len(g) : j < k => g[j] < g[k]
    <3> SUFFICES ASSUME NEW j \in 1 .. (n + 1), NEW k \in 1 .. (n + 1), j < k PROVE g[j] < g[k]
      BY <1>2
    <3>1. j \in 1 .. n
      BY <1>2
    <3>2. CASE k \in 1 .. n
      BY <1>2, <1>5, <3>1, <3>2 DEF Carried
    <3>3. CASE k = n + 1
      <4>1. g[j] = f[j] /\ f[j] \in 1 .. task[s].pos /\ g[k] = p
        BY <1>2, <1>5, <3>1, <3>3
      <4>2. \A a \in 1 .. task[s].pos : a < p
        BY <1>1
      <4>3. QED
        BY <4>1, <4>2
    <3>4. QED
      BY <1>4, <3>2, <3>3
  <2>4. \A i \in 1 .. task'[s].pos : Allowed(s, i) => \E k \in 1 .. Len(g) : g[k] = i
    <3> SUFFICES ASSUME NEW i \in 1 .. p, Allowed(s, i) PROVE \E k \in 1 .. (n + 1) : g[k] = i
      BY <1>2
    <3>1. CASE i = p
      BY <1>2, <3>1
    <3>2. CASE i # p
      <4>1. i \in 1 .. task[s].pos
        BY <1>1, <3>2
      <4>2. PICK k \in 1 .. n : f[k] = i
        BY <1>5, <4>1 DEF Carried
      <4>3. QED
        BY <1>2, <1>4, <4>2
    <3>3. QED
      BY <3>1, <3>2
  <2>5. ASSUME NEW k \in 1 .. Len(g)
        PROVE  /\ wire'[s].frames[k].size = Units[s][g[k]].size
               /\ Units[s][g[k]].chunk = 0 =>
                    wire'[s].frames[k].delta = IF k = 1 THEN Units[s][g[k]].id
                                               ELSE Units[s][g[k]].id - Units[s][g[k - 1]].id - 1
    <3>1. CASE k \in 1 .. n
      <4>1. k # 1 => k - 1 \in 1 .. n
        BY <1>2, <3>1
      <4>2. QED
        <5>1. g[k] = f[k] /\ wire'[s].frames[k] = wire[s].frames[k] /\ (k # 1 => g[k - 1] = f[k - 1])
          BY <1>2, <1>3, <3>1, <4>1
        <5>2. QED
          BY <1>5, <3>1, <5>1 DEF Carried
    <3>2. CASE k = n + 1
      <4>1. task[s].prev = IF n = 0 THEN NoObject ELSE Units[s][f[n]].id
        BY <1>2 DEF Carried
      <4>2. CASE n = 0
        BY <1>2, <1>3, <3>2, <4>1, <4>2 DEF ObjectIdDelta
      <4>3. CASE n # 0
        <5>1. n \in 1 .. n /\ k - 1 = n /\ k # 1 /\ g[k - 1] = f[n]
          BY <1>2, <3>2, <4>3
        <5>2. f[n] \in 1 .. cut[s]
          BY SMTT(30), <1>1, <1>5, <5>1
        <5>3. Units[s][f[n]].id # NoObject
          <6>1. Units[s][f[n]].id \in 0 .. MaxId /\ MaxId \in Nat
            BY <5>2, UnitsTyped
          <6>2. QED
            BY SMTT(30), <6>1 DEF NoObject
        <5>4. QED
          BY <1>2, <1>3, <3>2, <4>1, <4>3, <5>1, <5>3 DEF ObjectIdDelta
      <4>4. QED
        BY <4>2, <4>3
    <3>3. QED
      BY <1>2, <1>4, <3>1, <3>2
  <2>6. task'[s].prev = IF Len(g) = 0 THEN NoObject ELSE Units[s][g[Len(g)]].id
    BY <1>2
  <2>7. QED
    BY <1>0, <2>1, <2>2, <2>3, <2>4, <2>5, <2>6 DEF Carried
<1>7. Received(s, g)'
  <2>1. task'[s].pos \in Nat /\ task[s].pos <= task'[s].pos
    BY <1>1
  <2>2. Entries(s)'
    BY <2>1, EntriesStay DEF Received
  <2>3. Len(f) <= Len(g) /\ \A j \in 1 .. Len(f) : g[j] = f[j]
    BY <1>2
  <2>4. QED
    BY <2>2, <2>3, MoreSent
<1>8. QED
  BY <1>2, <1>6, <1>7

\* The inductive invariant behind MirrorFaithful.
MirrorInv == ServingInv /\ \A s \in Streams : StreamInv(s)

\* Before anything is sent the mirror is empty.
LEMMA MirrorStart == ASSUME PlaneAssumption, DataInit PROVE MirrorInv
<1>1. PICK c \in Cases : DataStart(c)
  BY DEF DataInit
<1>2. \A s \in Streams : /\ task[s] = [st |-> "idle", pos |-> 0, prev |-> NoObject]
                         /\ wire[s] = [open |-> FALSE, frames |-> <<>>, fin |-> FALSE]
                         /\ rx[s] = [st |-> "none", pos |-> 0, prev |-> NoObject, left |-> 0]
                         /\ mirror[s] = <<>>
  BY <1>1 DEF DataStart, ForwarderStart, IngressStart
<1>3. ServingInv
  <2>1. phase = "new" /\ control = <<>> /\ streamCount = 0
    BY <1>1 DEF DataStart, ForwarderStart
  <2>2. {s \in Streams : wire[s].open} = {}
    BY <1>2
  <2>3. Cardinality({s \in Streams : wire[s].open}) = 0
    BY <2>2, FS_EmptySet
  <2>4. QED
    BY <1>2, <2>1, <2>3 DEF ServingInv
<1>4. ASSUME NEW s \in Streams PROVE StreamInv(s)
  <2>1. TaskInv(s)
    BY <1>2 DEF TaskInv
  <2>2. <<>> \in Seq(Nat) /\ Len(<<>>) = 0
    OBVIOUS
  <2>3. Carried(s, <<>>)
    BY <1>2, <2>2 DEF Carried
  <2>4. Received(s, <<>>)
    BY <1>2, <2>2 DEF Received, ReadTo, Entries, AllRead
  <2>5. QED
    BY <2>1, <2>2, <2>3, <2>4 DEF StreamInv
<1>5. QED
  BY <1>3, <1>4 DEF MirrorInv

\* The publisher moves.
LEMMA SendingStep ==
  ASSUME PlaneAssumption, ForwarderTypes, IngressTypes, MirrorInv, (ForwarderNext \/ RecvUnsubscribe),
         UNCHANGED ingressVars
  PROVE  MirrorInv'
<1> USE DEF stateVars
<1>0. /\ task \in [Streams -> Task] /\ wire \in [Streams -> Wire] /\ rx' = rx /\ mirror' = mirror
      /\ unsubscribed \in BOOLEAN
  BY DEF ForwarderTypes, ingressVars
<1>1. ASSUME UNCHANGED <<sourceVars, task, wire>>, unsubscribed => unsubscribed'
      PROVE  \A s \in Streams : StreamInv(s)'
  BY <1>0, <1>1, StreamUntouched DEF MirrorInv
<1>2. CASE ServeInner \/ ServeCancelled \/ RecvUnsubscribe \/ NoMoreSubgroups \/ SeeClosed
  <2>1. UNCHANGED <<sourceVars, task, wire,
                    streamCount>> /\ (unsubscribed => unsubscribed') /\ taken' = taken
    BY <1>2 DEF ServeInner, ServeCancelled, RecvUnsubscribe, NoMoreSubgroups, SeeClosed
  <2>2. ServingInv'
    <3>1. CASE ServeInner
      <4>1. /\ control' = Append(control, [type |-> "SubscribeOk", streams |-> 0]) /\ phase = "new"
            /\ phase' = "serving" /\ filter' = DeliveryFilterOf(asked.forward, asked.filter, asked.largest)
        BY <3>1 DEF ServeInner
      <4>2. control \in Seq([type : {"SubscribeOk", "PublishDone"}, streams : Nat])
        BY DEF ForwarderTypes
      <4>3. \A i \in 1 .. Len(control) : control[i].type # "PublishDone"
        BY <4>1 DEF MirrorInv, ServingInv
      <4>4. \A i \in 1 .. Len(control') : control'[i].type # "PublishDone"
        BY <4>1, <4>2, <4>3
      <4>5. QED
        BY <2>1, <4>1, <4>4 DEF MirrorInv, ServingInv, sourceVars
    <3>2. CASE ServeCancelled
      BY <2>1, <3>2 DEF ServeCancelled, MirrorInv, ServingInv, sourceVars
    <3>3. CASE RecvUnsubscribe \/ NoMoreSubgroups \/ SeeClosed
      BY <2>1, <3>3 DEF RecvUnsubscribe, NoMoreSubgroups, SeeClosed, MirrorInv, ServingInv,
         sourceVars
    <3>4. QED
      BY <1>2, <3>1, <3>2, <3>3
  <2>3. QED
    BY <1>1, <2>1, <2>2 DEF MirrorInv
<1>3. CASE ReturnAndDrop
  <2>1. /\ UNCHANGED <<sourceVars, task, wire, streamCount, unsubscribed,
                       taken>> /\ phase = "serving" /\ phase' = "gone"
        /\ \A s \in Streams : task[s].st \in {"idle", "over"}
        /\ control' = IF unsubscribed THEN control
                      ELSE Append(control, [type |-> "PublishDone", streams |-> streamCount])
    BY <1>3 DEF ReturnAndDrop
  <2>2. control \in Seq([type : {"SubscribeOk", "PublishDone"}, streams : Nat]) /\ streamCount \in Nat
    BY DEF ForwarderTypes
  <2>3. \A i \in 1 .. Len(control) : control[i].type # "PublishDone"
    BY <2>1 DEF MirrorInv, ServingInv
  <2>4. \A i \in 1 .. Len(control') : control'[i].type = "PublishDone" => control'[i].streams = streamCount
    BY <2>1, <2>2, <2>3
  <2>5. ServingInv'
    BY <2>1, <2>4 DEF MirrorInv, ServingInv
  <2>6. QED
    BY <1>1, <2>1, <2>5 DEF MirrorInv
<1>4. CASE NextSubgroup
  <2>1. Cardinality(Streams) \in Nat /\ Streams = 1 .. Cardinality(Streams) /\ taken \in Nat
    BY FS_CardinalityType DEF PlaneAssumption, ObjectForwarderAssumption, ForwarderTypes
  <2>0. taken + 1 \in Streams /\ taken + 1 > taken
    BY <1>4, <2>1 DEF NextSubgroup
  <2>00. PICK s \in Streams : s = taken + 1
    BY <2>0
  <2>2. /\ phase = "serving" /\ taken < Cardinality(Streams) /\ taken' = s
        /\ task' = [task EXCEPT ![s].st = "seeking"]
        /\ UNCHANGED <<sourceVars, phase, filter, unsubscribed, streamCount, wire, control>>
    BY <1>4, <2>00 DEF NextSubgroup
  <2>3. s \in Streams /\ task[s].st = "idle"
    BY <2>0, <2>00 DEF MirrorInv, ServingInv
  <2>4. \A t \in Streams : t > s => t > taken /\ t # s
    BY <2>1, <2>00
  <2>5. /\ task'[s].st = "seeking" /\ task'[s].pos = task[s].pos /\ task'[s].prev = task[s].prev
        /\ \A t \in Streams \ {s} : task'[t] = task[t]
    BY <1>0, <2>2, <2>3 DEF Task
  <2>6. ServingInv'
    BY <2>2, <2>3, <2>4, <2>5 DEF MirrorInv, ServingInv, sourceVars
  <2>7. StreamInv(s)'
    <3>1. PICK f \in Seq(Nat) : Carried(s, f) /\ Received(s, f)
      BY <2>3 DEF MirrorInv, StreamInv
    <3>2. Carried(s, f)' /\ Received(s, f)'
      BY <1>0, <2>2, <2>3, <2>5, <3>1, StreamRests
    <3>3. TaskInv(s)
      BY <2>3 DEF MirrorInv, StreamInv
    <3>4. 0 < cut[s] => Units[s][1].chunk = 0
      <4> SUFFICES ASSUME 0 < cut[s] PROVE Units[s][1].chunk = 0
        OBVIOUS
      <4>1. cut[s] \in Nat /\ \A i \in 1 .. cut[s] : i \in 1 .. Len(Units[s]) /\ Units[s][i].chunk \in Nat
        BY <2>3, UnitsTyped
      <4>2. 1 \in 1 .. Len(Units[s]) /\ Units[s][1].chunk \in Nat
        BY <4>1
      <4>3. Units[s][1].chunk < 1
        BY <2>3, <4>2, UnitsTyped DEF SubgroupUnits
      <4>4. QED
        BY <4>2, <4>3
    <3>5. task[s].pos = 0 /\ ~wire[s].open /\ wire[s].frames = <<>> /\ ~wire[s].fin
      BY <2>3, <3>3 DEF TaskInv
    <3>6. TaskInv(s)'
      <4>1. task'[s].pos = 0 /\ wire'[s] = wire[s] /\ cut' = cut
        BY <2>2, <2>5, <3>5 DEF sourceVars
      <4>2. QED
        BY <2>5, <3>4, <3>5, <4>1 DEF TaskInv, More, Here
    <3>7. QED
      BY <3>2, <3>6 DEF StreamInv
  <2>8. \A t \in Streams \ {s} : StreamInv(t)'
    BY <1>0, <2>2, <2>5, StreamUntouched DEF MirrorInv
  <2>9. QED
    BY <2>6, <2>7, <2>8 DEF MirrorInv
<1>5. ASSUME NEW s \in Streams, task[s].st \in {"seeking", "writing"},
             \A t \in Streams \ {s} : task'[t] = task[t],
             UNCHANGED <<sourceVars, phase, filter, taken, control>>,
             streamCount' = Cardinality({t \in Streams : wire'[t].open})
      PROVE  ServingInv'
  <2>1. phase = "serving" /\ ~(s > taken)
    BY <1>5 DEF MirrorInv, ServingInv
  <2>2. \A i \in 1 .. Len(control) : control[i].type # "PublishDone"
    BY <2>1 DEF MirrorInv, ServingInv
  <2>3. QED
    BY <1>5, <2>1, <2>2 DEF MirrorInv, ServingInv, sourceVars
<1>6. ASSUME NEW s \in Streams, task[s].st \in {"seeking", "writing"}, More(s)
      PROVE  /\ Allows(filter, Location(s)) <=> Allowed(s, task[s].pos + 1)
             /\ task[s].pos + 1 \in 1 .. cut[s] /\ task[s].pos \in Nat /\ cut[s] \in Nat
             /\ Here(s) = Units[s][task[s].pos + 1]
             /\ Here(s).id \in 0 .. MaxId /\ Here(s).size \in Nat /\ Here(s).chunk \in Nat
  <2>1. filter = DeliveryFilterOf(asked.forward, asked.filter, asked.largest)
    BY <1>6 DEF MirrorInv, ServingInv
  <2>2. task[s].pos \in Nat /\ cut[s] \in Nat
    BY UnitsTyped
  <2>3. task[s].pos + 1 \in 1 .. cut[s]
    BY <1>6, <2>2 DEF More
  <2>4. Here(s).id \in 0 .. MaxId /\ Here(s).size \in Nat /\ Here(s).chunk \in Nat
    BY <2>3, UnitsTyped DEF Here
  <2>5. QED
    BY <2>1, <2>2, <2>3, <2>4, FilterIsRight DEF Location, Allowed, Here
<1>7. ASSUME NEW s \in Streams, UNCHANGED sourceVars, unsubscribed => unsubscribed',
             \A t \in Streams \ {s} : task'[t] = task[t] /\ wire'[t] = wire[t],
             StreamInv(s)', ServingInv'
      PROVE  MirrorInv'
  BY <1>0, <1>7, StreamUntouched DEF MirrorInv
<1>8. ASSUME NEW s \in Streams, \A t \in Streams : wire'[t].open = wire[t].open, streamCount' = streamCount
      PROVE  streamCount' = Cardinality({t \in Streams : wire'[t].open})
  <2>1. {t \in Streams : wire'[t].open} = {t \in Streams : wire[t].open}
    BY <1>8
  <2>2. QED
    BY <1>8, <2>1 DEF MirrorInv, ServingInv
<1>9. ASSUME NEW s \in Streams, SkipObject(s) PROVE MirrorInv'
  <2>1. PICK p \in Nat, f \in Seq(Nat) : /\ p = task[s].pos + 1 /\ Carried(s, f) /\ Received(s, f)
    <3>1. task[s].pos \in Nat
      BY UnitsTyped
    <3>2. QED
      BY <3>1 DEF MirrorInv, StreamInv
  <2>2. /\ task[s].st \in {"seeking", "writing"} /\ More(s) /\ ~Allows(filter, Location(s)) /\ Here(s).chunk = 0
        /\ UNCHANGED <<sourceVars, phase, filter, taken, unsubscribed, streamCount, wire, control>>
    BY <1>9 DEF SkipObject
  <2>3. /\ ~Allowed(s, p) /\ p \in 1 .. cut[s] /\ cut[s] \in Nat
        /\ Units[s][p].chunk = 0 /\ Units[s][p].size \in Nat /\ task[s].pos \in Nat
    BY <1>6, <2>1, <2>2
  <2>4. PICK q \in Nat : /\ q = IF p + Units[s][p].size > cut[s] THEN cut[s] ELSE p + Units[s][p].size
                         /\ task' = [task EXCEPT ![s].pos = q]
    <3>1. task' = [task EXCEPT ![s].pos = IF p + Units[s][p].size > cut[s] THEN cut[s] ELSE p + Units[s][p].size]
      BY <1>9, <2>1 DEF SkipObject, Here
    <3>2. (IF p + Units[s][p].size > cut[s] THEN cut[s] ELSE p + Units[s][p].size) \in Nat
      BY <2>3
    <3>3. QED
      BY <3>1, <3>2
  <2>5. /\ task'[s].pos = q /\ task'[s].st = task[s].st /\ task'[s].prev = task[s].prev
        /\ \A t \in Streams \ {s} : task'[t] = task[t]
    BY <1>0, <2>4, Advanced
  <2>6. p <= q /\ q <= cut[s] /\ q <= p + Units[s][p].size /\ q \in task[s].pos .. cut[s]
    BY SMTT(30), <2>1, <2>3, <2>4
  <2>7. Units[s] \in Seq(Unit) /\ SubgroupUnits(Units[s]) /\ \A i \in 1 .. cut[s] : i \in 1 .. Len(Units[s])
    BY UnitsTyped
  <2>8. ASSUME NEW i \in (task[s].pos + 1) .. q PROVE ~Allowed(s, i)
    <3>0. i \in p .. q
      BY <2>1
    <3>1. i \in 1 .. cut[s] /\ i >= p /\ i <= p + Units[s][p].size
      BY <2>3, <2>6, <3>0
    <3>2. Units[s][i].id = Units[s][p].id
      <4>1. CASE i = p
        BY <4>1
      <4>2. CASE i # p
        <5>1. p < i /\ i <= p + Units[s][p].size
          BY <2>1, <3>1, <4>2
        <5>2. QED
          BY <2>3, <2>7, <3>1, <5>1, ObjectUnits
      <4>3. QED
        BY <4>1, <4>2
    <3>3. QED
      BY <2>3, <3>2, AllowedAlike
  <2>9. Carried(s, f)' /\ Received(s, f)'
    BY <1>0, <2>1, <2>2, <2>5, <2>6, <2>8, CarriedSkips
  <2>10. TaskInv(s)'
    <3>1. q < cut[s] => Units[s][q + 1].chunk = 0
      <4> SUFFICES ASSUME q < cut[s] PROVE Units[s][q + 1].chunk = 0
        OBVIOUS
      <4>1. q = p + Units[s][p].size /\ q + 1 \in 1 .. cut[s]
        BY <2>3, <2>4
      <4>2. QED
        BY <2>3, <2>7, <4>1, ObjectUnits
    <3>2. TaskInv(s)
      BY DEF MirrorInv, StreamInv
    <3>3. wire' = wire /\ cut' = cut /\ unsubscribed' = unsubscribed
      BY <2>2 DEF sourceVars
    <3>4. QED
      BY <2>2, <2>5, <3>1, <3>2, <3>3 DEF TaskInv, More, Here
  <2>11. ServingInv'
    BY <1>5, <1>8, <2>2, <2>5
  <2>12. QED
    BY <1>7, <2>2, <2>5, <2>9, <2>10, <2>11 DEF StreamInv
<1>10. ASSUME NEW s \in Streams, OpenUni(s) PROVE MirrorInv'
  <2>1. PICK f \in Seq(Nat) : Carried(s, f) /\ Received(s, f)
    BY DEF MirrorInv, StreamInv
  <2>2. /\ task[s].st = "seeking" /\ More(s)
        /\ UNCHANGED <<sourceVars, phase, filter, taken, unsubscribed, control>>
    BY <1>10 DEF OpenUni
  <2>3. TaskInv(s) /\ cut' = cut
    BY <2>2 DEF MirrorInv, StreamInv, sourceVars
  <2>4. CASE StateHeld
    <3>1. /\ streamCount' = streamCount + 1 /\ task' = [task EXCEPT ![s].st = "writing"]
          /\ wire' = [wire EXCEPT ![s].open = TRUE]
      BY <1>10, <2>4 DEF OpenUni
    <3>2. /\ task'[s].st = "writing" /\ task'[s].pos = task[s].pos /\ task'[s].prev = task[s].prev
          /\ \A t \in Streams \ {s} : task'[t] = task[t]
      BY <1>0, <3>1 DEF Task
    <3>3. /\ wire'[s].open /\ wire'[s].frames = wire[s].frames /\ wire'[s].fin = wire[s].fin
          /\ \A t \in Streams \ {s} : wire'[t] = wire[t]
      BY <1>0, <3>1 DEF Wire
    <3>4. streamCount' = Cardinality({t \in Streams : wire'[t].open})
      <4> DEFINE S == {t \in Streams : wire[t].open}
      <4>1. s \notin S /\ {t \in Streams : wire'[t].open} = S \cup {s}
        BY <2>2, <2>3, <3>3 DEF TaskInv
      <4>2. IsFiniteSet(S)
        BY FS_Subset DEF PlaneAssumption, ObjectForwarderAssumption
      <4> HIDE DEF S
      <4>3. Cardinality(S \cup {s}) = Cardinality(S) + 1
        BY <4>1, <4>2, FS_AddElement
      <4>4. QED
        BY <3>1, <4>1, <4>3 DEF S, MirrorInv, ServingInv
    <3>5. ServingInv'
      BY <1>5, <2>2, <3>2, <3>4
    <3>6. Carried(s, f)' /\ Received(s, f)'
      BY <1>0, <2>1, <2>2, <3>2, <3>3, StreamRests
    <3>7. \A i : Allowed(s, i)' <=> Allowed(s, i)
      BY <2>2, AllowedStays
    <3>8. TaskInv(s)'
      BY <2>2, <2>3, <3>2, <3>3, <3>7 DEF TaskInv, More, Here
    <3>9. QED
      BY <1>7, <2>2, <3>2, <3>3, <3>5, <3>6, <3>8 DEF StreamInv
  <2>5. CASE ~StateHeld
    <3>1. UNCHANGED <<streamCount, wire>> /\ task' = [task EXCEPT ![s] = Over(s)]
      BY <1>10, <2>5 DEF OpenUni
    <3>2. /\ task'[s].st = "over" /\ task'[s].pos = task[s].pos /\ task'[s].prev = task[s].prev
          /\ \A t \in Streams \ {s} : task'[t] = task[t]
      BY <1>0, <3>1 DEF Task, Over
    <3>3. ServingInv'
      BY <1>5, <1>8, <2>2, <3>1, <3>2
    <3>4. Carried(s, f)' /\ Received(s, f)'
      BY <1>0, <2>1, <2>2, <3>1, <3>2, StreamRests
    <3>5. TaskInv(s)'
      BY <2>2, <2>3, <2>5, <3>1, <3>2 DEF TaskInv, StateHeld
    <3>6. QED
      BY <1>7, <2>2, <3>1, <3>2, <3>3, <3>4, <3>5 DEF StreamInv
  <2>6. QED
    BY <2>4, <2>5
<1>11. ASSUME NEW s \in Streams, EndSubgroup(s) PROVE MirrorInv'
  <2>1. PICK f \in Seq(Nat) : Carried(s, f) /\ Received(s, f)
    BY DEF MirrorInv, StreamInv
  <2>2. /\ task[s].st \in {"seeking", "writing"} /\ ~More(s)
        /\ task' = [task EXCEPT ![s] = Over(s)] /\ wire' = [wire EXCEPT ![s] = Finished(s)]
        /\ UNCHANGED <<sourceVars, phase, filter, taken, unsubscribed, streamCount, control>>
    BY <1>11 DEF EndSubgroup
  <2>3. TaskInv(s) /\ cut' = cut /\ wire[s].open \in BOOLEAN
    BY <1>0, <2>2 DEF MirrorInv, StreamInv, sourceVars, Wire
  <2>4. /\ task'[s].st = "over" /\ task'[s].pos = task[s].pos /\ task'[s].prev = task[s].prev
        /\ \A t \in Streams \ {s} : task'[t] = task[t]
    BY <1>0, <2>2 DEF Task, Over
  <2>5. /\ wire'[s].open = wire[s].open /\ wire'[s].frames = wire[s].frames /\ wire'[s].fin = wire[s].open
        /\ \A t \in Streams \ {s} : wire'[t] = wire[t]
    BY <1>0, <2>2 DEF Wire, Finished
  <2>6. ServingInv'
    <3>1. \A t \in Streams : wire'[t].open = wire[t].open
      BY <2>5
    <3>2. QED
      BY <1>5, <1>8, <2>2, <2>4, <3>1
  <2>7. ~wire[s].fin
    BY <2>2, <2>3 DEF TaskInv
  <2>8. Carried(s, f)' /\ Received(s, f)'
    BY <1>0, <2>1, <2>2, <2>4, <2>5, <2>7, StreamRests
  <2>9. task[s].pos = cut[s]
    <3>1. task[s].pos \in Nat /\ cut[s] \in Nat /\ task[s].pos <= cut[s]
      BY UnitsTyped
    <3>2. QED
      BY <2>2, <3>1 DEF More
  <2>10. TaskInv(s)'
    BY <2>3, <2>4, <2>5, <2>9 DEF TaskInv
  <2>11. QED
    BY <1>7, <2>2, <2>4, <2>5, <2>6, <2>8, <2>10 DEF StreamInv
<1>12. ASSUME NEW s \in Streams, task[s].st = "writing", More(s), Allowed(s, task[s].pos + 1), NEW frame, NEW st \in {"writing", "over"},
              st = "over" => unsubscribed,
              task'[s].pos = task[s].pos + 1, task'[s].prev = Here(s).id, task'[s].st = st,
              wire'[s].open = wire[s].open, wire'[s].frames = Append(wire[s].frames, frame),
              wire'[s].fin => st = "over",
              frame.size = Here(s).size, Here(s).chunk = 0 => frame.delta = ObjectIdDelta(task[s].prev, Here(s).id),
              \A t \in Streams \ {s} : task'[t] = task[t] /\ wire'[t] = wire[t],
              UNCHANGED <<sourceVars, phase, filter, taken, unsubscribed, streamCount, control>>
       PROVE  MirrorInv'
  <2>1. PICK f \in Seq(Nat), p \in 1 .. cut[s] : Carried(s, f) /\ Received(s, f) /\ p = task[s].pos + 1
    BY <1>6, <1>12 DEF MirrorInv, StreamInv
  <2>2. TaskInv(s) /\ cut' = cut
    BY <1>12 DEF MirrorInv, StreamInv, sourceVars
  <2>3. wire[s].open /\ ~wire[s].fin /\ rx[s].st # "over"
    BY <1>12, <2>1, <2>2 DEF TaskInv, Received
  <2>4. Here(s) = Units[s][p]
    BY <2>1 DEF Here
  <2>5. \E g \in Seq(Nat) : Carried(s, g)' /\ Received(s, g)'
    BY SMTT(30), <1>0, <1>12, <2>1, <2>3, <2>4, CarriedMore
  <2>6. p \in Nat /\ cut[s] \in Nat /\ p < cut[s] => Units[s][p + 1].chunk = 0 \/ Allowed(s, p + 1)
    <3> SUFFICES ASSUME p < cut[s] PROVE Units[s][p + 1].chunk = 0 \/ Allowed(s, p + 1)
      OBVIOUS
    <3>1. p \in 1 .. cut[s] /\ p + 1 \in 1 .. cut[s] /\ cut[s] \in Nat
      BY <1>6, <1>12
    <3>2. /\ p \in 1 .. Len(Units[s]) /\ p + 1 \in 1 .. Len(Units[s]) /\ Units[s] \in Seq(Unit) /\ SubgroupUnits(Units[s])
          /\ Units[s][p].chunk \in Nat /\ Units[s][p].size \in Nat
      BY <3>1, UnitsTyped
    <3>3. Units[s][p + 1].id = Units[s][p].id \/ Units[s][p + 1].chunk = 0
      BY <3>2, UnitAfter
    <3>4. QED
      BY <1>12, <2>1, <3>3, AllowedAlike
  <2>7. TaskInv(s)'
    <3>1. \A i : Allowed(s, i)' <=> Allowed(s, i)
      BY <1>12, AllowedStays
    <3>2. task'[s].pos = p /\ p \in Nat /\ cut[s] \in Nat
      BY <1>6, <1>12, <2>1
    <3>3. (More(s) => Here(s).chunk = 0 \/ Allowed(s, task[s].pos + 1))'
      BY <2>2, <2>6, <3>1, <3>2 DEF More, Here
    <3>4. QED
      BY <1>12, <2>3, <3>3 DEF TaskInv
  <2>8. ServingInv'
    <3>1. \A t \in Streams : wire'[t].open = wire[t].open
      BY <1>12
    <3>2. QED
      BY <1>5, <1>8, <1>12, <3>1
  <2>9. QED
    BY <1>7, <1>12, <2>5, <2>7, <2>8 DEF StreamInv
<1>13. ASSUME NEW s \in Streams, WriteObject(s) PROVE MirrorInv'
  <2> DEFINE delta == ObjectIdDelta(task[s].prev, Here(s).id)
             frame == [delta |-> delta, size |-> Here(s).size, chunk |-> 0]
             st == IF StateHeld THEN "writing" ELSE "over"
  <2>1. /\ task[s].st = "writing" /\ More(s) /\ Allows(filter, Location(s))
        /\ wire' = [wire EXCEPT ![s].frames = Append(wire[s].frames, frame), ![s].fin = ~StateHeld]
        /\ task' = [task EXCEPT ![s] = [st |-> st, pos |-> task[s].pos + 1, prev |-> Here(s).id]]
        /\ UNCHANGED <<sourceVars, phase, filter, taken, unsubscribed, streamCount, control>>
    BY <1>13 DEF WriteObject, Output
  <2>2. frame.size = Here(s).size /\ frame.delta = delta
    OBVIOUS
  <2>3. st \in {"writing", "over"} /\ (st = "over" => unsubscribed) /\ (~StateHeld => st = "over")
    BY DEF StateHeld
  <2> HIDE DEF frame, st
  <2>4. /\ task'[s].pos = task[s].pos + 1 /\ task'[s].prev = Here(s).id /\ task'[s].st = st
        /\ \A t \in Streams \ {s} : task'[t] = task[t]
    BY <1>0, <2>1
  <2>5. /\ wire'[s].open = wire[s].open /\ wire'[s].frames = Append(wire[s].frames, frame)
        /\ wire'[s].fin = ~StateHeld /\ \A t \in Streams \ {s} : wire'[t] = wire[t]
    BY <1>0, <2>1 DEF Wire
  <2>6. Allowed(s, task[s].pos + 1)
    BY <1>6, <2>1
  <2>7. QED
    BY <1>12, <2>1, <2>2, <2>3, <2>4, <2>5, <2>6
<1>14. ASSUME NEW s \in Streams, WriteChunk(s) PROVE MirrorInv'
  <2> DEFINE frame == [delta |-> 0, size |-> Here(s).size, chunk |-> Here(s).chunk]
  <2>1. /\ task[s].st = "writing" /\ More(s) /\ Here(s).chunk > 0
        /\ wire' = [wire EXCEPT ![s].frames = Append(wire[s].frames, frame)]
        /\ task' = [task EXCEPT ![s].pos = task[s].pos + 1]
        /\ UNCHANGED <<sourceVars, phase, filter, taken, unsubscribed, streamCount, control>>
    BY <1>14 DEF WriteChunk, Output
  <2>2. frame.size = Here(s).size
    OBVIOUS
  <2> HIDE DEF frame
  <2>3. task[s].pos \in Nat /\ Here(s).chunk # 0
    BY <1>6, <2>1
  <2>4. /\ task'[s].pos = task[s].pos + 1 /\ task'[s].prev = task[s].prev /\ task'[s].st = "writing"
        /\ \A t \in Streams \ {s} : task'[t] = task[t]
    <3>1. task[s].pos + 1 \in Nat
      BY <2>3
    <3>2. QED
      BY <1>0, <2>1, <3>1, Advanced
  <2>5. /\ wire'[s].open = wire[s].open /\ wire'[s].frames = Append(wire[s].frames, frame)
        /\ wire'[s].fin = wire[s].fin /\ \A t \in Streams \ {s} : wire'[t] = wire[t]
    BY <1>0, <2>1 DEF Wire
  <2>6. TaskInv(s)
    BY DEF MirrorInv, StreamInv
  <2>7. Allowed(s, task[s].pos + 1) /\ ~wire[s].fin
    BY <2>1, <2>3, <2>6 DEF TaskInv
  <2>8. task[s].prev = Here(s).id
    <3>1. PICK f \in Seq(Nat), p \in 1 .. cut[s] : Carried(s, f) /\ Received(s, f) /\ p = task[s].pos + 1
      BY <1>6, <2>1 DEF MirrorInv, StreamInv
    <3>2. Here(s) = Units[s][p] /\ p \in 1 .. Len(Units[s]) /\ Units[s] \in Seq(Unit) /\ SubgroupUnits(Units[s])
      BY <3>1, UnitsTyped DEF Here
    <3>3. p - 1 \in 1 .. Len(Units[s]) /\ Units[s][p - 1].id = Units[s][p].id /\ p - 1 = task[s].pos
      <4>1. Units[s][p].chunk > 0
        BY <2>1, <3>2
      <4>2. p - 1 = task[s].pos
        BY <2>3, <3>1
      <4>3. QED
        BY <3>2, <4>1, <4>2, UnitBefore
    <3>4. Allowed(s, p - 1) /\ p - 1 \in 1 .. task[s].pos
      <4>1. Allowed(s, p)
        BY <2>7, <3>1
      <4>2. QED
        BY <2>3, <3>3, <4>1, AllowedAlike
    <3>5. PICK k \in 1 .. Len(f) : f[k] = task[s].pos
      BY <3>1, <3>3, <3>4 DEF Carried
    <3>6. Len(f) \in 1 .. Len(f) /\ Len(f) # 0
      <4>1. Len(f) \in Nat
        OBVIOUS
      <4>2. QED
        BY <3>5, <4>1
    <3>7. f[Len(f)] \in 1 .. task[s].pos /\ (k < Len(f) => f[k] < f[Len(f)])
      BY <3>1, <3>5, <3>6 DEF Carried
    <3>8. f[Len(f)] = task[s].pos
      BY <2>3, <3>5, <3>7
    <3>9. task[s].prev = Units[s][f[Len(f)]].id
      BY <3>1, <3>6 DEF Carried
    <3>10. QED
      BY <3>2, <3>3, <3>8, <3>9
  <2>9. QED
    BY <1>12, <2>1, <2>2, <2>3, <2>4, <2>5, <2>7, <2>8
<1>15. QED
  BY <1>2, <1>3, <1>4, <1>9, <1>10, <1>11, <1>13, <1>14 DEF ForwarderNext

\* A unit after one that completes its object lies past what that object has left.
LEMMA Apart ==
  ASSUME NEW i \in Int, NEW j \in Int, NEW a \in Nat, NEW b \in Nat, i - j > 0, b >= a
  PROVE  ~(i - j <= a - b)
  OBVIOUS

\* What the next frame is.
LEMMA NextFrame ==
  ASSUME PlaneAssumption, ForwarderTypes, NEW s \in Streams, NEW f \in Seq(Nat), Carried(s, f),
         NEW r \in Nat, r < Len(f)
  PROVE  /\ r + 1 \in 1 .. Len(f) /\ f[r + 1] \in 1 .. task[s].pos /\ f[r + 1] \in 1 .. cut[s]
         /\ r = 0 => Units[s][f[r + 1]].chunk = 0
         /\ r > 0 => /\ r \in 1 .. Len(f) /\ f[r] \in 1 .. cut[s]
                     /\ Units[s][f[r]].chunk < Units[s][f[r]].size => f[r + 1] = f[r] + 1
                     /\ Units[s][f[r]].chunk >= Units[s][f[r]].size =>
                          Units[s][f[r + 1]].chunk = 0 /\ Units[s][f[r]].id < Units[s][f[r + 1]].id
<1>1. /\ Units[s] \in Seq(Unit) /\ SubgroupUnits(Units[s]) /\ task[s].pos \in Nat /\ cut[s] \in Nat
      /\ task[s].pos <= cut[s] /\ cut[s] <= Len(Units[s]) /\ Len(f) \in Nat /\ Len(Units[s]) \in Nat
  <2>1. /\ Units[s] \in Seq(Unit) /\ SubgroupUnits(Units[s]) /\ task[s].pos \in Nat /\ cut[s] \in Nat
        /\ task[s].pos <= cut[s] /\ cut[s] <= Len(Units[s])
    BY UnitsTyped
  <2>2. QED
    BY <2>1
<1>2. PICK n \in 1 .. Len(f) : n = r + 1
  BY <1>1
<1>3. \A k \in 1 .. Len(f) : f[k] \in 1 .. task[s].pos /\ Allowed(s, f[k])
  BY DEF Carried
<1>4. PICK i \in 1 .. task[s].pos : i = f[n] /\ Allowed(s, i)
  BY <1>2, <1>3
<1>5. 1 .. task[s].pos \subseteq 1 .. cut[s] /\ 1 .. cut[s] \subseteq 1 .. Len(Units[s])
  BY <1>1
<1>6. \A x \in 1 .. cut[s] : Units[s][x].id \in Nat /\ Units[s][x].size \in Nat /\ Units[s][x].chunk \in Nat
  <2>1. \A x \in 1 .. cut[s] : Units[s][x].id \in 0 .. MaxId /\ Units[s][x].size \in Nat /\ Units[s][x].chunk \in Nat
    BY UnitsTyped
  <2>2. MaxId \in Nat
    BY UnitsTyped
  <2>3. QED
    BY <2>1, <2>2
\* A unit between two that were sent was not asked for.
<1>7. ASSUME NEW x \in 1 .. (i - 1), Allowed(s, x) PROVE r > 0 /\ x <= f[r]
  <2>1. x \in 1 .. task[s].pos /\ x < i
    BY <1>1, <1>4
  <2>2. PICK k \in 1 .. Len(f) : f[k] = x
    BY <1>7, <2>1 DEF Carried
  <2>3. k < n
    <3>1. CASE k = n
      BY <1>4, <2>1, <2>2, <3>1
    <3>2. CASE k > n
      <4>1. f[n] < f[k]
        BY <1>2, <2>2, <3>2 DEF Carried
      <4>2. QED
        BY <1>4, <2>1, <2>2, <4>1
    <3>3. QED
      BY <1>2, <2>2, <3>1, <3>2
  <2>4. r > 0 /\ r \in 1 .. Len(f) /\ k <= r
    BY <1>1, <1>2, <2>2, <2>3
  <2>5. CASE k = r
    BY <1>3, <2>2, <2>4, <2>5
  <2>6. CASE k < r
    <3>1. f[k] < f[r] /\ f[r] \in 1 .. task[s].pos
      BY <1>3, <2>2, <2>4, <2>6 DEF Carried
    <3>2. QED
      BY <2>1, <2>2, <2>4, <3>1
  <2>7. QED
    BY <2>2, <2>4, <2>5, <2>6
<1>8. ASSUME Units[s][i].chunk # 0
      PROVE  /\ r > 0 /\ i - 1 <= f[r] /\ i - 1 \in 1 .. cut[s]
             /\ Units[s][i - 1].id = Units[s][i].id /\ Units[s][i - 1].size = Units[s][i].size
             /\ Units[s][i - 1].chunk + 1 = Units[s][i].chunk
  <2>1. i \in 1 .. Len(Units[s]) /\ Units[s][i].chunk > 0
    <3>1. i \in 1 .. cut[s] /\ i \in 1 .. Len(Units[s])
      BY <1>4, <1>5
    <3>2. Units[s][i].chunk \in Nat
      BY <1>6, <3>1
    <3>3. QED
      BY <1>8, <3>1, <3>2
  <2>2. /\ i - 1 \in 1 .. Len(Units[s]) /\ Units[s][i - 1].id = Units[s][i].id
        /\ Units[s][i - 1].size = Units[s][i].size /\ Units[s][i - 1].chunk + 1 = Units[s][i].chunk
    BY <1>1, <2>1, UnitBefore
  <2>3. i - 1 \in 1 .. (i - 1) /\ i - 1 \in 1 .. cut[s]
    BY SMTT(30), <1>1, <1>4, <2>2
  <2>4. Allowed(s, i - 1)
    BY <1>4, <2>2, AllowedAlike
  <2>5. QED
    BY <1>7, <2>2, <2>3, <2>4
<1>9. r + 1 \in 1 .. Len(f) /\ f[r + 1] = i /\ i \in 1 .. cut[s]
  BY <1>2, <1>4, <1>5
<1>10. ASSUME r > 0
       PROVE  /\ r \in 1 .. Len(f) /\ f[r] \in 1 .. cut[s]
              /\ Units[s][f[r]].chunk < Units[s][f[r]].size => i = f[r] + 1
              /\ Units[s][f[r]].chunk >= Units[s][f[r]].size =>
                   Units[s][i].chunk = 0 /\ Units[s][f[r]].id < Units[s][i].id
  <2>1. r \in 1 .. Len(f) /\ r < n
    BY <1>1, <1>2, <1>10
  <2>2. PICK j \in 1 .. task[s].pos : j = f[r] /\ j < i /\ Allowed(s, j)
    BY <1>2, <1>3, <1>4, <2>1 DEF Carried
  <2>3. j \in 1 .. cut[s] /\ j \in 1 .. Len(Units[s]) /\ j + 1 \in 1 .. cut[s] /\ j + 1 \in 1 .. Len(Units[s]) /\ i \in 1 .. Len(Units[s])
    <3>1. i \in Nat /\ j \in Nat /\ j >= 1 /\ j + 1 <= i /\ i <= cut[s]
      BY <1>1, <1>4, <2>2
    <3>2. j \in 1 .. cut[s] /\ j + 1 \in 1 .. cut[s] /\ i \in 1 .. cut[s]
      BY <1>1, <3>1
    <3>3. QED
      BY <1>5, <3>2
  <2>4. /\ Units[s][j].id \in Nat /\ Units[s][j].size \in Nat /\ Units[s][j].chunk \in Nat
        /\ Units[s][i].id \in Nat /\ Units[s][i].size \in Nat /\ Units[s][i].chunk \in Nat
    BY <1>6, <1>9, <2>3
  <2>5. ASSUME Units[s][j].chunk < Units[s][j].size PROVE i = j + 1
    <3>1. Units[s][j + 1].id = Units[s][j].id
      BY <1>1, <2>3, <2>5, UnitAfter
    <3>2. Allowed(s, j + 1)
      BY <2>2, <3>1, AllowedAlike
    <3>3. j + 1 < i => j + 1 \in 1 .. (i - 1)
      BY <1>4, <2>2
    <3>4. ~(j + 1 < i)
      <4>1. ~(j + 1 <= j)
        BY <2>2
      <4>2. QED
        BY <1>7, <2>2, <3>2, <3>3, <4>1
    <3>5. QED
      BY <1>4, <2>2, <3>4
  <2>6. ASSUME Units[s][j].chunk >= Units[s][j].size PROVE Units[s][i].chunk = 0 /\ Units[s][j].id < Units[s][i].id
    <3>1. ~(i - j <= Units[s][j].size - Units[s][j].chunk)
      <4>1. i - j > 0 /\ i \in Int /\ j \in Int
        BY <1>1, <1>4, <2>2
      <4>2. PICK a \in Nat, b \in Nat : a = Units[s][j].size /\ b = Units[s][j].chunk /\ b >= a
        BY <2>4, <2>6
      <4>3. ~(i - j <= a - b)
        BY <4>1, <4>2, Apart
      <4>4. QED
        BY <4>2, <4>3
    <3>2. Units[s][j].id < Units[s][i].id
      BY <1>1, <2>2, <2>3, <3>1 DEF SubgroupUnits
    <3>3. ASSUME Units[s][i].chunk # 0 PROVE FALSE
      <4>1. i - 1 <= j /\ Units[s][i - 1].id = Units[s][i].id
        BY <1>8, <2>2, <3>3
      <4>2. i - 1 = j
        BY <1>4, <2>2, <4>1
      <4>3. QED
        BY <2>4, <3>2, <4>1, <4>2
    <3>4. QED
      BY <3>2, <3>3
  <2>7. QED
    BY <2>1, <2>2, <2>3, <2>5, <2>6
<1>11. QED
  BY <1>4, <1>8, <1>9, <1>10

\* An object's header is read.
LEMMA HeaderRead ==
  ASSUME PlaneAssumption, ForwarderTypes, IngressTypes, NEW s \in Streams, NEW f \in Seq(Nat),
         Carried(s, f), Received(s, f), UNCHANGED forwarderVars, AtObject(s), NEW kept, Held(s, kept),
         PutObject(s, kept)
  PROVE  Received(s, f)'
<1>0. PICK frame, id :
        /\ frame = wire[s].frames[rx[s].pos + 1] /\ id = ObjectId(s, frame)
        /\ mirror'[s] = Append(mirror[s], [id |-> id, size |-> frame.size, got |-> 0])
        /\ rx'[s].st = "reading" /\ rx'[s].pos = rx[s].pos + 1 /\ rx'[s].prev = id /\ rx'[s].left = frame.size
  <2> DEFINE frame == wire[s].frames[rx[s].pos + 1]
             id == ObjectId(s, frame)
  <2>1. /\ mirror' = [mirror EXCEPT ![s] = Append(@, [id |-> id, size |-> frame.size, got |-> 0])]
        /\ rx' = [rx EXCEPT ![s] = [st |-> "reading", pos |-> rx[s].pos + 1, prev |-> id, left |-> frame.size]]
    BY DEF PutObject
  <2>2. mirror \in [Streams -> Seq(MirrorEntry)] /\ rx \in [Streams -> Rx]
    BY DEF IngressTypes
  <2> HIDE DEF frame, id
  <2>3. /\ mirror'[s] = Append(mirror[s], [id |-> id, size |-> frame.size, got |-> 0])
        /\ rx'[s] = [st |-> "reading", pos |-> rx[s].pos + 1, prev |-> id, left |-> frame.size]
    BY <2>1, <2>2
  <2>4. rx'[s].st = "reading" /\ rx'[s].pos = rx[s].pos + 1 /\ rx'[s].prev = id /\ rx'[s].left = frame.size
    BY <2>3
  <2>5. frame = wire[s].frames[rx[s].pos + 1] /\ id = ObjectId(s, frame)
    BY DEF frame, id
  <2>6. QED
    BY <2>3, <2>4, <2>5
<1>1. PICK r \in Nat, m \in Nat : r = rx[s].pos /\ m = Len(mirror[s]) /\ r < Len(f) /\ r + 1 = rx'[s].pos
  BY <1>0, MirrorTyped DEF Carried, AtObject
<1>2. PICK i \in 1 .. cut[s] : i = f[r + 1] /\ i \in 1 .. task[s].pos /\ r + 1 \in 1 .. Len(f)
  BY <1>1, NextFrame
<1>3. /\ Units[s][i].id \in Nat /\ Units[s][i].size \in Nat /\ Units[s][i].chunk \in Nat /\ task[s].pos \in Nat
  <2>1. Units[s][i].id \in 0 .. MaxId /\ Units[s][i].size \in Nat /\ Units[s][i].chunk \in Nat /\ task[s].pos \in Nat
    BY <1>2, UnitsTyped
  <2>2. MaxId \in Nat
    BY UnitsTyped
  <2>3. QED
    BY <2>1, <2>2
<1>4. Allowed(s, i) /\ \A x : Allowed(s, x)' <=> Allowed(s, x)
  <2>1. UNCHANGED sourceVars
    BY DEF forwarderVars, sourceVars
  <2>2. QED
    BY <1>2, <2>1, AllowedStays DEF Carried
<1>5. r > 0 => /\ f[r] \in 1 .. cut[s] /\ Units[s][f[r]].size \in Nat /\ Units[s][f[r]].chunk \in Nat
               /\ Units[s][f[r]].id \in 0 .. MaxId /\ rx[s].prev = Units[s][f[r]].id
               /\ Units[s][f[r]].chunk = Units[s][f[r]].size
  <2> SUFFICES ASSUME r > 0
               PROVE /\ f[r] \in 1 .. cut[s] /\ Units[s][f[r]].size \in Nat /\ Units[s][f[r]].chunk \in Nat
                     /\ Units[s][f[r]].id \in 0 .. MaxId /\ rx[s].prev = Units[s][f[r]].id
                     /\ Units[s][f[r]].chunk = Units[s][f[r]].size
    OBVIOUS
  <2>1. f[r] \in 1 .. cut[s]
    BY <1>1, NextFrame
  <2>2. Units[s][f[r]].size \in Nat /\ Units[s][f[r]].chunk \in Nat /\ Units[s][f[r]].id \in 0 .. MaxId
    BY <2>1, UnitsTyped
  <2>3. rx[s].prev = Units[s][f[r]].id /\ 0 = Units[s][f[r]].size - Units[s][f[r]].chunk
    BY <1>1 DEF Received, ReadTo, AtObject
  <2>4. QED
    BY <2>1, <2>2, <2>3
<1>6. Units[s][i].chunk = 0 /\ (r > 0 => Units[s][f[r]].id < Units[s][i].id)
  <2>1. CASE r = 0
    BY <1>1, <1>2, <2>1, NextFrame
  <2>2. CASE r > 0
    <3>1. Units[s][f[r]].chunk >= Units[s][f[r]].size
      BY <1>5, <2>2
    <3>2. QED
      BY <1>1, <1>2, <2>2, <3>1, NextFrame
  <2>3. QED
    BY <1>1, <2>1, <2>2
<1>7. frame.size = Units[s][i].size /\ id = Units[s][i].id
  <2>1. /\ frame.size = Units[s][i].size
        /\ frame.delta = IF r + 1 = 1 THEN Units[s][i].id ELSE Units[s][i].id - Units[s][f[(r + 1) - 1]].id - 1
    BY <1>0, <1>1, <1>2, <1>6 DEF Carried
  <2>2. CASE r = 0
    <3>1. rx[s].prev = NoObject
      BY <1>1, <2>2 DEF Received, ReadTo
    <3>2. QED
      BY <1>0, <2>1, <2>2, <3>1 DEF ObjectId
  <2>3. CASE r > 0
    <3>1. frame.delta = Units[s][i].id - Units[s][f[r]].id - 1
      <4>1. (r + 1) - 1 = r /\ r + 1 # 1
        BY <2>3
      <4>2. QED
        BY <2>1, <4>1
    <3>2. MaxId \in Nat
      BY UnitsTyped
    <3>3. rx[s].prev # NoObject /\ rx[s].prev \in Nat
      BY <1>5, <2>3, <3>2 DEF NoObject
    <3>4. rx[s].prev + frame.delta + 1 = Units[s][i].id
      BY <1>3, <1>5, <2>3, <3>1, <3>3
    <3>5. QED
      BY <1>0, <2>1, <3>3, <3>4 DEF ObjectId
  <2>4. QED
    BY <1>1, <2>2, <2>3
<1>8. PICK e : e = [id |-> Units[s][i].id, size |-> Units[s][i].size, got |-> 0] /\ mirror'[s] = Append(mirror[s], e)
  BY <1>0, <1>7
<1>9. e.id = Units[s][i].id /\ e.size = Units[s][i].size /\ e.got = 0 /\ e \in MirrorEntry
  BY <1>3, <1>8 DEF MirrorEntry
<1>10. /\ Len(mirror'[s]) = m + 1 /\ mirror'[s][m + 1] = e /\ \A k \in 1 .. m : mirror'[s][k] = mirror[s][k]
  <2>1. mirror[s] \in Seq(MirrorEntry)
    BY MirrorTyped
  <2>2. QED
    BY <1>1, <1>8, <1>9, <2>1, AppendProperties
<1>11. 1 .. m \subseteq 1 .. (m + 1) /\ m + 1 \in 1 .. (m + 1) /\ \A k \in 1 .. (m + 1) : k \in 1 .. m \/ k = m + 1
  BY <1>1
<1>12. ReadTo(s, f)'
  <2>1. rx'[s].pos = r + 1 /\ rx'[s].prev = Units[s][i].id /\ rx'[s].left = Units[s][i].size
    BY <1>0, <1>1, <1>7
  <2>2. r + 1 <= Len(f) /\ r + 1 # 0 /\ r + 1 > 0 /\ m + 1 > 0 /\ Units[s][i].size = Units[s][i].size - Units[s][i].chunk
    <3>1. r + 1 <= Len(f)
      BY <1>2
    <3>2. r + 1 # 0 /\ r + 1 > 0 /\ m + 1 > 0
      OBVIOUS
    <3>3. Units[s][i].size = Units[s][i].size - Units[s][i].chunk
      BY <1>3, <1>6
    <3>4. QED
      BY <3>1, <3>2, <3>3
  <2>3. QED
    BY <1>2, <1>6, <1>9, <1>10, <2>1, <2>2 DEF ReadTo
<1>13. Entries(s)'
  <2> SUFFICES ASSUME NEW k \in 1 .. (m + 1)
               PROVE  /\ \E h \in 1 .. task[s].pos : Mirrors(s, mirror'[s][k], h)
                      /\ k < m + 1 => /\ mirror'[s][k].got = mirror'[s][k].size
                                      /\ mirror'[s][k].id < mirror'[s][k + 1].id
    <3>1. task' = task
      BY DEF forwarderVars
    <3>2. QED
      BY <1>4, <1>10, <3>1 DEF Entries, Mirrors
  <2>1. CASE k = m + 1
    <3>1. Mirrors(s, e, i)
      BY <1>2, <1>3, <1>4, <1>6, <1>9 DEF Mirrors
    <3>2. QED
      BY <1>2, <1>10, <2>1, <3>1
  <2>2. CASE k \in 1 .. m
    <3>1. mirror'[s][k] = mirror[s][k] /\ \E h \in 1 .. task[s].pos : Mirrors(s, mirror[s][k], h)
      BY <1>1, <1>10, <2>2 DEF Received, Entries
    <3>2. CASE k < m
      <4>1. k + 1 \in 1 .. m
        BY <1>1, <2>2, <3>2
      <4>2. mirror[s][k].got = mirror[s][k].size /\ mirror[s][k].id < mirror[s][k + 1].id
        BY <1>1, <2>2, <3>2 DEF Received, Entries
      <4>3. QED
        BY <1>10, <3>1, <4>1, <4>2
    <3>3. CASE k = m
      <4>1. r > 0
        <5>1. r = 0 => m = 0
          BY <1>1 DEF Received, ReadTo
        <5>2. QED
          BY <1>1, <2>2, <5>1
      <4>2. /\ mirror[s][m].id = Units[s][f[r]].id /\ mirror[s][m].size = Units[s][f[r]].size
            /\ mirror[s][m].got = Units[s][f[r]].chunk
        BY <1>1, <4>1 DEF Received, ReadTo
      <4>3. mirror'[s][k + 1].id = Units[s][i].id
        BY <1>9, <1>10, <3>3
      <4>4. QED
        BY <1>5, <1>6, <3>1, <3>3, <4>1, <4>2, <4>3
    <3>4. k < m \/ k = m
      BY <2>2
    <3>5. QED
      BY <3>2, <3>3, <3>4
  <2>3. QED
    BY <1>11, <2>1, <2>2
<1>14. AllRead(s, f)'
  <2> SUFFICES ASSUME NEW j \in 1 .. (r + 1), Units[s][f[j]].chunk = 0
               PROVE  \E k \in 1 .. (m + 1) :
                        mirror'[s][k].id = Units[s][f[j]].id /\ mirror'[s][k].size = Units[s][f[j]].size
    BY <1>1, <1>10 DEF AllRead
  <2>1. CASE j = r + 1
    BY <1>2, <1>9, <1>10, <1>11, <2>1
  <2>2. CASE j # r + 1
    <3>1. j \in 1 .. rx[s].pos
      BY <1>1, <2>2
    <3>2. PICK k \in 1 .. m : mirror[s][k].id = Units[s][f[j]].id /\ mirror[s][k].size = Units[s][f[j]].size
      BY <1>1, <3>1 DEF Received, AllRead
    <3>3. QED
      BY <1>10, <1>11, <3>2
  <2>3. QED
    BY <2>1, <2>2
<1>15. rx'[s].st # "over"
  BY <1>0
<1>16. QED
  BY <1>12, <1>13, <1>14, <1>15 DEF Received

\* A chunk of the payload is read.
LEMMA ChunkRead ==
  ASSUME PlaneAssumption, ForwarderTypes, IngressTypes, NEW s \in Streams, NEW f \in Seq(Nat),
         Carried(s, f), Received(s, f), UNCHANGED forwarderVars, RecvChunk(s)
  PROVE  Received(s, f)'
<1>1. /\ rx'[s].pos = rx[s].pos + 1 /\ rx'[s].left = rx[s].left - 1 /\ rx'[s].prev = rx[s].prev
      /\ rx'[s].st = rx[s].st /\ rx[s].st = "reading" /\ rx[s].left > 0 /\ rx[s].pos < Len(f)
  <2>1. rx \in [Streams -> Rx]
    BY DEF IngressTypes
  <2>2. QED
    BY <2>1 DEF RecvChunk, Carried, Rx
<1>2. PICK r \in Nat, m \in Nat : r = rx[s].pos /\ m = Len(mirror[s]) /\ rx'[s].pos = r + 1 /\ r < Len(f)
  BY <1>1, MirrorTyped
<1>3. r > 0 /\ rx[s].prev = Units[s][f[r]].id /\ rx[s].left = Units[s][f[r]].size - Units[s][f[r]].chunk
  <2>1. r = 0 => rx[s].left = 0
    BY <1>2 DEF Received, ReadTo
  <2>2. r > 0
    BY <1>1, <1>2, <2>1
  <2>3. QED
    BY <1>2, <2>2 DEF Received, ReadTo
<1>4. PICK j \in 1 .. cut[s] : /\ j = f[r] /\ Units[s][j].size \in Nat /\ Units[s][j].chunk \in Nat
                               /\ Units[s][j].chunk < Units[s][j].size
  <2>1. f[r] \in 1 .. cut[s]
    BY <1>2, <1>3, NextFrame
  <2>2. Units[s][f[r]].size \in Nat /\ Units[s][f[r]].chunk \in Nat
    BY <2>1, UnitsTyped
  <2>3. Units[s][f[r]].chunk < Units[s][f[r]].size
    BY <1>1, <1>3, <2>2
  <2>4. QED
    BY <2>1, <2>2, <2>3
<1>5. PICK i \in 1 .. cut[s] : i = j + 1 /\ i = f[r + 1] /\ i \in 1 .. task[s].pos /\ r + 1 \in 1 .. Len(f)
  <2>1. r + 1 \in 1 .. Len(f) /\ f[r + 1] \in 1 .. task[s].pos /\ f[r + 1] \in 1 .. cut[s]
    BY <1>2, NextFrame
  <2>2. f[r + 1] = f[r] + 1
    BY <1>2, <1>3, <1>4, NextFrame
  <2>3. QED
    BY <1>4, <2>1, <2>2
<1>6. /\ Units[s] \in Seq(Unit) /\ SubgroupUnits(Units[s]) /\ task[s].pos \in Nat
      /\ i \in 1 .. Len(Units[s]) /\ j \in 1 .. Len(Units[s]) /\ j + 1 \in 1 .. Len(Units[s])
  <2>1. \A x \in 1 .. cut[s] : x \in 1 .. Len(Units[s])
    BY UnitsTyped
  <2>2. QED
    BY <1>5, <2>1, UnitsTyped
<1>7. Units[s][i].id = Units[s][j].id /\ Units[s][i].size = Units[s][j].size /\ Units[s][i].chunk = Units[s][j].chunk + 1
  BY <1>4, <1>5, <1>6, UnitAfter
<1>8. Allowed(s, i) /\ (\A x : Allowed(s, x)' <=> Allowed(s, x)) /\ task' = task
  <2>1. UNCHANGED sourceVars /\ task' = task
    BY DEF forwarderVars, sourceVars
  <2>2. QED
    BY <1>5, <2>1, AllowedStays DEF Carried
<1>9. /\ m > 0 /\ m \in 1 .. m /\ mirror[s][m].id = Units[s][j].id /\ mirror[s][m].size = Units[s][j].size
      /\ mirror[s][m].got = Units[s][j].chunk
  BY <1>2, <1>3, <1>4 DEF Received, ReadTo
<1>10. PICK e : e = [mirror[s][m] EXCEPT !.got = mirror[s][m].got + 1] /\ mirror'[s] = [mirror[s] EXCEPT ![m] = e]
  <2>1. mirror \in [Streams -> Seq(MirrorEntry)]
    BY DEF IngressTypes
  <2>2. QED
    BY <1>2, <2>1 DEF RecvChunk
<1>11. e.id = Units[s][i].id /\ e.size = Units[s][i].size /\ e.got = Units[s][i].chunk
  <2>1. mirror[s][m] \in MirrorEntry
    BY <1>2, <1>9, MirrorTyped, ElementOfSeq
  <2>2. QED
    BY <1>7, <1>9, <1>10, <2>1 DEF MirrorEntry
<1>12. /\ Len(mirror'[s]) = m /\ mirror'[s][m] = e /\ \A k \in 1 .. m : k # m => mirror'[s][k] = mirror[s][k]
  <2>1. mirror[s] \in Seq(MirrorEntry)
    BY MirrorTyped
  <2>2. DOMAIN mirror[s] = 1 .. m /\ mirror[s] \in [1 .. m -> MirrorEntry]
    BY <1>2, <2>1, LenProperties
  <2>3. DOMAIN mirror'[s] = 1 .. m /\ mirror'[s][m] = e /\ \A k \in 1 .. m : k # m => mirror'[s][k] = mirror[s][k]
    BY <1>9, <1>10, <2>2
  <2>4. mirror'[s] \in Seq({mirror'[s][k] : k \in 1 .. m})
    <3>1. mirror'[s] = [k \in 1 .. m |-> mirror'[s][k]]
      BY <1>10, <2>2, <2>3
    <3>2. \A k \in 1 .. m : mirror'[s][k] \in {mirror'[s][x] : x \in 1 .. m}
      OBVIOUS
    <3>3. [k \in 1 .. m |-> mirror'[s][k]] \in Seq({mirror'[s][k] : k \in 1 .. m})
      BY <3>2, IsASeq
    <3>4. QED
      BY <3>1, <3>3
  <2>5. Len(mirror'[s]) \in Nat /\ 1 .. Len(mirror'[s]) = 1 .. m
    BY <2>3, <2>4, LenProperties
  <2>6. QED
    BY <2>3, <2>5
<1>13. \A k \in 1 .. m : mirror'[s][k].id = mirror[s][k].id /\ mirror'[s][k].size = mirror[s][k].size
  BY <1>7, <1>9, <1>11, <1>12
<1>14. ReadTo(s, f)'
  <2>1. r + 1 <= Len(f)
    BY <1>5
  <2>2. r + 1 # 0 /\ r + 1 > 0
    OBVIOUS
  <2>3. rx'[s].left = Units[s][i].size - Units[s][i].chunk
    BY <1>1, <1>3, <1>4, <1>7
  <2>4. rx'[s].prev = Units[s][i].id
    BY <1>1, <1>3, <1>4, <1>7
  <2>5. QED
    BY <1>2, <1>5, <1>9, <1>11, <1>12, <2>1, <2>2, <2>3, <2>4 DEF ReadTo
<1>15. Entries(s)'
  <2> SUFFICES ASSUME NEW k \in 1 .. m
               PROVE  /\ \E h \in 1 .. task[s].pos : Mirrors(s, mirror'[s][k], h)
                      /\ k < m => /\ mirror'[s][k].got = mirror'[s][k].size
                                  /\ mirror'[s][k].id < mirror'[s][k + 1].id
    BY <1>8, <1>12 DEF Entries, Mirrors
  <2>1. CASE k = m
    <3>1. PICK c \in Nat : c = Units[s][i].chunk /\ c < i
      <4>1. Units[s][i].chunk \in Nat
        BY <1>4, <1>7
      <4>2. Units[s][i].chunk < i
        BY <1>6 DEF SubgroupUnits
      <4>3. QED
        BY <4>1, <4>2
    <3>2. i - c \in 1 .. task[s].pos /\ (i - c) + c <= task[s].pos
      <4>1. i \in Nat /\ task[s].pos \in Nat /\ i <= task[s].pos /\ c \in Nat /\ c < i
        BY <1>5, <1>6, <3>1
      <4>2. ASSUME NEW a \in Nat, NEW b \in Nat, NEW n \in Nat, n < a, a <= b
            PROVE  a - n \in 1 .. b /\ (a - n) + n <= b
        BY <4>2
      <4>3. QED
        BY <4>1, <4>2
    <3>3. Units[s][i - c].chunk = 0 /\ Units[s][i - c].id = Units[s][i].id /\ Units[s][i - c].size = Units[s][i].size
      BY <1>6, <3>1 DEF SubgroupUnits
    <3>4. Allowed(s, i - c)
      BY <1>8, <3>3, AllowedAlike
    <3>5. Mirrors(s, e, i - c)
      BY <1>11, <3>1, <3>2, <3>3, <3>4 DEF Mirrors
    <3>6. QED
      BY <1>12, <2>1, <3>2, <3>5
  <2>2. CASE k # m
    <3>1. k < m /\ k + 1 \in 1 .. m
      BY <2>2
    <3>2. /\ \E h \in 1 .. task[s].pos : Mirrors(s, mirror[s][k], h)
          /\ mirror[s][k].got = mirror[s][k].size /\ mirror[s][k].id < mirror[s][k + 1].id
      BY <1>2, <3>1 DEF Received, Entries
    <3>3. mirror'[s][k] = mirror[s][k] /\ mirror'[s][k + 1].id = mirror[s][k + 1].id
      BY <1>12, <1>13, <2>2, <3>1
    <3>4. QED
      BY <3>2, <3>3
  <2>3. QED
    BY <2>1, <2>2
<1>16. AllRead(s, f)'
  <2> SUFFICES ASSUME NEW x \in 1 .. (r + 1), Units[s][f[x]].chunk = 0
               PROVE  \E k \in 1 .. m :
                        mirror'[s][k].id = Units[s][f[x]].id /\ mirror'[s][k].size = Units[s][f[x]].size
    BY <1>2, <1>12 DEF AllRead
  <2>1. x # r + 1
    <3>1. Units[s][i].chunk # 0
      BY <1>4, <1>7
    <3>2. QED
      BY <1>5, <3>1
  <2>2. x \in 1 .. rx[s].pos
    BY <1>2, <2>1
  <2>3. PICK k \in 1 .. m : mirror[s][k].id = Units[s][f[x]].id /\ mirror[s][k].size = Units[s][f[x]].size
    BY <1>2, <2>2 DEF Received, AllRead
  <2>4. QED
    BY <1>13, <2>3
<1>17. QED
  BY <1>1, <1>14, <1>15, <1>16 DEF Received

\* The reader moves.
LEMMA ReadingStep ==
  ASSUME PlaneAssumption, ForwarderTypes, IngressTypes, MirrorInv, (IngressNext \/ UNCHANGED ingressVars),
         UNCHANGED forwarderVars
  PROVE  MirrorInv'
<1> USE DEF entryVars, streamVars, datagramVars
<1>0. /\ rx \in [Streams -> Rx] /\ mirror \in [Streams -> Seq(MirrorEntry)]
      /\ UNCHANGED <<sourceVars, task, wire, unsubscribed, phase, filter, taken, streamCount,
                     control>>
  BY DEF IngressTypes, forwarderVars, sourceVars
<1>1. ServingInv'
  BY <1>0 DEF MirrorInv, ServingInv, sourceVars
<1>2. ASSUME NEW s \in Streams, rx'[s] = rx[s], mirror'[s] = mirror[s] PROVE StreamInv(s)'
  BY <1>0, <1>2, StreamUntouched DEF MirrorInv
<1>3. ASSUME NEW s \in Streams,
             \A f \in Seq(Nat) : Carried(s, f) /\ Received(s, f) => Received(s, f)'
      PROVE  StreamInv(s)'
  <2>1. PICK f \in Seq(Nat) : Carried(s, f) /\ Received(s, f)
    BY DEF MirrorInv, StreamInv
  <2>2. \A i : Allowed(s, i)' <=> Allowed(s, i)
    BY <1>0, AllowedStays
  <2>3. Carried(s, f)'
    BY <1>0, <2>1, <2>2 DEF Carried
  <2>4. TaskInv(s)'
    <3>1. TaskInv(s)
      BY DEF MirrorInv, StreamInv
    <3>2. QED
      BY <1>0, <2>2, <3>1 DEF TaskInv, More, Here, sourceVars
  <2>5. QED
    BY <1>3, <2>1, <2>3, <2>4 DEF StreamInv
<1>4. ASSUME NEW s \in Streams, NEW st \in {"none", "waiting", "reading", "over", "failed"},
             rx' = [rx EXCEPT ![s].st = st], mirror' = mirror,
             st = "over" => wire[s].fin /\ rx[s].pos = Len(wire[s].frames) /\ rx[s].left = 0
      PROVE  MirrorInv'
  <2>1. /\ rx'[s].st = st /\ rx'[s].pos = rx[s].pos /\ rx'[s].prev = rx[s].prev /\ rx'[s].left = rx[s].left
        /\ \A t \in Streams \ {s} : rx'[t] = rx[t]
    BY <1>0, <1>4, RxSet
  <2>2. ASSUME NEW f \in Seq(Nat), Carried(s, f), Received(s, f) PROVE Received(s, f)'
    <3>1. \A i : Allowed(s, i)' <=> Allowed(s, i)
      BY <1>0, AllowedStays
    <3>2. ReadTo(s, f)'
      BY <1>4, <2>1, <2>2 DEF Received, ReadTo
    <3>3. Entries(s)'
      BY <1>0, <1>4, <2>2, <3>1 DEF Received, Entries, Mirrors
    <3>4. AllRead(s, f)'
      BY <1>4, <2>1, <2>2 DEF Received, AllRead
    <3>5. Len(f) = Len(wire[s].frames)
      BY <2>2 DEF Carried
    <3>6. QED
      BY <1>0, <1>4, <2>1, <3>2, <3>3, <3>4, <3>5 DEF Received
  <2>3. StreamInv(s)'
    BY <1>3, <2>2
  <2>4. \A t \in Streams \ {s} : StreamInv(t)'
    BY <1>2, <1>4, <2>1
  <2>5. QED
    BY <1>1, <2>3, <2>4 DEF MirrorInv
<1>5. CASE \/ RecvSubscribeOk \/ DropReaders \/ RecvPublishDone \/ DropSubscribe
           \/ DatagramTimeout \/ RouteDatagram \/ WriteDatagram
           \/ \E d \in inbox : RecvDatagram(d) \/ LoseDatagram(d)
           \/ \E s \in Streams : TakeSubgroup(s)
           \/ UNCHANGED ingressVars
  <2>1. rx' = rx /\ mirror' = mirror
    BY <1>5 DEF RecvSubscribeOk, DropReaders, RecvPublishDone, DropSubscribe, DatagramTimeout,
       RouteDatagram,
                WriteDatagram, RecvDatagram, LoseDatagram, TakeSubgroup, ingressVars
  <2>2. QED
    BY <1>1, <1>2, <2>1 DEF MirrorInv
<1>6. ASSUME NEW s \in Streams, AcceptStream(s) \/ ResolveAlias(s) \/ AliasTimeout(s) PROVE MirrorInv'
  BY <1>4, <1>6 DEF AcceptStream, ResolveAlias, AliasTimeout
<1>7. ASSUME NEW s \in Streams, EndOfStream(s) PROVE MirrorInv'
  <2>1. rx[s].left \in Nat
    BY MirrorTyped
  <2>2. CASE rx[s].left > 0
    <3>1. rx' = [rx EXCEPT ![s].st = "failed"] /\ mirror' = mirror
      BY <1>7, <2>2 DEF EndOfStream
    <3>2. QED
      BY <1>4, <3>1
  <2>3. CASE rx[s].left = 0
    <3>1. /\ rx' = [rx EXCEPT ![s].st = "over"] /\ mirror' = mirror
          /\ wire[s].fin /\ rx[s].pos = Len(wire[s].frames)
      BY <1>7, <2>3 DEF EndOfStream
    <3>2. QED
      BY <1>4, <2>3, <3>1
  <2>4. QED
    BY <2>1, <2>2, <2>3
<1>8. ASSUME NEW s \in Streams, AtObject(s), NEW kept, PutObject(s, kept), ~Held(s, kept) => rx' = [rx EXCEPT ![s].st = "failed"]
      PROVE MirrorInv'
  <2>1. CASE Held(s, kept)
    <3>1. (\A t \in Streams \ {s} : mirror'[t] = mirror[t]) /\ \A t \in Streams \ {s} : rx'[t] = rx[t]
      BY <1>8, <2>1, ObjectPut
    <3>2. StreamInv(s)'
      BY <1>3, <1>8, <2>1, HeaderRead
    <3>3. QED
      BY <1>1, <1>2, <3>1, <3>2 DEF MirrorInv
  <2>2. CASE ~Held(s, kept)
    BY <1>4, <1>8, <2>2 DEF PutObject
  <2>3. QED
    BY <2>1, <2>2
<1>9. ASSUME NEW s \in Streams, OpenSubgroup(s) PROVE MirrorInv'
  <2>1. CASE SubgroupErrors(s) # {}
    <3>1. rx' = [rx EXCEPT ![s].st = "failed"] /\ mirror' = mirror
      BY <1>9, <2>1 DEF OpenSubgroup, FailStream
    <3>2. QED
      BY <1>4, <3>1
  <2>2. CASE SubgroupErrors(s) = {}
    <3>1. /\ AtObject(s) /\ PutObject(s, retained')
          /\ ~Held(s, retained') => rx' = [rx EXCEPT ![s].st = "failed"]
      BY <1>9, <2>2 DEF OpenSubgroup, FailStream
    <3>2. QED
      BY <1>8, <3>1
  <2>3. QED
    BY <2>1, <2>2
<1>10. ASSUME NEW s \in Streams, RecvObject(s) PROVE MirrorInv'
  <2>1. AtObject(s) /\ PutObject(s, retained) /\ (~Held(s, retained) => rx' = [rx EXCEPT ![s].st = "failed"])
    BY <1>10 DEF RecvObject, FailStream
  <2>2. QED
    BY <1>8, <2>1
<1>11. ASSUME NEW s \in Streams, RecvChunk(s) PROVE MirrorInv'
  <2>1. \A t \in Streams \ {s} : rx'[t] = rx[t] /\ mirror'[t] = mirror[t]
    BY <1>0, <1>11 DEF RecvChunk
  <2>2. StreamInv(s)'
    BY <1>3, <1>11, ChunkRead
  <2>3. QED
    BY <1>1, <1>2, <2>1, <2>2 DEF MirrorInv
<1>12. QED
  BY <1>5, <1>6, <1>7, <1>9, <1>10, <1>11 DEF IngressNext

\* What MirrorFaithful says of one stream follows from its units.
LEMMA StreamFaithful ==
  ASSUME PlaneAssumption, ForwarderTypes, IngressTypes, NEW s \in Streams, StreamInv(s)
  PROVE  /\ \A i \in 1 .. Len(mirror[s]) :
              /\ \E o \in ObjectsWanted(s) :
                   /\ mirror[s][i].id = o.id /\ mirror[s][i].size = o.size
                   /\ mirror[s][i].got <= o.got
              /\ i < Len(mirror[s]) => /\ mirror[s][i].got = mirror[s][i].size
                                       /\ mirror[s][i].id < mirror[s][i + 1].id
         /\ rx[s].st = "over" /\ ~unsubscribed =>
              ObjectsWanted(s) = {mirror[s][i] : i \in 1 .. Len(mirror[s])}
         /\ task[s].st = "over" /\ ~wire[s].open /\ ~unsubscribed => ObjectsWanted(s) = {}
<1> DEFINE u == Units[s]
           n == cut[s]
           Arrived(h) == IF u[h].size <= n - h THEN u[h].size ELSE n - h
           Obj(h) == [id |-> u[h].id, size |-> u[h].size, got |-> Arrived(h)]
           H == {h \in 1 .. n : u[h].chunk = 0 /\ Allowed(s, h)}
<1>1. PICK f \in Seq(Nat) : Carried(s, f) /\ Received(s, f)
  BY DEF StreamInv
<1>2. /\ u \in Seq(Unit) /\ SubgroupUnits(u) /\ n \in Nat /\ n <= Len(u) /\ task[s].pos \in Nat /\ task[s].pos <= n
  BY UnitsTyped
<1>3. \A i \in 1 .. n : i \in 1 .. Len(u) /\ u[i].size \in Nat /\ u[i].chunk \in Nat
  BY UnitsTyped
<1>4. ObjectsWanted(s) = {Obj(h) : h \in H}
  <2>1. \A h \in H : Cardinality({j \in 1 .. n : u[j].id = u[h].id /\ u[j].chunk > 0}) = Arrived(h)
    BY <1>2, PayloadOf
  <2> HIDE DEF Arrived
  <2>2. ObjectsWanted(s) = {[id |-> u[h].id, size |-> u[h].size,
                             got |-> Cardinality({j \in 1 .. n : u[j].id = u[h].id /\ u[j].chunk > 0})] : h \in H}
    BY DEF ObjectsWanted, Allowed
  <2>3. QED
    BY <2>1, <2>2
<1>5. /\ \A k \in 1 .. Len(mirror[s]) : /\ mirror[s][k] \in MirrorEntry
                                        /\ mirror[s][k].id \in Int /\ mirror[s][k].size \in Nat /\ mirror[s][k].got \in Nat
      /\ rx[s].pos \in Nat /\ Len(mirror[s]) \in Nat /\ mirror[s] \in Seq(MirrorEntry)
  <2>1. mirror[s] \in Seq(MirrorEntry)
    BY MirrorTyped
  <2>2. \A k \in 1 .. Len(mirror[s]) : mirror[s][k] \in MirrorEntry
    BY <2>1, ElementOfSeq
  <2>3. QED
    BY <2>1, <2>2, MirrorTyped
<1>6. \A i \in 1 .. Len(u) : u[i].chunk <= u[i].size
  BY <1>2 DEF SubgroupUnits
<1>7. /\ Len(f) \in Nat /\ rx[s].pos <= Len(f)
      /\ \A k \in 1 .. Len(f) : f[k] \in 1 .. task[s].pos
      /\ \A k \in 1 .. Len(f) : Allowed(s, f[k])
      /\ \A i \in 1 .. task[s].pos : Allowed(s, i) => \E k \in 1 .. Len(f) : f[k] = i
  BY <1>1 DEF Carried, Received, ReadTo
<1>8. \A k \in 1 .. Len(mirror[s]) : mirror[s][k].got <= mirror[s][k].size
  <2>1. ASSUME NEW k \in 1 .. Len(mirror[s]), k < Len(mirror[s]) PROVE mirror[s][k].got <= mirror[s][k].size
    <3>1. mirror[s][k].got = mirror[s][k].size
      BY <1>1, <2>1 DEF Received, Entries
    <3>2. QED
      BY <1>5, <3>1
  <2>2. ASSUME Len(mirror[s]) > 0 PROVE mirror[s][Len(mirror[s])].got <= mirror[s][Len(mirror[s])].size
    <3>1. rx[s].pos # 0
      <4>1. rx[s].pos = 0 => mirror[s] = <<>>
        BY <1>1 DEF Received, ReadTo
      <4>2. QED
        BY <2>2, <4>1
    <3>2. rx[s].pos > 0 /\ rx[s].pos \in 1 .. Len(f)
      BY <1>5, <1>7, <3>1
    <3>3. /\ mirror[s][Len(mirror[s])].size = u[f[rx[s].pos]].size
          /\ mirror[s][Len(mirror[s])].got = u[f[rx[s].pos]].chunk
      BY <1>1, <3>2 DEF Received, ReadTo
    <3>4. f[rx[s].pos] \in 1 .. Len(u)
      <4>1. f[rx[s].pos] \in 1 .. task[s].pos
        BY <1>7, <3>2
      <4>2. \A i \in 1 .. task[s].pos : i \in 1 .. Len(u)
        BY <1>2, UnitsTyped
      <4>3. QED
        BY <4>1, <4>2
    <3>5. QED
      BY <1>6, <3>3, <3>4
  <2>3. QED
    BY <1>5, <2>1, <2>2
<1>9. ASSUME NEW k \in 1 .. Len(mirror[s])
      PROVE  \E h \in H : /\ mirror[s][k].id = u[h].id /\ mirror[s][k].size = u[h].size
                          /\ mirror[s][k].got <= Arrived(h) /\ h + mirror[s][k].got <= task[s].pos
  <2>1. PICK h \in 1 .. task[s].pos : Mirrors(s, mirror[s][k], h)
    BY <1>1 DEF Received, Entries
  <2>2. /\ u[h].chunk = 0 /\ Allowed(s, h) /\ h + mirror[s][k].got <= task[s].pos
        /\ mirror[s][k].id = u[h].id /\ mirror[s][k].size = u[h].size
    BY <2>1 DEF Mirrors
  <2>3. h \in 1 .. n
    BY <1>2
  <2>4. mirror[s][k].got <= Arrived(h)
    <3>1. /\ mirror[s][k].got \in Nat /\ u[h].size \in Nat /\ mirror[s][k].got <= u[h].size
          /\ n \in Nat /\ task[s].pos \in Nat /\ task[s].pos <= n /\ h \in Nat /\ h + mirror[s][k].got <= task[s].pos
      BY <1>2, <1>3, <1>5, <1>8, <2>2, <2>3
    <3> HIDE DEF u, n
    <3>2. mirror[s][k].got <= n - h
      BY <3>1
    <3>3. QED
      BY <3>1, <3>2
  <2>5. h \in H
    BY <2>2, <2>3
  <2> HIDE DEF H, Arrived
  <2>6. QED
    BY <2>2, <2>4, <2>5
<1>10. \A i \in 1 .. Len(mirror[s]) :
         i < Len(mirror[s]) => mirror[s][i].got = mirror[s][i].size /\ mirror[s][i].id < mirror[s][i + 1].id
  BY <1>1 DEF Received, Entries
<1>11. \A h \in H : h \in 1 .. Len(u) /\ u[h].size \in Nat /\ u[h].chunk = 0 /\ h \in 1 .. n /\ Allowed(s, h)
  BY <1>3
<1>12. ASSUME rx[s].st = "over", ~unsubscribed
       PROVE  ObjectsWanted(s) = {mirror[s][i] : i \in 1 .. Len(mirror[s])}
  <2>1. wire[s].fin /\ rx[s].pos = Len(f) /\ rx[s].left = 0
    BY <1>1, <1>12 DEF Received
  <2>2. task[s].pos = n
    BY <1>12, <2>1 DEF StreamInv, TaskInv
  <2>3. \A k \in 1 .. Len(mirror[s]) : mirror[s][k].got = mirror[s][k].size
    <3>1. ASSUME Len(mirror[s]) > 0 PROVE mirror[s][Len(mirror[s])].got = mirror[s][Len(mirror[s])].size
      <4>1. rx[s].pos # 0
        <5>1. rx[s].pos = 0 => mirror[s] = <<>>
          BY <1>1 DEF Received, ReadTo
        <5>2. QED
          BY <3>1, <5>1
      <4>2. rx[s].pos > 0 /\ rx[s].pos \in 1 .. Len(f)
        BY <1>5, <1>7, <4>1
      <4>3. /\ mirror[s][Len(mirror[s])].size = u[f[rx[s].pos]].size
            /\ mirror[s][Len(mirror[s])].got = u[f[rx[s].pos]].chunk
            /\ rx[s].left = u[f[rx[s].pos]].size - u[f[rx[s].pos]].chunk
        BY <1>1, <4>2 DEF Received, ReadTo
      <4>4. f[rx[s].pos] \in 1 .. n
        BY <1>7, <2>2, <4>2
      <4>5. u[f[rx[s].pos]].size \in Nat /\ u[f[rx[s].pos]].chunk \in Nat
        BY <1>3, <4>4
      <4>6. QED
        BY <2>1, <4>3, <4>5
    <3>2. QED
      BY <1>5, <1>10, <3>1
  <2>4. ASSUME NEW k \in 1 .. Len(mirror[s]) PROVE mirror[s][k] \in ObjectsWanted(s)
    <3>1. PICK h \in H : /\ mirror[s][k].id = u[h].id /\ mirror[s][k].size = u[h].size
                         /\ mirror[s][k].got <= Arrived(h)
      BY <1>9
    <3>2. u[h].size \in Nat /\ h \in 1 .. n
      BY <1>11
    <3>3. mirror[s][k].got = Arrived(h)
      BY <1>2, <1>5, <2>3, <3>1, <3>2
    <3>4. mirror[s][k] = [id |-> u[h].id, size |-> u[h].size, got |-> Arrived(h)]
      <4>1. mirror[s][k] \in MirrorEntry
        BY <1>5
      <4> HIDE DEF H, Arrived, u
      <4>2. QED
        BY <3>1, <3>3, <4>1 DEF MirrorEntry
    <3> HIDE DEF H, Arrived
    <3>5. QED
      BY <1>4, <3>4
  <2>5. ASSUME NEW h \in H PROVE \E k \in 1 .. Len(mirror[s]) : mirror[s][k] = Obj(h)
    <3>1. /\ h \in 1 .. task[s].pos /\ Allowed(s, h) /\ u[h].chunk = 0 /\ h \in 1 .. Len(u) /\ u[h].size \in Nat
      BY <1>11, <2>2
    <3>2. PICK j \in 1 .. Len(f) : f[j] = h
      BY <1>7, <3>1
    <3>3. PICK k \in 1 .. Len(mirror[s]) : mirror[s][k].id = u[h].id /\ mirror[s][k].size = u[h].size
      BY <1>1, <2>1, <3>1, <3>2 DEF Received, AllRead
    <3>4. PICK g \in H : mirror[s][k].id = u[g].id /\ mirror[s][k].got <= Arrived(g)
      BY <1>9
    <3>5. g = h
      <4>1. g \in 1 .. Len(u) /\ u[g].chunk = 0 /\ u[g].id = u[h].id
        BY <1>11, <3>3, <3>4
      <4>2. /\ g < h => u[g].id < u[h].id
            /\ h < g => u[h].id < u[g].id
        BY <1>2, <3>1, <4>1, ObjectUnits
      <4>3. u[g].id \in Int /\ g \in Int /\ h \in Int
        BY SMTT(30), <1>5, <3>1, <3>4, <4>1
      <4>4. QED
        BY <4>1, <4>2, <4>3
    <3>6. mirror[s][k].got = Arrived(h)
      BY <1>2, <1>5, <2>3, <3>1, <3>3, <3>4, <3>5
    <3>7. mirror[s][k] \in MirrorEntry
      BY <1>5
    <3> HIDE DEF H, Arrived, u
    <3>8. QED
      BY <3>3, <3>6, <3>7 DEF MirrorEntry
  <2> HIDE DEF H, Arrived, u
  <2>6. QED
    BY <1>4, <2>4, <2>5
<1>13. ASSUME task[s].st = "over", ~wire[s].open, ~unsubscribed PROVE ObjectsWanted(s) = {}
  <2>1. task[s].pos = n /\ wire[s].frames = <<>>
    BY <1>13 DEF StreamInv, TaskInv
  <2>2. Len(f) = 0
    BY <1>1, <2>1 DEF Carried
  <2>3. H = {}
    BY <1>7, <2>1, <2>2
  <2> HIDE DEF H
  <2>4. QED
    BY <1>4, <2>3
<1>14. \A k \in 1 .. Len(mirror[s]) :
         \E o \in ObjectsWanted(s) :
           mirror[s][k].id = o.id /\ mirror[s][k].size = o.size /\ mirror[s][k].got <= o.got
  <2> TAKE k \in 1 .. Len(mirror[s])
  <2>1. PICK h \in H : mirror[s][k].id = u[h].id /\ mirror[s][k].size = u[h].size /\ mirror[s][k].got <= Arrived(h)
    BY <1>9
  <2> HIDE DEF H, Arrived, u
  <2>2. Obj(h) \in ObjectsWanted(s) /\ Obj(h).id = u[h].id /\ Obj(h).size = u[h].size /\ Obj(h).got = Arrived(h)
    BY <1>4
  <2> HIDE DEF Obj
  <2>3. QED
    BY <2>1, <2>2
<1>15. QED
  BY <1>10, <1>12, <1>13, <1>14

\* The mirror is what the track has and the filter allows.
LEMMA MirrorIsFaithful ==
  ASSUME PlaneAssumption, ForwarderTypes, IngressTypes, MirrorInv PROVE MirrorFaithful
<1>1. \A i \in 1 .. Len(control) : control[i].type = "PublishDone" =>
        control[i].streams = Cardinality({s \in Streams : wire[s].open})
  BY DEF MirrorInv, ServingInv
<1>2. \A s \in Streams : StreamInv(s)
  BY DEF MirrorInv
<1>3. QED
  BY <1>1, <1>2, StreamFaithful DEF MirrorFaithful

\* The inductive invariant of the data plane.
PlaneInv == ForwarderTypes /\ IngressTypes /\ RoutingInv /\ MirrorInv

\* It holds of a new subscription ...
LEMMA PlaneStart == ASSUME PlaneAssumption, DataInit PROVE PlaneInv
  BY PlaneTypesStart, RoutingStart, MirrorStart DEF PlaneInv

\* ... and every step of either end keeps it.
LEMMA PlaneStep ==
  ASSUME PlaneAssumption, PlaneInv, (DataNext \/ UNCHANGED planeVars) PROVE PlaneInv'
<1> USE DEF PlaneInv
<1>1. CASE (ForwarderNext \/ RecvUnsubscribe) /\ UNCHANGED ingressVars
  <2>1. ForwarderTypes' /\ IngressTypes' /\ MirrorInv'
    BY <1>1, ForwarderTypesStep, IngressTypesStep, SendingStep
  <2>2. UNCHANGED sourceVars /\ \A s \in Streams : wire[s].open => wire'[s].open
    BY <1>1, OpenStays
  <2>3. RoutingInv'
    BY <1>1, <2>2, RoutingKept
  <2>4. QED
    BY <2>1, <2>3
<1>2. CASE IngressNext /\ UNCHANGED forwarderVars
  BY <1>2, ForwarderTypesStep, IngressTypesStep, ReadingStep, RoutingStep
<1>3. CASE UNCHANGED planeVars
  <2>1. UNCHANGED forwarderVars /\ UNCHANGED ingressVars
    BY <1>3 DEF planeVars
  <2>2. UNCHANGED sourceVars /\ \A s \in Streams : wire[s].open => wire'[s].open
    BY <2>1 DEF forwarderVars, sourceVars
  <2>3. QED
    BY <2>1, <2>2, ForwarderTypesStep, IngressTypesStep, ReadingStep, RoutingKept
<1>4. QED
  BY <1>1, <1>2, <1>3 DEF DataNext, UnsubscribeArrives

\* The plane begins in one of its initial states whichever component runs.
LEMMA LayerPlaneStart == ASSUME DataAssumption, DataLayerInit PROVE DataInit
<1>1. Cases # {}
  BY DEF DataAssumption
<1>2. QED
  BY <1>1 DEF DataLayerInit, DataInit

\* The plane takes its own steps or none.
LEMMA LayerPlaneStep ==
  ASSUME DataLayerNext \/ UNCHANGED dataVars PROVE DataNext \/ UNCHANGED planeVars
  BY DEF DataLayerNext, DataRuns, dataVars

(* Both ends of a subscription keep their types, every stream carries the    *)
(* units of its subgroup that the filter allows, in order, and the mirror    *)
(* has what was read of them, for every track, filter and history window     *)
(* (session/subscribed.rs, session/subscriber/ingress.rs).                   *)
THEOREM PlaneIsSound == DataSpec => []PlaneInv
<1>1. PlaneAssumption
  BY DataAssumption DEF PlaneAssumption
<1>2. DataLayerInit => PlaneInv
  BY <1>1, DataAssumption, LayerPlaneStart, PlaneStart
<1>3. PlaneInv /\ [DataLayerNext]_dataVars => PlaneInv'
  BY <1>1, LayerPlaneStep, PlaneStep
<1>4. QED
  BY <1>2, <1>3, PTL DEF DataSpec

(* What a subscriber's mirror holds is what the track has and the filter     *)
(* allows, object by object; a stream read to its end leaves nothing out and *)
(* PUBLISH_DONE counts the streams, for every track, filter, cut and order   *)
(* of the steps of the two ends (session/subscribed.rs serve_subgroup,       *)
(* session/subscriber/ingress.rs recv_subgroup_objects).                     *)
THEOREM MirrorAlwaysFaithful == DataSpec => []MirrorFaithful
<1>1. PlaneInv => MirrorFaithful
  BY DataAssumption, MirrorIsFaithful DEF PlaneInv, PlaneAssumption
<1>2. QED
  BY <1>1, PlaneIsSound, PTL

(* One stream ends a subscription only for the reasons SubscriptionSound     *)
(* lists, a live entry has its writer, and no late datagram ends the session,*)
(* for every number of streams and every window                              *)
(* (session/subscriber/ingress.rs recv_stream, recv_datagram).               *)
THEOREM SubscriptionAlwaysSound == DataSpec => []SubscriptionSound
<1>1. PlaneInv => SubscriptionSound
  BY DEF PlaneInv, RoutingInv
<1>2. QED
  BY <1>1, PlaneIsSound, PTL

-----------------------------------------------------------------------------
(* Requests to discover namespaces                                       *)

\* What the stream back carries.
NameMsg == [type : {"Namespace", "NamespaceDone"}, suffix : Suffixes]
Response == [type : {"RequestOk", "RequestError"}, suffix : {"none"}]
StreamMsg == NameMsg \cup Response

\* The messages on their way to the side that asks.
Pipe(r) == down[r].msgs \o nss[r].queue

\* No NAMESPACE_DONE comes without its NAMESPACE.
InOrder(names, msgs) ==
  \A i \in 1 .. Len(msgs) : msgs[i].type = "NamespaceDone" =>
    \/ msgs[i].suffix \in names /\ \A j \in 1 .. (i - 1) : msgs[j].suffix # msgs[i].suffix
    \/ \E j \in 1 .. (i - 1) : /\ msgs[j].suffix = msgs[i].suffix /\ msgs[j].type = "Namespace"
                               /\ \A k \in (j + 1) .. (i - 1) : msgs[k].suffix # msgs[i].suffix

\* The first message is the response, and the only one.
RespondsFirst(responded, msgs) ==
  \A i \in 1 .. Len(msgs) : IF ~responded /\ i = 1 THEN msgs[i] \in Response ELSE msgs[i] \in NameMsg

AskState == [st : {"idle", "opening", "running", "ended"}, responded : BOOLEAN, ok : BOOLEAN,
             known : SUBSET Suffixes, events : Seq(NameMsg), closed : BOOLEAN]
AnswerState == [st : {"none", "running", "draining", "ended"}, responded : BOOLEAN, closed : BOOLEAN,
                names : SUBSET Suffixes, queue : Seq(StreamMsg)]
BackStream == [msgs : Seq(StreamMsg), end : {"no", "fin"}, stopped : BOOLEAN]

NamespaceTypes ==
  /\ nsr \in [Requests -> AskState]
  /\ handle \in [Requests -> {"none", "held", "finished", "reset", "dropped"}]
  /\ prefixes \subseteq Requests /\ activePrefixes \subseteq Requests
  /\ up \in [Requests -> {"none", "open", "fin", "reset"}]
  /\ down \in [Requests -> BackStream]
  /\ nss \in [Requests -> AnswerState]
  /\ app \in [Requests -> {"none", "queued", "held", "dropped", "refused"}]
  /\ applied \in [Requests -> SUBSET Suffixes]
  /\ failure \in {"no", "ProtocolViolation", "DecodeError", "ReadError", "HeaderTimeout"}

RequestInv(r) ==
  /\ Len(nss[r].queue) <= QueueCapacity
  /\ nsr[r].st \in {"idle", "opening"} => up[r] = "none" /\ ~nsr[r].responded /\ nsr[r].known = {}
  /\ nsr[r].st = "idle" => handle[r] = "none"
  /\ nsr[r].st = "opening" => handle[r] \in {"none", "dropped"}
  /\ nsr[r].st = "running" => handle[r] # "none"
  /\ up[r] = "none" => nss[r].st = "none" /\ nsr[r].st \in {"idle", "opening"}
  /\ nss[r].st = "none" => down[r].msgs = <<>> /\ nss[r].queue = <<>> /\ app[r] = "none" /\ down[r].end = "no"
  /\ app[r] \in {"none", "queued"} =>
       down[r].msgs = <<>> /\ nss[r].queue = <<>> /\ ~nsr[r].responded /\ nss[r].names = {} /\ nsr[r].known = {}
  /\ app[r] = "none" => nss[r].st = "none"
  /\ down[r].end = "fin" => nss[r].st = "ended"
  /\ nsr[r].st = "ended" => r \notin prefixes
  /\ After(applied[r], nsr[r].events) = nsr[r].known
  /\ app[r] = "held" /\ ~nss[r].closed => nss[r].st = "running"
  /\ nsr[r].st # "ended" =>
       /\ RespondsFirst(nsr[r].responded, Pipe(r)) /\ InOrder(nsr[r].known, Pipe(r))
       /\ app[r] = "held" /\ nss[r].st # "ended" /\ ~nsr[r].responded => Pipe(r) # <<>>
       /\ app[r] = "held" /\ ~nss[r].closed => After(nsr[r].known, Pipe(r)) = nss[r].names

ActiveInv ==
  /\ \A q, r \in activePrefixes : q = r
  /\ activePrefixes = {r \in Requests : nss[r].st \in {"running", "draining"} /\ app[r] # "refused"}

NamespacesInv ==
  NamespaceTypes /\ failure # "ProtocolViolation" /\ ActiveInv /\ \A r \in Requests : RequestInv(r)

-----------------------------------------------------------------------------
\* Sequences of messages: what is put at the end, and what is taken from the front.
LEMMA PipeMoves ==
  ASSUME NEW T, NEW a \in Seq(T), NEW b \in Seq(T)
  PROVE  /\ a \o b \in Seq(T) /\ a \o <<>> = a /\ <<>> \o b = b
         /\ Len(a \o b) = Len(a) + Len(b) /\ Len(a) \in Nat /\ Len(b) \in Nat
         /\ \A i \in 1 .. Len(a) : (a \o b)[i] = a[i]
         /\ \A m \in T : a \o Append(b, m) = Append(a \o b, m)
         /\ b # <<>> => Append(a, Head(b)) \o Tail(b) = a \o b
         /\ a # <<>> => /\ Head(a \o b) = Head(a) /\ Tail(a \o b) = Tail(a) \o b /\ a \o b # <<>>
                        /\ Head(a) \in T /\ Tail(a) \in Seq(T)
<1>1. /\ a \o b \in Seq(T) /\ Len(a \o b) = Len(a) + Len(b) /\ Len(a) \in Nat /\ Len(b) \in Nat
      /\ \A i \in 1 .. Len(a) : (a \o b)[i] = a[i]
      /\ \A i \in (Len(a) + 1) .. (Len(a) + Len(b)) : (a \o b)[i] = b[i - Len(a)]
  BY ConcatProperties
<1>2. a \o <<>> = a /\ <<>> \o b = b
  BY ConcatEmptySeq
<1>3. \A m \in T : a \o Append(b, m) = Append(a \o b, m)
  <2> TAKE m \in T
  <2> DEFINE x == a \o Append(b, m)
             y == Append(a \o b, m)
  <2>1. x \in Seq(T) /\ y \in Seq(T) /\ Len(x) = Len(y) /\ Len(y) = Len(a) + Len(b) + 1
    BY <1>1
  <2>2. ASSUME NEW i \in 1 .. Len(x) PROVE x[i] = y[i]
    BY <1>1, <2>1
  <2> HIDE DEF x, y
  <2>3. x = y
    BY <2>1, <2>2, SeqEqual
  <2>4. QED
    BY <2>3 DEF x, y
<1>4. ASSUME b # <<>> PROVE Append(a, Head(b)) \o Tail(b) = a \o b
  <2> DEFINE x == Append(a, Head(b)) \o Tail(b)
             y == a \o b
  <2>1. Head(b) \in T /\ Tail(b) \in Seq(T) /\ Len(Tail(b)) = Len(b) - 1 /\ Head(b) = b[1] /\ Len(b) > 0
        /\ \A i \in 1 .. (Len(b) - 1) : Tail(b)[i] = b[i + 1]
    BY <1>4
  <2>2. /\ Append(a, Head(b)) \in Seq(T) /\ Len(Append(a, Head(b))) = Len(a) + 1
        /\ Append(a, Head(b))[Len(a) + 1] = b[1] /\ \A i \in 1 .. Len(a) : Append(a, Head(b))[i] = a[i]
    BY <2>1
  <2>3. x \in Seq(T) /\ y \in Seq(T) /\ Len(x) = Len(y) /\ Len(y) = Len(a) + Len(b)
    BY <1>1, <2>1, <2>2, ConcatProperties
  <2>4. ASSUME NEW i \in 1 .. Len(x) PROVE x[i] = y[i]
    <3>1. /\ \A j \in 1 .. (Len(a) + 1) : x[j] = Append(a, Head(b))[j]
          /\ \A j \in (Len(a) + 2) .. (Len(a) + Len(b)) : x[j] = Tail(b)[j - (Len(a) + 1)]
      <4> DEFINE z == Append(a, Head(b))
                 w == Tail(b)
      <4>1. z \in Seq(T) /\ w \in Seq(T) /\ Len(z) = Len(a) + 1 /\ Len(w) = Len(b) - 1 /\ x = z \o w
        BY <2>1, <2>2
      <4> HIDE DEF x, z, w
      <4>2. /\ \A j \in 1 .. Len(z) : x[j] = z[j]
            /\ \A j \in (Len(z) + 1) .. (Len(z) + Len(w)) : x[j] = w[j - Len(z)]
        BY SMTT(30), <4>1, ConcatProperties
      <4>3. (Len(a) + 1) + 1 = Len(a) + 2 /\ (Len(a) + 1) + (Len(b) - 1) = Len(a) + Len(b)
        BY <1>1
      <4>4. QED
        BY <4>1, <4>2, <4>3 DEF z, w
    <3> HIDE DEF x
    <3>2. QED
      BY <1>1, <2>1, <2>2, <2>3, <3>1
  <2> HIDE DEF x, y
  <2>5. x = y
    BY <2>3, <2>4, SeqEqual
  <2>6. QED
    BY <2>5 DEF x, y
<1>5. ASSUME a # <<>>
      PROVE  /\ Head(a \o b) = Head(a) /\ Tail(a \o b) = Tail(a) \o b /\ a \o b # <<>>
             /\ Head(a) \in T /\ Tail(a) \in Seq(T)
  <2> DEFINE x == Tail(a \o b)
             y == Tail(a) \o b
  <2>1. Head(a) \in T /\ Tail(a) \in Seq(T) /\ Len(Tail(a)) = Len(a) - 1 /\ Head(a) = a[1] /\ Len(a) > 0
        /\ \A i \in 1 .. (Len(a) - 1) : Tail(a)[i] = a[i + 1]
    BY <1>5
  <2>2. a \o b # <<>> /\ Head(a \o b) = Head(a)
    BY <1>1, <2>1
  <2>3. x \in Seq(T) /\ Len(x) = Len(a) + Len(b) - 1 /\ \A i \in 1 .. Len(x) : x[i] = (a \o b)[i + 1]
    BY <1>1, <2>1, <2>2
  <2>4. y \in Seq(T) /\ Len(y) = Len(a) + Len(b) - 1
    BY <1>1, <2>1, ConcatProperties
  <2>5. ASSUME NEW i \in 1 .. Len(x) PROVE x[i] = y[i]
    <3>1. /\ \A j \in 1 .. Len(Tail(a)) : y[j] = Tail(a)[j]
          /\ \A j \in (Len(Tail(a)) + 1) .. (Len(Tail(a)) + Len(b)) : y[j] = b[j - Len(Tail(a))]
      BY <2>1, ConcatProperties
    <3> HIDE DEF x, y
    <3>2. CASE i <= Len(a) - 1
      BY <1>1, <2>1, <2>3, <3>1, <3>2
    <3>3. CASE i > Len(a) - 1
      BY <1>1, <2>1, <2>3, <3>1, <3>3
    <3>4. QED
      BY <1>1, <3>2, <3>3
  <2> HIDE DEF x, y
  <2>6. x = y
    BY <2>3, <2>4, <2>5, SeqEqual
  <2>7. QED
    BY <2>1, <2>2, <2>6 DEF x, y
<1>6. QED
  BY <1>1, <1>2, <1>3, <1>4, <1>5

\* What a message does to a set of namespaces.
Told(names, m) == KnownAfter([known |-> names], m)

\* One more message.
LEMMA MoreNames ==
  ASSUME "none" \notin Suffixes, NEW S, NEW q \in Seq(StreamMsg), NEW m \in StreamMsg
  PROVE  /\ m \in NameMsg => After(S, Append(q, m)) = Told(After(S, q), m)
         /\ m \in Response => After(S, Append(q, m)) = After(S, q)
         /\ InOrder(S, q) /\ (m.type = "NamespaceDone" => m.suffix \in After(S, q)) => InOrder(S, Append(q, m))
         /\ \A x \in BOOLEAN : RespondsFirst(x, q) /\ (q # <<>> \/ x) /\ m \in NameMsg =>
                                 RespondsFirst(x, Append(q, m))
<1> DEFINE p == Append(q, m)
           n == Len(q)
<1>1. /\ p \in Seq(StreamMsg) /\ n \in Nat /\ Len(p) = n + 1 /\ p[n + 1] = m /\ \A i \in 1 .. n : p[i] = q[i]
  OBVIOUS
<1> HIDE DEF p, n
<1>2. n = Len(q)
  BY DEF n
<1>3. ASSUME m \in NameMsg PROVE After(S, p) = Told(After(S, q), m)
  <2>1. m.suffix \in Suffixes /\ m.type \in {"Namespace", "NamespaceDone"}
    BY <1>3 DEF NameMsg
  <2>2. ASSUME NEW s \in Suffixes, s # m.suffix PROVE s \in After(S, p) <=> s \in After(S, q)
    BY <1>1, <1>2, <2>2 DEF After
  <2>3. m.suffix \in After(S, p) <=> m.type = "Namespace"
    BY <1>1, <1>2, <2>1 DEF After
  <2>4. After(S, p) \subseteq Suffixes /\ After(S, q) \subseteq Suffixes
    BY DEF After
  <2>5. QED
    BY <2>1, <2>2, <2>3, <2>4 DEF Told, KnownAfter
<1>4. ASSUME m \in Response PROVE After(S, p) = After(S, q)
  <2>1. m.suffix \notin Suffixes
    BY <1>4 DEF Response
  <2>2. \A s \in Suffixes : s \in After(S, p) <=> s \in After(S, q)
    BY <1>1, <1>2, <2>1 DEF After
  <2>3. QED
    BY <2>2 DEF After
<1>5. ASSUME InOrder(S, q), m.type = "NamespaceDone" => m.suffix \in After(S, q) PROVE InOrder(S, p)
  <2>1. ASSUME NEW i \in 1 .. n, p[i].type = "NamespaceDone"
        PROVE  \/ p[i].suffix \in S /\ \A j \in 1 .. (i - 1) : p[j].suffix # p[i].suffix
               \/ \E j \in 1 .. (i - 1) : /\ p[j].suffix = p[i].suffix /\ p[j].type = "Namespace"
                                          /\ \A k \in (j + 1) .. (i - 1) : p[k].suffix # p[i].suffix
    BY <1>1, <1>2, <1>5, <2>1 DEF InOrder
  <2>2. ASSUME m.type = "NamespaceDone"
        PROVE  \/ m.suffix \in S /\ \A j \in 1 .. n : p[j].suffix # m.suffix
               \/ \E j \in 1 .. n : /\ p[j].suffix = m.suffix /\ p[j].type = "Namespace"
                                    /\ \A k \in (j + 1) .. n : p[k].suffix # m.suffix
    BY <1>1, <1>2, <1>5, <2>2 DEF After
  <2>3. QED
    BY <1>1, <2>1, <2>2 DEF InOrder
<1>6. ASSUME NEW x \in BOOLEAN, RespondsFirst(x, q), (q # <<>> \/ x), m \in NameMsg PROVE RespondsFirst(x, p)
  <2>1. x \/ n > 0
    BY <1>2, <1>6, <1>1
  <2>2. QED
    BY <1>1, <1>2, <1>6, <2>1 DEF RespondsFirst
<1>7. QED
  BY <1>3, <1>4, <1>5, <1>6 DEF p

\* One message less.
LEMMA NamesRead ==
  ASSUME "none" \notin Suffixes, NEW S \in SUBSET Suffixes, NEW q \in Seq(StreamMsg), q # <<>>
  PROVE  /\ Head(q) \in NameMsg => After(Told(S, Head(q)), Tail(q)) = After(S, q)
         /\ Head(q) \in Response => After(S, Tail(q)) = After(S, q)
         /\ InOrder(S, q) /\ Head(q) \in NameMsg =>
              /\ InOrder(Told(S, Head(q)), Tail(q))
              /\ Head(q).type = "NamespaceDone" => Head(q).suffix \in S
         /\ InOrder(S, q) /\ Head(q) \in Response => InOrder(S, Tail(q))
         /\ \A x \in BOOLEAN : RespondsFirst(x, q) =>
              /\ RespondsFirst(TRUE, Tail(q))
              /\ IF x THEN Head(q) \in NameMsg ELSE Head(q) \in Response
<1> DEFINE p == Tail(q)
           n == Len(q)
           m == Head(q)
<1>1. /\ p \in Seq(StreamMsg) /\ n \in Nat /\ n > 0 /\ Len(p) = n - 1 /\ q[1] = m
      /\ (\A i \in 1 .. (n - 1) : p[i] = q[i + 1]) /\ m \in StreamMsg
  OBVIOUS
<1> HIDE DEF p, n, m
<1>2. n = Len(q)
  BY DEF n
<1>3. \A i \in 2 .. n : i - 1 \in 1 .. (n - 1) /\ q[i] = p[i - 1]
  BY <1>1
<1>4. ASSUME NEW s \in Suffixes, NEW T,
             s \in T <=> IF m.suffix = s THEN m.type = "Namespace" ELSE s \in S
      PROVE  s \in After(T, p) <=> s \in After(S, q)
  <2>1. ASSUME s \in After(T, p) PROVE s \in After(S, q)
    <3>1. CASE s \in T /\ \A i \in 1 .. (n - 1) : p[i].suffix # s
      <4>1. \A i \in 2 .. n : q[i].suffix # s
        BY <1>3, <3>1
      <4>2. CASE m.suffix = s
        <5>1. 1 \in 1 .. n /\ q[1].suffix = s /\ q[1].type = "Namespace" /\ \A j \in (1 + 1) .. n : q[j].suffix # s
          BY <1>1, <1>4, <3>1, <4>1, <4>2
        <5>2. QED
          BY <1>2, <5>1 DEF After
      <4>3. CASE m.suffix # s
        <5>1. s \in S /\ \A i \in 1 .. n : q[i].suffix # s
          BY <1>1, <1>4, <3>1, <4>1, <4>3
        <5>2. QED
          BY <1>2, <5>1 DEF After
      <4>4. QED
        BY <4>2, <4>3
    <3>2. CASE \E i \in 1 .. (n - 1) : /\ p[i].suffix = s /\ p[i].type = "Namespace"
                                       /\ \A j \in (i + 1) .. (n - 1) : p[j].suffix # s
      <4>1. PICK i \in 1 .. (n - 1) : /\ p[i].suffix = s /\ p[i].type = "Namespace"
                                      /\ \A j \in (i + 1) .. (n - 1) : p[j].suffix # s
        BY <3>2
      <4>2. /\ i + 1 \in 1 .. n /\ q[i + 1].suffix = s /\ q[i + 1].type = "Namespace"
            /\ \A j \in ((i + 1) + 1) .. n : q[j].suffix # s
        <5>1. i + 1 \in 1 .. n /\ q[i + 1] = p[i]
          BY <1>1
        <5>2. ASSUME NEW j \in ((i + 1) + 1) .. n PROVE q[j].suffix # s
          <6>1. j \in 2 .. n /\ j - 1 \in (i + 1) .. (n - 1)
            BY <1>1
          <6>2. QED
            BY <1>3, <4>1, <6>1
        <5>3. QED
          BY <4>1, <5>1, <5>2
      <4>3. QED
        BY <1>2, <4>2 DEF After
    <3>3. QED
      BY <1>1, <2>1, <3>1, <3>2 DEF After
  <2>2. ASSUME s \in After(S, q) PROVE s \in After(T, p)
    <3>1. CASE s \in S /\ \A i \in 1 .. n : q[i].suffix # s
      <4>1. s \in T /\ \A i \in 1 .. (n - 1) : p[i].suffix # s
        BY <1>1, <1>4, <3>1
      <4>2. QED
        BY <1>1, <4>1 DEF After
    <3>2. CASE \E i \in 1 .. n : /\ q[i].suffix = s /\ q[i].type = "Namespace"
                                 /\ \A j \in (i + 1) .. n : q[j].suffix # s
      <4>1. PICK i \in 1 .. n : /\ q[i].suffix = s /\ q[i].type = "Namespace"
                                /\ \A j \in (i + 1) .. n : q[j].suffix # s
        BY <3>2
      <4>2. CASE i = 1
        <5>1. s \in T /\ \A j \in 1 .. (n - 1) : p[j].suffix # s
          BY <1>1, <1>4, <4>1, <4>2
        <5>2. QED
          BY <1>1, <5>1 DEF After
      <4>3. CASE i > 1
        <5>1. /\ i - 1 \in 1 .. (n - 1) /\ p[i - 1].suffix = s /\ p[i - 1].type = "Namespace"
              /\ \A j \in ((i - 1) + 1) .. (n - 1) : p[j].suffix # s
          <6>1. i - 1 \in 1 .. (n - 1) /\ q[i] = p[i - 1]
            BY <1>1, <1>3, <4>3
          <6>2. ASSUME NEW j \in ((i - 1) + 1) .. (n - 1) PROVE p[j].suffix # s
            <7>1. j \in 1 .. (n - 1) /\ j + 1 \in (i + 1) .. n
              BY <1>1, <4>3
            <7>2. QED
              BY <1>1, <4>1, <7>1
          <6>3. QED
            BY <4>1, <6>1, <6>2
        <5>2. QED
          BY <1>1, <5>1 DEF After
      <4>4. QED
        BY <4>1, <4>2, <4>3
    <3>3. QED
      BY <1>2, <2>2, <3>1, <3>2 DEF After
  <2>3. QED
    BY <2>1, <2>2
<1>5. ASSUME m \in NameMsg
      PROVE  \A s \in Suffixes : s \in Told(S, m) <=> IF m.suffix = s THEN m.type = "Namespace" ELSE s \in S
  <2>1. m.type \in {"Namespace", "NamespaceDone"}
    BY <1>5 DEF NameMsg
  <2>2. QED
    BY <2>1 DEF Told, KnownAfter
<1>6. m \in Response => m.suffix \notin Suffixes
  BY DEF Response
<1>7. ASSUME m \in NameMsg PROVE After(Told(S, m), p) = After(S, q)
  <2>1. \A s \in Suffixes : s \in After(Told(S, m), p) <=> s \in After(S, q)
    BY <1>4, <1>5, <1>7
  <2>2. After(Told(S, m), p) \subseteq Suffixes /\ After(S, q) \subseteq Suffixes
    BY DEF After
  <2>3. QED
    BY <2>1, <2>2
<1>8. ASSUME m \in Response PROVE After(S, p) = After(S, q)
  <2>1. \A s \in Suffixes : s \in After(S, p) <=> s \in After(S, q)
    BY <1>4, <1>6, <1>8
  <2>2. After(S, p) \subseteq Suffixes /\ After(S, q) \subseteq Suffixes
    BY DEF After
  <2>3. QED
    BY <2>1, <2>2
<1>9. \A i \in 1 .. (n - 1) : p[i].type = "NamespaceDone" => p[i].suffix \in Suffixes
  <2>1. \A i \in 1 .. (n - 1) : p[i] \in StreamMsg
    BY <1>1, ElementOfSeq
  <2>2. QED
    BY <2>1 DEF StreamMsg, NameMsg, Response
<1>10. ASSUME InOrder(S, q), NEW T, \A s \in Suffixes : s \in T <=> IF m.suffix = s THEN m.type = "Namespace" ELSE s \in S
       PROVE  InOrder(T, p)
  <2> SUFFICES ASSUME NEW i \in 1 .. (n - 1), p[i].type = "NamespaceDone"
               PROVE  \/ p[i].suffix \in T /\ \A j \in 1 .. (i - 1) : p[j].suffix # p[i].suffix
                      \/ \E j \in 1 .. (i - 1) : /\ p[j].suffix = p[i].suffix /\ p[j].type = "Namespace"
                                                 /\ \A k \in (j + 1) .. (i - 1) : p[k].suffix # p[i].suffix
    BY <1>1 DEF InOrder
  <2> DEFINE s == p[i].suffix
  <2>1. s \in Suffixes /\ s = p[i].suffix
    BY <1>9
  <2>2. i + 1 \in 1 .. n /\ q[i + 1].type = "NamespaceDone" /\ q[i + 1].suffix = s
    BY <1>1
  <2> HIDE DEF s
  <2>3. \/ s \in S /\ \A j \in 1 .. i : q[j].suffix # s
        \/ \E j \in 1 .. i : /\ q[j].suffix = s /\ q[j].type = "Namespace"
                             /\ \A k \in (j + 1) .. i : q[k].suffix # s
    <3>1. (i + 1) - 1 = i
      OBVIOUS
    <3>2. QED
      BY <1>2, <1>10, <2>2, <3>1 DEF InOrder
  <2>4. CASE s \in S /\ \A j \in 1 .. i : q[j].suffix # s
    <3>1. m.suffix # s
      BY <1>1, <2>4
    <3>2. s \in T
      BY <1>10, <2>1, <2>4, <3>1
    <3>3. ASSUME NEW j \in 1 .. (i - 1) PROVE p[j].suffix # s
      <4>1. j \in 1 .. (n - 1) /\ j + 1 \in 1 .. i
        BY <1>1
      <4>2. QED
        BY <1>1, <2>4, <4>1
    <3>4. QED
      BY <2>1, <3>2, <3>3
  <2>5. CASE \E j \in 1 .. i : /\ q[j].suffix = s /\ q[j].type = "Namespace"
                               /\ \A k \in (j + 1) .. i : q[k].suffix # s
    <3>1. PICK j \in 1 .. i : /\ q[j].suffix = s /\ q[j].type = "Namespace"
                              /\ \A k \in (j + 1) .. i : q[k].suffix # s
      BY <2>5
    <3>2. CASE j = 1
      <4>1. m.suffix = s /\ m.type = "Namespace"
        BY <1>1, <3>1, <3>2
      <4>2. s \in T
        BY <1>10, <2>1, <4>1
      <4>3. ASSUME NEW k \in 1 .. (i - 1) PROVE p[k].suffix # s
        <5>1. k \in 1 .. (n - 1) /\ k + 1 \in (j + 1) .. i
          BY <1>1, <3>2
        <5>2. QED
          BY <1>1, <3>1, <5>1
      <4>4. QED
        BY <2>1, <4>2, <4>3
    <3>3. CASE j > 1
      <4>1. /\ j - 1 \in 1 .. (i - 1) /\ p[j - 1].suffix = s /\ p[j - 1].type = "Namespace"
            /\ \A k \in ((j - 1) + 1) .. (i - 1) : p[k].suffix # s
        <5>1. j - 1 \in 1 .. (i - 1) /\ j \in 2 .. n
          BY <1>1, <3>3
        <5>2. ASSUME NEW k \in ((j - 1) + 1) .. (i - 1) PROVE p[k].suffix # s
          <6>1. k \in 1 .. (n - 1) /\ k + 1 \in (j + 1) .. i
            BY <1>1, <3>3
          <6>2. QED
            BY <1>1, <3>1, <6>1
        <5>3. QED
          BY <1>3, <3>1, <5>1, <5>2
      <4>2. QED
        BY <2>1, <4>1
    <3>4. QED
      BY <3>1, <3>2, <3>3
  <2>6. QED
    BY <2>3, <2>4, <2>5
<1>11. ASSUME InOrder(S, q), m.type = "NamespaceDone" PROVE m.suffix \in S
  BY <1>1, <1>2, <1>11 DEF InOrder
<1>12. ASSUME NEW x \in BOOLEAN, RespondsFirst(x, q)
       PROVE  RespondsFirst(TRUE, p) /\ IF x THEN m \in NameMsg ELSE m \in Response
  BY <1>1, <1>2, <1>12 DEF RespondsFirst
<1>13. QED
  BY <1>5, <1>6, <1>7, <1>8, <1>10, <1>11, <1>12 DEF p, m

\* What is no longer sent.
LEMMA NamesCut ==
  ASSUME NEW S, NEW a \in Seq(StreamMsg), NEW b \in Seq(StreamMsg)
  PROVE  /\ InOrder(S, a \o b) => InOrder(S, a)
         /\ \A x \in BOOLEAN : RespondsFirst(x, a \o b) => RespondsFirst(x, a)
<1> DEFINE p == a \o b
<1>1. p \in Seq(StreamMsg) /\ Len(p) = Len(a) + Len(b) /\ Len(a) \in Nat /\ Len(b) \in Nat
      /\ \A i \in 1 .. Len(a) : p[i] = a[i]
  BY PipeMoves
<1> HIDE DEF p
<1>2. ASSUME InOrder(S, p) PROVE InOrder(S, a)
  <2> SUFFICES ASSUME NEW i \in 1 .. Len(a), a[i].type = "NamespaceDone"
               PROVE  \/ a[i].suffix \in S /\ \A j \in 1 .. (i - 1) : a[j].suffix # a[i].suffix
                      \/ \E j \in 1 .. (i - 1) : /\ a[j].suffix = a[i].suffix /\ a[j].type = "Namespace"
                                                 /\ \A k \in (j + 1) .. (i - 1) : a[k].suffix # a[i].suffix
    BY DEF InOrder
  <2>1. i \in 1 .. Len(p) /\ (\A j \in 1 .. (i - 1) : j \in 1 .. Len(a)) /\ p[i] = a[i]
    BY <1>1
  <2>2. \/ p[i].suffix \in S /\ \A j \in 1 .. (i - 1) : p[j].suffix # p[i].suffix
        \/ \E j \in 1 .. (i - 1) : /\ p[j].suffix = p[i].suffix /\ p[j].type = "Namespace"
                                   /\ \A k \in (j + 1) .. (i - 1) : p[k].suffix # p[i].suffix
    BY <1>2, <2>1 DEF InOrder
  <2>3. \A j \in 1 .. (i - 1) : p[j] = a[j]
    BY <1>1, <2>1
  <2>4. \A j \in 1 .. (i - 1), k \in Int : k \in (j + 1) .. (i - 1) => k \in 1 .. (i - 1)
    BY <1>1
  <2>5. QED
    BY <2>1, <2>2, <2>3, <2>4
<1>3. ASSUME NEW x \in BOOLEAN, RespondsFirst(x, p) PROVE RespondsFirst(x, a)
  BY <1>1, <1>3 DEF RespondsFirst
<1>4. QED
  BY <1>2, <1>3 DEF p

\* What no message tells.
LEMMA NoNames == ASSUME NEW S \in SUBSET Suffixes
  PROVE After(S, <<>>) = S /\ InOrder(S, <<>>) /\ \A x \in BOOLEAN : RespondsFirst(x, <<>>)
<1>1. Len(<<>>) = 0
  OBVIOUS
<1>2. QED
  BY <1>1 DEF After, InOrder, RespondsFirst

\* Records field by field, as far as the invariant reads them.
AskIs(s, st, responded, known, events) ==
  s.st = st /\ s.responded = responded /\ s.known = known /\ s.events = events
BackIs(s, msgs, end) == s.msgs = msgs /\ s.end = end
AnswerIs(s, st, responded, shut, names, queue) ==
  s.st = st /\ s.responded = responded /\ s.closed = shut /\ s.names = names /\ s.queue = queue
Others(f, g, r) == \A q \in Requests \ {r} : g[q] = f[q]

\* The asking side changes its state.
LEMMA AskSt ==
  ASSUME NEW f \in [Requests -> AskState], NEW r \in Requests, NEW x \in {"idle", "opening", "running", "ended"}
  PROVE  LET g == [f EXCEPT ![r].st = x]
         IN  g \in [Requests -> AskState] /\ Others(f, g, r)
             /\ AskIs(g[r], x, f[r].responded, f[r].known, f[r].events)
<1> DEFINE s == [f[r] EXCEPT !.st = x]
           g == [f EXCEPT ![r].st = x]
<1>1. f[r] \in AskState /\ <<>> \in Seq(StreamMsg)
  OBVIOUS
<1>2. s \in AskState
  BY <1>1 DEF AskState
<1>3. AskIs(s, x, f[r].responded, f[r].known, f[r].events)
  BY <1>1 DEF AskState, AskIs
<1>4. g = [f EXCEPT ![r] = s]
  BY <1>1 DEF AskState
<1> HIDE DEF s
<1>5. g \in [Requests -> AskState] /\ g[r] = s /\ \A q \in Requests \ {r} : g[q] = f[q]
  BY <1>2, <1>4
<1> HIDE DEF g
<1>6. QED
  BY <1>3, <1>5 DEF g, Others

\* It has its response.
LEMMA AskOk ==
  ASSUME NEW f \in [Requests -> AskState], NEW r \in Requests
  PROVE  LET g == [f EXCEPT ![r].responded = TRUE, ![r].ok = TRUE]
         IN  g \in [Requests -> AskState] /\ Others(f, g, r)
             /\ AskIs(g[r], f[r].st, TRUE, f[r].known, f[r].events)
<1> DEFINE s == [f[r] EXCEPT !.responded = TRUE, !.ok = TRUE]
           g == [f EXCEPT ![r].responded = TRUE, ![r].ok = TRUE]
<1>1. f[r] \in AskState /\ <<>> \in Seq(StreamMsg)
  OBVIOUS
<1>2. s \in AskState
  BY <1>1 DEF AskState
<1>3. AskIs(s, f[r].st, TRUE, f[r].known, f[r].events)
  BY <1>1 DEF AskState, AskIs
<1>4. g = [f EXCEPT ![r] = s]
  BY <1>1 DEF AskState
<1> HIDE DEF s
<1>5. g \in [Requests -> AskState] /\ g[r] = s /\ \A q \in Requests \ {r} : g[q] = f[q]
  BY <1>2, <1>4
<1> HIDE DEF g
<1>6. QED
  BY <1>3, <1>5 DEF g, Others

\* It ends.
LEMMA AskEnds ==
  ASSUME NEW f \in [Requests -> AskState], NEW r \in Requests, NEW c \in AskState
  PROVE  LET g == [f EXCEPT ![r] = [c EXCEPT !.st = "ended"]]
         IN  g \in [Requests -> AskState] /\ Others(f, g, r)
             /\ AskIs(g[r], "ended", c.responded, c.known, c.events)
<1> DEFINE s == [c EXCEPT !.st = "ended"]
           g == [f EXCEPT ![r] = [c EXCEPT !.st = "ended"]]
<1>1. f[r] \in AskState /\ <<>> \in Seq(StreamMsg)
  OBVIOUS
<1>2. s \in AskState
  BY <1>1 DEF AskState
<1>3. AskIs(s, "ended", c.responded, c.known, c.events)
  BY <1>1 DEF AskState, AskIs
<1>4. g = [f EXCEPT ![r] = s]
  BY <1>1 DEF AskState
<1> HIDE DEF s
<1>5. g \in [Requests -> AskState] /\ g[r] = s /\ \A q \in Requests \ {r} : g[q] = f[q]
  BY <1>2, <1>4
<1> HIDE DEF g
<1>6. QED
  BY <1>3, <1>5 DEF g, Others

\* It is told of a namespace.
LEMMA AskTold ==
  ASSUME NEW f \in [Requests -> AskState], NEW r \in Requests, NEW k \in SUBSET Suffixes, NEW m \in NameMsg
  PROVE  LET g == [f EXCEPT ![r].known = k, ![r].events = Append(@, m)]
         IN  g \in [Requests -> AskState] /\ Others(f, g, r)
             /\ AskIs(g[r], f[r].st, f[r].responded, k, Append(f[r].events, m))
<1> DEFINE s == [f[r] EXCEPT !.known = k, !.events = Append(f[r].events, m)]
           g == [f EXCEPT ![r].known = k, ![r].events = Append(@, m)]
<1>1. f[r] \in AskState /\ <<>> \in Seq(StreamMsg)
  OBVIOUS
<1>2. s \in AskState
  <2>1. Append(f[r].events, m) \in Seq(NameMsg)
    BY <1>1 DEF AskState
  <2>2. QED
    BY <1>1, <2>1 DEF AskState
<1>3. AskIs(s, f[r].st, f[r].responded, k, Append(f[r].events, m))
  BY <1>1 DEF AskState, AskIs
<1>4. g = [f EXCEPT ![r] = s]
  BY <1>1 DEF AskState
<1> HIDE DEF s
<1>5. g \in [Requests -> AskState] /\ g[r] = s /\ \A q \in Requests \ {r} : g[q] = f[q]
  BY <1>2, <1>4
<1> HIDE DEF g
<1>6. QED
  BY <1>3, <1>5 DEF g, Others

\* The application takes an event.
LEMMA AskTaken ==
  ASSUME NEW f \in [Requests -> AskState], NEW r \in Requests, f[r].events # <<>>
  PROVE  LET g == [f EXCEPT ![r].events = Tail(@)]
         IN  g \in [Requests -> AskState] /\ Others(f, g, r)
             /\ AskIs(g[r], f[r].st, f[r].responded, f[r].known, Tail(f[r].events))
<1> DEFINE s == [f[r] EXCEPT !.events = Tail(f[r].events)]
           g == [f EXCEPT ![r].events = Tail(@)]
<1>1. f[r] \in AskState /\ <<>> \in Seq(StreamMsg)
  OBVIOUS
<1>2. s \in AskState
  <2>1. Tail(f[r].events) \in Seq(NameMsg)
    BY <1>1 DEF AskState
  <2>2. QED
    BY <1>1, <2>1 DEF AskState
<1>3. AskIs(s, f[r].st, f[r].responded, f[r].known, Tail(f[r].events))
  BY <1>1 DEF AskState, AskIs
<1>4. g = [f EXCEPT ![r] = s]
  BY <1>1 DEF AskState
<1> HIDE DEF s
<1>5. g \in [Requests -> AskState] /\ g[r] = s /\ \A q \in Requests \ {r} : g[q] = f[q]
  BY <1>2, <1>4
<1> HIDE DEF g
<1>6. QED
  BY <1>3, <1>5 DEF g, Others

\* The stream back is stopped.
LEMMA BackStopped ==
  ASSUME NEW f \in [Requests -> BackStream], NEW r \in Requests
  PROVE  LET g == [f EXCEPT ![r].stopped = TRUE]
         IN  g \in [Requests -> BackStream] /\ Others(f, g, r)
             /\ BackIs(g[r], f[r].msgs, f[r].end)
<1> DEFINE s == [f[r] EXCEPT !.stopped = TRUE]
           g == [f EXCEPT ![r].stopped = TRUE]
<1>1. f[r] \in BackStream /\ <<>> \in Seq(StreamMsg)
  OBVIOUS
<1>2. s \in BackStream
  BY <1>1 DEF BackStream
<1>3. BackIs(s, f[r].msgs, f[r].end)
  BY <1>1 DEF BackStream, BackIs
<1>4. g = [f EXCEPT ![r] = s]
  BY <1>1 DEF BackStream
<1> HIDE DEF s
<1>5. g \in [Requests -> BackStream] /\ g[r] = s /\ \A q \in Requests \ {r} : g[q] = f[q]
  BY <1>2, <1>4
<1> HIDE DEF g
<1>6. QED
  BY <1>3, <1>5 DEF g, Others

\* A message is read.
LEMMA BackRead ==
  ASSUME NEW f \in [Requests -> BackStream], NEW r \in Requests, f[r].msgs # <<>>
  PROVE  LET g == [f EXCEPT ![r].msgs = Tail(@)]
         IN  g \in [Requests -> BackStream] /\ Others(f, g, r)
             /\ BackIs(g[r], Tail(f[r].msgs), f[r].end)
<1> DEFINE s == [f[r] EXCEPT !.msgs = Tail(f[r].msgs)]
           g == [f EXCEPT ![r].msgs = Tail(@)]
<1>1. f[r] \in BackStream /\ <<>> \in Seq(StreamMsg)
  OBVIOUS
<1>2. s \in BackStream
  <2>1. Tail(f[r].msgs) \in Seq(StreamMsg)
    BY <1>1 DEF BackStream
  <2>2. QED
    BY <1>1, <2>1 DEF BackStream
<1>3. BackIs(s, Tail(f[r].msgs), f[r].end)
  BY <1>1 DEF BackStream, BackIs
<1>4. g = [f EXCEPT ![r] = s]
  BY <1>1 DEF BackStream
<1> HIDE DEF s
<1>5. g \in [Requests -> BackStream] /\ g[r] = s /\ \A q \in Requests \ {r} : g[q] = f[q]
  BY <1>2, <1>4
<1> HIDE DEF g
<1>6. QED
  BY <1>3, <1>5 DEF g, Others

\* A message is sent.
LEMMA BackSent ==
  ASSUME NEW f \in [Requests -> BackStream], NEW r \in Requests, NEW m \in StreamMsg
  PROVE  LET g == [f EXCEPT ![r].msgs = Append(@, m)]
         IN  g \in [Requests -> BackStream] /\ Others(f, g, r)
             /\ BackIs(g[r], Append(f[r].msgs, m), f[r].end)
<1> DEFINE s == [f[r] EXCEPT !.msgs = Append(f[r].msgs, m)]
           g == [f EXCEPT ![r].msgs = Append(@, m)]
<1>1. f[r] \in BackStream /\ <<>> \in Seq(StreamMsg)
  OBVIOUS
<1>2. s \in BackStream
  <2>1. Append(f[r].msgs, m) \in Seq(StreamMsg)
    BY <1>1 DEF BackStream
  <2>2. QED
    BY <1>1, <2>1 DEF BackStream
<1>3. BackIs(s, Append(f[r].msgs, m), f[r].end)
  BY <1>1 DEF BackStream, BackIs
<1>4. g = [f EXCEPT ![r] = s]
  BY <1>1 DEF BackStream
<1> HIDE DEF s
<1>5. g \in [Requests -> BackStream] /\ g[r] = s /\ \A q \in Requests \ {r} : g[q] = f[q]
  BY <1>2, <1>4
<1> HIDE DEF g
<1>6. QED
  BY <1>3, <1>5 DEF g, Others

\* The stream back ends.
LEMMA BackFin ==
  ASSUME NEW f \in [Requests -> BackStream], NEW r \in Requests
  PROVE  LET g == [f EXCEPT ![r].end = "fin"]
         IN  g \in [Requests -> BackStream] /\ Others(f, g, r)
             /\ BackIs(g[r], f[r].msgs, "fin")
<1> DEFINE s == [f[r] EXCEPT !.end = "fin"]
           g == [f EXCEPT ![r].end = "fin"]
<1>1. f[r] \in BackStream /\ <<>> \in Seq(StreamMsg)
  OBVIOUS
<1>2. s \in BackStream
  BY <1>1 DEF BackStream
<1>3. BackIs(s, f[r].msgs, "fin")
  BY <1>1 DEF BackStream, BackIs
<1>4. g = [f EXCEPT ![r] = s]
  BY <1>1 DEF BackStream
<1> HIDE DEF s
<1>5. g \in [Requests -> BackStream] /\ g[r] = s /\ \A q \in Requests \ {r} : g[q] = f[q]
  BY <1>2, <1>4
<1> HIDE DEF g
<1>6. QED
  BY <1>3, <1>5 DEF g, Others

\* A request is read.
LEMMA AnswerStarts ==
  ASSUME NEW f \in [Requests -> AnswerState], NEW r \in Requests
  PROVE  LET g == [f EXCEPT ![r].st = "running"]
         IN  g \in [Requests -> AnswerState] /\ Others(f, g, r)
             /\ AnswerIs(g[r], "running", f[r].responded, f[r].closed, f[r].names, f[r].queue)
<1> DEFINE s == [f[r] EXCEPT !.st = "running"]
           g == [f EXCEPT ![r].st = "running"]
<1>1. f[r] \in AnswerState /\ <<>> \in Seq(StreamMsg)
  OBVIOUS
<1>2. s \in AnswerState
  BY <1>1 DEF AnswerState
<1>3. AnswerIs(s, "running", f[r].responded, f[r].closed, f[r].names, f[r].queue)
  BY <1>1 DEF AnswerState, AnswerIs
<1>4. g = [f EXCEPT ![r] = s]
  BY <1>1 DEF AnswerState
<1> HIDE DEF s
<1>5. g \in [Requests -> AnswerState] /\ g[r] = s /\ \A q \in Requests \ {r} : g[q] = f[q]
  BY <1>2, <1>4
<1> HIDE DEF g
<1>6. QED
  BY <1>3, <1>5 DEF g, Others

\* It is refused.
LEMMA AnswerRefuses ==
  ASSUME NEW f \in [Requests -> AnswerState], NEW r \in Requests, NEW u \in Seq(StreamMsg)
  PROVE  LET g == [f EXCEPT ![r].st = "running", ![r].queue = u]
         IN  g \in [Requests -> AnswerState] /\ Others(f, g, r)
             /\ AnswerIs(g[r], "running", f[r].responded, f[r].closed, f[r].names, u)
<1> DEFINE s == [f[r] EXCEPT !.st = "running", !.queue = u]
           g == [f EXCEPT ![r].st = "running", ![r].queue = u]
<1>1. f[r] \in AnswerState /\ <<>> \in Seq(StreamMsg)
  OBVIOUS
<1>2. s \in AnswerState
  BY <1>1 DEF AnswerState
<1>3. AnswerIs(s, "running", f[r].responded, f[r].closed, f[r].names, u)
  BY <1>1 DEF AnswerState, AnswerIs
<1>4. g = [f EXCEPT ![r] = s]
  BY <1>1 DEF AnswerState
<1> HIDE DEF s
<1>5. g \in [Requests -> AnswerState] /\ g[r] = s /\ \A q \in Requests \ {r} : g[q] = f[q]
  BY <1>2, <1>4
<1> HIDE DEF g
<1>6. QED
  BY <1>3, <1>5 DEF g, Others

\* A message leaves the queue.
LEMMA AnswerSent ==
  ASSUME NEW f \in [Requests -> AnswerState], NEW r \in Requests, f[r].queue # <<>>
  PROVE  LET g == [f EXCEPT ![r].queue = Tail(@)]
         IN  g \in [Requests -> AnswerState] /\ Others(f, g, r)
             /\ AnswerIs(g[r], f[r].st, f[r].responded, f[r].closed, f[r].names, Tail(f[r].queue))
<1> DEFINE s == [f[r] EXCEPT !.queue = Tail(f[r].queue)]
           g == [f EXCEPT ![r].queue = Tail(@)]
<1>1. f[r] \in AnswerState /\ <<>> \in Seq(StreamMsg)
  OBVIOUS
<1>2. s \in AnswerState
  <2>1. Tail(f[r].queue) \in Seq(StreamMsg)
    BY <1>1 DEF AnswerState
  <2>2. QED
    BY <1>1, <2>1 DEF AnswerState
<1>3. AnswerIs(s, f[r].st, f[r].responded, f[r].closed, f[r].names, Tail(f[r].queue))
  BY <1>1 DEF AnswerState, AnswerIs
<1>4. g = [f EXCEPT ![r] = s]
  BY <1>1 DEF AnswerState
<1> HIDE DEF s
<1>5. g \in [Requests -> AnswerState] /\ g[r] = s /\ \A q \in Requests \ {r} : g[q] = f[q]
  BY <1>2, <1>4
<1> HIDE DEF g
<1>6. QED
  BY <1>3, <1>5 DEF g, Others

\* The answering side ends.
LEMMA AnswerEnds ==
  ASSUME NEW f \in [Requests -> AnswerState], NEW r \in Requests, NEW c \in AnswerState
  PROVE  LET g == [f EXCEPT ![r] = [c EXCEPT !.st = "ended", !.queue = <<>>]]
         IN  g \in [Requests -> AnswerState] /\ Others(f, g, r)
             /\ AnswerIs(g[r], "ended", c.responded, c.closed, c.names, <<>>)
<1> DEFINE s == [c EXCEPT !.st = "ended", !.queue = <<>>]
           g == [f EXCEPT ![r] = [c EXCEPT !.st = "ended", !.queue = <<>>]]
<1>1. f[r] \in AnswerState /\ <<>> \in Seq(StreamMsg)
  OBVIOUS
<1>2. s \in AnswerState
  BY <1>1 DEF AnswerState
<1>3. AnswerIs(s, "ended", c.responded, c.closed, c.names, <<>>)
  BY <1>1 DEF AnswerState, AnswerIs
<1>4. g = [f EXCEPT ![r] = s]
  BY <1>1 DEF AnswerState
<1> HIDE DEF s
<1>5. g \in [Requests -> AnswerState] /\ g[r] = s /\ \A q \in Requests \ {r} : g[q] = f[q]
  BY <1>2, <1>4
<1> HIDE DEF g
<1>6. QED
  BY <1>3, <1>5 DEF g, Others

\* What one record of the answering side becomes.
LEMMA AnswerFields ==
  ASSUME NEW s \in AnswerState, NEW n \in SUBSET Suffixes, NEW m \in StreamMsg
  PROVE  /\ [s EXCEPT !.responded = TRUE] \in AnswerState
         /\ AnswerIs([s EXCEPT !.responded = TRUE], s.st, TRUE, s.closed, s.names, s.queue)
         /\ [s EXCEPT !.names = n] \in AnswerState
         /\ AnswerIs([s EXCEPT !.names = n], s.st, s.responded, s.closed, n, s.queue)
         /\ Queued(s, m) \in AnswerState
         /\ AnswerIs(Queued(s, m), s.st, s.responded, s.closed, s.names, Append(s.queue, m))
         /\ Cancelled(s) \in AnswerState
         /\ AnswerIs(Cancelled(s), s.st, s.responded, TRUE, s.names, s.queue)
         /\ [Cancelled(s) EXCEPT !.st = "draining"] \in AnswerState
         /\ AnswerIs([Cancelled(s) EXCEPT !.st = "draining"], "draining", s.responded, TRUE, s.names, s.queue)
<1>1. Append(s.queue, m) \in Seq(StreamMsg)
  BY DEF AnswerState
<1>2. /\ [s EXCEPT !.responded = TRUE] \in AnswerState /\ [s EXCEPT !.names = n] \in AnswerState
      /\ Cancelled(s) \in AnswerState
  BY DEF AnswerState, Cancelled
<1>3. Queued(s, m) \in AnswerState
  BY <1>1 DEF AnswerState, Queued
<1>4. [Cancelled(s) EXCEPT !.st = "draining"] \in AnswerState
  BY <1>2 DEF AnswerState
<1>5. /\ AnswerIs([s EXCEPT !.responded = TRUE], s.st, TRUE, s.closed, s.names, s.queue)
      /\ AnswerIs([s EXCEPT !.names = n], s.st, s.responded, s.closed, n, s.queue)
  BY DEF AnswerState, AnswerIs
<1>6. AnswerIs(Queued(s, m), s.st, s.responded, s.closed, s.names, Append(s.queue, m))
  BY DEF AnswerState, AnswerIs, Queued
<1>7. /\ AnswerIs(Cancelled(s), s.st, s.responded, TRUE, s.names, s.queue)
      /\ AnswerIs([Cancelled(s) EXCEPT !.st = "draining"], "draining", s.responded, TRUE, s.names, s.queue)
  BY DEF AnswerState, AnswerIs, Cancelled
<1>8. QED
  BY <1>2, <1>3, <1>4, <1>5, <1>6, <1>7


\* The prefix of the request is in use on the side that answers.
Active(r) == nss[r].st \in {"running", "draining"} /\ app[r] # "refused"

\* At most one prefix is in use, whichever request starts or ends.
LEMMA ActiveStep ==
  ASSUME ActiveInv, NEW r \in Requests, Others(nss, nss', r), Others(app, app', r),
         \/ activePrefixes' = activePrefixes /\ (Active(r)' <=> Active(r))
         \/ activePrefixes' = activePrefixes \ {r} /\ ~Active(r)'
         \/ activePrefixes = {} /\ activePrefixes' = activePrefixes \cup {r} /\ Active(r)'
  PROVE  ActiveInv'
<1>1. \A q \in Requests \ {r} : Active(q)' <=> Active(q)
  BY DEF Others, Active
<1>2. activePrefixes = {q \in Requests : Active(q)} /\ \A x, y \in activePrefixes : x = y
  BY DEF ActiveInv, Active
<1>3. activePrefixes' = {q \in Requests : Active(q)'}
  BY <1>1, <1>2
<1>4. \A x, y \in activePrefixes' : x = y
  BY <1>2
<1>5. QED
  BY <1>3, <1>4 DEF ActiveInv, Active

\* A request that a step does not touch.
LEMMA RequestUntouched ==
  ASSUME NEW q \in Requests, RequestInv(q), nsr'[q] = nsr[q], handle'[q] = handle[q], up'[q] = up[q],
         down'[q] = down[q], nss'[q] = nss[q], app'[q] = app[q], applied'[q] = applied[q],
         q \in prefixes' => q \in prefixes
  PROVE  RequestInv(q)'
  BY DEF RequestInv, Pipe

\* A step touches one request.
LEMMA OneRequest ==
  ASSUME NamespacesInv, NamespaceTypes', NEW r \in Requests, Others(nsr, nsr', r), Others(handle, handle', r),
         Others(up, up', r), Others(down, down', r), Others(nss, nss', r), Others(app, app', r),
         Others(applied, applied', r), prefixes' \subseteq prefixes \cup {r}, RequestInv(r)', ActiveInv',
         failure' # "ProtocolViolation"
  PROVE  NamespacesInv'
<1>1. ASSUME NEW q \in Requests PROVE RequestInv(q)'
  <2>1. CASE q = r
    BY <2>1
  <2>2. CASE q # r
    <3>1. RequestInv(q)
      BY DEF NamespacesInv
    <3>2. /\ nsr'[q] = nsr[q] /\ handle'[q] = handle[q] /\ up'[q] = up[q] /\ down'[q] = down[q]
          /\ nss'[q] = nss[q] /\ app'[q] = app[q] /\ applied'[q] = applied[q] /\ (q \in prefixes' => q \in prefixes)
      BY <2>2 DEF Others
    <3>3. QED
      BY <3>1, <3>2, RequestUntouched
  <2>3. QED
    BY <2>1, <2>2
<1>2. QED
  BY <1>1 DEF NamespacesInv

\* No request is made before the session is up.
LEMMA NamespacesBegin == ASSUME NamespaceStreamsAssumption, NamespacesStart PROVE NamespacesInv
<1>1. <<>> \in Seq(NameMsg) /\ <<>> \in Seq(StreamMsg) /\ Len(<<>>) = 0 /\ {} \in SUBSET Suffixes
  OBVIOUS
<1>2. NotAsked \in AskState /\ NotAnswering \in AnswerState /\ [msgs |-> <<>>, end |-> "no", stopped |-> FALSE] \in BackStream
  BY <1>1 DEF NotAsked, NotAnswering, AskState, AnswerState, BackStream
<1>3. NamespaceTypes
  BY <1>2 DEF NamespacesStart, NamespaceTypes
<1>4. \A r \in Requests : nss[r] = NotAnswering /\ nsr[r] = NotAsked /\ app[r] = "none" /\ up[r] = "none"
                          /\ handle[r] = "none" /\ applied[r] = {}
                          /\ down[r] = [msgs |-> <<>>, end |-> "no", stopped |-> FALSE]
  BY DEF NamespacesStart
<1>5. ActiveInv
  BY <1>4 DEF NamespacesStart, ActiveInv, NotAnswering
<1>6. ASSUME NEW r \in Requests PROVE RequestInv(r)
  <2>1. nss[r].st = "none" /\ nss[r].queue = <<>> /\ ~nss[r].closed /\ nss[r].names = {} /\ nsr[r].st = "idle"
        /\ ~nsr[r].responded /\ nsr[r].known = {} /\ nsr[r].events = <<>> /\ down[r].msgs = <<>> /\ down[r].end = "no"
    BY <1>4 DEF NotAsked, NotAnswering
  <2>2. Pipe(r) = <<>>
    BY <1>1, <2>1, PipeMoves DEF Pipe
  <2>3. After({}, <<>>) = {} /\ InOrder({}, <<>>) /\ RespondsFirst(FALSE, <<>>)
    BY <1>1, NoNames
  <2>4. 0 <= QueueCapacity
    BY DEF NamespaceStreamsAssumption
  <2>5. nsr[r].responded = FALSE
    BY <1>4 DEF NotAsked
  <2>6. QED
    BY <1>1, <1>4, <2>1, <2>2, <2>3, <2>4, <2>5 DEF RequestInv
<1>7. failure # "ProtocolViolation"
  BY DEF NamespacesStart
<1>8. QED
  BY <1>3, <1>5, <1>6, <1>7 DEF NamespacesInv

\* As many namespaces below the prefix as the side that asks keeps.
SuffixesFit == Cardinality(Suffixes) <= MaxKnown

\* A namespace that is not known yet still fits.
LEMMA NamesFit ==
  ASSUME NamespaceStreamsAssumption, SuffixesFit, NEW K \in SUBSET Suffixes, NEW x \in Suffixes, x \notin K
  PROVE  Cardinality(K) < MaxKnown
<1>1. IsFiniteSet(Suffixes) /\ MaxKnown \in Nat
  BY DEF NamespaceStreamsAssumption
<1>2. IsFiniteSet(K) /\ IsFiniteSet(K \cup {x}) /\ K \cup {x} \subseteq Suffixes
  BY <1>1, FS_Subset
<1>3. Cardinality(K \cup {x}) = Cardinality(K) + 1
  BY <1>2, FS_AddElement
<1>4. Cardinality(K \cup {x}) <= Cardinality(Suffixes)
  BY <1>1, <1>2, FS_Subset
<1>5. Cardinality(K) \in Nat /\ Cardinality(Suffixes) \in Nat
  BY <1>1, <1>2, FS_CardinalityType
<1>6. QED
  BY <1>1, <1>3, <1>4, <1>5 DEF SuffixesFit

\* The side that asks moves.
LEMMA AskingStep ==
  ASSUME NamespaceStreamsAssumption, SuffixesFit, NamespacesInv, NEW r \in Requests,
         \/ SubscribeNamespace(r) \/ AbandonOpen(r) \/ OpenSubscribeNamespace(r)
         \/ FinishRequest(r) \/ ResetRequest(r) \/ DropSubscribeNamespace(r) \/ ForceReset(r)
         \/ RecvMessage(r) \/ EndOfResponse(r) \/ EndWithoutResponse(r) \/ NextEvent(r)
  PROVE  NamespacesInv'
<1> USE DEF askingVars, answeringVars
<1>0. /\ nsr \in [Requests -> AskState] /\ handle \in [Requests -> {"none", "held", "finished", "reset", "dropped"}]
      /\ up \in [Requests -> {"none", "open", "fin", "reset"}] /\ down \in [Requests -> BackStream]
      /\ applied \in [Requests -> SUBSET Suffixes] /\ prefixes \subseteq Requests
      /\ failure \in {"no", "ProtocolViolation", "DecodeError", "ReadError", "HeaderTimeout"} /\ failure # "ProtocolViolation"
  BY DEF NamespacesInv, NamespaceTypes
<1>1. RequestInv(r) /\ NamespaceTypes /\ ActiveInv
  BY DEF NamespacesInv
<1>2. nsr[r] \in AskState /\ down[r] \in BackStream /\ nss[r] \in AnswerState
  BY <1>0, <1>1 DEF NamespaceTypes
<1>3. UNCHANGED <<nss, app, activePrefixes>>
  BY DEF SubscribeNamespace, AbandonOpen, OpenSubscribeNamespace, FinishRequest, ResetRequest, DropSubscribeNamespace,
         ForceReset, RecvMessage, EndOfResponse, EndWithoutResponse, NextEvent
<1>4. ActiveInv' /\ Others(nss, nss', r) /\ Others(app, app', r)
  BY <1>1, <1>3 DEF ActiveInv, Others
<1>5. \A f : Others(f, f, r)
  BY DEF Others
<1>6. ASSUME nsr' \in [Requests -> AskState], handle' \in [Requests -> {"none", "held", "finished", "reset", "dropped"}],
             up' \in [Requests -> {"none", "open", "fin", "reset"}], down' \in [Requests -> BackStream],
             applied' \in [Requests -> SUBSET Suffixes], failure' \in {"no", "DecodeError", "ReadError", "HeaderTimeout"},
             Others(nsr, nsr', r), Others(handle, handle', r), Others(up, up', r), Others(down, down', r),
             Others(applied, applied', r), prefixes' \subseteq prefixes \cup {r}, RequestInv(r)'
      PROVE  NamespacesInv'
  <2>1. NamespaceTypes'
    BY <1>0, <1>1, <1>3, <1>6 DEF NamespaceTypes
  <2>2. QED
    BY <1>4, <1>6, <2>1, OneRequest
<1>10. CASE SubscribeNamespace(r)
  <2>1. /\ nsr' = [nsr EXCEPT ![r].st = "opening"] /\ nsr[r].st = "idle" /\ prefixes' = prefixes \cup {r}
        /\ UNCHANGED <<handle, applied, up, down, failure>>
    BY <1>10 DEF SubscribeNamespace
  <2>2. nsr' \in [Requests -> AskState] /\ Others(nsr, nsr', r)
        /\ AskIs(nsr'[r], "opening", nsr[r].responded, nsr[r].known, nsr[r].events)
    BY <1>0, <2>1, AskSt
  <2>3. RequestInv(r)'
    BY <1>1, <1>3, <2>1, <2>2 DEF RequestInv, Pipe, AskIs
  <2>4. QED
    BY <1>0, <1>5, <1>6, <2>1, <2>2, <2>3
<1>11. CASE AbandonOpen(r) \/ FinishRequest(r) \/ ResetRequest(r) \/ DropSubscribeNamespace(r)
  <2>1. /\ UNCHANGED <<nsr, applied, down, failure>> /\ prefixes' \subseteq prefixes
        /\ handle'[r] # "none" /\ Others(handle, handle', r) /\ Others(up, up', r)
        /\ handle' \in [Requests -> {"none", "held", "finished", "reset", "dropped"}]
        /\ up' \in [Requests -> {"none", "open", "fin", "reset"}]
        /\ \/ nsr[r].st = "opening" /\ handle'[r] = "dropped" /\ up' = up
           \/ handle[r] \in {"held", "finished", "reset"} /\ (up[r] # "none" => up'[r] # "none")
    BY <1>0, <1>11 DEF AbandonOpen, FinishRequest, ResetRequest, DropSubscribeNamespace, DroppedUp, Others
  <2>2. RequestInv(r)'
    <3>1. CASE nsr[r].st = "opening" /\ handle'[r] = "dropped" /\ up' = up
      BY <1>1, <1>3, <2>1, <3>1 DEF RequestInv, Pipe
    <3>2. CASE handle[r] \in {"held", "finished", "reset"} /\ (up[r] # "none" => up'[r] # "none")
      <4>1. nsr[r].st \in {"running", "ended"} /\ up[r] # "none"
        BY <1>1, <1>2, <3>2 DEF RequestInv, AskState
      <4>2. QED
        BY <1>1, <1>3, <2>1, <3>2, <4>1 DEF RequestInv, Pipe
    <3>3. QED
      BY <2>1, <3>1, <3>2
  <2>3. QED
    BY <1>0, <1>5, <1>6, <2>1, <2>2
<1>12. CASE OpenSubscribeNamespace(r)
  <2>1. nsr[r].st = "opening" /\ UNCHANGED <<applied, failure>>
    BY <1>12 DEF OpenSubscribeNamespace
  <2>2. CASE handle[r] = "none"
    <3>1. /\ handle' = [handle EXCEPT ![r] = "held"] /\ up' = [up EXCEPT ![r] = "open"]
          /\ nsr' = [nsr EXCEPT ![r].st = "running"] /\ UNCHANGED <<prefixes, down>>
      BY <1>12, <2>2 DEF OpenSubscribeNamespace
    <3>2. nsr' \in [Requests -> AskState] /\ Others(nsr, nsr', r)
          /\ AskIs(nsr'[r], "running", nsr[r].responded, nsr[r].known, nsr[r].events)
      BY <1>0, <3>1, AskSt
    <3>3. handle'[r] = "held" /\ up'[r] = "open" /\ Others(handle, handle', r) /\ Others(up, up', r)
          /\ handle' \in [Requests -> {"none", "held", "finished", "reset", "dropped"}]
          /\ up' \in [Requests -> {"none", "open", "fin", "reset"}]
      BY <1>0, <3>1 DEF Others
    <3>4. RequestInv(r)'
      BY <1>1, <1>3, <2>1, <3>1, <3>2, <3>3 DEF RequestInv, Pipe, AskIs
    <3>5. QED
      BY <1>0, <1>5, <1>6, <2>1, <3>1, <3>2, <3>3, <3>4
  <2>3. CASE handle[r] # "none"
    <3>1. /\ up' = [up EXCEPT ![r] = "fin"] /\ down' = [down EXCEPT ![r].stopped = TRUE]
          /\ nsr' = [nsr EXCEPT ![r].st = "ended"] /\ prefixes' = prefixes \ {r} /\ handle' = handle
      BY <1>12, <2>3 DEF OpenSubscribeNamespace
    <3>2. nsr' \in [Requests -> AskState] /\ Others(nsr, nsr', r)
          /\ AskIs(nsr'[r], "ended", nsr[r].responded, nsr[r].known, nsr[r].events)
      BY <1>0, <3>1, AskSt
    <3>3. up'[r] = "fin" /\ Others(up, up', r) /\ up' \in [Requests -> {"none", "open", "fin", "reset"}]
      BY <1>0, <3>1 DEF Others
    <3>4. down' \in [Requests -> BackStream] /\ Others(down, down', r) /\ BackIs(down'[r], down[r].msgs, down[r].end)
      BY <1>0, <3>1, BackStopped
    <3>5. RequestInv(r)'
      BY <1>1, <1>3, <2>1, <3>1, <3>2, <3>3, <3>4 DEF RequestInv, Pipe, AskIs, BackIs
    <3>6. QED
      BY <1>0, <1>5, <1>6, <2>1, <3>1, <3>2, <3>3, <3>4, <3>5
  <2>4. QED
    BY <2>2, <2>3
<1>13. CASE ForceReset(r) \/ EndOfResponse(r)
  <2>1. /\ nsr[r].st = "running" /\ nsr' = [nsr EXCEPT ![r] = [nsr[r] EXCEPT !.st = "ended"]]
        /\ prefixes' = prefixes \ {r} /\ down' = [down EXCEPT ![r].stopped = TRUE]
        /\ UNCHANGED <<handle, applied, up, failure>>
    BY <1>13 DEF ForceReset, EndOfResponse, RecvEnds, Reading
  <2>2. nsr' \in [Requests -> AskState] /\ Others(nsr, nsr', r)
        /\ AskIs(nsr'[r], "ended", nsr[r].responded, nsr[r].known, nsr[r].events)
    BY <1>0, <1>2, <2>1, AskEnds
  <2>3. down' \in [Requests -> BackStream] /\ Others(down, down', r) /\ BackIs(down'[r], down[r].msgs, down[r].end)
    BY <1>0, <2>1, BackStopped
  <2>4. RequestInv(r)'
    BY <1>1, <1>3, <2>1, <2>2, <2>3 DEF RequestInv, Pipe, AskIs, BackIs
  <2>5. QED
    BY <1>0, <1>5, <1>6, <2>1, <2>2, <2>3, <2>4
<1>14. CASE EndWithoutResponse(r)
  <2>1. UNCHANGED <<nsr, handle, prefixes, applied, up, down>> /\ failure' = "DecodeError"
    BY <1>14 DEF EndWithoutResponse
  <2>2. RequestInv(r)'
    BY <1>1, <1>3, <2>1 DEF RequestInv, Pipe
  <2>3. QED
    BY <1>0, <1>5, <1>6, <2>1, <2>2
<1>15. CASE NextEvent(r)
  <2>1. /\ applied' = [applied EXCEPT ![r] = Told(applied[r], Head(nsr[r].events))] /\ nsr[r].events # <<>>
        /\ nsr' = [nsr EXCEPT ![r].events = Tail(@)] /\ UNCHANGED <<handle, prefixes, up, down, failure>>
    BY <1>15 DEF NextEvent, Told
  <2>2. nsr[r].events \in Seq(NameMsg) /\ nsr[r].events \in Seq(StreamMsg)
        /\ Head(nsr[r].events) \in NameMsg /\ applied[r] \in SUBSET Suffixes
    <3>1. nsr[r].events \in Seq(NameMsg) /\ applied[r] \in SUBSET Suffixes
      BY <1>0, <1>2 DEF AskState
    <3>2. NameMsg \subseteq StreamMsg
      BY DEF StreamMsg
    <3>3. \A i \in 1 .. Len(nsr[r].events) : nsr[r].events[i] \in StreamMsg
      BY <3>1, <3>2, ElementOfSeq
    <3>4. nsr[r].events = [i \in 1 .. Len(nsr[r].events) |-> nsr[r].events[i]] /\ Len(nsr[r].events) \in Nat
      BY <3>1
    <3>5. nsr[r].events \in Seq(StreamMsg)
      BY <3>3, <3>4, IsASeq
    <3>6. Head(nsr[r].events) \in NameMsg
      BY <2>1, <3>1
    <3>7. QED
      BY <3>1, <3>5, <3>6
  <2>3. nsr' \in [Requests -> AskState] /\ Others(nsr, nsr', r)
        /\ AskIs(nsr'[r], nsr[r].st, nsr[r].responded, nsr[r].known, Tail(nsr[r].events))
    BY <1>0, <2>1, AskTaken
  <2>4. Told(applied[r], Head(nsr[r].events)) \in SUBSET Suffixes
    BY <2>2 DEF Told, KnownAfter, NameMsg
  <2>5. applied' \in [Requests -> SUBSET Suffixes] /\ Others(applied, applied', r)
        /\ applied'[r] = Told(applied[r], Head(nsr[r].events))
    BY <1>0, <2>1, <2>4 DEF Others
  <2>6. After(applied'[r], Tail(nsr[r].events)) = After(applied[r], nsr[r].events)
    BY <2>1, <2>2, <2>5, NamesRead DEF NamespaceStreamsAssumption
  <2>7. RequestInv(r)'
    BY <1>1, <1>3, <2>1, <2>3, <2>6 DEF RequestInv, Pipe, AskIs
  <2>8. QED
    BY <1>0, <1>5, <1>6, <2>1, <2>3, <2>5, <2>7
<1>16. CASE RecvMessage(r)
  <2> DEFINE m == Head(down[r].msgs)
             s == nsr[r]
             q == Pipe(r)
  <2>1. /\ down[r].msgs # <<>> /\ nsr[r].st = "running" /\ handle[r] \in {"held", "finished"}
        /\ UNCHANGED <<handle, applied, up>>
    BY <1>16 DEF RecvMessage, Reading
  <2>2. down[r].msgs \in Seq(StreamMsg) /\ nss[r].queue \in Seq(StreamMsg)
    BY <1>2 DEF BackStream, AnswerState
  <2>3. q \in Seq(StreamMsg) /\ q # <<>> /\ Head(q) = m /\ m \in StreamMsg /\ Tail(q) = Tail(down[r].msgs) \o nss[r].queue
    <3>1. PICK a \in Seq(StreamMsg), b \in Seq(StreamMsg) : a = down[r].msgs /\ b = nss[r].queue
      BY <2>2
    <3>2. a # <<>> /\ q = a \o b
      BY <2>1, <3>1 DEF Pipe
    <3>3. /\ a \o b \in Seq(StreamMsg) /\ a \o b # <<>> /\ Head(a \o b) = Head(a) /\ Head(a) \in StreamMsg
          /\ Tail(a \o b) = Tail(a) \o b
      BY <3>2, PipeMoves
    <3>4. QED
      BY <3>1, <3>2, <3>3
  <2>4. /\ s.known \in SUBSET Suffixes /\ s.responded \in BOOLEAN /\ s.events \in Seq(NameMsg)
        /\ "none" \notin Suffixes
    BY <1>2 DEF AskState, NamespaceStreamsAssumption
  <2>5. /\ RespondsFirst(s.responded, q) /\ InOrder(s.known, q)
        /\ app[r] = "held" /\ ~nss[r].closed => After(s.known, q) = nss[r].names
        /\ app[r] \notin {"none", "queued"} /\ nss[r].st # "none"
    BY <1>1, <2>1 DEF RequestInv
  <2>6. /\ RespondsFirst(TRUE, Tail(q)) /\ IF s.responded THEN m \in NameMsg ELSE m \in Response
        /\ m \in NameMsg => After(Told(s.known, m), Tail(q)) = After(s.known, q) /\ InOrder(Told(s.known, m), Tail(q))
        /\ m \in NameMsg /\ m.type = "NamespaceDone" => m.suffix \in s.known
        /\ m \in Response => After(s.known, Tail(q)) = After(s.known, q) /\ InOrder(s.known, Tail(q))
    BY ZenonT(30), <2>3, <2>4, <2>5, NamesRead
  <2>7. \A d \in [Requests -> BackStream] : d[r].msgs = Tail(down[r].msgs) => d[r].msgs \o nss[r].queue = Tail(q)
    BY <2>3
  <2>8. LET d == [down EXCEPT ![r].msgs = Tail(@)]
        IN d \in [Requests -> BackStream] /\ Others(down, d, r) /\ BackIs(d[r], Tail(down[r].msgs), down[r].end)
    BY <1>0, <2>1, BackRead
  <2>9. /\ m \in NameMsg => m.type \in {"Namespace", "NamespaceDone"} /\ m.suffix \in Suffixes
        /\ m \in Response => m.type \in {"RequestOk", "RequestError"}
    BY DEF NameMsg, Response
  <2>10. m \in NameMsg => AcceptsName(s, m)
    BY <2>4, <2>6, <2>9, NamesFit DEF AcceptsName
  <2> HIDE DEF m, q
  <2>11. CASE m.type = "RequestOk" /\ ~s.responded /\ nsr' = [nsr EXCEPT ![r].responded = TRUE, ![r].ok = TRUE]
              /\ down' = [down EXCEPT ![r].msgs = Tail(@)] /\ UNCHANGED <<prefixes, failure>>
    <3>1. nsr' \in [Requests -> AskState] /\ Others(nsr, nsr', r)
          /\ AskIs(nsr'[r], nsr[r].st, TRUE, nsr[r].known, nsr[r].events)
      BY <1>0, <2>11, AskOk
    <3>2. down' \in [Requests -> BackStream] /\ Others(down, down', r) /\ BackIs(down'[r], Tail(down[r].msgs), down[r].end)
      BY <2>8, <2>11
    <3>3. Pipe(r)' = Tail(q)
      BY <1>3, <2>7, <3>2 DEF Pipe, BackIs
    <3>4. m \in Response
      BY <2>6, <2>11
    <3>5. RequestInv(r)'
      BY <1>1, <1>3, <2>1, <2>5, <2>6, <2>11, <3>1, <3>2, <3>3, <3>4 DEF RequestInv, AskIs, BackIs
    <3>6. QED
      BY <1>0, <1>5, <1>6, <2>1, <2>11, <3>1, <3>2, <3>5
  <2>12. CASE m.type = "RequestError" /\ ~s.responded /\ RecvEnds(r, [s EXCEPT !.responded = TRUE, !.closed = TRUE])
              /\ down' = [[down EXCEPT ![r].msgs = Tail(@)] EXCEPT ![r].stopped = TRUE] /\ failure' = failure
    <3>1. [s EXCEPT !.responded = TRUE, !.closed = TRUE] \in AskState
          /\ AskIs([s EXCEPT !.responded = TRUE, !.closed = TRUE], s.st, TRUE, s.known, s.events)
      BY <1>2 DEF AskState, AskIs
    <3>2. nsr' = [nsr EXCEPT ![r] = [[s EXCEPT !.responded = TRUE, !.closed = TRUE] EXCEPT !.st = "ended"]]
          /\ prefixes' = prefixes \ {r}
      BY <2>12 DEF RecvEnds
    <3>3. nsr' \in [Requests -> AskState] /\ Others(nsr, nsr', r) /\ AskIs(nsr'[r], "ended", TRUE, s.known, s.events)
      <4> DEFINE c == [s EXCEPT !.responded = TRUE, !.closed = TRUE]
      <4>1. c \in AskState /\ AskIs(c, s.st, TRUE, s.known, s.events) /\ nsr' = [nsr EXCEPT ![r] = [c EXCEPT !.st = "ended"]]
        BY <3>1, <3>2
      <4> HIDE DEF c
      <4>2. nsr' \in [Requests -> AskState] /\ Others(nsr, nsr', r) /\ AskIs(nsr'[r], "ended", c.responded, c.known, c.events)
        BY <1>0, <4>1, AskEnds
      <4>3. QED
        BY <4>1, <4>2 DEF AskIs
    <3>4. down' \in [Requests -> BackStream] /\ Others(down, down', r) /\ BackIs(down'[r], Tail(down[r].msgs), down[r].end)
      <4> DEFINE d == [down EXCEPT ![r].msgs = Tail(@)]
      <4>1. d \in [Requests -> BackStream] /\ Others(down, d, r) /\ BackIs(d[r], Tail(down[r].msgs), down[r].end)
            /\ down' = [d EXCEPT ![r].stopped = TRUE]
        BY <2>8, <2>12
      <4> HIDE DEF d
      <4>2. down' \in [Requests -> BackStream] /\ Others(d, down', r) /\ BackIs(down'[r], d[r].msgs, d[r].end)
        BY <4>1, BackStopped
      <4>3. QED
        BY <4>1, <4>2 DEF Others, BackIs
    <3>5. RequestInv(r)'
      BY <1>1, <1>3, <2>1, <2>5, <2>12, <3>2, <3>3, <3>4 DEF RequestInv, AskIs, BackIs
    <3>6. QED
      BY <1>0, <1>5, <1>6, <2>1, <2>12, <3>2, <3>3, <3>4, <3>5
  <2>13. CASE s.responded /\ nsr' = [nsr EXCEPT ![r].known = KnownAfter(s, m), ![r].events = Append(@, m)]
              /\ m.type \in {"Namespace", "NamespaceDone"}
              /\ down' = [down EXCEPT ![r].msgs = Tail(@)] /\ UNCHANGED <<prefixes, failure>>
    <3>1. m \in NameMsg /\ KnownAfter(s, m) = Told(s.known, m)
      BY <2>6, <2>13 DEF KnownAfter, Told
    <3>2. Told(s.known, m) \in SUBSET Suffixes
      BY <2>4, <2>9, <3>1 DEF Told, KnownAfter
    <3>3. nsr' \in [Requests -> AskState] /\ Others(nsr, nsr', r)
          /\ AskIs(nsr'[r], s.st, s.responded, Told(s.known, m), Append(s.events, m))
      BY <1>0, <2>13, <3>1, <3>2, AskTold
    <3>4. down' \in [Requests -> BackStream] /\ Others(down, down', r) /\ BackIs(down'[r], Tail(down[r].msgs), down[r].end)
      BY <2>8, <2>13
    <3>5. Pipe(r)' = Tail(q)
      BY <1>3, <2>7, <3>4 DEF Pipe, BackIs
    <3>6. s.events \in Seq(StreamMsg) /\ m \in StreamMsg
      <4>1. Len(s.events) \in Nat /\ s.events = [i \in 1 .. Len(s.events) |-> s.events[i]]
            /\ \A i \in 1 .. Len(s.events) : s.events[i] \in NameMsg
        BY <2>4, ElementOfSeq
      <4>2. \A i \in 1 .. Len(s.events) : s.events[i] \in StreamMsg
        BY <4>1 DEF StreamMsg
      <4>3. QED
        BY <2>3, <4>1, <4>2, IsASeq
    <3>7. After(applied[r], Append(s.events, m)) = Told(After(applied[r], s.events), m)
      BY <2>4, <3>1, <3>6, MoreNames
    <3>8. After(applied[r], s.events) = s.known
      BY <1>1 DEF RequestInv
    <3>9. RequestInv(r)'
      BY ZenonT(30), <1>1, <1>3, <2>1, <2>5, <2>6, <2>13, <3>1, <3>3, <3>4, <3>5, <3>7, <3>8 DEF RequestInv, AskIs, BackIs
    <3>10. QED
      BY <1>0, <1>5, <1>6, <2>1, <2>13, <3>3, <3>4, <3>9
  <2>14. ~(IF m.type \in {"Namespace", "NamespaceDone"} THEN ~(s.responded /\ AcceptsName(s, m)) ELSE s.responded)
    BY <2>6, <2>9, <2>10
  <2>15. QED
    BY <1>16, <2>11, <2>12, <2>13, <2>14 DEF RecvMessage, m, s
<1>17. QED
  BY <1>10, <1>11, <1>12, <1>13, <1>14, <1>15, <1>16

\* The side that answers moves.
LEMMA AnsweringStep ==
  ASSUME NamespaceStreamsAssumption, NamespacesInv, NEW r \in Requests,
         \/ AcceptNamespaceStream(r) \/ AcceptFails(r) \/ AcceptRequest(r) \/ RejectRequest(r)
         \/ \E type \in {"Namespace", "NamespaceDone"}, x \in Suffixes : SendName(r, type, x)
         \/ DropSubscribedNamespace(r) \/ SendMessage(r) \/ FinishResponse(r)
         \/ SeeRequestFin(r) \/ SeeRequestReset(r)
  PROVE  NamespacesInv'
<1> USE DEF askingVars, answeringVars
<1>0. /\ nss \in [Requests -> AnswerState] /\ down \in [Requests -> BackStream]
      /\ app \in [Requests -> {"none", "queued", "held", "dropped", "refused"}] /\ activePrefixes \subseteq Requests
      /\ failure \in {"no", "ProtocolViolation", "DecodeError", "ReadError", "HeaderTimeout"} /\ failure # "ProtocolViolation"
  BY DEF NamespacesInv, NamespaceTypes
<1>1. RequestInv(r) /\ NamespaceTypes /\ ActiveInv
  BY DEF NamespacesInv
<1>2. nsr[r] \in AskState /\ down[r] \in BackStream /\ nss[r] \in AnswerState
  BY <1>0, <1>1 DEF NamespaceTypes
<1>3. UNCHANGED <<nsr, handle, prefixes, applied, up>>
  BY DEF AcceptNamespaceStream, AcceptFails, AcceptRequest, RejectRequest, SendName, DropSubscribedNamespace,
         SendMessage, FinishResponse, SeeRequestFin, SeeRequestReset
<1>4. \A f : Others(f, f, r)
  BY DEF Others
<1>5. /\ down[r].msgs \in Seq(StreamMsg) /\ nss[r].queue \in Seq(StreamMsg)
      /\ nsr[r].known \in SUBSET Suffixes /\ nsr[r].responded \in BOOLEAN /\ nss[r].names \in SUBSET Suffixes
      /\ nss[r].closed \in BOOLEAN /\ Len(nss[r].queue) \in Nat
      /\ "none" \notin Suffixes /\ QueueCapacity \in Nat /\ QueueCapacity > 0
  BY <1>2 DEF BackStream, AnswerState, AskState, NamespaceStreamsAssumption
<1>6. ASSUME nss' \in [Requests -> AnswerState], down' \in [Requests -> BackStream],
             app' \in [Requests -> {"none", "queued", "held", "dropped", "refused"}],
             failure' \in {"no", "DecodeError", "ReadError", "HeaderTimeout"}, activePrefixes' \subseteq activePrefixes \cup {r},
             Others(nss, nss', r), Others(down, down', r), Others(app, app', r), RequestInv(r)',
             \/ activePrefixes' = activePrefixes /\ (Active(r)' <=> Active(r))
             \/ activePrefixes' = activePrefixes \ {r} /\ ~Active(r)'
             \/ activePrefixes = {} /\ activePrefixes' = activePrefixes \cup {r} /\ Active(r)'
      PROVE  NamespacesInv'
  <2>1. NamespaceTypes'
    BY <1>0, <1>1, <1>3, <1>6 DEF NamespaceTypes
  <2>2. ActiveInv'
    BY <1>1, <1>6, ActiveStep
  <2>3. /\ Others(nsr, nsr', r) /\ Others(handle, handle', r) /\ Others(up, up', r) /\ Others(applied, applied', r)
        /\ prefixes' \subseteq prefixes \cup {r}
    BY <1>3, <1>4
  <2>4. QED
    BY <1>6, <2>1, <2>2, <2>3, OneRequest
<1>7. Bare("RequestOk") \in Response /\ Bare("RequestError") \in Response /\ Response \subseteq StreamMsg /\ NameMsg \subseteq StreamMsg
      /\ Bare("RequestOk").type # "NamespaceDone" /\ Bare("RequestError").type # "NamespaceDone"
  BY DEF Bare, Msg, StreamMsg, Response
<1>8. ASSUME NEW m \in Response, m.type # "NamespaceDone", NEW x \in BOOLEAN, ~x
      PROVE  /\ <<m>> \in Seq(StreamMsg) /\ Len(<<m>>) = 1 /\ <<m>> # <<>>
             /\ RespondsFirst(x, <<m>>) /\ InOrder({}, <<m>>) /\ After({}, <<m>>) = {}
  <2>1. <<m>> \in Seq(StreamMsg) /\ Len(<<m>>) = 1 /\ <<m>>[1] = m /\ <<m>> # <<>>
    BY <1>7
  <2>2. m.suffix \notin Suffixes
    BY <1>5 DEF Response
  <2> DEFINE q == <<m>>
  <2> HIDE DEF q
  <2>3. Len(q) = 1 /\ q[1] = m
    BY <2>1 DEF q
  <2>4. RespondsFirst(x, q) /\ InOrder({}, q) /\ After({}, q) = {}
    BY <1>8, <2>2, <2>3 DEF RespondsFirst, InOrder, After
  <2>5. QED
    BY <2>1, <2>4 DEF q
<1>9. ASSUME NEW m \in StreamMsg PROVE down[r].msgs \o Append(nss[r].queue, m) = Append(Pipe(r), m) /\ Pipe(r) \in Seq(StreamMsg)
  <2>1. PICK a \in Seq(StreamMsg) : a = down[r].msgs
    BY <1>5
  <2>2. PICK b \in Seq(StreamMsg) : b = nss[r].queue
    BY <1>5
  <2>3. a \o Append(b, m) = Append(a \o b, m) /\ a \o b \in Seq(StreamMsg)
    BY PipeMoves
  <2>4. QED
    BY <2>1, <2>2, <2>3 DEF Pipe
<1>10. ASSUME app[r] = "queued", NEW m \in Response, m.type # "NamespaceDone", NEW x \in BOOLEAN, ~x
       PROVE  /\ down[r].msgs \o Append(nss[r].queue, m) = <<m>> /\ Len(Append(nss[r].queue, m)) = 1
              /\ RespondsFirst(x, <<m>>) /\ InOrder({}, <<m>>) /\ After({}, <<m>>) = {} /\ <<m>> # <<>>
  <2>1. down[r].msgs = <<>> /\ nss[r].queue = <<>>
    BY <1>1, <1>10 DEF RequestInv
  <2>2. Append(<<>>, m) = <<m>> /\ <<>> \o <<m>> = <<m>> /\ Len(<<m>>) = 1
    <3>1. Append(<<>>, m) = <<m>> /\ Len(<<m>>) = 1 /\ <<m>> \in Seq(StreamMsg) /\ <<>> \in Seq(StreamMsg)
      BY <1>7
    <3>2. QED
      BY <3>1, PipeMoves
  <2>3. QED
    BY <1>8, <1>10, <2>1, <2>2
<1>11. CASE AcceptFails(r)
  <2>1. UNCHANGED <<nss, app, activePrefixes, down>> /\ failure' \in {"ReadError", "HeaderTimeout"}
    BY <1>11 DEF AcceptFails
  <2>2. RequestInv(r)'
    BY <1>1, <1>3, <2>1 DEF RequestInv, Pipe
  <2>3. Active(r)' <=> Active(r)
    BY <2>1 DEF Active
  <2>4. QED
    BY <1>0, <1>4, <1>6, <2>1, <2>2, <2>3
<1>12. CASE DropSubscribedNamespace(r)
  <2>1. /\ app[r] = "held" /\ app' = [app EXCEPT ![r] = "dropped"] /\ UNCHANGED <<nss, activePrefixes, down, failure>>
    BY <1>12 DEF DropSubscribedNamespace
  <2>2. app' \in [Requests -> {"none", "queued", "held", "dropped", "refused"}] /\ Others(app, app', r) /\ app'[r] = "dropped"
    BY <1>0, <2>1 DEF Others
  <2>3. RequestInv(r)'
    BY <1>1, <1>3, <2>1, <2>2 DEF RequestInv, Pipe
  <2>4. Active(r)' <=> Active(r)
    BY <2>1, <2>2 DEF Active
  <2>5. QED
    BY <1>0, <1>4, <1>6, <2>1, <2>2, <2>3, <2>4
<1>13. CASE AcceptNamespaceStream(r)
  <2>1. up[r] # "none" /\ nss[r].st = "none" /\ UNCHANGED <<down, failure>> /\ RecvSubscribeNamespace(r)
    BY <1>13 DEF AcceptNamespaceStream
  <2>2. down[r].msgs = <<>> /\ nss[r].queue = <<>> /\ app[r] = "none" /\ down[r].end = "no" /\ nss[r].names = {}
        /\ ~nsr[r].responded /\ nsr[r].known = {}
    BY <1>1, <2>1 DEF RequestInv
  <2>3. CASE activePrefixes # {}
    <3> DEFINE u == <<Bare("RequestError")>>
    <3>1. u \in Seq(StreamMsg) /\ Len(u) = 1 /\ RespondsFirst(nsr[r].responded, u) /\ InOrder({}, u) /\ u # <<>>
      BY <1>5, <1>7, <1>8, <2>2
    <3>2. nss' = [nss EXCEPT ![r].st = "running", ![r].queue = u] /\ app' = [app EXCEPT ![r] = "refused"]
          /\ activePrefixes' = activePrefixes
      BY <2>1, <2>3 DEF RecvSubscribeNamespace
    <3> HIDE DEF u
    <3>3. nss' \in [Requests -> AnswerState] /\ Others(nss, nss', r)
          /\ AnswerIs(nss'[r], "running", nss[r].responded, nss[r].closed, nss[r].names, u)
      BY <1>0, <3>1, <3>2, AnswerRefuses
    <3>4. app' \in [Requests -> {"none", "queued", "held", "dropped", "refused"}] /\ Others(app, app', r) /\ app'[r] = "refused"
      BY <1>0, <3>2 DEF Others
    <3>5. Pipe(r)' = u
      BY <2>1, <2>2, <3>1, <3>3, PipeMoves DEF Pipe, AnswerIs
    <3>6. RequestInv(r)'
      <4>1. nss'[r].st = "running" /\ nss'[r].queue = u /\ Len(u) <= QueueCapacity /\ app'[r] = "refused"
            /\ down' = down
        BY <1>5, <2>1, <3>1, <3>3, <3>4 DEF AnswerIs
      <4>2. RespondsFirst(nsr[r].responded, u) /\ InOrder(nsr[r].known, u)
        BY <2>2, <3>1
      <4>3. QED
        BY <1>1, <1>3, <2>1, <2>2, <3>5, <4>1, <4>2 DEF RequestInv
    <3>7. ~Active(r)' /\ ~Active(r)
      BY <2>1, <3>4 DEF Active
    <3>8. QED
      BY <1>0, <1>4, <1>6, <2>1, <3>2, <3>3, <3>4, <3>6, <3>7
  <2>4. CASE activePrefixes = {}
    <3>1. nss' = [nss EXCEPT ![r].st = "running"] /\ app' = [app EXCEPT ![r] = "queued"]
          /\ activePrefixes' = activePrefixes \cup {r}
      BY <2>1, <2>4 DEF RecvSubscribeNamespace
    <3>2. nss' \in [Requests -> AnswerState] /\ Others(nss, nss', r)
          /\ AnswerIs(nss'[r], "running", nss[r].responded, nss[r].closed, nss[r].names, nss[r].queue)
      BY <1>0, <3>1, AnswerStarts
    <3>3. app' \in [Requests -> {"none", "queued", "held", "dropped", "refused"}] /\ Others(app, app', r) /\ app'[r] = "queued"
      BY <1>0, <3>1 DEF Others
    <3>4. Pipe(r)' = Pipe(r)
      BY <2>1, <3>2 DEF Pipe, AnswerIs
    <3>5. RequestInv(r)'
      BY <1>1, <1>3, <2>1, <2>2, <3>2, <3>3, <3>4 DEF RequestInv, AnswerIs
    <3>6. Active(r)'
      BY <3>2, <3>3 DEF Active, AnswerIs
    <3>7. QED
      BY <1>0, <1>4, <1>6, <2>1, <2>4, <3>1, <3>2, <3>3, <3>5, <3>6
  <2>5. QED
    BY <2>3, <2>4
<1>14. ASSUME app[r] = "queued", UNCHANGED <<activePrefixes, down, failure>>, NEW a \in {"held", "dropped"},
              app' = [app EXCEPT ![r] = a],
              \/ nss' = nss /\ a = "dropped"
              \/ nss' = [nss EXCEPT ![r] = [nss[r] EXCEPT !.responded = TRUE]] /\ a = "dropped"
              \/ \E m \in {Bare("RequestOk"), Bare("RequestError")} :
                   /\ HasRoom(r) /\ nss' = [nss EXCEPT ![r] = Queued([nss[r] EXCEPT !.responded = TRUE], m)]
       PROVE  NamespacesInv'
  <2>1. app' \in [Requests -> {"none", "queued", "held", "dropped", "refused"}] /\ Others(app, app', r) /\ app'[r] = a
    BY <1>0, <1>14 DEF Others
  <2>2. down[r].msgs = <<>> /\ nss[r].queue = <<>> /\ nss[r].st # "none" /\ ~nsr[r].responded /\ nss[r].names = {} /\ nsr[r].known = {}
    BY <1>1, <1>14 DEF RequestInv
  <2>3. CASE a = "dropped" /\ nss'[r].st = nss[r].st /\ nss'[r].queue = nss[r].queue
             /\ nss' \in [Requests -> AnswerState] /\ Others(nss, nss', r)
    <3>1. Pipe(r)' = Pipe(r)
      BY <1>14, <2>3 DEF Pipe
    <3>2. RequestInv(r)'
      BY <1>1, <1>3, <1>14, <2>1, <2>2, <2>3, <3>1 DEF RequestInv
    <3>3. Active(r)' <=> Active(r)
      BY <1>14, <2>1, <2>3 DEF Active
    <3>4. QED
      BY <1>0, <1>4, <1>6, <1>14, <2>1, <2>3, <3>2, <3>3
  <2>4. ASSUME NEW m \in {Bare("RequestOk"), Bare("RequestError")}, HasRoom(r),
               nss' = [nss EXCEPT ![r] = Queued([nss[r] EXCEPT !.responded = TRUE], m)]
        PROVE  NamespacesInv'
    <3>1. m \in Response /\ m \in StreamMsg /\ m.type # "NamespaceDone"
      BY <1>7
    <3>2. PICK c \in AnswerState : c = Queued([nss[r] EXCEPT !.responded = TRUE], m)
                                   /\ AnswerIs(c, nss[r].st, TRUE, nss[r].closed, nss[r].names, Append(nss[r].queue, m))
      <4>1. PICK b \in AnswerState : b = [nss[r] EXCEPT !.responded = TRUE]
                                     /\ AnswerIs(b, nss[r].st, TRUE, nss[r].closed, nss[r].names, nss[r].queue)
        BY <1>2, <1>5, <3>1, AnswerFields
      <4>2. Queued(b, m) \in AnswerState /\ AnswerIs(Queued(b, m), b.st, b.responded, b.closed, b.names, Append(b.queue, m))
        BY <1>5, <3>1, AnswerFields
      <4>3. QED
        BY <4>1, <4>2 DEF AnswerIs
    <3>3. nss' \in [Requests -> AnswerState] /\ Others(nss, nss', r) /\ nss'[r] = c
      BY <1>0, <2>4, <3>2 DEF Others
    <3>4. /\ Pipe(r)' = <<m>> /\ Len(nss'[r].queue) = 1 /\ <<m>> # <<>>
          /\ RespondsFirst(nsr[r].responded, <<m>>) /\ InOrder({}, <<m>>) /\ After({}, <<m>>) = {}
      BY <1>5, <1>10, <1>14, <2>2, <3>1, <3>2, <3>3 DEF Pipe, AnswerIs
    <3>5. nss'[r].st = "running" /\ nss[r].st = "running"
      BY <2>4, <3>2, <3>3 DEF HasRoom, AnswerIs
    <3>6. nss'[r].names = {} /\ nss'[r].closed = nss[r].closed
      BY <2>2, <3>2, <3>3 DEF AnswerIs
    <3>7. RequestInv(r)'
      BY <1>1, <1>3, <1>5, <1>14, <2>1, <2>2, <3>4, <3>5, <3>6 DEF RequestInv
    <3>8. Active(r)' <=> Active(r)
      BY <1>14, <2>1, <3>5 DEF Active
    <3>9. QED
      BY <1>0, <1>4, <1>6, <1>14, <2>1, <3>3, <3>7, <3>8
  <2>5. CASE nss' = nss /\ a = "dropped"
    BY <1>0, <1>4, <2>3, <2>5
  <2>6. CASE nss' = [nss EXCEPT ![r] = [nss[r] EXCEPT !.responded = TRUE]] /\ a = "dropped"
    <3>1. PICK b \in AnswerState : b = [nss[r] EXCEPT !.responded = TRUE]
                                   /\ AnswerIs(b, nss[r].st, TRUE, nss[r].closed, nss[r].names, nss[r].queue)
      BY <1>2, <1>5, <1>7, AnswerFields
    <3>2. nss' \in [Requests -> AnswerState] /\ Others(nss, nss', r) /\ nss'[r] = b
      BY <1>0, <2>6, <3>1 DEF Others
    <3>3. QED
      BY <2>3, <2>6, <3>1, <3>2 DEF AnswerIs
  <2>7. QED
    BY <1>14, <2>4, <2>5, <2>6
<1>15. CASE AcceptRequest(r)
  <2>1. app[r] = "queued" /\ UNCHANGED <<activePrefixes, down, failure>>
    BY <1>15 DEF AcceptRequest
  <2>2. CASE MayRespond(r) /\ HasRoom(r)
    <3>1. app' = [app EXCEPT ![r] = "held"]
          /\ nss' = [nss EXCEPT ![r] = Queued([nss[r] EXCEPT !.responded = TRUE], Bare("RequestOk"))]
      BY <1>15, <2>2 DEF AcceptRequest
    <3>2. QED
      BY <1>14, <2>1, <2>2, <3>1
  <2>3. CASE MayRespond(r) /\ ~HasRoom(r)
    <3>1. app' = [app EXCEPT ![r] = "dropped"] /\ nss' = [nss EXCEPT ![r] = [nss[r] EXCEPT !.responded = TRUE]]
      BY <1>15, <2>3 DEF AcceptRequest
    <3>2. QED
      BY <1>14, <2>1, <3>1
  <2>4. CASE ~MayRespond(r)
    <3>1. app' = [app EXCEPT ![r] = "dropped"] /\ nss' = nss
      BY <1>15, <2>4 DEF AcceptRequest
    <3>2. QED
      BY <1>14, <2>1, <3>1
  <2>5. QED
    BY <2>2, <2>3, <2>4
<1>16. CASE RejectRequest(r)
  <2>1. app[r] = "queued" /\ UNCHANGED <<activePrefixes, down, failure>> /\ app' = [app EXCEPT ![r] = "dropped"]
    BY <1>16 DEF RejectRequest
  <2>2. CASE MayRespond(r) /\ HasRoom(r)
    <3>1. nss' = [nss EXCEPT ![r] = Queued([nss[r] EXCEPT !.responded = TRUE], Bare("RequestError"))]
      BY <1>16, <2>2 DEF RejectRequest
    <3>2. QED
      BY <1>14, <2>1, <2>2, <3>1
  <2>3. CASE ~(MayRespond(r) /\ HasRoom(r))
    <3>1. nss' = nss
      BY <1>16, <2>3 DEF RejectRequest
    <3>2. QED
      BY <1>14, <2>1, <3>1
  <2>4. QED
    BY <2>2, <2>3
<1>17. ASSUME NEW c \in AnswerState, c.names = nss[r].names, app[r] = "held" => c.closed,
              nss' = [nss EXCEPT ![r] = [c EXCEPT !.st = "ended", !.queue = <<>>]],
              activePrefixes' = activePrefixes \ {r}, down' = FinDown(r), nss[r].st # "none", UNCHANGED <<app, failure>>
       PROVE  NamespacesInv'
  <2>1. nss' \in [Requests -> AnswerState] /\ Others(nss, nss', r)
        /\ AnswerIs(nss'[r], "ended", c.responded, c.closed, c.names, <<>>)
    BY <1>0, <1>17, AnswerEnds
  <2>2. down' \in [Requests -> BackStream] /\ Others(down, down', r) /\ BackIs(down'[r], down[r].msgs, "fin")
    <3>1. CASE down[r].end = "no"
      <4>1. down' = [down EXCEPT ![r].end = "fin"]
        BY <1>17, <3>1 DEF FinDown
      <4>2. QED
        BY <1>0, <4>1, BackFin
    <3>2. CASE down[r].end = "fin"
      BY <1>0, <1>4, <1>17, <3>2 DEF FinDown, BackIs
    <3>3. QED
      BY <1>2, <3>1, <3>2 DEF BackStream
  <2>3. Pipe(r)' = down[r].msgs
    BY <1>5, <2>1, <2>2, PipeMoves DEF Pipe, AnswerIs, BackIs
  <2>4. nsr[r].st # "ended" => RespondsFirst(nsr[r].responded, down[r].msgs) /\ InOrder(nsr[r].known, down[r].msgs)
    BY <1>1, <1>5, NamesCut DEF RequestInv, Pipe
  <2>5. Len(<<>>) = 0 /\ 0 <= QueueCapacity
    BY <1>5
  <2>6. UNCHANGED app /\ nss[r].st # "none" /\ (app[r] = "held" => c.closed) /\ c.names = nss[r].names
    BY <1>17
  <2>7. nss[r].closed \in BOOLEAN /\ c.closed \in BOOLEAN
    BY <1>5 DEF AnswerState
  <2>9. RequestInv(r)'
    BY <1>1, <1>3, <2>1, <2>2, <2>3, <2>4, <2>5, <2>6, <2>7 DEF RequestInv, AnswerIs, BackIs
  <2>10. ~Active(r)'
    BY <2>1 DEF Active, AnswerIs
  <2>11. QED
    BY <1>0, <1>4, <1>6, <1>17, <2>1, <2>2, <2>9, <2>10
<1>18. CASE SendMessage(r)
  <2>1. nss[r].st \in {"running", "draining"} /\ nss[r].queue # <<>> /\ UNCHANGED <<app, failure>>
    BY <1>18 DEF SendMessage
  <2>2. CASE down[r].stopped
    <3>1. PICK c \in AnswerState : c = Cancelled(nss[r]) /\ c.names = nss[r].names /\ c.closed
      BY <1>2, <1>5, <1>7, AnswerFields DEF AnswerIs
    <3>2. nss' = [nss EXCEPT ![r] = [c EXCEPT !.st = "ended", !.queue = <<>>]]
          /\ activePrefixes' = activePrefixes \ {r} /\ down' = FinDown(r)
      BY <1>18, <2>2, <3>1 DEF SendMessage, ResponderEnds
    <3>3. QED
      BY <1>17, <2>1, <3>1, <3>2
  <2>3. CASE ~down[r].stopped
    <3>1. /\ down' = [down EXCEPT ![r].msgs = Append(@, Head(nss[r].queue))]
          /\ nss' = [nss EXCEPT ![r].queue = Tail(@)] /\ activePrefixes' = activePrefixes
      BY <1>18, <2>3 DEF SendMessage
    <3>2. Head(nss[r].queue) \in StreamMsg /\ Tail(nss[r].queue) \in Seq(StreamMsg)
          /\ Len(Tail(nss[r].queue)) = Len(nss[r].queue) - 1
      BY <1>5, <2>1
    <3>3. nss' \in [Requests -> AnswerState] /\ Others(nss, nss', r)
          /\ AnswerIs(nss'[r], nss[r].st, nss[r].responded, nss[r].closed, nss[r].names, Tail(nss[r].queue))
      BY <1>0, <2>1, <3>1, AnswerSent
    <3>4. down' \in [Requests -> BackStream] /\ Others(down, down', r)
          /\ BackIs(down'[r], Append(down[r].msgs, Head(nss[r].queue)), down[r].end)
      BY <1>0, <3>1, <3>2, BackSent
    <3>5. Pipe(r)' = Pipe(r)
      <4>1. PICK a \in Seq(StreamMsg) : a = down[r].msgs
        BY <1>5
      <4>2. PICK b \in Seq(StreamMsg) : b = nss[r].queue
        BY <1>5
      <4>3. Append(a, Head(b)) \o Tail(b) = a \o b
        <5>1. b # <<>>
          BY <2>1, <4>2
        <5>2. QED
          BY <5>1, PipeMoves
      <4>4. down'[r].msgs = Append(a, Head(b)) /\ nss'[r].queue = Tail(b)
        BY <3>3, <3>4, <4>1, <4>2 DEF AnswerIs, BackIs
      <4>5. QED
        BY <4>1, <4>2, <4>3, <4>4 DEF Pipe
    <3>6. app[r] \notin {"none", "queued"} /\ Len(Tail(nss[r].queue)) <= QueueCapacity
      <4>1. Len(nss[r].queue) <= QueueCapacity /\ app[r] \notin {"none", "queued"}
        BY <1>1, <2>1 DEF RequestInv
      <4>2. QED
        BY <1>5, <3>2, <4>1
    <3>7. RequestInv(r)'
      BY <1>1, <1>3, <2>1, <3>3, <3>4, <3>5, <3>6 DEF RequestInv, AnswerIs, BackIs
    <3>8. Active(r)' <=> Active(r)
      BY <2>1, <3>3 DEF Active, AnswerIs
    <3>9. QED
      BY <1>0, <1>4, <1>6, <2>1, <3>1, <3>3, <3>4, <3>7, <3>8
  <2>4. QED
    BY <2>2, <2>3
<1>19. CASE FinishResponse(r)
  <2>1. /\ nss[r].st \in {"running", "draining"} /\ UNCHANGED <<app, failure>>
        /\ nss[r].st = "draining" \/ app[r] \in {"dropped", "refused"}
        /\ nss' = [nss EXCEPT ![r] = [nss[r] EXCEPT !.st = "ended", !.queue = <<>>]]
        /\ activePrefixes' = activePrefixes \ {r} /\ down' = FinDown(r)
    BY <1>19 DEF FinishResponse, ResponderEnds
  <2>2. app[r] = "held" => nss[r].closed
    BY <1>1, <2>1 DEF RequestInv
  <2>3. QED
    BY <1>2, <1>17, <2>1, <2>2
<1>20. CASE SeeRequestReset(r)
  <2>1. nss[r].st = "running" /\ UNCHANGED <<app, failure>>
    BY <1>20 DEF SeeRequestReset
  <2>2. PICK c \in AnswerState : c = Cancelled(nss[r]) /\ c.names = nss[r].names /\ c.closed
    BY <1>2, <1>5, <1>7, AnswerFields DEF AnswerIs
  <2>3. nss' = [nss EXCEPT ![r] = [c EXCEPT !.st = "ended", !.queue = <<>>]]
        /\ activePrefixes' = activePrefixes \ {r} /\ down' = FinDown(r)
    BY <1>20, <2>2 DEF SeeRequestReset, ResponderEnds
  <2>4. QED
    BY <1>17, <2>1, <2>2, <2>3
<1>21. CASE SeeRequestFin(r)
  <2>1. /\ nss[r].st = "running" /\ UNCHANGED <<down, app, activePrefixes, failure>>
        /\ nss' = [nss EXCEPT ![r] = [Cancelled(nss[r]) EXCEPT !.st = "draining"]]
    BY <1>21 DEF SeeRequestFin
  <2>2. PICK c \in AnswerState : c = [Cancelled(nss[r]) EXCEPT !.st = "draining"]
                                 /\ AnswerIs(c, "draining", nss[r].responded, TRUE, nss[r].names, nss[r].queue)
    BY <1>2, <1>5, <1>7, AnswerFields
  <2>3. nss' \in [Requests -> AnswerState] /\ Others(nss, nss', r) /\ nss'[r] = c
    BY <1>0, <2>1, <2>2 DEF Others
  <2>4. Pipe(r)' = Pipe(r)
    BY <2>1, <2>2, <2>3 DEF Pipe, AnswerIs
  <2>5. RequestInv(r)'
    BY <1>1, <1>3, <2>1, <2>2, <2>3, <2>4 DEF RequestInv, AnswerIs
  <2>6. Active(r)' <=> Active(r)
    BY <2>1, <2>2, <2>3 DEF Active, AnswerIs
  <2>7. QED
    BY <1>0, <1>4, <1>6, <2>1, <2>3, <2>5, <2>6
<1>22. ASSUME NEW type \in {"Namespace", "NamespaceDone"}, NEW x \in Suffixes, SendName(r, type, x)
       PROVE  NamespacesInv'
  <2> DEFINE m == Msg(type, x)
             n == IF type = "Namespace" THEN nss[r].names \cup {x} ELSE nss[r].names \ {x}
  <2>1. /\ app[r] = "held" /\ UNCHANGED <<down, activePrefixes, failure>>
        /\ type = "NamespaceDone" => x \in nss[r].names
    BY <1>22 DEF SendName
  <2>2. m \in NameMsg /\ m \in StreamMsg /\ m.type = type /\ m.suffix = x
    BY <1>7 DEF m, Msg, NameMsg
  <2>3. n \in SUBSET Suffixes /\ n = Told(nss[r].names, m)
    BY <1>5, <2>2 DEF n, Told, KnownAfter
  <2>4. PICK b \in AnswerState : b = [nss[r] EXCEPT !.names = n]
                                 /\ AnswerIs(b, nss[r].st, nss[r].responded, nss[r].closed, n, nss[r].queue)
    BY <1>2, <2>2, <2>3, AnswerFields
  <2>5. CASE app' = [app EXCEPT ![r] = "dropped"] /\ nss' \in {nss, [nss EXCEPT ![r] = b]}
    <3>1. app' \in [Requests -> {"none", "queued", "held", "dropped", "refused"}] /\ Others(app, app', r) /\ app'[r] = "dropped"
      BY <1>0, <2>5 DEF Others
    <3>2. /\ nss' \in [Requests -> AnswerState] /\ Others(nss, nss', r)
          /\ nss'[r].st = nss[r].st /\ nss'[r].queue = nss[r].queue
      <4>1. CASE nss' = nss
        BY <1>0, <1>4, <4>1
      <4>2. CASE nss' = [nss EXCEPT ![r] = b]
        BY <1>0, <2>4, <4>2 DEF Others, AnswerIs
      <4>3. QED
        BY <2>5, <4>1, <4>2
    <3>3. Pipe(r)' = Pipe(r)
      BY <2>1, <3>2 DEF Pipe
    <3>4. RequestInv(r)'
      BY <1>1, <1>3, <2>1, <3>1, <3>2, <3>3 DEF RequestInv
    <3>5. Active(r)' <=> Active(r)
      BY <2>1, <3>1, <3>2 DEF Active
    <3>6. QED
      BY <1>0, <1>4, <1>6, <2>1, <3>1, <3>2, <3>4, <3>5
  <2>6. CASE app' = app /\ nss' = [nss EXCEPT ![r] = Queued(b, m)] /\ HasRoom(r) /\ ~nss[r].closed
    <3>1. PICK c \in AnswerState : c = Queued(b, m)
                                   /\ AnswerIs(c, nss[r].st, nss[r].responded, nss[r].closed, n, Append(nss[r].queue, m))
      <4>1. Queued(b, m) \in AnswerState /\ AnswerIs(Queued(b, m), b.st, b.responded, b.closed, b.names, Append(b.queue, m))
        BY <1>5, <2>2, AnswerFields
      <4>2. QED
        BY <2>4, <4>1 DEF AnswerIs
    <3>2. nss' \in [Requests -> AnswerState] /\ Others(nss, nss', r) /\ nss'[r] = c
      BY <1>0, <2>6, <3>1 DEF Others
    <3>3. nss[r].st = "running" /\ Len(Append(nss[r].queue, m)) <= QueueCapacity
      <4>1. nss[r].st = "running" /\ Len(nss[r].queue) < QueueCapacity
        BY <2>6 DEF HasRoom
      <4>2. Len(Append(nss[r].queue, m)) = Len(nss[r].queue) + 1
        BY <1>5, <2>2
      <4>3. QED
        BY <1>5, <4>1, <4>2
    <3> HIDE DEF m, n
    <3>4. Pipe(r)' = Append(Pipe(r), m) /\ Pipe(r) \in Seq(StreamMsg)
      BY <1>9, <2>1, <2>2, <3>1, <3>2 DEF Pipe, AnswerIs
    <3>5. ASSUME nsr[r].st # "ended"
          PROVE  /\ RespondsFirst(nsr[r].responded, Append(Pipe(r), m)) /\ InOrder(nsr[r].known, Append(Pipe(r), m))
                 /\ After(nsr[r].known, Append(Pipe(r), m)) = n /\ Append(Pipe(r), m) # <<>>
      <4>1. /\ RespondsFirst(nsr[r].responded, Pipe(r)) /\ InOrder(nsr[r].known, Pipe(r))
            /\ nsr[r].responded \/ Pipe(r) # <<>>
            /\ After(nsr[r].known, Pipe(r)) = nss[r].names
        BY <1>1, <2>1, <2>6, <3>3, <3>5 DEF RequestInv
      <4>2. m.type = "NamespaceDone" => m.suffix \in After(nsr[r].known, Pipe(r))
        BY <2>1, <2>2, <4>1
      <4>3. InOrder(nsr[r].known, Append(Pipe(r), m)) /\ After(nsr[r].known, Append(Pipe(r), m)) = Told(nss[r].names, m)
        BY <1>5, <2>2, <3>4, <4>1, <4>2, MoreNames
      <4>4. RespondsFirst(nsr[r].responded, Append(Pipe(r), m))
        BY <1>5, <2>2, <3>4, <4>1, MoreNames
      <4>5. Append(Pipe(r), m) # <<>>
        BY <2>2, <3>4
      <4>6. QED
        BY <2>3, <4>3, <4>4, <4>5
    <3>6. /\ nss'[r].st = nss[r].st /\ nss'[r].closed = nss[r].closed /\ nss'[r].names = n
          /\ nss'[r].queue = Append(nss[r].queue, m) /\ app'[r] = "held"
      BY <2>1, <2>6, <3>1, <3>2 DEF AnswerIs
    <3>7. RequestInv(r)'
      BY <1>1, <1>3, <2>1, <3>3, <3>4, <3>5, <3>6 DEF RequestInv
    <3>8. Active(r)' <=> Active(r)
      BY <2>1, <3>6 DEF Active
    <3>9. QED
      BY <1>0, <1>4, <1>6, <2>1, <2>6, <3>2, <3>7, <3>8
  <2>7. CASE ~(~nss[r].closed /\ nss[r].st # "ended")
    <3>1. app' = [app EXCEPT ![r] = "dropped"] /\ nss' = nss
      BY <1>22, <2>7 DEF SendName
    <3>2. QED
      BY <2>5, <3>1
  <2>8. CASE ~nss[r].closed /\ nss[r].st # "ended"
    <3>1. /\ nss' = [nss EXCEPT ![r] = IF HasRoom(r) THEN Queued(b, m) ELSE b]
          /\ app' = IF HasRoom(r) THEN app ELSE [app EXCEPT ![r] = "dropped"]
      BY <1>22, <2>4, <2>8 DEF SendName, m, n
    <3> HIDE DEF m, n
    <3>2. QED
      BY <2>5, <2>6, <2>8, <3>1
  <2>9. QED
    BY <2>7, <2>8
<1>23. QED
  BY <1>11, <1>12, <1>13, <1>15, <1>16, <1>18, <1>19, <1>20, <1>21, <1>22

\* A step of either side, or of another part of the session.
LEMMA NamespacesStep ==
  ASSUME NamespaceStreamsAssumption, SuffixesFit, NamespacesInv, NamespacesNext \/ UNCHANGED namespaceVars
  PROVE  NamespacesInv'
<1>1. CASE NamespacesNext
  <2>1. PICK r \in Requests :
          \/ SubscribeNamespace(r) \/ AbandonOpen(r) \/ OpenSubscribeNamespace(r)
          \/ FinishRequest(r) \/ ResetRequest(r) \/ DropSubscribeNamespace(r) \/ ForceReset(r)
          \/ RecvMessage(r) \/ EndOfResponse(r) \/ EndWithoutResponse(r) \/ NextEvent(r)
          \/ AcceptNamespaceStream(r) \/ AcceptFails(r) \/ AcceptRequest(r) \/ RejectRequest(r)
          \/ \E type \in {"Namespace", "NamespaceDone"}, s \in Suffixes : SendName(r, type, s)
          \/ DropSubscribedNamespace(r) \/ SendMessage(r) \/ FinishResponse(r)
          \/ SeeRequestFin(r) \/ SeeRequestReset(r)
    BY <1>1 DEF NamespacesNext
  <2>2. QED
    BY <2>1, AskingStep, AnsweringStep
<1>2. CASE UNCHANGED namespaceVars
  <2>1. UNCHANGED <<nsr, handle, prefixes, applied, up, down, nss, app, activePrefixes, sentNames, failure>>
    BY <1>2 DEF namespaceVars, askingVars, answeringVars
  <2>2. NamespaceTypes' /\ ActiveInv' /\ failure' # "ProtocolViolation"
    BY <2>1 DEF NamespacesInv, NamespaceTypes, ActiveInv
  <2>3. ASSUME NEW r \in Requests PROVE RequestInv(r)'
    BY <2>1, RequestUntouched DEF NamespacesInv
  <2>4. QED
    BY <2>2, <2>3 DEF NamespacesInv
<1>3. QED
  BY <1>1, <1>2

\* What the invariant says of both sides.
LEMMA NamespacesAreFaithful == ASSUME NamespacesInv PROVE NamespacesFaithful
<1>1. ActiveInv /\ failure # "ProtocolViolation" /\ NamespaceTypes
  BY DEF NamespacesInv
<1>2. Cardinality(activePrefixes) <= 1
  <2>1. CASE activePrefixes = {}
    BY <2>1, FS_EmptySet
  <2>2. CASE activePrefixes # {}
    <3>1. PICK q \in activePrefixes : TRUE
      BY <2>2
    <3>2. activePrefixes = {q}
      BY <1>1, <3>1 DEF ActiveInv
    <3>3. QED
      BY <3>2, FS_Singleton
  <2>3. QED
    BY <2>1, <2>2
<1>3. activePrefixes = {r \in Requests : nss[r].st \in {"running", "draining"} /\ app[r] # "refused"}
  BY <1>1 DEF ActiveInv
<1>4. ASSUME NEW r \in Requests
      PROVE  /\ After(applied[r], nsr[r].events) = nsr[r].known
             /\ app[r] = "held" /\ ~nss[r].closed /\ nsr[r].st = "running" =>
                  After(nsr[r].known, down[r].msgs \o nss[r].queue) = nss[r].names
             /\ nsr[r].st = "ended" /\ down[r].end = "fin" => r \notin activePrefixes /\ r \notin prefixes
  <2>1. RequestInv(r)
    BY DEF NamespacesInv
  <2>2. QED
    BY <1>3, <2>1 DEF RequestInv, Pipe
<1>5. QED
  BY <1>1, <1>2, <1>3, <1>4 DEF NamespacesFaithful

\* It holds in every state.
LEMMA NamespacesHold == SuffixesFit /\ DataSpec => []NamespacesInv
<1>1. NamespaceStreamsAssumption
  BY DataAssumption
<1>2. DataLayerInit => NamespacesInv
  BY <1>1, NamespacesBegin DEF DataLayerInit
<1>3. SuffixesFit /\ NamespacesInv /\ [DataLayerNext]_dataVars => NamespacesInv'
  <2> SUFFICES ASSUME SuffixesFit, NamespacesInv, [DataLayerNext]_dataVars PROVE NamespacesInv'
    OBVIOUS
  <2>1. NamespacesNext \/ UNCHANGED namespaceVars
    BY DEF DataLayerNext, DataRuns, dataVars
  <2>2. QED
    BY <1>1, <2>1, NamespacesStep
<1>4. CASE SuffixesFit
  <2>1. NamespacesInv /\ [DataLayerNext]_dataVars => NamespacesInv'
    BY <1>3, <1>4
  <2>2. QED
    BY <1>2, <2>1, PTL DEF DataSpec
<1>5. QED
  BY <1>4

(* What the asking application knows, and what is still on its way to it,    *)
(* add up to what the answering one has announced, no NAMESPACE_DONE comes   *)
(* without its NAMESPACE, and the two sides free a prefix together, for any  *)
(* number of requests and any queue, as long as the namespaces there are do  *)
(* not exceed what the asking side agrees to remember                        *)
(* (session/subscribe_namespace.rs, session/subscribed_namespace.rs).        *)
THEOREM NamespacesAlwaysFaithful == SuffixesFit /\ DataSpec => []NamespacesFaithful
<1>1. NamespacesInv => NamespacesFaithful
  BY NamespacesAreFaithful
<1>2. QED
  BY <1>1, NamespacesHold, PTL

-----------------------------------------------------------------------------
(* Setup, requests and the end of a session                                *)

\* The request ids of an end are even or odd, and the next one it uses.
Parity(e) == IF e = "client" THEN 0 ELSE 1
NextId(e) == Parity(e) + 2 * made[e]

\* What a control stream may carry: the two setups of this session and the messages after them.
ForeignTypes == {"Unknown", "GoAway", "RequestUpdate", "JoiningFetch", "RequestsBlocked", "SubscribeNamespace"}
Hello(c) == [type |-> "ClientSetup", max |-> c.max.client,
             path |-> IF c.transport = "RawQuic" THEN WithQuery(c.url) ELSE <<>>]
Welcome(c) == [type |-> "ServerSetup", max |-> c.max.server]
ControlTypes == RequestKinds \cup Responses \cup ForeignTypes \cup {"FetchCancel"}
Control(c) == [type : ControlTypes, id : Nat] \cup {Hello(c), Welcome(c)}

\* The messages in a sequence.
OnStream(s) == {s[i] : i \in 1 .. Len(s)}

Waiting == [id : Nat, kind : RequestKinds \ {"TrackStatus"}, deadline : Nat]
EndStates == {"setup", "up", "Closed", "InvalidPath", "ProfileFramingMismatch", "ProtocolViolation", "Serve"}

\* Both ends are records of the same fields.
EndShape(s) == s = [st |-> s.st, path |-> s.path, own |-> s.own, peer |-> s.peer, first |-> s.first]

EndTypes == sess = [e \in Ends |-> sess[e]] /\ \A e \in Ends : EndShape(sess[e]) /\ sess[e].st \in EndStates
LinkTypes ==
  /\ setup \in SetupCases
  /\ ctl \in [Ends -> Seq(Control(setup))]
  /\ pending \in [Ends -> SUBSET Waiting] /\ expired \in [Ends -> SUBSET Waiting]
  /\ permit \in [Ends -> BOOLEAN]
  /\ timer \in [Ends -> [st : {"look", "changed", "sleep", "apply"}, until : Nat]]
  /\ live \subseteq SessionIds /\ unread \subseteq SessionIds
  /\ owed \in [Ends -> SUBSET [id : Nat, kind : RequestKinds]]
  /\ made \in [Ends -> Nat] /\ foreign \in Nat /\ now \in Nat
  /\ ends \in [SessionIds -> Seq({"ok", "error", "timeout", "dropped"})]
LifeTypes == EndTypes /\ LinkTypes

\* What the client took from the setup before it sent CLIENT_SETUP.
ClientAgrees ==
  /\ NormalizePath(setup.url.segs).ok /\ setup.profile # "Draft19"
  /\ sess["client"].path = NormalizePath(setup.url.segs).v /\ sess["client"].own = setup.max.client

\* The two setups: each is sent once, and first.
SetupInv ==
  LET c == sess["client"]
      s == sess["server"]
  IN  /\ c.st \in {"setup", "up"} <=> s.st \in {"setup", "up"}
      /\ c.first = 0 /\ (s.st = "up" => s.first = 1)
      /\ s.st = "setup" => /\ c.st = "setup" /\ ctl["client"] = <<>> /\ s.first = 0
                           /\ ctl["server"] = <<>> \/ (ctl["server"] = <<Hello(setup)>> /\ ClientAgrees)
      /\ c.st = "setup" /\ s.st = "up" => ctl["client"] # <<>> /\ Head(ctl["client"]) = Welcome(setup)
      /\ s.st = "up" => /\ ClientAgrees /\ s.path = ServerPath(Hello(setup)).v
                        /\ s.own = setup.max.server /\ s.peer = setup.max.client
      /\ c.st = "up" => c.peer = setup.max.server

\* What is on its way and owed belongs to requests of the end, and fits the one it waits for.
LinkInv(e) ==
  /\ \A m \in OnStream(ctl[Peer(e)]) : m.type \in RequestKinds =>
       m.id < NextId(e) /\ \A p \in pending[e] : p.id = m.id => p.kind = m.type
  /\ \A r \in owed[Peer(e)] : r.id < NextId(e) /\ \A p \in pending[e] : p.id = r.id => p.kind = r.kind
  /\ \A m \in OnStream(ctl[e]) : m.type \in Responses =>
       /\ m.id < NextId(e) \/ m.id >= 2 * MaxRequests
       /\ \A p \in pending[e] : p.id = m.id => Accepts(p.kind, m.type)
  /\ \A m \in OnStream(ctl[e]) : m.type \in ForeignTypes => m.id >= 2 * MaxRequests /\ foreign > 0

\* A request that waits has not ended, nor has one that is yet to be made.
WaitInv(e) ==
  /\ made[e] <= MaxRequests /\ (made[e] > 0 => sess[e].first = Parity(e))
  /\ \A p \in pending[e] : p.id \in SessionIds /\ p.id < NextId(e) /\ p.id % 2 = Parity(e) /\ ends[p.id] = <<>>
  /\ \A p, q \in pending[e] : p.id = q.id => p = q
  /\ \A id \in SessionIds : id % 2 = Parity(e) /\ id >= NextId(e) => ends[id] = <<>>
  /\ pending[e] # {} => made[e] > 0

\* The task that times requests out has not missed one.
TimerInv(e) ==
  /\ timer[e].st = "changed" => pending[e] = {} \/ permit[e]
  /\ timer[e].st = "sleep" => permit[e] \/ \A p \in pending[e] : timer[e].until <= p.deadline

LifeInv ==
  /\ LifeTypes /\ SetupInv
  /\ \A e \in Ends : LinkInv(e) /\ WaitInv(e) /\ TimerInv(e) /\ (sess[e].st = "ProtocolViolation" => foreign > 0)
  /\ \A id \in SessionIds : Len(ends[id]) <= 1

\* The two ends.
LEMMA TwoEnds ==
  /\ Ends = {"client", "server"} /\ Peer("client") = "server" /\ Peer("server") = "client"
  /\ \A e \in Ends : Peer(e) \in Ends /\ Peer(e) # e /\ Peer(Peer(e)) = e
  /\ \A e, x \in Ends : x = e \/ x = Peer(e)
  /\ \A e \in Ends : Parity(e) \in {0, 1} /\ Parity(Peer(e)) # Parity(e)
<1>1. Peer("client") = "server"
  <2>1. \E p \in Ends : p # "client"
    BY DEF Ends
  <2>2. Peer("client") \in Ends /\ Peer("client") # "client"
    BY <2>1 DEF Peer
  <2>3. QED
    BY <2>2 DEF Ends
<1>2. Peer("server") = "client"
  <2>1. \E p \in Ends : p # "server"
    BY DEF Ends
  <2>2. Peer("server") \in Ends /\ Peer("server") # "server"
    BY <2>1 DEF Peer
  <2>3. QED
    BY <2>2 DEF Ends
<1>3. QED
  BY <1>1, <1>2 DEF Ends, Parity

\* A message is put at the end of a stream, and taken from its front.
LEMMA StreamMoves ==
  ASSUME NEW S, NEW s \in Seq(S)
  PROVE  /\ OnStream(s) \subseteq S
         /\ \A m \in S : /\ Append(s, m) \in Seq(S) /\ OnStream(Append(s, m)) = OnStream(s) \cup {m}
                         /\ Append(s, m) # <<>> /\ (s # <<>> => Head(Append(s, m)) = Head(s))
         /\ s # <<>> => /\ Head(s) \in OnStream(s) /\ Tail(s) \in Seq(S) /\ OnStream(Tail(s)) \subseteq OnStream(s)
<1>1. Len(s) \in Nat /\ \A i \in 1 .. Len(s) : s[i] \in S
  BY ElementOfSeq
<1>2. OnStream(s) \subseteq S
  BY <1>1 DEF OnStream
<1>3. ASSUME NEW m \in S
      PROVE  /\ Append(s, m) \in Seq(S) /\ OnStream(Append(s, m)) = OnStream(s) \cup {m}
             /\ Append(s, m) # <<>> /\ (s # <<>> => Head(Append(s, m)) = Head(s))
  <2> DEFINE t == Append(s, m)
  <2>1. t \in Seq(S) /\ Len(t) = Len(s) + 1 /\ t[Len(s) + 1] = m /\ \A i \in 1 .. Len(s) : t[i] = s[i]
    OBVIOUS
  <2>2. t # <<>> /\ (s # <<>> => Head(t) = Head(s))
    BY <1>1, <2>1
  <2> HIDE DEF t
  <2>3. OnStream(t) = OnStream(s) \cup {m}
    <3>1. ASSUME NEW x \in OnStream(t) PROVE x \in OnStream(s) \cup {m}
      <4>1. PICK i \in 1 .. (Len(s) + 1) : x = t[i]
        BY <2>1, <3>1 DEF OnStream
      <4>2. i \in 1 .. Len(s) \/ i = Len(s) + 1
        BY <1>1
      <4>3. QED
        BY <2>1, <4>1, <4>2 DEF OnStream
    <3>2. ASSUME NEW x \in OnStream(s) PROVE x \in OnStream(t)
      <4>1. PICK i \in 1 .. Len(s) : x = s[i]
        BY <3>2 DEF OnStream
      <4>2. i \in 1 .. Len(t) /\ t[i] = x
        BY <1>1, <2>1, <4>1
      <4>3. QED
        BY <4>2 DEF OnStream
    <3>3. m \in OnStream(t)
      <4>1. Len(s) + 1 \in 1 .. Len(t) /\ t[Len(s) + 1] = m
        BY <1>1, <2>1
      <4>2. QED
        BY <4>1 DEF OnStream
    <3>4. QED
      BY <3>1, <3>2, <3>3
  <2>4. QED
    BY <2>1, <2>2, <2>3 DEF t
<1>4. ASSUME s # <<>> PROVE Head(s) \in OnStream(s) /\ Tail(s) \in Seq(S) /\ OnStream(Tail(s)) \subseteq OnStream(s)
  <2> DEFINE t == Tail(s)
  <2>1. /\ t \in Seq(S) /\ Len(t) = Len(s) - 1 /\ Head(s) = s[1] /\ 1 \in 1 .. Len(s)
        /\ \A i \in 1 .. (Len(s) - 1) : t[i] = s[i + 1]
    BY <1>1, <1>4
  <2> HIDE DEF t
  <2>2. ASSUME NEW x \in OnStream(t) PROVE x \in OnStream(s)
    <3>1. PICK i \in 1 .. (Len(s) - 1) : x = t[i]
      BY <2>1, <2>2 DEF OnStream
    <3>2. i + 1 \in 1 .. Len(s) /\ x = s[i + 1]
      BY <1>1, <2>1, <3>1
    <3>3. QED
      BY <3>2 DEF OnStream
  <2>3. Head(s) \in OnStream(s)
    BY <2>1 DEF OnStream
  <2>4. QED
    BY <2>1, <2>2, <2>3 DEF t
<1>5. QED
  BY <1>2, <1>3, <1>4

\* What a step that makes no request may do to the messages of an end ...
LinkMove(e) ==
  /\ \A m \in OnStream(ctl'[Peer(e)]) : m \in OnStream(ctl[Peer(e)]) \/ m.type \notin RequestKinds
  /\ \A r \in owed'[Peer(e)] :
       \/ r \in owed[Peer(e)]
       \/ \E m \in OnStream(ctl[Peer(e)]) : m.type \in RequestKinds /\ r.id = m.id /\ r.kind = m.type
  /\ \A m \in OnStream(ctl'[e]) :
       \/ m \in OnStream(ctl[e]) \/ m.type \notin Responses \cup ForeignTypes
       \/ m.type \in Responses /\ m.id >= 2 * MaxRequests
       \/ m.type \in Responses /\ \E r \in owed[Peer(e)] : m.id = r.id /\ m.type \in {"RequestError", OkOf(r.kind)}
       \/ m.type \in ForeignTypes /\ m.id >= 2 * MaxRequests /\ foreign' > 0

\* ... and how requests end in it.
EndMove ==
  \A id \in SessionIds :
    \/ ends'[id] = ends[id]
    \/ /\ \E w : ends'[id] = Append(ends[id], w)
       /\ \E x \in Ends : (\E p \in pending[x] : p.id = id) /\ \A p \in pending'[x] : p.id # id

\* What belongs to the requests of an end still does, when it makes none.
LEMMA LinkKept ==
  ASSUME LifecycleAssumption, LifeTypes, LifeTypes', NEW e \in Ends, LinkInv(e), WaitInv(e), made'[e] = made[e],
         pending'[e] \subseteq pending[e], foreign' >= foreign, LinkMove(e)
  PROVE  LinkInv(e)'
<1>0. NextId(e)' = NextId(e) /\ foreign \in Nat /\ foreign' \in Nat /\ MaxRequests \in Nat
      /\ \A x \in pending[e] : x.id \in Nat /\ x.kind \in RequestKinds \ {"TrackStatus"}
  BY DEF NextId, LifeTypes, EndTypes, LinkTypes, Waiting, LifecycleAssumption
<1>1. Responses \cap ForeignTypes = {} /\ RequestKinds \cap Responses = {} /\ RequestKinds \cap ForeignTypes = {}
  BY DEF Responses, ForeignTypes, RequestKinds
<1>2. ASSUME NEW m \in OnStream(ctl'[Peer(e)]), m.type \in RequestKinds
      PROVE  m.id < NextId(e) /\ \A p \in pending'[e] : p.id = m.id => p.kind = m.type
  BY <1>2 DEF LinkInv, LinkMove
<1>3. ASSUME NEW r \in owed'[Peer(e)]
      PROVE  r.id < NextId(e) /\ \A p \in pending'[e] : p.id = r.id => p.kind = r.kind
  BY DEF LinkInv, LinkMove
<1>4. ASSUME NEW m \in OnStream(ctl'[e]), m.type \in Responses
      PROVE  /\ m.id < NextId(e) \/ m.id >= 2 * MaxRequests
             /\ \A p \in pending'[e] : p.id = m.id => Accepts(p.kind, m.type)
  <2>1. CASE m \in OnStream(ctl[e])
    BY <1>4, <2>1 DEF LinkInv
  <2>2. CASE m.id >= 2 * MaxRequests
    <3>1. \A p \in pending[e] : p.id < 2 * MaxRequests
      BY <1>0 DEF WaitInv, SessionIds
    <3>2. \A p \in pending'[e] : p.id # m.id
      BY <1>0, <2>2, <3>1
    <3>3. QED
      BY <2>2, <3>2
  <2>3. ASSUME NEW r \in owed[Peer(e)], m.id = r.id, m.type \in {"RequestError", OkOf(r.kind)}
        PROVE  m.id < NextId(e) /\ \A p \in pending'[e] : p.id = m.id => Accepts(p.kind, m.type)
    <3>1. r.id < NextId(e) /\ \A p \in pending[e] : p.id = r.id => p.kind = r.kind
      BY DEF LinkInv
    <3>2. QED
      BY <1>0, <2>3, <3>1 DEF Accepts
  <2>4. QED
    BY <1>1, <1>4, <2>1, <2>2, <2>3 DEF LinkMove
<1>5. ASSUME NEW m \in OnStream(ctl'[e]), m.type \in ForeignTypes
      PROVE  m.id >= 2 * MaxRequests /\ foreign' > 0
  BY <1>0, <1>1, <1>5 DEF LinkInv, LinkMove
<1>6. QED
  BY <1>0, <1>2, <1>3, <1>4, <1>5 DEF LinkInv

\* The requests that wait have not ended, when none is made and what ends waits no longer.
LEMMA WaitKept ==
  ASSUME LifeTypes, NEW e \in Ends, \A x \in Ends : WaitInv(x), made'[e] = made[e],
         pending'[e] \subseteq pending[e], (sess'[e].first = sess[e].first \/ made[e] = 0), EndMove
  PROVE  WaitInv(e)'
<1>1. NextId(e)' = NextId(e)
  BY DEF NextId
<1>2. ASSUME NEW id \in SessionIds, id % 2 = Parity(e), ends'[id] # ends[id]
      PROVE  id \in SessionIds /\ (\E p \in pending[e] : p.id = id) /\ \A p \in pending'[e] : p.id # id
  <2>1. PICK x \in Ends : (\E p \in pending[x] : p.id = id) /\ \A p \in pending'[x] : p.id # id
    BY <1>2 DEF EndMove
  <2>2. id % 2 = Parity(x)
    BY <2>1 DEF WaitInv
  <2>3. x = e
    BY <1>2, <2>2, TwoEnds
  <2>4. QED
    BY <2>1, <2>3
<1>3. ASSUME NEW p \in pending'[e]
      PROVE  p.id \in SessionIds /\ p.id < NextId(e) /\ p.id % 2 = Parity(e) /\ ends'[p.id] = <<>>
  <2>1. p.id \in SessionIds /\ p.id < NextId(e) /\ p.id % 2 = Parity(e) /\ ends[p.id] = <<>>
    BY DEF WaitInv
  <2>2. QED
    BY <1>2, <2>1
<1>4. ASSUME NEW id \in SessionIds, id % 2 = Parity(e), id >= NextId(e) PROVE ends'[id] = <<>>
  <2>1. ends[id] = <<>>
    BY <1>4 DEF WaitInv
  <2>2. \A p \in pending[e] : p.id # id
    <3>1. NextId(e) \in Nat /\ id \in Nat
      BY TwoEnds DEF NextId, LifeTypes, EndTypes, LinkTypes, SessionIds
    <3>2. \A p \in pending[e] : p.id < NextId(e) /\ p.id \in Nat
      BY DEF WaitInv, SessionIds
    <3>3. QED
      BY <1>4, <3>1, <3>2
  <2>3. QED
    BY <1>2, <1>4, <2>1, <2>2
<1>5. \A p, q \in pending'[e] : p.id = q.id => p = q
  BY DEF WaitInv
<1>6. made'[e] <= MaxRequests /\ (made'[e] > 0 => sess'[e].first = Parity(e)) /\ (pending'[e] # {} => made'[e] > 0)
  BY DEF WaitInv
<1>7. QED
  BY <1>1, <1>3, <1>4, <1>5, <1>6 DEF WaitInv

\* One field of an end changes.
LEMMA EndSt ==
  ASSUME NEW s, EndShape(s), NEW x
  PROVE  LET t == [s EXCEPT !.st = x] IN EndShape(t) /\ t.st = x /\ t.path = s.path /\ t.own = s.own /\ t.peer = s.peer /\ t.first = s.first
<1>1. PICK a, b, c, d, f : s = [st |-> a, path |-> b, own |-> c, peer |-> d, first |-> f]
  BY DEF EndShape
<1>2. [s EXCEPT !.st = x] = [st |-> x, path |-> b, own |-> c, peer |-> d, first |-> f]
  BY <1>1
<1>3. QED
  BY <1>1, <1>2 DEF EndShape

\* The path of an end changes alone.
LEMMA EndPath ==
  ASSUME NEW s, EndShape(s), NEW x
  PROVE  LET t == [s EXCEPT !.path = x] IN EndShape(t) /\ t.st = s.st /\ t.path = x /\ t.own = s.own /\ t.peer = s.peer /\ t.first = s.first
<1>1. PICK a, b, c, d, f : s = [st |-> a, path |-> b, own |-> c, peer |-> d, first |-> f]
  BY DEF EndShape
<1>2. [s EXCEPT !.path = x] = [st |-> a, path |-> x, own |-> c, peer |-> d, first |-> f]
  BY <1>1
<1>3. QED
  BY <1>1, <1>2 DEF EndShape

\* So does its own profile.
LEMMA EndOwn ==
  ASSUME NEW s, EndShape(s), NEW x
  PROVE  LET t == [s EXCEPT !.own = x] IN EndShape(t) /\ t.st = s.st /\ t.path = s.path /\ t.own = x /\ t.peer = s.peer /\ t.first = s.first
<1>1. PICK a, b, c, d, f : s = [st |-> a, path |-> b, own |-> c, peer |-> d, first |-> f]
  BY DEF EndShape
<1>2. [s EXCEPT !.own = x] = [st |-> a, path |-> b, own |-> x, peer |-> d, first |-> f]
  BY <1>1
<1>3. QED
  BY <1>1, <1>2 DEF EndShape

\* So does the peer's.
LEMMA EndPeer ==
  ASSUME NEW s, EndShape(s), NEW x
  PROVE  LET t == [s EXCEPT !.peer = x] IN EndShape(t) /\ t.st = s.st /\ t.path = s.path /\ t.own = s.own /\ t.peer = x /\ t.first = s.first
<1>1. PICK a, b, c, d, f : s = [st |-> a, path |-> b, own |-> c, peer |-> d, first |-> f]
  BY DEF EndShape
<1>2. [s EXCEPT !.peer = x] = [st |-> a, path |-> b, own |-> c, peer |-> x, first |-> f]
  BY <1>1
<1>3. QED
  BY <1>1, <1>2 DEF EndShape

\* An end fails: neither is up any more.
LEMMA BothEnd ==
  ASSUME LifeTypes, SetupInv, NEW e \in Ends, sess[e].st \in {"setup", "up"},
         NEW error \in EndStates \ {"setup", "up"}, Fails(e, error), setup' = setup
  PROVE  /\ SetupInv' /\ sess' = [x \in Ends |-> sess'[x]]
         /\ \A x \in Ends : /\ EndShape(sess'[x]) /\ sess'[x].first = sess[x].first
                            /\ sess'[x].st = (IF x = e THEN error ELSE "Closed")
<1>1. sess' = [x \in Ends |-> IF x = e THEN [sess[x] EXCEPT !.st = error]
                              ELSE IF sess[x].st \in {"setup", "up"} THEN [sess[x] EXCEPT !.st = "Closed"]
                              ELSE sess[x]]
  BY DEF Fails
<1>2. \A x \in Ends : sess[x].st \in {"setup", "up"} /\ EndShape(sess[x])
  BY TwoEnds DEF SetupInv, LifeTypes, EndTypes, LinkTypes
<1>3. ASSUME NEW x \in Ends, NEW y
      PROVE  /\ EndShape([sess[x] EXCEPT !.st = y]) /\ [sess[x] EXCEPT !.st = y].st = y
             /\ [sess[x] EXCEPT !.st = y].first = sess[x].first
  <2>1. PICK t : t = sess[x]
    OBVIOUS
  <2>2. EndShape(t)
    BY <1>2, <2>1
  <2>3. EndShape([t EXCEPT !.st = y]) /\ [t EXCEPT !.st = y].st = y /\ [t EXCEPT !.st = y].first = t.first
    BY <2>2, EndSt
  <2>4. QED
    BY <2>1, <2>3
<1>4. ASSUME NEW x \in Ends PROVE sess'[x] = [sess[x] EXCEPT !.st = IF x = e THEN error ELSE "Closed"]
  BY <1>1, <1>2
<1>5. \A x \in Ends : /\ EndShape(sess'[x]) /\ sess'[x].first = sess[x].first
                      /\ sess'[x].st = (IF x = e THEN error ELSE "Closed")
  <2> TAKE x \in Ends
  <2>1. PICK y : y = IF x = e THEN error ELSE "Closed"
    OBVIOUS
  <2>2. sess'[x] = [sess[x] EXCEPT !.st = y]
    BY <1>4, <2>1
  <2>3. QED
    BY <1>3, <2>1, <2>2
<1>6. sess' = [x \in Ends |-> sess'[x]]
  BY <1>1
<1>7. \A x \in Ends : sess'[x].st \notin {"setup", "up"}
  BY <1>5
<1>8. SetupInv'
  <2>1. sess["client"].first = 0
    BY DEF SetupInv
  <2>2. /\ sess'["client"].st \notin {"setup", "up"} /\ sess'["server"].st \notin {"setup", "up"}
        /\ sess'["client"].first = 0
    BY <1>5, <1>7, <2>1, TwoEnds
  <2>3. QED
    BY <2>2 DEF SetupInv
<1>9. QED
  BY <1>5, <1>6, <1>8

\* What is sent after the setups does not come before them.
LEMMA SetupKept ==
  ASSUME LifeTypes, SetupInv, NEW e \in Ends, IsUp(e), UNCHANGED <<setup, sess>>,
         \/ ctl'["client"] = ctl["client"] \/ sess["client"].st = "up"
         \/ \E m \in Control(setup) : ctl'["client"] = Append(ctl["client"], m)
  PROVE  SetupInv'
<1>1. sess["client"].st \in {"setup", "up"} /\ sess["server"].st = "up"
  BY TwoEnds DEF SetupInv, IsUp
<1>2. ASSUME sess["client"].st = "setup" PROVE ctl'["client"] # <<>> /\ Head(ctl'["client"]) = Welcome(setup)
  <2>1. ctl["client"] # <<>> /\ Head(ctl["client"]) = Welcome(setup)
    BY <1>1, <1>2 DEF SetupInv
  <2>2. ctl["client"] \in Seq(Control(setup))
    BY TwoEnds DEF LifeTypes, EndTypes, LinkTypes
  <2>3. QED
    BY <1>2, <2>1, <2>2, StreamMoves
<1>3. ClientAgrees' <=> ClientAgrees
  BY DEF ClientAgrees
<1>4. ServerPath(Hello(setup))' = ServerPath(Hello(setup))
  BY DEF ServerPath, Hello
<1>5. Welcome(setup)' = Welcome(setup)
  BY DEF Welcome
<1>6. QED
  BY <1>1, <1>2, <1>3, <1>4, <1>5 DEF SetupInv

\* Any step that makes no request.
LEMMA LifeKept ==
  ASSUME LifecycleAssumption, LifeInv, LifeTypes', SetupInv', made' = made, foreign' >= foreign, EndMove,
         \A e \in Ends : /\ LinkMove(e) /\ pending'[e] \subseteq pending[e] /\ (sess'[e].first = sess[e].first \/ made[e] = 0)
                         /\ TimerInv(e)' /\ (sess'[e].st = "ProtocolViolation" => foreign' > 0)
  PROVE  LifeInv'
<1>1. LifeTypes /\ SetupInv /\ \A e \in Ends : LinkInv(e) /\ WaitInv(e) /\ TimerInv(e)
  BY DEF LifeInv
<1>2. ASSUME NEW e \in Ends PROVE LinkInv(e)'
  BY <1>1, LinkKept
<1>3. ASSUME NEW e \in Ends PROVE WaitInv(e)'
  BY <1>1, WaitKept
<1>4. ASSUME NEW id \in SessionIds PROVE Len(ends'[id]) <= 1
  <2>1. CASE ends'[id] = ends[id]
    BY <2>1 DEF LifeInv
  <2>2. CASE ends'[id] # ends[id]
    <3>1. PICK x \in Ends : \E p \in pending[x] : p.id = id
      BY <2>2 DEF EndMove
    <3>2. PICK w : ends'[id] = Append(ends[id], w)
      BY <2>2 DEF EndMove
    <3>3. ends[id] = <<>>
      BY <1>1, <3>1 DEF WaitInv
    <3>4. QED
      BY <3>2, <3>3
  <2>3. QED
    BY <2>1, <2>2
<1>5. QED
  BY <1>2, <1>3, <1>4 DEF LifeInv

\* A session is set up from nothing.
LEMMA LifeBegins == ASSUME LifecycleAssumption, NEW c \in SetupCases, LifecycleStart(c) PROVE LifeInv
<1> USE DEF LifecycleStart
<1>1. <<>> \in Seq(Control(setup)) /\ OnStream(<<>>) = {} /\ Len(<<>>) = 0
      /\ <<>> \in Seq({"ok", "error", "timeout", "dropped"})
  BY DEF OnStream
<1>2. /\ \A e \in Ends : sess[e] = [st |-> "setup", path |-> NoPath, own |-> 0, peer |-> 0, first |-> 0]
      /\ sess = [e \in Ends |-> sess[e]]
  OBVIOUS
<1>3. \A e \in Ends : EndShape(sess[e]) /\ sess[e].st = "setup" /\ sess[e].first = 0
  BY <1>2 DEF EndShape
<1>4. LifeTypes
  <2>1. [st |-> "look", until |-> 0] \in [st : {"look", "changed", "sleep", "apply"}, until : Nat]
    OBVIOUS
  <2>2. timer \in [Ends -> [st : {"look", "changed", "sleep", "apply"}, until : Nat]]
    BY <2>1
  <2>3. ctl \in [Ends -> Seq(Control(setup))] /\ ends \in [SessionIds -> Seq({"ok", "error", "timeout", "dropped"})]
    BY <1>1
  <2>4. QED
    BY <1>2, <1>3, <2>2, <2>3 DEF LifeTypes, EndTypes, LinkTypes, EndStates
<1>5. SetupInv
  BY <1>3, TwoEnds DEF SetupInv
<1>6. ASSUME NEW e \in Ends PROVE LinkInv(e) /\ WaitInv(e) /\ TimerInv(e)
  <2>1. Peer(e) \in Ends /\ MaxRequests \in Nat
    BY TwoEnds DEF LifecycleAssumption
  <2>2. ctl[e] = <<>> /\ ctl[Peer(e)] = <<>> /\ owed[Peer(e)] = {} /\ pending[e] = {} /\ made[e] = 0 /\ timer[e].st = "look"
    BY <2>1
  <2>3. QED
    BY <1>1, <2>1, <2>2 DEF LinkInv, WaitInv, TimerInv
<1>7. QED
  BY <1>1, <1>3, <1>4, <1>5, <1>6 DEF LifeInv

\* The two setups.
LEMMA SetupStep ==
  ASSUME LifecycleAssumption, LifeInv, ClientSetup \/ ServerSetup \/ ClientReady
  PROVE  LifeInv'
<1>0. LifeTypes /\ SetupInv /\ (\A e \in Ends : TimerInv(e) /\ (sess[e].st = "ProtocolViolation" => foreign > 0))
  BY DEF LifeInv
<1>1. UNCHANGED <<setup, pending, permit, timer, expired, live, unread, statuses, owed, goaway, made, foreign, now, ends>>
  BY DEF ClientSetup, ServerSetup, ClientReady
<1>2. ctl \in [Ends -> Seq(Control(setup))] /\ Control(setup)' = Control(setup) /\ foreign \in Nat
  BY <1>0, <1>1 DEF LifeTypes, EndTypes, LinkTypes, Control, Hello, Welcome, WithQuery
<1>3. EndMove /\ \A e \in Ends : TimerInv(e)'
  BY <1>0, <1>1 DEF EndMove, TimerInv
<1>4. ASSUME ctl' \in [Ends -> Seq(Control(setup))], sess' = [e \in Ends |-> sess'[e]], SetupInv',
             \A e \in Ends : EndShape(sess'[e]) /\ sess'[e].st \in EndStates \ {"ProtocolViolation"}
                            /\ (sess'[e].first = sess[e].first \/ made[e] = 0),
             \A e \in Ends : \A m \in OnStream(ctl'[e]) : m \in OnStream(ctl[e]) \/ m.type \in {"ClientSetup", "ServerSetup"}
      PROVE  LifeInv'
  <2>1. LifeTypes'
    BY <1>0, <1>1, <1>2, <1>4 DEF LifeTypes, EndTypes, LinkTypes
  <2>2. ASSUME NEW e \in Ends PROVE LinkMove(e)
    BY <1>1, <1>4, TwoEnds DEF LinkMove, RequestKinds, Responses, ForeignTypes
  <2>3. QED
    BY <1>1, <1>2, <1>3, <1>4, <2>1, <2>2, LifeKept
<1>5. ASSUME NEW e \in Ends, sess[e].st \in {"setup", "up"}, Fails(e, "InvalidPath") \/ Fails(e, "ProfileFramingMismatch"),
             ctl' = ctl
      PROVE  LifeInv'
  <2>1. PICK error \in {"InvalidPath", "ProfileFramingMismatch"} : Fails(e, error)
    BY <1>5
  <2>2. error \in EndStates \ {"setup", "up"}
    BY DEF EndStates
  <2>3. /\ SetupInv' /\ sess' = [x \in Ends |-> sess'[x]]
        /\ \A x \in Ends : /\ EndShape(sess'[x]) /\ sess'[x].first = sess[x].first
                           /\ sess'[x].st = (IF x = e THEN error ELSE "Closed")
    BY <1>0, <1>1, <1>5, <2>1, <2>2, BothEnd
  <2>4. \A x \in Ends : sess'[x].st \in EndStates \ {"ProtocolViolation"}
    BY <2>3 DEF EndStates
  <2>5. QED
    BY <1>2, <1>4, <1>5, <2>3, <2>4
<1>6. Ends = {"client", "server"} /\ "client" \in Ends /\ "server" \in Ends
  BY TwoEnds
<1>7. \A p : ~NormalizePath(p).ok => NormalizePath(p).v = "InvalidPath"
  BY DEF NormalizePath, Good, Bad
<1>8. CASE ClientSetup
  <2> DEFINE p == NormalizePath(setup.url.segs)
  <2>1. sess["client"].st = "setup" /\ ctl["server"] = <<>> /\ ctl["client"] = <<>>
    BY <1>8 DEF ClientSetup
  <2>2. CASE setup.profile = "Draft19" \/ ~p.ok
    <3>1. ctl' = ctl /\ (Fails("client", "ProfileFramingMismatch") \/ Fails("client", "InvalidPath"))
      BY <1>7, <1>8, <2>2 DEF ClientSetup
    <3>2. QED
      BY <1>5, <1>6, <2>1, <3>1
  <2>3. CASE setup.profile # "Draft19" /\ p.ok
    <3>1. sess' = [sess EXCEPT !["client"].path = p.v, !["client"].own = setup.max.client]
          /\ ctl' = [ctl EXCEPT !["server"] = <<Hello(setup)>>]
      BY <1>8, <2>3 DEF ClientSetup, Hello
    <3> HIDE DEF p
    <3>2. PICK t : t = sess["client"]
      OBVIOUS
    <3>a. PICK x, y : x = p.v /\ y = setup.max.client
      OBVIOUS
    <3>b. PICK v : v = [t EXCEPT !.path = x]
      OBVIOUS
    <3>3. PICK u : u = [v EXCEPT !.own = y]
      OBVIOUS
    <3>4. EndShape(u) /\ u.st = t.st /\ u.path = p.v /\ u.own = setup.max.client /\ u.peer = t.peer /\ u.first = t.first
      <4>1. EndShape(t)
        BY <1>0, <1>6, <3>2 DEF LifeTypes, EndTypes, LinkTypes
      <4>2. EndShape(u) /\ u.st = t.st /\ u.path = x /\ u.own = y /\ u.peer = t.peer /\ u.first = t.first
        <5>1. EndShape(v) /\ v.st = t.st /\ v.path = x /\ v.peer = t.peer /\ v.first = t.first
          BY <3>b, <4>1, EndPath
        <5>2. EndShape(u) /\ u.st = v.st /\ u.path = v.path /\ u.own = y /\ u.peer = v.peer /\ u.first = v.first
          BY <3>3, <5>1, EndOwn
        <5>3. QED
          BY <5>1, <5>2
      <4>3. QED
        BY <3>a, <4>2
    <3>5. sess' = [sess EXCEPT !["client"] = u] /\ sess = [e \in Ends |-> sess[e]]
      BY <1>0, <3>1, <3>2, <3>3, <3>a, <3>b DEF LifeTypes, EndTypes, LinkTypes
    <3>6. sess'["client"] = u /\ sess'["server"] = sess["server"] /\ sess' = [e \in Ends |-> sess'[e]]
      BY <1>6, <3>5
    <3>7. \A e \in Ends : EndShape(sess'[e]) /\ sess'[e].st \in EndStates \ {"ProtocolViolation"} /\ sess'[e].first = sess[e].first
      <4>1. EndShape(sess["server"]) /\ sess["server"].st \in EndStates /\ sess["server"].st \in {"setup", "up"}
        BY <1>0, <1>6, <2>1 DEF LifeTypes, EndTypes, LinkTypes, SetupInv
      <4>2. QED
        BY <1>6, <2>1, <3>2, <3>4, <3>6, <4>1 DEF EndStates
    <3>8. /\ <<Hello(setup)>> \in Seq(Control(setup)) /\ OnStream(<<Hello(setup)>>) = {Hello(setup)}
          /\ Hello(setup).type = "ClientSetup" /\ Hello(setup)' = Hello(setup)
      <4>1. Hello(setup).type = "ClientSetup" /\ Hello(setup)' = Hello(setup)
        BY <1>1 DEF Hello, WithQuery
      <4>2. PICK m : m = Hello(setup)
        OBVIOUS
      <4>3. m \in Control(setup)
        BY <4>2 DEF Control
      <4>4. <<m>> \in Seq(Control(setup)) /\ Len(<<m>>) = 1 /\ <<m>>[1] = m
        BY <4>3
      <4>5. OnStream(<<m>>) = {m}
        BY <4>4 DEF OnStream
      <4>6. QED
        BY <4>1, <4>2, <4>4, <4>5
    <3>9. /\ ctl' \in [Ends -> Seq(Control(setup))] /\ ctl'["server"] = <<Hello(setup)>> /\ ctl'["client"] = <<>>
      BY <1>2, <1>6, <2>1, <3>1, <3>8
    <3>10. ctl'["client"] = ctl["client"]
      BY <2>1, <3>9
    <3>11. sess["server"].st = "setup"
      BY <1>0, <2>1 DEF SetupInv
    <3>12. SetupInv'
      <4>1. ClientAgrees'
        BY <1>1, <2>3, <3>4, <3>6 DEF ClientAgrees, p
      <4>2. sess["client"].first = 0 /\ sess["server"].first = 0
        BY <1>0, <3>11 DEF SetupInv
      <4>3. QED
        BY <2>1, <3>2, <3>4, <3>6, <3>8, <3>9, <3>11, <4>1, <4>2 DEF SetupInv
    <3>13. QED
      BY <1>4, <1>6, <3>6, <3>7, <3>8, <3>9, <3>10, <3>12
  <2>4. QED
    BY <2>2, <2>3
<1>9. CASE ServerSetup
  <2>1. sess["server"].st = "setup" /\ ctl["server"] # <<>>
    BY <1>9 DEF ServerSetup
  <2>2. /\ sess["client"].st = "setup" /\ ctl["client"] = <<>> /\ sess["server"].first = 0
        /\ ctl["server"] = <<Hello(setup)>> /\ ClientAgrees /\ sess["client"].first = 0
    BY <1>0, <2>1 DEF SetupInv
  <2>3. Head(ctl["server"]) = Hello(setup) /\ Tail(ctl["server"]) = <<>> /\ Hello(setup).max = setup.max.client
    BY <2>2 DEF Hello
  <2> DEFINE p == ServerPath(Hello(setup))
  <2>4. CASE ~p.ok
    <3>1. p.v = "InvalidPath"
      BY <1>7, <2>4 DEF ServerPath, Good
    <3>2. ctl' = ctl /\ Fails("server", "InvalidPath")
      BY <1>9, <2>3, <2>4, <3>1 DEF ServerSetup
    <3>3. QED
      BY <1>5, <1>6, <2>1, <3>2
  <2>5. CASE p.ok
    <3> DEFINE u == [st |-> "up", path |-> p.v, own |-> setup.max.server, peer |-> setup.max.client, first |-> 1]
    <3>1. /\ sess' = [sess EXCEPT !["server"] = u]
          /\ ctl' = [ctl EXCEPT !["server"] = <<>>, !["client"] = <<Welcome(setup)>>]
      BY <1>9, <2>3, <2>5 DEF ServerSetup, Welcome
    <3>2. EndShape(u) /\ u.st = "up" /\ u.path = p.v /\ u.own = setup.max.server /\ u.peer = setup.max.client /\ u.first = 1
      BY DEF EndShape
    <3> HIDE DEF u, p
    <3>3. sess = [e \in Ends |-> sess[e]]
      BY <1>0 DEF LifeTypes, EndTypes, LinkTypes
    <3>4. sess'["server"] = u /\ sess'["client"] = sess["client"] /\ sess' = [e \in Ends |-> sess'[e]]
      BY <1>6, <3>1, <3>3
    <3>5. made["server"] = 0
      <4>1. made["server"] \in Nat /\ (made["server"] > 0 => sess["server"].first = Parity("server"))
        BY <1>0, <1>6 DEF LifeInv, WaitInv, LifeTypes, EndTypes, LinkTypes
      <4>2. QED
        BY <2>2, <4>1 DEF Parity
    <3>6. \A e \in Ends : EndShape(sess'[e]) /\ sess'[e].st \in EndStates \ {"ProtocolViolation"}
                          /\ (sess'[e].first = sess[e].first \/ made[e] = 0)
      <4>1. EndShape(sess["client"])
        BY <1>0, <1>6 DEF LifeTypes, EndTypes, LinkTypes
      <4>2. QED
        BY <1>6, <2>2, <3>2, <3>4, <3>5, <4>1 DEF EndStates
    <3>7. /\ <<Welcome(setup)>> \in Seq(Control(setup)) /\ OnStream(<<Welcome(setup)>>) = {Welcome(setup)}
          /\ Welcome(setup).type = "ServerSetup" /\ Welcome(setup)' = Welcome(setup) /\ <<>> \in Seq(Control(setup))
          /\ Head(<<Welcome(setup)>>) = Welcome(setup) /\ <<Welcome(setup)>> # <<>> /\ OnStream(<<>>) = {}
      BY <1>1 DEF Control, OnStream, Welcome
    <3>8. /\ ctl' \in [Ends -> Seq(Control(setup))] /\ ctl'["client"] = <<Welcome(setup)>> /\ ctl'["server"] = <<>>
      BY <1>2, <1>6, <3>1, <3>7
    <3>9. p' = p
      BY <1>1 DEF p, ServerPath, Hello
    <3>10. SetupInv'
      <4>1. ClientAgrees'
        BY <1>1, <2>2, <3>4 DEF ClientAgrees
      <4>2. ServerPath(Hello(setup)).v' = u.path
        BY <3>2, <3>9 DEF p
      <4>3. QED
        BY <1>1, <2>2, <3>2, <3>4, <3>7, <3>8, <4>1, <4>2 DEF SetupInv
    <3>11. QED
      BY <1>4, <1>6, <3>4, <3>6, <3>7, <3>8, <3>10
  <2>6. QED
    BY <2>4, <2>5
<1>10. CASE ClientReady
  <2>1. /\ sess["client"].st = "setup" /\ ctl["client"] # <<>>
        /\ sess' = [sess EXCEPT !["client"].st = "up", !["client"].peer = Head(ctl["client"]).max]
        /\ ctl' = [ctl EXCEPT !["client"] = Tail(ctl["client"])]
    BY <1>10 DEF ClientReady
  <2>2. sess["server"].st = "up" /\ Head(ctl["client"]) = Welcome(setup)
    BY <1>0, <2>1 DEF SetupInv
  <2>3. Welcome(setup).max = setup.max.server
    BY DEF Welcome
  <2>4. PICK t : t = sess["client"]
    OBVIOUS
  <2>a. PICK y : y = setup.max.server
    OBVIOUS
  <2>b. PICK v : v = [t EXCEPT !.st = "up"]
    OBVIOUS
  <2>5. PICK u : u = [v EXCEPT !.peer = y]
    OBVIOUS
  <2>6. EndShape(u) /\ u.st = "up" /\ u.path = t.path /\ u.own = t.own /\ u.peer = setup.max.server /\ u.first = t.first
    <3>1. EndShape(t)
      BY <1>0, <1>6, <2>4 DEF LifeTypes, EndTypes, LinkTypes
    <3>2. EndShape(u) /\ u.st = "up" /\ u.path = t.path /\ u.own = t.own /\ u.peer = y /\ u.first = t.first
      <4>1. EndShape(v) /\ v.st = "up" /\ v.path = t.path /\ v.own = t.own /\ v.first = t.first
        BY <2>b, <3>1, EndSt
      <4>2. EndShape(u) /\ u.st = v.st /\ u.path = v.path /\ u.own = v.own /\ u.peer = y /\ u.first = v.first
        BY <2>5, <4>1, EndPeer
      <4>3. QED
        BY <4>1, <4>2
    <3>3. QED
      BY <2>a, <3>2
  <2>7. sess' = [sess EXCEPT !["client"] = u] /\ sess = [e \in Ends |-> sess[e]]
    BY <1>0, <2>1, <2>2, <2>3, <2>4, <2>5, <2>a, <2>b DEF LifeTypes, EndTypes, LinkTypes
  <2>8. sess'["client"] = u /\ sess'["server"] = sess["server"] /\ sess' = [e \in Ends |-> sess'[e]]
    BY <1>6, <2>7
  <2>9. \A e \in Ends : EndShape(sess'[e]) /\ sess'[e].st \in EndStates \ {"ProtocolViolation"} /\ sess'[e].first = sess[e].first
    <3>1. EndShape(sess["server"])
      BY <1>0, <1>6 DEF LifeTypes, EndTypes, LinkTypes
    <3>2. QED
      BY <1>6, <2>2, <2>4, <2>6, <2>8, <3>1 DEF EndStates
  <2>10. /\ ctl["client"] \in Seq(Control(setup)) /\ Tail(ctl["client"]) \in Seq(Control(setup))
         /\ OnStream(Tail(ctl["client"])) \subseteq OnStream(ctl["client"])
    BY <1>2, <1>6, <2>1, StreamMoves
  <2>11. ctl' \in [Ends -> Seq(Control(setup))] /\ ctl'["client"] = Tail(ctl["client"]) /\ ctl'["server"] = ctl["server"]
    BY <1>2, <1>6, <2>1, <2>10
  <2>12. SetupInv'
    <3>1. ClientAgrees' <=> ClientAgrees
      BY <1>1, <2>4, <2>6, <2>8 DEF ClientAgrees
    <3>2. ServerPath(Hello(setup))' = ServerPath(Hello(setup))
      BY <1>1 DEF ServerPath, Hello
    <3>3. QED
      BY <1>0, <1>1, <2>1, <2>2, <2>4, <2>6, <2>8, <3>1, <3>2 DEF SetupInv
  <2>13. QED
    BY <1>4, <1>6, <2>8, <2>9, <2>10, <2>11, <2>12
<1>11. QED
  BY <1>8, <1>9, <1>10

\* A step of an end that is up and makes no request: it may send, and it may fail.
LEMMA TalkKept ==
  ASSUME LifecycleAssumption, LifeInv, NEW e \in Ends, IsUp(e), setup' = setup, LinkTypes', made' = made, foreign' >= foreign,
         sess' = sess \/ Fails(e, "Serve") \/ (Fails(e, "ProtocolViolation") /\ foreign' > 0),
         \/ ctl'["client"] = ctl["client"] \/ e = "client"
         \/ \E m \in Control(setup) : ctl'["client"] = Append(ctl["client"], m),
         EndMove, \A x \in Ends : LinkMove(x) /\ pending'[x] \subseteq pending[x] /\ TimerInv(x)'
  PROVE  LifeInv'
<1>1. LifeTypes /\ EndTypes /\ LinkTypes /\ SetupInv /\ \A x \in Ends : sess[x].st = "ProtocolViolation" => foreign > 0
  BY DEF LifeInv, LifeTypes
<1>2. CASE sess' = sess
  <2>1. SetupInv'
    BY <1>1, <1>2, SetupKept DEF IsUp
  <2>2. EndTypes'
    BY <1>1, <1>2 DEF EndTypes
  <2>3. \A x \in Ends : sess'[x].first = sess[x].first /\ (sess'[x].st = "ProtocolViolation" => foreign' > 0)
    BY <1>1, <1>2 DEF LinkTypes
  <2>4. QED
    BY <2>1, <2>2, <2>3, LifeKept DEF LifeTypes
<1>3. ASSUME NEW error \in {"Serve", "ProtocolViolation"}, Fails(e, error), error = "ProtocolViolation" => foreign' > 0
      PROVE  LifeInv'
  <2>1. error \in EndStates \ {"setup", "up"} /\ "Closed" \in EndStates
    BY DEF EndStates
  <2>2. /\ SetupInv' /\ sess' = [x \in Ends |-> sess'[x]]
        /\ \A x \in Ends : /\ EndShape(sess'[x]) /\ sess'[x].first = sess[x].first
                           /\ sess'[x].st = (IF x = e THEN error ELSE "Closed")
    BY <1>1, <1>3, <2>1, BothEnd DEF IsUp
  <2>3. EndTypes' /\ \A x \in Ends : sess'[x].st = "ProtocolViolation" => foreign' > 0
    BY <1>3, <2>1, <2>2 DEF EndTypes
  <2>4. QED
    BY <2>2, <2>3, LifeKept DEF LifeTypes
<1>4. QED
  BY <1>2, <1>3

\* Time, and what an end does without sending.
LEMMA QuietKept ==
  ASSUME LifecycleAssumption, LifeInv, UNCHANGED <<setup, sess, ctl, owed, made, foreign>>, LinkTypes', EndMove,
         \A x \in Ends : pending'[x] \subseteq pending[x] /\ TimerInv(x)'
  PROVE  LifeInv'
<1>1. LifeTypes /\ EndTypes /\ LinkTypes /\ SetupInv /\ \A x \in Ends : sess[x].st = "ProtocolViolation" => foreign > 0
  BY DEF LifeInv, LifeTypes
<1>2. EndTypes'
  BY <1>1 DEF EndTypes
<1>3. SetupInv'
  <2>1. ClientAgrees' <=> ClientAgrees
    BY DEF ClientAgrees
  <2>2. ServerPath(Hello(setup))' = ServerPath(Hello(setup)) /\ Welcome(setup)' = Welcome(setup) /\ Hello(setup)' = Hello(setup)
    BY DEF ServerPath, Hello, Welcome
  <2>3. QED
    BY <1>1, <2>1, <2>2 DEF SetupInv
<1>4. \A x \in Ends : LinkMove(x)
  BY DEF LinkMove
<1>5. foreign' >= foreign
  BY <1>1 DEF LinkTypes
<1>6. QED
  BY <1>1, <1>2, <1>3, <1>4, <1>5, LifeKept DEF LifeTypes

\* What does not touch the timers.
LEMMA TimerKept ==
  ASSUME LifeInv, NEW x \in Ends, timer'[x] = timer[x], permit'[x] = permit[x], pending'[x] \subseteq pending[x]
  PROVE  TimerInv(x)'
  BY DEF LifeInv, TimerInv

\* Time, a handle that is dropped, a track that is left.
LEMMA QuietStep ==
  ASSUME LifecycleAssumption, LifeInv,
         Tick \/ (\E id \in SessionIds : LeaveTrack(id)) \/ \E e \in Ends, id \in SessionIds : DropRequest(e, id)
  PROVE  LifeInv'
<1>0. LinkTypes /\ \A x \in Ends : WaitInv(x)
  BY DEF LifeInv, LifeTypes
<1>1. UNCHANGED <<setup, sess, ctl, owed, made, foreign, permit, timer, expired>> /\ Control(setup)' = Control(setup)
  BY DEF Tick, LeaveTrack, DropRequest, Control, Hello, Welcome
<1>2. CASE Tick \/ \E id \in SessionIds : LeaveTrack(id)
  <2>1. UNCHANGED <<pending, ends, live>> /\ now' \in Nat /\ unread' \subseteq SessionIds
    BY <1>0, <1>2 DEF Tick, LeaveTrack, LinkTypes
  <2>2. LinkTypes'
    BY <1>0, <1>1, <2>1 DEF LinkTypes
  <2>3. EndMove
    BY <2>1 DEF EndMove
  <2>4. \A x \in Ends : TimerInv(x)'
    BY <1>1, <2>1, TimerKept
  <2>5. QED
    BY <1>1, <2>1, <2>2, <2>3, <2>4, QuietKept
<1>3. ASSUME NEW e \in Ends, NEW id \in SessionIds, DropRequest(e, id) PROVE LifeInv'
  <2>1. /\ live' = live \ {id} /\ unread' = unread /\ now' = now
        /\ pending' = [pending EXCEPT ![e] = {p \in pending[e] : p.id # id}]
        /\ ends' = IF \E p \in pending[e] : p.id = id THEN [ends EXCEPT ![id] = Append(ends[id], "dropped")] ELSE ends
    BY <1>3 DEF DropRequest
  <2>2. pending \in [Ends -> SUBSET Waiting] /\ ends \in [SessionIds -> Seq({"ok", "error", "timeout", "dropped"})]
    BY <1>0 DEF LinkTypes
  <2>3. /\ pending' \in [Ends -> SUBSET Waiting] /\ pending'[e] = {p \in pending[e] : p.id # id}
        /\ \A x \in Ends \ {e} : pending'[x] = pending[x]
    BY <2>1, <2>2
  <2>4. Append(ends[id], "dropped") \in Seq({"ok", "error", "timeout", "dropped"})
    BY <2>2
  <2>5. ends' \in [SessionIds -> Seq({"ok", "error", "timeout", "dropped"})]
    BY <2>1, <2>2, <2>4
  <2>6. \A x \in Ends : pending'[x] \subseteq pending[x]
    BY <2>3
  <2>7. EndMove
    <3>1. ASSUME NEW i \in SessionIds, ends'[i] # ends[i]
          PROVE  i = id /\ ends'[i] = Append(ends[i], "dropped") /\ \E p \in pending[e] : p.id = i
      BY <2>1, <2>2, <3>1
    <3>2. QED
      BY <2>3, <3>1 DEF EndMove
  <2>8. LinkTypes'
    BY <1>0, <1>1, <2>1, <2>3, <2>5 DEF LinkTypes
  <2>9. \A x \in Ends : TimerInv(x)'
    BY <1>1, <2>6, TimerKept
  <2>10. QED
    BY <1>1, <2>6, <2>7, <2>8, <2>9, QuietKept
<1>4. QED
  BY <1>2, <1>3

\* run_pending_timeouts, until it has something to tell.
LEMMA TimerStep ==
  ASSUME LifecycleAssumption, LifeInv, NEW e \in Ends, TimerLook(e) \/ TimerNotified(e) \/ TimerExpire(e)
  PROVE  LifeInv'
<1>0. LinkTypes /\ \A x \in Ends : WaitInv(x)
  BY DEF LifeInv, LifeTypes
<1>1. UNCHANGED <<setup, sess, ctl, owed, made, foreign, live, unread, now>> /\ Control(setup)' = Control(setup)
  BY DEF TimerLook, TimerNotified, TimerExpire, Control, Hello, Welcome
<1>2. /\ pending \in [Ends -> SUBSET Waiting] /\ ends \in [SessionIds -> Seq({"ok", "error", "timeout", "dropped"})]
      /\ timer \in [Ends -> [st : {"look", "changed", "sleep", "apply"}, until : Nat]] /\ permit \in [Ends -> BOOLEAN]
      /\ expired \in [Ends -> SUBSET Waiting] /\ now \in Nat
  BY <1>0 DEF LinkTypes
<1>3. ASSUME timer' \in [Ends -> [st : {"look", "changed", "sleep", "apply"}, until : Nat]], permit' \in [Ends -> BOOLEAN],
             UNCHANGED <<pending, ends, expired>>, TimerInv(e)',
             \A x \in Ends \ {e} : timer'[x] = timer[x] /\ permit'[x] = permit[x]
      PROVE  LifeInv'
  <2>1. LinkTypes' /\ EndMove
    BY <1>0, <1>1, <1>3 DEF LinkTypes, EndMove
  <2>2. \A x \in Ends : TimerInv(x)' /\ pending'[x] \subseteq pending[x]
    BY <1>3, TimerKept
  <2>3. QED
    BY <1>1, <2>1, <2>2, QuietKept
<1>4. CASE TimerLook(e) /\ pending[e] = {}
  <2>1. PICK t : t = [st |-> "changed", until |-> 0]
    OBVIOUS
  <2>2. t \in [st : {"look", "changed", "sleep", "apply"}, until : Nat] /\ t.st = "changed"
    BY <2>1
  <2>3. timer' = [timer EXCEPT ![e] = t] /\ UNCHANGED <<pending, permit, ends, expired>>
    BY <1>4, <2>1 DEF TimerLook
  <2>4. timer' \in [Ends -> [st : {"look", "changed", "sleep", "apply"}, until : Nat]] /\ timer'[e] = t
        /\ \A x \in Ends \ {e} : timer'[x] = timer[x]
    BY <1>2, <2>2, <2>3
  <2>5. TimerInv(e)'
    BY <1>4, <2>2, <2>3, <2>4 DEF TimerInv
  <2>6. QED
    BY <1>2, <1>3, <2>3, <2>4, <2>5
<1>5. CASE TimerLook(e) /\ pending[e] # {}
  <2> DEFINE D == {p.deadline : p \in pending[e]}
  <2>1. D \subseteq Nat /\ D # {} /\ \A p \in pending[e] : p.deadline \in D
    BY <1>2, <1>5 DEF Waiting
  <2>2. \E d \in D : \A p \in pending[e] : d <= p.deadline
    <3> HIDE DEF D
    <3>1. \E d \in D : \A x \in D : d <= x
      BY <2>1, LeastNatural
    <3>2. QED
      BY <2>1, <3>1
  <2>3. Earliest(e) \in D /\ \A p \in pending[e] : Earliest(e) <= p.deadline
    BY <2>2 DEF Earliest
  <2> HIDE DEF D
  <2>4. PICK t : t = [st |-> "sleep", until |-> Earliest(e)]
    OBVIOUS
  <2>5. t \in [st : {"look", "changed", "sleep", "apply"}, until : Nat] /\ t.st = "sleep" /\ t.until = Earliest(e)
    BY <2>1, <2>3, <2>4
  <2>6. timer' = [timer EXCEPT ![e] = t] /\ UNCHANGED <<pending, permit, ends, expired>>
    BY <1>5, <2>4 DEF TimerLook
  <2>7. timer' \in [Ends -> [st : {"look", "changed", "sleep", "apply"}, until : Nat]] /\ timer'[e] = t
        /\ \A x \in Ends \ {e} : timer'[x] = timer[x]
    BY <1>2, <2>5, <2>6
  <2>8. TimerInv(e)'
    BY <2>3, <2>5, <2>6, <2>7 DEF TimerInv
  <2>9. QED
    BY <1>2, <1>3, <2>6, <2>7, <2>8
<1>6. ASSUME NEW y \in {"look", "apply"}, timer' = [timer EXCEPT ![e].st = y]
      PROVE  /\ timer' \in [Ends -> [st : {"look", "changed", "sleep", "apply"}, until : Nat]] /\ timer'[e].st = y
             /\ \A x \in Ends \ {e} : timer'[x] = timer[x]
  BY <1>2, <1>6
<1>7. CASE TimerNotified(e)
  <2>1. permit' = [permit EXCEPT ![e] = FALSE] /\ timer' = [timer EXCEPT ![e].st = "look"] /\ UNCHANGED <<pending, expired, ends>>
    BY <1>7 DEF TimerNotified
  <2>2. permit' \in [Ends -> BOOLEAN] /\ \A x \in Ends \ {e} : permit'[x] = permit[x]
    BY <1>2, <2>1
  <2>3. TimerInv(e)'
    BY <1>6, <2>1 DEF TimerInv
  <2>4. QED
    BY <1>3, <1>6, <2>1, <2>2, <2>3
<1>8. CASE TimerExpire(e)
  <2> DEFINE due == {p \in pending[e] : p.deadline <= now}
  <2>1. /\ pending' = [pending EXCEPT ![e] = pending[e] \ due] /\ expired' = [expired EXCEPT ![e] = due]
        /\ ends' = [id \in SessionIds |-> IF \E p \in due : p.id = id THEN Append(ends[id], "timeout") ELSE ends[id]]
        /\ timer' = [timer EXCEPT ![e].st = "apply"] /\ permit' = permit
    BY <1>8 DEF TimerExpire
  <2>2. due \subseteq pending[e] /\ due \in SUBSET Waiting
    BY <1>2
  <2> HIDE DEF due
  <2>3. /\ pending' \in [Ends -> SUBSET Waiting] /\ expired' \in [Ends -> SUBSET Waiting]
        /\ pending'[e] = pending[e] \ due /\ \A x \in Ends \ {e} : pending'[x] = pending[x]
    BY <1>2, <2>1, <2>2
  <2>4. \A id \in SessionIds : Append(ends[id], "timeout") \in Seq({"ok", "error", "timeout", "dropped"})
    BY <1>2
  <2>5. ends' \in [SessionIds -> Seq({"ok", "error", "timeout", "dropped"})]
    BY <1>2, <2>1, <2>4
  <2>6. \A x \in Ends : pending'[x] \subseteq pending[x]
    BY <2>3
  <2>7. EndMove
    <3>1. ASSUME NEW id \in SessionIds, ends'[id] # ends[id]
          PROVE  /\ ends'[id] = Append(ends[id], "timeout") /\ \E p \in pending[e] : p.id = id
                 /\ \A p \in pending'[e] : p.id # id
      <4>1. ends'[id] = Append(ends[id], "timeout") /\ \E p \in due : p.id = id
        BY <2>1, <3>1
      <4>2. PICK p \in due : p.id = id
        BY <4>1
      <4>3. \A q \in pending'[e] : q.id # id
        BY <1>0, <2>2, <2>3, <4>2 DEF WaitInv
      <4>4. QED
        BY <2>2, <4>1, <4>3
    <3>2. QED
      BY <3>1 DEF EndMove
  <2>8. /\ timer' \in [Ends -> [st : {"look", "changed", "sleep", "apply"}, until : Nat]] /\ timer'[e].st = "apply"
        /\ \A x \in Ends \ {e} : timer'[x] = timer[x]
    BY <1>6, <2>1
  <2>9. LinkTypes'
    BY <1>0, <1>1, <2>1, <2>3, <2>5, <2>8 DEF LinkTypes
  <2>10. ASSUME NEW x \in Ends PROVE TimerInv(x)'
    <3>1. CASE x = e
      BY <2>8, <3>1 DEF TimerInv
    <3>2. CASE x # e
      BY <2>1, <2>6, <2>8, <3>2, TimerKept
    <3>3. QED
      BY <3>1, <3>2
  <2>11. QED
    BY <1>1, <2>6, <2>7, <2>9, <2>10, QuietKept
<1>9. QED
  BY <1>4, <1>5, <1>7, <1>8

\* A message on the control stream of an end.
LEMMA MessageTyped ==
  ASSUME NEW type \in ControlTypes, NEW id \in Nat
  PROVE  Message(type, id) \in Control(setup) /\ Message(type, id).type = type /\ Message(type, id).id = id
  BY DEF Message, Control

\* It arrives after those that are on their way.
LEMMA MessageSent ==
  ASSUME LinkTypes, setup' = setup, NEW e \in Ends, NEW m \in Control(setup),
         ctl' = [ctl EXCEPT ![e] = Append(ctl[e], m)]
  PROVE  /\ ctl' \in [Ends -> Seq(Control(setup)')] /\ OnStream(ctl'[e]) = OnStream(ctl[e]) \cup {m}
         /\ ctl'[Peer(e)] = ctl[Peer(e)]
         /\ ctl'["client"] = ctl["client"] \/ \E n \in Control(setup) : ctl'["client"] = Append(ctl["client"], n)
<1>1. ctl \in [Ends -> Seq(Control(setup))] /\ Control(setup)' = Control(setup)
  BY DEF LinkTypes, Control, Hello, Welcome
<1>2. ctl[e] \in Seq(Control(setup))
  BY <1>1
<1>3. Append(ctl[e], m) \in Seq(Control(setup)) /\ OnStream(Append(ctl[e], m)) = OnStream(ctl[e]) \cup {m}
  BY <1>2, StreamMoves
<1>4. ctl' \in [Ends -> Seq(Control(setup))] /\ ctl'[e] = Append(ctl[e], m) /\ \A x \in Ends \ {e} : ctl'[x] = ctl[x]
  BY <1>1, <1>3
<1>5. QED
  BY <1>1, <1>3, <1>4, TwoEnds

\* A new request.
LEMMA MakeStep ==
  ASSUME LifecycleAssumption, LifeInv, NEW e \in Ends, NEW kind \in setup.kinds, MakeRequest(e, kind)
  PROVE  LifeInv'
<1>0. /\ LifeTypes /\ LinkTypes /\ EndTypes /\ SetupInv /\ \A x \in Ends : LinkInv(x) /\ WaitInv(x) /\ TimerInv(x)
      /\ Peer(e) \in Ends /\ Peer(e) # e /\ Peer(Peer(e)) = e
  BY TwoEnds DEF LifeInv, LifeTypes
<1>1. UNCHANGED <<setup, sess, timer, expired, unread, owed, goaway, foreign, now, ends>> /\ Control(setup)' = Control(setup)
  BY DEF MakeRequest, Control, Hello, Welcome
<1>2. /\ pending \in [Ends -> SUBSET Waiting] /\ permit \in [Ends -> BOOLEAN] /\ made \in [Ends -> Nat] /\ now \in Nat
      /\ MaxRequests \in Nat /\ RESPONSE_TIMEOUT \in Nat /\ kind \in RequestKinds /\ live \subseteq SessionIds /\ foreign \in Nat
      /\ owed \in [Ends -> SUBSET [id : Nat, kind : RequestKinds]]
  BY <1>0 DEF LinkTypes, LifecycleAssumption
<1>3. IsUp(e) /\ made[e] < MaxRequests
  BY DEF MakeRequest
<1>4. sess[e].first = Parity(e)
  BY <1>0, <1>3, TwoEnds DEF SetupInv, IsUp, Parity
<1>5. PICK id : id = NextId(e)
  OBVIOUS
<1>6. /\ id \in Nat /\ id = Parity(e) + 2 * made[e] /\ id < 2 * MaxRequests /\ id \in SessionIds /\ id % 2 = Parity(e)
      /\ Parity(e) \in {0, 1} /\ made[e] \in Nat
  <2>1. Parity(e) \in {0, 1} /\ made[e] \in Nat
    BY <1>2, TwoEnds
  <2>2. id \in Nat /\ id = Parity(e) + 2 * made[e] /\ id < 2 * MaxRequests
    BY <1>2, <1>3, <1>5, <2>1 DEF NextId
  <2>3. id \in SessionIds
    BY <1>2, <2>2 DEF SessionIds
  <2>4. id % 2 = Parity(e)
    BY <2>1, <2>2
  <2>5. QED
    BY <2>1, <2>2, <2>3, <2>4
<1>7. PICK w \in Waiting \cup {[id |-> id, kind |-> kind, deadline |-> now + RESPONSE_TIMEOUT]} :
        w = [id |-> id, kind |-> kind, deadline |-> now + RESPONSE_TIMEOUT]
  OBVIOUS
<1>8. w.id = id /\ w.kind = kind /\ (kind # "TrackStatus" => w \in Waiting)
  BY <1>2, <1>6, <1>7 DEF Waiting
<1>9. /\ made' = [made EXCEPT ![e] = made[e] + 1] /\ ctl' = [ctl EXCEPT ![Peer(e)] = Append(ctl[Peer(e)], Message(kind, id))]
      /\ \/ kind = "TrackStatus" /\ UNCHANGED <<pending, permit, live>>
         \/ /\ kind # "TrackStatus" /\ pending' = [pending EXCEPT ![e] = pending[e] \cup {w}]
            /\ permit' = [permit EXCEPT ![e] = TRUE] /\ live' = live \cup {id}
  <2>1. sess[e].first + 2 * made[e] = id
    BY <1>4, <1>6
  <2>2. QED
    BY <1>7, <2>1 DEF MakeRequest, Sent, Noticed
<1>10. /\ made' \in [Ends -> Nat] /\ made'[e] = made[e] + 1 /\ made'[Peer(e)] = made[Peer(e)]
       /\ live' \subseteq SessionIds
  <2>1. made' = [made EXCEPT ![e] = made[e] + 1] /\ made[e] + 1 \in Nat
    BY <1>6, <1>9
  <2>2. made' \in [Ends -> Nat] /\ made'[e] = made[e] + 1 /\ made'[Peer(e)] = made[Peer(e)]
    BY <1>0, <1>2, <2>1
  <2>3. live' = live \/ live' = live \cup {id}
    BY <1>9
  <2>4. QED
    BY <1>2, <1>6, <2>2, <2>3
<1>11. /\ pending' \in [Ends -> SUBSET Waiting] /\ permit' \in [Ends -> BOOLEAN]
       /\ pending'[Peer(e)] = pending[Peer(e)] /\ permit'[Peer(e)] = permit[Peer(e)]
       /\ \/ kind = "TrackStatus" /\ pending'[e] = pending[e] /\ permit'[e] = permit[e]
          \/ pending'[e] = pending[e] \cup {w} /\ permit'[e]
  <2>1. CASE kind = "TrackStatus"
    BY <1>2, <1>9, <2>1
  <2>2. CASE kind # "TrackStatus"
    <3>1. pending' = [pending EXCEPT ![e] = pending[e] \cup {w}] /\ permit' = [permit EXCEPT ![e] = TRUE] /\ w \in Waiting
      BY <1>8, <1>9, <2>2
    <3>2. QED
      BY <1>0, <1>2, <3>1
  <2>3. QED
    BY <2>1, <2>2
<1>12. /\ kind \in ControlTypes /\ kind \notin Responses \cup ForeignTypes
  BY <1>2 DEF ControlTypes, RequestKinds, Responses, ForeignTypes
<1>13. /\ ctl' \in [Ends -> Seq(Control(setup)')] /\ Message(kind, id).type = kind /\ Message(kind, id).id = id
       /\ OnStream(ctl'[Peer(e)]) = OnStream(ctl[Peer(e)]) \cup {Message(kind, id)} /\ ctl'[e] = ctl[e]
       /\ ctl'["client"] = ctl["client"] \/ \E m \in Control(setup) : ctl'["client"] = Append(ctl["client"], m)
  <2>1. PICK y \in Ends : y = Peer(e)
    BY <1>0
  <2>2. PICK m \in Control(setup) : m = Message(kind, id) /\ m.type = kind /\ m.id = id
    BY <1>6, <1>12, MessageTyped
  <2>3. ctl' = [ctl EXCEPT ![y] = Append(ctl[y], m)] /\ setup' = setup /\ LinkTypes
    BY <1>0, <1>1, <1>9, <2>1, <2>2
  <2>4. /\ ctl' \in [Ends -> Seq(Control(setup)')] /\ OnStream(ctl'[y]) = OnStream(ctl[y]) \cup {m}
        /\ ctl'[Peer(y)] = ctl[Peer(y)]
        /\ ctl'["client"] = ctl["client"] \/ \E n \in Control(setup) : ctl'["client"] = Append(ctl["client"], n)
    BY <2>3, MessageSent
  <2>5. QED
    BY <1>0, <2>1, <2>2, <2>4
<1>14. LinkTypes' /\ EndTypes'
  BY <1>0, <1>1, <1>2, <1>10, <1>11, <1>13 DEF LinkTypes, EndTypes
<1>15. SetupInv'
  BY <1>0, <1>1, <1>3, <1>13, SetupKept
<1>16. NextId(e)' = id + 2 /\ NextId(e) = id
  BY <1>5, <1>6, <1>10 DEF NextId
<1>17. \A p \in pending[e] : p.id < id /\ p.id \in Nat
  BY <1>0, <1>2, <1>16 DEF WaitInv, Waiting
<1>18. \A p \in pending'[e] : p \in pending[e] \/ (p = w /\ kind # "TrackStatus")
  BY <1>8, <1>9, <1>11
<1>19. LinkInv(e)'
  <2>0. \A x \in Ends : \A m \in OnStream(ctl[x]) : m.type \in ControlTypes => m.id \in Nat
    <3>1. ASSUME NEW x \in Ends PROVE OnStream(ctl[x]) \subseteq Control(setup)
      BY <1>0, StreamMoves DEF LinkTypes
    <3>2. QED
      BY <3>1 DEF Control, ControlTypes, Hello, Welcome, RequestKinds, Responses, ForeignTypes
  <2>1. ASSUME NEW m \in OnStream(ctl'[Peer(e)]), m.type \in RequestKinds
        PROVE  m.id < id + 2 /\ \A p \in pending'[e] : p.id = m.id => p.kind = m.type
    <3>1. CASE m \in OnStream(ctl[Peer(e)])
      <4>1. m.id < id /\ m.id \in Nat /\ \A p \in pending[e] : p.id = m.id => p.kind = m.type
        BY <1>0, <1>16, <2>0, <2>1, <3>1 DEF LinkInv, ControlTypes
      <4>2. QED
        BY <1>6, <1>8, <1>18, <4>1
    <3>2. CASE m = Message(kind, id)
      <4>1. m.id = id /\ m.type = kind
        BY <1>13, <3>2
      <4>2. \A p \in pending[e] : p.id # id
        BY <1>6, <1>17
      <4>3. id < id + 2
        BY <1>6
      <4>4. QED
        BY <1>8, <1>18, <4>1, <4>2, <4>3
    <3>3. QED
      BY <1>13, <3>1, <3>2
  <2>2. ASSUME NEW r \in owed'[Peer(e)]
        PROVE  r.id < id + 2 /\ \A p \in pending'[e] : p.id = r.id => p.kind = r.kind
    <3>1. r \in owed[Peer(e)] /\ r.id < id /\ r.id \in Nat /\ \A p \in pending[e] : p.id = r.id => p.kind = r.kind
      BY <1>0, <1>1, <1>2, <1>16 DEF LinkInv
    <3>2. QED
      BY <1>6, <1>8, <1>18, <3>1
  <2>3. ASSUME NEW m \in OnStream(ctl'[e]), m.type \in Responses
        PROVE  /\ m.id < id + 2 \/ m.id >= 2 * MaxRequests
               /\ \A p \in pending'[e] : p.id = m.id => Accepts(p.kind, m.type)
    <3>1. /\ m.id < id \/ m.id >= 2 * MaxRequests
          /\ m.id \in Nat /\ \A p \in pending[e] : p.id = m.id => Accepts(p.kind, m.type)
      BY <1>0, <1>13, <1>16, <2>0, <2>3 DEF LinkInv, ControlTypes
    <3>2. QED
      BY <1>2, <1>6, <1>8, <1>18, <3>1
  <2>4. \A m \in OnStream(ctl'[e]) : m.type \in ForeignTypes => m.id >= 2 * MaxRequests /\ foreign' > 0
    BY <1>0, <1>1, <1>13 DEF LinkInv
  <2>5. QED
    BY <1>16, <2>1, <2>2, <2>3, <2>4 DEF LinkInv
<1>20. LinkInv(Peer(e))'
  <2>1. LinkMove(Peer(e))
    BY <1>0, <1>1, <1>12, <1>13 DEF LinkMove
  <2>2. foreign' >= foreign
    BY <1>1, <1>2
  <2>3. QED
    BY <1>0, <1>10, <1>11, <1>14, <2>1, <2>2, LinkKept DEF LifeTypes
<1>21. WaitInv(Peer(e))'
  <2>1. EndMove
    BY <1>1 DEF EndMove
  <2>2. QED
    BY <1>0, <1>1, <1>10, <1>11, <2>1, WaitKept
<1>22. WaitInv(e)'
  <2>1. made'[e] <= MaxRequests /\ sess'[e].first = Parity(e) /\ made'[e] > 0
    BY <1>1, <1>2, <1>3, <1>4, <1>6, <1>10
  <2>2. ends[id] = <<>>
    <3>1. id >= NextId(e)
      BY <1>6, <1>16
    <3>2. QED
      BY <1>0, <1>6, <3>1 DEF WaitInv
  <2>3. ASSUME NEW p \in pending'[e]
        PROVE  p.id \in SessionIds /\ p.id < id + 2 /\ p.id % 2 = Parity(e) /\ ends'[p.id] = <<>>
    <3>1. CASE p \in pending[e]
      <4>1. p.id \in SessionIds /\ p.id % 2 = Parity(e) /\ ends[p.id] = <<>>
        BY <1>0, <3>1 DEF WaitInv
      <4>2. QED
        BY <1>1, <1>6, <1>17, <3>1, <4>1
    <3>2. CASE p = w
      BY <1>1, <1>6, <1>8, <2>2, <3>2
    <3>3. QED
      BY <1>18, <3>1, <3>2
  <2>4. \A p, q \in pending'[e] : p.id = q.id => p = q
    <3>1. \A p, q \in pending[e] : p.id = q.id => p = q
      BY <1>0 DEF WaitInv
    <3>2. \A p \in pending[e] : p.id # id
      BY <1>6, <1>17
    <3>3. QED
      BY <1>8, <1>18, <3>1, <3>2
  <2>5. ASSUME NEW x \in SessionIds, x % 2 = Parity(e), x >= id + 2 PROVE ends'[x] = <<>>
    <3>1. x >= NextId(e)
      BY <1>2, <1>6, <1>16, <2>5 DEF SessionIds
    <3>2. QED
      BY <1>0, <1>1, <2>5, <3>1 DEF WaitInv
  <2>6. QED
    BY <1>16, <2>1, <2>3, <2>4, <2>5 DEF WaitInv
<1>23. TimerInv(e)' /\ TimerInv(Peer(e))'
  BY <1>0, <1>1, <1>11 DEF TimerInv
<1>24. \A x \in Ends : sess'[x].st = "ProtocolViolation" => foreign' > 0
  BY <1>1 DEF LifeInv
<1>25. \A id2 \in SessionIds : Len(ends'[id2]) <= 1
  BY <1>1 DEF LifeInv
<1>26. \A x \in Ends : x = e \/ x = Peer(e)
  BY TwoEnds
<1>27. QED
  BY <1>14, <1>15, <1>19, <1>20, <1>21, <1>22, <1>23, <1>24, <1>25, <1>26 DEF LifeInv, LifeTypes

\* One message more that is no request.
LEMMA OneSent ==
  ASSUME LinkTypes, setup' = setup, NEW y \in Ends, NEW m \in Control(setup), ctl' = [ctl EXCEPT ![y] = Append(ctl[y], m)],
         \A x \in Ends : owed'[x] \subseteq owed[x], m.type \notin RequestKinds,
         \/ m.type \notin Responses \cup ForeignTypes
         \/ m.type \in Responses /\ \E r \in owed[Peer(y)] : m.id = r.id /\ m.type \in {"RequestError", OkOf(r.kind)}
         \/ m.type \in ForeignTypes /\ m.id >= 2 * MaxRequests /\ foreign' > 0
  PROVE  \A x \in Ends : LinkMove(x)
<1>1. OnStream(ctl'[y]) = OnStream(ctl[y]) \cup {m} /\ ctl'[Peer(y)] = ctl[Peer(y)]
  BY MessageSent
<1>2. Peer(y) \in Ends /\ Peer(Peer(y)) = y
  BY TwoEnds
<1>3. LinkMove(y)
  BY <1>1, <1>2 DEF LinkMove
<1>4. LinkMove(Peer(y))
  BY <1>1, <1>2 DEF LinkMove
<1>5. QED
  BY <1>3, <1>4, TwoEnds

\* An answer, a foreign message, a request that is told of its timeout.
LEMMA TalkStep ==
  ASSUME LifecycleAssumption, LifeInv, NEW e \in Ends,
         (\E r \in owed[e] : AnswerRequest(e, r)) \/ (\E type \in setup.foreign : SendForeign(e, type)) \/ TimerApply(e)
  PROVE  LifeInv'
<1>0. /\ LinkTypes /\ SetupInv /\ Peer(e) \in Ends /\ Peer(e) # e /\ Peer(Peer(e)) = e
  BY TwoEnds DEF LifeInv, LifeTypes
<1>1. UNCHANGED <<setup, pending, permit, live, unread, made, now, ends>> /\ Control(setup)' = Control(setup) /\ IsUp(e)
  BY DEF AnswerRequest, SendForeign, TimerApply, Control, Hello, Welcome
<1>2. /\ ctl \in [Ends -> Seq(Control(setup))] /\ owed \in [Ends -> SUBSET [id : Nat, kind : RequestKinds]] /\ foreign \in Nat
      /\ expired \in [Ends -> SUBSET Waiting] /\ MaxRequests \in Nat
      /\ timer \in [Ends -> [st : {"look", "changed", "sleep", "apply"}, until : Nat]]
  BY <1>0 DEF LinkTypes, LifecycleAssumption
<1>3. EndMove /\ \A x \in Ends : pending'[x] \subseteq pending[x]
  BY <1>1 DEF EndMove
<1>4. ASSUME NEW r \in owed[e], AnswerRequest(e, r) PROVE LifeInv'
  <2>1. owed' = [owed EXCEPT ![e] = owed[e] \ {r}] /\ UNCHANGED <<sess, timer, expired, foreign>>
    BY <1>4 DEF AnswerRequest
  <2>2. owed' \in [Ends -> SUBSET [id : Nat, kind : RequestKinds]] /\ \A x \in Ends : owed'[x] \subseteq owed[x]
    BY <1>2, <2>1
  <2>3. \A x \in Ends : TimerInv(x)'
    BY <1>1, <1>3, <2>1, TimerKept
  <2>4. ASSUME ctl' \in [Ends -> Seq(Control(setup)')], \A x \in Ends : LinkMove(x),
               \/ ctl'["client"] = ctl["client"]
               \/ \E n \in Control(setup) : ctl'["client"] = Append(ctl["client"], n)
        PROVE  LifeInv'
    <3>1. LinkTypes'
      BY <1>0, <1>1, <2>1, <2>2, <2>4 DEF LinkTypes
    <3>2. foreign' >= foreign
      BY <1>2, <2>1
    <3>3. QED
      BY <1>1, <1>3, <2>1, <2>3, <2>4, <3>1, <3>2, TalkKept
  <2>5. CASE ctl' = ctl
    <3>1. \A x \in Ends : LinkMove(x)
      BY <2>2, <2>5, <1>0, TwoEnds DEF LinkMove
    <3>2. QED
      BY <1>1, <1>2, <2>4, <2>5, <3>1
  <2>6. ASSUME NEW type \in {OkOf(r.kind), "RequestError"}, ctl' = Sent(e, Message(type, r.id)) PROVE LifeInv'
    <3>1. r.id \in Nat /\ r.kind \in RequestKinds
      BY <1>2
    <3>2. type \in Responses /\ type \in ControlTypes /\ type \notin RequestKinds
      BY <3>1 DEF OkOf, Responses, RequestKinds, ControlTypes
    <3>3. PICK m \in Control(setup) : m = Message(type, r.id) /\ m.type = type /\ m.id = r.id
      BY <3>1, <3>2, MessageTyped
    <3>4. PICK y \in Ends : y = Peer(e) /\ Peer(y) = e
      BY <1>0
    <3>5. ctl' = [ctl EXCEPT ![y] = Append(ctl[y], m)]
      BY <2>6, <3>3, <3>4 DEF Sent
    <3>6. \A x \in Ends : LinkMove(x)
      <4>1. m.type \in Responses /\ \E q \in owed[Peer(y)] : m.id = q.id /\ m.type \in {"RequestError", OkOf(q.kind)}
        BY <3>2, <3>3, <3>4
      <4>2. m.type \notin RequestKinds /\ setup' = setup
        BY <1>1, <3>2, <3>3
      <4>3. QED
        BY <1>0, <2>2, <3>5, <4>1, <4>2, OneSent
    <3>7. /\ ctl' \in [Ends -> Seq(Control(setup)')]
          /\ ctl'["client"] = ctl["client"] \/ \E n \in Control(setup) : ctl'["client"] = Append(ctl["client"], n)
      BY <1>0, <1>1, <3>5, MessageSent
    <3>8. QED
      BY <2>4, <3>6, <3>7
  <2>7. QED
    BY <1>4, <2>5, <2>6 DEF AnswerRequest
<1>5. ASSUME NEW type \in setup.foreign, SendForeign(e, type) PROVE LifeInv'
  <2>1. /\ foreign' = foreign + 1 /\ UNCHANGED <<sess, timer, expired, owed>>
        /\ ctl' = [ctl EXCEPT ![e] = Append(ctl[e], Message(type, 2 * MaxRequests + sess[Peer(e)].first))]
    BY <1>5 DEF SendForeign
  <2>2. foreign' \in Nat /\ foreign' > 0 /\ foreign' >= foreign
    BY <1>2, <2>1
  <2>3. type \in ForeignTypes
    BY <1>0 DEF LinkTypes, LifecycleAssumption, ForeignTypes
  <2>4. type \in ControlTypes /\ type \notin RequestKinds
    BY <2>3 DEF ControlTypes, ForeignTypes, RequestKinds
  <2>5. PICK id : id = 2 * MaxRequests + sess[Peer(e)].first
    OBVIOUS
  <2>6. id \in Nat /\ id >= 2 * MaxRequests
    <3>1. sess[Peer(e)].first \in {0, 1}
      BY <1>0, <1>1, TwoEnds DEF SetupInv, IsUp
    <3>2. QED
      BY <1>2, <2>5, <3>1
  <2>7. PICK m \in Control(setup) : m = Message(type, id) /\ m.type = type /\ m.id = id
    BY <2>4, <2>6, MessageTyped
  <2>8. ctl' = [ctl EXCEPT ![e] = Append(ctl[e], m)] /\ setup' = setup
    BY <1>1, <2>1, <2>5, <2>7
  <2>9. \A x \in Ends : LinkMove(x)
    <3>1. m.type \in ForeignTypes /\ m.id >= 2 * MaxRequests /\ foreign' > 0 /\ m.type \notin RequestKinds
      BY <2>2, <2>3, <2>4, <2>6, <2>7
    <3>2. \A x \in Ends : owed'[x] \subseteq owed[x]
      BY <2>1
    <3>3. QED
      BY <1>0, <2>8, <3>1, <3>2, OneSent
  <2>10. /\ ctl' \in [Ends -> Seq(Control(setup)')]
         /\ ctl'["client"] = ctl["client"] \/ \E n \in Control(setup) : ctl'["client"] = Append(ctl["client"], n)
    BY <1>0, <2>8, MessageSent
  <2>11. LinkTypes'
    BY <1>0, <1>1, <2>1, <2>2, <2>10 DEF LinkTypes
  <2>12. \A x \in Ends : TimerInv(x)'
    BY <1>1, <1>3, <2>1, TimerKept
  <2>13. QED
    BY <1>1, <1>3, <2>1, <2>2, <2>9, <2>10, <2>11, <2>12, TalkKept
<1>6. CASE TimerApply(e)
  <2>1. owed' = owed /\ foreign' = foreign /\ timer[e].st = "apply"
    BY <1>6 DEF TimerApply
  <2>2. CASE expired[e] = {}
    <3>1. timer' = [timer EXCEPT ![e].st = "look"] /\ UNCHANGED <<sess, ctl, expired>>
      BY <1>6, <2>2 DEF TimerApply
    <3>2. timer' \in [Ends -> [st : {"look", "changed", "sleep", "apply"}, until : Nat]] /\ timer'[e].st = "look"
          /\ \A x \in Ends \ {e} : timer'[x] = timer[x]
      BY <1>2, <3>1
    <3>3. LinkTypes'
      BY <1>0, <1>1, <2>1, <3>1, <3>2 DEF LinkTypes
    <3>4. ASSUME NEW x \in Ends PROVE TimerInv(x)'
      <4>1. CASE x = e
        BY <3>2, <4>1 DEF TimerInv
      <4>2. CASE x # e
        BY <1>1, <1>3, <3>2, <4>2, TimerKept
      <4>3. QED
        BY <4>1, <4>2
    <3>5. QED
      BY <1>1, <1>3, <2>1, <3>1, <3>3, <3>4, QuietKept
  <2>3. ASSUME NEW p \in expired[e], expired' = [expired EXCEPT ![e] = expired[e] \ {p}], timer' = timer,
               Fails(e, "Serve") \/ sess' = sess,
               ctl' = IF p.kind = "Fetch" THEN Sent(e, Message("FetchCancel", p.id)) ELSE ctl
        PROVE  LifeInv'
    <3>1. expired' \in [Ends -> SUBSET Waiting] /\ p.id \in Nat
      BY <1>2, <2>3 DEF Waiting
    <3>2. \A x \in Ends : TimerInv(x)'
      BY <1>1, <1>3, <2>3, TimerKept
    <3>3. foreign' >= foreign
      BY <1>2, <2>1
    <3>4. ASSUME ctl' \in [Ends -> Seq(Control(setup)')], \A x \in Ends : LinkMove(x),
                 \/ ctl'["client"] = ctl["client"]
                 \/ \E n \in Control(setup) : ctl'["client"] = Append(ctl["client"], n)
          PROVE  LifeInv'
      <4>1. LinkTypes'
        BY <1>0, <1>1, <2>1, <2>3, <3>1, <3>4 DEF LinkTypes
      <4>2. QED
        BY <1>1, <1>3, <2>3, <3>2, <3>3, <3>4, <4>1, TalkKept
    <3>5. CASE p.kind # "Fetch"
      <4>1. ctl' = ctl
        BY <2>3, <3>5
      <4>2. \A x \in Ends : LinkMove(x)
        BY <2>1, <4>1 DEF LinkMove
      <4>3. QED
        BY <1>1, <1>2, <3>4, <4>1, <4>2
    <3>6. CASE p.kind = "Fetch"
      <4>1. "FetchCancel" \in ControlTypes /\ "FetchCancel" \notin RequestKinds \cup Responses \cup ForeignTypes
        BY DEF ControlTypes, RequestKinds, Responses, ForeignTypes
      <4>2. PICK m \in Control(setup) : m = Message("FetchCancel", p.id) /\ m.type = "FetchCancel"
        BY <3>1, <4>1, MessageTyped
      <4>3. PICK y \in Ends : y = Peer(e)
        BY <1>0
      <4>4. ctl' = [ctl EXCEPT ![y] = Append(ctl[y], m)] /\ setup' = setup
        BY <1>1, <2>3, <3>6, <4>2, <4>3 DEF Sent
      <4>5. \A x \in Ends : LinkMove(x)
        <5>1. m.type \notin Responses \cup ForeignTypes /\ m.type \notin RequestKinds
          BY <4>1, <4>2
        <5>2. \A x \in Ends : owed'[x] \subseteq owed[x]
          BY <2>1
        <5>3. QED
          BY <1>0, <4>4, <5>1, <5>2, OneSent
      <4>6. /\ ctl' \in [Ends -> Seq(Control(setup)')]
            /\ ctl'["client"] = ctl["client"] \/ \E n \in Control(setup) : ctl'["client"] = Append(ctl["client"], n)
        BY <1>0, <4>4, MessageSent
      <4>7. QED
        BY <3>4, <4>5, <4>6
    <3>7. QED
      BY <3>5, <3>6
  <2>4. QED
    BY <1>6, <2>2, <2>3 DEF TimerApply
<1>7. QED
  BY <1>4, <1>5, <1>6

\* run_recv.
LEMMA DispatchStep == ASSUME LifecycleAssumption, LifeInv, NEW e \in Ends, Dispatch(e) PROVE LifeInv'
<1>0. /\ LinkTypes /\ SetupInv /\ LinkInv(e) /\ WaitInv(e) /\ Peer(e) \in Ends /\ Peer(e) # e /\ Peer(Peer(e)) = e
  BY TwoEnds DEF LifeInv, LifeTypes
<1>1. /\ UNCHANGED <<setup, permit, timer, expired, live, unread, made, foreign, now>> /\ Control(setup)' = Control(setup)
      /\ IsUp(e) /\ ctl[e] # <<>>
  BY DEF Dispatch, Control, Hello, Welcome
<1>2. /\ ctl \in [Ends -> Seq(Control(setup))] /\ owed \in [Ends -> SUBSET [id : Nat, kind : RequestKinds]] /\ foreign \in Nat
      /\ pending \in [Ends -> SUBSET Waiting] /\ MaxRequests \in Nat
      /\ ends \in [SessionIds -> Seq({"ok", "error", "timeout", "dropped"})]
  BY <1>0 DEF LinkTypes, LifecycleAssumption
<1>3. PICK m : m = Head(ctl[e])
  OBVIOUS
<1>4. m \in OnStream(ctl[e]) /\ m \in Control(setup) /\ Tail(ctl[e]) \in Seq(Control(setup))
      /\ OnStream(Tail(ctl[e])) \subseteq OnStream(ctl[e])
  BY <1>1, <1>2, <1>3, StreamMoves
<1>5. m.type \in ControlTypes => m.id \in Nat
  BY <1>4 DEF Control, Hello, Welcome, ControlTypes, RequestKinds, Responses, ForeignTypes
<1>6. PICK rest : rest = [ctl EXCEPT ![e] = Tail(ctl[e])]
  OBVIOUS
<1>7. rest \in [Ends -> Seq(Control(setup))] /\ rest[e] = Tail(ctl[e]) /\ rest[Peer(e)] = ctl[Peer(e)]
      /\ \A x \in Ends : OnStream(rest[x]) \subseteq OnStream(ctl[x])
  BY <1>0, <1>2, <1>4, <1>6, TwoEnds
<1>8. ASSUME ctl' \in [Ends -> Seq(Control(setup))], \A x \in Ends : LinkMove(x),
             e = "client" \/ ctl'["client"] = ctl["client"] \/ (\E n \in Control(setup) : ctl'["client"] = Append(ctl["client"], n)),
             owed' \in [Ends -> SUBSET [id : Nat, kind : RequestKinds]], pending' \in [Ends -> SUBSET Waiting],
             ends' \in [SessionIds -> Seq({"ok", "error", "timeout", "dropped"})], EndMove,
             \A x \in Ends : pending'[x] \subseteq pending[x],
             sess' = sess \/ Fails(e, "Serve") \/ (Fails(e, "ProtocolViolation") /\ foreign > 0)
      PROVE  LifeInv'
  <2>1. LinkTypes'
    BY <1>0, <1>1, <1>8 DEF LinkTypes
  <2>2. \A x \in Ends : TimerInv(x)'
    BY <1>1, <1>8, TimerKept
  <2>3. foreign' >= foreign /\ (foreign > 0 => foreign' > 0)
    BY <1>1, <1>2
  <2>4. QED
    BY <1>1, <1>8, <2>1, <2>2, <2>3, TalkKept
<1>9. ASSUME ctl' = rest, \A x \in Ends \ {e} : owed'[x] = owed[x],
             \A r \in owed'[e] : r \in owed[e] \/ (m.type \in RequestKinds /\ r.id = m.id /\ r.kind = m.type)
      PROVE  /\ ctl' \in [Ends -> Seq(Control(setup))] /\ \A x \in Ends : LinkMove(x)
             /\ e = "client" \/ ctl'["client"] = ctl["client"]
  <2>1. ctl' \in [Ends -> Seq(Control(setup))] /\ \A x \in Ends : OnStream(ctl'[x]) \subseteq OnStream(ctl[x])
    BY <1>7, <1>9
  <2>2. LinkMove(e)
    BY <1>0, <1>9, <2>1 DEF LinkMove
  <2>3. LinkMove(Peer(e))
    BY <1>0, <1>4, <1>9, <2>1 DEF LinkMove
  <2>4. e = "client" \/ ctl'["client"] = ctl["client"]
    BY <1>7, <1>9, TwoEnds
  <2>5. QED
    BY <2>1, <2>2, <2>3, <2>4, TwoEnds
<1>10. UNCHANGED <<pending, ends>> =>
         /\ EndMove /\ pending' \in [Ends -> SUBSET Waiting] /\ \A x \in Ends : pending'[x] \subseteq pending[x]
         /\ ends' \in [SessionIds -> Seq({"ok", "error", "timeout", "dropped"})]
  BY <1>2 DEF EndMove
<1>11. CASE m.type \in Responses /\ RecvResponse(e, m) /\ ctl' = rest /\ UNCHANGED <<owed, goaway>>
  <2>1. m.id \in Nat /\ \A p \in pending[e] : p.id = m.id => Accepts(p.kind, m.type)
    BY <1>0, <1>4, <1>5, <1>11 DEF LinkInv, ControlTypes
  <2>2. /\ ctl' \in [Ends -> Seq(Control(setup))] /\ \A x \in Ends : LinkMove(x)
        /\ e = "client" \/ ctl'["client"] = ctl["client"]
    BY <1>9, <1>11
  <2>3. CASE UNCHANGED <<sess, pending, ends>>
    BY <1>2, <1>8, <1>10, <1>11, <2>2, <2>3
  <2>4. ASSUME NEW p \in pending[e], p.id = m.id, pending' = [pending EXCEPT ![e] = pending[e] \ {p}],
               NEW w \in {"error", "ok"}, ends' = [ends EXCEPT ![m.id] = Append(ends[m.id], w)],
               Fails(e, "Serve") \/ sess' = sess
        PROVE  LifeInv'
    <3>1. m.id \in SessionIds /\ \A q \in pending[e] : q.id = m.id => q = p
      BY <1>0, <2>4 DEF WaitInv
    <3>2. Append(ends[m.id], w) \in Seq({"ok", "error", "timeout", "dropped"})
      BY <1>2, <3>1
    <3>3. ends' \in [SessionIds -> Seq({"ok", "error", "timeout", "dropped"})] /\ ends'[m.id] = Append(ends[m.id], w)
          /\ \A id \in SessionIds \ {m.id} : ends'[id] = ends[id]
      BY <1>2, <2>4, <3>1, <3>2
    <3>4. pending' \in [Ends -> SUBSET Waiting] /\ pending'[e] = pending[e] \ {p} /\ \A x \in Ends : pending'[x] \subseteq pending[x]
      BY <1>2, <2>4
    <3>5. EndMove
      <4>1. (\E q \in pending[e] : q.id = m.id) /\ \A q \in pending'[e] : q.id # m.id
        BY <2>4, <3>1, <3>4
      <4>2. QED
        BY <3>3, <4>1 DEF EndMove
    <3>6. QED
      BY <1>2, <1>8, <1>11, <2>2, <2>4, <3>3, <3>4, <3>5
  <2>5. CASE {p \in pending[e] : p.id = m.id} = {}
    BY <1>11, <2>3, <2>5 DEF RecvResponse
  <2>6. CASE {p \in pending[e] : p.id = m.id} # {}
    <3>1. PICK p \in {q \in pending[e] : q.id = m.id} :
            IF ~Accepts(p.kind, m.type)
            THEN Fails(e, "ProtocolViolation") /\ UNCHANGED <<pending, ends>>
            ELSE /\ pending' = [pending EXCEPT ![e] = pending[e] \ {p}]
                 /\ ends' = [ends EXCEPT ![m.id] = Append(ends[m.id], IF m.type = "RequestError" THEN "error" ELSE "ok")]
                 /\ IF m.type = "RequestError" /\ p.kind = "Subscribe" /\ m.id \in unread
                    THEN Fails(e, "Serve") ELSE UNCHANGED sess
      BY <1>11, <2>6 DEF RecvResponse
    <3>2. p \in pending[e] /\ p.id = m.id /\ Accepts(p.kind, m.type)
      BY <2>1
    <3>3. PICK w \in {"error", "ok"} : w = IF m.type = "RequestError" THEN "error" ELSE "ok"
      OBVIOUS
    <3>4. QED
      BY <2>4, <3>1, <3>2, <3>3
  <2>7. QED
    BY <2>5, <2>6
<1>12. ASSUME ctl' = rest, UNCHANGED <<pending, ends>>, owed' = owed,
              sess' = sess \/ (Fails(e, "ProtocolViolation") /\ m.type \in ForeignTypes)
       PROVE  LifeInv'
  <2>1. /\ ctl' \in [Ends -> Seq(Control(setup))] /\ \A x \in Ends : LinkMove(x)
        /\ e = "client" \/ ctl'["client"] = ctl["client"]
    BY <1>9, <1>12
  <2>2. m.type \in ForeignTypes => foreign > 0
    BY <1>0, <1>4 DEF LinkInv
  <2>3. QED
    BY <1>2, <1>8, <1>10, <1>12, <2>1, <2>2
<1>13. CASE m.type \in RequestKinds /\ RecvRequest(e, m) /\ ctl' = rest /\ UNCHANGED <<sess, pending, ends, goaway>>
  <2>1. m.id \in Nat
    BY <1>5, <1>13 DEF ControlTypes
  <2>2. PICK r : r = [id |-> m.id, kind |-> m.type]
    OBVIOUS
  <2>3. r \in [id : Nat, kind : RequestKinds] /\ r.id = m.id /\ r.kind = m.type
    BY <1>13, <2>1, <2>2
  <2>4. owed' = [owed EXCEPT ![e] = owed[e] \cup {r}]
    BY <1>13, <2>2 DEF RecvRequest
  <2>5. /\ owed' \in [Ends -> SUBSET [id : Nat, kind : RequestKinds]] /\ owed'[e] = owed[e] \cup {r}
        /\ \A x \in Ends \ {e} : owed'[x] = owed[x]
    BY <1>2, <2>3, <2>4
  <2>6. /\ ctl' \in [Ends -> Seq(Control(setup))] /\ \A x \in Ends : LinkMove(x)
        /\ e = "client" \/ ctl'["client"] = ctl["client"]
    BY <1>9, <1>13, <2>3, <2>5
  <2>7. QED
    BY <1>8, <1>10, <1>13, <2>5, <2>6
<1>14. CASE /\ m.type = "FetchCancel" /\ owed' = [owed EXCEPT ![e] = {r \in owed[e] : r.id # m.id}]
            /\ ctl' = rest /\ UNCHANGED <<sess, pending, ends, goaway>>
  <2>1. /\ owed' \in [Ends -> SUBSET [id : Nat, kind : RequestKinds]] /\ owed'[e] \subseteq owed[e]
        /\ \A x \in Ends \ {e} : owed'[x] = owed[x]
    BY <1>2, <1>14
  <2>2. /\ ctl' \in [Ends -> Seq(Control(setup))] /\ \A x \in Ends : LinkMove(x)
        /\ e = "client" \/ ctl'["client"] = ctl["client"]
    BY <1>9, <1>14, <2>1
  <2>3. QED
    BY <1>8, <1>10, <1>14, <2>1, <2>2
<1>15. CASE /\ m.type \in {"RequestUpdate", "JoiningFetch"}
            /\ ctl' = [rest EXCEPT ![Peer(e)] = Append(rest[Peer(e)], Message("RequestError", m.id))]
            /\ UNCHANGED <<sess, pending, owed, ends, goaway>>
  <2>1. m.type \in ForeignTypes /\ "RequestError" \in ControlTypes /\ "RequestError" \in Responses /\ "RequestError" \notin RequestKinds
    BY <1>15 DEF ForeignTypes, ControlTypes, Responses, RequestKinds
  <2>2. m.id >= 2 * MaxRequests /\ m.id \in Nat
    BY <1>0, <1>4, <1>5, <2>1 DEF LinkInv, ControlTypes
  <2>3. PICK n \in Control(setup) : n = Message("RequestError", m.id) /\ n.type = "RequestError" /\ n.id = m.id
    BY <2>1, <2>2, MessageTyped
  <2>4. PICK y \in Ends : y = Peer(e) /\ y # e /\ Peer(y) = e
    BY <1>0
  <2>5. ctl[y] \in Seq(Control(setup)) /\ rest[y] = ctl[y]
    BY <1>2, <1>7, <2>4
  <2>6. Append(ctl[y], n) \in Seq(Control(setup)) /\ OnStream(Append(ctl[y], n)) = OnStream(ctl[y]) \cup {n}
    BY <2>5, StreamMoves
  <2>7. ctl' = [rest EXCEPT ![y] = Append(ctl[y], n)]
    BY <1>15, <2>3, <2>4, <2>5
  <2>8. ctl' \in [Ends -> Seq(Control(setup))] /\ ctl'[y] = Append(ctl[y], n) /\ ctl'[e] = Tail(ctl[e])
    BY <1>7, <2>4, <2>6, <2>7
  <2>9. OnStream(ctl'[y]) = OnStream(ctl[y]) \cup {n} /\ OnStream(ctl'[e]) \subseteq OnStream(ctl[e])
    BY <1>4, <2>6, <2>8
  <2>10. LinkMove(e)
    BY <1>15, <2>1, <2>3, <2>4, <2>9 DEF LinkMove
  <2>11. LinkMove(y)
    BY <1>15, <2>1, <2>2, <2>3, <2>4, <2>9 DEF LinkMove
  <2>12. \A x \in Ends : LinkMove(x)
    BY <2>4, <2>10, <2>11, TwoEnds
  <2>13. e = "client" \/ \E k \in Control(setup) : ctl'["client"] = Append(ctl["client"], k)
    BY <2>4, <2>8, TwoEnds
  <2>14. QED
    BY <1>2, <1>8, <1>10, <1>15, <2>8, <2>12, <2>13
<1>16. CASE /\ m.type \in {"GoAway", "Unknown", "RequestsBlocked", "SubscribeNamespace"} /\ ctl' = rest
            /\ UNCHANGED <<pending, ends>> /\ owed' = owed /\ (sess' = sess \/ Fails(e, "ProtocolViolation"))
  <2>1. m.type \in ForeignTypes
    BY <1>16 DEF ForeignTypes
  <2>2. QED
    BY <1>12, <1>16, <2>1
<1>17. QED
  <2>1. \/ m.type \in Responses /\ RecvResponse(e, m) /\ ctl' = rest /\ UNCHANGED <<owed, goaway>>
        \/ m.type \in RequestKinds /\ RecvRequest(e, m) /\ ctl' = rest /\ UNCHANGED <<sess, pending, ends, goaway>>
        \/ /\ m.type = "FetchCancel" /\ owed' = [owed EXCEPT ![e] = {r \in owed[e] : r.id # m.id}]
           /\ ctl' = rest /\ UNCHANGED <<sess, pending, ends, goaway>>
        \/ /\ m.type \in {"RequestUpdate", "JoiningFetch"}
           /\ ctl' = [rest EXCEPT ![Peer(e)] = Append(rest[Peer(e)], Message("RequestError", m.id))]
           /\ UNCHANGED <<sess, pending, owed, ends, goaway>>
        \/ /\ m.type \in {"GoAway", "Unknown", "RequestsBlocked", "SubscribeNamespace"} /\ ctl' = rest
           /\ UNCHANGED <<pending, ends>> /\ owed' = owed /\ (sess' = sess \/ Fails(e, "ProtocolViolation"))
    BY <1>3, <1>6 DEF Dispatch
  <2>2. QED
    BY <1>11, <1>13, <1>14, <1>15, <1>16, <2>1

\* Any step of the two ends, or of another part of the session.
LEMMA LifeStep ==
  ASSUME LifecycleAssumption, LifeInv, LifecycleNext \/ UNCHANGED lifeVars PROVE LifeInv'
<1>1. CASE LifecycleNext
  BY <1>1, SetupStep, MakeStep, QuietStep, TimerStep, TalkStep, DispatchStep DEF LifecycleNext
<1>2. CASE UNCHANGED lifeVars
  <2>1. UNCHANGED <<setup, sess, ctl, pending, permit, timer, expired, live, unread, owed, made, foreign, now, ends>>
    BY <1>2 DEF lifeVars
  <2>2. LinkTypes /\ Control(setup)' = Control(setup)
    BY <2>1 DEF LifeInv, LifeTypes, Control, Hello, Welcome
  <2>3. LinkTypes' /\ EndMove
    BY <2>1, <2>2 DEF LinkTypes, EndMove
  <2>4. \A x \in Ends : TimerInv(x)'
    BY <2>1, TimerKept
  <2>5. QED
    BY <2>1, <2>3, <2>4, QuietKept
<1>3. QED
  BY <1>1, <1>2

\* What the invariant says of the session.
LEMMA LifeSound == ASSUME LifecycleAssumption, LifeInv PROVE LifecycleTypeOK /\ SetupAgrees /\ PendingSound
<1>0. LifeTypes /\ EndTypes /\ LinkTypes /\ SetupInv /\ \A e \in Ends : WaitInv(e) /\ TimerInv(e)
  BY DEF LifeInv, LifeTypes
<1>1. LifecycleTypeOK
  <2>1. ASSUME NEW e \in Ends
        PROVE  /\ sess[e].st \in EndStates /\ timer[e].st \in {"look", "changed", "sleep", "apply"}
               /\ \A p \in pending[e] : p.id \in SessionIds /\ p.id % 2 = sess[e].first
    <3>1. sess[e].st \in EndStates /\ timer[e] \in [st : {"look", "changed", "sleep", "apply"}, until : Nat]
      BY <1>0 DEF EndTypes, LinkTypes
    <3>2. \A p \in pending[e] : p.id \in SessionIds /\ p.id % 2 = Parity(e) /\ sess[e].first = Parity(e)
      BY <1>0 DEF WaitInv
    <3>3. QED
      BY <3>1, <3>2
  <2>2. live \subseteq SessionIds /\ unread \subseteq SessionIds
    BY <1>0 DEF LinkTypes
  <2>3. QED
    BY <2>1, <2>2 DEF LifecycleTypeOK, EndStates
<1>2. SetupAgrees
  <2> SUFFICES ASSUME IsUp("client"), IsUp("server")
               PROVE  /\ sess["client"].peer = sess["server"].own /\ sess["server"].peer = sess["client"].own
                      /\ sess["client"].first # sess["server"].first /\ setup.profile # "Draft19"
                      /\ sess["client"].path = sess["server"].path \/ (setup.transport = "RawQuic" /\ setup.url.query)
    BY DEF SetupAgrees
  <2>1. /\ ClientAgrees /\ sess["server"].path = ServerPath(Hello(setup)).v /\ sess["server"].own = setup.max.server
        /\ sess["server"].peer = setup.max.client /\ sess["client"].peer = setup.max.server
        /\ sess["client"].first = 0 /\ sess["server"].first = 1
    BY <1>0 DEF SetupInv, IsUp
  <2>2. NormalizePath(<<>>) = Good(NoPath) /\ Good(NoPath).ok /\ Good(NoPath).v = NoPath
    BY DEF NormalizePath, Good
  <2>3. ~(setup.transport = "RawQuic" /\ setup.url.query) =>
          ServerPath(Hello(setup)).v = NormalizePath(setup.url.segs).v
    <3>1. CASE setup.transport # "RawQuic"
      <4>1. Hello(setup).path = <<>>
        BY <3>1 DEF Hello
      <4>2. NormalizePath(setup.url.segs).ok
        BY <2>1 DEF ClientAgrees
      <4>3. QED
        BY <2>2, <3>1, <4>1, <4>2 DEF ServerPath
    <3>2. CASE setup.transport = "RawQuic" /\ ~setup.url.query
      <4>1. Hello(setup).path = setup.url.segs
        BY <3>2 DEF Hello, WithQuery
      <4>2. QED
        BY <2>2, <3>2, <4>1 DEF ServerPath
    <3>3. QED
      BY <3>1, <3>2
  <2>4. QED
    BY <2>1, <2>3 DEF ClientAgrees
<1>3. PendingSound
  BY <1>0 DEF PendingSound, LifeInv, TimerInv
<1>4. QED
  BY <1>1, <1>2, <1>3

\* The session begins in one of its initial states whichever component runs.
LEMMA LayerLifeStart == ASSUME DataAssumption, DataLayerInit PROVE LifeInv
<1>1. LifecycleAssumption /\ SetupCases # {}
  BY DEF DataAssumption
<1>2. \E c \in SetupCases : LifecycleStart(c)
  BY <1>1 DEF DataLayerInit, LifecycleInit
<1>3. QED
  BY <1>1, <1>2, LifeBegins

(* Both ends keep their types, the setups are sent once and first, every     *)
(* message on a control stream belongs to a request of the end it is about,  *)
(* and the task that times requests out misses none, for any number of       *)
(* requests and any setup (session/mod.rs, session/pending_requests.rs).     *)
THEOREM LifeIsSound == DataSpec => []LifeInv
<1>1. LifecycleAssumption
  BY DataAssumption
<1>2. DataLayerInit => LifeInv
  BY DataAssumption, LayerLifeStart
<1>3. LifeInv /\ [DataLayerNext]_dataVars => LifeInv'
  <2> SUFFICES ASSUME LifeInv, [DataLayerNext]_dataVars PROVE LifeInv'
    OBVIOUS
  <2>1. LifecycleNext \/ UNCHANGED lifeVars
    BY DEF DataLayerNext, DataRuns, dataVars
  <2>2. QED
    BY <1>1, <2>1, LifeStep
<1>4. QED
  BY <1>2, <1>3, PTL DEF DataSpec

(* Two ends that are up agree on MAX_REQUEST_ID, on the parity of their ids, *)
(* on the profile and on the path; no request ends twice, and none is slept  *)
(* past, for every URL, transport, profile and limit (session/mod.rs         *)
(* connect_with_profile, accept_with_profile, run_pending_timeouts).         *)
THEOREM EndsAlwaysAgree == DataSpec => [](SetupAgrees /\ PendingSound)
<1>1. LifeInv => SetupAgrees /\ PendingSound
  BY DataAssumption, LifeSound
<1>2. QED
  BY <1>1, LifeIsSound, PTL

\* What was lost was read, and what was read was written.
LossBound ==
  dropped + skippedTooLarge + (IF loop = "send" THEN 1 ELSE 0) <= epoch /\ Len(log) <= MaxWritten

\* A step loses at most what it reads.
LEMMA LossBoundStep ==
  ASSUME DatagramForwarderAssumption, LossInv, LossBound, LossNext \/ UNCHANGED lossVars PROVE LossBound'
<1> USE DEF LossBound
<1>1. /\ epoch \in Nat /\ dropped \in Nat /\ skippedTooLarge \in Nat /\ Len(log) \in Nat /\ Depth \in Nat /\ Depth > 0
      /\ MaxWritten \in Nat /\ log \in Seq([size : Nat, allowed : BOOLEAN]) /\ epoch <= Len(log)
  BY DEF LossInv, DatagramForwarderAssumption
<1>2. ASSUME NEW size \in Sizes, NEW allowed \in BOOLEAN, WriteLog(size, allowed) PROVE LossBound'
  <2>1. [size |-> size, allowed |-> allowed] \in [size : Nat, allowed : BOOLEAN]
    BY DEF DatagramForwarderAssumption
  <2>2. Len(log') = Len(log) + 1
    BY <1>1, <1>2, <2>1 DEF WriteLog
  <2>3. QED
    BY <1>1, <1>2, <2>2 DEF WriteLog, countVars
<1>3. CASE ReadLog
  BY <1>1, <1>3 DEF ReadLog
<1>4. CASE EndLog \/ EndOfLog \/ LogFailed
  BY <1>1, <1>4 DEF EndLog, EndOfLog, LogFailed, countVars
<1>5. ASSUME NEW limit \in Limits, SendItem(limit) \/ SendToNobody(limit) PROVE LossBound'
  BY <1>1, <1>5 DEF SendItem, SendToNobody, countVars
<1>6. CASE UNCHANGED lossVars
  BY <1>6 DEF lossVars
<1>7. QED
  BY <1>2, <1>3, <1>4, <1>5, <1>6 DEF LossNext

\* The counters of lost datagrams are right whichever component runs.
LEMMA LossHolds == DataSpec => [](LossInv /\ LossBound)
<1>1. DatagramForwarderAssumption
  BY DataAssumption
<1>2. DataLayerInit => LossInv /\ LossBound
  <2>1. DataLayerInit => LossInit
    BY DEF DataLayerInit
  <2>2. LossInit => LossBound
    BY <1>1 DEF LossInit, LossBound, DatagramForwarderAssumption
  <2>3. QED
    BY <2>1, <2>2, LossStart_Inv
<1>3. LossInv /\ LossBound /\ [DataLayerNext]_dataVars => (LossInv /\ LossBound)'
  <2> SUFFICES ASSUME LossInv, LossBound, [DataLayerNext]_dataVars PROVE LossInv' /\ LossBound'
    OBVIOUS
  <2>1. LossNext \/ UNCHANGED lossVars
    BY DEF DataLayerNext, DataRuns, dataVars
  <2>2. QED
    BY <1>1, <2>1, LossStep_Inv, LossBoundStep
<1>4. QED
  BY <1>2, <1>3, PTL DEF DataSpec

\* Each component's invariant holds its types.
LEMMA PlaneTyped == PlaneInv => DataTypeOK
<1> SUFFICES ASSUME ForwarderTypes, IngressTypes PROVE DataTypeOK
  BY DEF PlaneInv
<1>1. asked.filter.type \in FilterTypes
  BY DEF ForwarderTypes, ForwarderCase, SubscriptionFilter
<1>2. \A s \in Streams : rx[s].st \in {"none", "waiting", "reading", "over", "failed"}
  BY DEF IngressTypes, Rx
<1>3. /\ phase \in {"new", "serving", "gone"} /\ done \in {"no", "ok", "err"}
      /\ taken \in 0 .. Cardinality(Streams) /\ largest \in Locations \cup {NoLocation}
  BY DEF ForwarderTypes
<1>4. QED
  BY <1>1, <1>2, <1>3 DEF IngressTypes, DataTypeOK

\* The invariant of the loss holds its types.
LEMMA LossTyped == DatagramForwarderAssumption /\ LossInv /\ LossBound => LossTypeOK
  BY DEF DatagramForwarderAssumption, LossInv, LossBound, LossTypeOK

\* The invariant of the namespaces holds their types.
LEMMA NamespacesTyped == NamespacesInv => NamespacesTypeOK
<1> SUFFICES ASSUME NamespacesInv PROVE NamespacesTypeOK
  OBVIOUS
<1>1. NamespaceTypes
  BY DEF NamespacesInv
<1>2. ASSUME NEW r \in Requests
      PROVE  /\ nsr[r].known \subseteq Suffixes /\ nss[r].names \subseteq Suffixes
             /\ handle[r] \in {"none", "held", "finished", "reset", "dropped"}
             /\ app[r] \in {"none", "queued", "held", "dropped", "refused"}
  BY <1>1 DEF NamespaceTypes, AskState, AnswerState
<1>3. \A r \in Requests : Len(nss[r].queue) <= QueueCapacity
  BY DEF NamespacesInv, RequestInv
<1>4. QED
  BY <1>1, <1>2, <1>3 DEF NamespaceTypes, NamespacesTypeOK

(* Every component of the session's layer keeps its types, and the two ends  *)
(* agree on the session and end every request once, whatever the constants   *)
(* are (session/mod.rs, session/pending_requests.rs).                        *)
THEOREM SessionAlwaysSound == SuffixesFit /\ DataSpec => []SessionSound
<1>1. DataSpec => [](dataPart \in DataParts)
  <2>1. DataLayerInit => dataPart \in DataParts
    BY DEF DataLayerInit
  <2>2. dataPart \in DataParts /\ [DataLayerNext]_dataVars => (dataPart \in DataParts)'
    BY DEF DataLayerNext, DataRuns, dataVars
  <2>3. QED
    BY <2>1, <2>2, PTL DEF DataSpec
<1>2. dataPart \in DataParts /\ PlaneInv /\ LossInv /\ LossBound /\ NamespacesInv /\ LifeInv => SessionSound
  <2> SUFFICES ASSUME dataPart \in DataParts, PlaneInv, LossInv, LossBound, NamespacesInv, LifeInv PROVE SessionSound
    OBVIOUS
  <2>1. DataTypeOK /\ LossTypeOK /\ NamespacesTypeOK
    BY DataAssumption, PlaneTyped, LossTyped, NamespacesTyped
  <2>2. LifecycleTypeOK /\ SetupAgrees /\ PendingSound
    BY DataAssumption, LifeSound
  <2>3. dataPart \in {"plane", "loss", "names", "life"}
    BY DataAssumption
  <2>4. QED
    BY <2>1, <2>2, <2>3 DEF SessionSound, DataLayerTypeOK
<1>3. QED
  BY <1>1, <1>2, PlaneIsSound, LossHolds, NamespacesHold, LifeIsSound, PTL
=============================================================================
