-------------------------- MODULE DatagramForwarder --------------------------
(* ObjectForwarder::serve_datagrams (session/subscribed.rs): datagrams of a  *)
(* track are read from its ring, filtered, and sent unless they exceed what  *)
(* QUIC lets through.  What is lost on the way, because the ring moved on or *)
(* because a datagram is too large, is counted, and the counts are reported  *)
(* to a metric that must not miss a loss.                                    *)
EXTENDS Integers, Sequences

CONSTANTS
  Depth,        \* capacity of the ring (Datagrams models it in full)
  Sizes,        \* sizes of encoded datagrams
  Limits,       \* values max_datagram_size() may have, as path MTU discovery moves it
  MaxWritten    \* bound: datagrams written

DatagramForwarderAssumption ==
  /\ Depth \in Nat \ {0} /\ Sizes \subseteq Nat /\ Limits \subseteq Nat /\ MaxWritten \in Nat

VARIABLES
  log,          \* datagrams written to the track: [size, allowed]
  ended,        \* how the track ended: "no", "ok" (the writer is gone), "err"
  epoch,        \* the reader's position in log
  dropped,      \* DatagramsReader::dropped: overwritten before they were read
  loop,         \* "read", "send" or "end" of the while loop, "failed" by an error
  item,         \* the datagram in hand
  skippedTooLarge, reportedDropped, reportedTooLarge,   \* locals of serve_datagrams
  metric,       \* DROPPED_DATAGRAMS_METRIC by reason: [ring, mtu]
  sentCount,    \* SENT_DATAGRAMS_METRIC
  filtered      \* history: datagrams the filter kept back

lossVars == <<log, ended, epoch, dropped, loop, item, skippedTooLarge, reportedDropped,
              reportedTooLarge, metric, sentCount, filtered>>
countVars == <<skippedTooLarge, reportedDropped, reportedTooLarge, metric>>

NoItem == [size |-> 0, allowed |-> FALSE]

LossInit ==
  /\ log = <<>> /\ ended = "no" /\ epoch = 0 /\ dropped = 0
  /\ loop = "read" /\ item = NoItem
  /\ skippedTooLarge = 0 /\ reportedDropped = 0 /\ reportedTooLarge = 0
  /\ metric = [ring |-> 0, mtu |-> 0] /\ sentCount = 0 /\ filtered = 0

\* The track's writer, and its end.
WriteLog(size, allowed) ==
  /\ ended = "no" /\ Len(log) < MaxWritten
  /\ log' = Append(log, [size |-> size, allowed |-> allowed])
  /\ UNCHANGED <<ended, epoch, dropped, loop, item, countVars, sentCount, filtered>>

EndLog ==
  /\ ended = "no" /\ ended' \in {"ok", "err"}
  /\ UNCHANGED <<log, epoch, dropped, loop, item, countVars, sentCount, filtered>>

\* record_datagram_loss_metric: what was lost since the last report.
Recorded(d, large) ==
  [ring |-> metric.ring + (d - reportedDropped), mtu |-> metric.mtu + (large - reportedTooLarge)]

\* datagrams.read() past what the ring has lost, and the report of the losses.
ReadLog ==
  /\ loop = "read" /\ epoch < Len(log)
  /\ LET oldest == IF Len(log) > Depth THEN Len(log) - Depth ELSE 0
         from == IF epoch < oldest THEN oldest ELSE epoch
         total == dropped + (from - epoch)
     IN /\ dropped' = total /\ epoch' = from + 1
        /\ item' = log[from + 1]
        /\ metric' = Recorded(total, skippedTooLarge)
        /\ reportedDropped' = total /\ reportedTooLarge' = skippedTooLarge
  /\ loop' = "send"
  /\ UNCHANGED <<log, ended, skippedTooLarge, sentCount, filtered>>

\* The rest of the iteration: filtered, too large for the path, or sent.
SendItem(limit) ==
  /\ loop = "send" /\ loop' = "read" /\ item' = NoItem
  /\ filtered' = IF item.allowed THEN filtered ELSE filtered + 1
  /\ skippedTooLarge' = IF item.allowed /\ item.size > limit THEN skippedTooLarge + 1
                        ELSE skippedTooLarge
  /\ sentCount' = IF item.allowed /\ item.size <= limit THEN sentCount + 1 ELSE sentCount
  /\ UNCHANGED <<log, ended, epoch, dropped, reportedDropped, reportedTooLarge, metric>>

\* Mutant: nothing is reported once the track has ended.
EndOfLog_NoFlush ==
  /\ loop = "read" /\ ended = "ok" /\ epoch = Len(log)
  /\ loop' = "end"
  /\ UNCHANGED <<log, ended, epoch, dropped, item, countVars, sentCount, filtered>>

\* The end of the track flushes what the next iteration would have reported.
EndOfLog ==
  /\ loop = "read" /\ ended = "ok" /\ epoch = Len(log)
  /\ loop' = "end"
  /\ metric' = Recorded(dropped, skippedTooLarge)
  /\ UNCHANGED <<log, ended, epoch, dropped, item, skippedTooLarge, reportedDropped,
                 reportedTooLarge, sentCount, filtered>>

\* A track that was closed with an error returns it at once.
LogFailed ==
  /\ loop = "read" /\ ended = "err" /\ epoch = Len(log)
  /\ loop' = "failed"
  /\ UNCHANGED <<log, ended, epoch, dropped, item, countVars, sentCount, filtered>>

\* The subscriber has left: the loop finds out after one more datagram is sent.
SendToNobody(limit) ==
  /\ loop = "send" /\ item.allowed /\ item.size <= limit
  /\ loop' = "failed" /\ item' = NoItem
  /\ UNCHANGED <<log, ended, epoch, dropped, countVars, sentCount, filtered>>

LossNext ==
  \/ \E size \in Sizes, allowed \in BOOLEAN : WriteLog(size, allowed)
  \/ EndLog \/ ReadLog \/ EndOfLog \/ LogFailed
  \/ \E limit \in Limits : SendItem(limit) \/ SendToNobody(limit)

LossSpec == LossInit /\ [][LossNext]_lossVars

LossTypeOK ==
  /\ loop \in {"read", "send", "end", "failed"} /\ epoch \in 0 .. Len(log)
  /\ metric \in [ring : 0 .. MaxWritten, mtu : 0 .. MaxWritten]

(* Every datagram of the track is accounted for: sent, kept back by the      *)
(* filter, overwritten or too large; the metric never runs ahead of the loss,*)
(* and has all of it when the track has ended, also when the last datagram   *)
(* was the one that was lost (session/subscribed.rs serve_datagrams).        *)
LossReported ==
  /\ loop # "failed" =>
       epoch = sentCount + filtered + dropped + skippedTooLarge + (IF loop = "send" THEN 1 ELSE 0)
  /\ metric.ring <= dropped /\ metric.mtu <= skippedTooLarge
  /\ loop = "end" => metric = [ring |-> dropped, mtu |-> skippedTooLarge] /\ epoch = Len(log)
=============================================================================
