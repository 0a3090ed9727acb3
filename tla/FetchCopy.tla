------------------------------ MODULE FetchCopy ------------------------------
(* A relay passes an upstream FETCH response on (session/fetch_requested.rs,  *)
(* FetchStreamWriter): the octets go out unchanged, and the entries are       *)
(* parsed along the way to know where one ends.  The upstream stream holds    *)
(* entries, is cut into chunks anywhere, and may end early or be reset.       *)
EXTENDS Messages

CONSTANTS
  Responses,          \* upstream responses: sequences of [entry, payload]
  COPY_CHUNK_SIZE     \* the most octets read at once

ASSUME FetchCopyAssumption == COPY_CHUNK_SIZE \in Nat \ {0}

VARIABLES
  response,          \* what upstream was to send
  upstream,          \* octets of it not yet read
  upstreamEnd,       \* how they end: "fin", "reset" or, when cut off, "cut"
  chunk, partial, payload_remaining, prior,    \* copy_from, and its decoder
  sink,              \* octets written after the FETCH_HEADER
  header_written,
  send_order,        \* the order last given to the stream, or NoOrder
  reset,             \* FetchReset
  outcome            \* "copying", "finished" or "reset"

NoOrder == 0

copyVars == <<response, upstream, upstreamEnd, chunk, partial, payload_remaining, prior, sink,
              header_written, send_order, reset, outcome>>

\* An entry and its payload, behind the entries before it: what the upstream
\* encoder writes (FetchObjectEncoder).
IsRange(e) == "kind" \in DOMAIN e
\* Octets of an upstream that does not follow the code.
IsRaw(e) == "raw" \in DOMAIN e
EncodedResponse(es) ==
  LET PriorAt(i) == IF i = 1 \/ IsRange(es[i - 1].entry) \/ IsRaw(es[i - 1].entry) THEN NoPrior
                    ELSE PriorOf(es[i - 1].entry)
  IN  FlattenSeq([i \in DOMAIN es |->
        IF IsRaw(es[i].entry) THEN es[i].entry.raw
        ELSE IF IsRange(es[i].entry) THEN EncodeEndOfRange(es[i].entry.kind, es[i].entry.location).out
        ELSE EncodeFetchObject(PriorAt(i), es[i].entry).out \o es[i].payload])

CopyTypeOK ==
  /\ upstream \in Seq(Octet) /\ chunk \in Seq(Octet) /\ partial \in Seq(Octet)
  /\ sink \in Seq(Octet)
  /\ upstreamEnd \in {"fin", "reset", "cut"} /\ payload_remaining \in Nat
  /\ header_written \in BOOLEAN /\ send_order \in Int
  /\ reset \in {"InternalError", "MalformedTrack", "Upstream"}
  /\ outcome \in {"copying", "finished", "reset"}

\* Upstream ends after n octets of the response r.
CopyStart(r, n, end) ==
  /\ response = r /\ upstream = SubSeq(EncodedResponse(r), 1, n) /\ upstreamEnd = end
  /\ chunk = <<>> /\ partial = <<>> /\ payload_remaining = 0 /\ prior = NoPrior
  /\ sink = <<>> /\ header_written = FALSE /\ send_order = NoOrder
  /\ reset = "InternalError" /\ outcome = "copying"
CopyInit ==
  \E r \in Responses :
    \/ CopyStart(r, Len(EncodedResponse(r)), "fin")
    \/ \E n \in 0..Len(EncodedResponse(r)) : CopyStart(r, n, "reset")
    \/ \E n \in 0..(Len(EncodedResponse(r)) - 1) : CopyStart(r, n, "cut")

upstreamVars == <<response, upstream, upstreamEnd>>

\* read_stream_chunk
ReadChunkOf(k) ==
  /\ outcome = "copying" /\ chunk = <<>> /\ k <= COPY_CHUNK_SIZE
  /\ chunk' = SubSeq(upstream, 1, k) /\ upstream' = DropN(upstream, k)
  /\ UNCHANGED <<response, upstreamEnd, partial, payload_remaining, prior, sink, header_written,
                 send_order, reset, outcome>>

\* Payload is passed on as it comes.
PartLen == IF payload_remaining < Len(chunk) THEN payload_remaining ELSE Len(chunk)
CopyPayload ==
  /\ outcome = "copying" /\ chunk # <<>> /\ payload_remaining > 0
  /\ sink' = sink \o SubSeq(chunk, 1, PartLen) /\ chunk' = DropN(chunk, PartLen)
  /\ payload_remaining' = payload_remaining - PartLen
  /\ UNCHANGED <<upstreamVars, partial, prior, header_written, send_order, reset, outcome>>

\* An entry whole in `partial` when it was begun there, else in the chunk.
Entry == DecodeFetchEntry(prior, IF partial = <<>> THEN chunk ELSE partial)
Parsing == outcome = "copying" /\ chunk # <<>> /\ payload_remaining = 0

\* send_order: the subscriber's priority in the high byte, the publisher's in
\* the low one, negated because quinn sends the larger value first.
DEFAULT_SUBSCRIBER_PRIORITY == 128
SendOrder(subscriber_priority, publisher_priority) ==
  -(256 * subscriber_priority + publisher_priority)

\* prioritize: an object sets the order of what follows; write_header: once.
Prioritize(e) ==
  send_order' = IF IsRange(e) THEN send_order ELSE SendOrder(DEFAULT_SUBSCRIBER_PRIORITY, e.priority)
WriteHeader == header_written' = TRUE

\* What `partial` has beyond the entry is payload; more than its payload is an error.
CopyEntry ==
  LET length == IF IsRange(Entry.v.entry) THEN 0 ELSE Entry.v.entry.len
      leftover == IF partial = <<>> THEN 0 ELSE Len(Entry.rest)
      fits == leftover <= length
  IN /\ Parsing /\ Entry.ok
     /\ prior' = Entry.v.prior
     /\ payload_remaining' = IF fits THEN length - leftover ELSE length
     /\ Prioritize(Entry.v.entry) /\ WriteHeader
     /\ IF partial = <<>>
        THEN /\ sink' = sink \o SubSeq(chunk, 1, Len(chunk) - Len(Entry.rest))
             /\ chunk' = Entry.rest /\ UNCHANGED partial
        ELSE /\ sink' = sink \o SubSeq(partial, 1, Len(partial) - (IF fits THEN 0 ELSE leftover))
             /\ partial' = <<>> /\ UNCHANGED chunk
     /\ outcome' = IF fits THEN outcome ELSE "reset"
     /\ UNCHANGED <<upstreamVars, reset>>

\* The first octets of an entry are set aside, the next ones as it asks for them.
\* Mutant: all of every chunk.
Asked_All == Len(chunk)
Asked == IF partial = <<>> \/ Entry.need > Len(chunk) THEN Len(chunk) ELSE Entry.need
CopyPartial ==
  /\ Parsing /\ ~Entry.ok /\ Entry.err = "More"
  /\ partial' = partial \o SubSeq(chunk, 1, Asked) /\ chunk' = DropN(chunk, Asked)
  /\ UNCHANGED <<upstreamVars, payload_remaining, prior, sink, header_written, send_order, reset,
                 outcome>>

\* What is left of the writer is dropped, and with it the stream is reset.
Fails(code) ==
  /\ reset' = code /\ outcome' = "reset"
  /\ UNCHANGED <<upstreamVars, chunk, partial, payload_remaining, prior, sink, header_written,
                 send_order>>

CopyMalformed == Parsing /\ ~Entry.ok /\ Entry.err # "More" /\ Fails("MalformedTrack")

\* The upstream stream is over: reset, ended within an entry, or complete.
AtEnd == outcome = "copying" /\ chunk = <<>> /\ upstream = <<>>
CopyReset == AtEnd /\ upstreamEnd = "reset" /\ Fails("Upstream")
CopyTruncated ==
  /\ AtEnd /\ upstreamEnd # "reset" /\ (payload_remaining > 0 \/ partial # <<>>)
  /\ Fails("MalformedTrack")
\* copy_from returns and finish() is called.
CopyFinish ==
  /\ AtEnd /\ upstreamEnd # "reset" /\ payload_remaining = 0 /\ partial = <<>>
  /\ WriteHeader /\ outcome' = "finished"
  /\ UNCHANGED <<upstreamVars, chunk, partial, payload_remaining, prior, sink, send_order, reset>>

CopyNext ==
  \/ \E k \in DOMAIN upstream : ReadChunkOf(k)
  \/ CopyPayload \/ CopyEntry \/ CopyPartial \/ CopyMalformed
  \/ CopyReset \/ CopyTruncated \/ CopyFinish

-----------------------------------------------------------------------------
(* The fetcher gets the octets upstream sent, in order, and a stream that     *)
(* ends well only where an entry ends: a response cut short within an entry   *)
(* is never finished, upstream's own reset is passed on as such, and no other *)
(* is the relay's own fault, for what is set aside is the entry and no more;  *)
(* payload goes out under the priority of its own object                      *)
(* (session/fetch_requested.rs:570-709).                                      *)
CopiedFaithfully ==
  LET all == EncodedResponse(response)
      Boundaries == {Len(EncodedResponse(SubSeq(response, 1, i))) : i \in 0..Len(response)}
  IN  /\ IsPrefix(sink, all)
      /\ outcome = "finished" => Len(sink) \in Boundaries /\ upstreamEnd # "reset"
      /\ outcome = "reset" => reset # "InternalError" /\ (reset = "MalformedTrack" => upstreamEnd # "reset")
      /\ upstreamEnd = "fin" /\ outcome = "finished" => sink = all
      /\ payload_remaining > 0 =>
           header_written /\ send_order = SendOrder(DEFAULT_SUBSCRIBER_PRIORITY, prior.priority)

(* A complete and well-formed upstream response is finished, not reset: "a    *)
(* truncated or malformed upstream stream resets this one with                *)
(* MALFORMED_TRACK" (session/fetch_requested.rs:628-632), no other does.      *)
WellFormedIsFinished == upstreamEnd = "fin" => outcome # "reset"
=============================================================================
