------------------------------- MODULE Fetches -------------------------------
(* One standalone FETCH between two ends of a session: Fetch and FetchRecv   *)
(* (session/fetch.rs) on the side that asks, FetchRequested and its          *)
(* FetchRequestedRecv (session/fetch_requested.rs) on the side that answers, *)
(* with what Subscriber and Publisher do for them (session/subscriber.rs,    *)
(* session/publisher.rs).  FetchCopy models what the response stream         *)
(* carries; here it carries parts.                                           *)
(*                                                                           *)
(* The answer comes from the objects at hand (local parts), from an upstream *)
(* FETCH, or from the objects followed by an upstream FETCH of the rest.     *)
EXTENDS Integers, Sequences

CONSTANTS
  FetchCases    \* what a run begins with: [local, rest, parts, end, answer] where rest is
                \* "complete", "unknown" or "upstream"; of the upstream FETCH, parts, how its
                \* stream ends ("fin", "reset", "silent") and what it is answered ("ok",
                \* "error", "none")

ASSUME FetchAssumption == \A c \in FetchCases : c.local \in Nat /\ c.parts \in Nat

VARIABLES
  fcase,
  fetch,        \* the Fetch handle: "none", "live", "dropping" (in its Drop) or "dropped"
  fetches,      \* Subscriber::fetches has the FetchRecv
  fPending,     \* pending_requests has the request
  fOk, fError,  \* FetchState::ok, request_error
  fClosed,      \* FetchState::closed: "no", "timeout", "error"
  cancelSent,
  reader,       \* the data stream: "none", "arrived" (stream_received), "done", "failed"
  chunks,       \* parts read from it
  asking,       \* messages to the side that answers: FETCH, FETCH_CANCEL
  answers,      \* messages back: FETCH_OK, REQUEST_ERROR
  requested,    \* FetchRequested: "none", "queued", "writing", "failing", "gone"
  active,       \* Publisher::fetches has its FetchRequestedRecv
  rClosed,      \* FetchRequestedState::closed: "no", "Cancel", "Done"
  response      \* its stream: [open, parts, end], end "no", "fin" or "reset"

askVars == <<fetch, fetches, fPending, fOk, fError, fClosed, cancelSent, reader, chunks>>
fetchVars == <<fcase, askVars, asking, answers, requested, active, rClosed, response>>

\* FetchRest: what follows the objects at hand.
FetchRest == {"complete", "upstream", "unknown"}

NoResponse == [open |-> FALSE, parts |-> 0, end |-> "no"]

FetchStart(c) ==
  /\ fcase = c
  /\ fetch = "none" /\ fetches = FALSE /\ fPending = FALSE
  /\ fOk = FALSE /\ fError = FALSE /\ fClosed = "no" /\ cancelSent = FALSE
  /\ reader = "none" /\ chunks = 0
  /\ asking = <<>> /\ answers = <<>>
  /\ requested = "none" /\ active = FALSE /\ rClosed = "no"
  /\ response = NoResponse
FetchInit == \E c \in FetchCases : FetchStart(c)

AllParts == fcase.local + IF fcase.rest = "upstream" THEN fcase.parts ELSE 0

-----------------------------------------------------------------------------
(* The side that asks                                                      *)

\* Subscriber::fetch: an entry in both maps, and FETCH is sent.
SendFetch ==
  /\ fetch = "none" /\ fetch' = "live"
  /\ fetches' = TRUE /\ fPending' = TRUE
  /\ asking' = <<"Fetch">>
  /\ UNCHANGED <<fcase, fOk, fError, fClosed, cancelSent, reader, chunks, answers, requested, active,
                 rClosed, response>>

\* Both halves of the FetchState are alive.
FetchStateHeld == fetch # "dropped" /\ fetches

\* recv_fetch_ok: pending_requests, then FetchRecv::recv_ok.
RecvFetchOk ==
  /\ answers # <<>> /\ Head(answers) = "FetchOk"
  /\ answers' = Tail(answers)
  /\ fPending' = FALSE
  /\ fOk' = (fOk \/ (fPending /\ FetchStateHeld))
  /\ UNCHANGED <<fcase, fetch, fetches, fError, fClosed, cancelSent, reader, chunks, asking,
                 requested, active, rClosed, response>>

\* recv_request_error: the entry goes, the handle learns the code.
RecvFetchError ==
  /\ answers # <<>> /\ Head(answers) = "RequestError"
  /\ answers' = Tail(answers)
  /\ fPending' = FALSE /\ fetches' = FALSE
  /\ IF FetchStateHeld THEN fError' = TRUE /\ fClosed' = "error" ELSE UNCHANGED <<fError, fClosed>>
  /\ UNCHANGED <<fcase, fetch, fOk, cancelSent, reader, chunks, asking, requested, active, rClosed,
                 response>>

\* run_pending_timeouts: RESPONSE_TIMEOUT passed without FETCH_OK, which the
\* other side sends only after the last part.
FetchTimeout ==
  /\ fPending
  /\ fPending' = FALSE /\ fetches' = FALSE
  /\ IF FetchStateHeld
     THEN /\ fClosed' = "timeout" /\ cancelSent' = TRUE
          /\ asking' = IF cancelSent THEN asking ELSE Append(asking, "FetchCancel")
     ELSE UNCHANGED <<fClosed, cancelSent, asking>>
  /\ UNCHANGED <<fcase, fetch, fOk, fError, reader, chunks, answers, requested, active, rClosed,
                 response>>

\* Dropping the handle cancels unless the response was read to its end and is
\* acknowledged; the state may already be closed.  The entries go afterwards,
\* so that a timeout on another thread can come in between.
DropFetch ==
  /\ fetch = "live"
  /\ fetch' = "dropping"
  /\ LET cancel == FetchStateHeld /\ ~(reader = "done" /\ fOk) /\ fClosed = "no" /\ ~cancelSent
     IN /\ cancelSent' = (cancelSent \/ cancel)
        /\ asking' = IF cancel THEN Append(asking, "FetchCancel") ELSE asking
  /\ UNCHANGED <<fcase, fetches, fPending, fOk, fError, fClosed, reader, chunks, answers, requested,
                 active, rClosed, response>>

RemoveFetch ==
  /\ fetch = "dropping"
  /\ fetch' = "dropped" /\ fetches' = FALSE /\ fPending' = FALSE
  /\ UNCHANGED <<fcase, fOk, fError, fClosed, cancelSent, reader, chunks, asking, answers,
                 requested, active, rClosed, response>>

\* Ingress hands the stream to FetchRecv::recv_stream by the id in its header.
RecvFetchStream ==
  /\ response.open /\ FetchStateHeld /\ reader = "none"
  /\ reader' = "arrived"
  /\ UNCHANGED <<fcase, fetch, fetches, fPending, fOk, fError, fClosed, cancelSent, chunks, asking,
                 answers, requested, active, rClosed, response>>

\* read_stream_chunk: a part, the end, a reset, or the error the state has.
ReadFetchChunk ==
  /\ fetch = "live" /\ reader = "arrived"
  /\ \/ /\ fClosed = "no" /\ chunks < response.parts
        /\ chunks' = chunks + 1 /\ UNCHANGED reader
     \/ /\ response.end = "fin" /\ chunks = response.parts
        /\ reader' = "done" /\ UNCHANGED chunks
     \/ /\ response.end = "reset" \/ fClosed # "no"
        /\ reader' = "failed" /\ UNCHANGED chunks
  /\ UNCHANGED <<fcase, fetch, fetches, fPending, fOk, fError, fClosed, cancelSent, asking, answers,
                 requested, active, rClosed, response>>

-----------------------------------------------------------------------------
(* The side that answers                                                   *)

respVars == <<requested, active, rClosed, response>>

\* recv_fetch: a FetchRequested for the application, its other half in the map.
RecvFetch ==
  /\ asking # <<>> /\ Head(asking) = "Fetch"
  /\ asking' = Tail(asking)
  /\ requested' = "queued" /\ active' = TRUE
  /\ UNCHANGED <<fcase, askVars, answers, rClosed, response>>

\* recv_fetch_cancel takes the entry out and cancels what is not answered.
RecvFetchCancel ==
  /\ asking # <<>> /\ Head(asking) = "FetchCancel"
  /\ asking' = Tail(asking)
  /\ active' = FALSE
  /\ rClosed' = IF active /\ requested # "gone" /\ rClosed = "no" THEN "Cancel" ELSE rClosed
  /\ UNCHANGED <<fcase, askVars, answers, requested, response>>

\* claim_response, and Drop removes the entry: one answer, or none once cancelled.
Answer(type) ==
  /\ requested' = "gone" /\ active' = FALSE
  /\ IF rClosed = "no" /\ active
     THEN rClosed' = "Done" /\ answers' = Append(answers, type)
     ELSE UNCHANGED <<rClosed, answers>>

\* reject, or the handle is dropped unserved.
RejectFetch ==
  /\ requested = "queued"
  /\ Answer("RequestError")
  /\ UNCHANGED <<fcase, askVars, asking, response>>

\* serve: open_stream.
ServeFetch ==
  /\ requested = "queued"
  /\ requested' = "writing" /\ response' = [response EXCEPT !.open = TRUE]
  /\ UNCHANGED <<fcase, askVars, asking, answers, active, rClosed>>

\* Objects at hand, then what the upstream FETCH delivers.
WritePart ==
  /\ requested = "writing" /\ rClosed = "no" /\ response.parts < AllParts
  /\ response' = [response EXCEPT !.parts = @ + 1]
  /\ UNCHANGED <<fcase, askVars, asking, answers, requested, active, rClosed>>

\* Mutant: the stream is finished before upstream has answered.
UpstreamDone_NotAwaited == fcase.rest = "upstream" => fcase.end = "fin"

\* copy_from saw the end of the upstream stream, and upstream.ok() its FETCH_OK.
UpstreamDone == fcase.rest = "upstream" => fcase.end = "fin" /\ fcase.answer = "ok"

\* finish, then FETCH_OK.
FinishFetch ==
  /\ requested = "writing" /\ rClosed = "no" /\ response.parts = AllParts /\ UpstreamDone
  /\ response' = [response EXCEPT !.end = "fin"]
  /\ Answer("FetchOk")
  /\ UNCHANGED <<fcase, askVars, asking>>

\* biased select: a FETCH_CANCEL resets the stream, and nothing is answered.
FetchCancelled ==
  /\ requested = "writing" /\ rClosed = "Cancel"
  /\ response' = [response EXCEPT !.end = "reset"]
  /\ Answer("RequestError")
  /\ UNCHANGED <<fcase, askVars, asking>>

\* The upstream stream was reset or upstream answered with an error: the copy
\* fails, and the request waits for the REQUEST_ERROR that explains it.
UpstreamFails ==
  /\ requested = "writing" /\ rClosed = "no" /\ fcase.rest = "upstream"
  /\ response.parts = AllParts
  /\ fcase.end = "reset" \/ (fcase.end = "fin" /\ fcase.answer = "error")
  /\ response' = [response EXCEPT !.end = "reset"]
  /\ requested' = "failing"
  /\ UNCHANGED <<fcase, askVars, asking, answers, active, rClosed>>

\* wait_for_request_error: the error is forwarded, or a generic one stands for
\* it at the deadline or after an OK.
AnswerFailure ==
  /\ requested = "failing"
  /\ Answer("RequestError")
  /\ UNCHANGED <<fcase, askVars, asking, response>>

\* The deadline of the upstream FETCH.
ProxyTimeout ==
  /\ requested = "writing" /\ rClosed = "no" /\ fcase.rest = "upstream"
  /\ response' = [response EXCEPT !.end = "reset"]
  /\ Answer("RequestError")
  /\ UNCHANGED <<fcase, askVars, asking>>

\* write_local fails with the connection's error.
WriteFails ==
  /\ requested = "writing" /\ rClosed = "no" /\ fcase.rest # "upstream"
  /\ response' = [response EXCEPT !.end = "reset"]
  /\ Answer("RequestError")
  /\ UNCHANGED <<fcase, askVars, asking>>

FetchNext ==
  \/ SendFetch \/ RecvFetchOk \/ RecvFetchError \/ FetchTimeout \/ DropFetch \/ RemoveFetch
  \/ RecvFetchStream \/ ReadFetchChunk
  \/ RecvFetch \/ RecvFetchCancel \/ RejectFetch \/ ServeFetch \/ WritePart \/ FinishFetch
  \/ FetchCancelled \/ UpstreamFails \/ AnswerFailure \/ ProxyTimeout \/ WriteFails

FetchSpec == FetchInit /\ [][FetchNext]_fetchVars

\* The two ends go on with what they have begun.
FetchFairness ==
  WF_fetchVars(\/ RecvFetchOk \/ RecvFetchError \/ RecvFetch \/ RecvFetchCancel \/ RejectFetch
               \/ ServeFetch \/ WritePart \/ FinishFetch \/ FetchCancelled \/ UpstreamFails
               \/ AnswerFailure \/ ProxyTimeout \/ RemoveFetch)

FetchTypeOK ==
  /\ fcase.rest \in FetchRest
  /\ fetch \in {"none", "live", "dropping", "dropped"} /\ fClosed \in {"no", "timeout", "error"}
  /\ reader \in {"none", "arrived", "done", "failed"}
  /\ requested \in {"none", "queued", "writing", "failing", "gone"}
  /\ rClosed \in {"no", "Cancel", "Done"}
  /\ response.parts \in 0 .. AllParts

(* A response that was abandoned is never taken for a complete one: what is  *)
(* read to its end has every part, and every upstream part only if upstream  *)
(* said so; one request has one answer and at most one FETCH_CANCEL, and an  *)
(* answer leaves no entry behind (session/fetch.rs, session/fetch_requested  *)
(* .rs).                                                                     *)
FetchSound ==
  /\ reader = "done" => /\ chunks = AllParts
                        /\ fcase.rest = "upstream" => fcase.answer = "ok"
  /\ fOk => response.end = "fin"
  /\ Len(answers) <= 1
  /\ \A i, j \in 1 .. Len(asking) :
       asking[i] = "FetchCancel" /\ asking[j] = "FetchCancel" => i = j /\ cancelSent
  /\ fOk => ~fPending
  /\ requested = "gone" => ~active
  /\ fClosed # "no" => ~fetches

\* The FETCH was answered or given up, and what was dropped left nothing behind.
FetchSettled ==
  fetch # "none" => requested = "gone" /\ ~active /\ (fetch = "dropped" => ~fetches /\ ~fPending)
=============================================================================
