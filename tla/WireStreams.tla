----------------------------- MODULE WireStreams -----------------------------
(* One QUIC stream between a Writer (session/writer.rs) and a Reader          *)
(* (session/reader.rs).  The transport keeps the order of the octets and      *)
(* cuts them where it likes, on either side.  A control stream carries        *)
(* messages, a subgroup stream its header and then objects with their         *)
(* payload (subscribed.rs writes it, subscriber/ingress.rs reads it).         *)
EXTENDS Messages

CONSTANT Scripts      \* what may be written: [stream, items]

VARIABLES
  stream,     \* "control" or "subgroup"
  todo,       \* items not yet encoded
  sent,       \* items encoded, the one in `out` included
  out,        \* Writer::buffer
  wire,       \* octets on their way
  ended,      \* the writer's end: "open", "fin" or "reset"
  buffer,     \* Reader::buffer
  need,       \* octets that decode() reads up to; 0 when it is not reading
  phase,      \* what the reader is after: "message", "header", "done", "object", "payload", "end"
  left,       \* octets of the payload to come
  got,        \* items read
  fault       \* the error that ended the reader

wireVars == <<stream, todo, sent, out, wire, ended, buffer, need, phase, left, got, fault>>

\* Items are [kind, v]: a message, a header, an object with the type of its
\* stream, a piece of payload, or octets of a peer that does not follow the code.
EncodeItem(i) ==
  CASE i.kind = "message" -> EncodeMessage(i.v)
    [] i.kind = "header"  -> EncodeStreamHeader(i.v)
    [] i.kind = "object"  -> EncodeObject(i.type, i.v)
    [] i.kind \in {"payload", "raw"} -> Enc(i.v)

\* What the reader gets for an item: the parameters come back in their order.
Received(i) ==
  IF i.kind # "message" \/ i.v.name = "Unknown" THEN i
  ELSE [i EXCEPT !.v.fields = [f \in DOMAIN @ |->
          IF i.v.name # "Fetch" /\ FieldsOf[i.v.name][f] \in {"params", "exts"}
          THEN SortPairs(@[f]) ELSE @[f]]]

WireTypeOK ==
  /\ stream \in {"control", "subgroup"} /\ ended \in {"open", "fin", "reset"}
  /\ out \in Seq(Octet) /\ wire \in Seq(Octet) /\ buffer \in Seq(Octet)
  /\ need \in Nat /\ left \in Nat
  /\ phase \in {"message", "header", "done", "object", "payload", "end"}

WireStart(s) ==
  /\ stream = s.stream /\ todo = s.items
  /\ sent = <<>> /\ out = <<>> /\ wire = <<>> /\ ended = "open"
  /\ buffer = <<>> /\ need = 0 /\ left = 0 /\ got = <<>> /\ fault = "none"
  /\ phase = IF s.stream = "control" THEN "message" ELSE "header"
WireInit == \E s \in Scripts : WireStart(s)

readerVars == <<buffer, need, phase, left, got, fault>>
writerVars == <<todo, sent, out, ended>>

-----------------------------------------------------------------------------
(* Writer.                                                                    *)

\* encode: what cannot be encoded leaves nothing behind, and its error ends the
\* task that writes.
WriterEncode ==
  /\ ended = "open" /\ out = <<>> /\ todo # <<>>
  /\ LET r == EncodeItem(Head(todo))
     IN  IF r.ok
         THEN /\ out' = r.out /\ sent' = Append(sent, Received(Head(todo)))
              /\ UNCHANGED ended
         ELSE ended' = "reset" /\ UNCHANGED <<out, sent>>
  /\ todo' = Tail(todo)
  /\ UNCHANGED <<stream, wire, readerVars>>

\* write_buf takes what the flow control lets through.
WriterWrite(k) ==
  /\ ended = "open" /\ out # <<>>
  /\ wire' = wire \o SubSeq(out, 1, k)
  /\ out' = DropN(out, k)
  /\ UNCHANGED <<stream, todo, sent, ended, readerVars>>

WriterFinish ==
  /\ ended = "open" /\ out = <<>> /\ todo = <<>> /\ stream = "subgroup"
  /\ ended' = "fin"
  /\ UNCHANGED <<stream, todo, sent, out, wire, readerVars>>

-----------------------------------------------------------------------------
(* Reader.                                                                    *)
DecodeNext ==
  CASE phase = "message" -> DecodeMessage(buffer)
    [] phase = "header"  -> DecodeStreamHeader(buffer)
    [] phase = "object"  -> DecodeObject(got[1].v.type, buffer)

ItemOf(v) ==
  CASE phase = "message" -> [kind |-> "message", v |-> v]
    [] phase = "header"  -> [kind |-> "header", v |-> v]
    [] phase = "object"  -> [kind |-> "object", type |-> got[1].v.type, v |-> v]

\* decode() with what is buffered: an item, the wish for more, or an error.
\* Mutant: one octet too many is awaited.
Wanted_OneMore(d) == Len(buffer) + d.need + 1
Wanted(d) == Len(buffer) + d.need
ReaderDecode ==
  /\ fault = "none" /\ phase \in {"message", "header", "object"}
  /\ need = 0 \/ Len(buffer) >= need
  /\ LET d == DecodeNext
     IN  \/ /\ d.ok
            /\ buffer' = d.rest /\ need' = 0 /\ got' = Append(got, ItemOf(d.v))
            /\ left' = IF phase = "object" THEN d.v.len ELSE 0
            /\ phase' = CASE phase = "message" -> "message"
                          [] phase = "object" /\ d.v.len > 0 -> "payload"
                          [] OTHER -> "done"
            /\ UNCHANGED fault
         \/ /\ ~d.ok /\ d.err = "More"
            /\ need' = Wanted(d)
            /\ UNCHANGED <<buffer, got, left, phase, fault>>
         \/ /\ ~d.ok /\ d.err # "More"
            /\ fault' = d.err /\ UNCHANGED <<buffer, need, got, left, phase>>
  /\ UNCHANGED <<stream, wire, writerVars>>

\* read_buf: decode() reads once at least, and until it has what it asked for.
Reading == fault = "none" /\ (need > Len(buffer) \/ (phase = "done" /\ buffer = <<>>))
ReaderRead(k) ==
  /\ Reading /\ wire # <<>>
  /\ buffer' = buffer \o SubSeq(wire, 1, k) /\ wire' = DropN(wire, k)
  /\ phase' = IF phase = "done" THEN "object" ELSE phase
  /\ UNCHANGED <<stream, need, left, got, fault, writerVars>>

\* The end of the stream: done() has waited for it, decode() has not.
ReaderEnd ==
  /\ Reading /\ wire = <<>>
  /\ \/ ended = "fin" /\ phase = "done" /\ phase' = "end" /\ UNCHANGED fault
     \/ ended = "fin" /\ phase # "done" /\ fault' = "More" /\ UNCHANGED phase
     \/ ended = "reset" /\ fault' = "Reset" /\ UNCHANGED phase
  /\ UNCHANGED <<stream, wire, buffer, need, left, got, writerVars>>

\* done() when there are octets in the buffer.
ReaderDone ==
  /\ fault = "none" /\ phase = "done" /\ buffer # <<>>
  /\ phase' = "object"
  /\ UNCHANGED <<stream, wire, buffer, need, left, got, fault, writerVars>>

\* read_chunk, of k octets: from the buffer first, then from the stream.
FromBuffer == IF left < Len(buffer) THEN left ELSE Len(buffer)
Grown(k, octets) ==
  IF Last(got).kind = "payload"
  THEN [got EXCEPT ![Len(got)].v = @ \o SubSeq(octets, 1, k)]
  ELSE Append(got, [kind |-> "payload", v |-> SubSeq(octets, 1, k)])
ReadChunk(k) ==
  /\ fault = "none" /\ phase = "payload"
  /\ \/ /\ buffer # <<>> /\ k = FromBuffer
        /\ got' = Grown(k, buffer) /\ buffer' = DropN(buffer, k) /\ UNCHANGED wire
     \/ /\ buffer = <<>> /\ k <= left /\ k <= Len(wire)
        /\ got' = Grown(k, wire) /\ wire' = DropN(wire, k) /\ UNCHANGED buffer
  /\ left' = left - k
  /\ phase' = IF left = k THEN "done" ELSE "payload"
  /\ UNCHANGED <<stream, need, fault, writerVars>>
\* A stream that ends within a payload.
ChunkEnd ==
  /\ fault = "none" /\ phase = "payload" /\ buffer = <<>> /\ wire = <<>> /\ ended # "open"
  /\ fault' = IF ended = "fin" THEN "WrongSize" ELSE "Reset"
  /\ UNCHANGED <<stream, wire, buffer, need, phase, left, got, writerVars>>

WireNext ==
  \/ WriterEncode \/ WriterFinish
  \/ \E k \in DOMAIN out : WriterWrite(k)
  \/ ReaderDecode \/ ReaderEnd \/ ReaderDone \/ ChunkEnd
  \/ \E k \in DOMAIN wire : ReaderRead(k)
  \/ \E k \in DOMAIN (wire \o buffer) : ReadChunk(k)

-----------------------------------------------------------------------------
Raw == \E i \in DOMAIN sent : sent[i].kind = "raw"

(* However the transport cuts the stream, the reader gets what was written,   *)
(* in order and undamaged, and sees an error only where the writer broke the  *)
(* stream off; and it never waits for octets the writer does not owe it: when *)
(* all that was written has arrived and the reader still asks for more, it    *)
(* has handed out every item (session/reader.rs:26-99, writer.rs:25-60).      *)
ReadAsWritten ==
  /\ \A i \in DOMAIN got :
       /\ i \in DOMAIN sent
       /\ sent[i].kind # "raw" =>
            IF got[i].kind = "payload" THEN IsPrefix(got[i].v, sent[i].v) ELSE got[i] = sent[i]
  /\ fault = "none" \/ Raw \/ (fault = "Reset" /\ ended = "reset")
  /\ phase = "end" => got = sent /\ todo = <<>>
  /\ wire = <<>> /\ out = <<>> /\ ended # "reset" /\ Reading /\ ~Raw =>
       got = sent /\ buffer = <<>>
=============================================================================
