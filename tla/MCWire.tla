------------------------------- MODULE MCWire -------------------------------
(* The wire: coding laws on octet strings and values, a stream between Writer *)
(* and Reader, a FETCH response passed on, and the streams of draft-19.  A    *)
(* behaviour runs one of Parts, the others rest in an initial state.          *)
EXTENDS WireStreams, FetchCopy, Draft19, TLC

CONSTANTS
  Parts,        \* the components that run
  Alphabet,     \* octets of the strings that are decoded
  MaxString     \* bound on the octets and long integers they are made of

VARIABLES part, codec, octets, value, again

codecVars == <<codec, octets, value, again>>
WireLayerVars == <<part, codecVars, wireVars, copyVars, draft19Vars>>

-----------------------------------------------------------------------------
(* Messages and streams that are written.                                     *)
Sample(fk) ==
  CASE fk = "int"       -> 5
    [] fk = "bool"      -> TRUE
    [] fk = "location"  -> <<1, 20>>
    [] fk = "text"      -> <<1>>
    [] fk = "namespace" -> << <<1>>, <<2, 3>> >>
    [] fk = "prefix"    -> <<>>
    [] fk = "params"    -> <<BytesPair(SUBSCRIPTION_FILTER, <<2>>), IntPair(FORWARD, 1)>>
    [] fk = "exts"      -> <<IntPair(4, 70), BytesPair(3, <<>>)>>
    [] fk = "options"   -> 1
    [] fk = "name"      -> <<7>>
Message(name) == [kind |-> "message", v |->
  [name |-> name, fields |-> [i \in DOMAIN FieldsOf[name] |-> Sample(FieldsOf[name][i])]]]
FetchMessage(type) == [kind |-> "message", v |->
  [name |-> "Fetch", fields |-> [i \in DOMAIN FetchFieldsOf(type) |->
     IF i = 2 THEN type
     ELSE IF FetchFieldsOf(type)[i] = "params" THEN <<IntPair(FORWARD, 1)>>
     ELSE Sample(FetchFieldsOf(type)[i])]]]
UnknownMessage == [kind |-> "message", v |-> [name |-> "Unknown", fields |-> <<63, <<1, 2>> >>]]
\* A reason that is too long: the encoder refuses it.
TooLong == [kind |-> "message", v |->
  [name |-> "RequestError", fields |-> <<5, 1, 0, [i \in 1..(MaxText + 1) |-> 1]>>]]

Header(type) == [kind |-> "header", v |-> [type |-> type, alias |-> 5, group |-> 1,
                 subgroup |-> IF HasSubgroupId(type) THEN 2 ELSE 0, priority |-> 7]]
Object(type, exts, status, len) == [kind |-> "object", type |-> type, v |->
  [delta |-> 0, exts |-> exts, len |-> len, status |-> status]]
RawItem(b) == [kind |-> "raw", v |-> b]
Payload(b) == [kind |-> "payload", v |-> b]

MCScripts ==
  {[stream |-> "control", items |-> <<Message(n), Message("MaxRequestId")>>] : n \in DOMAIN FieldsOf}
  \cup {[stream |-> "control", items |-> <<FetchMessage(t), UnknownMessage>>] : t \in 1..3}
  \cup {[stream |-> "control", items |-> <<Message("GoAway"), TooLong, Message("GoAway")>>]}
  \cup {[stream |-> "control", items |-> <<Message("GoAway"), RawItem(<<5, 0, 0, 1, 3>>)>>],
        [stream |-> "subgroup", items |-> <<Header(16), RawItem(<<0, 1>>)>>],
        [stream |-> "subgroup", items |-> <<Header(16), RawItem(<<0>>)>>]}
  \cup {[stream |-> "subgroup", items |->
          <<Header(t), Object(t, <<>>, NormalObject, 3), Payload(<<1, 2, 3>>),
            Object(t, IF HasExtensions(t) THEN <<IntPair(2, 1)>> ELSE <<>>, NormalObject, 0),
            Object(t, <<>>, EndOfGroup, 0)>>] : t \in {16, 21, 26, 29}}

FetchItem(g, sg, ob, exts, b) ==
  [entry |-> [group |-> g, subgroup |-> sg, object |-> ob, priority |-> IF ob = 0 THEN 7 ELSE 3, exts |-> exts,
              len |-> Len(b)], payload |-> b]
FetchRange(rk, g, o) == [entry |-> [kind |-> rk, location |-> <<g, o>>], payload |-> <<>>]
MCResponses ==
  { <<>>,
    <<FetchItem(1, 0, 0, <<>>, <<1, 2, 3>>), FetchItem(1, 0, 1, <<>>, <<>>), FetchItem(1, 1, 2, <<>>, <<9>>)>>,
    <<FetchItem(0, 2, 5, <<IntPair(2, 1)>>, <<4>>), FetchRange(END_OF_UNKNOWN_RANGE, 0, 9),
      FetchItem(0, NoSubgroup, 10, <<>>, <<1>>)>>,
    <<FetchItem(2, 1, 0, <<>>, <<1>>), FetchItem(2, 2, 1, <<>>, <<2>>)>>,
    <<FetchItem(2, 1, 0, <<>>, <<1>>), [entry |-> [raw |-> <<6, 14>>], payload |-> <<>>]>> }

\* A response that ends in a marker, which has no payload.
MCResponsesMarked == {<<FetchItem(1, 0, 0, <<>>, <<1>>), FetchRange(END_OF_NON_EXISTENT_RANGE, 1, 5)>>}

-----------------------------------------------------------------------------
(* Coding laws: a string is decoded, and what came out is encoded again.      *)
Codecs == {"varint", "vi64", "tuple", "namespace", "prefix", "params", "exts", "filter", "object",
           "objectExt", "entry", "entryAfter", "entryLast", "datagram", "header", "string", "setup19", "frame19", "goaway19",
           "setup", "subscribe", "publishDone"}
PriorSample == [group |-> 1, subgroup |-> 2, object |-> 3, priority |-> 4]
\* The last IDs that can be written.
PriorLast == [group |-> VarIntMax, subgroup |-> VarIntMax, object |-> VarIntMax, priority |-> 4]

DecodeAs(c, s) ==
  CASE c = "varint"      -> DecodeVarInt(s)
    [] c = "vi64"        -> DecodeVi64(s)
    [] c = "tuple"       -> DecodeTuple(s)
    [] c = "namespace"   -> DecodeNamespace(s)
    [] c = "prefix"      -> DecodePrefix(s)
    [] c = "params"      -> DecodeParams(s)
    [] c = "exts"        -> DecodeExtensions(s)
    [] c = "filter"      -> DecodeFilter(s)
    [] c = "object"      -> DecodeSubgroupObject(s)
    [] c = "objectExt"   -> DecodeSubgroupObjectExt(s)
    [] c = "entry"       -> DecodeFetchEntry(NoPrior, s)
    [] c = "entryAfter"  -> DecodeFetchEntry(PriorSample, s)
    [] c = "entryLast"   -> DecodeFetchEntry(PriorLast, s)
    [] c = "datagram"    -> DecodeDatagram(s)
    [] c = "header"      -> DecodeStreamHeader(s)
    [] c = "string"      -> DecodeString(s)
    [] c = "setup19"     -> DecodeSetup19(EncodeFrame19([type |-> SETUP_TYPE, payload |-> s]).out)
    [] c = "frame19"     -> DecodeFrame19(s)
    [] c = "goaway19"    -> GoAwayOf([type |-> GOAWAY_TYPE, payload |-> s])
    [] c = "setup"       -> DecodeSetup(ClientSetup, EncodeFrame(ClientSetup, Enc(s)).out)
    [] c = "subscribe"   -> DecodeBody("Subscribe", s)
    [] c = "publishDone" -> DecodeBody("PublishDone", s)

EncodeEntry(prior0, v) ==
  IF IsRange(v.entry) THEN EncodeEndOfRange(v.entry.kind, v.entry.location)
  ELSE EncodeFetchObject(prior0, v.entry)
EncodeAs(c, v) ==
  CASE c = "varint"      -> EncodeVarInt(v)
    [] c = "vi64"        -> EncodeVi64(v)
    [] c = "tuple"       -> EncodeTuple(v)
    [] c = "namespace"   -> EncodeNamespace(v)
    [] c = "prefix"      -> EncodePrefix(v)
    [] c = "params"      -> EncodeParams(v)
    [] c = "exts"        -> EncodeExtensions(v)
    [] c = "filter"      -> EncodeFilter(v)
    [] c = "object"      -> EncodeSubgroupObject(v)
    [] c = "objectExt"   -> EncodeSubgroupObjectExt(v)
    [] c = "entry"       -> EncodeEntry(NoPrior, v)
    [] c = "entryAfter"  -> EncodeEntry(PriorSample, v)
    [] c = "entryLast"   -> EncodeEntry(NoPrior, v)
    [] c = "datagram"    -> EncodeDatagram(v)
    [] c = "header"      -> EncodeStreamHeader(v)
    [] c = "string"      -> EncodeString(v)
    [] c = "setup19"     -> LET f == EncodeSetup19(v)
                            IN  IF f.ok THEN Enc(DecodeFrame19(f.out).v.payload) ELSE f
    [] c = "frame19"     -> EncodeFrame19(v)
    [] c = "goaway19"    -> LET f == GoAwayFrame(v) IN Enc(DecodeFrame19(f.out).v.payload)
    [] c = "setup"       -> LET f == EncodeSetup(ClientSetup, v)
                            IN  IF f.ok THEN Enc(DropN(f.out, Len(EncodeFrame(ClientSetup, Enc(<<>>)).out))) ELSE f
    [] c = "subscribe"   -> EncodeBody([name |-> "Subscribe", fields |-> v])
    [] c = "publishDone" -> EncodeBody([name |-> "PublishDone", fields |-> v])

\* An integer of four octets, the largest of eight, and the largest Vi64.
LongInts == {<<8, 0, 0, 3>>, [i \in 1..8 |-> Base - 1], [i \in 1..(OctetBits + 1) |-> Base - 1]}
Pieces == {<<o>> : o \in Alphabet} \cup LongInts
Strings == {FlattenSeq(ps) : ps \in UNION {[1..n -> Pieces] : n \in 0..MaxString}}
NotYet == [ok |-> FALSE, err |-> "NotYet", need |-> 0]
CodecInit ==
  /\ codec \in (IF part = "codec" THEN Codecs ELSE {"varint"})
  /\ octets \in (IF part = "codec" THEN Strings ELSE {<<>>})
  /\ value = NotYet /\ again = NotYet
CodecDecode ==
  /\ value = NotYet
  /\ value' = DecodeAs(codec, octets)
  /\ UNCHANGED <<codec, octets, again>>
CodecEncode ==
  /\ value.ok /\ again = NotYet
  /\ again' = EncodeAs(codec, value.v)
  /\ UNCHANGED <<codec, octets, value>>

-----------------------------------------------------------------------------
\* The control streams meet the request stream only where they close the session, and which end is
\* the client matters on them alone: each kind is run with one client, FETCH with control GOAWAYs.
ClientOfKind == client = IF requestKind = "Subscribe" THEN "requester" ELSE "responder"
GoAwayOfKind == requestKind # "Fetch" => \A e \in Ends : ~control'[e].sent

WireLayerInit ==
  /\ part \in Parts
  /\ CodecInit
  /\ IF part = "stream" THEN WireInit ELSE WireStart([stream |-> "control", items |-> <<>>])
  /\ IF part = "copy" THEN CopyInit ELSE CopyStart(<<>>, 0, "fin")
  /\ IF part = "draft19" THEN Draft19Init /\ ClientOfKind ELSE Start("Subscribe", "requester")

Runs(p) ==
  /\ part = p /\ UNCHANGED part
  /\ IF p = "codec" THEN TRUE ELSE UNCHANGED codecVars
  /\ IF p = "stream" THEN TRUE ELSE UNCHANGED wireVars
  /\ IF p = "copy" THEN TRUE ELSE UNCHANGED copyVars
  /\ IF p = "draft19" THEN TRUE ELSE UNCHANGED draft19Vars

WireLayerNext ==
  \/ Runs("codec") /\ (CodecDecode \/ CodecEncode)
  \/ Runs("stream") /\ WireNext
  \/ Runs("copy") /\ CopyNext
  \/ Runs("draft19") /\ Draft19Next /\ GoAwayOfKind

WireLayerSpec == WireLayerInit /\ [][WireLayerNext]_WireLayerVars

-----------------------------------------------------------------------------
(* The types of the component that runs (session/, data/, profile/).          *)
WireLayerTypeOK ==
  CASE part = "codec"   -> value.ok \in BOOLEAN /\ again.ok \in BOOLEAN
    [] part = "stream"  -> WireTypeOK
    [] part = "copy"    -> CopyTypeOK
    [] part = "draft19" -> Draft19TypeOK

Present(v) == Ok(<<v>>, <<>>)

(* A parameter that is set is read back as it was set, through the octets of  *)
(* its value, and setting one changes no other; a namespace is put together   *)
(* again from any of its prefixes and the rest, and prefixes overlap exactly  *)
(* where some namespace may have both (message/params.rs,                     *)
(* coding/track_namespace.rs).                                                *)
AccessorsAgree ==
  value.ok =>
    /\ codec = "params" =>
         LET ps == value.v
         IN  /\ \A f \in BOOLEAN : ForwardOf(SetForward(ps, f)) = Present(IF f THEN 1 ELSE 0)
             /\ PriorityOf(SetPriority(ps, Base - 1)) = Present(Base - 1)
             /\ \A o \in 1..2 : GroupOrderOf(SetGroupOrder(ps, o)) = Present(o)
             /\ \A l \in {<<0, 3>>, <<4, 70>>} :
                  /\ LargestOf(SetLargest(ps, l)) = Present(l)
                  /\ \A t \in {AbsoluteStart, AbsoluteRange} :
                       LET f == [type |-> t, start |-> l, end |-> IF t = AbsoluteRange THEN 9 ELSE 0]
                       IN  /\ FilterOf(SetFilter(ps, f)) = Present(f)
                           /\ LargestOf(SetFilter(ps, f)) = LargestOf(ps)
                           /\ ForwardOf(SetFilter(ps, f)) = ForwardOf(ps)
             /\ ~HasDuplicateKeys(ps) => ~HasDuplicateKeys(SetForward(SetPriority(ps, 0), TRUE))
    /\ codec = "namespace" =>
         /\ \A k \in 0..Len(value.v) :
              LET p == SubSeq(value.v, 1, k)
              IN  /\ is_prefix_of(p, value.v)
                  /\ \E suffix \in {DropN(value.v, k)} :
                       /\ strip_prefix(value.v, p) = <<suffix>>
                       /\ join_suffix(p, suffix) = <<value.v>>
         /\ \A q \in {<<>>, << <<1>> >>, << <<1>>, <<2>> >>, << <<2>> >>} :
              overlaps(q, value.v) <=> (is_prefix_of(q, value.v) \/ is_prefix_of(value.v, q))

\* The IDs of an object, where one is inferred from VarInt::MAX, can be spelled out.
Encodable ==
  codec = "entryLast" /\ ~IsRange(value.v.entry) =>
    value.v.entry.object <= VarIntMax /\ value.v.entry.subgroup <= VarIntMax

(* What a relay has decoded it can encode again, and the next hop decodes the *)
(* same from it: a longer form of an integer, parameters or an inherited      *)
(* field change nothing.  Only an object whose ID was inferred past           *)
(* VarInt::MAX cannot stand first on a stream: the encoder refuses it and     *)
(* cuts nothing short.  What a relay sets in a message it reads back          *)
(* (coding/, data/, message/, profile/).  Every component keeps its types.    *)
RecodedAlike ==
  /\ WireLayerTypeOK /\ AccessorsAgree
  /\ again # NotYet =>
       /\ again.ok <=> Encodable
       /\ again.ok =>
            LET d == DecodeAs(codec, again.out)
            IN  d.ok /\ d.v = value.v /\ (codec # "datagram" => d.rest = <<>>)
=============================================================================
