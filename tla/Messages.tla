------------------------------ MODULE Messages ------------------------------
(* How moq-transport writes the fields of its messages and reads them back    *)
(* (coding/).  An octet is scaled to OctetBits bits, and every width that the *)
(* code counts in octets keeps its count, so a two-bit tag still announces 1, *)
(* 2, 4 or 8 octets and a u16 is still two of them.  Decoding returns what it *)
(* read and the octets it left, or an error; More(n) asks for n more octets.  *)
EXTENDS Integers, Sequences, SequencesExt, FiniteSets

CONSTANTS
  MaxFields,      \* TrackNamespace::MAX_FIELDS and TrackNamespacePrefix::MAX_FIELDS
  MaxFieldLen,    \* TupleField::MAX_VALUE_SIZE
  MaxNameLen,     \* MAX_FULL_TRACK_NAME_LEN
  MaxText         \* ReasonPhrase::MAX_LEN and SessionUri::MAX_LEN

ASSUME CodingAssumption ==
  MaxFields \in Nat /\ MaxFieldLen \in Nat /\ MaxNameLen \in Nat /\ MaxText \in Nat

OctetBits == 4
Base == 2^OctetBits
Octet == 0..(Base - 1)

Ok(v, rest) == [ok |-> TRUE, v |-> v, rest |-> rest]
Err(e) == [ok |-> FALSE, err |-> e, need |-> 0]
More(n) == [ok |-> FALSE, err |-> "More", need |-> n]

Enc(out) == [ok |-> TRUE, out |-> out]

\* `?`: the next decoder runs on what this one left, an error ends it all.
Then(d, Next(_, _)) == IF d.ok THEN Next(d.v, d.rest) ELSE d
\* Several encoders after each other into one buffer.
EncodeAll(rs) ==
  IF \A i \in DOMAIN rs : rs[i].ok
  THEN Enc(FlattenSeq([i \in DOMAIN rs |-> rs[i].out]))
  ELSE rs[CHOOSE i \in DOMAIN rs : ~rs[i].ok /\ \A j \in 1..(i - 1) : rs[j].ok]

DropN(s, n) == SubSeq(s, n + 1, Len(s))

\* Decode::decode_remaining: the octets still missing.
Remaining(s, n) == IF Len(s) < n THEN More(n - Len(s)) ELSE Ok(SubSeq(s, 1, n), DropN(s, n))

-----------------------------------------------------------------------------
(* Integers.                                                                  *)

\* n in k octets, most significant first, and back.
ToOctets(n, k) == [i \in 1..k |-> (n \div Base^(k - i)) % Base]
FromOctets(s) == FoldLeft(LAMBDA acc, o : acc * Base + o, 0, s)

\* VarInt: the top two bits of the first octet say how many octets there are.
VarIntMax == 2^(8 * OctetBits - 2) - 1
\* Mutant: the first value that needs another octet is left without it.
VarIntLen_Inclusive(n) ==
  CASE n <= 2^(OctetBits - 2)     -> 1
    [] n <= 2^(2 * OctetBits - 2) -> 2
    [] n <= 2^(4 * OctetBits - 2) -> 4
    [] OTHER                      -> 8
VarIntLen(n) ==
  CASE n < 2^(OctetBits - 2)     -> 1
    [] n < 2^(2 * OctetBits - 2) -> 2
    [] n < 2^(4 * OctetBits - 2) -> 4
    [] OTHER                     -> 8
VarIntTag(k) == CASE k = 1 -> 0 [] k = 2 -> 1 [] k = 4 -> 2 [] k = 8 -> 3

EncodeVarInt(n) ==
  IF n > VarIntMax THEN Err("BoundsExceeded")
  ELSE LET k == VarIntLen(n)
           o == ToOctets(n, k)
       IN  Enc([o EXCEPT ![1] = @ + VarIntTag(k) * 2^(OctetBits - 2)])

DecodeVarInt(s) ==
  Then(Remaining(s, 1), LAMBDA first, rest :
    LET k == 2^(first[1] \div 2^(OctetBits - 2))
    IN  Then(Remaining(rest, k - 1), LAMBDA tail, left :
          Ok(FromOctets(<<first[1] % 2^(OctetBits - 2)>> \o tail), left)))

\* Vi64: as many leading ones as octets follow the first one.
Vi64Len(n) ==
  LET k == CHOOSE k \in 1..(OctetBits + 1) :
             /\ n < 2^(k * (OctetBits - 1)) \/ k = OctetBits + 1
             /\ \A j \in 1..(k - 1) : n >= 2^(j * (OctetBits - 1))
  IN  k

EncodeVi64(n) ==
  LET k == Vi64Len(n)
      ones == (2^(k - 1) - 1) * 2^(OctetBits - k + 1)
  IN  IF k > OctetBits THEN Enc(<<Base - 1>> \o ToOctets(n, k - 1))
      ELSE LET o == ToOctets(n, k) IN Enc([o EXCEPT ![1] = @ + ones])

DecodeVi64(s) ==
  Then(Remaining(s, 1), LAMBDA first, rest :
    LET ones == CHOOSE j \in 0..OctetBits :
                  /\ \A i \in 1..j : (first[1] \div 2^(OctetBits - i)) % 2 = 1
                  /\ j = OctetBits \/ (first[1] \div 2^(OctetBits - j - 1)) % 2 = 0
        own == IF ones >= OctetBits - 1 THEN 0 ELSE first[1] % 2^(OctetBits - ones - 1)
    IN  Then(Remaining(rest, ones), LAMBDA tail, left : Ok(FromOctets(<<own>> \o tail), left)))

EncodeU8(n) == Enc(<<n>>)
DecodeU8(s) == Then(Remaining(s, 1), LAMBDA o, rest : Ok(o[1], rest))

U16Max == Base^2 - 1
EncodeU16(n) == Enc(ToOctets(n, 2))
DecodeU16(s) == Then(Remaining(s, 2), LAMBDA o, rest : Ok(FromOctets(o), rest))

EncodeBool(b) == Enc(<<IF b THEN 1 ELSE 0>>)
DecodeBool(s) ==
  Then(DecodeU8(s), LAMBDA n, rest : IF n > 1 THEN Err("InvalidValue") ELSE Ok(n = 1, rest))

\* A choice among the numbers of an enumeration, written as a VarInt.
DecodeOneOf(s, values, e) ==
  Then(DecodeVarInt(s), LAMBDA n, rest : IF n \in values THEN Ok(n, rest) ELSE Err(e))

-----------------------------------------------------------------------------
(* Octet strings, texts, locations.                                           *)

EncodeBytes(b) == EncodeAll(<<EncodeVarInt(Len(b)), Enc(b)>>)
DecodeBytes(s) == Then(DecodeVarInt(s), LAMBDA n, rest : Remaining(rest, n))

\* UTF-8 is not decoded: an octet with its top bit clear stands for a character,
\* and a string that holds any other octet for one that is no UTF-8.
IsText(b) == \A i \in DOMAIN b : b[i] < Base \div 2

EncodeString(b) == EncodeBytes(b)
DecodeString(s) ==
  Then(DecodeBytes(s), LAMBDA b, rest : IF IsText(b) THEN Ok(b, rest) ELSE Err("InvalidString"))

\* bounded_string!: ReasonPhrase and SessionUri.  The length is checked before
\* the text is asked for.
EncodeBounded(b) == IF Len(b) > MaxText THEN Err("FieldBoundsExceeded") ELSE EncodeString(b)
DecodeBounded(s) ==
  Then(DecodeVarInt(s), LAMBDA n, rest :
    IF n > MaxText THEN Err("FieldBoundsExceeded")
    ELSE Then(Remaining(rest, n), LAMBDA b, left :
           IF IsText(b) THEN Ok(b, left) ELSE Err("InvalidString")))

EncodeLocation(l) == EncodeAll(<<EncodeVarInt(l[1]), EncodeVarInt(l[2])>>)
DecodeLocation(s) ==
  Then(DecodeVarInt(s), LAMBDA g, rest :
    Then(DecodeVarInt(rest), LAMBDA o, left : Ok(<<g, o>>, left)))

\* n times.  Every item takes an octet at least, so that one item more than
\* there are octets has failed for want of them.
Times(n, s) == [i \in 1..(IF n > Len(s) THEN Len(s) + 1 ELSE n) |-> i]
\* n times the same decoder.
DecodeTimes(Decode(_), n, s) ==
  FoldLeft(LAMBDA d, i : Then(d, LAMBDA got, rest :
             Then(Decode(rest), LAMBDA v, left : Ok(Append(got, v), left))),
           Ok(<<>>, s), Times(n, s))

-----------------------------------------------------------------------------
(* Namespaces and track names.                                                *)

EncodeTupleField(f) == IF Len(f) > MaxFieldLen THEN Err("FieldBoundsExceeded") ELSE EncodeBytes(f)
DecodeTupleField(s) ==
  Then(DecodeVarInt(s), LAMBDA n, rest :
    IF n > MaxFieldLen THEN Err("FieldBoundsExceeded") ELSE Remaining(rest, n))

\* Tuple: any number of fields, the empty ones too.
EncodeTuple(t) ==
  EncodeAll(<<EncodeVarInt(Len(t))>> \o [i \in DOMAIN t |-> EncodeTupleField(t[i])])
DecodeTuple(s) == Then(DecodeVarInt(s), LAMBDA n, rest : DecodeTimes(DecodeTupleField, n, rest))

\* namespace_fields_byte_len
ByteLen(fields) == FoldLeft(LAMBDA acc, f : acc + Len(f), 0, fields)

\* decode_namespace_fields: a count out of bounds is refused before any field.
DecodeNamespaceFields(s, min) ==
  Then(DecodeVarInt(s), LAMBDA n, rest :
    IF n < min \/ n > MaxFields THEN Err("FieldBoundsExceeded")
    ELSE DecodeTimes(LAMBDA r : Then(DecodeTupleField(r), LAMBDA f, left :
                       IF f = <<>> THEN Err("EmptyNamespaceField") ELSE Ok(f, left)), n, rest))

EncodeNamespaceFields(fields, min) ==
  IF Len(fields) < min \/ Len(fields) > MaxFields THEN Err("FieldBoundsExceeded")
  ELSE EncodeAll(<<EncodeVarInt(Len(fields))>> \o
         [i \in DOMAIN fields |-> IF fields[i] = <<>> THEN Err("EmptyNamespaceField")
                                  ELSE EncodeTupleField(fields[i])])

\* validate_track_namespace_fields and TrackNamespace::try_from
IsNamespace(fields) ==
  /\ Len(fields) \in 1..MaxFields
  /\ \A i \in DOMAIN fields : Len(fields[i]) \in 1..MaxFieldLen
  /\ ByteLen(fields) <= MaxNameLen

DecodeNamespace(s) ==
  Then(DecodeNamespaceFields(s, 1), LAMBDA fields, rest :
    IF ByteLen(fields) > MaxNameLen THEN Err("TrackNameTooLong") ELSE Ok(fields, rest))
EncodeNamespace(fields) ==
  IF ByteLen(fields) > MaxNameLen THEN Err("FieldBoundsExceeded")
  ELSE EncodeNamespaceFields(fields, 1)

\* A prefix may be empty, and its octets are not counted.
DecodePrefix(s) == DecodeNamespaceFields(s, 0)
EncodePrefix(fields) == EncodeNamespaceFields(fields, 0)

is_prefix_of(p, ns) == Len(p) <= Len(ns) /\ \A i \in DOMAIN p : p[i] = ns[i]
overlaps(p, q) == \A i \in DOMAIN p \cap DOMAIN q : p[i] = q[i]
strip_prefix(ns, p) == IF is_prefix_of(p, ns) THEN <<DropN(ns, Len(p))>> ELSE <<>>
join_suffix(p, suffix) == IF IsNamespace(p \o suffix) THEN <<p \o suffix>> ELSE <<>>

DecodeTrackName(s) ==
  Then(DecodeVarInt(s), LAMBDA n, rest :
    IF n > MaxNameLen THEN Err("TrackNameTooLong") ELSE Remaining(rest, n))
EncodeTrackName(b) == IF Len(b) > MaxNameLen THEN Err("FieldBoundsExceeded") ELSE EncodeBytes(b)

\* validate_full_track_name
FullNameFits(ns, name) == ByteLen(ns) + Len(name) <= MaxNameLen

-----------------------------------------------------------------------------
(* Key-value pairs: a key is written as its distance from the key before; an  *)
(* even key has an integer, an odd one octets.                                *)

IntPair(key, n) == [key |-> key, kind |-> "int", v |-> n]
BytesPair(key, b) == [key |-> key, kind |-> "bytes", v |-> b]

\* KeyValuePair::decode_with_prev; the keys are u64, wider than a VarInt.
U64Max == 2^(8 * OctetBits - 2) + (2^(8 * OctetBits - 2) - 1)
DecodePair(s, prev) ==
  Then(DecodeVarInt(s), LAMBDA delta, rest :
    IF delta > U64Max - prev THEN Err("KvpTypeOverflow")
    ELSE IF (prev + delta) % 2 = 0
    THEN Then(DecodeVarInt(rest), LAMBDA n, left : Ok(IntPair(prev + delta, n), left))
    ELSE Then(DecodeVarInt(rest), LAMBDA n, left :
           IF n > U16Max THEN Err("KeyValuePairLengthExceeded")
           ELSE Then(Remaining(left, n), LAMBDA b, tail : Ok(BytesPair(prev + delta, b), tail))))

\* KeyValuePair::encode_with_prev
EncodePair(p, prev) ==
  IF (p.kind = "int") # (p.key % 2 = 0) THEN Err("InvalidValue")
  ELSE IF p.key < prev THEN Err("KvpKeyOrder")
  ELSE EncodeAll(<<EncodeVarInt(p.key - prev),
                   IF p.kind = "int" THEN EncodeVarInt(p.v)
                   ELSE IF Len(p.v) > U16Max THEN Err("KeyValuePairLengthExceeded")
                   ELSE EncodeBytes(p.v)>>)

\* Pairs one after the other, each from the key of the one before.
EncodePairs(ps) ==
  EncodeAll([i \in DOMAIN ps |-> EncodePair(ps[i], IF i = 1 THEN 0 ELSE ps[i - 1].key)])
DecodePairTo(d) ==
  Then(d, LAMBDA got, rest :
    Then(DecodePair(rest, IF got = <<>> THEN 0 ELSE Last(got).key), LAMBDA p, left :
      Ok(Append(got, p), left)))

SortPairs(ps) == SortSeq(ps, LAMBDA a, b : a.key < b.key)

\* KeyValuePairs: as many as the count says, sorted when they are written.
DecodeParams(s) ==
  Then(DecodeVarInt(s), LAMBDA n, rest :
    FoldLeft(LAMBDA d, i : DecodePairTo(d), Ok(<<>>, rest), Times(n, rest)))
EncodeParams(ps) == EncodeAll(<<EncodeVarInt(Len(ps)), EncodePairs(SortPairs(ps))>>)

\* Pairs up to the end of s.
DecodePairsToEnd(s) ==
  FoldLeft(LAMBDA d, i : IF d.ok /\ d.rest = <<>> THEN d ELSE DecodePairTo(d),
           Ok(<<>>, s), Times(Len(s) + 1, s))

\* KeyValuePairs::set, get, has_duplicate_keys; the same of ExtensionHeaders.
SetPair(ps, p) ==
  IF \E i \in DOMAIN ps : ps[i].key = p.key
  THEN [ps EXCEPT ![CHOOSE i \in DOMAIN ps :
                      ps[i].key = p.key /\ \A j \in 1..(i - 1) : ps[j].key # p.key] = p]
  ELSE Append(ps, p)
GetPair(ps, key) ==
  LET at == {i \in DOMAIN ps : ps[i].key = key}
  IN  IF at = {} THEN <<>> ELSE <<ps[CHOOSE i \in at : \A j \in at : i <= j]>>
HasDuplicateKeys(ps) == \E i, j \in DOMAIN ps : i < j /\ ps[i].key = ps[j].key

\* ExtensionHeaders: pairs behind their length in octets.
DecodeExtensions(s) ==
  Then(DecodeBytes(s), LAMBDA body, rest :
    Then(DecodePairsToEnd(body), LAMBDA ps, left : Ok(ps, rest)))
EncodeExtensions(ps) ==
  LET body == EncodePairs(SortPairs(ps)) IN IF body.ok THEN EncodeBytes(body.out) ELSE body

-----------------------------------------------------------------------------
(* The control messages (message/): every message is the list of its fields,  *)
(* in the order in which both Decode and Encode go through them; a frame is   *)
(* its type, its length and its payload.                                      *)

\* A field is decoded knowing the fields before it.
DecodeField(kind, before, s) ==
  CASE kind = "int"       -> DecodeVarInt(s)
    [] kind = "bool"      -> DecodeBool(s)
    [] kind = "location"  -> DecodeLocation(s)
    [] kind = "text"      -> DecodeBounded(s)
    [] kind = "namespace" -> DecodeNamespace(s)
    [] kind = "prefix"    -> DecodePrefix(s)
    [] kind = "params"    -> DecodeParams(s)
    [] kind = "exts"      -> DecodePairsToEnd(s)
    [] kind = "options"   -> DecodeOneOf(s, 0..2, "InvalidSubscribeOptions")
    [] kind = "fetchtype" -> DecodeOneOf(s, 1..3, "InvalidFetchType")
    [] kind = "name"      -> Then(DecodeTrackName(s), LAMBDA name, rest :
                               IF FullNameFits(Last(before), name) THEN Ok(name, rest)
                               ELSE Err("TrackNameTooLong"))

\* The limit on namespace and name together is checked by the decoder alone.
EncodeField(kind, v) ==
  CASE kind \in {"int", "options", "fetchtype"} -> EncodeVarInt(v)
    [] kind = "bool"      -> EncodeBool(v)
    [] kind = "location"  -> EncodeLocation(v)
    [] kind = "text"      -> EncodeBounded(v)
    [] kind = "namespace" -> EncodeNamespace(v)
    [] kind = "prefix"    -> EncodePrefix(v)
    [] kind = "params"    -> EncodeParams(v)
    [] kind = "exts"      -> EncodePairs(SortPairs(v))
    [] kind = "name"      -> EncodeTrackName(v)

DecodeFields(kinds, s) ==
  FoldLeft(LAMBDA d, kind : Then(d, LAMBDA got, rest :
             Then(DecodeField(kind, got, rest), LAMBDA v, left : Ok(Append(got, v), left))),
           Ok(<<>>, s), kinds)
EncodeFields(kinds, vs) == EncodeAll([i \in DOMAIN kinds |-> EncodeField(kinds[i], vs[i])])

-----------------------------------------------------------------------------
(* The fields of each message.                                                *)
SubscribeFields == <<"int", "namespace", "name", "params">>
SubscribeOkFields == <<"int", "int", "params", "exts">>
UnsubscribeFields == <<"int">>
RequestUpdateFields == <<"int", "int", "params">>
RequestErrorFields == <<"int", "int", "int", "text">>
RequestOkFields == <<"int", "params">>
PublishNamespaceFields == <<"int", "namespace", "params">>
NamespaceFields == <<"prefix">>
NamespaceDoneFields == <<"prefix">>
PublishNamespaceDoneFields == <<"int">>
PublishNamespaceCancelFields == <<"int", "int", "text">>
TrackStatusFields == <<"int", "namespace", "name", "params">>
PublishFields == <<"int", "namespace", "name", "int", "params", "exts">>
PublishOkFields == <<"int", "params">>
PublishDoneFields == <<"int", "int", "int", "text">>
FetchCancelFields == <<"int">>
FetchOkFields == <<"int", "bool", "location", "params", "exts">>
SubscribeNamespaceFields == <<"int", "prefix", "options", "params">>
GoAwayFields == <<"text">>
MaxRequestIdFields == <<"int">>
RequestsBlockedFields == <<"int">>
\* A FETCH names a range of a track, or a subscription it joins: the fields
\* after its type depend on the type.
StandaloneFetchFields == <<"int", "fetchtype", "namespace", "name", "location", "location", "params">>
JoiningFetchFields == <<"int", "fetchtype", "int", "int", "params">>
StandaloneFetch == 1

\* message_types!
MessageTypes ==
  [ RequestUpdate |-> 2, Subscribe |-> 3, SubscribeOk |-> 4, RequestError |-> 5,
    PublishNamespace |-> 6, RequestOk |-> 7, Namespace |-> 8, PublishNamespaceDone |-> 9,
    Unsubscribe |-> 10, PublishDone |-> 11, PublishNamespaceCancel |-> 12, TrackStatus |-> 13,
    NamespaceDone |-> 14, GoAway |-> 16, SubscribeNamespace |-> 17, MaxRequestId |-> 21,
    Fetch |-> 22, FetchCancel |-> 23, FetchOk |-> 24, RequestsBlocked |-> 26, Publish |-> 29,
    PublishOk |-> 30 ]

FieldsOf ==
  [ Subscribe |-> SubscribeFields, SubscribeOk |-> SubscribeOkFields,
    Unsubscribe |-> UnsubscribeFields, RequestUpdate |-> RequestUpdateFields,
    RequestError |-> RequestErrorFields, RequestOk |-> RequestOkFields,
    PublishNamespace |-> PublishNamespaceFields, Namespace |-> NamespaceFields,
    NamespaceDone |-> NamespaceDoneFields, PublishNamespaceDone |-> PublishNamespaceDoneFields,
    PublishNamespaceCancel |-> PublishNamespaceCancelFields, TrackStatus |-> TrackStatusFields,
    Publish |-> PublishFields, PublishOk |-> PublishOkFields, PublishDone |-> PublishDoneFields,
    FetchCancel |-> FetchCancelFields, FetchOk |-> FetchOkFields,
    SubscribeNamespace |-> SubscribeNamespaceFields, GoAway |-> GoAwayFields,
    MaxRequestId |-> MaxRequestIdFields, RequestsBlocked |-> RequestsBlockedFields ]

FetchFieldsOf(type) == IF type = StandaloneFetch THEN StandaloneFetchFields ELSE JoiningFetchFields
DecodeFetch(s) ==
  Then(DecodeFields(<<"int", "fetchtype">>, s), LAMBDA head, rest :
    DecodeFields(FetchFieldsOf(head[2]), s))

DecodeBody(name, s) == IF name = "Fetch" THEN DecodeFetch(s) ELSE DecodeFields(FieldsOf[name], s)
EncodeBody(m) ==
  EncodeFields(IF m.name = "Fetch" THEN FetchFieldsOf(m.fields[2]) ELSE FieldsOf[m.name], m.fields)

\* Message::decode.  The payload is cut out by its length and decoded on its own;
\* an unknown type keeps it as it is.
DecodeMessage(s) ==
  Then(DecodeVarInt(s), LAMBDA t, afterType :
    Then(DecodeU16(afterType), LAMBDA len, afterLen :
      Then(Remaining(afterLen, len), LAMBDA payload, rest :
        LET names == {n \in DOMAIN MessageTypes : MessageTypes[n] = t}
        IN  IF names = {} THEN Ok([name |-> "Unknown", fields |-> <<t, payload>>], rest)
            ELSE LET name == CHOOSE n \in names : TRUE
                 IN  Then(DecodeBody(name, payload), LAMBDA fields, left :
                       IF left # <<>> THEN Err("InvalidMessage")
                       ELSE Ok([name |-> name, fields |-> fields], rest)))))

\* Message::encode, and the frames of the two setup messages.
EncodeFrame(type, body) ==
  IF ~body.ok THEN body
  ELSE IF Len(body.out) > U16Max THEN Err("MsgBoundsExceeded")
  ELSE EncodeAll(<<EncodeVarInt(type), EncodeU16(Len(body.out)), Enc(body.out)>>)
EncodeMessage(m) ==
  IF m.name = "Unknown" THEN EncodeFrame(m.fields[1], Enc(m.fields[2]))
  ELSE EncodeFrame(MessageTypes[m.name], EncodeBody(m))

\* setup::Client and setup::Server: parameters and nothing else.
ClientSetup == 32
ServerSetup == 33
EncodeSetup(type, params) == EncodeFrame(type, EncodeParams(params))
DecodeSetup(type, s) ==
  Then(DecodeVarInt(s), LAMBDA t, afterType :
    IF t # type THEN Err("InvalidMessage")
    ELSE Then(DecodeU16(afterType), LAMBDA len, afterLen :
           Then(Remaining(afterLen, len), LAMBDA payload, rest :
             Then(DecodeParams(payload), LAMBDA params, left :
               IF left # <<>> THEN Err("InvalidMessage") ELSE Ok(params, rest)))))

-----------------------------------------------------------------------------
(* Message parameters (params.rs).                                            *)
LARGEST_OBJECT == 9
FORWARD == 16
SUBSCRIBER_PRIORITY == 32
SUBSCRIPTION_FILTER == 33
GROUP_ORDER == 34

\* SubscriptionFilter: [type, start, end], the last two when the type has them.
NextGroupStart == 1
LargestObject == 2
AbsoluteStart == 3
AbsoluteRange == 4
EncodeFilter(f) ==
  EncodeAll(<<EncodeVarInt(f.type)>> \o
            (IF f.type \in {AbsoluteStart, AbsoluteRange} THEN <<EncodeLocation(f.start)>> ELSE <<>>) \o
            (IF f.type = AbsoluteRange THEN <<EncodeVarInt(f.end)>> ELSE <<>>))
DecodeFilter(s) ==
  Then(DecodeOneOf(s, 1..4, "InvalidFilterType"), LAMBDA type, rest :
    CASE type = AbsoluteStart -> Then(DecodeLocation(rest), LAMBDA l, left :
                                   Ok([type |-> type, start |-> l, end |-> 0], left))
      [] type = AbsoluteRange -> Then(DecodeLocation(rest), LAMBDA l, left :
                                   Then(DecodeVarInt(left), LAMBDA g, tail :
                                     Ok([type |-> type, start |-> l, end |-> g], tail)))
      [] OTHER -> Ok([type |-> type, start |-> <<0, 0>>, end |-> 0], rest))

\* decode_bytes_value: a value with octets left over is refused.
DecodeWhole(d) ==
  Then(d, LAMBDA v, rest : IF rest # <<>> THEN Err("InvalidParameter") ELSE Ok(v, rest))

\* The accessors: an absent parameter is Ok(<<>>), a present one Ok(<<value>>).
IntParameter(ps, key, values, e) ==
  LET p == GetPair(ps, key)
  IN  IF p = <<>> THEN Ok(<<>>, <<>>)
      ELSE IF p[1].kind # "int" THEN Err("InvalidParameter")
      ELSE IF p[1].v \in values THEN Ok(<<p[1].v>>, <<>>) ELSE Err(e)
BytesParameter(ps, key, Decode(_)) ==
  LET p == GetPair(ps, key)
  IN  IF p = <<>> THEN Ok(<<>>, <<>>)
      ELSE IF p[1].kind # "bytes" THEN Err("InvalidParameter")
      ELSE Then(DecodeWhole(Decode(p[1].v)), LAMBDA v, rest : Ok(<<v>>, rest))

ForwardOf(ps) == IntParameter(ps, FORWARD, 0..1, "InvalidParameter")
PriorityOf(ps) == IntParameter(ps, SUBSCRIBER_PRIORITY, Octet, "InvalidParameter")
GroupOrderOf(ps) == IntParameter(ps, GROUP_ORDER, 1..2, "InvalidGroupOrder")
FilterOf(ps) == BytesParameter(ps, SUBSCRIPTION_FILTER, DecodeFilter)
LargestOf(ps) == BytesParameter(ps, LARGEST_OBJECT, DecodeLocation)

\* set_group_order writes nothing for the order of the publisher.
SetForward(ps, f) == SetPair(ps, IntPair(FORWARD, IF f THEN 1 ELSE 0))
SetPriority(ps, n) == SetPair(ps, IntPair(SUBSCRIBER_PRIORITY, n))
SetGroupOrder(ps, o) == IF o = 0 THEN ps ELSE SetPair(ps, IntPair(GROUP_ORDER, o))
SetFilter(ps, f) == SetPair(ps, BytesPair(SUBSCRIPTION_FILTER, EncodeFilter(f).out))
\* Mutant: under the key of the filter.
SetLargest_FilterKey(ps, l) == SetPair(ps, BytesPair(SUBSCRIPTION_FILTER, EncodeLocation(l).out))
SetLargest(ps, l) == SetPair(ps, BytesPair(LARGEST_OBJECT, EncodeLocation(l).out))

-----------------------------------------------------------------------------
(* What data streams and datagrams carry (data/): stream headers, the objects *)
(* of a subgroup, the entries of a FETCH response, object datagrams.          *)

\* ObjectStatus
NormalObject == 0
EndOfGroup == 3
EndOfTrack == 4
Statuses == {NormalObject, EndOfGroup, EndOfTrack}
DecodeStatus(s) == DecodeOneOf(s, Statuses, "InvalidObjectStatus")

-----------------------------------------------------------------------------
(* Stream headers.  An odd type has extension headers.                        *)
FetchStream == 5
SubgroupTypes == (16..21) \cup (24..29)
HasExtensions(type) == type % 2 = 1
HasSubgroupId(type) == type \in {20, 21, 28, 29}

\* SubgroupHeader: [type, alias, group, subgroup, priority], the subgroup 0 when
\* the type has none.
EncodeSubgroupHeader(h) ==
  EncodeAll(<<EncodeVarInt(h.type), EncodeVarInt(h.alias), EncodeVarInt(h.group)>> \o
            (IF HasSubgroupId(h.type) THEN <<EncodeVarInt(h.subgroup)>> ELSE <<>>) \o
            <<EncodeU8(h.priority)>>)
DecodeSubgroupHeader(type, s) ==
  Then(DecodeVarInt(s), LAMBDA alias, s1 :
    Then(DecodeVarInt(s1), LAMBDA group, s2 :
      Then(IF HasSubgroupId(type) THEN DecodeVarInt(s2) ELSE Ok(0, s2), LAMBDA subgroup, s3 :
        Then(DecodeU8(s3), LAMBDA priority, s4 :
          Ok([type |-> type, alias |-> alias, group |-> group, subgroup |-> subgroup,
              priority |-> priority], s4)))))

EncodeFetchHeader(h) == EncodeAll(<<EncodeVarInt(FetchStream), EncodeVarInt(h.id)>>)
DecodeFetchHeader(s) == Then(DecodeVarInt(s), LAMBDA id, rest :
                          Ok([type |-> FetchStream, id |-> id], rest))

EncodeStreamHeader(h) ==
  IF h.type \in SubgroupTypes THEN EncodeSubgroupHeader(h) ELSE EncodeFetchHeader(h)
DecodeStreamHeader(s) ==
  Then(DecodeOneOf(s, SubgroupTypes \cup {FetchStream}, "InvalidHeaderType"), LAMBDA type, rest :
    IF type = FetchStream THEN DecodeFetchHeader(rest) ELSE DecodeSubgroupHeader(type, rest))

-----------------------------------------------------------------------------
(* Objects of a subgroup: [delta, exts, len, status].  The status is written  *)
(* for an object without payload only, and stands at NormalObject otherwise.  *)
StatusRefused(status, exts) == status # NormalObject /\ exts # <<>>

DecodeObjectTail(delta, exts, s) ==
  Then(DecodeVarInt(s), LAMBDA len, s1 :
    Then(IF len = 0 THEN DecodeStatus(s1) ELSE Ok(NormalObject, s1), LAMBDA status, s2 :
      IF StatusRefused(status, exts) THEN Err("InvalidValue")
      ELSE Ok([delta |-> delta, exts |-> exts, len |-> len, status |-> status], s2)))
EncodeObjectTail(o) ==
  IF o.len # 0 THEN EncodeVarInt(o.len)
  ELSE IF StatusRefused(o.status, o.exts) THEN Err("InvalidValue")
  ELSE EncodeAll(<<EncodeVarInt(0), EncodeVarInt(o.status)>>)

DecodeSubgroupObject(s) ==
  Then(DecodeVarInt(s), LAMBDA delta, rest : DecodeObjectTail(delta, <<>>, rest))
EncodeSubgroupObject(o) == EncodeAll(<<EncodeVarInt(o.delta), EncodeObjectTail(o)>>)

DecodeSubgroupObjectExt(s) ==
  Then(DecodeVarInt(s), LAMBDA delta, s1 :
    Then(DecodeExtensions(s1), LAMBDA exts, s2 : DecodeObjectTail(delta, exts, s2)))
EncodeSubgroupObjectExt(o) ==
  EncodeAll(<<EncodeVarInt(o.delta), EncodeExtensions(o.exts), EncodeObjectTail(o)>>)

DecodeObject(type, s) ==
  IF HasExtensions(type) THEN DecodeSubgroupObjectExt(s) ELSE DecodeSubgroupObject(s)
EncodeObject(type, o) ==
  IF HasExtensions(type) THEN EncodeSubgroupObjectExt(o) ELSE EncodeSubgroupObject(o)

-----------------------------------------------------------------------------
(* Entries of a FETCH stream.  An object [group, subgroup, object, priority,  *)
(* exts, len] leaves out what the receiver infers from the prior object.      *)
SUBGROUP_ZERO == 0
SUBGROUP_PRIOR == 1
SUBGROUP_PRIOR_PLUS_ONE == 2
SUBGROUP_PRESENT == 3
OBJECT_ID == 4
GROUP_ID == 8
PRIORITY == 16
EXTENSIONS == 32
DATAGRAM == 64
FIRST_NON_FLAG_VALUE == 128
END_OF_NON_EXISTENT_RANGE == 140
END_OF_UNKNOWN_RANGE == 268

NoSubgroup == -1          \* Forwarding Preference Datagram
NoPrior == [group |-> -1, subgroup |-> NoSubgroup, object |-> -1, priority |-> -1]
PriorOf(o) ==
  [group |-> o.group, subgroup |-> o.subgroup, object |-> o.object, priority |-> o.priority]
Flag(set, flag) == IF set THEN flag ELSE 0
HasFlag(flags, flag) == (flags \div flag) % 2 = 1

\* The object ID follows from the prior object of the same group.
ObjectPresent(prior, o) == prior.group # o.group \/ prior.object # o.object - 1

\* FetchObjectEncoder::encode_object; its prior is PriorOf(o) afterwards.
EncodeFetchObject(prior, o) ==
  LET known == prior # NoPrior
      subgroup == CASE o.subgroup = NoSubgroup -> DATAGRAM
                    [] o.subgroup = 0 -> SUBGROUP_ZERO
                    [] o.subgroup > 0 /\ known /\ prior.subgroup = o.subgroup -> SUBGROUP_PRIOR
                    [] o.subgroup > 0 /\ known /\ prior.subgroup # NoSubgroup
                         /\ prior.subgroup = o.subgroup - 1 -> SUBGROUP_PRIOR_PLUS_ONE
                    [] OTHER -> SUBGROUP_PRESENT
      group == ~known \/ prior.group # o.group
      object == ObjectPresent(prior, o)
      priority == ~known \/ prior.priority # o.priority
      exts == o.exts # <<>>
      flags == subgroup + Flag(group, GROUP_ID) + Flag(object, OBJECT_ID)
               + Flag(priority, PRIORITY) + Flag(exts, EXTENSIONS)
      If(present, r) == IF present THEN <<r>> ELSE <<>>
  IN  EncodeAll(<<EncodeVarInt(flags)>> \o If(group, EncodeVarInt(o.group))
                \o If(subgroup = SUBGROUP_PRESENT, EncodeVarInt(o.subgroup))
                \o If(object, EncodeVarInt(o.object)) \o If(priority, EncodeU8(o.priority))
                \o If(exts, EncodeExtensions(o.exts)) \o <<EncodeVarInt(o.len)>>)

\* FetchObjectEncoder::encode_end_of_range; the prior is forgotten afterwards.
EncodeEndOfRange(kind, l) == EncodeAll(<<EncodeVarInt(kind), EncodeLocation(l)>>)

\* A field that is present, or what follows from the prior object.
Inherited(present, d, prior, inferred) ==
  IF present THEN d ELSE IF prior = NoPrior THEN Err("InvalidValue") ELSE inferred

\* checked_add(1) on a u64
PlusOne(n, s) == IF n = U64Max THEN Err("InvalidValue") ELSE Ok(n + 1, s)

DecodeFetchSubgroup(flags, prior, s) ==
  LET mode == flags % 4
  IN  IF HasFlag(flags, DATAGRAM) THEN Ok(NoSubgroup, s)
      ELSE IF mode = SUBGROUP_ZERO THEN Ok(0, s)
      ELSE IF mode = SUBGROUP_PRESENT THEN DecodeVarInt(s)
      ELSE IF prior = NoPrior \/ prior.subgroup = NoSubgroup THEN Err("InvalidValue")
      ELSE IF mode = SUBGROUP_PRIOR THEN Ok(prior.subgroup, s) ELSE PlusOne(prior.subgroup, s)

\* FetchObjectDecoder::decode_contiguous: the entry, and the prior it leaves.
\* After an end of range the location is the reference, the rest that of the
\* last object.
DecodeFetchEntry(prior, s) ==
  Then(DecodeVarInt(s), LAMBDA flags, s0 :
    IF flags >= FIRST_NON_FLAG_VALUE
    THEN IF flags \notin {END_OF_NON_EXISTENT_RANGE, END_OF_UNKNOWN_RANGE}
         THEN Err("InvalidValue")
         ELSE Then(DecodeLocation(s0), LAMBDA l, rest :
                Ok([entry |-> [kind |-> flags, location |-> l],
                    prior |-> IF prior = NoPrior THEN prior
                              ELSE [prior EXCEPT !.group = l[1], !.object = l[2]]], rest))
    ELSE
    Then(Inherited(HasFlag(flags, GROUP_ID), DecodeVarInt(s0), prior, Ok(prior.group, s0)),
      LAMBDA group, s1 :
    Then(DecodeFetchSubgroup(flags, prior, s1), LAMBDA subgroup, s2 :
    Then(Inherited(HasFlag(flags, OBJECT_ID), DecodeVarInt(s2), prior, PlusOne(prior.object, s2)),
      LAMBDA object, s3 :
    Then(Inherited(HasFlag(flags, PRIORITY), DecodeU8(s3), prior, Ok(prior.priority, s3)),
      LAMBDA priority, s4 :
    Then(IF HasFlag(flags, EXTENSIONS) THEN DecodeExtensions(s4) ELSE Ok(<<>>, s4),
      LAMBDA exts, s5 :
    Then(DecodeVarInt(s5), LAMBDA len, rest :
      LET o == [group |-> group, subgroup |-> subgroup, object |-> object,
                priority |-> priority, exts |-> exts, len |-> len]
      IN  Ok([entry |-> o, prior |-> PriorOf(o)], rest))))))))

-----------------------------------------------------------------------------
(* Object datagrams: [type, alias, group, object, priority, exts, status,     *)
(* payload]; what the type leaves out is 0, <<>> or NormalObject.             *)
DatagramTypes == (0..7) \cup {32, 33}
DatagramHasObjectId(type) == type \in (0..3) \cup {32, 33}
DatagramHasStatus(type) == type \in {32, 33}

EncodeDatagram(d) ==
  EncodeAll(<<EncodeVarInt(d.type), EncodeVarInt(d.alias), EncodeVarInt(d.group)>>
    \o (IF DatagramHasObjectId(d.type) THEN <<EncodeVarInt(d.object)>> ELSE <<>>)
    \o <<EncodeU8(d.priority)>>
    \o (IF ~HasExtensions(d.type) THEN <<>>
        ELSE IF d.exts = <<>> THEN <<Err("InvalidValue")>> ELSE <<EncodeExtensions(d.exts)>>)
    \o (IF ~DatagramHasStatus(d.type) THEN <<Enc(d.payload)>>
        ELSE IF HasExtensions(d.type) /\ d.status # NormalObject THEN <<Err("InvalidValue")>>
        ELSE <<EncodeVarInt(d.status)>>))

DecodeDatagram(s) ==
  Then(DecodeOneOf(s, DatagramTypes, "InvalidDatagramType"), LAMBDA type, s0 :
  Then(DecodeVarInt(s0), LAMBDA alias, s1 :
  Then(DecodeVarInt(s1), LAMBDA group, s2 :
  Then(IF DatagramHasObjectId(type) THEN DecodeVarInt(s2) ELSE Ok(0, s2), LAMBDA object, s3 :
  Then(DecodeU8(s3), LAMBDA priority, s4 :
  Then(IF HasExtensions(type) THEN DecodeExtensions(s4) ELSE Ok(<<>>, s4), LAMBDA exts, s5 :
    IF HasExtensions(type) /\ exts = <<>> THEN Err("InvalidValue") ELSE
    Then(IF DatagramHasStatus(type) THEN DecodeStatus(s5) ELSE Ok(NormalObject, s5),
      LAMBDA status, s6 :
      IF StatusRefused(status, exts) THEN Err("InvalidValue")
      ELSE Ok([type |-> type, alias |-> alias, group |-> group, object |-> object,
               priority |-> priority, exts |-> exts, status |-> status,
               payload |-> IF DatagramHasStatus(type) THEN <<>> ELSE s6], <<>>))))))))
=============================================================================
