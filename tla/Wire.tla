-------------------------------- MODULE Wire --------------------------------
(***************************************************************************)
(* The datagram codecs (proto/control.cpp, proto/block.cpp, wire.hpp): a   *)
(* message is encoded big-endian behind a version and a type, is cut short *)
(* or followed by other bytes on its way, and is given to every decoder of *)
(* a peer of the same or of another protocol version. A decoder's buffer   *)
(* holds zeros behind the datagram.                                        *)
(***************************************************************************)
EXTENDS Integers, Sequences, SequencesExt

CONSTANTS
    ByteBase,      \* values of a byte: 256
    ProtocolVersions,  \* protocol versions in use
    MaskWords,     \* kMaskWords
    MaxItems,      \* most missing blocks, ranges or payload bytes allowed
    MaxExtension,  \* kMaxExtensionBytes
    MaxStray       \* most bytes that follow a datagram

VARIABLES
    from, to,      \* versions of the two ends
    sent,          \* the message encoded: {} before, then {message}
    dgram,         \* the bytes on the wire
    decoded,       \* what the peer's decoders made of them
    learned        \* what the sender learns of the peer's version

wireVars == <<from, to, sent, dgram, decoded, learned>>

VersionMarker == ByteBase - 1          \* kVersionMismatchMarker
Critical(type) == type >= (ByteBase \div 2) * ByteBase  \* kExtensionCritical

MsgTypes == {"Data", "Heartbeat", "Ack", "Nack", "StreamStart", "StreamClose",
             "ResumeRanges", "FileDigest", "Retry", "PathChallenge", "PathResponse"}

TypeCode(type) ==
    CASE type = "Data" -> 0 [] type = "Heartbeat" -> 1 [] type = "Ack" -> 2
      [] type = "Nack" -> 3 [] type = "StreamStart" -> 7 [] type = "StreamClose" -> 11
      [] type = "ResumeRanges" -> 12 [] type = "FileDigest" -> 13
      [] type = "Retry" -> 14 [] type = "PathChallenge" -> 15
      [] type = "PathResponse" -> 16

(* A layout: the widths of the fixed fields, the position of the field     *)
(* that counts the items behind them (0: no items), the widths of an item, *)
(* and the most items allowed.                                             *)
Plain(widths) == [widths |-> widths, count |-> 0, item |-> << >>, limit |-> 0]
Counted(widths, count, item, limit) ==
    [widths |-> widths, count |-> count, item |-> item, limit |-> limit]

DataLayout == Counted(<<2, 8, 1, 2, 8, 8>>, 4, <<1>>, MaxItems)
HeartbeatLayout == Plain(<<2, 8>>)
AckLayout == Plain(<<2, 8>> \o [i \in 1 .. MaskWords |-> 8] \o <<8, 8, 4>>)
NackLayout == Counted(<<2, 2>>, 2, <<8>>, MaxItems)
StreamStartLayout ==
    Counted(<<2, 8, 2, 8, 16, 8, 8, 8, 8, 8, 2>>, 11, <<1>>, MaxExtension)
StreamCloseLayout == Plain(<<2, 8, 1>>)
ResumeRangesLayout == Counted(<<2, 8, 1, 2, 2, 2>>, 6, <<8, 8>>, MaxItems)
DigestLayout == Plain(<<2, 8, 32>>)
RetryLayout == Plain(<<2, 8, 8>>)
PathProbeLayout == Plain(<<2, 8, 8>>)

Layout(type) ==
    CASE type = "Data" -> DataLayout
      [] type = "Heartbeat" -> HeartbeatLayout
      [] type = "Ack" -> AckLayout
      [] type = "Nack" -> NackLayout
      [] type = "StreamStart" -> StreamStartLayout
      [] type = "StreamClose" -> StreamCloseLayout
      [] type = "ResumeRanges" -> ResumeRangesLayout
      [] type = "FileDigest" -> DigestLayout
      [] type = "Retry" -> RetryLayout
      [] type \in {"PathChallenge", "PathResponse"} -> PathProbeLayout

Total(widths) == FoldSeq(+, 0, widths)

(* put_u8 .. put_u64: the width lowest digits of v, the highest first. *)
PutInt(v, width) ==
    LET shifted[k \in 0 .. width] == IF k = 0 THEN v ELSE shifted[k - 1] \div ByteBase
    IN  [i \in 1 .. width |-> shifted[width - i] % ByteBase]

(* get_u8 .. get_u64 of the width bytes behind the first off. *)
Byte(d, i) == IF i <= Len(d) THEN d[i] ELSE 0
GetInt(d, off, width) ==
    LET read[k \in 0 .. width] ==
            IF k = 0 THEN 0 ELSE read[k - 1] * ByteBase + Byte(d, off + k)
    IN  read[width]

PutAll(values, widths) ==
    FlattenSeq([i \in 1 .. Len(widths) |-> PutInt(values[i], widths[i])])

GetAll(d, off, widths) ==
    [i \in 1 .. Len(widths) |->
        GetInt(d, off + Total(SubSeq(widths, 1, i - 1)), widths[i])]

-----------------------------------------------------------------------------
(* An extension area: a sequence of entries, each a type, a length and     *)
(* that many bytes.                                                        *)
AppendExtension(area, ext) ==
    area \o PutInt(ext.type, 2) \o PutInt(Len(ext.value), 2) \o ext.value

(* The offset behind the entry at off; 0 when it is malformed. *)
NextExtension(area, off) ==
    LET len == GetInt(area, off + 2, 2)
    IN  IF off + 4 > Len(area) \/ len > Len(area) - off - 4 THEN 0 ELSE off + 4 + len

ExtensionsAcceptable(area) ==
    LET from0[k \in 0 .. Len(area)] ==  \* the entries from offset Len(area) - k on
            LET off == Len(area) - k
                next == NextExtension(area, off)
            IN  \/ k = 0
                \/ /\ next # 0
                   /\ ~Critical(GetInt(area, off, 2))
                   /\ from0[Len(area) - next]
    IN  from0[Len(area)]

-----------------------------------------------------------------------------
OuterHeader(v, type) == <<v, TypeCode(type)>>

(* What encode_resume_ranges and decode_resume_ranges require of the part. *)
PartFits(type, fields) ==
    type = "ResumeRanges" => fields[5] # 0 /\ fields[4] < fields[5]

Encodable(m) ==
    /\ Len(m.items) <= Layout(m.type).limit
    /\ PartFits(m.type, m.fields)

Encode(v, m) ==
    OuterHeader(v, m.type)
      \o PutAll(m.fields, Layout(m.type).widths)
      \o FlattenSeq([i \in 1 .. Len(m.items) |-> PutAll(m.items[i], Layout(m.type).item)])

(* peek_msg_type and check_outer *)
OuterFits(v, type, d) == Len(d) >= 2 /\ SubSeq(d, 1, 2) = OuterHeader(v, type)

(* What a decoder takes the datagram d for. *)
Read(type, d) ==
    LET L == Layout(type)
        fields == GetAll(d, 2, L.widths)
        n == IF L.count = 0 THEN 0 ELSE fields[L.count]
    IN  [type |-> type, fields |-> fields,
         items |-> [i \in 1 .. n |->
                        GetAll(d, 2 + Total(L.widths) + (i - 1) * Total(L.item), L.item)]]

AreaOf(items) == [i \in 1 .. Len(items) |-> items[i][1]]

(* The decoder that trusts the count field of the message. *)
DecodesUnbounded(v, type, d) ==
    LET L == Layout(type)
        fields == GetAll(d, 2, L.widths)
        n == IF L.count = 0 THEN 0 ELSE fields[L.count]
    IN  /\ OuterFits(v, type, d)
        /\ Len(d) >= 2 + Total(L.widths)
        /\ n <= L.limit
        /\ PartFits(type, fields)
        /\ type = "StreamStart" => ExtensionsAcceptable(AreaOf(Read(type, d).items))

(* The early returns of the decoders. *)
Decodes(v, type, d) ==
    LET L == Layout(type)
        fields == GetAll(d, 2, L.widths)
        n == IF L.count = 0 THEN 0 ELSE fields[L.count]
    IN  /\ OuterFits(v, type, d)
        /\ Len(d) >= 2 + Total(L.widths)
        /\ n <= L.limit
        /\ Len(d) >= 2 + Total(L.widths) + n * Total(L.item)
        /\ PartFits(type, fields)
        /\ type = "StreamStart" => ExtensionsAcceptable(AreaOf(Read(type, d).items))

IsForeignVersion(v, d) == Len(d) >= 2 /\ d[1] # v /\ d[2] # VersionMarker
VersionMismatch(v) == <<v, VersionMarker, v>>
DecodesMismatch(v, d) ==
    Len(d) >= 3 /\ d[2] = VersionMarker /\ d[1] = d[3] /\ d[1] # v

-----------------------------------------------------------------------------
(* The messages sent: every field has a value of its own, small or past    *)
(* one byte; items are as many as allowed or fewer; an extension area      *)
(* holds known, unknown and critical entries.                              *)
FieldValues(widths, seed) ==
    [i \in 1 .. Len(widths) |->
        IF widths[i] = 1 THEN (seed + i) % ByteBase ELSE seed * ByteBase + i]

Extensions == {[type |-> t, value |-> v] : t \in {1, (ByteBase \div 2) * ByteBase},
                                           v \in {<< >>, <<ByteBase - 1>>}}
ExtensionLists == BoundedSeq(Extensions, 2)
Area(exts) == FoldLeft(AppendExtension, << >>, exts)

Items(type, seed) ==
    LET L == Layout(type)
    IN  IF type = "StreamStart"
        THEN {[i \in 1 .. Len(Area(x)) |-> <<Area(x)[i]>>] : x \in ExtensionLists}
        ELSE {[i \in 1 .. n |-> FieldValues(L.item, seed + i)] :
                 n \in 0 .. (IF L.count = 0 THEN 0 ELSE L.limit)}

Message(type, seed, items) ==
    LET L == Layout(type)
        fields == FieldValues(L.widths, seed)
    IN  [type |-> type, items |-> items,
         fields |-> IF L.count = 0 THEN fields ELSE [fields EXCEPT ![L.count] = Len(items)]]

WireInit ==
    /\ from \in ProtocolVersions
    /\ to \in ProtocolVersions
    /\ sent = {}
    /\ dgram = << >>
    /\ decoded = {}
    /\ learned = {}

SendMessage ==
    /\ sent = {}
    /\ \E type \in MsgTypes, seed \in 0 .. 1 : \E items \in Items(type, seed) :
           LET m == Message(type, seed, items)
           IN  /\ Encodable(m)
               /\ sent' = {m}
               /\ dgram' = Encode(from, m)
    /\ UNCHANGED <<from, to, decoded, learned>>

(* Nothing of the message is missing. *)
Whole == \A m \in sent : IsPrefix(Encode(from, m), dgram)

(* The receiver's buffer is shorter than the datagram. *)
CutShort ==
    /\ sent # {}
    /\ decoded = {} /\ learned = {}
    /\ \E m \in sent : dgram = Encode(from, m)
    /\ \E n \in 0 .. Len(dgram) - 1 : dgram' = SubSeq(dgram, 1, n)
    /\ UNCHANGED <<from, to, sent, decoded, learned>>

(* Bytes behind the message, such as a control trailer. *)
Follow ==
    /\ sent # {}
    /\ decoded = {} /\ learned = {}
    /\ \E m \in sent : Len(dgram) - Len(Encode(from, m)) \in 0 .. MaxStray - 1
    /\ dgram' = Append(dgram, ByteBase - 1)
    /\ UNCHANGED <<from, to, sent, decoded, learned>>

(* Every decoder of the peer sees the datagram. *)
Decode ==
    /\ sent # {}
    /\ decoded = {} /\ learned = {}
    /\ decoded' = {Read(t, dgram) : t \in {u \in MsgTypes : Decodes(to, u, dgram)}}
    /\ UNCHANGED <<from, to, sent, dgram, learned>>

(* A peer of another version answers with its own, the sender reads it,    *)
(* and neither end answers the answer (-1: it would).                    *)
AnswerForeign ==
    /\ sent # {}
    /\ decoded = {} /\ learned = {}
    /\ IsForeignVersion(to, dgram)
    /\ learned' = {v \in {to} : DecodesMismatch(from, VersionMismatch(v))}
                  \union {v \in {-1} : IsForeignVersion(from, VersionMismatch(to))}
    /\ UNCHANGED <<from, to, sent, dgram, decoded>>

WireNext == SendMessage \/ CutShort \/ Follow \/ Decode \/ AnswerForeign

WireSpec == WireInit /\ [][WireNext]_wireVars

-----------------------------------------------------------------------------
(* A StreamStart whose extensions this version may ignore. *)
Understood(m) ==
    m.type = "StreamStart" =>
        \E exts \in ExtensionLists : /\ Area(exts) = AreaOf(m.items)
                                     /\ \A e \in Range(exts) : ~Critical(e.type)

(* A decoder yields the message that was encoded or nothing: the decoder   *)
(* of another type, of another version, or of a datagram that lost its     *)
(* end yields nothing, and one that gets it whole yields it, whatever      *)
(* follows it and unless its extensions hold a critical one. A peer of     *)
(* another version is told the receiver's version and does not answer the  *)
(* answer (control.cpp and block.cpp, the encode_ and decode_ pairs).      *)
DecodedAsSent ==
    /\ decoded \subseteq sent
    /\ decoded # {} => from = to /\ Whole
    /\ learned # {} => from # to /\ learned = {to}
    /\ from = to /\ Whole =>
           \A m \in sent : Decodes(to, m.type, dgram) <=> Understood(m)
=============================================================================
