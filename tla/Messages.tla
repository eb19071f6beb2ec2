------------------------------ MODULE Messages ------------------------------
(***************************************************************************)
(* The messages of the trackers and their wire format                      *)
(* (server/tracker_protocol.pb.cc and .pb.h), and records of messages in a *)
(* KeyValuesPair (server/protofile.cc).                                    *)
(*                                                                         *)
(* The generated code repeats the list of a class's fields in each of its  *)
(* functions.  Here each list is taken from the function it belongs to,    *)
(* and one operator per function works on the lists of all classes: the    *)
(* properties compare them.                                                *)
(*                                                                         *)
(* The wire is a sequence of bytes.  A number is -1, which takes ten       *)
(* bytes, or less than 128 and takes one; so does every length and tag.    *)
(***************************************************************************)
EXTENDS Integers, SequencesExt, FiniteSetsExt

CONSTANTS
  MaxFields,      \* fields set in the first message
  MaxFieldsThere  \* fields set in the second one

ASSUME MessagesAssumption == MaxFields \in Nat /\ MaxFieldsThere \in Nat

VARIABLES class, here, there  \* two messages of one class

-----------------------------------------------------------------------------
(* Accessors: the bit of a field in _has_bits_ (0 for a repeated field) and *)
(* its default.                                                             *)
Number(bit, default) == [bit |-> bit, default |-> default, string |-> FALSE]
String(bit) == [bit |-> bit, default |-> <<>>, string |-> TRUE]
Repeated == [bit |-> 0, default |-> <<>>, string |-> FALSE]

KeyValuePairFields == <<String(1), String(2)>>
KeyValuesPairFields == <<String(1), Repeated>>
FdcsTaskFields == <<String(1), Number(2, 0), Repeated>>
TrackerStatusNames == <<String(1), Number(2, 0), Number(3, 0)>>
TrackerStatusTimes == <<String(4), String(5)>>
TrackerStatusNumbers == [i \in 1 .. 5 |-> Number(i + 5, 0)]
TrackerProtocolNumbers == [i \in 1 .. 4 |-> Number(i, 0)]
TrackerProtocolRequest == <<String(5), String(6)>>
TrackerProtocolResponse == <<String(7), Number(8, -1), String(9)>>
TrackerProtocolRepeated == <<Repeated, Repeated>>

Fields ==
  [KeyValuePair |-> KeyValuePairFields,
   KeyValuesPair |-> KeyValuesPairFields,
   FdcsTask |-> FdcsTaskFields,
   TrackerStatus |-> TrackerStatusNames \o TrackerStatusTimes \o TrackerStatusNumbers,
   TrackerProtocol |-> TrackerProtocolNumbers \o TrackerProtocolRequest
                       \o TrackerProtocolResponse \o TrackerProtocolRepeated]
Classes == DOMAIN Fields
IsRepeated(c, n) == Fields[c][n].bit = 0

TrackerType_IsValid(value) == value \in 0 .. 3
ProtocolType_IsValid(value) == value \in 0 .. 15

\* MergePartialFromCodedStream: the tags in the order of their cases, and what
\* each is read as
KeyValuePairTags == <<<<10, "bytes">>, <<18, "bytes">>>>
KeyValuesPairTags == <<<<10, "bytes">>, <<18, "bytes">>>>
FdcsTaskTags == <<<<10, "bytes">>, <<16, "number">>, <<26, "KeyValuesPair">>>>
TrackerStatusTags ==
  <<<<10, "bytes">>, <<16, "bool">>, <<24, "TrackerType">>, <<34, "bytes">>, <<42, "bytes">>,
    <<48, "number">>, <<56, "number">>, <<64, "number">>, <<72, "number">>, <<80, "number">>>>
\* Mutant of TrackerProtocolTags: a tag of the wrong wire type.
TrackerProtocolWrongTag ==
  <<<<8, "number">>, <<16, "number">>, <<24, "ProtocolType">>, <<32, "TrackerType">>,
    <<42, "bytes">>, <<50, "bytes">>, <<58, "bytes">>, <<66, "number">>, <<74, "bytes">>,
    <<82, "TrackerStatus">>, <<90, "KeyValuesPair">>>>
TrackerProtocolTags ==
  <<<<8, "number">>, <<16, "number">>, <<24, "ProtocolType">>, <<32, "TrackerType">>,
    <<42, "bytes">>, <<50, "bytes">>, <<58, "bytes">>, <<64, "number">>, <<74, "bytes">>,
    <<82, "TrackerStatus">>, <<90, "KeyValuesPair">>>>
Tags == [KeyValuePair |-> KeyValuePairTags, KeyValuesPair |-> KeyValuesPairTags,
         FdcsTask |-> FdcsTaskTags, TrackerStatus |-> TrackerStatusTags,
         TrackerProtocol |-> TrackerProtocolTags]

\* SerializeWithCachedSizes and SerializeWithCachedSizesToArray: the fields in
\* the order they are written, with the writer's type
KeyValuePairWritten == <<<<1, "bytes">>, <<2, "bytes">>>>
KeyValuesPairWritten == <<<<1, "bytes">>, <<2, "bytes">>>>
FdcsTaskWritten == <<<<1, "bytes">>, <<2, "number">>, <<3, "KeyValuesPair">>>>
TrackerStatusWritten ==
  <<<<1, "bytes">>, <<2, "bool">>, <<3, "TrackerType">>, <<4, "bytes">>, <<5, "bytes">>,
    <<6, "number">>, <<7, "number">>, <<8, "number">>, <<9, "number">>, <<10, "number">>>>
TrackerProtocolWritten ==
  <<<<1, "number">>, <<2, "number">>, <<3, "ProtocolType">>, <<4, "TrackerType">>,
    <<5, "bytes">>, <<6, "bytes">>, <<7, "bytes">>, <<8, "number">>, <<9, "bytes">>,
    <<10, "TrackerStatus">>, <<11, "KeyValuesPair">>>>
Written == [KeyValuePair |-> KeyValuePairWritten, KeyValuesPair |-> KeyValuesPairWritten,
            FdcsTask |-> FdcsTaskWritten, TrackerStatus |-> TrackerStatusWritten,
            TrackerProtocol |-> TrackerProtocolWritten]

\* ByteSize: the type each field is measured as
KeyValuePairSized == <<"bytes", "bytes">>
KeyValuesPairSized == <<"bytes", "bytes">>
FdcsTaskSized == <<"bytes", "number", "KeyValuesPair">>
TrackerStatusSized ==
  <<"bytes", "bool", "number", "bytes", "bytes", "number", "number", "number", "number",
    "number">>
TrackerProtocolSized ==
  <<"number", "number", "number", "number", "bytes", "bytes", "bytes", "number", "bytes",
    "TrackerStatus", "KeyValuesPair">>
Sized == [KeyValuePair |-> KeyValuePairSized, KeyValuesPair |-> KeyValuesPairSized,
          FdcsTask |-> FdcsTaskSized, TrackerStatus |-> TrackerStatusSized,
          TrackerProtocol |-> TrackerProtocolSized]

\* MergeFrom: the fields below each test of eight bits of _has_bits_
KeyValuePairMerged == <<{1, 2}>>
KeyValuesPairMerged == <<{1}>>
FdcsTaskMerged == <<{1, 2}>>
TrackerStatusMerged == <<1 .. 8, {9, 10}>>
\* Mutant of TrackerProtocolMerged: the second eight bits are forgotten.
TrackerProtocolMergedLow == <<1 .. 8>>
TrackerProtocolMerged == <<1 .. 8, {9}>>
Merged == [KeyValuePair |-> KeyValuePairMerged, KeyValuesPair |-> KeyValuesPairMerged,
           FdcsTask |-> FdcsTaskMerged, TrackerStatus |-> TrackerStatusMerged,
           TrackerProtocol |-> TrackerProtocolMerged]

\* Clear: likewise
KeyValuePairCleared == <<{1, 2}>>
KeyValuesPairCleared == <<{1}>>
FdcsTaskCleared == <<{1, 2}>>
TrackerStatusCleared == <<1 .. 8, {9, 10}>>
TrackerProtocolCleared == <<1 .. 8, {9}>>
Cleared == [KeyValuePair |-> KeyValuePairCleared, KeyValuesPair |-> KeyValuesPairCleared,
            FdcsTask |-> FdcsTaskCleared, TrackerStatus |-> TrackerStatusCleared,
            TrackerProtocol |-> TrackerProtocolCleared]

\* IsInitialized: the mask _has_bits_ is compared with
FdcsTaskRequired == {1}
TrackerProtocolRequired == {1}
Required == [KeyValuePair |-> {}, KeyValuesPair |-> {}, FdcsTask |-> FdcsTaskRequired,
             TrackerStatus |-> {}, TrackerProtocol |-> TrackerProtocolRequired]

-----------------------------------------------------------------------------
(* Messages in memory *)

NewMessage(c) ==
  [has |-> {}, value |-> [n \in DOMAIN Fields[c] |-> Fields[c][n].default], unknown |-> <<>>]

Has(c, m, n) == Fields[c][n].bit \in m.has

\* set_x, mutable_x; a repeated field is added to
SetField(c, m, n, v) ==
  IF IsRepeated(c, n) THEN [m EXCEPT !.value[n] = Append(@, v)]
  ELSE [m EXCEPT !.value[n] = v, !.has = @ \cup {Fields[c][n].bit}]

\* clear_x, release_x
ClearField(c, m, n) ==
  [m EXCEPT !.value[n] = Fields[c][n].default, !.has = @ \ {Fields[c][n].bit}]

\* the fields below a test of eight bits that succeeds
Tested(groups, m) ==
  UNION {groups[g] : g \in {g \in DOMAIN groups : \E bit \in 8 * g - 7 .. 8 * g : bit \in m.has}}

\* a string is emptied if its own bit is set, a number in any case
Clear(c, m) ==
  [has |-> {}, unknown |-> <<>>,
   value |-> [n \in DOMAIN Fields[c] |->
                IF IsRepeated(c, n) THEN <<>>
                ELSE IF n \in Tested(Cleared[c], m) /\ (Fields[c][n].string => Has(c, m, n))
                THEN Fields[c][n].default ELSE m.value[n]]]

MergeFrom(c, m, from) ==
  LET set == {n \in Tested(Merged[c], from) : Has(c, from, n)}
  IN  [has |-> m.has \cup {Fields[c][n].bit : n \in set},
       unknown |-> m.unknown \o from.unknown,
       value |-> [n \in DOMAIN Fields[c] |->
                    IF IsRepeated(c, n) THEN m.value[n] \o from.value[n]
                    ELSE IF n \in set THEN from.value[n] ELSE m.value[n]]]

CopyFrom(c, m, from) == MergeFrom(c, Clear(c, m), from)
IsInitialized(c, m) == Required[c] \subseteq m.has

-----------------------------------------------------------------------------
(* The wire *)

\* CodedOutputStream::WriteVarint32 and WriteVarint64SignExtended
Varint(v) == IF v = -1 THEN [i \in 1 .. 10 |-> IF i < 10 THEN 255 ELSE 1] ELSE <<v>>
Scalars == {"number", "bool", "TrackerType", "ProtocolType"}
WireType(type) == IF type \in Scalars THEN 0 ELSE 2

RECURSIVE ByteSize(_, _)
\* the bytes of one value, its tag apart
SizeOf(type, v) ==
  CASE type = "bool" -> 1
    [] type = "number" -> IF v < 0 THEN 10 ELSE 1
    [] type = "bytes" -> 1 + Len(v)
    [] OTHER -> 1 + ByteSize(type, v)
ByteSize(c, m) ==
  MapThenSumSet(LAMBDA n :
      IF IsRepeated(c, n)
      THEN Len(m.value[n])
           + MapThenSumSet(LAMBDA i : SizeOf(Sized[c][n], m.value[n][i]), DOMAIN m.value[n])
      ELSE IF Has(c, m, n) THEN 1 + SizeOf(Sized[c][n], m.value[n]) ELSE 0,
    DOMAIN Fields[c]) + Len(m.unknown)

RECURSIVE Serialize(_, _)
\* a nested message is preceded by the size ByteSize cached
Encoded(n, type, v) ==
  <<8 * n + WireType(type)>> \o
  (IF type \in Scalars THEN Varint(v)
   ELSE IF type = "bytes" THEN <<Len(v)>> \o v
   ELSE <<ByteSize(type, v)>> \o Serialize(type, v))
Serialize(c, m) ==
  FlattenSeq([i \in DOMAIN Written[c] |->
    LET n == Written[c][i][1]
        type == Written[c][i][2]
    IN  IF IsRepeated(c, n)
        THEN FlattenSeq([k \in DOMAIN m.value[n] |-> Encoded(n, type, m.value[n][k])])
        ELSE IF Has(c, m, n) THEN Encoded(n, type, m.value[n]) ELSE <<>>])
  \o m.unknown

\* the bytes up to the first one below 128, at most ten; 0 if there is no end
VarintLen(w) ==
  LET ends == {k \in 1 .. Len(w) : k <= 10 /\ w[k] < 128} IN IF ends = {} THEN 0 ELSE Min(ends)

\* One field taken off the wire: ok, its bytes, its value, and the rest.  A cut
\* string or message is read as far as it goes.
TakeField(w) ==
  LET body == Tail(w)
      length == VarintLen(body)
      scalar == w[1] % 8 = 0
      size == IF scalar \/ body = <<>> THEN 0 ELSE body[1]
      ends == IF Len(w) < length + size + 1 THEN Len(w) ELSE length + size + 1
  IN  [ok |-> length > 0 /\ (~scalar => Len(body) >= 1 + size),
       number |-> IF length = 1 THEN body[1] ELSE -1,
       bytes |-> SubSeq(w, length + 2, ends),
       raw |-> SubSeq(w, 1, ends),
       rest |-> SubSeq(w, ends + 1, Len(w))]

CaseOf(c, tag) == SelectInSeq(Tags[c], LAMBDA entry : entry[1] = tag)

\* the message as far as it was read, and whether all of it was
RECURSIVE MergePartialFromCodedStream(_, _, _)
\* one field read into m; the string or message exists before it is read
Stored(c, m, n, type, field) ==
  CASE type = "bytes" -> SetField(c, m, n, field.bytes)
    [] type = "TrackerType" /\ ~TrackerType_IsValid(field.number) ->
         [m EXCEPT !.unknown = @ \o field.raw]
    [] type = "ProtocolType" /\ ~ProtocolType_IsValid(field.number) ->
         [m EXCEPT !.unknown = @ \o field.raw]
    [] type \in Scalars -> SetField(c, m, n, field.number)
    [] OTHER -> SetField(c, m, n,
                  MergePartialFromCodedStream(type, NewMessage(type), field.bytes).message)
MergePartialFromCodedStream(c, m, w) ==
  LET field == TakeField(w)
      i == CaseOf(c, w[1])
      type == IF i = 0 THEN "unknown" ELSE Tags[c][i][2]
      next == IF i = 0 THEN [m EXCEPT !.unknown = @ \o field.raw]
              ELSE Stored(c, m, w[1] \div 8, type, field)
      read == /\ field.ok
              /\ type \in Classes =>
                   MergePartialFromCodedStream(type, NewMessage(type), field.bytes).ok
  IN  IF w = <<>> THEN [ok |-> TRUE, message |-> m]
      ELSE IF read THEN MergePartialFromCodedStream(c, next, field.rest)
      ELSE [ok |-> FALSE, message |-> IF type \in Scalars \cup {"unknown"} THEN m ELSE next]

ParseFromString(c, w) ==
  LET r == MergePartialFromCodedStream(c, NewMessage(c), w)
  IN  [r EXCEPT !.ok = @ /\ IsInitialized(c, r.message)]

\* WriteRecord and ReadRecord of protofile.cc: messages as the values of a pair;
\* the result of the parse is not looked at
WriteRecord(pairs, c, m) == SetField("KeyValuesPair", pairs, 2, Serialize(c, m))
ReadRecord(pairs, c) ==
  [i \in DOMAIN pairs.value[2] |-> ParseFromString(c, pairs.value[2][i]).message]

-----------------------------------------------------------------------------
(* Two messages of a class, and what happens to them *)

MessagesInit ==
  /\ class \in Classes
  /\ here = NewMessage(class)
  /\ there = NewMessage(class)

TypeOf(c, n) == Tags[c][n][2]

\* some values a field may be given
ValuesOf(type) ==
  CASE type = "number" -> {1, -1}
    [] type = "bool" -> {0, 1}
    [] type = "TrackerType" -> {2}
    [] type = "ProtocolType" -> {15}
    [] type = "bytes" -> {<<>>, <<65, 66>>}
    [] OTHER -> {NewMessage(type), SetField(type, NewMessage(type), 1, <<67>>)}

\* fields of a later version of the protocol, and an enumerator this one lacks
Unknowns(c) == {<<120, 1>>} \cup (IF c = "TrackerProtocol" THEN {<<24, 99>>, <<32, 99>>} ELSE {})

Weight(c, m) ==
  Cardinality(m.has) + Len(m.unknown) \div 2
  + MapThenSumSet(LAMBDA n : IF IsRepeated(c, n) THEN Len(m.value[n]) ELSE 0, DOMAIN m.value)

Assign(h, t) ==
  /\ Weight(class, h) <= MaxFields
  /\ Weight(class, t) <= MaxFieldsThere
  /\ here' = h /\ there' = t /\ class' = class

Edit ==
  \E n \in DOMAIN Fields[class] :
    \/ \E v \in ValuesOf(TypeOf(class, n)) :
         \/ Assign(SetField(class, here, n, v), there)
         \/ Assign(here, SetField(class, there, n, v))
    \/ Assign(ClearField(class, here, n), there)

MergeMessages == Assign(MergeFrom(class, here, there), there)
CopyMessage == Assign(CopyFrom(class, here, there), there)
ClearMessage == Assign(Clear(class, here), there)
Swap == Assign(there, here)
Receive ==
  \E tail \in {<<>>} \cup Unknowns(class) :
    LET r == ParseFromString(class, Serialize(class, there) \o tail)
    IN  Assign(r.message, there)

MessagesNext == Edit \/ MergeMessages \/ CopyMessage \/ ClearMessage \/ Swap \/ Receive

-----------------------------------------------------------------------------
(* Properties *)

\* Serialize, ByteSize, Parse, ReadRecord and WriteRecord: whatever was set,
\* cleared, merged, copied, swapped or received before, a message is read back as
\* it was, unset fields with their defaults and fields of later versions included;
\* ByteSize foretells its length; and the parse fails exactly when a required
\* field is missing.
RoundTrip ==
  /\ LET w == Serialize(class, here)
         r == ParseFromString(class, w)
     IN  /\ r.message = here
         /\ r.ok <=> IsInitialized(class, here)
         /\ Len(w) = ByteSize(class, here)
  /\ ReadRecord(WriteRecord(WriteRecord(NewMessage("KeyValuesPair"), class, here), class, there),
                class) = <<here, there>>

RECURSIVE IsPart(_, _, _)
\* "part" is what was read of m when the bytes ended early
IsPart(c, part, m) ==
  /\ part.has \subseteq m.has
  /\ IsPrefix(part.unknown, m.unknown)
  /\ \A n \in DOMAIN Fields[c] :
       LET some == part.value[n]
           all == m.value[n]
           last == Len(some)
       IN  IF IsRepeated(c, n)
           THEN some = <<>>
                \/ /\ last <= Len(all)
                   /\ IsPrefix(Front(some), all)
                   /\ IF TypeOf(c, n) = "bytes" THEN IsPrefix(some[last], all[last])
                      ELSE IsPart(TypeOf(c, n), some[last], all[last])
           ELSE Has(c, part, n) =>
                  IF TypeOf(c, n) = "bytes" THEN IsPrefix(some, all) ELSE some = all

\* SocketThread parses whatever one read returned and ignores the result of the
\* parse (tracker.cc:467).  When a read returned two messages it handles their
\* merge, as EpollReadMerges of MasterElection has it; when it returned the
\* beginning of one it handles a message with nothing in it that was not sent,
\* but strings, lists and nested messages may be cut.
ReadsMayMergeOrCut ==
  LET w == Serialize(class, here)
  IN  /\ MergePartialFromCodedStream(class, NewMessage(class), w \o Serialize(class, there)).message
           = MergeFrom(class, here, there)
      /\ \A k \in 0 .. Len(w) :
           IsPart(class, ParseFromString(class, SubSeq(w, 1, k)).message, here)
=============================================================================
