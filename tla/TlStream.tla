------------------------------ MODULE TlStream ------------------------------
(***************************************************************************)
(* MTProto::Stream: how a value of a C++ type becomes items on the wire    *)
(* and is read back.  A type is a sequence of names, outermost first; the  *)
(* items are the primitives a stream operator writes, a nested TL value    *)
(* counting as one item (its own operators are checked by themselves).     *)
(* The layout of an operator is the sequence of the members it reads or    *)
(* writes, each with the flags that have to be set.                        *)
(***************************************************************************)
EXTENDS Integers, Sequences, FiniteSets, SequencesExt, TLC

quint32 == <<"quint32">>
quint64 == <<"quint64">>
double == <<"double">>
TLNumber128 == <<"TLNumber128">>
TLNumber256 == <<"TLNumber256">>
QByteArray == <<"QByteArray">>
QString == <<"QString">>
bool == <<"bool">>
TLBool == <<"TLBool">>
Tl(name) == <<name>>
Vector(t) == <<"Vector">> \o t
Ptr(t) == <<"Ptr">> \o t

NoFlags == [x \in {} |-> 0]
NoFields == [x \in {} |-> quint32]
Struct(types, flags, fields) == [types |-> types, flags |-> flags, fields |-> fields]

\* Layouts: members that are always there, and members under a flag.
Nothing == <<>>
Fields(names) == [i \in DOMAIN names |-> [field |-> names[i], need |-> {}]]
When(flag, name) == <<[field |-> name, need |-> {flag}]>>
Cases(types, layout) == [c \in types |-> layout]

\* What an item of type t is on the wire: strings travel as the bytes of their
\* UTF-8 form, a bool as a TLBool, a pointer as what it points to.
WireKind(t) ==
  LET u == IF Head(t) = "Ptr" THEN Tail(t) ELSE t
  IN CASE u = QString -> "QByteArray"
       [] u = bool -> "TLBool"
       [] OTHER -> Head(u)

IsVector(t) == Head(t) = "Vector"
IsStruct(t) == Len(t) = 1 /\ t \notin {quint32, quint64, double, TLNumber128, TLNumber256,
                                     QByteArray, QString, bool, TLBool}

Item(kind, name, bits) == [kind |-> kind, name |-> name, bits |-> bits]
Code(value) == Item("TLValue", value, {})

\* The items written for a member: the name of the member stands for its value,
\* the set of bits is what a flags member carries.
Encode(t, name, bits, n) ==
  IF IsVector(t)
    THEN <<Code("Vector"), Item("quint32", "count", {n})>>
           \o [i \in 1..n |-> Item(WireKind(Tail(t)), name, {i})]
    ELSE <<Item(WireKind(t), name, IF name = "flags" THEN bits ELSE {})>>

IsPresent(item, flags, bits) == \A f \in item.need : flags[f] \in bits

WriteFields(layout, fields, flags, bits, n) ==
  FoldLeft(LAMBDA out, item : out \o IF IsPresent(item, flags, bits)
                                       THEN Encode(fields[item.field], item.field, bits, n)
                                       ELSE <<>>,
           <<>>, layout)

\* Reading one member off the items in; ok turns FALSE where the stream ends
\* early or where the bytes read belong to something else.
TakeOne(in, kind) ==
  IF in # <<>> /\ in[1].kind = kind
    THEN [ok |-> TRUE, value |-> <<in[1]>>, rest |-> Tail(in)]
    ELSE [ok |-> FALSE, value |-> <<>>, rest |-> <<>>]

TakeVector(in, t) ==
  IF ~(Len(in) > 1 /\ in[1] = Code("Vector") /\ in[2].kind = "quint32" /\ in[2].name = "count")
    THEN [ok |-> FALSE, value |-> <<>>, rest |-> <<>>]
    ELSE LET n == CHOOSE k \in in[2].bits : TRUE
             elements == SubSeq(in, 3, Len(in))
         IN IF Len(elements) >= n /\ \A i \in 1..n : elements[i].kind = WireKind(Tail(t))
              THEN [ok |-> TRUE, value |-> SubSeq(elements, 1, n),
                    rest |-> SubSeq(elements, n + 1, Len(elements))]
              ELSE [ok |-> FALSE, value |-> <<>>, rest |-> <<>>]

Take(in, t) == IF IsVector(t) THEN TakeVector(in, t) ELSE TakeOne(in, WireKind(t))

ReadField(acc, item, fields, flags) ==
  IF ~acc.ok \/ ~IsPresent(item, flags, acc.bits) THEN acc
  ELSE LET r == Take(acc.in, fields[item.field])
       IN [ok |-> r.ok, in |-> r.rest, got |-> acc.got \union {<<item.field, r.value>>},
           bits |-> IF item.field = "flags" /\ r.ok THEN r.value[1].bits ELSE acc.bits]

ReadFields(layout, fields, flags, in) ==
  FoldLeft(LAMBDA acc, item : ReadField(acc, item, fields, flags),
           [ok |-> TRUE, in |-> in, got |-> {}, bits |-> {}], layout)

\* What the reader has to end up with: the members that were written.
Content(layout, fields, flags, bits, n) ==
  {<<item.field, Take(Encode(fields[item.field], item.field, bits, n), fields[item.field]).value>> :
     item \in {i \in Range(layout) : IsPresent(i, flags, bits)}}

(***************************************************************************)
(* The bytes of a QByteArray: a length of one byte or of four, the data,   *)
(* and zeros up to the next multiple of four.  Only the bytes of the       *)
(* length are told apart, the others are counted.                          *)
(***************************************************************************)
PackedSize(n) == IF n < 254 THEN 1 ELSE 4

PaddingForAlignment(size) == IF size % 4 # 0 THEN 4 - (size % 4) ELSE 0

WriteLength(n) ==
  IF PackedSize(n) = 1 THEN <<n>>
  ELSE <<254, n % 256, (n \div 256) % 256, (n \div 65536) % 256>>

WriteBytes(n) ==
  [length |-> WriteLength(n), more |-> n + PaddingForAlignment(n + PackedSize(n))]

ReadLength(bytes) ==
  CASE bytes[1] = 254 -> bytes[2] + 256 * bytes[3] + 65536 * bytes[4]
    [] bytes[1] > 254 -> 0
    [] OTHER -> bytes[1]

\* The length read, and how many bytes of the stream are left over (the stream
\* has an error when it is less than zero).
ReadBytes(stream) ==
  LET n == ReadLength(stream.length)
  IN [size |-> n, ok |-> stream.length[1] <= 254 /\ stream.more >= n,
      left |-> stream.more + Len(stream.length)
                 - (n + PackedSize(n) + PaddingForAlignment(n + PackedSize(n)))]
=============================================================================
