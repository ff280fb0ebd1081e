----------------------------- MODULE WireFormat -----------------------------
(***************************************************************************)
(* The bytes of a message: how message.cpp writes one into a bytestream    *)
(* and reads one out of it.  Decoding has three outcomes: a value, a       *)
(* message_error, and "undefined" for a read past the end of the buffer.   *)
(*                                                                         *)
(* The messages of the program nest no deeper than a list of records, and  *)
(* the writers stop there; the readers follow any nesting they meet.  What *)
(* is iterated is a function, so that it can be reasoned about: a reader   *)
(* is handed to another one as the function of its stream.                 *)
(***************************************************************************)
EXTENDS Message, FiniteSets

CONSTANTS
  MaxString,   \* the longest text that can be sent (255 in the code)
  MaxKeys,     \* the most keys an object can have (255)
  SanitizeAt   \* the offset above which a bytestream drops what was read (100)

ASSUME LengthsFit ==
  MaxString \in 0..255 /\ MaxKeys \in 0..255 /\ SanitizeAt \in Nat

Byte == 0..255

TypeCode ==
  [INT8 |-> 1, INT16 |-> 2, INT32 |-> 3, UINT8 |-> 17, UINT16 |-> 18,
   UINT32 |-> 19, CHAR |-> 33, STRING |-> 34, SUB_OBJECT |-> 49, LIST |-> 65]

Width ==
  [INT8 |-> 1, INT16 |-> 2, INT32 |-> 4, UINT8 |-> 1, UINT16 |-> 2,
   UINT32 |-> 4, CHAR |-> 1]

Signed == {"INT8", "INT16", "INT32", "CHAR"}

-----------------------------------------------------------------------------
(* Writing.                                                                *)

\* What a byte counts in a number of four bytes.
Weight == <<16777216, 65536, 256, 1>>

\* Mutant: the bytes are sent in the order the host has them in.
DigitsUnordered(v, w) == [i \in 1..w |-> (v \div Weight[5 - i]) % 256]

\* v in w bytes, two's complement, the most significant byte first.
Digits(v, w) == [i \in 1..w |-> (v \div Weight[4 - w + i]) % 256]

Text(t) == <<Len(t)>> \o t

\* An empty arg_list has the type of a default arg.
ListType(items) == IF items = <<>> THEN "INT8" ELSE items[1].type

\* The keys of an object in the order of std::map.
Keys(obj) ==
  LET upto(k) == {l \in DOMAIN obj : l[1] <= k[1]}
  IN [i \in 1..Cardinality(DOMAIN obj) |->
        CHOOSE k \in DOMAIN obj : Cardinality(upto(k)) = i]

\* send_one and send_list, given the bytes of the values inside.
ObjectBody(obj, body) ==
  <<Cardinality(DOMAIN obj)>> \o
  FlattenSeq([i \in DOMAIN Keys(obj) |->
    LET k == Keys(obj)[i] IN
    Text(k) \o <<TypeCode[obj[k].type]>> \o body[k]])

ListBody(items, bodies) ==
  <<TypeCode[ListType(items)]>> \o Digits(Len(items), 4) \o FlattenSeq(bodies)

\* A value without its type byte: a number or a text, an item of a list, the
\* value of a key of the message.
Scalar(a) ==
  IF a.type = "STRING" THEN Text(a.val) ELSE Digits(a.val, Width[a.type])

Item(a) ==
  IF a.type = "SUB_OBJECT"
  THEN ObjectBody(a.val, [k \in DOMAIN a.val |-> Scalar(a.val[k])])
  ELSE Scalar(a)

Body(a) ==
  IF a.type = "LIST"
  THEN ListBody(a.val, [i \in DOMAIN a.val |-> Item(a.val[i])])
  ELSE Item(a)

Magic == <<46, 67>>
Version == <<0, 1>>

Encode(m) ==
  Magic \o Version \o Text(m.cmd) \o
  ObjectBody(m.args, [k \in DOMAIN m.args |-> Body(m.args[k])])

\* No part of a value is too long for its length byte; otherwise encoding it
\* throws message_error.
TextFits(t) == Len(t) <= MaxString

KeysFit(obj) ==
  Cardinality(DOMAIN obj) <= MaxKeys /\ \A k \in DOMAIN obj : TextFits(k)

ScalarFits(a) == a.type = "STRING" => TextFits(a.val)

ItemFits(a) ==
  IF a.type = "SUB_OBJECT"
  THEN KeysFit(a.val) /\ \A k \in DOMAIN a.val : ScalarFits(a.val[k])
  ELSE ScalarFits(a)

Sendable(a) ==
  IF a.type = "LIST" THEN \A i \in DOMAIN a.val : ItemFits(a.val[i])
                     ELSE ItemFits(a)

Encodable(m) ==
  /\ TextFits(m.cmd) /\ KeysFit(m.args)
  /\ \A k \in DOMAIN m.args : Sendable(m.args[k])

-----------------------------------------------------------------------------
(* Reading.  A stream is [data, offset]; each reader returns its value and *)
(* the stream it leaves, or how it failed.                                 *)

Stream == [data : Seq(Byte), offset : Nat]

Value(v, s) == [st |-> "value", v |-> v, s |-> s]
Failed == [st |-> "error"]
Undefined == [st |-> "undefined"]

Then(r, Next(_, _)) == IF r.st = "value" THEN Next(r.v, r.s) ELSE r

\* Mutant: the offset is kept although the bytes before it are dropped.
SanitizeKeepsOffset(s) ==
  IF s.offset > SanitizeAt
  THEN [data |-> SubSeq(s.data, s.offset + 1, Len(s.data)),
        offset |-> s.offset]
  ELSE s

Sanitize(s) ==
  IF s.offset > SanitizeAt
  THEN [data |-> SubSeq(s.data, s.offset + 1, Len(s.data)), offset |-> 0]
  ELSE s

\* operator>>: one byte, without a look at the size of the buffer.
Extract(s) ==
  IF s.offset < Len(s.data)
  THEN Value(s.data[s.offset + 1], Sanitize([s EXCEPT !.offset = @ + 1]))
  ELSE Undefined

\* read n times: what was read after the first, the second, ...
Reads(n, read, s) ==
  LET first[i \in 0..n] ==
        IF i = 0 THEN Value(<<>>, s)
        ELSE Then(first[i - 1], LAMBDA vs, s1 :
               Then(read[s1], LAMBDA v, s2 : Value(Append(vs, v), s2)))
  IN first

Repeat(n, read, s) == Reads(n, read, s)[n]

Extracts == [s \in Stream |-> Extract(s)]

\* bytestream::read stops at the end of the buffer; the bytes it did not
\* fill are zero.
Bytes(n, s) ==
  LET got == IF Len(s.data) - s.offset < n THEN Len(s.data) - s.offset ELSE n
  IN Value([i \in 1..n |-> IF i <= got THEN s.data[s.offset + i] ELSE 0],
           [s EXCEPT !.offset = @ + got])

\* Its bytes as a number of the type, the first with the sign.
Number(type, b) ==
  LET top == IF type \in Signed /\ b[1] >= 128 THEN b[1] - 256 ELSE b[1]
  IN CASE Width[type] = 1 -> top
       [] Width[type] = 2 -> top * 256 + b[2]
       [] OTHER -> ((top * 256 + b[2]) * 256 + b[3]) * 256 + b[4]

ReadNumber(type, s) ==
  Then(Bytes(Width[type], s), LAMBDA b, s1 : Value(Number(type, b), s1))

ReadString(s) ==
  Then(Extract(s), LAMBDA n, s1 :
    Then(Repeat(n, Extracts, s1), LAMBDA t, s2 : Value(CString(t), s2)))

\* The readers of what has values inside: value[code] reads one of that type.
ReadEntry(value, s) ==
  Then(ReadString(s), LAMBDA k, s1 :
    Then(Extract(s1), LAMBDA code, s2 :
      Then(value[code][s2], LAMBDA a, s3 : Value(<<k, a>>, s3))))

\* A later entry for a key replaces an earlier one.
AsObject(entries) ==
  [k \in {entries[i][1] : i \in DOMAIN entries} |->
     entries[CHOOSE i \in DOMAIN entries :
               /\ entries[i][1] = k
               /\ \A j \in DOMAIN entries : entries[j][1] = k => j <= i][2]]

ReadObject(value, s) ==
  Then(Extract(s), LAMBDA n, s1 :
    Then(Repeat(n, [s2 \in Stream |-> ReadEntry(value, s2)], s1),
         LAMBDA es, s2 : Value(AsObject(es), s2)))

\* Mutant: the size of a list is read as one byte.
ReadListNarrow(value, s) ==
  Then(Extract(s), LAMBDA code, s1 :
    Then(ReadNumber("UINT8", s1), LAMBDA n, s2 : Repeat(n, value[code], s2)))

ReadList(value, s) ==
  Then(Extract(s), LAMBDA code, s1 :
    Then(ReadNumber("UINT32", s1), LAMBDA n, s2 : Repeat(n, value[code], s2)))

ReadType(type, value, s) ==
  CASE type = "STRING" -> ReadString(s)
    [] type = "SUB_OBJECT" -> ReadObject(value, s)
    [] type = "LIST" -> ReadList(value, s)
    [] OTHER -> ReadNumber(type, s)

ReadCode(code, value, s) ==
  IF \A t \in DOMAIN TypeCode : TypeCode[t] # code THEN Failed
  ELSE LET type == CHOOSE t \in DOMAIN TypeCode : TypeCode[t] = code
       IN Then(ReadType(type, value, s), LAMBDA v, s1 : Value(Arg(type, v), s1))

\* read_value for values that nest less than d deep, d up to n.  It calls
\* itself for the values inside, each behind a byte at least.
ReadValues(n) ==
  LET deep[d \in 0..n] ==
        IF d = 0 THEN [code \in Byte |-> [s \in Stream |-> Failed]]
        ELSE [code \in Byte |->
                [s \in Stream |-> ReadCode(code, deep[d - 1], s)]]
  IN deep

ReadValue(n) == ReadValues(n)[n]

\* The constructor of message, which leaves what follows the message unread.
Decode(data) ==
  Then(Repeat(2, Extracts, [data |-> data, offset |-> 0]), LAMBDA magic, s1 :
    IF magic # Magic THEN Failed ELSE
    Then(Repeat(2, Extracts, s1), LAMBDA version, s2 :
      IF \/ version[1] > Version[1]
         \/ version[1] = Version[1] /\ version[2] > Version[2]
      THEN Failed ELSE
      Then(ReadString(s2), LAMBDA cmd, s3 :
        Then(ReadObject(ReadValue(Len(data)), s3), LAMBDA args, s4 :
          Value([cmd |-> cmd, args |-> args], s4)))))

=============================================================================
