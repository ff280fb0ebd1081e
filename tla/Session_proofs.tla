--------------------------- MODULE Session_proofs ---------------------------
(***************************************************************************)
(* Proofs about Session for every length of a read, all texts, numbers,    *)
(* lengths of answers and limits of the wire format.                       *)
(*                                                                         *)
(* - What the program makes of a message object, it makes of it at the     *)
(*   other end again (the to() and from() of requests.hpp).                *)
(* - Every request and answer is a message of WireFormat_proofs, whose     *)
(*   bytes are read back.                                                  *)
(* - The bytes carry out what Connection promises, cut or not.             *)
(* - Request and answer arrive as they were sent for as long as no message *)
(*   exceeds a read.                                                       *)
(***************************************************************************)
EXTENDS Session, WireFormat_proofs

-----------------------------------------------------------------------------
(* Names and the conversion of objects.                                    *)

FieldNames ==
  {"chan_id", "cnt", "data", "desc", "id", "members", "msg_cnt", "msgs",
   "mutual_channels", "name", "new_pass", "owner_id", "pass", "reason",
   "sender", "token", "uid", "user", "when"}

\* The fields of an answer, be it a refusal.
FieldsOf(cmd, asks) == IF cmd = "ok" THEN AnswerFields[asks] ELSE {"reason"}

\* Every name the protocol fixes has its place in Names.
LEMMA NameListed ==
  ASSUME NEW k \in FieldNames \cup Commands \cup {"ok", "err"}
  PROVE  \E i \in DOMAIN Names : Names[i] = k
<1>1. k \in FieldNames => \E i \in 1..19 : Names[i] = k
  BY DEF Names, FieldNames
<1>2. k \in Commands \cup {"ok", "err"} => \E i \in 20..32 : Names[i] = k
  BY DEF Names, Commands, RequestFields
<1>3. DOMAIN Names = 1..32
  BY DEF Names
<1>4. QED
  BY <1>1, <1>2, <1>3

LEMMA NameBack ==
  ASSUME NEW k \in FieldNames \cup Commands \cup {"ok", "err"}
  PROVE  Names[Name(k)[1]] = k
<1>1. \E i \in DOMAIN Names : Names[i] = k
  BY NameListed
<1>2. Names[CHOOSE i \in DOMAIN Names : Names[i] = k] = k
  BY <1>1, Zenon
<1>3. QED
  BY <1>2 DEF Name

LEMMA NamesDiffer ==
  ASSUME NEW j \in FieldNames \cup Commands \cup {"ok", "err"},
         NEW k \in FieldNames \cup Commands \cup {"ok", "err"},
         Name(j) = Name(k)
  PROVE  j = k
BY NameBack

LEMMA KnownFields ==
  /\ \A c \in Commands : RequestFields[c] \subseteq FieldNames
  /\ \A c \in Commands : AnswerFields[c] \subseteq FieldNames
  /\ \A k \in DOMAIN ItemFields : ItemFields[k] \subseteq FieldNames
<1>1. \A c \in Commands : RequestFields[c] \subseteq FieldNames
  BY DEF Commands, RequestFields, FieldNames
<1>2. \A c \in Commands : AnswerFields[c] \subseteq FieldNames
  BY DEF Commands, RequestFields, AnswerFields, FieldNames
<1>3. \A k \in DOMAIN ItemFields : ItemFields[k] \subseteq FieldNames
  BY DEF ItemFields, FieldNames
<1>4. QED
  BY <1>1, <1>2, <1>3

\* The object that stands for a record has each field under its name.
LEMMA NamedField ==
  ASSUME NEW obj, DOMAIN obj \subseteq FieldNames, NEW k \in DOMAIN obj
  PROVE  /\ Name(k) \in DOMAIN Named(Field, obj)
         /\ Named(Field, obj)[Name(k)] = Field(k, obj[k])
<1>1. Names[Name(k)[1]] = k
  BY NameBack
<1>2. QED
  BY <1>1, Zenon DEF Named

LEMMA NamedSimple ==
  ASSUME NEW obj, DOMAIN obj \subseteq FieldNames, NEW k \in DOMAIN obj
  PROVE  /\ Name(k) \in DOMAIN Named(Simple, obj)
         /\ Named(Simple, obj)[Name(k)] = Simple(k, obj[k])
<1>1. Names[Name(k)[1]] = k
  BY NameBack
<1>2. QED
  BY <1>1, Zenon DEF Named

\* What a field of an object holds: a list of records, a list of numbers, a
\* description that is absent or not empty, or anything else.
Function(f) == f = [i \in DOMAIN f |-> f[i]]

Holds(k, v) ==
  /\ k \in DOMAIN ItemFields =>
       /\ Function(v)
       /\ \A i \in DOMAIN v : Function(v[i]) /\ DOMAIN v[i] = ItemFields[k]
  /\ k \in {"members", "mutual_channels"} => Function(v)
  /\ k = "desc" => v = <<>> \/ \E t : v = <<t>> /\ t # <<>>

LEMMA FieldBack ==
  ASSUME NEW k \in FieldNames, NEW v, Holds(k, v)
  PROVE  /\ Field(k, v).type = TypeOf(k)
         /\ ItemsFit(k, Field(k, v).val)
         /\ Plain(k, Field(k, v).val) = v
<1>1. CASE k \in DOMAIN ItemFields
  <2> DEFINE Elem(i) == Arg("SUB_OBJECT", Named(Simple, v[i]))
  <2>2. TypeOf(k) = "LIST"
    BY <1>1 DEF ItemFields, TypeOf
  <2>3. k \notin {"members", "mutual_channels"} /\ k # "desc"
    BY <1>1 DEF ItemFields
  <2>1. Field(k, v) = Arg("LIST", [i \in DOMAIN v |-> Elem(i)])
    BY <1>1, <2>3, Zenon DEF Field
  <2>4. /\ Field(k, v).type = "LIST"
        /\ Field(k, v).val = [i \in DOMAIN v |-> Elem(i)]
    BY <2>1 DEF Arg
  <2>5. ASSUME NEW i \in DOMAIN v, NEW f \in ItemFields[k]
        PROVE  /\ Name(f) \in DOMAIN Elem(i).val
               /\ Elem(i).val[Name(f)].type = TypeOf(f)
               /\ Elem(i).val[Name(f)].val = v[i][f]
    <3>1. DOMAIN v[i] = ItemFields[k] /\ ItemFields[k] \subseteq FieldNames
      BY <1>1, KnownFields DEF Holds
    <3>2. Elem(i).val = Named(Simple, v[i])
      BY DEF Arg
    <3>3. /\ Name(f) \in DOMAIN Named(Simple, v[i])
          /\ Named(Simple, v[i])[Name(f)] = Simple(f, v[i][f])
      BY <3>1, NamedSimple
    <3>4. /\ Simple(f, v[i][f]).type = TypeOf(f)
          /\ Simple(f, v[i][f]).val = v[i][f]
      BY DEF Simple, Arg
    <3> HIDE DEF Elem
    <3>5. QED
      BY <3>2, <3>3, <3>4
  <2>6. ItemsFit(k, Field(k, v).val)
    <3>1. \A i \in DOMAIN v : /\ Elem(i).type = "SUB_OBJECT"
                              /\ HasArgs(ItemFields[k], Elem(i).val)
      BY <2>5 DEF HasArgs, Arg
    <3> HIDE DEF Elem
    <3>2. \A i \in DOMAIN Field(k, v).val :
             /\ Field(k, v).val[i].type = "SUB_OBJECT"
             /\ HasArgs(ItemFields[k], Field(k, v).val[i].val)
      BY <2>4, <3>1
    <3>3. QED
      BY <1>1, <2>3, <3>2, Zenon DEF ItemsFit
  <2>7. Plain(k, Field(k, v).val) = v
    <3> HIDE DEF Elem
    <3>1. Plain(k, Field(k, v).val) =
            [i \in DOMAIN v |-> [f \in ItemFields[k] |-> Elem(i).val[Name(f)].val]]
      BY <1>1, <2>3, <2>4, Zenon DEF Plain
    <3>2. \A i \in DOMAIN v :
            [f \in ItemFields[k] |-> Elem(i).val[Name(f)].val] = v[i]
      <4> SUFFICES ASSUME NEW i \in DOMAIN v
                   PROVE  [f \in ItemFields[k] |-> Elem(i).val[Name(f)].val] = v[i]
        OBVIOUS
      <4>1. v[i] = [f \in ItemFields[k] |-> v[i][f]]
        BY <1>1 DEF Holds, Function
      <4>2. \A f \in ItemFields[k] : Elem(i).val[Name(f)].val = v[i][f]
        BY <2>5
      <4>3. QED
        BY <4>1, <4>2
    <3>3. v = [i \in DOMAIN v |-> v[i]]
      BY <1>1 DEF Holds, Function
    <3>4. QED
      BY <3>1, <3>2, <3>3
  <2>8. QED
    BY <2>2, <2>4, <2>6, <2>7
<1>2. CASE k \in {"members", "mutual_channels"}
  <2>1. k \notin DOMAIN ItemFields
    BY <1>2 DEF ItemFields
  <2>2. Field(k, v) = Arg("LIST", [i \in DOMAIN v |-> Arg("INT32", v[i])])
    BY <1>2, <2>1, Zenon DEF Field
  <2>3. TypeOf(k) = "LIST"
    BY <1>2 DEF TypeOf
  <2>4. /\ Field(k, v).type = "LIST"
        /\ Field(k, v).val = [i \in DOMAIN v |-> Arg("INT32", v[i])]
    BY <2>2 DEF Arg
  <2>5. ItemsFit(k, Field(k, v).val)
    BY <1>2, <2>1, <2>4 DEF ItemsFit, Arg
  <2>6. Plain(k, Field(k, v).val) = [i \in DOMAIN v |-> v[i]]
    BY <1>2, <2>1, <2>4 DEF Plain, Arg
  <2>7. QED
    BY <1>2, <2>3, <2>4, <2>5, <2>6 DEF Holds, Function
<1>3. CASE k = "desc"
  <2>1. /\ k \notin DOMAIN ItemFields
        /\ k \notin {"members", "mutual_channels"}
    BY <1>3 DEF ItemFields
  <2>2. v = <<>> \/ \E t : v = <<t>> /\ t # <<>>
    BY <1>3 DEF Holds
  <2>3. Field(k, v) = Arg("STRING", IF v = <<>> THEN <<>> ELSE v[1])
    BY <1>3, <2>1 DEF Field
  <2>4. QED
    BY <1>3, <2>1, <2>2, <2>3 DEF Arg, TypeOf, ItemsFit, Plain
<1>4. CASE k \notin DOMAIN ItemFields \cup {"members", "mutual_channels", "desc"}
  <2>1. Field(k, v) = Arg(TypeOf(k), v)
    BY <1>4 DEF Field, Simple
  <2>2. QED
    BY <1>4, <2>1 DEF Arg, ItemsFit, Plain
<1>5. QED
  BY <1>1, <1>2, <1>3, <1>4

\* from() takes back the object of which to() made a message, all of it.
LEMMA ObjectBack ==
  ASSUME NEW fields \in SUBSET FieldNames,
         NEW args, Function(args), DOMAIN args = fields,
         \A k \in fields : Holds(k, args[k]),
         NEW cmd
  PROVE  /\ Convertible(fields, To(cmd, args).args)
         /\ From(fields, To(cmd, args).args) = args
<1>1. To(cmd, args).args = Named(Field, args)
  BY DEF To
<1>2. ASSUME NEW k \in fields
      PROVE  /\ Name(k) \in DOMAIN To(cmd, args).args
             /\ To(cmd, args).args[Name(k)] = Field(k, args[k])
  BY <1>1, NamedField
<1>3. Convertible(fields, To(cmd, args).args)
  BY <1>2, FieldBack DEF Convertible, HasArgs
<1>4. \A k \in fields : Plain(k, To(cmd, args).args[Name(k)].val) = args[k]
  BY <1>2, FieldBack
<1>5. From(fields, To(cmd, args).args) = [k \in fields |-> args[k]]
  BY <1>4, Zenon DEF From
<1>6. QED
  BY <1>3, <1>5 DEF Function

\* An object of which ObjectBack speaks.
Proper(fields, args) ==
  /\ Function(args) /\ DOMAIN args = fields
  /\ \A k \in fields : Holds(k, args[k])

LEMMA ProperFill ==
  ASSUME NEW fields \in SUBSET FieldNames, NEW i, NEW p, NEW n
  PROVE  Proper(fields, Fill(fields, i, p, n))
<1> DEFINE args == Fill(fields, i, p, n)
<1>1. Function(args) /\ DOMAIN args = fields
  BY DEF Function, Fill
<1>2. ASSUME NEW k \in fields
      PROVE  Holds(k, args[k])
  <2>1. CASE k = "data"
    <3>1. TypeOf(k) # "INT32"
      BY <2>1 DEF TypeOf
    <3>2. args[k] = [j \in 1..n |-> [id |-> i + j, name |-> p[1]]]
      BY <2>1, <3>1 DEF Fill
    <3>3. \A j \in 1..n : LET r == [id |-> i + j, name |-> p[1]] IN
                          Function(r) /\ DOMAIN r = {"id", "name"}
      BY DEF Function
    <3>4. QED
      BY <2>1, <3>2, <3>3 DEF Holds, Function, ItemFields
  <2>2. CASE k = "msgs"
    <3>1. TypeOf(k) # "INT32"
      BY <2>2 DEF TypeOf
    <3>2. args[k] = [j \in 1..n |-> [sender |-> i, when |-> j, cnt |-> p[1]]]
      BY <2>2, <3>1 DEF Fill
    <3>3. \A j \in 1..n :
            LET r == [sender |-> i, when |-> j, cnt |-> p[1]] IN
            Function(r) /\ DOMAIN r = {"sender", "when", "cnt"}
      BY DEF Function
    <3>4. QED
      BY <2>2, <3>2, <3>3 DEF Holds, Function, ItemFields
  <2>3. CASE k \in {"members", "mutual_channels"}
    <3>1. TypeOf(k) # "INT32"
      BY <2>3 DEF TypeOf
    <3>2. args[k] = [j \in 1..n |-> i + j]
      BY <2>3, <3>1 DEF Fill
    <3>3. QED
      BY <2>3, <3>2 DEF Holds, Function, ItemFields
  <2>4. CASE k = "desc"
    <3>1. TypeOf(k) # "INT32"
      BY <2>4 DEF TypeOf
    <3>2. args[k] = IF p[2] = <<>> THEN <<>> ELSE <<p[2]>>
      BY <2>4, <3>1 DEF Fill
    <3>3. QED
      BY <2>4, <3>2 DEF Holds, ItemFields
  <2>5. CASE k \notin {"data", "msgs", "members", "mutual_channels", "desc"}
    BY <2>5 DEF Holds, ItemFields
  <2>6. QED
    BY <2>1, <2>2, <2>3, <2>4, <2>5
<1>3. QED
  BY <1>1, <1>2 DEF Proper

\* What a NUL inside a text leaves of it at the other end.
CutText(k, v) ==
  CASE TypeOf(k) # "STRING" -> v
    [] k = "desc" -> IF v = <<>> \/ CString(v[1]) = <<>> THEN <<>>
                     ELSE <<CString(v[1])>>
    [] OTHER -> CString(v)

Received(r) == Call(r.cmd, [k \in DOMAIN r.args |-> CutText(k, r.args[k])])

LEMMA ProperReceived ==
  ASSUME NEW r, Proper(DOMAIN r.args, r.args)
  PROVE  /\ Proper(DOMAIN r.args, Received(r).args)
         /\ Received(r).cmd = r.cmd
<1> DEFINE args == Received(r).args
           fields == DOMAIN r.args
<1>1. args = [k \in fields |-> CutText(k, r.args[k])] /\ Received(r).cmd = r.cmd
  BY DEF Received, Call
<1>2. Function(args) /\ DOMAIN args = fields
  BY <1>1 DEF Function
<1>3. ASSUME NEW k \in fields
      PROVE  Holds(k, args[k])
  <2>1. args[k] = CutText(k, r.args[k]) /\ Holds(k, r.args[k])
    BY <1>1 DEF Proper
  <2>2. CASE k = "desc"
    <3>1. TypeOf(k) = "STRING"
      BY <2>2 DEF TypeOf
    <3>2. QED
      BY <2>1, <2>2, <3>1 DEF CutText, Holds, ItemFields
  <2>3. CASE k \in {"data", "msgs", "members", "mutual_channels"}
    <3>1. TypeOf(k) # "STRING"
      BY <2>3 DEF TypeOf
    <3>2. args[k] = r.args[k]
      BY <2>1, <2>3, <3>1 DEF CutText
    <3>3. QED
      BY <2>1, <3>2
  <2>4. CASE k \notin {"data", "msgs", "members", "mutual_channels", "desc"}
    BY <2>4 DEF Holds, ItemFields
  <2>5. QED
    BY <2>2, <2>3, <2>4
<1>4. QED
  BY <1>1, <1>2, <1>3 DEF Proper

\* The requests and answers that occur are such objects, also where a NUL cut
\* a text of a request.
LEMMA RequestShape ==
  ASSUME NEW r \in Requests
  PROVE  /\ r.cmd \in Commands
         /\ r = Call(r.cmd, r.args)
         /\ Proper(RequestFields[r.cmd], r.args)
<1>1. PICK c \in Commands, i \in Ints, p \in Texts :
        r = Call(c, Fill(RequestFields[c], i, p, 0))
  BY DEF Requests
<1>2. r.cmd = c /\ r.args = Fill(RequestFields[c], i, p, 0)
  BY <1>1 DEF Call
<1>3. QED
  BY <1>1, <1>2, ProperFill, KnownFields

LEMMA AnswerShape ==
  ASSUME NEW c \in Commands, NEW a \in Answers[c]
  PROVE  /\ a.cmd \in {"ok", "err"}
         /\ a = Call(a.cmd, a.args)
         /\ Proper(FieldsOf(a.cmd, c), a.args)
         /\ a \in AllAnswers
<1>1. a \in AllAnswers
  BY DEF AllAnswers, Answers, Range
<1>2. CASE a \in Refusals
  <2>1. PICK p \in Stored : a = Call("err", [reason |-> p[1]])
    BY <1>2 DEF Refusals
  <2>2. a.cmd = "err" /\ a.args = [reason |-> p[1]]
    BY <2>1 DEF Call
  <2>3. Function(a.args) /\ DOMAIN a.args = {"reason"}
    BY <2>2 DEF Function
  <2>4. QED
    BY <1>1, <2>1, <2>2, <2>3 DEF Proper, FieldsOf, Holds, ItemFields
<1>3. CASE a \notin Refusals
  <2>1. PICK i \in Ints, p \in Stored, n \in 0..MaxItems :
          a = Call("ok", Fill(AnswerFields[c], i, p, n))
    BY <1>3 DEF Answers
  <2>2. a.cmd = "ok" /\ a.args = Fill(AnswerFields[c], i, p, n)
    BY <2>1 DEF Call
  <2>3. QED
    BY <1>1, <2>1, <2>2, ProperFill, KnownFields DEF FieldsOf
<1>4. QED
  BY <1>2, <1>3

\* What requests.hpp makes of a request or an answer (to()), it takes back
\* from the message at the other end (from()): every field, list and record.
\* No number, text or command is mistaken for another one on the way.
THEOREM ObjectsComeBack ==
  /\ \A r \in Requests :
       LET m == To(r.cmd, Received(r).args) IN
       /\ \A c \in Commands : m.cmd = Name(c) => c = r.cmd
       /\ Convertible(RequestFields[r.cmd], m.args)
       /\ From(RequestFields[r.cmd], m.args) = Received(r).args
  /\ \A c \in Commands : \A a \in Answers[c] :
       LET m == To(a.cmd, a.args) IN
       /\ m.cmd = Name("ok") <=> a.cmd = "ok"
       /\ Convertible(FieldsOf(a.cmd, c), m.args)
       /\ From(FieldsOf(a.cmd, c), m.args) = a.args
<1>1. \A cmd, args : To(cmd, args).cmd = Name(cmd)
  BY DEF To
<1>2. ASSUME NEW r \in Requests
      PROVE  LET m == To(r.cmd, Received(r).args) IN
             /\ \A c \in Commands : m.cmd = Name(c) => c = r.cmd
             /\ Convertible(RequestFields[r.cmd], m.args)
             /\ From(RequestFields[r.cmd], m.args) = Received(r).args
  <2>1. r.cmd \in Commands /\ Proper(RequestFields[r.cmd], r.args)
    BY RequestShape
  <2>2. Proper(RequestFields[r.cmd], Received(r).args)
    BY <2>1, ProperReceived DEF Proper
  <2>3. RequestFields[r.cmd] \in SUBSET FieldNames
    BY <2>1, KnownFields
  <2>4. \A c \in Commands : Name(r.cmd) = Name(c) => c = r.cmd
    BY <2>1, NamesDiffer
  <2>5. LET m == To(r.cmd, Received(r).args) IN
        /\ Convertible(RequestFields[r.cmd], m.args)
        /\ From(RequestFields[r.cmd], m.args) = Received(r).args
    BY <2>2, <2>3, ObjectBack DEF Proper
  <2>6. QED
    BY <1>1, <2>4, <2>5
<1>3. ASSUME NEW c \in Commands, NEW a \in Answers[c]
      PROVE  LET m == To(a.cmd, a.args) IN
             /\ m.cmd = Name("ok") <=> a.cmd = "ok"
             /\ Convertible(FieldsOf(a.cmd, c), m.args)
             /\ From(FieldsOf(a.cmd, c), m.args) = a.args
  <2>1. a.cmd \in {"ok", "err"} /\ Proper(FieldsOf(a.cmd, c), a.args)
    BY AnswerShape
  <2>2. FieldsOf(a.cmd, c) \in SUBSET FieldNames
    BY KnownFields DEF FieldsOf, FieldNames
  <2>3. Name(a.cmd) = Name("ok") <=> a.cmd = "ok"
    BY <2>1, NamesDiffer
  <2>4. /\ Convertible(FieldsOf(a.cmd, c), To(a.cmd, a.args).args)
        /\ From(FieldsOf(a.cmd, c), To(a.cmd, a.args).args) = a.args
    BY <2>1, <2>2, ObjectBack DEF Proper
  <2>5. QED
    BY <1>1, <2>3, <2>4
<1>4. QED
  BY <1>2, <1>3

-----------------------------------------------------------------------------
(* What is sent are messages of the wire format.                           *)

\* SessionAssumption in the form in which it is used below.
LEMMA Limits ==
  /\ MaxRead \in Nat
  /\ MaxItems \in Nat /\ MaxItems <= 2147483647
  /\ \A i \in Ints : i \in Int /\ -2147483648 <= i /\ i + MaxItems <= 2147483647
BY SessionAssumption, SMT

\* The numbers of four bytes.
LEMMA Counted ==
  /\ \A v : v \in Numbers("INT32")
              <=> v \in Int /\ -2147483648 <= v /\ v <= 2147483647
  /\ \A v : v \in Numbers("UINT32")
              <=> v \in Int /\ 0 <= v /\ v <= 4294967295
<1>1. ASSUME NEW h \in Int, h = Half[Width["INT32"]], NEW v
      PROVE  v \in Numbers("INT32") <=> v \in Int /\ -h <= v /\ v <= h - 1
  BY <1>1, SMT DEF Numbers, Signed
<1>2. ASSUME NEW h \in Int, h = Half[Width["UINT32"]], NEW v
      PROVE  v \in Numbers("UINT32") <=> v \in Int /\ 0 <= v /\ v <= 2 * h - 1
  BY <1>2, SMT DEF Numbers, Signed
<1>3. PICK h \in Int : h = 2147483648
  BY SMT
<1>4. h = Half[Width["INT32"]] /\ h = Half[Width["UINT32"]]
  BY <1>3, SMT DEF Half, Width
<1>5. \A v : v \in Numbers("INT32") <=> v \in Int /\ -h <= v /\ v <= h - 1
  BY <1>1, <1>4, Zenon
<1>6. \A v : v \in Numbers("UINT32") <=> v \in Int /\ 0 <= v /\ v <= 2 * h - 1
  BY <1>2, <1>4, Zenon
<1> QED
  BY <1>3, <1>5, <1>6, SMT

\* The numbers of an answer: its id, the ids counted up from it, the times.
LEMMA CountedUp ==
  ASSUME NEW i \in Ints, NEW n \in 0..MaxItems, NEW j \in 1..n
  PROVE  /\ i \in Numbers("INT32") /\ i + j \in Numbers("INT32")
         /\ j \in Numbers("UINT32") /\ n \in Numbers("UINT32")
<1>1. /\ MaxItems \in Nat /\ MaxItems <= 2147483647
      /\ i \in Int /\ -2147483648 <= i /\ i + MaxItems <= 2147483647
  BY Limits, SMT
<1>2. j \in Int /\ n \in Int /\ 1 <= j /\ j <= n /\ n <= MaxItems
  BY <1>1, SMT
<1> QED
  BY <1>1, <1>2, Counted, SMT

\* Names are texts of one byte that is not 0.
LEMMA NameIsText ==
  ASSUME NEW k \in FieldNames \cup Commands \cup {"ok", "err"}
  PROVE  Name(k) \in NameTexts
<1>1. \E i \in DOMAIN Names : Names[i] = k
  BY NameListed
<1>2. (CHOOSE i \in DOMAIN Names : Names[i] = k) \in DOMAIN Names
  BY <1>1, Zenon
<1>3. DOMAIN Names \subseteq 1..255
  BY DEF Names
<1> QED
  BY <1>2, <1>3, Zenon DEF Name, NameTexts

\* What is left of a text has no NUL, so nothing more is cut of it.
LEMMA CStringCuts ==
  ASSUME NEW t \in Seq(Byte)
  PROVE  CString(t) \in Seq(Byte) /\ 0 \notin Range(CString(t))
<1>1. CASE 0 \notin Range(t)
  BY <1>1 DEF CString
<1>2. CASE 0 \in Range(t)
  <2> DEFINE I == {i \in 1..Len(t) : t[i] = 0}
             m == SelectInSeq(t, LAMBDA c : c = 0)
  <2>1. I \in SUBSET Nat /\ I # {}
    BY <1>2 DEF Range
  <2>2. PICK l \in I : \A k \in I : l <= k
    BY <2>1, Least, Zenon
  <2>3. m \in I /\ \A k \in I : m <= k
    <3>1. m = IF I # {} THEN Min(I) ELSE 0
      BY Zenon DEF SelectInSeq
    <3>2. Min(I) \in I /\ \A k \in I : Min(I) <= k
      BY <2>2, Zenon DEF Min
    <3> HIDE DEF I, m
    <3> QED
      BY <2>1, <3>1, <3>2
  <2>4. CString(t) = SubSeq(t, 1, m - 1)
    BY <1>2, Zenon DEF CString
  <2>5. m \in 1..Len(t) /\ \A k \in 1..(m - 1) : t[k] # 0
    <3> HIDE DEF m
    <3>1. m \in 1..Len(t) /\ m \in Int /\ Len(t) \in Nat
      BY <2>3
    <3> QED
      BY <2>3, <3>1
  <2> HIDE DEF I, m
  <2>6. /\ SubSeq(t, 1, m - 1) \in Seq(Byte)
        /\ Len(SubSeq(t, 1, m - 1)) = m - 1
        /\ \A i \in 1..(m - 1) : SubSeq(t, 1, m - 1)[i] = t[i]
    BY <2>5
  <2>7. DOMAIN SubSeq(t, 1, m - 1) = 1..(m - 1)
    BY <2>5, <2>6
  <2> QED
    BY <2>4, <2>5, <2>6, <2>7 DEF Range
<1> QED
  BY <1>1, <1>2

LEMMA CStringAgain ==
  ASSUME NEW t \in Seq(Byte)
  PROVE  CString(CString(t)) = CString(t)
<1>1. 0 \notin Range(CString(t))
  BY CStringCuts
<1> DEFINE u == CString(t)
<1> HIDE DEF u
<1>2. 0 \notin Range(u) => CString(u) = u
  BY DEF CString
<1> QED
  BY <1>1, <1>2, Zenon DEF u

\* Numbers and texts as items of a list and as values of a key.
LEMMA ScalarStands ==
  ASSUME NEW a, IsScalar(a)
  PROVE  IsItem(a) /\ IsBody(a) /\ CutItem(a) = CutScalar(a) /\ CutBody(a) = CutScalar(a)
<1>1. a.type # "SUB_OBJECT" /\ a.type # "LIST"
  BY SMT DEF IsScalar, Width
<1>2. CutItem(a) = CutScalar(a)
  BY <1>1, Zenon DEF CutItem
<1>3. CutBody(a) = CutScalar(a)
  BY <1>1, <1>2, Zenon DEF CutBody
<1> QED
  BY <1>2, <1>3, Zenon DEF IsItem, IsBody

\* What arrives of a text, of a number, of a record without NULs, and of a list
\* of items that arrive as they are.
LEMMA TextStands ==
  ASSUME NEW t \in Seq(Byte)
  PROVE  /\ IsScalar(Arg("STRING", t))
         /\ CutScalar(Arg("STRING", t)) = Arg("STRING", CString(t))
<1>1. Arg("STRING", t).type = "STRING" /\ Arg("STRING", t).val = t
  BY DEF Arg
<1> QED
  BY <1>1, Zenon DEF IsScalar, CutScalar

LEMMA NumberStands ==
  ASSUME NEW type \in {"INT32", "UINT32"}, NEW v \in Numbers(type)
  PROVE  /\ IsScalar(Arg(type, v))
         /\ CutScalar(Arg(type, v)) = Arg(type, v)
<1>1. Arg(type, v).type = type /\ Arg(type, v).val = v
  BY DEF Arg
<1>2. type \in DOMAIN Width /\ type # "STRING"
  BY SMT DEF Width
<1> QED
  BY <1>1, <1>2, Zenon DEF IsScalar, CutScalar

LEMMA RecordStands ==
  ASSUME NEW row, DOMAIN row \subseteq FieldNames,
         \A f \in DOMAIN row : /\ IsScalar(Simple(f, row[f]))
                               /\ CutScalar(Simple(f, row[f])) = Simple(f, row[f])
  PROVE  LET a == Arg("SUB_OBJECT", Named(Simple, row)) IN
         IsItem(a) /\ CutItem(a) = a
<1> DEFINE obj == Named(Simple, row)
           a == Arg("SUB_OBJECT", obj)
<1>1. DOMAIN obj = {Name(f) : f \in DOMAIN row}
  BY Zenon DEF Named
<1>2. DOMAIN obj \subseteq NameTexts
  BY <1>1, NameIsText
<1>3. \A n \in DOMAIN obj : IsScalar(obj[n]) /\ CutScalar(obj[n]) = obj[n]
  <2> SUFFICES ASSUME NEW n \in DOMAIN obj
               PROVE  IsScalar(obj[n]) /\ CutScalar(obj[n]) = obj[n]
    BY Zenon
  <2>1. PICK f \in DOMAIN row : n = Name(f)
    BY <1>1
  <2>2. obj[n] = Simple(f, row[f])
    BY <2>1, NamedSimple, Zenon
  <2> QED
    BY <2>2, Zenon
<1>4. obj = [n \in DOMAIN obj |-> obj[n]]
  <2>1. \E S, g : obj = [n \in S |-> g[n]]
    <3> DEFINE S == {Name(f) : f \in DOMAIN row}
               g == [n \in S |-> Simple(Names[n[1]], row[Names[n[1]]])]
    <3>1. obj = g
      BY Zenon DEF Named
    <3>2. g = [n \in S |-> g[n]]
      BY Zenon
    <3> QED
      BY <3>1, <3>2, Zenon
  <2> HIDE DEF obj
  <2> QED
    BY <2>1, Zenon
<1>5. a.type = "SUB_OBJECT" /\ a.val = obj
  BY DEF Arg
<1>6. IsItem(a)
  BY <1>2, <1>3, <1>5, Zenon DEF IsItem
<1>7. CutItem(a) = Arg("SUB_OBJECT", [n \in DOMAIN obj |-> CutScalar(obj[n])])
  BY <1>5, Zenon DEF CutItem
<1>8. [n \in DOMAIN obj |-> CutScalar(obj[n])] = [n \in DOMAIN obj |-> obj[n]]
  BY <1>3, Zenon
<1>9. CutItem(a) = a
  BY <1>4, <1>7, <1>8, Zenon
<1> QED
  BY <1>6, <1>9, Zenon

LEMMA ListStands ==
  ASSUME NEW n \in Nat, n \in Numbers("UINT32"), NEW type \in DOMAIN TypeCode,
         NEW items, items = [j \in 1..n |-> items[j]],
         \A j \in 1..n : /\ IsItem(items[j]) /\ CutItem(items[j]) = items[j]
                         /\ items[j].type = type
  PROVE  LET a == Arg("LIST", items) IN IsBody(a) /\ CutBody(a) = a
<1> DEFINE a == Arg("LIST", items)
<1>1. a.type = "LIST" /\ a.val = items
  BY DEF Arg
<1>2. DOMAIN items = 1..n /\ Len(items) = n /\ items \in Seq(Range(items))
  <2>1. DOMAIN items = 1..n
    BY Zenon
  <2>2. \A j \in 1..n : items[j] \in Range(items)
    BY <2>1 DEF Range
  <2>3. items \in [1..n -> Range(items)]
    BY <2>1, <2>2, Zenon
  <2> QED
    BY <2>1, <2>3
<1>3. Alike(items)
  <2> SUFFICES ASSUME NEW i \in 1..n
               PROVE  items[i].type \in DOMAIN TypeCode /\ items[i].type = ListType(items)
    BY <1>2, Zenon DEF Alike
  <2>1. items # <<>> /\ 1 \in 1..n
    BY <1>2, EmptySeq
  <2>2. ListType(items) = items[1].type
    BY <2>1, Zenon DEF ListType
  <2> QED
    BY <2>1, <2>2, Zenon
<1>4. IsBody(a)
  BY <1>1, <1>2, <1>3, Zenon DEF IsBody
<1>5. CutBody(a) = Arg("LIST", [i \in DOMAIN items |-> CutItem(items[i])])
  BY <1>1, Zenon DEF CutBody
<1>6. [i \in DOMAIN items |-> CutItem(items[i])] = items
  <2>1. [i \in 1..n |-> CutItem(items[i])] = [i \in 1..n |-> items[i]]
    BY Zenon
  <2> QED
    BY <1>2, <2>1, Zenon
<1> QED
  BY <1>4, <1>5, <1>6, Zenon

\* A field with this value is sent as it is, but for what follows a NUL.
Travels(k, v) ==
  /\ IsBody(Field(k, v))
  /\ CutBody(Field(k, v)) = Field(k, CutText(k, v))

\* The fields that hold lists.
Lists == {"data", "msgs", "members", "mutual_channels"}

\* Each kind of field: numbers and texts, a description, lists.
LEMMA SimpleTravels ==
  ASSUME NEW k \in FieldNames \ (Lists \cup {"desc"}), NEW v,
         \/ TypeOf(k) = "INT32" /\ v \in Numbers("INT32")
         \/ TypeOf(k) = "STRING" /\ v \in Seq(Byte)
  PROVE  Travels(k, v)
<1>1. k \notin DOMAIN ItemFields \cup {"members", "mutual_channels", "desc"}
  BY DEF ItemFields, Lists
<1>2. \A u : Field(k, u) = Arg(TypeOf(k), u)
  BY <1>1 DEF Field, Simple
<1>3. CASE TypeOf(k) = "INT32" /\ v \in Numbers("INT32")
  <2>1. CutText(k, v) = v
    BY <1>3 DEF CutText
  <2>2. Field(k, v) = Arg("INT32", v)
    BY <1>2, <1>3, Zenon
  <2>3. /\ IsScalar(Arg("INT32", v))
        /\ CutScalar(Arg("INT32", v)) = Arg("INT32", v)
    BY <1>3, NumberStands
  <2> QED
    BY <2>1, <2>2, <2>3, ScalarStands, Zenon DEF Travels
<1>4. CASE TypeOf(k) = "STRING" /\ v \in Seq(Byte)
  <2>1. CutText(k, v) = CString(v)
    BY <1>1, <1>4 DEF CutText
  <2>2. \A u : Field(k, u) = Arg("STRING", u)
    BY <1>2, <1>4, Zenon
  <2>3. /\ IsScalar(Arg("STRING", v))
        /\ CutScalar(Arg("STRING", v)) = Arg("STRING", CString(v))
    BY <1>4, TextStands, Zenon
  <2> QED
    BY <2>1, <2>2, <2>3, ScalarStands, Zenon DEF Travels
<1> QED
  BY <1>3, <1>4

LEMMA DescTravels ==
  ASSUME NEW v, v = <<>> \/ \E t \in Seq(Byte) : v = <<t>>
  PROVE  Travels("desc", v)
<1> DEFINE text(u) == IF u = <<>> THEN <<>> ELSE u[1]
<1>1. \A u : Field("desc", u) = Arg("STRING", text(u))
  BY DEF Field, ItemFields
<1>2. text(v) \in Seq(Byte)
  <2>1. CASE v = <<>>
    BY <2>1, EmptySeq
  <2>2. CASE v # <<>>
    BY <2>2
  <2> QED
    BY <2>1, <2>2
<1>3. CutText("desc", v) = IF v = <<>> \/ CString(v[1]) = <<>> THEN <<>>
                           ELSE <<CString(v[1])>>
  BY DEF CutText, TypeOf
<1>4. CString(<<>>) = <<>>
  BY DEF CString, Range
<1>5. text(CutText("desc", v)) = CString(text(v))
  <2>1. CASE v = <<>>
    BY <1>3, <1>4, <2>1
  <2>2. CASE v # <<>> /\ CString(v[1]) = <<>>
    BY <1>3, <2>2
  <2>3. CASE v # <<>> /\ CString(v[1]) # <<>>
    <3> DEFINE t == CString(v[1])
    <3>1. CutText("desc", v) = <<t>>
      BY <1>3, <2>3
    <3> HIDE DEF t
    <3>2. text(<<t>>) = t
      OBVIOUS
    <3>3. text(v) = v[1]
      BY <2>3
    <3> HIDE DEF text
    <3> QED
      BY <3>1, <3>2, <3>3 DEF t
  <2> QED
    BY <2>1, <2>2, <2>3
<1> HIDE DEF text
<1>6. /\ IsScalar(Arg("STRING", text(v)))
      /\ CutScalar(Arg("STRING", text(v))) = Arg("STRING", CString(text(v)))
  BY <1>2, TextStands, Zenon
<1> QED
  BY <1>1, <1>5, <1>6, ScalarStands, Zenon DEF Travels

LEMMA ListUncut ==
  ASSUME NEW k \in Lists, NEW v
  PROVE  CutText(k, v) = v
<1>1. TypeOf(k) # "STRING" /\ k # "desc"
  BY DEF TypeOf, Lists
<1> QED
  BY <1>1 DEF CutText

\* n items of a type that stand for themselves.
Items(n, type, items) ==
  /\ n \in Nat /\ n \in Numbers("UINT32") /\ type \in DOMAIN TypeCode
  /\ items = [j \in 1..n |-> items[j]]
  /\ \A j \in 1..n : /\ IsItem(items[j]) /\ CutItem(items[j]) = items[j]
                     /\ items[j].type = type

LEMMA ListTravels ==
  ASSUME NEW k \in Lists, NEW v, NEW n, NEW type, NEW items,
         Items(n, type, items), Field(k, v) = Arg("LIST", items)
  PROVE  Travels(k, v)
<1>1. CutText(k, v) = v
  BY ListUncut
<1> DEFINE a == Arg("LIST", items)
<1>2. IsBody(a) /\ CutBody(a) = a
  BY ListStands, Zenon DEF Items
<1> QED
  BY <1>1, <1>2, Zenon DEF Travels

LEMMA Count ==
  ASSUME NEW n \in 0..MaxItems
  PROVE  n \in Nat /\ n \in Numbers("UINT32")
<1>1. n \in Nat /\ n <= 2147483647
  BY Limits, SMT
<1> QED
  BY <1>1, Counted, SMT

LEMMA MembersTravel ==
  ASSUME NEW k \in {"members", "mutual_channels"},
         NEW i \in Ints, NEW n \in 0..MaxItems
  PROVE  Travels(k, [j \in 1..n |-> i + j])
<1> DEFINE v == [j \in 1..n |-> i + j]
           items == [j \in 1..n |-> Arg("INT32", v[j])]
<1>1. n \in Nat /\ n \in Numbers("UINT32")
  BY Count
<1>2. k \notin DOMAIN ItemFields
  BY DEF ItemFields
<1>3. DOMAIN v = 1..n
  BY Zenon
<1>4. Field(k, v) = Arg("LIST", items)
  <2>1. Field(k, v) = Arg("LIST", [j \in DOMAIN v |-> Arg("INT32", v[j])])
    BY <1>2, Zenon DEF Field
  <2> QED
    BY <1>3, <2>1, Zenon
<1>5. ASSUME NEW j \in 1..n
      PROVE  /\ IsItem(items[j]) /\ CutItem(items[j]) = items[j]
             /\ items[j].type = "INT32"
  <2>1. v[j] \in Numbers("INT32")
    BY CountedUp
  <2>2. items[j] = Arg("INT32", v[j])
    BY Zenon
  <2> HIDE DEF v, items
  <2>3. /\ IsScalar(items[j]) /\ CutScalar(items[j]) = items[j]
    BY <2>1, <2>2, NumberStands
  <2>4. items[j].type = "INT32"
    BY <2>2 DEF Arg
  <2> QED
    BY <2>3, <2>4, ScalarStands, Zenon
<1>6. items = [j \in 1..n |-> items[j]]
  BY Zenon
<1>7. "INT32" \in DOMAIN TypeCode /\ k \in Lists
  BY SMT DEF TypeCode, Lists
<1> HIDE DEF v, items
<1>8. Items(n, "INT32", items)
  BY <1>1, <1>5, <1>6, <1>7, Zenon DEF Items
<1>9. Travels(k, v)
  BY <1>4, <1>7, <1>8, ListTravels, Zenon
<1> QED
  BY <1>9 DEF v

\* A field of a record that stands for itself.
Stands(f, u) ==
  IsScalar(Simple(f, u)) /\ CutScalar(Simple(f, u)) = Simple(f, u)

LEMMA FieldStands ==
  ASSUME NEW f, NEW u,
         \/ TypeOf(f) \in {"INT32", "UINT32"} /\ u \in Numbers(TypeOf(f))
         \/ TypeOf(f) = "STRING" /\ u \in Seq(Byte) /\ CString(u) = u
  PROVE  Stands(f, u)
<1>1. CASE TypeOf(f) \in {"INT32", "UINT32"} /\ u \in Numbers(TypeOf(f))
  BY <1>1, NumberStands, Zenon DEF Stands, Simple
<1>2. CASE TypeOf(f) = "STRING" /\ u \in Seq(Byte) /\ CString(u) = u
  BY <1>2, TextStands, Zenon DEF Stands, Simple
<1> QED
  BY <1>1, <1>2

LEMMA RecordsTravel ==
  ASSUME NEW k \in {"data", "msgs"}, NEW n \in 0..MaxItems,
         NEW v, DOMAIN v = 1..n,
         \A j \in 1..n : /\ DOMAIN v[j] = ItemFields[k]
                         /\ \A f \in ItemFields[k] : Stands(f, v[j][f])
  PROVE  Travels(k, v)
<1> DEFINE items == [j \in 1..n |-> Arg("SUB_OBJECT", Named(Simple, v[j]))]
<1>1. n \in Nat /\ n \in Numbers("UINT32")
  BY Count
<1>2. k \in DOMAIN ItemFields /\ k \in Lists
  BY DEF ItemFields, Lists
<1>3. k \notin {"members", "mutual_channels"} /\ k # "desc"
  OBVIOUS
<1>4. Field(k, v) = Arg("LIST", items)
  <2>1. Field(k, v) =
          Arg("LIST", [j \in DOMAIN v |-> Arg("SUB_OBJECT", Named(Simple, v[j]))])
    BY <1>2, <1>3, Zenon DEF Field
  <2> QED
    BY <2>1, Zenon
<1>5. ASSUME NEW j \in 1..n
      PROVE  /\ IsItem(items[j]) /\ CutItem(items[j]) = items[j]
             /\ items[j].type = "SUB_OBJECT"
  <2>1. items[j] = Arg("SUB_OBJECT", Named(Simple, v[j]))
    BY Zenon
  <2>2. /\ DOMAIN v[j] \subseteq FieldNames
        /\ \A f \in DOMAIN v[j] :
             /\ IsScalar(Simple(f, v[j][f]))
             /\ CutScalar(Simple(f, v[j][f])) = Simple(f, v[j][f])
    BY <1>2, KnownFields, Zenon DEF Stands
  <2> HIDE DEF items
  <2>3. IsItem(items[j]) /\ CutItem(items[j]) = items[j]
    BY <2>1, <2>2, RecordStands, Zenon
  <2>4. items[j].type = "SUB_OBJECT"
    BY <2>1 DEF Arg
  <2> QED
    BY <2>3, <2>4
<1>6. items = [j \in 1..n |-> items[j]]
  BY Zenon
<1>7. "SUB_OBJECT" \in DOMAIN TypeCode
  BY SMT DEF TypeCode
<1> HIDE DEF items
<1>8. Items(n, "SUB_OBJECT", items)
  BY <1>1, <1>5, <1>6, <1>7, Zenon DEF Items
<1> QED
  BY <1>2, <1>4, <1>8, ListTravels, Zenon

\* A text that a list holds has been cut already.
LEMMA DataTravels ==
  ASSUME NEW i \in Ints, NEW t \in Seq(Byte), NEW n \in 0..MaxItems,
         n = 0 \/ CString(t) = t
  PROVE  Travels("data", [j \in 1..n |-> [id |-> i + j, name |-> t]])
<1> DEFINE v == [j \in 1..n |-> [id |-> i + j, name |-> t]]
<1>1. ItemFields["data"] = {"id", "name"}
  BY DEF ItemFields
<1>2. ASSUME NEW j \in 1..n
      PROVE  /\ DOMAIN v[j] = ItemFields["data"]
             /\ \A f \in ItemFields["data"] : Stands(f, v[j][f])
  <2>1. v[j] = [id |-> i + j, name |-> t]
    OBVIOUS
  <2> HIDE DEF v
  <2>2. DOMAIN v[j] = {"id", "name"} /\ v[j]["id"] = i + j /\ v[j]["name"] = t
    BY <2>1
  <2>3. Stands("id", v[j]["id"])
    <3>1. TypeOf("id") = "INT32"
      BY DEF TypeOf
    <3>2. v[j]["id"] \in Numbers("INT32")
      BY <2>2, CountedUp
    <3> QED
      BY <3>1, <3>2, FieldStands
  <2>4. Stands("name", v[j]["name"])
    <3>1. TypeOf("name") = "STRING"
      BY DEF TypeOf
    <3>2. CString(t) = t
      BY Limits
    <3> QED
      BY <2>2, <3>1, <3>2, FieldStands
  <2> QED
    BY <1>1, <2>2, <2>3, <2>4
<1>3. DOMAIN v = 1..n
  BY Zenon
<1> HIDE DEF v
<1>4. Travels("data", v)
  BY <1>2, <1>3, RecordsTravel
<1> QED
  BY <1>4 DEF v

LEMMA MsgsTravel ==
  ASSUME NEW i \in Ints, NEW t \in Seq(Byte), NEW n \in 0..MaxItems,
         n = 0 \/ CString(t) = t
  PROVE  Travels("msgs",
                 [j \in 1..n |-> [sender |-> i, when |-> j, cnt |-> t]])
<1> DEFINE v == [j \in 1..n |-> [sender |-> i, when |-> j, cnt |-> t]]
<1>1. ItemFields["msgs"] = {"sender", "when", "cnt"}
  BY DEF ItemFields
<1>2. ASSUME NEW j \in 1..n
      PROVE  /\ DOMAIN v[j] = ItemFields["msgs"]
             /\ \A f \in ItemFields["msgs"] : Stands(f, v[j][f])
  <2>1. v[j] = [sender |-> i, when |-> j, cnt |-> t]
    OBVIOUS
  <2> HIDE DEF v
  <2>2. /\ DOMAIN v[j] = {"sender", "when", "cnt"}
        /\ v[j]["sender"] = i /\ v[j]["when"] = j /\ v[j]["cnt"] = t
    BY <2>1
  <2>3. Stands("sender", v[j]["sender"])
    <3>1. TypeOf("sender") = "INT32"
      BY DEF TypeOf
    <3>2. v[j]["sender"] \in Numbers("INT32")
      BY <2>2, CountedUp
    <3> QED
      BY <3>1, <3>2, FieldStands
  <2>4. Stands("when", v[j]["when"])
    <3>1. TypeOf("when") = "UINT32"
      BY DEF TypeOf
    <3>2. v[j]["when"] \in Numbers("UINT32")
      BY <2>2, CountedUp
    <3> QED
      BY <3>1, <3>2, FieldStands
  <2>5. Stands("cnt", v[j]["cnt"])
    <3>1. TypeOf("cnt") = "STRING"
      BY DEF TypeOf
    <3>2. CString(t) = t
      BY Limits
    <3> QED
      BY <2>2, <3>1, <3>2, FieldStands
  <2> QED
    BY <1>1, <2>2, <2>3, <2>4, <2>5
<1>3. DOMAIN v = 1..n
  BY Zenon
<1> HIDE DEF v
<1>4. Travels("msgs", v)
  BY <1>2, <1>3, RecordsTravel
<1> QED
  BY <1>4 DEF v

\* Every field of the requests and answers that occur.
LEMMA FillTravels ==
  ASSUME NEW fields \in SUBSET FieldNames, NEW i \in Ints,
         NEW p \in Seq(Byte) \X Seq(Byte), NEW n \in 0..MaxItems,
         n = 0 \/ CString(p[1]) = p[1], NEW k \in fields, k # "when"
  PROVE  Travels(k, Fill(fields, i, p, n)[k])
<1> DEFINE v == Fill(fields, i, p, n)[k]
<1>1. p[1] \in Seq(Byte) /\ p[2] \in Seq(Byte)
  OBVIOUS
<1>2. CASE k = "data"
  <2>1. TypeOf(k) # "INT32"
    BY <1>2 DEF TypeOf
  <2>2. v = [j \in 1..n |-> [id |-> i + j, name |-> p[1]]]
    BY <1>2, <2>1 DEF Fill
  <2>3. Travels("data", [j \in 1..n |-> [id |-> i + j, name |-> p[1]]])
    BY <1>1, DataTravels, Zenon
  <2> QED
    BY <1>2, <2>2, <2>3, Zenon
<1>3. CASE k = "msgs"
  <2>1. TypeOf(k) # "INT32"
    BY <1>3 DEF TypeOf
  <2>2. v = [j \in 1..n |-> [sender |-> i, when |-> j, cnt |-> p[1]]]
    BY <1>3, <2>1 DEF Fill
  <2>3. Travels("msgs",
                [j \in 1..n |-> [sender |-> i, when |-> j, cnt |-> p[1]]])
    BY <1>1, MsgsTravel, Zenon
  <2> QED
    BY <1>3, <2>2, <2>3, Zenon
<1>4. CASE k \in {"members", "mutual_channels"}
  <2>1. TypeOf(k) # "INT32"
    BY <1>4 DEF TypeOf
  <2>2. v = [j \in 1..n |-> i + j]
    BY <1>4, <2>1 DEF Fill
  <2> QED
    BY <1>4, <2>2, MembersTravel, Zenon
<1>5. CASE k = "desc"
  <2>1. TypeOf(k) # "INT32"
    BY <1>5 DEF TypeOf
  <2>2. v = IF p[2] = <<>> THEN <<>> ELSE <<p[2]>>
    BY <1>5, <2>1 DEF Fill
  <2>3. v = <<>> \/ \E t \in Seq(Byte) : v = <<t>>
    BY <1>1, <2>2, Zenon
  <2> QED
    BY <1>5, <2>3, DescTravels, Zenon
<1>6. CASE k \notin Lists \cup {"desc"}
  <2>1. CASE TypeOf(k) = "INT32"
    <3>1. v = i
      BY <1>6, <2>1 DEF Fill, Lists, TypeOf
    <3>2. i \in Numbers("INT32")
      BY Counted, Limits, SMT
    <3> QED
      BY <1>6, <2>1, <3>1, <3>2, SimpleTravels
  <2>2. CASE TypeOf(k) # "INT32"
    <3>1. v = p[1] \/ v = p[2]
      BY <1>6, <2>2 DEF Fill, Lists
    <3>2. TypeOf(k) = "STRING"
      BY <1>6, <2>2 DEF TypeOf, Lists
    <3> QED
      BY <1>1, <1>6, <2>2, <3>1, <3>2, SimpleTravels
  <2> QED
    BY <2>1, <2>2
<1> QED
  BY <1>2, <1>3, <1>4, <1>5, <1>6 DEF Lists

\* An object whose fields travel makes a message, which arrives as the object
\* of its cut texts.
LEMMA ArgsTravel ==
  ASSUME NEW args, DOMAIN args \subseteq FieldNames,
         \A k \in DOMAIN args : Travels(k, args[k]),
         NEW cmd \in Commands \cup {"ok", "err"}
  PROVE  /\ IsMessage(To(cmd, args))
         /\ CutMessage(To(cmd, args)) =
              To(cmd, [k \in DOMAIN args |-> CutText(k, args[k])])
<1> DEFINE m == To(cmd, args)
           obj == Named(Field, args)
           cutargs == [k \in DOMAIN args |-> CutText(k, args[k])]
           D == {Name(k) : k \in DOMAIN args}
<1>1. m.cmd = Name(cmd) /\ m.args = obj
  BY DEF To
<1>2. DOMAIN obj = D
  BY Zenon DEF Named
<1>3. Name(cmd) \in Seq(Byte) /\ CString(Name(cmd)) = Name(cmd)
  BY NameIsText, NameTextFacts, Zenon
<1>4. D \subseteq NameTexts
  BY NameIsText
<1>5. ASSUME NEW n \in D
      PROVE  /\ IsBody(obj[n])
             /\ CutBody(obj[n]) = Field(Names[n[1]], cutargs[Names[n[1]]])
  <2>1. PICK k \in DOMAIN args : n = Name(k)
    BY Zenon
  <2>2. obj[n] = Field(k, args[k])
    BY <2>1, NamedField, Zenon
  <2>3. Names[n[1]] = k
    BY <2>1, NameBack
  <2>4. cutargs[k] = CutText(k, args[k])
    BY Zenon
  <2> HIDE DEF obj, cutargs
  <2> QED
    BY <2>2, <2>3, <2>4, Zenon DEF Travels
<1>6. IsMessage(m)
  BY <1>1, <1>2, <1>3, <1>4, <1>5, Zenon DEF IsMessage
<1>7. CutMessage(m) = [cmd |-> Name(cmd), args |-> [n \in D |-> CutBody(obj[n])]]
  BY <1>1, <1>2, <1>3, Zenon DEF CutMessage
<1>8. [n \in D |-> CutBody(obj[n])]
        = [n \in D |-> Field(Names[n[1]], cutargs[Names[n[1]]])]
  BY <1>5, Zenon
<1>9. Named(Field, cutargs) = [n \in D |-> Field(Names[n[1]], cutargs[Names[n[1]]])]
  <2>1. DOMAIN cutargs = DOMAIN args
    BY Zenon
  <2> HIDE DEF cutargs
  <2> QED
    BY <2>1, Zenon DEF Named
<1>10. To(cmd, cutargs) = [cmd |-> Name(cmd), args |-> Named(Field, cutargs)]
  BY Zenon DEF To
<1> QED
  BY <1>6, <1>7, <1>8, <1>9, <1>10, Zenon

\* Only texts are cut.
LEMMA OnlyTextsAreCut ==
  ASSUME NEW k, NEW v, TypeOf(k) # "STRING"
  PROVE  CutText(k, v) = v
<1>1. k # "desc"
  BY DEF TypeOf
<1> QED
  BY <1>1 DEF CutText

\* The texts of an answer end where they were cut.
LEMMA FillUncut ==
  ASSUME NEW fields \in SUBSET FieldNames, NEW i \in Ints,
         NEW p \in Seq(Byte) \X Seq(Byte), NEW n \in 0..MaxItems,
         CString(p[1]) = p[1], CString(p[2]) = p[2], NEW k \in fields
  PROVE  CutText(k, Fill(fields, i, p, n)[k]) = Fill(fields, i, p, n)[k]
<1> DEFINE v == Fill(fields, i, p, n)[k]
<1>1. CASE TypeOf(k) # "STRING"
  BY <1>1, OnlyTextsAreCut, Zenon
<1>2. CASE TypeOf(k) = "STRING" /\ k = "desc"
  <2>1. v = IF p[2] = <<>> THEN <<>> ELSE <<p[2]>>
    BY <1>2 DEF Fill
  <2> HIDE DEF v
  <2>2. CutText(k, v) = IF v = <<>> \/ CString(v[1]) = <<>> THEN <<>>
                        ELSE <<CString(v[1])>>
    BY <1>2 DEF CutText
  <2>3. CutText(k, v) = v
    <3>1. CASE p[2] = <<>>
      BY <2>1, <2>2, <3>1
    <3>2. CASE p[2] # <<>>
      <4>1. v = <<p[2]>> /\ v[1] = p[2] /\ v # <<>>
        BY <2>1, <3>2
      <4> QED
        BY <2>2, <3>2, <4>1
    <3> QED
      BY <3>1, <3>2
  <2> QED
    BY <2>3 DEF v
<1>3. CASE TypeOf(k) = "STRING" /\ k # "desc"
  <2>1. k \notin Lists
    BY <1>3 DEF TypeOf, Lists
  <2>2. v = p[1] \/ v = p[2]
    BY <1>3, <2>1 DEF Fill, Lists
  <2> HIDE DEF v
  <2>3. CutText(k, v) = CString(v)
    BY <1>3 DEF CutText
  <2> QED
    BY <2>2, <2>3 DEF v
<1> QED
  BY <1>1, <1>2, <1>3

LEMMA TextsAreBytes == \A p \in Texts : p \in Seq(Byte) \X Seq(Byte)
BY SessionAssumption, SMT

\* The texts of answers were cut when they came in.
LEMMA StoredTexts ==
  ASSUME NEW p \in Stored
  PROVE  /\ p \in Seq(Byte) \X Seq(Byte)
         /\ CString(p[1]) = p[1] /\ CString(p[2]) = p[2]
<1>1. PICK q \in Texts : p = <<CString(q[1]), CString(q[2])>>
  BY Zenon DEF Stored
<1>2. q[1] \in Seq(Byte) /\ q[2] \in Seq(Byte)
  BY TextsAreBytes
<1>3. p[1] = CString(q[1]) /\ p[2] = CString(q[2])
  BY <1>1
<1>4. /\ CString(q[1]) \in Seq(Byte) /\ CString(q[2]) \in Seq(Byte)
      /\ CString(CString(q[1])) = CString(q[1])
      /\ CString(CString(q[2])) = CString(q[2])
  BY <1>2, CStringCuts, CStringAgain, Zenon
<1>5. p \in Seq(Byte) \X Seq(Byte)
  BY <1>1, <1>4
<1> QED
  BY <1>3, <1>4, <1>5, Zenon

LEMMA NoWhen ==
  \A c \in Commands : "when" \notin RequestFields[c] /\ "when" \notin AnswerFields[c]
<1>1. \A c \in Commands : "when" \notin RequestFields[c]
  BY DEF Commands, RequestFields
<1>2. \A c \in Commands : "when" \notin AnswerFields[c]
  BY DEF Commands, RequestFields, AnswerFields
<1> QED
  BY <1>1, <1>2

\* A request is a message, which arrives without what follows a NUL.
LEMMA RequestTravels ==
  ASSUME NEW r \in Requests
  PROVE  /\ IsMessage(To(r.cmd, r.args))
         /\ CutMessage(To(r.cmd, r.args))
              = To(Received(r).cmd, Received(r).args)
<1>1. PICK c \in Commands, i \in Ints, p \in Texts :
        r = Call(c, Fill(RequestFields[c], i, p, 0))
  BY DEF Requests
<1>2. r.cmd = c /\ r.args = Fill(RequestFields[c], i, p, 0)
  BY <1>1 DEF Call
<1>3. /\ RequestFields[c] \in SUBSET FieldNames
      /\ "when" \notin RequestFields[c]
  BY KnownFields, NoWhen
<1>4. DOMAIN r.args = RequestFields[c]
  BY <1>2, Zenon DEF Fill
<1>5. \A k \in DOMAIN r.args : Travels(k, r.args[k])
  <2>1. 0 \in 0..MaxItems
    BY Limits
  <2>2. p \in Seq(Byte) \X Seq(Byte)
    BY TextsAreBytes, Zenon
  <2> QED
    BY <1>2, <1>3, <1>4, <2>1, <2>2, FillTravels, Zenon
<1>6. /\ Received(r).cmd = r.cmd
      /\ Received(r).args = [k \in DOMAIN r.args |-> CutText(k, r.args[k])]
  BY DEF Received, Call
<1>7. DOMAIN r.args \subseteq FieldNames /\ r.cmd \in Commands \cup {"ok", "err"}
  BY <1>2, <1>3, <1>4
<1> QED
  BY <1>5, <1>6, <1>7, ArgsTravel, Zenon

\* An answer is a message, too, and arrives as it is.
LEMMA AnswerTravels ==
  ASSUME NEW a \in AllAnswers
  PROVE  /\ IsMessage(To(a.cmd, a.args))
         /\ CutMessage(To(a.cmd, a.args)) = To(a.cmd, a.args)
<1>1. PICK c \in Commands : a \in Answers[c]
  BY DEF AllAnswers, Answers, Range
<1>2. /\ a.cmd \in {"ok", "err"} /\ DOMAIN a.args = FieldsOf(a.cmd, c)
      /\ Function(a.args)
  <2>1. a.cmd \in {"ok", "err"} /\ Proper(FieldsOf(a.cmd, c), a.args)
    BY <1>1, AnswerShape
  <2> QED
    BY <2>1, Zenon DEF Proper
<1>3. FieldsOf(a.cmd, c) \in SUBSET FieldNames
  BY KnownFields DEF FieldsOf, FieldNames
<1>4. \A k \in DOMAIN a.args : /\ Travels(k, a.args[k])
                               /\ CutText(k, a.args[k]) = a.args[k]
  <2>1. CASE a \in Refusals
    <3>1. PICK p \in Stored : a = Call("err", [reason |-> p[1]])
      BY <2>1 DEF Refusals
    <3>2. DOMAIN a.args = {"reason"} /\ a.args["reason"] = p[1]
      BY <3>1 DEF Call
    <3>3. p[1] \in Seq(Byte) /\ CString(p[1]) = p[1]
      BY StoredTexts
    <3>4. TypeOf("reason") = "STRING"
      BY DEF TypeOf
    <3>5. CutText("reason", p[1]) = p[1]
      BY <3>3, <3>4 DEF CutText
    <3>6. Travels("reason", p[1])
      BY <3>3, <3>4, SimpleTravels DEF FieldNames, Lists
    <3> QED
      BY <3>2, <3>5, <3>6
  <2>2. CASE a \notin Refusals
    <3>1. PICK i \in Ints, p \in Stored, n \in 0..MaxItems :
            a = Call("ok", Fill(AnswerFields[c], i, p, n))
      BY <1>1, <2>2 DEF Answers
    <3>2. a.args = Fill(AnswerFields[c], i, p, n)
      BY <3>1 DEF Call
    <3>3. DOMAIN a.args = AnswerFields[c]
      BY <3>2, Zenon DEF Fill
    <3>4. /\ AnswerFields[c] \in SUBSET FieldNames
          /\ "when" \notin AnswerFields[c]
      BY KnownFields, NoWhen
    <3>5. /\ p \in Seq(Byte) \X Seq(Byte)
          /\ CString(p[1]) = p[1] /\ CString(p[2]) = p[2]
      BY StoredTexts, Zenon
    <3> SUFFICES ASSUME NEW k \in AnswerFields[c]
                 PROVE  LET v == Fill(AnswerFields[c], i, p, n)[k] IN
                        Travels(k, v) /\ CutText(k, v) = v
      BY <3>2, <3>3, Zenon
    <3>6. CutText(k, Fill(AnswerFields[c], i, p, n)[k])
            = Fill(AnswerFields[c], i, p, n)[k]
      BY <3>4, <3>5, FillUncut, Zenon
    <3>7. k # "when"
      BY <3>4
    <3>8. Travels(k, Fill(AnswerFields[c], i, p, n)[k])
      BY <3>4, <3>5, <3>7, FillTravels, Zenon
    <3> QED
      BY <3>6, <3>8
  <2> QED
    BY <2>1, <2>2
<1>5. [k \in DOMAIN a.args |-> CutText(k, a.args[k])] = a.args
  <2>1. [k \in DOMAIN a.args |-> CutText(k, a.args[k])]
          = [k \in DOMAIN a.args |-> a.args[k]]
    BY <1>4, Zenon
  <2> QED
    BY <1>2, <2>1, Zenon DEF Function
<1>6. a.cmd \in Commands \cup {"ok", "err"}
  BY <1>2
<1> QED
  BY <1>2, <1>3, <1>4, <1>5, <1>6, ArgsTravel, Zenon

\* Where a field arrives as another one, a NUL was in it.
LEMMA FieldIntact ==
  ASSUME NEW k, NEW v, Holds(k, v)
  PROVE  Field(k, CutText(k, v)) = Field(k, v) \/ HasNul(Field(k, v))
<1>1. CASE TypeOf(k) # "STRING"
  BY <1>1, OnlyTextsAreCut, Zenon
<1>2. \A t : 0 \in Range(t) \/ CString(t) = t
  BY DEF CString
<1>3. \A t : 0 \in Range(t) => HasNul(Arg("STRING", t))
  BY DEF HasNul, Arg
<1>4. CASE k = "desc"
  <2>1. \A u : Field(k, u) = Arg("STRING", IF u = <<>> THEN <<>> ELSE u[1])
    BY <1>4 DEF Field, ItemFields
  <2>2. CutText(k, v) = IF v = <<>> \/ CString(v[1]) = <<>> THEN <<>>
                        ELSE <<CString(v[1])>>
    BY <1>4 DEF CutText, TypeOf
  <2>3. CASE v = <<>>
    BY <2>2, <2>3
  <2>4. CASE v # <<>>
    <3>1. PICK t : v = <<t>> /\ t # <<>>
      BY <1>4, <2>4 DEF Holds
    <3>2. v[1] = t
      BY <3>1
    <3>3. Field(k, v) = Arg("STRING", t)
      BY <2>1, <2>4, <3>2
    <3>4. CASE 0 \in Range(t)
      BY <1>3, <3>3, <3>4, Zenon
    <3>5. CASE CString(t) = t
      <4>1. CutText(k, v) = v
        BY <2>2, <2>4, <3>1, <3>2, <3>5
      <4> QED
        BY <4>1
    <3> QED
      BY <1>2, <3>4, <3>5
  <2> QED
    BY <2>3, <2>4
<1>5. CASE TypeOf(k) = "STRING" /\ k # "desc"
  <2>1. k \notin DOMAIN ItemFields \cup {"members", "mutual_channels"}
    BY <1>5 DEF TypeOf, ItemFields
  <2>2. Field(k, v) = Arg("STRING", v)
    BY <1>5, <2>1 DEF Field, Simple
  <2>3. CutText(k, v) = CString(v)
    BY <1>5 DEF CutText
  <2>4. CASE 0 \in Range(v)
    BY <1>3, <2>2, <2>4, Zenon
  <2>5. CASE CString(v) = v
    BY <2>3, <2>5, Zenon
  <2> QED
    BY <1>2, <2>4, <2>5
<1> QED
  BY <1>1, <1>4, <1>5

\* A request arrives intact, and an answer arrives.
LEMMA RequestIntact ==
  ASSUME NEW r \in Requests
  PROVE  Intact(To(Received(r).cmd, Received(r).args), To(r.cmd, r.args))
<1> DEFINE args == r.args
           cutargs == Received(r).args
           obj == Named(Field, args)
           cutobj == Named(Field, cutargs)
<1>1. /\ Received(r).cmd = r.cmd
      /\ cutargs = [k \in DOMAIN args |-> CutText(k, args[k])]
  BY DEF Received, Call
<1>2. r.cmd \in Commands /\ Proper(RequestFields[r.cmd], args)
  BY RequestShape
<1>3. DOMAIN args \subseteq FieldNames /\ \A k \in DOMAIN args : Holds(k, args[k])
  BY <1>2, KnownFields DEF Proper
<1>4. DOMAIN cutargs = DOMAIN args
  BY <1>1
<1> HIDE DEF args, cutargs
<1>5. /\ DOMAIN obj = {Name(k) : k \in DOMAIN args}
      /\ DOMAIN cutobj = DOMAIN obj
  BY <1>4, Zenon DEF Named
<1>6. ASSUME NEW k \in DOMAIN args
      PROVE  cutobj[Name(k)] = obj[Name(k)] \/ HasNul(obj[Name(k)])
  <2>1. obj[Name(k)] = Field(k, args[k])
    BY <1>3, NamedField, Zenon
  <2>2. cutobj[Name(k)] = Field(k, cutargs[k])
    BY <1>3, <1>4, NamedField, Zenon
  <2>3. cutargs[k] = CutText(k, args[k])
    BY <1>1, Zenon
  <2> HIDE DEF obj, cutobj
  <2> QED
    BY <1>3, <2>1, <2>2, <2>3, FieldIntact, Zenon
<1>7. \A n \in DOMAIN obj : cutobj[n] = obj[n] \/ HasNul(obj[n])
  BY <1>5, <1>6, Zenon
<1>8. /\ To(r.cmd, args) = [cmd |-> Name(r.cmd), args |-> obj]
      /\ To(r.cmd, cutargs) = [cmd |-> Name(r.cmd), args |-> cutobj]
  BY Zenon DEF To
<1> HIDE DEF obj, cutobj
<1>9. Intact(To(r.cmd, cutargs), To(r.cmd, args))
  BY <1>5, <1>7, <1>8 DEF Intact
<1> QED
  BY <1>1, <1>9, Zenon DEF args, cutargs

LEMMA SameIsIntact == ASSUME NEW m PROVE Intact(m, m)
BY Zenon DEF Intact

\* The bytes of m are read back as n.
DecodesTo(m, n) ==
  LET got == Decode(Encode(m)) IN Encodable(m) => got.st = "value" /\ got.v = n

\* The bytes of a request, and of an answer, are read back.
LEMMA RequestComesBack ==
  ASSUME NEW r \in Requests
  PROVE  DecodesTo(To(r.cmd, r.args), To(Received(r).cmd, Received(r).args))
<1> DEFINE m == To(r.cmd, r.args)
           n == To(Received(r).cmd, Received(r).args)
<1>1. IsMessage(m) /\ CutMessage(m) = n
  BY RequestTravels, Zenon
<1> HIDE DEF m, n
<1>2. Encodable(m) => \E s \in Stream : Decode(Encode(m)) = Value(n, s)
  BY <1>1, MessageComesBack, Zenon
<1>3. DecodesTo(m, n)
  BY <1>2 DEF DecodesTo, Value
<1> QED
  BY <1>3 DEF m, n

LEMMA AnswerComesBack ==
  ASSUME NEW a \in AllAnswers
  PROVE  DecodesTo(To(a.cmd, a.args), To(a.cmd, a.args))
<1> DEFINE m == To(a.cmd, a.args)
<1>1. IsMessage(m) /\ CutMessage(m) = m
  BY AnswerTravels, Zenon
<1> HIDE DEF m
<1>2. Encodable(m) => \E s \in Stream : Decode(Encode(m)) = Value(m, s)
  BY <1>1, MessageComesBack, Zenon
<1>3. DecodesTo(m, m)
  BY <1>2 DEF DecodesTo, Value
<1> QED
  BY <1>3 DEF m

-----------------------------------------------------------------------------
(* The bytes on the connection.                                            *)

Record == Seq(0..255) \ {<<>>}

\* The records that wait are not empty, and if one is longer than a read, a
\* message was (c).
Sound(wire, c) ==
  /\ wire \in Seq(Record)
  /\ \A i \in 1..Len(wire) : Len(wire[i]) > MaxRead => c

\* What is sent is a record of bytes that is not empty.
LEMMA SentRecord ==
  ASSUME NEW r \in Requests \cup AllAnswers, Encodable(To(r.cmd, r.args))
  PROVE  Encode(To(r.cmd, r.args)) \in Record
<1> DEFINE m == To(r.cmd, r.args)
<1>1. IsMessage(m)
  BY RequestTravels, AnswerTravels, Zenon
<1> HIDE DEF m
<1>2. Encode(m) \in Seq(Byte) /\ Len(Encode(m)) >= 3
  BY <1>1, EncodeType, Zenon DEF m
<1>3. Encode(m) \in Record
  BY <1>2, EmptySeq DEF Record, Byte
<1> QED
  BY <1>3 DEF m

LEMMA RecordLen == ASSUME NEW b \in Record PROVE Len(b) \in Nat \ {0}
BY EmptySeq DEF Record

LEMMA SoundEmpty == ASSUME NEW c PROVE Sound(<<>>, c) /\ Len(<<>>) = 0
<1>1. <<>> \in Seq(Record) /\ Len(<<>>) = 0
  BY EmptySeq
<1>2. QED
  BY <1>1 DEF Sound

LEMMA SoundLen ==
  ASSUME NEW wire, NEW c, Sound(wire, c)
  PROVE  Len(wire) \in Nat /\ (Len(wire) = 0 <=> wire = <<>>)
BY EmptySeq, LenProperties DEF Sound

LEMMA SoundLater ==
  ASSUME NEW wire, NEW c \in BOOLEAN, NEW d \in BOOLEAN, Sound(wire, c), c => d
  PROVE  Sound(wire, d)
BY DEF Sound

\* The smaller of two numbers, and a part of a record.
LEMMA Smaller ==
  ASSUME NEW m \in Nat, NEW n \in Nat
  PROVE  /\ Min({m, n}) \in {m, n}
         /\ Min({m, n}) <= m /\ Min({m, n}) <= n
<1>1. \E x \in {m, n} : \A y \in {m, n} : x <= y
  OBVIOUS
<1>2. Min({m, n}) \in {m, n} /\ \A y \in {m, n} : Min({m, n}) <= y
  BY <1>1, Zenon DEF Min
<1>3. QED
  BY <1>2

LEMMA PartOfRecord ==
  ASSUME NEW b \in Record, NEW n \in Nat, NEW e \in Nat, n < e, e <= Len(b)
  PROVE  SubSeq(b, n + 1, e) \in Record
<1>1. b \in Seq(0..255) /\ Len(b) \in Nat
  BY LenProperties DEF Record
<1>2. \A i \in (n + 1)..e : b[i] \in 0..255
  <2> SUFFICES ASSUME NEW i \in (n + 1)..e PROVE b[i] \in 0..255
    OBVIOUS
  <2>1. i \in 1..Len(b)
    BY <1>1
  <2>2. QED
    BY <1>1, <2>1, ElementOfSeq
<1> DEFINE first == n + 1
           rest == SubSeq(b, first, e)
<1>3. first \in Int /\ e \in Int /\ first <= e /\ e - first + 1 > 0
  OBVIOUS
<1>4. \A i \in first..e : b[i] \in 0..255
  BY <1>2
<1> HIDE DEF first
<1>5. rest \in Seq(0..255) /\ Len(rest) = e - first + 1
  BY <1>3, <1>4, SubSeqProperties
<1>6. rest # <<>>
  BY <1>3, <1>5, EmptySeq
<1>7. QED
  BY <1>5, <1>6 DEF Record, first

\* SSL_write makes records of what it is given: one, of all of it, where it
\* fits into a read.
LEMMA RecordsOf ==
  ASSUME NEW b \in Record
  PROVE  /\ Records(b) \in Seq(Record) /\ Len(Records(b)) \in Nat \ {0}
         /\ Len(b) <= MaxRead => Records(b) = <<b>>
<1> DEFINE L == Len(b)
           M == MaxRecord
           q == (L + M - 1) \div M
<1>1. b \in Seq(0..255) /\ L \in Nat \ {0}
  BY RecordLen DEF Record
<1>2. M \in Nat \ {0} /\ MaxRead \in Nat /\ MaxRead <= M
  BY SessionAssumption
<1> DEFINE piece(i) == SubSeq(b, (i - 1) * M + 1, Min({i * M, L}))
<1>3. Records(b) = [i \in 1..q |-> piece(i)]
  BY DEF Records
<1> HIDE DEF L, M
<1>4. q \in Nat \ {0} /\ q * M <= L + M - 1
  BY <1>1, <1>2
<1>5. L <= M => q = 1
  BY <1>1, <1>2
<1> HIDE DEF q
<1>6. ASSUME NEW i \in 1..q
      PROVE  /\ (i - 1) * M \in Nat /\ (i - 1) * M < L
             /\ i * M = (i - 1) * M + M
  <2>1. i \in Nat /\ i - 1 \in Nat /\ i <= q
    BY <1>4
  <2>2. i * M <= q * M
    BY <1>2, <1>4, <2>1
  <2>3. i * M = (i - 1) * M + M
    BY <1>2, <2>1
  <2>4. (i - 1) * M \in Nat
    BY <1>2, <2>1
  <2>5. q * M \in Nat
    BY <1>2, <1>4
  <2> QED
    BY <1>1, <1>2, <1>4, <2>2, <2>3, <2>4, <2>5
<1>7. ASSUME NEW i \in 1..q PROVE piece(i) \in Record
  <2> DEFINE n == (i - 1) * M
             e == Min({i * M, L})
  <2>1. n \in Nat /\ n < L /\ i * M = n + M
    BY <1>6
  <2> HIDE DEF n
  <2>2. n + M \in Nat /\ n < n + M
    BY <1>2, <2>1
  <2>3. e \in Nat /\ n < e /\ e <= L
    BY <1>1, <2>1, <2>2, Smaller
  <2> HIDE DEF e
  <2>4. SubSeq(b, n + 1, e) \in Record
    BY <2>1, <2>3, PartOfRecord DEF L
  <2> QED
    BY <2>4 DEF n, e
<1>8. Records(b) \in Seq(Record) /\ Len(Records(b)) = q
  <2> HIDE DEF piece
  <2> QED
    BY <1>3, <1>4, <1>7
<1>9. ASSUME L <= MaxRead PROVE Records(b) = <<b>>
  <2>1. L <= M /\ q = 1
    BY <1>1, <1>2, <1>5, <1>9
  <2>2. (1 - 1) * M + 1 = 1 /\ 1 * M = M
    BY <1>2
  <2>3. Min({M, L}) = L
    BY <1>1, <1>2, <2>1, Smaller
  <2>4. piece(1) = b
    BY <1>1, <2>2, <2>3, SubSeqFull DEF L
  <2> HIDE DEF piece
  <2> QED
    BY <1>3, <2>1, <2>4
<1> QED
  BY <1>4, <1>8, <1>9 DEF L

LEMMA SoundAppend ==
  ASSUME NEW wire, NEW c \in BOOLEAN, NEW d \in BOOLEAN, Sound(wire, c),
         NEW b \in Record, d = (c \/ Len(b) > MaxRead)
  PROVE  /\ Sound(wire \o Records(b), d)
         /\ \/ Len(wire \o Records(b)) = Len(wire) + 1
            \/ /\ Len(wire \o Records(b)) \in Nat
               /\ Len(wire \o Records(b)) > Len(wire) + 1
               /\ d = TRUE
<1> DEFINE more == Records(b)
           new == wire \o more
<1>1. wire \in Seq(Record) /\ Len(wire) \in Nat
  BY LenProperties DEF Sound
<1>2. more \in Seq(Record) /\ Len(more) \in Nat \ {0}
  BY RecordsOf
<1>3. Len(b) \in Nat /\ MaxRead \in Nat
  BY RecordLen, SessionAssumption
<1> HIDE DEF more
<1>4. /\ new \in Seq(Record) /\ Len(new) = Len(wire) + Len(more)
      /\ \A i \in 1..Len(new) : new[i] = IF i <= Len(wire) THEN wire[i]
                                        ELSE more[i - Len(wire)]
  BY <1>1, <1>2, ConcatProperties
<1> HIDE DEF new
<1>5. CASE d
  <2>1. Sound(new, d)
    BY <1>4, <1>5 DEF Sound
  <2>2. Len(new) = Len(wire) + 1 \/ (Len(new) \in Nat /\ Len(new) > Len(wire) + 1)
    BY <1>1, <1>2, <1>4
  <2> QED
    BY <1>5, <2>1, <2>2 DEF new, more
<1>6. CASE ~d
  <2>1. Len(b) <= MaxRead /\ ~c
    <3>1. ~(Len(b) > MaxRead) /\ ~c
      BY <1>6, Zenon
    <3> QED
      BY <1>3, <3>1
  <2>2. more = <<b>>
    BY <2>1, RecordsOf DEF more
  <2>3. Len(more) = 1 /\ more[1] = b
    BY <2>2
  <2>4. ASSUME NEW i \in 1..Len(new) PROVE ~(Len(new[i]) > MaxRead)
    <3>1. CASE i <= Len(wire)
      <4>1. i \in 1..Len(wire) /\ new[i] = wire[i]
        BY <1>1, <1>4, <3>1
      <4> QED
        BY <2>1, <4>1 DEF Sound
    <3>2. CASE ~(i <= Len(wire))
      <4>1. i - Len(wire) = 1
        BY <1>1, <1>4, <2>3, <3>2
      <4>2. new[i] = b
        BY <1>4, <2>3, <3>2, <4>1
      <4> QED
        BY <1>3, <2>1, <4>2
    <3> QED
      BY <3>1, <3>2
  <2>5. Sound(new, d)
    BY <1>4, <2>4 DEF Sound
  <2>6. Len(new) = Len(wire) + 1
    BY <1>4, <2>3
  <2> QED
    BY <2>5, <2>6 DEF new, more
<1> QED
  BY <1>5, <1>6

\* A read takes the oldest record, or what it can of one that is too long.
LEMMA SoundRest ==
  ASSUME NEW wire, NEW c \in BOOLEAN, Sound(wire, c), wire # <<>>
  PROVE  /\ Sound(Rest(wire), c)
         /\ \/ Len(Rest(wire)) = Len(wire) - 1
            \/ c /\ Len(Rest(wire)) = Len(wire)
<1>1. wire \in Seq(Record) /\ Len(wire) \in Nat \ {0}
  BY EmptySeq DEF Sound
<1>2. wire[1] \in Record
  BY <1>1, ElementOfSeq
<1>3. /\ Tail(wire) \in Seq(Record)
      /\ Len(Tail(wire)) = Len(wire) - 1
      /\ \A i \in 1..Len(Tail(wire)) : Tail(wire)[i] = wire[i + 1]
  BY <1>1, HeadTailProperties
<1>4. \A i \in 1..Len(Tail(wire)) : Len(Tail(wire)[i]) > MaxRead => c
  <2> TAKE i \in 1..Len(Tail(wire))
  <2>1. i + 1 \in 1..Len(wire)
    BY <1>1, <1>3
  <2>2. QED
    BY <1>3, <2>1 DEF Sound
<1>5. CASE ~(Len(wire[1]) > MaxRead)
  BY <1>3, <1>4, <1>5 DEF Rest, Sound
<1>6. CASE Len(wire[1]) > MaxRead
  <2> DEFINE rest == SubSeq(wire[1], MaxRead + 1, Len(wire[1]))
  <2>1. c
    BY <1>1, <1>6 DEF Sound
  <2>5. rest \in Record
    BY <1>2, <1>6, RecordLen, PartOfRecord, SessionAssumption
  <2> HIDE DEF rest
  <2>6. <<rest>> \in Seq(Record) /\ Len(<<rest>>) = 1
    BY <2>5
  <2>7. /\ <<rest>> \o Tail(wire) \in Seq(Record)
        /\ Len(<<rest>> \o Tail(wire)) = 1 + Len(Tail(wire))
    BY <1>3, <2>6, ConcatProperties
  <2>8. Rest(wire) = <<rest>> \o Tail(wire)
    BY <1>6 DEF Rest, rest
  <2>9. Len(Rest(wire)) = Len(wire)
    BY <1>1, <1>3, <2>7, <2>8
  <2>10. Rest(wire) \in Seq(Record)
    BY <2>7, <2>8
  <2>11. QED
    BY <2>1, <2>9, <2>10 DEF Sound
<1>7. QED
  BY <1>5, <1>6

\* A record that fits into a read is read as a whole.
LEMMA ReadWhole ==
  ASSUME NEW b \in Record, Len(b) <= MaxRead
  PROVE  Chunk(<<b>>) = b /\ Rest(<<b>>) = <<>>
<1>1. b \in Seq(0..255) /\ Len(b) \in Nat /\ MaxRead \in Nat
  BY LenProperties, SessionAssumption DEF Record
<1>2. Min({MaxRead, Len(b)}) = Len(b)
  <2>1. /\ Len(b) \in {MaxRead, Len(b)}
        /\ \A y \in {MaxRead, Len(b)} : Len(b) =< y
    BY <1>1
  <2>2. \A x \in {MaxRead, Len(b)} :
          (\A y \in {MaxRead, Len(b)} : x =< y) => x = Len(b)
    BY <1>1
  <2>3. QED
    BY <2>1, <2>2 DEF Min
<1>3. SubSeq(b, 1, Len(b)) = b
  BY <1>1, SubSeqFull
<1>4. Tail(<<b>>) = <<>>
  OBVIOUS
<1>5. QED
  BY <1>1, <1>2, <1>3, <1>4 DEF Chunk, Rest

-----------------------------------------------------------------------------
(* Types, and the refinement of Connection.                                *)

\* TypeOK, and how a record that is too long comes about.
BytesInv ==
  /\ client \in {"idle", "waiting", "ended"}
  /\ server \in {"open", "closed"}
  /\ Sound(up, cut) /\ Sound(down, cut)
  /\ asked = None \/ asked \in Requests
  /\ answered = None \/ answered \in AllAnswers
  /\ broken \subseteq {"request", "text", "answer"}
  /\ cut \in BOOLEAN

LEMMA BytesInvTypeOK == BytesInv => TypeOK
<1> SUFFICES ASSUME BytesInv PROVE TypeOK
  OBVIOUS
<1>1. ASSUME NEW wire \in {up, down}, NEW i \in DOMAIN wire
      PROVE  wire[i] # <<>> /\ Range(wire[i]) \subseteq 0..255
  <2>1. wire \in Seq(Record)
    BY DEF BytesInv, Sound
  <2>2. i \in 1..Len(wire)
    BY <2>1, LenProperties
  <2>3. wire[i] \in Record
    BY <2>1, <2>2, ElementOfSeq
  <2>4. QED
    BY <2>3, RangeOfSeq DEF Record
<1>2. QED
  BY <1>1 DEF BytesInv, TypeOK

LEMMA RefusalsAreAnswers == \A a \in Refusals : a \in AllAnswers
<1>1. "login" \in Commands
  BY DEF Commands, RequestFields
<1>2. Refusals \subseteq Answers["login"]
  BY <1>1 DEF Answers
<1>3. QED
  BY <1>1, <1>2, AnswerShape

\* Whatever the server makes of what it reads, it closes or answers once.
ServerTurns ==
  /\ server = "open" /\ up # <<>>
  /\ Close \/ \E a \in AllAnswers : Answer(a)
  /\ broken' \subseteq broken \cup {"request", "text"}
  /\ UNCHANGED <<client, asked>>

LEMMA ServeTurns == ASSUME Serve PROVE ServerTurns
<1>1. ASSUME NEW a \in Refusals PROVE a \in AllAnswers
  BY RefusalsAreAnswers
<1>2. ASSUME NEW c \in Commands, NEW a \in Answers[c] PROVE a \in AllAnswers
  BY AnswerShape
<1>3. ASSUME NEW m, Handle(m)
      PROVE  /\ Close \/ \E a \in AllAnswers : Answer(a)
             /\ broken' \subseteq broken \cup {"request", "text"}
  <2>1. CASE Refuse
    BY <2>1, <1>1 DEF Refuse
  <2>2. ASSUME NEW c \in Commands, NEW args, Dispatch(Call(c, args))
        PROVE  /\ Close \/ \E a \in AllAnswers : Answer(a)
               /\ broken' \subseteq broken \cup {"request", "text"}
    <3>1. Call(c, args).cmd = c
      BY DEF Call
    <3>2. Close \/ \E a \in Answers[c] : Answer(a)
      BY <2>2, <3>1 DEF Dispatch
    <3>3. broken' \subseteq broken \cup {"request", "text"}
      BY <2>2 DEF Dispatch
    <3>4. QED
      BY <1>2, <3>2, <3>3
  <2>3. QED
    BY <1>3, <2>1, <2>2 DEF Handle
<1>4. server = "open" /\ up # <<>> /\ UNCHANGED <<client, asked>>
  BY DEF Serve
<1>5. \/ \E m : Handle(m)
      \/ broken' = broken \cup {"request"} /\ Close
      \/ broken' = broken \cup {"request"} /\ \E a \in AllAnswers : Answer(a)
  BY DEF Serve
<1>6. QED
  BY <1>3, <1>4, <1>5 DEF ServerTurns

\* Whatever the client makes of what it reads, it has read once or has ended.
ClientTurns ==
  /\ client = "waiting" /\ down # <<>>
  /\ \/ End
     \/ client' = "idle" /\ down' = Rest(down) /\ UNCHANGED <<server, up, cut>>
  /\ broken' = broken \/ broken' = broken \cup {"answer"}
  /\ answered' = None
  /\ UNCHANGED asked

LEMMA ReceiveTurns == ASSUME Receive PROVE ClientTurns
<1> DEFINE Ends ==
      \/ End
      \/ client' = "idle" /\ down' = Rest(down) /\ UNCHANGED <<server, up, cut>>
    Blames == broken' = broken \/ broken' = broken \cup {"answer"}
<1>1. ASSUME NEW a, Show(a) PROVE Blames
  BY <1>1 DEF Show
<1>2. CliError => Ends
  BY DEF CliError
<1>3. down # <<>> /\ Throw => Ends
  BY DEF Throw
<1>4. ASSUME NEW m, Take(m) PROVE Ends /\ Blames
  BY <1>1, <1>2, <1>4 DEF Take
<1>5. client = "waiting" /\ down # <<>> /\ answered' = None /\ UNCHANGED asked
  BY DEF Receive
<1>6. \/ \E m : Take(m)
      \/ Show(None) /\ Throw
      \/ Show(None) /\ client' = "idle" /\ down' = Rest(down)
         /\ UNCHANGED <<server, up, cut>>
  BY DEF Receive
<1>7. Ends /\ Blames
  BY <1>1, <1>3, <1>4, <1>5, <1>6
<1>8. QED
  BY <1>5, <1>7 DEF ClientTurns

\* Every step keeps the types and is one of Connection's, or none.
LEMMA EndStep ==
  ASSUME BytesInv, End,
         client = "idle" \/ (client = "waiting" /\ (down # <<>> \/ server = "closed")),
         asked' = None \/ asked' \in Requests,
         answered' = None \/ answered' \in AllAnswers,
         broken' \subseteq {"request", "text", "answer"}
  PROVE  BytesInv' /\ Promised!End
<1>1. /\ client' = "ended" /\ up' = <<>> /\ down' = <<>>
      /\ server' = server /\ cut' = cut
  BY DEF End
<1>2. Sound(up', cut') /\ Sound(down', cut') /\ Len(up') = 0 /\ Len(down') = 0
  BY <1>1, SoundEmpty
<1>3. BytesInv'
  BY <1>1, <1>2 DEF BytesInv
<1>4. Len(down) \in Nat /\ (Len(down) = 0 <=> down = <<>>)
  BY SoundLen DEF BytesInv
<1>5. QED
  BY <1>1, <1>2, <1>3, <1>4 DEF Promised!End

LEMMA AskStep ==
  ASSUME BytesInv, NEW r \in Requests, Ask(r)
  PROVE  BytesInv' /\ [Promised!Next]_(Promised!vars)
<1>1. /\ client = "idle" /\ asked' = r
      /\ answered' = answered /\ broken' = broken
  BY DEF Ask
<1>2. /\ asked' \in Requests
      /\ answered' = None \/ answered' \in AllAnswers
      /\ broken' \subseteq {"request", "text", "answer"}
  BY <1>1 DEF BytesInv
<1>3. CASE End
  BY <1>1, <1>2, <1>3, EndStep DEF Promised!Next
<1>4. CASE UNCHANGED <<client, server, up, down, cut>>
  BY <1>2, <1>4 DEF BytesInv, Promised!vars
<1>5. CASE /\ Encodable(To(r.cmd, r.args)) /\ client' = "waiting"
           /\ server = "open" /\ Sent(To(r.cmd, r.args), up)
           /\ UNCHANGED <<server, down>>
  <2>1. /\ up' = up \o Records(Encode(To(r.cmd, r.args)))
        /\ cut' = (cut \/ Len(Encode(To(r.cmd, r.args))) > MaxRead)
    BY <1>5 DEF Sent
  <2>2. cut \in BOOLEAN /\ Sound(up, cut) /\ Sound(down, cut)
    BY DEF BytesInv
  <2>3. /\ Sound(up', cut') /\ cut' \in {cut, TRUE}
        /\ Promised!Written(Len(up), Len(up'))
    <3> DEFINE b == Encode(To(r.cmd, r.args))
    <3>1. b \in Record
      BY <1>5, SentRecord
    <3>2. up' = up \o Records(b) /\ cut' = (cut \/ Len(b) > MaxRead)
      BY <2>1
    <3> HIDE DEF b
    <3>3. cut' \in BOOLEAN /\ cut' \in {cut, TRUE}
      BY <2>2, <3>2
    <3>4. QED
      BY <2>2, <3>1, <3>2, <3>3, SoundAppend DEF Promised!Written
  <2>4. Sound(down', cut')
    BY <1>5, <2>2, <2>3, SoundLater
  <2>5. BytesInv'
    BY <1>2, <1>5, <2>2, <2>3, <2>4 DEF BytesInv
  <2>6. Promised!Ask
    BY <1>1, <1>5, <2>3 DEF Promised!Ask
  <2>7. QED
    BY <2>5, <2>6 DEF Promised!Next
<1>6. CASE /\ client' = "waiting" /\ server # "open"
           /\ UNCHANGED <<server, up, down, cut>>
  <2>1. BytesInv'
    BY <1>2, <1>6 DEF BytesInv
  <2>2. Promised!Ask
    BY <1>1, <1>6 DEF BytesInv, Promised!Ask
  <2>3. QED
    BY <2>1, <2>2 DEF Promised!Next
<1>7. QED
  BY <1>3, <1>4, <1>5, <1>6 DEF Ask

LEMMA CloseStep ==
  ASSUME BytesInv, Close, server = "open",
         client' = client, asked' = asked,
         broken' \subseteq {"request", "text", "answer"}
  PROVE  BytesInv' /\ Promised!Close
<1>1. /\ server' = "closed" /\ up' = <<>>
      /\ down' = down /\ answered' = answered /\ cut' = cut
  BY DEF Close
<1>2. Sound(up', cut') /\ Len(up') = 0
  BY <1>1, SoundEmpty
<1>3. BytesInv'
  BY <1>1, <1>2 DEF BytesInv
<1>4. QED
  BY <1>1, <1>2, <1>3 DEF Promised!Close

LEMMA AnswerStep ==
  ASSUME BytesInv, NEW a \in AllAnswers, Answer(a), server = "open", up # <<>>,
         client' = client, asked' = asked,
         broken' \subseteq {"request", "text", "answer"}
  PROVE  BytesInv' /\ Promised!Next
<1>1. CASE ~Encodable(To(a.cmd, a.args))
  BY <1>1, CloseStep DEF Answer, Promised!Next
<1>2. CASE Encodable(To(a.cmd, a.args))
  <2>1. /\ down' = down \o Records(Encode(To(a.cmd, a.args)))
        /\ cut' = (cut \/ Len(Encode(To(a.cmd, a.args))) > MaxRead)
        /\ answered' = a \/ answered' = None
        /\ \/ up' = Rest(up) /\ server' = server
           \/ up' = <<>> /\ server' = "closed"
    BY <1>2 DEF Answer, Sent
  <2>2. cut \in BOOLEAN /\ Sound(up, cut) /\ Sound(down, cut)
    BY DEF BytesInv
  <2>3. /\ Sound(down', cut') /\ cut' \in {cut, TRUE}
        /\ Promised!Written(Len(down), Len(down'))
    <3> DEFINE b == Encode(To(a.cmd, a.args))
    <3>1. b \in Record
      BY <1>2, SentRecord
    <3>2. down' = down \o Records(b) /\ cut' = (cut \/ Len(b) > MaxRead)
      BY <2>1
    <3> HIDE DEF b
    <3>3. cut' \in BOOLEAN /\ cut' \in {cut, TRUE}
      BY <2>2, <3>2
    <3>4. QED
      BY <2>2, <3>1, <3>2, <3>3, SoundAppend DEF Promised!Written
  <2>4. /\ Sound(Rest(up), cut)
        /\ Len(Rest(up)) = Len(up) - 1 \/ (cut /\ Len(Rest(up)) = Len(up))
    BY <2>2, SoundRest
  <2>5. Len(up) \in Nat /\ Len(up) > 0
    BY <2>2, SoundLen
  <2>6. Sound(up', cut')
    BY <2>1, <2>2, <2>3, <2>4, SoundEmpty, SoundLater
  <2>7. BytesInv'
    BY <2>1, <2>2, <2>3, <2>6 DEF BytesInv
  <2>8. Promised!Answer
    BY <2>1, <2>3, <2>4, <2>5, SoundEmpty
       DEF Promised!Answer, Promised!Taken
  <2>9. QED
    BY <2>7, <2>8 DEF Promised!Next
<1>3. QED
  BY <1>1, <1>2

LEMMA ServeStep ==
  ASSUME BytesInv, Serve
  PROVE  BytesInv' /\ Promised!Next
<1>1. ServerTurns
  BY ServeTurns
<1>2. broken' \subseteq {"request", "text", "answer"}
  BY <1>1 DEF ServerTurns, BytesInv
<1>3. QED
  BY <1>1, <1>2, CloseStep, AnswerStep DEF ServerTurns, Promised!Next

LEMMA ReceiveStep ==
  ASSUME BytesInv, Receive
  PROVE  BytesInv' /\ Promised!Next
<1>1. ClientTurns
  BY ReceiveTurns
<1>2. /\ broken' \subseteq {"request", "text", "answer"}
      /\ asked' = None \/ asked' \in Requests
      /\ answered' = None
  BY <1>1 DEF ClientTurns, BytesInv
<1>3. CASE End
  BY <1>1, <1>2, <1>3, EndStep DEF ClientTurns, Promised!Next
<1>4. CASE client' = "idle" /\ down' = Rest(down) /\ UNCHANGED <<server, up, cut>>
  <2>1. cut \in BOOLEAN /\ Sound(up, cut) /\ Sound(down, cut)
    BY DEF BytesInv
  <2>2. /\ Sound(Rest(down), cut)
        /\ Len(Rest(down)) = Len(down) - 1 \/ (cut /\ Len(Rest(down)) = Len(down))
    BY <1>1, <2>1, SoundRest DEF ClientTurns
  <2>3. Len(down) \in Nat /\ Len(down) > 0
    BY <1>1, <2>1, SoundLen DEF ClientTurns
  <2>4. BytesInv'
    BY <1>2, <1>4, <2>1, <2>2 DEF BytesInv
  <2>5. Promised!Receive
    BY <1>1, <1>4, <2>2, <2>3 DEF ClientTurns, Promised!Receive, Promised!Taken
  <2>6. QED
    BY <2>4, <2>5 DEF Promised!Next
<1>5. QED
  BY <1>1, <1>3, <1>4 DEF ClientTurns

LEMMA HangupStep ==
  ASSUME BytesInv, Hangup
  PROVE  BytesInv' /\ Promised!Next
<1>1. /\ client = "waiting" /\ server = "closed" /\ down = <<>> /\ Throw
      /\ asked' = asked /\ answered' = answered /\ broken' = broken
  BY DEF Hangup
<1>2. CASE End
  BY <1>1, <1>2, EndStep DEF BytesInv, Promised!Next
<1>3. CASE client' = "idle" /\ down' = <<>> /\ UNCHANGED <<server, up, cut>>
  <2>1. BytesInv'
    BY <1>1, <1>3 DEF BytesInv
  <2>2. Promised!Hangup
    BY <1>1, <1>3, SoundEmpty DEF Promised!Hangup
  <2>3. QED
    BY <2>1, <2>2 DEF Promised!Next
<1>4. QED
  BY <1>1, <1>2, <1>3 DEF Throw

LEMMA BytesStep ==
  ASSUME BytesInv, [Next]_vars
  PROVE  BytesInv' /\ [Promised!Next]_(Promised!vars)
<1>1. CASE \E r \in Requests : Ask(r)
  BY <1>1, AskStep
<1>2. CASE Serve
  BY <1>2, ServeStep
<1>3. CASE Receive
  BY <1>3, ReceiveStep
<1>4. CASE Hangup
  BY <1>4, HangupStep
<1>5. CASE Quit
  BY <1>5, EndStep DEF Quit, BytesInv, Promised!Next
<1>6. CASE UNCHANGED vars
  BY <1>6 DEF vars, BytesInv, Promised!vars
<1>7. QED
  BY <1>1, <1>2, <1>3, <1>4, <1>5, <1>6 DEF Next

LEMMA BytesStart ==
  ASSUME Init
  PROVE  BytesInv /\ Promised!Init
BY SoundEmpty DEF Init, BytesInv, Promised!Init

LEMMA BytesInvariance == Spec => []BytesInv
<1>1. Init => BytesInv
  BY BytesStart
<1>2. BytesInv /\ [Next]_vars => BytesInv'
  BY BytesStep
<1>3. QED
  BY <1>1, <1>2, PTL DEF Spec

\* The types, and that no empty record is ever written: a read that returns
\* has something to hand on (tls_connection::send, message::send_to).
THEOREM TypeCorrect == Spec => []TypeOK
BY BytesInvariance, BytesInvTypeOK, PTL

\* Requests, answers, rests and the end of a connection come as Connection
\* says, in whatever bytes the messages are written and wherever a read ends
\* (run_boilerplate, thread_conn::callback, tls_connection::read).
THEOREM BytesKeepThePromise == Spec => ImplementsConnection
<1>1. Init => Promised!Init
  BY BytesStart
<1>2. BytesInv /\ [Next]_vars => [Promised!Next]_(Promised!vars)
  BY BytesStep
<1>3. QED
  BY <1>1, <1>2, BytesInvariance, PTL DEF Spec, Promised!Spec, ImplementsConnection

LEMMA InvReadsBack == BytesInv => ReadsBack
<1> SUFFICES ASSUME BytesInv PROVE ReadsBack
  OBVIOUS
<1>1. \A m, n : DecodesTo(m, n) /\ Intact(n, m) => Carries(m)
  BY Zenon DEF DecodesTo, Carries
<1>2. asked # None => Carries(To(asked.cmd, asked.args))
  BY <1>1, RequestComesBack, RequestIntact, Zenon DEF BytesInv
<1>3. answered # None => Carries(To(answered.cmd, answered.args))
  BY <1>1, AnswerComesBack, SameIsIntact, Zenon DEF BytesInv
<1>4. QED
  BY <1>2, <1>3 DEF ReadsBack

\* The bytes message.cpp writes of the request sent last and of the answer
\* given last it reads back as that request, its texts as far as their first
\* NUL, and as that answer (message::send_to, the constructor of message).
THEOREM MessagesReadBack == Spec => []ReadsBack
BY BytesInvariance, InvReadsBack, PTL

LEMMA NotEmptied ==
  ASSUME NEW wire \in Seq(Record), NEW b \in Record
  PROVE  wire \o Records(b) # <<>>
<1> DEFINE more == Records(b)
<1>1. more \in Seq(Record) /\ Len(more) \in Nat \ {0}
  BY RecordsOf
<1> HIDE DEF more
<1>2. wire \o more \in Seq(Record) /\ Len(wire \o more) = Len(wire) + Len(more)
  BY <1>1, ConcatProperties
<1>3. Len(wire \o more) # 0
  BY <1>1, <1>2, LenProperties
<1>4. QED
  BY <1>2, <1>3, EmptySeq DEF more

\* A client that waits has its request, its answer or the end of the
\* connection to come, whatever part of a message is read for a whole one.
THEOREM SomethingComes == Spec => []NobodyWaits
<1>1. Init => NobodyWaits
  BY DEF Init, NobodyWaits
<1>2. BytesInv /\ NobodyWaits /\ [Next]_vars => NobodyWaits'
  <2> SUFFICES ASSUME BytesInv, NobodyWaits, [Next]_vars PROVE NobodyWaits'
    OBVIOUS
  <2>1. CASE \E r \in Requests : Ask(r)
    <3>1. PICK r \in Requests : Ask(r)
      BY <2>1
    <3>2. \/ client' # "waiting"
          \/ server = "closed" /\ server' = server
          \/ server = "open" /\ Encodable(To(r.cmd, r.args)) /\ Sent(To(r.cmd, r.args), up)
      BY <3>1 DEF Ask, End, BytesInv
    <3>3. ASSUME Encodable(To(r.cmd, r.args)), Sent(To(r.cmd, r.args), up)
          PROVE  up' # <<>>
      <4>1. Encode(To(r.cmd, r.args)) \in Record /\ up \in Seq(Record)
        BY <3>3, SentRecord DEF BytesInv, Sound
      <4>2. QED
        BY <3>3, <4>1, NotEmptied DEF Sent
    <3>4. QED
      BY <3>2, <3>3 DEF NobodyWaits
  <2>2. CASE Serve
    <3>1. Close \/ \E a \in AllAnswers : Answer(a)
      BY <2>2, ServeTurns DEF ServerTurns
    <3>2. ASSUME NEW a \in AllAnswers, Answer(a), Encodable(To(a.cmd, a.args))
          PROVE  down' # <<>>
      <4>1. Encode(To(a.cmd, a.args)) \in Record /\ down \in Seq(Record)
        BY <3>2, SentRecord DEF BytesInv, Sound
      <4>2. QED
        BY <3>2, <4>1, NotEmptied DEF Answer, Sent
    <3>3. QED
      BY <3>1, <3>2 DEF Answer, Close, NobodyWaits
  <2>3. CASE Receive
    BY <2>3, ReceiveTurns DEF ClientTurns, End, NobodyWaits
  <2>4. CASE Hangup
    BY <2>4 DEF Hangup, Throw, End, NobodyWaits
  <2>5. CASE Quit
    BY <2>5 DEF Quit, End, NobodyWaits
  <2>6. CASE UNCHANGED vars
    BY <2>6 DEF vars, NobodyWaits
  <2>7. QED
    BY <2>1, <2>2, <2>3, <2>4, <2>5, <2>6 DEF Next
<1>3. QED
  BY <1>1, <1>2, BytesInvariance, PTL DEF Spec

-----------------------------------------------------------------------------
(* What is sent arrives, while every message fits into a read.             *)

\* The request is on its way, or its answer, or the server gave it up.
OnItsWay ==
  /\ asked \in Requests
  /\ \/ /\ server = "open"
        /\ Encodable(To(asked.cmd, asked.args))
        /\ up = <<Encode(To(asked.cmd, asked.args))>> /\ down = <<>>
     \/ /\ answered \in Answers[asked.cmd]
        /\ Encodable(To(answered.cmd, answered.args))
        /\ up = <<>> /\ down = <<Encode(To(answered.cmd, answered.args))>>
     \/ server = "closed" /\ up = <<>> /\ down = <<>>

\* Nothing but texts was broken, and the only message on the connection is the one the
\* client waits for.
Arrives ==
  /\ broken \subseteq {"text"}
  /\ client = "waiting" => OnItsWay
  /\ client # "waiting" => up = <<>> /\ down = <<>>

\* As long as no message was cut.
ArrivesInv == ~cut => Arrives

LEMMA NeverUncut == ASSUME BytesInv, [Next]_vars, ~cut' PROVE ~cut
<1>1. cut' = cut \/ cut' = TRUE
  BY BytesStep DEF Promised!Next, Promised!vars, Promised!Ask, Promised!Answer,
     Promised!Close, Promised!Receive, Promised!Hangup, Promised!End, Promised!Written
<1>2. QED
  BY <1>1

\* A message that fits is read as it was written.
LEMMA Whole ==
  ASSUME BytesInv, ~cut, NEW b, <<b>> \in {up, down}
  PROVE  Chunk(<<b>>) = b /\ Rest(<<b>>) = <<>>
<1>1. <<b>> \in Seq(Record) /\ \A i \in 1..Len(<<b>>) : ~(Len(<<b>>[i]) > MaxRead)
  BY DEF BytesInv, Sound
<1>2. 1 \in 1..Len(<<b>>) /\ <<b>>[1] = b
  OBVIOUS
<1>3. b \in Record /\ ~(Len(b) > MaxRead)
  BY <1>1, <1>2, ElementOfSeq
<1>4. Len(b) <= MaxRead
  BY <1>3, RecordLen, SessionAssumption
<1>5. QED
  BY <1>3, <1>4, ReadWhole

LEMMA SentWhole ==
  ASSUME NEW b \in Record, ~(Len(b) > MaxRead)
  PROVE  <<>> \o Records(b) = <<b>>
<1>1. Len(b) <= MaxRead
  BY RecordLen, SessionAssumption
<1>2. Records(b) = <<b>>
  BY <1>1, RecordsOf
<1>3. QED
  BY <1>2

\* The whole request reaches its own handler.
LEMMA HandlesTheRequest ==
  ASSUME BytesInv, ~cut, Arrives, client = "waiting", Serve
  PROVE  Dispatch(Received(asked))
<1>1. /\ asked \in Requests
      /\ server = "open" /\ Encodable(To(asked.cmd, asked.args))
      /\ up = <<Encode(To(asked.cmd, asked.args))>> /\ down = <<>>
  BY DEF Serve, Arrives, OnItsWay
<1> DEFINE m == To(Received(asked).cmd, Received(asked).args)
<1>2. Chunk(up) = Encode(To(asked.cmd, asked.args))
  BY <1>1, Whole
<1>3. Decode(Chunk(up)).st = "value" /\ Decode(Chunk(up)).v = m
  BY <1>1, <1>2, RequestComesBack DEF DecodesTo
<1>4. Handle(m)
  BY <1>3 DEF Serve
<1>5. /\ asked.cmd \in Commands /\ Received(asked).cmd = asked.cmd
      /\ Received(asked) = Call(asked.cmd, Received(asked).args)
  BY <1>1, RequestShape DEF Received, Call
<1>6. /\ \A c \in Commands : m.cmd = Name(c) => c = asked.cmd
      /\ Convertible(RequestFields[asked.cmd], m.args)
      /\ From(RequestFields[asked.cmd], m.args) = Received(asked).args
  BY <1>1, <1>5, ObjectsComeBack
<1>7. m.cmd = Name(asked.cmd)
  BY <1>5 DEF To
<1> HIDE DEF m
<1>8. QED
  BY <1>4, <1>5, <1>6, <1>7 DEF Handle

\* The client goes on with the answer that was given.
LEMMA TakesTheAnswer ==
  ASSUME BytesInv, ~cut, Arrives, client = "waiting", Receive
  PROVE  /\ broken' = broken
         /\ up = <<>> /\ Rest(down) = <<>>
<1>1. /\ asked \in Requests /\ answered \in Answers[asked.cmd]
      /\ Encodable(To(answered.cmd, answered.args))
      /\ up = <<>> /\ down = <<Encode(To(answered.cmd, answered.args))>>
  BY DEF Receive, Arrives, OnItsWay
<1> DEFINE m == To(answered.cmd, answered.args)
           fields == FieldsOf(answered.cmd, asked.cmd)
<1>2. Chunk(down) = Encode(m) /\ Rest(down) = <<>>
  BY <1>1, Whole
<1>3. asked.cmd \in Commands
  BY <1>1, RequestShape
<1>4. answered \in AllAnswers
  BY <1>1, <1>3, AnswerShape
<1>5. Decode(Chunk(down)).st = "value" /\ Decode(Chunk(down)).v = m
  BY <1>1, <1>2, <1>4, AnswerComesBack DEF DecodesTo
<1>6. Take(m)
  BY <1>5 DEF Receive
<1>7. /\ m.cmd = Name("ok") <=> answered.cmd = "ok"
      /\ Convertible(fields, m.args)
      /\ From(fields, m.args) = answered.args
  BY <1>1, <1>3, ObjectsComeBack
<1>8. /\ answered.cmd \in {"ok", "err"}
      /\ answered = Call(answered.cmd, answered.args)
  BY <1>1, <1>3, AnswerShape
<1> HIDE DEF m
<1>9. Show(answered)
  <2>1. CASE answered.cmd = "ok"
    BY <1>6, <1>7, <1>8, <2>1 DEF Take, FieldsOf
  <2>2. CASE answered.cmd = "err"
    BY <1>6, <1>7, <1>8, <2>2 DEF Take, FieldsOf
  <2>3. QED
    BY <1>8, <2>1, <2>2
<1>10. QED
  BY <1>1, <1>2, <1>9 DEF Show

LEMMA ArrivesStep ==
  ASSUME BytesInv, ArrivesInv, [Next]_vars
  PROVE  ArrivesInv'
<1> SUFFICES ASSUME ~cut' PROVE Arrives'
  BY DEF ArrivesInv
<1>1. ~cut /\ Arrives
  BY NeverUncut DEF ArrivesInv
<1>2. broken \subseteq {"text"}
  BY <1>1 DEF Arrives
<1>3. ASSUME End, broken' = broken PROVE Arrives'
  BY <1>2, <1>3 DEF End, Arrives
<1>4. CASE \E r \in Requests : Ask(r)
  <2>1. PICK r \in Requests : Ask(r)
    BY <1>4
  <2>2. /\ client = "idle" /\ asked' = r /\ broken' = broken
        /\ up = <<>> /\ down = <<>>
    BY <1>1, <2>1 DEF Ask, Arrives
  <2>3. CASE End
    BY <1>3, <2>2, <2>3
  <2>4. CASE UNCHANGED <<client, server, up, down, cut>>
    BY <1>2, <2>2, <2>4 DEF Arrives
  <2>5. CASE /\ Encodable(To(r.cmd, r.args)) /\ client' = "waiting"
             /\ server = "open" /\ Sent(To(r.cmd, r.args), up)
             /\ UNCHANGED <<server, down>>
    <3> DEFINE b == Encode(To(r.cmd, r.args))
    <3>1. up' = <<>> \o Records(b) /\ ~(Len(b) > MaxRead)
      BY <2>2, <2>5 DEF Sent
    <3>2. up' = <<b>>
      BY <2>5, <3>1, SentRecord, SentWhole
    <3>3. OnItsWay'
      BY <2>1, <2>2, <2>5, <3>2 DEF OnItsWay
    <3>4. QED
      BY <1>2, <2>2, <2>5, <3>3 DEF Arrives
  <2>6. CASE /\ client' = "waiting" /\ server # "open"
             /\ UNCHANGED <<server, up, down, cut>>
    <3>1. OnItsWay'
      BY <2>1, <2>2, <2>6 DEF OnItsWay, BytesInv
    <3>2. QED
      BY <1>2, <2>2, <2>6, <3>1 DEF Arrives
  <2>7. QED
    BY <2>1, <2>3, <2>4, <2>5, <2>6 DEF Ask
<1>5. CASE Serve
  <2>1. client = "waiting"
    BY <1>1, <1>5 DEF Serve, Arrives
  <2>2. Dispatch(Received(asked))
    BY <1>1, <1>5, <2>1, HandlesTheRequest
  <2>3. /\ asked \in Requests /\ Received(asked).cmd = asked.cmd
        /\ client' = client /\ asked' = asked /\ broken' \subseteq {"text"}
    <3>1. asked \in Requests
      BY <1>1, <2>1 DEF Arrives, OnItsWay
    <3>2. broken' = broken \/ broken' = broken \cup {"text"}
      BY <2>2, <3>1, RequestIntact DEF Dispatch
    <3>3. QED
      BY <1>2, <1>5, <3>1, <3>2 DEF Serve, Received, Call
  <2>4. up = <<Encode(To(asked.cmd, asked.args))>> /\ down = <<>>
    BY <1>1, <1>5, <2>1 DEF Serve, Arrives, OnItsWay
  <2>5. ASSUME Close PROVE OnItsWay'
    BY <2>3, <2>4, <2>5 DEF Close, OnItsWay
  <2>6. ASSUME NEW a \in Answers[asked.cmd], Answer(a), Encodable(To(a.cmd, a.args))
        PROVE  OnItsWay'
    <3> DEFINE b == Encode(To(a.cmd, a.args))
    <3>1. /\ down' = <<>> \o Records(b) /\ ~(Len(b) > MaxRead)
          /\ answered' = a
      BY <2>3, <2>4, <2>6 DEF Answer, Sent
    <3>2. a \in AllAnswers
      BY <2>3, <2>6, RequestShape, AnswerShape
    <3>3. down' = <<b>>
      BY <2>6, <3>1, <3>2, SentRecord, SentWhole
    <3>4. Rest(up) = <<>>
      BY <1>1, <2>4, Whole
    <3>5. up' = <<>>
      BY <2>6, <3>4 DEF Answer
    <3>6. QED
      BY <2>3, <2>6, <3>1, <3>3, <3>5 DEF OnItsWay
  <2>7. OnItsWay'
    BY <2>2, <2>3, <2>5, <2>6 DEF Dispatch, Answer
  <2>8. QED
    BY <2>1, <2>3, <2>7 DEF Arrives
<1>6. CASE Receive
  <2>1. client = "waiting" /\ ClientTurns
    BY <1>6, ReceiveTurns DEF ClientTurns
  <2>2. broken' = broken /\ up = <<>> /\ Rest(down) = <<>>
    BY <1>1, <1>6, <2>1, TakesTheAnswer
  <2>3. QED
    BY <1>2, <1>3, <2>1, <2>2 DEF ClientTurns, Arrives
<1>7. CASE Hangup
  <2>1. /\ broken' = broken /\ down = <<>> /\ Throw
        /\ client = "waiting" /\ server = "closed"
    BY <1>7 DEF Hangup
  <2>2. up = <<>>
    BY <1>1, <2>1 DEF Arrives, OnItsWay
  <2>3. QED
    BY <1>2, <1>3, <2>1, <2>2 DEF Throw, Arrives
<1>8. CASE Quit
  BY <1>3, <1>8 DEF Quit
<1>9. CASE UNCHANGED vars
  BY <1>1, <1>9 DEF vars, Arrives, OnItsWay
<1>10. QED
  BY <1>4, <1>5, <1>6, <1>7, <1>8, <1>9 DEF Next

LEMMA ArrivesInvariance == Spec => []ArrivesInv
<1>1. Init => ArrivesInv
  BY DEF Init, ArrivesInv, Arrives
<1>2. BytesInv /\ ArrivesInv /\ [Next]_vars => ArrivesInv'
  BY ArrivesStep
<1>3. QED
  BY <1>1, <1>2, BytesInvariance, PTL DEF Spec

\* As long as every message fits into a read the server handles the request the
\* client waits for, with every number and every text in which there is no NUL
\* as they were sent (protocol::requests from(), thread_conn::callback, handle).
THEOREM SentRequestsArrive == Spec => []RequestsArrive
<1>1. ArrivesInv => RequestsArrive
  BY DEF ArrivesInv, Arrives, RequestsArrive
<1>2. QED
  BY <1>1, ArrivesInvariance, PTL

\* As long as every message fits into a read the client goes on with the
\* answer the server gave to this very request (cli::run_boilerplate).
THEOREM SentAnswersArrive == Spec => []AnswersArrive
<1>1. ArrivesInv => AnswersArrive
  BY DEF ArrivesInv, Arrives, AnswersArrive
<1>2. QED
  BY <1>1, ArrivesInvariance, PTL

=============================================================================
