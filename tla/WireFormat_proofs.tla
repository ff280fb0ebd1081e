-------------------------- MODULE WireFormat_proofs --------------------------
(***************************************************************************)
(* Proofs about WireFormat for every limit, every text and every number:   *)
(* what is written is read back, whatever follows it in the stream and     *)
(* wherever the stream drops what was read.                                *)
(*                                                                         *)
(* What is still to be read of a stream is its Ahead.  Each reader comes   *)
(* with a lemma of one form: when a value's bytes are ahead, and then t,   *)
(* the reader gives that value and leaves t ahead.                         *)
(***************************************************************************)
EXTENDS WireFormat, FiniteSetTheorems, SequenceTheorems, WellFoundedInduction,
        TLAPS

-----------------------------------------------------------------------------
(* Induction, over a set of numbers.                                       *)

LEMMA Least ==
  ASSUME NEW T \in SUBSET Nat, T # {}
  PROVE  \E m \in T : \A k \in T : m <= k
PROOF
  <1> DEFINE R == {p \in Nat \X Nat : p[1] < p[2]}
  <1>1. IsWellFoundedOn(R, Nat)
    BY NatLessThanWellFounded, Zenon DEF OpToRel
  <1>2. PICK m \in T : \A k \in T : <<k, m>> \notin R
    BY <1>1, WFMin, Zenon
  <1>3. \A k \in Nat : k < m => <<k, m>> \in R
    OBVIOUS
  <1> HIDE DEF R
  <1>4. ASSUME NEW k \in T
        PROVE  m <= k
    <2>1. ~(k < m)
      BY <1>2, <1>3, Zenon
    <2> QED
      BY <2>1
  <1> QED
    BY <1>4

LEMMA Induction ==
  ASSUME NEW T \in SUBSET Nat, 0 \in T, \A k \in T : k + 1 \in T
  PROVE  T = Nat
PROOF
  <1> SUFFICES ASSUME Nat \ T # {} PROVE FALSE
    OBVIOUS
  <1>1. PICK m \in Nat \ T : \A k \in Nat \ T : m <= k
    BY Least
  <1>2. m # 0 /\ m - 1 \in T
    BY <1>1
  <1> QED
    BY <1>1, <1>2

\* The same up to n.
LEMMA InductionTo ==
  ASSUME NEW n \in Nat, NEW T, 0 \in T, \A k \in 1..n : k - 1 \in T => k \in T
  PROVE  \A k \in 0..n : k \in T
PROOF
  <1> DEFINE U == {k \in Nat : k <= n => k \in T}
  <1>1. U \in SUBSET Nat /\ 0 \in U
    OBVIOUS
  <1>2. \A k \in U : k + 1 \in U
    OBVIOUS
  <1>3. U = Nat
    BY <1>1, <1>2, Induction
  <1> QED
    BY <1>3

-----------------------------------------------------------------------------
(* The functions WireFormat defines by recursion satisfy their equations.  *)

\* What one more value makes of what was read before.
More(read, r) ==
  Then(r, LAMBDA vs, s1 :
    Then(read[s1], LAMBDA v, s2 : Value(Append(vs, v), s2)))

LEMMA ReadsDef ==
  ASSUME NEW n \in Nat, NEW read, NEW s
  PROVE  Reads(n, read, s) =
           [i \in 0..n |-> IF i = 0 THEN Value(<<>>, s)
                                    ELSE More(read, Reads(n, read, s)[i - 1])]
PROOF
  <1> DEFINE a == Value(<<>>, s)
             G(r) == More(read, r)
             T == {k \in Nat : \E f : f = [i \in 0..k |->
                                 IF i = 0 THEN a ELSE G(f[i - 1])]}
             first[i \in 0..n] == IF i = 0 THEN a ELSE G(first[i - 1])
  <1>1. Reads(n, read, s) = first
    BY Zenon DEF Reads, More
  <1> HIDE DEF G, a
  <1>2. 0 \in T
    <2> DEFINE f == [i \in 0..0 |-> a]
    <2>1. f = [i \in 0..0 |-> IF i = 0 THEN a ELSE G(f[i - 1])]
      OBVIOUS
    <2> QED
      BY <2>1
  <1>3. ASSUME NEW k \in T
        PROVE  k + 1 \in T
    <2>1. PICK g : g = [i \in 0..k |-> IF i = 0 THEN a ELSE G(g[i - 1])]
      OBVIOUS
    <2> DEFINE f == [i \in 0..(k + 1) |-> IF i <= k THEN g[i] ELSE G(g[k])]
    <2>2. \A i \in 0..(k + 1) : f[i] = IF i = 0 THEN a ELSE G(f[i - 1])
      BY <2>1
    <2>3. f = [i \in 0..(k + 1) |-> IF i = 0 THEN a ELSE G(f[i - 1])]
      BY <2>2
    <2> HIDE DEF f
    <2> QED
      BY <2>3
  <1>4. n \in T
    <2>1. T \in SUBSET Nat
      OBVIOUS
    <2> HIDE DEF T
    <2> QED
      BY <2>1, <1>2, <1>3, Induction
  <1>5. \E f : f = [i \in 0..n |-> IF i = 0 THEN a ELSE G(f[i - 1])]
    BY <1>4
  <1>6. first = [i \in 0..n |-> IF i = 0 THEN a ELSE G(first[i - 1])]
    BY <1>5, Zenon
  <1> QED
    BY <1>1, <1>6, Zenon DEF G, a

\* The readers of values, one nesting deeper.
Deeper(value) ==
  [code \in Byte |-> [s \in Stream |-> ReadCode(code, value, s)]]

Deepest == [code \in Byte |-> [s \in Stream |-> Failed]]

LEMMA ReadValuesDef ==
  ASSUME NEW n \in Nat
  PROVE  ReadValues(n) =
           [d \in 0..n |-> IF d = 0 THEN Deepest
                                    ELSE Deeper(ReadValues(n)[d - 1])]
PROOF
  <1> DEFINE a == Deepest
             G(r) == Deeper(r)
             T == {k \in Nat : \E f : f = [i \in 0..k |->
                                 IF i = 0 THEN a ELSE G(f[i - 1])]}
             deep[d \in 0..n] == IF d = 0 THEN a ELSE G(deep[d - 1])
  <1>1. ReadValues(n) = deep
    BY Zenon DEF ReadValues, Deeper, Deepest
  <1> HIDE DEF G, a
  <1>2. 0 \in T
    <2> DEFINE f == [i \in 0..0 |-> a]
    <2>1. f = [i \in 0..0 |-> IF i = 0 THEN a ELSE G(f[i - 1])]
      OBVIOUS
    <2> QED
      BY <2>1
  <1>3. ASSUME NEW k \in T
        PROVE  k + 1 \in T
    <2>1. PICK g : g = [i \in 0..k |-> IF i = 0 THEN a ELSE G(g[i - 1])]
      OBVIOUS
    <2> DEFINE f == [i \in 0..(k + 1) |-> IF i <= k THEN g[i] ELSE G(g[k])]
    <2>2. \A i \in 0..(k + 1) : f[i] = IF i = 0 THEN a ELSE G(f[i - 1])
      BY <2>1
    <2>3. f = [i \in 0..(k + 1) |-> IF i = 0 THEN a ELSE G(f[i - 1])]
      BY <2>2
    <2> HIDE DEF f
    <2> QED
      BY <2>3
  <1>4. n \in T
    <2>1. T \in SUBSET Nat
      OBVIOUS
    <2> HIDE DEF T
    <2> QED
      BY <2>1, <1>2, <1>3, Induction
  <1>5. \E f : f = [i \in 0..n |-> IF i = 0 THEN a ELSE G(f[i - 1])]
    BY <1>4
  <1>6. deep = [i \in 0..n |-> IF i = 0 THEN a ELSE G(deep[i - 1])]
    BY <1>5, Zenon
  <1> QED
    BY <1>1, <1>6, Zenon DEF G, a

-----------------------------------------------------------------------------
(* Sequences of sequences.                                                 *)

LEMMA FlattenDef ==
  ASSUME NEW e, Len(e) \in Nat, Len(e) # 0
  PROVE  \E p : /\ p = [i \in 1..Len(e) |->
                         IF i = 1 THEN e[i] ELSE p[i - 1] \o e[i]]
                /\ FlattenSeq(e) = p[Len(e)]
PROOF
  <1> DEFINE n == Len(e)
             G(i, r) == r \o e[i]
             T == {k \in Nat : \E f : f = [i \in 1..k |->
                                 IF i = 1 THEN e[i] ELSE G(i, f[i - 1])]}
             flatten[i \in 1..Len(e)] ==
               IF i = 1 THEN e[i] ELSE flatten[i - 1] \o e[i]
  <1>1. FlattenSeq(e) = flatten[n]
    BY Zenon DEF FlattenSeq
  <1>2. 0 \in T
    <2> DEFINE f == [i \in 1..0 |-> e[i]]
    <2>1. f = [i \in 1..0 |-> IF i = 1 THEN e[i] ELSE G(i, f[i - 1])]
      OBVIOUS
    <2> QED
      BY <2>1
  <1>3. ASSUME NEW k \in T
        PROVE  k + 1 \in T
    <2> HIDE DEF G
    <2>1. PICK g : g = [i \in 1..k |-> IF i = 1 THEN e[i] ELSE G(i, g[i - 1])]
      OBVIOUS
    <2> DEFINE f == [i \in 1..(k + 1) |->
                       IF i <= k THEN g[i]
                       ELSE IF i = 1 THEN e[i] ELSE G(i, g[k])]
    <2>2. \A i \in 1..(k + 1) :
            f[i] = IF i = 1 THEN e[i] ELSE G(i, f[i - 1])
      BY <2>1
    <2>3. f = [i \in 1..(k + 1) |-> IF i = 1 THEN e[i] ELSE G(i, f[i - 1])]
      BY <2>2
    <2> HIDE DEF f
    <2> QED
      BY <2>3
  <1>4. n \in T
    <2>1. T \in SUBSET Nat
      OBVIOUS
    <2> HIDE DEF T
    <2> QED
      BY <2>1, <1>2, <1>3, Induction
  <1>5. \E f : f = [i \in 1..n |-> IF i = 1 THEN e[i] ELSE f[i - 1] \o e[i]]
    BY <1>4
  <1>6. flatten = [i \in 1..n |-> IF i = 1 THEN e[i] ELSE flatten[i - 1] \o e[i]]
    BY <1>5, Zenon
  <1> HIDE DEF flatten
  <1> QED
    BY <1>1, <1>6

\* The rests of a flattened sequence: what is left of it after each part.
Rests(e, q) ==
  /\ q[0] = FlattenSeq(e) /\ q[Len(e)] = <<>>
  /\ \A i \in 1..Len(e) : q[i - 1] = e[i] \o q[i]

LEMMA FlattenRests ==
  ASSUME NEW S, NEW e \in Seq(Seq(S))
  PROVE  \E q \in [0..Len(e) -> Seq(S)] : Rests(e, q)
PROOF
  <1> DEFINE n == Len(e)
             D == Seq(S)
             nil == <<>>
             Cat(x, y) == x \o y
             Good(k, w, q) ==
               /\ q \in [0..k -> D] /\ q[0] = w /\ q[k] = nil
               /\ \A i \in 1..k : q[i - 1] = Cat(e[i], q[i])
  <1>1. n \in Nat /\ (\A i \in 1..n : e[i] \in D) /\ nil \in D
    BY EmptySeq
  <1>2. \A x, y \in D : Cat(x, y) \in D
    BY ConcatProperties, ZenonT(30)
  <1>3. \A x \in D : Cat(x, nil) = x /\ Cat(nil, x) = x
    BY ConcatEmptySeq, Zenon
  <1>4. \A x, y, z \in D : Cat(Cat(x, y), z) = Cat(x, Cat(y, z))
    BY ConcatAssociative, SMTT(30)
  <1>5. n = 0 => FlattenSeq(e) = nil
    BY EmptySeq, Zenon DEF FlattenSeq
  <1>6. n # 0 => \E p : /\ p = [i \in 1..n |-> IF i = 1 THEN e[i]
                                               ELSE Cat(p[i - 1], e[i])]
                        /\ FlattenSeq(e) = p[n]
    <2> SUFFICES ASSUME n # 0
                 PROVE  \E p : /\ p = [i \in 1..n |-> IF i = 1 THEN e[i]
                                               ELSE Cat(p[i - 1], e[i])]
                               /\ FlattenSeq(e) = p[n]
      OBVIOUS
    <2> QED
      BY <1>1, FlattenDef, Zenon
  <1>7. ASSUME NEW q, Good(n, FlattenSeq(e), q)
        PROVE  \E r \in [0..Len(e) -> Seq(S)] : Rests(e, r)
    BY <1>7, Zenon DEF Rests
  <1> HIDE DEF n, D, nil, Cat
  <1>8. CASE n = 0
    <2> DEFINE q == [i \in 0..0 |-> nil]
    <2>1. Good(0, nil, q)
      BY <1>1
    <2> HIDE DEF Good
    <2> QED
      BY <2>1, <1>5, <1>7, <1>8
  <1>9. CASE n # 0
    <2>1. PICK p : /\ p = [i \in 1..n |-> IF i = 1 THEN e[i]
                                          ELSE Cat(p[i - 1], e[i])]
                   /\ FlattenSeq(e) = p[n]
      BY <1>6, <1>9
    <2> DEFINE T == {k \in Nat : k \in 1..n => \E q : Good(k, p[k], q)}
    <2>2. 0 \in T
      OBVIOUS
    <2>3. ASSUME NEW k \in Nat, k \in T
          PROVE  k + 1 \in T
      <3> SUFFICES ASSUME k + 1 \in 1..n
                   PROVE  \E q : Good(k + 1, p[k + 1], q)
        <4> HIDE DEF Good
        <4> QED
          OBVIOUS
      <3> DEFINE l == e[k + 1]
      <3>1. l \in D
        BY <1>1
      <3>2. CASE k = 0
        <4> DEFINE q == [i \in 0..1 |-> IF i = 0 THEN l ELSE nil]
        <4>1. p[1] = l
          BY <3>2, <2>1
        <4>2. Good(1, p[1], q)
          BY <4>1, <3>1, <3>2, <1>1, <1>3
        <4> HIDE DEF Good
        <4> QED
          BY <4>2, <3>2
      <3>3. CASE k \in 1..n
        <4>1. p[k + 1] = Cat(p[k], l)
          BY <3>3, <2>1
        <4>2. PICK q : Good(k, p[k], q)
          <5> HIDE DEF Good
          <5> QED
            BY <2>3, <3>3
        <4>3. \A i \in 1..k : e[i] \in D
          BY <3>3, <1>1
        <4> DEFINE r == [i \in 0..(k + 1) |->
                           IF i <= k THEN Cat(q[i], l) ELSE nil]
        <4> HIDE DEF l
        <4>4. r \in [0..(k + 1) -> D]
          BY <4>2, <3>1, <1>1, <1>2
        <4>5. r[0] = p[k + 1] /\ r[k + 1] = nil
          BY <4>1, <4>2
        <4>6. ASSUME NEW i \in 1..(k + 1)
              PROVE  r[i - 1] = Cat(e[i], r[i])
          <5>1. CASE i = k + 1
            <6>1. r[i - 1] = Cat(nil, l) /\ r[i] = nil /\ e[i] = l
              BY <5>1, <4>2 DEF l
            <6> QED
              BY <6>1, <3>1, <1>3
          <5>2. CASE i \in 1..k
            <6>1. q[i - 1] = Cat(e[i], q[i]) /\ q[i] \in D /\ e[i] \in D
              BY <5>2, <4>2, <4>3
            <6>2. r[i - 1] = Cat(Cat(e[i], q[i]), l)
              BY <6>1, <5>2
            <6>3. r[i] = Cat(q[i], l)
              BY <5>2
            <6> HIDE DEF r
            <6> QED
              BY <6>1, <6>2, <6>3, <3>1, <1>4
          <5> QED
            BY <5>1, <5>2
        <4>7. Good(k + 1, p[k + 1], r)
          BY <4>4, <4>5, <4>6
        <4> HIDE DEF Good, r
        <4> QED
          BY <4>7
      <3> HIDE DEF Good
      <3> QED
        BY <3>2, <3>3, <1>1
    <2>4. n \in T
      <3>1. T \in SUBSET Nat
        OBVIOUS
      <3> HIDE DEF T
      <3> QED
        BY <3>1, <2>2, <2>3, <1>1, Induction
    <2> HIDE DEF Good
    <2>5. PICK q : Good(n, p[n], q)
      BY <2>4, <1>1, <1>9
    <2> QED
      BY <2>5, <2>1, <1>7
  <1> QED
    BY <1>8, <1>9

LEMMA FlattenType ==
  ASSUME NEW S, NEW e \in Seq(Seq(S))
  PROVE  FlattenSeq(e) \in Seq(S)
PROOF
  <1>1. PICK q \in [0..Len(e) -> Seq(S)] : q[0] = FlattenSeq(e)
    BY FlattenRests, Zenon DEF Rests
  <1>2. 0 \in 0..Len(e)
    OBVIOUS
  <1> HIDE DEF FlattenSeq
  <1> QED
    BY <1>1, <1>2, Zenon

-----------------------------------------------------------------------------
(* Streams.                                                                *)

Ahead(s) == SubSeq(s.data, s.offset + 1, Len(s.data))

Gives(r, v, t) == \E s \in Stream : r = Value(v, s) /\ Ahead(s) = t

LEMMA AheadIs ==
  ASSUME NEW s \in Stream
  PROVE  /\ s.data \in Seq(Byte) /\ Len(s.data) \in Nat /\ s.offset \in Nat
         /\ Ahead(s) \in Seq(Byte)
         /\ Len(Ahead(s)) = IF s.offset <= Len(s.data)
                            THEN Len(s.data) - s.offset ELSE 0
         /\ \A i \in 1..(Len(s.data) - s.offset) :
              Ahead(s)[i] = s.data[s.offset + i]
PROOF
  <1>1. s.data \in Seq(Byte) /\ Len(s.data) \in Nat /\ s.offset \in Nat
    BY DEF Stream
  <1>2. \A i \in (s.offset + 1)..Len(s.data) : s.data[i] \in Byte
    BY <1>1
  <1>3. /\ Ahead(s) \in Seq(Byte)
        /\ Len(Ahead(s)) = IF s.offset + 1 <= Len(s.data)
                           THEN Len(s.data) - (s.offset + 1) + 1 ELSE 0
        /\ \A i \in 1..(Len(s.data) - (s.offset + 1) + 1) :
             Ahead(s)[i] = s.data[(s.offset + 1) + i - 1]
    <2> DEFINE d == s.data
               m == s.offset + 1
               n == Len(s.data)
    <2>1. m \in Int /\ n \in Int
      BY <1>1
    <2> HIDE DEF d, m, n
    <2>2. /\ SubSeq(d, m, n) \in Seq(Byte)
          /\ Len(SubSeq(d, m, n)) = IF m <= n THEN n - m + 1 ELSE 0
          /\ \A i \in 1..(n - m + 1) : SubSeq(d, m, n)[i] = d[m + i - 1]
      <3>1. \A i \in m..n : d[i] \in Byte
        BY <1>2 DEF d, m, n
      <3> QED
        BY <2>1, <3>1, SubSeqProperties
    <2> QED
      BY <2>2, Zenon DEF Ahead, d, m, n
  <1>4. Len(Ahead(s)) = IF s.offset <= Len(s.data)
                        THEN Len(s.data) - s.offset ELSE 0
    BY <1>1, <1>3
  <1>5. ASSUME NEW i \in 1..(Len(s.data) - s.offset)
        PROVE  Ahead(s)[i] = s.data[s.offset + i]
    <2>1. (s.offset + 1) + i - 1 = s.offset + i
      BY <1>1
    <2>2. i \in 1..(Len(s.data) - (s.offset + 1) + 1)
      BY <1>1
    <2> QED
      BY <1>3, <2>1, <2>2
  <1> QED
    BY <1>1, <1>3, <1>4, <1>5

\* Sanitizing a stream drops only what was read.
THEOREM SanitizeLosesNothing ==
  ASSUME NEW s \in Stream
  PROVE  Sanitize(s) \in Stream /\ Ahead(Sanitize(s)) = Ahead(s)
PROOF
  <1>1. CASE s.offset > SanitizeAt
    <2> DEFINE r == [data |-> Ahead(s), offset |-> 0]
    <2>1. Sanitize(s) = r
      BY <1>1 DEF Sanitize, Ahead
    <2>2. r \in Stream
      BY AheadIs DEF Stream
    <2>3. Ahead(r) = SubSeq(Ahead(s), 1, Len(Ahead(s)))
      <3>1. r.data = Ahead(s) /\ r.offset + 1 = 1
        OBVIOUS
      <3> HIDE DEF r
      <3>2. Ahead(r) = SubSeq(r.data, r.offset + 1, Len(r.data))
        BY Zenon DEF Ahead
      <3> QED
        BY <3>1, <3>2, Zenon
    <2> QED
      BY <2>1, <2>2, <2>3, AheadIs, SubSeqFull, Zenon
  <1>2. CASE ~(s.offset > SanitizeAt)
    BY <1>2 DEF Sanitize
  <1> QED
    BY <1>1, <1>2

\* What is read is what is ahead, and the rest stays ahead.
LEMMA Skip ==
  ASSUME NEW s \in Stream, NEW x \in Seq(Byte), NEW t \in Seq(Byte),
         x # <<>>, Ahead(s) = x \o t
  PROVE  /\ s.offset + Len(x) <= Len(s.data) /\ Len(x) \in Nat \ {0}
         /\ \A i \in 1..Len(x) : s.data[s.offset + i] = x[i]
         /\ [s EXCEPT !.offset = @ + Len(x)] \in Stream
         /\ Ahead([s EXCEPT !.offset = @ + Len(x)]) = t
PROOF
  <1> DEFINE r == [s EXCEPT !.offset = @ + Len(x)]
             n == Len(x)
             m == Len(t)
             a == Ahead(s)
             c == Ahead(r)
             d == s.data
             o == s.offset
  <1>1. n \in Nat \ {0} /\ m \in Nat
    BY EmptySeq
  <1>2. /\ Len(a) = n + m
        /\ \A i \in 1..(n + m) : a[i] = IF i <= n THEN x[i] ELSE t[i - n]
    BY ConcatProperties, ZenonT(30)
  <1>3. /\ Len(d) \in Nat /\ o \in Nat
        /\ Len(a) = IF o <= Len(d) THEN Len(d) - o ELSE 0
        /\ \A i \in 1..(Len(d) - o) : a[i] = d[o + i]
    BY AheadIs, Zenon
  <1>4. r \in Stream /\ r.data = d /\ r.offset = o + n
    <2>1. o + n \in Nat
      BY <1>1, <1>3
    <2> HIDE DEF n
    <2> QED
      BY <2>1 DEF Stream, n
  <1>5. /\ c \in Seq(Byte)
        /\ Len(c) = IF o + n <= Len(d) THEN Len(d) - (o + n) ELSE 0
        /\ \A i \in 1..(Len(d) - (o + n)) : c[i] = d[(o + n) + i]
    <2> HIDE DEF r
    <2>1. /\ c \in Seq(Byte)
          /\ Len(c) = IF r.offset <= Len(r.data)
                      THEN Len(r.data) - r.offset ELSE 0
          /\ \A i \in 1..(Len(r.data) - r.offset) : c[i] = r.data[r.offset + i]
      BY <1>4, AheadIs, Zenon
    <2> QED
      BY <1>4, <2>1, Zenon
  <1> HIDE DEF r, n, m, a, c, d, o
  <1>6. o + n <= Len(d) /\ Len(d) - o = n + m /\ Len(d) - (o + n) = m
    BY <1>1, <1>2, <1>3
  <1>7. ASSUME NEW i \in 1..n
        PROVE  d[o + i] = x[i]
    <2>1. i \in 1..(n + m) /\ i \in 1..(Len(d) - o) /\ i <= n
      BY <1>1, <1>6
    <2> QED
      BY <1>2, <1>3, <2>1, Zenon
  <1>8. Len(c) = m
    BY <1>5, <1>6
  <1>9. ASSUME NEW i \in 1..m
        PROVE  c[i] = t[i]
    <2>1. /\ n + i \in 1..(n + m) /\ ~(n + i <= n) /\ (n + i) - n = i
          /\ o + (n + i) = (o + n) + i
      BY <1>1, <1>3
    <2>2. a[n + i] = t[i] /\ a[n + i] = d[o + (n + i)]
      BY <1>2, <1>3, <1>6, <2>1
    <2>3. c[i] = d[(o + n) + i]
      BY <1>5, <1>6
    <2> QED
      BY <2>1, <2>2, <2>3
  <1>10. c = t
    BY <1>5, <1>8, <1>9, SeqEqual DEF m
  <1> QED
    BY <1>1, <1>4, <1>6, <1>7, <1>10 DEF r, n, d, o, c

LEMMA ExtractGives ==
  ASSUME NEW s \in Stream, NEW b \in Byte, NEW t \in Seq(Byte),
         Ahead(s) = <<b>> \o t
  PROVE  Gives(Extract(s), b, t)
PROOF
  <1> DEFINE r == [s EXCEPT !.offset = @ + 1]
  <1>1. <<b>> \in Seq(Byte) /\ <<b>> # <<>> /\ Len(<<b>>) = 1 /\ <<b>>[1] = b
    OBVIOUS
  <1>2. /\ s.offset + 1 <= Len(s.data) /\ s.data[s.offset + 1] = b
        /\ r \in Stream /\ Ahead(r) = t
    <2>1. /\ s.offset + Len(<<b>>) <= Len(s.data)
          /\ \A i \in 1..Len(<<b>>) : s.data[s.offset + i] = <<b>>[i]
          /\ [s EXCEPT !.offset = @ + Len(<<b>>)] \in Stream
          /\ Ahead([s EXCEPT !.offset = @ + Len(<<b>>)]) = t
      BY <1>1, Skip, Zenon
    <2>2. 1 \in 1..1
      OBVIOUS
    <2> QED
      BY <1>1, <2>1, <2>2, Zenon
  <1>3. s.offset < Len(s.data)
    BY <1>2, AheadIs
  <1>4. Extract(s) = Value(b, Sanitize(r))
    BY <1>2, <1>3, Zenon DEF Extract
  <1>5. Sanitize(r) \in Stream /\ Ahead(Sanitize(r)) = t
    BY <1>2, SanitizeLosesNothing, Zenon
  <1> QED
    BY <1>4, <1>5, Zenon DEF Gives

LEMMA BytesGive ==
  ASSUME NEW s \in Stream, NEW x \in Seq(Byte), NEW t \in Seq(Byte),
         x # <<>>, Ahead(s) = x \o t
  PROVE  Gives(Bytes(Len(x), s), x, t)
PROOF
  <1> DEFINE n == Len(x)
             r == [s EXCEPT !.offset = @ + n]
             v == [i \in 1..n |-> IF i <= n THEN s.data[s.offset + i] ELSE 0]
  <1>1. /\ s.offset + n <= Len(s.data) /\ n \in Nat \ {0}
        /\ \A i \in 1..n : s.data[s.offset + i] = x[i]
        /\ r \in Stream /\ Ahead(r) = t
    BY Skip, Zenon
  <1>2. ~(Len(s.data) - s.offset < n)
    BY <1>1, AheadIs
  <1>3. Bytes(n, s) = Value(v, r)
    BY <1>2, Zenon DEF Bytes
  <1>4. v = x
    <2>1. x = [i \in 1..n |-> x[i]]
      BY LenProperties
    <2>2. v = [i \in 1..n |-> x[i]]
      BY <1>1
    <2> QED
      BY <2>1, <2>2
  <1> QED
    BY <1>1, <1>3, <1>4, Zenon DEF Gives

LEMMA GivesValue ==
  ASSUME NEW v, NEW s \in Stream
  PROVE  Gives(Value(v, s), v, Ahead(s))
BY Zenon DEF Gives

\* read, n times, gives the values vs whose bytes are those of e, in order.
LEMMA RepeatGives ==
  ASSUME NEW V, NEW vs \in Seq(V), NEW e \in Seq(Seq(Byte)),
         Len(e) = Len(vs), NEW read, NEW s \in Stream, NEW t \in Seq(Byte),
         Ahead(s) = FlattenSeq(e) \o t,
         \A i \in 1..Len(vs), r \in Stream, u \in Seq(Byte) :
           Ahead(r) = e[i] \o u => Gives(read[r], vs[i], u)
  PROVE  Gives(Repeat(Len(vs), read, s), vs, t)
PROOF
  <1> DEFINE n == Len(vs)
             D == Seq(Byte)
             Cat(x, y) == x \o y
             done(i) == SubSeq(vs, 1, i)
             f == Reads(n, read, s)
  <1>1. n \in Nat /\ Len(e) = n /\ \A i \in 1..n : vs[i] \in V /\ e[i] \in D
    BY LenProperties
  <1>2. PICK q \in [0..Len(e) -> D] : Rests(e, q)
    BY FlattenRests, Zenon
  <1>3. /\ q \in [0..n -> D]
        /\ q[0] = FlattenSeq(e) /\ q[n] = <<>>
        /\ \A i \in 1..n : q[i - 1] = Cat(e[i], q[i])
    BY <1>1, <1>2, Zenon DEF Rests
  <1>4. /\ \A x, y \in D : Cat(x, y) \in D
        /\ \A x \in D : Cat(<<>>, x) = x
    BY ConcatProperties, ConcatEmptySeq, Zenon
  <1>5. \A x, y, z \in D : Cat(Cat(x, y), z) = Cat(x, Cat(y, z))
    BY ConcatAssociative, SMTT(30)
  <1>6. done(0) = <<>> /\ done(n) = vs
    <2>1. 0 < 1 /\ 0 \in Int /\ 1 \in Int
      OBVIOUS
    <2> QED
      BY <2>1, SubSeqEmpty, SubSeqFull, Zenon
  <1>7. ASSUME NEW i \in 1..n
        PROVE  Append(done(i - 1), vs[i]) = done(i)
    <2>1. 1 \in 1..Len(vs) /\ i \in 1..Len(vs)
      BY <1>1
    <2>2. SubSeq(vs, 1, i) = SubSeq(vs, 1, i - 1) \o <<vs[i]>>
      BY <2>1, SubSeqRecursiveSecond, Zenon
    <2>3. SubSeq(vs, 1, i - 1) \in Seq(V)
      BY <1>1, SubSeqProperties
    <2> QED
      BY <2>2, <2>3, <1>1, AppendIsConcat, Zenon
  <1>8. f = [i \in 0..n |-> IF i = 0 THEN Value(<<>>, s) ELSE More(read, f[i - 1])]
    <2>1. n \in Nat
      BY <1>1
    <2> HIDE DEF n
    <2> QED
      BY <2>1, ReadsDef
  <1> DEFINE T == {i \in Nat : Gives(f[i], done(i), Cat(q[i], t))}
  <1>9. Gives(f[0], done(0), Cat(q[0], t))
    <2>1. f[0] = Value(<<>>, s)
      <3> HIDE DEF f
      <3> QED
        BY <1>8, <1>1
    <2>2. Ahead(s) = Cat(q[0], t)
      BY <1>3, Zenon
    <2> QED
      BY <2>1, <2>2, <1>6, GivesValue, Zenon
  <1>10. ASSUME NEW i \in 1..n, Gives(f[i - 1], done(i - 1), Cat(q[i - 1], t))
         PROVE  Gives(f[i], done(i), Cat(q[i], t))
    <2>1. PICK s1 \in Stream : /\ f[i - 1] = Value(done(i - 1), s1)
                               /\ Ahead(s1) = Cat(q[i - 1], t)
      BY <1>10, Zenon DEF Gives
    <2>2. /\ i \in 0..n /\ i # 0 /\ q[i] \in D /\ e[i] \in D
          /\ q[i - 1] = Cat(e[i], q[i])
      <3> HIDE DEF D, Cat, n
      <3> QED
        BY <1>1, <1>3
    <2>3. Cat(q[i], t) \in D /\ Ahead(s1) = Cat(e[i], Cat(q[i], t))
      <3>1. t \in D
        OBVIOUS
      <3> HIDE DEF Cat, D
      <3>2. Cat(q[i], t) \in D
        BY <3>1, <2>2, <1>4, Zenon
      <3>3. Ahead(s1) = Cat(Cat(e[i], q[i]), t)
        BY <2>1, <2>2, Zenon
      <3>4. Cat(Cat(e[i], q[i]), t) = Cat(e[i], Cat(q[i], t))
        BY <3>1, <2>2, <1>5, Zenon
      <3> QED
        BY <3>2, <3>3, <3>4, Zenon
    <2>4. Gives(read[s1], vs[i], Cat(q[i], t))
      BY <2>3, Zenon
    <2>5. PICK s2 \in Stream : /\ read[s1] = Value(vs[i], s2)
                               /\ Ahead(s2) = Cat(q[i], t)
      BY <2>4, Zenon DEF Gives
    <2>6. f[i] = More(read, f[i - 1])
      <3> HIDE DEF f, n
      <3> QED
        BY <1>8, <2>2
    <2>7. More(read, Value(done(i - 1), s1)) = Value(done(i), s2)
      <3>1. More(read, Value(done(i - 1), s1))
              = Then(read[s1], LAMBDA v, r : Value(Append(done(i - 1), v), r))
        BY DEF More, Then, Value
      <3>2. Then(read[s1], LAMBDA v, r : Value(Append(done(i - 1), v), r))
              = Value(Append(done(i - 1), vs[i]), s2)
        BY <2>5 DEF Then, Value
      <3> QED
        BY <3>1, <3>2, <1>7, Zenon
    <2> QED
      BY <2>1, <2>5, <2>6, <2>7, Zenon DEF Gives
  <1>11. n \in T
    <2> HIDE DEF f, n, Cat, done
    <2>1. 0 \in T /\ \A i \in 1..n : i - 1 \in T => i \in T
      BY <1>9, <1>10
    <2>2. n \in 0..n
      BY <1>1
    <2> HIDE DEF T
    <2> QED
      BY <2>1, <2>2, <1>1, InductionTo, Zenon
  <1>12. Gives(f[n], done(n), Cat(q[n], t))
    BY <1>11
  <1>13. Cat(q[n], t) = t
    BY <1>3, <1>4, Zenon
  <1>14. Repeat(n, read, s) = f[n]
    BY Zenon DEF Repeat
  <1> QED
    BY <1>6, <1>12, <1>13, <1>14, Zenon

-----------------------------------------------------------------------------
(* Numbers and texts.                                                      *)

\* The numbers of each type, by its width and sign.
Half == <<128, 32768, 8388608, 2147483648>>

Numbers(type) ==
  LET half == Half[Width[type]]
  IN IF type \in Signed THEN (-half)..(half - 1) ELSE 0..(2 * half - 1)

\* v is one of the numbers of a type of which there are 2h.
Fits(type, v, h) ==
  /\ v \in Int
  /\ type \in Signed => -h <= v /\ v < h
  /\ type \notin Signed => 0 <= v /\ v < 2 * h

LEMMA NumbersFit ==
  ASSUME NEW type, NEW h \in Int, h = Half[Width[type]], NEW v \in Numbers(type)
  PROVE  Fits(type, v, h)
PROOF
  <1>1. v \in IF type \in Signed THEN (-h)..(h - 1) ELSE 0..(2 * h - 1)
    BY Zenon DEF Numbers
  <1> QED
    BY <1>1, SMT DEF Fits

LEMMA DigitsType ==
  ASSUME NEW v \in Int, NEW w \in {1, 2, 4}
  PROVE  Digits(v, w) \in Seq(Byte) /\ Len(Digits(v, w)) = w
PROOF
  <1>1. ASSUME NEW i \in 1..w
        PROVE  (v \div Weight[4 - w + i]) % 256 \in Byte
    <2>1. Weight[4 - w + i] \in {16777216, 65536, 256, 1}
      BY DEF Weight
    <2> QED
      BY <2>1 DEF Byte
  <1> QED
    BY <1>1 DEF Digits

LEMMA Widths ==
  ASSUME NEW type \in DOMAIN Width
  PROVE  \/ Width[type] = 1 /\ Half[Width[type]] = 128
         \/ Width[type] = 2 /\ Half[Width[type]] = 32768
         \/ Width[type] = 4 /\ Half[Width[type]] = 2147483648
PROOF
  <1>1. Width[type] \in {1, 2, 4}
    BY DEF Width
  <1> QED
    BY <1>1 DEF Half

\* A number is made of its digits, and what is above them is 0, or -1 below 0.
LEMMA DigitsOf ==
  ASSUME NEW v \in Int
  PROVE  /\ Digits(v, 1)[1] = v % 256
         /\ Digits(v, 2)[1] = (v \div 256) % 256 /\ Digits(v, 2)[2] = v % 256
         /\ Digits(v, 4)[1] = (v \div 16777216) % 256
         /\ Digits(v, 4)[2] = (v \div 65536) % 256
         /\ Digits(v, 4)[3] = (v \div 256) % 256
         /\ Digits(v, 4)[4] = v % 256
PROOF
  <1>1. /\ Weight[1] = 16777216 /\ Weight[2] = 65536 /\ Weight[3] = 256
        /\ Weight[4] = 1
    BY SMT DEF Weight
  <1>2. v \div 1 = v
    OBVIOUS
  <1>3. /\ Digits(v, 1)[1] = (v \div Weight[4]) % 256
        /\ Digits(v, 2)[1] = (v \div Weight[3]) % 256
        /\ Digits(v, 2)[2] = (v \div Weight[4]) % 256
        /\ Digits(v, 4)[1] = (v \div Weight[1]) % 256
        /\ Digits(v, 4)[2] = (v \div Weight[2]) % 256
        /\ Digits(v, 4)[3] = (v \div Weight[3]) % 256
        /\ Digits(v, 4)[4] = (v \div Weight[4]) % 256
    BY SMT DEF Digits
  <1> QED
    BY <1>1, <1>2, <1>3, SMT

LEMMA Split ==
  ASSUME NEW v \in Int
  PROVE  /\ v \div 256 \in Int /\ v % 256 \in Byte
         /\ v = 256 * (v \div 256) + (v % 256)
         /\ v \div 65536 = (v \div 256) \div 256
         /\ v \div 16777216 = ((v \div 256) \div 256) \div 256
PROOF
  <1>1. v \div 65536 = (v \div 256) \div 256
    OBVIOUS
  <1>2. v \div 16777216 = (v \div 65536) \div 256
    OBVIOUS
  <1> QED
    BY <1>1, <1>2 DEF Byte

\* The first byte of a number, with its sign.
Top(type, b) == IF type \in Signed /\ b >= 128 THEN b - 256 ELSE b

LEMMA NumberDef ==
  ASSUME NEW type \in DOMAIN Width, NEW b
  PROVE  /\ Width[type] = 1 => Number(type, b) = Top(type, b[1])
         /\ Width[type] = 2 => Number(type, b) = Top(type, b[1]) * 256 + b[2]
         /\ Width[type] = 4 => Number(type, b) =
              ((Top(type, b[1]) * 256 + b[2]) * 256 + b[3]) * 256 + b[4]
PROOF
  <1>1. CASE Width[type] = 1
    BY <1>1, SMT DEF Number, Top
  <1>2. CASE Width[type] = 2
    BY <1>2, SMT DEF Number, Top
  <1>3. CASE Width[type] = 4
    BY <1>3, SMT DEF Number, Top
  <1> QED
    BY <1>1, <1>2, <1>3, SMT

\* The top byte of a number that fits shows its sign.
LEMMA TopIs ==
  ASSUME NEW type, NEW v, Fits(type, v, 128)
  PROVE  Top(type, v % 256) = v
BY SMT DEF Top, Fits

\* A number of any type is read back from its bytes, whatever its sign.
THEOREM NumberComesBack ==
  ASSUME NEW type \in DOMAIN Width, NEW v \in Numbers(type)
  PROVE  v \in Int /\ Number(type, Digits(v, Width[type])) = v
PROOF
  <1> DEFINE q == v \div 256
             r == q \div 256
             p == r \div 256
  <1>1. \/ Width[type] = 1 /\ Fits(type, v, 128)
        \/ Width[type] = 2 /\ Fits(type, v, 32768)
        \/ Width[type] = 4 /\ Fits(type, v, 2147483648)
    <2> DEFINE h == Half[Width[type]]
    <2>1. \/ Width[type] = 1 /\ h = 128
          \/ Width[type] = 2 /\ h = 32768
          \/ Width[type] = 4 /\ h = 2147483648
      BY Widths, SMT
    <2>2. h \in Int
      BY <2>1, SMT
    <2>3. Fits(type, v, h)
      BY <2>2, NumbersFit, Zenon
    <2> HIDE DEF h
    <2> QED
      BY <2>1, <2>3, SMT
  <1>2. v \in Int
    BY <1>1, SMT DEF Fits
  <1>3. /\ q \in Int /\ v % 256 \in Byte /\ v = 256 * q + (v % 256)
        /\ r \in Int /\ q % 256 \in Byte /\ q = 256 * r + (q % 256)
        /\ p \in Int /\ r % 256 \in Byte /\ r = 256 * p + (r % 256)
    <2>1. q \in Int /\ v % 256 \in Byte /\ v = 256 * q + (v % 256)
      BY <1>2, Split, SMT
    <2> HIDE DEF q
    <2>2. r \in Int /\ q % 256 \in Byte /\ q = 256 * r + (q % 256)
      BY <2>1, Split, SMT
    <2> HIDE DEF r
    <2>3. p \in Int /\ r % 256 \in Byte /\ r = 256 * p + (r % 256)
      BY <2>2, Split, SMT
    <2> QED
      BY <2>1, <2>2, <2>3, SMTT(30) DEF q, r
  <1>4. v \div 65536 = r /\ v \div 16777216 = p
    BY <1>2, Split, SMT
  <1>5. /\ Digits(v, 1)[1] = v % 256
        /\ Digits(v, 2)[1] = q % 256 /\ Digits(v, 2)[2] = v % 256
        /\ Digits(v, 4)[1] = p % 256 /\ Digits(v, 4)[2] = r % 256
        /\ Digits(v, 4)[3] = q % 256 /\ Digits(v, 4)[4] = v % 256
    <2>1. /\ Digits(v, 1)[1] = v % 256
          /\ Digits(v, 2)[1] = (v \div 256) % 256
          /\ Digits(v, 2)[2] = v % 256
          /\ Digits(v, 4)[1] = (v \div 16777216) % 256
          /\ Digits(v, 4)[2] = (v \div 65536) % 256
          /\ Digits(v, 4)[3] = (v \div 256) % 256
          /\ Digits(v, 4)[4] = v % 256
      BY <1>2, DigitsOf, SMT
    <2>2. v \div 256 = q
      OBVIOUS
    <2> HIDE DEF p, q, r
    <2> QED
      BY <1>2, <1>3, <1>4, <2>1, <2>2, SMT
  <1> HIDE DEF p, q, r
  <1>6. CASE Width[type] = 1
    <2>1. Fits(type, v, 128)
      BY <1>1, <1>6, SMT
    <2>2. Number(type, Digits(v, 1)) = Top(type, v % 256)
      BY <1>5, <1>6, NumberDef, SMT
    <2> QED
      BY <1>2, <1>6, <2>1, <2>2, TopIs, SMT
  <1>7. CASE Width[type] = 2
    <2>1. Fits(type, q, 128)
      BY <1>1, <1>2, <1>3, <1>7, SMT DEF Byte, Fits
    <2>2. Number(type, Digits(v, 2)) = Top(type, q % 256) * 256 + (v % 256)
      BY <1>5, <1>7, NumberDef, SMT
    <2>3. Top(type, q % 256) = q
      BY <1>3, <2>1, TopIs, SMT
    <2> QED
      BY <1>2, <1>3, <1>7, <2>2, <2>3, SMT DEF Byte
  <1>8. CASE Width[type] = 4
    <2>1. Fits(type, p, 128)
      BY <1>1, <1>2, <1>3, <1>8, SMT DEF Byte, Fits
    <2>2. Number(type, Digits(v, 4)) =
            ((Top(type, p % 256) * 256 + (r % 256)) * 256 + (q % 256)) * 256
              + (v % 256)
      BY <1>5, <1>8, NumberDef, SMT
    <2>3. Top(type, p % 256) = p
      BY <1>3, <2>1, TopIs, SMT
    <2> QED
      BY <1>2, <1>3, <1>8, <2>2, <2>3, SMT DEF Byte
  <1> QED
    BY <1>1, <1>2, <1>6, <1>7, <1>8, SMT

\* The texts of one byte that a text is made of.
LEMMA FlattenBytes ==
  ASSUME NEW t \in Seq(Byte), NEW e, e = [i \in 1..Len(t) |-> <<t[i]>>]
  PROVE  /\ e \in Seq(Seq(Byte)) /\ Len(e) = Len(t)
         /\ \A i \in 1..Len(t) : e[i] = <<t[i]>>
         /\ FlattenSeq(e) = t
PROOF
  <1> DEFINE n == Len(t)
             upto(i) == SubSeq(t, 1, i)
  <1>1. n \in Nat /\ \A i \in 1..n : t[i] \in Byte
    BY LenProperties
  <1>2. e \in Seq(Seq(Byte)) /\ Len(e) = n /\ \A i \in 1..n : e[i] = <<t[i]>>
    <2> DEFINE f == [i \in 1..n |-> <<t[i]>>]
    <2>1. e = f
      OBVIOUS
    <2> HIDE DEF n
    <2>2. f \in Seq(Seq(Byte)) /\ Len(f) = n /\ \A i \in 1..n : f[i] = <<t[i]>>
      BY <1>1
    <2> QED
      BY <2>1, <2>2, Zenon
  <1>3. CASE n = 0
    <2>1. Len(e) = 0
      BY <1>2, <1>3
    <2>2. e = <<>> /\ t = <<>>
      BY <1>2, <1>3, <2>1, EmptySeq
    <2>3. FlattenSeq(<<>>) = <<>>
      BY Zenon DEF FlattenSeq
    <2> QED
      BY <1>2, <2>2, <2>3, Zenon
  <1>4. CASE n # 0
    <2>1. PICK p : /\ p = [i \in 1..n |->
                             IF i = 1 THEN e[i] ELSE p[i - 1] \o e[i]]
                   /\ FlattenSeq(e) = p[n]
      <3>1. Len(e) \in Nat /\ Len(e) # 0
        BY <1>1, <1>2, <1>4
      <3> QED
        BY <3>1, <1>2, FlattenDef
    <2>2. \A i \in 1..n : upto(i) = upto(i - 1) \o <<t[i]>>
      <3>1. ASSUME NEW i \in 1..n
            PROVE  upto(i) = upto(i - 1) \o <<t[i]>>
        <4>1. 1 \in 1..Len(t) /\ i \in 1..Len(t)
          BY <1>1
        <4> QED
          BY <4>1, SubSeqRecursiveSecond, Zenon
      <3> QED
        BY <3>1
    <2>3. upto(0) = <<>> /\ upto(n) = t
      <3>1. 0 < 1 /\ 0 \in Int /\ 1 \in Int
        OBVIOUS
      <3> QED
        BY <3>1, SubSeqEmpty, SubSeqFull, Zenon
    <2> DEFINE T == {i \in Nat : i # 0 => p[i] = upto(i)}
    <2>4. ASSUME NEW i \in 1..n, i - 1 \in T
          PROVE  i \in T
      <3>1. CASE i = 1
        <4>1. p[1] = <<t[1]>>
          BY <2>1, <1>1, <1>2, <3>1
        <4>2. upto(1) = upto(0) \o <<t[1]>>
          BY <2>2, <3>1
        <4>3. <<>> \o <<t[1]>> = <<t[1]>>
          <5>1. <<t[1]>> \in Seq(Byte)
            BY <1>1, <3>1
          <5> QED
            BY <5>1, ConcatEmptySeq, Zenon
        <4> QED
          BY <4>1, <4>2, <4>3, <2>3, <3>1
      <3>2. CASE i # 1
        <4>1. i - 1 # 0 /\ i - 1 \in 1..n
          BY <3>2, <1>1
        <4>2. p[i - 1] = upto(i - 1)
          BY <2>4, <4>1
        <4>3. p[i] = p[i - 1] \o e[i] /\ e[i] = <<t[i]>>
          BY <2>1, <1>2, <3>2
        <4>4. p[i] = upto(i)
          BY <4>2, <4>3, <2>2, Zenon
        <4> QED
          BY <4>4
      <3> QED
        BY <3>1, <3>2
    <2>5. n \in T
      <3>1. 0 \in T /\ n \in 0..n
        BY <1>1
      <3> HIDE DEF T, n
      <3> QED
        BY <1>1, <2>4, <3>1, InductionTo
    <2>6. p[n] = upto(n)
      BY <2>5, <1>4
    <2> QED
      BY <2>1, <2>3, <2>6, <1>2, Zenon
  <1> QED
    BY <1>3, <1>4

LEMMA TextType ==
  ASSUME NEW t \in Seq(Byte), Len(t) \in Byte
  PROVE  Text(t) \in Seq(Byte) /\ Len(Text(t)) = Len(t) + 1
PROOF
  <1>1. <<Len(t)>> \in Seq(Byte) /\ Len(<<Len(t)>>) = 1
    OBVIOUS
  <1>2. /\ <<Len(t)>> \o t \in Seq(Byte)
        /\ Len(<<Len(t)>> \o t) = Len(<<Len(t)>>) + Len(t)
    BY <1>1, ConcatProperties, ZenonT(30)
  <1> DEFINE bytes == <<Len(t)>> \o t
  <1>3. Text(t) = bytes
    BY Zenon DEF Text
  <1>4. bytes \in Seq(Byte) /\ Len(bytes) = 1 + Len(t)
    BY <1>1, <1>2, Zenon
  <1>5. Len(t) \in Int
    OBVIOUS
  <1> HIDE DEF bytes
  <1> QED
    BY <1>3, <1>4, <1>5, SMT

\* Bytes read one by one.
LEMMA ExtractsGive ==
  ASSUME NEW s \in Stream, NEW t \in Seq(Byte), NEW u \in Seq(Byte),
         Ahead(s) = t \o u
  PROVE  Gives(Repeat(Len(t), Extracts, s), t, u)
PROOF
  <1> DEFINE e == [i \in 1..Len(t) |-> <<t[i]>>]
  <1>1. /\ e \in Seq(Seq(Byte)) /\ Len(e) = Len(t)
        /\ \A i \in 1..Len(t) : e[i] = <<t[i]>>
        /\ FlattenSeq(e) = t
    BY FlattenBytes, Zenon
  <1> HIDE DEF e
  <1>2. ASSUME NEW i \in 1..Len(t), NEW r \in Stream, NEW v \in Seq(Byte),
               Ahead(r) = e[i] \o v
        PROVE  Gives(Extracts[r], t[i], v)
    <2>1. t[i] \in Byte
      BY LenProperties
    <2>2. Gives(Extract(r), t[i], v)
      BY <1>1, <1>2, <2>1, ExtractGives, Zenon
    <2> QED
      BY <2>2, Zenon DEF Extracts
  <1> QED
    BY <1>1, <1>2, RepeatGives, Zenon

LEMMA TextGives ==
  ASSUME NEW s \in Stream, NEW t \in Seq(Byte), Len(t) \in Byte,
         NEW u \in Seq(Byte), Ahead(s) = Text(t) \o u
  PROVE  Gives(ReadString(s), CString(t), u)
PROOF
  <1> DEFINE n == Len(t)
  <1>1. Ahead(s) = <<n>> \o (t \o u) /\ t \o u \in Seq(Byte)
    <2>1. <<n>> \in Seq(Byte)
      OBVIOUS
    <2>2. (<<n>> \o t) \o u = <<n>> \o (t \o u)
      BY <2>1, ConcatAssociative, SMTT(30)
    <2>3. t \o u \in Seq(Byte)
      BY ConcatProperties, ZenonT(30)
    <2> QED
      BY <2>2, <2>3, Zenon DEF Text
  <1>2. PICK s1 \in Stream : Extract(s) = Value(n, s1) /\ Ahead(s1) = t \o u
    BY <1>1, ExtractGives, Zenon DEF Gives
  <1>3. PICK s2 \in Stream : /\ Repeat(n, Extracts, s1) = Value(t, s2)
                             /\ Ahead(s2) = u
    <2>1. Gives(Repeat(n, Extracts, s1), t, u)
      BY <1>2, ExtractsGive, Zenon
    <2> QED
      BY <2>1, Zenon DEF Gives
  <1>4. ReadString(s) = Value(CString(t), s2)
    <2>1. ReadString(s) = Then(Repeat(n, Extracts, s1),
                               LAMBDA x, r : Value(CString(x), r))
      BY <1>2 DEF ReadString, Then, Value
    <2> QED
      BY <1>3, <2>1 DEF Then, Value
  <1> QED
    BY <1>3, <1>4, Zenon DEF Gives

LEMMA NumberGives ==
  ASSUME NEW s \in Stream, NEW type \in DOMAIN Width, NEW v \in Numbers(type),
         NEW u \in Seq(Byte), Ahead(s) = Digits(v, Width[type]) \o u
  PROVE  Gives(ReadNumber(type, s), v, u)
PROOF
  <1> DEFINE w == Width[type]
             b == Digits(v, w)
  <1>1. v \in Int /\ Number(type, b) = v
    BY NumberComesBack, Zenon
  <1>2. w \in {1, 2, 4}
    BY Widths
  <1>3. b \in Seq(Byte) /\ Len(b) = w /\ b # <<>>
    <2>1. b \in Seq(Byte) /\ Len(b) = w
      BY <1>1, <1>2, DigitsType, Zenon
    <2> HIDE DEF b, w
    <2> QED
      BY <2>1, <1>2, EmptySeq
  <1>4. Gives(Bytes(w, s), b, u)
    BY <1>3, BytesGive, Zenon
  <1>5. PICK s1 \in Stream : Bytes(w, s) = Value(b, s1) /\ Ahead(s1) = u
    BY <1>4, Zenon DEF Gives
  <1>6. ReadNumber(type, s) = Value(Number(type, b), s1)
    <2> HIDE DEF b
    <2> QED
      BY <1>5 DEF ReadNumber, Then, Value
  <1> QED
    BY <1>1, <1>5, <1>6, Zenon DEF Gives

-----------------------------------------------------------------------------
(* Objects.                                                                *)

\* The keys of the program's messages: names, which are texts of one byte.
NameTexts == {<<i>> : i \in 1..255}

LEMMA NameTextFacts ==
  /\ IsFiniteSet(NameTexts) /\ Cardinality(NameTexts) <= 255
  /\ \A k \in NameTexts : /\ k \in Seq(Byte) /\ Len(k) = 1
                          /\ k[1] \in 1..255 /\ k = <<k[1]>>
                          /\ CString(k) = k
PROOF
  <1>1. IsFiniteSet(1..255) /\ Cardinality(1..255) = 255
    <2>1. \A n \in Nat : IsFiniteSet(1..n) /\ Cardinality(1..n) = n
      BY FS_Interval
    <2>2. PICK n \in Nat : n = 255
      OBVIOUS
    <2>3. IsFiniteSet(1..n) /\ Cardinality(1..n) = n
      BY <2>1
    <2> QED
      BY <2>2, <2>3
  <1>2. IsFiniteSet(NameTexts) /\ Cardinality(NameTexts) <= 255
    <2> DEFINE f == [i \in 1..255 |-> <<i>>]
             S == 1..255
    <2>1. f \in Surjection(S, NameTexts)
      <3>1. f \in [S -> NameTexts]
        BY DEF NameTexts
      <3>2. \A k \in NameTexts : \E i \in S : f[i] = k
        BY Zenon DEF NameTexts
      <3> HIDE DEF f, S
      <3> QED
        BY <3>1, <3>2, Zenon DEF Surjection
    <2> HIDE DEF f, S
    <2>2. IsFiniteSet(NameTexts) /\ Cardinality(NameTexts) <= Cardinality(S)
      BY <1>1, <2>1, FS_Surjection, SMT DEF S
    <2> QED
      BY <1>1, <2>2, SMT DEF S
  <1>3. ASSUME NEW k \in NameTexts
        PROVE  /\ k \in Seq(Byte) /\ Len(k) = 1
               /\ k[1] \in 1..255 /\ k = <<k[1]>>
               /\ CString(k) = k
    <2>1. PICK i \in 1..255 : k = <<i>>
      BY DEF NameTexts
    <2>2. k \in Seq(Byte) /\ Len(k) = 1 /\ k[1] = i /\ DOMAIN k = {1}
      BY <2>1 DEF Byte
    <2>3. 0 \notin Range(k)
      BY <2>1, <2>2 DEF Range
    <2> QED
      BY <2>1, <2>2, <2>3 DEF CString
  <1> QED
    BY <1>2, <1>3

LEMMA KeysFacts ==
  ASSUME NEW obj, DOMAIN obj \subseteq NameTexts
  PROVE  /\ IsFiniteSet(DOMAIN obj) /\ Cardinality(DOMAIN obj) \in Byte
         /\ Keys(obj) \in Seq(DOMAIN obj)
         /\ Len(Keys(obj)) = Cardinality(DOMAIN obj)
         /\ \A k \in DOMAIN obj : \E i \in 1..Cardinality(DOMAIN obj) :
              Keys(obj)[i] = k
         /\ \A i, j \in 1..Cardinality(DOMAIN obj) :
              Keys(obj)[i] = Keys(obj)[j] => i = j
PROOF
  <1> DEFINE K == DOMAIN obj
             n == Cardinality(K)
             upto(k) == {l \in K : l[1] <= k[1]}
             rank == [k \in K |-> Cardinality(upto(k))]
             at(i) == CHOOSE k \in K : Cardinality(upto(k)) = i
             w == [i \in 1..n |-> at(i)]
  <1>1. IsFiniteSet(K) /\ n \in Nat /\ n \in Byte
    <2>1. IsFiniteSet(K) /\ n <= Cardinality(NameTexts)
      BY NameTextFacts, FS_Subset, Zenon
    <2>2. n \in Nat /\ Cardinality(NameTexts) \in Nat
      BY <2>1, NameTextFacts, FS_CardinalityType, Zenon
    <2>3. Cardinality(NameTexts) <= 255
      BY NameTextFacts, SMT
    <2> HIDE DEF n, K
    <2> QED
      BY <2>1, <2>2, <2>3, SMT DEF Byte
  <1>2. /\ \A k \in K : k[1] \in Int
        /\ \A k, l \in K : k # l => k[1] < l[1] \/ l[1] < k[1]
    <2>1. \A k \in K : k[1] \in Int
      <3>1. \A i \in 1..255 : i \in Int
        OBVIOUS
      <3> QED
        BY <3>1, NameTextFacts
    <2>2. \A k, l \in K : k[1] = l[1] => k = l
      BY NameTextFacts, Zenon
    <2> QED
      BY <2>1, <2>2, SMT
  <1> HIDE DEF K
  <1>3. ASSUME NEW k \in K
        PROVE  IsFiniteSet(upto(k)) /\ rank[k] \in 1..n
    <2>1. upto(k) \in SUBSET K /\ upto(k) # {} /\ k \in upto(k)
      BY <1>2
    <2>2. IsFiniteSet(upto(k)) /\ Cardinality(upto(k)) <= n
      BY <2>1, <1>1, FS_Subset, Zenon
    <2>3. Cardinality(upto(k)) \in Nat /\ Cardinality(upto(k)) # 0
      BY <2>1, <2>2, FS_CardinalityType, FS_EmptySet, Zenon
    <2> QED
      BY <1>1, <2>2, <2>3
  <1>4. ASSUME NEW k \in K, NEW l \in K, k[1] < l[1]
        PROVE  rank[k] < rank[l]
    <2>1. upto(k) \in SUBSET upto(l) /\ l \in upto(l) /\ l \notin upto(k)
      BY <1>2, <1>4
    <2>2. /\ Cardinality(upto(k)) <= Cardinality(upto(l))
          /\ Cardinality(upto(k)) # Cardinality(upto(l))
      BY <2>1, <1>3, FS_Subset, Zenon
    <2>3. /\ rank[k] = Cardinality(upto(k)) /\ rank[l] = Cardinality(upto(l))
          /\ rank[k] \in 1..n /\ rank[l] \in 1..n
      BY <1>3
    <2> HIDE DEF rank, upto
    <2> QED
      BY <1>1, <2>2, <2>3
  <1>5. rank \in Injection(K, 1..n)
    <2>1. rank \in [K -> 1..n]
      BY <1>3
    <2>2. ASSUME NEW k \in K, NEW l \in K, rank[k] = rank[l], k # l
          PROVE  FALSE
      <3>1. rank[k] \in 1..n /\ rank[l] \in 1..n
        BY <1>3
      <3> HIDE DEF rank, n
      <3>2. k[1] < l[1] \/ l[1] < k[1]
        BY <1>2, <2>2
      <3>3. rank[k] < rank[l] \/ rank[l] < rank[k]
        BY <3>2, <1>4, Zenon
      <3> QED
        BY <2>2, <3>1, <3>3
    <2> QED
      BY <2>1, <2>2 DEF Injection, IsInjective
  <1>6. rank \in Surjection(K, 1..n)
    <2>1. IsFiniteSet(1..n) /\ Cardinality(1..n) = n
      BY <1>1, FS_Interval
    <2> QED
      BY <1>1, <1>5, <2>1, FS_Injection
  <1>7. ASSUME NEW i \in 1..n
        PROVE  at(i) \in K /\ rank[at(i)] = i
    <2>1. \E k \in K : rank[k] = i
      BY <1>6 DEF Surjection
    <2>2. \E k \in K : Cardinality(upto(k)) = i
      BY <2>1
    <2>3. at(i) \in K /\ Cardinality(upto(at(i))) = i
      BY <2>2, Zenon
    <2> QED
      BY <2>3
  <1>8. Keys(obj) = w
    BY Zenon DEF Keys, K
  <1>9. w \in Seq(K) /\ Len(w) = n /\ \A i \in 1..n : w[i] = at(i)
    <2>1. \A i \in 1..n : at(i) \in K
      BY <1>7
    <2> HIDE DEF at, n
    <2> QED
      BY <1>1, <2>1
  <1>10. \A k \in K : \E i \in 1..n : w[i] = k
    <2> TAKE k \in K
    <2>1. rank[k] \in 1..n
      BY <1>3
    <2>2. w[rank[k]] = at(rank[k]) /\ rank[at(rank[k])] = rank[k]
          /\ at(rank[k]) \in K
      BY <2>1, <1>7, <1>9
    <2>3. at(rank[k]) = k
      <3> HIDE DEF at, rank, n
      <3> QED
        BY <2>2, <1>5 DEF Injection, IsInjective
    <2> HIDE DEF w, at, rank, n
    <2> QED
      BY <2>1, <2>2, <2>3
  <1>11. \A i, j \in 1..n : w[i] = w[j] => i = j
    <2> HIDE DEF w, at, rank
    <2> QED
      BY <1>7, <1>9, Zenon
  <1> HIDE DEF w, n
  <1> QED
    BY <1>1, <1>8, <1>9, <1>10, <1>11, Zenon DEF K, n

LEMMA TypeCodes ==
  /\ \A t \in DOMAIN TypeCode : TypeCode[t] \in Byte
  /\ \A t, x \in DOMAIN TypeCode : TypeCode[t] = TypeCode[x] => t = x
  /\ DOMAIN TypeCode = DOMAIN Width \cup {"STRING", "SUB_OBJECT", "LIST"}
PROOF
  <1>1. \A t \in DOMAIN TypeCode : TypeCode[t] \in Byte
    BY SMT DEF TypeCode, Byte
  <1>2. \A t, x \in DOMAIN TypeCode : TypeCode[t] = TypeCode[x] => t = x
    BY SMT DEF TypeCode
  <1>3. DOMAIN TypeCode = DOMAIN Width \cup {"STRING", "SUB_OBJECT", "LIST"}
    BY SMT DEF TypeCode, Width
  <1> QED
    BY <1>1, <1>2, <1>3, Zenon

LEMMA ReadCodeGives ==
  ASSUME NEW type \in DOMAIN TypeCode, NEW value, NEW s, NEW v, NEW u,
         Gives(ReadType(type, value, s), v, u)
  PROVE  Gives(ReadCode(TypeCode[type], value, s), Arg(type, v), u)
PROOF
  <1> DEFINE code == TypeCode[type]
             t == CHOOSE x \in DOMAIN TypeCode : TypeCode[x] = code
  <1>1. t = type
    <2>1. t \in DOMAIN TypeCode /\ TypeCode[t] = code
      BY Zenon
    <2> HIDE DEF t
    <2> QED
      BY <2>1, TypeCodes, Zenon
  <1>2. PICK r \in Stream : ReadType(type, value, s) = Value(v, r) /\ Ahead(r) = u
    BY Zenon DEF Gives
  <1>3. ReadCode(code, value, s)
          = Then(ReadType(t, value, s), LAMBDA x, s1 : Value(Arg(t, x), s1))
    BY Zenon DEF ReadCode
  <1> HIDE DEF t
  <1>4. ReadCode(code, value, s) = Value(Arg(type, v), r)
    BY <1>1, <1>2, <1>3 DEF Then, Value
  <1> QED
    BY <1>2, <1>4, Zenon DEF Gives

LEMMA EntryGives ==
  ASSUME NEW value, NEW s \in Stream,
         NEW k \in Seq(Byte), Len(k) \in Byte, CString(k) = k,
         NEW code \in Byte, NEW b \in Seq(Byte), NEW a, NEW u \in Seq(Byte),
         Ahead(s) = (Text(k) \o <<code>> \o b) \o u,
         \A r \in Stream : Ahead(r) = b \o u => Gives(value[code][r], a, u)
  PROVE  Gives(ReadEntry(value, s), <<k, a>>, u)
PROOF
  <1> DEFINE D == Seq(Byte)
             Cat(x, y) == x \o y
             c == <<code>>
             t == Text(k)
  <1>1. t \in D /\ c \in D /\ b \in D /\ u \in D
    BY TextType
  <1>2. \A x, y \in D : Cat(x, y) \in D
    BY ConcatProperties, ZenonT(30)
  <1>3. \A x, y, z \in D : Cat(Cat(x, y), z) = Cat(x, Cat(y, z))
    BY ConcatAssociative, SMTT(30)
  <1>4. Ahead(s) = Cat(Cat(Cat(t, c), b), u)
    BY Zenon
  <1>5. /\ Cat(Cat(Cat(t, c), b), u) = Cat(t, Cat(c, Cat(b, u)))
        /\ Cat(b, u) \in D /\ Cat(c, Cat(b, u)) \in D
    <2> HIDE DEF D, Cat, c, t
    <2> QED
      BY <1>1, <1>2, <1>3
  <1>6. PICK s1 \in Stream : /\ ReadString(s) = Value(k, s1)
                             /\ Ahead(s1) = Cat(c, Cat(b, u))
    <2>1. Gives(ReadString(s), CString(k), Cat(c, Cat(b, u)))
      BY <1>4, <1>5, TextGives, Zenon
    <2> QED
      BY <2>1, Zenon DEF Gives
  <1>7. PICK s2 \in Stream : /\ Extract(s1) = Value(code, s2)
                             /\ Ahead(s2) = Cat(b, u)
    <2>1. Gives(Extract(s1), code, Cat(b, u))
      BY <1>5, <1>6, ExtractGives, Zenon
    <2> QED
      BY <2>1, Zenon DEF Gives
  <1>8. PICK s3 \in Stream : value[code][s2] = Value(a, s3) /\ Ahead(s3) = u
    BY <1>7, Zenon DEF Gives
  <1>9. ReadEntry(value, s) = Value(<<k, a>>, s3)
    <2>1. ReadEntry(value, s)
            = Then(Extract(s1), LAMBDA x, r :
                Then(value[x][r], LAMBDA y, r1 : Value(<<k, y>>, r1)))
      BY <1>6 DEF ReadEntry, Then, Value
    <2>2. ReadEntry(value, s)
            = Then(value[code][s2], LAMBDA y, r1 : Value(<<k, y>>, r1))
      BY <1>7, <2>1 DEF Then, Value
    <2> QED
      BY <1>8, <2>2 DEF Then, Value
  <1> QED
    BY <1>8, <1>9, Zenon DEF Gives

\* The entries vs of the keys ks, which are K, each once.
Listing(K, got, n, ks, vs) ==
  /\ n \in Nat /\ DOMAIN vs = 1..n
  /\ \A i \in 1..n : ks[i] \in K /\ vs[i] = <<ks[i], got[ks[i]]>>
  /\ \A k \in K : \E i \in 1..n : ks[i] = k
  /\ \A i, j \in 1..n : ks[i] = ks[j] => i = j

LEMMA AsObjectIs ==
  ASSUME NEW K, NEW got, NEW n, NEW ks, NEW vs, Listing(K, got, n, ks, vs)
  PROVE  AsObject(vs) = [k \in K |-> got[k]]
PROOF
  <1> DEFINE Latest(k, i) == /\ vs[i][1] = k
                             /\ \A j \in DOMAIN vs : vs[j][1] = k => j <= i
  <1> USE DEF Listing
  <1>1. \A i \in 1..n : vs[i][1] = ks[i] /\ vs[i][2] = got[ks[i]]
    OBVIOUS
  <1>2. {vs[i][1] : i \in DOMAIN vs} = K
    BY <1>1
  <1>3. ASSUME NEW k \in K
        PROVE  vs[CHOOSE i \in DOMAIN vs : Latest(k, i)][2] = got[k]
    <2> DEFINE l == CHOOSE i \in DOMAIN vs : Latest(k, i)
    <2>1. PICK i \in 1..n : ks[i] = k
      OBVIOUS
    <2>2. \A j \in 1..n : ks[j] = k => j = i
      BY <2>1, Zenon
    <2>3. Latest(k, i)
      BY <1>1, <2>1, <2>2
    <2>4. l \in 1..n /\ Latest(k, l)
      BY <2>3, Zenon
    <2> HIDE DEF l
    <2>5. ks[l] = k
      BY <1>1, <2>4, Zenon
    <2> QED
      BY <1>1, <2>4, <2>5 DEF l
  <1>4. AsObject(vs) = [k \in {vs[i][1] : i \in DOMAIN vs} |->
                          vs[CHOOSE i \in DOMAIN vs : Latest(k, i)][2]]
    BY Zenon DEF AsObject
  <1> DEFINE last(k) == vs[CHOOSE i \in DOMAIN vs : Latest(k, i)][2]
  <1>5. AsObject(vs) = [k \in K |-> last(k)]
    BY <1>2, <1>4
  <1>6. \A k \in K : last(k) = got[k]
    BY <1>3
  <1> HIDE DEF last
  <1> QED
    BY <1>5, <1>6

\* The bytes of the entries of an object.
Entries(obj, body) ==
  [i \in 1..Cardinality(DOMAIN obj) |->
     LET k == Keys(obj)[i] IN
     Text(k) \o <<TypeCode[obj[k].type]>> \o body[k]]

LEMMA EntriesFacts ==
  ASSUME NEW obj, DOMAIN obj \subseteq NameTexts, NEW body,
         \A k \in DOMAIN obj : /\ obj[k].type \in DOMAIN TypeCode
                               /\ body[k] \in Seq(Byte)
  PROVE  /\ Entries(obj, body) \in Seq(Seq(Byte))
         /\ Len(Entries(obj, body)) = Cardinality(DOMAIN obj)
         /\ ObjectBody(obj, body)
              = <<Cardinality(DOMAIN obj)>> \o FlattenSeq(Entries(obj, body))
         /\ ObjectBody(obj, body) \in Seq(Byte)
PROOF
  <1> DEFINE K == DOMAIN obj
             n == Cardinality(K)
             ks == Keys(obj)
             D == Seq(Byte)
             Cat(x, y) == x \o y
             bytes(k) == Cat(Cat(Text(k), <<TypeCode[obj[k].type]>>), body[k])
             e == Entries(obj, body)
  <1>1. /\ n \in Nat /\ n \in Byte /\ ks \in Seq(K) /\ Len(ks) = n
        /\ DOMAIN ks = 1..n /\ \A i \in 1..n : ks[i] \in K
    <2>1. n \in Byte /\ ks \in Seq(K) /\ Len(ks) = n
      BY KeysFacts, Zenon
    <2> HIDE DEF n, ks, K
    <2> QED
      BY <2>1 DEF Byte
  <1>2. \A x, y \in D : Cat(x, y) \in D
    BY ConcatProperties, ZenonT(30)
  <1>3. ASSUME NEW k \in K
        PROVE  bytes(k) \in D
    <2>1. k \in D /\ Len(k) = 1
      BY NameTextFacts, Zenon
    <2>2. Text(k) \in D
      BY <2>1, TextType DEF Byte
    <2>3. <<TypeCode[obj[k].type]>> \in D /\ body[k] \in D
      BY TypeCodes
    <2> HIDE DEF Cat, D
    <2> QED
      BY <1>2, <2>2, <2>3
  <1>4. e = [i \in 1..n |-> bytes(ks[i])]
    BY Zenon DEF Entries
  <1>5. [i \in DOMAIN ks |-> LET k == ks[i] IN
           Text(k) \o <<TypeCode[obj[k].type]>> \o body[k]] = e
    BY <1>1, Zenon DEF Entries
  <1>6. ObjectBody(obj, body) = Cat(<<n>>, FlattenSeq(e))
    BY <1>5, Zenon DEF ObjectBody
  <1>7. e \in Seq(D) /\ Len(e) = n
    <2> HIDE DEF bytes, D, n, K, ks, e
    <2>1. \A i \in 1..n : bytes(ks[i]) \in D
      BY <1>1, <1>3
    <2> QED
      BY <1>1, <1>4, <2>1
  <1>8. FlattenSeq(e) \in D
    BY <1>7, FlattenType, Zenon
  <1>9. <<n>> \in D
    BY <1>1
  <1> HIDE DEF e
  <1> QED
    BY <1>2, <1>6, <1>7, <1>8, <1>9, Zenon DEF e

\* Where each value of an object is read back, the object is.
LEMMA ObjectGives ==
  ASSUME NEW value, NEW s \in Stream, NEW obj, DOMAIN obj \subseteq NameTexts,
         NEW body, NEW got, NEW u \in Seq(Byte),
         Ahead(s) = ObjectBody(obj, body) \o u,
         \A k \in DOMAIN obj : /\ obj[k].type \in DOMAIN TypeCode
                               /\ body[k] \in Seq(Byte),
         \A k \in DOMAIN obj, r \in Stream, x \in Seq(Byte) :
           Ahead(r) = body[k] \o x =>
             Gives(value[TypeCode[obj[k].type]][r], got[k], x)
  PROVE  Gives(ReadObject(value, s), [k \in DOMAIN obj |-> got[k]], u)
PROOF
  <1> DEFINE K == DOMAIN obj
             n == Cardinality(K)
             ks == Keys(obj)
             e == Entries(obj, body)
             rest == FlattenSeq(e)
             read == [s2 \in Stream |-> ReadEntry(value, s2)]
             V == K \X {got[k] : k \in K}
             vs == [i \in 1..n |-> <<ks[i], got[ks[i]]>>]
  <1>1. /\ n \in Nat /\ n \in Byte
        /\ \A i \in 1..n : ks[i] \in K
        /\ \A k \in K : \E i \in 1..n : ks[i] = k
        /\ \A i, j \in 1..n : ks[i] = ks[j] => i = j
    <2>1. /\ n \in Byte /\ ks \in Seq(K) /\ Len(ks) = n
          /\ \A k \in K : \E i \in 1..n : ks[i] = k
          /\ \A i, j \in 1..n : ks[i] = ks[j] => i = j
      BY KeysFacts, Zenon
    <2>2. n \in Nat
      BY <2>1 DEF Byte
    <2>3. \A i \in 1..n : ks[i] \in K
      <3> HIDE DEF ks, n, K
      <3> QED
        BY <2>1, <2>2
    <2> QED
      BY <2>1, <2>2, <2>3, Zenon
  <1>2. /\ e \in Seq(Seq(Byte)) /\ Len(e) = n
        /\ Ahead(s) = (<<n>> \o rest) \o u
        /\ rest \in Seq(Byte)
    BY EntriesFacts, FlattenType, Zenon
  <1>3. Ahead(s) = <<n>> \o (rest \o u) /\ rest \o u \in Seq(Byte)
    <2> HIDE DEF rest, n
    <2>1. <<n>> \in Seq(Byte)
      BY <1>1
    <2>2. (<<n>> \o rest) \o u = <<n>> \o (rest \o u)
      BY <1>2, <2>1, ConcatAssociative, SMTT(30)
    <2> QED
      BY <1>2, <2>2, ConcatProperties, Zenon
  <1>4. PICK s1 \in Stream : Extract(s) = Value(n, s1) /\ Ahead(s1) = rest \o u
    <2>1. Gives(Extract(s), n, rest \o u)
      BY <1>1, <1>3, ExtractGives, Zenon
    <2> QED
      BY <2>1, Zenon DEF Gives
  <1>5. /\ vs \in Seq(V) /\ Len(vs) = n /\ DOMAIN vs = 1..n
        /\ \A i \in 1..n : vs[i] = <<ks[i], got[ks[i]]>>
    <2> DEFINE entry(i) == <<ks[i], got[ks[i]]>>
               f == [i \in 1..n |-> entry(i)]
    <2>1. \A i \in 1..n : entry(i) \in V
      BY <1>1
    <2>2. f = vs
      BY Zenon
    <2>3. /\ f \in Seq(V) /\ Len(f) = n /\ DOMAIN f = 1..n
          /\ \A i \in 1..n : f[i] = entry(i)
      <3> HIDE DEF V, n, entry
      <3> QED
        BY <1>1, <2>1
    <2> HIDE DEF f, vs
    <2> QED
      BY <2>2, <2>3, Zenon
  <1>6. ASSUME NEW i \in 1..n, NEW r \in Stream, NEW x \in Seq(Byte),
               Ahead(r) = e[i] \o x
        PROVE  Gives(read[r], vs[i], x)
    <2> DEFINE k == ks[i]
               code == TypeCode[obj[k].type]
    <2>1. k \in K /\ vs[i] = <<k, got[k]>>
      BY <1>1, <1>5
    <2> HIDE DEF k, vs
    <2>2. k \in Seq(Byte) /\ Len(k) \in Byte /\ CString(k) = k
      <3>1. k \in Seq(Byte) /\ Len(k) = 1 /\ CString(k) = k
        BY <2>1, NameTextFacts
      <3> QED
        BY <3>1 DEF Byte
    <2>3. code \in Byte /\ body[k] \in Seq(Byte)
      BY <2>1, TypeCodes
    <2>4. Ahead(r) = (Text(k) \o <<code>> \o body[k]) \o x
      BY <1>6, Zenon DEF Entries, k
    <2>5. \A t \in Stream : Ahead(t) = body[k] \o x => Gives(value[code][t], got[k], x)
      BY <2>1, Zenon
    <2>6. Gives(ReadEntry(value, r), <<k, got[k]>>, x)
      <3> HIDE DEF code
      <3> QED
        BY <2>2, <2>3, <2>4, <2>5, EntryGives, Zenon
    <2> QED
      BY <2>1, <2>6, Zenon
  <1>7. PICK s2 \in Stream : Repeat(n, read, s1) = Value(vs, s2) /\ Ahead(s2) = u
    <2>1. Len(e) = Len(vs)
      BY <1>2, <1>5
    <2> HIDE DEF vs, V, read, e
    <2>2. Gives(Repeat(Len(vs), read, s1), vs, u)
      BY <1>2, <1>4, <1>5, <1>6, <2>1, RepeatGives, Zenon
    <2> QED
      BY <1>5, <2>2, Zenon DEF Gives
  <1>8. AsObject(vs) = [k \in K |-> got[k]]
    <2> HIDE DEF vs, ks, n, K
    <2>1. Listing(K, got, n, ks, vs)
      BY <1>1, <1>5 DEF Listing
    <2> QED
      BY <2>1, AsObjectIs
  <1>9. ReadObject(value, s) = Value(AsObject(vs), s2)
    <2> DEFINE After(m, r) ==
                 Then(Repeat(m, read, r), LAMBDA es, s3 : Value(AsObject(es), s3))
    <2>1. ReadObject(value, s) = Then(Extract(s), LAMBDA m, r : After(m, r))
      BY Zenon DEF ReadObject
    <2>2. After(n, s1) = Value(AsObject(vs), s2)
      <3> HIDE DEF read, n, vs
      <3> QED
        BY <1>7 DEF Then, Value
    <2> HIDE DEF After, n
    <2>3. Then(Extract(s), LAMBDA m, r : After(m, r)) = After(n, s1)
      BY <1>4 DEF Then, Value
    <2> QED
      BY <2>1, <2>2, <2>3, Zenon
  <1> QED
    BY <1>7, <1>8, <1>9, Zenon DEF Gives

-----------------------------------------------------------------------------
(* Lists.                                                                  *)

\* The items of a list: values of one type, as many as its length says.
Alike(items) ==
  /\ Len(items) \in Numbers("UINT32") /\ items \in Seq(Range(items))
  /\ \A i \in 1..Len(items) : /\ items[i].type \in DOMAIN TypeCode
                              /\ items[i].type = ListType(items)

LEMMA AlikeFacts ==
  ASSUME NEW items, Alike(items)
  PROVE  /\ Len(items) \in Nat /\ DOMAIN items = 1..Len(items)
         /\ ListType(items) \in DOMAIN TypeCode
         /\ Digits(Len(items), 4) \in Seq(Byte)
         /\ <<TypeCode[ListType(items)]>> \in Seq(Byte)
PROOF
  <1>1. Len(items) \in Nat /\ DOMAIN items = 1..Len(items)
    BY LenProperties DEF Alike
  <1>2. ListType(items) \in DOMAIN TypeCode
    <2>1. CASE items = <<>>
      BY <2>1 DEF ListType, TypeCode
    <2>2. CASE items # <<>>
      <3>1. 1 \in 1..Len(items)
        BY <2>2, EmptySeq, <1>1 DEF Alike
      <3> QED
        BY <3>1 DEF Alike
    <2> QED
      BY <2>1, <2>2
  <1>3. Digits(Len(items), 4) \in Seq(Byte)
    BY <1>1, DigitsType
  <1>4. <<TypeCode[ListType(items)]>> \in Seq(Byte)
    BY <1>2, TypeCodes
  <1> QED
    BY <1>1, <1>2, <1>3, <1>4, Zenon

LEMMA ListBodyType ==
  ASSUME NEW items, Alike(items), NEW bodies \in Seq(Seq(Byte))
  PROVE  ListBody(items, bodies) \in Seq(Byte)
PROOF
  <1> DEFINE c == <<TypeCode[ListType(items)]>>
             w == Digits(Len(items), 4)
             f == FlattenSeq(bodies)
             D == Seq(Byte)
  <1>1. c \in D /\ w \in D /\ f \in D
    BY AlikeFacts, FlattenType, Zenon
  <1>2. \A x, y \in D : x \o y \in D
    BY ConcatProperties, ZenonT(30)
  <1>3. ListBody(items, bodies) = (c \o w) \o f
    BY Zenon DEF ListBody
  <1> HIDE DEF c, w, f, D
  <1> QED
    BY <1>1, <1>2, <1>3, Zenon DEF D

\* Where each item is read back, the list is.
LEMMA ListGives ==
  ASSUME NEW value, NEW s \in Stream, NEW items, Alike(items),
         NEW bodies \in Seq(Seq(Byte)), Len(bodies) = Len(items),
         NEW V, NEW got \in Seq(V), Len(got) = Len(items), NEW u \in Seq(Byte),
         Ahead(s) = ListBody(items, bodies) \o u,
         \A i \in 1..Len(items), r \in Stream, x \in Seq(Byte) :
           Ahead(r) = bodies[i] \o x =>
             Gives(value[TypeCode[items[i].type]][r], got[i], x)
  PROVE  Gives(ReadList(value, s), got, u)
PROOF
  <1> DEFINE code == TypeCode[ListType(items)]
             c == <<code>>
             n == Len(items)
             w == Digits(n, 4)
             f == FlattenSeq(bodies)
             D == Seq(Byte)
             Cat(x, y) == x \o y
  <1>1. c \in D /\ w \in D /\ f \in D /\ u \in D
    BY AlikeFacts, FlattenType, Zenon
  <1>2. \A x, y \in D : Cat(x, y) \in D
    BY ConcatProperties, ZenonT(30)
  <1>3. \A x, y, z \in D : Cat(Cat(x, y), z) = Cat(x, Cat(y, z))
    BY ConcatAssociative, SMTT(30)
  <1>4. Ahead(s) = Cat(Cat(Cat(c, w), f), u)
    BY Zenon DEF ListBody
  <1>5. /\ Cat(Cat(Cat(c, w), f), u) = Cat(c, Cat(w, Cat(f, u)))
        /\ Cat(f, u) \in D /\ Cat(w, Cat(f, u)) \in D
    <2> HIDE DEF c, w, f, D, Cat
    <2> QED
      BY <1>1, <1>2, <1>3
  <1>6. PICK s1 \in Stream : Extract(s) = Value(code, s1) /\ Ahead(s1) = Cat(w, Cat(f, u))
    <2>1. code \in Byte
      BY AlikeFacts, TypeCodes, Zenon
    <2>2. Gives(Extract(s), code, Cat(w, Cat(f, u)))
      BY <1>4, <1>5, <2>1, ExtractGives, Zenon
    <2> QED
      BY <2>2, Zenon DEF Gives
  <1>7. PICK s2 \in Stream : /\ ReadNumber("UINT32", s1) = Value(n, s2)
                             /\ Ahead(s2) = Cat(f, u)
    <2>1. "UINT32" \in DOMAIN Width /\ Width["UINT32"] = 4
      BY DEF Width
    <2>2. n \in Numbers("UINT32")
      BY Zenon DEF Alike
    <2>3. Ahead(s1) = Digits(n, Width["UINT32"]) \o Cat(f, u)
      BY <1>6, <2>1, Zenon
    <2>4. Gives(ReadNumber("UINT32", s1), n, Cat(f, u))
      <3> HIDE DEF n
      <3> QED
        BY <1>5, <2>1, <2>2, <2>3, NumberGives, Zenon
    <2> QED
      BY <2>4, Zenon DEF Gives
  <1>8. ASSUME NEW i \in 1..Len(got), NEW r \in Stream, NEW x \in Seq(Byte),
               Ahead(r) = bodies[i] \o x
        PROVE  Gives(value[code][r], got[i], x)
    <2>1. i \in 1..Len(items) /\ items[i].type = ListType(items)
      BY DEF Alike
    <2> QED
      BY <1>8, <2>1, Zenon
  <1>9. PICK s3 \in Stream : /\ Repeat(n, value[code], s2) = Value(got, s3)
                             /\ Ahead(s3) = u
    <2>1. Len(bodies) = Len(got)
      OBVIOUS
    <2>2. Gives(Repeat(Len(got), value[code], s2), got, u)
      <3> HIDE DEF code
      <3> QED
        BY <1>7, <1>8, <2>1, RepeatGives, Zenon
    <2> QED
      BY <2>2, Zenon DEF Gives
  <1>10. ReadList(value, s) = Value(got, s3)
    <2> HIDE DEF code, n
    <2>1. ReadList(value, s)
            = Then(ReadNumber("UINT32", s1),
                   LAMBDA m, r : Repeat(m, value[code], r))
      BY <1>6 DEF ReadList, Then, Value
    <2>2. Then(ReadNumber("UINT32", s1),
               LAMBDA m, r : Repeat(m, value[code], r))
            = Repeat(n, value[code], s2)
      BY <1>7 DEF Then, Value
    <2> QED
      BY <1>9, <2>1, <2>2, Zenon
  <1> QED
    BY <1>9, <1>10, Zenon DEF Gives

-----------------------------------------------------------------------------
(* The values of a message, by their nesting: numbers and texts, records   *)
(* of them, lists of either, and the message.  A Cut value is what a NUL   *)
(* inside a text leaves of it.                                             *)

LEMMA Level ==
  ASSUME NEW n \in Nat, NEW d \in 1..n, NEW code \in Byte, NEW s \in Stream
  PROVE  ReadValues(n)[d][code][s] = ReadCode(code, ReadValues(n)[d - 1], s)
PROOF
  <1> DEFINE deep == ReadValues(n)
  <1>1. deep = [k \in 0..n |-> IF k = 0 THEN Deepest ELSE Deeper(deep[k - 1])]
    BY ReadValuesDef, Zenon
  <1> HIDE DEF deep
  <1>2. deep[d] = Deeper(deep[d - 1])
    BY <1>1
  <1>3. deep[d][code][s] = ReadCode(code, deep[d - 1], s)
    BY <1>2 DEF Deeper
  <1> QED
    BY <1>3 DEF deep

IsScalar(a) ==
  /\ a = Arg(a.type, a.val)
  /\ \/ a.type = "STRING" /\ a.val \in Seq(Byte)
     \/ a.type \in DOMAIN Width /\ a.val \in Numbers(a.type)

CutScalar(a) == IF a.type = "STRING" THEN Arg("STRING", CString(a.val)) ELSE a

LEMMA LengthByte ==
  ASSUME NEW t \in Seq(Byte), TextFits(t)
  PROVE  Len(t) \in Byte
PROOF
  <1>1. Len(t) \in Nat /\ Len(t) <= MaxString
    BY DEF TextFits
  <1> QED
    <2>1. MaxString <= 255 /\ MaxString \in Int
      BY LengthsFit
    <2>2. \A m \in Nat : m <= MaxString => m \in 0..255
      BY <2>1
    <2> QED
      BY <1>1, <2>2 DEF Byte

LEMMA ScalarType ==
  ASSUME NEW a, IsScalar(a), ScalarFits(a)
  PROVE  /\ a.type \in DOMAIN TypeCode /\ Scalar(a) \in Seq(Byte)
         /\ a.type # "SUB_OBJECT" /\ a.type # "LIST"
         /\ a.type = "STRING" => Len(a.val) \in Byte
         /\ CutScalar(a).type = a.type
PROOF
  <1>1. CASE a.type = "STRING"
    <2>1. a.val \in Seq(Byte)
      BY <1>1 DEF IsScalar, Width
    <2>2. Len(a.val) \in Byte
      BY <1>1, <2>1, LengthByte, Zenon DEF ScalarFits
    <2>3. Scalar(a) \in Seq(Byte)
      BY <1>1, <2>1, <2>2, TextType, Zenon DEF Scalar
    <2>4. CutScalar(a).type = "STRING"
      BY <1>1 DEF CutScalar, Arg
    <2> QED
      BY <1>1, <2>2, <2>3, <2>4, TypeCodes
  <1>2. CASE a.type \in DOMAIN Width /\ a.val \in Numbers(a.type)
    <2>1. a.type \notin {"STRING", "SUB_OBJECT", "LIST"}
      BY <1>2 DEF Width
    <2>2. a.val \in Int
      BY <1>2, NumberComesBack, Zenon
    <2>3. Width[a.type] \in {1, 2, 4}
      BY <1>2, Widths
    <2>4. Digits(a.val, Width[a.type]) \in Seq(Byte)
      BY <2>2, <2>3, DigitsType, Zenon
    <2>5. Scalar(a) \in Seq(Byte) /\ CutScalar(a) = a
      BY <2>1, <2>4, Zenon DEF Scalar, CutScalar
    <2> QED
      BY <1>2, <2>1, <2>5, TypeCodes
  <1> QED
    BY <1>1, <1>2 DEF IsScalar

LEMMA ScalarGives ==
  ASSUME NEW n \in Nat, NEW d \in 1..n, NEW a, IsScalar(a), ScalarFits(a),
         NEW s \in Stream, NEW u \in Seq(Byte), Ahead(s) = Scalar(a) \o u
  PROVE  Gives(ReadValues(n)[d][TypeCode[a.type]][s], CutScalar(a), u)
PROOF
  <1> DEFINE value == ReadValues(n)[d - 1]
             type == a.type
  <1>1. /\ type \in DOMAIN TypeCode /\ TypeCode[type] \in Byte
        /\ type # "SUB_OBJECT" /\ type # "LIST"
    BY ScalarType, TypeCodes, Zenon
  <1>2. CASE type = "STRING"
    <2>1. a.val \in Seq(Byte) /\ Len(a.val) \in Byte
      BY <1>2, ScalarType DEF IsScalar, Width
    <2>2. Ahead(s) = Text(a.val) \o u
      BY <1>2, Zenon DEF Scalar
    <2>3. Gives(ReadString(s), CString(a.val), u)
      BY <2>1, <2>2, TextGives, Zenon
    <2>4. ReadType("STRING", value, s) = ReadString(s)
      BY SMT DEF ReadType
    <2>5. CutScalar(a) = Arg(type, CString(a.val))
      BY <1>2, Zenon DEF CutScalar
    <2> HIDE DEF value
    <2>6. Gives(ReadCode(TypeCode[type], value, s), CutScalar(a), u)
      BY <1>1, <1>2, <2>3, <2>4, <2>5, ReadCodeGives, Zenon
    <2> QED
      BY <1>1, <2>6, Level, Zenon DEF value
  <1>3. CASE type # "STRING"
    <2>1. type \in DOMAIN Width /\ a.val \in Numbers(type) /\ a = Arg(type, a.val)
      BY <1>3, Zenon DEF IsScalar
    <2>2. Ahead(s) = Digits(a.val, Width[type]) \o u
      BY <1>3, Zenon DEF Scalar
    <2>3. Gives(ReadNumber(type, s), a.val, u)
      BY <2>1, <2>2, NumberGives, Zenon
    <2>4. ReadType(type, value, s) = ReadNumber(type, s)
      BY <1>1, <1>3, SMT DEF ReadType
    <2>5. CutScalar(a) = Arg(type, a.val)
      BY <1>3, <2>1, Zenon DEF CutScalar
    <2> HIDE DEF value
    <2>6. Gives(ReadCode(TypeCode[type], value, s), CutScalar(a), u)
      BY <1>1, <2>3, <2>4, <2>5, ReadCodeGives, Zenon
    <2> QED
      BY <1>1, <2>6, Level, Zenon DEF value
  <1> QED
    BY <1>2, <1>3

\* An item of a list, which can stand by itself, too.
IsItem(a) ==
  \/ IsScalar(a)
  \/ /\ a.type = "SUB_OBJECT" /\ DOMAIN a.val \subseteq NameTexts
     /\ \A k \in DOMAIN a.val : IsScalar(a.val[k])

CutItem(a) ==
  IF a.type = "SUB_OBJECT"
  THEN Arg("SUB_OBJECT", [k \in DOMAIN a.val |-> CutScalar(a.val[k])])
  ELSE CutScalar(a)

LEMMA ItemType ==
  ASSUME NEW a, IsItem(a), ItemFits(a)
  PROVE  /\ a.type \in DOMAIN TypeCode /\ Item(a) \in Seq(Byte)
         /\ a.type # "LIST" /\ CutItem(a).type = a.type
PROOF
  <1>1. CASE a.type = "SUB_OBJECT"
    <2> DEFINE obj == a.val
               body == [k \in DOMAIN obj |-> Scalar(obj[k])]
    <2>1. ~IsScalar(a)
      BY <1>1, SMT DEF IsScalar, Width
    <2>2. /\ DOMAIN obj \subseteq NameTexts
          /\ \A k \in DOMAIN obj : IsScalar(obj[k]) /\ ScalarFits(obj[k])
      BY <1>1, <2>1, Zenon DEF IsItem, ItemFits
    <2>3. \A k \in DOMAIN obj : /\ obj[k].type \in DOMAIN TypeCode
                                /\ body[k] \in Seq(Byte)
      BY <2>2, ScalarType, Zenon
    <2>4. Item(a) = ObjectBody(obj, body)
      BY <1>1, Zenon DEF Item
    <2>5. ObjectBody(obj, body) \in Seq(Byte)
      <3> HIDE DEF obj, body
      <3> QED
        BY <2>2, <2>3, EntriesFacts, Zenon
    <2>6. CutItem(a).type = "SUB_OBJECT"
      BY <1>1 DEF CutItem, Arg
    <2>7. a.type \in DOMAIN TypeCode
      BY <1>1, TypeCodes, Zenon
    <2> QED
      BY <1>1, <2>4, <2>5, <2>6, <2>7
  <1>2. CASE a.type # "SUB_OBJECT"
    <2>1. IsScalar(a) /\ ScalarFits(a)
      BY <1>2, Zenon DEF IsItem, ItemFits
    <2>2. Item(a) = Scalar(a) /\ CutItem(a) = CutScalar(a)
      BY <1>2, Zenon DEF Item, CutItem
    <2> QED
      BY <2>1, <2>2, ScalarType, Zenon
  <1> QED
    BY <1>1, <1>2

LEMMA ItemGives ==
  ASSUME NEW n \in Nat, NEW d \in 2..n, NEW a, IsItem(a), ItemFits(a),
         NEW s \in Stream, NEW u \in Seq(Byte), Ahead(s) = Item(a) \o u
  PROVE  Gives(ReadValues(n)[d][TypeCode[a.type]][s], CutItem(a), u)
PROOF
  <1> DEFINE value == ReadValues(n)[d - 1]
  <1>1. d \in 1..n /\ d - 1 \in 1..n
    OBVIOUS
  <1>2. CASE a.type = "SUB_OBJECT"
    <2> DEFINE obj == a.val
               body == [k \in DOMAIN obj |-> Scalar(obj[k])]
               got == [k \in DOMAIN obj |-> CutScalar(obj[k])]
               code == TypeCode["SUB_OBJECT"]
    <2>1. ~IsScalar(a)
      BY <1>2, SMT DEF IsScalar, Width
    <2>2. /\ DOMAIN obj \subseteq NameTexts
          /\ \A k \in DOMAIN obj : IsScalar(obj[k]) /\ ScalarFits(obj[k])
      BY <1>2, <2>1, Zenon DEF IsItem, ItemFits
    <2>3. \A k \in DOMAIN obj : /\ obj[k].type \in DOMAIN TypeCode
                                /\ body[k] \in Seq(Byte)
      BY <2>2, ScalarType, Zenon
    <2>4. ASSUME NEW k \in DOMAIN obj, NEW r \in Stream, NEW x \in Seq(Byte),
                 Ahead(r) = body[k] \o x
          PROVE  Gives(value[TypeCode[obj[k].type]][r], got[k], x)
      <3>1. IsScalar(obj[k]) /\ ScalarFits(obj[k])
        BY <2>2
      <3>2. Ahead(r) = Scalar(obj[k]) \o x
        BY <2>4
      <3>3. Gives(value[TypeCode[obj[k].type]][r], CutScalar(obj[k]), x)
        BY <1>1, <3>1, <3>2, ScalarGives, Zenon
      <3> QED
        BY <3>3, Zenon
    <2>5. Ahead(s) = ObjectBody(obj, body) \o u
      BY <1>2, Zenon DEF Item
    <2> HIDE DEF value, obj, body
    <2>6. Gives(ReadObject(value, s), [k \in DOMAIN obj |-> got[k]], u)
      <3> HIDE DEF got
      <3> QED
        BY <2>2, <2>3, <2>4, <2>5, ObjectGives, Zenon
    <2>7. [k \in DOMAIN obj |-> got[k]] = got
      BY Zenon
    <2>8. CutItem(a) = Arg("SUB_OBJECT", got)
      BY <1>2, Zenon DEF CutItem, obj
    <2>9. ReadType("SUB_OBJECT", value, s) = ReadObject(value, s)
      BY SMT DEF ReadType
    <2> HIDE DEF got
    <2>10. "SUB_OBJECT" \in DOMAIN TypeCode /\ code \in Byte
      BY TypeCodes, Zenon
    <2>11. Gives(ReadCode(code, value, s), CutItem(a), u)
      <3>1. Gives(ReadType("SUB_OBJECT", value, s), got, u)
        BY <2>6, <2>7, <2>9, Zenon
      <3>2. Gives(ReadCode(code, value, s), Arg("SUB_OBJECT", got), u)
        BY <2>10, <3>1, ReadCodeGives, Zenon
      <3> QED
        BY <2>8, <3>2, Zenon
    <2>12. ReadValues(n)[d][code][s] = ReadCode(code, value, s)
      BY <1>1, <2>10, Level, Zenon DEF value
    <2> QED
      BY <1>2, <2>11, <2>12, Zenon
  <1>3. CASE a.type # "SUB_OBJECT"
    <2>1. IsScalar(a) /\ ScalarFits(a)
      BY <1>3, Zenon DEF IsItem, ItemFits
    <2>2. Item(a) = Scalar(a) /\ CutItem(a) = CutScalar(a)
      BY <1>3, Zenon DEF Item, CutItem
    <2> QED
      BY <1>1, <2>1, <2>2, ScalarGives, Zenon
  <1> QED
    BY <1>2, <1>3

\* The value of a key of a message.
IsBody(a) ==
  \/ IsItem(a)
  \/ /\ a.type = "LIST" /\ Alike(a.val)
     /\ \A i \in DOMAIN a.val : IsItem(a.val[i])

CutBody(a) ==
  IF a.type = "LIST" THEN Arg("LIST", [i \in DOMAIN a.val |-> CutItem(a.val[i])])
                     ELSE CutItem(a)

LEMMA ListIsNoItem ==
  ASSUME NEW a, a.type = "LIST"
  PROVE  ~IsItem(a)
BY SMT DEF IsItem, IsScalar, Width

LEMMA BodiesType ==
  ASSUME NEW items, Alike(items),
         \A i \in DOMAIN items : IsItem(items[i]) /\ ItemFits(items[i])
  PROVE  /\ [i \in DOMAIN items |-> Item(items[i])] \in Seq(Seq(Byte))
         /\ Len([i \in DOMAIN items |-> Item(items[i])]) = Len(items)
PROOF
  <1> DEFINE n == Len(items)
             D == Seq(Byte)
             bodies == [i \in 1..n |-> Item(items[i])]
  <1>1. n \in Nat /\ DOMAIN items = 1..n
    BY AlikeFacts, Zenon
  <1>2. \A i \in 1..n : Item(items[i]) \in D
    BY <1>1, ItemType, Zenon
  <1>3. bodies \in Seq(D) /\ Len(bodies) = n
    <2> HIDE DEF n, D
    <2> QED
      BY <1>1, <1>2
  <1>4. [i \in DOMAIN items |-> Item(items[i])] = bodies
    BY <1>1, Zenon
  <1> HIDE DEF bodies
  <1> QED
    BY <1>3, <1>4, Zenon

LEMMA BodyType ==
  ASSUME NEW a, IsBody(a), Sendable(a)
  PROVE  a.type \in DOMAIN TypeCode /\ Body(a) \in Seq(Byte)
PROOF
  <1>1. CASE a.type = "LIST"
    <2> DEFINE items == a.val
               bodies == [i \in DOMAIN items |-> Item(items[i])]
    <2>1. /\ Alike(items)
          /\ \A i \in DOMAIN items : IsItem(items[i]) /\ ItemFits(items[i])
      BY <1>1, ListIsNoItem, Zenon DEF IsBody, Sendable
    <2>2. bodies \in Seq(Seq(Byte))
      BY <2>1, BodiesType, Zenon
    <2>3. Body(a) = ListBody(items, bodies)
      BY <1>1, Zenon DEF Body
    <2> HIDE DEF items, bodies
    <2>4. Body(a) \in Seq(Byte)
      BY <2>1, <2>2, <2>3, ListBodyType, Zenon
    <2>5. a.type \in DOMAIN TypeCode
      BY <1>1, TypeCodes, Zenon
    <2> QED
      BY <2>4, <2>5
  <1>2. CASE a.type # "LIST"
    <2>1. IsItem(a) /\ ItemFits(a) /\ Body(a) = Item(a)
      BY <1>2, Zenon DEF IsBody, Sendable, Body
    <2> QED
      BY <2>1, ItemType, Zenon
  <1> QED
    BY <1>1, <1>2

LEMMA BodyGives ==
  ASSUME NEW n \in Nat, NEW d \in 3..n, NEW a, IsBody(a), Sendable(a),
         NEW s \in Stream, NEW u \in Seq(Byte), Ahead(s) = Body(a) \o u
  PROVE  Gives(ReadValues(n)[d][TypeCode[a.type]][s], CutBody(a), u)
PROOF
  <1> DEFINE value == ReadValues(n)[d - 1]
  <1>1. d \in 1..n /\ d \in 2..n /\ d - 1 \in 2..n
    OBVIOUS
  <1>2. CASE a.type = "LIST"
    <2> DEFINE items == a.val
               bodies == [i \in DOMAIN items |-> Item(items[i])]
               m == Len(items)
               got == [i \in 1..m |-> CutItem(items[i])]
               V == {CutItem(items[i]) : i \in 1..m}
               code == TypeCode["LIST"]
    <2>1. /\ Alike(items)
          /\ \A i \in DOMAIN items : IsItem(items[i]) /\ ItemFits(items[i])
      BY <1>2, ListIsNoItem, Zenon DEF IsBody, Sendable
    <2>2. bodies \in Seq(Seq(Byte)) /\ Len(bodies) = m
      BY <2>1, BodiesType, Zenon
    <2>3. m \in Nat /\ DOMAIN items = 1..m
      BY <2>1, AlikeFacts, Zenon
    <2>4. /\ got \in Seq(V) /\ Len(got) = m
          /\ \A i \in 1..m : got[i] = CutItem(items[i])
      <3>1. \A i \in 1..m : CutItem(items[i]) \in V
        OBVIOUS
      <3> HIDE DEF m, V
      <3> QED
        BY <2>3, <3>1
    <2>5. ASSUME NEW i \in 1..m, NEW r \in Stream, NEW x \in Seq(Byte),
                 Ahead(r) = bodies[i] \o x
          PROVE  Gives(value[TypeCode[items[i].type]][r], got[i], x)
      <3>1. IsItem(items[i]) /\ ItemFits(items[i])
        BY <2>1, <2>3
      <3>2. Ahead(r) = Item(items[i]) \o x
        BY <2>3, <2>5
      <3>3. Gives(value[TypeCode[items[i].type]][r], CutItem(items[i]), x)
        BY <1>1, <3>1, <3>2, ItemGives, Zenon
      <3> QED
        BY <2>4, <3>3, Zenon
    <2>6. Ahead(s) = ListBody(items, bodies) \o u
      BY <1>2, Zenon DEF Body
    <2>7. CutBody(a) = Arg("LIST", got)
      BY <1>2, <2>3, Zenon DEF CutBody
    <2> HIDE DEF value, items, bodies, got, V
    <2>8. Gives(ReadList(value, s), got, u)
      BY <2>1, <2>2, <2>4, <2>5, <2>6, ListGives, Zenon
    <2>9. ReadType("LIST", value, s) = ReadList(value, s)
      BY SMT DEF ReadType
    <2>10. "LIST" \in DOMAIN TypeCode /\ code \in Byte
      BY TypeCodes, Zenon
    <2>11. Gives(ReadCode(code, value, s), CutBody(a), u)
      <3>1. Gives(ReadType("LIST", value, s), got, u)
        BY <2>8, <2>9, Zenon
      <3>2. Gives(ReadCode(code, value, s), Arg("LIST", got), u)
        BY <2>10, <3>1, ReadCodeGives, Zenon
      <3> QED
        BY <2>7, <3>2, Zenon
    <2>12. ReadValues(n)[d][code][s] = ReadCode(code, value, s)
      BY <1>1, <2>10, Level, Zenon DEF value
    <2> QED
      BY <1>2, <2>11, <2>12, Zenon
  <1>3. CASE a.type # "LIST"
    <2>1. /\ IsItem(a) /\ ItemFits(a)
          /\ Body(a) = Item(a) /\ CutBody(a) = CutItem(a)
      BY <1>3, Zenon DEF IsBody, Sendable, Body, CutBody
    <2> QED
      BY <1>1, <2>1, ItemGives, Zenon
  <1> QED
    BY <1>2, <1>3

-----------------------------------------------------------------------------
(* Messages.                                                               *)

IsMessage(m) ==
  /\ m.cmd \in Seq(Byte) /\ DOMAIN m.args \subseteq NameTexts
  /\ \A k \in DOMAIN m.args : IsBody(m.args[k])

CutMessage(m) ==
  [cmd |-> CString(m.cmd),
   args |-> [k \in DOMAIN m.args |-> CutBody(m.args[k])]]

Bodies(m) == [k \in DOMAIN m.args |-> Body(m.args[k])]

LEMMA MessageParts ==
  ASSUME NEW m, IsMessage(m), Encodable(m)
  PROVE  /\ Magic \in Seq(Byte) /\ Version \in Seq(Byte)
         /\ Len(Magic) = 2 /\ Len(Version) = 2
         /\ Len(m.cmd) \in Byte /\ Text(m.cmd) \in Seq(Byte)
         /\ \A k \in DOMAIN m.args :
              /\ m.args[k].type \in DOMAIN TypeCode
              /\ Bodies(m)[k] \in Seq(Byte)
         /\ ObjectBody(m.args, Bodies(m)) \in Seq(Byte)
PROOF
  <1>1. /\ Magic \in Seq(Byte) /\ Version \in Seq(Byte)
        /\ Len(Magic) = 2 /\ Len(Version) = 2
    BY DEF Magic, Version, Byte
  <1>2. Len(m.cmd) \in Byte /\ Text(m.cmd) \in Seq(Byte)
    BY LengthByte, TextType, Zenon DEF IsMessage, Encodable
  <1>3. \A k \in DOMAIN m.args : /\ m.args[k].type \in DOMAIN TypeCode
                                 /\ Bodies(m)[k] \in Seq(Byte)
    BY BodyType, Zenon DEF IsMessage, Encodable, Bodies
  <1>4. ObjectBody(m.args, Bodies(m)) \in Seq(Byte)
    BY <1>3, EntriesFacts, Zenon DEF IsMessage
  <1> QED
    BY <1>1, <1>2, <1>3, <1>4, Zenon

\* What is sent is bytes, and never nothing: the magic is in it.
LEMMA EncodeType ==
  ASSUME NEW m, IsMessage(m), Encodable(m)
  PROVE  Encode(m) \in Seq(Byte) /\ Len(Encode(m)) \in Nat /\ Len(Encode(m)) >= 3
PROOF
  <1> DEFINE o == ObjectBody(m.args, Bodies(m))
             c == Text(m.cmd)
  <1>1. /\ Magic \in Seq(Byte) /\ Version \in Seq(Byte)
        /\ Len(Magic) = 2 /\ Len(Version) = 2
        /\ c \in Seq(Byte) /\ o \in Seq(Byte)
    BY MessageParts, Zenon
  <1>2. Encode(m) = ((Magic \o Version) \o c) \o o
    BY Zenon DEF Encode, Bodies
  <1> HIDE DEF o, c
  <1>3. ((Magic \o Version) \o c) \o o \in Seq(Byte)
    BY <1>1, ConcatProperties, Zenon
  <1>4. Len(((Magic \o Version) \o c) \o o) = 2 + 2 + Len(c) + Len(o)
    <2> DEFINE D == Seq(Byte)
               Cat(x, y) == x \o y
    <2>1. \A x, y \in D : Cat(x, y) \in D /\ Len(Cat(x, y)) = Len(x) + Len(y)
      BY ConcatProperties, ZenonT(30)
    <2>2. Len(Cat(Cat(Cat(Magic, Version), c), o)) = 2 + 2 + Len(c) + Len(o)
      <3> HIDE DEF D, Cat
      <3>1. Magic \in D /\ Version \in D /\ c \in D /\ o \in D
        BY <1>1 DEF D
      <3>2. /\ Cat(Magic, Version) \in D
            /\ Len(Cat(Magic, Version)) = Len(Magic) + Len(Version)
        BY <2>1, <3>1, Zenon
      <3>3. /\ Cat(Cat(Magic, Version), c) \in D
            /\ Len(Cat(Cat(Magic, Version), c))
                 = Len(Cat(Magic, Version)) + Len(c)
        BY <2>1, <3>1, <3>2, Zenon
      <3>4. Len(Cat(Cat(Cat(Magic, Version), c), o))
              = Len(Cat(Cat(Magic, Version), c)) + Len(o)
        BY <2>1, <3>1, <3>3, Zenon
      <3> QED
        BY <1>1, <3>2, <3>3, <3>4
    <2> QED
      BY <2>2
  <1>5. Len(c) \in Nat /\ Len(o) \in Nat
    BY <1>1
  <1> QED
    BY <1>2, <1>3, <1>4, <1>5

\* What is written of a message is read back from its bytes: every command,
\* key, number and text, to any nesting the program writes, with each text as
\* far as its first NUL (message::send_to and the constructor of message).
THEOREM MessageComesBack ==
  ASSUME NEW m, IsMessage(m), Encodable(m)
  PROVE  \E s \in Stream : Decode(Encode(m)) = Value(CutMessage(m), s)
PROOF
  <1> DEFINE D == Seq(Byte)
             Cat(x, y) == x \o y
             nil == <<>>
             c == Text(m.cmd)
             o == ObjectBody(m.args, Bodies(m))
             data == Encode(m)
             n == Len(data)
             value == ReadValue(n)
             s0 == [data |-> data, offset |-> 0]
             cmd == CString(m.cmd)
             args == [k \in DOMAIN m.args |-> CutBody(m.args[k])]
  <1>1. /\ Magic \in D /\ Version \in D /\ c \in D /\ o \in D /\ nil \in D
        /\ Len(Magic) = 2 /\ Len(Version) = 2 /\ data \in D
        /\ n \in Nat /\ n >= 3
    BY MessageParts, EncodeType, EmptySeq, Zenon
  <1>2. data = Cat(Cat(Cat(Magic, Version), c), o)
    BY Zenon DEF Encode, Bodies
  <1>3. /\ \A x, y \in D : Cat(x, y) \in D
        /\ \A x \in D : Cat(x, nil) = x
    BY ConcatProperties, ConcatEmptySeq, Zenon
  <1>4. \A x, y, z \in D : Cat(Cat(x, y), z) = Cat(x, Cat(y, z))
    BY ConcatAssociative, SMTT(30)
  <1>5. /\ data = Cat(Magic, Cat(Version, Cat(c, Cat(o, nil))))
        /\ Cat(o, nil) \in D /\ Cat(c, Cat(o, nil)) \in D
        /\ Cat(Version, Cat(c, Cat(o, nil))) \in D
    <2> HIDE DEF D, Cat, nil, c, o, data
    <2> QED
      BY <1>1, <1>2, <1>3, <1>4
  <1>6. s0 \in Stream /\ Ahead(s0) = Cat(Magic, Cat(Version, Cat(c, Cat(o, nil))))
    <2>1. s0 \in Stream
      BY <1>1 DEF Stream
    <2>2. Ahead(s0) = SubSeq(data, 1, Len(data))
      <3>1. s0.data = data /\ s0.offset + 1 = 1
        OBVIOUS
      <3> HIDE DEF s0
      <3> QED
        BY <3>1, Zenon DEF Ahead
    <2> QED
      BY <1>1, <1>5, <2>1, <2>2, SubSeqFull, Zenon
  <1> HIDE DEF s0
  <1>7. PICK s1 \in Stream : /\ Repeat(2, Extracts, s0) = Value(Magic, s1)
                             /\ Ahead(s1) = Cat(Version, Cat(c, Cat(o, nil)))
    <2>1. Gives(Repeat(2, Extracts, s0), Magic, Cat(Version, Cat(c, Cat(o, nil))))
      BY <1>1, <1>5, <1>6, ExtractsGive, Zenon
    <2> QED
      BY <2>1, Zenon DEF Gives
  <1>8. PICK s2 \in Stream : /\ Repeat(2, Extracts, s1) = Value(Version, s2)
                             /\ Ahead(s2) = Cat(c, Cat(o, nil))
    <2>1. Gives(Repeat(2, Extracts, s1), Version, Cat(c, Cat(o, nil)))
      BY <1>1, <1>5, <1>7, ExtractsGive, Zenon
    <2> QED
      BY <2>1, Zenon DEF Gives
  <1>9. PICK s3 \in Stream : /\ ReadString(s2) = Value(cmd, s3)
                             /\ Ahead(s3) = Cat(o, nil)
    <2>1. m.cmd \in Seq(Byte) /\ Len(m.cmd) \in Byte
      BY MessageParts, Zenon DEF IsMessage
    <2>2. Gives(ReadString(s2), cmd, Cat(o, nil))
      BY <1>5, <1>8, <2>1, TextGives, Zenon
    <2> QED
      BY <2>2, Zenon DEF Gives
  <1>10. ASSUME NEW k \in DOMAIN m.args, NEW r \in Stream, NEW x \in Seq(Byte),
                Ahead(r) = Bodies(m)[k] \o x
         PROVE  Gives(value[TypeCode[m.args[k].type]][r], args[k], x)
    <2>1. IsBody(m.args[k]) /\ Sendable(m.args[k])
      BY Zenon DEF IsMessage, Encodable
    <2>2. Ahead(r) = Body(m.args[k]) \o x
      BY <1>10, Zenon DEF Bodies
    <2>3. n \in 3..n
      BY <1>1
    <2> HIDE DEF n
    <2>4. Gives(ReadValues(n)[n][TypeCode[m.args[k].type]][r],
                CutBody(m.args[k]), x)
      BY <1>1, <2>1, <2>2, <2>3, BodyGives, Zenon
    <2> QED
      BY <2>4, Zenon DEF ReadValue
  <1>11. PICK s4 \in Stream : ReadObject(value, s3) = Value(args, s4)
    <2>1. /\ DOMAIN m.args \subseteq NameTexts
          /\ \A k \in DOMAIN m.args : /\ m.args[k].type \in DOMAIN TypeCode
                                      /\ Bodies(m)[k] \in Seq(Byte)
      BY MessageParts, Zenon DEF IsMessage
    <2>2. [k \in DOMAIN m.args |-> args[k]] = args
      BY Zenon
    <2> HIDE DEF args, value
    <2>3. Gives(ReadObject(value, s3), [k \in DOMAIN m.args |-> args[k]], nil)
      BY <1>1, <1>9, <1>10, <2>1, ObjectGives, Zenon
    <2> QED
      BY <2>2, <2>3, Zenon DEF Gives
  <1> DEFINE msg == [cmd |-> cmd, args |-> args]
             AfterCmd(x, r) == Then(ReadObject(value, r), LAMBDA y, t :
                                 Value([cmd |-> x, args |-> y], t))
             AfterVersion(v, r) ==
               IF \/ v[1] > Version[1]
                  \/ v[1] = Version[1] /\ v[2] > Version[2]
               THEN Failed ELSE Then(ReadString(r), LAMBDA x, t : AfterCmd(x, t))
             AfterMagic(x, r) ==
               IF x # Magic THEN Failed
               ELSE Then(Repeat(2, Extracts, r), LAMBDA v, t : AfterVersion(v, t))
  <1>12. Decode(data)
           = Then(Repeat(2, Extracts, s0), LAMBDA x, r : AfterMagic(x, r))
    BY Zenon DEF Decode, s0
  <1> HIDE DEF value, cmd, args
  <1>13. AfterCmd(cmd, s3) = Value(msg, s4)
    BY <1>11 DEF Then, Value
  <1> HIDE DEF AfterCmd
  <1>14. AfterVersion(Version, s2) = AfterCmd(cmd, s3)
    <2>1. ~(Version[1] > Version[1]) /\ ~(Version[2] > Version[2])
      BY DEF Version
    <2>2. AfterVersion(Version, s2)
            = Then(ReadString(s2), LAMBDA x, t : AfterCmd(x, t))
      BY <2>1, Zenon
    <2> HIDE DEF AfterVersion
    <2> QED
      BY <1>9, <2>2 DEF Then, Value
  <1> HIDE DEF AfterVersion
  <1>15. AfterMagic(Magic, s1) = AfterVersion(Version, s2)
    BY <1>8 DEF Then, Value
  <1> HIDE DEF AfterMagic
  <1>16. Decode(data) = AfterMagic(Magic, s1)
    BY <1>7, <1>12 DEF Then, Value
  <1>17. msg = CutMessage(m)
    BY Zenon DEF CutMessage, cmd, args
  <1> QED
    BY <1>13, <1>14, <1>15, <1>16, <1>17, Zenon

=============================================================================
