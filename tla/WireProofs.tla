----------------------------- MODULE WireProofs -----------------------------
(***************************************************************************)
(* Proofs about Wire: that the two conversions of the length are inverse    *)
(* to each other, that the codec implements a channel of frames, and that   *)
(* its steps run out.                                                       *)
(***************************************************************************)
EXTENDS Wire, TLAPS, SequenceTheorems, WellFoundedInduction

-----------------------------------------------------------------------------
(* Induction.  The induction rules of the library are about operators; here *)
(* it is about sets, from the fact that < is well-founded.                  *)

\* A set of naturals that is not empty has a least member.
LEMMA LeastNatural ==
    ASSUME NEW T \in SUBSET Nat, T # {}
    PROVE  \E m \in T : \A k \in T : m <= k
<1> DEFINE R == OpToRel(<, Nat)
<1>1. \E m \in T : \A k \in T : <<k, m>> \notin R
  <2>1. IsWellFoundedOn(R, Nat)
    BY NatLessThanWellFounded
  <2> HIDE DEF R
  <2> QED BY <2>1, WFMin
<1>2. \A k, m \in Nat : k < m => <<k, m>> \in R
  BY DEF OpToRel
<1> HIDE DEF R
<1>3. PICK m \in T : \A k \in T : <<k, m>> \notin R
  BY <1>1
<1>4. ASSUME NEW k \in T PROVE m <= k
  <2>1. k \in Nat /\ m \in Nat
    OBVIOUS
  <2>2. ~(k < m)
    BY <2>1, <1>2, <1>3
  <2> QED BY <2>1, <2>2
<1> QED BY <1>4

\* A set that has 0, and with every number below n the next, has 0..n.
LEMMA UpTo ==
    ASSUME NEW n \in Nat, NEW G, 0 \in G, \A i \in 1..n : i - 1 \in G => i \in G
    PROVE  0..n \subseteq G
<1> DEFINE T == {i \in 0..n : i \notin G}
<1>1. T \in SUBSET Nat
  OBVIOUS
<1>2. T = {}
  <2> SUFFICES ASSUME T # {} PROVE FALSE
    OBVIOUS
  <2>1. PICK m \in T : \A k \in T : m <= k
    <3> HIDE DEF T
    <3> QED BY <1>1, LeastNatural
  <2>2. m \in 1..n
    OBVIOUS
  <2>3. m - 1 \in 0..n /\ ~(m <= m - 1)
    BY <2>2
  <2>4. m - 1 \in G
    BY <2>1, <2>3
  <2> QED BY <2>2, <2>4
<1> QED BY <1>2

\* v is the function on 0..n with this first value and these steps.
Recursion(S, first, g, n, v) ==
    /\ v \in [0..n -> S] /\ v[0] = first
    /\ \A i \in 1..n : v[i] = g[i][v[i - 1]]

\* A recursive definition on 0..n defines a function.
LEMMA RecursionExists ==
    ASSUME NEW S, NEW first \in S, NEW g \in [Nat -> [S -> S]], NEW n \in Nat
    PROVE  \E v : Recursion(S, first, g, n, v)
<1> DEFINE G == {m \in Nat : \E v \in [0..m -> S] :
                   v[0] = first /\ \A i \in 1..m : v[i] = g[i][v[i - 1]]}
<1>1. 0 \in G
  <2> DEFINE v == [i \in 0..0 |-> first]
  <2>1. v \in [0..0 -> S] /\ v[0] = first /\ 1..0 = {}
    OBVIOUS
  <2> QED BY <2>1
<1>2. ASSUME NEW m \in Nat, m \in G PROVE m + 1 \in G
  <2>1. PICK v \in [0..m -> S] : v[0] = first /\ \A i \in 1..m : v[i] = g[i][v[i - 1]]
    BY <1>2
  <2> DEFINE w == [i \in 0..(m + 1) |-> IF i = m + 1 THEN g[i][v[m]] ELSE v[i]]
  <2>2. v[m] \in S /\ \A i \in 0..m : v[i] \in S
    OBVIOUS
  <2>3. w \in [0..(m + 1) -> S]
    <3>1. ASSUME NEW i \in 0..(m + 1) PROVE (IF i = m + 1 THEN g[i][v[m]] ELSE v[i]) \in S
      BY <2>2
    <3> QED BY <3>1
  <2>4. w[0] = first
    BY <2>1
  <2>5. ASSUME NEW i \in 1..(m + 1) PROVE w[i] = g[i][w[i - 1]]
    <3>1. w[i - 1] = v[i - 1]
      OBVIOUS
    <3>2. CASE i = m + 1
      BY <3>1, <3>2
    <3>3. CASE i \in 1..m
      BY <3>1, <3>3, <2>1
    <3> QED BY <3>2, <3>3
  <2> HIDE DEF w
  <2> QED BY <2>3, <2>4, <2>5
<1>3. \A i \in 1..n : i - 1 \in G => i \in G
  <2> TAKE i \in 1..n
  <2>1. i - 1 \in Nat /\ (i - 1) + 1 = i
    OBVIOUS
  <2> HIDE DEF G
  <2> QED BY <2>1, <1>2
<1>4. n \in G
  <2> HIDE DEF G
  <2>1. 0..n \subseteq G
    BY <1>1, <1>3, UpTo
  <2> QED BY <2>1
<1> QED BY <1>4 DEF Recursion

-----------------------------------------------------------------------------
(* The length: to_be_bytes and from_be_bytes.                              *)

\* Quotient and remainder by the number of values of a byte.
LEMMA Division ==
    ASSUME NEW n \in Nat
    PROVE  /\ n \div Base \in Nat
           /\ n % Base \in 0..(Base - 1)
           /\ n = ((n \div Base) * Base) + (n % Base)
BY WireAssumption

\* A larger number has no smaller quotient.
LEMMA DivisionMonotone ==
    ASSUME NEW m \in Nat, NEW n \in Nat, m <= n
    PROVE  m \div Base <= n \div Base
BY WireAssumption

\* shifted(n) is the function its recursive definition says.
LEMMA Shifts ==
    ASSUME NEW n \in Nat
    PROVE  /\ shifted(n) \in [0..HeaderLen -> Nat]
           /\ shifted(n)[0] = n
           /\ \A k \in 1..HeaderLen : shifted(n)[k] = shifted(n)[k - 1] \div Base
<1> DEFINE Eqn(s) == s = [k \in 0..HeaderLen |-> IF k = 0 THEN n ELSE s[k - 1] \div Base]
           g == [i \in Nat |-> [x \in Nat |-> x \div Base]]
<1>1. g \in [Nat -> [Nat -> Nat]]
  BY Division
<1>2. \A k, x \in Nat : g[k][x] = x \div Base
  OBVIOUS
<1>3. HeaderLen \in Nat
  BY WireAssumption
<1> HIDE DEF g
<1>4. PICK v \in [0..HeaderLen -> Nat] :
        v[0] = n /\ \A i \in 1..HeaderLen : v[i] = g[i][v[i - 1]]
  <2>1. \E v : Recursion(Nat, n, g, HeaderLen, v)
    BY ONLY <1>1, <1>3, n \in Nat, RecursionExists, Zenon
  <2> QED BY <2>1 DEF Recursion
<1>5. Eqn(v)
  <2>1. ASSUME NEW k \in 0..HeaderLen
        PROVE  v[k] = IF k = 0 THEN n ELSE v[k - 1] \div Base
    <3>1. CASE k = 0
      BY <3>1, <1>4
    <3>2. CASE k # 0
      <4>1. k \in 1..HeaderLen /\ k \in Nat /\ v[k - 1] \in Nat
        BY <3>2, <1>3
      <4> QED BY <4>1, <3>2, <1>4, <1>2
    <3> QED BY <3>1, <3>2
  <2> QED BY <2>1
<1>6. shifted(n) = CHOOSE s : Eqn(s)
  BY DEF shifted
<1>7. Eqn(shifted(n))
  <2> HIDE DEF Eqn
  <2> QED BY <1>5, <1>6
<1>8. shifted(n) = v
  <2> DEFINE u == shifted(n)
             G == {k \in 0..HeaderLen : u[k] = v[k]}
  <2>1. Eqn(u)
    BY <1>7
  <2> HIDE DEF u
  <2>2. 0 \in G
    BY <2>1, <1>4, <1>3
  <2>3. \A k \in 1..HeaderLen : k - 1 \in G => k \in G
    BY <2>1, <1>5
  <2>4. 0..HeaderLen \subseteq G
    <3> HIDE DEF G
    <3> QED BY <2>2, <2>3, <1>3, UpTo
  <2> QED BY <2>1, <2>4, <1>5 DEF u
<1>9. \A k \in 1..HeaderLen : v[k] = v[k - 1] \div Base
  <2> TAKE k \in 1..HeaderLen
  <2>1. k \in Nat /\ v[k - 1] \in Nat
    BY <1>3
  <2> QED BY <2>1, <1>4, <1>2
<1> QED BY <1>4, <1>8, <1>9

\* to_be_bytes makes a string of HeaderLen bytes.
LEMMA Bytes ==
    ASSUME NEW n \in Nat
    PROVE  to_be_bytes(n) \in Seq(0..(Base - 1)) /\ Len(to_be_bytes(n)) = HeaderLen
<1>1. ASSUME NEW i \in 1..HeaderLen
      PROVE  shifted(n)[HeaderLen - i] % Base \in 0..(Base - 1)
  <2>1. HeaderLen - i \in 0..HeaderLen
    BY WireAssumption
  <2> QED BY <2>1, Shifts, Division
<1>2. to_be_bytes(n) \in [1..HeaderLen -> 0..(Base - 1)]
  BY <1>1 DEF to_be_bytes
<1> QED BY <1>2, WireAssumption

\* A length up to the limit has no more bytes than the header.
LEMMA NothingShiftedOut ==
    ASSUME NEW n \in Nat, n <= MaxFrame
    PROVE  shifted(n)[HeaderLen] = 0
<1> DEFINE s == shifted(n)
           t == shifted(MaxFrame)
           G == {k \in 0..HeaderLen : s[k] <= t[k]}
<1>1. /\ s \in [0..HeaderLen -> Nat] /\ s[0] = n
      /\ \A k \in 1..HeaderLen : s[k] = s[k - 1] \div Base
  BY Shifts
<1>2. /\ t \in [0..HeaderLen -> Nat] /\ t[0] = MaxFrame /\ t[HeaderLen] = 0
      /\ \A k \in 1..HeaderLen : t[k] = t[k - 1] \div Base
  BY Shifts, WireAssumption
<1>3. HeaderLen \in Nat
  BY WireAssumption
<1> HIDE DEF s, t
<1>4. 0 \in G
  BY <1>1, <1>2, <1>3
<1>5. ASSUME NEW k \in 1..HeaderLen, k - 1 \in G PROVE k \in G
  <2>1. k - 1 \in 0..HeaderLen /\ s[k - 1] <= t[k - 1]
    BY <1>5
  <2>2. s[k] <= t[k]
    BY <2>1, <1>1, <1>2, DivisionMonotone
  <2> QED BY <2>2
<1>6. 0..HeaderLen \subseteq G
  <2> HIDE DEF G
  <2> QED BY <1>3, <1>4, <1>5, UpTo
<1>7. s[HeaderLen] <= 0 /\ s[HeaderLen] \in Nat
  BY <1>1, <1>2, <1>3, <1>6
<1> QED BY <1>7 DEF s

\* from_be_bytes gives back the length that to_be_bytes wrote, up to the limit.
THEOREM LengthsSurvive ==
    ASSUME NEW n \in 0..MaxFrame
    PROVE  from_be_bytes(to_be_bytes(n)) = n
<1> DEFINE b == to_be_bytes(n)
           s == shifted(n)
           Eqn(u) == u = [i \in 0..HeaderLen |->
                            IF i = 0 THEN 0 ELSE u[i - 1] * Base + b[i]]
           v == [i \in 0..HeaderLen |-> s[HeaderLen - i]]
<1>n. n \in Nat /\ n <= MaxFrame /\ HeaderLen \in Nat /\ HeaderLen # 0
  BY WireAssumption
<1>1. /\ s \in [0..HeaderLen -> Nat] /\ s[0] = n
      /\ \A k \in 1..HeaderLen : s[k] = s[k - 1] \div Base
  BY <1>n, Shifts
<1>2. s[HeaderLen] = 0
  BY <1>n, NothingShiftedOut
<1>3. \A i \in 1..HeaderLen : b[i] = s[HeaderLen - i] % Base
  BY DEF to_be_bytes
<1>4. from_be_bytes(b) = (CHOOSE u : Eqn(u))[HeaderLen]
  BY DEF from_be_bytes
<1> HIDE DEF b, s
<1>5. ASSUME NEW i \in 1..HeaderLen PROVE v[i] = v[i - 1] * Base + b[i]
  <2>1. /\ HeaderLen - i \in 0..HeaderLen /\ i \in 0..HeaderLen /\ i - 1 \in 0..HeaderLen
        /\ HeaderLen - (i - 1) \in 1..HeaderLen
        /\ (HeaderLen - (i - 1)) - 1 = HeaderLen - i
    BY <1>n
  <2>2. s[HeaderLen - (i - 1)] = s[HeaderLen - i] \div Base
    BY <2>1, <1>1
  <2>3. v[i] = s[HeaderLen - i] /\ v[i - 1] = s[HeaderLen - (i - 1)]
    BY <2>1
  <2>4. s[HeaderLen - i] \in Nat
    BY <2>1, <1>1
  <2> HIDE DEF v
  <2> QED BY <2>2, <2>3, <2>4, <1>3, Division
<1>6. v[0] = 0
  BY <1>2, <1>n
<1>7. Eqn(v)
  <2>1. ASSUME NEW i \in 0..HeaderLen
        PROVE  v[i] = IF i = 0 THEN 0 ELSE v[i - 1] * Base + b[i]
    <3>1. i = 0 \/ i \in 1..HeaderLen
      BY <1>n
    <3> HIDE DEF v
    <3> QED BY <3>1, <1>5, <1>6
  <2>2. v = [i \in 0..HeaderLen |-> v[i]]
    OBVIOUS
  <2> HIDE DEF v
  <2> QED BY <2>1, <2>2
<1> DEFINE u == CHOOSE w : Eqn(w)
<1>8. Eqn(u)
  <2> HIDE DEF Eqn, v
  <2> QED BY <1>7
<1> HIDE DEF u
<1>9. u[HeaderLen] = v[HeaderLen]
  <2> DEFINE G == {i \in 0..HeaderLen : u[i] = v[i]}
  <2> HIDE DEF v
  <2>1. 0 \in G
    BY <1>6, <1>8, <1>n
  <2>2. \A i \in 1..HeaderLen : i - 1 \in G => i \in G
    BY <1>7, <1>8
  <2> HIDE DEF G
  <2>3. 0..HeaderLen \subseteq G
    BY <2>1, <2>2, <1>n, UpTo
  <2> QED BY <2>3, <1>n DEF G
<1>10. v[HeaderLen] = n
  BY <1>1, <1>n
<1> QED BY <1>4, <1>9, <1>10 DEF u, b

-----------------------------------------------------------------------------
(* Byte strings.                                                           *)

Byte == 0..(Base - 1)

\* What starts a byte string is determined by its length, and so is the rest.
LEMMA Cancel ==
    ASSUME NEW a \in Seq(Byte), NEW b \in Seq(Byte), NEW x \in Seq(Byte), NEW y \in Seq(Byte),
           Len(a) = Len(b), a \o x = b \o y
    PROVE  a = b /\ x = y
<1>1. Len(a) \in Nat /\ Len(b) \in Nat /\ Len(x) \in Nat /\ Len(y) \in Nat
  OBVIOUS
<1>2. Len(x) = Len(y)
  <2>1. Len(a \o x) = Len(a) + Len(x) /\ Len(b \o y) = Len(b) + Len(y)
    BY ConcatProperties
  <2> QED BY <2>1, <1>1
<1>3. \A i \in 1..Len(a) : a[i] = b[i]
  <2> TAKE i \in 1..Len(a)
  <2>1. (a \o x)[i] = a[i] /\ (b \o y)[i] = b[i]
    OBVIOUS
  <2> QED BY <2>1
<1>4. \A i \in 1..Len(x) : x[i] = y[i]
  <2> TAKE i \in 1..Len(x)
  <2>1. (a \o x)[Len(a) + i] = x[i] /\ (b \o y)[Len(b) + i] = y[i]
    BY <1>2
  <2> QED BY <2>1
<1>5. a = b
  BY <1>3, SeqEqual
<1>6. x = y
  BY <1>2, <1>4, SeqEqual
<1> QED BY <1>5, <1>6

\* Moving a byte from the front of one string to the back of the one before it
\* changes nothing of the two together.
LEMMA MoveByte ==
    ASSUME NEW S, NEW a \in Seq(S), NEW b \in Seq(S), b # <<>>
    PROVE  /\ Append(a, Head(b)) \in Seq(S) /\ Tail(b) \in Seq(S)
           /\ Len(Append(a, Head(b))) = Len(a) + 1 /\ Len(Tail(b)) = Len(b) - 1
           /\ Append(a, Head(b)) \o Tail(b) = a \o b
<1>1. Head(b) \in S /\ Tail(b) \in Seq(S) /\ Len(Tail(b)) = Len(b) - 1
  BY HeadTailProperties
<1>2. \A i \in 1..Len(Tail(b)) : Tail(b)[i] = b[i + 1]
  BY HeadTailProperties
<1> DEFINE c == Append(a, Head(b))
           t == Tail(b)
<1>3. c \in Seq(S) /\ Len(c) = Len(a) + 1 /\ c[Len(a) + 1] = b[1]
      /\ \A i \in 1..Len(a) : c[i] = a[i]
  BY <1>1
<1>4. Len(b) \in Nat /\ Len(a) \in Nat /\ Len(t) \in Nat /\ Len(b) # 0
  BY <1>1, EmptySeq
<1>t. t \in Seq(S) /\ Len(t) = Len(b) - 1 /\ \A i \in 1..Len(t) : t[i] = b[i + 1]
  BY <1>1, <1>2
<1> HIDE DEF c, t
<1>5. c \o t \in Seq(S) /\ a \o b \in Seq(S) /\ Len(c \o t) = Len(a \o b)
      /\ Len(a \o b) = Len(a) + Len(b)
  <2>1. c \o t \in Seq(S) /\ Len(c \o t) = Len(c) + Len(t)
    BY <1>3, <1>t, ConcatProperties
  <2>2. a \o b \in Seq(S) /\ Len(a \o b) = Len(a) + Len(b)
    BY ConcatProperties
  <2> QED BY <2>1, <2>2, <1>3, <1>4, <1>t
<1>6. ASSUME NEW i \in 1..(Len(a) + Len(b)) PROVE (c \o t)[i] = (a \o b)[i]
  <2>1. (a \o b)[i] = IF i <= Len(a) THEN a[i] ELSE b[i - Len(a)]
    BY ConcatProperties
  <2>2. (c \o t)[i] = IF i <= Len(c) THEN c[i] ELSE t[i - Len(c)]
    <3>1. i \in 1..(Len(c) + Len(t)) /\ t \in Seq(S)
      BY <1>3, <1>4, <1>t
    <3> QED BY <3>1, <1>3, ConcatProperties
  <2>3. CASE i <= Len(a)
    BY <2>1, <2>2, <2>3, <1>3, <1>4
  <2>4. CASE i = Len(a) + 1
    <3>1. ~(i <= Len(a)) /\ i - Len(a) = 1 /\ i <= Len(c)
      BY <2>4, <1>3, <1>4
    <3> QED BY <3>1, <2>1, <2>2, <2>4, <1>3
  <2>5. CASE i > Len(a) + 1
    <3>1. ~(i <= Len(c)) /\ ~(i <= Len(a)) /\ i - Len(c) \in 1..Len(t)
          /\ (i - Len(c)) + 1 = i - Len(a)
      BY <2>5, <1>3, <1>4, <1>t
    <3>2. t[i - Len(c)] = b[(i - Len(c)) + 1]
      BY <3>1, <1>t
    <3> QED BY <3>1, <3>2, <2>1, <2>2
  <2>6. i <= Len(a) \/ i = Len(a) + 1 \/ i > Len(a) + 1
    BY <1>4
  <2> QED BY <2>3, <2>4, <2>5, <2>6
<1>7. c \o t = a \o b
  BY <1>5, <1>6, SeqEqual
<1> QED BY <1>1, <1>3, <1>7 DEF c, t

\* Concatenation of byte strings is associative.
LEMMA Assoc == \A a, b, c \in Seq(Byte) : (a \o b) \o c = a \o (b \o c)
BY ConcatAssociative

-----------------------------------------------------------------------------
(* The inductive invariant.                                                *)

\* The bytes of a frame on the stream, and the bytes that are on their way.
Encoded(f) == to_be_bytes(Len(f)) \o f

InFlight == buf \o (pipe \o out)

Types ==
    /\ queue \in Seq(Frames) /\ accepted \in Seq(Frames) /\ received \in Seq(Frames)
    /\ writer \in BOOLEAN /\ closed \in BOOLEAN
    /\ out \in Seq(Byte) /\ pipe \in Seq(Byte) /\ buf \in Seq(Byte)
    /\ stage \in {"length", "payload"} /\ want \in Nat
    /\ outcome \in {"none", "Eof", "Io", "FrameTooLarge", "Codec"}

\* The writer has let through what fits, and writes only what it let through.
WriterInv ==
    /\ \A i \in 1..Len(accepted) : Len(accepted[i]) <= MaxFrame
    /\ out # <<>> => accepted # <<>>

\* The reader has returned a prefix of the frames, and asks for the length or for
\* the bytes of the next one.
ReaderInv ==
    /\ Len(received) <= Len(accepted)
    /\ \A i \in 1..Len(received) : received[i] = accepted[i]
    /\ Len(buf) <= want
    /\ stage = "length" => want = HeaderLen
    /\ stage = "payload" => /\ Len(received) < Len(accepted)
                            /\ want = Len(accepted[Len(received) + 1])

\* rest[i] is the stream behind the first i frames; what write_all has yet to
\* write belongs to the last frame.
IsStream(rest) ==
    /\ rest \in [0..Len(accepted) -> Seq(Byte)]
    /\ rest[Len(accepted)] = <<>>
    /\ \A i \in 1..Len(accepted) : rest[i - 1] = Encoded(accepted[i]) \o rest[i]
    /\ \A i \in 0..(Len(accepted) - 1) : Len(out) <= Len(rest[i])

\* The bytes on their way are the stream behind what the reader has taken.
ReaderAt(rest) ==
    /\ stage = "length" => InFlight = rest[Len(received)]
    /\ stage = "payload" =>
         InFlight = accepted[Len(received) + 1] \o rest[Len(received) + 1]

StreamInv == outcome = "none" => \E rest : IsStream(rest) /\ ReaderAt(rest)

WireInv == Types /\ WriterInv /\ ReaderInv /\ StreamInv /\ NoRefusal

\* A frame is a string of at least one byte; its encoding has the length before it.
LEMMA FrameBytes ==
    ASSUME NEW f \in Frames
    PROVE  /\ f \in Seq(Byte) /\ Len(f) \in Nat /\ Len(f) # 0
           /\ to_be_bytes(Len(f)) \in Seq(Byte) /\ Len(to_be_bytes(Len(f))) = HeaderLen
           /\ Encoded(f) \in Seq(Byte) /\ Len(Encoded(f)) = HeaderLen + Len(f)
<1>1. f \in Seq(Byte) /\ f # <<>>
  BY WireAssumption DEF Byte
<1>2. Len(f) \in Nat /\ Len(f) # 0
  BY <1>1, EmptySeq
<1>3. to_be_bytes(Len(f)) \in Seq(Byte) /\ Len(to_be_bytes(Len(f))) = HeaderLen
  BY <1>2, Bytes DEF Byte
<1>4. Encoded(f) \in Seq(Byte) /\ Len(Encoded(f)) = HeaderLen + Len(f)
  BY <1>1, <1>3, ConcatProperties DEF Encoded
<1> QED BY <1>1, <1>2, <1>3, <1>4

\* Moving bytes towards the reader leaves the stream as it is.
LEMMA StreamKept ==
    ASSUME StreamInv, Types, accepted' = accepted, received' = received, stage' = stage,
           outcome' = outcome, InFlight' = InFlight, out' \in Seq(Byte), Len(out') <= Len(out)
    PROVE  StreamInv'
<1> SUFFICES ASSUME outcome = "none" PROVE \E rest : IsStream(rest)' /\ ReaderAt(rest)'
  BY DEF StreamInv
<1>1. PICK rest : IsStream(rest) /\ ReaderAt(rest)
  BY DEF StreamInv
<1>2. IsStream(rest)'
  <2>1. \A i \in 0..(Len(accepted) - 1) : Len(out') <= Len(rest[i])
    <3> TAKE i \in 0..(Len(accepted) - 1)
    <3>1. Len(accepted) \in Nat /\ Len(out) \in Nat /\ Len(out') \in Nat
      BY DEF Types
    <3>2. rest[i] \in Seq(Byte) /\ Len(out) <= Len(rest[i])
      BY <1>1, <3>1 DEF IsStream
    <3>3. Len(rest[i]) \in Nat
      BY <3>2
    <3> QED BY <3>1, <3>2, <3>3
  <2> QED BY <2>1, <1>1 DEF IsStream
<1>3. ReaderAt(rest)'
  BY <1>1 DEF ReaderAt
<1> QED BY <1>2, <1>3

\* A new connection.
LEMMA InitInv == Init => WireInv
<1> SUFFICES ASSUME Init PROVE WireInv
  OBVIOUS
<1>1. Types
  <2>1. writer \in BOOLEAN /\ closed \in BOOLEAN
    BY Zenon DEF Init
  <2>2. want \in Nat
    BY WireAssumption DEF Init
  <2> QED BY <2>1, <2>2 DEF Init, Types
<1>2. WriterInv /\ ReaderInv /\ NoRefusal
  BY WireAssumption DEF Init, WriterInv, ReaderInv, NoRefusal
<1>3. StreamInv
  <2> DEFINE rest == [i \in 0..0 |-> <<>>]
  <2>1. IsStream(rest)
    BY DEF Init, IsStream
  <2>2. ReaderAt(rest)
    BY DEF Init, ReaderAt, InFlight
  <2> QED BY <2>1, <2>2 DEF StreamInv
<1> QED BY <1>1, <1>2, <1>3 DEF WireInv

\* A queued frame is not on the stream yet.
LEMMA QueueInv == ASSUME WireInv, NEW f \in Frames, Queue(f) PROVE WireInv'
<1>1. Types'
  BY DEF WireInv, Types, Queue, readVars
<1>2. StreamInv'
  <2>1. Len(out) <= Len(out)
    BY DEF WireInv, Types
  <2> QED BY <2>1, StreamKept DEF WireInv, Types, Queue, readVars, InFlight
<1>3. WriterInv' /\ ReaderInv' /\ NoRefusal'
  BY DEF WireInv, WriterInv, ReaderInv, NoRefusal, Queue, readVars
<1> QED BY <1>1, <1>2, <1>3 DEF WireInv

\* write_all moves a byte from out to the pipe.
LEMMA WriteByteInv == ASSUME WireInv, WriteByte PROVE WireInv'
<1>1. /\ Append(pipe, Head(out)) \in Seq(Byte) /\ Tail(out) \in Seq(Byte)
      /\ Len(Tail(out)) = Len(out) - 1 /\ Append(pipe, Head(out)) \o Tail(out) = pipe \o out
  BY MoveByte DEF WireInv, Types, WriteByte
<1>2. Types'
  BY <1>1 DEF WireInv, Types, WriteByte, readVars
<1>3. StreamInv'
  <2>1. Len(out') <= Len(out)
    <3>1. Len(out) \in Nat
      BY DEF WireInv, Types
    <3> QED BY <3>1, <1>1 DEF WriteByte
  <2>2. InFlight' = InFlight
    BY <1>1 DEF WriteByte, InFlight, readVars
  <2> QED BY <2>1, <2>2, <1>1, StreamKept DEF WireInv, WriteByte, readVars
<1>4. WriterInv' /\ ReaderInv' /\ NoRefusal'
  BY DEF WireInv, WriterInv, ReaderInv, NoRefusal, WriteByte, readVars
<1> QED BY <1>2, <1>3, <1>4 DEF WireInv

\* The end of the writer leaves what is in transit.
LEMMA WriterEndsInv == ASSUME WireInv, WriteFails \/ Close PROVE WireInv'
<1>1. Types'
  <2>1. writer' \in BOOLEAN /\ closed' \in BOOLEAN
    BY Zenon DEF WireInv, Types, WriteFails, Close
  <2>2. queue' = <<>> /\ <<>> \in Seq(Frames)
    BY DEF WriteFails, Close
  <2> QED BY <2>1, <2>2 DEF WireInv, Types, WriteFails, Close, readVars
<1>2. StreamInv'
  <2>1. Len(out) <= Len(out)
    BY DEF WireInv, Types
  <2> QED BY <2>1, StreamKept DEF WireInv, Types, WriteFails, Close, readVars, InFlight
<1>3. WriterInv' /\ ReaderInv' /\ NoRefusal'
  BY DEF WireInv, WriterInv, ReaderInv, NoRefusal, WriteFails, Close, readVars
<1> QED BY <1>1, <1>2, <1>3 DEF WireInv

\* read_exact moves a byte from the pipe to its buffer.
LEMMA ReadByteInv == ASSUME WireInv, ReadByte PROVE WireInv'
<1>1. /\ Append(buf, Head(pipe)) \in Seq(Byte) /\ Tail(pipe) \in Seq(Byte)
      /\ Len(Append(buf, Head(pipe))) = Len(buf) + 1
      /\ Append(buf, Head(pipe)) \o Tail(pipe) = buf \o pipe
  BY MoveByte DEF WireInv, Types, ReadByte
<1>2. Types'
  BY <1>1 DEF WireInv, Types, ReadByte, writeVars
<1>3. InFlight' = InFlight
  <2>t. buf \in Seq(Byte) /\ pipe \in Seq(Byte) /\ out \in Seq(Byte)
    BY DEF WireInv, Types
  <2>1. buf \o (pipe \o out) = (buf \o pipe) \o out
    BY <2>t, Assoc
  <2>2. Append(buf, Head(pipe)) \o (Tail(pipe) \o out)
          = (Append(buf, Head(pipe)) \o Tail(pipe)) \o out
    BY <2>t, <1>1, Assoc
  <2>3. InFlight' = Append(buf, Head(pipe)) \o (Tail(pipe) \o out)
    BY DEF InFlight, ReadByte, writeVars
  <2> QED BY <2>1, <2>2, <2>3, <1>1 DEF InFlight
<1>4. StreamInv'
  <2>1. Len(out) <= Len(out)
    BY DEF WireInv, Types
  <2> QED BY <2>1, <1>3, StreamKept DEF WireInv, Types, ReadByte, writeVars
<1>5. Len(buf') <= want'
  <2>1. Len(buf) \in Nat /\ want \in Nat
    BY DEF WireInv, Types
  <2> QED BY <2>1, <1>1 DEF ReadByte
<1>6. WriterInv' /\ ReaderInv' /\ NoRefusal'
  BY <1>5 DEF WireInv, WriterInv, ReaderInv, NoRefusal, ReadByte, writeVars
<1> QED BY <1>2, <1>4, <1>6 DEF WireInv

\* The two outcomes of write_frame for the frame at the head of the queue.
Refused == writer' = FALSE /\ queue' = <<>> /\ UNCHANGED <<accepted, out>>

Accepted ==
    /\ FitsFrame(Head(queue))
    /\ accepted' = Append(accepted, Head(queue)) /\ out' = Encoded(Head(queue))
    /\ queue' = Tail(queue) /\ UNCHANGED writer

LEMMA WriteFrameOutcomes == WriteFrame => Refused \/ Accepted
BY DEF WriteFrame, Refused, Accepted, Encoded

\* write_frame puts the encoding of a frame at the end of the stream.
LEMMA WriteFrameInv == ASSUME WireInv, WriteFrame PROVE WireInv'
<1> DEFINE f == Head(queue)
           n == Len(accepted)
<1>t. /\ queue \in Seq(Frames) /\ queue # <<>> /\ accepted \in Seq(Frames) /\ n \in Nat
      /\ f \in Frames /\ Tail(queue) \in Seq(Frames)
      /\ received \in Seq(Frames) /\ Len(received) \in Nat
  BY HeadTailProperties DEF WireInv, Types, WriteFrame
<1>f. /\ Encoded(f) \in Seq(Byte) /\ Len(Encoded(f)) \in Nat /\ Encoded(f) # <<>>
      /\ Len(f) \in Nat
  BY <1>t, FrameBytes, WireAssumption
<1>1. CASE Refused
  <2>1. /\ writer' = FALSE /\ queue' = <<>>
        /\ UNCHANGED <<accepted, out, pipe, closed, readVars>>
    BY <1>1 DEF WriteFrame, Refused
  <2>2. Types'
    <3>1. writer' \in BOOLEAN
      BY <2>1, Zenon
    <3>2. queue' \in Seq(Frames)
      BY <2>1
    <3> QED BY <3>1, <3>2, <2>1 DEF WireInv, Types, readVars
  <2>3. StreamInv'
    <3>1. Len(out) <= Len(out)
      BY DEF WireInv, Types
    <3> QED BY <3>1, <2>1, StreamKept DEF WireInv, Types, readVars, InFlight
  <2>4. WriterInv' /\ ReaderInv' /\ NoRefusal'
    BY <2>1 DEF WireInv, WriterInv, ReaderInv, NoRefusal, readVars
  <2> QED BY <2>2, <2>3, <2>4 DEF WireInv
<1>2. CASE Accepted
  <2>1. /\ accepted' = Append(accepted, f) /\ out' = Encoded(f) /\ queue' = Tail(queue)
        /\ out = <<>>
        /\ UNCHANGED <<writer, pipe, closed, readVars>>
    BY <1>2 DEF WriteFrame, Accepted
  <2>f. FitsFrame(f)
    BY <1>2 DEF Accepted
  <2> HIDE DEF f
  <2>2. /\ accepted' \in Seq(Frames) /\ Len(accepted') = n + 1 /\ accepted'[n + 1] = f
        /\ \A i \in 1..n : accepted'[i] = accepted[i]
    BY <2>1, <1>t
  <2> HIDE DEF n
  <2>3. Types'
    BY <2>1, <2>2, <1>t, <1>f DEF WireInv, Types, readVars
  <2>4. WriterInv'
    <3>1. ASSUME NEW i \in 1..(n + 1) PROVE Len(accepted'[i]) <= MaxFrame
      <4>1. CASE i \in 1..n
        BY <4>1, <2>2 DEF WireInv, WriterInv, n
      <4>2. CASE i = n + 1
        BY <4>2, <2>2, <2>f DEF FitsFrame
      <4> QED BY <4>1, <4>2, <1>t
    <3>2. accepted' # <<>>
      BY <2>2, <1>t
    <3> QED BY <3>1, <3>2, <2>2 DEF WriterInv
  <2>5. ReaderInv'
    <3>1. Len(received) <= n /\ (stage = "payload" => Len(received) < n)
      BY DEF WireInv, ReaderInv, n
    <3>2. /\ Len(received) <= n + 1 /\ \A i \in 1..Len(received) : i \in 1..n
          /\ stage = "payload" => Len(received) + 1 \in 1..n /\ Len(received) < n + 1
      BY <3>1, <1>t
    <3>3. \A i \in 1..Len(received) : received[i] = accepted'[i]
      BY <3>2, <2>2 DEF WireInv, ReaderInv
    <3>4. stage = "payload" => want = Len(accepted'[Len(received) + 1])
      BY <3>2, <2>2 DEF WireInv, ReaderInv
    <3> QED BY <3>2, <3>3, <3>4, <2>1, <2>2 DEF WireInv, ReaderInv, readVars
  <2>6. StreamInv'
    <3> SUFFICES ASSUME outcome = "none" PROVE \E rest : IsStream(rest)' /\ ReaderAt(rest)'
      BY <2>1 DEF StreamInv, readVars
    <3>1. PICK old : IsStream(old) /\ ReaderAt(old)
      BY DEF WireInv, StreamInv
    <3>2. /\ \A i \in 0..n : old[i] \in Seq(Byte) /\ Len(old[i]) \in Nat
          /\ old[n] = <<>>
          /\ \A i \in 1..n : old[i - 1] = Encoded(accepted[i]) \o old[i]
      <4>1. /\ old \in [0..n -> Seq(Byte)] /\ old[n] = <<>>
            /\ \A i \in 1..n : old[i - 1] = Encoded(accepted[i]) \o old[i]
        BY <3>1 DEF IsStream, n
      <4>2. ASSUME NEW i \in 0..n PROVE old[i] \in Seq(Byte) /\ Len(old[i]) \in Nat
        <5>1. old[i] \in Seq(Byte)
          BY <4>1
        <5> QED BY <5>1
      <4> QED BY <4>1, <4>2
    <3> DEFINE new == [i \in 0..(n + 1) |-> IF i = n + 1 THEN <<>> ELSE old[i] \o Encoded(f)]
    <3>3. \A i \in 0..n : /\ new[i] = old[i] \o Encoded(f) /\ new[i] \in Seq(Byte)
                          /\ Len(new[i]) = Len(old[i]) + Len(Encoded(f))
      <4> TAKE i \in 0..n
      <4>1. i \in 0..(n + 1) /\ i # n + 1
        BY <1>t
      <4>2. new[i] = old[i] \o Encoded(f)
        BY <4>1
      <4> HIDE DEF new
      <4> QED BY <4>2, <3>2, <1>f, ConcatProperties
    <3>4. new[n + 1] = <<>> /\ n + 1 \in 0..(n + 1)
      BY <1>t
    <3>5. new \in [0..(n + 1) -> Seq(Byte)]
      <4>1. \A i \in 0..(n + 1) : new[i] \in Seq(Byte)
        <5> TAKE i \in 0..(n + 1)
        <5>1. i = n + 1 \/ i \in 0..n
          BY <1>t
        <5>2. <<>> \in Seq(Byte)
          OBVIOUS
        <5> HIDE DEF new
        <5> QED BY <5>1, <5>2, <3>3, <3>4
      <4>2. new = [i \in 0..(n + 1) |-> new[i]]
        OBVIOUS
      <4> HIDE DEF new
      <4> QED BY <4>1, <4>2
    <3> HIDE DEF new
    <3>6. ASSUME NEW i \in 1..(n + 1) PROVE new[i - 1] = Encoded(accepted'[i]) \o new[i]
      <4>1. CASE i \in 1..n
        <5>1. i \in 0..n /\ i - 1 \in 0..n /\ accepted[i] \in Frames
          BY <4>1, <1>t DEF n
        <5>2. Encoded(accepted[i]) \in Seq(Byte) /\ old[i] \in Seq(Byte)
          BY <5>1, <3>2, FrameBytes
        <5>3. (Encoded(accepted[i]) \o old[i]) \o Encoded(f)
                = Encoded(accepted[i]) \o (old[i] \o Encoded(f))
          BY <5>2, <1>f, Assoc
        <5>4. new[i - 1] = old[i - 1] \o Encoded(f) /\ new[i] = old[i] \o Encoded(f)
          BY <5>1, <3>3
        <5>5. old[i - 1] = Encoded(accepted[i]) \o old[i] /\ accepted'[i] = accepted[i]
          BY <4>1, <3>2, <2>2
        <5> QED BY <5>3, <5>4, <5>5
      <4>2. CASE i = n + 1
        <5>1. i - 1 = n /\ n \in 0..n
          BY <4>2, <1>t
        <5>2. new[n] = <<>> \o Encoded(f)
          BY <5>1, <3>2, <3>3
        <5>3. <<>> \o Encoded(f) = Encoded(f) /\ Encoded(f) \o <<>> = Encoded(f)
          BY <1>f, ConcatEmptySeq
        <5>4. accepted'[i] = f /\ new[i] = <<>> /\ new[i - 1] = new[n]
          BY <5>1, <4>2, <3>4, <2>2
        <5> QED BY <5>2, <5>3, <5>4
      <4>3. i \in 1..n \/ i = n + 1
        BY <1>t
      <4> QED BY <4>1, <4>2, <4>3
    <3>7. ASSUME NEW i \in 0..((n + 1) - 1) PROVE Len(out') <= Len(new[i])
      <4>1. i \in 0..n
        BY <1>t
      <4>2. Len(new[i]) = Len(old[i]) + Len(Encoded(f)) /\ Len(old[i]) \in Nat
        BY <4>1, <3>2, <3>3
      <4> QED BY <4>2, <2>1, <1>f
    <3>p. PICK rest : rest = new
      OBVIOUS
    <3>8. IsStream(rest)'
      BY <3>p, <3>4, <3>5, <3>6, <3>7, <2>2 DEF IsStream
    <3>9. InFlight' = InFlight \o Encoded(f)
      <4>1. buf \in Seq(Byte) /\ pipe \in Seq(Byte)
        BY DEF WireInv, Types
      <4>2. pipe \o <<>> = pipe /\ InFlight = buf \o (pipe \o <<>>)
        BY <4>1, <2>1, ConcatEmptySeq DEF InFlight
      <4>3. InFlight' = buf \o (pipe \o Encoded(f))
        BY <2>1 DEF InFlight, readVars
      <4>4. (buf \o pipe) \o Encoded(f) = buf \o (pipe \o Encoded(f))
        BY <4>1, <1>f, Assoc
      <4> QED BY <4>2, <4>3, <4>4
    <3>10. ReaderAt(rest)'
      <4>1. Len(received) <= n /\ (stage = "payload" => Len(received) < n)
        BY DEF WireInv, ReaderInv, n
      <4>2. CASE stage = "length"
        <5>1. Len(received) \in 0..n
          BY <4>1, <1>t
        <5>2. InFlight = old[Len(received)]
          BY <4>2, <3>1 DEF ReaderAt
        <5>3. InFlight' = rest[Len(received)]
          BY <5>1, <5>2, <3>3, <3>9, <3>p
        <5> QED BY <5>3, <4>2, <2>1 DEF ReaderAt, readVars
      <4>3. CASE stage = "payload"
        <5> DEFINE r == Len(received) + 1
        <5>1. r \in 1..n /\ r \in 0..n
          BY <4>1, <4>3, <1>t
        <5>2. InFlight = accepted[r] \o old[r]
          BY <4>3, <3>1 DEF ReaderAt
        <5> HIDE DEF r
        <5>3. accepted[r] \in Seq(Byte) /\ old[r] \in Seq(Byte)
          <6>1. accepted[r] \in Frames
            BY <5>1, <1>t DEF n
          <6> QED BY <6>1, <5>1, <3>2, FrameBytes
        <5>4. (accepted[r] \o old[r]) \o Encoded(f) = accepted[r] \o (old[r] \o Encoded(f))
          BY <5>3, <1>f, Assoc
        <5>5. InFlight' = accepted'[r] \o rest[r]
          BY <5>1, <5>2, <5>4, <3>3, <3>9, <3>p, <2>2
        <5> QED BY <5>5, <4>3, <2>1 DEF ReaderAt, readVars, r
      <4> QED BY <4>2, <4>3 DEF WireInv, Types
    <3> QED BY <3>8, <3>10
  <2>7. NoRefusal'
    BY <2>1 DEF WireInv, NoRefusal, readVars
  <2> QED BY <2>3, <2>4, <2>5, <2>6, <2>7 DEF WireInv
<1> QED BY <1>1, <1>2, WriteFrameOutcomes

\* A stream and the frames it is of, with their types.
LEMMA StreamTypes ==
    ASSUME Types, NEW rest, IsStream(rest)
    PROVE  /\ Len(accepted) \in Nat
           /\ \A i \in 0..Len(accepted) : rest[i] \in Seq(Byte) /\ Len(rest[i]) \in Nat
           /\ \A i \in 1..Len(accepted) : accepted[i] \in Frames
<1>1. accepted \in Seq(Frames) /\ Len(accepted) \in Nat
  BY DEF Types
<1>2. ASSUME NEW i \in 0..Len(accepted) PROVE rest[i] \in Seq(Byte) /\ Len(rest[i]) \in Nat
  <2>1. rest[i] \in Seq(Byte)
    BY DEF IsStream
  <2> QED BY <2>1
<1> QED BY <1>1, <1>2

\* A complete length is the one of the next frame.
LEMMA LengthRead ==
    ASSUME WireInv, outcome = "none", stage = "length", Len(buf) = want
    PROVE  /\ Len(received) < Len(accepted)
           /\ buf = to_be_bytes(Len(accepted[Len(received) + 1]))
           /\ \E rest : /\ IsStream(rest)
                        /\ pipe \o out = accepted[Len(received) + 1] \o rest[Len(received) + 1]
<1> DEFINE n == Len(accepted)
           r == Len(received)
           f == accepted[r + 1]
<1>1. PICK rest : IsStream(rest) /\ ReaderAt(rest)
  BY DEF WireInv, StreamInv
<1>2. /\ n \in Nat /\ r \in Nat /\ r <= n
      /\ \A i \in 0..n : rest[i] \in Seq(Byte) /\ Len(rest[i]) \in Nat
      /\ \A i \in 1..n : accepted[i] \in Frames
  BY <1>1, StreamTypes DEF WireInv, Types, ReaderInv
<1>3. /\ buf \in Seq(Byte) /\ pipe \in Seq(Byte) /\ out \in Seq(Byte)
      /\ pipe \o out \in Seq(Byte) /\ Len(buf) = HeaderLen /\ HeaderLen \in Nat \ {0}
  BY WireAssumption, ConcatProperties DEF WireInv, Types, ReaderInv
<1>4. buf \o (pipe \o out) = rest[r]
  BY <1>1 DEF ReaderAt, InFlight
<1>5. r < n
  <2> SUFFICES ASSUME r = n PROVE FALSE
    BY <1>2
  <2>1. rest[r] = <<>>
    BY <1>1 DEF IsStream
  <2>2. buf = <<>>
    BY <2>1, <1>3, <1>4, ConcatEqualIffEmpty
  <2> QED BY <2>2, <1>3
<1>6. /\ r + 1 \in 1..n /\ r + 1 \in 0..n /\ (r + 1) - 1 = r
  BY <1>2, <1>5
<1>7. rest[r] = (to_be_bytes(Len(f)) \o f) \o rest[r + 1]
  <2>1. rest[(r + 1) - 1] = Encoded(f) \o rest[r + 1]
    BY <1>1, <1>6 DEF IsStream
  <2> QED BY <2>1, <1>6 DEF Encoded
<1>8. /\ f \in Seq(Byte) /\ rest[r + 1] \in Seq(Byte)
      /\ to_be_bytes(Len(f)) \in Seq(Byte) /\ Len(to_be_bytes(Len(f))) = HeaderLen
  BY <1>2, <1>6, FrameBytes
<1> HIDE DEF f, r, n
<1>9. /\ rest[r] = to_be_bytes(Len(f)) \o (f \o rest[r + 1])
      /\ f \o rest[r + 1] \in Seq(Byte)
  BY <1>7, <1>8, Assoc, ConcatProperties
<1>10. buf = to_be_bytes(Len(f)) /\ pipe \o out = f \o rest[r + 1]
  <2>1. buf \o (pipe \o out) = to_be_bytes(Len(f)) \o (f \o rest[r + 1])
    BY <1>4, <1>9
  <2>2. Len(buf) = Len(to_be_bytes(Len(f)))
    BY <1>3, <1>8
  <2> DEFINE b == to_be_bytes(Len(f))
             x == pipe \o out
             y == f \o rest[r + 1]
  <2>3. /\ buf \in Seq(Byte) /\ b \in Seq(Byte) /\ x \in Seq(Byte) /\ y \in Seq(Byte)
        /\ Len(buf) = Len(b) /\ buf \o x = b \o y
    BY <2>1, <2>2, <1>3, <1>8, <1>9
  <2> HIDE DEF b, x, y
  <2>4. buf = b /\ x = y
    BY ONLY <2>3, Cancel
  <2> QED BY <2>4 DEF b, x, y
<1> QED BY <1>1, <1>5, <1>10 DEF f, r, n

\* A complete payload is the next frame.
LEMMA PayloadIsFrame ==
    ASSUME WireInv, outcome = "none", PayloadRead
    PROVE  /\ Len(received) < Len(accepted)
           /\ buf = accepted[Len(received) + 1]
           /\ \E rest : /\ IsStream(rest)
                        /\ pipe \o out = rest[Len(received) + 1]
<1> DEFINE n == Len(accepted)
           r == Len(received)
           f == accepted[r + 1]
<1>1. PICK rest : IsStream(rest) /\ ReaderAt(rest)
  BY DEF WireInv, StreamInv
<1>2. /\ n \in Nat /\ r \in Nat /\ r < n /\ Len(buf) = Len(f)
      /\ \A i \in 0..n : rest[i] \in Seq(Byte)
      /\ \A i \in 1..n : accepted[i] \in Frames
  BY <1>1, StreamTypes DEF WireInv, Types, ReaderInv, PayloadRead
<1>3. /\ buf \in Seq(Byte) /\ pipe \in Seq(Byte) /\ out \in Seq(Byte)
      /\ pipe \o out \in Seq(Byte)
  BY ConcatProperties DEF WireInv, Types
<1>4. buf \o (pipe \o out) = f \o rest[r + 1]
  BY <1>1 DEF ReaderAt, InFlight, PayloadRead
<1>5. r + 1 \in 1..n /\ r + 1 \in 0..n
  BY <1>2
<1>6. f \in Seq(Byte) /\ rest[r + 1] \in Seq(Byte)
  BY <1>2, <1>5, FrameBytes
<1> HIDE DEF f, r, n
<1>7. buf = f /\ pipe \o out = rest[r + 1]
  <2> DEFINE x == pipe \o out
             y == rest[r + 1]
  <2>1. /\ buf \in Seq(Byte) /\ f \in Seq(Byte) /\ x \in Seq(Byte) /\ y \in Seq(Byte)
        /\ Len(buf) = Len(f) /\ buf \o x = f \o y
    BY <1>2, <1>3, <1>4, <1>6
  <2> HIDE DEF x, y
  <2>2. buf = f /\ x = y
    BY ONLY <2>1, Cancel
  <2> QED BY <2>2 DEF x, y
<1> QED BY <1>1, <1>2, <1>7 DEF f, r, n

\* read_frame_opt takes the length of the next frame off the stream.
LEMMA ReadLengthInv == ASSUME WireInv, ReadLength PROVE WireInv'
<1> DEFINE n == Len(accepted)
           r == Len(received)
           f == accepted[r + 1]
<1>1. /\ r < n /\ buf = to_be_bytes(Len(f))
      /\ \E rest : IsStream(rest) /\ pipe \o out = f \o rest[r + 1]
  BY LengthRead DEF ReadLength
<1>2. f \in Frames /\ Len(f) <= MaxFrame
  <2>1. r \in Nat /\ n \in Nat /\ accepted \in Seq(Frames)
    BY DEF WireInv, Types
  <2>2. r + 1 \in 1..n
    BY <2>1, <1>1
  <2> QED BY <2>1, <2>2 DEF WireInv, WriterInv
<1>3. from_be_bytes(buf) = Len(f) /\ Len(f) \in Nat
  <2>1. Len(f) \in Nat /\ Len(f) \in 0..MaxFrame
    BY <1>2, FrameBytes, WireAssumption
  <2> QED BY <2>1, <1>1, LengthsSurvive
<1>4. ~TooLarge(from_be_bytes(buf))
  BY <1>2, <1>3, WireAssumption DEF TooLarge
<1>5. /\ stage' = "payload" /\ buf' = <<>> /\ want' = Len(f)
      /\ UNCHANGED <<writeVars, pipe, closed, received, outcome>>
  BY <1>3, <1>4 DEF ReadLength
<1>6. Types'
  <2>1. <<>> \in Seq(Byte)
    OBVIOUS
  <2> QED BY <2>1, <1>3, <1>5 DEF WireInv, Types, writeVars
<1>7. WriterInv' /\ NoRefusal'
  BY <1>5 DEF WireInv, WriterInv, NoRefusal, writeVars
<1>8. ReaderInv'
  <2>1. Len(buf') = 0 /\ Len(buf') <= Len(f)
    BY <1>3, <1>5
  <2>2. accepted' = accepted /\ received' = received
    BY <1>5 DEF writeVars
  <2> QED BY <2>1, <2>2, <1>1, <1>5 DEF WireInv, ReaderInv
<1>9. StreamInv'
  <2>1. PICK rest : IsStream(rest) /\ pipe \o out = f \o rest[r + 1]
    BY <1>1
  <2>2. IsStream(rest)'
    BY <2>1, <1>5 DEF IsStream, writeVars
  <2>3. InFlight' = pipe \o out
    <3>1. pipe \o out \in Seq(Byte)
      BY ConcatProperties DEF WireInv, Types
    <3>2. <<>> \o (pipe \o out) = pipe \o out
      BY <3>1, ConcatEmptySeq
    <3> QED BY <3>2, <1>5 DEF InFlight, writeVars
  <2>4. ReaderAt(rest)'
    BY <2>1, <2>3, <1>5 DEF ReaderAt, writeVars
  <2> QED BY <2>2, <2>4 DEF StreamInv
<1> QED BY <1>6, <1>7, <1>8, <1>9 DEF WireInv

\* read_frame_opt takes the next frame off the stream and returns it.
LEMMA ReadPayloadInv == ASSUME WireInv, ReadPayload PROVE WireInv'
<1> DEFINE n == Len(accepted)
           r == Len(received)
<1>1. /\ r < n /\ buf = accepted[r + 1]
      /\ \E rest : IsStream(rest) /\ pipe \o out = rest[r + 1]
  BY PayloadIsFrame DEF ReadPayload
<1>2. /\ r \in Nat /\ n \in Nat /\ r + 1 \in 1..n /\ buf \in Frames
      /\ received \in Seq(Frames)
  <2>1. r \in Nat /\ n \in Nat /\ accepted \in Seq(Frames) /\ received \in Seq(Frames)
    BY DEF WireInv, Types
  <2>2. r + 1 \in 1..n
    BY <2>1, <1>1
  <2> QED BY <2>1, <2>2, <1>1
<1>3. /\ received' = Append(received, buf) /\ stage' = "length" /\ buf' = <<>>
      /\ want' = HeaderLen
      /\ UNCHANGED <<writeVars, pipe, closed, outcome>>
  BY <1>2 DEF ReadPayload
<1>4. /\ received' \in Seq(Frames) /\ Len(received') = r + 1 /\ received'[r + 1] = buf
      /\ \A i \in 1..r : received'[i] = received[i]
  BY <1>2, <1>3
<1>5. Types'
  <2>1. <<>> \in Seq(Byte) /\ HeaderLen \in Nat
    BY WireAssumption
  <2> QED BY <2>1, <1>3, <1>4 DEF WireInv, Types, writeVars
<1>6. WriterInv' /\ NoRefusal'
  BY <1>3 DEF WireInv, WriterInv, NoRefusal, writeVars
<1>7. ReaderInv'
  <2>1. accepted' = accepted
    BY <1>3 DEF writeVars
  <2>2. ASSUME NEW i \in 1..(r + 1) PROVE received'[i] = accepted[i]
    <3>1. CASE i \in 1..r
      BY <3>1, <1>4 DEF WireInv, ReaderInv
    <3>2. CASE i = r + 1
      BY <3>2, <1>1, <1>4
    <3>3. i \in 1..r \/ i = r + 1
      BY <1>2
    <3> QED BY <3>1, <3>2, <3>3
  <2>3. Len(buf') <= want' /\ Len(received') <= n
    BY <1>2, <1>3, <1>4, WireAssumption
  <2> QED BY <2>1, <2>2, <2>3, <1>3, <1>4 DEF ReaderInv
<1>8. StreamInv'
  <2>1. PICK rest : IsStream(rest) /\ pipe \o out = rest[r + 1]
    BY <1>1
  <2>2. IsStream(rest)'
    BY <2>1, <1>3 DEF IsStream, writeVars
  <2>3. InFlight' = pipe \o out
    <3>1. pipe \o out \in Seq(Byte)
      BY ConcatProperties DEF WireInv, Types
    <3>2. <<>> \o (pipe \o out) = pipe \o out
      BY <3>1, ConcatEmptySeq
    <3> QED BY <3>2, <1>3 DEF InFlight, writeVars
  <2>4. ReaderAt(rest)'
    BY <2>1, <2>3, <1>3, <1>4 DEF ReaderAt
  <2> QED BY <2>2, <2>4 DEF StreamInv
<1> QED BY <1>5, <1>6, <1>7, <1>8 DEF WireInv

\* The reader loop ends, at the end of the stream or by a failed read.
LEMMA ReaderEndsInv == ASSUME WireInv, ReadEof \/ ReadFails PROVE WireInv'
<1>1. /\ outcome' \in {"Eof", "Io"} /\ pipe' \in Seq(Byte)
      /\ UNCHANGED <<writeVars, closed, stage, buf, want, received>>
  <2>1. CASE ReadEof
    BY <2>1 DEF WireInv, Types, ReadEof, Ends
  <2>2. CASE ReadFails
    <3>1. <<>> \in Seq(Byte)
      OBVIOUS
    <3> QED BY <3>1, <2>2 DEF ReadFails, Ends
  <2> QED BY <2>1, <2>2
<1>2. Types'
  BY <1>1 DEF WireInv, Types, writeVars
<1>3. WriterInv' /\ ReaderInv' /\ NoRefusal' /\ StreamInv'
  BY <1>1 DEF WireInv, WriterInv, ReaderInv, NoRefusal, StreamInv, writeVars
<1> QED BY <1>2, <1>3 DEF WireInv

\* Steps of others.
LEMMA StutterInv == ASSUME WireInv, UNCHANGED wireVars PROVE WireInv'
<1>1. Types'
  BY DEF WireInv, Types, wireVars, writeVars, readVars
<1>2. WriterInv' /\ ReaderInv' /\ NoRefusal'
  BY DEF WireInv, WriterInv, ReaderInv, NoRefusal, wireVars, writeVars, readVars
<1>3. StreamInv'
  <2>1. Len(out) <= Len(out)
    BY DEF WireInv, Types
  <2> QED BY <2>1, StreamKept DEF WireInv, Types, InFlight, wireVars, writeVars, readVars
<1> QED BY <1>1, <1>2, <1>3 DEF WireInv

\* The bytes on their way are at every moment the encodings of the frames the
\* reader has yet to return, cut where it stands in the first of them.
THEOREM WireInvariant == Spec => []WireInv
<1>1. WireInv /\ [Next]_wireVars => WireInv'
  <2> SUFFICES ASSUME WireInv, [Next]_wireVars PROVE WireInv'
    OBVIOUS
  <2>1. ASSUME NEW f \in Frames, Queue(f) PROVE WireInv'
    BY <2>1, QueueInv
  <2>2. CASE WriteFrame
    BY <2>2, WriteFrameInv
  <2>3. CASE WriteByte
    BY <2>3, WriteByteInv
  <2>4. CASE WriteFails \/ Close
    BY <2>4, WriterEndsInv
  <2>5. CASE ReadByte
    BY <2>5, ReadByteInv
  <2>6. CASE ReadLength
    BY <2>6, ReadLengthInv
  <2>7. CASE ReadPayload
    BY <2>7, ReadPayloadInv
  <2>8. CASE ReadEof \/ ReadFails
    BY <2>8, ReaderEndsInv
  <2>9. CASE UNCHANGED wireVars
    BY <2>9, StutterInv
  <2> QED
    BY <2>1, <2>2, <2>3, <2>4, <2>5, <2>6, <2>7, <2>8, <2>9 DEF Next, Writes, Reads
<1> QED BY <1>1, InitInv, PTL DEF Spec

\* read_frame_opt never asks for more bytes than the length or the largest frame
\* has, and the state keeps its types.
THEOREM WireTypeCorrect == Spec => []WireTypeOK
<1>1. WireInv => WireTypeOK
  <2> SUFFICES ASSUME WireInv PROVE WireTypeOK
    OBVIOUS
  <2>1. {writer, closed} \subseteq BOOLEAN
    BY Zenon DEF WireInv, Types
  <2>2. {out, pipe, buf} \subseteq Seq(0..(Base - 1))
    BY DEF WireInv, Types, Byte
  <2>3. want <= IF stage = "length" THEN HeaderLen ELSE MaxFrame
    <3>1. CASE stage = "length"
      BY <3>1, WireAssumption DEF WireInv, ReaderInv
    <3>2. CASE stage = "payload"
      <4>1. Len(received) \in Nat /\ Len(accepted) \in Nat /\ Len(received) < Len(accepted)
        BY <3>2 DEF WireInv, Types, ReaderInv
      <4>2. Len(received) + 1 \in 1..Len(accepted)
        BY <4>1
      <4> QED BY <4>2, <3>2 DEF WireInv, WriterInv, ReaderInv
    <3> QED BY <3>1, <3>2 DEF WireInv, Types
  <2> QED BY <2>1, <2>2, <2>3 DEF WireInv, Types, ReaderInv, WireTypeOK
<1> QED BY <1>1, WireInvariant, PTL

\* What write_frame of one end lets through, read_frame_opt of the other never
\* refuses, as too large or as undecodable, whatever is lost and wherever the
\* stream is cut.
THEOREM NothingIsRefused == Spec => []NoRefusal
BY WireInvariant, PTL DEF WireInv

-----------------------------------------------------------------------------
(* The channel of frames.                                                  *)

\* The frames written to the last byte are all, or all but the last.
LEMMA WrittenFrames ==
    ASSUME Types, WriterInv
    PROVE  /\ Len(accepted) \in Nat
           /\ out = <<>> => Written = accepted
           /\ out # <<>> => /\ Len(accepted) # 0 /\ accepted[Len(accepted)] \in Frames
                            /\ Written = SubSeq(accepted, 1, Len(accepted) - 1)
                            /\ Len(Written) = Len(accepted) - 1
                            /\ \A i \in 1..(Len(accepted) - 1) : Written[i] = accepted[i]
                            /\ accepted = Append(Written, accepted[Len(accepted)])
<1> DEFINE n == Len(accepted)
<1>1. accepted \in Seq(Frames) /\ n \in Nat
  BY DEF Types
<1>2. ASSUME out = <<>> PROVE Written = accepted
  <2>1. Written = SubSeq(accepted, 1, n)
    BY <1>1, <1>2 DEF Written
  <2> QED BY <2>1, <1>1, SubSeqFull
<1>3. ASSUME out # <<>>
      PROVE  /\ n # 0 /\ accepted[n] \in Frames
             /\ Written = SubSeq(accepted, 1, n - 1) /\ Len(Written) = n - 1
             /\ \A i \in 1..(n - 1) : Written[i] = accepted[i]
             /\ accepted = Append(Written, accepted[n])
  <2>1. n # 0 /\ n \in 1..n
    BY <1>1, <1>3, EmptySeq DEF WriterInv
  <2>2. Written = SubSeq(accepted, 1, n - 1)
    BY <1>3 DEF Written
  <2>3. accepted[n] \in Frames
    BY <2>1, <1>1
  <2>4. /\ Written \in Seq(Frames) /\ Len(Written) = n - 1
        /\ \A i \in 1..(n - 1) : Written[i] = accepted[i]
    <3>1. n - 1 \in Nat /\ \A i \in 1..(n - 1) : accepted[i] \in Frames
      BY <2>1, <1>1
    <3> DEFINE m == n - 1
               w == SubSeq(accepted, 1, m)
    <3> HIDE DEF m
    <3>2. m \in Nat /\ \A i \in 1..m : accepted[i] \in Frames
      BY <3>1 DEF m
    <3>3. /\ w \in Seq(Frames) /\ Len(w) = (IF 1 <= m THEN m - 1 + 1 ELSE 0)
          /\ \A i \in 1..(m - 1 + 1) : w[i] = accepted[1 + i - 1]
      BY <3>2, SubSeqProperties
    <3> HIDE DEF w
    <3>4. Len(w) = m /\ \A i \in 1..m : w[i] = accepted[i]
      BY <3>2, <3>3
    <3> QED BY <3>3, <3>4, <2>2 DEF m, w
  <2>5. accepted = Append(Written, accepted[n])
    <3> DEFINE a == Append(Written, accepted[n])
    <3>1. a \in Seq(Frames) /\ Len(a) = n /\ a[n] = accepted[n]
          /\ \A i \in 1..(n - 1) : a[i] = Written[i]
      BY <2>1, <2>3, <2>4, <1>1
    <3> HIDE DEF a
    <3>2. ASSUME NEW i \in 1..n PROVE a[i] = accepted[i]
      <4>1. i \in 1..(n - 1) \/ i = n
        BY <1>1
      <4> QED BY <4>1, <3>1, <2>4
    <3>3. a = accepted
      BY <3>1, <3>2, <1>1, SeqEqual
    <3> QED BY <3>3 DEF a
  <2> QED BY <2>1, <2>2, <2>3, <2>4, <2>5
<1> QED BY <1>1, <1>2, <1>3

\* write_frame has taken a frame: nothing is written yet.
LEMMA WriteFrameMaps ==
    ASSUME WireInv, WriteFrame PROVE UNCHANGED Channel!channelVars
<1> DEFINE f == Head(queue)
<1>1. /\ queue \in Seq(Frames) /\ accepted \in Seq(Frames) /\ f \in Frames /\ out = <<>>
      /\ Len(accepted) \in Nat
  BY HeadTailProperties DEF WireInv, Types, WriteFrame
<1>2. UNCHANGED <<received, outcome>>
  BY DEF WriteFrame, readVars
<1>3. Written' = Written
  <2>1. Written = accepted
    BY <1>1, WrittenFrames DEF WireInv
  <2>2. CASE Refused
    BY <2>2 DEF Refused, Written
  <2>3. CASE Accepted
    <3>1. accepted' = Append(accepted, f) /\ out' = Encoded(f)
      BY <2>3 DEF Accepted
    <3>2. out' # <<>>
      <4>1. Len(Encoded(f)) = HeaderLen + Len(f) /\ Len(f) \in Nat
        BY <1>1, FrameBytes
      <4>2. Len(Encoded(f)) # 0
        BY <4>1, WireAssumption
      <4> QED BY <4>2, <3>1
    <3>3. Len(accepted') - 1 = Len(accepted)
      BY <3>1, <1>1
    <3>4. Written' = SubSeq(Append(accepted, f), 1, Len(accepted))
      BY <3>1, <3>2, <3>3 DEF Written
    <3>5. SubSeq(Append(accepted, f), 1, Len(accepted)) = accepted
      <4> HIDE DEF f
      <4> QED BY <1>1
    <3> QED BY <2>1, <3>4, <3>5
  <2> QED BY <2>2, <2>3, WriteFrameOutcomes
<1> QED BY <1>2, <1>3 DEF Channel!channelVars

\* The last byte of a frame is the one that writes it.
LEMMA WriteByteMaps ==
    ASSUME WireInv, WriteByte PROVE Channel!Write \/ UNCHANGED Channel!channelVars
<1>1. /\ accepted' = accepted /\ out' = Tail(out) /\ out # <<>>
      /\ UNCHANGED <<received, outcome>>
  BY DEF WriteByte, readVars
<1>2. CASE Tail(out) # <<>>
  <2>1. Written' = Written
    BY <1>1, <1>2 DEF Written
  <2> QED BY <2>1, <1>1 DEF Channel!channelVars
<1>3. CASE Tail(out) = <<>>
  <2>1. Written' = accepted
    <3>1. Types' /\ WriterInv'
      BY WriteByteInv DEF WireInv
    <3>2. \/ out' # <<>> \/ Written' = accepted'
      <4>1. accepted' \in Seq(Frames) /\ Len(accepted') \in Nat
        BY <3>1 DEF Types
      <4>2. out' = <<>> => Written' = SubSeq(accepted', 1, Len(accepted'))
        BY <4>1 DEF Written
      <4> QED BY <4>1, <4>2, SubSeqFull
    <3> QED BY <3>2, <1>1, <1>3
  <2>2. accepted = Append(Written, accepted[Len(accepted)]) /\ accepted[Len(accepted)] \in Frames
    BY <1>1, WrittenFrames DEF WireInv
  <2>3. \E f \in Frames : Written' = Append(Written, f)
    BY <2>1, <2>2
  <2> QED BY <2>3, <1>1 DEF Channel!Write
<1> QED BY <1>2, <1>3

\* A complete payload is a frame that was written to the last byte.
LEMMA ReadPayloadMaps == ASSUME WireInv, ReadPayload PROVE Channel!Receive
<1> DEFINE n == Len(accepted)
           r == Len(received)
<1>1. /\ r < n /\ buf = accepted[r + 1] /\ outcome = "none"
      /\ \E rest : IsStream(rest) /\ pipe \o out = rest[r + 1]
  BY PayloadIsFrame DEF ReadPayload
<1>2. /\ accepted \in Seq(Frames) /\ n \in Nat /\ r \in Nat /\ buf \in Frames
      /\ pipe \in Seq(Byte) /\ out \in Seq(Byte)
  <2>1. accepted \in Seq(Frames) /\ n \in Nat /\ r \in Nat
    BY DEF WireInv, Types
  <2>2. r + 1 \in 1..n
    BY <2>1, <1>1
  <2> QED BY <2>1, <2>2, <1>1 DEF WireInv, Types
<1>3. received' = Append(received, buf) /\ UNCHANGED <<accepted, out, outcome>>
  BY <1>2 DEF ReadPayload, writeVars
<1>4. r < Len(Written) /\ Written[r + 1] = accepted[r + 1]
  <2>1. CASE out = <<>>
    BY <2>1, <1>1, WrittenFrames DEF WireInv
  <2>2. CASE out # <<>>
    <3>1. r + 1 # n
      <4> SUFFICES ASSUME r + 1 = n PROVE FALSE
        OBVIOUS
      <4>1. pipe \o out = <<>>
        BY <1>1 DEF IsStream
      <4> QED BY <4>1, <2>2, <1>2, ConcatEqualIffEmpty
    <3>2. r + 1 \in 1..(n - 1) /\ r < n - 1
      BY <3>1, <1>1, <1>2
    <3> QED BY <3>2, <2>2, WrittenFrames DEF WireInv
  <2> QED BY <2>1, <2>2
<1>5. Written' = Written
  BY <1>3 DEF Written
<1> QED BY <1>1, <1>3, <1>4, <1>5 DEF Channel!Receive

\* Nothing is lost where the reader takes the end for a clean one.
LEMMA CleanEnd ==
    ASSUME WireInv, outcome = "none", pipe = <<>>, stage = "length", Len(buf) < want
    PROVE  Len(received) = Len(Written)
<1> DEFINE n == Len(accepted)
           r == Len(received)
<1>1. PICK rest : IsStream(rest) /\ ReaderAt(rest)
  BY DEF WireInv, StreamInv
<1>2. /\ n \in Nat /\ r \in Nat /\ r <= n
      /\ \A i \in 0..n : rest[i] \in Seq(Byte) /\ Len(rest[i]) \in Nat
      /\ \A i \in 1..n : accepted[i] \in Frames
  BY <1>1, StreamTypes DEF WireInv, Types, ReaderInv
<1>3. /\ buf \in Seq(Byte) /\ out \in Seq(Byte) /\ Len(buf) \in Nat /\ Len(out) \in Nat
      /\ Len(buf) < HeaderLen /\ HeaderLen \in Nat
  BY WireAssumption DEF WireInv, Types, ReaderInv
<1>4. Len(rest[r]) = Len(buf) + Len(out)
  <2>1. rest[r] = buf \o (<<>> \o out)
    BY <1>1 DEF ReaderAt, InFlight
  <2>2. <<>> \o out = out
    BY <1>3, ConcatEmptySeq
  <2> QED BY <2>1, <2>2, <1>3, ConcatProperties
\* A frame that is not read at all is longer than what read_exact has of a length.
<1>5. ASSUME r < n PROVE Len(rest[r]) >= HeaderLen + Len(rest[r + 1])
  <2>1. r + 1 \in 1..n /\ r + 1 \in 0..n /\ (r + 1) - 1 = r
    BY <1>2, <1>5
  <2>2. rest[r] = Encoded(accepted[r + 1]) \o rest[r + 1]
    BY <2>1, <1>1 DEF IsStream
  <2>3. /\ Encoded(accepted[r + 1]) \in Seq(Byte) /\ Len(accepted[r + 1]) \in Nat
        /\ Len(Encoded(accepted[r + 1])) = HeaderLen + Len(accepted[r + 1])
    BY <2>1, <1>2, FrameBytes
  <2>4. rest[r + 1] \in Seq(Byte) /\ Len(rest[r + 1]) \in Nat
    BY <2>1, <1>2
  <2>5. Len(rest[r]) = (HeaderLen + Len(accepted[r + 1])) + Len(rest[r + 1])
    <3>1. Len(Encoded(accepted[r + 1]) \o rest[r + 1])
            = Len(Encoded(accepted[r + 1])) + Len(rest[r + 1])
      BY <2>3, <2>4, ConcatProperties
    <3> QED BY <3>1, <2>2, <2>3
  <2> QED BY <2>3, <2>4, <2>5, <1>3
<1>6. CASE out = <<>>
  <2>1. Written = accepted /\ Len(out) = 0
    BY <1>6, WrittenFrames DEF WireInv
  <2>2. ~(r < n)
    <3> SUFFICES ASSUME r < n PROVE FALSE
      OBVIOUS
    <3>1. r + 1 \in 0..n
      BY <1>2
    <3>2. Len(rest[r + 1]) \in Nat /\ Len(rest[r]) \in Nat
      BY <3>1, <1>2
    <3> QED BY <3>2, <2>1, <1>3, <1>4, <1>5
  <2> QED BY <2>1, <2>2, <1>2
<1>7. CASE out # <<>>
  <2>1. n # 0 /\ Len(Written) = n - 1
    BY <1>7, WrittenFrames DEF WireInv
  <2>2. r # n
    <3> SUFFICES ASSUME r = n PROVE FALSE
      OBVIOUS
    <3>1. rest[r] = <<>>
      BY <1>1 DEF IsStream
    <3>2. Len(rest[r]) = 0
      BY <3>1
    <3>3. Len(out) # 0
      BY <1>3, <1>7, EmptySeq
    <3> QED BY <3>2, <3>3, <1>3, <1>4
  <2>3. ~(r < n - 1)
    <3> SUFFICES ASSUME r < n - 1 PROVE FALSE
      OBVIOUS
    <3>1. r < n /\ r + 1 \in 0..(n - 1) /\ r + 1 \in 0..n
      BY <1>2
    <3>2. Len(out) <= Len(rest[r + 1])
      BY <3>1, <1>1 DEF IsStream
    <3>3. Len(rest[r + 1]) \in Nat /\ Len(rest[r]) \in Nat
      BY <3>1, <1>2
    <3> QED BY <3>1, <3>2, <3>3, <1>3, <1>4, <1>5
  <2> QED BY <2>1, <2>2, <2>3, <1>2
<1> QED BY <1>6, <1>7

\* The two ways to end, clean and failed.
LEMMA ReaderEndsMaps == ASSUME WireInv, ReadEof \/ ReadFails PROVE Channel!End
<1>1. UNCHANGED <<accepted, out, received>> /\ outcome = "none"
  BY DEF ReadEof, ReadFails, Ends, writeVars
<1>2. Written' = Written
  BY <1>1 DEF Written
<1>3. \/ outcome' = "Eof" /\ Len(received) = Len(Written)
      \/ outcome' = "Io"
  <2>1. CASE ReadEof /\ stage = "length"
    BY <2>1, CleanEnd DEF ReadEof, Ends
  <2>2. CASE ReadEof /\ stage # "length"
    BY <2>2 DEF ReadEof, Ends
  <2>3. CASE ReadFails
    BY <2>3 DEF ReadFails, Ends
  <2> QED BY <2>1, <2>2, <2>3
<1> QED BY <1>1, <1>2, <1>3 DEF Channel!End

\* Every step of the codec is a step of the channel or none.
LEMMA StepMaps ==
    ASSUME WireInv, [Next]_wireVars
    PROVE  [Channel!Write \/ Channel!Receive \/ Channel!End]_(Channel!channelVars)
<1>1. ASSUME UNCHANGED <<accepted, out, received, outcome>> PROVE UNCHANGED Channel!channelVars
  BY <1>1 DEF Written, Channel!channelVars
<1>2. ASSUME NEW f \in Frames, Queue(f) PROVE UNCHANGED Channel!channelVars
  BY <1>1, <1>2 DEF Queue, readVars
<1>3. CASE WriteFails \/ Close \/ ReadByte \/ UNCHANGED wireVars
  BY <1>1, <1>3 DEF WriteFails, Close, ReadByte, wireVars, readVars, writeVars
<1>4. CASE ReadLength
  <2>1. NoRefusal'
    BY <1>4, ReadLengthInv DEF WireInv
  <2>2. UNCHANGED <<accepted, out, received, outcome>>
    BY <2>1, <1>4 DEF ReadLength, Ends, NoRefusal, writeVars
  <2> QED BY <2>2, <1>1
<1>5. CASE WriteFrame
  BY <1>5, WriteFrameMaps
<1>6. CASE WriteByte
  BY <1>6, WriteByteMaps
<1>7. CASE ReadPayload
  BY <1>7, ReadPayloadMaps
<1>8. CASE ReadEof \/ ReadFails
  BY <1>8, ReaderEndsMaps
<1> QED BY <1>2, <1>3, <1>4, <1>5, <1>6, <1>7, <1>8 DEF Next, Writes, Reads

\* The codec over a byte stream implements a channel of frames, for every length
\* of the header, size of a frame and number of frames: the reader returns the
\* frames that were written to the last byte, in order and unchanged, and takes
\* the end for a clean one only when it has returned all of them.
THEOREM WireImplementsChannel == Spec => ImplementsChannel
<1>1. Init => Channel!Init
  BY DEF Init, Channel!Init, Written
<1> QED BY <1>1, StepMaps, WireInvariant, PTL DEF Spec, ImplementsChannel, Channel!Spec

-----------------------------------------------------------------------------
(* What FramesArrive and LossIsNoticed rest on besides fairness.           *)

\* More than the steps it takes to write and read the bytes of a frame.
FrameCost == 3 * (HeaderLen + MaxFrame) + 1

\* A bound on the steps that are left for the frames on their way: a byte of out
\* is written, read and taken, one in the pipe is read and taken.
Work == Len(queue) * FrameCost + 3 * Len(out) + 2 * Len(pipe) + Len(buf)

\* Every step of write_frame and of read_frame_opt takes something off the work
\* that is left, or ends the reader loop; only a new frame adds to it.
CodecProgress ==
    [][/\ Writes \/ Reads => Work' < Work \/ outcome' # "none"
       /\ Work' > Work => \E f \in Frames : Queue(f)]_wireVars

\* The numbers that Work adds up.
LEMMA WorkTypes ==
    ASSUME WireInv
    PROVE  /\ Len(queue) \in Nat /\ Len(out) \in Nat /\ Len(pipe) \in Nat /\ Len(buf) \in Nat
           /\ FrameCost \in Nat /\ FrameCost # 0 /\ Len(queue) * FrameCost \in Nat
<1>1. /\ Len(queue) \in Nat /\ Len(out) \in Nat /\ Len(pipe) \in Nat /\ Len(buf) \in Nat
  BY DEF WireInv, Types
<1>2. FrameCost \in Nat /\ FrameCost # 0
  BY WireAssumption DEF FrameCost
<1> QED BY <1>1, <1>2

\* One frame less on the channel is FrameCost less to do.
LEMMA OneFrame ==
    ASSUME NEW q \in Nat, q # 0, NEW c \in Nat
    PROVE  (q - 1) * c = q * c - c /\ q * c >= c
<1>1. (q - 1) * c = q * c - c
  OBVIOUS
<1>2. (q - 1) * c \in Nat
  OBVIOUS
<1> QED BY <1>1, <1>2

\* A frame costs less to write than to have queued.
LEMMA WriteFrameWorks == ASSUME WireInv, WireInv', WriteFrame PROVE Work' < Work
<1> DEFINE f == Head(queue)
           q == Len(queue)
           c == FrameCost
<1>1. /\ q \in Nat /\ q # 0 /\ Len(pipe) \in Nat /\ Len(buf) \in Nat /\ c \in Nat /\ c # 0
      /\ q * c \in Nat /\ f \in Frames /\ out = <<>> /\ Len(out) = 0
      /\ Len(Tail(queue)) = q - 1
  <2>1. queue \in Seq(Frames) /\ queue # <<>> /\ out = <<>>
    BY DEF WireInv, Types, WriteFrame
  <2>2. f \in Frames /\ q # 0 /\ Len(Tail(queue)) = q - 1 /\ Len(out) = 0
    BY <2>1, HeadTailProperties, EmptySeq
  <2> QED BY <2>1, <2>2, WorkTypes
<1>2. (q - 1) * c = q * c - c /\ q * c >= c
  BY <1>1, OneFrame
<1>3. pipe' = pipe /\ buf' = buf
  BY DEF WriteFrame, readVars
<1>4. CASE Refused
  <2>1. Len(queue') = 0 /\ out' = out
    BY <1>4 DEF Refused
  <2>2. Work' = 0 * c + 3 * 0 + 2 * Len(pipe) + Len(buf)
    BY <2>1, <1>1, <1>3 DEF Work, FrameCost
  <2>3. Work = q * c + 3 * 0 + 2 * Len(pipe) + Len(buf)
    BY <1>1 DEF Work
  <2> HIDE DEF q, c
  <2> QED BY <2>2, <2>3, <1>1, <1>2
<1>5. CASE Accepted
  <2>1. queue' = Tail(queue) /\ out' = Encoded(f)
    BY <1>5 DEF Accepted
  <2>2. Len(out') = HeaderLen + Len(f) /\ Len(f) \in Nat /\ Len(f) <= MaxFrame
    BY <2>1, <1>1, <1>5, FrameBytes DEF Accepted, FitsFrame
  <2>3. 3 * Len(out') < c
    BY <2>2, WireAssumption DEF FrameCost
  <2>4. Work' = (q - 1) * c + 3 * Len(out') + 2 * Len(pipe) + Len(buf)
    BY <2>1, <1>1, <1>3 DEF Work, FrameCost
  <2>5. Work = q * c + 3 * 0 + 2 * Len(pipe) + Len(buf)
    BY <1>1 DEF Work
  <2>6. Len(out') \in Nat
    BY <2>2, WireAssumption
  <2> HIDE DEF q, c
  <2> QED BY <2>3, <2>4, <2>5, <2>6, <1>1, <1>2
<1> QED BY <1>4, <1>5, WriteFrameOutcomes

\* Every other step of the writer and the reader moves bytes on or takes some away;
\* the length has at least one byte and so has a frame.
LEMMA BytesWork ==
    ASSUME WireInv, WireInv', WriteByte \/ Reads
    PROVE  Work' < Work \/ (Work' = Work /\ outcome' # "none")
<1> DEFINE w == Len(queue) * FrameCost
<1>1. /\ Len(out) \in Nat /\ Len(pipe) \in Nat /\ Len(buf) \in Nat /\ w \in Nat
      /\ out \in Seq(Byte) /\ pipe \in Seq(Byte) /\ buf \in Seq(Byte)
      /\ Work = w + 3 * Len(out) + 2 * Len(pipe) + Len(buf)
  BY WorkTypes DEF WireInv, Types, Work
<1>2. Work' = w + 3 * Len(out') + 2 * Len(pipe') + Len(buf')
  <2>1. queue' = queue
    BY DEF WriteByte, Reads, ReadByte, ReadLength, ReadPayload, ReadEof, writeVars
  <2> QED BY <2>1 DEF Work, FrameCost
<1> HIDE DEF w
<1>3. CASE WriteByte
  <2>1. Len(out') = Len(out) - 1 /\ Len(pipe') = Len(pipe) + 1 /\ buf' = buf
    BY <1>1, <1>3, MoveByte DEF WriteByte, readVars
  <2> QED BY <2>1, <1>1, <1>2
<1>4. CASE ReadByte
  <2>1. Len(pipe') = Len(pipe) - 1 /\ Len(buf') = Len(buf) + 1 /\ out' = out
    BY <1>1, <1>4, MoveByte DEF ReadByte, writeVars
  <2> QED BY <2>1, <1>1, <1>2
<1>5. CASE ReadLength
  <2>1. buf' = <<>> /\ pipe' = pipe /\ out' = out /\ Len(buf) = HeaderLen
    BY <1>5 DEF WireInv, ReaderInv, NoRefusal, ReadLength, Ends, writeVars
  <2>2. Len(buf') = 0
    BY <2>1
  <2> QED BY <2>1, <2>2, <1>1, <1>2, WireAssumption
<1>6. CASE ReadPayload
  <2>1. buf \in Frames /\ buf' = <<>> /\ pipe' = pipe /\ out' = out
    BY <1>6 DEF WireInv, NoRefusal, ReadPayload, Ends, writeVars
  <2>2. Len(buf') = 0 /\ Len(buf) # 0
    BY <2>1, FrameBytes
  <2> QED BY <2>1, <2>2, <1>1, <1>2
<1>7. CASE ReadEof
  <2>1. buf' = buf /\ pipe' = pipe /\ out' = out /\ outcome' # "none"
    BY <1>7 DEF ReadEof, Ends, writeVars
  <2> QED BY <2>1, <1>1, <1>2
<1> QED BY <1>3, <1>4, <1>5, <1>6, <1>7 DEF Reads

\* The steps that end a task, or change nothing.
LEMMA LossesWork ==
    ASSUME WireInv, WireInv', WriteFails \/ Close \/ ReadFails
    PROVE  Work' <= Work
<1> DEFINE w == Len(queue) * FrameCost
<1>1. /\ Len(out) \in Nat /\ Len(pipe) \in Nat /\ Len(buf) \in Nat /\ w \in Nat
      /\ Work = w + 3 * Len(out) + 2 * Len(pipe) + Len(buf)
  BY WorkTypes DEF Work
<1>2. CASE ReadFails
  <2>1. queue' = queue /\ out' = out /\ buf' = buf /\ Len(pipe') = 0
    BY <1>2 DEF ReadFails, Ends, writeVars
  <2>2. Work' = w + 3 * Len(out) + 2 * 0 + Len(buf)
    BY <2>1 DEF Work, FrameCost
  <2> HIDE DEF w
  <2> QED BY <2>2, <1>1
<1>3. CASE WriteFails \/ Close
  <2>1. Len(queue') = 0 /\ out' = out /\ buf' = buf /\ pipe' = pipe
    BY <1>3 DEF WriteFails, Close, readVars
  <2>2. Work' = 0 * FrameCost + 3 * Len(out) + 2 * Len(pipe) + Len(buf)
    BY <2>1 DEF Work, FrameCost
  <2>3. FrameCost \in Nat
    BY WorkTypes
  <2> HIDE DEF w
  <2> QED BY <2>2, <2>3, <1>1
<1> QED BY <1>2, <1>3

\* The bound behind FramesArrive and LossIsNoticed: of the steps of the two tasks
\* only finitely many, at most Work + 1, lie between a state and the end of all that
\* is queued, so where the tasks are scheduled the frames arrive or the loop ends.
THEOREM WorkRunsOut == Spec => CodecProgress
<1> DEFINE A == /\ Writes \/ Reads => Work' < Work \/ outcome' # "none"
                /\ Work' > Work => \E f \in Frames : Queue(f)
<1>1. ASSUME WireInv, WireInv', [Next]_wireVars PROVE [A]_wireVars
  <2>1. Work \in Nat /\ Work' \in Nat
    <3>1. Work \in Nat
      BY <1>1, WorkTypes DEF Work
    <3>2. /\ Len(queue') \in Nat /\ Len(out') \in Nat /\ Len(pipe') \in Nat /\ Len(buf') \in Nat
          /\ FrameCost \in Nat /\ Len(queue') * FrameCost \in Nat
      <4>1. /\ Len(queue') \in Nat /\ Len(out') \in Nat /\ Len(pipe') \in Nat /\ Len(buf') \in Nat
        BY <1>1 DEF WireInv, Types
      <4> QED BY <4>1, <1>1, WorkTypes
    <3>3. Work' = Len(queue') * FrameCost + 3 * Len(out') + 2 * Len(pipe') + Len(buf')
      BY DEF Work, FrameCost
    <3> QED BY <3>1, <3>2, <3>3
  <2>2. CASE WriteFrame
    BY <2>1, <2>2, <1>1, WriteFrameWorks
  <2>3. CASE WriteByte \/ Reads
    <3>1. Work' < Work \/ (Work' = Work /\ outcome' # "none")
      BY <2>3, <1>1, BytesWork
    <3> QED BY <3>1, <2>1
  <2>4. ASSUME WriteFails \/ Close \/ ReadFails, ~Writes, ~Reads PROVE A
    <3>1. Work' <= Work
      BY <2>4, <1>1, LossesWork
    <3> QED BY <3>1, <2>1, <2>4
  <2>5. ASSUME \E f \in Frames : Queue(f), ~Writes, ~Reads PROVE A
    BY <2>5
  <2> HIDE DEF A
  <2> QED BY <2>2, <2>3, <2>4, <2>5, <1>1 DEF Next, Writes
<1> QED BY <1>1, WireInvariant, PTL DEF Spec, CodecProgress

=============================================================================
