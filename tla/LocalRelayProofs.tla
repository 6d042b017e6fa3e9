--------------------------- MODULE LocalRelayProofs ---------------------------
(***************************************************************************)
(* What TLAPS proves about the TCP side of ss-local.                       *)
(*                                                                         *)
(* Aead and AeadStream: what aead_encrypt writes is what aead_decrypt      *)
(* reads, wherever the network cuts it, and the filter refuses every salt  *)
(* among the last ones.  The invariant describes a sealed stream           *)
(* pointwise.  With the ends of its chunks in E, chunk k is between        *)
(* Off(E, k - 1) and Off(E, k), and a decrypting context stands at the end *)
(* of some chunk: its nonce is twice the chunk's number and its buffer is  *)
(* what arrived behind that chunk.  The loop of aead_decrypt runs a number *)
(* of turns that depends on what arrived, so the lemma about it is an      *)
(* induction.                                                              *)
(*                                                                         *)
(* LocalRelay, for buffers and streams of any length: the relay hands over *)
(* both streams in order and once.  The invariant says that what was       *)
(* handed to the other side, with what is in abuf and rbuf, is the sealed  *)
(* stream of all that was read from the client, and the same downwards;    *)
(* and which watchers exclude each other, since each buffer is given up to *)
(* one of them.  The lemmas about sealed streams are used for both         *)
(* directions.                                                             *)
(***************************************************************************)
EXTENDS LocalRelay, AeadStream, SequenceTheorems, WellFoundedInduction, TLAPS

------------------------------------------------------------------------------
(* Induction *)

Less == {p \in Nat \X Nat : p[1] < p[2]}

\* The order of the naturals, as the library's theorems about orders take it.
LEMMA LessWellFounded == IsWellFoundedOn(Less, Nat)
  BY NatLessThanWellFounded DEF OpToRel, Less

\* A set of naturals has a least element.
LEMMA Least ==
    ASSUME NEW T, T \subseteq Nat, T # {}
    PROVE  \E x \in T : \A y \in T : ~(y < x)
<1>1. PICK x \in T : \A y \in T : ~(<<y, x>> \in Less)
  BY LessWellFounded, WFMin
<1>2. ASSUME NEW y \in T, y < x PROVE FALSE
  <2>1. <<y, x>> \in Less
    BY <1>2 DEF Less
  <2>2. QED BY <2>1, <1>1
<1>3. QED BY <1>1, <1>2

\* Induction over the naturals for a property given as the set it defines.
LEMMA SetInduction ==
    ASSUME NEW T, 0 \in T, \A n \in Nat : n \in T => n + 1 \in T
    PROVE  Nat \subseteq T
<1> DEFINE R == Nat \ T
<1> SUFFICES ASSUME R # {} PROVE FALSE
  OBVIOUS
<1>1. PICK x \in R : \A y \in R : ~(y < x)
  BY Least
<1>2. x # 0 /\ x - 1 \in Nat /\ x - 1 < x /\ x - 1 + 1 = x
  BY <1>1
<1>3. x - 1 \in T
  BY <1>1, <1>2
<1>4. QED
  BY <1>1, <1>2, <1>3

------------------------------------------------------------------------------
(* Sequences of any values *)

IsSeq(q) == Len(q) \in Nat /\ q = [i \in 1..Len(q) |-> q[i]]

Values(q) == {q[i] : i \in 1..Len(q)}

\* A sequence in the sense of IsSeq is one of its own values.
LEMMA SeqOfValues ==
    ASSUME NEW q, IsSeq(q)
    PROVE  q \in Seq(Values(q)) /\ DOMAIN q = 1..Len(q)
<1>1. \A i \in 1..Len(q) : q[i] \in Values(q)
  BY DEF Values
<1>2. q \in [1..Len(q) -> Values(q)]
  BY <1>1 DEF IsSeq
<1>3. q \in Seq(Values(q))
  BY <1>2, SeqDef DEF IsSeq
<1>4. QED BY <1>2, <1>3

\* A sequence of elements of a set is one in the sense of IsSeq.
LEMMA SeqIsSeq ==
    ASSUME NEW S, NEW q \in Seq(S)
    PROVE  IsSeq(q)
<1>1. Len(q) \in Nat /\ q \in [1..Len(q) -> S]
  BY LenProperties
<1>2. QED BY <1>1 DEF IsSeq

\* A function on 1..n is a sequence of length n.
LEMMA FunctionSeq ==
    ASSUME NEW n \in Nat, NEW q, q = [i \in 1..n |-> q[i]]
    PROVE  IsSeq(q) /\ Len(q) = n /\ DOMAIN q = 1..n
<1> DEFINE S == {q[i] : i \in 1..n}
<1>1. q \in [1..n -> S]
  OBVIOUS
<1>2. q \in Seq(S)
  BY <1>1, SeqDef
<1>3. DOMAIN q = 1..Len(q) /\ DOMAIN q = 1..n /\ Len(q) \in Nat
  BY <1>1, <1>2, LenProperties
<1>4. Len(q) = n
  BY <1>3
<1>5. QED BY <1>2, <1>3, <1>4, SeqIsSeq

\* Equal length and equal elements make equal sequences.
LEMMA SameSeq ==
    ASSUME NEW q, NEW r, IsSeq(q), IsSeq(r), Len(q) = Len(r),
           \A i \in 1..Len(q) : q[i] = r[i]
    PROVE  q = r
  BY DEF IsSeq

\* Concatenation.
LEMMA ConcatSeq ==
    ASSUME NEW q, NEW r, IsSeq(q), IsSeq(r)
    PROVE  /\ IsSeq(q \o r) /\ Len(q \o r) = Len(q) + Len(r)
           /\ \A i \in 1..Len(q) : (q \o r)[i] = q[i]
           /\ \A i \in 1..Len(r) : (q \o r)[Len(q) + i] = r[i]
<1> DEFINE S == Values(q) \cup Values(r)
<1>1. q \in Seq(S) /\ r \in Seq(S)
  BY SeqOfValues, SeqMonotonic
<1>2. Len(q) \in Nat /\ Len(r) \in Nat
  BY DEF IsSeq
<1>3. /\ q \o r \in Seq(S) /\ Len(q \o r) = Len(q) + Len(r)
      /\ \A i \in 1..(Len(q) + Len(r)) :
            (q \o r)[i] = IF i <= Len(q) THEN q[i] ELSE r[i - Len(q)]
  BY <1>1, ConcatProperties
<1>4. IsSeq(q \o r)
  BY <1>3, SeqIsSeq
<1>5. ASSUME NEW i \in 1..Len(q) PROVE (q \o r)[i] = q[i]
  <2>1. i \in 1..(Len(q) + Len(r)) /\ i <= Len(q)
    BY <1>2
  <2>2. QED BY <2>1, <1>3
<1>6. ASSUME NEW i \in 1..Len(r) PROVE (q \o r)[Len(q) + i] = r[i]
  <2>1. Len(q) + i \in 1..(Len(q) + Len(r)) /\ ~(Len(q) + i <= Len(q)) /\ Len(q) + i - Len(q) = i
    BY <1>2
  <2>2. QED BY <2>1, <1>3
<1>7. QED BY <1>3, <1>4, <1>5, <1>6

\* The empty sequence.
LEMMA EmptyIsSeq ==
    /\ IsSeq(<<>>) /\ Len(<<>>) = 0
    /\ \A q : IsSeq(q) /\ Len(q) = 0 => q = <<>>
<1>1. <<>> \in Seq({}) /\ Len(<<>>) = 0
  BY EmptySeq
<1>2. IsSeq(<<>>)
  BY <1>1, SeqIsSeq
<1>3. ASSUME NEW q, IsSeq(q), Len(q) = 0 PROVE q = <<>>
  BY <1>1, <1>2, <1>3, SameSeq
<1>4. QED BY <1>1, <1>2, <1>3

\* A sequence of one element.
LEMMA SingleIsSeq ==
    ASSUME NEW x
    PROVE  IsSeq(<<x>>) /\ Len(<<x>>) = 1 /\ <<x>>[1] = x
<1>1. <<x>> \in Seq({x}) /\ Len(<<x>>) = 1 /\ <<x>>[1] = x
  OBVIOUS
<1>2. QED BY <1>1, SeqIsSeq

\* SubSeq by its first and last element.
LEMMA SubSeqSeq ==
    ASSUME NEW q, NEW a \in Nat \ {0}, NEW b \in Nat, a <= b + 1
    PROVE  /\ IsSeq(SubSeq(q, a, b)) /\ Len(SubSeq(q, a, b)) = b - a + 1
           /\ \A i \in 1..(b - a + 1) : SubSeq(q, a, b)[i] = q[a + i - 1]
<1> DEFINE S == {q[i] : i \in a..b}
<1>1. \A i \in a..b : q[i] \in S
  OBVIOUS
<1>2. a \in Int /\ b \in Int
  OBVIOUS
<1> HIDE DEF S
<1>3. /\ SubSeq(q, a, b) \in Seq(S)
      /\ Len(SubSeq(q, a, b)) = IF a <= b THEN b - a + 1 ELSE 0
      /\ \A i \in 1..(b - a + 1) : SubSeq(q, a, b)[i] = q[a + i - 1]
  BY <1>1, <1>2, SubSeqProperties
<1>4. IsSeq(SubSeq(q, a, b))
  BY <1>3, SeqIsSeq
<1>5. Len(SubSeq(q, a, b)) = b - a + 1
  BY <1>3
<1>6. QED BY <1>3, <1>4, <1>5

\* The elements a + 1 to b of a sequence.
LEMMA CutSeq ==
    ASSUME NEW q, NEW a \in Nat, NEW b \in Nat, a <= b
    PROVE  /\ IsSeq(SubSeq(q, a + 1, b)) /\ Len(SubSeq(q, a + 1, b)) = b - a
           /\ \A i \in 1..(b - a) : SubSeq(q, a + 1, b)[i] = q[a + i]
<1> DEFINE d == a + 1
<1>1. d \in Nat \ {0} /\ d <= b + 1 /\ b - d + 1 = b - a /\ \A i \in 1..(b - a) : d + i - 1 = a + i
  OBVIOUS
<1> HIDE DEF d
<1>2. /\ IsSeq(SubSeq(q, d, b)) /\ Len(SubSeq(q, d, b)) = b - d + 1
      /\ \A i \in 1..(b - d + 1) : SubSeq(q, d, b)[i] = q[d + i - 1]
  BY <1>1, SubSeqSeq
<1>3. QED BY <1>1, <1>2 DEF d

------------------------------------------------------------------------------
(* Sealed streams *)

\* Payload in the first k chunks, and units up to their end, the salt included.
EndOf(E, k) == IF k = 0 THEN 0 ELSE E[k]

Off(E, k) == 1 + EndOf(E, k) + 2 * k

\* No chunk is empty.
Increasing(E) ==
    /\ E \in Seq(Nat)
    /\ \A a, b \in 0..Len(E) : a <= b => EndOf(E, b) >= EndOf(E, a) + (b - a)

\* Chunk k of the payload P in the stream W.
ChunkIn(W, E, k, key, P) ==
    LET o == Off(E, k - 1)
        m == EndOf(E, k) - EndOf(E, k - 1)
    IN  /\ W[o + 1] = Unit("len", key, 2 * (k - 1), m)
        /\ \A i \in 1..m : W[o + 1 + i] = Unit("data", key, 2 * (k - 1) + 1, P[EndOf(E, k - 1) + i])
        /\ W[o + m + 2] = Unit("tag", key, 2 * (k - 1) + 1, m)

\* W is the salt z and the chunks of P that end at E, sealed with the password w.
Sealed(W, E, z, w, P) ==
    /\ Increasing(E)
    /\ IsSeq(W)
    /\ E = <<>> => W = <<>>
    /\ E # <<>> => /\ Len(W) = Off(E, Len(E))
                   /\ W[1] = SaltUnit(z)
                   /\ \A k \in 1..Len(E) : ChunkIn(W, E, k, <<w, z>>, P)

\* Units after the first a of W, up to the b-th.
Cut(W, a, b) == SubSeq(W, a + 1, b)

\* Payload after byte a of P, n bytes of it.
Part(P, a, n) == [i \in 1..n |-> P[a + i]]
\* Two adjacent cuts.
LEMMA CutJoin ==
    ASSUME NEW W, NEW a \in Nat, NEW b \in Nat, NEW d \in Nat, a <= b, b <= d
    PROVE  Cut(W, a, b) \o Cut(W, b, d) = Cut(W, a, d)
<1> DEFINE q == Cut(W, a, b)  r == Cut(W, b, d)  t == Cut(W, a, d)
<1>1. IsSeq(q) /\ Len(q) = b - a /\ \A i \in 1..(b - a) : q[i] = W[a + i]
  BY CutSeq DEF Cut
<1>2. IsSeq(r) /\ Len(r) = d - b /\ \A i \in 1..(d - b) : r[i] = W[b + i]
  BY CutSeq DEF Cut
<1>3. IsSeq(t) /\ Len(t) = d - a /\ \A i \in 1..(d - a) : t[i] = W[a + i]
  <2>1. a <= d
    OBVIOUS
  <2>2. QED BY <2>1, CutSeq DEF Cut
<1> HIDE DEF q, r, t
<1>4. /\ IsSeq(q \o r) /\ Len(q \o r) = Len(q) + Len(r)
      /\ \A i \in 1..Len(q) : (q \o r)[i] = q[i]
      /\ \A i \in 1..Len(r) : (q \o r)[Len(q) + i] = r[i]
  BY <1>1, <1>2, ConcatSeq
<1>5. Len(q \o r) = Len(t)
  BY <1>1, <1>2, <1>3, <1>4
<1>6. ASSUME NEW i \in 1..(d - a) PROVE (q \o r)[i] = t[i]
  <2> i <= b - a \/ i > b - a
    OBVIOUS
  <2>1. CASE i <= b - a
    <3>1. i \in 1..Len(q) /\ i \in 1..(b - a)
      BY <2>1, <1>1
    <3>2. QED BY <3>1, <1>1, <1>3, <1>4
  <2>2. CASE i > b - a
    <3>1. i - (b - a) \in 1..Len(r) /\ i - (b - a) \in 1..(d - b)
          /\ Len(q) + (i - (b - a)) = i /\ b + (i - (b - a)) = a + i
      BY <2>2, <1>1, <1>2
    <3>2. (q \o r)[i] = r[i - (b - a)]
      BY <3>1, <1>4
    <3>3. QED BY <3>1, <3>2, <1>2, <1>3
  <2>3. QED BY <2>1, <2>2
<1>7. QED BY <1>3, <1>4, <1>5, <1>6, SameSeq DEF q, r, t

\* A cut is not changed by what is written behind it.
LEMMA CutKept ==
    ASSUME NEW W, NEW B, IsSeq(W), IsSeq(B), NEW a \in Nat, NEW b \in Nat, a <= b, b <= Len(W)
    PROVE  Cut(W \o B, a, b) = Cut(W, a, b)
<1> DEFINE q == Cut(W, a, b)  r == Cut(W \o B, a, b)
<1>1. IsSeq(q) /\ Len(q) = b - a /\ \A i \in 1..(b - a) : q[i] = W[a + i]
  BY CutSeq DEF Cut
<1>2. IsSeq(r) /\ Len(r) = b - a /\ \A i \in 1..(b - a) : r[i] = (W \o B)[a + i]
  BY CutSeq DEF Cut
<1> HIDE DEF q, r
<1>3. \A i \in 1..Len(W) : (W \o B)[i] = W[i]
  BY ConcatSeq
<1>4. \A i \in 1..(b - a) : a + i \in 1..Len(W)
  BY DEF IsSeq
<1>5. \A i \in 1..Len(r) : r[i] = q[i]
  BY <1>1, <1>2, <1>3, <1>4
<1>6. QED BY <1>1, <1>2, <1>5, SameSeq DEF q, r

\* An empty and a full cut.
LEMMA CutEnds ==
    ASSUME NEW W, NEW a \in Nat
    PROVE  /\ Cut(W, a, a) = <<>>
           /\ \A b \in Nat : a < b => Cut(W, a, b) # <<>> /\ Cut(W, a, b)[1] = W[a + 1]
<1>1. Cut(W, a, a) = <<>>
  <2>1. a <= a /\ a - a = 0
    OBVIOUS
  <2>2. IsSeq(Cut(W, a, a)) /\ Len(Cut(W, a, a)) = 0
    BY <2>1, CutSeq DEF Cut
  <2>3. QED BY <2>2, EmptyIsSeq
<1>2. ASSUME NEW b \in Nat, a < b PROVE Cut(W, a, b) # <<>> /\ Cut(W, a, b)[1] = W[a + 1]
  <2>1. /\ Len(Cut(W, a, b)) = b - a
        /\ \A i \in 1..(b - a) : Cut(W, a, b)[i] = W[a + i]
    BY <1>2, CutSeq DEF Cut
  <2>2. 1 \in 1..(b - a) /\ b - a # 0
    BY <1>2
  <2>3. QED BY <2>1, <2>2, EmptyIsSeq
<1>3. QED BY <1>1, <1>2

\* A cut of a cut.
LEMMA CutOfCut ==
    ASSUME NEW W, NEW a \in Nat, NEW b \in Nat, a <= b, NEW x \in Nat, NEW y \in Nat, x <= y, y <= b - a
    PROVE  Cut(Cut(W, a, b), x, y) = Cut(W, a + x, a + y)
<1> DEFINE V == Cut(W, a, b)  q == Cut(V, x, y)  r == Cut(W, a + x, a + y)
<1>1. \A i \in 1..(b - a) : V[i] = W[a + i]
  BY CutSeq DEF Cut
<1>2. IsSeq(q) /\ Len(q) = y - x /\ \A i \in 1..(y - x) : q[i] = V[x + i]
  BY CutSeq DEF Cut
<1>3. a + x \in Nat /\ a + y \in Nat /\ a + x <= a + y /\ a + y - (a + x) = y - x
  OBVIOUS
<1> DEFINE e == a + x  f == a + y
<1> HIDE DEF V, q, r, e, f
<1>4. IsSeq(r) /\ Len(r) = f - e /\ \A i \in 1..(f - e) : r[i] = W[e + i]
  <2>1. e \in Nat /\ f \in Nat /\ e <= f
    BY <1>3 DEF e, f
  <2>2. r = SubSeq(W, e + 1, f)
    BY DEF r, e, f, Cut
  <2>3. QED BY <2>1, <2>2, CutSeq
<1> USE DEF e, f
<1>5. \A i \in 1..(y - x) : x + i \in 1..(b - a) /\ a + (x + i) = a + x + i
  OBVIOUS
<1>6. ASSUME NEW i \in 1..(y - x) PROVE q[i] = r[i]
  <2>1. q[i] = V[x + i]
    BY <1>2
  <2>2. V[x + i] = W[a + (x + i)]
    BY <1>1, <1>5
  <2>3. f - e = y - x /\ e + i = a + (x + i)
    BY <1>3
  <2>4. r[i] = W[e + i]
    BY <1>4, <2>3
  <2>5. QED BY <2>1, <2>2, <2>3, <2>4
<1>7. \A i \in 1..Len(q) : q[i] = r[i]
  BY <1>2, <1>6
<1>8. QED BY <1>2, <1>3, <1>4, <1>7, SameSeq DEF V, q, r

\* A part of the payload is a sequence, and adjacent parts join.
LEMMA PartSeq ==
    ASSUME NEW P, NEW a \in Nat, NEW n \in Nat
    PROVE  /\ IsSeq(Part(P, a, n)) /\ Len(Part(P, a, n)) = n
           /\ \A i \in 1..n : Part(P, a, n)[i] = P[a + i]
           /\ (Part(P, a, n) = <<>>) <=> (n = 0)
<1>1. Part(P, a, n) = [i \in 1..n |-> Part(P, a, n)[i]]
  BY DEF Part
<1>2. IsSeq(Part(P, a, n)) /\ Len(Part(P, a, n)) = n
  BY <1>1, FunctionSeq
<1>3. QED BY <1>2, EmptyIsSeq DEF Part

\* Two adjacent parts.
LEMMA PartJoin ==
    ASSUME NEW P, NEW a \in Nat, NEW m \in Nat, NEW n \in Nat
    PROVE  Part(P, a, m) \o Part(P, a + m, n) = Part(P, a, m + n)
<1> DEFINE q == Part(P, a, m)  r == Part(P, a + m, n)  t == Part(P, a, m + n)
<1>1. IsSeq(q) /\ Len(q) = m /\ \A i \in 1..m : q[i] = P[a + i]
  BY PartSeq
<1>0. a + m \in Nat /\ m + n \in Nat
  OBVIOUS
<1>2. IsSeq(r) /\ Len(r) = n /\ \A i \in 1..n : r[i] = P[a + m + i]
  BY <1>0, PartSeq
<1>3. IsSeq(t) /\ Len(t) = m + n /\ \A i \in 1..(m + n) : t[i] = P[a + i]
  BY <1>0, PartSeq
<1> HIDE DEF q, r, t
<1>4. /\ IsSeq(q \o r) /\ Len(q \o r) = m + n
      /\ \A i \in 1..m : (q \o r)[i] = q[i]
      /\ \A i \in 1..n : (q \o r)[m + i] = r[i]
  BY <1>1, <1>2, ConcatSeq, SMTT(30)
<1>5. ASSUME NEW i \in 1..(m + n) PROVE (q \o r)[i] = t[i]
  <2> i <= m \/ i > m
    OBVIOUS
  <2>1. CASE i <= m
    <3>1. i \in 1..m
      BY <2>1
    <3>2. QED BY <3>1, <1>1, <1>3, <1>4
  <2>2. CASE i > m
    <3>1. i - m \in 1..n /\ m + (i - m) = i /\ a + m + (i - m) = a + i
      BY <2>2
    <3>2. (q \o r)[i] = r[i - m]
      BY <3>1, <1>4
    <3>3. QED BY <3>1, <3>2, <1>2, <1>3
  <2>3. QED BY <2>1, <2>2
<1>6. QED BY <1>3, <1>4, <1>5, SameSeq DEF q, r, t

\* A chunk takes three units at least.
LEMMA Offsets ==
    ASSUME NEW E, Increasing(E)
    PROVE  /\ Len(E) \in Nat
           /\ \A k \in 0..Len(E) : EndOf(E, k) \in Nat /\ Off(E, k) \in Nat /\ Off(E, k) >= 1
           /\ \A a, b \in 0..Len(E) : a <= b => Off(E, b) >= Off(E, a) + 3 * (b - a)
           /\ EndOf(E, 0) = 0 /\ Off(E, 0) = 1
<1>1. Len(E) \in Nat /\ \A k \in 1..Len(E) : E[k] \in Nat
  BY LenProperties, ElementOfSeq DEF Increasing
<1>2. \A k \in 0..Len(E) : EndOf(E, k) \in Nat
  BY <1>1 DEF EndOf
<1>3. \A k \in 0..Len(E) : Off(E, k) \in Nat /\ Off(E, k) >= 1
  BY <1>1, <1>2 DEF Off
<1>4. ASSUME NEW a \in 0..Len(E), NEW b \in 0..Len(E), a <= b
      PROVE  Off(E, b) >= Off(E, a) + 3 * (b - a)
  <2>1. EndOf(E, b) >= EndOf(E, a) + (b - a)
    BY <1>4 DEF Increasing
  <2>2. EndOf(E, a) \in Nat /\ EndOf(E, b) \in Nat /\ a \in Nat /\ b \in Nat
    BY <1>1, <1>2
  <2>3. QED BY <2>1, <2>2 DEF Off
<1>5. EndOf(E, 0) = 0 /\ Off(E, 0) = 1
  BY DEF EndOf, Off
<1>6. QED BY <1>1, <1>2, <1>3, <1>4, <1>5
------------------------------------------------------------------------------
(* Contexts *)

IsContext(x) == x = [init |-> x.init, salt |-> x.salt, nonce |-> x.nonce, chunk |-> x.chunk]

\* A context with another buffer.
LEMMA ContextChunk ==
    ASSUME NEW x, IsContext(x), NEW e
    PROVE  [x EXCEPT !.chunk = e] = [init |-> x.init, salt |-> x.salt, nonce |-> x.nonce, chunk |-> e]
<1> DEFINE R == [init : {x.init, x.init}, salt : {x.salt, x.salt}, nonce : {x.nonce, x.nonce}, chunk : {x.chunk, e}]
           y == [x EXCEPT !.chunk = e]
<1>1. x \in R
  BY DEF IsContext
<1>2. y \in R
  BY <1>1
<1>3. y.init = x.init /\ y.salt = x.salt /\ y.nonce = x.nonce /\ y.chunk = e
  BY <1>1
<1> HIDE DEF y
<1>4. y = [init |-> y.init, salt |-> y.salt, nonce |-> y.nonce, chunk |-> y.chunk]
  BY <1>2
<1>5. y = [init |-> x.init, salt |-> x.salt, nonce |-> x.nonce, chunk |-> e]
  BY <1>3, <1>4
<1>6. QED BY <1>5 DEF y

\* A context that has accepted its salt.
LEMMA ContextInit ==
    ASSUME NEW x, IsContext(x), NEW a
    PROVE  [x EXCEPT !.init = a] = [init |-> a, salt |-> x.salt, nonce |-> x.nonce, chunk |-> x.chunk]
<1> DEFINE R == [init : {x.init, a}, salt : {x.salt, x.salt}, nonce : {x.nonce, x.nonce}, chunk : {x.chunk, x.chunk}]
           y == [x EXCEPT !.init = a]
<1>1. x \in R
  BY DEF IsContext
<1>2. y \in R
  BY <1>1
<1>3. y.init = a /\ y.salt = x.salt /\ y.nonce = x.nonce /\ y.chunk = x.chunk
  BY <1>1
<1> HIDE DEF y
<1>4. y = [init |-> y.init, salt |-> y.salt, nonce |-> y.nonce, chunk |-> y.chunk]
  BY <1>2
<1>5. y = [init |-> a, salt |-> x.salt, nonce |-> x.nonce, chunk |-> x.chunk]
  BY <1>3, <1>4
<1>6. QED BY <1>5 DEF y

\* A context after a chunk was sealed.
LEMMA ContextSealed ==
    ASSUME NEW x, IsContext(x), NEW a, NEW b
    PROVE  [x EXCEPT !.init = a, !.nonce = b] = [init |-> a, salt |-> x.salt, nonce |-> b, chunk |-> x.chunk]
<1> DEFINE R == [init : {x.init, a}, salt : {x.salt, x.salt}, nonce : {x.nonce, b}, chunk : {x.chunk, x.chunk}]
           y == [x EXCEPT !.init = a, !.nonce = b]
<1>1. x \in R
  BY DEF IsContext
<1>2. y \in R
  BY <1>1
<1>3. y.init = a /\ y.salt = x.salt /\ y.nonce = b /\ y.chunk = x.chunk
  BY <1>1
<1> HIDE DEF y
<1>4. y = [init |-> y.init, salt |-> y.salt, nonce |-> y.nonce, chunk |-> y.chunk]
  BY <1>2
<1>5. y = [init |-> a, salt |-> x.salt, nonce |-> b, chunk |-> x.chunk]
  BY <1>3, <1>4
<1>6. QED BY <1>5 DEF y

\* A context after a chunk was opened.
LEMMA ContextOpened ==
    ASSUME NEW x, IsContext(x), NEW b, NEW e
    PROVE  [x EXCEPT !.nonce = b, !.chunk = e] = [init |-> x.init, salt |-> x.salt, nonce |-> b, chunk |-> e]
<1> DEFINE R == [init : {x.init, x.init}, salt : {x.salt, x.salt}, nonce : {x.nonce, b}, chunk : {x.chunk, e}]
           y == [x EXCEPT !.nonce = b, !.chunk = e]
<1>1. x \in R
  BY DEF IsContext
<1>2. y \in R
  BY <1>1
<1>3. y.init = x.init /\ y.salt = x.salt /\ y.nonce = b /\ y.chunk = e
  BY <1>1
<1> HIDE DEF y
<1>4. y = [init |-> y.init, salt |-> y.salt, nonce |-> y.nonce, chunk |-> y.chunk]
  BY <1>2
<1>5. y = [init |-> x.init, salt |-> x.salt, nonce |-> b, chunk |-> e]
  BY <1>3, <1>4
<1>6. QED BY <1>5 DEF y

------------------------------------------------------------------------------
(* Sealing *)

\* aead_chunk_encrypt: a length block, the payload and its tag.
LEMMA ChunkEncrypted ==
    ASSUME NEW key, NEW nonce, NEW p, IsSeq(p)
    PROVE  LET B == aead_chunk_encrypt(key, nonce, p)
           IN  /\ IsSeq(B) /\ Len(B) = Len(p) + 2
               /\ B[1] = Unit("len", key, nonce, Len(p))
               /\ \A i \in 1..Len(p) : B[1 + i] = Unit("data", key, nonce + 1, p[i])
               /\ B[Len(p) + 2] = Unit("tag", key, nonce + 1, Len(p))
<1> DEFINE m == Len(p)
           h == <<Unit("len", key, nonce, m)>>
           d == [i \in DOMAIN p |-> Unit("data", key, nonce + 1, p[i])]
           t == <<Unit("tag", key, nonce + 1, m)>>
<1>1. m \in Nat /\ DOMAIN p = 1..m
  BY SeqOfValues DEF IsSeq
<1>2. d = [i \in 1..m |-> d[i]] /\ \A i \in 1..m : d[i] = Unit("data", key, nonce + 1, p[i])
  BY <1>1
<1>3. aead_chunk_encrypt(key, nonce, p) = (h \o d) \o t
  BY DEF aead_chunk_encrypt
<1>4. IsSeq(h) /\ Len(h) = 1 /\ h[1] = Unit("len", key, nonce, m)
  BY SingleIsSeq
<1>5. IsSeq(t) /\ Len(t) = 1 /\ t[1] = Unit("tag", key, nonce + 1, m)
  BY SingleIsSeq
<1> HIDE DEF m, h, d, t
<1>6. IsSeq(d) /\ Len(d) = m
  BY <1>1, <1>2, FunctionSeq
<1>7. /\ IsSeq(h \o d) /\ Len(h \o d) = 1 + m
      /\ (h \o d)[1] = h[1]
      /\ \A i \in 1..m : (h \o d)[1 + i] = d[i]
  <2>1. /\ IsSeq(h \o d) /\ Len(h \o d) = Len(h) + Len(d)
        /\ \A i \in 1..Len(h) : (h \o d)[i] = h[i]
        /\ \A i \in 1..Len(d) : (h \o d)[Len(h) + i] = d[i]
    <3>1. IsSeq(h) /\ IsSeq(d)
      BY <1>4, <1>6
    <3>2. QED BY <3>1, ConcatSeq
  <2>2. 1 \in 1..Len(h)
    BY <1>4
  <2>3. QED BY <2>1, <2>2, <1>4, <1>6
<1>8. /\ IsSeq((h \o d) \o t) /\ Len((h \o d) \o t) = 1 + m + 1
      /\ \A i \in 1..(1 + m) : ((h \o d) \o t)[i] = (h \o d)[i]
      /\ ((h \o d) \o t)[1 + m + 1] = t[1]
  <2> DEFINE q == h \o d
  <2>0. IsSeq(q) /\ Len(q) = 1 + m
    BY <1>7
  <2> HIDE DEF q
  <2>1. /\ IsSeq(q \o t) /\ Len(q \o t) = Len(q) + Len(t)
        /\ \A i \in 1..Len(q) : (q \o t)[i] = q[i]
        /\ \A i \in 1..Len(t) : (q \o t)[Len(q) + i] = t[i]
    <3>1. IsSeq(q) /\ IsSeq(t)
      BY <1>5, <2>0
    <3>2. QED BY <3>1, ConcatSeq
  <2>2. 1 \in 1..Len(t)
    BY <1>5
  <2>3. /\ IsSeq(q \o t) /\ Len(q \o t) = 1 + m + 1
        /\ \A i \in 1..(1 + m) : (q \o t)[i] = q[i]
        /\ (q \o t)[1 + m + 1] = t[1]
    BY <2>0, <2>1, <2>2, <1>5
  <2>4. QED BY <2>3 DEF q
<1>9. 1 \in 1..(1 + m) /\ 1 + m + 1 = m + 2 /\ \A i \in 1..m : 1 + i \in 1..(1 + m)
  BY <1>1
<1>10. ((h \o d) \o t)[1] = Unit("len", key, nonce, m)
  <2>1. ((h \o d) \o t)[1] = (h \o d)[1]
    BY <1>8, <1>9
  <2>2. QED BY <2>1, <1>4, <1>7
<1>11. \A i \in 1..m : ((h \o d) \o t)[1 + i] = Unit("data", key, nonce + 1, p[i])
  BY <1>2, <1>7, <1>8, <1>9
<1>12. ((h \o d) \o t)[m + 2] = Unit("tag", key, nonce + 1, m)
  BY <1>5, <1>8, <1>9
<1>13. QED BY <1>3, <1>8, <1>9, <1>10, <1>11, <1>12 DEF m

\* The ends of the chunks after another one of n bytes.
LEMMA EndsAppend ==
    ASSUME NEW E, Increasing(E), NEW n \in Nat \ {0}
    PROVE  LET T == EndOf(E, Len(E))
               F == Append(E, T + n)
           IN  /\ Increasing(F) /\ Len(F) = Len(E) + 1 /\ F # <<>>
               /\ \A k \in 0..Len(E) : EndOf(F, k) = EndOf(E, k) /\ Off(F, k) = Off(E, k)
               /\ EndOf(F, Len(E) + 1) = T + n
               /\ Off(F, Len(E) + 1) = Off(E, Len(E)) + n + 2
<1> DEFINE L == Len(E)
           T == EndOf(E, L)
           F == Append(E, T + n)
<1>1. L \in Nat /\ (\A k \in 0..L : EndOf(E, k) \in Nat /\ Off(E, k) \in Nat) /\ E \in Seq(Nat)
  BY Offsets DEF Increasing
<1>2. T \in Nat /\ T + n \in Nat
  BY <1>1
<1> HIDE DEF L, T
<1>3. F \in Seq(Nat) /\ Len(F) = L + 1 /\ F[L + 1] = T + n /\ \A k \in 1..L : F[k] = E[k]
  BY <1>1, <1>2, AppendProperties DEF L
<1> HIDE DEF F
<1>4. \A k \in 0..L : EndOf(F, k) = EndOf(E, k)
  <2> SUFFICES ASSUME NEW k \in 0..L PROVE EndOf(F, k) = EndOf(E, k)
    OBVIOUS
  <2>1. k = 0 \/ k \in 1..L
    BY <1>1
  <2>2. QED BY <2>1, <1>3 DEF EndOf
<1>5. EndOf(F, L + 1) = T + n
  BY <1>1, <1>3 DEF EndOf
<1>6. \A k \in 0..L : Off(F, k) = Off(E, k)
  BY <1>4 DEF Off
<1>7. Off(F, L + 1) = Off(E, L) + n + 2
  <2>1. L \in 0..L /\ EndOf(E, L) \in Nat
    BY <1>1
  <2>2. EndOf(F, L + 1) = EndOf(E, L) + n
    BY <1>5 DEF T
  <2>3. QED BY <1>1, <2>1, <2>2, SMTT(30) DEF Off
<1>8. ASSUME NEW a \in 0..(L + 1), NEW b \in 0..(L + 1), a <= b
      PROVE  EndOf(F, b) >= EndOf(F, a) + (b - a)
  <2>1. CASE b <= L
    <3>1. a \in 0..L /\ b \in 0..L
      BY <2>1, <1>1, <1>8
    <3>2. EndOf(E, b) >= EndOf(E, a) + (b - a)
      BY <3>1, <1>8 DEF Increasing, L
    <3>3. QED BY <3>1, <3>2, <1>4
  <2>2. CASE b = L + 1 /\ a <= L
    <3>1. a \in 0..L /\ L \in 0..L
      BY <2>2, <1>1
    <3>2. EndOf(E, L) >= EndOf(E, a) + (L - a)
      BY <3>1, <2>2 DEF Increasing, L
    <3>3. QED BY <3>1, <3>2, <2>2, <1>1, <1>2, <1>4, <1>5, SMTT(30) DEF T
  <2>3. CASE a = L + 1 /\ b = L + 1
    BY <2>3, <1>1, <1>2, <1>5
  <2>4. QED BY <2>1, <2>2, <2>3, <1>1, <1>8
<1>9. Increasing(F)
  BY <1>3, <1>8 DEF Increasing
<1>10. F # <<>>
  BY <1>1, <1>3, EmptySeq
<1>11. QED BY <1>3, <1>4, <1>5, <1>6, <1>7, <1>9, <1>10 DEF F, T, L

\* aead_encrypt adds one chunk to a sealed stream, behind the salt if it is the
\* first, and takes two nonces.
LEMMA SealMore ==
    ASSUME NEW W, NEW E, NEW z, NEW w, NEW P, Sealed(W, E, z, w, P), NEW f, NEW n \in Nat \ {0},
           NEW x, x = [init |-> IF E = <<>> THEN 0 ELSE 1, salt |-> z, nonce |-> 2 * Len(E),
                       chunk |-> <<>>]
    PROVE  LET T == EndOf(E, Len(E))
               F == Append(E, T + n)
               r == aead_encrypt(Part(P, T, n), w, x, f)
           IN  /\ Sealed(W \o r.buf, F, z, w, P) /\ IsSeq(r.buf)
               /\ r.ctx = [init |-> 1, salt |-> z, nonce |-> 2 * Len(F), chunk |-> <<>>]
               /\ r.pp = IF E = <<>> THEN ppbloom_add(f, z) ELSE f
<1> DEFINE L == Len(E)
           T == EndOf(E, L)
           F == Append(E, T + n)
           p == Part(P, T, n)
           key == <<w, z>>
           B == aead_chunk_encrypt(key, 2 * L, p)
           pre == IF E = <<>> THEN <<SaltUnit(z)>> ELSE <<>>
           r == aead_encrypt(p, w, x, f)
           V == W \o pre
           O == Off(E, L)
<1>1. /\ Increasing(E) /\ L \in Nat /\ L \in 0..L /\ O \in Nat /\ O >= 1 /\ T \in Nat
      /\ IsSeq(W) /\ E \in Seq(Nat)
  <2>1. Increasing(E) /\ IsSeq(W)
    BY DEF Sealed
  <2>2. L \in Nat /\ \A k \in 0..L : EndOf(E, k) \in Nat /\ Off(E, k) \in Nat /\ Off(E, k) >= 1
    BY <2>1, Offsets
  <2>3. L \in 0..L
    BY <2>2
  <2>4. E \in Seq(Nat)
    BY <2>1 DEF Increasing
  <2>5. QED BY <2>1, <2>2, <2>3, <2>4
<1>2. /\ Increasing(F) /\ Len(F) = L + 1 /\ F # <<>>
      /\ \A k \in 0..L : EndOf(F, k) = EndOf(E, k) /\ Off(F, k) = Off(E, k)
      /\ EndOf(F, L + 1) = T + n /\ Off(F, L + 1) = O + n + 2
  BY <1>1, EndsAppend
<1>3. IsSeq(p) /\ Len(p) = n /\ p # <<>> /\ \A i \in 1..n : p[i] = P[T + i]
  BY <1>1, PartSeq
<1>4. /\ IsSeq(B) /\ Len(B) = n + 2
      /\ B[1] = Unit("len", key, 2 * L, n)
      /\ \A i \in 1..n : B[1 + i] = Unit("data", key, 2 * L + 1, P[T + i])
      /\ B[n + 2] = Unit("tag", key, 2 * L + 1, n)
  <2>1. IsSeq(p)
    BY <1>3
  <2> HIDE DEF p, key
  <2>2. LET C == aead_chunk_encrypt(key, 2 * L, p)
        IN  /\ IsSeq(C) /\ Len(C) = Len(p) + 2
            /\ C[1] = Unit("len", key, 2 * L, Len(p))
            /\ \A i \in 1..Len(p) : C[1 + i] = Unit("data", key, 2 * L + 1, p[i])
            /\ C[Len(p) + 2] = Unit("tag", key, 2 * L + 1, Len(p))
    BY <2>1, ChunkEncrypted
  <2> HIDE DEF B
  <2>3. /\ IsSeq(B) /\ Len(B) = Len(p) + 2
        /\ B[1] = Unit("len", key, 2 * L, Len(p))
        /\ \A i \in 1..Len(p) : B[1 + i] = Unit("data", key, 2 * L + 1, p[i])
        /\ B[Len(p) + 2] = Unit("tag", key, 2 * L + 1, Len(p))
    BY <2>2 DEF B
  <2>4. QED BY <2>3, <1>3
<1>5. (E = <<>>) <=> (L = 0)
  BY <1>1, EmptySeq
<1>6. /\ r.buf = pre \o B
      /\ r.ctx = [init |-> 1, salt |-> z, nonce |-> 2 * Len(F), chunk |-> <<>>]
      /\ r.pp = IF E = <<>> THEN ppbloom_add(f, z) ELSE f
  <2>1. x.init = (IF E = <<>> THEN 0 ELSE 1) /\ x.salt = z /\ x.nonce = 2 * L
    OBVIOUS
  <2>2. (x.init = 0) <=> (E = <<>>)
    BY <2>1
  <2>3. [x EXCEPT !.init = 1, !.nonce = @ + 2]
            = [init |-> 1, salt |-> z, nonce |-> 2 * L + 2, chunk |-> <<>>]
    <3>1. IsContext(x)
      BY DEF IsContext
    <3>0. x.chunk = <<>>
      OBVIOUS
    <3> DEFINE b == x.nonce + 2
    <3> HIDE DEF b
    <3>2. [x EXCEPT !.init = 1, !.nonce = b]
              = [init |-> 1, salt |-> x.salt, nonce |-> b, chunk |-> x.chunk]
      BY <3>1, ContextSealed, Zenon
    <3>3. QED BY <3>0, <3>2, <2>1 DEF b
  <2>4. 2 * L + 2 = 2 * Len(F)
    BY <1>1, <1>2
  <2> HIDE DEF L, F, p
  <2>5. r = [buf |-> pre \o B, ctx |-> [x EXCEPT !.init = 1, !.nonce = @ + 2],
             pp |-> IF E = <<>> THEN ppbloom_add(f, z) ELSE f]
    BY <2>1, <2>2, <1>3 DEF aead_encrypt
  <2>6. QED BY <2>3, <2>4, <2>5
<1>7. IsSeq(pre)
  BY SingleIsSeq, EmptyIsSeq
<1>8. IsSeq(V) /\ Len(V) = O /\ V[1] = SaltUnit(z) /\ \A k \in 1..L : ChunkIn(V, E, k, key, P)
  <2>1. CASE E = <<>>
    <3>1. W = <<>> /\ V = <<SaltUnit(z)>>
      <4>1. W = <<>> /\ pre = <<SaltUnit(z)>>
        BY <2>1 DEF Sealed
      <4>2. <<SaltUnit(z)>> \in Seq({SaltUnit(z)})
        OBVIOUS
      <4>3. QED BY <4>1, <4>2, ConcatEmptySeq
    <3>2. O = 1 /\ L = 0
      BY <2>1, <1>5, Offsets DEF Sealed
    <3>3. 1..L = {}
      BY <3>2
    <3>4. QED BY <3>1, <3>2, <3>3, SingleIsSeq
  <2>2. CASE E # <<>>
    <3>1. V = W
      <4>1. pre = <<>>
        BY <2>2
      <4>2. W \in Seq(Values(W))
        BY <1>1, SeqOfValues
      <4>3. QED BY <4>1, <4>2, ConcatEmptySeq
    <3>2. QED BY <3>1, <2>2, <1>1 DEF Sealed
  <2>3. QED BY <2>1, <2>2
<1>9. W \o r.buf = V \o B
  <2> DEFINE S == Values(W) \cup Values(pre) \cup Values(B)
  <2>1. W \in Seq(S) /\ pre \in Seq(S) /\ B \in Seq(S)
    <3>1. W \in Seq(Values(W)) /\ pre \in Seq(Values(pre)) /\ B \in Seq(Values(B))
      BY <1>1, <1>4, <1>7, SeqOfValues
    <3>2. Values(W) \subseteq S /\ Values(pre) \subseteq S /\ Values(B) \subseteq S
      OBVIOUS
    <3> HIDE DEF S, pre, B
    <3>3. QED BY <3>1, <3>2, SeqMonotonic
  <2>2. (W \o pre) \o B = W \o (pre \o B)
    <3> HIDE DEF S, pre, B
    <3>1. QED BY <2>1, ConcatAssociative
  <2>3. QED BY <2>2, <1>6
<1> DEFINE U == V \o B
<1>10. IsSeq(r.buf)
  <2>1. IsSeq(pre) /\ IsSeq(B)
    BY <1>4, <1>7
  <2>2. IsSeq(pre \o B)
    BY <2>1, ConcatSeq
  <2>3. QED BY <2>2, <1>6
<1> HIDE DEF L, T, F, p, key, B, pre, r, V, O
<1>11. /\ IsSeq(U) /\ Len(U) = O + n + 2
       /\ \A i \in 1..O : U[i] = V[i]
       /\ \A i \in 1..(n + 2) : U[O + i] = B[i]
  <2>1. IsSeq(V) /\ IsSeq(B)
    BY <1>4, <1>8
  <2>2. /\ IsSeq(V \o B) /\ Len(V \o B) = Len(V) + Len(B)
        /\ \A i \in 1..Len(V) : (V \o B)[i] = V[i]
        /\ \A i \in 1..Len(B) : (V \o B)[Len(V) + i] = B[i]
    BY <2>1, ConcatSeq
  <2>3. Len(V) = O /\ Len(B) = n + 2 /\ O + (n + 2) = O + n + 2
    BY <1>1, <1>4, <1>8
  <2>4. QED BY <2>2, <2>3
<1> HIDE DEF U
<1>12. U[1] = SaltUnit(z)
  <2>1. 1 \in 1..O
    BY <1>1
  <2>2. QED BY <2>1, <1>8, <1>11
<1>13. ASSUME NEW k \in 1..L PROVE ChunkIn(U, F, k, key, P)
  <2> DEFINE o == Off(E, k - 1)
             m == EndOf(E, k) - EndOf(E, k - 1)
  <2>1. k - 1 \in 0..L /\ k \in 0..L /\ L \in 0..L
    BY <1>1
  <2>2. EndOf(F, k) = EndOf(E, k) /\ EndOf(F, k - 1) = EndOf(E, k - 1) /\ Off(F, k - 1) = o
    BY <2>1, <1>2
  <2>3. o \in Nat /\ m \in Nat /\ o + m + 2 <= O /\ o + m + 2 \in Nat
    <3>1. /\ EndOf(E, k) \in Nat /\ EndOf(E, k - 1) \in Nat /\ EndOf(E, L) \in Nat
          /\ EndOf(E, k) >= EndOf(E, k - 1) + (k - (k - 1))
          /\ EndOf(E, L) >= EndOf(E, k) + (L - k)
      <4>1. \A j \in 0..L : EndOf(E, j) \in Nat
        BY <1>1, Offsets DEF L
      <4>2. \A a, b \in 0..L : a <= b => EndOf(E, b) >= EndOf(E, a) + (b - a)
        BY <1>1 DEF Increasing, L
      <4>3. k - 1 <= k /\ k <= L
        BY <2>1, <1>1
      <4>4. QED BY <4>1, <4>2, <4>3, <2>1
    <3>2. o = 1 + EndOf(E, k - 1) + 2 * (k - 1) /\ O = 1 + EndOf(E, L) + 2 * L
      BY DEF Off, O
    <3> DEFINE ek == EndOf(E, k)  ej == EndOf(E, k - 1)  el == EndOf(E, L)
    <3> HIDE DEF ek, ej, el
    <3>3. /\ ek \in Nat /\ ej \in Nat /\ el \in Nat /\ ek >= ej + 1 /\ el >= ek + (L - k)
          /\ o = 1 + ej + 2 * (k - 1) /\ O = 1 + el + 2 * L /\ m = ek - ej
      BY <3>1, <3>2 DEF ek, ej, el
    <3> HIDE DEF o, m
    <3>4. k \in Nat /\ k >= 1 /\ k <= L
      BY <1>1
    <3>5. QED BY <3>3, <3>4, <1>1
  <2>4. ChunkIn(V, E, k, key, P)
    BY <1>8
  <2>5. /\ V[o + 1] = Unit("len", key, 2 * (k - 1), m)
        /\ \A i \in 1..m : V[o + 1 + i] = Unit("data", key, 2 * (k - 1) + 1, P[EndOf(E, k - 1) + i])
        /\ V[o + m + 2] = Unit("tag", key, 2 * (k - 1) + 1, m)
    BY <2>4 DEF ChunkIn
  <2> HIDE DEF o, m
  <2>6. o + 1 \in 1..O /\ o + m + 2 \in 1..O /\ \A i \in 1..m : o + 1 + i \in 1..O
    BY <2>3, <1>1
  <2>7. /\ U[o + 1] = V[o + 1] /\ U[o + m + 2] = V[o + m + 2]
        /\ \A i \in 1..m : U[o + 1 + i] = V[o + 1 + i]
    BY <2>6, <1>11
  <2>8. /\ U[o + 1] = Unit("len", key, 2 * (k - 1), m)
        /\ \A i \in 1..m : U[o + 1 + i] = Unit("data", key, 2 * (k - 1) + 1, P[EndOf(E, k - 1) + i])
        /\ U[o + m + 2] = Unit("tag", key, 2 * (k - 1) + 1, m)
    BY <2>5, <2>7
  <2>9. m = EndOf(F, k) - EndOf(F, k - 1)
    BY <2>2 DEF m
  <2>10. QED BY <2>2, <2>8, <2>9 DEF ChunkIn
<1>14. ChunkIn(U, F, L + 1, key, P)
  <2>1. /\ L + 1 - 1 = L /\ L \in 0..L /\ Off(F, L) = O /\ EndOf(F, L) = T
        /\ EndOf(F, L + 1) - EndOf(F, L) = n
    BY <1>1, <1>2 DEF O, T
  <2>2. 1 \in 1..(n + 2) /\ n + 2 \in 1..(n + 2) /\ (\A i \in 1..n : 1 + i \in 1..(n + 2))
        /\ O + n + 2 = O + (n + 2) /\ \A i \in 1..n : O + 1 + i = O + (1 + i)
    BY <1>1
  <2>3. /\ U[O + 1] = Unit("len", key, 2 * L, n)
        /\ \A i \in 1..n : U[O + 1 + i] = Unit("data", key, 2 * L + 1, P[T + i])
        /\ U[O + n + 2] = Unit("tag", key, 2 * L + 1, n)
    BY <2>2, <1>4, <1>11
  <2>4. QED BY <2>1, <2>3 DEF ChunkIn
<1>15. \A k \in 1..(L + 1) : ChunkIn(U, F, k, key, P)
  <2>1. \A k \in 1..(L + 1) : k \in 1..L \/ k = L + 1
    BY <1>1
  <2>2. QED BY <2>1, <1>13, <1>14
<1>16. Len(U) = Off(F, Len(F))
  BY <1>2, <1>11
<1>17. Sealed(U, F, z, w, P)
  <2>1. \A k \in 1..Len(F) : ChunkIn(U, F, k, <<w, z>>, P)
    BY <1>2, <1>15 DEF key
  <2>2. QED BY <2>1, <1>2, <1>11, <1>12, <1>16 DEF Sealed
<1>18. Sealed(W \o r.buf, F, z, w, P)
  BY <1>9, <1>17 DEF U
<1>19. QED BY <1>6, <1>10, <1>18 DEF r, p, F, T, L
------------------------------------------------------------------------------
(* Opening *)

\* A buffer that starts behind chunk j, at unit o of the stream and byte e of the
\* payload, holds units of chunk j + 1, which has m bytes, up to unit g.
ChunkAhead(ch, o, e, m, key, j, g, P) ==
    /\ j \in Nat /\ o \in Nat /\ e \in Nat /\ m \in Nat \ {0}
    /\ IsSeq(ch) /\ Len(ch) = g - o
    /\ ch[1] = Unit("len", key, 2 * j, m)
    /\ \A i \in 1..m : i + 1 <= g - o => ch[1 + i] = Unit("data", key, 2 * j + 1, P[e + i])
    /\ m + 2 <= g - o => ch[m + 2] = Unit("tag", key, 2 * j + 1, m)

\* The shape of chunk j + 1, seen from a buffer that starts behind chunk j.
LEMMA NextChunk ==
    ASSUME NEW W, NEW E, NEW z, NEW w, NEW P, Sealed(W, E, z, w, P),
           NEW j \in 0..Len(E), NEW g \in Nat, Off(E, j) < g, g <= Len(W),
           NEW ch, ch = Cut(W, Off(E, j), g)
    PROVE  \E m : /\ m = EndOf(E, j + 1) - EndOf(E, j) /\ j + 1 \in 1..Len(E)
                  /\ Off(E, j + 1) = Off(E, j) + m + 2 /\ EndOf(E, j + 1) = EndOf(E, j) + m
                  /\ ChunkAhead(ch, Off(E, j), EndOf(E, j), m, <<w, z>>, j, g, P)
<1> DEFINE o == Off(E, j)
           e == EndOf(E, j)
           m == EndOf(E, j + 1) - e
           key == <<w, z>>
<1>1. Increasing(E) /\ IsSeq(W)
  BY DEF Sealed
<1>2. /\ Len(E) \in Nat
      /\ \A k \in 0..Len(E) : EndOf(E, k) \in Nat /\ Off(E, k) \in Nat /\ Off(E, k) >= 1
      /\ EndOf(E, 0) = 0 /\ Off(E, 0) = 1
  BY <1>1, Offsets
<1>3. E # <<>>
  <2>1. SUFFICES ASSUME E = <<>> PROVE FALSE
    OBVIOUS
  <2>2. W = <<>> /\ Len(W) = 0
    BY <2>1, EmptyIsSeq DEF Sealed
  <2>3. QED BY <2>2, <1>2
<1>4. Len(W) = Off(E, Len(E)) /\ \A k \in 1..Len(E) : ChunkIn(W, E, k, key, P)
  BY <1>3 DEF Sealed
<1>5. j # Len(E)
  BY <1>4, <1>2
<1>6. j \in Nat /\ j + 1 \in 1..Len(E) /\ j + 1 \in 0..Len(E) /\ j <= j + 1 /\ j + 1 - 1 = j /\ j + 1 - j = 1
  BY <1>2, <1>5
<1>7. EndOf(E, j + 1) >= e + 1
  <2>1. \A a, b \in 0..Len(E) : a <= b => EndOf(E, b) >= EndOf(E, a) + (b - a)
    BY <1>1 DEF Increasing
  <2>2. QED BY <2>1, <1>6
<1>8. o \in Nat /\ e \in Nat /\ EndOf(E, j + 1) \in Nat
  BY <1>2, <1>6
<1>9. m \in Nat \ {0} /\ EndOf(E, j + 1) = e + m
  BY <1>7, <1>8
<1>10. Off(E, j + 1) = o + m + 2
  <2>1. Off(E, j + 1) = 1 + EndOf(E, j + 1) + 2 * (j + 1) /\ o = 1 + e + 2 * j
    BY DEF Off
  <2> HIDE DEF o, e, m
  <2>2. QED BY <2>1, <1>6, <1>8, <1>9
<1>11. ChunkIn(W, E, j + 1, key, P)
  BY <1>4, <1>6
<1>12. /\ W[o + 1] = Unit("len", key, 2 * j, m)
       /\ \A i \in 1..m : W[o + 1 + i] = Unit("data", key, 2 * j + 1, P[e + i])
       /\ W[o + m + 2] = Unit("tag", key, 2 * j + 1, m)
  BY <1>6, <1>11 DEF ChunkIn
<1>13. IsSeq(ch) /\ Len(ch) = g - o /\ \A i \in 1..(g - o) : ch[i] = W[o + i]
  <2>1. o <= g
    BY <1>8
  <2>2. QED BY <2>1, <1>8, CutSeq DEF Cut
<1> HIDE DEF o, e, m, key
<1>14. ch[1] = Unit("len", key, 2 * j, m)
  <2>1. 1 \in 1..(g - o)
    BY <1>8 DEF o
  <2>2. QED BY <2>1, <1>12, <1>13
<1>15. \A i \in 1..m : i + 1 <= g - o => ch[1 + i] = Unit("data", key, 2 * j + 1, P[e + i])
  <2> SUFFICES ASSUME NEW i \in 1..m, i + 1 <= g - o
               PROVE  ch[1 + i] = Unit("data", key, 2 * j + 1, P[e + i])
    OBVIOUS
  <2>1. 1 + i \in 1..(g - o) /\ o + (1 + i) = o + 1 + i
    BY <1>8, <1>9
  <2>2. QED BY <2>1, <1>12, <1>13
<1>16. m + 2 <= g - o => ch[m + 2] = Unit("tag", key, 2 * j + 1, m)
  <2> SUFFICES ASSUME m + 2 <= g - o PROVE ch[m + 2] = Unit("tag", key, 2 * j + 1, m)
    OBVIOUS
  <2>1. m + 2 \in 1..(g - o) /\ o + (m + 2) = o + m + 2
    BY <1>8, <1>9
  <2>2. QED BY <2>1, <1>12, <1>13
<1>17. ChunkAhead(ch, o, e, m, key, j, g, P)
  BY <1>6, <1>8, <1>9, <1>13, <1>14, <1>15, <1>16 DEF ChunkAhead
<1>18. m = EndOf(E, j + 1) - EndOf(E, j)
  BY DEF m, e
<1> HIDE DEF ChunkAhead
<1>19. QED BY <1>6, <1>9, <1>10, <1>17, <1>18 DEF o, e, key

\* A context that stands behind chunk j of a stream of which g units arrived.
Stands(x, W, E, z, j, g) ==
    IsContext(x) /\ x.salt = z /\ x.nonce = 2 * j /\ x.chunk = Cut(W, Off(E, j), g)

\* aead_chunk_decrypt with the right password opens a chunk that is all there
\* and waits for the rest of any other.
LEMMA OpenChunk ==
    ASSUME NEW W, NEW E, NEW z, NEW P, Sealed(W, E, z, Password, P),
           NEW j \in 0..Len(E), NEW g \in Nat, Off(E, j) < g, g <= Len(W),
           NEW x, Stands(x, W, E, z, j, g)
    PROVE  LET r == aead_chunk_decrypt(x)
           IN  /\ j + 1 \in 1..Len(E)
               /\ Off(E, j + 1) <= g =>
                      /\ r.err = "OK" /\ Stands(r.ctx, W, E, z, j + 1, g) /\ r.ctx.init = x.init
                      /\ r.p = Part(P, EndOf(E, j), EndOf(E, j + 1) - EndOf(E, j))
                      /\ r = [err |-> r.err, ctx |-> r.ctx, p |-> r.p]
               /\ g < Off(E, j + 1) => r = [err |-> "NEED_MORE", ctx |-> x, p |-> <<>>]
<1> DEFINE o == Off(E, j)
           e == EndOf(E, j)
           m == EndOf(E, j + 1) - e
           key == <<Password, z>>
           ch == x.chunk
           payload == SubSeq(ch, 2, 1 + m)
           vals == [i \in 1..m |-> payload[i].val]
           r == aead_chunk_decrypt(x)
<1>1. /\ IsContext(x) /\ x.salt = z /\ x.nonce = 2 * j /\ ch = Cut(W, o, g)
  BY DEF Stands
<1>2. /\ j + 1 \in 1..Len(E) /\ o \in Nat /\ e \in Nat /\ m \in Nat \ {0}
      /\ Off(E, j + 1) = o + m + 2 /\ EndOf(E, j + 1) = e + m
      /\ IsSeq(ch) /\ Len(ch) = g - o
      /\ ch[1] = Unit("len", key, 2 * j, m)
      /\ \A i \in 1..m : i + 1 <= g - o => ch[1 + i] = Unit("data", key, 2 * j + 1, P[e + i])
      /\ m + 2 <= g - o => ch[m + 2] = Unit("tag", key, 2 * j + 1, m)
  <2> HIDE DEF ch, r, vals, payload
  <2>1. /\ j + 1 \in 1..Len(E) /\ Off(E, j + 1) = o + m + 2 /\ EndOf(E, j + 1) = e + m
        /\ ChunkAhead(ch, o, e, m, key, j, g, P)
    BY <1>1, NextChunk
  <2> HIDE DEF o, e, m, key
  <2>2. QED BY <2>1 DEF ChunkAhead
<1>3. ch[1].val = m
  BY <1>2 DEF Unit
<1>4. r = IF Len(ch) <= 2 THEN [err |-> "NEED_MORE", ctx |-> x, p |-> <<>>]
          ELSE IF ch[1] # Unit("len", key, 2 * j, m) \/ m = 0
          THEN [err |-> "ERROR", ctx |-> x, p |-> <<>>]
          ELSE IF Len(ch) < m + 2 THEN [err |-> "NEED_MORE", ctx |-> x, p |-> <<>>]
          ELSE IF SubSeq(ch, 1, m + 2) # aead_chunk_encrypt(key, 2 * j, vals)
          THEN [err |-> "ERROR", ctx |-> x, p |-> <<>>]
          ELSE [err |-> "OK", p |-> vals,
                ctx |-> [x EXCEPT !.nonce = 2 * j + 2, !.chunk = SubSeq(ch, m + 2 + 1, Len(ch))]]
  <2> HIDE DEF m, ch
  <2>1. 1 + 1 = 2 /\ 1 + m + 1 = m + 2
    BY <1>2
  <2>2. QED BY <2>1, <1>1, <1>3 DEF aead_chunk_decrypt, LenBlock, TagLen, ch
<1> HIDE DEF o, e, m, key, ch, payload, vals, r
<1>5. ASSUME g < Off(E, j + 1) PROVE r = [err |-> "NEED_MORE", ctx |-> x, p |-> <<>>]
  <2>1. Len(ch) < m + 2
    BY <1>2, <1>5
  <2>2. QED BY <2>1, <1>2, <1>4
<1>6. ASSUME Off(E, j + 1) <= g
      PROVE  /\ r.err = "OK" /\ Stands(r.ctx, W, E, z, j + 1, g) /\ r.ctx.init = x.init
             /\ r.p = Part(P, e, m) /\ r = [err |-> r.err, ctx |-> r.ctx, p |-> r.p]
  <2>1. m + 2 <= g - o /\ ~(Len(ch) <= 2) /\ ~(Len(ch) < m + 2) /\ m \in Nat /\ m # 0
        /\ Len(ch) \in Nat /\ m + 2 <= Len(ch)
    BY <1>2, <1>6
  <2>2. \A i \in 1..m : ch[1 + i] = Unit("data", key, 2 * j + 1, P[e + i])
    <3> SUFFICES ASSUME NEW i \in 1..m
                 PROVE  ch[1 + i] = Unit("data", key, 2 * j + 1, P[e + i])
      OBVIOUS
    <3>1. i + 1 <= g - o
      <4>1. i \in Int /\ i <= m /\ g - o \in Int
        BY <2>1, <1>2
      <4>2. QED BY <4>1, <2>1
    <3>2. QED BY <3>1, <1>2
  <2>3. vals = Part(P, e, m)
    <3>1. \A i \in 1..m : payload[i] = ch[1 + i]
      <4> DEFINE a == 2  h == 1 + m
      <4>1. a \in Nat \ {0} /\ h \in Nat /\ a <= h + 1 /\ h - a + 1 = m
            /\ \A i \in 1..m : a + i - 1 = 1 + i
        BY <2>1
      <4> HIDE DEF a, h
      <4>2. \A i \in 1..(h - a + 1) : SubSeq(ch, a, h)[i] = ch[a + i - 1]
        BY <4>1, SubSeqSeq
      <4>3. QED BY <4>1, <4>2 DEF payload, a, h
    <3>2. \A i \in 1..m : payload[i].val = P[e + i]
      <4> SUFFICES ASSUME NEW i \in 1..m PROVE payload[i].val = P[e + i]
        OBVIOUS
      <4>1. payload[i] = Unit("data", key, 2 * j + 1, P[e + i])
        BY <3>1, <2>2
      <4>2. QED BY <4>1 DEF Unit
    <3>3. QED BY <3>2 DEF vals, Part
  <2>4. IsSeq(vals) /\ Len(vals) = m /\ \A i \in 1..m : vals[i] = P[e + i]
    <3>1. m \in Nat /\ e \in Nat
      BY <1>2
    <3>2. /\ IsSeq(Part(P, e, m)) /\ Len(Part(P, e, m)) = m
          /\ \A i \in 1..m : Part(P, e, m)[i] = P[e + i]
      BY <3>1, PartSeq
    <3>3. QED BY <3>2, <2>3
  <2> DEFINE B == aead_chunk_encrypt(key, 2 * j, vals)
             D == SubSeq(ch, 1, m + 2)
  <2>5. /\ IsSeq(B) /\ Len(B) = m + 2
        /\ B[1] = Unit("len", key, 2 * j, m)
        /\ \A i \in 1..m : B[1 + i] = Unit("data", key, 2 * j + 1, vals[i])
        /\ B[m + 2] = Unit("tag", key, 2 * j + 1, m)
    <3>1. IsSeq(vals)
      BY <2>4
    <3>2. LET C == aead_chunk_encrypt(key, 2 * j, vals)
          IN  /\ IsSeq(C) /\ Len(C) = Len(vals) + 2
              /\ C[1] = Unit("len", key, 2 * j, Len(vals))
              /\ \A i \in 1..Len(vals) : C[1 + i] = Unit("data", key, 2 * j + 1, vals[i])
              /\ C[Len(vals) + 2] = Unit("tag", key, 2 * j + 1, Len(vals))
      BY <3>1, ChunkEncrypted
    <3>3. Len(vals) = m
      BY <2>4
    <3> HIDE DEF B
    <3>4. QED BY <3>2, <3>3 DEF B
  <2>6. IsSeq(D) /\ Len(D) = m + 2 /\ \A i \in 1..(m + 2) : D[i] = ch[i]
    <3> DEFINE a == 1  h == m + 2
    <3>1. a \in Nat \ {0} /\ h \in Nat /\ a <= h + 1 /\ h - a + 1 = m + 2
          /\ \A i \in 1..(m + 2) : a + i - 1 = i
      BY <2>1
    <3> HIDE DEF a, h
    <3>2. /\ IsSeq(SubSeq(ch, a, h)) /\ Len(SubSeq(ch, a, h)) = h - a + 1
          /\ \A i \in 1..(h - a + 1) : SubSeq(ch, a, h)[i] = ch[a + i - 1]
      BY <3>1, SubSeqSeq, ZenonT(60)
    <3>3. QED BY <3>1, <3>2 DEF a, h
  <2> HIDE DEF B, D
  <2>7. ASSUME NEW i \in 1..(m + 2) PROVE D[i] = B[i]
    <3>1. i = 1 \/ i = m + 2 \/ (i - 1 \in 1..m /\ 1 + (i - 1) = i)
      BY <2>1
    <3>0. D[i] = ch[i]
      BY <2>6
    <3>2. CASE i = 1
      BY <3>0, <3>2, <2>5, <1>2
    <3>3. CASE i = m + 2
      <4>1. ch[m + 2] = Unit("tag", key, 2 * j + 1, m)
        BY <2>1, <1>2
      <4>2. QED BY <3>0, <3>3, <4>1, <2>5
    <3>4. CASE i - 1 \in 1..m /\ 1 + (i - 1) = i
      <4>1. ch[i] = Unit("data", key, 2 * j + 1, P[e + (i - 1)])
        BY <3>4, <2>2
      <4>2. B[i] = Unit("data", key, 2 * j + 1, P[e + (i - 1)])
        BY <3>4, <2>4, <2>5
      <4>3. QED BY <3>0, <4>1, <4>2
    <3>5. QED BY <3>1, <3>2, <3>3, <3>4
  <2>8. D = B
    <3>1. IsSeq(D) /\ IsSeq(B) /\ Len(D) = Len(B) /\ \A i \in 1..Len(D) : D[i] = B[i]
      BY <2>5, <2>6, <2>7
    <3>2. QED BY <3>1, SameSeq
  <2> DEFINE k == 2 * j + 2
             q == SubSeq(ch, m + 2 + 1, Len(ch))
             y == [x EXCEPT !.nonce = k, !.chunk = q]
  <2> HIDE DEF k, q
  <2>9. r = [err |-> "OK", p |-> vals, ctx |-> y]
    BY <2>1, <2>8, <1>2, <1>4 DEF B, D, k, q
  <2>10. y = [init |-> x.init, salt |-> x.salt, nonce |-> k, chunk |-> q]
    BY <1>1, ContextOpened, Zenon
  <2> HIDE DEF y
  <2>11. q = Cut(W, Off(E, j + 1), g)
    <3>1. g - o \in Nat /\ o <= g /\ m + 2 \in Nat /\ m + 2 <= g - o /\ g - o <= g - o
          /\ o + (m + 2) = Off(E, j + 1) /\ o + (g - o) = g
      BY <2>1, <1>2
    <3>2. Cut(Cut(W, o, g), m + 2, g - o) = Cut(W, o + (m + 2), o + (g - o))
      BY <3>1, <1>2, CutOfCut
    <3>3. q = Cut(Cut(W, o, g), m + 2, g - o)
      BY <1>1, <1>2 DEF q, Cut
    <3>4. QED BY <3>1, <3>2, <3>3
  <2>12. k = 2 * (j + 1)
    BY <1>2 DEF k
  <2>13. Stands(y, W, E, z, j + 1, g) /\ y.init = x.init
    BY <2>10, <2>11, <2>12, <1>1 DEF Stands, IsContext
  <2>14. QED BY <2>3, <2>9, <2>13
<1>7. QED BY <1>2, <1>5, <1>6 DEF r, e, m

\* With another password nothing is opened: aead_chunk_decrypt waits for three
\* units and refuses them.
LEMMA RefuseChunk ==
    ASSUME NEW W, NEW E, NEW z, NEW w, NEW P, Sealed(W, E, z, w, P), w # Password,
           NEW j \in 0..Len(E), NEW g \in Nat, Off(E, j) < g, g <= Len(W),
           NEW x, Stands(x, W, E, z, j, g)
    PROVE  aead_chunk_decrypt(x)
               = [err |-> IF g <= Off(E, j) + 2 THEN "NEED_MORE" ELSE "ERROR", ctx |-> x, p |-> <<>>]
<1> DEFINE o == Off(E, j)
           m == EndOf(E, j + 1) - EndOf(E, j)
           ch == x.chunk
<1>1. /\ x.salt = z /\ ch = Cut(W, o, g)
  BY DEF Stands
<1>2. o \in Nat /\ Len(ch) = g - o /\ ch[1] = Unit("len", <<w, z>>, 2 * j, m)
  <2>1. ChunkAhead(ch, o, EndOf(E, j), m, <<w, z>>, j, g, P)
    <3> HIDE DEF ch
    <3>1. QED BY <1>1, NextChunk
  <2> HIDE DEF o, m, ch
  <2>2. QED BY <2>1 DEF ChunkAhead
<1>3. ch[1].key # <<Password, z>>
  BY <1>2 DEF Unit
<1>4. \A a, b : ch[1] # Unit("len", <<Password, z>>, a, b)
  BY <1>3 DEF Unit
<1> HIDE DEF o, ch, m
<1>5. (Len(ch) <= 2) <=> (g <= o + 2)
  BY <1>2
<1>6. CASE Len(ch) <= 2
  BY <1>1, <1>5, <1>6 DEF aead_chunk_decrypt, LenBlock, TagLen, o, ch
<1>7. CASE ~(Len(ch) <= 2)
  BY <1>1, <1>4, <1>5, <1>7 DEF aead_chunk_decrypt, LenBlock, TagLen, o, ch
<1>8. QED BY <1>6, <1>7

\* One turn of the loop of aead_decrypt.
Turn(st) ==
    IF st.err # "OK" \/ st.ctx.chunk = <<>> THEN st
    ELSE LET r == aead_chunk_decrypt(st.ctx) IN [r EXCEPT !.p = st.p \o r.p]

Turns(x) == 1 + Len(x.chunk) \div 3

Start(x) == [err |-> "OK", ctx |-> x, p |-> <<>>]

\* Turns for three units each are enough for n units.
LEMMA EnoughTurns ==
    ASSUME NEW n \in Nat
    PROVE  1 + n \div 3 \in Nat /\ n < 3 * (1 + n \div 3)
<1> DEFINE d == n \div 3
<1>1. d \in Int /\ 3 * d <= n /\ n < 3 * d + 3
  OBVIOUS
<1> HIDE DEF d
<1>2. QED BY <1>1 DEF d

\* DecryptChunks is the last element of a sequence of turns.
LEMMA LoopOfTurns ==
    ASSUME NEW x, Len(x.chunk) \in Nat
    PROVE  /\ Turns(x) \in Nat
           /\ \E f : /\ DecryptChunks(x) = f[Turns(x)] /\ f[0] = Start(x)
                     /\ \A k \in 1..Turns(x) : f[k] = Turn(f[k - 1])
<1> DEFINE Is(f, t) == f = [k \in 0..t |-> IF k = 0 THEN Start(x) ELSE Turn(f[k - 1])]
           T == {t \in Nat : \E f : Is(f, t)}
<1>1. Turns(x) \in Nat
  BY EnoughTurns DEF Turns
<1>2. 0 \in T
  <2> DEFINE f == [k \in 0..0 |-> Start(x)]
  <2>1. Is(f, 0)
    OBVIOUS
  <2>2. QED BY <2>1
<1>3. ASSUME NEW n \in Nat, n \in T PROVE n + 1 \in T
  <2>1. PICK f : Is(f, n)
    BY <1>3
  <2> DEFINE h == [k \in 0..(n + 1) |-> IF k <= n THEN f[k] ELSE Turn(f[n])]
  <2>2. \A k \in 0..n : h[k] = f[k] /\ k \in 0..(n + 1)
    OBVIOUS
  <2>3. ASSUME NEW k \in 0..(n + 1) PROVE h[k] = IF k = 0 THEN Start(x) ELSE Turn(h[k - 1])
    <3>1. CASE k = 0
      <4>1. f[0] = Start(x)
        BY <2>1
      <4>2. h[0] = f[0]
        BY <2>2
      <4>3. QED BY <3>1, <4>1, <4>2
    <3>2. CASE k \in 1..n
      <4>1. k # 0 /\ k \in 0..n /\ k - 1 \in 0..n
        BY <3>2
      <4>2. f[k] = Turn(f[k - 1])
        BY <2>1, <4>1
      <4>3. h[k] = f[k] /\ h[k - 1] = f[k - 1]
        BY <2>2, <4>1
      <4>4. QED BY <4>1, <4>2, <4>3
    <3>3. CASE k = n + 1
      <4>1. k # 0 /\ ~(k <= n) /\ k - 1 = n /\ n \in 0..n
        BY <3>3
      <4>2. h[k] = Turn(f[n])
        BY <4>1
      <4>3. h[n] = f[n]
        BY <2>2, <4>1
      <4>4. QED BY <4>1, <4>2, <4>3
    <3>4. QED BY <3>1, <3>2, <3>3
  <2>4. Is(h, n + 1)
    <3>1. h = [k \in 0..(n + 1) |-> h[k]]
      OBVIOUS
    <3> HIDE DEF h
    <3>2. QED BY <3>1, <2>3
  <2> HIDE DEF h, Is
  <2>5. QED BY <2>4
<1> HIDE DEF T, Is
<1>4. Turns(x) \in T
  BY <1>1, <1>2, <1>3, SetInduction
<1>5. PICK f : Is(f, Turns(x))
  BY <1>4 DEF T
<1> DEFINE h == CHOOSE f1 : Is(f1, Turns(x))
<1>6. Is(h, Turns(x))
  BY <1>5
<1>7. DecryptChunks(x) = h[Turns(x)]
  BY DEF DecryptChunks, Is, Turn, Turns, Start, LenBlock, TagLen
<1> HIDE DEF h
<1>8. h[0] = Start(x) /\ \A k \in 1..Turns(x) : h[k] = Turn(h[k - 1])
  <2>1. 0 \in 0..Turns(x) /\ \A k \in 1..Turns(x) : k \in 0..Turns(x) /\ k # 0
    BY <1>1
  <2>2. QED BY <1>6, <2>1 DEF Is
<1>9. QED BY <1>1, <1>7, <1>8

\* st is what the loop has made of context x, which stood behind chunk j: the
\* chunks up to the i-th are open, and the next one is not all there if the
\* loop stopped.
Progress(st, x, W, E, z, P, j, i, g) ==
    /\ i \in j..Len(E) /\ Off(E, i) <= g
    /\ Stands(st.ctx, W, E, z, i, g) /\ st.ctx.init = x.init
    /\ st.p = Part(P, EndOf(E, j), EndOf(E, i) - EndOf(E, j))
    /\ \/ st.err = "OK"
       \/ st.err = "NEED_MORE" /\ Off(E, i) < g /\ g < Off(E, i + 1)

\* A turn opens one more chunk, or stops.
LEMMA TurnProgress ==
    ASSUME NEW W, NEW E, NEW z, NEW P, Sealed(W, E, z, Password, P),
           NEW j \in 0..Len(E), NEW g \in Nat, g <= Len(W), NEW x, NEW i, NEW st,
           Progress(st, x, W, E, z, P, j, i, g)
    PROVE  \/ Turn(st) = st /\ (st.err = "OK" => g = Off(E, i))
           \/ Progress(Turn(st), x, W, E, z, P, j, i, g) /\ Turn(st).err # "OK"
           \/ Progress(Turn(st), x, W, E, z, P, j, i + 1, g) /\ i + 1 \in j..Len(E)
<1> DEFINE r == aead_chunk_decrypt(st.ctx)
           e == EndOf(E, j)
<1>1. /\ Len(E) \in Nat
      /\ \A k \in 0..Len(E) : EndOf(E, k) \in Nat /\ Off(E, k) \in Nat /\ Off(E, k) >= 1
      /\ \A a, b \in 0..Len(E) : a <= b => EndOf(E, b) >= EndOf(E, a) + (b - a)
  <2>1. Increasing(E)
    BY DEF Sealed
  <2>2. \A a, b \in 0..Len(E) : a <= b => EndOf(E, b) >= EndOf(E, a) + (b - a)
    BY <2>1 DEF Increasing
  <2>3. QED BY <2>1, <2>2, Offsets
<1>2. /\ i \in j..Len(E) /\ Off(E, i) <= g /\ Stands(st.ctx, W, E, z, i, g)
      /\ st.ctx.init = x.init /\ st.p = Part(P, e, EndOf(E, i) - e)
  BY DEF Progress
<1>3. i \in 0..Len(E) /\ j \in 0..Len(E) /\ Off(E, i) \in Nat
  BY <1>1, <1>2
<1>4. st.ctx.chunk = Cut(W, Off(E, i), g)
  BY <1>2 DEF Stands
<1>5. CASE st.err # "OK"
  BY <1>5 DEF Turn
<1>6. CASE st.err = "OK" /\ Off(E, i) = g
  <2>1. st.ctx.chunk = <<>>
    BY <1>3, <1>4, <1>6, CutEnds
  <2>2. QED BY <2>1, <1>6 DEF Turn
<1>7. CASE st.err = "OK" /\ Off(E, i) < g
  <2>1. st.ctx.chunk # <<>>
    BY <1>3, <1>4, <1>7, CutEnds
  <2>2. Turn(st) = [r EXCEPT !.p = st.p \o r.p]
    BY <2>1, <1>7 DEF Turn
  <2>3. /\ i + 1 \in 1..Len(E)
        /\ Off(E, i + 1) <= g =>
               /\ r.err = "OK" /\ Stands(r.ctx, W, E, z, i + 1, g) /\ r.ctx.init = st.ctx.init
               /\ r.p = Part(P, EndOf(E, i), EndOf(E, i + 1) - EndOf(E, i))
               /\ r = [err |-> r.err, ctx |-> r.ctx, p |-> r.p]
        /\ g < Off(E, i + 1) => r = [err |-> "NEED_MORE", ctx |-> st.ctx, p |-> <<>>]
    BY <1>2, <1>3, <1>7, OpenChunk
  <2>4. /\ e \in Nat /\ EndOf(E, i) \in Nat /\ EndOf(E, i + 1) \in Nat /\ e <= EndOf(E, i)
        /\ EndOf(E, i) < EndOf(E, i + 1) /\ Off(E, i + 1) \in Nat /\ i + 1 \in j..Len(E)
    <3>1. i + 1 \in 0..Len(E) /\ j <= i /\ i <= i + 1 /\ i + 1 - i = 1 /\ i - j \in Nat
      BY <2>3, <1>1, <1>2, <1>3
    <3>2. EndOf(E, i) >= e + (i - j) /\ EndOf(E, i + 1) >= EndOf(E, i) + (i + 1 - i)
      BY <3>1, <1>1, <1>3
    <3>3. /\ e \in Nat /\ EndOf(E, i) \in Nat /\ EndOf(E, i + 1) \in Nat /\ Off(E, i + 1) \in Nat
          /\ i + 1 \in j..Len(E)
      BY <3>1, <1>1, <1>3
    <3> HIDE DEF e
    <3>4. e <= EndOf(E, i) /\ EndOf(E, i) < EndOf(E, i + 1)
      BY <3>1, <3>2, <3>3
    <3>5. QED BY <3>3, <3>4
  <2>5. CASE g < Off(E, i + 1)
    <3>1. r = [err |-> "NEED_MORE", ctx |-> st.ctx, p |-> <<>>]
      BY <2>3, <2>5
    <3>2. st.p \o r.p = st.p
      <4>1. EndOf(E, i) - e \in Nat
        BY <2>4
      <4>2. IsSeq(st.p)
        <5> DEFINE m == EndOf(E, i) - e
        <5>1. e \in Nat /\ m \in Nat
          BY <4>1, <2>4
        <5> HIDE DEF e, m
        <5>2. IsSeq(Part(P, e, m))
          BY <5>1, PartSeq
        <5>3. QED BY <5>2, <1>2 DEF e, m
      <4>3. st.p \in Seq(Values(st.p))
        BY <4>2, SeqOfValues
      <4>4. st.p \o <<>> = st.p
        BY <4>3, ConcatEmptySeq
      <4>5. QED BY <4>4, <3>1
    <3> HIDE DEF r
    <3>3. Turn(st).err = "NEED_MORE" /\ Turn(st).ctx = st.ctx /\ Turn(st).p = st.p
      BY <2>2, <3>1, <3>2
    <3>4. QED BY <3>3, <2>5, <1>2, <1>7 DEF Progress
  <2>6. CASE Off(E, i + 1) <= g
    <3>1. /\ r.err = "OK" /\ Stands(r.ctx, W, E, z, i + 1, g) /\ r.ctx.init = x.init
          /\ r.p = Part(P, EndOf(E, i), EndOf(E, i + 1) - EndOf(E, i))
          /\ r = [err |-> r.err, ctx |-> r.ctx, p |-> r.p]
      BY <2>3, <2>6, <1>2
    <3>2. st.p \o r.p = Part(P, e, EndOf(E, i + 1) - e)
      <4> DEFINE m == EndOf(E, i) - e
                 n == EndOf(E, i + 1) - EndOf(E, i)
      <4>1. m \in Nat /\ n \in Nat /\ e + m = EndOf(E, i) /\ m + n = EndOf(E, i + 1) - e
        BY <2>4
      <4>2. e \in Nat
        BY <2>4
      <4> HIDE DEF e, m, n
      <4>3. Part(P, e, m) \o Part(P, e + m, n) = Part(P, e, m + n)
        BY <4>1, <4>2, PartJoin
      <4>4. st.p = Part(P, e, m) /\ r.p = Part(P, e + m, n)
        BY <4>1, <3>1, <1>2 DEF m, n, e
      <4>5. QED BY <4>1, <4>3, <4>4
    <3> HIDE DEF r
    <3>3. Turn(st).err = "OK" /\ Turn(st).ctx = r.ctx /\ Turn(st).p = st.p \o r.p
      <4> DEFINE q == st.p \o r.p
      <4> HIDE DEF q
      <4>1. Turn(st) = [r EXCEPT !.p = q]
        BY <2>2 DEF q
      <4>2. QED BY <4>1, <3>1 DEF q
    <3>4. Progress(Turn(st), x, W, E, z, P, j, i + 1, g)
      BY <3>1, <3>2, <3>3, <2>4, <2>6 DEF Progress
    <3>5. QED BY <3>4, <2>4
  <2>7. g < Off(E, i + 1) \/ Off(E, i + 1) <= g
    BY <2>4
  <2>8. QED BY <2>5, <2>6, <2>7
<1>8. QED
  <2>1. Off(E, i) = g \/ Off(E, i) < g
    BY <1>2, <1>3
  <2>2. QED BY <2>1, <1>5, <1>6, <1>7

\* The loop of aead_decrypt opens every chunk that is all there, however many
\* there are.
LEMMA OpenChunks ==
    ASSUME NEW W, NEW E, NEW z, NEW P, Sealed(W, E, z, Password, P), E # <<>>,
           NEW j \in 0..Len(E), NEW g \in Nat, Off(E, j) <= g, g <= Len(W),
           NEW x, Stands(x, W, E, z, j, g)
    PROVE  LET st == DecryptChunks(x)
           IN  \E i \in j..Len(E) :
                   /\ Progress(st, x, W, E, z, P, j, i, g)
                   /\ st.err = IF g = Off(E, i) THEN "OK" ELSE "NEED_MORE"
                   /\ i = Len(E) \/ g < Off(E, i + 1)
<1> DEFINE T == Turns(x)
           Reaches(st, k) ==
               \E i : /\ Progress(st, x, W, E, z, P, j, i, g)
                      /\ (st.err = "OK" => g = Off(E, i)) \/ j + k <= i
<1>1. /\ Len(E) \in Nat
      /\ \A k \in 0..Len(E) : EndOf(E, k) \in Nat /\ Off(E, k) \in Nat
      /\ \A a, b \in 0..Len(E) : a <= b => Off(E, b) >= Off(E, a) + 3 * (b - a)
  BY Offsets DEF Sealed
<1>2. Off(E, j) \in Nat /\ j \in Nat /\ Len(x.chunk) = g - Off(E, j) /\ Len(x.chunk) \in Nat
  <2>1. Off(E, j) \in Nat
    BY <1>1
  <2>2. Len(Cut(W, Off(E, j), g)) = g - Off(E, j)
    BY <2>1, CutSeq DEF Cut
  <2>3. QED BY <2>1, <2>2 DEF Stands
<1>3. T \in Nat /\ g - Off(E, j) < 3 * T
  BY <1>2, EnoughTurns DEF Turns
<1>4. PICK f : /\ DecryptChunks(x) = f[T] /\ f[0] = Start(x)
               /\ \A k \in 1..T : f[k] = Turn(f[k - 1])
  BY <1>2, LoopOfTurns
<1> HIDE DEF T
<1>5. Reaches(f[0], 0)
  <2>1. f[0].err = "OK" /\ f[0].ctx = x /\ f[0].p = <<>>
    BY <1>4 DEF Start
  <2>2. <<>> = Part(P, EndOf(E, j), EndOf(E, j) - EndOf(E, j))
    <3>1. EndOf(E, j) \in Nat
      BY <1>1
    <3>2. EndOf(E, j) - EndOf(E, j) = 0
      BY <3>1
    <3>3. Part(P, EndOf(E, j), 0) = <<>>
      BY <3>1, PartSeq
    <3>4. QED BY <3>2, <3>3
  <2>3. j \in j..Len(E) /\ j + 0 <= j
    BY <1>2
  <2>4. Progress(f[0], x, W, E, z, P, j, j, g)
    BY <2>1, <2>2, <2>3 DEF Progress
  <2>5. QED BY <2>3, <2>4
<1>6. ASSUME NEW k \in Nat, k + 1 <= T, Reaches(f[k], k) PROVE Reaches(f[k + 1], k + 1)
  <2>1. f[k + 1] = Turn(f[k])
    <3>1. k + 1 \in 1..T /\ k + 1 - 1 = k
      BY <1>3, <1>6
    <3>2. QED BY <3>1, <1>4
  <2>2. PICK i : /\ Progress(f[k], x, W, E, z, P, j, i, g)
                 /\ (f[k].err = "OK" => g = Off(E, i)) \/ j + k <= i
    BY <1>6
  <2>3. i \in j..Len(E) /\ i \in Int
    BY <2>2, <1>1, <1>2 DEF Progress
  <2>4. CASE Turn(f[k]) = f[k] /\ (f[k].err = "OK" => g = Off(E, i))
    BY <2>1, <2>2, <2>4
  <2>5. CASE Progress(Turn(f[k]), x, W, E, z, P, j, i, g) /\ Turn(f[k]).err # "OK"
    BY <2>1, <2>5
  <2>6. CASE /\ Progress(Turn(f[k]), x, W, E, z, P, j, i + 1, g) /\ i + 1 \in j..Len(E)
             /\ ~(Turn(f[k]) = f[k] /\ (f[k].err = "OK" => g = Off(E, i)))
    <3>1. j + k <= i
      <4>1. SUFFICES ASSUME f[k].err = "OK" => g = Off(E, i) PROVE FALSE
        BY <2>2
      <4>2. f[k].err = "OK" => f[k].ctx.chunk = <<>>
        <5>1. f[k].ctx.chunk = Cut(W, Off(E, i), g)
          BY <2>2 DEF Progress, Stands
        <5>2. Cut(W, g, g) = <<>>
          BY CutEnds
        <5>3. QED BY <5>1, <5>2, <4>1
      <4>3. Turn(f[k]) = f[k]
        BY <4>2 DEF Turn
      <4>4. QED BY <4>1, <4>3, <2>6
    <3>2. j + (k + 1) <= i + 1
      BY <3>1, <2>3, <1>2
    <3>3. QED BY <3>2, <2>1, <2>6
  <2>7. QED BY <2>2, <2>4, <2>5, <2>6, TurnProgress
<1> HIDE DEF Reaches
<1>7. Reaches(f[T], T)
  <2> DEFINE Q == {k \in Nat : k <= T => Reaches(f[k], k)}
  <2>1. 0 \in Q
    BY <1>5
  <2>2. ASSUME NEW k \in Nat, k \in Q PROVE k + 1 \in Q
    <3>1. k + 1 <= T => k <= T
      BY <1>3
    <3>2. QED BY <3>1, <2>2, <1>6
  <2> HIDE DEF Q
  <2>3. T \in Q
    BY <2>1, <2>2, <1>3, SetInduction
  <2>4. QED BY <2>3, <1>3 DEF Q
<1> DEFINE st == f[T]
<1>8. PICK i : /\ Progress(st, x, W, E, z, P, j, i, g)
               /\ (st.err = "OK" => g = Off(E, i)) \/ j + T <= i
  BY <1>7 DEF Reaches
<1> HIDE DEF st
<1>9. /\ i \in j..Len(E) /\ i \in 0..Len(E) /\ j <= i /\ Off(E, i) <= g /\ Off(E, i) \in Nat
      /\ \/ st.err = "OK"
         \/ st.err = "NEED_MORE" /\ Off(E, i) < g /\ g < Off(E, i + 1)
  <2>1. /\ i \in j..Len(E) /\ Off(E, i) <= g
        /\ \/ st.err = "OK"
           \/ st.err = "NEED_MORE" /\ Off(E, i) < g /\ g < Off(E, i + 1)
    BY <1>8 DEF Progress
  <2>2. i \in 0..Len(E) /\ j <= i
    BY <2>1, <1>1, <1>2
  <2>3. QED BY <2>1, <2>2, <1>1
<1>10. st.err = "OK" => g = Off(E, i)
  <2>1. SUFFICES ASSUME j + T <= i PROVE FALSE
    BY <1>8
  <2>2. Off(E, i) >= Off(E, j) + 3 * (i - j)
    BY <1>1, <1>9
  <2>3. QED BY <2>1, <2>2, <1>2, <1>3, <1>9
<1>11. st.err = IF g = Off(E, i) THEN "OK" ELSE "NEED_MORE"
  BY <1>9, <1>10
<1>12. i = Len(E) \/ g < Off(E, i + 1)
  <2>1. SUFFICES ASSUME i # Len(E), g = Off(E, i) PROVE g < Off(E, i + 1)
    BY <1>9, <1>10
  <2>2. i + 1 \in 0..Len(E) /\ i <= i + 1 /\ i + 1 - i = 1
    BY <2>1, <1>1, <1>9
  <2>3. Off(E, i + 1) >= Off(E, i) + 3 * (i + 1 - i)
    BY <2>2, <1>1, <1>9
  <2>4. Off(E, i + 1) \in Nat
    BY <2>2, <1>1
  <2>5. QED BY <2>1, <2>2, <2>3, <2>4
<1>13. QED BY <1>4, <1>8, <1>9, <1>11, <1>12 DEF st

\* With another password the loop stops at the first chunk.
LEMMA RefuseChunks ==
    ASSUME NEW W, NEW E, NEW z, NEW w, NEW P, Sealed(W, E, z, w, P), w # Password,
           NEW g \in Nat, 1 < g, g <= Len(W), NEW x, Stands(x, W, E, z, 0, g)
    PROVE  LET st == DecryptChunks(x)
           IN  /\ st.ctx = x /\ st.p = <<>>
               /\ st.err = IF g <= 3 THEN "NEED_MORE" ELSE "ERROR"
<1> DEFINE T == Turns(x)
           r == aead_chunk_decrypt(x)
           Stopped(st) == st.ctx = x /\ st.p = <<>> /\ st.err = IF g <= 3 THEN "NEED_MORE" ELSE "ERROR"
<1>1. Len(E) \in Nat /\ Off(E, 0) = 1 /\ 0 \in 0..Len(E)
  <2>1. Len(E) \in Nat /\ Off(E, 0) = 1
    BY Offsets DEF Sealed
  <2>2. QED BY <2>1
<1>2. r = [err |-> IF g <= 3 THEN "NEED_MORE" ELSE "ERROR", ctx |-> x, p |-> <<>>]
  <2>1. Off(E, 0) < g /\ Off(E, 0) + 2 = 3
    BY <1>1
  <2>2. r = [err |-> IF g <= Off(E, 0) + 2 THEN "NEED_MORE" ELSE "ERROR", ctx |-> x, p |-> <<>>]
    BY <2>1, <1>1, RefuseChunk
  <2>3. QED BY <2>1, <2>2
<1>3. x.chunk # <<>> /\ Len(x.chunk) \in Nat
  <2>1. x.chunk = Cut(W, 1, g)
    BY <1>1 DEF Stands
  <2>2. Cut(W, 1, g) # <<>>
    BY CutEnds
  <2> DEFINE a == 1
  <2>3. a \in Nat /\ a <= g /\ g - a \in Nat
    OBVIOUS
  <2> HIDE DEF a
  <2>4. Len(Cut(W, a, g)) = g - a
    BY <2>3, CutSeq DEF Cut
  <2>5. QED BY <2>1, <2>2, <2>3, <2>4 DEF a
<1>4. T \in Nat /\ 1 <= T
  <2> DEFINE n == Len(x.chunk)
             d == 1 + n \div 3
  <2>1. n \in Nat
    BY <1>3
  <2> HIDE DEF n
  <2>2. d \in Nat /\ n < 3 * d
    BY <2>1, EnoughTurns
  <2>3. T = d
    BY DEF Turns, n
  <2> HIDE DEF d
  <2>4. QED BY <2>1, <2>2, <2>3
<1>5. PICK f : /\ DecryptChunks(x) = f[T] /\ f[0] = Start(x)
               /\ \A k \in 1..T : f[k] = Turn(f[k - 1])
  BY <1>3, LoopOfTurns
<1> HIDE DEF T
<1>6. Stopped(f[1])
  <2>1. f[1] = Turn(Start(x))
    <3>1. 1 \in 1..T /\ 1 - 1 = 0
      BY <1>4
    <3>2. QED BY <3>1, <1>5
  <2>2. Start(x).err = "OK" /\ Start(x).ctx = x /\ Start(x).p = <<>>
    BY DEF Start
  <2>3. Turn(Start(x)) = [r EXCEPT !.p = <<>> \o r.p]
    BY <2>2, <1>3 DEF Turn
  <2>4. r.p = <<>> /\ <<>> \o <<>> = <<>>
    BY <1>2, EmptySeq, ConcatEmptySeq
  <2>5. Turn(Start(x)) = [r EXCEPT !.p = <<>>]
    BY <2>3, <2>4
  <2> DEFINE err == IF g <= 3 THEN "NEED_MORE" ELSE "ERROR"
  <2> HIDE DEF r, err
  <2>6. r = [err |-> err, ctx |-> x, p |-> <<>>]
    BY <1>2 DEF err
  <2>7. f[1].err = err /\ f[1].ctx = x /\ f[1].p = <<>>
    BY <2>1, <2>5, <2>6
  <2>8. QED BY <2>7 DEF err
<1>7. ASSUME NEW st, Stopped(st) PROVE Turn(st) = st
  <2>1. st.err # "OK"
    BY <1>7
  <2>2. QED BY <2>1 DEF Turn
<1> HIDE DEF Stopped
<1>8. Stopped(f[T])
  <2> DEFINE Q == {k \in Nat : k + 1 <= T => Stopped(f[k + 1])}
  <2>1. 0 \in Q
    <3>1. 0 \in Nat /\ 0 + 1 = 1
      OBVIOUS
    <3>2. QED BY <3>1, <1>6
  <2>2. ASSUME NEW k \in Nat, k \in Q PROVE k + 1 \in Q
    <3>1. SUFFICES ASSUME k + 1 + 1 <= T PROVE Stopped(f[k + 1 + 1])
      OBVIOUS
    <3>2. k + 1 <= T /\ k + 1 + 1 \in 1..T /\ k + 1 + 1 - 1 = k + 1
      BY <3>1, <1>4
    <3>3. Stopped(f[k + 1])
      BY <3>2, <2>2
    <3>4. f[k + 1 + 1] = Turn(f[k + 1])
      BY <3>2, <1>5
    <3>5. QED BY <3>3, <3>4, <1>7
  <2> HIDE DEF Q
  <2>3. T - 1 \in Nat /\ T - 1 + 1 = T /\ T <= T
    BY <1>4
  <2>4. T - 1 \in Q
    BY <2>1, <2>2, <2>3, SetInduction
  <2>5. T - 1 + 1 <= T => Stopped(f[T - 1 + 1])
    BY <2>4 DEF Q
  <2>6. QED BY <2>3, <2>5
<1>9. QED BY <1>5, <1>8 DEF Stopped

\* aead_decrypt after the salt: x is the context with what arrived, f the filter.
Finish(x, f) ==
    LET st == DecryptChunks(x)
    IN  IF st.err = "ERROR" \/ (st.err = "NEED_MORE" /\ st.p = <<>>)
        THEN [err |-> st.err, buf |-> <<>>, ctx |-> st.ctx, pp |-> f]
        ELSE RememberSalt(st, f)

\* With the right password: nothing yet, or all chunks that are there; or a
\* salt that somebody used since the first check.
LEMMA FinishOpens ==
    ASSUME NEW W, NEW E, NEW z, NEW P, Sealed(W, E, z, Password, P), E # <<>>,
           NEW j \in 0..Len(E), NEW h \in Nat, Off(E, j) < h, h <= Len(W),
           NEW x, Stands(x, W, E, z, j, h), x.init \in 1..2, NEW f
    PROVE  LET r == Finish(x, f)
           IN  \E i \in j..Len(E) :
                 /\ Off(E, i) <= h /\ (i = Len(E) \/ h < Off(E, i + 1))
                 /\ \/ /\ i = j /\ r.err = "NEED_MORE" /\ r.buf = <<>> /\ r.pp = f
                       /\ Stands(r.ctx, W, E, z, i, h) /\ r.ctx.init = x.init
                    \/ /\ x.init = 2 \/ ~ppbloom_check(f, z)
                       /\ i > j /\ r.err = "OK"
                       /\ r.buf = Part(P, EndOf(E, j), EndOf(E, i) - EndOf(E, j))
                       /\ r.pp = IF x.init = 2 THEN f ELSE ppbloom_add(f, z)
                       /\ Stands(r.ctx, W, E, z, i, h) /\ r.ctx.init = 2
                    \/ /\ i > j /\ r.err = "ERROR" /\ r.buf = <<>> /\ r.pp = f
                       /\ x.init = 1 /\ r.ctx.init = 1 /\ ppbloom_check(f, z)
<1> DEFINE st == DecryptChunks(x)
           r == Finish(x, f)
           e == EndOf(E, j)
<1>1. PICK i \in j..Len(E) :
               /\ Progress(st, x, W, E, z, P, j, i, h)
               /\ st.err = IF h = Off(E, i) THEN "OK" ELSE "NEED_MORE"
               /\ i = Len(E) \/ h < Off(E, i + 1)
  <2>1. Off(E, j) <= h
    <3>1. Off(E, j) \in Nat
      BY Offsets DEF Sealed
    <3>2. QED BY <3>1
  <2>2. QED BY <2>1, OpenChunks
<1> HIDE DEF st
<1>2. /\ Off(E, i) <= h /\ Stands(st.ctx, W, E, z, i, h) /\ st.ctx.init = x.init
      /\ st.p = Part(P, e, EndOf(E, i) - e)
  BY <1>1 DEF Progress
<1>3. r = IF st.err = "ERROR" \/ (st.err = "NEED_MORE" /\ st.p = <<>>)
          THEN [err |-> st.err, buf |-> <<>>, ctx |-> st.ctx, pp |-> f]
          ELSE RememberSalt(st, f)
  BY DEF Finish, st
<1> HIDE DEF r
<1>4. /\ (st.p = <<>>) <=> (i = j)
      /\ i = j \/ i > j
  <2>1. Len(E) \in Nat /\ \A k \in 0..Len(E) : EndOf(E, k) \in Nat
    BY Offsets DEF Sealed
  <2>2. \A a, b \in 0..Len(E) : a <= b => EndOf(E, b) >= EndOf(E, a) + (b - a)
    BY DEF Sealed, Increasing
  <2>3. i \in 0..Len(E) /\ j \in 0..Len(E) /\ j <= i
    BY <2>1
  <2>4. e \in Nat /\ EndOf(E, i) \in Nat /\ EndOf(E, i) >= e + (i - j)
    BY <2>1, <2>2, <2>3
  <2> DEFINE m == EndOf(E, i) - e
  <2> HIDE DEF e
  <2>5. m \in Nat /\ (m = 0 <=> i = j)
    <3>1. m \in Nat /\ (m = 0 => i = j)
      BY <2>3, <2>4
    <3>2. i = j => m = 0
      BY <2>4 DEF e
    <3>3. QED BY <3>1, <3>2
  <2> HIDE DEF m
  <2>6. (Part(P, e, m) = <<>>) <=> (m = 0)
    BY <2>4, <2>5, PartSeq
  <2>7. QED BY <2>3, <2>5, <2>6, <1>2 DEF m
<1>5. CASE i = j
  <2>1. st.err = "NEED_MORE"
    <3>1. Off(E, i) \in Nat
      BY <1>5, Offsets DEF Sealed
    <3>2. QED BY <3>1, <1>1, <1>5
  <2>2. r = [err |-> "NEED_MORE", buf |-> <<>>, ctx |-> st.ctx, pp |-> f]
    BY <2>1, <1>3, <1>4, <1>5
  <2>3. QED BY <2>2, <1>1, <1>2, <1>5 DEF r
<1>6. CASE i > j
  <2>1. r = RememberSalt(st, f)
    <3>1. st.err # "ERROR"
      BY <1>1
    <3>2. i # j
      BY <1>6
    <3>3. QED BY <3>1, <3>2, <1>3, <1>4
  <2>2. st.ctx.salt = z /\ IsContext(st.ctx)
    BY <1>2 DEF Stands
  <2>3. CASE x.init = 2
    <3>1. r = [err |-> "OK", buf |-> st.p, ctx |-> st.ctx, pp |-> f]
      BY <2>1, <2>3, <1>2 DEF RememberSalt
    <3>2. QED BY <3>1, <2>3, <1>1, <1>2, <1>6 DEF r
  <2>4. CASE x.init = 1 /\ ppbloom_check(f, z)
    <3>1. r = [err |-> "ERROR", buf |-> <<>>, ctx |-> st.ctx, pp |-> f]
      BY <2>1, <2>2, <2>4, <1>2 DEF RememberSalt
    <3>2. QED BY <3>1, <2>4, <1>1, <1>2, <1>6 DEF r
  <2>5. CASE x.init = 1 /\ ~ppbloom_check(f, z)
    <3> DEFINE y == [st.ctx EXCEPT !.init = 2]
    <3>1. r = [err |-> "OK", buf |-> st.p, ctx |-> y, pp |-> ppbloom_add(f, z)]
      BY <2>1, <2>2, <2>5, <1>2 DEF RememberSalt
    <3>2. y = [init |-> 2, salt |-> st.ctx.salt, nonce |-> st.ctx.nonce, chunk |-> st.ctx.chunk]
      BY <2>2, ContextInit, Zenon
    <3> HIDE DEF y
    <3>3. Stands(y, W, E, z, i, h) /\ y.init = 2
      BY <3>2, <1>2 DEF Stands, IsContext
    <3>4. QED BY <3>1, <3>3, <2>5, <1>1, <1>2, <1>6 DEF r
  <2>6. QED BY <2>3, <2>4, <2>5
<1>7. QED BY <1>4, <1>5, <1>6

\* With another password: nothing yet, or an error.
LEMMA FinishRefuses ==
    ASSUME NEW W, NEW E, NEW z, NEW w, NEW P, Sealed(W, E, z, w, P), w # Password,
           NEW h \in Nat, 1 < h, h <= Len(W), NEW x, Stands(x, W, E, z, 0, h), NEW f
    PROVE  Finish(x, f) = [err |-> IF h <= 3 THEN "NEED_MORE" ELSE "ERROR",
                           buf |-> <<>>, ctx |-> x, pp |-> f]
<1> DEFINE st == DecryptChunks(x)
<1>1. st.ctx = x /\ st.p = <<>> /\ st.err = IF h <= 3 THEN "NEED_MORE" ELSE "ERROR"
  BY RefuseChunks
<1> HIDE DEF st
<1>2. CASE h <= 3
  BY <1>1, <1>2 DEF Finish, st
<1>3. CASE ~(h <= 3)
  BY <1>1, <1>3 DEF Finish, st
<1>4. QED BY <1>2, <1>3

\* aead_decrypt of the next units of a stream whose salt has arrived.
LEMMA DecryptGoesOn ==
    ASSUME NEW W, NEW E, NEW z, NEW j, NEW o \in Nat, o = Off(E, j),
           NEW g \in Nat, NEW h \in Nat, o <= g, g <= h,
           NEW x, Stands(x, W, E, z, j, g), x.init \in 1..2, NEW f
    PROVE  \E y : /\ Stands(y, W, E, z, j, h) /\ y.init = x.init
                  /\ aead_decrypt(Cut(W, g, h), x, f) = Finish(y, f)
<1> DEFINE e == x.chunk \o Cut(W, g, h)
           y == [x EXCEPT !.chunk = e]
<1>1. IsContext(x) /\ x.salt = z /\ x.nonce = 2 * j /\ x.chunk = Cut(W, o, g)
  BY DEF Stands
<1>2. e = Cut(W, o, h)
  <2>1. Cut(W, o, g) \o Cut(W, g, h) = Cut(W, o, h)
    BY CutJoin
  <2>2. QED BY <2>1, <1>1
<1> HIDE DEF e
<1>3. y = [init |-> x.init, salt |-> x.salt, nonce |-> x.nonce, chunk |-> e]
  BY <1>1, ContextChunk, Zenon
<1>4. x.init # 0 /\ x.init > 0
  OBVIOUS
<1>5. aead_decrypt(Cut(W, g, h), x, f) = Finish(y, f)
  BY <1>4 DEF aead_decrypt, Finish, e
<1> HIDE DEF y
<1>6. Stands(y, W, E, z, j, h) /\ y.init = x.init
  BY <1>1, <1>2, <1>3 DEF Stands, IsContext
<1>7. QED BY <1>5, <1>6

\* The result r of aead_decrypt for the first h units, the salt z among them: it
\* is kept until more comes, it is known to the filter f, or the chunks follow.
Starts(r, W, E, z, h, f) ==
    /\ h = 1 => /\ r.err = "NEED_MORE" /\ r.buf = <<>> /\ r.pp = f
                /\ IsContext(r.ctx) /\ r.ctx.init = 0 /\ r.ctx.chunk = Cut(W, 0, h)
    /\ h > 1 /\ ppbloom_check(f, z) =>
           r.err = "ERROR" /\ r.buf = <<>> /\ r.pp = f /\ r.ctx.init = 0
    /\ h > 1 /\ ~ppbloom_check(f, z) =>
           \E y : Stands(y, W, E, z, 0, h) /\ y.init = 1 /\ r = Finish(y, f)

\* aead_decrypt of the first units of a stream.
LEMMA DecryptStarts ==
    ASSUME NEW W, NEW E, NEW z, W[1] = SaltUnit(z),
           NEW g \in Nat, NEW h \in Nat, g <= h, 1 <= h,
           NEW x, IsContext(x), x.init = 0, x.chunk = Cut(W, 0, g), NEW f
    PROVE  Starts(aead_decrypt(Cut(W, g, h), x, f), W, E, z, h, f)
<1> DEFINE r == aead_decrypt(Cut(W, g, h), x, f)
           e == x.chunk \o Cut(W, g, h)
           all == [x EXCEPT !.chunk = e]
           d == SubSeq(e, 2, Len(e))
           y == [all EXCEPT !.init = 1, !.salt = z, !.nonce = 0, !.chunk = d]
<1>1. e = Cut(W, 0, h)
  <2> DEFINE a == 0
  <2>1. a \in Nat /\ a <= g
    OBVIOUS
  <2> HIDE DEF a
  <2>2. Cut(W, a, g) \o Cut(W, g, h) = Cut(W, a, h)
    BY <2>1, CutJoin
  <2>3. QED BY <2>2 DEF a
<1>2. Len(e) = h /\ e[1] = W[1]
  <2> DEFINE a == 0
  <2>1. a \in Nat /\ a <= h /\ h - a = h /\ 1 \in 1..(h - a) /\ a + 1 = 1
    OBVIOUS
  <2> HIDE DEF a
  <2>2. Len(Cut(W, a, h)) = h - a /\ \A i \in 1..(h - a) : Cut(W, a, h)[i] = W[a + i]
    BY <2>1, CutSeq DEF Cut
  <2>3. QED BY <1>1, <2>1, <2>2 DEF a
<1>3. e[1].val = z
  BY <1>2 DEF SaltUnit, Unit
<1> HIDE DEF e
<1>4. all = [init |-> x.init, salt |-> x.salt, nonce |-> x.nonce, chunk |-> e]
  BY ContextChunk, Zenon
<1>5. all.chunk = e /\ all.init = 0 /\ IsContext(all)
  BY <1>4 DEF IsContext
<1>6. r = IF h <= 1 THEN [err |-> "NEED_MORE", buf |-> <<>>, ctx |-> all, pp |-> f]
          ELSE IF ppbloom_check(f, z)
          THEN [err |-> "ERROR", buf |-> <<>>, ctx |-> [all EXCEPT !.salt = z], pp |-> f]
          ELSE Finish(y, f)
  <2>1. (IF x.init > 0 THEN all
         ELSE [all EXCEPT !.init = 1, !.salt = all.chunk[1].val, !.nonce = 0,
                          !.chunk = SubSeq(all.chunk, SaltLen + 1, Len(all.chunk))]) = y
    <3>1. SubSeq(all.chunk, SaltLen + 1, Len(all.chunk)) = d /\ ~(x.init > 0) /\ all.chunk[1].val = z
      BY <1>3, <1>5 DEF SaltLen
    <3> HIDE DEF all, d
    <3>2. QED BY <3>1
  <2> DEFINE F(x1, all1, y1) ==
                 LET st == DecryptChunks(y1)
                     salt1 == all1.chunk[1].val
                 IN  IF x1.init = 0 /\ Len(all1.chunk) <= SaltLen
                     THEN [err |-> "NEED_MORE", buf |-> <<>>, ctx |-> all1, pp |-> f]
                     ELSE IF x1.init = 0 /\ ppbloom_check(f, salt1)
                     THEN [err |-> "ERROR", buf |-> <<>>, ctx |-> [all1 EXCEPT !.salt = salt1], pp |-> f]
                     ELSE IF st.err = "ERROR" \/ (st.err = "NEED_MORE" /\ st.p = <<>>)
                     THEN [err |-> st.err, buf |-> <<>>, ctx |-> st.ctx, pp |-> f]
                     ELSE RememberSalt(st, f)
  <2>2. r = F(x, all, IF x.init > 0 THEN all
                      ELSE [all EXCEPT !.init = 1, !.salt = all.chunk[1].val, !.nonce = 0,
                                !.chunk = SubSeq(all.chunk, SaltLen + 1, Len(all.chunk))])
    BY DEF aead_decrypt, e
  <2> HIDE DEF F, y
  <2>3. r = F(x, all, y)
    BY <2>1, <2>2
  <2> HIDE DEF all, r
  <2>4. QED BY <2>3, <1>2, <1>3, <1>5 DEF F, Finish, SaltLen
<1> HIDE DEF all, r
<1>7. CASE h = 1
  BY <1>1, <1>5, <1>6, <1>7 DEF r, Starts
<1>8. CASE h > 1 /\ ppbloom_check(f, z)
  <2> DEFINE q == [all EXCEPT !.salt = z]
  <2>1. q.init = 0
    BY <1>5 DEF IsContext
  <2> HIDE DEF q
  <2>2. r = [err |-> "ERROR", buf |-> <<>>, ctx |-> q, pp |-> f]
    BY <1>6, <1>8 DEF q
  <2>3. QED BY <2>1, <2>2, <1>8 DEF r, Starts
<1>9. CASE h > 1 /\ ~ppbloom_check(f, z)
  <2>1. r = Finish(y, f)
    BY <1>6, <1>9
  <2> HIDE DEF d
  <2>2. y = [init |-> 1, salt |-> z, nonce |-> 0, chunk |-> d]
    <3> DEFINE R == [init : {all.init, 1}, salt : {all.salt, z}, nonce : {all.nonce, 0},
                     chunk : {all.chunk, d}]
    <3>1. all \in R
      BY <1>5 DEF IsContext
    <3>2. y \in R
      BY <3>1
    <3>3. y.init = 1 /\ y.salt = z /\ y.nonce = 0 /\ y.chunk = d
      BY <3>1
    <3> HIDE DEF y
    <3>4. y = [init |-> y.init, salt |-> y.salt, nonce |-> y.nonce, chunk |-> y.chunk]
      BY <3>2
    <3>5. QED BY <3>3, <3>4
  <2> HIDE DEF y
  <2>3. d = Cut(W, 1, h)
    <3> DEFINE a == 0  b == 1
    <3>1. a \in Nat /\ b \in Nat /\ a <= h /\ b <= h /\ h <= h - a /\ a + b = 1 /\ a + h = h
      BY <1>9
    <3> HIDE DEF a, b
    <3>2. Cut(Cut(W, a, h), b, h) = Cut(W, a + b, a + h)
      BY <3>1, CutOfCut
    <3>3. d = Cut(Cut(W, a, h), b, h)
      BY <1>1, <1>2 DEF d, Cut, a, b
    <3>4. QED BY <3>1, <3>2, <3>3
  <2>4. Off(E, 0) = 1 /\ 2 * 0 = 0
    BY DEF Off, EndOf
  <2>5. Stands(y, W, E, z, 0, h) /\ y.init = 1
    BY <2>2, <2>3, <2>4 DEF Stands, IsContext
  <2>6. QED BY <2>1, <2>5, <1>9 DEF r, Starts
<1>10. h = 1 \/ h > 1
  OBVIOUS
<1> HIDE DEF r
<1>11. QED BY <1>7, <1>8, <1>9, <1>10 DEF r, Starts
------------------------------------------------------------------------------
(* The filter of salts *)

\* The current filter holds the last salts, as many as it counts, and the other
\* one the Entries before them.
FilterHolds(f, salts) ==
    LET u == f.current
        cnt == f.bloom_count[u]
        n == Len(salts)
    IN  /\ f = [bloom |-> f.bloom, bloom_count |-> f.bloom_count, current |-> u]
        /\ u \in {PING, PONG}
        /\ f.bloom = [i \in {PING, PONG} |-> f.bloom[i]]
        /\ f.bloom_count \in [{PING, PONG} -> Nat]
        /\ f.bloom_count[1 - u] = 0 /\ cnt < Entries
        /\ \A v : v \in f.bloom[u] <=> \E i \in 1..n : salts[i] = v /\ i + cnt > n
        /\ \A v : v \in f.bloom[1 - u] <=>
                      \E i \in 1..n : salts[i] = v /\ i + cnt <= n /\ i + cnt + Entries > n

\* ppbloom_add keeps that, also when the filters take turns.
LEMMA FilterAdd ==
    ASSUME NEW S, NEW salts \in Seq(S), NEW z \in S, NEW f, FilterHolds(f, salts)
    PROVE  FilterHolds(ppbloom_add(f, z), Append(salts, z))
<1> DEFINE u == f.current
           o == 1 - u
           n == Len(salts)
           cnt == f.bloom_count[u]
           B == [f.bloom EXCEPT ![u] = @ \cup {z}]
           C == [f.bloom_count EXCEPT ![u] = @ + 1]
           more == Append(salts, z)
           g == [bloom |-> B, bloom_count |-> C, current |-> u]
<1>1. /\ u \in {PING, PONG} /\ o \in {PING, PONG} /\ o # u /\ 1 - o = u
      /\ o = IF u = PING THEN PONG ELSE PING
      /\ f.bloom = [i \in {PING, PONG} |-> f.bloom[i]]
      /\ f.bloom_count \in [{PING, PONG} -> Nat] /\ cnt \in Nat /\ cnt < Entries /\ f.bloom_count[o] = 0
  BY DEF FilterHolds, PING, PONG
<1>2. /\ \A v : v \in f.bloom[u] <=> \E i \in 1..n : salts[i] = v /\ i + cnt > n
      /\ \A v : v \in f.bloom[o] <=>
                    \E i \in 1..n : salts[i] = v /\ i + cnt <= n /\ i + cnt + Entries > n
  BY DEF FilterHolds
<1>3. n \in Nat /\ Entries \in Nat
  BY LenProperties, EntriesAssumption
<1>4. /\ B = [i \in {PING, PONG} |-> B[i]] /\ B[u] = f.bloom[u] \cup {z} /\ B[o] = f.bloom[o]
      /\ C \in [{PING, PONG} -> Nat] /\ C[u] = cnt + 1 /\ C[o] = 0
  <2> DEFINE b == f.bloom
             k == f.bloom_count
  <2>1. b = [i \in {PING, PONG} |-> b[i]] /\ B = [b EXCEPT ![u] = @ \cup {z}]
        /\ k \in [{PING, PONG} -> Nat] /\ C = [k EXCEPT ![u] = @ + 1] /\ k[o] = 0 /\ cnt = k[u]
    BY <1>1
  <2> HIDE DEF b, k, u, o, B, C, cnt
  <2>2. B = [i \in {PING, PONG} |-> B[i]] /\ B[u] = b[u] \cup {z} /\ B[o] = b[o]
    BY <2>1, <1>1
  <2>3. C \in [{PING, PONG} -> Nat] /\ C[u] = k[u] + 1 /\ C[o] = k[o]
    BY <2>1, <1>1
  <2>4. QED BY <2>1, <2>2, <2>3 DEF b
<1>5. Len(more) = n + 1 /\ more[n + 1] = z /\ \A i \in 1..n : more[i] = salts[i]
  BY <1>3, AppendProperties
<1>6. g.bloom = B /\ g.bloom_count = C /\ g.current = u
  OBVIOUS
<1>7. ppbloom_add(f, z) = IF C[u] >= Entries THEN SwapFilters(g) ELSE g
  BY <1>6 DEF ppbloom_add
<1>8. SwapFilters(g) = [bloom |-> [B EXCEPT ![o] = {}],
                        bloom_count |-> [C EXCEPT ![u] = 0], current |-> o]
  BY <1>1, <1>6 DEF SwapFilters
<1>9. \A i : i \in 1..(n + 1) <=> i = n + 1 \/ i \in 1..n
  BY <1>3
<1> HIDE DEF u, o, n, cnt, B, C, more
<1>10. \A v : v \in B[u] <=> \E i \in 1..(n + 1) : more[i] = v /\ i + (cnt + 1) > n + 1
  <2> SUFFICES ASSUME NEW v
               PROVE  v \in B[u] <=> \E i \in 1..(n + 1) : more[i] = v /\ i + (cnt + 1) > n + 1
    OBVIOUS
  <2>1. ASSUME v \in B[u] PROVE \E i \in 1..(n + 1) : more[i] = v /\ i + (cnt + 1) > n + 1
    <3>1. CASE v = z
      <4>1. n + 1 \in 1..(n + 1) /\ n + 1 + (cnt + 1) > n + 1
        BY <1>1, <1>3
      <4>2. QED BY <3>1, <4>1, <1>5
    <3>2. CASE v \in f.bloom[u]
      <4>1. PICK i \in 1..n : salts[i] = v /\ i + cnt > n
        BY <3>2, <1>2
      <4>2. i \in 1..(n + 1) /\ i + (cnt + 1) > n + 1
        BY <4>1, <1>1, <1>3
      <4>3. QED BY <4>1, <4>2, <1>5
    <3>3. QED BY <2>1, <3>1, <3>2, <1>4
  <2>2. ASSUME NEW i \in 1..(n + 1), more[i] = v, i + (cnt + 1) > n + 1 PROVE v \in B[u]
    <3>1. CASE i = n + 1
      BY <3>1, <2>2, <1>4, <1>5
    <3>2. CASE i \in 1..n
      <4>1. salts[i] = v /\ i + cnt > n
        BY <3>2, <2>2, <1>1, <1>3, <1>5
      <4>2. QED BY <3>2, <4>1, <1>2, <1>4
    <3>3. QED BY <3>1, <3>2, <1>9
  <2>3. QED BY <2>1, <2>2
<1>11. CASE cnt + 1 < Entries
  <2>1. ppbloom_add(f, z) = g
    BY <1>1, <1>3, <1>4, <1>7, <1>11
  <2>2. \A v : v \in B[o] <=>
                   \E i \in 1..(n + 1) : more[i] = v /\ i + (cnt + 1) <= n + 1 /\ i + (cnt + 1) + Entries > n + 1
    <3> SUFFICES ASSUME NEW v
                 PROVE  v \in f.bloom[o] <=>
                            \E i \in 1..(n + 1) : more[i] = v /\ i + (cnt + 1) <= n + 1
                                                  /\ i + (cnt + 1) + Entries > n + 1
      BY <1>4
    <3>1. ASSUME v \in f.bloom[o]
          PROVE  \E i \in 1..(n + 1) : more[i] = v /\ i + (cnt + 1) <= n + 1
                                       /\ i + (cnt + 1) + Entries > n + 1
      <4>1. PICK i \in 1..n : salts[i] = v /\ i + cnt <= n /\ i + cnt + Entries > n
        BY <3>1, <1>2
      <4>2. i \in 1..(n + 1) /\ i + (cnt + 1) <= n + 1 /\ i + (cnt + 1) + Entries > n + 1
        BY <4>1, <1>1, <1>3
      <4>3. QED BY <4>1, <4>2, <1>5
    <3>2. ASSUME NEW i \in 1..(n + 1), more[i] = v, i + (cnt + 1) <= n + 1,
                 i + (cnt + 1) + Entries > n + 1
          PROVE  v \in f.bloom[o]
      <4>1. i \in 1..n /\ i + cnt <= n /\ i + cnt + Entries > n
        BY <3>2, <1>1, <1>3
      <4>2. QED BY <4>1, <3>2, <1>2, <1>5
    <3>3. QED BY <3>1, <3>2
  <2>3. FilterHolds(g, more)
    <3>1. g = [bloom |-> g.bloom, bloom_count |-> g.bloom_count, current |-> g.current]
      OBVIOUS
    <3> HIDE DEF g
    <3>2. QED BY <2>2, <3>1, <1>1, <1>4, <1>5, <1>6, <1>10, <1>11 DEF FilterHolds, o
  <2>4. QED BY <2>1, <2>3 DEF more
<1>12. CASE cnt + 1 >= Entries
  <2> DEFINE D == [B EXCEPT ![o] = {}]
             K == [C EXCEPT ![u] = 0]
             h == [bloom |-> D, bloom_count |-> K, current |-> o]
  <2>1. ppbloom_add(f, z) = h
    BY <1>4, <1>7, <1>8, <1>12
  <2>2. /\ D = [i \in {PING, PONG} |-> D[i]] /\ D[u] = B[u] /\ D[o] = {}
        /\ K \in [{PING, PONG} -> Nat] /\ K[o] = 0 /\ K[u] = 0
    BY <1>1, <1>4
  <2>3. cnt + 1 = Entries
    BY <1>1, <1>3, <1>12
  <2>4. h.bloom = D /\ h.bloom_count = K /\ h.current = o
        /\ h = [bloom |-> h.bloom, bloom_count |-> h.bloom_count, current |-> h.current]
    OBVIOUS
  <2> HIDE DEF D, K, h
  <2>5. \A v : v \in D[o] <=> \E i \in 1..(n + 1) : more[i] = v /\ i + 0 > n + 1
    <3>1. \A i \in 1..(n + 1) : ~(i + 0 > n + 1)
      BY <1>3
    <3>2. QED BY <3>1, <2>2
  <2>6. \A v : v \in D[u] <=>
                   \E i \in 1..(n + 1) : more[i] = v /\ i + 0 <= n + 1 /\ i + 0 + Entries > n + 1
    <3>1. \A i \in 1..(n + 1) :
              (i + 0 <= n + 1 /\ i + 0 + Entries > n + 1) <=> (i + (cnt + 1) > n + 1)
      BY <2>3, <1>1, <1>3
    <3>2. QED BY <3>1, <2>2, <1>10
  <2>7. Entries > 0
    BY EntriesAssumption
  <2>8. FilterHolds(h, more)
    BY <2>2, <2>4, <2>5, <2>6, <2>7, <1>1, <1>5 DEF FilterHolds
  <2>9. QED BY <2>1, <2>8 DEF more
<1>13. QED BY <1>1, <1>3, <1>11, <1>12

\* What ppbloom_check finds: one of the last salts.
LEMMA FilterCheck ==
    ASSUME NEW S, NEW salts \in Seq(S), NEW f, FilterHolds(f, salts), NEW v
    PROVE  LET cnt == f.bloom_count[f.current]
           IN  /\ ppbloom_check(f, v) <=>
                      \E i \in 1..Len(salts) : salts[i] = v /\ i + (Entries + cnt) > Len(salts)
               /\ cnt \in Nat
<1> DEFINE u == f.current
           o == 1 - u
           n == Len(salts)
           cnt == f.bloom_count[u]
<1>1. u \in {PING, PONG} /\ {u, o} = {PING, PONG} /\ cnt \in Nat
  BY DEF FilterHolds, PING, PONG
<1>2. /\ v \in f.bloom[u] <=> \E i \in 1..n : salts[i] = v /\ i + cnt > n
      /\ v \in f.bloom[o] <=>
             \E i \in 1..n : salts[i] = v /\ i + cnt <= n /\ i + cnt + Entries > n
  BY DEF FilterHolds
<1>3. n \in Nat /\ Entries \in Nat
  BY LenProperties, EntriesAssumption
<1>4. ppbloom_check(f, v) <=> v \in f.bloom[u] \/ v \in f.bloom[o]
  BY <1>1 DEF ppbloom_check
<1> HIDE DEF u, o, n, cnt
<1>5. \A i \in 1..n : (i + (Entries + cnt) > n) <=> (i + cnt > n \/ (i + cnt <= n /\ i + cnt + Entries > n))
  BY <1>1, <1>3
<1>6. ppbloom_check(f, v) <=> \E i \in 1..n : salts[i] = v /\ i + (Entries + cnt) > n
  BY <1>2, <1>4, <1>5
<1>7. QED BY <1>1, <1>6 DEF cnt, n, u
------------------------------------------------------------------------------
(* One connection *)

\* An open connection of which g units arrived: it waits for the salt, or it
\* stands behind the last chunk that is all there and has handed over the payload
\* q of the payload P up to there.  With another password it stands at the salt.
Reads(x, q, W, E, z, w, P, g) ==
    \/ IsContext(x) /\ x.init = 0 /\ x.chunk = Cut(W, 0, g) /\ g <= 1 /\ q = <<>>
    \/ /\ x.init \in 1..2 /\ g > 1
       /\ \E j \in 0..Len(E) :
              /\ Stands(x, W, E, z, j, g) /\ Off(E, j) <= g
              /\ q = Part(P, 0, EndOf(E, j))
              /\ x.init = 2 <=> j >= 1
              /\ w = Password => j = Len(E) \/ g < Off(E, j + 1)
              /\ w # Password => j = 0 /\ g <= 3

\* What a call of aead_decrypt may come to: the connection reads on, its salt is
\* added to the filter because its first chunk was opened, or it is refused.
Outcome(r, init, q, W, E, z, w, P, h, f) ==
    \/ /\ r.err = (IF r.buf = <<>> THEN "NEED_MORE" ELSE "OK") /\ IsSeq(r.buf)
       /\ Reads(r.ctx, q \o r.buf, W, E, z, w, P, h)
       /\ r.pp = f /\ (r.ctx.init = 2 <=> init = 2)
    \/ /\ r.err = (IF r.buf = <<>> THEN "NEED_MORE" ELSE "OK") /\ IsSeq(r.buf)
       /\ Reads(r.ctx, q \o r.buf, W, E, z, w, P, h)
       /\ init # 2 /\ r.ctx.init = 2 /\ r.ctx.salt = z
       /\ w = Password /\ ~ppbloom_check(f, z) /\ r.pp = ppbloom_add(f, z)
    \/ /\ r.err = "ERROR" /\ q \o r.buf = <<>> /\ r.pp = f
       /\ init # 2 /\ r.ctx.init \in 0..1
       /\ w # Password \/ ppbloom_check(f, z)

\* The end of aead_decrypt has one of these outcomes.
LEMMA FinishOutcome ==
    ASSUME NEW W, NEW E, NEW z, NEW w, NEW P, Sealed(W, E, z, w, P), E # <<>>,
           NEW j \in 0..Len(E), NEW h \in Nat, Off(E, j) < h, h <= Len(W),
           NEW x, Stands(x, W, E, z, j, h), x.init \in 1..2, x.init = 2 <=> j >= 1,
           w # Password => j = 0, NEW q, q = Part(P, 0, EndOf(E, j)), NEW f
    PROVE  Outcome(Finish(x, f), x.init, q, W, E, z, w, P, h, f)
<1> DEFINE r == Finish(x, f)
<1>1. Increasing(E)
  BY DEF Sealed
<1>2. /\ Len(E) \in Nat /\ EndOf(E, 0) = 0 /\ Off(E, 0) = 1
      /\ \A k \in 0..Len(E) : EndOf(E, k) \in Nat /\ Off(E, k) \in Nat /\ Off(E, k) >= 1
  BY <1>1, Offsets
<1>3. h > 1
  BY <1>2
<1>4. q \o <<>> = q
  <2>1. IsSeq(q) /\ IsSeq(<<>>) /\ Len(<<>>) = 0
    BY <1>2, PartSeq, EmptyIsSeq
  <2>2. q \in Seq(Values(q))
    BY <2>1, SeqOfValues
  <2> HIDE DEF r
  <2>3. QED BY <2>2, ConcatProperties
<1>5. CASE w # Password
  <2>1. j = 0 /\ Stands(x, W, E, z, 0, h) /\ x.init = 1
    BY <1>5
  <2>2. r = [err |-> IF h <= 3 THEN "NEED_MORE" ELSE "ERROR", buf |-> <<>>, ctx |-> x, pp |-> f]
    BY <1>3, <1>5, <2>1, FinishRefuses
  <2>3. q = <<>>
    <3>1. q = Part(P, 0, 0)
      BY <1>2, <2>1
    <3>2. QED BY <3>1, PartSeq
  <2>4. CASE h <= 3
    <3>1. r.err = "NEED_MORE" /\ r.buf = <<>> /\ r.ctx = x /\ r.pp = f
      BY <2>2, <2>4
    <3>2. Reads(x, q, W, E, z, w, P, h)
      <4>1. /\ 0 \in 0..Len(E) /\ Stands(x, W, E, z, 0, h) /\ Off(E, 0) <= h
            /\ q = Part(P, 0, EndOf(E, 0)) /\ (x.init = 2 <=> 0 >= 1)
            /\ (w = Password => 0 = Len(E) \/ h < Off(E, 0 + 1)) /\ (w # Password => 0 = 0 /\ h <= 3)
        BY <1>2, <1>3, <1>5, <2>1, <2>4
      <4>2. QED BY <4>1, <2>1, <1>3 DEF Reads
    <3> HIDE DEF r
    <3>3. QED BY <3>1, <3>2, <1>4, <2>1, EmptyIsSeq DEF Outcome, r
  <2>5. CASE h > 3
    <3>1. r.err = "ERROR" /\ r.buf = <<>> /\ r.ctx = x /\ r.pp = f
      BY <2>2, <2>5
    <3> HIDE DEF r
    <3>2. QED BY <3>1, <1>4, <1>5, <2>1, <2>3 DEF Outcome, r
  <2>6. QED BY <2>4, <2>5
<1>6. CASE w = Password
  <2>1. PICK i \in j..Len(E) :
                 /\ Off(E, i) <= h /\ (i = Len(E) \/ h < Off(E, i + 1))
                 /\ \/ /\ i = j /\ r.err = "NEED_MORE" /\ r.buf = <<>> /\ r.pp = f
                       /\ Stands(r.ctx, W, E, z, i, h) /\ r.ctx.init = x.init
                    \/ /\ x.init = 2 \/ ~ppbloom_check(f, z)
                       /\ i > j /\ r.err = "OK"
                       /\ r.buf = Part(P, EndOf(E, j), EndOf(E, i) - EndOf(E, j))
                       /\ r.pp = IF x.init = 2 THEN f ELSE ppbloom_add(f, z)
                       /\ Stands(r.ctx, W, E, z, i, h) /\ r.ctx.init = 2
                    \/ /\ i > j /\ r.err = "ERROR" /\ r.buf = <<>> /\ r.pp = f
                       /\ x.init = 1 /\ r.ctx.init = 1 /\ ppbloom_check(f, z)
    BY <1>6, FinishOpens
  <2> HIDE DEF r
  <2>2. i \in 0..Len(E) /\ i >= j /\ j \in Nat /\ i \in Nat
    BY <1>2
  <2>3. CASE i = j /\ r.err = "NEED_MORE" /\ r.buf = <<>> /\ r.pp = f
             /\ Stands(r.ctx, W, E, z, i, h) /\ r.ctx.init = x.init
    <3>1. Reads(r.ctx, q, W, E, z, w, P, h)
      BY <1>3, <1>6, <2>1, <2>2, <2>3 DEF Reads
    <3>2. QED BY <3>1, <1>4, <2>3, EmptyIsSeq DEF Outcome, r
  <2>4. CASE /\ x.init = 2 \/ ~ppbloom_check(f, z)
             /\ i > j /\ r.err = "OK"
             /\ r.buf = Part(P, EndOf(E, j), EndOf(E, i) - EndOf(E, j))
             /\ r.pp = IF x.init = 2 THEN f ELSE ppbloom_add(f, z)
             /\ Stands(r.ctx, W, E, z, i, h) /\ r.ctx.init = 2
    <3> DEFINE a == EndOf(E, j)
               b == EndOf(E, i)
    <3>1. a \in Nat /\ b \in Nat
      BY <1>2, <2>2
    <3>2. b - a \in Nat \ {0} /\ a + (b - a) = b /\ 0 + a = a
      <4>1. \A k, l \in 0..Len(E) : k <= l => EndOf(E, l) >= EndOf(E, k) + (l - k)
        BY <1>1 DEF Increasing
      <4>2. b >= a + (i - j)
        BY <4>1, <2>2
      <4>3. i > j
        BY <2>4
      <4> HIDE DEF a, b
      <4>4. QED BY <4>2, <4>3, <3>1, <2>2
    <3>3. q \o r.buf = Part(P, 0, b)
      <4>1. q = Part(P, 0, a) /\ r.buf = Part(P, 0 + a, b - a)
        BY <2>4, <3>2
      <4> DEFINE o == 0
                 n == b - a
      <4>2. o \in Nat /\ n \in Nat /\ a + n = b /\ q = Part(P, o, a) /\ r.buf = Part(P, o + a, n)
        BY <4>1, <3>2
      <4> HIDE DEF a, b, o, n
      <4>3. o \in Nat /\ a \in Nat /\ n \in Nat
        BY <4>2, <3>1
      <4>4. Part(P, o, a) \o Part(P, o + a, n) = Part(P, o, a + n)
        BY <4>3, PartJoin
      <4>5. QED BY <4>2, <4>4 DEF o
    <3>4. r.ctx.init \in 1..2 /\ (r.ctx.init = 2 <=> i >= 1)
      BY <2>2, <2>4
    <3>10. r.buf # <<>> /\ IsSeq(r.buf)
      <4> HIDE DEF a, b
      <4> DEFINE n == b - a
      <4>1. a \in Nat /\ n \in Nat /\ n # 0
        BY <3>1, <3>2
      <4>2. r.buf = Part(P, a, n)
        BY <2>4 DEF a, b
      <4> HIDE DEF n
      <4>3. ((Part(P, a, n) = <<>>) <=> (n = 0)) /\ IsSeq(Part(P, a, n))
        BY <4>1, PartSeq
      <4>4. QED BY <4>1, <4>2, <4>3
    <3>5. Reads(r.ctx, q \o r.buf, W, E, z, w, P, h)
      BY <1>3, <1>6, <2>1, <2>2, <2>4, <3>3, <3>4 DEF Reads
    <3>6. r.ctx.salt = z
      BY <2>4 DEF Stands
    <3>7. CASE x.init = 2
      BY <3>5, <3>7, <3>10, <2>4 DEF Outcome, r
    <3>8. CASE x.init # 2
      BY <3>5, <3>6, <3>8, <3>10, <2>4, <1>6 DEF Outcome, r
    <3>9. QED BY <3>7, <3>8
  <2>5. CASE i > j /\ r.err = "ERROR" /\ r.buf = <<>> /\ r.pp = f
             /\ x.init = 1 /\ r.ctx.init = 1 /\ ppbloom_check(f, z)
    <3>1. j = 0
      BY <2>5, <2>2
    <3>2. q = Part(P, 0, 0)
      BY <3>1, <1>2
    <3>3. q = <<>>
      BY <3>2, PartSeq
    <3>4. QED BY <3>3, <2>5, <1>4 DEF Outcome, r
  <2>6. QED BY <2>1, <2>3, <2>4, <2>5
<1>7. QED BY <1>5, <1>6

\* And so has aead_decrypt of what arrives next, wherever the network cuts.
LEMMA DecryptOutcome ==
    ASSUME NEW W, NEW E, NEW z, NEW w, NEW P, Sealed(W, E, z, w, P),
           NEW g \in Nat, NEW h \in Nat, g < h, h <= Len(W),
           NEW x, NEW q, Reads(x, q, W, E, z, w, P, g), NEW f
    PROVE  Outcome(aead_decrypt(Cut(W, g, h), x, f), x.init, q, W, E, z, w, P, h, f)
<1> DEFINE r == aead_decrypt(Cut(W, g, h), x, f)
<1>1. Increasing(E)
  BY DEF Sealed
<1>2. /\ Len(E) \in Nat /\ EndOf(E, 0) = 0 /\ Off(E, 0) = 1
      /\ \A k \in 0..Len(E) : EndOf(E, k) \in Nat /\ Off(E, k) \in Nat /\ Off(E, k) >= 1
  BY <1>1, Offsets
<1>3. E # <<>> /\ W[1] = SaltUnit(z)
  <2>1. Len(<<>>) = 0 /\ (E = <<>> => W = <<>>)
    BY EmptyIsSeq DEF Sealed
  <2>2. E # <<>>
    BY <2>1
  <2>3. QED BY <2>2 DEF Sealed
<1>4. CASE IsContext(x) /\ x.init = 0 /\ x.chunk = Cut(W, 0, g) /\ g <= 1 /\ q = <<>>
  <2>1. /\ h = 1 => /\ r.err = "NEED_MORE" /\ r.buf = <<>> /\ r.pp = f
                    /\ IsContext(r.ctx) /\ r.ctx.init = 0 /\ r.ctx.chunk = Cut(W, 0, h)
        /\ h > 1 /\ ppbloom_check(f, z) =>
               r.err = "ERROR" /\ r.buf = <<>> /\ r.pp = f /\ r.ctx.init = 0
        /\ h > 1 /\ ~ppbloom_check(f, z) =>
               \E y : Stands(y, W, E, z, 0, h) /\ y.init = 1 /\ r = Finish(y, f)
    <3>1. /\ W[1] = SaltUnit(z) /\ g <= h /\ 1 <= h
          /\ IsContext(x) /\ x.init = 0 /\ x.chunk = Cut(W, 0, g)
      BY <1>3, <1>4
    <3>2. Starts(aead_decrypt(Cut(W, g, h), x, f), W, E, z, h, f)
      BY <3>1, DecryptStarts
    <3> HIDE DEF r
    <3>3. QED BY <3>2 DEF r, Starts
  <2> HIDE DEF r
  <2>2. q \o <<>> = <<>>
    <3>1. q \in Seq({}) /\ q = <<>>
      BY <1>4
    <3>2. QED BY <3>1, ConcatProperties
  <2>3. CASE h = 1
    <3>1. Reads(r.ctx, <<>>, W, E, z, w, P, h)
      BY <2>1, <2>3 DEF Reads
    <3>2. QED BY <3>1, <2>1, <2>2, <2>3, <1>4, EmptyIsSeq DEF Outcome, r
  <2>4. CASE h > 1 /\ ppbloom_check(f, z)
    BY <2>1, <2>2, <2>4, <1>4 DEF Outcome, r
  <2>5. CASE h > 1 /\ ~ppbloom_check(f, z)
    <3>1. PICK y : Stands(y, W, E, z, 0, h) /\ y.init = 1 /\ r = Finish(y, f)
      BY <2>1, <2>5
    <3>2. q = Part(P, 0, EndOf(E, 0))
      <4>1. Part(P, 0, 0) = <<>>
        BY PartSeq
      <4>2. QED BY <4>1, <1>2, <1>4
    <3> DEFINE j == 0
    <3>3. /\ j \in 0..Len(E) /\ Off(E, j) < h /\ Stands(y, W, E, z, j, h) /\ y.init \in 1..2
          /\ (y.init = 2 <=> j >= 1) /\ j = 0 /\ q = Part(P, 0, EndOf(E, j))
      BY <3>1, <3>2, <2>5, <1>2
    <3> HIDE DEF j
    <3>4. Outcome(Finish(y, f), y.init, q, W, E, z, w, P, h, f)
      BY <3>3, <1>3, FinishOutcome
    <3>5. QED BY <3>4, <3>1, <1>4 DEF Outcome, r
  <2>6. h = 1 \/ h > 1
    OBVIOUS
  <2>7. QED BY <2>3, <2>4, <2>5, <2>6
<1>5. CASE x.init \in 1..2 /\ g > 1 /\ \E j \in 0..Len(E) :
              /\ Stands(x, W, E, z, j, g) /\ Off(E, j) <= g
              /\ q = Part(P, 0, EndOf(E, j))
              /\ x.init = 2 <=> j >= 1
              /\ w = Password => j = Len(E) \/ g < Off(E, j + 1)
              /\ w # Password => j = 0 /\ g <= 3
  <2>1. PICK j \in 0..Len(E) :
              /\ Stands(x, W, E, z, j, g) /\ Off(E, j) <= g
              /\ q = Part(P, 0, EndOf(E, j))
              /\ x.init = 2 <=> j >= 1
              /\ w = Password => j = Len(E) \/ g < Off(E, j + 1)
              /\ w # Password => j = 0 /\ g <= 3
    BY <1>5
  <2> DEFINE o == Off(E, j)
  <2>2. o \in Nat /\ o = Off(E, j) /\ o <= g /\ o < h /\ g <= h
    BY <2>1, <1>2
  <2> HIDE DEF o
  <2>3. PICK y : /\ Stands(y, W, E, z, j, h) /\ y.init = x.init
                 /\ r = Finish(y, f)
    <3>1. Stands(x, W, E, z, j, g) /\ x.init \in 1..2
      BY <2>1, <1>5
    <3>2. QED BY <3>1, <2>2, DecryptGoesOn
  <2>4. Off(E, j) < h /\ y.init \in 1..2 /\ (y.init = 2 <=> j >= 1)
    BY <2>1, <2>2, <2>3, <1>5
  <2> HIDE DEF r
  <2>5. Outcome(Finish(y, f), y.init, q, W, E, z, w, P, h, f)
    BY <2>1, <2>3, <2>4, <1>3, FinishOutcome
  <2>6. QED BY <2>3, <2>5 DEF r
<1>6. QED BY <1>4, <1>5 DEF Reads

\* What is sealed behind it does not change what a connection has read.
LEMMA ReadsKept ==
    ASSUME NEW W, NEW E, NEW z, NEW w, NEW P, Sealed(W, E, z, w, P), NEW B, IsSeq(B),
           NEW n \in Nat \ {0}, NEW F, F = Append(E, EndOf(E, Len(E)) + n),
           NEW g \in 0..Len(W), NEW x, NEW q, Reads(x, q, W, E, z, w, P, g)
    PROVE  Reads(x, q, W \o B, F, z, w, P, g)
<1>1. Increasing(E) /\ IsSeq(W)
  BY DEF Sealed
<1>2. /\ Len(E) \in Nat /\ Off(E, 0) = 1
      /\ \A k \in 0..Len(E) : EndOf(E, k) \in Nat /\ Off(E, k) \in Nat /\ Off(E, k) >= 1
  BY <1>1, Offsets
<1>3. Len(W) \in Nat /\ g \in Nat /\ g <= Len(W)
  BY <1>1 DEF IsSeq
<1>4. /\ Len(F) = Len(E) + 1
      /\ \A k \in 0..Len(E) : EndOf(F, k) = EndOf(E, k) /\ Off(F, k) = Off(E, k)
      /\ Off(F, Len(E) + 1) = Off(E, Len(E)) + n + 2
  BY <1>1, EndsAppend
<1>5. CASE IsContext(x) /\ x.init = 0 /\ x.chunk = Cut(W, 0, g) /\ g <= 1 /\ q = <<>>
  <2>1. Cut(W \o B, 0, g) = Cut(W, 0, g)
    <3> DEFINE o == 0
    <3>1. o \in Nat /\ o <= g
      BY <1>3
    <3> HIDE DEF o
    <3>2. Cut(W \o B, o, g) = Cut(W, o, g)
      BY <3>1, <1>1, <1>3, CutKept
    <3>3. QED BY <3>2 DEF o
  <2>2. QED BY <2>1, <1>5 DEF Reads
<1>6. CASE x.init \in 1..2 /\ g > 1 /\ \E j \in 0..Len(E) :
              /\ Stands(x, W, E, z, j, g) /\ Off(E, j) <= g
              /\ q = Part(P, 0, EndOf(E, j))
              /\ x.init = 2 <=> j >= 1
              /\ w = Password => j = Len(E) \/ g < Off(E, j + 1)
              /\ w # Password => j = 0 /\ g <= 3
  <2>1. PICK j \in 0..Len(E) :
              /\ Stands(x, W, E, z, j, g) /\ Off(E, j) <= g
              /\ q = Part(P, 0, EndOf(E, j))
              /\ x.init = 2 <=> j >= 1
              /\ w = Password => j = Len(E) \/ g < Off(E, j + 1)
              /\ w # Password => j = 0 /\ g <= 3
    BY <1>6
  <2>2. j \in 0..Len(F) /\ Off(F, j) = Off(E, j) /\ EndOf(F, j) = EndOf(E, j) /\ Off(E, j) \in Nat
    BY <1>2, <1>4
  <2>3. Cut(W \o B, Off(E, j), g) = Cut(W, Off(E, j), g)
    BY <2>1, <2>2, <1>1, <1>3, CutKept
  <2>4. Stands(x, W \o B, F, z, j, g)
    BY <2>1, <2>2, <2>3 DEF Stands
  <2>5. w = Password => g < Off(F, j + 1)
    <3>1. E # <<>> /\ Len(W) = Off(E, Len(E))
      <4>1. E # <<>>
        BY <1>3, <1>6, EmptyIsSeq DEF Sealed
      <4>2. QED BY <4>1 DEF Sealed
    <3>2. CASE j = Len(E)
      <4>1. Off(E, Len(E)) \in Nat
        BY <1>2
      <4>2. g < Off(E, Len(E)) + n + 2
        BY <4>1, <3>1, <1>3
      <4>3. QED BY <4>2, <3>2, <1>4
    <3>3. CASE j < Len(E) /\ g < Off(E, j + 1)
      <4>1. j + 1 \in 0..Len(E)
        BY <3>3, <1>2
      <4>2. QED BY <4>1, <3>3, <1>4
    <3>4. QED BY <2>1, <3>2, <3>3, <1>2
  <2>6. QED BY <2>1, <2>2, <2>4, <2>5, <1>6 DEF Reads
<1>7. QED BY <1>5, <1>6 DEF Reads

\* A connection has accepted a chunk when it has handed over payload.
LEMMA ReadsOut ==
    ASSUME NEW W, NEW E, NEW z, NEW w, NEW P, Increasing(E),
           NEW x, NEW q, NEW g, Reads(x, q, W, E, z, w, P, g)
    PROVE  x.init \in 0..2 /\ (q # <<>> <=> x.init = 2) /\ (x.init = 2 => w = Password)
<1>1. /\ Len(E) \in Nat /\ EndOf(E, 0) = 0
      /\ \A k \in 0..Len(E) : EndOf(E, k) \in Nat
  BY Offsets
<1>2. CASE x.init = 0 /\ q = <<>>
  BY <1>2
<1>3. CASE x.init \in 1..2 /\ \E j \in 0..Len(E) :
              q = Part(P, 0, EndOf(E, j)) /\ (x.init = 2 <=> j >= 1) /\ (w # Password => j = 0)
  <2>1. PICK j \in 0..Len(E) :
              q = Part(P, 0, EndOf(E, j)) /\ (x.init = 2 <=> j >= 1) /\ (w # Password => j = 0)
    BY <1>3
  <2> DEFINE o == 0
             n == EndOf(E, j)
  <2>2. o \in Nat /\ n \in Nat /\ q = Part(P, o, n)
    BY <2>1, <1>1
  <2>3. n = 0 <=> j = 0
    <3>1. \A a, b \in 0..Len(E) : a <= b => EndOf(E, b) >= EndOf(E, a) + (b - a)
      BY DEF Increasing
    <3>2. 0 \in 0..Len(E) /\ 0 <= j
      BY <1>1
    <3>3. EndOf(E, j) >= EndOf(E, 0) + (j - 0)
      BY <3>1, <3>2
    <3>4. QED BY <3>3, <1>1
  <2> HIDE DEF o, n
  <2>4. Part(P, o, n) = <<>> <=> n = 0
    BY <2>2, PartSeq
  <2>5. q # <<>> <=> x.init = 2
    BY <2>1, <2>2, <2>3, <2>4, <1>1
  <2>6. x.init = 2 => w = Password
    BY <2>1
  <2>7. QED BY <2>5, <2>6, <1>3
<1>4. QED BY <1>2, <1>3 DEF Reads

------------------------------------------------------------------------------
(* The invariant *)

\* The payload of every answer: byte i is i.
Numbers == [i \in Nat |-> i]

\* The sender of an answer has sealed the chunks it sent.
PeerOK(s) ==
    /\ Sealed(wire[s], sent[s], salt[s], password[s], Numbers)
    /\ peer[s] = [init |-> IF sent[s] = <<>> THEN 0 ELSE 1, salt |-> salt[s],
                  nonce |-> 2 * Len(sent[s]), chunk |-> <<>>]

\* A connection has read what arrived, or was closed for a reason.
ReaderOK(s) ==
    /\ got[s] \in 0..Len(wire[s])
    /\ s \in open =>
           Reads(ctx[s], out[s], wire[s], sent[s], salt[s], password[s], Numbers, got[s])
    /\ s \notin open =>
           /\ out[s] = <<>> /\ ctx[s].init \in 0..1
           /\ password[s] # Password \/ \E i \in DOMAIN log : log[i] = salt[s]

OwnOK(o) ==
    /\ own[o].init \in 0..1
    /\ own[o] = [init |-> own[o].init, salt |-> o, nonce |-> 2 * own[o].init, chunk |-> <<>>]

Domains ==
    /\ DOMAIN salt = Streams /\ DOMAIN password = Streams /\ DOMAIN peer = Streams
    /\ DOMAIN wire = Streams /\ DOMAIN got = Streams /\ DOMAIN ctx = Streams
    /\ DOMAIN out = Streams /\ DOMAIN sent = Streams /\ DOMAIN own = OwnSalts
    /\ open \subseteq Streams
    /\ \A s \in Streams : salt[s] \in Salts

FilterOK == log \in Seq(Salts) /\ FilterHolds(pp, log)

\* The inductive invariant.
StreamsIInv ==
    /\ Domains
    /\ FilterOK
    /\ OnlyAuthenticSaltsKept
    /\ \A o \in OwnSalts : OwnOK(o)
    /\ \A s \in Streams : PeerOK(s)
    /\ \A s \in Streams : ReaderOK(s)

\* The log only grows.
LEMMA LogGrows ==
    ASSUME NEW S, NEW q \in Seq(S), NEW z \in S
    PROVE  /\ Append(q, z) \in Seq(S) /\ DOMAIN Append(q, z) = 1..(Len(q) + 1)
           /\ DOMAIN q = 1..Len(q) /\ Len(q) \in Nat /\ Append(q, z)[Len(q) + 1] = z
           /\ \A i \in DOMAIN q : i \in DOMAIN Append(q, z) /\ Append(q, z)[i] = q[i]
<1>1. DOMAIN q = 1..Len(q) /\ Len(q) \in Nat
  BY LenProperties
<1>2. /\ Append(q, z) \in Seq(S) /\ DOMAIN Append(q, z) = 1..(Len(q) + 1)
      /\ Append(q, z)[Len(q) + 1] = z /\ \A i \in 1..Len(q) : Append(q, z)[i] = q[i]
  BY <1>1, AppendProperties
<1>3. QED BY <1>1, <1>2

\* It holds at the start.
LEMMA StreamsInitOK == StreamsInit => StreamsIInv
<1> SUFFICES ASSUME StreamsInit PROVE StreamsIInv
  OBVIOUS
<1>1. Domains
  BY DEF StreamsInit, Domains
<1>2. Len(<<>>) = 0 /\ IsSeq(<<>>) /\ <<>> \in Seq(Nat) /\ <<>> \in Seq(Salts) /\ DOMAIN <<>> = {}
  BY EmptyIsSeq
<1>3. FilterOK
  <2>1. log = <<>> /\ pp = ppbloom_init
    BY DEF StreamsInit
  <2>2. /\ ppbloom_init.bloom = [i \in {PING, PONG} |-> {}]
        /\ ppbloom_init.bloom_count = [i \in {PING, PONG} |-> 0] /\ ppbloom_init.current = PING
        /\ ppbloom_init = [bloom |-> ppbloom_init.bloom, bloom_count |-> ppbloom_init.bloom_count,
                           current |-> ppbloom_init.current]
    BY DEF ppbloom_init
  <2>3. 1 - PING = PONG /\ PING # PONG /\ Entries > 0
    BY EntriesAssumption DEF PING, PONG
  <2>4. FilterHolds(ppbloom_init, <<>>)
    BY <2>2, <2>3, <1>2 DEF FilterHolds
  <2>5. QED BY <2>1, <2>4, <1>2 DEF FilterOK
<1>4. OnlyAuthenticSaltsKept
  BY <1>2 DEF StreamsInit, OnlyAuthenticSaltsKept
<1>5. ASSUME NEW o \in OwnSalts PROVE OwnOK(o)
  BY DEF StreamsInit, OwnOK, aead_ctx_init
<1>6. Increasing(<<>>)
  <2>1. \A a, b \in 0..0 : a <= b => EndOf(<<>>, b) >= EndOf(<<>>, a) + (b - a)
    BY DEF EndOf
  <2>2. QED BY <2>1, <1>2 DEF Increasing
<1>7. ASSUME NEW s \in Streams PROVE PeerOK(s)
  <2>1. wire[s] = <<>> /\ sent[s] = <<>>
        /\ peer[s] = [init |-> 0, salt |-> salt[s], nonce |-> 0, chunk |-> <<>>]
    BY DEF StreamsInit, aead_ctx_init
  <2>2. QED BY <2>1, <1>2, <1>6 DEF PeerOK, Sealed
<1>8. ASSUME NEW s \in Streams PROVE ReaderOK(s)
  <2>1. /\ wire[s] = <<>> /\ got[s] = 0 /\ s \in open /\ out[s] = <<>>
        /\ ctx[s] = [init |-> 0, salt |-> "none", nonce |-> 0, chunk |-> <<>>]
    BY DEF StreamsInit, aead_ctx_init
  <2>2. IsContext(ctx[s]) /\ ctx[s].init = 0 /\ ctx[s].chunk = <<>>
    BY <2>1 DEF IsContext
  <2>3. Cut(wire[s], 0, 0) = <<>>
    BY CutEnds
  <2>4. QED BY <2>1, <2>2, <2>3, <1>2 DEF ReaderOK, Reads
<1>9. QED BY <1>1, <1>3, <1>4, <1>5, <1>7, <1>8 DEF StreamsIInv

\* ss-local seals its own direction and remembers its salt.
LEMMA SendKeeps ==
    ASSUME StreamsIInv, NEW o \in OwnSalts, Send(o)
    PROVE  StreamsIInv' /\ ctx' = ctx
<1> DEFINE r == aead_encrypt(<<0>>, Password, own[o], pp)
<1>1. /\ own[o].nonce < 2 /\ own' = [own EXCEPT ![o] = r.ctx] /\ pp' = r.pp
      /\ log' = IF own[o].init = 0 THEN Append(log, o) ELSE log
      /\ salt' = salt /\ password' = password /\ peer' = peer /\ wire' = wire /\ got' = got
      /\ ctx' = ctx /\ open' = open /\ out' = out /\ sent' = sent
  BY DEF Send
<1>2. /\ own[o].init = 0 /\ own[o].salt = o
      /\ own[o] = [init |-> 0, salt |-> o, nonce |-> 0, chunk |-> <<>>]
  <2>1. OwnOK(o)
    BY DEF StreamsIInv
  <2>2. own[o].nonce = 2 * own[o].init /\ own[o].init \in 0..1 /\ own[o].salt = o
    BY <2>1 DEF OwnOK
  <2>3. own[o].init = 0
    BY <2>2, <1>1
  <2>4. QED BY <2>1, <2>2, <2>3 DEF OwnOK
<1>3. r.ctx = [init |-> 1, salt |-> o, nonce |-> 2, chunk |-> <<>>] /\ r.pp = ppbloom_add(pp, o)
  <2>1. <<0>> # <<>>
    OBVIOUS
  <2>2. r.ctx = [own[o] EXCEPT !.init = 1, !.nonce = @ + 2] /\ r.pp = ppbloom_add(pp, own[o].salt)
    BY <2>1, <1>2 DEF aead_encrypt
  <2> DEFINE x == own[o]
             b == x.nonce + 2
  <2>3. IsContext(x) /\ x.salt = o /\ x.chunk = <<>> /\ b = 2 /\ r.ctx = [x EXCEPT !.init = 1, !.nonce = b]
    BY <2>2, <1>2 DEF IsContext
  <2> HIDE DEF x, b
  <2>4. [x EXCEPT !.init = 1, !.nonce = b] = [init |-> 1, salt |-> x.salt, nonce |-> b, chunk |-> x.chunk]
    BY <2>3, ContextSealed
  <2>5. QED BY <2>2, <2>3, <2>4, <1>2
<1> HIDE DEF r
<1>4. Domains /\ FilterOK
  BY DEF StreamsIInv
<1>5. o \in Salts /\ log \in Seq(Salts)
  BY <1>4 DEF Salts, FilterOK
<1>6. log' = Append(log, o)
  BY <1>1, <1>2
<1>7. /\ log' \in Seq(Salts) /\ DOMAIN log' = 1..(Len(log) + 1)
      /\ DOMAIN log = 1..Len(log) /\ Len(log) \in Nat /\ log'[Len(log) + 1] = o
      /\ \A i \in DOMAIN log : i \in DOMAIN log' /\ log'[i] = log[i]
  BY <1>5, <1>6, LogGrows
<1>8. Domains'
  BY <1>1, <1>4 DEF Domains, Salts
<1>9. FilterOK'
  <2>1. FilterHolds(ppbloom_add(pp, o), Append(log, o))
    BY <1>4, <1>5, FilterAdd DEF FilterOK
  <2>2. QED BY <2>1, <1>1, <1>3, <1>6, <1>7 DEF FilterOK, Salts
<1>10. \A p \in OwnSalts : own'[p] = IF p = o THEN r.ctx ELSE own[p]
  BY <1>1, <1>4 DEF Domains
<1>11. ASSUME NEW p \in OwnSalts PROVE OwnOK(p)'
  <2>1. OwnOK(p)
    BY DEF StreamsIInv
  <2>2. CASE p = o
    BY <2>2, <1>3, <1>10 DEF OwnOK
  <2>3. CASE p # o
    BY <2>1, <2>3, <1>10 DEF OwnOK
  <2>4. QED BY <2>2, <2>3
<1>12. OnlyAuthenticSaltsKept'
  <2> SUFFICES ASSUME NEW i \in DOMAIN log'
               PROVE  \/ log'[i] \in OwnSalts /\ own'[log'[i]].init = 1
                      \/ \E s \in Streams : salt[s] = log'[i] /\ password[s] = Password /\ out[s] # <<>>
    BY <1>1 DEF OnlyAuthenticSaltsKept
  <2>1. CASE i = Len(log) + 1
    BY <2>1, <1>3, <1>7, <1>10
  <2>2. CASE i \in DOMAIN log
    <3>1. \/ log[i] \in OwnSalts /\ own[log[i]].init = 1
          \/ \E s \in Streams : salt[s] = log[i] /\ password[s] = Password /\ out[s] # <<>>
      BY <2>2 DEF StreamsIInv, OnlyAuthenticSaltsKept
    <3>2. QED BY <3>1, <2>2, <1>3, <1>7, <1>10
  <2>3. QED BY <2>1, <2>2, <1>7
<1>13. ASSUME NEW s \in Streams PROVE PeerOK(s)' /\ ReaderOK(s)'
  <2>1. PeerOK(s) /\ ReaderOK(s)
    BY DEF StreamsIInv
  <2>2. PeerOK(s)'
    BY <2>1, <1>1 DEF PeerOK
  <2>3. ReaderOK(s)'
    BY <2>1, <1>1, <1>7 DEF ReaderOK
  <2>4. QED BY <2>2, <2>3
<1>14. QED BY <1>1, <1>8, <1>9, <1>11, <1>12, <1>13 DEF StreamsIInv

\* The other side seals the next chunk.
LEMMA AnswerKeeps ==
    ASSUME StreamsIInv, NEW s \in Streams, NEW n \in 1..CHUNK_SIZE_MASK, Answer(s, n)
    PROVE  StreamsIInv' /\ ctx' = ctx
<1> DEFINE W == wire[s]
           E == sent[s]
           T == EndOf(E, Len(E))
           F == Append(E, T + n)
           r == aead_encrypt(Part(Numbers, T, n), password[s], peer[s], ppbloom_init)
<1>1. Domains /\ PeerOK(s) /\ Increasing(E) /\ Sealed(W, E, salt[s], password[s], Numbers)
  BY DEF StreamsIInv, PeerOK, Sealed
<1>2. T \in Nat /\ n \in Nat \ {0}
  <2>1. Len(E) \in Nat /\ \A k \in 0..Len(E) : EndOf(E, k) \in Nat
    BY <1>1, Offsets
  <2>2. Len(E) \in 0..Len(E)
    BY <2>1
  <2>3. n \in Nat \ {0}
    BY AeadStreamAssumption
  <2>4. QED BY <2>1, <2>2, <2>3
<1>3. Answered(s) = T
  BY DEF Answered, Upto, EndOf
<1>4. [i \in 1..n |-> Answered(s) + i] = Part(Numbers, T, n)
  <2> HIDE DEF T
  <2>1. \A i \in 1..n : Numbers[T + i] = T + i
    BY <1>2 DEF Numbers
  <2>2. QED BY <2>1, <1>3 DEF Part
<1>5. /\ peer' = [peer EXCEPT ![s] = r.ctx] /\ wire' = [wire EXCEPT ![s] = wire[s] \o r.buf]
      /\ sent' = [sent EXCEPT ![s] = F]
      /\ salt' = salt /\ password' = password /\ own' = own /\ got' = got
      /\ ctx' = ctx /\ open' = open /\ out' = out /\ pp' = pp /\ log' = log
  BY <1>3, <1>4 DEF Answer
<1>6. /\ Sealed(W \o r.buf, F, salt[s], password[s], Numbers) /\ IsSeq(r.buf)
      /\ r.ctx = [init |-> 1, salt |-> salt[s], nonce |-> 2 * Len(F), chunk |-> <<>>]
  <2>1. peer[s] = [init |-> IF E = <<>> THEN 0 ELSE 1, salt |-> salt[s], nonce |-> 2 * Len(E),
                   chunk |-> <<>>]
    BY <1>1 DEF PeerOK
  <2> DEFINE z == salt[s]
             w == password[s]
             x == peer[s]
  <2>2. /\ Sealed(W, E, z, w, Numbers)
        /\ x = [init |-> IF E = <<>> THEN 0 ELSE 1, salt |-> z, nonce |-> 2 * Len(E), chunk |-> <<>>]
    BY <2>1, <1>1
  <2> HIDE DEF W, E, z, w, x
  <2>3. LET r0 == aead_encrypt(Part(Numbers, T, n), w, x, ppbloom_init)
        IN  /\ Sealed(W \o r0.buf, F, z, w, Numbers) /\ IsSeq(r0.buf)
            /\ r0.ctx = [init |-> 1, salt |-> z, nonce |-> 2 * Len(F), chunk |-> <<>>]
    BY <2>2, <1>2, SealMore
  <2>4. QED BY <2>3 DEF z, w, x
<1>7. F # <<>> /\ Len(F) = Len(E) + 1
  BY <1>1, <1>2, EndsAppend
<1> HIDE DEF r, F, T
<1>8. Domains'
  BY <1>1, <1>5 DEF Domains, Salts
<1>9. FilterOK' /\ OnlyAuthenticSaltsKept' /\ \A o \in OwnSalts : OwnOK(o)'
  BY <1>5 DEF StreamsIInv, FilterOK, OnlyAuthenticSaltsKept, OwnOK, Salts
<1>10. /\ wire'[s] = W \o r.buf /\ sent'[s] = F /\ peer'[s] = r.ctx
       /\ \A t \in Streams : t # s => wire'[t] = wire[t] /\ sent'[t] = sent[t] /\ peer'[t] = peer[t]
  BY <1>1, <1>5 DEF Domains
<1>11. ASSUME NEW t \in Streams, t # s PROVE PeerOK(t)' /\ ReaderOK(t)'
  <2>1. PeerOK(t) /\ ReaderOK(t)
    BY DEF StreamsIInv
  <2>2. wire'[t] = wire[t] /\ sent'[t] = sent[t] /\ peer'[t] = peer[t]
    BY <1>10, <1>11
  <2>3. PeerOK(t)'
    BY <2>1, <2>2, <1>5 DEF PeerOK
  <2>4. ReaderOK(t)'
    BY <2>1, <2>2, <1>5 DEF ReaderOK
  <2>5. QED BY <2>3, <2>4
<1>12. PeerOK(s)'
  BY <1>5, <1>6, <1>7, <1>10 DEF PeerOK
<1>13. ReaderOK(s)'
  <2>1. ReaderOK(s) /\ IsSeq(W)
    BY <1>1 DEF StreamsIInv, Sealed
  <2>2. got[s] \in 0..Len(W) /\ got'[s] = got[s] /\ Len(W) \in Nat
    BY <2>1, <1>5 DEF ReaderOK, IsSeq
  <2>3. Len(W \o r.buf) = Len(W) + Len(r.buf) /\ Len(r.buf) \in Nat
    BY <2>1, <1>6, ConcatSeq DEF IsSeq
  <2>4. got'[s] \in 0..Len(wire'[s])
    <3> DEFINE a == Len(W)
               b == Len(r.buf)
               g == got[s]
    <3>1. a \in Nat /\ b \in Nat /\ g \in 0..a /\ got'[s] = g /\ Len(wire'[s]) = a + b
      BY <2>2, <2>3, <1>10
    <3> HIDE DEF a, b, g
    <3>2. g \in 0..(a + b)
      BY <3>1
    <3>3. QED BY <3>1, <3>2
  <2>5. s \in open => Reads(ctx[s], out[s], W \o r.buf, F, salt[s], password[s], Numbers, got[s])
    <3> DEFINE z == salt[s]
               w == password[s]
               g == got[s]
               x == ctx[s]
               q == out[s]
               B == r.buf
    <3> SUFFICES ASSUME s \in open PROVE Reads(x, q, W \o B, F, z, w, Numbers, g)
      OBVIOUS
    <3>1. Reads(x, q, W, E, z, w, Numbers, g) /\ g \in 0..Len(W) /\ IsSeq(B)
          /\ Sealed(W, E, z, w, Numbers) /\ F = Append(E, EndOf(E, Len(E)) + n)
      BY <2>1, <2>2, <1>1, <1>6 DEF ReaderOK, F, T
    <3> HIDE DEF W, E, z, w, g, x, q, B
    <3>2. QED BY <3>1, <1>2, ReadsKept
  <2>6. QED BY <2>1, <2>4, <2>5, <1>5, <1>10 DEF ReaderOK
<1>14. QED BY <1>5, <1>8, <1>9, <1>11, <1>12, <1>13 DEF StreamsIInv

\* The connection decrypts what arrives next: it reads on, or it is accepted with
\* a salt that is not among the last ones, or it is closed.
LEMMA ReceiveKeeps ==
    ASSUME StreamsIInv, NEW s \in Streams, NEW k, Receive(s, k)
    PROVE  /\ StreamsIInv'
           /\ \A t \in Streams : t # s => ctx'[t] = ctx[t]
           /\ ctx[s].init < 2 /\ ctx'[s].init = 2 => ~ppbloom_check(pp, salt[s])
<1> DEFINE W == wire[s]
           E == sent[s]
           z == salt[s]
           w == password[s]
           g == got[s]
           h == got[s] + k
           x == ctx[s]
           q == out[s]
           r == aead_decrypt(Cut(W, g, h), x, pp)
<1>1. /\ s \in open /\ k \in 1..(Len(W) - g)
      /\ ctx' = [ctx EXCEPT ![s] = r.ctx] /\ pp' = r.pp
      /\ open' = (IF r.err = "ERROR" THEN open \ {s} ELSE open)
      /\ out' = [out EXCEPT ![s] = out[s] \o r.buf]
      /\ log' = (IF r.ctx.init = 2 /\ x.init < 2 THEN Append(log, r.ctx.salt) ELSE log)
      /\ got' = [got EXCEPT ![s] = got[s] + k]
      /\ salt' = salt /\ password' = password /\ peer' = peer /\ own' = own /\ wire' = wire
      /\ sent' = sent
  BY DEF Receive, Cut
<1>2. /\ Domains /\ FilterOK /\ OnlyAuthenticSaltsKept /\ (\A o \in OwnSalts : OwnOK(o))
      /\ \A t \in Streams : PeerOK(t) /\ ReaderOK(t)
  BY DEF StreamsIInv
<1>3. Sealed(W, E, z, w, Numbers) /\ Increasing(E) /\ IsSeq(W) /\ Len(W) \in Nat
  BY <1>2 DEF PeerOK, Sealed, IsSeq
<1>4. g \in 0..Len(W) /\ Reads(x, q, W, E, z, w, Numbers, g)
  BY <1>1, <1>2 DEF ReaderOK
<1>5. g \in Nat /\ h \in Nat /\ g < h /\ h <= Len(W) /\ h \in 0..Len(W)
  <2> HIDE DEF W, g
  <2>1. h = g + k
    BY DEF g
  <2> HIDE DEF h
  <2>2. QED BY <2>1, <1>1, <1>3, <1>4
<1>6. z \in Salts
  BY <1>2 DEF Domains
<1>7. /\ got'[s] = h /\ ctx'[s] = r.ctx /\ out'[s] = q \o r.buf
      /\ \A t \in Streams : t # s => got'[t] = got[t] /\ ctx'[t] = ctx[t] /\ out'[t] = out[t]
  BY <1>1, <1>2 DEF Domains
<1> HIDE DEF W, E, z, w, g, h, x, q, r
<1>8. Outcome(r, x.init, q, W, E, z, w, Numbers, h, pp)
  BY <1>3, <1>4, <1>5, DecryptOutcome DEF r
<1>9. x.init \in 0..2 /\ (q # <<>> <=> x.init = 2)
  BY <1>3, <1>4, ReadsOut
<1>10. Reads(r.ctx, q \o r.buf, W, E, z, w, Numbers, h) =>
           r.ctx.init \in 0..2 /\ (q \o r.buf # <<>> <=> r.ctx.init = 2)
  <2>1. ASSUME NEW y, NEW p, Reads(y, p, W, E, z, w, Numbers, h)
        PROVE  y.init \in 0..2 /\ (p # <<>> <=> y.init = 2)
    BY <2>1, <1>3, ReadsOut
  <2>2. QED BY <2>1
<1>11. log \in Seq(Salts) /\ DOMAIN log = 1..Len(log) /\ Len(log) \in Nat /\ FilterHolds(pp, log)
  BY <1>2, LenProperties DEF FilterOK
<1>12. /\ log' = log \/ (log' = Append(log, z) /\ w = Password /\ q \o r.buf # <<>>)
       /\ FilterHolds(pp', log')
       /\ q # <<>> => q \o r.buf # <<>>
       /\ x.init < 2 /\ r.ctx.init = 2 => ~ppbloom_check(pp, z)
  <2>1. CASE /\ r.err # "ERROR" /\ Reads(r.ctx, q \o r.buf, W, E, z, w, Numbers, h)
             /\ r.pp = pp /\ (r.ctx.init = 2 <=> x.init = 2)
    <3>1. ~(x.init < 2 /\ r.ctx.init = 2)
      BY <2>1
    <3>2. log' = log /\ pp' = pp
      BY <2>1, <3>1, <1>1
    <3>3. q # <<>> => q \o r.buf # <<>>
      BY <2>1, <1>9, <1>10
    <3>4. QED BY <3>1, <3>2, <3>3, <1>11
  <2>2. CASE /\ r.err # "ERROR" /\ Reads(r.ctx, q \o r.buf, W, E, z, w, Numbers, h)
             /\ x.init # 2 /\ r.ctx.init = 2 /\ r.ctx.salt = z
             /\ w = Password /\ ~ppbloom_check(pp, z) /\ r.pp = ppbloom_add(pp, z)
    <3>1. FilterHolds(ppbloom_add(pp, z), Append(log, z))
      BY <1>6, <1>11, FilterAdd
    <3>2. x.init < 2 /\ log' = Append(log, z)
      BY <2>2, <1>1, <1>9
    <3>3. QED BY <2>2, <3>1, <3>2, <1>1, <1>9, <1>10
  <2>3. CASE /\ r.err = "ERROR" /\ q \o r.buf = <<>> /\ r.pp = pp
             /\ x.init # 2 /\ r.ctx.init \in 0..1
             /\ w # Password \/ ppbloom_check(pp, z)
    <3>1. r.ctx.init # 2 /\ q = <<>>
      BY <2>3, <1>9
    <3>2. QED BY <2>3, <3>1, <1>1, <1>11
  <2>4. QED BY <2>1, <2>2, <2>3, <1>8 DEF Outcome
<1>13. /\ log' \in Seq(Salts)
       /\ \A i \in DOMAIN log : i \in DOMAIN log' /\ log'[i] = log[i]
       /\ \A i \in DOMAIN log' : i \in DOMAIN log \/ (log'[i] = z /\ w = Password /\ q \o r.buf # <<>>)
  <2>1. CASE log' = log
    BY <2>1, <1>11
  <2>2. CASE log' = Append(log, z) /\ w = Password /\ q \o r.buf # <<>>
    <3>1. /\ Append(log, z) \in Seq(Salts) /\ DOMAIN Append(log, z) = 1..(Len(log) + 1)
          /\ Append(log, z)[Len(log) + 1] = z
          /\ \A i \in DOMAIN log : i \in DOMAIN Append(log, z) /\ Append(log, z)[i] = log[i]
      BY <1>6, <1>11, LogGrows
    <3>2. \A i \in 1..(Len(log) + 1) : i \in 1..Len(log) \/ i = Len(log) + 1
      BY <1>11
    <3>3. QED BY <2>2, <3>1, <3>2, <1>11
  <2>3. QED BY <2>1, <2>2, <1>12
<1>14. Domains'
  <2>1. open' \subseteq Streams
    BY <1>1, <1>2 DEF Domains
  <2>2. QED BY <2>1, <1>1, <1>2 DEF Domains, Salts
<1>15. FilterOK'
  BY <1>12, <1>13 DEF FilterOK, Salts
<1>16. OnlyAuthenticSaltsKept'
  <2> SUFFICES ASSUME NEW i \in DOMAIN log'
               PROVE  \/ log'[i] \in OwnSalts /\ own[log'[i]].init = 1
                      \/ \E t \in Streams : salt[t] = log'[i] /\ password[t] = Password /\ out'[t] # <<>>
    BY <1>1 DEF OnlyAuthenticSaltsKept
  <2>1. CASE i \in DOMAIN log
    <3>1. log'[i] = log[i]
      BY <2>1, <1>13
    <3>2. CASE log[i] \in OwnSalts /\ own[log[i]].init = 1
      BY <3>1, <3>2
    <3>3. CASE \E t \in Streams : salt[t] = log[i] /\ password[t] = Password /\ out[t] # <<>>
      <4>1. PICK t \in Streams : salt[t] = log[i] /\ password[t] = Password /\ out[t] # <<>>
        BY <3>3
      <4>2. out'[t] # <<>>
        <5>1. CASE t = s
          BY <5>1, <4>1, <1>7, <1>12 DEF q
        <5>2. CASE t # s
          BY <5>2, <4>1, <1>7
        <5>3. QED BY <5>1, <5>2
      <4>3. QED BY <3>1, <4>1, <4>2
    <3>4. QED BY <2>1, <3>2, <3>3, <1>2 DEF OnlyAuthenticSaltsKept
  <2>2. CASE log'[i] = z /\ w = Password /\ q \o r.buf # <<>>
    BY <2>2, <1>7 DEF z, w
  <2>3. QED BY <2>1, <2>2, <1>13
<1>17. \A o \in OwnSalts : OwnOK(o)'
  BY <1>1, <1>2 DEF OwnOK
<1>18. \A t \in Streams : PeerOK(t)'
  BY <1>1, <1>2 DEF PeerOK
<1>19. ASSUME NEW t \in Streams, t # s PROVE ReaderOK(t)'
  <2>1. ReaderOK(t) /\ got'[t] = got[t] /\ ctx'[t] = ctx[t] /\ out'[t] = out[t]
    BY <1>2, <1>7, <1>19
  <2>2. t \in open' <=> t \in open
    BY <1>1, <1>19
  <2>3. QED BY <2>1, <2>2, <1>1, <1>13 DEF ReaderOK
<1>20. ReaderOK(s)'
  <2>1. CASE /\ r.err # "ERROR" /\ Reads(r.ctx, q \o r.buf, W, E, z, w, Numbers, h)
    <3>1. s \in open'
      BY <2>1, <1>1
    <3>2. QED BY <2>1, <3>1, <1>1, <1>5, <1>7 DEF ReaderOK, W, E, z, w
  <2>2. CASE /\ r.err = "ERROR" /\ q \o r.buf = <<>> /\ r.ctx.init \in 0..1
             /\ w # Password \/ ppbloom_check(pp, z)
    <3>1. s \notin open'
      BY <2>2, <1>1
    <3>2. w # Password \/ \E i \in DOMAIN log : log[i] = z
      <4>1. CASE ppbloom_check(pp, z)
        <5>1. \E i \in 1..Len(log) : log[i] = z
          BY <4>1, <1>11, FilterCheck
        <5>2. QED BY <5>1, <1>11
      <4>2. QED BY <2>2, <4>1
    <3>3. w # Password \/ \E i \in DOMAIN log' : log'[i] = z
      BY <3>2, <1>13
    <3>4. QED BY <2>2, <3>1, <3>3, <1>1, <1>5, <1>7 DEF ReaderOK, W, z, w
  <2>3. QED BY <2>1, <2>2, <1>8 DEF Outcome
<1>21. StreamsIInv'
  BY <1>14, <1>15, <1>16, <1>17, <1>18, <1>19, <1>20 DEF StreamsIInv
<1>22. QED BY <1>7, <1>12, <1>21 DEF x, z

\* Nothing happens.
LEMMA StreamsStutter ==
    ASSUME StreamsIInv, UNCHANGED streamsVars
    PROVE  StreamsIInv'
<1>1. /\ salt' = salt /\ password' = password /\ peer' = peer /\ own' = own /\ wire' = wire
      /\ got' = got /\ ctx' = ctx /\ open' = open /\ out' = out /\ pp' = pp /\ sent' = sent
      /\ log' = log
  BY DEF streamsVars
<1>2. Domains' /\ FilterOK' /\ OnlyAuthenticSaltsKept'
  BY <1>1 DEF StreamsIInv, Domains, FilterOK, OnlyAuthenticSaltsKept, Salts
<1>3. \A o \in OwnSalts : OwnOK(o)'
  BY <1>1 DEF StreamsIInv, OwnOK
<1>4. \A s \in Streams : PeerOK(s)'
  BY <1>1 DEF StreamsIInv, PeerOK
<1>5. \A s \in Streams : ReaderOK(s)'
  BY <1>1 DEF StreamsIInv, ReaderOK
<1>6. QED BY <1>2, <1>3, <1>4, <1>5 DEF StreamsIInv

\* Every step keeps the invariant.
LEMMA StreamsNextKeeps == StreamsIInv /\ [StreamsNext]_streamsVars => StreamsIInv'
<1> SUFFICES ASSUME StreamsIInv, [StreamsNext]_streamsVars PROVE StreamsIInv'
  OBVIOUS
<1>1. CASE \E o \in OwnSalts : Send(o)
  BY <1>1, SendKeeps
<1>2. CASE \E s \in Streams, n \in 1..CHUNK_SIZE_MASK : Answer(s, n)
  BY <1>2, AnswerKeeps
<1>3. CASE \E s \in Streams, k \in 1..(3 * MaxBytes + 1) : Receive(s, k)
  <2>1. PICK s \in Streams, k \in 1..(3 * MaxBytes + 1) : Receive(s, k)
    BY <1>3
  <2>2. QED BY <2>1, ReceiveKeeps
<1>4. CASE UNCHANGED streamsVars
  BY <1>4, StreamsStutter
<1>5. QED BY <1>1, <1>2, <1>3, <1>4 DEF StreamsNext

\* The streams and the filter always satisfy the inductive invariant.
THEOREM StreamsAlways == StreamsSpec => []StreamsIInv
  BY StreamsInitOK, StreamsNextKeeps, PTL DEF StreamsSpec

------------------------------------------------------------------------------
(* What follows from it *)

\* The two filters hold what ppbloom_check finds in them.
LEMMA FilterRemembers ==
    ASSUME StreamsIInv
    PROVE  RemembersTheLast
<1> DEFINE cnt == pp.bloom_count[pp.current]
           n == Entries + cnt
           K == {j \in DOMAIN log : j + n > Len(log)}
<1>1. log \in Seq(Salts) /\ FilterHolds(pp, log) /\ DOMAIN log = 1..Len(log)
  BY LenProperties DEF StreamsIInv, FilterOK
<1>2. ASSUME NEW v
      PROVE  v \in pp.bloom[PING] \cup pp.bloom[PONG] <=> \E i \in K : log[i] = v
  <2>1. ppbloom_check(pp, v) <=> \E i \in 1..Len(log) : log[i] = v /\ i + (Entries + cnt) > Len(log)
    BY <1>1, FilterCheck
  <2>2. ppbloom_check(pp, v) <=> v \in pp.bloom[PING] \cup pp.bloom[PONG]
    BY DEF ppbloom_check
  <2> HIDE DEF cnt
  <2>3. (\E i \in K : log[i] = v) <=>
            \E i \in 1..Len(log) : log[i] = v /\ i + (Entries + cnt) > Len(log)
    BY <1>1
  <2>4. QED BY <2>1, <2>2, <2>3
<1> HIDE DEF K
<1>3. pp.bloom[PING] \cup pp.bloom[PONG] = {log[i] : i \in K}
  BY <1>2
<1>4. QED BY <1>3 DEF RemembersTheLast, K

\* And the state has its types.
LEMMA StreamsTyped ==
    ASSUME StreamsIInv
    PROVE  StreamsTypeOK
<1>1. /\ log \in Seq(Salts) /\ FilterHolds(pp, log) /\ DOMAIN log = 1..Len(log)
      /\ \A i \in 1..Len(log) : log[i] \in Salts
  BY LenProperties, ElementOfSeq DEF StreamsIInv, FilterOK
<1>2. Entries \in Nat \ {0}
  BY EntriesAssumption
<1> DEFINE u == pp.current
           o == 1 - u
           cnt == pp.bloom_count[u]
<1>3. u \in {PING, PONG} /\ {u, o} = {PING, PONG} /\ cnt \in Nat /\ cnt < Entries /\ pp.bloom_count[o] = 0
  BY <1>1 DEF FilterHolds, PING, PONG
<1>4. pp.bloom[u] \subseteq Salts /\ pp.bloom[o] \subseteq Salts
  <2>1. /\ \A v : v \in pp.bloom[u] => \E i \in 1..Len(log) : log[i] = v
        /\ \A v : v \in pp.bloom[o] => \E i \in 1..Len(log) : log[i] = v
    BY <1>1 DEF FilterHolds
  <2>2. QED BY <2>1, <1>1
<1>5. \A i \in {PING, PONG} : pp.bloom[i] \subseteq Salts /\ pp.bloom_count[i] \in 0..(Entries - 1)
  <2>1. cnt \in 0..(Entries - 1) /\ 0 \in 0..(Entries - 1)
    BY <1>2, <1>3
  <2> HIDE DEF u, o
  <2>2. \A i \in {u, o} : pp.bloom[i] \subseteq Salts /\ pp.bloom_count[i] \in 0..(Entries - 1)
    BY <2>1, <1>3, <1>4
  <2>3. QED BY <2>2, <1>3
<1>6. ASSUME NEW s \in Streams
      PROVE  ctx[s].init \in 0..2 /\ peer[s].init \in 0..1 /\ got[s] \in 0..Len(wire[s])
  <2>1. PeerOK(s) /\ ReaderOK(s)
    BY DEF StreamsIInv
  <2>2. peer[s].init \in 0..1 /\ got[s] \in 0..Len(wire[s]) /\ Increasing(sent[s])
    BY <2>1 DEF PeerOK, ReaderOK, Sealed
  <2>3. CASE s \in open
    BY <2>1, <2>2, <2>3, ReadsOut DEF ReaderOK
  <2>4. CASE s \notin open
    <3>1. ctx[s].init \in 0..1
      BY <2>1, <2>4 DEF ReaderOK
    <3>2. QED BY <2>2, <3>1
  <2>5. QED BY <2>2, <2>3, <2>4
<1>7. \A p \in OwnSalts : own[p].init \in 0..1
  BY DEF StreamsIInv, OwnOK
<1>8. open \subseteq Streams
  BY DEF StreamsIInv, Domains
<1>9. QED BY <1>1, <1>3, <1>5, <1>6, <1>7, <1>8 DEF StreamsTypeOK

\* For any number of streams, salts and entries: the filter holds exactly the
\* last salts, and only those of ss-local and of answers that opened.
THEOREM FilterCorrect == StreamsSpec => []FilterInv
<1>1. StreamsIInv => FilterInv
  BY FilterRemembers, StreamsTyped DEF StreamsIInv, FilterInv
<1>2. QED BY <1>1, StreamsAlways, PTL

\* The last chunk that is all there.
LEMMA LastChunk ==
    ASSUME NEW E, Increasing(E), NEW g \in Nat, NEW j \in 0..Len(E), Off(E, j) <= g,
           j = Len(E) \/ g < Off(E, j + 1)
    PROVE  LET whole == {k \in 0..Len(E) : Off(E, k) <= g} IN j \in whole /\ Max(whole) = j
<1> DEFINE whole == {k \in 0..Len(E) : Off(E, k) <= g}
<1>1. /\ Len(E) \in Nat /\ \A k \in 0..Len(E) : Off(E, k) \in Nat
      /\ \A a, b \in 0..Len(E) : a <= b => Off(E, b) >= Off(E, a) + 3 * (b - a)
  BY Offsets
<1>2. j \in whole
  OBVIOUS
<1>3. ASSUME NEW k \in whole PROVE j >= k
  <2> SUFFICES ASSUME k > j PROVE FALSE
    BY <1>1
  <2>1. j + 1 \in 0..Len(E) /\ k \in 0..Len(E) /\ j + 1 <= k /\ g < Off(E, j + 1)
    BY <1>1, <1>3
  <2>2. Off(E, k) >= Off(E, j + 1) + 3 * (k - (j + 1))
    BY <2>1, <1>1
  <2>3. Off(E, k) \in Nat /\ Off(E, j + 1) \in Nat /\ Off(E, k) <= g
    BY <2>1, <1>1
  <2>4. QED BY <2>1, <2>2, <2>3
<1>4. \A x \in whole : x \in Nat
  BY <1>1
<1> HIDE DEF whole
<1>5. \A x \in whole : (\A y \in whole : x >= y) => x = j
  BY <1>2, <1>3, <1>4
<1>6. Max(whole) = j
  BY <1>2, <1>3, <1>5 DEF Max
<1>7. QED BY <1>2, <1>6 DEF whole

\* An open connection has handed over the chunks that are all there.
LEMMA StreamsDeliver ==
    ASSUME StreamsIInv
    PROVE  NothingHeldBack
<1> SUFFICES ASSUME NEW s \in open, password[s] = Password
             PROVE  LET whole == {k \in 0..Len(sent[s]) :
                                      SaltLen + Upto(s, k) + k * (LenBlock + TagLen) <= got[s]}
                        n == IF whole = {} THEN 0 ELSE Upto(s, Max(whole))
                    IN  out[s] = [i \in 1..n |-> i]
  BY DEF NothingHeldBack
<1> DEFINE E == sent[s]
           g == got[s]
           whole == {k \in 0..Len(E) : Off(E, k) <= g}
           n == IF whole = {} THEN 0 ELSE EndOf(E, Max(whole))
<1>1. s \in Streams /\ PeerOK(s) /\ ReaderOK(s)
  BY DEF StreamsIInv, Domains
<1>2. /\ Increasing(E) /\ IsSeq(wire[s]) /\ Len(wire[s]) \in Nat /\ g \in Nat
      /\ Reads(ctx[s], out[s], wire[s], E, salt[s], password[s], Numbers, g)
  <2>1. Increasing(E) /\ IsSeq(wire[s])
    BY <1>1 DEF PeerOK, Sealed
  <2>2. Len(wire[s]) \in Nat /\ g \in 0..Len(wire[s])
    BY <2>1, <1>1 DEF ReaderOK, IsSeq
  <2>3. QED BY <2>1, <2>2, <1>1 DEF ReaderOK
<1>3. /\ Len(E) \in Nat /\ EndOf(E, 0) = 0 /\ Off(E, 0) = 1
      /\ \A k \in 0..Len(E) : EndOf(E, k) \in Nat /\ Off(E, k) \in Nat
      /\ \A a, b \in 0..Len(E) : a <= b => Off(E, b) >= Off(E, a) + 3 * (b - a)
  BY <1>2, Offsets
<1>4. \A k : Upto(s, k) = EndOf(E, k)
  BY DEF Upto, EndOf
<1>5. \A k \in 0..Len(E) : SaltLen + Upto(s, k) + k * (LenBlock + TagLen) = Off(E, k)
  <2> SUFFICES ASSUME NEW k \in 0..Len(E)
               PROVE  SaltLen + Upto(s, k) + k * (LenBlock + TagLen) = Off(E, k)
    OBVIOUS
  <2>1. Upto(s, k) = EndOf(E, k) /\ EndOf(E, k) \in Nat
    BY <1>3, <1>4
  <2>2. k * (LenBlock + TagLen) = 2 * k
    BY DEF LenBlock, TagLen
  <2>3. QED BY <2>1, <2>2 DEF Off, SaltLen
<1>6. {k \in 0..Len(sent[s]) : SaltLen + Upto(s, k) + k * (LenBlock + TagLen) <= got[s]} = whole
  BY <1>5
<1>7. out[s] = [i \in 1..n |-> i]
  <2>1. CASE g <= 1 /\ out[s] = <<>>
    <3>1. n = 0
      <4>1. CASE whole = {}
        BY <4>1
      <4>2. CASE g = 1
        <5> DEFINE j == 0
        <5>1. j \in 0..Len(E) /\ Off(E, j) <= g /\ (j = Len(E) \/ g < Off(E, j + 1))
          <6>1. CASE Len(E) = 0
            BY <6>1, <4>2, <1>3
          <6>2. CASE Len(E) # 0
            <7>1. 0 \in 0..Len(E) /\ 1 \in 0..Len(E) /\ 0 <= 1
              BY <6>2, <1>3
            <7>2. Off(E, 1) >= Off(E, 0) + 3 * (1 - 0) /\ Off(E, 1) \in Nat
              BY <7>1, <1>3
            <7>3. QED BY <7>1, <7>2, <4>2, <1>3
          <6>3. QED BY <6>1, <6>2
        <5>2. j \in Nat /\ EndOf(E, j) = 0
          BY <1>3
        <5> HIDE DEF j
        <5>3. whole # {} /\ Max(whole) = j
          BY <5>1, <1>2, LastChunk
        <5> HIDE DEF whole
        <5>4. QED BY <5>2, <5>3
      <4>3. CASE g = 0
        <5>1. whole = {}
          <6> SUFFICES ASSUME NEW k \in 0..Len(E), Off(E, k) <= g PROVE FALSE
            OBVIOUS
          <6>1. Off(E, k) >= 1
            BY <1>2, Offsets
          <6>2. QED BY <6>1, <4>3, <1>3
        <5>2. QED BY <5>1
      <4>4. QED BY <2>1, <4>2, <4>3, <1>2
    <3> HIDE DEF n
    <3>2. [i \in 1..0 |-> i] = <<>>
      OBVIOUS
    <3>3. QED BY <2>1, <3>1, <3>2
  <2>2. CASE \E j \in 0..Len(E) :
                 /\ Off(E, j) <= g /\ out[s] = Part(Numbers, 0, EndOf(E, j))
                 /\ j = Len(E) \/ g < Off(E, j + 1)
    <3>1. PICK j \in 0..Len(E) :
                 /\ Off(E, j) <= g /\ out[s] = Part(Numbers, 0, EndOf(E, j))
                 /\ j = Len(E) \/ g < Off(E, j + 1)
      BY <2>2
    <3>2. whole # {} /\ Max(whole) = j
      BY <3>1, <1>2, LastChunk
    <3> HIDE DEF whole
    <3>3. n = EndOf(E, j) /\ n \in Nat
      BY <3>2, <1>3
    <3> HIDE DEF n
    <3>4. out[s] = [i \in 1..n |-> Numbers[0 + i]]
      BY <3>1, <3>3 DEF Part
    <3>5. \A i \in 1..n : Numbers[0 + i] = i
      BY <3>3 DEF Numbers
    <3>6. QED BY <3>4, <3>5
  <2>3. QED BY <2>1, <2>2, <1>2 DEF Reads
<1> HIDE DEF whole
<1>8. QED BY <1>4, <1>6, <1>7

\* For any number of streams, wherever the network cuts them: an open connection
\* has handed over the payload of exactly the chunks that arrived completely, and
\* one that was closed was refused before its first chunk, for a reason.
THEOREM StreamsCorrect == StreamsSpec => []StreamInv
<1>1. ASSUME StreamsIInv PROVE RefusedForAReason
  <2> SUFFICES ASSUME NEW s \in Streams \ open
               PROVE  /\ out[s] = <<>> /\ ctx[s].init < 2
                      /\ password[s] # Password \/ \E i \in DOMAIN log : log[i] = salt[s]
    BY DEF RefusedForAReason
  <2>1. ReaderOK(s)
    BY <1>1 DEF StreamsIInv
  <2>2. ctx[s].init \in 0..1
    BY <2>1 DEF ReaderOK
  <2>3. QED BY <2>1, <2>2 DEF ReaderOK
<1>2. StreamsIInv => StreamInv
  BY <1>1, StreamsDeliver DEF StreamInv
<1>3. QED BY <1>2, StreamsAlways, PTL

\* For any number of streams and of entries: no answer is accepted with a salt
\* among the last Entries that either side used, also when it was under way
\* before the other copy was accepted.
THEOREM NoReplay == StreamsSpec => NoReplayAccepted
<1> DEFINE Fresh == \A s \in Streams :
               ctx[s].init < 2 /\ ctx'[s].init = 2 =>
                   \A i \in DOMAIN log : i + Entries > Len(log) => log[i] # salt[s]
<1>1. ASSUME StreamsIInv, [StreamsNext]_streamsVars PROVE [Fresh]_streamsVars
  <2>1. CASE ctx' = ctx
    <3>1. ASSUME NEW s \in Streams, ctx[s].init < 2, ctx'[s].init = 2 PROVE FALSE
      BY <2>1, <3>1
    <3>2. QED BY <3>1
  <2>2. ASSUME NEW s \in Streams, NEW k, Receive(s, k) PROVE Fresh
    <3> SUFFICES ASSUME NEW t \in Streams, ctx[t].init < 2, ctx'[t].init = 2,
                        NEW i \in DOMAIN log, i + Entries > Len(log), log[i] = salt[t]
                 PROVE  FALSE
      OBVIOUS
    <3>1. /\ \A u \in Streams : u # s => ctx'[u] = ctx[u]
          /\ ctx[s].init < 2 /\ ctx'[s].init = 2 => ~ppbloom_check(pp, salt[s])
      BY <1>1, <2>2, ReceiveKeeps
    <3>2. t = s
      BY <3>1
    <3>3. ~ppbloom_check(pp, salt[s])
      BY <3>1, <3>2
    <3>4. log \in Seq(Salts) /\ FilterHolds(pp, log) /\ DOMAIN log = 1..Len(log) /\ Len(log) \in Nat
      BY <1>1, LenProperties DEF StreamsIInv, FilterOK
    <3> DEFINE cnt == pp.bloom_count[pp.current]
    <3>5. cnt \in Nat /\ ~\E l \in 1..Len(log) : log[l] = salt[s] /\ l + (Entries + cnt) > Len(log)
      BY <3>3, <3>4, FilterCheck
    <3> HIDE DEF cnt
    <3>6. i \in 1..Len(log) /\ i + (Entries + cnt) > Len(log)
      BY <3>4, <3>5, EntriesAssumption
    <3>7. QED BY <3>2, <3>5, <3>6
  <2>3. CASE \E o \in OwnSalts : Send(o)
    BY <1>1, <2>1, <2>3, SendKeeps
  <2>4. CASE \E s \in Streams, n \in 1..CHUNK_SIZE_MASK : Answer(s, n)
    BY <1>1, <2>1, <2>4, AnswerKeeps
  <2>5. CASE \E s \in Streams, k \in 1..(3 * MaxBytes + 1) : Receive(s, k)
    BY <2>2, <2>5
  <2>6. QED BY <1>1, <2>3, <2>4, <2>5 DEF StreamsNext
<1>2. StreamsIInv /\ [StreamsNext]_streamsVars => [Fresh]_streamsVars
  BY <1>1
<1>3. QED BY <1>2, StreamsAlways, PTL DEF StreamsSpec, NoReplayAccepted
------------------------------------------------------------------------------
(* LocalRelay: sequences of units *)

\* Concatenation is associative, and the empty sequence is neutral.
LEMMA ConcatAssoc ==
    ASSUME NEW q, NEW r, NEW t, IsSeq(q), IsSeq(r), IsSeq(t)
    PROVE  (q \o r) \o t = q \o (r \o t)
<1> DEFINE S == Values(q) \cup Values(r) \cup Values(t)
<1>1. q \in Seq(S) /\ r \in Seq(S) /\ t \in Seq(S)
  BY SeqOfValues, SeqMonotonic
<1> HIDE DEF S
<1>2. QED BY <1>1, ConcatAssociative

\* The empty sequence is neutral.
LEMMA ConcatNone ==
    ASSUME NEW q, IsSeq(q)
    PROVE  q \o <<>> = q /\ <<>> \o q = q
<1>1. q \in Seq(Values(q))
  BY SeqOfValues
<1>2. QED BY <1>1, ConcatEmptySeq

\* A send takes h, the first k of the l units b behind the i-th of D, and leaves t.
Takes(D, i, l, k, b, h, t) ==
    /\ i \in Nat /\ l \in Nat /\ k \in 0..l
    /\ b = SubSeq(D, i + 1, i + l) /\ h = SubSeq(b, 1, k) /\ t = SubSeq(D, i + k + 1, i + k + (l - k))

\* What is taken and what is left are together what there was.
LEMMA TakeUnits ==
    ASSUME NEW D, NEW i, NEW l, NEW k, NEW b0, NEW h0, NEW t0, Takes(D, i, l, k, b0, h0, t0)
    PROVE  IsSeq(b0) /\ Len(b0) = l /\ IsSeq(h0) /\ IsSeq(t0) /\ h0 \o t0 = b0
<1>0. /\ i \in Nat /\ l \in Nat /\ k \in 0..l
  BY DEF Takes
<1> DEFINE o == 0
           b == Cut(D, i, i + l)
           h == Cut(b, o, k)
           t == Cut(D, i + k, i + k + (l - k))
<1>1. /\ o \in Nat /\ k \in Nat /\ i + l \in Nat /\ i + k \in Nat /\ i <= i + l /\ i <= i + k
      /\ i + k <= i + l /\ i + k + (l - k) = i + l /\ o <= k /\ k <= i + l - i /\ i + l - i = l
      /\ i + o = i /\ k - o = k /\ i + l - (i + k) = l - k
  BY <1>0 DEF o
<1> HIDE DEF o
<1> DEFINE e == i + k  f == i + l
<1>2. IsSeq(b) /\ Len(b) = l
  <2>1. f \in Nat /\ i <= f /\ f - i = l /\ b = Cut(D, i, f)
    BY <1>0, <1>1
  <2> HIDE DEF f, b
  <2>2. QED BY <1>0, <2>1, CutSeq DEF Cut
<1>3. IsSeq(t) /\ Len(t) = l - k
  <2>1. e \in Nat /\ f \in Nat /\ e <= f /\ f - e = l - k
    BY <1>0, <1>1
  <2>2. t = Cut(D, e, f)
    BY <1>0, <1>1
  <2> HIDE DEF e, f, t
  <2>3. QED BY <2>1, <1>0, <2>2, CutSeq DEF Cut
<1> HIDE DEF b
<1>4. IsSeq(h) /\ Len(h) = k
  BY <1>0, <1>1, CutSeq DEF Cut
<1> USE DEF b
<1> HIDE DEF e, f
<1>5. h = Cut(D, i + o, i + k)
  <2>1. h = Cut(Cut(D, i, f), o, k)
    BY DEF f
  <2>2. f \in Nat /\ i <= f /\ k <= f - i
    BY <1>0, <1>1 DEF f
  <2>3. QED BY <1>1, <2>1, <1>0, <2>2, CutOfCut
<1>6. h \o t = b
  <2>1. h = Cut(D, i, e) /\ t = Cut(D, e, f) /\ b = Cut(D, i, f)
    BY <1>1, <1>5 DEF e, f
  <2>2. e \in Nat /\ f \in Nat /\ i <= e /\ e <= f
    BY <1>0, <1>1 DEF e, f
  <2> HIDE DEF h, t, b
  <2>3. QED BY <2>1, <1>0, <2>2, CutJoin
<1>7. b = b0 /\ h = h0 /\ t = t0
  BY DEF o, Cut, Takes
<1> HIDE DEF b, h, t
<1>8. QED BY <1>2, <1>3, <1>4, <1>6, <1>7

\* The same of a buffer that is sent from its start.
LEMMA TakeFirst ==
    ASSUME NEW D, NEW l \in Nat, NEW k \in 0..l
    PROVE  LET b == SubSeq(D, 1, l)
               h == SubSeq(D, 1, k)
               t == SubSeq(D, k + 1, k + (l - k))
           IN  IsSeq(b) /\ Len(b) = l /\ IsSeq(h) /\ Len(h) = k /\ IsSeq(t) /\ Len(t) = l - k /\ h \o t = b
<1> DEFINE o == 0
           b == Cut(D, o, l)
           h == Cut(D, o, k)
           t == Cut(D, k, l)
<1>1. /\ o \in Nat /\ k \in Nat /\ o <= l /\ o <= k /\ k <= l /\ l - o = l /\ k - o = k /\ k + (l - k) = l
  BY DEF o
<1> HIDE DEF o
<1>2. IsSeq(b) /\ Len(b) = l /\ IsSeq(h) /\ Len(h) = k /\ IsSeq(t) /\ Len(t) = l - k
  BY <1>1, CutSeq DEF Cut
<1>3. h \o t = b
  BY <1>1, CutJoin
<1>4. b = SubSeq(D, 1, l) /\ h = SubSeq(D, 1, k) /\ t = SubSeq(D, k + 1, k + (l - k))
  BY <1>1 DEF o, Cut
<1> HIDE DEF b, h, t
<1>5. QED BY <1>2, <1>3, <1>4

\* A cut without units, and the cut that is the whole sequence.
LEMMA NoUnits ==
    ASSUME NEW D
    PROVE  SubSeq(D, 1, 0) = <<>> /\ \A i \in Nat : SubSeq(D, i + 1, i + 0) = <<>>
<1>1. Cut(D, 0, 0) = <<>> /\ \A i \in Nat : Cut(D, i, i) = <<>>
  BY CutEnds
<1>2. \A i \in Nat : i + 0 = i
  OBVIOUS
<1>3. QED BY <1>1, <1>2 DEF Cut

\* A sequence is the cut of all its elements.
LEMMA AllUnits ==
    ASSUME NEW q, IsSeq(q)
    PROVE  SubSeq(q, 1, Len(q)) = q
<1> DEFINE l == Len(q)
           b == SubSeq(q, 1, l)
<1>1. l \in Nat
  BY DEF IsSeq
<1>2. IsSeq(b) /\ Len(b) = l /\ \A i \in 1..l : b[i] = q[i]
  <2> DEFINE o == 0
  <2>1. o \in Nat /\ o <= l /\ l - o = l /\ \A i \in 1..l : o + i = i
    BY <1>1
  <2>2. b = SubSeq(q, o + 1, l)
    OBVIOUS
  <2> HIDE DEF o, b, l
  <2>3. /\ IsSeq(SubSeq(q, o + 1, l)) /\ Len(SubSeq(q, o + 1, l)) = l - o
        /\ \A i \in 1..(l - o) : SubSeq(q, o + 1, l)[i] = q[o + i]
    BY <1>1, <2>1, CutSeq
  <2>4. QED BY <2>1, <2>2, <2>3
<1> HIDE DEF b
<1>3. QED BY <1>2, SameSeq DEF b

\* What send may accept.
LEMMA SentRange ==
    ASSUME NEW l \in Nat, NEW k \in Sent(l)
    PROVE  k \in 1..l /\ k \in 0..l /\ k \in Nat /\ l - k \in Nat /\ (k < l <=> l - k > 0) /\ (~(k < l) => k = l)
  BY DEF Sent

\* The bytes of a payload, as a function on all their numbers, and the payload
\* of the client with the address before it.
Plains == [i \in Nat |-> Plain(i)]

Addressed(h) == [i \in Nat |-> IF i = 1 THEN h ELSE Plain(i - 1)]

\* The first n bytes, as a part of all of them.
LEMMA BytesPart ==
    ASSUME NEW n \in Nat
    PROVE  /\ Bytes(n) = Part(Plains, 0, n) /\ IsSeq(Bytes(n)) /\ Len(Bytes(n)) = n
           /\ \A i \in 1..n : Bytes(n)[i] = Plain(i)
<1>1. \A i \in 1..n : Plains[0 + i] = Plain(i)
  BY DEF Plains
<1>2. Bytes(n) = Part(Plains, 0, n)
  BY <1>1 DEF Bytes, Part
<1>3. IsSeq(Part(Plains, 0, n)) /\ Len(Part(Plains, 0, n)) = n
  BY PartSeq
<1>4. QED BY <1>2, <1>3 DEF Bytes

\* Behind the address are the bytes.
LEMMA AddressedPart ==
    ASSUME NEW h, NEW a \in Nat, NEW n \in Nat
    PROVE  /\ Part(Addressed(h), a + 1, n) = Part(Plains, a, n)
           /\ Part(Addressed(h), 0, 1) = <<h>>
<1>1. \A i \in 1..n : Addressed(h)[a + 1 + i] = Plain(a + i) /\ Plains[a + i] = Plain(a + i)
  BY DEF Addressed, Plains
<1>2. Part(Addressed(h), a + 1, n) = Part(Plains, a, n)
  BY <1>1 DEF Part
<1>3. Part(Addressed(h), 0, 1) = <<h>>
  <2>1. /\ IsSeq(Part(Addressed(h), 0, 1)) /\ Len(Part(Addressed(h), 0, 1)) = 1
        /\ \A i \in 1..1 : Part(Addressed(h), 0, 1)[i] = Addressed(h)[0 + i]
    <3> DEFINE o == 0  u == 1
    <3>1. o \in Nat /\ u \in Nat
      OBVIOUS
    <3> HIDE DEF o, u
    <3>2. /\ IsSeq(Part(Addressed(h), o, u)) /\ Len(Part(Addressed(h), o, u)) = u
          /\ \A i \in 1..u : Part(Addressed(h), o, u)[i] = Addressed(h)[o + i]
      BY <3>1, PartSeq
    <3>3. QED BY <3>2 DEF o, u
  <2>2. Part(Addressed(h), 0, 1)[1] = h
    <3>1. Part(Addressed(h), 0, 1)[1] = Addressed(h)[0 + 1]
      BY <2>1
    <3>2. QED BY <3>1 DEF Addressed
  <2>3. IsSeq(<<h>>) /\ Len(<<h>>) = 1 /\ <<h>>[1] = h
    BY SingleIsSeq
  <2> DEFINE p == Part(Addressed(h), 0, 1)  q == <<h>>
  <2> HIDE DEF p, q
  <2>4. \A i \in 1..Len(p) : p[i] = q[i]
    BY <2>1, <2>2, <2>3 DEF p, q
  <2>5. p = q
    BY <2>1, <2>3, <2>4, SameSeq DEF p, q
  <2>6. QED BY <2>5 DEF p, q
<1>4. QED BY <1>2, <1>3

\* A cut of the bytes.
LEMMA BytesCut ==
    ASSUME NEW n \in Nat, NEW a \in Nat, NEW b \in Nat, a <= b, b <= n
    PROVE  Cut(Bytes(n), a, b) = Part(Plains, a, b - a)
<1> DEFINE q == Cut(Bytes(n), a, b)  r == Part(Plains, a, b - a)
<1>1. IsSeq(q) /\ Len(q) = b - a /\ \A i \in 1..(b - a) : q[i] = Bytes(n)[a + i]
  BY CutSeq DEF Cut
<1>2. IsSeq(r) /\ Len(r) = b - a /\ \A i \in 1..(b - a) : r[i] = Plains[a + i]
  <2>1. b - a \in Nat
    OBVIOUS
  <2>2. QED BY <2>1, PartSeq
<1>3. \A i \in 1..(b - a) : a + i \in 1..n /\ a + i \in Nat
  OBVIOUS
<1> HIDE DEF q, r
<1>4. \A i \in 1..Len(q) : q[i] = r[i]
  BY <1>1, <1>2, <1>3, BytesPart DEF Plains
<1>5. QED BY <1>1, <1>2, <1>4, SameSeq DEF q, r

\* What the client writes: four units, and then its bytes.
LEMMA ClientUnits ==
    /\ IsSeq(ClientStream) /\ Len(ClientStream) = 4 + UpBytes
    /\ \A i \in 1..UpBytes : ClientStream[4 + i] = Plain(i)
    /\ Len(Hello) = 4
<1>1. UpBytes \in Nat
  BY LocalRelayAssumption
<1>2. Hello \in Seq({Socks("ver"), Socks("methods"), Socks("req"), Socks("addr")}) /\ Len(Hello) = 4
  BY DEF Hello
<1>3. IsSeq(Hello)
  BY <1>2, SeqIsSeq
<1>4. IsSeq(Bytes(UpBytes)) /\ Len(Bytes(UpBytes)) = UpBytes /\ \A i \in 1..UpBytes : Bytes(UpBytes)[i] = Plain(i)
  BY <1>1, BytesPart
<1> DEFINE H == Hello  B == Bytes(UpBytes)
<1>5. ClientStream = H \o B
  BY DEF ClientStream
<1> HIDE DEF H, B
<1>6. /\ IsSeq(H \o B) /\ Len(H \o B) = Len(H) + Len(B)
      /\ \A i \in 1..Len(B) : (H \o B)[Len(H) + i] = B[i]
  BY <1>3, <1>4, ConcatSeq DEF H, B
<1>7. QED BY <1>2, <1>4, <1>5, <1>6 DEF H, B

\* A cut of the client's stream behind the request has only bytes.
LEMMA ClientCut ==
    ASSUME NEW a \in Nat, NEW b \in Nat, 4 <= a, a <= b, b <= 4 + UpBytes
    PROVE  Cut(ClientStream, a, b) = Part(Plains, a - 4, b - a)
<1> DEFINE q == Cut(ClientStream, a, b)  r == Part(Plains, a - 4, b - a)
<1>0. UpBytes \in Nat
  BY LocalRelayAssumption
<1>1. IsSeq(q) /\ Len(q) = b - a /\ \A i \in 1..(b - a) : q[i] = ClientStream[a + i]
  BY CutSeq DEF Cut
<1>2. IsSeq(r) /\ Len(r) = b - a /\ \A i \in 1..(b - a) : r[i] = Plains[a - 4 + i]
  <2>1. b - a \in Nat /\ a - 4 \in Nat
    OBVIOUS
  <2>2. QED BY <2>1, PartSeq
<1>3. \A i \in 1..(b - a) : a - 4 + i \in 1..UpBytes /\ 4 + (a - 4 + i) = a + i /\ a - 4 + i \in Nat
  BY <1>0
<1> HIDE DEF q, r
<1>4. ASSUME NEW i \in 1..Len(q) PROVE q[i] = r[i]
  <2>1. i \in 1..(b - a)
    BY <1>1
  <2>2. q[i] = ClientStream[a + i] /\ r[i] = Plains[a - 4 + i]
    BY <2>1, <1>1, <1>2
  <2>3. ClientStream[a + i] = Plain(a - 4 + i)
    BY <2>1, <1>3, ClientUnits
  <2>4. Plains[a - 4 + i] = Plain(a - 4 + i)
    BY <2>1, <1>3 DEF Plains
  <2>5. QED BY <2>2, <2>3, <2>4
<1>5. QED BY <1>1, <1>2, <1>4, SameSeq DEF q, r
------------------------------------------------------------------------------
(* LocalRelay: what the other side answers *)

\* The ends of chunks of one byte.
Ends(n) == [i \in 1..n |-> i]

\* The chunks of the answer: chunk k ends with byte k, three units each.
LEMMA EndsOf ==
    ASSUME NEW n \in Nat
    PROVE  /\ Increasing(Ends(n)) /\ Len(Ends(n)) = n
           /\ \A k \in 0..n : EndOf(Ends(n), k) = k /\ Off(Ends(n), k) = 1 + 3 * k
           /\ Append(Ends(n), n + 1) = Ends(n + 1)
<1>1. Ends(n) \in [1..n -> Nat] /\ \A i \in 1..n : Ends(n)[i] = i
  BY DEF Ends
<1>2. Ends(n) \in Seq(Nat)
  BY <1>1, SeqDef
<1>3. Len(Ends(n)) = n
  BY <1>1, <1>2, LenProperties
<1>4. \A k \in 0..n : EndOf(Ends(n), k) = k
  BY <1>1 DEF EndOf
<1>5. \A k \in 0..n : Off(Ends(n), k) = 1 + 3 * k
  BY <1>4 DEF Off
<1>6. Increasing(Ends(n))
  <2>1. ASSUME NEW a \in 0..n, NEW b \in 0..n, a <= b
        PROVE  EndOf(Ends(n), b) >= EndOf(Ends(n), a) + (b - a)
    <3>1. EndOf(Ends(n), b) = b /\ EndOf(Ends(n), a) = a
      BY <1>4
    <3>2. QED BY <3>1
  <2>2. QED BY <2>1, <1>2, <1>3 DEF Increasing
<1>7. Append(Ends(n), n + 1) = Ends(n + 1)
  <2> DEFINE a == Append(Ends(n), n + 1)  b == Ends(n + 1)
  <2>1. /\ a \in Seq(Nat) /\ Len(a) = n + 1 /\ a[n + 1] = n + 1
        /\ \A i \in 1..n : a[i] = Ends(n)[i]
    <3>1. n + 1 \in Nat
      OBVIOUS
    <3>2. QED BY <3>1, <1>2, <1>3, AppendProperties
  <2>2. \A i \in 1..(n + 1) : b[i] = i
    BY DEF Ends
  <2>3. b = [i \in 1..(n + 1) |-> b[i]]
    BY DEF Ends
  <2>4. IsSeq(b) /\ Len(b) = n + 1
    <3> HIDE DEF b
    <3> DEFINE m == n + 1
    <3>1. m \in Nat
      OBVIOUS
    <3>2. b = [i \in 1..m |-> b[i]]
      BY <2>3
    <3> HIDE DEF m
    <3>3. QED BY <3>1, <3>2, FunctionSeq DEF m
  <2>5. IsSeq(a)
    BY <2>1, SeqIsSeq
  <2> HIDE DEF a, b
  <2>6. ASSUME NEW i \in 1..(n + 1) PROVE a[i] = b[i]
    <3>1. i \in 1..n \/ i = n + 1
      OBVIOUS
    <3>2. QED BY <3>1, <2>1, <2>2, <1>1
  <2>7. \A i \in 1..Len(a) : a[i] = b[i]
    BY <2>6, <2>1
  <2>8. Len(a) = Len(b)
    BY <2>1, <2>4
  <2>9. QED BY <2>4, <2>5, <2>7, <2>8, SameSeq DEF a, b
<1>8. QED BY <1>3, <1>4, <1>5, <1>6, <1>7

\* One turn of the other side, and what n turns have made.
SealNext(u, k) ==
    LET r == aead_encrypt(<<Plain(k)>>, Password, u.ctx, ppbloom_init)
    IN  [buf |-> u.buf \o r.buf, ctx |-> r.ctx]

SealStart == [buf |-> <<>>, ctx |-> aead_ctx_init("peer")]

HasSealed(u, n) ==
    /\ Sealed(u.buf, Ends(n), "peer", Password, Plains)
    /\ u.ctx = [init |-> IF Ends(n) = <<>> THEN 0 ELSE 1, salt |-> "peer", nonce |-> 2 * n,
                chunk |-> <<>>]

\* One more turn of the other side seals one more chunk.
LEMMA SealTurn ==
    ASSUME NEW n \in Nat, NEW u, HasSealed(u, n)
    PROVE  HasSealed(SealNext(u, n + 1), n + 1)
<1> DEFINE E == Ends(n)
           m == 1
           T == EndOf(E, Len(E))
           F == Append(E, T + m)
           r == aead_encrypt(Part(Plains, T, m), Password, u.ctx, ppbloom_init)
<1>1. Len(E) = n /\ T = n /\ F = Ends(n + 1) /\ Len(Ends(n + 1)) = n + 1
  <2>1. Len(E) = n /\ EndOf(E, n) = n /\ Append(E, n + 1) = Ends(n + 1)
    BY EndsOf
  <2>2. T + m = n + 1
    BY <2>1
  <2>3. Len(Ends(n + 1)) = n + 1
    BY EndsOf
  <2>4. QED BY <2>1, <2>2, <2>3
<1>2. Part(Plains, T, m) = <<Plain(n + 1)>>
  <2> DEFINE q == Part(Plains, T, m)  t == <<Plain(n + 1)>>
  <2>0. T \in Nat /\ m \in Nat
    BY <1>1
  <2> HIDE DEF T, m
  <2>1. IsSeq(q) /\ Len(q) = m /\ \A i \in 1..m : q[i] = Plains[T + i]
    BY <2>0, PartSeq
  <2>2. IsSeq(t) /\ Len(t) = 1 /\ t[1] = Plain(n + 1)
    BY SingleIsSeq
  <2>3. Plains[T + 1] = Plain(n + 1)
    BY <1>1 DEF Plains
  <2> HIDE DEF q, t
  <2>4. Len(q) = Len(t) /\ \A i \in 1..Len(q) : q[i] = t[i]
    BY <2>1, <2>2, <2>3 DEF m
  <2>5. QED BY <2>1, <2>2, <2>4, SameSeq DEF q, t
<1>3. SealNext(u, n + 1) = [buf |-> u.buf \o r.buf, ctx |-> r.ctx]
  BY <1>2 DEF SealNext
<1>4. /\ Sealed(u.buf, E, "peer", Password, Plains) /\ m \in Nat \ {0}
      /\ u.ctx = [init |-> IF E = <<>> THEN 0 ELSE 1, salt |-> "peer", nonce |-> 2 * Len(E),
                  chunk |-> <<>>]
  BY <1>1 DEF HasSealed
<1> HIDE DEF E, m
<1>5. /\ Sealed(u.buf \o r.buf, F, "peer", Password, Plains)
      /\ r.ctx = [init |-> 1, salt |-> "peer", nonce |-> 2 * Len(F), chunk |-> <<>>]
  BY <1>4, SealMore
<1> HIDE DEF r, F, T
<1>6. Ends(n + 1) # <<>>
  <2>1. Len(<<>>) = 0 /\ n + 1 # 0
    BY EmptyIsSeq
  <2>2. QED BY <2>1, <1>1
<1>7. /\ Sealed(u.buf \o r.buf, Ends(n + 1), "peer", Password, Plains)
      /\ r.ctx = [init |-> IF Ends(n + 1) = <<>> THEN 0 ELSE 1, salt |-> "peer", nonce |-> 2 * (n + 1),
                  chunk |-> <<>>]
  BY <1>1, <1>5, <1>6
<1> DEFINE v == SealNext(u, n + 1)
           b == u.buf \o r.buf
           x == r.ctx
<1>0. v = [buf |-> b, ctx |-> x]
  BY <1>3
<1> HIDE DEF v, b, x
<1>8. v.buf = b /\ v.ctx = x
  BY <1>0
<1> USE DEF b, x
<1>9. HasSealed(v, n + 1)
  BY <1>7, <1>8 DEF HasSealed
<1>10. QED BY <1>9 DEF v

\* What the other side writes is its salt and DownChunks chunks of one byte.
LEMMA AnswerSealed ==
    Sealed(SealedAnswer, Ends(DownChunks), "peer", Password, Plains)
<1> DEFINE Is(f, t) == f = [k \in 0..t |-> IF k = 0 THEN SealStart ELSE SealNext(f[k - 1], k)]
           T == {t \in Nat : (\E f : Is(f, t)) /\ \A f : Is(f, t) => HasSealed(f[t], t)}
<1>1. DownChunks \in Nat
  BY LocalRelayAssumption
<1>2. 0 \in T
  <2>1. \E f : Is(f, 0)
    <3> DEFINE f == [k \in 0..0 |-> SealStart]
    <3>1. Is(f, 0)
      OBVIOUS
    <3>2. QED BY <3>1
  <2>2. ASSUME NEW f, Is(f, 0) PROVE HasSealed(f[0], 0)
    <3>1. f[0] = SealStart
      BY <2>2
    <3>2. Increasing(Ends(0)) /\ Ends(0) = <<>>
      <4>1. Increasing(Ends(0)) /\ Len(Ends(0)) = 0 /\ Ends(0) \in Seq(Nat)
        BY EndsOf DEF Increasing
      <4>2. QED BY <4>1, EmptyIsSeq, SeqIsSeq
    <3>3. Sealed(<<>>, Ends(0), "peer", Password, Plains)
      BY <3>2, EmptyIsSeq DEF Sealed
    <3>4. 2 * 0 = 0
      OBVIOUS
    <3> HIDE DEF Is
    <3>5. f[0].buf = <<>> /\ f[0].ctx = [init |-> 0, salt |-> "peer", nonce |-> 0, chunk |-> <<>>]
      BY <3>1 DEF SealStart, aead_ctx_init
    <3>6. QED BY <3>2, <3>3, <3>4, <3>5 DEF HasSealed
  <2> HIDE DEF Is
  <2>3. QED BY <2>1, <2>2
<1>3. ASSUME NEW n \in Nat, n \in T PROVE n + 1 \in T
  <2>0. n + 1 \in Nat
    OBVIOUS
  <2>1. PICK f : Is(f, n)
    BY <1>3
  <2> DEFINE h == [k \in 0..(n + 1) |-> IF k <= n THEN f[k] ELSE SealNext(f[n], n + 1)]
  <2>2. \A k \in 0..n : h[k] = f[k] /\ k \in 0..(n + 1)
    OBVIOUS
  <2>3. ASSUME NEW k \in 0..(n + 1) PROVE h[k] = IF k = 0 THEN SealStart ELSE SealNext(h[k - 1], k)
    <3>1. CASE k = 0
      <4>1. f[0] = SealStart
        BY <2>1
      <4>2. h[0] = f[0]
        BY <2>2
      <4>3. QED BY <3>1, <4>1, <4>2
    <3>2. CASE k \in 1..n
      <4>1. k # 0 /\ k \in 0..n /\ k - 1 \in 0..n
        BY <3>2
      <4>2. f[k] = SealNext(f[k - 1], k)
        BY <2>1, <4>1
      <4>3. h[k] = f[k] /\ h[k - 1] = f[k - 1]
        BY <2>2, <4>1
      <4>4. QED BY <4>1, <4>2, <4>3
    <3>3. CASE k = n + 1
      <4>1. k # 0 /\ ~(k <= n) /\ k - 1 = n /\ n \in 0..n
        BY <3>3
      <4>2. h[k] = SealNext(f[n], n + 1)
        BY <4>1
      <4>3. h[n] = f[n]
        BY <2>2, <4>1
      <4>4. QED BY <4>1, <4>2, <4>3, <3>3
    <3>4. QED BY <3>1, <3>2, <3>3
  <2>4. Is(h, n + 1)
    <3>1. h = [k \in 0..(n + 1) |-> h[k]]
      OBVIOUS
    <3> HIDE DEF h
    <3>2. QED BY <3>1, <2>3
  <2>5. ASSUME NEW e, Is(e, n + 1) PROVE HasSealed(e[n + 1], n + 1)
    <3> DEFINE d == [k \in 0..n |-> e[k]]
    <3>1. \A k \in 0..n : d[k] = e[k] /\ k \in 0..(n + 1) /\ (k # 0 => k - 1 \in 0..n)
      OBVIOUS
    <3>2. \A k \in 0..(n + 1) : e[k] = IF k = 0 THEN SealStart ELSE SealNext(e[k - 1], k)
      BY <2>5
    <3>3. \A k \in 0..n : d[k] = IF k = 0 THEN SealStart ELSE SealNext(d[k - 1], k)
      <4> SUFFICES ASSUME NEW k \in 0..n
                   PROVE  d[k] = IF k = 0 THEN SealStart ELSE SealNext(d[k - 1], k)
        OBVIOUS
      <4>1. d[k] = e[k] /\ k \in 0..(n + 1) /\ (k # 0 => d[k - 1] = e[k - 1])
        BY <3>1
      <4> HIDE DEF d
      <4>2. QED BY <4>1, <3>2
    <3>4. Is(d, n)
      <4>1. d = [k \in 0..n |-> d[k]]
        OBVIOUS
      <4> HIDE DEF d
      <4>2. QED BY <4>1, <3>3
    <3>5. HasSealed(d[n], n)
      <4> HIDE DEF d, Is
      <4>1. QED BY <3>4, <1>3
    <3>6. n \in 0..n /\ n + 1 \in 0..(n + 1) /\ n + 1 # 0 /\ n + 1 - 1 = n
      OBVIOUS
    <3>7. e[n + 1] = SealNext(e[n], n + 1) /\ d[n] = e[n]
      BY <3>1, <3>2, <3>6
    <3> HIDE DEF d
    <3>8. QED BY <3>5, <3>7, SealTurn
  <2> HIDE DEF h, Is
  <2>6. QED BY <2>0, <2>4, <2>5
<1> HIDE DEF T
<1>4. DownChunks \in T
  BY <1>1, <1>2, <1>3, SetInduction
<1> HIDE DEF Is
<1>5. /\ \E f : Is(f, DownChunks)
      /\ \A f : Is(f, DownChunks) => HasSealed(f[DownChunks], DownChunks)
  BY <1>4 DEF T
<1> DEFINE h == CHOOSE f1 : Is(f1, DownChunks)
<1>6. Is(h, DownChunks)
  BY <1>5
<1>7. HasSealed(h[DownChunks], DownChunks)
  BY <1>5, <1>6
<1>8. SealedAnswer = h[DownChunks].buf
  BY DEF SealedAnswer, Is, SealNext, SealStart
<1>9. QED BY <1>7, <1>8 DEF HasSealed
------------------------------------------------------------------------------
(* LocalRelay: the states of a connection *)

ConnFields ==
    {"stage", "on", "buf", "abuf", "remote", "rbuf", "connected", "e_ctx", "d_ctx",
     "fast_open", "tx", "rx", "up", "down", "why"}

BufFields == {"data", "idx", "len"}

\* A buffer of which nothing was sent.
WholeBuffer(b) == DOMAIN b = BufFields /\ IsSeq(b.data) /\ b.idx = 0 /\ b.len = Len(b.data)

\* The buffer holds the client's units behind the a-th, up to the R-th.
HoldsUnits(b, a, R) == b = [data |-> Cut(ClientStream, a, R), idx |-> 0, len |-> R - a]

\* A connection that was given up for y.
Gone(s, y) == s.stage = "freed" /\ s.on = {} /\ s.buf = Empty /\ s.remote = "null" /\ s.why = y

Faults == {"error", "protocol", "protect", "timeout", "signal"}

GivenUp(s) == Gone(s, s.why) /\ s.why \in Faults

\* Before the request is known there is no other side.
Fresh(s) ==
    /\ DOMAIN s = ConnFields
    /\ s.remote = "null" /\ s.connected = FALSE /\ s.why = "open"
    /\ s.on \subseteq {"server_recv", "delayed_connect"}
    /\ s.abuf = Empty /\ s.rbuf = Empty /\ s.up = <<>> /\ s.tx = 0 /\ s.rx = 0
    /\ s.e_ctx = aead_ctx_init("own") /\ s.d_ctx = aead_ctx_init("none")

Replies == <<Socks("method"), Socks("reply")>>

\* The handshake: of R units that were read, buf has what has not been answered.
Fed(s, R, cmd) ==
    /\ Fresh(s)
    /\ s.buf.len <= BufSize
    /\ \/ s.stage = "STAGE_INIT" /\ HoldsUnits(s.buf, 0, R) /\ s.down = <<>>
       \/ /\ s.stage = "STAGE_HANDSHAKE" /\ R >= 2 /\ HoldsUnits(s.buf, 2, R)
          /\ cmd = "connect" => s.down = <<Socks("method")>>
       \/ /\ s.stage = "STAGE_SNI" /\ R >= 4 /\ HoldsUnits(s.buf, 2, R)
          /\ cmd = "connect" /\ s.down = Replies

\* Between two callbacks the handshake waits for something.
Early(s, R, cmd) ==
    \/ s.stage = "none" /\ R = 0 /\ s.on = {} /\ s.buf = Empty /\ Fresh(s)
    \/ /\ Fed(s, R, cmd)
       /\ s.stage = "STAGE_INIT" => R <= 1
       /\ s.stage = "STAGE_HANDSHAKE" /\ cmd = "connect" => R <= 3
       /\ s.stage = "STAGE_SNI" => s.buf.len < BufSize

\* The relay.
Shape(s) ==
    /\ DOMAIN s = ConnFields
    /\ s.stage = "STAGE_STREAM" /\ s.why = "open" /\ s.remote \in {"direct", "proxied"}
    /\ s.on \subseteq Watchers /\ s.connected \in BOOLEAN

\* The other side has been given, or will be given from "tail", the first R
\* units of the client.
Upstream(s, tail, R) ==
    IF s.remote = "direct" THEN s.up \o tail = Bytes(R - 4) /\ s.tx = 0
    ELSE /\ s.tx = R - 4
         /\ \E E, h : /\ h \in {Socks("addr"), Socks("host")} /\ E # <<>>
                      /\ Sealed((s.up \o Pending(s.abuf)) \o tail, E, "own", Password, Addressed(h))
                      /\ EndOf(E, Len(E)) = R - 3
                      /\ s.e_ctx = [init |-> 1, salt |-> "own", nonce |-> 2 * Len(E), chunk |-> <<>>]

\* The client is read only when all it sent is gone, and one watcher at most
\* works on rbuf.
UpSide(s, R) ==
    /\ DOMAIN s.rbuf = BufFields /\ s.rbuf.idx \in Nat /\ s.rbuf.len \in Nat
    /\ WholeBuffer(s.abuf) /\ IsSeq(s.up)
    /\ "server_recv" \in s.on => s.rbuf.len = 0 /\ "remote_send" \notin s.on
    /\ "remote_send" \in s.on =>
           /\ BufferOK(s.rbuf) /\ "delayed_connect" \notin s.on
           /\ s.connected => s.rbuf.len > 0
           /\ s.remote = "proxied" => Pending(s.abuf) = <<>>
    /\ "delayed_connect" \in s.on => ~s.connected /\ s.rbuf.len = 0 /\ Len(s.rbuf.data) \in Nat
    /\ Upstream(s, Pending(s.rbuf), R)

\* The client has been given, or will be given from buf, what came in g units.
Got(s, q, g) ==
    IF s.remote = "direct" THEN q = Bytes(g) /\ s.rx = 0
    ELSE /\ s.rx = g
         /\ Reads(s.d_ctx, q, SealedAnswer, Ends(DownChunks), "peer", Password, Plains, g)

Downstream(s, tail, g) ==
    \E q : Got(s, q, g) /\ s.down \o tail = Replies \o q

\* The other side is read only when all it sent is gone.
DownSide(s, g) ==
    /\ DOMAIN s.buf = BufFields /\ s.buf.len \in Nat /\ s.buf.len <= BufSize /\ IsSeq(s.down)
    /\ "server_send" \in s.on => BufferOK(s.buf) /\ s.buf.len > 0 /\ "remote_recv" \notin s.on
    /\ ~s.connected => "server_send" \notin s.on /\ "remote_recv" \notin s.on
    /\ Downstream(s, IF "server_send" \in s.on THEN Pending(s.buf) ELSE <<>>, g)

Relaying(s, R, g) == Shape(s) /\ R >= 4 /\ UpSide(s, R) /\ DownSide(s, g)

\* Units that n chunks of the other side make.
Units(kind, n) == IF kind = "direct" \/ n = 0 THEN n ELSE 1 + 3 * n

\* The streams of both peers.
Sockets ==
    /\ env.cmd \in {"connect", "udp", "other"}
    /\ net \in {"idle", "pending", "up", "refused"}
    /\ DOMAIN client = {"pos", "read", "fin"} /\ DOMAIN remote = {"pos", "read", "fin"}
    /\ client.read \in Nat /\ client.pos \in Nat /\ remote.read \in Nat /\ remote.pos \in Nat
    /\ client.read <= client.pos /\ client.pos <= 4 + UpBytes

\* A connection is in the handshake, relays, or was given up for a reason.
RelayIInv ==
    /\ Sockets
    /\ \/ /\ Early(c, client.read, env.cmd)
          /\ net = "idle" /\ remote.pos = 0 /\ remote.read = 0
       \/ /\ Relaying(c, client.read, remote.read) /\ env.cmd = "connect"
          /\ remote.pos <= DownChunks /\ remote.read <= Units(c.remote, remote.pos)
       \/ /\ Gone(c, c.why) /\ c.why \in Faults \cup {"client_eof", "remote_eof"}
          /\ NoFalseEnd
------------------------------------------------------------------------------
(* LocalRelay: what goes up *)

\* Close frees whatever it is given.
LEMMA CloseFrees ==
    ASSUME NEW s, DOMAIN s = ConnFields, NEW y
    PROVE  Gone(Close(s, y), y) /\ (y \in Faults => GivenUp(Close(s, y)))
<1> DEFINE d == Close(s, y)
<1>1. d.stage = "freed" /\ d.on = {} /\ d.buf = Empty /\ d.remote = "null" /\ d.why = y
  BY DEF Close, ConnFields
<1> HIDE DEF d
<1>2. QED BY <1>1 DEF Gone, GivenUp, d

\* The other direction is left alone.
KeepsDown(d, s) ==
    /\ d.d_ctx = s.d_ctx /\ d.rx = s.rx /\ d.remote = s.remote /\ d.down = s.down /\ d.buf = s.buf
    /\ d.connected = s.connected
    /\ "server_send" \in d.on <=> "server_send" \in s.on
    /\ "remote_recv" \in d.on <=> "remote_recv" \in s.on

\* What leaves the downward direction alone keeps its invariant.
LEMMA DownKept ==
    ASSUME NEW d, NEW s, KeepsDown(d, s), NEW g, DownSide(s, g)
    PROVE  DownSide(d, g)
<1>1. /\ d.d_ctx = s.d_ctx /\ d.rx = s.rx /\ d.remote = s.remote /\ d.down = s.down /\ d.buf = s.buf
      /\ d.connected = s.connected
      /\ "server_send" \in d.on <=> "server_send" \in s.on
      /\ "remote_recv" \in d.on <=> "remote_recv" \in s.on
  BY DEF KeepsDown
<1>2. \A q : Got(s, q, g) => Got(d, q, g)
  BY <1>1 DEF Got
<1>3. \A tail : Downstream(s, tail, g) => Downstream(d, tail, g)
  BY <1>1, <1>2 DEF Downstream
<1>4. Downstream(d, IF "server_send" \in d.on THEN Pending(d.buf) ELSE <<>>, g)
  BY <1>1, <1>3, Zenon DEF DownSide
<1>5. QED BY <1>1, <1>4 DEF DownSide

\* Units move from the buffer to the kernel.
LEMMA UpstreamMoves ==
    ASSUME NEW s, NEW t, NEW tail, NEW rest, NEW R, Upstream(s, tail, R),
           t.remote = s.remote, t.tx = s.tx, t.e_ctx = s.e_ctx, t.abuf = s.abuf,
           s.remote # "direct" => Pending(s.abuf) = <<>>,
           IsSeq(s.up), IsSeq(t.up), t.up \o rest = s.up \o tail
    PROVE  Upstream(t, rest, R)
<1>1. CASE s.remote = "direct"
  BY <1>1 DEF Upstream
<1>2. CASE s.remote # "direct"
  <2>1. s.up \o Pending(s.abuf) = s.up /\ t.up \o Pending(t.abuf) = t.up
    BY <1>2, ConcatNone
  <2>2. (t.up \o Pending(t.abuf)) \o rest = (s.up \o Pending(s.abuf)) \o tail
    BY <2>1
  <2>3. QED BY <1>2, <2>2, Zenon DEF Upstream
<1>3. QED BY <1>1, <1>2

\* Units that move from the front of one sequence to the end of another.
LEMMA UnitsMove ==
    ASSUME NEW a, NEW h, NEW t, IsSeq(a), IsSeq(h), IsSeq(t)
    PROVE  IsSeq(a \o h) /\ (a \o h) \o t = a \o (h \o t)
  BY ConcatAssoc, ConcatSeq

\* What is sealed stands at the start of rbuf.
Ready(s, R) ==
    /\ Shape(s)
    /\ DOMAIN s.rbuf = BufFields /\ s.rbuf.len \in Nat /\ Len(s.rbuf.data) \in Nat
    /\ s.rbuf.len <= Len(s.rbuf.data)
    /\ WholeBuffer(s.abuf) /\ IsSeq(s.up)
    /\ "remote_send" \notin s.on /\ "delayed_connect" \notin s.on
    /\ s.connected => s.rbuf.len > 0
    /\ s.remote # "direct" => Pending(s.abuf) = <<>>
    /\ Upstream(s, SubSeq(s.rbuf.data, 1, s.rbuf.len), R)

\* The connection goes on, or it was given up.
GoesUp(d, s, R) == GivenUp(d) \/ (Shape(d) /\ UpSide(d, R) /\ KeepsDown(d, s))

\* The rest waits for remote_send: t is s, of which k units were sent.
LEMMA WaitKeeps ==
    ASSUME NEW s, NEW R, Ready(s, R), NEW k \in 0..s.rbuf.len, NEW t,
           DOMAIN t = ConnFields, t.stage = s.stage, t.why = s.why,
           t.on \ {"timeout"} = ((s.on \ {"server_recv"}) \cup {"remote_send"}) \ {"timeout"},
           t.tx = s.tx, t.e_ctx = s.e_ctx, t.abuf = s.abuf, KeepsDown(t, s),
           DOMAIN t.rbuf = BufFields, t.rbuf.data = s.rbuf.data, t.rbuf.idx = k,
           t.rbuf.len = s.rbuf.len - k, s.connected => k < s.rbuf.len,
           t.up = s.up \o SubSeq(s.rbuf.data, 1, k)
    PROVE  Shape(t) /\ UpSide(t, R)
<1> DEFINE D == s.rbuf.data
           l == s.rbuf.len
           h == SubSeq(D, 1, k)
           rest == SubSeq(D, k + 1, k + (l - k))
           b == SubSeq(D, 1, l)
<1>1. l \in Nat /\ Len(D) \in Nat /\ l <= Len(D) /\ WholeBuffer(s.abuf) /\ IsSeq(s.up)
      /\ (s.remote # "direct" => Pending(s.abuf) = <<>>) /\ Upstream(s, b, R)
  BY DEF Ready
<1>2. t.remote = s.remote /\ t.connected = s.connected
  BY DEF KeepsDown
<1>3. IsSeq(h) /\ IsSeq(rest) /\ h \o rest = b
  <2> HIDE DEF D, l
  <2>1. k \in 0..l
    BY DEF l
  <2>2. QED BY <1>1, <2>1, TakeFirst
<1>4. Pending(t.rbuf) = rest
  BY DEF Pending
<1> HIDE DEF h, rest, b
<1>5. IsSeq(t.up) /\ t.up \o rest = s.up \o b
  <2> DEFINE a == s.up
  <2>1. IsSeq(a) /\ IsSeq(h) /\ IsSeq(rest)
    BY <1>1, <1>3
  <2>2. t.up = a \o h
    BY DEF h
  <2> HIDE DEF a
  <2>3. IsSeq(a \o h) /\ (a \o h) \o rest = a \o (h \o rest)
    BY <2>1, UnitsMove
  <2>4. QED BY <2>2, <2>3, <1>3 DEF a
<1>6. Upstream(t, rest, R)
  BY <1>1, <1>2, <1>5, UpstreamMoves
<1>7. Shape(t)
  BY <1>2 DEF Ready, Shape, Watchers
<1>8. /\ "server_recv" \notin t.on /\ "remote_send" \in t.on /\ "delayed_connect" \notin t.on
  <2>1. /\ t.on \ {"timeout"} = ((s.on \ {"server_recv"}) \cup {"remote_send"}) \ {"timeout"}
        /\ "delayed_connect" \notin s.on
    BY DEF Ready
  <2>2. \A w : w # "timeout" => (w \in t.on <=> (w \in s.on /\ w # "server_recv") \/ w = "remote_send")
    BY ONLY <2>1
  <2>3. QED BY ONLY <2>1, <2>2
<1>9. BufferOK(t.rbuf) /\ t.rbuf.idx \in Nat /\ t.rbuf.len \in Nat /\ (t.connected => t.rbuf.len > 0)
  BY <1>1, <1>2 DEF BufferOK
<1>10. t.remote = "proxied" => Pending(t.abuf) = <<>>
  BY <1>1, <1>2
<1>11. UpSide(t, R)
  BY <1>1, <1>4, <1>5, <1>6, <1>8, <1>9, <1>10 DEF UpSide
<1>12. QED BY <1>7, <1>11

\* send on a connection that is up.
LEMMA SendUpKeeps ==
    ASSUME NEW s, NEW R, Ready(s, R), s.connected, NEW d \in SendUp(s)
    PROVE  GoesUp(d, s, R)
<1> DEFINE l == s.rbuf.len
           v(k) == [s EXCEPT !.up = @ \o SubSeq(s.rbuf.data, 1, k)]
           part(k) == WaitForSend([v(k) EXCEPT !.rbuf.len = @ - k, !.rbuf.idx = k])
           all(k) == [v(k) EXCEPT !.rbuf = Empty]
           none == WaitForSend([s EXCEPT !.rbuf.idx = 0])
<1>1. /\ DOMAIN s = ConnFields /\ DOMAIN s.rbuf = BufFields /\ l \in Nat /\ l > 0 /\ IsSeq(s.up)
      /\ Len(s.rbuf.data) \in Nat /\ l <= Len(s.rbuf.data)
  BY DEF Ready, Shape
<1>2. \/ d = Close(s, "error") \/ d = none
      \/ \E k \in Sent(l) : d = IF k < l THEN part(k) ELSE all(k)
  BY DEF SendUp
<1>3. CASE d = Close(s, "error")
  BY <1>1, <1>3, CloseFrees DEF GoesUp, Faults
<1>4. CASE d = none
  <2> DEFINE k == 0
  <2>1. /\ DOMAIN none = ConnFields /\ none.stage = s.stage /\ none.why = s.why
        /\ none.on = (s.on \ {"server_recv"}) \cup {"remote_send"}
        /\ none.tx = s.tx /\ none.e_ctx = s.e_ctx /\ none.abuf = s.abuf /\ KeepsDown(none, s)
        /\ DOMAIN none.rbuf = BufFields /\ none.rbuf.data = s.rbuf.data /\ none.rbuf.idx = k
        /\ none.rbuf.len = s.rbuf.len /\ none.up = s.up
    BY <1>1 DEF WaitForSend, ConnFields, BufFields, KeepsDown
  <2>2. s.up \o SubSeq(s.rbuf.data, 1, 0) = s.up
    <3>1. SubSeq(s.rbuf.data, 1, 0) = <<>>
      BY NoUnits
    <3>2. s.up \o <<>> = s.up
      BY <1>1, ConcatNone
    <3>3. QED BY <3>1, <3>2
  <2>3. s.rbuf.len - 0 = s.rbuf.len /\ 0 \in 0..s.rbuf.len /\ 0 < s.rbuf.len
    BY <1>1
  <2> HIDE DEF none
  <2>4. /\ none.on \ {"timeout"} = ((s.on \ {"server_recv"}) \cup {"remote_send"}) \ {"timeout"}
        /\ none.rbuf.len = s.rbuf.len - k /\ k \in 0..s.rbuf.len /\ k < s.rbuf.len
        /\ none.up = s.up \o SubSeq(s.rbuf.data, 1, k)
    BY <2>1, <2>2, <2>3
  <2> HIDE DEF k
  <2>5. Shape(none) /\ UpSide(none, R)
    BY <2>1, <2>4, WaitKeeps
  <2>6. QED BY <1>4, <2>1, <2>5 DEF GoesUp
<1>5. ASSUME NEW k \in Sent(l), d = IF k < l THEN part(k) ELSE all(k) PROVE GoesUp(d, s, R)
  <2>1. k \in 1..l /\ k \in 0..l /\ k \in Nat /\ (~(k < l) => k = l)
    BY <1>1, SentRange
  <2>2. CASE k < l
    <3>1. /\ DOMAIN d = ConnFields /\ d.stage = s.stage /\ d.why = s.why
          /\ d.on = (s.on \ {"server_recv"}) \cup {"remote_send"}
          /\ d.tx = s.tx /\ d.e_ctx = s.e_ctx /\ d.abuf = s.abuf /\ KeepsDown(d, s)
          /\ DOMAIN d.rbuf = BufFields /\ d.rbuf.data = s.rbuf.data /\ d.rbuf.idx = k
          /\ d.rbuf.len = s.rbuf.len - k /\ d.up = s.up \o SubSeq(s.rbuf.data, 1, k)
      BY <1>1, <1>5, <2>2 DEF WaitForSend, ConnFields, BufFields, KeepsDown
    <3>2. d.on \ {"timeout"} = ((s.on \ {"server_recv"}) \cup {"remote_send"}) \ {"timeout"}
      BY <3>1
    <3>3. Shape(d) /\ UpSide(d, R)
      BY <2>1, <2>2, <3>1, <3>2, WaitKeeps
    <3>4. QED BY <3>1, <3>3 DEF GoesUp
  <2>3. CASE ~(k < l)
    <3>1. /\ DOMAIN d = ConnFields /\ d.stage = s.stage /\ d.why = s.why /\ d.on = s.on
          /\ d.tx = s.tx /\ d.e_ctx = s.e_ctx /\ d.abuf = s.abuf /\ KeepsDown(d, s)
          /\ d.rbuf = Empty /\ d.up = s.up \o SubSeq(s.rbuf.data, 1, k) /\ k = l
      BY <1>1, <1>5, <2>1, <2>3 DEF ConnFields, BufFields, KeepsDown
    <3>2. d.remote = s.remote /\ d.connected = s.connected
      BY <3>1 DEF KeepsDown
    <3>3. /\ DOMAIN d.rbuf = BufFields /\ d.rbuf.idx = 0 /\ d.rbuf.len = 0 /\ Pending(d.rbuf) = <<>>
      BY <3>1 DEF Empty, BufFields, Pending
    <3> DEFINE b == SubSeq(s.rbuf.data, 1, l)
    <3>4. IsSeq(b)
      <4> HIDE DEF l
      <4>1. l \in 0..l
        BY <1>1
      <4>2. QED BY <1>1, <4>1, TakeFirst
    <3>5. d.up = s.up \o b
      BY <3>1
    <3> HIDE DEF b
    <3>6. IsSeq(d.up) /\ d.up \o <<>> = s.up \o b
      <4>1. IsSeq(s.up \o b)
        BY <1>1, <3>4, ConcatSeq
      <4>2. (s.up \o b) \o <<>> = s.up \o b
        BY <4>1, ConcatNone
      <4>3. QED BY <4>1, <4>2, <3>5
    <3>7. Upstream(s, b, R) /\ (s.remote # "direct" => Pending(s.abuf) = <<>>) /\ WholeBuffer(s.abuf)
      BY DEF Ready, b
    <3>8. Upstream(d, <<>>, R)
      BY <1>1, <3>1, <3>2, <3>6, <3>7, UpstreamMoves
    <3>9. Shape(d)
      BY <3>1, <3>2 DEF Ready, Shape
    <3>10. "remote_send" \notin d.on /\ "delayed_connect" \notin d.on
      BY <3>1 DEF Ready
    <3>11. UpSide(d, R)
      BY <3>1, <3>3, <3>6, <3>7, <3>8, <3>10 DEF UpSide
    <3>12. QED BY <3>1, <3>9, <3>11 DEF GoesUp
  <2>4. QED BY <2>2, <2>3
<1>6. QED BY <1>2, <1>3, <1>4, <1>5

\* connect, and sendto with MSG_FASTOPEN.
LEMMA ConnectKeeps ==
    ASSUME NEW s, NEW R, Ready(s, R), ~s.connected, s.rbuf.idx = 0, NEW d \in Connect(s)
    PROVE  GoesUp(d, s, R)
<1> DEFINE l == s.rbuf.len
           v(k) == [s EXCEPT !.rbuf.len = @ - k, !.rbuf.idx = k,
                             !.up = @ \o SubSeq(s.rbuf.data, 1, k)]
           timed(t) == [WaitForSend(t) EXCEPT !.on = @ \cup {"timeout"}]
           off == [s EXCEPT !.fast_open = FALSE]
<1>1. /\ DOMAIN s = ConnFields /\ DOMAIN s.rbuf = BufFields /\ l \in Nat /\ IsSeq(s.up)
      /\ Len(s.rbuf.data) \in Nat /\ l <= Len(s.rbuf.data)
  BY DEF Ready, Shape
<1>2. \/ d = Close(s, "error") \/ d = Close(off, "error") \/ d = timed(s) \/ d = WaitForSend(s)
      \/ \E k \in Sent(l) : d = timed(v(k))
  BY DEF Connect
<1>3. CASE d = Close(s, "error")
  BY <1>1, <1>3, CloseFrees DEF GoesUp, Faults
<1>4. CASE d = Close(off, "error")
  <2>1. DOMAIN off = ConnFields
    BY <1>1 DEF ConnFields
  <2> HIDE DEF off
  <2>2. QED BY <1>4, <2>1, CloseFrees DEF GoesUp, Faults
<1>5. CASE d = timed(s) \/ d = WaitForSend(s)
  <2> DEFINE k == 0
  <2>1. /\ DOMAIN d = ConnFields /\ d.stage = s.stage /\ d.why = s.why
        /\ d.on \ {"timeout"} = ((s.on \ {"server_recv"}) \cup {"remote_send"}) \ {"timeout"}
        /\ d.tx = s.tx /\ d.e_ctx = s.e_ctx /\ d.abuf = s.abuf /\ KeepsDown(d, s)
        /\ d.rbuf = s.rbuf /\ d.up = s.up
    <3>1. CASE d = timed(s)
      BY <1>1, <3>1 DEF WaitForSend, ConnFields, KeepsDown
    <3>2. CASE d = WaitForSend(s)
      BY <1>1, <3>2 DEF WaitForSend, ConnFields, KeepsDown
    <3>3. QED BY <1>5, <3>1, <3>2
  <2>2. s.up \o SubSeq(s.rbuf.data, 1, 0) = s.up
    <3>1. SubSeq(s.rbuf.data, 1, 0) = <<>>
      BY NoUnits
    <3>2. s.up \o <<>> = s.up
      BY <1>1, ConcatNone
    <3>3. QED BY <3>1, <3>2
  <2>3. s.rbuf.len - 0 = s.rbuf.len /\ 0 \in 0..s.rbuf.len
    BY <1>1
  <2>4. /\ d.rbuf.len = s.rbuf.len - k /\ k \in 0..s.rbuf.len /\ d.rbuf.idx = k
        /\ DOMAIN d.rbuf = BufFields /\ d.rbuf.data = s.rbuf.data
        /\ d.up = s.up \o SubSeq(s.rbuf.data, 1, k)
    BY <1>1, <2>1, <2>2, <2>3
  <2> HIDE DEF k
  <2>5. Shape(d) /\ UpSide(d, R)
    BY <2>1, <2>4, WaitKeeps
  <2>6. QED BY <2>1, <2>5 DEF GoesUp
<1>6. ASSUME NEW k \in Sent(l), d = timed(v(k)) PROVE GoesUp(d, s, R)
  <2>1. k \in 0..l
    BY <1>1, SentRange
  <2>2. /\ DOMAIN d = ConnFields /\ d.stage = s.stage /\ d.why = s.why
        /\ d.on \ {"timeout"} = ((s.on \ {"server_recv"}) \cup {"remote_send"}) \ {"timeout"}
        /\ d.tx = s.tx /\ d.e_ctx = s.e_ctx /\ d.abuf = s.abuf /\ KeepsDown(d, s)
        /\ DOMAIN d.rbuf = BufFields /\ d.rbuf.data = s.rbuf.data /\ d.rbuf.idx = k
        /\ d.rbuf.len = s.rbuf.len - k /\ d.up = s.up \o SubSeq(s.rbuf.data, 1, k)
    BY <1>1, <1>6 DEF WaitForSend, ConnFields, BufFields, KeepsDown
  <2>3. Shape(d) /\ UpSide(d, R)
    BY <2>1, <2>2, WaitKeeps
  <2>4. QED BY <2>2, <2>3 DEF GoesUp
<1>7. QED BY <1>2, <1>3, <1>4, <1>5, <1>6

\* The units behind the Q-th, up to the R-th, stand in rbuf as the client sent them.
Raw(s, Q, R) ==
    /\ Shape(s)
    /\ Q \in Nat /\ R \in Nat /\ 4 <= Q /\ Q <= R /\ R <= 4 + UpBytes
    /\ DOMAIN s.rbuf = BufFields /\ s.rbuf.idx \in Nat /\ s.rbuf.len = R - Q
    /\ Len(s.rbuf.data) \in Nat /\ s.rbuf.len <= Len(s.rbuf.data)
    /\ SubSeq(s.rbuf.data, 1, s.rbuf.len) = Cut(ClientStream, Q, R)
    /\ WholeBuffer(s.abuf) /\ IsSeq(s.up)
    /\ "remote_send" \notin s.on /\ "delayed_connect" \notin s.on
    /\ s.connected => Q < R
    /\ Upstream(s, <<>>, Q)

\* A direct connection gets the bytes as they are.
LEMMA SealDirect ==
    ASSUME NEW s, NEW Q, NEW R, Raw(s, Q, R), s.remote = "direct"
    PROVE  Ready(s, R)
<1> DEFINE a == Q - 4
           n == R - Q
           o == 0
<1>1. /\ Q \in Nat /\ R \in Nat /\ a \in Nat /\ n \in Nat /\ a + n = R - 4 /\ R - 4 \in Nat
      /\ o + a = a /\ o \in Nat
  <2>1. Q \in Nat /\ R \in Nat /\ 4 <= Q /\ Q <= R
    BY DEF Raw
  <2>2. QED BY <2>1
<1>2. SubSeq(s.rbuf.data, 1, s.rbuf.len) = Part(Plains, a, n)
  <2>1. 4 <= Q /\ Q <= R /\ R <= 4 + UpBytes
    BY DEF Raw
  <2>2. Cut(ClientStream, Q, R) = Part(Plains, a, n)
    BY <1>1, <2>1, ClientCut
  <2>3. QED BY <2>2 DEF Raw
<1>3. s.up = Bytes(a) /\ s.tx = 0
  <2>1. s.up \o <<>> = Bytes(a) /\ s.tx = 0 /\ IsSeq(s.up)
    BY DEF Raw, Upstream
  <2>2. QED BY <2>1, ConcatNone
<1>4. Bytes(a) = Part(Plains, o, a) /\ Bytes(R - 4) = Part(Plains, o, a + n)
  BY <1>1, BytesPart
<1> HIDE DEF a, n, o
<1>5. Part(Plains, o, a) \o Part(Plains, o + a, n) = Part(Plains, o, a + n)
  <2>1. o \in Nat /\ a \in Nat /\ n \in Nat
    BY <1>1
  <2>2. QED BY <2>1, PartJoin
<1>6. s.up \o SubSeq(s.rbuf.data, 1, s.rbuf.len) = Bytes(R - 4)
  BY <1>1, <1>2, <1>3, <1>4, <1>5
<1>7. Upstream(s, SubSeq(s.rbuf.data, 1, s.rbuf.len), R)
  BY <1>3, <1>6 DEF Upstream
<1>8. s.rbuf.len \in Nat /\ (s.connected => s.rbuf.len > 0)
  BY <1>1 DEF Raw
<1>9. QED BY <1>7, <1>8 DEF Raw, Ready

\* The server gets one more chunk: b is what aead_encrypt made.
LEMMA SealChunk ==
    ASSUME NEW s, NEW Q, NEW R, Raw(s, Q, R), s.remote # "direct",
           NEW r, r = aead_encrypt(SubSeq(s.rbuf.data, 1, s.rbuf.len), Password, s.e_ctx, ppbloom_init)
    PROVE  /\ IsSeq(r.buf) /\ (Q < R => Len(r.buf) > 0)
           /\ \E E, h : /\ h \in {Socks("addr"), Socks("host")} /\ E # <<>>
                        /\ Sealed((s.up \o Pending(s.abuf)) \o r.buf, E, "own", Password, Addressed(h))
                        /\ EndOf(E, Len(E)) = R - 3
                        /\ r.ctx = [init |-> 1, salt |-> "own", nonce |-> 2 * Len(E), chunk |-> <<>>]
<1> DEFINE A == s.up \o Pending(s.abuf)
<1>1. /\ Q \in Nat /\ R \in Nat /\ 4 <= Q /\ Q <= R /\ R <= 4 + UpBytes
      /\ SubSeq(s.rbuf.data, 1, s.rbuf.len) = Cut(ClientStream, Q, R)
  BY DEF Raw
<1>2. PICK E, h : /\ h \in {Socks("addr"), Socks("host")} /\ E # <<>>
                  /\ Sealed(A \o <<>>, E, "own", Password, Addressed(h))
                  /\ EndOf(E, Len(E)) = Q - 3
                  /\ s.e_ctx = [init |-> 1, salt |-> "own", nonce |-> 2 * Len(E), chunk |-> <<>>]
  BY DEF Raw, Upstream
<1>3. IsSeq(A) /\ A \o <<>> = A
  <2> DEFINE p == Pending(s.abuf)
  <2>1. IsSeq(s.up) /\ IsSeq(p)
    <3>1. IsSeq(s.abuf.data) /\ s.abuf.idx = 0 /\ s.abuf.len = Len(s.abuf.data)
      BY DEF Raw, WholeBuffer
    <3>2. p = SubSeq(s.abuf.data, 1, Len(s.abuf.data))
      <4>1. 0 + 1 = 1 /\ 0 + Len(s.abuf.data) = Len(s.abuf.data)
        BY <3>1 DEF IsSeq
      <4>2. QED BY <3>1, <4>1 DEF Pending
    <3>3. QED BY <3>1, <3>2, AllUnits DEF Raw
  <2> HIDE DEF p
  <2>2. IsSeq(s.up \o p)
    BY <2>1, ConcatSeq
  <2>3. QED BY <2>2, ConcatNone DEF p
<1>4. Sealed(A, E, "own", Password, Addressed(h))
  BY <1>2, <1>3
<1> DEFINE a == Q - 4
           n == R - Q
<1>5. a \in Nat /\ n \in Nat /\ a + 1 = Q - 3 /\ (n = 0 <=> ~(Q < R))
  BY <1>1
<1>6. SubSeq(s.rbuf.data, 1, s.rbuf.len) = Part(Plains, a, n) /\ Part(Addressed(h), a + 1, n) = Part(Plains, a, n)
  <2>1. Cut(ClientStream, Q, R) = Part(Plains, a, n)
    BY <1>1, ClientCut
  <2> HIDE DEF a, n
  <2>2. Part(Addressed(h), a + 1, n) = Part(Plains, a, n)
    BY <1>5, AddressedPart
  <2>3. QED BY <1>1, <2>1, <2>2
<1> HIDE DEF A
<1>7. CASE ~(Q < R)
  <2>1. n = 0 /\ R = Q
    BY <1>1, <1>7
  <2>2. SubSeq(s.rbuf.data, 1, s.rbuf.len) = <<>>
    <3> HIDE DEF a, n
    <3>1. Part(Plains, a, n) = <<>>
      BY <1>5, <2>1, PartSeq
    <3>2. QED BY <3>1, <1>6
  <2>3. r = [buf |-> <<>>, ctx |-> s.e_ctx, pp |-> ppbloom_init]
    BY <2>2 DEF aead_encrypt
  <2>4. r.buf = <<>> /\ r.ctx = s.e_ctx
    BY <2>3
  <2>5. /\ h \in {Socks("addr"), Socks("host")} /\ E # <<>>
        /\ Sealed(A \o r.buf, E, "own", Password, Addressed(h))
        /\ EndOf(E, Len(E)) = R - 3
        /\ r.ctx = [init |-> 1, salt |-> "own", nonce |-> 2 * Len(E), chunk |-> <<>>]
    BY <1>2, <2>1, <2>4
  <2>6. IsSeq(r.buf)
    BY <2>4, EmptyIsSeq
  <2>7. QED BY <2>5, <2>6, <1>7 DEF A
<1>8. CASE Q < R
  <2> DEFINE T == EndOf(E, Len(E))
             F == Append(E, T + n)
  <2>1. n \in Nat \ {0} /\ T = a + 1
    BY <1>2, <1>5, <1>8
  <2>2. /\ r = aead_encrypt(Part(Addressed(h), T, n), Password, s.e_ctx, ppbloom_init)
        /\ s.e_ctx = [init |-> IF E = <<>> THEN 0 ELSE 1, salt |-> "own", nonce |-> 2 * Len(E), chunk |-> <<>>]
    BY <1>2, <1>6, <2>1
  <2> HIDE DEF n, a
  <2>3. /\ Sealed(A \o r.buf, F, "own", Password, Addressed(h)) /\ IsSeq(r.buf)
        /\ r.ctx = [init |-> 1, salt |-> "own", nonce |-> 2 * Len(F), chunk |-> <<>>]
    BY <1>4, <2>1, <2>2, SealMore
  <2>4. Increasing(E) /\ E # <<>>
    BY <1>2, <1>4 DEF Sealed
  <2>5. /\ Len(F) = Len(E) + 1 /\ F # <<>> /\ EndOf(F, Len(E) + 1) = T + n
        /\ Off(F, Len(E) + 1) = Off(E, Len(E)) + n + 2
    BY <2>1, <2>4, EndsAppend
  <2>6. Len(A \o r.buf) = Off(F, Len(F)) /\ Len(A) = Off(E, Len(E))
    BY <1>4, <2>3, <2>4, <2>5 DEF Sealed
  <2>7. Len(A \o r.buf) = Len(A) + Len(r.buf) /\ Len(A) \in Nat /\ Len(r.buf) \in Nat
    BY <1>3, <2>3, ConcatSeq DEF IsSeq
  <2>8. Len(r.buf) > 0
    <3>1. Len(A) + Len(r.buf) = Len(A) + n + 2
      BY <2>5, <2>6, <2>7
    <3>2. QED BY <3>1, <2>1, <2>7
  <2>9. EndOf(F, Len(F)) = R - 3
    <3>1. T + n = R - 3
      BY <1>1, <1>2 DEF n
    <3>2. QED BY <3>1, <2>5
  <2>10. QED BY <1>2, <2>3, <2>5, <2>8, <2>9 DEF A
<1>9. QED BY <1>7, <1>8

\* Seal: what is in the buffers goes up in one piece, the address first.
LEMMA SealKeeps ==
    ASSUME NEW s, NEW Q, NEW R, Raw(s, Q, R)
    PROVE  Ready(Seal(s), R) /\ KeepsDown(Seal(s), s)
<1>1. CASE s.remote = "direct"
  <2>1. Seal(s) = s
    BY <1>1 DEF Seal
  <2>2. QED BY <1>1, <2>1, SealDirect DEF KeepsDown
<1>2. CASE s.remote # "direct"
  <2> DEFINE r == aead_encrypt(SubSeq(s.rbuf.data, 1, s.rbuf.len), Password, s.e_ctx, ppbloom_init)
             p == Pending(s.abuf)
             u == [s EXCEPT !.tx = @ + s.rbuf.len, !.e_ctx = r.ctx,
                            !.rbuf = [@ EXCEPT !.data = r.buf, !.len = Len(r.buf)]]
             t == [u EXCEPT !.rbuf = bprepend(@, s.abuf), !.abuf = Empty]
  <2>1. /\ IsSeq(r.buf) /\ (Q < R => Len(r.buf) > 0)
        /\ \E E, h : /\ h \in {Socks("addr"), Socks("host")} /\ E # <<>>
                     /\ Sealed((s.up \o p) \o r.buf, E, "own", Password, Addressed(h))
                     /\ EndOf(E, Len(E)) = R - 3
                     /\ r.ctx = [init |-> 1, salt |-> "own", nonce |-> 2 * Len(E), chunk |-> <<>>]
    BY <1>2, SealChunk
  <2>2. t = Seal(s)
    BY <1>2 DEF Seal
  <2> HIDE DEF r
  <2>3. /\ DOMAIN s = ConnFields /\ DOMAIN s.rbuf = BufFields
        /\ IsSeq(s.abuf.data) /\ s.abuf.idx = 0 /\ s.abuf.len = Len(s.abuf.data)
        /\ Q \in Nat /\ R \in Nat /\ s.rbuf.len = R - Q /\ IsSeq(s.up)
        /\ s.tx = Q - 4
    BY <1>2 DEF Raw, Shape, WholeBuffer, Upstream
  <2>4. /\ u.rbuf = [s.rbuf EXCEPT !.data = r.buf, !.len = Len(r.buf)] /\ DOMAIN u = ConnFields
        /\ u.tx = s.tx + s.rbuf.len /\ u.e_ctx = r.ctx
        /\ u.stage = s.stage /\ u.why = s.why /\ u.on = s.on /\ u.up = s.up /\ KeepsDown(u, s)
    BY <2>3 DEF ConnFields, KeepsDown
  <2> HIDE DEF u
  <2>5. DOMAIN u.rbuf = BufFields /\ u.rbuf.data = r.buf /\ u.rbuf.len = Len(r.buf)
    BY <2>3, <2>4 DEF BufFields
  <2>6. /\ t.rbuf = bprepend(u.rbuf, s.abuf) /\ t.abuf = Empty /\ DOMAIN t = ConnFields
        /\ t.tx = u.tx /\ t.e_ctx = r.ctx
        /\ t.stage = s.stage /\ t.why = s.why /\ t.on = s.on /\ t.up = s.up /\ KeepsDown(t, s)
    BY <2>4 DEF ConnFields, KeepsDown
  <2> HIDE DEF t
  <2>7. /\ DOMAIN t.rbuf = BufFields /\ t.rbuf.len = Len(r.buf) + s.abuf.len
        /\ t.rbuf.data = SubSeq(s.abuf.data, 1, s.abuf.len) \o SubSeq(r.buf, 1, Len(r.buf))
    BY <2>5, <2>6 DEF bprepend, BufFields
  <2>8. /\ SubSeq(r.buf, 1, Len(r.buf)) = r.buf /\ SubSeq(s.abuf.data, 1, s.abuf.len) = s.abuf.data
    BY <2>1, <2>3, AllUnits
  <2>9. p = s.abuf.data
    <3>1. 0 + 1 = 1 /\ 0 + Len(s.abuf.data) = Len(s.abuf.data)
      BY <2>3 DEF IsSeq
    <3>2. p = SubSeq(s.abuf.data, 1, s.abuf.len)
      BY <2>3, <3>1 DEF Pending
    <3>3. QED BY <3>2, <2>8
  <2> HIDE DEF p
  <2> DEFINE b == r.buf
             D == t.rbuf.data
             a == s.up
  <2>10. IsSeq(a) /\ IsSeq(p) /\ IsSeq(b) /\ Len(p) = s.abuf.len
    BY <2>1, <2>3, <2>9
  <2>11. D = p \o b
    BY <2>7, <2>8, <2>9
  <2>12. t.rbuf.len = Len(b) + Len(p) /\ t.tx = Q - 4 + (R - Q)
    BY <2>3, <2>4, <2>6, <2>7, <2>10
  <2>13. /\ \E E, h : /\ h \in {Socks("addr"), Socks("host")} /\ E # <<>>
                      /\ Sealed((a \o p) \o b, E, "own", Password, Addressed(h))
                      /\ EndOf(E, Len(E)) = R - 3
                      /\ t.e_ctx = [init |-> 1, salt |-> "own", nonce |-> 2 * Len(E), chunk |-> <<>>]
         /\ t.up = a
    BY <2>1, <2>6
  <2> HIDE DEF a, b, D
  <2>14. IsSeq(p \o b) /\ Len(p \o b) = Len(p) + Len(b) /\ Len(p) \in Nat /\ Len(b) \in Nat
    BY <2>10, ConcatSeq DEF IsSeq
  <2>15. IsSeq(D) /\ t.rbuf.len = Len(D) /\ t.rbuf.len \in Nat /\ (Q < R => t.rbuf.len > 0) /\ t.tx = R - 4
    <3>1. Len(D) = Len(p) + Len(b) /\ IsSeq(D)
      BY <2>11, <2>14
    <3>2. Q < R => Len(b) > 0
      BY <2>1 DEF b
    <3>3. t.tx = R - 4
      BY <2>3, <2>12
    <3>4. QED BY <3>1, <3>2, <3>3, <2>12, <2>14
  <2>16. SubSeq(D, 1, t.rbuf.len) = D
    BY <2>15, AllUnits
  <2>17. Pending(t.abuf) = <<>> /\ WholeBuffer(t.abuf)
    BY <2>6, EmptyIsSeq DEF Empty, Pending, WholeBuffer, BufFields
  <2>18. (t.up \o Pending(t.abuf)) \o D = (a \o p) \o b
    <3>1. a \o <<>> = a
      BY <2>10, ConcatNone
    <3>2. (a \o p) \o b = a \o (p \o b)
      BY <2>10, ConcatAssoc
    <3>3. QED BY <3>1, <3>2, <2>11, <2>13, <2>17
  <2>19. t.remote = s.remote /\ t.connected = s.connected
    BY <2>6 DEF KeepsDown
  <2>20. Upstream(t, D, R)
    BY <1>2, <2>13, <2>15, <2>18, <2>19, Zenon DEF Upstream
  <2>21. Shape(t)
    BY <2>6, <2>19 DEF Raw, Shape
  <2>22. Ready(t, R)
    <3>1. "remote_send" \notin t.on /\ "delayed_connect" \notin t.on /\ (t.connected => Q < R)
      BY <2>6, <2>19 DEF Raw
    <3>2. IsSeq(t.up)
      BY <2>10, <2>13
    <3>3. Len(D) \in Nat /\ t.rbuf.len <= Len(D)
      BY <2>15 DEF IsSeq
    <3>4. QED BY <2>7, <2>15, <2>16, <2>17, <2>20, <2>21, <3>1, <3>2, <3>3 DEF Ready, D
  <2>23. QED BY <2>2, <2>6, <2>22
<1>3. QED BY <1>1, <1>2

\* server_stream: the connection goes on, or is given up.
LEMMA StreamGoesUp ==
    ASSUME NEW s, NEW Q, NEW R, Raw(s, Q, R), NEW d \in server_stream(s)
    PROVE  GoesUp(d, s, R)
<1> DEFINE t == Seal(s)
<1>1. Ready(t, R) /\ KeepsDown(t, s)
  BY SealKeeps
<1>2. \/ s.connected /\ d \in SendUp(t)
      \/ /\ ~s.connected
         /\ \E p \in Protect(t) : d \in IF p.stage = "freed" THEN {p} ELSE Connect([p EXCEPT !.rbuf.idx = 0])
  BY DEF server_stream
<1> HIDE DEF t
<1>3. t.connected = s.connected /\ DOMAIN t = ConnFields /\ DOMAIN t.rbuf = BufFields
  BY <1>1 DEF KeepsDown, Ready, Shape
<1>4. ASSUME NEW e, GoesUp(e, t, R) PROVE GoesUp(e, s, R)
  BY <1>1, <1>4 DEF GoesUp, KeepsDown
<1>5. CASE s.connected /\ d \in SendUp(t)
  BY <1>1, <1>3, <1>4, <1>5, SendUpKeeps
<1>6. ASSUME ~s.connected, NEW p \in Protect(t),
             d \in IF p.stage = "freed" THEN {p} ELSE Connect([p EXCEPT !.rbuf.idx = 0])
      PROVE  GoesUp(d, s, R)
  <2>1. p = t \/ p = Close(t, "protect")
    BY <1>6 DEF Protect
  <2>2. CASE p = Close(t, "protect")
    <3>1. GivenUp(p) /\ p.stage = "freed"
      BY <1>3, <2>2, CloseFrees DEF Faults, GivenUp, Gone
    <3>2. d = p
      BY <1>6, <3>1
    <3>3. QED BY <3>1, <3>2 DEF GoesUp
  <2>3. CASE p = t
    <3> DEFINE u == [t EXCEPT !.rbuf.idx = 0]
    <3>1. t.stage = "STAGE_STREAM"
      BY <1>1 DEF Ready, Shape
    <3>2. d \in Connect(u)
      BY <1>6, <2>3, <3>1
    <3>3. /\ DOMAIN u = ConnFields /\ u.stage = t.stage /\ u.why = t.why /\ u.on = t.on
          /\ u.tx = t.tx /\ u.e_ctx = t.e_ctx /\ u.abuf = t.abuf /\ u.up = t.up /\ KeepsDown(u, t)
          /\ DOMAIN u.rbuf = BufFields /\ u.rbuf.data = t.rbuf.data /\ u.rbuf.len = t.rbuf.len
          /\ u.rbuf.idx = 0
      BY <1>3 DEF ConnFields, BufFields, KeepsDown
    <3> HIDE DEF u
    <3>4. u.remote = t.remote /\ u.connected = t.connected
      BY <3>3 DEF KeepsDown
    <3>5. Shape(u)
      BY <1>1, <3>3, <3>4 DEF Ready, Shape
    <3>6. Upstream(u, SubSeq(u.rbuf.data, 1, u.rbuf.len), R)
      <4>1. Upstream(t, SubSeq(t.rbuf.data, 1, t.rbuf.len), R)
        BY <1>1 DEF Ready
      <4>2. \A tail : Upstream(t, tail, R) => Upstream(u, tail, R)
        BY <3>3, <3>4, Zenon DEF Upstream
      <4>3. QED BY <3>3, <4>1, <4>2
    <3>7. Ready(u, R)
      BY <1>1, <3>3, <3>4, <3>5, <3>6 DEF Ready
    <3>8. GoesUp(d, u, R)
      BY <1>3, <1>6, <3>2, <3>3, <3>4, <3>7, ConnectKeeps
    <3>9. GoesUp(d, t, R)
      BY <3>3, <3>8 DEF GoesUp, KeepsDown
    <3>10. QED BY <1>4, <3>9
  <2>4. QED BY <2>1, <2>2, <2>3
<1>7. QED BY <1>2, <1>5, <1>6
------------------------------------------------------------------------------
(* LocalRelay: the handshake *)

\* The request is complete and answered.
Opening(s, R) ==
    /\ Fresh(s) /\ "delayed_connect" \notin s.on
    /\ R \in Nat /\ 4 <= R /\ R <= 4 + UpBytes
    /\ HoldsUnits(s.buf, 2, R) /\ s.buf.len <= BufSize /\ s.down = Replies

\* Nothing has come from the other side of a connection that is being made.
LEMMA DownStarts ==
    ASSUME NEW s, DOMAIN s.buf = BufFields, s.buf.len \in Nat, s.buf.len <= BufSize,
           "server_send" \notin s.on, "remote_recv" \notin s.on,
           s.down = Replies, s.rx = 0, s.d_ctx = aead_ctx_init("none")
    PROVE  DownSide(s, 0)
<1>1. Replies \o <<>> = Replies /\ IsSeq(Replies)
  <2>1. Replies \in Seq({Socks("method"), Socks("reply")})
    BY DEF Replies
  <2>2. IsSeq(Replies)
    BY <2>1, SeqIsSeq
  <2>3. QED BY <2>2, ConcatNone
<1>2. Bytes(0) = <<>>
  BY BytesPart, EmptyIsSeq
<1>3. Reads(s.d_ctx, <<>>, SealedAnswer, Ends(DownChunks), "peer", Password, Plains, 0)
  <2>1. Cut(SealedAnswer, 0, 0) = <<>>
    BY CutEnds
  <2>2. s.d_ctx.init = 0 /\ s.d_ctx.chunk = <<>> /\ IsContext(s.d_ctx)
    BY DEF aead_ctx_init, IsContext
  <2>3. QED BY <2>1, <2>2 DEF Reads
<1>4. Got(s, <<>>, 0)
  BY <1>2, <1>3 DEF Got
<1>5. Downstream(s, <<>>, 0)
  BY <1>1, <1>4 DEF Downstream
<1>6. QED BY <1>1, <1>5 DEF DownSide

\* The first chunk is the address.
LEMMA AddressSealed ==
    ASSUME NEW h, NEW r, r = aead_encrypt(<<h>>, Password, aead_ctx_init("own"), ppbloom_init)
    PROVE  /\ IsSeq(r.buf)
           /\ \E E : /\ E # <<>> /\ Sealed(r.buf, E, "own", Password, Addressed(h)) /\ EndOf(E, Len(E)) = 1
                     /\ r.ctx = [init |-> 1, salt |-> "own", nonce |-> 2 * Len(E), chunk |-> <<>>]
<1> DEFINE E == <<>>
           n == 1
           T == EndOf(E, Len(E))
           F == Append(E, T + n)
           x == aead_ctx_init("own")
<1>1. E = <<>> /\ Len(E) = 0 /\ T = 0 /\ 2 * Len(E) = 0 /\ n \in Nat \ {0}
  BY EmptyIsSeq DEF EndOf
<1>2. Increasing(E)
  <2>1. Increasing(Ends(0)) /\ Len(Ends(0)) = 0 /\ Ends(0) \in Seq(Nat)
    BY EndsOf DEF Increasing
  <2>2. Ends(0) = <<>>
    BY <2>1, EmptyIsSeq, SeqIsSeq
  <2>3. QED BY <2>1, <2>2
<1>3. Sealed(<<>>, E, "own", Password, Addressed(h))
  BY <1>2, EmptyIsSeq DEF Sealed
<1>4. x = [init |-> IF E = <<>> THEN 0 ELSE 1, salt |-> "own", nonce |-> 2 * Len(E), chunk |-> <<>>]
  BY <1>1 DEF aead_ctx_init
<1>5. r = aead_encrypt(Part(Addressed(h), T, n), Password, x, ppbloom_init)
  <2>1. Part(Addressed(h), 0, 1) = <<h>>
    BY AddressedPart
  <2>2. QED BY <1>1, <2>1
<1> HIDE DEF E, n, x
<1>6. /\ Sealed(<<>> \o r.buf, F, "own", Password, Addressed(h)) /\ IsSeq(r.buf)
      /\ r.ctx = [init |-> 1, salt |-> "own", nonce |-> 2 * Len(F), chunk |-> <<>>]
  <2> DEFINE v == aead_encrypt(Part(Addressed(h), T, n), Password, x, ppbloom_init)
             W == <<>>
  <2>1. Sealed(W, E, "own", Password, Addressed(h)) /\ n \in Nat \ {0}
    BY <1>1, <1>3
  <2> HIDE DEF W
  <2>2. /\ Sealed(W \o v.buf, F, "own", Password, Addressed(h)) /\ IsSeq(v.buf)
        /\ v.ctx = [init |-> 1, salt |-> "own", nonce |-> 2 * Len(F), chunk |-> <<>>]
    BY <2>1, <1>4, SealMore
  <2> HIDE DEF v
  <2>3. r = v
    BY <1>5 DEF v
  <2>4. QED BY <2>2, <2>3 DEF W
<1>7. Len(F) = Len(E) + 1 /\ F # <<>> /\ EndOf(F, Len(E) + 1) = T + n
  BY <1>1, <1>2, EndsAppend
<1>8. EndOf(F, Len(F)) = 1
  BY <1>1, <1>7 DEF n
<1>9. <<>> \o r.buf = r.buf
  BY <1>6, ConcatNone
<1>10. QED BY <1>6, <1>7, <1>8, <1>9

\* What Route makes of a connection before it is connected.
Made(s, kind, header) ==
    LET payload == SubSeq(s.buf.data, 3, s.buf.len)
        r == aead_encrypt(<<header>>, Password, s.e_ctx, ppbloom_init)
        t == [s EXCEPT !.stage = "STAGE_STREAM", !.remote = kind,
                       !.buf = Buffer(payload), !.rbuf = Buffer(payload)]
    IN  IF kind = "direct" THEN [t EXCEPT !.abuf = Buffer(<<header>>)]
        ELSE [t EXCEPT !.abuf = Buffer(r.buf), !.e_ctx = r.ctx]

\* create_remote: the relay starts with the address sealed, or kept for a direct
\* connection, and the first payload in rbuf.
LEMMA MadeStarts ==
    ASSUME NEW s, NEW R, Opening(s, R), NEW kind \in {"direct", "proxied"},
           NEW header \in {Socks("addr"), Socks("host")}
    PROVE  LET m == Made(s, kind, header)
           IN  /\ Raw(m, 4, R) /\ DownSide(m, 0) /\ m.connected = FALSE
               /\ (SubSeq(s.buf.data, 3, s.buf.len) = <<>> => R = 4)
               /\ m.on \subseteq {"server_recv"}
<1> DEFINE payload == SubSeq(s.buf.data, 3, s.buf.len)
           r == aead_encrypt(<<header>>, Password, s.e_ctx, ppbloom_init)
           t == [s EXCEPT !.stage = "STAGE_STREAM", !.remote = kind,
                          !.buf = Buffer(payload), !.rbuf = Buffer(payload)]
           m == Made(s, kind, header)
<1>1. /\ DOMAIN s = ConnFields /\ s.connected = FALSE /\ s.why = "open" /\ s.on \subseteq {"server_recv"}
      /\ s.up = <<>> /\ s.tx = 0 /\ s.rx = 0 /\ s.down = Replies
      /\ s.e_ctx = aead_ctx_init("own") /\ s.d_ctx = aead_ctx_init("none")
      /\ R \in Nat /\ 4 <= R /\ R <= 4 + UpBytes
      /\ s.buf.data = Cut(ClientStream, 2, R) /\ s.buf.len = R - 2 /\ R - 2 <= BufSize
  BY DEF Opening, Fresh, HoldsUnits
<1>2. payload = Cut(ClientStream, 4, R) /\ IsSeq(payload) /\ Len(payload) = R - 4
  <2> DEFINE a == 2  b == R - 2  e == 4
  <2>1. /\ a \in Nat /\ b \in Nat /\ e \in Nat /\ a <= R /\ a <= b /\ b <= R - a /\ a + a = e /\ a + b = R
        /\ a + 1 = 3 /\ e <= R
    BY <1>1
  <2>2. payload = Cut(Cut(ClientStream, a, R), a, b)
    BY <1>1, <2>1 DEF Cut
  <2> HIDE DEF a, b, e, payload
  <2>3. payload = Cut(ClientStream, a + a, a + b)
    BY <1>1, <2>1, <2>2, CutOfCut
  <2>4. payload = Cut(ClientStream, e, R)
    BY <2>1, <2>3
  <2>5. IsSeq(Cut(ClientStream, e, R)) /\ Len(Cut(ClientStream, e, R)) = R - e
    <3>1. e \in Nat /\ R \in Nat /\ e <= R
      BY <1>1, <2>1
    <3>2. QED BY <3>1, CutSeq DEF Cut
  <2>6. QED BY <2>4, <2>5 DEF e
<1> HIDE DEF payload
<1>3. payload = <<>> => R = 4
  BY <1>1, <1>2, EmptyIsSeq
<1> DEFINE B == Buffer(payload)
<1>4. /\ DOMAIN B = BufFields /\ B.data = payload /\ B.idx = 0 /\ B.len = R - 4 /\ R - 4 \in Nat
      /\ R - 4 <= BufSize
  BY <1>1, <1>2, LocalRelayAssumption DEF Buffer, BufFields
<1> HIDE DEF B
<1>5. /\ DOMAIN t = ConnFields /\ t.stage = "STAGE_STREAM" /\ t.remote = kind /\ t.buf = B /\ t.rbuf = B
      /\ t.connected = FALSE /\ t.why = "open" /\ t.on = s.on /\ t.up = <<>> /\ t.tx = 0 /\ t.rx = 0
      /\ t.down = Replies /\ t.d_ctx = s.d_ctx /\ t.e_ctx = s.e_ctx
  BY <1>1 DEF ConnFields, B
<1>6. m = IF kind = "direct" THEN [t EXCEPT !.abuf = Buffer(<<header>>)]
          ELSE [t EXCEPT !.abuf = Buffer(r.buf), !.e_ctx = r.ctx]
  BY DEF Made, payload
<1> HIDE DEF t, r
<1>7. /\ DOMAIN m = ConnFields /\ m.stage = "STAGE_STREAM" /\ m.remote = kind /\ m.buf = B /\ m.rbuf = B
      /\ m.connected = FALSE /\ m.why = "open" /\ m.on = s.on /\ m.up = <<>> /\ m.tx = 0 /\ m.rx = 0
      /\ m.down = Replies /\ m.d_ctx = s.d_ctx
      /\ kind = "direct" => m.abuf = Buffer(<<header>>)
      /\ kind # "direct" => m.abuf = Buffer(r.buf) /\ m.e_ctx = r.ctx
  BY <1>5, <1>6 DEF ConnFields
<1> HIDE DEF m
<1>8. Shape(m)
  BY <1>1, <1>7 DEF Shape, Watchers
<1>9. SubSeq(B.data, 1, B.len) = Cut(ClientStream, 4, R)
  BY <1>2, <1>4, AllUnits
<1>10. DownSide(m, 0)
  <2>1. "server_send" \notin m.on /\ "remote_recv" \notin m.on
    BY <1>1, <1>7
  <2>2. QED BY <1>1, <1>4, <1>7, <2>1, DownStarts
<1>11. WholeBuffer(m.abuf) /\ Upstream(m, <<>>, 4)
  <2>0. 4 - 4 = 0 /\ 4 - 3 = 1
    OBVIOUS
  <2>1. \A q : IsSeq(q) => /\ WholeBuffer(Buffer(q)) /\ Pending(Buffer(q)) = q
    <3> SUFFICES ASSUME NEW q, IsSeq(q) PROVE WholeBuffer(Buffer(q)) /\ Pending(Buffer(q)) = q
      OBVIOUS
    <3> DEFINE b == Buffer(q)
    <3>1. DOMAIN b = BufFields /\ b.data = q /\ b.idx = 0 /\ b.len = Len(q)
      BY DEF Buffer, BufFields
    <3> HIDE DEF b
    <3>2. 0 + 1 = 1 /\ 0 + Len(q) = Len(q)
      BY DEF IsSeq
    <3>3. Pending(b) = SubSeq(q, 1, Len(q))
      BY <3>1, <3>2 DEF Pending
    <3>4. QED BY <3>1, <3>3, AllUnits DEF WholeBuffer, b
  <2>2. CASE kind = "direct"
    <3>1. WholeBuffer(m.abuf)
      BY <1>7, <2>1, <2>2, SingleIsSeq
    <3>2. Bytes(0) = <<>> /\ <<>> \o <<>> = <<>>
      BY BytesPart, EmptyIsSeq, ConcatNone
    <3>3. QED BY <1>7, <2>0, <2>2, <3>1, <3>2 DEF Upstream
  <2>3. CASE kind # "direct"
    <3>1. /\ IsSeq(r.buf)
          /\ \E E : /\ E # <<>> /\ Sealed(r.buf, E, "own", Password, Addressed(header)) /\ EndOf(E, Len(E)) = 1
                    /\ r.ctx = [init |-> 1, salt |-> "own", nonce |-> 2 * Len(E), chunk |-> <<>>]
      BY <1>1, AddressSealed DEF r
    <3>2. WholeBuffer(m.abuf) /\ Pending(m.abuf) = r.buf
      BY <1>7, <2>1, <2>3, <3>1
    <3>3. (m.up \o Pending(m.abuf)) \o <<>> = r.buf
      <4>1. <<>> \o r.buf = r.buf /\ r.buf \o <<>> = r.buf
        BY <3>1, ConcatNone
      <4>2. QED BY <1>7, <3>2, <4>1
    <3>4. m.tx = 4 - 4 /\ m.remote # "direct"
      BY <1>7, <2>0, <2>3
    <3>5. PICK E : /\ E # <<>> /\ Sealed(r.buf, E, "own", Password, Addressed(header)) /\ EndOf(E, Len(E)) = 1
                   /\ r.ctx = [init |-> 1, salt |-> "own", nonce |-> 2 * Len(E), chunk |-> <<>>]
      BY <3>1
    <3>6. /\ header \in {Socks("addr"), Socks("host")} /\ E # <<>>
          /\ Sealed((m.up \o Pending(m.abuf)) \o <<>>, E, "own", Password, Addressed(header))
          /\ EndOf(E, Len(E)) = 4 - 3
          /\ m.e_ctx = [init |-> 1, salt |-> "own", nonce |-> 2 * Len(E), chunk |-> <<>>]
      BY <1>7, <2>0, <2>3, <3>3, <3>5
    <3>7. QED BY <3>2, <3>4, <3>6 DEF Upstream
  <2>4. QED BY <2>2, <2>3
<1>12. Raw(m, 4, R)
  <2>1. "remote_send" \notin m.on /\ "delayed_connect" \notin m.on /\ IsSeq(m.up)
    BY <1>1, <1>7, EmptyIsSeq
  <2>2. 4 \in Nat /\ 4 <= 4
    OBVIOUS
  <2>3. DOMAIN m.rbuf = BufFields /\ m.rbuf.idx \in Nat /\ m.rbuf.len = R - 4 /\ Len(m.rbuf.data) \in Nat
        /\ m.rbuf.len <= Len(m.rbuf.data)
        /\ SubSeq(m.rbuf.data, 1, m.rbuf.len) = Cut(ClientStream, 4, R)
    BY <1>2, <1>4, <1>7, <1>9
  <2>4. QED BY <1>1, <1>7, <1>8, <1>11, <2>1, <2>2, <2>3 DEF Raw
<1>13. QED BY <1>1, <1>3, <1>7, <1>10, <1>12 DEF m, payload

\* From the reply to the end of server_handshake.
LEMMA RouteOpens ==
    ASSUME NEW s, NEW R, Opening(s, R), NEW sni, NEW d \in Route(s, sni)
    PROVE  GivenUp(d) \/ Relaying(d, R, 0)
<1> DEFINE header == IF sni /\ env.acl # "none" /\ env.is_remote_dns THEN Socks("host") ELSE Socks("addr")
           payload == SubSeq(s.buf.data, 3, s.buf.len)
           m(kind) == Made(s, kind, header)
<1>1. \/ d = Close(s, "error")
      \/ \E kind \in {"direct", "proxied"} :
             \/ d \in server_stream(m(kind))
             \/ payload = <<>> /\ d = [m(kind) EXCEPT !.on = @ \cup {"delayed_connect"}]
  <2>1. PICK kind \in Routes(env.atyp = "domain", sni) :
            d \in IF kind = "null" THEN {Close(s, "error")}
                  ELSE IF payload # <<>> \/ sni THEN server_stream(m(kind))
                  ELSE {[m(kind) EXCEPT !.on = @ \cup {"delayed_connect"}]}
    <3> DEFINE F(kind) == IF kind = "null" THEN {Close(s, "error")}
                          ELSE IF payload # <<>> \/ sni THEN server_stream(m(kind))
                          ELSE {[m(kind) EXCEPT !.on = @ \cup {"delayed_connect"}]}
    <3>1. Route(s, sni) = UNION {F(kind) : kind \in Routes(env.atyp = "domain", sni)}
      BY Zenon DEF Route, Made
    <3> HIDE DEF F
    <3>2. \E kind \in Routes(env.atyp = "domain", sni) : d \in F(kind)
      BY <3>1
    <3>3. QED BY <3>2 DEF F
  <2>2. kind \in {"direct", "proxied", "null"}
    BY DEF Routes
  <2> HIDE DEF m, payload
  <2>3. QED BY <2>1, <2>2
<1>2. header \in {Socks("addr"), Socks("host")}
  OBVIOUS
<1>3. DOMAIN s = ConnFields
  BY DEF Opening, Fresh
<1> HIDE DEF header
<1>4. CASE d = Close(s, "error")
  BY <1>3, <1>4, CloseFrees DEF Faults
<1>5. ASSUME NEW kind \in {"direct", "proxied"},
             \/ d \in server_stream(m(kind))
             \/ payload = <<>> /\ d = [m(kind) EXCEPT !.on = @ \cup {"delayed_connect"}]
      PROVE  GivenUp(d) \/ Relaying(d, R, 0)
  <2> DEFINE n == m(kind)
  <2>1. /\ Raw(n, 4, R) /\ DownSide(n, 0) /\ n.connected = FALSE /\ (payload = <<>> => R = 4)
        /\ n.on \subseteq {"server_recv"}
    BY <1>2, MadeStarts
  <2>2. R >= 4
    BY <2>1 DEF Raw
  <2> HIDE DEF n, payload
  <2>3. CASE d \in server_stream(n)
    <3>1. GoesUp(d, n, R)
      BY <2>1, <2>3, StreamGoesUp
    <3>2. GivenUp(d) \/ (Shape(d) /\ UpSide(d, R) /\ DownSide(d, 0))
      BY <2>1, <3>1, DownKept DEF GoesUp
    <3>3. QED BY <2>2, <3>2 DEF Relaying
  <2>4. CASE payload = <<>> /\ d = [n EXCEPT !.on = @ \cup {"delayed_connect"}]
    <3>1. R = 4 /\ DOMAIN n = ConnFields /\ DOMAIN n.rbuf = BufFields /\ WholeBuffer(n.abuf) /\ IsSeq(n.up)
          /\ n.rbuf.len = R - 4 /\ n.rbuf.idx \in Nat /\ Upstream(n, <<>>, 4) /\ Shape(n)
          /\ Len(n.rbuf.data) \in Nat
      BY <2>1, <2>4 DEF Raw, Shape
    <3>2. /\ DOMAIN d = ConnFields /\ d.stage = n.stage /\ d.why = n.why /\ d.remote = n.remote
          /\ d.on = n.on \cup {"delayed_connect"} /\ d.connected = n.connected
          /\ d.rbuf = n.rbuf /\ d.abuf = n.abuf /\ d.up = n.up /\ d.tx = n.tx /\ d.e_ctx = n.e_ctx
          /\ d.d_ctx = n.d_ctx /\ d.rx = n.rx /\ d.down = n.down /\ d.buf = n.buf
      BY <2>4, <3>1 DEF ConnFields
    <3>3. KeepsDown(d, n)
      BY <3>2 DEF KeepsDown
    <3>4. DownSide(d, 0)
      BY <2>1, <3>3, DownKept
    <3>5. Shape(d)
      BY <3>1, <3>2 DEF Shape, Watchers
    <3>6. Pending(d.rbuf) = <<>> /\ d.rbuf.len = 0
      <4>1. d.rbuf.len = 0 /\ d.rbuf.idx \in Nat
        BY <3>1, <3>2
      <4>2. QED BY <4>1, NoUnits DEF Pending
    <3>7. Upstream(d, <<>>, R)
      BY <3>1, <3>2, Zenon DEF Upstream
    <3>8. "remote_send" \notin d.on /\ ~d.connected
      BY <2>1, <3>2
    <3>9. UpSide(d, R)
      BY <3>1, <3>2, <3>6, <3>7, <3>8 DEF UpSide
    <3>10. QED BY <2>2, <3>4, <3>5, <3>9 DEF Relaying
  <2>5. QED BY <1>5, <2>3, <2>4 DEF n
<1>6. QED BY <1>1, <1>4, <1>5

\* How a turn of the handshake may end.
Advances(d, R, cmd) == GivenUp(d) \/ Early(d, R, cmd) \/ (Relaying(d, R, 0) /\ cmd = "connect")

\* server_handshake, on a request of which any part has been read.
LEMMA HandshakeServes ==
    ASSUME NEW s, NEW R \in Nat, R <= 4 + UpBytes, Fed(s, R, env.cmd),
           s.stage \in {"STAGE_HANDSHAKE", "STAGE_SNI"}, "delayed_connect" \notin s.on,
           env.cmd \in {"connect", "udp", "other"}, NEW d \in server_handshake(s)
    PROVE  Advances(d, R, env.cmd)
<1> DEFINE cmd == env.cmd
           answered == [s EXCEPT !.down = Append(@, Socks("reply"))]
           Replied == {t \in Reply(s) : t.stage # "freed"}
           Refused == {t \in Reply(s) : t.stage = "freed"}
<1>1. /\ DOMAIN s = ConnFields /\ Fresh(s) /\ R >= 2 /\ HoldsUnits(s.buf, 2, R) /\ s.buf.len <= BufSize
      /\ s.stage = "STAGE_HANDSHAKE" /\ cmd = "connect" => s.down = <<Socks("method")>>
      /\ s.stage = "STAGE_SNI" => R >= 4 /\ cmd = "connect" /\ s.down = Replies
  BY DEF Fed, Fresh
<1>2. s.buf.len = R - 2
  BY <1>1 DEF HoldsUnits
<1>3. \A y \in Faults : GivenUp(Close(s, y))
  BY <1>1, CloseFrees
<1>4. /\ DOMAIN answered = ConnFields /\ Fresh(answered) /\ answered.stage = s.stage /\ answered.buf = s.buf
      /\ answered.on = s.on /\ answered.down = Append(s.down, Socks("reply"))
  <2>1. /\ DOMAIN answered = ConnFields /\ answered.stage = s.stage /\ answered.buf = s.buf
        /\ answered.on = s.on /\ answered.down = Append(s.down, Socks("reply"))
        /\ answered.remote = s.remote /\ answered.connected = s.connected /\ answered.why = s.why
        /\ answered.abuf = s.abuf /\ answered.rbuf = s.rbuf /\ answered.up = s.up /\ answered.tx = s.tx
        /\ answered.rx = s.rx /\ answered.e_ctx = s.e_ctx /\ answered.d_ctx = s.d_ctx
    BY <1>1 DEF ConnFields
  <2> HIDE DEF answered
  <2>2. QED BY <1>1, <2>1 DEF Fresh
<1>5. Append(<<Socks("method")>>, Socks("reply")) = Replies
  <2> DEFINE a == Socks("method")  b == Socks("reply")
  <2> HIDE DEF a, b
  <2>1. Append(<<a>>, b) = <<a, b>>
    <3> DEFINE S == {a, b}
               q == Append(<<a>>, b)
               r == <<a, b>>
    <3>1. <<a>> \in Seq(S) /\ b \in S /\ Len(<<a>>) = 1 /\ <<a>>[1] = a
      OBVIOUS
    <3>2. r \in Seq(S) /\ Len(r) = 2 /\ r[1] = a /\ r[2] = b
      OBVIOUS
    <3>3. q \in Seq(S) /\ Len(q) = 2 /\ q[1] = a /\ q[2] = b
      BY <3>1, AppendProperties
    <3> HIDE DEF S, q, r
    <3>4. IsSeq(q) /\ IsSeq(r)
      BY <3>2, <3>3, SeqIsSeq
    <3>5. \A i \in 1..Len(q) : q[i] = r[i]
      BY <3>2, <3>3
    <3>6. q = r
      BY <3>2, <3>3, <3>4, <3>5, SameSeq
    <3>7. QED BY <3>6 DEF q, r
  <2>2. QED BY <2>1 DEF a, b, Replies
<1> HIDE DEF answered
<1>6. /\ s.stage # "STAGE_HANDSHAKE" => Reply(s) = {s}
      /\ s.stage = "STAGE_HANDSHAKE" => Reply(s) = {answered, Close(s, "error")}
  BY DEF Reply, answered
<1>7. \A t \in Refused : GivenUp(t)
  BY <1>3, <1>4, <1>6 DEF Faults
<1>8. \A t \in Replied :
          /\ Fresh(t) /\ t.buf = s.buf /\ t.on = s.on /\ t.stage = s.stage
          /\ cmd = "connect" => t.down = Replies
  <2> SUFFICES ASSUME NEW t \in Replied
               PROVE  /\ Fresh(t) /\ t.buf = s.buf /\ t.on = s.on /\ t.stage = s.stage
                      /\ cmd = "connect" => t.down = Replies
    OBVIOUS
  <2>1. Close(s, "error").stage = "freed"
    BY <1>3 DEF Faults, GivenUp, Gone
  <2>2. (s.stage # "STAGE_HANDSHAKE" /\ t = s) \/ (s.stage = "STAGE_HANDSHAKE" /\ t = answered)
    BY <1>6, <2>1
  <2>3. QED BY <1>1, <1>4, <1>5, <2>2
<1>9. \/ s.buf.len < 1 /\ d = s
      \/ cmd = "udp" /\ s.buf.len >= 1 /\ d \in Reply(s)
      \/ d = Close(s, "protocol")
      \/ cmd = "connect" /\ s.buf.len < 2 /\ d = s
      \/ cmd = "connect" /\ s.buf.len >= 2 /\ d \in Refused
      \/ /\ cmd = "connect" /\ s.buf.len >= 2 /\ WaitForSni(s)
         /\ \E t \in Replied : d = [t EXCEPT !.stage = "STAGE_SNI", !.on = @ \cup {"delayed_connect"}]
      \/ /\ cmd = "connect" /\ s.buf.len >= 2
         /\ \E t \in Replied : d \in Route(t, HostnameLen(s) > 0)
  <2>1. (s.buf.len < 1 \/ s.buf.len >= 1) /\ (s.buf.len < 2 \/ s.buf.len >= 2)
    BY <1>2
  <2>2. QED BY <2>1 DEF server_handshake
<1> HIDE DEF Replied, Refused
<1>10. CASE d = s /\ s.buf.len < 2 /\ (s.buf.len < 1 \/ cmd = "connect")
  <2>1. R <= 3 /\ s.stage = "STAGE_HANDSHAKE"
    BY <1>1, <1>2, <1>10
  <2>2. Early(s, R, cmd)
    BY <2>1 DEF Early
  <2>3. QED BY <1>10, <2>2 DEF Advances
<1>11. CASE cmd = "udp" /\ s.buf.len >= 1 /\ d \in Reply(s)
  <2>1. s.stage = "STAGE_HANDSHAKE" /\ cmd # "connect"
    BY <1>1, <1>11
  <2>2. CASE d = Close(s, "error")
    BY <1>3, <2>2 DEF Advances, Faults
  <2>3. CASE d = answered
    <3>1. Fed(d, R, cmd)
      BY <1>1, <1>4, <2>1, <2>3 DEF Fed
    <3>2. Early(d, R, cmd)
      BY <1>4, <2>1, <2>3, <3>1 DEF Early
    <3>3. QED BY <3>2 DEF Advances
  <2>4. QED BY <1>6, <1>11, <2>1, <2>2, <2>3
<1>12. CASE d = Close(s, "protocol")
  BY <1>3, <1>12 DEF Advances, Faults
<1>13. CASE d \in Refused
  BY <1>7, <1>13 DEF Advances
<1>14. ASSUME cmd = "connect", s.buf.len >= 2, WaitForSni(s), NEW t \in Replied,
              d = [t EXCEPT !.stage = "STAGE_SNI", !.on = @ \cup {"delayed_connect"}]
       PROVE  Advances(d, R, cmd)
  <2>1. /\ Fresh(t) /\ t.buf = s.buf /\ t.on = s.on /\ t.down = Replies
    BY <1>8, <1>14
  <2>2. DOMAIN t = ConnFields
    BY <2>1 DEF Fresh
  <2>3. /\ DOMAIN d = ConnFields /\ d.stage = "STAGE_SNI" /\ d.on = t.on \cup {"delayed_connect"}
        /\ d.buf = t.buf /\ d.down = t.down
        /\ d.remote = t.remote /\ d.connected = t.connected /\ d.why = t.why
        /\ d.abuf = t.abuf /\ d.rbuf = t.rbuf /\ d.up = t.up /\ d.tx = t.tx
        /\ d.rx = t.rx /\ d.e_ctx = t.e_ctx /\ d.d_ctx = t.d_ctx
    BY <1>14, <2>2 DEF ConnFields
  <2>4. Fresh(d)
    BY <2>1, <2>3 DEF Fresh
  <2>5. R >= 4 /\ s.buf.len < BufSize
    BY <1>2, <1>14 DEF WaitForSni
  <2>6. Fed(d, R, cmd)
    BY <1>1, <1>14, <2>1, <2>3, <2>4, <2>5 DEF Fed
  <2>7. Early(d, R, cmd)
    BY <2>1, <2>3, <2>5, <2>6 DEF Early
  <2>8. QED BY <2>7 DEF Advances
<1>15. ASSUME cmd = "connect", s.buf.len >= 2, NEW t \in Replied, d \in Route(t, HostnameLen(s) > 0)
       PROVE  Advances(d, R, cmd)
  <2>1. Fresh(t) /\ t.buf = s.buf /\ t.on = s.on /\ t.down = Replies
    BY <1>8, <1>15
  <2>2. 4 <= R
    BY <1>2, <1>15
  <2>3. Opening(t, R)
    BY <1>1, <2>1, <2>2 DEF Opening
  <2>4. GivenUp(d) \/ Relaying(d, R, 0)
    BY <1>15, <2>3, RouteOpens
  <2>5. QED BY <1>15, <2>4 DEF Advances
<1>16. s.buf.len < 1 => s.buf.len < 2
  BY <1>2
<1>17. QED BY <1>9, <1>10, <1>11, <1>12, <1>13, <1>14, <1>15, <1>16

\* The method request, and what came with it.
LEMMA MethodServes ==
    ASSUME NEW s, NEW R \in Nat, R <= 4 + UpBytes, Fed(s, R, env.cmd),
           s.stage = "STAGE_INIT", "delayed_connect" \notin s.on,
           env.cmd \in {"connect", "udp", "other"}, NEW d \in Method(s)
    PROVE  Advances(d, R, env.cmd)
<1> DEFINE cmd == env.cmd
           rest == SubSeq(s.buf.data, 3, s.buf.len)
           t == [s EXCEPT !.stage = "STAGE_HANDSHAKE", !.down = Append(@, Socks("method")),
                          !.buf = Buffer(rest)]
<1>1. /\ DOMAIN s = ConnFields /\ Fresh(s) /\ HoldsUnits(s.buf, 0, R) /\ s.buf.len <= BufSize
      /\ s.down = <<>>
  BY DEF Fed, Fresh
<1>2. s.buf.len = R /\ s.buf.data = Cut(ClientStream, 0, R)
  <2>1. s.buf.len = R - 0 /\ s.buf.data = Cut(ClientStream, 0, R)
    BY <1>1 DEF HoldsUnits
  <2>2. QED BY <2>1
<1>3. \/ s.buf.len < 1 /\ d = s
      \/ d = Close(s, "protocol")
      \/ s.buf.len < 2 /\ d = s
      \/ s.buf.len >= 2 /\ d \in IF t.buf.len > 0 THEN server_handshake(t) ELSE {t}
  <2>1. s.buf.len < 2 \/ s.buf.len >= 2
    BY <1>2
  <2>2. QED BY <2>1 DEF Method
<1>4. CASE d = Close(s, "protocol")
  BY <1>1, <1>4, CloseFrees DEF Advances, Faults
<1>5. CASE s.buf.len < 2 /\ d = s
  <2>1. R <= 1
    BY <1>2, <1>5
  <2>2. Early(s, R, cmd)
    BY <2>1 DEF Early
  <2>3. QED BY <1>5, <2>2 DEF Advances
<1>6. CASE s.buf.len >= 2 /\ d \in IF t.buf.len > 0 THEN server_handshake(t) ELSE {t}
  <2>1. rest = Cut(ClientStream, 2, R) /\ Len(rest) = R - 2
    <3> DEFINE o == 0  a == 2
    <3>1. /\ o \in Nat /\ a \in Nat /\ o <= R /\ a <= R /\ R <= R - o /\ o + a = a /\ o + R = R /\ a + 1 = 3
      BY <1>2, <1>6
    <3>2. rest = Cut(Cut(ClientStream, o, R), a, R)
      BY <1>2, <3>1 DEF Cut
    <3> HIDE DEF o, a, rest
    <3>3. rest = Cut(ClientStream, o + a, o + R)
      BY <3>1, <3>2, CutOfCut
    <3>4. rest = Cut(ClientStream, a, R)
      BY <3>1, <3>3
    <3>5. Len(Cut(ClientStream, a, R)) = R - a
      BY <3>1, CutSeq DEF Cut
    <3>6. QED BY <3>4, <3>5 DEF a
  <2>2. HoldsUnits(Buffer(rest), 2, R)
    BY <2>1 DEF HoldsUnits, Buffer
  <2> HIDE DEF rest
  <2>3. Append(<<>>, Socks("method")) = <<Socks("method")>>
    OBVIOUS
  <2>4. /\ DOMAIN t = ConnFields /\ t.stage = "STAGE_HANDSHAKE" /\ t.on = s.on
        /\ t.buf = Buffer(rest) /\ t.down = <<Socks("method")>>
        /\ t.remote = s.remote /\ t.connected = s.connected /\ t.why = s.why
        /\ t.abuf = s.abuf /\ t.rbuf = s.rbuf /\ t.up = s.up /\ t.tx = s.tx
        /\ t.rx = s.rx /\ t.e_ctx = s.e_ctx /\ t.d_ctx = s.d_ctx
    BY <1>1, <2>3 DEF ConnFields
  <2> HIDE DEF t
  <2>5. Fresh(t)
    BY <1>1, <2>4 DEF Fresh
  <2>6. t.buf.len = R - 2 /\ R >= 2 /\ R <= BufSize
    BY <1>1, <1>2, <1>6, <2>2, <2>4 DEF HoldsUnits
  <2>7. Fed(t, R, cmd)
    <3>1. t.buf.len <= BufSize
      BY <2>6, LocalRelayAssumption
    <3>2. QED BY <2>2, <2>4, <2>5, <2>6, <3>1 DEF Fed
  <2>8. CASE t.buf.len > 0 /\ d \in server_handshake(t)
    BY <2>4, <2>7, <2>8, HandshakeServes
  <2>9. CASE ~(t.buf.len > 0) /\ d = t
    <3>1. R <= 3
      BY <2>6, <2>9
    <3>2. Early(t, R, cmd)
      BY <2>4, <2>7, <3>1 DEF Early
    <3>3. QED BY <2>9, <3>2 DEF Advances
  <2>10. QED BY <1>6, <2>8, <2>9
<1>7. s.buf.len < 1 => s.buf.len < 2
  BY <1>2
<1>8. QED BY <1>3, <1>4, <1>5, <1>6, <1>7
------------------------------------------------------------------------------
(* LocalRelay: what comes down *)

\* Nothing is in a filter that was just made.
LEMMA FilterEmpty == \A z : ~ppbloom_check(ppbloom_init, z)
  BY DEF ppbloom_check, ppbloom_init, PING, PONG

\* Units of the answer that have arrived, and the chunks that are complete.
LEMMA ReadsChunks ==
    ASSUME NEW x, NEW q, NEW g \in Nat,
           Reads(x, q, SealedAnswer, Ends(DownChunks), "peer", Password, Plains, g)
    PROVE  \E j \in 0..DownChunks :
               /\ q = Bytes(j) /\ Units("proxied", j) <= g
               /\ j = DownChunks \/ g < Units("proxied", j + 1)
<1> DEFINE E == Ends(DownChunks)
<1>1. DownChunks \in Nat
  BY LocalRelayAssumption
<1>2. Len(E) = DownChunks /\ \A k \in 0..DownChunks : EndOf(E, k) = k /\ Off(E, k) = 1 + 3 * k
  BY <1>1, EndsOf
<1> HIDE DEF E
<1>3. CASE g <= 1 /\ q = <<>>
  <2>1. Bytes(0) = <<>>
    BY BytesPart, EmptyIsSeq
  <2>2. 0 \in 0..DownChunks /\ Units("proxied", 0) <= g /\ g < Units("proxied", 0 + 1)
    BY <1>1, <1>3 DEF Units
  <2>3. QED BY <1>3, <2>1, <2>2
<1>4. CASE g > 1 /\ \E j \in 0..Len(E) :
              /\ Off(E, j) <= g /\ q = Part(Plains, 0, EndOf(E, j))
              /\ j = Len(E) \/ g < Off(E, j + 1)
  <2>1. PICK j \in 0..DownChunks :
              /\ Off(E, j) <= g /\ q = Part(Plains, 0, EndOf(E, j))
              /\ j = DownChunks \/ g < Off(E, j + 1)
    BY <1>2, <1>4
  <2>2. q = Bytes(j)
    <3>1. j \in Nat /\ q = Part(Plains, 0, j)
      BY <1>1, <1>2, <2>1
    <3>2. QED BY <3>1, BytesPart
  <2>3. Units("proxied", j) <= g
    BY <1>1, <1>2, <2>1 DEF Units
  <2>4. j = DownChunks \/ g < Units("proxied", j + 1)
    <3>1. CASE j # DownChunks
      <4>1. j + 1 \in 0..DownChunks /\ j + 1 # 0
        BY <1>1, <3>1
      <4>2. Off(E, j + 1) = 1 + 3 * (j + 1)
        BY <1>2, <4>1
      <4>3. QED BY <2>1, <3>1, <4>1, <4>2 DEF Units
    <3>2. QED BY <3>1
  <2>5. QED BY <2>2, <2>3, <2>4
<1>5. QED BY <1>3, <1>4 DEF Reads, E

\* The length of the answer.
LEMMA AnswerLen ==
    ASSUME NEW n \in 1..DownChunks
    PROVE  Units("proxied", n) <= Len(SealedAnswer) /\ Len(SealedAnswer) \in Nat
<1> DEFINE E == Ends(DownChunks)
<1>1. DownChunks \in Nat /\ DownChunks # 0
  BY LocalRelayAssumption
<1>2. Len(E) = DownChunks /\ Off(E, DownChunks) = 1 + 3 * DownChunks
  BY <1>1, EndsOf
<1>3. E # <<>>
  BY <1>1, <1>2, EmptyIsSeq
<1> HIDE DEF E
<1>4. Len(SealedAnswer) = Off(E, Len(E))
  BY <1>3, AnswerSealed DEF Sealed, E
<1>5. QED BY <1>1, <1>2, <1>4 DEF Units

\* aead_decrypt of the next k units of the answer.
LEMMA AnswerOpens ==
    ASSUME NEW x, NEW q, NEW g \in Nat, NEW k \in Nat \ {0}, g + k <= Len(SealedAnswer), Len(SealedAnswer) \in Nat,
           Reads(x, q, SealedAnswer, Ends(DownChunks), "peer", Password, Plains, g),
           NEW r, r = aead_decrypt(Cut(SealedAnswer, g, g + k), x, ppbloom_init)
    PROVE  /\ r.err = (IF r.buf = <<>> THEN "NEED_MORE" ELSE "OK")
           /\ Reads(r.ctx, q \o r.buf, SealedAnswer, Ends(DownChunks), "peer", Password, Plains, g + k)
           /\ IsSeq(q) /\ IsSeq(r.buf) /\ Len(r.buf) <= k
<1> DEFINE E == Ends(DownChunks)
           W == SealedAnswer
           h == g + k
           z == "peer"
<1>0. DownChunks \in Nat
  BY LocalRelayAssumption
<1>1. h \in Nat /\ g < h /\ h <= Len(W) /\ r = aead_decrypt(Cut(W, g, h), x, ppbloom_init)
  OBVIOUS
<1>2. Sealed(W, E, z, Password, Plains) /\ Reads(x, q, W, E, z, Password, Plains, g)
  BY AnswerSealed
<1> HIDE DEF E, W, h, z
<1>3. Outcome(r, x.init, q, W, E, z, Password, Plains, h, ppbloom_init)
  BY <1>1, <1>2, DecryptOutcome
<1>4. /\ r.err = (IF r.buf = <<>> THEN "NEED_MORE" ELSE "OK") /\ IsSeq(r.buf)
      /\ Reads(r.ctx, q \o r.buf, W, E, z, Password, Plains, h)
  BY <1>3, FilterEmpty DEF Outcome
<1>5. PICK j \in 0..DownChunks :
          /\ q = Bytes(j) /\ Units("proxied", j) <= g
          /\ j = DownChunks \/ g < Units("proxied", j + 1)
  BY <1>2, ReadsChunks DEF W, E, z
<1>6. PICK i \in 0..DownChunks : q \o r.buf = Bytes(i) /\ Units("proxied", i) <= h
  BY <1>1, <1>4, ReadsChunks DEF W, E, z
<1>7. IsSeq(q) /\ Len(q) = j /\ Len(q \o r.buf) = i /\ j \in Nat /\ i \in Nat
  BY <1>0, <1>5, <1>6, BytesPart
<1>8. Len(q) + Len(r.buf) = i /\ Len(r.buf) \in Nat
  <2>1. Len(q \o r.buf) = Len(q) + Len(r.buf)
    BY <1>4, <1>7, ConcatSeq
  <2>2. QED BY <1>4, <1>7, <2>1 DEF IsSeq
<1>9. Len(r.buf) <= k
  <2>1. i = j + Len(r.buf)
    BY <1>7, <1>8
  <2>2. CASE i = 0
    BY <1>7, <1>8, <2>1, <2>2
  <2>3. CASE j = DownChunks
    BY <1>0, <1>7, <1>8, <2>1, <2>3
  <2>4. CASE i # 0 /\ j # DownChunks
    <3>1. 1 + 3 * i <= g + k /\ g < 1 + 3 * (j + 1)
      BY <1>5, <1>6, <1>7, <2>4 DEF Units, h
    <3>2. QED BY <1>7, <1>8, <2>1, <3>1
  <2>5. QED BY <2>2, <2>3, <2>4
<1>10. QED BY <1>4, <1>7, <1>9 DEF E, W, h, z

\* The upward direction is left alone.
KeepsUp(d, s) ==
    /\ d.up = s.up /\ d.rbuf = s.rbuf /\ d.abuf = s.abuf /\ d.remote = s.remote /\ d.e_ctx = s.e_ctx
    /\ d.tx = s.tx /\ d.connected = s.connected
    /\ \A w \in {"server_recv", "remote_send", "delayed_connect"} : w \in d.on <=> w \in s.on

\* What leaves the upward direction alone keeps its invariant.
LEMMA UpKept ==
    ASSUME NEW d, NEW s, KeepsUp(d, s), NEW R, UpSide(s, R)
    PROVE  UpSide(d, R)
<1>1. /\ d.up = s.up /\ d.rbuf = s.rbuf /\ d.abuf = s.abuf /\ d.remote = s.remote /\ d.e_ctx = s.e_ctx
      /\ d.tx = s.tx /\ d.connected = s.connected
      /\ "server_recv" \in d.on <=> "server_recv" \in s.on
      /\ "remote_send" \in d.on <=> "remote_send" \in s.on
      /\ "delayed_connect" \in d.on <=> "delayed_connect" \in s.on
  BY DEF KeepsUp
<1>2. \A tail : Upstream(s, tail, R) => Upstream(d, tail, R)
  BY <1>1, Zenon DEF Upstream
<1>3. Upstream(d, Pending(d.rbuf), R)
  BY <1>1, <1>2 DEF UpSide
<1>4. QED BY <1>1, <1>3 DEF UpSide

\* Units move from the buffer to the client.
LEMMA DownstreamMoves ==
    ASSUME NEW s, NEW t, NEW tail, NEW rest, NEW g, Downstream(s, tail, g),
           t.remote = s.remote, t.rx = s.rx, t.d_ctx = s.d_ctx, t.down \o rest = s.down \o tail
    PROVE  Downstream(t, rest, g)
<1>1. PICK q : Got(s, q, g) /\ s.down \o tail = Replies \o q
  BY DEF Downstream
<1>2. Got(t, q, g)
  BY <1>1 DEF Got
<1>3. QED BY <1>1, <1>2 DEF Downstream

\* What came is in buf, and the client has got the rest.
Arrived(s, g) ==
    /\ Shape(s)
    /\ DOMAIN s.buf = BufFields /\ s.buf.len \in Nat \ {0} /\ s.buf.len <= BufSize
    /\ Len(s.buf.data) \in Nat /\ s.buf.len <= Len(s.buf.data) /\ IsSeq(s.down)
    /\ "server_send" \notin s.on /\ s.connected
    /\ Downstream(s, SubSeq(s.buf.data, 1, s.buf.len), g)

GoesDown(d, s, g) == GivenUp(d) \/ (Shape(d) /\ DownSide(d, g) /\ KeepsUp(d, s))

\* The rest waits for server_send: t is s, of which k units were sent.
LEMMA WaitDown ==
    ASSUME NEW s, NEW g, Arrived(s, g), NEW k \in Nat, k < s.buf.len, NEW t,
           DOMAIN t = ConnFields, t.stage = s.stage, t.why = s.why,
           t.on = (s.on \ {"remote_recv"}) \cup {"server_send"},
           t.rx = s.rx, t.d_ctx = s.d_ctx, KeepsUp(t, s),
           DOMAIN t.buf = BufFields, t.buf.data = s.buf.data, t.buf.idx = k,
           t.buf.len = s.buf.len - k, t.down = s.down \o SubSeq(s.buf.data, 1, k)
    PROVE  Shape(t) /\ DownSide(t, g)
<1> DEFINE D == s.buf.data
           l == s.buf.len
           h == SubSeq(D, 1, k)
           rest == SubSeq(D, k + 1, k + (l - k))
           b == SubSeq(D, 1, l)
<1>1. l \in Nat /\ Len(D) \in Nat /\ l <= Len(D) /\ IsSeq(s.down) /\ Downstream(s, b, g) /\ l <= BufSize
  BY DEF Arrived
<1>2. t.remote = s.remote /\ t.connected = s.connected /\ s.connected
  BY DEF KeepsUp, Arrived
<1>3. IsSeq(h) /\ IsSeq(rest) /\ h \o rest = b
  <2>1. k \in 0..l
    BY <1>1
  <2> HIDE DEF D, l
  <2>2. QED BY <1>1, <2>1, TakeFirst
<1>4. Pending(t.buf) = rest
  BY DEF Pending
<1> HIDE DEF h, rest, b
<1>5. IsSeq(t.down) /\ t.down \o rest = s.down \o b
  <2> DEFINE a == s.down
  <2>1. IsSeq(a) /\ IsSeq(h) /\ IsSeq(rest)
    BY <1>1, <1>3
  <2>2. t.down = a \o h
    BY DEF h
  <2> HIDE DEF a
  <2>3. IsSeq(a \o h) /\ (a \o h) \o rest = a \o (h \o rest)
    BY <2>1, UnitsMove
  <2>4. QED BY <2>2, <2>3, <1>3 DEF a
<1>6. Downstream(t, rest, g)
  BY <1>1, <1>2, <1>5, DownstreamMoves
<1>7. Shape(t)
  BY <1>2 DEF Arrived, Shape, Watchers
<1>8. "server_send" \in t.on /\ "remote_recv" \notin t.on
  OBVIOUS
<1>9. BufferOK(t.buf) /\ t.buf.len \in Nat /\ t.buf.len > 0 /\ t.buf.len <= BufSize
  <2> DEFINE B == BufSize
  <2>1. B \in Nat
    BY LocalRelayAssumption
  <2>2. t.buf.data = D /\ t.buf.idx = k /\ t.buf.len = l - k /\ k < l /\ l <= B
    BY <1>1
  <2> HIDE DEF B, D, l
  <2>3. l - k \in Nat /\ l - k > 0 /\ k + (l - k) <= Len(D) /\ l - k <= B
    BY <1>1, <2>1, <2>2
  <2>4. QED BY <2>2, <2>3 DEF BufferOK, B
<1>10. DownSide(t, g)
  BY <1>2, <1>4, <1>5, <1>6, <1>8, <1>9 DEF DownSide
<1>11. QED BY <1>7, <1>10

\* The end of remote_recv_cb.
LEMMA SendDownKeeps ==
    ASSUME NEW s, NEW g, Arrived(s, g), NEW d \in SendDown(s)
    PROVE  GoesDown(d, s, g)
<1> DEFINE l == s.buf.len
           v(k) == [s EXCEPT !.down = @ \o SubSeq(s.buf.data, 1, k)]
           Wait(t) == [t EXCEPT !.on = (@ \ {"remote_recv"}) \cup {"server_send"}]
           part(k) == Wait([v(k) EXCEPT !.buf.len = @ - k, !.buf.idx = k])
           none == Wait([s EXCEPT !.buf.idx = 0])
<1>1. /\ DOMAIN s = ConnFields /\ DOMAIN s.buf = BufFields /\ l \in Nat /\ l > 0 /\ IsSeq(s.down)
      /\ Len(s.buf.data) \in Nat /\ l <= Len(s.buf.data) /\ l <= BufSize
  BY DEF Arrived, Shape
<1>2. \/ d = Close(s, "error") \/ d = none
      \/ \E k \in Sent(l) : d = IF k < l THEN part(k) ELSE v(k)
  BY DEF SendDown
<1>3. CASE d = Close(s, "error")
  BY <1>1, <1>3, CloseFrees DEF GoesDown, Faults
<1>4. CASE d = none
  <2> DEFINE k == 0
  <2>1. /\ DOMAIN none = ConnFields /\ none.stage = s.stage /\ none.why = s.why
        /\ none.on = (s.on \ {"remote_recv"}) \cup {"server_send"}
        /\ none.rx = s.rx /\ none.d_ctx = s.d_ctx /\ KeepsUp(none, s)
        /\ DOMAIN none.buf = BufFields /\ none.buf.data = s.buf.data /\ none.buf.idx = k
        /\ none.buf.len = s.buf.len /\ none.down = s.down
    BY <1>1 DEF ConnFields, BufFields, KeepsUp
  <2>2. s.down \o SubSeq(s.buf.data, 1, 0) = s.down
    <3>1. SubSeq(s.buf.data, 1, 0) = <<>>
      BY NoUnits
    <3>2. s.down \o <<>> = s.down
      BY <1>1, ConcatNone
    <3>3. QED BY <3>1, <3>2
  <2>3. s.buf.len - 0 = s.buf.len /\ 0 \in Nat /\ 0 < s.buf.len
    BY <1>1
  <2> HIDE DEF none
  <2>4. /\ none.buf.len = s.buf.len - k /\ k \in Nat /\ k < s.buf.len
        /\ none.down = s.down \o SubSeq(s.buf.data, 1, k)
    BY <2>1, <2>2, <2>3
  <2> HIDE DEF k
  <2>5. Shape(none) /\ DownSide(none, g)
    BY <2>1, <2>4, WaitDown
  <2>6. QED BY <1>4, <2>1, <2>5 DEF GoesDown
<1>5. ASSUME NEW k \in Sent(l), d = IF k < l THEN part(k) ELSE v(k) PROVE GoesDown(d, s, g)
  <2>1. k \in 1..l /\ k \in 0..l /\ k \in Nat /\ (~(k < l) => k = l)
    BY <1>1, SentRange
  <2>2. CASE k < l
    <3>1. /\ DOMAIN d = ConnFields /\ d.stage = s.stage /\ d.why = s.why
          /\ d.on = (s.on \ {"remote_recv"}) \cup {"server_send"}
          /\ d.rx = s.rx /\ d.d_ctx = s.d_ctx /\ KeepsUp(d, s)
          /\ DOMAIN d.buf = BufFields /\ d.buf.data = s.buf.data /\ d.buf.idx = k
          /\ d.buf.len = s.buf.len - k /\ d.down = s.down \o SubSeq(s.buf.data, 1, k)
      BY <1>1, <1>5, <2>2 DEF ConnFields, BufFields, KeepsUp
    <3>2. Shape(d) /\ DownSide(d, g)
      BY <2>1, <2>2, <3>1, WaitDown
    <3>3. QED BY <3>1, <3>2 DEF GoesDown
  <2>3. CASE ~(k < l)
    <3>1. /\ DOMAIN d = ConnFields /\ d.stage = s.stage /\ d.why = s.why /\ d.on = s.on
          /\ d.rx = s.rx /\ d.d_ctx = s.d_ctx /\ KeepsUp(d, s) /\ d.buf = s.buf
          /\ d.down = s.down \o SubSeq(s.buf.data, 1, k) /\ k = l
      BY <1>1, <1>5, <2>1, <2>3 DEF ConnFields, KeepsUp
    <3>2. d.remote = s.remote /\ d.connected = s.connected
      BY <3>1 DEF KeepsUp
    <3> DEFINE b == SubSeq(s.buf.data, 1, l)
    <3>3. IsSeq(b)
      <4> HIDE DEF l
      <4>1. l \in 0..l
        BY <1>1
      <4>2. QED BY <1>1, <4>1, TakeFirst
    <3>4. d.down = s.down \o b
      BY <3>1
    <3> HIDE DEF b
    <3>5. IsSeq(d.down) /\ d.down \o <<>> = s.down \o b
      <4>1. IsSeq(s.down \o b)
        BY <1>1, <3>3, ConcatSeq
      <4>2. (s.down \o b) \o <<>> = s.down \o b
        BY <4>1, ConcatNone
      <4>3. QED BY <4>1, <4>2, <3>4
    <3>6. Downstream(s, b, g) /\ "server_send" \notin d.on /\ s.connected
      BY <3>1 DEF Arrived, b
    <3>7. Downstream(d, <<>>, g)
      BY <3>1, <3>2, <3>5, <3>6, DownstreamMoves
    <3>8. Shape(d)
      BY <3>1, <3>2 DEF Arrived, Shape
    <3>9. DownSide(d, g)
      BY <1>1, <3>1, <3>2, <3>5, <3>6, <3>7 DEF DownSide
    <3>10. QED BY <3>1, <3>8, <3>9 DEF GoesDown
  <2>4. QED BY <2>2, <2>3
<1>6. QED BY <1>2, <1>3, <1>4, <1>5
------------------------------------------------------------------------------
(* LocalRelay: every step keeps the invariant *)

\* A step keeps the invariant, and does not end the connection with a stream.
Carries == RelayIInv' /\ c'.why \in Faults \cup {"open"}

\* Initially there is no connection.
LEMMA RelayStarts ==
    ASSUME Init
    PROVE  RelayIInv
<1>1. env.cmd \in {"connect", "udp", "other"}
  <2> DEFINE plain == Request("connect", "domain", "no", "none", 0, 0)
             sniffed == Request("connect", "ip", "found", "black", 0, 0)
  <2>1. /\ plain.cmd = "connect" /\ sniffed.cmd = "connect"
        /\ "cmd" \in DOMAIN plain /\ "cmd" \in DOMAIN sniffed
    BY DEF Request
  <2>2. env \in {[plain EXCEPT !.fast_open = TRUE], [plain EXCEPT !.spurious = TRUE],
                 [plain EXCEPT !.acl = "black", !.host = 1, !.fast_open = TRUE],
                 [plain EXCEPT !.acl = "white", !.host = 1, !.vpn = TRUE],
                 [plain EXCEPT !.cmd = "udp"], [plain EXCEPT !.cmd = "other"],
                 [plain EXCEPT !.atyp = "other"], [plain EXCEPT !.ver = "other"],
                 [plain EXCEPT !.methods = "other"],
                 sniffed, [sniffed EXCEPT !.sni = "none"],
                 [sniffed EXCEPT !.host = 1, !.is_remote_dns = FALSE]}
    BY Zenon DEF Init, Requests
  <2> HIDE DEF plain, sniffed
  <2>3. QED BY <2>1, <2>2
<1>2. Sockets
  BY <1>1, LocalRelayAssumption DEF Init, Sockets
<1>3. /\ c.stage = "none" /\ c.on = {} /\ c.buf = Empty /\ DOMAIN c = ConnFields
      /\ c.remote = "null" /\ c.connected = FALSE /\ c.why = "open"
      /\ c.abuf = Empty /\ c.rbuf = Empty /\ c.up = <<>> /\ c.tx = 0 /\ c.rx = 0
      /\ c.e_ctx = aead_ctx_init("own") /\ c.d_ctx = aead_ctx_init("none")
  BY DEF Init, NewServer, ConnFields
<1>4. Early(c, 0, env.cmd)
  BY <1>3 DEF Early, Fresh
<1>5. QED BY <1>2, <1>4 DEF RelayIInv, Init

\* A connection that is given up.
LEMMA StepGivesUp ==
    ASSUME NEW d, GivenUp(d), c' = d, Sockets'
    PROVE  Carries
<1>1. Gone(c', c'.why) /\ c'.why \in Faults
  BY DEF GivenUp
<1>2. c'.why # "client_eof"
  BY <1>1 DEF Faults
<1>3. NoFalseEnd'
  BY <1>2 DEF NoFalseEnd
<1>4. QED BY <1>1, <1>3 DEF RelayIInv, Carries

\* A callback that neither reads nor connects.
LEMMA SocketsKept ==
    ASSUME Sockets, NEW d, Becomes(d), env' = env, client' = client, remote' = remote
    PROVE  Sockets'
  BY DEF Sockets, Becomes

\* A callback that closes the connection for a fault.
LEMMA StepCloses ==
    ASSUME RelayIInv, DOMAIN c = ConnFields, NEW y \in Faults, Becomes(Close(c, y)),
           UNCHANGED <<env, client, remote>>
    PROVE  Carries
<1>1. GivenUp(Close(c, y))
  BY CloseFrees
<1>2. c' = Close(c, y)
  BY DEF Becomes
<1>3. Sockets'
  BY SocketsKept DEF RelayIInv
<1>4. QED BY <1>1, <1>2, <1>3, StepGivesUp

\* What is known when a watcher is on.
LEMMA WatchersOn ==
    ASSUME RelayIInv
    PROVE  /\ c.stage # "freed" => DOMAIN c = ConnFields
           /\ c.on # {} => c.stage # "freed"
           /\ \/ /\ c.on \subseteq {"server_recv", "delayed_connect"}
                 /\ c.on # {} => Fed(c, client.read, env.cmd) /\ Early(c, client.read, env.cmd)
                 /\ c.on # {} => net = "idle" /\ remote.pos = 0 /\ remote.read = 0
              \/ /\ Relaying(c, client.read, remote.read) /\ env.cmd = "connect"
                 /\ remote.pos <= DownChunks /\ remote.read <= Units(c.remote, remote.pos)
<1>1. CASE Early(c, client.read, env.cmd) /\ net = "idle" /\ remote.pos = 0 /\ remote.read = 0
  <2>1. (c.stage = "none" /\ c.on = {} /\ Fresh(c)) \/ Fed(c, client.read, env.cmd)
    BY <1>1 DEF Early
  <2>2. Fresh(c) /\ c.stage # "freed"
    BY <2>1 DEF Fed
  <2>3. QED BY <1>1, <2>1, <2>2 DEF Fresh
<1>2. CASE /\ Relaying(c, client.read, remote.read) /\ env.cmd = "connect"
           /\ remote.pos <= DownChunks /\ remote.read <= Units(c.remote, remote.pos)
  BY <1>2 DEF Relaying, Shape
<1>3. CASE Gone(c, c.why)
  BY <1>3 DEF Gone
<1>4. QED BY <1>1, <1>2, <1>3 DEF RelayIInv

\* The peers and the kernel: they write, end their streams and answer connect.
LEMMA StepEnvironment ==
    ASSUME RelayIInv, ClientWrite \/ ClientEnd \/ RemoteWrite \/ RemoteEnd \/ Established
    PROVE  RelayIInv'
<1>0. UpBytes \in Nat /\ DownChunks \in Nat
  BY LocalRelayAssumption
<1>1. Sockets
  BY DEF RelayIInv
<1>2. CASE ClientWrite \/ ClientEnd
  <2>1. /\ c' = c /\ env' = env /\ net' = net /\ remote' = remote /\ c.stage # "freed"
        /\ client'.read = client.read /\ DOMAIN client' = DOMAIN client
        /\ client'.pos = client.pos \/ (client'.pos = client.pos + 1 /\ client.pos < Len(ClientStream))
    BY <1>1, <1>2 DEF ClientWrite, ClientEnd, Sockets, Freed
  <2>2. client'.pos <= 4 + UpBytes /\ client'.pos \in Nat /\ client.read <= client'.pos
    BY <1>0, <1>1, <2>1, ClientUnits DEF Sockets
  <2>3. Sockets'
    BY <1>1, <2>1, <2>2 DEF Sockets
  <2>4. ~Gone(c, c.why)
    BY <2>1 DEF Gone
  <2>5. QED BY <2>1, <2>3, <2>4 DEF RelayIInv
<1>3. CASE RemoteWrite \/ RemoteEnd
  <2>1. /\ c' = c /\ env' = env /\ net' = net /\ client' = client /\ c.stage # "freed" /\ net = "up"
        /\ remote'.read = remote.read /\ DOMAIN remote' = DOMAIN remote
        /\ remote'.pos = remote.pos \/ (remote'.pos = remote.pos + 1 /\ remote.pos < DownChunks)
    BY <1>1, <1>3 DEF RemoteWrite, RemoteEnd, Sockets, Freed
  <2>2. remote'.pos \in Nat /\ remote.pos \in Nat /\ remote.read \in Nat
    BY <1>1, <2>1 DEF Sockets
  <2>3. Sockets'
    BY <1>1, <2>1, <2>2 DEF Sockets
  <2>4. /\ Relaying(c, client.read, remote.read) /\ env.cmd = "connect"
        /\ remote.pos <= DownChunks /\ remote.read <= Units(c.remote, remote.pos)
    BY <2>1 DEF RelayIInv, Gone
  <2>5. remote'.pos <= DownChunks /\ remote.read <= Units(c.remote, remote'.pos)
    BY <1>0, <2>1, <2>2, <2>4 DEF Units
  <2>6. QED BY <2>1, <2>3, <2>4, <2>5 DEF RelayIInv
<1>4. CASE Established
  <2>1. /\ c' = c /\ env' = env /\ client' = client /\ remote' = remote /\ c.stage # "freed"
        /\ net = "pending" /\ net' \in {"up", "refused"}
    BY <1>4 DEF Established, Freed
  <2>2. Sockets'
    BY <1>1, <2>1 DEF Sockets
  <2>3. QED BY <2>1, <2>2 DEF RelayIInv, Gone
<1>5. QED BY <1>2, <1>3, <1>4

\* accept_cb: the handshake waits for the first unit.
LEMMA StepAccept ==
    ASSUME RelayIInv, accept_cb
    PROVE  Carries
<1>1. /\ c.stage = "none" /\ Becomes(NewServer) /\ env' = env /\ client' = client /\ remote' = remote
  BY DEF accept_cb
<1>2. Sockets'
  BY <1>1, SocketsKept DEF RelayIInv
<1>3. Early(c, client.read, env.cmd) /\ net = "idle" /\ remote.pos = 0 /\ remote.read = 0
  BY <1>1 DEF RelayIInv, Gone, Relaying, Shape
<1>4. client.read = 0
  BY <1>1, <1>3 DEF Early, Fed
<1> DEFINE d == NewServer
<1>5. /\ d.stage = "STAGE_INIT" /\ d.on = {"server_recv"} /\ d.buf = Empty /\ DOMAIN d = ConnFields
      /\ d.remote = "null" /\ d.connected = FALSE /\ d.why = "open" /\ d.down = <<>>
      /\ d.abuf = Empty /\ d.rbuf = Empty /\ d.up = <<>> /\ d.tx = 0 /\ d.rx = 0
      /\ d.e_ctx = aead_ctx_init("own") /\ d.d_ctx = aead_ctx_init("none")
  BY DEF NewServer, ConnFields
<1> HIDE DEF d
<1>6. c' = d /\ net' = "idle"
  BY <1>1, <1>3, <1>5 DEF Becomes, d
<1>7. HoldsUnits(Empty, 0, 0)
  <2>1. Cut(ClientStream, 0, 0) = <<>> /\ 0 - 0 = 0
    BY CutEnds
  <2>2. QED BY <2>1 DEF HoldsUnits, Empty
<1>8. Fresh(d) /\ Empty.len <= BufSize
  BY <1>5, LocalRelayAssumption DEF Fresh, Empty
<1>9. Early(d, 0, env.cmd)
  BY <1>5, <1>7, <1>8 DEF Early, Fed
<1>10. QED BY <1>1, <1>2, <1>3, <1>4, <1>5, <1>6, <1>9 DEF RelayIInv, Carries

\* The end of the client's stream is not taken for one while it is there: there
\* is room in the buffer whenever the client is read.
LEMMA RoomToRead ==
    ASSUME RelayIInv, "server_recv" \in c.on, env.cmd = "connect"
    PROVE  ServerBuf.len < BufSize
<1>0. BufSize \in Nat /\ BufSize >= 4
  BY LocalRelayAssumption
<1>1. CASE Fed(c, client.read, env.cmd) /\ Early(c, client.read, env.cmd)
  <2>1. ServerBuf = c.buf
    BY <1>1 DEF Fed, Fresh, ServerBuf
  <2>2. client.read \in Nat
    BY DEF RelayIInv, Sockets
  <2>3. \/ c.stage = "STAGE_INIT" /\ HoldsUnits(c.buf, 0, client.read) /\ client.read <= 1
        \/ c.stage = "STAGE_HANDSHAKE" /\ HoldsUnits(c.buf, 2, client.read) /\ client.read <= 3
        \/ c.buf.len < BufSize
    BY <1>1 DEF Early, Fed
  <2>4. QED BY <1>0, <2>1, <2>2, <2>3 DEF HoldsUnits
<1>2. CASE Relaying(c, client.read, remote.read)
  <2>1. c.rbuf.len = 0 /\ c.remote # "null"
    BY <1>2 DEF Relaying, UpSide, Shape
  <2>2. QED BY <1>0, <2>1 DEF ServerBuf
<1>3. QED BY <1>1, <1>2, WatchersOn

\* server_recv_cb at the end of the client's stream.
LEMMA StepServerRecvEnd ==
    ASSUME RelayIInv, ServerRecvEnd
    PROVE  RelayIInv'
<1>1. /\ "server_recv" \in c.on /\ Becomes(Close(c, "client_eof"))
      /\ env' = env /\ client' = client /\ remote' = remote
      /\ client.fin \/ ServerBuf.len >= BufSize
  BY DEF ServerRecvEnd
<1>2. Sockets'
  BY <1>1, SocketsKept DEF RelayIInv
<1>3. DOMAIN c = ConnFields
  BY <1>1, WatchersOn
<1>4. Gone(c', "client_eof") /\ c'.why = "client_eof"
  BY <1>1, <1>3, CloseFrees DEF Becomes, Gone
<1>5. env.cmd = "connect" => client.fin
  <2> SUFFICES ASSUME env.cmd = "connect", ~client.fin PROVE FALSE
    OBVIOUS
  <2>1. ServerBuf.len < BufSize /\ ServerBuf.len >= BufSize
    BY <1>1, RoomToRead
  <2>2. ServerBuf.len \in Int
    <3>1. CASE Fed(c, client.read, env.cmd)
      <4>1. ServerBuf = c.buf /\ client.read \in Nat
        BY <3>1 DEF Fed, Fresh, ServerBuf, RelayIInv, Sockets
      <4>2. QED BY <3>1, <4>1 DEF Fed, HoldsUnits
    <3>2. CASE Relaying(c, client.read, remote.read)
      BY <1>1, <3>2 DEF Relaying, UpSide, Shape, ServerBuf
    <3>3. QED BY <1>1, <3>1, <3>2, WatchersOn
  <2>3. QED BY <2>1, <2>2, LocalRelayAssumption
<1>6. NoFalseEnd'
  BY <1>1, <1>5 DEF NoFalseEnd
<1>7. QED BY <1>2, <1>4, <1>6 DEF RelayIInv

\* remote_timeout_cb, the end of the other side's stream, and the signal.
LEMMA StepEnds ==
    ASSUME RelayIInv, remote_timeout_cb \/ RemoteRecvEnd \/ free_connections
    PROVE  RelayIInv'
<1>1. /\ env' = env /\ client' = client /\ remote' = remote
      /\ c.on # {} \/ c.stage # "freed"
      /\ \/ \E y \in {"timeout", "error", "signal"} : Becomes(Close(c, y))
         \/ Becomes(Close(c, "remote_eof"))
  BY DEF remote_timeout_cb, RemoteRecvEnd, free_connections, Freed
<1>2. DOMAIN c = ConnFields
  BY <1>1, WatchersOn
<1>3. CASE \E y \in {"timeout", "error", "signal"} : Becomes(Close(c, y))
  <2>1. PICK y \in {"timeout", "error", "signal"} : Becomes(Close(c, y))
    BY <1>3
  <2>2. y \in Faults
    BY DEF Faults
  <2>3. QED BY <1>1, <1>2, <2>1, <2>2, StepCloses DEF Carries
<1>4. CASE Becomes(Close(c, "remote_eof"))
  <2>1. Sockets'
    BY <1>1, <1>4, SocketsKept DEF RelayIInv
  <2>2. Gone(c', "remote_eof") /\ c'.why = "remote_eof"
    BY <1>2, <1>4, CloseFrees DEF Becomes, Gone
  <2>3. NoFalseEnd'
    BY <2>2 DEF NoFalseEnd
  <2>4. QED BY <2>1, <2>2, <2>3 DEF RelayIInv
<1>5. QED BY <1>1, <1>3, <1>4

\* server_recv_cb stops the timer of the delayed connection.
Undelayed(s) == [s EXCEPT !.on = @ \ {"delayed_connect"}]

\* Nothing else changes when the timer is stopped.
LEMMA UndelayedKeeps ==
    ASSUME NEW s, DOMAIN s = ConnFields
    PROVE  LET t == Undelayed(s)
           IN  /\ DOMAIN t = ConnFields /\ t.on = s.on \ {"delayed_connect"}
               /\ t.stage = s.stage /\ t.buf = s.buf /\ t.abuf = s.abuf /\ t.remote = s.remote
               /\ t.rbuf = s.rbuf /\ t.connected = s.connected /\ t.e_ctx = s.e_ctx
               /\ t.d_ctx = s.d_ctx /\ t.tx = s.tx /\ t.rx = s.rx /\ t.up = s.up
               /\ t.down = s.down /\ t.why = s.why /\ KeepsDown(t, s)
  BY DEF Undelayed, ConnFields, KeepsDown

\* Stopping the timer keeps the state of the handshake.
LEMMA UndelayedFed ==
    ASSUME NEW s, NEW R, NEW cmd, Fed(s, R, cmd)
    PROVE  Fed(Undelayed(s), R, cmd) /\ (Early(s, R, cmd) => Early(Undelayed(s), R, cmd))
<1> DEFINE t == Undelayed(s)
<1>1. DOMAIN s = ConnFields /\ Fresh(s)
  BY DEF Fed, Fresh
<1>2. /\ DOMAIN t = ConnFields /\ t.on = s.on \ {"delayed_connect"}
      /\ t.stage = s.stage /\ t.buf = s.buf /\ t.abuf = s.abuf /\ t.remote = s.remote
      /\ t.rbuf = s.rbuf /\ t.connected = s.connected /\ t.e_ctx = s.e_ctx
      /\ t.d_ctx = s.d_ctx /\ t.tx = s.tx /\ t.rx = s.rx /\ t.up = s.up
      /\ t.down = s.down /\ t.why = s.why
  BY <1>1, UndelayedKeeps
<1> HIDE DEF t
<1>3. Fresh(t)
  BY <1>1, <1>2 DEF Fresh
<1>4. Fed(t, R, cmd)
  BY <1>2, <1>3 DEF Fed
<1>5. ASSUME Early(s, R, cmd) PROVE Early(t, R, cmd)
  <2>1. /\ s.stage = "STAGE_INIT" => R <= 1
        /\ s.stage = "STAGE_HANDSHAKE" /\ cmd = "connect" => R <= 3
        /\ s.stage = "STAGE_SNI" => s.buf.len < BufSize
    BY <1>5 DEF Early
  <2>2. QED BY <1>2, <1>4, <2>1 DEF Early
<1>6. QED BY <1>4, <1>5 DEF t

\* A turn of the handshake ends.
LEMMA StepAdvances ==
    ASSUME RelayIInv, NEW d, NEW R, Advances(d, R, env.cmd), Becomes(d),
           net = "idle", remote.pos = 0, remote.read = 0, Sockets', client'.read = R,
           env' = env, remote' = remote
    PROVE  Carries
<1>1. c' = d
  BY DEF Becomes
<1>2. CASE GivenUp(d)
  BY <1>1, <1>2, StepGivesUp
<1>3. CASE Early(d, R, env.cmd)
  <2>1. "remote_send" \notin d.on
    BY <1>3 DEF Early, Fed, Fresh
  <2>2. net' = "idle"
    BY <2>1 DEF Becomes
  <2>3. d.why = "open"
    BY <1>3 DEF Early, Fed, Fresh
  <2>4. QED BY <1>1, <1>3, <2>2, <2>3 DEF RelayIInv, Carries
<1>4. CASE Relaying(d, R, 0) /\ env.cmd = "connect"
  <2>1. 0 <= DownChunks /\ Units(d.remote, 0) = 0
    BY LocalRelayAssumption DEF Units
  <2>2. d.why = "open"
    BY <1>4 DEF Relaying, Shape
  <2>3. QED BY <1>1, <1>4, <2>1, <2>2 DEF RelayIInv, Carries
<1>5. QED BY <1>2, <1>3, <1>4 DEF Advances

\* A callback of a connection that relays ends.
LEMMA StepRelays ==
    ASSUME RelayIInv, NEW d, NEW R, NEW g, GivenUp(d) \/ Relaying(d, R, g), Becomes(d),
           Sockets', client'.read = R, remote'.read = g, remote'.pos = remote.pos, env' = env,
           env.cmd = "connect", remote.pos <= DownChunks,
           Relaying(d, R, g) => d.remote = c.remote, g <= Units(c.remote, remote.pos)
    PROVE  Carries
<1>1. c' = d
  BY DEF Becomes
<1>2. CASE GivenUp(d)
  BY <1>1, <1>2, StepGivesUp
<1>3. CASE Relaying(d, R, g)
  <2>1. d.why = "open"
    BY <1>3 DEF Relaying, Shape
  <2>2. QED BY <1>1, <1>3, <2>1 DEF RelayIInv, Carries
<1>4. QED BY <1>2, <1>3

\* server_recv_cb when recv fails or has nothing.
LEMMA StepServerRecvFails ==
    ASSUME RelayIInv, ServerRecvFails
    PROVE  Carries
<1> DEFINE d == Undelayed(c)
           R == client.read
           g == remote.read
<1>1. /\ "server_recv" \in c.on /\ env' = env /\ client' = client /\ remote' = remote
      /\ Becomes(Close(c, "error")) \/ Becomes(d)
  BY DEF ServerRecvFails, Undelayed
<1>2. DOMAIN c = ConnFields
  BY <1>1, WatchersOn
<1>3. CASE Becomes(Close(c, "error"))
  BY <1>1, <1>2, <1>3, StepCloses DEF Faults
<1>4. CASE Becomes(d)
  <2>1. Sockets'
    BY <1>1, <1>4, SocketsKept DEF RelayIInv
  <2>2. CASE Fed(c, R, env.cmd) /\ Early(c, R, env.cmd) /\ net = "idle" /\ remote.pos = 0 /\ remote.read = 0
    <3>1. Advances(d, R, env.cmd)
      BY <2>2, UndelayedFed DEF Advances
    <3> HIDE DEF d
    <3>2. QED BY <1>1, <1>4, <2>1, <2>2, <3>1, StepAdvances
  <2>3. CASE /\ Relaying(c, R, g) /\ env.cmd = "connect"
             /\ remote.pos <= DownChunks /\ g <= Units(c.remote, remote.pos)
    <3>1. /\ DOMAIN d = ConnFields /\ d.on = c.on \ {"delayed_connect"}
          /\ d.stage = c.stage /\ d.buf = c.buf /\ d.abuf = c.abuf /\ d.remote = c.remote
          /\ d.rbuf = c.rbuf /\ d.connected = c.connected /\ d.e_ctx = c.e_ctx
          /\ d.tx = c.tx /\ d.up = c.up /\ d.why = c.why /\ KeepsDown(d, c)
      BY <1>2, UndelayedKeeps
    <3> HIDE DEF d
    <3>2. Shape(d) /\ DownSide(d, g)
      BY <2>3, <3>1, DownKept DEF Relaying, Shape
    <3>3. UpSide(d, R)
      <4>1. \A tail : Upstream(c, tail, R) => Upstream(d, tail, R)
        BY <3>1, Zenon DEF Upstream
      <4>2. UpSide(c, R)
        BY <2>3 DEF Relaying
      <4>3. Upstream(d, Pending(d.rbuf), R)
        BY <3>1, <4>1, <4>2 DEF UpSide
      <4>4. QED BY <3>1, <4>2, <4>3 DEF UpSide
    <3>4. Relaying(d, R, g)
      BY <2>3, <3>2, <3>3 DEF Relaying
    <3>5. QED BY <1>1, <1>4, <2>1, <2>3, <3>1, <3>4, StepRelays
  <2>4. QED BY <1>1, <2>2, <2>3, WatchersOn
<1>5. QED BY <1>1, <1>3, <1>4

\* The loop of server_recv_cb, in the handshake.
LEMMA ServeAdvances ==
    ASSUME NEW s, NEW R \in Nat, R <= 4 + UpBytes, Fed(s, R, env.cmd), "delayed_connect" \notin s.on,
           env.cmd \in {"connect", "udp", "other"}, NEW d \in Serve(s)
    PROVE  Advances(d, R, env.cmd)
<1>1. s.stage \in {"STAGE_INIT", "STAGE_HANDSHAKE", "STAGE_SNI"}
  BY DEF Fed
<1>2. CASE s.stage = "STAGE_INIT"
  <2>1. d \in Method(s)
    BY <1>2 DEF Serve
  <2>2. QED BY <1>2, <2>1, MethodServes
<1>3. CASE s.stage \in {"STAGE_HANDSHAKE", "STAGE_SNI"}
  <2>1. d \in server_handshake(s)
    BY <1>3 DEF Serve
  <2>2. QED BY <1>3, <2>1, HandshakeServes
<1>4. QED BY <1>1, <1>2, <1>3

\* recv to a buffer of the handshake.
LEMMA RecvToHolds ==
    ASSUME NEW b, NEW a \in Nat, NEW R \in Nat, NEW k \in Nat, a <= R, HoldsUnits(b, a, R)
    PROVE  HoldsUnits(RecvTo(b, Cut(ClientStream, R, R + k)), a, R + k)
<1> DEFINE Q == R + k
           p == Cut(ClientStream, a, R)
           u == Cut(ClientStream, R, Q)
<1>1. Q \in Nat /\ R <= Q /\ a <= Q /\ Q - R = k /\ R - a \in Nat /\ (R - a) + k = Q - a
  OBVIOUS
<1> HIDE DEF Q
<1>2. IsSeq(p) /\ Len(p) = R - a /\ IsSeq(u) /\ Len(u) = k
  BY <1>1, CutSeq DEF Cut
<1>3. p \o u = Cut(ClientStream, a, Q)
  <2>1. a \in Nat /\ R \in Nat /\ Q \in Nat /\ a <= R /\ R <= Q
    BY <1>1
  <2>2. QED BY ONLY <2>1, CutJoin
<1>4. b.data = p /\ b.idx = 0 /\ b.len = R - a
  BY DEF HoldsUnits
<1> HIDE DEF p, u
<1>5. SubSeq(b.data, 1, b.len) = p
  BY <1>2, <1>4, AllUnits
<1>6. RecvTo(b, u) = [data |-> p \o u, idx |-> 0, len |-> (R - a) + k]
  BY <1>2, <1>4, <1>5 DEF RecvTo
<1>7. HoldsUnits(RecvTo(b, u), a, Q)
  BY <1>1, <1>3, <1>6 DEF HoldsUnits
<1>8. QED BY <1>7 DEF u, Q

\* recv takes at least one unit and no more than there are.
LEMMA ReceivedRange ==
    ASSUME NEW n \in Int, NEW room \in Int, NEW k \in Received(n, room)
    PROVE  k \in Nat \ {0} /\ k <= n /\ k <= room
<1>1. k \in {1, IF n < room THEN n ELSE room} /\ 0 < k /\ k <= room /\ k <= n
  BY DEF Received
<1>2. k \in Int
  BY <1>1
<1>3. QED BY <1>1, <1>2

\* The client's units behind the R-th, up to the Q-th, were read into rbuf, which
\* was empty; without any, the delay is over.
Refilled(t, s, R, Q) ==
    /\ R \in Nat /\ Q \in Nat /\ R <= Q /\ Q <= 4 + UpBytes
    /\ s.rbuf.len = 0 /\ "remote_send" \notin s.on /\ (s.connected => R < Q)
    /\ DOMAIN t = ConnFields /\ t.on = s.on \ {"delayed_connect"} /\ t.stage = s.stage /\ t.buf = s.buf
    /\ t.abuf = s.abuf /\ t.remote = s.remote /\ t.connected = s.connected /\ t.e_ctx = s.e_ctx
    /\ t.tx = s.tx /\ t.up = s.up /\ t.why = s.why /\ KeepsDown(t, s)
    /\ DOMAIN t.rbuf = BufFields /\ t.rbuf.idx \in Nat /\ t.rbuf.len = Q - R /\ Len(t.rbuf.data) \in Nat
    /\ t.rbuf.len <= Len(t.rbuf.data) /\ SubSeq(t.rbuf.data, 1, t.rbuf.len) = Cut(ClientStream, R, Q)

\* server_stream on what was received goes on relaying or gives up.
LEMMA StreamServes ==
    ASSUME NEW s, NEW R, NEW Q, NEW g, Relaying(s, R, g), NEW t, Refilled(t, s, R, Q), NEW d \in Serve(t)
    PROVE  GivenUp(d) \/ (Relaying(d, Q, g) /\ d.remote = s.remote)
<1> USE DEF Refilled
<1>1. Shape(s) /\ R >= 4 /\ UpSide(s, R) /\ DownSide(s, g)
  BY DEF Relaying
<1>2. Shape(t) /\ t.stage = "STAGE_STREAM"
  BY <1>1 DEF Shape
<1>3. d \in server_stream(t)
  BY <1>2 DEF Serve
<1>4. Upstream(t, <<>>, R)
  <2>1. Pending(s.rbuf) = <<>>
    BY <1>1, NoUnits DEF UpSide, Pending
  <2>2. Upstream(s, <<>>, R)
    BY <1>1, <2>1 DEF UpSide
  <2>3. QED BY <2>2, Zenon DEF Upstream
<1>5. 4 <= R /\ Q >= 4
  BY <1>1
<1>6. WholeBuffer(t.abuf) /\ IsSeq(t.up)
  BY <1>1 DEF UpSide
<1>7. "remote_send" \notin t.on /\ "delayed_connect" \notin t.on
  OBVIOUS
<1>9. Raw(t, R, Q)
  BY <1>2, <1>4, <1>5, <1>6, <1>7 DEF Raw
<1>10. GoesUp(d, t, Q)
  BY <1>3, <1>9, StreamGoesUp
<1>11. DownSide(t, g)
  BY <1>1, DownKept
<1>12. CASE GivenUp(d)
  BY <1>12
<1>13. CASE Shape(d) /\ UpSide(d, Q) /\ KeepsDown(d, t)
  <2>1. DownSide(d, g) /\ d.remote = t.remote
    BY <1>11, <1>13, DownKept DEF KeepsDown
  <2>2. Relaying(d, Q, g) /\ d.remote = s.remote
    BY <1>5, <1>13, <2>1 DEF Relaying
  <2>3. QED BY <2>2
<1>14. QED BY <1>10, <1>12, <1>13 DEF GoesUp

\* server_recv_cb with data: the handshake advances, or the relay goes on.
LEMMA StepServerRecv ==
    ASSUME RelayIInv, server_recv_cb
    PROVE  Carries
<1> DEFINE R == client.read
           g == remote.read
           s == Undelayed(c)
           units(k) == SubSeq(ClientStream, R + 1, R + k)
           t(k) == IF c.remote = "null" THEN [s EXCEPT !.buf = RecvTo(@, units(k))]
                   ELSE [s EXCEPT !.rbuf = RecvTo(@, units(k))]
<1>1. PICK k \in Received(client.pos - R, BufSize - ServerBuf.len) :
          (\E d \in Serve(t(k)) : Becomes(d)) /\ client' = [client EXCEPT !.read = @ + k]
  BY Zenon DEF server_recv_cb, Undelayed
<1>2. PICK d \in Serve(t(k)) : Becomes(d)
  BY <1>1
<1>3. "server_recv" \in c.on /\ env' = env /\ remote' = remote
  BY DEF server_recv_cb
<1>4. /\ Sockets /\ R \in Nat /\ client.pos \in Nat /\ R <= client.pos /\ client.pos <= 4 + UpBytes
      /\ DOMAIN client = {"pos", "read", "fin"} /\ env.cmd \in {"connect", "udp", "other"}
  BY DEF RelayIInv, Sockets
<1>5. DOMAIN c = ConnFields
  BY <1>3, WatchersOn
<1>6. ServerBuf.len \in Nat /\ UpBytes \in Nat /\ BufSize \in Nat
  <2>1. CASE Fed(c, R, env.cmd)
    <3>1. ServerBuf = c.buf
      BY <2>1 DEF Fed, Fresh, ServerBuf
    <3>2. \/ HoldsUnits(c.buf, 0, R) \/ (HoldsUnits(c.buf, 2, R) /\ R >= 2)
      BY <1>4, <2>1 DEF Fed
    <3>3. QED BY <1>4, <3>1, <3>2, LocalRelayAssumption DEF HoldsUnits
  <2>2. CASE Relaying(c, R, g)
    BY <1>3, <2>2, LocalRelayAssumption DEF Relaying, UpSide, Shape, ServerBuf
  <2>3. QED BY <1>3, <2>1, <2>2, WatchersOn
<1>7. k \in Nat \ {0} /\ k <= client.pos - R /\ k <= BufSize - ServerBuf.len
  <2>1. client.pos - R \in Int /\ BufSize - ServerBuf.len \in Int
    BY <1>4, <1>6
  <2>2. QED BY <2>1, ReceivedRange
<1>8. R + k <= client.pos /\ R + k <= 4 + UpBytes /\ R + k \in Nat
  BY <1>4, <1>6, <1>7
<1>9. client'.read = R + k /\ client'.pos = client.pos /\ DOMAIN client' = DOMAIN client
  BY <1>1, <1>4
<1>10. Sockets'
  BY <1>2, <1>3, <1>4, <1>8, <1>9 DEF Sockets, Becomes
<1>11. /\ DOMAIN s = ConnFields /\ s.on = c.on \ {"delayed_connect"}
       /\ s.stage = c.stage /\ s.buf = c.buf /\ s.abuf = c.abuf /\ s.remote = c.remote
       /\ s.rbuf = c.rbuf /\ s.connected = c.connected /\ s.e_ctx = c.e_ctx
       /\ s.d_ctx = c.d_ctx /\ s.tx = c.tx /\ s.rx = c.rx /\ s.up = c.up
       /\ s.down = c.down /\ s.why = c.why /\ KeepsDown(s, c)
  BY <1>5, UndelayedKeeps
<1>12. units(k) = Cut(ClientStream, R, R + k)
  BY DEF Cut
<1> HIDE DEF s, units
<1>13. CASE Fed(c, R, env.cmd) /\ Early(c, R, env.cmd) /\ net = "idle" /\ remote.pos = 0 /\ remote.read = 0
  <2> DEFINE u == t(k)
  <2>1. Fed(s, R, env.cmd)
    BY <1>13, UndelayedFed DEF s
  <2>2. c.remote = "null" /\ Fresh(s) /\ ServerBuf = c.buf
    BY <1>13, <2>1 DEF Fed, Fresh, ServerBuf
  <2>3. /\ DOMAIN u = ConnFields /\ u.on = s.on /\ u.buf = RecvTo(s.buf, units(k))
        /\ u.stage = s.stage /\ u.abuf = s.abuf /\ u.remote = s.remote
        /\ u.rbuf = s.rbuf /\ u.connected = s.connected /\ u.e_ctx = s.e_ctx
        /\ u.d_ctx = s.d_ctx /\ u.tx = s.tx /\ u.rx = s.rx /\ u.up = s.up
        /\ u.down = s.down /\ u.why = s.why
    BY <1>11, <2>2 DEF ConnFields
  <2> HIDE DEF t, u
  <2>4. Fresh(u)
    BY <2>2, <2>3 DEF Fresh
  <2> DEFINE o == 0  a == 2  Q == R + k
  <2>5. o \in Nat /\ a \in Nat /\ k \in Nat /\ o <= R /\ (R >= 2 => a <= R)
    BY <1>4, <1>7
  <2>6. /\ HoldsUnits(s.buf, 0, R) => HoldsUnits(u.buf, 0, R + k)
        /\ HoldsUnits(s.buf, 2, R) /\ R >= 2 => HoldsUnits(u.buf, 2, R + k)
    <3> HIDE DEF o, a
    <3>1. /\ HoldsUnits(s.buf, o, R) => HoldsUnits(u.buf, o, R + k)
          /\ HoldsUnits(s.buf, a, R) /\ R >= 2 => HoldsUnits(u.buf, a, R + k)
      <4>1. u.buf = RecvTo(s.buf, Cut(ClientStream, R, R + k)) /\ R \in Nat
        BY <1>4, <1>12, <2>3
      <4> HIDE DEF R
      <4>2. /\ HoldsUnits(s.buf, o, R) => HoldsUnits(RecvTo(s.buf, Cut(ClientStream, R, R + k)), o, R + k)
            /\ HoldsUnits(s.buf, a, R) /\ R >= 2
                   => HoldsUnits(RecvTo(s.buf, Cut(ClientStream, R, R + k)), a, R + k)
        BY <4>1, <2>5, RecvToHolds
      <4>3. QED BY <4>1, <4>2, Zenon
    <3>2. QED BY <3>1 DEF o, a
  <2>7. (HoldsUnits(s.buf, 0, R) \/ (HoldsUnits(s.buf, 2, R) /\ R >= 2)) => u.buf.len <= BufSize
    <3>0. \A b, e, r : HoldsUnits(b, e, r) => b.len = r - e
      BY DEF HoldsUnits
    <3> DEFINE x == s.buf  y == u.buf  m == R + k
    <3> HIDE DEF R, x, y, m
    <3>1. HoldsUnits(x, 0, R) /\ HoldsUnits(y, 0, m) => y.len = m - 0 /\ x.len = R - 0
      BY <3>0
    <3>2. HoldsUnits(x, 2, R) /\ HoldsUnits(y, 2, m) => y.len = m - 2 /\ x.len = R - 2
      BY <3>0
    <3> USE DEF R, x, y, m
    <3>9. x.len = c.buf.len
      BY <1>11
    <3>3. k <= BufSize - c.buf.len
      BY <1>7, <2>2
    <3>4. QED BY <1>4, <1>6, <1>7, <2>6, <3>1, <3>2, <3>3, <3>9
  <2>8. Fed(u, R + k, env.cmd)
    <3>1. R + k >= R
      BY <1>4, <1>7
    <3>2. \/ s.stage = "STAGE_INIT" /\ HoldsUnits(s.buf, 0, R) /\ s.down = <<>>
          \/ /\ s.stage = "STAGE_HANDSHAKE" /\ R >= 2 /\ HoldsUnits(s.buf, 2, R)
             /\ env.cmd = "connect" => s.down = <<Socks("method")>>
          \/ /\ s.stage = "STAGE_SNI" /\ R >= 4 /\ HoldsUnits(s.buf, 2, R)
             /\ env.cmd = "connect" /\ s.down = Replies
      BY <2>1 DEF Fed
    <3>3. (R >= 4 => R >= 2 /\ R + k >= 4) /\ (R >= 2 => R + k >= 2)
      BY <1>4, <1>7
    <3>4. QED BY <2>3, <2>4, <2>6, <2>7, <3>2, <3>3 DEF Fed
  <2>9. "delayed_connect" \notin u.on
    BY <1>11, <2>3
  <2>10. Advances(d, R + k, env.cmd)
    BY <1>2, <1>4, <1>8, <2>8, <2>9, ServeAdvances DEF u
  <2>11. QED BY <1>2, <1>3, <1>9, <1>10, <1>13, <2>10, StepAdvances
<1>14. CASE /\ Relaying(c, R, g) /\ env.cmd = "connect"
            /\ remote.pos <= DownChunks /\ g <= Units(c.remote, remote.pos)
  <2> DEFINE u == t(k)
  <2>1. /\ c.remote # "null" /\ DOMAIN c.rbuf = BufFields /\ c.rbuf.idx \in Nat
        /\ c.rbuf.len = 0 /\ "remote_send" \notin c.on
    BY <1>3, <1>14 DEF Relaying, Shape, UpSide
  <2>2. /\ DOMAIN u = ConnFields /\ u.on = s.on /\ u.rbuf = RecvTo(s.rbuf, units(k))
        /\ u.stage = s.stage /\ u.buf = s.buf /\ u.abuf = s.abuf /\ u.remote = s.remote
        /\ u.connected = s.connected /\ u.e_ctx = s.e_ctx
        /\ u.tx = s.tx /\ u.up = s.up /\ u.why = s.why /\ KeepsDown(u, s)
    BY <1>11, <2>1 DEF ConnFields, KeepsDown
  <2> HIDE DEF t, u
  <2>3. KeepsDown(u, c)
    BY <1>11, <2>2 DEF KeepsDown
  <2>4. IsSeq(units(k)) /\ Len(units(k)) = k
    <3> DEFINE Q == R + k
    <3>1. R \in Nat /\ Q \in Nat /\ R <= Q /\ Q - R = k
      BY <1>4, <1>7
    <3> HIDE DEF Q
    <3>2. IsSeq(Cut(ClientStream, R, Q)) /\ Len(Cut(ClientStream, R, Q)) = Q - R
      BY <3>1, CutSeq DEF Cut
    <3>3. QED BY <1>12, <3>1, <3>2 DEF Q
  <2>5. SubSeq(c.rbuf.data, 1, 0) \o units(k) = units(k)
    BY <2>4, NoUnits, ConcatNone
  <2>6. /\ DOMAIN u.rbuf = BufFields /\ u.rbuf.data = units(k) /\ u.rbuf.idx = c.rbuf.idx
        /\ u.rbuf.len = k
    BY <1>7, <1>11, <2>1, <2>2, <2>4, <2>5 DEF RecvTo, BufFields
  <2>7. SubSeq(units(k), 1, k) = units(k)
    BY <2>4, AllUnits
  <2>8. k \in Nat /\ k > 0 /\ k <= k /\ Len(units(k)) \in Nat
    BY <1>7, <2>4
  <2>9. d \in Serve(u)
    BY <1>2 DEF u
  <2>10. GivenUp(d) \/ (Relaying(d, R + k, g) /\ d.remote = c.remote)
    <3>1. /\ DOMAIN u = ConnFields /\ u.on = c.on \ {"delayed_connect"} /\ u.stage = c.stage /\ u.buf = c.buf
          /\ u.abuf = c.abuf /\ u.remote = c.remote /\ u.connected = c.connected /\ u.e_ctx = c.e_ctx
          /\ u.tx = c.tx /\ u.up = c.up /\ u.why = c.why
      BY <1>11, <2>2
    <3> DEFINE Q == R + k
    <3>2. /\ DOMAIN u.rbuf = BufFields /\ u.rbuf.idx \in Nat /\ u.rbuf.len = k /\ Len(u.rbuf.data) \in Nat
          /\ u.rbuf.len <= Len(u.rbuf.data) /\ SubSeq(u.rbuf.data, 1, u.rbuf.len) = Cut(ClientStream, R, Q)
      BY <1>12, <2>1, <2>4, <2>6, <2>7, <2>8
    <3>3. /\ R \in Nat /\ Q \in Nat /\ Relaying(c, R, g) /\ R <= Q /\ Q <= 4 + UpBytes /\ c.rbuf.len = 0
          /\ "remote_send" \notin c.on /\ (c.connected => R < Q) /\ k = Q - R
      BY <1>4, <1>8, <1>14, <2>1, <2>8
    <3> HIDE DEF R, g, Q
    <3>4. Refilled(u, c, R, Q)
      BY <2>3, <3>1, <3>2, <3>3 DEF Refilled
    <3>5. GivenUp(d) \/ (Relaying(d, Q, g) /\ d.remote = c.remote)
      BY <2>9, <3>3, <3>4, StreamServes
    <3>6. QED BY <3>5 DEF Q
  <2>11. Relaying(d, R + k, g) => d.remote = c.remote
    BY <2>10 DEF Relaying, Shape, GivenUp, Gone
  <2>12. QED BY <1>2, <1>3, <1>9, <1>10, <1>14, <2>10, <2>11, StepRelays
<1>15. QED BY <1>3, <1>13, <1>14, WatchersOn

\* delayed_connect_cb: the connection is made without more payload.
LEMMA StepDelayedConnect ==
    ASSUME RelayIInv, delayed_connect_cb
    PROVE  Carries
<1> DEFINE R == client.read
           g == remote.read
           t == Undelayed(c)
<1>1. PICK d \in Serve(t) : Becomes(d)
  BY DEF delayed_connect_cb, Undelayed
<1>2. "delayed_connect" \in c.on /\ env' = env /\ client' = client /\ remote' = remote
  BY DEF delayed_connect_cb
<1>3. /\ R \in Nat /\ client.pos \in Nat /\ R <= client.pos /\ client.pos <= 4 + UpBytes
      /\ env.cmd \in {"connect", "udp", "other"} /\ UpBytes \in Nat
  BY LocalRelayAssumption DEF RelayIInv, Sockets
<1>4. DOMAIN c = ConnFields
  BY <1>2, WatchersOn
<1>5. Sockets'
  BY <1>1, <1>2, SocketsKept DEF RelayIInv
<1>6. /\ DOMAIN t = ConnFields /\ t.on = c.on \ {"delayed_connect"}
      /\ t.stage = c.stage /\ t.buf = c.buf /\ t.abuf = c.abuf /\ t.remote = c.remote
      /\ t.rbuf = c.rbuf /\ t.connected = c.connected /\ t.e_ctx = c.e_ctx
      /\ t.tx = c.tx /\ t.up = c.up /\ t.why = c.why /\ KeepsDown(t, c)
  BY <1>4, UndelayedKeeps
<1>7. R <= 4 + UpBytes
  BY <1>3
<1>8. CASE Fed(c, R, env.cmd) /\ Early(c, R, env.cmd) /\ net = "idle" /\ remote.pos = 0 /\ remote.read = 0
  <2>1. Fed(t, R, env.cmd)
    BY <1>8, UndelayedFed
  <2>2. "delayed_connect" \notin t.on
    BY <1>6
  <2> HIDE DEF t
  <2>3. Advances(d, R, env.cmd)
    BY <1>1, <1>3, <1>7, <2>1, <2>2, ServeAdvances
  <2>4. QED BY <1>1, <1>2, <1>5, <1>8, <2>3, StepAdvances
<1>9. CASE /\ Relaying(c, R, g) /\ env.cmd = "connect"
           /\ remote.pos <= DownChunks /\ g <= Units(c.remote, remote.pos)
  <2>1. /\ DOMAIN c.rbuf = BufFields /\ c.rbuf.idx \in Nat /\ ~c.connected
        /\ c.rbuf.len = 0 /\ "remote_send" \notin c.on /\ Len(c.rbuf.data) \in Nat
    BY <1>2, <1>9 DEF Relaying, UpSide
  <2> HIDE DEF t
  <2>2. SubSeq(t.rbuf.data, 1, t.rbuf.len) = Cut(ClientStream, R, R)
    <3>1. Cut(ClientStream, R, R) = <<>>
      BY <1>3, CutEnds
    <3>2. SubSeq(t.rbuf.data, 1, 0) = <<>>
      BY NoUnits
    <3>3. QED BY <1>6, <2>1, <3>1, <3>2
  <2>3. R <= R /\ R - R = 0 /\ 0 <= Len(t.rbuf.data)
    BY <1>3, <1>6, <2>1
  <2>4. /\ DOMAIN t.rbuf = BufFields /\ t.rbuf.idx \in Nat /\ Len(t.rbuf.data) \in Nat
        /\ t.rbuf.len = R - R /\ t.rbuf.len <= Len(t.rbuf.data)
    BY <1>6, <2>1, <2>3
  <2>6. GivenUp(d) \/ (Relaying(d, R, g) /\ d.remote = c.remote)
    <3>1. R \in Nat /\ Relaying(c, R, g)
      BY <1>3, <1>9
    <3> HIDE DEF R, g
    <3>2. Refilled(t, c, R, R)
      BY <1>6, <1>7, <2>1, <2>2, <2>3, <2>4, <3>1 DEF Refilled
    <3>3. QED BY <1>1, <3>1, <3>2, StreamServes
  <2>7. Relaying(d, R, g) => d.remote = c.remote
    BY <2>6 DEF Relaying, Shape, GivenUp, Gone
  <2>8. QED BY <1>1, <1>2, <1>5, <1>9, <2>6, <2>7, StepRelays
<1>10. QED BY <1>2, <1>8, <1>9, WatchersOn

\* server_send_cb takes the next k units from buf.
TakenDown(s, k) ==
    LET t == [s EXCEPT !.down = @ \o SubSeq(Pending(s.buf), 1, k)]
    IN  IF k < s.buf.len
        THEN [t EXCEPT !.buf.len = @ - k, !.buf.idx = @ + k]
        ELSE [t EXCEPT !.buf = Empty, !.on = (@ \ {"server_send"}) \cup {"remote_recv"}]

\* What the client takes moves from buf to the client.
LEMMA TakesDown ==
    ASSUME NEW s, NEW R, NEW g, Relaying(s, R, g), "server_send" \in s.on, NEW k \in Sent(s.buf.len)
    PROVE  Relaying(TakenDown(s, k), R, g) /\ TakenDown(s, k).remote = s.remote
<1> DEFINE D == s.buf.data
           i == s.buf.idx
           l == s.buf.len
           b == SubSeq(D, i + 1, i + l)
           h == SubSeq(b, 1, k)
           rest == SubSeq(D, i + k + 1, i + k + (l - k))
           t == [s EXCEPT !.down = @ \o h]
           d == TakenDown(s, k)
<1>1. /\ Shape(s) /\ R >= 4 /\ UpSide(s, R) /\ DownSide(s, g) /\ DOMAIN s = ConnFields
      /\ DOMAIN s.buf = BufFields /\ s.connected
  BY DEF Relaying, Shape, DownSide
<1>0. Pending(s.buf) = b
  BY DEF Pending
<1>2. /\ l \in Nat /\ i \in Nat /\ i + l <= Len(D) /\ l > 0 /\ l <= BufSize /\ IsSeq(s.down)
      /\ Downstream(s, b, g) /\ "remote_recv" \notin s.on
  BY <1>0, <1>1 DEF DownSide, BufferOK
<1>3. k \in 1..l /\ k \in 0..l /\ k \in Nat /\ (~(k < l) => k = l)
  BY <1>2, SentRange
<1>4. IsSeq(b) /\ Len(b) = l /\ IsSeq(h) /\ IsSeq(rest) /\ h \o rest = b
  <2>1. Takes(D, i, l, k, b, h, rest)
    BY <1>2, <1>3 DEF Takes
  <2> HIDE DEF D, i, l, b, h, rest
  <2>2. QED BY <2>1, TakeUnits
<1> HIDE DEF b, h, rest
<1>5. /\ DOMAIN t = ConnFields /\ t.down = s.down \o h /\ t.stage = s.stage /\ t.why = s.why /\ t.on = s.on
      /\ t.rx = s.rx /\ t.d_ctx = s.d_ctx /\ t.buf = s.buf /\ KeepsUp(t, s)
  BY <1>1 DEF ConnFields, KeepsUp
<1>6. d = IF k < l THEN [t EXCEPT !.buf.len = @ - k, !.buf.idx = @ + k]
          ELSE [t EXCEPT !.buf = Empty, !.on = (@ \ {"server_send"}) \cup {"remote_recv"}]
  BY <1>0 DEF h, TakenDown
<1> HIDE DEF t, d
<1>7. IsSeq(s.down \o h) /\ (s.down \o h) \o rest = s.down \o b
  <2> DEFINE a == s.down
  <2>1. IsSeq(a) /\ IsSeq(h) /\ IsSeq(rest)
    BY <1>2, <1>4
  <2> HIDE DEF a
  <2>2. IsSeq(a \o h) /\ (a \o h) \o rest = a \o (h \o rest)
    BY <2>1, UnitsMove
  <2>3. QED BY <2>2, <1>4 DEF a
<1>8. CASE k < l
  <2>1. /\ DOMAIN d = ConnFields /\ d.down = s.down \o h /\ d.stage = s.stage /\ d.why = s.why /\ d.on = s.on
        /\ d.rx = s.rx /\ d.d_ctx = s.d_ctx /\ KeepsUp(d, t)
        /\ DOMAIN d.buf = BufFields /\ d.buf.data = D /\ d.buf.len = l - k /\ d.buf.idx = i + k
    BY <1>1, <1>5, <1>6, <1>8 DEF ConnFields, BufFields, KeepsUp
  <2>2. KeepsUp(d, s)
    BY <1>5, <2>1 DEF KeepsUp
  <2>3. UpSide(d, R) /\ d.remote = s.remote /\ d.connected = s.connected
    <3>1. UpSide(d, R)
      BY <1>1, <2>2, UpKept
    <3>2. QED BY <2>2, <3>1 DEF KeepsUp
  <2>4. Shape(d)
    BY <1>1, <2>1, <2>3 DEF Shape
  <2>5. Pending(d.buf) = rest
    BY <2>1 DEF Pending, rest
  <2>6. Downstream(d, rest, g)
    BY <1>2, <1>7, <2>1, <2>3, DownstreamMoves
  <2>7. BufferOK(d.buf) /\ d.buf.len \in Nat /\ d.buf.len > 0 /\ d.buf.len <= BufSize
    <3> DEFINE B == BufSize
    <3>1. B \in Nat /\ l <= B /\ Len(D) \in Int
      <4>1. l <= B /\ B \in Nat
        BY <1>2, LocalRelayAssumption
      <4>2. Len(D) \in Int
        BY <1>1 DEF DownSide, BufferOK
      <4>3. QED BY <4>1, <4>2
    <3> HIDE DEF B, D, l, i
    <3>2. l - k \in Nat /\ l - k > 0 /\ i + k \in Nat /\ i + k + (l - k) <= Len(D) /\ l - k <= B
      BY <1>2, <1>3, <1>8, <3>1
    <3>3. QED BY <2>1, <3>2 DEF BufferOK, B
  <2>8. DownSide(d, g)
    BY <1>1, <1>2, <1>7, <2>1, <2>3, <2>5, <2>6, <2>7 DEF DownSide
  <2>9. QED BY <1>1, <2>3, <2>4, <2>8 DEF Relaying, d
<1>9. CASE ~(k < l)
  <2>1. /\ DOMAIN d = ConnFields /\ d.down = s.down \o h /\ d.stage = s.stage /\ d.why = s.why
        /\ d.on = (s.on \ {"server_send"}) \cup {"remote_recv"}
        /\ d.rx = s.rx /\ d.d_ctx = s.d_ctx /\ KeepsUp(d, t) /\ d.buf = Empty
    BY <1>1, <1>5, <1>6, <1>9 DEF ConnFields, KeepsUp
  <2>2. KeepsUp(d, s)
    BY <1>5, <2>1 DEF KeepsUp
  <2>3. UpSide(d, R) /\ d.remote = s.remote /\ d.connected = s.connected
    <3>1. UpSide(d, R)
      BY <1>1, <2>2, UpKept
    <3>2. QED BY <2>2, <3>1 DEF KeepsUp
  <2>4. Shape(d)
    BY <1>1, <2>1, <2>3 DEF Shape, Watchers
  <2>5. rest = <<>>
    <3>1. k = l /\ l - k = 0 /\ i + k \in Nat
      BY <1>2, <1>3, <1>9
    <3> HIDE DEF D, i, l
    <3>2. QED BY <3>1, NoUnits DEF rest
  <2>6. Downstream(d, <<>>, g)
    BY <1>2, <1>7, <2>1, <2>3, <2>5, DownstreamMoves
  <2>7. DOMAIN d.buf = BufFields /\ d.buf.len = 0 /\ 0 <= BufSize
    BY <2>1, LocalRelayAssumption DEF Empty, BufFields
  <2>8. DownSide(d, g)
    BY <1>1, <1>7, <2>1, <2>3, <2>6, <2>7 DEF DownSide
  <2>9. QED BY <1>1, <2>3, <2>4, <2>8 DEF Relaying, d
<1>10. QED BY <1>8, <1>9

\* server_send_cb
LEMMA StepServerSend ==
    ASSUME RelayIInv, server_send_cb
    PROVE  Carries
<1> DEFINE R == client.read
           g == remote.read
           after(k) == TakenDown(c, k)
<1>1. "server_send" \in c.on /\ env' = env /\ client' = client /\ remote' = remote
  BY DEF server_send_cb
<1>2. /\ Relaying(c, R, g) /\ env.cmd = "connect"
      /\ remote.pos <= DownChunks /\ g <= Units(c.remote, remote.pos) /\ DOMAIN c = ConnFields
  BY <1>1, WatchersOn
<1>3. c.buf.len \in Nat /\ c.buf.len # 0
  BY <1>1, <1>2 DEF Relaying, DownSide
<1>4. Becomes(Close(c, "error")) \/ \E k \in Sent(c.buf.len) : Becomes(after(k))
  BY <1>3, Zenon DEF server_send_cb, TakenDown
<1>5. CASE Becomes(Close(c, "error"))
  BY <1>1, <1>2, <1>5, StepCloses DEF Faults
<1>6. ASSUME NEW k \in Sent(c.buf.len), Becomes(after(k)) PROVE Carries
  <2> DEFINE d == after(k)
  <2>1. Relaying(d, R, g) /\ d.remote = c.remote
    BY <1>1, <1>2, TakesDown
  <2> HIDE DEF d, after
  <2>2. Becomes(d)
    BY <1>6 DEF d
  <2>3. Sockets'
    BY <1>1, <2>2, SocketsKept DEF RelayIInv
  <2>4. QED BY <1>1, <1>2, <2>1, <2>2, <2>3, StepRelays
<1>7. QED BY <1>4, <1>5, <1>6

\* remote_send_cb takes the next k units from rbuf.
TakenUp(s, k) ==
    LET t == [s EXCEPT !.up = @ \o SubSeq(Pending(s.rbuf), 1, k)]
    IN  IF k < s.rbuf.len
        THEN [t EXCEPT !.rbuf.len = @ - k, !.rbuf.idx = @ + k]
        ELSE [t EXCEPT !.rbuf = Empty, !.on = (@ \ {"remote_send"}) \cup {"server_recv"}]

\* What the other side takes moves from rbuf to the other side.
LEMMA TakesUp ==
    ASSUME NEW s, NEW R, NEW g, Relaying(s, R, g), "remote_send" \in s.on, NEW k \in Sent(s.rbuf.len)
    PROVE  Relaying(TakenUp(s, k), R, g) /\ TakenUp(s, k).remote = s.remote
<1> DEFINE D == s.rbuf.data
           i == s.rbuf.idx
           l == s.rbuf.len
           b == SubSeq(D, i + 1, i + l)
           h == SubSeq(b, 1, k)
           rest == SubSeq(D, i + k + 1, i + k + (l - k))
           t == [s EXCEPT !.up = @ \o h]
           d == TakenUp(s, k)
<1>1. /\ Shape(s) /\ R >= 4 /\ UpSide(s, R) /\ DownSide(s, g) /\ DOMAIN s = ConnFields
      /\ DOMAIN s.rbuf = BufFields
  BY DEF Relaying, Shape, UpSide
<1>0. Pending(s.rbuf) = b
  BY DEF Pending
<1>2. /\ l \in Nat /\ i \in Nat /\ i + l <= Len(D) /\ IsSeq(s.up) /\ WholeBuffer(s.abuf)
      /\ Upstream(s, b, R) /\ "server_recv" \notin s.on /\ "delayed_connect" \notin s.on
      /\ (s.remote # "direct" => Pending(s.abuf) = <<>>)
  BY <1>0, <1>1 DEF UpSide, BufferOK, Shape
<1>3. k \in 1..l /\ k \in 0..l /\ k \in Nat /\ (~(k < l) => k = l)
  BY <1>2, SentRange
<1>4. IsSeq(b) /\ Len(b) = l /\ IsSeq(h) /\ IsSeq(rest) /\ h \o rest = b
  <2>1. Takes(D, i, l, k, b, h, rest)
    BY <1>2, <1>3 DEF Takes
  <2> HIDE DEF D, i, l, b, h, rest
  <2>2. QED BY <2>1, TakeUnits
<1> HIDE DEF b, h, rest
<1>5. /\ DOMAIN t = ConnFields /\ t.up = s.up \o h /\ t.stage = s.stage /\ t.why = s.why /\ t.on = s.on
      /\ t.tx = s.tx /\ t.e_ctx = s.e_ctx /\ t.abuf = s.abuf /\ t.rbuf = s.rbuf /\ KeepsDown(t, s)
  BY <1>1 DEF ConnFields, KeepsDown
<1>6. d = IF k < l THEN [t EXCEPT !.rbuf.len = @ - k, !.rbuf.idx = @ + k]
          ELSE [t EXCEPT !.rbuf = Empty, !.on = (@ \ {"remote_send"}) \cup {"server_recv"}]
  BY <1>0 DEF h, TakenUp
<1> HIDE DEF t, d
<1>7. IsSeq(s.up \o h) /\ (s.up \o h) \o rest = s.up \o b
  <2> DEFINE a == s.up
  <2>1. IsSeq(a) /\ IsSeq(h) /\ IsSeq(rest)
    BY <1>2, <1>4
  <2> HIDE DEF a
  <2>2. IsSeq(a \o h) /\ (a \o h) \o rest = a \o (h \o rest)
    BY <2>1, UnitsMove
  <2>3. QED BY <2>2, <1>4 DEF a
<1>8. CASE k < l
  <2>1. /\ DOMAIN d = ConnFields /\ d.up = s.up \o h /\ d.stage = s.stage /\ d.why = s.why /\ d.on = s.on
        /\ d.tx = s.tx /\ d.e_ctx = s.e_ctx /\ d.abuf = s.abuf /\ KeepsDown(d, t)
        /\ DOMAIN d.rbuf = BufFields /\ d.rbuf.data = D /\ d.rbuf.len = l - k /\ d.rbuf.idx = i + k
    BY <1>1, <1>5, <1>6, <1>8 DEF ConnFields, BufFields, KeepsDown
  <2>2. KeepsDown(d, s)
    BY <1>5, <2>1 DEF KeepsDown
  <2>3. DownSide(d, g) /\ d.remote = s.remote /\ d.connected = s.connected
    BY <1>1, <2>2, DownKept DEF KeepsDown
  <2>4. Shape(d)
    BY <1>1, <2>1, <2>3 DEF Shape
  <2>5. Pending(d.rbuf) = rest
    BY <2>1 DEF Pending, rest
  <2>6. Upstream(d, rest, R)
    BY <1>2, <1>7, <2>1, <2>3, UpstreamMoves
  <2>7. BufferOK(d.rbuf) /\ d.rbuf.idx \in Nat /\ d.rbuf.len \in Nat /\ d.rbuf.len > 0
    <3>1. Len(D) \in Int
      BY <1>1 DEF UpSide, BufferOK
    <3> HIDE DEF D, l, i
    <3>2. l - k \in Nat /\ l - k > 0 /\ i + k \in Nat /\ i + k + (l - k) <= Len(D)
      BY <1>2, <1>3, <1>8, <3>1
    <3>3. QED BY <2>1, <3>2 DEF BufferOK
  <2>8. d.remote = "proxied" => Pending(d.abuf) = <<>>
    BY <1>2, <2>1, <2>3
  <2>9. UpSide(d, R)
    BY <1>1, <1>2, <1>7, <2>1, <2>3, <2>5, <2>6, <2>7, <2>8 DEF UpSide
  <2>10. QED BY <1>1, <2>3, <2>4, <2>9 DEF Relaying, d
<1>9. CASE ~(k < l)
  <2>1. /\ DOMAIN d = ConnFields /\ d.up = s.up \o h /\ d.stage = s.stage /\ d.why = s.why
        /\ d.on = (s.on \ {"remote_send"}) \cup {"server_recv"}
        /\ d.tx = s.tx /\ d.e_ctx = s.e_ctx /\ d.abuf = s.abuf /\ KeepsDown(d, t) /\ d.rbuf = Empty
    BY <1>1, <1>5, <1>6, <1>9 DEF ConnFields, KeepsDown
  <2>2. KeepsDown(d, s)
    BY <1>5, <2>1 DEF KeepsDown
  <2>3. DownSide(d, g) /\ d.remote = s.remote /\ d.connected = s.connected
    BY <1>1, <2>2, DownKept DEF KeepsDown
  <2>4. Shape(d)
    BY <1>1, <2>1, <2>3 DEF Shape, Watchers
  <2>5. rest = <<>>
    <3>1. k = l /\ l - k = 0 /\ i + k \in Nat
      BY <1>2, <1>3, <1>9
    <3> HIDE DEF D, i, l
    <3>2. QED BY <3>1, NoUnits DEF rest
  <2>6. Upstream(d, <<>>, R)
    BY <1>2, <1>7, <2>1, <2>3, <2>5, UpstreamMoves
  <2>7. DOMAIN d.rbuf = BufFields /\ d.rbuf.len = 0 /\ d.rbuf.idx = 0 /\ Pending(d.rbuf) = <<>>
    BY <2>1 DEF Empty, BufFields, Pending
  <2>8. UpSide(d, R)
    BY <1>2, <1>7, <2>1, <2>3, <2>6, <2>7 DEF UpSide
  <2>9. QED BY <1>1, <2>3, <2>4, <2>8 DEF Relaying, d
<1>10. QED BY <1>8, <1>9

\* remote_send_cb finds the connection established.
LEMMA ConnectsUp ==
    ASSUME NEW s, NEW R, NEW g, Relaying(s, R, g), ~s.connected, "remote_send" \in s.on
    PROVE  LET t == NowConnected(s)
               e == [t EXCEPT !.on = (@ \ {"remote_send"}) \cup {"server_recv"}]
           IN  /\ DOMAIN t = ConnFields /\ t.remote = s.remote /\ t.rbuf = s.rbuf /\ "remote_send" \in t.on
               /\ s.rbuf.len # 0 => Relaying(t, R, g)
               /\ s.rbuf.len = 0 => Relaying(e, R, g) /\ e.remote = s.remote
<1> DEFINE t == NowConnected(s)
           e == [t EXCEPT !.on = (@ \ {"remote_send"}) \cup {"server_recv"}]
           Same(d) == /\ DOMAIN d = ConnFields /\ d.stage = s.stage /\ d.why = s.why /\ d.buf = s.buf
                      /\ d.abuf = s.abuf /\ d.remote = s.remote /\ d.rbuf = s.rbuf /\ d.connected = TRUE
                      /\ d.e_ctx = s.e_ctx /\ d.d_ctx = s.d_ctx /\ d.tx = s.tx /\ d.rx = s.rx
                      /\ d.up = s.up /\ d.down = s.down
<1>1. /\ Shape(s) /\ R >= 4 /\ UpSide(s, R) /\ DownSide(s, g) /\ DOMAIN s = ConnFields
      /\ "server_send" \notin s.on /\ "delayed_connect" \notin s.on /\ s.on \subseteq Watchers
  BY DEF Relaying, Shape, UpSide, DownSide
<1>2. Same(t) /\ t.on = (s.on \ {"timeout"}) \cup {"remote_recv"}
  BY <1>1 DEF NowConnected, ConnFields
<1> HIDE DEF t
<1>3. Same(e) /\ e.on = (t.on \ {"remote_send"}) \cup {"server_recv"}
  BY <1>2 DEF ConnFields
<1> HIDE DEF e
<1>4. ASSUME NEW d, Same(d), d.on \subseteq Watchers, "server_send" \notin d.on
      PROVE  Shape(d) /\ DownSide(d, g) /\ d.remote = s.remote
  <2>1. Shape(d)
    BY <1>1, <1>4 DEF Shape
  <2>2. \A q : Got(s, q, g) => Got(d, q, g)
    BY <1>4 DEF Got
  <2>3. Downstream(s, <<>>, g)
    BY <1>1 DEF DownSide
  <2>4. Downstream(d, <<>>, g)
    BY <1>4, <2>2, <2>3 DEF Downstream
  <2>5. DownSide(d, g)
    BY <1>1, <1>4, <2>4 DEF DownSide
  <2>6. QED BY <1>4, <2>1, <2>5
<1>5. ASSUME NEW d, Same(d) PROVE Upstream(d, Pending(d.rbuf), R)
  <2>1. Upstream(s, Pending(s.rbuf), R)
    BY <1>1 DEF UpSide
  <2>2. \A tail : Upstream(s, tail, R) => Upstream(d, tail, R)
    BY <1>5, Zenon DEF Upstream
  <2>3. QED BY <1>5, <2>1, <2>2
<1>6. t.on \subseteq Watchers /\ e.on \subseteq Watchers /\ "server_send" \notin t.on /\ "server_send" \notin e.on
  BY <1>1, <1>2, <1>3 DEF Watchers
<1>7. ASSUME s.rbuf.len # 0 PROVE Relaying(t, R, g)
  <2>1. s.rbuf.len > 0
    BY <1>1, <1>7 DEF UpSide
  <2>2. Upstream(t, Pending(t.rbuf), R)
    BY <1>2, <1>5
  <2>3. "remote_send" \in t.on /\ "delayed_connect" \notin t.on /\ ("server_recv" \in t.on => "server_recv" \in s.on)
    BY <1>1, <1>2
  <2>4. UpSide(t, R)
    BY <1>1, <1>2, <2>1, <2>2, <2>3 DEF UpSide
  <2>5. QED BY <1>1, <1>2, <1>4, <1>6, <2>4 DEF Relaying
<1>8. ASSUME s.rbuf.len = 0 PROVE Relaying(e, R, g) /\ e.remote = s.remote
  <2>1. Upstream(e, Pending(e.rbuf), R)
    BY <1>3, <1>5
  <2>2. "remote_send" \notin e.on /\ "delayed_connect" \notin e.on
    BY <1>1, <1>2, <1>3
  <2>3. UpSide(e, R)
    BY <1>1, <1>3, <1>8, <2>1, <2>2 DEF UpSide
  <2>4. QED BY <1>1, <1>3, <1>4, <1>6, <2>3 DEF Relaying
<1>9. "remote_send" \in t.on
  BY <1>2
<1>10. QED BY <1>2, <1>7, <1>8, <1>9 DEF t, e

\* remote_send_cb: the connection is up, and rbuf is sent.
LEMMA StepRemoteSend ==
    ASSUME RelayIInv, remote_send_cb
    PROVE  Carries
<1> DEFINE R == client.read
           g == remote.read
           s == IF c.connected THEN c ELSE NowConnected(c)
           e == [s EXCEPT !.on = (@ \ {"remote_send"}) \cup {"server_recv"}]
<1>1. "remote_send" \in c.on /\ env' = env /\ client' = client /\ remote' = remote
  BY DEF remote_send_cb
<1>2. /\ Relaying(c, R, g) /\ env.cmd = "connect"
      /\ remote.pos <= DownChunks /\ g <= Units(c.remote, remote.pos) /\ DOMAIN c = ConnFields
  BY <1>1, WatchersOn
<1>3. c.rbuf.len \in Nat /\ (c.connected => c.rbuf.len # 0) /\ c.connected \in BOOLEAN
  BY <1>1, <1>2 DEF Relaying, UpSide, Shape
<1>4. /\ DOMAIN s = ConnFields /\ s.remote = c.remote /\ s.rbuf = c.rbuf /\ "remote_send" \in s.on
      /\ c.rbuf.len # 0 => Relaying(s, R, g)
      /\ ~c.connected /\ c.rbuf.len = 0 => Relaying(e, R, g) /\ e.remote = c.remote
  <2>1. CASE c.connected
    BY <1>1, <1>2, <2>1
  <2>2. CASE ~c.connected
    <3>1. s = NowConnected(c)
      BY <2>2
    <3> HIDE DEF R, g
    <3>2. QED BY <1>1, <1>2, <2>2, <3>1, ConnectsUp
  <2>3. QED BY <2>1, <2>2
<1>5. \/ Becomes(Close(c, "error"))
      \/ ~c.connected /\ c.rbuf.len = 0 /\ Becomes(e)
      \/ c.rbuf.len # 0 /\ \E d \in SendPending(s) : Becomes(d)
  BY <1>3 DEF remote_send_cb
<1> HIDE DEF s, e
<1>6. CASE Becomes(Close(c, "error"))
  BY <1>1, <1>2, <1>6, StepCloses DEF Faults
<1>7. ASSUME NEW d, GivenUp(d) \/ (Relaying(d, R, g) /\ d.remote = c.remote), Becomes(d) PROVE Carries
  <2>1. Sockets'
    BY <1>1, <1>7, SocketsKept DEF RelayIInv
  <2>2. Relaying(d, R, g) => d.remote = c.remote
    BY <1>7 DEF Relaying, Shape, GivenUp, Gone
  <2>3. QED BY <1>1, <1>2, <1>7, <2>1, <2>2, StepRelays
<1>8. CASE ~c.connected /\ c.rbuf.len = 0 /\ Becomes(e)
  BY <1>4, <1>7, <1>8
<1>9. ASSUME c.rbuf.len # 0, NEW d \in SendPending(s), Becomes(d) PROVE Carries
  <2>1. d = Close(s, "error") \/ \E k \in Sent(s.rbuf.len) : d = TakenUp(s, k)
    BY Zenon DEF SendPending, TakenUp
  <2>2. CASE d = Close(s, "error")
    <3>1. GivenUp(d)
      BY <1>4, <2>2, CloseFrees DEF Faults
    <3>2. QED BY <1>7, <1>9, <3>1
  <2>3. CASE \E k \in Sent(s.rbuf.len) : d = TakenUp(s, k)
    <3>1. PICK k \in Sent(s.rbuf.len) : d = TakenUp(s, k)
      BY <2>3
    <3>2. Relaying(s, R, g) /\ "remote_send" \in s.on /\ s.remote = c.remote
      BY <1>4, <1>9
    <3>3. Relaying(d, R, g) /\ d.remote = c.remote
      BY <3>1, <3>2, TakesUp
    <3>4. QED BY <1>7, <1>9, <3>3
  <2>4. QED BY <2>1, <2>2, <2>3
<1>10. QED BY <1>5, <1>6, <1>8, <1>9

\* recv, or aead_decrypt, has put l units into buf.
Filled(s, data, l) == [s EXCEPT !.buf = [@ EXCEPT !.data = data, !.len = l]]

\* Only buf changes when it is filled.
LEMMA FilledKeeps ==
    ASSUME NEW s, Shape(s), DOMAIN s.buf = BufFields, NEW data, NEW l
    PROVE  LET e == Filled(s, data, l)
           IN  /\ Shape(e) /\ KeepsUp(e, s) /\ e.on = s.on /\ e.down = s.down /\ e.rx = s.rx
               /\ e.d_ctx = s.d_ctx /\ e.remote = s.remote /\ e.connected = s.connected
               /\ DOMAIN e.buf = BufFields /\ e.buf.data = data /\ e.buf.len = l
<1> DEFINE e == Filled(s, data, l)
<1>1. DOMAIN s = ConnFields
  BY DEF Shape
<1>2. /\ DOMAIN e = ConnFields /\ e.stage = s.stage /\ e.why = s.why
      /\ KeepsUp(e, s) /\ e.on = s.on /\ e.down = s.down /\ e.rx = s.rx
      /\ e.d_ctx = s.d_ctx /\ e.remote = s.remote /\ e.connected = s.connected
      /\ e.buf = [s.buf EXCEPT !.data = data, !.len = l]
  BY <1>1 DEF Filled, ConnFields, KeepsUp
<1> HIDE DEF e
<1>3. DOMAIN e.buf = BufFields /\ e.buf.data = data /\ e.buf.len = l
  BY <1>2 DEF BufFields
<1>4. Shape(e)
  BY <1>2 DEF Shape
<1>5. QED BY <1>2, <1>3, <1>4 DEF e

\* What came is behind what the client has got.
LEMMA FilledArrives ==
    ASSUME NEW s, Shape(s), DOMAIN s.buf = BufFields, "server_send" \notin s.on, s.connected,
           NEW q, NEW data, NEW g, IsSeq(q), IsSeq(data), s.down = Replies \o q, Got(s, q \o data, g),
           Len(data) > 0, Len(data) <= BufSize
    PROVE  Arrived(Filled(s, data, Len(data)), g)
<1> DEFINE l == Len(data)
           e == Filled(s, data, l)
<1>1. /\ Shape(e) /\ e.on = s.on /\ e.down = s.down /\ e.rx = s.rx
      /\ e.d_ctx = s.d_ctx /\ e.remote = s.remote /\ e.connected = s.connected
      /\ DOMAIN e.buf = BufFields /\ e.buf.data = data /\ e.buf.len = l
  <2> HIDE DEF l
  <2>0. Shape(s) /\ DOMAIN s.buf = BufFields
    OBVIOUS
  <2>1. QED BY ONLY <2>0, FilledKeeps
<1> HIDE DEF e
<1>2. l \in Nat \ {0} /\ l <= l
  BY DEF IsSeq
<1>3. SubSeq(data, 1, l) = data
  BY AllUnits
<1>4. IsSeq(Replies)
  <2>1. Replies \in Seq({Socks("method"), Socks("reply")})
    BY DEF Replies
  <2>2. QED BY <2>1, SeqIsSeq
<1>5. IsSeq(Replies \o q) /\ (Replies \o q) \o data = Replies \o (q \o data)
  BY <1>4, UnitsMove
<1>6. Got(e, q \o data, g)
  BY <1>1 DEF Got
<1>7. Downstream(e, data, g)
  BY <1>1, <1>5, <1>6 DEF Downstream
<1>8. Downstream(e, SubSeq(e.buf.data, 1, e.buf.len), g)
  BY <1>1, <1>3, <1>7
<1>9. Arrived(e, g)
  BY <1>1, <1>2, <1>5, <1>8 DEF Arrived
<1>10. QED BY <1>9 DEF e

\* The units of a direct connection are bytes.
LEMMA DirectGot ==
    ASSUME NEW s, s.remote = "direct", NEW g \in Nat, NEW k \in Nat \ {0}, g + k <= DownChunks,
           NEW q, Got(s, q, g)
    PROVE  LET units == SubSeq(Bytes(DownChunks), g + 1, g + k)
           IN  IsSeq(q) /\ IsSeq(units) /\ Len(units) = k /\ Got(s, q \o units, g + k)
<1> DEFINE units == SubSeq(Bytes(DownChunks), g + 1, g + k)
           h == g + k
           o == 0
<1>1. /\ DownChunks \in Nat /\ h \in Nat /\ g <= h /\ h <= DownChunks /\ h - g = k /\ o \in Nat /\ k \in Nat
      /\ o + g = g /\ g + k = h
  BY LocalRelayAssumption
<1>2. q = Bytes(g) /\ s.rx = 0
  BY DEF Got
<1>3. units = Cut(Bytes(DownChunks), g, h)
  BY DEF Cut
<1> HIDE DEF units, h, o
<1>4. units = Part(Plains, g, k)
  BY <1>1, <1>3, BytesCut
<1>5. IsSeq(units) /\ Len(units) = k
  BY <1>1, <1>4, PartSeq
<1>6. /\ Bytes(g) = Part(Plains, 0, g) /\ IsSeq(Bytes(g)) /\ Bytes(h) = Part(Plains, 0, h)
  BY <1>1, BytesPart
<1>7. Part(Plains, o, g) \o Part(Plains, o + g, k) = Part(Plains, o, g + k)
  <2>1. o \in Nat /\ g \in Nat /\ k \in Nat
    BY <1>1
  <2>2. QED BY <2>1, PartJoin
<1>8. q \o units = Bytes(h)
  BY <1>1, <1>2, <1>4, <1>6, <1>7 DEF o
<1>9. Got(s, q \o units, h)
  BY <1>2, <1>8 DEF Got
<1>10. QED BY <1>2, <1>5, <1>6, <1>9 DEF units, h

\* UnitsOf with the lengths of the code's salt, length block and tag put in.
LEMMA UnitsOfUnits == \A n : UnitsOf(n) = IF c.remote = "direct" \/ n = 0 THEN n ELSE 1 + n * 3
<1>1. SaltLen = 1 /\ LenBlock + 1 + TagLen = 3
  BY DEF SaltLen, LenBlock, TagLen
<1>2. QED BY <1>1 DEF UnitsOf

\* From what arrived to the end of remote_recv_cb.
LEMMA ArrivedServes ==
    ASSUME NEW s, NEW e, NEW R, NEW h, UpSide(s, R), R >= 4, KeepsUp(e, s), Arrived(e, h), NEW d \in SendDown(e)
    PROVE  GivenUp(d) \/ (Relaying(d, R, h) /\ d.remote = s.remote)
<1>1. GoesDown(d, e, h)
  BY SendDownKeeps
<1>2. CASE GivenUp(d)
  BY <1>2
<1>3. CASE Shape(d) /\ DownSide(d, h) /\ KeepsUp(d, e)
  <2>1. KeepsUp(d, s)
    BY <1>3 DEF KeepsUp
  <2>2. UpSide(d, R)
    BY <2>1, UpKept
  <2>3. d.remote = s.remote
    BY <2>1 DEF KeepsUp
  <2>4. QED BY <1>3, <2>2, <2>3 DEF Relaying
<1>4. QED BY <1>1, <1>2, <1>3 DEF GoesDown

\* remote_recv_cb of a direct connection.
LEMMA DirectServes ==
    ASSUME NEW s, NEW R, NEW g \in Nat, Relaying(s, R, g), s.remote = "direct", "remote_recv" \in s.on,
           NEW k \in Nat \ {0}, k <= BufSize, g + k <= DownChunks,
           NEW d \in SendDown(Filled(s, SubSeq(Bytes(DownChunks), g + 1, g + k), k))
    PROVE  GivenUp(d) \/ (Relaying(d, R, g + k) /\ d.remote = s.remote)
<1> DEFINE units == SubSeq(Bytes(DownChunks), g + 1, g + k)
           h == g + k
           e == Filled(s, units, k)
<1>1. /\ Shape(s) /\ R >= 4 /\ UpSide(s, R) /\ DOMAIN s.buf = BufFields /\ "server_send" \notin s.on
      /\ s.connected /\ Downstream(s, <<>>, g) /\ IsSeq(s.down)
  BY DEF Relaying, DownSide, Shape
<1>2. PICK q : Got(s, q, g) /\ s.down \o <<>> = Replies \o q
  BY <1>1 DEF Downstream
<1>3. IsSeq(q) /\ IsSeq(units) /\ Len(units) = k /\ Got(s, q \o units, h)
  <2>1. Got(s, q, g)
    BY <1>2
  <2>2. QED BY <2>1, DirectGot
<1>4. s.down = Replies \o q
  BY <1>1, <1>2, ConcatNone
<1> HIDE DEF units, h
<1>5. Arrived(Filled(s, units, Len(units)), h)
  <2>1. Len(units) > 0 /\ Len(units) <= BufSize
    BY <1>3
  <2>2. QED BY <1>1, <1>3, <1>4, <2>1, FilledArrives
<1>6. Arrived(e, h)
  BY <1>3, <1>5
<1>7. KeepsUp(e, s)
  BY ONLY <1>1, FilledKeeps
<1> HIDE DEF e
<1>8. d \in SendDown(e)
  BY DEF e, units
<1>9. GivenUp(d) \/ (Relaying(d, R, h) /\ d.remote = s.remote)
  BY <1>1, <1>6, <1>7, <1>8, ArrivedServes
<1>10. QED BY <1>9 DEF h

\* remote_recv_cb of s: units were decrypted to r in t.
Serves(t, units, k, r, s, R, h) ==
    /\ r.err \in {"NEED_MORE", "OK"}
    /\ r.err = "NEED_MORE" =>
           Relaying(Filled(t, units, k), R, h) /\ Filled(t, units, k).remote = s.remote
    /\ r.err = "OK" =>
           \A d \in SendDown(Filled(t, r.buf, Len(r.buf))) :
               GivenUp(d) \/ (Relaying(d, R, h) /\ d.remote = s.remote)

\* remote_recv_cb of a connection to the server: r is what aead_decrypt made.
LEMMA ServerServes ==
    ASSUME NEW s, NEW R, NEW g \in Nat, Relaying(s, R, g), s.remote # "direct", "remote_recv" \in s.on,
           NEW k \in Nat \ {0}, k <= BufSize, g + k <= Len(SealedAnswer), Len(SealedAnswer) \in Nat,
           NEW r, r = aead_decrypt(SubSeq(SealedAnswer, g + 1, g + k), s.d_ctx, ppbloom_init)
    PROVE  Serves([s EXCEPT !.rx = @ + k, !.d_ctx = r.ctx], SubSeq(SealedAnswer, g + 1, g + k), k, r, s, R, g + k)
<1> DEFINE units == SubSeq(SealedAnswer, g + 1, g + k)
           h == g + k
           t == [s EXCEPT !.rx = @ + k, !.d_ctx = r.ctx]
<1>1. /\ Shape(s) /\ R >= 4 /\ UpSide(s, R) /\ DOMAIN s.buf = BufFields /\ "server_send" \notin s.on
      /\ s.connected /\ Downstream(s, <<>>, g) /\ IsSeq(s.down) /\ DOMAIN s = ConnFields
  BY DEF Relaying, DownSide, Shape
<1>2. PICK q : Got(s, q, g) /\ s.down \o <<>> = Replies \o q
  BY <1>1 DEF Downstream
<1>3. s.rx = g /\ Reads(s.d_ctx, q, SealedAnswer, Ends(DownChunks), "peer", Password, Plains, g)
  BY <1>2 DEF Got
<1>4. /\ r.err = (IF r.buf = <<>> THEN "NEED_MORE" ELSE "OK")
      /\ Reads(r.ctx, q \o r.buf, SealedAnswer, Ends(DownChunks), "peer", Password, Plains, h)
      /\ IsSeq(q) /\ IsSeq(r.buf) /\ Len(r.buf) <= k
  <2>1. r = aead_decrypt(Cut(SealedAnswer, g, g + k), s.d_ctx, ppbloom_init)
    BY DEF Cut
  <2>2. QED BY <1>3, <2>1, AnswerOpens
<1>5. s.down = Replies \o q
  BY <1>1, <1>2, ConcatNone
<1> DEFINE p == r.buf
<1>6. /\ DOMAIN t = ConnFields /\ t.rx = h /\ t.d_ctx = r.ctx /\ KeepsUp(t, s) /\ t.on = s.on
      /\ t.down = s.down /\ t.buf = s.buf /\ t.stage = s.stage /\ t.why = s.why /\ t.remote = s.remote
      /\ t.connected = s.connected
  <2>1. DOMAIN s = ConnFields /\ s.rx = g
    BY <1>1, <1>3
  <2>2. QED BY ONLY <2>1 DEF ConnFields, KeepsUp
<1> HIDE DEF t, h
<1>7. Got(t, q \o p, h)
  BY <1>4, <1>6 DEF Got
<1>8. Shape(t)
  BY <1>1, <1>6 DEF Shape
<1> HIDE DEF p
<1>9. ASSUME r.err = "NEED_MORE"
      PROVE  Relaying(Filled(t, units, k), R, h) /\ Filled(t, units, k).remote = s.remote
  <2> DEFINE d == Filled(t, units, k)
  <2>0. Shape(t) /\ DOMAIN t.buf = BufFields
    BY <1>1, <1>6, <1>8
  <2>1. /\ Shape(d) /\ KeepsUp(d, t) /\ d.on = t.on /\ d.down = t.down /\ d.rx = t.rx
        /\ d.d_ctx = t.d_ctx /\ d.remote = t.remote /\ d.connected = t.connected
        /\ DOMAIN d.buf = BufFields /\ d.buf.data = units /\ d.buf.len = k
    <3> HIDE DEF units
    <3>1. QED BY ONLY <2>0, FilledKeeps
  <2> HIDE DEF d, units
  <2>2. p = <<>> /\ q \o <<>> = q
    BY <1>4, <1>9, ConcatNone DEF p
  <2>3. Got(d, q, h)
    BY <1>7, <2>1, <2>2 DEF Got
  <2>4. Downstream(d, <<>>, h)
    BY <1>2, <1>6, <2>1, <2>3 DEF Downstream
  <2>5. DownSide(d, h)
    BY <1>1, <1>6, <2>1, <2>4 DEF DownSide
  <2>6. KeepsUp(d, s)
    BY <1>6, <2>1 DEF KeepsUp
  <2>7. UpSide(d, R)
    BY <1>1, <2>6, UpKept
  <2>8. Relaying(d, R, h) /\ d.remote = s.remote
    BY <1>1, <1>6, <2>1, <2>5, <2>7 DEF Relaying
  <2>9. QED BY <2>8 DEF d
<1>10. ASSUME r.err = "OK", NEW d \in SendDown(Filled(t, p, Len(p)))
       PROVE  GivenUp(d) \/ (Relaying(d, R, h) /\ d.remote = s.remote)
  <2> DEFINE e == Filled(t, p, Len(p))
  <2>1. Len(p) > 0 /\ Len(p) <= BufSize
    <3>1. IsSeq(p) /\ p # <<>> /\ Len(p) <= k /\ Len(p) \in Nat
      BY <1>4, <1>10 DEF p, IsSeq
    <3>2. Len(p) # 0
      BY <3>1, EmptyIsSeq
    <3>3. QED BY <3>1, <3>2, LocalRelayAssumption
  <2>2. Arrived(e, h)
    <3>1. /\ Shape(t) /\ DOMAIN t.buf = BufFields /\ "server_send" \notin t.on /\ t.connected
          /\ IsSeq(q) /\ IsSeq(p) /\ t.down = Replies \o q
      BY <1>1, <1>4, <1>5, <1>6, <1>8 DEF p
    <3>2. QED BY <3>1, <1>7, <2>1, FilledArrives
  <2>3. KeepsUp(e, t)
    <3>1. Shape(t) /\ DOMAIN t.buf = BufFields
      BY <1>1, <1>6, <1>8
    <3>2. QED BY ONLY <3>1, FilledKeeps
  <2> HIDE DEF e
  <2>4. KeepsUp(e, s)
    BY <1>6, <2>3 DEF KeepsUp
  <2>5. d \in SendDown(e)
    BY <1>10 DEF e
  <2>6. QED BY <1>1, <2>2, <2>4, <2>5, ArrivedServes
<1>11. r.err \in {"NEED_MORE", "OK"}
  BY <1>4
<1> HIDE DEF units
<1>12. Serves(t, units, k, r, s, R, h)
  BY <1>9, <1>10, <1>11 DEF Serves, p
<1>13. QED BY <1>12 DEF t, h, units

\* remote_recv_cb
LEMMA StepRemoteRecv ==
    ASSUME RelayIInv, remote_recv_cb
    PROVE  Carries
<1> DEFINE R == client.read
           g == remote.read
           n == UnitsOf(remote.pos) - g
<1>1. "remote_recv" \in c.on /\ env' = env /\ client' = client
  BY DEF remote_recv_cb
<1>2. /\ Relaying(c, R, g) /\ env.cmd = "connect"
      /\ remote.pos <= DownChunks /\ g <= Units(c.remote, remote.pos) /\ DOMAIN c = ConnFields
  BY <1>1, WatchersOn
<1>3. /\ R \in Nat /\ g \in Nat /\ remote.pos \in Nat /\ DownChunks \in Nat /\ BufSize \in Nat
      /\ DOMAIN remote = {"pos", "read", "fin"} /\ Sockets
  BY LocalRelayAssumption DEF RelayIInv, Sockets
<1>4. UnitsOf(remote.pos) = Units(c.remote, remote.pos) /\ UnitsOf(remote.pos) \in Nat
  BY <1>3, UnitsOfUnits DEF Units
<1> DEFINE units(k) == SubSeq(RemoteStream, g + 1, g + k)
           r(k) == aead_decrypt(units(k), c.d_ctx, ppbloom_init)
           t(k) == [c EXCEPT !.rx = @ + k, !.d_ctx = r(k).ctx]
<1>5. PICK k \in Received(n, BufSize) :
          /\ IF c.remote = "direct"
             THEN \E d \in SendDown(Filled(c, units(k), k)) : Becomes(d)
             ELSE CASE r(k).err = "ERROR" -> Becomes(Close(t(k), "crypto"))
                    [] r(k).err = "NEED_MORE" -> Becomes(Filled(t(k), units(k), k))
                    [] r(k).err = "OK" ->
                           \E d \in SendDown(Filled(t(k), r(k).buf, Len(r(k).buf))) : Becomes(d)
          /\ remote' = [remote EXCEPT !.read = @ + k]
  BY Zenon DEF remote_recv_cb, Filled
<1> DEFINE u == units(k)
           x == r(k)
           y == t(k)
<1>6. k \in Nat \ {0} /\ k <= n /\ k <= BufSize
  <2>1. n \in Int /\ BufSize \in Int
    BY <1>3, <1>4
  <2> HIDE DEF n
  <2>2. QED BY <2>1, ReceivedRange
<1>7. remote'.read = g + k /\ remote'.pos = remote.pos /\ DOMAIN remote' = {"pos", "read", "fin"}
  BY <1>3, <1>5
<1>8. g + k <= Units(c.remote, remote.pos) /\ g + k \in Nat
  BY <1>3, <1>4, <1>6
<1>9. ASSUME NEW d, GivenUp(d) \/ (Relaying(d, R, g + k) /\ d.remote = c.remote), Becomes(d) PROVE Carries
  <2>1. Sockets'
    BY <1>1, <1>3, <1>7, <1>8, <1>9 DEF Sockets, Becomes
  <2>2. Relaying(d, R, g + k) => d.remote = c.remote
    BY <1>9 DEF Relaying, Shape, GivenUp, Gone
  <2> HIDE DEF R, g, n
  <2>3. client'.read = R /\ remote'.read = g + k /\ remote'.pos = remote.pos /\ env' = env
    BY <1>1, <1>7 DEF R
  <2>4. QED BY <1>2, <1>8, <1>9, <2>1, <2>2, <2>3, StepRelays
<1>10. CASE c.remote = "direct"
  <2>1. u = SubSeq(Bytes(DownChunks), g + 1, g + k)
    BY <1>10 DEF RemoteStream
  <2>2. PICK d \in SendDown(Filled(c, u, k)) : Becomes(d)
    BY <1>5, <1>10
  <2>3. g + k <= DownChunks
    BY <1>2, <1>3, <1>6, <1>8, <1>10 DEF Units
  <2> HIDE DEF u, R, g, n
  <2>4. d \in SendDown(Filled(c, SubSeq(Bytes(DownChunks), g + 1, g + k), k))
    BY <2>1, <2>2
  <2>5. g \in Nat /\ Relaying(c, R, g) /\ "remote_recv" \in c.on /\ k \in Nat \ {0} /\ k <= BufSize
    BY <1>1, <1>2, <1>3, <1>6 DEF g
  <2>6. GivenUp(d) \/ (Relaying(d, R, g + k) /\ d.remote = c.remote)
    BY <1>10, <2>3, <2>4, <2>5, DirectServes
  <2>7. QED BY <1>9, <2>2, <2>6
<1>11. CASE c.remote # "direct"
  <2>1. u = SubSeq(SealedAnswer, g + 1, g + k)
    BY <1>11 DEF RemoteStream
  <2>2. remote.pos \in 1..DownChunks /\ Units("proxied", remote.pos) = Units(c.remote, remote.pos)
    BY <1>2, <1>3, <1>6, <1>8, <1>11 DEF Units
  <2>3. Units("proxied", remote.pos) <= Len(SealedAnswer) /\ Len(SealedAnswer) \in Nat
    BY <2>2, AnswerLen
  <2>4. g + k <= Len(SealedAnswer)
    <3>1. Units(c.remote, remote.pos) \in Nat
      BY <1>4
    <3>2. QED BY <1>8, <2>2, <2>3, <3>1
  <2>5. x = aead_decrypt(SubSeq(SealedAnswer, g + 1, g + k), c.d_ctx, ppbloom_init)
    BY <2>1
  <2>6. y = [c EXCEPT !.rx = @ + k, !.d_ctx = x.ctx]
    OBVIOUS
  <2>7. (CASE x.err = "ERROR" -> Becomes(Close(y, "crypto"))
           [] x.err = "NEED_MORE" -> Becomes(Filled(y, u, k))
           [] x.err = "OK" -> \E d \in SendDown(Filled(y, x.buf, Len(x.buf))) : Becomes(d))
    BY <1>5, <1>11
  <2> HIDE DEF u, x, y, R, g, n
  <2>8. g \in Nat /\ Relaying(c, R, g) /\ "remote_recv" \in c.on /\ k \in Nat \ {0} /\ k <= BufSize
    BY <1>1, <1>2, <1>3, <1>6 DEF g
  <2>9. /\ x.err \in {"NEED_MORE", "OK"}
        /\ x.err = "NEED_MORE" => Relaying(Filled(y, u, k), R, g + k) /\ Filled(y, u, k).remote = c.remote
        /\ x.err = "OK" =>
               \A d \in SendDown(Filled(y, x.buf, Len(x.buf))) :
                   GivenUp(d) \/ (Relaying(d, R, g + k) /\ d.remote = c.remote)
    <3> DEFINE v == [c EXCEPT !.rx = @ + k, !.d_ctx = x.ctx]
               w == SubSeq(SealedAnswer, g + 1, g + k)
    <3>1. Serves(v, w, k, x, c, R, g + k)
      BY <1>11, <2>3, <2>4, <2>5, <2>8, ServerServes
    <3>2. v = y /\ w = u
      BY <2>1, <2>6
    <3> HIDE DEF v, w
    <3>3. QED BY <3>1, <3>2 DEF Serves
  <2>10. CASE x.err = "NEED_MORE"
    <3>1. Becomes(Filled(y, u, k))
      BY <2>7, <2>10
    <3>2. QED BY <1>9, <2>9, <2>10, <3>1
  <2>11. CASE x.err = "OK"
    <3>1. PICK d \in SendDown(Filled(y, x.buf, Len(x.buf))) : Becomes(d)
      BY <2>7, <2>11
    <3>2. QED BY <1>9, <2>9, <2>11, <3>1
  <2>12. QED BY <2>9, <2>10, <2>11
<1>12. QED BY <1>10, <1>11

\* Every step keeps the invariant.
LEMMA RelayNextKeeps ==
    ASSUME RelayIInv, [Next]_vars
    PROVE  RelayIInv'
<1>1. CASE ClientWrite \/ ClientEnd \/ RemoteWrite \/ RemoteEnd \/ Established
  BY <1>1, StepEnvironment
<1>2. CASE accept_cb
  BY <1>2, StepAccept DEF Carries
<1>3. CASE server_recv_cb
  BY <1>3, StepServerRecv DEF Carries
<1>4. CASE ServerRecvEnd
  BY <1>4, StepServerRecvEnd
<1>5. CASE ServerRecvFails
  BY <1>5, StepServerRecvFails DEF Carries
<1>6. CASE delayed_connect_cb
  BY <1>6, StepDelayedConnect DEF Carries
<1>7. CASE server_send_cb
  BY <1>7, StepServerSend DEF Carries
<1>8. CASE remote_timeout_cb \/ RemoteRecvEnd \/ free_connections
  BY <1>8, StepEnds
<1>9. CASE remote_recv_cb
  BY <1>9, StepRemoteRecv DEF Carries
<1>10. CASE remote_send_cb
  BY <1>10, StepRemoteSend DEF Carries
<1>11. CASE UNCHANGED vars
  <2>1. env' = env /\ c' = c /\ net' = net /\ client' = client /\ remote' = remote
    BY <1>11 DEF vars
  <2>2. QED BY <2>1 DEF RelayIInv, Sockets, NoFalseEnd
<1>12. QED
  BY <1>1, <1>2, <1>3, <1>4, <1>5, <1>6, <1>7, <1>8, <1>9, <1>10, <1>11, Zenon DEF Next, Callbacks

\* A connection of ss-local is always in the handshake, relays both directions
\* (what was handed over and what is in the buffers is the stream of the other
\* side), or was given up for a reason.
THEOREM RelayAlways == Spec => []RelayIInv
<1>1. Init => RelayIInv
  BY RelayStarts
<1>2. RelayIInv /\ [Next]_vars => RelayIInv'
  BY RelayNextKeeps
<1>3. QED BY <1>1, <1>2, PTL DEF Spec
------------------------------------------------------------------------------
(* LocalRelay: the properties *)

\* A server that has all of what was sealed opens the address and the bytes.
LEMMA OpensAll ==
    ASSUME NEW W, NEW E, NEW h, NEW R \in Nat, R >= 4, E # <<>>,
           Sealed(W, E, "own", Password, Addressed(h)), EndOf(E, Len(E)) = R - 3
    PROVE  LET o == Opened(W)
           IN  o.err = "OK" /\ o.ctx.chunk = <<>> /\ Head(o.buf) = h /\ Tail(o.buf) = Bytes(R - 4)
<1> DEFINE r == Opened(W)
           x == aead_ctx_init("none")
           A == Addressed(h)
           z == "own"
           H == Len(W)
           o == 0
           n == R - 4
           one == 1
           none == <<>>
<1>0. Sealed(W, E, z, Password, A) /\ Increasing(E) /\ IsSeq(W) /\ H = Off(E, Len(E)) /\ H \in Nat
  BY DEF Sealed, IsSeq
<1>1. /\ Len(E) \in Nat /\ \A k \in 0..Len(E) : EndOf(E, k) \in Nat /\ Off(E, k) \in Nat /\ Off(E, k) >= 1
      /\ \A a, b \in 0..Len(E) : a <= b => Off(E, b) >= Off(E, a) + 3 * (b - a)
  BY <1>0, Offsets
<1>2. /\ o \in Nat /\ o < H /\ H <= H /\ n \in Nat /\ one \in Nat /\ o + one = one /\ one + n = R - 3
      /\ n = R - 4 /\ H > 1
  BY <1>0, <1>1 DEF Off
<1>3. Reads(x, none, W, E, z, Password, A, o)
  <2>1. Cut(W, o, o) = <<>> /\ Cut(W, 0, o) = <<>>
    BY CutEnds
  <2>2. x.init = 0 /\ x.chunk = <<>> /\ IsContext(x)
    BY DEF aead_ctx_init, IsContext
  <2> HIDE DEF x
  <2>3. QED BY <2>1, <2>2 DEF Reads
<1>4. r = aead_decrypt(Cut(W, o, H), x, ppbloom_init)
  <2>1. Cut(W, o, H) = W
    BY <1>0, AllUnits DEF Cut
  <2>2. QED BY <2>1 DEF Opened
<1> HIDE DEF x, A, z, H, o, r, n, one, none
<1>5. Outcome(r, x.init, none, W, E, z, Password, A, H, ppbloom_init)
  <2>1. o \in Nat /\ H \in Nat /\ o < H /\ H <= Len(W)
    BY <1>0, <1>2 DEF H
  <2>2. Outcome(aead_decrypt(Cut(W, o, H), x, ppbloom_init), x.init, none, W, E, z, Password, A, H, ppbloom_init)
    BY ONLY <1>0, <1>3, <2>1, DecryptOutcome
  <2>3. QED BY <1>4, <2>2
<1>6. /\ r.err = (IF r.buf = <<>> THEN "NEED_MORE" ELSE "OK") /\ IsSeq(r.buf)
      /\ Reads(r.ctx, none \o r.buf, W, E, z, Password, A, H)
  BY <1>5, FilterEmpty DEF Outcome
<1>7. PICK j \in 0..Len(E) :
          /\ Stands(r.ctx, W, E, z, j, H) /\ Off(E, j) <= H /\ none \o r.buf = Part(A, 0, EndOf(E, j))
          /\ j = Len(E) \/ H < Off(E, j + 1)
  <2>1. ~(H <= 1)
    BY <1>0, <1>2
  <2>2. QED BY <1>6, <2>1, Zenon DEF Reads
<1>8. j = Len(E)
  <2> SUFFICES ASSUME j # Len(E) PROVE FALSE
    OBVIOUS
  <2>1. j + 1 \in 0..Len(E) /\ Len(E) \in 0..Len(E) /\ j + 1 <= Len(E)
    BY <1>1
  <2>2. Off(E, Len(E)) >= Off(E, j + 1) + 3 * (Len(E) - (j + 1)) /\ Off(E, j + 1) \in Nat
    BY <1>1, <2>1
  <2>3. QED BY <1>0, <1>1, <1>7, <2>1, <2>2
<1>9. r.ctx.chunk = <<>>
  <2>1. r.ctx.chunk = Cut(W, H, H)
    BY <1>0, <1>7, <1>8 DEF Stands
  <2>2. QED BY <1>0, <2>1, CutEnds
<1>10. r.buf = <<h>> \o Bytes(n)
  <2>1. r.buf = Part(A, o, one + n)
    <3>1. none \o r.buf = r.buf
      BY <1>6, ConcatNone DEF none
    <3>2. EndOf(E, j) = one + n
      BY <1>2, <1>8
    <3>3. none \o r.buf = Part(A, o, EndOf(E, j))
      BY <1>7 DEF o
    <3>4. QED BY ONLY <3>1, <3>2, <3>3
  <2>2. Part(A, o, one) \o Part(A, o + one, n) = Part(A, o, one + n)
    <3>1. o \in Nat /\ one \in Nat /\ n \in Nat
      BY <1>2
    <3>2. QED BY ONLY <3>1, PartJoin
  <2>3. Part(A, o, one) = <<h>> /\ Part(A, o + one, n) = Part(Plains, o, n)
    BY <1>2, AddressedPart DEF A, o, one
  <2>4. Bytes(n) = Part(Plains, 0, n)
    BY <1>2, BytesPart
  <2>5. QED BY <2>1, <2>2, <2>3, <2>4 DEF o
<1>11. /\ IsSeq(Bytes(n)) /\ Len(Bytes(n)) = n
  BY <1>2, BytesPart
<1>12. /\ Len(r.buf) = 1 + n /\ r.buf[1] = h /\ \A i \in 1..n : r.buf[1 + i] = Bytes(n)[i]
  <2> DEFINE q == <<h>>  p == Bytes(n)
  <2>1. IsSeq(q) /\ Len(q) = 1 /\ q[1] = h
    BY SingleIsSeq
  <2>2. IsSeq(p) /\ Len(p) = n /\ r.buf = q \o p
    BY <1>10, <1>11
  <2> HIDE DEF p, q
  <2>3. /\ Len(q \o p) = Len(q) + Len(p) /\ \A i \in 1..Len(q) : (q \o p)[i] = q[i]
        /\ \A i \in 1..Len(p) : (q \o p)[Len(q) + i] = p[i]
    <3>1. IsSeq(q) /\ IsSeq(p)
      BY <2>1, <2>2
    <3>2. QED BY ONLY <3>1, ConcatSeq
  <2>4. QED BY <1>2, <2>1, <2>2, <2>3 DEF p
<1>13. r.buf # <<>>
  BY <1>2, <1>12, EmptyIsSeq
<1>14. Head(r.buf) = h /\ Tail(r.buf) = Bytes(n)
  <2> DEFINE b == r.buf  S == Values(r.buf)  p == Bytes(n)
  <2>1. b \in Seq(S) /\ b # <<>>
    BY <1>6, <1>13, SeqOfValues
  <2>2. Len(b) = 1 + n /\ b[1] = h /\ IsSeq(p) /\ Len(p) = n /\ \A i \in 1..n : b[1 + i] = p[i]
    BY <1>11, <1>12
  <2> HIDE DEF b, S, p
  <2>3. Head(b) = b[1] /\ Tail(b) \in Seq(S) /\ Len(Tail(b)) = n /\ \A i \in 1..n : Tail(b)[i] = b[1 + i]
    BY <1>2, <2>1, <2>2
  <2>4. IsSeq(Tail(b))
    BY <2>3, SeqIsSeq
  <2>5. Tail(b) = p
    <3>1. Len(Tail(b)) = Len(p) /\ \A i \in 1..Len(Tail(b)) : Tail(b)[i] = p[i]
      BY <2>2, <2>3
    <3>2. QED BY <2>2, <2>4, <3>1, SameSeq
  <2>6. QED BY <2>2, <2>3, <2>5 DEF b, p
<1>15. r.err = "OK"
  BY <1>6, <1>13
<1>16. QED BY <1>9, <1>14, <1>15 DEF r, n

\* The bytes that came are those of the chunks that are complete.
LEMMA GotChunks ==
    ASSUME RelayIInv, NEW q, Got(c, q, remote.read), c.remote \in {"direct", "proxied"},
           remote.pos <= DownChunks, remote.read <= Units(c.remote, remote.pos)
    PROVE  \E j \in 0..DownChunks :
               /\ q = Bytes(j) /\ UnitsOf(j) <= remote.read
               /\ \A k \in 0..DownChunks : UnitsOf(k) <= remote.read => k <= j
<1>1. DownChunks \in Nat /\ remote.read \in Nat /\ remote.pos \in Nat
  BY LocalRelayAssumption DEF RelayIInv, Sockets
<1>2. CASE c.remote = "direct"
  <2>1. q = Bytes(remote.read) /\ remote.read \in 0..DownChunks
    BY <1>1, <1>2 DEF Got, Units
  <2>2. \A k : UnitsOf(k) = k
    BY <1>2 DEF UnitsOf
  <2>3. QED BY <1>1, <2>1, <2>2
<1>3. CASE c.remote # "direct"
  <2>1. Reads(c.d_ctx, q, SealedAnswer, Ends(DownChunks), "peer", Password, Plains, remote.read)
    BY <1>3 DEF Got
  <2>2. PICK j \in 0..DownChunks :
               /\ q = Bytes(j) /\ Units("proxied", j) <= remote.read
               /\ j = DownChunks \/ remote.read < Units("proxied", j + 1)
    BY <1>1, <2>1, ReadsChunks
  <2>3. UnitsOf(j) <= remote.read
    BY <1>1, <1>3, <2>2, UnitsOfUnits DEF Units
  <2>4. ASSUME NEW k \in 0..DownChunks, UnitsOf(k) <= remote.read PROVE k <= j
    <3>1. k \in Nat /\ j \in Nat /\ (k = 0 \/ 1 + 3 * k <= remote.read)
      BY <1>1, <1>3, <2>4, UnitsOfUnits
    <3>2. j = DownChunks \/ remote.read < 1 + 3 * (j + 1)
      BY <1>1, <2>2 DEF Units
    <3>3. QED BY <1>1, <2>4, <3>1, <3>2
  <2>5. QED BY <2>2, <2>3, <2>4
<1>4. QED BY <1>2, <1>3

\* A connection in the state of the relay relays.
LEMMA StreamRelays ==
    ASSUME RelayIInv, c.stage = "STAGE_STREAM"
    PROVE  /\ Relaying(c, client.read, remote.read) /\ env.cmd = "connect"
           /\ remote.pos <= DownChunks /\ remote.read <= Units(c.remote, remote.pos)
           /\ client.read \in Nat /\ client.read >= 4 /\ remote.read \in Nat /\ remote.pos \in Nat
           /\ c.remote \in {"direct", "proxied"} /\ c.why = "open"
<1>1. ~Early(c, client.read, env.cmd) /\ ~Gone(c, c.why)
  BY DEF Early, Fed, Gone
<1>2. /\ Relaying(c, client.read, remote.read) /\ env.cmd = "connect"
      /\ remote.pos <= DownChunks /\ remote.read <= Units(c.remote, remote.pos)
  BY <1>1 DEF RelayIInv
<1>3. QED BY <1>2 DEF Relaying, Shape, RelayIInv, Sockets

\* The invariant gives the types.
LEMMA RelayTyped ==
    ASSUME RelayIInv
    PROVE  TypeOK
<1>1. net \in {"idle", "pending", "up", "refused"}
  BY DEF RelayIInv, Sockets
<1>2. CASE Early(c, client.read, env.cmd)
  <2>1. Fresh(c) /\ c.stage \in {"none", "STAGE_INIT", "STAGE_HANDSHAKE", "STAGE_SNI"} /\ c.buf.len <= BufSize
    BY <1>2, LocalRelayAssumption DEF Early, Fed, Empty
  <2>2. /\ c.on \subseteq {"server_recv", "delayed_connect"} /\ c.remote = "null"
    BY <2>1 DEF Fresh
  <2>3. QED BY <1>1, <2>1, <2>2 DEF TypeOK, Watchers
<1>3. CASE Relaying(c, client.read, remote.read)
  BY <1>1, <1>3 DEF Relaying, Shape, UpSide, DownSide, TypeOK
<1>4. CASE Gone(c, c.why)
  BY <1>1, <1>4, LocalRelayAssumption DEF Gone, Empty, TypeOK
<1>5. QED BY <1>2, <1>3, <1>4 DEF RelayIInv

\* The invariant gives that what goes up is conserved.
LEMMA RelayUpstream ==
    ASSUME RelayIInv
    PROVE  UpstreamConserved
<1> SUFFICES ASSUME c.stage = "STAGE_STREAM"
             PROVE  IF c.remote = "direct" THEN c.up \o Pending(c.rbuf) = Payload
                    ELSE LET o == Opened(c.up \o Pending(c.abuf) \o Pending(c.rbuf))
                         IN  /\ o.err = "OK" /\ o.ctx.chunk = <<>>
                             /\ Head(o.buf) \in {Socks("addr"), Socks("host")} /\ Tail(o.buf) = Payload
  BY DEF UpstreamConserved
<1> DEFINE R == client.read
<1>1. R \in Nat /\ R >= 4 /\ Upstream(c, Pending(c.rbuf), R)
  BY StreamRelays DEF Relaying, UpSide
<1>2. Payload = Bytes(R - 4)
  BY ClientUnits DEF Payload
<1> HIDE DEF R
<1>3. CASE c.remote = "direct"
  BY <1>1, <1>2, <1>3 DEF Upstream
<1>4. CASE c.remote # "direct"
  <2> DEFINE W == c.up \o Pending(c.abuf) \o Pending(c.rbuf)
             o == Opened(W)
  <2>1. PICK E, h : /\ h \in {Socks("addr"), Socks("host")} /\ E # <<>>
                    /\ Sealed(W, E, "own", Password, Addressed(h)) /\ EndOf(E, Len(E)) = R - 3
    BY <1>1, <1>4 DEF Upstream
  <2> HIDE DEF W
  <2>2. o.err = "OK" /\ o.ctx.chunk = <<>> /\ Head(o.buf) = h /\ Tail(o.buf) = Bytes(R - 4)
    BY <1>1, <2>1, OpensAll
  <2>3. QED BY <1>2, <1>4, <2>1, <2>2 DEF W
<1>5. QED BY <1>3, <1>4

\* The invariant gives that what comes down is conserved.
LEMMA RelayDownstream ==
    ASSUME RelayIInv
    PROVE  DownstreamConserved
<1> DEFINE chunks == {n \in 0..DownChunks : UnitsOf(n) <= remote.read}
           n == CHOOSE m \in chunks : \A k \in chunks : k <= m
           tail == IF "server_send" \in c.on THEN Pending(c.buf) ELSE <<>>
<1> SUFFICES ASSUME c.stage = "STAGE_STREAM" PROVE c.down \o tail = Replies \o Bytes(n)
  BY DEF DownstreamConserved, Replies
<1>1. Downstream(c, tail, remote.read)
  BY StreamRelays DEF Relaying, DownSide
<1> HIDE DEF tail
<1>2. PICK q : Got(c, q, remote.read) /\ c.down \o tail = Replies \o q
  BY <1>1 DEF Downstream
<1>3. PICK j \in 0..DownChunks :
          /\ q = Bytes(j) /\ UnitsOf(j) <= remote.read
          /\ \A k \in 0..DownChunks : UnitsOf(k) <= remote.read => k <= j
  BY <1>2, StreamRelays, GotChunks
<1>4. j \in chunks /\ \A k \in chunks : k <= j
  BY <1>3
<1>5. \A k \in chunks : k \in Int
  OBVIOUS
<1> HIDE DEF chunks
<1>6. n \in chunks /\ \A k \in chunks : k <= n
  BY <1>4
<1> HIDE DEF n
<1>7. n = j
  BY <1>4, <1>5, <1>6
<1>8. QED BY <1>2, <1>3, <1>7

\* In every state of a connection of ss-local, for every length of buffer and
\* stream: both streams are conserved, counted and typed, no client that is
\* still there is taken for closed, and no connection is given up for nothing.
THEOREM RelayCorrect == Spec => []RelayInv
<1>1. ASSUME RelayIInv PROVE RelayInv
  <2>1. TypeOK /\ UpstreamConserved /\ DownstreamConserved
    BY <1>1, RelayTyped, RelayUpstream, RelayDownstream
  <2>2. TrafficCounted
    <3> SUFFICES ASSUME c.stage = "STAGE_STREAM"
                 PROVE  IF c.remote = "direct" THEN c.tx = 0 /\ c.rx = 0
                        ELSE c.tx = Len(Payload) /\ c.rx = remote.read
      BY DEF TrafficCounted
    <3>1. /\ Upstream(c, Pending(c.rbuf), client.read) /\ client.read \in Nat /\ client.read >= 4
          /\ \E tail : Downstream(c, tail, remote.read)
      BY <1>1, StreamRelays DEF Relaying, UpSide, DownSide
    <3>2. Len(Payload) = client.read - 4
      <4>1. client.read - 4 \in Nat
        BY <3>1
      <4>2. QED BY <4>1, ClientUnits, BytesPart DEF Payload
    <3>3. \E q : Got(c, q, remote.read)
      BY <3>1 DEF Downstream
    <3>4. QED BY <3>1, <3>2, <3>3 DEF Upstream, Got
  <2>3. \/ c.why = "open"
        \/ c.why \in Faults \cup {"client_eof", "remote_eof"} /\ NoFalseEnd
    BY <1>1 DEF RelayIInv, Early, Fed, Fresh, Relaying, Shape
  <2>4. NoFalseEnd
    BY <2>3 DEF NoFalseEnd
  <2>5. NeverClosedForNothing
    BY <2>3 DEF NeverClosedForNothing, Faults
  <2>6. QED BY <2>1, <2>2, <2>4, <2>5 DEF RelayInv
<1>2. QED BY <1>1, RelayAlways, PTL

\* Only the two ends of a stream close a connection for an end of a stream.
LEMMA OthersCarry ==
    ASSUME RelayIInv, [Next]_vars, ~ServerRecvEnd, ~RemoteRecvEnd, c.stage # "freed"
    PROVE  c'.why \in Faults \cup {"open"}
<1>1. CASE ClientWrite \/ ClientEnd \/ RemoteWrite \/ RemoteEnd \/ Established \/ UNCHANGED vars
  <2>1. c' = c
    BY <1>1 DEF ClientWrite, ClientEnd, RemoteWrite, RemoteEnd, Established, vars
  <2>2. c.why = "open"
    BY DEF RelayIInv, Early, Fed, Fresh, Relaying, Shape, Gone
  <2>3. QED BY <2>1, <2>2
<1>2. CASE accept_cb
  BY <1>2, StepAccept DEF Carries
<1>3. CASE server_recv_cb
  BY <1>3, StepServerRecv DEF Carries
<1>4. CASE ServerRecvFails
  BY <1>4, StepServerRecvFails DEF Carries
<1>5. CASE delayed_connect_cb
  BY <1>5, StepDelayedConnect DEF Carries
<1>6. CASE server_send_cb
  BY <1>6, StepServerSend DEF Carries
<1>7. CASE remote_timeout_cb \/ free_connections
  <2>1. /\ UNCHANGED <<env, client, remote>>
        /\ \E y \in {"timeout", "signal"} : Becomes(Close(c, y))
    BY <1>7 DEF remote_timeout_cb, free_connections
  <2>2. DOMAIN c = ConnFields
    BY WatchersOn
  <2>3. QED BY <2>1, <2>2, StepCloses DEF Carries, Faults
<1>8. CASE remote_recv_cb
  BY <1>8, StepRemoteRecv DEF Carries
<1>9. CASE remote_send_cb
  BY <1>9, StepRemoteSend DEF Carries
<1>10. QED
  BY <1>1, <1>2, <1>3, <1>4, <1>5, <1>6, <1>7, <1>8, <1>9, Zenon DEF Next, Callbacks

\* The client has got all that the other side wrote when remote_recv_cb finds
\* the end of its stream.
LEMMA AllDelivered ==
    ASSUME RelayIInv, "remote_recv" \in c.on, remote.read = UnitsOf(remote.pos)
    PROVE  Len(c.down) = 2 + remote.pos
<1>1. Relaying(c, client.read, remote.read)
  BY WatchersOn
<1>2. c.stage = "STAGE_STREAM"
  BY <1>1 DEF Relaying, Shape
<1>3. /\ remote.pos <= DownChunks /\ remote.read <= Units(c.remote, remote.pos)
      /\ remote.read \in Nat /\ remote.pos \in Nat /\ c.remote \in {"direct", "proxied"}
  BY <1>2, StreamRelays
<1>4. Downstream(c, <<>>, remote.read) /\ IsSeq(c.down)
  BY <1>1 DEF Relaying, DownSide
<1>5. PICK q : Got(c, q, remote.read) /\ c.down \o <<>> = Replies \o q
  BY <1>4 DEF Downstream
<1>6. PICK j \in 0..DownChunks :
          /\ q = Bytes(j) /\ UnitsOf(j) <= remote.read
          /\ \A k \in 0..DownChunks : UnitsOf(k) <= remote.read => k <= j
  BY <1>3, <1>5, GotChunks
<1>7. DownChunks \in Nat /\ j \in Nat
  BY LocalRelayAssumption
<1>8. j = remote.pos
  <2>1. remote.pos \in 0..DownChunks /\ UnitsOf(remote.pos) <= remote.read
    BY <1>3, <1>7
  <2>2. remote.pos <= j
    BY <1>6, <2>1
  <2>3. UnitsOf(j) <= UnitsOf(remote.pos)
    BY <1>6
  <2>4. j <= remote.pos
    BY <1>3, <1>7, <2>3, UnitsOfUnits
  <2>5. QED BY <1>3, <1>7, <2>2, <2>4
<1>9. c.down = Replies \o q
  BY <1>4, <1>5, ConcatNone
<1>10. IsSeq(q) /\ Len(q) = remote.pos
  BY <1>6, <1>7, <1>8, BytesPart
<1>11. IsSeq(Replies) /\ Len(Replies) = 2
  <2>1. Replies \in Seq({Socks("method"), Socks("reply")}) /\ Len(Replies) = 2
    BY DEF Replies
  <2>2. QED BY <2>1, SeqIsSeq
<1>12. Len(Replies \o q) = Len(Replies) + Len(q)
  BY ONLY <1>10, <1>11, ConcatSeq
<1>13. QED BY <1>9, <1>10, <1>11, <1>12

\* The end of either stream closes the connection behind the data before it, for
\* every length of buffer and stream: server_recv_cb ends a relay only after all
\* the client wrote was handed to the other side, and remote_recv_cb ends one
\* only after the client was given every byte of the other side.
THEOREM RelayEnds == Spec => EndAfterData
<1>1. ASSUME RelayIInv, [Next]_vars, c.stage = "STAGE_STREAM", c'.why = "client_eof"
      PROVE  client.fin /\ client.read = client.pos /\ Pending(c.rbuf) = <<>>
  <2>1. DOMAIN c = ConnFields /\ c.stage # "freed" /\ env.cmd = "connect"
    BY <1>1, StreamRelays DEF Relaying, Shape
  <2>2. ServerRecvEnd
    <3>1. CASE ~ServerRecvEnd /\ ~RemoteRecvEnd
      BY <1>1, <2>1, <3>1, OthersCarry DEF Faults
    <3>2. CASE RemoteRecvEnd
      <4>1. Becomes(Close(c, "remote_eof")) \/ Becomes(Close(c, "error"))
        BY <3>2 DEF RemoteRecvEnd
      <4>2. Gone(c', "remote_eof") \/ Gone(c', "error")
        BY <2>1, <4>1, CloseFrees DEF Becomes
      <4>3. QED BY <1>1, <4>2 DEF Gone
    <3>3. QED BY <3>1, <3>2
  <2>3. /\ "server_recv" \in c.on
        /\ \/ client.fin /\ client.read = client.pos
           \/ client.read < client.pos /\ ServerBuf.len >= BufSize
    BY <2>2 DEF ServerRecvEnd
  <2>4. /\ c.rbuf.len = 0 /\ c.rbuf.idx \in Nat /\ c.remote # "null"
    BY <1>1, <2>3, StreamRelays DEF Relaying, UpSide
  <2>5. ~(ServerBuf.len >= BufSize)
    BY <2>4, LocalRelayAssumption DEF ServerBuf
  <2>6. Pending(c.rbuf) = <<>>
    BY <2>4, NoUnits DEF Pending
  <2>7. QED BY <2>3, <2>5, <2>6
<1>2. ASSUME RelayIInv, [Next]_vars, ~Freed, c'.why = "remote_eof"
      PROVE  Len(c.down) = 2 + remote.pos
  <2>1. c.stage # "freed" /\ DOMAIN c = ConnFields
    BY <1>2, WatchersOn DEF Freed
  <2>2. RemoteRecvEnd
    <3>1. CASE ~ServerRecvEnd /\ ~RemoteRecvEnd
      BY <1>2, <2>1, <3>1, OthersCarry DEF Faults
    <3>2. CASE ServerRecvEnd
      <4>1. Becomes(Close(c, "client_eof"))
        BY <3>2 DEF ServerRecvEnd
      <4>2. Gone(c', "client_eof")
        BY <2>1, <4>1, CloseFrees DEF Becomes
      <4>3. QED BY <1>2, <4>2 DEF Gone
    <3>3. QED BY <3>1, <3>2
  <2>3. \/ remote.read = UnitsOf(remote.pos)
        \/ Becomes(Close(c, "error"))
    BY <2>2 DEF RemoteRecvEnd
  <2>4. ~Becomes(Close(c, "error"))
    <3> SUFFICES ASSUME Becomes(Close(c, "error")) PROVE FALSE
      OBVIOUS
    <3>1. Gone(c', "error")
      BY <2>1, CloseFrees DEF Becomes
    <3>2. QED BY <1>2, <3>1 DEF Gone
  <2>5. "remote_recv" \in c.on
    BY <2>2 DEF RemoteRecvEnd
  <2>6. QED BY <1>2, <2>3, <2>4, <2>5, AllDelivered
<1>3. RelayIInv /\ [Next]_vars =>
          [c.stage = "STAGE_STREAM" /\ c'.why = "client_eof" =>
               client.fin /\ client.read = client.pos /\ Pending(c.rbuf) = <<>>]_vars
  BY <1>1
<1>4. RelayIInv /\ [Next]_vars =>
          [~Freed /\ c'.why = "remote_eof" => Len(c.down) = 2 + remote.pos]_vars
  BY <1>2
<1>5. Spec => ClientEndAfterData
  BY <1>3, RelayAlways, PTL DEF Spec, ClientEndAfterData
<1>6. Spec => RemoteEndAfterData
  BY <1>4, RelayAlways, PTL DEF Spec, RemoteEndAfterData
<1>7. QED BY <1>5, <1>6 DEF EndAfterData
==============================================================================
