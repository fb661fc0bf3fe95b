----------------------------- MODULE DataProofs -----------------------------
(***************************************************************************)
(* Lemmas that several modules of proofs need, for numbers and sequences   *)
(* of any length: least members of a set of numbers and induction over     *)
(* one, what FlattenSeq makes of one more part, the bytes in a buffer, and *)
(* what the parser reads out of the bytes of a head.                       *)
(***************************************************************************)
EXTENDS FrameHeader, SequencesExt, SequenceTheorems, WellFoundedInduction, TLAPS

-----------------------------------------------------------------------------
(* Numbers *)

LEMMA Least ==
  ASSUME NEW T, T \subseteq Nat, T # {}
  PROVE  \E m \in T : \A k \in T : m <= k
<1>1. PICK m \in T : \A k \in T : ~ (<<k, m>> \in OpToRel(<, Nat))
  BY WFMin, NatLessThanWellFounded
<1>2. \A k \in T : ~ (k < m)
  BY <1>1 DEF OpToRel
<1> QED
  BY <1>2

\* What holds of 0 and passes from a number to the next one holds of all.
LEMMA AllNumbers ==
  ASSUME NEW T, 0 \in T, \A n \in Nat : n \in T => n + 1 \in T
  PROVE  Nat \subseteq T
<1> SUFFICES ASSUME NEW x \in Nat \ T PROVE FALSE
  OBVIOUS
<1>1. PICK m \in Nat \ T : \A k \in Nat \ T : m <= k
  BY Least
<1>2. m # 0 /\ m - 1 \in Nat /\ ~ (m <= m - 1)
  BY <1>1
<1>3. m - 1 \in T
  BY <1>1, <1>2
<1> QED
  BY <1>1, <1>2, <1>3

\* A number in base 256: what is left when digits are taken off.
Base256(n, q1, q2, q3) ==
  /\ q1 \in Nat /\ q2 \in Nat /\ q3 \in Nat
  /\ n = (n % 256) + 256 * q1
  /\ n = (n % 256) + 256 * ((q1 % 256) + 256 * ((q2 % 256) + 256 * q3))

LEMMA Digits ==
  ASSUME NEW n \in Nat, NEW q1, NEW q2, NEW q3,
         q1 = n \div 256, q2 = q1 \div 256, q3 = q2 \div 256
  PROVE  Base256(n, q1, q2, q3)
<1>1. \A m \in Nat : m \div 256 \in Nat /\ m = (m % 256) + 256 * (m \div 256)
  OBVIOUS
<1>2. q1 \in Nat /\ q2 \in Nat /\ q3 \in Nat
  BY <1>1
<1>3. /\ n = (n % 256) + 256 * q1
      /\ q1 = (q1 % 256) + 256 * q2
      /\ q2 = (q2 % 256) + 256 * q3
  BY <1>1, <1>2
<1> DEFINE r0 == n % 256
           r1 == q1 % 256
           r2 == q2 % 256
<1>4. r0 \in Nat /\ r1 \in Nat /\ r2 \in Nat
  BY <1>2
<1>5. n = r0 + 256 * q1 /\ q1 = r1 + 256 * q2 /\ q2 = r2 + 256 * q3
  BY <1>3
<1> HIDE DEF r0, r1, r2
<1>6. n = r0 + 256 * (r1 + 256 * (r2 + 256 * q3))
  BY <1>2, <1>4, <1>5
<1> QED
  BY <1>2, <1>5, <1>6 DEF r0, r1, r2, Base256

-----------------------------------------------------------------------------
(* Parts of sequences *)

\* t goes on behind s.
Begins(s, t) == Len(s) <= Len(t) /\ \A i \in 1 .. Len(s) : t[i] = s[i]

LEMMA BeginsIsPrefix ==
  ASSUME NEW D, NEW s \in Seq(D), NEW t \in Seq(D)
  PROVE  Begins(s, t) <=> IsPrefix(s, t)
<1>1. \A i \in 1 .. Len(s) : SubSeq(s, 1, Len(s))[i] = s[i]
  OBVIOUS
<1>2. Len(s) <= Len(t) => \A i \in 1 .. Len(s) : SubSeq(t, 1, Len(s))[i] = t[i]
  OBVIOUS
<1>3. Begins(s, t) => IsPrefix(s, t)
  <2> SUFFICES ASSUME Begins(s, t) PROVE IsPrefix(s, t)
    OBVIOUS
  <2>1. s = SubSeq(t, 1, Len(s))
    BY <1>2, SubSeqProperties, SeqEqual DEF Begins
  <2> QED
    BY <2>1 DEF Begins, IsPrefix
<1>4. IsPrefix(s, t) => Begins(s, t)
  BY <1>1, <1>2 DEF Begins, IsPrefix
<1> QED
  BY <1>3, <1>4

LEMMA ConcatBegins ==
  ASSUME NEW D, NEW s \in Seq(D), NEW t \in Seq(D)
  PROVE  Begins(s, s \o t)
  BY ConcatProperties DEF Begins

LEMMA BeginsTransitive ==
  ASSUME NEW D, NEW s \in Seq(D), NEW t \in Seq(D), NEW u \in Seq(D),
         Begins(s, t), Begins(t, u)
  PROVE  Begins(s, u)
<1>1. Len(s) \in Nat /\ Len(t) \in Nat /\ Len(u) \in Nat
  OBVIOUS
<1> QED
  BY <1>1 DEF Begins

\* A sequence is its first k elements and the rest.
LEMMA CutInTwo ==
  ASSUME NEW D, NEW s \in Seq(D), NEW k \in 0 .. Len(s)
  PROVE  /\ SubSeq(s, 1, k) \in Seq(D) /\ Len(SubSeq(s, 1, k)) = k
         /\ SubSeq(s, k + 1, Len(s)) \in Seq(D)
         /\ Len(SubSeq(s, k + 1, Len(s))) = Len(s) - k
         /\ \A i \in 1 .. k : SubSeq(s, 1, k)[i] = s[i]
         /\ \A i \in 1 .. Len(s) - k : SubSeq(s, k + 1, Len(s))[i] = s[k + i]
         /\ s = SubSeq(s, 1, k) \o SubSeq(s, k + 1, Len(s))
<1>1. /\ Len(s) \in Nat /\ k \in Nat /\ k + 1 \in Int /\ 1 \in Int
      /\ \A i \in 1 .. Len(s) : s[i] \in D
  OBVIOUS
<1>2. /\ SubSeq(s, 1, k) \in Seq(D) /\ Len(SubSeq(s, 1, k)) = k
      /\ \A i \in 1 .. k : SubSeq(s, 1, k)[i] = s[i]
  OBVIOUS
<1>3. /\ SubSeq(s, k + 1, Len(s)) \in Seq(D)
      /\ Len(SubSeq(s, k + 1, Len(s))) = Len(s) - k
      /\ \A i \in 1 .. Len(s) - k : SubSeq(s, k + 1, Len(s))[i] = s[k + i]
  OBVIOUS
<1> DEFINE a == SubSeq(s, 1, k)
           b == SubSeq(s, k + 1, Len(s))
<1> HIDE DEF a, b
<1>4. /\ a \in Seq(D) /\ Len(a) = k /\ \A i \in 1 .. k : a[i] = s[i]
      /\ b \in Seq(D) /\ Len(b) = Len(s) - k
      /\ \A i \in 1 .. Len(s) - k : b[i] = s[k + i]
  BY <1>2, <1>3 DEF a, b
<1>5. /\ a \o b \in Seq(D) /\ Len(a \o b) = Len(s)
      /\ \A i \in 1 .. Len(s) :
           (a \o b)[i] = IF i <= k THEN a[i] ELSE b[i - k]
  <2>1. /\ a \o b \in Seq(D) /\ Len(a \o b) = Len(a) + Len(b)
        /\ \A i \in 1 .. Len(a) + Len(b) :
             (a \o b)[i] = IF i <= Len(a) THEN a[i] ELSE b[i - Len(a)]
    BY <1>4, ConcatProperties
  <2>2. Len(a) + Len(b) = Len(s)
    BY <1>1, <1>4
  <2> QED
    BY <1>4, <2>1, <2>2
<1>6. \A i \in 1 .. Len(s) : (a \o b)[i] = s[i]
  <2> TAKE i \in 1 .. Len(s)
  <2>1. CASE i <= k
    BY <1>1, <1>4, <1>5, <2>1
  <2>2. CASE ~(i <= k)
    <3>1. i - k \in 1 .. Len(s) - k /\ k + (i - k) = i
      BY <1>1, <2>2
    <3> QED
      BY <1>4, <1>5, <2>2, <3>1
  <2> QED
    BY <2>1, <2>2
<1>7. a \o b = s
  BY <1>5, <1>6, SeqEqual
<1> QED
  BY <1>2, <1>3, <1>7 DEF a, b

-----------------------------------------------------------------------------
(* FlattenSeq *)

\* f[i] is the first i parts of ss, one behind the other.
Flat(f, ss, n) ==
  f = [i \in 1 .. n |-> IF i = 1 THEN ss[i] ELSE f[i - 1] \o ss[i]]

LEMMA FlatAt ==
  ASSUME NEW ss, NEW n, NEW f, Flat(f, ss, n), NEW i \in 1 .. n
  PROVE  f[i] = IF i = 1 THEN ss[i] ELSE f[i - 1] \o ss[i]
  BY DEF Flat

LEMMA FlatExists ==
  ASSUME NEW ss, NEW n \in Nat
  PROVE  \E f : Flat(f, ss, n)
<1> DEFINE T == {m \in Nat : \E f : Flat(f, ss, m)}
<1>1. 0 \in T
  <2>1. Flat([i \in 1 .. 0 |-> 0], ss, 0)
    BY DEF Flat
  <2> QED
    BY <2>1
<1>2. ASSUME NEW m \in Nat, m \in T PROVE m + 1 \in T
  <2>1. PICK f : Flat(f, ss, m)
    BY <1>2
  <2> DEFINE g == [i \in 1 .. m + 1 |->
                     IF i = m + 1 THEN (IF i = 1 THEN ss[i] ELSE f[m] \o ss[i])
                     ELSE f[i]]
  <2>2. \A i \in 1 .. m : g[i] = f[i]
    OBVIOUS
  <2>3. \A i \in 1 .. m : f[i] = IF i = 1 THEN ss[i] ELSE f[i - 1] \o ss[i]
    BY <2>1 DEF Flat
  <2>4. \A i \in 1 .. m + 1 : g[i] = IF i = 1 THEN ss[i] ELSE g[i - 1] \o ss[i]
    <3> TAKE i \in 1 .. m + 1
    <3>1. CASE i = m + 1
      <4>1. i # 1 => g[i - 1] = f[m]
        BY <3>1, <2>2
      <4> QED
        BY <3>1, <4>1
    <3>2. CASE i # m + 1
      <4>1. i \in 1 .. m /\ (i # 1 => i - 1 \in 1 .. m)
        BY <3>2
      <4> QED
        BY <4>1, <2>2, <2>3
    <3> QED
      BY <3>1, <3>2
  <2>5. g = [i \in 1 .. m + 1 |-> g[i]]
    OBVIOUS
  <2> HIDE DEF g
  <2>6. Flat(g, ss, m + 1)
    BY <2>4, <2>5 DEF Flat
  <2> QED
    BY <2>6
<1> QED
  BY <1>1, <1>2, AllNumbers

Alike(f, g, n) == \A i \in 1 .. n : f[i] = g[i]

\* Parts that two sequences have in common are flattened alike.
LEMMA FlatAgrees ==
  ASSUME NEW ss, NEW tt, NEW n \in Nat, NEW m \in Nat, n <= m,
         Alike(ss, tt, n), NEW f, Flat(f, ss, n), NEW g, Flat(g, tt, m)
  PROVE  Alike(f, g, n)
<1> DEFINE T == {i \in 1 .. n : f[i] # g[i]}
<1> SUFFICES ASSUME T # {} PROVE FALSE
  BY DEF Alike
<1>1. PICK i \in T : \A k \in T : i <= k
  <2>1. T \subseteq Nat
    OBVIOUS
  <2> HIDE DEF T
  <2> QED
    BY <2>1, Least
<1>2. /\ \A j \in 1 .. n : f[j] = IF j = 1 THEN ss[j] ELSE f[j - 1] \o ss[j]
      /\ \A j \in 1 .. m : g[j] = IF j = 1 THEN tt[j] ELSE g[j - 1] \o tt[j]
  BY DEF Flat
<1>3. i \in 1 .. n /\ i \in 1 .. m /\ f[i] # g[i]
  OBVIOUS
<1>4. i # 1 => f[i - 1] = g[i - 1]
  <2>1. i # 1 => i - 1 \in 1 .. n /\ ~ (i <= i - 1)
    BY <1>3
  <2> QED
    BY <1>1, <2>1
<1> QED
  BY <1>2, <1>3, <1>4 DEF Alike

LEMMA FlattenIsFlat ==
  ASSUME NEW ss, Len(ss) \in Nat, Len(ss) # 0
  PROVE  \E f : Flat(f, ss, Len(ss)) /\ FlattenSeq(ss) = f[Len(ss)]
<1> DEFINE flatten[i \in 1 .. Len(ss)] ==
             IF i = 1 THEN ss[i] ELSE flatten[i - 1] \o ss[i]
<1>1. FlattenSeq(ss) = flatten[Len(ss)]
  BY DEF FlattenSeq
<1>2. \E f : f = [i \in 1 .. Len(ss) |-> IF i = 1 THEN ss[i] ELSE f[i - 1] \o ss[i]]
  BY FlatExists DEF Flat
<1>3. flatten = [i \in 1 .. Len(ss) |-> IF i = 1 THEN ss[i] ELSE flatten[i - 1] \o ss[i]]
  BY <1>2
<1> QED
  BY <1>1, <1>3 DEF Flat

LEMMA FlattenEmpty == FlattenSeq(<<>>) = <<>>
  BY DEF FlattenSeq

LEMMA FlattenAppend ==
  ASSUME NEW D, NEW ss \in Seq(Seq(D)), NEW x \in Seq(D)
  PROVE  FlattenSeq(Append(ss, x)) = FlattenSeq(ss) \o x
<1> DEFINE tt == Append(ss, x)
           n == Len(ss)
<1>1. /\ n \in Nat /\ Len(tt) = n + 1 /\ tt[n + 1] = x
      /\ Alike(ss, tt, n)
  BY DEF Alike
<1> HIDE DEF tt
<1>2. PICK g : Flat(g, tt, n + 1) /\ FlattenSeq(tt) = g[n + 1]
  BY <1>1, FlattenIsFlat
<1>3. g[n + 1] = IF n + 1 = 1 THEN tt[n + 1] ELSE g[n] \o tt[n + 1]
  <2>1. n + 1 \in 1 .. n + 1 /\ n + 1 - 1 = n
    BY <1>1
  <2>2. g[n + 1] = IF n + 1 = 1 THEN tt[n + 1] ELSE g[n + 1 - 1] \o tt[n + 1]
    BY <1>2, <2>1, FlatAt
  <2> QED
    BY <2>1, <2>2
<1>4. CASE n = 0
  <2>1. ss = <<>>
    BY <1>4
  <2> QED
    BY <1>1, <1>2, <1>3, <1>4, <2>1, FlattenEmpty DEF tt
<1>5. CASE n # 0
  <2>1. PICK f : Flat(f, ss, n) /\ FlattenSeq(ss) = f[n]
    BY <1>1, <1>5, FlattenIsFlat
  <2>2. f[n] = g[n]
    <3>1. n + 1 \in Nat /\ n <= n + 1 /\ n \in 1 .. n
      BY <1>1, <1>5
    <3> HIDE DEF n
    <3>2. Alike(f, g, n)
      BY <1>1, <1>2, <2>1, <3>1, FlatAgrees
    <3> QED
      BY <3>1, <3>2 DEF Alike
  <2> QED
    BY <1>1, <1>2, <1>3, <1>5, <2>1, <2>2 DEF tt
<1> QED
  BY <1>4, <1>5

LEMMA FlattenTyped ==
  ASSUME NEW D, NEW ss \in Seq(Seq(D))
  PROVE  FlattenSeq(ss) \in Seq(D)
<1>1. CASE ss = <<>>
  <2>1. <<>> \in Seq(D)
    OBVIOUS
  <2> QED
    BY <1>1, <2>1, FlattenEmpty
<1>2. CASE ss # <<>>
  <2>1. Len(ss) \in Nat /\ Len(ss) # 0 /\ \A i \in 1 .. Len(ss) : ss[i] \in Seq(D)
    BY <1>2
  <2>2. PICK f : Flat(f, ss, Len(ss)) /\ FlattenSeq(ss) = f[Len(ss)]
    BY <2>1, FlattenIsFlat
  <2> DEFINE T == {i \in 1 .. Len(ss) : f[i] \notin Seq(D)}
  <2> SUFFICES ASSUME T # {} PROVE FALSE
    BY <2>1, <2>2
  <2>3. PICK i \in T : \A k \in T : i <= k
    <3>1. T \subseteq Nat
      OBVIOUS
    <3> HIDE DEF T
    <3> QED
      BY <3>1, Least
  <2>4. i \in 1 .. Len(ss) /\ f[i] \notin Seq(D) /\ ss[i] \in Seq(D)
    BY <2>1
  <2>5. f[i] = IF i = 1 THEN ss[i] ELSE f[i - 1] \o ss[i]
    BY <2>2, <2>4, FlatAt
  <2>6. i # 1 => f[i - 1] \in Seq(D)
    <3>1. i # 1 => i - 1 \in 1 .. Len(ss) /\ ~ (i <= i - 1)
      BY <2>1, <2>4
    <3> QED
      BY <2>3, <3>1
  <2> QED
    BY <2>4, <2>5, <2>6
<1> QED
  BY <1>1, <1>2

\* The first parts, flattened, begin the whole.
LEMMA FlattenBegins ==
  ASSUME NEW D, NEW ss \in Seq(Seq(D)), NEW k \in 0 .. Len(ss)
  PROVE  Begins(FlattenSeq(SubSeq(ss, 1, k)), FlattenSeq(ss))
<1> DEFINE B(tt, j) == Begins(FlattenSeq(SubSeq(tt, 1, j)), FlattenSeq(tt))
           T == {n \in Nat : \A tt \in Seq(Seq(D)) :
                               Len(tt) = n => \A j \in 0 .. n : B(tt, j)}
<1>1. ASSUME NEW tt \in Seq(Seq(D)) PROVE B(tt, Len(tt))
  <2>1. SubSeq(tt, 1, Len(tt)) = tt
    BY SubSeqFull
  <2>2. Begins(FlattenSeq(tt), FlattenSeq(tt))
    BY FlattenTyped DEF Begins
  <2> QED
    BY <2>1, <2>2
<1>2. 0 \in T
  <2>1. \A tt \in Seq(Seq(D)) : Len(tt) = 0 => \A j \in 0 .. 0 : j = Len(tt)
    OBVIOUS
  <2> HIDE DEF B
  <2> QED
    BY <1>1, <2>1
<1>3. ASSUME NEW n \in Nat, n \in T PROVE n + 1 \in T
  <2> SUFFICES ASSUME NEW tt \in Seq(Seq(D)), Len(tt) = n + 1, NEW j \in 0 .. n + 1
               PROVE  B(tt, j)
    OBVIOUS
  <2>1. CASE j = n + 1
    <3> HIDE DEF B
    <3> QED
      BY <1>1, <2>1
  <2>2. CASE j # n + 1
    <3> DEFINE front == SubSeq(tt, 1, n)
    <3>1. front \in Seq(Seq(D)) /\ Len(front) = n /\ tt[n + 1] \in Seq(D)
      OBVIOUS
    <3>2. tt = Append(front, tt[n + 1])
      OBVIOUS
    <3>3. j \in 0 .. n /\ SubSeq(front, 1, j) = SubSeq(tt, 1, j)
      BY <2>2
    <3> HIDE DEF front
    <3>4. B(front, j)
      BY <1>3, <3>1, <3>3
    <3>5. FlattenSeq(tt) = FlattenSeq(front) \o tt[n + 1]
      BY <3>1, <3>2, FlattenAppend
    <3>6. Begins(FlattenSeq(front), FlattenSeq(tt))
      BY <3>1, <3>5, FlattenTyped, ConcatBegins
    <3>7. SubSeq(front, 1, j) \in Seq(Seq(D))
      BY <3>1, <3>3
    <3> QED
      BY <3>1, <3>3, <3>4, <3>6, <3>7, FlattenTyped, BeginsTransitive
  <2> QED
    BY <2>1, <2>2
<1> HIDE DEF T
<1>4. Nat \subseteq T
  BY <1>2, <1>3, AllNumbers
<1>5. Len(ss) \in T
  BY <1>4
<1> QED
  BY <1>5 DEF T

\* Where a part stands in the whole.
LEMMA FlattenAt ==
  ASSUME NEW D, NEW ss \in Seq(Seq(D)), NEW k \in 0 .. Len(ss) - 1
  PROVE  LET before == Len(FlattenSeq(SubSeq(ss, 1, k)))
             part   == ss[k + 1]
         IN  /\ before + Len(part) <= Len(FlattenSeq(ss))
             /\ \A i \in 1 .. Len(part) : FlattenSeq(ss)[before + i] = part[i]
<1> DEFINE rr == SubSeq(ss, 1, k)
           part == ss[k + 1]
<1>1. rr \in Seq(Seq(D)) /\ part \in Seq(D) /\ k + 1 \in 0 .. Len(ss)
  OBVIOUS
<1>2. SubSeq(ss, 1, k + 1) = Append(rr, part)
  OBVIOUS
<1> HIDE DEF rr, part
<1>3. Begins(FlattenSeq(rr) \o part, FlattenSeq(ss))
  BY <1>1, <1>2, FlattenBegins, FlattenAppend
<1>4. FlattenSeq(rr) \in Seq(D)
  BY <1>1, FlattenTyped
<1> DEFINE b == FlattenSeq(rr)
           w == FlattenSeq(ss)
<1> HIDE DEF b, w
<1>5. b \in Seq(D) /\ Begins(b \o part, w) /\ Len(b) \in Nat /\ Len(part) \in Nat
  BY <1>1, <1>3, <1>4 DEF b, w
<1>6. /\ Len(b \o part) = Len(b) + Len(part)
      /\ \A i \in 1 .. Len(b) + Len(part) :
           (b \o part)[i] = IF i <= Len(b) THEN b[i] ELSE part[i - Len(b)]
  BY <1>1, <1>5, ConcatProperties
<1>7. Len(b) + Len(part) <= Len(w)
  BY <1>5, <1>6 DEF Begins
<1>8. ASSUME NEW i \in 1 .. Len(part) PROVE w[Len(b) + i] = part[i]
  <2>1. /\ Len(b) + i \in 1 .. Len(b) + Len(part) /\ ~(Len(b) + i <= Len(b))
        /\ Len(b) + i - Len(b) = i
    BY <1>5
  <2>2. (b \o part)[Len(b) + i] = part[i]
    BY <1>6, <2>1
  <2> QED
    BY <1>5, <1>6, <2>1, <2>2 DEF Begins
<1> QED
  BY <1>7, <1>8 DEF b, w, rr, part

-----------------------------------------------------------------------------
(* The bytes that a reader has in its buffer *)

\* b is what was read last of the first g bytes of a.
Window(b, a, g) ==
  /\ b \in Seq(Octet) /\ g \in 0 .. Len(a) /\ Len(b) <= g
  /\ \A i \in 1 .. Len(b) : b[i] = a[(g - Len(b)) + i]

\* The stream takes more bytes.
LEMMA WindowStays ==
  ASSUME NEW b, NEW a \in Seq(Octet), NEW g, Window(b, a, g),
         NEW c \in Seq(Octet), Begins(a, c)
  PROVE  Window(b, c, g)
<1>1. Len(a) \in Nat /\ Len(c) \in Nat /\ Len(b) \in Nat /\ g \in 0 .. Len(a)
      /\ Len(b) <= g /\ Len(a) <= Len(c)
  BY DEF Window, Begins
<1>2. ASSUME NEW i \in 1 .. Len(b) PROVE b[i] = c[(g - Len(b)) + i]
  <2>1. (g - Len(b)) + i \in 1 .. Len(a)
    BY <1>1
  <2> QED
    BY <2>1 DEF Window, Begins
<1>3. g \in 0 .. Len(c)
  BY <1>1
<1> QED
  BY <1>1, <1>2, <1>3 DEF Window

\* The parser takes bytes out of the buffer.
LEMMA WindowTaken ==
  ASSUME NEW b, NEW a \in Seq(Octet), NEW g, Window(b, a, g), NEW k \in 0 .. Len(b)
  PROVE  LET c == SubSeq(b, k + 1, Len(b))
         IN  Window(c, a, g) /\ g - Len(c) = (g - Len(b)) + k
<1> DEFINE c == SubSeq(b, k + 1, Len(b))
<1>1. b \in Seq(Octet) /\ Len(b) \in Nat /\ g \in Nat /\ Len(b) <= g /\ k \in Nat
      /\ k <= Len(b) /\ g \in 0 .. Len(a)
  BY DEF Window
<1>2. /\ c \in Seq(Octet) /\ Len(c) = Len(b) - k
      /\ \A i \in 1 .. Len(b) - k : c[i] = b[k + i]
  BY <1>1, CutInTwo
<1> HIDE DEF c
<1>3. g - Len(c) = (g - Len(b)) + k /\ Len(c) <= g
  BY <1>1, <1>2
<1>4. ASSUME NEW i \in 1 .. Len(c) PROVE c[i] = a[(g - Len(c)) + i]
  <2>1. /\ i \in 1 .. Len(b) - k /\ k + i \in 1 .. Len(b)
        /\ (g - Len(b)) + (k + i) = (g - Len(c)) + i
    BY <1>1, <1>2, <1>3
  <2> QED
    BY <1>2, <2>1 DEF Window
<1> QED
  BY <1>1, <1>2, <1>3, <1>4 DEF Window, c

\* A chunk arrives.
LEMMA WindowGrows ==
  ASSUME NEW b, NEW a \in Seq(Octet), NEW g, Window(b, a, g), NEW m \in 1 .. Len(a) - g
  PROVE  LET c == b \o SubSeq(a, g + 1, g + m)
         IN  Window(c, a, g + m) /\ (g + m) - Len(c) = g - Len(b)
<1> DEFINE d == SubSeq(a, g + 1, g + m)
           c == b \o d
<1>1. /\ b \in Seq(Octet) /\ Len(b) \in Nat /\ g \in Nat /\ Len(b) <= g
      /\ Len(a) \in Nat /\ m \in Nat /\ g + m <= Len(a) /\ g + m \in 0 .. Len(a)
  BY DEF Window
<1>2. /\ d \in Seq(Octet) /\ Len(d) = m
      /\ \A i \in 1 .. m : d[i] = a[g + i]
  <2>1. g + 1 \in 1 .. Len(a) + 1 /\ g + m \in g .. Len(a)
    BY <1>1
  <2>2. \A i \in 1 .. Len(a) : a[i] \in Octet
    OBVIOUS
  <2>3. \A i \in g + 1 .. g + m : a[i] \in Octet
    BY <1>1, <2>2
  <2> QED
    BY <1>1, <2>1, <2>3, SubSeqProperties
<1> HIDE DEF d
<1>3. /\ c \in Seq(Octet) /\ Len(c) = Len(b) + m
      /\ \A i \in 1 .. Len(b) + m :
           c[i] = IF i <= Len(b) THEN b[i] ELSE d[i - Len(b)]
  BY <1>1, <1>2, ConcatProperties
<1> HIDE DEF c
<1>4. (g + m) - Len(c) = g - Len(b) /\ Len(c) <= g + m
  BY <1>1, <1>3
<1>5. ASSUME NEW i \in 1 .. Len(c) PROVE c[i] = a[((g + m) - Len(c)) + i]
  <2>1. i \in 1 .. Len(b) + m /\ i \in Nat
    BY <1>1, <1>3
  <2>2. CASE i <= Len(b)
    <3>1. c[i] = b[i] /\ i \in 1 .. Len(b)
      BY <1>3, <2>1, <2>2
    <3>2. b[i] = a[(g - Len(b)) + i]
      BY <3>1 DEF Window
    <3> QED
      BY <1>4, <3>1, <3>2
  <2>3. CASE ~(i <= Len(b))
    <3>1. i - Len(b) \in 1 .. m /\ g + (i - Len(b)) = (g - Len(b)) + i
      BY <1>1, <2>1, <2>3
    <3>2. c[i] = d[i - Len(b)]
      BY <1>3, <2>1, <2>3
    <3> QED
      BY <1>2, <1>4, <3>1, <3>2
  <2> QED
    BY <2>2, <2>3
<1> QED
  BY <1>1, <1>3, <1>4, <1>5 DEF Window, c, d

\* The buffer begins d bytes behind the start of part k + 1 of a stream.
StandsIn(b, a, g, ss, k, d) ==
  /\ a \in Seq(Octet) /\ Window(b, a, g)
  /\ ss \in Seq(Seq(Octet)) /\ k \in 0 .. Len(ss) - 1
  /\ Begins(a, FlattenSeq(ss)) /\ d \in Nat
  /\ g - Len(b) = Len(FlattenSeq(SubSeq(ss, 1, k))) + d

\* It goes on with that part.
LEMMA WindowShows ==
  ASSUME NEW b, NEW a, NEW g, NEW ss, NEW k, NEW d, StandsIn(b, a, g, ss, k, d)
  PROVE  \A i \in 1 .. Len(b) : d + i <= Len(ss[k + 1]) => b[i] = ss[k + 1][d + i]
<1> DEFINE before == Len(FlattenSeq(SubSeq(ss, 1, k)))
           part   == ss[k + 1]
           all    == FlattenSeq(ss)
<1>0. /\ a \in Seq(Octet) /\ Window(b, a, g)
      /\ ss \in Seq(Seq(Octet)) /\ k \in 0 .. Len(ss) - 1 /\ d \in Nat
  BY DEF StandsIn
<1>1. /\ before + Len(part) <= Len(all)
      /\ \A i \in 1 .. Len(part) : all[before + i] = part[i]
  BY <1>0, FlattenAt
<1>2. part \in Seq(Octet) /\ before \in Nat
  <2>1. SubSeq(ss, 1, k) \in Seq(Seq(Octet)) /\ k + 1 \in 1 .. Len(ss)
    BY <1>0
  <2>2. FlattenSeq(SubSeq(ss, 1, k)) \in Seq(Octet)
    BY <2>1, FlattenTyped
  <2> QED
    BY <1>0, <2>1, <2>2
<1>3. g - Len(b) = before + d /\ Begins(a, all)
  BY DEF StandsIn
<1> HIDE DEF before, part, all
<1>4. /\ Len(b) \in Nat /\ g \in Nat /\ g <= Len(a) /\ Len(a) \in Nat
      /\ Len(part) \in Nat /\ Len(b) <= g
  BY <1>0, <1>2 DEF Window
<1>5. ASSUME NEW i \in 1 .. Len(b), d + i <= Len(part) PROVE b[i] = part[d + i]
  <2>1. /\ d + i \in 1 .. Len(part) /\ before + (d + i) = (g - Len(b)) + i
        /\ (g - Len(b)) + i \in 1 .. Len(a)
    <3>1. i \in Nat /\ 1 <= i /\ i <= Len(b)
      BY <1>4
    <3>2. d + i \in 1 .. Len(part)
      BY <1>0, <1>4, <1>5, <3>1
    <3>3. before + (d + i) = (g - Len(b)) + i
      BY <1>0, <1>2, <1>3, <1>4, <3>1
    <3>4. (g - Len(b)) + i \in 1 .. Len(a)
      BY <1>4, <3>1
    <3> QED
      BY <3>2, <3>3, <3>4
  <2>2. b[i] = a[(g - Len(b)) + i]
    BY <1>0 DEF Window
  <2>3. a[(g - Len(b)) + i] = all[(g - Len(b)) + i]
    BY <1>3, <2>1 DEF Begins
  <2>4. all[before + (d + i)] = part[d + i]
    BY <1>1, <2>1
  <2> QED
    BY <2>1, <2>2, <2>3, <2>4
<1> QED
  BY <1>5 DEF part

-----------------------------------------------------------------------------
(* The head of a frame *)

\* Lengths that go into two bytes.
Short(len) == len < 65536

LEMMA MaxUsizeBytes ==
  /\ MaxUsize \in Nat
  /\ \A len \in 0 .. MaxUsize : ((len \div 256) \div 256) \div 256 \in 0 .. 127
<1>1. MaxUsize \in Nat /\ MaxUsize <= 2147483647
  BY SMT DEF MaxUsize
<1>2. ASSUME NEW len \in Nat, len <= 2147483647
      PROVE  ((len \div 256) \div 256) \div 256 \in 0 .. 127
  <2> DEFINE q1 == len \div 256
             q2 == q1 \div 256
             q3 == q2 \div 256
             r0 == len % 256
             r1 == q1 % 256
             r2 == q2 % 256
  <2>1. q1 = len \div 256 /\ q2 = q1 \div 256 /\ q3 = q2 \div 256
    OBVIOUS
  <2> HIDE DEF q1, q2, q3
  <2>2. Base256(len, q1, q2, q3)
    BY <2>1, Digits
  <2>3. r0 \in Nat /\ r1 \in Nat /\ r2 \in Nat /\ q3 \in Nat
    BY <2>2 DEF Base256
  <2>4. len = r0 + 256 * (r1 + 256 * (r2 + 256 * q3))
    BY <2>2 DEF Base256
  <2> HIDE DEF r0, r1, r2
  <2>5. q3 \in 0 .. 127
    BY <1>2, <2>3, <2>4, SMT
  <2> QED
    BY <2>5 DEF q1, q2, q3
<1>3. \A len \in 0 .. MaxUsize : len \in Nat /\ len <= 2147483647
  BY <1>1, SMT
<1> QED
  BY <1>1, <1>2, <1>3, SMT

LEMMA ShortBytes ==
  ASSUME NEW len \in Nat, Short(len)
  PROVE  (len \div 256) % 256 = len \div 256
  BY SMT DEF Short

LEMMA ByteOfTyped ==
  ASSUME NEW len \in Nat, NEW q1, NEW q2, NEW q3,
         q1 = len \div 256, q2 = q1 \div 256, q3 = q2 \div 256
  PROVE  /\ ByteOf(len, 0) = len % 256
         /\ ByteOf(len, 1) = q1 % 256
         /\ ByteOf(len, 2) = q2 % 256
         /\ ByteOf(len, 3) = q3 % 256
         /\ \A k \in 4 .. 7 : ByteOf(len, k) = 0
         /\ \A k \in 0 .. 7 : ByteOf(len, k) \in Octet
<1>1. /\ ByteOf(len, 0) = len % 256
      /\ ByteOf(len, 1) = q1 % 256
      /\ ByteOf(len, 2) = q2 % 256
      /\ ByteOf(len, 3) = q3 % 256
      /\ \A k \in 4 .. 7 : ByteOf(len, k) = 0
  BY DEF ByteOf
<1>2. \A m \in Nat : m % 256 \in Octet
  BY DEF Octet
<1>3. q1 \in Nat /\ q2 \in Nat /\ q3 \in Nat
  <2>1. Base256(len, q1, q2, q3)
    BY Digits
  <2> QED
    BY <2>1 DEF Base256
<1>4. \A k \in 0 .. 7 : k \in {0, 1, 2, 3} \/ k \in 4 .. 7
  OBVIOUS
<1>5. 0 \in Octet
  BY DEF Octet
<1> QED
  BY <1>1, <1>2, <1>3, <1>4, <1>5

\* A length that fits into the bytes is read back from them.
LEMMA BeBytesReadBack ==
  ASSUME NEW len \in 0 .. MaxUsize, NEW width \in {2, 8},
         width = 2 => Short(len)
  PROVE  /\ ToBeBytes(len, width) \in Seq(Octet)
         /\ Len(ToBeBytes(len, width)) = width
         /\ FromBeBytes(ToBeBytes(len, width)) = len
<1> DEFINE b == ToBeBytes(len, width)
           q1 == len \div 256
           q2 == q1 \div 256
           q3 == q2 \div 256
<1>1. len \in Nat /\ q3 \in 0 .. 127
  BY MaxUsizeBytes
<1>0. q1 = len \div 256 /\ q2 = q1 \div 256 /\ q3 = q2 \div 256
  OBVIOUS
<1>4. width = 2 => q1 % 256 = q1
  BY <1>1, ShortBytes
<1> HIDE DEF q1, q2, q3
<1>2. /\ ByteOf(len, 0) = len % 256
      /\ ByteOf(len, 1) = q1 % 256
      /\ ByteOf(len, 2) = q2 % 256
      /\ ByteOf(len, 3) = q3 % 256
      /\ \A k \in 4 .. 7 : ByteOf(len, k) = 0
      /\ \A k \in 0 .. 7 : ByteOf(len, k) \in Octet
  BY <1>1, <1>0, ByteOfTyped
<1>3. /\ q1 \in Nat /\ q2 \in Nat /\ q3 \in Nat
      /\ len = (len % 256) + 256 * q1
      /\ len = (len % 256) + 256 * ((q1 % 256) + 256 * ((q2 % 256) + 256 * q3))
  <2>1. Base256(len, q1, q2, q3)
    BY <1>1, <1>0, Digits
  <2> QED
    BY <2>1 DEF Base256
<1>5. b \in Seq(Octet) /\ Len(b) = width
  <2>1. \A i \in 1 .. width : ByteOf(len, width - i) \in Octet
    BY <1>2
  <2> QED
    BY <2>1 DEF ToBeBytes
<1>6. \A k \in 0 .. width - 1 : b[width - k] = ByteOf(len, k)
  <2> TAKE k \in 0 .. width - 1
  <2>1. width - k \in 1 .. width /\ width - (width - k) = k
    OBVIOUS
  <2> QED
    BY <2>1 DEF ToBeBytes
<1> HIDE DEF b
<1> DEFINE digit(k) == IF k < width THEN b[width - k] ELSE 0
           sum == digit(0) + 256 * (digit(1) + 256 * (digit(2) + 256 * digit(3)))
<1>7. FromBeBytes(b)
        = IF digit(3) > 127 \/ \E k \in 4 .. 7 : digit(k) > 0 THEN MaxUsize
          ELSE sum
  BY <1>5, SMT DEF FromBeBytes
<1>8. CASE width = 8
  <2>1. \A k \in 0 .. 7 : digit(k) = ByteOf(len, k)
    BY <1>6, <1>8
  <2> HIDE DEF digit
  <2>2. /\ digit(0) = len % 256 /\ digit(1) = q1 % 256
        /\ digit(2) = q2 % 256 /\ digit(3) = q3
        /\ \A k \in 4 .. 7 : digit(k) = 0
    BY <1>1, <1>2, <2>1
  <2>3. FromBeBytes(b) = sum
    <3> HIDE DEF sum
    <3> QED
      BY <1>1, <1>7, <2>2
  <2>4. sum = len
    BY <1>3, <2>2
  <2> QED
    BY <1>5, <2>3, <2>4 DEF b
<1>9. CASE width = 2
  <2>1. digit(0) = ByteOf(len, 0) /\ digit(1) = ByteOf(len, 1)
    BY <1>6, <1>9
  <2>2. /\ digit(2) = 0 /\ digit(3) = 0 /\ \A k \in 4 .. 7 : digit(k) = 0
    BY <1>9
  <2> HIDE DEF digit
  <2>3. /\ digit(0) = len % 256 /\ digit(1) = q1
    BY <1>2, <1>4, <1>9, <2>1
  <2>4. FromBeBytes(b) = sum
    <3> HIDE DEF sum
    <3> QED
      BY <1>7, <2>2
  <2>5. sum = len
    BY <1>3, <2>2, <2>3
  <2> QED
    BY <1>5, <2>4, <2>5 DEF b
<1> QED
  BY <1>8, <1>9

\* h is a head for these fields, with the bits rsv set besides.
Laid(h, fin, rsv, opcode, key, code, len) ==
  LET x == Extra(code)
  IN  /\ h \in Seq(Octet)
      /\ h[1] = (IF fin THEN 128 ELSE 0) + 16 * rsv + opcode
      /\ h[2] = (IF key = NoMask THEN 0 ELSE 128) + code
      /\ Len(h) = 2 + x + Len(key)
      /\ \A i \in 1 .. Len(key) : h[2 + x + i] = key[i]
      /\ x # 0 => SubSeq(h, 3, 2 + x) = ToBeBytes(len, x)

LEMMA KeyTyped ==
  ASSUME NEW key \in Key
  PROVE  key \in Seq(Octet) /\ Len(key) = (IF key = NoMask THEN 0 ELSE 4)
<1>1. CASE key = NoMask
  <2>1. <<>> \in Seq(Octet)
    OBVIOUS
  <2> QED
    BY <1>1, <2>1 DEF NoMask
<1>2. CASE key # NoMask
  <2>1. key \in [1 .. 4 -> Octet]
    BY <1>2 DEF Key
  <2>2. key \in Seq(Octet)
    <3>1. Seq(Octet) = UNION {[1 .. m -> Octet] : m \in Nat}
      BY SeqDef
    <3> QED
      BY <2>1, <3>1
  <2>3. Len(key) = 4
    BY <2>1, <2>2, LenProperties
  <2> QED
    BY <1>2, <2>2, <2>3
<1> QED
  BY <1>1, <1>2

\* The length behind the first two bytes.
LEMMA ExtraHolds ==
  ASSUME NEW code \in 0 .. 127, NEW len \in 0 .. MaxUsize, Fits(code, len)
  PROVE  LET x == Extra(code)
         IN  /\ x \in {0, 2, 8}
             /\ x = 0 => code = len
             /\ ToBeBytes(len, x) \in Seq(Octet) /\ Len(ToBeBytes(len, x)) = x
             /\ x # 0 => FromBeBytes(ToBeBytes(len, x)) = len
<1> DEFINE x == Extra(code)
           t == ToBeBytes(len, x)
<1>1. x \in {0, 2, 8} /\ (x = 0 => code = len) /\ (x = 2 => Short(len))
  BY SMT DEF Extra, Fits, Short
<1> HIDE DEF x
<1>2. CASE x = 0
  <2>1. t = <<>> /\ <<>> \in Seq(Octet)
    BY <1>2 DEF ToBeBytes
  <2> QED
    BY <1>1, <1>2, <2>1 DEF x
<1>3. CASE x # 0
  BY <1>1, <1>3, BeBytesReadBack DEF x
<1> QED
  BY <1>2, <1>3

\* What the parser makes of any bytes behind the first two is a length.
LEMMA PayloadLenTyped ==
  ASSUME NEW byte \in Octet, NEW rest \in Seq(Octet), Len(rest) = Rest(byte)
  PROVE  /\ Rest(byte) \in Nat /\ PayloadLen(byte, rest) \in Nat
<1> DEFINE x == Extra(CodeOf(byte))
           bytes == SubSeq(rest, 1, x)
<1>1. CodeOf(byte) \in Nat /\ x \in {0, 2, 8}
  BY DEF CodeOf, Octet, Extra
<1>2. Rest(byte) \in Nat /\ x <= Rest(byte)
  BY <1>1 DEF Rest
<1>3. CASE x = 0
  BY <1>1, <1>2, <1>3 DEF PayloadLen
<1>4. CASE x # 0
  <2>1. bytes \in Seq(Octet) /\ Len(bytes) = x /\ Len(bytes) \in Nat
    <3>1. x \in 0 .. Len(rest)
      BY <1>1, <1>2
    <3> HIDE DEF x
    <3>2. SubSeq(rest, 1, x) \in Seq(Octet) /\ Len(SubSeq(rest, 1, x)) = x
      BY <3>1, CutInTwo
    <3> QED
      BY <3>1, <3>2
  <2>2. PayloadLen(byte, rest) = FromBeBytes(bytes)
    BY <1>4 DEF PayloadLen
  <2> HIDE DEF bytes
  <2> DEFINE digit(k) == IF k < Len(bytes) THEN bytes[Len(bytes) - k] ELSE 0
             sum == digit(0) + 256 * (digit(1) + 256 * (digit(2) + 256 * digit(3)))
  <2>3. \A k \in Nat : digit(k) \in Nat
    <3> TAKE k \in Nat
    <3>1. k < Len(bytes) => Len(bytes) - k \in 1 .. Len(bytes)
      BY <2>1
    <3>2. \A i \in 1 .. Len(bytes) : bytes[i] \in Nat
      <4>1. \A o \in Octet : o \in Nat
        BY DEF Octet
      <4>2. \A i \in 1 .. Len(bytes) : bytes[i] \in Octet
        BY <2>1
      <4> QED
        BY <4>1, <4>2
    <3> QED
      BY <3>1, <3>2
  <2>4. FromBeBytes(bytes)
          = IF digit(3) > 127 \/ \E k \in 4 .. 7 : digit(k) > 0 THEN MaxUsize
            ELSE sum
    BY <2>1, SMT DEF FromBeBytes
  <2>5. digit(0) \in Nat /\ digit(1) \in Nat /\ digit(2) \in Nat /\ digit(3) \in Nat
    BY <2>3
  <2> HIDE DEF digit
  <2>6. sum \in Nat
    BY <2>5
  <2> HIDE DEF sum
  <2> QED
    BY <1>2, <2>2, <2>4, <2>6, MaxUsizeBytes
<1> QED
  BY <1>3, <1>4

LEMMA HeadIsLaid ==
  ASSUME NEW code \in 0 .. 127, NEW fin \in BOOLEAN, NEW opcode \in 0 .. 15,
         NEW key \in Key, NEW len \in 0 .. MaxUsize, Fits(code, len)
  PROVE  Laid(HeadWith(code, fin, opcode, key, len), fin, 0, opcode, key, code, len)
<1> DEFINE h == HeadWith(code, fin, opcode, key, len)
           x == Extra(code)
           a == (IF fin THEN 128 ELSE 0) + opcode
           b == (IF key = NoMask THEN 0 ELSE 128) + code
           t == ToBeBytes(len, x)
<1>1. x \in {0, 2, 8} /\ t \in Seq(Octet) /\ Len(t) = x
  BY ExtraHolds
<1>2. a \in Octet /\ b \in Octet
  BY DEF Octet
<1>3. key \in Seq(Octet) /\ Len(key) \in Nat
  BY KeyTyped
<1>4. h = <<a, b>> \o t \o key
  BY DEF HeadWith
<1> HIDE DEF h, a, b, t, x
<1>6. /\ <<a, b>> \o t \in Seq(Octet) /\ Len(<<a, b>> \o t) = 2 + x
      /\ (<<a, b>> \o t)[1] = a /\ (<<a, b>> \o t)[2] = b
      /\ \A i \in 1 .. x : (<<a, b>> \o t)[2 + i] = t[i]
  BY <1>1, <1>2
<1> DEFINE u == <<a, b>> \o t
<1> HIDE DEF u
<1>7. u \in Seq(Octet) /\ Len(u) = 2 + x /\ u[1] = a /\ u[2] = b
      /\ \A i \in 1 .. x : u[2 + i] = t[i]
  BY <1>6 DEF u
<1>8. /\ u \o key \in Seq(Octet) /\ Len(u \o key) = Len(u) + Len(key)
      /\ \A i \in 1 .. Len(u) + Len(key) :
           (u \o key)[i] = IF i <= Len(u) THEN u[i] ELSE key[i - Len(u)]
  BY <1>3, <1>7, ConcatProperties
<1>9. h = u \o key
  BY <1>4 DEF u
<1>10. Len(key) \in Nat /\ x \in Nat
  BY <1>1, <1>3
<1>11. /\ h \in Seq(Octet) /\ Len(h) = 2 + x + Len(key)
       /\ h[1] = a /\ h[2] = b
       /\ \A i \in 1 .. x : h[2 + i] = t[i]
  BY <1>7, <1>8, <1>9, <1>10
<1>12. \A i \in 1 .. Len(key) : h[2 + x + i] = key[i]
  <2> TAKE i \in 1 .. Len(key)
  <2> DEFINE j == 2 + x + i
  <2>1. j \in 1 .. Len(u) + Len(key) /\ ~(j <= Len(u)) /\ j - Len(u) = i
    BY <1>7, <1>10
  <2> HIDE DEF j
  <2>2. h[j] = key[i]
    BY <1>8, <1>9, <2>1
  <2> QED
    BY <2>2 DEF j
<1>13. x # 0 => SubSeq(h, 3, 2 + x) = t
  <2> SUFFICES ASSUME x # 0 PROVE SubSeq(h, 3, 2 + x) = t
    OBVIOUS
  <2>1. /\ SubSeq(h, 3, 2 + x) \in Seq(Octet)
        /\ Len(SubSeq(h, 3, 2 + x)) = x
        /\ \A i \in 1 .. x : SubSeq(h, 3, 2 + x)[i] = h[2 + i]
    BY <1>1, <1>10, <1>11
  <2> QED
    BY <1>1, <1>11, <2>1, SeqEqual
<1>14. h[1] = (IF fin THEN 128 ELSE 0) + 16 * 0 + opcode
  BY <1>11 DEF a
<1> QED
  BY <1>11, <1>12, <1>13, <1>14 DEF Laid, h, x, b, t

LEMMA MarkedIsLaid ==
  ASSUME NEW h, NEW fin \in BOOLEAN, NEW rsv \in 0 .. 7, NEW opcode \in 0 .. 15,
         NEW key \in Key, NEW code \in 0 .. 127, NEW len \in 0 .. MaxUsize,
         Fits(code, len), Laid(h, fin, 0, opcode, key, code, len)
  PROVE  Laid([h EXCEPT ![1] = @ + 16 * rsv], fin, rsv, opcode, key, code, len)
<1> DEFINE g == [h EXCEPT ![1] = @ + 16 * rsv]
           x == Extra(code)
<1>1. /\ h \in Seq(Octet) /\ h[1] = (IF fin THEN 128 ELSE 0) + opcode
      /\ h[2] = (IF key = NoMask THEN 0 ELSE 128) + code
      /\ Len(h) = 2 + x + Len(key)
      /\ \A i \in 1 .. Len(key) : h[2 + x + i] = key[i]
      /\ x # 0 => SubSeq(h, 3, 2 + x) = ToBeBytes(len, x)
  BY DEF Laid
<1>2. x \in Nat /\ Len(key) \in Nat
  <2>1. x \in {0, 2, 8}
    BY ExtraHolds
  <2>2. key \in Seq(Octet)
    BY KeyTyped
  <2> QED
    BY <2>1, <2>2
<1>3. h[1] + 16 * rsv \in Octet
        /\ h[1] + 16 * rsv = (IF fin THEN 128 ELSE 0) + 16 * rsv + opcode
  BY <1>1 DEF Octet
<1> HIDE DEF x
<1>4. 1 \in 1 .. Len(h) /\ Len(h) \in Nat
  BY <1>1, <1>2
<1>5. /\ g \in Seq(Octet) /\ Len(g) = Len(h)
      /\ g[1] = h[1] + 16 * rsv
      /\ \A i \in 2 .. Len(h) : g[i] = h[i]
  BY <1>1, <1>3, <1>4
<1> HIDE DEF g
<1>6. g[2] = h[2] /\ \A i \in 1 .. Len(key) : g[2 + x + i] = key[i]
  <2>1. 2 \in 2 .. Len(h) /\ \A i \in 1 .. Len(key) : 2 + x + i \in 2 .. Len(h)
    BY <1>1, <1>2
  <2> QED
    BY <1>1, <1>5, <2>1
<1>7. x # 0 => SubSeq(g, 3, 2 + x) = SubSeq(h, 3, 2 + x)
  <2> SUFFICES ASSUME x # 0 PROVE SubSeq(g, 3, 2 + x) = SubSeq(h, 3, 2 + x)
    OBVIOUS
  <2>1. 3 \in Int /\ 2 + x \in Int /\ 2 + x <= Len(h)
    BY <1>1, <1>2
  <2>2. /\ SubSeq(g, 3, 2 + x) \in Seq(Octet) /\ Len(SubSeq(g, 3, 2 + x)) = x
        /\ \A i \in 1 .. x : SubSeq(g, 3, 2 + x)[i] = g[2 + i]
    BY <1>2, <1>5, <2>1
  <2>3. /\ SubSeq(h, 3, 2 + x) \in Seq(Octet) /\ Len(SubSeq(h, 3, 2 + x)) = x
        /\ \A i \in 1 .. x : SubSeq(h, 3, 2 + x)[i] = h[2 + i]
    BY <1>1, <1>2, <2>1
  <2>4. \A i \in 1 .. x : g[2 + i] = h[2 + i]
    BY <1>2, <1>4, <1>5, <2>1
  <2> QED
    BY <2>2, <2>3, <2>4, SeqEqual
<1> QED
  BY <1>1, <1>3, <1>5, <1>6, <1>7 DEF Laid, g, x

\* What the parser makes of a head h.
ReadsAs(h, fin, rsv, opcode, key, len) ==
  LET behind == SubSeq(h, 3, Len(h))
  IN  /\ Reserved(h[1]) = rsv /\ Fin(h[1]) = fin /\ OpcodeOf(h[1]) = opcode
      /\ Rest(h[2]) \in Nat /\ Len(h) = 2 + Rest(h[2])
      /\ PayloadLen(h[2], behind) = len /\ KeyOf(h[2], behind) = key

LEMMA LaidReadsAs ==
  ASSUME NEW h, NEW fin \in BOOLEAN, NEW rsv \in 0 .. 7, NEW opcode \in 0 .. 15,
         NEW key \in Key, NEW code \in 0 .. 127, NEW len \in 0 .. MaxUsize,
         Fits(code, len), Laid(h, fin, rsv, opcode, key, code, len)
  PROVE  ReadsAs(h, fin, rsv, opcode, key, len)
<1> DEFINE x == Extra(code)
           behind == SubSeq(h, 3, Len(h))
<1>1. /\ h \in Seq(Octet)
      /\ code \in 0 .. 127 /\ x \in {0, 2, 8}
      /\ x = 0 => code = len
      /\ h[1] = (IF fin THEN 128 ELSE 0) + 16 * rsv + opcode
      /\ h[2] = (IF key = NoMask THEN 0 ELSE 128) + code
      /\ key \in Seq(Octet) /\ Len(key) = (IF key = NoMask THEN 0 ELSE 4)
      /\ Len(h) = 2 + x + Len(key)
      /\ \A i \in 1 .. Len(key) : h[2 + x + i] = key[i]
      /\ x # 0 => SubSeq(h, 3, 2 + x) = ToBeBytes(len, x)
      /\ x # 0 => FromBeBytes(ToBeBytes(len, x)) = len
  BY KeyTyped, ExtraHolds DEF Laid
<1>2. Reserved(h[1]) = rsv /\ Fin(h[1]) = fin /\ OpcodeOf(h[1]) = opcode
  <2>1. \A b \in {0, 1}, r \in 0 .. 7, o \in 0 .. 15 :
          LET byte == 128 * b + 16 * r + o
          IN  (byte \div 16) % 8 = r /\ byte \div 128 = b /\ byte % 16 = o
    OBVIOUS
  <2>2. CASE fin
    <3>1. h[1] = 128 * 1 + 16 * rsv + opcode
      BY <1>1, <2>2
    <3>2. Reserved(h[1]) = rsv /\ Fin(h[1]) /\ OpcodeOf(h[1]) = opcode
      BY <2>1, <3>1 DEF Reserved, Fin, OpcodeOf
    <3> QED
      BY <2>2, <3>2 DEF Fin
  <2>3. CASE ~fin
    <3>1. h[1] = 128 * 0 + 16 * rsv + opcode
      BY <1>1, <2>3
    <3>2. Reserved(h[1]) = rsv /\ ~Fin(h[1]) /\ OpcodeOf(h[1]) = opcode
      BY <2>1, <3>1 DEF Reserved, Fin, OpcodeOf
    <3>3. Fin(h[1]) \in BOOLEAN
      BY DEF Fin
    <3> QED
      BY <2>3, <3>2, <3>3
  <2> QED
    BY <2>2, <2>3
<1>3. CodeOf(h[2]) = code /\ (Masked(h[2]) <=> key # NoMask)
  <2>1. \A c \in 0 .. 127 : /\ c % 128 = c /\ c \div 128 = 0
                          /\ (128 + c) % 128 = c /\ (128 + c) \div 128 = 1
    OBVIOUS
  <2>2. CASE key = NoMask
    <3>1. h[2] = code
      BY <1>1, <2>2
    <3>2. code % 128 = code /\ code \div 128 = 0
      BY <1>1, <2>1
    <3>3. CodeOf(h[2]) = code /\ ~Masked(h[2])
      BY <3>1, <3>2 DEF CodeOf, Masked
    <3> QED
      BY <2>2, <3>3
  <2>3. CASE key # NoMask
    <3>1. h[2] = 128 + code
      BY <1>1, <2>3
    <3>2. CodeOf(h[2]) = code /\ Masked(h[2])
      BY <1>1, <2>1, <3>1 DEF CodeOf, Masked
    <3> QED
      BY <2>3, <3>2
  <2> QED
    BY <2>2, <2>3
<1>4. Rest(h[2]) = x + Len(key)
  BY <1>1, <1>3 DEF Rest
<1> HIDE DEF x
<1>5. /\ x \in Nat /\ Len(key) \in Nat /\ Len(h) \in Nat
      /\ behind \in Seq(Octet) /\ Len(behind) = x + Len(key)
      /\ \A i \in 1 .. x + Len(key) : behind[i] = h[2 + i]
  BY <1>1
<1> HIDE DEF behind
<1>6. PayloadLen(h[2], behind) = len
  <2>1. CASE x = 0
    BY <1>1, <1>3, <2>1 DEF PayloadLen, x
  <2>2. CASE x # 0
    <3>1. SubSeq(behind, 1, x) = SubSeq(h, 3, 2 + x)
      <4>1. /\ SubSeq(behind, 1, x) \in Seq(Octet) /\ Len(SubSeq(behind, 1, x)) = x
            /\ \A i \in 1 .. x : SubSeq(behind, 1, x)[i] = h[2 + i]
        BY <1>5
      <4>2. /\ SubSeq(h, 3, 2 + x) \in Seq(Octet) /\ Len(SubSeq(h, 3, 2 + x)) = x
            /\ \A i \in 1 .. x : SubSeq(h, 3, 2 + x)[i] = h[2 + i]
        BY <1>1, <1>5
      <4> QED
        BY <4>1, <4>2, SeqEqual
    <3> QED
      BY <1>1, <1>3, <2>2, <3>1 DEF PayloadLen, x
  <2> QED
    BY <2>1, <2>2
<1>7. KeyOf(h[2], behind) = key
  <2>1. CASE key = NoMask
    BY <1>3, <2>1 DEF KeyOf
  <2>2. CASE key # NoMask
    <3>1. Len(key) = 4
      BY <1>1, <2>2
    <3>2. /\ SubSeq(behind, x + 1, x + 4) \in Seq(Octet)
          /\ Len(SubSeq(behind, x + 1, x + 4)) = 4
          /\ \A i \in 1 .. 4 : SubSeq(behind, x + 1, x + 4)[i] = behind[x + i]
      BY <1>5, <3>1
    <3>3. \A i \in 1 .. 4 : behind[x + i] = key[i]
      <4> TAKE i \in 1 .. 4
      <4>1. x + i \in 1 .. x + Len(key) /\ 2 + (x + i) = 2 + x + i
        BY <1>5, <3>1
      <4> QED
        BY <1>1, <1>5, <3>1, <4>1
    <3>4. SubSeq(behind, x + 1, x + 4) = key
      <4> DEFINE s == SubSeq(behind, x + 1, x + 4)
      <4>1. s \in Seq(Octet) /\ Len(s) = Len(key) /\ \A i \in 1 .. Len(s) : s[i] = key[i]
        BY <3>1, <3>2, <3>3
      <4> HIDE DEF s
      <4>2. s = key
        BY <1>1, <4>1, SeqEqual
      <4> QED
        BY <4>2 DEF s
    <3> QED
      BY <1>3, <2>2, <3>4 DEF KeyOf, x
  <2> QED
    BY <2>1, <2>2
<1>8. Len(h) = 2 + Rest(h[2]) /\ Rest(h[2]) \in Nat
  BY <1>1, <1>4, <1>5
<1> QED
  BY <1>1, <1>2, <1>6, <1>7, <1>8 DEF ReadsAs, behind

LEMMA FmtHeadReadsAs ==
  ASSUME NEW fin \in BOOLEAN, NEW opcode \in OpCodes, NEW key \in Key,
         NEW len \in 0 .. MaxUsize
  PROVE  /\ FmtHead(fin, opcode, key, len) \in Seq(Octet)
         /\ ReadsAs(FmtHead(fin, opcode, key, len), fin, 0, opcode, key, len)
<1> DEFINE code == LengthCode(len)
           h == HeadWith(code, fin, opcode, key, len)
<1>1. len \in Nat
  BY MaxUsizeBytes
<1>2. code \in 0 .. 127 /\ Fits(code, len)
  BY <1>1, SMT DEF LengthCode, Fits
<1>3. opcode \in 0 .. 15
  BY DEF OpCodes
<1> HIDE DEF code
<1>4. Laid(h, fin, 0, opcode, key, code, len)
  BY <1>2, <1>3, HeadIsLaid
<1> HIDE DEF h
<1>5. h \in Seq(Octet) /\ ReadsAs(h, fin, 0, opcode, key, len)
  <2>1. h \in Seq(Octet)
    BY <1>4 DEF Laid
  <2>2. 0 \in 0 .. 7
    OBVIOUS
  <2>3. ReadsAs(h, fin, 0, opcode, key, len)
    BY <1>2, <1>3, <1>4, <2>2, LaidReadsAs, Zenon
  <2> QED
    BY <2>1, <2>3
<1> QED
  BY <1>5 DEF FmtHead, h, code

=============================================================================
