-------------------------- MODULE ArticlePageProofs --------------------------
(***************************************************************************)
(* Proofs about the page of the law: every sentence stands on it once and  *)
(* in its order, for a document of any length and a text of any links.     *)
(***************************************************************************)
EXTENDS ArticlePage, FiniteSetTheorems, WellFoundedInduction, TLAPS

\* A set of numbers has a least one.
LEMMA LeastNumber ==
    ASSUME NEW S, S \subseteq Nat, S # {}
    PROVE  \E m \in S : \A n \in S : m <= n
  <1>1. PICK m \in S : \A n \in S : ~ (<<n, m>> \in OpToRel(<, Nat))
    BY NatLessThanWellFounded, WFMin
  <1>2. \A n \in S : ~ (n < m) BY <1>1 DEF OpToRel
  <1> QED BY <1>2

\* Induction for a set of numbers.
LEMMA UpToIsIn ==
    ASSUME NEW n \in Nat, NEW Good, 0 \in Good, \A i \in 1 .. n : i - 1 \in Good => i \in Good
    PROVE  \A i \in 0 .. n : i \in Good
  <1> DEFINE Bad == {i \in 0 .. n : i \notin Good}
  <1>1. SUFFICES ASSUME Bad # {} PROVE FALSE BY <1>1
  <1>2. PICK m \in Bad : \A i \in Bad : m <= i
    <2>1. Bad \subseteq Nat OBVIOUS
    <2> HIDE DEF Bad
    <2> QED BY <1>1, <2>1, LeastNumber
  <1>3. m \in 1 .. n BY <1>2
  <1>4. m - 1 \in Good BY <1>2, <1>3
  <1> QED BY <1>2, <1>3, <1>4

\* A recursion of n steps from a, each with its number, which stays in A, has an outcome.
StaysIn(step, n, A) == \A i \in 1 .. n, x \in A : step[<<i, x>>] \in A
Follows(f, step, a, n) == f[0] = a /\ \A i \in 1 .. n : f[i] = step[<<i, f[i - 1]>>]

LEMMA StepsAreTaken ==
    ASSUME NEW n \in Nat, NEW A, NEW a \in A, NEW step, StaysIn(step, n, A)
    PROVE  \E f \in [0 .. n -> A] : Follows(f, step, a, n)
  <1> DEFINE Good == {k \in 0 .. n : \E f \in [0 .. n -> A] :
                          f[0] = a /\ \A i \in 1 .. k : f[i] = step[<<i, f[i - 1]>>]}
  <1>1. 0 \in Good
    <2> DEFINE f == [i \in 0 .. n |-> a]
    <2>1. f \in [0 .. n -> A] /\ f[0] = a /\ 0 \in 0 .. n OBVIOUS
    <2> HIDE DEF f
    <2>2. \A i \in 1 .. 0 : f[i] = step[<<i, f[i - 1]>>] OBVIOUS
    <2> QED BY <2>1, <2>2
  <1>2. ASSUME NEW k \in 1 .. n, k - 1 \in Good PROVE k \in Good
    <2>1. PICK f \in [0 .. n -> A] :
              f[0] = a /\ \A i \in 1 .. k - 1 : f[i] = step[<<i, f[i - 1]>>]
      BY <1>2
    <2> DEFINE g == [f EXCEPT ![k] = step[<<k, f[k - 1]>>]]
    <2>2. step[<<k, f[k - 1]>>] \in A
      <3>1. k - 1 \in 0 .. n BY <1>2
      <3>2. f[k - 1] \in A BY <2>1, <3>1
      <3> QED BY <1>2, <3>2 DEF StaysIn
    <2>3. g \in [0 .. n -> A] /\ g[0] = a BY <2>1, <2>2
    <2>4. ASSUME NEW i \in 1 .. k PROVE g[i] = step[<<i, g[i - 1]>>]
      <3>1. i - 1 \in 0 .. n /\ i - 1 # k /\ i \in 0 .. n BY <1>2
      <3>4. g[i - 1] = f[i - 1] BY <2>1, <3>1
      <3>2. CASE i = k BY <2>1, <3>1, <3>2, <3>4
      <3>3. CASE i # k
        <4>1. g[i] = f[i] /\ i \in 1 .. k - 1 BY <3>3
        <4> QED BY <2>1, <3>4, <4>1
      <3> QED BY <3>2, <3>3
    <2> HIDE DEF g
    <2> QED BY <2>3, <2>4
  <1> HIDE DEF Good
  <1>3. n \in Good
    <2>1. \A k \in 0 .. n : k \in Good BY <1>1, <1>2, UpToIsIn
    <2> QED BY <2>1
  <1> QED BY <1>3 DEF Good, Follows

-----------------------------------------------------------------------------
(* Sequences joined one after another.                                       *)

\* The first i sequences joined.
Joins(f, seqs, n) == f[0] = <<>> /\ \A i \in 1 .. n : f[i] = f[i - 1] \o seqs[i]

\* FlattenSeq joins one sequence after another.
LEMMA FlatRun ==
    ASSUME NEW X, NEW seqs \in Seq(Seq(X))
    PROVE  \E f \in [0 .. Len(seqs) -> Seq(X)] :
               Joins(f, seqs, Len(seqs)) /\ FlattenSeq(seqs) = f[Len(seqs)]
  <1> DEFINE n == Len(seqs)
             A == Seq(X)
             a == <<>>
             step == [r \in (1 .. n) \X A |-> r[2] \o seqs[r[1]]]
             IsJoined(g) == g = [i \in 1 .. n |-> IF i = 1 THEN seqs[i] ELSE g[i - 1] \o seqs[i]]
             joined == CHOOSE g : IsJoined(g)
  <1>1. n \in Nat /\ a \in A OBVIOUS
  <1>2. \A i \in 1 .. n : seqs[i] \in A OBVIOUS
  <1>3. StaysIn(step, n, A)
    <2>1. ASSUME NEW i \in 1 .. n, NEW x \in A PROVE step[<<i, x>>] \in A
      <3>1. step[<<i, x>>] = x \o seqs[i] OBVIOUS
      <3> QED BY <1>2, <3>1
    <2> HIDE DEF step
    <2> QED BY <2>1 DEF StaysIn
  <1>4. PICK f \in [0 .. n -> A] : Follows(f, step, a, n)
    <2> HIDE DEF step, n, A, a
    <2> QED BY <1>1, <1>3, StepsAreTaken
  <1>5. \A i \in 1 .. n : f[i] = f[i - 1] \o seqs[i]
    <2>1. ASSUME NEW i \in 1 .. n PROVE f[i] = f[i - 1] \o seqs[i]
      <3>1. i - 1 \in 0 .. n BY <1>1
      <3>2. f[i - 1] \in A BY <1>4, <3>1
      <3>3. f[i] = step[<<i, f[i - 1]>>] BY <1>4 DEF Follows
      <3>4. step[<<i, f[i - 1]>>] = f[i - 1] \o seqs[i] BY <3>2
      <3> QED BY <3>3, <3>4
    <2> QED BY <2>1
  <1>6. Joins(f, seqs, n) BY <1>4, <1>5 DEF Joins, Follows
  <1>7. FlattenSeq(seqs) = f[n]
    <2>1. CASE n = 0
      <3>1. FlattenSeq(seqs) = seqs BY <1>1, <2>1 DEF FlattenSeq
      <3>2. seqs = <<>> BY <1>1, <2>1
      <3> QED BY <1>4, <2>1, <3>1, <3>2 DEF Follows
    <2>2. CASE n # 0
      <3>1. FlattenSeq(seqs) = joined[n] BY <1>1, <2>2 DEF FlattenSeq
      <3>2. IsJoined([i \in 1 .. n |-> f[i]])
        <4> DEFINE g == [i \in 1 .. n |-> f[i]]
        <4>1. ASSUME NEW i \in 1 .. n
              PROVE  g[i] = IF i = 1 THEN seqs[i] ELSE g[i - 1] \o seqs[i]
          <5>1. g[i] = f[i - 1] \o seqs[i] BY <1>1, <1>5
          <5>2. i # 1 => g[i - 1] = f[i - 1] BY <1>1
          <5>3. i = 1 => f[i - 1] = <<>> BY <1>4 DEF Follows
          <5>4. <<>> \o seqs[i] = seqs[i] BY <1>2
          <5> QED BY <5>1, <5>2, <5>3, <5>4
        <4>2. g = [i \in 1 .. n |-> g[i]] OBVIOUS
        <4> HIDE DEF g
        <4>3. g = [i \in 1 .. n |-> IF i = 1 THEN seqs[i] ELSE g[i - 1] \o seqs[i]]
          BY <4>1, <4>2
        <4>4. IsJoined(g) BY <4>3
        <4> QED BY <4>4 DEF g
      <3>3. IsJoined(joined) BY <3>2
      <3> HIDE DEF joined
      <3>4. \A i \in 1 .. n : joined[i] = IF i = 1 THEN seqs[i] ELSE joined[i - 1] \o seqs[i]
        BY <3>3
      <3> DEFINE Good == {i \in 0 .. n : i # 0 => joined[i] = f[i]}
      <3>5. 0 \in Good BY <1>1
      <3>6. ASSUME NEW i \in 1 .. n, i - 1 \in Good PROVE i \in Good
        <4>1. f[i] = f[i - 1] \o seqs[i] BY <1>1, <1>5
        <4>2. i # 1 => joined[i - 1] = f[i - 1] BY <1>1, <3>6
        <4>3. i = 1 => f[i - 1] = <<>> BY <1>4 DEF Follows
        <4>4. <<>> \o seqs[i] = seqs[i] BY <1>2
        <4>5. joined[i] = f[i] BY <3>4, <4>1, <4>2, <4>3, <4>4
        <4> QED BY <4>5
      <3> HIDE DEF Good
      <3>7. \A i \in 0 .. n : i \in Good BY <1>1, <3>5, <3>6, UpToIsIn
      <3>8. n \in Good BY <1>1, <3>7
      <3> QED BY <2>2, <3>1, <3>8 DEF Good
    <2> QED BY <2>1, <2>2
  <1> QED BY <1>4, <1>6, <1>7

\* Every place of q is a place of one of the first n sequences, in their order, and
\* every place of theirs is one of q.
Laid(q, seqs, n, piece, spot) ==
    /\ \A p \in DOMAIN q :
           /\ piece[p] \in 1 .. n /\ spot[p] \in DOMAIN seqs[piece[p]]
           /\ q[p] = seqs[piece[p]][spot[p]]
    /\ \A p, r \in DOMAIN q :
           p < r => piece[p] < piece[r] \/ (piece[p] = piece[r] /\ spot[p] < spot[r])
    /\ \A i \in 1 .. n : \A k \in DOMAIN seqs[i] :
           \E p \in DOMAIN q : piece[p] = i /\ spot[p] = k

\* One sequence more.
LEMMA LaidOn ==
    ASSUME NEW X, NEW q \in Seq(X), NEW s \in Seq(X), NEW seqs, NEW n \in Nat \ {0}, seqs[n] = s,
           NEW piece, NEW spot, Laid(q, seqs, n - 1, piece, spot)
    PROVE  \E piece2, spot2 : Laid(q \o s, seqs, n, piece2, spot2)
  <1> DEFINE w == q \o s
             l == Len(q)
             m == Len(s)
             piece2 == [p \in 1 .. l + m |-> IF p <= l THEN piece[p] ELSE n]
             spot2 == [p \in 1 .. l + m |-> IF p <= l THEN spot[p] ELSE p - l]
  <1>1. l \in Nat /\ m \in Nat /\ DOMAIN q = 1 .. l /\ DOMAIN s = 1 .. m
    OBVIOUS
  <1>2. DOMAIN w = 1 .. l + m BY <1>1
  <1>3. \A p \in 1 .. l + m : w[p] = IF p <= l THEN q[p] ELSE s[p - l] BY <1>1
  <1>4. ASSUME NEW p \in 1 .. l + m, p <= l
        PROVE  /\ piece2[p] = piece[p] /\ spot2[p] = spot[p] /\ w[p] = q[p] /\ p \in DOMAIN q
               /\ piece[p] \in 1 .. n - 1
               /\ spot[p] \in DOMAIN seqs[piece[p]] /\ q[p] = seqs[piece[p]][spot[p]]
    <2>1. piece2[p] = piece[p] /\ spot2[p] = spot[p] BY <1>4
    <2>2. p \in DOMAIN q BY <1>1, <1>4
    <2>3. w[p] = q[p] BY <1>3, <1>4
    <2> QED BY <2>1, <2>2, <2>3 DEF Laid
  <1>5. ASSUME NEW p \in 1 .. l + m, ~ (p <= l)
        PROVE  piece2[p] = n /\ spot2[p] = p - l /\ w[p] = s[p - l] /\ p - l \in DOMAIN s
    <2>1. piece2[p] = n /\ spot2[p] = p - l BY <1>5
    <2>2. p - l \in DOMAIN s BY <1>1, <1>5
    <2>3. w[p] = s[p - l] BY <1>3, <1>5
    <2> QED BY <2>1, <2>2, <2>3
  <1> HIDE DEF w, piece2, spot2, l, m
  <1>6. ASSUME NEW p \in DOMAIN w
        PROVE  /\ piece2[p] \in 1 .. n /\ spot2[p] \in DOMAIN seqs[piece2[p]]
               /\ w[p] = seqs[piece2[p]][spot2[p]]
    <2>0. p \in 1 .. l + m BY <1>2
    <2>1. CASE p <= l
      <3>1. piece[p] \in 1 .. n BY <1>4, <2>0, <2>1
      <3> QED BY <1>4, <2>0, <2>1, <3>1
    <2>2. CASE ~ (p <= l)
      <3>1. n \in 1 .. n OBVIOUS
      <3> QED BY <1>5, <2>0, <2>2, <3>1
    <2> QED BY <2>1, <2>2
  <1>7. ASSUME NEW p \in DOMAIN w, NEW r \in DOMAIN w, p < r
        PROVE  piece2[p] < piece2[r] \/ (piece2[p] = piece2[r] /\ spot2[p] < spot2[r])
    <2>0. p \in 1 .. l + m /\ r \in 1 .. l + m BY <1>2
    <2>1. CASE r <= l
      <3>1. p <= l BY <1>1, <1>7, <2>0, <2>1
      <3>2. p \in DOMAIN q /\ r \in DOMAIN q BY <1>4, <2>0, <2>1, <3>1
      <3>3. piece[p] < piece[r] \/ (piece[p] = piece[r] /\ spot[p] < spot[r])
        BY <1>7, <3>2 DEF Laid
      <3> QED BY <1>4, <2>0, <2>1, <3>1, <3>3
    <2>2. CASE p <= l /\ ~ (r <= l)
      <3>1. piece2[p] \in 1 .. n - 1 /\ piece2[r] = n BY <1>4, <1>5, <2>0, <2>2
      <3> QED BY <3>1
    <2>3. CASE ~ (p <= l)
      <3>1. ~ (r <= l) BY <1>1, <1>7, <2>0, <2>3
      <3>2. piece2[p] = n /\ piece2[r] = n /\ spot2[p] = p - l /\ spot2[r] = r - l
        BY <1>5, <2>0, <2>3, <3>1
      <3>3. p - l < r - l BY <1>1, <1>7, <2>0
      <3> QED BY <3>2, <3>3
    <2> QED BY <2>1, <2>2, <2>3
  <1>8. ASSUME NEW i \in 1 .. n, NEW k \in DOMAIN seqs[i]
        PROVE  \E p \in DOMAIN w : piece2[p] = i /\ spot2[p] = k
    <2>1. CASE i = n
      <3>1. k \in 1 .. m BY <1>1, <2>1
      <3>2. l + k \in 1 .. l + m /\ ~ (l + k <= l) /\ (l + k) - l = k BY <1>1, <3>1
      <3>3. piece2[l + k] = n /\ spot2[l + k] = k BY <1>5, <3>2
      <3> QED BY <1>2, <2>1, <3>2, <3>3
    <2>2. CASE i # n
      <3>1. i \in 1 .. n - 1 BY <2>2
      <3>2. PICK p \in DOMAIN q : piece[p] = i /\ spot[p] = k BY <3>1 DEF Laid
      <3>3. p \in 1 .. l + m /\ p <= l BY <1>1, <3>2
      <3> QED BY <1>2, <1>4, <3>2, <3>3
    <2> QED BY <2>1, <2>2
  <1>9. Laid(w, seqs, n, piece2, spot2) BY <1>6, <1>7, <1>8 DEF Laid
  <1> QED BY <1>9 DEF w

\* The places of joined sequences.
LEMMA FlatPlaces ==
    ASSUME NEW X, NEW seqs \in Seq(Seq(X))
    PROVE  /\ FlattenSeq(seqs) \in Seq(X)
           /\ \E piece, spot : Laid(FlattenSeq(seqs), seqs, Len(seqs), piece, spot)
  <1> DEFINE n == Len(seqs)
  <1>1. PICK f \in [0 .. n -> Seq(X)] : Joins(f, seqs, n) /\ FlattenSeq(seqs) = f[n]
    BY FlatRun
  <1>2. n \in Nat OBVIOUS
  <1> DEFINE Good == {k \in 0 .. n : \E piece, spot : Laid(f[k], seqs, k, piece, spot)}
  <1>3. 0 \in Good
    <2>1. Laid(<<>>, seqs, 0, <<>>, <<>>) BY DEF Laid
    <2> QED BY <1>1, <1>2, <2>1 DEF Joins
  <1>4. ASSUME NEW k \in 1 .. n, k - 1 \in Good PROVE k \in Good
    <2>1. PICK piece, spot : Laid(f[k - 1], seqs, k - 1, piece, spot) BY <1>4
    <2>2. f[k - 1] \in Seq(X)
      <3>1. k - 1 \in 0 .. n BY <1>2
      <3> QED BY <1>1, <3>1
    <2>3. k \in Nat \ {0} /\ seqs[k] \in Seq(X) OBVIOUS
    <2>4. f[k] = f[k - 1] \o seqs[k] BY <1>1 DEF Joins
    <2> HIDE DEF n
    <2>5. \E piece2, spot2 : Laid(f[k - 1] \o seqs[k], seqs, k, piece2, spot2)
      BY <2>1, <2>2, <2>3, LaidOn
    <2>6. \E piece2, spot2 : Laid(f[k], seqs, k, piece2, spot2)
      <3> HIDE DEF Good
      <3> QED BY <2>4, <2>5
    <2>7. k \in 0 .. n BY <1>2
    <2> QED BY <2>6, <2>7
  <1> HIDE DEF Good
  <1>5. n \in Good
    <2>1. \A k \in 0 .. n : k \in Good BY <1>2, <1>3, <1>4, UpToIsIn
    <2> QED BY <1>2, <2>1
  <1> QED BY <1>1, <1>2, <1>5 DEF Good

-----------------------------------------------------------------------------
(* Rising sequences.                                                         *)

Rising(q) == \A p, r \in DOMAIN q : p < r => q[p] < q[r]

\* Each of the sequences rises, and all of one is before all of the next.
Ascending(seqs) ==
    /\ \A i \in DOMAIN seqs : Rising(seqs[i])
    /\ \A i, j \in DOMAIN seqs : i < j =>
          \A x \in ToSet(seqs[i]), y \in ToSet(seqs[j]) : x < y

\* A rising sequence of numbers has each of them once.
LEMMA RisingOnce ==
    ASSUME NEW q \in Seq(Nat), Rising(q), NEW p \in DOMAIN q, NEW r \in DOMAIN q, q[p] = q[r]
    PROVE  p = r
  <1>1. p \in Nat /\ r \in Nat /\ q[p] \in Nat OBVIOUS
  <1>2. ~ (p < r) /\ ~ (r < p) BY <1>1 DEF Rising
  <1> QED BY <1>1, <1>2

\* What is in joined sequences.
LEMMA FlatSet ==
    ASSUME NEW X, NEW seqs \in Seq(Seq(X))
    PROVE  \A x : x \in ToSet(FlattenSeq(seqs)) <=> \E i \in DOMAIN seqs : x \in ToSet(seqs[i])
  <1> DEFINE q == FlattenSeq(seqs)
  <1>1. PICK piece, spot : Laid(q, seqs, Len(seqs), piece, spot) BY FlatPlaces
  <1>2. DOMAIN seqs = 1 .. Len(seqs) OBVIOUS
  <1> HIDE DEF q
  <1>3. ASSUME NEW x, x \in ToSet(q) PROVE \E i \in DOMAIN seqs : x \in ToSet(seqs[i])
    <2>1. PICK p \in DOMAIN q : x = q[p] BY <1>3 DEF ToSet
    <2> QED BY <1>1, <1>2, <2>1 DEF Laid, ToSet
  <1>4. ASSUME NEW i \in DOMAIN seqs, NEW x \in ToSet(seqs[i]) PROVE x \in ToSet(q)
    <2>1. PICK k \in DOMAIN seqs[i] : x = seqs[i][k] BY <1>4 DEF ToSet
    <2>2. PICK p \in DOMAIN q : piece[p] = i /\ spot[p] = k BY <1>1, <1>2, <2>1 DEF Laid
    <2>3. q[p] = x BY <1>1, <2>1, <2>2 DEF Laid
    <2> QED BY <2>2, <2>3 DEF ToSet
  <1> QED BY <1>3, <1>4 DEF q

\* Ascending sequences joined rise.
LEMMA FlatRising ==
    ASSUME NEW seqs \in Seq(Seq(Nat)), Ascending(seqs)
    PROVE  FlattenSeq(seqs) \in Seq(Nat) /\ Rising(FlattenSeq(seqs))
  <1> DEFINE q == FlattenSeq(seqs)
  <1>1. PICK piece, spot : Laid(q, seqs, Len(seqs), piece, spot) BY FlatPlaces
  <1>2. DOMAIN seqs = 1 .. Len(seqs) OBVIOUS
  <1>3. q \in Seq(Nat) BY FlatPlaces
  <1> HIDE DEF q
  <1>4. ASSUME NEW p \in DOMAIN q, NEW r \in DOMAIN q, p < r PROVE q[p] < q[r]
    <2>1. /\ piece[p] \in DOMAIN seqs /\ spot[p] \in DOMAIN seqs[piece[p]]
          /\ q[p] = seqs[piece[p]][spot[p]]
      BY <1>1, <1>2 DEF Laid
    <2>2. /\ piece[r] \in DOMAIN seqs /\ spot[r] \in DOMAIN seqs[piece[r]]
          /\ q[r] = seqs[piece[r]][spot[r]]
      BY <1>1, <1>2 DEF Laid
    <2>3. CASE piece[p] < piece[r]
      <3>1. q[p] \in ToSet(seqs[piece[p]]) /\ q[r] \in ToSet(seqs[piece[r]])
        BY <2>1, <2>2 DEF ToSet
      <3> QED BY <2>1, <2>2, <2>3, <3>1 DEF Ascending
    <2>4. CASE piece[p] = piece[r] /\ spot[p] < spot[r]
      <3>1. Rising(seqs[piece[p]]) BY <2>1 DEF Ascending
      <3> QED BY <2>1, <2>2, <2>4, <3>1 DEF Rising
    <2> QED BY <1>1, <1>4, <2>3, <2>4 DEF Laid
  <1> QED BY <1>3, <1>4 DEF q, Rising

\* A rising sequence behind another one.
LEMMA RisingJoined ==
    ASSUME NEW q \in Seq(Nat), NEW s \in Seq(Nat), Rising(q), Rising(s),
           \A x \in ToSet(q), y \in ToSet(s) : x < y
    PROVE  q \o s \in Seq(Nat) /\ Rising(q \o s) /\ ToSet(q \o s) = ToSet(q) \cup ToSet(s)
  <1> DEFINE w == q \o s
             l == Len(q)
             m == Len(s)
  <1>1. l \in Nat /\ m \in Nat /\ DOMAIN q = 1 .. l /\ DOMAIN s = 1 .. m OBVIOUS
  <1>2. w \in Seq(Nat) /\ DOMAIN w = 1 .. l + m BY <1>1
  <1>3. \A p \in 1 .. l + m : w[p] = IF p <= l THEN q[p] ELSE s[p - l] BY <1>1
  <1> HIDE DEF w, l, m
  <1>4. ASSUME NEW p \in 1 .. l + m, NEW r \in 1 .. l + m, p < r PROVE w[p] < w[r]
    <2>1. CASE r <= l
      <3>1. p \in 1 .. l /\ r \in 1 .. l BY <1>1, <1>4, <2>1
      <3>2. w[p] = q[p] /\ w[r] = q[r] BY <1>3, <3>1, <2>1
      <3> QED BY <1>1, <1>4, <3>1, <3>2 DEF Rising
    <2>2. CASE p <= l /\ ~ (r <= l)
      <3>1. p \in 1 .. l /\ r - l \in 1 .. m BY <1>1, <2>2
      <3>2. w[p] = q[p] /\ w[r] = s[r - l] BY <1>3, <2>2
      <3>3. q[p] \in ToSet(q) /\ s[r - l] \in ToSet(s) BY <1>1, <3>1 DEF ToSet
      <3> QED BY <3>2, <3>3
    <2>3. CASE ~ (p <= l)
      <3>1. p - l \in 1 .. m /\ r - l \in 1 .. m /\ p - l < r - l /\ ~ (r <= l)
        BY <1>1, <1>4, <2>3
      <3>2. w[p] = s[p - l] /\ w[r] = s[r - l] BY <1>3, <2>3, <3>1
      <3> QED BY <1>1, <3>1, <3>2 DEF Rising
    <2> QED BY <2>1, <2>2, <2>3
  <1>5. ToSet(w) = ToSet(q) \cup ToSet(s)
    <2>1. ASSUME NEW x \in ToSet(w) PROVE x \in ToSet(q) \cup ToSet(s)
      <3>1. PICK p \in 1 .. l + m : x = w[p] BY <1>2 DEF ToSet
      <3>2. CASE p <= l
        <4>1. p \in 1 .. l /\ w[p] = q[p] BY <1>1, <1>3, <3>1, <3>2
        <4> QED BY <1>1, <3>1, <4>1 DEF ToSet
      <3>3. CASE ~ (p <= l)
        <4>1. p - l \in 1 .. m /\ w[p] = s[p - l] BY <1>1, <1>3, <3>1, <3>3
        <4> QED BY <1>1, <3>1, <4>1 DEF ToSet
      <3> QED BY <3>2, <3>3
    <2>2. ASSUME NEW x \in ToSet(q) PROVE x \in ToSet(w)
      <3>1. PICK p \in 1 .. l : x = q[p] BY <1>1 DEF ToSet
      <3>2. p \in 1 .. l + m /\ w[p] = q[p] BY <1>1, <1>3, <3>1
      <3> QED BY <1>2, <3>1, <3>2 DEF ToSet
    <2>3. ASSUME NEW x \in ToSet(s) PROVE x \in ToSet(w)
      <3>1. PICK p \in 1 .. m : x = s[p] BY <1>1 DEF ToSet
      <3>2. l + p \in 1 .. l + m /\ ~ (l + p <= l) /\ (l + p) - l = p BY <1>1, <3>1
      <3>3. w[l + p] = s[p] BY <1>3, <3>2
      <3> QED BY <1>2, <3>1, <3>2, <3>3 DEF ToSet
    <2> QED BY <2>1, <2>2, <2>3
  <1> QED BY <1>2, <1>4, <1>5 DEF w, Rising

\* A sequence of one, and of none.
LEMMA SingleRises ==
    /\ \A x \in Nat : <<x>> \in Seq(Nat) /\ Rising(<<x>>) /\ ToSet(<<x>>) = {x}
    /\ <<>> \in Seq(Nat) /\ Rising(<<>>) /\ ToSet(<<>>) = {}
  <1>1. ASSUME NEW x \in Nat PROVE <<x>> \in Seq(Nat) /\ Rising(<<x>>) /\ ToSet(<<x>>) = {x}
    <2> DEFINE q == <<x>>
    <2>1. q \in Seq(Nat) /\ DOMAIN q = {1} /\ q[1] = x OBVIOUS
    <2> HIDE DEF q
    <2>2. Rising(q) BY <2>1 DEF Rising
    <2>3. ToSet(q) = {x} BY <2>1 DEF ToSet
    <2> QED BY <2>1, <2>2, <2>3 DEF q
  <1>2. <<>> \in Seq(Nat) /\ Rising(<<>>) /\ ToSet(<<>>) = {}
    <2> DEFINE q == <<>>
    <2>1. q \in Seq(Nat) /\ DOMAIN q = {} OBVIOUS
    <2> HIDE DEF q
    <2>2. Rising(q) BY <2>1 DEF Rising
    <2>3. ToSet(q) = {} BY <2>1 DEF ToSet
    <2> QED BY <2>1, <2>2, <2>3 DEF q
  <1> QED BY <1>1, <1>2

\* Sets that are matched by a function have as many elements.
LEMMA MatchedSets ==
    ASSUME NEW S, NEW T, IsFiniteSet(S), NEW g, \A x \in S : g[x] \in T,
           \A x, y \in S : g[x] = g[y] => x = y, \A t \in T : \E x \in S : g[x] = t
    PROVE  IsFiniteSet(T) /\ Cardinality(T) = Cardinality(S)
  <1> DEFINE h == [x \in S |-> g[x]]
  <1>1. h \in [S -> T] /\ \A x \in S : h[x] = g[x] OBVIOUS
  <1> HIDE DEF h
  <1>2. h \in Bijection(S, T) BY <1>1 DEF Bijection, Injection, Surjection, IsInjective
  <1> QED BY <1>2, FS_Bijection DEF ExistsBijection

\* Nothing is in a sequence twice.
Once(q) == \A p, r \in DOMAIN q : q[p] = q[r] => p = r

\* How often something is in joined sequences that have it at most once: once for each
\* that has it.
LEMMA FlatCount ==
    ASSUME NEW X, NEW seqs \in Seq(Seq(X)), \A i \in DOMAIN seqs : Once(seqs[i]), NEW x
    PROVE  Cardinality({p \in DOMAIN FlattenSeq(seqs) : FlattenSeq(seqs)[p] = x})
              = Cardinality({i \in DOMAIN seqs : x \in ToSet(seqs[i])})
  <1> DEFINE q == FlattenSeq(seqs)
             S == {p \in DOMAIN q : q[p] = x}
             T == {i \in DOMAIN seqs : x \in ToSet(seqs[i])}
  <1>1. PICK piece, spot : Laid(q, seqs, Len(seqs), piece, spot) BY FlatPlaces
  <1>2. DOMAIN seqs = 1 .. Len(seqs) OBVIOUS
  <1>3. q \in Seq(X) BY FlatPlaces
  <1>0. \A i \in DOMAIN seqs : seqs[i] \in Seq(X) OBVIOUS
  <1> HIDE DEF q
  <1>4. IsFiniteSet(S)
    <2>1. IsFiniteSet(1 .. Len(q)) /\ DOMAIN q = 1 .. Len(q) BY <1>3, FS_Interval
    <2>2. S \in SUBSET (1 .. Len(q)) BY <2>1
    <2> HIDE DEF S
    <2> QED BY <2>1, <2>2, FS_Subset
  <1>5. \A p \in S : piece[p] \in T BY <1>1, <1>2 DEF Laid, ToSet
  <1>6. ASSUME NEW p \in S, NEW r \in S, piece[p] = piece[r] PROVE p = r
    <2>1. /\ piece[p] \in DOMAIN seqs /\ spot[p] \in DOMAIN seqs[piece[p]]
          /\ spot[r] \in DOMAIN seqs[piece[p]]
          /\ seqs[piece[p]][spot[p]] = seqs[piece[p]][spot[r]]
      BY <1>1, <1>2, <1>6 DEF Laid
    <2>2. seqs[piece[p]] \in Seq(X) /\ Once(seqs[piece[p]]) BY <1>0, <2>1
    <2>3. spot[p] = spot[r] BY <2>1, <2>2 DEF Once
    <2>4. p \in DOMAIN q /\ r \in DOMAIN q OBVIOUS
    <2>6. p \in Nat /\ r \in Nat BY <1>3, <2>4
    <2>7. spot[p] \in Nat /\ spot[r] \in Nat
      <3> DEFINE s == seqs[piece[p]]
      <3>1. s \in Seq(X) /\ spot[p] \in DOMAIN s /\ spot[r] \in DOMAIN s BY <2>1, <2>2
      <3> HIDE DEF s
      <3> QED BY <3>1
    <2>8. piece[p] \in Nat /\ piece[r] \in Nat BY <1>2, <1>6, <2>1
    <2>5. ~ (p < r) /\ ~ (r < p)
      <3>1. /\ p < r => piece[p] < piece[r] \/ spot[p] < spot[r]
            /\ r < p => piece[r] < piece[p] \/ spot[r] < spot[p]
        BY <1>1, <2>4 DEF Laid
      <3> QED BY <1>6, <2>3, <2>7, <2>8, <3>1
    <2> QED BY <2>5, <2>6
  <1>7. ASSUME NEW i \in T PROVE \E p \in S : piece[p] = i
    <2>0. i \in 1 .. Len(seqs) BY <1>2
    <2>1. PICK k \in DOMAIN seqs[i] : x = seqs[i][k] BY DEF ToSet
    <2>2. PICK p \in DOMAIN q : piece[p] = i /\ spot[p] = k BY <1>1, <2>0, <2>1 DEF Laid
    <2>3. q[p] = x BY <1>1, <2>1, <2>2 DEF Laid
    <2> QED BY <2>2, <2>3
  <1> HIDE DEF S, T
  <1>8. Cardinality(T) = Cardinality(S) BY <1>4, <1>5, <1>6, <1>7, MatchedSets
  <1> QED BY <1>8 DEF S, T, q

\* A rising sequence has as many places with something in S as it has in S.
LEMMA RisingCount ==
    ASSUME NEW q \in Seq(Nat), Rising(q), NEW S
    PROVE  Cardinality({p \in DOMAIN q : q[p] \in S}) = Cardinality(ToSet(q) \cap S)
  <1> DEFINE P == {p \in DOMAIN q : q[p] \in S}
             T == ToSet(q) \cap S
  <1>1. IsFiniteSet(P)
    <2>1. IsFiniteSet(1 .. Len(q)) /\ DOMAIN q = 1 .. Len(q) BY FS_Interval
    <2>2. P \in SUBSET (1 .. Len(q)) BY <2>1
    <2> HIDE DEF P
    <2> QED BY <2>1, <2>2, FS_Subset
  <1>2. \A p \in P : q[p] \in T BY DEF ToSet
  <1>3. \A p, r \in P : q[p] = q[r] => p = r BY RisingOnce
  <1>4. \A t \in T : \E p \in P : q[p] = t BY DEF ToSet
  <1> HIDE DEF P, T
  <1>5. Cardinality(T) = Cardinality(P) BY <1>1, <1>2, <1>3, <1>4, MatchedSets
  <1> QED BY <1>5 DEF P, T

-----------------------------------------------------------------------------
(* The elements above an element.                                            *)

Kinds == {"chapter", "article", "appdx_table", "paragraph", "item", "subitem1", "column",
          "table_struct", "table", "table_row", "table_column", "remarks"}

Element == [kind : Kinds, under : Nat, odd : BOOLEAN, again : BOOLEAN]

\* A document: each element is below an earlier one or the law.
Tree(x) ==
    /\ x \in Seq(Element)
    /\ \A e \in 1 .. Len(x) : x[e].under \in 0 .. e - 1

\* Above, unfolded once; up has the elements above each.
AboveOf(x, up, e) == IF e = 0 THEN {} ELSE {x[e].under} \cup up[x[e].under]

IsUp(x, up, k) == up = [e \in 0 .. k |-> AboveOf(x, up, e)]

AboveIn(x, e) == (CHOOSE up : IsUp(x, up, Len(x)))[e]

KindIn(x, e) == IF e = 0 THEN "law" ELSE x[e].kind

\* The length of a document is a number.
LEMMA TreeFacts ==
    ASSUME NEW x, Tree(x)
    PROVE  /\ Len(x) \in Nat /\ DOMAIN x = 1 .. Len(x)
           /\ \A e \in 1 .. Len(x) : x[e] \in Element /\ x[e].under \in 0 .. e - 1
           /\ \A e \in 1 .. Len(x) : x[e].kind \in Kinds /\ x[e].odd \in BOOLEAN
  <1>1. x \in Seq(Element) BY DEF Tree
  <1>2. \A y \in Element : y.kind \in Kinds /\ y.odd \in BOOLEAN BY DEF Element
  <1>3. Len(x) \in Nat /\ DOMAIN x = 1 .. Len(x) /\ \A e \in 1 .. Len(x) : x[e] \in Element
    BY <1>1
  <1> QED BY <1>2, <1>3 DEF Tree

\* The recursion of Above has a solution.
LEMMA UpExists ==
    ASSUME NEW x, Tree(x)
    PROVE  \E up : IsUp(x, up, Len(x))
  <1> DEFINE Good == {k \in 0 .. Len(x) : \E up : IsUp(x, up, k)}
  <1>1. Len(x) \in Nat BY TreeFacts
  <1>2. 0 \in Good
    <2> DEFINE up == [e \in 0 .. 0 |-> {}]
    <2>1. IsUp(x, up, 0) BY DEF IsUp, AboveOf
    <2> HIDE DEF up
    <2> QED BY <1>1, <2>1
  <1>3. ASSUME NEW k \in 1 .. Len(x), k - 1 \in Good PROVE k \in Good
    <2>1. PICK up : IsUp(x, up, k - 1) BY <1>3
    <2> DEFINE more == [e \in 0 .. k |-> IF e = k THEN AboveOf(x, up, k) ELSE up[e]]
    <2>2. ASSUME NEW e \in 0 .. k PROVE AboveOf(x, more, e) = AboveOf(x, up, e)
      <3>1. CASE e = 0 BY <3>1 DEF AboveOf
      <3>2. CASE e # 0
        <4>1. e \in 1 .. Len(x) BY <1>1, <3>2
        <4>2. x[e].under \in 0 .. e - 1 BY <4>1, TreeFacts
        <4>3. x[e].under \in 0 .. k - 1 BY <4>2
        <4>4. more[x[e].under] = up[x[e].under] BY <4>3
        <4> HIDE DEF more
        <4> QED BY <4>4 DEF AboveOf
      <3> QED BY <3>1, <3>2
    <2>3. ASSUME NEW e \in 0 .. k PROVE more[e] = AboveOf(x, more, e)
      <3>1. CASE e = k BY <2>2, <3>1
      <3>2. CASE e # k
        <4>1. e \in 0 .. k - 1 BY <3>2
        <4>2. more[e] = up[e] BY <3>2
        <4>3. up[e] = AboveOf(x, up, e) BY <2>1, <4>1 DEF IsUp
        <4> QED BY <2>2, <4>2, <4>3
      <3> QED BY <3>1, <3>2
    <2>4. IsUp(x, more, k)
      <3>1. more = [e \in 0 .. k |-> more[e]] OBVIOUS
      <3> HIDE DEF more
      <3> QED BY <2>3, <3>1 DEF IsUp
    <2> HIDE DEF more
    <2> QED BY <2>4
  <1> HIDE DEF Good
  <1>4. \A k \in 0 .. Len(x) : k \in Good BY <1>1, <1>2, <1>3, UpToIsIn
  <1>5. Len(x) \in Good BY <1>1, <1>4
  <1> QED BY <1>5 DEF Good

\* So Above unfolds.
LEMMA AboveUnfolded ==
    ASSUME NEW x, Tree(x)
    PROVE  /\ AboveIn(x, 0) = {}
           /\ \A e \in 1 .. Len(x) :
                 AboveIn(x, e) = {x[e].under} \cup AboveIn(x, x[e].under)
  <1> DEFINE up == CHOOSE u : IsUp(x, u, Len(x))
  <1>1. IsUp(x, up, Len(x)) BY UpExists
  <1>2. Len(x) \in Nat BY TreeFacts
  <1>3. \A e : AboveIn(x, e) = up[e] BY DEF AboveIn
  <1> HIDE DEF up
  <1>4. \A e \in 0 .. Len(x) : up[e] = AboveOf(x, up, e) BY <1>1 DEF IsUp
  <1>5. up[0] = {}
    <2>1. 0 \in 0 .. Len(x) BY <1>2
    <2>2. up[0] = AboveOf(x, up, 0) BY <1>4, <2>1
    <2> QED BY <2>2 DEF AboveOf
  <1>6. ASSUME NEW e \in 1 .. Len(x) PROVE up[e] = {x[e].under} \cup up[x[e].under]
    <2>1. e \in 0 .. Len(x) /\ e # 0 BY <1>2
    <2>2. up[e] = AboveOf(x, up, e) BY <1>4, <2>1
    <2> QED BY <2>1, <2>2 DEF AboveOf
  <1> QED BY <1>3, <1>5, <1>6

\* What is above an element is before it.
LEMMA AboveIsBefore ==
    ASSUME NEW x, Tree(x), NEW e \in 0 .. Len(x)
    PROVE  AboveIn(x, e) \subseteq 0 .. e - 1
  <1> DEFINE Bad == {i \in 0 .. Len(x) : ~ (AboveIn(x, i) \subseteq 0 .. i - 1)}
  <1>1. SUFFICES ASSUME Bad # {} PROVE FALSE BY <1>1
  <1>2. PICK m \in Bad : \A i \in Bad : m <= i
    <2>1. Bad \subseteq Nat OBVIOUS
    <2> HIDE DEF Bad
    <2> QED BY <1>1, <2>1, LeastNumber
  <1>3. Len(x) \in Nat BY TreeFacts
  <1>4. m # 0 BY <1>2, AboveUnfolded
  <1>5. m \in 1 .. Len(x) BY <1>2, <1>3, <1>4
  <1> DEFINE u == x[m].under
  <1>6. u \in 0 .. m - 1 BY <1>5, TreeFacts
  <1>7. AboveIn(x, m) = {u} \cup AboveIn(x, u) BY <1>5, AboveUnfolded
  <1> HIDE DEF u
  <1>8. u \in 0 .. Len(x) /\ u \notin Bad BY <1>2, <1>3, <1>5, <1>6
  <1>9. AboveIn(x, u) \subseteq 0 .. u - 1 BY <1>8
  <1>10. AboveIn(x, m) \subseteq 0 .. m - 1 BY <1>5, <1>6, <1>7, <1>9
  <1> QED BY <1>2, <1>10

\* What is above something above is above.
LEMMA AboveIsUp ==
    ASSUME NEW x, Tree(x), NEW e \in 0 .. Len(x), NEW a \in AboveIn(x, e)
    PROVE  AboveIn(x, a) \subseteq AboveIn(x, e)
  <1> DEFINE Bad == {i \in 0 .. Len(x) : ~ (\A b \in AboveIn(x, i) : AboveIn(x, b) \subseteq AboveIn(x, i))}
  <1>1. SUFFICES ASSUME Bad # {} PROVE FALSE BY <1>1
  <1>2. PICK m \in Bad : \A i \in Bad : m <= i
    <2>1. Bad \subseteq Nat OBVIOUS
    <2> HIDE DEF Bad
    <2> QED BY <1>1, <2>1, LeastNumber
  <1>3. Len(x) \in Nat BY TreeFacts
  <1>4. m # 0 BY <1>2, AboveUnfolded
  <1>5. m \in 1 .. Len(x) BY <1>2, <1>3, <1>4
  <1> DEFINE u == x[m].under
  <1>6. u \in 0 .. m - 1 BY <1>5, TreeFacts
  <1>7. AboveIn(x, m) = {u} \cup AboveIn(x, u) BY <1>5, AboveUnfolded
  <1> HIDE DEF u
  <1>8. u \in 0 .. Len(x) /\ u \notin Bad BY <1>2, <1>3, <1>5, <1>6
  <1>9. \A b \in AboveIn(x, u) : AboveIn(x, b) \subseteq AboveIn(x, u) BY <1>8
  <1>10. \A b \in AboveIn(x, m) : AboveIn(x, b) \subseteq AboveIn(x, m) BY <1>7, <1>9
  <1> QED BY <1>2, <1>10

\* Something above an element has a child there.
LEMMA ChildAbove ==
    ASSUME NEW x, Tree(x), NEW e \in 0 .. Len(x), NEW a \in AboveIn(x, e)
    PROVE  \E c \in 1 .. Len(x) : x[c].under = a /\ (c = e \/ c \in AboveIn(x, e))
  <1> DEFINE Has(i, b) == \E c \in 1 .. Len(x) : x[c].under = b /\ (c = i \/ c \in AboveIn(x, i))
             Bad == {i \in 0 .. Len(x) : ~ (\A b \in AboveIn(x, i) : Has(i, b))}
  <1>1. SUFFICES ASSUME Bad # {} PROVE FALSE BY <1>1
  <1>2. PICK m \in Bad : \A i \in Bad : m <= i
    <2>1. Bad \subseteq Nat OBVIOUS
    <2> HIDE DEF Bad
    <2> QED BY <1>1, <2>1, LeastNumber
  <1>3. Len(x) \in Nat BY TreeFacts
  <1>4. m # 0 BY <1>2, AboveUnfolded
  <1>5. m \in 1 .. Len(x) BY <1>2, <1>3, <1>4
  <1> DEFINE u == x[m].under
  <1>6. u \in 0 .. m - 1 BY <1>5, TreeFacts
  <1>7. AboveIn(x, m) = {u} \cup AboveIn(x, u) BY <1>5, AboveUnfolded
  <1>11. Has(m, u) BY <1>5
  <1> HIDE DEF u
  <1>8. u \in 0 .. Len(x) /\ u \notin Bad BY <1>2, <1>3, <1>5, <1>6
  <1>9. \A b \in AboveIn(x, u) : Has(u, b) BY <1>8
  <1>10. ASSUME NEW b \in AboveIn(x, u) PROVE Has(m, b)
    <2>1. PICK c \in 1 .. Len(x) : x[c].under = b /\ (c = u \/ c \in AboveIn(x, u)) BY <1>9
    <2>2. c \in AboveIn(x, m) BY <1>7, <2>1
    <2> QED BY <2>1, <2>2
  <1> QED BY <1>2, <1>7, <1>10, <1>11

\* What is above an element stays when the document goes on.
LEMMA AboveGrows ==
    ASSUME NEW x, Tree(x), NEW r, Tree(Append(x, r)), NEW e \in 0 .. Len(x)
    PROVE  AboveIn(Append(x, r), e) = AboveIn(x, e)
  <1> DEFINE y == Append(x, r)
             Bad == {i \in 0 .. Len(x) : AboveIn(y, i) # AboveIn(x, i)}
  <1>0. x \in Seq(Element) BY DEF Tree
  <1>3. Len(x) \in Nat BY TreeFacts
  <1>11. Len(y) = Len(x) + 1 /\ \A i \in 1 .. Len(x) : y[i] = x[i] BY <1>0
  <1>12. Tree(y) OBVIOUS
  <1> HIDE DEF y
  <1>1. SUFFICES ASSUME Bad # {} PROVE FALSE BY <1>1 DEF y
  <1>2. PICK m \in Bad : \A i \in Bad : m <= i
    <2>1. Bad \subseteq Nat OBVIOUS
    <2> HIDE DEF Bad
    <2> QED BY <1>1, <2>1, LeastNumber
  <1>4. m # 0 BY <1>2, <1>12, AboveUnfolded
  <1>5. m \in 1 .. Len(x) /\ m \in 1 .. Len(y) BY <1>2, <1>3, <1>4, <1>11
  <1> DEFINE u == x[m].under
  <1>6. u \in 0 .. m - 1 BY <1>5, TreeFacts
  <1>7. AboveIn(x, m) = {u} \cup AboveIn(x, u) BY <1>5, AboveUnfolded
  <1>9. AboveIn(y, m) = {u} \cup AboveIn(y, u) BY <1>5, <1>11, <1>12, AboveUnfolded
  <1> HIDE DEF u
  <1>8. u \in 0 .. Len(x) /\ u \notin Bad BY <1>2, <1>3, <1>5, <1>6
  <1> QED BY <1>2, <1>7, <1>8, <1>9

-----------------------------------------------------------------------------
(* The invariant.                                                            *)

\* An element goes on below the one before it or below one above that, as the schema
\* allows; a paragraph without a number is the first of its article, a paragraph of the
\* law itself is before every article, and the columns of an item follow it.
PlacedIn(x, e) ==
    /\ x[e].under \in {e - 1} \cup AboveIn(x, e - 1)
    /\ x[e].kind \in ChildKinds(KindIn(x, x[e].under))
    /\ x[e].kind = "paragraph" /\ x[e].odd => x[e].under = e - 1 /\ KindIn(x, e - 1) = "article"
    /\ x[e].kind = "paragraph" /\ x[e].under = 0 => \A r \in 1 .. e : x[r].kind \notin RootKinds
    /\ x[e].kind = "column" =>
          \/ x[e].under = e - 1
          \/ KindIn(x, e - 1) = "column" /\ x[e - 1].under = x[e].under

PageInv ==
    /\ Tree(xml)
    /\ \A e \in 1 .. Len(xml) : PlacedIn(xml, e)
    /\ linked \in Seq(Nat \X Nat)

\* The kinds that can be above one.
KindsAbove(kind) ==
    CASE kind = "law"          -> {}
      [] kind = "chapter"      -> {"law"}
      [] kind = "article"      -> {"law", "chapter"}
      [] kind = "appdx_table"  -> {"law"}
      [] kind = "paragraph"    -> {"law", "chapter", "article"}
      [] kind = "table_struct" -> {"law", "chapter", "article", "appdx_table", "paragraph"}
      [] kind \in {"table", "remarks"} ->
            {"law", "chapter", "article", "appdx_table", "paragraph", "table_struct"}
      [] kind = "table_row"    ->
            {"law", "chapter", "article", "appdx_table", "paragraph", "table_struct", "table"}
      [] kind = "table_column" ->
            {"law", "chapter", "article", "appdx_table", "paragraph", "table_struct", "table",
             "table_row"}
      [] kind = "item"         ->
            {"law", "chapter", "article", "appdx_table", "paragraph", "table_struct", "table",
             "table_row", "table_column", "remarks"}
      [] kind = "subitem1"     ->
            {"law", "chapter", "article", "appdx_table", "paragraph", "table_struct", "table",
             "table_row", "table_column", "remarks", "item"}
      [] OTHER                 ->
            {"law", "chapter", "article", "appdx_table", "paragraph", "table_struct", "table",
             "table_row", "table_column", "remarks", "item", "subitem1"}

\* What the schema says of an element says it of those above it.
LEMMA SchemaFacts ==
    ASSUME NEW p \in Kinds \cup {"law"}, NEW k \in ChildKinds(p)
    PROVE  k \in Kinds /\ p \in KindsAbove(k) /\ KindsAbove(p) \subseteq KindsAbove(k)
  <1>1. CASE p = "law" BY <1>1 DEF ChildKinds, KindsAbove, Kinds
  <1>2. CASE p = "chapter" BY <1>2 DEF ChildKinds, KindsAbove, Kinds
  <1>3. CASE p = "article" BY <1>3 DEF ChildKinds, KindsAbove, Kinds
  <1>4. CASE p = "appdx_table" BY <1>4 DEF ChildKinds, KindsAbove, Kinds
  <1>5. CASE p = "paragraph" BY <1>5 DEF ChildKinds, KindsAbove, Kinds
  <1>6. CASE p = "item" BY <1>6 DEF ChildKinds, KindsAbove, Kinds
  <1>7. CASE p = "subitem1" BY <1>7 DEF ChildKinds, KindsAbove, Kinds
  <1>8. CASE p = "table_struct" BY <1>8 DEF ChildKinds, KindsAbove, Kinds
  <1>9. CASE p = "table" BY <1>9 DEF ChildKinds, KindsAbove, Kinds
  <1>10. CASE p = "table_row" BY <1>10 DEF ChildKinds, KindsAbove, Kinds
  <1>11. CASE p = "table_column" BY <1>11 DEF ChildKinds, KindsAbove, Kinds
  <1>12. CASE p = "remarks" BY <1>12 DEF ChildKinds, KindsAbove, Kinds
  <1>13. CASE p = "column" BY <1>13 DEF ChildKinds
  <1> QED BY <1>1, <1>2, <1>3, <1>4, <1>5, <1>6, <1>7, <1>8, <1>9, <1>10, <1>11, <1>12, <1>13
      DEF Kinds

\* What the invariant says, in the words of the module.
LEMMA PageFacts ==
    ASSUME PageInv
    PROVE  /\ Len(xml) \in Nat /\ Elements = 1 .. Len(xml)
           /\ Above(0) = {}
           /\ \A e \in Elements :
                 /\ e \in Nat /\ e # 0
                 /\ xml[e].under \in 0 .. e - 1
                 /\ xml[e].under = 0 \/ xml[e].under \in Elements
                 /\ e - 1 = 0 \/ e - 1 \in Elements
                 /\ xml[e].kind \in Kinds /\ KindOf(e) = xml[e].kind
                 /\ Above(e) = {xml[e].under} \cup Above(xml[e].under)
                 /\ Above(e) \subseteq 0 .. e - 1
  <1>1. Tree(xml) BY DEF PageInv
  <1>2. \A e : Above(e) = AboveIn(xml, e) BY DEF Above, AboveIn, IsUp, AboveOf
  <1>3. Len(xml) \in Nat /\ Elements = 1 .. Len(xml) BY <1>1, TreeFacts DEF Elements
  <1>4. Above(0) = {} BY <1>1, <1>2, AboveUnfolded
  <1>5. ASSUME NEW e \in Elements
        PROVE  /\ e \in Nat /\ e # 0
               /\ xml[e].under \in 0 .. e - 1
               /\ xml[e].under = 0 \/ xml[e].under \in Elements
               /\ e - 1 = 0 \/ e - 1 \in Elements
               /\ xml[e].kind \in Kinds /\ KindOf(e) = xml[e].kind
               /\ Above(e) = {xml[e].under} \cup Above(xml[e].under)
               /\ Above(e) \subseteq 0 .. e - 1
    <2>1. e \in 1 .. Len(xml) /\ e \in 0 .. Len(xml) /\ e \in Nat /\ e # 0 BY <1>3
    <2>2. xml[e].under \in 0 .. e - 1 /\ xml[e].kind \in Kinds BY <1>1, <2>1, TreeFacts
    <2>3. xml[e].under = 0 \/ xml[e].under \in Elements
      <3> DEFINE u == xml[e].under
      <3>1. u \in 0 .. e - 1 BY <2>2
      <3> HIDE DEF u
      <3>2. u = 0 \/ u \in Elements BY <1>3, <2>1, <3>1
      <3> QED BY <3>2 DEF u
    <2>4. KindOf(e) = xml[e].kind BY <2>1 DEF KindOf
    <2>5. Above(e) = {xml[e].under} \cup Above(xml[e].under) BY <1>1, <1>2, <2>1, AboveUnfolded
    <2>6. Above(e) \subseteq 0 .. e - 1 BY <1>1, <1>2, <2>1, AboveIsBefore
    <2>7. e - 1 = 0 \/ e - 1 \in Elements BY <1>3, <2>1
    <2> QED BY <2>1, <2>2, <2>3, <2>4, <2>5, <2>6, <2>7
  <1> QED BY <1>3, <1>4, <1>5

\* What is above an element is the law or an element, with all that is above it.
LEMMA AboveFacts ==
    ASSUME PageInv, NEW e \in Elements, NEW a \in Above(e)
    PROVE  /\ a = 0 \/ a \in Elements
           /\ a \in Nat /\ a < e
           /\ Above(a) \subseteq Above(e)
  <1>1. \A i : Above(i) = AboveIn(xml, i) BY DEF Above, AboveIn, IsUp, AboveOf
  <1>2. Tree(xml) BY DEF PageInv
  <1>3. Len(xml) \in Nat /\ e \in 1 .. Len(xml) /\ e \in 0 .. Len(xml) /\ a \in 0 .. e - 1
    BY PageFacts
  <1>4. Above(a) \subseteq Above(e) BY <1>1, <1>2, <1>3, AboveIsUp
  <1>5. a = 0 \/ a \in 1 .. Len(xml) BY <1>3
  <1> QED BY <1>3, <1>4, <1>5, PageFacts

\* Where an element may stand.
LEMMA PlaceFacts ==
    ASSUME PageInv, NEW e \in Elements
    PROVE  /\ xml[e].under = e - 1 \/ xml[e].under \in Above(e - 1)
           /\ xml[e].kind \in ChildKinds(KindOf(xml[e].under))
           /\ xml[e].kind = "paragraph" /\ xml[e].odd =>
                 xml[e].under = e - 1 /\ KindOf(e - 1) = "article"
           /\ xml[e].kind = "paragraph" /\ xml[e].under = 0 =>
                 \A r \in 1 .. e : xml[r].kind \notin RootKinds
           /\ xml[e].kind = "column" =>
                 \/ xml[e].under = e - 1
                 \/ KindOf(e - 1) = "column" /\ xml[e - 1].under = xml[e].under
  <1>1. \A i : Above(i) = AboveIn(xml, i) BY DEF Above, AboveIn, IsUp, AboveOf
  <1>2. \A i : KindOf(i) = KindIn(xml, i) BY DEF KindOf, KindIn
  <1>3. PlacedIn(xml, e) BY PageFacts DEF PageInv
  <1> QED BY <1>1, <1>2, <1>3 DEF PlacedIn

\* The kinds above an element are those the schema allows there.
LEMMA KindAbove ==
    ASSUME PageInv, NEW e \in Elements, NEW a \in Above(e)
    PROVE  KindOf(a) \in KindsAbove(xml[e].kind)
  <1> DEFINE Bad == {i \in Elements : ~ (\A b \in Above(i) : KindOf(b) \in KindsAbove(xml[i].kind))}
  <1>1. SUFFICES ASSUME Bad # {} PROVE FALSE BY <1>1
  <1>2. PICK m \in Bad : \A i \in Bad : m <= i
    <2>1. Bad \subseteq Nat BY PageFacts
    <2> HIDE DEF Bad
    <2> QED BY <1>1, <2>1, LeastNumber
  <1>3. m \in Elements BY <1>2
  <1> DEFINE u == xml[m].under
             k == xml[m].kind
  <1>4. u \in 0 .. m - 1 /\ m \in Nat /\ (u = 0 \/ u \in Elements)
        /\ Above(m) = {u} \cup Above(u)
    BY <1>3, PageFacts
  <1>5. k \in ChildKinds(KindOf(u)) BY <1>3, PlaceFacts
  <1>6. KindOf(u) \in Kinds \cup {"law"} BY <1>4, PageFacts DEF KindOf
  <1> HIDE DEF u
  <1>7. KindOf(u) \in KindsAbove(k) /\ KindsAbove(KindOf(u)) \subseteq KindsAbove(k)
    <2> HIDE DEF k
    <2> QED BY <1>5, <1>6, SchemaFacts
  <1>8. ASSUME NEW b \in Above(u) PROVE KindOf(b) \in KindsAbove(KindOf(u))
    <2>1. u # 0 BY <1>8, PageFacts
    <2>2. u \in Elements /\ u < m BY <1>4, <2>1
    <2>3. u \notin Bad BY <1>2, <1>4, <2>2
    <2>4. KindOf(u) = xml[u].kind BY <2>2, PageFacts
    <2> QED BY <2>2, <2>3, <2>4
  <1>9. \A b \in Above(m) : KindOf(b) \in KindsAbove(k) BY <1>4, <1>7, <1>8
  <1> QED BY <1>2, <1>9

\* What is between an element and one above it is below that, too.
LEMMA Between ==
    ASSUME PageInv, NEW e \in Elements, NEW a \in Above(e), NEW y \in Elements, a < y, y <= e
    PROVE  a \in Above(y)
  <1> DEFINE Good == {k \in 0 .. e - y : a \in Above(e - k)}
  <1>1. e \in Nat /\ y \in Nat /\ Elements = 1 .. Len(xml) /\ Len(xml) \in Nat /\ a \in Nat
    BY PageFacts, AboveFacts
  <1>2. 0 \in Good BY <1>1
  <1>3. ASSUME NEW k \in 1 .. e - y, k - 1 \in Good PROVE k \in Good
    <2> DEFINE i == e - (k - 1)
               u == xml[i].under
    <2>1. i \in Elements /\ i - 1 = e - k /\ a < i - 1 /\ i - 1 \in Elements BY <1>1
    <2>2. a \in Above(i) BY <1>3
    <2>3. u = i - 1 \/ u \in Above(i - 1) BY <2>1, PlaceFacts
    <2>4. Above(i) = {u} \cup Above(u) BY <2>1, PageFacts
    <2> HIDE DEF i, u
    <2>5. a \in Above(i - 1)
      <3>1. CASE u = i - 1
        <4>1. a # u BY <1>1, <2>1, <3>1
        <4> QED BY <2>2, <2>4, <3>1, <4>1
      <3>2. CASE u \in Above(i - 1)
        <4>1. Above(u) \subseteq Above(i - 1) BY <2>1, <3>2, AboveFacts
        <4> QED BY <2>2, <2>4, <3>2, <4>1
      <3> QED BY <2>3, <3>1, <3>2
    <2>6. k \in 0 .. e - y BY <1>1
    <2> QED BY <2>1, <2>5, <2>6
  <1> HIDE DEF Good
  <1>4. e - y \in Nat BY <1>1
  <1>5. \A k \in 0 .. e - y : k \in Good BY <1>2, <1>3, <1>4, UpToIsIn
  <1>6. a \in Above(e - (e - y)) BY <1>4, <1>5 DEF Good
  <1>7. e - (e - y) = y BY <1>1
  <1> QED BY <1>6, <1>7

-----------------------------------------------------------------------------
(* The document goes on.                                                     *)

\* The places of the elements before stay as they are.
LEMMA PlacedGrows ==
    ASSUME NEW x, Tree(x), NEW r, Tree(Append(x, r)), NEW e \in 1 .. Len(x), PlacedIn(x, e)
    PROVE  PlacedIn(Append(x, r), e)
  <1> DEFINE y == Append(x, r)
             u == x[e].under
  <1>0. x \in Seq(Element) BY DEF Tree
  <1>1. Len(x) \in Nat BY TreeFacts
  <1>2. \A i \in 1 .. Len(x) : y[i] = x[i] BY <1>0
  <1>3. \A i \in 0 .. Len(x) : AboveIn(y, i) = AboveIn(x, i) BY AboveGrows
  <1>4. e - 1 \in 0 .. Len(x) /\ e \in Nat BY <1>1
  <1>5. u \in 0 .. e - 1 BY TreeFacts
  <1> HIDE DEF y
  <1>6. \A i \in 0 .. Len(x) : KindIn(y, i) = KindIn(x, i)
    <2>1. ASSUME NEW i \in 0 .. Len(x) PROVE KindIn(y, i) = KindIn(x, i)
      <3>1. CASE i = 0 BY <3>1 DEF KindIn
      <3>2. CASE i # 0
        <4>1. i \in 1 .. Len(x) BY <1>1, <3>2
        <4> QED BY <1>2, <3>2, <4>1 DEF KindIn
      <3> QED BY <3>1, <3>2
    <2> QED BY <2>1
  <1>7. y[e] = x[e] BY <1>2
  <1>8. KindIn(y, u) = KindIn(x, u) /\ KindIn(y, e - 1) = KindIn(x, e - 1)
        /\ AboveIn(y, e - 1) = AboveIn(x, e - 1)
    <2>1. u \in 0 .. Len(x) BY <1>1, <1>5
    <2> QED BY <1>3, <1>4, <1>6, <2>1
  <1>9. KindIn(x, e - 1) = "column" => y[e - 1] = x[e - 1]
    <2>1. CASE e - 1 = 0 BY <2>1 DEF KindIn
    <2>2. CASE e - 1 # 0
      <3>1. e - 1 \in 1 .. Len(x) BY <1>4, <2>2
      <3> QED BY <1>2, <3>1
    <2> QED BY <2>1, <2>2
  <1>10. \A i \in 1 .. e : y[i] = x[i]
    <2>1. \A i \in 1 .. e : i \in 1 .. Len(x) BY <1>1
    <2> QED BY <1>2, <2>1
  <1>11. PlacedIn(y, e)
    BY <1>7, <1>8, <1>9, <1>10 DEF PlacedIn
  <1> QED BY <1>11 DEF y

\* Before every chapter, article and appendix there is one directly below the law.
LEMMA RootIsUnderLaw ==
    ASSUME PageInv, NEW r \in Elements, xml[r].kind \in RootKinds
    PROVE  \E c \in Elements : xml[c].under = 0 /\ xml[c].kind \in RootKinds
  <1> DEFINE u == xml[r].under
             v == xml[u].under
  <1>1. CASE u = 0 BY <1>1
  <1>2. CASE u # 0
    <2>1. u \in Elements /\ u \in Above(r) BY <1>2, PageFacts
    <2>2. KindOf(u) \in KindsAbove(xml[r].kind) BY <2>1, KindAbove
    <2>3. KindOf(u) = xml[u].kind /\ xml[u].kind \in Kinds BY <2>1, PageFacts
    <2>4. xml[u].kind = "chapter"
      <3>1. xml[u].kind \in {"law", "chapter"} BY <2>2, <2>3 DEF RootKinds, KindsAbove
      <3> QED BY <2>3, <3>1 DEF Kinds
    <2>5. v = 0
      <3>1. SUFFICES ASSUME v # 0 PROVE FALSE BY <3>1
      <3>2. v \in Elements /\ v \in Above(u) BY <2>1, <3>1, PageFacts
      <3>3. KindOf(v) \in KindsAbove(xml[u].kind) BY <2>1, <3>2, KindAbove
      <3>4. KindOf(v) = xml[v].kind /\ xml[v].kind \in Kinds BY <3>2, PageFacts
      <3>5. KindsAbove("chapter") = {"law"} BY DEF KindsAbove
      <3> QED BY <2>4, <3>3, <3>4, <3>5 DEF Kinds
    <2> QED BY <2>1, <2>4, <2>5 DEF RootKinds
  <1> QED BY <1>1, <1>2

LEMMA PageInvInit == PageInit => PageInv
  <1> SUFFICES ASSUME PageInit PROVE PageInv OBVIOUS
  <1>1. Tree(xml) BY DEF PageInit, Tree
  <1>2. \A e \in 1 .. Len(xml) : PlacedIn(xml, e) BY DEF PageInit
  <1>3. linked \in Seq(Nat \X Nat)
    <2>1. PICK n \in 0 .. MaxLinks : linked \in [1 .. n -> Places \X Places]
      BY Zenon DEF PageInit
    <2>2. Places \subseteq Nat BY PageAssumption DEF Places
    <2>3. n \in Nat BY PageAssumption, <2>1
    <2>4. linked \in [1 .. n -> Nat \X Nat] BY <2>1, <2>2
    <2> QED BY <2>3, <2>4
  <1> QED BY <1>1, <1>2, <1>3 DEF PageInv

LEMMA PageInvNext == PageInv /\ [PageNext]_pageVars => PageInv'
  <1> SUFFICES ASSUME PageInv, [PageNext]_pageVars PROVE PageInv' OBVIOUS
  <1>1. CASE UNCHANGED pageVars BY <1>1 DEF pageVars, PageInv
  <1>2. CASE NextElement
    <2> DEFINE l == Len(xml)
    <2>1. PICK e \in {l} \cup (IF xml = <<>> THEN {} ELSE Above(l)) :
            \E kind \in ChildKinds(KindOf(e)), odd \in BOOLEAN, again \in BOOLEAN :
              /\ again =>
                    kind = "column" /\ ~odd /\ KindOf(e) = "item" /\ Cardinality(Children(e)) = 1
              /\ odd => kind \in {"paragraph", "column", "table_column"}
              /\ odd /\ kind = "paragraph" => KindOf(e) = "article" /\ Children(e) = {}
              /\ e = 0 /\ kind = "paragraph" => \A c \in Children(e) : xml[c].kind = kind
              /\ \A c \in Children(e) : xml[c].kind # kind =>
                    /\ kind # "column"
                    /\ \A d \in Children(e) : xml[d].kind = kind => d > c
              /\ xml' = Append(xml, [kind |-> kind, under |-> e, odd |-> odd, again |-> again])
      BY <1>2 DEF NextElement
    <2>2. PICK kind \in ChildKinds(KindOf(e)), odd \in BOOLEAN, again \in BOOLEAN :
            /\ odd /\ kind = "paragraph" => KindOf(e) = "article" /\ Children(e) = {}
            /\ e = 0 /\ kind = "paragraph" => \A c \in Children(e) : xml[c].kind = kind
            /\ \A c \in Children(e) : xml[c].kind # kind => kind # "column"
            /\ xml' = Append(xml, [kind |-> kind, under |-> e, odd |-> odd, again |-> again])
      BY <2>1
    <2> DEFINE r == [kind |-> kind, under |-> e, odd |-> odd, again |-> again]
               y == Append(xml, r)
    <2>3. l \in Nat /\ Elements = 1 .. l BY PageFacts
    <2>4. e = l \/ (l \in Elements /\ e \in Above(l))
      <3>1. CASE e = l BY <3>1
      <3>2. CASE e # l
        <4>1. xml # <<>> /\ e \in Above(l) BY <3>2, <2>1
        <4>2. l # 0 BY <4>1, PageFacts
        <4> QED BY <2>3, <4>1, <4>2
      <3> QED BY <3>1, <3>2
    <2>5. e \in 0 .. l
      <3>1. l \in Elements /\ e \in Above(l) => e \in 0 .. l - 1 BY PageFacts
      <3> QED BY <2>3, <2>4, <3>1
    <2>6. KindOf(e) \in Kinds \cup {"law"}
      <3>1. e # 0 => e \in Elements BY <2>3, <2>5
      <3> QED BY <3>1, PageFacts DEF KindOf
    <2>7. kind \in Kinds BY <2>2, <2>6, SchemaFacts
    <2>8. Tree(xml) /\ xml \in Seq(Element) BY DEF PageInv, Tree
    <2>9. r \in Element /\ r.kind = kind /\ r.under = e /\ r.odd = odd
      BY <2>3, <2>5, <2>7 DEF Element
    <2> HIDE DEF r
    <2>10. /\ y \in Seq(Element) /\ Len(y) = l + 1 /\ y[l + 1] = r
           /\ \A i \in 1 .. l : y[i] = xml[i]
      BY <2>8, <2>9
    <2>11. xml' = y BY <2>2 DEF r
    <2> HIDE DEF y
    <2>12. Tree(y)
      <3>1. ASSUME NEW i \in 1 .. Len(y) PROVE y[i].under \in 0 .. i - 1
        <4>1. CASE i \in 1 .. l BY <2>8, <2>10, <4>1, TreeFacts
        <4>2. CASE i = l + 1 BY <2>3, <2>5, <2>9, <2>10, <4>2
        <4> QED BY <2>3, <2>10, <4>1, <4>2
      <3> QED BY <2>10, <3>1 DEF Tree
    <2>13. \A i \in 1 .. l : PlacedIn(xml, i) BY DEF PageInv
    <2>14. ASSUME NEW i \in 1 .. l PROVE PlacedIn(y, i)
      BY <2>8, <2>12, <2>13, PlacedGrows DEF y
    <2>15. \A i \in 0 .. l : AboveIn(y, i) = AboveIn(xml, i)
      BY <2>8, <2>12, AboveGrows DEF y
    <2>16. \A i : Above(i) = AboveIn(xml, i) BY DEF Above, AboveIn, IsUp, AboveOf
    <2>17. \A i \in 0 .. l : KindIn(y, i) = KindOf(i)
      <3>1. ASSUME NEW i \in 0 .. l PROVE KindIn(y, i) = KindOf(i)
        <4>1. i # 0 => i \in 1 .. l BY <2>3
        <4> QED BY <2>10, <4>1 DEF KindIn, KindOf
      <3> QED BY <3>1
    <2>18. PlacedIn(y, l + 1)
      <3>0. (l + 1) - 1 = l /\ l \in 0 .. l BY <2>3
      <3>1. y[l + 1].under \in {l} \cup AboveIn(y, l)
        BY <2>4, <2>9, <2>10, <2>15, <2>16, <3>0
      <3>2. y[l + 1].kind \in ChildKinds(KindIn(y, y[l + 1].under))
        BY <2>5, <2>9, <2>10, <2>17
      <3>3. ASSUME e # l PROVE \E c \in Children(e) : c = l \/ c \in Above(l)
        <4>1. e \in Above(l) /\ l \in 0 .. l BY <2>4, <3>0, <3>3
        <4>2. PICK c \in 1 .. l : xml[c].under = e /\ (c = l \/ c \in AboveIn(xml, l))
          BY <2>8, <2>16, <4>1, ChildAbove
        <4> QED BY <2>3, <2>16, <4>2 DEF Children
      <3>4. ASSUME kind = "paragraph", odd PROVE e = l /\ KindIn(y, l) = "article"
        BY <2>2, <2>17, <3>0, <3>3, <3>4
      <3>5. ASSUME kind = "paragraph", e = 0, NEW i \in 1 .. l + 1
            PROVE  y[i].kind \notin RootKinds
        <4>1. CASE i = l + 1 BY <2>9, <2>10, <3>5, <4>1 DEF RootKinds
        <4>2. CASE i # l + 1
          <5>1. i \in 1 .. l /\ y[i] = xml[i] BY <2>3, <2>10, <4>2
          <5>2. SUFFICES ASSUME xml[i].kind \in RootKinds PROVE FALSE BY <5>1
          <5>3. PICK c \in Elements : xml[c].under = 0 /\ xml[c].kind \in RootKinds
            BY <2>3, <5>1, <5>2, RootIsUnderLaw
          <5>4. c \in Children(e) BY <3>5, <5>3 DEF Children
          <5>5. xml[c].kind = "paragraph" BY <2>2, <3>5, <5>4
          <5> QED BY <5>3, <5>5 DEF RootKinds
        <4> QED BY <4>1, <4>2
      <3>6. ASSUME kind = "column", e # l PROVE KindIn(y, l) = "column" /\ y[l].under = e
        <4>1. PICK c \in Children(e) : c = l \/ c \in Above(l) BY <3>3, <3>6
        <4>2. c \in Elements /\ xml[c].under = e /\ xml[c].kind = "column"
          BY <2>2, <3>6, <4>1 DEF Children
        <4>3. c = l
          <5>1. SUFFICES ASSUME c \in Above(l) PROVE FALSE BY <4>1, <5>1
          <5>2. l \in Elements BY <2>4, <3>6
          <5>3. KindOf(c) \in KindsAbove(xml[l].kind) BY <5>1, <5>2, KindAbove
          <5>4. KindOf(c) = "column" BY <4>2, PageFacts
          <5>5. "column" \notin KindsAbove(xml[l].kind) BY DEF KindsAbove
          <5> QED BY <5>3, <5>4, <5>5
        <4> QED BY <2>3, <2>10, <2>17, <3>0, <4>2, <4>3, PageFacts
      <3>7. PlacedIn(y, l + 1)
        BY <2>9, <2>10, <3>0, <3>1, <3>2, <3>4, <3>5, <3>6 DEF PlacedIn
      <3> QED BY <3>7
    <2>19. \A i \in 1 .. Len(y) : PlacedIn(y, i) BY <2>3, <2>10, <2>14, <2>18
    <2>20. linked' = linked BY <1>2 DEF NextElement
    <2> QED BY <2>11, <2>12, <2>19, <2>20 DEF PageInv
  <1> QED BY <1>1, <1>2 DEF PageNext

-----------------------------------------------------------------------------
(* Rows in their order, and how deep they are.                               *)

\* InOrder has each element of a set once.
LEMMA InOrderFacts ==
    ASSUME PageInv, NEW S
    PROVE  /\ InOrder(S) \in Seq(Nat) /\ Rising(InOrder(S))
           /\ ToSet(InOrder(S)) = S \cap Elements
  <1> DEFINE seqs == [e \in Elements |-> IF e \in S THEN <<e>> ELSE <<>>]
  <1>1. Elements = 1 .. Len(xml) /\ Len(xml) \in Nat /\ Elements \subseteq Nat BY PageFacts
  <1>2. ASSUME NEW e \in Elements
        PROVE  seqs[e] \in Seq(Nat) /\ Rising(seqs[e])
               /\ ToSet(seqs[e]) = IF e \in S THEN {e} ELSE {}
    <2>1. seqs[e] = IF e \in S THEN <<e>> ELSE <<>> OBVIOUS
    <2>2. e \in Nat BY <1>1
    <2> HIDE DEF seqs
    <2>3. CASE e \in S
      <3>1. seqs[e] = <<e>> BY <2>1, <2>3
      <3> QED BY <2>2, <2>3, <3>1, SingleRises
    <2>4. CASE e \notin S
      <3>1. seqs[e] = <<>> BY <2>1, <2>4
      <3> QED BY <2>4, <3>1, SingleRises
    <2> QED BY <2>3, <2>4
  <1>3. DOMAIN seqs = Elements /\ seqs = [e \in 1 .. Len(xml) |-> seqs[e]] BY <1>1
  <1>7. InOrder(S) = FlattenSeq(seqs) BY DEF InOrder
  <1> HIDE DEF seqs
  <1>4. seqs \in Seq(Seq(Nat))
    <2> DEFINE A == Seq(Nat)
    <2>1. \A e \in 1 .. Len(xml) : seqs[e] \in A BY <1>1, <1>2
    <2> HIDE DEF A
    <2>2. seqs \in Seq(A) BY <1>1, <1>3, <2>1
    <2> QED BY <2>2 DEF A
  <1>5. Ascending(seqs)
    <2>1. ASSUME NEW i \in Elements, NEW j \in Elements, i < j,
                 NEW x \in ToSet(seqs[i]), NEW y \in ToSet(seqs[j])
          PROVE  x < y
      <3>1. x = i /\ y = j BY <1>2
      <3> QED BY <2>1, <3>1
    <2> QED BY <1>2, <1>3, <2>1 DEF Ascending
  <1>6. ToSet(FlattenSeq(seqs)) = S \cap Elements
    <2>1. \A x : x \in ToSet(FlattenSeq(seqs)) <=> \E i \in Elements : x \in ToSet(seqs[i])
      BY <1>3, <1>4, FlatSet
    <2>2. \A i \in Elements : \A x : x \in ToSet(seqs[i]) <=> (x = i /\ i \in S)
      BY <1>2
    <2>3. \A x : x \in ToSet(FlattenSeq(seqs)) <=> x \in S \cap Elements BY <2>1, <2>2
    <2> QED BY <2>3
  <1> QED BY <1>4, <1>5, <1>6, <1>7, FlatRising

\* The depth of a row counts the rows above it.
LEMMA DepthFacts ==
    ASSUME PageInv, NEW e \in Elements
    PROVE  IsFiniteSet(Above(e) \cap Rows) /\ Depth(e) \in Nat
  <1>1. Elements = 1 .. Len(xml) /\ Len(xml) \in Nat BY PageFacts
  <1>2. IsFiniteSet(Elements) BY <1>1, FS_Interval
  <1>3. (Above(e) \cap Rows) \in SUBSET Elements BY DEF Rows
  <1> QED BY <1>2, <1>3, FS_Subset, FS_CardinalityType DEF Depth

\* What is below a row is deeper.
LEMMA DeeperBelow ==
    ASSUME PageInv, NEW e \in Elements, NEW t \in Rows, t \in Above(e)
    PROVE  BelongsTo(e, t)
  <1> DEFINE S == Above(e) \cap Rows
             T == Above(t) \cap Rows
  <1>1. t \in Elements BY DEF Rows
  <1>2. IsFiniteSet(S) /\ IsFiniteSet(T) /\ Depth(e) = Cardinality(S)
        /\ Depth(t) = Cardinality(T) /\ Depth(e) \in Nat /\ Depth(t) \in Nat
    BY <1>1, DepthFacts DEF Depth
  <1>3. Above(t) \subseteq Above(e) BY AboveFacts
  <1>4. t \notin T
    <2>1. t \in Nat /\ Above(t) \subseteq 0 .. t - 1 BY <1>1, PageFacts
    <2>2. t \notin 0 .. t - 1 BY <2>1
    <2> QED BY <2>1, <2>2
  <1>5. T \in SUBSET S /\ T # S BY <1>3, <1>4
  <1> HIDE DEF S, T
  <1>6. Cardinality(T) <= Cardinality(S) /\ Cardinality(T) # Cardinality(S)
    BY <1>2, <1>5, FS_Subset
  <1>7. Depth(e) > Depth(t) BY <1>2, <1>6
  <1> QED BY <1>7 DEF BelongsTo

\* What has no more above it than a row is not deeper.
LEMMA NotDeeper ==
    ASSUME PageInv, NEW e \in Elements, NEW t \in Elements, Above(e) \cap Rows \subseteq Above(t)
    PROVE  ~ BelongsTo(e, t)
  <1> DEFINE S == Above(e) \cap Rows
             T == Above(t) \cap Rows
  <1>1. IsFiniteSet(S) /\ IsFiniteSet(T) /\ Depth(e) = Cardinality(S)
        /\ Depth(t) = Cardinality(T) /\ Depth(e) \in Nat /\ Depth(t) \in Nat
    BY DepthFacts DEF Depth
  <1>2. S \in SUBSET T OBVIOUS
  <1> HIDE DEF S, T
  <1>3. Cardinality(S) <= Cardinality(T) BY <1>1, <1>2, FS_Subset
  <1>4. ~ (Depth(e) > Depth(t)) BY <1>1, <1>3
  <1> QED BY <1>4 DEF BelongsTo

-----------------------------------------------------------------------------
(* The rows of an article.                                                   *)

Roots == {e \in Elements : xml[e].kind \in RootKinds}

\* The rows behind a root, up to the next one.
BlockRows(root) == {e \in Rows : root < e /\ \A r \in Roots : root < r => e < r}

LEMMA BlockFacts ==
    ASSUME PageInv, NEW root \in Elements
    PROVE  /\ BlockOf(root) \in Seq(Nat) /\ Rising(BlockOf(root))
           /\ ToSet(BlockOf(root)) = BlockRows(root)
  <1> DEFINE next == {e \in Elements : e > root /\ xml[e].kind \in RootKinds}
             last == IF next = {} THEN Len(xml) ELSE Min(next) - 1
             S == {e \in Rows : root < e /\ e <= last}
  <1>1. Elements = 1 .. Len(xml) /\ Len(xml) \in Nat /\ Rows \subseteq Elements
    BY PageFacts DEF Rows
  <1>2. BlockOf(root) = InOrder(S) BY DEF BlockOf
  <1>3. S = BlockRows(root)
    <2>1. CASE next = {}
      <3>1. last = Len(xml) BY <2>1
      <3>2. \A r \in Roots : ~ (root < r) BY <1>1, <2>1 DEF Roots
      <3>3. \A e \in Rows : e <= last BY <1>1, <3>1
      <3> QED BY <3>2, <3>3 DEF BlockRows
    <2>2. CASE next # {}
      <3>1. PICK m \in next : \A n \in next : m <= n
        <4>1. next \subseteq Nat BY <1>1
        <4> HIDE DEF next
        <4> QED BY <2>2, <4>1, LeastNumber
      <3>2. Min(next) \in next /\ \A n \in next : Min(next) <= n BY <3>1 DEF Min
      <3> DEFINE a == Min(next)
      <3>3. a \in Roots /\ a \in Nat /\ root < a /\ last = a - 1
            /\ \A r \in Roots : root < r => a <= r
        BY <1>1, <2>2, <3>2 DEF Roots
      <3>5. Roots \subseteq Nat BY <1>1 DEF Roots
      <3> HIDE DEF a, last, next
      <3>4. ASSUME NEW e \in Rows PROVE e <= last <=> \A r \in Roots : root < r => e < r
        <4>1. e \in Nat BY <1>1
        <4>2. e <= last <=> e < a BY <3>3, <4>1
        <4>3. ASSUME e < a, NEW r \in Roots, root < r PROVE e < r
          <5>1. a <= r /\ r \in Nat BY <3>3, <3>5, <4>3
          <5> QED BY <3>3, <4>1, <4>3, <5>1
        <4> QED BY <3>3, <4>2, <4>3
      <3> QED BY <3>4 DEF BlockRows
    <2> QED BY <2>1, <2>2
  <1> HIDE DEF S
  <1>4. S \cap Elements = S BY <1>1, <1>3 DEF BlockRows
  <1> QED BY <1>2, <1>3, <1>4, InOrderFacts

\* A table above an element.
InTable(e) == \E t \in Above(e) : KindOf(t) = "table"

\* A column that a definition takes along.
OfDefinition(e) == xml[e].kind = "column" /\ IsDefinition(xml[e].under)

\* A root has nothing above it but a chapter and the law.
LEMMA AboveRoot ==
    ASSUME PageInv, NEW r \in Roots, NEW a \in Above(r)
    PROVE  KindOf(a) \in {"law", "chapter"}
  <1>1. r \in Elements /\ xml[r].kind \in RootKinds BY DEF Roots
  <1>2. KindOf(a) \in KindsAbove(xml[r].kind) BY <1>1, KindAbove
  <1> QED BY <1>1, <1>2 DEF RootKinds, KindsAbove

\* What stands in an article is behind its root, with all that is above it and is
\* neither the law nor a chapter.
LEMMA AboveInBlock ==
    ASSUME PageInv, NEW root \in Roots, NEW e \in Elements, root < e,
           \A r \in Roots : root < r => e < r,
           NEW a \in Above(e), KindOf(a) \notin {"law", "chapter"}
    PROVE  a \in Elements /\ (a = root \/ root < a) /\ (\A r \in Roots : root < r => a < r)
  <1>1. a \in Elements /\ a < e
    <2>1. a # 0 BY DEF KindOf
    <2> QED BY <2>1, AboveFacts
  <1>2. root \in Elements /\ root \in Nat /\ a \in Nat /\ e \in Nat BY <1>1, PageFacts DEF Roots
  <1>3. ~ (a < root)
    <2>1. SUFFICES ASSUME a < root PROVE FALSE OBVIOUS
    <2>2. a \in Above(root) BY <1>2, <2>1, Between
    <2> QED BY <2>2, AboveRoot
  <1>4. ASSUME NEW r \in Roots, root < r PROVE a < r
    <2>1. r \in Nat /\ e < r BY <1>4, PageFacts DEF Roots
    <2> QED BY <1>1, <1>2, <2>1
  <1> QED BY <1>1, <1>2, <1>3, <1>4

\* Where the elements below a table end: the first behind it that is not below it has
\* nothing above it but what the table has.
LEMMA AfterTable ==
    ASSUME PageInv, NEW t \in Elements, NEW x \in Elements, t < x, t \notin Above(x),
           \A y \in Elements : t < y /\ y < x => t \in Above(y)
    PROVE  Above(x) \subseteq Above(t)
  <1> DEFINE u == xml[x].under
             w == x - 1
  <1>1. x \in Nat /\ t \in Nat /\ Elements = 1 .. Len(xml) /\ Len(xml) \in Nat BY PageFacts
  <1>2. u = w \/ u \in Above(w) BY PlaceFacts
  <1>3. Above(x) = {u} \cup Above(u) BY PageFacts
  <1>4. w \in Elements /\ w < x /\ (w = t \/ t < w) BY <1>1
  <1>5. u = 0 \/ u \in Elements BY PageFacts
  <1>6. u \in Nat BY <1>1, <1>5
  <1> HIDE DEF u, w
  <1>7. u # t /\ t \notin Above(u) BY <1>3
  <1>8. u # w
    <2>1. CASE w = t BY <1>7, <2>1
    <2>2. CASE t < w BY <1>4, <1>7, <2>2
    <2> QED BY <1>4, <2>1, <2>2
  <1>9. u \in Above(w) /\ u < w BY <1>2, <1>4, <1>8, AboveFacts
  <1>10. u \in Above(t)
    <2>1. CASE w = t BY <1>9, <2>1
    <2>2. CASE t < w
      <3>1. t \in Above(w) BY <1>4, <2>2
      <3>2. ~ (t < u)
        <4>1. SUFFICES ASSUME t < u PROVE FALSE OBVIOUS
        <4>2. u \in Elements BY <1>1, <1>5, <4>1
        <4>3. u <= w BY <1>6, <1>9, <1>4, <1>1
        <4>4. t \in Above(u) BY <1>4, <3>1, <4>1, <4>2, <4>3, Between
        <4> QED BY <1>7, <4>4
      <3>3. u < t BY <1>1, <1>6, <1>7, <3>2
      <3>4. t <= w BY <1>1, <1>4, <2>2
      <3> QED BY <1>4, <1>9, <3>3, <3>4, Between
    <2> QED BY <1>4, <2>1, <2>2
  <1>11. Above(u) \subseteq Above(t) BY <1>10, AboveFacts
  <1> QED BY <1>3, <1>10, <1>11

\* A row of an article.
LEMMA BlockPlace ==
    ASSUME PageInv, NEW root \in Roots, NEW e \in BlockRows(root)
    PROVE  /\ e \in Elements /\ e \in Nat /\ e \in Rows /\ root \in Elements /\ root \in Nat
           /\ root < e /\ (\A r \in Roots : root < r => e < r)
           /\ e \notin Roots /\ xml[e].kind \notin RootKinds
           /\ xml[e].kind \in {"paragraph", "item", "subitem1", "column", "table_struct", "table",
                               "table_row", "table_column"}
  <1>1. e \in Rows /\ e \in Elements /\ root < e /\ (\A r \in Roots : root < r => e < r)
    BY DEF BlockRows, Rows
  <1>2. e \in Nat /\ root \in Nat /\ root \in Elements BY <1>1, PageFacts DEF Roots
  <1>3. e \notin Roots BY <1>1, <1>2
  <1>4. xml[e].kind \in Kinds BY <1>1, PageFacts
  <1>5. xml[e].kind # "remarks" BY <1>1 DEF Rows
  <1>6. xml[e].kind \notin RootKinds BY <1>1, <1>3 DEF Roots
  <1> QED BY <1>1, <1>2, <1>3, <1>4, <1>5, <1>6 DEF Kinds, RootKinds

\* buildSegments passes over what is below a table, and the columns of a definition.
LEMMA PassedFacts ==
    ASSUME PageInv, NEW root \in Roots, NEW rows, rows = BlockOf(root), NEW i \in DOMAIN rows
    PROVE  Passed(rows, i) <=> InTable(rows[i]) \/ OfDefinition(rows[i])
  <1>1. root \in Elements BY DEF Roots
  <1>2. rows \in Seq(Nat) /\ Rising(rows) /\ ToSet(rows) = BlockRows(root) BY <1>1, BlockFacts
  <1>3. \A k \in DOMAIN rows : rows[k] \in BlockRows(root) BY <1>2 DEF ToSet
  <1>4. DOMAIN rows = 1 .. Len(rows) /\ Len(rows) \in Nat BY <1>2
  <1> DEFINE e == rows[i]
  <1>5. e \in BlockRows(root) BY <1>3
  <1>6. e \in Elements /\ e \in Nat /\ e \in Rows /\ root \in Nat /\ root < e
        /\ (\A r \in Roots : root < r => e < r)
    BY <1>5, BlockPlace
  <1> HIDE DEF e
  <1>7. ASSUME InTable(e)
        PROVE  \E p \in 1 .. i - 1 :
                  xml[rows[p]].kind = "table" /\ \A j \in p + 1 .. i : BelongsTo(rows[j], rows[p])
    <2>1. PICK t \in Above(e) : KindOf(t) = "table" BY <1>7 DEF InTable
    <2>2. t \in Elements /\ (t = root \/ root < t) /\ (\A r \in Roots : root < r => t < r)
      BY <1>6, <2>1, AboveInBlock
    <2>3. xml[t].kind = "table" /\ t \in Nat /\ t < e BY <1>6, <2>1, <2>2, PageFacts, AboveFacts
    <2>4. t # root BY <2>3 DEF Roots, RootKinds
    <2>5. t \in Rows BY <2>2, <2>3 DEF Rows
    <2>6. t \in BlockRows(root) BY <2>2, <2>4, <2>5 DEF BlockRows
    <2>7. PICK p \in DOMAIN rows : rows[p] = t BY <1>2, <2>6 DEF ToSet
    <2>8. p < i
      <3>1. ~ (i < p) BY <1>2, <1>6, <2>3, <2>7 DEF Rising, e
      <3>2. i # p BY <1>6, <2>3, <2>7 DEF e
      <3> QED BY <1>4, <3>1, <3>2
    <2>9. ASSUME NEW j \in p + 1 .. i PROVE BelongsTo(rows[j], rows[p])
      <3>1. j \in DOMAIN rows /\ p < j /\ (j < i \/ j = i) BY <1>4, <2>8
      <3>2. rows[j] \in Elements /\ rows[j] \in Nat BY <1>3, <3>1, BlockPlace
      <3>3. t < rows[j] BY <1>2, <2>7, <3>1 DEF Rising
      <3>4. rows[j] <= e BY <1>2, <1>6, <3>1, <3>2 DEF Rising, e
      <3>5. t \in Above(rows[j]) BY <1>6, <2>1, <3>2, <3>3, <3>4, Between
      <3> QED BY <2>5, <2>7, <3>2, <3>5, DeeperBelow
    <2>10. p \in 1 .. i - 1 BY <1>4, <2>8
    <2> QED BY <2>3, <2>7, <2>9, <2>10
  <1>8. ASSUME NEW p \in 1 .. i - 1, xml[rows[p]].kind = "table",
               \A j \in p + 1 .. i : BelongsTo(rows[j], rows[p])
        PROVE  InTable(e)
    <2> DEFINE t == rows[p]
    <2>1. p \in DOMAIN rows /\ p < i BY <1>4
    <2>2. t \in BlockRows(root) BY <1>3, <2>1
    <2>3. t \in Elements /\ t \in Nat /\ root < t /\ t < e
      BY <1>2, <2>1, <2>2, BlockPlace DEF Rising, e
    <2>4. xml[t].kind = "table" BY <1>8
    <2>5. \A j \in p + 1 .. i : BelongsTo(rows[j], t) BY <1>8
    <2>18. \A f \in BlockRows(root) : t < f => \E j \in DOMAIN rows : p < j /\ rows[j] = f
      <3>1. ASSUME NEW f \in BlockRows(root), t < f
            PROVE  \E j \in DOMAIN rows : p < j /\ rows[j] = f
        <4>1. PICK j \in DOMAIN rows : rows[j] = f BY <1>2 DEF ToSet
        <4>2. f \in Nat BY BlockPlace
        <4>3. j # p /\ ~ (j < p) BY <1>2, <2>1, <2>3, <3>1, <4>1, <4>2 DEF Rising
        <4> QED BY <1>4, <2>1, <4>1, <4>3
      <3> QED BY <3>1
    <2>6. KindOf(t) = "table" BY <2>3, <2>4, PageFacts
    <2> HIDE DEF t
    <2>7. SUFFICES ASSUME t \notin Above(e) PROVE FALSE BY <2>6 DEF InTable
    <2> DEFINE Bad == {x \in Elements : t < x /\ t \notin Above(x)}
    <2>8. PICK x \in Bad : \A z \in Bad : x <= z
      <3>1. Bad \subseteq Nat /\ e \in Bad BY <1>6, <2>3, <2>7, PageFacts
      <3> HIDE DEF Bad
      <3> QED BY <3>1, LeastNumber
    <2>9. x \in Elements /\ x \in Nat /\ t < x /\ t \notin Above(x) /\ x <= e
      BY <1>6, <2>3, <2>7, <2>8, PageFacts
    <2>10. ASSUME NEW y \in Elements, t < y, y < x PROVE t \in Above(y)
      <3>1. y \in Nat BY PageFacts
      <3> QED BY <2>8, <2>9, <2>10, <3>1
    <2>11. Above(x) \subseteq Above(t) BY <2>3, <2>9, <2>10, AfterTable
    <2> DEFINE Later == {z \in Rows : x <= z}
    <2>12. PICK y \in Later : \A z \in Later : y <= z
      <3>1. Later \subseteq Nat /\ e \in Later BY <1>6, <2>9, PageFacts DEF Rows
      <3> HIDE DEF Later
      <3> QED BY <3>1, LeastNumber
    <2>13. y \in Rows /\ y \in Elements /\ y \in Nat /\ x <= y /\ y <= e
      BY <1>6, <2>9, <2>12, PageFacts DEF Rows
    <2>14. \A z \in Elements : x <= z /\ z < y => z \notin Rows
      BY <2>12, <2>13, PageFacts
    <2> HIDE DEF Later, Bad
    <2>15. Above(y) \cap Rows \subseteq Above(t)
      <3> DEFINE Good == {k \in 0 .. y - x : Above(x + k) \cap Rows \subseteq Above(t)}
      <3>1. 0 \in Good BY <2>9, <2>11, <2>13
      <3>2. ASSUME NEW k \in 1 .. y - x, k - 1 \in Good PROVE k \in Good
        <4> DEFINE z == x + k
                   w == x + (k - 1)
                   u == xml[z].under
        <4>1. z \in Elements /\ w \in Elements /\ w = z - 1 /\ x <= w /\ w < y
          <5>1. Elements = 1 .. Len(xml) /\ Len(xml) \in Nat BY PageFacts
          <5> QED BY <2>9, <2>13, <5>1
        <4>2. Above(w) \cap Rows \subseteq Above(t) BY <3>2
        <4>3. w \notin Rows BY <2>14, <4>1
        <4>4. u = w \/ u \in Above(w) BY <4>1, PlaceFacts
        <4>5. Above(z) = {u} \cup Above(u) BY <4>1, PageFacts
        <4> HIDE DEF u, w
        <4>6. Above(z) \subseteq {w} \cup Above(w)
          <5>1. u \in Above(w) => Above(u) \subseteq Above(w) BY <4>1, AboveFacts
          <5> QED BY <4>4, <4>5, <5>1
        <4>7. Above(z) \cap Rows \subseteq Above(t) BY <4>2, <4>3, <4>6
        <4> QED BY <4>7
      <3> HIDE DEF Good
      <3>3. y - x \in Nat BY <2>9, <2>13
      <3>4. y - x \in 0 .. y - x /\ x + (y - x) = y BY <2>9, <2>13
      <3>5. \A k \in 0 .. y - x : k \in Good BY <3>1, <3>2, <3>3, UpToIsIn
      <3>6. Above(x + (y - x)) \cap Rows \subseteq Above(t) BY <3>4, <3>5 DEF Good
      <3> QED BY <3>4, <3>6
    <2>16. ~ BelongsTo(y, t) BY <2>3, <2>13, <2>15, NotDeeper
    <2>17. y \in BlockRows(root)
      <3>1. root < y BY <1>6, <2>3, <2>9, <2>13
      <3>2. ASSUME NEW r \in Roots, root < r PROVE y < r
        <4>1. r \in Nat /\ e < r BY <1>6, <3>2, PageFacts DEF Roots
        <4> QED BY <1>6, <2>13, <4>1
      <3> QED BY <2>13, <3>1, <3>2 DEF BlockRows
    <2>19. PICK j \in DOMAIN rows : p < j /\ rows[j] = y
      <3>1. t < y BY <2>3, <2>9, <2>13
      <3> QED BY <2>17, <2>18, <3>1
    <2>20. j \in p + 1 .. i
      <3>1. ~ (i < j) BY <1>2, <1>6, <2>13, <2>19 DEF Rising, e
      <3> QED BY <1>4, <2>1, <2>19, <3>1
    <2> QED BY <2>5, <2>16, <2>19, <2>20
  <1> QED BY <1>7, <1>8 DEF Passed, OfDefinition, e

-----------------------------------------------------------------------------
(* What a row shows.                                                         *)

\* The cells of an earlier row stand before those of a later one.
LEMMA CellsApart ==
    ASSUME PageInv, NEW r \in Elements, NEW q \in Elements, r < q,
           xml[r].kind = "table_row", xml[q].kind = "table_row",
           NEW c \in Elements, NEW d \in Elements, xml[c].under = r, xml[d].under = q
    PROVE  c < d
  <1>1. r \in Nat /\ q \in Nat /\ c \in Nat /\ d \in Nat BY PageFacts
  <1>2. q < d /\ r \in Above(c) /\ q \in Above(d)
    <2>1. r \in Above(c) /\ q \in Above(d) BY PageFacts
    <2> QED BY <2>1, AboveFacts
  <1>3. ~ (q <= c)
    <2>1. SUFFICES ASSUME q <= c PROVE FALSE OBVIOUS
    <2>2. r \in Above(q) BY <1>2, <2>1, Between
    <2>3. KindOf(r) \in KindsAbove(xml[q].kind) BY <2>2, KindAbove
    <2>4. KindOf(r) = "table_row" BY PageFacts
    <2> QED BY <2>3, <2>4 DEF KindsAbove
  <1> QED BY <1>1, <1>2, <1>3

\* The cells of some rows of a table.
LEMMA CellsFacts ==
    ASSUME PageInv, NEW rows \in Seq(Nat), Rising(rows),
           \A i \in DOMAIN rows : rows[i] \in Elements /\ xml[rows[i]].kind = "table_row"
    PROVE  /\ Cells(rows) \in Seq(Nat) /\ Rising(Cells(rows))
           /\ ToSet(Cells(rows))
                = {c \in Elements : xml[c].kind = "table_column" /\ xml[c].under \in ToSet(rows)}
  <1> DEFINE seqs == [i \in DOMAIN rows |-> CellsOf(rows[i])]
             A == Seq(Nat)
  <1>1. ASSUME NEW i \in DOMAIN rows
        PROVE  /\ seqs[i] \in A /\ Rising(seqs[i])
               /\ \A c : c \in ToSet(seqs[i]) <=>
                     c \in Elements /\ xml[c].kind = "table_column" /\ xml[c].under = rows[i]
    <2> DEFINE S == {c \in Children(rows[i]) : xml[c].kind = "table_column"}
    <2>1. seqs[i] = InOrder(S) BY DEF CellsOf
    <2>2. \A c : c \in S \cap Elements <=>
                     c \in Elements /\ xml[c].kind = "table_column" /\ xml[c].under = rows[i]
      BY DEF Children
    <2> HIDE DEF S, seqs
    <2> QED BY <2>1, <2>2, InOrderFacts
  <1>2. DOMAIN rows = 1 .. Len(rows) /\ Len(rows) \in Nat OBVIOUS
  <1>3. DOMAIN seqs = DOMAIN rows /\ seqs = [i \in 1 .. Len(rows) |-> seqs[i]] BY <1>2
  <1>4. Cells(rows) = FlattenSeq(seqs) BY DEF Cells
  <1> HIDE DEF seqs
  <1>5. seqs \in Seq(A)
    <2>1. \A i \in 1 .. Len(rows) : seqs[i] \in A BY <1>1, <1>2
    <2> HIDE DEF A
    <2> QED BY <1>2, <1>3, <2>1
  <1>6. Ascending(seqs)
    <2>1. ASSUME NEW i \in DOMAIN rows, NEW j \in DOMAIN rows, i < j,
                 NEW c \in ToSet(seqs[i]), NEW d \in ToSet(seqs[j])
          PROVE  c < d
      <3>1. c \in Elements /\ d \in Elements /\ xml[c].under = rows[i] /\ xml[d].under = rows[j]
        BY <1>1
      <3>2. rows[i] < rows[j] BY <2>1 DEF Rising
      <3> QED BY <3>1, <3>2, CellsApart
    <2> QED BY <1>1, <1>3, <2>1 DEF Ascending
  <1>7. \A c : c \in ToSet(FlattenSeq(seqs)) <=> \E i \in DOMAIN rows : c \in ToSet(seqs[i])
    BY <1>3, <1>5, FlatSet
  <1>8. ASSUME NEW c
        PROVE  c \in ToSet(FlattenSeq(seqs)) <=>
                 c \in Elements /\ xml[c].kind = "table_column" /\ xml[c].under \in ToSet(rows)
    <2>1. xml[c].under \in ToSet(rows) <=> \E i \in DOMAIN rows : xml[c].under = rows[i]
      BY DEF ToSet
    <2> QED BY <1>1, <1>7, <2>1
  <1>9. ToSet(FlattenSeq(seqs))
          = {c \in Elements : xml[c].kind = "table_column" /\ xml[c].under \in ToSet(rows)}
    BY <1>8
  <1> QED BY <1>4, <1>5, <1>6, <1>9, FlatRising

\* The head of a table is some of its first rows.
LEMMA HeadFacts ==
    ASSUME NEW rows \in Seq(Nat)
    PROVE  HeaderRowCount(rows) \in 0 .. Len(rows)
  <1>1. Len(rows) \in Nat OBVIOUS
  <1>2. CASE rows = <<>> BY <1>1, <1>2 DEF HeaderRowCount
  <1>3. CASE rows # <<>>
    <2> DEFINE T == {1} \cup {IF xml[c].odd THEN 2 ELSE 1 : c \in ToSet(CellsOf(rows[1]))}
               m == Max(T)
               U == {Len(rows), m}
    <2>1. HeaderRowCount(rows) = Min(U) BY <1>3 DEF HeaderRowCount
    <2>2. T \subseteq {1, 2} /\ 1 \in T OBVIOUS
    <2> HIDE DEF T
    <2>3. \E x \in T : \A y \in T : x >= y
      <3>1. CASE 2 \in T BY <2>2, <3>1
      <3>2. CASE 2 \notin T BY <2>2, <3>2
      <3> QED BY <3>1, <3>2
    <2>4. m \in {1, 2} BY <2>2, <2>3 DEF Max
    <2> HIDE DEF m
    <2>5. \E x \in U : \A y \in U : x <= y BY <1>1, <2>4
    <2>6. Min(U) \in U /\ \A y \in U : Min(U) <= y BY <2>5 DEF Min
    <2>7. Min(U) \in Nat /\ Min(U) <= Len(rows) BY <1>1, <2>4, <2>6
    <2> QED BY <1>1, <2>1, <2>7
  <1> QED BY <1>2, <1>3

\* A part of a rising sequence.
LEMMA PartFacts ==
    ASSUME NEW q \in Seq(Nat), Rising(q), NEW a \in 1 .. Len(q) + 1, NEW b \in 0 .. Len(q), a <= b + 1
    PROVE  /\ SubSeq(q, a, b) \in Seq(Nat) /\ Rising(SubSeq(q, a, b))
           /\ \A x : x \in ToSet(SubSeq(q, a, b)) <=> \E i \in a .. b : x = q[i]
  <1> DEFINE s == SubSeq(q, a, b)
             n == b + 1 - a
  <1>1. Len(q) \in Nat /\ DOMAIN q = 1 .. Len(q) /\ n \in Nat OBVIOUS
  <1>2. s \in Seq(Nat) /\ Len(s) = n /\ DOMAIN s = 1 .. n /\ \A k \in 1 .. n : s[k] = q[a + k - 1]
    BY <1>1
  <1> HIDE DEF s
  <1>3. \A k \in 1 .. n : a + k - 1 \in a .. b /\ a + k - 1 \in DOMAIN q BY <1>1
  <1>4. ASSUME NEW k \in 1 .. n, NEW j \in 1 .. n, k < j PROVE s[k] < s[j]
    <2>1. a + k - 1 < a + j - 1 BY <1>1, <1>4
    <2> QED BY <1>2, <1>3, <2>1 DEF Rising
  <1>5. Rising(s) BY <1>2, <1>4 DEF Rising
  <1>6. ASSUME NEW x PROVE x \in ToSet(s) <=> \E i \in a .. b : x = q[i]
    <2>1. ASSUME x \in ToSet(s) PROVE \E i \in a .. b : x = q[i]
      <3>1. PICK k \in 1 .. n : x = s[k] BY <1>2, <2>1 DEF ToSet
      <3> QED BY <1>2, <1>3, <3>1
    <2>2. ASSUME NEW i \in a .. b, x = q[i] PROVE x \in ToSet(s)
      <3> DEFINE k == i - a + 1
      <3>1. k \in 1 .. n /\ a + k - 1 = i BY <1>1
      <3> HIDE DEF k, n
      <3>2. s[k] = x BY <1>2, <2>2, <3>1
      <3> QED BY <1>2, <3>1, <3>2 DEF ToSet
    <2> QED BY <2>1, <2>2
  <1> QED BY <1>2, <1>5, <1>6 DEF s

\* The cells of a table, the rows of the head before the others.
LEMMA TableFacts ==
    ASSUME PageInv, NEW t \in Elements, xml[t].kind = "table"
    PROVE  /\ HeadCells(t) \o BodyCells(t) \in Seq(Nat)
           /\ Rising(HeadCells(t) \o BodyCells(t))
           /\ ToSet(HeadCells(t) \o BodyCells(t))
                = {c \in Elements : xml[c].kind = "table_column" /\ t \in Above(c)}
  <1> DEFINE rows == RowsOf(t)
             n == Len(rows)
             h == HeaderRowCount(rows)
             head == SubSeq(rows, 1, h)
             body == SubSeq(rows, h + 1, n)
             S == {r \in Children(t) : xml[r].kind = "table_row"}
             InRow(c) == c \in Elements /\ xml[c].kind = "table_column"
  <1>1. rows = InOrder(S) BY DEF RowsOf
  <1>2. S \cap Elements = S BY DEF Children
  <1>3. rows \in Seq(Nat) /\ Rising(rows) /\ ToSet(rows) = S
    <2> HIDE DEF S, rows
    <2> QED BY <1>1, <1>2, InOrderFacts
  <1>4. n \in Nat /\ DOMAIN rows = 1 .. n BY <1>3
  <1>5. h \in 0 .. n BY <1>3, HeadFacts
  <1>6. HeadCells(t) = Cells(head) /\ BodyCells(t) = Cells(body) BY DEF HeadCells, BodyCells
  <1> HIDE DEF rows, h
  <1>7. /\ head \in Seq(Nat) /\ Rising(head)
        /\ \A x : x \in ToSet(head) <=> \E i \in 1 .. h : x = rows[i]
    <2>1. 1 \in 1 .. n + 1 /\ 1 <= h + 1 BY <1>4, <1>5
    <2> HIDE DEF head
    <2> QED BY <1>3, <1>5, <2>1, PartFacts DEF head
  <1>8. /\ body \in Seq(Nat) /\ Rising(body)
        /\ \A x : x \in ToSet(body) <=> \E i \in h + 1 .. n : x = rows[i]
    <2>1. h + 1 \in 1 .. n + 1 /\ n \in 0 .. n /\ h + 1 <= n + 1 BY <1>4, <1>5
    <2> HIDE DEF body
    <2> QED BY <1>3, <2>1, PartFacts DEF body
  <1> HIDE DEF head, body, n
  <1>9. \A i \in 1 .. n : rows[i] \in S BY <1>3, <1>4 DEF ToSet
  <1>10. \A i \in DOMAIN head : head[i] \in Elements /\ xml[head[i]].kind = "table_row"
    <2>1. ASSUME NEW i \in DOMAIN head PROVE head[i] \in S
      <3>1. head[i] \in ToSet(head) BY DEF ToSet
      <3>2. PICK k \in 1 .. h : head[i] = rows[k] BY <1>7, <3>1
      <3>3. k \in 1 .. n BY <1>4, <1>5, <3>2
      <3> QED BY <1>9, <3>2, <3>3
    <2> QED BY <2>1 DEF Children
  <1>11. \A i \in DOMAIN body : body[i] \in Elements /\ xml[body[i]].kind = "table_row"
    <2>1. ASSUME NEW i \in DOMAIN body PROVE body[i] \in S
      <3>1. body[i] \in ToSet(body) BY DEF ToSet
      <3>2. PICK k \in h + 1 .. n : body[i] = rows[k] BY <1>8, <3>1
      <3>3. k \in 1 .. n BY <1>4, <1>5, <3>2
      <3> QED BY <1>9, <3>2, <3>3
    <2> QED BY <2>1 DEF Children
  <1>12. /\ Cells(head) \in Seq(Nat) /\ Rising(Cells(head))
         /\ \A c : c \in ToSet(Cells(head)) <=> InRow(c) /\ xml[c].under \in ToSet(head)
    BY <1>7, <1>10, CellsFacts
  <1>13. /\ Cells(body) \in Seq(Nat) /\ Rising(Cells(body))
         /\ \A c : c \in ToSet(Cells(body)) <=> InRow(c) /\ xml[c].under \in ToSet(body)
    BY <1>8, <1>11, CellsFacts
  <1>14. ASSUME NEW c \in ToSet(Cells(head)), NEW d \in ToSet(Cells(body)) PROVE c < d
    <2>1. c \in Elements /\ d \in Elements BY <1>12, <1>13
    <2>2. PICK i \in 1 .. h : xml[c].under = rows[i] BY <1>7, <1>12
    <2>3. PICK j \in h + 1 .. n : xml[d].under = rows[j] BY <1>8, <1>13
    <2>4. i \in 1 .. n /\ j \in 1 .. n /\ i < j BY <1>4, <1>5
    <2>5. rows[i] < rows[j] BY <1>3, <1>4, <2>4 DEF Rising
    <2>6. rows[i] \in S /\ rows[j] \in S BY <1>9, <2>4
    <2>7. rows[i] \in Elements /\ xml[rows[i]].kind = "table_row"
          /\ rows[j] \in Elements /\ xml[rows[j]].kind = "table_row"
      BY <2>6 DEF Children
    <2> HIDE DEF S
    <2> QED BY <2>1, <2>2, <2>3, <2>5, <2>7, CellsApart
  <1>15. ASSUME NEW c \in Elements, xml[c].kind = "table_column"
         PROVE  t \in Above(c) <=> xml[c].under \in S
    <2> DEFINE r == xml[c].under
               u == xml[r].under
    <2>1. Above(c) = {r} \cup Above(r) /\ (r = 0 \/ r \in Elements) BY PageFacts
    <2>2. xml[c].kind \in ChildKinds(KindOf(r)) BY PlaceFacts
    <2>3. KindOf(r) = "table_row" BY <1>15, <2>2 DEF ChildKinds
    <2>4. r \in Elements /\ xml[r].kind = "table_row"
      <3>1. r # 0 BY <2>3 DEF KindOf
      <3>2. r \in Elements BY <2>1, <3>1
      <3>3. KindOf(r) = xml[r].kind BY <3>2, PageFacts
      <3> QED BY <2>3, <3>2, <3>3
    <2>5. Above(r) = {u} \cup Above(u) BY <2>4, PageFacts
    <2>6. KindOf(u) = "table"
      <3>1. xml[r].kind \in ChildKinds(KindOf(u)) BY <2>4, PlaceFacts
      <3> QED BY <2>4, <3>1 DEF ChildKinds
    <2>7. t \notin Above(u) /\ t # r
      <3>1. u # 0 BY <2>6 DEF KindOf
      <3>2. u \in Elements BY <2>4, <3>1, PageFacts
      <3>3. KindOf(t) = "table" /\ xml[u].kind = "table" BY <2>6, <3>2, PageFacts
      <3>4. t \in Above(u) => "table" \in KindsAbove("table") BY <3>2, <3>3, KindAbove
      <3>5. "table" \notin KindsAbove("table") BY DEF KindsAbove
      <3> QED BY <2>4, <3>4, <3>5
    <2>8. t \in Above(c) <=> u = t BY <2>1, <2>5, <2>7
    <2>9. r \in S <=> u = t BY <2>4 DEF Children
    <2> QED BY <2>8, <2>9
  <1>16. \A x : x \in S <=> x \in ToSet(head) \/ x \in ToSet(body)
    <2>1. ASSUME NEW x \in S PROVE x \in ToSet(head) \/ x \in ToSet(body)
      <3>1. PICK i \in 1 .. n : x = rows[i] BY <1>3, <1>4 DEF ToSet
      <3>2. i \in 1 .. h \/ i \in h + 1 .. n BY <1>4, <1>5
      <3> QED BY <1>7, <1>8, <3>1, <3>2
    <2>2. ASSUME NEW x \in ToSet(head) PROVE x \in S
      <3>1. PICK k \in 1 .. h : x = rows[k] BY <1>7
      <3>2. k \in 1 .. n BY <1>4, <1>5, <3>1
      <3> QED BY <1>9, <3>1, <3>2
    <2>3. ASSUME NEW x \in ToSet(body) PROVE x \in S
      <3>1. PICK k \in h + 1 .. n : x = rows[k] BY <1>8
      <3>2. k \in 1 .. n BY <1>4, <1>5, <3>1
      <3> QED BY <1>9, <3>1, <3>2
    <2> QED BY <2>1, <2>2, <2>3
  <1> HIDE DEF S
  <1>17. ToSet(Cells(head)) \cup ToSet(Cells(body))
           = {c \in Elements : xml[c].kind = "table_column" /\ t \in Above(c)}
    BY <1>12, <1>13, <1>15, <1>16
  <1> QED BY <1>6, <1>12, <1>13, <1>14, <1>17, RisingJoined

\* The rows in whose place something is shown, and what: a table its cells, a
\* definition its keyword and its body, another row itself.
Own(e) ==
    IF InTable(e) \/ OfDefinition(e) THEN {}
    ELSE IF xml[e].kind = "table"
         THEN {c \in Elements : xml[c].kind = "table_column" /\ e \in Above(c)}
         ELSE IF xml[e].kind \in {"table_struct", "table_row", "table_column", "column"} THEN {}
              ELSE IF IsDefinition(e) THEN NthColumn(e, 1) \cup NthColumn(e, 2) ELSE {e}

\* What a segment shows.
LEMMA SegmentFacts ==
    ASSUME PageInv, NEW e \in Elements, ~ InTable(e), ~ OfDefinition(e)
    PROVE  /\ Segment(e).shown \in Seq(Nat) /\ Rising(Segment(e).shown)
           /\ ToSet(Segment(e).shown) = Own(e)
           /\ Segment(e).row = e
  <1>0. e \in Nat BY PageFacts
  <1>5. IsDefinition(e) => xml[e].kind = "item" BY DEF IsDefinition
  <1>1. CASE xml[e].kind = "table"
    <2>1. Segment(e) = [type |-> "table", row |-> e, shown |-> HeadCells(e) \o BodyCells(e)]
      BY <1>1, <1>5 DEF Segment
    <2>2. Segment(e).shown = HeadCells(e) \o BodyCells(e) /\ Segment(e).row = e BY <2>1
    <2>3. Own(e) = {c \in Elements : xml[c].kind = "table_column" /\ e \in Above(c)}
      BY <1>1 DEF Own
    <2> QED BY <1>1, <2>2, <2>3, TableFacts
  <1>2. CASE xml[e].kind \in {"table_struct", "table_row", "table_column", "column"}
    <2>1. Segment(e) = Anchor(e) BY <1>2, <1>5 DEF Segment
    <2>2. Segment(e).shown = <<>> /\ Segment(e).row = e BY <2>1 DEF Anchor
    <2>3. Own(e) = {} BY <1>2 DEF Own
    <2> QED BY <2>2, <2>3, SingleRises
  <1>3. CASE ~ (xml[e].kind = "table")
             /\ xml[e].kind \notin {"table_struct", "table_row", "table_column", "column"}
             /\ IsDefinition(e)
    <2>1. Segment(e) = [type |-> "definition", row |-> e, shown |-> DefinitionCells(e)]
      BY <1>3 DEF Segment
    <2>2. Segment(e).shown = DefinitionCells(e) /\ Segment(e).row = e BY <2>1
    <2> DEFINE S == NthColumn(e, 1) \cup NthColumn(e, 2)
    <2>3. Own(e) = S BY <1>3 DEF Own
    <2>4. DefinitionCells(e) = InOrder(S) BY DEF DefinitionCells
    <2>5. S \cap Elements = S BY DEF NthColumn, ColumnsOf, Children
    <2> HIDE DEF S
    <2> QED BY <2>2, <2>3, <2>4, <2>5, InOrderFacts
  <1>4. CASE ~ (xml[e].kind = "table")
             /\ xml[e].kind \notin {"table_struct", "table_row", "table_column", "column"}
             /\ ~ IsDefinition(e)
    <2>1. Segment(e) = [type |-> "node", row |-> e, shown |-> <<e>>] BY <1>4 DEF Segment
    <2>2. Segment(e).shown = <<e>> /\ Segment(e).row = e BY <2>1
    <2>3. Own(e) = {e} BY <1>4 DEF Own
    <2> QED BY <1>0, <2>2, <2>3, SingleRises
  <1> QED BY <1>1, <1>2, <1>3, <1>4

\* What is shown in the place of a row is the row or below it.
LEMMA OwnFacts ==
    ASSUME PageInv, NEW e \in Elements, NEW x \in Own(e)
    PROVE  /\ x \in Elements /\ x \in Nat /\ e \in Nat /\ e <= x
           /\ x = e \/ e \in Above(x)
           /\ ~ InTable(e) /\ ~ OfDefinition(e)
           /\ \/ x = e
              \/ xml[e].kind = "table"
              \/ IsDefinition(e) /\ xml[x].kind = "column" /\ xml[x].under = e
  <1>1. ~ InTable(e) /\ ~ OfDefinition(e) BY DEF Own
  <1>2. CASE xml[e].kind = "table"
    <2>1. x \in Elements /\ e \in Above(x) BY <1>1, <1>2 DEF Own
    <2> QED BY <1>1, <1>2, <2>1, PageFacts, AboveFacts
  <1>3. CASE xml[e].kind # "table" /\ IsDefinition(e)
    <2>1. x \in NthColumn(e, 1) \cup NthColumn(e, 2) BY <1>1, <1>3 DEF Own
    <2>2. x \in Elements /\ xml[x].kind = "column" /\ xml[x].under = e
      BY <2>1 DEF NthColumn, ColumnsOf, Children
    <2>3. e \in Above(x) BY <2>2, PageFacts
    <2> QED BY <1>1, <1>3, <2>2, <2>3, PageFacts, AboveFacts
  <1>4. CASE xml[e].kind # "table" /\ ~ IsDefinition(e)
    <2>1. x = e BY <1>1, <1>4 DEF Own
    <2> QED BY <1>1, <2>1, PageFacts
  <1> QED BY <1>2, <1>3, <1>4

\* The columns of an item follow it.
LEMMA ColumnsFollow ==
    ASSUME PageInv, NEW e \in Elements, NEW x \in Elements, xml[x].kind = "column",
           xml[x].under = e, NEW f \in Elements, e < f, f <= x
    PROVE  xml[f].kind = "column" /\ xml[f].under = e
  <1> DEFINE Good == {k \in 0 .. x - f : xml[x - k].kind = "column" /\ xml[x - k].under = e}
  <1>1. Elements = 1 .. Len(xml) /\ Len(xml) \in Nat /\ e \in Nat /\ x \in Nat /\ f \in Nat
    BY PageFacts
  <1>2. 0 \in Good BY <1>1
  <1>3. ASSUME NEW k \in 1 .. x - f, k - 1 \in Good PROVE k \in Good
    <2> DEFINE i == x - (k - 1)
    <2>1. i \in Elements /\ i - 1 = x - k /\ e < i - 1 /\ i - 1 # 0 BY <1>1
    <2>2. xml[i].kind = "column" /\ xml[i].under = e BY <1>3
    <2> HIDE DEF i
    <2>3. KindOf(i - 1) = "column" /\ xml[i - 1].under = e BY <1>1, <2>1, <2>2, PlaceFacts
    <2>4. KindOf(i - 1) = xml[i - 1].kind BY <2>1 DEF KindOf
    <2>5. k \in 0 .. x - f BY <1>1
    <2> QED BY <2>1, <2>3, <2>4, <2>5
  <1> HIDE DEF Good
  <1>4. x - f \in Nat BY <1>1
  <1>5. \A k \in 0 .. x - f : k \in Good BY <1>2, <1>3, <1>4, UpToIsIn
  <1>6. x - f \in 0 .. x - f /\ x - (x - f) = f BY <1>1
  <1>7. xml[x - (x - f)].kind = "column" /\ xml[x - (x - f)].under = e BY <1>5, <1>6 DEF Good
  <1> QED BY <1>6, <1>7

\* What is shown in the place of one row is before what is shown in that of the next.
LEMMA OwnApart ==
    ASSUME PageInv, NEW e \in Elements, NEW f \in Elements, e < f, NEW x \in Own(e), NEW y \in Own(f)
    PROVE  x < y
  <1>1. x \in Elements /\ x \in Nat /\ e \in Nat /\ y \in Nat /\ f \in Nat /\ f <= y
    BY OwnFacts
  <1>2. SUFFICES ASSUME f <= x PROVE FALSE BY <1>1
  <1>3. x # e /\ e \in Above(x) BY <1>1, <1>2, OwnFacts
  <1>4. e \in Above(f) BY <1>2, <1>3, <1>1, Between
  <1>5. CASE xml[e].kind = "table"
    <2>1. KindOf(e) = "table" BY <1>5, PageFacts
    <2>2. InTable(f) BY <1>4, <2>1 DEF InTable
    <2> QED BY <2>2, OwnFacts
  <1>6. CASE IsDefinition(e) /\ xml[x].kind = "column" /\ xml[x].under = e
    <2>1. xml[f].kind = "column" /\ xml[f].under = e BY <1>1, <1>2, <1>6, ColumnsFollow
    <2>2. OfDefinition(f) BY <1>6, <2>1 DEF OfDefinition
    <2> QED BY <2>2, OwnFacts
  <1> QED BY <1>3, <1>5, <1>6, OwnFacts

\* What some of the segments show.
PartsOf(segments, I) == [i \in DOMAIN segments |-> IF i \in I THEN segments[i].shown ELSE <<>>]
ShownIn(root, I) == FlattenSeq(PartsOf(PageSegments(BlockOf(root)), I))
IsShownIn(root, I, x) == \E i \in DOMAIN BlockOf(root) \cap I : x \in Own(BlockOf(root)[i])

LEMMA SegmentsFacts ==
    ASSUME PageInv, NEW root \in Roots, NEW I
    PROVE  /\ ShownIn(root, I) \in Seq(Nat) /\ Rising(ShownIn(root, I))
           /\ \A x : x \in ToSet(ShownIn(root, I)) <=> IsShownIn(root, I, x)
  <1> DEFINE rows == BlockOf(root)
             segments == PageSegments(rows)
             seqs == PartsOf(segments, I)
             A == Seq(Nat)
             Part(i) == IF i \in I THEN Own(rows[i]) ELSE {}
  <1>1. root \in Elements BY DEF Roots
  <1>2. rows \in Seq(Nat) /\ Rising(rows) /\ ToSet(rows) = BlockRows(root) BY <1>1, BlockFacts
  <1>3. DOMAIN rows = 1 .. Len(rows) /\ Len(rows) \in Nat BY <1>2
  <1>4. \A i \in DOMAIN rows : rows[i] \in BlockRows(root) BY <1>2 DEF ToSet
  <1>5. \A i \in DOMAIN rows : rows[i] \in Elements BY <1>4, BlockPlace
  <1>6. \A i \in DOMAIN rows : Passed(rows, i) <=> InTable(rows[i]) \/ OfDefinition(rows[i])
    BY PassedFacts
  <1> HIDE DEF rows
  <1>7. DOMAIN segments = DOMAIN rows
        /\ \A i \in DOMAIN rows :
              segments[i] = IF Passed(rows, i) THEN Anchor(rows[i]) ELSE Segment(rows[i])
    BY DEF PageSegments, rows
  <1> HIDE DEF segments
  <1>8. ASSUME NEW i \in DOMAIN rows
        PROVE  segments[i].shown \in A /\ Rising(segments[i].shown)
               /\ ToSet(segments[i].shown) = Own(rows[i])
    <2>1. CASE Passed(rows, i)
      <3>1. segments[i] = Anchor(rows[i]) BY <1>7, <2>1
      <3>2. segments[i].shown = <<>> BY <3>1 DEF Anchor
      <3>3. Own(rows[i]) = {} BY <1>6, <2>1 DEF Own
      <3> QED BY <3>2, <3>3, SingleRises
    <2>2. CASE ~ Passed(rows, i)
      <3>1. segments[i] = Segment(rows[i]) BY <1>7, <2>2
      <3> QED BY <1>5, <1>6, <2>2, <3>1, SegmentFacts
    <2> QED BY <2>1, <2>2
  <1>9. DOMAIN seqs = DOMAIN rows /\ seqs = [i \in 1 .. Len(rows) |-> seqs[i]]
    BY <1>3, <1>7 DEF PartsOf
  <1>10. ASSUME NEW i \in DOMAIN rows
         PROVE  seqs[i] \in A /\ Rising(seqs[i]) /\ ToSet(seqs[i]) = Part(i)
    <2>1. seqs[i] = IF i \in I THEN segments[i].shown ELSE <<>> BY <1>7 DEF PartsOf
    <2>2. CASE i \in I BY <1>8, <2>1, <2>2
    <2>3. CASE i \notin I
      <3>1. seqs[i] = <<>> BY <2>1, <2>3
      <3> QED BY <2>3, <3>1, SingleRises
    <2> QED BY <2>2, <2>3
  <1> HIDE DEF seqs
  <1>11. seqs \in Seq(A)
    <2>1. \A i \in 1 .. Len(rows) : seqs[i] \in A BY <1>3, <1>10
    <2> HIDE DEF A
    <2> QED BY <1>3, <1>9, <2>1
  <1>12. Ascending(seqs)
    <2>1. ASSUME NEW i \in DOMAIN rows, NEW j \in DOMAIN rows, i < j,
                 NEW x \in ToSet(seqs[i]), NEW y \in ToSet(seqs[j])
          PROVE  x < y
      <3>0. x \in Part(i) /\ y \in Part(j) BY <1>10
      <3>1. x \in Own(rows[i]) /\ y \in Own(rows[j]) BY <3>0
      <3>2. rows[i] < rows[j] BY <1>2, <2>1 DEF Rising
      <3> QED BY <1>5, <3>1, <3>2, OwnApart
    <2> QED BY <1>9, <1>10, <2>1 DEF Ascending
  <1>13. \A x : x \in ToSet(FlattenSeq(seqs)) <=> \E i \in DOMAIN rows : x \in ToSet(seqs[i])
    BY <1>9, <1>11, FlatSet
  <1>14. \A x : x \in ToSet(FlattenSeq(seqs)) <=> \E i \in DOMAIN rows \cap I : x \in Own(rows[i])
    BY <1>10, <1>13
  <1>15. FlattenSeq(seqs) \in Seq(Nat) /\ Rising(FlattenSeq(seqs)) BY <1>11, <1>12, FlatRising
  <1>16. ShownIn(root, I) = FlattenSeq(seqs) BY DEF ShownIn, seqs, segments, rows
  <1> QED BY <1>14, <1>15, <1>16 DEF IsShownIn, rows

-----------------------------------------------------------------------------
(* The rows on the page.                                                     *)

\* Directly behind a chapter comes another root.
LEMMA ChapterIsAlone ==
    ASSUME PageInv, NEW root \in Roots, xml[root].kind = "chapter"
    PROVE  BlockRows(root) = {}
  <1>1. SUFFICES ASSUME NEW e \in BlockRows(root) PROVE FALSE OBVIOUS
  <1>2. e \in Elements /\ root \in Elements /\ root < e /\ (\A r \in Roots : root < r => e < r)
    BY BlockPlace
  <1> DEFINE x == root + 1
             u == xml[x].under
  <1>3. /\ x \in Elements /\ x \in Nat /\ root \in Nat /\ e \in Nat /\ root < x /\ x <= e
        /\ x - 1 = root /\ x # 0 /\ root \in 1 .. x
    <2>1. Elements = 1 .. Len(xml) /\ Len(xml) \in Nat BY PageFacts
    <2> QED BY <1>2, <2>1
  <1> HIDE DEF x
  <1>4. x \notin Roots BY <1>2, <1>3
  <1>5. xml[x].kind \notin RootKinds BY <1>3, <1>4 DEF Roots
  <1>6. u = root \/ u \in Above(root) BY <1>3, PlaceFacts
  <1>7. xml[x].kind \in ChildKinds(KindOf(u)) BY <1>3, PlaceFacts
  <1>8. CASE u = root
    <2>1. KindOf(u) = "chapter" BY <1>2, <1>8, PageFacts
    <2> QED BY <1>5, <1>7, <2>1 DEF ChildKinds, RootKinds
  <1>9. CASE u \in Above(root)
    <2>1. KindOf(u) = "law"
      <3>1. KindOf(u) \in KindsAbove("chapter") BY <1>2, <1>9, KindAbove
      <3> QED BY <3>1 DEF KindsAbove
    <2>2. u = 0
      <3>1. SUFFICES ASSUME u # 0 PROVE FALSE OBVIOUS
      <3>2. u \in Elements BY <1>3, <3>1, PageFacts
      <3>3. KindOf(u) \in Kinds BY <3>2, PageFacts
      <3> QED BY <2>1, <3>3 DEF Kinds
    <2>3. xml[x].kind = "paragraph" BY <1>5, <1>7, <2>1 DEF ChildKinds, RootKinds
    <2>4. xml[root].kind \notin RootKinds BY <1>3, <2>2, <2>3, PlaceFacts
    <2> QED BY <2>4 DEF Roots
  <1> QED BY <1>6, <1>8, <1>9

\* A paragraph that stands on the line of the heading is the first row of its article.
LEMMA InlineIsFirst ==
    ASSUME PageInv, NEW root \in Roots, NEW i \in DOMAIN BlockOf(root),
           xml[BlockOf(root)[i]].kind = "paragraph", xml[BlockOf(root)[i]].odd
    PROVE  i = 1
  <1> DEFINE rows == BlockOf(root)
             e == rows[i]
             a == e - 1
  <1>1. root \in Elements BY DEF Roots
  <1>2. rows \in Seq(Nat) /\ Rising(rows) /\ ToSet(rows) = BlockRows(root) BY <1>1, BlockFacts
  <1>3. \A k \in DOMAIN rows : rows[k] \in BlockRows(root) BY <1>2 DEF ToSet
  <1>4. e \in Elements /\ e \in Nat /\ root \in Nat /\ root < e
        /\ (\A r \in Roots : root < r => e < r)
    BY <1>3, BlockPlace
  <1>5. KindOf(a) = "article" BY <1>4, PlaceFacts
  <1>6. a \in Elements
    <2>1. a # 0 BY <1>5 DEF KindOf
    <2> QED BY <1>4, <2>1, PageFacts
  <1>7. a \in Roots
    <2>1. xml[a].kind = "article" BY <1>5, <1>6, PageFacts
    <2> QED BY <1>6, <2>1 DEF Roots, RootKinds
  <1>8. a = root
    <2>1. ~ (root < a) BY <1>4, <1>7
    <2> QED BY <1>4, <2>1
  <1>9. DOMAIN rows = 1 .. Len(rows) /\ Len(rows) \in Nat BY <1>2
  <1>10. SUFFICES ASSUME i # 1 PROVE FALSE OBVIOUS
  <1>11. 1 \in DOMAIN rows /\ 1 < i BY <1>9, <1>10
  <1>12. rows[1] < rows[i] BY <1>2, <1>11 DEF Rising
  <1>13. rows[1] \in Nat /\ root < rows[1] BY <1>3, <1>11, BlockPlace
  <1> QED BY <1>4, <1>8, <1>12, <1>13

\* What stands under a root on the page.
ShownUnder(root) == {root} \cup {x \in Elements : \E e \in BlockRows(root) : x \in Own(e)}

LEMMA ShownRowsFacts ==
    ASSUME PageInv, NEW root \in Roots
    PROVE  /\ ShownRows(root) \in Seq(Nat) /\ Rising(ShownRows(root))
           /\ ToSet(ShownRows(root)) = ShownUnder(root)
  <1>1. root \in Elements /\ root \in Nat BY PageFacts DEF Roots
  <1>2. CASE xml[root].kind = "chapter"
    <2>1. ShownRows(root) = <<root>> BY <1>2 DEF ShownRows
    <2>2. ShownUnder(root) = {root} BY <1>2, ChapterIsAlone DEF ShownUnder
    <2> QED BY <1>1, <2>1, <2>2, SingleRises
  <1>3. CASE xml[root].kind # "chapter"
    <2> DEFINE rows == BlockOf(root)
               segments == PageSegments(rows)
               nodes == {i \in DOMAIN segments : segments[i].type = "node"}
               inline == {i \in nodes :
                             /\ \A j \in nodes : i <= j
                             /\ xml[segments[i].row].kind = "paragraph" /\ xml[segments[i].row].odd}
               rest == DOMAIN segments \ inline
               Parts(I) == [i \in DOMAIN segments |-> IF i \in I THEN segments[i].shown ELSE <<>>]
               first == FlattenSeq(Parts(inline))
               others == FlattenSeq(Parts(rest))
    <2>1. ShownRows(root) = <<root>> \o first \o others BY <1>3 DEF ShownRows
    <2>2. rows \in Seq(Nat) /\ Rising(rows) /\ ToSet(rows) = BlockRows(root) BY <1>1, BlockFacts
    <2>3. DOMAIN segments = DOMAIN rows BY DEF PageSegments
    <2>4. \A i \in DOMAIN rows : rows[i] \in BlockRows(root) BY <2>2 DEF ToSet
    <2>5. \A i \in DOMAIN rows : segments[i].row = rows[i]
      <3>1. ASSUME NEW i \in DOMAIN rows PROVE segments[i].row = rows[i]
        <4> DEFINE e == rows[i]
        <4>1. segments[i] = IF Passed(rows, i) THEN Anchor(e) ELSE Segment(e)
          BY <2>3 DEF PageSegments
        <4>2. Passed(rows, i) <=> InTable(e) \/ OfDefinition(e) BY PassedFacts
        <4>3. e \in Elements BY <2>4, BlockPlace
        <4> HIDE DEF e, segments, rows
        <4>4. Anchor(e).row = e BY DEF Anchor
        <4> QED BY <4>1, <4>2, <4>3, <4>4, SegmentFacts DEF e
      <3> QED BY <3>1
    <2>6. \A i \in inline : i = 1
      <3>1. ASSUME NEW i \in inline PROVE i = 1
        <4>1. i \in DOMAIN rows /\ xml[rows[i]].kind = "paragraph" /\ xml[rows[i]].odd
          BY <2>3, <2>5
        <4> HIDE DEF inline, nodes, segments
        <4> QED BY <4>1, InlineIsFirst
      <3> QED BY <3>1
    <2>7. /\ first \in Seq(Nat) /\ Rising(first)
          /\ \A x : x \in ToSet(first) <=> \E i \in DOMAIN rows \cap inline : x \in Own(rows[i])
      <3>1. first = ShownIn(root, inline) BY DEF ShownIn, PartsOf
      <3> HIDE DEF inline, first
      <3> QED BY <3>1, SegmentsFacts DEF IsShownIn
    <2>8. /\ others \in Seq(Nat) /\ Rising(others)
          /\ \A x : x \in ToSet(others) <=> \E i \in DOMAIN rows \cap rest : x \in Own(rows[i])
      <3>1. others = ShownIn(root, rest) BY DEF ShownIn, PartsOf
      <3> HIDE DEF rest, others
      <3> QED BY <3>1, SegmentsFacts DEF IsShownIn
    <2> HIDE DEF first, others
    <2>9. \A i : i \in rest <=> i \in DOMAIN rows /\ i \notin inline BY <2>3
    <2> HIDE DEF rest, inline, nodes, segments, rows
    <2>10. DOMAIN rows = 1 .. Len(rows) /\ Len(rows) \in Nat BY <2>2
    <2>11. ASSUME NEW i \in DOMAIN rows, NEW x \in Own(rows[i])
           PROVE  x \in Elements /\ root < x
      <3>1. rows[i] \in Elements /\ rows[i] \in Nat /\ root < rows[i] BY <2>4, BlockPlace
      <3>2. x \in Elements /\ x \in Nat /\ rows[i] <= x BY <3>1, OwnFacts
      <3> QED BY <1>1, <3>1, <3>2
    <2>12. ASSUME NEW x \in ToSet(first), NEW y \in ToSet(others) PROVE x < y
      <3>1. PICK i \in DOMAIN rows \cap inline : x \in Own(rows[i]) BY <2>7
      <3>2. PICK j \in DOMAIN rows \cap rest : y \in Own(rows[j]) BY <2>8
      <3>3. i = 1 /\ j # 1 /\ 1 < j BY <2>6, <2>9, <2>10, <3>1, <3>2
      <3>4. rows[i] < rows[j] BY <2>2, <3>3 DEF Rising
      <3>5. rows[i] \in Elements /\ rows[j] \in Elements BY <2>4, BlockPlace
      <3> QED BY <3>1, <3>2, <3>4, <3>5, OwnApart
    <2> DEFINE start == <<root>>
               begin == start \o first
    <2>13. start \in Seq(Nat) /\ Rising(start) /\ ToSet(start) = {root} BY <1>1, SingleRises
    <2> HIDE DEF start
    <2>14. \A x \in ToSet(start), y \in ToSet(first) : x < y
      <3>1. \A y \in ToSet(first) : root < y BY <2>7, <2>11
      <3> QED BY <2>13, <3>1
    <2>15. begin \in Seq(Nat) /\ Rising(begin) /\ ToSet(begin) = ToSet(start) \cup ToSet(first)
      BY <2>7, <2>13, <2>14, RisingJoined
    <2> HIDE DEF begin
    <2>16. \A x \in ToSet(begin), y \in ToSet(others) : x < y
      <3>1. \A y \in ToSet(others) : root < y BY <2>8, <2>11
      <3> QED BY <2>12, <2>13, <2>15, <3>1
    <2>17. /\ begin \o others \in Seq(Nat) /\ Rising(begin \o others)
           /\ ToSet(begin \o others) = ToSet(begin) \cup ToSet(others)
      BY <2>8, <2>15, <2>16, RisingJoined
    <2>18. \A x : x \in ToSet(first) \/ x \in ToSet(others) <=>
                    \E i \in DOMAIN rows : x \in Own(rows[i])
      BY <2>7, <2>8, <2>9
    <2>19. \A x : (\E i \in DOMAIN rows : x \in Own(rows[i]))
                    <=> \E e \in BlockRows(root) : x \in Own(e)
      BY <2>2 DEF ToSet
    <2>20. \A x : x \in ToSet(begin \o others) <=> x \in ShownUnder(root)
      <3>1. \A x : (\E i \in DOMAIN rows : x \in Own(rows[i])) => x \in Elements BY <2>11
      <3>2. \A x : x \in ShownUnder(root) <=>
                     x = root \/ (x \in Elements /\ \E e \in BlockRows(root) : x \in Own(e))
        BY DEF ShownUnder
      <3>3. \A x : x \in ToSet(begin \o others) <=>
                     x = root \/ x \in ToSet(first) \/ x \in ToSet(others)
        BY <2>13, <2>15, <2>17
      <3> QED BY <2>18, <2>19, <3>1, <3>2, <3>3
    <2>21. ToSet(begin \o others) = ShownUnder(root) BY <2>20
    <2>22. ShownRows(root) = begin \o others BY <2>1 DEF begin, start
    <2> QED BY <2>17, <2>21, <2>22
  <1> QED BY <1>2, <1>3

\* What stands under one root is before the next root.
LEMMA RootsApart ==
    ASSUME PageInv, NEW r \in Roots, NEW q \in Roots, r < q,
           NEW x \in ShownUnder(r), NEW y \in ShownUnder(q)
    PROVE  x < y
  <1>1. r \in Elements /\ r \in Nat /\ q \in Elements /\ q \in Nat BY PageFacts DEF Roots
  <1>2. q <= y /\ y \in Nat
    <2>1. CASE y = q BY <1>1, <2>1
    <2>2. CASE y # q
      <3>1. PICK e \in BlockRows(q) : y \in Own(e) BY <2>2 DEF ShownUnder
      <3>2. e \in Elements /\ q < e BY BlockPlace
      <3>3. e \in Nat /\ y \in Nat /\ e <= y BY <3>1, <3>2, OwnFacts
      <3> QED BY <1>1, <3>2, <3>3
    <2> QED BY <2>1, <2>2
  <1>3. x < q /\ x \in Nat
    <2>1. CASE x = r BY <1>1, <2>1
    <2>2. CASE x # r
      <3>1. PICK e \in BlockRows(r) : x \in Own(e) BY <2>2 DEF ShownUnder
      <3>2. e \in Elements /\ e < q /\ xml[e].kind \notin RootKinds BY BlockPlace
      <3>3. e \in Nat /\ x \in Nat /\ x \in Elements /\ (x = e \/ e \in Above(x))
        BY <3>1, <3>2, OwnFacts
      <3>4. ~ (q <= x)
        <4>1. SUFFICES ASSUME q <= x PROVE FALSE OBVIOUS
        <4>2. e \in Above(x) BY <1>1, <3>2, <3>3, <4>1
        <4>3. e \in Above(q) BY <1>1, <3>2, <3>3, <4>1, <4>2, Between
        <4>4. KindOf(e) \in {"law", "chapter"} BY <4>3, AboveRoot
        <4>5. KindOf(e) = xml[e].kind /\ xml[e].kind \in Kinds BY <3>2, PageFacts
        <4> QED BY <3>2, <4>4, <4>5 DEF Kinds, RootKinds
      <3> QED BY <1>1, <3>3, <3>4
    <2> QED BY <2>1, <2>2
  <1> QED BY <1>1, <1>2, <1>3

OnPage == {x \in Elements : \E root \in Roots : x \in ShownUnder(root)}

\* The rows on the page, in the order of the law.
LEMMA PageRowsFacts ==
    ASSUME PageInv
    PROVE  PageRows \in Seq(Nat) /\ Rising(PageRows) /\ ToSet(PageRows) = OnPage
  <1> DEFINE roots == InOrder(Roots)
             seqs == [i \in DOMAIN roots |-> ShownRows(roots[i])]
             A == Seq(Nat)
  <1>1. roots \in Seq(Nat) /\ Rising(roots) /\ ToSet(roots) = Roots
    <2>1. Roots \cap Elements = Roots BY DEF Roots
    <2> QED BY <2>1, InOrderFacts
  <1>2. DOMAIN roots = 1 .. Len(roots) /\ Len(roots) \in Nat BY <1>1
  <1>3. PageRows = FlattenSeq(seqs) BY DEF PageRows, Roots
  <1>4. DOMAIN seqs = DOMAIN roots /\ seqs = [i \in 1 .. Len(roots) |-> seqs[i]]
        /\ \A i \in DOMAIN roots : seqs[i] = ShownRows(roots[i])
    BY <1>2
  <1>5. \A i \in DOMAIN roots : roots[i] \in Roots BY <1>1 DEF ToSet
  <1> HIDE DEF seqs, roots
  <1>6. \A i \in DOMAIN roots :
           seqs[i] \in A /\ Rising(seqs[i]) /\ ToSet(seqs[i]) = ShownUnder(roots[i])
    BY <1>4, <1>5, ShownRowsFacts
  <1>7. seqs \in Seq(A)
    <2>1. \A i \in 1 .. Len(roots) : seqs[i] \in A BY <1>2, <1>6
    <2> HIDE DEF A
    <2> QED BY <1>2, <1>4, <2>1
  <1>8. Ascending(seqs)
    <2>1. ASSUME NEW i \in DOMAIN roots, NEW j \in DOMAIN roots, i < j,
                 NEW x \in ToSet(seqs[i]), NEW y \in ToSet(seqs[j])
          PROVE  x < y
      <3>1. x \in ShownUnder(roots[i]) /\ y \in ShownUnder(roots[j]) BY <1>6
      <3>2. roots[i] < roots[j] BY <1>1, <2>1 DEF Rising
      <3> QED BY <1>5, <3>1, <3>2, RootsApart
    <2> QED BY <1>4, <1>6, <2>1 DEF Ascending
  <1>9. \A x : x \in ToSet(FlattenSeq(seqs)) <=> \E i \in DOMAIN roots : x \in ToSet(seqs[i])
    BY <1>4, <1>7, FlatSet
  <1>10. \A x : x \in ToSet(FlattenSeq(seqs)) <=> x \in OnPage
    <2>1. ASSUME NEW x PROVE (\E i \in DOMAIN roots : x \in ShownUnder(roots[i])) <=> x \in OnPage
      <3>1. \A root \in Roots : x \in ShownUnder(root) => x \in Elements BY DEF ShownUnder, Roots
      <3>2. (\E i \in DOMAIN roots : x \in ShownUnder(roots[i]))
              <=> \E root \in Roots : x \in ShownUnder(root)
        BY <1>1, <1>5 DEF ToSet
      <3> QED BY <3>1, <3>2 DEF OnPage
    <2> QED BY <1>6, <1>9, <2>1
  <1>11. ToSet(FlattenSeq(seqs)) = OnPage BY <1>10
  <1> QED BY <1>3, <1>7, <1>8, <1>11, FlatRising

-----------------------------------------------------------------------------
(* Which rows are on the page.                                               *)

AfterRoot(x) == \E r \in 1 .. x : xml[r].kind \in RootKinds

\* A cell is below a table.
LEMMA TableOfCell ==
    ASSUME PageInv, NEW c \in Elements, xml[c].kind = "table_column"
    PROVE  \E t \in Above(c) : KindOf(t) = "table"
  <1> DEFINE r == xml[c].under
             u == xml[r].under
  <1>1. Above(c) = {r} \cup Above(r) /\ (r = 0 \/ r \in Elements) BY PageFacts
  <1>2. xml[c].kind \in ChildKinds(KindOf(r)) BY PlaceFacts
  <1>3. KindOf(r) = "table_row" BY <1>2 DEF ChildKinds
  <1>4. r \in Elements /\ xml[r].kind = "table_row"
    <2>1. r # 0 BY <1>3 DEF KindOf
    <2>2. r \in Elements BY <1>1, <2>1
    <2>3. KindOf(r) = xml[r].kind BY <2>2, PageFacts
    <2> QED BY <1>3, <2>2, <2>3
  <1>5. Above(r) = {u} \cup Above(u) BY <1>4, PageFacts
  <1>6. KindOf(u) = "table"
    <2>1. xml[r].kind \in ChildKinds(KindOf(u)) BY <1>4, PlaceFacts
    <2> QED BY <1>4, <2>1 DEF ChildKinds
  <1> QED BY <1>1, <1>5, <1>6

\* Below a table are its rows and cells, and what is below a cell.
LEMMA TableAbove ==
    ASSUME PageInv, NEW e \in Elements
    PROVE  InTable(e) <=> \/ xml[e].kind \in {"table_row", "table_column"}
                          \/ \E c \in Above(e) : KindOf(c) = "table_column"
  <1> DEFINE Below(i) == \/ xml[i].kind \in {"table_row", "table_column"}
                         \/ \E c \in Above(i) : KindOf(c) = "table_column"
             Bad == {i \in Elements : InTable(i) /\ ~ Below(i)}
  <1>1. Bad = {}
    <2>1. SUFFICES ASSUME Bad # {} PROVE FALSE OBVIOUS
    <2>2. PICK m \in Bad : \A i \in Bad : m <= i
      <3>1. Bad \subseteq Nat BY PageFacts
      <3> HIDE DEF Bad
      <3> QED BY <2>1, <3>1, LeastNumber
    <2>3. m \in Elements /\ InTable(m) /\ ~ Below(m) BY <2>2
    <2> DEFINE u == xml[m].under
    <2>4. /\ m \in Nat /\ u \in 0 .. m - 1 /\ (u = 0 \/ u \in Elements)
          /\ Above(m) = {u} \cup Above(u)
      BY <2>3, PageFacts
    <2>5. xml[m].kind \in ChildKinds(KindOf(u)) BY <2>3, PlaceFacts
    <2> HIDE DEF u
    <2>6. PICK t \in Above(m) : KindOf(t) = "table" BY <2>3 DEF InTable
    <2>7. KindOf(u) # "table"
      <3>1. SUFFICES ASSUME KindOf(u) = "table" PROVE FALSE OBVIOUS
      <3>2. xml[m].kind = "table_row" BY <2>5, <3>1 DEF ChildKinds
      <3> QED BY <2>3, <3>2
    <2>8. t \in Above(u) BY <2>4, <2>6, <2>7
    <2>9. u \in Elements /\ u < m
      <3>1. u # 0 BY <2>8, PageFacts
      <3> QED BY <2>4, <3>1
    <2>10. InTable(u) BY <2>6, <2>8 DEF InTable
    <2>11. Below(u)
      <3>1. u \notin Bad BY <2>2, <2>4, <2>9
      <3> QED BY <2>9, <2>10, <3>1
    <2>12. KindOf(u) = xml[u].kind BY <2>9, PageFacts
    <2>13. CASE xml[u].kind = "table_row"
      <3>1. xml[m].kind = "table_column" BY <2>5, <2>12, <2>13 DEF ChildKinds
      <3> QED BY <2>3, <3>1
    <2>14. CASE xml[u].kind = "table_column"
      <3>1. u \in Above(m) /\ KindOf(u) = "table_column" BY <2>4, <2>12, <2>14
      <3> QED BY <2>3, <3>1
    <2>15. CASE \E c \in Above(u) : KindOf(c) = "table_column"
      <3>1. \E c \in Above(m) : KindOf(c) = "table_column" BY <2>4, <2>15
      <3> QED BY <2>3, <3>1
    <2> QED BY <2>11, <2>13, <2>14, <2>15
  <1>2. ASSUME xml[e].kind = "table_row" PROVE InTable(e)
    <2> DEFINE u == xml[e].under
    <2>1. xml[e].kind \in ChildKinds(KindOf(u)) BY PlaceFacts
    <2>2. KindOf(u) = "table" BY <1>2, <2>1 DEF ChildKinds
    <2>3. u \in Above(e) BY PageFacts
    <2> QED BY <2>2, <2>3 DEF InTable
  <1>3. ASSUME xml[e].kind = "table_column" PROVE InTable(e)
    BY <1>3, TableOfCell DEF InTable
  <1>4. ASSUME NEW c \in Above(e), KindOf(c) = "table_column" PROVE InTable(e)
    <2>1. c \in Elements
      <3>1. c # 0 BY <1>4 DEF KindOf
      <3> QED BY <3>1, AboveFacts
    <2>2. xml[c].kind = "table_column" BY <1>4, <2>1, PageFacts
    <2>3. PICK t \in Above(c) : KindOf(t) = "table" BY <2>1, <2>2, TableOfCell
    <2>4. t \in Above(e) BY <2>3, AboveFacts
    <2> QED BY <2>3, <2>4 DEF InTable
  <1> QED BY <1>1, <1>2, <1>3, <1>4

\* A root before an element is before what is above it, but for the root's own part.
LEMMA RootBefore ==
    ASSUME PageInv, NEW x \in Elements, AfterRoot(x), NEW a \in Elements, a = x \/ a \in Above(x),
           a \notin Roots
    PROVE  \E r \in Roots : r < a
  <1>1. PICK r \in 1 .. x : xml[r].kind \in RootKinds BY DEF AfterRoot
  <1>2. x \in Nat /\ a \in Nat /\ r \in Elements /\ r \in Nat
    <2>1. Elements = 1 .. Len(xml) /\ Len(xml) \in Nat /\ x \in Nat BY PageFacts
    <2> QED BY <1>1, <2>1
  <1>3. r \in Roots BY <1>1, <1>2 DEF Roots
  <1>4. ~ (a < r)
    <2>1. SUFFICES ASSUME a < r PROVE FALSE OBVIOUS
    <2>2. a \in Above(x) BY <1>1, <1>2, <2>1
    <2>3. a \in Above(r) BY <1>1, <1>2, <2>1, <2>2, Between
    <2>4. KindOf(a) \in {"law", "chapter"} BY <1>3, <2>3, AboveRoot
    <2>5. KindOf(a) = xml[a].kind /\ xml[a].kind \in Kinds BY PageFacts
    <2> QED BY <2>4, <2>5 DEF Kinds, Roots, RootKinds
  <1>5. a # r BY <1>3
  <1> QED BY <1>2, <1>3, <1>4, <1>5

\* What is behind a root is behind a last one: in its article.
LEMMA InSomeBlock ==
    ASSUME PageInv, NEW e \in Rows, e \notin Roots, \E r \in Roots : r < e
    PROVE  \E root \in Roots : e \in BlockRows(root)
  <1> DEFINE D == {e - r : r \in {q \in Roots : q < e}}
  <1>1. e \in Nat /\ Roots \subseteq Nat BY PageFacts DEF Roots, Rows
  <1>2. D \subseteq Nat /\ D # {} BY <1>1
  <1>3. PICK d \in D : \A n \in D : d <= n
    <2> HIDE DEF D
    <2> QED BY <1>2, LeastNumber
  <1>4. PICK root \in Roots : root < e /\ d = e - root BY <1>3
  <1>5. ASSUME NEW r \in Roots, root < r PROVE e < r
    <2>1. SUFFICES ASSUME ~ (e < r) PROVE FALSE OBVIOUS
    <2>2. r \in Nat /\ root \in Nat /\ r # e BY <1>1
    <2>3. r < e BY <1>1, <2>1, <2>2
    <2>4. e - r \in D BY <2>3
    <2>5. e - root <= e - r BY <1>3, <1>4, <2>4
    <2> QED BY <1>1, <1>5, <2>2, <2>5
  <1> QED BY <1>4, <1>5 DEF BlockRows

\* The rows on the page: the roots, the cells, the keyword and the body of a
\* definition, and the other rows that are not below a table.
IsShown(x) ==
    /\ AfterRoot(x)
    /\ \/ xml[x].kind \in RootKinds
       \/ xml[x].kind = "table_column"
       \/ /\ xml[x].kind = "column" /\ ~ InTable(x) /\ IsDefinition(xml[x].under)
          /\ x \in NthColumn(xml[x].under, 1) \cup NthColumn(xml[x].under, 2)
       \/ xml[x].kind \in {"paragraph", "item", "subitem1"} /\ ~ InTable(x) /\ ~ IsDefinition(x)

LEMMA OnPageIsShown ==
    ASSUME PageInv, NEW x \in OnPage
    PROVE  x \in Elements /\ IsShown(x)
  <1>1. PICK root \in Roots : x \in Elements /\ x \in ShownUnder(root) BY DEF OnPage
  <1>2. root \in Elements /\ root \in Nat /\ root # 0 /\ xml[root].kind \in RootKinds /\ x \in Nat
    BY <1>1, PageFacts DEF Roots
  <1>3. CASE x = root
    <2>1. root \in 1 .. x BY <1>2, <1>3
    <2> QED BY <1>2, <1>3, <2>1 DEF IsShown, AfterRoot
  <1>4. CASE x # root
    <2>1. PICK e \in BlockRows(root) : x \in Own(e) BY <1>1, <1>4 DEF ShownUnder
    <2>2. /\ e \in Elements /\ e \in Nat /\ root < e
          /\ xml[e].kind \in {"paragraph", "item", "subitem1", "column", "table_struct", "table",
                              "table_row", "table_column"}
      BY BlockPlace
    <2>3. e <= x /\ ~ InTable(e) /\ ~ OfDefinition(e) BY <2>1, <2>2, OwnFacts
    <2>4. root \in 1 .. x BY <1>2, <2>2, <2>3
    <2>5. AfterRoot(x) BY <1>2, <2>4 DEF AfterRoot
    <2>6. CASE xml[e].kind = "table"
      <3>1. xml[x].kind = "table_column" BY <2>1, <2>3, <2>6 DEF Own
      <3> QED BY <1>1, <2>5, <3>1 DEF IsShown
    <2>7. CASE xml[e].kind # "table" /\ IsDefinition(e)
      <3>0. xml[e].kind = "item" BY <2>7 DEF IsDefinition
      <3>1. x \in NthColumn(e, 1) \cup NthColumn(e, 2) BY <2>1, <2>3, <2>7, <3>0 DEF Own
      <3>2. xml[x].kind = "column" /\ xml[x].under = e
        BY <3>1 DEF NthColumn, ColumnsOf, Children
      <3>3. Above(x) = {e} \cup Above(e) /\ KindOf(e) = "item"
        BY <1>1, <2>2, <3>0, <3>2, PageFacts
      <3>4. ~ InTable(x) BY <2>3, <3>3 DEF InTable
      <3> QED BY <1>1, <2>5, <2>7, <3>1, <3>2, <3>4 DEF IsShown
    <2>8. CASE xml[e].kind # "table" /\ ~ IsDefinition(e)
      <3>1. x = e /\ xml[e].kind \notin {"table_struct", "table_row", "table_column", "column"}
        BY <2>1, <2>3, <2>8 DEF Own
      <3>2. xml[x].kind \in {"paragraph", "item", "subitem1"} BY <2>2, <2>8, <3>1
      <3> QED BY <1>1, <2>3, <2>5, <2>8, <3>1, <3>2 DEF IsShown
    <2> QED BY <2>6, <2>7, <2>8
  <1> QED BY <1>3, <1>4

LEMMA ShownIsOnPage ==
    ASSUME PageInv, NEW x \in Elements, IsShown(x)
    PROVE  x \in OnPage
  <1>1. AfterRoot(x) BY DEF IsShown
  <1>2. ASSUME NEW e \in Elements, e = x \/ e \in Above(x), xml[e].kind \notin RootKinds,
               xml[e].kind # "remarks", x \in Own(e)
        PROVE  x \in OnPage
    <2>1. e \notin Roots /\ e \in Rows BY <1>2 DEF Roots, Rows
    <2>2. \E r \in Roots : r < e BY <1>1, <1>2, <2>1, RootBefore
    <2>3. PICK root \in Roots : e \in BlockRows(root) BY <2>1, <2>2, InSomeBlock
    <2>4. x \in ShownUnder(root) BY <1>2, <2>3 DEF ShownUnder
    <2> QED BY <2>4 DEF OnPage
  <1>3. CASE xml[x].kind \in RootKinds
    <2>1. x \in Roots /\ x \in ShownUnder(x) BY <1>3 DEF Roots, ShownUnder
    <2> QED BY <2>1 DEF OnPage
  <1>4. CASE xml[x].kind = "table_column"
    <2>1. PICK t \in Above(x) : KindOf(t) = "table" BY <1>4, TableOfCell
    <2>2. t \in Elements
      <3>1. t # 0 BY <2>1 DEF KindOf
      <3> QED BY <3>1, AboveFacts
    <2>3. xml[t].kind = "table" BY <2>1, <2>2, PageFacts
    <2>4. ~ InTable(t)
      <3>1. SUFFICES ASSUME InTable(t) PROVE FALSE OBVIOUS
      <3>2. PICK q \in Above(t) : KindOf(q) = "table" BY <3>1 DEF InTable
      <3>3. "table" \in KindsAbove("table") BY <2>2, <2>3, <3>2, KindAbove
      <3> QED BY <3>3 DEF KindsAbove
    <2>5. ~ OfDefinition(t) BY <2>3 DEF OfDefinition
    <2>6. x \in Own(t) BY <1>4, <2>1, <2>3, <2>4, <2>5 DEF Own
    <2> QED BY <1>2, <2>1, <2>2, <2>3, <2>6 DEF RootKinds
  <1>5. CASE /\ xml[x].kind = "column" /\ ~ InTable(x) /\ IsDefinition(xml[x].under)
             /\ x \in NthColumn(xml[x].under, 1) \cup NthColumn(xml[x].under, 2)
    <2> DEFINE e == xml[x].under
    <2>1. xml[e].kind = "item" BY <1>5 DEF IsDefinition
    <2>2. xml[x].kind \in ChildKinds(KindOf(e)) BY PlaceFacts
    <2>3. Above(x) = {e} \cup Above(e) /\ (e = 0 \/ e \in Elements) BY PageFacts
    <2>4. e # 0
      <3>1. SUFFICES ASSUME e = 0 PROVE FALSE OBVIOUS
      <3>2. KindOf(e) = "law" BY <3>1 DEF KindOf
      <3> QED BY <1>5, <2>2, <3>2 DEF ChildKinds
    <2>5. ~ InTable(e) BY <1>5, <2>3 DEF InTable
    <2>6. ~ OfDefinition(e) BY <2>1 DEF OfDefinition
    <2>7. IsDefinition(e) /\ x \in NthColumn(e, 1) \cup NthColumn(e, 2) BY <1>5
    <2> HIDE DEF e
    <2>8. Own(e) = NthColumn(e, 1) \cup NthColumn(e, 2) BY <2>1, <2>5, <2>6, <2>7 DEF Own
    <2> QED BY <1>2, <2>1, <2>3, <2>4, <2>7, <2>8 DEF RootKinds
  <1>6. CASE xml[x].kind \in {"paragraph", "item", "subitem1"} /\ ~ InTable(x) /\ ~ IsDefinition(x)
    <2>1. ~ OfDefinition(x) BY <1>6 DEF OfDefinition
    <2>2. x \in Own(x) BY <1>6, <2>1 DEF Own
    <2> QED BY <1>2, <1>6, <2>2 DEF RootKinds
  <1> QED BY <1>3, <1>4, <1>5, <1>6 DEF IsShown

-----------------------------------------------------------------------------
(* Which rows on the page have a sentence.                                   *)

\* A row has it as its own, or that of its column; an appendix has its remarks.
AtHome(s, e) == s = e \/ (xml[s].kind = "column" /\ xml[s].under = e)
InCaption(s, e) ==
    \E r \in Children(e) : xml[r].kind = "remarks" /\ (s = r \/ r \in Above(s))

Homes(s) == {e \in OnPage : AtHome(s, e)}
Captions(s) == {e \in OnPage : InCaption(s, e)}

BelowCell(s) == \E c \in Above(s) : KindOf(c) = "table_column"

\* What is below a definition has its columns among it.
LEMMA DefinitionHasColumns ==
    ASSUME PageInv, NEW e \in Elements, IsDefinition(e)
    PROVE  xml[e].kind = "item" /\ ~ HasSentence(e)
  <1>1. xml[e].kind = "item" /\ NthColumn(e, 1) \cap Sentences # {} BY DEF IsDefinition
  <1>2. PICK c \in NthColumn(e, 1) : TRUE BY <1>1
  <1>3. c \in Children(e) /\ xml[c].kind = "column" BY <1>2 DEF NthColumn, ColumnsOf
  <1> QED BY <1>1, <1>3 DEF HasSentence

\* A column is below an item, and in a table with it.
LEMMA ColumnFacts ==
    ASSUME PageInv, NEW s \in Elements, xml[s].kind = "column", NEW e, e = xml[s].under
    PROVE  /\ e \in Elements /\ e \in Nat /\ s \in Nat /\ e < s
           /\ xml[e].kind \in {"item", "subitem1"}
           /\ e \notin Roots
           /\ AfterRoot(s) <=> AfterRoot(e)
           /\ InTable(s) <=> InTable(e)
           /\ InTable(s) <=> BelowCell(s)
  <1>1. /\ s \in Nat /\ e \in 0 .. s - 1 /\ (e = 0 \/ e \in Elements)
        /\ Above(s) = {e} \cup Above(e)
    BY PageFacts
  <1>2. xml[s].kind \in ChildKinds(KindOf(e)) BY PlaceFacts
  <1>3. KindOf(e) \in {"item", "subitem1"} BY <1>2 DEF ChildKinds
  <1>4. e \in Elements
    <2>1. e # 0 BY <1>3 DEF KindOf
    <2> QED BY <1>1, <2>1
  <1>5. KindOf(e) = xml[e].kind /\ e \in Nat BY <1>4, PageFacts
  <1>6. xml[e].kind \in {"item", "subitem1"} BY <1>3, <1>5
  <1>7. e \notin Roots BY <1>6 DEF Roots, RootKinds
  <1>8. AfterRoot(s) <=> AfterRoot(e)
    <2>1. ASSUME AfterRoot(s) PROVE AfterRoot(e)
      <3>1. PICK r \in Roots : r < e BY <1>1, <1>4, <1>7, <2>1, RootBefore
      <3>2. r \in Nat /\ r # 0 BY <3>1, PageFacts DEF Roots
      <3>3. r \in 1 .. e BY <1>5, <3>1, <3>2
      <3>4. xml[r].kind \in RootKinds BY <3>1 DEF Roots
      <3> QED BY <3>3, <3>4 DEF AfterRoot
    <2>2. ASSUME AfterRoot(e) PROVE AfterRoot(s)
      <3>1. 1 .. e \subseteq 1 .. s BY <1>1
      <3> QED BY <2>2, <3>1 DEF AfterRoot
    <2> QED BY <2>1, <2>2
  <1>9. InTable(s) <=> InTable(e)
    <2>1. KindOf(e) # "table" BY <1>3
    <2> QED BY <1>1, <2>1 DEF InTable
  <1>10. InTable(s) <=> BelowCell(s) BY TableAbove DEF BelowCell
  <1> QED BY <1>1, <1>4, <1>5, <1>6, <1>7, <1>8, <1>9, <1>10

\* What the page loses, in the words used here.
LEMMA LostFacts ==
    ASSUME PageInv, NEW s \in Sentences
    PROVE  Lost(s) <=> \/ ~ AfterRoot(s)
                       \/ BelowCell(s)
                       \/ xml[s].kind \in {"table_struct", "table", "remarks"}
                       \/ /\ xml[s].kind = "column" /\ IsDefinition(xml[s].under)
                          /\ s \notin NthColumn(xml[s].under, 1) \cup NthColumn(xml[s].under, 2)
  <1>1. ~ AfterRoot(s) <=> \A r \in 1 .. s : xml[r].kind \notin RootKinds BY DEF AfterRoot
  <1> QED BY <1>1 DEF Lost, BelowCell

\* A sentence that is not a column's has a row of its own on the page, if any.
LEMMA RowIsShown ==
    ASSUME PageInv, NEW s \in Sentences, xml[s].kind # "column"
    PROVE  IsShown(s) <=> ~ Lost(s)
  <1>1. s \in Elements /\ xml[s].kind \in Kinds /\ HasSentence(s) BY PageFacts DEF Sentences
  <1>2. xml[s].kind # "table_row" /\ ~ IsDefinition(s)
    BY <1>1, DefinitionHasColumns DEF HasSentence
  <1>3. ~ OfDefinition(s) BY DEF OfDefinition
  <1>4. xml[s].kind \in RootKinds \cup {"table_column"} => ~ BelowCell(s)
    <2>1. SUFFICES ASSUME xml[s].kind \in RootKinds \cup {"table_column"}, BelowCell(s)
                   PROVE  FALSE
      OBVIOUS
    <2>2. PICK c \in Above(s) : KindOf(c) = "table_column" BY <2>1 DEF BelowCell
    <2>3. "table_column" \in KindsAbove(xml[s].kind) BY <1>1, <2>2, KindAbove
    <2>4. CASE xml[s].kind = "chapter" BY <2>3, <2>4 DEF KindsAbove
    <2>5. CASE xml[s].kind = "article" BY <2>3, <2>5 DEF KindsAbove
    <2>6. CASE xml[s].kind = "appdx_table" BY <2>3, <2>6 DEF KindsAbove
    <2>7. CASE xml[s].kind = "table_column" BY <2>3, <2>7 DEF KindsAbove
    <2> QED BY <2>1, <2>4, <2>5, <2>6, <2>7 DEF RootKinds
  <1>5. xml[s].kind \in {"paragraph", "item", "subitem1"} => (InTable(s) <=> BelowCell(s))
    BY <1>1, TableAbove DEF BelowCell
  <1>6. xml[s].kind \in RootKinds \cup {"table_column", "paragraph", "item", "subitem1",
                                          "table_struct", "table", "remarks"}
    BY <1>1, <1>2 DEF Kinds, RootKinds
  <1>7. CASE xml[s].kind \in RootKinds \cup {"table_column"}
    BY <1>4, <1>7, LostFacts DEF IsShown, RootKinds
  <1>8. CASE xml[s].kind \in {"paragraph", "item", "subitem1"}
    BY <1>2, <1>5, <1>8, LostFacts DEF IsShown, RootKinds
  <1>9. CASE xml[s].kind \in {"table_struct", "table", "remarks"}
    BY <1>9, LostFacts DEF IsShown, RootKinds
  <1> QED BY <1>6, <1>7, <1>8, <1>9

\* A sentence that is not lost has one row on the page, its own or that of its item;
\* a body that is cut has its own.
LEMMA OneHome ==
    ASSUME PageInv, NEW s \in Sentences
    PROVE  /\ IF Lost(s) THEN Homes(s) = {} ELSE \E h : Homes(s) = {h}
           /\ Cut(s) /\ ~ Lost(s) => Homes(s) = {s}
  <1>1. s \in Elements BY DEF Sentences
  <1>2. \A x \in Elements : x \in OnPage <=> IsShown(x) BY OnPageIsShown, ShownIsOnPage
  <1>3. CASE xml[s].kind # "column"
    <2>1. \A e : e \in Homes(s) <=> e = s /\ e \in OnPage BY <1>3 DEF Homes, AtHome
    <2>2. s \in OnPage <=> ~ Lost(s) BY <1>1, <1>2, <1>3, RowIsShown
    <2>3. CASE Lost(s)
      <3>1. Homes(s) = {} BY <2>1, <2>2, <2>3
      <3> QED BY <2>3, <3>1
    <2>4. CASE ~ Lost(s)
      <3>1. Homes(s) = {s} BY <2>1, <2>2, <2>4
      <3> QED BY <2>4, <3>1
    <2>5. ~ Cut(s) BY <1>3 DEF Cut
    <2> QED BY <2>3, <2>4, <2>5
  <1>4. CASE xml[s].kind = "column"
    <2> DEFINE e == xml[s].under
               nth == NthColumn(e, 1) \cup NthColumn(e, 2)
    <2>1. /\ e \in Elements /\ xml[e].kind \in {"item", "subitem1"}
          /\ AfterRoot(s) <=> AfterRoot(e)
          /\ InTable(s) <=> InTable(e)
          /\ InTable(s) <=> BelowCell(s)
      BY <1>1, <1>4, ColumnFacts
    <2>2. Lost(s) <=> ~ AfterRoot(s) \/ InTable(s) \/ (IsDefinition(e) /\ s \notin nth)
      BY <1>4, <2>1, LostFacts
    <2>3. IsShown(s) <=> AfterRoot(s) /\ ~ InTable(s) /\ IsDefinition(e) /\ s \in nth
      BY <1>4 DEF IsShown, RootKinds
    <2> HIDE DEF nth
    <2>4. IsShown(e) <=> AfterRoot(s) /\ ~ InTable(s) /\ ~ IsDefinition(e)
      <3> HIDE DEF e
      <3> QED BY <2>1 DEF IsShown, RootKinds
    <2>5. \A x : x \in Homes(s) <=> (x = s \/ x = e) /\ x \in OnPage
      BY <1>4 DEF Homes, AtHome
    <2>6. (s \in OnPage <=> IsShown(s)) /\ (e \in OnPage <=> IsShown(e))
      <3> HIDE DEF e
      <3> QED BY <1>1, <1>2, <2>1
    <2> HIDE DEF e
    <2>7. CASE Lost(s)
      <3>1. s \notin OnPage /\ e \notin OnPage BY <2>2, <2>3, <2>4, <2>6, <2>7
      <3>2. Homes(s) = {} BY <2>5, <3>1
      <3> QED BY <2>7, <3>2
    <2>8. CASE ~ Lost(s) /\ IsDefinition(e)
      <3>1. s \in OnPage /\ e \notin OnPage BY <2>2, <2>3, <2>4, <2>6, <2>8
      <3>2. Homes(s) = {s} BY <2>5, <3>1
      <3> QED BY <2>8, <3>2
    <2>9. CASE ~ Lost(s) /\ ~ IsDefinition(e)
      <3>1. s \notin OnPage /\ e \in OnPage BY <2>2, <2>3, <2>4, <2>6, <2>9
      <3>2. Homes(s) = {e} BY <2>5, <3>1
      <3>3. ~ Cut(s) BY <2>9 DEF Cut, e
      <3> QED BY <2>9, <3>2, <3>3
    <2> QED BY <2>7, <2>8, <2>9
  <1> QED BY <1>3, <1>4

\* What an appendix has in its caption.
LEMMA CaptionPlace ==
    ASSUME PageInv, NEW s \in Sentences, NEW e \in Captions(s)
    PROVE  /\ e \in Roots /\ e \in Elements /\ xml[e].kind = "appdx_table" /\ e \in Above(s)
           /\ InAppendixRemarks(s)
  <1>1. e \in Elements /\ IsShown(e)
    <2>1. e \in OnPage BY DEF Captions
    <2> QED BY <2>1, OnPageIsShown
  <1>2. PICK r \in Children(e) : xml[r].kind = "remarks" /\ (s = r \/ r \in Above(s))
    BY DEF Captions, InCaption
  <1>3. r \in Elements /\ xml[r].under = e BY DEF Children
  <1>4. KindOf(r) = "remarks" /\ KindOf(e) = xml[e].kind /\ e \in Above(r)
    BY <1>1, <1>2, <1>3, PageFacts
  <1>5. xml[r].kind \in ChildKinds(KindOf(e)) BY <1>3, PlaceFacts
  <1>6. xml[e].kind \in {"appdx_table", "table_struct"} BY <1>2, <1>4, <1>5 DEF ChildKinds
  <1>7. xml[e].kind = "appdx_table" BY <1>1, <1>6 DEF IsShown, RootKinds
  <1>8. e \in Above(s)
    <2>1. CASE s = r BY <1>4, <2>1
    <2>2. CASE r \in Above(s)
      <3>1. s \in Elements BY DEF Sentences
      <3> QED BY <1>4, <2>2, <3>1, AboveFacts
    <2> QED BY <1>2, <2>1, <2>2
  <1>9. InAppendixRemarks(s)
    <2>1. r \in Above(s) \cup {s} BY <1>2
    <2>2. KindOf(xml[r].under) = "appdx_table" BY <1>3, <1>4, <1>7
    <2> QED BY <1>4, <2>1, <2>2 DEF InAppendixRemarks
  <1> QED BY <1>1, <1>7, <1>8, <1>9 DEF Roots, RootKinds

\* One appendix has the remarks of an appendix in its caption.
LEMMA OneCaption ==
    ASSUME PageInv, NEW s \in Sentences
    PROVE  /\ IF InAppendixRemarks(s) THEN \E h : Captions(s) = {h} ELSE Captions(s) = {}
           /\ Homes(s) \cap Captions(s) = {}
  <1>0. s \in Elements /\ s \in Nat BY PageFacts DEF Sentences
  <1>1. CASE ~ InAppendixRemarks(s)
    <2>1. Captions(s) = {} BY <1>1, CaptionPlace
    <2> QED BY <1>1, <2>1
  <1>2. ASSUME InAppendixRemarks(s) PROVE \E h : Captions(s) = {h}
    <2>1. PICK r \in Above(s) \cup {s} :
              KindOf(r) = "remarks" /\ KindOf(xml[r].under) = "appdx_table"
      BY <1>2 DEF InAppendixRemarks
    <2>2. r \in Elements
      <3>1. r # 0 BY <2>1 DEF KindOf
      <3> QED BY <1>0, <2>1, <3>1, AboveFacts
    <2> DEFINE h == xml[r].under
    <2>3. KindOf(h) = "appdx_table" /\ (h = 0 \/ h \in Elements) BY <2>1, <2>2, PageFacts
    <2>8. r \in Children(h) /\ xml[r].kind = "remarks" BY <2>1, <2>2, PageFacts DEF Children
    <2> HIDE DEF h
    <2>4. h \in Elements /\ xml[h].kind = "appdx_table" /\ h \in Nat
      <3>1. h # 0 BY <2>3 DEF KindOf
      <3>2. h \in Elements BY <2>3, <3>1
      <3> QED BY <2>3, <3>2, PageFacts
    <2>5. IsShown(h)
      <3>1. h \in 1 .. h BY <2>4, PageFacts
      <3>2. xml[h].kind \in RootKinds BY <2>4 DEF RootKinds
      <3> QED BY <3>1, <3>2 DEF IsShown, AfterRoot
    <2>6. h \in OnPage BY <2>4, <2>5, ShownIsOnPage
    <2>7. h \in Captions(s) BY <2>1, <2>6, <2>8 DEF Captions, InCaption
    <2>9. ASSUME NEW a \in Captions(s), NEW b \in Captions(s) PROVE ~ (a < b)
      <3>1. SUFFICES ASSUME a < b PROVE FALSE OBVIOUS
      <3>2. /\ a \in Above(s) /\ b \in Above(s) /\ b \in Elements
            /\ xml[a].kind = "appdx_table" /\ xml[b].kind = "appdx_table" /\ a \in Elements
        BY CaptionPlace
      <3>3. b <= s BY <1>0, <3>2, AboveFacts
      <3>4. a \in Above(b) BY <1>0, <3>1, <3>2, <3>3, Between
      <3>5. KindOf(a) = "appdx_table" BY <3>2, PageFacts
      <3>6. "appdx_table" \in KindsAbove("appdx_table") BY <3>2, <3>4, <3>5, KindAbove
      <3> QED BY <3>6 DEF KindsAbove
    <2>10. \A a \in Captions(s) : a = h
      <3>1. \A a \in Captions(s) : a \in Nat BY CaptionPlace, PageFacts
      <3> QED BY <2>7, <2>9, <3>1
    <2>11. Captions(s) = {h} BY <2>7, <2>10
    <2> QED BY <2>11
  <1>3. ASSUME NEW e \in Homes(s), e \in Captions(s) PROVE FALSE
    <2>1. e \in Above(s) /\ e \in Elements /\ xml[e].kind = "appdx_table"
      BY <1>3, CaptionPlace
    <2>2. e < s BY <1>0, <2>1, AboveFacts
    <2>3. e # s BY <1>0, <2>2
    <2>4. xml[s].kind = "column" /\ xml[s].under = e BY <2>3 DEF Homes, AtHome
    <2>5. xml[e].kind \in {"item", "subitem1"} BY <1>0, <2>4, ColumnFacts
    <2> QED BY <2>1, <2>5
  <1> QED BY <1>1, <1>2, <1>3

-----------------------------------------------------------------------------
(* The text on the page.                                                     *)

\* What a row shows: sentences, whole or cut.
Words == [sentence : Nat, whole : BOOLEAN]
Word(s, whole) == [sentence |-> s, whole |-> whole]

\* The sentences rise.
InLawOrder(q) == \A p, r \in DOMAIN q : p < r => q[p].sentence < q[r].sentence

\* The text of a row has its sentences in their order, and none but its own is cut.
LEMMA NodeTextFacts ==
    ASSUME PageInv, NEW e
    PROVE  /\ NodeText(e) \in Seq(Words) /\ InLawOrder(NodeText(e)) /\ Once(NodeText(e))
           /\ \A x \in ToSet(NodeText(e)) : x.sentence \in TextOf(e)
           /\ \A s : /\ Word(s, TRUE) \in ToSet(NodeText(e))
                            <=> s \in TextOf(e) /\ ~ (s = e /\ Cut(e))
                     /\ Word(s, FALSE) \in ToSet(NodeText(e))
                            <=> s \in TextOf(e) /\ s = e /\ Cut(e)
  <1> DEFINE text == InOrder(TextOf(e))
             Cuts(s) == s = e /\ Cut(e)
             node == NodeText(e)
  <1>1. text \in Seq(Nat) /\ Rising(text) /\ ToSet(text) = TextOf(e)
    <2>1. TextOf(e) \cap Elements = TextOf(e) BY DEF TextOf, Sentences
    <2> QED BY <2>1, InOrderFacts
  <1>2. node = [i \in DOMAIN text |-> Word(text[i], ~ Cuts(text[i]))]
    BY DEF NodeText, Word
  <1> HIDE DEF text, node, Cuts
  <1>3. DOMAIN text = 1 .. Len(text) /\ Len(text) \in Nat BY <1>1
  <1>4. ASSUME NEW i \in DOMAIN text
        PROVE  /\ node[i] = Word(text[i], ~ Cuts(text[i])) /\ node[i] \in Words
               /\ node[i].sentence = text[i]
    <2>1. node[i] = Word(text[i], ~ Cuts(text[i])) BY <1>2
    <2>2. text[i] \in Nat BY <1>1
    <2>3. (~ Cuts(text[i])) \in BOOLEAN OBVIOUS
    <2> QED BY <2>1, <2>2, <2>3 DEF Word, Words
  <1>5. DOMAIN node = DOMAIN text BY <1>2
  <1>6. node \in Seq(Words)
    <2>1. node = [i \in 1 .. Len(text) |-> node[i]] BY <1>2, <1>3
    <2>2. node \in [1 .. Len(text) -> Words] BY <1>3, <1>4, <2>1
    <2> QED BY <1>3, <2>2
  <1>7. InLawOrder(node) BY <1>1, <1>4, <1>5 DEF InLawOrder, Rising
  <1>8. Once(node)
    <2>1. ASSUME NEW p \in DOMAIN node, NEW r \in DOMAIN node, node[p] = node[r]
          PROVE  p = r
      <3>1. text[p] = text[r] BY <1>4, <1>5, <2>1
      <3> QED BY <1>1, <1>5, <3>1, RisingOnce
    <2> QED BY <2>1 DEF Once
  <1>9. \A s : s \in TextOf(e) <=> \E i \in DOMAIN text : text[i] = s BY <1>1 DEF ToSet
  <1>10. ASSUME NEW x \in ToSet(node) PROVE x.sentence \in TextOf(e)
    <2>1. PICK i \in DOMAIN node : x = node[i] BY DEF ToSet
    <2> QED BY <1>4, <1>5, <1>9, <2>1
  <1>11. ASSUME NEW s
         PROVE  /\ Word(s, TRUE) \in ToSet(node) <=> s \in TextOf(e) /\ ~ Cuts(s)
                /\ Word(s, FALSE) \in ToSet(node) <=> s \in TextOf(e) /\ Cuts(s)
    <2>1. ASSUME NEW w \in BOOLEAN, Word(s, w) \in ToSet(node)
          PROVE  s \in TextOf(e) /\ w = ~ Cuts(s)
      <3>1. PICK i \in DOMAIN node : Word(s, w) = node[i] BY <2>1 DEF ToSet
      <3>2. Word(s, w) = Word(text[i], ~ Cuts(text[i])) BY <1>4, <1>5, <3>1
      <3>3. s = text[i] /\ w = ~ Cuts(text[i]) BY <3>2 DEF Word
      <3> QED BY <1>5, <1>9, <3>1, <3>3
    <2>2. ASSUME s \in TextOf(e) PROVE Word(s, ~ Cuts(s)) \in ToSet(node)
      <3>1. PICK i \in DOMAIN text : text[i] = s BY <1>9, <2>2
      <3>2. node[i] = Word(s, ~ Cuts(s)) BY <1>4, <3>1
      <3> QED BY <1>5, <3>1, <3>2 DEF ToSet
    <2>3. CASE Cuts(s)
      <3>1. (~ Cuts(s)) = FALSE BY <2>3
      <3>2. s \in TextOf(e) => Word(s, FALSE) \in ToSet(node) BY <2>2, <3>1
      <3>3. Word(s, TRUE) \notin ToSet(node) BY <2>1, <3>1
      <3>4. Word(s, FALSE) \in ToSet(node) => s \in TextOf(e) BY <2>1
      <3> QED BY <2>3, <3>2, <3>3, <3>4
    <2>4. CASE ~ Cuts(s)
      <3>1. (~ Cuts(s)) = TRUE BY <2>4
      <3>2. s \in TextOf(e) => Word(s, TRUE) \in ToSet(node) BY <2>2, <3>1
      <3>3. Word(s, FALSE) \notin ToSet(node) BY <2>1, <3>1
      <3>4. Word(s, TRUE) \in ToSet(node) => s \in TextOf(e) BY <2>1
      <3> QED BY <2>4, <3>2, <3>3, <3>4
    <2> QED BY <2>3, <2>4
  <1> QED BY <1>6, <1>7, <1>8, <1>10, <1>11 DEF node, Cuts

\* The rows that show a sentence whole, and those that show it cut.
WholeHomes(s) == IF Cut(s) THEN {} ELSE Homes(s)
CutHomes(s) == IF Cut(s) THEN Homes(s) ELSE {}

\* The rows with a sentence are its home and the appendix with it in the caption; only
\* the home of a body that repeats its keyword shows it cut.
LEMMA TextRows ==
    ASSUME PageInv, NEW s \in Sentences
    PROVE  /\ \A e \in OnPage : s \in TextOf(e) <=> e \in Homes(s) \/ e \in Captions(s)
           /\ \A e \in OnPage : Word(s, TRUE) \in ToSet(NodeText(e))
                                   <=> e \in WholeHomes(s) \cup Captions(s)
           /\ \A e \in OnPage : Word(s, FALSE) \in ToSet(NodeText(e)) <=> e \in CutHomes(s)
  <1>1. \A e : s \in TextOf(e) <=> AtHome(s, e) \/ InCaption(s, e)
    BY DEF TextOf, AtHome, InCaption
  <1>2. \A e \in OnPage : s \in TextOf(e) <=> e \in Homes(s) \/ e \in Captions(s)
    BY <1>1 DEF Homes, Captions
  <1>3. Homes(s) \cap Captions(s) = {} BY OneCaption
  <1>4. ASSUME Cut(s) PROVE Homes(s) \subseteq {s} /\ (s \in OnPage => s \in Homes(s))
    <2>1. Homes(s) \subseteq {s} BY <1>4, OneHome
    <2> QED BY <2>1 DEF Homes, AtHome
  <1>5. ASSUME NEW e \in OnPage
        PROVE  /\ Word(s, TRUE) \in ToSet(NodeText(e)) <=> e \in WholeHomes(s) \cup Captions(s)
               /\ Word(s, FALSE) \in ToSet(NodeText(e)) <=> e \in CutHomes(s)
    <2>1. /\ Word(s, TRUE) \in ToSet(NodeText(e)) <=> s \in TextOf(e) /\ ~ (s = e /\ Cut(e))
          /\ Word(s, FALSE) \in ToSet(NodeText(e)) <=> s \in TextOf(e) /\ s = e /\ Cut(e)
      BY NodeTextFacts
    <2>2. CASE Cut(s)
      <3>1. WholeHomes(s) = {} /\ CutHomes(s) = Homes(s) BY <2>2 DEF WholeHomes, CutHomes
      <3>2. CASE e = s
        <4>1. e \in Homes(s) /\ e \notin Captions(s) BY <1>3, <1>4, <2>2, <3>2
        <4> QED BY <1>2, <2>1, <2>2, <3>1, <3>2, <4>1
      <3>3. CASE e # s
        <4>1. e \notin Homes(s) BY <1>4, <2>2, <3>3
        <4> QED BY <1>2, <2>1, <3>1, <3>3, <4>1
      <3> QED BY <3>2, <3>3
    <2>3. CASE ~ Cut(s)
      <3>1. WholeHomes(s) = Homes(s) /\ CutHomes(s) = {} BY <2>3 DEF WholeHomes, CutHomes
      <3>2. ~ (s = e /\ Cut(e)) BY <2>3
      <3> QED BY <1>2, <2>1, <3>1, <3>2
    <2> QED BY <2>2, <2>3
  <1> QED BY <1>2, <1>5

\* The texts of the rows on the page.
RowTexts == [i \in DOMAIN PageRows |-> NodeText(PageRows[i])]

LEMMA RowTextsFacts ==
    ASSUME PageInv
    PROVE  /\ PageText = FlattenSeq(RowTexts) /\ RowTexts \in Seq(Seq(Words))
           /\ DOMAIN RowTexts = DOMAIN PageRows
           /\ \A i \in DOMAIN PageRows : /\ RowTexts[i] = NodeText(PageRows[i])
                                         /\ InLawOrder(RowTexts[i]) /\ Once(RowTexts[i])
                                         /\ PageRows[i] \in OnPage /\ PageRows[i] \in Nat
  <1> DEFINE rows == PageRows
             texts == [i \in DOMAIN rows |-> NodeText(rows[i])]
  <1>1. rows \in Seq(Nat) /\ ToSet(rows) = OnPage BY PageRowsFacts
  <1>2. PageText = FlattenSeq(texts) BY DEF PageText
  <1>3. RowTexts = texts BY DEF RowTexts
  <1> HIDE DEF rows
  <1>4. DOMAIN rows = 1 .. Len(rows) /\ Len(rows) \in Nat BY <1>1
  <1>5. \A i \in DOMAIN rows : rows[i] \in OnPage /\ rows[i] \in Nat BY <1>1 DEF ToSet
  <1>6. \A i \in DOMAIN rows : texts[i] = NodeText(rows[i]) OBVIOUS
  <1>7. \A i \in DOMAIN rows : texts[i] \in Seq(Words) BY <1>6, NodeTextFacts
  <1>8. DOMAIN texts = DOMAIN rows OBVIOUS
  <1>9. texts \in Seq(Seq(Words))
    <2>1. texts = [i \in 1 .. Len(rows) |-> texts[i]] BY <1>4
    <2> HIDE DEF texts
    <2>2. texts \in [1 .. Len(rows) -> Seq(Words)] BY <1>4, <1>7, <2>1
    <2> QED BY <1>4, <2>2
  <1> HIDE DEF texts
  <1>10. \A i \in DOMAIN rows : InLawOrder(texts[i]) /\ Once(texts[i])
    BY <1>6, NodeTextFacts
  <1> QED BY <1>2, <1>3, <1>5, <1>6, <1>8, <1>9, <1>10 DEF rows

\* Something stands on the page once for each row that shows it.
LEMMA WordCount ==
    ASSUME PageInv, NEW word, NEW S, S \subseteq OnPage,
           \A e \in OnPage : word \in ToSet(NodeText(e)) <=> e \in S
    PROVE  Cardinality({p \in DOMAIN PageText : PageText[p] = word}) = Cardinality(S)
  <1> DEFINE rows == PageRows
             texts == RowTexts
  <1>1. /\ texts \in Seq(Seq(Words)) /\ DOMAIN texts = DOMAIN rows
        /\ \A i \in DOMAIN texts : Once(texts[i])
        /\ \A i \in DOMAIN rows : texts[i] = NodeText(rows[i]) /\ rows[i] \in OnPage
    BY RowTextsFacts
  <1>2. rows \in Seq(Nat) /\ Rising(rows) /\ ToSet(rows) = OnPage BY PageRowsFacts
  <1>3. PageText = FlattenSeq(texts) BY RowTextsFacts
  <1>4. ToSet(rows) \cap S = S BY <1>2
  <1> HIDE DEF rows, texts
  <1>5. Cardinality({p \in DOMAIN PageText : PageText[p] = word})
           = Cardinality({i \in DOMAIN texts : word \in ToSet(texts[i])})
    <2>1. Cardinality({p \in DOMAIN FlattenSeq(texts) : FlattenSeq(texts)[p] = word})
             = Cardinality({i \in DOMAIN texts : word \in ToSet(texts[i])})
      BY <1>1, FlatCount
    <2> QED BY <1>3, <2>1
  <1>6. {i \in DOMAIN texts : word \in ToSet(texts[i])} = {i \in DOMAIN rows : rows[i] \in S}
    BY <1>1
  <1>7. Cardinality({i \in DOMAIN rows : rows[i] \in S}) = Cardinality(S)
    BY <1>2, <1>4, RisingCount
  <1> QED BY <1>5, <1>6, <1>7

\* Two sets without a common element, each with one element or none.
LEMMA OneAndOne ==
    ASSUME NEW A, NEW B, A \cap B = {}, NEW a \in BOOLEAN, NEW b \in BOOLEAN,
           IF a THEN \E h : A = {h} ELSE A = {}, IF b THEN \E h : B = {h} ELSE B = {}
    PROVE  Cardinality(A \cup B) = (IF a THEN 1 ELSE 0) + (IF b THEN 1 ELSE 0)
  <1>1. Cardinality({}) = 0 BY FS_EmptySet
  <1>2. \A h : Cardinality({h}) = 1 BY FS_Singleton
  <1>3. ASSUME NEW g, NEW h, g # h PROVE Cardinality({g} \cup {h}) = 2
    <2>1. IsFiniteSet({g}) /\ Cardinality({g}) = 1 /\ h \notin {g} BY <1>3, FS_Singleton
    <2> QED BY <2>1, FS_AddElement
  <1>4. CASE ~ a /\ ~ b
    <2>1. A \cup B = {} BY <1>4
    <2> QED BY <1>1, <1>4, <2>1
  <1>5. CASE ~ a /\ b
    <2>1. PICK h : A \cup B = {h} BY <1>5
    <2>2. Cardinality(A \cup B) = 1 BY <1>2, <2>1
    <2> QED BY <1>5, <2>2
  <1>6. CASE a /\ ~ b
    <2>1. PICK h : A \cup B = {h} BY <1>6
    <2>2. Cardinality(A \cup B) = 1 BY <1>2, <2>1
    <2> QED BY <1>6, <2>2
  <1>7. CASE a /\ b
    <2>1. PICK g : A = {g} BY <1>7
    <2>2. PICK h : B = {h} BY <1>7
    <2>3. g # h BY <2>1, <2>2
    <2>4. Cardinality(A \cup B) = 2
      <3>1. Cardinality({g} \cup {h}) = 2 BY <1>3, <2>3
      <3> QED BY <2>1, <2>2, <3>1
    <2> QED BY <1>7, <2>4
  <1> QED BY <1>4, <1>5, <1>6, <1>7

\* How often a sentence stands on the page, whole or cut.
LEMMA SentenceCount ==
    ASSUME PageInv, NEW s \in Sentences
    PROVE  /\ Cardinality({p \in DOMAIN PageText : PageText[p] = Word(s, TRUE)})
                 = (IF Lost(s) \/ Cut(s) THEN 0 ELSE 1) + (IF InAppendixRemarks(s) THEN 1 ELSE 0)
           /\ Cardinality({p \in DOMAIN PageText : PageText[p] = Word(s, FALSE)})
                 = IF Cut(s) /\ ~ Lost(s) THEN 1 ELSE 0
  <1> DEFINE whole == ~ (Lost(s) \/ Cut(s))
             cut == Cut(s) /\ ~ Lost(s)
             remarks == InAppendixRemarks(s)
             H == WholeHomes(s)
             C == Captions(s)
             K == CutHomes(s)
  <1>1. /\ IF Lost(s) THEN Homes(s) = {} ELSE \E h : Homes(s) = {h}
        /\ IF remarks THEN \E h : C = {h} ELSE C = {}
        /\ Homes(s) \cap C = {}
    BY OneHome, OneCaption
  <1>2. H \subseteq Homes(s) /\ K \subseteq Homes(s) BY DEF WholeHomes, CutHomes
  <1>3. Homes(s) \subseteq OnPage /\ C \subseteq OnPage BY DEF Homes, Captions
  <1>4. H \cap C = {} BY <1>1, <1>2
  <1>5. IF whole THEN \E h : H = {h} ELSE H = {} BY <1>1 DEF WholeHomes
  <1>6. IF cut THEN \E h : K = {h} ELSE K = {} BY <1>1 DEF CutHomes
  <1>7. whole \in BOOLEAN /\ cut \in BOOLEAN /\ remarks \in BOOLEAN
    BY DEF InAppendixRemarks
  <1>8. Cardinality({p \in DOMAIN PageText : PageText[p] = Word(s, TRUE)}) = Cardinality(H \cup C)
    <2> DEFINE S == H \cup C
               word == Word(s, TRUE)
    <2>1. S \subseteq OnPage BY <1>2, <1>3
    <2>2. \A e \in OnPage : word \in ToSet(NodeText(e)) <=> e \in S BY TextRows
    <2> HIDE DEF S, word
    <2>3. Cardinality({p \in DOMAIN PageText : PageText[p] = word}) = Cardinality(S)
      BY <2>1, <2>2, WordCount
    <2> QED BY <2>3 DEF S, word
  <1>9. Cardinality({p \in DOMAIN PageText : PageText[p] = Word(s, FALSE)}) = Cardinality(K)
    <2> DEFINE word == Word(s, FALSE)
    <2>1. K \subseteq OnPage BY <1>2, <1>3
    <2>2. \A e \in OnPage : word \in ToSet(NodeText(e)) <=> e \in K BY TextRows
    <2> HIDE DEF K, word
    <2>3. Cardinality({p \in DOMAIN PageText : PageText[p] = word}) = Cardinality(K)
      BY <2>1, <2>2, WordCount
    <2> QED BY <2>3 DEF word
  <1> HIDE DEF whole, cut, remarks, H, C, K
  <1>10. Cardinality(H \cup C) = (IF whole THEN 1 ELSE 0) + (IF remarks THEN 1 ELSE 0)
    <2>1. IF remarks THEN \E h : C = {h} ELSE C = {} BY <1>1
    <2> QED BY <1>4, <1>5, <1>7, <2>1, OneAndOne
  <1>11. Cardinality(K) = IF cut THEN 1 ELSE 0
    <2>1. CASE cut
      <3>1. PICK h : K = {h} BY <1>6, <2>1
      <3> QED BY <2>1, <3>1, FS_Singleton
    <2>2. CASE ~ cut
      <3>1. K = {} BY <1>6, <2>2
      <3> QED BY <2>2, <3>1, FS_EmptySet
    <2> QED BY <2>1, <2>2
  <1> QED BY <1>8, <1>9, <1>10, <1>11 DEF whole, cut, remarks

\* The sentences of one row are before those of the next.
LEMMA HomesApart ==
    ASSUME PageInv, NEW e \in OnPage, NEW f \in OnPage, e < f,
           NEW x \in Sentences, NEW y \in Sentences, AtHome(x, e), AtHome(y, f)
    PROVE  x < y
  <1>1. e \in Elements /\ f \in Elements /\ IsShown(e) /\ IsShown(f) BY OnPageIsShown
  <1>2. x \in Elements /\ y \in Elements BY DEF Sentences
  <1>3. e \in Nat /\ f \in Nat /\ x \in Nat /\ y \in Nat BY <1>1, <1>2, PageFacts
  <1>4. f <= y
    <2>1. CASE y = f BY <1>3, <2>1
    <2>2. CASE xml[y].kind = "column" /\ xml[y].under = f
      <3>1. f < y BY <1>2, <2>2, ColumnFacts
      <3> QED BY <1>3, <3>1
    <2> QED BY <2>1, <2>2 DEF AtHome
  <1>5. x < f
    <2>1. CASE x = e BY <2>1
    <2>2. CASE xml[x].kind = "column" /\ xml[x].under = e
      <3>1. SUFFICES ASSUME ~ (x < f) PROVE FALSE OBVIOUS
      <3>2. f <= x BY <1>3, <3>1
      <3>3. xml[f].kind = "column" /\ xml[f].under = e
        BY <1>1, <1>2, <2>2, <3>2, ColumnsFollow
      <3>4. IsDefinition(e) BY <1>1, <3>3 DEF IsShown, RootKinds
      <3>5. xml[e].kind = "item" BY <3>4 DEF IsDefinition
      <3>6. ~ IsDefinition(e) BY <1>1, <3>5 DEF IsShown, RootKinds
      <3> QED BY <3>4, <3>6
    <2> QED BY <2>1, <2>2 DEF AtHome
  <1> QED BY <1>3, <1>4, <1>5

\* The sentences on the page are in the order of the law, the remarks aside.
LEMMA SentencesRise ==
    ASSUME PageInv, NEW p \in DOMAIN PageText, NEW r \in DOMAIN PageText, p < r,
           ~ InAppendixRemarks(PageText[p].sentence),
           ~ InAppendixRemarks(PageText[r].sentence)
    PROVE  PageText[p].sentence < PageText[r].sentence
  <1> DEFINE rows == PageRows
             texts == RowTexts
             page == PageText
             x == page[p].sentence
             y == page[r].sentence
  <1>1. /\ texts \in Seq(Seq(Words)) /\ DOMAIN texts = DOMAIN rows
        /\ \A i \in DOMAIN rows : /\ InLawOrder(texts[i]) /\ rows[i] \in OnPage
                                  /\ \A w \in ToSet(texts[i]) : w.sentence \in TextOf(rows[i])
    BY RowTextsFacts, NodeTextFacts
  <1>2. rows \in Seq(Nat) /\ Rising(rows) BY PageRowsFacts
  <1>3. PICK piece, spot : Laid(page, texts, Len(texts), piece, spot)
    <2>1. PageText = FlattenSeq(texts) BY RowTextsFacts
    <2> HIDE DEF texts
    <2> QED BY <1>1, <2>1, FlatPlaces
  <1> HIDE DEF rows, texts
  <1>4. DOMAIN texts = 1 .. Len(texts) BY <1>1
  <1>5. /\ piece[p] \in DOMAIN rows /\ spot[p] \in DOMAIN texts[piece[p]]
        /\ x = texts[piece[p]][spot[p]].sentence
        /\ piece[r] \in DOMAIN rows /\ spot[r] \in DOMAIN texts[piece[r]]
        /\ y = texts[piece[r]][spot[r]].sentence
        /\ piece[p] < piece[r] \/ (piece[p] = piece[r] /\ spot[p] < spot[r])
    BY <1>1, <1>3, <1>4 DEF Laid
  <1>6. x \in TextOf(rows[piece[p]]) /\ y \in TextOf(rows[piece[r]])
    <2>1. /\ texts[piece[p]][spot[p]] \in ToSet(texts[piece[p]])
          /\ texts[piece[r]][spot[r]] \in ToSet(texts[piece[r]])
      BY <1>5 DEF ToSet
    <2> HIDE DEF x, y
    <2> QED BY <1>1, <1>5, <2>1
  <1>7. ~ InAppendixRemarks(x) /\ ~ InAppendixRemarks(y) OBVIOUS
  <1> HIDE DEF x, y, page
  <1>8. CASE piece[p] < piece[r]
    <2>1. rows[piece[p]] < rows[piece[r]] BY <1>5, <1>8, <1>2 DEF Rising
    <2>2. rows[piece[p]] \in OnPage /\ rows[piece[r]] \in OnPage BY <1>1, <1>5
    <2>3. x \in Sentences /\ y \in Sentences BY <1>6 DEF TextOf
    <2>4. AtHome(x, rows[piece[p]])
      <3>2. rows[piece[p]] \in Homes(x) \/ rows[piece[p]] \in Captions(x)
        BY <1>6, <2>2, <2>3, TextRows
      <3>3. rows[piece[p]] \notin Captions(x) BY <1>7, <2>3, CaptionPlace
      <3> QED BY <3>2, <3>3 DEF Homes
    <2>5. AtHome(y, rows[piece[r]])
      <3>2. rows[piece[r]] \in Homes(y) \/ rows[piece[r]] \in Captions(y)
        BY <1>6, <2>2, <2>3, TextRows
      <3>3. rows[piece[r]] \notin Captions(y) BY <1>7, <2>3, CaptionPlace
      <3> QED BY <3>2, <3>3 DEF Homes
    <2>6. x < y BY <2>1, <2>2, <2>3, <2>4, <2>5, HomesApart
    <2> QED BY <2>6 DEF x, y, page
  <1>9. CASE piece[p] = piece[r] /\ spot[p] < spot[r]
    <2>1. InLawOrder(texts[piece[p]]) BY <1>1, <1>5
    <2>2. x < y BY <1>5, <1>9, <2>1 DEF InLawOrder
    <2> QED BY <2>2 DEF x, y, page
  <1> QED BY <1>5, <1>8, <1>9

-----------------------------------------------------------------------------
(* The pieces of a text with links.                                          *)

Ranges == Seq(Nat \X Nat)

\* The pieces go on from one to the next, from the start of the text to the cursor.
Chained(pieces, cursor) ==
    /\ pieces = <<>> => cursor = 0
    /\ pieces # <<>> => pieces[1][1] = 0 /\ pieces[Len(pieces)][2] = cursor
    /\ \A i \in 2 .. Len(pieces) : pieces[i][1] = pieces[i - 1][2]

\* One piece more.
LEMMA ChainGoesOn ==
    ASSUME NEW pieces \in Ranges, NEW a \in Nat, NEW b \in Nat, Chained(pieces, a)
    PROVE  /\ pieces \o <<<<a, b>>>> \in Ranges /\ Chained(pieces \o <<<<a, b>>>>, b)
           /\ Append(pieces, <<a, b>>) = pieces \o <<<<a, b>>>>
  <1> DEFINE one == <<a, b>>
             more == pieces \o <<one>>
             n == Len(pieces)
  <1>1. one \in Nat \X Nat /\ one[1] = a /\ one[2] = b OBVIOUS
  <1>2. pieces \in Seq(Nat \X Nat) /\ n \in Nat BY DEF Ranges
  <1>9. n = 0 <=> pieces = <<>> BY <1>2
  <1> HIDE DEF one
  <1>3. /\ more \in Seq(Nat \X Nat) /\ Len(more) = n + 1 /\ more[n + 1] = one
        /\ \A i \in 1 .. n : more[i] = pieces[i]
    BY <1>1, <1>2
  <1>4. Append(pieces, one) = more BY <1>1, <1>2
  <1>8. more # <<>> BY <1>2, <1>3
  <1> HIDE DEF more, n
  <1>5. more[1][1] = 0
    <2>1. CASE n = 0 BY <1>1, <1>3, <1>9, <2>1 DEF Chained
    <2>2. CASE n # 0
      <3>1. 1 \in 1 .. n BY <1>2, <2>2
      <3>2. more[1] = pieces[1] BY <1>3, <3>1
      <3>3. pieces[1][1] = 0 BY <1>9, <2>2 DEF Chained
      <3> QED BY <3>2, <3>3
    <2> QED BY <2>1, <2>2
  <1>6. ASSUME NEW i \in 2 .. n + 1 PROVE more[i][1] = more[i - 1][2]
    <2>1. CASE i = n + 1
      <3>1. n # 0 /\ i - 1 = n /\ n \in 1 .. n BY <1>2, <2>1
      <3>2. pieces[n][2] = a BY <1>9, <3>1 DEF Chained, n
      <3>3. more[i] = one /\ more[i - 1] = pieces[n] BY <1>3, <2>1, <3>1
      <3> QED BY <1>1, <3>2, <3>3
    <2>2. CASE i # n + 1
      <3>1. i \in 2 .. n /\ i \in 1 .. n /\ i - 1 \in 1 .. n BY <1>2, <2>2
      <3>2. pieces[i][1] = pieces[i - 1][2] BY <3>1 DEF Chained, n
      <3> QED BY <1>3, <3>1, <3>2
    <2> QED BY <2>1, <2>2
  <1>7. Chained(more, b)
    <2>1. more[Len(more)][2] = b BY <1>1, <1>3
    <2>2. Len(more) = n + 1 BY <1>3
    <2> QED BY <1>5, <1>6, <1>8, <2>1, <2>2 DEF Chained
  <1> QED BY <1>3, <1>4, <1>7 DEF more, one, Ranges

\* What is drawn up to a link.
AddRange(length, s, range) ==
    IF range[1] < s.cursor \/ range[1] >= range[2] \/ range[2] > length THEN s
    ELSE [cursor |-> range[2],
          pieces |-> s.pieces
                     \o (IF range[1] > s.cursor THEN <<<<s.cursor, range[1]>>>> ELSE <<>>)
                     \o <<range>>]

Drawn(length) ==
    {s \in [cursor : 0 .. length, pieces : Ranges] : Chained(s.pieces, s.cursor)}

LEMMA RangeIsDrawn ==
    ASSUME NEW length \in Nat, NEW s \in Drawn(length), NEW range \in Nat \X Nat
    PROVE  AddRange(length, s, range) \in Drawn(length)
  <1> DEFINE a == range[1]
             b == range[2]
             c == s.cursor
             old == s.pieces
             gap == IF a > c THEN <<<<c, a>>>> ELSE <<>>
             new == old \o gap \o <<range>>
  <1>1. a \in Nat /\ b \in Nat /\ range = <<a, b>> OBVIOUS
  <1>2. c \in 0 .. length /\ old \in Ranges /\ Chained(old, c) BY DEF Drawn
  <1>3. CASE a < c \/ a >= b \/ b > length
    <2>1. AddRange(length, s, range) = s BY <1>3 DEF AddRange
    <2> QED BY <2>1
  <1>4. CASE ~ (a < c \/ a >= b \/ b > length)
    <2>1. AddRange(length, s, range) = [cursor |-> b, pieces |-> new] BY <1>4 DEF AddRange
    <2> HIDE DEF a, b, c, old
    <2>2. c \in Nat /\ b \in 0 .. length BY <1>1, <1>2, <1>4
    <2>3. old \o gap \in Ranges /\ Chained(old \o gap, a)
      <3>1. CASE a > c
        <4>1. gap = <<<<c, a>>>> BY <3>1
        <4>2. old \o <<<<c, a>>>> \in Ranges /\ Chained(old \o <<<<c, a>>>>, a)
          BY <1>1, <1>2, <2>2, ChainGoesOn
        <4> HIDE DEF gap
        <4> QED BY <4>1, <4>2
      <3>2. CASE ~ (a > c)
        <4>1. gap = <<>> /\ a = c BY <1>1, <1>4, <2>2, <3>2
        <4>2. old \in Seq(Nat \X Nat) BY <1>2 DEF Ranges
        <4>3. old \o <<>> = old BY <4>2
        <4> HIDE DEF gap
        <4> QED BY <1>2, <4>1, <4>3
      <3> QED BY <3>1, <3>2
    <2> DEFINE most == old \o gap
    <2>4. most \in Ranges /\ Chained(most, a) BY <2>3
    <2>5. new = most \o <<range>> OBVIOUS
    <2> HIDE DEF most, new
    <2>6. most \o <<<<a, b>>>> \in Ranges /\ Chained(most \o <<<<a, b>>>>, b)
      BY <1>1, <2>4, ChainGoesOn
    <2>7. new \in Ranges /\ Chained(new, b) BY <1>1, <2>5, <2>6
    <2> DEFINE t == [cursor |-> b, pieces |-> new]
    <2>8. t \in [cursor : 0 .. length, pieces : Ranges] /\ t.pieces = new /\ t.cursor = b
      BY <2>2, <2>7
    <2>9. t \in Drawn(length) BY <2>7, <2>8 DEF Drawn
    <2> QED BY <2>1, <2>9
  <1> QED BY <1>3, <1>4

\* The recursion over the links.
IsDrawing(up, length, ranges) ==
    up = [n \in 0 .. Len(ranges) |->
             IF n = 0 THEN [cursor |-> 0, pieces |-> <<>>]
             ELSE AddRange(length, up[n - 1], ranges[n])]

LEMMA DrawingExists ==
    ASSUME NEW length \in Nat, NEW ranges \in Ranges
    PROVE  \E up : IsDrawing(up, length, ranges) /\ up[Len(ranges)] \in Drawn(length)
  <1> DEFINE n == Len(ranges)
             A == Drawn(length)
             a == [cursor |-> 0, pieces |-> <<>>]
             step == [r \in (1 .. n) \X A |-> AddRange(length, r[2], ranges[r[1]])]
  <1>1. n \in Nat /\ \A i \in 1 .. n : ranges[i] \in Nat \X Nat BY DEF Ranges
  <1>2. a \in A
    <2>1. <<>> \in Ranges /\ Chained(<<>>, 0) /\ 0 \in 0 .. length BY DEF Ranges, Chained
    <2> QED BY <2>1 DEF Drawn
  <1> HIDE DEF A, a
  <1>3. \A i \in 1 .. n, x \in A : step[<<i, x>>] = AddRange(length, x, ranges[i])
    OBVIOUS
  <1>4. StaysIn(step, n, A)
    <2>1. ASSUME NEW i \in 1 .. n, NEW x \in A PROVE step[<<i, x>>] \in A
      <3>1. AddRange(length, x, ranges[i]) \in A BY <1>1, RangeIsDrawn DEF A
      <3> QED BY <1>3, <3>1
    <2> HIDE DEF step
    <2> QED BY <2>1 DEF StaysIn
  <1> HIDE DEF step
  <1>5. PICK f \in [0 .. n -> A] : Follows(f, step, a, n)
    <2> HIDE DEF n
    <2> QED BY <1>1, <1>2, <1>4, StepsAreTaken
  <1>6. ASSUME NEW i \in 0 .. n
        PROVE  f[i] = IF i = 0 THEN a ELSE AddRange(length, f[i - 1], ranges[i])
    <2>1. CASE i = 0 BY <1>5, <2>1 DEF Follows
    <2>2. CASE i # 0
      <3>1. i \in 1 .. n /\ i - 1 \in 0 .. n BY <1>1, <2>2
      <3>2. f[i - 1] \in A BY <1>5, <3>1
      <3>3. f[i] = step[<<i, f[i - 1]>>] BY <1>5, <3>1 DEF Follows
      <3> QED BY <1>3, <2>2, <3>1, <3>2, <3>3
    <2> QED BY <2>1, <2>2
  <1>7. f = [i \in 0 .. n |-> f[i]] BY <1>5
  <1>8. f = [i \in 0 .. n |-> IF i = 0 THEN a ELSE AddRange(length, f[i - 1], ranges[i])]
    BY <1>6, <1>7
  <1>9. IsDrawing(f, length, ranges) BY <1>8 DEF IsDrawing, a
  <1>10. f[n] \in A BY <1>1, <1>5
  <1> QED BY <1>9, <1>10 DEF A

\* Whatever the links are, the pieces are the whole text.
LEMMA PiecesAreWhole ==
    ASSUME NEW length \in Nat, NEW ranges \in Ranges
    PROVE  Pieces(length, ranges) \in Ranges /\
           (Pieces(length, ranges) # <<>> => Chained(Pieces(length, ranges), length))
  <1> DEFINE n == Len(ranges)
             up == CHOOSE u : IsDrawing(u, length, ranges)
             done == up[n]
  <1>1. n \in Nat /\ \A i \in 1 .. n : ranges[i] \in Nat \X Nat BY DEF Ranges
  <1>2. IsDrawing(up, length, ranges) BY DrawingExists
  <1>3. Pieces(length, ranges)
           = IF done.cursor < length THEN Append(done.pieces, <<done.cursor, length>>)
             ELSE done.pieces
    BY DEF Pieces, IsDrawing, AddRange
  <1> HIDE DEF up
  <1>4. \A i \in 0 .. n : up[i] = IF i = 0 THEN [cursor |-> 0, pieces |-> <<>>]
                                 ELSE AddRange(length, up[i - 1], ranges[i])
    BY <1>2 DEF IsDrawing
  <1> DEFINE Good == {i \in 0 .. n : up[i] \in Drawn(length)}
  <1>5. 0 \in Good
    <2>1. up[0] = [cursor |-> 0, pieces |-> <<>>] BY <1>1, <1>4
    <2>2. <<>> \in Ranges /\ Chained(<<>>, 0) /\ 0 \in 0 .. length BY DEF Ranges, Chained
    <2>3. [cursor |-> 0, pieces |-> <<>>] \in Drawn(length) BY <2>2 DEF Drawn
    <2> QED BY <1>1, <2>1, <2>3
  <1>6. ASSUME NEW i \in 1 .. n, i - 1 \in Good PROVE i \in Good
    <2>1. up[i - 1] \in Drawn(length) /\ i \in 0 .. n BY <1>1, <1>6
    <2>2. up[i] = AddRange(length, up[i - 1], ranges[i]) BY <1>4, <2>1
    <2>3. AddRange(length, up[i - 1], ranges[i]) \in Drawn(length) BY <1>1, <2>1, RangeIsDrawn
    <2> QED BY <2>1, <2>2, <2>3
  <1> HIDE DEF Good
  <1>7. n \in Good
    <2>1. \A i \in 0 .. n : i \in Good BY <1>1, <1>5, <1>6, UpToIsIn
    <2> QED BY <1>1, <2>1
  <1>8. done \in Drawn(length) BY <1>7 DEF Good
  <1> HIDE DEF done
  <1>9. done.cursor \in 0 .. length /\ done.pieces \in Ranges /\ Chained(done.pieces, done.cursor)
    BY <1>8 DEF Drawn
  <1>10. CASE done.cursor < length
    <2>1. done.cursor \in Nat BY <1>9
    <2>2. LET more == Append(done.pieces, <<done.cursor, length>>)
          IN  more \in Ranges /\ Chained(more, length)
      BY <1>9, <2>1, ChainGoesOn
    <2> QED BY <1>3, <1>10, <2>2
  <1>11. CASE ~ (done.cursor < length)
    <2>1. done.cursor = length BY <1>9, <1>11
    <2> QED BY <1>3, <1>9, <1>11, <2>1
  <1> QED BY <1>10, <1>11

-----------------------------------------------------------------------------
(* The theorem.                                                              *)

LEMMA PageInvShows == PageInv => TextIsShownOnce
  <1>1. SUFFICES ASSUME PageInv PROVE TextIsShownOnce OBVIOUS
  <1> DEFINE page == PageText
             remarks == {s \in Sentences : InAppendixRemarks(s)}
             pieces == Pieces(TextLength, linked)
  <1>2. ASSUME NEW s \in Sentences
        PROVE  /\ Cardinality({i \in DOMAIN page : page[i] = Word(s, TRUE)})
                     = (IF Lost(s) \/ Cut(s) THEN 0 ELSE 1) + (IF s \in remarks THEN 1 ELSE 0)
               /\ Cardinality({i \in DOMAIN page : page[i] = Word(s, FALSE)})
                     = IF Cut(s) /\ ~ Lost(s) THEN 1 ELSE 0
    <2>1. s \in remarks <=> InAppendixRemarks(s) OBVIOUS
    <2> HIDE DEF remarks
    <2> QED BY <1>1, <2>1, SentenceCount
  <1>3. ASSUME NEW i \in DOMAIN page PROVE page[i].sentence \in Sentences
    <2>1. page[i] \in ToSet(FlattenSeq(RowTexts)) BY <1>1, RowTextsFacts DEF ToSet
    <2>2. RowTexts \in Seq(Seq(Words)) BY <1>1, RowTextsFacts
    <2>3. PICK j \in DOMAIN RowTexts : page[i] \in ToSet(RowTexts[j]) BY <2>1, <2>2, FlatSet
    <2>4. page[i] \in ToSet(NodeText(PageRows[j])) BY <1>1, <2>3, RowTextsFacts
    <2> HIDE DEF page
    <2>5. page[i].sentence \in TextOf(PageRows[j]) BY <1>1, <2>4, NodeTextFacts
    <2> QED BY <2>5 DEF TextOf
  <1>4. ASSUME NEW i \in DOMAIN page, NEW j \in DOMAIN page, i < j,
               {page[i].sentence, page[j].sentence} \cap remarks = {}
        PROVE  page[i].sentence < page[j].sentence
    <2>1. ~ InAppendixRemarks(page[i].sentence) /\ ~ InAppendixRemarks(page[j].sentence)
      BY <1>3, <1>4
    <2> QED BY <1>1, <1>4, <2>1, SentencesRise
  <1>5. pieces # <<>> => Chained(pieces, TextLength)
    <2>1. TextLength \in Nat BY PageAssumption
    <2>2. linked \in Ranges BY <1>1 DEF PageInv, Ranges
    <2> QED BY <2>1, <2>2, PiecesAreWhole
  <1>6. /\ pieces # <<>> => pieces[1][1] = 0 /\ pieces[Len(pieces)][2] = TextLength
        /\ \A i \in 2 .. Len(pieces) : pieces[i][1] = pieces[i - 1][2]
    <2>1. CASE pieces = <<>>
      <3>1. Len(pieces) = 0 BY <2>1
      <3> HIDE DEF pieces
      <3> QED BY <2>1, <3>1
    <2>2. CASE pieces # <<>>
      <3> HIDE DEF pieces
      <3> QED BY <1>5, <2>2 DEF Chained
    <2> QED BY <2>1, <2>2
  <1> HIDE DEF page, remarks, pieces
  <1>7. /\ \A s \in Sentences :
              /\ Cardinality({i \in DOMAIN page : page[i] = [sentence |-> s, whole |-> TRUE]})
                    = (IF Lost(s) \/ Cut(s) THEN 0 ELSE 1) + (IF s \in remarks THEN 1 ELSE 0)
              /\ Cardinality({i \in DOMAIN page : page[i] = [sentence |-> s, whole |-> FALSE]})
                    = IF Cut(s) /\ ~ Lost(s) THEN 1 ELSE 0
        /\ \A i, j \in DOMAIN page :
              i < j /\ {page[i].sentence, page[j].sentence} \cap remarks = {} =>
                  page[i].sentence < page[j].sentence
    BY <1>2, <1>4 DEF Word
  <1> QED BY <1>6, <1>7 DEF TextIsShownOnce, page, remarks, pieces

\* Whatever law the XML holds, as long as it follows the schema: a sentence that is not
\* among those named in Lost has one row on the page, whole, or without the keyword if it
\* is the body of a definition that repeats it; the sentences stand there in the order of
\* the law, and however the links of a text overlap, its pieces are the whole text
\* (article-segments.ts, ChapterArticleBlock.tsx, article-renderer.tsx, link-renderer.tsx).
THEOREM EverySentenceIsShownOnce == PageSpec => []TextIsShownOnce
  <1>1. PageInit => PageInv BY PageInvInit
  <1>2. PageInv /\ [PageNext]_pageVars => PageInv' BY PageInvNext
  <1>3. PageInv => TextIsShownOnce BY PageInvShows
  <1> QED BY <1>1, <1>2, <1>3, PTL DEF PageSpec
=============================================================================
