---------------------------- MODULE ServerProofs -----------------------------
(***************************************************************************)
(* Proofs about the server: the statutes it parses, whatever their         *)
(* numbers, titles and length; the documents it ingests and the versions   *)
(* it publishes, for any number of requests, documents and paths; and its  *)
(* members, for any number of accounts, browsers and organizations.        *)
(* Every number a law writes is read back by every reader, and a statute   *)
(* whose elements are numbered properly has no two provisions of one path. *)
(***************************************************************************)
EXTENDS ProvisionPaths, CorpusIngest, Members, FiniteSetTheorems, SequenceTheorems,
        WellFoundedInduction, TLAPS

-----------------------------------------------------------------------------
(* Reading symbols one after the other, and toKanji.                         *)

\* Every set of numbers that is not empty has a least one.
LEMMA LeastNumber ==
    ASSUME NEW S, S \subseteq Nat, S # {}
    PROVE  \E m \in S : \A n \in S : m <= n
  <1>1. PICK m \in S : \A n \in S : ~ (<<n, m>> \in OpToRel(<, Nat))
    BY NatLessThanWellFounded, WFMin
  <1>2. \A n \in S : ~ (n < m) BY <1>1 DEF OpToRel
  <1> QED BY <1>2

\* Induction for a set of numbers.
LEMMA UpToIsIn ==
    ASSUME NEW n \in Nat, NEW Good, 0 \in Good, \A i \in 1 .. n : i - 1 \in Good => i \in Good
    PROVE  \A i \in 0 .. n : i \in Good
  <1> DEFINE Bad == {i \in 0 .. n : i \notin Good}
  <1>1. SUFFICES ASSUME Bad # {} PROVE FALSE BY <1>1
  <1>2. PICK m \in Bad : \A i \in Bad : m <= i
    <2>1. Bad \subseteq Nat OBVIOUS
    <2> HIDE DEF Bad
    <2> QED BY <1>1, <2>1, LeastNumber
  <1>3. m \in 1 .. n BY <1>2
  <1>4. m - 1 \in Good BY <1>2, <1>3
  <1> QED BY <1>2, <1>3, <1>4

\* The states that Read passes through.
IsRun(f, step, start, q, n) ==
    /\ f[0] = start
    /\ \A i \in 1 .. n : f[i] = step[<<f[i - 1], q[i]>>]

\* There is such a run along every sequence.
LEMMA RunExists ==
    ASSUME NEW S, NEW E, NEW step \in [S \X E -> S], NEW start \in S, NEW q \in Seq(E)
    PROVE  \E f \in [0 .. Len(q) -> S] : IsRun(f, step, start, q, Len(q))
  <1> DEFINE Good == {n \in 0 .. Len(q) : \E f \in [0 .. n -> S] : IsRun(f, step, start, q, n)}
  <1>1. 0 \in Good
    <2> DEFINE f == [i \in 0 .. 0 |-> start]
    <2>1. f \in [0 .. 0 -> S] /\ IsRun(f, step, start, q, 0) BY DEF IsRun
    <2> QED BY <2>1
  <1>2. ASSUME NEW n \in 1 .. Len(q), n - 1 \in Good PROVE n \in Good
    <2>1. PICK f \in [0 .. n - 1 -> S] : IsRun(f, step, start, q, n - 1) BY <1>2
    <2> DEFINE g == [i \in 0 .. n |-> IF i = n THEN step[<<f[n - 1], q[n]>>] ELSE f[i]]
    <2>2. q[n] \in E /\ f[n - 1] \in S BY <2>1
    <2>3. step[<<f[n - 1], q[n]>>] \in S BY <2>2
    <2>4. g \in [0 .. n -> S] BY <2>1, <2>3
    <2>5. g[0] = start BY <2>1 DEF IsRun
    <2>6. ASSUME NEW i \in 1 .. n PROVE g[i] = step[<<g[i - 1], q[i]>>]
      <3>1. CASE i = n
        <4>1. g[i] = step[<<f[n - 1], q[n]>>] /\ g[i - 1] = f[n - 1] BY <3>1
        <4> QED BY <3>1, <4>1
      <3>2. CASE i # n
        <4>1. i \in 1 .. n - 1 /\ g[i] = f[i] /\ g[i - 1] = f[i - 1] BY <3>2
        <4> QED BY <2>1, <4>1 DEF IsRun
      <3> QED BY <3>1, <3>2
    <2>7. IsRun(g, step, start, q, n) BY <2>5, <2>6 DEF IsRun
    <2> QED BY <2>4, <2>7
  <1> HIDE DEF Good
  <1>3. Len(q) \in Nat OBVIOUS
  <1>4. \A n \in 0 .. Len(q) : n \in Good BY <1>1, <1>2, <1>3, UpToIsIn
  <1>5. Len(q) \in Good BY <1>3, <1>4
  <1> QED BY <1>5 DEF Good

\* f is the run that Read takes its value from.
ReadsBy(f, S, step, start, q) ==
    /\ IsRun(f, step, start, q, Len(q))
    /\ \A i \in 0 .. Len(q) : f[i] \in S
    /\ Read(step, start, q) = f[Len(q)]

\* A step takes a state and a symbol to a state.
IsStep(step, S, E) == step \in [S \X E -> S]

\* Read takes the value of a run: its recursive definition has a solution.
LEMMA ReadIsRun ==
    ASSUME NEW S, NEW E, NEW step, IsStep(step, S, E), NEW start \in S, NEW q \in Seq(E)
    PROVE  \E f : ReadsBy(f, S, step, start, q)
  <1> USE DEF IsStep
  <1> DEFINE Solves(f) == f = [i \in 0 .. Len(q) |->
                                 IF i = 0 THEN start ELSE step[<<f[i - 1], q[i]>>]]
             f == CHOOSE g : Solves(g)
  <1>1. PICK g \in [0 .. Len(q) -> S] : IsRun(g, step, start, q, Len(q)) BY RunExists
  <1>2. Solves(g)
    <2>1. \A i \in 0 .. Len(q) : g[i] = (IF i = 0 THEN start ELSE step[<<g[i - 1], q[i]>>])
      BY <1>1 DEF IsRun
    <2> QED BY <1>1, <2>1
  <1>3. Solves(f) BY <1>2
  <1>4. Read(step, start, q) = f[Len(q)] BY DEF Read
  <1> HIDE DEF f
  <1>5. IsRun(f, step, start, q, Len(q))
    <2>1. f[0] = start BY <1>3
    <2>2. \A i \in 1 .. Len(q) : f[i] = step[<<f[i - 1], q[i]>>] BY <1>3
    <2> QED BY <2>1, <2>2 DEF IsRun
  <1> DEFINE Good == {i \in 0 .. Len(q) : f[i] \in S}
  <1>6. 0 \in Good BY <1>5 DEF IsRun
  <1>7. ASSUME NEW i \in 1 .. Len(q), i - 1 \in Good PROVE i \in Good
    <2>1. f[i - 1] \in S /\ q[i] \in E BY <1>7
    <2>2. step[<<f[i - 1], q[i]>>] \in S BY <2>1
    <2> QED BY <2>2, <1>5 DEF IsRun
  <1> HIDE DEF Good
  <1>0. Len(q) \in Nat OBVIOUS
  <1>8. \A i \in 0 .. Len(q) : i \in Good BY <1>0, <1>6, <1>7, UpToIsIn
  <1>9. \A i \in 0 .. Len(q) : f[i] \in S BY <1>8 DEF Good
  <1> QED BY <1>4, <1>5, <1>9 DEF ReadsBy

\* What is joined is read on from where the first part left off.
LEMMA ReadJoined ==
    ASSUME NEW S, NEW E, NEW step, IsStep(step, S, E), NEW start \in S,
           NEW q \in Seq(E), NEW r \in Seq(E)
    PROVE  /\ Read(step, start, q) \in S
           /\ Read(step, start, q \o r) = Read(step, Read(step, start, q), r)
  <1>1. PICK f : ReadsBy(f, S, step, start, q)
    BY ReadIsRun
  <1>2. f[Len(q)] \in S BY <1>1 DEF ReadsBy
  <1>3. PICK g : ReadsBy(g, S, step, f[Len(q)], r)
    BY <1>2, ReadIsRun
  <1>4. q \o r \in Seq(E) /\ Len(q \o r) = Len(q) + Len(r) /\ Len(q) \in Nat /\ Len(r) \in Nat
    OBVIOUS
  <1> DEFINE both == q \o r
  <1>5. PICK h : ReadsBy(h, S, step, start, both)
    <2>1. both \in Seq(E) BY <1>4
    <2> HIDE DEF both
    <2> QED BY <2>1, ReadIsRun
  <1> DEFINE Good == {i \in 0 .. Len(q) : h[i] = f[i]}
  <1>6. \A i \in 0 .. Len(q) : i \in Good
    <2>1. 0 \in Good BY <1>1, <1>5 DEF IsRun, ReadsBy
    <2>2. ASSUME NEW i \in 1 .. Len(q), i - 1 \in Good PROVE i \in Good
      <3>1. (q \o r)[i] = q[i] /\ i \in 1 .. Len(q \o r) BY <1>4
      <3>2. h[i] = step[<<h[i - 1], q[i]>>] BY <1>5, <3>1 DEF IsRun, ReadsBy
      <3>3. f[i] = step[<<f[i - 1], q[i]>>] BY <1>1 DEF IsRun, ReadsBy
      <3>4. h[i - 1] = f[i - 1] /\ i \in 0 .. Len(q) BY <2>2
      <3>5. h[i] = f[i] BY <3>2, <3>3, <3>4
      <3> QED BY <3>4, <3>5
    <2> HIDE DEF Good
    <2> QED BY <1>4, <2>1, <2>2, UpToIsIn
  <1> DEFINE Behind == {i \in 0 .. Len(r) : h[Len(q) + i] = g[i]}
  <1>7. \A i \in 0 .. Len(r) : i \in Behind
    <2>1. 0 \in Behind BY <1>3, <1>4, <1>6 DEF IsRun, ReadsBy
    <2>2. ASSUME NEW i \in 1 .. Len(r), i - 1 \in Behind PROVE i \in Behind
      <3>1. (q \o r)[Len(q) + i] = r[i] /\ Len(q) + i \in 1 .. Len(q \o r) BY <1>4
      <3>2. h[Len(q) + i] = step[<<h[Len(q) + i - 1], r[i]>>]
        BY <1>5, <3>1 DEF IsRun, ReadsBy
      <3>3. g[i] = step[<<g[i - 1], r[i]>>] BY <1>3 DEF IsRun, ReadsBy
      <3>4. h[Len(q) + i - 1] = g[i - 1]
        <4>1. Len(q) + (i - 1) = Len(q) + i - 1 BY <1>4
        <4> QED BY <2>2, <4>1
      <3> QED BY <3>2, <3>3, <3>4
    <2> HIDE DEF Behind
    <2> QED BY <1>4, <2>1, <2>2, UpToIsIn
  <1>8. Len(r) \in Behind BY <1>4, <1>7
  <1> QED BY <1>1, <1>2, <1>3, <1>4, <1>5, <1>8 DEF ReadsBy

\* Nothing and one symbol.
LEMMA ReadFew ==
    ASSUME NEW S, NEW E, NEW step, IsStep(step, S, E), NEW start \in S
    PROVE  /\ Read(step, start, <<>>) = start
           /\ \A e \in E : Read(step, start, <<e>>) = step[<<start, e>>]
  <1>1. Read(step, start, <<>>) = start
    <2>1. PICK f : ReadsBy(f, S, step, start, <<>>)
      <3>1. <<>> \in Seq(E) OBVIOUS
      <3> QED BY <3>1, ReadIsRun
    <2> QED BY <2>1 DEF IsRun, ReadsBy
  <1>2. ASSUME NEW e \in E PROVE Read(step, start, <<e>>) = step[<<start, e>>]
    <2>1. <<e>> \in Seq(E) /\ Len(<<e>>) = 1 /\ <<e>>[1] = e OBVIOUS
    <2>2. PICK f : ReadsBy(f, S, step, start, <<e>>)
      BY <2>1, ReadIsRun
    <2>3. f[0] = start /\ f[1] = step[<<f[1 - 1], e>>] BY <2>1, <2>2 DEF IsRun, ReadsBy
    <2>4. Read(step, start, <<e>>) = f[1] BY <2>1, <2>2 DEF ReadsBy
    <2>5. f[1 - 1] = f[0] OBVIOUS
    <2> QED BY <2>3, <2>4, <2>5
  <1> QED BY <1>1, <1>2

\* The step of kanjiToNumber as a function, and what it does.
ServerSteps == [p \in Reading \X Nat |-> ServerStep(p[1], p[2])]

\* The three facts by which a reading is followed along a numeral.
LEMMA StepReads ==
    ASSUME NEW S, NEW E, NEW step, IsStep(step, S, E), NEW start \in S
    PROVE  /\ Read(step, start, <<>>) = start
           /\ \A e \in E : Read(step, start, <<e>>) = step[<<start, e>>]
           /\ \A q, w \in Seq(E) :
                 /\ Read(step, start, q) \in S
                 /\ Read(step, start, q \o w) = Read(step, Read(step, start, q), w)
  <1>1. ASSUME NEW q \in Seq(E), NEW w \in Seq(E)
        PROVE  /\ Read(step, start, q) \in S
               /\ Read(step, start, q \o w) = Read(step, Read(step, start, q), w)
    BY ReadJoined
  <1>2. Read(step, start, <<>>) = start /\ \A e \in E : Read(step, start, <<e>>) = step[<<start, e>>]
    BY ReadFew
  <1> QED BY <1>1, <1>2

\* The step of kanjiToNumber keeps its state.
LEMMA ServerStepFacts ==
    /\ ServerSteps \in [Reading \X Nat -> Reading]
    /\ Nothing \in Reading
    /\ \A read \in Reading, symbol \in Nat :
          ServerSteps[<<read, symbol>>] = ServerStep(read, symbol)
  <1>1. \A read \in Reading, symbol \in Nat : ServerStep(read, symbol) \in Reading
    BY DEF Reading, Ten, Worth, ServerStep
  <1>2. Nothing \in Reading BY DEF Reading, Nothing
  <1> QED BY <1>1, <1>2 DEF ServerSteps

\* The unit that ToKanji writes, how many of it there are, and what it writes
\* of that.
Unit(n) == IF n < Hundred THEN Ten ELSE IF n < Thousand THEN Hundred ELSE Thousand

Share(n) == n \div Unit(n)

Coefficient(n) == IF Share(n) > 1 THEN <<Share(n)>> ELSE <<>>

\* ToKanji, unfolded once; kanji has the smaller numbers.
KanjiOf(kanji, n) ==
    IF n < Ten THEN IF n = 0 THEN <<>> ELSE <<n>>
    ELSE Coefficient(n) \o <<Unit(n)>> \o kanji[n % Unit(n)]

\* The myriad is a number; no proof needs to know which.
LEMMA MyriadFacts == Myriad \in Nat /\ Myriad > 9
BY DEF Myriad

\* A number of several places is its share of the unit and a smaller rest.
LEMMA UnitFacts ==
    ASSUME NEW n \in Ten .. Myriad - 1
    PROVE  /\ Unit(n) \in {Ten, Hundred, Thousand}
           /\ n \div Unit(n) \in 1 .. 9
           /\ n % Unit(n) \in 0 .. n - 1
           /\ n = (n \div Unit(n)) * Unit(n) + (n % Unit(n))
  <1> USE DEF Unit, Ten, Hundred, Thousand, Myriad
  <1>0. n \in Nat /\ n >= 10 /\ n <= 9999 OBVIOUS
  <1>1. CASE n < 100
    <2>1. Unit(n) = 10 BY <1>0, <1>1
    <2> HIDE DEF Unit
    <2> QED BY <1>0, <1>1, <2>1
  <1>2. CASE n >= 100 /\ n < 1000
    <2>1. Unit(n) = 100 BY <1>0, <1>2
    <2> HIDE DEF Unit
    <2> QED BY <1>0, <1>2, <2>1
  <1>3. CASE n >= 1000
    <2>1. Unit(n) = 1000 BY <1>0, <1>3
    <2> HIDE DEF Unit
    <2> QED BY <1>0, <1>3, <2>1
  <1> QED BY <1>0, <1>1, <1>2, <1>3

\* The three cases of toKanji.
LEMMA KanjiOfFacts ==
    ASSUME NEW kanji
    PROVE  /\ KanjiOf(kanji, 0) = <<>>
           /\ \A n \in 1 .. 9 : KanjiOf(kanji, n) = <<n>>
           /\ \A n \in Nat : n >= Ten =>
                 KanjiOf(kanji, n) = Coefficient(n) \o <<Unit(n)>> \o kanji[n % Unit(n)]
  <1>1. KanjiOf(kanji, 0) = <<>> BY DEF KanjiOf, Ten
  <1>2. ASSUME NEW n \in 1 .. 9 PROVE KanjiOf(kanji, n) = <<n>>
    <2>1. n < Ten /\ n # 0 BY DEF Ten
    <2> QED BY <2>1 DEF KanjiOf
  <1>3. ASSUME NEW n \in Nat, n >= Ten
        PROVE  KanjiOf(kanji, n) = Coefficient(n) \o <<Unit(n)>> \o kanji[n % Unit(n)]
    <2>1. ~(n < Ten) BY <1>3 DEF Ten
    <2> QED BY <2>1 DEF KanjiOf
  <1> QED BY <1>1, <1>2, <1>3

\* kanji writes the numbers up to k.
IsKanji(kanji, k) == kanji = [n \in 0 .. k |-> KanjiOf(kanji, n)]

\* The recursion of toKanji has a solution: a number is written with smaller
\* ones.
LEMMA KanjiExists == \E kanji : IsKanji(kanji, Myriad - 1)
  <1> DEFINE Good == {k \in 0 .. Myriad - 1 : \E kanji : IsKanji(kanji, k)}
  <1>1. 0 \in Good
    <2> DEFINE kanji == [n \in 0 .. 0 |-> <<>>]
    <2>1. IsKanji(kanji, 0) BY DEF IsKanji, KanjiOf, Ten
    <2> HIDE DEF kanji
    <2> QED BY <2>1, MyriadFacts
  <1>2. ASSUME NEW k \in 1 .. Myriad - 1, k - 1 \in Good PROVE k \in Good
    <2>1. PICK kanji : IsKanji(kanji, k - 1) BY <1>2
    <2> DEFINE more == [n \in 0 .. k |-> IF n = k THEN KanjiOf(kanji, k) ELSE kanji[n]]
    <2>2. ASSUME NEW n \in 0 .. k PROVE KanjiOf(more, n) = KanjiOf(kanji, n)
      <3>1. CASE n < Ten BY <3>1 DEF KanjiOf
      <3>2. CASE n >= Ten
        <4>1. n \in Ten .. Myriad - 1 BY <3>2, MyriadFacts DEF Ten
        <4>2. n % Unit(n) \in 0 .. n - 1 BY <4>1, UnitFacts
        <4>3. more[n % Unit(n)] = kanji[n % Unit(n)] BY <4>2
        <4> HIDE DEF more
        <4> QED BY <4>3 DEF KanjiOf
      <3> QED BY <3>1, <3>2 DEF Ten
    <2>3. ASSUME NEW n \in 0 .. k PROVE more[n] = KanjiOf(more, n)
      <3>1. CASE n = k BY <2>2, <3>1
      <3>2. CASE n # k
        <4>1. n \in 0 .. k - 1 BY <3>2
        <4>2. more[n] = kanji[n] BY <3>2
        <4>3. kanji[n] = KanjiOf(kanji, n) BY <2>1, <4>1 DEF IsKanji
        <4> QED BY <2>2, <4>2, <4>3
      <3> QED BY <3>1, <3>2
    <2>4. IsKanji(more, k)
      <3>1. more = [n \in 0 .. k |-> more[n]] OBVIOUS
      <3> HIDE DEF more
      <3> QED BY <2>3, <3>1 DEF IsKanji
    <2> HIDE DEF more
    <2> QED BY <2>4
  <1> HIDE DEF Good
  <1>3. Myriad - 1 \in Nat BY MyriadFacts
  <1>4. \A k \in 0 .. Myriad - 1 : k \in Good BY <1>1, <1>2, <1>3, UpToIsIn
  <1>5. Myriad - 1 \in Good BY <1>3, <1>4
  <1> QED BY <1>5 DEF Good

\* So toKanji unfolds.
LEMMA ToKanjiUnfolded ==
    ASSUME NEW n \in 0 .. Myriad - 1
    PROVE  ToKanji[n] = KanjiOf(ToKanji, n)
  <1>1. ToKanji = CHOOSE kanji : IsKanji(kanji, Myriad - 1)
    BY DEF ToKanji, KanjiOf, Coefficient, Share, Unit, IsKanji
  <1>2. IsKanji(ToKanji, Myriad - 1) BY <1>1, KanjiExists
  <1> QED BY <1>2 DEF IsKanji

\* The three cases of toKanji, as it writes.
LEMMA ToKanjiFacts ==
    /\ ToKanji[0] = <<>>
    /\ \A n \in 1 .. 9 : ToKanji[n] = <<n>>
    /\ \A n \in Ten .. Myriad - 1 :
          ToKanji[n] = Coefficient(n) \o <<Unit(n)>> \o ToKanji[n % Unit(n)]
  <1>1. ToKanji[0] = <<>>
    <2>1. 0 \in 0 .. Myriad - 1 BY MyriadFacts
    <2>2. ToKanji[0] = KanjiOf(ToKanji, 0) BY <2>1, ToKanjiUnfolded
    <2>3. KanjiOf(ToKanji, 0) = <<>> BY KanjiOfFacts
    <2> QED BY <2>2, <2>3
  <1>2. ASSUME NEW n \in 1 .. 9 PROVE ToKanji[n] = <<n>>
    <2>1. n \in 0 .. Myriad - 1 BY MyriadFacts
    <2>2. ToKanji[n] = KanjiOf(ToKanji, n) BY <2>1, ToKanjiUnfolded
    <2>3. KanjiOf(ToKanji, n) = <<n>> BY KanjiOfFacts
    <2> QED BY <2>2, <2>3
  <1>3. ASSUME NEW n \in Ten .. Myriad - 1
        PROVE  ToKanji[n] = Coefficient(n) \o <<Unit(n)>> \o ToKanji[n % Unit(n)]
    <2>1. n \in 0 .. Myriad - 1 /\ n \in Nat /\ n >= Ten BY MyriadFacts DEF Ten
    <2>2. ToKanji[n] = KanjiOf(ToKanji, n) BY <2>1, ToKanjiUnfolded
    <2>3. KanjiOf(ToKanji, n) = Coefficient(n) \o <<Unit(n)>> \o ToKanji[n % Unit(n)]
      BY <2>1, KanjiOfFacts
    <2> QED BY <2>2, <2>3
  <1> QED BY <1>1, <1>2, <1>3

\* A share of one is not written.
LEMMA CoefficientFacts ==
    ASSUME NEW n \in Ten .. Myriad - 1
    PROVE  /\ \/ Coefficient(n) = <<>> /\ Share(n) = 1
              \/ Coefficient(n) = <<Share(n)>> /\ Share(n) \in 2 .. 9
           /\ Unit(n) \in Ten .. Thousand
  <1>1. Unit(n) \in Ten .. Thousand BY UnitFacts DEF Ten, Hundred, Thousand
  <1>2. Share(n) \in 1 .. 9 BY UnitFacts DEF Share
  <1>3. CASE Share(n) > 1
    <2>1. Coefficient(n) = <<Share(n)>> BY <1>3 DEF Coefficient
    <2>2. Share(n) \in 2 .. 9 BY <1>2, <1>3
    <2> QED BY <1>1, <2>1, <2>2
  <1>4. CASE ~(Share(n) > 1)
    <2>1. Coefficient(n) = <<>> BY <1>4 DEF Coefficient
    <2>2. Share(n) = 1 BY <1>2, <1>4
    <2> QED BY <1>1, <2>1, <2>2
  <1> QED BY <1>3, <1>4

\* toKanji writes digits and units below the myriad.
LEMMA ToKanjiTyped == \A n \in 0 .. Myriad - 1 : ToKanji[n] \in Seq(1 .. Thousand)
  <1> DEFINE Good == {k \in 0 .. Myriad - 1 : \A n \in 0 .. k : ToKanji[n] \in Seq(1 .. Thousand)}
  <1>1. 0 \in Good
    <2>1. ToKanji[0] \in Seq(1 .. Thousand) BY ToKanjiFacts
    <2>2. \A n \in 0 .. 0 : n = 0 OBVIOUS
    <2> QED BY <2>1, <2>2, MyriadFacts
  <1>2. ASSUME NEW k \in 1 .. Myriad - 1, k - 1 \in Good PROVE k \in Good
    <2>1. ToKanji[k] \in Seq(1 .. Thousand)
      <3>1. CASE k \in 1 .. 9
        <4>1. ToKanji[k] = <<k>> BY <3>1, ToKanjiFacts
        <4>2. k \in 1 .. Thousand BY <3>1 DEF Thousand
        <4> QED BY <4>1, <4>2
      <3>2. CASE k \in Ten .. Myriad - 1
        <4>1. ToKanji[k] = Coefficient(k) \o <<Unit(k)>> \o ToKanji[k % Unit(k)]
          BY <3>2, ToKanjiFacts
        <4>2. k % Unit(k) \in 0 .. k - 1 BY <3>2, UnitFacts
        <4>3. ToKanji[k % Unit(k)] \in Seq(1 .. Thousand) BY <1>2, <4>2
        <4>4. Coefficient(k) \in Seq(1 .. Thousand)
          <5>1. 2 .. 9 \subseteq 1 .. Thousand BY DEF Thousand
          <5>2. CASE Coefficient(k) = <<>> BY <5>2
          <5>3. CASE Coefficient(k) = <<Share(k)>> /\ Share(k) \in 2 .. 9
            <6> DEFINE c == Share(k)
            <6>1. c \in 1 .. Thousand BY <5>1, <5>3
            <6>2. Coefficient(k) = <<c>> BY <5>3
            <6> HIDE DEF c
            <6> QED BY <6>1, <6>2
          <5> QED BY <3>2, <5>2, <5>3, CoefficientFacts
        <4>5. <<Unit(k)>> \in Seq(1 .. Thousand)
          <5>1. Unit(k) \in Ten .. Thousand BY <3>2, CoefficientFacts
          <5>2. Unit(k) \in 1 .. Thousand BY <5>1 DEF Ten
          <5> QED BY <5>2
        <4> QED BY <4>1, <4>3, <4>4, <4>5
      <3> QED BY <3>1, <3>2, MyriadFacts DEF Ten
    <2> QED BY <1>2, <2>1
  <1> HIDE DEF Good
  <1>3. Myriad - 1 \in Nat BY MyriadFacts
  <1>4. \A k \in 0 .. Myriad - 1 : k \in Good BY <1>1, <1>2, <1>3, UpToIsIn
  <1> QED BY <1>4 DEF Good

\* A state of the two readings.
R(t, c) == [total |-> t, current |-> c]

\* What the two readers have in common: on what ToKanji writes they do the same.
Reads(step) ==
    /\ IsStep(step, Reading, Nat)
    /\ \A t \in Nat, d \in 1 .. 9 : step[<<R(t, 0), d>>] = R(t, d)
    /\ \A t \in Nat, c \in 0 .. 9, u \in {Ten, Hundred, Thousand} :
          step[<<R(t, c), u>>] = R(t + Worth(c, u), 0)

\* The parts of such a state.
LEMMA RFacts ==
    \A t, c \in Nat : R(t, c) \in Reading /\ R(t, c).total = t /\ R(t, c).current = c
BY DEF R, Reading

\* Such a reading, followed along a numeral.
LEMMA ReadsFacts ==
    ASSUME NEW step, Reads(step), NEW r \in Reading
    PROVE  /\ Read(step, r, <<>>) = r
           /\ \A e \in Nat : Read(step, r, <<e>>) = step[<<r, e>>]
           /\ \A q, w \in Seq(Nat) : Read(step, r, q \o w) = Read(step, Read(step, r, q), w)
  <1>1. IsStep(step, Reading, Nat) BY DEF Reads
  <1> QED BY <1>1, StepReads

\* The same for two given parts.
LEMMA ReadsOn ==
    ASSUME NEW step, Reads(step), NEW r \in Reading, NEW q \in Seq(Nat), NEW w \in Seq(Nat)
    PROVE  /\ Read(step, r, q) \in Reading
           /\ Read(step, r, q \o w) = Read(step, Read(step, r, q), w)
  <1>1. IsStep(step, Reading, Nat) BY DEF Reads
  <1> QED BY <1>1, ReadJoined

\* After what is written of n, the reading stands for n more.
Adds(step, n) ==
    \A t \in Nat : \E m, c \in Nat : Read(step, R(t, 0), ToKanji[n]) = R(m, c) /\ m + c = t + n

\* Both readings of a number that toKanji wrote add that number.
LEMMA KanjiAdds ==
    ASSUME NEW step, Reads(step), NEW n \in 0 .. Myriad - 1
    PROVE  Adds(step, n)
  <1> DEFINE Good == {k \in 0 .. Myriad - 1 : \A m \in 0 .. k : Adds(step, m)}
  <1>1. ASSUME NEW k \in 0 .. Myriad - 1, \A m \in 0 .. k - 1 : Adds(step, m)
        PROVE  Adds(step, k)
    <2> SUFFICES ASSUME NEW t \in Nat
                 PROVE  \E m, c \in Nat : /\ Read(step, R(t, 0), ToKanji[k]) = R(m, c)
                                          /\ m + c = t + k
      BY DEF Adds
    <2>1. R(t, 0) \in Reading BY RFacts
    <2>2. CASE k = 0
      <3>1. Read(step, R(t, 0), ToKanji[k]) = R(t, 0) BY <2>1, <2>2, ToKanjiFacts, ReadsFacts
      <3> QED BY <2>2, <3>1
    <2>3. CASE k \in 1 .. 9
      <3>1. ToKanji[k] = <<k>> BY <2>3, ToKanjiFacts
      <3>2. Read(step, R(t, 0), <<k>>) = step[<<R(t, 0), k>>] BY <2>1, ReadsFacts
      <3>3. step[<<R(t, 0), k>>] = R(t, k) BY <2>3 DEF Reads
      <3> QED BY <3>1, <3>2, <3>3
    <2>4. CASE k \in Ten .. Myriad - 1
      <3> DEFINE u == Unit(k)
                 c == Share(k)
                 m == k % u
                 head == Coefficient(k)
                 held == IF c > 1 THEN c ELSE 0
                 one == <<u>>
                 most == head \o one
                 rest == ToKanji[m]
      <3>1. u \in {Ten, Hundred, Thousand} /\ c \in 1 .. 9 /\ m \in 0 .. k - 1
        BY <2>4, UnitFacts DEF Share
      <3>2. k = c * u + m BY <2>4, UnitFacts DEF Share
      <3>3. (head = <<>> /\ c = 1) \/ (head = <<c>> /\ c \in 2 .. 9)
        BY <2>4, CoefficientFacts
      <3>4. ToKanji[k] = head \o <<u>> \o ToKanji[m] BY <2>4, ToKanjiFacts
      <3> HIDE DEF u, c, m, head
      <3>5. u \in Nat BY <3>1 DEF Ten, Hundred, Thousand
      <3>6. head \in Seq(Nat) /\ <<u>> \in Seq(Nat) /\ ToKanji[m] \in Seq(Nat)
        <4>1. head \in Seq(Nat)
          <5>1. <<c>> \in Seq(Nat) BY <3>1
          <5>2. <<>> \in Seq(Nat) OBVIOUS
          <5> QED BY <3>3, <5>1, <5>2
        <4>2. m \in 0 .. Myriad - 1 BY <3>1, MyriadFacts
        <4>3. ToKanji[m] \in Seq(1 .. Thousand) BY <4>2, ToKanjiTyped
        <4>4. 1 .. Thousand \subseteq Nat BY DEF Thousand
        <4>5. ToKanji[m] \in Seq(Nat) BY <4>3, <4>4, SeqMonotonic
        <4> QED BY <3>5, <4>1, <4>5
      <3>7. Read(step, R(t, 0), head) = R(t, held)
        <4>1. CASE c > 1
          <5>1. head = <<c>> BY <3>1, <3>3, <4>1
          <5>2. Read(step, R(t, 0), <<c>>) = step[<<R(t, 0), c>>] BY <2>1, <3>1, ReadsFacts
          <5>3. step[<<R(t, 0), c>>] = R(t, c) BY <3>1 DEF Reads
          <5> QED BY <4>1, <5>1, <5>2, <5>3
        <4>2. CASE ~(c > 1)
          <5>1. head = <<>> BY <3>1, <3>3, <4>2
          <5>2. Read(step, R(t, 0), <<>>) = R(t, 0) BY <2>1, ReadsFacts
          <5> QED BY <4>2, <5>1, <5>2
        <4> QED BY <4>1, <4>2
      <3>8. Worth(held, u) = c * u BY <3>1, <3>5 DEF Worth
      <3>9. held \in 0 .. 9 BY <3>1
      <3> HIDE DEF held
      <3>10. c * u \in Nat /\ t + c * u \in Nat BY <3>1, <3>5
      <3>11. most \in Seq(Nat) /\ ToKanji[k] = most \o rest BY <3>4, <3>6
      <3>12. Read(step, R(t, 0), ToKanji[k]) = Read(step, R(t + c * u, 0), rest)
        <4>0. one \in Seq(Nat) /\ rest \in Seq(Nat) BY <3>6
        <4>1. Read(step, R(t, held), one) = step[<<R(t, held), u>>]
          <5>1. R(t, held) \in Reading BY <3>9, RFacts
          <5> QED BY <3>5, <5>1, ReadsFacts
        <4>2. step[<<R(t, held), u>>] = R(t + Worth(held, u), 0) BY <3>1, <3>9 DEF Reads
        <4> HIDE DEF one, rest
        <4>3. Read(step, R(t, 0), most) = Read(step, Read(step, R(t, 0), head), one)
          BY <2>1, <3>6, <4>0, ReadsOn
        <4> HIDE DEF most
        <4>4. Read(step, R(t, 0), most \o rest) = Read(step, Read(step, R(t, 0), most), rest)
          BY <2>1, <3>11, <4>0, ReadsOn
        <4> QED BY <3>7, <3>8, <3>11, <4>1, <4>2, <4>3, <4>4
      <3>13. Adds(step, m) BY <1>1, <3>1
      <3>14. PICK v, w \in Nat : /\ Read(step, R(t + c * u, 0), ToKanji[m]) = R(v, w)
                                 /\ v + w = (t + c * u) + m
        BY <3>10, <3>13 DEF Adds
      <3>15. v + w = t + k BY <3>1, <3>2, <3>10, <3>14
      <3> QED BY <3>12, <3>14, <3>15
    <2> QED BY <2>2, <2>3, <2>4, MyriadFacts DEF Ten
  <1>2. 0 \in Good
    <2>1. 0 \in 0 .. Myriad - 1 /\ \A m \in 0 .. 0 - 1 : Adds(step, m) BY MyriadFacts
    <2>2. Adds(step, 0) BY <1>1, <2>1
    <2> QED BY <2>1, <2>2
  <1>3. ASSUME NEW k \in 1 .. Myriad - 1, k - 1 \in Good PROVE k \in Good
    <2>1. \A m \in 0 .. k - 1 : Adds(step, m) BY <1>3
    <2>2. Adds(step, k) BY <1>1, <2>1
    <2> QED BY <2>1, <2>2
  <1> HIDE DEF Good
  <1>4. Myriad - 1 \in Nat BY MyriadFacts
  <1>5. \A k \in 0 .. Myriad - 1 : k \in Good BY <1>2, <1>3, <1>4, UpToIsIn
  <1> QED BY <1>5 DEF Good

\* The two cases of the step of kanjiToNumber.
LEMMA ServerStepCases ==
    ASSUME NEW read \in Reading, NEW symbol \in Nat
    PROVE  ServerStep(read, symbol) =
               IF symbol < Ten THEN R(read.total, read.current * Ten + symbol)
               ELSE R(read.total + Worth(read.current, symbol), 0)
BY DEF ServerStep, R, Reading

\* kanjiToNumber is such a reading.
LEMMA ServerReads == Reads(ServerSteps)
  <1>1. IsStep(ServerSteps, Reading, Nat) BY ServerStepFacts DEF IsStep
  <1>2. ASSUME NEW t \in Nat, NEW d \in 1 .. 9 PROVE ServerSteps[<<R(t, 0), d>>] = R(t, d)
    <2>1. ServerSteps[<<R(t, 0), d>>] = ServerStep(R(t, 0), d) BY ServerStepFacts, RFacts
    <2>2. ServerStep(R(t, 0), d) = R(t, 0 * Ten + d) BY ServerStepCases, RFacts DEF Ten
    <2>3. 0 * Ten + d = d BY DEF Ten
    <2> QED BY <2>1, <2>2, <2>3
  <1>3. ASSUME NEW t \in Nat, NEW c \in 0 .. 9, NEW u \in {Ten, Hundred, Thousand}
        PROVE  ServerSteps[<<R(t, c), u>>] = R(t + Worth(c, u), 0)
    <2>1. u \in Nat /\ ~(u < Ten) BY DEF Ten, Hundred, Thousand
    <2>2. ServerSteps[<<R(t, c), u>>] = ServerStep(R(t, c), u)
      BY <2>1, ServerStepFacts, RFacts
    <2>3. ServerStep(R(t, c), u) = R(t + Worth(c, u), 0) BY <2>1, ServerStepCases, RFacts
    <2> QED BY <2>2, <2>3
  <1> QED BY <1>1, <1>2, <1>3 DEF Reads

\* What toKanji writes is not empty and has no myriad in it.
LEMMA ToKanjiIsSome ==
    ASSUME NEW n \in 1 .. Myriad - 1
    PROVE  /\ ToKanji[n] # <<>>
           /\ \A i \in DOMAIN ToKanji[n] : ToKanji[n][i] \in 1 .. Thousand
  <1>1. ToKanji[n] \in Seq(1 .. Thousand) BY ToKanjiTyped, MyriadFacts
  <1>2. \A i \in DOMAIN ToKanji[n] : ToKanji[n][i] \in 1 .. Thousand
    <2> DEFINE kanji == ToKanji[n]
               symbols == 1 .. Thousand
    <2>1. kanji \in Seq(symbols) BY <1>1
    <2> HIDE DEF kanji, symbols
    <2>2. \A i \in DOMAIN kanji : kanji[i] \in symbols BY <2>1
    <2> QED BY <2>2 DEF kanji, symbols
  <1>3. CASE n \in 1 .. 9 BY <1>2, <1>3, ToKanjiFacts
  <1>4. CASE n \in Ten .. Myriad - 1
    <2> DEFINE head == Coefficient(n)
               u == Unit(n)
               one == <<u>>
               rest == ToKanji[n % Unit(n)]
    <2>1. ToKanji[n] = head \o one \o rest BY <1>4, ToKanjiFacts
    <2>2. rest \in Seq(Nat)
      <3>1. n % Unit(n) \in 0 .. Myriad - 1 BY <1>4, UnitFacts, MyriadFacts
      <3>2. rest \in Seq(1 .. Thousand) BY <3>1, ToKanjiTyped
      <3>3. 1 .. Thousand \subseteq Nat BY DEF Thousand
      <3> HIDE DEF rest
      <3> QED BY <3>2, <3>3, SeqMonotonic
    <2>3. head \in Seq(Nat)
      <3> DEFINE c == Share(n)
      <3>1. <<>> \in Seq(Nat) OBVIOUS
      <3>2. head = <<>> \/ (head = <<c>> /\ c \in 2 .. 9) BY <1>4, CoefficientFacts
      <3> HIDE DEF c, head
      <3>3. c \in 2 .. 9 => <<c>> \in Seq(Nat) OBVIOUS
      <3> QED BY <3>1, <3>2, <3>3
    <2>4. one \in Seq(Nat) /\ Len(one) = 1
      <3>1. u \in Nat BY <1>4, UnitFacts DEF Ten, Hundred, Thousand
      <3> HIDE DEF u
      <3> QED BY <3>1
    <2> HIDE DEF head, one, rest
    <2>5. Len((head \o one) \o rest) = Len(head) + 1 + Len(rest)
      <3>1. head \o one \in Seq(Nat) /\ Len(head \o one) = Len(head) + Len(one)
        BY <2>3, <2>4, ConcatProperties
      <3> DEFINE most == head \o one
      <3>2. most \in Seq(Nat) /\ Len(most) = Len(head) + 1 BY <2>4, <3>1
      <3> HIDE DEF most
      <3>3. Len(most \o rest) = Len(most) + Len(rest) BY <2>2, <3>2, ConcatProperties
      <3> QED BY <3>2, <3>3 DEF most
    <2>6. Len(ToKanji[n]) # 0 BY <2>1, <2>2, <2>3, <2>5
    <2> QED BY <1>2, <2>6
  <1> QED BY <1>3, <1>4, MyriadFacts DEF Ten

\* kanjiToNumber reads what toKanji wrote.
LEMMA ServerReadsKanji ==
    /\ \A n \in 1 .. Myriad - 1 : ServerReading(ToKanji[n]) = n
    /\ ServerReading(ToKanji[0]) = NoNumber
  <1>1. ASSUME NEW n \in 1 .. Myriad - 1 PROVE ServerReading(ToKanji[n]) = n
    <2>1. ToKanji[n] # <<>> BY ToKanjiIsSome
    <2>2. \A i \in DOMAIN ToKanji[n] : ToKanji[n][i] \notin Scales
      <3>1. \A u \in 1 .. Thousand : u \notin Scales
        BY DEF Scales, Thousand, Myriad, HundredMillion
      <3> QED BY <3>1, ToKanjiIsSome
    <2>3. ServerReading(ToKanji[n]) =
              Read(ServerSteps, Nothing, ToKanji[n]).total
                + Read(ServerSteps, Nothing, ToKanji[n]).current
      BY <2>1, <2>2 DEF ServerReading, ServerSteps
    <2>4. Nothing = R(0, 0) BY DEF Nothing, R
    <2>5. n \in 0 .. Myriad - 1 BY MyriadFacts
    <2>6. Adds(ServerSteps, n) BY <2>5, ServerReads, KanjiAdds
    <2>7. PICK m, c \in Nat : Read(ServerSteps, R(0, 0), ToKanji[n]) = R(m, c) /\ m + c = 0 + n
      BY <2>6 DEF Adds
    <2>8. R(m, c).total = m /\ R(m, c).current = c BY RFacts
    <2> QED BY <2>3, <2>4, <2>7, <2>8
  <1>2. ServerReading(ToKanji[0]) = NoNumber BY ToKanjiFacts DEF ServerReading
  <1> QED BY <1>1, <1>2

\* The slug of an appendix says what its title says.
LEMMA KanjiToNumberIsInjective ==
    ASSUME NEW a \in Seq(0 .. Myriad - 1), NEW b \in Seq(0 .. Myriad - 1),
           KanjiToNumber(a) = KanjiToNumber(b)
    PROVE  a = b
  <1>1. DOMAIN KanjiToNumber(a) = DOMAIN a /\ DOMAIN KanjiToNumber(b) = DOMAIN b
    BY DEF KanjiToNumber
  <1>2. DOMAIN a = DOMAIN b BY <1>1
  <1>3. ASSUME NEW k \in DOMAIN a PROVE a[k] = b[k]
    <2>1. KanjiToNumber(a)[k] = ServerReading(ToKanji[a[k]]) BY DEF KanjiToNumber
    <2>2. KanjiToNumber(b)[k] = ServerReading(ToKanji[b[k]])
      <3>1. k \in DOMAIN b BY <1>2
      <3> QED BY <3>1 DEF KanjiToNumber
    <2>3. a[k] \in 0 .. Myriad - 1 /\ b[k] \in 0 .. Myriad - 1
      <3> DEFINE small == 0 .. Myriad - 1
      <3>1. k \in DOMAIN a /\ k \in DOMAIN b BY <1>2
      <3>2. a \in Seq(small) /\ b \in Seq(small) OBVIOUS
      <3> HIDE DEF small
      <3>3. a[k] \in small /\ b[k] \in small BY <3>1, <3>2
      <3> QED BY <3>3 DEF small
    <2>4. \A n \in 0 .. Myriad - 1 : ServerReading(ToKanji[n]) = IF n = 0 THEN NoNumber ELSE n
      <3>1. \A n \in 0 .. Myriad - 1 : n = 0 \/ n \in 1 .. Myriad - 1 BY MyriadFacts
      <3> QED BY <3>1, ServerReadsKanji
    <2>5. ServerReading(ToKanji[a[k]]) = (IF a[k] = 0 THEN NoNumber ELSE a[k]) BY <2>3, <2>4
    <2>6. ServerReading(ToKanji[b[k]]) = (IF b[k] = 0 THEN NoNumber ELSE b[k]) BY <2>3, <2>4
    <2>7. a[k] # NoNumber /\ b[k] # NoNumber BY <2>3 DEF NoNumber
    <2> QED BY <2>1, <2>2, <2>5, <2>6, <2>7, <2>3 DEF NoNumber
  <1> QED BY <1>2, <1>3, SeqEqual

-----------------------------------------------------------------------------
(* Digits.                                                                   *)

\* Digits, unfolded once; digits has the smaller numbers.
DigitsOf(digits, n) == IF n < Ten THEN <<n>> ELSE Append(digits[n \div Ten], n % Ten)

IsDigits(digits, k) == digits = [n \in 0 .. k |-> DigitsOf(digits, n)]

\* A number of several digits is ten times a smaller one and a last digit.
LEMMA TenFacts ==
    /\ Ten \in Nat
    /\ \A n \in Nat : n >= Ten => /\ n \div Ten \in 1 .. n - 1 /\ n % Ten \in 0 .. 9
                                  /\ n = (n \div Ten) * Ten + (n % Ten)
BY DEF Ten

\* The recursion of the digits has a solution up to every bound,
LEMMA DigitsUpTo ==
    ASSUME NEW m \in Nat
    PROVE  \E digits : IsDigits(digits, m)
  <1> DEFINE Good == {k \in 0 .. m : \E digits : IsDigits(digits, k)}
  <1>1. 0 \in Good
    <2> DEFINE digits == [n \in 0 .. 0 |-> <<n>>]
    <2>1. IsDigits(digits, 0) BY DEF IsDigits, DigitsOf, Ten
    <2> HIDE DEF digits
    <2> QED BY <2>1
  <1>2. ASSUME NEW k \in 1 .. m, k - 1 \in Good PROVE k \in Good
    <2>1. PICK digits : IsDigits(digits, k - 1) BY <1>2
    <2> DEFINE more == [n \in 0 .. k |-> IF n = k THEN DigitsOf(digits, k) ELSE digits[n]]
    <2>2. ASSUME NEW n \in 0 .. k PROVE DigitsOf(more, n) = DigitsOf(digits, n)
      <3>1. CASE n < Ten BY <3>1 DEF DigitsOf
      <3>2. CASE ~ (n < Ten)
        <4>1. n \in Nat /\ n >= Ten BY <3>2, TenFacts
        <4>2. n \div Ten \in 1 .. n - 1 BY <4>1, TenFacts
        <4>3. n \div Ten \in 0 .. k - 1 BY <4>2
        <4>4. more[n \div Ten] = digits[n \div Ten] BY <4>3
        <4> HIDE DEF more
        <4> QED BY <4>4 DEF DigitsOf
      <3> QED BY <3>1, <3>2
    <2>3. ASSUME NEW n \in 0 .. k PROVE more[n] = DigitsOf(more, n)
      <3>1. CASE n = k BY <2>2, <3>1
      <3>2. CASE n # k
        <4>1. n \in 0 .. k - 1 BY <3>2
        <4>2. more[n] = digits[n] BY <3>2
        <4>3. digits[n] = DigitsOf(digits, n) BY <2>1, <4>1 DEF IsDigits
        <4> QED BY <2>2, <4>2, <4>3
      <3> QED BY <3>1, <3>2
    <2>4. IsDigits(more, k)
      <3>1. more = [n \in 0 .. k |-> more[n]] OBVIOUS
      <3> HIDE DEF more
      <3> QED BY <2>3, <3>1 DEF IsDigits
    <2> HIDE DEF more
    <2> QED BY <2>4
  <1> HIDE DEF Good
  <1>3. \A k \in 0 .. m : k \in Good BY <1>1, <1>2, UpToIsIn
  <1>4. m \in Good BY <1>3
  <1> QED BY <1>4 DEF Good

\* and the solutions agree where both are defined,
LEMMA DigitsAgree ==
    ASSUME NEW k \in Nat, NEW m \in Nat, NEW f, NEW g, IsDigits(f, k), IsDigits(g, m),
           NEW n \in Nat, n <= k, n <= m
    PROVE  f[n] = g[n]
  <1> DEFINE Good == {v \in 0 .. n : \A w \in 0 .. v : f[w] = g[w]}
  <1>1. ASSUME NEW v \in 0 .. n, \A w \in 0 .. v - 1 : f[w] = g[w] PROVE f[v] = g[v]
    <2>1. v \in 0 .. k /\ v \in 0 .. m OBVIOUS
    <2>2. f[v] = DigitsOf(f, v) /\ g[v] = DigitsOf(g, v) BY <2>1 DEF IsDigits
    <2>3. DigitsOf(f, v) = DigitsOf(g, v)
      <3>1. CASE v < Ten BY <3>1 DEF DigitsOf
      <3>2. CASE ~ (v < Ten)
        <4>1. v \in Nat /\ v >= Ten BY <3>2, TenFacts
        <4>2. v \div Ten \in 1 .. v - 1 BY <4>1, TenFacts
        <4>3. v \div Ten \in 0 .. v - 1 BY <4>2
        <4>4. f[v \div Ten] = g[v \div Ten] BY <1>1, <4>3
        <4> QED BY <4>4 DEF DigitsOf
      <3> QED BY <3>1, <3>2
    <2> QED BY <2>2, <2>3
  <1>2. 0 \in Good
    <2>1. f[0] = g[0]
      <3>1. 0 \in 0 .. n /\ \A w \in 0 .. 0 - 1 : f[w] = g[w] OBVIOUS
      <3> QED BY <1>1, <3>1
    <2> QED BY <2>1
  <1>3. ASSUME NEW v \in 1 .. n, v - 1 \in Good PROVE v \in Good
    <2>1. v \in 0 .. n /\ \A w \in 0 .. v - 1 : f[w] = g[w] BY <1>3
    <2>2. f[v] = g[v] BY <1>1, <2>1
    <2> QED BY <2>1, <2>2
  <1> HIDE DEF Good
  <1>4. \A v \in 0 .. n : v \in Good BY <1>2, <1>3, UpToIsIn
  <1>5. n \in Good /\ n \in 0 .. n BY <1>4
  <1> QED BY <1>5 DEF Good

IsAllDigits(digits) == digits = [n \in Nat |-> DigitsOf(digits, n)]

\* so it has one for all numbers.
LEMMA DigitsExist == \E digits : IsAllDigits(digits)
  <1> DEFINE upTo(k) == CHOOSE digits : IsDigits(digits, k)
             all == [n \in Nat |-> upTo(n)[n]]
  <1>1. \A k \in Nat : IsDigits(upTo(k), k) BY DigitsUpTo
  <1> HIDE DEF upTo
  <1>2. ASSUME NEW n \in Nat PROVE all[n] = DigitsOf(all, n)
    <2>1. all[n] = upTo(n)[n] OBVIOUS
    <2>2. upTo(n)[n] = DigitsOf(upTo(n), n)
      <3>1. n \in 0 .. n OBVIOUS
      <3> QED BY <1>1, <3>1 DEF IsDigits
    <2>3. DigitsOf(upTo(n), n) = DigitsOf(all, n)
      <3>1. CASE n < Ten BY <3>1 DEF DigitsOf
      <3>2. CASE ~ (n < Ten)
        <4> DEFINE m == n \div Ten
        <4>1. n >= Ten BY <3>2, TenFacts
        <4>2. m \in 1 .. n - 1 BY <4>1, TenFacts
        <4>3. all[m] = upTo(m)[m] BY <4>2
        <4>4. upTo(m)[m] = upTo(n)[m]
          <5> HIDE DEF m
          <5>1. m \in Nat /\ m <= n /\ m <= m BY <4>2
          <5> QED BY <1>1, <5>1, DigitsAgree
        <4>5. all[m] = upTo(n)[m] BY <4>3, <4>4
        <4> HIDE DEF all
        <4> QED BY <4>5 DEF DigitsOf
      <3> QED BY <3>1, <3>2
    <2> QED BY <2>1, <2>2, <2>3
  <1>3. IsAllDigits(all)
    <2>1. all = [n \in Nat |-> all[n]] OBVIOUS
    <2> HIDE DEF all
    <2> QED BY <1>2, <2>1 DEF IsAllDigits
  <1> HIDE DEF all
  <1> QED BY <1>3

\* The digits, unfolded.
LEMMA DigitsFacts ==
    /\ \A n \in 0 .. 9 : Digits[n] = <<n>>
    /\ \A n \in Nat : n >= Ten => Digits[n] = Append(Digits[n \div Ten], n % Ten)
  <1>1. Digits = CHOOSE digits : IsAllDigits(digits) BY DEF Digits, IsAllDigits, DigitsOf
  <1>2. IsAllDigits(Digits) BY <1>1, DigitsExist
  <1>3. \A n \in Nat : Digits[n] = DigitsOf(Digits, n) BY <1>2 DEF IsAllDigits
  <1>4. ASSUME NEW n \in 0 .. 9 PROVE Digits[n] = <<n>>
    <2>1. n \in Nat /\ n < Ten BY DEF Ten
    <2> QED BY <1>3, <2>1 DEF DigitsOf
  <1>5. ASSUME NEW n \in Nat, n >= Ten PROVE Digits[n] = Append(Digits[n \div Ten], n % Ten)
    <2>1. ~ (n < Ten) BY <1>5, TenFacts
    <2> QED BY <1>3, <2>1 DEF DigitsOf
  <1> QED BY <1>4, <1>5

\* Digits are digits, and there is one.
LEMMA DigitsTyped == \A n \in Nat : Digits[n] \in Seq(0 .. 9) /\ Digits[n] # <<>>
  <1> DEFINE P(n) == Digits[n] \in Seq(0 .. 9) /\ Digits[n] # <<>>
  <1>1. ASSUME NEW n \in Nat, \A m \in 0 .. n - 1 : P(m) PROVE P(n)
    <2>1. CASE n \in 0 .. 9
      <3>1. Digits[n] = <<n>> BY <2>1, DigitsFacts
      <3> QED BY <2>1, <3>1
    <2>2. CASE n >= Ten
      <3> DEFINE m == n \div Ten
                 d == n % Ten
      <3>0. m \in 1 .. n - 1 /\ d \in 0 .. 9 BY <2>2, TenFacts
      <3>1. m \in 0 .. n - 1 /\ d \in 0 .. 9
        <4> HIDE DEF m, d
        <4> QED BY <3>0
      <3>2. Digits[n] = Append(Digits[m], d) BY <2>2, DigitsFacts
      <3>3. P(m) BY <1>1, <3>1
      <3> HIDE DEF m, d
      <3>4. Digits[m] \in Seq(0 .. 9) BY <3>3
      <3>5. Append(Digits[m], d) \in Seq(0 .. 9) /\ Append(Digits[m], d) # <<>>
        BY <3>1, <3>4, AppendProperties
      <3> QED BY <3>2, <3>5
    <2> QED BY <2>1, <2>2 DEF Ten
  <1> HIDE DEF P
  <1>2. ASSUME NEW n \in Nat PROVE P(n)
    <2> DEFINE Good == {k \in 0 .. n : \A m \in 0 .. k : P(m)}
    <2>1. 0 \in Good
      <3>1. 0 \in 0 .. n /\ \A m \in 0 .. 0 - 1 : P(m) OBVIOUS
      <3>2. P(0) BY <1>1, <3>1
      <3> QED BY <3>1, <3>2
    <2>2. ASSUME NEW k \in 1 .. n, k - 1 \in Good PROVE k \in Good
      <3>1. \A m \in 0 .. k - 1 : P(m) BY <2>2
      <3>2. P(k) BY <1>1, <3>1
      <3> QED BY <3>1, <3>2
    <2> HIDE DEF Good
    <2>3. \A k \in 0 .. n : k \in Good BY <2>1, <2>2, UpToIsIn
    <2>4. n \in Good /\ n \in 0 .. n BY <2>3
    <2> QED BY <2>4 DEF Good
  <1> QED BY <1>2 DEF P

\* A number in digits is a numeral.
LEMMA DigitsAreNumbers ==
    ASSUME NEW n \in Nat
    PROVE  /\ Digits[n] \in Seq(Nat) /\ Digits[n] # <<>>
           /\ \A i \in DOMAIN Digits[n] : Digits[n][i] \in 0 .. 9
  <1>1. Digits[n] \in Seq(0 .. 9) /\ Digits[n] # <<>> BY DigitsTyped
  <1>2. 0 .. 9 \subseteq Nat OBVIOUS
  <1> QED BY <1>1, <1>2, SeqMonotonic

\* A reading that takes a digit for the next place reads the number.
TakesPlaces(step, hold, S) ==
    /\ hold \in [Nat -> S]
    /\ \A n \in Nat, d \in 0 .. 9 : step[<<hold[n], d>>] = hold[n * Ten + d]

\* So every such reading reads every number that is written in digits.
LEMMA ReadsDigits ==
    ASSUME NEW S, NEW step, IsStep(step, S, Nat), NEW hold, TakesPlaces(step, hold, S),
           NEW start, start = hold[0]
    PROVE  \A n \in Nat : Read(step, start, Digits[n]) = hold[n]
  <1>0. /\ \A n \in Nat : hold[n] \in S
        /\ \A n \in Nat, d \in 0 .. 9 : step[<<hold[n], d>>] = hold[n * Ten + d]
        /\ start \in S
    BY DEF TakesPlaces
  <1> DEFINE P(n) == Read(step, start, Digits[n]) = hold[n]
  <1>1. ASSUME NEW n \in Nat, \A m \in 0 .. n - 1 : P(m) PROVE P(n)
    <2>1. CASE n \in 0 .. 9
      <3>1. Digits[n] = <<n>> BY <2>1, DigitsFacts
      <3>2. Read(step, start, <<n>>) = step[<<start, n>>]
        <4>1. n \in Nat OBVIOUS
        <4> QED BY SMTT(40), <1>0, <4>1, ReadFew
      <3>3. step[<<hold[0], n>>] = hold[0 * Ten + n] BY <1>0, <2>1
      <3>4. 0 * Ten + n = n BY TenFacts
      <3> QED BY <3>1, <3>2, <3>3, <3>4
    <2>2. CASE n >= Ten
      <3> DEFINE m == n \div Ten
                 d == n % Ten
                 last == <<d>>
      <3>1. m \in 1 .. n - 1 /\ d \in 0 .. 9 /\ n = m * Ten + d BY <2>2, TenFacts
      <3>2. Digits[n] = Append(Digits[m], d) BY <2>2, DigitsFacts
      <3> HIDE DEF m, d
      <3>3. m \in Nat /\ m \in 0 .. n - 1 /\ d \in Nat BY <3>1
      <3>4. P(m) BY <1>1, <3>3
      <3>5. Digits[m] \in Seq(Nat) BY <3>3, DigitsAreNumbers
      <3>6. Digits[n] = Digits[m] \o last BY <3>2, <3>3, <3>5, AppendIsConcat
      <3>7. last \in Seq(Nat) BY <3>3
      <3> DEFINE held == hold[m]
      <3>8. held \in S BY <1>0, <3>3
      <3> HIDE DEF held
      <3>9. Read(step, held, last) = step[<<held, d>>] BY <3>3, <3>8, ReadFew
      <3> HIDE DEF last
      <3>10. Read(step, start, Digits[m] \o last) = Read(step, Read(step, start, Digits[m]), last)
            BY SMTT(40), <1>0, <3>5, <3>7, ReadJoined
      <3>11. step[<<held, d>>] = hold[n] BY <1>0, <3>1, <3>3 DEF held
      <3>12. Read(step, start, Digits[m]) = held BY <3>4 DEF held
      <3>13. Read(step, start, Digits[n]) = hold[n] BY <3>6, <3>9, <3>10, <3>11, <3>12
      <3> QED BY <3>13
    <2> QED BY <2>1, <2>2 DEF Ten
  <1> HIDE DEF P
  <1>2. ASSUME NEW n \in Nat PROVE P(n)
    <2> DEFINE Good == {k \in 0 .. n : \A m \in 0 .. k : P(m)}
    <2>1. 0 \in Good
      <3>1. 0 \in 0 .. n /\ \A m \in 0 .. 0 - 1 : P(m) OBVIOUS
      <3>2. P(0) BY <1>1, <3>1
      <3> QED BY <3>1, <3>2
    <2>2. ASSUME NEW k \in 1 .. n, k - 1 \in Good PROVE k \in Good
      <3>1. \A m \in 0 .. k - 1 : P(m) BY <2>2
      <3>2. P(k) BY <1>1, <3>1
      <3> QED BY <3>1, <3>2
    <2> HIDE DEF Good
    <2>3. \A k \in 0 .. n : k \in Good BY <2>1, <2>2, UpToIsIn
    <2>4. n \in Good /\ n \in 0 .. n BY <2>3
    <2> QED BY <2>4 DEF Good
  <1> QED BY <1>2 DEF P

\* No digit is a myriad, a hundred million or a unit.
LEMMA DigitsHaveNoScale == \A d \in 0 .. 9 : d \notin Scales /\ d # Myriad /\ d < Ten
BY DEF Scales, Myriad, HundredMillion, Ten

\* kanjiToNumber reads digits.
LEMMA ServerReadsDigits == \A n \in Nat : ServerReading(Digits[n]) = n
  <1> DEFINE hold == [n \in Nat |-> R(0, n)]
  <1>1. IsStep(ServerSteps, Reading, Nat) BY ServerStepFacts DEF IsStep
  <1>2. hold \in [Nat -> Reading] BY RFacts
  <1>3. ASSUME NEW n \in Nat, NEW d \in 0 .. 9
        PROVE  ServerSteps[<<hold[n], d>>] = hold[n * Ten + d]
    <2>1. hold[n] = R(0, n) /\ R(0, n) \in Reading /\ d \in Nat BY RFacts
    <2>2. ServerSteps[<<R(0, n), d>>] = ServerStep(R(0, n), d) BY <2>1, ServerStepFacts
    <2>3. ServerStep(R(0, n), d) = R(0, n * Ten + d)
      BY <2>1, RFacts, ServerStepCases, DigitsHaveNoScale
    <2>4. n * Ten + d \in Nat BY TenFacts
    <2> QED BY <2>1, <2>2, <2>3, <2>4
  <1>4. hold[0] = Nothing BY DEF R, Nothing
  <1>5. \A n \in Nat : hold[n] = R(0, n) OBVIOUS
  <1> HIDE DEF hold
  <1>6. \A n \in Nat : Read(ServerSteps, Nothing, Digits[n]) = R(0, n)
    <2>1. TakesPlaces(ServerSteps, hold, Reading) BY <1>2, <1>3 DEF TakesPlaces
    <2>2. \A n \in Nat : Read(ServerSteps, Nothing, Digits[n]) = hold[n]
      BY <1>1, <1>4, <2>1, ReadsDigits
    <2> QED BY <1>5, <2>2
  <1>7. ASSUME NEW n \in Nat PROVE ServerReading(Digits[n]) = n
    <2>1. Digits[n] # <<>> /\ \A i \in DOMAIN Digits[n] : Digits[n][i] \notin Scales
      BY DigitsAreNumbers, DigitsHaveNoScale
    <2>2. ServerReading(Digits[n]) =
              Read(ServerSteps, Nothing, Digits[n]).total
                + Read(ServerSteps, Nothing, Digits[n]).current
      BY <2>1 DEF ServerReading, ServerSteps
    <2>3. R(0, n).total = 0 /\ R(0, n).current = n BY RFacts
    <2> QED BY <1>6, <2>2, <2>3
  <1> QED BY <1>7

-----------------------------------------------------------------------------
(* The reader: parseKanjiNum.                                                *)

\* The steps of parseKanjiNum, with units and for digits alone.
ReaderSteps == [p \in Reading \X Nat |-> ReaderStep(p[1], p[2])]
PlaceSteps == [p \in Nat \X Nat |-> p[1] * Ten + p[2]]

\* The step for digits alone.
LEMMA PlaceStepFacts ==
    /\ IsStep(PlaceSteps, Nat, Nat)
    /\ \A n, d \in Nat : PlaceSteps[<<n, d>>] = n * Ten + d
  <1>1. \A n, d \in Nat : n * Ten + d \in Nat BY TenFacts
  <1> QED BY <1>1 DEF PlaceSteps, IsStep

\* The three cases of the step with units.
LEMMA ReaderStepCases ==
    ASSUME NEW read \in Reading, NEW symbol \in Nat
    PROVE  ReaderStep(read, symbol) =
               IF symbol = 0 \/ symbol \in Scales THEN read
               ELSE IF symbol < Ten THEN R(read.total, symbol)
               ELSE R(read.total + Worth(read.current, symbol), 0)
BY DEF ReaderStep, R, Reading

\* The step with units.
LEMMA ReaderStepFacts ==
    /\ IsStep(ReaderSteps, Reading, Nat)
    /\ \A read \in Reading, symbol \in Nat :
          ReaderSteps[<<read, symbol>>] = ReaderStep(read, symbol)
  <1>1. ASSUME NEW read \in Reading, NEW symbol \in Nat PROVE ReaderStep(read, symbol) \in Reading
    <2>1. read.total \in Nat /\ read.current \in Nat BY DEF Reading
    <2>2. read.total + Worth(read.current, symbol) \in Nat BY <2>1 DEF Worth
    <2>3. R(read.total, symbol) \in Reading /\ R(read.total + Worth(read.current, symbol), 0) \in Reading
      BY <2>1, <2>2, RFacts
    <2> QED BY <2>3, ReaderStepCases
  <1> QED BY <1>1 DEF ReaderSteps, IsStep

\* With units, parseKanjiNum reads as kanjiToNumber does.
LEMMA ReaderReads == Reads(ReaderSteps)
  <1>1. ASSUME NEW t \in Nat, NEW d \in 1 .. 9 PROVE ReaderSteps[<<R(t, 0), d>>] = R(t, d)
    <2>1. ReaderSteps[<<R(t, 0), d>>] = ReaderStep(R(t, 0), d) BY ReaderStepFacts, RFacts
    <2>2. R(t, 0) \in Reading /\ R(t, 0).total = t BY RFacts
    <2>3. d \in Nat /\ d # 0 /\ d \notin Scales /\ d < Ten BY DigitsHaveNoScale
    <2>4. ReaderStep(R(t, 0), d) = R(t, d) BY <2>2, <2>3, ReaderStepCases
    <2> QED BY <2>1, <2>4
  <1>2. ASSUME NEW t \in Nat, NEW c \in 0 .. 9, NEW u \in {Ten, Hundred, Thousand}
        PROVE  ReaderSteps[<<R(t, c), u>>] = R(t + Worth(c, u), 0)
    <2>1. u \in Nat /\ ~(u < Ten) /\ u # 0 /\ u \notin Scales
      BY DEF Ten, Hundred, Thousand, Scales, Myriad, HundredMillion
    <2>2. ReaderSteps[<<R(t, c), u>>] = ReaderStep(R(t, c), u)
      BY <2>1, ReaderStepFacts, RFacts
    <2>3. R(t, c) \in Reading /\ R(t, c).total = t /\ R(t, c).current = c BY RFacts
    <2>4. ReaderStep(R(t, c), u) = R(t + Worth(c, u), 0) BY <2>1, <2>3, ReaderStepCases
    <2> QED BY <2>2, <2>4
  <1> QED BY <1>1, <1>2, ReaderStepFacts DEF Reads

\* parseKanjiNum, by the two steps.
LEMMA ParseUnfolded ==
    ASSUME NEW q
    PROVE  /\ (\A i \in DOMAIN q : q[i] < Ten) => ParseKanjiNum(q) = Read(PlaceSteps, 0, q)
           /\ ~(\A i \in DOMAIN q : q[i] < Ten) =>
                 ParseKanjiNum(q) = Read(ReaderSteps, Nothing, q).total
                                    + Read(ReaderSteps, Nothing, q).current
BY DEF ParseKanjiNum, PlaceSteps, ReaderSteps

\* parseKanjiNum gives a number.
LEMMA ParseTyped ==
    ASSUME NEW q \in Seq(Nat)
    PROVE  ParseKanjiNum(q) \in Nat
  <1>1. Read(PlaceSteps, 0, q) \in Nat BY PlaceStepFacts, ReadJoined
  <1>2. Read(ReaderSteps, Nothing, q) \in Reading
    BY ReaderStepFacts, ServerStepFacts, ReadJoined
  <1> DEFINE read == Read(ReaderSteps, Nothing, q)
  <1>3. read.total \in Nat /\ read.current \in Nat BY <1>2 DEF Reading
  <1>4. read.total + read.current \in Nat BY <1>3
  <1> QED BY <1>1, <1>4, ParseUnfolded

\* parseKanjiNum reads digits.
LEMMA ParsesDigits == \A n \in Nat : ParseKanjiNum(Digits[n]) = n
  <1> DEFINE hold == [n \in Nat |-> n]
  <1>1. TakesPlaces(PlaceSteps, hold, Nat)
    <2>1. ASSUME NEW n \in Nat, NEW d \in 0 .. 9
          PROVE  PlaceSteps[<<hold[n], d>>] = hold[n * Ten + d]
      <3>1. n * Ten + d \in Nat BY TenFacts
      <3> QED BY <3>1, PlaceStepFacts
    <2> QED BY <2>1 DEF TakesPlaces
  <1>2. \A n \in Nat : hold[n] = n OBVIOUS
  <1> HIDE DEF hold
  <1>3. \A n \in Nat : Read(PlaceSteps, 0, Digits[n]) = hold[n]
    <2>1. 0 = hold[0] BY <1>2
    <2> QED BY <1>1, <2>1, PlaceStepFacts, ReadsDigits
  <1>4. ASSUME NEW n \in Nat PROVE \A i \in DOMAIN Digits[n] : Digits[n][i] < Ten
    BY DigitsAreNumbers, DigitsHaveNoScale
  <1> QED BY <1>2, <1>3, <1>4, ParseUnfolded

\* A number of several places is written with a unit.
LEMMA UnitIsWritten ==
    ASSUME NEW n \in Ten .. Myriad - 1
    PROVE  ~(\A i \in DOMAIN ToKanji[n] : ToKanji[n][i] < Ten)
  <1> DEFINE head == Coefficient(n)
             u == Unit(n)
             one == <<u>>
             rest == ToKanji[n % Unit(n)]
             most == head \o one
  <1>1. ToKanji[n] = head \o one \o rest BY ToKanjiFacts
  <1>2. rest \in Seq(Nat)
    <2>1. n % Unit(n) \in 0 .. Myriad - 1 BY UnitFacts, MyriadFacts
    <2>2. rest \in Seq(1 .. Thousand) BY <2>1, ToKanjiTyped
    <2>3. 1 .. Thousand \subseteq Nat BY DEF Thousand
    <2> HIDE DEF rest
    <2> QED BY <2>2, <2>3, SeqMonotonic
  <1>3. head \in Seq(Nat)
    <2> DEFINE c == Share(n)
    <2>1. <<>> \in Seq(Nat) OBVIOUS
    <2>2. head = <<>> \/ (head = <<c>> /\ c \in 2 .. 9) BY CoefficientFacts
    <2> HIDE DEF c, head
    <2>3. c \in 2 .. 9 => <<c>> \in Seq(Nat) OBVIOUS
    <2> QED BY <2>1, <2>2, <2>3
  <1>4. u \in Nat /\ ~(u < Ten) BY UnitFacts DEF Ten, Hundred, Thousand
  <1> HIDE DEF head, u, rest
  <1>5. one \in Seq(Nat) /\ Len(one) = 1 /\ one[1] = u BY <1>4
  <1> HIDE DEF one
  <1> DEFINE at == Len(head) + 1
  <1>6. most \in Seq(Nat) /\ Len(most) = at /\ most[at] = u
    <2>1. most \in Seq(Nat) /\ Len(most) = at
      <3>1. most \in Seq(Nat) /\ Len(most) = Len(head) + Len(one)
        BY <1>3, <1>5, ConcatProperties
      <3> HIDE DEF most
      <3> QED BY <1>5, <3>1
    <2>2. at \in 1 .. Len(head) + Len(one) /\ ~(at <= Len(head)) /\ at - Len(head) = 1
      BY <1>3, <1>5
    <2>3. (head \o one)[at] = one[at - Len(head)]
      <3> HIDE DEF most, at
      <3> QED BY <1>3, <1>5, <2>2, ConcatProperties
    <2> QED BY <1>5, <2>1, <2>2, <2>3
  <1>7. at \in Nat /\ at >= 1 BY <1>3
  <1>8. ToKanji[n] = most \o rest BY <1>1
  <1> HIDE DEF most, at
  <1>9. (most \o rest)[at] = u /\ at \in DOMAIN (most \o rest)
    <2>1. at \in 1 .. Len(most) + Len(rest) /\ at <= Len(most) BY <1>2, <1>6, <1>7
    <2>2. (most \o rest)[at] = most[at] BY <1>2, <1>6, <2>1, ConcatProperties
    <2>3. most \o rest \in Seq(Nat) /\ Len(most \o rest) = Len(most) + Len(rest)
      BY <1>2, <1>6, ConcatProperties
    <2> QED BY <1>6, <2>1, <2>2, <2>3
  <1> QED BY <1>4, <1>8, <1>9

\* parseKanjiNum reads what toKanji wrote.
LEMMA ParsesKanji == \A n \in 0 .. Myriad - 1 : ParseKanjiNum(ToKanji[n]) = n
  <1>1. ASSUME NEW n \in 0 .. Myriad - 1 PROVE ParseKanjiNum(ToKanji[n]) = n
    <2>1. CASE n = 0
      <3>1. ToKanji[n] = <<>> BY <2>1, ToKanjiFacts
      <3>2. ParseKanjiNum(<<>>) = Read(PlaceSteps, 0, <<>>)
        <4>1. \A i \in DOMAIN <<>> : <<>>[i] < Ten OBVIOUS
        <4> QED BY <4>1, ParseUnfolded
      <3>3. Read(PlaceSteps, 0, <<>>) = 0 BY PlaceStepFacts, ReadFew
      <3> QED BY <2>1, <3>1, <3>2, <3>3
    <2>2. CASE n \in 1 .. 9
      <3>1. ToKanji[n] = Digits[n]
        <4>1. ToKanji[n] = <<n>> BY <2>2, ToKanjiFacts
        <4>2. n \in 0 .. 9 BY <2>2
        <4>3. Digits[n] = <<n>> BY <4>2, DigitsFacts
        <4> QED BY <4>1, <4>3
      <3>2. n \in Nat BY <2>2
      <3> QED BY <3>1, <3>2, ParsesDigits
    <2>3. CASE n \in Ten .. Myriad - 1
      <3>1. ParseKanjiNum(ToKanji[n]) = Read(ReaderSteps, Nothing, ToKanji[n]).total
                                        + Read(ReaderSteps, Nothing, ToKanji[n]).current
        BY <2>3, UnitIsWritten, ParseUnfolded
      <3>2. Nothing = R(0, 0) BY DEF Nothing, R
      <3>3. Adds(ReaderSteps, n) BY ReaderReads, KanjiAdds
      <3>4. PICK m, c \in Nat : Read(ReaderSteps, R(0, 0), ToKanji[n]) = R(m, c) /\ m + c = 0 + n
        BY <3>3 DEF Adds
      <3>5. R(m, c).total = m /\ R(m, c).current = c BY RFacts
      <3>6. n \in Nat BY MyriadFacts
      <3> QED BY <3>1, <3>2, <3>4, <3>5, <3>6
    <2> QED BY <2>1, <2>2, <2>3, MyriadFacts DEF Ten
  <1> QED BY <1>1

-----------------------------------------------------------------------------
(* The reader: kanjiToArabic.                                                *)

\* The places of the myriads, and the value read around one.
MyriadsOf(q) == {i \in DOMAIN q : q[i] = Myriad}

Around(q, at) ==
    Worth(ParseKanjiNum(SubSeq(q, 1, at - 1)), Myriad) + ParseKanjiNum(SubSeq(q, at + 1, Len(q)))

\* kanjiToArabic looks for a single myriad.
LEMMA ArabicUnfolded ==
    ASSUME NEW q
    PROVE  KanjiToArabic(q) = IF Cardinality(MyriadsOf(q)) # 1 THEN ParseKanjiNum(q)
                              ELSE Around(q, CHOOSE i \in MyriadsOf(q) : TRUE)
BY DEF KanjiToArabic, MyriadsOf, Around

\* Without a myriad it is parseKanjiNum.
LEMMA ArabicPlain ==
    ASSUME NEW q, MyriadsOf(q) = {}
    PROVE  KanjiToArabic(q) = ParseKanjiNum(q)
  <1>1. Cardinality(MyriadsOf(q)) = 0 BY FS_EmptySet
  <1> QED BY <1>1, ArabicUnfolded

\* Both sides of a myriad are numerals.
LEMMA PartsTyped ==
    ASSUME NEW q \in Seq(Nat), NEW at \in 1 .. Len(q)
    PROVE  SubSeq(q, 1, at - 1) \in Seq(Nat) /\ SubSeq(q, at + 1, Len(q)) \in Seq(Nat)
  <1>1. Len(q) \in Nat OBVIOUS
  <1>2. SubSeq(q, 1, at - 1) \in Seq(Nat)
    <2>1. \A i \in 1 .. at - 1 : i \in 1 .. Len(q) BY <1>1
    <2> QED BY <1>1, <2>1
  <1>3. SubSeq(q, at + 1, Len(q)) \in Seq(Nat)
    <2>1. \A i \in at + 1 .. Len(q) : i \in 1 .. Len(q) BY <1>1
    <2> QED BY <1>1, <2>1
  <1> QED BY <1>2, <1>3

\* A coefficient with its unit is a number.
LEMMA WorthTyped == \A c, u \in Nat : Worth(c, u) \in Nat
BY DEF Worth

\* kanjiToArabic gives a number.
LEMMA ArabicTyped ==
    ASSUME NEW q \in Seq(Nat)
    PROVE  KanjiToArabic(q) \in Nat
  <1>1. CASE Cardinality(MyriadsOf(q)) # 1 BY <1>1, ArabicUnfolded, ParseTyped
  <1>2. CASE Cardinality(MyriadsOf(q)) = 1
    <2> DEFINE at == CHOOSE i \in MyriadsOf(q) : TRUE
    <2>1. KanjiToArabic(q) = Around(q, at) BY <1>2, ArabicUnfolded
    <2>2. MyriadsOf(q) # {}
      <3>1. ASSUME MyriadsOf(q) = {} PROVE FALSE
        <4>1. Cardinality(MyriadsOf(q)) = 0 BY <3>1, FS_EmptySet
        <4> QED BY <1>2, <4>1
      <3> QED BY <3>1
    <2>3. at \in MyriadsOf(q) BY <2>2
    <2>4. at \in 1 .. Len(q) BY <2>3 DEF MyriadsOf
    <2> HIDE DEF at
    <2>5. ParseKanjiNum(SubSeq(q, 1, at - 1)) \in Nat /\ ParseKanjiNum(SubSeq(q, at + 1, Len(q))) \in Nat
      BY <2>4, PartsTyped, ParseTyped
    <2>6. Worth(ParseKanjiNum(SubSeq(q, 1, at - 1)), Myriad) \in Nat
      BY <2>5, MyriadFacts, WorthTyped
    <2> QED BY <2>1, <2>5, <2>6 DEF Around
  <1> QED BY <1>1, <1>2

\* A sequence between two others is found where it stands.
LEMMA SplitAt ==
    ASSUME NEW q \in Seq(Nat), NEW r \in Seq(Nat), NEW m \in Nat, NEW at, at = Len(q) + 1,
           NEW whole, whole = (q \o <<m>>) \o r
    PROVE  /\ whole \in Seq(Nat) /\ Len(whole) = Len(q) + 1 + Len(r)
           /\ whole[at] = m /\ at \in 1 .. Len(whole)
           /\ \A i \in 1 .. Len(q) : whole[i] = q[i]
           /\ \A i \in 1 .. Len(r) : whole[at + i] = r[i]
           /\ SubSeq(whole, 1, at - 1) = q
           /\ SubSeq(whole, at + 1, Len(whole)) = r
  <1> DEFINE one == <<m>>
             most == q \o one
  <1>0. Len(q) \in Nat /\ Len(r) \in Nat /\ at \in Nat /\ at >= 1 /\ at - 1 = Len(q) OBVIOUS
  <1>1. one \in Seq(Nat) /\ Len(one) = 1 /\ one[1] = m OBVIOUS
  <1>20. whole = most \o r OBVIOUS
  <1> HIDE DEF one
  <1>2. /\ most \in Seq(Nat) /\ Len(most) = Len(q) + Len(one)
        /\ \A i \in 1 .. Len(q) + Len(one) :
               most[i] = IF i <= Len(q) THEN q[i] ELSE one[i - Len(q)]
    BY <1>1, ConcatProperties
  <1> HIDE DEF most
  <1>3. Len(most) = at BY <1>1, <1>2
  <1>4. /\ whole \in Seq(Nat) /\ Len(whole) = Len(most) + Len(r)
        /\ \A i \in 1 .. Len(most) + Len(r) :
               whole[i] = IF i <= Len(most) THEN most[i] ELSE r[i - Len(most)]
    <2>1. most \in Seq(Nat) BY <1>2
    <2>2. /\ most \o r \in Seq(Nat) /\ Len(most \o r) = Len(most) + Len(r)
          /\ \A i \in 1 .. Len(most) + Len(r) :
                 (most \o r)[i] = IF i <= Len(most) THEN most[i] ELSE r[i - Len(most)]
      BY <2>1, ConcatProperties
    <2> QED BY <1>20, <2>2
  <1>5. whole \in Seq(Nat) /\ Len(whole) = Len(q) + 1 + Len(r) BY <1>0, <1>3, <1>4
  <1>6. \A i \in 1 .. at : whole[i] = most[i]
    <2>1. \A i \in 1 .. at : i \in 1 .. Len(most) + Len(r) /\ i <= Len(most) BY <1>0, <1>3
    <2> QED BY <1>4, <2>1
  <1>7. whole[at] = m /\ at \in 1 .. Len(whole)
    <2>1. at \in 1 .. at /\ at \in 1 .. Len(q) + Len(one) /\ ~(at <= Len(q)) /\ at - Len(q) = 1
      BY <1>0, <1>1
    <2>2. most[at] = one[1] BY <1>2, <2>1
    <2>3. whole[at] = most[at] BY <1>6, <2>1
    <2>4. at \in 1 .. Len(whole) BY <1>0, <1>5
    <2> QED BY <1>1, <2>2, <2>3, <2>4
  <1>8. \A i \in 1 .. Len(q) : whole[i] = q[i]
    <2>1. \A i \in 1 .. Len(q) : i \in 1 .. at /\ i \in 1 .. Len(q) + Len(one) /\ i <= Len(q)
      BY <1>0, <1>1
    <2> QED BY <1>2, <1>6, <2>1
  <1>9. \A i \in 1 .. Len(r) : whole[at + i] = r[i]
    <2>1. ASSUME NEW i \in 1 .. Len(r) PROVE whole[at + i] = r[i]
      <3> DEFINE k == at + i
      <3>1. k \in 1 .. Len(most) + Len(r) /\ ~(k <= Len(most)) /\ k - Len(most) = i
        BY <1>0, <1>3
      <3> HIDE DEF k
      <3>2. whole[k] = r[k - Len(most)] BY <1>4, <3>1
      <3>3. whole[k] = r[i] BY <3>1, <3>2
      <3> QED BY <3>3 DEF k
    <2> QED BY <2>1
  <1>10. SubSeq(whole, 1, at - 1) = q
    <2> DEFINE front == SubSeq(whole, 1, Len(q))
    <2>1. \A i \in 1 .. Len(q) : whole[i] \in Nat
      <3>1. \A i \in 1 .. Len(q) : q[i] \in Nat OBVIOUS
      <3> QED BY <1>8, <3>1
    <2>2. front \in Seq(Nat) /\ Len(front) = (IF 1 <= Len(q) THEN Len(q) - 1 + 1 ELSE 0)
          /\ \A i \in 1 .. Len(q) - 1 + 1 : front[i] = whole[1 + i - 1]
      BY <1>0, <2>1, SubSeqProperties
    <2> HIDE DEF front
    <2>3. Len(front) = Len(q) BY <1>0, <2>2
    <2>4. \A i \in 1 .. Len(q) : front[i] = q[i]
      <3>1. \A i \in 1 .. Len(q) : i \in 1 .. Len(q) - 1 + 1 /\ 1 + i - 1 = i BY <1>0
      <3> QED BY <1>8, <2>2, <3>1
    <2>5. front = q BY <2>2, <2>3, <2>4, SeqEqual
    <2> QED BY <1>0, <2>5 DEF front
  <1>11. SubSeq(whole, at + 1, Len(whole)) = r
    <2> DEFINE n == Len(whole)
               back == SubSeq(whole, at + 1, n)
    <2>0. n \in Int /\ at + 1 \in Int /\ n = at + Len(r) BY <1>0, <1>5
    <2> HIDE DEF n
    <2>1. \A i \in at + 1 .. n : whole[i] \in Nat
      <3>1. \A i \in at + 1 .. n : i - at \in 1 .. Len(r) /\ at + (i - at) = i BY <1>0, <2>0
      <3>2. \A i \in 1 .. Len(r) : r[i] \in Nat OBVIOUS
      <3> QED BY <1>9, <3>1, <3>2
    <2>2. back \in Seq(Nat) /\ Len(back) = (IF at + 1 <= n THEN n - (at + 1) + 1 ELSE 0)
          /\ \A i \in 1 .. n - (at + 1) + 1 : back[i] = whole[(at + 1) + i - 1]
      BY SMTT(40), <2>0, <2>1, SubSeqProperties
    <2> HIDE DEF back
    <2>3. Len(back) = Len(r) BY <1>0, <2>0, <2>2
    <2>4. \A i \in 1 .. Len(r) : back[i] = r[i]
      <3>1. \A i \in 1 .. Len(r) : i \in 1 .. n - (at + 1) + 1 /\ (at + 1) + i - 1 = at + i
        BY <1>0, <2>0
      <3> QED BY <1>9, <2>2, <3>1
    <2>5. back = r BY <2>2, <2>3, <2>4, SeqEqual
    <2> QED BY <2>5 DEF back, n
  <1> QED BY <1>5, <1>7, <1>8, <1>9, <1>10, <1>11

\* With one myriad it adds up what stands before and after it.
LEMMA ArabicAround ==
    ASSUME NEW q \in Seq(Nat), NEW r \in Seq(Nat), MyriadsOf(q) = {}, MyriadsOf(r) = {}
    PROVE  KanjiToArabic(q \o <<Myriad>> \o r)
               = Worth(ParseKanjiNum(q), Myriad) + ParseKanjiNum(r)
  <1> DEFINE at == Len(q) + 1
             whole == (q \o <<Myriad>>) \o r
  <1>1. /\ whole \in Seq(Nat) /\ Len(whole) = Len(q) + 1 + Len(r)
        /\ whole[at] = Myriad /\ at \in 1 .. Len(whole)
        /\ \A i \in 1 .. Len(q) : whole[i] = q[i]
        /\ \A i \in 1 .. Len(r) : whole[at + i] = r[i]
        /\ SubSeq(whole, 1, at - 1) = q
        /\ SubSeq(whole, at + 1, Len(whole)) = r
    BY MyriadFacts, SplitAt
  <1>2. at \in Nat /\ Len(q) \in Nat /\ Len(r) \in Nat /\ at = Len(q) + 1 OBVIOUS
  <1> HIDE DEF whole, at
  <1>3. MyriadsOf(whole) = {at}
    <2>1. at \in MyriadsOf(whole) BY <1>1 DEF MyriadsOf
    <2>2. ASSUME NEW i \in MyriadsOf(whole) PROVE i = at
      <3>1. i \in 1 .. Len(whole) /\ whole[i] = Myriad BY <1>1 DEF MyriadsOf
      <3>2. CASE i < at
        <4>1. i \in 1 .. Len(q) BY <1>1, <1>2, <3>1, <3>2
        <4>2. i \in DOMAIN q /\ q[i] = Myriad BY <1>1, <3>1, <4>1
        <4> QED BY <4>2 DEF MyriadsOf
      <3>3. CASE i > at
        <4> DEFINE k == i - at
        <4>1. k \in 1 .. Len(r) /\ at + k = i BY <1>1, <1>2, <3>1, <3>3
        <4> HIDE DEF k
        <4>2. whole[at + k] = r[k] BY <1>1, <4>1
        <4>3. r[k] = Myriad BY <3>1, <4>1, <4>2
        <4>4. k \in DOMAIN r BY <4>1
        <4>5. k \in MyriadsOf(r) BY <4>3, <4>4 DEF MyriadsOf
        <4> QED BY <4>5
      <3> QED BY <1>1, <1>2, <3>1, <3>2, <3>3
    <2> QED BY <2>1, <2>2
  <1>4. Cardinality(MyriadsOf(whole)) = 1 BY <1>3, FS_Singleton
  <1>5. (CHOOSE i \in MyriadsOf(whole) : TRUE) = at BY <1>3
  <1>6. KanjiToArabic(whole) = Around(whole, at) BY <1>4, <1>5, ArabicUnfolded
  <1>7. Around(whole, at) = Worth(ParseKanjiNum(q), Myriad) + ParseKanjiNum(r)
    BY <1>1 DEF Around
  <1> QED BY <1>6, <1>7 DEF whole

\* What toKanji writes is a numeral without a myriad.
LEMMA KanjiAreNumbers ==
    ASSUME NEW n \in 0 .. Myriad - 1
    PROVE  /\ ToKanji[n] \in Seq(Nat)
           /\ \A i \in DOMAIN ToKanji[n] : ToKanji[n][i] \notin Scales
           /\ MyriadsOf(ToKanji[n]) = {}
  <1> DEFINE kanji == ToKanji[n]
             symbols == 1 .. Thousand
  <1>1. kanji \in Seq(symbols) BY ToKanjiTyped
  <1>2. symbols \subseteq Nat BY DEF Thousand
  <1>3. \A u \in symbols : u \notin Scales /\ u # Myriad
    BY DEF Scales, Thousand, Myriad, HundredMillion
  <1> HIDE DEF kanji, symbols
  <1>4. kanji \in Seq(Nat) BY <1>1, <1>2, SeqMonotonic
  <1>5. \A i \in DOMAIN kanji : kanji[i] \in symbols BY <1>1
  <1>6. MyriadsOf(kanji) = {} BY <1>3, <1>5 DEF MyriadsOf
  <1> QED BY <1>3, <1>4, <1>5, <1>6 DEF kanji

\* kanjiToArabic reads what toKanji wrote.
LEMMA ArabicKanji == \A n \in 0 .. Myriad - 1 : KanjiToArabic(ToKanji[n]) = n
BY KanjiAreNumbers, ArabicPlain, ParsesKanji

\* kanjiToArabic reads digits.
LEMMA ArabicDigits == \A n \in Nat : KanjiToArabic(Digits[n]) = n
  <1>1. ASSUME NEW n \in Nat PROVE MyriadsOf(Digits[n]) = {}
    BY DigitsAreNumbers, DigitsHaveNoScale DEF MyriadsOf
  <1> QED BY <1>1, ArabicPlain, ParsesDigits

\* The largest number that is written with one myriad.
Largest == HundredMillion - 1

\* A number that has a myriad, and its two parts.
LEMMA MyriadSplit ==
    ASSUME NEW n \in Nat, n >= Myriad, n <= Largest
    PROVE  /\ n \div Myriad \in 1 .. Myriad - 1
           /\ n % Myriad \in 0 .. Myriad - 1
           /\ n = (n \div Myriad) * Myriad + (n % Myriad)
BY DEF Myriad, Largest, HundredMillion

\* kanjiToArabic reads what a law writes.
LEMMA ArabicWritten ==
    ASSUME NEW n \in Nat, n <= Largest
    PROVE  KanjiToArabic(Written(n)) = n
  <1>1. CASE n < Myriad
    <2>1. Written(n) = ToKanji[n] BY <1>1 DEF Written
    <2>2. n \in 0 .. Myriad - 1 BY <1>1, MyriadFacts
    <2> QED BY <2>1, <2>2, ArabicKanji
  <1>2. CASE n >= Myriad
    <2> DEFINE a == n \div Myriad
               b == n % Myriad
               q == ToKanji[a]
               r == ToKanji[b]
    <2>1. a \in 1 .. Myriad - 1 /\ b \in 0 .. Myriad - 1 /\ n = a * Myriad + b
      BY <1>2, MyriadSplit
    <2>2. Written(n) = q \o <<Myriad>> \o r
      <3>1. ~(n < Myriad) BY <1>2, MyriadFacts
      <3> QED BY <3>1 DEF Written
    <2> HIDE DEF a, b
    <2>3. a \in 0 .. Myriad - 1 /\ a # 0 BY <2>1, MyriadFacts
    <2>4. q \in Seq(Nat) /\ MyriadsOf(q) = {} /\ r \in Seq(Nat) /\ MyriadsOf(r) = {}
      BY <2>1, <2>3, KanjiAreNumbers
    <2>5. ParseKanjiNum(q) = a /\ ParseKanjiNum(r) = b BY <2>1, <2>3, ParsesKanji
    <2> HIDE DEF q, r
    <2>6. KanjiToArabic(q \o <<Myriad>> \o r) = Worth(a, Myriad) + b
      BY <2>4, <2>5, ArabicAround
    <2>7. Worth(a, Myriad) = a * Myriad BY <2>3 DEF Worth
    <2> QED BY <2>1, <2>2, <2>6, <2>7
  <1> QED BY <1>1, <1>2, MyriadFacts

-----------------------------------------------------------------------------
(* The reader: formatKanjiQuantity.                                          *)

\* A shown quantity, and the state formatKanjiQuantity keeps.
Piece == Nat \X Nat
Work == [shown : Seq(Piece), buffer : Seq(Nat)]
W(s, b) == [shown |-> s, buffer |-> b]

\* The step of formatKanjiQuantity.
ScaleSteps == [p \in Work \X Nat |-> ScaleStep(p[1], p[2])]

\* The parts of its state.
LEMMA WFacts ==
    \A s \in Seq(Piece), b \in Seq(Nat) : W(s, b) \in Work /\ W(s, b).shown = s /\ W(s, b).buffer = b
BY DEF W, Work

\* What is shown at a scale.
PieceOf(done, symbol) == <<IF done.buffer = <<>> THEN 1 ELSE KanjiToArabic(done.buffer), symbol>>

\* The two cases of the step.
LEMMA ScaleStepCases ==
    ASSUME NEW done \in Work, NEW symbol \in Nat
    PROVE  ScaleStep(done, symbol) =
               IF symbol \notin Scales THEN W(done.shown, Append(done.buffer, symbol))
               ELSE W(Append(done.shown, PieceOf(done, symbol)), <<>>)
  <1>1. CASE symbol \notin Scales
    <2> DEFINE more == Append(done.buffer, symbol)
    <2>1. ScaleStep(done, symbol) = [done EXCEPT !.buffer = more] BY <1>1 DEF ScaleStep
    <2> HIDE DEF more
    <2>2. [done EXCEPT !.buffer = more] = W(done.shown, more) BY DEF W, Work
    <2> QED BY <1>1, <2>1, <2>2 DEF more
  <1>2. CASE symbol \in Scales
    <2>1. ScaleStep(done, symbol)
              = [shown |-> Append(done.shown, PieceOf(done, symbol)), buffer |-> <<>>]
      BY <1>2 DEF ScaleStep, PieceOf
    <2> QED BY <1>2, <2>1 DEF W
  <1> QED BY <1>1, <1>2

\* The step as a function.
LEMMA ScaleStepFacts ==
    /\ IsStep(ScaleSteps, Work, Nat)
    /\ \A done \in Work, symbol \in Nat : ScaleSteps[<<done, symbol>>] = ScaleStep(done, symbol)
  <1>1. ASSUME NEW done \in Work, NEW symbol \in Nat PROVE ScaleStep(done, symbol) \in Work
    <2>1. done.shown \in Seq(Piece) /\ done.buffer \in Seq(Nat) BY DEF Work
    <2>2. Append(done.buffer, symbol) \in Seq(Nat) BY <2>1, AppendProperties
    <2>3. PieceOf(done, symbol) \in Piece
      <3> DEFINE c == IF done.buffer = <<>> THEN 1 ELSE KanjiToArabic(done.buffer)
      <3>1. c \in Nat BY <2>1, ArabicTyped
      <3>2. PieceOf(done, symbol) = <<c, symbol>> BY DEF PieceOf
      <3> HIDE DEF c
      <3> QED BY <3>1, <3>2 DEF Piece
    <2>4. Append(done.shown, PieceOf(done, symbol)) \in Seq(Piece) BY <2>1, <2>3, AppendProperties
    <2>5. <<>> \in Seq(Nat) OBVIOUS
    <2>6. W(done.shown, Append(done.buffer, symbol)) \in Work BY <2>1, <2>2, WFacts
    <2>7. W(Append(done.shown, PieceOf(done, symbol)), <<>>) \in Work BY <2>4, <2>5, WFacts
    <2> QED BY <2>6, <2>7, ScaleStepCases
  <1> QED BY <1>1 DEF ScaleSteps, IsStep

\* A sequence, one symbol more of it at a time.
LEMMA OneMore ==
    ASSUME NEW q \in Seq(Nat), NEW i \in 1 .. Len(q)
    PROVE  SubSeq(q, 1, i) = Append(SubSeq(q, 1, i - 1), q[i])
  <1> DEFINE more == SubSeq(q, 1, i)
             less == SubSeq(q, 1, i - 1)
  <1>1. Len(q) \in Nat /\ \A k \in 1 .. Len(q) : q[k] \in Nat OBVIOUS
  <1>2. \A k \in 1 .. i : k \in 1 .. Len(q) BY <1>1
  <1>3. more \in Seq(Nat) /\ Len(more) = i /\ \A k \in 1 .. i : more[k] = q[k]
    <2>1. /\ more \in Seq(Nat) /\ Len(more) = (IF 1 <= i THEN i - 1 + 1 ELSE 0)
          /\ \A k \in 1 .. i - 1 + 1 : more[k] = q[1 + k - 1]
      BY <1>1, <1>2, SubSeqProperties
    <2>2. \A k \in 1 .. i : k \in 1 .. i - 1 + 1 /\ 1 + k - 1 = k OBVIOUS
    <2> HIDE DEF more
    <2> QED BY <2>1, <2>2
  <1>4. less \in Seq(Nat) /\ Len(less) = i - 1 /\ \A k \in 1 .. i - 1 : less[k] = q[k]
    <2>0. i - 1 \in Int /\ \A k \in 1 .. i - 1 : k \in 1 .. Len(q) BY <1>1
    <2>1. /\ less \in Seq(Nat) /\ Len(less) = (IF 1 <= i - 1 THEN i - 1 - 1 + 1 ELSE 0)
          /\ \A k \in 1 .. i - 1 - 1 + 1 : less[k] = q[1 + k - 1]
      BY <1>1, <2>0, SubSeqProperties
    <2>2. \A k \in 1 .. i - 1 : k \in 1 .. i - 1 - 1 + 1 /\ 1 + k - 1 = k OBVIOUS
    <2> HIDE DEF less
    <2> QED BY <2>1, <2>2
  <1> DEFINE both == Append(less, q[i])
  <1> HIDE DEF more, less
  <1>5. both \in Seq(Nat) /\ Len(both) = i /\ both[i] = q[i] /\ \A k \in 1 .. i - 1 : both[k] = q[k]
    <2>1. q[i] \in Nat BY <1>1
    <2>2. /\ both \in Seq(Nat) /\ Len(both) = Len(less) + 1
          /\ \A k \in 1 .. Len(less) : both[k] = less[k]
          /\ both[Len(less) + 1] = q[i]
      BY <1>4, <2>1, AppendProperties
    <2> HIDE DEF both
    <2> QED BY <1>4, <2>2
  <1> HIDE DEF both
  <1>6. \A k \in 1 .. i : more[k] = both[k]
    <2>1. \A k \in 1 .. i : k = i \/ k \in 1 .. i - 1 OBVIOUS
    <2> QED BY <1>3, <1>5, <2>1
  <1>7. more = both BY <1>3, <1>5, <1>6, SeqEqual
  <1> QED BY <1>7 DEF more, less, both

\* Symbols that are no scale are collected.
LEMMA Collects ==
    ASSUME NEW s \in Seq(Piece), NEW q \in Seq(Nat), \A i \in DOMAIN q : q[i] \notin Scales
    PROVE  Read(ScaleSteps, W(s, <<>>), q) = W(s, q)
  <1>0. Len(q) \in Nat /\ <<>> \in Seq(Nat) OBVIOUS
  <1>1. W(s, <<>>) \in Work BY <1>0, WFacts
  <1>2. PICK f : ReadsBy(f, Work, ScaleSteps, W(s, <<>>), q) BY <1>1, ScaleStepFacts, ReadIsRun
  <1>3. /\ f[0] = W(s, <<>>)
        /\ \A i \in 1 .. Len(q) : f[i] = ScaleSteps[<<f[i - 1], q[i]>>]
        /\ Read(ScaleSteps, W(s, <<>>), q) = f[Len(q)]
    BY <1>2 DEF ReadsBy, IsRun
  <1> DEFINE Good == {i \in 0 .. Len(q) : f[i] = W(s, SubSeq(q, 1, i))}
  <1>4. 0 \in Good
    <2>1. SubSeq(q, 1, 0) = <<>> OBVIOUS
    <2>2. f[0] = W(s, SubSeq(q, 1, 0)) BY <1>3, <2>1
    <2>3. 0 \in 0 .. Len(q) BY <1>0
    <2> QED BY <2>2, <2>3
  <1>5. ASSUME NEW i \in 1 .. Len(q), i - 1 \in Good PROVE i \in Good
    <2> DEFINE less == SubSeq(q, 1, i - 1)
    <2>1. f[i] = ScaleSteps[<<W(s, less), q[i]>>] BY <1>3, <1>5
    <2>2. less \in Seq(Nat)
      <3>1. \A k \in 1 .. i - 1 : k \in 1 .. Len(q) BY <1>0
      <3>2. \A k \in 1 .. i - 1 : q[k] \in Nat BY <3>1
      <3>3. i - 1 \in Int OBVIOUS
      <3> QED BY <3>2, <3>3, SubSeqProperties
    <2>3. SubSeq(q, 1, i) = Append(less, q[i]) BY OneMore
    <2> HIDE DEF less
    <2>4. q[i] \in Nat /\ q[i] \notin Scales OBVIOUS
    <2>5. W(s, less) \in Work /\ W(s, less).shown = s /\ W(s, less).buffer = less BY <2>2, WFacts
    <2>6. ScaleSteps[<<W(s, less), q[i]>>] = ScaleStep(W(s, less), q[i])
      BY <2>4, <2>5, ScaleStepFacts
    <2>7. ScaleStep(W(s, less), q[i]) = W(s, Append(less, q[i])) BY <2>4, <2>5, ScaleStepCases
    <2>8. i \in 0 .. Len(q) OBVIOUS
    <2> QED BY <2>1, <2>3, <2>6, <2>7, <2>8
  <1> HIDE DEF Good
  <1>6. \A i \in 0 .. Len(q) : i \in Good BY <1>0, <1>4, <1>5, UpToIsIn
  <1>7. Len(q) \in Good BY <1>0, <1>6
  <1>8. SubSeq(q, 1, Len(q)) = q OBVIOUS
  <1> QED BY <1>3, <1>7, <1>8 DEF Good

\* The step at a scale: the coefficient is shown, and collecting starts again.
LEMMA AtScale ==
    ASSUME NEW s \in Seq(Piece), NEW q \in Seq(Nat), q # <<>>
    PROVE  /\ <<KanjiToArabic(q), Myriad>> \in Piece
           /\ ScaleSteps[<<W(s, q), Myriad>>] = W(Append(s, <<KanjiToArabic(q), Myriad>>), <<>>)
  <1>1. Myriad \in Nat /\ Myriad \in Scales BY MyriadFacts DEF Scales
  <1>2. W(s, q) \in Work /\ W(s, q).shown = s /\ W(s, q).buffer = q BY WFacts
  <1>3. ScaleSteps[<<W(s, q), Myriad>>] = ScaleStep(W(s, q), Myriad)
    BY <1>1, <1>2, ScaleStepFacts
  <1>4. PieceOf(W(s, q), Myriad) = <<KanjiToArabic(q), Myriad>> BY <1>2 DEF PieceOf
  <1>5. ScaleStep(W(s, q), Myriad) = W(Append(s, PieceOf(W(s, q), Myriad)), <<>>)
    BY <1>1, <1>2, ScaleStepCases
  <1>6. <<KanjiToArabic(q), Myriad>> \in Piece
    <2> DEFINE c == KanjiToArabic(q)
    <2>1. c \in Nat BY ArabicTyped
    <2> HIDE DEF c
    <2>2. <<c, Myriad>> \in Piece BY <1>1, <2>1 DEF Piece
    <2> QED BY <2>2 DEF c
  <1> QED BY <1>3, <1>4, <1>5, <1>6

\* formatKanjiQuantity shows what is collected at the end.
LEMMA FormatUnfolded ==
    ASSUME NEW q, NEW s, NEW b, Read(ScaleSteps, W(<<>>, <<>>), q) = W(s, b)
    PROVE  FormatKanjiQuantity(q) = IF b = <<>> THEN s ELSE Append(s, <<KanjiToArabic(b), 1>>)
  <1>1. FormatKanjiQuantity(q) =
            LET done == Read(ScaleSteps, W(<<>>, <<>>), q)
            IN  IF done.buffer = <<>> THEN done.shown
                ELSE Append(done.shown, <<KanjiToArabic(done.buffer), 1>>)
    BY DEF FormatKanjiQuantity, ScaleSteps, W, Work, Piece
  <1>2. W(s, b).shown = s /\ W(s, b).buffer = b BY DEF W
  <1> QED BY <1>1, <1>2

\* The value of a quantity, piece by piece.
SumSteps == [p \in Nat \X Piece |-> p[1] + p[2][1] * p[2][2]]

\* The step that adds a piece.
LEMMA SumStepFacts ==
    /\ IsStep(SumSteps, Nat, Piece)
    /\ \A n, c, u \in Nat : SumSteps[<<n, <<c, u>>>>] = n + c * u
  <1>1. \A p \in Nat \X Piece : p[1] + p[2][1] * p[2][2] \in Nat
    <2>1. ASSUME NEW p \in Nat \X Piece PROVE p[1] + p[2][1] * p[2][2] \in Nat
      <3> DEFINE n == p[1]
                 c == p[2][1]
                 u == p[2][2]
      <3>1. n \in Nat /\ c \in Nat /\ u \in Nat BY DEF Piece
      <3> HIDE DEF n, c, u
      <3>2. c * u \in Nat BY <3>1
      <3>3. n + c * u \in Nat BY <3>1, <3>2
      <3> QED BY <3>3 DEF n, c, u
    <2> QED BY <2>1
  <1>2. IsStep(SumSteps, Nat, Piece) BY <1>1 DEF SumSteps, IsStep
  <1>3. ASSUME NEW n \in Nat, NEW c \in Nat, NEW u \in Nat
        PROVE  SumSteps[<<n, <<c, u>>>>] = n + c * u
    <2>1. <<c, u>> \in Piece BY DEF Piece
    <2> DEFINE q == <<c, u>>
    <2>2. q[1] = c /\ q[2] = u OBVIOUS
    <2> HIDE DEF q
    <2>3. q \in Piece BY <2>1 DEF q
    <2>4. SumSteps[<<n, q>>] = n + q[1] * q[2] BY <2>3 DEF SumSteps
    <2> QED BY <2>2, <2>4 DEF q
  <1> QED BY <1>2, <1>3

\* A reading of one symbol.
LEMMA ReadOne ==
    ASSUME NEW S, NEW E, NEW step, IsStep(step, S, E), NEW start \in S, NEW e \in E
    PROVE  Read(step, start, <<e>>) = step[<<start, e>>]
BY ReadFew

\* q is a sequence of members of E.
IsSequence(q, E) == q \in Seq(E)

\* A reading of two symbols.
LEMMA ReadTwo ==
    ASSUME NEW S, NEW E, NEW step, IsStep(step, S, E), NEW start \in S,
           NEW q, NEW r, IsSequence(q, E), IsSequence(r, E)
    PROVE  Read(step, start, q \o r) = Read(step, Read(step, start, q), r)
  <1>1. q \in Seq(E) /\ r \in Seq(E) BY DEF IsSequence
  <1> QED BY <1>1, ReadJoined

\* The value of a quantity of one piece and of two.
LEMMA QuantityFacts ==
    ASSUME NEW c \in Nat, NEW u \in Nat, NEW d \in Nat
    PROVE  /\ Quantity(<<<<c, u>>>>) = c * u
           /\ Quantity(Append(<<<<c, u>>>>, <<d, 1>>)) = c * u + d
  <1> DEFINE one == <<c, u>>
             two == <<d, 1>>
             first == <<one>>
             second == <<two>>
  <1>1. one \in Piece /\ two \in Piece BY DEF Piece
  <1>2. SumSteps[<<0, one>>] = 0 + c * u BY SumStepFacts
  <1>3. c * u \in Nat /\ d * 1 = d OBVIOUS
  <1>4. SumSteps[<<c * u, two>>] = c * u + d BY <1>3, SumStepFacts
  <1>5. \A pieces : Quantity(pieces) = Read(SumSteps, 0, pieces)
    BY DEF Quantity, SumSteps, Piece
  <1> HIDE DEF one, two
  <1> DEFINE total == c * u
  <1>20. IsStep(SumSteps, Nat, Piece) /\ total \in Nat /\ 0 \in Nat BY <1>3, SumStepFacts
  <1>6. Read(SumSteps, 0, <<one>>) = SumSteps[<<0, one>>]
    <2>1. one \in Piece BY <1>1
    <2> QED BY <1>20, <2>1, ReadOne
  <1>7. Read(SumSteps, total, <<two>>) = SumSteps[<<total, two>>]
    <2>1. two \in Piece BY <1>1
    <2> HIDE DEF total
    <2> QED BY <1>20, <2>1, ReadOne
  <1>8. first \in Seq(Piece) /\ second \in Seq(Piece) /\ Append(first, two) = first \o second
    <2>1. first \in Seq(Piece) /\ second \in Seq(Piece) BY <1>1
    <2> HIDE DEF first
    <2> QED BY <1>1, <2>1, AppendIsConcat
  <1>9. Read(SumSteps, 0, first) = c * u BY <1>2, <1>3, <1>6
  <1>10. Read(SumSteps, c * u, second) = c * u + d BY <1>4, <1>7
  <1> HIDE DEF first, second
  <1>11. Read(SumSteps, 0, first \o second) = Read(SumSteps, Read(SumSteps, 0, first), second)
    <2>1. IsSequence(first, Piece) /\ IsSequence(second, Piece) BY <1>8 DEF IsSequence
    <2>2. IsStep(SumSteps, Nat, Piece) /\ 0 \in Nat BY <1>20
    <2> QED BY <2>1, <2>2, ReadTwo
  <1>12. Quantity(first) = c * u BY <1>5, <1>9
  <1>13. Quantity(Append(first, two)) = c * u + d BY <1>5, <1>8, <1>9, <1>10, <1>11
  <1> QED BY <1>12, <1>13 DEF first, one, two

\* The largest number is one.
LEMMA LargestFacts == Largest \in Nat /\ Largest >= 1
BY DEF Largest, HundredMillion

\* formatKanjiQuantity shows what a law writes.
LEMMA QuantityRead ==
    ASSUME NEW n \in 1 .. Largest
    PROVE  Quantity(FormatKanjiQuantity(Written(n))) = n
  <1>0. n \in Nat /\ n <= Largest /\ n # 0 BY LargestFacts
  <1>1. <<>> \in Seq(Piece) /\ <<>> \in Seq(Nat) OBVIOUS
  <1> DEFINE none == W(<<>>, <<>>)
  <1>2. none \in Work BY <1>1, WFacts
  <1>3. ASSUME NEW m \in 1 .. Myriad - 1
        PROVE  /\ m \in 0 .. Myriad - 1 /\ ToKanji[m] # <<>> /\ ToKanji[m] \in Seq(Nat)
               /\ KanjiToArabic(ToKanji[m]) = m /\ m \in Nat
    <2>1. m \in 0 .. Myriad - 1 /\ m \in Nat BY MyriadFacts
    <2> QED BY <2>1, ToKanjiIsSome, KanjiAreNumbers, ArabicKanji
  <1>4. ASSUME NEW s \in Seq(Piece), NEW m \in 0 .. Myriad - 1
        PROVE  Read(ScaleSteps, W(s, <<>>), ToKanji[m]) = W(s, ToKanji[m])
    BY KanjiAreNumbers, Collects
  <1>5. CASE n < Myriad
    <2>1. n \in 1 .. Myriad - 1 /\ n \in 0 .. Myriad - 1 BY <1>0, <1>5, MyriadFacts
    <2>2. Written(n) = ToKanji[n] BY <1>5 DEF Written
    <2>3. Read(ScaleSteps, W(<<>>, <<>>), ToKanji[n]) = W(<<>>, ToKanji[n]) BY <1>1, <1>4, <2>1
    <2>4. FormatKanjiQuantity(Written(n)) = Append(<<>>, <<KanjiToArabic(ToKanji[n]), 1>>)
      BY <1>3, <2>1, <2>2, <2>3, FormatUnfolded
    <2>5. KanjiToArabic(ToKanji[n]) = n BY <1>3, <2>1
    <2>6. Append(<<>>, <<n, 1>>) = <<<<n, 1>>>> OBVIOUS
    <2>7. Quantity(<<<<n, 1>>>>) = n * 1 BY <1>0, QuantityFacts
    <2> QED BY <1>0, <2>4, <2>5, <2>6, <2>7
  <1>6. CASE n >= Myriad
    <2> DEFINE a == n \div Myriad
               b == n % Myriad
               q == ToKanji[a]
               r == ToKanji[b]
    <2>1. a \in 1 .. Myriad - 1 /\ b \in 0 .. Myriad - 1 /\ n = a * Myriad + b
      BY <1>0, <1>6, MyriadSplit
    <2>2. Written(n) = q \o <<Myriad>> \o r
      <3>1. ~(n < Myriad) BY <1>0, <1>6, MyriadFacts
      <3> QED BY <3>1 DEF Written
    <2> HIDE DEF a, b
    <2>3. /\ q # <<>> /\ q \in Seq(Nat) /\ KanjiToArabic(q) = a /\ a \in Nat
          /\ Read(ScaleSteps, none, q) = W(<<>>, q)
      BY <1>1, <1>3, <1>4, <2>1
    <2> DEFINE head == <<a, Myriad>>
               shown == <<head>>
               sign == <<Myriad>>
               half == q \o sign
    <2>4. head \in Piece /\ ScaleSteps[<<W(<<>>, q), Myriad>>] = W(Append(<<>>, head), <<>>)
      BY <1>1, <2>3, AtScale
    <2>5. Append(<<>>, head) = shown /\ shown \in Seq(Piece)
      <3> HIDE DEF head
      <3> QED BY <2>4
    <2>6. Read(ScaleSteps, W(shown, <<>>), r) = W(shown, r) BY <1>4, <2>1, <2>5
    <2>7. r \in Seq(Nat) BY <2>1, KanjiAreNumbers
    <2> HIDE DEF q, r, none, shown, head
    <2>8. Read(ScaleSteps, none, half) = W(shown, <<>>)
      <3>1. sign \in Seq(Nat) BY MyriadFacts
      <3>2. W(<<>>, q) \in Work BY <1>1, <2>3, WFacts
      <3>3. Read(ScaleSteps, W(<<>>, q), <<Myriad>>) = ScaleSteps[<<W(<<>>, q), Myriad>>]
        BY <3>2, MyriadFacts, ScaleStepFacts, ReadFew
      <3>4. Read(ScaleSteps, W(<<>>, q), sign) = W(shown, <<>>) BY <2>4, <2>5, <3>3
      <3> HIDE DEF sign, half
      <3>5. Read(ScaleSteps, none, q \o sign) = Read(ScaleSteps, Read(ScaleSteps, none, q), sign)
        BY <1>2, <2>3, <3>1, ScaleStepFacts, ReadJoined
      <3> QED BY <2>3, <3>4, <3>5 DEF half
    <2>9. half \in Seq(Nat) /\ Written(n) = half \o r
      <3>1. sign \in Seq(Nat) BY MyriadFacts
      <3> HIDE DEF sign
      <3>2. q \o sign \in Seq(Nat) BY <2>3, <3>1, ConcatProperties
      <3> QED BY <2>2, <3>2 DEF sign
    <2> HIDE DEF half, sign
    <2>10. Read(ScaleSteps, none, Written(n)) = W(shown, r)
      <3>1. Read(ScaleSteps, none, half \o r) = Read(ScaleSteps, Read(ScaleSteps, none, half), r)
        BY <1>2, <2>7, <2>9, ScaleStepFacts, ReadJoined
      <3> QED BY <2>6, <2>8, <2>9, <3>1
    <2>11. FormatKanjiQuantity(Written(n)) =
               IF r = <<>> THEN shown ELSE Append(shown, <<KanjiToArabic(r), 1>>)
      BY <2>10, FormatUnfolded DEF none
    <2>12. Quantity(shown) = a * Myriad BY <2>3, MyriadFacts, QuantityFacts DEF shown, head
    <2>13. CASE b = 0
      <3>1. r = <<>> BY <2>13, ToKanjiFacts DEF r
      <3>2. FormatKanjiQuantity(Written(n)) = shown BY <2>11, <3>1
      <3>3. a * Myriad \in Nat BY <2>3, MyriadFacts
      <3>4. n = a * Myriad BY <2>1, <2>13, <3>3
      <3> QED BY <2>12, <3>2, <3>4
    <2>14. CASE b # 0
      <3>1. b \in 1 .. Myriad - 1 BY <2>1, <2>14, MyriadFacts
      <3>2. r # <<>> /\ KanjiToArabic(r) = b /\ b \in Nat BY <1>3, <3>1 DEF r
      <3>3. Quantity(Append(shown, <<b, 1>>)) = a * Myriad + b
        BY <2>3, <3>2, MyriadFacts, QuantityFacts DEF shown, head
      <3> QED BY <2>1, <2>11, <3>2, <3>3
    <2> QED BY <2>13, <2>14
  <1> QED BY <1>0, <1>5, <1>6, MyriadFacts

\* The number at hand is one a law writes with one myriad.
NumeralsInv == number \in 0 .. Largest

\* Each of the readers reads such a number.
LEMMA NumeralsHold == NumeralsInv => NumeralsReadBack
  <1> SUFFICES ASSUME NumeralsInv, number > 0 PROVE NumeralsReadBack
    BY DEF NumeralsReadBack
  <1>1. PICK n \in 1 .. Largest : n = number BY LargestFacts DEF NumeralsInv
  <1>2. n \in Nat /\ n <= Largest /\ n >= 1 BY LargestFacts
  <1>3. n < Myriad => ServerReading(ToKanji[n]) = n
    <2>1. n < Myriad => n \in 1 .. Myriad - 1 BY <1>2, MyriadFacts
    <2> QED BY <2>1, ServerReadsKanji
  <1>4. ServerReading(Digits[n]) = n BY <1>2, ServerReadsDigits
  <1>5. KanjiToArabic(Written(n)) = n /\ KanjiToArabic(Digits[n]) = n
    BY <1>2, ArabicWritten, ArabicDigits
  <1> DEFINE w == Written(n)
             d == Digits[n]
  <1>6. NormalizeArticleNumber(<<w, d>>) = <<n, n>>
    <2>1. KanjiToArabic(w) = n /\ KanjiToArabic(d) = n BY <1>5
    <2> HIDE DEF w, d
    <2> QED BY <2>1 DEF NormalizeArticleNumber
  <1>7. FormatFraction(w, d) = <<n, n>> BY <1>5 DEF FormatFraction
  <1>8. Quantity(FormatKanjiQuantity(Written(n))) = n BY QuantityRead
  <1> QED BY <1>1, <1>3, <1>4, <1>6, <1>7, <1>8 DEF NumeralsReadBack

(***************************************************************************)
(* Whoever reads a number of a law, below a hundred million and in either  *)
(* notation, reads that number: the slug of an appendix (kanjiToNumber),   *)
(* the number of an article (normalizeArticleNumber), and the quantities   *)
(* and fractions shown in the text (formatKanjiQuantity, formatFraction).  *)
(***************************************************************************)
THEOREM NumeralsAlwaysReadBack == NumeralsSpec => []NumeralsReadBack
  <1>1. NumeralsInit => NumeralsInv BY LargestFacts DEF NumeralsInit, NumeralsInv
  <1>2. NumeralsInv /\ [NumeralsNext]_number => NumeralsInv'
    <2>1. 1 .. MaxNumber \subseteq 0 .. Largest
      <3>1. MaxNumber \in 0 .. Largest BY NumeralsAssumption DEF Largest
      <3> QED BY <3>1, LargestFacts
    <2> QED BY <2>1 DEF NumeralsNext, NumeralsInv
  <1> QED BY <1>1, <1>2, NumeralsHold, PTL DEF NumeralsSpec

-----------------------------------------------------------------------------
(* The paths of a statute.                                                   *)

\* A step of a path, and an element as Visit writes it down.
PathStep == [part : Tags \cup {"appdx"}, name : Seq(Int)]

\* What an element can be.
Roles == {"walk", "article", "paragraph", "item", "appendix", "lost", "text"}

Placed == [parent : Nat, tag : Tags, name : Seq(Nat), role : Roles, path : Seq(PathStep)]

\* What an appendix was named after: the provisions, and the appendices of its
\* title, that were met before it.
MetBefore(i) == {j \in Provisions : j < i}

\* The appendices of its title, met before it.
SeenBefore(i) ==
    {j \in DOMAIN elements : /\ j < i
                             /\ elements[j].role = "appendix"
                             /\ elements[j].tag = elements[i].tag
                             /\ elements[j].name = elements[i].name}

\* The step an appendix adds: its title says a number, or what was met before
\* counts.
AppendixStepOf(i) ==
    IF elements[i].name = <<>> THEN [part |-> "appdx", name |-> <<Cardinality(MetBefore(i))>>]
    ELSE [part |-> elements[i].tag,
          name |-> KanjiToNumber(elements[i].name)
                   \o (IF SeenBefore(i) = {} THEN <<>> ELSE <<Cardinality(SeenBefore(i)) + 1>>)]

\* The step that an element with a number adds.
StepOf(i) == [part |-> elements[i].tag, name |-> NumberOf(elements[i])]

\* The element it stands in.
Above(i) == At(elements[i].parent)

\* The path of an element is that of its parent and the step it adds; a
\* chapter adds none.
IsPlaced(i) ==
    /\ elements[i].parent \in 0 .. i - 1
    /\ elements[i].name \in (IF elements[i].tag \in AppendixTags THEN Titles ELSE Nums)
    /\ elements[i].role = RoleUnder(Above(i), elements[i].tag)
    /\ elements[i].role = "walk" => elements[i].path = Above(i).path \o SupplStep(elements[i])
    /\ elements[i].role = "appendix" => elements[i].path = Append(Above(i).path, AppendixStepOf(i))
    /\ elements[i].role \in {"article", "paragraph", "item"} =>
           elements[i].path = Append(Above(i).path, StepOf(i))

\* The inductive invariant: every element is placed, and what is open stands
\* in the statute.
PathsInv ==
    /\ elements \in Seq(Placed)
    /\ open \in Seq(Nat)
    /\ \A d \in DOMAIN open : open[d] \in 1 .. Len(elements)
    /\ \A i \in DOMAIN elements : IsPlaced(i)

\* At the start nothing is placed.
LEMMA PathsStart == PathsInit => PathsInv
BY DEF PathsInit, PathsInv

\* A record that stands in the statute, and its parts.
LEMMA PlacedFacts ==
    ASSUME elements \in Seq(Placed), NEW i \in 1 .. Len(elements)
    PROVE  /\ elements[i] \in Placed
           /\ elements[i].tag \in Tags
           /\ elements[i].name \in Seq(Nat)
           /\ elements[i].role \in Roles
           /\ elements[i].path \in Seq(PathStep)
           /\ At(i) = elements[i]
  <1>1. elements[i] \in Placed OBVIOUS
  <1>2. At(i) = elements[i] BY DEF At
  <1> QED BY <1>1, <1>2 DEF Placed

\* The root of the statute.
LEMMA RootFacts ==
    /\ At(0) = Root
    /\ Root.role = "walk" /\ Root.tag = "group" /\ Root.path = <<>> /\ Root.path \in Seq(PathStep)
BY DEF At, Root

\* The root and every element have a path and a role.
LEMMA AtTyped ==
    ASSUME elements \in Seq(Placed), NEW i \in 0 .. Len(elements)
    PROVE  At(i).path \in Seq(PathStep) /\ At(i).role \in Roles
  <1>1. CASE i = 0 BY <1>1, RootFacts DEF Roles
  <1>2. CASE i # 0
    <2>1. i \in 1 .. Len(elements) BY <1>2
    <2> QED BY <2>1, PlacedFacts
  <1> QED BY <1>1, <1>2

\* What an element is named with is a numeral.
LEMMA NamesAreNumbers ==
    ASSUME NEW e, e.tag \in Tags, e.name \in (IF e.tag \in AppendixTags THEN Titles ELSE Nums)
    PROVE  /\ e.name \in Seq(Nat) /\ e.name \in Seq(Int)
           /\ e.tag \in AppendixTags => e.name \in Seq(0 .. Myriad - 1)
           /\ NumberOf(e) \in Seq(Int)
  <1>1. e.name \in Nums \/ (e.name \in Titles /\ e.tag \in AppendixTags) OBVIOUS
  <1>2. e.name \in Seq(Nat)
    <2>1. CASE e.name \in Nums BY <2>1, ProvisionAssumption
    <2>2. CASE e.name \in Titles
      <3>1. e.name \in Seq(0 .. Myriad - 1) BY <2>2, ProvisionAssumption
      <3>2. 0 .. Myriad - 1 \subseteq Nat BY MyriadFacts
      <3> QED BY <3>1, <3>2, SeqMonotonic
    <2> QED BY <1>1, <2>1, <2>2
  <1>3. e.name \in Seq(Int)
    <2>1. Nat \subseteq Int OBVIOUS
    <2> QED BY <1>2, <2>1, SeqMonotonic
  <1>4. e.tag \in AppendixTags => e.name \in Seq(0 .. Myriad - 1) BY ProvisionAssumption
  <1>5. NumberOf(e) \in Seq(Int)
    <2>1. <<1>> \in Seq(Int) OBVIOUS
    <2> QED BY <1>3, <2>1 DEF NumberOf
  <1> QED BY <1>2, <1>3, <1>4, <1>5

\* A title is read as a number or as none.
LEMMA KanjiToNumberTyped ==
    ASSUME NEW title \in Seq(0 .. Myriad - 1)
    PROVE  KanjiToNumber(title) \in Seq(Int)
  <1>1. \A n \in 0 .. Myriad - 1 : ServerReading(ToKanji[n]) \in Int
    <2>1. \A n \in 0 .. Myriad - 1 : n = 0 \/ n \in 1 .. Myriad - 1 BY MyriadFacts
    <2>2. NoNumber \in Int BY DEF NoNumber
    <2>3. \A n \in 1 .. Myriad - 1 : n \in Int BY MyriadFacts
    <2> QED BY <2>1, <2>2, <2>3, ServerReadsKanji
  <1> DEFINE small == 0 .. Myriad - 1
             number_(n) == ServerReading(ToKanji[n])
  <1>2. title \in Seq(small) /\ \A n \in small : number_(n) \in Int BY <1>1
  <1>3. KanjiToNumber(title) = [k \in 1 .. Len(title) |-> number_(title[k])]
    <2>1. DOMAIN title = 1 .. Len(title) OBVIOUS
    <2> QED BY <2>1 DEF KanjiToNumber
  <1> HIDE DEF small, number_
  <1>4. \A k \in 1 .. Len(title) : number_(title[k]) \in Int BY <1>2
  <1>5. Len(title) \in Nat BY <1>2
  <1>6. [k \in 1 .. Len(title) |-> number_(title[k])] \in [1 .. Len(title) -> Int] BY <1>4
  <1> QED BY <1>3, <1>5, <1>6, SeqDef

\* A finite number of provisions was met before an element.
LEMMA FewBefore ==
    ASSUME elements \in Seq(Placed), NEW S \in SUBSET DOMAIN elements
    PROVE  IsFiniteSet(S) /\ Cardinality(S) \in Nat
  <1>1. IsFiniteSet(DOMAIN elements)
    <2>1. DOMAIN elements = 1 .. Len(elements) /\ Len(elements) \in Nat OBVIOUS
    <2> QED BY <2>1, FS_Interval
  <1> QED BY <1>1, FS_Subset, FS_CardinalityType

\* The step that an element adds to the path of its parent.
LEMMA AppendixStepTyped ==
    ASSUME elements \in Seq(Placed), NEW e, e.tag \in AppendixTags, e.name \in Titles
    PROVE  AppendixStep(e) \in PathStep
  <1>1. e.tag \in Tags BY DEF Tags, AppendixTags
  <1>2. e.name \in Seq(0 .. Myriad - 1) BY ProvisionAssumption
  <1>3. KanjiToNumber(e.name) \in Seq(Int) BY <1>2, KanjiToNumberTyped
  <1> DEFINE many == Cardinality(Provisions)
             again == Cardinality(SlugSeen(e))
  <1>4. many \in Nat /\ again \in Nat
    <2>1. Provisions \in SUBSET DOMAIN elements /\ SlugSeen(e) \in SUBSET DOMAIN elements
      BY DEF Provisions, SlugSeen
    <2> QED BY <2>1, FewBefore
  <1>5. AppendixStep(e) = IF e.name = <<>> THEN [part |-> "appdx", name |-> <<many>>]
                          ELSE [part |-> e.tag,
                                name |-> KanjiToNumber(e.name)
                                         \o (IF SlugSeen(e) = {} THEN <<>> ELSE <<again + 1>>)]
    BY DEF AppendixStep
  <1> HIDE DEF many, again
  <1>6. <<many>> \in Seq(Int) /\ <<again + 1>> \in Seq(Int) /\ <<>> \in Seq(Int) BY <1>4
  <1> DEFINE behind == IF SlugSeen(e) = {} THEN <<>> ELSE <<again + 1>>
             read == KanjiToNumber(e.name)
  <1>7. behind \in Seq(Int) BY <1>6
  <1> HIDE DEF behind, read
  <1>8. read \o behind \in Seq(Int)
    <2>1. read \in Seq(Int) BY <1>3 DEF read
    <2> QED BY <1>7, <2>1, ConcatProperties
  <1>9. AppendixStep(e) = IF e.name = <<>> THEN [part |-> "appdx", name |-> <<many>>]
                          ELSE [part |-> e.tag, name |-> read \o behind]
    BY <1>5 DEF read, behind
  <1> QED BY <1>1, <1>6, <1>8, <1>9 DEF PathStep

\* What an element is, by its parent and its tag.
LEMMA RoleUnderFacts ==
    ASSUME NEW parent, NEW tag \in Tags
    PROVE  /\ RoleUnder(parent, tag) \in Roles
           /\ RoleUnder(parent, tag) = "walk" =>
                 parent.role = "walk" /\ tag \notin AppendixTags \cup {"article", "paragraph"}
           /\ RoleUnder(parent, tag) = "appendix" => parent.role = "walk" /\ tag \in AppendixTags
           /\ RoleUnder(parent, tag) = "article" => parent.role = "walk" /\ tag = "article"
           /\ RoleUnder(parent, tag) = "paragraph" =>
                 parent.role \in {"walk", "article"} /\ tag = "paragraph"
           /\ RoleUnder(parent, tag) = "item" =>
                 parent.role \in {"paragraph", "item"} /\ tag = "item"
  <1>1. CASE parent.role = "walk" BY <1>1 DEF RoleUnder, Roles
  <1>2. CASE parent.role = "article" BY <1>2 DEF RoleUnder, Roles
  <1>3. CASE parent.role = "paragraph" BY <1>3 DEF RoleUnder, Roles
  <1>4. CASE parent.role = "item" BY <1>4 DEF RoleUnder, Roles
  <1>5. CASE parent.role = "lost" BY <1>5 DEF RoleUnder, Roles
  <1>6. CASE parent.role \notin {"walk", "article", "paragraph", "item", "lost"}
    <2>1. RoleUnder(parent, tag) = "text" BY <1>6 DEF RoleUnder
    <2> QED BY <2>1 DEF Roles
  <1> QED BY <1>1, <1>2, <1>3, <1>4, <1>5, <1>6

\* The path of an element, by what it is.
LEMMA PathUnderFacts ==
    ASSUME NEW parent, NEW e
    PROVE  /\ PathUnder(parent, e, "walk") = parent.path \o SupplStep(e)
           /\ PathUnder(parent, e, "appendix") = Append(parent.path, AppendixStep(e))
           /\ \A role \in {"article", "paragraph", "item"} :
                 PathUnder(parent, e, role)
                     = Append(parent.path, [part |-> e.tag, name |-> NumberOf(e)])
           /\ \A role \in {"lost", "text"} : PathUnder(parent, e, role) = <<>>
BY DEF PathUnder

\* A path is a sequence of steps.
LEMMA PathUnderTyped ==
    ASSUME elements \in Seq(Placed), NEW parent, parent.path \in Seq(PathStep), NEW e \in Elements
    PROVE  PathUnder(parent, e, RoleUnder(parent, e.tag)) \in Seq(PathStep)
  <1> DEFINE role == RoleUnder(parent, e.tag)
             own == [part |-> e.tag, name |-> NumberOf(e)]
  <1>1. e.tag \in Tags /\ e.name \in (IF e.tag \in AppendixTags THEN Titles ELSE Nums)
    BY DEF Elements
  <1>2. own \in PathStep /\ [part |-> "suppl", name |-> e.name] \in PathStep
    <2>1. NumberOf(e) \in Seq(Int) /\ e.name \in Seq(Int) BY <1>1, NamesAreNumbers
    <2> QED BY <1>1, <2>1 DEF PathStep, Tags
  <1>3. role \in Roles BY <1>1, RoleUnderFacts
  <1>4. CASE role = "walk"
    <2>1. PathUnder(parent, e, role) = parent.path \o SupplStep(e) BY <1>4, PathUnderFacts
    <2>2. SupplStep(e) \in Seq(PathStep)
      <3> DEFINE suppl == [part |-> "suppl", name |-> e.name]
      <3>1. suppl \in PathStep BY <1>2
      <3>2. SupplStep(e) = IF e.tag = "suppl" THEN <<suppl>> ELSE <<>> BY DEF SupplStep
      <3> HIDE DEF suppl
      <3>3. <<suppl>> \in Seq(PathStep) /\ <<>> \in Seq(PathStep) BY <3>1
      <3> QED BY <3>2, <3>3
    <2>3. parent.path \o SupplStep(e) \in Seq(PathStep) BY <2>2, ConcatProperties
    <2> QED BY <2>1, <2>3
  <1>5. CASE role = "appendix"
    <2>1. PathUnder(parent, e, role) = Append(parent.path, AppendixStep(e))
      BY <1>5, PathUnderFacts
    <2>2. e.tag \in AppendixTags BY <1>1, <1>5, RoleUnderFacts
    <2>3. AppendixStep(e) \in PathStep BY <1>1, <2>2, AppendixStepTyped
    <2>4. Append(parent.path, AppendixStep(e)) \in Seq(PathStep) BY <2>3, AppendProperties
    <2> QED BY <2>1, <2>4
  <1>6. CASE role \in {"article", "paragraph", "item"}
    <2>1. PathUnder(parent, e, role) = Append(parent.path, own) BY <1>6, PathUnderFacts
    <2>2. Append(parent.path, own) \in Seq(PathStep)
      <3>1. own \in PathStep BY <1>2
      <3> HIDE DEF own
      <3> QED BY <3>1, AppendProperties
    <2> QED BY <2>1, <2>2
  <1>7. CASE role \in {"lost", "text"}
    <2>1. PathUnder(parent, e, role) = <<>> BY <1>7, PathUnderFacts
    <2> QED BY <2>1
  <1> QED BY <1>3, <1>4, <1>5, <1>6, <1>7 DEF Roles

\* The element that Visit writes down, and what stays where it is.
LEMMA VisitFacts ==
    ASSUME PathsInv, NEW d \in 0 .. Len(open), NEW e \in Elements, Visit(d, e)
    PROVE  \E p \in 0 .. Len(elements), new \in Placed :
              /\ new = [parent |-> p, tag |-> e.tag, name |-> e.name,
                        role |-> RoleUnder(At(p), e.tag),
                        path |-> PathUnder(At(p), e, RoleUnder(At(p), e.tag))]
              /\ elements' = Append(elements, new)
              /\ open' = Append(SubSeq(open, 1, d), Len(elements) + 1)
  <1> DEFINE p == IF d = 0 THEN 0 ELSE open[d]
             role == RoleUnder(At(p), e.tag)
             path == PathUnder(At(p), e, role)
             new == [parent |-> p, tag |-> e.tag, name |-> e.name, role |-> role, path |-> path]
  <1>1. elements \in Seq(Placed) /\ open \in Seq(Nat) BY DEF PathsInv
  <1>2. p \in 0 .. Len(elements)
    <2>1. CASE d = 0 BY <1>1, <2>1
    <2>2. CASE d # 0
      <3>1. d \in DOMAIN open BY <1>1, <2>2
      <3>2. open[d] \in 1 .. Len(elements) BY <3>1 DEF PathsInv
      <3> QED BY <2>2, <3>2
    <2> QED BY <2>1, <2>2
  <1>3. e.tag \in Tags /\ e.name \in Seq(Nat)
    <2>1. e.tag \in Tags /\ e.name \in (IF e.tag \in AppendixTags THEN Titles ELSE Nums)
      BY DEF Elements
    <2> QED BY <2>1, NamesAreNumbers
  <1>4. elements' = Append(elements, new) /\ open' = Append(SubSeq(open, 1, d), Len(elements) + 1)
    BY DEF Visit
  <1> HIDE DEF p
  <1>5. At(p).path \in Seq(PathStep) BY <1>1, <1>2, AtTyped
  <1>6. role \in Roles BY <1>3, RoleUnderFacts
  <1>7. path \in Seq(PathStep) BY <1>1, <1>5, PathUnderTyped
  <1>8. p \in Nat BY <1>1, <1>2
  <1>9. new \in Placed
    <2> HIDE DEF role, path
    <2> QED BY <1>3, <1>6, <1>7, <1>8 DEF Placed
  <1> QED BY <1>2, <1>4, <1>9

\* What was written down before a step is not touched by it.
LEMMA Undisturbed ==
    ASSUME PathsInv, NEW new \in Placed, elements' = Append(elements, new),
           NEW n \in Nat, n = Len(elements)
    PROVE  /\ elements' \in Seq(Placed) /\ Len(elements') = n + 1
           /\ \A i \in 1 .. n : elements'[i] = elements[i]
           /\ elements'[n + 1] = new
           /\ \A i \in 0 .. n : At(i)' = At(i)
           /\ \A i \in 1 .. n : MetBefore(i)' = MetBefore(i) /\ SeenBefore(i)' = SeenBefore(i)
           /\ MetBefore(n + 1)' = Provisions
           /\ SeenBefore(n + 1)' = SlugSeen(new)
  <1>1. elements \in Seq(Placed) BY DEF PathsInv
  <1>2. /\ elements' \in Seq(Placed) /\ Len(elements') = n + 1
        /\ \A i \in 1 .. n : elements'[i] = elements[i]
        /\ elements'[n + 1] = new
    BY <1>1, AppendProperties
  <1>3. DOMAIN elements = 1 .. n /\ DOMAIN elements' = 1 .. n + 1 BY <1>1, <1>2
  <1>4. \A i \in 0 .. n : At(i)' = At(i) BY <1>1, <1>2 DEF At
  <1>5. ASSUME NEW i \in 1 .. n + 1 PROVE MetBefore(i)' = {j \in Provisions : j < i}
    <2>1. \A j \in 1 .. n : j \in Provisions' <=> j \in Provisions
      BY <1>1, <1>2, <1>3 DEF Provisions
    <2>2. Provisions \subseteq 1 .. n /\ Provisions' \subseteq 1 .. n + 1
      BY <1>3 DEF Provisions
    <2>3. \A j \in 1 .. n + 1 : j < i => j \in 1 .. n OBVIOUS
    <2>4. {j \in Provisions' : j < i} = {j \in Provisions : j < i} BY <2>1, <2>2, <2>3
    <2> QED BY <2>4 DEF MetBefore
  <1>6. \A i \in 1 .. n : MetBefore(i)' = MetBefore(i)
    <2>1. \A i \in 1 .. n : i \in 1 .. n + 1 OBVIOUS
    <2> QED BY <1>5, <2>1 DEF MetBefore
  <1>7. MetBefore(n + 1)' = Provisions
    <2>1. n + 1 \in 1 .. n + 1 OBVIOUS
    <2>2. \A j \in Provisions : j < n + 1 BY <1>3 DEF Provisions
    <2>3. {j \in Provisions : j < n + 1} = Provisions BY <2>2
    <2> QED BY <1>5, <2>1, <2>3
  <1>8. \A j \in 1 .. n + 1 : j < n + 1 <=> j \in 1 .. n OBVIOUS
  <1>9. ASSUME NEW i \in 1 .. n PROVE SeenBefore(i)' = SeenBefore(i)
    <2>1. \A j \in 1 .. n + 1 : j < i => j \in 1 .. n OBVIOUS
    <2>2. \A j \in 1 .. n : elements'[j] = elements[j] /\ j \in 1 .. n + 1 BY <1>2
    <2>3. elements'[i] = elements[i] BY <1>2
    <2> QED BY <1>3, <2>1, <2>2, <2>3 DEF SeenBefore
  <1>10. SeenBefore(n + 1)' = SlugSeen(new)
    <2>1. \A j \in 1 .. n : elements'[j] = elements[j] /\ j \in 1 .. n + 1 BY <1>2
    <2> QED BY <1>2, <1>3, <1>8, <2>1 DEF SeenBefore, SlugSeen
  <1> QED BY <1>2, <1>4, <1>6, <1>7, <1>9, <1>10

\* A step keeps the invariant: what was met before an element does not
\* change.
LEMMA PathsKeep == PathsInv /\ [PathsNext]_pathVars => PathsInv'
  <1> SUFFICES ASSUME PathsInv, [PathsNext]_pathVars PROVE PathsInv' OBVIOUS
  <1>1. ASSUME NEW d \in 0 .. Len(open), NEW e \in Elements, Visit(d, e) PROVE PathsInv'
    <2>1. PICK p \in 0 .. Len(elements), new \in Placed :
              /\ new = [parent |-> p, tag |-> e.tag, name |-> e.name,
                        role |-> RoleUnder(At(p), e.tag),
                        path |-> PathUnder(At(p), e, RoleUnder(At(p), e.tag))]
              /\ elements' = Append(elements, new)
              /\ open' = Append(SubSeq(open, 1, d), Len(elements) + 1)
      BY <1>1, VisitFacts
    <2>2. PICK n \in Nat : n = Len(elements) BY DEF PathsInv
    <2>3. /\ elements' \in Seq(Placed) /\ Len(elements') = n + 1
          /\ \A i \in 1 .. n : elements'[i] = elements[i]
          /\ elements'[n + 1] = new
          /\ \A i \in 0 .. n : At(i)' = At(i)
          /\ \A i \in 1 .. n : MetBefore(i)' = MetBefore(i) /\ SeenBefore(i)' = SeenBefore(i)
          /\ MetBefore(n + 1)' = Provisions
          /\ SeenBefore(n + 1)' = SlugSeen(new)
      BY <2>1, <2>2, Undisturbed
    <2>4. open' \in Seq(Nat) /\ \A c \in DOMAIN open' : open'[c] \in 1 .. Len(elements')
      <3>1. open \in Seq(Nat) /\ \A c \in 1 .. Len(open) : open[c] \in 1 .. n
        BY <2>2 DEF PathsInv
      <3> DEFINE rest == SubSeq(open, 1, d)
      <3>2. rest \in Seq(Nat) /\ Len(rest) = d /\ \A c \in 1 .. d : rest[c] = open[c]
        BY <3>1
      <3> HIDE DEF rest
      <3>3. open' = Append(rest, n + 1) BY <2>1, <2>2 DEF rest
      <3>4. open' \in Seq(Nat) /\ Len(open') = d + 1 /\ open'[d + 1] = n + 1
            /\ \A c \in 1 .. d : open'[c] = open[c]
        BY <3>2, <3>3, AppendProperties
      <3>5. ASSUME NEW c \in 1 .. d + 1 PROVE open'[c] \in 1 .. n + 1
        <4>1. CASE c = d + 1 BY <3>4, <4>1
        <4>2. CASE c # d + 1
          <5>1. c \in 1 .. d /\ c \in 1 .. Len(open) BY <3>1, <4>2
          <5>2. open'[c] \in 1 .. n BY <3>1, <3>4, <5>1
          <5> QED BY <5>2
        <4> QED BY <4>1, <4>2
      <3> QED BY <2>3, <3>4, <3>5
    <2>5. ASSUME NEW i \in 1 .. n PROVE IsPlaced(i)'
      <3>1. IsPlaced(i) BY <2>2 DEF PathsInv
      <3>2. elements'[i] = elements[i] BY <2>3
      <3>3. Above(i)' = Above(i)
        <4>1. elements[i].parent \in 0 .. n BY <3>1 DEF IsPlaced
        <4> DEFINE q == elements[i].parent
        <4>2. PICK c \in 0 .. n : c = elements[i].parent BY <4>1
        <4>3. Above(i) = At(c) /\ Above(i)' = At(c)' BY <3>2, <4>2 DEF Above, At
        <4> QED BY <2>3, <4>3
      <3>4. AppendixStepOf(i)' = AppendixStepOf(i)
        <4>1. MetBefore(i)' = MetBefore(i) /\ SeenBefore(i)' = SeenBefore(i) BY <2>3
        <4> QED BY <3>2, <4>1 DEF AppendixStepOf, KanjiToNumber
      <3>5. StepOf(i)' = StepOf(i) BY <3>2 DEF StepOf, NumberOf
      <3> QED BY <3>1, <3>2, <3>3, <3>4, <3>5 DEF IsPlaced, RoleUnder, SupplStep
    <2>6. IsPlaced(n + 1)'
      <3> DEFINE above == At(p)
      <3>1. /\ new.parent = p /\ new.tag = e.tag /\ new.name = e.name
            /\ new.role = RoleUnder(above, e.tag)
            /\ new.path = PathUnder(above, e, RoleUnder(above, e.tag))
        BY <2>1
      <3>2. Above(n + 1)' = above
        <4>1. Above(n + 1)' = At(p)' BY <2>3, <3>1 DEF Above, At
        <4> QED BY <2>2, <2>3, <4>1
      <3>3. AppendixStepOf(n + 1)' = AppendixStep(e)
        <4>1. SlugSeen(new) = SlugSeen(e) BY <3>1 DEF SlugSeen
        <4> QED BY <2>3, <3>1, <4>1 DEF AppendixStepOf, AppendixStep, KanjiToNumber
      <3>4. StepOf(n + 1)' = [part |-> e.tag, name |-> NumberOf(e)]
        BY <2>3, <3>1 DEF StepOf, NumberOf
      <3>5. SupplStep(new) = SupplStep(e) BY <3>1 DEF SupplStep
      <3>6. e.name \in (IF e.tag \in AppendixTags THEN Titles ELSE Nums) BY DEF Elements
      <3> HIDE DEF above
      <3>7. new.parent \in 0 .. n BY <2>2, <3>1
      <3>8. new.role = "walk" => new.path = above.path \o SupplStep(new)
        BY <3>1, <3>5, PathUnderFacts
      <3>9. new.role = "appendix" => new.path = Append(above.path, AppendixStep(e))
        BY <3>1, PathUnderFacts
      <3>10. new.role \in {"article", "paragraph", "item"} =>
                new.path = Append(above.path, [part |-> e.tag, name |-> NumberOf(e)])
        BY <3>1, PathUnderFacts
      <3>11. elements'[n + 1] = new /\ (n + 1) - 1 = n BY <2>3
      <3>12. new.name \in (IF new.tag \in AppendixTags THEN Titles ELSE Nums)
             /\ new.role = RoleUnder(above, new.tag)
        BY <3>1, <3>6
      <3>13. elements'[n + 1].parent \in 0 .. (n + 1) - 1 BY <3>7, <3>11
      <3> QED BY <3>2, <3>3, <3>4, <3>8, <3>9, <3>10, <3>11, <3>12, <3>13
           DEF IsPlaced, RoleUnder, SupplStep
    <2>7. \A i \in DOMAIN elements' : IsPlaced(i)'
      <3>1. DOMAIN elements' = 1 .. n + 1 BY <2>3
      <3>2. \A i \in 1 .. n + 1 : i = n + 1 \/ i \in 1 .. n OBVIOUS
      <3> QED BY <2>5, <2>6, <3>1, <3>2
    <2> QED BY <2>3, <2>4, <2>7 DEF PathsInv
  <1>2. CASE UNCHANGED pathVars
    <2>1. elements' = elements /\ open' = open BY <1>2 DEF pathVars
    <2>2. ASSUME NEW i \in DOMAIN elements PROVE IsPlaced(i)'
      <3>1. IsPlaced(i) BY DEF PathsInv
      <3>2. Above(i)' = Above(i) BY <2>1 DEF Above, At
      <3>3. MetBefore(i)' = MetBefore(i) /\ SeenBefore(i)' = SeenBefore(i)
        BY <2>1 DEF MetBefore, SeenBefore, Provisions
      <3>4. AppendixStepOf(i)' = AppendixStepOf(i)
        BY <2>1, <3>3 DEF AppendixStepOf, KanjiToNumber
      <3>5. StepOf(i)' = StepOf(i) BY <2>1 DEF StepOf, NumberOf
      <3> QED BY <2>1, <3>1, <3>2, <3>4, <3>5 DEF IsPlaced, RoleUnder, SupplStep
    <2> QED BY <2>1, <2>2 DEF PathsInv
  <1> QED BY <1>1, <1>2 DEF PathsNext

\* So the invariant holds in every reachable state.
LEMMA PathsAlways == PathsSpec => []PathsInv
  <1> QED BY PathsStart, PathsKeep, PTL DEF PathsSpec

-----------------------------------------------------------------------------
(* The numbering an element belongs to.                                      *)

\* What has a path others stand below.
Naming == {"walk", "article", "paragraph", "item"}

\* An element with a number of its own: all below a chapter belongs elsewhere.
IsNumbered(i) == i # 0 /\ (elements[i].role # "walk" \/ elements[i].tag = "suppl")

\* Within, unfolded once; within has the elements above.
WithinOf(within, i) == IF i = 0 \/ elements[i].role # "walk" \/ elements[i].tag = "suppl" THEN i
                       ELSE within[elements[i].parent]

IsWithin(within, k) == within = [i \in 0 .. k |-> WithinOf(within, i)]

\* The recursion of Within has a solution: a parent is met before its
\* children.
LEMMA WithinExists ==
    ASSUME PathsInv
    PROVE  \E within : IsWithin(within, Len(elements))
  <1> DEFINE Good == {k \in 0 .. Len(elements) : \E within : IsWithin(within, k)}
  <1>1. Len(elements) \in Nat BY DEF PathsInv
  <1>2. 0 \in Good
    <2> DEFINE within == [i \in 0 .. 0 |-> 0]
    <2>1. IsWithin(within, 0) BY DEF IsWithin, WithinOf
    <2> HIDE DEF within
    <2> QED BY <1>1, <2>1
  <1>3. ASSUME NEW k \in 1 .. Len(elements), k - 1 \in Good PROVE k \in Good
    <2>1. PICK within : IsWithin(within, k - 1) BY <1>3
    <2> DEFINE more == [i \in 0 .. k |-> IF i = k THEN WithinOf(within, k) ELSE within[i]]
    <2>2. ASSUME NEW i \in 0 .. k PROVE WithinOf(more, i) = WithinOf(within, i)
      <3>1. CASE i = 0 BY <3>1 DEF WithinOf
      <3>2. CASE i # 0
        <4>1. i \in 1 .. Len(elements) BY <1>1, <3>2
        <4>2. elements[i].parent \in 0 .. i - 1 BY <4>1 DEF PathsInv, IsPlaced
        <4>3. elements[i].parent \in 0 .. k - 1 BY <4>2
        <4>4. more[elements[i].parent] = within[elements[i].parent] BY <4>3
        <4> HIDE DEF more
        <4> QED BY <4>4 DEF WithinOf
      <3> QED BY <3>1, <3>2
    <2>3. ASSUME NEW i \in 0 .. k PROVE more[i] = WithinOf(more, i)
      <3>1. CASE i = k BY <2>2, <3>1
      <3>2. CASE i # k
        <4>1. i \in 0 .. k - 1 BY <3>2
        <4>2. more[i] = within[i] BY <3>2
        <4>3. within[i] = WithinOf(within, i) BY <2>1, <4>1 DEF IsWithin
        <4> QED BY <2>2, <4>2, <4>3
      <3> QED BY <3>1, <3>2
    <2>4. IsWithin(more, k)
      <3>1. more = [i \in 0 .. k |-> more[i]] OBVIOUS
      <3> HIDE DEF more
      <3> QED BY <2>3, <3>1 DEF IsWithin
    <2> HIDE DEF more
    <2> QED BY <2>4
  <1> HIDE DEF Good
  <1>4. \A k \in 0 .. Len(elements) : k \in Good BY <1>1, <1>2, <1>3, UpToIsIn
  <1>5. Len(elements) \in Good BY <1>1, <1>4
  <1> QED BY <1>5 DEF Good

\* So Within unfolds.
LEMMA WithinUnfolded ==
    ASSUME PathsInv, NEW i \in 0 .. Len(elements)
    PROVE  Within[i] = WithinOf(Within, i)
  <1>1. Within = CHOOSE within : IsWithin(within, Len(elements))
    BY DEF Within, IsWithin, WithinOf
  <1>2. IsWithin(Within, Len(elements)) BY <1>1, WithinExists
  <1> QED BY <1>2 DEF IsWithin

\* What PathsInv says of one element, in the words of the proof.
LEMMA NamingFacts ==
    ASSUME PathsInv, NEW i \in 1 .. Len(elements), elements[i].role \in Naming
    PROVE  /\ elements[i].parent \in 0 .. i - 1 /\ elements[i].parent \in 0 .. Len(elements)
           /\ Above(i).role \in Naming
           /\ Above(i).path \in Seq(PathStep)
           /\ IF IsNumbered(i)
              THEN /\ elements[i].path = Append(Above(i).path, StepOf(i))
                   /\ StepOf(i) \in PathStep
                   /\ elements[i].tag \notin AppendixTags \cup {"group"}
                   /\ elements[i].role = IF elements[i].tag = "suppl" THEN "walk" ELSE elements[i].tag
                   /\ Within[i] = i
              ELSE /\ elements[i].role = "walk"
                   /\ elements[i].path = Above(i).path
                   /\ Within[i] = Within[elements[i].parent]
  <1>1. elements \in Seq(Placed) /\ IsPlaced(i) BY DEF PathsInv
  <1>2. elements[i].tag \in Tags /\ elements[i].path \in Seq(PathStep) BY <1>1, PlacedFacts
  <1>3. elements[i].parent \in 0 .. i - 1 /\ elements[i].parent \in 0 .. Len(elements)
    BY <1>1 DEF IsPlaced
  <1>4. Above(i).path \in Seq(PathStep) BY <1>1, <1>3, AtTyped DEF Above
  <1>5. elements[i].role = RoleUnder(Above(i), elements[i].tag) BY <1>1 DEF IsPlaced
  <1>6. /\ elements[i].role = "walk" => Above(i).role = "walk"
                /\ elements[i].tag \notin AppendixTags \cup {"article", "paragraph"}
        /\ elements[i].role \in {"article", "paragraph", "item"} =>
                Above(i).role \in Naming /\ elements[i].tag = elements[i].role
    BY <1>2, <1>5, RoleUnderFacts DEF Naming
  <1>7. Above(i).role \in Naming BY <1>6 DEF Naming
  <1>8. Within[i] = WithinOf(Within, i) BY WithinUnfolded
  <1>9. CASE IsNumbered(i)
    <2>1. StepOf(i) \in PathStep
      <3>1. NumberOf(elements[i]) \in Seq(Int) BY <1>1, <1>2, NamesAreNumbers DEF IsPlaced
      <3> QED BY <1>2, <3>1 DEF PathStep, StepOf
    <2>2. Within[i] = i BY <1>8, <1>9 DEF WithinOf, IsNumbered
    <2>3. CASE elements[i].role = "walk"
      <3>1. elements[i].tag = "suppl" BY <1>9, <2>3 DEF IsNumbered
      <3>2. SupplStep(elements[i]) = <<StepOf(i)>> BY <3>1 DEF SupplStep, StepOf, NumberOf
      <3>3. elements[i].path = Above(i).path \o SupplStep(elements[i])
        BY <1>1, <2>3 DEF IsPlaced
      <3>4. Above(i).path \o <<StepOf(i)>> = Append(Above(i).path, StepOf(i))
        BY <1>4, <2>1, AppendIsConcat
      <3>5. elements[i].tag \notin AppendixTags \cup {"group"} BY <3>1 DEF AppendixTags
      <3> QED BY <1>3, <1>4, <1>7, <1>9, <2>1, <2>2, <2>3, <3>1, <3>2, <3>3, <3>4, <3>5
    <2>4. CASE elements[i].role # "walk"
      <3>1. elements[i].role \in {"article", "paragraph", "item"} BY <2>4 DEF Naming
      <3>2. elements[i].path = Append(Above(i).path, StepOf(i)) BY <1>1, <3>1 DEF IsPlaced
      <3>3. elements[i].tag \notin AppendixTags \cup {"group", "suppl"} /\ elements[i].tag = elements[i].role
        BY <1>6, <3>1 DEF AppendixTags
      <3> QED BY <1>3, <1>4, <1>7, <1>9, <2>1, <2>2, <3>2, <3>3
    <2> QED BY <2>3, <2>4
  <1>10. CASE ~ IsNumbered(i)
    <2>1. elements[i].role = "walk" /\ elements[i].tag # "suppl" BY <1>10 DEF IsNumbered
    <2>2. SupplStep(elements[i]) = <<>> BY <2>1 DEF SupplStep
    <2>3. elements[i].path = Above(i).path \o <<>> BY <1>1, <2>1, <2>2 DEF IsPlaced
    <2>4. elements[i].path = Above(i).path BY <1>4, <2>3, ConcatEmptySeq
    <2>5. Within[i] = Within[elements[i].parent] BY <1>8, <2>1 DEF WithinOf
    <2> QED BY <1>3, <1>4, <1>7, <1>10, <2>1, <2>4, <2>5
  <1> QED BY <1>9, <1>10

\* Two paths that are equal have equal fronts and equal last steps.
LEMMA SameLast ==
    ASSUME NEW s \in Seq(PathStep), NEW t \in Seq(PathStep), NEW a \in PathStep, NEW b \in PathStep,
           Append(s, a) = Append(t, b)
    PROVE  s = t /\ a = b
  <1>1. Len(Append(s, a)) = Len(s) + 1 /\ Len(Append(t, b)) = Len(t) + 1
    BY AppendProperties
  <1>2. Len(s) = Len(t) BY <1>1
  <1>3. a = b
    <2>1. Append(s, a)[Len(s) + 1] = a /\ Append(t, b)[Len(t) + 1] = b BY AppendProperties
    <2> QED BY <1>2, <2>1
  <1>4. \A k \in 1 .. Len(s) : s[k] = t[k]
    <2>1. \A k \in 1 .. Len(s) : Append(s, a)[k] = s[k] BY AppendProperties
    <2>2. \A k \in 1 .. Len(t) : Append(t, b)[k] = t[k] BY AppendProperties
    <2> QED BY <1>2, <2>1, <2>2
  <1> QED BY <1>2, <1>3, <1>4, SeqEqual

\* Two elements with one path belong to the same numbering.
Agree(i, j) == At(i).role \in Naming /\ At(j).role \in Naming /\ At(i).path = At(j).path
                 => Within[i] = Within[j]

\* By induction on the two places together: with an equal path above, the
\* parents have one numbering.
LEMMA SameWithin ==
    ASSUME PathsInv, ProperlyNumbered
    PROVE  \A i, j \in 0 .. Len(elements) : Agree(i, j)
  <1> DEFINE n == Len(elements)
             Good == {m \in 0 .. n + n : \A i, j \in 0 .. n : i + j <= m => Agree(i, j)}
  <1>1. n \in Nat /\ elements \in Seq(Placed) BY DEF PathsInv
  <1>2. Within[0] = 0 BY <1>1, WithinUnfolded DEF WithinOf
  <1>3. ASSUME NEW i \in 0 .. n, NEW j \in 0 .. n,
               \A v, w \in 0 .. n : v + w < i + j => Agree(v, w)
        PROVE  Agree(i, j)
    <2> SUFFICES ASSUME At(i).role \in Naming, At(j).role \in Naming, At(i).path = At(j).path
                 PROVE  Within[i] = Within[j]
      BY DEF Agree
    <2>1. ASSUME NEW k \in 1 .. n, At(k).role \in Naming
          PROVE  /\ At(k) = elements[k]
                 /\ elements[k].parent \in 0 .. n /\ elements[k].parent < k
                 /\ At(elements[k].parent).role \in Naming
                 /\ At(elements[k].parent).path \in Seq(PathStep)
                 /\ IF IsNumbered(k)
                    THEN /\ elements[k].path = Append(At(elements[k].parent).path, StepOf(k))
                         /\ StepOf(k) \in PathStep
                         /\ elements[k].tag \notin AppendixTags \cup {"group"}
                         /\ elements[k].role = IF elements[k].tag = "suppl" THEN "walk"
                                               ELSE elements[k].tag
                         /\ Within[k] = k
                    ELSE /\ elements[k].path = At(elements[k].parent).path
                         /\ Within[k] = Within[elements[k].parent]
      <3>1. At(k) = elements[k] BY <1>1, PlacedFacts
      <3>2. elements[k].role \in Naming BY <2>1, <3>1
      <3>3. elements[k].parent \in 0 .. k - 1 /\ elements[k].parent \in 0 .. n
        BY <3>2, NamingFacts
      <3>4. elements[k].parent < k BY <3>3
      <3> QED BY <3>1, <3>2, <3>3, <3>4, NamingFacts DEF Above
    <2>2. CASE i # 0 /\ ~ IsNumbered(i)
      <3>1. i \in 1 .. n BY <2>2
      <3> DEFINE p == elements[i].parent
      <3>2. p \in 0 .. n /\ p < i /\ At(p).role \in Naming /\ At(p).path = At(j).path
            /\ Within[i] = Within[p]
        BY <2>1, <2>2, <3>1
      <3> HIDE DEF p
      <3>3. p + j < i + j BY <1>1, <3>2
      <3>4. Agree(p, j) BY <1>3, <3>2, <3>3
      <3> QED BY <3>2, <3>4 DEF Agree
    <2>3. CASE j # 0 /\ ~ IsNumbered(j)
      <3>1. j \in 1 .. n BY <2>3
      <3> DEFINE p == elements[j].parent
      <3>2. p \in 0 .. n /\ p < j /\ At(p).role \in Naming /\ At(p).path = At(i).path
            /\ Within[j] = Within[p]
        BY <2>1, <2>3, <3>1
      <3> HIDE DEF p
      <3>3. i + p < i + j BY <1>1, <3>2
      <3>4. Agree(i, p) BY <1>3, <3>2, <3>3
      <3> QED BY <3>2, <3>4 DEF Agree
    <2>4. ASSUME NEW k \in 1 .. n, At(k).role \in Naming, IsNumbered(k) PROVE At(k).path # <<>>
      <3> DEFINE above == At(elements[k].parent).path
      <3>1. At(k).path = Append(above, StepOf(k)) /\ above \in Seq(PathStep) /\ StepOf(k) \in PathStep
        BY <2>1, <2>4
      <3> HIDE DEF above
      <3> QED BY <3>1, AppendProperties
    <2>5. CASE i = 0 /\ j = 0 BY <2>5
    <2>6. CASE i = 0 /\ IsNumbered(j)
      <3>1. j \in 1 .. n BY <2>6 DEF IsNumbered
      <3> QED BY <2>4, <2>6, <3>1, RootFacts
    <2>7. CASE j = 0 /\ IsNumbered(i)
      <3>1. i \in 1 .. n BY <2>7 DEF IsNumbered
      <3> QED BY <2>4, <2>7, <3>1, RootFacts
    <2>8. CASE IsNumbered(i) /\ IsNumbered(j)
      <3>1. i \in 1 .. n /\ j \in 1 .. n BY <2>8 DEF IsNumbered
      <3> DEFINE p == elements[i].parent
                 q == elements[j].parent
      <3>2. /\ p \in 0 .. n /\ p < i /\ At(p).role \in Naming /\ At(p).path \in Seq(PathStep)
            /\ q \in 0 .. n /\ q < j /\ At(q).role \in Naming /\ At(q).path \in Seq(PathStep)
            /\ At(i).path = Append(At(p).path, StepOf(i)) /\ StepOf(i) \in PathStep
            /\ At(j).path = Append(At(q).path, StepOf(j)) /\ StepOf(j) \in PathStep
        BY <2>1, <2>8, <3>1
      <3>3. elements[i].tag # "group"
            /\ elements[i].role = (IF elements[i].tag = "suppl" THEN "walk" ELSE elements[i].tag)
            /\ elements[j].role = (IF elements[j].tag = "suppl" THEN "walk" ELSE elements[j].tag)
            /\ elements[i].tag \notin AppendixTags
        BY <2>1, <2>8, <3>1
      <3>4. At(p).path = At(q).path /\ StepOf(i) = StepOf(j)
        <4> DEFINE s == At(p).path
                   t == At(q).path
                   a == StepOf(i)
                   b == StepOf(j)
        <4>1. s \in Seq(PathStep) /\ t \in Seq(PathStep) /\ a \in PathStep /\ b \in PathStep BY <3>2
        <4>2. Append(s, a) = Append(t, b) BY <3>2
        <4> HIDE DEF s, t, a, b
        <4>3. s = t /\ a = b BY <4>1, <4>2, SameLast
        <4> QED BY <4>3 DEF s, t, a, b
      <3>5. elements[i].tag = elements[j].tag /\ NumberOf(elements[i]) = NumberOf(elements[j])
        BY <3>4 DEF StepOf
      <3>6. elements[i].role = elements[j].role BY <3>3, <3>5
      <3>7. elements[i].role # "appendix"
        <4>1. elements[i] = At(i) BY <2>1, <2>8, <3>1
        <4> QED BY <4>1 DEF Naming
      <3>8. Within[p] = Within[q]
        <4> HIDE DEF p, q
        <4>0. p \in Nat /\ q \in Nat /\ i \in Nat /\ j \in Nat BY <1>1, <3>1, <3>2
        <4>1. p + q < i + j BY <4>0, <3>2
        <4>2. Agree(p, q) BY <1>3, <3>2, <4>1
        <4> QED BY <3>2, <3>4, <4>2 DEF Agree
      <3>9. i = j
        <4>1. i \in DOMAIN elements /\ j \in DOMAIN elements BY <1>1, <3>1
        <4> QED BY <3>3, <3>5, <3>6, <3>7, <3>8, <4>1 DEF ProperlyNumbered
      <3> QED BY <3>9
    <2> QED BY <2>2, <2>3, <2>5, <2>6, <2>7, <2>8
  <1> HIDE DEF n
  <1>4. 0 \in Good
    <2>1. ASSUME NEW i \in 0 .. n, NEW j \in 0 .. n, i + j <= 0 PROVE Agree(i, j)
      <3>1. i = 0 /\ j = 0 BY <1>1, <2>1
      <3> QED BY <3>1 DEF Agree
    <2> QED BY <1>1, <2>1
  <1>5. ASSUME NEW m \in 1 .. n + n, m - 1 \in Good PROVE m \in Good
    <2>1. ASSUME NEW i \in 0 .. n, NEW j \in 0 .. n, i + j <= m PROVE Agree(i, j)
      <3>1. ASSUME NEW v \in 0 .. n, NEW w \in 0 .. n, v + w < i + j PROVE Agree(v, w)
        <4>1. v + w <= m - 1 BY <1>1, <2>1, <3>1
        <4> QED BY <1>5, <4>1
      <3> QED BY <1>3, <3>1
    <2>2. m \in 0 .. n + n BY <1>1
    <2> QED BY <2>1, <2>2
  <1> HIDE DEF Good
  <1>6. n + n \in Nat BY <1>1
  <1>7. \A m \in 0 .. n + n : m \in Good BY <1>4, <1>5, <1>6, UpToIsIn
  <1>8. n + n \in Good BY <1>6, <1>7
  <1>9. \A i, j \in 0 .. n : i + j <= n + n BY <1>1
  <1> QED BY <1>8, <1>9 DEF Good, n

\* A provision adds a step of its own to the path above it.
LEMMA ProvisionFacts ==
    ASSUME PathsInv, NEW i \in Provisions
    PROVE  /\ i \in 1 .. Len(elements) /\ At(i) = elements[i]
           /\ Above(i).path \in Seq(PathStep)
           /\ \/ /\ elements[i].role = "appendix"
                 /\ elements[i].tag \in AppendixTags /\ elements[i].name \in Titles
                 /\ AppendixStepOf(i) \in PathStep
                 /\ elements[i].path = Append(Above(i).path, AppendixStepOf(i))
              \/ /\ elements[i].role \in {"article", "paragraph", "item"}
                 /\ elements[i].tag = elements[i].role
                 /\ Within[i] = i
                 /\ StepOf(i) \in PathStep
                 /\ elements[i].path = Append(Above(i).path, StepOf(i))
  <1>1. elements \in Seq(Placed) BY DEF PathsInv
  <1>2. i \in 1 .. Len(elements) /\ elements[i].role \in {"article", "paragraph", "item", "appendix"}
    BY <1>1 DEF Provisions
  <1>3. At(i) = elements[i] /\ elements[i].tag \in Tags BY <1>1, <1>2, PlacedFacts
  <1>4. IsPlaced(i) BY <1>1, <1>2 DEF PathsInv
  <1>5. elements[i].parent \in 0 .. Len(elements) BY <1>1, <1>2, <1>4 DEF IsPlaced
  <1>6. Above(i).path \in Seq(PathStep) BY <1>1, <1>5, AtTyped DEF Above
  <1>7. CASE elements[i].role = "appendix"
    <2>1. elements[i].tag \in AppendixTags BY <1>3, <1>4, <1>7, RoleUnderFacts DEF IsPlaced
    <2>2. elements[i].name \in Titles BY <1>4, <2>1 DEF IsPlaced
    <2>3. elements[i].path = Append(Above(i).path, AppendixStepOf(i)) BY <1>4, <1>7 DEF IsPlaced
    <2>4. AppendixStepOf(i) \in PathStep
      <3> DEFINE many == Cardinality(MetBefore(i))
                 again == Cardinality(SeenBefore(i))
                 behind == IF SeenBefore(i) = {} THEN <<>> ELSE <<again + 1>>
                 read == KanjiToNumber(elements[i].name)
      <3>1. many \in Nat /\ again \in Nat
        <4>1. MetBefore(i) \in SUBSET DOMAIN elements /\ SeenBefore(i) \in SUBSET DOMAIN elements
          BY DEF MetBefore, SeenBefore, Provisions
        <4> QED BY <1>1, <4>1, FewBefore
      <3>2. AppendixStepOf(i) = IF elements[i].name = <<>> THEN [part |-> "appdx", name |-> <<many>>]
                                ELSE [part |-> elements[i].tag, name |-> read \o behind]
        BY DEF AppendixStepOf
      <3>3. read \in Seq(Int)
        <4>1. elements[i].name \in Seq(0 .. Myriad - 1) BY <2>2, ProvisionAssumption
        <4> QED BY <4>1, KanjiToNumberTyped
      <3> HIDE DEF many, again, read
      <3>4. <<many>> \in Seq(Int) /\ behind \in Seq(Int)
        <4>1. <<many>> \in Seq(Int) /\ <<again + 1>> \in Seq(Int) /\ <<>> \in Seq(Int) BY <3>1
        <4> QED BY <4>1
      <3> HIDE DEF behind
      <3>5. read \o behind \in Seq(Int) BY <3>3, <3>4, ConcatProperties
      <3> QED BY <1>3, <3>2, <3>4, <3>5 DEF PathStep
    <2> QED BY <1>2, <1>3, <1>6, <1>7, <2>1, <2>2, <2>3, <2>4
  <1>8. CASE elements[i].role # "appendix"
    <2>1. elements[i].role \in {"article", "paragraph", "item"} BY <1>2, <1>8
    <2>2. elements[i].role \in Naming /\ IsNumbered(i) BY <1>2, <2>1 DEF Naming, IsNumbered
    <2>3. /\ Above(i).path \in Seq(PathStep)
          /\ elements[i].path = Append(Above(i).path, StepOf(i)) /\ StepOf(i) \in PathStep
          /\ Within[i] = i
          /\ elements[i].role = IF elements[i].tag = "suppl" THEN "walk" ELSE elements[i].tag
      BY <1>2, <2>2, NamingFacts
    <2>4. elements[i].tag = elements[i].role BY <2>1, <2>3
    <2> QED BY <1>2, <1>3, <2>1, <2>3, <2>4
  <1> QED BY <1>7, <1>8

\* Two untitled appendices are told apart by what was met before them.
LEMMA CountsDiffer ==
    ASSUME PathsInv, NEW i \in Provisions, NEW j \in Provisions, i < j
    PROVE  Cardinality(MetBefore(i)) # Cardinality(MetBefore(j))
  <1>1. elements \in Seq(Placed) BY DEF PathsInv
  <1>2. Provisions \subseteq 1 .. Len(elements) /\ Len(elements) \in Nat BY <1>1 DEF Provisions
  <1>3. MetBefore(i) \cup {i} \subseteq MetBefore(j)
    <2>1. \A k \in Provisions : k < i => k < j BY <1>2
    <2> QED BY <2>1 DEF MetBefore
  <1>4. MetBefore(i) \in SUBSET DOMAIN elements /\ MetBefore(j) \in SUBSET DOMAIN elements
    BY DEF MetBefore, Provisions
  <1>5. IsFiniteSet(MetBefore(i)) /\ IsFiniteSet(MetBefore(j))
        /\ Cardinality(MetBefore(i)) \in Nat /\ Cardinality(MetBefore(j)) \in Nat
    BY <1>1, <1>4, FewBefore
  <1>6. i \notin MetBefore(i) BY <1>2 DEF MetBefore
  <1>7. Cardinality(MetBefore(i) \cup {i}) = Cardinality(MetBefore(i)) + 1
    BY <1>5, <1>6, FS_AddElement
  <1>8. Cardinality(MetBefore(i) \cup {i}) <= Cardinality(MetBefore(j))
    BY <1>3, <1>5, FS_Subset
  <1> QED BY <1>5, <1>7, <1>8

\* Two provisions of one path are one, in a statute that is numbered
\* properly.
LEMMA OneHolder ==
    ASSUME PathsInv, ProperlyNumbered, NEW i \in Provisions, NEW j \in Provisions,
           elements[i].path = elements[j].path
    PROVE  i = j
  <1>1. /\ i \in 1 .. Len(elements) /\ At(i) = elements[i] /\ Above(i).path \in Seq(PathStep)
        /\ j \in 1 .. Len(elements) /\ At(j) = elements[j] /\ Above(j).path \in Seq(PathStep)
    BY ProvisionFacts
  <1> DEFINE own(k) == IF elements[k].role = "appendix" THEN AppendixStepOf(k) ELSE StepOf(k)
             a == own(i)
             b == own(j)
             s == Above(i).path
             t == Above(j).path
  <1>2. /\ a \in PathStep /\ elements[i].path = Append(s, a)
        /\ b \in PathStep /\ elements[j].path = Append(t, b)
    BY ProvisionFacts
  <1>3. a = b
    <2>1. s \in Seq(PathStep) /\ t \in Seq(PathStep) /\ Append(s, a) = Append(t, b) BY <1>1, <1>2
    <2> HIDE DEF s, t, a, b
    <2> QED BY <1>2, <2>1, SameLast
  <1>4. \A k \in {i, j} :
           own(k).part = IF elements[k].role = "appendix" /\ elements[k].name = <<>> THEN "appdx"
                         ELSE elements[k].tag
    BY DEF AppendixStepOf, StepOf
  <1>5. own(i).part = own(j).part BY <1>3
  <1> HIDE DEF own
  <1>6. CASE elements[i].role # "appendix" /\ elements[j].role # "appendix"
    <2>1. /\ elements[i].role \in Naming /\ Within[i] = i
          /\ elements[j].role \in Naming /\ Within[j] = j
      BY <1>6, ProvisionFacts DEF Naming
    <2>2. i \in 0 .. Len(elements) /\ j \in 0 .. Len(elements) BY <1>1
    <2>3. Agree(i, j) BY <2>2, SameWithin
    <2> QED BY <1>1, <2>1, <2>3 DEF Agree
  <1>7. ASSUME NEW k \in {i, j}, NEW m \in {i, j},
               elements[k].role = "appendix", elements[m].role # "appendix"
        PROVE  FALSE
    <2>1. own(k).part \in AppendixTags \cup {"appdx"} BY <1>4, <1>7, ProvisionFacts
    <2>2. own(m).part \in {"article", "paragraph", "item"} BY <1>4, <1>7, ProvisionFacts
    <2> QED BY <1>5, <1>7, <2>1, <2>2 DEF AppendixTags
  <1>8. CASE elements[i].role = "appendix" /\ elements[j].role = "appendix"
    <2>1. AppendixStepOf(i) = AppendixStepOf(j) BY <1>3, <1>8 DEF own
    <2>2. /\ elements[i].tag \in AppendixTags /\ elements[i].name \in Titles
          /\ elements[j].tag \in AppendixTags /\ elements[j].name \in Titles
      BY <1>8, ProvisionFacts
    <2>3. ASSUME NEW k \in {i, j}, NEW m \in {i, j}, elements[k].name = <<>>, elements[m].name # <<>>
          PROVE  FALSE
      <3>1. own(k).part = "appdx" /\ own(m).part \in AppendixTags BY <1>4, <1>8, <2>2, <2>3
      <3> QED BY <1>5, <2>3, <3>1 DEF AppendixTags
    <2>4. CASE elements[i].name = <<>> /\ elements[j].name = <<>>
      <3> DEFINE v == Cardinality(MetBefore(i))
                 w == Cardinality(MetBefore(j))
      <3>1. [part |-> "appdx", name |-> <<v>>] = [part |-> "appdx", name |-> <<w>>]
        BY <2>1, <2>4 DEF AppendixStepOf
      <3> HIDE DEF v, w
      <3>2. <<v>> = <<w>> BY <3>1
      <3>3. v = w BY <3>2
      <3>4. i < j \/ j < i \/ i = j BY <1>1
      <3> QED BY <3>3, <3>4, CountsDiffer DEF v, w
    <2>5. CASE elements[i].name # <<>> /\ elements[j].name # <<>>
      <3>1. elements[i].tag = elements[j].tag BY <1>4, <1>5, <2>5
      <3>2. ASSUME NEW k \in {i, j} PROVE SeenBefore(k) = {}
        <4>1. SUFFICES ASSUME NEW m \in SeenBefore(k) PROVE FALSE OBVIOUS
        <4>2. /\ m \in DOMAIN elements /\ m < k /\ elements[m].role = "appendix"
              /\ elements[m].tag = elements[k].tag /\ elements[m].name = elements[k].name
          BY DEF SeenBefore
        <4>3. elements[k].role = "appendix" /\ elements[k].tag # "group" /\ elements[k].name # <<>>
          BY <1>8, <2>2, <2>5 DEF AppendixTags
        <4>4. m # k /\ k \in DOMAIN elements BY <1>1, <4>2
        <4> QED BY <4>2, <4>3, <4>4 DEF ProperlyNumbered
      <3>3. ASSUME NEW k \in {i, j}
            PROVE  /\ AppendixStepOf(k).name = KanjiToNumber(elements[k].name)
                   /\ elements[k].name \in Seq(0 .. Myriad - 1)
        <4>1. elements[k].name \in Seq(0 .. Myriad - 1) BY <2>2, ProvisionAssumption
        <4>2. KanjiToNumber(elements[k].name) \in Seq(Int) BY <4>1, KanjiToNumberTyped
        <4>3. AppendixStepOf(k).name = KanjiToNumber(elements[k].name) \o <<>>
          BY <2>5, <3>2 DEF AppendixStepOf
        <4> QED BY <4>1, <4>2, <4>3, ConcatEmptySeq
      <3>4. KanjiToNumber(elements[i].name) = KanjiToNumber(elements[j].name) BY <2>1, <3>3
      <3>5. elements[i].name = elements[j].name BY <3>3, <3>4, KanjiToNumberIsInjective
      <3>6. elements[i].tag # "group" BY <2>2 DEF AppendixTags
      <3>7. i \in DOMAIN elements /\ j \in DOMAIN elements BY <1>1
      <3> QED BY <1>8, <2>5, <3>1, <3>5, <3>6, <3>7 DEF ProperlyNumbered
    <2> QED BY <2>3, <2>4, <2>5
  <1> QED BY <1>6, <1>7, <1>8

\* A sequence without its last member.
LEMMA FrontOfAppend ==
    ASSUME NEW S, NEW s \in Seq(S), NEW a \in S
    PROVE  SubSeq(Append(s, a), 1, Len(Append(s, a)) - 1) = s
  <1> DEFINE more == Append(s, a)
             front == SubSeq(more, 1, Len(s))
  <1>1. more \in Seq(S) /\ Len(more) = Len(s) + 1 /\ \A k \in 1 .. Len(s) : more[k] = s[k]
    BY AppendProperties
  <1> HIDE DEF more
  <1>2. front \in Seq(S) /\ Len(front) = Len(s) /\ \A k \in 1 .. Len(s) : front[k] = more[k]
    BY <1>1
  <1>3. front = s
    <2> HIDE DEF front
    <2> QED BY <1>1, <1>2, SeqEqual
  <1>4. Len(more) - 1 = Len(s) BY <1>1
  <1> QED BY <1>3, <1>4 DEF more

\* So no path is met twice.
LEMMA PathsNamed == PathsInv => PathsNameProvisions
  <1> SUFFICES ASSUME PathsInv PROVE PathsNameProvisions OBVIOUS
  <1>1. ASSUME ProperlyNumbered PROVE DuplicatePaths = {}
    BY <1>1, OneHolder DEF DuplicatePaths
  <1>2. ASSUME NEW i \in Provisions
        PROVE  SubSeq(elements[i].path, 1, Len(elements[i].path) - 1) = At(elements[i].parent).path
    <2> DEFINE s == At(elements[i].parent).path
    <2>1. PICK a \in PathStep : elements[i].path = Append(s, a) BY ProvisionFacts DEF Above
    <2>2. s \in Seq(PathStep) BY ProvisionFacts DEF Above
    <2> HIDE DEF s
    <2>3. SubSeq(Append(s, a), 1, Len(Append(s, a)) - 1) = s BY <2>2, FrontOfAppend
    <2> QED BY <2>1, <2>3 DEF s
  <1> QED BY <1>1, <1>2 DEF PathsNameProvisions

(***************************************************************************)
(* segment gives no two provisions of a statute that is numbered properly  *)
(* one canonical path, however its elements are nested, and the path of a  *)
(* part extends the path of the whole: validateSegments has nothing to     *)
(* hold back.                                                              *)
(***************************************************************************)
THEOREM PathsAlwaysNameProvisions == PathsSpec => []PathsNameProvisions
  <1> QED BY PathsAlways, PathsNamed, PTL
-----------------------------------------------------------------------------
(* Ingest and publication.                                                   *)

\* A request that has begun handles a document; requests that ingest and those
\* that publish go through different steps.
Begun ==
    \A r \in Requests :
        /\ pc[r] # "idle" => doc[r] \in Documents
        /\ pc[r] \in {"fetched", "writing", "saved", "parsed", "ingested", "skipped"} =>
             kind[r] \in {"ingest", "cli"}

LEMMA TypeInit == Init => CorpusTypeOK /\ Begun
BY DEF Init, CorpusTypeOK, Begun, VersionStatus, Steps

LEMMA TypeNext == CorpusTypeOK /\ Begun /\ [Next]_vars => (CorpusTypeOK /\ Begun)'
  <1> SUFFICES ASSUME CorpusTypeOK, Begun, [Next]_vars
               PROVE  (CorpusTypeOK /\ Begun)'
    OBVIOUS
  <1> USE DEF CorpusTypeOK, Begun, VersionStatus, Steps, Goto, dbVars
  <1>1. CASE UNCHANGED vars BY <1>1 DEF vars
  <1>2. ASSUME NEW r \in Requests, Fetch(r) PROVE (CorpusTypeOK /\ Begun)'
    <2>1. PICK k \in Kinds \cap {"ingest", "cli"}, d \in Documents :
            kind' = [kind EXCEPT ![r] = k] /\ doc' = [doc EXCEPT ![r] = d]
      BY <1>2 DEF Fetch
    <2>2. pc' = [pc EXCEPT ![r] = "fetched"] /\ UNCHANGED <<version, raw, audit>>
      BY <1>2 DEF Fetch
    <2>3. k \in {"ingest", "cli"} BY <2>1
    <2>4. CorpusTypeOK' BY <2>1, <2>2, <2>3
    <2>5. Begun' BY <2>1, <2>2, <2>3
    <2> QED BY <2>4, <2>5
  <1>3. ASSUME NEW r \in Requests, OpenRaw(r) \/ CloseRaw(r)
        PROVE  (CorpusTypeOK /\ Begun)'
    BY <1>3 DEF OpenRaw, CloseRaw
  <1>4. ASSUME NEW r \in Requests, CompareHash(r) \/ Commit(r) \/ CommitRefused(r)
        PROVE  (CorpusTypeOK /\ Begun)'
    <2>1. CASE CompareHash(r) BY <2>1 DEF CompareHash
    <2>2. CASE Commit(r)
      <3>1. kind[r] \in {"ingest", "cli"} BY <2>2 DEF Commit
      <3>2. CorpusTypeOK' BY <2>2 DEF Commit
      <3>3. Begun' BY <2>2, <3>1 DEF Commit
      <3> QED BY <3>2, <3>3
    <2>3. CASE CommitRefused(r) BY <2>3 DEF CommitRefused
    <2> QED BY <1>4, <2>1, <2>2, <2>3
  <1>5. ASSUME NEW r \in Requests, AnswerIngest(r) PROVE (CorpusTypeOK /\ Begun)'
    BY <1>5 DEF AnswerIngest, Record, Actions
  <1>6. ASSUME NEW r \in Requests, FindVersion(r) PROVE (CorpusTypeOK /\ Begun)'
    <2>1. PICK d \in Stored :
            /\ doc' = [doc EXCEPT ![r] = d]
            /\ pc' = [pc EXCEPT ![r] = IF version[d] = "published" THEN "refused" ELSE "read"]
      BY <1>6 DEF FindVersion
    <2>2. d \in Documents BY <2>1 DEF Stored
    <2>3. kind' = [kind EXCEPT ![r] = "publish"] /\ UNCHANGED <<version, raw, audit>>
      BY <1>6 DEF FindVersion
    <2>4. CorpusTypeOK' BY <2>1, <2>2, <2>3
    <2>5. Begun' BY <2>1, <2>2, <2>3
    <2> QED BY <2>4, <2>5
  <1>7. ASSUME NEW r \in Requests, Swap(r) PROVE (CorpusTypeOK /\ Begun)'
    BY <1>7 DEF Swap
  <1>8. ASSUME NEW r \in Requests, AnswerPublish(r) PROVE (CorpusTypeOK /\ Begun)'
    BY <1>8 DEF AnswerPublish, Record, Actions
  <1>9. ASSUME NEW r \in Requests, Fail(r) \/ Crash(r) PROVE (CorpusTypeOK /\ Begun)'
    BY <1>9 DEF Fail, Crash, Running
  <1> QED BY <1>1, <1>2, <1>3, <1>4, <1>5, <1>6, <1>7, <1>8, <1>9 DEF Next, Step

(***************************************************************************)
(* Type correctness of the corpus server.                                  *)
(***************************************************************************)
THEOREM CorpusTypeCorrect == Spec => [](CorpusTypeOK /\ Begun)
BY TypeInit, TypeNext, PTL DEF Spec

-----------------------------------------------------------------------------
LEMMA IngestedOnceNext ==
    CorpusTypeOK /\ Begun /\ IngestedOnce /\ [Next]_vars => IngestedOnce'
  <1> SUFFICES ASSUME CorpusTypeOK, Begun, IngestedOnce, [Next]_vars
               PROVE  IngestedOnce'
    OBVIOUS
  <1> USE DEF CorpusTypeOK, Begun, IngestedOnce, IngestedBy, Stored, Goto, dbVars
  <1>1. CASE UNCHANGED vars BY <1>1 DEF vars
  <1>2. ASSUME NEW r \in Requests, Fetch(r) PROVE IngestedOnce'
    BY <1>2 DEF Fetch
  <1>3. ASSUME NEW r \in Requests, OpenRaw(r) \/ CloseRaw(r) \/ CompareHash(r)
        PROVE  IngestedOnce'
    BY <1>3 DEF OpenRaw, CloseRaw, CompareHash
  <1>4. ASSUME NEW r \in Requests, Commit(r) PROVE IngestedOnce'
    <2>1. \A s \in Requests : ~IngestedBy(s, doc[r]) BY <1>4 DEF Commit, New
    <2>2. /\ version' = [version EXCEPT ![doc[r]] =
                           IF doc[r] \in Clean THEN "published" ELSE "pending"]
          /\ pc' = [pc EXCEPT ![r] = "ingested"]
          /\ UNCHANGED <<audit, kind, doc>>
          /\ doc[r] \in Documents
      BY <1>4 DEF Commit
    <2>3. ASSUME NEW d \in Documents, NEW s \in Requests, IngestedBy(s, d)'
          PROVE  IngestedBy(s, d) \/ (s = r /\ d = doc[r])
      BY <2>2, <2>3
    <2>4. ASSUME NEW d \in Documents, NEW s \in Requests, IngestedBy(s, d)'
          PROVE  (d \in Stored)' /\ \A t \in Requests : IngestedBy(t, d)' => t = s
      <3>1. CASE d = doc[r]
        <4>1. d \in Stored' BY <2>2, <3>1
        <4>2. \A t \in Requests : IngestedBy(t, d)' => t = r BY <2>1, <2>3, <3>1
        <4> QED BY <4>1, <4>2, <2>4
      <3>2. CASE d # doc[r]
        <4>1. \A t \in Requests : IngestedBy(t, d)' => IngestedBy(t, d) BY <2>3, <3>2
        <4>2. IngestedBy(s, d) BY <2>4, <4>1
        <4>3. d \in Stored' BY <2>2, <3>2, <4>2
        <4> QED BY <4>1, <4>2, <4>3
      <3> QED BY <3>1, <3>2
    <2> QED BY <2>4
  <1>5. ASSUME NEW r \in Requests, CommitRefused(r) PROVE IngestedOnce'
    BY <1>5 DEF CommitRefused
  <1>6. ASSUME NEW r \in Requests, AnswerIngest(r) PROVE IngestedOnce'
    <2>1. \A s \in Requests, d \in Documents : IngestedBy(s, d)' => IngestedBy(s, d)
      BY <1>6 DEF AnswerIngest, Record
    <2> QED BY <1>6, <2>1 DEF AnswerIngest
  <1>7. ASSUME NEW r \in Requests, FindVersion(r) PROVE IngestedOnce'
    BY <1>7 DEF FindVersion
  <1>8. ASSUME NEW r \in Requests, Swap(r) PROVE IngestedOnce'
    BY <1>8 DEF Swap
  <1>9. ASSUME NEW r \in Requests, AnswerPublish(r) PROVE IngestedOnce'
    BY <1>9 DEF AnswerPublish, Record
  <1>10. ASSUME NEW r \in Requests, Fail(r) \/ Crash(r) PROVE IngestedOnce'
    BY <1>10 DEF Fail, Crash
  <1> QED BY <1>1, <1>2, <1>3, <1>4, <1>5, <1>6, <1>7, <1>8, <1>9, <1>10
          DEF Next, Step

(***************************************************************************)
(* However many requests bring a document at the same time, at most one    *)
(* reports that it ingested it: the unique index decides, not the lookup.  *)
(***************************************************************************)
THEOREM DocumentIsIngestedOnce == Spec => []IngestedOnce
  <1>1. Init => IngestedOnce BY DEF Init, IngestedOnce, IngestedBy
  <1> QED BY <1>1, IngestedOnceNext, CorpusTypeCorrect, PTL DEF Spec

-----------------------------------------------------------------------------
\* What waits for review is what validation did not publish.
PendingFailed == \A d \in Documents : version[d] = "pending" => d \notin Clean

LEMMA PublishedOnceNext ==
    CorpusTypeOK /\ Begun /\ PendingFailed /\ PublishedOnce /\ [Next]_vars
        => (PendingFailed /\ PublishedOnce)'
  <1> SUFFICES ASSUME CorpusTypeOK, Begun, PendingFailed, PublishedOnce, [Next]_vars
               PROVE  (PendingFailed /\ PublishedOnce)'
    OBVIOUS
  <1> USE DEF CorpusTypeOK, Begun, PendingFailed, PublishedOnce, PublishedBy, Goto, dbVars
  <1>1. CASE UNCHANGED vars BY <1>1 DEF vars
  <1>2. ASSUME NEW r \in Requests, Fetch(r) PROVE (PendingFailed /\ PublishedOnce)'
    BY <1>2 DEF Fetch
  <1>3. ASSUME NEW r \in Requests, OpenRaw(r) \/ CloseRaw(r) \/ CompareHash(r)
        PROVE  (PendingFailed /\ PublishedOnce)'
    BY <1>3 DEF OpenRaw, CloseRaw, CompareHash
  <1>4. ASSUME NEW r \in Requests, Commit(r) PROVE (PendingFailed /\ PublishedOnce)'
    <2>1. version[doc[r]] = "absent" BY <1>4 DEF Commit, New, Stored
    <2>2. \A s \in Requests, d \in Documents : PublishedBy(s, d)' => PublishedBy(s, d)
      BY <1>4 DEF Commit
    <2>3. PendingFailed' BY <1>4 DEF Commit
    <2>4. \A d \in Documents : version[d] = "published" => version'[d] = "published"
      BY <1>4, <2>1 DEF Commit
    <2> QED BY <2>2, <2>3, <2>4
  <1>5. ASSUME NEW r \in Requests, CommitRefused(r)
        PROVE  (PendingFailed /\ PublishedOnce)'
    BY <1>5 DEF CommitRefused
  <1>6. ASSUME NEW r \in Requests, AnswerIngest(r)
        PROVE  (PendingFailed /\ PublishedOnce)'
    <2>1. \A s \in Requests, d \in Documents : PublishedBy(s, d)' => PublishedBy(s, d)
      BY <1>6 DEF AnswerIngest, Record
    <2> QED BY <1>6, <2>1 DEF AnswerIngest
  <1>7. ASSUME NEW r \in Requests, FindVersion(r)
        PROVE  (PendingFailed /\ PublishedOnce)'
    BY <1>7 DEF FindVersion
  <1>8. ASSUME NEW r \in Requests, Swap(r) PROVE (PendingFailed /\ PublishedOnce)'
    <2>1. CASE ~Unpublished(doc[r]) BY <1>8, <2>1 DEF Swap
    <2>2. CASE Unpublished(doc[r])
      <3>1. /\ version' = [version EXCEPT ![doc[r]] = "published"]
            /\ pc' = [pc EXCEPT ![r] = "swapped"]
            /\ UNCHANGED <<audit, kind, doc>>
            /\ doc[r] \in Documents
            /\ version[doc[r]] = "pending"
        BY <1>8, <2>2 DEF Swap, Unpublished
      <3>2. \A s \in Requests : ~PublishedBy(s, doc[r]) BY <3>1
      <3>3. \A s \in Requests, d \in Documents :
              PublishedBy(s, d)' => PublishedBy(s, d) \/ (s = r /\ d = doc[r])
        BY <3>1
      <3>4. PendingFailed' BY <3>1
      <3>5. ASSUME NEW d \in Documents, NEW s \in Requests, PublishedBy(s, d)'
            PROVE  /\ version'[d] = "published"
                   /\ d \notin Clean
                   /\ \A t \in Requests : PublishedBy(t, d)' => t = s
        <4>1. CASE d = doc[r]
          <5>1. \A t \in Requests : PublishedBy(t, d)' => t = r BY <3>2, <3>3, <4>1
          <5>2. version'[d] = "published" /\ d \notin Clean BY <3>1, <4>1
          <5> QED BY <5>1, <5>2, <3>5
        <4>2. CASE d # doc[r]
          <5>1. \A t \in Requests : PublishedBy(t, d)' => PublishedBy(t, d)
            BY <3>3, <4>2
          <5>2. PublishedBy(s, d) BY <3>5, <5>1
          <5>3. version'[d] = version[d] BY <3>1, <4>2
          <5> QED BY <5>1, <5>2, <5>3
        <4> QED BY <4>1, <4>2
      <3> QED BY <3>4, <3>5
    <2> QED BY <2>1, <2>2
  <1>9. ASSUME NEW r \in Requests, AnswerPublish(r)
        PROVE  (PendingFailed /\ PublishedOnce)'
    <2>1. \A s \in Requests, d \in Documents : PublishedBy(s, d)' => PublishedBy(s, d)
      BY <1>9 DEF AnswerPublish, Record
    <2> QED BY <1>9, <2>1 DEF AnswerPublish
  <1>10. ASSUME NEW r \in Requests, Fail(r) \/ Crash(r)
         PROVE  (PendingFailed /\ PublishedOnce)'
    BY <1>10 DEF Fail, Crash
  <1> QED BY <1>1, <1>2, <1>3, <1>4, <1>5, <1>6, <1>7, <1>8, <1>9, <1>10
          DEF Next, Step

(***************************************************************************)
(* A version is published by at most one editor's request, and never by    *)
(* one when validation published it.                                       *)
(***************************************************************************)
THEOREM VersionIsPublishedOnce == Spec => []PublishedOnce
  <1>1. Init => PendingFailed /\ PublishedOnce
    BY DEF Init, PendingFailed, PublishedOnce, PublishedBy
  <1> QED BY <1>1, PublishedOnceNext, CorpusTypeCorrect, PTL DEF Spec

-----------------------------------------------------------------------------
\* Each request that is past the file has written it, and each torn file has a
\* request that is, or was stopped, in the middle of it.
RawInv ==
    /\ \A r \in Requests :
         pc[r] \in {"writing", "saved", "parsed", "ingested", "skipped"} =>
            raw[doc[r]] # "absent"
    /\ \A d \in Stored : raw[d] # "absent"
    /\ \A d \in Documents : raw[d] = "torn" =>
         \E r \in Requests : doc[r] = d /\ pc[r] \in {"writing", "error", "dead"}

LEMMA RawNext == CorpusTypeOK /\ Begun /\ RawInv /\ [Next]_vars => RawInv'
  <1> SUFFICES ASSUME CorpusTypeOK, Begun, RawInv, [Next]_vars
               PROVE  RawInv'
    OBVIOUS
  <1> USE DEF CorpusTypeOK, Begun, RawInv, Stored, Goto, dbVars
  <1>1. CASE UNCHANGED vars BY <1>1 DEF vars
  <1>2. ASSUME NEW r \in Requests, Fetch(r) PROVE RawInv'
    <2>1. \A s \in Requests : s # r => pc'[s] = pc[s] /\ doc'[s] = doc[s]
      BY <1>2 DEF Fetch
    <2>2. pc[r] = "idle" /\ pc'[r] = "fetched" /\ UNCHANGED <<version, raw>>
      BY <1>2 DEF Fetch
    <2> QED BY <2>1, <2>2
  <1>3. ASSUME NEW r \in Requests, OpenRaw(r) PROVE RawInv'
    BY <1>3 DEF OpenRaw
  <1>4. ASSUME NEW r \in Requests, CloseRaw(r) PROVE RawInv'
    <2>1. CASE raw' = [raw EXCEPT ![doc[r]] = "whole"]
      BY <1>4, <2>1 DEF CloseRaw
    <2>2. CASE /\ UNCHANGED raw
               /\ \E o \in Requests \ {r} : pc[o] = "writing" /\ doc[o] = doc[r]
      BY <1>4, <2>2 DEF CloseRaw
    <2> QED BY <1>4, <2>1, <2>2 DEF CloseRaw
  <1>5. ASSUME NEW r \in Requests, CompareHash(r) \/ Commit(r) \/ CommitRefused(r)
        PROVE  RawInv'
    BY <1>5 DEF CompareHash, Commit, CommitRefused
  <1>6. ASSUME NEW r \in Requests, AnswerIngest(r) PROVE RawInv'
    BY <1>6 DEF AnswerIngest
  <1>7. ASSUME NEW r \in Requests, FindVersion(r) PROVE RawInv'
    <2>1. \A s \in Requests : s # r => pc'[s] = pc[s] /\ doc'[s] = doc[s]
      BY <1>7 DEF FindVersion
    <2>2. pc[r] = "idle" /\ pc'[r] \in {"refused", "read"} /\ UNCHANGED <<version, raw>>
      BY <1>7 DEF FindVersion
    <2> QED BY <2>1, <2>2
  <1>8. ASSUME NEW r \in Requests, Swap(r) PROVE RawInv'
    BY <1>8 DEF Swap, Unpublished
  <1>9. ASSUME NEW r \in Requests, AnswerPublish(r) PROVE RawInv'
    BY <1>9 DEF AnswerPublish
  <1>10. ASSUME NEW r \in Requests, Fail(r) \/ Crash(r) PROVE RawInv'
    BY <1>10 DEF Fail, Crash, Running
  <1> QED BY <1>1, <1>2, <1>3, <1>4, <1>5, <1>6, <1>7, <1>8, <1>9, <1>10
          DEF Next, Step

(***************************************************************************)
(* The original of a version that is there is in the raw store, and is     *)
(* incomplete only if a request is, or was stopped, in the middle of it.   *)
(***************************************************************************)
THEOREM OriginalIsKept == Spec => []RawKept
  <1>1. Init => RawInv BY DEF Init, RawInv, Stored
  <1>2. CorpusTypeOK /\ RawInv => RawKept BY DEF RawInv, RawKept, Stored, CorpusTypeOK
  <1> QED BY <1>1, <1>2, RawNext, CorpusTypeCorrect, PTL DEF Spec

-----------------------------------------------------------------------------
(* Logins and roles.                                                         *)

CallRecords == [step : CallSteps, person : Persons, old : SUBSET Grants, new : SUBSET Grants]

\* A request that has come further than the lookup is about an account, and a change
\* brings a role.
CallsOK ==
    /\ call \in [Browsers -> CallRecords]
    /\ \A b \in Browsers :
          /\ call[b].step \in {"created", "known", "deleted"} => call[b].person \in accounts
          /\ call[b].step = "deleted" => call[b].new # {}

\* Who has an account and no role is known to have none.
BareOK == \A p \in accounts : member[p] = {} => p \in bare

MembersInv == MembersTypeOK /\ CallsOK /\ BareOK /\ EmptySessionsAreExplained

LEMMA NoCallTyped == NoCall \in CallRecords /\ NoCall.step = "none"
BY MembersAssumption DEF NoCall, CallRecords, CallSteps

LEMMA MembersInvInit == MembersInit => MembersInv
  <1> SUFFICES ASSUME MembersInit PROVE MembersInv
    OBVIOUS
  <1>1. MembersTypeOK
    BY MembersAssumption, NoCallTyped DEF MembersInit, MembersTypeOK, Grants, CallRecords
  <1>2. CallsOK BY NoCallTyped DEF MembersInit, CallsOK
  <1>3. BareOK /\ EmptySessionsAreExplained
    BY MembersAssumption DEF MembersInit, BareOK, EmptySessionsAreExplained
  <1> QED BY <1>1, <1>2, <1>3 DEF MembersInv

\* The call of a browser goes on or ends, and the others stay.
LEMMA CallMoves ==
    ASSUME CallsOK, NEW b \in Browsers, NEW step \in CallSteps \ {"deleted"},
           accounts \subseteq accounts',
           \/ EndCall(b)
           \/ GoOn(b, step) /\ (step \in {"created", "known"} => call[b].person \in accounts')
    PROVE  CallsOK'
  <1>1. CASE EndCall(b) BY <1>1, NoCallTyped DEF CallsOK, EndCall
  <1>2. CASE GoOn(b, step) /\ (step \in {"created", "known"} => call[b].person \in accounts')
    <2>1. call' \in [Browsers -> CallRecords]
      BY <1>2 DEF CallsOK, GoOn, CallRecords
    <2>2. /\ call'[b].step = step /\ call'[b].person = call[b].person
          /\ \A c \in Browsers \ {b} : call'[c] = call[c]
      BY <1>2 DEF CallsOK, GoOn, CallRecords
    <2> QED BY <1>2, <2>1, <2>2 DEF CallsOK
  <1> QED BY <1>1, <1>2

\* All of the invariant but the calls, where the sessions stay.
LEMMA RolesMove ==
    ASSUME MembersInv, CallsOK', UNCHANGED session,
           accounts \subseteq accounts', accounts' \subseteq Persons, bare' \subseteq accounts',
           member' \in [Persons -> SUBSET Grants],
           \A p \in Persons : member'[p] # {} => p \in accounts',
           BareOK'
    PROVE  MembersInv'
  <1>1. MembersTypeOK'
    <2>1. session \in [Browsers -> {NoSession} \cup [person : accounts',
             roles : SUBSET GrantableRoles, org : Organizations, bare : BOOLEAN]]
      BY DEF MembersInv, MembersTypeOK
    <2> QED BY <2>1 DEF CallsOK, CallRecords, MembersTypeOK
  <1> QED BY <1>1 DEF MembersInv, EmptySessionsAreExplained

LEMMA MembersInvNext == MembersInv /\ [MembersNext]_membersVars => MembersInv'
  <1> SUFFICES ASSUME MembersInv, [MembersNext]_membersVars PROVE MembersInv'
    OBVIOUS
  <1>0. MembersTypeOK /\ CallsOK /\ BareOK /\ EmptySessionsAreExplained BY DEF MembersInv
  <1>1. CASE UNCHANGED membersVars
    BY <1>0, <1>1 DEF membersVars, MembersInv, MembersTypeOK, CallsOK, BareOK,
                      EmptySessionsAreExplained
  <1> SUFFICES ASSUME NEW b \in Browsers,
                      \/ Login(b) \/ Callback(b) \/ CreateUser(b) \/ GrantDefault(b)
                      \/ OpenSession(b) \/ CloseSession(b) \/ EndEarly(b)
                      \/ AddMember(b) \/ DeleteOld(b) \/ CommitChange(b) \/ RemoveMember(b)
               PROVE  MembersInv'
    BY <1>1 DEF MembersNext
  <1>2. CASE Login(b)
    BY <1>0, <1>2, CallMoves, RolesMove DEF Login, CallSteps, MembersTypeOK, BareOK
  <1>3. CASE EndEarly(b)
    BY <1>0, <1>3, CallMoves, RolesMove DEF EndEarly, CallSteps, MembersTypeOK, BareOK
  <1>4. CASE Callback(b)
    <2>2. PICK p \in Persons :
            call' = [call EXCEPT ![b] = [step |-> IF p \in accounts THEN "known" ELSE "unknown",
                                         person |-> p, old |-> {}, new |-> {}]]
      BY <1>4 DEF Callback
    <2>3. CallsOK'
      BY <1>0, <1>4, <2>2 DEF Callback, CallsOK, CallRecords, CallSteps
    <2> QED BY <1>0, <1>4, <2>3, RolesMove DEF Callback, MembersTypeOK, BareOK
  <1>5. CASE CreateUser(b)
    <2> DEFINE p == call[b].person
    <2>1. CASE \E q \in accounts : q = p \/ EmailOf[q] = EmailOf[p]
      BY <1>0, <1>5, <2>1, CallMoves, RolesMove DEF CreateUser, CallSteps, MembersTypeOK, BareOK
    <2>2. CASE ~\E q \in accounts : q = p \/ EmailOf[q] = EmailOf[p]
      <3>1. /\ GoOn(b, "created") /\ accounts' = accounts \cup {p} /\ bare' = bare \cup {p}
            /\ UNCHANGED <<member, session>>
        BY <1>5, <2>2 DEF CreateUser
      <3>2. p \in Persons BY <1>0 DEF CallsOK, CallRecords
      <3>3. CallsOK' BY <1>0, <3>1, CallMoves DEF CallSteps
      <3> QED BY <1>0, <3>1, <3>2, <3>3, RolesMove DEF MembersTypeOK, BareOK
    <2> QED BY <2>1, <2>2
  <1>6. CASE GrantDefault(b)
    <2> DEFINE p == call[b].person
    <2>1. p \in accounts BY <1>0, <1>6 DEF GrantDefault, CallsOK
    <2>2. CASE <<"DEFAULT", "RESEARCHER">> \in member[p]
      BY <1>0, <1>6, <2>2, CallMoves, RolesMove DEF GrantDefault, CallSteps, MembersTypeOK, BareOK
    <2>3. CASE <<"DEFAULT", "RESEARCHER">> \notin member[p]
      <3>1. /\ GoOn(b, "known") /\ bare' = bare \ {p}
            /\ member' = [member EXCEPT ![p] = @ \cup {<<"DEFAULT", "RESEARCHER">>}]
            /\ UNCHANGED <<accounts, session>>
        BY <1>6, <2>3 DEF GrantDefault
      <3>2. <<"DEFAULT", "RESEARCHER">> \in Grants BY MembersAssumption DEF Grants
      <3>3. CallsOK' BY <1>0, <2>1, <3>1, CallMoves DEF CallSteps
      <3> QED BY <1>0, <2>1, <3>1, <3>2, <3>3, RolesMove DEF MembersTypeOK, BareOK
    <2> QED BY <2>2, <2>3
  <1>7. CASE OpenSession(b)
    <2> DEFINE p == call[b].person
    <2>1. p \in accounts BY <1>0, <1>7 DEF OpenSession, CallsOK
    <2>2. PICK org \in Organizations : session' = [session EXCEPT ![b] =
            [person |-> p, roles |-> {g[2] : g \in member[p]}, org |-> org, bare |-> p \in bare]]
      <3>1. \A g \in member[p] : g[1] \in Organizations
        BY <1>0, <2>1 DEF MembersTypeOK, Grants
      <3> QED BY <1>7, <3>1, MembersAssumption DEF OpenSession
    <2>3. EndCall(b) /\ UNCHANGED <<accounts, member, bare>> BY <1>7 DEF OpenSession
    <2>4. CallsOK' BY <1>0, <2>3, CallMoves DEF CallSteps
    <2>5. {g[2] : g \in member[p]} = {} => p \in bare
      BY <1>0, <2>1 DEF BareOK
    <2>6. EmptySessionsAreExplained'
      <3> SUFFICES ASSUME NEW c \in Browsers, session'[c] # NoSession, session'[c].roles = {}
                   PROVE  session'[c].bare
        BY DEF EmptySessionsAreExplained
      <3>1. CASE c = b
        <4>1. session'[c] = [person |-> p, roles |-> {g[2] : g \in member[p]}, org |-> org,
                             bare |-> p \in bare]
          BY <1>0, <2>2, <3>1 DEF MembersTypeOK
        <4> DEFINE granted == {g[2] : g \in member[p]}
        <4> HIDE DEF granted
        <4>2. PICK none \in BOOLEAN : none = (p \in bare)
          <5>1. (p \in bare) \in BOOLEAN OBVIOUS
          <5> QED BY <5>1, Zenon
        <4>3. session'[c] = [person |-> p, roles |-> granted, org |-> org, bare |-> none]
          BY <4>1, <4>2 DEF granted
        <4>4. session'[c].roles = granted /\ session'[c].bare = none BY <4>3
        <4>5. session'[c].roles = {g[2] : g \in member[p]} BY <4>4 DEF granted
        <4>6. session'[c].bare = (p \in bare) BY <4>2, <4>4
        <4> QED BY <2>5, <4>5, <4>6, Zenon
      <3>2. CASE c # b
        BY <1>0, <2>2, <3>2 DEF MembersTypeOK, EmptySessionsAreExplained
      <3> QED BY <3>1, <3>2
    <2>7. {g[2] : g \in member[p]} \subseteq GrantableRoles
      BY <1>0, <2>1 DEF MembersTypeOK, Grants
    <2>8. [person |-> p, roles |-> {g[2] : g \in member[p]}, org |-> org, bare |-> p \in bare]
            \in [person : accounts, roles : SUBSET GrantableRoles, org : Organizations, bare : BOOLEAN]
      BY <2>1, <2>7
    <2>9. session' \in [Browsers -> {NoSession} \cup
            [person : accounts, roles : SUBSET GrantableRoles, org : Organizations, bare : BOOLEAN]]
      BY <1>0, <2>2, <2>8 DEF MembersTypeOK
    <2>10. MembersTypeOK'
      BY <1>0, <2>3, <2>4, <2>9 DEF MembersTypeOK, CallsOK, CallRecords
    <2> QED BY <1>0, <2>3, <2>4, <2>6, <2>10 DEF MembersInv, BareOK
  <1>8. CASE CloseSession(b)
    <2>1. /\ session' = [session EXCEPT ![b] = NoSession] /\ EndCall(b)
          /\ UNCHANGED <<accounts, member, bare>>
      BY <1>8 DEF CloseSession
    <2>2. CallsOK' BY <1>0, <2>1, CallMoves DEF CallSteps
    <2>4. MembersTypeOK' BY <1>0, <2>1, <2>2 DEF MembersTypeOK, CallsOK, CallRecords
    <2>5. EmptySessionsAreExplained' BY <1>0, <2>1 DEF EmptySessionsAreExplained
    <2> QED BY <1>0, <2>1, <2>2, <2>4, <2>5 DEF MembersInv, BareOK
  <1>9. CASE AddMember(b)
    <2>0. PICK p \in accounts, org \in Organizations, role \in GrantableRoles :
            /\ member' = [member EXCEPT ![p] = @ \cup {<<org, role>>}] /\ bare' = bare \ {p}
            /\ UNCHANGED <<accounts, call, session>>
      BY <1>9 DEF AddMember
    <2>1. <<org, role>> \in Grants BY DEF Grants
    <2>3. p \in Persons /\ bare' \subseteq accounts BY <1>0, <2>0 DEF MembersTypeOK
    <2>4. member' \in [Persons -> SUBSET Grants] BY <1>0, <2>0, <2>1, <2>3 DEF MembersTypeOK
    <2>5. \A q \in Persons : member'[q] # {} => q \in accounts
      BY <1>0, <2>0, <2>3 DEF MembersTypeOK
    <2>6. BareOK'
      <3>1. member'[p] # {} /\ \A q \in Persons \ {p} : member'[q] = member[q]
        BY <1>0, <2>0, <2>3 DEF MembersTypeOK
      <3> QED BY <1>0, <2>0, <3>1 DEF MembersTypeOK, BareOK
    <2>2. CallsOK' BY <1>0, <2>0 DEF CallsOK
    <2> QED BY <2>0, <2>2, <2>3, <2>4, <2>5, <2>6, <1>0, RolesMove DEF MembersTypeOK
  <1>10. CASE DeleteOld(b)
    <2>1. PICK p \in accounts, o \in SUBSET Grants, g \in Grants :
            call' = [call EXCEPT ![b] = [step |-> "deleted", person |-> p, old |-> o, new |-> {g}]]
      <3>1. PICK p \in accounts, org \in Organizations, old \in GrantableRoles, new \in GrantableRoles :
              call' = [call EXCEPT ![b] = [step |-> "deleted", person |-> p,
                         old |-> member[p] \cap {<<org, old>>}, new |-> {<<org, new>>}]]
        BY <1>10 DEF DeleteOld
      <3>2. /\ member[p] \cap {<<org, old>>} \in SUBSET Grants
            /\ <<org, new>> \in Grants
        BY <3>1 DEF Grants
      <3> QED BY <3>1, <3>2
    <2>2. UNCHANGED <<accounts, member, session, bare>> BY <1>10 DEF DeleteOld
    <2>3. p \in Persons BY <1>0 DEF MembersTypeOK
    <2>4. CallsOK'
      BY <1>0, <2>1, <2>2, <2>3 DEF CallsOK, CallRecords, CallSteps
    <2> QED BY <1>0, <2>2, <2>4, RolesMove DEF MembersTypeOK, BareOK
  <1>11. CASE CommitChange(b)
    <2> DEFINE p == call[b].person
    <2>1. p \in accounts /\ call[b].new # {} /\ call[b].new \subseteq Grants
      BY <1>0, <1>11 DEF CommitChange, CallsOK, CallRecords
    <2>2. /\ member' = [member EXCEPT ![p] = (@ \ call[b].old) \cup call[b].new]
          /\ bare' = bare \ {p} /\ EndCall(b) /\ UNCHANGED <<accounts, session>>
      BY <1>11 DEF CommitChange
    <2>3. CallsOK' BY <1>0, <2>2, CallMoves DEF CallSteps
    <2> QED BY <1>0, <2>1, <2>2, <2>3, RolesMove DEF MembersTypeOK, BareOK
  <1>12. CASE RemoveMember(b)
    <2>1. PICK p \in accounts, org \in Organizations,
               roles \in {{r} : r \in GrantableRoles} \cup {GrantableRoles} :
            LET gone == {<<org, r>> : r \in roles} IN
            /\ member' = [member EXCEPT ![p] = @ \ gone]
            /\ bare' = IF member[p] \ gone = {} THEN bare \cup {p} ELSE bare
            /\ UNCHANGED <<accounts, call, session>>
      BY <1>12 DEF RemoveMember
    <2>2. CallsOK' BY <1>0, <2>1 DEF CallsOK
    <2> QED BY <1>0, <2>1, <2>2, RolesMove DEF MembersTypeOK, BareOK
  <1> QED BY <1>2, <1>3, <1>4, <1>5, <1>6, <1>7, <1>8, <1>9, <1>10, <1>11, <1>12

(***************************************************************************)
(* However logins and changes of roles interleave and die: a session       *)
(* without a role was opened for a person who had none to begin with, or   *)
(* whose last role was removed (provision.ts:25-80, members.ts).           *)
(***************************************************************************)
THEOREM EmptySessionsExplained == MembersSpec => []EmptySessionsAreExplained
  <1>1. MembersInv => EmptySessionsAreExplained BY DEF MembersInv
  <1> QED BY <1>1, MembersInvInit, MembersInvNext, PTL DEF MembersSpec
=============================================================================
