--------------------------- MODULE TextMarksProofs ---------------------------
(***************************************************************************)
(* Proofs about the reader's own highlights: the page shows the article's  *)
(* text and the highlights what was selected, for an article of any tokens *)
(* and any number of highlights.                                           *)
(*                                                                         *)
(* The inductive invariant is MarksInv.  Its heart is PageIsMarked: as     *)
(* long as no ranges have overlapped, the page is the article under the    *)
(* marks of its list, because taking the marks away gives the article back *)
(* (MarksGo).  What a span shows under marks is told by Sliced for a plain *)
(* token, which is cut, and by SpanOK for all of them.                     *)
(***************************************************************************)
EXTENDS TextMarks, FiniteSetTheorems, WellFoundedInduction, TLAPS

\* A set of numbers has a least one.
LEMMA LeastNumber ==
    ASSUME NEW S, S \subseteq Nat, S # {}
    PROVE  \E m \in S : \A n \in S : m <= n
  <1>1. PICK m \in S : \A n \in S : ~ (<<n, m>> \in OpToRel(<, Nat))
    BY NatLessThanWellFounded, WFMin
  <1>2. \A n \in S : ~ (n < m) BY <1>1 DEF OpToRel
  <1> QED BY <1>2

\* Induction for a set of numbers.
LEMMA UpToIsIn ==
    ASSUME NEW n \in Nat, NEW Good, 0 \in Good, \A i \in 1 .. n : i - 1 \in Good => i \in Good
    PROVE  \A i \in 0 .. n : i \in Good
  <1> DEFINE Bad == {i \in 0 .. n : i \notin Good}
  <1>1. SUFFICES ASSUME Bad # {} PROVE FALSE BY <1>1
  <1>2. PICK m \in Bad : \A i \in Bad : m <= i
    <2>1. Bad \subseteq Nat OBVIOUS
    <2> HIDE DEF Bad
    <2> QED BY <1>1, <2>1, LeastNumber
  <1>3. m \in 1 .. n BY <1>2
  <1>4. m - 1 \in Good BY <1>2, <1>3
  <1> QED BY <1>2, <1>3, <1>4

\* A recursion of n steps from a, each with its number, which stays in A, has an outcome.
StaysIn(step, n, A) == \A i \in 1 .. n, x \in A : step[<<i, x>>] \in A
Follows(f, step, a, n) == f[0] = a /\ \A i \in 1 .. n : f[i] = step[<<i, f[i - 1]>>]

LEMMA StepsAreTaken ==
    ASSUME NEW n \in Nat, NEW A, NEW a \in A, NEW step, StaysIn(step, n, A)
    PROVE  \E f \in [0 .. n -> A] : Follows(f, step, a, n)
  <1> DEFINE Good == {k \in 0 .. n : \E f \in [0 .. n -> A] :
                          f[0] = a /\ \A i \in 1 .. k : f[i] = step[<<i, f[i - 1]>>]}
  <1>1. 0 \in Good
    <2> DEFINE f == [i \in 0 .. n |-> a]
    <2>1. f \in [0 .. n -> A] /\ f[0] = a /\ 0 \in 0 .. n OBVIOUS
    <2> HIDE DEF f
    <2>2. \A i \in 1 .. 0 : f[i] = step[<<i, f[i - 1]>>] OBVIOUS
    <2> QED BY <2>1, <2>2
  <1>2. ASSUME NEW k \in 1 .. n, k - 1 \in Good PROVE k \in Good
    <2>1. PICK f \in [0 .. n -> A] :
              f[0] = a /\ \A i \in 1 .. k - 1 : f[i] = step[<<i, f[i - 1]>>]
      BY <1>2
    <2> DEFINE g == [f EXCEPT ![k] = step[<<k, f[k - 1]>>]]
    <2>2. step[<<k, f[k - 1]>>] \in A
      <3>1. k - 1 \in 0 .. n BY <1>2
      <3>2. f[k - 1] \in A BY <2>1, <3>1
      <3> QED BY <1>2, <3>2 DEF StaysIn
    <2>3. g \in [0 .. n -> A] /\ g[0] = a BY <2>1, <2>2
    <2>4. ASSUME NEW i \in 1 .. k PROVE g[i] = step[<<i, g[i - 1]>>]
      <3>1. i - 1 \in 0 .. n /\ i - 1 # k /\ i \in 0 .. n BY <1>2
      <3>4. g[i - 1] = f[i - 1] BY <2>1, <3>1
      <3>2. CASE i = k BY <2>1, <3>1, <3>2, <3>4
      <3>3. CASE i # k
        <4>1. g[i] = f[i] /\ i \in 1 .. k - 1 BY <3>3
        <4> QED BY <2>1, <3>4, <4>1
      <3> QED BY <3>2, <3>3
    <2> HIDE DEF g
    <2> QED BY <2>3, <2>4
  <1> HIDE DEF Good
  <1>3. n \in Good
    <2>1. \A k \in 0 .. n : k \in Good BY <1>1, <1>2, UpToIsIn
    <2> QED BY <2>1
  <1> QED BY <1>3 DEF Good, Follows

-----------------------------------------------------------------------------
(* The reader's marks.                                                       *)

\* The tokens have a length and something shown.
LEMMA TokenFacts ==
    /\ Len(Tokens) \in Nat /\ DOMAIN Tokens = 1 .. Len(Tokens)
    /\ \A t \in 1 .. Len(Tokens) :
           /\ Tokens[t].length \in Nat \ {0} /\ Tokens[t].shown \in Nat \ {0}
           /\ Plain(t) => Tokens[t].shown = Tokens[t].length
  <1> DEFINE Token == [kind : {"plain", "number", "unit", "fraction"},
                       length : Nat \ {0}, shown : Nat \ {0}]
  <1>1. Tokens \in Seq(Token) BY MarksAssumption
  <1>5. \A x \in Token : x.length \in Nat \ {0} /\ x.shown \in Nat \ {0} OBVIOUS
  <1> HIDE DEF Token
  <1>2. Len(Tokens) \in Nat /\ DOMAIN Tokens = 1 .. Len(Tokens) BY <1>1
  <1>3. ASSUME NEW t \in 1 .. Len(Tokens)
        PROVE  Tokens[t].length \in Nat \ {0} /\ Tokens[t].shown \in Nat \ {0}
    <2>1. Tokens[t] \in Token BY <1>1, <1>2
    <2> QED BY <1>5, <2>1
  <1>4. ASSUME NEW t \in 1 .. Len(Tokens), Plain(t) PROVE Tokens[t].shown = Tokens[t].length
    BY <1>2, <1>4, MarksAssumption DEF Plain
  <1> QED BY <1>2, <1>3, <1>4

\* A token begins where the one before it ends.
LEMMA StartFacts ==
    /\ \A t \in 1 .. Len(Tokens) : SourceStart(t) \in Nat
    /\ \A t \in 1 .. Len(Tokens) : t # 1 => SourceStart(t) = SourceEnd(t - 1)
  <1> DEFINE n == Len(Tokens)
             IsStart(f) == f = [u \in DOMAIN Tokens |->
                                   IF u = 1 THEN 0 ELSE f[u - 1] + Tokens[u - 1].length]
             start == CHOOSE f : IsStart(f)
             step == [r \in (1 .. n) \X Nat |->
                         IF r[1] = 1 THEN 0 ELSE r[2] + Tokens[r[1] - 1].length]
  <1>1. n \in Nat /\ DOMAIN Tokens = 1 .. n BY TokenFacts
  <1>2. ASSUME NEW u \in 1 .. n, NEW x \in Nat PROVE step[<<u, x>>] \in Nat
    <2>1. step[<<u, x>>] = IF u = 1 THEN 0 ELSE x + Tokens[u - 1].length OBVIOUS
    <2>2. u # 1 => u - 1 \in 1 .. n BY <1>1
    <2>3. u # 1 => Tokens[u - 1].length \in Nat BY <2>2, TokenFacts
    <2> HIDE DEF step
    <2> QED BY <2>1, <2>3
  <1>3. PICK f \in [0 .. n -> Nat] :
            f[0] = 0 /\ \A i \in 1 .. n : f[i] = step[<<i, f[i - 1]>>]
    <2> DEFINE A == Nat
               a == 0
    <2>1. n \in Nat BY <1>1
    <2>2. a \in A OBVIOUS
    <2>3. StaysIn(step, n, A) BY <1>2 DEF StaysIn
    <2> HIDE DEF step, n, A, a
    <2>4. \E f \in [0 .. n -> A] : Follows(f, step, a, n)
      BY <2>1, <2>2, <2>3, StepsAreTaken
    <2> QED BY <2>4 DEF A, a, Follows
  <1>4. IsStart([u \in 1 .. n |-> f[u]])
    <2> DEFINE g == [u \in 1 .. n |-> f[u]]
    <2>1. ASSUME NEW u \in 1 .. n
          PROVE  g[u] = IF u = 1 THEN 0 ELSE g[u - 1] + Tokens[u - 1].length
      <3>0. u - 1 \in 0 .. n BY <1>1
      <3>1. f[u - 1] \in Nat /\ f[u] = step[<<u, f[u - 1]>>] BY <1>3, <3>0
      <3>2. step[<<u, f[u - 1]>>] = IF u = 1 THEN 0 ELSE f[u - 1] + Tokens[u - 1].length
        BY <3>1
      <3>3. u # 1 => g[u - 1] = f[u - 1] BY <1>1
      <3> QED BY <3>1, <3>2, <3>3
    <2>2. g = [u \in 1 .. n |-> g[u]] OBVIOUS
    <2> HIDE DEF g
    <2>3. g = [u \in 1 .. n |-> IF u = 1 THEN 0 ELSE g[u - 1] + Tokens[u - 1].length]
      BY <2>1, <2>2
    <2>4. IsStart(g) BY <1>1, <2>3
    <2> QED BY <2>4 DEF g
  <1>5. IsStart(start) BY <1>4
  <1>6. \A t : SourceStart(t) = start[t] BY DEF SourceStart
  <1> HIDE DEF start
  <1>7. \A u \in 1 .. n : start[u] = IF u = 1 THEN 0 ELSE start[u - 1] + Tokens[u - 1].length
    BY <1>1, <1>5
  <1> DEFINE Good == {t \in 0 .. n : t # 0 => start[t] \in Nat}
  <1>8. \A t \in 0 .. n : t \in Good
    <2>1. 0 \in Good BY <1>1
    <2>2. ASSUME NEW t \in 1 .. n, t - 1 \in Good PROVE t \in Good
      <3>1. CASE t = 1 BY <1>7, <3>1
      <3>2. CASE t # 1
        <4>1. t - 1 \in 1 .. n /\ start[t - 1] \in Nat BY <1>1, <2>2, <3>2
        <4>2. Tokens[t - 1].length \in Nat BY <4>1, TokenFacts
        <4>3. start[t] = start[t - 1] + Tokens[t - 1].length BY <1>7, <3>2
        <4> QED BY <4>1, <4>2, <4>3
      <3> QED BY <3>1, <3>2
    <2> HIDE DEF Good
    <2> QED BY <1>1, <2>1, <2>2, UpToIsIn
  <1> QED BY SMTT(30), <1>6, <1>7, <1>8 DEF SourceEnd

\* The tokens stand one after the other.
LEMMA StartsRise ==
    \A t, u \in 1 .. Len(Tokens) : t < u => SourceEnd(t) <= SourceStart(u)
  <1> SUFFICES ASSUME NEW t \in 1 .. Len(Tokens)
               PROVE  \A u \in 1 .. Len(Tokens) : t < u => SourceEnd(t) <= SourceStart(u)
    OBVIOUS
  <1> DEFINE Good == {u \in 0 .. Len(Tokens) : t < u => SourceEnd(t) <= SourceStart(u)}
  <1>1. 0 \in Good BY TokenFacts
  <1>2. ASSUME NEW u \in 1 .. Len(Tokens), u - 1 \in Good PROVE u \in Good
    <2>1. SUFFICES ASSUME t < u PROVE SourceEnd(t) <= SourceStart(u) BY TokenFacts
    <2>2. u # 1 /\ u - 1 \in 1 .. Len(Tokens) BY <2>1, TokenFacts
    <2>3. SourceStart(u) = SourceEnd(u - 1) BY <2>2, StartFacts
    <2>4. SourceStart(u - 1) \in Nat /\ Tokens[u - 1].length \in Nat /\ SourceStart(t) \in Nat
          /\ Tokens[t].length \in Nat
      BY <2>2, StartFacts, TokenFacts
    <2>5. CASE t = u - 1 BY <2>3, <2>4, <2>5 DEF SourceEnd
    <2>6. CASE t # u - 1
      <3>1. SourceEnd(t) <= SourceStart(u - 1) BY <1>2, <2>1, <2>6
      <3> QED BY <2>3, <2>4, <3>1 DEF SourceEnd
    <2> QED BY <2>5, <2>6
  <1> HIDE DEF Good
  <1>3. \A u \in 0 .. Len(Tokens) : u \in Good BY <1>1, <1>2, TokenFacts, UpToIsIn
  <1> QED BY <1>3 DEF Good

-----------------------------------------------------------------------------
(* Text nodes.                                                               *)

\* A character is the token and its place; a node has a text and a mark.
Chars == Nat \X Nat
TextNode == [text : Seq(Chars), mark : Nat]

LEMMA NodeFacts ==
    /\ \A x \in TextNode : x.text \in Seq(Chars) /\ x.mark \in Nat /\ x = Node(x.text, x.mark)
    /\ \A text \in Seq(Chars), id \in Nat :
           Node(text, id) \in TextNode /\ Node(text, id).text = text /\ Node(text, id).mark = id
BY DEF TextNode, Node

\* The text of the first i nodes.
TextRuns(f, nodes, n) ==
    f[0] = <<>> /\ \A i \in 1 .. n : f[i] = f[i - 1] \o nodes[i].text

\* The text of nodes is joined one after another.
LEMMA TextRun ==
    ASSUME NEW nodes \in Seq(TextNode)
    PROVE  \E f \in [0 .. Len(nodes) -> Seq(Chars)] :
               TextRuns(f, nodes, Len(nodes)) /\ TextOf(nodes) = f[Len(nodes)]
  <1> DEFINE n == Len(nodes)
             A == Seq(Chars)
             a == <<>>
             seqs == [i \in DOMAIN nodes |-> nodes[i].text]
             step == [r \in (1 .. n) \X A |-> r[2] \o nodes[r[1]].text]
             IsJoined(g) == g = [i \in 1 .. n |-> IF i = 1 THEN seqs[i] ELSE g[i - 1] \o seqs[i]]
             joined == CHOOSE g : IsJoined(g)
  <1>1. n \in Nat /\ DOMAIN nodes = 1 .. n /\ a \in A /\ Len(seqs) = n OBVIOUS
  <1>2. \A i \in 1 .. n : nodes[i] \in TextNode /\ nodes[i].text \in A BY NodeFacts
  <1>3. StaysIn(step, n, A)
    <2>1. ASSUME NEW i \in 1 .. n, NEW x \in A PROVE step[<<i, x>>] \in A
      <3>1. step[<<i, x>>] = x \o nodes[i].text OBVIOUS
      <3> QED BY <1>2, <3>1
    <2> HIDE DEF step
    <2> QED BY <2>1 DEF StaysIn
  <1>4. PICK f \in [0 .. n -> A] : Follows(f, step, a, n)
    <2> HIDE DEF step, n, A, a
    <2> QED BY <1>1, <1>3, StepsAreTaken
  <1>5. \A i \in 1 .. n : f[i] = f[i - 1] \o nodes[i].text
    <2>1. ASSUME NEW i \in 1 .. n PROVE f[i] = f[i - 1] \o nodes[i].text
      <3>1. i - 1 \in 0 .. n BY <1>1
      <3>2. f[i - 1] \in A BY <1>4, <3>1
      <3>3. f[i] = step[<<i, f[i - 1]>>] BY <1>4 DEF Follows
      <3>4. step[<<i, f[i - 1]>>] = f[i - 1] \o nodes[i].text BY <3>2
      <3> QED BY <3>3, <3>4
    <2> QED BY <2>1
  <1>6. TextRuns(f, nodes, n) BY <1>4, <1>5 DEF TextRuns, Follows
  <1>7. TextOf(nodes) = f[n]
    <2>1. CASE n = 0
      <3>1. TextOf(nodes) = seqs BY <1>1, <2>1 DEF TextOf, FlattenSeq
      <3>2. seqs = <<>> BY <1>1, <2>1
      <3> QED BY <1>4, <2>1, <3>1, <3>2 DEF Follows
    <2>2. CASE n # 0
      <3>1. TextOf(nodes) = joined[n] BY <1>1, <2>2 DEF TextOf, FlattenSeq
      <3>2. IsJoined([i \in 1 .. n |-> f[i]])
        <4> DEFINE g == [i \in 1 .. n |-> f[i]]
        <4>1. ASSUME NEW i \in 1 .. n
              PROVE  g[i] = IF i = 1 THEN seqs[i] ELSE g[i - 1] \o seqs[i]
          <5>1. g[i] = f[i - 1] \o nodes[i].text /\ seqs[i] = nodes[i].text BY <1>1, <1>5
          <5>2. i # 1 => g[i - 1] = f[i - 1] BY <1>1
          <5>3. i = 1 => f[i - 1] = <<>> BY <1>4 DEF Follows
          <5>4. <<>> \o nodes[i].text = nodes[i].text BY <1>2
          <5> QED BY <5>1, <5>2, <5>3, <5>4
        <4>2. g = [i \in 1 .. n |-> g[i]] OBVIOUS
        <4> HIDE DEF g, seqs
        <4>3. g = [i \in 1 .. n |-> IF i = 1 THEN seqs[i] ELSE g[i - 1] \o seqs[i]]
          BY <4>1, <4>2
        <4>4. IsJoined(g) BY <4>3
        <4> QED BY <4>4 DEF g
      <3>3. IsJoined(joined)
        <4> HIDE DEF seqs
        <4> QED BY <3>2
      <3> HIDE DEF joined
      <3>4. \A i \in 1 .. n : joined[i] = IF i = 1 THEN seqs[i] ELSE joined[i - 1] \o seqs[i]
        <4> HIDE DEF seqs
        <4> QED BY <3>3
      <3> DEFINE Good == {i \in 0 .. n : i # 0 => joined[i] = f[i]}
      <3>5. 0 \in Good BY <1>1
      <3>6. ASSUME NEW i \in 1 .. n, i - 1 \in Good PROVE i \in Good
        <4>1. f[i] = f[i - 1] \o nodes[i].text /\ seqs[i] = nodes[i].text BY <1>1, <1>5
        <4>2. i # 1 => joined[i - 1] = f[i - 1] BY <1>1, <3>6
        <4>3. i = 1 => f[i - 1] = <<>> BY <1>4 DEF Follows
        <4>4. <<>> \o nodes[i].text = nodes[i].text BY <1>2
        <4>5. joined[i] = f[i]
          <5> HIDE DEF seqs
          <5> QED BY <3>4, <4>1, <4>2, <4>3, <4>4
        <4> QED BY <4>5
      <3> HIDE DEF Good
      <3>7. \A i \in 0 .. n : i \in Good BY <1>1, <3>5, <3>6, UpToIsIn
      <3>8. n \in Good BY <1>1, <3>7
      <3> QED BY <2>2, <3>1, <3>8 DEF Good
    <2> QED BY <2>1, <2>2
  <1> QED BY <1>4, <1>6, <1>7

\* The text of a row of nodes, and with one more.
LEMMA TextFacts ==
    ASSUME NEW nodes \in Seq(TextNode)
    PROVE  /\ TextOf(nodes) \in Seq(Chars)
           /\ nodes = <<>> => TextOf(nodes) = <<>>
           /\ \A x \in TextNode : TextOf(Append(nodes, x)) = TextOf(nodes) \o x.text
  <1> DEFINE n == Len(nodes)
  <1>1. PICK f \in [0 .. n -> Seq(Chars)] : TextRuns(f, nodes, n) /\ TextOf(nodes) = f[n]
    BY TextRun
  <1>2. n \in Nat OBVIOUS
  <1>3. ASSUME NEW x \in TextNode PROVE TextOf(Append(nodes, x)) = TextOf(nodes) \o x.text
    <2> DEFINE more == Append(nodes, x)
    <2>1. more \in Seq(TextNode) /\ Len(more) = n + 1 /\ more[n + 1] = x
          /\ \A i \in 1 .. n : more[i] = nodes[i]
      OBVIOUS
    <2> HIDE DEF more
    <2>2. PICK g \in [0 .. n + 1 -> Seq(Chars)] :
              TextRuns(g, more, n + 1) /\ TextOf(more) = g[n + 1]
      BY <2>1, TextRun
    <2> DEFINE Good == {i \in 0 .. n : g[i] = f[i]}
    <2>3. 0 \in Good BY <1>1, <1>2, <2>2 DEF TextRuns
    <2>4. ASSUME NEW i \in 1 .. n, i - 1 \in Good PROVE i \in Good
      <3>1. f[i] = f[i - 1] \o nodes[i].text BY <1>1 DEF TextRuns
      <3>2. i \in 1 .. n + 1 BY <1>2
      <3>3. g[i] = g[i - 1] \o more[i].text BY <2>2, <3>2 DEF TextRuns
      <3>4. g[i - 1] = f[i - 1] BY <2>4
      <3>5. more[i] = nodes[i] BY <2>1
      <3>6. g[i] = f[i]
        <4> HIDE DEF n, Good
        <4> QED BY <3>1, <3>3, <3>4, <3>5
      <3> QED BY <3>6
    <2> HIDE DEF Good
    <2>5. \A i \in 0 .. n : i \in Good BY <1>2, <2>3, <2>4, UpToIsIn
    <2>6. g[n] = f[n] BY <1>2, <2>5 DEF Good
    <2>7. n + 1 \in 1 .. n + 1 /\ (n + 1) - 1 = n BY <1>2
    <2>8. g[n + 1] = g[n] \o more[n + 1].text BY <2>2, <2>7 DEF TextRuns
    <2> QED BY <1>1, <2>1, <2>2, <2>6, <2>8 DEF more
  <1>4. nodes = <<>> => TextOf(nodes) = <<>> BY <1>1 DEF TextRuns
  <1> QED BY <1>1, <1>2, <1>3, <1>4

-----------------------------------------------------------------------------
(* The pieces of a plain token.                                              *)

\* A highlight: its number and a range that is not empty.
Mark == {h \in [id : Nat, from : Nat, to : Nat] : h.id # 0 /\ h.from < h.to}

\* A highlight has an id and is not empty.
LEMMA MarkFacts ==
    \A h \in Mark : h.id \in Nat \ {0} /\ h.from \in Nat /\ h.to \in Nat /\ h.from < h.to
BY DEF Mark

\* A range has the p-th character of a token.
Hits(h, t, p) == LocalFrom(h, t) < p /\ p <= LocalTo(h, t)

\* The piece x shows the p-th character of t, in the colour of the marks used.
Coloured(x, t, list, used, p) ==
    /\ \A j \in used : Hits(list[j], t, p) => x.mark = list[j].id
    /\ x.mark # 0 => \E j \in used : Hits(list[j], t, p) /\ list[j].id = x.mark

\* The nodes are pieces of the first c characters of a token, in their order.
Sliced(t, list, used, nodes, c) ==
    /\ TextOf(nodes) = SubSeq(CharsOf(t), 1, c)
    /\ c # 0 => nodes # <<>>
    /\ nodes # <<>> => \A k \in 1 .. Len(nodes[1].text) : nodes[1].text[k] = <<t, k>>
    /\ \A p \in 1 .. c : \E i \in 1 .. Len(nodes) : \E k \in 1 .. Len(nodes[i].text) :
           nodes[i].text[k] = <<t, p>>
    /\ \A i \in 1 .. Len(nodes) : \A k \in 1 .. Len(nodes[i].text) : \E p \in 1 .. c :
           /\ nodes[i].text[k] = <<t, p>>
           /\ i # 1 => p > Len(nodes[1].text)
           /\ Coloured(nodes[i], t, list, used, p)
    /\ \A i \in 1 .. Len(nodes) : nodes[i].mark # 0 => \E j \in used : list[j].id = nodes[i].mark

\* Where a range that reaches a token begins and ends in it.
LEMMA LocalFacts ==
    ASSUME NEW t \in 1 .. Len(Tokens), NEW h \in Mark, Reaches(h, t)
    PROVE  /\ LocalFrom(h, t) \in Nat /\ LocalTo(h, t) \in Nat
           /\ LocalFrom(h, t) < LocalTo(h, t) /\ LocalTo(h, t) <= Tokens[t].length
           /\ \A p \in 1 .. Tokens[t].length : Hits(h, t, p) <=>
                  h.from < SourceStart(t) + p /\ SourceStart(t) + p <= h.to
  <1>1. SourceStart(t) \in Nat /\ Tokens[t].length \in Nat \ {0} BY StartFacts, TokenFacts
  <1>2. h.from \in Nat /\ h.to \in Nat /\ h.from < h.to BY MarkFacts
  <1>3. SourceStart(t) < h.to /\ SourceStart(t) + Tokens[t].length > h.from
    BY DEF Reaches, SourceEnd
  <1>4. LocalFrom(h, t) = IF 0 > h.from - SourceStart(t) THEN 0 ELSE h.from - SourceStart(t)
    BY DEF LocalFrom, Bigger
  <1>5. LocalTo(h, t) = IF Tokens[t].length < h.to - SourceStart(t) THEN Tokens[t].length
                        ELSE h.to - SourceStart(t)
    BY DEF LocalTo, Lesser
  <1> DEFINE from == h.from
             to == h.to
             start == SourceStart(t)
             length == Tokens[t].length
  <1> HIDE DEF from, to, start, length
  <1>6. /\ start \in Nat /\ length \in Nat \ {0} /\ from \in Nat /\ to \in Nat
        /\ from < to /\ start < to /\ start + length > from
        /\ LocalFrom(h, t) = IF 0 > from - start THEN 0 ELSE from - start
        /\ LocalTo(h, t) = IF length < to - start THEN length ELSE to - start
    BY <1>1, <1>2, <1>3, <1>4, <1>5 DEF from, to, start, length
  <1>7. /\ LocalFrom(h, t) \in Nat /\ LocalTo(h, t) \in Nat
        /\ LocalFrom(h, t) < LocalTo(h, t) /\ LocalTo(h, t) <= length
        /\ \A p \in 1 .. length : Hits(h, t, p) <=> from < start + p /\ start + p <= to
    BY <1>6 DEF Hits
  <1> QED BY <1>7 DEF from, to, start, length

\* The characters of a token.
LEMMA CharFacts ==
    ASSUME NEW t \in 1 .. Len(Tokens)
    PROVE  /\ CharsOf(t) \in Seq(Chars) /\ Len(CharsOf(t)) = Tokens[t].shown
           /\ \A p \in 1 .. Tokens[t].shown : CharsOf(t)[p] = <<t, p>>
           /\ \A c \in 0 .. Tokens[t].shown, e \in 0 .. Tokens[t].shown : c < e =>
                  /\ SubSeq(CharsOf(t), c + 1, e) \in Seq(Chars)
                  /\ Len(SubSeq(CharsOf(t), c + 1, e)) = e - c
                  /\ \A k \in 1 .. e - c : SubSeq(CharsOf(t), c + 1, e)[k] = <<t, c + k>>
                  /\ SubSeq(CharsOf(t), 1, c) \o SubSeq(CharsOf(t), c + 1, e)
                         = SubSeq(CharsOf(t), 1, e)
           /\ SubSeq(CharsOf(t), 1, Tokens[t].shown) = CharsOf(t)
           /\ SubSeq(CharsOf(t), 1, 0) = <<>>
  <1> DEFINE n == Tokens[t].shown
             s == CharsOf(t)
  <1>1. n \in Nat /\ t \in Nat BY TokenFacts
  <1>2. \A p \in 1 .. n : s[p] = <<t, p>> /\ <<t, p>> \in Chars BY <1>1 DEF CharsOf, Chars
  <1>3. s \in Seq(Chars) /\ Len(s) = n
    <2>1. s = [p \in 1 .. n |-> <<t, p>>] BY DEF CharsOf
    <2>2. s \in [1 .. n -> Chars] BY <1>1, <1>2, <2>1
    <2> HIDE DEF s, n
    <2> QED BY <1>1, <2>2
  <1> HIDE DEF n, s
  <1>4. ASSUME NEW c \in 0 .. n, NEW e \in 0 .. n, c < e
        PROVE  /\ SubSeq(s, c + 1, e) \in Seq(Chars)
               /\ Len(SubSeq(s, c + 1, e)) = e - c
               /\ \A k \in 1 .. e - c : SubSeq(s, c + 1, e)[k] = <<t, c + k>>
               /\ SubSeq(s, 1, c) \o SubSeq(s, c + 1, e) = SubSeq(s, 1, e)
    <2>1. SubSeq(s, c + 1, e) \in Seq(Chars) /\ Len(SubSeq(s, c + 1, e)) = e - c
      BY <1>1, <1>3, <1>4
    <2>2. ASSUME NEW k \in 1 .. e - c PROVE SubSeq(s, c + 1, e)[k] = <<t, c + k>>
      <3>1. SubSeq(s, c + 1, e)[k] = s[c + k] BY <1>1, <1>3, <1>4
      <3>2. c + k \in 1 .. n BY <1>1, <1>4
      <3> QED BY <1>2, <3>1, <3>2
    <2>3. SubSeq(s, 1, c) \o SubSeq(s, c + 1, e) = SubSeq(s, 1, e)
      <3> DEFINE u == SubSeq(s, 1, c)
                 v == SubSeq(s, c + 1, e)
                 w == SubSeq(s, 1, e)
      <3>1. u \in Seq(Chars) /\ Len(u) = c /\ \A k \in 1 .. c : u[k] = s[k] BY <1>1, <1>3, <1>4
      <3>2. w \in Seq(Chars) /\ Len(w) = e /\ \A k \in 1 .. e : w[k] = s[k] BY <1>1, <1>3, <1>4
      <3>3. \A k \in 1 .. e - c : v[k] = s[c + k] BY <1>1, <1>3, <1>4
      <3>4. v \in Seq(Chars) /\ Len(v) = e - c BY <2>1
      <3> HIDE DEF u, v, w
      <3>5. Len(u \o v) = e /\ u \o v \in Seq(Chars) BY <1>4, <3>1, <3>4
      <3>6. ASSUME NEW k \in 1 .. e PROVE (u \o v)[k] = w[k]
        <4>1. CASE k <= c BY <1>4, <3>1, <3>2, <3>4, <4>1
        <4>2. CASE c < k
          <5>1. (u \o v)[k] = v[k - c] BY <1>4, <3>1, <3>4, <4>2
          <5>2. k - c \in 1 .. e - c BY <1>4, <4>2
          <5>3. v[k - c] = s[c + (k - c)] BY <3>3, <5>2
          <5>4. c + (k - c) = k BY <1>4
          <5> QED BY <3>2, <5>1, <5>3, <5>4
        <4>3. c \in Nat /\ k \in Nat BY <1>1, <1>4
        <4>4. k <= c \/ c < k BY <4>3
        <4> HIDE DEF n
        <4> QED BY <4>1, <4>2, <4>4
      <3>7. u \o v = w
        <4> DEFINE x == u \o v
        <4>1. x \in Seq(Chars) /\ Len(x) = e /\ \A k \in 1 .. e : x[k] = w[k] BY <3>5, <3>6
        <4> HIDE DEF x
        <4>2. x = w BY <3>2, <4>1
        <4> QED BY <4>2 DEF x
      <3> QED BY <3>7 DEF u, v, w
    <2> QED BY <2>1, <2>2, <2>3
  <1>5. SubSeq(s, 1, n) = s BY <1>1, <1>3
  <1>6. SubSeq(s, 1, 0) = <<>> BY <1>1, <1>3
  <1> QED BY <1>2, <1>3, <1>4, <1>5, <1>6 DEF n, s


\* What is cut from a whole token.
LEMMA CutFacts ==
    ASSUME NEW t \in 1 .. Len(Tokens), NEW c \in 0 .. Tokens[t].shown,
           NEW e \in 0 .. Tokens[t].shown, NEW id \in Nat
    PROVE  /\ c < e => Cut(CharsOf(t), c, e, id) = <<Node(SubSeq(CharsOf(t), c + 1, e), id)>>
           /\ c >= e => Cut(CharsOf(t), c, e, id) = <<>>
  <1>1. Len(CharsOf(t)) = Tokens[t].shown /\ Tokens[t].shown \in Nat BY CharFacts, TokenFacts
  <1>2. Lesser(e, Len(CharsOf(t))) = e BY <1>1 DEF Lesser
  <1> QED BY <1>1, <1>2 DEF Cut

\* One piece more.
LEMMA AddPiece ==
    ASSUME NEW t \in 1 .. Len(Tokens), NEW list, NEW used, NEW more, used \subseteq more,
           NEW c \in 0 .. Tokens[t].shown, NEW e \in 0 .. Tokens[t].shown, c < e,
           NEW id \in Nat, NEW nodes \in Seq(TextNode), Sliced(t, list, used, nodes, c),
           \A j \in more \ used : \A p \in 1 .. c : ~Hits(list[j], t, p),
           \A p \in c + 1 .. e : \A x : x.mark = id => Coloured(x, t, list, more, p),
           id # 0 => \E j \in more : list[j].id = id
    PROVE  /\ nodes \o Cut(CharsOf(t), c, e, id) \in Seq(TextNode)
           /\ Sliced(t, list, more, nodes \o Cut(CharsOf(t), c, e, id), e)
  <1> DEFINE n == Len(nodes)
             text == SubSeq(CharsOf(t), c + 1, e)
             x == Node(text, id)
             all == Append(nodes, x)
  <1>1. n \in Nat /\ c \in Nat /\ e \in Nat /\ t \in Nat BY TokenFacts
  <1>2. text \in Seq(Chars) /\ Len(text) = e - c /\ \A k \in 1 .. e - c : text[k] = <<t, c + k>>
    BY CharFacts
  <1>3. x \in TextNode /\ x.text = text /\ x.mark = id
    <2> HIDE DEF text
    <2> QED BY <1>2, NodeFacts
  <1>4. nodes \o Cut(CharsOf(t), c, e, id) = all
    <2>1. Cut(CharsOf(t), c, e, id) = <<x>> BY CutFacts
    <2> HIDE DEF x
    <2> QED BY <1>3, <2>1
  <1>5. all \in Seq(TextNode) /\ Len(all) = n + 1 /\ all[n + 1] = x
        /\ \A i \in 1 .. n : all[i] = nodes[i]
    <2> HIDE DEF x
    <2> QED BY <1>3
  <1>6. TextOf(all) = TextOf(nodes) \o text
    <2> HIDE DEF x
    <2> QED BY <1>3, TextFacts
  <1>7. TextOf(all) = SubSeq(CharsOf(t), 1, e)
    <2>1. TextOf(nodes) = SubSeq(CharsOf(t), 1, c) BY DEF Sliced
    <2>2. SubSeq(CharsOf(t), 1, c) \o text = SubSeq(CharsOf(t), 1, e) BY CharFacts
    <2> HIDE DEF all, text
    <2> QED BY <1>6, <2>1, <2>2
  <1> HIDE DEF text, x, all
  <1>8. n = 0 => c = 0 BY DEF Sliced
  <1>9. \A p \in c + 1 .. e : Coloured(x, t, list, more, p) BY <1>3
  <1>10. ASSUME NEW i \in 1 .. n, NEW p \in 1 .. c, Coloured(nodes[i], t, list, used, p)
         PROVE  Coloured(nodes[i], t, list, more, p)
    <2>1. \A j \in more : Hits(list[j], t, p) => j \in used OBVIOUS
    <2> QED BY <1>10, <2>1 DEF Coloured
  <1>11. \A k \in 1 .. Len(all[1].text) : all[1].text[k] = <<t, k>>
    <2>1. CASE n = 0
      <3>1. all[1] = x /\ c = 0 BY <1>5, <1>8, <2>1
      <3> QED BY <1>2, <1>3, <3>1
    <2>2. CASE n # 0
      <3>1. all[1] = nodes[1] /\ nodes # <<>> BY <1>1, <1>5, <2>2
      <3> QED BY <3>1 DEF Sliced
    <2> QED BY <2>1, <2>2
  <1>12. n # 0 => Len(nodes[1].text) <= c
    <2>1. SUFFICES ASSUME n # 0, Len(nodes[1].text) # 0 PROVE Len(nodes[1].text) <= c
      BY <1>1
    <2>2. nodes # <<>> /\ 1 \in 1 .. n BY <1>1, <2>1
    <2> DEFINE k == Len(nodes[1].text)
    <2>3. nodes[1].text \in Seq(Chars) BY <2>2, NodeFacts
    <2>4. k \in 1 .. k
      <3>1. k \in Nat BY <2>3
      <3> QED BY <2>1, <3>1
    <2>5. nodes[1].text[k] = <<t, k>> BY <2>2, <2>4 DEF Sliced
    <2>6. PICK p \in 1 .. c : nodes[1].text[k] = <<t, p>> BY <2>2, <2>4 DEF Sliced
    <2> QED BY <2>5, <2>6
  <1>13. ASSUME NEW p \in 1 .. e
         PROVE  \E i \in 1 .. n + 1 : \E k \in 1 .. Len(all[i].text) : all[i].text[k] = <<t, p>>
    <2>1. CASE p <= c
      <3>1. PICK i \in 1 .. n : \E k \in 1 .. Len(nodes[i].text) : nodes[i].text[k] = <<t, p>>
        <4>1. p \in 1 .. c BY <1>1, <2>1
        <4> QED BY <4>1 DEF Sliced
      <3>2. i \in 1 .. n + 1 /\ all[i] = nodes[i] BY <1>1, <1>5, <3>1
      <3> QED BY <3>1, <3>2
    <2>2. CASE c < p
      <3>1. p - c \in 1 .. e - c /\ c + (p - c) = p BY <1>1, <2>2
      <3>2. text[p - c] = <<t, p>> BY <1>2, <3>1
      <3>3. n + 1 \in 1 .. n + 1 BY <1>1
      <3>4. all[n + 1].text = text /\ p - c \in 1 .. Len(text) BY <1>2, <1>3, <1>5, <3>1
      <3> QED BY <3>2, <3>3, <3>4
    <2> QED BY <1>1, <2>1, <2>2
  <1>14. ASSUME NEW i \in 1 .. n + 1, NEW k \in 1 .. Len(all[i].text)
         PROVE  \E p \in 1 .. e : /\ all[i].text[k] = <<t, p>>
                                  /\ i # 1 => p > Len(all[1].text)
                                  /\ Coloured(all[i], t, list, more, p)
    <2>1. CASE i \in 1 .. n
      <3>1. all[i] = nodes[i] /\ all[1] = nodes[1] BY SMTT(30), <1>1, <1>5, <2>1
      <3>2. PICK p \in 1 .. c : /\ nodes[i].text[k] = <<t, p>>
                                /\ i # 1 => p > Len(nodes[1].text)
                                /\ Coloured(nodes[i], t, list, used, p)
        BY <2>1, <3>1 DEF Sliced
      <3>3. p \in 1 .. e BY <1>1
      <3>4. Coloured(nodes[i], t, list, more, p) BY <1>10, <2>1, <3>2
      <3> QED BY <3>1, <3>2, <3>3, <3>4
    <2>2. CASE i = n + 1
      <3>1. all[i] = x /\ k \in 1 .. e - c BY <1>2, <1>3, <1>5, <2>2
      <3>2. all[i].text[k] = <<t, c + k>> BY <1>2, <1>3, <3>1
      <3>3. c + k \in c + 1 .. e /\ c + k \in 1 .. e /\ c + k > c BY <1>1, <3>1
      <3>4. i # 1 => c + k > Len(all[1].text)
        <4>1. SUFFICES ASSUME i # 1 PROVE c + k > Len(all[1].text) OBVIOUS
        <4>2. n # 0 /\ all[1] = nodes[1] BY <1>1, <1>5, <2>2, <4>1
        <4>3. nodes[1].text \in Seq(Chars)
          <5>1. 1 \in 1 .. n BY <1>1, <4>2
          <5> QED BY <5>1, NodeFacts
        <4>4. Len(nodes[1].text) \in Nat BY <4>3
        <4> QED BY <1>1, <1>12, <3>3, <4>2, <4>4
      <3> QED BY <1>9, <3>1, <3>2, <3>3, <3>4
    <2> QED BY SMTT(30), <1>1, <2>1, <2>2
  <1>15. ASSUME NEW i \in 1 .. n + 1, all[i].mark # 0
         PROVE  \E j \in more : list[j].id = all[i].mark
    <2>1. CASE i \in 1 .. n
      <3>1. all[i] = nodes[i] BY <1>5, <2>1
      <3> QED BY <1>15, <2>1, <3>1 DEF Sliced
    <2>2. CASE i = n + 1 BY <1>3, <1>5, <1>15, <2>2
    <2> QED BY <1>1, <2>1, <2>2
  <1>16. all # <<>> BY <1>1, <1>5
  <1>17. Sliced(t, list, more, all, e)
    <2> HIDE DEF n
    <2> QED BY <1>5, <1>7, <1>11, <1>13, <1>14, <1>15, <1>16 DEF Sliced
  <1> QED BY <1>4, <1>5, <1>17

\* The ranges that reach a token are some of the list.
LEMMA OverFacts ==
    ASSUME NEW t \in 1 .. Len(Tokens), NEW list \in Seq(Mark)
    PROVE  /\ Over(t, list) \subseteq 1 .. Len(list) /\ IsFiniteSet(Over(t, list))
           /\ Cardinality(Over(t, list)) \in Nat
           /\ \A i \in Over(t, list) : list[i] \in Mark /\ Reaches(list[i], t)
           /\ \A i \in 1 .. Len(list) : Reaches(list[i], t) => i \in Over(t, list)
  <1>1. DOMAIN list = 1 .. Len(list) /\ Len(list) \in Nat OBVIOUS
  <1>2. t # 0 BY TokenFacts
  <1>3. Over(t, list) \subseteq 1 .. Len(list) BY <1>1 DEF Over
  <1>4. IsFiniteSet(1 .. Len(list)) BY <1>1, FS_Interval
  <1>5. IsFiniteSet(Over(t, list)) BY <1>3, <1>4, FS_Subset
  <1>6. \A i \in Over(t, list) : list[i] \in Mark /\ Reaches(list[i], t)
    BY <1>1 DEF Over
  <1>7. \A i \in 1 .. Len(list) : Reaches(list[i], t) => i \in Over(t, list)
    BY <1>1, <1>2 DEF Over
  <1> QED BY <1>3, <1>5, <1>6, <1>7, FS_CardinalityType

\* There is a first one of the ranges that are left.
LEMMA LeftmostFacts ==
    ASSUME NEW t \in 1 .. Len(Tokens), NEW list \in Seq(Mark),
           NEW rest, rest \subseteq Over(t, list), rest # {}
    PROVE  /\ Leftmost(t, list, rest) \in rest
           /\ \A j \in rest : LocalFrom(list[Leftmost(t, list, rest)], t) <= LocalFrom(list[j], t)
  <1> DEFINE First(i) == \A j \in rest :
                 \/ LocalFrom(list[i], t) < LocalFrom(list[j], t)
                 \/ LocalFrom(list[i], t) = LocalFrom(list[j], t) /\ i <= j
             places == {LocalFrom(list[j], t) : j \in rest}
  <1>1. \A j \in rest : j \in Nat /\ LocalFrom(list[j], t) \in Nat BY OverFacts, LocalFacts
  <1>2. places \subseteq Nat /\ places # {} BY <1>1
  <1>3. PICK a \in places : \A b \in places : a <= b
    <2> HIDE DEF places
    <2> QED BY <1>2, LeastNumber
  <1> DEFINE ties == {j \in rest : LocalFrom(list[j], t) = a}
  <1>4. ties \subseteq Nat /\ ties # {} BY <1>1, <1>3
  <1>5. PICK i \in ties : \A j \in ties : i <= j
    <2> HIDE DEF ties
    <2> QED BY <1>4, LeastNumber
  <1>6. i \in rest /\ LocalFrom(list[i], t) = a BY <1>5
  <1>7. ASSUME NEW j \in rest
        PROVE  \/ LocalFrom(list[i], t) < LocalFrom(list[j], t)
               \/ LocalFrom(list[i], t) = LocalFrom(list[j], t) /\ i <= j
    <2>1. LocalFrom(list[j], t) \in places /\ LocalFrom(list[j], t) \in Nat /\ a \in Nat
      BY <1>1, <1>6
    <2>2. a <= LocalFrom(list[j], t)
      <3> HIDE DEF places
      <3> QED BY <1>3, <2>1
    <2>3. CASE LocalFrom(list[j], t) = a
      <3>1. j \in ties BY <2>3
      <3>2. i <= j
        <4> HIDE DEF ties
        <4> QED BY <1>5, <3>1
      <3> QED BY <1>6, <2>3, <3>2
    <2>4. CASE LocalFrom(list[j], t) # a BY <1>6, <2>1, <2>2, <2>4
    <2> QED BY <2>3, <2>4
  <1>8. First(i) BY <1>7
  <1> HIDE DEF places, ties
  <1>9. Leftmost(t, list, rest) = CHOOSE k \in rest : First(k) BY DEF Leftmost
  <1> DEFINE l == CHOOSE k \in rest : First(k)
  <1>10. l \in rest /\ First(l)
    <2> HIDE DEF First
    <2> QED BY <1>6, <1>8
  <1>11. ASSUME NEW j \in rest PROVE LocalFrom(list[l], t) <= LocalFrom(list[j], t)
    <2>1. \/ LocalFrom(list[l], t) < LocalFrom(list[j], t)
          \/ LocalFrom(list[l], t) = LocalFrom(list[j], t)
      BY <1>10
    <2>2. LocalFrom(list[l], t) \in Nat /\ LocalFrom(list[j], t) \in Nat BY <1>1, <1>10
    <2> HIDE DEF l
    <2> QED BY <2>1, <2>2
  <1> QED BY <1>9, <1>10, <1>11

\* A piece that is cut out is a node, or nothing.
LEMMA CutTyped ==
    ASSUME NEW text \in Seq(Chars), NEW from \in Nat, NEW to \in Nat, NEW id \in Nat
    PROVE  Cut(text, from, to, id) \in Seq(TextNode)
  <1> DEFINE end == Lesser(to, Len(text))
             x == Node(SubSeq(text, from + 1, end), id)
  <1>1. end \in Nat /\ end <= Len(text) BY DEF Lesser
  <1> HIDE DEF end
  <1>2. CASE from < end
    <2>1. SubSeq(text, from + 1, end) \in Seq(Chars) BY <1>1, <1>2
    <2>2. x \in TextNode BY <2>1, NodeFacts
    <2>3. Cut(text, from, to, id) = <<x>> BY <1>2 DEF Cut, end
    <2> HIDE DEF x
    <2> QED BY <2>2, <2>3
  <1>3. CASE ~(from < end)
    <2>1. Cut(text, from, to, id) = <<>> BY <1>3 DEF Cut, end
    <2> QED BY <2>1
  <1> QED BY <1>2, <1>3

\* What is done: the nodes, how far they go, and the ranges that are left.
Done(t, list, d) ==
    /\ d.nodes \in Seq(TextNode) /\ d.cursor \in Nat /\ d.rest \subseteq Over(t, list)
    /\ d = [nodes |-> d.nodes, cursor |-> d.cursor, rest |-> d.rest]

\* One range after another leaves one range less.
LEMMA CutNextTyped ==
    ASSUME NEW t \in 1 .. Len(Tokens), NEW text \in Seq(Chars), NEW list \in Seq(Mark),
           NEW d, Done(t, list, d), d.rest # {}
    PROVE  /\ Done(t, list, CutNext(t, text, list, d))
           /\ CutNext(t, text, list, d).rest = d.rest \ {Leftmost(t, list, d.rest)}
           /\ Leftmost(t, list, d.rest) \in d.rest
  <1> DEFINE i == Leftmost(t, list, d.rest)
             from == LocalFrom(list[i], t)
             to == LocalTo(list[i], t)
             one == Cut(text, d.cursor, from, 0)
             two == Cut(text, from, to, list[i].id)
  <1>1. i \in d.rest /\ i \in Over(t, list) BY LeftmostFacts DEF Done
  <1>2. list[i] \in Mark /\ Reaches(list[i], t) BY <1>1, OverFacts
  <1>3. from \in Nat /\ to \in Nat /\ list[i].id \in Nat BY <1>2, LocalFacts, MarkFacts
  <1> HIDE DEF from, to
  <1>4. one \in Seq(TextNode) /\ two \in Seq(TextNode) BY <1>3, CutTyped DEF Done
  <1>5. CutNext(t, text, list, d)
            = [nodes |-> d.nodes \o one \o two, cursor |-> to, rest |-> d.rest \ {i}]
    BY DEF CutNext, from, to
  <1> HIDE DEF one, two, i
  <1>6. d.nodes \o one \o two \in Seq(TextNode) BY <1>4 DEF Done
  <1>7. d.rest \ {i} \subseteq Over(t, list) BY DEF Done
  <1> QED BY <1>1, <1>3, <1>5, <1>6, <1>7 DEF Done, i

\* The ranges of a token one after the other.
Planned(plan, t, text, list) ==
    /\ plan[0] = [nodes |-> <<>>, cursor |-> 0, rest |-> Over(t, list)]
    /\ \A n \in 1 .. Cardinality(Over(t, list)) : plan[n] = CutNext(t, text, list, plan[n - 1])

\* What a plan has done after k ranges.
LEMMA PlanTyped ==
    ASSUME NEW t \in 1 .. Len(Tokens), NEW text \in Seq(Chars), NEW list \in Seq(Mark),
           NEW plan, Planned(plan, t, text, list)
    PROVE  \A k \in 0 .. Cardinality(Over(t, list)) :
               /\ Done(t, list, plan[k])
               /\ Cardinality(plan[k].rest) = Cardinality(Over(t, list)) - k
  <1> DEFINE m == Cardinality(Over(t, list))
             Good == {k \in 0 .. m : /\ Done(t, list, plan[k])
                                     /\ Cardinality(plan[k].rest) = m - k}
  <1>1. m \in Nat /\ IsFiniteSet(Over(t, list)) BY OverFacts
  <1>2. 0 \in Good
    <2>1. plan[0] = [nodes |-> <<>>, cursor |-> 0, rest |-> Over(t, list)] BY DEF Planned
    <2>2. Done(t, list, plan[0]) /\ plan[0].rest = Over(t, list) BY <2>1 DEF Done
    <2> QED BY <1>1, <2>2
  <1>3. ASSUME NEW k \in 1 .. m, k - 1 \in Good PROVE k \in Good
    <2> DEFINE d == plan[k - 1]
    <2>1. Done(t, list, d) /\ Cardinality(d.rest) = m - (k - 1) BY <1>3
    <2>2. plan[k] = CutNext(t, text, list, d) BY DEF Planned
    <2> HIDE DEF d
    <2>9. d.rest \subseteq Over(t, list) BY <2>1 DEF Done
    <2>3. IsFiniteSet(d.rest) BY <1>1, <2>9, FS_Subset
    <2>4. Cardinality(d.rest) # 0 BY <1>1, <2>1
    <2>5. d.rest # {} BY <2>4, FS_EmptySet
    <2>6. /\ Done(t, list, plan[k]) /\ plan[k].rest = d.rest \ {Leftmost(t, list, d.rest)}
          /\ Leftmost(t, list, d.rest) \in d.rest
      BY <2>1, <2>2, <2>5, CutNextTyped
    <2>7. Cardinality(plan[k].rest) = Cardinality(d.rest) - 1
      <3> DEFINE r == d.rest
                 i == Leftmost(t, list, d.rest)
      <3>1. IsFiniteSet(r) /\ i \in r /\ plan[k].rest = r \ {i} BY <2>3, <2>6
      <3> HIDE DEF r, i
      <3>2. Cardinality(r \ {i}) = Cardinality(r) - 1 BY <3>1, FS_RemoveElement
      <3> QED BY <3>1, <3>2 DEF r
    <2>8. Cardinality(plan[k].rest) = m - k
      <3>1. Cardinality(plan[k].rest) = m - (k - 1) - 1 BY <2>1, <2>7
      <3>2. m \in Nat /\ k \in 1 .. m BY <1>1
      <3> HIDE DEF m
      <3>3. m - (k - 1) - 1 = m - k BY <3>2
      <3> QED BY <3>1, <3>3
    <2>10. Done(t, list, plan[k]) /\ k \in 0 .. m BY <1>1, <2>6
    <2> HIDE DEF m
    <2> QED BY <2>8, <2>10
  <1> HIDE DEF Good, m
  <1>4. \A k \in 0 .. m : k \in Good BY <1>1, <1>2, <1>3, UpToIsIn
  <1> QED BY <1>4 DEF Good, m

\* The pieces of a token are what a plan makes, and what is left.
LEMMA PiecesArePlanned ==
    ASSUME NEW t \in 1 .. Len(Tokens), NEW list \in Seq(Mark),
           NEW nodes, nodes[1].text \in Seq(Chars)
    PROVE  \E plan :
               /\ Planned(plan, t, nodes[1].text, list)
               /\ Pieces(t, nodes, list)
                      = plan[Cardinality(Over(t, list))].nodes
                            \o Cut(nodes[1].text, plan[Cardinality(Over(t, list))].cursor,
                                   Len(nodes[1].text), 0)
                            \o Tail(nodes)
  <1> DEFINE m == Cardinality(Over(t, list))
             text == nodes[1].text
             a == [nodes |-> <<>>, cursor |-> 0, rest |-> Over(t, list)]
             A == [nodes : Seq(TextNode), cursor : Nat, rest : SUBSET Over(t, list)]
             step == [r \in (1 .. m) \X A |->
                         IF r[2].rest = {} THEN r[2] ELSE CutNext(t, text, list, r[2])]
             IsPlan(p) == p = [n \in 0 .. m |-> IF n = 0 THEN a ELSE CutNext(t, text, list, p[n - 1])]
             plan == CHOOSE p : IsPlan(p)
  <1>1. m \in Nat /\ IsFiniteSet(Over(t, list)) BY OverFacts
  <1>2. \A d : d \in A <=> Done(t, list, d) BY DEF Done
  <1>3. a \in A BY <1>2 DEF Done
  <1>4. a.rest = Over(t, list) OBVIOUS
  <1>5. \A i \in 1 .. m, d \in A :
            step[<<i, d>>] = IF d.rest = {} THEN d ELSE CutNext(t, text, list, d)
    <2> HIDE DEF A, a
    <2> QED OBVIOUS
  <1> HIDE DEF A, a, step, m, text
  <1>6. StaysIn(step, m, A)
    <2>1. ASSUME NEW i \in 1 .. m, NEW d \in A PROVE step[<<i, d>>] \in A
      <3>1. CASE d.rest = {} BY <1>5, <3>1
      <3>2. CASE d.rest # {}
        <4>1. Done(t, list, CutNext(t, text, list, d)) BY <1>2, <3>2, CutNextTyped DEF text
        <4>2. step[<<i, d>>] = CutNext(t, text, list, d) BY <1>5, <3>2
        <4> QED BY <1>2, <4>1, <4>2
      <3> QED BY <3>1, <3>2
    <2> QED BY <2>1 DEF StaysIn
  <1>7. PICK f \in [0 .. m -> A] : Follows(f, step, a, m) BY <1>1, <1>3, <1>6, StepsAreTaken
  <1> DEFINE Good == {k \in 0 .. m : Cardinality(f[k].rest) = m - k}
  <1>8. 0 \in Good
    <2>1. f[0] = a /\ 0 \in 0 .. m BY <1>1, <1>7 DEF Follows
    <2>2. Cardinality(f[0].rest) = m BY <1>4, <2>1 DEF m
    <2>3. m = m - 0 BY <1>1
    <2> QED BY <2>1, <2>2, <2>3
  <1>9. ASSUME NEW k \in 1 .. m, k - 1 \in Good
        PROVE  k \in Good /\ f[k] = CutNext(t, text, list, f[k - 1])
    <2> DEFINE d == f[k - 1]
    <2>1. k - 1 \in 0 .. m /\ k \in 0 .. m BY <1>1
    <2>2. d \in A /\ Cardinality(d.rest) = m - (k - 1) BY <1>7, <1>9, <2>1
    <2>3. f[k] = step[<<k, d>>] BY <1>7 DEF Follows
    <2> HIDE DEF d, Good
    <2>4. Done(t, list, d) BY <1>2, <2>2
    <2>5. d.rest \subseteq Over(t, list) BY <2>4 DEF Done
    <2>6. IsFiniteSet(d.rest) BY <1>1, <2>5, FS_Subset
    <2>7. Cardinality(d.rest) # 0 BY <1>1, <2>2
    <2>8. d.rest # {} BY <2>7, FS_EmptySet
    <2>9. f[k] = CutNext(t, text, list, d) BY <1>5, <2>2, <2>3, <2>8
    <2> DEFINE r == d.rest
               i == Leftmost(t, list, d.rest)
    <2>10. f[k].rest = r \ {i} /\ i \in r BY <2>4, <2>8, <2>9, CutNextTyped DEF text
    <2>11. IsFiniteSet(r) /\ Cardinality(r) = m - (k - 1) BY <2>2, <2>6
    <2> HIDE DEF r, i
    <2>12. Cardinality(r \ {i}) = Cardinality(r) - 1 BY <2>10, <2>11, FS_RemoveElement
    <2>13. m - (k - 1) - 1 = m - k BY <1>1
    <2>14. Cardinality(f[k].rest) = m - k BY <2>10, <2>11, <2>12, <2>13
    <2>15. k \in Good BY <2>1, <2>14 DEF Good
    <2> QED BY <2>9, <2>15 DEF d
  <1>10. \A k \in 0 .. m : k \in Good
    <2> HIDE DEF Good
    <2> QED BY <1>1, <1>8, <1>9, UpToIsIn
  <1>11. \A k \in 1 .. m : f[k] = CutNext(t, text, list, f[k - 1])
    <2>1. ASSUME NEW k \in 1 .. m PROVE k - 1 \in 0 .. m BY <1>1
    <2> HIDE DEF Good
    <2> QED BY <1>9, <1>10, <2>1
  <1>12. IsPlan(f)
    <2>1. ASSUME NEW n \in 0 .. m
          PROVE  f[n] = IF n = 0 THEN a ELSE CutNext(t, text, list, f[n - 1])
      <3>1. CASE n = 0 BY <1>7, <3>1 DEF Follows
      <3>2. CASE n # 0
        <4>1. n \in 1 .. m BY <1>1, <3>2
        <4> QED BY <1>11, <3>2, <4>1
      <3> QED BY <3>1, <3>2
    <2>2. f = [n \in 0 .. m |-> f[n]] BY <1>7
    <2> HIDE DEF Good
    <2>3. f = [n \in 0 .. m |-> IF n = 0 THEN a ELSE CutNext(t, text, list, f[n - 1])]
      BY <2>1, <2>2
    <2> QED BY <2>3
  <1>13. IsPlan(plan) BY <1>12
  <1>14. Pieces(t, nodes, list)
             = plan[m].nodes \o Cut(text, plan[m].cursor, Len(text), 0) \o Tail(nodes)
    BY DEF Pieces, m, text, a
  <1> HIDE DEF plan
  <1>15. \A n \in 0 .. m : plan[n] = IF n = 0 THEN a ELSE CutNext(t, text, list, plan[n - 1])
    BY <1>13
  <1>16. plan[0] = a /\ \A n \in 1 .. m : plan[n] = CutNext(t, text, list, plan[n - 1])
    <2>1. 0 \in 0 .. m BY <1>1
    <2>2. \A n \in 1 .. m : n \in 0 .. m /\ n # 0 BY <1>1
    <2> QED BY <1>15, <2>1, <2>2
  <1>17. Planned(plan, t, text, list) BY <1>16 DEF Planned, a, m
  <1> QED BY <1>14, <1>17 DEF m, text

\* Ranges that do not overlap are one after the other in every token.
LEMMA ApartFacts ==
    ASSUME NEW t \in 1 .. Len(Tokens), NEW list \in Seq(Mark), ~Overlap(list),
           NEW i \in Over(t, list), NEW j \in Over(t, list), i # j
    PROVE  LocalTo(list[i], t) <= LocalFrom(list[j], t) \/ LocalTo(list[j], t) <= LocalFrom(list[i], t)
  <1>1. i \in 1 .. Len(list) /\ j \in 1 .. Len(list) /\ DOMAIN list = 1 .. Len(list)
        /\ Len(list) \in Nat
    BY OverFacts
  <1>2. /\ list[i] \in Mark /\ Reaches(list[i], t) /\ list[j] \in Mark /\ Reaches(list[j], t)
    BY OverFacts
  <1>3. /\ list[i].from \in Nat /\ list[i].to \in Nat
        /\ list[j].from \in Nat /\ list[j].to \in Nat
    BY <1>2, MarkFacts
  <1>4. list[i].to <= list[j].from \/ list[j].to <= list[i].from
    <2>1. i < j \/ j < i BY <1>1
    <2>2. CASE i < j
      <3>1. ~ (list[i].from < list[j].to /\ list[j].from < list[i].to) BY <1>1, <2>2 DEF Overlap
      <3> QED BY <1>3, <3>1
    <2>3. CASE j < i
      <3>1. ~ (list[j].from < list[i].to /\ list[i].from < list[j].to) BY <1>1, <2>3 DEF Overlap
      <3> QED BY <1>3, <3>1
    <2> QED BY <2>1, <2>2, <2>3
  <1>5. SourceStart(t) \in Nat /\ Tokens[t].length \in Nat BY StartFacts, TokenFacts
  <1> DEFINE a == list[i].from
             b == list[i].to
             c == list[j].from
             d == list[j].to
             start == SourceStart(t)
             length == Tokens[t].length
  <1>7. b <= c \/ d <= a BY <1>4
  <1>6. /\ a \in Nat /\ b \in Nat /\ c \in Nat /\ d \in Nat /\ start \in Nat /\ length \in Nat
        /\ LocalFrom(list[i], t) = IF 0 > a - start THEN 0 ELSE a - start
        /\ LocalFrom(list[j], t) = IF 0 > c - start THEN 0 ELSE c - start
        /\ LocalTo(list[i], t) = IF length < b - start THEN length ELSE b - start
        /\ LocalTo(list[j], t) = IF length < d - start THEN length ELSE d - start
    BY <1>3, <1>4, <1>5 DEF LocalFrom, LocalTo, Bigger, Lesser
  <1> HIDE DEF a, b, c, d, start, length
  <1> QED BY <1>6, <1>7

\* What a plan has done of a token that is whole.
Slicing(t, list, d) ==
    /\ d.cursor \in 0 .. Tokens[t].shown
    /\ Sliced(t, list, Over(t, list) \ d.rest, d.nodes, d.cursor)
    /\ \A j \in d.rest : d.cursor <= LocalFrom(list[j], t)
    /\ \A j \in Over(t, list) \ d.rest : LocalTo(list[j], t) <= d.cursor

\* The next range adds its piece, and the one before it, to the pieces.
LEMMA CutNextSlices ==
    ASSUME NEW t \in 1 .. Len(Tokens), Plain(t), NEW list \in Seq(Mark), ~Overlap(list),
           NEW d, Done(t, list, d), d.rest # {}, Slicing(t, list, d)
    PROVE  Slicing(t, list, CutNext(t, CharsOf(t), list, d))
  <1> DEFINE i == Leftmost(t, list, d.rest)
             from == LocalFrom(list[i], t)
             to == LocalTo(list[i], t)
             text == CharsOf(t)
             n == Tokens[t].shown
             one == d.nodes \o Cut(text, d.cursor, from, 0)
             two == one \o Cut(text, from, to, list[i].id)
             used == Over(t, list) \ d.rest
             rest == d.rest \ {i}
             new == CutNext(t, text, list, d)
  <1>1. /\ i \in d.rest /\ i \in Over(t, list)
        /\ \A j \in d.rest : from <= LocalFrom(list[j], t)
    BY LeftmostFacts DEF Done
  <1>2. list[i] \in Mark /\ Reaches(list[i], t) BY <1>1, OverFacts
  <1>3. n \in Nat /\ n = Tokens[t].length BY TokenFacts
  <1>4. /\ from \in Nat /\ to \in Nat /\ from < to /\ to <= n /\ list[i].id \in Nat
        /\ list[i].id # 0
    BY <1>2, <1>3, LocalFacts, MarkFacts
  <1>5. d.cursor \in 0 .. n /\ d.cursor <= from /\ d.nodes \in Seq(TextNode) BY <1>1 DEF Done, Slicing
  <1>6. from \in 0 .. n /\ to \in 0 .. n BY <1>3, <1>4
  <1>7. \A j \in Over(t, list) : /\ LocalFrom(list[j], t) \in Nat /\ LocalTo(list[j], t) \in Nat
                                 /\ LocalFrom(list[j], t) < LocalTo(list[j], t)
    BY OverFacts, LocalFacts
  <1>8. text \in Seq(Chars) BY CharFacts
  <1>9. new = [nodes |-> two, cursor |-> to, rest |-> rest] BY DEF CutNext
  <1>10. \A j \in used : LocalTo(list[j], t) <= d.cursor /\ j \in Over(t, list) BY DEF Slicing
  <1>11. Sliced(t, list, used, d.nodes, d.cursor) BY DEF Slicing
  <1>12. \A j \in Over(t, list), p \in Nat :
             Hits(list[j], t, p) <=> LocalFrom(list[j], t) < p /\ p <= LocalTo(list[j], t)
    BY DEF Hits
  <1> HIDE DEF i, from, to, text, n, one, two, used, rest, new
  <1>13. one \in Seq(TextNode) /\ Sliced(t, list, used, one, from)
    <2>1. CASE d.cursor = from
      <3>3. d.cursor >= from BY <1>3, <1>5, <1>6, <2>1
      <3>1. Cut(text, d.cursor, from, 0) = <<>> BY <1>5, <1>6, <3>3, CutFacts DEF text, n
      <3>2. one = d.nodes
        <4> DEFINE s == d.nodes
        <4>1. s \in Seq(TextNode) /\ one = s \o <<>> BY <1>5, <3>1 DEF one
        <4> HIDE DEF s
        <4>2. one = s BY <4>1
        <4> QED BY <4>2 DEF s
      <3> QED BY <1>5, <1>11, <2>1, <3>2
    <2>2. CASE d.cursor # from
      <3>1. d.cursor < from BY <1>4, <1>5, <1>3, <2>2
      <3>2. ASSUME NEW p \in d.cursor + 1 .. from, NEW x, x.mark = 0
            PROVE  Coloured(x, t, list, used, p)
        <4>1. p \in Nat /\ p > d.cursor BY <1>3, <1>4, <1>5
        <4>2. ASSUME NEW j \in used PROVE ~Hits(list[j], t, p)
          <5>1. LocalTo(list[j], t) <= d.cursor /\ LocalTo(list[j], t) \in Nat BY <1>7, <1>10
          <5> QED BY <1>3, <1>5, <4>1, <5>1 DEF Hits
        <4> QED BY <3>2, <4>2 DEF Coloured
      <3>3. used \subseteq used /\ used \ used = {} /\ 0 \in Nat OBVIOUS
      <3> QED BY <1>5, <1>6, <1>11, <3>1, <3>2, <3>3, AddPiece DEF one, text, n
    <2> QED BY <2>1, <2>2
  <1>14. two \in Seq(TextNode) /\ Sliced(t, list, used \cup {i}, two, to)
    <2>1. \A j \in (used \cup {i}) \ used : \A p \in 1 .. from : ~Hits(list[j], t, p)
      <3>1. ASSUME NEW p \in 1 .. from PROVE ~Hits(list[i], t, p) BY <1>4 DEF Hits, from
      <3> QED BY <3>1
    <2>2. ASSUME NEW p \in from + 1 .. to, NEW x, x.mark = list[i].id
          PROVE  Coloured(x, t, list, used \cup {i}, p)
      <3>1. p \in Nat /\ from < p /\ p <= to BY <1>4
      <3>2. ASSUME NEW j \in used PROVE ~Hits(list[j], t, p)
        <4>1. LocalTo(list[j], t) <= d.cursor /\ LocalTo(list[j], t) \in Nat BY <1>7, <1>10
        <4> QED BY <1>3, <1>4, <1>5, <3>1, <4>1 DEF Hits
      <3>3. Hits(list[i], t, p) BY <3>1 DEF Hits, from, to
      <3> QED BY <2>2, <3>2, <3>3 DEF Coloured
    <2>3. used \subseteq used \cup {i} /\ i \in used \cup {i} OBVIOUS
    <2> QED BY <1>4, <1>6, <1>13, <2>1, <2>2, <2>3, AddPiece DEF two, text, n
  <1>15. Over(t, list) \ rest = used \cup {i} BY <1>1 DEF rest, used
  <1>16. ASSUME NEW j \in rest PROVE to <= LocalFrom(list[j], t)
    <2>1. j \in d.rest /\ j # i /\ j \in Over(t, list) BY DEF rest, Done
    <2>2. to <= LocalFrom(list[j], t) \/ LocalTo(list[j], t) <= from
      BY <1>1, <2>1, ApartFacts DEF from, to
    <2>3. from <= LocalFrom(list[j], t) BY <1>1, <2>1
    <2>4. /\ LocalFrom(list[j], t) \in Nat /\ LocalTo(list[j], t) \in Nat
          /\ LocalFrom(list[j], t) < LocalTo(list[j], t)
      BY <1>7, <2>1
    <2> QED BY <1>4, <2>2, <2>3, <2>4
  <1>17. ASSUME NEW j \in used \cup {i} PROVE LocalTo(list[j], t) <= to
    <2>1. CASE j = i BY <1>4, <2>1 DEF to
    <2>2. CASE j \in used
      <3>1. LocalTo(list[j], t) <= d.cursor /\ LocalTo(list[j], t) \in Nat BY <1>7, <1>10, <2>2
      <3> QED BY <1>3, <1>4, <1>5, <3>1
    <2> QED BY <2>1, <2>2
  <1>18. new.cursor = to /\ new.nodes = two /\ new.rest = rest BY <1>9
  <1>19. Slicing(t, list, new) BY <1>6, <1>14, <1>15, <1>16, <1>17, <1>18 DEF Slicing, n
  <1> QED BY <1>19 DEF new, text

\* Before the first range there are no pieces.
LEMMA NothingSliced ==
    ASSUME NEW t \in 1 .. Len(Tokens), NEW list
    PROVE  Sliced(t, list, {}, <<>>, 0)
  <1> DEFINE none == <<>>
  <1>1. none \in Seq(TextNode)
    <2> HIDE DEF TextNode
    <2> QED OBVIOUS
  <1>2. SubSeq(CharsOf(t), 1, 0) = <<>> BY CharFacts
  <1>3. Len(none) = 0 /\ none = <<>> OBVIOUS
  <1> HIDE DEF none
  <1>4. TextOf(none) = <<>>
    <2>1. none = <<>> => TextOf(none) = <<>> BY <1>1, TextFacts, Zenon
    <2> QED BY <1>3, <2>1, Zenon
  <1>5. TextOf(none) = SubSeq(CharsOf(t), 1, 0) BY <1>2, <1>4
  <1>6. \A i : i \notin 1 .. Len(none)
    <2>1. 1 .. 0 = {} OBVIOUS
    <2> QED BY <1>3, <2>1
  <1>7. Sliced(t, list, {}, none, 0) BY <1>1, <1>3, <1>5, <1>6, Zenon DEF Sliced
  <1> QED BY <1>7 DEF none

\* All of a token in one node is a piece, too.
LEMMA RestSliced ==
    ASSUME NEW t \in 1 .. Len(Tokens), Plain(t), NEW list \in Seq(Mark),
           NEW c \in 0 .. Tokens[t].shown, NEW nodes \in Seq(TextNode),
           Sliced(t, list, Over(t, list), nodes, c),
           \A j \in Over(t, list) : LocalTo(list[j], t) <= c
    PROVE  /\ nodes \o Cut(CharsOf(t), c, Tokens[t].shown, 0) \in Seq(TextNode)
           /\ Sliced(t, list, Over(t, list),
                     nodes \o Cut(CharsOf(t), c, Tokens[t].shown, 0), Tokens[t].shown)
  <1> DEFINE n == Tokens[t].shown
             used == Over(t, list)
             cut == Cut(CharsOf(t), c, n, 0)
  <1>1. n \in Nat /\ n \in 0 .. n /\ 0 \in Nat /\ c \in Nat BY TokenFacts
  <1>2. CASE c = n
    <2>1. c >= n BY <1>1, <1>2
    <2>2. cut = <<>> BY <1>1, <2>1, CutFacts
    <2> HIDE DEF cut
    <2>3. nodes \o cut = nodes BY <2>2
    <2> HIDE DEF n
    <2> QED BY <1>2, <2>3 DEF cut, n
  <1>3. CASE c # n
    <2>1. c < n BY <1>1, <1>3
    <2>2. ASSUME NEW p \in c + 1 .. n, NEW x, x.mark = 0 PROVE Coloured(x, t, list, used, p)
      <3>1. ASSUME NEW j \in used PROVE ~Hits(list[j], t, p)
        <4>1. LocalTo(list[j], t) \in Nat /\ LocalTo(list[j], t) <= c BY OverFacts, LocalFacts
        <4> QED BY <1>1, <4>1 DEF Hits
      <3> QED BY <2>2, <3>1 DEF Coloured
    <2>3. used \subseteq used /\ used \ used = {} OBVIOUS
    <2> HIDE DEF used
    <2>4. Sliced(t, list, used, nodes, c) BY DEF used
    <2> QED BY <1>1, <2>1, <2>2, <2>3, <2>4, AddPiece DEF used
  <1> QED BY <1>2, <1>3

LEMMA WholeNode ==
    ASSUME NEW t \in 1 .. Len(Tokens), Plain(t)
    PROVE  /\ Node(CharsOf(t), 0) \in TextNode
           /\ <<Node(CharsOf(t), 0)>> \in Seq(TextNode)
           /\ TextOf(<<Node(CharsOf(t), 0)>>) = CharsOf(t)
           /\ \A list \in Seq(Mark) : Over(t, list) = {} =>
                  Sliced(t, list, {}, <<Node(CharsOf(t), 0)>>, Tokens[t].shown)
  <1> DEFINE x == Node(CharsOf(t), 0)
             n == Tokens[t].shown
  <1>1. x \in TextNode /\ x.text = CharsOf(t) /\ CharsOf(t) \in Seq(Chars) BY CharFacts, NodeFacts
  <1> HIDE DEF x
  <1>2. <<x>> \in Seq(TextNode) /\ <<x>> = Append(<<>>, x) BY <1>1
  <1>3. TextOf(<<x>>) = CharsOf(t)
    <2> DEFINE none == <<>>
    <2>1. none \in Seq(TextNode) /\ none = <<>> OBVIOUS
    <2> HIDE DEF none
    <2>2. TextOf(Append(none, x)) = TextOf(none) \o x.text /\ TextOf(none) = <<>>
      BY <1>1, <2>1, TextFacts
    <2>3. TextOf(<<x>>) = <<>> \o x.text BY <1>2, <2>1, <2>2
    <2> QED BY <1>1, <2>3
  <1>4. ASSUME NEW list \in Seq(Mark), Over(t, list) = {} PROVE Sliced(t, list, {}, <<x>>, n)
    <2>1. n \in Nat \ {0} /\ 0 \in 0 .. n /\ n \in 0 .. n /\ 0 < n /\ 0 \in Nat BY TokenFacts
    <2>2. Cut(CharsOf(t), 0, n, 0) = <<Node(SubSeq(CharsOf(t), 0 + 1, n), 0)>>
      BY <2>1, CutFacts
    <2>3. SubSeq(CharsOf(t), 0 + 1, n) = CharsOf(t) BY CharFacts
    <2>10. Cut(CharsOf(t), 0, n, 0) = <<x>> BY <2>2, <2>3 DEF x
    <2>4. <<>> \o Cut(CharsOf(t), 0, n, 0) = <<x>>
      <3> DEFINE s == <<x>>
      <3>1. s \in Seq(TextNode) BY <1>2
      <3> HIDE DEF s
      <3>2. <<>> \o s = s BY <3>1
      <3> QED BY <2>10, <3>2 DEF s
    <2>5. Sliced(t, list, Over(t, list), <<>>, 0) BY <1>4, NothingSliced
    <2>6. <<>> \in Seq(TextNode) OBVIOUS
    <2>7. \A j \in Over(t, list) : LocalTo(list[j], t) <= 0 BY <1>4
    <2> DEFINE none == <<>>
               zero == 0
    <2>8. /\ none \in Seq(TextNode) /\ zero \in 0 .. Tokens[t].shown
          /\ Sliced(t, list, Over(t, list), none, zero)
          /\ \A j \in Over(t, list) : LocalTo(list[j], t) <= zero
      BY <2>1, <2>5, <2>6, <2>7
    <2> HIDE DEF none, zero
    <2>9. Sliced(t, list, Over(t, list), none \o Cut(CharsOf(t), zero, n, 0), n)
      BY <2>8, RestSliced
    <2> QED BY <1>4, <2>4, <2>9 DEF none, zero
  <1> QED BY <1>1, <1>2, <1>3, <1>4 DEF x

\* The pieces of a token are nodes.
LEMMA PiecesTyped ==
    ASSUME NEW t \in 1 .. Len(Tokens), NEW list \in Seq(Mark), NEW x \in TextNode
    PROVE  Pieces(t, <<x>>, list) \in Seq(TextNode)
  <1> DEFINE nodes == <<x>>
             m == Cardinality(Over(t, list))
  <1>1. nodes[1] = x /\ Tail(nodes) = <<>> /\ x.text \in Seq(Chars) BY NodeFacts
  <1> HIDE DEF nodes
  <1>2. nodes[1].text \in Seq(Chars) BY <1>1
  <1>3. PICK plan : /\ Planned(plan, t, nodes[1].text, list)
                    /\ Pieces(t, nodes, list)
                           = plan[m].nodes \o Cut(nodes[1].text, plan[m].cursor,
                                                  Len(nodes[1].text), 0) \o Tail(nodes)
    BY <1>2, PiecesArePlanned
  <1>4. m \in Nat /\ m \in 0 .. m BY OverFacts
  <1>5. Done(t, list, plan[m]) BY <1>2, <1>3, <1>4, PlanTyped
  <1> DEFINE cut == Cut(nodes[1].text, plan[m].cursor, Len(nodes[1].text), 0)
  <1>6. cut \in Seq(TextNode)
    <2>1. Len(nodes[1].text) \in Nat /\ 0 \in Nat BY <1>2
    <2>2. plan[m].cursor \in Nat BY <1>5 DEF Done
    <2> QED BY <1>2, <2>1, <2>2, CutTyped
  <1>7. plan[m].nodes \in Seq(TextNode) BY <1>5 DEF Done
  <1>8. Tail(nodes) \in Seq(TextNode)
    <2>1. <<>> \in Seq(TextNode) OBVIOUS
    <2> QED BY <1>1, <2>1
  <1> DEFINE u == plan[m].nodes
             v == Tail(nodes)
  <1>9. Pieces(t, nodes, list) = u \o cut \o v BY <1>3
  <1>10. u \in Seq(TextNode) /\ v \in Seq(TextNode) BY <1>7, <1>8
  <1> HIDE DEF cut, u, v
  <1>11. u \o cut \o v \in Seq(TextNode) BY <1>6, <1>10
  <1> QED BY <1>9, <1>11 DEF nodes

\* Ranges that do not overlap cut a token into its text, in the colours of the ranges.
LEMMA PiecesSliced ==
    ASSUME NEW t \in 1 .. Len(Tokens), Plain(t), NEW list \in Seq(Mark), ~Overlap(list)
    PROVE  Sliced(t, list, Over(t, list), Pieces(t, <<Node(CharsOf(t), 0)>>, list),
                  Tokens[t].shown)
  <1> DEFINE nodes == <<Node(CharsOf(t), 0)>>
             m == Cardinality(Over(t, list))
             text == CharsOf(t)
             n == Tokens[t].shown
  <1>1. nodes[1] = Node(text, 0) /\ Tail(nodes) = <<>> OBVIOUS
  <1>2. text \in Seq(Chars) /\ Len(text) = n /\ n \in Nat BY CharFacts, TokenFacts
  <1>3. nodes[1].text = text BY <1>1, <1>2, NodeFacts
  <1> HIDE DEF nodes, text
  <1>4. nodes[1].text \in Seq(Chars) BY <1>2, <1>3
  <1>5. PICK plan : /\ Planned(plan, t, nodes[1].text, list)
                    /\ Pieces(t, nodes, list)
                           = plan[m].nodes \o Cut(nodes[1].text, plan[m].cursor,
                                                  Len(nodes[1].text), 0) \o Tail(nodes)
    BY <1>4, PiecesArePlanned
  <1>6. Planned(plan, t, text, list) BY <1>3, <1>5
  <1>7. m \in Nat /\ m \in 0 .. m /\ IsFiniteSet(Over(t, list)) BY OverFacts
  <1>8. \A k \in 0 .. m : Done(t, list, plan[k]) /\ Cardinality(plan[k].rest) = m - k
    BY <1>2, <1>6, PlanTyped
  <1> DEFINE Good == {k \in 0 .. m : Slicing(t, list, plan[k])}
  <1>9. 0 \in Good
    <2>1. plan[0] = [nodes |-> <<>>, cursor |-> 0, rest |-> Over(t, list)] BY <1>6 DEF Planned
    <2>2. plan[0].nodes = <<>> /\ plan[0].cursor = 0 /\ plan[0].rest = Over(t, list) BY <2>1
    <2>3. Over(t, list) \ Over(t, list) = {} OBVIOUS
    <2>4. \A j \in Over(t, list) : 0 <= LocalFrom(list[j], t) BY OverFacts, LocalFacts
    <2>5. 0 \in 0 .. m /\ 0 \in 0 .. n BY <1>2, <1>7
    <2>6. Slicing(t, list, plan[0]) BY <2>2, <2>3, <2>4, <2>5, NothingSliced DEF Slicing
    <2> QED BY <2>5, <2>6
  <1>10. ASSUME NEW k \in 1 .. m, k - 1 \in Good PROVE k \in Good
    <2> DEFINE d == plan[k - 1]
    <2>1. k - 1 \in 0 .. m /\ k \in 0 .. m BY <1>7
    <2>2. Done(t, list, d) /\ Cardinality(d.rest) = m - (k - 1) BY <1>8, <2>1
    <2>3. plan[k] = CutNext(t, text, list, d) BY <1>6 DEF Planned
    <2>4. Slicing(t, list, d) BY <1>10
    <2> HIDE DEF d
    <2>5. Cardinality(d.rest) # 0 BY <1>7, <2>2
    <2>6. d.rest # {} BY <2>5, FS_EmptySet
    <2>7. Slicing(t, list, plan[k]) BY <2>2, <2>3, <2>4, <2>6, CutNextSlices DEF text
    <2> QED BY <2>1, <2>7
  <1> HIDE DEF Good
  <1>11. m \in Good
    <2>1. \A k \in 0 .. m : k \in Good BY <1>7, <1>9, <1>10, UpToIsIn
    <2> QED BY <1>7, <2>1
  <1> DEFINE d == plan[m]
  <1>12. Done(t, list, d) /\ Slicing(t, list, d) BY <1>7, <1>8, <1>11 DEF Good
  <1>13. d.rest = {}
    <2>1. Cardinality(d.rest) = 0 BY <1>7, <1>8
    <2>2. d.rest \subseteq Over(t, list) BY <1>12 DEF Done
    <2>3. IsFiniteSet(d.rest) BY <1>7, <2>2, FS_Subset
    <2> QED BY <2>1, <2>3, FS_EmptySet
  <1>14. Pieces(t, nodes, list) = d.nodes \o Cut(text, d.cursor, n, 0) \o <<>>
    BY <1>1, <1>2, <1>3, <1>5
  <1> HIDE DEF d
  <1>15. /\ d.cursor \in 0 .. Tokens[t].shown /\ d.nodes \in Seq(TextNode)
         /\ Sliced(t, list, Over(t, list), d.nodes, d.cursor)
         /\ \A j \in Over(t, list) : LocalTo(list[j], t) <= d.cursor
    <2>1. Over(t, list) \ d.rest = Over(t, list) BY <1>13
    <2> QED BY <1>12, <2>1 DEF Done, Slicing
  <1> DEFINE whole == d.nodes \o Cut(text, d.cursor, n, 0)
  <1>16. whole \in Seq(TextNode) /\ Sliced(t, list, Over(t, list), whole, n)
    BY <1>15, RestSliced DEF text
  <1>17. Pieces(t, nodes, list) = whole \o <<>> BY <1>14
  <1> HIDE DEF whole
  <1>18. Pieces(t, nodes, list) = whole BY <1>16, <1>17
  <1> QED BY <1>16, <1>18 DEF nodes, text

-----------------------------------------------------------------------------
(* The spans of a page.                                                      *)

\* Two rows of nodes with the same texts, and with the same marks.
LEMMA SameTexts ==
    ASSUME NEW u \in Seq(TextNode), NEW v \in Seq(TextNode), Len(u) = Len(v),
           \A i \in 1 .. Len(u) : u[i].text = v[i].text
    PROVE  /\ TextOf(u) = TextOf(v)
           /\ (\A i \in 1 .. Len(u) : u[i].mark = v[i].mark) => u = v
  <1>1. DOMAIN u = 1 .. Len(u) /\ DOMAIN v = 1 .. Len(u) OBVIOUS
  <1>2. TextOf(u) = TextOf(v)
    <2>1. [i \in DOMAIN u |-> u[i].text] = [i \in DOMAIN v |-> v[i].text] BY <1>1
    <2> QED BY <2>1 DEF TextOf
  <1>3. ASSUME \A i \in 1 .. Len(u) : u[i].mark = v[i].mark PROVE u = v
    <2>1. ASSUME NEW i \in 1 .. Len(u) PROVE u[i] = v[i]
      <3>1. u[i] \in TextNode /\ v[i] \in TextNode BY <1>1
      <3>2. u[i] = Node(u[i].text, u[i].mark) /\ v[i] = Node(v[i].text, v[i].mark)
        BY <3>1, NodeFacts
      <3>3. Node(u[i].text, u[i].mark) = Node(v[i].text, v[i].mark) BY <1>3
      <3> HIDE DEF TextNode
      <3> QED BY <3>2, <3>3
    <2> QED BY <1>1, <2>1
  <1> QED BY <1>2, <1>3

\* Other marks on the same texts.
LEMMA Repainted ==
    ASSUME NEW nodes \in Seq(TextNode), NEW id \in Nat
    PROVE  LET painted == [k \in DOMAIN nodes |-> [nodes[k] EXCEPT !.mark = id]]
           IN  /\ painted \in Seq(TextNode) /\ Len(painted) = Len(nodes)
               /\ \A i \in 1 .. Len(nodes) : painted[i].text = nodes[i].text /\ painted[i].mark = id
               /\ TextOf(painted) = TextOf(nodes)
  <1> DEFINE painted == [k \in DOMAIN nodes |-> [nodes[k] EXCEPT !.mark = id]]
             n == Len(nodes)
  <1>1. n \in Nat /\ DOMAIN nodes = 1 .. n OBVIOUS
  <1>2. ASSUME NEW i \in 1 .. n
        PROVE  painted[i] \in TextNode /\ painted[i].text = nodes[i].text /\ painted[i].mark = id
    <2>1. nodes[i] \in TextNode BY <1>1
    <2>2. nodes[i].text \in Seq(Chars) /\ nodes[i] = [text |-> nodes[i].text, mark |-> nodes[i].mark]
      BY <2>1, NodeFacts DEF Node
    <2>3. painted[i] = [nodes[i] EXCEPT !.mark = id] BY <1>1
    <2>4. painted[i] = Node(nodes[i].text, id) BY <2>2, <2>3 DEF Node
    <2> HIDE DEF painted
    <2> QED BY <2>2, <2>4, NodeFacts
  <1>3. painted = [k \in 1 .. n |-> painted[k]] BY <1>1
  <1> HIDE DEF painted
  <1>4. painted \in Seq(TextNode) /\ Len(painted) = n
    <2> HIDE DEF n
    <2>1. \A k \in 1 .. n : painted[k] \in TextNode BY <1>2
    <2>2. painted \in [1 .. n -> TextNode] BY <1>3, <2>1
    <2> HIDE DEF TextNode
    <2> QED BY <1>1, <2>2
  <1>5. TextOf(painted) = TextOf(nodes) BY <1>2, <1>4, SameTexts
  <1> QED BY <1>2, <1>4, <1>5 DEF painted

\* Without marks the nodes have their texts.
LEMMA BareFacts ==
    ASSUME NEW nodes \in Seq(TextNode)
    PROVE  /\ Bare(nodes) \in Seq(TextNode) /\ Len(Bare(nodes)) = Len(nodes)
           /\ \A i \in 1 .. Len(nodes) : /\ Bare(nodes)[i].text = nodes[i].text
                                         /\ Bare(nodes)[i].mark = 0
BY Repainted DEF Bare

\* A token that is wrapped has the mark of the first range that reaches it.
LEMMA WrappedFacts ==
    ASSUME NEW t \in 1 .. Len(Tokens), NEW nodes \in Seq(TextNode), NEW list \in Seq(Mark),
           Over(t, list) # {}
    PROVE  \E first \in Over(t, list) :
               /\ \A j \in Over(t, list) : first <= j
               /\ Wrapped(t, nodes, list) \in Seq(TextNode)
               /\ Len(Wrapped(t, nodes, list)) = Len(nodes)
               /\ \A i \in 1 .. Len(nodes) : /\ Wrapped(t, nodes, list)[i].text = nodes[i].text
                                             /\ Wrapped(t, nodes, list)[i].mark = list[first].id
               /\ TextOf(Wrapped(t, nodes, list)) = TextOf(nodes)
  <1> DEFINE first == CHOOSE i \in Over(t, list) : \A j \in Over(t, list) : i <= j
  <1>1. Over(t, list) \subseteq Nat BY OverFacts
  <1>2. \E i \in Over(t, list) : \A j \in Over(t, list) : i <= j BY <1>1, LeastNumber
  <1>3. first \in Over(t, list) /\ \A j \in Over(t, list) : first <= j BY <1>2
  <1>4. Wrapped(t, nodes, list) = [k \in DOMAIN nodes |-> [nodes[k] EXCEPT !.mark = list[first].id]]
    BY DEF Wrapped
  <1> HIDE DEF first
  <1>5. list[first].id \in Nat BY <1>3, OverFacts, MarkFacts
  <1> DEFINE painted == [k \in DOMAIN nodes |-> [nodes[k] EXCEPT !.mark = list[first].id]]
  <1>6. /\ painted \in Seq(TextNode) /\ Len(painted) = Len(nodes)
        /\ \A i \in 1 .. Len(nodes) : /\ painted[i].text = nodes[i].text
                                      /\ painted[i].mark = list[first].id
        /\ TextOf(painted) = TextOf(nodes)
    BY <1>5, Repainted
  <1>7. Wrapped(t, nodes, list) = painted BY <1>4
  <1> HIDE DEF painted
  <1> QED BY <1>3, <1>6, <1>7

\* A span's nodes show the characters of its token, and all of them.
Showing(t, nodes) ==
    /\ \A i \in 1 .. Len(nodes) : \A k \in 1 .. Len(nodes[i].text) :
           \E p \in 1 .. Tokens[t].shown : nodes[i].text[k] = <<t, p>>
    /\ \A p \in 1 .. Tokens[t].shown : \E i \in 1 .. Len(nodes) :
           \E k \in 1 .. Len(nodes[i].text) : nodes[i].text[k] = <<t, p>>

\* What the article shows without marks.
LEMMA OriginalFacts ==
    /\ DOMAIN Original = 0 .. Len(Tokens)
    /\ \A t \in 0 .. Len(Tokens) :
           /\ Original[t] \in Seq(TextNode)
           /\ \A i \in 1 .. Len(Original[t]) : Original[t][i].mark = 0
    /\ Original[0] = <<Node(<<<<0, 1>>>>, 0)>>
    /\ \A t \in 1 .. Len(Tokens) :
           /\ Plain(t) => Original[t] = <<Node(CharsOf(t), 0)>>
           /\ Showing(t, Original[t])
  <1> DEFINE Unshown(t) == IF t = 0 THEN <<Node(<<<<0, 1>>>>, 0)>>
                           ELSE IF Tokens[t].kind = "fraction"
                           THEN [i \in 1 .. Tokens[t].shown |-> Node(<<<<t, i>>>>, 0)]
                           ELSE <<Node(CharsOf(t), 0)>>
  <1>1. Original = [t \in 0 .. Len(Tokens) |-> Unshown(t)] BY DEF Original
  <1>2. 0 \in 0 .. Len(Tokens) /\ Original[0] = Unshown(0) BY <1>1, TokenFacts
  <1>3. \A t \in 1 .. Len(Tokens) : t \in 0 .. Len(Tokens) /\ t # 0 /\ Original[t] = Unshown(t)
    BY <1>1, TokenFacts
  <1>4. \A text \in Seq(Chars) :
            /\ <<Node(text, 0)>> \in Seq(TextNode) /\ Len(<<Node(text, 0)>>) = 1
            /\ <<Node(text, 0)>>[1].text = text /\ <<Node(text, 0)>>[1].mark = 0
    <2> TAKE text \in Seq(Chars)
    <2> DEFINE x == Node(text, 0)
    <2>1. x \in TextNode /\ x.text = text /\ x.mark = 0 BY NodeFacts
    <2> HIDE DEF x
    <2>2. <<x>> \in Seq(TextNode) /\ Len(<<x>>) = 1 /\ <<x>>[1] = x BY <2>1
    <2> QED BY <2>1, <2>2 DEF x
  <1>5. \A t, p \in Nat : <<<<t, p>>>> \in Seq(Chars)
    <2> TAKE t, p \in Nat
    <2> DEFINE c == <<t, p>>
    <2>1. c \in Chars BY DEF Chars
    <2> HIDE DEF c
    <2>2. <<c>> \in Seq(Chars) BY <2>1
    <2>3. <<<<t, p>>>> \in Seq(Chars) BY <2>2 DEF c
    <2> QED BY <2>3
  <1>6. Original[0] = <<Node(<<<<0, 1>>>>, 0)>> BY <1>2
  <1>7. /\ Original[0] \in Seq(TextNode)
        /\ \A i \in 1 .. Len(Original[0]) : Original[0][i].mark = 0
    <2> DEFINE s == <<<<0, 1>>>>
    <2>1. s \in Seq(Chars) BY <1>5
    <2> HIDE DEF s
    <2>2. Original[0] = <<Node(s, 0)>> BY <1>6 DEF s
    <2> QED BY <1>4, <2>1, <2>2
  <1>8. ASSUME NEW t \in 1 .. Len(Tokens)
        PROVE  /\ Original[t] \in Seq(TextNode)
               /\ \A i \in 1 .. Len(Original[t]) : Original[t][i].mark = 0
               /\ Plain(t) => Original[t] = <<Node(CharsOf(t), 0)>>
               /\ Showing(t, Original[t])
    <2> DEFINE n == Tokens[t].shown
    <2>1. n \in Nat \ {0} /\ t \in Nat BY TokenFacts
    <2>2. CASE Tokens[t].kind = "fraction"
      <3> DEFINE One(i) == <<<<t, i>>>>
                 s == [i \in 1 .. n |-> Node(One(i), 0)]
      <3>1. Original[t] = s BY <1>3, <2>2
      <3>2. ~Plain(t) BY <2>2 DEF Plain
      <3>8. ASSUME NEW i \in 1 .. n
            PROVE  One(i) \in Seq(Chars) /\ Len(One(i)) = 1 /\ One(i)[1] = <<t, i>>
        <4>1. i \in Nat /\ t \in Nat BY <2>1
        <4>2. One(i) \in Seq(Chars) BY <1>5, <4>1
        <4> QED BY <4>2
      <3> HIDE DEF One
      <3>3. \A i \in 1 .. n : s[i] \in TextNode /\ s[i].text = One(i) /\ s[i].mark = 0
        BY <3>8, NodeFacts
      <3>4. s = [i \in 1 .. n |-> s[i]] OBVIOUS
      <3> HIDE DEF s, n
      <3>5. s \in Seq(TextNode) /\ Len(s) = n
        <4>1. s \in [1 .. n -> TextNode] BY <3>3, <3>4
        <4> HIDE DEF TextNode
        <4> QED BY <2>1, <4>1
      <3>6. \A i \in 1 .. n : Len(s[i].text) = 1 /\ s[i].text[1] = <<t, i>> BY <3>3, <3>8
      <3>7. Showing(t, s)
        <4>1. ASSUME NEW i \in 1 .. Len(s), NEW k \in 1 .. Len(s[i].text)
              PROVE  \E p \in 1 .. n : s[i].text[k] = <<t, p>>
          <5>1. i \in 1 .. n BY <3>5
          <5>2. Len(s[i].text) = 1 BY <3>6, <5>1
          <5>3. k = 1 BY <5>2
          <5> QED BY <3>6, <5>1, <5>3
        <4>2. ASSUME NEW p \in 1 .. n
              PROVE  \E i \in 1 .. Len(s) : \E k \in 1 .. Len(s[i].text) : s[i].text[k] = <<t, p>>
          <5>1. p \in 1 .. Len(s) /\ 1 \in 1 .. Len(s[p].text) BY <3>5, <3>6
          <5> QED BY <3>6, <5>1
        <4> QED BY <4>1, <4>2 DEF Showing, n
      <3> QED BY <3>1, <3>2, <3>3, <3>5, <3>7
    <2>3. CASE Tokens[t].kind # "fraction"
      <3> DEFINE s == <<Node(CharsOf(t), 0)>>
      <3>1. Original[t] = s BY <1>3, <2>3
      <3>2. CharsOf(t) \in Seq(Chars) BY CharFacts
      <3>3. s \in Seq(TextNode) /\ Len(s) = 1 /\ s[1].text = CharsOf(t) /\ s[1].mark = 0
        BY <1>4, <3>2
      <3>4. Len(CharsOf(t)) = n /\ \A p \in 1 .. n : CharsOf(t)[p] = <<t, p>> BY CharFacts
      <3> HIDE DEF s, n
      <3>5. Showing(t, s)
        <4>1. ASSUME NEW i \in 1 .. Len(s), NEW k \in 1 .. Len(s[i].text)
              PROVE  \E p \in 1 .. n : s[i].text[k] = <<t, p>>
          <5>1. i = 1 BY <3>3
          <5>2. k \in 1 .. n BY <3>3, <3>4, <5>1
          <5> QED BY <3>3, <3>4, <5>1, <5>2
        <4>2. ASSUME NEW p \in 1 .. n
              PROVE  \E i \in 1 .. Len(s) : \E k \in 1 .. Len(s[i].text) : s[i].text[k] = <<t, p>>
          <5>1. 1 \in 1 .. Len(s) /\ p \in 1 .. Len(s[1].text) BY <3>3, <3>4
          <5> QED BY <3>3, <3>4, <5>1
        <4> QED BY <4>1, <4>2 DEF Showing, n
      <3>6. \A i \in 1 .. Len(s) : i = 1 BY <3>3
      <3> QED BY <3>1, <3>3, <3>5, <3>6 DEF s
    <2> QED BY <2>2, <2>3
  <1>9. DOMAIN Original = 0 .. Len(Tokens) BY <1>1
  <1>10. \A t \in 0 .. Len(Tokens) : t = 0 \/ t \in 1 .. Len(Tokens) BY TokenFacts
  <1> HIDE DEF Unshown
  <1> QED BY <1>6, <1>7, <1>8, <1>9, <1>10

\* A page has a sequence of nodes for the label and for each token.
Page == [0 .. Len(Tokens) -> Seq(TextNode)]

\* Taking the marks away leaves a page, with one node for a plain token.
LEMMA UnmarkedFacts ==
    ASSUME NEW d \in Page
    PROVE  /\ Unmarked(d) \in Page
           /\ Unmarked(d)[0] = Bare(d[0])
           /\ \A t \in 1 .. Len(Tokens) :
                  /\ Plain(t) => /\ Unmarked(d)[t] = <<Node(TextOf(d[t]), 0)>>
                                 /\ Node(TextOf(d[t]), 0) \in TextNode
                  /\ ~Plain(t) => Unmarked(d)[t] = Bare(d[t])
  <1>1. /\ 0 \in 0 .. Len(Tokens) /\ \A t \in 1 .. Len(Tokens) : t \in 0 .. Len(Tokens) /\ t # 0
        /\ \A t \in 0 .. Len(Tokens) : t = 0 \/ t \in 1 .. Len(Tokens)
    BY TokenFacts
  <1>2. DOMAIN d = 0 .. Len(Tokens) /\ \A t \in 0 .. Len(Tokens) : d[t] \in Seq(TextNode)
    BY DEF Page
  <1>3. Unmarked(d) = [t \in 0 .. Len(Tokens) |->
                          IF t # 0 /\ Plain(t) THEN <<Node(TextOf(d[t]), 0)>> ELSE Bare(d[t])]
    BY <1>2 DEF Unmarked
  <1>4. Unmarked(d)[0] = Bare(d[0]) BY <1>1, <1>3
  <1>5. \A t \in 1 .. Len(Tokens) :
            /\ Plain(t) => Unmarked(d)[t] = <<Node(TextOf(d[t]), 0)>>
            /\ ~Plain(t) => Unmarked(d)[t] = Bare(d[t])
    BY <1>1, <1>3
  <1>6. ASSUME NEW t \in 0 .. Len(Tokens)
        PROVE  /\ Node(TextOf(d[t]), 0) \in TextNode /\ <<Node(TextOf(d[t]), 0)>> \in Seq(TextNode)
               /\ Bare(d[t]) \in Seq(TextNode)
    <2> DEFINE nodes == d[t]
               x == Node(TextOf(d[t]), 0)
    <2>1. nodes \in Seq(TextNode) BY <1>2
    <2> HIDE DEF nodes
    <2>2. TextOf(nodes) \in Seq(Chars) /\ Bare(nodes) \in Seq(TextNode) BY <2>1, TextFacts, BareFacts
    <2>3. x \in TextNode BY <2>2, NodeFacts DEF nodes
    <2> HIDE DEF x
    <2>4. <<x>> \in Seq(TextNode) BY <2>3
    <2> QED BY <2>2, <2>3, <2>4 DEF x, nodes
  <1>7. \A t \in 0 .. Len(Tokens) : Unmarked(d)[t] \in Seq(TextNode)
    <2>1. ASSUME NEW t \in 0 .. Len(Tokens) PROVE Unmarked(d)[t] \in Seq(TextNode)
      <3>1. Unmarked(d)[t] = <<Node(TextOf(d[t]), 0)>> \/ Unmarked(d)[t] = Bare(d[t]) BY <1>3
      <3>2. <<Node(TextOf(d[t]), 0)>> \in Seq(TextNode) /\ Bare(d[t]) \in Seq(TextNode) BY <1>6
      <3> QED BY <3>1, <3>2, Zenon
    <2> QED BY <2>1
  <1>8. Unmarked(d) = [t \in 0 .. Len(Tokens) |-> Unmarked(d)[t]] BY <1>3
  <1>9. Unmarked(d) \in Page BY <1>7, <1>8 DEF Page
  <1> QED BY <1>1, <1>4, <1>5, <1>6, <1>9

\* Marking a page leaves a page; each span is cut, wrapped or stays.
LEMMA MarkedFacts ==
    ASSUME NEW d \in Page, NEW list \in Seq(Mark),
           \A t \in 1 .. Len(Tokens) : Plain(t) => \E x \in TextNode : d[t] = <<x>>
    PROVE  /\ Marked(d, list) \in Page
           /\ Marked(d, list)[0] = d[0]
           /\ \A t \in 1 .. Len(Tokens) :
                  /\ Over(t, list) = {} => Marked(d, list)[t] = d[t]
                  /\ Over(t, list) # {} /\ Plain(t) => Marked(d, list)[t] = Pieces(t, d[t], list)
                  /\ Over(t, list) # {} /\ ~Plain(t) => Marked(d, list)[t] = Wrapped(t, d[t], list)
  <1>1. /\ 0 \in 0 .. Len(Tokens) /\ \A t \in 1 .. Len(Tokens) : t \in 0 .. Len(Tokens) /\ t # 0
        /\ \A t \in 0 .. Len(Tokens) : t = 0 \/ t \in 1 .. Len(Tokens)
    BY TokenFacts
  <1>2. DOMAIN d = 0 .. Len(Tokens) /\ \A t \in 0 .. Len(Tokens) : d[t] \in Seq(TextNode)
    BY DEF Page
  <1>3. Marked(d, list) = [t \in 0 .. Len(Tokens) |->
            IF Over(t, list) = {} THEN d[t]
            ELSE IF Plain(t) THEN Pieces(t, d[t], list) ELSE Wrapped(t, d[t], list)]
    BY <1>2 DEF Marked
  <1>4. Over(0, list) = {} BY DEF Over
  <1>5. Marked(d, list)[0] = d[0] BY <1>1, <1>3, <1>4
  <1>6. \A t \in 1 .. Len(Tokens) :
            /\ Over(t, list) = {} => Marked(d, list)[t] = d[t]
            /\ Over(t, list) # {} /\ Plain(t) => Marked(d, list)[t] = Pieces(t, d[t], list)
            /\ Over(t, list) # {} /\ ~Plain(t) => Marked(d, list)[t] = Wrapped(t, d[t], list)
    BY <1>1, <1>3
  <1>7. ASSUME NEW t \in 1 .. Len(Tokens) PROVE Marked(d, list)[t] \in Seq(TextNode)
    <2>1. d[t] \in Seq(TextNode) BY <1>1, <1>2
    <2>2. CASE Over(t, list) = {} BY <1>6, <2>1, <2>2
    <2>3. CASE Over(t, list) # {} /\ Plain(t)
      <3>1. PICK x \in TextNode : d[t] = <<x>> BY <2>3
      <3>2. Pieces(t, d[t], list) \in Seq(TextNode) BY <3>1, PiecesTyped
      <3> QED BY <1>6, <2>3, <3>2
    <2>4. CASE Over(t, list) # {} /\ ~Plain(t)
      <3>1. Wrapped(t, d[t], list) \in Seq(TextNode) BY <2>1, <2>4, WrappedFacts
      <3> QED BY <1>6, <2>4, <3>1
    <2> QED BY <2>2, <2>3, <2>4
  <1>8. \A t \in 0 .. Len(Tokens) : Marked(d, list)[t] \in Seq(TextNode)
    BY <1>1, <1>2, <1>5, <1>7
  <1>9. Marked(d, list) = [t \in 0 .. Len(Tokens) |-> Marked(d, list)[t]] BY <1>3
  <1>10. Marked(d, list) \in Page BY <1>8, <1>9 DEF Page
  <1> QED BY <1>5, <1>6, <1>10

\* Rendering leaves a page.
LEMMA RenderTyped ==
    ASSUME NEW d \in Page, NEW list \in Seq(Mark)
    PROVE  Marked(Unmarked(d), list) \in Page
  <1> DEFINE u == Unmarked(d)
  <1>1. u \in Page BY UnmarkedFacts
  <1>2. \A t \in 1 .. Len(Tokens) : Plain(t) => \E x \in TextNode : u[t] = <<x>> BY UnmarkedFacts
  <1> HIDE DEF u
  <1>3. Marked(u, list) \in Page BY <1>1, <1>2, MarkedFacts
  <1> QED BY <1>3 DEF u

\* The article without marks is a page.
LEMMA OriginalPage ==
    /\ Original \in Page
    /\ \A t \in 1 .. Len(Tokens) : Plain(t) => \E x \in TextNode : Original[t] = <<x>>
  <1>1. Original = [t \in 0 .. Len(Tokens) |-> Original[t]] BY DEF Original
  <1>2. Original \in Page BY <1>1, OriginalFacts DEF Page
  <1>3. \A t \in 1 .. Len(Tokens) : Plain(t) => \E x \in TextNode : Original[t] = <<x>>
    BY OriginalFacts, WholeNode
  <1> QED BY <1>2, <1>3

\* What a span shows under ranges that do not overlap.
SpanOK(t, list, nodes) ==
    /\ TextOf(nodes) = TextOf(Original[t])
    /\ Showing(t, nodes)
    /\ Plain(t) => Sliced(t, list, Over(t, list), nodes, Tokens[t].shown)
    /\ ~Plain(t) /\ Over(t, list) = {} => \A i \in 1 .. Len(nodes) : nodes[i].mark = 0
    /\ ~Plain(t) /\ Over(t, list) # {} =>
           \E first \in Over(t, list) : /\ \A j \in Over(t, list) : first <= j
                                        /\ \A i \in 1 .. Len(nodes) : nodes[i].mark = list[first].id

\* The article under marks that do not overlap.
LEMMA SpanIsOK ==
    ASSUME NEW list \in Seq(Mark), ~Overlap(list), NEW t \in 1 .. Len(Tokens)
    PROVE  SpanOK(t, list, Marked(Original, list)[t])
  <1> DEFINE nodes == Marked(Original, list)[t]
             whole == Original[t]
  <1>1. t \in 0 .. Len(Tokens) BY TokenFacts
  <1>2. whole \in Seq(TextNode) /\ Showing(t, whole) /\ \A i \in 1 .. Len(whole) : whole[i].mark = 0
    BY <1>1, OriginalFacts
  <1>3. /\ Over(t, list) = {} => nodes = whole
        /\ Over(t, list) # {} /\ Plain(t) => nodes = Pieces(t, whole, list)
        /\ Over(t, list) # {} /\ ~Plain(t) => nodes = Wrapped(t, whole, list)
    BY OriginalPage, MarkedFacts
  <1>4. Plain(t) => whole = <<Node(CharsOf(t), 0)>> BY OriginalFacts
  <1> HIDE DEF nodes, whole
  <1>5. CASE Plain(t)
    <2>1. Sliced(t, list, Over(t, list), nodes, Tokens[t].shown)
      <3>1. CASE Over(t, list) = {} BY <1>3, <1>4, <1>5, <3>1, WholeNode
      <3>2. CASE Over(t, list) # {} BY <1>3, <1>4, <1>5, <3>2, PiecesSliced
      <3> QED BY <3>1, <3>2
    <2>2. TextOf(nodes) = TextOf(whole)
      <3>1. TextOf(nodes) = SubSeq(CharsOf(t), 1, Tokens[t].shown) BY <2>1 DEF Sliced
      <3>2. SubSeq(CharsOf(t), 1, Tokens[t].shown) = CharsOf(t) BY CharFacts
      <3>3. TextOf(whole) = CharsOf(t) BY <1>4, <1>5, WholeNode
      <3> QED BY <3>1, <3>2, <3>3
    <2>3. Showing(t, nodes)
      <3>1. \A i \in 1 .. Len(nodes) : \A k \in 1 .. Len(nodes[i].text) :
                \E p \in 1 .. Tokens[t].shown : nodes[i].text[k] = <<t, p>>
        BY <2>1 DEF Sliced
      <3>2. \A p \in 1 .. Tokens[t].shown : \E i \in 1 .. Len(nodes) :
                \E k \in 1 .. Len(nodes[i].text) : nodes[i].text[k] = <<t, p>>
        BY <2>1 DEF Sliced
      <3> QED BY <3>1, <3>2 DEF Showing
    <2> QED BY <1>5, <2>1, <2>2, <2>3 DEF SpanOK, nodes, whole
  <1>6. CASE ~Plain(t) /\ Over(t, list) = {}
    <2>1. nodes = whole BY <1>3, <1>6
    <2> QED BY <1>2, <1>6, <2>1 DEF SpanOK, nodes, whole
  <1>7. CASE ~Plain(t) /\ Over(t, list) # {}
    <2>1. nodes = Wrapped(t, whole, list) BY <1>3, <1>7
    <2>2. PICK first \in Over(t, list) :
              /\ \A j \in Over(t, list) : first <= j
              /\ nodes \in Seq(TextNode) /\ Len(nodes) = Len(whole)
              /\ \A i \in 1 .. Len(whole) : /\ nodes[i].text = whole[i].text
                                            /\ nodes[i].mark = list[first].id
              /\ TextOf(nodes) = TextOf(whole)
      <3> DEFINE painted == Wrapped(t, whole, list)
      <3>1. \E first \in Over(t, list) :
                /\ \A j \in Over(t, list) : first <= j
                /\ painted \in Seq(TextNode) /\ Len(painted) = Len(whole)
                /\ \A i \in 1 .. Len(whole) : /\ painted[i].text = whole[i].text
                                              /\ painted[i].mark = list[first].id
                /\ TextOf(painted) = TextOf(whole)
        BY <1>2, <1>7, WrappedFacts
      <3>2. nodes = painted BY <2>1
      <3> HIDE DEF nodes, whole, painted
      <3> QED BY <3>1, <3>2
    <2>3. Showing(t, nodes)
      <3>1. ASSUME NEW i \in 1 .. Len(nodes), NEW k \in 1 .. Len(nodes[i].text)
            PROVE  \E p \in 1 .. Tokens[t].shown : nodes[i].text[k] = <<t, p>>
        <4>1. i \in 1 .. Len(whole) /\ nodes[i].text = whole[i].text BY <2>2
        <4>2. \E p \in 1 .. Tokens[t].shown : whole[i].text[k] = <<t, p>>
          BY <1>2, <4>1 DEF Showing
        <4> QED BY <4>1, <4>2
      <3>2. ASSUME NEW p \in 1 .. Tokens[t].shown
            PROVE  \E i \in 1 .. Len(nodes) : \E k \in 1 .. Len(nodes[i].text) :
                       nodes[i].text[k] = <<t, p>>
        <4>1. PICK i \in 1 .. Len(whole) : \E k \in 1 .. Len(whole[i].text) :
                  whole[i].text[k] = <<t, p>>
          BY <1>2 DEF Showing
        <4>2. i \in 1 .. Len(nodes) /\ nodes[i].text = whole[i].text BY <2>2, <4>1
        <4> QED BY <4>1, <4>2
      <3> QED BY <3>1, <3>2 DEF Showing
    <2>4. \A i \in 1 .. Len(nodes) : nodes[i].mark = list[first].id BY <2>2
    <2> QED BY <1>7, <2>2, <2>3, <2>4 DEF SpanOK, nodes, whole
  <1> QED BY <1>5, <1>6, <1>7

\* Taking the marks away gives the page as it was.
LEMMA MarksGo ==
    ASSUME NEW list \in Seq(Mark), ~Overlap(list)
    PROVE  Unmarked(Marked(Original, list)) = Original
  <1> DEFINE d == Marked(Original, list)
             u == Unmarked(d)
  <1>1. d \in Page /\ d[0] = Original[0] BY OriginalPage, MarkedFacts
  <1>2. \A t \in 1 .. Len(Tokens) : SpanOK(t, list, d[t]) BY SpanIsOK
  <1>3. /\ \A t \in 1 .. Len(Tokens) : Over(t, list) = {} => d[t] = Original[t]
        /\ \A t \in 1 .. Len(Tokens) : Over(t, list) # {} /\ ~Plain(t) =>
               d[t] = Wrapped(t, Original[t], list)
    BY OriginalPage, MarkedFacts
  <1> HIDE DEF d
  <1>4. u \in Page BY <1>1, UnmarkedFacts
  <1>5. \A nodes \in Seq(TextNode) : (\A i \in 1 .. Len(nodes) : nodes[i].mark = 0) => Bare(nodes) = nodes
    <2>1. ASSUME NEW nodes \in Seq(TextNode), \A i \in 1 .. Len(nodes) : nodes[i].mark = 0
          PROVE  Bare(nodes) = nodes
      <3> DEFINE b == Bare(nodes)
      <3>1. /\ b \in Seq(TextNode) /\ Len(b) = Len(nodes)
            /\ \A i \in 1 .. Len(nodes) : b[i].text = nodes[i].text /\ b[i].mark = 0
        BY BareFacts
      <3> HIDE DEF b
      <3>2. b = nodes BY <2>1, <3>1, SameTexts
      <3> QED BY <3>2 DEF b
    <2> QED BY <2>1
  <1>6. u[0] = Original[0]
    <2>3. 0 \in 0 .. Len(Tokens) BY TokenFacts
    <2>1. Original[0] \in Seq(TextNode) /\ \A i \in 1 .. Len(Original[0]) : Original[0][i].mark = 0
      BY <2>3, OriginalFacts
    <2>2. u[0] = Bare(d[0]) BY <1>1, UnmarkedFacts
    <2> QED BY <1>1, <1>5, <2>1, <2>2
  <1>7. ASSUME NEW t \in 1 .. Len(Tokens) PROVE u[t] = Original[t]
    <2> DEFINE whole == Original[t]
    <2>1. t \in 0 .. Len(Tokens) BY TokenFacts
    <2>2. whole \in Seq(TextNode) /\ \A i \in 1 .. Len(whole) : whole[i].mark = 0
      BY <2>1, OriginalFacts
    <2>3. CASE Plain(t)
      <3>1. u[t] = <<Node(TextOf(d[t]), 0)>> BY <1>1, <2>3, UnmarkedFacts
      <3>2. TextOf(d[t]) = TextOf(whole) BY <1>2 DEF SpanOK
      <3>3. whole = <<Node(CharsOf(t), 0)>> BY <2>3, OriginalFacts
      <3>4. TextOf(whole) = CharsOf(t) BY <2>3, <3>3, WholeNode
      <3>5. TextOf(d[t]) = CharsOf(t) BY <3>2, <3>4
      <3> HIDE DEF u, whole
      <3>6. u[t] = whole BY <3>1, <3>3, <3>5
      <3> QED BY <3>6 DEF whole
    <2>4. CASE ~Plain(t)
      <3>1. u[t] = Bare(d[t]) BY <1>1, <2>4, UnmarkedFacts
      <3>2. CASE Over(t, list) = {}
        <4>1. d[t] = whole BY <1>3, <3>2
        <4> QED BY <1>5, <2>2, <3>1, <4>1
      <3>3. CASE Over(t, list) # {}
        <4> DEFINE w == d[t]
                   b == Bare(w)
        <4>1. w = Wrapped(t, whole, list) BY <1>3, <2>4, <3>3
        <4>2. /\ w \in Seq(TextNode) /\ Len(w) = Len(whole)
              /\ \A i \in 1 .. Len(whole) : w[i].text = whole[i].text
          <5> HIDE DEF w, whole
          <5> QED BY <2>2, <3>3, <4>1, WrappedFacts
        <4> HIDE DEF w, whole
        <4>3. /\ b \in Seq(TextNode) /\ Len(b) = Len(w)
              /\ \A i \in 1 .. Len(w) : b[i].text = w[i].text /\ b[i].mark = 0
          BY <4>2, BareFacts
        <4> HIDE DEF b
        <4>4. /\ Len(b) = Len(whole)
              /\ \A i \in 1 .. Len(b) : b[i].text = whole[i].text /\ b[i].mark = whole[i].mark
          BY <2>2, <4>2, <4>3
        <4>5. b = whole BY <2>2, <4>3, <4>4, SameTexts
        <4> QED BY <3>1, <4>5 DEF b, w, whole
      <3> QED BY <3>2, <3>3
    <2> QED BY <2>3, <2>4
  <1>8. \A t \in 0 .. Len(Tokens) : u[t] = Original[t]
    <2>1. \A t \in 0 .. Len(Tokens) : t = 0 \/ t \in 1 .. Len(Tokens) BY TokenFacts
    <2> HIDE DEF u
    <2> QED BY <1>6, <1>7, <2>1
  <1> HIDE DEF u
  <1>9. u = Original
    <2>1. u = [t \in 0 .. Len(Tokens) |-> u[t]] BY <1>4 DEF Page
    <2>2. Original = [t \in 0 .. Len(Tokens) |-> Original[t]] BY OriginalPage DEF Page
    <2> QED BY <1>8, <2>1, <2>2
  <1> QED BY <1>9 DEF u, d

-----------------------------------------------------------------------------
(* What the marks mean.                                                      *)

\* A range has the p-th character of t, or touches t and takes it as a whole.
Shades(h, t, p) ==
    IF Plain(t) THEN h.from < SourceStart(t) + p /\ SourceStart(t) + p <= h.to
    ELSE Reaches(h, t)

\* The characters of a range.
Covered(h) ==
    {c \in Chars : /\ c[1] \in 1 .. Len(Tokens) /\ c[2] \in 1 .. Tokens[c[1]].shown
                   /\ Shades(h, c[1], c[2])}

\* A range takes the tokens that are not plain as a whole.
Aligned(h) ==
    \A t \in 1 .. Len(Tokens) : ~Plain(t) /\ Reaches(h, t) =>
        h.from <= SourceStart(t) /\ SourceEnd(t) <= h.to

\* The highlights a page, the table or an answer under way may hold.
Known == rows \cup {Ranged(h) : h \in making} \cup ToSet(shownMarks) \cup ToSet(loading.list)

\* Highlights are told apart by their ids, and have what was wanted unless they are vague.
KnownOK(known, wanted, vague) ==
    /\ \A h \in known : h \in Mark /\ h.id \in 1 .. Len(wanted)
    /\ \A g, h \in known : g.id = h.id => g = h
    /\ \A h \in known : h.id \notin vague => Aligned(h) /\ Covered(h) = wanted[h.id]

\* Creations under way.
Making == [id : Nat, from : Nat, to : Nat, stored : BOOLEAN]

\* What the variables hold.
MarksTyped ==
    /\ dom \in Page /\ shownMarks \in Seq(Mark) /\ IsFiniteSet(rows)
    /\ making \subseteq Making /\ loading.list \in Seq(Mark)
    /\ meant \in Seq(SUBSET Chars)

\* A page that is not torn is the article under its marks.
PageIsMarked == ~torn => ~Overlap(shownMarks) /\ dom = Marked(Original, shownMarks)

\* The inductive invariant.
MarksInv == MarksTyped /\ KnownOK(Known, meant, blurred) /\ PageIsMarked

\* The highlights of a list.
LEMMA MarkPlaces ==
    ASSUME NEW list \in Seq(Mark)
    PROVE  /\ \A i \in 1 .. Len(list) : list[i] \in ToSet(list) /\ list[i] \in Mark
           /\ \A h \in ToSet(list) : \E i \in 1 .. Len(list) : list[i] = h
  <1>1. DOMAIN list = 1 .. Len(list) /\ \A i \in 1 .. Len(list) : list[i] \in Mark
    <2> HIDE DEF Mark
    <2> QED OBVIOUS
  <1> QED BY <1>1 DEF ToSet

\* A node that is marked as h shows what h has, and the others do not.
LEMMA SpanColours ==
    ASSUME MarksInv, ~torn, NEW m \in 1 .. Len(shownMarks), shownMarks[m].id \notin blurred,
           NEW t \in 1 .. Len(Tokens), NEW i \in 1 .. Len(dom[t]),
           NEW k \in 1 .. Len(dom[t][i].text), NEW p \in 1 .. Tokens[t].shown,
           dom[t][i].text[k] = <<t, p>>
    PROVE  dom[t][i].mark = shownMarks[m].id <=> Shades(shownMarks[m], t, p)
  <1> DEFINE list == shownMarks
             h == list[m]
             x == dom[t][i]
             over == Over(t, list)
  <1>1. list \in Seq(Mark) /\ ~Overlap(list) /\ dom = Marked(Original, list)
    BY DEF MarksInv, MarksTyped, PageIsMarked
  <1>2. \A j \in 1 .. Len(list) : list[j] \in Mark /\ list[j] \in Known
    BY <1>1, MarkPlaces DEF Known
  <1>3. SpanOK(t, list, dom[t])
    <2>1. SpanOK(t, list, Marked(Original, list)[t]) BY <1>1, SpanIsOK
    <2> HIDE DEF list
    <2> QED BY <1>1, <2>1
  <1>4. \A j \in 1 .. Len(list) : list[j].id = h.id => list[j] = h
    BY <1>2 DEF MarksInv, KnownOK
  <1>5. h \in Mark /\ Aligned(h) BY <1>2 DEF MarksInv, KnownOK
  <1>6. h.id \in Nat \ {0} /\ h.from \in Nat /\ h.to \in Nat /\ h.from < h.to BY <1>5, MarkFacts
  <1>7. over \subseteq 1 .. Len(list) /\ (Reaches(h, t) => m \in over)
        /\ \A j \in over : list[j] \in Mark /\ Reaches(list[j], t)
    BY <1>1, OverFacts
  <1>8. SourceStart(t) \in Nat /\ Tokens[t].length \in Nat \ {0} /\ Tokens[t].shown \in Nat
        /\ SourceEnd(t) = SourceStart(t) + Tokens[t].length /\ Tokens[t].length \in Nat
    BY StartFacts, TokenFacts DEF SourceEnd
  <1> HIDE DEF h, x, over
  <1>9. CASE Plain(t)
    <2>1. p \in 1 .. Tokens[t].length BY <1>9, TokenFacts
    <2>2. PICK q \in 1 .. Tokens[t].shown : dom[t][i].text[k] = <<t, q>>
                                            /\ Coloured(dom[t][i], t, list, over, q)
      BY <1>3, <1>9 DEF SpanOK, Sliced, over
    <2>3. q = p BY <2>2
    <2>4. Coloured(x, t, list, over, p) BY <2>2, <2>3 DEF x
    <2>5. \A j \in over : Hits(list[j], t, p) <=> Shades(list[j], t, p)
      BY <1>7, <1>9, <2>1, LocalFacts DEF Shades
    <2>6. Shades(h, t, p) => Reaches(h, t) 
      <3> DEFINE a == h.from
                 b == h.to
                 start == SourceStart(t)
                 length == Tokens[t].length
      <3>1. SUFFICES ASSUME Shades(h, t, p) PROVE start < b /\ start + length > a
        BY <1>8 DEF Reaches
      <3>2. a \in Nat /\ b \in Nat /\ start \in Nat /\ length \in Nat BY <1>6, <1>8
      <3>3. p \in 1 .. length BY <2>1
      <3>4. a < start + p /\ start + p <= b BY <1>9, <3>1 DEF Shades
      <3> HIDE DEF a, b, start, length
      <3> QED BY <3>2, <3>3, <3>4
    <2>7. ASSUME x.mark = h.id PROVE Shades(h, t, p)
      <3>1. PICK j \in over : Hits(list[j], t, p) /\ list[j].id = x.mark
        BY <1>6, <2>4, <2>7 DEF Coloured
      <3>2. list[j] = h BY <1>4, <1>7, <2>7, <3>1
      <3>3. Shades(list[j], t, p) BY <2>5, <3>1
      <3> QED BY <3>2, <3>3
    <2>8. ASSUME Shades(h, t, p) PROVE x.mark = h.id
      <3>1. m \in over BY <1>7, <2>6, <2>8
      <3>2. Hits(list[m], t, p) BY <2>5, <2>8, <3>1 DEF h
      <3> QED BY <2>4, <3>1, <3>2 DEF Coloured, h
    <2> QED BY <2>7, <2>8 DEF x, h
  <1>10. CASE ~Plain(t)
    <2>1. Shades(h, t, p) <=> Reaches(h, t) BY <1>10 DEF Shades
    <2>2. CASE over = {}
      <3>1. x.mark = 0 BY <1>3, <1>10, <2>2 DEF SpanOK, over, x
      <3>2. ~Reaches(h, t) BY <1>7, <2>2
      <3> QED BY <1>6, <2>1, <3>1, <3>2 DEF x, h
    <2>3. CASE over # {}
      <3>1. PICK first \in over : /\ \A j \in over : first <= j
                                  /\ \A j \in 1 .. Len(dom[t]) : dom[t][j].mark = list[first].id
        BY <1>3, <1>10, <2>3 DEF SpanOK, over
      <3>2. x.mark = list[first].id BY <3>1 DEF x
      <3>3. first \in 1 .. Len(list) /\ list[first] \in Mark /\ Reaches(list[first], t)
        BY <1>7, <3>1
      <3>4. ASSUME x.mark = h.id PROVE Reaches(h, t)
        <4>1. list[first] = h BY <1>4, <3>2, <3>3, <3>4
        <4> QED BY <3>3, <4>1
      <3>5. ASSUME Reaches(h, t) PROVE x.mark = h.id
        <4>1. SUFFICES ASSUME first # m PROVE FALSE BY <3>2 DEF h
        <4>2. m \in over /\ first <= m BY <1>7, <3>1, <3>5
        <4>3. Len(list) \in Nat /\ DOMAIN list = 1 .. Len(list) BY <1>1
        <4>4. first < m BY <3>3, <4>1, <4>2, <4>3
        <4>5. h.from <= SourceStart(t) /\ SourceEnd(t) <= h.to BY <1>5, <1>10, <3>5 DEF Aligned
        <4> DEFINE f == list[first]
        <4>6. f.from \in Nat /\ f.to \in Nat BY <3>3, MarkFacts
        <4>7. SourceStart(t) < f.to /\ SourceEnd(t) > f.from BY <3>3 DEF Reaches
        <4> HIDE DEF f
        <4>8. f.from < h.to /\ h.from < f.to
          <5> DEFINE a == f.from
                     b == f.to
                     c == h.from
                     d == h.to
                     start == SourceStart(t)
                     end == SourceEnd(t)
          <5>3. end \in Nat
            <6> DEFINE length == Tokens[t].length
            <6>1. end = start + length /\ start \in Nat /\ length \in Nat BY <1>8, Zenon
            <6> HIDE DEF end, start, length
            <6> QED BY <6>1
          <5>1. /\ a \in Nat /\ b \in Nat /\ c \in Nat /\ d \in Nat
                /\ start \in Nat /\ end \in Nat
                /\ c <= start /\ end <= d /\ start < b /\ end > a
            BY <1>6, <1>8, <4>5, <4>6, <4>7, <5>3, Zenon
          <5> HIDE DEF a, b, c, d, start, end
          <5>2. a < d /\ c < b BY <5>1
          <5> QED BY <5>2 DEF a, b, c, d
        <4>9. Overlap(list) BY <3>3, <4>3, <4>4, <4>8 DEF Overlap, f, h
        <4> QED BY <1>1, <4>9
      <3> QED BY <2>1, <3>4, <3>5 DEF x, h
    <2> QED BY <2>2, <2>3
  <1> QED BY <1>9, <1>10

\* The text nodes of a page.
LEMMA NodePlaces ==
    ASSUME dom \in Page
    PROVE  /\ DOMAIN dom = 0 .. Len(Tokens)
           /\ \A t \in 0 .. Len(Tokens) : \A i \in 1 .. Len(dom[t]) : <<t, i>> \in Nodes
           /\ \A n \in Nodes : \E t \in 0 .. Len(Tokens) : \E i \in 1 .. Len(dom[t]) : n = <<t, i>>
           /\ \A t \in 0 .. Len(Tokens) : \A i \in 1 .. Len(dom[t]) :
                  /\ dom[t][i] \in TextNode /\ dom[t][i].text \in Seq(Chars)
                  /\ DOMAIN dom[t][i].text = 1 .. Len(dom[t][i].text)
                  /\ Len(dom[t][i].text) \in Nat
  <1>1. DOMAIN dom = 0 .. Len(Tokens) BY DEF Page
  <1>2. \A t \in 0 .. Len(Tokens) : dom[t] \in Seq(TextNode) BY DEF Page
  <1>3. \A t \in 0 .. Len(Tokens) : DOMAIN dom[t] = 1 .. Len(dom[t])
                                    /\ \A i \in 1 .. Len(dom[t]) : dom[t][i] \in TextNode
    <2>1. ASSUME NEW t \in 0 .. Len(Tokens)
          PROVE  DOMAIN dom[t] = 1 .. Len(dom[t]) /\ \A i \in 1 .. Len(dom[t]) : dom[t][i] \in TextNode
      <3> DEFINE s == dom[t]
      <3>1. s \in Seq(TextNode) BY <1>2
      <3> HIDE DEF s, TextNode
      <3>2. DOMAIN s = 1 .. Len(s) /\ \A i \in 1 .. Len(s) : s[i] \in TextNode BY <3>1
      <3> QED BY <3>2 DEF s
    <2> QED BY <2>1
  <1>4. \A x \in TextNode : /\ x.text \in Seq(Chars) /\ DOMAIN x.text = 1 .. Len(x.text)
                            /\ Len(x.text) \in Nat
    BY NodeFacts
  <1>5. ASSUME NEW t \in 0 .. Len(Tokens), NEW i \in 1 .. Len(dom[t]) PROVE <<t, i>> \in Nodes
    BY <1>1, <1>3 DEF Nodes
  <1>6. ASSUME NEW n \in Nodes
        PROVE  \E t \in 0 .. Len(Tokens) : \E i \in 1 .. Len(dom[t]) : n = <<t, i>>
    BY <1>1, <1>3 DEF Nodes
  <1> QED BY <1>1, <1>3, <1>4, <1>5, <1>6

\* What the invariant says of a page that is not torn.
LEMMA PageFacts ==
    ASSUME MarksInv, ~torn
    PROVE  /\ dom[0] = Original[0]
           /\ \A t \in 1 .. Len(Tokens) : SpanOK(t, shownMarks, dom[t])
  <1> DEFINE list == shownMarks
  <1>1. list \in Seq(Mark) /\ ~Overlap(list) /\ dom = Marked(Original, list)
    BY DEF MarksInv, MarksTyped, PageIsMarked
  <1> HIDE DEF list
  <1>2. \A t \in 1 .. Len(Tokens) : SpanOK(t, list, Marked(Original, list)[t]) BY <1>1, SpanIsOK
  <1>3. Marked(Original, list)[0] = Original[0] BY <1>1, OriginalPage, MarkedFacts
  <1> QED BY <1>1, <1>2, <1>3 DEF list

\* A mark that is on the page is in its list.
LEMMA MarksAreListed ==
    ASSUME MarksInv, ~torn, NEW t \in 0 .. Len(Tokens), NEW i \in 1 .. Len(dom[t]),
           dom[t][i].mark # 0
    PROVE  \E h \in ToSet(shownMarks) : h.id = dom[t][i].mark
  <1>1. shownMarks \in Seq(Mark) /\ dom \in Page BY DEF MarksInv, MarksTyped
  <1>2. t # 0
    <2>1. SUFFICES ASSUME t = 0 PROVE FALSE OBVIOUS
    <2>2. i \in 1 .. Len(Original[0]) /\ Original[0][i].mark # 0 BY <2>1, PageFacts
    <2>3. 0 \in 0 .. Len(Tokens) BY TokenFacts
    <2> QED BY <2>2, <2>3, OriginalFacts
  <1>3. t \in 1 .. Len(Tokens) BY <1>2, TokenFacts
  <1>4. SpanOK(t, shownMarks, dom[t]) BY <1>3, PageFacts
  <1>5. Over(t, shownMarks) \subseteq 1 .. Len(shownMarks) BY <1>1, <1>3, OverFacts
  <1>6. \E j \in Over(t, shownMarks) : shownMarks[j].id = dom[t][i].mark
    <2>1. CASE Plain(t) BY <1>4, <2>1 DEF SpanOK, Sliced
    <2>2. CASE ~Plain(t) /\ Over(t, shownMarks) = {} BY <1>4, <2>2 DEF SpanOK
    <2>3. CASE ~Plain(t) /\ Over(t, shownMarks) # {} BY <1>4, <2>3 DEF SpanOK
    <2> QED BY <2>1, <2>2, <2>3
  <1> QED BY <1>1, <1>5, <1>6, MarkPlaces

\* A highlight colours what it covers.
LEMMA MarkCovers ==
    ASSUME MarksInv, ~torn, NEW h \in ToSet(shownMarks), h.id \notin blurred
    PROVE  UNION {ToSet(dom[n[1]][n[2]].text) :
                      n \in {m \in Nodes : dom[m[1]][m[2]].mark = h.id}} = Covered(h)
  <1> DEFINE marked == {m \in Nodes : dom[m[1]][m[2]].mark = h.id}
             shown == UNION {ToSet(dom[n[1]][n[2]].text) : n \in marked}
  <1>1. shownMarks \in Seq(Mark) /\ dom \in Page BY DEF MarksInv, MarksTyped
  <1>2. PICK m \in 1 .. Len(shownMarks) : shownMarks[m] = h BY <1>1, MarkPlaces
  <1>3. h.id \in Nat \ {0} BY <1>1, MarkPlaces, MarkFacts
  <1>4. \A t \in 1 .. Len(Tokens) : Showing(t, dom[t]) BY PageFacts DEF SpanOK
  <1>5. \A t \in 1 .. Len(Tokens) : t \in 0 .. Len(Tokens) /\ t \in Nat BY TokenFacts
  <1>6. ASSUME NEW c \in shown PROVE c \in Covered(h)
    <2>1. PICK n \in marked : c \in ToSet(dom[n[1]][n[2]].text) BY <1>6
    <2>2. PICK t \in 0 .. Len(Tokens) : \E i \in 1 .. Len(dom[t]) : n = <<t, i>>
      BY <1>1, <2>1, NodePlaces
    <2>3. PICK i \in 1 .. Len(dom[t]) : n = <<t, i>> BY <2>2
    <2>4. dom[t][i].mark = h.id /\ c \in ToSet(dom[t][i].text) BY <2>1, <2>3
    <2>5. t # 0
      <3>1. SUFFICES ASSUME t = 0 PROVE FALSE OBVIOUS
      <3>2. i \in 1 .. Len(Original[0]) /\ Original[0][i].mark # 0
        BY <1>3, <2>3, <2>4, <3>1, PageFacts
      <3>3. 0 \in 0 .. Len(Tokens) BY TokenFacts
      <3> QED BY <3>2, <3>3, OriginalFacts
    <2>6. t \in 1 .. Len(Tokens) BY <2>2, <2>5, TokenFacts
    <2>7. PICK k \in 1 .. Len(dom[t][i].text) : dom[t][i].text[k] = c
      <3>1. DOMAIN dom[t][i].text = 1 .. Len(dom[t][i].text) BY <1>1, <2>2, <2>3, NodePlaces
      <3> QED BY <2>4, <3>1 DEF ToSet
    <2>8. PICK p \in 1 .. Tokens[t].shown : dom[t][i].text[k] = <<t, p>>
      BY <1>4, <2>3, <2>6, <2>7 DEF Showing
    <2>9. Shades(shownMarks[m], t, p)
      <3>1. dom[t][i].mark = shownMarks[m].id /\ shownMarks[m].id \notin blurred BY <1>2, <2>4
      <3> QED BY <1>2, <2>3, <2>6, <2>7, <2>8, <3>1, SpanColours
    <2>10. c = <<t, p>> /\ Shades(h, t, p) BY <1>2, <2>7, <2>8, <2>9
    <2>11. p \in Nat /\ t \in Nat BY <1>5, <2>6, <2>8, TokenFacts
    <2> QED BY <2>6, <2>8, <2>10, <2>11 DEF Covered, Chars
  <1>7. ASSUME NEW c \in Covered(h) PROVE c \in shown
    <2> DEFINE t == c[1]
               p == c[2]
    <2>1. /\ t \in 1 .. Len(Tokens) /\ p \in 1 .. Tokens[t].shown /\ Shades(h, t, p)
          /\ c = <<t, p>>
      BY DEF Covered, Chars
    <2> HIDE DEF t, p
    <2>2. PICK i \in 1 .. Len(dom[t]) : \E k \in 1 .. Len(dom[t][i].text) :
              dom[t][i].text[k] = <<t, p>>
      BY <1>4, <2>1 DEF Showing
    <2>3. PICK k \in 1 .. Len(dom[t][i].text) : dom[t][i].text[k] = <<t, p>> BY <2>2
    <2>4. dom[t][i].mark = h.id
      <3>1. Shades(shownMarks[m], t, p) /\ shownMarks[m].id \notin blurred BY <1>2, <2>1
      <3>2. dom[t][i].mark = shownMarks[m].id
        BY <1>2, <2>1, <2>2, <2>3, <3>1, SpanColours
      <3> QED BY <1>2, <3>2
    <2>5. <<t, i>> \in Nodes BY <1>1, <1>5, <2>1, <2>2, NodePlaces
    <2>6. <<t, i>> \in marked BY <2>4, <2>5
    <2>7. c \in ToSet(dom[t][i].text)
      <3>1. DOMAIN dom[t][i].text = 1 .. Len(dom[t][i].text) BY <1>1, <1>5, <2>1, <2>2, NodePlaces
      <3> QED BY <2>1, <2>3, <3>1 DEF ToSet
    <2> QED BY <2>6, <2>7
  <1>8. shown = Covered(h)
    <2> HIDE DEF shown
    <2> QED BY <1>6, <1>7
  <1> QED BY <1>8

\* The invariant says what the property does.
LEMMA MarksSay == MarksInv => MarksAreWhatWasSelected
  <1> SUFFICES ASSUME MarksInv, ~torn
               PROVE  /\ \A t \in DOMAIN dom : TextOf(dom[t]) = TextOf(Original[t])
                      /\ \A h \in ToSet(shownMarks) : h.id \notin blurred =>
                             UNION {ToSet(dom[n[1]][n[2]].text) :
                                 n \in {m \in Nodes : dom[m[1]][m[2]].mark = h.id}} = meant[h.id]
                      /\ \A n \in Nodes : dom[n[1]][n[2]].mark # 0 =>
                             \E h \in ToSet(shownMarks) : h.id = dom[n[1]][n[2]].mark
    BY DEF MarksAreWhatWasSelected
  <1>1. shownMarks \in Seq(Mark) /\ dom \in Page BY DEF MarksInv, MarksTyped
  <1>2. ASSUME NEW t \in DOMAIN dom PROVE TextOf(dom[t]) = TextOf(Original[t])
    <2>1. t = 0 \/ t \in 1 .. Len(Tokens) BY <1>1, NodePlaces, TokenFacts
    <2>2. CASE t = 0 BY <2>2, PageFacts
    <2>3. CASE t \in 1 .. Len(Tokens) BY <2>3, PageFacts DEF SpanOK
    <2> QED BY <2>1, <2>2, <2>3
  <1>3. ASSUME NEW h \in ToSet(shownMarks), h.id \notin blurred
        PROVE  UNION {ToSet(dom[n[1]][n[2]].text) :
                   n \in {m \in Nodes : dom[m[1]][m[2]].mark = h.id}} = meant[h.id]
    <2>1. h \in Known BY DEF Known
    <2>2. Covered(h) = meant[h.id] BY <1>3, <2>1 DEF MarksInv, KnownOK
    <2>3. UNION {ToSet(dom[n[1]][n[2]].text) :
                     n \in {m \in Nodes : dom[m[1]][m[2]].mark = h.id}} = Covered(h)
      BY <1>3, MarkCovers
    <2> QED BY <2>2, <2>3
  <1>4. ASSUME NEW n \in Nodes, dom[n[1]][n[2]].mark # 0
        PROVE  \E h \in ToSet(shownMarks) : h.id = dom[n[1]][n[2]].mark
    <2>1. PICK t \in 0 .. Len(Tokens) : \E i \in 1 .. Len(dom[t]) : n = <<t, i>>
      BY <1>1, NodePlaces
    <2>2. PICK i \in 1 .. Len(dom[t]) : n = <<t, i>> BY <2>1
    <2>3. n[1] = t /\ n[2] = i BY <2>2
    <2>4. dom[t][i].mark # 0 BY <1>4, <2>3
    <2>5. \E h \in ToSet(shownMarks) : h.id = dom[t][i].mark BY <2>1, <2>2, <2>4, MarksAreListed
    <2> QED BY <2>3, <2>5
  <1> QED BY <1>2, <1>3, <1>4

-----------------------------------------------------------------------------
(* What was selected.                                                        *)

\* A place of the page: its span, its node and the offset in it.
LEMMA PlaceFacts ==
    ASSUME dom \in Page
    PROVE  /\ \A q \in Places :
                  /\ q = <<q[1], q[2], q[3]>>
                  /\ q[1] \in 0 .. Len(Tokens) /\ q[2] \in 1 .. Len(dom[q[1]])
                  /\ q[3] \in 0 .. Len(dom[q[1]][q[2]].text)
                  /\ q[1] \in Nat /\ q[2] \in Nat /\ q[3] \in Nat
           /\ \A t \in 0 .. Len(Tokens) : \A i \in 1 .. Len(dom[t]) :
                  \A k \in 0 .. Len(dom[t][i].text) : <<t, i, k>> \in Places
  <1>1. ASSUME NEW q \in Places
        PROVE  /\ q = <<q[1], q[2], q[3]>>
               /\ q[1] \in 0 .. Len(Tokens) /\ q[2] \in 1 .. Len(dom[q[1]])
               /\ q[3] \in 0 .. Len(dom[q[1]][q[2]].text)
               /\ q[1] \in Nat /\ q[2] \in Nat /\ q[3] \in Nat
    <2>1. PICK n \in Nodes : \E k \in 0 .. Len(dom[n[1]][n[2]].text) : q = <<n[1], n[2], k>>
      BY DEF Places
    <2>2. PICK t \in 0 .. Len(Tokens) : \E i \in 1 .. Len(dom[t]) : n = <<t, i>>
      BY <2>1, NodePlaces
    <2>3. PICK i \in 1 .. Len(dom[t]) : n = <<t, i>> BY <2>2
    <2>4. PICK k \in 0 .. Len(dom[n[1]][n[2]].text) : q = <<n[1], n[2], k>> BY <2>1
    <2>5. n[1] = t /\ n[2] = i BY <2>3
    <2>6. q = <<t, i, k>> /\ k \in 0 .. Len(dom[t][i].text) BY <2>4, <2>5
    <2>7. Len(dom[t][i].text) \in Nat BY <2>2, <2>3, NodePlaces
    <2>8. t \in Nat /\ i \in Nat /\ k \in Nat BY <2>2, <2>3, <2>6, <2>7, TokenFacts
    <2>9. q[1] = t /\ q[2] = i /\ q[3] = k BY <2>6
    <2> HIDE DEF Page
    <2> QED BY <2>2, <2>3, <2>6, <2>8, <2>9
  <1>2. ASSUME NEW t \in 0 .. Len(Tokens), NEW i \in 1 .. Len(dom[t]),
               NEW k \in 0 .. Len(dom[t][i].text)
        PROVE  <<t, i, k>> \in Places
    <2> DEFINE n == <<t, i>>
    <2>1. n \in Nodes /\ n[1] = t /\ n[2] = i BY NodePlaces
    <2> HIDE DEF n
    <2>2. k \in 0 .. Len(dom[n[1]][n[2]].text) BY <2>1
    <2>3. <<n[1], n[2], k>> \in Places BY <2>1, <2>2 DEF Places
    <2> QED BY <2>1, <2>3
  <1> QED BY <1>1, <1>2

\* The first node of a plain token has its first characters.
LEMMA FirstNodeFacts ==
    ASSUME MarksInv, ~torn, NEW t \in 1 .. Len(Tokens), Plain(t)
    PROVE  /\ Len(dom[t][1].text) \in 0 .. Tokens[t].length
           /\ \A i \in 1 .. Len(dom[t]) : \A k \in 1 .. Len(dom[t][i].text) :
                  \E p \in 1 .. Tokens[t].length : /\ dom[t][i].text[k] = <<t, p>>
                                                   /\ i = 1 => p = k
                                                   /\ i # 1 => p > Len(dom[t][1].text)
  <1> DEFINE d == dom[t]
             n == Tokens[t].length
             first == Len(d[1].text)
  <1>1. Sliced(t, shownMarks, Over(t, shownMarks), d, Tokens[t].shown)
    BY PageFacts DEF SpanOK
  <1>2. n \in Nat \ {0} /\ Tokens[t].shown = n BY TokenFacts
  <1>3. dom \in Page /\ t \in 0 .. Len(Tokens) BY TokenFacts DEF MarksInv, MarksTyped
  <1>4. d # <<>> BY <1>1, <1>2 DEF Sliced
  <1>5. d \in Seq(TextNode) BY <1>3 DEF Page
  <1>6. 1 \in 1 .. Len(d)
    <2> HIDE DEF d, TextNode
    <2> QED BY <1>4, <1>5
  <1>7. first \in Nat BY <1>3, <1>6, NodePlaces
  <1> HIDE DEF d, first, n
  <1>8. \A k \in 1 .. first : d[1].text[k] = <<t, k>> BY <1>1, <1>4 DEF Sliced, first
  <1>9. \A i \in 1 .. Len(d) : \A k \in 1 .. Len(d[i].text) :
            \E p \in 1 .. n : d[i].text[k] = <<t, p>> /\ (i # 1 => p > first)
    BY <1>1, <1>2 DEF Sliced, first
  <1>10. ASSUME NEW i \in 1 .. Len(d), NEW k \in 1 .. Len(d[i].text)
         PROVE  \E p \in 1 .. n : /\ d[i].text[k] = <<t, p>>
                                  /\ i = 1 => p = k
                                  /\ i # 1 => p > first
    <2>1. PICK p \in 1 .. n : d[i].text[k] = <<t, p>> /\ (i # 1 => p > first) BY <1>9
    <2>2. CASE i = 1
      <3>1. k \in 1 .. first BY <2>2 DEF first
      <3>2. <<t, p>> = <<t, k>> BY <1>8, <2>1, <2>2, <3>1
      <3>3. p = k BY <3>2
      <3> QED BY <2>1, <2>2, <3>3
    <2> QED BY <2>1, <2>2
  <1>11. first \in 0 .. n
    <2>1. CASE first = 0 BY <1>2, <2>1
    <2>2. CASE first # 0
      <3>1. first \in 1 .. first /\ first \in 1 .. Len(d[1].text) BY <1>7, <2>2 DEF first
      <3>2. PICK p \in 1 .. n : d[1].text[first] = <<t, p>> /\ p = first BY <1>6, <1>10, <3>1
      <3>3. first \in 1 .. n BY <3>2
      <3> QED BY <1>2, <3>3
    <2> QED BY <2>1, <2>2
  <1> QED BY <1>10, <1>11 DEF d, n, first

\* A place in the first node of a span is before the characters that follow it.
LEMMA PlaceBefore ==
    ASSUME MarksInv, ~torn, NEW q \in Places, FirstOfSpan(q),
           NEW t \in 1 .. Len(Tokens), Plain(t), NEW i \in 1 .. Len(dom[t]),
           NEW k \in 1 .. Len(dom[t][i].text), NEW p \in Nat, dom[t][i].text[k] = <<t, p>>
    PROVE  Before(q, <<t, i, k>>) <=> q[1] < t \/ (q[1] = t /\ q[3] < p)
  <1> DEFINE first == Len(dom[t][1].text)
             u == q[1]
             j == q[2]
             l == q[3]
  <1>1. dom \in Page BY DEF MarksInv, MarksTyped
  <1>2. /\ u \in Nat /\ j \in Nat /\ l \in Nat /\ l \in 0 .. Len(dom[u][j].text) BY <1>1, PlaceFacts
  <1>3. PICK r \in 1 .. Tokens[t].length : /\ dom[t][i].text[k] = <<t, r>>
                                           /\ i = 1 => r = k
                                           /\ i # 1 => r > first
    BY FirstNodeFacts
  <1>4. r = p BY <1>3
  <1>5. first \in Nat /\ t \in Nat /\ i \in Nat
    <2>1. first \in 0 .. Tokens[t].length BY FirstNodeFacts
    <2> QED BY <2>1, TokenFacts
  <1>6. Before(q, <<t, i, k>>) <=> u < t \/ (u = t /\ (j < i \/ (j = i /\ l < k)))
    BY DEF Before
  <1>7. u = t => j = 1 /\ l <= first
    <2>1. SUFFICES ASSUME u = t PROVE j = 1 /\ l <= first OBVIOUS
    <2>2. j = 1
      <3>1. u # 0 /\ Plain(u) BY <2>1, TokenFacts
      <3> QED BY <3>1 DEF FirstOfSpan
    <2>3. l \in 0 .. first BY <1>2, <2>1, <2>2
    <2> QED BY <1>5, <2>2, <2>3
  <1> HIDE DEF u, j, l, first
  <1>8. (i = 1 => p = k) /\ (i # 1 => p > first) BY <1>3, <1>4
  <1>9. i \in 1 .. Len(dom[t]) OBVIOUS
  <1>10. i = 1 \/ 1 < i BY <1>5, <1>9
  <1>11. u = t => ((j < i \/ (j = i /\ l < k)) <=> l < p)
    <2>1. SUFFICES ASSUME u = t PROVE (j < i \/ (j = i /\ l < k)) <=> l < p OBVIOUS
    <2>2. j = 1 /\ l <= first BY <1>7, <2>1
    <2>3. CASE i = 1 BY <1>8, <2>2, <2>3
    <2>4. CASE 1 < i
      <3>1. p > first BY <1>8, <2>4
      <3> QED BY <1>2, <1>5, <2>2, <2>4, <3>1
    <2> QED BY <1>10, <2>3, <2>4
  <1> QED BY <1>6, <1>11 DEF u, l

\* A character between two places, or of a token that was touched.
Chosen(start, end, t, p) ==
    IF Plain(t)
    THEN /\ start[1] < t \/ (start[1] = t /\ start[3] < p)
         /\ ~ (end[1] < t \/ (end[1] = t /\ end[3] < p))
    ELSE start[1] <= t /\ t <= end[1]

\* On a page that is not torn the characters selected are those between the two places.
LEMMA SelectedAre ==
    ASSUME MarksInv, ~torn, NEW start \in Places, NEW end \in Places,
           FirstOfSpan(start), FirstOfSpan(end)
    PROVE  Selected(start, end) =
               {c \in Chars : /\ c[1] \in 1 .. Len(Tokens) /\ c[2] \in 1 .. Tokens[c[1]].shown
                              /\ Chosen(start, end, c[1], c[2])}
  <1> DEFINE chosen == {c \in Chars : /\ c[1] \in 1 .. Len(Tokens)
                                      /\ c[2] \in 1 .. Tokens[c[1]].shown
                                      /\ Chosen(start, end, c[1], c[2])}
             between == {q \in Places : q[1] # 0 /\ Before(start, q) /\ ~Before(end, q) /\ q[3] # 0}
             touched == {t \in DOMAIN Tokens : start[1] <= t /\ t <= end[1] /\ ~Plain(t)}
             read == {dom[q[1]][q[2]].text[q[3]] : q \in between}
             whole == UNION {ToSet(CharsOf(t)) : t \in touched}
  <1>1. dom \in Page BY DEF MarksInv, MarksTyped
  <1>2. /\ start[1] \in Nat /\ start[3] \in Nat /\ end[1] \in Nat /\ end[3] \in Nat
    BY <1>1, PlaceFacts
  <1>3. \A t \in 1 .. Len(Tokens) : Showing(t, dom[t]) BY PageFacts DEF SpanOK
  <1>4. \A t \in 1 .. Len(Tokens) : t \in 0 .. Len(Tokens) /\ t \in Nat /\ t # 0 BY TokenFacts
  <1>5. Selected(start, end) = read \cup whole BY DEF Selected
  <1>6. ASSUME NEW t \in 1 .. Len(Tokens), NEW p \in 1 .. Tokens[t].shown,
               Chosen(start, end, t, p)
        PROVE  <<t, p>> \in chosen
    <2> DEFINE c == <<t, p>>
    <2>1. c \in Chars BY <1>4, TokenFacts DEF Chars
    <2>2. c[1] = t /\ c[2] = p OBVIOUS
    <2> HIDE DEF c
    <2>3. c \in chosen BY <1>6, <2>1, <2>2
    <2> QED BY <2>3 DEF c
  <1>7. ASSUME NEW c \in read PROVE c \in chosen
    <2>1. PICK q \in between : c = dom[q[1]][q[2]].text[q[3]] BY <1>7, Zenon
    <2> DEFINE t == q[1]
               i == q[2]
               k == q[3]
    <2>2. /\ q = <<t, i, k>> /\ t \in 0 .. Len(Tokens) /\ i \in 1 .. Len(dom[t])
          /\ k \in 0 .. Len(dom[t][i].text) /\ t \in Nat /\ k \in Nat
      BY ZenonT(30), <1>1, <2>1, PlaceFacts
    <2>3. t # 0 /\ k # 0 /\ Before(start, q) /\ ~Before(end, q) BY <2>1
    <2>4. c = dom[t][i].text[k] BY <2>1
    <2> HIDE DEF t, i, k
    <2>5. t \in 1 .. Len(Tokens) BY <2>2, <2>3, TokenFacts
    <2>6. k \in 1 .. Len(dom[t][i].text) BY <2>2, <2>3
    <2>7. PICK p \in 1 .. Tokens[t].shown : dom[t][i].text[k] = <<t, p>>
      BY <1>3, <2>2, <2>5, <2>6 DEF Showing
    <2>8. Before(start, <<t, i, k>>) /\ ~Before(end, <<t, i, k>>) BY <2>2, <2>3
    <2>9. Chosen(start, end, t, p)
      <3>1. CASE Plain(t)
        <4>1. p \in Nat BY <2>5, TokenFacts
        <4>2. Before(start, <<t, i, k>>) <=> start[1] < t \/ (start[1] = t /\ start[3] < p)
          BY <2>2, <2>5, <2>6, <2>7, <3>1, <4>1, PlaceBefore
        <4>3. Before(end, <<t, i, k>>) <=> end[1] < t \/ (end[1] = t /\ end[3] < p)
          BY <2>2, <2>5, <2>6, <2>7, <3>1, <4>1, PlaceBefore
        <4> QED BY <2>8, <3>1, <4>2, <4>3 DEF Chosen
      <3>2. CASE ~Plain(t)
        <4>1. start[1] <= t BY <1>2, <2>2, <2>8 DEF Before
        <4>2. ~ (end[1] < t) BY <2>8 DEF Before
        <4>3. t <= end[1] BY <1>2, <2>2, <4>2
        <4> QED BY <3>2, <4>1, <4>3 DEF Chosen
      <3> QED BY <3>1, <3>2
    <2>10. <<t, p>> \in chosen BY <1>6, <2>5, <2>9
    <2> HIDE DEF chosen
    <2> QED BY <2>4, <2>7, <2>10
  <1>8. ASSUME NEW c \in whole PROVE c \in chosen
    <2>1. PICK t \in touched : c \in ToSet(CharsOf(t)) BY <1>8
    <2>2. t \in 1 .. Len(Tokens) /\ ~Plain(t) /\ start[1] <= t /\ t <= end[1] BY <2>1, TokenFacts
    <2>3. PICK p \in 1 .. Tokens[t].shown : c = <<t, p>>
      <3>1. DOMAIN CharsOf(t) = 1 .. Tokens[t].shown BY DEF CharsOf
      <3>2. \A p \in 1 .. Tokens[t].shown : CharsOf(t)[p] = <<t, p>> BY <2>2, CharFacts
      <3> QED BY <2>1, <3>1, <3>2 DEF ToSet
    <2>4. Chosen(start, end, t, p) BY <2>2 DEF Chosen
    <2>5. <<t, p>> \in chosen BY <1>6, <2>2, <2>4
    <2> HIDE DEF chosen
    <2> QED BY <2>3, <2>5
  <1>9. ASSUME NEW c \in chosen PROVE c \in read \cup whole
    <2> DEFINE t == c[1]
               p == c[2]
    <2>1. /\ t \in 1 .. Len(Tokens) /\ p \in 1 .. Tokens[t].shown /\ Chosen(start, end, t, p)
          /\ c = <<t, p>>
      BY DEF Chars
    <2> HIDE DEF t, p, chosen
    <2>2. CASE Plain(t)
      <3>1. PICK i \in 1 .. Len(dom[t]) : \E k \in 1 .. Len(dom[t][i].text) :
                dom[t][i].text[k] = <<t, p>>
        BY <1>3, <2>1 DEF Showing
      <3>2. PICK k \in 1 .. Len(dom[t][i].text) : dom[t][i].text[k] = <<t, p>> BY <3>1
      <3>3. p \in Nat BY <2>1, TokenFacts
      <3>4. Before(start, <<t, i, k>>) <=> start[1] < t \/ (start[1] = t /\ start[3] < p)
        BY <2>1, <2>2, <3>1, <3>2, <3>3, PlaceBefore
      <3>5. Before(end, <<t, i, k>>) <=> end[1] < t \/ (end[1] = t /\ end[3] < p)
        BY <2>1, <2>2, <3>1, <3>2, <3>3, PlaceBefore
      <3>6. Before(start, <<t, i, k>>) /\ ~Before(end, <<t, i, k>>)
        BY <2>1, <2>2, <3>4, <3>5 DEF Chosen
      <3>7. t # 0 /\ t \in 0 .. Len(Tokens) BY <1>4, <2>1
      <3>8. k # 0 /\ k \in 0 .. Len(dom[t][i].text)
        <4>1. Len(dom[t][i].text) \in Nat BY <1>1, <3>1, <3>7, NodePlaces
        <4> QED BY <3>2, <4>1
      <3> DEFINE q == <<t, i, k>>
      <3>9. q \in Places BY <1>1, <3>1, <3>7, <3>8, PlaceFacts
      <3>10. q[1] = t /\ q[2] = i /\ q[3] = k OBVIOUS
      <3>11. Before(start, q) /\ ~Before(end, q) BY <3>6
      <3> HIDE DEF q
      <3>12. q \in between BY <3>7, <3>8, <3>9, <3>10, <3>11
      <3>13. dom[q[1]][q[2]].text[q[3]] = c BY <2>1, <3>2, <3>10
      <3> HIDE DEF between, whole
      <3>14. c \in read BY <3>12, <3>13
      <3> QED BY <3>14
    <2>3. CASE ~Plain(t)
      <3>1. t \in touched
        <4>1. start[1] <= t /\ t <= end[1] BY <2>1, <2>3 DEF Chosen
        <4> QED BY <2>1, <2>3, <4>1, TokenFacts
      <3>2. c \in ToSet(CharsOf(t))
        <4>1. DOMAIN CharsOf(t) = 1 .. Tokens[t].shown BY DEF CharsOf
        <4>2. CharsOf(t)[p] = <<t, p>> BY <2>1, CharFacts
        <4> QED BY <2>1, <4>1, <4>2 DEF ToSet
      <3> HIDE DEF read, touched
      <3> QED BY <3>1, <3>2
    <2> QED BY <2>2, <2>3
  <1> HIDE DEF read, whole, chosen
  <1>10. read \cup whole = chosen BY <1>7, <1>8, <1>9
  <1> QED BY <1>5, <1>10 DEF chosen

\* The range of a selection has exactly what was chosen, and its tokens as a whole.
LEMMA RangeIsChosen ==
    ASSUME MarksInv, NEW start \in Places, NEW end \in Places, Before(start, end), end[1] # 0,
           start[1] # 0 /\ Plain(start[1]) => start[3] <= Tokens[start[1]].length,
           Plain(end[1]) => end[3] <= Tokens[end[1]].length
    PROVE  /\ \A t \in 1 .. Len(Tokens) : \A p \in 1 .. Tokens[t].shown :
                  Chosen(start, end, t, p) <=> Shades(SelectionRange(start, end), t, p)
           /\ Aligned(SelectionRange(start, end))
  <1> DEFINE range == SelectionRange(start, end)
             a == start[1]
             k == start[3]
             b == end[1]
             l == end[3]
             first == Bigger(1, a)
             off == IF first = a /\ Plain(first) THEN k ELSE 0
             from == range.from
             to == range.to
  <1>1. dom \in Page BY DEF MarksInv, MarksTyped
  <1>2. /\ a \in Nat /\ k \in Nat /\ b \in Nat /\ l \in Nat
        /\ a \in 0 .. Len(Tokens) /\ b \in 0 .. Len(Tokens)
    BY <1>1, PlaceFacts
  <1>3. a <= b /\ b # 0 BY <1>2 DEF Before
  <1>4. /\ range = [from |-> SourceStart(first) + off,
                    to   |-> IF Plain(b) THEN SourceStart(b) + l ELSE SourceEnd(b)]
    BY <1>3 DEF SelectionRange
  <1>5. /\ from = SourceStart(first) + off
        /\ to = IF Plain(b) THEN SourceStart(b) + l ELSE SourceEnd(b)
    <2> HIDE DEF from, to, first, off, range
    <2> QED BY <1>4 DEF from, to
  <1>6. Plain(b) => l <= Tokens[b].length OBVIOUS
  <1>7. a # 0 /\ Plain(a) => k <= Tokens[a].length OBVIOUS
  <1>8. \A t, p : Chosen(start, end, t, p) <=>
            IF Plain(t) THEN (a < t \/ (a = t /\ k < p)) /\ ~ (b < t \/ (b = t /\ l < p))
            ELSE a <= t /\ t <= b
    BY DEF Chosen
  <1> HIDE DEF range, a, k, b, l, from, to
  <1>9. /\ first \in 1 .. Len(Tokens) /\ b \in 1 .. Len(Tokens) /\ first <= b
        /\ a # 0 => first = a
        /\ a = 0 => first = 1
    BY <1>2, <1>3, TokenFacts DEF Bigger
  <1>10. /\ off \in Nat /\ off <= Tokens[first].length
         /\ Plain(first) /\ a # 0 => off = k
         /\ ~Plain(first) \/ a = 0 => off = 0
    <2>1. Tokens[first].length \in Nat BY <1>9, TokenFacts
    <2>2. a = 0 => first # a BY <1>9
    <2> HIDE DEF first
    <2> QED BY <1>2, <1>7, <1>9, <2>1, <2>2
  <1> HIDE DEF first, off
  <1>11. \A t \in 1 .. Len(Tokens) : /\ t \in Nat
                                     /\ SourceStart(t) \in Nat /\ Tokens[t].length \in Nat \ {0}
                                     /\ SourceEnd(t) = SourceStart(t) + Tokens[t].length
                                     /\ SourceEnd(t) \in Nat
    BY StartFacts, TokenFacts DEF SourceEnd
  <1>12. /\ from \in Nat /\ from >= SourceStart(first) /\ from <= SourceEnd(first)
         /\ to \in Nat /\ to >= SourceStart(b) /\ to <= SourceEnd(b)
    <2>1. SourceStart(first) \in Nat /\ Tokens[first].length \in Nat
          /\ SourceEnd(first) = SourceStart(first) + Tokens[first].length
      BY <1>9, <1>11
    <2>2. SourceStart(b) \in Nat /\ Tokens[b].length \in Nat
          /\ SourceEnd(b) = SourceStart(b) + Tokens[b].length
      BY <1>9, <1>11
    <2>3. from \in Nat /\ from >= SourceStart(first) /\ from <= SourceEnd(first)
      BY <1>5, <1>10, <2>1
    <2>4. CASE Plain(b)
      <3>1. to = SourceStart(b) + l BY <1>5, <2>4
      <3>2. to \in Nat /\ to >= SourceStart(b) /\ to <= SourceEnd(b)
        BY <1>2, <1>6, <2>2, <2>4, <3>1
      <3> QED BY <2>3, <3>2
    <2>5. CASE ~Plain(b)
      <3>1. to = SourceEnd(b) BY <1>5, <2>5
      <3>2. to \in Nat /\ to >= SourceStart(b) /\ to <= SourceEnd(b) BY <2>2, <3>1
      <3> QED BY <2>3, <3>2
    <2> QED BY <2>4, <2>5
  <1>13. ASSUME NEW t \in 1 .. Len(Tokens)
         PROVE  /\ \A p \in 1 .. Tokens[t].shown :
                       Chosen(start, end, t, p) <=> Shades(range, t, p)
                /\ ~Plain(t) /\ SourceStart(t) < to /\ SourceEnd(t) > from =>
                       from <= SourceStart(t) /\ SourceEnd(t) <= to
    <2> DEFINE s == SourceStart(t)
               e == SourceEnd(t)
               n == Tokens[t].length
               sf == SourceStart(first)
               ef == SourceEnd(first)
               sb == SourceStart(b)
               eb == SourceEnd(b)
    <2>1. /\ s \in Nat /\ e \in Nat /\ n \in Nat \ {0} /\ e = s + n /\ t \in Nat
          /\ sf \in Nat /\ ef \in Nat /\ sb \in Nat /\ eb \in Nat /\ first \in Nat
          /\ from \in Nat /\ sf <= from /\ from <= ef
          /\ to \in Nat /\ sb <= to /\ to <= eb
      BY <1>9, <1>11, <1>12
    <2>2. /\ t < first => e <= sf
          /\ first < t => ef <= s
          /\ t < b => e <= sb
          /\ b < t => eb <= s
      BY <1>9, StartsRise
    <2>3. /\ t = first /\ Plain(t) /\ a # 0 => from = s + k
          /\ t = first /\ (~Plain(t) \/ a = 0) => from = s
      <3>1. CASE t = first /\ Plain(t) /\ a # 0 BY <1>5, <1>10, <3>1
      <3>2. CASE t = first /\ (~Plain(t) \/ a = 0)
        <4>1. from = s + 0 BY <1>5, <1>10, <3>2
        <4>2. s \in Nat BY <2>1
        <4> HIDE DEF s
        <4>3. from = s BY <4>1, <4>2
        <4> QED BY <3>2, <4>3
      <3> QED BY <3>1, <3>2
    <2>4. /\ t = b /\ Plain(t) => to = s + l
          /\ t = b /\ ~Plain(t) => to = e
      BY <1>5
    <2> HIDE DEF s, e, n, sf, ef, sb, eb
    <2>5. ASSUME NEW p \in 1 .. Tokens[t].shown, Plain(t)
          PROVE  Chosen(start, end, t, p) <=> Shades(range, t, p)
      <3>1. p \in 1 .. n BY <2>5, TokenFacts DEF n
      <3>2. from < s + p <=> a < t \/ (a = t /\ k < p)
        <4>1. CASE t < first
          <5>1. ~ (from < s + p) BY <2>1, <2>2, <3>1, <4>1
          <5>2. ~ (a < t) /\ a # t BY <1>2, <1>9, <2>1, <4>1
          <5> QED BY <5>1, <5>2
        <4>2. CASE t = first /\ a # 0
          <5>1. from = s + k /\ a = t BY <1>9, <2>3, <2>5, <4>2
          <5> QED BY <1>2, <2>1, <3>1, <5>1
        <4>3. CASE t = first /\ a = 0
          <5>1. from < s + p BY <2>1, <2>3, <3>1, <4>3
          <5>2. a < t BY <4>3
          <5> QED BY <5>1, <5>2
        <4>4. CASE first < t
          <5>1. from < s + p BY <2>1, <2>2, <3>1, <4>4
          <5>2. a < t BY <1>2, <1>9, <2>1, <4>4
          <5> QED BY <5>1, <5>2
        <4>5. t < first \/ t = first \/ first < t BY <2>1
        <4> QED BY <4>1, <4>2, <4>3, <4>4, <4>5
      <3>3. s + p <= to <=> ~ (b < t \/ (b = t /\ l < p))
        <4>1. CASE t < b
          <5>1. s + p <= to BY <2>1, <2>2, <3>1, <4>1
          <5>2. ~ (b < t) /\ b # t BY <1>2, <2>1, <4>1
          <5> QED BY <5>1, <5>2
        <4>2. CASE t = b
          <5>1. to = s + l BY <2>4, <2>5, <4>2
          <5>2. s + p <= to <=> ~ (l < p) BY <1>2, <2>1, <3>1, <5>1
          <5>3. ~ (b < t) BY <1>2, <4>2
          <5> QED BY <4>2, <5>2, <5>3
        <4>3. CASE b < t
          <5>1. ~ (s + p <= to) BY <2>1, <2>2, <3>1, <4>3
          <5> QED BY <4>3, <5>1
        <4>4. t < b \/ t = b \/ b < t BY <1>2, <2>1
        <4> QED BY <4>1, <4>2, <4>3, <4>4
      <3>4. Shades(range, t, p) <=> from < s + p /\ s + p <= to
        BY <2>5 DEF Shades, from, to, s
      <3> QED BY <1>8, <2>5, <3>2, <3>3, <3>4
    <2>6. CASE ~Plain(t)
      <3>1. e > from <=> a <= t
        <4>1. CASE t < first
          <5>1. ~ (e > from) BY <2>1, <2>2, <4>1
          <5>2. ~ (a <= t) BY <1>2, <1>9, <2>1, <4>1
          <5> QED BY <5>1, <5>2
        <4>2. CASE first <= t
          <5>1. e > from BY <2>1, <2>2, <2>3, <2>6, <4>2
          <5>2. a <= t BY <1>2, <1>9, <2>1, <4>2
          <5> QED BY <5>1, <5>2
        <4> QED BY <2>1, <4>1, <4>2
      <3>2. s < to <=> t <= b
        <4>1. CASE t <= b BY <1>2, <2>1, <2>2, <2>4, <2>6, <4>1
        <4>2. CASE b < t BY <1>2, <2>1, <2>2, <4>2
        <4> QED BY <1>2, <2>1, <4>1, <4>2
      <3>3. \A p : Shades(range, t, p) <=> s < to /\ e > from
        BY <2>6 DEF Shades, Reaches, from, to, s, e
      <3>4. \A p : Chosen(start, end, t, p) <=> Shades(range, t, p) BY <1>8, <2>6, <3>1, <3>2, <3>3
      <3>5. first <= t => from <= s BY <2>1, <2>2, <2>3, <2>6
      <3>6. t <= b => e <= to BY <1>2, <2>1, <2>2, <2>4, <2>6
      <3>7. s < to /\ e > from => from <= s /\ e <= to
        <4>1. SUFFICES ASSUME a <= t, t <= b PROVE from <= s /\ e <= to BY <3>1, <3>2
        <4>2. first <= t BY <1>2, <1>9, <2>1, <4>1
        <4> QED BY <3>5, <3>6, <4>1, <4>2
      <3> QED BY <2>6, <3>4, <3>7 DEF s, e
    <2> QED BY <2>5, <2>6
  <1>14. Aligned(range) BY <1>13 DEF Aligned, Reaches, from, to
  <1> QED BY <1>13, <1>14 DEF range

\* A selection that ends on the article gives a range of its text, and what it selects
\* are characters that are shown.
LEMMA RangeTyped ==
    ASSUME dom \in Page, NEW start \in Places, NEW end \in Places, Before(start, end)
    PROVE  /\ SelectionRange(start, end) = [from |-> SelectionRange(start, end).from,
                                            to |-> SelectionRange(start, end).to]
           /\ SelectionRange(start, end).from \in Nat /\ SelectionRange(start, end).to \in Nat
           /\ end[1] = 0 => ~ (SelectionRange(start, end).from < SelectionRange(start, end).to)
  <1> DEFINE a == start[1]
             k == start[3]
             b == end[1]
             l == end[3]
             first == Bigger(1, a)
             off == IF first = a /\ Plain(first) THEN k ELSE 0
             range == SelectionRange(start, end)
  <1>1. /\ a \in Nat /\ k \in Nat /\ b \in Nat /\ l \in Nat
        /\ a \in 0 .. Len(Tokens) /\ b \in 0 .. Len(Tokens)
    BY PlaceFacts
  <1>2. CASE b = 0
    <2>1. range = [from |-> 0, to |-> 0] BY <1>2 DEF SelectionRange
    <2> HIDE DEF range
    <2>2. range.from = 0 /\ range.to = 0 BY <2>1
    <2> QED BY <2>1, <2>2 DEF range
  <1>3. CASE b # 0
    <2>1. range = [from |-> SourceStart(first) + off,
                   to   |-> IF Plain(b) THEN SourceStart(b) + l ELSE SourceEnd(b)]
      BY <1>3 DEF SelectionRange
    <2>2. first \in 1 .. Len(Tokens) /\ b \in 1 .. Len(Tokens) BY <1>1, <1>3, TokenFacts DEF Bigger
    <2>3. off \in Nat BY <1>1
    <2>4. SourceStart(first) \in Nat /\ SourceStart(b) \in Nat /\ SourceEnd(b) \in Nat
      BY <2>2, StartFacts, TokenFacts DEF SourceEnd
    <2> HIDE DEF range, first, off
    <2>5. range.from = SourceStart(first) + off
          /\ range.to = IF Plain(b) THEN SourceStart(b) + l ELSE SourceEnd(b)
      BY <2>1
    <2>6. range.from \in Nat BY <2>3, <2>4, <2>5
    <2>7. range.to \in Nat
      <3>1. CASE Plain(b)
        <4>1. range.to = SourceStart(b) + l BY <2>5, <3>1
        <4> QED BY <1>1, <2>4, <4>1
      <3>2. CASE ~Plain(b)
        <4>1. range.to = SourceEnd(b) BY <2>5, <3>2
        <4> QED BY <2>4, <4>1
      <3> QED BY <3>1, <3>2
    <2>8. range = [from |-> range.from, to |-> range.to] BY <2>1, <2>5
    <2> QED BY <1>3, <2>6, <2>7, <2>8 DEF range
  <1> QED BY <1>2, <1>3

\* What is selected are characters, on a torn page too.
LEMMA SelectedTyped ==
    ASSUME dom \in Page, NEW start \in Places, NEW end \in Places
    PROVE  Selected(start, end) \subseteq Chars
  <1> DEFINE between == {q \in Places : q[1] # 0 /\ Before(start, q) /\ ~Before(end, q) /\ q[3] # 0}
             touched == {t \in DOMAIN Tokens : start[1] <= t /\ t <= end[1] /\ ~Plain(t)}
             read == {dom[q[1]][q[2]].text[q[3]] : q \in between}
             whole == UNION {ToSet(CharsOf(t)) : t \in touched}
  <1>1. Selected(start, end) = read \cup whole BY DEF Selected
  <1>2. ASSUME NEW c \in read PROVE c \in Chars
    <2>1. PICK q \in Places : q[3] # 0 /\ c = dom[q[1]][q[2]].text[q[3]] BY <1>2, Zenon
    <2>2. /\ q[1] \in 0 .. Len(Tokens) /\ q[2] \in 1 .. Len(dom[q[1]])
          /\ q[3] \in 0 .. Len(dom[q[1]][q[2]].text) /\ q[3] \in Nat
      BY <2>1, PlaceFacts
    <2> DEFINE s == dom[q[1]][q[2]].text
               k == q[3]
    <2>3. s \in Seq(Chars) /\ Len(s) \in Nat BY <2>2, NodePlaces
    <2>4. k \in 0 .. Len(s) /\ k # 0 /\ c = s[k] BY <2>1, <2>2
    <2> HIDE DEF s, k, Chars
    <2>5. k \in 1 .. Len(s) BY <2>3, <2>4
    <2>6. s[k] \in Chars BY <2>3, <2>5
    <2> QED BY <2>4, <2>6
  <1>3. ASSUME NEW c \in whole PROVE c \in Chars
    <2>1. PICK t \in touched : c \in ToSet(CharsOf(t)) BY <1>3
    <2>2. t \in 1 .. Len(Tokens) BY <2>1, TokenFacts
    <2> DEFINE s == CharsOf(t)
    <2>3. s \in Seq(Chars) BY <2>2, CharFacts
    <2> HIDE DEF s, Chars
    <2>4. ToSet(s) \subseteq Chars BY <2>3 DEF ToSet
    <2> QED BY <2>1, <2>4 DEF s
  <1> HIDE DEF read, whole
  <1> QED BY <1>1, <1>2, <1>3

\* What is left of a list without a highlight was in it.
LEMMA WithoutFacts ==
    ASSUME NEW list \in Seq(Mark), NEW id
    PROVE  Without(list, id) \in Seq(Mark) /\ ToSet(Without(list, id)) \subseteq ToSet(list)
  <1> DEFINE n == Len(list)
             M == ToSet(list)
             step == [r \in (1 .. n) \X Seq(M) |->
                          IF list[r[1]].id = id THEN r[2] ELSE Append(r[2], list[r[1]])]
             Kept(f) == f = [i \in 0 .. n |->
                 IF i = 0 THEN <<>>
                 ELSE IF list[i].id = id THEN f[i - 1] ELSE Append(f[i - 1], list[i])]
             kept == CHOOSE f : Kept(f)
  <1>1. n \in Nat BY DEF n
  <1>2. \A i \in 1 .. n : list[i] \in M /\ list[i] \in Mark BY MarkPlaces
  <1>3. M \subseteq Mark BY MarkPlaces
  <1>4. Without(list, id) = kept[n] BY DEF Without
  <1> HIDE DEF n, M, Mark
  <1>5. ASSUME NEW i \in 1 .. n, NEW x \in Seq(M)
        PROVE  /\ step[<<i, x>>] = IF list[i].id = id THEN x ELSE Append(x, list[i])
               /\ step[<<i, x>>] \in Seq(M)
    <2>1. <<i, x>> \in (1 .. n) \X Seq(M) OBVIOUS
    <2>2. step[<<i, x>>] = IF list[i].id = id THEN x ELSE Append(x, list[i]) BY <2>1
    <2>3. Append(x, list[i]) \in Seq(M) BY <1>2
    <2> HIDE DEF step
    <2> QED BY <2>2, <2>3
  <1>6. <<>> \in Seq(M) OBVIOUS
  <1> HIDE DEF step
  <1>7. StaysIn(step, n, Seq(M)) BY <1>5 DEF StaysIn
  <1>8. PICK f \in [0 .. n -> Seq(M)] : Follows(f, step, <<>>, n)
    <2> DEFINE A == Seq(M)
    <2>1. <<>> \in A /\ StaysIn(step, n, A) BY <1>6, <1>7
    <2> HIDE DEF A
    <2>2. \E f \in [0 .. n -> A] : Follows(f, step, <<>>, n) BY <1>1, <2>1, StepsAreTaken
    <2> QED BY <2>2 DEF A
  <1>9. Kept(f)
    <2> DEFINE g == [i \in 0 .. n |->
                 IF i = 0 THEN <<>>
                 ELSE IF list[i].id = id THEN f[i - 1] ELSE Append(f[i - 1], list[i])]
    <2>1. ASSUME NEW i \in 0 .. n PROVE f[i] = g[i]
      <3>1. CASE i = 0 BY <1>8, <3>1 DEF Follows
      <3>2. CASE i # 0
        <4>1. i \in 1 .. n /\ i - 1 \in 0 .. n BY <1>1, <3>2
        <4>2. f[i - 1] \in Seq(M) BY <1>8, <4>1
        <4>3. f[i] = step[<<i, f[i - 1]>>] BY <1>8, <4>1 DEF Follows
        <4>4. step[<<i, f[i - 1]>>]
                  = IF list[i].id = id THEN f[i - 1] ELSE Append(f[i - 1], list[i])
          BY <1>5, <4>1, <4>2
        <4>5. g[i] = IF list[i].id = id THEN f[i - 1] ELSE Append(f[i - 1], list[i]) BY <3>2
        <4> QED BY <4>3, <4>4, <4>5
      <3> QED BY <3>1, <3>2
    <2>2. g = [i \in 0 .. n |-> g[i]] OBVIOUS
    <2> HIDE DEF g
    <2>3. f = g BY <1>8, <2>1, <2>2
    <2> QED BY <2>3 DEF g
  <1>10. Kept(kept)
    <2> HIDE DEF Kept
    <2> QED BY <1>9
  <1> HIDE DEF kept
  <1>11. DOMAIN kept = 0 .. n BY <1>10
  <1>12. \A i \in 0 .. n : kept[i] \in Seq(M)
    <2> DEFINE Good == {i \in 0 .. n : kept[i] \in Seq(M)}
    <2>1. 0 \in Good
      <3>1. 0 \in 0 .. n BY <1>1
      <3>2. kept[0] = <<>> BY <1>10, <3>1
      <3> QED BY <1>6, <3>1, <3>2
    <2>2. ASSUME NEW i \in 1 .. n, i - 1 \in Good PROVE i \in Good
      <3>1. i \in 0 .. n /\ i # 0 /\ i - 1 \in 0 .. n BY <1>1
      <3>2. kept[i] = IF list[i].id = id THEN kept[i - 1] ELSE Append(kept[i - 1], list[i])
        BY <1>10, <3>1
      <3>3. kept[i - 1] \in Seq(M) BY <2>2
      <3>4. Append(kept[i - 1], list[i]) \in Seq(M) BY <1>2, <3>3
      <3>5. kept[i] \in Seq(M) BY <3>2, <3>3, <3>4
      <3> QED BY <3>1, <3>5
    <2> HIDE DEF Good
    <2>3. \A i \in 0 .. n : i \in Good BY <1>1, <2>1, <2>2, UpToIsIn
    <2> QED BY <2>3 DEF Good
  <1>13. kept[n] \in Seq(M)
    <2>1. n \in 0 .. n BY <1>1
    <2> QED BY <1>12, <2>1
  <1>14. kept[n] \in Seq(Mark) BY <1>3, <1>13
  <1>15. ToSet(kept[n]) \subseteq M BY <1>13 DEF ToSet
  <1> QED BY <1>4, <1>14, <1>15 DEF M

\* Fewer highlights are as right as all of them.
LEMMA KnownShrinks ==
    ASSUME NEW known, NEW wanted, NEW vague, KnownOK(known, wanted, vague),
           NEW k, k \subseteq known
    PROVE  KnownOK(k, wanted, vague)
BY DEF KnownOK

\* Whatever list is rendered, the page is the article under its marks, or torn.
LEMMA RenderKeeps ==
    ASSUME MarksInv, NEW list \in Seq(Mark), Render(list)
    PROVE  dom' \in Page /\ shownMarks' = list /\ PageIsMarked'
  <1>1. dom \in Page /\ shownMarks \in Seq(Mark) BY DEF MarksInv, MarksTyped
  <1>2. /\ shownMarks' = list
        /\ dom' = Marked(Unmarked(dom), list)
        /\ torn' = (torn \/ Overlap(list))
    BY DEF Render
  <1>3. dom' \in Page BY <1>1, <1>2, RenderTyped
  <1>4. ASSUME ~torn' PROVE ~Overlap(list) /\ dom' = Marked(Original, list)
    <2>1. ~torn /\ ~Overlap(list) BY <1>2, <1>4
    <2>2. ~Overlap(shownMarks) /\ dom = Marked(Original, shownMarks)
      BY <2>1 DEF MarksInv, PageIsMarked
    <2>3. Unmarked(dom) = Original BY <1>1, <2>2, MarksGo
    <2> QED BY <1>2, <2>1, <2>3
  <1> QED BY <1>2, <1>3, <1>4 DEF PageIsMarked

\* A new highlight has what was selected, unless it is blurred.
LEMMA HighlightFits ==
    ASSUME MarksInv, ~torn, NEW start \in Places, NEW end \in Places, Before(start, end),
           FirstOfSpan(start), FirstOfSpan(end),
           NEW h, h.from = SelectionRange(start, end).from, h.to = SelectionRange(start, end).to,
           h.from < h.to
    PROVE  Aligned(h) /\ Covered(h) = Selected(start, end)
  <1> DEFINE range == SelectionRange(start, end)
  <1>1. dom \in Page BY DEF MarksInv, MarksTyped
  <1>2. end[1] # 0
    <2>1. end[1] = 0 => ~ (range.from < range.to) BY <1>1, RangeTyped
    <2> QED BY <2>1
  <1>3. ASSUME NEW q \in Places, FirstOfSpan(q), q[1] # 0, Plain(q[1])
        PROVE  q[3] <= Tokens[q[1]].length
    <2> DEFINE t == q[1]
               k == q[3]
               room == Len(dom[t][1].text)
               length == Tokens[t].length
    <2>1. q[1] \in 0 .. Len(Tokens) /\ q[3] \in 0 .. Len(dom[q[1]][q[2]].text) /\ q[3] \in Nat
      BY <1>1, PlaceFacts
    <2>2. t \in 1 .. Len(Tokens) BY <1>3, <2>1, TokenFacts
    <2>3. q[2] = 1 BY <1>3 DEF FirstOfSpan
    <2>4. k \in 0 .. room BY <2>1, <2>3
    <2>5. room \in 0 .. length BY <1>3, <2>2, FirstNodeFacts
    <2>6. length \in Nat BY <2>2, TokenFacts
    <2> HIDE DEF k, room, length
    <2>7. k <= length BY <2>4, <2>5, <2>6
    <2> QED BY <2>7 DEF k, length
  <1>4. start[1] # 0 /\ Plain(start[1]) => start[3] <= Tokens[start[1]].length BY <1>3
  <1>5. Plain(end[1]) => end[3] <= Tokens[end[1]].length BY <1>2, <1>3
  <1>6. /\ \A t \in 1 .. Len(Tokens) : \A p \in 1 .. Tokens[t].shown :
               Chosen(start, end, t, p) <=> Shades(range, t, p)
        /\ Aligned(range)
    BY <1>2, <1>4, <1>5, RangeIsChosen
  <1>7. h.from = range.from /\ h.to = range.to OBVIOUS
  <1> HIDE DEF range
  <1>8. Aligned(h) BY <1>6, <1>7 DEF Aligned, Reaches
  <1>9. \A t, p : Shades(h, t, p) <=> Shades(range, t, p) BY <1>7 DEF Shades, Reaches
  <1>10. Selected(start, end) =
             {c \in Chars : /\ c[1] \in 1 .. Len(Tokens) /\ c[2] \in 1 .. Tokens[c[1]].shown
                            /\ Chosen(start, end, c[1], c[2])}
    BY SelectedAre
  <1>11. \A c \in Chars : c[1] \in 1 .. Len(Tokens) /\ c[2] \in 1 .. Tokens[c[1]].shown =>
             (Chosen(start, end, c[1], c[2]) <=> Shades(h, c[1], c[2]))
    BY <1>6, <1>9
  <1>12. Covered(h) = Selected(start, end) BY <1>10, <1>11 DEF Covered
  <1> QED BY <1>8, <1>12

\* A highlight is made: a new id, and a range that has what was selected.
LEMMA HighlightKeeps ==
    ASSUME MarksInv, NEW start \in Places, NEW end \in Places, Highlight(start, end)
    PROVE  MarksInv'
  <1> DEFINE range == SelectionRange(start, end)
             id == Len(meant) + 1
             from == range.from
             to == range.to
             new == [id |-> id, from |-> from, to |-> to]
             m == [id |-> id, from |-> from, to |-> to, stored |-> FALSE]
             sel == Selected(start, end)
  <1>1. MarksTyped /\ KnownOK(Known, meant, blurred) /\ PageIsMarked BY DEF MarksInv
  <1>2. /\ Before(start, end) /\ from < to
        /\ meant' = Append(meant, sel)
        /\ blurred' = IF ~torn /\ FirstOfSpan(start) /\ FirstOfSpan(end) THEN blurred
                      ELSE blurred \cup {id}
        /\ making' = making \cup {m}
        /\ UNCHANGED <<dom, shownMarks, rows, loading, torn>>
    BY DEF Highlight
  <1>3. dom \in Page BY <1>1 DEF MarksTyped
  <1>4. from \in Nat /\ to \in Nat BY <1>2, <1>3, RangeTyped
  <1>5. sel \in SUBSET Chars BY <1>3, SelectedTyped
  <1>6. meant \in Seq(SUBSET Chars) /\ Len(meant) \in Nat BY <1>1 DEF MarksTyped
  <1>7. /\ meant' \in Seq(SUBSET Chars) /\ Len(meant') = id /\ meant'[id] = sel
        /\ \A i \in 1 .. Len(meant) : meant'[i] = meant[i]
    <2> DEFINE A == SUBSET Chars
    <2>1. meant \in Seq(A) /\ sel \in A BY <1>5, <1>6
    <2> HIDE DEF A, sel
    <2>2. /\ Append(meant, sel) \in Seq(A) /\ Len(Append(meant, sel)) = id
          /\ Append(meant, sel)[id] = sel
          /\ \A i \in 1 .. Len(meant) : Append(meant, sel)[i] = meant[i]
      BY <2>1
    <2> QED BY <1>2, <2>2 DEF A
  <1>8. \A h \in Known : h.id \in 1 .. Len(meant) BY <1>1 DEF KnownOK
  <1>9. new.id = id /\ new.from = from /\ new.to = to OBVIOUS
  <1>10. new \in Mark
    <2> HIDE DEF from, to
    <2> QED BY <1>2, <1>4, <1>6 DEF Mark
  <1>11. m \in Making
    <2> HIDE DEF from, to
    <2> QED BY <1>4, <1>6 DEF Making
  <1>12. Ranged(m) = new BY DEF Ranged
  <1>13. Known' = Known \cup {new}
    <2>1. rows' = rows /\ shownMarks' = shownMarks /\ loading' = loading BY <1>2
    <2> HIDE DEF new, m
    <2> QED BY <1>2, <1>12, <2>1 DEF Known
  <1>14. new.id \notin blurred' => Aligned(new) /\ Covered(new) = sel
    <2>1. SUFFICES ASSUME id \notin blurred' PROVE Aligned(new) /\ Covered(new) = sel BY <1>9
    <2>2. ~torn /\ FirstOfSpan(start) /\ FirstOfSpan(end) BY <1>2, <2>1
    <2> HIDE DEF new, range, sel
    <2>3. new.from = SelectionRange(start, end).from /\ new.to = SelectionRange(start, end).to
          /\ new.from < new.to
      BY <1>2, <1>9 DEF range
    <2>4. Aligned(new) /\ Covered(new) = Selected(start, end)
      BY <1>2, <2>2, <2>3, HighlightFits
    <2> QED BY <2>4 DEF sel
  <1>15. blurred \subseteq blurred' BY <1>2
  <1> HIDE DEF new, m, range, from, to, sel
  <1>16. id \notin 1 .. Len(meant) /\ id \in 1 .. id /\ \A i \in 1 .. Len(meant) : i \in 1 .. id
    BY <1>6
  <1> HIDE DEF id
  <1>17. KnownOK(Known', meant', blurred')
    <2>1. \A h \in Known' : h \in Known \/ h = new BY <1>13
    <2>2. \A h \in Known' : h \in Mark /\ h.id \in 1 .. Len(meant')
      BY <1>1, <1>7, <1>8, <1>9, <1>10, <1>16, <2>1 DEF KnownOK
    <2>3. \A g, h \in Known' : g.id = h.id => g = h
      BY <1>1, <1>8, <1>9, <1>16, <2>1 DEF KnownOK
    <2>4. ASSUME NEW h \in Known', h.id \notin blurred'
          PROVE  Aligned(h) /\ Covered(h) = meant'[h.id]
      <3>1. CASE h = new BY <1>7, <1>9, <1>14, <2>4, <3>1
      <3>2. CASE h \in Known
        <4>1. h.id \notin blurred BY <1>15, <2>4
        <4>2. Aligned(h) /\ Covered(h) = meant[h.id] BY <1>1, <3>2, <4>1 DEF KnownOK
        <4>3. meant'[h.id] = meant[h.id] BY <1>7, <1>8, <3>2
        <4> QED BY <4>2, <4>3
      <3> QED BY <2>1, <2>4, <3>1, <3>2
    <2> QED BY <2>2, <2>3, <2>4 DEF KnownOK
  <1>18. MarksTyped'
    <2>1. making' \subseteq Making BY <1>1, <1>2, <1>11 DEF MarksTyped
    <2> QED BY <1>1, <1>2, <1>7, <2>1 DEF MarksTyped
  <1>19. PageIsMarked' BY <1>1, <1>2 DEF PageIsMarked
  <1> QED BY <1>17, <1>18, <1>19 DEF MarksInv

\* What the other steps know is no more than what was known, on a page as it was or
\* rendered again.
LEMMA NothingNewKnown ==
    ASSUME MarksInv, Known' \subseteq Known, meant' = meant, blurred' = blurred,
           MarksTyped', PageIsMarked'
    PROVE  MarksInv'
  <1>1. KnownOK(Known', meant, blurred) BY KnownShrinks DEF MarksInv
  <1>2. KnownOK(Known', meant', blurred') BY <1>1
  <1> QED BY <1>2 DEF MarksInv

\* Where the known highlights are.
LEMMA KnownFacts ==
    ASSUME MarksInv
    PROVE  /\ Known \subseteq Mark /\ rows \subseteq Known /\ IsFiniteSet(rows)
           /\ \A h \in making : Ranged(h) \in Known
           /\ ToSet(shownMarks) \subseteq Known /\ ToSet(loading.list) \subseteq Known
           /\ shownMarks \in Seq(Mark) /\ loading.list \in Seq(Mark)
BY DEF MarksInv, MarksTyped, KnownOK, Known

\* A creation is stored, or fails.
LEMMA RequestsKeep ==
    ASSUME MarksInv, NEW h \in making, Store(h) \/ CreationFails(h)
    PROVE  MarksInv'
  <1> DEFINE stored == [h EXCEPT !.stored = TRUE]
  <1>1. MarksTyped /\ PageIsMarked BY DEF MarksInv
  <1>2. UNCHANGED <<dom, shownMarks, loading, meant, blurred, torn>> BY DEF Store, CreationFails
  <1>3. h \in Making BY <1>1 DEF MarksTyped
  <1>4. stored \in Making /\ Ranged(stored) = Ranged(h) BY <1>3 DEF Making, Ranged
  <1> HIDE DEF stored
  <1>5. Ranged(h) \in Known BY KnownFacts
  <1>6. /\ rows' = rows \/ rows' = rows \cup {Ranged(h)}
        /\ making' \subseteq making \cup {stored}
    BY DEF Store, CreationFails, stored
  <1>7. Known' \subseteq Known
    <2>1. shownMarks' = shownMarks /\ loading' = loading BY <1>2
    <2>2. rows' \subseteq Known BY <1>5, <1>6 DEF Known
    <2>3. \A g \in making' : Ranged(g) \in Known BY <1>4, <1>5, <1>6 DEF Known
    <2> QED BY <2>1, <2>2, <2>3 DEF Known
  <1>8. IsFiniteSet(rows') BY SMTT(30), <1>1, <1>6, FS_AddElement DEF MarksTyped
  <1>9. MarksTyped' BY <1>1, <1>2, <1>4, <1>6, <1>8 DEF MarksTyped
  <1>10. PageIsMarked' BY <1>1, <1>2 DEF PageIsMarked
  <1> QED BY <1>2, <1>7, <1>9, <1>10, NothingNewKnown

\* The answer of a creation comes, and the page shows the new highlight.
LEMMA CreatedKeeps ==
    ASSUME MarksInv, NEW h \in making, Created(h)
    PROVE  MarksInv'
  <1> DEFINE new == Ranged(h)
             list == Append(shownMarks, new)
  <1>1. MarksTyped BY DEF MarksInv
  <1>2. Render(list) /\ making' = making \ {h} /\ UNCHANGED <<rows, loading, meant, blurred>>
    BY DEF Created
  <1>3. new \in Known /\ new \in Mark /\ shownMarks \in Seq(Mark) BY KnownFacts
  <1>4. list \in Seq(Mark) /\ ToSet(list) \subseteq ToSet(shownMarks) \cup {new}
    <2> HIDE DEF new, Mark
    <2> QED BY <1>3 DEF ToSet
  <1> HIDE DEF new, list
  <1>5. dom' \in Page /\ shownMarks' = list /\ PageIsMarked' BY <1>2, <1>4, RenderKeeps
  <1>6. Known' \subseteq Known
    <2>1. rows' = rows /\ loading' = loading BY <1>2
    <2>2. ToSet(shownMarks') \subseteq Known BY <1>3, <1>4, <1>5, KnownFacts
    <2>3. \A g \in making' : Ranged(g) \in Known BY <1>2, KnownFacts
    <2> QED BY <2>1, <2>2, <2>3 DEF Known
  <1>7. MarksTyped' BY <1>1, <1>2, <1>4, <1>5 DEF MarksTyped
  <1> QED BY <1>2, <1>5, <1>6, <1>7, NothingNewKnown

\* A highlight is deleted.
LEMMA DeleteKeeps ==
    ASSUME MarksInv, NEW h \in ToSet(shownMarks), Delete(h)
    PROVE  MarksInv'
  <1> DEFINE list == Without(shownMarks, h.id)
  <1>1. MarksTyped BY DEF MarksInv
  <1>2. /\ Render(list) /\ rows' \subseteq rows
        /\ UNCHANGED <<making, loading, meant, blurred>>
    BY DEF Delete
  <1>3. list \in Seq(Mark) /\ ToSet(list) \subseteq ToSet(shownMarks)
    BY WithoutFacts, KnownFacts
  <1> HIDE DEF list
  <1>4. dom' \in Page /\ shownMarks' = list /\ PageIsMarked' BY <1>2, <1>3, RenderKeeps
  <1>5. Known' \subseteq Known
    <2>1. making' = making /\ loading' = loading BY <1>2
    <2>2. ToSet(shownMarks') \subseteq Known BY <1>3, <1>4, KnownFacts
    <2>3. rows' \subseteq Known BY <1>2, KnownFacts
    <2> QED BY <2>1, <2>2, <2>3 DEF Known
  <1>6. IsFiniteSet(rows') BY <1>1, <1>2, FS_Subset DEF MarksTyped
  <1>7. MarksTyped' BY <1>1, <1>2, <1>3, <1>4, <1>6 DEF MarksTyped
  <1> QED BY <1>2, <1>4, <1>5, <1>7, NothingNewKnown

\* The rows are read for the page.
LEMMA ReadRowsKeeps ==
    ASSUME MarksInv, ReadRows
    PROVE  MarksInv'
  <1>1. MarksTyped /\ PageIsMarked BY DEF MarksInv
  <1>2. UNCHANGED <<dom, shownMarks, rows, making, meant, blurred, torn>> BY DEF ReadRows
  <1>3. PICK list \in [1 .. Cardinality(rows) -> rows] : loading' = [at |-> "read", list |-> list]
    BY DEF ReadRows
  <1>4. loading'.list = list BY <1>3
  <1>5. Cardinality(rows) \in Nat BY KnownFacts, FS_CardinalityType
  <1>6. list \in Seq(Mark) /\ ToSet(list) \subseteq rows
    <2>1. rows \subseteq Mark BY KnownFacts
    <2> HIDE DEF Mark
    <2>2. list \in [1 .. Cardinality(rows) -> Mark] BY <1>3, <2>1
    <2>3. list \in Seq(Mark) BY <1>5, <2>2
    <2>4. DOMAIN list = 1 .. Cardinality(rows) BY <1>3
    <2> QED BY <1>3, <2>3, <2>4 DEF ToSet
  <1>7. Known' \subseteq Known
    <2>1. rows' = rows /\ making' = making /\ shownMarks' = shownMarks BY <1>2
    <2>2. ToSet(loading'.list) \subseteq Known BY <1>4, <1>6, KnownFacts
    <2> QED BY <2>1, <2>2 DEF Known
  <1>8. MarksTyped' BY <1>1, <1>2, <1>4, <1>6 DEF MarksTyped
  <1>9. PageIsMarked' BY <1>1, <1>2 DEF PageIsMarked
  <1> QED BY <1>2, <1>7, <1>8, <1>9, NothingNewKnown

\* A list without highlights.
LEMMA EmptyList == <<>> \in Seq(Mark) /\ ToSet(<<>>) = {} BY DEF ToSet

\* The rows that were read replace the list of the page, if there are any.
LEMMA LoadedKeeps ==
    ASSUME MarksInv, Loaded
    PROVE  MarksInv'
  <1> DEFINE list == IF loading.list = <<>> THEN shownMarks ELSE loading.list
  <1>1. MarksTyped BY DEF MarksInv
  <1>2. /\ Render(list) /\ loading' = [at |-> "none", list |-> <<>>]
        /\ UNCHANGED <<rows, making, meant, blurred>>
    BY DEF Loaded
  <1>3. list \in Seq(Mark) /\ ToSet(list) \subseteq Known BY KnownFacts
  <1> HIDE DEF list
  <1>4. dom' \in Page /\ shownMarks' = list /\ PageIsMarked' BY <1>2, <1>3, RenderKeeps
  <1>5. loading'.list = <<>> BY <1>2
  <1>6. Known' \subseteq Known
    <2>1. rows' = rows /\ making' = making BY <1>2
    <2>2. ToSet(shownMarks') \subseteq Known BY <1>3, <1>4
    <2>3. ToSet(loading'.list) \subseteq Known BY <1>5, EmptyList
    <2> QED BY <2>1, <2>2, <2>3 DEF Known
  <1>7. MarksTyped' BY <1>1, <1>2, <1>3, <1>4, <1>5, EmptyList DEF MarksTyped
  <1> QED BY <1>2, <1>4, <1>6, <1>7, NothingNewKnown

\* Without marks the page is the article.
LEMMA NothingMarked == Marked(Original, <<>>) = Original /\ ~Overlap(<<>>)
  <1> DEFINE list == <<>>
             d == Marked(Original, list)
  <1>1. list \in Seq(Mark) /\ Len(list) = 0 BY EmptyList
  <1>2. DOMAIN list = {} OBVIOUS
  <1>3. ~Overlap(list) BY <1>2 DEF Overlap
  <1> HIDE DEF list
  <1>4. \A t : Over(t, list) = {} BY <1>2 DEF Over
  <1>5. d = [t \in DOMAIN Original |-> Original[t]] BY <1>4 DEF Marked
  <1>6. Original = [t \in DOMAIN Original |-> Original[t]] BY DEF Original
  <1>7. d = Original BY <1>5, <1>6
  <1> QED BY <1>3, <1>7 DEF list

\* Loading fails, or the page is left and opened again.
LEMMA LeavingKeeps ==
    ASSUME MarksInv, LoadFails \/ Reopen
    PROVE  MarksInv'
  <1>1. MarksTyped /\ PageIsMarked BY DEF MarksInv
  <1>2. UNCHANGED <<rows, making, meant, blurred>> /\ loading'.list = <<>>
    BY DEF LoadFails, Reopen
  <1>3. \/ UNCHANGED <<dom, shownMarks, torn>>
        \/ dom' = Original /\ shownMarks' = <<>> /\ torn' = FALSE
    BY DEF LoadFails, Reopen
  <1>4. dom' \in Page /\ shownMarks' \in Seq(Mark) /\ PageIsMarked'
    <2>1. CASE UNCHANGED <<dom, shownMarks, torn>>
      BY <1>1, <2>1 DEF MarksTyped, PageIsMarked
    <2>2. CASE dom' = Original /\ shownMarks' = <<>> /\ torn' = FALSE
      BY <2>2, OriginalPage, NothingMarked, EmptyList DEF PageIsMarked
    <2> QED BY <1>3, <2>1, <2>2
  <1>5. Known' \subseteq Known
    <2>1. rows' = rows /\ making' = making BY <1>2
    <2>2. ToSet(shownMarks') \subseteq Known BY <1>3, EmptyList, KnownFacts
    <2>3. ToSet(loading'.list) \subseteq Known BY <1>2, EmptyList
    <2> QED BY <2>1, <2>2, <2>3 DEF Known
  <1>6. MarksTyped' BY <1>1, <1>2, <1>4, EmptyList DEF MarksTyped
  <1> QED BY <1>2, <1>4, <1>5, <1>6, NothingNewKnown

\* It holds on the first page, and every step keeps it.
LEMMA MarksInvInit == MarksInit => MarksInv
  <1> SUFFICES ASSUME MarksInit PROVE MarksInv OBVIOUS
  <1>1. /\ dom = Original /\ shownMarks = <<>> /\ rows = {} /\ making = {}
        /\ loading.list = <<>> /\ meant = <<>> /\ blurred = {} /\ torn = FALSE
    BY DEF MarksInit
  <1>2. MarksTyped
    BY <1>1, OriginalPage, EmptyList, FS_EmptySet DEF MarksTyped
  <1>3. Known = {} BY <1>1, EmptyList DEF Known
  <1>4. KnownOK(Known, meant, blurred) BY <1>3 DEF KnownOK
  <1>5. PageIsMarked BY <1>1, NothingMarked DEF PageIsMarked
  <1> QED BY <1>2, <1>4, <1>5 DEF MarksInv

LEMMA MarksInvNext == MarksInv /\ [MarksNext]_marksVars => MarksInv'
  <1> SUFFICES ASSUME MarksInv, [MarksNext]_marksVars PROVE MarksInv' OBVIOUS
  <1>1. ASSUME NEW start \in Places, NEW end \in Places, Highlight(start, end) PROVE MarksInv'
    BY <1>1, HighlightKeeps
  <1>2. ASSUME NEW h \in making, Store(h) \/ Created(h) \/ CreationFails(h) PROVE MarksInv'
    BY <1>2, RequestsKeep, CreatedKeeps
  <1>3. ASSUME NEW h \in ToSet(shownMarks), Delete(h) PROVE MarksInv'
    BY <1>3, DeleteKeeps
  <1>4. CASE ReadRows BY <1>4, ReadRowsKeeps
  <1>5. CASE Loaded BY <1>5, LoadedKeeps
  <1>6. CASE LoadFails \/ Reopen BY <1>6, LeavingKeeps
  <1>7. CASE UNCHANGED marksVars
    BY <1>7 DEF marksVars, MarksInv, MarksTyped, PageIsMarked, Known
  <1> QED BY <1>1, <1>2, <1>3, <1>4, <1>5, <1>6, <1>7 DEF MarksNext

\* The text of a page with the reader's highlights stays the article's text, and a
\* highlight colours what its reader had selected, for an article of any tokens and any
\* number of highlights (text-selection.ts:111-172, user-highlight-renderer.ts:15-214).
THEOREM MarksStayAsSelected == MarksSpec => []MarksAreWhatWasSelected
  <1>1. MarksInit => MarksInv BY MarksInvInit
  <1>2. MarksInv /\ [MarksNext]_marksVars => MarksInv' BY MarksInvNext
  <1>3. MarksInv => MarksAreWhatWasSelected BY MarksSay
  <1> QED BY <1>1, <1>2, <1>3, PTL DEF MarksSpec
=============================================================================
