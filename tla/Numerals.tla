------------------------------- MODULE Numerals -------------------------------
(***************************************************************************)
(* The kanji numerals of a statute: how the corpus server writes the       *)
(* number of an article (segment.ts) and reads the number of an appendix,  *)
(* and how the web reader reads and shows numbers (normalize-article.ts,   *)
(* legal-number-format.ts).  Three readings of one notation, kept apart in *)
(* the code.  A numeral is a sequence of symbols; a digit stands for       *)
(* itself, a unit (ten and above) for its worth.                           *)
(***************************************************************************)
EXTENDS Integers, Sequences, SequencesExt, FiniteSets

CONSTANT MaxNumber    \* a bound on the numbers written

VARIABLE number       \* the number at hand: written digit by digit

Ten == 10
Hundred == 100
Thousand == 1000
Myriad == 10000
HundredMillion == 100000000

Scales == {Myriad, HundredMillion}

\* The numbers that a law writes with at most one scale, the myriad.
ASSUME NumeralsAssumption == MaxNumber \in 0 .. HundredMillion - 1

NoNumber == -1        \* what is read from no numeral at all

NumeralsInit == number = 0

NumeralsNext ==
    \E d \in 0 .. 9 :
        /\ number * 10 + d \in 1 .. MaxNumber
        /\ number' = number * 10 + d

NumeralsSpec == NumeralsInit /\ [][NumeralsNext]_number

-----------------------------------------------------------------------------
\* toKanji: a coefficient of one is not written; zero is nothing.
ToKanji[n \in 0 .. Myriad - 1] ==
    IF n < Ten THEN IF n = 0 THEN <<>> ELSE <<n>>
    ELSE LET unit == IF n < Hundred THEN Ten ELSE IF n < Thousand THEN Hundred ELSE Thousand
         IN  (IF n \div unit > 1 THEN <<n \div unit>> ELSE <<>>) \o <<unit>> \o ToKanji[n % unit]

\* How the text of a law writes a number: the scale stands after its coefficient.
Written(n) ==
    IF n < Myriad THEN ToKanji[n]
    ELSE ToKanji[n \div Myriad] \o <<Myriad>> \o ToKanji[n % Myriad]

\* The other notation of the laws: digit by digit.
Digits[n \in Nat] == IF n < Ten THEN <<n>> ELSE Append(Digits[n \div Ten], n % Ten)

-----------------------------------------------------------------------------
\* What has been read when the symbols have been taken one after the other.
Read(step, start, numeral) ==
    LET after[i \in 0 .. Len(numeral)] ==
            IF i = 0 THEN start ELSE step[<<after[i - 1], numeral[i]>>]
    IN  after[Len(numeral)]

\* A total, and the digits that wait for their unit.
Reading == [total : Nat, current : Nat]
Nothing == [total |-> 0, current |-> 0]

WorthMutant(coefficient, unit) == coefficient * unit

\* A unit without a coefficient counts once.
Worth(coefficient, unit) == (IF coefficient = 0 THEN 1 ELSE coefficient) * unit

\* kanjiSegmentToNumber: a digit after a digit is the next place.
ServerStep(read, symbol) ==
    IF symbol < Ten THEN [read EXCEPT !.current = @ * Ten + symbol]
    ELSE [total |-> read.total + Worth(read.current, symbol), current |-> 0]

ServerReading(numeral) ==
    IF numeral = <<>> \/ \E i \in DOMAIN numeral : numeral[i] \in Scales THEN NoNumber
    ELSE LET read == Read([p \in Reading \X Nat |-> ServerStep(p[1], p[2])], Nothing, numeral)
         IN  read.total + read.current

\* parseKanjiNum: a digit after a digit replaces it, unless there are only digits;
\* a zero or a scale between units is passed over.
ReaderStep(read, symbol) ==
    IF symbol = 0 \/ symbol \in Scales THEN read
    ELSE IF symbol < Ten THEN [read EXCEPT !.current = symbol]
    ELSE [total |-> read.total + Worth(read.current, symbol), current |-> 0]

ParseKanjiNum(numeral) ==
    IF \A i \in DOMAIN numeral : numeral[i] < Ten
    THEN Read([p \in Nat \X Nat |-> p[1] * Ten + p[2]], 0, numeral)
    ELSE LET read == Read([p \in Reading \X Nat |-> ReaderStep(p[1], p[2])], Nothing, numeral)
         IN  read.total + read.current

\* kanjiToArabic: what stands before a single myriad counts ten thousandfold.
KanjiToArabic(numeral) ==
    LET myriads == {i \in DOMAIN numeral : numeral[i] = Myriad}
    IN  IF Cardinality(myriads) # 1 THEN ParseKanjiNum(numeral)
        ELSE LET at == CHOOSE i \in myriads : TRUE
             IN  Worth(ParseKanjiNum(SubSeq(numeral, 1, at - 1)), Myriad)
                 + ParseKanjiNum(SubSeq(numeral, at + 1, Len(numeral)))

\* normalizeArticleNumber, formatStructuredNumber: the parts of a branch number.
NormalizeArticleNumber(parts) == [i \in DOMAIN parts |-> KanjiToArabic(parts[i])]

\* convertScaledNumber: the scales stay words, each behind its own coefficient.
ScaleStep(done, symbol) ==
    IF symbol \notin Scales THEN [done EXCEPT !.buffer = Append(@, symbol)]
    ELSE [shown  |-> Append(done.shown,
                        <<IF done.buffer = <<>> THEN 1 ELSE KanjiToArabic(done.buffer), symbol>>),
          buffer |-> <<>>]

FormatKanjiQuantity(numeral) ==
    LET done == Read([p \in [shown : Seq(Nat \X Nat), buffer : Seq(Nat)] \X Nat |->
                         ScaleStep(p[1], p[2])], [shown |-> <<>>, buffer |-> <<>>], numeral)
    IN  IF done.buffer = <<>> THEN done.shown
        ELSE Append(done.shown, <<KanjiToArabic(done.buffer), 1>>)

\* formatFraction: "<denominator> bun no <numerator>".
FormatFraction(denominator, numerator) ==
    <<KanjiToArabic(numerator), KanjiToArabic(denominator)>>

-----------------------------------------------------------------------------
\* What the pieces of a shown quantity stand for.
Quantity(pieces) ==
    Read([p \in Nat \X (Nat \X Nat) |-> p[1] + p[2][1] * p[2][2]], 0, pieces)

\* Whoever reads a number that a law writes in either notation, or that the
\* server wrote into a label, reads that number: the appendix slug of the server,
\* the article number a link is resolved with, and the quantity and the fraction
\* shown in the text (segment.ts:71-102 and :232-257, normalize-article.ts:6-112,
\* legal-number-format.ts:46-160).
NumeralsReadBack ==
    number > 0 =>
        /\ number < Myriad => ServerReading(ToKanji[number]) = number
        /\ ServerReading(Digits[number]) = number
        /\ NormalizeArticleNumber(<<Written(number), Digits[number]>>) = <<number, number>>
        /\ Quantity(FormatKanjiQuantity(Written(number))) = number
        /\ FormatFraction(Written(number), Digits[number]) = <<number, number>>
=============================================================================
