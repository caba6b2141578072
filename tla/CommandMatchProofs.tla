-------------------------- MODULE CommandMatchProofs --------------------------
(***************************************************************************)
(* The tokenizers return the words of the text, and the matchers the       *)
(* answer by these words, for patterns and commands of any length.         *)
(***************************************************************************)
EXTENDS CommandWords, SequenceTheorems, FiniteSetTheorems, NaturalsInduction,
        WellFoundedInduction, TLAPS

\* The locals of a tokenizer.
ScanSet == [tokens: Seq(Token), current: Seq(Chars), inQuote: Quotes \cup {NoQuote}]

\* What flushing leaves in the list, and that flushing twice adds nothing.
LEMMA FlushTokens ==
    ASSUME NEW sc \in ScanSet
    PROVE  /\ Flush(sc) \in ScanSet
           /\ Flush(sc).current = <<>> /\ Flush(sc).inQuote = sc.inQuote
           /\ Flush(Flush(sc)).tokens = Flush(sc).tokens
           /\ sc.current = <<>> => Flush(sc).tokens = sc.tokens
           /\ sc.current # <<>> => Flush(sc).tokens = Append(sc.tokens, sc.current)
<1>1. CASE sc.current = <<>>
  BY <1>1 DEF Flush, ScanSet
<1>2. CASE sc.current # <<>>
  <2>1. sc.current \in Token
    BY <1>2 DEF ScanSet, Token
  <2>2. Append(sc.tokens, sc.current) \in Seq(Token)
    BY <2>1 DEF ScanSet
  <2>3. <<>> \in Seq(Chars)
    OBVIOUS
  <2> QED
    BY <1>2, <2>2, <2>3 DEF Flush, ScanSet
<1> QED
  BY <1>1, <1>2

\* The loop body of tokenizeCommand keeps the shape of its locals.
LEMMA ScanCharType ==
    ASSUME NEW s \in ScanSet, NEW ch \in Chars
    PROVE  ScanChar(s, ch) \in ScanSet
<1>1. Flush(s) \in ScanSet
  BY FlushTokens
<1>2. [s EXCEPT !.current = Append(@, ch)] \in ScanSet
  <2>1. Append(s.current, ch) \in Seq(Chars)
    BY DEF ScanSet
  <2> QED
    BY <2>1 DEF ScanSet
<1>3. [s EXCEPT !.inQuote = NoQuote] \in ScanSet
  BY DEF ScanSet
<1>4. ch \in Quotes => [s EXCEPT !.inQuote = ch] \in ScanSet
  BY DEF ScanSet
<1> DEFINE opens == matcher = "executor" /\ ch \in Quotes /\ s.inQuote = NoQuote
           closes == matcher = "executor" /\ ch = s.inQuote
           breaks == ch = "space" /\ s.inQuote = NoQuote
<1>0. ~(opens /\ closes) /\ ~(opens /\ breaks) /\ ~(closes /\ breaks)
  BY DEF Quotes, NoQuote
<1>5. CASE opens
  <2>1. ScanChar(s, ch) = [s EXCEPT !.inQuote = ch]
    BY <1>0, <1>5 DEF ScanChar
  <2> QED
    BY <1>4, <1>5, <2>1
<1>6. CASE closes
  <2>1. ScanChar(s, ch) = [s EXCEPT !.inQuote = NoQuote]
    BY <1>0, <1>6 DEF ScanChar
  <2> QED
    BY <1>3, <2>1
<1>7. CASE breaks
  BY <1>0, <1>1, <1>7 DEF ScanChar
<1>8. CASE ~opens /\ ~closes /\ ~breaks
  BY <1>2, <1>8 DEF ScanChar
<1> QED
  BY <1>5, <1>6, <1>7, <1>8

\* Trimming a pattern yields a pattern.
LEMMA TrimType ==
    ASSUME NEW s \in Seq(Chars)
    PROVE  TrimSpace(s) \in Seq(Chars)
<1> DEFINE leading == {i \in DOMAIN s : \A j \in 1 .. i : s[j] = "space"}
           trailing == {i \in DOMAIN s : \A j \in i .. Len(s) : s[j] = "space"}
<1>1. Len(s) \in Nat /\ DOMAIN s = 1 .. Len(s)
  OBVIOUS
<1>2. IsFiniteSet(DOMAIN s)
  BY <1>1, FS_Interval
<1>3. Cardinality(leading) \in Nat /\ Cardinality(trailing) \in Nat
  <2>1. IsFiniteSet(leading) /\ IsFiniteSet(trailing)
    BY <1>2, FS_Subset
  <2> QED
    BY <2>1, FS_CardinalityType
<1> HIDE DEF leading, trailing
<1>4. \A i \in Cardinality(leading) + 1 .. Len(s) - Cardinality(trailing) : s[i] \in Chars
  BY <1>1, <1>3
<1>5. SubSeq(s, Cardinality(leading) + 1, Len(s) - Cardinality(trailing)) \in Seq(Chars)
  BY <1>1, <1>3, <1>4, SubSeqProperties
<1> QED
  BY <1>5 DEF TrimSpace, leading, trailing

\* The call starts with both texts whole and nothing scanned.
LEMMA InitType == Init => TypeOK
<1> SUFFICES ASSUME Init PROVE TypeOK
  OBVIOUS
<1>1. PICK p \in Patterns, c \in Commands :
          text = [pattern |-> IF matcher = "pam" THEN p ELSE TrimSpace(p), command |-> c]
  BY DEF Init
<1>2. p \in Seq(Chars) /\ c \in Seq(Chars)
  BY TextAssumption
<1>3. TrimSpace(p) \in Seq(Chars)
  BY <1>2, TrimType
<1>4. text \in [pattern: Seq(Chars), command: Seq(Chars)]
  BY <1>1, <1>2, <1>3
<1>5. scan \in [tokens: Seq(Token), current: Seq(Chars), inQuote: Quotes \cup {NoQuote}]
  BY DEF Init, NewScan
<1>6. words \in [pattern: Seq(Token), command: Seq(Token)]
  BY DEF Init
<1> QED
  BY <1>4, <1>5, <1>6 DEF Init, TypeOK

\* Every step keeps the shapes.
LEMMA NextType == TypeOK /\ [Next]_matchVars => TypeOK'
<1> SUFFICES ASSUME TypeOK, [Next]_matchVars PROVE TypeOK'
  OBVIOUS
<1>0. scan \in ScanSet
  BY DEF TypeOK, ScanSet
<1>1. CASE Start
  <2>1. LegacyMatches(text.pattern, text.command) \in BOOLEAN
    BY DEF LegacyMatches
  <2>2. reading' \in {"pattern", "done"} /\ verdict' \in BOOLEAN
    <3>1. CASE matcher = "legacy"
      BY <1>1, <2>1, <3>1 DEF Start, Answer
    <3>2. CASE matcher # "legacy"
      BY <1>1, <3>2 DEF Start, Answer, TypeOK
    <3> QED
      BY <3>1, <3>2
  <2> QED
    BY <1>1, <2>2 DEF Start, TypeOK
<1>2. CASE ReadChar
  <2>1. text[reading] \in Seq(Chars)
    BY <1>2 DEF ReadChar, TypeOK
  <2>2. text[reading][pos + 1] \in Chars
    BY <1>2, <2>1 DEF ReadChar, TypeOK
  <2>3. ScanChar(scan, text[reading][pos + 1]) \in ScanSet
    BY <1>0, <2>2, ScanCharType
  <2>4. scan' \in ScanSet
    BY <1>2, <2>3 DEF ReadChar
  <2> QED
    BY <1>2, <2>4 DEF ReadChar, TypeOK, ScanSet
<1>3. CASE EndOfText
  <2>1. Flush(scan).tokens \in Seq(Token)
    BY <1>0, FlushTokens DEF ScanSet
  <2>2. NewScan \in ScanSet
    BY DEF NewScan, ScanSet
  <2>3. CASE scan.inQuote # NoQuote
    BY <1>3, <2>3 DEF EndOfText, Answer, TypeOK
  <2>4. CASE scan.inQuote = NoQuote
    <3>1. words' = [words EXCEPT ![reading] = Flush(scan).tokens]
      BY <1>3, <2>4 DEF EndOfText
    <3>2. reading \in {"pattern", "command"}
      BY <1>3 DEF EndOfText
    <3>3. words' \in [pattern: Seq(Token), command: Seq(Token)]
      <4>1. CASE reading = "pattern"
        BY <2>1, <3>1, <4>1 DEF TypeOK
      <4>2. CASE reading = "command"
        BY <2>1, <3>1, <4>2 DEF TypeOK
      <4> QED
        BY <3>2, <4>1, <4>2
    <3>4. scan' \in ScanSet
      BY <1>3, <2>2, <2>4 DEF EndOfText
    <3> QED
      BY <1>3, <2>4, <3>3, <3>4 DEF EndOfText, TypeOK, ScanSet
  <2> QED
    BY <2>3, <2>4
<1>4. CASE Match
  BY <1>4 DEF Match, Answer, TypeOK, TokensMatch
<1>5. CASE UNCHANGED matchVars
  BY <1>5 DEF matchVars, TypeOK
<1> QED
  BY <1>1, <1>2, <1>3, <1>4, <1>5 DEF Next

\* tokenizeCommand never yields an empty token, on texts of any length: the argv of
\* Execute has no empty argument and a match compares real words only.
THEOREM TokenizerTypeCorrect == Spec => []TypeOK
<1>1. Init => TypeOK
  BY InitType
<1>2. TypeOK /\ [Next]_matchVars => TypeOK'
  BY NextType
<1> QED
  BY <1>1, <1>2, PTL DEF Spec

-----------------------------------------------------------------------------
(* Quotes, positions and word numbers of a text. *)

\* A set of naturals that holds 0 and every successor of its members holds them all:
\* otherwise the naturals it lacks would have a least member.
LEMMA Induction ==
    ASSUME NEW S \in SUBSET Nat, 0 \in S, \A n \in S : n + 1 \in S
    PROVE  S = Nat
<1> DEFINE R == OpToRel(<, Nat)
           T == Nat \ S
<1>1. SUFFICES ASSUME T # {} PROVE FALSE
  OBVIOUS
<1>2. IsWellFoundedOn(R, Nat)
  BY NatLessThanWellFounded
<1>3. \A x, y \in Nat : x < y => <<x, y>> \in R
  BY DEF OpToRel
<1> HIDE DEF R
<1>4. T \in SUBSET Nat
  OBVIOUS
<1>5. PICK n \in T : \A k \in T : ~(<<k, n>> \in R)
  BY <1>1, <1>2, <1>4, WFMin
<1>6. n \in Nat /\ n # 0 /\ n - 1 \in Nat /\ n - 1 < n
  BY <1>5
<1>7. n - 1 \in S
  BY <1>3, <1>5, <1>6
<1>8. (n - 1) + 1 \in S
  BY <1>7
<1> QED
  BY <1>5, <1>6, <1>8

\* QuoteAfter is what its recursive definition says: its value up to each position
\* exists, by induction on the position.
LEMMA QuoteAfterUnfolds ==
    ASSUME NEW m, NEW s \in Seq(Chars)
    PROVE  QuoteAfter(m, s) = [i \in 0 .. Len(s) |->
               IF i = 0 THEN NoQuote ELSE QuoteStep(m, QuoteAfter(m, s)[i-1], s[i])]
<1> DEFINE Def(q, n) == q = [i \in 0 .. n |->
               IF i = 0 THEN NoQuote ELSE QuoteStep(m, q[i-1], s[i])]
           S == {n \in Nat : \E q : Def(q, n)}
<1>1. 0 \in S
  <2>1. Def([i \in 0 .. 0 |-> NoQuote], 0)
    OBVIOUS
  <2> QED
    BY <2>1
<1>2. ASSUME NEW n \in S PROVE n + 1 \in S
  <2>0. n \in Nat /\ n + 1 \in Nat
    OBVIOUS
  <2>1. PICK q : Def(q, n)
    BY <1>2
  <2> DEFINE p == [i \in 0 .. n + 1 |->
               IF i = 0 THEN NoQuote ELSE QuoteStep(m, q[i-1], s[i])]
  <2>2. \A i \in 0 .. n : i \in 0 .. n + 1 /\ p[i] = q[i]
    BY <2>0, <2>1
  <2>3. \A i \in 0 .. n + 1 : i = 0 \/ p[i-1] = q[i-1]
    <3>1. \A i \in 0 .. n + 1 : i = 0 \/ i - 1 \in 0 .. n
      BY <2>0
    <3> HIDE DEF p
    <3> QED
      BY <2>2, <3>1
  <2>4. \A i \in 0 .. n + 1 : (IF i = 0 THEN NoQuote ELSE QuoteStep(m, q[i-1], s[i]))
                            = (IF i = 0 THEN NoQuote ELSE QuoteStep(m, p[i-1], s[i]))
    <3> HIDE DEF p
    <3> QED
      BY <2>3
  <2>5. Def(p, n + 1)
    <3>1. p = [i \in 0 .. n + 1 |->
               IF i = 0 THEN NoQuote ELSE QuoteStep(m, q[i-1], s[i])]
      OBVIOUS
    <3> HIDE DEF p
    <3> QED
      BY <2>4, <3>1
  <2>6. \E r : Def(r, n + 1)
    <3> HIDE DEF p
    <3> QED
      BY <2>5
  <2> QED
    BY <2>0, <2>6
<1>3. S = Nat
  <2>1. S \in SUBSET Nat
    OBVIOUS
  <2> HIDE DEF S
  <2> QED
    BY <1>1, <1>2, <2>1, Induction
<1>4. Len(s) \in S
  BY <1>3
<1>5. \E q : Def(q, Len(s))
  BY <1>4
<1> QED
  BY <1>5, Zenon DEF QuoteAfter

\* The quote that is open moves with the characters.
LEMMA QuoteMoves ==
    ASSUME NEW m, NEW s \in Seq(Chars)
    PROVE  /\ QuoteAfter(m, s)[0] = NoQuote
           /\ \A n \in 0 .. Len(s) - 1 :
                  QuoteAfter(m, s)[n + 1] = QuoteStep(m, QuoteAfter(m, s)[n], s[n + 1])
<1> DEFINE Q == QuoteAfter(m, s)
<1>1. Q = [i \in 0 .. Len(s) |-> IF i = 0 THEN NoQuote ELSE QuoteStep(m, Q[i-1], s[i])]
  BY QuoteAfterUnfolds
<1> HIDE DEF Q
<1>2. Len(s) \in Nat
  OBVIOUS
<1>3. Q[0] = NoQuote
  BY <1>1, <1>2
<1>4. ASSUME NEW n \in 0 .. Len(s) - 1 PROVE Q[n + 1] = QuoteStep(m, Q[n], s[n + 1])
  <2>1. n + 1 \in 0 .. Len(s) /\ n + 1 # 0 /\ (n + 1) - 1 = n
    BY <1>2
  <2>2. Q[n + 1] = IF n + 1 = 0 THEN NoQuote ELSE QuoteStep(m, Q[(n+1)-1], s[n+1])
    BY <1>1, <2>1
  <2> QED
    BY <2>1, <2>2
<1> QED
  BY <1>3, <1>4 DEF Q

\* Breaks, solid and first positions are positions of the text.
LEMMA Positions ==
    ASSUME NEW m, NEW s \in Seq(Chars)
    PROVE  /\ Breaks(m, s) \subseteq 1 .. Len(s)
           /\ Solid(m, s) \subseteq 1 .. Len(s)
           /\ Solid(m, s) \cap Breaks(m, s) = {}
           /\ Firsts(m, s) \subseteq Solid(m, s)
           /\ IsFiniteSet(Solid(m, s)) /\ IsFiniteSet(Firsts(m, s))
<1>1. DOMAIN s = 1 .. Len(s) /\ IsFiniteSet(1 .. Len(s))
  BY FS_Interval
<1>2. Breaks(m, s) \subseteq 1 .. Len(s)
  BY <1>1 DEF Breaks
<1>3. Solid(m, s) \subseteq 1 .. Len(s) /\ Solid(m, s) \cap Breaks(m, s) = {}
  BY <1>1 DEF Solid
<1>4. Firsts(m, s) \subseteq Solid(m, s)
  BY DEF Firsts
<1> QED
  BY <1>1, <1>2, <1>3, <1>4, FS_Subset

\* Counting the members up to n.
LEMMA UpToStep ==
    ASSUME NEW S \in SUBSET Nat, IsFiniteSet(S), NEW n \in Nat
    PROVE  /\ IsFiniteSet(UpTo(S, n)) /\ Cardinality(UpTo(S, n)) \in Nat
           /\ n + 1 \in S => /\ UpTo(S, n + 1) = UpTo(S, n) \cup {n + 1}
                             /\ Cardinality(UpTo(S, n + 1)) = Cardinality(UpTo(S, n)) + 1
           /\ n + 1 \notin S => UpTo(S, n + 1) = UpTo(S, n)
<1>1. UpTo(S, n) \subseteq S /\ n + 1 \notin UpTo(S, n)
  BY DEF UpTo
<1>2. IsFiniteSet(UpTo(S, n)) /\ Cardinality(UpTo(S, n)) \in Nat
  BY <1>1, FS_Subset, FS_CardinalityType
<1>3. \A i \in S : i <= n + 1 <=> i <= n \/ i = n + 1
  OBVIOUS
<1>4. n + 1 \in S => UpTo(S, n + 1) = UpTo(S, n) \cup {n + 1}
  BY <1>3 DEF UpTo
<1>5. n + 1 \notin S => UpTo(S, n + 1) = UpTo(S, n)
  BY <1>3 DEF UpTo
<1> QED
  BY <1>1, <1>2, <1>4, <1>5, FS_AddElement

\* Later positions have counted no less.
LEMMA UpToGrows ==
    ASSUME NEW S \in SUBSET Nat, IsFiniteSet(S), NEW n \in Nat, NEW i \in Nat, i <= n
    PROVE  Cardinality(UpTo(S, i)) <= Cardinality(UpTo(S, n))
<1>1. \A j \in S : j \in Nat /\ (j <= i => j <= n)
  OBVIOUS
<1>2. UpTo(S, i) \subseteq UpTo(S, n)
  BY <1>1 DEF UpTo
<1> QED
  BY <1>2, UpToStep, FS_Subset

\* The positions of word k, and the place of a position in its word.
WordAt(m, s, k) == {i \in Solid(m, s) : WordNo(m, s)[i] = k}
Rank(m, s, i) == Cardinality(UpTo(WordAt(m, s, WordNo(m, s)[i]), i))

\* Word numbers count the first positions, and never decrease.
LEMMA WordNumbers ==
    ASSUME NEW m, NEW s \in Seq(Chars)
    PROVE  /\ WordNo(m, s)[0] = 0
           /\ \A n \in 0 .. Len(s) - 1 :
                  WordNo(m, s)[n + 1] = IF n + 1 \in Firsts(m, s) THEN WordNo(m, s)[n] + 1
                                        ELSE WordNo(m, s)[n]
           /\ \A n \in 0 .. Len(s) : WordNo(m, s)[n] \in Nat
           /\ \A n \in 0 .. Len(s) : \A i \in 0 .. n : WordNo(m, s)[i] <= WordNo(m, s)[n]
<1> DEFINE F == Firsts(m, s)
           W == WordNo(m, s)
<1>1. F \in SUBSET Nat /\ IsFiniteSet(F) /\ Len(s) \in Nat /\ 0 \notin F
  BY Positions
<1>2. W = [i \in 0 .. Len(s) |-> Cardinality(UpTo(F, i))]
  BY DEF WordNo
<1> HIDE DEF F, W
<1>3. W[0] = 0
  <2>1. \A i \in F : i \in Nat /\ i # 0
    BY <1>1
  <2>2. UpTo(F, 0) = {}
    BY <2>1 DEF UpTo
  <2> QED
    BY <1>1, <1>2, <2>2, FS_EmptySet
<1>4. \A n \in 0 .. Len(s) : W[n] = Cardinality(UpTo(F, n)) /\ W[n] \in Nat
  BY <1>1, <1>2, UpToStep
<1>5. ASSUME NEW n \in 0 .. Len(s) - 1
      PROVE  W[n + 1] = IF n + 1 \in F THEN W[n] + 1 ELSE W[n]
  <2>1. n \in Nat /\ n \in 0 .. Len(s) /\ n + 1 \in 0 .. Len(s)
    BY <1>1
  <2> QED
    BY <1>1, <1>4, <2>1, UpToStep
<1>6. ASSUME NEW n \in 0 .. Len(s), NEW i \in 0 .. n PROVE W[i] <= W[n]
  <2>1. i \in Nat /\ n \in Nat /\ i <= n /\ i \in 0 .. Len(s)
    BY <1>1
  <2> QED
    BY <1>1, <1>4, <2>1, UpToGrows
<1> QED
  BY <1>3, <1>4, <1>5, <1>6 DEF F, W

\* The positions of a word are natural numbers, and finitely many.
LEMMA WordPositions ==
    ASSUME NEW m, NEW s \in Seq(Chars), NEW k
    PROVE  /\ WordAt(m, s, k) \in SUBSET Nat
           /\ IsFiniteSet(WordAt(m, s, k))
           /\ WordAt(m, s, k) \subseteq Solid(m, s)
<1>1. WordAt(m, s, k) \subseteq Solid(m, s)
  BY DEF WordAt
<1> QED
  BY <1>1, Positions, FS_Subset

-----------------------------------------------------------------------------
(* What a scan has cut out after some characters. *)

\* After n characters of s the scan sc has cut out the words begun so far: their number,
\* their lengths, and every solid character at its place, the current word included.
Reads(m, s, n, sc) ==
    /\ sc \in ScanSet
    /\ sc.inQuote = QuoteAfter(m, s)[n]
    /\ sc.current = <<>> <=>
           \A j \in UpTo(Solid(m, s), n) : \E b \in Breaks(m, s) : j < b /\ b <= n
    /\ Len(Flush(sc).tokens) = WordNo(m, s)[n]
    /\ \A k \in 1 .. WordNo(m, s)[n] :
           Len(Flush(sc).tokens[k]) = Cardinality(UpTo(WordAt(m, s, k), n))
    /\ \A i \in UpTo(Solid(m, s), n) :
           /\ WordNo(m, s)[i] \in 1 .. WordNo(m, s)[n]
           /\ Rank(m, s, i) \in 1 .. Len(Flush(sc).tokens[WordNo(m, s)[i]])
           /\ Flush(sc).tokens[WordNo(m, s)[i]][Rank(m, s, i)] = s[i]
    /\ \A k \in 1 .. WordNo(m, s)[n] : \A x \in 1 .. Len(Flush(sc).tokens[k]) :
           \E i \in UpTo(WordAt(m, s, k), n) : Rank(m, s, i) = x

\* A character that belongs to no word leaves the words as they were.
LEMMA NoWordGrows ==
    ASSUME NEW m, NEW s \in Seq(Chars), NEW n \in 0 .. Len(s) - 1, n + 1 \notin Solid(m, s)
    PROVE  /\ WordNo(m, s)[n + 1] = WordNo(m, s)[n]
           /\ UpTo(Solid(m, s), n + 1) = UpTo(Solid(m, s), n)
           /\ \A k : UpTo(WordAt(m, s, k), n + 1) = UpTo(WordAt(m, s, k), n)
<1>0. n \in Nat /\ Solid(m, s) \in SUBSET Nat /\ IsFiniteSet(Solid(m, s))
  BY Positions
<1>1. n + 1 \notin Firsts(m, s)
  BY Positions
<1>2. ASSUME NEW k PROVE UpTo(WordAt(m, s, k), n + 1) = UpTo(WordAt(m, s, k), n)
  BY <1>0, WordPositions, UpToStep
<1> QED
  BY <1>0, <1>1, <1>2, WordNumbers, UpToStep

\* Reading such a character keeps Reads, if the scan keeps its list of words.
LEMMA ReadsNoWord ==
    ASSUME NEW m, NEW s \in Seq(Chars), NEW n \in 0 .. Len(s) - 1, NEW sc, Reads(m, s, n, sc),
           NEW sd \in ScanSet, sd.inQuote = QuoteAfter(m, s)[n + 1],
           Flush(sd).tokens = Flush(sc).tokens,
           n + 1 \notin Solid(m, s),
           \/ n + 1 \in Breaks(m, s) /\ sd.current = <<>>
           \/ n + 1 \notin Breaks(m, s) /\ sd.current = sc.current
    PROVE  Reads(m, s, n + 1, sd)
<1>0. n \in Nat /\ Solid(m, s) \in SUBSET Nat /\ Breaks(m, s) \in SUBSET Nat
  BY Positions
<1>1. sd.current = <<>> <=>
          \A j \in UpTo(Solid(m, s), n + 1) : \E b \in Breaks(m, s) : j < b /\ b <= n + 1
  <2>1. CASE n + 1 \in Breaks(m, s)
    <3>1. \A j \in UpTo(Solid(m, s), n) : j < n + 1 /\ n + 1 <= n + 1
      BY <1>0 DEF UpTo
    <3> QED
      BY <2>1, <3>1, NoWordGrows
  <2>2. CASE n + 1 \notin Breaks(m, s)
    <3>1. \A b \in Breaks(m, s) : b <= n + 1 <=> b <= n
      BY <1>0, <2>2
    <3> QED
      BY <2>2, <3>1, NoWordGrows DEF Reads
  <2> QED
    BY <2>1, <2>2
<1> QED
  BY <1>1, NoWordGrows DEF Reads

\* A solid character begins a word exactly if a break came after the last solid one.
LEMMA FirstIffBreak ==
    ASSUME NEW m, NEW s \in Seq(Chars), NEW n \in 0 .. Len(s) - 1, n + 1 \in Solid(m, s)
    PROVE  n + 1 \in Firsts(m, s) <=>
               \A j \in UpTo(Solid(m, s), n) : \E b \in Breaks(m, s) : j < b /\ b <= n
<1>1. n \in Nat /\ Solid(m, s) \in SUBSET Nat /\ Breaks(m, s) \in SUBSET Nat
  BY Positions
<1>2. \A j \in Solid(m, s) : j < n + 1 <=> j <= n
  BY <1>1
<1>3. \A b \in Breaks(m, s) : b < n + 1 <=> b <= n
  BY <1>1
<1> QED
  BY <1>2, <1>3 DEF Firsts, UpTo

\* The members that the words have up to a solid position.
LEMMA WordGrows ==
    ASSUME NEW m, NEW s \in Seq(Chars), NEW n \in 0 .. Len(s) - 1, n + 1 \in Solid(m, s),
           NEW w \in Nat, w = WordNo(m, s)[n + 1]
    PROVE  /\ n + 1 \in UpTo(WordAt(m, s, w), n + 1)
           /\ Cardinality(UpTo(WordAt(m, s, w), n + 1)) = Cardinality(UpTo(WordAt(m, s, w), n)) + 1
           /\ Rank(m, s, n + 1) = Cardinality(UpTo(WordAt(m, s, w), n)) + 1
           /\ UpTo(WordAt(m, s, w), n) \subseteq UpTo(WordAt(m, s, w), n + 1)
<1>0. n \in Nat
  BY Positions
<1>1. n + 1 \in WordAt(m, s, w)
  BY DEF WordAt
<1>2. /\ UpTo(WordAt(m, s, w), n + 1) = UpTo(WordAt(m, s, w), n) \cup {n + 1}
      /\ Cardinality(UpTo(WordAt(m, s, w), n + 1)) = Cardinality(UpTo(WordAt(m, s, w), n)) + 1
  BY <1>0, <1>1, WordPositions, UpToStep
<1>3. Rank(m, s, n + 1) = Cardinality(UpTo(WordAt(m, s, w), n + 1))
  BY DEF Rank
<1> QED
  BY <1>1, <1>2, <1>3

\* The other words stay as they were.
LEMMA OtherWordsStay ==
    ASSUME NEW m, NEW s \in Seq(Chars), NEW n \in 0 .. Len(s) - 1, n + 1 \in Solid(m, s),
           NEW k \in Nat, k # WordNo(m, s)[n + 1]
    PROVE  UpTo(WordAt(m, s, k), n + 1) = UpTo(WordAt(m, s, k), n)
<1>1. n \in Nat /\ n + 1 \notin WordAt(m, s, k)
  BY DEF WordAt
<1> QED
  BY <1>1, WordPositions, UpToStep

\* The solid positions up to one more.
LEMMA SolidGrows ==
    ASSUME NEW m, NEW s \in Seq(Chars), NEW n \in 0 .. Len(s) - 1, n + 1 \in Solid(m, s)
    PROVE  UpTo(Solid(m, s), n + 1) = UpTo(Solid(m, s), n) \cup {n + 1}
<1>1. n \in Nat /\ Solid(m, s) \in SUBSET Nat /\ IsFiniteSet(Solid(m, s))
  BY Positions
<1> QED
  BY <1>1, UpToStep

\* Reading a solid character with no word under way begins the next word with it.
LEMMA ReadsFirst ==
    ASSUME NEW m, NEW s \in Seq(Chars), NEW n \in 0 .. Len(s) - 1, NEW sc, Reads(m, s, n, sc),
           NEW sd \in ScanSet, sd.inQuote = QuoteAfter(m, s)[n + 1],
           sd.tokens = sc.tokens, sd.current = Append(sc.current, s[n + 1]),
           n + 1 \in Solid(m, s), sc.current = <<>>
    PROVE  Reads(m, s, n + 1, sd)
<1> DEFINE W == WordNo(m, s)
           ws == sc.tokens
           wt == Flush(sd).tokens
<1>1. n \in Nat /\ n \in 0 .. Len(s) /\ W[n] \in Nat /\ s[n + 1] \in Chars
  BY WordNumbers
<1>2. W[n + 1] = W[n] + 1
  <2>1. n + 1 \in Firsts(m, s)
    BY FirstIffBreak DEF Reads
  <2> QED
    BY <2>1, WordNumbers
<1>3. Flush(sc).tokens = ws /\ ws \in Seq(Token) /\ Len(ws) = W[n]
  BY FlushTokens DEF Reads, ScanSet
<1>4. sd.current = <<s[n + 1]>> /\ sd.current # <<>>
  BY <1>1
<1>5. wt = Append(ws, <<s[n + 1]>>)
  BY <1>4, FlushTokens
<1>6. /\ Len(wt) = W[n + 1]
      /\ \A k \in 1 .. W[n] : wt[k] = ws[k]
      /\ Len(wt[W[n + 1]]) = 1 /\ wt[W[n + 1]][1] = s[n + 1]
  <2>1. Len(wt) = W[n + 1] /\ wt[W[n + 1]] = <<s[n + 1]>> /\ \A k \in 1 .. W[n] : wt[k] = ws[k]
    BY <1>1, <1>2, <1>3, <1>5
  <2> QED
    BY <1>1, <2>1
<1>7. \A i \in UpTo(Solid(m, s), n) : W[i] \in 1 .. W[n]
  BY DEF Reads
<1>8. UpTo(WordAt(m, s, W[n + 1]), n) = {}
  <2>1. \A i \in UpTo(WordAt(m, s, W[n + 1]), n) : i \in UpTo(Solid(m, s), n) /\ W[i] = W[n + 1]
    BY DEF UpTo, WordAt
  <2> QED
    BY <1>1, <1>2, <1>7, <2>1
<1>9. /\ UpTo(Solid(m, s), n + 1) = UpTo(Solid(m, s), n) \cup {n + 1}
      /\ Rank(m, s, n + 1) = 1
      /\ Cardinality(UpTo(WordAt(m, s, W[n + 1]), n + 1)) = 1
      /\ n + 1 \in UpTo(WordAt(m, s, W[n + 1]), n + 1)
      /\ \A k \in 1 .. W[n] : UpTo(WordAt(m, s, k), n + 1) = UpTo(WordAt(m, s, k), n)
  <2>1. \A k \in 1 .. W[n] : k \in Nat /\ k # W[n + 1]
    BY <1>1, <1>2
  <2>2. Cardinality(UpTo(WordAt(m, s, W[n + 1]), n)) = 0
    BY <1>8, FS_EmptySet
  <2>3. W[n + 1] \in Nat
    BY <1>1, <1>2
  <2>4. /\ Rank(m, s, n + 1) = 1
        /\ Cardinality(UpTo(WordAt(m, s, W[n + 1]), n + 1)) = 1
        /\ n + 1 \in UpTo(WordAt(m, s, W[n + 1]), n + 1)
    BY <2>2, <2>3, WordGrows
  <2>5. UpTo(Solid(m, s), n + 1) = UpTo(Solid(m, s), n) \cup {n + 1}
    BY SolidGrows
  <2>6. \A k \in 1 .. W[n] : UpTo(WordAt(m, s, k), n + 1) = UpTo(WordAt(m, s, k), n)
    BY <2>1, OtherWordsStay
  <2> QED
    BY <2>4, <2>5, <2>6
<1>10. \A k \in 1 .. W[n + 1] : k \in 1 .. W[n] \/ k = W[n + 1]
  BY <1>1, <1>2
<1> HIDE DEF W, ws, wt
<1>11. \A k \in 1 .. W[n + 1] : Len(wt[k]) = Cardinality(UpTo(WordAt(m, s, k), n + 1))
  <2>1. \A k \in 1 .. W[n] : Len(ws[k]) = Cardinality(UpTo(WordAt(m, s, k), n))
    BY <1>3 DEF Reads, W
  <2> QED
    BY <1>6, <1>9, <1>10, <2>1
<1>12. ASSUME NEW i \in UpTo(Solid(m, s), n + 1)
       PROVE  /\ W[i] \in 1 .. W[n + 1]
              /\ Rank(m, s, i) \in 1 .. Len(wt[W[i]])
              /\ wt[W[i]][Rank(m, s, i)] = s[i]
  <2>1. CASE i = n + 1
    <3>1. W[n + 1] \in 1 .. W[n + 1]
      BY <1>1, <1>2
    <3> QED
      BY <1>6, <1>9, <2>1, <3>1
  <2>2. CASE i \in UpTo(Solid(m, s), n)
    <3>1. /\ W[i] \in 1 .. W[n]
          /\ Rank(m, s, i) \in 1 .. Len(ws[W[i]])
          /\ ws[W[i]][Rank(m, s, i)] = s[i]
      BY <1>3, <2>2 DEF Reads, W
    <3> QED
      BY <1>1, <1>2, <1>6, <3>1
  <2> QED
    BY <1>9, <2>1, <2>2
<1>13. ASSUME NEW k \in 1 .. W[n + 1], NEW x \in 1 .. Len(wt[k])
       PROVE  \E i \in UpTo(WordAt(m, s, k), n + 1) : Rank(m, s, i) = x
  <2>1. CASE k = W[n + 1]
    <3>1. Len(wt[k]) = 1
      BY <1>6, <2>1
    <3>2. x = 1
      BY <3>1
    <3> QED
      BY <1>9, <2>1, <3>2
  <2>2. CASE k \in 1 .. W[n]
    <3>1. x \in 1 .. Len(ws[k])
      BY <1>6, <2>2
    <3>2. \E i \in UpTo(WordAt(m, s, k), n) : Rank(m, s, i) = x
      BY <1>3, <2>2, <3>1 DEF Reads, W
    <3> QED
      BY <1>9, <2>2, <3>2
  <2> QED
    BY <1>10, <2>1, <2>2
<1>14. sd.current = <<>> <=>
          \A j \in UpTo(Solid(m, s), n + 1) : \E b \in Breaks(m, s) : j < b /\ b <= n + 1
  <2>1. \A b \in Breaks(m, s) : ~(n + 1 < b /\ b <= n + 1)
    BY <1>1, Positions
  <2> QED
    BY <1>4, <1>9, <2>1
<1> QED
  BY <1>6, <1>11, <1>12, <1>13, <1>14 DEF Reads, W, wt

\* Reading a solid character with a word under way appends it to that word.
LEMMA ReadsMore ==
    ASSUME NEW m, NEW s \in Seq(Chars), NEW n \in 0 .. Len(s) - 1, NEW sc, Reads(m, s, n, sc),
           NEW sd \in ScanSet, sd.inQuote = QuoteAfter(m, s)[n + 1],
           sd.tokens = sc.tokens, sd.current = Append(sc.current, s[n + 1]),
           n + 1 \in Solid(m, s), sc.current # <<>>
    PROVE  Reads(m, s, n + 1, sd)
<1> DEFINE W == WordNo(m, s)
           w == W[n]
           ws == Flush(sc).tokens
           wt == Flush(sd).tokens
           last == WordAt(m, s, w)
<1>1. /\ n \in Nat /\ n \in 0 .. Len(s) /\ W[n] \in Nat /\ s[n + 1] \in Chars
      /\ sc \in ScanSet /\ sc.current \in Seq(Chars) /\ sc.tokens \in Seq(Token)
  BY WordNumbers DEF Reads, ScanSet
<1>2. W[n + 1] = w
  <2>1. n + 1 \notin Firsts(m, s)
    BY FirstIffBreak DEF Reads
  <2> QED
    BY <2>1, WordNumbers
<1>3. ws = Append(sc.tokens, sc.current) /\ Len(ws) = w /\ w \in 1 .. w
  <2>1. ws = Append(sc.tokens, sc.current) /\ Len(ws) = w
    BY FlushTokens DEF Reads
  <2> QED
    BY <1>1, <2>1
<1>4. sd.current # <<>> /\ wt = Append(sc.tokens, Append(sc.current, s[n + 1]))
  <2>1. sd.current # <<>>
    BY <1>1
  <2> QED
    BY <2>1, FlushTokens
<1>5. /\ Len(wt) = w
      /\ \A k \in 1 .. w : k # w => wt[k] = ws[k]
      /\ wt[w] = Append(ws[w], s[n + 1]) /\ ws[w] \in Seq(Chars)
  <2>1. Len(sc.tokens) + 1 = w
    BY <1>1, <1>3
  <2>2. ws[w] = sc.current /\ wt[w] = Append(sc.current, s[n + 1])
    BY <1>1, <1>3, <1>4, <2>1
  <2>3. Len(wt) = w
    BY <1>1, <1>4, <2>1
  <2>4. \A k \in 1 .. w : k # w => wt[k] = sc.tokens[k] /\ ws[k] = sc.tokens[k]
    BY <1>1, <1>3, <1>4, <2>1
  <2> QED
    BY <1>1, <2>2, <2>3, <2>4
<1>6. /\ Len(wt[w]) = Len(ws[w]) + 1 /\ Len(ws[w]) \in Nat
      /\ wt[w][Len(ws[w]) + 1] = s[n + 1]
      /\ \A x \in 1 .. Len(ws[w]) : wt[w][x] = ws[w][x]
  <2>1. \A e \in Seq(Chars), c \in Chars :
            /\ Len(Append(e, c)) = Len(e) + 1 /\ Len(e) \in Nat
            /\ Append(e, c)[Len(e) + 1] = c
            /\ \A x \in 1 .. Len(e) : Append(e, c)[x] = e[x]
    OBVIOUS
  <2> HIDE DEF W, w, ws, wt
  <2> QED
    BY <1>1, <1>5, <2>1
<1>7. /\ \A k \in 1 .. w : Len(ws[k]) = Cardinality(UpTo(WordAt(m, s, k), n))
      /\ \A i \in UpTo(Solid(m, s), n) :
             /\ W[i] \in 1 .. w
             /\ Rank(m, s, i) \in 1 .. Len(ws[W[i]])
             /\ ws[W[i]][Rank(m, s, i)] = s[i]
      /\ \A k \in 1 .. w : \A x \in 1 .. Len(ws[k]) :
             \E i \in UpTo(WordAt(m, s, k), n) : Rank(m, s, i) = x
  BY DEF Reads
<1>8. /\ UpTo(Solid(m, s), n + 1) = UpTo(Solid(m, s), n) \cup {n + 1}
      /\ Rank(m, s, n + 1) = Len(ws[w]) + 1
      /\ Cardinality(UpTo(last, n + 1)) = Len(ws[w]) + 1
      /\ n + 1 \in UpTo(last, n + 1) /\ UpTo(last, n) \subseteq UpTo(last, n + 1)
      /\ \A k \in Nat : k # w => UpTo(WordAt(m, s, k), n + 1) = UpTo(WordAt(m, s, k), n)
  <2>1. Len(ws[w]) = Cardinality(UpTo(last, n))
    BY <1>3, <1>7
  <2>2. w = WordNo(m, s)[n + 1]
    BY <1>2
  <2> HIDE DEF W, w, ws, wt
  <2>3. w \in Nat
    BY <1>3
  <2>4. /\ Rank(m, s, n + 1) = Cardinality(UpTo(last, n)) + 1
        /\ Cardinality(UpTo(last, n + 1)) = Cardinality(UpTo(last, n)) + 1
        /\ n + 1 \in UpTo(last, n + 1) /\ UpTo(last, n) \subseteq UpTo(last, n + 1)
    BY <2>2, <2>3, WordGrows
  <2>5. \A k \in Nat : k # w => UpTo(WordAt(m, s, k), n + 1) = UpTo(WordAt(m, s, k), n)
    BY <2>2, OtherWordsStay
  <2>6. UpTo(Solid(m, s), n + 1) = UpTo(Solid(m, s), n) \cup {n + 1}
    BY SolidGrows
  <2>7. Rank(m, s, n + 1) = Len(ws[w]) + 1 /\ Cardinality(UpTo(last, n + 1)) = Len(ws[w]) + 1
    BY <2>1, <2>4
  <2> QED
    BY <2>4, <2>5, <2>6, <2>7
<1> HIDE DEF W, w, ws, wt
<1>9. ASSUME NEW k \in 1 .. w
      PROVE  Len(wt[k]) = Cardinality(UpTo(WordAt(m, s, k), n + 1))
  <2>1. CASE k = w
    BY <1>6, <1>8, <2>1
  <2>2. CASE k # w
    BY <1>5, <1>7, <1>8, <2>2
  <2> QED
    BY <2>1, <2>2
<1>10. ASSUME NEW i \in UpTo(Solid(m, s), n + 1)
       PROVE  /\ W[i] \in 1 .. w
              /\ Rank(m, s, i) \in 1 .. Len(wt[W[i]])
              /\ wt[W[i]][Rank(m, s, i)] = s[i]
  <2>1. CASE i = n + 1
    BY <1>2, <1>3, <1>6, <1>8, <2>1
  <2>2. CASE i \in UpTo(Solid(m, s), n)
    <3>1. /\ W[i] \in 1 .. w
          /\ Rank(m, s, i) \in 1 .. Len(ws[W[i]])
          /\ ws[W[i]][Rank(m, s, i)] = s[i]
      BY <1>7, <2>2
    <3>2. CASE W[i] = w
      BY <1>6, <3>1, <3>2
    <3>3. CASE W[i] # w
      BY <1>5, <3>1, <3>3
    <3> QED
      BY <3>2, <3>3
  <2> QED
    BY <1>8, <2>1, <2>2
<1>11. ASSUME NEW k \in 1 .. w, NEW x \in 1 .. Len(wt[k])
       PROVE  \E i \in UpTo(WordAt(m, s, k), n + 1) : Rank(m, s, i) = x
  <2>1. CASE k = w /\ x = Len(ws[w]) + 1
    BY <1>8, <2>1
  <2>2. CASE k = w /\ x # Len(ws[w]) + 1
    <3>1. x \in 1 .. Len(ws[w])
      BY <1>6, <2>2
    <3>2. \E i \in UpTo(last, n) : Rank(m, s, i) = x
      BY <1>7, <2>2, <3>1
    <3> QED
      BY <1>8, <2>2, <3>2
  <2>3. CASE k # w
    <3>1. x \in 1 .. Len(ws[k])
      BY <1>5, <2>3
    <3>2. \E i \in UpTo(WordAt(m, s, k), n) : Rank(m, s, i) = x
      BY <1>7, <2>3, <3>1
    <3> QED
      BY <1>8, <2>3, <3>2
  <2> QED
    BY <2>1, <2>2, <2>3
<1>12. sd.current = <<>> <=>
          \A j \in UpTo(Solid(m, s), n + 1) : \E b \in Breaks(m, s) : j < b /\ b <= n + 1
  <2>1. \A b \in Breaks(m, s) : ~(n + 1 < b /\ b <= n + 1)
    BY <1>1, Positions
  <2> QED
    BY <1>4, <1>8, <2>1
<1> QED
  BY <1>2, <1>5, <1>9, <1>10, <1>11, <1>12 DEF Reads, W, wt, w

\* The mark of "no quote" is a character, but neither a quote nor a blank.
LEMMA NulIsApart == NoQuote \notin Quotes /\ "space" \notin Quotes /\ NoQuote # "space"
BY DEF Quotes, NoQuote

\* Without quoting no quote is ever open.
LEMMA NoQuoteOpen ==
    ASSUME NEW m, m # "executor", NEW s \in Seq(Chars), NEW n \in 0 .. Len(s)
    PROVE  QuoteAfter(m, s)[n] = NoQuote
<1>1. CASE n = 0
  BY <1>1, QuoteMoves
<1>2. CASE n # 0
  <2>1. n - 1 \in 0 .. Len(s) - 1 /\ (n - 1) + 1 = n
    BY <1>2
  <2>2. QuoteAfter(m, s)[(n - 1) + 1] = QuoteStep(m, QuoteAfter(m, s)[n - 1], s[(n - 1) + 1])
    BY <2>1, QuoteMoves
  <2> QED
    BY <2>1, <2>2 DEF QuoteStep
<1> QED
  BY <1>1, <1>2

\* Which of the three kinds of position a character makes, by the quote open before and
\* after it.
LEMMA KindOfPosition ==
    ASSUME NEW m, NEW s \in Seq(Chars), NEW n \in 0 .. Len(s) - 1,
           NEW q, q = QuoteAfter(m, s)[n], NEW r, r = QuoteAfter(m, s)[n + 1]
    PROVE  /\ n + 1 \in Breaks(m, s) <=> s[n + 1] = "space" /\ r = NoQuote
           /\ n + 1 \in Solid(m, s) <=>
             n + 1 \notin Breaks(m, s) /\ r = q /\ (m = "executor" => s[n + 1] # r)
<1>1. n + 1 \in DOMAIN s /\ (n + 1) - 1 = n
  OBVIOUS
<1> QED
  BY <1>1 DEF Breaks, Solid

\* One iteration of tokenizeCommand's loop keeps what the scan knows.
LEMMA ReadsChar ==
    ASSUME NEW s \in Seq(Chars), NEW n \in 0 .. Len(s) - 1, NEW sc, Reads(matcher, s, n, sc)
    PROVE  Reads(matcher, s, n + 1, ScanChar(sc, s[n + 1]))
<1> DEFINE ch == s[n + 1]
           q == QuoteAfter(matcher, s)[n]
           r == QuoteAfter(matcher, s)[n + 1]
           sd == ScanChar(sc, ch)
           opens == matcher = "executor" /\ ch \in Quotes /\ q = NoQuote
           closes == matcher = "executor" /\ ch = q
           breaks == ch = "space" /\ q = NoQuote
<1>1. /\ ch \in Chars /\ sc \in ScanSet /\ sc.inQuote = q /\ q \in Quotes \cup {NoQuote}
      /\ sc = [tokens |-> sc.tokens, current |-> sc.current, inQuote |-> sc.inQuote]
  BY DEF Reads, ScanSet
<1>2. sd \in ScanSet
  BY <1>1, ScanCharType
<1>3. r = QuoteStep(matcher, q, ch)
  BY QuoteMoves
<1>4. matcher # "executor" => q = NoQuote
  <2>1. n \in 0 .. Len(s)
    OBVIOUS
  <2> QED
    BY <2>1, NoQuoteOpen
<1>5. /\ n + 1 \in Breaks(matcher, s) <=> ch = "space" /\ r = NoQuote
      /\ n + 1 \in Solid(matcher, s) <=>
             n + 1 \notin Breaks(matcher, s) /\ r = q /\ (matcher = "executor" => ch # r)
  BY KindOfPosition
<1>6. ~(opens /\ closes) /\ ~(opens /\ breaks) /\ ~(closes /\ breaks)
  BY <1>1, NulIsApart
<1>7. /\ opens => sd = [sc EXCEPT !.inQuote = ch]
      /\ closes => sd = [sc EXCEPT !.inQuote = NoQuote]
      /\ breaks => sd = Flush(sc)
      /\ ~opens /\ ~closes /\ ~breaks => sd = [sc EXCEPT !.current = Append(@, ch)]
  <2> HIDE DEF q, ch
  <2> QED
    BY <1>1, <1>6 DEF ScanChar
<1> HIDE DEF ch, q, r, sd
<1>8. CASE opens
  <2>1. r = ch /\ r # q /\ ch # "space"
    BY <1>3, <1>8, NulIsApart DEF QuoteStep
  <2>2. sd.inQuote = r /\ sd.current = sc.current /\ Flush(sd).tokens = Flush(sc).tokens
    BY <1>1, <1>7, <1>8, <2>1 DEF Flush
  <2> QED
    BY <1>2, <1>5, <2>1, <2>2, ReadsNoWord DEF r, sd, ch
<1>9. CASE closes
  <2>1. r = NoQuote /\ (r # q \/ ch = r) /\ ch # "space"
    BY <1>1, <1>3, <1>9, NulIsApart DEF QuoteStep
  <2>2. sd.inQuote = r /\ sd.current = sc.current /\ Flush(sd).tokens = Flush(sc).tokens
    BY <1>1, <1>7, <1>9, <2>1 DEF Flush
  <2> QED
    BY <1>2, <1>5, <1>9, <2>1, <2>2, ReadsNoWord DEF r, sd, ch
<1>10. CASE breaks
  <2>1. r = NoQuote
    BY <1>3, <1>10, NulIsApart DEF QuoteStep
  <2>2. sd.inQuote = r /\ sd.current = <<>> /\ Flush(sd).tokens = Flush(sc).tokens
    BY <1>1, <1>7, <1>10, <2>1, FlushTokens
  <2>3. n + 1 \in Breaks(matcher, s) /\ n + 1 \notin Solid(matcher, s)
    BY <1>5, <1>10, <2>1
  <2> QED
    BY <1>2, <2>2, <2>3, ReadsNoWord DEF r, sd, ch
<1>11. CASE ~opens /\ ~closes /\ ~breaks
  <2>1. r = q
    BY <1>3, <1>4, <1>11 DEF QuoteStep
  <2>2. sd.inQuote = r /\ sd.tokens = sc.tokens /\ sd.current = Append(sc.current, ch)
    BY <1>1, <1>7, <1>11, <2>1
  <2>3. n + 1 \in Solid(matcher, s)
    BY <1>5, <1>11, <2>1
  <2> QED
    BY <1>2, <2>2, <2>3, ReadsFirst, ReadsMore DEF r, sd, ch
<1> QED
  BY <1>8, <1>9, <1>10, <1>11 DEF sd, ch

\* Nothing read, nothing found.
LEMMA ReadsNothing ==
    ASSUME NEW m, NEW s \in Seq(Chars)
    PROVE  Reads(m, s, 0, NewScan)
<1>1. UpTo(Solid(m, s), 0) = {}
  <2>1. \A i \in Solid(m, s) : i \in Nat /\ i # 0
    BY Positions
  <2> QED
    BY <2>1 DEF UpTo
<1>2. NewScan \in ScanSet /\ Flush(NewScan).tokens = <<>> /\ NewScan.current = <<>>
  BY DEF NewScan, ScanSet, Flush
<1>3. NewScan.inQuote = QuoteAfter(m, s)[0]
  BY QuoteMoves DEF NewScan
<1> QED
  BY <1>1, <1>2, <1>3, WordNumbers DEF Reads

\* Everything read, the list holds the words of the text.
LEMMA ReadsEverything ==
    ASSUME NEW m, NEW s \in Seq(Chars), NEW sc, Reads(m, s, Len(s), sc)
    PROVE  Flush(sc).tokens = WordsOf(m, s)
<1> DEFINE W == WordNo(m, s)
           N == Len(s)
           ws == Flush(sc).tokens
           word(k) == [x \in 1 .. Cardinality(WordAt(m, s, k)) |-> s[Nth(WordAt(m, s, k), x)]]
<1>1. N \in Nat /\ N \in 0 .. N /\ W[N] \in Nat /\ ws \in Seq(Token)
  BY WordNumbers, FlushTokens DEF Reads, ScanSet
<1>2. \A k : UpTo(WordAt(m, s, k), N) = WordAt(m, s, k)
  <2>1. \A i \in Solid(m, s) : i <= N
    BY Positions
  <2> QED
    BY <2>1 DEF UpTo, WordAt
<1>3. UpTo(Solid(m, s), N) = Solid(m, s)
  BY Positions DEF UpTo
<1>4. Len(ws) = W[N]
  BY DEF Reads
<1>5. ASSUME NEW k \in 1 .. W[N] PROVE ws[k] = word(k)
  <2>1. ws[k] \in Seq(Chars) /\ Len(ws[k]) = Cardinality(WordAt(m, s, k))
    <3>1. ws[k] \in Token
      BY <1>1, <1>4
    <3> QED
      BY <1>2, <3>1 DEF Reads, Token
  <2>2. ASSUME NEW x \in 1 .. Len(ws[k]) PROVE ws[k][x] = s[Nth(WordAt(m, s, k), x)]
    <3>1. \E i \in WordAt(m, s, k) : Rank(m, s, i) = x
      BY <1>2, <2>2 DEF Reads
    <3>2. \A i \in WordAt(m, s, k) : Rank(m, s, i) = Cardinality(UpTo(WordAt(m, s, k), i))
      BY DEF Rank, WordAt
    <3>3. \E i \in WordAt(m, s, k) : Cardinality(UpTo(WordAt(m, s, k), i)) = x
      BY <3>1, <3>2
    <3>4. PICK i \in WordAt(m, s, k) : i = Nth(WordAt(m, s, k), x) /\ Rank(m, s, i) = x
      <4> DEFINE i == Nth(WordAt(m, s, k), x)
      <4>1. i \in WordAt(m, s, k) /\ Cardinality(UpTo(WordAt(m, s, k), i)) = x
        BY <3>3 DEF Nth
      <4> HIDE DEF i
      <4>2. Rank(m, s, i) = x
        BY <3>2, <4>1
      <4> QED
        BY <4>1, <4>2 DEF i
    <3>5. i \in Solid(m, s) /\ W[i] = k
      BY DEF WordAt
    <3>6. ws[W[i]][Rank(m, s, i)] = s[i]
      BY <1>3, <3>5 DEF Reads
    <3> QED
      BY <3>4, <3>5, <3>6
  <2>3. \A e \in Seq(Chars) : e = [x \in 1 .. Len(e) |-> e[x]]
    OBVIOUS
  <2> HIDE DEF ws
  <2>4. ws[k] = [x \in 1 .. Len(ws[k]) |-> ws[k][x]]
    BY <2>1, <2>3
  <2> QED
    BY <2>1, <2>2, <2>4
<1>6. ws = [k \in 1 .. W[N] |-> word(k)]
  <2>1. ws = [k \in 1 .. W[N] |-> ws[k]]
    BY <1>1, <1>4
  <2> HIDE DEF ws, word
  <2> QED
    BY <1>5, <2>1
<1>7. WordsOf(m, s) = [k \in 1 .. W[N] |-> word(k)]
  BY DEF WordsOf, WordAt
<1> QED
  BY <1>6, <1>7

-----------------------------------------------------------------------------
(* The matches, and the inductive invariant. *)

\* A prefix agrees position by position.
LEMMA PrefixAgrees ==
    ASSUME NEW S, NEW s \in Seq(S), NEW t \in Seq(S)
    PROVE  IsPrefix(s, t) <=> Len(s) <= Len(t) /\ \A i \in 1 .. Len(s) : s[i] = t[i]
<1>1. SubSeq(s, 1, Len(s)) = s
  BY SubSeqProperties
<1>2. CASE Len(s) <= Len(t)
  <2>1. SubSeq(t, 1, Len(s)) \in Seq(S) /\ Len(SubSeq(t, 1, Len(s))) = Len(s)
        /\ \A i \in 1 .. Len(s) : SubSeq(t, 1, Len(s))[i] = t[i]
    BY <1>2, SubSeqProperties
  <2> QED
    BY <1>1, <1>2, <2>1 DEF IsPrefix
<1>3. CASE ~(Len(s) <= Len(t))
  BY <1>3 DEF IsPrefix
<1> QED
  BY <1>2, <1>3

\* The front of a sequence is all of it but the last element.
LEMMA FrontAndLast ==
    ASSUME NEW S, NEW s \in Seq(S), s # <<>>
    PROVE  /\ Front(s) \in Seq(S) /\ Len(Front(s)) = Len(s) - 1
           /\ \A i \in 1 .. Len(s) - 1 : Front(s)[i] = s[i]
           /\ Last(s) = s[Len(s)]
<1> DEFINE e == SubSeq(s, 1, Len(s) - 1)
<1>1. Len(s) \in Nat /\ Len(s) >= 1 /\ \A i \in 1 .. Len(s) - 1 : s[i] \in S
  OBVIOUS
<1>2. PICK l \in Nat : l = Len(s) - 1
  <2>1. \A k \in Nat : k >= 1 => k - 1 \in Nat
    OBVIOUS
  <2>2. Len(s) - 1 \in Nat
    BY <1>1, <2>1
  <2> QED
    BY <2>2
<1>3. e \in Seq(S) /\ Len(e) = l /\ \A i \in 1 .. l : e[i] = s[i]
  <2>1. /\ e \in Seq(S) /\ Len(e) = IF 1 <= l THEN l - 1 + 1 ELSE 0
        /\ \A i \in 1 .. l - 1 + 1 : e[i] = s[1 + i - 1]
    BY <1>1, <1>2, SubSeqProperties
  <2>2. \A i \in 1 .. l : i \in 1 .. l - 1 + 1 /\ 1 + i - 1 = i
    OBVIOUS
  <2>3. l = 0 \/ (1 <= l /\ l - 1 + 1 = l)
    OBVIOUS
  <2> HIDE DEF e
  <2>4. Len(e) = l
    BY <2>1, <2>3
  <2>5. \A i \in 1 .. l : e[i] = s[i]
    BY <2>1, <2>2
  <2> QED
    BY <2>1, <2>4, <2>5
<1> HIDE DEF e
<1>4. Front(s) = e /\ Last(s) = s[Len(s)]
  BY DEF Front, Last, e
<1> QED
  BY <1>2, <1>3, <1>4

\* TokensMatch on two lists of words is the match by words: a command that is the
\* pattern itself and ends with a star is not free of metacharacters.
LEMMA TokensMatchWords ==
    ASSUME NEW p \in Seq(Token), NEW c \in Seq(Token)
    PROVE  TokensMatch(p, c) <=>
               /\ p # <<>> /\ c # <<>> /\ Clean(c)
               /\ p = c \/ (Last(p) = <<"star">> /\ IsPrefix(Front(p), c))
<1> SUFFICES ASSUME p # <<>>, c # <<>>, Clean(c)
             PROVE  TokensMatch(p, c) <=>
                        p = c \/ (Last(p) = <<"star">> /\ IsPrefix(Front(p), c))
  BY DEF TokensMatch, Clean
<1>1. Len(p) \in Nat \ {0} /\ Len(c) \in Nat \ {0}
  OBVIOUS
<1>2. TokensMatch(p, c) <=> /\ Len(c) >= Fixed(p)
                            /\ Wildcard(p) \/ Len(c) = Fixed(p)
                            /\ \A i \in 1 .. Fixed(p) : c[i] = p[i]
  BY DEF TokensMatch, Clean
<1>3. CASE Wildcard(p)
  <2>1. Fixed(p) = Len(p) - 1 /\ Last(p) = <<"star">>
    BY <1>3, FrontAndLast DEF Fixed, Wildcard
  <2>2. IsPrefix(Front(p), c) <=> Len(p) - 1 <= Len(c)
                                  /\ \A i \in 1 .. Len(p) - 1 : p[i] = c[i]
    BY FrontAndLast, PrefixAgrees
  <2>3. p # c
    <3>1. HasMeta(p[Len(p)])
      BY <1>3 DEF HasMeta, Wildcard
    <3> QED
      BY <1>1, <3>1 DEF Clean
  <2> QED
    BY <1>1, <1>2, <1>3, <2>1, <2>2, <2>3
<1>4. CASE ~Wildcard(p)
  <2>1. Fixed(p) = Len(p) /\ Last(p) # <<"star">>
    BY <1>4, FrontAndLast DEF Fixed, Wildcard
  <2>2. p = c <=> Len(p) = Len(c) /\ \A i \in 1 .. Len(p) : c[i] = p[i]
    OBVIOUS
  <2> QED
    BY <1>1, <1>2, <1>4, <2>1, <2>2
<1> QED
  BY <1>3, <1>4

\* LegacyMatches is the comparison of texts it is meant to be.
LEMMA LegacyMatchesTexts ==
    ASSUME NEW p \in Seq(Chars), NEW c \in Seq(Chars)
    PROVE  LegacyMatches(p, c) <=> ShouldMatch("legacy", p, c)
<1>1. CASE p = <<>>
  BY <1>1 DEF LegacyMatches, ShouldMatch
<1>2. CASE p # <<>>
  <2>1. IsPrefix(Front(p), c) <=> Len(p) - 1 <= Len(c)
                                  /\ \A i \in 1 .. Len(p) - 1 : p[i] = c[i]
    BY <1>2, FrontAndLast, PrefixAgrees
  <2>2. Last(p) = p[Len(p)]
    BY <1>2, FrontAndLast
  <2> QED
    BY <1>2, <2>1, <2>2 DEF LegacyMatches, ShouldMatch
<1> QED
  BY <1>1, <1>2

\* The inductive invariant: what the scan has read, and which shortcuts were not taken.
Scanned ==
    reading \in {"pattern", "command"} =>
        pos \in 0 .. Len(text[reading]) /\ Reads(matcher, text[reading], pos, scan)
Fresh == reading = "start" => pos = 0 /\ scan = NewScan
NoShortcut ==
    reading \in {"pattern", "command", "match"} =>
        /\ matcher # "legacy" /\ ~(matcher = "executor" /\ text.pattern = <<>>)
        /\ text.pattern # <<"star">> /\ text.pattern # text.command
WordsInv == TypeOK /\ Scanned /\ Fresh /\ NoShortcut /\ TokenizerCorrect /\ VerdictCorrect

\* A call starts with nothing read.
LEMMA InitWords == Init => WordsInv
BY InitType DEF Init, WordsInv, Scanned, Fresh, NoShortcut, TokenizerCorrect, VerdictCorrect

\* Every step keeps the invariant: shortcuts answer at once, a character extends what the
\* scan knows, the end of a text yields its words, and the match compares them.
LEMMA NextWords == WordsInv /\ [Next]_matchVars => WordsInv'
<1> SUFFICES ASSUME WordsInv, [Next]_matchVars PROVE WordsInv'
  OBVIOUS
<1>0. TypeOK'
  BY NextType DEF WordsInv
<1>6. text.pattern \in Seq(Chars) /\ text.command \in Seq(Chars)
  BY DEF WordsInv, TypeOK
<1>1. CASE Start
  <2>1. UNCHANGED <<matcher, text, pos, scan, words>> /\ pos = 0 /\ scan = NewScan
    BY <1>1 DEF Start, WordsInv, Fresh
  <2>2. CASE matcher = "legacy"
    <3>1. reading' = "done" /\ verdict' = LegacyMatches(text.pattern, text.command)
      BY <1>1, <2>2 DEF Start, Answer
    <3>2. VerdictCorrect'
      BY <1>6, <2>1, <2>2, <3>1, LegacyMatchesTexts DEF VerdictCorrect
    <3> QED
      BY <1>0, <3>1, <3>2 DEF WordsInv, Scanned, Fresh, NoShortcut, TokenizerCorrect
  <2>3. CASE matcher # "legacy" /\ reading' = "done"
    <3>1. VerdictCorrect'
      BY <1>1, <2>1, <2>3 DEF Start, Answer, VerdictCorrect, ShouldMatch
    <3> QED
      BY <1>0, <2>3, <3>1 DEF WordsInv, Scanned, Fresh, NoShortcut, TokenizerCorrect
  <2>4. CASE matcher # "legacy" /\ reading' # "done"
    <3>1. reading' = "pattern" /\ NoShortcut'
      BY <1>1, <2>1, <2>4 DEF Start, Answer, NoShortcut
    <3>2. Scanned'
      <4>1. Reads(matcher, text.pattern, 0, NewScan) /\ Len(text.pattern) \in Nat
        BY <1>6, ReadsNothing
      <4> QED
        BY <2>1, <3>1, <4>1 DEF Scanned
    <3> QED
      BY <1>0, <3>1, <3>2 DEF WordsInv, Fresh, TokenizerCorrect, VerdictCorrect
  <2> QED
    BY <2>2, <2>3, <2>4
<1>2. CASE ReadChar
  <2>1. /\ reading \in {"pattern", "command"} /\ pos < Len(text[reading])
        /\ scan' = ScanChar(scan, text[reading][pos + 1]) /\ pos' = pos + 1
        /\ UNCHANGED <<matcher, text, reading, words, verdict>>
    BY <1>2 DEF ReadChar
  <2>2. /\ pos \in 0 .. Len(text[reading]) - 1 /\ pos + 1 \in 0 .. Len(text[reading])
        /\ text[reading] \in Seq(Chars) /\ Reads(matcher, text[reading], pos, scan)
    BY <1>6, <2>1 DEF WordsInv, Scanned
  <2>3. Reads(matcher, text[reading], pos + 1, scan')
    BY <2>1, <2>2, ReadsChar
  <2>4. Scanned'
    BY <2>1, <2>2, <2>3 DEF Scanned
  <2> QED
    BY <1>0, <2>1, <2>4 DEF WordsInv, Fresh, NoShortcut, TokenizerCorrect, VerdictCorrect
<1>3. CASE EndOfText
  <2>1. /\ reading \in {"pattern", "command"} /\ pos = Len(text[reading])
        /\ text[reading] \in Seq(Chars) /\ UNCHANGED <<matcher, text>>
        /\ Reads(matcher, text[reading], Len(text[reading]), scan)
    BY <1>6, <1>3 DEF EndOfText, WordsInv, Scanned
  <2>2. Closed(matcher, text[reading]) <=> scan.inQuote = NoQuote
    BY <2>1 DEF Closed, Reads
  <2>3. CASE scan.inQuote # NoQuote
    <3>1. reading' = "done" /\ verdict' = FALSE
      BY <1>3, <2>3 DEF EndOfText, Answer
    <3>2. ~WordsMatch(matcher, text.pattern, text.command)
      BY <2>1, <2>2, <2>3 DEF WordsMatch
    <3>3. VerdictCorrect'
      BY <2>1, <3>1, <3>2 DEF VerdictCorrect, ShouldMatch, WordsInv, NoShortcut
    <3> QED
      BY <1>0, <3>1, <3>3 DEF WordsInv, Scanned, Fresh, NoShortcut, TokenizerCorrect
  <2>4. CASE scan.inQuote = NoQuote
    <3>1. /\ words' = [words EXCEPT ![reading] = Flush(scan).tokens]
          /\ reading' = IF reading = "pattern" THEN "command" ELSE "match"
          /\ pos' = 0 /\ scan' = NewScan
      BY <1>3, <2>4 DEF EndOfText
    <3>2. Flush(scan).tokens = WordsOf(matcher, text[reading])
      BY <2>1, ReadsEverything
    <3>3. Scanned'
      <4>1. Reads(matcher, text.command, 0, NewScan) /\ Len(text.command) \in Nat
        BY <1>6, ReadsNothing
      <4> QED
        BY <2>1, <3>1, <4>1 DEF Scanned
    <3>4. TokenizerCorrect'
      BY <2>1, <2>2, <2>4, <3>1, <3>2 DEF TokenizerCorrect, WordsInv, TypeOK
    <3> QED
      BY <1>0, <2>1, <3>1, <3>3, <3>4
         DEF WordsInv, Fresh, NoShortcut, VerdictCorrect
  <2> QED
    BY <2>3, <2>4
<1>4. CASE Match
  <2>1. /\ reading = "match" /\ reading' = "done"
        /\ verdict' = TokensMatch(words.pattern, words.command)
        /\ UNCHANGED <<matcher, text>>
    BY <1>4 DEF Match, Answer
  <2>2. /\ words.pattern \in Seq(Token) /\ words.command \in Seq(Token)
        /\ words.pattern = WordsOf(matcher, text.pattern) /\ Closed(matcher, text.pattern)
        /\ words.command = WordsOf(matcher, text.command) /\ Closed(matcher, text.command)
    BY <2>1 DEF WordsInv, TypeOK, TokenizerCorrect
  <2>3. TokensMatch(words.pattern, words.command)
            <=> WordsMatch(matcher, text.pattern, text.command)
    BY <2>2, TokensMatchWords DEF WordsMatch
  <2>4. VerdictCorrect'
    BY <2>1, <2>3 DEF VerdictCorrect, ShouldMatch, WordsInv, NoShortcut
  <2> QED
    BY <1>0, <2>1, <2>4 DEF WordsInv, Scanned, Fresh, NoShortcut, TokenizerCorrect
<1>5. CASE UNCHANGED matchVars
  BY <1>0, <1>5 DEF matchVars, WordsInv, Scanned, Fresh, NoShortcut, TokenizerCorrect,
                    VerdictCorrect
<1> QED
  BY <1>1, <1>2, <1>3, <1>4, <1>5 DEF Next

\* tokenizeCommand returns the words of a text of any length, and refuses it exactly if a
\* quote stays open.
THEOREM TokenizerIsCorrect == Spec => []TokenizerCorrect
<1>1. WordsInv => TokenizerCorrect
  BY DEF WordsInv
<1> QED
  BY <1>1, InitWords, NextWords, PTL DEF Spec

\* The three matchers answer by the words of both texts, for every pattern and command: in
\* particular no command with a metacharacter is matched by words.
THEOREM VerdictIsCorrect == Spec => []VerdictCorrect
<1>1. WordsInv => VerdictCorrect
  BY DEF WordsInv
<1> QED
  BY <1>1, InitWords, NextWords, PTL DEF Spec
=============================================================================
