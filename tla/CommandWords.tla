----------------------------- MODULE CommandWords -----------------------------
(***************************************************************************)
(* What tokenizing and matching promise, said without a tokenizer: the     *)
(* words of a text are counted, not cut out character by character.  The   *)
(* parameter m is the matcher that reads the text s.                       *)
(***************************************************************************)
EXTENDS CommandMatch, SequencesExt

\* The quote that is open after character ch, if q was: only the executor knows quotes,
\* and within one the other is an ordinary character.
QuoteStep(m, q, ch) ==
    IF m # "executor" THEN NoQuote
    ELSE IF q = NoQuote /\ ch \in Quotes THEN ch
    ELSE IF q = ch THEN NoQuote ELSE q

\* QuoteAfter(m, s)[i]: the quote that is open once i characters of s were read.
QuoteAfter(m, s) ==
    LET quote[i \in 0 .. Len(s)] ==
            IF i = 0 THEN NoQuote ELSE QuoteStep(m, quote[i-1], s[i])
    IN quote

Closed(m, s) == QuoteAfter(m, s)[Len(s)] = NoQuote

\* Positions that separate words, positions whose character belongs to one, and among
\* these the positions a word begins at.  The executor drops the quotes that open or close
\* a span, and the NUL outside one.
Breaks(m, s) ==
    LET quote == QuoteAfter(m, s)
    IN {i \in DOMAIN s : s[i] = "space" /\ quote[i] = NoQuote}
Solid(m, s) ==
    LET quote == QuoteAfter(m, s)
    IN {i \in DOMAIN s \ Breaks(m, s) :
           quote[i] = quote[i-1] /\ (m = "executor" => s[i] # quote[i])}
Firsts(m, s) ==
    LET breaks == Breaks(m, s)
        solid == Solid(m, s)
    IN {i \in solid : \A j \in solid : j < i => \E b \in breaks : j < b /\ b < i}

\* The members of a set of positions up to n; its x-th member.
UpTo(S, n) == {i \in S : i <= n}
Nth(S, x) == CHOOSE i \in S : Cardinality(UpTo(S, i)) = x

\* WordNo(m, s)[i]: the number of words begun once i characters of s were read.
WordNo(m, s) ==
    LET firsts == Firsts(m, s)
    IN [i \in 0 .. Len(s) |-> Cardinality(UpTo(firsts, i))]

\* Word k of s is made of the solid characters up to which k words were begun.
WordsOf(m, s) ==
    LET no == WordNo(m, s)
        solid == Solid(m, s)
    IN [k \in 1 .. no[Len(s)] |->
           LET at == {i \in solid : no[i] = k}
           IN [x \in 1 .. Cardinality(at) |-> s[Nth(at, x)]]]

-----------------------------------------------------------------------------

\* tokenizeCommand returns the words of the text: quoting protects blanks, NULs and the
\* other quote, quotes and NULs outside them vanish, and it is refused exactly if a quote
\* stays open.
TokenizerCorrect ==
    /\ reading \in {"command", "match"} =>
           Closed(matcher, text.pattern) /\ words.pattern = WordsOf(matcher, text.pattern)
    /\ reading = "match" =>
           Closed(matcher, text.command) /\ words.command = WordsOf(matcher, text.command)

Clean(w) == \A i \in DOMAIN w : ~HasMeta(w[i])

\* What a pattern is for: the words of the command, free of metacharacters, are the
\* words of the pattern - or begin with them, if its last word is a star.
WordsMatch(m, pattern, command) ==
    LET p == WordsOf(m, pattern)
        c == WordsOf(m, command)
    IN /\ Closed(m, pattern) /\ Closed(m, command)
       /\ p # <<>> /\ c # <<>> /\ Clean(c)
       /\ p = c \/ (Last(p) = <<"star">> /\ IsPrefix(Front(p), c))

\* A pattern matches everything, itself, or by words.  Only a word of its own is a
\* wildcard: "a*" is no pattern for "ab".  The legacy matcher compares the trimmed
\* pattern, up to a final star, with the raw text.
ShouldMatch(m, pattern, command) ==
    IF m = "legacy"
    THEN /\ pattern # <<>>
         /\ \/ pattern = command
            \/ Last(pattern) = "star" /\ IsPrefix(Front(pattern), command)
    ELSE /\ ~(m = "executor" /\ pattern = <<>>)
         /\ \/ pattern = <<"star">>
            \/ pattern = command
            \/ WordsMatch(m, pattern, command)

\* The matchers answer by the words of both texts, whatever their blanks, quotes and NULs;
\* only "*" and the pattern's own text match unread, with metacharacters and open quotes.
VerdictCorrect ==
    reading = "done" => (verdict <=> ShouldMatch(matcher, text.pattern, text.command))

\* TestMatchCommand_EdgeCases (internal/pam/handlers_test.go:427-429): the pattern "a*"
\* matches "a" and "ab", not "b".  To matchCommand "a*" is one token and no wildcard.
StarEndsAWord ==
    reading = "done" /\ matcher = "pam" /\ text.command \in Seq(Letters) =>
        \A x \in Letters : text.pattern = <<x, "star">> =>
                              (verdict <=> IsPrefix(<<x>>, text.command))
=============================================================================
