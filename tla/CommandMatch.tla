----------------------------- MODULE CommandMatch -----------------------------
(***************************************************************************)
(* Does a pattern of the allowlist match a command?  Three matchers of the *)
(* program answer: TokenizeAndMatch of internal/executor, which honours    *)
(* quotes, matchCommand of internal/pam, which does not, and IsAllowed of  *)
(* the legacy executor, which compares texts.  The tokenizers are run here *)
(* character by character on one pattern and one command; a list of        *)
(* patterns allows a command if one of them matches.                       *)
(*                                                                         *)
(* Characters are letters and the classes the code tells apart: "space"    *)
(* for blanks, "sq" and "dq" for the quotes, "star", "meta" for every      *)
(* other shell metacharacter, and "nul" for U+0000, which a JSON request   *)
(* may carry and which is also what inQuote holds outside quotes.          *)
(***************************************************************************)
EXTENDS Integers, Sequences, FiniteSets

CONSTANTS
    Letters,    \* ordinary characters
    Patterns,   \* the patterns an allowlist may hold
    Commands    \* the commands callers may ask for

Quotes == {"sq", "dq"}
NoQuote == "nul"   \* the zero rune
Chars == Letters \cup Quotes \cup {"space", "star", "meta", NoQuote}

ASSUME LettersAssumption == Letters \cap (Quotes \cup {"space", "star", "meta", NoQuote}) = {}
ASSUME TextAssumption == Patterns \subseteq Seq(Chars) /\ Commands \subseteq Seq(Chars)

VARIABLES
    matcher,   \* "executor", "pam" or "legacy"
    text,      \* the pattern (trimmed by the IsAllowed of both executors), the command
    reading,   \* "start", the text being tokenized, "match" or "done"
    pos,       \* characters of that text consumed
    scan,      \* the tokenizer's locals
    words,     \* the tokens of the texts read so far
    verdict    \* the answer, once done

matchVars == <<matcher, text, reading, pos, scan, words, verdict>>

NewScan == [tokens |-> <<>>, current |-> <<>>, inQuote |-> NoQuote]

\* Append the current token, if there is one.
Flush(s) == IF s.current = <<>> THEN s
            ELSE [s EXCEPT !.tokens = Append(@, s.current), !.current = <<>>]

\* Mutant: either quote character closes a quoted span.
ScanCharAnyQuote(s, ch) ==
    CASE ch \in Quotes /\ matcher = "executor" ->
            [s EXCEPT !.inQuote = IF @ = NoQuote THEN ch ELSE NoQuote]
      [] matcher = "executor" /\ ch = s.inQuote -> s
      [] ch = "space" /\ s.inQuote = NoQuote -> Flush(s)
      [] OTHER -> [s EXCEPT !.current = Append(@, ch)]

\* Mutant: a blank ends a token even when none was begun.
ScanCharEmptyTokens(s, ch) ==
    CASE matcher = "executor" /\ ch \in Quotes /\ s.inQuote = NoQuote -> [s EXCEPT !.inQuote = ch]
      [] matcher = "executor" /\ ch = s.inQuote -> [s EXCEPT !.inQuote = NoQuote]
      [] ch = "space" /\ s.inQuote = NoQuote ->
            [s EXCEPT !.tokens = Append(@, s.current), !.current = <<>>]
      [] OTHER -> [s EXCEPT !.current = Append(@, ch)]

\* The body of tokenizeCommand's loop.  Outside quotes the executor's "closing quote" is a
\* NUL, which it swallows; to the PAM handler quotes and NUL are ordinary characters.
ScanChar(s, ch) ==
    CASE matcher = "executor" /\ ch \in Quotes /\ s.inQuote = NoQuote -> [s EXCEPT !.inQuote = ch]
      [] matcher = "executor" /\ ch = s.inQuote -> [s EXCEPT !.inQuote = NoQuote]
      [] ch = "space" /\ s.inQuote = NoQuote -> Flush(s)
      [] OTHER -> [s EXCEPT !.current = Append(@, ch)]

HasMeta(token) == \E i \in DOMAIN token : token[i] \in {"star", "meta"}

Wildcard(p) == p[Len(p)] = <<"star">>
Fixed(p) == IF Wildcard(p) THEN Len(p) - 1 ELSE Len(p)

\* Mutant: the number of tokens is not compared when there is no wildcard.
TokensMatchPrefix(p, c) ==
    /\ p # <<>> /\ c # <<>>
    /\ Len(c) >= Fixed(p)
    /\ \A i \in 1 .. Fixed(p) : c[i] = p[i]
    /\ \A i \in DOMAIN c : ~HasMeta(c[i])

\* Token counts, the fixed tokens one by one, then the metacharacters of the command.
TokensMatch(p, c) ==
    /\ p # <<>> /\ c # <<>>
    /\ Len(c) >= Fixed(p)
    /\ Wildcard(p) \/ Len(c) = Fixed(p)
    /\ \A i \in 1 .. Fixed(p) : c[i] = p[i]
    /\ \A i \in DOMAIN c : ~HasMeta(c[i])

\* Mutant: the star of the pattern is compared with the command too.
LegacyMatchesStar(p, c) ==
    /\ p # <<>>
    /\ \/ p[Len(p)] = "star" /\ Len(p) <= Len(c) /\ \A i \in DOMAIN p : p[i] = c[i]
       \/ p = c

\* daemon.Executor.IsAllowed: the text before a final star begins the command, or the
\* texts are equal; "sh -c" gets the command, no metacharacter is looked for.
LegacyMatches(p, c) ==
    /\ p # <<>>
    /\ \/ /\ p[Len(p)] = "star"
          /\ Len(p) - 1 <= Len(c)
          /\ \A i \in 1 .. Len(p) - 1 : p[i] = c[i]
       \/ p = c

\* strings.TrimSpace of both executors' IsAllowed.
TrimSpace(s) ==
    LET leading == {i \in DOMAIN s : \A j \in 1 .. i : s[j] = "space"}
        trailing == {i \in DOMAIN s : \A j \in i .. Len(s) : s[j] = "space"}
    IN SubSeq(s, Cardinality(leading) + 1, Len(s) - Cardinality(trailing))

-----------------------------------------------------------------------------

Answer(yes) == reading' = "done" /\ verdict' = yes

\* IsAllowed skips an empty pattern, a legacy answer takes no scan; "*" and the very text
\* of the command match at once, before quotes or metacharacters are looked at.
Start ==
    /\ reading = "start"
    /\ IF matcher = "legacy" THEN Answer(LegacyMatches(text.pattern, text.command))
       ELSE IF matcher = "executor" /\ text.pattern = <<>> THEN Answer(FALSE)
       ELSE IF text.pattern = <<"star">> \/ text.pattern = text.command THEN Answer(TRUE)
       ELSE reading' = "pattern" /\ UNCHANGED verdict
    /\ UNCHANGED <<matcher, text, pos, scan, words>>

\* The loop over the characters.
ReadChar ==
    /\ reading \in {"pattern", "command"}
    /\ pos < Len(text[reading])
    /\ scan' = ScanChar(scan, text[reading][pos + 1])
    /\ pos' = pos + 1
    /\ UNCHANGED <<matcher, text, reading, words, verdict>>

\* After the loop: an open quote rejects, the last token is flushed.
EndOfText ==
    /\ reading \in {"pattern", "command"}
    /\ pos = Len(text[reading])
    /\ IF scan.inQuote # NoQuote
       THEN Answer(FALSE) /\ UNCHANGED <<pos, scan, words>>
       ELSE /\ words' = [words EXCEPT ![reading] = Flush(scan).tokens]
            /\ reading' = IF reading = "pattern" THEN "command" ELSE "match"
            /\ pos' = 0
            /\ scan' = NewScan
            /\ UNCHANGED verdict
    /\ UNCHANGED <<matcher, text>>

Match ==
    /\ reading = "match"
    /\ Answer(TokensMatch(words.pattern, words.command))
    /\ UNCHANGED <<matcher, text, pos, scan, words>>

Init ==
    /\ matcher \in {"executor", "pam", "legacy"}
    /\ \E p \in Patterns, c \in Commands :
           text = [pattern |-> IF matcher = "pam" THEN p ELSE TrimSpace(p),
                   command |-> c]
    /\ reading = "start"
    /\ pos = 0
    /\ scan = NewScan
    /\ words = [pattern |-> <<>>, command |-> <<>>]
    /\ verdict = FALSE

Next == Start \/ ReadChar \/ EndOfText \/ Match

Spec == Init /\ [][Next]_matchVars

-----------------------------------------------------------------------------

Token == Seq(Chars) \ {<<>>}

\* Every variable has the shape the code gives it; in particular no token is empty.
TypeOK ==
    /\ matcher \in {"executor", "pam", "legacy"}
    /\ text \in [pattern: Seq(Chars), command: Seq(Chars)]
    /\ reading \in {"start", "pattern", "command", "match", "done"}
    /\ pos \in Nat
    /\ scan \in [tokens: Seq(Token), current: Seq(Chars), inQuote: Quotes \cup {NoQuote}]
    /\ words \in [pattern: Seq(Token), command: Seq(Token)]
    /\ verdict \in BOOLEAN
=============================================================================
