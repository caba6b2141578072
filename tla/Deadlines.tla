------------------------------- MODULE Deadlines -------------------------------
(***************************************************************************)
(* When the request stores of internal/pam take a request for expired.     *)
(*                                                                         *)
(* SQLite compares instants as the RFC3339Nano text the store wrote.  That *)
(* layout drops the trailing zeros of the fraction, and its point with     *)
(* them, and "Z", which ends the text, sorts after the point and after     *)
(* every digit: "05Z" is later than "05.3Z", and "05.3Z" than "05.37Z".    *)
(***************************************************************************)
EXTENDS Integers

CONSTANTS
    Second,   \* ticks of the clock per second; 10^9 of the real one
    Units     \* what the last digit of a text may count: a second and its decimal fractions

ASSUME UnitsAssumption == /\ Second \in Nat \ {0}
                          /\ Second \in Units
                          /\ Units \subseteq 1 .. Second

\* The text of b is that of a with more digits before its "Z": a ends at a unit, and b lies
\* within that unit.
Extends(b, a) == a < b /\ \E unit \in Units : a % unit = 0 /\ b < a + unit

\* The text of a sorts after the text of b.
TextAfter(a, b) == Extends(b, a) \/ (a > b /\ ~Extends(a, b))

\* The deadline is not reached at instant `at`, in the words of each store: not
\* at.After(deadline) for the in-memory store, and deadline > at for the SQL stores, of
\* which SQLite compares texts.
InTime(store, deadline, at) ==
    CASE store = "memory" -> at <= deadline
      [] store = "postgres" -> at < deadline
      [] store = "sqlite" -> TextAfter(deadline, at)
=============================================================================
