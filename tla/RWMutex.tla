-------------------------------- MODULE RWMutex --------------------------------
(***************************************************************************)
(* sync.RWMutex as a value: who holds it and who waits.  A writer first     *)
(* announces itself (there is one at a time) and then waits for the readers *)
(* that are in; readers who come later are parked, and the unlock of the    *)
(* writer lets all of them in before the next writer.  Neither side can     *)
(* starve the other, and a goroutine that takes the write lock while it     *)
(* holds the read lock waits for itself.                                    *)
(***************************************************************************)

CONSTANTS
    Goroutines,   \* who may call
    None          \* nobody, not a goroutine

Mutex == [writer: Goroutines \cup {None}, readers: SUBSET Goroutines,
          parked: SUBSET Goroutines]

FreeMutex == [writer |-> None, readers |-> {}, parked |-> {}]

\* RLock: in, or parked behind a writer.
AfterRLock(mu, g) == IF mu.writer = None THEN [mu EXCEPT !.readers = @ \cup {g}]
                                         ELSE [mu EXCEPT !.parked = @ \cup {g}]

AfterRUnlock(mu, g) == [mu EXCEPT !.readers = @ \ {g}]

\* Lock: be the one writer, then wait until HoldsWrite.
MayAnnounce(mu) == mu.writer = None
AfterAnnounce(mu, g) == [mu EXCEPT !.writer = g]

HoldsRead(mu, g) == g \in mu.readers
HoldsWrite(mu, g) == mu.writer = g /\ mu.readers = {}

AfterUnlock(mu) == [writer |-> None, readers |-> mu.readers \cup mu.parked, parked |-> {}]
=============================================================================
