-------------------------- MODULE MCTelegramWebhook ---------------------------
(* TelegramWebhook with the updates that TLC delivers. *)
EXTENDS TelegramWebhook

CONSTANTS r1, u1, u2, q1

\* q1 is a press of deny, one without a sender, one without data, one of an unknown button,
\* or a text; every other update is a press of deny.
SmallPresses == [q \in Queries |->
    IF q # q1 THEN {[from |-> u2, data |-> r1]}
    ELSE {[from |-> u1, data |-> d] : d \in {r1, "empty", "other", "text"}}
         \cup {[from |-> None, data |-> r1]}]

\* q1 may be delivered twice.
SmallDeliveries == [q \in Queries |-> IF q = q1 THEN 2 ELSE 1]
=============================================================================
