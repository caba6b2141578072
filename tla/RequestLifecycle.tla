--------------------------- MODULE RequestLifecycle ---------------------------
(***************************************************************************)
(* What KingCrab promises about one elevation request, whatever the number *)
(* of clients, handlers, timers and restarts: a request is decided at most *)
(* once, its command runs at most once and only after an approval, and a   *)
(* decision is never revised.  There are no handlers, no clock and no      *)
(* database here; modules ApprovalDaemon, LegacyServer, PamService and     *)
(* TelegramWebhook are shown to implement this one.                        *)
(***************************************************************************)
EXTENDS Naturals

CONSTANTS
    Requests,   \* the request identifiers ever issued
    MayVanish,  \* TRUE when the request table does not outlive the process
    TellsRuns   \* TRUE when "completed" is kept for commands that were started

VARIABLES
    state,      \* state[id]: where request id is in its life
    runs        \* runs[id]: how many times the command of id was started

lifecycleVars == <<state, runs>>

Final == {"denied", "expired", "completed", "failed"}
States == {"none", "pending", "approved", "lost"} \cup Final

Init ==
    /\ state = [id \in Requests |-> "none"]
    /\ runs  = [id \in Requests |-> 0]

Submit(id) ==
    /\ state[id] = "none"
    /\ state' = [state EXCEPT ![id] = "pending"]
    /\ UNCHANGED runs

\* A person settles a pending request.
Decide(id) ==
    /\ state[id] = "pending"
    /\ \E d \in {"approved", "denied"} : state' = [state EXCEPT ![id] = d]
    /\ UNCHANGED runs

\* Time settles any set of pending requests at once.
Expire(S) ==
    /\ \A id \in S : state[id] = "pending"
    /\ state' = [id \in Requests |-> IF id \in S THEN "expired" ELSE state[id]]
    /\ UNCHANGED runs

Run(id) ==
    /\ state[id] = "approved"
    /\ runs[id] = 0
    /\ runs' = [runs EXCEPT ![id] = 1]
    /\ UNCHANGED state

\* The result is recorded; "completed" may say more or less of the command.
Finish(id) ==
    /\ state[id] = "approved"
    /\ \/ /\ TellsRuns => runs[id] = 1
          /\ state' = [state EXCEPT ![id] = "completed"]
       \/ state' = [state EXCEPT ![id] = "failed"]
    /\ UNCHANGED runs

\* The process that held the table in memory is gone.
Vanish ==
    /\ MayVanish
    /\ state' = [id \in Requests |-> IF state[id] = "none" THEN "none" ELSE "lost"]
    /\ UNCHANGED runs

Next ==
    \/ \E id \in Requests : Submit(id) \/ Decide(id) \/ Run(id) \/ Finish(id)
    \/ \E S \in SUBSET Requests : Expire(S)
    \/ Vanish

Spec == Init /\ [][Next]_lifecycleVars

-----------------------------------------------------------------------------
(* What follows for whoever implements this module *)

\* A command runs at most once and only after an approval, and where "completed" tells
\* runs, only a command that ran is reported so; a denial and an expiry exclude a run for
\* ever.
RunsAsApproved ==
    \A id \in Requests :
        /\ runs[id] \in {0, 1}
        /\ runs[id] = 1 => state[id] \in {"approved", "completed", "failed", "lost"}
        /\ TellsRuns /\ state[id] = "completed" => runs[id] = 1

\* Where a request may be after one step from s: forward in its life, or lost with the
\* process.
After(s) ==
    CASE s = "none" -> {"none", "pending"}
      [] s = "pending" -> {"pending", "approved", "denied", "expired"}
      [] s = "approved" -> {"approved", "completed", "failed"}
      [] OTHER -> {s}

\* A decision is never revised, no step skips the approval, and nothing but the end of a
\* process that kept the table in memory takes a request away.
LivesForward ==
    [][\A id \in Requests : \/ state'[id] \in After(state[id])
                            \/ MayVanish /\ state'[id] = "lost" /\ state[id] # "none"
      ]_lifecycleVars
=============================================================================
